-------------------------- MODULE ReflectionProofs --------------------------
(***************************************************************************)
(* Proofs about ReflectionService, for every set of files, however they    *)
(* import each other, and every report of an upstream.                     *)
(***************************************************************************)
EXTENDS ReflectionService, FiniteSetTheorems, WellFoundedInduction, TLAPS

-----------------------------------------------------------------------------
(* Closures.                                                               *)

(* The files a file brings with it include itself and are closed.          *)
LEMMA ClosureFacts ==
  ASSUME NEW f \in File
  PROVE  /\ f \in Closure[f]
         /\ Closure[f] \subseteq File
         /\ \A g \in Closure[f] : Closure[g] \subseteq Closure[f]
  <1>1. f \in Closure[f] /\ Closure[f] \subseteq File
    BY DEF Closure
  <1>2. ASSUME NEW g \in Closure[f], NEW h \in Closure[g]
        PROVE  h \in Closure[f]
    <2>1. g \in File /\ h \in File
      BY <1>1 DEF Closure
    <2>2. ASSUME NEW T \in SUBSET File, f \in T, \A k \in T : Imports[k] \subseteq T
          PROVE  h \in T
      <3>1. g \in T
        BY <2>2 DEF Closure
      <3> QED BY <2>1, <2>2, <3>1 DEF Closure
    <2> QED BY <2>1, <2>2 DEF Closure
  <1> QED BY <1>1, <1>2

(* A nonempty set of indices has a greatest one: of the intervals from its *)
(* members to n, the smallest by inclusion is the one of the greatest.     *)
LEMMA MaxIndex ==
  ASSUME NEW n \in Nat, NEW I \in SUBSET (1 .. n), I # {}
  PROVE  \E m \in I : \A j \in I : j <= m
  <1> DEFINE D == {i .. n : i \in I}
             R == StrictSubsetOrdering(1 .. n)
  <1>1. IsWellFoundedOn(R, FiniteSubsetsOf(1 .. n))
    BY FS_StrictSubsetOrderingWellFounded
  <1>2. FiniteSubsetsOf(1 .. n) = SUBSET (1 .. n)
    <2>1. IsFiniteSet(1 .. n)
      BY FS_Interval
    <2> QED BY <2>1, FS_FiniteSubsetsOfFinite
  <1>3. D # {} /\ D \subseteq SUBSET (1 .. n)
    <2>1. PICK i \in I : TRUE
      OBVIOUS
    <2>2. i .. n \in D
      OBVIOUS
    <2>3. ASSUME NEW j \in I PROVE j .. n \subseteq 1 .. n
      OBVIOUS
    <2> QED BY <2>2, <2>3
  <1>4. PICK d \in D : \A e \in D : ~(<<e, d>> \in R)
    <2> HIDE DEF D, R
    <2> QED BY <1>1, <1>2, <1>3, WFMin
  <1>5. PICK m \in I : d = m .. n
    BY <1>4
  <1>6. ASSUME NEW j \in I, j > m PROVE FALSE
    <2>1. (j .. n) \subseteq d /\ m \in d /\ m \notin j .. n
      BY <1>5, <1>6
    <2>2. j .. n \in D
      OBVIOUS
    <2>3. <<j .. n, d>> \in R
      BY <2>1, <2>2, <1>3, <1>4 DEF StrictSubsetOrdering
    <2> QED BY <1>4, <2>2, <2>3
  <1> QED BY <1>6

-----------------------------------------------------------------------------
(* Registration.                                                           *)

(* What a list of files brings is closed under imports.                    *)
LEMMA LoadedFacts ==
  ASSUME NEW list \in Seq(File)
  PROVE  /\ Loaded(list) \subseteq File
         /\ \A f \in Loaded(list) : Closure[f] \subseteq Loaded(list)
  BY ClosureFacts DEF Loaded

(* The entry that a registration makes for x is a file of the list that    *)
(* has x, and there is one if any file has it.                             *)
LEMMA LastFacts ==
  ASSUME NEW list \in Seq(File), NEW has, NEW x
  PROVE  LET f == Last(list, has, x)
         IN \/ f = None /\ \A g \in Loaded(list) : x \notin has[g]
            \/ f \in Loaded(list) /\ x \in has[f]
  <1> DEFINE I == {i \in DOMAIN list : \E f \in Closure[list[i]] : x \in has[f]}
             m == CHOOSE i \in I : \A j \in I : j <= i
  <1>1. CASE I = {}
    <2>1. Last(list, has, x) = None
      BY <1>1 DEF Last
    <2> QED BY <1>1, <2>1 DEF Loaded
  <1>2. CASE I # {}
    <2>1. Len(list) \in Nat /\ I \in SUBSET (1 .. Len(list))
      OBVIOUS
    <2>2. \E i \in I : \A j \in I : j <= i
      <3> HIDE DEF I
      <3> QED BY <1>2, <2>1, MaxIndex
    <2>3. m \in I
      <3> HIDE DEF I
      <3> QED BY <2>2
    <2>4. Last(list, has, x) = CHOOSE f \in Closure[list[m]] : x \in has[f]
      BY <1>2 DEF Last
    <2>5. \E f \in Closure[list[m]] : x \in has[f]
      <3> HIDE DEF m
      <3> QED BY <2>3
    <2>6. Last(list, has, x) \in Closure[list[m]] /\ x \in has[Last(list, has, x)]
      <3> HIDE DEF m
      <3> QED BY <2>4, <2>5
    <2>7. m \in DOMAIN list
      <3> HIDE DEF m
      <3> QED BY <2>3
    <2> QED
      <3> HIDE DEF m
      <3> QED BY <2>6, <2>7 DEF Loaded
  <1> QED BY <1>1, <1>2

(* A registration keeps a map a map, forgets no entry, enters everything   *)
(* the list has, and enters nothing that is not in the list.               *)
LEMMA OverFacts ==
  ASSUME NEW X, NEW map \in [X -> File \cup {None}],
         NEW list \in Seq(File), NEW has
  PROVE  LET new == Over(map, list, has)
         IN /\ new \in [X -> File \cup {None}]
            /\ \A x \in X : map[x] # None => new[x] # None
            /\ \A x \in X : (\E f \in Loaded(list) : x \in has[f]) => new[x] # None
            /\ \A x \in X : \/ new[x] = map[x]
                            \/ new[x] \in Loaded(list) /\ x \in has[new[x]]
  <1> DEFINE new == Over(map, list, has)
  <1>1. new = [x \in X |-> IF Last(list, has, x) = None THEN map[x]
                                                       ELSE Last(list, has, x)]
    BY DEF Over
  <1>2. Loaded(list) \subseteq File /\ None \notin File
    BY LoadedFacts, NoneAssumption
  <1> HIDE DEF new
  <1>3. ASSUME NEW x \in X
        PROVE  /\ new[x] \in File \cup {None}
               /\ map[x] # None => new[x] # None
               /\ (\E f \in Loaded(list) : x \in has[f]) => new[x] # None
               /\ \/ new[x] = map[x]
                  \/ new[x] \in Loaded(list) /\ x \in has[new[x]]
    <2>1. \/ Last(list, has, x) = None /\ \A g \in Loaded(list) : x \notin has[g]
          \/ Last(list, has, x) \in Loaded(list) /\ x \in has[Last(list, has, x)]
      BY LastFacts
    <2>2. new[x] = IF Last(list, has, x) = None THEN map[x] ELSE Last(list, has, x)
      BY <1>1
    <2> QED BY <1>2, <2>1, <2>2
  <1>4. new \in [X -> File \cup {None}]
    BY <1>1, <1>3
  <1> QED BY <1>3, <1>4 DEF new

-----------------------------------------------------------------------------
(* The inductive invariant.                                                *)

(* A file that was registered: nothing of it is missing from the maps,     *)
(* though entries may since be of other files.                             *)
Registered(f) ==
  /\ files[PathOf[f]] # None
  /\ \A s \in Declares[f] : descriptors[s] # None
  /\ \A e \in Extends[f] : extensionMap[e] # None
  /\ Messages[f] \subseteq types

(* A file that was registered with all it brings.                          *)
Whole(f) == \A g \in Closure[f] : Registered(g)

(* The entries of the maps are under names that their files have.          *)
MapsMatch ==
  /\ files \in [Path -> File \cup {None}]
  /\ descriptors \in [Symbol -> File \cup {None}]
  /\ extensionMap \in [Extension -> File \cup {None}]
  /\ \A p \in Path : files[p] # None => PathOf[files[p]] = p
  /\ \A s \in Symbol : descriptors[s] # None => s \in Declares[descriptors[s]]
  /\ \A e \in Extension : extensionMap[e] # None => e \in Extends[extensionMap[e]]

(* A client that follows an entry finds all its imports.                   *)
MapsWhole ==
  /\ \A p \in Path : files[p] # None => Whole(files[p])
  /\ \A s \in Symbol : descriptors[s] # None => Whole(descriptors[s])
  /\ \A e \in Extension : extensionMap[e] # None => Whole(extensionMap[e])

(* What clients were told of is in the maps.                               *)
ToldIsFound ==
  /\ \A f \in received : Registered(f)
  /\ \A e \in numbered : extensionMap[e] # None
  /\ \A s \in fetched : s \in Symbol /\ descriptors[s] # None
  /\ pending # None => \A s \in Declared(pending.files) : descriptors[s] # None

Found == {"file", "symbol", "extension"}

(* The lookup of a request will succeed.                                   *)
Answerable(r) ==
  /\ r.kind \in Found \cup {"numbers"}
  /\ r.kind = "file" => files[r.arg] # None
  /\ r.kind = "symbol" => descriptors[r.arg] # None
  /\ r.kind = "extension" => extensionMap[r.arg] # None
  /\ r.kind = "numbers" => r.arg \in types

(* The handler works on what the client asked last.                        *)
HandlerConsistent ==
  /\ request \in Requests("v1")
  /\ pc # "recv" => request = [asked EXCEPT !.api = "v1"]
  /\ pc = "build" => /\ request.kind \in Found
                     /\ Contains(found, request)
                     /\ Whole(found)
  /\ pc = "lookup" /\ due => Answerable(request)

(* The handler remembers exactly what the client has.                      *)
SentIsReceived == sent = PathsOf(received)

(* The types of the variables, with the requests TypeOK says less about.   *)
Types ==
  /\ TypeOK
  /\ asked \in Requests(api)

IInv ==
  /\ Types
  /\ MapsMatch /\ MapsWhole
  /\ ToldIsFound
  /\ HandlerConsistent
  /\ SentIsReceived
  /\ ImportsArrive
  /\ PromisesAreKept
  /\ AnswersMatchRequests

-----------------------------------------------------------------------------
(* Requests.                                                               *)

(* What the requests of a protocol version are made of.                    *)
LEMMA RequestFields ==
  ASSUME NEW a, NEW r \in Requests(a)
  PROVE  /\ r = [api |-> a, kind |-> r.kind, arg |-> r.arg]
         /\ r.kind \in Cases \cup {"unset"}
         /\ r.kind = "file" => r.arg \in Path
         /\ r.kind = "symbol" => r.arg \in Symbol
         /\ r.kind = "extension" => r.arg \in Extension
         /\ r.kind \in {"list", "unset"} => r.arg = None
  <1>1. PICK k \in DOMAIN Arguments : r \in [api : {a}, kind : {k}, arg : Arguments[k]]
    BY DEF Requests
  <1>2. k \in {"list", "numbers", "file", "extension", "symbol", "unset"}
    BY DEF Arguments
  <1>3. r = [api |-> a, kind |-> k, arg |-> r.arg] /\ r.kind = k /\ r.arg \in Arguments[k]
    BY <1>1
  <1> QED BY <1>2, <1>3 DEF Arguments, Cases

(* A request of one version is a request of the other, in its terms.       *)
LEMMA RequestConverted ==
  ASSUME NEW a, NEW b, NEW r \in Requests(a)
  PROVE  [r EXCEPT !.api = b] \in Requests(b)
  <1>1. PICK k \in DOMAIN Arguments : r \in [api : {a}, kind : {k}, arg : Arguments[k]]
    BY DEF Requests
  <1>2. [r EXCEPT !.api = b] \in [api : {b}, kind : {k}, arg : Arguments[k]]
    BY <1>1
  <1> QED BY <1>1, <1>2 DEF Requests

LEMMA NoRequestIsUnset ==
  ASSUME NEW a
  PROVE  [NoRequest EXCEPT !.api = a] \in Requests(a)
  <1>1. "unset" \in DOMAIN Arguments /\ Arguments["unset"] = {None}
    BY DEF Arguments
  <1>2. [NoRequest EXCEPT !.api = a] \in [api : {a}, kind : {"unset"}, arg : Arguments["unset"]]
    BY <1>1 DEF NoRequest
  <1> QED BY <1>1, <1>2 DEF Requests

(* The adapter's conversion loses nothing of a client's request.           *)
LEMMA ConvertRequest ==
  ASSUME NEW r \in Requests("v1alpha")
  PROVE  convertRequest(r) = [r EXCEPT !.api = "v1"]
  <1>1. CASE r.kind \in Cases
    BY <1>1 DEF convertRequest
  <1>2. CASE r.kind \notin Cases
    <2>1. r = [api |-> "v1alpha", kind |-> "unset", arg |-> None]
      BY <1>2, RequestFields
    <2> QED BY <1>2, <2>1 DEF convertRequest, NoRequest
  <1> QED BY <1>1, <1>2

-----------------------------------------------------------------------------
(* Steps of the registry.                                                  *)

(* A step that leaves the registry alone leaves what is registered alone.  *)
LEMMA RegistryFrame ==
  ASSUME UNCHANGED registry
  PROVE  /\ \A f : Registered(f)' <=> Registered(f)
         /\ \A f : Whole(f)' <=> Whole(f)
         /\ \A r : Answerable(r)' <=> Answerable(r)
         /\ MapsMatch' <=> MapsMatch
         /\ MapsWhole' <=> MapsWhole
  <1> USE DEF registry
  <1>1. \A f : Registered(f)' <=> Registered(f)
    BY DEF Registered
  <1>2. \A f : Whole(f)' <=> Whole(f)
    BY <1>1 DEF Whole
  <1>3. \A r : Answerable(r)' <=> Answerable(r)
    BY DEF Answerable
  <1>4. MapsMatch' <=> MapsMatch
    BY DEF MapsMatch
  <1>5. MapsWhole' <=> MapsWhole
    BY <1>2 DEF MapsWhole
  <1> QED BY <1>1, <1>2, <1>3, <1>4, <1>5

(* A registration registers its list and forgets nothing.                  *)
LEMMA RegisterGrows ==
  ASSUME MapsMatch, NEW list \in Seq(File), RegisterFiles(list)
  PROVE  /\ MapsMatch'
         /\ \A p \in Path : files[p] # None => files'[p] # None
         /\ \A s \in Symbol : descriptors[s] # None => descriptors'[s] # None
         /\ \A e \in Extension : extensionMap[e] # None => extensionMap'[e] # None
         /\ types \subseteq types'
         /\ \A f \in Loaded(list) : Registered(f)'
         /\ \A p \in Path : files'[p] = files[p] \/ files'[p] \in Loaded(list)
         /\ \A s \in Symbol : \/ descriptors'[s] = descriptors[s]
                              \/ descriptors'[s] \in Loaded(list)
         /\ \A e \in Extension : \/ extensionMap'[e] = extensionMap[e]
                                 \/ extensionMap'[e] \in Loaded(list)
  <1>0. Loaded(list) \subseteq File /\ None \notin File
    BY LoadedFacts, NoneAssumption
  <1>1. /\ files' \in [Path -> File \cup {None}]
        /\ \A p \in Path : files[p] # None => files'[p] # None
        /\ \A p \in Path : (\E f \in Loaded(list) : p \in Names[f]) => files'[p] # None
        /\ \A p \in Path : \/ files'[p] = files[p]
                           \/ files'[p] \in Loaded(list) /\ p \in Names[files'[p]]
    BY OverFacts DEF MapsMatch, RegisterFiles
  <1>2. /\ descriptors' \in [Symbol -> File \cup {None}]
        /\ \A s \in Symbol : descriptors[s] # None => descriptors'[s] # None
        /\ \A s \in Symbol : (\E f \in Loaded(list) : s \in Declares[f]) => descriptors'[s] # None
        /\ \A s \in Symbol : \/ descriptors'[s] = descriptors[s]
                             \/ /\ descriptors'[s] \in Loaded(list)
                                /\ s \in Declares[descriptors'[s]]
    BY OverFacts DEF MapsMatch, RegisterFiles
  <1>3. /\ extensionMap' \in [Extension -> File \cup {None}]
        /\ \A e \in Extension : extensionMap[e] # None => extensionMap'[e] # None
        /\ \A e \in Extension :
             (\E f \in Loaded(list) : e \in Extends[f]) => extensionMap'[e] # None
        /\ \A e \in Extension : \/ extensionMap'[e] = extensionMap[e]
                                \/ /\ extensionMap'[e] \in Loaded(list)
                                   /\ e \in Extends[extensionMap'[e]]
    BY OverFacts DEF MapsMatch, RegisterFiles
  <1>4. /\ types \subseteq types'
        /\ \A f \in Loaded(list) : Messages[f] \subseteq types'
    BY DEF RegisterFiles, LoadedTypes
  <1>5. \A f \in File : Names[f] = {PathOf[f]} /\ PathOf[f] \in Path
    BY FilesAssumption DEF Names
  <1>6. MapsMatch'
    BY <1>0, <1>1, <1>2, <1>3, <1>5 DEF MapsMatch
  <1>7. ASSUME NEW f \in Loaded(list)
        PROVE  Registered(f)'
    <2>1. files'[PathOf[f]] # None
      BY <1>0, <1>1, <1>5
    <2>2. \A s \in Declares[f] : descriptors'[s] # None
      BY <1>0, <1>2, FilesAssumption
    <2>3. \A e \in Extends[f] : extensionMap'[e] # None
      BY <1>0, <1>3, FilesAssumption
    <2> QED BY <1>4, <2>1, <2>2, <2>3 DEF Registered
  <1> QED BY <1>1, <1>2, <1>3, <1>4, <1>6, <1>7

(* So what was registered, whole or answerable stays so.                   *)
LEMMA RegisterKeeps ==
  ASSUME MapsMatch, NEW list \in Seq(File), RegisterFiles(list)
  PROVE  /\ \A f \in File : Registered(f) => Registered(f)'
         /\ \A f \in File : Whole(f) => Whole(f)'
         /\ \A f \in Loaded(list) : Whole(f)'
         /\ \A r \in Requests("v1") : Answerable(r) => Answerable(r)'
  <1>1. ASSUME NEW f \in File, Registered(f)
        PROVE  Registered(f)'
    <2>1. PathOf[f] \in Path /\ Declares[f] \subseteq Symbol /\ Extends[f] \subseteq Extension
      BY FilesAssumption
    <2> QED BY <1>1, <2>1, RegisterGrows DEF Registered
  <1>2. ASSUME NEW f \in File, Whole(f)
        PROVE  Whole(f)'
    BY <1>1, <1>2, ClosureFacts DEF Whole
  <1>3. ASSUME NEW f \in Loaded(list)
        PROVE  Whole(f)'
    BY RegisterGrows, LoadedFacts DEF Whole
  <1>4. ASSUME NEW r \in Requests("v1"), Answerable(r)
        PROVE  Answerable(r)'
    <2>1. /\ r.kind = "file" => r.arg \in Path
          /\ r.kind = "symbol" => r.arg \in Symbol
          /\ r.kind = "extension" => r.arg \in Extension
      BY RequestFields
    <2> QED BY <1>4, <2>1, RegisterGrows DEF Answerable
  <1> QED BY <1>1, <1>2, <1>3, <1>4

(* The entries of the maps are whole afterwards.                           *)
LEMMA RegisterWhole ==
  ASSUME MapsMatch, MapsWhole, NEW list \in Seq(File), RegisterFiles(list)
  PROVE  MapsWhole'
  <1>1. ASSUME NEW p \in Path, files'[p] # None
        PROVE  Whole(files[p])'
    <2>1. CASE files'[p] = files[p]
      BY <1>1, <2>1, RegisterKeeps DEF MapsMatch, MapsWhole
    <2>2. CASE files'[p] \in Loaded(list)
      BY <2>2, RegisterKeeps
    <2> QED BY <2>1, <2>2, RegisterGrows
  <1>2. ASSUME NEW s \in Symbol, descriptors'[s] # None
        PROVE  Whole(descriptors[s])'
    <2>1. CASE descriptors'[s] = descriptors[s]
      BY <1>2, <2>1, RegisterKeeps DEF MapsMatch, MapsWhole
    <2>2. CASE descriptors'[s] \in Loaded(list)
      BY <2>2, RegisterKeeps
    <2> QED BY <2>1, <2>2, RegisterGrows
  <1>3. ASSUME NEW e \in Extension, extensionMap'[e] # None
        PROVE  Whole(extensionMap[e])'
    <2>1. CASE extensionMap'[e] = extensionMap[e]
      BY <1>3, <2>1, RegisterKeeps DEF MapsMatch, MapsWhole
    <2>2. CASE extensionMap'[e] \in Loaded(list)
      BY <2>2, RegisterKeeps
    <2> QED BY <2>1, <2>2, RegisterGrows
  <1> QED BY <1>1, <1>2, <1>3 DEF MapsWhole

(* The steps of replaceServices preserve the invariant.                    *)
LEMMA RegisterStep ==
  ASSUME IInv, NEW r \in Reports, Register(r)
  PROVE  IInv'
  <1> USE DEF Register, handler, client
  <1>0. r.files \in Seq(File) /\ RegisterFiles(r.files) /\ MapsMatch /\ MapsWhole
    BY ReportsAssumption DEF IInv
  <1>1. Types'
    <2>1. types' \subseteq Symbol
      <3>1. LoadedTypes(r.files) \subseteq Symbol
        BY <1>0, LoadedFacts, FilesAssumption DEF LoadedTypes
      <3> QED BY <1>0, <3>1 DEF IInv, Types, TypeOK, RegisterFiles
    <2>2. MapsMatch'
      BY <1>0, RegisterGrows
    <2> QED BY <2>1, <2>2 DEF IInv, Types, TypeOK, MapsMatch, Requests
  <1>2. MapsMatch' /\ MapsWhole'
    BY <1>0, RegisterGrows, RegisterWhole
  <1>3. ToldIsFound'
    <2>1. received \subseteq File /\ numbered \subseteq Extension
      BY DEF IInv, Types, TypeOK
    <2>2. \A f \in received' : Registered(f)'
      BY <1>0, <2>1, RegisterKeeps DEF IInv, ToldIsFound
    <2>3. /\ \A e \in numbered' : extensionMap'[e] # None
          /\ \A s \in fetched' : s \in Symbol /\ descriptors'[s] # None
      BY <1>0, <2>1, RegisterGrows DEF IInv, ToldIsFound
    <2>4. \A s \in Declared(r.files) : descriptors'[s] # None
      BY <1>0, RegisterGrows DEF Declared, Registered
    <2> QED BY <2>2, <2>3, <2>4 DEF ToldIsFound
  <1>4. HandlerConsistent'
    <2>1. pc = "build" => found \in File /\ Whole(found)
      BY DEF IInv, Types, TypeOK, HandlerConsistent
    <2>2. pc = "build" => Whole(found)'
      BY <1>0, <2>1, RegisterKeeps
    <2>3. pc = "lookup" /\ due => Answerable(request)'
      BY <1>0, RegisterKeeps DEF IInv, HandlerConsistent
    <2> QED BY <2>2, <2>3 DEF IInv, HandlerConsistent, Contains, Requests
  <1>5. SentIsReceived' /\ ImportsArrive' /\ PromisesAreKept' /\ AnswersMatchRequests'
    BY DEF IInv, SentIsReceived, ImportsArrive, PromisesAreKept, AnswersMatchRequests,
           PathsOf, Contains
  <1> QED BY <1>1, <1>2, <1>3, <1>4, <1>5 DEF IInv

LEMMA PublishStep ==
  ASSUME IInv, Publish
  PROVE  IInv'
  <1> USE DEF Publish, handler, client
  <1>0. pending \in Reports /\ pending.files \in Seq(File)
    BY ReportsAssumption DEF IInv, Types, TypeOK, Publish
  <1>1. Types'
    BY <1>0, ReportsAssumption, NoneAssumption DEF IInv, Types, TypeOK, Requests
  <1>2. MapsMatch' /\ MapsWhole'
    BY DEF IInv, MapsMatch, MapsWhole, Whole, Registered
  <1>3. ToldIsFound'
    <2>1. \A s \in pending.services \cap Declared(pending.files) :
            s \in Symbol /\ descriptors[s] # None
      BY <1>0, ReportsAssumption DEF IInv, ToldIsFound
    <2> QED BY <2>1 DEF IInv, ToldIsFound, Registered
  <1>4. HandlerConsistent'
    BY DEF IInv, HandlerConsistent, Contains, Whole, Registered, Answerable, Requests
  <1>5. SentIsReceived' /\ ImportsArrive' /\ PromisesAreKept' /\ AnswersMatchRequests'
    BY DEF IInv, SentIsReceived, ImportsArrive, PromisesAreKept, AnswersMatchRequests,
           PathsOf, Contains
  <1> QED BY <1>1, <1>2, <1>3, <1>4, <1>5 DEF IInv

-----------------------------------------------------------------------------
(* Steps of the client.                                                    *)

(* The handler looks for what the client asked.                            *)
LEMMA AskConverts ==
  ASSUME IInv, NEW r \in Requests(api), Ask(r)
  PROVE  /\ request' \in Requests("v1")
         /\ request' = [r EXCEPT !.api = "v1"]
         /\ request'.kind = r.kind /\ request'.arg = r.arg
  <1>1. request' = [r EXCEPT !.api = "v1"]
    <2>1. CASE api = "v1"
      <3>1. r = [api |-> "v1", kind |-> r.kind, arg |-> r.arg]
        BY <2>1, RequestFields
      <3> QED BY <2>1, <3>1 DEF Ask
    <2>2. CASE api # "v1"
      <3>1. api = "v1alpha"
        BY <2>2 DEF IInv, Types, TypeOK, Api
      <3> QED BY <2>2, <3>1, ConvertRequest DEF Ask
    <2> QED BY <2>1, <2>2
  <1>2. r = [api |-> api, kind |-> r.kind, arg |-> r.arg]
    BY RequestFields
  <1>3. request' = [api |-> "v1", kind |-> r.kind, arg |-> r.arg]
    BY <1>1, <1>2
  <1> QED BY <1>1, <1>3, RequestConverted

LEMMA AskStep ==
  ASSUME IInv, NEW r \in Requests(api), Ask(r)
  PROVE  IInv'
  <1>1. Types'
    <2>1. r.api = api /\ request'.api = "v1"
      BY RequestFields, AskConverts
    <2>2. Promised(r) \in BOOLEAN
      BY DEF Promised
    <2> QED BY <2>1, <2>2 DEF IInv, Types, TypeOK, Ask, registry
  <1>2. MapsMatch' /\ MapsWhole'
    BY RegistryFrame DEF IInv, Ask
  <1>3. ToldIsFound'
    BY RegistryFrame DEF IInv, ToldIsFound, Ask, registry
  <1>4. HandlerConsistent'
    <2>1. Promised(r) => Answerable(request')
      <3>1. ASSUME Promised(r) PROVE Answerable(request')
        <4>1. received \subseteq File
          BY DEF IInv, Types, TypeOK
        <4>2. CASE r.kind = "file" /\ r.arg \in PathsOf(received)
          BY <4>2, AskConverts DEF IInv, ToldIsFound, Registered, PathsOf, Answerable, Found
        <4>3. CASE r.kind = "symbol" /\ \E f \in received : r.arg \in Declares[f]
          BY <4>3, AskConverts DEF IInv, ToldIsFound, Registered, Answerable, Found
        <4>4. CASE r.kind = "symbol" /\ r.arg \in listed \cap fetched
          BY <4>4, AskConverts DEF IInv, ToldIsFound, Answerable, Found
        <4>5. CASE r.kind = "extension" /\ r.arg \in numbered
          BY <4>5, AskConverts DEF IInv, ToldIsFound, Answerable, Found
        <4>6. CASE r.kind = "extension" /\ \E f \in received : r.arg \in Extends[f]
          BY <4>6, AskConverts DEF IInv, ToldIsFound, Registered, Answerable, Found
        <4>7. CASE r.kind = "numbers" /\ \E f \in received : r.arg \in Messages[f]
          BY <4>7, AskConverts DEF IInv, ToldIsFound, Registered, Answerable, Found
        <4> QED BY <3>1, <4>2, <4>3, <4>4, <4>5, <4>6, <4>7 DEF Promised
      <3> QED BY <3>1
    <2>2. due' => Answerable(request)'
      BY <2>1 DEF Ask, registry, Answerable
    <2>3. pc' = "lookup" /\ asked' = r
      BY DEF Ask
    <2> QED BY <2>2, <2>3, AskConverts DEF HandlerConsistent
  <1>5. SentIsReceived' /\ ImportsArrive' /\ PromisesAreKept' /\ AnswersMatchRequests'
    BY DEF IInv, SentIsReceived, ImportsArrive, PromisesAreKept, AnswersMatchRequests,
           PathsOf, Ask
  <1> QED BY <1>1, <1>2, <1>3, <1>4, <1>5 DEF IInv

LEMMA ConnectStep ==
  ASSUME IInv, NEW a \in Api, Connect(a)
  PROVE  IInv'
  <1> USE DEF Connect
  <1>1. Types'
    <2>1. asked' \in Requests(a)
      BY NoRequestIsUnset
    <2>2. asked'.api = a
      BY DEF NoRequest
    <2> QED BY <2>1, <2>2 DEF IInv, Types, TypeOK, registry
  <1>2. MapsMatch' /\ MapsWhole'
    BY RegistryFrame DEF IInv
  <1>3. ToldIsFound'
    BY DEF IInv, ToldIsFound, registry
  <1>4. HandlerConsistent'
    BY DEF IInv, HandlerConsistent, Requests
  <1>5. SentIsReceived' /\ ImportsArrive' /\ PromisesAreKept' /\ AnswersMatchRequests'
    BY DEF SentIsReceived, ImportsArrive, PromisesAreKept, AnswersMatchRequests, PathsOf
  <1> QED BY <1>1, <1>2, <1>3, <1>4, <1>5 DEF IInv

-----------------------------------------------------------------------------
(* Steps of the handler.                                                   *)

(* What a response becomes on its way to the client.                       *)
Sent(m) == IF api = "v1" THEN m ELSE convertResponse(m)

(* A response that names its request arrives under the request the client  *)
(* asked, and any response keeps its kind and content.                     *)
LEMMA ResponseConverted ==
  ASSUME IInv, pc # "recv", NEW kind, NEW content
  PROVE  /\ Sent(Response(request, kind, content)) =
              [api |-> api, original |-> asked, kind |-> kind, content |-> content]
         /\ request # None
  <1>1. asked = [api |-> api, kind |-> asked.kind, arg |-> asked.arg]
    BY RequestFields DEF IInv, Types
  <1>2. request = [api |-> "v1", kind |-> asked.kind, arg |-> asked.arg]
    BY <1>1 DEF IInv, HandlerConsistent
  <1>3. request # None
    BY NoneAssumption DEF IInv, HandlerConsistent, Api
  <1>4. CASE api = "v1"
    BY <1>1, <1>2, <1>3, <1>4 DEF Sent, Response
  <1>5. CASE api = "v1alpha"
    <2>1. [request EXCEPT !.api = "v1alpha"] = asked
      BY <1>1, <1>2, <1>5
    <2>2. convertOriginalRequest(request) = asked
      BY <1>3, <2>1 DEF convertOriginalRequest
    <2> QED BY <1>3, <1>5, <2>2 DEF Sent, Response, convertResponse
  <1> QED BY <1>3, <1>4, <1>5 DEF IInv, Types, TypeOK, Api

(* An error arrives without a request.                                     *)
LEMMA ErrorConverted ==
  ASSUME IInv, NEW code
  PROVE  Sent(ErrorResponse(code)) =
           [api |-> api, original |-> None, kind |-> "error", content |-> code]
  <1>1. CASE api = "v1"
    BY <1>1 DEF Sent, ErrorResponse, Response
  <1>2. CASE api = "v1alpha"
    BY <1>2 DEF Sent, ErrorResponse, Response, convertResponse, convertOriginalRequest
  <1> QED BY <1>1, <1>2 DEF IInv, Types, TypeOK, Api

(* A step of the handler that ends the handling of a request preserves     *)
(* what does not depend on the response.                                   *)
LEMMA SendFrame ==
  ASSUME IInv, pc' = "recv", UNCHANGED <<registry, api, request, asked, due>>,
         received' \in SUBSET File, listed' \in SUBSET Symbol,
         numbered' \in SUBSET Extension, sent' \in SUBSET Path, found' = None
  PROVE  /\ Types'
         /\ MapsMatch' /\ MapsWhole'
         /\ HandlerConsistent'
  <1>1. Types'
    BY DEF IInv, Types, TypeOK, registry
  <1>2. MapsMatch' /\ MapsWhole'
    BY RegistryFrame DEF IInv
  <1>3. HandlerConsistent'
    <2>1. request' \in Requests("v1")
      BY DEF IInv, HandlerConsistent
    <2> QED BY <2>1 DEF HandlerConsistent
  <1> QED BY <1>1, <1>2, <1>3

LEMMA ListServicesStep ==
  ASSUME IInv, ListServices
  PROVE  IInv'
  <1> DEFINE services == names \ ReflectionNames
  <1>0. /\ pc = "lookup" /\ pc' = "recv" /\ request.kind = "list"
        /\ reply' = Sent(Response(request, "services", services))
        /\ listed' = listed \cup services
        /\ UNCHANGED <<registry, api, request, found, sent, asked, received, numbered, due>>
    BY DEF ListServices, Send, Sent
  <1> HIDE DEF services
  <1>1. services \subseteq Symbol /\ found = None
    BY <1>0 DEF services, IInv, Types, TypeOK
  <1>2. Types' /\ MapsMatch' /\ MapsWhole' /\ HandlerConsistent'
    BY <1>0, <1>1, SendFrame DEF IInv, Types, TypeOK
  <1>3. ToldIsFound' /\ SentIsReceived' /\ ImportsArrive'
    BY <1>0 DEF IInv, ToldIsFound, SentIsReceived, ImportsArrive, PathsOf, registry, Registered
  <1>4. reply' = [api |-> api, original |-> asked, kind |-> "services", content |-> services]
    BY <1>0, ResponseConverted
  <1>5. asked.kind = "list"
    <2>1. asked = [api |-> api, kind |-> asked.kind, arg |-> asked.arg]
      BY RequestFields DEF IInv, Types
    <2> QED BY <1>0, <2>1 DEF IInv, HandlerConsistent
  <1>6. PromisesAreKept' /\ AnswersMatchRequests'
    BY <1>0, <1>4, <1>5 DEF PromisesAreKept, AnswersMatchRequests, Expected
  <1> QED BY <1>2, <1>3, <1>6 DEF IInv

LEMMA UnknownRequestStep ==
  ASSUME IInv, UnknownRequest
  PROVE  IInv'
  <1>0. /\ pc = "lookup" /\ pc' = "recv" /\ request.kind \notin Cases
        /\ reply' = Sent(ErrorResponse("Unimplemented"))
        /\ UNCHANGED <<registry, api, request, found, sent,
                       asked, received, listed, numbered, due>>
    BY DEF UnknownRequest, Send, Sent
  <1>1. found = None
    BY <1>0 DEF IInv, Types, TypeOK
  <1>2. Types' /\ MapsMatch' /\ MapsWhole' /\ HandlerConsistent'
    BY <1>0, <1>1, SendFrame DEF IInv, Types, TypeOK
  <1>3. ToldIsFound' /\ SentIsReceived' /\ ImportsArrive'
    BY <1>0 DEF IInv, ToldIsFound, SentIsReceived, ImportsArrive, PathsOf, registry, Registered
  <1>4. reply' = [api |-> api, original |-> None, kind |-> "error",
                  content |-> "Unimplemented"]
    BY <1>0, ErrorConverted
  <1>5. asked.kind = "unset" /\ request.kind = "unset"
    <2>1. /\ asked = [api |-> api, kind |-> asked.kind, arg |-> asked.arg]
          /\ asked.kind \in Cases \cup {"unset"}
      BY RequestFields DEF IInv, Types
    <2> QED BY <1>0, <2>1 DEF IInv, HandlerConsistent
  <1>6. ~due
    BY <1>0, <1>5 DEF IInv, HandlerConsistent, Answerable, Found
  <1>7. PromisesAreKept' /\ AnswersMatchRequests'
    BY <1>0, <1>4, <1>5, <1>6 DEF PromisesAreKept, AnswersMatchRequests
  <1> QED BY <1>2, <1>3, <1>7 DEF IInv

LEMMA ExtensionNumbersStep ==
  ASSUME IInv, ExtensionNumbers
  PROVE  IInv'
  <1> DEFINE known == {e \in Extension : e[1] = request.arg /\ extensionMap[e] # None}
  <1>0. /\ pc = "lookup" /\ pc' = "recv" /\ request.kind = "numbers"
        /\ \/ /\ request.arg \in types
              /\ reply' = Sent(Response(request, "numbers", {e[2] : e \in known}))
              /\ numbered' = numbered \cup known
           \/ /\ request.arg \notin types
              /\ reply' = Sent(ErrorResponse("NotFound"))
              /\ numbered' = numbered
        /\ UNCHANGED <<registry, api, request, found, sent, asked, received, listed, due>>
    BY DEF ExtensionNumbers, Send, Sent
  <1>1. known \subseteq Extension /\ (\A e \in known : extensionMap[e] # None) /\ found = None
    BY <1>0 DEF IInv, Types, TypeOK
  <1> HIDE DEF known
  <1>2. Types' /\ MapsMatch' /\ MapsWhole' /\ HandlerConsistent'
    <2>1. numbered' \subseteq Extension
      BY <1>0, <1>1 DEF IInv, Types, TypeOK
    <2> QED BY <1>0, <1>1, <2>1, SendFrame DEF IInv, Types, TypeOK
  <1>3. ToldIsFound' /\ SentIsReceived' /\ ImportsArrive'
    BY <1>0, <1>1 DEF IInv, ToldIsFound, SentIsReceived, ImportsArrive, PathsOf, registry,
                      Registered
  <1>4. asked.kind = "numbers"
    <2>1. asked = [api |-> api, kind |-> asked.kind, arg |-> asked.arg]
      BY RequestFields DEF IInv, Types
    <2> QED BY <1>0, <2>1 DEF IInv, HandlerConsistent
  <1>5. CASE request.arg \in types
    <2>1. reply' = [api |-> api, original |-> asked, kind |-> "numbers",
                    content |-> {e[2] : e \in known}]
      BY <1>0, <1>5, ResponseConverted
    <2>2. PromisesAreKept' /\ AnswersMatchRequests'
      BY <1>0, <1>4, <2>1 DEF PromisesAreKept, AnswersMatchRequests, Expected
    <2> QED BY <1>2, <1>3, <2>2 DEF IInv
  <1>6. CASE request.arg \notin types
    <2>1. reply' = [api |-> api, original |-> None, kind |-> "error", content |-> "NotFound"]
      BY <1>0, <1>6, ErrorConverted
    <2>2. ~due
      BY <1>0, <1>6 DEF IInv, HandlerConsistent, Answerable
    <2>3. PromisesAreKept' /\ AnswersMatchRequests'
      BY <1>0, <1>4, <2>1, <2>2 DEF PromisesAreKept, AnswersMatchRequests
    <2> QED BY <1>2, <1>3, <2>3 DEF IInv
  <1> QED BY <1>5, <1>6

(* What a lookup finds has what was asked for, and all it imports is       *)
(* registered.                                                             *)
LEMMA ResolvedFacts ==
  ASSUME IInv, request.kind \in Found, Resolved # None
  PROVE  /\ Resolved \in File
         /\ Contains(Resolved, request)
         /\ Whole(Resolved)
  <1>0. MapsMatch /\ MapsWhole
    BY DEF IInv
  <1>1. /\ request.kind = "file" => request.arg \in Path
        /\ request.kind = "symbol" => request.arg \in Symbol
        /\ request.kind = "extension" => request.arg \in Extension
    BY RequestFields DEF IInv, HandlerConsistent
  <1>2. CASE request.kind = "file"
    <2>1. Resolved = files[request.arg]
      BY <1>2 DEF Resolved
    <2>2. Contains(Resolved, request) <=> PathOf[Resolved] = request.arg
      BY <1>2 DEF Contains
    <2> QED BY <1>0, <1>1, <1>2, <2>1, <2>2 DEF MapsMatch, MapsWhole
  <1>3. CASE request.kind = "symbol"
    <2>1. Resolved = descriptors[request.arg]
      BY <1>3 DEF Resolved
    <2>2. request.arg \in Declares[Resolved] => Contains(Resolved, request)
      BY <1>3 DEF Contains
    <2> QED BY <1>0, <1>1, <1>3, <2>1, <2>2 DEF MapsMatch, MapsWhole
  <1>4. CASE request.kind = "extension"
    <2>1. Resolved = extensionMap[request.arg]
      BY <1>4 DEF Resolved
    <2>2. request.arg \in Extends[Resolved] => Contains(Resolved, request)
      BY <1>4 DEF Contains
    <2> QED BY <1>0, <1>1, <1>4, <2>1, <2>2 DEF MapsMatch, MapsWhole
  <1> QED BY <1>2, <1>3, <1>4 DEF Found

LEMMA LookupStep ==
  ASSUME IInv, Lookup
  PROVE  IInv'
  <1>0. /\ pc = "lookup" /\ request.kind \in Found
        /\ UNCHANGED <<registry, api, request, sent, asked, received, listed, numbered, due>>
    BY DEF Lookup, Found
  <1>1. found = None /\ asked.kind = request.kind
    <2>1. asked = [api |-> api, kind |-> asked.kind, arg |-> asked.arg]
      BY RequestFields DEF IInv, Types
    <2> QED BY <1>0, <2>1 DEF IInv, Types, TypeOK, HandlerConsistent
  <1>2. ToldIsFound' /\ SentIsReceived' /\ ImportsArrive' /\ MapsMatch' /\ MapsWhole'
    BY <1>0, RegistryFrame DEF IInv, ToldIsFound, SentIsReceived, ImportsArrive, PathsOf,
                               registry
  <1>3. CASE Resolved = None
    <2>1. pc' = "recv" /\ reply' = Sent(ErrorResponse("NotFound")) /\ found' = None
      BY <1>1, <1>3 DEF Lookup, Send, Sent
    <2>2. Types' /\ HandlerConsistent'
      BY <1>0, <2>1, SendFrame DEF IInv, Types, TypeOK
    <2>3. reply' = [api |-> api, original |-> None, kind |-> "error", content |-> "NotFound"]
      BY <2>1, ErrorConverted
    <2>4. ~due
      <3>1. CASE request.kind = "file"
        BY <1>0, <1>3, <3>1 DEF Resolved, IInv, HandlerConsistent, Answerable
      <3>2. CASE request.kind = "symbol"
        BY <1>0, <1>3, <3>2 DEF Resolved, IInv, HandlerConsistent, Answerable
      <3>3. CASE request.kind = "extension"
        BY <1>0, <1>3, <3>3 DEF Resolved, IInv, HandlerConsistent, Answerable
      <3> QED BY <1>0, <3>1, <3>2, <3>3 DEF Found
    <2>5. PromisesAreKept' /\ AnswersMatchRequests'
      BY <1>0, <1>1, <2>1, <2>3, <2>4 DEF PromisesAreKept, AnswersMatchRequests, Found
    <2> QED BY <1>2, <2>2, <2>5 DEF IInv
  <1>4. CASE Resolved # None
    <2>1. pc' = "build" /\ reply' = reply /\ found' = Resolved
      BY <1>4 DEF Lookup
    <2>2. Resolved \in File /\ Contains(Resolved, request) /\ Whole(Resolved)
      BY <1>0, <1>4, ResolvedFacts
    <2>3. Types'
      BY <1>0, <2>1, <2>2 DEF IInv, Types, TypeOK, registry
    <2>4. HandlerConsistent'
      <3>1. Whole(found)'
        BY <1>0, <2>1, <2>2 DEF Whole, Registered, registry
      <3>2. Contains(found, request)'
        BY <1>0, <2>1, <2>2 DEF Contains
      <3> QED BY <1>0, <2>1, <3>1, <3>2 DEF IInv, HandlerConsistent, Requests
    <2>5. PromisesAreKept' /\ AnswersMatchRequests'
      BY <2>1 DEF PromisesAreKept, AnswersMatchRequests
    <2> QED BY <1>2, <2>3, <2>4, <2>5 DEF IInv
  <1> QED BY <1>3, <1>4

LEMMA BuildStep ==
  ASSUME IInv, Build
  PROVE  IInv'
  <1> DEFINE new == Files(found)
             content == [first |-> found, all |-> new]
  <1>0. /\ pc = "build" /\ pc' = "recv" /\ found' = None
        /\ reply' = Sent(Response(request, "files", content))
        /\ sent' = sent \cup PathsOf(new)
        /\ received' = received \cup new
        /\ UNCHANGED <<registry, api, request, asked, listed, numbered, due>>
    BY DEF Build, Send, Sent
  <1>1. found \in File
    BY <1>0 DEF IInv, Types, TypeOK
  <1>2. /\ new \subseteq Closure[found] /\ new \subseteq File /\ found \in new
        /\ \A g \in Closure[found] : PathOf[g] \in PathsOf(received) \cup PathsOf(new)
    BY <1>1, ClosureFacts DEF Files, IInv, SentIsReceived, PathsOf
  <1>3. asked.kind = request.kind /\ asked.arg = request.arg /\ request.kind \in Found
    <2>1. asked = [api |-> api, kind |-> asked.kind, arg |-> asked.arg]
      BY RequestFields DEF IInv, Types
    <2> QED BY <1>0, <2>1 DEF IInv, HandlerConsistent
  <1> HIDE DEF new
  <1>4. PathsOf(new) \subseteq Path /\ PathsOf(received \cup new) = PathsOf(received) \cup PathsOf(new)
    BY <1>2, FilesAssumption DEF PathsOf
  <1>5. Types' /\ MapsMatch' /\ MapsWhole' /\ HandlerConsistent'
    BY <1>0, <1>2, <1>4, SendFrame DEF IInv, Types, TypeOK
  <1>6. ToldIsFound'
    <2>1. \A f \in new : Registered(f)
      BY <1>0, <1>2 DEF IInv, HandlerConsistent, Whole
    <2>2. \A f \in received' : Registered(f)'
      BY <1>0, <2>1, RegistryFrame DEF IInv, ToldIsFound
    <2> QED BY <1>0, <2>2 DEF IInv, ToldIsFound, registry
  <1>7. SentIsReceived'
    BY <1>0, <1>4 DEF IInv, SentIsReceived, PathsOf
  <1>8. ImportsArrive'
    <2>1. PathsOf(received') = PathsOf(received) \cup PathsOf(new)
      BY <1>0, <1>4
    <2>2. ASSUME NEW f \in received
          PROVE  PathsOf(Closure[f]) \subseteq PathsOf(received')
      BY <2>1 DEF IInv, ImportsArrive
    <2>3. ASSUME NEW f \in new
          PROVE  PathsOf(Closure[f]) \subseteq PathsOf(received')
      <3>1. Closure[f] \subseteq Closure[found]
        BY <1>1, <1>2, ClosureFacts
      <3> QED BY <1>2, <2>1, <3>1 DEF PathsOf
    <2> QED BY <1>0, <2>2, <2>3 DEF ImportsArrive, PathsOf
  <1>9. reply' = [api |-> api, original |-> asked, kind |-> "files", content |-> content]
    BY <1>0, ResponseConverted
  <1>10. Contains(found, asked)
    BY <1>0, <1>3 DEF IInv, HandlerConsistent, Contains
  <1>11. PromisesAreKept' /\ AnswersMatchRequests'
    <2>1. reply'.content.first = found
      BY <1>9
    <2>2. Contains(reply.content.first, asked)'
      BY <1>0, <1>10, <2>1 DEF Contains
    <2> QED BY <1>0, <1>3, <1>9, <2>2 DEF PromisesAreKept, AnswersMatchRequests, Expected, Found
  <1> QED BY <1>5, <1>6, <1>7, <1>8, <1>11 DEF IInv

-----------------------------------------------------------------------------
(* Theorems.                                                               *)

LEMMA InitIInv == Init => IInv
  <1> SUFFICES ASSUME Init PROVE IInv
    OBVIOUS
  <1>1. Types
    <2>1. NoRequest.api = "v1" /\ asked.api = api
      BY DEF Init, NoRequest
    <2>2. asked \in Requests(api)
      BY NoRequestIsUnset DEF Init
    <2> QED BY <2>1, <2>2 DEF Init, Types, TypeOK
  <1>2. MapsMatch /\ MapsWhole
    BY DEF Init, MapsMatch, MapsWhole
  <1>3. HandlerConsistent
    <2>1. [NoRequest EXCEPT !.api = "v1"] = NoRequest
      BY DEF NoRequest
    <2>2. request \in Requests("v1")
      BY <2>1, NoRequestIsUnset DEF Init
    <2> QED BY <2>2 DEF Init, HandlerConsistent
  <1>4. /\ ToldIsFound /\ SentIsReceived /\ ImportsArrive
        /\ PromisesAreKept /\ AnswersMatchRequests
    BY DEF Init, ToldIsFound, SentIsReceived, PathsOf, ImportsArrive, PromisesAreKept,
           AnswersMatchRequests
  <1> QED BY <1>1, <1>2, <1>3, <1>4 DEF IInv

LEMMA StutterStep ==
  ASSUME IInv, UNCHANGED vars
  PROVE  IInv'
  <1> USE DEF vars, handler, client
  <1>1. Types'
    BY DEF IInv, Types, TypeOK, registry
  <1>2. MapsMatch' /\ MapsWhole'
    BY RegistryFrame DEF IInv
  <1>3. ToldIsFound' /\ SentIsReceived' /\ ImportsArrive'
    BY RegistryFrame DEF IInv, ToldIsFound, SentIsReceived, ImportsArrive, PathsOf, registry
  <1>4. HandlerConsistent'
    BY RegistryFrame DEF IInv, HandlerConsistent, Requests, Contains, Whole, Registered,
                         Answerable, registry
  <1>5. PromisesAreKept' /\ AnswersMatchRequests'
    BY DEF IInv, PromisesAreKept, AnswersMatchRequests, Contains
  <1> QED BY <1>1, <1>2, <1>3, <1>4, <1>5 DEF IInv

LEMMA StepIInv == IInv /\ [Next]_vars => IInv'
  <1> SUFFICES ASSUME IInv, [Next]_vars PROVE IInv'
    OBVIOUS
  <1>1. CASE UNCHANGED vars
    BY <1>1, StutterStep
  <1>2. CASE Next
    BY <1>2, RegisterStep, PublishStep, AskStep, ConnectStep, ListServicesStep,
       ExtensionNumbersStep, LookupStep, BuildStep, UnknownRequestStep DEF Next, Serve
  <1> QED BY <1>1, <1>2

LEMMA Invariance == Spec => []IInv
  BY InitIInv, StepIInv, PTL DEF Spec

(* The variables keep their types.                                         *)
THEOREM ReflectionTypes == Spec => []TypeOK
  <1>1. IInv => TypeOK
    BY DEF IInv, Types
  <1> QED BY <1>1, Invariance, PTL

(* Whatever versions of a file were registered in between, a client of the *)
(* reflection service (ServerReflectionInfo, fileDescWithDependencies) has *)
(* some version of every path that the files it received import.           *)
THEOREM ImportsAlwaysArrive == Spec => []ImportsArrive
  <1>1. IInv => ImportsArrive
    BY DEF IInv
  <1> QED BY <1>1, Invariance, PTL

(* Two versions of one path are the only reason why a client may be unable *)
(* to link: if what it received was linked with one version of each path,  *)
(* it has every file of it, as it was linked, whatever sentFileDescriptors *)
(* suppressed.                                                             *)
THEOREM OneVersionLinks ==
  Spec => [](OneVersion => \A f \in received : Closure[f] \subseteq received)
  <1>1. IInv => (OneVersion => \A f \in received : Closure[f] \subseteq received)
    <2> SUFFICES ASSUME IInv, OneVersion, NEW f \in received, NEW g \in Closure[f]
                 PROVE  g \in received
      OBVIOUS
    <2>1. PICK h \in received : PathOf[h] = PathOf[g]
      BY DEF IInv, ImportsArrive, PathsOf
    <2>2. h \in Closure[h]
      BY DEF IInv, Types, TypeOK, Closure
    <2>3. h = g
      BY <2>1, <2>2 DEF OneVersion
    <2> QED BY <2>3
  <1> QED BY <1>1, Invariance, PTL

(* Whatever replaceServices registers and in which order it interleaves    *)
(* with a stream, what a client was told of is found: the services that    *)
(* were listed, and of a received file what registerFileLocked goes        *)
(* through, its top level.                                                 *)
THEOREM ToldNamesAreFound == Spec => []PromisesAreKept
  <1>1. IInv => PromisesAreKept
    BY DEF IInv
  <1> QED BY <1>1, Invariance, PTL

(* Each response, through the adapter or not, answers the request before   *)
(* it with a file that has what was asked for.                             *)
THEOREM AnswersAreRight == Spec => []AnswersMatchRequests
  <1>1. IInv => AnswersMatchRequests
    BY DEF IInv
  <1> QED BY <1>1, Invariance, PTL
=============================================================================
