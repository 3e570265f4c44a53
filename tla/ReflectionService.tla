------------------------- MODULE ReflectionService -------------------------
(***************************************************************************)
(* The reflection service that the proxy offers to its own clients:        *)
(* ServerReflectionInfo (proxy/reflection.go), the descriptors it answers  *)
(* from (SimpleResolver, reflection/resolver.go), and the adapter through  *)
(* which clients of v1alpha reach it (AlphaConverter,                      *)
(* reflection/adapter.go).                                                 *)
(*                                                                         *)
(* Two processes interleave.  replaceServices registers what an upstream   *)
(* reported: first its files, in one critical section of the resolver,     *)
(* then its names, both while it holds servicesMutex.  A stream answers    *)
(* one request after the other; it looks a descriptor up under the         *)
(* resolver's lock and builds the answer without it.  Streams share        *)
(* nothing but the resolver and the names, so one stream at a time is      *)
(* enough; Connect begins a new one.                                       *)
(*                                                                         *)
(* A file is a linked descriptor: a path in one version, with its imports  *)
(* in the versions it was linked with (unresolved imports, placeholders    *)
(* to the code, are left out, as registerFileLocked and                    *)
(* fileDescWithDependencies both skip them).  Redeployed upstreams bring   *)
(* other versions of a path.                                               *)
(*                                                                         *)
(* Declarations are told apart by where they are.  registerFileLocked      *)
(* goes through the top level of a file only; what is declared inside a    *)
(* message or a service (nested messages, enums and extensions, methods)   *)
(* is in the file, but cannot be found by its name or number.              *)
(***************************************************************************)
EXTENDS Naturals, Sequences

CONSTANTS
  File,          \* linked file descriptors
  Path,          \* file names
  Symbol,        \* full names of services, messages, enums, extensions, ...
  Extension,     \* pairs <<message, number>>
  PathOf,        \* PathOf[f]: the name of file f
  Imports,       \* Imports[f]: the files it was linked with
  Declares,      \* Declares[f]: the symbols at its top level
  Messages,      \* Messages[f]: those of them that are messages
  Extends,       \* Extends[f]: the extensions at its top level
  Nested,        \* Nested[f]: the symbols declared inside others
  NestedExtends, \* NestedExtends[f]: the extensions declared inside messages
  ReflectionNames,  \* the services v1 and v1alpha of reflection itself
  Reports,       \* what an upstream may report: its services, and its files
  None

(* The files a file brings with it: itself and everything it imports.      *)
Closure ==
  [f \in File |->
     {g \in File : \A S \in SUBSET File :
        (f \in S /\ \A h \in S : Imports[h] \subseteq S) => g \in S}]

(* A linker accepts one version of a path, and one declaration of a name.  *)
ASSUME FilesAssumption ==
  /\ PathOf \in [File -> Path]
  /\ Imports \in [File -> SUBSET File]
  /\ Declares \in [File -> SUBSET Symbol]
  /\ Messages \in [File -> SUBSET Symbol]
  /\ Extends \in [File -> SUBSET Extension]
  /\ Nested \in [File -> SUBSET Symbol]
  /\ NestedExtends \in [File -> SUBSET Extension]
  /\ \A f \in File : Messages[f] \subseteq Declares[f]
  /\ \A e \in Extension : e[1] \in Symbol
  /\ \A f \in File : \A g, h \in Closure[f] :
       g # h => /\ PathOf[g] # PathOf[h]
                /\ (Declares[g] \cup Nested[g]) \cap (Declares[h] \cup Nested[h]) = {}
                /\ (Extends[g] \cup NestedExtends[g])
                     \cap (Extends[h] \cup NestedExtends[h]) = {}

ASSUME ReportsAssumption ==
  \A r \in Reports : /\ r.services \subseteq Symbol
                     /\ r.services # {}
                     /\ r.files \in Seq(File)

VARIABLES
  \* Proxy.services and SimpleResolver
  names,         \* the keys of the service map
  files,         \* files[p]: the file registered for a path
  descriptors,   \* descriptors[s]: the file whose descriptor of s is registered
  types,         \* the messages that extensionMap has a key for
  extensionMap,  \* extensionMap[e]: the file of the extension registered
  pending,       \* the report whose names are not entered yet: servicesMutex is held
  \* the stream
  api,           \* "v1" or "v1alpha", through the adapter
  pc,            \* "recv", "lookup" or "build"
  request,       \* the request as ServerReflectionInfo sees it
  found,         \* the file that Find... returned
  sent,          \* sentFileDescriptors
  \* the client of the stream
  asked,         \* its last request
  reply,         \* the response to it, None before it comes
  received,      \* the files it has received
  listed,        \* the services that were listed to it
  numbered,      \* the extensions whose numbers were listed to it
  \* history
  fetched,       \* entered names whose files were registered with them
  due            \* the last request asked for something the client was told of

registry == <<names, files, descriptors, types, extensionMap, pending, fetched>>
handler  == <<api, pc, request, found, sent>>
client   == <<asked, reply, received, listed, numbered, due>>
vars == <<registry, handler, client>>

-----------------------------------------------------------------------------
(* Requests and responses.                                                 *)

Api == {"v1", "v1alpha"}

Arguments == [list      |-> {None},
              numbers   |-> {e[1] : e \in Extension},
              file      |-> Path,
              extension |-> Extension,
              symbol    |-> Symbol,
              unset     |-> {None}]

Cases == {"list", "numbers", "file", "extension", "symbol"}

Requests(a) ==
  UNION {[api : {a}, kind : {k}, arg : Arguments[k]] : k \in DOMAIN Arguments}

NoRequest == [api |-> "v1", kind |-> "unset", arg |-> None]

ASSUME NoneAssumption ==
  /\ None \notin File /\ None \notin Reports
  /\ \A a \in Api : None \notin Requests(a)

(* Mistake: the case of extensions is missing.                             *)
convertRequest_NoExtension(r) ==
  IF r.kind \in Cases \ {"extension"} THEN [r EXCEPT !.api = "v1"] ELSE NoRequest

(* Mistake: the message is passed on as it came.                           *)
convertRequest_Not(r) == r

(* convertRequest: each case of the oneof is rebuilt in the v1 package,    *)
(* anything else leaves MessageRequest unset.                              *)
convertRequest(r) ==
  IF r.kind \in Cases THEN [r EXCEPT !.api = "v1"] ELSE NoRequest

(* convertOriginalRequest: a response without a request keeps none.        *)
convertOriginalRequest(r) ==
  IF r = None THEN None ELSE [r EXCEPT !.api = "v1alpha"]

(* convertResponse: each case of the oneof is rebuilt.                     *)
convertResponse(m) ==
  [m EXCEPT !.api = "v1alpha", !.original = convertOriginalRequest(@)]

Response(original, kind, content) ==
  [api |-> "v1", original |-> original, kind |-> kind, content |-> content]

(* Error responses do not name the request.                                *)
ErrorResponse(code) == Response(None, "error", code)

(* stream.Send; ServerReflectionInfo goes on to the next Recv.             *)
Send(m) ==
  /\ reply' = IF api = "v1" THEN m ELSE convertResponse(m)
  /\ pc' = "recv"

-----------------------------------------------------------------------------

PathsOf(S) == {PathOf[f] : f \in S}

TypeOK ==
  /\ names \subseteq Symbol
  /\ files \in [Path -> File \cup {None}]
  /\ descriptors \in [Symbol -> File \cup {None}]
  /\ types \subseteq Symbol
  /\ extensionMap \in [Extension -> File \cup {None}]
  /\ pending \in Reports \cup {None}
  /\ api \in Api
  /\ pc \in {"recv", "lookup", "build"}
  /\ request.api = "v1"
  /\ found \in IF pc = "build" THEN File ELSE {None}
  /\ sent \subseteq Path
  /\ asked.api = api
  /\ received \subseteq File
  /\ listed \subseteq Symbol
  /\ numbered \subseteq Extension
  /\ fetched \subseteq names
  /\ due \in BOOLEAN

Init ==
  /\ names = {}
  /\ files = [p \in Path |-> None]
  /\ descriptors = [s \in Symbol |-> None]
  /\ types = {}
  /\ extensionMap = [e \in Extension |-> None]
  /\ pending = None
  /\ fetched = {}
  /\ pc = "recv"
  /\ request = NoRequest
  /\ found = None
  /\ api \in Api
  /\ asked = [NoRequest EXCEPT !.api = api]
  /\ sent = {} /\ received = {} /\ listed = {} /\ numbered = {}
  /\ reply = None
  /\ due = FALSE

-----------------------------------------------------------------------------
(* replaceServices and RegisterFiles.                                      *)

(* Of a list of files each is registered with its imports, so the last one *)
(* that brings a given path, name or extension decides.  has[f] is the set *)
(* of those that f brings; a linked closure brings each of them once.      *)
Last(list, has, x) ==
  LET I == {i \in DOMAIN list : \E f \in Closure[list[i]] : x \in has[f]}
      m == CHOOSE i \in I : \A j \in I : j <= i
  IN IF I = {} THEN None ELSE CHOOSE f \in Closure[list[m]] : x \in has[f]

(* A map with the entries of a registration put over it.                   *)
Over(map, list, has) ==
  [x \in DOMAIN map |-> IF Last(list, has, x) = None THEN map[x]
                                                    ELSE Last(list, has, x)]

Names == [f \in File |-> {PathOf[f]}]

Loaded(list) == UNION {Closure[list[i]] : i \in DOMAIN list}

LoadedTypes(list) ==
  UNION {Messages[f] \cup {e[1] : e \in Extends[f]} : f \in Loaded(list)}

(* Mistake: the maps are made anew for each call.                          *)
RegisterFiles_Anew(list) ==
  /\ files' = [p \in Path |-> Last(list, Names, p)]
  /\ descriptors' = [s \in Symbol |-> Last(list, Declares, s)]
  /\ extensionMap' = [e \in Extension |-> Last(list, Extends, e)]
  /\ types' = LoadedTypes(list)

(* RegisterFiles, with registerFileLocked for every file: its path, and    *)
(* what it has at its top level.                                           *)
RegisterFiles(list) ==
  /\ files' = Over(files, list, Names)
  /\ descriptors' = Over(descriptors, list, Declares)
  /\ extensionMap' = Over(extensionMap, list, Extends)
  /\ types' = types \cup LoadedTypes(list)

(* replaceServices takes servicesMutex and registers the files.  It does   *)
(* so once per service, to the same effect.                                *)
Register(r) ==
  /\ pending = None
  /\ RegisterFiles(r.files)
  /\ pending' = r
  /\ UNCHANGED <<names, fetched, handler, client>>

Declared(list) == UNION {Declares[f] : f \in Loaded(list)}

(* Mistake: servicesMutex is not released.                                 *)
Publish_KeepsLock ==
  /\ pending # None
  /\ names' = names \cup pending.services
  /\ fetched' = fetched \cup (pending.services \cap Declared(pending.files))
  /\ UNCHANGED <<pending, files, descriptors, types, extensionMap, handler, client>>

(* The names are in the map when servicesMutex is released.                *)
Publish ==
  /\ pending # None
  /\ names' = names \cup pending.services
  /\ fetched' = fetched \cup (pending.services \cap Declared(pending.files))
  /\ pending' = None
  /\ UNCHANGED <<files, descriptors, types, extensionMap, handler, client>>

-----------------------------------------------------------------------------
(* The client.                                                             *)

(* What the answers so far let the client expect to be found; of a file    *)
(* only what is at its top level.                                          *)
Promised(r) ==
  \/ r.kind = "file" /\ r.arg \in PathsOf(received)
  \/ r.kind = "symbol" /\ \/ \E f \in received : r.arg \in Declares[f]
                          \/ r.arg \in listed \cap fetched
  \/ r.kind = "extension" /\ \/ r.arg \in numbered
                             \/ \E f \in received : r.arg \in Extends[f]
  \/ r.kind = "numbers" /\ \E f \in received : r.arg \in Messages[f]

Ask(r) ==
  /\ pc = "recv"
  /\ asked' = r
  /\ request' = IF api = "v1" THEN r ELSE convertRequest(r)
  /\ due' = Promised(r)
  /\ reply' = None
  /\ pc' = "lookup"
  /\ UNCHANGED <<registry, api, found, sent, received, listed, numbered>>

(* The stream ends, and another one begins with a handler of its own.      *)
Connect(a) ==
  /\ pc = "recv"
  /\ api' = a
  /\ asked' = [NoRequest EXCEPT !.api = a]
  /\ sent' = {} /\ received' = {} /\ listed' = {} /\ numbered' = {}
  /\ reply' = None
  /\ due' = FALSE
  /\ UNCHANGED <<registry, pc, request, found>>

-----------------------------------------------------------------------------
(* ServerReflectionInfo.                                                   *)

(* reflectionListServices, under servicesMutex.                            *)
ListServices ==
  /\ pc = "lookup"
  /\ request.kind = "list"
  /\ pending = None
  /\ LET services == names \ ReflectionNames
     IN /\ Send(Response(request, "services", services))
        /\ listed' = listed \cup services
  /\ UNCHANGED <<registry, api, request, found, sent,
                 asked, received, numbered, due>>

(* allExtensionNumbersOfType                                               *)
ExtensionNumbers ==
  /\ pc = "lookup"
  /\ request.kind = "numbers"
  /\ LET known == {e \in Extension : e[1] = request.arg /\ extensionMap[e] # None}
     IN IF request.arg \in types
          THEN /\ Send(Response(request, "numbers", {e[2] : e \in known}))
               /\ numbered' = numbered \cup known
          ELSE /\ Send(ErrorResponse("NotFound"))
               /\ UNCHANGED numbered
  /\ UNCHANGED <<registry, api, request, found, sent, asked, received, listed, due>>

(* FindFileByPath, FindDescriptorByName or FindExtensionByNumber, and the  *)
(* file of what they return.                                               *)
Resolved ==
  CASE request.kind = "file"      -> files[request.arg]
    [] request.kind = "symbol"    -> descriptors[request.arg]
    [] request.kind = "extension" -> extensionMap[request.arg]

Lookup ==
  /\ pc = "lookup"
  /\ request.kind \in {"file", "symbol", "extension"}
  /\ IF Resolved = None
       THEN Send(ErrorResponse("NotFound")) /\ UNCHANGED found
       ELSE found' = Resolved /\ pc' = "build" /\ UNCHANGED reply
  /\ UNCHANGED <<registry, api, request, sent,
                 asked, received, listed, numbered, due>>

(* Mistake: the traversal does not go past files that were sent before.    *)
Files_StopsAtSent(f) ==
  {f} \cup {g \in Closure[f] :
              /\ PathOf[g] \notin sent
              /\ \A h \in Closure[f] \ {f} : PathOf[h] \in sent => g \notin Closure[h]}

(* fileDescWithDependencies: the file itself in any case, and of what it   *)
(* imports the paths that were not sent on this stream.                    *)
Files(f) == {f} \cup {g \in Closure[f] : PathOf[g] \notin sent}

Build ==
  /\ pc = "build"
  /\ Send(Response(request, "files", [first |-> found, all |-> Files(found)]))
  /\ sent' = sent \cup PathsOf(Files(found))
  /\ received' = received \cup Files(found)
  /\ found' = None
  /\ UNCHANGED <<registry, api, request, asked, listed, numbered, due>>

UnknownRequest ==
  /\ pc = "lookup"
  /\ request.kind \notin Cases
  /\ Send(ErrorResponse("Unimplemented"))
  /\ UNCHANGED <<registry, api, request, found, sent,
                 asked, received, listed, numbered, due>>

Serve == ListServices \/ ExtensionNumbers \/ Lookup \/ Build \/ UnknownRequest

Next ==
  \/ \E r \in Reports : Register(r)
  \/ Publish
  \/ \E r \in Requests(api) : Ask(r)
  \/ \E a \in Api : Connect(a)
  \/ Serve

Spec == Init /\ [][Next]_vars

(* The goroutines run; servicesMutex is a lock of package sync, which lets *)
(* a reader that waits in between two writers.                             *)
FairSpec == Spec /\ SF_vars(Serve) /\ WF_vars(Publish)

-----------------------------------------------------------------------------
(* Properties.                                                             *)

(* For every file it received, a client has some version of every path     *)
(* that the file imports, directly or not; although paths that were sent   *)
(* before on the stream are suppressed, and a path may since have been     *)
(* registered in a version with other imports.  It need not be the version *)
(* that the file was linked with: a client that was sent b1, and then a2,  *)
(* which was linked with b2, does not get b2 and may be unable to link a2. *)
ImportsArrive ==
  \A f \in received : PathsOf(Closure[f]) \subseteq PathsOf(received)

(* Nothing a client received was linked with two versions of one path.     *)
OneVersion ==
  \A f, g \in UNION {Closure[h] : h \in received} : PathOf[f] = PathOf[g] => f = g

(* What a client was told of is found: a service that was listed and whose *)
(* files the proxy got, what a file it received has at its top level, a    *)
(* number that was listed.  Names become visible after their files, and    *)
(* nothing that was registered is forgotten.                               *)
PromisesAreKept ==
  due /\ pc = "recv" /\ reply # None => reply.kind # "error"

Expected == [list |-> "services", numbers |-> "numbers", file |-> "files",
             extension |-> "files", symbol |-> "files", unset |-> "error"]

(* The file sent first is one that has what was asked for.                 *)
Contains(f, r) ==
  CASE r.kind = "file"      -> PathOf[f] = r.arg
    [] r.kind = "symbol"    -> r.arg \in Declares[f] \cup Nested[f]
    [] r.kind = "extension" -> r.arg \in Extends[f] \cup NestedExtends[f]
    [] OTHER -> FALSE

(* Each response answers the request before it, in the client's version of *)
(* the protocol: it has the right kind, names the request, and the file is *)
(* the right one; only a lookup may fail, and only an unset request is     *)
(* unimplemented.                                                          *)
AnswersMatchRequests ==
  pc = "recv" /\ reply # None =>
    /\ reply.api = api
    /\ IF reply.kind = "error"
         THEN /\ reply.original = None
              /\ reply.content =
                   (IF asked.kind = "unset" THEN "Unimplemented" ELSE "NotFound")
              /\ asked.kind # "list"
         ELSE /\ reply.original = asked
              /\ reply.kind = Expected[asked.kind]
              /\ reply.kind = "files" => Contains(reply.content.first, asked)

(* Every request is answered: the locks of the service map and of the      *)
(* resolver, which registration takes one inside the other, do not block a *)
(* stream for good.                                                        *)
EveryRequestAnswered == pc # "recv" ~> pc = "recv"
=============================================================================
