-------------------------- MODULE RoundRobinProofs --------------------------
(***************************************************************************)
(* Proofs about one entry of Proxy.services, for any number of upstreams   *)
(* and requests, a counter of any range, and slices of any length.         *)
(***************************************************************************)
EXTENDS RoundRobin, FiniteSetTheorems, SequenceTheorems, WellFoundedInduction, TLAPS

-----------------------------------------------------------------------------
(* Arithmetic.                                                             *)

LEMMA Least ==
  ASSUME NEW n \in Nat, NEW I \in SUBSET (0 .. n), I # {}
  PROVE  \E m \in I : \A j \in I : m <= j
<1> DEFINE D == {0 .. i : i \in I}
           R == StrictSubsetOrdering(0 .. n)
<1>1. IsWellFoundedOn(R, FiniteSubsetsOf(0 .. n))
  BY FS_StrictSubsetOrderingWellFounded
<1>2. FiniteSubsetsOf(0 .. n) = SUBSET (0 .. n)
  <2>1. IsFiniteSet(0 .. n)
    BY FS_Interval
  <2> QED  BY <2>1, FS_FiniteSubsetsOfFinite
<1>3. D # {} /\ D \subseteq SUBSET (0 .. n)
  <2>1. PICK i \in I : TRUE
    OBVIOUS
  <2>2. 0 .. i \in D
    OBVIOUS
  <2>3. ASSUME NEW j \in I
        PROVE  0 .. j \subseteq 0 .. n
    OBVIOUS
  <2> QED  BY <2>2, <2>3
<1>4. PICK d \in D : \A e \in D : ~(<<e, d>> \in R)
  <2> HIDE DEF D, R
  <2> QED  BY <1>1, <1>2, <1>3, WFMin
<1>5. PICK m \in I : d = 0 .. m
  BY <1>4
<1>6. ASSUME NEW j \in I, j < m
      PROVE  FALSE
  <2>1. 0 .. j \subseteq d /\ m \in d /\ m \notin 0 .. j
    BY <1>5, <1>6
  <2>2. 0 .. j \in D
    OBVIOUS
  <2>3. <<0 .. j, d>> \in R
    BY <2>1, <2>2, <1>3, <1>4 DEF StrictSubsetOrdering
  <2> QED  BY <1>4, <2>2, <2>3
<1> QED  BY <1>6

(* Induction along an interval: what holds of 0, and passes from each      *)
(* number to the next, holds of all of them.                               *)
LEMMA Induction ==
  ASSUME NEW n \in Nat, NEW S, 0 \in S,
         \A i \in 0 .. n : i < n /\ i \in S => i + 1 \in S
  PROVE  0 .. n \subseteq S
<1> DEFINE Bad == {i \in 0 .. n : i \notin S}
<1> SUFFICES ASSUME Bad # {}
             PROVE  FALSE
  OBVIOUS
<1>1. PICK m \in Bad : \A j \in Bad : m <= j
  <2>1. Bad \in SUBSET (0 .. n)
    OBVIOUS
  <2> HIDE DEF Bad
  <2> QED  BY <2>1, Least
<1>2. m # 0 /\ m - 1 \in 0 .. n /\ m - 1 < n
  OBVIOUS
<1>3. m - 1 \in S
  BY <1>1, <1>2
<1>4. (m - 1) + 1 \in S
  BY <1>2, <1>3
<1> QED  BY <1>4

LEMMA ModRange ==
  ASSUME NEW a \in Nat, NEW n \in Nat \ {0}
  PROVE  /\ a % n \in 0 .. n - 1
         /\ a \div n \in Nat /\ a = (a \div n) * n + (a % n)
         /\ a < n => a % n = a
  OBVIOUS

(* The remainder of the next number is the next remainder, or zero.        *)
LEMMA ModNext ==
  ASSUME NEW a \in Nat, NEW n \in Nat \ {0}
  PROVE  (a + 1) % n = IF a % n = n - 1 THEN 0 ELSE (a % n) + 1
<1> DEFINE q == a \div n
           r == a % n
           p == (a + 1) \div n
           s == (a + 1) % n
<1>1. q \in Nat /\ r \in 0 .. n - 1 /\ a = q * n + r
  BY ModRange
<1>2. p \in Nat /\ s \in 0 .. n - 1 /\ a + 1 = p * n + s
  <2>1. a + 1 \in Nat
    OBVIOUS
  <2> QED  BY <2>1, ModRange
<1> HIDE DEF q, r, p, s
<1>3. (p - q) * n = r + 1 - s
  BY <1>1, <1>2
<1>4. CASE p >= q + 2
  <2>1. (p - q) * n >= 2 * n
    BY <1>1, <1>2, <1>4
  <2> QED  BY <1>1, <1>2, <1>3, <2>1
<1>5. CASE p < q
  <2>1. (p - q) * n <= -n
    BY <1>1, <1>2, <1>5
  <2> QED  BY <1>1, <1>2, <1>3, <2>1
<1>6. CASE p = q \/ p = q + 1
  <2>1. (p - q) * n \in {0, n}
    BY <1>1, <1>2, <1>6
  <2>2. s = IF r = n - 1 THEN 0 ELSE r + 1
    BY <1>1, <1>2, <1>3, <2>1
  <2> QED  BY <2>2 DEF r, s
<1> QED  BY <1>1, <1>2, <1>4, <1>5, <1>6

-----------------------------------------------------------------------------
(* The slices.                                                             *)

(* The states of the filter loop.                                          *)
Filter(f, q, u, n) ==
  f = [i \in 0 .. n |->
         IF i = 0 THEN <<>>
         ELSE IF q[i] = u THEN f[i - 1] ELSE Append(f[i - 1], q[i])]

LEMMA FilterExists ==
  ASSUME NEW q, NEW u, NEW n \in Nat
  PROVE  \E f : Filter(f, q, u, n)
<1> DEFINE S == {i \in 0 .. n : \E f : Filter(f, q, u, i)}
<1>1. 0 \in S
  <2>1. Filter([i \in 0 .. 0 |-> <<>>], q, u, 0)
    BY DEF Filter
  <2> QED  BY <2>1
<1>2. ASSUME NEW i \in 0 .. n, i < n, i \in S
      PROVE  i + 1 \in S
  <2>1. PICK f : Filter(f, q, u, i)
    BY <1>2
  <2> DEFINE x == IF q[i + 1] = u THEN f[i] ELSE Append(f[i], q[i + 1])
             g == [j \in 0 .. i + 1 |-> IF j = i + 1 THEN x ELSE f[j]]
  <2>2. ASSUME NEW j \in 0 .. i + 1
        PROVE  g[j] = IF j = 0 THEN <<>>
                      ELSE IF q[j] = u THEN g[j - 1] ELSE Append(g[j - 1], q[j])
    <3>1. CASE j = i + 1
      <4>1. g[j] = x /\ g[j - 1] = f[i] /\ j # 0 /\ j - 1 = i
        <5> HIDE DEF x
        <5> QED  BY <3>1
      <4> HIDE DEF g
      <4> QED  BY <3>1, <4>1
    <3>2. CASE j # i + 1
      <4>1. j \in 0 .. i
        BY <3>2
      <4>2. f[j] = IF j = 0 THEN <<>>
                   ELSE IF q[j] = u THEN f[j - 1] ELSE Append(f[j - 1], q[j])
        BY <2>1, <4>1 DEF Filter
      <4>3. g[j] = f[j] /\ (j # 0 => g[j - 1] = f[j - 1])
        <5> HIDE DEF x
        <5> QED  BY <3>2, <4>1
      <4> HIDE DEF g
      <4> QED  BY <4>2, <4>3
    <3> QED  BY <3>1, <3>2
  <2>3. Filter(g, q, u, i + 1)
    <3>1. g = [j \in 0 .. i + 1 |-> g[j]]
      <4> HIDE DEF x
      <4> QED  OBVIOUS
    <3> HIDE DEF g
    <3> QED  BY <2>2, <3>1 DEF Filter
  <2> QED  BY <1>2, <2>3
<1>3. n \in S
  <2>1. 0 .. n \subseteq S
    <3> HIDE DEF S
    <3> QED  BY <1>1, <1>2, Induction
  <2> QED  BY <2>1
<1> QED  BY <1>3

(* Without is the last state of the loop.                                  *)
LEMMA WithoutLoop ==
  ASSUME servers \in Seq(Upstream), NEW u
  PROVE  \E f : Filter(f, servers, u, Len(servers)) /\ Without(u) = f[Len(servers)]
<1> DEFINE f == CHOOSE h : Filter(h, servers, u, Len(servers))
<1>1. \E h : Filter(h, servers, u, Len(servers))
  <2>1. Len(servers) \in Nat
    BY LenProperties
  <2> QED  BY <2>1, FilterExists
<1>2. Filter(f, servers, u, Len(servers))
  BY <1>1
<1>3. Without(u) = f[Len(servers)]
  BY DEF Without, Filter
<1> QED  BY <1>2, <1>3

(* How often v is in a slice.                                              *)
Places(q, v) == {i \in DOMAIN q : q[i] = v}
Times(q, v) == Cardinality(Places(q, v))

LEMMA PlacesFinite ==
  ASSUME NEW q \in Seq(Upstream), NEW v
  PROVE  IsFiniteSet(Places(q, v)) /\ Places(q, v) \subseteq 1 .. Len(q) /\ Times(q, v) \in Nat
<1>1. Places(q, v) \subseteq 1 .. Len(q) /\ Len(q) \in Nat
  BY LenProperties DEF Places
<1>2. IsFiniteSet(1 .. Len(q))
  BY <1>1, FS_Interval
<1>3. IsFiniteSet(Places(q, v))
  BY <1>1, <1>2, FS_Subset
<1> QED  BY <1>1, <1>3, FS_CardinalityType DEF Times

LEMMA TimesAppend ==
  ASSUME NEW q \in Seq(Upstream), NEW u \in Upstream, NEW v
  PROVE  Times(Append(q, u), v) = IF u = v THEN Times(q, v) + 1 ELSE Times(q, v)
<1>1. /\ Len(q) \in Nat /\ DOMAIN q = 1 .. Len(q)
      /\ DOMAIN Append(q, u) = 1 .. Len(q) + 1
      /\ \A i \in 1 .. Len(q) + 1 : Append(q, u)[i] = IF i <= Len(q) THEN q[i] ELSE u
  OBVIOUS
<1>2. Places(Append(q, u), v) = IF u = v THEN Places(q, v) \cup {Len(q) + 1} ELSE Places(q, v)
  BY <1>1 DEF Places
<1>3. Len(q) + 1 \notin Places(q, v)
  BY <1>1 DEF Places
<1> QED  BY <1>2, <1>3, PlacesFinite, FS_AddElement DEF Times

(* n entries of u added at the end.                                        *)
LEMMA TimesCopies ==
  ASSUME NEW q \in Seq(Upstream), NEW u \in Upstream, NEW n \in Nat
  PROVE  LET new == q \o [i \in 1 .. n |-> u]
         IN  /\ new \in Seq(Upstream)
             /\ \A v : Times(new, v) = IF u = v THEN Times(q, v) + n ELSE Times(q, v)
<1> DEFINE copies == [i \in 1 .. n |-> u]
           new == q \o copies
<1>1. copies \in Seq(Upstream) /\ Len(copies) = n
  OBVIOUS
<1>2. \A i \in 1 .. n : copies[i] = u
  OBVIOUS
<1> HIDE DEF copies
<1>3. /\ Len(q) \in Nat /\ DOMAIN q = 1 .. Len(q)
      /\ new \in Seq(Upstream) /\ DOMAIN new = 1 .. Len(q) + n
      /\ \A i \in 1 .. Len(q) + n : new[i] = IF i <= Len(q) THEN q[i] ELSE u
  <2>1. /\ new \in Seq(Upstream) /\ Len(new) = Len(q) + n
        /\ \A i \in 1 .. Len(q) + n : new[i] = IF i <= Len(q) THEN q[i] ELSE copies[i - Len(q)]
    BY <1>1, ConcatProperties
  <2>2. Len(q) \in Nat /\ DOMAIN q = 1 .. Len(q) /\ DOMAIN new = 1 .. Len(new)
    BY <2>1, LenProperties
  <2>3. ASSUME NEW i \in 1 .. Len(q) + n, i > Len(q)
        PROVE  copies[i - Len(q)] = u
    BY <1>2, <2>2, <2>3
  <2> HIDE DEF new
  <2> QED  BY <2>1, <2>2, <2>3
<1> HIDE DEF new
<1>4. ASSUME NEW v
      PROVE  Times(new, v) = IF u = v THEN Times(q, v) + n ELSE Times(q, v)
  <2> DEFINE I == Len(q) + 1 .. Len(q) + n
  <2>1. Places(new, v) = IF u = v THEN Places(q, v) \cup I ELSE Places(q, v)
    BY <1>3 DEF Places
  <2>2. IsFiniteSet(I) /\ Cardinality(I) = n
    BY <1>3, FS_Interval
  <2>3. Places(q, v) \cap I = {}
    BY <1>3 DEF Places
  <2>4. Cardinality({}) = 0
    BY FS_EmptySet
  <2> HIDE DEF I
  <2>5. Cardinality(Places(q, v) \cup I) = Times(q, v) + n
    <3>1. IsFiniteSet(Places(q, v)) /\ Times(q, v) \in Nat
      BY PlacesFinite
    <3>2. Cardinality(Places(q, v) \cup I) =
            Cardinality(Places(q, v)) + Cardinality(I) - Cardinality(Places(q, v) \cap I)
      BY <2>2, <3>1, FS_Union
    <3>3. Cardinality(Places(q, v) \cap I) = 0
      BY <2>3, <2>4
    <3>4. Times(q, v) = Cardinality(Places(q, v))
      BY DEF Times
    <3> QED  BY <2>2, <3>1, <3>2, <3>3, <3>4
  <2> QED  BY <2>1, <2>5 DEF Times
<1> QED  BY <1>3, <1>4 DEF new, copies

(* The filter removes the entries of u, and no other.                      *)
LEMMA WithoutFacts ==
  ASSUME servers \in Seq(Upstream), NEW u
  PROVE  /\ Without(u) \in Seq(Upstream)
         /\ \A v : Times(Without(u), v) = IF u = v THEN 0 ELSE Times(servers, v)
<1> DEFINE n == Len(servers)
           Before(v, i) == {j \in 1 .. i : servers[j] = v}
<1>1. n \in Nat /\ DOMAIN servers = 1 .. n /\ \A i \in 1 .. n : servers[i] \in Upstream
  BY LenProperties
<1>2. PICK f : Filter(f, servers, u, n) /\ Without(u) = f[n]
  BY WithoutLoop
<1> HIDE DEF n
<1> DEFINE Good(i) == /\ f[i] \in Seq(Upstream)
                      /\ \A v : Times(f[i], v) = IF u = v THEN 0 ELSE Cardinality(Before(v, i))
           S == {i \in 0 .. n : Good(i)}
<1>3. 0 \in S
  <2>1. f[0] = <<>>
    BY <1>1, <1>2 DEF Filter
  <2>2. ASSUME NEW v
        PROVE  Times(<<>>, v) = 0 /\ Cardinality(Before(v, 0)) = 0
    <3>1. Places(<<>>, v) = {} /\ Before(v, 0) = {}
      BY DEF Places
    <3> HIDE DEF Before
    <3> QED  BY <3>1, FS_EmptySet DEF Times
  <2>3. Good(0)
    <3> HIDE DEF Before
    <3> QED  BY <2>1, <2>2
  <2> HIDE DEF Good
  <2> QED  BY <1>1, <2>3
<1>4. ASSUME NEW i \in 0 .. n, i < n, i \in S
      PROVE  i + 1 \in S
  <2>1. f[i + 1] = IF servers[i + 1] = u THEN f[i] ELSE Append(f[i], servers[i + 1])
    <3>1. i + 1 \in 0 .. n /\ i + 1 # 0 /\ (i + 1) - 1 = i
      BY <1>1, <1>4
    <3> QED  BY <1>2, <3>1 DEF Filter
  <2>2. servers[i + 1] \in Upstream
    BY <1>1, <1>4
  <2>3. Good(i)
    BY <1>4
  <2>4. ASSUME NEW v
        PROVE  Cardinality(Before(v, i + 1)) =
                 IF servers[i + 1] = v THEN Cardinality(Before(v, i)) + 1
                                       ELSE Cardinality(Before(v, i))
    <3>1. Before(v, i + 1) = IF servers[i + 1] = v THEN Before(v, i) \cup {i + 1} ELSE Before(v, i)
      BY <1>4
    <3>2. i + 1 \notin Before(v, i)
      OBVIOUS
    <3>3. IsFiniteSet(Before(v, i))
      <4>1. IsFiniteSet(1 .. i)
        BY FS_Interval
      <4>2. Before(v, i) \in SUBSET (1 .. i)
        OBVIOUS
      <4> HIDE DEF Before
      <4> QED  BY <4>1, <4>2, FS_Subset
    <3> HIDE DEF Before
    <3> QED  BY <3>1, <3>2, <3>3, FS_AddElement
  <2> HIDE DEF Before
  <2>5. Good(i + 1)
    <3>1. CASE servers[i + 1] = u
      BY <2>1, <2>3, <2>4, <3>1
    <3>2. CASE servers[i + 1] # u
      <4>1. /\ f[i] \in Seq(Upstream) /\ f[i + 1] = Append(f[i], servers[i + 1])
        BY <2>1, <2>3, <3>2
      <4>2. f[i + 1] \in Seq(Upstream)
        BY <2>2, <4>1
      <4>3. ASSUME NEW v
            PROVE  Times(f[i + 1], v) = IF u = v THEN 0 ELSE Cardinality(Before(v, i + 1))
        <5>1. Times(f[i + 1], v) =
                IF servers[i + 1] = v THEN Times(f[i], v) + 1 ELSE Times(f[i], v)
          BY <2>2, <4>1, TimesAppend
        <5>2. Times(f[i], v) = IF u = v THEN 0 ELSE Cardinality(Before(v, i))
          BY <2>3
        <5> QED  BY <2>4, <3>2, <5>1, <5>2
      <4> QED  BY <4>2, <4>3
    <3> QED  BY <3>1, <3>2
  <2> HIDE DEF Good
  <2> QED  BY <1>1, <1>4, <2>5
<1>5. Good(n)
  <2>1. 0 .. n \subseteq S
    <3> HIDE DEF S
    <3> QED  BY <1>1, <1>3, <1>4, Induction
  <2> HIDE DEF Good
  <2> QED  BY <1>1, <2>1
<1>6. \A v : Cardinality(Before(v, n)) = Times(servers, v)
  BY <1>1 DEF Times, Places
<1> HIDE DEF Before
<1> QED  BY <1>2, <1>5, <1>6

(* cleanupServer's swap removes one entry of u, and no other.              *)
LEMMA WithoutFirstFacts ==
  ASSUME servers \in Seq(Upstream), NEW u \in Upstream, Entries(u) # {}
  PROVE  /\ WithoutFirst(u) \in Seq(Upstream)
         /\ \A v : Times(WithoutFirst(u), v) =
                     IF u = v THEN Times(servers, v) - 1 ELSE Times(servers, v)
<1> DEFINE n == Len(servers)
           i == CHOOSE j \in Entries(u) : \A k \in Entries(u) : j <= k
           e == [servers EXCEPT ![i] = servers[n]]
           q == SubSeq(e, 1, n - 1)
<1>1. n \in Nat /\ DOMAIN servers = 1 .. n /\ \A j \in 1 .. n : servers[j] \in Upstream
  BY LenProperties
<1>2. i \in 1 .. n /\ servers[i] = u
  <2>1. Entries(u) \in SUBSET (0 .. n)
    BY <1>1 DEF Entries
  <2>2. \E j \in Entries(u) : \A k \in Entries(u) : j <= k
    BY <1>1, <2>1, Least
  <2>3. i \in Entries(u)
    BY <2>2
  <2> QED  BY <1>1, <2>3 DEF Entries
<1>3. WithoutFirst(u) = q
  BY DEF WithoutFirst
<1> HIDE DEF i
<1>4. /\ e \in Seq(Upstream) /\ Len(e) = n
      /\ \A j \in 1 .. n : e[j] = IF j = i THEN servers[n] ELSE servers[j]
  <2>1. servers[n] \in Upstream
    BY <1>1, <1>2
  <2> QED  BY <1>1, <1>2, <2>1, ExceptSeq
<1> HIDE DEF e
<1>5. \A j \in 1 .. n : e[j] \in Upstream
  BY <1>4, LenProperties
<1>6. /\ q \in Seq(Upstream) /\ Len(q) = n - 1
      /\ \A j \in 1 .. n - 1 : q[j] = IF j = i THEN servers[n] ELSE servers[j]
  <2>1. /\ q \in Seq(Upstream)
        /\ Len(q) = IF 1 <= n - 1 THEN (n - 1) - 1 + 1 ELSE 0
        /\ \A j \in 1 .. (n - 1) - 1 + 1 : q[j] = e[1 + j - 1]
    <3>1. \A j \in 1 .. n - 1 : e[j] \in Upstream
      BY <1>1, <1>5
    <3>2. 1 \in Int /\ n - 1 \in Int
      BY <1>1
    <3> HIDE DEF n
    <3> QED  BY <3>1, <3>2, SubSeqProperties
  <2>2. \A j \in 1 .. n - 1 : q[j] = e[j]
    <3> HIDE DEF q, n
    <3> QED  BY <1>1, <2>1
  <2> HIDE DEF q, n
  <2> QED  BY <1>1, <1>2, <1>4, <2>1, <2>2
<1>7. DOMAIN q = 1 .. n - 1
  BY <1>6, LenProperties
<1> HIDE DEF q, n
<1>8. ASSUME NEW v
      PROVE  Times(q, v) = IF u = v THEN Times(servers, v) - 1 ELSE Times(servers, v)
  <2> DEFINE P == Places(servers, v)
  <2>1. IsFiniteSet(P) /\ P = {j \in 1 .. n : servers[j] = v} /\ Cardinality(P) \in Nat
    BY <1>1, PlacesFinite DEF Places, Times
  <2>2. Places(q, v) = {j \in 1 .. n - 1 : (IF j = i THEN servers[n] ELSE servers[j]) = v}
    BY <1>6, <1>7 DEF Places
  <2> HIDE DEF P
  <2>3. CASE u = v /\ servers[n] = v
    <3>1. Places(q, v) = P \ {n} /\ n \in P
      BY <1>1, <1>2, <2>1, <2>2, <2>3
    <3> QED  BY <2>1, <2>3, <3>1, FS_RemoveElement DEF Times, P
  <2>4. CASE u = v /\ servers[n] # v
    <3>1. Places(q, v) = P \ {i} /\ i \in P
      BY <1>1, <1>2, <2>1, <2>2, <2>4
    <3> QED  BY <2>1, <2>4, <3>1, FS_RemoveElement DEF Times, P
  <2>5. CASE u # v /\ servers[n] = v
    <3>1. Places(q, v) = (P \ {n}) \cup {i} /\ n \in P /\ i \notin P \ {n}
      BY <1>1, <1>2, <2>1, <2>2, <2>5
    <3>2. IsFiniteSet(P \ {n}) /\ Cardinality(P \ {n}) = Cardinality(P) - 1
      BY <2>1, <3>1, FS_RemoveElement
    <3>3. Cardinality((P \ {n}) \cup {i}) = Cardinality(P \ {n}) + 1
      BY <3>1, <3>2, FS_AddElement
    <3> QED  BY <2>1, <2>5, <3>1, <3>2, <3>3 DEF Times, P
  <2>6. CASE u # v /\ servers[n] # v
    <3>1. Places(q, v) = P
      BY <1>1, <1>2, <2>1, <2>2, <2>6
    <3> QED  BY <2>6, <3>1 DEF Times, P
  <2> QED  BY <2>3, <2>4, <2>5, <2>6
<1> QED  BY <1>3, <1>6, <1>8

-----------------------------------------------------------------------------
(* Types, and the lock.                                                    *)

(* A writer of the slice finds no request between its ticket and its index.*)
LEMMA WriterSteps ==
  ASSUME TypeOK, NEW u \in Upstream,
         CleanupServer(u) \/ \E n \in Counts : ReplaceServices(u, n)
  PROVE  /\ WriteLock
         /\ servers' \in Seq(Upstream)
         /\ waited' = IF servers' = servers THEN waited ELSE [i \in DOMAIN servers' |-> 0]
         /\ UNCHANGED <<next, ticket, answer>>
         /\ \/ /\ Entries(u) # {}
               /\ \A v : Times(servers', v) =
                          IF u = v THEN Times(servers, v) - 1 ELSE Times(servers, v)
            \/ \E n \in Counts :
                 \A v : Times(servers', v) = IF u = v THEN n ELSE Times(servers, v)
<1>1. CASE CleanupServer(u)
  <2>1. /\ WriteLock /\ Entries(u) # {} /\ servers' = WithoutFirst(u)
        /\ waited' = IF servers' = servers THEN waited ELSE [i \in DOMAIN servers' |-> 0]
        /\ UNCHANGED <<next, ticket, answer>>
    BY <1>1 DEF CleanupServer, SetServers
  <2> QED  BY <2>1, WithoutFirstFacts DEF TypeOK
<1>2. ASSUME NEW n \in Counts, ReplaceServices(u, n)
      PROVE  /\ WriteLock
             /\ servers' \in Seq(Upstream)
             /\ waited' = IF servers' = servers THEN waited ELSE [i \in DOMAIN servers' |-> 0]
             /\ UNCHANGED <<next, ticket, answer>>
             /\ \A v : Times(servers', v) = IF u = v THEN n ELSE Times(servers, v)
  <2>1. /\ WriteLock /\ servers' = Without(u) \o [i \in 1 .. n |-> u]
        /\ waited' = IF servers' = servers THEN waited ELSE [i \in DOMAIN servers' |-> 0]
        /\ UNCHANGED <<next, ticket, answer>>
    BY <1>2 DEF ReplaceServices, SetServers
  <2>2. /\ Without(u) \in Seq(Upstream)
        /\ \A v : Times(Without(u), v) = IF u = v THEN 0 ELSE Times(servers, v)
    BY WithoutFacts DEF TypeOK
  <2>3. n \in Nat
    BY CountersAssumption
  <2>4. /\ servers' \in Seq(Upstream)
        /\ \A v : Times(servers', v) =
                   IF u = v THEN Times(Without(u), v) + n ELSE Times(Without(u), v)
    BY <2>1, <2>2, <2>3, TimesCopies
  <2>5. \A v : Times(servers', v) = IF u = v THEN n ELSE Times(servers, v)
    BY <2>2, <2>3, <2>4
  <2> QED  BY <2>1, <2>4, <2>5
<1> QED  BY <1>1, <1>2

(* The turn is an index into a slice that is not empty.                    *)
LEMMA TurnRange ==
  ASSUME servers \in Seq(Upstream), servers # <<>>, NEW t \in Nat
  PROVE  /\ Len(servers) \in Nat \ {0}
         /\ Turn(t) \in 1 .. Len(servers) /\ Turn(t) \in DOMAIN servers
         /\ servers[Turn(t)] \in Upstream
<1>1. Len(servers) \in Nat \ {0} /\ DOMAIN servers = 1 .. Len(servers)
  BY EmptySeq, LenProperties
<1>2. t % Len(servers) \in 0 .. Len(servers) - 1
  BY <1>1, ModRange
<1>3. Turn(t) \in 1 .. Len(servers)
  <2> DEFINE n == Len(servers)
             m == t % n
  <2>1. n \in Nat /\ m \in 0 .. n - 1
    BY <1>1, <1>2
  <2> HIDE DEF n, m
  <2>2. m + 1 \in 1 .. n
    BY <2>1
  <2> QED  BY <2>2 DEF Turn, m, n
<1> QED  BY <1>1, <1>3, ElementOfSeq

LEMMA AddedRange ==
  ASSUME NEW t \in 0 .. Modulus - 1
  PROVE  /\ Added(t) \in 0 .. Modulus - 1
         /\ Added(t) = t + 1 \/ Added(t) = 0
<1>1. t \in Nat /\ t + 1 \in Nat
  OBVIOUS
<1>2. /\ (t + 1) % Modulus \in 0 .. Modulus - 1
      /\ t % Modulus = t
  <2>1. Modulus \in Nat \ {0} /\ t < Modulus
    BY CountersAssumption
  <2>2. (t + 1) % Modulus \in 0 .. Modulus - 1
    BY <1>1, <2>1, ModRange
  <2>3. t % Modulus = t
    BY <1>1, <2>1, ModRange
  <2> QED  BY <2>2, <2>3
<1>3. (t + 1) % Modulus = IF t % Modulus = Modulus - 1 THEN 0 ELSE (t % Modulus) + 1
  BY <1>1, ModNext, CountersAssumption
<1> QED  BY <1>2, <1>3 DEF Added

TypeInv == TypeOK /\ NoEmptyDivision

LEMMA TypeInit == Init => TypeInv
<1> SUFFICES ASSUME Init
             PROVE  TypeInv
  OBVIOUS
<1>1. servers \in Seq(Upstream) /\ waited \in [DOMAIN servers -> Nat]
  BY DEF Init
<1>2. next \in 0 .. Modulus - 1
  BY CountersAssumption DEF Init
<1>3. /\ ticket \in [Request -> {None} \cup 0 .. Modulus - 1]
      /\ answer \in [Request -> {None} \cup Upstream]
  BY DEF Init
<1>4. NoEmptyDivision
  BY DEF Init, NoEmptyDivision
<1> QED  BY <1>1, <1>2, <1>3, <1>4 DEF TypeInv, TypeOK

LEMMA TypeStep == TypeInv /\ [Next]_vars => TypeInv'
<1> SUFFICES ASSUME TypeInv, [Next]_vars
             PROVE  TypeInv'
  OBVIOUS
<1>1. ASSUME NEW u \in Upstream, CleanupServer(u) \/ \E n \in Counts : ReplaceServices(u, n)
      PROVE  TypeInv'
  <2>1. /\ WriteLock /\ servers' \in Seq(Upstream)
        /\ waited' = IF servers' = servers THEN waited ELSE [i \in DOMAIN servers' |-> 0]
        /\ UNCHANGED <<next, ticket, answer>>
    BY <1>1, WriterSteps DEF TypeInv
  <2>2. waited' \in [DOMAIN servers' -> Nat]
    BY <2>1 DEF TypeInv, TypeOK
  <2> QED  BY <2>1, <2>2 DEF TypeInv, TypeOK, NoEmptyDivision, WriteLock
<1>2. ASSUME NEW r \in Request, FindNobody(r)
      PROVE  TypeInv'
  BY <1>2 DEF FindNobody, TypeInv, TypeOK, NoEmptyDivision
<1>3. ASSUME NEW r \in Request, TakeTicket(r)
      PROVE  TypeInv'
  <2>1. next' = Added(next) /\ next' \in 0 .. Modulus - 1
    BY <1>3, AddedRange DEF TakeTicket, TypeInv, TypeOK
  <2>2. waited' \in [DOMAIN servers' -> Nat]
    BY <1>3 DEF TakeTicket, TypeInv, TypeOK
  <2> QED  BY <1>3, <2>1, <2>2 DEF TakeTicket, TypeInv, TypeOK, NoEmptyDivision
<1>4. ASSUME NEW r \in Request, FindServer(r)
      PROVE  TypeInv'
  <2>1. servers # <<>> /\ ticket[r] \in Nat
    BY <1>4 DEF FindServer, TypeInv, TypeOK, NoEmptyDivision
  <2>2. servers[Turn(ticket[r])] \in Upstream
    BY <2>1, TurnRange DEF TypeInv, TypeOK
  <2> QED  BY <1>4, <2>2 DEF FindServer, TypeInv, TypeOK, NoEmptyDivision
<1>5. CASE UNCHANGED vars
  BY <1>5 DEF vars, TypeInv, TypeOK, NoEmptyDivision
<1> QED  BY <1>1, <1>2, <1>3, <1>4, <1>5 DEF Next

(* Every variable keeps its type: findServer indexes the slice within its  *)
(* bounds, and the counter stays within its range.                         *)
THEOREM SlicesTyped == Spec => []TypeOK
<1> QED  BY TypeInit, TypeStep, PTL DEF Spec, TypeInv

(* The remainder in findServer never divides by zero: no writer empties    *)
(* the slice between the test of its length and the index.                 *)
THEOREM NeverEmptyDivision == Spec => []NoEmptyDivision
<1> QED  BY TypeInit, TypeStep, PTL DEF Spec, TypeInv

-----------------------------------------------------------------------------
(* Turns.                                                                  *)

(* The index of the last turn, counted from zero.                          *)
Last == next % Len(servers)

(* How long entry p (counted from zero) can have waited: as many turns as  *)
(* lie between its own and the last one; or, where the counter has wrapped *)
(* and not come to p again, the turns since then on top of a full round.   *)
Waits(p) ==
  \/ waited[p + 1] <= IF p <= Last THEN Last - p ELSE Len(servers) - p + Last
  \/ next < p /\ waited[p + 1] <= Len(servers) + next

TurnsInv ==
  Len(servers) <= Modulus => \A p \in 0 .. Len(servers) - 1 : Waits(p)

LEMMA TurnsBound == TypeInv /\ TurnsInv => BoundedWait
<1> SUFFICES ASSUME TypeInv, TurnsInv, Len(servers) <= Modulus, NEW i \in DOMAIN servers
             PROVE  \/ waited[i] < Len(servers)
                    \/ waited[i] < 2 * Len(servers) - 1 /\ next < i - 1
  BY DEF BoundedWait
<1> DEFINE n == Len(servers)
           w == waited[i]
           p == i - 1
<1>1. /\ n \in Nat \ {0} /\ DOMAIN servers = 1 .. n /\ i \in 1 .. n
      /\ w \in Nat /\ next \in Nat
  <2>1. n \in Nat /\ DOMAIN servers = 1 .. n
    BY LenProperties DEF TypeInv, TypeOK
  <2> QED  BY <2>1, CountersAssumption DEF TypeInv, TypeOK
<1>2. Last \in 0 .. n - 1
  BY <1>1, ModRange DEF Last
<1>3. p \in 0 .. n - 1 /\ p + 1 = i
  <2> HIDE DEF n
  <2> QED  BY <1>1
<1>4. Waits(p)
  BY <1>3 DEF TurnsInv
<1>5. \/ w <= IF p <= Last THEN Last - p ELSE n - p + Last
      \/ next < p /\ w <= n + next
  <2> HIDE DEF p
  <2> QED  BY <1>3, <1>4 DEF Waits
<1> HIDE DEF n, w, p
<1>6. \/ w < n
      \/ w < 2 * n - 1 /\ next < p
  BY <1>1, <1>2, <1>3, <1>5
<1> QED  BY <1>6 DEF n, w, p

(* A new slice has no turns to wait for.                                   *)
LEMMA TurnsNew ==
  ASSUME TypeInv, TurnsInv, UNCHANGED next, servers' \in Seq(Upstream),
         waited' = IF servers' = servers THEN waited ELSE [i \in DOMAIN servers' |-> 0]
  PROVE  TurnsInv'
<1>1. CASE servers' = servers
  BY <1>1 DEF TurnsInv, Waits, Last
<1>2. CASE servers' # servers
  <2> SUFFICES ASSUME NEW p \in 0 .. Len(servers') - 1
               PROVE  waited'[p + 1] <= IF p <= Last' THEN Last' - p ELSE Len(servers') - p + Last'
    BY DEF TurnsInv, Waits
  <2> DEFINE n == Len(servers')
             l == next % n
  <2>1. n \in Nat /\ DOMAIN servers' = 1 .. n
    BY LenProperties
  <2>2. p \in 0 .. n - 1
    OBVIOUS
  <2> HIDE DEF n
  <2>3. n \in Nat \ {0} /\ p + 1 \in 1 .. n
    BY <2>1, <2>2
  <2>4. waited'[p + 1] = 0
    BY <1>2, <2>1, <2>3
  <2>5. next \in Nat
    BY CountersAssumption DEF TypeInv, TypeOK
  <2>6. l \in 0 .. n - 1
    BY <2>3, <2>5, ModRange
  <2> HIDE DEF l
  <2>7. 0 <= IF p <= l THEN l - p ELSE n - p + l
    BY <2>2, <2>3, <2>6
  <2>8. Last' = l
    BY DEF Last, l, n
  <2> QED  BY <2>4, <2>7, <2>8 DEF n
<1> QED  BY <1>1, <1>2

(* A ticket moves the turn on by one entry, or back to the first.          *)
LEMMA TurnsTicket ==
  ASSUME TypeInv, TurnsInv, NEW r \in Request, TakeTicket(r)
  PROVE  TurnsInv'
<1> SUFFICES ASSUME Len(servers) <= Modulus, NEW p \in 0 .. Len(servers) - 1
             PROVE  Waits(p)'
  BY DEF TakeTicket, TurnsInv
<1> DEFINE n == Len(servers)
           c == Last
           d == Last'
           w == waited[p + 1]
           x == waited'[p + 1]
<1>1. n \in Nat \ {0} /\ DOMAIN servers = 1 .. n
  BY LenProperties, EmptySeq DEF TakeTicket, TypeInv, TypeOK
<1>2. next \in 0 .. Modulus - 1 /\ next' \in 0 .. Modulus - 1 /\ (next' = next + 1 \/ next' = 0)
  BY AddedRange DEF TakeTicket, TypeInv, TypeOK
<1>3. next \in Nat /\ next' \in Nat
  BY <1>2, CountersAssumption
<1>4. n <= Modulus /\ p \in 0 .. n - 1 /\ p + 1 \in DOMAIN servers /\ Modulus \in Nat
  <2>1. n <= Modulus /\ p \in 0 .. n - 1
    OBVIOUS
  <2> HIDE DEF n
  <2> QED  BY <1>1, <2>1, CountersAssumption
<1>5. w \in Nat
  BY <1>4 DEF TypeInv, TypeOK
<1>6. x = IF p + 1 = Turn(next') THEN 0 ELSE w + 1
  BY <1>4 DEF TakeTicket
<1>7. c \in 0 .. n - 1 /\ d = next' % n
  BY <1>1, <1>3, ModRange DEF Last, TakeTicket
<1>8. Turn(next') = d + 1
  BY <1>7 DEF Turn
<1>9. d \in 0 .. n - 1 /\ (next' < n => d = next')
  <2> HIDE DEF n, d
  <2> QED  BY <1>1, <1>3, <1>7, ModRange
<1>10. next' = next + 1 => d = IF c = n - 1 THEN 0 ELSE c + 1
  <2> HIDE DEF n, d
  <2> QED  BY <1>1, <1>3, <1>7, ModNext DEF Last, n
<1>11. \/ w <= IF p <= c THEN c - p ELSE n - p + c
       \/ next < p /\ w <= n + next
  BY DEF TurnsInv, Waits
<1>12. Waits(p)' <=> \/ x <= IF p <= d THEN d - p ELSE n - p + d
                     \/ next' < p /\ x <= n + next'
  BY DEF Waits, TakeTicket
<1> HIDE DEF n, c, d, w, x
<1>13. CASE p = d
  <2>1. x = 0
    BY <1>4, <1>6, <1>8, <1>13
  <2> QED  BY <1>4, <1>9, <1>12, <1>13, <2>1
<1>14. CASE p # d
  <2>1. x = w + 1
    BY <1>4, <1>6, <1>8, <1>9, <1>14
  <2>2. CASE next' = next + 1
    <3>1. d = IF c = n - 1 THEN 0 ELSE c + 1
      BY <1>10, <2>2
    <3>2. CASE w <= IF p <= c THEN c - p ELSE n - p + c
      <4>1. x <= IF p <= d THEN d - p ELSE n - p + d
        BY <1>1, <1>4, <1>5, <1>7, <1>9, <1>14, <2>1, <3>1, <3>2
      <4> QED  BY <1>12, <4>1
    <3>3. CASE next < p /\ w <= n + next
      <4>1. next' < p
        BY <1>1, <1>3, <1>4, <1>9, <1>14, <2>2, <3>3
      <4>2. x <= n + next'
        BY <1>1, <1>3, <1>5, <2>1, <2>2, <3>3
      <4> QED  BY <1>12, <4>1, <4>2
    <3> QED  BY <1>11, <3>2, <3>3
  <2>3. CASE next' = 0 /\ next' # next + 1
    <3>1. d = 0 /\ p > 0
      BY <1>1, <1>4, <1>9, <1>14, <2>3
    <3>2. next = Modulus - 1
      <4>1. Added(next) = (next + 1) % Modulus /\ next' = Added(next)
        BY DEF Added, TakeTicket
      <4>2. next + 1 < Modulus => (next + 1) % Modulus = next + 1
        <5>1. next + 1 \in Nat
          BY <1>3
        <5> QED  BY <5>1, ModRange, CountersAssumption
      <4> QED  BY <1>2, <1>3, <1>4, <2>3, <4>1, <4>2
    <3>3. w <= IF p <= c THEN c - p ELSE n - p + c
      BY <1>1, <1>3, <1>4, <1>11, <3>2
    <3>4. x <= n + next'
      BY <1>1, <1>4, <1>5, <1>7, <2>1, <2>3, <3>3
    <3> QED  BY <1>4, <1>12, <2>3, <3>1, <3>4
  <2> QED  BY <1>2, <2>2, <2>3
<1> QED  BY <1>13, <1>14

LEMMA TurnsStep == TypeInv /\ TurnsInv /\ [Next]_vars => TurnsInv'
<1> SUFFICES ASSUME TypeInv, TurnsInv, [Next]_vars
             PROVE  TurnsInv'
  OBVIOUS
<1>1. ASSUME NEW u \in Upstream, CleanupServer(u) \/ \E n \in Counts : ReplaceServices(u, n)
      PROVE  TurnsInv'
  BY <1>1, WriterSteps, TurnsNew DEF TypeInv
<1>2. ASSUME UNCHANGED <<servers, next, waited>>
      PROVE  TurnsInv'
  BY <1>2 DEF TurnsInv, Waits, Last
<1>3. ASSUME NEW r \in Request, FindNobody(r) \/ FindServer(r)
      PROVE  TurnsInv'
  BY <1>2, <1>3 DEF FindNobody, FindServer
<1>4. CASE UNCHANGED vars
  BY <1>2, <1>4 DEF vars
<1> QED  BY <1>1, <1>3, <1>4, TurnsTicket DEF Next

(* Round robin, for any number of entries up to the range of the counter:  *)
(* while the slice stays as it is every entry has its turn before another  *)
(* has two, and where the counter wraps an entry waits through at most one *)
(* round more.                                                             *)
THEOREM RoundRobinFair == Spec => []BoundedWait
<1>1. Init => TurnsInv
  <2> SUFFICES ASSUME Init
               PROVE  \A p \in 0 .. Len(servers) - 1 : Waits(p)
    BY DEF TurnsInv
  <2>1. Len(servers) = 0
    BY DEF Init
  <2> QED  BY <2>1
<1> QED  BY <1>1, TypeInit, TypeStep, TurnsStep, TurnsBound, PTL DEF Spec

-----------------------------------------------------------------------------
(* Refinement.                                                             *)

(* The slice in its order implements the abstract routing table: a row of  *)
(* it is replaced, or loses one entry, and the other rows stay.            *)
THEOREM SlicesImplementTable == Spec => ImplementsTable
<1> DEFINE Row(q, u) == [s \in {Name} |-> Times(q, u)]
           table == [u \in Upstream |-> [s \in {Name} |-> Cardinality(Entries(u))]]
<1>1. table = [u \in Upstream |-> Row(servers, u)]
  BY DEF Entries, Times, Places
<1>2. table' = [u \in Upstream |-> Row(servers', u)]
  BY DEF Entries, Times, Places
<1>3. Init => Table!Init
  <2> SUFFICES ASSUME Init
               PROVE  \A u \in Upstream : Cardinality(Entries(u)) = 0
    BY DEF Table!Init, Table!NoRoutes
  <2>1. \A u \in Upstream : Entries(u) = {}
    BY DEF Init, Entries
  <2> QED  BY <2>1, FS_EmptySet
<1>4. TypeInv /\ [Next]_vars => [Table!Next]_table
  <2> SUFFICES ASSUME TypeInv, [Next]_vars
               PROVE  [Table!Next]_table
    OBVIOUS
  <2>1. ASSUME NEW u \in Upstream, CleanupServer(u) \/ \E n \in Counts : ReplaceServices(u, n)
        PROVE  Table!Next
    <3>1. CASE /\ Entries(u) # {}
               /\ \A v : Times(servers', v) =
                          IF u = v THEN Times(servers, v) - 1 ELSE Times(servers, v)
      <4>1. Times(servers, u) # 0
        <5>1. IsFiniteSet(Places(servers, u)) /\ Places(servers, u) # {}
          BY <3>1, PlacesFinite DEF TypeInv, TypeOK, Entries, Places
        <5> QED  BY <5>1, FS_EmptySet DEF Times
      <4>2. Row(servers', u) = Table!Withdrawn(Row(servers, u))
        BY <3>1, <4>1 DEF Table!Withdrawn
      <4>3. \A v \in Upstream : v # u => Row(servers', v) = Row(servers, v)
        BY <3>1
      <4>4. table' = [table EXCEPT ![u] = Table!Withdrawn(@)]
        <5> HIDE DEF Row, table
        <5> QED  BY <1>1, <1>2, <4>2, <4>3
      <4>5. Table!Withdraw(u)
        BY <4>4 DEF Table!Withdraw
      <4> QED  BY <4>5 DEF Table!Next
    <3>2. ASSUME NEW n \in Counts,
                 \A v : Times(servers', v) = IF u = v THEN n ELSE Times(servers, v)
          PROVE  Table!Next
      <4> DEFINE row == [s \in {Name} |-> n]
      <4>1. Row(servers', u) = row /\ row \in [{Name} -> Counts]
        BY <3>2
      <4>2. \A v \in Upstream : v # u => Row(servers', v) = Row(servers, v)
        BY <3>2
      <4>3. table' = [table EXCEPT ![u] = row]
        <5> HIDE DEF Row, table, row
        <5> QED  BY <1>1, <1>2, <4>1, <4>2
      <4>4. Table!Report(u, row)
        BY <4>3 DEF Table!Report
      <4> HIDE DEF row
      <4> QED  BY <4>1, <4>4 DEF Table!Next
    <3> QED  BY <2>1, <3>1, <3>2, WriterSteps DEF TypeInv
  <2>2. ASSUME UNCHANGED servers
        PROVE  UNCHANGED table
    <3>1. \A u \in Upstream : Row(servers', u) = Row(servers, u)
      BY <2>2
    <3> HIDE DEF Row, table
    <3> QED  BY <1>1, <1>2, <3>1
  <2>3. ASSUME NEW r \in Request, FindNobody(r) \/ TakeTicket(r) \/ FindServer(r)
        PROVE  UNCHANGED table
    <3> HIDE DEF table
    <3> QED  BY <2>2, <2>3 DEF FindNobody, TakeTicket, FindServer
  <2>4. CASE UNCHANGED vars
    <3> HIDE DEF table
    <3> QED  BY <2>2, <2>4 DEF vars
  <2> QED  BY <2>1, <2>3, <2>4 DEF Next
<1> QED
  BY <1>3, <1>4, TypeInit, TypeStep, PTL DEF Spec, ImplementsTable, Table!Spec

=============================================================================
