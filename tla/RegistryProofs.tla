--------------------------- MODULE RegistryProofs ---------------------------
(***************************************************************************)
(* Proofs about Registry, for every set of providers, configurations,      *)
(* services and replies and any number of upstream objects.                *)
(***************************************************************************)
EXTENDS Registry, TLAPS

-----------------------------------------------------------------------------
(* Type correctness.                                                       *)

LEMMA InitTypeOK == Init => TypeOK
  BY ConstantsAssumption DEF Init, TypeOK, PC, Reported, NoRoutes, Cleaning

(* The rows that the actions put into the service map are lists of counts. *)
LEMMA RowTypes ==
  /\ NoRoutes \in [Service -> Nat]
  /\ \A r \in Reported : r \in [Service -> Nat] /\ Withdrawn(r) \in [Service -> Nat]
  /\ \A r \in [Service -> Nat] : Withdrawn(r) \in [Service -> Nat]
  BY ConstantsAssumption DEF NoRoutes, Reported, Withdrawn

(* Replacing a column of counts leaves a table of counts.                  *)
LEMMA SetColumnType ==
  ASSUME pool \in [Service -> [Upstream -> Nat]],
         NEW u \in Upstream, NEW r \in [Service -> Nat], SetColumn(u, r)
  PROVE  /\ pool' \in [Service -> [Upstream -> Nat]]
         /\ Column(u)' = r
         /\ \A v \in Upstream \ {u} : Column(v)' = Column(v)
  <1>1. pool' \in [Service -> [Upstream -> Nat]]
    BY DEF SetColumn
  <1>2. Column(u)' = r
    BY DEF SetColumn, Column
  <1>3. \A v \in Upstream \ {u} : Column(v)' = Column(v)
    BY DEF SetColumn, Column
  <1> QED BY <1>1, <1>2, <1>3

(* What a watcher reads is typed before it is registered.                  *)
LEMMA ColumnType ==
  ASSUME TypeOK, NEW u \in Upstream
  PROVE  Column(u) \in [Service -> Nat]
  BY DEF TypeOK, Column

(* Typing is inductive only together with the consistency of the watchers: *)
(* a fetch reads the services behind a configuration that can be reached.  *)
LEMMA StepTypeOK ==
  TypeOK /\ CallConsistent /\ WatchersConsistent /\ [Next]_vars => TypeOK'
  <1> SUFFICES ASSUME TypeOK, CallConsistent, WatchersConsistent, [Next]_vars
               PROVE  TypeOK'
    OBVIOUS
  <1> USE DEF TypeOK
  <1>1. ASSUME NEW p \in Provider, NEW W \in SUBSET Config, ReplaceServers(p, W)
        PROVE  TypeOK'
    BY <1>1 DEF ReplaceServers, serverVars, serviceVars, watchVars, Cleaning
  <1>2. ASSUME StopWatching \/ \E u \in Upstream : TestCancel(u)
        PROVE  TypeOK'
    BY <1>2 DEF TestCancel, StopWatching, serverVars, serviceVars, watchVars, history, Cleaning
  <1>3. CASE RemoveFromServices
    <2>1. pool' \in [Service -> [Upstream -> Nat]]
      BY <1>3, ColumnType, RowTypes, SetColumnType DEF RemoveFromServices
    <2> QED BY <1>3, <2>1 DEF RemoveFromServices, serverVars, watchVars, Cleaning
  <1>4. ASSUME NEW c \in Config, NEW u \in Upstream, NewUpstream(c, u)
        PROVE  TypeOK'
    BY <1>4 DEF NewUpstream, serviceVars, history, PC, CallConsistent
  <1>5. CASE ReplaceDone
    BY <1>5 DEF ReplaceDone, serviceVars, watchVars, history, CallConsistent, Cleaning
  <1>6. ASSUME NEW u \in Upstream, WatcherStarts(u)
        PROVE  TypeOK'
    BY <1>6 DEF WatcherStarts, Goto, serverVars, callVars, serviceVars, history, PC
  <1>7. ASSUME NEW u \in Upstream, ReflectClient(u)
        PROVE  TypeOK'
    BY <1>7 DEF ReflectClient, Return, Goto, serverVars, callVars, serviceVars, history, PC
  <1>8. ASSUME NEW u \in Upstream, ResolveSymbols(u)
        PROVE  TypeOK'
    BY <1>8 DEF ResolveSymbols, Goto, serverVars, callVars, serviceVars, history, PC
  <1>9. ASSUME NEW u \in Upstream, CheckContext(u)
        PROVE  TypeOK'
    BY <1>9 DEF CheckContext, Return, Goto, serverVars, callVars, serviceVars, history, PC
  <1>10. ASSUME NEW u \in Upstream, ReplaceServices(u)
         PROVE  TypeOK'
    <2>1. pool' \in [Service -> [Upstream -> Nat]]
      BY <1>10, RowTypes, SetColumnType DEF ReplaceServices
    <2> QED BY <1>10, <2>1 DEF ReplaceServices, Goto, serverVars, callVars, PC
  <1>11. ASSUME NEW u \in Upstream, NoticeDisconnect(u)
         PROVE  TypeOK'
    BY <1>11 DEF NoticeDisconnect, Goto, serverVars, callVars, serviceVars, history, PC
  <1>12. ASSUME NEW u \in Upstream, TimerFires(u)
         PROVE  TypeOK'
    BY <1>12 DEF TimerFires, Goto, serverVars, callVars, serviceVars, history, PC
  <1>13. ASSUME NEW u \in Upstream, NoticeCancel(u)
         PROVE  TypeOK'
    BY <1>13 DEF NoticeCancel, Return, Goto, serverVars, callVars, serviceVars, history, PC
  <1>14. ASSUME NEW u \in Upstream, ListServices(u)
         PROVE  TypeOK'
    <2>1. config[u] \in Reachable
      BY <1>14 DEF ListServices, Goto, WatchersConsistent
    <2>2. offer[config[u]] \in Reported
      BY <2>1 DEF Reported
    <2> QED BY <1>14, <2>2 DEF ListServices, Goto, serverVars, callVars, serviceVars, history, PC
  <1>15. ASSUME NEW u \in Upstream, ListServicesFails(u)
         PROVE  TypeOK'
    BY <1>15 DEF ListServicesFails, Goto, serverVars, callVars, serviceVars, history, PC
  <1>16. ASSUME NEW u \in Upstream, StreamBreaks(u)
         PROVE  TypeOK'
    BY <1>16 DEF StreamBreaks, serverVars, callVars, serviceVars, history
  <1>17. ASSUME NEW c \in Reachable, NEW r \in Replies, Redeploy(c, r)
         PROVE  TypeOK'
    BY <1>17 DEF Redeploy, serverVars, callVars, serviceVars, history
  <1>18. CASE UNCHANGED vars
    BY <1>18 DEF vars, serverVars, callVars, serviceVars, watchVars, history
  <1> QED
    BY <1>1, <1>2, <1>3, <1>4, <1>5, <1>6, <1>7, <1>8, <1>9, <1>10, <1>11, <1>12,
       <1>13, <1>14, <1>15, <1>16, <1>17, <1>18
    DEF Next, CallStep, OwnStep, Fetch

-----------------------------------------------------------------------------
(* What the steps leave alone.                                             *)

WatcherStep(u) == OwnStep(u) \/ Fetch(u) \/ StreamBreaks(u)

Redeployment == \E c \in Reachable, r \in Replies : Redeploy(c, r)

(* Neither a watcher nor its upstream touches the server lists or the call *)
(* in progress.                                                            *)
LEMMA WatcherFrame ==
  ASSUME (\E u \in Upstream : WatcherStep(u)) \/ Redeployment
  PROVE  UNCHANGED <<serverVars, callVars, requested, escaped>>
  BY DEF WatcherStep, Redeployment, OwnStep, Fetch, StreamBreaks, WatcherStarts,
         ReflectClient, ResolveSymbols, CheckContext, ReplaceServices, NoticeDisconnect,
         TimerFires, NoticeCancel, ListServices, ListServicesFails, Redeploy, history,
         callVars

(* A watcher's step changes nothing of another upstream.                   *)
LEMMA WatcherLocal ==
  ASSUME TypeOK, WatchersConsistent, NEW u \in Upstream, WatcherStep(u),
         NEW v \in Upstream \ {u}
  PROVE  /\ pc'[v] = pc[v] /\ cancelled'[v] = cancelled[v] /\ armed'[v] = armed[v]
         /\ info'[v] = info[v] /\ applied'[v] = applied[v]
         /\ Column(v)' = Column(v)
  <1> USE DEF TypeOK
  <1>1. CASE ReplaceServices(u)
    <2>1. Column(v)' = Column(v)
      BY <1>1, RowTypes, SetColumnType DEF ReplaceServices
    <2> QED BY <1>1, <2>1 DEF ReplaceServices, Goto
  <1>2. CASE ~ReplaceServices(u)
    <2>1. pool' = pool /\ applied' = applied
      BY <1>2 DEF WatcherStep, OwnStep, Fetch, StreamBreaks, WatcherStarts, ReflectClient,
         ResolveSymbols, CheckContext, NoticeDisconnect, TimerFires, NoticeCancel,
         ListServices, ListServicesFails, serviceVars, history
    <2>2. pc'[v] = pc[v] /\ info'[v] = info[v]
      BY <1>2 DEF WatcherStep, OwnStep, Fetch, StreamBreaks, WatcherStarts, ReflectClient,
         ResolveSymbols, CheckContext, NoticeDisconnect, TimerFires, NoticeCancel,
         ListServices, ListServicesFails, Return, Goto
    <2>3. cancelled'[v] = cancelled[v] /\ armed'[v] = armed[v]
      BY <1>2 DEF WatcherStep, OwnStep, Fetch, StreamBreaks, WatcherStarts, ReflectClient,
         ResolveSymbols, CheckContext, NoticeDisconnect, TimerFires, NoticeCancel,
         ListServices, ListServicesFails, Return, Goto
    <2> QED BY <2>1, <2>2, <2>3 DEF Column
  <1> QED BY <1>1, <1>2

(* No step forgets an object: an upstream that was created stays created.  *)
LEMMA CreatedStays ==
  ASSUME TypeOK, [Next]_vars, NEW v \in Upstream, Created(v)
  PROVE  Created(v)' /\ config'[v] = config[v] /\ owner'[v] = owner[v]
  <1> USE DEF TypeOK, Created
  <1>1. ASSUME NEW u \in Upstream, WatcherStep(u)
        PROVE  Created(v)' /\ config'[v] = config[v] /\ owner'[v] = owner[v]
    <2>1. config' = config /\ owner' = owner
      BY <1>1, WatcherFrame DEF serverVars
    <2>2. Created(v)'
      BY <1>1 DEF WatcherStep, OwnStep, Fetch, StreamBreaks, WatcherStarts, ReflectClient,
         ResolveSymbols, CheckContext, NoticeDisconnect, TimerFires, NoticeCancel,
         ListServices, ListServicesFails, ReplaceServices, Return, Goto
    <2> QED BY <2>1, <2>2
  <1>2. ASSUME NEW c \in Config, NEW u \in Upstream, NewUpstream(c, u)
        PROVE  Created(v)' /\ config'[v] = config[v] /\ owner'[v] = owner[v]
    BY <1>2 DEF NewUpstream
  <1>3. CASE Redeployment
    BY <1>3, WatcherFrame DEF Redeployment, Redeploy, serverVars
  <1>4. CASE UNCHANGED vars
    BY <1>4 DEF vars, serverVars, watchVars
  <1>5. CASE \/ \E p \in Provider, W \in SUBSET Config : ReplaceServers(p, W)
             \/ StopWatching \/ \E u \in Upstream : TestCancel(u)
             \/ RemoveFromServices
             \/ ReplaceDone
    BY <1>5 DEF ReplaceServers, TestCancel, StopWatching, RemoveFromServices, ReplaceDone, serverVars,
         watchVars
  <1> QED BY <1>1, <1>2, <1>3, <1>4, <1>5 DEF Next, CallStep, WatcherStep, Redeployment

-----------------------------------------------------------------------------
(* The server lists.                                                       *)

LEMMA StepCallConsistent ==
  TypeOK /\ CallConsistent /\ MembersOwned /\ [Next]_vars => CallConsistent'
  <1> SUFFICES ASSUME TypeOK, CallConsistent, MembersOwned, [Next]_vars
               PROVE  CallConsistent'
    OBVIOUS
  <1> USE ConstantsAssumption DEF TypeOK, CallConsistent
  <1>1. ASSUME NEW p \in Provider, NEW W \in SUBSET Config, ReplaceServers(p, W)
        PROVE  CallConsistent'
    BY <1>1 DEF ReplaceServers, serverVars, Cleaning
  <1>2. CASE StopWatching \/ \E u \in Upstream : TestCancel(u)
    BY <1>2 DEF TestCancel, StopWatching, serverVars, history
  <1>3. CASE RemoveFromServices
    BY <1>3 DEF RemoveFromServices, serverVars, Cleaning
  <1>4. ASSUME NEW c \in Config, NEW u \in Upstream, NewUpstream(c, u)
        PROVE  CallConsistent'
    <2>1. \A p \in Provider \ {target} : \A v \in servers[p] : config'[v] = config[v]
      BY <1>4 DEF NewUpstream, MembersOwned, Members
    <2>2. \A v \in fresh' : config'[v] \in wanted
      BY <1>4 DEF NewUpstream
    <2> QED BY <1>4, <2>1, <2>2 DEF NewUpstream, history
  <1>5. CASE ReplaceDone
    <2>1. {config[u] : u \in servers'[target]} = requested[target]
      BY <1>5 DEF ReplaceDone
    <2> QED BY <1>5, <2>1 DEF ReplaceDone, history, Cleaning
  <1>6. CASE (\E u \in Upstream : WatcherStep(u)) \/ Redeployment
    BY <1>6, WatcherFrame DEF serverVars, callVars
  <1>7. CASE UNCHANGED vars
    BY <1>7 DEF vars, serverVars, callVars, history
  <1> QED BY <1>1, <1>2, <1>3, <1>4, <1>5, <1>6, <1>7
          DEF Next, CallStep, WatcherStep, Redeployment

(* How the members of each provider change.                                *)
LEMMA MembersStep ==
  ASSUME TypeOK, CallConsistent, [Next]_vars, NEW p \in Provider
  PROVE  \/ Members(p)' = Members(p)
         \/ RemoveFromServices /\ p = target /\ Members(p)' = (drop \ {victim}) \cup fresh
         \/ \E c \in Config, u \in Upstream :
              NewUpstream(c, u) /\ p = target /\ Members(p)' = Members(p) \cup {u}
  <1> USE ConstantsAssumption DEF TypeOK, CallConsistent, Members
  <1>1. ASSUME NEW q \in Provider, NEW W \in SUBSET Config, ReplaceServers(q, W)
        PROVE  Members(p)' = Members(p)
    BY <1>1 DEF ReplaceServers, serverVars
  <1>2. ASSUME StopWatching \/ \E u \in Upstream : TestCancel(u)
        PROVE  Members(p)' = Members(p)
    BY <1>2 DEF TestCancel, StopWatching, serverVars
  <1>3. CASE RemoveFromServices
    BY <1>3 DEF RemoveFromServices, serverVars
  <1>4. ASSUME NEW c \in Config, NEW u \in Upstream, NewUpstream(c, u)
        PROVE  IF p = target THEN Members(p)' = Members(p) \cup {u}
                             ELSE Members(p)' = Members(p)
    BY <1>4 DEF NewUpstream
  <1>5. CASE ReplaceDone
    BY <1>5 DEF ReplaceDone
  <1>6. CASE (\E u \in Upstream : WatcherStep(u)) \/ Redeployment
    BY <1>6, WatcherFrame DEF serverVars, callVars
  <1>7. CASE UNCHANGED vars
    BY <1>7 DEF vars, serverVars, callVars
  <1> QED BY <1>1, <1>2, <1>3, <1>4, <1>5, <1>6, <1>7
          DEF Next, CallStep, WatcherStep, Redeployment

LEMMA StepMembersOwned ==
  TypeOK /\ CallConsistent /\ MembersOwned /\ [Next]_vars => MembersOwned'
  <1> SUFFICES ASSUME TypeOK, CallConsistent, MembersOwned, [Next]_vars,
                      NEW p \in Provider
               PROVE  \A u \in Members(p)' :
                        /\ Created(u)'
                        /\ owner'[u] = p
                        /\ \A v \in Members(p)' : config'[u] = config'[v] => u = v
    BY DEF MembersOwned
  <1>1. Members(p) \subseteq Upstream
    BY DEF TypeOK, Members
  <1>2. \A u \in Members(p) : Created(u)' /\ config'[u] = config[u] /\ owner'[u] = p
    BY <1>1, CreatedStays DEF MembersOwned
  <1>3. CASE Members(p)' \subseteq Members(p)
    BY <1>2, <1>3 DEF MembersOwned
  <1>4. ASSUME NEW c \in Config, NEW u \in Upstream, NewUpstream(c, u),
               p = target, Members(p)' = Members(p) \cup {u}
        PROVE  \A v \in Members(p)' :
                 /\ Created(v)'
                 /\ owner'[v] = p
                 /\ \A w \in Members(p)' : config'[v] = config'[w] => v = w
    <2>1. Created(u)' /\ owner'[u] = p /\ config'[u] = c
      BY <1>4 DEF NewUpstream, TypeOK, Created
    <2>2. Members(p) = fresh
      BY <1>4 DEF NewUpstream, Members
    <2>3. \A v \in Members(p) : config'[v] # c
      BY <1>2, <1>4, <2>2 DEF NewUpstream
    <2> QED BY <1>2, <1>4, <2>1, <2>3 DEF MembersOwned
  <1>5. RemoveFromServices /\ p = target => (drop \ {victim}) \cup fresh \subseteq Members(p)
    BY DEF RemoveFromServices, Members
  <1> QED BY <1>3, <1>4, <1>5, MembersStep

-----------------------------------------------------------------------------
(* The watchers.                                                           *)

WatcherConsistent(u) ==
  /\ Created(u) => config[u] \in Config /\ owner[u] \in Provider
  /\ armed[u] <=> pc[u] \notin {"none", "spawned", "done"}
  /\ pc[u] \notin {"none", "spawned", "connect", "done"} => config[u] \in Reachable
  /\ pc[u] \in {"resolve", "check", "register"} => info[u] \in Replies

LEMMA StepWatchersConsistent ==
  TypeOK /\ CallConsistent /\ WatchersConsistent /\ [Next]_vars => WatchersConsistent'
  <1> SUFFICES ASSUME TypeOK, CallConsistent, WatchersConsistent, [Next]_vars,
                      NEW u \in Upstream
               PROVE  WatcherConsistent(u)'
    BY DEF WatchersConsistent, WatcherConsistent
  <1>0. WatcherConsistent(u)
    BY DEF WatchersConsistent, WatcherConsistent
  <1> USE DEF TypeOK, WatcherConsistent, Created
  <1>1. CASE WatcherStep(u)
    <2>1. config' = config /\ owner' = owner
      BY <1>1, WatcherFrame DEF serverVars
    <2>2. CASE WatcherStarts(u)
      BY <1>0, <2>1, <2>2 DEF WatcherStarts, Goto
    <2>3. CASE ReflectClient(u)
      BY <1>0, <2>1, <2>3 DEF ReflectClient, Return, Goto, Reachable
    <2>4. CASE ListServices(u)
      <3>1. config[u] \in Reachable /\ offer[config[u]] \in Replies
        BY <1>0, <2>4 DEF ListServices, Goto
      <3> QED BY <1>0, <2>1, <2>4, <3>1 DEF ListServices, Goto
    <2>5. CASE ListServicesFails(u)
      BY <1>0, <2>1, <2>5 DEF ListServicesFails, Goto
    <2>6. CASE ResolveSymbols(u)
      BY <1>0, <2>1, <2>6 DEF ResolveSymbols, Goto
    <2>7. CASE CheckContext(u)
      BY <1>0, <2>1, <2>7 DEF CheckContext, Return, Goto
    <2>8. CASE ReplaceServices(u)
      BY <1>0, <2>1, <2>8 DEF ReplaceServices, Goto
    <2>9. CASE NoticeDisconnect(u)
      BY <1>0, <2>1, <2>9 DEF NoticeDisconnect, Goto
    <2>10. CASE TimerFires(u)
      BY <1>0, <2>1, <2>10 DEF TimerFires, Goto
    <2>11. CASE NoticeCancel(u)
      BY <1>0, <2>1, <2>11 DEF NoticeCancel, Return, Goto
    <2>12. CASE StreamBreaks(u)
      BY <1>0, <2>1, <2>12 DEF StreamBreaks
    <2> QED
      BY <1>1, <2>2, <2>3, <2>4, <2>5, <2>6, <2>7, <2>8, <2>9, <2>10, <2>11, <2>12
      DEF WatcherStep, OwnStep, Fetch
  <1>2. ASSUME NEW w \in Upstream \ {u}, WatcherStep(w)
        PROVE  WatcherConsistent(u)'
    <2>1. config' = config /\ owner' = owner
      BY <1>2, WatcherFrame DEF serverVars
    <2>2. pc'[u] = pc[u] /\ armed'[u] = armed[u] /\ info'[u] = info[u]
      BY <1>2, WatcherLocal
    <2> QED BY <1>0, <2>1, <2>2
  <1>3. CASE Redeployment
    BY <1>0, <1>3 DEF Redeployment, Redeploy, serverVars
  <1>4. ASSUME NEW c \in Config, NEW w \in Upstream, NewUpstream(c, w)
        PROVE  WatcherConsistent(u)'
    BY <1>0, <1>4 DEF NewUpstream, CallConsistent
  <1>5. CASE \/ \E p \in Provider, W \in SUBSET Config : ReplaceServers(p, W)
             \/ StopWatching \/ \E w \in Upstream : TestCancel(w)
             \/ RemoveFromServices
             \/ ReplaceDone
    <2>1. UNCHANGED <<config, owner, pc, armed, info>>
      BY <1>5 DEF ReplaceServers, TestCancel, StopWatching, RemoveFromServices, ReplaceDone,
         serverVars, watchVars
    <2> QED BY <1>0, <2>1
  <1>6. CASE UNCHANGED vars
    BY <1>0, <1>6 DEF vars, serverVars, watchVars
  <1> QED
    BY <1>1, <1>2, <1>3, <1>4, <1>5, <1>6 DEF Next, CallStep, WatcherStep, Redeployment

(* A server that a step leaves in its list was there before, or is new.    *)
LEMMA KeptStep ==
  ASSUME TypeOK, CallConsistent, MembersOwned, WatchersConsistent, [Next]_vars,
         NEW u \in Upstream, Kept(u)'
  PROVE  \/ Kept(u) /\ ~(RemoveFromServices /\ u = victim)
         \/ ~Created(u) /\ \E c \in Config : NewUpstream(c, u)
  <1>0. owner'[u] \in Provider
    <2>1. WatchersConsistent'
      BY StepWatchersConsistent
    <2> QED BY <2>1 DEF WatchersConsistent, Kept
  <1>1. PICK p \in Provider : p = owner'[u]
    BY <1>0
  <1>2. u \in Members(p)'
    BY <1>1 DEF Kept, Members
  <1>3. CASE u \in Members(p) /\ ~(RemoveFromServices /\ u = victim)
    <2>1. Created(u) /\ owner[u] = p
      BY <1>3 DEF MembersOwned
    <2> QED BY <1>3, <2>1 DEF Kept
  <1>4. CASE u \notin Members(p)
    <2>1. \E c \in Config : NewUpstream(c, u)
      BY <1>1, <1>2, <1>4, MembersStep DEF RemoveFromServices, Members
    <2> QED BY <2>1 DEF NewUpstream
  <1>5. CASE RemoveFromServices /\ u = victim
    <2>1. victim \in drop /\ victim \notin fresh
      BY <1>5 DEF RemoveFromServices, CallConsistent, TypeOK
    <2>2. target \in Provider /\ Members(target) = drop \cup fresh
      BY <1>5 DEF RemoveFromServices, CallConsistent, Members
    <2>3. owner[u] = target /\ owner'[u] = target
      BY <1>5, <2>1, <2>2 DEF MembersOwned, RemoveFromServices, serverVars
    <2>4. p = target
      BY <1>1, <2>3
    <2>5. Members(p)' = (drop \ {victim}) \cup fresh
      BY <1>5, <2>4 DEF RemoveFromServices, Members
    <2> QED BY <1>2, <1>5, <2>1, <2>5
  <1> QED BY <1>3, <1>4, <1>5

LEMMA StepKeptServersAreWatched ==
  TypeOK /\ CallConsistent /\ MembersOwned /\ WatchersConsistent
    /\ RemovedAreSilent /\ KeptServersAreWatched /\ [Next]_vars => KeptServersAreWatched'
  <1> SUFFICES ASSUME TypeOK, CallConsistent, MembersOwned, WatchersConsistent,
                      RemovedAreSilent, KeptServersAreWatched, [Next]_vars,
                      NEW u \in Upstream, Kept(u)',
                      u = victim' => rpc' = "stop", config'[u] \in Reachable
               PROVE  pc'[u] # "done" /\ ~cancelled'[u]
    BY DEF KeptServersAreWatched
  <1> USE DEF TypeOK
  <1>1. CASE \E c \in Config : NewUpstream(c, u)
    BY <1>1 DEF NewUpstream, RemovedAreSilent, Created
  <1>2. CASE ~\E c \in Config : NewUpstream(c, u)
    <2>1. Kept(u) /\ ~(RemoveFromServices /\ u = victim)
      BY <1>2, KeptStep
    <2>2. Created(u) /\ config[u] \in Reachable
      BY <2>1, CreatedStays DEF Kept
    <2>3. UNCHANGED <<rpc, victim>> \/ StopWatching \/ u # victim
      BY <2>1, WatcherFrame, ConstantsAssumption DEF Next, CallStep, ReplaceServers, TestCancel,
         NewUpstream, ReplaceDone, vars, callVars, WatcherStep, Redeployment, Cleaning
    <2>4. u = victim => rpc = "stop" /\ ~StopWatching
      BY <2>3 DEF StopWatching
    <2>5. pc[u] # "done" /\ ~cancelled[u]
      BY <2>1, <2>2, <2>4 DEF KeptServersAreWatched
    <2>6. CASE WatcherStep(u)
      <3>1. ReflectClient(u) => pc'[u] = "list" /\ cancelled' = cancelled
        BY <2>2 DEF ReflectClient, Reachable, Goto
      <3> QED BY <2>5, <2>6, <3>1 DEF WatcherStep, OwnStep, Fetch, StreamBreaks,
         WatcherStarts, ResolveSymbols, CheckContext, NoticeDisconnect, TimerFires,
         NoticeCancel, ListServices, ListServicesFails, ReplaceServices, Goto
    <2>7. CASE \E w \in Upstream \ {u} : WatcherStep(w)
      BY <2>5, <2>7, WatcherLocal
    <2>8. CASE Redeployment
      BY <2>5, <2>8 DEF Redeployment, Redeploy
    <2>9. CASE StopWatching
      BY <2>4, <2>5, <2>9 DEF StopWatching
    <2>10. CASE \/ \E w \in Upstream : TestCancel(w)
                \/ RemoveFromServices
                \/ \E c \in Config, w \in Upstream : NewUpstream(c, w)
                \/ ReplaceDone
                \/ \E p \in Provider, W \in SUBSET Config : ReplaceServers(p, W)
      BY <2>5, <2>10 DEF ReplaceServers, TestCancel, RemoveFromServices, NewUpstream,
         ReplaceDone, watchVars
    <2>11. CASE UNCHANGED vars
      BY <2>5, <2>11 DEF vars, watchVars
    <2> QED BY <2>6, <2>7, <2>8, <2>9, <2>10, <2>11 DEF Next, CallStep, WatcherStep, Redeployment
  <1> QED BY <1>1, <1>2

(* The cancel function that was found is called while the watcher runs, or *)
(* after it returned, which it only does for an address that was refused.  *)
LEMMA StepVictimConsistent ==
  TypeOK /\ CallConsistent /\ MembersOwned /\ WatchersConsistent
    /\ KeptServersAreWatched /\ VictimConsistent /\ [Next]_vars => VictimConsistent'
  <1> SUFFICES ASSUME TypeOK, CallConsistent, MembersOwned, WatchersConsistent,
                      KeptServersAreWatched, VictimConsistent, [Next]_vars
               PROVE  VictimConsistent'
    OBVIOUS
  <1> USE DEF TypeOK, VictimConsistent, OnlyRefusedServersPanic
  <1>1. ASSUME NEW u \in Upstream, TestCancel(u)
        PROVE  VictimConsistent'
    BY <1>1 DEF TestCancel, WatchersConsistent, watchVars
  <1>2. CASE StopWatching
    <2>1. PICK v \in Upstream : v = victim /\ v \in drop /\ target \in Provider
      BY <1>2 DEF StopWatching, CallConsistent, Cleaning
    <2>2. Kept(v) /\ config[v] \in Config
      BY <1>2, <2>1 DEF StopWatching, MembersOwned, Members, Kept, WatchersConsistent
    <2>3. ~armed[v] => pc[v] = "done"
      BY <1>2, <2>1, <2>2 DEF StopWatching, WatchersConsistent, Kept, Created
    <2>4. ~armed[v] => config[v] \in BadConfig
      BY <1>2, <2>1, <2>2, <2>3 DEF StopWatching, KeptServersAreWatched, Reachable
    <2> QED BY <1>2, <2>1, <2>4 DEF StopWatching, serverVars
  <1>3. ASSUME NEW w \in Upstream, WatcherStep(w)
        PROVE  VictimConsistent'
    <2>1. UNCHANGED <<rpc, victim, config>>
      BY <1>3, WatcherFrame DEF callVars, serverVars
    <2>2. \A v \in Upstream : pc[v] # "spawned" => pc'[v] # "spawned"
      BY <1>3 DEF WatcherStep, OwnStep, Fetch, StreamBreaks, WatcherStarts, ReflectClient,
         ResolveSymbols, CheckContext, NoticeDisconnect, TimerFires, NoticeCancel,
         ListServices, ListServicesFails, ReplaceServices, Return, Goto
    <2> QED BY <2>1, <2>2 DEF Cleaning
  <1>4. CASE Redeployment \/ UNCHANGED vars
    BY <1>4 DEF Redeployment, Redeploy, vars, callVars, serverVars, watchVars
  <1>5. CASE \/ \E p \in Provider, W \in SUBSET Config : ReplaceServers(p, W)
             \/ RemoveFromServices
             \/ \E c \in Config, u \in Upstream : NewUpstream(c, u)
             \/ ReplaceDone
    BY <1>5 DEF ReplaceServers, RemoveFromServices, NewUpstream, ReplaceDone
  <1> QED BY <1>1, <1>2, <1>3, <1>4, <1>5 DEF Next, CallStep, WatcherStep, Redeployment

-----------------------------------------------------------------------------
(* The routes.                                                             *)

(* How a step can change the routes of an upstream, or its last report.    *)
LEMMA RouteStep ==
  ASSUME TypeOK, WatchersConsistent, [Next]_vars, NEW u \in Upstream
  PROVE  \/ Column(u)' = Column(u) /\ applied'[u] = applied[u]
         \/ /\ RemoveFromServices /\ u = victim
            /\ Column(u)' = Withdrawn(Column(u)) /\ applied'[u] = applied[u]
         \/ /\ ReplaceServices(u)
            /\ Column(u)' = info[u] /\ applied'[u] = info[u]
  <1> USE DEF TypeOK
  <1>1. CASE ReplaceServices(u)
    <2>1. Column(u)' = info[u]
      BY <1>1, RowTypes, SetColumnType DEF ReplaceServices
    <2> QED BY <1>1, <2>1 DEF ReplaceServices
  <1>2. ASSUME NEW w \in Upstream \ {u}, WatcherStep(w)
        PROVE  Column(u)' = Column(u) /\ applied'[u] = applied[u]
    BY <1>2, WatcherLocal
  <1>3. CASE RemoveFromServices
    <2>1. PICK x \in Upstream : x = victim
      BY <1>3 DEF RemoveFromServices
    <2>2. SetColumn(x, Withdrawn(Column(x))) /\ applied' = applied
      BY <1>3, <2>1 DEF RemoveFromServices
    <2>3. Withdrawn(Column(x)) \in [Service -> Nat]
      BY ColumnType, RowTypes
    <2>4. Column(x)' = Withdrawn(Column(x)) /\ \A v \in Upstream \ {x} : Column(v)' = Column(v)
      BY <2>2, <2>3, SetColumnType
    <2> QED BY <1>3, <2>1, <2>2, <2>4
  <1>4. CASE ~RemoveFromServices /\ ~\E w \in Upstream : ReplaceServices(w)
    <2>1. pool' = pool /\ applied' = applied
      BY <1>4 DEF Next, CallStep, ReplaceServers, TestCancel, StopWatching, NewUpstream, ReplaceDone,
         OwnStep, Fetch, StreamBreaks, WatcherStarts, ReflectClient, ResolveSymbols,
         CheckContext, NoticeDisconnect, TimerFires, NoticeCancel, ListServices,
         ListServicesFails, Redeploy, serviceVars, history, vars
    <2> QED BY <2>1 DEF Column
  <1> QED BY <1>1, <1>2, <1>3, <1>4 DEF WatcherStep, OwnStep

LEMMA StepRoutesAreLastReport ==
  TypeOK /\ CallConsistent /\ MembersOwned /\ WatchersConsistent
    /\ RemovedAreSilent /\ RoutesAreLastReport /\ [Next]_vars => RoutesAreLastReport'
  <1> SUFFICES ASSUME TypeOK, CallConsistent, MembersOwned, WatchersConsistent,
                      RemovedAreSilent, RoutesAreLastReport, [Next]_vars,
                      NEW u \in Upstream
               PROVE  /\ Kept(u)' => Column(u)' = applied'[u]
                      /\ Column(u)' \in {applied'[u], Withdrawn(applied'[u])}
    BY DEF RoutesAreLastReport, Withdrawn
  <1>1. CASE Column(u)' = Column(u) /\ applied'[u] = applied[u]
    <2>1. Kept(u)' => Kept(u) \/ ~Created(u)
      BY KeptStep
    <2> QED BY <1>1, <2>1 DEF RoutesAreLastReport, RemovedAreSilent
  <1>2. CASE /\ RemoveFromServices /\ u = victim
             /\ Column(u)' = Withdrawn(Column(u)) /\ applied'[u] = applied[u]
    <2>1. ~Kept(u)'
      BY <1>2, KeptStep DEF RemoveFromServices, NewUpstream
    <2>2. Kept(u)
      <3>1. target \in Provider /\ u \in Members(target)
        BY <1>2 DEF RemoveFromServices, CallConsistent, Members, Cleaning
      <3> QED BY <3>1 DEF MembersOwned, Kept
    <2> QED BY <1>2, <2>1, <2>2 DEF RoutesAreLastReport
  <1>3. CASE Column(u)' = info[u] /\ applied'[u] = info[u]
    BY <1>3
  <1> QED BY <1>1, <1>2, <1>3, RouteStep

LEMMA StepRemovedAreSilent ==
  IInv /\ [Next]_vars => RemovedAreSilent'
  <1> SUFFICES ASSUME IInv, [Next]_vars PROVE RemovedAreSilent'
    OBVIOUS
  <1> USE DEF IInv, TypeOK
  (* The server that is being cleaned up.                                  *)
  <1>1. rpc' = "remove" /\ victim' \notin escaped' => cancelled'[victim']
    <2>1. ASSUME StopWatching \/ \E u \in Upstream : TestCancel(u)
          PROVE  rpc' = "remove" /\ victim' \notin escaped' => cancelled'[victim']
      BY <2>1 DEF TestCancel, StopWatching, Cleaning
    <2>2. ASSUME NEW u \in Upstream, WatcherStep(u)
          PROVE  rpc' = "remove" /\ victim' \notin escaped' => cancelled'[victim']
      <3>1. UNCHANGED <<rpc, victim, escaped>>
        BY <2>2, WatcherFrame DEF callVars
      <3>2. \A v \in Upstream : cancelled[v] => cancelled'[v]
        BY <2>2 DEF WatcherStep, OwnStep, Fetch, StreamBreaks, WatcherStarts, ReflectClient,
           ResolveSymbols, CheckContext, NoticeDisconnect, TimerFires, NoticeCancel,
           ListServices, ListServicesFails, ReplaceServices, Return
      <3> QED BY <3>1, <3>2 DEF RemovedAreSilent
    <2>3. CASE Redeployment
      BY <2>3 DEF Redeployment, Redeploy, callVars, history, RemovedAreSilent
    <2>4. CASE UNCHANGED vars
      BY <2>4 DEF vars, callVars, watchVars, history, RemovedAreSilent
    <2>5. CASE \/ \E p \in Provider, W \in SUBSET Config : ReplaceServers(p, W)
               \/ RemoveFromServices
               \/ \E c \in Config, u \in Upstream : NewUpstream(c, u)
               \/ ReplaceDone
      BY <2>5 DEF ReplaceServers, RemoveFromServices, NewUpstream, ReplaceDone
    <2> QED BY <2>1, <2>2, <2>3, <2>4, <2>5 DEF Next, CallStep, WatcherStep, Redeployment
  (* An upstream that has not been created.                                *)
  <1>2. ASSUME NEW u \in Upstream, ~Created(u)'
        PROVE  Column(u)' = NoRoutes /\ applied'[u] = NoRoutes /\ ~cancelled'[u]
    <2>1. ~Created(u)
      BY <1>2, CreatedStays
    <2>2. Column(u) = NoRoutes /\ applied[u] = NoRoutes /\ ~cancelled[u] /\ ~armed[u]
      BY <2>1 DEF RemovedAreSilent, WatchersConsistent, Created
    <2>3. ~ReplaceServices(u)
      BY <2>1 DEF ReplaceServices, Goto, Created
    <2>4. Withdrawn(NoRoutes) = NoRoutes
      BY DEF Withdrawn, NoRoutes
    <2>5. Column(u)' = NoRoutes /\ applied'[u] = NoRoutes
      BY <2>2, <2>3, <2>4, RouteStep
    <2>6. ~cancelled'[u]
      <3>1. ASSUME NEW w \in Upstream, WatcherStep(w)
            PROVE  cancelled'[u] = cancelled[u]
        <4>1. CASE w = u
          BY <2>1, <3>1, <4>1 DEF WatcherStep, OwnStep, Fetch, StreamBreaks, WatcherStarts,
             ReflectClient, ResolveSymbols, CheckContext, NoticeDisconnect, TimerFires,
             NoticeCancel, ListServices, ListServicesFails, ReplaceServices, Return, Goto,
             Created
        <4>2. CASE w # u
          BY <3>1, <4>2, WatcherLocal
        <4> QED BY <4>1, <4>2
      <3>2. CASE StopWatching
        <4>1. Created(victim)
          BY <3>2 DEF StopWatching, CallConsistent, MembersOwned, Members, Cleaning
        <4> QED BY <2>1, <2>2, <3>2, <4>1 DEF StopWatching
      <3>3. CASE ~StopWatching /\ ~\E w \in Upstream : WatcherStep(w)
        BY <3>3, <2>2 DEF Next, CallStep, WatcherStep, ReplaceServers, TestCancel, RemoveFromServices,
           NewUpstream, ReplaceDone, Redeploy, vars, watchVars
      <3> QED BY <2>2, <3>1, <3>2, <3>3
    <2> QED BY <2>5, <2>6
  (* An upstream that was removed and did not escape.                      *)
  <1>3. ASSUME NEW u \in Upstream, Created(u)', ~Kept(u)', u \notin escaped'
        PROVE  cancelled'[u] /\ pc'[u] # "register" /\ Column(u)' = Withdrawn(applied'[u])
    <2>1. u \notin escaped
      BY <1>3, WatcherFrame DEF Next, CallStep, WatcherStep, Redeployment, ReplaceServers,
         TestCancel, StopWatching, RemoveFromServices, NewUpstream, ReplaceDone, history, vars
    <2>2. CASE Created(u) /\ ~Kept(u)
      <3>1. cancelled[u] /\ pc[u] # "register" /\ Column(u) = Withdrawn(applied[u])
        BY <2>1, <2>2 DEF RemovedAreSilent
      <3>2. ~(RemoveFromServices /\ u = victim) /\ ~ReplaceServices(u)
        BY <2>2, <3>1 DEF RemoveFromServices, ReplaceServices, Goto, CallConsistent,
           MembersOwned, Members, Kept
      <3>3. Column(u)' = Withdrawn(applied'[u])
        BY <3>1, <3>2, RouteStep DEF Withdrawn
      <3>4. cancelled'[u] /\ pc'[u] # "register"
        <4>1. CASE WatcherStep(u)
          BY <3>1, <3>2, <4>1 DEF WatcherStep, OwnStep, Fetch, StreamBreaks, WatcherStarts,
             ReflectClient, ResolveSymbols, CheckContext, NoticeDisconnect, TimerFires,
             NoticeCancel, ListServices, ListServicesFails, Return, Goto
        <4>2. CASE \E w \in Upstream \ {u} : WatcherStep(w)
          BY <3>1, <4>2, WatcherLocal
        <4>3. CASE ~\E w \in Upstream : WatcherStep(w)
          BY <3>1, <2>2, <4>3 DEF Next, CallStep, WatcherStep, ReplaceServers, TestCancel, StopWatching,
             RemoveFromServices, NewUpstream, ReplaceDone, Redeploy, vars, watchVars, Created
        <4> QED BY <4>1, <4>2, <4>3
      <3> QED BY <3>3, <3>4
    <2>3. CASE Kept(u)
      <3>1. PICK p \in Provider : p = owner[u] /\ u \in Members(p) /\ owner'[u] = p
        BY <2>3, CreatedStays DEF Kept, WatchersConsistent
      <3>2. RemoveFromServices /\ u = victim
        <4>1. u \notin Members(p)'
          BY <1>3, <3>1 DEF Kept, Members
        <4>2. RemoveFromServices /\ p = target /\ Members(p)' = (drop \ {victim}) \cup fresh
          BY <3>1, <4>1, MembersStep
        <4>3. Members(p) = drop \cup fresh
          BY <4>2 DEF RemoveFromServices, Members
        <4> QED BY <3>1, <4>1, <4>2, <4>3
      <3>3. cancelled[u]
        BY <2>1, <3>2 DEF RemovedAreSilent, RemoveFromServices
      <3>4. pc[u] # "register" /\ pc' = pc /\ cancelled' = cancelled
        BY <1>3, <3>2 DEF RemoveFromServices, watchVars
      <3>5. Column(u)' = Withdrawn(applied'[u])
        <4>1. Column(u) = applied[u]
          BY <2>3 DEF RoutesAreLastReport
        <4>2. ~ReplaceServices(u) /\ (Column(u)' = Column(u) => Column(u) = Withdrawn(Column(u)))
          <5>1. SetColumn(u, Withdrawn(Column(u)))
            BY <3>2 DEF RemoveFromServices
          <5>2. Column(u)' = Withdrawn(Column(u))
            BY <5>1, ColumnType, RowTypes, SetColumnType
          <5> QED BY <3>4, <5>2 DEF ReplaceServices, Goto
        <4> QED BY <4>1, <4>2, RouteStep
      <3> QED BY <3>3, <3>4, <3>5
    <2>4. CASE ~Created(u)
      <3>1. \E c \in Config : NewUpstream(c, u)
        BY <1>3, <2>4, WatcherFrame DEF Next, CallStep, WatcherStep, Redeployment,
           ReplaceServers, TestCancel, StopWatching, RemoveFromServices, NewUpstream, ReplaceDone, OwnStep,
           Fetch, StreamBreaks, WatcherStarts, ReflectClient, ResolveSymbols, CheckContext,
           NoticeDisconnect, TimerFires, NoticeCancel, ListServices, ListServicesFails,
           ReplaceServices, Redeploy, Return, Goto, Created, vars, watchVars
      <3>2. Kept(u)'
        BY <3>1 DEF NewUpstream, CallConsistent, Kept, Members, Created
      <3> QED BY <1>3, <3>2
    <2> QED BY <2>2, <2>3, <2>4
  <1> QED BY <1>1, <1>2, <1>3 DEF RemovedAreSilent, Withdrawn, NoRoutes

-----------------------------------------------------------------------------
(* The theorems.                                                           *)

LEMMA InitIInv == Init => IInv
  <1> SUFFICES ASSUME Init PROVE IInv
    OBVIOUS
  <1>1. TypeOK
    BY InitTypeOK
  <1>2. CallConsistent /\ MembersOwned /\ VictimConsistent
    BY ConstantsAssumption DEF Init, CallConsistent, MembersOwned, Members, Cleaning,
       VictimConsistent, OnlyRefusedServersPanic
  <1>3. WatchersConsistent /\ KeptServersAreWatched
    BY DEF Init, WatchersConsistent, KeptServersAreWatched, Kept, Created
  <1>4. RoutesAreLastReport /\ RemovedAreSilent
    <2>1. \A u \in Upstream : ~Created(u) /\ Column(u) = NoRoutes /\ applied[u] = NoRoutes
      BY DEF Init, Created, Column, NoRoutes
    <2> QED BY <2>1 DEF Init, RoutesAreLastReport, RemovedAreSilent, Kept
  <1> QED BY <1>1, <1>2, <1>3, <1>4 DEF IInv

LEMMA StepIInv == IInv /\ [Next]_vars => IInv'
  BY StepTypeOK, StepCallConsistent, StepMembersOwned, StepWatchersConsistent,
     StepKeptServersAreWatched, StepVictimConsistent, StepRoutesAreLastReport,
     StepRemovedAreSilent
  DEF IInv

(* The inductive invariant holds of every reachable state.                 *)
THEOREM Invariance == Spec => []IInv
  <1> QED BY InitIInv, StepIInv, PTL DEF Spec

(* Every variable of the registry keeps its type: in particular a victim   *)
(* is named exactly while cleanupServer holds one, counts in the service   *)
(* map are never negative, and only reported lists are registered.         *)
THEOREM TypeCorrect == Spec => []TypeOK
  <1>1. IInv => TypeOK
    BY DEF IInv
  <1> QED BY <1>1, Invariance, PTL

(* ReplaceServers leaves exactly one upstream for each configuration that  *)
(* was asked for.                                                          *)
THEOREM ServersMatch == Spec => []ServersMatchRequest
  <1>1. IInv => ServersMatchRequest
    <2> SUFFICES ASSUME IInv, NEW p \in Provider
                 PROVE  /\ \A u \in Members(p) : owner[u] = p
                        /\ \A u, v \in Members(p) : config[u] = config[v] => u = v
                        /\ rpc = "idle" => {config[u] : u \in servers[p]} = requested[p]
      BY DEF ServersMatchRequest
    <2>1. rpc = "idle" => {config[u] : u \in servers[p]} = requested[p]
      BY ConstantsAssumption DEF IInv, CallConsistent
    <2> QED BY <2>1 DEF IInv, MembersOwned
  <1> QED BY <1>1, Invariance, PTL

(* The routes of a listed server are the whole of its last report.         *)
THEOREM RoutesCorrect == Spec => []RoutesAreLastReport
  <1>1. IInv => RoutesAreLastReport
    BY DEF IInv
  <1> QED BY <1>1, Invariance, PTL

(* A listed server with a usable address never loses its watcher.          *)
THEOREM WatchedCorrect == Spec => []KeptServersAreWatched
  <1>1. IInv => KeptServersAreWatched
    BY DEF IInv
  <1> QED BY <1>1, Invariance, PTL

(* The nil call of stopWatchingServices, which would end the proxy, can    *)
(* only happen for a server whose address was refused.                     *)
THEOREM PanicCorrect == Spec => []OnlyRefusedServersPanic
  <1>1. IInv => OnlyRefusedServersPanic
    BY DEF IInv, VictimConsistent
  <1> QED BY <1>1, Invariance, PTL

(* What is left of a removed server.                                       *)
LEMMA LingerInv == IInv => OnlyEscapedServersLinger
  <1> SUFFICES ASSUME IInv, NEW u \in Upstream, NEW s \in Service,
                      pool[s][u] > 0, ~Kept(u), u \notin escaped
               PROVE  applied[u][s] > 1
    BY DEF OnlyEscapedServersLinger, Routed
  <1>1. Column(u)[s] > 0
    BY DEF Column
  <1>2. Created(u)
    BY <1>1 DEF IInv, RemovedAreSilent, NoRoutes
  <1>3. Column(u) = Withdrawn(applied[u])
    BY <1>2 DEF IInv, RemovedAreSilent
  <1>4. applied[u] \in [Service -> Nat]
    BY RowTypes DEF IInv, TypeOK
  <1> QED BY <1>1, <1>3, <1>4 DEF Withdrawn

(* Only two interleavings, or a name that is reported twice, can leave a   *)
(* removed server in the service map.                                      *)
THEOREM LingerCorrect == Spec => []OnlyEscapedServersLinger
  BY LingerInv, Invariance, PTL

(* A server that its provider goes on asking for is never dropped.         *)
THEOREM UnchangedStay == Spec => UnchangedServersStay
  <1> DEFINE Stay == \A u \in Upstream :
         Kept(u) /\ config[u] \in requested[owner[u]] \cap requested'[owner[u]] => Kept(u)'
  <1>1. IInv /\ [Next]_vars => [Stay]_vars
    <2> SUFFICES ASSUME IInv, [Next]_vars, NEW u \in Upstream, Kept(u),
                        config[u] \in requested[owner[u]]
                 PROVE  Kept(u)'
      OBVIOUS
    <2> USE DEF IInv
    <2>1. Created(u)' /\ owner'[u] = owner[u]
      BY CreatedStays DEF Kept
    <2>2. PICK p \in Provider : p = owner[u] /\ u \in Members(p)
      BY DEF Kept, WatchersConsistent
    <2>3. CASE RemoveFromServices /\ p = target
      <3>1. u \in drop \cup fresh /\ config[u] \in wanted
        BY <2>2, <2>3 DEF RemoveFromServices, Members, CallConsistent
      <3>2. u \in fresh
        BY <3>1, <2>3 DEF RemoveFromServices, CallConsistent
      <3>3. u \in Members(p)'
        BY <2>3, <3>2 DEF RemoveFromServices, Members
      <3> QED BY <2>1, <2>2, <3>3 DEF Kept, Members
    <2>4. CASE ~(RemoveFromServices /\ p = target)
      <3>1. u \in Members(p)'
        BY <2>2, <2>4, MembersStep
      <3> QED BY <2>1, <2>2, <3>1 DEF Kept, Members
    <2> QED BY <2>3, <2>4
  <1> QED BY <1>1, Invariance, PTL DEF Spec, UnchangedServersStay

(* The service map implements the abstract routing table.                  *)
THEOREM Refinement == Spec => ImplementsTable
  <1> DEFINE table == [u \in Upstream |-> Column(u)]
  <1>1. Init => Table!Init
    BY DEF Init, Table!Init, Table!NoRoutes, Column
  <1>2. IInv /\ [Next]_vars => [Table!Next]_table
    <2> SUFFICES ASSUME IInv, [Next]_vars, table' # table
                 PROVE  Table!Next
      OBVIOUS
    <2> USE DEF IInv
    <2>1. PICK u \in Upstream : Column(u)' # Column(u)
      OBVIOUS
    <2>2. CASE RemoveFromServices /\ u = victim /\ Column(u)' = Withdrawn(Column(u))
      <3>1. \A v \in Upstream \ {u} : Column(v)' = Column(v)
        BY <2>2, RouteStep DEF RemoveFromServices, ReplaceServices, Goto, watchVars, TypeOK
      <3>2. table' = [table EXCEPT ![u] = Withdrawn(@)]
        BY <2>2, <3>1
      <3>3. Table!Withdraw(u)
        BY <3>2 DEF Table!Withdraw, Table!Withdrawn, Withdrawn
      <3> QED BY <3>3 DEF Table!Next
    <2>3. CASE ReplaceServices(u) /\ Column(u)' = info[u]
      <3>1. \A v \in Upstream \ {u} : Column(v)' = Column(v)
        BY <2>3, WatcherLocal DEF WatcherStep, OwnStep
      <3>2. info[u] \in Replies
        BY <2>3 DEF ReplaceServices, Goto, WatchersConsistent
      <3>3. table' = [table EXCEPT ![u] = info[u]]
        BY <2>3, <3>1
      <3>4. Table!Report(u, info[u])
        BY <3>3 DEF Table!Report
      <3> QED BY <3>2, <3>4 DEF Table!Next
    <2> QED BY <2>1, <2>2, <2>3, RouteStep
  <1> QED BY <1>1, <1>2, Invariance, PTL DEF Spec, ImplementsTable, Table!Spec

=============================================================================
