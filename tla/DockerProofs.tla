---------------------------- MODULE DockerProofs ----------------------------
(***************************************************************************)
(* Proofs about Docker, for any containers of any kinds, every configured  *)
(* mode, and event queues of every length.                                 *)
(***************************************************************************)
EXTENDS Docker, TLAPS

-----------------------------------------------------------------------------
(* The inductive invariant.                                                *)

(* Past checkExposeMode the mode is one that it accepts.                   *)
ModeAccepted == pc \notin {"start", "failed"} => Effective \in ValidModes

(* A change of the list waits in the event stream.                         *)
Announced == \E i \in DOMAIN events : events[i] \in Relevant

(* The servers of the containers that run and could be inspected.          *)
Wanted == {ConfigOf(c) : c \in {d \in running \ skipped : Exposable(d) /\ Usable(d)}}

(* The provider can only be out of date if it was not told, or if it has   *)
(* not looked at what it was told.                                         *)
ViewCurrent ==
  ~missed /\ ~Announced =>
    /\ pc = "apply" => snapshot = running
    /\ pc \in {"subscribe", "events", "sleep"} => servers = Wanted

IInv ==
  /\ TypeOK
  /\ ModeAccepted
  /\ OnlyExposableServers
  /\ ViewCurrent

-----------------------------------------------------------------------------
(* Decisions.                                                              *)

(* What handleContainerList does not ignore is what the rules expose.      *)
LEMMA NotIgnoredIsExposable ==
  ASSUME TypeOK, Effective \in ValidModes, ~OwnMissing(snapshot), NEW c \in snapshot
  PROVE  ~Ignored(c) <=> Exposable(c)
  <1> USE DEF Effective, ValidModes, Ignored, Exposable
  <1>1. CASE mode = "all"
    BY <1>1
  <1>2. CASE mode \in {"", "manual"}
    BY <1>2
  <1>3. CASE mode = "same_project"
    <2>1. kind[c].enable # "false" => self \in snapshot
      BY <1>3 DEF OwnMissing
    <2>2. self \in snapshot => self # None
      BY DockerAssumption DEF TypeOK
    <2> QED BY <1>3, <2>1, <2>2
  <1> QED BY <1>1, <1>2, <1>3

(* So what is handed over is exposed, and it is all that is exposed among  *)
(* the containers that could be inspected.                                 *)
LEMMA HandedOver ==
  ASSUME TypeOK, Effective \in ValidModes, ~OwnMissing(snapshot), NEW failed
  PROVE  /\ \A x \in Configs(snapshot, failed) :
              \E c \in Container : Exposable(c) /\ Usable(c) /\ x = ConfigOf(c)
         /\ Configs(snapshot, failed) =
              {ConfigOf(c) : c \in {d \in snapshot \ failed : Exposable(d) /\ Usable(d)}}
  <1>1. \A c \in snapshot : c \in Container /\ (~Ignored(c) <=> Exposable(c))
    BY NotIgnoredIsExposable DEF TypeOK
  <1> QED BY <1>1 DEF Configs

(* The configuration and the containers' labels do not change.             *)
LEMMA RulesStay ==
  ASSUME UNCHANGED <<mode, self, kind>>
  PROVE  /\ Effective' = Effective
         /\ \A c : Exposable(c)' <=> Exposable(c)
         /\ \A c : Usable(c)' <=> Usable(c)
         /\ \A c : ConfigOf(c)' = ConfigOf(c)
  BY DEF Effective, Exposable, Usable, UsableAs, ConfigOf, ConfigAs, Ip, Port, Network

LEMMA WantedStays ==
  ASSUME UNCHANGED <<mode, self, kind, running, skipped>>
  PROVE  Wanted' = Wanted
  BY RulesStay DEF Wanted

LEMMA RulesAlwaysStay ==
  ASSUME [Next]_vars
  PROVE  UNCHANGED <<mode, self, kind>>
  BY DEF Next, ProviderStep, CheckExposeMode, ContainerList, ContainerListFails,
         HandleContainerList, OwnContainerMissing, Subscribe, SubscribeFails, HandleEvent,
         StreamBreaks, SleepEnds, Restart, ContainerStarts, ContainerEnds, vars

-----------------------------------------------------------------------------
(* The steps.                                                              *)

(* Joining or taking from the stream keeps it a stream.                    *)
LEMMA StreamTypes ==
  ASSUME TypeOK
  PROVE  /\ <<>> \in Seq(Actions) /\ Len(<<>>) <= MaxEvents
         /\ events # <<>> => Tail(events) \in Seq(Actions) /\ Len(Tail(events)) <= MaxEvents
         /\ \A m \in Seq(Actions) : events \o m \in Seq(Actions)
                                    /\ Len(events \o m) = Len(events) + Len(m)
  BY DockerAssumption DEF TypeOK

LEMMA StepTypeOK ==
  IInv /\ [Next]_vars => TypeOK'
  <1> SUFFICES ASSUME IInv, [Next]_vars PROVE TypeOK'
    OBVIOUS
  <1> DEFINE ServersOK == \A x \in servers : \E c \in Container : Usable(c) /\ x = ConfigOf(c)
  <1> USE DEF IInv
  <1>0. ServersOK /\ (servers' = servers => ServersOK')
    BY RulesAlwaysStay, RulesStay DEF TypeOK
  <1>1. CASE HandleContainerList
    <2>1. ServersOK'
      <3>1. PICK failed \in SUBSET snapshot : servers' = Configs(snapshot, failed)
        BY <1>1 DEF HandleContainerList
      <3>2. Effective \in ValidModes /\ ~OwnMissing(snapshot)
        BY <1>1 DEF HandleContainerList, Goto, ModeAccepted
      <3>3. \A x \in servers' : \E c \in Container : Usable(c) /\ x = ConfigOf(c)
        BY <3>1, <3>2, HandedOver
      <3> QED BY <3>3, RulesAlwaysStay, RulesStay
    <2> HIDE DEF ServersOK
    <2> QED BY <1>1, <2>1 DEF HandleContainerList, Goto, TypeOK, ServersOK
  <1>2. CASE servers' = servers
    <2>0. ServersOK'
      BY <1>0, <1>2
    <2>1. CASE CheckExposeMode \/ ContainerList \/ Subscribe \/ SubscribeFails \/ SleepEnds
                 \/ Restart
      BY <2>0, <2>1 DEF CheckExposeMode, ContainerList, Subscribe, SubscribeFails, SleepEnds,
         Restart, Goto, TypeOK
    <2>2. CASE ContainerListFails \/ OwnContainerMissing \/ StreamBreaks
      BY <2>0, <2>2, StreamTypes DEF ContainerListFails, OwnContainerMissing, StreamBreaks,
         GiveUp, Unsubscribe, Goto, TypeOK
    <2>3. CASE HandleEvent
      BY <2>0, <2>3, StreamTypes DEF HandleEvent, Goto, TypeOK
    <2>4. ASSUME NEW c \in Container, ContainerStarts(c) \/ ContainerEnds(c)
          PROVE  TypeOK'
      <3>1. /\ <<"other", "start">> \in Seq(Actions) /\ Len(<<"other", "start">>) = 2
            /\ <<"die">> \in Seq(Actions) /\ Len(<<"die">>) = 1
            /\ <<"die", "stop">> \in Seq(Actions) /\ Len(<<"die", "stop">>) = 2
        BY DEF Actions
      <3>2. events' \in Seq(Actions) /\ Len(events') <= MaxEvents /\ missed' \in BOOLEAN
        BY <2>4, <3>1, StreamTypes DEF ContainerStarts, ContainerEnds, Announce, TypeOK
      <3> QED BY <2>0, <2>4, <3>2 DEF ContainerStarts, ContainerEnds, TypeOK
    <2>5. CASE UNCHANGED vars
      BY <2>0, <2>5 DEF vars, provider, TypeOK
    <2> QED BY <1>1, <2>1, <2>2, <2>3, <2>4, <2>5 DEF Next, ProviderStep
  <1> QED BY <1>1, <1>2 DEF Next, ProviderStep, CheckExposeMode, ContainerList,
         ContainerListFails, OwnContainerMissing, Subscribe, SubscribeFails, HandleEvent,
         StreamBreaks, SleepEnds, Restart, ContainerStarts, ContainerEnds, vars, provider

LEMMA StepModeAccepted ==
  IInv /\ [Next]_vars => ModeAccepted'
  <1> SUFFICES ASSUME IInv, [Next]_vars, pc' \notin {"start", "failed"}
               PROVE  Effective' \in ValidModes
    BY DEF ModeAccepted, ValidModes
  <1>1. Effective' = Effective
    BY RulesAlwaysStay, RulesStay
  <1>2. CheckExposeMode \/ pc \notin {"start", "failed"}
    BY DEF Next, ProviderStep, ContainerList, ContainerListFails, HandleContainerList,
       OwnContainerMissing, Subscribe, SubscribeFails, HandleEvent, StreamBreaks, SleepEnds,
       Restart, ContainerStarts, ContainerEnds, vars, provider, Goto
  <1>3. CheckExposeMode => Effective \in ValidModes
    BY DEF CheckExposeMode, Goto
  <1> QED BY <1>1, <1>2, <1>3 DEF IInv, ModeAccepted

LEMMA StepOnlyExposable ==
  IInv /\ [Next]_vars => OnlyExposableServers'
  <1> SUFFICES ASSUME IInv, [Next]_vars PROVE OnlyExposableServers'
    OBVIOUS
  <1>1. CASE HandleContainerList
    <2>1. PICK failed \in SUBSET snapshot : servers' = Configs(snapshot, failed)
      BY <1>1 DEF HandleContainerList
    <2>2. Effective \in ValidModes /\ ~OwnMissing(snapshot)
      BY <1>1 DEF HandleContainerList, Goto, IInv, ModeAccepted
    <2>3. \A x \in servers' :
            \E c \in Container : Exposable(c) /\ Usable(c) /\ x = ConfigOf(c)
      BY <2>1, <2>2, HandedOver DEF IInv
    <2> QED BY <2>3, RulesAlwaysStay, RulesStay DEF OnlyExposableServers
  <1>2. CASE servers' = servers
    BY <1>2, RulesAlwaysStay, RulesStay DEF IInv, OnlyExposableServers
  <1> QED BY <1>1, <1>2 DEF Next, ProviderStep, CheckExposeMode, ContainerList,
         ContainerListFails, OwnContainerMissing, Subscribe, SubscribeFails, HandleEvent,
         StreamBreaks, SleepEnds, Restart, ContainerStarts, ContainerEnds, vars, provider

(* What a step of the stream announces.                                    *)
LEMMA StreamSteps ==
  ASSUME TypeOK
  PROVE  /\ events # <<>> /\ Head(events) \notin Relevant =>
              (Announced <=> \E i \in DOMAIN Tail(events) : Tail(events)[i] \in Relevant)
         /\ \A m \in Seq(Actions) : (\E j \in DOMAIN m : m[j] \in Relevant) =>
              \E i \in DOMAIN (events \o m) : (events \o m)[i] \in Relevant
  <1>1. ASSUME events # <<>>, Head(events) \notin Relevant
        PROVE  Announced <=> \E i \in DOMAIN Tail(events) : Tail(events)[i] \in Relevant
    <2>1. events \in Seq(Actions) /\ Len(events) \in Nat /\ Len(events) > 0
      BY <1>1 DEF TypeOK
    <2>2. \A i \in DOMAIN Tail(events) : i + 1 \in DOMAIN events /\ Tail(events)[i] = events[i + 1]
      BY <2>1
    <2>3. \A i \in DOMAIN events : i # 1 => i - 1 \in DOMAIN Tail(events)
                                           /\ events[i] = Tail(events)[i - 1]
      BY <2>1
    <2>4. events[1] = Head(events)
      BY <2>1
    <2> QED BY <1>1, <2>2, <2>3, <2>4 DEF Announced
  <1>2. ASSUME NEW m \in Seq(Actions), NEW j \in DOMAIN m, m[j] \in Relevant
        PROVE  \E i \in DOMAIN (events \o m) : (events \o m)[i] \in Relevant
    <2>1. events \in Seq(Actions) /\ Len(events) \in Nat /\ Len(m) \in Nat /\ j \in 1 .. Len(m)
      BY DEF TypeOK
    <2>2. Len(events) + j \in DOMAIN (events \o m) /\ (events \o m)[Len(events) + j] = m[j]
      BY <2>1
    <2> QED BY <1>2, <2>2
  <1> QED BY <1>1, <1>2

LEMMA StepViewCurrent ==
  IInv /\ [Next]_vars => ViewCurrent'
  <1> SUFFICES ASSUME IInv, [Next]_vars PROVE ViewCurrent'
    OBVIOUS
  <1> USE DEF IInv
  <1>1. CASE HandleContainerList
    <2>1. PICK failed \in SUBSET snapshot :
            servers' = Configs(snapshot, failed) /\ skipped' = failed
      BY <1>1 DEF HandleContainerList
    <2>2. Effective \in ValidModes /\ ~OwnMissing(snapshot)
      BY <1>1 DEF HandleContainerList, Goto, ModeAccepted
    <2>3. servers' = {ConfigOf(c) : c \in {d \in snapshot \ failed : Exposable(d) /\ Usable(d)}}
      BY <2>1, <2>2, HandedOver
    <2>4. snapshot = running => servers' = Wanted'
      BY <1>1, <2>1, <2>3, RulesStay DEF HandleContainerList, Wanted
    <2>5. missed' = missed /\ (Announced' <=> Announced)
          /\ pc = "apply" /\ pc' \in {"subscribe", "events"}
      BY <1>1 DEF HandleContainerList, Announced, Goto
    <2> QED BY <2>3, <2>4, <2>5 DEF ViewCurrent
  <1>2. CASE CheckExposeMode \/ ContainerList \/ Restart
    BY <1>2 DEF CheckExposeMode, ContainerList, Restart, Goto, ViewCurrent
  <1>3. CASE ContainerListFails \/ OwnContainerMissing
    BY <1>3 DEF ContainerListFails, OwnContainerMissing, ViewCurrent
  <1>4. CASE StreamBreaks
    <2>1. missed' = (missed \/ Announced) /\ pc = "events" /\ pc' = "sleep"
      BY <1>4 DEF StreamBreaks, Goto, Announced
    <2>2. Wanted' = Wanted /\ servers' = servers /\ skipped' = skipped
      BY <1>4, WantedStays DEF StreamBreaks
    <2> QED BY <2>1, <2>2 DEF ViewCurrent
  <1>5. CASE Subscribe \/ SubscribeFails \/ SleepEnds
    <2>1. /\ pc \in {"subscribe", "sleep"} /\ pc' \in {"subscribe", "events", "sleep"}
          /\ UNCHANGED <<events, missed, servers, skipped>>
      BY <1>5 DEF Subscribe, SubscribeFails, SleepEnds, Goto
    <2>2. Wanted' = Wanted
      BY <1>5, WantedStays DEF Subscribe, SubscribeFails, SleepEnds
    <2> QED BY <2>1, <2>2 DEF ViewCurrent, Announced
  <1>6. CASE HandleEvent
    <2>1. CASE Head(events) \in Relevant
      BY <1>6, <2>1 DEF HandleEvent, Goto, ViewCurrent
    <2>2. CASE Head(events) \notin Relevant
      <3>1. Announced' <=> Announced
        BY <1>6, <2>2, StreamSteps DEF HandleEvent, Announced
      <3>2. pc = "events" /\ pc' = "events" /\ UNCHANGED <<missed, servers, skipped>>
        BY <1>6, <2>2 DEF HandleEvent, Goto
      <3>3. Wanted' = Wanted
        BY <1>6, WantedStays DEF HandleEvent
      <3> QED BY <3>1, <3>2, <3>3 DEF ViewCurrent
    <2> QED BY <2>1, <2>2
  <1>7. ASSUME NEW c \in Container, ContainerStarts(c) \/ ContainerEnds(c)
        PROVE  ViewCurrent'
    <2>1. /\ <<"other", "start">> \in Seq(Actions) /\ <<"other", "start">>[2] \in Relevant
          /\ 2 \in DOMAIN <<"other", "start">>
          /\ <<"die">> \in Seq(Actions) /\ <<"die">>[1] \in Relevant
          /\ 1 \in DOMAIN <<"die">>
          /\ <<"die", "stop">> \in Seq(Actions) /\ <<"die", "stop">>[1] \in Relevant
          /\ 1 \in DOMAIN <<"die", "stop">>
      BY DEF Actions, Relevant
    <2>2. PICK m \in {<<"other", "start">>, <<"die">>, <<"die", "stop">>} : Announce(m)
      BY <1>7 DEF ContainerStarts, ContainerEnds
    <2>3. m \in Seq(Actions) /\ \E j \in DOMAIN m : m[j] \in Relevant
      BY <2>1, <2>2
    <2>4. missed' \/ Announced'
      <3>1. CASE subscribed
        BY <2>2, <2>3, <3>1, StreamSteps DEF Announce, Announced
      <3>2. CASE ~subscribed
        BY <2>2, <3>2 DEF Announce
      <3> QED BY <3>1, <3>2
    <2> QED BY <2>4 DEF ViewCurrent
  <1>8. CASE UNCHANGED vars
    <2>1. Wanted' = Wanted
      BY <1>8, WantedStays DEF vars, provider
    <2> QED BY <1>8, <2>1 DEF vars, provider, ViewCurrent, Announced
  <1> QED BY <1>1, <1>2, <1>3, <1>4, <1>5, <1>6, <1>7, <1>8 DEF Next, ProviderStep

-----------------------------------------------------------------------------
(* Theorems.                                                               *)

LEMMA InitIInv == Init => IInv
  <1> SUFFICES ASSUME Init PROVE IInv
    OBVIOUS
  <1>1. TypeOK
    <2>1. events \in Seq(Actions) /\ Len(events) <= MaxEvents
      BY DockerAssumption DEF Init
    <2> QED BY <2>1 DEF Init, TypeOK
  <1> QED BY <1>1 DEF Init, IInv, ModeAccepted, OnlyExposableServers, ViewCurrent

LEMMA StepIInv == IInv /\ [Next]_vars => IInv'
  BY StepTypeOK, StepModeAccepted, StepOnlyExposable, StepViewCurrent DEF IInv

LEMMA Invariance == Spec => []IInv
  BY InitIInv, StepIInv, PTL DEF Spec

(* The variables keep their types; what is handed over is the              *)
(* configuration of a container with a network and a port.                 *)
THEOREM DockerTypes == Spec => []TypeOK
  <1>1. IInv => TypeOK
    BY DEF IInv
  <1> QED BY <1>1, Invariance, PTL

(* In every mode, whatever fails, only containers that the rules expose    *)
(* and that have a network and a port are handed to ReplaceServers         *)
(* (handleContainerList), possibly with an empty address.                  *)
THEOREM OnlyExposableHandedOver == Spec => []OnlyExposableServers
  <1>1. IInv => OnlyExposableServers
    BY DEF IInv
  <1> QED BY <1>1, Invariance, PTL

(* With events of any number under way, an idle provider that was told of  *)
(* every change has handed over exactly the running containers that are    *)
(* exposed, could be inspected, and have a network and a port.             *)
THEOREM IdleIsUpToDate == Spec => []UpToDateWhenIdle
  <1>1. IInv => UpToDateWhenIdle
    BY DEF IInv, ViewCurrent, UpToDateWhenIdle, Announced, Wanted
  <1> QED BY <1>1, Invariance, PTL
=============================================================================
