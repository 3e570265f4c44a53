----------------------- MODULE ReflectionClientProofs -----------------------
(***************************************************************************)
(* Proofs about the reflection client of one upstream, for any number of   *)
(* streams and of names.                                                   *)
(*                                                                         *)
(* Two inductive invariants: ExchangeInv follows the one request that is   *)
(* under way through the places where it, or its answer, can be; QuietInv  *)
(* follows the fields of the client through the steps of getStream and of  *)
(* streamDisconnected, for as long as these two have not run at once.      *)
(***************************************************************************)
EXTENDS ReflectionClient, SequenceTheorems, TLAPS

Ended == Disconnecting \cup {"done"}

(* A receiver that is about to close a channel knows which.                *)
TypeInv ==
  /\ TypeOK
  /\ \A k \in Stream : recv[k] = "close" => target[k] \in Stream

-----------------------------------------------------------------------------
(* The exchange.                                                           *)

(* The receiver of k has a response in its hands.                          *)
Carrying(k) == recv[k] = "put" /\ held[k] # Broken

Reply(ok) == [of |-> sym, ok |-> ok]

(* No request of k is under way.                                           *)
Idle(k) ==
  /\ requests[k] = <<>> /\ responses[k] = <<>>
  /\ ~Carrying(k)
  /\ buffer[k] \in {<<>>, <<Broken>>}

(* The request that the watcher has sent on k is in exactly one place: on  *)
(* its way, answered, received, or handed over.                            *)
Busy(k) ==
  /\ pc = "recv" /\ ref = k
  /\ \/ /\ requests[k] = <<sym>> /\ responses[k] = <<>>
        /\ ~Carrying(k) /\ buffer[k] = <<>>
     \/ /\ requests[k] = <<>> /\ \E ok \in BOOLEAN : responses[k] = <<Reply(ok)>>
        /\ ~Carrying(k) /\ buffer[k] = <<>>
     \/ /\ requests[k] = <<>> /\ responses[k] = <<>>
        /\ Carrying(k) /\ held[k].of = sym /\ buffer[k] = <<>>
     \/ /\ requests[k] = <<>> /\ responses[k] = <<>>
        /\ ~Carrying(k) /\ \E ok \in BOOLEAN : buffer[k] = <<Reply(ok)>>

(* What the state of a receiver says about its stream.                     *)
Lifecycle(k) ==
  /\ k \in alive => recv[k] \in {"recv", "put"}
  /\ k \notin alive => requests[k] = <<>>
  /\ recv[k] \in Ended \/ (recv[k] = "put" /\ held[k] = Broken) =>
       k \notin alive /\ responses[k] = <<>>
  /\ buffer[k] = <<Broken>> => recv[k] \in Ended
  /\ sealed[k] => recv[k] = "done"
  /\ recv[k] = "none" => Idle(k) /\ buffer[k] = <<>>

HasStream == ~panicked /\ pc \in {"send", "recv"} => ref \in Stream

Exchange(k) == Lifecycle(k) /\ (Idle(k) \/ Busy(k))

ExchangeInv == HasStream /\ \A k \in Stream : Exchange(k)

-----------------------------------------------------------------------------
(* Quiet disconnects.                                                      *)

(* The fields of the client name stream k, and no other.                   *)
Open(k) ==
  /\ disconnected = k
  /\ \/ v1 = k /\ v1alpha = None
     \/ v1 = None /\ v1alpha = k

NoStream == v1 = None /\ v1alpha = None

(* What the fields say of stream k, while its receiver runs: unless the    *)
(* watcher is about to set them, they name k.                              *)
Fields(k) ==
  CASE pc = "set_v1"    -> ref = k /\ NoStream
    [] pc = "set_disc"  -> ref = k /\ v1 = k /\ v1alpha = None
    [] pc = "set_alpha" -> ref = k /\ NoStream /\ disconnected = k
    [] OTHER            -> Open(k)

Receiving(k) ==
  /\ recv[k] \in {"none", "recv", "put", "check", "close"} => k \notin closed
  /\ recv[k] \in {"nil_v1", "nil_alpha", "nil_cache", "done"} => k \in closed
  /\ recv[k] \in {"none", "done"} => v1 # k /\ v1alpha # k
  /\ recv[k] \in {"recv", "put"} => Fields(k)
  /\ recv[k] \in {"check", "close", "nil_v1"} => Open(k)
  /\ recv[k] = "close" => target[k] = k
  /\ recv[k] = "nil_alpha" => v1 = None /\ v1alpha \in {k, None}
  /\ recv[k] = "nil_cache" => NoStream
  /\ recv[k] \in Disconnecting => pc \notin CallStates

(* What the watcher has found out in the call is still so.                 *)
Calling ==
  /\ pc = "open" => NoStream
  /\ pc = "get_alpha" => v1 = None
  /\ pc \in {"get_v1", "ret_v1"} => v1 # None
  /\ pc \in {"get_v1alpha", "ret_alpha"} => v1alpha # None
  /\ pc \in {"set_v1", "set_disc", "set_alpha"} =>
       ref \in Stream /\ recv[ref] \in {"recv", "put"}
  /\ pc = "write" => cache

Running(k) == recv[k] \notin {"none", "done"}

(* One receiver runs at a time.                                            *)
OneRunning == \A j, k \in Stream : Running(j) /\ Running(k) => j = k

Quiet ==
  /\ ~panicked
  /\ Calling
  /\ \A k \in Stream : Receiving(k)
  /\ OneRunning

QuietInv == ~overlapped => Quiet
-----------------------------------------------------------------------------
(* Type correctness.                                                       *)

LEMMA TypeInit == Init => TypeInv
<1> SUFFICES ASSUME Init
             PROVE  TypeInv
  OBVIOUS
<1>1. pc \in PC /\ sym \in Symbol /\ todo \in Symbol
  BY ClientAssumption DEF Init, PC, CallStates, Symbol
<1>2. /\ requests \in [Stream -> Seq(Symbol)]
      /\ responses \in [Stream -> Seq(Item)]
      /\ buffer \in [Stream -> Seq(Item)]
  BY DEF Init
<1>3. held \in [Stream -> Item]
  BY DEF Init, Item, Broken
<1>4. /\ recv \in [Stream -> {"none", "recv", "put", "done"} \cup Disconnecting]
      /\ \A k \in Stream : recv[k] # "close"
  BY DEF Init
<1> QED  BY <1>1, <1>2, <1>3, <1>4 DEF Init, TypeInv, TypeOK

LEMMA GotoTyped ==
  ASSUME TypeInv, NEW from, NEW to \in PC, Goto(from, to)
  PROVE  pc' \in PC /\ overlapped' \in BOOLEAN
  BY DEF Goto, TypeInv, TypeOK

LEMMA StepTyped ==
  ASSUME TypeInv, NEW k \in Stream, NEW from,
         NEW to \in {"none", "recv", "put", "done"} \cup Disconnecting, Step(k, from, to)
  PROVE  /\ recv' \in [Stream -> {"none", "recv", "put", "done"} \cup Disconnecting]
         /\ overlapped' \in BOOLEAN
         /\ \A j \in Stream : recv'[j] = IF j = k THEN to ELSE recv[j]
  BY DEF Step, TypeInv, TypeOK

LEMMA TypeWatcher ==
  ASSUME TypeInv, WatcherStep
  PROVE  TypeInv'
<1>1. CASE CheckV1
  BY <1>1 DEF CheckV1, Goto, TypeInv, TypeOK, PC, CallStates, fields, streams, receivers
<1>2. CASE CheckV1Alpha
  BY <1>2 DEF CheckV1Alpha, Goto, TypeInv, TypeOK, PC, CallStates, fields, streams, receivers
<1>3. CASE ReturnStream
  BY <1>3 DEF ReturnStream, Return, Goto, TypeInv, TypeOK, PC, CallStates, fields, streams,
     receivers
<1>4. ASSUME NEW k \in Stream, OpenV1(k) \/ OpenV1Alpha(k)
      PROVE  TypeInv'
  <2>1. /\ recv' = [recv EXCEPT ![k] = "recv"]
        /\ alive' = alive \cup {k}
        /\ UNCHANGED <<requests, responses, held, buffer, sealed, target>>
    BY <1>4 DEF OpenV1, OpenV1Alpha, Start
  <2>2. /\ recv' \in [Stream -> {"none", "recv", "put", "done"} \cup Disconnecting]
        /\ \A j \in Stream : recv'[j] = "close" => recv[j] = "close"
    BY <2>1 DEF TypeInv, TypeOK
  <2>3. pc' \in PC /\ overlapped' \in BOOLEAN
    BY <1>4, GotoTyped DEF OpenV1, OpenV1Alpha, PC, CallStates
  <2>4. /\ ref' = k /\ disconnected' \in Stream \cup {None}
        /\ UNCHANGED <<v1, v1alpha, cache, closed, sym, todo, waitOn, panicked>>
    BY <1>4 DEF OpenV1, OpenV1Alpha, TypeInv, TypeOK, fields
  <2> QED  BY <2>1, <2>2, <2>3, <2>4 DEF TypeInv, TypeOK
<1>5. CASE OpenFails
  BY <1>5 DEF OpenFails, Fail, Goto, TypeInv, TypeOK, PC, CallStates, fields, streams, receivers
<1>6. CASE SetV1 \/ SetDisconnected \/ SetV1Alpha
  BY <1>6 DEF SetV1, SetDisconnected, SetV1Alpha, Goto, TypeInv, TypeOK, PC, CallStates,
              streams, receivers
<1>7. CASE Send
  <2>1. requests' \in [Stream -> Seq(Symbol)]
    <3>1. CASE ref \in alive
      <4>1. Append(requests[ref], sym) \in Seq(Symbol)
        BY <3>1 DEF TypeInv, TypeOK
      <4> QED  BY <1>7, <3>1, <4>1 DEF Send, TypeInv, TypeOK
    <3> QED  BY <1>7, <3>1 DEF Send, TypeInv, TypeOK
  <2> QED
    BY <1>7, <2>1 DEF Send, Goto, TypeInv, TypeOK, PC, CallStates, fields, receivers
<1>8. CASE SendFails \/ RecvClosed
  BY <1>8 DEF SendFails, RecvClosed, Fail, Goto, TypeInv, TypeOK, PC, CallStates,
              fields, streams, receivers
<1>9. ASSUME RecvError \/ RecvFiles \/ \E n \in Symbol : RecvList(n)
      PROVE  TypeInv'
  <2>1. /\ TakeItem
        /\ buffer[ref] # <<>>
    BY <1>9 DEF RecvError, RecvFiles, RecvList
  <2>2. buffer' \in [Stream -> Seq(Item)]
    <3>1. CASE ref \in Stream
      <4>1. Tail(buffer[ref]) \in Seq(Item)
        BY <2>1, <3>1 DEF TypeInv, TypeOK
      <4> QED  BY <2>1, <3>1, <4>1 DEF TakeItem, TypeInv, TypeOK
    <3> QED  BY <2>1, <3>1 DEF TakeItem, TypeInv, TypeOK
  <2>3. /\ pc' \in PC
        /\ ref' = None
        /\ todo' \in Symbol
        /\ overlapped' \in BOOLEAN
    BY <1>9 DEF RecvError, RecvFiles, RecvList, Fail, Goto, TypeInv, TypeOK, PC, CallStates
  <2>4. UNCHANGED <<fields, sym, waitOn, streams, recv, held, sealed, target, panicked>>
    BY <1>9 DEF RecvError, RecvFiles, RecvList
  <2> QED  BY <2>2, <2>3, <2>4 DEF TypeInv, TypeOK, fields, streams
<1>10. CASE MakeCache \/ WriteCache
  BY <1>10 DEF MakeCache, WriteCache, Goto, TypeInv, TypeOK, PC, CallStates,
               fields, streams, receivers
<1>11. CASE NextSymbol
  <2>1. sym' \in Symbol
    <3>1. sym \in Symbol /\ todo \in Symbol
      BY DEF TypeInv, TypeOK
    <3>2. sym < todo => sym + 1 \in Symbol
      BY <3>1, ClientAssumption DEF Symbol
    <3>3. 0 \in Symbol
      BY ClientAssumption DEF Symbol
    <3>4. (sym < todo /\ sym' = sym + 1) \/ sym' = 0
      BY <1>11 DEF NextSymbol
    <3> QED  BY <3>2, <3>3, <3>4
  <2>2. pc' \in PC /\ overlapped' \in BOOLEAN
    BY <1>11, GotoTyped DEF NextSymbol, PC, CallStates
  <2> QED
    BY <1>11, <2>1, <2>2 DEF NextSymbol, TypeInv, TypeOK, fields, streams, receivers
<1>12. CASE EvalDisconnected \/ NoticeDisconnect \/ TimerFires
  <2>1. todo' \in Symbol
    BY <1>12, ClientAssumption DEF EvalDisconnected, NoticeDisconnect, TimerFires, Symbol,
               TypeInv, TypeOK
  <2>2. pc' \in PC /\ overlapped' \in BOOLEAN
    BY <1>12, GotoTyped DEF EvalDisconnected, NoticeDisconnect, TimerFires, PC, CallStates
  <2> QED
    BY <1>12, <2>1, <2>2 DEF EvalDisconnected, NoticeDisconnect, TimerFires, TypeInv, TypeOK,
               fields, streams, receivers
<1> QED
  BY <1>1, <1>2, <1>3, <1>4, <1>5, <1>6, <1>7, <1>8, <1>9, <1>10, <1>11, <1>12 DEF WatcherStep

LEMMA TypeReceiver ==
  ASSUME TypeInv, NEW k \in Stream, ReceiverStep(k)
  PROVE  TypeInv'
<1>1. CASE Receive(k)
  <2>1. held' \in [Stream -> Item] /\ responses' \in [Stream -> Seq(Item)]
    <3>1. CASE responses[k] # <<>>
      <4>1. Head(responses[k]) \in Item /\ Tail(responses[k]) \in Seq(Item)
        BY <3>1 DEF TypeInv, TypeOK
      <4>2. /\ held' = [held EXCEPT ![k] = Head(responses[k])]
            /\ responses' = [responses EXCEPT ![k] = Tail(responses[k])]
        BY <1>1, <3>1 DEF Receive
      <4> QED  BY <4>1, <4>2 DEF TypeInv, TypeOK
    <3> QED  BY <1>1, <3>1 DEF Receive, TypeInv, TypeOK, Broken, Item
  <2> QED  BY <1>1, <2>1 DEF Receive, Step, TypeInv, TypeOK, fields, watcher
<1>2. CASE Put(k)
  <2>1. buffer' \in [Stream -> Seq(Item)]
    <3>1. <<held[k]>> \in Seq(Item)
      BY DEF TypeInv, TypeOK
    <3> QED  BY <1>2, <3>1 DEF Put, TypeInv, TypeOK
  <2> QED
    BY <1>2, <2>1 DEF Put, Step, TypeInv, TypeOK, Disconnecting, fields, watcher, streams
<1>3. CASE CheckChannel(k)
  BY <1>3 DEF CheckChannel, Step, TypeInv, TypeOK, Disconnecting, fields, watcher, streams
<1>4. CASE CloseChannel(k)
  <2>1. target[k] \in Stream
    BY <1>4 DEF CloseChannel, Step, TypeInv
  <2> QED
    BY <1>4, <2>1, StepTyped DEF CloseChannel, TypeInv, TypeOK, Disconnecting, watcher, streams
<1>5. CASE ForgetV1(k) \/ ForgetV1Alpha(k) \/ ForgetCache(k)
  <2>1. /\ recv' \in [Stream -> {"none", "recv", "put", "done"} \cup Disconnecting]
        /\ overlapped' \in BOOLEAN
        /\ \A j \in Stream : recv'[j] = "close" => recv[j] = "close"
    BY <1>5, StepTyped DEF ForgetV1, ForgetV1Alpha, ForgetCache, Disconnecting
  <2> QED
    BY <1>5, <2>1 DEF ForgetV1, ForgetV1Alpha, ForgetCache, TypeInv, TypeOK, watcher, streams
<1> QED  BY <1>1, <1>2, <1>3, <1>4, <1>5 DEF ReceiverStep

LEMMA TypeUpstream ==
  ASSUME TypeInv, NEW k \in Stream, UpstreamStep(k)
  PROVE  TypeInv'
<1>1. CASE Answer(k)
  <2>1. requests[k] # <<>> /\ Tail(requests[k]) \in Seq(Symbol) /\ Head(requests[k]) \in Symbol
    BY <1>1 DEF Answer, TypeInv, TypeOK
  <2>2. PICK ok \in BOOLEAN :
          responses' = [responses EXCEPT ![k] = Append(@, [of |-> Head(requests[k]), ok |-> ok])]
    BY <1>1 DEF Answer
  <2>3. [of |-> Head(requests[k]), ok |-> ok] \in Item
    BY <2>1 DEF Item
  <2>4. Append(responses[k], [of |-> Head(requests[k]), ok |-> ok]) \in Seq(Item)
    BY <2>3 DEF TypeInv, TypeOK
  <2>5. responses' \in [Stream -> Seq(Item)]
    BY <2>2, <2>4 DEF TypeInv, TypeOK
  <2>6. requests' \in [Stream -> Seq(Symbol)]
    BY <1>1, <2>1 DEF Answer, TypeInv, TypeOK
  <2> QED  BY <1>1, <2>5, <2>6 DEF Answer, TypeInv, TypeOK, fields, watcher, receivers
<1>2. CASE Break(k)
  BY <1>2 DEF Break, TypeInv, TypeOK, fields, watcher, receivers
<1> QED  BY <1>1, <1>2 DEF UpstreamStep

LEMMA TypeStep == TypeInv /\ [Next]_vars => TypeInv'
<1> SUFFICES ASSUME TypeInv, [Next]_vars
             PROVE  TypeInv'
  OBVIOUS
<1>1. CASE UNCHANGED vars
  BY <1>1 DEF vars, fields, watcher, streams, receivers, TypeInv, TypeOK
<1> QED  BY <1>1, TypeWatcher, TypeReceiver, TypeUpstream DEF Next

(* Every variable keeps its type: no response is taken from an empty       *)
(* channel, and streamDisconnected closes a channel and never nil.         *)
THEOREM ClientTyped == Spec => []TypeOK
<1>1. TypeInv => TypeOK
  BY DEF TypeInv
<1> QED  BY <1>1, TypeInit, TypeStep, PTL DEF Spec

-----------------------------------------------------------------------------
(* One exchange at a time.                                                 *)

LEMMA ExchangeInit == Init => ExchangeInv
  BY DEF Init, ExchangeInv, HasStream, Exchange, Lifecycle, Idle, Carrying, Ended, Disconnecting

(* A step that leaves stream j and its receiver alone.                     *)
Untouched(j) ==
  /\ j \in alive' <=> j \in alive
  /\ requests'[j] = requests[j] /\ responses'[j] = responses[j]
  /\ recv'[j] = recv[j] /\ held'[j] = held[j] /\ buffer'[j] = buffer[j]
  /\ sealed'[j] = sealed[j]

LEMMA Elsewhere ==
  ASSUME NEW j \in Stream, Exchange(j), Untouched(j), UNCHANGED <<pc, ref, sym>>
  PROVE  Exchange(j)'
  BY DEF Untouched, Exchange, Lifecycle, Idle, Busy, Carrying, Reply

LEMMA Between ==
  ASSUME NEW j \in Stream, Exchange(j), Untouched(j), pc # "recv"
  PROVE  Exchange(j)'
  BY DEF Untouched, Exchange, Lifecycle, Idle, Busy, Carrying

LEMMA AllUntouched ==
  ASSUME UNCHANGED <<streams, receivers>>, NEW j \in Stream
  PROVE  Untouched(j)
  BY DEF Untouched, streams, receivers

(* A new stream is idle.                                                   *)
LEMMA ExchangeOpen ==
  ASSUME TypeInv, ExchangeInv, NEW k \in Stream, OpenV1(k) \/ OpenV1Alpha(k)
  PROVE  ExchangeInv'
<1>1. /\ recv[k] = "none" /\ pc = "open" /\ pc' \in {"set_v1", "set_alpha"}
      /\ recv' = [recv EXCEPT ![k] = "recv"]
      /\ alive' = alive \cup {k}
      /\ UNCHANGED <<requests, responses, held, buffer, sealed>>
  BY DEF OpenV1, OpenV1Alpha, Start, Goto
<1>2. recv'[k] = "recv" /\ \A j \in Stream : j # k => recv'[j] = recv[j]
  BY <1>1 DEF TypeInv, TypeOK
<1>3. ASSUME NEW j \in Stream, j # k
      PROVE  Exchange(j)'
  BY <1>1, <1>2, <1>3, Between DEF Untouched, ExchangeInv
<1>4. Exchange(k)'
  BY <1>1, <1>2 DEF ExchangeInv, Exchange, Lifecycle, Idle, Carrying, Ended, Disconnecting
<1> QED  BY <1>1, <1>3, <1>4 DEF ExchangeInv, HasStream

(* The request goes to an idle stream, or nowhere if that has broken.      *)
LEMMA ExchangeSend ==
  ASSUME TypeInv, ExchangeInv, Send
  PROVE  ExchangeInv'
<1>1. /\ pc = "send" /\ pc' = "recv" /\ ~panicked
      /\ UNCHANGED <<ref, sym, alive, responses, recv, held, buffer, sealed>>
  BY DEF Send, Goto, receivers
<1>2. ref \in Stream
  BY <1>1 DEF ExchangeInv, HasStream
<1>3. Exchange(ref) /\ Idle(ref)
  BY <1>1, <1>2 DEF ExchangeInv, Exchange, Busy
<1>4. ASSUME NEW j \in Stream, j # ref
      PROVE  Exchange(j)'
  <2>1. requests'[j] = requests[j]
    BY <1>2, <1>4 DEF Send, TypeInv, TypeOK
  <2> QED  BY <1>1, <1>4, <2>1, Between DEF Untouched, ExchangeInv
<1>5. Exchange(ref)'
  <2>1. CASE ref \in alive
    <3>1. requests'[ref] = Append(requests[ref], sym)
      BY <1>2, <2>1 DEF Send, TypeInv, TypeOK
    <3>2. requests'[ref] = <<sym>>
      BY <1>3, <3>1 DEF Idle
    <3>3. /\ recv[ref] \in {"recv", "put"} /\ buffer[ref] = <<>>
      BY <1>3, <2>1 DEF Exchange, Lifecycle, Idle, Ended, Disconnecting
    <3>4. Busy(ref)'
      BY <1>1, <1>3, <3>2, <3>3 DEF Busy, Idle, Carrying
    <3>5. Lifecycle(ref)'
      BY <1>1, <1>3, <2>1, <3>3 DEF Exchange, Lifecycle, Idle, Carrying, Ended, Disconnecting
    <3> QED  BY <3>4, <3>5 DEF Exchange
  <2>2. CASE ref \notin alive
    BY <1>1, <1>2, <1>3, <2>2, Between DEF Send, Untouched, ExchangeInv
  <2> QED  BY <2>1, <2>2
<1> QED  BY <1>1, <1>2, <1>4, <1>5 DEF ExchangeInv, HasStream

(* What is taken from the channel was all there was.                       *)
LEMMA ExchangeTake ==
  ASSUME TypeInv, ExchangeInv, RecvError \/ RecvFiles \/ \E n \in Symbol : RecvList(n)
  PROVE  ExchangeInv'
<1>1. /\ pc = "recv" /\ pc' \notin {"send", "recv"} /\ ~panicked
      /\ buffer[ref] # <<>> /\ TakeItem
      /\ UNCHANGED <<alive, requests, responses, recv, held, sealed>>
  BY DEF RecvError, RecvFiles, RecvList, Fail, Goto, streams
<1>2. PICK k \in Stream : k = ref
  BY <1>1 DEF ExchangeInv, HasStream
<1>3. buffer'[k] = Tail(buffer[k]) /\ \A j \in Stream : j # k => buffer'[j] = buffer[j]
  BY <1>1, <1>2 DEF TakeItem, TypeInv, TypeOK
<1>4. ASSUME NEW j \in Stream, j # k
      PROVE  Exchange(j)'
  <2>1. Untouched(j) /\ Idle(j) /\ Exchange(j)
    BY <1>1, <1>2, <1>3, <1>4 DEF Untouched, ExchangeInv, Exchange, Busy
  <2> QED  BY <2>1 DEF Untouched, Exchange, Lifecycle, Idle, Carrying
<1>5. Exchange(k)'
  <2>1. Exchange(k)
    BY DEF ExchangeInv
  <2>2. PICK it \in Item :
          buffer[k] = <<it>> /\ requests[k] = <<>> /\ responses[k] = <<>> /\ ~Carrying(k)
    BY <1>1, <1>2, <2>1 DEF Exchange, Idle, Busy, TypeInv, TypeOK
  <2>3. buffer'[k] = <<>>
    BY <1>3, <2>2
  <2>4. Idle(k)'
    BY <1>1, <2>2, <2>3 DEF Idle, Carrying
  <2>5. Lifecycle(k)'
    BY <1>1, <2>1, <2>2, <2>3, <2>4 DEF Exchange, Lifecycle
  <2> QED  BY <2>4, <2>5 DEF Exchange
<1> QED  BY <1>1, <1>4, <1>5 DEF ExchangeInv, HasStream

(* A closed and drained channel: the receiver has ended, and with it the   *)
(* exchange.                                                               *)
LEMMA ExchangeClosed ==
  ASSUME TypeInv, ExchangeInv, RecvClosed
  PROVE  ExchangeInv'
<1>1. /\ pc = "recv" /\ pc' \notin {"send", "recv"} /\ ~panicked
      /\ buffer[ref] = <<>> /\ sealed[ref]
      /\ UNCHANGED <<streams, receivers>>
  BY DEF RecvClosed, Fail, Goto
<1>2. ASSUME NEW j \in Stream
      PROVE  Exchange(j)'
  <2>1. Exchange(j) /\ Untouched(j)
    BY <1>1, AllUntouched DEF ExchangeInv
  <2>2. Idle(j)
    BY <1>1, <2>1 DEF Exchange, Lifecycle, Idle, Busy, Carrying, Ended
  <2> QED  BY <2>1, <2>2 DEF Untouched, Exchange, Lifecycle, Idle, Carrying
<1> QED  BY <1>1, <1>2 DEF ExchangeInv, HasStream

LEMMA ExchangeWatcher ==
  ASSUME TypeInv, ExchangeInv, WatcherStep
  PROVE  ExchangeInv'
<1>1. ASSUME CheckV1 \/ CheckV1Alpha \/ ReturnStream \/ OpenFails \/ SetV1 \/ SetDisconnected
             \/ SetV1Alpha \/ SendFails \/ MakeCache \/ WriteCache \/ NextSymbol
             \/ EvalDisconnected \/ NoticeDisconnect \/ TimerFires
      PROVE  ExchangeInv'
  <2>1. pc # "recv" /\ UNCHANGED <<streams, receivers>>
    BY <1>1 DEF CheckV1, CheckV1Alpha, ReturnStream, Return, OpenFails, SetV1, SetDisconnected,
                SetV1Alpha, SendFails, MakeCache, WriteCache, NextSymbol,
                EvalDisconnected, NoticeDisconnect, TimerFires, Fail, Goto
  <2>2. \A j \in Stream : Exchange(j)'
    BY <2>1, AllUntouched, Between DEF ExchangeInv
  <2>3. HasStream'
    BY <1>1 DEF CheckV1, CheckV1Alpha, ReturnStream, Return, OpenFails, SetV1, SetDisconnected,
                SetV1Alpha, SendFails, MakeCache, WriteCache, NextSymbol,
                EvalDisconnected, NoticeDisconnect, TimerFires, Fail, Goto, HasStream,
                TypeInv, TypeOK
  <2> QED  BY <2>2, <2>3 DEF ExchangeInv
<1> QED
  BY <1>1, ExchangeOpen, ExchangeSend, ExchangeTake, ExchangeClosed DEF WatcherStep

(* The response, or the error behind the last one, is in the hands of the  *)
(* receiver.                                                               *)
LEMMA ExchangeReceive ==
  ASSUME TypeInv, ExchangeInv, NEW k \in Stream, Receive(k)
  PROVE  ExchangeInv'
<1>1. /\ recv[k] = "recv" /\ recv' = [recv EXCEPT ![k] = "put"]
      /\ UNCHANGED <<pc, ref, sym, panicked, alive, requests, buffer, sealed>>
  BY DEF Receive, Step, watcher
<1>2. recv'[k] = "put" /\ \A j \in Stream : j # k => recv'[j] = recv[j]
  BY <1>1 DEF TypeInv, TypeOK
<1>3. \A j \in Stream : j # k => held'[j] = held[j] /\ responses'[j] = responses[j]
  BY DEF Receive, TypeInv, TypeOK
<1>4. ASSUME NEW j \in Stream, j # k
      PROVE  Exchange(j)'
  BY <1>1, <1>2, <1>3, <1>4, Elsewhere DEF Untouched, ExchangeInv
<1>5. Exchange(k)
  BY DEF ExchangeInv
<1>6. CASE responses[k] # <<>>
  <2>1. /\ Busy(k) /\ pc = "recv" /\ ref = k /\ requests[k] = <<>> /\ buffer[k] = <<>>
        /\ \E ok \in BOOLEAN : responses[k] = <<Reply(ok)>>
    BY <1>5, <1>6 DEF Exchange, Idle, Busy
  <2>2. PICK ok \in BOOLEAN : responses[k] = <<Reply(ok)>>
    BY <2>1
  <2>3. held'[k] = Head(responses[k]) /\ responses'[k] = Tail(responses[k])
    BY <1>6 DEF Receive, TypeInv, TypeOK
  <2>4. Reply(ok) \in Item /\ Reply(ok).of = sym /\ sym # None
    BY ClientAssumption DEF Reply, Item, Symbol, TypeInv, TypeOK
  <2>5. held'[k] = Reply(ok) /\ responses'[k] = <<>>
    BY <2>2, <2>3, <2>4
  <2>6. held'[k].of = sym /\ held'[k] # Broken
    BY <2>4, <2>5 DEF Broken
  <2>7. Busy(k)'
    BY <1>1, <1>2, <2>1, <2>5, <2>6 DEF Busy, Carrying
  <2>8. Lifecycle(k)'
    BY <1>1, <1>2, <1>5, <2>1, <2>5, <2>6 DEF Exchange, Lifecycle, Ended, Disconnecting
  <2>9. Exchange(k)'
    BY <2>7, <2>8 DEF Exchange
  <2> QED  BY <1>1, <1>4, <2>9 DEF ExchangeInv, HasStream
<1>7. CASE responses[k] = <<>>
  <2>1. k \notin alive /\ held'[k] = Broken /\ responses'[k] = <<>>
    BY <1>7 DEF Receive, TypeInv, TypeOK
  <2>2. Idle(k)' \/ Busy(k)'
    BY <1>1, <1>2, <1>5, <2>1, <1>7 DEF Exchange, Idle, Busy, Carrying, Reply
  <2>3. Lifecycle(k)'
    BY <1>1, <1>2, <1>5, <2>1 DEF Exchange, Lifecycle, Ended, Disconnecting
  <2>4. Exchange(k)'
    BY <2>2, <2>3 DEF Exchange
  <2> QED  BY <1>1, <1>4, <2>4 DEF ExchangeInv, HasStream
<1> QED  BY <1>6, <1>7

(* The response is handed over, or the error is.                           *)
LEMMA ExchangePut ==
  ASSUME TypeInv, ExchangeInv, NEW k \in Stream, Put(k)
  PROVE  ExchangeInv'
<1>1. /\ recv[k] = "put"
      /\ UNCHANGED <<pc, ref, sym, panicked, alive, requests, responses, held, sealed>>
  BY DEF Put, Step, watcher, streams
<1>2. \A j \in Stream : j # k => recv'[j] = recv[j] /\ buffer'[j] = buffer[j]
  BY DEF Put, Step, TypeInv, TypeOK
<1>3. ASSUME NEW j \in Stream, j # k
      PROVE  Exchange(j)'
  BY <1>1, <1>2, <1>3, Elsewhere DEF Untouched, ExchangeInv
<1>4. Exchange(k)
  BY DEF ExchangeInv
<1>5. Exchange(k)'
  <2>1. CASE held[k] = Broken
    <3>1. recv'[k] = "check" /\ buffer'[k] = IF buffer[k] = <<>> THEN <<Broken>> ELSE buffer[k]
      BY <2>1 DEF Put, Step, TypeInv, TypeOK
    <3>2. k \notin alive /\ responses[k] = <<>> /\ requests[k] = <<>>
      BY <1>1, <1>4, <2>1 DEF Exchange, Lifecycle
    <3>3. Idle(k)' \/ Busy(k)'
      BY <1>1, <1>4, <2>1, <3>1, <3>2 DEF Exchange, Idle, Busy, Carrying, Reply
    <3>4. Lifecycle(k)'
      BY <1>1, <1>4, <3>1, <3>2 DEF Exchange, Lifecycle, Ended, Disconnecting
    <3> QED  BY <3>3, <3>4 DEF Exchange
  <2>2. CASE held[k] # Broken
    <3>1. /\ pc = "recv" /\ ref = k /\ requests[k] = <<>> /\ responses[k] = <<>>
          /\ held[k].of = sym /\ buffer[k] = <<>>
      BY <1>1, <1>4, <2>2 DEF Exchange, Idle, Busy, Carrying
    <3>2. recv'[k] = "recv" /\ buffer'[k] = <<held[k]>>
      BY <2>2, <3>1 DEF Put, Step, TypeInv, TypeOK
    <3>3. PICK ok \in BOOLEAN : held[k] = Reply(ok)
      BY <2>2, <3>1 DEF Reply, Item, Broken, TypeInv, TypeOK
    <3>4. Busy(k)'
      BY <1>1, <3>1, <3>2, <3>3 DEF Busy, Carrying, Reply
    <3>5. <<held[k]>> # <<Broken>>
      BY <2>2
    <3>6. Lifecycle(k)'
      BY <1>1, <1>4, <3>1, <3>2, <3>5 DEF Exchange, Lifecycle, Ended, Disconnecting
    <3> QED  BY <3>4, <3>6 DEF Exchange
  <2> QED  BY <2>1, <2>2
<1> QED  BY <1>1, <1>3, <1>5 DEF ExchangeInv, HasStream

(* streamDisconnected: the stream has ended, and nothing is under way.     *)
LEMMA ExchangeDisconnect ==
  ASSUME TypeInv, ExchangeInv, NEW k \in Stream,
         CheckChannel(k) \/ CloseChannel(k) \/ ForgetV1(k) \/ ForgetV1Alpha(k) \/ ForgetCache(k)
  PROVE  ExchangeInv'
<1>1. /\ recv[k] \in Disconnecting
      /\ UNCHANGED <<pc, ref, sym, alive, requests, responses, held, buffer>>
      /\ ~panicked
  BY DEF CheckChannel, CloseChannel, ForgetV1, ForgetV1Alpha, ForgetCache, Step, Disconnecting,
         watcher, streams
<1>2. recv'[k] \in Ended /\ \A j \in Stream : j # k => recv'[j] = recv[j] /\ sealed'[j] = sealed[j]
  BY DEF CheckChannel, CloseChannel, ForgetV1, ForgetV1Alpha, ForgetCache, Step, Disconnecting,
         Ended, TypeInv, TypeOK
<1>3. sealed'[k] => sealed[k] \/ recv'[k] = "done"
  BY DEF CheckChannel, CloseChannel, ForgetV1, ForgetV1Alpha, ForgetCache, Step, TypeInv, TypeOK
<1>4. ASSUME NEW j \in Stream, j # k
      PROVE  Exchange(j)'
  BY <1>1, <1>2, <1>4, Elsewhere DEF Untouched, ExchangeInv
<1>5. Exchange(k)
  BY DEF ExchangeInv
<1>6. Idle(k)' \/ Busy(k)'
  BY <1>1, <1>2, <1>5 DEF Exchange, Idle, Busy, Carrying, Reply, Ended, Disconnecting
<1>7. ~sealed[k]
  BY <1>1, <1>5 DEF Exchange, Lifecycle, Disconnecting
<1>8. Lifecycle(k)'
  BY <1>1, <1>2, <1>3, <1>5, <1>7 DEF Exchange, Lifecycle, Ended, Disconnecting
<1>9. Exchange(k)'
  BY <1>6, <1>8 DEF Exchange
<1> QED  BY <1>1, <1>4, <1>9 DEF ExchangeInv, HasStream

LEMMA ExchangeAnswer ==
  ASSUME TypeInv, ExchangeInv, NEW k \in Stream, Answer(k)
  PROVE  ExchangeInv'
<1>1. /\ k \in alive /\ requests[k] # <<>>
      /\ UNCHANGED <<pc, ref, sym, panicked, alive, recv, held, buffer, sealed>>
  BY DEF Answer, watcher, receivers
<1>2. Exchange(k)
  BY DEF ExchangeInv
<1>3. /\ pc = "recv" /\ ref = k /\ requests[k] = <<sym>> /\ responses[k] = <<>>
      /\ ~Carrying(k) /\ buffer[k] = <<>>
  BY <1>1, <1>2 DEF Exchange, Idle, Busy
<1>4. PICK ok \in BOOLEAN :
        responses' = [responses EXCEPT ![k] = Append(@, [of |-> Head(requests[k]), ok |-> ok])]
  BY DEF Answer
<1>5. sym \in Symbol /\ Head(requests[k]) = sym /\ Tail(requests[k]) = <<>>
  BY <1>3 DEF TypeInv, TypeOK
<1>6. responses'[k] = Append(responses[k], [of |-> Head(requests[k]), ok |-> ok])
  BY <1>4 DEF TypeInv, TypeOK
<1>7. responses'[k] = <<Reply(ok)>>
  BY <1>3, <1>5, <1>6 DEF Reply
<1>8. requests'[k] = <<>>
  BY <1>5 DEF Answer, TypeInv, TypeOK
<1>9. Busy(k)'
  BY <1>1, <1>3, <1>7, <1>8 DEF Busy, Carrying, Reply
<1>10. Lifecycle(k)'
  BY <1>1, <1>2, <1>3 DEF Exchange, Lifecycle, Ended, Disconnecting
<1>11. ASSUME NEW j \in Stream, j # k
       PROVE  Exchange(j)'
  <2>1. requests'[j] = requests[j] /\ responses'[j] = responses[j]
    BY <1>4, <1>11 DEF Answer, TypeInv, TypeOK
  <2> QED  BY <1>1, <2>1, Elsewhere DEF Untouched, ExchangeInv
<1>12. Exchange(k)'
  BY <1>9, <1>10 DEF Exchange
<1> QED  BY <1>1, <1>11, <1>12 DEF ExchangeInv, HasStream

LEMMA ExchangeBreak ==
  ASSUME TypeInv, ExchangeInv, NEW k \in Stream, Break(k)
  PROVE  ExchangeInv'
<1>1. /\ k \in alive /\ alive' = alive \ {k}
      /\ UNCHANGED <<pc, ref, sym, panicked, responses, recv, held, buffer, sealed>>
  BY DEF Break, watcher, receivers
<1>2. requests'[k] = <<>> /\ \A j \in Stream : j # k => requests'[j] = requests[j]
  BY DEF Break, TypeInv, TypeOK
<1>3. ASSUME NEW j \in Stream, j # k
      PROVE  Exchange(j)'
  BY <1>1, <1>2, <1>3, Elsewhere DEF Untouched, ExchangeInv
<1>4. Exchange(k)
  BY DEF ExchangeInv
<1>5. Idle(k)' \/ Busy(k)'
  BY <1>1, <1>2, <1>4 DEF Exchange, Idle, Busy, Carrying, Reply
<1>6. Lifecycle(k)'
  BY <1>1, <1>2, <1>4 DEF Exchange, Lifecycle, Ended, Disconnecting
<1>7. Exchange(k)'
  BY <1>5, <1>6 DEF Exchange
<1> QED  BY <1>1, <1>3, <1>7 DEF ExchangeInv, HasStream

LEMMA ExchangeStep == TypeInv /\ ExchangeInv /\ [Next]_vars => ExchangeInv'
<1> SUFFICES ASSUME TypeInv, ExchangeInv, [Next]_vars
             PROVE  ExchangeInv'
  OBVIOUS
<1>1. CASE UNCHANGED vars
  <2>1. UNCHANGED <<pc, ref, sym, panicked, streams, receivers>>
    BY <1>1 DEF vars, watcher
  <2>2. \A j \in Stream : Exchange(j)'
    BY <2>1, AllUntouched, Elsewhere DEF ExchangeInv
  <2> QED  BY <2>1, <2>2 DEF ExchangeInv, HasStream
<1>2. ASSUME NEW k \in Stream, ReceiverStep(k) \/ UpstreamStep(k)
      PROVE  ExchangeInv'
  BY <1>2, ExchangeReceive, ExchangePut, ExchangeDisconnect, ExchangeAnswer, ExchangeBreak
     DEF ReceiverStep, UpstreamStep
<1> QED  BY <1>1, <1>2, ExchangeWatcher DEF Next

(* A response that the watcher takes answers the request it has just sent  *)
(* (listServices, fileContainingSymbol), although an exchange can fail on  *)
(* a stream that is used again.                                            *)
THEOREM ClientResponsesMatch == Spec => []ResponsesMatchRequests
<1>1. TypeInv /\ ExchangeInv => ResponsesMatchRequests
  <2> SUFFICES ASSUME TypeInv, ExchangeInv, NEW k \in Stream
               PROVE  /\ Len(requests[k]) + Len(responses[k]) <= 1
                      /\ pc = "recv" /\ ref = k /\ buffer[k] # <<>> => Taken.of \in {sym, None}
    BY DEF ResponsesMatchRequests
  <2>1. Exchange(k)
    BY DEF ExchangeInv
  <2>2. Len(requests[k]) + Len(responses[k]) <= 1
    <3>1. CASE requests[k] = <<>> /\ responses[k] = <<>>
      BY <3>1
    <3>2. CASE requests[k] = <<sym>> /\ responses[k] = <<>>
      BY <3>2
    <3>3. ASSUME NEW ok \in BOOLEAN, requests[k] = <<>>, responses[k] = <<Reply(ok)>>
          PROVE  Len(requests[k]) + Len(responses[k]) <= 1
      BY <3>3
    <3> QED  BY <2>1, <3>1, <3>2, <3>3 DEF Exchange, Idle, Busy
  <2>3. ASSUME ref = k, buffer[k] # <<>>
        PROVE  Taken.of \in {sym, None}
    <3>1. buffer[k] = <<Broken>> \/ \E ok \in BOOLEAN : buffer[k] = <<Reply(ok)>>
      BY <2>1, <2>3 DEF Exchange, Idle, Busy
    <3>2. CASE buffer[k] = <<Broken>>
      <4>1. Taken = Broken
        BY <2>3, <3>2 DEF Taken
      <4> QED  BY <4>1 DEF Broken
    <3>3. CASE \E ok \in BOOLEAN : buffer[k] = <<Reply(ok)>>
      <4>1. PICK ok \in BOOLEAN : Taken = Reply(ok)
        BY <2>3, <3>3 DEF Taken
      <4> QED  BY <4>1 DEF Reply
    <3> QED  BY <3>1, <3>2, <3>3
  <2> QED  BY <2>2, <2>3
<1> QED  BY <1>1, TypeInit, TypeStep, ExchangeInit, ExchangeStep, PTL DEF Spec

(* The default branch of the receiver's select drops no response: when the *)
(* channel is full, what it has in its hands is the error of the stream.   *)
THEOREM ClientDropsOnlyErrors == Spec => []OnlyErrorsAreDropped
<1>1. TypeInv /\ ExchangeInv => OnlyErrorsAreDropped
  BY DEF ExchangeInv, Exchange, Idle, Busy, Lifecycle, Carrying, Ended, Disconnecting,
         OnlyErrorsAreDropped
<1> QED  BY <1>1, TypeInit, TypeStep, ExchangeInit, ExchangeStep, PTL DEF Spec

-----------------------------------------------------------------------------
(* Quiet disconnects.                                                      *)

LEMMA QuietInit == Init => QuietInv
  BY ClientAssumption DEF Init, QuietInv, Quiet, Calling, Receiving, OneRunning, Running,
                          Disconnecting

Setting == {"set_v1", "set_disc", "set_alpha"}

(* A step of the watcher in a call that has not overlapped a disconnect.   *)
LEMMA QuietGoto ==
  ASSUME QuietInv, NEW from, NEW to, Goto(from, to), ~overlapped'
  PROVE  /\ Quiet /\ pc = from /\ pc' = to
         /\ to \in CallStates => \A k \in Stream : recv[k] \notin Disconnecting
  BY DEF Goto, QuietInv

(* A step of the watcher that leaves the streams of the client alone.      *)
LEMMA QuietAside ==
  ASSUME Quiet, pc \notin Setting, pc' \notin Setting, Calling', ~panicked',
         UNCHANGED <<v1, v1alpha, disconnected, closed, recv, target>>,
         pc' \in CallStates => \A k \in Stream : recv[k] \notin Disconnecting
  PROVE  Quiet'
<1>1. ASSUME NEW k \in Stream
      PROVE  Receiving(k)'
  <2>1. Receiving(k)
    BY DEF Quiet
  <2>2. recv[k] \in {"recv", "put"} => Fields(k)'
    BY <2>1 DEF Receiving, Fields, Open, NoStream, Setting
  <2> QED  BY <2>1, <2>2 DEF Receiving, Open, NoStream
<1> QED  BY <1>1 DEF Quiet, OneRunning, Running

LEMMA QuietCall ==
  ASSUME TypeInv, QuietInv, ~overlapped',
         \/ CheckV1 \/ CheckV1Alpha \/ ReturnStream \/ OpenFails
         \/ Send \/ SendFails \/ RecvClosed \/ RecvError \/ RecvFiles
         \/ \E n \in Symbol : RecvList(n)
         \/ MakeCache \/ WriteCache \/ NextSymbol
         \/ EvalDisconnected \/ NoticeDisconnect \/ TimerFires
  PROVE  Quiet'
<1>1. UNCHANGED <<v1, v1alpha, disconnected, closed, recv, target>>
  BY DEF CheckV1, CheckV1Alpha, ReturnStream, Return, OpenFails, Send, SendFails,
         RecvClosed, RecvError, RecvFiles, RecvList, MakeCache, WriteCache, NextSymbol,
         EvalDisconnected, NoticeDisconnect, TimerFires, fields, streams, receivers
<1>2. /\ Quiet /\ pc \notin Setting /\ pc' \notin Setting
      /\ pc' \in CallStates => \A k \in Stream : recv[k] \notin Disconnecting
  BY DEF CheckV1, CheckV1Alpha, ReturnStream, Return, OpenFails, Send, SendFails,
         RecvClosed, RecvError, RecvFiles, RecvList, MakeCache, WriteCache, NextSymbol,
         EvalDisconnected, NoticeDisconnect, TimerFires, Fail, Goto, QuietInv, Setting
<1>3. Calling
  BY <1>2 DEF Quiet
<1>4. Calling'
  BY <1>1, <1>3 DEF CheckV1, CheckV1Alpha, ReturnStream, Return, OpenFails, Send, SendFails,
         RecvClosed, RecvError, RecvFiles, RecvList, MakeCache, WriteCache, NextSymbol,
         EvalDisconnected, NoticeDisconnect, TimerFires, Fail, Goto, Calling, NoStream, fields
<1>5. ~panicked'
  BY <1>2, <1>3 DEF CheckV1, CheckV1Alpha, ReturnStream, Return, OpenFails, Send, SendFails,
         RecvClosed, RecvError, RecvFiles, RecvList, MakeCache, WriteCache, NextSymbol,
         EvalDisconnected, NoticeDisconnect, TimerFires, Fail, Goto, Calling, Quiet,
         TypeInv, TypeOK
<1> QED  BY <1>1, <1>2, <1>4, <1>5, QuietAside

(* A stream is opened when none runs.                                      *)
LEMMA QuietOpen ==
  ASSUME TypeInv, QuietInv, ~overlapped', NEW k \in Stream, OpenV1(k) \/ OpenV1Alpha(k)
  PROVE  Quiet'
<1>1. /\ Quiet /\ pc = "open" /\ pc' \in {"set_v1", "set_alpha"}
      /\ \A j \in Stream : recv[j] \notin Disconnecting
      /\ recv[k] = "none" /\ ref' = k
      /\ recv' = [recv EXCEPT ![k] = "recv"]
      /\ UNCHANGED <<v1, v1alpha, closed, target, panicked>>
  BY DEF OpenV1, OpenV1Alpha, Start, Goto, QuietInv, CallStates, fields
<1>2. recv'[k] = "recv" /\ \A j \in Stream : j # k => recv'[j] = recv[j]
  BY <1>1 DEF TypeInv, TypeOK
<1>3. NoStream
  BY <1>1 DEF Quiet, Calling
<1>4. \A j \in Stream : recv[j] \in {"none", "done"}
  <2> SUFFICES ASSUME NEW j \in Stream, recv[j] \notin {"none", "done"}
               PROVE  FALSE
    OBVIOUS
  <2>1. recv[j] \in {"recv", "put"}
    BY <1>1 DEF TypeInv, TypeOK
  <2>2. Open(j)
    BY <1>1, <2>1 DEF Quiet, Receiving, Fields
  <2> QED  BY <1>3, <2>2, ClientAssumption DEF Open, NoStream
<1>5. OneRunning'
  BY <1>2, <1>4 DEF OneRunning, Running
<1>6. Calling'
  BY <1>1, <1>2 DEF Calling
<1>7. ASSUME NEW j \in Stream
      PROVE  Receiving(j)'
  <2>1. Receiving(j)
    BY <1>1 DEF Quiet
  <2>2. CASE j = k
    <3>1. Fields(k)'
      BY <1>1, <1>3 DEF Fields, NoStream, OpenV1, OpenV1Alpha, Goto
    <3> QED  BY <1>1, <1>2, <2>1, <2>2, <3>1 DEF Receiving, Disconnecting
  <2>3. CASE j # k
    BY <1>1, <1>2, <1>4, <2>1, <2>3 DEF Receiving, Disconnecting
  <2> QED  BY <2>2, <2>3
<1> QED  BY <1>1, <1>5, <1>6, <1>7 DEF Quiet

(* The fields are set while the stream is open.                            *)
LEMMA QuietSet ==
  ASSUME TypeInv, QuietInv, ~overlapped', SetV1 \/ SetDisconnected \/ SetV1Alpha
  PROVE  Quiet'
<1>1. /\ Quiet /\ pc \in Setting
      /\ \A j \in Stream : recv[j] \notin Disconnecting
      /\ UNCHANGED <<ref, cache, closed, recv, target, panicked>>
  BY DEF SetV1, SetDisconnected, SetV1Alpha, Goto, QuietInv, CallStates, Setting, streams, receivers
<1>2. PICK k \in Stream : k = ref /\ recv[k] \in {"recv", "put"}
  BY <1>1 DEF Quiet, Calling, Setting
<1>3. Fields(k) /\ Receiving(k) /\ Running(k)
  BY <1>1, <1>2 DEF Quiet, Receiving, Running
<1>4. Fields(k)'
  BY <1>1, <1>2, <1>3 DEF Fields, SetV1, SetDisconnected, SetV1Alpha, Goto, NoStream, Open
<1>5. Calling'
  BY <1>1, <1>2, <1>3, <1>4, ClientAssumption
     DEF Calling, Fields, SetV1, SetDisconnected, SetV1Alpha, Goto, NoStream, Open
<1>6. ASSUME NEW j \in Stream
      PROVE  Receiving(j)'
  <2>1. CASE j = k
    BY <1>1, <1>2, <1>3, <1>4, <2>1 DEF Receiving
  <2>2. CASE j # k
    <3>1. recv[j] \in {"none", "done"}
      BY <1>1, <1>3, <2>2 DEF Quiet, OneRunning, Running
    <3>2. v1' \in {v1, k} /\ v1alpha' \in {v1alpha, k}
      BY <1>2 DEF SetV1, SetDisconnected, SetV1Alpha
    <3> QED  BY <1>1, <2>2, <3>1, <3>2 DEF Receiving, Quiet, Disconnecting
  <2> QED  BY <2>1, <2>2
<1> QED  BY <1>1, <1>5, <1>6 DEF Quiet, OneRunning, Running

(* A step of the one receiver that runs: the other streams are not named   *)
(* by the fields before it, nor after it.                                  *)
LEMMA QuietStep ==
  ASSUME TypeInv, Quiet, NEW k \in Stream, Running(k),
         NEW to, recv' = [recv EXCEPT ![k] = to],
         v1' \in {v1, None}, v1alpha' \in {v1alpha, None}, closed' \in {closed, closed \cup {k}},
         UNCHANGED <<pc, ref>>, ~panicked', Calling', Receiving(k)'
  PROVE  Quiet'
<1>1. recv'[k] = to /\ \A j \in Stream : j # k => recv'[j] = recv[j]
  BY DEF TypeInv, TypeOK
<1>2. \A j \in Stream : j # k => recv[j] \in {"none", "done"}
  BY DEF Quiet, OneRunning, Running
<1>3. ASSUME NEW j \in Stream, j # k
      PROVE  Receiving(j)'
  BY <1>1, <1>2, <1>3, ClientAssumption DEF Quiet, Receiving, Disconnecting
<1>4. OneRunning'
  BY <1>1, <1>2 DEF OneRunning, Running
<1> QED  BY <1>3, <1>4 DEF Quiet

LEMMA QuietReceiver ==
  ASSUME TypeInv, QuietInv, ~overlapped', NEW k \in Stream, ReceiverStep(k)
  PROVE  Quiet'
<1>1. /\ Quiet /\ Running(k) /\ Receiving(k) /\ Calling
      /\ UNCHANGED <<pc, ref, waitOn>>
      /\ recv[k] \in Disconnecting => pc \notin CallStates
  <2>1. ~overlapped /\ Running(k) /\ UNCHANGED <<pc, ref, waitOn>>
    BY DEF ReceiverStep, Receive, Put, CheckChannel, CloseChannel, ForgetV1, ForgetV1Alpha,
           ForgetCache, Step, Running, watcher
  <2> QED  BY <2>1 DEF QuietInv, Quiet, Receiving
<1>2. CASE Receive(k) \/ (Put(k) /\ recv' = [recv EXCEPT ![k] = "recv"])
  <2>1. PICK to \in {"recv", "put"} : recv' = [recv EXCEPT ![k] = to]
    BY <1>2 DEF Receive, Step
  <2>2. recv'[k] = to
    BY <2>1 DEF TypeInv, TypeOK
  <2>3. recv[k] \in {"recv", "put"} /\ UNCHANGED <<fields, target, panicked>>
    BY <1>2 DEF Receive, Put, Step, streams
  <2>4. Receiving(k)'
    BY <1>1, <2>2, <2>3 DEF Receiving, Fields, Open, NoStream, Disconnecting, fields
  <2>5. \A j \in Stream : recv[j] \in {"recv", "put"} => recv'[j] \in {"recv", "put"}
    BY <2>1 DEF TypeInv, TypeOK
  <2>6. Calling'
    BY <1>1, <2>3, <2>5 DEF Calling, NoStream, fields
  <2> QED  BY <1>1, <2>1, <2>3, <2>4, <2>6, QuietStep DEF Quiet, fields
<1>3. CASE Put(k) /\ recv' = [recv EXCEPT ![k] = "check"]
  <2>1. recv'[k] = "check"
    BY <1>3 DEF TypeInv, TypeOK
  <2>2. recv[k] = "put" /\ UNCHANGED <<fields, target, panicked>> /\ pc \notin CallStates
    <3>1. \/ Step(k, "put", "check")
          \/ Step(k, "put", "recv")
      BY <1>3 DEF Put
    <3>2. Step(k, "put", "check")
      BY <1>3, <2>1, <3>1 DEF Step, TypeInv, TypeOK
    <3> QED  BY <1>3, <3>2 DEF Put, Step, streams, Disconnecting
  <2>3. Open(k)
    BY <1>1, <2>2 DEF Receiving, Fields, CallStates
  <2>4. Receiving(k)'
    BY <1>1, <2>1, <2>2, <2>3 DEF Receiving, Open, fields
  <2>5. Calling'
    BY <1>1, <2>2 DEF Calling, CallStates
  <2> QED  BY <1>1, <1>3, <2>2, <2>4, <2>5, QuietStep DEF Quiet, fields
<1>4. CASE CheckChannel(k)
  <2>1. recv[k] = "check" /\ Open(k) /\ disconnected = k
    BY <1>1, <1>4 DEF CheckChannel, Step, Receiving, Open
  <2>2. recv' = [recv EXCEPT ![k] = "close"]
    BY <1>4, <2>1, ClientAssumption DEF CheckChannel, Step
  <2>3. recv'[k] = "close" /\ target'[k] = k
    BY <1>4, <2>1, <2>2 DEF CheckChannel, TypeInv, TypeOK
  <2>4. UNCHANGED <<fields, panicked>> /\ pc \notin CallStates
    BY <1>1, <1>4, <2>1 DEF CheckChannel, Disconnecting
  <2>5. Receiving(k)'
    BY <1>1, <2>1, <2>3, <2>4 DEF Receiving, Open, fields
  <2>6. Calling'
    BY <1>1, <2>4 DEF Calling, CallStates
  <2> QED  BY <1>1, <2>2, <2>4, <2>5, <2>6, QuietStep DEF Quiet, fields
<1>5. CASE CloseChannel(k)
  <2>1. recv[k] = "close" /\ target[k] = k /\ k \notin closed /\ Open(k)
    BY <1>1, <1>5 DEF CloseChannel, Step, Receiving
  <2>2. /\ recv' = [recv EXCEPT ![k] = "nil_v1"] /\ closed' = closed \cup {k} /\ ~panicked'
        /\ UNCHANGED <<v1, v1alpha, disconnected, cache>> /\ pc \notin CallStates
    BY <1>1, <1>5, <2>1 DEF CloseChannel, Step, Disconnecting
  <2>3. recv'[k] = "nil_v1"
    BY <2>2 DEF TypeInv, TypeOK
  <2>4. Receiving(k)'
    BY <1>1, <2>1, <2>2, <2>3 DEF Receiving, Open
  <2>5. Calling'
    BY <1>1, <2>2 DEF Calling, CallStates
  <2> QED  BY <1>1, <2>2, <2>4, <2>5, QuietStep
<1>6. CASE ForgetV1(k)
  <2>1. recv[k] = "nil_v1" /\ k \in closed /\ Open(k)
    BY <1>1, <1>6 DEF ForgetV1, Step, Receiving
  <2>2. /\ recv' = [recv EXCEPT ![k] = "nil_alpha"] /\ v1' = None
        /\ UNCHANGED <<v1alpha, disconnected, cache, closed, panicked>> /\ pc \notin CallStates
    BY <1>1, <1>6, <2>1 DEF ForgetV1, Step, Disconnecting
  <2>3. recv'[k] = "nil_alpha"
    BY <2>2 DEF TypeInv, TypeOK
  <2>4. Receiving(k)'
    BY <1>1, <2>1, <2>2, <2>3 DEF Receiving, Open
  <2>5. Calling'
    BY <1>1, <2>2 DEF Calling, CallStates
  <2> QED  BY <1>1, <2>2, <2>4, <2>5, QuietStep DEF Quiet
<1>7. CASE ForgetV1Alpha(k)
  <2>1. recv[k] = "nil_alpha" /\ k \in closed /\ v1 = None
    BY <1>1, <1>7 DEF ForgetV1Alpha, Step, Receiving
  <2>2. /\ recv' = [recv EXCEPT ![k] = "nil_cache"] /\ v1alpha' = None
        /\ UNCHANGED <<v1, disconnected, cache, closed, panicked>> /\ pc \notin CallStates
    BY <1>1, <1>7, <2>1 DEF ForgetV1Alpha, Step, Disconnecting
  <2>3. recv'[k] = "nil_cache"
    BY <2>2 DEF TypeInv, TypeOK
  <2>4. Receiving(k)'
    BY <1>1, <2>1, <2>2, <2>3 DEF Receiving, NoStream
  <2>5. Calling'
    BY <1>1, <2>2 DEF Calling, CallStates
  <2> QED  BY <1>1, <2>2, <2>4, <2>5, QuietStep DEF Quiet
<1>8. CASE ForgetCache(k)
  <2>1. recv[k] = "nil_cache" /\ k \in closed /\ NoStream
    BY <1>1, <1>8 DEF ForgetCache, Step, Receiving
  <2>2. /\ recv' = [recv EXCEPT ![k] = "done"]
        /\ UNCHANGED <<v1, v1alpha, disconnected, closed, panicked>> /\ pc \notin CallStates
    BY <1>1, <1>8, <2>1 DEF ForgetCache, Step, Disconnecting
  <2>3. recv'[k] = "done"
    BY <2>2 DEF TypeInv, TypeOK
  <2>4. Receiving(k)'
    BY <2>1, <2>2, <2>3, ClientAssumption DEF Receiving, NoStream, Disconnecting
  <2>5. Calling'
    BY <1>1, <2>2 DEF Calling, CallStates
  <2> QED  BY <1>1, <2>2, <2>4, <2>5, QuietStep DEF Quiet
<1>9. Put(k) => \/ recv' = [recv EXCEPT ![k] = "recv"]
                \/ recv' = [recv EXCEPT ![k] = "check"]
  BY DEF Put, Step
<1> QED
  BY <1>2, <1>3, <1>4, <1>5, <1>6, <1>7, <1>8, <1>9 DEF ReceiverStep

LEMMA QuietInvStep == TypeInv /\ QuietInv /\ [Next]_vars => QuietInv'
<1> SUFFICES ASSUME TypeInv, QuietInv, [Next]_vars, ~overlapped'
             PROVE  Quiet'
  BY DEF QuietInv
<1>1. ASSUME UNCHANGED <<fields, pc, ref, recv, target, panicked, overlapped>>
      PROVE  Quiet'
  <2>1. Quiet /\ UNCHANGED <<v1, v1alpha, disconnected, cache, closed, pc, ref, recv, target,
                              panicked>>
    BY <1>1 DEF QuietInv, fields
  <2>2. Calling'
    BY <2>1 DEF Quiet, Calling, NoStream
  <2>3. ASSUME NEW k \in Stream
        PROVE  Receiving(k)'
    <3>1. Receiving(k)
      BY <2>1 DEF Quiet
    <3>2. Fields(k)' <=> Fields(k)
      BY <2>1 DEF Fields, Open, NoStream
    <3> QED  BY <2>1, <3>1, <3>2 DEF Receiving, Open, NoStream
  <2> QED  BY <2>1, <2>2, <2>3 DEF Quiet, OneRunning, Running
<1>2. CASE UNCHANGED vars
  BY <1>1, <1>2 DEF vars, watcher, receivers
<1>3. ASSUME NEW k \in Stream, UpstreamStep(k)
      PROVE  Quiet'
  BY <1>1, <1>3 DEF UpstreamStep, Answer, Break, watcher, receivers
<1>4. CASE WatcherStep
  BY <1>4, QuietCall, QuietOpen, QuietSet DEF WatcherStep
<1> QED  BY <1>2, <1>3, <1>4, QuietReceiver DEF Next

(* As long as streamDisconnected has not run in the middle of a call, the  *)
(* fields it clears without client.mu are those of the stream that has     *)
(* ended: nothing panics, its channel is closed and it is forgotten.       *)
THEOREM ClientQuietDisconnects == Spec => []QuietDisconnectsAreSafe
<1>1. QuietInv => QuietDisconnectsAreSafe
  BY DEF QuietInv, Quiet, Receiving, QuietDisconnectsAreSafe
<1> QED  BY <1>1, TypeInit, TypeStep, QuietInit, QuietInvStep, PTL DEF Spec

=============================================================================
