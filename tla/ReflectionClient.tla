-------------------------- MODULE ReflectionClient --------------------------
(***************************************************************************)
(* The reflection client of one upstream (reflection/client.go), driven by *)
(* its service watcher.  The watcher calls ListServices and then           *)
(* AllFilesForSymbol for each name, over one stream that is opened when    *)
(* there is none; each stream has a receiver goroutine, which passes       *)
(* responses on through a channel of capacity one and runs                 *)
(* streamDisconnected when the stream ends.                                *)
(*                                                                         *)
(* The calls hold client.mu; streamDisconnected does not.  So its accesses *)
(* to the fields of the client interleave with those of a call, and both   *)
(* are taken apart here into single reads and writes.  A field that is     *)
(* found nil where the code relies on it, and a channel that is closed     *)
(* twice, panic, which ends the process.                                   *)
(*                                                                         *)
(* A stream and the channel made for it have the same identity.            *)
(***************************************************************************)
EXTENDS Naturals, Sequences

CONSTANTS
  Stream,       \* identities of streams: a bound on NewStream
  MaxSymbols,   \* bound: services an upstream lists
  None          \* nil, and the name of no request

ASSUME ClientAssumption == MaxSymbols \in Nat /\ None \notin Stream /\ None \notin Nat

VARIABLES
  \* fields of ReflectionClient
  v1, v1alpha,  \* the open stream of each protocol version
  disconnected, \* the channel made for the last stream
  cache,        \* descriptorCache is not nil
  closed,       \* channels that have been closed
  \* the watcher goroutine
  pc,           \* its control state
  ref,          \* the stream that getStream returned
  sym,          \* the name being resolved, 0 for ListServices
  todo,         \* the number of names that ListServices returned
  waitOn,       \* the channel of its select, None if it is closed already
  \* streams
  alive,        \* the transport has not seen the stream break
  requests,     \* requests[k]: sent, not answered
  responses,    \* responses[k]: answered, not received
  \* receiver goroutines, and the buffered channel of each
  recv,         \* recv[k]: control state
  held,         \* held[k]: what Recv returned
  buffer,       \* buffer[k]: content of the channel
  sealed,       \* sealed[k]: the channel is closed
  target,       \* target[k]: the channel about to be closed
  \* the process
  panicked,
  \* history variable, read by properties only
  overlapped    \* a streamDisconnected has run while a call held client.mu

fields    == <<v1, v1alpha, disconnected, cache, closed>>
watcher   == <<pc, ref, sym, todo, waitOn>>
streams   == <<alive, requests, responses>>
receivers == <<recv, held, buffer, sealed, target>>
vars == <<fields, watcher, streams, receivers, panicked, overlapped>>

-----------------------------------------------------------------------------

Symbol == 0 .. MaxSymbols

(* What Recv returns: the response to a request, of the type that was      *)
(* asked for or an ErrorResponse; or the error of a broken stream.         *)
Item == [of : Symbol, ok : BOOLEAN] \cup {[of |-> None, ok |-> FALSE]}
Broken == [of |-> None, ok |-> FALSE]

(* Between these states the watcher holds client.mu.                       *)
CallStates == {"get", "get_v1", "get_alpha", "get_v1alpha", "open", "set_v1", "set_disc",
               "ret_v1", "set_alpha", "ret_alpha", "send", "recv", "make", "write"}

PC == CallStates \cup {"next", "fetched", "watch", "retry", "lost"}

(* Inside streamDisconnected.                                              *)
Disconnecting == {"check", "close", "nil_v1", "nil_alpha", "nil_cache"}

TypeOK ==
  /\ v1 \in Stream \cup {None} /\ v1alpha \in Stream \cup {None}
  /\ disconnected \in Stream \cup {None}
  /\ cache \in BOOLEAN
  /\ closed \subseteq Stream
  /\ pc \in PC
  /\ ref \in Stream \cup {None}
  /\ sym \in Symbol /\ todo \in Symbol
  /\ waitOn \in Stream \cup {None}
  /\ alive \subseteq Stream
  /\ requests \in [Stream -> Seq(Symbol)]
  /\ responses \in [Stream -> Seq(Item)]
  /\ recv \in [Stream -> {"none", "recv", "put", "done"} \cup Disconnecting]
  /\ held \in [Stream -> Item]
  /\ buffer \in [Stream -> Seq(Item)]
  /\ sealed \in [Stream -> BOOLEAN]
  /\ target \in [Stream -> Stream \cup {None}]
  /\ panicked \in BOOLEAN
  /\ overlapped \in BOOLEAN

Init ==
  /\ v1 = None /\ v1alpha = None /\ disconnected = None
  /\ cache = FALSE /\ closed = {}
  /\ pc = "get" /\ ref = None /\ sym = 0 /\ todo = 0 /\ waitOn = None
  /\ alive = {}
  /\ requests = [k \in Stream |-> <<>>]
  /\ responses = [k \in Stream |-> <<>>]
  /\ recv = [k \in Stream |-> "none"]
  /\ held = [k \in Stream |-> Broken]
  /\ buffer = [k \in Stream |-> <<>>]
  /\ sealed = [k \in Stream |-> FALSE]
  /\ target = [k \in Stream |-> None]
  /\ panicked = FALSE
  /\ overlapped = FALSE

-----------------------------------------------------------------------------
(* getStream, one access to a field at a time.                             *)

Goto(from, to) ==
  /\ ~panicked
  /\ pc = from
  /\ pc' = to
  /\ overlapped' = (overlapped \/ (to \in CallStates /\ \E k \in Stream : recv[k] \in Disconnecting))

(* A call ends with an error.  For ListServices the watcher logs it and    *)
(* waits ten seconds; for a name it logs it and goes on with the next.     *)
Fail(from) == Goto(from, IF sym = 0 THEN "retry" ELSE "next") /\ ref' = None

(* The checks whether a stream is open, and the second read that returns   *)
(* it.  A nil stream panics in the method call that follows.               *)
CheckV1 ==
  /\ Goto("get", IF v1 = None THEN "get_alpha" ELSE "get_v1")
  /\ UNCHANGED <<fields, ref, sym, todo, waitOn, streams, receivers, panicked>>

CheckV1Alpha ==
  /\ Goto("get_alpha", IF v1alpha = None THEN "open" ELSE "get_v1alpha")
  /\ UNCHANGED <<fields, ref, sym, todo, waitOn, streams, receivers, panicked>>

Return(from, stream) ==
  /\ Goto(from, "send")
  /\ ref' = stream
  /\ panicked' = (stream = None)
  /\ UNCHANGED <<fields, sym, todo, waitOn, streams, receivers>>

ReturnStream ==
  \/ Return("get_v1", v1) \/ Return("ret_v1", v1)
  \/ Return("get_v1alpha", v1alpha) \/ Return("ret_alpha", v1alpha)

(* A stream the transport accepts.  Its receiver starts with it.           *)
Start(k) ==
  /\ recv[k] = "none"
  /\ recv' = [recv EXCEPT ![k] = "recv"]
  /\ alive' = alive \cup {k}
  /\ UNCHANGED <<requests, responses, held, buffer, sealed, target>>

(* The v1 stream: newV1Stream starts the receiver, then the client gets    *)
(* its fields.                                                             *)
OpenV1(k) ==
  /\ Goto("open", "set_v1")
  /\ Start(k)
  /\ ref' = k
  /\ UNCHANGED <<fields, sym, todo, waitOn, panicked>>

(* If that fails v1alpha is tried, and here the channel is made first.     *)
OpenV1Alpha(k) ==
  /\ Goto("open", "set_alpha")
  /\ Start(k)
  /\ ref' = k
  /\ disconnected' = k
  /\ UNCHANGED <<v1, v1alpha, cache, closed, sym, todo, waitOn, panicked>>

OpenFails ==
  /\ Fail("open")
  /\ UNCHANGED <<fields, sym, todo, waitOn, streams, receivers, panicked>>

SetV1 ==
  /\ Goto("set_v1", "set_disc")
  /\ v1' = ref
  /\ UNCHANGED <<v1alpha, disconnected, cache, closed, ref, sym, todo, waitOn,
                 streams, receivers, panicked>>

SetDisconnected ==
  /\ Goto("set_disc", "ret_v1")
  /\ disconnected' = ref
  /\ UNCHANGED <<v1, v1alpha, cache, closed, ref, sym, todo, waitOn,
                 streams, receivers, panicked>>

SetV1Alpha ==
  /\ Goto("set_alpha", "ret_alpha")
  /\ v1alpha' = ref
  /\ UNCHANGED <<v1, disconnected, cache, closed, ref, sym, todo, waitOn,
                 streams, receivers, panicked>>

-----------------------------------------------------------------------------
(* The exchange over the stream: listServices and fileContainingSymbol.    *)

(* Mistake: the request is written twice.                                  *)
Send_Twice ==
  /\ Goto("send", "recv")
  /\ requests' = IF ref \in alive THEN [requests EXCEPT ![ref] = @ \o <<sym, sym>>]
                                  ELSE requests
  /\ UNCHANGED <<fields, ref, sym, todo, waitOn, alive, responses, receivers, panicked>>

(* Send succeeds on a broken stream as long as the sender has not noticed. *)
Send ==
  /\ Goto("send", "recv")
  /\ requests' = IF ref \in alive THEN [requests EXCEPT ![ref] = Append(@, sym)]
                                  ELSE requests
  /\ UNCHANGED <<fields, ref, sym, todo, waitOn, alive, responses, receivers, panicked>>

SendFails ==
  /\ Fail("send")
  /\ ref \notin alive
  /\ UNCHANGED <<fields, sym, todo, waitOn, streams, receivers, panicked>>

(* bufferedReceiver.Recv on a closed and drained channel.                  *)
RecvClosed ==
  /\ Fail("recv")
  /\ buffer[ref] = <<>> /\ sealed[ref]
  /\ UNCHANGED <<fields, sym, todo, waitOn, streams, receivers, panicked>>

Taken == Head(buffer[ref])

TakeItem == buffer' = [buffer EXCEPT ![ref] = Tail(@)]

RecvError ==
  /\ Fail("recv")
  /\ buffer[ref] # <<>> /\ ~Taken.ok
  /\ TakeItem
  /\ UNCHANGED <<fields, sym, todo, waitOn, streams, recv, held, sealed, target, panicked>>

(* A list of n names.                                                      *)
RecvList(n) ==
  /\ Goto("recv", "next")
  /\ sym = 0 /\ buffer[ref] # <<>> /\ Taken.ok
  /\ TakeItem
  /\ ref' = None
  /\ todo' = n
  /\ UNCHANGED <<fields, sym, waitOn, streams, recv, held, sealed, target, panicked>>

(* The files of a name, which go into the cache.                           *)
RecvFiles ==
  /\ Goto("recv", "make")
  /\ sym # 0 /\ buffer[ref] # <<>> /\ Taken.ok
  /\ TakeItem
  /\ ref' = None
  /\ UNCHANGED <<fields, sym, todo, waitOn, streams, recv, held, sealed, target, panicked>>

(* Make the cache if there is none, then write to it.  A cache that has    *)
(* become nil in between panics.                                           *)
MakeCache ==
  /\ Goto("make", "write")
  /\ cache' = TRUE
  /\ UNCHANGED <<v1, v1alpha, disconnected, closed, ref, sym, todo, waitOn,
                 streams, receivers, panicked>>

WriteCache ==
  /\ Goto("write", "next")
  /\ panicked' = ~cache
  /\ UNCHANGED <<fields, ref, sym, todo, waitOn, streams, receivers>>

(* Mistake: one name too many.                                             *)
NextSymbol_Past ==
  /\ \/ /\ sym <= todo
        /\ Goto("next", "get")
        /\ sym' = sym + 1
     \/ /\ sym > todo
        /\ Goto("next", "fetched")
        /\ sym' = 0
  /\ UNCHANGED <<fields, ref, todo, waitOn, streams, receivers, panicked>>

(* The loop of getServiceInfo over the names.                              *)
NextSymbol ==
  /\ \/ /\ sym < todo
        /\ Goto("next", "get")
        /\ sym' = sym + 1
     \/ /\ sym = todo
        /\ Goto("next", "fetched")
        /\ sym' = 0
  /\ UNCHANGED <<fields, ref, todo, waitOn, streams, receivers, panicked>>

-----------------------------------------------------------------------------
(* The select of watchServices, and its timers.                            *)

(* Disconnected() is evaluated once.                                       *)
EvalDisconnected ==
  /\ Goto("fetched", "watch")
  /\ waitOn' = disconnected
  /\ todo' = 0
  /\ UNCHANGED <<fields, ref, sym, streams, receivers, panicked>>

NoticeDisconnect ==
  /\ waitOn = None \/ waitOn \in closed
  /\ Goto("watch", "lost")
  /\ waitOn' = None
  /\ UNCHANGED <<fields, ref, sym, todo, streams, receivers, panicked>>

TimerFires ==
  /\ Goto("lost", "get") \/ Goto("retry", "get")
  /\ UNCHANGED <<fields, ref, sym, todo, waitOn, streams, receivers, panicked>>

-----------------------------------------------------------------------------
(* The receiver goroutine of stream k.                                     *)

Step(k, from, to) ==
  /\ ~panicked
  /\ recv[k] = from
  /\ recv' = [recv EXCEPT ![k] = to]
  /\ overlapped' = (overlapped \/ (to \in Disconnecting /\ pc \in CallStates))

(* Recv returns what has arrived, and then the error of a broken stream.   *)
Receive(k) ==
  /\ Step(k, "recv", "put")
  /\ \/ /\ responses[k] # <<>>
        /\ held' = [held EXCEPT ![k] = Head(responses[k])]
        /\ responses' = [responses EXCEPT ![k] = Tail(@)]
     \/ /\ responses[k] = <<>> /\ k \notin alive
        /\ held' = [held EXCEPT ![k] = Broken]
        /\ UNCHANGED responses
  /\ UNCHANGED <<fields, watcher, alive, requests, buffer, sealed, target, panicked>>

(* The select with a default: if the buffer is full the item is dropped    *)
(* and the stream is given up, otherwise it is passed on.  Either way      *)
(* onError is called for an error.                                         *)
Put(k) ==
  /\ IF buffer[k] = <<>>
     THEN /\ Step(k, "put", IF held[k] = Broken THEN "check" ELSE "recv")
          /\ buffer' = [buffer EXCEPT ![k] = <<held[k]>>]
     ELSE /\ Step(k, "put", "check")
          /\ UNCHANGED buffer
  /\ UNCHANGED <<fields, watcher, streams, held, sealed, target, panicked>>

(* streamDisconnected, which takes no lock.                                *)
CheckChannel(k) ==
  /\ Step(k, "check", IF disconnected = None THEN "nil_v1" ELSE "close")
  /\ target' = [target EXCEPT ![k] = disconnected]
  /\ UNCHANGED <<fields, watcher, streams, held, buffer, sealed, panicked>>

(* Mistake: the channel is not closed.                                     *)
CloseChannel_Not(k) ==
  /\ Step(k, "close", "nil_v1")
  /\ UNCHANGED <<fields, watcher, streams, held, buffer, sealed, target, panicked>>

CloseChannel(k) ==
  /\ Step(k, "close", "nil_v1")
  /\ panicked' = (target[k] \in closed)
  /\ closed' = closed \cup {target[k]}
  /\ UNCHANGED <<v1, v1alpha, disconnected, cache, watcher, streams, held, buffer, sealed, target>>

(* Mistake: the stream is kept.                                            *)
ForgetV1_Not(k) ==
  /\ Step(k, "nil_v1", "nil_alpha")
  /\ UNCHANGED <<fields, watcher, streams, held, buffer, sealed, target, panicked>>

ForgetV1(k) ==
  /\ Step(k, "nil_v1", "nil_alpha")
  /\ v1' = None
  /\ UNCHANGED <<v1alpha, disconnected, cache, closed, watcher, streams,
                 held, buffer, sealed, target, panicked>>

ForgetV1Alpha(k) ==
  /\ Step(k, "nil_alpha", "nil_cache")
  /\ v1alpha' = None
  /\ UNCHANGED <<v1, disconnected, cache, closed, watcher, streams,
                 held, buffer, sealed, target, panicked>>

(* Mistake: the buffered channel is never closed.                          *)
ForgetCache_Open(k) ==
  /\ Step(k, "nil_cache", "done")
  /\ cache' = FALSE
  /\ UNCHANGED <<v1, v1alpha, disconnected, closed, watcher, streams,
                 held, buffer, sealed, target, panicked>>

(* The last write, and the deferred close of the buffered channel.         *)
ForgetCache(k) ==
  /\ Step(k, "nil_cache", "done")
  /\ cache' = FALSE
  /\ sealed' = [sealed EXCEPT ![k] = TRUE]
  /\ UNCHANGED <<v1, v1alpha, disconnected, closed, watcher, streams,
                 held, buffer, target, panicked>>

-----------------------------------------------------------------------------
(* The upstream and the network.                                           *)

(* The upstream answers the oldest request.                                *)
Answer(k) ==
  /\ ~panicked
  /\ k \in alive /\ requests[k] # <<>>
  /\ \E ok \in BOOLEAN :
       responses' = [responses EXCEPT ![k] = Append(@, [of |-> Head(requests[k]), ok |-> ok])]
  /\ requests' = [requests EXCEPT ![k] = Tail(@)]
  /\ UNCHANGED <<fields, watcher, alive, receivers, panicked, overlapped>>

(* The stream breaks.  What has arrived can still be received.             *)
Break(k) ==
  /\ ~panicked
  /\ k \in alive
  /\ alive' = alive \ {k}
  /\ requests' = [requests EXCEPT ![k] = <<>>]
  /\ UNCHANGED <<fields, watcher, responses, receivers, panicked, overlapped>>

-----------------------------------------------------------------------------

WatcherStep ==
  \/ CheckV1 \/ CheckV1Alpha \/ ReturnStream
  \/ \E k \in Stream : OpenV1(k) \/ OpenV1Alpha(k)
  \/ OpenFails
  \/ SetV1 \/ SetDisconnected \/ SetV1Alpha
  \/ Send \/ SendFails
  \/ RecvClosed \/ RecvError \/ RecvFiles
  \/ \E n \in Symbol : RecvList(n)
  \/ MakeCache \/ WriteCache \/ NextSymbol
  \/ EvalDisconnected \/ NoticeDisconnect \/ TimerFires

ReceiverStep(k) ==
  \/ Receive(k) \/ Put(k)
  \/ CheckChannel(k) \/ CloseChannel(k)
  \/ ForgetV1(k) \/ ForgetV1Alpha(k) \/ ForgetCache(k)

UpstreamStep(k) == Answer(k) \/ Break(k)

Next ==
  \/ WatcherStep
  \/ \E k \in Stream : ReceiverStep(k) \/ UpstreamStep(k)

Spec == Init /\ [][Next]_vars

(* The scheduler runs both kinds of goroutine.  Of the upstream: a request *)
(* is answered, or the stream breaks.                                      *)
FairSpec ==
  /\ Spec
  /\ WF_vars(WatcherStep)
  /\ \A k \in Stream :
       /\ WF_vars(ReceiverStep(k))
       /\ WF_vars(requests[k] # <<>> /\ UpstreamStep(k))

-----------------------------------------------------------------------------
(* Properties.                                                             *)

(* A response that the watcher takes answers the request it has just sent: *)
(* no stream carries more than one exchange at a time.                     *)
ResponsesMatchRequests ==
  \A k \in Stream :
    /\ Len(requests[k]) + Len(responses[k]) <= 1
    /\ pc = "recv" /\ ref = k /\ buffer[k] # <<>> => Taken.of \in {sym, None}

(* A response that has been received from the stream is not lost when the  *)
(* stream breaks behind it: only the error is dropped from a full buffer.  *)
OnlyErrorsAreDropped ==
  \A k \in Stream : recv[k] = "put" /\ buffer[k] # <<>> => held[k] = Broken

(* As long as no stream ends in the middle of a call, streamDisconnected   *)
(* does all it should: nothing panics, the ended stream is forgotten and   *)
(* its channel is closed.                                                  *)
QuietDisconnectsAreSafe ==
  ~overlapped =>
    /\ ~panicked
    /\ \A k \in Stream : recv[k] = "done" => k \in closed /\ v1 # k /\ v1alpha # k

(* reflection/client.go:35: "Disconnected returns a channel that will be   *)
(* closed when the underlying stream disconnects."                         *)
DisconnectedCloses ==
  \A k \in Stream : disconnected = k /\ recv[k] = "done" => k \in closed

(* Every fetch ends: Recv returns on a stream that broke earlier, and a    *)
(* failing stream does not keep the loop over the names going.             *)
FetchesEnd == pc \in CallStates ~> pc \in {"retry", "watch"} \/ panicked

(* The watcher notices that the stream it watches has broken, unless the   *)
(* stream had ended in the middle of a call.                               *)
BreaksAreNoticed ==
  \A k \in Stream :
    pc = "watch" /\ waitOn = k /\ k \notin alive /\ ~overlapped ~> pc # "watch"

=============================================================================
