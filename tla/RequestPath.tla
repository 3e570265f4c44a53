---------------------------- MODULE RequestPath ----------------------------
(***************************************************************************)
(* One request on its way through the proxy: Proxy.ServeHTTP               *)
(* (proxy/proxy.go), the gRPC-Web translation around it                    *)
(* (grpcweb/translate.go) and the stack of response writers it writes to   *)
(* (utils/http.go).                                                        *)
(*                                                                         *)
(* The handler is one goroutine: pc is where it is.  What varies is the    *)
(* request, the upstream (which may not answer, answer with headers only,  *)
(* or break off in the middle of a body) and the client, who may leave.    *)
(*                                                                         *)
(* w is the response under construction, through all its layers:           *)
(*   hdr     the header map the handler sees (w.Header())                  *)
(*   out     the header map of net/http; the same map for native gRPC      *)
(*   copied  headersCopied                                                 *)
(*   head    the headers the client was sent, Unsent before that           *)
(*   code    their HTTP status                                             *)
(*   body    the pieces written: "data", or the "trailer" frame            *)
(*   seen    how many pieces have left all buffers                         *)
(*   held    the bytes written since the last flush, before compression    *)
(*   limit   for the text format: how many pieces a decoder of standard    *)
(*           base64 gets right, that is those before the first group that  *)
(*           ends in the middle of a quantum; the encoder does not pad     *)
(* A header map gives each key its values, none if it is absent.  Names of *)
(* keys: "type" is Content-Type, "encoding" Content-Encoding, "status"     *)
(* stands for Grpc-Status with Grpc-Message, "trailer" is Trailer, Meta    *)
(* are keys of the application's metadata.                                 *)
(***************************************************************************)
EXTENDS Naturals, Sequences, Functions

CONSTANTS
  Meta,        \* metadata keys
  Sizes,       \* lengths of the chunks that a read from the upstream returns,
               \* and of the trailer frame
  MaxChunks    \* bound on the number of chunks of a body

ASSUME RequestAssumption ==
  /\ Sizes \subseteq Nat \ {0}
  /\ MaxChunks \in Nat
  /\ Meta \cap {"type", "encoding", "status", "trailer"} = {}

VARIABLES
  req,         \* the request
  disabled,    \* disableReflectionService
  pc,          \* where ServeHTTP is
  w,           \* the response
  up,          \* the response of the upstream, as far as it has come
  gone,        \* the client has closed the connection or cancelled
  outcome      \* history: how the response came about

vars == <<req, disabled, pc, w, up, gone, outcome>>

-----------------------------------------------------------------------------
(* Header maps and the request.                                            *)

Key == Meta \cup {"type", "encoding", "status", "trailer"}

NoHeaders == [k \in Key |-> <<>>]

Unsent == [k \in {} |-> <<>>]

NoResponse == [header |-> Unsent, trailer |-> NoHeaders]

(* Every value of one header map added to another.                         *)
Merged(h, more) == [k \in Key |-> h[k] \o more[k]]

Present(h) == {k \in Key : h[k] # <<>>}

Kind == {"native", "web", "text"}

Requests ==
  [post : BOOLEAN, path : BOOLEAN, kind : Kind, gzip : BOOLEAN,
   service : {"reflection", "routed", "unrouted"}]

Native == req.kind = "native"

Zipped == req.gzip /\ ~Native

Whole == MaxChunks + 2     \* more pieces than any body has

-----------------------------------------------------------------------------
(* The response writers, from the handler's end.                           *)

(* w.Header() is the writer's own map, except for native gRPC.             *)
WithHeaders(r, h) ==
  [r EXCEPT !.hdr = h, !.out = IF Native THEN h ELSE @]

(* net/http sends the headers as they are at the first WriteHeader, Write  *)
(* or Flush.                                                               *)
Commit(r, code) ==
  IF r.head = Unsent THEN [r EXCEPT !.head = r.out, !.code = code] ELSE r

(* grpcWebResponseWriter.CopyHeaders                                       *)
CopyHeaders(r) ==
  LET h == [r.hdr EXCEPT
              !["type"] = [i \in DOMAIN @ |->
                             IF @[i] = "grpc" THEN req.kind ELSE @[i]]]
  IN [r EXCEPT
        !.hdr = h,
        !.out = [k \in Key |-> IF k \in Present(h) \ {"trailer"} THEN h[k] ELSE @[k]],
        !.copied = TRUE]

WriteHeader(r, code) == Commit(IF Native THEN r ELSE CopyHeaders(r), code)

(* What the layers under grpcWebResponseWriter do with a write.            *)
InnerWrite(r, piece) ==
  [Commit(r, 200) EXCEPT !.body = Append(@, piece), !.held = @ + piece.size]

Write(r, piece) ==
  InnerWrite(IF Native \/ r.copied THEN r ELSE CopyHeaders(r), piece)

(* Flush of every layer: the gzip writer's, which makes what it was given  *)
(* readable but does not end its stream; the base64 encoder's, which is    *)
(* closed and replaced, so that a new group begins; and net/http's.        *)
Flush(r) ==
  [Commit(r, 200) EXCEPT
     !.seen = Len(r.body),
     !.held = 0,
     !.limit = IF req.kind = "text" /\ @ = Whole /\ r.held % 3 # 0 THEN r.seen ELSE @]

(* Mistake: keys that were sent as headers are not left out.               *)
Finish_Repeats(r, n) ==
  Flush(InnerWrite(r, [what |-> "trailer", size |-> n,
                       keys |-> [r.hdr EXCEPT !["trailer"] = <<>>]]))

(* grpcWebResponseWriter.Finish: what has not been sent becomes the        *)
(* trailer frame, of n bytes.  Its writes do not go through CopyHeaders.   *)
Finish(r, n) ==
  LET t == [k \in Key |-> IF k \in Present(r.out) \cup {"trailer"}
                            THEN <<>> ELSE r.hdr[k]]
  IN Flush(IF Present(t) = {} THEN r
           ELSE InnerWrite(r, [what |-> "trailer", size |-> n, keys |-> t]))

(* net/http after the handler: what is still in its own buffer is sent.  A *)
(* gzip or base64 writer keeps what nobody flushed; and as nobody closes   *)
(* the gzip writer, the last block and the checksum of its stream, which   *)
(* are no piece of the body, never leave it.                               *)
Returned(r) ==
  [Commit(r, 200) EXCEPT
     !.seen = IF Zipped \/ req.kind = "text" THEN @ ELSE Len(r.body)]

-----------------------------------------------------------------------------
(* ServeHTTP.                                                              *)

TypeOK ==
  /\ req \in Requests
  /\ disabled \in BOOLEAN
  /\ pc \in {"start", "route", "internal", "forward", "copy", "finish", "done"}
  /\ w.hdr \in [Key -> Seq({"grpc", "web", "text", "gzip", "status", "up", "proxy"})]
  /\ w.head = Unsent \/ DOMAIN w.head = Key
  /\ w.code \in {0, 200, 400, 405, 502}
  /\ w.seen \in 0 .. Len(w.body)
  /\ w.held \in Nat
  /\ w.limit \in 0 .. Whole
  /\ \A i \in DOMAIN w.body : w.body[i].what = "trailer" => i = Len(w.body)
  /\ up.trailer \in [Key -> {<<>>, <<"up">>}]
  /\ gone \in BOOLEAN
  /\ outcome \in {"pending", "rejected", "proxy", "complete", "bare", "refused", "broken"}

Init ==
  /\ req \in Requests
  /\ disabled \in BOOLEAN
  /\ pc = "start"
  /\ w = [hdr |-> NoHeaders, out |-> NoHeaders, copied |-> FALSE,
          head |-> Unsent, code |-> 0, body |-> <<>>, seen |-> 0, held |-> 0,
          limit |-> Whole]
  /\ up = NoResponse
  /\ gone = FALSE
  /\ outcome = "pending"

Goto(l) == pc' = l /\ UNCHANGED <<req, disabled, gone>>

Answered(how) == Goto("finish") /\ outcome' = how

(* Not a POST request, or a path without a service and a method: answered  *)
(* before the writer is wrapped.                                           *)
Reject ==
  /\ pc = "start"
  /\ ~(req.post /\ req.path)
  /\ w' = Commit(w, IF req.post THEN 400 ELSE 405)
  /\ outcome' = "rejected"
  /\ Goto("done")
  /\ UNCHANGED up

(* Mistake: the trailers are not announced.                                *)
Begin_NoTrailer ==
  /\ pc = "start"
  /\ req.post /\ req.path
  /\ w' = WithHeaders(w, [NoHeaders EXCEPT !["encoding"] = IF Zipped THEN <<"gzip">> ELSE <<>>])
  /\ Goto("route")
  /\ UNCHANGED <<up, outcome>>

(* WrapRequest, and the announcement of the trailers.                      *)
Begin ==
  /\ pc = "start"
  /\ req.post /\ req.path
  /\ w' = WithHeaders(w, [NoHeaders EXCEPT
                            !["encoding"] = IF Zipped THEN <<"gzip">> ELSE <<>>,
                            !["trailer"] = <<"status">>])
  /\ Goto("route")
  /\ UNCHANGED <<up, outcome>>

(* writeGrpcStatus                                                         *)
GrpcStatus(r) ==
  LET r1 == WriteHeader(WithHeaders(r, [r.hdr EXCEPT !["type"] = <<"grpc">>]), 200)
  IN WithHeaders(r1, [r1.hdr EXCEPT !["status"] = Append(@, "proxy")])

(* The reflection service is disabled, or findServer finds no server.      *)
Unimplemented ==
  /\ pc = "route"
  /\ \/ req.service = "reflection" /\ disabled
     \/ req.service = "unrouted"
  /\ w' = GrpcStatus(w)
  /\ Answered("proxy")
  /\ UNCHANGED up

Route ==
  /\ pc = "route"
  /\ \/ req.service = "reflection" /\ ~disabled /\ Goto("internal")
     \/ req.service = "routed" /\ Goto("forward")
  /\ UNCHANGED <<w, up, outcome>>

-----------------------------------------------------------------------------
(* internalServer.ServeHTTP, which is grpc's handler transport: it sets    *)
(* its headers with the first message or, at the latest, before the flush  *)
(* that separates headers from trailers.                                   *)

InternalHeaders(r) ==
  IF r.body # <<>> THEN r
  ELSE WithHeaders(r, [r.hdr EXCEPT !["type"] = <<"grpc">>,
                                    !["trailer"] = Append(@, "status")])

InternalReply(n) ==
  /\ pc = "internal"
  /\ Len(w.body) < MaxChunks
  /\ w' = Flush(Write(InternalHeaders(w), [what |-> "data", size |-> n]))
  /\ Goto(pc)
  /\ UNCHANGED <<up, outcome>>

(* The handler of the stream returns the error of Recv, at the end of the  *)
(* client's requests too: the status is never OK.                          *)
InternalEnd ==
  /\ pc = "internal"
  /\ LET r == Flush(InternalHeaders(w))
     IN w' = WithHeaders(r, [r.hdr EXCEPT !["status"] = <<"proxy">>])
  /\ Answered("proxy")
  /\ UNCHANGED up

-----------------------------------------------------------------------------
(* forwardRequest.                                                         *)

Values(keys) == [k \in Key |-> IF k \in keys THEN <<"up">> ELSE <<>>]

HeadersOnly == up.header["status"] # <<>>

(* Mistake: the request to the upstream has a context of its own.          *)
DoFails_Detached ==
  /\ pc = "forward"
  /\ ~gone
  /\ Answered("broken")
  /\ UNCHANGED <<w, up>>

(* Do fails: nobody answers at the address, or the context is done.        *)
DoFails ==
  /\ pc = "forward"
  /\ Answered("broken")
  /\ UNCHANGED <<w, up>>

(* The upstream answers.  A status among the headers is a response without *)
(* body and trailers.                                                      *)
Respond ==
  /\ pc = "forward"
  /\ \E ms \in SUBSET (Meta \cup {"status"}), code \in {200, 502} :
       LET h == [Values(ms) EXCEPT !["type"] = <<"grpc">>]
       IN /\ up' = [up EXCEPT !.header = h]
          /\ w' = WriteHeader(WithHeaders(w, Merged(w.hdr, h)), code)
          /\ IF code = 200 THEN Goto("copy") /\ UNCHANGED outcome
                           ELSE Answered("refused")

(* Mistake: io.Copy to the writer itself, which does not flush.            *)
CopyChunk_NoFlush(n) ==
  /\ pc = "copy"
  /\ ~HeadersOnly
  /\ Len(w.body) < MaxChunks
  /\ w' = Write(w, [what |-> "data", size |-> n])
  /\ Goto(pc)
  /\ UNCHANGED <<up, outcome>>

(* io.Copy passes one read on and flushes.                                 *)
CopyChunk(n) ==
  /\ pc = "copy"
  /\ ~HeadersOnly
  /\ Len(w.body) < MaxChunks
  /\ w' = Flush(Write(w, [what |-> "data", size |-> n]))
  /\ Goto(pc)
  /\ UNCHANGED <<up, outcome>>

(* Mistake: the trailers are added although the body is incomplete.        *)
CopyFails_GoesOn ==
  /\ pc = "copy"
  /\ ~HeadersOnly
  /\ w' = WithHeaders(w, Merged(w.hdr, Values({"status"})))
  /\ Answered("broken")
  /\ UNCHANGED up

(* A read from the upstream fails, or a write to the client.               *)
CopyFails ==
  /\ pc = "copy"
  /\ ~HeadersOnly
  /\ Answered("broken")
  /\ UNCHANGED <<w, up>>

(* The body ends: the upstream's trailers are added to the headers.  They  *)
(* may lack a status, as those of a Pancake whose own upstream failed.     *)
CopyEnds ==
  /\ pc = "copy"
  /\ \E ms \in IF HeadersOnly THEN {{}} ELSE SUBSET (Meta \cup {"status"}) :
       /\ up' = [up EXCEPT !.trailer = Values(ms)]
       /\ w' = WithHeaders(w, Merged(w.hdr, Values(ms)))
       /\ Answered(IF HeadersOnly \/ "status" \in ms THEN "complete" ELSE "bare")

-----------------------------------------------------------------------------

(* Mistake: Finish is called and deferred as well.                         *)
Return_FinishesTwice ==
  /\ pc = "finish"
  /\ \E n \in Sizes : w' = Returned(IF Native THEN w ELSE Finish(Finish(w, n), n))
  /\ Goto("done")
  /\ UNCHANGED <<up, outcome>>

(* The deferred Finish, and the return to net/http.                        *)
Return ==
  /\ pc = "finish"
  /\ \E n \in Sizes : w' = Returned(IF Native THEN w ELSE Finish(w, n))
  /\ Goto("done")
  /\ UNCHANGED <<up, outcome>>

ClientLeaves ==
  /\ pc # "done"
  /\ ~gone
  /\ gone' = TRUE
  /\ UNCHANGED <<req, disabled, pc, w, up, outcome>>

(* Steps that wait for nobody.                                             *)
Handle == Reject \/ Begin \/ Unimplemented \/ Route \/ Return

Transfer ==
  \/ \E n \in Sizes : InternalReply(n) \/ CopyChunk(n)
  \/ Respond
  \/ CopyEnds

Break == InternalEnd \/ DoFails \/ CopyFails

Next == Handle \/ Transfer \/ Break \/ ClientLeaves

Spec == Init /\ [][Next]_vars

(* The handler runs.  Nothing makes an upstream answer or a client send;   *)
(* but the context of a request whose client has gone is done, and then    *)
(* Do, the read of the body, or Recv fails at the latest when the upstream *)
(* has nothing more to say.                                                *)
Cancelled == gone /\ (Break \/ CopyEnds)

FairSpec == Spec /\ WF_vars(Handle) /\ WF_vars(Cancelled)

-----------------------------------------------------------------------------
(* What the client has in the end.                                         *)

(* The client knows how to undo the encodings.  The headers that were sent *)
(* must name gzip.  In the text format that helps nobody: the header says  *)
(* that the body is gzip, but it is base64 of gzip.                        *)
Marked == Zipped => req.kind = "web" /\ "gzip" \in Range(w.head["encoding"])

(* The trailer block, or the trailer frame if it came through and can be   *)
(* decoded.  (By a client that decompresses what it has read and does not  *)
(* wait for the end of the gzip stream, which never comes.)                *)
Trailers ==
  IF Native
    THEN [k \in Key |-> IF k \in Range(w.head["trailer"]) THEN w.out[k] ELSE <<>>]
    ELSE LET n == Len(w.body)
         IN IF n > 0 /\ w.body[n].what = "trailer" /\ n <= w.seen /\ n <= w.limit /\ Marked
              THEN w.body[n].keys ELSE NoHeaders

(* A native client takes the status from the trailers, a web client from   *)
(* wherever it is.                                                         *)
Statuses == (IF Native THEN <<>> ELSE w.head["status"]) \o Trailers["status"]

(* The two ways in which the formats spoil an answer.  A text response is  *)
(* lost from the first piece whose length is not a multiple of three, the  *)
(* trailer frame included, and altogether if it is compressed.  The        *)
(* reflection service's answer to a call without any reply is compressed,  *)
(* but its headers, flushed before they are copied, do not say so.         *)
Internal == req.service = "reflection" /\ ~disabled

Spoilt ==
  \/ req.kind = "text" /\ (req.gzip \/ \E i \in DOMAIN w.body : w.body[i].size % 3 # 0)
  \/ Zipped /\ Internal /\ \A i \in DOMAIN w.body : w.body[i].what = "trailer"

-----------------------------------------------------------------------------
(* Properties.                                                             *)

(* Every call that the upstream or the proxy ended with a status ends with *)
(* exactly one gRPC status for the client: also when the upstream put it   *)
(* into the headers, when the proxy answers itself, and in every format,   *)
(* unless the format spoils the answer in one of the two known ways.       *)
OneStatusPerCall ==
  pc = "done" /\ outcome \in {"proxy", "complete"} /\ ~Spoilt
    => Statuses = <<IF outcome = "proxy" THEN "proxy" ELSE "up">>

(* A call that broke, because nobody answered or a body was cut short, and *)
(* one whose upstream gave no status never look finished to the client;    *)
(* and a status of the upstream is only passed on together with everything *)
(* the upstream sent before it.                                            *)
FailuresStayVisible ==
  pc = "done" /\ outcome # "rejected" =>
    /\ outcome \in {"broken", "bare"} => Statuses = <<>>
    /\ "up" \in Range(Statuses) =>
         /\ outcome \in {"complete", "refused"}
         /\ w.seen = Len(w.body)

(* The metadata of an answer that came to its end reaches a web client     *)
(* once, unless the format spoils it: a header as a header, a trailer in   *)
(* the frame, unless a header of the same name was sent; and no header is  *)
(* repeated as a trailer.                                                  *)
MetadataArrives ==
  pc = "done" /\ outcome \in {"complete", "bare"} /\ ~Native /\ ~Spoilt =>
    /\ \A m \in Meta : /\ w.head[m] = up.header[m]
                       /\ up.header[m] = <<>> => Trailers[m] = up.trailer[m]
    /\ Present(w.head) \cap Present(Trailers) = {}

(* No layer holds a piece back: each chunk has left the proxy before the   *)
(* next one is read, so that streams stream, and at the end of the call    *)
(* the trailer frame has left as well; and base64 cuts no piece of an      *)
(* answer that is not spoilt.  (The end of the gzip stream, which is no    *)
(* piece, is held back for ever.)                                          *)
NothingHeldBack ==
  /\ pc \in {"internal", "copy", "done"} => w.seen = Len(w.body)
  /\ pc = "done" /\ ~Spoilt => w.limit >= Len(w.body)

(* A request whose client has gone does not occupy the proxy for ever.     *)
AbandonedRequestsEnd == gone ~> pc = "done"
=============================================================================
