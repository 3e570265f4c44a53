------------------------- MODULE RequestPathProofs -------------------------
(***************************************************************************)
(* Proofs about RequestPath, for any metadata, chunks of any size, and     *)
(* bodies of any length.                                                   *)
(***************************************************************************)
EXTENDS RequestPath, TLAPS

-----------------------------------------------------------------------------
(* The inductive invariant.                                                *)

Value == {"grpc", "web", "text", "gzip", "status", "up", "proxy"}

Headers == [Key -> Seq(Value)]

Piece == [what : {"data"}, size : Nat] \cup [what : {"trailer"}, size : Nat, keys : Headers]

Code == {0, 200, 400, 405, 502}

Response ==
  [hdr : Headers, out : Headers, copied : BOOLEAN, head : Headers \cup {Unsent},
   code : Code, body : Seq(Piece), seen : Nat, held : Nat, limit : 0 .. Whole]

UpHeaders == [Key -> {<<>>, <<"up">>, <<"grpc">>}]

Types ==
  /\ req \in Requests
  /\ disabled \in BOOLEAN
  /\ pc \in {"start", "route", "internal", "forward", "copy", "finish", "done"}
  /\ w \in Response
  /\ up \in [header : UpHeaders \cup {Unsent}, trailer : [Key -> {<<>>, <<"up">>}]]
  /\ gone \in BOOLEAN
  /\ outcome \in {"pending", "rejected", "proxy", "complete", "bare", "refused", "broken"}

(* The headers that were sent, or that would be sent now.                  *)
HeadOf(r) == IF r.head = Unsent THEN r.out ELSE r.head

(* Every group of base64 so far ends with a quantum.                       *)
Legible ==
  req.kind # "text" \/ (~req.gzip /\ \A i \in DOMAIN w.body : w.body[i].size % 3 = 0)

(* Between the steps of the handler every layer is empty, and the frame of *)
(* the trailers is still to come.                                          *)
WriterIdle ==
  pc # "done" =>
    /\ w.seen = Len(w.body) /\ w.held = 0
    /\ Len(w.body) <= MaxChunks
    /\ \A i \in DOMAIN w.body : w.body[i].what = "data"
    /\ w.head = Unsent => w.body = <<>>
    /\ Native => w.out = w.hdr
    /\ Legible => w.limit = Whole

Announced ==
  [NoHeaders EXCEPT !["encoding"] = IF Zipped THEN <<"gzip">> ELSE <<>>,
                    !["trailer"] = <<"status">>]

(* Nothing has been answered yet.                                          *)
Untouched(h) ==
  /\ w.head = Unsent /\ w.body = <<>> /\ ~w.copied
  /\ w.hdr = h
  /\ w.out = IF Native THEN h ELSE NoHeaders
  /\ up = NoResponse

StatusAnnounced == Native => "status" \in Range(w.head["trailer"])

(* The client was told that the answer is compressed.                      *)
EncodingSent == Zipped => w.head["encoding"] = <<"gzip">>

(* Messages of the reflection service have been sent, and no status.       *)
Streaming ==
  /\ w.head # Unsent /\ w.body # <<>> /\ EncodingSent
  /\ w.hdr["status"] = <<>> /\ w.head["status"] = <<>>
  /\ StatusAnnounced
  /\ ~Native => w.copied /\ w.out["status"] = <<>>

(* The headers of the upstream are sent as they came.                      *)
HeadersPassedOn ==
  /\ w.head # Unsent /\ up.header # Unsent
  /\ StatusAnnounced /\ EncodingSent
  /\ ~Native => w.copied /\ w.out = w.head
  /\ \A k \in Meta \cup {"status"} : w.head[k] = up.header[k]

Forwarding ==
  /\ HeadersPassedOn
  /\ \A k \in Meta \cup {"status"} : w.hdr[k] = up.header[k]
  /\ up.trailer = NoHeaders
  /\ up.header["status"] \in {<<>>, <<"up">>}
  /\ HeadersOnly => w.body = <<>>
  /\ outcome = "pending"

(* What the deferred Finish finds.                                         *)
Answering ==
  /\ outcome \in {"proxy", "complete", "bare", "refused", "broken"}
  /\ outcome = "proxy" =>
       /\ w.head # Unsent
       /\ EncodingSent \/ (Internal /\ w.body = <<>>)
       /\ w.hdr["status"] = <<"proxy">> /\ w.head["status"] = <<>>
       /\ StatusAnnounced
       /\ ~Native => w.out["status"] = <<>>
  /\ outcome \in {"complete", "bare"} =>
       /\ HeadersPassedOn
       /\ \A k \in Meta \cup {"status"} : w.hdr[k] = up.header[k] \o up.trailer[k]
  /\ outcome = "complete" =>
       \/ up.header["status"] = <<>> /\ up.trailer["status"] = <<"up">>
       \/ up.header["status"] = <<"up">> /\ up.trailer["status"] = <<>>
  /\ outcome = "bare" => up.header["status"] = <<>> /\ up.trailer["status"] = <<>>
  /\ outcome = "broken" => w.hdr["status"] = <<>> /\ HeadOf(w)["status"] = <<>>

HandlerConsistent ==
  /\ pc = "start" => Untouched(NoHeaders) /\ outcome = "pending"
  /\ pc \in {"route", "forward"} => Untouched(Announced) /\ outcome = "pending"
  /\ pc = "internal" => Internal /\ (Untouched(Announced) \/ Streaming)
  /\ pc = "copy" => Forwarding
  /\ pc = "finish" => Answering

(* The trailer frame comes last.                                           *)
FrameIsLast ==
  /\ w.seen <= Len(w.body)
  /\ \A i \in DOMAIN w.body : w.body[i].what = "trailer" => i = Len(w.body)

IInv ==
  /\ Types
  /\ WriterIdle
  /\ HandlerConsistent
  /\ FrameIsLast
  /\ OneStatusPerCall
  /\ FailuresStayVisible
  /\ MetadataArrives
  /\ NothingHeldBack
-----------------------------------------------------------------------------
(* The layers of writers, field by field.                                  *)

LEMMA KeyFacts ==
  /\ {"type", "encoding", "status", "trailer"} \subseteq Key
  /\ Meta \subseteq Key \ {"type", "encoding", "status", "trailer"}
  /\ Unsent \notin Headers /\ Unsent \notin UpHeaders
  /\ NoHeaders \in Headers
  /\ \A k \in Key : NoHeaders[k] = <<>>
  /\ Whole \in Nat /\ Whole > MaxChunks + 1
  <1>1. DOMAIN Unsent = {} /\ "status" \in Key
    BY DEF Unsent, Key
  <1>2. Unsent \notin Headers /\ Unsent \notin UpHeaders
    BY <1>1 DEF Headers, UpHeaders
  <1>3. NoHeaders \in Headers /\ \A k \in Key : NoHeaders[k] = <<>>
    BY DEF NoHeaders, Headers
  <1> QED BY <1>2, <1>3, RequestAssumption DEF Key, Whole

LEMMA AnnouncedFacts ==
  /\ Announced \in Headers
  /\ Announced["trailer"] = <<"status">>
  /\ Zipped => Announced["encoding"] = <<"gzip">>
  /\ \A k \in Key \ {"encoding", "trailer"} : Announced[k] = <<>>
  /\ \A k \in Key : NoHeaders[k] = <<>>
  <1> DEFINE e == IF Zipped THEN <<"gzip">> ELSE <<>>
  <1>1. <<"gzip">> \in Seq(Value) /\ <<"status">> \in Seq(Value) /\ <<>> \in Seq(Value)
    BY DEF Value
  <1>2. e \in Seq(Value)
    BY <1>1
  <1>3. Announced = [NoHeaders EXCEPT !["encoding"] = e, !["trailer"] = <<"status">>]
    BY DEF Announced
  <1>4. Zipped => e = <<"gzip">>
    OBVIOUS
  <1> HIDE DEF e
  <1> QED BY <1>1, <1>2, <1>3, <1>4, KeyFacts DEF Headers

(* Fields that only a write or a flush changes.                            *)
SameBody(r, s) ==
  s.body = r.body /\ s.seen = r.seen /\ s.held = r.held /\ s.limit = r.limit

LEMMA CommitFields ==
  ASSUME NEW r \in Response, NEW code \in Code
  PROVE  /\ Commit(r, code) \in Response
         /\ Commit(r, code).head = HeadOf(r) /\ HeadOf(r) \in Headers
         /\ Commit(r, code).hdr = r.hdr /\ Commit(r, code).out = r.out
         /\ Commit(r, code).copied = r.copied
         /\ SameBody(r, Commit(r, code))
  BY KeyFacts DEF Commit, Response, HeadOf, SameBody

LEMMA WithHeadersFields ==
  ASSUME NEW r \in Response, NEW h \in Headers
  PROVE  LET s == WithHeaders(r, h)
         IN /\ s \in Response
            /\ s.hdr = h /\ s.out = (IF Native THEN h ELSE r.out)
            /\ s.head = r.head /\ s.copied = r.copied
            /\ SameBody(r, s)
  BY DEF WithHeaders, Response, SameBody

LEMMA CopyHeadersFields ==
  ASSUME NEW r \in Response, req \in Requests, ~Native
  PROVE  LET s == CopyHeaders(r)
         IN /\ s \in Response
            /\ \A k \in Key \ {"type"} : s.hdr[k] = r.hdr[k]
            /\ \A k \in Key \ {"type", "trailer"} :
                 s.out[k] = IF r.hdr[k] = <<>> THEN r.out[k] ELSE r.hdr[k]
            /\ s.out["trailer"] = r.out["trailer"]
            /\ s.copied /\ s.head = r.head
            /\ SameBody(r, s)
  <1> DEFINE line == r.hdr["type"]
             type == [i \in DOMAIN line |-> IF line[i] = "grpc" THEN req.kind ELSE line[i]]
             h == [r.hdr EXCEPT !["type"] = type]
             o == [k \in Key |-> IF k \in Present(h) \ {"trailer"} THEN h[k] ELSE r.out[k]]
  <1>1. req.kind \in Value
    BY DEF Requests, Native, Kind, Value
  <1>2. r.hdr \in Headers /\ r.out \in Headers
    BY DEF Response
  <1>3. type \in Seq(Value)
    <2>1. line \in Seq(Value)
      BY <1>2, KeyFacts DEF Headers
    <2>2. DOMAIN line = 1 .. Len(line) /\ Len(line) \in Nat
      BY <2>1
    <2>3. \A i \in 1 .. Len(line) : type[i] \in Value
      BY <1>1, <2>1, <2>2
    <2>4. type \in [1 .. Len(line) -> Value]
      BY <2>2, <2>3
    <2> HIDE DEF type, line
    <2> QED BY <2>2, <2>4
  <1>4. h \in Headers
    BY <1>2, <1>3, KeyFacts DEF Headers
  <1>5. o \in Headers
    BY <1>2, <1>4 DEF Headers
  <1>6. \A k \in Key \ {"type"} : h[k] = r.hdr[k]
    BY <1>2 DEF Headers
  <1>7. \A k \in Key : o[k] = IF h[k] # <<>> /\ k # "trailer" THEN h[k] ELSE r.out[k]
    BY DEF Present
  <1>8. CopyHeaders(r) = [r EXCEPT !.hdr = h, !.out = o, !.copied = TRUE]
    BY <1>2 DEF CopyHeaders, Headers
  <1> HIDE DEF h, o, type
  <1> QED BY <1>4, <1>5, <1>6, <1>7, <1>8, KeyFacts DEF Response, SameBody

(* WriteHeader sends what the handler has set, in any format.              *)
LEMMA WriteHeaderFields ==
  ASSUME NEW r \in Response, NEW code \in Code, req \in Requests, Native => r.out = r.hdr
  PROVE  LET s == WriteHeader(r, code)
         IN /\ s \in Response
            /\ \A k \in Key \ {"type"} : s.hdr[k] = r.hdr[k]
            /\ Native => s.out = s.hdr
            /\ ~Native => /\ s.copied
                          /\ \A k \in Key \ {"type", "trailer"} :
                               s.out[k] = IF r.hdr[k] = <<>> THEN r.out[k] ELSE r.hdr[k]
            /\ s.head # Unsent
            /\ s.head = IF r.head = Unsent THEN s.out ELSE r.head
            /\ SameBody(r, s)
  <1>1. CASE Native
    BY <1>1, CommitFields, KeyFacts DEF WriteHeader, HeadOf
  <1>2. CASE ~Native
    <2>1. CopyHeaders(r) \in Response
      BY <1>2, CopyHeadersFields
    <2>2. WriteHeader(r, code) = Commit(CopyHeaders(r), code)
      BY <1>2 DEF WriteHeader
    <2> QED BY <1>2, <2>1, <2>2, CopyHeadersFields, CommitFields, KeyFacts
            DEF HeadOf, SameBody
  <1> QED BY <1>1, <1>2

Appended(r, piece) == [r EXCEPT !.body = Append(@, piece), !.held = @ + piece.size]

LEMMA AppendedFields ==
  ASSUME NEW r \in Response, NEW piece \in Piece
  PROVE  LET s == Appended(r, piece)
         IN /\ s \in Response
            /\ s.hdr = r.hdr /\ s.out = r.out /\ s.copied = r.copied /\ s.head = r.head
            /\ s.body = Append(r.body, piece)
            /\ s.seen = r.seen /\ s.held = r.held + piece.size /\ s.limit = r.limit
  <1>1. Append(r.body, piece) \in Seq(Piece) /\ r.held + piece.size \in Nat
    BY DEF Response, Piece
  <1> QED BY <1>1 DEF Response, Appended

LEMMA InnerWriteFields ==
  ASSUME NEW r \in Response, NEW piece \in Piece
  PROVE  LET s == InnerWrite(r, piece)
         IN /\ s \in Response
            /\ s.hdr = r.hdr /\ s.out = r.out /\ s.copied = r.copied
            /\ s.head = HeadOf(r) /\ s.head # Unsent
            /\ s.body = Append(r.body, piece)
            /\ s.seen = r.seen /\ s.held = r.held + piece.size /\ s.limit = r.limit
  <1> DEFINE c == Commit(r, 200)
  <1>1. SameBody(r, c) /\ c \in Response /\ c.hdr = r.hdr /\ c.out = r.out
        /\ c.copied = r.copied /\ c.head = HeadOf(r) /\ c.head # Unsent
    BY CommitFields, KeyFacts DEF Code
  <1>2. InnerWrite(r, piece) = Appended(c, piece)
    BY DEF InnerWrite, Appended
  <1> HIDE DEF c
  <1> QED BY <1>1, <1>2, AppendedFields DEF SameBody

(* A write of the handler: the headers go before the first one.            *)
LEMMA WriteFields ==
  ASSUME NEW r \in Response, NEW piece \in Piece, req \in Requests,
         Native => r.out = r.hdr
  PROVE  LET s == Write(r, piece)
         IN /\ s \in Response
            /\ \A k \in Key \ {"type"} : s.hdr[k] = r.hdr[k]
            /\ Native => s.out = s.hdr
            /\ ~Native => /\ s.copied
                          /\ r.copied => s.out = r.out
                          /\ \A k \in Key \ {"type", "trailer"} :
                               ~r.copied =>
                                 s.out[k] = IF r.hdr[k] = <<>> THEN r.out[k] ELSE r.hdr[k]
            /\ s.head # Unsent
            /\ s.head = IF r.head = Unsent THEN s.out ELSE r.head
            /\ s.body = Append(r.body, piece)
            /\ s.seen = r.seen /\ s.held = r.held + piece.size /\ s.limit = r.limit
  <1>1. CASE Native \/ r.copied
    BY <1>1, InnerWriteFields DEF Write, HeadOf
  <1>2. CASE ~(Native \/ r.copied)
    <2> DEFINE c == CopyHeaders(r)
    <2>1. /\ c \in Response
          /\ \A k \in Key \ {"type"} : c.hdr[k] = r.hdr[k]
          /\ \A k \in Key \ {"type", "trailer"} :
               c.out[k] = IF r.hdr[k] = <<>> THEN r.out[k] ELSE r.hdr[k]
          /\ c.copied /\ c.head = r.head
          /\ SameBody(r, c)
      BY <1>2, CopyHeadersFields
    <2>2. Write(r, piece) = InnerWrite(c, piece)
      BY <1>2 DEF Write
    <2> HIDE DEF c
    <2>3. LET s == InnerWrite(c, piece)
          IN /\ s \in Response
             /\ s.hdr = c.hdr /\ s.out = c.out /\ s.copied = c.copied
             /\ s.head = HeadOf(c) /\ s.head # Unsent
             /\ s.body = Append(c.body, piece)
             /\ s.seen = c.seen /\ s.held = c.held + piece.size /\ s.limit = c.limit
      BY <2>1, InnerWriteFields
    <2> QED BY <1>2, <2>1, <2>2, <2>3 DEF HeadOf, SameBody
  <1> QED BY <1>1, <1>2

Flushed(r, limit) == [r EXCEPT !.seen = Len(r.body), !.held = 0, !.limit = limit]

LEMMA FlushedFields ==
  ASSUME NEW r \in Response, NEW limit \in 0 .. Whole
  PROVE  LET s == Flushed(r, limit)
         IN /\ s \in Response
            /\ s.hdr = r.hdr /\ s.out = r.out /\ s.copied = r.copied /\ s.head = r.head
            /\ s.body = r.body
            /\ s.seen = Len(r.body) /\ s.held = 0 /\ s.limit = limit
  <1>1. Len(r.body) \in Nat
    BY DEF Response
  <1> QED BY <1>1 DEF Response, Flushed

(* After a flush no layer holds anything; a text response stays legible if *)
(* the flush fell on the end of a quantum.                                 *)
LEMMA FlushFields ==
  ASSUME NEW r \in Response, r.seen <= Whole
  PROVE  LET s == Flush(r)
         IN /\ s \in Response
            /\ s.hdr = r.hdr /\ s.out = r.out /\ s.copied = r.copied
            /\ s.head = HeadOf(r) /\ s.head # Unsent
            /\ s.body = r.body /\ s.seen = Len(r.body) /\ s.held = 0
            /\ req.kind # "text" \/ r.held % 3 = 0 => s.limit = r.limit
  <1> DEFINE c == Commit(r, 200)
             l == IF req.kind = "text" /\ r.limit = Whole /\ r.held % 3 # 0
                    THEN r.seen ELSE r.limit
  <1>1. 200 \in Code
    BY DEF Code
  <1>2. SameBody(r, c) /\ c \in Response /\ c.hdr = r.hdr /\ c.out = r.out
        /\ c.copied = r.copied /\ c.head = HeadOf(r) /\ c.head # Unsent
    BY <1>1, CommitFields, KeyFacts
  <1>3. r.seen \in 0 .. Whole
    BY KeyFacts DEF Response
  <1>4. l \in 0 .. Whole
    BY <1>3 DEF Response
  <1>5. req.kind # "text" \/ r.held % 3 = 0 => l = r.limit
    OBVIOUS
  <1>6. Flush(r) = Flushed(c, l)
    <2> DEFINE k == IF req.kind = "text" /\ c.limit = Whole /\ r.held % 3 # 0
                      THEN r.seen ELSE c.limit
    <2>1. k = l /\ Len(c.body) = Len(r.body)
      BY <1>2 DEF SameBody
    <2>2. Flush(r) = [c EXCEPT !.seen = Len(r.body), !.held = 0, !.limit = k]
      BY Zenon DEF Flush
    <2>3. Flush(r) = [c EXCEPT !.seen = Len(c.body), !.held = 0, !.limit = l]
      BY <2>1, <2>2, Zenon
    <2> QED BY <2>3, Zenon DEF Flushed
  <1> HIDE DEF c, l
  <1> QED BY <1>2, <1>4, <1>5, <1>6, FlushedFields DEF SameBody

(* The proxy's own answer: the status is set after the headers were sent.  *)
LEMMA GrpcStatusFields ==
  ASSUME NEW r \in Response, req \in Requests, Native => r.out = r.hdr, r.head = Unsent,
         r.hdr["status"] = <<>>, r.out["status"] = <<>>
  PROVE  LET s == GrpcStatus(r)
         IN /\ s \in Response
            /\ s.head # Unsent /\ s.head["status"] = <<>>
            /\ s.hdr["status"] = <<"proxy">>
            /\ Native => s.out = s.hdr /\ s.head["trailer"] = r.hdr["trailer"]
            /\ ~Native => /\ s.out["status"] = <<>>
                          /\ r.hdr["encoding"] # <<>> => s.head["encoding"] = r.hdr["encoding"]
            /\ SameBody(r, s)
  <1> DEFINE h0 == [r.hdr EXCEPT !["type"] = <<"grpc">>]
             r0 == WithHeaders(r, h0)
             r1 == WriteHeader(r0, 200)
             h1 == [r1.hdr EXCEPT !["status"] = Append(@, "proxy")]
  <1>0. r.hdr \in Headers /\ r.out \in Headers
    BY DEF Response
  <1>1. h0 \in Headers /\ \A k \in Key \ {"type"} : h0[k] = r.hdr[k]
    BY <1>0, KeyFacts DEF Headers, Value
  <1> HIDE DEF h0
  <1>2. /\ r0 \in Response /\ r0.hdr = h0 /\ r0.head = Unsent
        /\ r0.out = (IF Native THEN h0 ELSE r.out)
        /\ SameBody(r, r0)
    BY <1>1, WithHeadersFields
  <1> HIDE DEF r0
  <1>3. /\ r1 \in Response /\ r1.head # Unsent /\ r1.head = r1.out
        /\ \A k \in Key \ {"type"} : r1.hdr[k] = h0[k]
        /\ Native => r1.out = r1.hdr
        /\ ~Native => \A k \in Key \ {"type", "trailer"} :
                        r1.out[k] = IF h0[k] = <<>> THEN r.out[k] ELSE h0[k]
        /\ SameBody(r0, r1)
    BY <1>2, WriteHeaderFields DEF Code
  <1>4. GrpcStatus(r) = WithHeaders(r1, h1)
    BY DEF GrpcStatus, r0, h0
  <1> HIDE DEF r1
  <1>5. r1.hdr \in Headers
    BY <1>3 DEF Response
  <1>6. r1.hdr["status"] = <<>> /\ r1.out["status"] = <<>>
    BY <1>1, <1>3, KeyFacts
  <1>7. h1 \in Headers /\ h1["status"] = <<"proxy">>
    BY <1>5, <1>6, KeyFacts DEF Headers, Value
  <1> HIDE DEF h1
  <1>8. LET s == WithHeaders(r1, h1)
        IN /\ s \in Response
           /\ s.hdr = h1 /\ s.out = (IF Native THEN h1 ELSE r1.out)
           /\ s.head = r1.head
           /\ SameBody(r1, s)
    BY <1>3, <1>7, WithHeadersFields
  <1>9. /\ Native => r1.head["trailer"] = r.hdr["trailer"]
        /\ ~Native /\ r.hdr["encoding"] # <<>> => r1.head["encoding"] = r.hdr["encoding"]
    BY <1>1, <1>3, KeyFacts
  <1> QED BY <1>2, <1>3, <1>4, <1>6, <1>7, <1>8, <1>9 DEF SameBody

(* The keys that Finish puts into the frame.                               *)
FrameKeys(r) ==
  [k \in Key |-> IF r.out[k] # <<>> \/ k = "trailer" THEN <<>> ELSE r.hdr[k]]

Frame(r, n) == [what |-> "trailer", size |-> n, keys |-> FrameKeys(r)]

LEMMA FinishFields ==
  ASSUME NEW r \in Response, NEW n \in Sizes,
         Len(r.body) <= MaxChunks, r.seen = Len(r.body), r.held = 0
  PROVE  LET s == Finish(r, n)
         IN /\ s \in Response
            /\ s.hdr = r.hdr /\ s.out = r.out
            /\ s.head = HeadOf(r) /\ s.head # Unsent
            /\ s.seen = Len(s.body)
            /\ \/ /\ s.body = r.body /\ s.limit = r.limit
                  /\ \A k \in Key : FrameKeys(r)[k] = <<>>
               \/ /\ s.body = Append(r.body, Frame(r, n))
                  /\ req.kind # "text" \/ n % 3 = 0 => s.limit = r.limit
  <1> DEFINE t == FrameKeys(r)
             i == InnerWrite(r, Frame(r, n))
  <1>0. r.seen <= Whole /\ n \in Nat
    BY KeyFacts, RequestAssumption DEF Response
  <1>1. t \in Headers
    BY DEF FrameKeys, Headers, Response
  <1>2. Frame(r, n) \in Piece /\ Frame(r, n).size = n
    BY <1>0, <1>1 DEF Frame, Piece
  <1>3. Finish(r, n) = Flush(IF Present(t) = {} THEN r ELSE i)
    BY DEF Finish, FrameKeys, Frame, Present
  <1>4. CASE Present(t) = {}
    <2>1. Finish(r, n) = Flush(r)
      BY <1>3, <1>4
    <2>2. \A k \in Key : t[k] = <<>>
      BY <1>4 DEF Present
    <2>3. r.held % 3 = 0
      OBVIOUS
    <2>4. LET s == Flush(r)
          IN /\ s \in Response
             /\ s.hdr = r.hdr /\ s.out = r.out
             /\ s.head = HeadOf(r) /\ s.head # Unsent
             /\ s.body = r.body /\ s.seen = Len(r.body)
             /\ s.limit = r.limit
      BY <1>0, <2>3, FlushFields
    <2> HIDE DEF t
    <2> QED BY <2>1, <2>2, <2>4 DEF t
  <1>5. CASE Present(t) # {}
    <2>1. Finish(r, n) = Flush(i)
      BY <1>3, <1>5
    <2>2. /\ i \in Response
          /\ i.hdr = r.hdr /\ i.out = r.out
          /\ i.head = HeadOf(r) /\ i.head # Unsent
          /\ i.body = Append(r.body, Frame(r, n)) /\ i.limit = r.limit
          /\ i.seen = r.seen /\ i.held = r.held + n
      BY <1>2, InnerWriteFields
    <2> HIDE DEF i, t
    <2>3. i.held = n /\ i.seen <= Whole
      BY <1>0, <2>2
    <2>4. LET s == Flush(i)
          IN /\ s \in Response
             /\ s.hdr = i.hdr /\ s.out = i.out
             /\ s.head = HeadOf(i) /\ s.head # Unsent
             /\ s.body = i.body /\ s.seen = Len(i.body)
             /\ req.kind # "text" \/ i.held % 3 = 0 => s.limit = i.limit
      BY <2>2, <2>3, FlushFields
    <2> QED BY <2>1, <2>2, <2>3, <2>4 DEF HeadOf
  <1> QED BY <1>4, <1>5

LEMMA ReturnedFields ==
  ASSUME NEW r \in Response
  PROVE  LET s == Returned(r)
         IN /\ s \in Response
            /\ s.hdr = r.hdr /\ s.out = r.out
            /\ s.head = HeadOf(r) /\ s.head # Unsent
            /\ s.body = r.body /\ s.limit = r.limit
            /\ s.seen \in {r.seen, Len(r.body)}
            /\ Native => s.seen = Len(r.body)
  <1> DEFINE c == Commit(r, 200)
             n == IF Zipped \/ req.kind = "text" THEN r.seen ELSE Len(r.body)
  <1>1. SameBody(r, c) /\ c \in Response /\ c.hdr = r.hdr /\ c.out = r.out
        /\ c.head = HeadOf(r) /\ c.head # Unsent
    BY CommitFields, KeyFacts DEF Code
  <1>2. n \in Nat /\ n \in {r.seen, Len(r.body)} /\ (Native => n = Len(r.body))
    BY DEF Response, Zipped, Native
  <1>3. Returned(r) = [c EXCEPT !.seen = n]
    BY <1>1 DEF Returned, SameBody
  <1> HIDE DEF c, n
  <1> QED BY <1>1, <1>2, <1>3 DEF Response, SameBody

-----------------------------------------------------------------------------
(* The steps.                                                              *)

LEMMA InitIInv == Init => IInv
  <1> SUFFICES ASSUME Init PROVE IInv
    OBVIOUS
  <1>1. /\ w.hdr = NoHeaders /\ w.out = NoHeaders /\ ~w.copied /\ w.head = Unsent
        /\ w.body = <<>> /\ w.seen = 0 /\ w.held = 0 /\ w.limit = Whole
    BY DEF Init
  <1>2. w \in Response
    BY KeyFacts DEF Init, Response, Code
  <1>3. NoHeaders \in [Key -> {<<>>, <<"up">>}]
    BY DEF NoHeaders
  <1>4. Types
    BY <1>2, <1>3 DEF Init, Types, NoResponse
  <1>5. WriterIdle
    BY <1>1, RequestAssumption DEF WriterIdle
  <1>6. HandlerConsistent
    BY <1>1 DEF Init, HandlerConsistent, Untouched
  <1>7. FrameIsLast
    BY <1>1 DEF FrameIsLast
  <1>8. NothingHeldBack
    BY <1>1 DEF Init, NothingHeldBack
  <1> QED BY <1>4, <1>5, <1>6, <1>7, <1>8
          DEF Init, IInv, OneStatusPerCall, FailuresStayVisible, MetadataArrives

(* While the handler runs, the rest follows from what the writers hold.    *)
LEMMA Midway ==
  ASSUME Types', WriterIdle', HandlerConsistent', pc' # "done"
  PROVE  IInv'
  BY DEF IInv, Types, Response, WriterIdle, FrameIsLast, OneStatusPerCall,
         FailuresStayVisible, MetadataArrives, NothingHeldBack

LEMMA RouteStep == IInv /\ Route => IInv'
  <1> SUFFICES ASSUME IInv, Route PROVE IInv'
    OBVIOUS
  <1>1. /\ UNCHANGED <<req, disabled, gone, w, up, outcome>>
        /\ pc = "route" /\ pc' \in {"internal", "forward"}
    BY DEF Route, Goto
  <1>2. Native' = Native /\ Legible' = Legible /\ Announced' = Announced
    BY <1>1 DEF Native, Legible, Announced, Zipped
  <1>3. Types'
    BY <1>1 DEF IInv, Types, Whole
  <1>4. WriterIdle'
    BY <1>1, <1>2 DEF IInv, WriterIdle
  <1>5. Untouched(Announced) /\ outcome = "pending"
    BY <1>1 DEF IInv, HandlerConsistent
  <1>6. Untouched(Announced)'
    BY <1>1, <1>2, <1>5 DEF Untouched
  <1>7. pc' = "internal" => Internal'
    BY <1>1 DEF Route, Goto, Internal
  <1>8. HandlerConsistent'
    BY <1>1, <1>5, <1>6, <1>7 DEF HandlerConsistent, Untouched
  <1> QED BY <1>1, <1>3, <1>4, <1>8, Midway

LEMMA BrokenStep == IInv /\ (DoFails \/ CopyFails) => IInv'
  <1> SUFFICES ASSUME IInv, DoFails \/ CopyFails PROVE IInv'
    OBVIOUS
  <1>1. /\ UNCHANGED <<req, disabled, gone, w, up>>
        /\ pc = "forward" \/ (pc = "copy" /\ ~HeadersOnly)
        /\ pc' = "finish" /\ outcome' = "broken"
    BY DEF DoFails, CopyFails, Answered, Goto
  <1>2. Native' = Native /\ Legible' = Legible
    BY <1>1 DEF Native, Legible
  <1>3. Types'
    BY <1>1 DEF IInv, Types, Whole
  <1>4. WriterIdle'
    BY <1>1, <1>2 DEF IInv, WriterIdle
  <1>5. w.hdr["status"] = <<>> /\ HeadOf(w)["status"] = <<>>
    <2>1. CASE pc = "forward"
      BY <2>1, AnnouncedFacts, KeyFacts DEF IInv, HandlerConsistent, Untouched, HeadOf
    <2>2. CASE pc = "copy" /\ ~HeadersOnly
      BY <2>2 DEF IInv, HandlerConsistent, Forwarding, HeadersPassedOn, HeadOf, HeadersOnly
    <2> QED BY <1>1, <2>1, <2>2
  <1>6. HandlerConsistent'
    BY <1>1, <1>5 DEF HandlerConsistent, Answering, HeadOf
  <1> QED BY <1>1, <1>3, <1>4, <1>6, Midway

LEMMA LeavesStep == IInv /\ ClientLeaves => IInv'
  <1> SUFFICES ASSUME IInv, ClientLeaves PROVE IInv'
    OBVIOUS
  <1>1. UNCHANGED <<req, disabled, pc, w, up, outcome>> /\ gone' = TRUE /\ pc # "done"
    BY DEF ClientLeaves
  <1>2. Native' = Native /\ Legible' = Legible /\ Announced' = Announced
    BY <1>1 DEF Native, Legible, Announced, Zipped
  <1>3. Types'
    BY <1>1 DEF IInv, Types, Whole
  <1>4. WriterIdle'
    BY <1>1, <1>2 DEF IInv, WriterIdle
  <1>5. HandlerConsistent'
    BY <1>1, <1>2 DEF IInv, HandlerConsistent, Untouched, Streaming, StatusAnnounced,
       EncodingSent, Zipped, Internal, Forwarding, HeadersPassedOn, HeadersOnly, Answering,
       HeadOf
  <1> QED BY <1>1, <1>3, <1>4, <1>5, Midway

LEMMA RejectStep == IInv /\ Reject => IInv'
  <1> SUFFICES ASSUME IInv, Reject PROVE IInv'
    OBVIOUS
  <1>1. /\ UNCHANGED <<req, disabled, gone, up>>
        /\ pc = "start" /\ pc' = "done" /\ outcome' = "rejected"
        /\ w' = Commit(w, IF req.post THEN 400 ELSE 405)
    BY DEF Reject, Goto
  <1>2. w \in Response /\ w.seen = 0 /\ w.body = <<>> /\ (Legible => w.limit = Whole)
    BY <1>1 DEF IInv, Types, WriterIdle, HandlerConsistent, Untouched
  <1>3. w' \in Response /\ SameBody(w, w')
    BY <1>1, <1>2, CommitFields DEF Code
  <1>4. Types'
    BY <1>1, <1>3 DEF IInv, Types, Response, Whole
  <1>5. WriterIdle' /\ HandlerConsistent'
    BY <1>1 DEF WriterIdle, HandlerConsistent
  <1>6. w'.body = <<>> /\ w'.seen = 0
    BY <1>2, <1>3 DEF SameBody
  <1>7. FrameIsLast'
    BY <1>6 DEF FrameIsLast
  <1>8. NothingHeldBack'
    BY <1>3, <1>6 DEF NothingHeldBack, Response
  <1> QED BY <1>1, <1>4, <1>5, <1>7, <1>8
          DEF IInv, OneStatusPerCall, FailuresStayVisible, MetadataArrives

LEMMA BeginStep == IInv /\ Begin => IInv'
  <1> SUFFICES ASSUME IInv, Begin PROVE IInv'
    OBVIOUS
  <1>1. /\ UNCHANGED <<req, disabled, gone, up, outcome>>
        /\ pc = "start" /\ pc' = "route"
        /\ w' = WithHeaders(w, Announced)
    BY DEF Begin, Goto, Announced
  <1>2. Native' = Native /\ Announced' = Announced /\ req.kind' = req.kind /\ req.gzip' = req.gzip
    BY <1>1 DEF Native, Announced, Zipped
  <1>3. /\ w \in Response /\ Untouched(NoHeaders) /\ outcome = "pending"
        /\ w.seen = 0 /\ w.held = 0 /\ (Legible => w.limit = Whole)
    BY <1>1 DEF IInv, Types, WriterIdle, HandlerConsistent, Untouched
  <1>4. /\ w' \in Response
        /\ w'.hdr = Announced /\ w'.out = (IF Native THEN Announced ELSE w.out)
        /\ w'.head = w.head /\ w'.copied = w.copied
        /\ SameBody(w, w')
    BY <1>1, <1>3, AnnouncedFacts, WithHeadersFields
  <1>5. Types'
    BY <1>1, <1>4 DEF IInv, Types, Response, Whole
  <1>6. w'.body = <<>> /\ w'.body = w.body /\ w'.seen = 0 /\ w'.held = 0 /\ w'.limit = w.limit
    BY <1>3, <1>4 DEF SameBody, Untouched
  <1>7. Legible' = Legible
    BY <1>1, <1>6 DEF Legible
  <1>8. WriterIdle'
    BY <1>2, <1>3, <1>4, <1>6, <1>7, RequestAssumption DEF WriterIdle, Whole
  <1>9. Untouched(Announced)'
    BY <1>1, <1>2, <1>3, <1>4, <1>6 DEF Untouched
  <1>10. HandlerConsistent'
    BY <1>1, <1>3, <1>9 DEF HandlerConsistent
  <1> QED BY <1>1, <1>5, <1>8, <1>10, Midway

LEMMA UnimplementedStep == IInv /\ Unimplemented => IInv'
  <1> SUFFICES ASSUME IInv, Unimplemented PROVE IInv'
    OBVIOUS
  <1>1. /\ UNCHANGED <<req, disabled, gone, up>>
        /\ pc = "route" /\ pc' = "finish" /\ outcome' = "proxy"
        /\ w' = GrpcStatus(w)
    BY DEF Unimplemented, Answered, Goto
  <1>2. Native' = Native
    BY <1>1 DEF Native
  <1>3. /\ w \in Response /\ Untouched(Announced) /\ req \in Requests
        /\ w.seen = 0 /\ w.held = 0 /\ (Legible => w.limit = Whole)
    BY <1>1 DEF IInv, Types, WriterIdle, HandlerConsistent, Untouched
  <1>4. /\ Native => w.out = w.hdr
        /\ w.head = Unsent /\ w.body = <<>>
        /\ w.hdr["status"] = <<>> /\ w.out["status"] = <<>>
        /\ w.hdr["trailer"] = <<"status">>
    BY <1>3, AnnouncedFacts, KeyFacts DEF Untouched
  <1>5. /\ w' \in Response
        /\ w'.head # Unsent /\ w'.head["status"] = <<>>
        /\ w'.hdr["status"] = <<"proxy">>
        /\ Native => w'.out = w'.hdr /\ w'.head["trailer"] = w.hdr["trailer"]
        /\ ~Native => /\ w'.out["status"] = <<>>
                      /\ w.hdr["encoding"] # <<>> => w'.head["encoding"] = w.hdr["encoding"]
        /\ SameBody(w, w')
    BY <1>1, <1>3, <1>4, GrpcStatusFields
  <1>6. Types'
    BY <1>1, <1>5 DEF IInv, Types, Response, Whole
  <1>7. w'.body = <<>> /\ w'.body = w.body /\ w'.seen = 0 /\ w'.held = 0 /\ w'.limit = w.limit
    BY <1>3, <1>4, <1>5 DEF SameBody
  <1>8. Legible' = Legible
    BY <1>1, <1>7 DEF Legible
  <1>9. WriterIdle'
    BY <1>2, <1>3, <1>5, <1>7, <1>8, RequestAssumption DEF WriterIdle, Whole
  <1>10. StatusAnnounced'
    <2>1. Range(<<"status">>) = {"status"}
      BY DEF Range
    <2> QED BY <1>2, <1>4, <1>5, <2>1 DEF StatusAnnounced
  <1>11. EncodingSent'
    <2>1. Zipped => ~Native /\ w.hdr["encoding"] = <<"gzip">>
      BY <1>3, AnnouncedFacts DEF Untouched, Zipped
    <2> QED BY <1>1, <1>2, <1>5, <2>1 DEF EncodingSent, Zipped
  <1>12. HandlerConsistent'
    BY <1>1, <1>2, <1>5, <1>10, <1>11 DEF HandlerConsistent, Answering
  <1> QED BY <1>1, <1>6, <1>9, <1>12, Midway

(* Header maps of the upstream, and what adding them does.                 *)
LEMMA UpstreamFields ==
  ASSUME NEW h \in Headers, NEW ms \in SUBSET (Meta \cup {"status"})
  PROVE  /\ Values(ms) \in [Key -> {<<>>, <<"up">>}] /\ Values(ms) \in Headers
         /\ \A k \in Key : Values(ms)[k] = IF k \in ms THEN <<"up">> ELSE <<>>
         /\ [Values(ms) EXCEPT !["type"] = <<"grpc">>] \in UpHeaders \cap Headers
         /\ \A k \in Key \ {"type"} :
              [Values(ms) EXCEPT !["type"] = <<"grpc">>][k] = Values(ms)[k]
  <1>1. <<"up">> \in Seq(Value) /\ <<"grpc">> \in Seq(Value) /\ <<>> \in Seq(Value)
    BY DEF Value
  <1>2. /\ Values(ms) \in [Key -> {<<>>, <<"up">>}] /\ Values(ms) \in Headers
        /\ \A k \in Key : Values(ms)[k] = IF k \in ms THEN <<"up">> ELSE <<>>
    BY <1>1 DEF Values, Headers
  <1> QED BY <1>1, <1>2, KeyFacts DEF Headers, UpHeaders

LEMMA MergedFields ==
  ASSUME NEW own \in Headers, NEW more \in Headers
  PROVE  /\ Merged(own, more) \in Headers
         /\ \A k \in Key : /\ Merged(own, more)[k] = own[k] \o more[k]
                           /\ own[k] = <<>> => Merged(own, more)[k] = more[k]
                           /\ more[k] = <<>> => Merged(own, more)[k] = own[k]
  <1>1. \A k \in Key : own[k] \in Seq(Value) /\ more[k] \in Seq(Value)
    BY DEF Headers
  <1>2. \A s, t \in Seq(Value) : /\ s \o t \in Seq(Value)
                                 /\ <<>> \o t = t /\ s \o <<>> = s
    OBVIOUS
  <1>3. Merged(own, more) \in Headers /\ \A k \in Key : Merged(own, more)[k] = own[k] \o more[k]
    BY <1>1, <1>2 DEF Merged, Headers
  <1> QED BY <1>1, <1>2, <1>3

LEMMA AddedToAnnounced ==
  ASSUME NEW more \in Headers, more["trailer"] = <<>>, more["encoding"] = <<>>
  PROVE  /\ Merged(Announced, more) \in Headers
         /\ Merged(Announced, more)["trailer"] = <<"status">>
         /\ Merged(Announced, more)["encoding"] = Announced["encoding"]
         /\ \A k \in Meta \cup {"status"} : Merged(Announced, more)[k] = more[k]
  <1> DEFINE m == Merged(Announced, more)
  <1>1. /\ m \in Headers
        /\ \A k \in Key : /\ Announced[k] = <<>> => m[k] = more[k]
                          /\ more[k] = <<>> => m[k] = Announced[k]
    BY AnnouncedFacts, MergedFields
  <1> HIDE DEF m
  <1>2. /\ m["trailer"] = <<"status">> /\ m["encoding"] = Announced["encoding"]
        /\ \A k \in Meta \cup {"status"} : m[k] = more[k]
    BY <1>1, AnnouncedFacts, KeyFacts
  <1> QED BY <1>1, <1>2 DEF m

LEMMA RespondStep == IInv /\ Respond => IInv'
  <1> SUFFICES ASSUME IInv, Respond PROVE IInv'
    OBVIOUS
  <1>1. PICK ms \in SUBSET (Meta \cup {"status"}), code \in {200, 502} :
          LET h == [Values(ms) EXCEPT !["type"] = <<"grpc">>]
          IN /\ up' = [up EXCEPT !.header = h]
             /\ w' = WriteHeader(WithHeaders(w, Merged(w.hdr, h)), code)
             /\ IF code = 200 THEN Goto("copy") /\ UNCHANGED outcome
                              ELSE Answered("refused")
    BY DEF Respond
  <1> DEFINE got == [Values(ms) EXCEPT !["type"] = <<"grpc">>]
             m == Merged(w.hdr, got)
             r == WithHeaders(w, m)
  <1>2. /\ pc = "forward" /\ UNCHANGED <<req, disabled, gone>>
        /\ \/ pc' = "copy" /\ outcome' = outcome
           \/ pc' = "finish" /\ outcome' = "refused"
    BY <1>1 DEF Respond, Answered, Goto
  <1>3. Native' = Native
    BY <1>2 DEF Native
  <1>4. /\ w \in Response /\ Untouched(Announced) /\ outcome = "pending" /\ req \in Requests
        /\ w.seen = 0 /\ w.held = 0 /\ (Legible => w.limit = Whole)
    BY <1>2 DEF IInv, Types, WriterIdle, HandlerConsistent, Untouched
  <1>5. /\ got \in UpHeaders /\ got \in Headers
        /\ got["trailer"] = <<>> /\ got["encoding"] = <<>>
        /\ \A k \in Meta \cup {"status"} : got[k] \in {<<>>, <<"up">>}
    BY UpstreamFields, AnnouncedFacts, KeyFacts
  <1>6. up' = [header |-> got, trailer |-> NoHeaders]
    BY <1>1, <1>4 DEF Untouched, NoResponse
  <1> HIDE DEF got
  <1>7. /\ m \in Headers /\ m["trailer"] = <<"status">>
        /\ m["encoding"] = Announced["encoding"]
        /\ \A k \in Meta \cup {"status"} : m[k] = got[k]
    <2>1. m = Merged(Announced, got)
      BY <1>4 DEF Untouched
    <2> HIDE DEF m
    <2> QED BY <1>5, <2>1, AddedToAnnounced
  <1> HIDE DEF m
  <1>8. /\ r \in Response /\ r.hdr = m /\ r.head = Unsent
        /\ r.out = (IF Native THEN m ELSE NoHeaders)
        /\ SameBody(w, r)
    BY <1>4, <1>7, WithHeadersFields DEF Untouched
  <1> HIDE DEF r
  <1>9. w' = WriteHeader(r, code) /\ code \in Code
    BY <1>1 DEF r, m, got, Code
  <1>10. LET s == WriteHeader(r, code)
         IN /\ s \in Response
            /\ \A k \in Key \ {"type"} : s.hdr[k] = r.hdr[k]
            /\ Native => s.out = s.hdr
            /\ ~Native => /\ s.copied
                          /\ \A k \in Key \ {"type", "trailer"} :
                               s.out[k] = IF r.hdr[k] = <<>> THEN r.out[k] ELSE r.hdr[k]
            /\ s.head # Unsent
            /\ s.head = IF r.head = Unsent THEN s.out ELSE r.head
            /\ SameBody(r, s)
    BY <1>4, <1>8, <1>9, WriteHeaderFields
  <1>11. /\ w' \in Response /\ w'.head # Unsent /\ w'.head = w'.out
         /\ \A k \in Meta \cup {"status", "trailer"} : w'.hdr[k] = m[k]
         /\ Native => w'.out = w'.hdr
         /\ ~Native => w'.copied
         /\ \A k \in Meta \cup {"status"} : w'.head[k] = m[k]
         /\ Native => w'.head["trailer"] = m["trailer"]
         /\ Zipped => w'.head["encoding"] = <<"gzip">>
    <2>1. Zipped => ~Native /\ m["encoding"] = <<"gzip">>
      BY <1>7, AnnouncedFacts DEF Zipped
    <2> QED BY <1>8, <1>9, <1>10, <2>1, KeyFacts
  <1>12. w'.body = <<>> /\ w'.body = w.body /\ w'.seen = 0 /\ w'.held = 0 /\ w'.limit = w.limit
    BY <1>4, <1>8, <1>9, <1>10 DEF SameBody, Untouched
  <1>13. NoHeaders \in [Key -> {<<>>, <<"up">>}]
    BY DEF NoHeaders
  <1>14. Types'
    BY <1>2, <1>5, <1>6, <1>11, <1>13 DEF IInv, Types, Response, Whole
  <1>15. Legible' = Legible
    BY <1>2, <1>12 DEF Legible
  <1>16. WriterIdle'
    BY <1>3, <1>4, <1>11, <1>12, <1>15, RequestAssumption DEF WriterIdle, Whole
  <1>17. StatusAnnounced'
    <2>1. Range(<<"status">>) = {"status"}
      BY DEF Range
    <2> QED BY <1>3, <1>7, <1>11, <2>1 DEF StatusAnnounced
  <1>18. EncodingSent'
    BY <1>2, <1>3, <1>11 DEF EncodingSent, Zipped
  <1>19. up'.header = got /\ up'.header # Unsent /\ up'.trailer = NoHeaders
    BY <1>5, <1>6, KeyFacts
  <1>20. HeadersPassedOn'
    BY <1>3, <1>7, <1>11, <1>17, <1>19, <1>18 DEF HeadersPassedOn
  <1>21. outcome' = "pending" => Forwarding'
    BY <1>5, <1>7, <1>11, <1>12, <1>19, <1>20 DEF Forwarding
  <1>22. HandlerConsistent'
    BY <1>2, <1>4, <1>21 DEF HandlerConsistent, Answering
  <1> QED BY <1>2, <1>14, <1>16, <1>22, Midway

LEMMA CopyEndsStep == IInv /\ CopyEnds => IInv'
  <1> SUFFICES ASSUME IInv, CopyEnds PROVE IInv'
    OBVIOUS
  <1>1. PICK ks \in SUBSET (Meta \cup {"status"}) :
          /\ HeadersOnly => ks = {}
          /\ up' = [up EXCEPT !.trailer = Values(ks)]
          /\ w' = WithHeaders(w, Merged(w.hdr, Values(ks)))
          /\ Answered(IF HeadersOnly \/ "status" \in ks THEN "complete" ELSE "bare")
    BY DEF CopyEnds
  <1> DEFINE t == Values(ks)
             m == Merged(w.hdr, t)
  <1>2. /\ pc = "copy" /\ UNCHANGED <<req, disabled, gone>>
        /\ pc' = "finish"
        /\ outcome' = IF HeadersOnly \/ "status" \in ks THEN "complete" ELSE "bare"
    BY <1>1 DEF CopyEnds, Answered, Goto
  <1>3. Native' = Native
    BY <1>2 DEF Native
  <1>4. /\ w \in Response /\ w.hdr \in Headers /\ Forwarding
        /\ up \in [header : UpHeaders \cup {Unsent}, trailer : [Key -> {<<>>, <<"up">>}]]
    BY <1>2 DEF IInv, Types, HandlerConsistent, Response
  <1>6. /\ t \in [Key -> {<<>>, <<"up">>}] /\ t \in Headers
        /\ t["status"] = IF "status" \in ks THEN <<"up">> ELSE <<>>
    BY <1>4, UpstreamFields, KeyFacts
  <1>7. up' = [up EXCEPT !.trailer = t] /\ w' = WithHeaders(w, m)
    BY <1>1
  <1> HIDE DEF t
  <1>8. m \in Headers /\ \A k \in Meta \cup {"status"} : m[k] = up.header[k] \o t[k]
    <2>1. m \in Headers /\ \A k \in Key : m[k] = w.hdr[k] \o t[k]
      BY <1>4, <1>6, MergedFields
    <2> HIDE DEF m
    <2>2. \A k \in Meta \cup {"status"} : k \in Key /\ w.hdr[k] = up.header[k]
      BY <1>4, KeyFacts DEF Forwarding
    <2> QED BY <2>1, <2>2
  <1> HIDE DEF m
  <1>9. /\ w' \in Response
        /\ w'.hdr = m /\ w'.out = (IF Native THEN m ELSE w.out)
        /\ w'.head = w.head /\ w'.copied = w.copied
        /\ SameBody(w, w')
    BY <1>4, <1>7, <1>8, WithHeadersFields
  <1>10. up'.header = up.header /\ up'.trailer = t
    BY <1>4, <1>7
  <1>11. up' \in [header : UpHeaders \cup {Unsent}, trailer : [Key -> {<<>>, <<"up">>}]]
    BY <1>4, <1>6, <1>7
  <1>12. Types'
    BY <1>2, <1>9, <1>11 DEF IInv, Types, Response, Whole
  <1>13. Legible' = Legible
    BY <1>2, <1>9 DEF Legible, SameBody
  <1>14. WriterIdle'
    BY <1>2, <1>3, <1>9, <1>13 DEF IInv, WriterIdle, SameBody, Whole
  <1>15. HeadersPassedOn'
    BY <1>2, <1>3, <1>4, <1>9, <1>10
       DEF HeadersPassedOn, Forwarding, StatusAnnounced, EncodingSent, Zipped
  <1>16. /\ outcome' = "complete" =>
              \/ up'.header["status"] = <<>> /\ up'.trailer["status"] = <<"up">>
              \/ up'.header["status"] = <<"up">> /\ up'.trailer["status"] = <<>>
         /\ outcome' = "bare" =>
              up'.header["status"] = <<>> /\ up'.trailer["status"] = <<>>
    BY <1>1, <1>2, <1>4, <1>6, <1>10 DEF Forwarding, HeadersOnly
  <1>17. HandlerConsistent'
    BY <1>2, <1>8, <1>9, <1>10, <1>15, <1>16 DEF HandlerConsistent, Answering
  <1> QED BY <1>2, <1>12, <1>14, <1>17, Midway

(* A message written and flushed at once, by io.Copy or by the reflection  *)
(* service.                                                                *)
LEMMA WriteAndFlush ==
  ASSUME NEW r \in Response, NEW n \in Sizes, req \in Requests,
         Native => r.out = r.hdr, r.held = 0, r.seen = Len(r.body), Len(r.body) < MaxChunks
  PROVE  LET piece == [what |-> "data", size |-> n]
             s == Flush(Write(r, piece))
         IN /\ s \in Response
            /\ \A k \in Key \ {"type"} : s.hdr[k] = r.hdr[k]
            /\ Native => s.out = s.hdr
            /\ ~Native => /\ s.copied
                          /\ r.copied => s.out = r.out
                          /\ \A k \in Key \ {"type", "trailer"} :
                               ~r.copied =>
                                 s.out[k] = IF r.hdr[k] = <<>> THEN r.out[k] ELSE r.hdr[k]
            /\ s.head # Unsent
            /\ s.head = IF r.head = Unsent THEN s.out ELSE r.head
            /\ s.body = Append(r.body, piece)
            /\ s.seen = Len(s.body) /\ s.held = 0 /\ Len(s.body) <= MaxChunks
            /\ req.kind # "text" \/ n % 3 = 0 => s.limit = r.limit
  <1> DEFINE piece == [what |-> "data", size |-> n]
             x == Write(r, piece)
             s == Flush(x)
  <1>1. piece \in Piece /\ piece.size = n /\ n \in Nat
    BY RequestAssumption DEF Piece
  <1> HIDE DEF piece
  <1>2. /\ x \in Response
        /\ \A k \in Key \ {"type"} : x.hdr[k] = r.hdr[k]
        /\ Native => x.out = x.hdr
        /\ ~Native => /\ x.copied
                      /\ r.copied => x.out = r.out
                      /\ \A k \in Key \ {"type", "trailer"} :
                           ~r.copied =>
                             x.out[k] = IF r.hdr[k] = <<>> THEN r.out[k] ELSE r.hdr[k]
        /\ x.head # Unsent
        /\ x.head = IF r.head = Unsent THEN x.out ELSE r.head
        /\ x.body = Append(r.body, piece)
        /\ x.seen = r.seen /\ x.held = r.held + piece.size /\ x.limit = r.limit
    BY <1>1, WriteFields
  <1> HIDE DEF x
  <1>3. /\ Len(x.body) = Len(r.body) + 1 /\ Len(r.body) \in Nat
        /\ Len(x.body) <= MaxChunks /\ x.seen <= Whole
    BY <1>1, <1>2, KeyFacts, RequestAssumption DEF Response
  <1>4. x.held = n
    BY <1>1, <1>2
  <1>5. /\ s \in Response
        /\ s.hdr = x.hdr /\ s.out = x.out /\ s.copied = x.copied
        /\ s.head = HeadOf(x) /\ s.head # Unsent
        /\ s.body = x.body /\ s.seen = Len(x.body) /\ s.held = 0
        /\ req.kind # "text" \/ x.held % 3 = 0 => s.limit = x.limit
    BY <1>2, <1>3, FlushFields
  <1> HIDE DEF s
  <1>6. s.head = x.head
    BY <1>2, <1>5 DEF HeadOf
  <1>7. /\ s \in Response
        /\ \A k \in Key \ {"type"} : s.hdr[k] = r.hdr[k]
        /\ Native => s.out = s.hdr
        /\ ~Native => /\ s.copied
                      /\ r.copied => s.out = r.out
                      /\ \A k \in Key \ {"type", "trailer"} :
                           ~r.copied =>
                             s.out[k] = IF r.hdr[k] = <<>> THEN r.out[k] ELSE r.hdr[k]
        /\ s.head # Unsent
        /\ s.head = IF r.head = Unsent THEN s.out ELSE r.head
        /\ s.body = Append(r.body, piece)
    BY <1>2, <1>5, <1>6
  <1>8. /\ s.seen = Len(s.body) /\ s.held = 0 /\ Len(s.body) <= MaxChunks
        /\ req.kind # "text" \/ n % 3 = 0 => s.limit = r.limit
    BY <1>2, <1>3, <1>4, <1>5
  <1> QED BY <1>7, <1>8 DEF s, x, piece

(* One more message keeps the writers empty, and is legible only if the    *)
(* ones before it were and it ends with a quantum.                         *)
LEMMA OneMore ==
  ASSUME Types, WriterIdle, Types', req' = req, pc # "done",
         NEW n \in Sizes,
         w'.body = Append(w.body, [what |-> "data", size |-> n]),
         w'.seen = Len(w'.body), w'.held = 0, Len(w'.body) <= MaxChunks,
         w'.head # Unsent,
         Native => w'.out = w'.hdr,
         req.kind # "text" \/ n % 3 = 0 => w'.limit = w.limit
  PROVE  WriterIdle'
  <1> DEFINE piece == [what |-> "data", size |-> n]
  <1>1. /\ w.body \in Seq(Piece) /\ piece \in Piece
        /\ \A i \in DOMAIN w.body : w.body[i].what = "data"
        /\ Legible => w.limit = Whole
    BY RequestAssumption DEF Types, Response, WriterIdle, Piece
  <1>2. piece.what = "data" /\ piece.size = n
    OBVIOUS
  <1> HIDE DEF piece
  <1>3. w'.body = Append(w.body, piece)
    BY DEF piece
  <1>4. /\ DOMAIN w.body = 1 .. Len(w.body) /\ Len(w.body) \in Nat
        /\ DOMAIN w'.body = 1 .. Len(w.body) + 1
        /\ \A i \in 1 .. Len(w.body) : w'.body[i] = w.body[i]
        /\ w'.body[Len(w.body) + 1] = piece
    BY <1>1, <1>3
  <1>5. \A i \in DOMAIN w'.body : w'.body[i].what = "data"
    BY <1>1, <1>2, <1>4
  <1>6. Legible' => Legible /\ (req.kind # "text" \/ n % 3 = 0)
    <2> SUFFICES ASSUME Legible', req.kind = "text"
                 PROVE  Legible /\ n % 3 = 0
      BY DEF Legible
    <2>1. ~req.gzip /\ \A i \in DOMAIN w'.body : w'.body[i].size % 3 = 0
      BY DEF Legible
    <2>2. \A i \in DOMAIN w.body : w.body[i].size % 3 = 0
      BY <1>4, <1>5, <2>1
    <2>3. n % 3 = 0
      BY <1>2, <1>4, <1>5, <2>1
    <2> QED BY <2>1, <2>2, <2>3 DEF Legible
  <1>7. Legible' => w'.limit = Whole
    BY <1>1, <1>6
  <1> QED BY <1>5, <1>7 DEF WriterIdle, Native, Whole

LEMMA CopyChunkStep ==
  ASSUME NEW n \in Sizes
  PROVE  IInv /\ CopyChunk(n) => IInv'
  <1> SUFFICES ASSUME IInv, CopyChunk(n) PROVE IInv'
    OBVIOUS
  <1> DEFINE s == Flush(Write(w, [what |-> "data", size |-> n]))
  <1>1. /\ UNCHANGED <<req, disabled, pc, gone, up, outcome>>
        /\ pc = "copy" /\ ~HeadersOnly /\ Len(w.body) < MaxChunks
        /\ w' = s
    BY DEF CopyChunk, Goto
  <1> HIDE DEF s
  <1>2. /\ w \in Response /\ req \in Requests /\ Forwarding
        /\ Native => w.out = w.hdr
        /\ w.held = 0 /\ w.seen = Len(w.body)
    BY <1>1 DEF IInv, Types, WriterIdle, HandlerConsistent
  <1>3. /\ s \in Response
        /\ \A k \in Key \ {"type"} : s.hdr[k] = w.hdr[k]
        /\ Native => s.out = s.hdr
        /\ ~Native => s.copied /\ (w.copied => s.out = w.out)
        /\ s.head # Unsent
        /\ s.head = IF w.head = Unsent THEN s.out ELSE w.head
        /\ s.body = Append(w.body, [what |-> "data", size |-> n])
        /\ s.seen = Len(s.body) /\ s.held = 0 /\ Len(s.body) <= MaxChunks
        /\ req.kind # "text" \/ n % 3 = 0 => s.limit = w.limit
    BY <1>1, <1>2, WriteAndFlush DEF s
  <1>4. Types'
    BY <1>1, <1>3 DEF IInv, Types, Response, Whole
  <1>5. WriterIdle'
    BY <1>1, <1>3, <1>4, OneMore DEF IInv
  <1>6. w'.head = w.head /\ \A k \in Meta \cup {"status"} : w'.hdr[k] = w.hdr[k]
    BY <1>1, <1>2, <1>3, KeyFacts DEF Forwarding, HeadersPassedOn
  <1>7. HeadersPassedOn'
    BY <1>1, <1>2, <1>3, <1>6 DEF Forwarding, HeadersPassedOn, StatusAnnounced,
       EncodingSent, Zipped, Native
  <1>8. Forwarding'
    BY <1>1, <1>2, <1>6, <1>7 DEF Forwarding, HeadersOnly
  <1>9. HandlerConsistent'
    BY <1>1, <1>8 DEF HandlerConsistent
  <1> QED BY <1>1, <1>4, <1>5, <1>9, Midway

(* The headers of grpc's handler transport: no status among them.          *)
LEMMA InternalHeadersFields ==
  ASSUME NEW r \in Response, Native => r.out = r.hdr
  PROVE  LET s == InternalHeaders(r)
         IN /\ s \in Response
            /\ s.hdr["status"] = r.hdr["status"] /\ s.hdr["encoding"] = r.hdr["encoding"]
            /\ Native => s.out = s.hdr
            /\ ~Native => s.out = r.out
            /\ s.head = r.head /\ s.copied = r.copied
            /\ SameBody(r, s)
            /\ r.body = <<>> => "status" \in Range(s.hdr["trailer"])
  <1>1. CASE r.body # <<>>
    BY <1>1 DEF InternalHeaders, SameBody
  <1>2. CASE r.body = <<>>
    <2> DEFINE line == Append(r.hdr["trailer"], "status")
               h == [r.hdr EXCEPT !["type"] = <<"grpc">>, !["trailer"] = line]
               s == WithHeaders(r, h)
    <2>1. r.hdr \in Headers /\ r.hdr["trailer"] \in Seq(Value)
      BY KeyFacts DEF Response, Headers
    <2>2. <<"grpc">> \in Seq(Value) /\ "status" \in Value
      BY DEF Value
    <2>3. line \in Seq(Value)
      BY <2>1, <2>2
    <2>4. "status" \in Range(line)
      <3>1. Len(line) \in DOMAIN line /\ line[Len(line)] = "status"
        BY <2>1, <2>2
      <3> HIDE DEF line
      <3> QED BY <3>1 DEF Range
    <2>5. InternalHeaders(r) = s
      BY <1>2, <2>1 DEF InternalHeaders, Headers
    <2> HIDE DEF line
    <2>6. /\ h \in Headers /\ h["trailer"] = line
          /\ h["status"] = r.hdr["status"] /\ h["encoding"] = r.hdr["encoding"]
      BY <2>1, <2>2, <2>3, KeyFacts DEF Headers
    <2> HIDE DEF h
    <2>7. /\ s \in Response
          /\ s.hdr = h /\ s.out = (IF Native THEN h ELSE r.out)
          /\ s.head = r.head /\ s.copied = r.copied
          /\ SameBody(r, s)
      BY <2>6, WithHeadersFields
    <2> HIDE DEF s
    <2> QED BY <2>4, <2>5, <2>6, <2>7
  <1> QED BY <1>1, <1>2

(* What both steps of the reflection service start from.                   *)
LEMMA InternalStart ==
  ASSUME Types, WriterIdle, HandlerConsistent, pc = "internal"
  PROVE  /\ w \in Response /\ req \in Requests
         /\ Native => w.out = w.hdr
         /\ w.held = 0 /\ w.seen = Len(w.body) /\ Len(w.body) <= MaxChunks
         /\ w.hdr["status"] = <<>>
         /\ ~Native => w.out["status"] = <<>>
         /\ w.head = Unsent =>
              w.body = <<>> /\ ~w.copied /\ (Zipped => w.hdr["encoding"] = <<"gzip">>)
         /\ w.head # Unsent => /\ w.head["status"] = <<>> /\ StatusAnnounced /\ EncodingSent
                               /\ ~Native => w.copied
  BY AnnouncedFacts, KeyFacts DEF Types, WriterIdle, HandlerConsistent, Untouched, Streaming

LEMMA InternalReplyStep ==
  ASSUME NEW n \in Sizes
  PROVE  IInv /\ InternalReply(n) => IInv'
  <1> SUFFICES ASSUME IInv, InternalReply(n) PROVE IInv'
    OBVIOUS
  <1> DEFINE r == InternalHeaders(w)
             s == Flush(Write(r, [what |-> "data", size |-> n]))
  <1>1. /\ UNCHANGED <<req, disabled, pc, gone, up, outcome>>
        /\ pc = "internal" /\ Len(w.body) < MaxChunks
        /\ w' = s
    BY DEF InternalReply, Goto
  <1>2. /\ w \in Response /\ req \in Requests
        /\ Native => w.out = w.hdr
        /\ w.held = 0 /\ w.seen = Len(w.body)
        /\ w.hdr["status"] = <<>>
        /\ ~Native => w.out["status"] = <<>>
        /\ w.head = Unsent =>
             w.body = <<>> /\ ~w.copied /\ (Zipped => w.hdr["encoding"] = <<"gzip">>)
        /\ w.head # Unsent => /\ w.head["status"] = <<>> /\ StatusAnnounced /\ EncodingSent
                              /\ ~Native => w.copied
    BY <1>1, InternalStart DEF IInv
  <1>3. /\ r \in Response
        /\ r.hdr["status"] = w.hdr["status"] /\ r.hdr["encoding"] = w.hdr["encoding"]
        /\ Native => r.out = r.hdr
        /\ ~Native => r.out = w.out
        /\ r.head = w.head /\ r.copied = w.copied
        /\ SameBody(w, r)
        /\ w.body = <<>> => "status" \in Range(r.hdr["trailer"])
    BY <1>2, InternalHeadersFields
  <1> HIDE DEF r
  <1>4. r.held = 0 /\ r.body = w.body /\ r.limit = w.limit /\ r.seen = w.seen
    BY <1>2, <1>3 DEF SameBody
  <1>5. /\ s \in Response
        /\ \A k \in Key \ {"type"} : s.hdr[k] = r.hdr[k]
        /\ Native => s.out = s.hdr
        /\ ~Native => /\ s.copied
                      /\ r.copied => s.out = r.out
                      /\ \A k \in Key \ {"type", "trailer"} :
                           ~r.copied =>
                             s.out[k] = IF r.hdr[k] = <<>> THEN r.out[k] ELSE r.hdr[k]
        /\ s.head # Unsent
        /\ s.head = IF r.head = Unsent THEN s.out ELSE r.head
        /\ s.body = Append(r.body, [what |-> "data", size |-> n])
        /\ s.seen = Len(s.body) /\ s.held = 0 /\ Len(s.body) <= MaxChunks
        /\ req.kind # "text" \/ n % 3 = 0 => s.limit = r.limit
    BY <1>1, <1>2, <1>3, <1>4, WriteAndFlush
  <1> HIDE DEF s
  <1>6. Types'
    BY <1>1, <1>5 DEF IInv, Types, Response, Whole
  <1>7. WriterIdle'
    BY <1>1, <1>4, <1>5, <1>6, OneMore DEF IInv
  <1>8. /\ s.hdr["status"] = <<>>
        /\ s.hdr["trailer"] = r.hdr["trailer"]
        /\ ~Native => s.out["status"] = <<>>
    BY <1>2, <1>3, <1>5, KeyFacts
  <1>9. s.head["status"] = <<>>
    BY <1>2, <1>3, <1>5, <1>8
  <1>10. Native => "status" \in Range(s.head["trailer"])
    BY <1>2, <1>3, <1>5, <1>8 DEF StatusAnnounced
  <1>11. Zipped => s.head["encoding"] = <<"gzip">>
    <2>1. CASE w.head = Unsent /\ Zipped
      <3>1. r.hdr["encoding"] = <<"gzip">> /\ ~r.copied /\ ~Native
        BY <1>2, <1>3, <2>1 DEF Zipped
      <3>2. "encoding" \in Key \ {"type", "trailer"} /\ <<"gzip">> # <<>>
        BY KeyFacts
      <3>3. s.out["encoding"] = <<"gzip">>
        BY <1>5, <3>1, <3>2
      <3> QED BY <1>3, <1>5, <2>1, <3>3
    <2>2. CASE w.head # Unsent
      BY <1>2, <1>3, <1>5, <2>2 DEF EncodingSent
    <2> QED BY <2>1, <2>2
  <1>12. s.body # <<>>
    BY <1>3, <1>5 DEF Response
  <1>13. Streaming'
    BY <1>1, <1>5, <1>8, <1>9, <1>10, <1>11, <1>12
       DEF Streaming, StatusAnnounced, EncodingSent, Zipped, Native
  <1>14. Internal'
    BY <1>1 DEF IInv, HandlerConsistent, Internal
  <1>15. HandlerConsistent'
    BY <1>1, <1>13, <1>14 DEF HandlerConsistent
  <1> QED BY <1>1, <1>6, <1>7, <1>15, Midway

LEMMA InternalEndStep == IInv /\ InternalEnd => IInv'
  <1> SUFFICES ASSUME IInv, InternalEnd PROVE IInv'
    OBVIOUS
  <1> DEFINE r == InternalHeaders(w)
             f == Flush(r)
             h == [f.hdr EXCEPT !["status"] = <<"proxy">>]
  <1>1. /\ UNCHANGED <<req, disabled, gone, up>>
        /\ pc = "internal" /\ pc' = "finish" /\ outcome' = "proxy"
        /\ w' = WithHeaders(f, h)
    BY DEF InternalEnd, Answered, Goto
  <1>2. /\ w \in Response /\ req \in Requests
        /\ Native => w.out = w.hdr
        /\ w.held = 0 /\ w.seen = Len(w.body) /\ Len(w.body) <= MaxChunks
        /\ w.hdr["status"] = <<>>
        /\ ~Native => w.out["status"] = <<>>
        /\ w.head = Unsent => w.body = <<>> /\ ~w.copied
        /\ w.head # Unsent => w.head["status"] = <<>> /\ StatusAnnounced /\ EncodingSent
    BY <1>1, InternalStart DEF IInv
  <1>3. /\ r \in Response
        /\ r.hdr["status"] = w.hdr["status"]
        /\ Native => r.out = r.hdr
        /\ ~Native => r.out = w.out
        /\ r.head = w.head
        /\ SameBody(w, r)
        /\ w.body = <<>> => "status" \in Range(r.hdr["trailer"])
    BY <1>2, InternalHeadersFields
  <1> HIDE DEF r
  <1>4. r.held = 0 /\ r.body = w.body /\ r.limit = w.limit /\ r.seen <= Whole
    BY <1>2, <1>3, KeyFacts, RequestAssumption DEF SameBody, Response
  <1>5. /\ f \in Response
        /\ f.hdr = r.hdr /\ f.out = r.out
        /\ f.head = HeadOf(r) /\ f.head # Unsent
        /\ f.body = r.body /\ f.seen = Len(r.body) /\ f.held = 0
        /\ req.kind # "text" \/ r.held % 3 = 0 => f.limit = r.limit
    BY <1>3, <1>4, FlushFields
  <1> HIDE DEF f
  <1>6. /\ h \in Headers /\ h["status"] = <<"proxy">>
    <2>1. f.hdr \in Headers /\ <<"proxy">> \in Seq(Value)
      BY <1>5 DEF Response, Value
    <2> QED BY <2>1, KeyFacts DEF Headers
  <1> HIDE DEF h
  <1>7. /\ w' \in Response
        /\ w'.hdr = h /\ w'.out = (IF Native THEN h ELSE f.out)
        /\ w'.head = f.head
        /\ SameBody(f, w')
    BY <1>1, <1>5, <1>6, WithHeadersFields
  <1>8. Types'
    BY <1>1, <1>7 DEF IInv, Types, Response, Whole
  <1>9. w'.body = w.body /\ w'.seen = Len(w'.body) /\ w'.held = 0
    BY <1>4, <1>5, <1>7 DEF SameBody
  <1>10. Native' = Native /\ Legible' = Legible
    BY <1>1, <1>9 DEF Native, Legible
  <1>11. Legible => w'.limit = w.limit
    BY <1>4, <1>5, <1>7 DEF SameBody, Legible
  <1>12. WriterIdle'
    BY <1>1, <1>2, <1>5, <1>7, <1>9, <1>10, <1>11 DEF IInv, WriterIdle, Whole
  <1>13. w'.head # Unsent /\ w'.head["status"] = <<>>
    BY <1>2, <1>3, <1>5, <1>7 DEF HeadOf
  <1>14. StatusAnnounced'
    BY <1>2, <1>3, <1>5, <1>7, <1>10 DEF HeadOf, StatusAnnounced
  <1>15. ~Native' => w'.out["status"] = <<>>
    BY <1>2, <1>3, <1>5, <1>7, <1>10
  <1>16. (EncodingSent \/ (Internal /\ w.body = <<>>))'
    <2>1. CASE w.head = Unsent
      <3>1. Internal
        BY <1>1 DEF IInv, HandlerConsistent
      <3> QED BY <1>1, <1>2, <1>9, <2>1, <3>1 DEF Internal
    <2>2. CASE w.head # Unsent
      BY <1>1, <1>2, <1>3, <1>5, <1>7, <2>2 DEF HeadOf, EncodingSent, Zipped, Native
    <2> QED BY <2>1, <2>2
  <1>17. HandlerConsistent'
    BY <1>1, <1>6, <1>7, <1>13, <1>14, <1>15, <1>16 DEF HandlerConsistent, Answering
  <1> QED BY <1>1, <1>8, <1>12, <1>17, Midway

(* The end of a call of a native client: the trailers are whatever the     *)
(* header map holds for the keys that were announced.                      *)
LEMMA NativeReturn ==
  ASSUME IInv, Return, Native
  PROVE  /\ w' \in Response /\ FrameIsLast'
         /\ w'.seen = Len(w'.body) /\ (Legible' => w'.limit >= Len(w'.body))
         /\ outcome \in {"broken", "bare"} => Statuses' = <<>>
         /\ outcome = "proxy" => Statuses' = <<"proxy">>
         /\ outcome = "complete" => Statuses' = <<"up">>
  <1>1. /\ UNCHANGED <<req, disabled, gone, up, outcome>>
        /\ pc = "finish" /\ pc' = "done" /\ w' = Returned(w)
    BY DEF Return, Goto
  <1>2. /\ w \in Response /\ Answering
        /\ w.seen = Len(w.body) /\ Len(w.body) <= MaxChunks
        /\ \A i \in DOMAIN w.body : w.body[i].what = "data"
        /\ w.out = w.hdr /\ (Legible => w.limit = Whole)
    BY <1>1 DEF IInv, Types, WriterIdle, HandlerConsistent
  <1>3. /\ w' \in Response
        /\ w'.hdr = w.hdr /\ w'.out = w.out
        /\ w'.head = HeadOf(w) /\ w'.head # Unsent
        /\ w'.body = w.body /\ w'.limit = w.limit /\ w'.seen = Len(w.body)
    BY <1>1, <1>2, ReturnedFields
  <1>4. Native' /\ Legible' = Legible
    BY <1>1, <1>3 DEF Native, Legible
  <1>5. Len(w.body) \in Nat /\ Whole >= Len(w.body)
    BY <1>2, KeyFacts, RequestAssumption DEF Response
  <1>6. FrameIsLast'
    BY <1>2, <1>3, <1>5 DEF FrameIsLast
  <1>7. /\ w.hdr["status"] \in Seq(Value) /\ Statuses' = Trailers'["status"]
        /\ Trailers'["status"] = IF "status" \in Range(w'.head["trailer"])
                                   THEN w.hdr["status"] ELSE <<>>
    <2>1. w.hdr["status"] \in Seq(Value)
      BY <1>2, KeyFacts DEF Response, Headers
    <2>2. Trailers'["status"] = IF "status" \in Range(w'.head["trailer"])
                                 THEN w.hdr["status"] ELSE <<>>
      BY <1>2, <1>3, <1>4, KeyFacts DEF Trailers
    <2>3. Trailers'["status"] \in Seq(Value)
      BY <2>1, <2>2
    <2>4. Statuses' = <<>> \o Trailers'["status"]
      BY <1>4 DEF Statuses
    <2> QED BY <2>1, <2>2, <2>3, <2>4
  <1>8. outcome \in {"broken", "bare"} => Statuses' = <<>>
    <2>1. CASE outcome = "broken"
      BY <1>2, <1>7, <2>1 DEF Answering
    <2>2. CASE outcome = "bare"
      <3>1. w.hdr["status"] = <<>> \o <<>>
        BY <1>2, <2>2 DEF Answering
      <3> QED BY <1>7, <3>1
    <2> QED BY <2>1, <2>2
  <1>9. outcome = "proxy" => Statuses' = <<"proxy">>
    BY <1>2, <1>3, <1>7 DEF Answering, StatusAnnounced, HeadOf
  <1>10. outcome = "complete" => Statuses' = <<"up">>
    <2> SUFFICES ASSUME outcome = "complete" PROVE Statuses' = <<"up">>
      OBVIOUS
    <2>1. /\ StatusAnnounced /\ w.head # Unsent
          /\ w.hdr["status"] = up.header["status"] \o up.trailer["status"]
          /\ \/ up.header["status"] = <<>> /\ up.trailer["status"] = <<"up">>
             \/ up.header["status"] = <<"up">> /\ up.trailer["status"] = <<>>
      BY <1>2 DEF Answering, HeadersPassedOn
    <2>2. <<>> \o <<"up">> = <<"up">> /\ <<"up">> \o <<>> = <<"up">>
      OBVIOUS
    <2>3. w.hdr["status"] = <<"up">>
      BY <2>1, <2>2, Zenon
    <2> QED BY <1>3, <1>7, <2>1, <2>3 DEF StatusAnnounced, HeadOf
  <1> QED BY <1>2, <1>3, <1>4, <1>5, <1>6, <1>8, <1>9, <1>10

(* The frame that a web client finds: it holds the keys that were not sent *)
(* as headers, unless the client cannot decode it.                         *)
LEMMA WebReturn ==
  ASSUME IInv, Return, ~Native
  PROVE  /\ w' \in Response /\ FrameIsLast'
         /\ w'.head = HeadOf(w) /\ w'.head # Unsent
         /\ w'.seen = Len(w'.body) /\ (Legible' => w'.limit >= Len(w'.body))
         /\ w.body = <<>> => \A i \in DOMAIN w'.body : w'.body[i].what = "trailer"
         /\ \A k \in Key : /\ Trailers'[k] \in {<<>>, FrameKeys(w)[k]}
                           /\ Legible' /\ Marked' => Trailers'[k] = FrameKeys(w)[k]
  <1>0. PICK n \in Sizes : w' = Returned(Finish(w, n))
    BY DEF Return
  <1> DEFINE f == Finish(w, n)
  <1>1. /\ UNCHANGED <<req, disabled, gone, up, outcome>>
        /\ pc = "finish" /\ pc' = "done" /\ w' = Returned(f)
    BY <1>0 DEF Return, Goto
  <1>2. /\ w \in Response
        /\ w.seen = Len(w.body) /\ w.held = 0 /\ Len(w.body) <= MaxChunks
        /\ \A i \in DOMAIN w.body : w.body[i].what = "data"
        /\ Legible => w.limit = Whole
    BY <1>1 DEF IInv, Types, WriterIdle
  <1>3. /\ f \in Response
        /\ f.head = HeadOf(w) /\ f.head # Unsent
        /\ f.seen = Len(f.body)
        /\ \/ /\ f.body = w.body /\ f.limit = w.limit
              /\ \A k \in Key : FrameKeys(w)[k] = <<>>
           \/ /\ f.body = Append(w.body, Frame(w, n))
              /\ req.kind # "text" \/ n % 3 = 0 => f.limit = w.limit
    BY <1>2, FinishFields
  <1> HIDE DEF f
  <1>4. /\ w' \in Response
        /\ w'.head = HeadOf(f) /\ w'.head # Unsent
        /\ w'.body = f.body /\ w'.limit = f.limit
        /\ w'.seen \in {f.seen, Len(f.body)}
    BY <1>1, <1>3, ReturnedFields
  <1>5. w'.head = HeadOf(w) /\ w'.seen = Len(w'.body)
    BY <1>3, <1>4 DEF HeadOf
  <1>6. ~Native'
    BY <1>1 DEF Native
  <1>7. /\ DOMAIN w.body = 1 .. Len(w.body) /\ Len(w.body) \in Nat /\ w.body \in Seq(Piece)
        /\ Whole \in Nat /\ Whole >= Len(w.body) + 1
    BY <1>2, KeyFacts, RequestAssumption DEF Response
  <1>8. /\ Frame(w, n) \in Piece /\ Frame(w, n).what = "trailer"
        /\ Frame(w, n).keys = FrameKeys(w) /\ Frame(w, n).size = n
    <2>1. FrameKeys(w) \in Headers
      BY <1>2 DEF FrameKeys, Headers, Response
    <2> QED BY <2>1, RequestAssumption DEF Frame, Piece
  <1>9. CASE f.body = w.body /\ f.limit = w.limit /\ \A k \in Key : FrameKeys(w)[k] = <<>>
    <2>1. FrameIsLast'
      BY <1>2, <1>4, <1>5, <1>7, <1>9 DEF FrameIsLast
    <2>2. Trailers' = NoHeaders'
      BY <1>2, <1>4, <1>6, <1>7, <1>9 DEF Trailers
    <2>3. \A k \in Key : Trailers'[k] = <<>>
      BY <2>2, KeyFacts DEF NoHeaders
    <2>4. Legible' => Legible
      BY <1>1, <1>4, <1>9 DEF Legible
    <2>5. Legible' => w'.limit >= Len(w'.body)
      BY <1>2, <1>4, <1>7, <1>9, <2>4
    <2>6. w.body = <<>> => DOMAIN w'.body = {}
      BY <1>4, <1>9
    <2> QED BY <1>4, <1>5, <1>9, <2>1, <2>3, <2>5, <2>6
  <1>10. CASE /\ f.body = Append(w.body, Frame(w, n))
              /\ req.kind # "text" \/ n % 3 = 0 => f.limit = w.limit
    <2>1. /\ Len(w'.body) = Len(w.body) + 1
          /\ \A i \in 1 .. Len(w.body) : w'.body[i] = w.body[i]
          /\ w'.body[Len(w.body) + 1] = Frame(w, n)
          /\ DOMAIN w'.body = 1 .. Len(w.body) + 1
      BY <1>4, <1>7, <1>8, <1>10
    <2>2. FrameIsLast'
      BY <1>2, <1>5, <1>7, <2>1 DEF FrameIsLast
    <2>3. Legible' => Legible /\ (req.kind # "text" \/ n % 3 = 0)
      BY <1>1, <1>7, <1>8, <2>1 DEF Legible
    <2>4. Legible' => w'.limit >= Len(w'.body)
      BY <1>2, <1>4, <1>7, <1>10, <2>1, <2>3
    <2>5. Trailers' = IF Len(w'.body) <= w'.limit /\ Marked' THEN FrameKeys(w) ELSE NoHeaders
      <3>1. Len(w'.body) > 0 /\ w'.body[Len(w'.body)] = Frame(w, n) /\ Len(w'.body) <= w'.seen
        BY <1>5, <1>7, <2>1
      <3>2. NoHeaders' = NoHeaders
        BY DEF NoHeaders, Key
      <3> QED BY <1>6, <1>8, <3>1, <3>2 DEF Trailers
    <2>6. \A k \in Key : NoHeaders[k] = <<>>
      BY KeyFacts
    <2>7. Len(w'.body) \in Nat /\ w'.limit \in Nat
      BY <1>4, <1>7, <2>1, KeyFacts DEF Response
    <2>8. w.body = <<>> => \A i \in DOMAIN w'.body : w'.body[i].what = "trailer"
      BY <1>8, <2>1
    <2> QED BY <1>4, <1>5, <2>2, <2>4, <2>5, <2>6, <2>7, <2>8
  <1> QED BY <1>3, <1>9, <1>10

(* An answer that is not spoilt can be decoded, if it came to an end.      *)
LEMMA Decodable ==
  ASSUME IInv, Return, ~Native
  PROVE  /\ ~Spoilt' => Legible'
         /\ ~Spoilt' /\ outcome \in {"proxy", "complete", "bare"} => Marked'
  <1>1. UNCHANGED <<req, disabled, outcome>> /\ pc = "finish"
    BY DEF Return, Goto
  <1>2. ~Spoilt' => Legible'
    BY DEF Spoilt, Legible
  <1>3. w.head # Unsent => w'.head = w.head
    BY WebReturn DEF HeadOf
  <1>4. ASSUME ~Spoilt', outcome \in {"proxy", "complete", "bare"}, Zipped
        PROVE  Marked'
    <2>1. Zipped' /\ Internal' = Internal /\ req.kind \in Kind
      BY <1>1, <1>4 DEF Zipped, Native, Internal, IInv, Types, Requests
    <2>2. ~(Internal /\ w.body = <<>>) /\ req.kind = "web"
      BY <1>1, <1>4, <2>1, WebReturn DEF Spoilt, Zipped, Native, Kind
    <2>3. Answering
      BY <1>1 DEF IInv, HandlerConsistent
    <2>4. w.head # Unsent /\ w.head["encoding"] = <<"gzip">>
      BY <1>4, <2>2, <2>3 DEF Answering, HeadersPassedOn, EncodingSent
    <2>5. "gzip" \in Range(<<"gzip">>)
      BY DEF Range
    <2> QED BY <1>1, <1>3, <2>2, <2>4, <2>5 DEF Marked
  <1>5. ~Zipped => Marked'
    BY <1>1 DEF Marked, Zipped, Native
  <1> QED BY <1>2, <1>4, <1>5

(* What a web client is told: the status once, headers as headers.         *)
LEMMA WebVerdict ==
  ASSUME IInv, Return, ~Native
  PROVE  /\ outcome \in {"broken", "bare"} => Statuses' = <<>>
         /\ outcome = "proxy" => /\ Statuses' \in {<<>>, <<"proxy">>}
                                 /\ ~Spoilt' => Statuses' = <<"proxy">>
         /\ outcome = "complete" /\ ~Spoilt' => Statuses' = <<"up">>
         /\ MetadataArrives'
  <1>1. /\ UNCHANGED <<req, disabled, gone, up, outcome>>
        /\ pc = "finish" /\ pc' = "done"
    BY DEF Return, Goto
  <1>2. w \in Response /\ w.hdr \in Headers /\ Answering
    BY <1>1 DEF IInv, Types, HandlerConsistent, Response
  <1>3. /\ w'.head = HeadOf(w) /\ w'.head # Unsent /\ w' \in Response
        /\ \A k \in Key : /\ Trailers'[k] \in {<<>>, FrameKeys(w)[k]}
                          /\ ~Spoilt' /\ outcome \in {"proxy", "complete", "bare"}
                               => Trailers'[k] = FrameKeys(w)[k]
    BY WebReturn, Decodable
  <1>4. /\ \A k \in Key : FrameKeys(w)[k] =
              IF w.out[k] # <<>> \/ k = "trailer" THEN <<>> ELSE w.hdr[k]
        /\ "status" \in Key /\ "status" # "trailer"
        /\ \A m \in Meta : m \in Key /\ m # "trailer"
    BY KeyFacts DEF FrameKeys
  <1>5. ~Native' /\ Statuses' = w'.head["status"] \o Trailers'["status"]
    BY <1>1 DEF Native, Statuses
  <1>6. \A s \in {<<>>, <<"up">>, <<"proxy">>} : <<>> \o s = s /\ s \o <<>> = s
    OBVIOUS
  <1>7. outcome \in {"broken", "bare"} => Statuses' = <<>>
    <2> SUFFICES ASSUME outcome \in {"broken", "bare"} PROVE Statuses' = <<>>
      OBVIOUS
    <2>1. w'.head["status"] = <<>> /\ w.hdr["status"] = <<>>
      <3>1. CASE outcome = "broken"
        BY <1>2, <1>3, <3>1 DEF Answering
      <3>2. CASE outcome = "bare"
        BY <1>2, <1>3, <1>6, <3>2 DEF Answering, HeadersPassedOn, HeadOf
      <3> QED BY <3>1, <3>2
    <2>2. Trailers'["status"] = <<>>
      BY <1>3, <1>4, <2>1
    <2> QED BY <1>5, <1>6, <2>1, <2>2
  <1>8. outcome = "proxy" => /\ Statuses' \in {<<>>, <<"proxy">>}
                             /\ ~Spoilt' => Statuses' = <<"proxy">>
    <2> SUFFICES ASSUME outcome = "proxy"
                 PROVE  /\ Statuses' \in {<<>>, <<"proxy">>}
                        /\ ~Spoilt' => Statuses' = <<"proxy">>
      OBVIOUS
    <2>1. w'.head["status"] = <<>> /\ w.hdr["status"] = <<"proxy">> /\ w.out["status"] = <<>>
      BY <1>2, <1>3 DEF Answering, HeadOf
    <2>2. FrameKeys(w)["status"] = <<"proxy">>
      BY <1>4, <2>1
    <2>3. /\ Trailers'["status"] \in {<<>>, <<"proxy">>}
          /\ ~Spoilt' => Trailers'["status"] = <<"proxy">>
      BY <1>3, <1>4, <2>2
    <2>4. Statuses' = Trailers'["status"]
      BY <1>5, <1>6, <2>1, <2>3
    <2> QED BY <2>3, <2>4
  <1>9. outcome \in {"complete", "bare"} =>
          /\ w'.head = w.out /\ up.header # Unsent
          /\ \A k \in Meta \cup {"status"} : /\ w.out[k] = up.header[k]
                                             /\ w.hdr[k] = up.header[k] \o up.trailer[k]
    BY <1>2, <1>3 DEF Answering, HeadersPassedOn, HeadOf
  <1>10. outcome = "complete" /\ ~Spoilt' => Statuses' = <<"up">>
    <2> SUFFICES ASSUME outcome = "complete", ~Spoilt' PROVE Statuses' = <<"up">>
      OBVIOUS
    <2>1. /\ w'.head["status"] = up.header["status"]
          /\ Trailers'["status"] = IF up.header["status"] # <<>> THEN <<>>
                                   ELSE up.header["status"] \o up.trailer["status"]
      BY <1>3, <1>4, <1>9
    <2>2. CASE up.header["status"] = <<>> /\ up.trailer["status"] = <<"up">>
      BY <1>5, <1>6, <2>1, <2>2
    <2>3. CASE up.header["status"] = <<"up">> /\ up.trailer["status"] = <<>>
      BY <1>5, <1>6, <2>1, <2>3
    <2> QED BY <1>2, <2>2, <2>3 DEF Answering
  <1>11. outcome \in {"complete", "bare"} /\ ~Spoilt' =>
           /\ \A m \in Meta : /\ w'.head[m] = up.header[m]
                              /\ up.header[m] = <<>> => Trailers'[m] = up.trailer[m]
           /\ \A k \in Key : w'.head[k] = <<>> \/ Trailers'[k] = <<>>
    <2> SUFFICES ASSUME outcome \in {"complete", "bare"}, ~Spoilt'
                 PROVE  /\ \A m \in Meta : /\ w'.head[m] = up.header[m]
                                           /\ up.header[m] = <<>> => Trailers'[m] = up.trailer[m]
                        /\ \A k \in Key : w'.head[k] = <<>> \/ Trailers'[k] = <<>>
      OBVIOUS
    <2>1. \A m \in Meta : up.trailer[m] \in {<<>>, <<"up">>}
      BY <1>1, <1>4 DEF IInv, Types
    <2>2. \A m \in Meta : up.header[m] = <<>> => w.hdr[m] = up.trailer[m]
      BY <1>6, <1>9, <2>1
    <2>3. \A k \in Key : w'.head[k] = <<>> \/ Trailers'[k] = <<>>
      BY <1>3, <1>4, <1>9
    <2> QED BY <1>3, <1>4, <1>9, <2>2, <2>3
  <1>12. MetadataArrives'
    BY <1>1, <1>11 DEF MetadataArrives, Present
  <1> QED BY <1>7, <1>8, <1>10, <1>12

LEMMA ReturnStep == IInv /\ Return => IInv'
  <1> SUFFICES ASSUME IInv, Return PROVE IInv'
    OBVIOUS
  <1>1. /\ UNCHANGED <<req, disabled, gone, up, outcome>>
        /\ pc = "finish" /\ pc' = "done"
    BY DEF Return, Goto
  <1>2. outcome \in {"proxy", "complete", "bare", "refused", "broken"}
    BY <1>1 DEF IInv, HandlerConsistent, Answering
  <1>3. /\ w' \in Response /\ FrameIsLast'
        /\ w'.seen = Len(w'.body) /\ (Legible' => w'.limit >= Len(w'.body))
    BY NativeReturn, WebReturn
  <1>4. /\ outcome \in {"broken", "bare"} => Statuses' = <<>>
        /\ outcome = "proxy" => /\ Statuses' \in {<<>>, <<"proxy">>}
                                /\ ~Spoilt' => Statuses' = <<"proxy">>
        /\ outcome = "complete" /\ ~Spoilt' => Statuses' = <<"up">>
    BY NativeReturn, WebVerdict
  <1>5. Types'
    BY <1>1, <1>3 DEF IInv, Types, Response, Whole
  <1>6. WriterIdle' /\ HandlerConsistent'
    BY <1>1 DEF WriterIdle, HandlerConsistent
  <1>7. OneStatusPerCall'
    BY <1>1, <1>4 DEF OneStatusPerCall
  <1>8. FailuresStayVisible'
    <2>1. "up" \notin Range(<<>>) /\ "up" \notin Range(<<"proxy">>)
      BY DEF Range
    <2> QED BY <1>1, <1>2, <1>3, <1>4, <2>1 DEF FailuresStayVisible
  <1>9. MetadataArrives'
    BY <1>1, WebVerdict DEF MetadataArrives, Native
  <1>10. NothingHeldBack'
    BY <1>1, <1>3 DEF NothingHeldBack, Spoilt, Legible
  <1> QED BY <1>3, <1>5, <1>6, <1>7, <1>8, <1>9, <1>10 DEF IInv

LEMMA StutterStep == IInv /\ UNCHANGED vars => IInv'
  <1> SUFFICES ASSUME IInv, UNCHANGED vars PROVE IInv'
    OBVIOUS
  <1>1. UNCHANGED <<req, disabled, pc, w, up, gone, outcome>>
    BY DEF vars
  <1>2. /\ Native' = Native /\ Announced' = Announced /\ Legible' = Legible
        /\ HeadersOnly' = HeadersOnly /\ Trailers' = Trailers /\ Spoilt' = Spoilt
    BY <1>1 DEF Native, Announced, Zipped, Legible, HeadersOnly, Trailers, Marked, Spoilt,
       Internal
  <1>3. Statuses' = Statuses
    BY <1>1, <1>2 DEF Statuses
  <1>4. Types' /\ FrameIsLast'
    BY <1>1 DEF IInv, Types, Whole, FrameIsLast
  <1>5. WriterIdle'
    BY <1>1, <1>2 DEF IInv, WriterIdle, Whole
  <1>6. HandlerConsistent'
    BY <1>1, <1>2 DEF IInv, HandlerConsistent, Untouched, Streaming, StatusAnnounced,
       EncodingSent, Zipped, Internal, Forwarding, HeadersPassedOn, Answering, HeadOf
  <1>7. OneStatusPerCall' /\ FailuresStayVisible' /\ NothingHeldBack'
    BY <1>1, <1>2, <1>3
       DEF IInv, OneStatusPerCall, FailuresStayVisible, NothingHeldBack
  <1>8. MetadataArrives'
    BY <1>1, <1>2 DEF IInv, MetadataArrives
  <1> QED BY <1>4, <1>5, <1>6, <1>7, <1>8 DEF IInv

-----------------------------------------------------------------------------
(* The theorems.                                                           *)

(* Every step of the handler, the upstream and the client preserves the    *)
(* invariant.                                                              *)
THEOREM StepIInv == IInv /\ [Next]_vars => IInv'
  <1> SUFFICES ASSUME IInv, [Next]_vars PROVE IInv'
    OBVIOUS
  <1>1. CASE Handle
    BY <1>1, RejectStep, BeginStep, UnimplementedStep, RouteStep, ReturnStep DEF Handle
  <1>2. CASE Transfer
    BY <1>2, InternalReplyStep, CopyChunkStep, RespondStep, CopyEndsStep DEF Transfer
  <1>3. CASE Break
    BY <1>3, InternalEndStep, BrokenStep DEF Break
  <1>4. CASE ClientLeaves
    BY <1>4, LeavesStep
  <1>5. CASE UNCHANGED vars
    BY <1>5, StutterStep
  <1> QED BY <1>1, <1>2, <1>3, <1>4, <1>5 DEF Next

(* The inductive invariant of one request holds in every behaviour.        *)
THEOREM IInvAlways == Spec => []IInv
  BY InitIInv, StepIInv, PTL DEF Spec

(* The variables keep their types; the trailer frame is the last piece.    *)
THEOREM RequestTypeOK == Spec => []TypeOK
  <1>1. IInv => TypeOK
    <2> SUFFICES ASSUME IInv PROVE TypeOK
      OBVIOUS
    <2>1. Types /\ FrameIsLast
      BY DEF IInv
    <2>2. w.hdr \in [Key -> Seq({"grpc", "web", "text", "gzip", "status", "up", "proxy"})]
      BY <2>1 DEF Types, Response, Headers, Value
    <2>3. w.head = Unsent \/ DOMAIN w.head = Key
      BY <2>1 DEF Types, Response, Headers
    <2>4. w.seen \in 0 .. Len(w.body) /\ Len(w.body) \in Nat
      BY <2>1 DEF Types, Response, FrameIsLast
    <2> QED BY <2>1, <2>2, <2>3, <2>4 DEF Types, Response, Code, FrameIsLast, TypeOK
  <1> QED BY <1>1, IInvAlways, PTL

(* Every call that was ended with a status ends with exactly one gRPC      *)
(* status that its client can decode, whoever gave it: writeGrpcStatus,    *)
(* the reflection service, or the upstream in headers or trailers; except  *)
(* where the text format cuts a piece or gzip is used but not announced.   *)
THEOREM CallsEndWithOneStatus == Spec => []OneStatusPerCall
  <1>1. IInv => OneStatusPerCall
    BY DEF IInv
  <1> QED BY <1>1, IInvAlways, PTL

(* A call that forwardRequest gave up, or whose upstream gave no status,   *)
(* never carries one, and a status of the upstream comes with everything   *)
(* sent before it.                                                         *)
THEOREM BrokenCallsCarryNoStatus == Spec => []FailuresStayVisible
  <1>1. IInv => FailuresStayVisible
    BY DEF IInv
  <1> QED BY <1>1, IInvAlways, PTL

(* A web client gets headers as headers and trailers in the frame that     *)
(* Finish writes, and nothing twice, unless the format spoils the answer.  *)
THEOREM TranslationKeepsMetadata == Spec => []MetadataArrives
  <1>1. IInv => MetadataArrives
    BY DEF IInv
  <1> QED BY <1>1, IInvAlways, PTL

(* No layer of writers holds a chunk back while the handler waits for the  *)
(* next one, nor a chunk or the trailer frame after it has returned.  What *)
(* ends a gzip stream is no piece: that is never written.                  *)
THEOREM WritersKeepNothing == Spec => []NothingHeldBack
  <1>1. IInv => NothingHeldBack
    BY DEF IInv
  <1> QED BY <1>1, IInvAlways, PTL
=============================================================================
