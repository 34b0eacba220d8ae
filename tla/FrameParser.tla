---------------------------- MODULE FrameParser ----------------------------
(***************************************************************************)
(* nexus::rpc::FrameParser (src/rpc/frame_codec.cpp) driven by             *)
(* RpcServer::onMessage: a stream of frames that TCP cuts into chunks      *)
(* anywhere, several frames to a chunk or several chunks to a frame.       *)
(*                                                                         *)
(* A byte is the frame and the offset it stands for; decodeHeader          *)
(* recognises the first HeaderSize bytes of a frame and nothing else       *)
(* (misaligned bytes fail the magic check).  What a payload's bytes are is *)
(* looked up in the frame and decoded byte by byte (FrameMetadata).        *)
(***************************************************************************)
EXTENDS FrameMetadata

CONSTANTS
  HeaderSize,  \* kFixedHeaderSize
  MaxMeta,     \* kMaxMetadataLength
  MaxBody,     \* kMaxBodyLength
  Frames,      \* the frames a client may send
  MaxFrames    \* bound: frames in the stream

HeaderFields ==
  [common : BOOLEAN,   \* validateCommon is satisfied
   type : {"request", "other", "unknown"},
   total : Nat, meta : Nat, body : Nat]

(* payload: the bytes after the header.  wellFormed: its metadata is a map,  *)
(* every length within what contains it; says: that map, from key to value,  *)
(* as the client means it.                                                   *)
ASSUME ParserAssumption ==
  /\ HeaderSize \in Nat \ {0} /\ {MaxMeta, MaxBody, MaxFrames} \subseteq Nat
  /\ \A f \in Frames : /\ DOMAIN f = {"header", "payload", "wellFormed", "says"}
                       /\ f.header \in HeaderFields /\ f.payload \in Seq(Nat)

VARIABLES
  stream,   \* the frames the client has sent
  wire,     \* their bytes, one frame after the other
  starts,   \* history: bytes before each of them, and before the next one
  arrived,  \* bytes handed to onMessage so far
  parser,   \* ConnectionState::parser
  pc,       \* onMessage: "idle" between calls, "frames" in its while loop
  link,     \* the connection: "open", "shut" (shutdown()), "closed" (forceClose())
  requests  \* history: the requests taken from the stream

vars == <<stream, wire, starts, arrived, parser, pc, link, requests>>

(* kMaxTotalLength *)
MaxTotal == HeaderSize + MaxMeta + MaxBody

(* validateHeader: validateCommon, the message type, the three limits, and  *)
(* the sum, which is taken in 64 bits and cannot wrap                       *)
validateHeader(h) ==
  /\ h.common /\ h.type # "unknown"
  /\ h.total <= MaxTotal /\ h.meta <= MaxMeta /\ h.body <= MaxBody
  /\ h.total = HeaderSize + h.meta + h.body

-----------------------------------------------------------------------------
(* The stream.  Of a frame whose header is not valid only the header is     *)
(* sent: it delimits nothing.                                               *)
Size(f) == IF validateHeader(f.header) THEN f.header.total ELSE HeaderSize
FrameBytes(i, n) == [k \in 1..n |-> [frame |-> i, offset |-> k]]
Byte == [frame : Nat, offset : Nat]

(* The length fields of a header that is valid are those of its payload.    *)
ASSUME PayloadAssumption ==
  \A f \in Frames : validateHeader(f.header) => Len(f.payload) = f.header.meta + f.header.body

-----------------------------------------------------------------------------
(* FrameParser.  Each stage of feed() maps a parser to a parser and a result.*)

Emptied == [common |-> TRUE, type |-> "request", total |-> 0, meta |-> 0, body |-> 0]
Garbage == [Emptied EXCEPT !.common = FALSE]

InitialParser ==
  [state |-> "kNeedHeader", buffer |-> <<>>, header |-> Emptied,
   metadata |-> AsMap(<<>>), body |-> <<>>, complete |-> FALSE]

Erase(s, n) == SubSeq(s, n + 1, Len(s))
Outcome(p, r) == [parser |-> p, result |-> r]

decodeHeader(b) ==
  IF SubSeq(b, 1, HeaderSize) = FrameBytes(b[1].frame, HeaderSize)
  THEN stream[b[1].frame].header ELSE Garbage

(* what bytes of the stream hold *)
Contents(bytes) == [k \in DOMAIN bytes |-> stream[bytes[k].frame].payload[bytes[k].offset - HeaderSize]]

Complete(p) ==
  Outcome([p EXCEPT !.state = "kComplete", !.complete = TRUE], "kOk")

PayloadStage(p) ==
  LET n == p.header.total - HeaderSize
      payload == SubSeq(p.buffer, 1, n)
      decoded == decodeMetadata(Contents(payload), p.header.meta)
  IN  IF Len(p.buffer) < n THEN Outcome(p, "kNeedMoreData")
      ELSE IF ~decoded.ok THEN Outcome(p, "kMetadataParseError")
      ELSE Complete([p EXCEPT !.metadata = AsMap(decoded.items),
                              !.body = Erase(payload, p.header.meta), !.buffer = Erase(@, n)])

HeaderStage(p) ==
  LET h == decodeHeader(p.buffer)
      q == [p EXCEPT !.header = h, !.buffer = Erase(@, HeaderSize)]
  IN  IF Len(p.buffer) < HeaderSize THEN Outcome(p, "kNeedMoreData")
      ELSE IF ~validateHeader(h) THEN Outcome([p EXCEPT !.header = h], "kInvalidHeader")
      ELSE IF h.total = HeaderSize THEN Complete(q)
      ELSE PayloadStage([q EXCEPT !.state = "kNeedPayload"])

feed(p, data) ==
  LET q == [p EXCEPT !.buffer = @ \o data]
  IN  IF p.complete THEN Outcome(p, "kInternalError")
      ELSE IF p.state = "kNeedHeader" THEN HeaderStage(q) ELSE PayloadStage(q)

(* Mutant: trailing bytes are dropped. *)
MutResetClears(p) == [InitialParser EXCEPT !.header = p.header]

(* reset(): the buffer is kept *)
reset(p) == [InitialParser EXCEPT !.buffer = p.buffer]

-----------------------------------------------------------------------------
TypeOK ==
  /\ stream \in Seq(Frames) /\ Len(stream) <= MaxFrames
  /\ wire \in Seq(Byte) /\ starts \in Seq(Nat) /\ Len(starts) = Len(stream) + 1
  /\ arrived \in 0..Len(wire)
  /\ parser.state \in {"kNeedHeader", "kNeedPayload", "kComplete"}
  /\ parser.header \in HeaderFields
  /\ parser.complete \in BOOLEAN /\ parser.complete = (parser.state = "kComplete")
  /\ pc \in {"idle", "frames"} /\ link \in {"open", "shut", "closed"}
  /\ Len(requests) <= Len(stream)

Init ==
  /\ stream = <<>> /\ wire = <<>> /\ starts = <<0>>
  /\ arrived = 0 /\ parser = InitialParser /\ pc = "idle" /\ link = "open"
  /\ requests = <<>>

(* the client sends, while the server reads *)
ClientSends(f) ==
  /\ Len(stream) < MaxFrames
  /\ stream' = Append(stream, f)
  /\ wire' = wire \o FrameBytes(Len(stream) + 1, Size(f))
  /\ starts' = Append(starts, Len(wire) + Size(f))
  /\ UNCHANGED <<arrived, parser, pc, link, requests>>

(* what onMessage does with the result of a feed() *)
AfterFeed(o) ==
  /\ parser' = o.parser
  /\ IF o.result \in {"kOk", "kNeedMoreData"}
     THEN pc' = (IF o.parser.complete THEN "frames" ELSE "idle") /\ UNCHANGED link
     ELSE pc' = "idle" /\ link' = "closed"

(* onMessage(): the bytes handleRead got.  handleRead drains the socket to  *)
(* EAGAIN, so onMessage is called for later chunks even after forceClose.   *)
OnMessage(n) ==
  /\ pc = "idle"
  /\ AfterFeed(feed(parser, SubSeq(wire, arrived + 1, arrived + n)))
  /\ arrived' = arrived + n
  /\ UNCHANGED <<stream, wire, starts, requests>>

FrameOf(p) == [header |-> p.header, metadata |-> p.metadata, body |-> p.body]

(* Mutant: a frame that is not a request is ignored. *)
MutIgnoresOther ==
  /\ pc = "frames" /\ parser.header.type # "request"
  /\ pc' = "idle"
  /\ UNCHANGED <<stream, wire, starts, arrived, parser, link, requests>>

(* not a request: forceClose and return, the frame still in the parser *)
NotRequest ==
  /\ pc = "frames" /\ parser.header.type # "request"
  /\ link' = "closed" /\ pc' = "idle"
  /\ UNCHANGED <<stream, wire, starts, arrived, parser, requests>>

(* whether the metadata names a service and a method, by the keys         *)
(* kServiceMetadataKey and kMethodMetadataKey                              *)
ServiceKey == <<1>>
MethodKey == <<2>>
Named(metadata) ==
  \A k \in {ServiceKey, MethodKey} : k \in DOMAIN metadata /\ metadata[k] # <<>>

(* an error response, shutdown() and return, the frame still in the parser *)
Unnamed ==
  /\ pc = "frames" /\ parser.header.type = "request" /\ ~Named(parser.metadata)
  /\ link' = (IF link = "open" THEN "shut" ELSE link) /\ pc' = "idle"
  /\ UNCHANGED <<stream, wire, starts, arrived, parser, requests>>

(* a request: reset(), hand it on, and look for another with feed(nullptr, 0) *)
TakeRequest ==
  /\ pc = "frames" /\ parser.header.type = "request" /\ Named(parser.metadata)
  /\ requests' = Append(requests, FrameOf(parser))
  /\ AfterFeed(feed(reset(parser), <<>>))
  /\ UNCHANGED <<stream, wire, starts, arrived>>

Next ==
  \/ \E n \in 1..(Len(wire) - arrived) : OnMessage(n)
  \/ NotRequest \/ Unnamed \/ TakeRequest
  \/ \E f \in Frames : ClientSends(f)

Spec == Init /\ [][Next]_vars

-----------------------------------------------------------------------------
(* The reference: what a parser that saw the whole stream at once would do. *)

(* The metadata of a frame as feed() reads it, which is not at all when     *)
(* there is no payload.                                                     *)
Decoded(f) ==
  IF f.header.total = HeaderSize THEN Finished(1) ELSE decodeMetadata(f.payload, f.header.meta)

(* decodeMetadata reads back what clients encode.  Of metadata that is not  *)
(* well-formed it says nothing.                                             *)
MetadataReadsBack ==
  \A f \in Frames : validateHeader(f.header) /\ f.wellFormed =>
    Decoded(f).ok /\ AsMap(Decoded(f).items) = f.says

(* What the metadata means: what the client put into it, or, when it is not *)
(* well-formed, whatever decodeMetadata makes of the whole payload.         *)
Meaning ==
  [f \in {g \in Frames : validateHeader(g.header)} |->
     IF f.wellFormed THEN f.says ELSE AsMap(Decoded(f).items)]

Acceptable(f) ==
  /\ validateHeader(f.header) /\ f.header.type = "request"
  /\ f.wellFormed \/ Decoded(f).ok
  /\ Named(Meaning[f])

Arrived(i, k) == [frame |-> i, offset |-> k] \in Range(SubSeq(wire, 1, arrived))

(* frames before the first unacceptable one, wholly received *)
Expected ==
  {i \in DOMAIN stream : /\ \A j \in 1..i : Acceptable(stream[j])
                         /\ Arrived(i, Size(stream[i]))}

RequestFrom(i) ==
  LET h == stream[i].header
      bytes == FrameBytes(i, Size(stream[i]))
  IN  [header |-> h, metadata |-> Meaning[stream[i]],
       body |-> SubSeq(bytes, HeaderSize + h.meta + 1, h.total)]

(* However the stream is cut into chunks, onMessage takes exactly the       *)
(* complete requests in order, each with the metadata the client encoded    *)
(* (unknown fields and repeated keys included) and its own body, and        *)
(* nothing after the first frame it must refuse, even though handleRead     *)
(* goes on delivering after forceClose.                                     *)
ChunkingIndependent ==
  pc = "idle" =>
    /\ DOMAIN requests = Expected
    /\ \A i \in Expected : requests[i] = RequestFrom(i)

(* a frame is refused as soon as its header is bad, or else when complete *)
Refused(i) ==
  /\ \A j \in 1..(i - 1) : Acceptable(stream[j])
  /\ ~Acceptable(stream[i])
  /\ Arrived(i, Size(stream[i]))

(* The connection stays usable until, and only until, a frame is refused,   *)
(* however the stream is cut: no request that a client encoded well is cut  *)
(* off, and what decodeMetadata refuses in a whole payload closes the       *)
(* connection with the payload's last byte, not earlier or later.           *)
RefusedAtOnce ==
  pc = "idle" => (link = "open" <=> \A i \in DOMAIN stream : ~Refused(i))
=============================================================================
