-------------------------- MODULE FrameParserProofs --------------------------
(***************************************************************************)
(* Proofs about FrameParser, for any frames in any number, cut anywhere.   *)
(*                                                                         *)
(* How metadata is decoded is not looked into: MetadataReadsBack is asked  *)
(* of decodeMetadata in the last step, and TLC checks it on the frames of  *)
(* MCFrameParser.  What is proved is where the parser stands in the stream *)
(* and what it makes of a frame wherever the stream was cut.               *)
(***************************************************************************)
EXTENDS FrameParser, SequenceTheorems, TLAPS

(* Where the bytes of each frame are.                                       *)
WireInv ==
  /\ stream \in Seq(Frames) /\ wire \in Seq(Byte)
  /\ starts \in Seq(Nat) /\ Len(starts) = Len(stream) + 1
  /\ starts[1] = 0 /\ starts[Len(stream) + 1] = Len(wire)
  /\ \A i \in DOMAIN stream : starts[i + 1] = starts[i] + Size(stream[i])
  /\ \A i, j \in 1..(Len(stream) + 1) : i <= j => starts[i] <= starts[j]
  /\ \A i \in DOMAIN stream : \A k \in 1..Size(stream[i]) :
       wire[starts[i] + k] = [frame |-> i, offset |-> k]
  /\ \A p \in DOMAIN wire :
       /\ wire[p].frame \in DOMAIN stream
       /\ p = starts[wire[p].frame] + wire[p].offset

Valid(i) == i \in DOMAIN stream /\ validateHeader(stream[i].header)
Readable(i) == Decoded(stream[i]).ok

(* what the request made from frame i is, whatever decodeMetadata makes of it *)
Made(i) ==
  [header |-> stream[i].header, metadata |-> AsMap(Decoded(stream[i]).items),
   body |-> RequestFrom(i).body]

(* the parser of a server that took n requests, when a bytes have arrived: *)
(* before the header of frame n + 1, *)
AtHeader(p, n, a) ==
  /\ p.state = "kNeedHeader" /\ p.complete = FALSE
  /\ p.metadata = AsMap(<<>>) /\ p.body = <<>>
  /\ starts[n + 1] <= a /\ p.buffer = SubSeq(wire, starts[n + 1] + 1, a)

(* between its header and the end of its payload, *)
AtPayload(p, n, a) ==
  /\ p.state = "kNeedPayload" /\ p.complete = FALSE
  /\ Valid(n + 1) /\ p.header = stream[n + 1].header /\ p.header.total # HeaderSize
  /\ starts[n + 1] + HeaderSize <= a
  /\ p.buffer = SubSeq(wire, starts[n + 1] + HeaderSize + 1, a)

(* and behind it *)
Whole(p, n, a) ==
  /\ p.state = "kComplete" /\ p.complete = TRUE
  /\ Valid(n + 1) /\ Readable(n + 1) /\ FrameOf(p) = Made(n + 1)
  /\ starts[n + 2] <= a

(* A frame that is not whole is waited for as long as nothing is wrong with *)
(* it; one that was refused keeps the parser where it is.                   *)
Unfinished(p, n, a, open) ==
  \/ /\ AtHeader(p, n, a)
     /\ open <=> a < starts[n + 1] + HeaderSize
     /\ open \/ (n + 1 \in DOMAIN stream /\ ~Valid(n + 1))
  \/ /\ AtPayload(p, n, a)
     /\ open <=> a < starts[n + 2]
     /\ open \/ ~Readable(n + 1)

(* the six members of a FrameParser *)
Members(st, bu, he, me, bo, co) ==
  [state |-> st, buffer |-> bu, header |-> he, metadata |-> me, body |-> bo, complete |-> co]

IsParser(p) ==
  /\ p = Members(p.state, p.buffer, p.header, p.metadata, p.body, p.complete)
  /\ p.header \in HeaderFields

(* a whole frame that onMessage takes *)
Taken(i) ==
  /\ Valid(i) /\ Readable(i)
  /\ stream[i].header.type = "request" /\ Named(AsMap(Decoded(stream[i]).items))

(* onMessage between two steps, when its link is l and it stands at c *)
Standing(p, n, a, c, l) ==
  /\ a \in 0..Len(wire) /\ n <= Len(stream)
  /\ IsParser(p) /\ c \in {"idle", "frames"} /\ l \in {"open", "shut", "closed"}
  /\ \/ c = "idle" /\ Unfinished(p, n, a, l = "open")
     \/ /\ Whole(p, n, a)
        /\ c = "frames" => l = "open" /\ p.buffer = SubSeq(wire, starts[n + 2] + 1, a)
        /\ c = "idle" => l # "open" /\ ~Taken(n + 1)

PositionInv == Standing(parser, Len(requests), arrived, pc, link)

RequestsInv ==
  /\ requests \in Seq({Made(i) : i \in DOMAIN stream})
  /\ \A i \in DOMAIN requests : Taken(i) /\ requests[i] = Made(i)

ParserInv == WireInv /\ PositionInv /\ RequestsInv

-----------------------------------------------------------------------------
(* Lengths.  A frame on the wire is at least its header.                    *)
LEMMA SizeFacts ==
  ASSUME NEW f \in Frames
  PROVE  /\ HeaderSize \in Nat /\ HeaderSize >= 1
         /\ Size(f) \in Nat /\ Size(f) >= HeaderSize
         /\ f.header \in HeaderFields /\ f.payload \in Seq(Nat)
         /\ f.header.total \in Nat /\ f.header.meta \in Nat /\ f.header.body \in Nat
         /\ validateHeader(f.header) =>
              /\ f.header.total = HeaderSize + f.header.meta + f.header.body
              /\ Size(f) = f.header.total
              /\ Len(f.payload) = f.header.meta + f.header.body
         /\ ~validateHeader(f.header) => Size(f) = HeaderSize
<1>1. /\ HeaderSize \in Nat /\ HeaderSize >= 1
      /\ f.header \in HeaderFields /\ f.payload \in Seq(Nat)
  BY ParserAssumption
<1>2. f.header.total \in Nat /\ f.header.meta \in Nat /\ f.header.body \in Nat
  BY <1>1 DEF HeaderFields
<1>3. CASE validateHeader(f.header)
  <2>1. f.header.total = HeaderSize + f.header.meta + f.header.body
    BY <1>3 DEF validateHeader
  <2>2. Size(f) = f.header.total
    BY <1>3 DEF Size
  <2>3. Len(f.payload) = f.header.meta + f.header.body
    BY <1>3, PayloadAssumption
  <2>. QED
    BY <1>1, <1>2, <1>3, <2>1, <2>2, <2>3
<1>4. CASE ~validateHeader(f.header)
  BY <1>1, <1>2, <1>4 DEF Size
<1>. QED
  BY <1>3, <1>4

(* The bytes of a frame.                                                    *)
LEMMA FrameBytesType ==
  ASSUME NEW i \in Nat, NEW n \in Nat
  PROVE  /\ FrameBytes(i, n) \in Seq(Byte) /\ Len(FrameBytes(i, n)) = n
         /\ \A k \in 1..n : FrameBytes(i, n)[k] = [frame |-> i, offset |-> k]
<1>1. FrameBytes(i, n) \in [1..n -> Byte]
  BY DEF FrameBytes, Byte
<1>2. FrameBytes(i, n) \in Seq(Byte)
  BY <1>1, SeqDef
<1>3. Len(FrameBytes(i, n)) = n
  BY <1>1, <1>2, LenProperties
<1>. QED
  BY <1>2, <1>3 DEF FrameBytes

-----------------------------------------------------------------------------
(* Slices: the bytes of w behind the first s and up to the a-th.            *)

LEMMA SliceType ==
  ASSUME NEW S, NEW w \in Seq(S), NEW s \in Nat, NEW a \in 0..Len(w), s <= a
  PROVE  /\ SubSeq(w, s + 1, a) \in Seq(S) /\ Len(SubSeq(w, s + 1, a)) = a - s
         /\ \A k \in 1..(a - s) : SubSeq(w, s + 1, a)[k] = w[s + k]
<1>0. Len(w) \in Nat
  BY LenProperties
<1>1. \A i \in (s + 1)..a : w[i] \in S
  BY <1>0, ElementOfSeq
<1>2. /\ SubSeq(w, s + 1, a) \in Seq(S)
      /\ Len(SubSeq(w, s + 1, a)) = IF s + 1 <= a THEN a - (s + 1) + 1 ELSE 0
      /\ \A i \in 1..(a - (s + 1) + 1) : SubSeq(w, s + 1, a)[i] = w[(s + 1) + i - 1]
  BY <1>0, <1>1, SubSeqProperties
<1>3. Len(SubSeq(w, s + 1, a)) = a - s
  BY <1>0, <1>2
<1>4. \A k \in 1..(a - s) : SubSeq(w, s + 1, a)[k] = w[s + k]
  <2>. SUFFICES ASSUME NEW k \in 1..(a - s) PROVE SubSeq(w, s + 1, a)[k] = w[s + k]
    OBVIOUS
  <2>1. k \in 1..(a - (s + 1) + 1) /\ (s + 1) + k - 1 = s + k
    BY <1>0
  <2>. QED
    BY <1>2, <2>1
<1>. QED
  BY <1>2, <1>3, <1>4

(* Taking the first k bytes off a slice moves its start.                    *)
LEMMA SliceErase ==
  ASSUME NEW S, NEW w \in Seq(S), NEW s \in Nat, NEW a \in 0..Len(w),
         NEW k \in Nat, s + k <= a
  PROVE  Erase(SubSeq(w, s + 1, a), k) = SubSeq(w, (s + k) + 1, a)
<1>. DEFINE b == SubSeq(w, s + 1, a)
            c == SubSeq(b, k + 1, Len(b))
            d == SubSeq(w, (s + k) + 1, a)
<1>0. Len(w) \in Nat /\ s <= a /\ s + k \in Nat
  BY LenProperties
<1>1. b \in Seq(S) /\ Len(b) = a - s /\ \A j \in 1..(a - s) : b[j] = w[s + j]
  BY <1>0, SliceType
<1>2. d \in Seq(S) /\ Len(d) = a - (s + k) /\ \A j \in 1..(a - (s + k)) : d[j] = w[(s + k) + j]
  BY <1>0, SliceType
<1>. HIDE DEF b
<1>3. Len(b) \in 0..Len(b) /\ k <= Len(b)
  BY <1>0, <1>1
<1>4. c \in Seq(S) /\ Len(c) = Len(b) - k /\ \A j \in 1..(Len(b) - k) : c[j] = b[k + j]
  BY <1>1, <1>3, SliceType
<1>. HIDE DEF c, d
<1>5. Len(c) = Len(d)
  BY <1>0, <1>1, <1>2, <1>4
<1>6. \A j \in 1..Len(c) : c[j] = d[j]
  <2>. SUFFICES ASSUME NEW j \in 1..Len(c) PROVE c[j] = d[j]
    OBVIOUS
  <2>1. /\ j \in 1..(Len(b) - k) /\ k + j \in 1..(a - s) /\ j \in 1..(a - (s + k))
        /\ s + (k + j) = (s + k) + j
    BY <1>0, <1>1, <1>4
  <2>2. c[j] = b[k + j] /\ b[k + j] = w[s + (k + j)] /\ d[j] = w[(s + k) + j]
    BY <1>1, <1>2, <1>4, <2>1
  <2>. QED
    BY <2>1, <2>2
<1>7. c = d
  BY <1>2, <1>4, <1>5, <1>6, SeqEqual
<1>. QED
  BY <1>7 DEF Erase, b, c, d

(* More bytes arrive behind a slice.                                        *)
LEMMA SliceGrow ==
  ASSUME NEW S, NEW w \in Seq(S), NEW s \in Nat, NEW a \in Nat, NEW n \in Nat,
         s <= a, a + n <= Len(w)
  PROVE  SubSeq(w, s + 1, a) \o SubSeq(w, a + 1, a + n) = SubSeq(w, s + 1, a + n)
<1>1. /\ Len(w) \in Nat /\ s + 1 \in 1..(Len(w) + 1)
      /\ a \in ((s + 1) - 1)..Len(w) /\ a + n \in a..Len(w)
  BY LenProperties
<1>. QED
  BY <1>1, ConcatAdjacentSubSeq

-----------------------------------------------------------------------------
(* The stream.                                                              *)

LEMMA WireInit == Init => WireInv
<1>. SUFFICES ASSUME Init PROVE WireInv
  OBVIOUS
<1>1. stream = <<>> /\ wire = <<>> /\ starts = <<0>>
  BY DEF Init
<1>2. /\ stream \in Seq(Frames) /\ Len(stream) = 0 /\ DOMAIN stream = {}
      /\ wire \in Seq(Byte) /\ Len(wire) = 0 /\ DOMAIN wire = {}
  BY <1>1, EmptySeq
<1>3. starts \in Seq(Nat) /\ Len(starts) = 1 /\ starts[1] = 0
  BY <1>1
<1>. QED
  BY <1>2, <1>3 DEF WireInv

(* What WireInv says of the numbers in it.                                  *)
LEMMA WireTypes ==
  ASSUME WireInv
  PROVE  /\ Len(stream) \in Nat /\ DOMAIN stream = 1..Len(stream)
         /\ Len(wire) \in Nat /\ DOMAIN wire = 1..Len(wire)
         /\ \A i \in DOMAIN stream : stream[i] \in Frames
         /\ \A i \in 1..(Len(stream) + 1) : starts[i] \in Nat /\ starts[i] <= Len(wire)
<1>1. stream \in Seq(Frames) /\ wire \in Seq(Byte) /\ starts \in Seq(Nat)
  BY DEF WireInv
<1>2. /\ Len(stream) \in Nat /\ DOMAIN stream = 1..Len(stream)
      /\ Len(wire) \in Nat /\ DOMAIN wire = 1..Len(wire)
  BY <1>1, LenProperties
<1>3. \A i \in DOMAIN stream : stream[i] \in Frames
  BY <1>1, <1>2, ElementOfSeq
<1>4. \A i \in 1..(Len(stream) + 1) : starts[i] \in Nat
  BY <1>1, ElementOfSeq DEF WireInv
<1>5. \A i \in 1..(Len(stream) + 1) : starts[i] <= Len(wire)
  <2>1. Len(stream) + 1 \in 1..(Len(stream) + 1)
    BY <1>2
  <2>. QED
    BY <1>2, <2>1 DEF WireInv
<1>. QED
  BY <1>2, <1>3, <1>4, <1>5

(* Sending a frame leaves what was sent before in place.                    *)
LEMMA SendEffect ==
  ASSUME WireInv, NEW f \in Frames, ClientSends(f)
  PROVE  /\ stream' \in Seq(Frames) /\ Len(stream') = Len(stream) + 1
         /\ \A i \in DOMAIN stream : stream'[i] = stream[i]
         /\ stream'[Len(stream) + 1] = f
         /\ starts' \in Seq(Nat) /\ Len(starts') = Len(stream) + 2
         /\ \A i \in 1..(Len(stream) + 1) : starts'[i] = starts[i]
         /\ starts'[Len(stream) + 2] = Len(wire) + Size(f)
         /\ wire' \in Seq(Byte) /\ Len(wire') = Len(wire) + Size(f)
         /\ \A p \in DOMAIN wire : wire'[p] = wire[p]
         /\ \A k \in 1..Size(f) :
              wire'[Len(wire) + k] = [frame |-> Len(stream) + 1, offset |-> k]
<1>0. /\ stream \in Seq(Frames) /\ wire \in Seq(Byte)
      /\ starts \in Seq(Nat) /\ Len(starts) = Len(stream) + 1
  BY DEF WireInv
<1>1. /\ stream' = Append(stream, f)
      /\ wire' = wire \o FrameBytes(Len(stream) + 1, Size(f))
      /\ starts' = Append(starts, Len(wire) + Size(f))
  BY DEF ClientSends
<1>2. /\ Len(stream) \in Nat /\ DOMAIN stream = 1..Len(stream)
      /\ Len(wire) \in Nat /\ DOMAIN wire = 1..Len(wire) /\ Size(f) \in Nat
  BY WireTypes, SizeFacts
<1>3. /\ stream' \in Seq(Frames) /\ Len(stream') = Len(stream) + 1
      /\ \A i \in 1..Len(stream) : stream'[i] = stream[i]
      /\ stream'[Len(stream) + 1] = f
  BY <1>0, <1>1, AppendProperties
<1>4. /\ starts' \in Seq(Nat) /\ Len(starts') = Len(starts) + 1
      /\ \A i \in 1..Len(starts) : starts'[i] = starts[i]
      /\ starts'[Len(starts) + 1] = Len(wire) + Size(f)
  <2>1. Len(wire) + Size(f) \in Nat
    BY <1>2
  <2>. QED
    BY <1>0, <1>1, <2>1, AppendProperties
<1>. DEFINE b == FrameBytes(Len(stream) + 1, Size(f))
<1>5. /\ b \in Seq(Byte) /\ Len(b) = Size(f)
      /\ \A k \in 1..Size(f) : b[k] = [frame |-> Len(stream) + 1, offset |-> k]
  <2>1. Len(stream) + 1 \in Nat
    BY <1>2
  <2>. QED
    BY <1>2, <2>1, FrameBytesType
<1>. HIDE DEF b
<1>6. /\ wire \o b \in Seq(Byte) /\ Len(wire \o b) = Len(wire) + Len(b)
      /\ \A i \in 1..(Len(wire) + Len(b)) :
           (wire \o b)[i] = IF i <= Len(wire) THEN wire[i] ELSE b[i - Len(wire)]
  BY <1>0, <1>5, ConcatProperties
<1>7. wire' = wire \o b
  BY <1>1 DEF b
<1>8. \A p \in DOMAIN wire : wire'[p] = wire[p]
  BY <1>2, <1>5, <1>6, <1>7
<1>9. \A k \in 1..Size(f) : wire'[Len(wire) + k] = [frame |-> Len(stream) + 1, offset |-> k]
  <2>. SUFFICES ASSUME NEW k \in 1..Size(f)
                PROVE  wire'[Len(wire) + k] = [frame |-> Len(stream) + 1, offset |-> k]
    OBVIOUS
  <2>1. /\ Len(wire) + k \in 1..(Len(wire) + Len(b)) /\ ~(Len(wire) + k <= Len(wire))
        /\ (Len(wire) + k) - Len(wire) = k
    BY <1>2, <1>5
  <2>. QED
    BY <1>5, <1>6, <1>7, <2>1
<1>10. Len(starts) + 1 = Len(stream) + 2
  BY <1>0, <1>2
<1>. QED
  BY <1>0, <1>2, <1>3, <1>4, <1>5, <1>6, <1>7, <1>8, <1>9, <1>10

(* A new frame goes behind all others.                                      *)
LEMMA WireSend ==
  ASSUME WireInv, NEW f \in Frames, ClientSends(f)
  PROVE  WireInv'
<1>. DEFINE n == Len(stream)
<1>1. /\ n \in Nat /\ DOMAIN stream = 1..n /\ Len(wire) \in Nat /\ DOMAIN wire = 1..Len(wire)
      /\ \A i \in 1..(n + 1) : starts[i] \in Nat /\ starts[i] <= Len(wire)
      /\ Size(f) \in Nat
  BY WireTypes, SizeFacts
<1>2. /\ stream' \in Seq(Frames) /\ Len(stream') = n + 1
      /\ \A i \in 1..n : stream'[i] = stream[i]
      /\ stream'[n + 1] = f
      /\ starts' \in Seq(Nat) /\ Len(starts') = n + 2
      /\ \A i \in 1..(n + 1) : starts'[i] = starts[i]
      /\ starts'[n + 2] = Len(wire) + Size(f)
      /\ wire' \in Seq(Byte) /\ Len(wire') = Len(wire) + Size(f)
      /\ \A p \in 1..Len(wire) : wire'[p] = wire[p]
      /\ \A k \in 1..Size(f) : wire'[Len(wire) + k] = [frame |-> n + 1, offset |-> k]
  BY <1>1, SendEffect
<1>3. /\ starts[1] = 0 /\ starts[n + 1] = Len(wire)
      /\ \A i \in 1..n : starts[i + 1] = starts[i] + Size(stream[i])
      /\ \A i, j \in 1..(n + 1) : i <= j => starts[i] <= starts[j]
      /\ \A i \in 1..n : \A k \in 1..Size(stream[i]) :
           wire[starts[i] + k] = [frame |-> i, offset |-> k]
      /\ \A p \in 1..Len(wire) : /\ wire[p].frame \in 1..n
                                 /\ p = starts[wire[p].frame] + wire[p].offset
  BY <1>1 DEF WireInv
<1>. HIDE DEF n
<1>4. DOMAIN stream' = 1..(n + 1) /\ DOMAIN wire' = 1..(Len(wire) + Size(f))
  BY <1>2, LenProperties
<1>5. starts'[1] = 0 /\ Len(starts') = Len(stream') + 1 /\ starts'[Len(stream') + 1] = Len(wire')
  BY <1>1, <1>2, <1>3
<1>6. ASSUME NEW i \in 1..(n + 1) PROVE starts'[i + 1] = starts'[i] + Size(stream'[i])
  <2>1. CASE i \in 1..n
    <3>1. i + 1 \in 1..(n + 1)
      BY <1>1, <2>1
    <3>2. starts'[i + 1] = starts[i + 1] /\ starts'[i] = starts[i] /\ stream'[i] = stream[i]
      BY <1>2, <1>6, <2>1, <3>1
    <3>. QED
      BY <1>3, <2>1, <3>2
  <2>2. CASE i = n + 1
    <3>1. i + 1 = n + 2 /\ starts'[i] = Len(wire) /\ stream'[i] = f
      BY <1>1, <1>2, <1>3, <1>6, <2>2
    <3>. QED
      BY <1>2, <3>1
  <2>. QED
    BY <1>1, <2>1, <2>2
<1>7. ASSUME NEW i \in 1..(n + 2), NEW j \in 1..(n + 2), i <= j PROVE starts'[i] <= starts'[j]
  <2>1. CASE j \in 1..(n + 1)
    BY <1>1, <1>2, <1>3, <1>7, <2>1
  <2>2. CASE j = n + 2 /\ i \in 1..(n + 1)
    <3>1. starts'[i] \in Nat /\ starts'[i] <= Len(wire)
      BY <1>1, <1>2, <2>2
    <3>2. starts'[j] = Len(wire) + Size(f)
      BY <1>2, <2>2
    <3>. QED
      BY <1>1, <3>1, <3>2
  <2>3. CASE j = n + 2 /\ i = n + 2
    <3>1. starts'[j] \in Nat /\ i = j
      BY <1>1, <1>2, <2>3
    <3>. QED
      BY <3>1
  <2>. QED
    BY <1>1, <1>7, <2>1, <2>2, <2>3
<1>8. ASSUME NEW i \in 1..(n + 1), NEW k \in 1..Size(stream'[i])
      PROVE  wire'[starts'[i] + k] = [frame |-> i, offset |-> k]
  <2>1. CASE i \in 1..n
    <3>1. stream'[i] = stream[i] /\ starts'[i] = starts[i] /\ stream[i] \in Frames
      BY <1>1, <1>2, <2>1, WireTypes
    <3>2. Size(stream[i]) \in Nat /\ i \in 1..(n + 1) /\ i + 1 \in 1..(n + 1)
      BY <1>1, <2>1, <3>1, SizeFacts
    <3>3. /\ starts[i] \in Nat /\ starts[i] + Size(stream[i]) <= Len(wire)
      BY <1>1, <1>3, <2>1, <3>2
    <3>4. starts[i] + k \in 1..Len(wire)
      BY <1>1, <1>8, <3>1, <3>2, <3>3
    <3>. QED
      BY <1>2, <1>3, <1>8, <2>1, <3>1, <3>4
  <2>2. CASE i = n + 1
    <3>1. starts'[i] = Len(wire) /\ stream'[i] = f
      BY <1>1, <1>2, <1>3, <1>8, <2>2
    <3>. QED
      BY <1>2, <1>8, <2>2, <3>1
  <2>. QED
    BY <1>1, <2>1, <2>2
<1>9. ASSUME NEW p \in 1..(Len(wire) + Size(f))
      PROVE  wire'[p].frame \in 1..(n + 1) /\ p = starts'[wire'[p].frame] + wire'[p].offset
  <2>1. CASE p \in 1..Len(wire)
    <3>1. wire'[p] = wire[p] /\ wire[p].frame \in 1..n
      BY <1>2, <1>3, <2>1
    <3>2. wire[p].frame \in 1..(n + 1)
      BY <1>1, <3>1
    <3>. QED
      BY <1>2, <1>3, <2>1, <3>1, <3>2
  <2>2. CASE ~(p \in 1..Len(wire))
    <3>. DEFINE k == p - Len(wire)
    <3>1. k \in 1..Size(f) /\ p = Len(wire) + k
      BY <1>1, <1>9, <2>2
    <3>. HIDE DEF k
    <3>2. wire'[p] = [frame |-> n + 1, offset |-> k]
      BY <1>2, <3>1
    <3>3. starts'[n + 1] = Len(wire) /\ n + 1 \in 1..(n + 1)
      BY <1>1, <1>2, <1>3
    <3>. QED
      BY <3>1, <3>2, <3>3
  <2>. QED
    BY <2>1, <2>2
<1>10. \A i, j \in 1..(Len(stream') + 1) : i <= j => starts'[i] <= starts'[j]
  <2>1. Len(stream') + 1 = n + 2
    BY <1>1, <1>2
  <2>. QED
    BY <1>7, <2>1
<1>. QED
  BY <1>2, <1>4, <1>5, <1>6, <1>8, <1>9, <1>10 DEF WireInv

-----------------------------------------------------------------------------
(* feed().                                                                  *)

(* What feed() returns to a server that took n requests, a bytes in.        *)
FeedOK(o, n, a) ==
  /\ IsParser(o.parser)
  /\ \/ /\ o.result = "kOk" /\ Whole(o.parser, n, a)
        /\ o.parser.buffer = SubSeq(wire, starts[n + 2] + 1, a)
     \/ o.result = "kNeedMoreData" /\ Unfinished(o.parser, n, a, TRUE)
     \/ /\ o.result \in {"kInvalidHeader", "kMetadataParseError"}
        /\ Unfinished(o.parser, n, a, FALSE)

(* Where frame n + 1 is.                                                    *)
LEMMA FrameHere ==
  ASSUME WireInv, NEW n \in Nat, n + 1 \in DOMAIN stream
  PROVE  /\ stream[n + 1] \in Frames /\ Size(stream[n + 1]) \in Nat
         /\ HeaderSize \in Nat /\ HeaderSize >= 1 /\ HeaderSize <= Size(stream[n + 1])
         /\ starts[n + 1] \in Nat /\ starts[n + 2] \in Nat
         /\ starts[n + 2] = starts[n + 1] + Size(stream[n + 1]) /\ starts[n + 2] <= Len(wire)
         /\ \A k \in 1..Size(stream[n + 1]) :
              wire[starts[n + 1] + k] = [frame |-> n + 1, offset |-> k]
<1>1. /\ Len(stream) \in Nat /\ n + 1 \in 1..Len(stream)
      /\ \A i \in DOMAIN stream : stream[i] \in Frames
      /\ \A i \in 1..(Len(stream) + 1) : starts[i] \in Nat /\ starts[i] <= Len(wire)
  BY WireTypes
<1>2. n + 1 \in 1..(Len(stream) + 1) /\ n + 2 \in 1..(Len(stream) + 1) /\ (n + 1) + 1 = n + 2
  BY <1>1
<1>3. /\ Size(stream[n + 1]) \in Nat /\ HeaderSize \in Nat /\ HeaderSize >= 1
      /\ HeaderSize <= Size(stream[n + 1])
  <2>1. stream[n + 1] \in Frames
    BY <1>1
  <2>. HIDE DEF Size
  <2>. QED
    BY <2>1, SizeFacts
<1>4. starts[n + 2] = starts[n + 1] + Size(stream[n + 1])
  BY <1>2 DEF WireInv
<1>5. \A k \in 1..Size(stream[n + 1]) : wire[starts[n + 1] + k] = [frame |-> n + 1, offset |-> k]
  BY DEF WireInv
<1>. QED
  BY <1>1, <1>2, <1>3, <1>4, <1>5

(* If a byte behind the first n frames has arrived, there is another frame. *)
LEMMA FrameFollows ==
  ASSUME WireInv, NEW n \in Nat, n <= Len(stream), NEW a \in 0..Len(wire), starts[n + 1] < a
  PROVE  n + 1 \in DOMAIN stream
<1>1. /\ Len(stream) \in Nat /\ DOMAIN stream = 1..Len(stream) /\ Len(wire) \in Nat
      /\ starts[Len(stream) + 1] = Len(wire)
  BY WireTypes DEF WireInv
<1>2. starts[n + 1] \in Nat /\ a \in Nat /\ a <= Len(wire)
  <2>1. n + 1 \in 1..(Len(stream) + 1)
    BY <1>1
  <2>. QED
    BY <1>1, <2>1, WireTypes
<1>3. ASSUME n = Len(stream) PROVE FALSE
  <2>1. starts[n + 1] = Len(wire)
    BY <1>1, <1>3, Zenon
  <2>. QED
    BY <1>1, <1>2, <2>1
<1>4. n + 1 \in 1..Len(stream)
  <2>1. \A m \in Nat : n <= m /\ n # m => n + 1 \in 1..m
    BY <1>2
  <2>. QED
    BY <1>1, <1>3, <2>1, Zenon
<1>. QED
  BY <1>1, <1>4, Zenon

(* bytes of frame i: from the s-th of w, and in a payload behind h of them  *)
FrameAt(w, s, i, len) == \A k \in 1..len : w[s + k] = [frame |-> i, offset |-> k]
PayloadAt(b, i, h, len) ==
  /\ b \in Seq(Byte) /\ Len(b) = len
  /\ \A k \in 1..len : b[k] = [frame |-> i, offset |-> h + k]

(* The body of a request, cut from its payload or from the whole frame.     *)
BodyBehind(payload, i, h, m, c, len, t) ==
  /\ i \in Nat /\ h \in Nat /\ m \in Nat /\ c \in Nat /\ len = m + c /\ t = h + m + c
  /\ PayloadAt(payload, i, h, len)

LEMMA BodyOfFrame ==
  ASSUME NEW payload, NEW i, NEW h, NEW m, NEW c, NEW len, NEW t,
         BodyBehind(payload, i, h, m, c, len, t)
  PROVE  Erase(payload, m) = SubSeq(FrameBytes(i, t), h + m + 1, t)
<1>. /\ i \in Nat /\ h \in Nat /\ m \in Nat /\ c \in Nat /\ len = m + c /\ t = h + m + c
     /\ PayloadAt(payload, i, h, len)
  BY DEF BodyBehind
<1>0. /\ payload \in Seq(Byte) /\ Len(payload) = m + c
      /\ \A k \in 1..(m + c) : payload[k] = [frame |-> i, offset |-> h + k]
  BY DEF PayloadAt
<1>. DEFINE w == FrameBytes(i, h + m + c)
            x == SubSeq(payload, m + 1, Len(payload))
            y == SubSeq(w, (h + m) + 1, h + m + c)
<1>1. /\ w \in Seq(Byte) /\ Len(w) = h + m + c
      /\ \A k \in 1..(h + m + c) : w[k] = [frame |-> i, offset |-> k]
  <2>1. h + m + c \in Nat
    OBVIOUS
  <2>. QED
    BY <2>1, FrameBytesType
<1>. HIDE DEF w
<1>2. /\ y \in Seq(Byte) /\ Len(y) = (h + m + c) - (h + m)
      /\ \A k \in 1..((h + m + c) - (h + m)) : y[k] = w[(h + m) + k]
  <2>. DEFINE from == h + m
              to == h + m + c
  <2>1. from \in Nat /\ to \in 0..Len(w) /\ from <= to
    BY <1>1
  <2>. HIDE DEF from, to
  <2>2. /\ SubSeq(w, from + 1, to) \in Seq(Byte) /\ Len(SubSeq(w, from + 1, to)) = to - from
        /\ \A k \in 1..(to - from) : SubSeq(w, from + 1, to)[k] = w[from + k]
    BY <1>1, <2>1, SliceType
  <2>. QED
    BY <2>2 DEF from, to
<1>3. /\ x \in Seq(Byte) /\ Len(x) = (m + c) - m
      /\ \A k \in 1..((m + c) - m) : x[k] = payload[m + k]
  <2>1. Len(payload) \in 0..Len(payload) /\ m <= Len(payload)
    BY <1>0
  <2>. QED
    BY <1>0, <2>1, SliceType
<1>. HIDE DEF x, y
<1>4. Len(x) = c /\ Len(y) = c
  BY <1>2, <1>3
<1>5. \A k \in 1..c : x[k] = y[k]
  <2>. SUFFICES ASSUME NEW k \in 1..c PROVE x[k] = y[k]
    OBVIOUS
  <2>1. /\ k \in 1..((m + c) - m) /\ k \in 1..((h + m + c) - (h + m))
        /\ m + k \in 1..(m + c) /\ (h + m) + k \in 1..(h + m + c) /\ h + (m + k) = (h + m) + k
    OBVIOUS
  <2>2. x[k] = payload[m + k] /\ y[k] = w[(h + m) + k]
    BY <1>2, <1>3, <2>1
  <2>3. /\ payload[m + k] = [frame |-> i, offset |-> h + (m + k)]
        /\ w[(h + m) + k] = [frame |-> i, offset |-> (h + m) + k]
    BY <1>0, <1>1, <2>1
  <2>. QED
    BY <2>1, <2>2, <2>3
<1>6. x = y
  BY <1>2, <1>3, <1>4, <1>5, SeqEqual
<1>. QED
  BY <1>6 DEF Erase, x, y, w

(* decodeMetadata is given the payload the client sent.                     *)
LEMMA ContentsOfFrame ==
  ASSUME NEW i \in DOMAIN stream, NEW n \in Nat, HeaderSize \in Nat,
         stream[i].payload \in Seq(Nat), Len(stream[i].payload) = n,
         NEW payload \in Seq(Byte), Len(payload) = n,
         \A k \in 1..n : payload[k] = [frame |-> i, offset |-> HeaderSize + k]
  PROVE  Contents(payload) = stream[i].payload
<1>1. DOMAIN payload = 1..n /\ DOMAIN stream[i].payload = 1..n
  BY LenProperties
<1>2. Contents(payload) = [k \in 1..n |-> stream[i].payload[k]]
  <2>1. \A k \in 1..n : payload[k].frame = i /\ payload[k].offset - HeaderSize = k
    OBVIOUS
  <2>. QED
    BY <1>1, <2>1 DEF Contents
<1>3. stream[i].payload = [k \in 1..n |-> stream[i].payload[k]]
  <2>1. stream[i].payload \in [1..n -> Nat]
    BY LenProperties
  <2>. QED
    BY <2>1
<1>. QED
  BY <1>2, <1>3


(* The payload of a frame is what follows its header, and what follows the  *)
(* payload is the next frame.                                               *)
Sliced(w, s, h, len, i, a, t, e, b) ==
  /\ w \in Seq(Byte) /\ s \in Nat /\ h \in Nat /\ len \in Nat /\ i \in Nat
  /\ a \in 0..Len(w) /\ t = h + len /\ e = s + t /\ e <= a
  /\ FrameAt(w, s, i, t) /\ b = SubSeq(w, (s + h) + 1, a)

LEMMA PayloadSlice ==
  ASSUME NEW w, NEW s, NEW h, NEW len, NEW i, NEW a, NEW t, NEW e, NEW b,
         Sliced(w, s, h, len, i, a, t, e, b)
  PROVE  PayloadAt(SubSeq(b, 1, len), i, h, len) /\ Erase(b, len) = SubSeq(w, e + 1, a)
<1>. /\ w \in Seq(Byte) /\ s \in Nat /\ h \in Nat /\ len \in Nat /\ i \in Nat
     /\ a \in 0..Len(w) /\ t = h + len /\ e = s + t /\ e <= a
     /\ FrameAt(w, s, i, t) /\ b = SubSeq(w, (s + h) + 1, a)
  BY DEF Sliced
<1>1. Len(w) \in Nat /\ a \in Nat /\ s + h \in Nat /\ s + h <= a
  BY LenProperties
<1>2. b \in Seq(Byte) /\ Len(b) = a - (s + h) /\ \A k \in 1..(a - (s + h)) : b[k] = w[(s + h) + k]
  BY <1>1, SliceType
<1>3. /\ SubSeq(b, 1, len) \in Seq(Byte) /\ Len(SubSeq(b, 1, len)) = len
      /\ \A k \in 1..len : SubSeq(b, 1, len)[k] = b[k]
  <2>1. len \in 0..Len(b) /\ 0 \in Nat /\ 0 <= len
    BY <1>1, <1>2
  <2>2. /\ SubSeq(b, 0 + 1, len) \in Seq(Byte)
        /\ Len(SubSeq(b, 0 + 1, len)) = len - 0
        /\ \A k \in 1..(len - 0) : SubSeq(b, 0 + 1, len)[k] = b[0 + k]
    BY <1>2, <2>1, SliceType
  <2>3. 0 + 1 = 1 /\ len - 0 = len /\ \A k \in 1..len : 0 + k = k
    OBVIOUS
  <2>. QED
    BY <2>2, <2>3
<1>4. \A k \in 1..len : SubSeq(b, 1, len)[k] = [frame |-> i, offset |-> h + k]
  <2>. SUFFICES ASSUME NEW k \in 1..len
                PROVE  SubSeq(b, 1, len)[k] = [frame |-> i, offset |-> h + k]
    OBVIOUS
  <2>1. k \in 1..(a - (s + h)) /\ h + k \in 1..(h + len) /\ (s + h) + k = s + (h + k)
    BY <1>1
  <2>2. SubSeq(b, 1, len)[k] = w[s + (h + k)]
    BY <1>2, <1>3, <2>1
  <2>. QED
    BY <2>1, <2>2 DEF FrameAt
<1>5. Erase(b, len) = SubSeq(w, e + 1, a)
  <2>. DEFINE from == s + h
  <2>1. from \in Nat /\ from + len <= a /\ from + len = e /\ b = SubSeq(w, from + 1, a)
    BY <1>1
  <2>. HIDE DEF from
  <2>2. Erase(SubSeq(w, from + 1, a), len) = SubSeq(w, (from + len) + 1, a)
    BY <2>1, SliceErase
  <2>. QED
    BY <2>1, <2>2, Zenon
<1>. QED
  BY <1>3, <1>4, <1>5 DEF PayloadAt

(* What the parser's assignments do to its members.                         *)

SetPayload(p, m, c, b) == [p EXCEPT !.metadata = m, !.body = c, !.buffer = b]
SetComplete(p, s, t) == [p EXCEPT !.state = s, !.complete = t]
SetHeader(p, h, b) == [p EXCEPT !.header = h, !.buffer = b]

LEMMA MembersRead ==
  ASSUME NEW st, NEW bu, NEW he, NEW me, NEW bo, NEW co, NEW p, p = Members(st, bu, he, me, bo, co)
  PROVE  /\ p.state = st /\ p.buffer = bu /\ p.header = he
         /\ p.metadata = me /\ p.body = bo /\ p.complete = co
         /\ he \in HeaderFields => IsParser(p)
<1>1. /\ p.state = st /\ p.buffer = bu /\ p.header = he
      /\ p.metadata = me /\ p.body = bo /\ p.complete = co
  BY DEF Members
<1>. QED
  BY <1>1 DEF IsParser

LEMMA MembersPayload ==
  ASSUME NEW st, NEW bu, NEW he, NEW me, NEW bo, NEW co, NEW m, NEW c, NEW b
  PROVE  SetPayload(Members(st, bu, he, me, bo, co), m, c, b) = Members(st, b, he, m, c, co)
<1>. DEFINE r == Members(st, bu, he, me, bo, co)
<1>1. SetPayload(r, m, c, b) = [[[r EXCEPT !.metadata = m] EXCEPT !.body = c] EXCEPT !.buffer = b]
  BY DEF SetPayload
<1>2. /\ [r EXCEPT !.metadata = m] = Members(st, bu, he, m, bo, co)
      /\ [Members(st, bu, he, m, bo, co) EXCEPT !.body = c] = Members(st, bu, he, m, c, co)
      /\ [Members(st, bu, he, m, c, co) EXCEPT !.buffer = b] = Members(st, b, he, m, c, co)
  BY DEF Members
<1>. QED
  BY <1>1, <1>2

LEMMA MembersComplete ==
  ASSUME NEW st, NEW bu, NEW he, NEW me, NEW bo, NEW co, NEW s, NEW t
  PROVE  SetComplete(Members(st, bu, he, me, bo, co), s, t) = Members(s, bu, he, me, bo, t)
<1>. DEFINE r == Members(st, bu, he, me, bo, co)
<1>1. SetComplete(r, s, t) = [[r EXCEPT !.state = s] EXCEPT !.complete = t]
  BY DEF SetComplete
<1>2. /\ [r EXCEPT !.state = s] = Members(s, bu, he, me, bo, co)
      /\ [Members(s, bu, he, me, bo, co) EXCEPT !.complete = t] = Members(s, bu, he, me, bo, t)
  BY DEF Members
<1>. QED
  BY <1>1, <1>2

LEMMA MembersHeader ==
  ASSUME NEW st, NEW bu, NEW he, NEW me, NEW bo, NEW co, NEW h, NEW b
  PROVE  SetHeader(Members(st, bu, he, me, bo, co), h, b) = Members(st, b, h, me, bo, co)
<1>. DEFINE r == Members(st, bu, he, me, bo, co)
<1>1. SetHeader(r, h, b) = [[r EXCEPT !.header = h] EXCEPT !.buffer = b]
  BY DEF SetHeader
<1>2. /\ [r EXCEPT !.header = h] = Members(st, bu, h, me, bo, co)
      /\ [Members(st, bu, h, me, bo, co) EXCEPT !.buffer = b] = Members(st, b, h, me, bo, co)
  BY DEF Members
<1>. QED
  BY <1>1, <1>2

(* the parser that kComplete leaves *)
Finish(h, m, c, b) == Members("kComplete", b, h, m, c, TRUE)

IsFinished(q, h, m, c, b) ==
  /\ IsParser(q) /\ q.buffer = b /\ q.state = "kComplete" /\ q.complete = TRUE
  /\ FrameOf(q) = [header |-> h, metadata |-> m, body |-> c]

LEMMA FinishRead ==
  ASSUME NEW p, IsParser(p), NEW m, NEW c, NEW b
  PROVE  IsFinished(Finish(p.header, m, c, b), p.header, m, c, b)
<1>. DEFINE h == p.header
<1>0. h \in HeaderFields
  BY DEF IsParser
<1>. HIDE DEF h
<1>. DEFINE t == TRUE
            k == "kComplete"
            q == Members(k, b, h, m, c, t)
<1>. HIDE DEF t, k
<1>1. /\ q.state = k /\ q.buffer = b /\ q.header = h
      /\ q.metadata = m /\ q.body = c /\ q.complete = t /\ IsParser(q)
  BY <1>0, MembersRead
<1>2. q = Finish(p.header, m, c, b)
  BY Zenon DEF Finish, t, k, h
<1>. HIDE DEF q
<1>3. FrameOf(q) = [header |-> h, metadata |-> m, body |-> c]
  BY <1>1, Zenon DEF FrameOf
<1>. QED
  BY <1>1, <1>2, <1>3, Zenon DEF t, k, h, IsFinished

(* The fields that the payload stage sets.                                  *)
LEMMA CompletePayload ==
  ASSUME NEW p, IsParser(p), NEW m, NEW c, NEW b
  PROVE  Complete([p EXCEPT !.metadata = m, !.body = c, !.buffer = b])
           = Outcome(Finish(p.header, m, c, b), "kOk")
<1>. DEFINE st == p.state
            bu == p.buffer
            he == p.header
            me == p.metadata
            bo == p.body
            co == p.complete
            t == TRUE
            q == SetPayload(p, m, c, b)
<1>1. p = Members(st, bu, he, me, bo, co)
  BY DEF IsParser
<1>. HIDE DEF st, bu, he, me, bo, co, t
<1>2. q = Members(st, b, he, m, c, co)
  BY <1>1, MembersPayload
<1>. HIDE DEF q
<1>3. SetComplete(q, "kComplete", t) = Members("kComplete", b, he, m, c, t)
  BY <1>2, MembersComplete
<1>4. SetComplete(q, "kComplete", TRUE) = Finish(p.header, m, c, b)
  BY <1>3, Zenon DEF t, Finish, he
<1>. QED
  BY <1>4, Zenon DEF Complete, SetComplete, SetPayload, q

(* The three outcomes of a feed().                                          *)
LEMMA Outcomes ==
  ASSUME NEW p, IsParser(p), NEW n, NEW a
  PROVE  /\ Unfinished(p, n, a, TRUE) => FeedOK(Outcome(p, "kNeedMoreData"), n, a)
         /\ \A r \in {"kInvalidHeader", "kMetadataParseError"} :
              Unfinished(p, n, a, FALSE) => FeedOK(Outcome(p, r), n, a)
         /\ Whole(p, n, a) /\ p.buffer = SubSeq(wire, starts[n + 2] + 1, a)
              => FeedOK(Outcome(p, "kOk"), n, a)
<1>1. \A r : Outcome(p, r).parser = p /\ Outcome(p, r).result = r
  BY DEF Outcome
<1>. QED
  BY <1>1, Zenon DEF FeedOK

(* The payload stage waits for the whole payload, refuses it if it does not *)
(* decode, and otherwise has read the frame and stands behind it.           *)
LEMMA PayloadOutcome ==
  ASSUME WireInv, NEW n \in Nat, NEW a \in 0..Len(wire),
         NEW p, IsParser(p), AtPayload(p, n, a)
  PROVE  FeedOK(PayloadStage(p), n, a)
<1>. DEFINE f == stream[n + 1]
            s == starts[n + 1]
            e == starts[n + 2]
            m == f.header.meta
            c == f.header.body
            len == p.header.total - HeaderSize
            payload == SubSeq(p.buffer, 1, len)
<1>1. /\ n + 1 \in DOMAIN stream /\ validateHeader(f.header) /\ p.header = f.header
      /\ p.header.total # HeaderSize
      /\ s + HeaderSize <= a /\ p.buffer = SubSeq(wire, (s + HeaderSize) + 1, a)
  BY DEF AtPayload, Valid
<1>2. /\ f \in Frames /\ HeaderSize \in Nat /\ s \in Nat /\ e \in Nat
      /\ e = s + Size(f) /\ e <= Len(wire)
      /\ \A k \in 1..Size(f) : wire[s + k] = [frame |-> n + 1, offset |-> k]
  BY <1>1, FrameHere
<1>3. /\ m \in Nat /\ c \in Nat /\ f.header.total = HeaderSize + m + c
      /\ Size(f) = f.header.total /\ f.payload \in Seq(Nat) /\ Len(f.payload) = m + c
  BY <1>1, <1>2, SizeFacts
<1>4. wire \in Seq(Byte) /\ Len(wire) \in Nat /\ a \in Nat /\ a <= Len(wire)
  BY WireTypes DEF WireInv
<1>5. p.header.total = HeaderSize + m + c /\ Size(f) = HeaderSize + m + c
  BY <1>1, <1>3, Zenon
<1>. HIDE DEF f, s, e, m, c
<1>6. /\ len = m + c /\ m + c \in Nat /\ e = (s + HeaderSize) + (m + c)
      /\ HeaderSize + m + c = HeaderSize + (m + c) /\ s + HeaderSize \in Nat
  <2>1. \A x, y, z \in Nat :
          /\ (HeaderSize + x + y) - HeaderSize = x + y /\ x + y \in Nat
          /\ z + (HeaderSize + x + y) = (z + HeaderSize) + (x + y)
          /\ HeaderSize + x + y = HeaderSize + (x + y) /\ z + HeaderSize \in Nat
    BY <1>2
  <2>2. /\ (HeaderSize + m + c) - HeaderSize = m + c /\ m + c \in Nat
        /\ s + (HeaderSize + m + c) = (s + HeaderSize) + (m + c)
        /\ HeaderSize + m + c = HeaderSize + (m + c) /\ s + HeaderSize \in Nat
    BY <1>2, <1>3, <2>1
  <2>3. len = (HeaderSize + m + c) - HeaderSize
    BY <1>5, Zenon
  <2>4. e = s + (HeaderSize + m + c)
    BY <1>2, <1>5, Zenon
  <2>. QED
    BY <2>2, <2>3, <2>4, Zenon
<1>. HIDE DEF len
<1>7. p.buffer \in Seq(Byte) /\ Len(p.buffer) = a - (s + HeaderSize)
  BY <1>1, <1>4, <1>6, SliceType
<1>8. CASE Len(p.buffer) < len
  <2>1. PayloadStage(p) = Outcome(p, "kNeedMoreData")
    BY <1>8 DEF PayloadStage, len
  <2>2. a < e
    BY <1>2, <1>3, <1>4, <1>6, <1>7, <1>8
  <2>3. Unfinished(p, n, a, TRUE)
    BY <2>2 DEF Unfinished, e
  <2>. QED
    BY <2>1, <2>3, Outcomes
<1>9. CASE ~(Len(p.buffer) < len)
  <2>1. (s + HeaderSize) + (m + c) <= a
    BY <1>2, <1>3, <1>4, <1>6, <1>7, <1>9
  <2>2. e <= a /\ ~(a < e)
    BY <1>2, <1>4, <1>6, <2>1
  <2>3. FrameAt(wire, s, n + 1, HeaderSize + (m + c))
    BY <1>2, <1>5, <1>6, Zenon DEF FrameAt
  <2>4. /\ PayloadAt(SubSeq(p.buffer, 1, m + c), n + 1, HeaderSize, m + c)
        /\ Erase(p.buffer, m + c) = SubSeq(wire, e + 1, a)
    <3>. DEFINE i == n + 1
                b == p.buffer
                l == m + c
                t == HeaderSize + (m + c)
    <3>1. Sliced(wire, s, HeaderSize, l, i, a, t, e, b)
      <4>1. i \in Nat
        OBVIOUS
      <4>2. e = s + t
        BY <1>2, <1>5, <1>6, Zenon
      <4>. QED
        BY <1>1, <1>2, <1>4, <1>6, <2>2, <2>3, <4>1, <4>2, Zenon DEF Sliced
    <3>. HIDE DEF i, b, l, t
    <3>2. /\ PayloadAt(SubSeq(b, 1, l), i, HeaderSize, l)
          /\ Erase(b, l) = SubSeq(wire, e + 1, a)
      BY <3>1, PayloadSlice
    <3>. QED
      BY <3>2, Zenon DEF i, b, l
  <2>5. PayloadAt(payload, n + 1, HeaderSize, m + c) /\ Erase(p.buffer, len) = SubSeq(wire, e + 1, a)
    BY <1>6, <2>4, Zenon
  <2>. HIDE DEF payload
  <2>6. Contents(payload) = f.payload
    BY <1>1, <1>2, <1>3, <1>6, <2>5, ContentsOfFrame DEF f, PayloadAt
  <2>7. decodeMetadata(Contents(payload), p.header.meta) = Decoded(f)
    BY <1>1, <2>6 DEF Decoded
  <2>8. CASE ~Decoded(f).ok
    <3>1. PayloadStage(p) = Outcome(p, "kMetadataParseError")
      BY <1>9, <2>7, <2>8 DEF PayloadStage, len, payload
    <3>2. Unfinished(p, n, a, FALSE)
      BY <2>2, <2>8 DEF Unfinished, Readable, f, e
    <3>. QED
      BY <3>1, <3>2, Outcomes
  <2>9. CASE Decoded(f).ok
    <3>. DEFINE meaning == AsMap(Decoded(f).items)
                body == Erase(payload, p.header.meta)
                rest == Erase(p.buffer, len)
                q == Finish(p.header, meaning, body, rest)
    <3>1. PayloadStage(p)
            = Complete([p EXCEPT !.metadata = meaning, !.body = body, !.buffer = rest])
      BY <1>9, <2>7, <2>9 DEF PayloadStage, len, payload
    <3>2. body = SubSeq(FrameBytes(n + 1, Size(f)), HeaderSize + m + 1, p.header.total)
      <4>. DEFINE i == n + 1
                  l == m + c
                  t == HeaderSize + m + c
      <4>1. BodyBehind(payload, i, HeaderSize, m, c, l, t)
        BY <1>2, <1>3, <2>5 DEF BodyBehind
      <4>. HIDE DEF i, l, t
      <4>2. Erase(payload, m) = SubSeq(FrameBytes(i, t), HeaderSize + m + 1, t)
        BY <4>1, BodyOfFrame
      <4>3. p.header.meta = m
        BY <1>1 DEF m
      <4>. QED
        BY <1>5, <4>2, <4>3, Zenon DEF i, t
    <3>3. Made(n + 1) = [header |-> p.header, metadata |-> meaning, body |-> body]
      <4>1. RequestFrom(n + 1)
              = [header |-> p.header, metadata |-> Meaning[f],
                 body |-> SubSeq(FrameBytes(n + 1, Size(f)), HeaderSize + m + 1, p.header.total)]
        BY <1>1 DEF RequestFrom, f, m
      <4>2. RequestFrom(n + 1).body = body
        BY <3>2, <4>1
      <4>. QED
        BY <1>1, <4>2 DEF Made, f
    <3>. HIDE DEF meaning, body, rest
    <3>4. /\ PayloadStage(p) = Outcome(q, "kOk") /\ IsParser(q)
          /\ q.buffer = rest /\ q.state = "kComplete" /\ q.complete = TRUE
          /\ FrameOf(q) = Made(n + 1)
      <4>1. PayloadStage(p) = Outcome(q, "kOk")
        BY <3>1, CompletePayload, Zenon
      <4>2. /\ IsParser(q) /\ q.buffer = rest /\ q.state = "kComplete" /\ q.complete = TRUE
            /\ FrameOf(q) = [header |-> p.header, metadata |-> meaning, body |-> body]
        <5>1. IsFinished(q, p.header, meaning, body, rest)
          BY FinishRead, Zenon
        <5>. QED
          BY <5>1, Zenon DEF IsFinished
      <4>. QED
        BY <3>3, <4>1, <4>2, Zenon
    <3>. HIDE DEF q
    <3>5. Whole(q, n, a)
      BY <1>1, <2>2, <2>9, <3>4 DEF Whole, Valid, Readable, f, e
    <3>6. q.buffer = SubSeq(wire, starts[n + 2] + 1, a)
      BY <2>5, <3>4 DEF rest, e
    <3>. QED
      BY <3>4, <3>5, <3>6, Outcomes
  <2>. QED
    BY <2>8, <2>9
<1>. QED
  BY <1>8, <1>9

-----------------------------------------------------------------------------
(* The header stage.                                                        *)

(* the parser q has these members *)
Has(q, st, bu, he, me, bo, co) ==
  /\ IsParser(q)
  /\ q.state = st /\ q.buffer = bu /\ q.header = he
  /\ q.metadata = me /\ q.body = bo /\ q.complete = co

LEMMA MembersHas ==
  ASSUME NEW st, NEW bu, NEW he, NEW me, NEW bo, NEW co, NEW q,
         q = Members(st, bu, he, me, bo, co), he \in HeaderFields
  PROVE  Has(q, st, bu, he, me, bo, co)
  BY MembersRead DEF Has

IsHeader(h) == h \in HeaderFields

(* decodeHeader() alone, *)
LEMMA AssignHeader ==
  ASSUME NEW p, IsParser(p), NEW h, IsHeader(h)
  PROVE  Has([p EXCEPT !.header = h], p.state, p.buffer, h, p.metadata, p.body, p.complete)
<1>. DEFINE st == p.state
            bu == p.buffer
            he == p.header
            me == p.metadata
            bo == p.body
            co == p.complete
            q == [p EXCEPT !.header = h]
<1>1. p = Members(st, bu, he, me, bo, co)
  BY DEF IsParser
<1>. HIDE DEF st, bu, he, me, bo, co
<1>2. q = Members(st, bu, h, me, bo, co)
  BY <1>1 DEF Members
<1>. HIDE DEF q
<1>3. h \in HeaderFields
  BY DEF IsHeader
<1>4. Has(q, st, bu, h, me, bo, co)
  BY <1>2, <1>3, MembersHas
<1>. QED
  BY <1>4, Zenon DEF q, st, bu, me, bo, co

(* with the bytes of the header taken off, *)
LEMMA AssignHeaderBuffer ==
  ASSUME NEW p, IsParser(p), NEW h, IsHeader(h), NEW b
  PROVE  Has([p EXCEPT !.header = h, !.buffer = b], p.state, b, h, p.metadata, p.body, p.complete)
<1>. DEFINE st == p.state
            bu == p.buffer
            he == p.header
            me == p.metadata
            bo == p.body
            co == p.complete
            q == SetHeader(p, h, b)
<1>1. p = Members(st, bu, he, me, bo, co)
  BY DEF IsParser
<1>. HIDE DEF st, bu, he, me, bo, co
<1>2. q = Members(st, b, h, me, bo, co)
  BY <1>1, MembersHeader
<1>. HIDE DEF q
<1>3. h \in HeaderFields
  BY DEF IsHeader
<1>4. Has(q, st, b, h, me, bo, co)
  BY <1>2, <1>3, MembersHas
<1>. QED
  BY <1>4, Zenon DEF q, st, me, bo, co, SetHeader

(* the change of state, *)
LEMMA AssignState ==
  ASSUME NEW p, IsParser(p), NEW s
  PROVE  Has([p EXCEPT !.state = s], s, p.buffer, p.header, p.metadata, p.body, p.complete)
<1>. DEFINE st == p.state
            bu == p.buffer
            he == p.header
            me == p.metadata
            bo == p.body
            co == p.complete
            q == [p EXCEPT !.state = s]
<1>1. p = Members(st, bu, he, me, bo, co) /\ he \in HeaderFields
  BY DEF IsParser
<1>. HIDE DEF st, bu, he, me, bo, co
<1>2. q = Members(s, bu, he, me, bo, co)
  BY <1>1 DEF Members
<1>. HIDE DEF q
<1>4. Has(q, s, bu, he, me, bo, co)
  BY <1>1, <1>2, MembersHas
<1>. QED
  BY <1>4, Zenon DEF q, bu, he, me, bo, co

(* and more bytes in the buffer.                                            *)
LEMMA AssignBuffer ==
  ASSUME NEW p, IsParser(p), NEW b
  PROVE  Has([p EXCEPT !.buffer = b], p.state, b, p.header, p.metadata, p.body, p.complete)
<1>. DEFINE st == p.state
            bu == p.buffer
            he == p.header
            me == p.metadata
            bo == p.body
            co == p.complete
            q == [p EXCEPT !.buffer = b]
<1>1. p = Members(st, bu, he, me, bo, co) /\ he \in HeaderFields
  BY DEF IsParser
<1>. HIDE DEF st, bu, he, me, bo, co
<1>2. q = Members(st, b, he, me, bo, co)
  BY <1>1 DEF Members
<1>. HIDE DEF q
<1>4. Has(q, st, b, he, me, bo, co)
  BY <1>1, <1>2, MembersHas
<1>. QED
  BY <1>4, Zenon DEF q, st, he, me, bo, co

(* A parser that is complete without a payload.                             *)
LEMMA CompleteAtOnce ==
  ASSUME NEW p, IsParser(p)
  PROVE  Complete(p) = Outcome(Finish(p.header, p.metadata, p.body, p.buffer), "kOk")
<1>. DEFINE st == p.state
            bu == p.buffer
            he == p.header
            me == p.metadata
            bo == p.body
            co == p.complete
            t == TRUE
<1>1. p = Members(st, bu, he, me, bo, co)
  BY DEF IsParser
<1>. HIDE DEF st, bu, he, me, bo, co, t
<1>2. SetComplete(p, "kComplete", t) = Members("kComplete", bu, he, me, bo, t)
  BY <1>1, MembersComplete
<1>3. SetComplete(p, "kComplete", TRUE) = Finish(p.header, p.metadata, p.body, p.buffer)
  BY <1>2, Zenon DEF t, Finish, he, me, bo, bu
<1>. QED
  BY <1>3, Zenon DEF Complete, SetComplete

(* The bytes at the start of a frame are recognised as its header.          *)
LEMMA HeaderDecoded ==
  ASSUME NEW w, NEW s, NEW i, NEW a, NEW e, NEW b,
         Sliced(w, s, 0, HeaderSize, i, a, HeaderSize, e, b), HeaderSize \in Nat, HeaderSize >= 1
  PROVE  decodeHeader(b) = stream[i].header
<1>. DEFINE c == SubSeq(b, 1, HeaderSize)
            d == FrameBytes(i, HeaderSize)
<1>0. /\ w \in Seq(Byte) /\ s \in Nat /\ i \in Nat /\ a \in 0..Len(w) /\ e = s + HeaderSize /\ e <= a
      /\ FrameAt(w, s, i, HeaderSize) /\ b = SubSeq(w, (s + 0) + 1, a)
  BY DEF Sliced
<1>1. PayloadAt(c, i, 0, HeaderSize)
  BY PayloadSlice
<1>2. /\ d \in Seq(Byte) /\ Len(d) = HeaderSize
      /\ \A k \in 1..HeaderSize : d[k] = [frame |-> i, offset |-> k]
  BY <1>0, FrameBytesType
<1>. HIDE DEF c, d
<1>3. /\ c \in Seq(Byte) /\ Len(c) = HeaderSize
      /\ \A k \in 1..HeaderSize : c[k] = [frame |-> i, offset |-> k]
  BY <1>1 DEF PayloadAt
<1>4. c = d
  BY <1>2, <1>3, SeqEqual
<1>5. b[1].frame = i
  <2>1. s + 0 = s /\ s <= a /\ 1 \in 1..(a - s) /\ 1 \in 1..HeaderSize
    BY <1>0
  <2>2. b = SubSeq(w, s + 1, a)
    BY <1>0, <2>1, Zenon
  <2>3. b[1] = w[s + 1]
    BY <1>0, <2>1, <2>2, SliceType
  <2>4. w[s + 1] = [frame |-> i, offset |-> 1]
    BY <1>0, <2>1, Zenon DEF FrameAt
  <2>. QED
    BY <2>3, <2>4
<1>. QED
  BY <1>4, <1>5, Zenon DEF decodeHeader, c, d

(* A frame without a payload: nothing is decoded, and there is no body.     *)
LEMMA BareFrame ==
  ASSUME WireInv, NEW i \in DOMAIN stream, Valid(i), stream[i].header.total = HeaderSize
  PROVE  /\ Readable(i) /\ Size(stream[i]) = HeaderSize
         /\ Made(i) = [header |-> stream[i].header, metadata |-> AsMap(<<>>), body |-> <<>>]
<1>. DEFINE f == stream[i]
            m == f.header.meta
            c == f.header.body
            w == FrameBytes(i, HeaderSize)
<1>1. f \in Frames /\ i \in Nat
  <2>1. /\ Len(stream) \in Nat /\ DOMAIN stream = 1..Len(stream)
        /\ \A j \in DOMAIN stream : stream[j] \in Frames
    BY WireTypes
  <2>. QED
    BY <2>1
<1>2. /\ HeaderSize \in Nat /\ m \in Nat /\ c \in Nat
      /\ f.header.total = HeaderSize + m + c /\ Size(f) = f.header.total
  BY <1>1, SizeFacts DEF Valid
<1>3. m = 0
  <2>1. HeaderSize = HeaderSize + m + c
    BY <1>2
  <2>. HIDE DEF m, c
  <2>. QED
    BY <1>2, <2>1
<1>4. Decoded(f).ok = TRUE /\ Decoded(f).items = <<>>
  BY DEF Decoded, Finished
<1>5. w \in Seq(Byte)
  BY <1>1, <1>2, FrameBytesType
<1>. HIDE DEF w
<1>6. SubSeq(w, HeaderSize + m + 1, HeaderSize) = <<>>
  <2>1. HeaderSize + m + 1 = HeaderSize + 1
    BY <1>2, <1>3
  <2>2. SubSeq(w, HeaderSize + 1, HeaderSize) = <<>>
    BY <1>2, <1>5, SubSeqEmpty
  <2>. QED
    BY <2>1, <2>2, Zenon
<1>7. RequestFrom(i).body = <<>>
  BY <1>2, <1>6 DEF RequestFrom, w
<1>. QED
  BY <1>2, <1>4, <1>7 DEF Made, Readable

(* The header stage waits for the whole header, refuses it if it is not     *)
(* valid, and otherwise goes on to the payload if there is one.             *)
LEMMA HeaderOutcome ==
  ASSUME WireInv, NEW n \in Nat, n <= Len(stream), NEW a \in 0..Len(wire),
         NEW p, IsParser(p), AtHeader(p, n, a)
  PROVE  FeedOK(HeaderStage(p), n, a)
<1>. DEFINE f == stream[n + 1]
            s == starts[n + 1]
            b == p.buffer
<1>1. /\ p.state = "kNeedHeader" /\ p.complete = FALSE
      /\ p.metadata = AsMap(<<>>) /\ p.body = <<>>
      /\ s <= a /\ b = SubSeq(wire, s + 1, a)
  BY DEF AtHeader
<1>2. /\ wire \in Seq(Byte) /\ Len(wire) \in Nat /\ a \in Nat /\ a <= Len(wire) /\ s \in Nat
  <2>1. /\ wire \in Seq(Byte) /\ Len(wire) \in Nat /\ Len(stream) \in Nat
        /\ \A i \in 1..(Len(stream) + 1) : starts[i] \in Nat
    BY WireTypes DEF WireInv
  <2>2. n + 1 \in 1..(Len(stream) + 1)
    BY <2>1
  <2>. QED
    BY <2>1, <2>2
<1>3. HeaderSize \in Nat /\ HeaderSize >= 1
  BY ParserAssumption
<1>. HIDE DEF s, f
<1>4. Len(b) = a - s
  BY <1>1, <1>2, SliceType
<1>5. CASE Len(b) < HeaderSize
  <2>1. HeaderStage(p) = Outcome(p, "kNeedMoreData")
    BY <1>5 DEF HeaderStage
  <2>2. a < s + HeaderSize
    <3>. HIDE DEF b
    <3>. QED
      BY <1>2, <1>3, <1>4, <1>5
  <2>3. Unfinished(p, n, a, TRUE)
    BY <2>2 DEF Unfinished, s
  <2>. QED
    BY <2>1, <2>3, Outcomes
<1>6. CASE ~(Len(b) < HeaderSize)
  <2>. DEFINE e == s + HeaderSize
              rest == SubSeq(wire, e + 1, a)
  <2>1. e \in Nat /\ e <= a /\ ~(a < e) /\ s < a
    <3>. HIDE DEF b
    <3>. QED
      BY <1>2, <1>3, <1>4, <1>6
  <2>2. n + 1 \in DOMAIN stream
    BY <2>1, FrameFollows DEF s
  <2>3. /\ f \in Frames /\ starts[n + 2] = s + Size(f) /\ HeaderSize <= Size(f)
        /\ \A k \in 1..Size(f) : wire[s + k] = [frame |-> n + 1, offset |-> k]
        /\ Size(f) \in Nat
    BY <2>2, FrameHere DEF f, s
  <2>4. Sliced(wire, s, 0, HeaderSize, n + 1, a, HeaderSize, e, b)
    <3>1. FrameAt(wire, s, n + 1, HeaderSize)
      <4>1. \A k \in 1..HeaderSize : k \in 1..Size(f)
        BY <1>3, <2>3
      <4>. QED
        BY <2>3, <4>1, Zenon DEF FrameAt
    <3>2. s + 0 = s /\ 0 \in Nat /\ n + 1 \in Nat /\ HeaderSize = 0 + HeaderSize
      BY <1>2, <1>3
    <3>. QED
      BY <1>1, <1>2, <1>3, <2>1, <3>1, <3>2, Zenon DEF Sliced
  <2>. HIDE DEF e
  <2>5. decodeHeader(b) = f.header /\ Erase(b, HeaderSize) = rest
    <3>1. decodeHeader(b) = f.header
      BY <1>3, <2>4, HeaderDecoded, Zenon DEF f
    <3>2. Erase(b, HeaderSize) = rest
      <4>. HIDE DEF b
      <4>. QED
        BY <2>4, PayloadSlice
    <3>. QED
      BY <3>1, <3>2
  <2>6. IsHeader(f.header)
    BY <2>3, SizeFacts DEF IsHeader
  <2>. DEFINE h == f.header
              q == [p EXCEPT !.header = h, !.buffer = rest]
  <2>7. Has(q, "kNeedHeader", rest, h, AsMap(<<>>), <<>>, FALSE)
    <3>1. Has(q, p.state, rest, h, p.metadata, p.body, p.complete)
      BY <2>6, AssignHeaderBuffer, Zenon
    <3>. QED
      BY <1>1, <3>1, Zenon
  <2>8. CASE ~validateHeader(h)
    <3>. DEFINE r == [p EXCEPT !.header = h]
    <3>1. HeaderStage(p) = Outcome(r, "kInvalidHeader")
      BY <1>6, <2>5, <2>8 DEF HeaderStage
    <3>2. Has(r, "kNeedHeader", b, h, AsMap(<<>>), <<>>, FALSE)
      <4>1. Has(r, p.state, p.buffer, h, p.metadata, p.body, p.complete)
        BY <2>6, AssignHeader, Zenon
      <4>. QED
        BY <1>1, <4>1, Zenon
    <3>. HIDE DEF r
    <3>3. IsParser(r) /\ AtHeader(r, n, a)
      BY <1>1, <3>2, Zenon DEF AtHeader, Has, s
    <3>4. ~Valid(n + 1)
      BY <2>8, Zenon DEF Valid, f
    <3>5. Unfinished(r, n, a, FALSE)
      BY <2>1, <2>2, <3>3, <3>4, Zenon DEF Unfinished, s, e
    <3>. QED
      BY <3>1, <3>3, <3>5, Outcomes
  <2>9. CASE validateHeader(h) /\ h.total = HeaderSize
    <3>0. Valid(n + 1)
      BY <2>2, <2>9, Zenon DEF Valid, f
    <3>1. HeaderStage(p) = Complete(q)
      BY <1>6, <2>5, <2>9 DEF HeaderStage
    <3>. HIDE DEF q
    <3>. DEFINE r == Finish(q.header, q.metadata, q.body, q.buffer)
    <3>2. IsParser(q) /\ q.header = h /\ q.metadata = AsMap(<<>>) /\ q.body = <<>> /\ q.buffer = rest
      BY <2>7, Zenon DEF Has
    <3>3. HeaderStage(p) = Outcome(r, "kOk")
      BY <3>1, <3>2, CompleteAtOnce, Zenon
    <3>4. IsFinished(r, q.header, q.metadata, q.body, q.buffer)
      BY <3>2, FinishRead, Zenon
    <3>. HIDE DEF r
    <3>5. /\ Readable(n + 1) /\ Size(f) = HeaderSize
          /\ Made(n + 1) = [header |-> h, metadata |-> AsMap(<<>>), body |-> <<>>]
      BY <2>2, <2>9, <3>0, BareFrame, Zenon DEF f
    <3>6. starts[n + 2] = e
      BY <2>3, <3>5, Zenon DEF e
    <3>7. /\ IsParser(r) /\ r.buffer = SubSeq(wire, starts[n + 2] + 1, a)
          /\ r.state = "kComplete" /\ r.complete = TRUE /\ FrameOf(r) = Made(n + 1)
      BY <3>2, <3>4, <3>5, <3>6, Zenon DEF IsFinished
    <3>8. Whole(r, n, a)
      BY <2>1, <3>0, <3>5, <3>6, <3>7, Zenon DEF Whole
    <3>. QED
      BY <3>3, <3>7, <3>8, Outcomes, Zenon
  <2>10. CASE validateHeader(h) /\ h.total # HeaderSize
    <3>0. Valid(n + 1)
      BY <2>2, <2>10, Zenon DEF Valid, f
    <3>. DEFINE r == [q EXCEPT !.state = "kNeedPayload"]
    <3>1. HeaderStage(p) = PayloadStage(r)
      BY <1>6, <2>5, <2>10 DEF HeaderStage
    <3>. HIDE DEF q
    <3>2. Has(r, "kNeedPayload", rest, h, AsMap(<<>>), <<>>, FALSE)
      <4>1. Has(r, "kNeedPayload", q.buffer, q.header, q.metadata, q.body, q.complete)
        BY <2>7, AssignState, Zenon DEF Has
      <4>. QED
        BY <2>7, <4>1, Zenon DEF Has
    <3>. HIDE DEF r
    <3>3. IsParser(r) /\ AtPayload(r, n, a)
      BY <2>1, <2>10, <3>0, <3>2, Zenon DEF AtPayload, Has, s, e, f
    <3>. QED
      BY <3>1, <3>3, PayloadOutcome
  <2>. QED
    BY <2>8, <2>9, <2>10
<1>. QED
  BY <1>5, <1>6

-----------------------------------------------------------------------------
(* feed(): wherever the parser stands in a frame and however many bytes     *)
(* come, it ends where a parser given all of them at once would.            *)

LEMMA FeedAtHeader ==
  ASSUME WireInv, NEW n \in Nat, n <= Len(stream), NEW a \in Nat, NEW k \in Nat, a + k <= Len(wire),
         NEW p, IsParser(p), AtHeader(p, n, a)
  PROVE  FeedOK(feed(p, SubSeq(wire, a + 1, a + k)), n, a + k)
<1>. DEFINE s == starts[n + 1]
            d == SubSeq(wire, a + 1, a + k)
            t == a + k
            q == [p EXCEPT !.buffer = p.buffer \o d]
<1>1. /\ p.state = "kNeedHeader" /\ p.complete = FALSE
      /\ p.metadata = AsMap(<<>>) /\ p.body = <<>>
      /\ s <= a /\ p.buffer = SubSeq(wire, s + 1, a)
  BY DEF AtHeader
<1>2. wire \in Seq(Byte) /\ s \in Nat /\ Len(wire) \in Nat
  <2>1. /\ wire \in Seq(Byte) /\ Len(wire) \in Nat /\ Len(stream) \in Nat
        /\ \A i \in 1..(Len(stream) + 1) : starts[i] \in Nat
    BY WireTypes DEF WireInv
  <2>2. n + 1 \in 1..(Len(stream) + 1)
    BY <2>1
  <2>. QED
    BY <2>1, <2>2
<1>3. feed(p, d) = HeaderStage(q)
  BY <1>1 DEF feed
<1>4. Has(q, p.state, p.buffer \o d, p.header, p.metadata, p.body, p.complete)
  BY AssignBuffer, Zenon
<1>. HIDE DEF s
<1>5. t \in 0..Len(wire) /\ s <= t
  BY <1>1, <1>2
<1>6. p.buffer \o d = SubSeq(wire, s + 1, t)
  <2>1. SubSeq(wire, s + 1, a) \o SubSeq(wire, a + 1, a + k) = SubSeq(wire, s + 1, a + k)
    BY <1>1, <1>2, SliceGrow
  <2>. QED
    BY <1>1, <2>1, Zenon
<1>. HIDE DEF q, d, t
<1>7. IsParser(q) /\ AtHeader(q, n, t)
  BY <1>1, <1>4, <1>5, <1>6, Zenon DEF AtHeader, Has, s
<1>8. FeedOK(HeaderStage(q), n, t)
  BY <1>5, <1>7, HeaderOutcome
<1>. QED
  BY <1>3, <1>8, Zenon DEF d, t

LEMMA FeedAtPayload ==
  ASSUME WireInv, NEW n \in Nat, NEW a \in Nat, NEW k \in Nat, a + k <= Len(wire),
         NEW p, IsParser(p), AtPayload(p, n, a)
  PROVE  FeedOK(feed(p, SubSeq(wire, a + 1, a + k)), n, a + k)
<1>. DEFINE s == starts[n + 1] + HeaderSize
            d == SubSeq(wire, a + 1, a + k)
            t == a + k
            q == [p EXCEPT !.buffer = p.buffer \o d]
<1>1. /\ p.state = "kNeedPayload" /\ p.complete = FALSE
      /\ Valid(n + 1) /\ p.header = stream[n + 1].header /\ p.header.total # HeaderSize
      /\ s <= a /\ p.buffer = SubSeq(wire, s + 1, a)
  BY DEF AtPayload
<1>2. wire \in Seq(Byte) /\ s \in Nat /\ Len(wire) \in Nat
  <2>1. wire \in Seq(Byte) /\ Len(wire) \in Nat
    BY WireTypes DEF WireInv
  <2>2. starts[n + 1] \in Nat /\ HeaderSize \in Nat
    BY <1>1, FrameHere DEF Valid
  <2>. QED
    BY <2>1, <2>2
<1>3. feed(p, d) = PayloadStage(q)
  BY <1>1 DEF feed
<1>4. Has(q, p.state, p.buffer \o d, p.header, p.metadata, p.body, p.complete)
  BY AssignBuffer, Zenon
<1>. HIDE DEF s
<1>5. t \in 0..Len(wire) /\ s <= t
  BY <1>1, <1>2
<1>6. p.buffer \o d = SubSeq(wire, s + 1, t)
  <2>1. SubSeq(wire, s + 1, a) \o SubSeq(wire, a + 1, a + k) = SubSeq(wire, s + 1, a + k)
    BY <1>1, <1>2, SliceGrow
  <2>. QED
    BY <1>1, <2>1, Zenon
<1>. HIDE DEF q, d, t
<1>7. IsParser(q) /\ AtPayload(q, n, t)
  BY <1>1, <1>4, <1>5, <1>6, Zenon DEF AtPayload, Has, s
<1>8. FeedOK(PayloadStage(q), n, t)
  BY <1>5, <1>7, PayloadOutcome
<1>. QED
  BY <1>3, <1>8, Zenon DEF d, t

(* What is wrong with a frame stays wrong when more of the stream arrives.  *)
LEMMA RefusalStays ==
  ASSUME WireInv, NEW n \in Nat, n <= Len(stream), NEW a \in Nat, NEW t \in Nat, a <= t,
         NEW p, Unfinished(p, n, a, FALSE), NEW o, FeedOK(o, n, t)
  PROVE  o.result \in {"kInvalidHeader", "kMetadataParseError"} /\ Unfinished(o.parser, n, t, FALSE)
<1>. DEFINE s == starts[n + 1]
            e == starts[n + 2]
<1>0. s \in Nat /\ HeaderSize \in Nat
  <2>1. Len(stream) \in Nat /\ \A i \in 1..(Len(stream) + 1) : starts[i] \in Nat
    BY WireTypes
  <2>2. n + 1 \in 1..(Len(stream) + 1)
    BY <2>1
  <2>. QED
    BY <2>1, <2>2, ParserAssumption
<1>1. /\ ~(a < s + HeaderSize)
      /\ ~Valid(n + 1) \/ (Valid(n + 1) /\ ~Readable(n + 1) /\ ~(a < e) /\ e \in Nat)
  <2>1. CASE AtHeader(p, n, a) /\ ~(a < s + HeaderSize) /\ ~Valid(n + 1)
    BY <2>1
  <2>2. CASE AtPayload(p, n, a) /\ ~(a < e) /\ ~Readable(n + 1)
    <3>1. Valid(n + 1) /\ s + HeaderSize <= a
      BY <2>2, Zenon DEF AtPayload
    <3>2. e \in Nat
      BY <3>1, FrameHere DEF Valid
    <3>3. ~(a < s + HeaderSize)
      <4>. HIDE DEF s
      <4>. QED
        BY <1>0, <3>1
    <3>. QED
      BY <2>2, <3>1, <3>2, <3>3, Zenon
  <2>. QED
    BY <2>1, <2>2, Zenon DEF Unfinished
<1>. HIDE DEF s, e
<1>2. ~(t < s + HeaderSize)
  BY <1>0, <1>1
<1>3. ~Valid(n + 1) \/ (~Readable(n + 1) /\ ~(t < e))
  <2>1. \A x \in Nat : ~(a < x) => ~(t < x)
    OBVIOUS
  <2>. QED
    BY <1>1, <2>1, Zenon
<1>4. ~Whole(o.parser, n, t)
  BY <1>3, Zenon DEF Whole
<1>5. ~Unfinished(o.parser, n, t, TRUE)
  BY <1>2, <1>3, Zenon DEF Unfinished, AtPayload, s, e
<1>. QED
  BY <1>4, <1>5, Zenon DEF FeedOK

-----------------------------------------------------------------------------
(* onMessage.                                                               *)

(* While nothing is sent, the stream can be read in either state.           *)
LEMMA StreamStill ==
  ASSUME UNCHANGED <<stream, wire, starts>>
  PROVE  PositionInv' <=> Standing(parser', Len(requests'), arrived', pc', link')
<1>1. stream' = stream /\ wire' = wire /\ starts' = starts
  OBVIOUS
<1>. QED
  BY <1>1 DEF PositionInv, Standing, Unfinished, AtHeader, AtPayload, Whole, Taken, Valid, Readable,
     Made, RequestFrom

(* What onMessage makes of the outcome of a feed() while the link is open,  *)
(* or of a refusal whatever the link is.                                    *)
LEMMA FeedStands ==
  ASSUME NEW n, n <= Len(stream), NEW a, a \in 0..Len(wire), NEW o, FeedOK(o, n, a),
         NEW p, p = o.parser, NEW c, NEW l, NEW was, was \in {"open", "shut", "closed"},
         IF o.result \in {"kOk", "kNeedMoreData"}
         THEN c = (IF o.parser.complete THEN "frames" ELSE "idle") /\ l = was
         ELSE c = "idle" /\ l = "closed",
         o.result \in {"kOk", "kNeedMoreData"} => was = "open"
  PROVE  Standing(p, n, a, c, l)
<1>0. IsParser(p)
  BY Zenon DEF FeedOK
<1>1. CASE o.result = "kOk" /\ Whole(p, n, a) /\ p.buffer = SubSeq(wire, starts[n + 2] + 1, a)
  <2>1. p.complete = TRUE
    BY <1>1, Zenon DEF Whole
  <2>2. c = "frames" /\ l = "open"
    BY <1>1, <2>1
  <2>. QED
    BY <1>0, <1>1, <2>2 DEF Standing
<1>2. CASE o.result = "kNeedMoreData" /\ Unfinished(p, n, a, TRUE)
  <2>1. p.complete = FALSE
    BY <1>2, Zenon DEF Unfinished, AtHeader, AtPayload
  <2>2. c = "idle" /\ l = "open"
    BY <1>2, <2>1
  <2>3. Unfinished(p, n, a, l = "open")
    BY <1>2, <2>2, Zenon DEF Unfinished
  <2>. QED
    BY <1>0, <2>2, <2>3 DEF Standing
<1>3. CASE o.result \in {"kInvalidHeader", "kMetadataParseError"} /\ Unfinished(p, n, a, FALSE)
  <2>1. c = "idle" /\ l = "closed"
    BY <1>3
  <2>2. Unfinished(p, n, a, l = "open")
    BY <1>3, <2>1 DEF Unfinished
  <2>. QED
    BY <1>0, <2>1, <2>2 DEF Standing
<1>. QED
  BY <1>1, <1>2, <1>3, Zenon DEF FeedOK

(* Bytes arrive.                                                            *)
LEMMA PositionOnMessage ==
  ASSUME WireInv, PositionInv, NEW k \in 1..(Len(wire) - arrived), OnMessage(k), Len(requests) \in Nat
  PROVE  PositionInv'
<1>. DEFINE n == Len(requests)
            t == arrived + k
            d == SubSeq(wire, arrived + 1, arrived + k)
            o == feed(parser, d)
<1>1. /\ pc = "idle" /\ AfterFeed(o) /\ arrived' = t
      /\ stream' = stream /\ wire' = wire /\ starts' = starts /\ requests' = requests
  BY DEF OnMessage
<1>2. /\ arrived \in 0..Len(wire) /\ n <= Len(stream)
      /\ IsParser(parser) /\ link \in {"open", "shut", "closed"}
      /\ \/ Unfinished(parser, n, arrived, link = "open")
         \/ Whole(parser, n, arrived) /\ link # "open" /\ ~Taken(n + 1)
  BY <1>1, Zenon DEF PositionInv, Standing
<1>3. /\ Len(wire) \in Nat /\ arrived \in Nat /\ k \in Nat /\ t \in Nat
      /\ arrived <= t /\ t <= Len(wire) /\ t \in 0..Len(wire)
  <2>1. Len(wire) \in Nat
    BY WireTypes
  <2>. QED
    BY <1>2, <2>1
<1>4. SUFFICES Standing(parser', n, t, pc', link')
  BY <1>1, StreamStill
<1>5. CASE Unfinished(parser, n, arrived, link = "open")
  <2>1. FeedOK(o, n, t)
    <3>1. CASE AtHeader(parser, n, arrived)
      BY <1>2, <1>3, <3>1, FeedAtHeader
    <3>2. CASE AtPayload(parser, n, arrived)
      BY <1>2, <1>3, <3>2, FeedAtPayload
    <3>. QED
      BY <1>5, <3>1, <3>2, Zenon DEF Unfinished
  <2>. HIDE DEF n, t, o
  <2>2. o.result \in {"kOk", "kNeedMoreData"} => link = "open"
    <3>. SUFFICES ASSUME link # "open" PROVE ~(o.result \in {"kOk", "kNeedMoreData"})
      OBVIOUS
    <3>1. Unfinished(parser, n, arrived, FALSE)
      BY <1>5, Zenon DEF Unfinished
    <3>2. o.result \in {"kInvalidHeader", "kMetadataParseError"}
      BY <1>2, <1>3, <2>1, <3>1, RefusalStays DEF n
    <3>. QED
      BY <3>2
  <2>3. /\ parser' = o.parser
        /\ IF o.result \in {"kOk", "kNeedMoreData"}
           THEN pc' = (IF o.parser.complete THEN "frames" ELSE "idle") /\ link' = link
           ELSE pc' = "idle" /\ link' = "closed"
    BY <1>1, Zenon DEF AfterFeed
  <2>. QED
    BY <1>2, <1>3, <2>1, <2>2, <2>3, FeedStands, Zenon
<1>6. CASE Whole(parser, n, arrived) /\ link # "open" /\ ~Taken(n + 1)
  <2>1. parser.complete = TRUE /\ starts[n + 2] <= arrived /\ n + 1 \in DOMAIN stream
    BY <1>6, Zenon DEF Whole, Valid
  <2>2. o = Outcome(parser, "kInternalError")
    BY <2>1 DEF feed
  <2>3. parser' = parser /\ pc' = "idle" /\ link' = "closed"
    <3>1. o.parser = parser /\ o.result = "kInternalError"
      BY <2>2 DEF Outcome
    <3>. HIDE DEF o
    <3>. QED
      BY <1>1, <3>1 DEF AfterFeed
  <2>4. starts[n + 2] <= t
    <3>1. starts[n + 2] \in Nat
      BY <2>1, FrameHere
    <3>. QED
      BY <1>3, <2>1, <3>1
  <2>5. Whole(parser, n, t)
    BY <1>6, <2>4, Zenon DEF Whole
  <2>. QED
    BY <1>2, <1>3, <1>6, <2>3, <2>5 DEF Standing
<1>. QED
  BY <1>2, <1>5, <1>6

(* What a whole frame's parser shows.                                       *)
LEMMA WholeShows ==
  ASSUME NEW p, NEW n, NEW a, Whole(p, n, a)
  PROVE  /\ Valid(n + 1) /\ Readable(n + 1) /\ FrameOf(p) = Made(n + 1)
         /\ p.header = stream[n + 1].header
         /\ p.metadata = AsMap(Decoded(stream[n + 1]).items)
         /\ Taken(n + 1) <=> p.header.type = "request" /\ Named(p.metadata)
<1>1. Valid(n + 1) /\ Readable(n + 1) /\ FrameOf(p) = Made(n + 1)
  BY Zenon DEF Whole
<1>2. FrameOf(p).header = p.header /\ FrameOf(p).metadata = p.metadata
  BY DEF FrameOf
<1>3. /\ Made(n + 1).header = stream[n + 1].header
      /\ Made(n + 1).metadata = AsMap(Decoded(stream[n + 1]).items)
  BY DEF Made
<1>4. /\ p.header = stream[n + 1].header
      /\ p.metadata = AsMap(Decoded(stream[n + 1]).items)
  BY <1>1, <1>2, <1>3, Zenon
<1>. QED
  BY <1>1, <1>4, Zenon DEF Taken

(* Between the calls of feed().                                             *)
LEMMA InFrames ==
  ASSUME PositionInv, pc = "frames"
  PROVE  /\ arrived \in 0..Len(wire) /\ Len(requests) <= Len(stream) /\ IsParser(parser)
         /\ link = "open" /\ Whole(parser, Len(requests), arrived)
         /\ parser.buffer = SubSeq(wire, starts[Len(requests) + 2] + 1, arrived)
<1>1. pc # "idle"
  OBVIOUS
<1>. QED
  BY <1>1, Zenon DEF PositionInv, Standing

(* A frame is refused with the frame still in the parser.                   *)
LEMMA PositionNotRequest ==
  ASSUME PositionInv, NotRequest
  PROVE  PositionInv'
<1>1. /\ pc = "frames" /\ parser.header.type # "request" /\ link' = "closed" /\ pc' = "idle"
      /\ stream' = stream /\ wire' = wire /\ starts' = starts /\ arrived' = arrived
      /\ parser' = parser /\ requests' = requests
  BY DEF NotRequest
<1>2. /\ arrived \in 0..Len(wire) /\ Len(requests) <= Len(stream) /\ IsParser(parser)
      /\ Whole(parser, Len(requests), arrived)
  BY <1>1, InFrames
<1>3. ~Taken(Len(requests) + 1)
  BY <1>1, <1>2, WholeShows, Zenon
<1>4. Standing(parser, Len(requests), arrived, "idle", "closed")
  BY <1>2, <1>3 DEF Standing
<1>. QED
  BY <1>1, <1>4, StreamStill

LEMMA PositionUnnamed ==
  ASSUME PositionInv, Unnamed
  PROVE  PositionInv'
<1>1. /\ pc = "frames" /\ ~Named(parser.metadata) /\ pc' = "idle"
      /\ link' = (IF link = "open" THEN "shut" ELSE link)
      /\ stream' = stream /\ wire' = wire /\ starts' = starts /\ arrived' = arrived
      /\ parser' = parser /\ requests' = requests
  BY DEF Unnamed
<1>2. /\ arrived \in 0..Len(wire) /\ Len(requests) <= Len(stream) /\ IsParser(parser)
      /\ Whole(parser, Len(requests), arrived) /\ link = "open"
  BY <1>1, InFrames
<1>3. ~Taken(Len(requests) + 1)
  BY <1>1, <1>2, WholeShows, Zenon
<1>4. Standing(parser, Len(requests), arrived, "idle", "shut")
  BY <1>2, <1>3 DEF Standing
<1>. QED
  BY <1>1, <1>2, <1>4, StreamStill

(* reset() keeps the bytes behind the frame: the parser is before the next. *)
LEMMA ResetStands ==
  ASSUME WireInv, NEW n \in Nat, NEW a, a \in 0..Len(wire), NEW p, Whole(p, n, a),
         p.buffer = SubSeq(wire, starts[n + 2] + 1, a)
  PROVE  /\ IsParser(reset(p)) /\ AtHeader(reset(p), n + 1, a) /\ n + 1 <= Len(stream)
         /\ n + 1 \in DOMAIN stream
<1>. DEFINE b == p.buffer
            r == Members("kNeedHeader", b, Emptied, AsMap(<<>>), <<>>, FALSE)
            no == FALSE
            m == AsMap(<<>>)
            nothing == <<>>
<1>1. reset(p) = r
  <2>. DEFINE q == Members("kNeedHeader", nothing, Emptied, m, nothing, no)
  <2>1. InitialParser = q
    BY Zenon DEF InitialParser, Members
  <2>2. reset(p) = [q EXCEPT !.buffer = b]
    BY <2>1, Zenon DEF reset
  <2>. HIDE DEF no, m, nothing, b
  <2>3. [q EXCEPT !.buffer = b] = Members("kNeedHeader", b, Emptied, m, nothing, no)
    BY DEF Members
  <2>. QED
    BY <2>2, <2>3, Zenon DEF no, m, nothing
<1>2. Emptied \in HeaderFields
  BY DEF Emptied, HeaderFields
<1>3. Has(r, "kNeedHeader", b, Emptied, m, nothing, no)
  <2>. DEFINE q == Members("kNeedHeader", b, Emptied, m, nothing, no)
  <2>1. q = r
    BY Zenon
  <2>. HIDE DEF no, m, nothing, r, b
  <2>2. Has(q, "kNeedHeader", b, Emptied, m, nothing, no)
    BY <1>2, MembersHas
  <2>. QED
    BY <2>1, <2>2, Zenon
<1>4. Valid(n + 1) /\ starts[n + 2] <= a
  BY Zenon DEF Whole
<1>5. n + 1 <= Len(stream) /\ n + 1 \in DOMAIN stream /\ (n + 1) + 1 = n + 2
  <2>1. Len(stream) \in Nat /\ DOMAIN stream = 1..Len(stream)
    BY WireTypes
  <2>. QED
    BY <1>4, <2>1 DEF Valid
<1>. HIDE DEF r
<1>6. AtHeader(r, n + 1, a) /\ IsParser(r)
  BY <1>3, <1>4, <1>5, Zenon DEF Has, AtHeader
<1>. QED
  BY <1>1, <1>5, <1>6, Zenon

(* A request is taken, and the next frame looked for in what is left.       *)
LEMMA PositionTakeRequest ==
  ASSUME WireInv, PositionInv, TakeRequest, Len(requests) \in Nat,
         Len(requests') = Len(requests) + 1
  PROVE  PositionInv'
<1>. DEFINE n == Len(requests)
            r == reset(parser)
            o == feed(r, <<>>)
<1>1. /\ pc = "frames" /\ AfterFeed(o) /\ arrived' = arrived
      /\ stream' = stream /\ wire' = wire /\ starts' = starts
  BY DEF TakeRequest
<1>2. /\ arrived \in 0..Len(wire) /\ IsParser(parser)
      /\ Whole(parser, n, arrived) /\ link = "open"
      /\ parser.buffer = SubSeq(wire, starts[n + 2] + 1, arrived)
  BY <1>1, InFrames
<1>3. IsParser(r) /\ AtHeader(r, n + 1, arrived) /\ n + 1 <= Len(stream)
  BY <1>2, ResetStands
<1>4. Len(wire) \in Nat /\ wire \in Seq(Byte)
  BY WireTypes DEF WireInv
<1>5. SubSeq(wire, arrived + 1, arrived + 0) = <<>> /\ arrived + 0 = arrived /\ arrived \in Nat
  <2>1. arrived + 0 = arrived /\ arrived \in Nat /\ arrived + 1 > arrived
    BY <1>2, <1>4
  <2>2. SubSeq(wire, arrived + 1, arrived) = <<>>
    BY <1>4, <2>1, SubSeqEmpty
  <2>. QED
    BY <2>1, <2>2, Zenon
<1>. HIDE DEF n, r
<1>6. FeedOK(o, n + 1, arrived)
  <2>. DEFINE m == n + 1
              d == SubSeq(wire, arrived + 1, arrived + 0)
  <2>1. m \in Nat /\ m <= Len(stream) /\ AtHeader(r, m, arrived) /\ 0 \in Nat
        /\ arrived + 0 <= Len(wire)
    BY <1>2, <1>3, <1>4, <1>5 DEF n
  <2>. HIDE DEF m
  <2>2. FeedOK(feed(r, SubSeq(wire, arrived + 1, arrived + 0)), m, arrived + 0)
    BY <1>3, <1>5, <2>1, FeedAtHeader
  <2>. QED
    BY <1>5, <2>2, Zenon DEF m
<1>7. /\ parser' = o.parser
      /\ IF o.result \in {"kOk", "kNeedMoreData"}
         THEN pc' = (IF o.parser.complete THEN "frames" ELSE "idle") /\ link' = link
         ELSE pc' = "idle" /\ link' = "closed"
  BY <1>1, Zenon DEF AfterFeed
<1>. HIDE DEF o
<1>8. Standing(parser', n + 1, arrived, pc', link')
  <2>1. link \in {"open", "shut", "closed"}
    BY <1>2
  <2>. QED
    BY <1>2, <1>3, <1>6, <1>7, <2>1, FeedStands, Zenon
<1>. QED
  BY <1>1, <1>8, StreamStill DEF n

(* Sending another frame changes nothing about the frames before it, *)
LEMMA SendKeeps ==
  ASSUME WireInv, NEW f \in Frames, ClientSends(f), NEW i \in DOMAIN stream
  PROVE  /\ stream'[i] = stream[i] /\ i \in DOMAIN stream'
         /\ Valid(i)' <=> Valid(i)
         /\ Readable(i)' <=> Readable(i)
         /\ Made(i)' = Made(i)
         /\ Taken(i)' <=> Taken(i)
<1>1. stream'[i] = stream[i]
  BY SendEffect
<1>2. i \in DOMAIN stream'
  <2>1. Len(stream) \in Nat /\ DOMAIN stream = 1..Len(stream)
    BY WireTypes
  <2>2. stream' \in Seq(Frames) /\ Len(stream') = Len(stream) + 1
    BY SendEffect
  <2>3. DOMAIN stream' = 1..Len(stream')
    BY <2>2, LenProperties
  <2>. QED
    BY <2>1, <2>2, <2>3
<1>3. Valid(i)' <=> Valid(i)
  BY <1>1, <1>2 DEF Valid
<1>4. Readable(i)' <=> Readable(i)
  BY <1>1 DEF Readable
<1>5. Made(i)' = Made(i)
  BY <1>1 DEF Made, RequestFrom
<1>6. Taken(i)' <=> Taken(i)
  BY <1>1, <1>3, <1>4 DEF Taken
<1>. QED
  BY <1>1, <1>2, <1>3, <1>4, <1>5, <1>6

(* nor about the bytes up to where the server has read.                     *)
LEMMA SendSlice ==
  ASSUME WireInv, NEW f \in Frames, ClientSends(f), NEW s \in Nat, NEW a \in 0..Len(wire), s <= a
  PROVE  SubSeq(wire', s + 1, a) = SubSeq(wire, s + 1, a)
<1>. DEFINE x == SubSeq(wire', s + 1, a)
            y == SubSeq(wire, s + 1, a)
<1>1. /\ wire \in Seq(Byte) /\ Len(wire) \in Nat /\ DOMAIN wire = 1..Len(wire)
      /\ wire' \in Seq(Byte) /\ Len(wire') = Len(wire) + Size(f) /\ Size(f) \in Nat
      /\ \A p \in DOMAIN wire : wire'[p] = wire[p]
  <2>1. wire \in Seq(Byte) /\ Len(wire) \in Nat /\ DOMAIN wire = 1..Len(wire) /\ Size(f) \in Nat
    BY WireTypes, SizeFacts DEF WireInv
  <2>2. /\ wire' \in Seq(Byte) /\ Len(wire') = Len(wire) + Size(f)
        /\ \A p \in DOMAIN wire : wire'[p] = wire[p]
    BY SendEffect
  <2>. QED
    BY <2>1, <2>2
<1>2. a \in 0..Len(wire')
  BY <1>1
<1>3. y \in Seq(Byte) /\ Len(y) = a - s /\ \A k \in 1..(a - s) : y[k] = wire[s + k]
  BY <1>1, SliceType
<1>4. x \in Seq(Byte) /\ Len(x) = a - s /\ \A k \in 1..(a - s) : x[k] = wire'[s + k]
  BY <1>1, <1>2, SliceType
<1>5. \A k \in 1..(a - s) : wire'[s + k] = wire[s + k]
  BY <1>1
<1>. HIDE DEF x, y
<1>6. \A k \in 1..(a - s) : x[k] = y[k]
  BY <1>3, <1>4, <1>5
<1>7. x = y
  BY <1>3, <1>4, <1>6, SeqEqual
<1>. QED
  BY <1>7 DEF x, y

LEMMA SendStands ==
  ASSUME WireInv, NEW f \in Frames, ClientSends(f),
         NEW p, NEW n \in Nat, NEW a, NEW c, NEW l, Standing(p, n, a, c, l)
  PROVE  Standing(p, n, a, c, l)'
<1>1. /\ a \in 0..Len(wire) /\ n <= Len(stream)
      /\ IsParser(p) /\ c \in {"idle", "frames"} /\ l \in {"open", "shut", "closed"}
  BY Zenon DEF Standing
<1>2. /\ Len(wire) \in Nat /\ Len(stream) \in Nat /\ DOMAIN stream = 1..Len(stream)
      /\ \A i \in 1..(Len(stream) + 1) : starts[i] \in Nat
  BY WireTypes
<1>3. /\ Len(stream') = Len(stream) + 1 /\ Len(wire') = Len(wire) + Size(f)
      /\ \A i \in 1..(Len(stream) + 1) : starts'[i] = starts[i]
  BY SendEffect
<1>4. a \in 0..Len(wire') /\ n <= Len(stream') /\ Size(f) \in Nat
  <2>1. Size(f) \in Nat
    BY SizeFacts
  <2>. QED
    BY <1>1, <1>2, <1>3, <2>1
<1>5. starts'[n + 1] = starts[n + 1] /\ starts[n + 1] \in Nat
  <2>1. n + 1 \in 1..(Len(stream) + 1)
    BY <1>1, <1>2
  <2>. QED
    BY <1>2, <1>3, <2>1
<1>6. ASSUME AtHeader(p, n, a) PROVE AtHeader(p, n, a)'
  <2>1. starts[n + 1] <= a
    BY <1>6, Zenon DEF AtHeader
  <2>2. SubSeq(wire', starts[n + 1] + 1, a) = SubSeq(wire, starts[n + 1] + 1, a)
    BY <1>1, <1>5, <2>1, SendSlice
  <2>. QED
    BY <1>5, <1>6, <2>2, Zenon DEF AtHeader
<1>7. ASSUME n + 1 \in DOMAIN stream
      PROVE  /\ starts'[n + 2] = starts[n + 2] /\ starts[n + 2] \in Nat
             /\ stream'[n + 1] = stream[n + 1] /\ n + 1 \in DOMAIN stream'
             /\ Valid(n + 1)' <=> Valid(n + 1)
             /\ Readable(n + 1)' <=> Readable(n + 1)
             /\ Made(n + 1)' = Made(n + 1)
             /\ Taken(n + 1)' <=> Taken(n + 1)
  <2>1. n + 2 \in 1..(Len(stream) + 1)
    BY <1>2, <1>7
  <2>2. starts'[n + 2] = starts[n + 2] /\ starts[n + 2] \in Nat
    BY <1>2, <1>3, <2>1
  <2>. DEFINE i == n + 1
  <2>3. i \in DOMAIN stream
    BY <1>7
  <2>. HIDE DEF i
  <2>4. /\ stream'[i] = stream[i] /\ i \in DOMAIN stream'
        /\ Valid(i)' <=> Valid(i)
        /\ Readable(i)' <=> Readable(i)
        /\ Made(i)' = Made(i)
        /\ Taken(i)' <=> Taken(i)
    BY <2>3, SendKeeps
  <2>. QED
    BY <2>2, <2>4 DEF i
<1>8. ASSUME c = "idle", Unfinished(p, n, a, l = "open")
      PROVE  Unfinished(p, n, a, l = "open")'
  <2>1. CASE /\ AtHeader(p, n, a)
             /\ (l = "open") <=> a < starts[n + 1] + HeaderSize
             /\ (l = "open") \/ (n + 1 \in DOMAIN stream /\ ~Valid(n + 1))
    <3>1. (l = "open") \/ (n + 1 \in DOMAIN stream' /\ ~Valid(n + 1)')
      BY <1>7, <2>1, Zenon
    <3>2. (l = "open") <=> a < starts'[n + 1] + HeaderSize
      BY <1>5, <2>1, Zenon
    <3>3. AtHeader(p, n, a)'
      BY <1>6, <2>1, Zenon
    <3>. QED
      BY <3>1, <3>2, <3>3, Zenon DEF Unfinished
  <2>2. CASE /\ AtPayload(p, n, a)
             /\ (l = "open") <=> a < starts[n + 2]
             /\ (l = "open") \/ ~Readable(n + 1)
    <3>1. n + 1 \in DOMAIN stream /\ Valid(n + 1) /\ starts[n + 1] + HeaderSize <= a
      BY <2>2, Zenon DEF AtPayload, Valid
    <3>2. SubSeq(wire', (starts[n + 1] + HeaderSize) + 1, a)
            = SubSeq(wire, (starts[n + 1] + HeaderSize) + 1, a)
      <4>. DEFINE s == starts[n + 1] + HeaderSize
      <4>1. HeaderSize \in Nat
        BY ParserAssumption
      <4>2. s \in Nat /\ s <= a
        BY <1>5, <3>1, <4>1
      <4>. HIDE DEF s
      <4>3. SubSeq(wire', s + 1, a) = SubSeq(wire, s + 1, a)
        BY <1>1, <4>2, SendSlice
      <4>. QED
        BY <4>3 DEF s
    <3>3. AtPayload(p, n, a)'
      BY <1>5, <1>7, <2>2, <3>1, <3>2, Zenon DEF AtPayload
    <3>4. (l = "open") <=> a < starts'[n + 2]
      BY <1>7, <2>2, <3>1, Zenon
    <3>5. (l = "open") \/ ~Readable(n + 1)'
      BY <1>7, <2>2, <3>1, Zenon
    <3>. QED
      BY <3>3, <3>4, <3>5, Zenon DEF Unfinished
  <2>. QED
    BY <1>8, <2>1, <2>2, Zenon DEF Unfinished
<1>9. ASSUME Whole(p, n, a)
      PROVE  /\ Whole(p, n, a)'
             /\ SubSeq(wire', starts'[n + 2] + 1, a) = SubSeq(wire, starts[n + 2] + 1, a)
             /\ Taken(n + 1)' <=> Taken(n + 1)
  <2>1. n + 1 \in DOMAIN stream /\ starts[n + 2] <= a
    BY <1>9, Zenon DEF Whole, Valid
  <2>2. SubSeq(wire', starts[n + 2] + 1, a) = SubSeq(wire, starts[n + 2] + 1, a)
    BY <1>1, <1>7, <2>1, SendSlice
  <2>3. Whole(p, n, a)'
    BY <1>7, <1>9, <2>1, Zenon DEF Whole
  <2>. QED
    BY <1>7, <2>1, <2>2, <2>3, Zenon
<1>10. CASE c = "idle" /\ Unfinished(p, n, a, l = "open")
  BY <1>1, <1>4, <1>8, <1>10, Zenon DEF Standing
<1>11. CASE /\ Whole(p, n, a)
            /\ c = "frames" => l = "open" /\ p.buffer = SubSeq(wire, starts[n + 2] + 1, a)
            /\ c = "idle" => l # "open" /\ ~Taken(n + 1)
  BY <1>1, <1>4, <1>9, <1>11, Zenon DEF Standing
<1>. QED
  BY <1>10, <1>11, Zenon DEF Standing

LEMMA PositionSend ==
  ASSUME WireInv, PositionInv, NEW f \in Frames, ClientSends(f), Len(requests) \in Nat
  PROVE  PositionInv'
<1>1. /\ parser' = parser /\ requests' = requests /\ arrived' = arrived
      /\ pc' = pc /\ link' = link
  BY DEF ClientSends
<1>2. Standing(parser, Len(requests), arrived, pc, link)
  BY DEF PositionInv
<1>. QED
  BY <1>1, <1>2, SendStands, Zenon DEF PositionInv

-----------------------------------------------------------------------------
(* The requests.                                                            *)

(* They are as many as is counted.                                          *)
LEMMA RequestsType ==
  ASSUME RequestsInv
  PROVE  Len(requests) \in Nat /\ DOMAIN requests = 1..Len(requests)
<1>. DEFINE S == {Made(i) : i \in DOMAIN stream}
<1>1. requests \in Seq(S)
  BY DEF RequestsInv
<1>. HIDE DEF S
<1>. QED
  BY <1>1, LenProperties

(* Neither the stream nor the requests change.                              *)
LEMMA RequestsStay ==
  ASSUME RequestsInv, UNCHANGED <<stream, requests>>
  PROVE  RequestsInv'
<1>1. stream' = stream /\ requests' = requests
  OBVIOUS
<1>2. \A i : Made(i)' = Made(i) /\ (Taken(i)' <=> Taken(i))
  BY <1>1 DEF Made, RequestFrom, Taken, Valid, Readable
<1>3. {Made(i)' : i \in DOMAIN stream'} = {Made(i) : i \in DOMAIN stream}
  BY <1>1, <1>2
<1>. QED
  BY <1>1, <1>2, <1>3 DEF RequestsInv

LEMMA RequestsSend ==
  ASSUME WireInv, RequestsInv, NEW f \in Frames, ClientSends(f)
  PROVE  RequestsInv'
<1>. DEFINE S == {Made(i) : i \in DOMAIN stream}
            T == {Made(i)' : i \in DOMAIN stream'}
<1>1. requests' = requests
  BY DEF ClientSends
<1>2. \A i \in DOMAIN stream :
        i \in DOMAIN stream' /\ Made(i)' = Made(i) /\ (Taken(i)' <=> Taken(i))
  BY SendKeeps
<1>3. \A x \in S : x \in T
  BY <1>2
<1>4. requests \in Seq(S) /\ \A i \in DOMAIN requests : Taken(i) /\ requests[i] = Made(i)
  BY DEF RequestsInv
<1>5. \A i \in DOMAIN requests : Taken(i)' /\ requests[i] = Made(i)'
  <2>1. \A i \in DOMAIN requests : i \in DOMAIN stream
    BY <1>4, Zenon DEF Taken, Valid
  <2>. QED
    BY <1>2, <1>4, <2>1, Zenon
<1>6. requests \in Seq(T)
  <2>. HIDE DEF S, T
  <2>1. Len(requests) \in Nat /\ requests \in [1..Len(requests) -> S]
    BY <1>4, LenProperties
  <2>2. requests \in [1..Len(requests) -> T]
    BY <1>3, <2>1
  <2>. QED
    BY <2>1, <2>2, SeqDef
<1>. QED
  BY <1>1, <1>5, <1>6, Zenon DEF RequestsInv

LEMMA RequestsTake ==
  ASSUME WireInv, PositionInv, RequestsInv, TakeRequest
  PROVE  RequestsInv' /\ Len(requests') = Len(requests) + 1
<1>. DEFINE n == Len(requests)
            S == {Made(i) : i \in DOMAIN stream}
            x == FrameOf(parser)
<1>1. /\ pc = "frames" /\ parser.header.type = "request" /\ Named(parser.metadata)
      /\ requests' = Append(requests, x) /\ stream' = stream
  BY DEF TakeRequest
<1>2. Whole(parser, n, arrived)
  BY <1>1, InFrames
<1>3. Taken(n + 1) /\ x = Made(n + 1) /\ n + 1 \in DOMAIN stream
  <2>1. /\ Valid(n + 1) /\ x = Made(n + 1)
        /\ Taken(n + 1) <=> parser.header.type = "request" /\ Named(parser.metadata)
    BY <1>2, WholeShows
  <2>. QED
    BY <1>1, <2>1, Zenon DEF Valid
<1>4. x \in S
  BY <1>3
<1>5. requests \in Seq(S) /\ \A i \in DOMAIN requests : Taken(i) /\ requests[i] = Made(i)
  BY DEF RequestsInv
<1>. HIDE DEF S, x
<1>6. /\ requests' \in Seq(S) /\ Len(requests') = n + 1
      /\ \A i \in 1..n : requests'[i] = requests[i]
      /\ requests'[n + 1] = x
  BY <1>1, <1>4, <1>5, AppendProperties
<1>7. n \in Nat /\ DOMAIN requests = 1..n /\ DOMAIN requests' = 1..(n + 1)
  BY <1>5, <1>6, LenProperties
<1>. HIDE DEF n
<1>8. \A i \in DOMAIN requests' : Taken(i) /\ requests'[i] = Made(i)
  <2>1. \A i \in 1..(n + 1) : i \in 1..n \/ i = n + 1
    BY <1>7
  <2>. QED
    BY <1>3, <1>5, <1>6, <1>7, <2>1, Zenon
<1>9. \A i : Made(i)' = Made(i) /\ (Taken(i)' <=> Taken(i))
  BY <1>1 DEF Made, RequestFrom, Taken, Valid, Readable
<1>10. {Made(i)' : i \in DOMAIN stream'} = S
  BY <1>1, <1>9 DEF S
<1>11. requests' \in Seq({Made(i)' : i \in DOMAIN stream'})
  BY <1>6, <1>10, Zenon
<1>. QED
  BY <1>6, <1>8, <1>9, <1>11, Zenon DEF RequestsInv, n

-----------------------------------------------------------------------------
(* The inductive invariant.                                                 *)

LEMMA ParserInit == Init => ParserInv
<1>. SUFFICES ASSUME Init PROVE ParserInv
  OBVIOUS
<1>1. /\ stream = <<>> /\ wire = <<>> /\ starts = <<0>> /\ arrived = 0
      /\ parser = InitialParser /\ pc = "idle" /\ link = "open" /\ requests = <<>>
  BY DEF Init
<1>2. WireInv
  BY WireInit
<1>3. /\ Len(stream) = 0 /\ Len(wire) = 0 /\ Len(requests) = 0 /\ starts[1] = 0
      /\ DOMAIN requests = {} /\ wire \in Seq(Byte)
  BY <1>1
<1>4. HeaderSize \in Nat /\ HeaderSize >= 1
  BY ParserAssumption
<1>5. /\ parser.state = "kNeedHeader" /\ parser.buffer = <<>> /\ parser.header = Emptied
      /\ parser.metadata = AsMap(<<>>) /\ parser.body = <<>> /\ parser.complete = FALSE
  BY <1>1 DEF InitialParser
<1>6. IsParser(parser)
  <2>1. parser = Members("kNeedHeader", <<>>, Emptied, AsMap(<<>>), <<>>, FALSE)
    BY <1>1, Zenon DEF InitialParser, Members
  <2>2. Emptied \in HeaderFields
    BY DEF Emptied, HeaderFields
  <2>. QED
    BY <1>5, <2>1, <2>2, Zenon DEF IsParser
<1>7. SubSeq(wire, 0 + 1, 0) = <<>>
  BY <1>3, SubSeqEmpty
<1>8. AtHeader(parser, 0, 0)
  <2>1. 0 + 1 = 1 /\ starts[0 + 1] = 0 /\ starts[0 + 1] <= 0
    BY <1>3
  <2>. QED
    BY <1>5, <1>7, <2>1, Zenon DEF AtHeader
<1>9. Unfinished(parser, 0, 0, link = "open")
  <2>1. 0 < starts[0 + 1] + HeaderSize /\ link = "open"
    BY <1>1, <1>3, <1>4
  <2>. QED
    BY <1>8, <2>1, Zenon DEF Unfinished
<1>10. PositionInv
  <2>1. 0 \in 0..Len(wire) /\ 0 <= Len(stream)
    BY <1>3
  <2>2. Standing(parser, 0, 0, pc, link)
    BY <1>1, <1>6, <1>9, <2>1 DEF Standing
  <2>. QED
    BY <1>1, <1>3, <2>2, Zenon DEF PositionInv
<1>11. RequestsInv
  <2>1. requests \in Seq({Made(i) : i \in DOMAIN stream})
    BY <1>1, EmptySeq
  <2>. QED
    BY <1>3, <2>1, Zenon DEF RequestsInv
<1>. QED
  BY <1>2, <1>10, <1>11 DEF ParserInv

(* Nothing is sent: the stream is where it was.                             *)
LEMMA WireStay ==
  ASSUME WireInv, UNCHANGED <<stream, wire, starts>>
  PROVE  WireInv'
<1>1. stream' = stream /\ wire' = wire /\ starts' = starts
  OBVIOUS
<1>. QED
  BY <1>1 DEF WireInv

LEMMA ParserNext == ParserInv /\ [Next]_vars => ParserInv'
<1>. SUFFICES ASSUME ParserInv, [Next]_vars PROVE ParserInv'
  OBVIOUS
<1>0. WireInv /\ PositionInv /\ RequestsInv /\ Len(requests) \in Nat
  BY RequestsType DEF ParserInv
<1>1. ASSUME NEW k \in 1..(Len(wire) - arrived), OnMessage(k) PROVE ParserInv'
  <2>1. UNCHANGED <<stream, wire, starts>> /\ UNCHANGED <<stream, requests>>
    BY <1>1 DEF OnMessage
  <2>. QED
    BY <1>0, <1>1, <2>1, WireStay, RequestsStay, PositionOnMessage DEF ParserInv
<1>2. CASE NotRequest
  <2>1. UNCHANGED <<stream, wire, starts>> /\ UNCHANGED <<stream, requests>>
    BY <1>2 DEF NotRequest
  <2>. QED
    BY <1>0, <1>2, <2>1, WireStay, RequestsStay, PositionNotRequest DEF ParserInv
<1>3. CASE Unnamed
  <2>1. UNCHANGED <<stream, wire, starts>> /\ UNCHANGED <<stream, requests>>
    BY <1>3 DEF Unnamed
  <2>. QED
    BY <1>0, <1>3, <2>1, WireStay, RequestsStay, PositionUnnamed DEF ParserInv
<1>4. CASE TakeRequest
  <2>1. UNCHANGED <<stream, wire, starts>>
    BY <1>4 DEF TakeRequest
  <2>2. RequestsInv' /\ Len(requests') = Len(requests) + 1
    BY <1>0, <1>4, RequestsTake
  <2>. QED
    BY <1>0, <1>4, <2>1, <2>2, WireStay, PositionTakeRequest DEF ParserInv
<1>5. ASSUME NEW f \in Frames, ClientSends(f) PROVE ParserInv'
  BY <1>0, <1>5, WireSend, RequestsSend, PositionSend DEF ParserInv
<1>6. CASE UNCHANGED vars
  <2>1. /\ UNCHANGED <<stream, wire, starts>> /\ UNCHANGED <<stream, requests>>
        /\ parser' = parser /\ arrived' = arrived /\ pc' = pc /\ link' = link /\ requests' = requests
    BY <1>6 DEF vars
  <2>2. PositionInv'
    BY <1>0, <2>1, StreamStill DEF PositionInv
  <2>. QED
    BY <1>0, <2>1, <2>2, WireStay, RequestsStay DEF ParserInv
<1>. QED
  BY <1>1, <1>2, <1>3, <1>4, <1>5, <1>6 DEF Next

LEMMA ParserInvariant == Spec => []ParserInv
  BY ParserInit, ParserNext, PTL DEF Spec

-----------------------------------------------------------------------------
(* What the invariant says of a server that has nothing left to do.         *)

(* The k-th byte of frame i has arrived when the server has read so far.    *)
LEMMA ArrivedMeans ==
  ASSUME WireInv, arrived \in 0..Len(wire), NEW i \in DOMAIN stream
  PROVE  Arrived(i, Size(stream[i])) <=> starts[i + 1] <= arrived
<1>. DEFINE k == Size(stream[i])
            s == starts[i]
            x == [frame |-> i, offset |-> k]
            w == SubSeq(wire, 1, arrived)
<1>1. /\ Len(stream) \in Nat /\ DOMAIN stream = 1..Len(stream) /\ stream[i] \in Frames
      /\ Len(wire) \in Nat /\ DOMAIN wire = 1..Len(wire) /\ s \in Nat /\ i \in Nat
      /\ wire \in Seq(Byte)
  <2>1. /\ Len(stream) \in Nat /\ DOMAIN stream = 1..Len(stream)
        /\ Len(wire) \in Nat /\ DOMAIN wire = 1..Len(wire) /\ wire \in Seq(Byte)
        /\ \A j \in DOMAIN stream : stream[j] \in Frames
        /\ \A j \in 1..(Len(stream) + 1) : starts[j] \in Nat
    BY WireTypes DEF WireInv
  <2>2. i \in 1..(Len(stream) + 1) /\ i \in Nat
    BY <2>1
  <2>. QED
    BY <2>1, <2>2
<1>2. k \in Nat /\ k >= 1
  <2>1. HeaderSize >= 1 /\ HeaderSize \in Nat /\ Size(stream[i]) \in Nat /\ Size(stream[i]) >= HeaderSize
    BY <1>1, SizeFacts
  <2>. QED
    BY <2>1
<1>3. starts[i + 1] = s + k /\ wire[s + k] = x
  <2>1. /\ \A j \in DOMAIN stream : starts[j + 1] = starts[j] + Size(stream[j])
        /\ \A j \in DOMAIN stream : \A l \in 1..Size(stream[j]) :
             wire[starts[j] + l] = [frame |-> j, offset |-> l]
    BY DEF WireInv
  <2>2. k \in 1..Size(stream[i])
    BY <1>2
  <2>. QED
    BY <2>1, <2>2, Zenon
<1>4. \A q \in DOMAIN wire : wire[q] = x => q = s + k
  <2>. SUFFICES ASSUME NEW q \in DOMAIN wire, wire[q] = x PROVE q = s + k
    OBVIOUS
  <2>1. q = starts[wire[q].frame] + wire[q].offset
    BY DEF WireInv
  <2>2. wire[q].frame = i /\ wire[q].offset = k
    OBVIOUS
  <2>. QED
    BY <2>1, <2>2, Zenon
<1>. HIDE DEF k, s, x
<1>5. DOMAIN w = 1..arrived /\ \A q \in 1..arrived : w[q] = wire[q]
  <2>1. 0 \in Nat /\ 0 <= arrived /\ arrived \in Nat
    BY <1>1
  <2>2. /\ SubSeq(wire, 0 + 1, arrived) \in Seq(Byte) /\ Len(SubSeq(wire, 0 + 1, arrived)) = arrived - 0
        /\ \A q \in 1..(arrived - 0) : SubSeq(wire, 0 + 1, arrived)[q] = wire[0 + q]
    BY <1>1, <2>1, SliceType
  <2>3. 0 + 1 = 1 /\ arrived - 0 = arrived /\ \A q \in 1..arrived : 0 + q = q
    BY <2>1
  <2>4. w \in Seq(Byte) /\ Len(w) = arrived /\ \A q \in 1..arrived : w[q] = wire[q]
    BY <2>2, <2>3
  <2>. HIDE DEF w
  <2>. QED
    BY <2>4, LenProperties
<1>. HIDE DEF w
<1>6. x \in Range(w) <=> \E q \in 1..arrived : wire[q] = x
  <2>1. Range(w) = {w[q] : q \in DOMAIN w}
    BY DEF Range
  <2>. QED
    BY <1>5, <2>1
<1>7. (\E q \in 1..arrived : wire[q] = x) <=> s + k <= arrived
  <2>1. \A q \in 1..arrived : q \in DOMAIN wire /\ q <= arrived
    BY <1>1
  <2>2. s + k <= arrived => s + k \in 1..arrived
    BY <1>1, <1>2
  <2>. QED
    BY <1>3, <1>4, <2>1, <2>2, Zenon
<1>. QED
  BY <1>3, <1>6, <1>7, Zenon DEF Arrived, w, x, k

(* With a decoder that reads back what clients encode, the frames that are  *)
(* taken are the acceptable ones, and with the metadata they mean.          *)
LEMMA TakenMeans ==
  ASSUME MetadataReadsBack, WireInv, NEW i \in DOMAIN stream
  PROVE  /\ Taken(i) <=> Acceptable(stream[i])
         /\ Taken(i) => Made(i) = RequestFrom(i)
<1>. DEFINE f == stream[i]
<1>1. f \in Frames
  BY WireTypes
<1>2. validateHeader(f.header) /\ f.wellFormed =>
        Decoded(f).ok /\ AsMap(Decoded(f).items) = f.says
  BY <1>1, Zenon DEF MetadataReadsBack
<1>3. Taken(i) <=> /\ validateHeader(f.header) /\ Decoded(f).ok /\ f.header.type = "request"
                   /\ Named(AsMap(Decoded(f).items))
  BY Zenon DEF Taken, Valid, Readable
<1>4. validateHeader(f.header) => Meaning[f] = AsMap(Decoded(f).items)
  BY <1>1, <1>2 DEF Meaning
<1>5. Taken(i) <=> Acceptable(f)
  BY <1>2, <1>3, <1>4, Zenon DEF Acceptable
<1>6. ASSUME Taken(i) PROVE Made(i) = RequestFrom(i)
  <2>1. Meaning[f] = AsMap(Decoded(f).items)
    BY <1>3, <1>4, <1>6, Zenon
  <2>2. /\ RequestFrom(i).body = SubSeq(FrameBytes(i, Size(f)), HeaderSize + f.header.meta + 1, f.header.total)
    BY DEF RequestFrom
  <2>. QED
    BY <2>1, <2>2, Zenon DEF Made, RequestFrom
<1>. QED
  BY <1>5, <1>6

(* The requests taken are those of the first frames, all of them arrived.   *)
(* The next frame has not, unless it was refused.                           *)
LEMMA Frontier ==
  ASSUME ParserInv, pc = "idle"
  PROVE  LET n == Len(requests)
         IN  /\ n \in Nat /\ n <= Len(stream) /\ arrived \in 0..Len(wire)
             /\ starts[n + 1] <= arrived
             /\ n + 1 \in DOMAIN stream /\ Taken(n + 1) => ~(starts[n + 2] <= arrived)
             /\ link # "open" <=> /\ n + 1 \in DOMAIN stream /\ ~Taken(n + 1)
                                  /\ starts[n + 2] <= arrived
<1>. DEFINE n == Len(requests)
            s == starts[n + 1]
            e == starts[n + 2]
            a == arrived
<1>0. WireInv /\ n \in Nat
  BY RequestsType DEF ParserInv
<1>1. /\ a \in 0..Len(wire) /\ n <= Len(stream)
      /\ \/ Unfinished(parser, n, a, link = "open")
         \/ Whole(parser, n, a) /\ link # "open" /\ ~Taken(n + 1)
  BY Zenon DEF ParserInv, PositionInv, Standing
<1>2. a \in Nat /\ s \in Nat /\ HeaderSize \in Nat
  <2>1. /\ Len(stream) \in Nat /\ Len(wire) \in Nat
        /\ \A j \in 1..(Len(stream) + 1) : starts[j] \in Nat
    BY <1>0, WireTypes
  <2>2. n + 1 \in 1..(Len(stream) + 1) /\ a \in Nat
    BY <1>0, <1>1, <2>1
  <2>. QED
    BY <2>1, <2>2, ParserAssumption
<1>3. ASSUME n + 1 \in DOMAIN stream
      PROVE  /\ e \in Nat /\ s + HeaderSize <= e
             /\ ~Valid(n + 1) => e = s + HeaderSize
  <2>1. /\ stream[n + 1] \in Frames /\ Size(stream[n + 1]) \in Nat
        /\ HeaderSize <= Size(stream[n + 1]) /\ e \in Nat /\ e = s + Size(stream[n + 1])
    BY <1>0, <1>3, FrameHere
  <2>2. ~Valid(n + 1) => Size(stream[n + 1]) = HeaderSize
    BY <1>3, <2>1, SizeFacts DEF Valid
  <2>3. s + HeaderSize <= e
    <3>. DEFINE z == Size(stream[n + 1])
    <3>. HIDE DEF z, s, e
    <3>1. z \in Nat /\ HeaderSize <= z /\ e = s + z
      BY <2>1 DEF z
    <3>. QED
      BY <1>2, <3>1
  <2>. QED
    BY <2>1, <2>2, <2>3, Zenon
<1>. HIDE DEF s, e, n, a
<1>4. CASE /\ AtHeader(parser, n, a)
           /\ (link = "open") <=> a < s + HeaderSize
           /\ (link = "open") \/ (n + 1 \in DOMAIN stream /\ ~Valid(n + 1))
  <2>1. s <= a
    BY <1>4, Zenon DEF AtHeader, s
  <2>2. CASE link = "open"
    <3>1. a < s + HeaderSize
      BY <1>4, <2>2, Zenon
    <3>2. n + 1 \in DOMAIN stream => ~(e <= a)
      BY <1>2, <1>3, <3>1
    <3>. QED
      BY <1>0, <1>1, <2>1, <2>2, <3>2, Zenon DEF n, s, e, a
  <2>3. CASE link # "open"
    <3>1. ~(a < s + HeaderSize) /\ n + 1 \in DOMAIN stream /\ ~Valid(n + 1)
      BY <1>4, <2>3, Zenon
    <3>2. e <= a
      BY <1>2, <1>3, <3>1
    <3>3. ~Taken(n + 1)
      BY <3>1, Zenon DEF Taken
    <3>. QED
      BY <1>0, <1>1, <2>1, <2>3, <3>1, <3>2, <3>3, Zenon DEF n, s, e, a
  <2>. QED
    BY <2>2, <2>3
<1>5. CASE /\ AtPayload(parser, n, a)
           /\ (link = "open") <=> a < e
           /\ (link = "open") \/ ~Readable(n + 1)
  <2>1. n + 1 \in DOMAIN stream /\ s + HeaderSize <= a
    BY <1>5, Zenon DEF AtPayload, Valid, s
  <2>2. s <= a /\ (e <= a <=> ~(a < e))
    BY <1>2, <1>3, <2>1
  <2>3. link # "open" => ~Taken(n + 1)
    BY <1>5, Zenon DEF Taken
  <2>. QED
    BY <1>0, <1>1, <1>5, <2>1, <2>2, <2>3, Zenon DEF n, s, e, a
<1>6. CASE Whole(parser, n, a) /\ link # "open" /\ ~Taken(n + 1)
  <2>1. n + 1 \in DOMAIN stream /\ e <= a
    BY <1>6, Zenon DEF Whole, Valid, e
  <2>2. s <= a
    BY <1>2, <1>3, <2>1
  <2>. QED
    BY <1>0, <1>1, <1>6, <2>1, <2>2, Zenon DEF n, s, e, a
<1>. QED
  BY <1>1, <1>4, <1>5, <1>6, Zenon DEF Unfinished, n, s, e, a

(* The frames up to some point are in front of what comes later.            *)
LEMMA StartsOrdered ==
  ASSUME WireInv, NEW i \in Nat, NEW j \in Nat, 1 <= i, i <= j, j <= Len(stream) + 1
  PROVE  starts[i] \in Nat /\ starts[j] \in Nat /\ starts[i] <= starts[j]
<1>1. Len(stream) \in Nat /\ \A k \in 1..(Len(stream) + 1) : starts[k] \in Nat
  BY WireTypes
<1>2. i \in 1..(Len(stream) + 1) /\ j \in 1..(Len(stream) + 1)
  BY <1>1
<1>. QED
  BY <1>1, <1>2 DEF WireInv

LEMMA TakenAreExpected ==
  ASSUME MetadataReadsBack, ParserInv, pc = "idle"
  PROVE  DOMAIN requests = Expected
<1>. DEFINE n == Len(requests)
<1>0. WireInv /\ RequestsInv /\ arrived \in 0..Len(wire)
  BY Frontier DEF ParserInv
<1>1. /\ n \in Nat /\ n <= Len(stream) /\ starts[n + 1] <= arrived
      /\ n + 1 \in DOMAIN stream /\ Taken(n + 1) => ~(starts[n + 2] <= arrived)
  BY Frontier
<1>2. Len(stream) \in Nat /\ DOMAIN stream = 1..Len(stream) /\ DOMAIN requests = 1..n
      /\ Len(wire) \in Nat /\ arrived \in Nat
  <2>1. Len(stream) \in Nat /\ DOMAIN stream = 1..Len(stream) /\ Len(wire) \in Nat
    BY <1>0, WireTypes
  <2>. QED
    BY <1>0, <2>1, RequestsType
<1>. HIDE DEF n
<1>3. \A i \in 1..n : i \in DOMAIN stream /\ Acceptable(stream[i])
  <2>1. \A i \in 1..n : Taken(i)
    BY <1>0, <1>2, Zenon DEF RequestsInv
  <2>2. \A i \in 1..n : i \in DOMAIN stream
    BY <1>1, <1>2
  <2>. QED
    BY <1>0, <2>1, <2>2, TakenMeans, Zenon
<1>4. ASSUME NEW i \in 1..n PROVE i \in Expected
  <2>1. i \in Nat /\ i + 1 \in Nat /\ n + 1 \in Nat /\ 1 <= i + 1 /\ i + 1 <= n + 1 /\ n + 1 <= Len(stream) + 1
    BY <1>1, <1>2
  <2>2. starts[i + 1] \in Nat /\ starts[n + 1] \in Nat /\ starts[i + 1] <= starts[n + 1]
    BY <1>0, <2>1, StartsOrdered
  <2>3. starts[i + 1] <= arrived
    BY <1>1, <1>2, <2>2
  <2>4. Arrived(i, Size(stream[i]))
    BY <1>0, <1>3, <2>3, ArrivedMeans
  <2>5. \A j \in 1..i : j \in 1..n
    BY <1>1
  <2>6. \A j \in 1..i : Acceptable(stream[j])
    BY <1>3, <2>5, Zenon
  <2>. QED
    BY <1>3, <2>4, <2>6, Zenon DEF Expected
<1>5. ASSUME NEW i \in Expected PROVE i \in 1..n
  <2>. SUFFICES ASSUME ~(i \in 1..n) PROVE FALSE
    OBVIOUS
  <2>1. /\ i \in DOMAIN stream /\ \A j \in 1..i : Acceptable(stream[j])
        /\ Arrived(i, Size(stream[i]))
    BY DEF Expected
  <2>2. i \in Nat /\ n + 1 \in 1..i /\ n + 1 \in DOMAIN stream /\ n + 2 \in Nat /\ i + 1 \in Nat
        /\ 1 <= n + 2 /\ n + 2 <= i + 1 /\ i + 1 <= Len(stream) + 1
    BY <1>1, <1>2, <2>1
  <2>3. Taken(n + 1)
    BY <1>0, <2>1, <2>2, TakenMeans, Zenon
  <2>4. starts[i + 1] <= arrived
    BY <1>0, <2>1, ArrivedMeans
  <2>5. starts[n + 2] \in Nat /\ starts[i + 1] \in Nat /\ starts[n + 2] <= starts[i + 1]
    BY <1>0, <2>2, StartsOrdered
  <2>6. starts[n + 2] <= arrived
    BY <1>2, <2>4, <2>5
  <2>. QED
    BY <1>1, <2>2, <2>3, <2>6, Zenon
<1>. QED
  BY <1>2, <1>4, <1>5

LEMMA TakenAsSent ==
  ASSUME MetadataReadsBack, ParserInv, NEW i \in DOMAIN requests
  PROVE  requests[i] = RequestFrom(i)
<1>1. WireInv /\ Taken(i) /\ requests[i] = Made(i) /\ i \in DOMAIN stream
  BY Zenon DEF ParserInv, RequestsInv, Taken, Valid
<1>. QED
  BY <1>1, TakenMeans, Zenon

LEMMA RefusalsExact ==
  ASSUME MetadataReadsBack, ParserInv, pc = "idle"
  PROVE  link = "open" <=> \A i \in DOMAIN stream : ~Refused(i)
<1>. DEFINE n == Len(requests)
<1>0. WireInv /\ RequestsInv /\ arrived \in 0..Len(wire)
  BY Frontier DEF ParserInv
<1>1. /\ n \in Nat /\ n <= Len(stream)
      /\ n + 1 \in DOMAIN stream /\ Taken(n + 1) => ~(starts[n + 2] <= arrived)
      /\ link # "open" <=> n + 1 \in DOMAIN stream /\ ~Taken(n + 1) /\ starts[n + 2] <= arrived
  BY Frontier
<1>2. Len(stream) \in Nat /\ DOMAIN stream = 1..Len(stream) /\ DOMAIN requests = 1..n
      /\ Len(wire) \in Nat /\ arrived \in Nat
  <2>1. Len(stream) \in Nat /\ DOMAIN stream = 1..Len(stream) /\ Len(wire) \in Nat
    BY <1>0, WireTypes
  <2>. QED
    BY <1>0, <2>1, RequestsType
<1>. HIDE DEF n
<1>3. \A i \in 1..n : Acceptable(stream[i])
  <2>1. \A i \in 1..n : Taken(i)
    BY <1>0, <1>2, Zenon DEF RequestsInv
  <2>2. \A i \in 1..n : i \in DOMAIN stream
    BY <1>1, <1>2
  <2>. QED
    BY <1>0, <2>1, <2>2, TakenMeans, Zenon
<1>4. ASSUME link = "open", NEW i \in DOMAIN stream, Refused(i) PROVE FALSE
  <2>1. /\ \A j \in 1..(i - 1) : Acceptable(stream[j])
        /\ ~Acceptable(stream[i]) /\ Arrived(i, Size(stream[i]))
    BY <1>4 DEF Refused
  <2>2. starts[i + 1] <= arrived
    BY <1>0, <2>1, ArrivedMeans
  <2>3. ~(i \in 1..n)
    BY <1>3, <2>1, Zenon
  <2>4. CASE i = n + 1
    <3>1. ~Taken(n + 1) /\ n + 1 \in DOMAIN stream
      BY <1>0, <1>4, <2>1, <2>4, TakenMeans, Zenon
    <3>2. starts[n + 2] <= arrived
      <4>1. i + 1 = n + 2
        BY <1>1, <2>4
      <4>. QED
        BY <2>2, <4>1, Zenon
    <3>. QED
      BY <1>1, <1>4, <3>1, <3>2, Zenon
  <2>5. CASE i # n + 1
    <3>1. n + 1 \in 1..(i - 1) /\ n + 1 \in DOMAIN stream /\ n + 2 \in Nat /\ i + 1 \in Nat
          /\ 1 <= n + 2 /\ n + 2 <= i + 1 /\ i + 1 <= Len(stream) + 1
      BY <1>1, <1>2, <1>4, <2>3, <2>5
    <3>2. Taken(n + 1)
      BY <1>0, <2>1, <3>1, TakenMeans, Zenon
    <3>3. starts[n + 2] \in Nat /\ starts[i + 1] \in Nat /\ starts[n + 2] <= starts[i + 1]
      BY <1>0, <3>1, StartsOrdered
    <3>4. starts[n + 2] <= arrived
      BY <1>2, <2>2, <3>3
    <3>. QED
      BY <1>1, <3>1, <3>2, <3>4, Zenon
  <2>. QED
    BY <2>4, <2>5
<1>5. ASSUME link # "open" PROVE \E i \in DOMAIN stream : Refused(i)
  <2>1. n + 1 \in DOMAIN stream /\ ~Taken(n + 1) /\ starts[n + 2] <= arrived
    BY <1>1, <1>5, Zenon
  <2>2. ~Acceptable(stream[n + 1])
    BY <1>0, <2>1, TakenMeans, Zenon
  <2>3. Arrived(n + 1, Size(stream[n + 1]))
    <3>. DEFINE i == n + 1
    <3>1. i + 1 = n + 2 /\ i \in DOMAIN stream
      BY <1>1, <2>1
    <3>2. starts[i + 1] <= arrived
      BY <2>1, <3>1, Zenon
    <3>. HIDE DEF i
    <3>3. Arrived(i, Size(stream[i]))
      BY <1>0, <3>1, <3>2, ArrivedMeans
    <3>. QED
      BY <3>3 DEF i
  <2>4. \A j \in 1..((n + 1) - 1) : j \in 1..n
    BY <1>1
  <2>5. Refused(n + 1)
    BY <1>3, <2>2, <2>3, <2>4, Zenon DEF Refused
  <2>. QED
    BY <2>1, <2>5
<1>. QED
  BY <1>4, <1>5

-----------------------------------------------------------------------------
(* The theorems.                                                            *)

(* Every variable of FrameParser keeps its type, the parser's complete flag *)
(* agrees with its state, and no more requests are taken than frames came.  *)
THEOREM ParserTypeCorrect == Spec => []TypeOK
<1>. DEFINE Bound == Len(stream) <= MaxFrames
<1>1. Init => Bound
  BY ParserAssumption DEF Init
<1>2. ParserInv /\ Bound /\ [Next]_vars => Bound'
  <2>. SUFFICES ASSUME ParserInv, Bound, [Next]_vars PROVE Bound'
    OBVIOUS
  <2>0. WireInv /\ Len(stream) \in Nat /\ MaxFrames \in Nat
    BY WireTypes, ParserAssumption DEF ParserInv
  <2>1. ASSUME NEW f \in Frames, ClientSends(f) PROVE Bound'
    <3>1. Len(stream') = Len(stream) + 1 /\ Len(stream) < MaxFrames
      BY <2>0, <2>1, SendEffect DEF ClientSends
    <3>. QED
      BY <2>0, <3>1
  <2>2. CASE stream' = stream
    BY <2>2
  <2>. QED
    BY <2>1, <2>2 DEF Next, OnMessage, NotRequest, Unnamed, TakeRequest, vars
<1>3. ParserInv /\ Bound => TypeOK
  <2>. SUFFICES ASSUME ParserInv, Bound PROVE TypeOK
    OBVIOUS
  <2>1. /\ stream \in Seq(Frames) /\ wire \in Seq(Byte)
        /\ starts \in Seq(Nat) /\ Len(starts) = Len(stream) + 1
    BY DEF ParserInv, WireInv
  <2>2. /\ arrived \in 0..Len(wire) /\ Len(requests) <= Len(stream) /\ IsParser(parser)
        /\ pc \in {"idle", "frames"} /\ link \in {"open", "shut", "closed"}
        /\ \/ AtHeader(parser, Len(requests), arrived)
           \/ AtPayload(parser, Len(requests), arrived)
           \/ Whole(parser, Len(requests), arrived)
    BY Zenon DEF ParserInv, PositionInv, Standing, Unfinished
  <2>3. parser.header \in HeaderFields
    BY <2>2, Zenon DEF IsParser
  <2>4. \/ parser.state = "kNeedHeader" /\ parser.complete = FALSE
        \/ parser.state = "kNeedPayload" /\ parser.complete = FALSE
        \/ parser.state = "kComplete" /\ parser.complete = TRUE
    BY <2>2, Zenon DEF AtHeader, AtPayload, Whole
  <2>5. /\ parser.state \in {"kNeedHeader", "kNeedPayload", "kComplete"}
        /\ parser.complete \in BOOLEAN /\ parser.complete = (parser.state = "kComplete")
    BY <2>4
  <2>. QED
    BY <2>1, <2>2, <2>3, <2>5 DEF TypeOK
<1>. QED
  BY <1>1, <1>2, <1>3, ParserInvariant, PTL DEF Spec

(* However the stream is cut into chunks and however many frames are in it, *)
(* onMessage takes exactly the complete requests before the first frame it  *)
(* refuses, in order and as they were sent, provided that decodeMetadata    *)
(* reads back what clients encode; nothing is assumed of metadata that is   *)
(* not well-formed.                                                         *)
THEOREM ParserChunkingIndependent == MetadataReadsBack => (Spec => []ChunkingIndependent)
<1>. SUFFICES ASSUME MetadataReadsBack PROVE Spec => []ChunkingIndependent
  OBVIOUS
<1>1. ParserInv => ChunkingIndependent
  <2>. SUFFICES ASSUME ParserInv, pc = "idle"
                PROVE  /\ DOMAIN requests = Expected
                       /\ \A i \in Expected : requests[i] = RequestFrom(i)
    BY DEF ChunkingIndependent
  <2>1. DOMAIN requests = Expected
    BY TakenAreExpected
  <2>. QED
    BY <2>1, TakenAsSent
<1>. QED
  BY <1>1, ParserInvariant, PTL

(* And it closes the connection for a frame that a parser given the whole   *)
(* frame at once would refuse, with the last byte of its header or of its   *)
(* payload, and for nothing else; a decoder that takes malformed metadata   *)
(* is not excluded, one that refuses a client's metadata is.                *)
THEOREM ParserRefusesAtOnce == MetadataReadsBack => (Spec => []RefusedAtOnce)
<1>. SUFFICES ASSUME MetadataReadsBack PROVE Spec => []RefusedAtOnce
  OBVIOUS
<1>1. ParserInv => RefusedAtOnce
  BY RefusalsExact DEF RefusedAtOnce
<1>. QED
  BY <1>1, ParserInvariant, PTL
=============================================================================
