------------------------- MODULE TcpConnectionProofs -------------------------
(***************************************************************************)
(* Proofs of the safety properties of TcpConnection, for any number of     *)
(* threads, any capacity of the send buffer and any messages.              *)
(*                                                                         *)
(* FinAfterData and NotifiedOnce need that a connection is established     *)
(* once: kConnected is never entered again, so nothing is taken after      *)
(* SHUT_WR, and the channel does not become readable again after           *)
(* connectDestroyed has removed it (FinInv, NotifyInv, EstablishInv).      *)
(* StreamIntegrity needs only that the kernel never holds more than its    *)
(* capacity.                                                               *)
(***************************************************************************)
EXTENDS TcpConnection, SequenceTheorems, TLAPS

(* The bytes on their way.                                                  *)
StreamInv ==
  /\ out \in Seq(Byte) /\ sndbuf \in Seq(Byte) /\ wire \in Seq(Byte)
  /\ accepted \in Seq(Byte) /\ Len(sndbuf) <= SndCap
  /\ StreamIntegrity

(* After SHUT_WR there is nothing to write and nothing more is taken.       *)
FinInv == finSent => out = <<>> /\ state \in {"kDisconnecting", "kDisconnected"}

NoEstablish(q) == \A i \in 1..Len(q) : q[i].op # "establish"

(* connectEstablished comes first and once: while the connection is new,    *)
(* its only functor is that one and nobody else knows the connection.       *)
EstablishInv ==
  /\ state = "kConnecting" =>
       /\ \/ pending = <<[op |-> "establish"]>> /\ batch = <<>>
          \/ pending = <<>> /\ batch = <<[op |-> "establish"]>>
       /\ interest = {} /\ notified = 0 /\ ~finSent
       /\ \A t \in Threads : tpc[t] = "idle"
  /\ state # "kConnecting" => NoEstablish(pending) /\ NoEstablish(batch)

(* Events are reported only to an interested channel, and handled before    *)
(* the functors run; the batch is run to its end.                           *)
NotifyInv ==
  /\ lpc # "dispatch" => revents = {}
  /\ lpc # "functors" => batch = <<>>
  /\ state = "kConnecting" => revents = {}
  /\ inMap => notified = 0
  /\ notified <= 1
  /\ notified > 0 => "in" \notin interest /\ "in" \notin revents

ConnectionInv == TypeOK /\ StreamInv /\ FinInv /\ EstablishInv /\ NotifyInv

Functor == SimpleFunctor \cup SendFunctor

-----------------------------------------------------------------------------
(* A sequence is what is taken from its front and what is left.             *)
LEMMA TakeDrop ==
  ASSUME NEW S, NEW s \in Seq(S), NEW n \in 0..Len(s)
  PROVE  /\ Take(s, n) \in Seq(S) /\ Len(Take(s, n)) = n
         /\ Drop(s, n) \in Seq(S) /\ Len(Drop(s, n)) = Len(s) - n
         /\ Take(s, n) \o Drop(s, n) = s
         /\ n = 0 => Take(s, n) = <<>> /\ Drop(s, n) = s
<1>0. Len(s) \in Nat /\ \A i \in 1..Len(s) : s[i] \in S
  BY LenProperties, ElementOfSeq
<1>1. Take(s, n) \in Seq(S) /\ Len(Take(s, n)) = n
  <2>1. \A i \in 1..n : s[i] \in S
    BY <1>0
  <2>. QED
    BY <1>0, <2>1, SubSeqProperties DEF Take
<1>2. Drop(s, n) \in Seq(S) /\ Len(Drop(s, n)) = Len(s) - n
  <2>1. \A i \in (n + 1)..Len(s) : s[i] \in S
    BY <1>0
  <2>. QED
    BY <1>0, <2>1, SubSeqProperties DEF Drop
<1>3. Take(s, n) \o Drop(s, n) = s
  <2>1. 1 \in 1..(Len(s) + 1) /\ n \in (1 - 1)..Len(s) /\ Len(s) \in n..Len(s)
    BY <1>0
  <2>2. SubSeq(s, 1, n) \o SubSeq(s, n + 1, Len(s)) = SubSeq(s, 1, Len(s))
    BY <2>1, ConcatAdjacentSubSeq
  <2>. QED
    BY <2>2, SubSeqFull DEF Take, Drop
<1>4. n = 0 => Take(s, n) = <<>> /\ Drop(s, n) = s
  BY <1>0, SubSeqEmpty, SubSeqFull DEF Take, Drop
<1>. QED
  BY <1>1, <1>2, <1>3, <1>4

(* Concatenation of byte strings is associative.                            *)
LEMMA Assoc ==
  /\ \A a, b \in Seq(Byte) : a \o b \in Seq(Byte)
  /\ \A a, b, c \in Seq(Byte) : (a \o b) \o c = a \o (b \o c)
  BY ConcatProperties, ConcatAssociative

(* The parts of a stream, regrouped: with nothing, or with an empty part,   *)
(* between the two that belong together.                                    *)
Joined(w, s, t, r) == (w \o (s \o t)) \o r = (w \o s) \o (t \o r)
JoinedAround(w, s, t, o, r) ==
  (w \o (s \o t)) \o (o \o r) = ((w \o s) \o o) \o (t \o r)

(* Both groupings give the same stream.                                     *)
LEMMA Regroup ==
  \A w, s, t, o, r \in Seq(Byte) :
    Joined(w, s, t, r) /\ (t = <<>> \/ o = <<>> => JoinedAround(w, s, t, o, r))
<1>. SUFFICES ASSUME NEW w \in Seq(Byte), NEW s \in Seq(Byte), NEW t \in Seq(Byte),
                     NEW o \in Seq(Byte), NEW r \in Seq(Byte)
              PROVE  /\ (w \o (s \o t)) \o r = (w \o s) \o (t \o r)
                     /\ t = <<>> \/ o = <<>> =>
                          (w \o (s \o t)) \o (o \o r) = ((w \o s) \o o) \o (t \o r)
  BY Zenon DEF Joined, JoinedAround
<1>. DEFINE ws == w \o s
<1>1. ws \in Seq(Byte) /\ ws \o t = w \o (s \o t)
  BY Assoc, Zenon
<1>. HIDE DEF ws
<1>2. (ws \o t) \o r = ws \o (t \o r)
  BY <1>1, Assoc, Zenon
<1>3. (ws \o o) \o r = ws \o (o \o r)
  BY <1>1, Assoc, Zenon
<1>4. \A x \in Seq(Byte) : x \o <<>> = x /\ <<>> \o x = x
  BY ConcatEmptySeq
<1>5. CASE t = <<>>
  <2>1. ws \o t = ws /\ t \o r = r
    BY <1>1, <1>4, <1>5, Zenon
  <2>. QED
    BY <1>1, <1>2, <1>3, <2>1, Zenon DEF ws
<1>6. CASE o = <<>>
  <2>1. o \o r = r /\ ws \o o = ws
    BY <1>1, <1>4, <1>6, Zenon
  <2>. QED
    BY <1>1, <1>2, <2>1, Zenon DEF ws
<1>7. (w \o (s \o t)) \o r = (w \o s) \o (t \o r)
  BY <1>1, <1>2, Zenon DEF ws
<1>. QED
  BY <1>5, <1>6, <1>7, Zenon

(* n bytes of a message d go to the socket and the rest to the buffer; or n *)
(* bytes of the buffer go to the socket.                                    *)
SendOrdered(w, s, o, d, n) ==
  (w \o (s \o Take(d, n))) \o (o \o Drop(d, n)) = ((w \o s) \o o) \o d
FlushOrdered(w, s, o, n) ==
  (w \o (s \o Take(o, n))) \o Drop(o, n) = (w \o s) \o o

(* Bytes taken from a message go to the socket only when the buffer is      *)
(* empty: what is on the way then ends with the message.                    *)
LEMMA MessageLast ==
  ASSUME NEW w \in Seq(Byte), NEW s \in Seq(Byte), NEW o \in Seq(Byte),
         NEW d \in Seq(Byte), NEW n \in 0..Len(d), n # 0 => o = <<>>
  PROVE  SendOrdered(w, s, o, d, n)
<1>. DEFINE t == Take(d, n)
            r == Drop(d, n)
<1>1. t \in Seq(Byte) /\ r \in Seq(Byte) /\ (t = <<>> \/ o = <<>>)
  BY TakeDrop
<1>2. t \o r = d
  BY TakeDrop
<1>. HIDE DEF t, r
<1>3. JoinedAround(w, s, t, o, r)
  BY <1>1, Regroup
<1>. QED
  BY <1>2, <1>3, Zenon DEF t, r, JoinedAround, SendOrdered

(* A flush moves bytes from the buffer to the socket.                       *)
LEMMA FlushMoves ==
  ASSUME NEW w \in Seq(Byte), NEW s \in Seq(Byte), NEW o \in Seq(Byte),
         NEW n \in 0..Len(o)
  PROVE  FlushOrdered(w, s, o, n)
<1>. DEFINE t == Take(o, n)
            r == Drop(o, n)
<1>1. t \in Seq(Byte) /\ r \in Seq(Byte)
  BY TakeDrop
<1>2. t \o r = o
  BY TakeDrop
<1>. HIDE DEF t, r
<1>3. Joined(w, s, t, r)
  BY <1>1, Regroup
<1>. QED
  BY <1>2, <1>3, Zenon DEF t, r, Joined, FlushOrdered

(* A prefix stays one when the sequence grows.                              *)
LEMMA PrefixGrows ==
  ASSUME NEW S, NEW a \in Seq(S), NEW d \in Seq(S), NEW n \in 0..Len(a)
  PROVE  n \in 0..Len(a \o d) /\ Take(a \o d, n) = Take(a, n)
<1>1. Len(a) \in Nat /\ Len(d) \in Nat /\ Len(a \o d) = Len(a) + Len(d)
  BY LenProperties, ConcatProperties
<1>2. CASE n = 0
  BY <1>1, <1>2, SubSeqEmpty DEF Take
<1>3. CASE n # 0
  <2>1. 1 \in 1..Len(a) /\ n \in 1..Len(a)
    BY <1>1, <1>3
  <2>. QED
    BY <1>1, <2>1, SubSeqOfConcat1 DEF Take
<1>. QED
  BY <1>2, <1>3

(* What comes first is a prefix.                                            *)
LEMMA FirstIsPrefix ==
  ASSUME NEW S, NEW w \in Seq(S), NEW r \in Seq(S)
  PROVE  Len(w) \in 0..Len(w \o r) /\ w = Take(w \o r, Len(w))
<1>1. Len(w) \in Nat /\ Len(w) \in 0..Len(w)
  BY LenProperties
<1>2. Take(w, Len(w)) = w
  BY SubSeqFull DEF Take
<1>. QED
  BY <1>1, <1>2, PrefixGrows

(* The peer reads the oldest byte of the socket.                            *)
LEMMA HeadMoves ==
  ASSUME NEW S, NEW w \in Seq(S), NEW s \in Seq(S), s # <<>>
  PROVE  /\ Append(w, Head(s)) \in Seq(S) /\ Tail(s) \in Seq(S)
         /\ Len(Tail(s)) = Len(s) - 1
         /\ Append(w, Head(s)) \o Tail(s) = w \o s
<1>1. Head(s) \in S /\ Tail(s) \in Seq(S) /\ Len(Tail(s)) = Len(s) - 1 /\ Len(s) \in Nat \ {0}
  BY HeadTailProperties, EmptySeq
<1>2. Append(w, Head(s)) \in Seq(S) /\ Append(w, Head(s)) = w \o <<Head(s)>>
  BY <1>1, AppendProperties, AppendIsConcat
<1>3. <<Head(s)>> \o Tail(s) = s
  <2>1. <<Head(s)>> = SubSeq(s, 1, 1) /\ Tail(s) = SubSeq(s, 1 + 1, Len(s))
    <3>1. SubSeq(s, 1, 1) = SubSeq(s, 1, 1 - 1) \o <<s[1]>> /\ s[1] \in S
      BY <1>1, SubSeqRecursiveSecond, ElementOfSeq
    <3>2. SubSeq(s, 1, 1 - 1) = <<>>
      BY SubSeqEmpty
    <3>3. <<s[1]>> \in Seq(S) /\ Head(s) = s[1]
      BY <3>1
    <3>. QED
      BY <3>1, <3>2, <3>3, ConcatEmptySeq, TailIsSubSeq
  <2>2. SubSeq(s, 1, 1) \o SubSeq(s, 1 + 1, Len(s)) = SubSeq(s, 1, Len(s))
    <3>1. 1 \in 1..(Len(s) + 1) /\ 1 \in (1 - 1)..Len(s) /\ Len(s) \in 1..Len(s)
      BY <1>1
    <3>. QED
      BY <3>1, ConcatAdjacentSubSeq
  <2>. QED
    BY <2>1, <2>2, SubSeqFull
<1>4. <<Head(s)>> \in Seq(S)
  BY <1>1
<1>. QED
  BY <1>1, <1>2, <1>3, <1>4, ConcatAssociative

-----------------------------------------------------------------------------
(* Steps that touch none of the bytes.                                      *)
LEMMA StreamKept ==
  ASSUME StreamInv, UNCHANGED <<out, sndbuf, wire, accepted, reset>>
  PROVE  StreamInv'
  BY DEF StreamInv, StreamIntegrity

(* Lengths, as numbers.                                                     *)
LEMMA StreamLengths ==
  ASSUME StreamInv
  PROVE  /\ Len(out) \in Nat /\ Len(sndbuf) \in Nat /\ Len(accepted) \in Nat
         /\ Space \in Nat /\ Space = SndCap - Len(sndbuf)
<1>1. Len(out) \in Nat /\ Len(sndbuf) \in Nat /\ Len(accepted) \in Nat
  BY LenProperties DEF StreamInv
<1>. QED
  BY <1>1, BoundsAssumption DEF StreamInv, Space

(* sendInLoop: what the socket does not take is buffered behind what was    *)
(* buffered before.                                                         *)
LEMMA StreamSend ==
  ASSUME StreamInv, NEW data \in Seq(Byte), NEW where, SendInLoop(data, where),
         UNCHANGED <<wire, reset>>
  PROVE  StreamInv'
<1>1. CASE UNCHANGED <<out, sndbuf, accepted>>
  BY <1>1, StreamKept
<1>2. CASE \E n \in 0..Len(data) :
             /\ n # 0 => out = <<>> /\ n <= Space
             /\ sndbuf' = sndbuf \o Take(data, n)
             /\ out' = out \o Drop(data, n)
             /\ accepted' = accepted \o data
  <2>. PICK n \in 0..Len(data) :
             /\ n # 0 => out = <<>> /\ n <= Space
             /\ sndbuf' = sndbuf \o Take(data, n)
             /\ out' = out \o Drop(data, n)
             /\ accepted' = accepted \o data
    BY <1>2
  <2>1. /\ out \in Seq(Byte) /\ sndbuf \in Seq(Byte) /\ wire \in Seq(Byte)
        /\ accepted \in Seq(Byte) /\ Len(sndbuf) <= SndCap
    BY DEF StreamInv
  <2>2. Take(data, n) \in Seq(Byte) /\ Drop(data, n) \in Seq(Byte) /\ Len(Take(data, n)) = n
    BY TakeDrop
  <2>3. out' \in Seq(Byte) /\ sndbuf' \in Seq(Byte) /\ accepted' \in Seq(Byte)
    BY <2>1, <2>2, ConcatProperties
  <2>4. Len(sndbuf') <= SndCap
    <3>1. Len(sndbuf') = Len(sndbuf) + n
      BY <2>1, <2>2, ConcatProperties
    <3>. QED
      BY <2>1, <3>1, StreamLengths, BoundsAssumption
  <2>5. StreamIntegrity'
    <3>1. CASE reset
      <4>1. PICK m \in 0..Len(accepted) : wire = Take(accepted, m)
        BY <3>1 DEF StreamInv, StreamIntegrity
      <4>2. m \in 0..Len(accepted') /\ Take(accepted', m) = Take(accepted, m)
        BY <2>1, PrefixGrows
      <4>. QED
        BY <3>1, <4>1, <4>2 DEF StreamIntegrity
    <3>2. CASE ~reset
      <4>1. (wire \o sndbuf) \o out = accepted
        BY <3>2 DEF StreamInv, StreamIntegrity
      <4>2. SendOrdered(wire, sndbuf, out, data, n)
        BY <2>1, MessageLast
      <4>3. (wire' \o sndbuf') \o out' = accepted'
        BY <4>1, <4>2, Zenon DEF SendOrdered
      <4>. QED
        BY <3>2, <4>3, Zenon DEF StreamIntegrity
    <3>. QED
      BY <3>1, <3>2
  <2>. QED
    BY <2>1, <2>3, <2>4, <2>5 DEF StreamInv
<1>3. CASE ~UNCHANGED <<out, sndbuf, accepted>>
  <2>. DEFINE direct == out = <<>> /\ "out" \notin interest
              n == IF direct THEN Lesser(Space, Len(data)) ELSE 0
  <2>1. /\ sndbuf' = sndbuf \o Take(data, n)
        /\ out' = out \o Drop(data, n)
        /\ accepted' = accepted \o data
    BY <1>3 DEF SendInLoop
  <2>2. Len(data) \in Nat
    BY LenProperties
  <2>3. n \in 0..Len(data) /\ (n # 0 => out = <<>> /\ n <= Space)
    BY <2>2, StreamLengths DEF Lesser
  <2>. HIDE DEF n
  <2>. QED
    BY <1>2, <2>1, <2>3
<1>. QED
  BY <1>1, <1>3

(* handleWrite moves bytes from the buffer to the socket.                   *)
LEMMA StreamWrite ==
  ASSUME StreamInv, WriteSome
  PROVE  StreamInv'
<1>. DEFINE n == Lesser(Space, Len(out))
<1>1. /\ ~reset /\ UNCHANGED <<wire, reset, accepted>>
      /\ sndbuf' = sndbuf \o Take(out, n) /\ out' = Drop(out, n)
  BY DEF WriteSome, hist
<1>2. n \in 0..Len(out) /\ n <= Space
  BY StreamLengths DEF Lesser
<1>. HIDE DEF n
<1>3. /\ out \in Seq(Byte) /\ sndbuf \in Seq(Byte) /\ wire \in Seq(Byte)
      /\ accepted \in Seq(Byte)
  BY DEF StreamInv
<1>4. Take(out, n) \in Seq(Byte) /\ Len(Take(out, n)) = n /\ out' \in Seq(Byte)
  BY <1>1, <1>2, <1>3, TakeDrop
<1>5. sndbuf' \in Seq(Byte) /\ Len(sndbuf') = Len(sndbuf) + n
  BY <1>1, <1>3, <1>4, ConcatProperties
<1>6. Len(sndbuf') <= SndCap
  BY <1>2, <1>5, StreamLengths, BoundsAssumption
<1>7. FlushOrdered(wire, sndbuf, out, n)
  BY <1>2, <1>3, FlushMoves
<1>8. (wire \o sndbuf) \o out = accepted
  BY <1>1 DEF StreamInv, StreamIntegrity
<1>9. StreamIntegrity'
  <2>1. (wire' \o sndbuf') \o out' = accepted'
    BY <1>1, <1>7, <1>8, Zenon DEF FlushOrdered
  <2>. QED
    BY <1>1, <2>1, Zenon DEF StreamIntegrity
<1>. QED
  BY <1>1, <1>3, <1>4, <1>5, <1>6, <1>9 DEF StreamInv

(* The peer reads from the socket, or resets the connection and loses what  *)
(* it held.                                                                 *)
LEMMA StreamPeer ==
  ASSUME StreamInv, PeerReads \/ PeerResets
  PROVE  StreamInv'
<1>1. /\ out \in Seq(Byte) /\ sndbuf \in Seq(Byte) /\ wire \in Seq(Byte)
      /\ accepted \in Seq(Byte) /\ Len(sndbuf) <= SndCap
      /\ out' = out /\ accepted' = accepted
  BY DEF StreamInv, PeerReads, PeerResets, connVars, hist
<1>2. ~reset /\ (wire \o sndbuf) \o out = accepted
  BY DEF StreamInv, StreamIntegrity, PeerReads, PeerResets
<1>3. CASE PeerReads
  <2>1. sndbuf # <<>> /\ wire' = Append(wire, Head(sndbuf)) /\ sndbuf' = Tail(sndbuf)
        /\ reset' = reset
    BY <1>3 DEF PeerReads
  <2>2. /\ wire' \in Seq(Byte) /\ sndbuf' \in Seq(Byte) /\ Len(sndbuf') = Len(sndbuf) - 1
        /\ wire' \o sndbuf' = wire \o sndbuf
    BY <1>1, <2>1, HeadMoves
  <2>3. Len(sndbuf') <= SndCap
    BY <1>1, <2>2, StreamLengths, BoundsAssumption
  <2>4. StreamIntegrity'
    BY <1>1, <1>2, <2>1, <2>2, Zenon DEF StreamIntegrity
  <2>. QED
    BY <1>1, <2>2, <2>3, <2>4 DEF StreamInv
<1>4. CASE PeerResets
  <2>1. reset' /\ sndbuf' = <<>> /\ wire' = wire
    BY <1>4 DEF PeerResets
  <2>2. /\ Len(wire) \in 0..Len(wire \o (sndbuf \o out))
        /\ wire = Take(wire \o (sndbuf \o out), Len(wire))
    <3>1. sndbuf \o out \in Seq(Byte)
      BY <1>1, ConcatProperties
    <3>. QED
      BY <1>1, <3>1, FirstIsPrefix
  <2>3. wire \o (sndbuf \o out) = accepted
    BY <1>1, <1>2, Assoc, Zenon
  <2>4. StreamIntegrity'
    BY <1>1, <2>1, <2>2, <2>3 DEF StreamIntegrity
  <2>5. sndbuf' \in Seq(Byte) /\ Len(sndbuf') <= SndCap
    BY <2>1, EmptySeq, BoundsAssumption
  <2>. QED
    BY <1>1, <2>1, <2>4, <2>5 DEF StreamInv
<1>. QED
  BY <1>3, <1>4

-----------------------------------------------------------------------------
(* The functors a queue can be given, and what a queue keeps free of.       *)
LEMMA FunctorTypes ==
  /\ \A o \in {"shutdown", "forceClose", "remove", "complete"} :
       [op |-> o] \in Functor /\ [op |-> o].op # "establish"
  /\ [op |-> "establish"] \in Functor
  /\ \A d \in Seq(Byte) :
       [op |-> "send", data |-> d] \in Functor /\ [op |-> "send", data |-> d].op # "establish"
  /\ \A f \in Functor : f.op = "send" => f.data \in Seq(Byte)
  BY DEF Functor, SimpleFunctor, SendFunctor

(* Pushing a functor that is not connectEstablished.                        *)
LEMMA PushFunctor ==
  ASSUME NEW q \in Seq(Functor), NEW f \in Functor
  PROVE  /\ Append(q, f) \in Seq(Functor)
         /\ f.op # "establish" /\ NoEstablish(q) => NoEstablish(Append(q, f))
  BY AppendProperties, LenProperties DEF NoEstablish

(* Taking the functor that is run, and putting the application's callback   *)
(* at its end in its place.                                                 *)
LEMMA PopFunctor ==
  ASSUME NEW q \in Seq(Functor), q # <<>>
  PROVE  /\ Head(q) \in Functor /\ Tail(q) \in Seq(Functor)
         /\ <<[op |-> "complete"]>> \o Tail(q) \in Seq(Functor)
         /\ NoEstablish(q) => /\ Head(q).op # "establish" /\ NoEstablish(Tail(q))
                              /\ NoEstablish(<<[op |-> "complete"]>> \o Tail(q))
<1>. DEFINE c == [op |-> "complete"]
            r == Tail(q)
<1>1. /\ Head(q) \in Functor /\ r \in Seq(Functor) /\ Len(r) = Len(q) - 1
      /\ \A i \in 1..Len(r) : r[i] = q[i + 1]
  BY HeadTailProperties
<1>2. Len(q) \in Nat \ {0} /\ Head(q) = q[1]
  BY EmptySeq
<1>3. c \in Functor /\ c.op # "establish"
  BY FunctorTypes
<1>. HIDE DEF c, r
<1>4. <<c>> \in Seq(Functor) /\ Len(<<c>>) = 1 /\ <<c>>[1] = c
  BY <1>3
<1>5. /\ <<c>> \o r \in Seq(Functor) /\ Len(<<c>> \o r) = 1 + Len(r)
      /\ \A i \in 1..(1 + Len(r)) : (<<c>> \o r)[i] = IF i <= 1 THEN <<c>>[i] ELSE r[i - 1]
  BY <1>1, <1>4, ConcatProperties
<1>6. NoEstablish(q) => Head(q).op # "establish" /\ NoEstablish(r)
  BY <1>1, <1>2 DEF NoEstablish
<1>7. NoEstablish(r) => NoEstablish(<<c>> \o r)
  <2>. SUFFICES ASSUME NoEstablish(r), NEW i \in 1..(1 + Len(r))
                PROVE  (<<c>> \o r)[i].op # "establish"
    BY <1>5 DEF NoEstablish
  <2>0. Len(r) \in Nat
    BY <1>1, <1>2
  <2>1. CASE i = 1
    BY <1>3, <1>4, <1>5, <2>1
  <2>2. CASE i # 1
    <3>1. i - 1 \in 1..Len(r) /\ (<<c>> \o r)[i] = r[i - 1]
      BY <1>5, <2>0, <2>2
    <3>. QED
      BY <3>1 DEF NoEstablish
  <2>. QED
    BY <2>1, <2>2
<1>. QED
  BY <1>1, <1>5, <1>6, <1>7 DEF c, r

(* A message is a string of bytes.                                          *)
LEMMA MessageType ==
  ASSUME nsent \in Nat, NEW len \in MsgLens
  PROVE  Message(len) \in Seq(Byte)
<1>1. len \in Nat
  BY BoundsAssumption
<1>2. \A k \in 1..len : [m |-> nsent + 1, k |-> k] \in Byte
  BY DEF Byte
<1>3. Message(len) \in [1..len -> Byte]
  BY <1>2 DEF Message
<1>. QED
  BY <1>1, <1>3, SeqDef

(* One conjunct of TypeOK for every variable.                               *)
LEMMA Typing ==
  ASSUME TypeOK
  PROVE  /\ state \in States /\ interest \in SUBSET {"in", "out"}
         /\ lpc \in {"wait", "dispatch", "functors"}
         /\ revents \in SUBSET {"in", "out", "err", "complete", "flushed"}
         /\ pending \in Seq(Functor) /\ batch \in Seq(Functor)
         /\ tpc \in [Threads -> {"idle", "sending", "shutting", "set"}]
         /\ ops \in [Threads -> Nat]
         /\ rcv \in Nat /\ nsent \in Nat /\ nrcvd \in Nat /\ delivered \in Nat
         /\ notified \in Nat /\ closed \in {"no", "io", "functor"}
  BY DEF TypeOK, Functor

(* What a step on the loop thread may do to the connection: leave its state *)
(* or take it towards kDisconnected, add the interest in writing, queue the *)
(* removal, and nothing while the connection is new.                        *)
LoopEffect ==
  /\ \/ state' = state
     \/ state # "kConnecting" /\ state' \in {"kDisconnecting", "kDisconnected"}
  /\ interest' \in SUBSET (interest \cup {"out"})
  /\ \/ pending' = pending
     \/ state # "kConnecting" /\ pending' = Append(pending, [op |-> "remove"])
  /\ state = "kConnecting" => interest' = interest
  /\ closed' \in {"no", "io", "functor"}

(* handleClose.                                                             *)
LEMMA CloseEffect ==
  ASSUME TypeOK, NEW where \in {"io", "functor"}, HandleClose(where), state # "kConnecting"
  PROVE  LoopEffect /\ state' = "kDisconnected"
  BY Typing DEF HandleClose, UpdateChannel, QueueFunctor, LoopEffect

(* sendInLoop.                                                              *)
LEMMA SendEffect ==
  ASSUME TypeOK, NEW data, NEW where \in {"io", "functor"}, SendInLoop(data, where)
  PROVE  /\ LoopEffect
         /\ state' = state \/ state' = "kDisconnected"
         /\ state # "kConnected" => UNCHANGED <<state, out, interest, pending>>
<1>1. CASE state # "kConnected"
  BY <1>1, Typing DEF SendInLoop, LoopEffect
<1>2. CASE state = "kConnected"
  <2>1. CASE HandleClose(where)
    BY <1>2, <2>1, CloseEffect
  <2>2. CASE \E free : HighWaterCloses(where, free)
    BY <1>2, <2>2, Typing DEF HighWaterCloses, QueueFunctor, LoopEffect
  <2>3. CASE /\ interest' = interest \/ interest' = interest \cup {"out"}
             /\ UNCHANGED <<state, pending, closed>>
    BY <1>2, <2>3, Typing DEF LoopEffect
  <2>. QED
    BY <1>2, <2>1, <2>2, <2>3 DEF SendInLoop, UpdateChannel
<1>. QED
  BY <1>1, <1>2

(* The application's callbacks.                                             *)
LEMMA CallbackEffect ==
  ASSUME TypeOK, StreamInv, FinInv, NEW where \in {"io", "functor"}, Callback(where),
         UNCHANGED <<wire, reset>>
  PROVE  /\ LoopEffect /\ nsent' \in Nat
         /\ StreamInv' /\ FinInv'
<1>1. CASE UNCHANGED <<state, out, interest, pending, sndbuf, nospace, armed, finSent,
                       accepted, closed, nsent>>
  <2>1. LoopEffect /\ nsent' \in Nat
    BY <1>1, Typing DEF LoopEffect
  <2>2. FinInv'
    BY <1>1 DEF FinInv
  <2>. QED
    BY <1>1, <2>1, <2>2, StreamKept
<1>2. ASSUME state = "kConnected", NEW len \in MsgLens, SendInLoop(Message(len), where),
             nsent' = nsent + 1, UNCHANGED finSent
      PROVE  /\ LoopEffect /\ nsent' \in Nat /\ StreamInv' /\ FinInv'
  <2>1. Message(len) \in Seq(Byte) /\ nsent' \in Nat
    BY <1>2, Typing, MessageType
  <2>2. StreamInv'
    BY <1>2, <2>1, StreamSend
  <2>3. LoopEffect
    BY <1>2, SendEffect
  <2>4. FinInv'
    BY <1>2 DEF FinInv
  <2>. QED
    BY <2>1, <2>2, <2>3, <2>4
<1>3. CASE /\ state = "kConnected" /\ state' = "kDisconnecting"
           /\ ShutdownEffect("kDisconnecting")
           /\ UNCHANGED <<out, interest, pending, sndbuf, nospace, armed, accepted,
                          closed, nsent>>
  <2>1. LoopEffect /\ nsent' \in Nat
    BY <1>3, Typing DEF LoopEffect
  <2>2. FinInv'
    BY <1>3 DEF FinInv, ShutdownEffect
  <2>. QED
    BY <1>3, <2>1, <2>2, StreamKept
<1>4. CASE /\ state \in {"kConnected", "kDisconnecting"} /\ HandleClose(where)
           /\ UNCHANGED <<out, sndbuf, nospace, finSent, accepted, nsent>>
  <2>1. LoopEffect /\ nsent' \in Nat /\ state' = "kDisconnected"
    BY <1>4, CloseEffect, Typing
  <2>2. FinInv'
    BY <1>4, <2>1 DEF FinInv
  <2>. QED
    BY <1>4, <2>1, <2>2, StreamKept
<1>. QED
  BY <1>1, <1>2, <1>3, <1>4 DEF Callback

(* The functor being run is one of the batch; connectEstablished only while *)
(* the connection is new.                                                   *)
LEMMA HeadFacts ==
  ASSUME ConnectionInv, batch # <<>>
  PROVE  /\ Head(batch) \in Functor /\ Tail(batch) \in Seq(Functor)
         /\ Head(batch).op = "send" => Head(batch).data \in Seq(Byte)
         /\ Head(batch).op = "establish" <=> state = "kConnecting"
         /\ state = "kConnecting" => Tail(batch) = <<>> /\ pending = <<>>
         /\ state # "kConnecting" => NoEstablish(Tail(batch))
<1>1. TypeOK /\ EstablishInv
  BY DEF ConnectionInv
<1>2. batch \in Seq(Functor)
  BY <1>1, Typing
<1>3. Head(batch) \in Functor /\ Tail(batch) \in Seq(Functor)
  BY <1>2, PopFunctor
<1>4. CASE state = "kConnecting"
  <2>1. batch = <<[op |-> "establish"]>> /\ pending = <<>>
    BY <1>1, <1>4 DEF EstablishInv
  <2>2. Head(batch) = [op |-> "establish"] /\ Tail(batch) = <<>>
    BY <2>1
  <2>. QED
    BY <1>3, <1>4, <2>1, <2>2
<1>5. CASE state # "kConnecting"
  <2>1. NoEstablish(batch)
    BY <1>1, <1>5 DEF EstablishInv
  <2>2. Head(batch).op # "establish" /\ NoEstablish(Tail(batch))
    BY <1>2, <2>1, PopFunctor
  <2>. QED
    BY <1>3, <1>5, <2>2, FunctorTypes
<1>. QED
  BY <1>4, <1>5

(* No step loses, repeats or reorders a byte, and SHUT_WR stays last.       *)
LEMMA StreamStep == ConnectionInv /\ Next => StreamInv' /\ FinInv'
<1>. SUFFICES ASSUME ConnectionInv, Next PROVE StreamInv' /\ FinInv'
  OBVIOUS
<1>0. TypeOK /\ StreamInv /\ FinInv /\ EstablishInv /\ NotifyInv
  BY DEF ConnectionInv
<1>1. CASE /\ UNCHANGED <<out, sndbuf, wire, accepted, reset, finSent>>
           /\ state' = state \/ state' \in {"kDisconnecting", "kDisconnected"}
  <2>1. FinInv'
    BY <1>0, <1>1 DEF FinInv
  <2>. QED
    BY <1>0, <1>1, <2>1, StreamKept
<1>2. CASE EpollWait \/ ReadAgain \/ WriteStops \/ WriteDone \/ SwapFunctors \/ EndOfBatch
  BY <1>1, <1>2 DEF EpollWait, ReadAgain, WriteStops, WriteDone, SwapFunctors, EndOfBatch,
                    connVars, kernel, hist
<1>3. CASE HandleError \/ ReadEnd \/ WriteFails
  <2>1. /\ UNCHANGED <<out, sndbuf, wire, accepted, reset, finSent>> /\ HandleClose("io")
    BY <1>3 DEF HandleError, ReadEnd, WriteFails
  <2>. QED
    BY <1>1, <2>1 DEF HandleClose
<1>4. CASE ReadChunk \/ WriteComplete
  <2>1. Callback("io") /\ UNCHANGED <<wire, reset>>
    BY <1>4 DEF ReadChunk, WriteComplete
  <2>. QED
    BY <1>0, <2>1, CallbackEffect
<1>5. CASE WriteSome
  <2>1. StreamInv'
    BY <1>0, <1>5, StreamWrite
  <2>2. FinInv'
    BY <1>0, <1>5 DEF WriteSome, FinInv
  <2>. QED
    BY <2>1, <2>2
<1>6. CASE FlushShutdown
  <2>1. UNCHANGED <<state, out, sndbuf, wire, accepted, reset>> /\ ShutdownEffect(state)
    BY <1>6 DEF FlushShutdown, connVars, hist
  <2>2. FinInv'
    BY <1>0, <2>1 DEF FinInv, ShutdownEffect
  <2>. QED
    BY <1>0, <2>1, <2>2, StreamKept
<1>7. CASE RunFunctor
  <2>0. batch # <<>> /\ UNCHANGED <<wire, reset>>
    BY <1>7 DEF RunFunctor
  <2>1. CASE RunEstablish
    <3>1. ~finSent /\ UNCHANGED <<out, sndbuf, accepted, finSent>>
      BY <1>0, <2>0, <2>1, HeadFacts DEF RunEstablish, EstablishInv
    <3>2. FinInv'
      BY <3>1 DEF FinInv
    <3>. QED
      BY <1>0, <2>0, <3>1, <3>2, StreamKept
  <2>2. CASE RunSend
    <3>1. /\ SendInLoop(Head(batch).data, "functor") /\ Head(batch).data \in Seq(Byte)
          /\ finSent' = finSent
      BY <2>0, <2>2, HeadFacts DEF RunSend
    <3>2. StreamInv'
      BY <1>0, <2>0, <3>1, StreamSend
    <3>3. \/ UNCHANGED <<state, out>>
          \/ state = "kConnected"
      BY <1>0, <3>1, SendEffect
    <3>. QED
      BY <1>0, <3>1, <3>2, <3>3 DEF FinInv
  <2>3. CASE RunComplete
    BY <1>0, <2>0, <2>3, CallbackEffect DEF RunComplete
  <2>4. CASE RunShutdown
    <3>1. UNCHANGED <<state, out, sndbuf, accepted>> /\ ShutdownEffect(state)
      BY <2>4 DEF RunShutdown, connVars
    <3>2. FinInv'
      BY <1>0, <3>1 DEF FinInv, ShutdownEffect
    <3>. QED
      BY <1>0, <2>0, <3>1, <3>2, StreamKept
  <2>5. CASE RunForceClose \/ RunRemove
    <3>1. /\ UNCHANGED <<out, sndbuf, accepted, finSent>>
          /\ state' = state \/ state' = "kDisconnected"
      BY <2>5 DEF RunForceClose, RunRemove, HandleClose, ConnectDestroyed
    <3>. QED
      BY <1>1, <2>0, <3>1
  <2>. QED
    BY <1>7, <2>1, <2>2, <2>3, <2>4, <2>5 DEF RunFunctor
<1>8. ASSUME NEW t \in Threads, ThreadStep(t)
      PROVE  StreamInv' /\ FinInv'
  <2>1. /\ UNCHANGED <<out, sndbuf, wire, accepted, reset, finSent>>
        /\ state' = state \/ state' = "kDisconnecting"
    BY <1>8 DEF ThreadStep, FinishCall, SendCheck, ShutdownCheck, ForceClose, SendPost,
                ShutdownStore, ShutdownPost, connVars, kernel, hist
  <2>. QED
    BY <1>1, <2>1
<1>9. CASE PeerReads \/ PeerResets
  <2>1. UNCHANGED <<state, out, finSent>>
    BY <1>9 DEF PeerReads, PeerResets, connVars
  <2>2. StreamInv'
    BY <1>0, <1>9, StreamPeer
  <2>. QED
    BY <1>0, <2>1, <2>2 DEF FinInv
<1>10. CASE PeerSends \/ PeerCloses
  BY <1>1, <1>10 DEF PeerSends, PeerCloses, connVars, hist
<1>. QED
  BY <1>2, <1>3, <1>4, <1>5, <1>6, <1>7, <1>8, <1>9, <1>10 DEF Next, LoopStep, Peer

(* While the connection is new, only the loop and the peer act.             *)
LEMMA NewConnection ==
  ASSUME ConnectionInv, state = "kConnecting", Next
  PROVE  EpollWait \/ SwapFunctors \/ (RunFunctor /\ RunEstablish) \/ EndOfBatch \/ Peer
<1>0. TypeOK /\ EstablishInv /\ NotifyInv
  BY DEF ConnectionInv
<1>1. revents = {} /\ \A t \in Threads : tpc[t] = "idle"
  BY <1>0 DEF EstablishInv, NotifyInv
<1>2. \A t \in Threads : ~ThreadStep(t)
  BY <1>1 DEF ThreadStep, FinishCall, SendCheck, ShutdownCheck, ForceClose, SendPost,
              ShutdownStore, ShutdownPost, Begin
<1>3. /\ ~HandleError /\ ~ReadChunk /\ ~ReadEnd /\ ~ReadAgain /\ ~WriteStops /\ ~WriteSome
      /\ ~WriteFails /\ ~WriteDone /\ ~WriteComplete /\ ~FlushShutdown
  BY <1>1 DEF HandleError, ReadChunk, ReadEnd, ReadAgain, WriteStops, WriteSome, WriteFails,
              WriteDone, WriteComplete, FlushShutdown, Reading, Writing
<1>4. CASE RunFunctor
  <2>1. batch # <<>>
    BY <1>4 DEF RunFunctor
  <2>2. Head(batch).op = "establish"
    BY <2>1, HeadFacts
  <2>. QED
    BY <1>4, <2>2 DEF RunFunctor, RunSend, RunComplete, RunShutdown, RunForceClose, RunRemove
<1>. QED
  BY <1>2, <1>3, <1>4 DEF Next, LoopStep

(* connectEstablished runs first, once, and before anyone else knows the    *)
(* connection.                                                              *)
LEMMA EstablishStep == ConnectionInv /\ Next => EstablishInv'
<1>. SUFFICES ASSUME ConnectionInv, Next PROVE EstablishInv'
  OBVIOUS
<1>0. TypeOK /\ EstablishInv /\ NotifyInv
  BY DEF ConnectionInv
<1>a. pending \in Seq(Functor) /\ batch \in Seq(Functor)
  BY <1>0, Typing
<1>1. CASE state = "kConnecting"
  <2>1. CASE EpollWait \/ EndOfBatch \/ Peer
    <3>1. UNCHANGED <<state, pending, batch, interest, notified, finSent, tpc>>
      BY <2>1 DEF EpollWait, EndOfBatch, Peer, PeerReads, PeerSends, PeerCloses, PeerResets,
                  connVars, loopVars, kernel, hist
    <3>. QED
      BY <1>0, <3>1 DEF EstablishInv
  <2>2. CASE SwapFunctors
    <3>1. batch = <<>>
      BY <1>0, <2>2 DEF SwapFunctors, NotifyInv
    <3>2. pending = <<[op |-> "establish"]>>
      BY <1>0, <1>1, <3>1 DEF EstablishInv
    <3>3. /\ UNCHANGED <<state, interest, notified, finSent, tpc>>
          /\ batch' = pending /\ pending' = <<>>
      BY <2>2 DEF SwapFunctors, connVars, kernel, hist
    <3>. QED
      BY <1>0, <1>1, <3>2, <3>3 DEF EstablishInv
  <2>3. CASE RunFunctor /\ RunEstablish
    <3>1. /\ batch # <<>> /\ state' = "kConnected" /\ pending' = pending
          /\ batch' = <<[op |-> "complete"]>> \o Tail(batch)
      BY <2>3 DEF RunFunctor, RunEstablish, CallsBack
    <3>2. pending = <<>> /\ Tail(batch) = <<>>
      BY <1>1, <3>1, HeadFacts
    <3>3. <<[op |-> "complete"]>> \o <<>> = <<[op |-> "complete"]>>
      BY FunctorTypes, ConcatEmptySeq
    <3>4. NoEstablish(<<>>) /\ NoEstablish(<<[op |-> "complete"]>>)
      BY DEF NoEstablish
    <3>5. pending' = <<>> /\ batch' = <<[op |-> "complete"]>>
      BY <3>1, <3>2, <3>3
    <3>. QED
      BY <3>1, <3>4, <3>5 DEF EstablishInv
  <2>. QED
    BY <1>1, <2>1, <2>2, <2>3, NewConnection
<1>2. CASE state # "kConnecting"
  <2>0. NoEstablish(pending) /\ NoEstablish(batch) /\ NoEstablish(<<>>)
    BY <1>0, <1>2 DEF EstablishInv, NoEstablish
  <2>. SUFFICES state' # "kConnecting" /\ NoEstablish(pending') /\ NoEstablish(batch')
    BY DEF EstablishInv
  <2>1. LoopEffect => state' # "kConnecting" /\ NoEstablish(pending')
    <3>1. NoEstablish(Append(pending, [op |-> "remove"]))
      BY <1>a, <2>0, FunctorTypes, PushFunctor
    <3>. QED
      BY <1>2, <2>0, <3>1 DEF LoopEffect
  <2>2. CASE EpollWait \/ ReadAgain \/ WriteStops \/ WriteSome \/ WriteDone \/ FlushShutdown
             \/ EndOfBatch \/ Peer
    <3>1. UNCHANGED <<state, pending, batch>>
      BY <2>2 DEF EpollWait, ReadAgain, WriteStops, WriteSome, WriteDone, FlushShutdown,
             EndOfBatch, Peer, PeerReads, PeerSends, PeerCloses, PeerResets, connVars, loopVars
    <3>. QED
      BY <1>2, <2>0, <3>1
  <2>3. CASE HandleError \/ ReadEnd \/ WriteFails
    <3>1. HandleClose("io") /\ batch' = batch
      BY <2>3 DEF HandleError, ReadEnd, WriteFails
    <3>. QED
      BY <1>0, <1>2, <2>0, <2>1, <3>1, CloseEffect
  <2>4. CASE ReadChunk \/ WriteComplete
    <3>1. Callback("io") /\ batch' = batch /\ UNCHANGED <<wire, reset>>
      BY <2>4 DEF ReadChunk, WriteComplete
    <3>. QED
      BY <1>0, <2>0, <2>1, <3>1, CallbackEffect DEF ConnectionInv
  <2>5. CASE SwapFunctors
    BY <1>2, <2>0, <2>5 DEF SwapFunctors, connVars
  <2>6. CASE RunFunctor
    <3>0. /\ batch # <<>> /\ UNCHANGED <<wire, reset>>
          /\ batch' \in {Tail(batch), <<[op |-> "complete"]>> \o Tail(batch)}
      BY <2>6 DEF RunFunctor
    <3>1. NoEstablish(batch')
      BY <1>a, <2>0, <3>0, PopFunctor
    <3>2. CASE RunSend
      BY <1>0, <2>1, <3>1, <3>2, SendEffect DEF RunSend
    <3>3. CASE RunComplete
      BY <1>0, <2>1, <3>0, <3>1, <3>3, CallbackEffect DEF RunComplete, ConnectionInv
    <3>4. CASE RunForceClose
      <4>1. CASE HandleClose("functor")
        BY <1>0, <1>2, <2>1, <3>1, <4>1, CloseEffect
      <4>2. CASE UNCHANGED <<state, pending>>
        BY <1>2, <2>0, <3>1, <4>2
      <4>. QED
        BY <3>4, <4>1, <4>2 DEF RunForceClose
    <3>5. CASE RunShutdown \/ RunRemove
      <4>1. pending' = pending /\ (state' = state \/ state' = "kDisconnected")
        BY <3>5 DEF RunShutdown, RunRemove, ConnectDestroyed, connVars
      <4>. QED
        BY <1>2, <2>0, <3>1, <4>1
    <3>6. ~RunEstablish
      BY <1>2, <3>0, HeadFacts DEF RunEstablish
    <3>. QED
      BY <2>6, <3>2, <3>3, <3>4, <3>5, <3>6 DEF RunFunctor
  <2>7. ASSUME NEW t \in Threads, ThreadStep(t)
        PROVE  state' # "kConnecting" /\ NoEstablish(pending') /\ NoEstablish(batch')
    <3>1. batch' = batch /\ (state' = state \/ state' = "kDisconnecting")
      BY <2>7 DEF ThreadStep, FinishCall, SendCheck, ShutdownCheck, ForceClose, SendPost,
                ShutdownStore, ShutdownPost, connVars, loopVars
    <3>2. \/ pending' = pending
          \/ \E o \in {"shutdown", "forceClose"} : pending' = Append(pending, [op |-> o])
          \/ \E len \in MsgLens :
               pending' = Append(pending, [op |-> "send", data |-> Message(len)])
      BY <2>7 DEF ThreadStep, FinishCall, SendCheck, ShutdownCheck, ForceClose, SendPost,
                ShutdownStore, ShutdownPost, loopVars, Post, QueueFunctor
    <3>3. nsent \in Nat
      BY <1>0, Typing
    <3>4. NoEstablish(pending')
      BY <1>a, <2>0, <3>2, <3>3, MessageType, FunctorTypes, PushFunctor
    <3>. QED
      BY <1>2, <2>0, <3>1, <3>4
  <2>. QED
    BY <2>2, <2>3, <2>4, <2>5, <2>6, <2>7 DEF Next, LoopStep
<1>. QED
  BY <1>1, <1>2

(* connectDestroyed runs once, and no event is reported after it.           *)
LEMMA NotifyStep == ConnectionInv /\ Next => NotifyInv'
<1>. SUFFICES ASSUME ConnectionInv, Next PROVE NotifyInv'
  OBVIOUS
<1>0. TypeOK /\ StreamInv /\ FinInv /\ EstablishInv /\ NotifyInv
  BY DEF ConnectionInv
<1>a. notified \in Nat /\ state \in States
  BY <1>0, Typing
<1>1. CASE EpollWait
  <2>1. /\ lpc = "wait" /\ lpc' = "dispatch"
        /\ UNCHANGED <<state, interest, inMap, batch, notified>>
        /\ revents' = {} \/ revents' = ReadyFor(interest, Space)
    BY <1>1 DEF EpollWait, connVars, hist
  <2>2. /\ interest = {} => revents' = {}
        /\ "in" \in revents' => "in" \in interest
    BY <2>1 DEF ReadyFor
  <2>. QED
    BY <1>0, <2>1, <2>2 DEF NotifyInv, EstablishInv
<1>2. CASE /\ lpc = "dispatch" /\ revents # {} /\ UNCHANGED <<lpc, batch, inMap, notified>>
           /\ state' # "kConnecting"
           /\ interest' \in SUBSET (interest \cup {"out"})
           /\ revents' \in SUBSET (revents \cup {"complete", "flushed"})
  BY <1>0, <1>2 DEF NotifyInv
<1>b. LoopEffect => /\ interest' \in SUBSET (interest \cup {"out"})
                    /\ state # "kConnecting" => state' # "kConnecting"
  BY DEF LoopEffect
<1>c. revents # {} => state # "kConnecting"
  BY <1>0 DEF NotifyInv
<1>3. CASE HandleError \/ ReadEnd \/ WriteFails
  <2>1. /\ lpc = "dispatch" /\ revents # {} /\ UNCHANGED <<lpc, batch, inMap, notified>>
        /\ revents' \in SUBSET revents /\ HandleClose("io")
    BY <1>3 DEF HandleError, ReadEnd, WriteFails, Reading, Writing
  <2>2. LoopEffect
    BY <1>0, <1>c, <2>1, CloseEffect
  <2>. QED
    BY <1>2, <1>b, <1>c, <2>1, <2>2
<1>4. CASE ReadChunk \/ WriteComplete
  <2>1. /\ lpc = "dispatch" /\ revents # {} /\ UNCHANGED <<lpc, batch, inMap, notified>>
        /\ revents' \in SUBSET (revents \cup {"complete"})
        /\ Callback("io") /\ UNCHANGED <<wire, reset>>
    BY <1>4 DEF ReadChunk, WriteComplete, Reading
  <2>2. LoopEffect
    BY <1>0, <2>1, CallbackEffect
  <2>. QED
    BY <1>2, <1>b, <1>c, <2>1, <2>2
<1>5. CASE ReadAgain \/ WriteStops \/ WriteSome \/ WriteDone \/ FlushShutdown
  <2>1. /\ lpc = "dispatch" /\ revents # {} /\ UNCHANGED <<lpc, batch, inMap, notified, state>>
        /\ interest' \in SUBSET interest
        /\ revents' \in SUBSET (revents \cup {"complete", "flushed"})
    BY <1>5 DEF ReadAgain, WriteStops, WriteSome, WriteDone, FlushShutdown, Reading, Writing,
                UpdateChannel, connVars, loopVars, hist
  <2>. QED
    BY <1>2, <1>c, <2>1
<1>6. CASE SwapFunctors
  BY <1>0, <1>6 DEF SwapFunctors, NotifyInv, connVars, hist
<1>7. CASE EndOfBatch
  BY <1>0, <1>7 DEF EndOfBatch, NotifyInv, connVars, hist
<1>8. CASE RunFunctor
  <2>0. /\ lpc = "functors" /\ lpc' = lpc /\ revents = {} /\ revents' = revents
        /\ batch # <<>> /\ UNCHANGED <<wire, reset>>
    BY <1>0, <1>8 DEF RunFunctor, NotifyInv
  <2>. SUFFICES /\ inMap' => notified' = 0
                /\ notified' <= 1
                /\ notified' > 0 => "in" \notin interest'
    BY <2>0 DEF NotifyInv
  <2>1. CASE /\ UNCHANGED <<inMap, notified>>
             /\ interest' \in SUBSET (interest \cup {"out"})
    BY <1>0, <2>1 DEF NotifyInv
  <2>2. CASE RunEstablish
    <3>1. UNCHANGED <<inMap, notified>> /\ notified = 0
      BY <1>0, <2>0, <2>2, HeadFacts DEF RunEstablish, EstablishInv
    <3>. QED
      BY <3>1
  <2>3. CASE RunSend
    BY <1>0, <1>b, <2>1, <2>3, SendEffect DEF RunSend
  <2>4. CASE RunComplete
    BY <1>0, <1>b, <2>0, <2>1, <2>4, CallbackEffect DEF RunComplete
  <2>5. CASE RunShutdown
    BY <2>1, <2>5 DEF RunShutdown, connVars
  <2>6. CASE RunForceClose
    <3>1. /\ UNCHANGED <<inMap, notified>>
          /\ interest' = interest \/ interest' = {}
      BY <2>6 DEF RunForceClose, HandleClose, UpdateChannel
    <3>. QED
      BY <2>1, <3>1
  <2>7. CASE RunRemove
    <3>1. CASE inMap
      BY <1>0, <2>7, <3>1 DEF RunRemove, ConnectDestroyed, UpdateChannel, NotifyInv
    <3>2. CASE ~inMap
      BY <1>0, <2>7, <3>2 DEF RunRemove, NotifyInv
    <3>. QED
      BY <3>1, <3>2
  <2>. QED
    BY <1>8, <2>2, <2>3, <2>4, <2>5, <2>6, <2>7 DEF RunFunctor
<1>9. ASSUME NEW t \in Threads, ThreadStep(t)
      PROVE  NotifyInv'
  <2>1. /\ UNCHANGED <<lpc, revents, batch, interest, inMap, notified>>
        /\ state' = state \/ state' = "kDisconnecting"
    BY <1>9 DEF ThreadStep, FinishCall, SendCheck, ShutdownCheck, ForceClose, SendPost,
                ShutdownStore, ShutdownPost, connVars, loopVars, hist
  <2>. QED
    BY <1>0, <2>1 DEF NotifyInv
<1>10. CASE Peer
  <2>1. UNCHANGED <<lpc, revents, batch, interest, inMap, notified, state>>
    BY <1>10 DEF Peer, PeerReads, PeerSends, PeerCloses, PeerResets, connVars, loopVars, hist
  <2>. QED
    BY <1>0, <2>1 DEF NotifyInv
<1>. QED
  BY <1>1, <1>3, <1>4, <1>5, <1>6, <1>7, <1>8, <1>9, <1>10 DEF Next, LoopStep

-----------------------------------------------------------------------------
(* The flags of the kernel's socket stay Boolean.                           *)
LEMMA Flags ==
  ASSUME TypeOK
  PROVE  /\ inMap \in BOOLEAN /\ wake \in BOOLEAN /\ nospace \in BOOLEAN /\ armed \in BOOLEAN
         /\ peerFin \in BOOLEAN /\ reset \in BOOLEAN /\ finSent \in BOOLEAN
  BY Zenon DEF TypeOK

(* The ready list after epoll_ctl, after handleClose, and after sendInLoop. *)
LEMMA SendFlags ==
  ASSUME TypeOK
  PROVE  /\ \A i, free : UpdateChannel(i, free) => armed' \in BOOLEAN
         /\ \A where : HandleClose(where) => armed' \in BOOLEAN
         /\ \A data, where : SendInLoop(data, where) => armed' \in BOOLEAN /\ nospace' \in BOOLEAN
         /\ \A s : ShutdownEffect(s) => finSent' \in BOOLEAN
<1>0. armed \in BOOLEAN /\ nospace \in BOOLEAN
  BY Flags
<1>1. \A i, free : UpdateChannel(i, free) => armed' \in BOOLEAN
  BY Zenon DEF UpdateChannel
<1>2. ASSUME NEW where, HandleClose(where)
      PROVE  armed' \in BOOLEAN
  <2>1. UpdateChannel({}, Space) \/ armed' = armed
    BY <1>2, Zenon DEF HandleClose
  <2>. QED
    BY <1>0, <1>1, <2>1, Zenon
<1>3. ASSUME NEW data, NEW where, SendInLoop(data, where)
      PROVE  armed' \in BOOLEAN /\ nospace' \in BOOLEAN
  <2>1. \/ armed' = armed
        \/ HandleClose(where)
        \/ \E i, free : UpdateChannel(i, free)
        \/ \E free : HighWaterCloses(where, free)
    BY <1>3, Zenon DEF SendInLoop
  <2>2. \A free : HighWaterCloses(where, free) => armed' \in BOOLEAN
    BY Zenon DEF HighWaterCloses
  <2>3. nospace' = nospace \/ \E b : nospace' = (nospace \/ b)
    BY <1>3, Zenon DEF SendInLoop
  <2>4. nospace' \in BOOLEAN
    BY <1>0, <2>3, Zenon
  <2>. QED
    BY <1>0, <1>1, <1>2, <2>1, <2>2, <2>4, Zenon
<1>4. \A s : ShutdownEffect(s) => finSent' \in BOOLEAN
  BY Zenon DEF ShutdownEffect
<1>. QED
  BY <1>1, <1>2, <1>3, <1>4, Zenon

(* The same after the application's callback.                               *)
LEMMA CallbackFlags ==
  ASSUME TypeOK, NEW where, Callback(where)
  PROVE  armed' \in BOOLEAN /\ nospace' \in BOOLEAN /\ finSent' \in BOOLEAN
<1>0. armed \in BOOLEAN /\ nospace \in BOOLEAN /\ finSent \in BOOLEAN
  BY Flags
<1>1. \/ UNCHANGED <<armed, nospace, finSent>>
      \/ (\E data : SendInLoop(data, where)) /\ UNCHANGED finSent
      \/ UNCHANGED <<armed, nospace>> /\ \E s : ShutdownEffect(s)
      \/ HandleClose(where) /\ UNCHANGED <<nospace, finSent>>
  BY Zenon DEF Callback
<1>. QED
  BY <1>0, <1>1, SendFlags, Zenon

(* Every flag after a step.                                                 *)
LEMMA FlagStep ==
  ASSUME TypeOK, Next
  PROVE  /\ inMap' \in BOOLEAN /\ wake' \in BOOLEAN /\ nospace' \in BOOLEAN
         /\ armed' \in BOOLEAN /\ peerFin' \in BOOLEAN /\ reset' \in BOOLEAN
         /\ finSent' \in BOOLEAN
<1>0. /\ inMap \in BOOLEAN /\ wake \in BOOLEAN /\ nospace \in BOOLEAN /\ armed \in BOOLEAN
      /\ peerFin \in BOOLEAN /\ reset \in BOOLEAN /\ finSent \in BOOLEAN
  BY Flags
<1>. DEFINE Others == UNCHANGED <<inMap, wake, peerFin, reset>>
<1>1. CASE EpollWait
  <2>1. /\ armed' = FALSE /\ wake' = FALSE
        /\ UNCHANGED <<inMap, nospace, peerFin, reset, finSent>>
    BY <1>1, Zenon DEF EpollWait, connVars
  <2>. QED
    BY <1>0, <2>1, Zenon
<1>2. CASE HandleError \/ ReadEnd \/ WriteFails
  <2>1. HandleClose("io") /\ Others /\ UNCHANGED <<nospace, finSent>>
    BY <1>2, Zenon DEF HandleError, ReadEnd, WriteFails
  <2>. QED
    BY <1>0, <2>1, SendFlags, Zenon
<1>3. CASE ReadChunk \/ WriteComplete
  <2>1. Callback("io") /\ Others
    BY <1>3, Zenon DEF ReadChunk, WriteComplete
  <2>. QED
    BY <1>0, <2>1, CallbackFlags, Zenon
<1>4. CASE ReadAgain \/ SwapFunctors \/ EndOfBatch
  <2>1. Others /\ UNCHANGED <<armed, nospace, finSent>>
    BY <1>4, Zenon DEF ReadAgain, SwapFunctors, EndOfBatch, connVars, kernel
  <2>. QED
    BY <1>0, <2>1, Zenon
<1>5. CASE WriteStops \/ WriteSome \/ WriteDone \/ FlushShutdown
  <2>1. Others
    BY <1>5, Zenon DEF WriteStops, WriteSome, WriteDone, FlushShutdown, connVars, loopVars
  <2>2. armed' = armed \/ \E i, free : UpdateChannel(i, free)
    BY <1>5, Zenon DEF WriteStops, WriteSome, WriteDone, FlushShutdown
  <2>3. nospace' = nospace \/ nospace' = TRUE \/ \E b : nospace' = (nospace \/ b)
    BY <1>5, Zenon DEF WriteStops, WriteSome, WriteDone, FlushShutdown
  <2>4. finSent' = finSent \/ ShutdownEffect(state)
    BY <1>5, Zenon DEF WriteStops, WriteSome, WriteDone, FlushShutdown
  <2>5. nospace' \in BOOLEAN
    BY <1>0, <2>3, Zenon
  <2>. QED
    BY <1>0, <2>1, <2>2, <2>4, <2>5, SendFlags, Zenon
<1>6. CASE RunFunctor
  <2>0. UNCHANGED <<wake, peerFin, reset>>
    BY <1>6, Zenon DEF RunFunctor
  <2>1. inMap' = inMap \/ inMap' = FALSE
    BY <1>6, Zenon DEF RunFunctor, RunEstablish, RunSend, RunComplete, RunShutdown,
                       RunForceClose, RunRemove, connVars
  <2>2. \/ UNCHANGED <<nospace, finSent>> /\ (\E i, free : UpdateChannel(i, free))
        \/ UNCHANGED finSent /\ (\E data, where : SendInLoop(data, where))
        \/ \E where : Callback(where)
        \/ UNCHANGED <<armed, nospace>> /\ ShutdownEffect(state)
        \/ UNCHANGED <<nospace, finSent>> /\ (\E where : HandleClose(where))
        \/ UNCHANGED <<armed, nospace, finSent>>
    BY <1>6, Zenon DEF RunFunctor, RunEstablish, RunSend, RunComplete, RunShutdown,
                       RunForceClose, RunRemove, ConnectDestroyed
  <2>. QED
    BY <1>0, <2>0, <2>1, <2>2, SendFlags, CallbackFlags, Zenon
<1>7. ASSUME NEW t \in Threads, ThreadStep(t)
      PROVE  /\ wake' = wake \/ wake' = TRUE
             /\ UNCHANGED <<inMap, peerFin, reset, armed, nospace, finSent>>
  BY <1>7, Zenon DEF ThreadStep, FinishCall, SendCheck, ShutdownCheck, ForceClose, SendPost,
                ShutdownStore, ShutdownPost, Post, connVars, loopVars, kernel
<1>8. CASE Peer
  <2>1. UNCHANGED <<inMap, wake, finSent>>
    BY <1>8, Zenon DEF Peer, PeerReads, PeerSends, PeerCloses, PeerResets, connVars, loopVars
  <2>2. /\ peerFin' = peerFin \/ peerFin' = TRUE
        /\ reset' = reset \/ reset' = TRUE
        /\ nospace' = nospace \/ nospace' = FALSE
    BY <1>8, Zenon DEF Peer, PeerReads, PeerSends, PeerCloses, PeerResets
  <2>3. armed' \in BOOLEAN
    BY <1>8, Zenon DEF Peer, PeerReads, PeerSends, PeerCloses, PeerResets
  <2>. QED
    BY <1>0, <2>1, <2>2, <2>3, Zenon
<1>. QED
  BY <1>0, <1>1, <1>2, <1>3, <1>4, <1>5, <1>6, <1>7, <1>8, Zenon DEF Next, LoopStep

(* The queues of functors after a step.                                     *)
LEMMA QueueStep ==
  ASSUME ConnectionInv, Next
  PROVE  pending' \in Seq(Functor) /\ batch' \in Seq(Functor)
<1>0. TypeOK /\ StreamInv /\ FinInv /\ EstablishInv /\ NotifyInv
  BY DEF ConnectionInv
<1>a. pending \in Seq(Functor) /\ batch \in Seq(Functor) /\ nsent \in Nat
  BY <1>0, Typing
<1>b. LoopEffect => pending' \in Seq(Functor)
  <2>1. Append(pending, [op |-> "remove"]) \in Seq(Functor)
    BY <1>a, FunctorTypes, PushFunctor
  <2>. QED
    BY <1>a, <2>1 DEF LoopEffect
<1>c. revents # {} => state # "kConnecting"
  BY <1>0 DEF NotifyInv
<1>1. CASE EpollWait \/ ReadAgain \/ WriteStops \/ WriteSome \/ WriteDone \/ FlushShutdown
           \/ EndOfBatch \/ Peer
  <2>1. UNCHANGED <<pending, batch>>
    BY <1>1 DEF EpollWait, ReadAgain, WriteStops, WriteSome, WriteDone, FlushShutdown,
             EndOfBatch, Peer, PeerReads, PeerSends, PeerCloses, PeerResets, connVars, loopVars
  <2>. QED
    BY <1>a, <2>1
<1>2. CASE HandleError \/ ReadEnd \/ WriteFails
  <2>1. HandleClose("io") /\ batch' = batch /\ revents # {}
    BY <1>2 DEF HandleError, ReadEnd, WriteFails, Reading, Writing
  <2>. QED
    BY <1>0, <1>a, <1>b, <1>c, <2>1, CloseEffect
<1>3. CASE ReadChunk \/ WriteComplete
  <2>1. Callback("io") /\ batch' = batch /\ UNCHANGED <<wire, reset>>
    BY <1>3 DEF ReadChunk, WriteComplete
  <2>. QED
    BY <1>0, <1>a, <1>b, <2>1, CallbackEffect
<1>4. CASE SwapFunctors
  BY <1>a, <1>4, EmptySeq DEF SwapFunctors
<1>5. CASE RunFunctor
  <2>0. /\ batch # <<>> /\ UNCHANGED <<wire, reset>>
        /\ batch' \in {Tail(batch), <<[op |-> "complete"]>> \o Tail(batch)}
    BY <1>5 DEF RunFunctor
  <2>1. batch' \in Seq(Functor)
    BY <1>a, <2>0, PopFunctor
  <2>2. CASE UNCHANGED pending
    BY <1>a, <2>1, <2>2
  <2>3. CASE RunSend
    BY <1>0, <1>b, <2>1, <2>3, SendEffect DEF RunSend
  <2>4. CASE RunComplete
    BY <1>0, <1>b, <2>0, <2>1, <2>4, CallbackEffect DEF RunComplete
  <2>5. CASE RunForceClose
    <3>1. UNCHANGED pending \/ (state # "kConnecting" /\ HandleClose("functor"))
      BY <2>5 DEF RunForceClose
    <3>. QED
      BY <1>0, <1>b, <2>1, <2>2, <3>1, CloseEffect
  <2>. QED
    BY <1>5, <2>2, <2>3, <2>4, <2>5
    DEF RunFunctor, RunEstablish, RunShutdown, RunRemove
<1>6. ASSUME NEW t \in Threads, ThreadStep(t)
      PROVE  pending' \in Seq(Functor) /\ batch' \in Seq(Functor)
  <2>1. batch' = batch
    BY <1>6 DEF ThreadStep, FinishCall, SendCheck, ShutdownCheck, ForceClose, SendPost,
                ShutdownStore, ShutdownPost, loopVars
  <2>2. \/ pending' = pending
        \/ \E o \in {"shutdown", "forceClose"} : pending' = Append(pending, [op |-> o])
        \/ \E len \in MsgLens :
             pending' = Append(pending, [op |-> "send", data |-> Message(len)])
    BY <1>6 DEF ThreadStep, FinishCall, SendCheck, ShutdownCheck, ForceClose, SendPost,
                ShutdownStore, ShutdownPost, loopVars, Post, QueueFunctor
  <2>3. pending' \in Seq(Functor)
    BY <1>a, <2>2, MessageType, FunctorTypes, PushFunctor
  <2>. QED
    BY <1>a, <2>1, <2>3
<1>. QED
  BY <1>1, <1>2, <1>3, <1>4, <1>5, <1>6 DEF Next, LoopStep

(* The state of the connection, the interest and the history after a step.  *)
ValueOK ==
  /\ state \in States /\ interest \in SUBSET {"in", "out"}
  /\ lpc \in {"wait", "dispatch", "functors"}
  /\ revents \in SUBSET {"in", "out", "err", "complete", "flushed"}
  /\ tpc \in [Threads -> {"idle", "sending", "shutting", "set"}]
  /\ ops \in [Threads -> Nat]
  /\ rcv \in Nat /\ nsent \in Nat /\ nrcvd \in Nat /\ delivered \in Nat
  /\ notified \in Nat /\ closed \in {"no", "io", "functor"}

(* They keep their types.                                                   *)
LEMMA ValueStep ==
  ASSUME ConnectionInv, Next
  PROVE  ValueOK'
<1>0. TypeOK /\ StreamInv /\ FinInv /\ EstablishInv /\ NotifyInv
  BY DEF ConnectionInv
<1>a. ValueOK
  BY <1>0, Typing DEF ValueOK
<1>b. LoopEffect => /\ state' \in States /\ interest' \in SUBSET {"in", "out"}
                    /\ closed' \in {"no", "io", "functor"}
  BY <1>a DEF LoopEffect, ValueOK, States
<1>c. revents # {} => state # "kConnecting"
  BY <1>0 DEF NotifyInv
<1>1. CASE EpollWait
  <2>1. revents' \in SUBSET {"in", "out", "err", "complete", "flushed"}
    BY <1>1 DEF EpollWait, ReadyFor
  <2>2. /\ lpc' = "dispatch" /\ UNCHANGED <<state, interest, tpc, ops, rcv>> /\ UNCHANGED hist
    BY <1>1 DEF EpollWait, connVars
  <2>. QED
    BY <1>a, <2>1, <2>2 DEF ValueOK, hist
<1>2. CASE HandleError \/ ReadEnd \/ WriteFails
  <2>1. /\ HandleClose("io") /\ revents # {} /\ revents' \in SUBSET revents
        /\ UNCHANGED <<lpc, tpc, ops, rcv, nsent, nrcvd, delivered, notified>>
    BY <1>2 DEF HandleError, ReadEnd, WriteFails, Reading, Writing
  <2>2. LoopEffect
    BY <1>0, <1>c, <2>1, CloseEffect
  <2>. QED
    BY <1>a, <1>b, <2>1, <2>2 DEF ValueOK
<1>3. CASE ReadChunk \/ WriteComplete
  <2>1. /\ Callback("io") /\ UNCHANGED <<wire, reset>>
        /\ revents' \in SUBSET (revents \cup {"complete"})
        /\ UNCHANGED <<lpc, tpc, ops, nrcvd, notified>>
    BY <1>3 DEF ReadChunk, WriteComplete
  <2>2. LoopEffect /\ nsent' \in Nat
    BY <1>0, <2>1, CallbackEffect
  <2>3. rcv' \in Nat /\ delivered' \in Nat
    BY <1>3, <1>a DEF ReadChunk, WriteComplete, ValueOK
  <2>. QED
    BY <1>a, <1>b, <2>1, <2>2, <2>3 DEF ValueOK
<1>4. CASE ReadAgain \/ WriteStops \/ WriteSome \/ WriteDone \/ FlushShutdown
  <2>1. /\ UNCHANGED <<state, lpc, tpc, ops, rcv>> /\ UNCHANGED hist
        /\ interest' \in SUBSET interest
        /\ revents' \in SUBSET (revents \cup {"complete", "flushed"})
    BY <1>4 DEF ReadAgain, WriteStops, WriteSome, WriteDone, FlushShutdown,
                UpdateChannel, connVars, loopVars, kernel
  <2>. QED
    BY <1>a, <2>1 DEF ValueOK, hist
<1>5. CASE SwapFunctors \/ EndOfBatch
  <2>1. /\ UNCHANGED <<state, interest, revents, tpc, ops, rcv>> /\ UNCHANGED hist
        /\ lpc' \in {"wait", "functors"}
    BY <1>5 DEF SwapFunctors, EndOfBatch, connVars, kernel
  <2>. QED
    BY <1>a, <2>1 DEF ValueOK, hist
<1>6. CASE RunFunctor
  <2>0. /\ batch # <<>> /\ UNCHANGED <<wire, reset>>
        /\ UNCHANGED <<lpc, revents, tpc, ops, rcv, nrcvd, delivered>>
    BY <1>6 DEF RunFunctor
  <2>. SUFFICES /\ state' \in States /\ interest' \in SUBSET {"in", "out"}
                /\ closed' \in {"no", "io", "functor"} /\ nsent' \in Nat /\ notified' \in Nat
    BY <1>a, <2>0 DEF ValueOK
  <2>1. CASE RunEstablish \/ RunRemove \/ RunShutdown
    <3>1. /\ UNCHANGED <<closed, nsent>> /\ (notified' = notified \/ notified' = notified + 1)
          /\ state' = state \/ state' \in {"kConnected", "kDisconnected"}
          /\ interest' = interest \/ interest' = {} \/ interest' = {"in"}
      BY <2>1 DEF RunEstablish, RunRemove, RunShutdown, ConnectDestroyed, UpdateChannel, connVars
    <3>2. state' \in States /\ interest' \in SUBSET {"in", "out"}
      BY <1>a, <3>1 DEF ValueOK, States
    <3>. QED
      BY <1>a, <3>1, <3>2 DEF ValueOK
  <2>2. CASE RunSend
    <3>1. LoopEffect /\ UNCHANGED <<notified, nsent>>
      BY <1>0, <2>2, SendEffect DEF RunSend
    <3>. QED
      BY <1>a, <1>b, <3>1 DEF ValueOK
  <2>3. CASE RunComplete
    <3>1. LoopEffect /\ nsent' \in Nat /\ UNCHANGED notified
      BY <1>0, <2>0, <2>3, CallbackEffect DEF RunComplete
    <3>. QED
      BY <1>a, <1>b, <3>1 DEF ValueOK
  <2>4. CASE RunForceClose
    <3>1. /\ UNCHANGED <<nsent, notified>>
          /\ \/ UNCHANGED <<state, interest, closed>>
             \/ state # "kConnecting" /\ HandleClose("functor")
      BY <2>4 DEF RunForceClose
    <3>2. UNCHANGED <<state, interest, closed>> \/ LoopEffect
      BY <1>0, <3>1, CloseEffect
    <3>. QED
      BY <1>a, <1>b, <3>1, <3>2 DEF ValueOK
  <2>. QED
    BY <1>6, <2>1, <2>2, <2>3, <2>4 DEF RunFunctor
<1>7. ASSUME NEW t \in Threads, ThreadStep(t)
      PROVE  ValueOK'
  <2>1. /\ UNCHANGED <<interest, lpc, revents, rcv, nrcvd, delivered, closed, notified>>
        /\ state' = state \/ state' = "kDisconnecting"
        /\ nsent' = nsent \/ nsent' = nsent + 1
    BY <1>7 DEF ThreadStep, FinishCall, SendCheck, ShutdownCheck, ForceClose, SendPost,
                ShutdownStore, ShutdownPost, connVars, loopVars, kernel, hist
  <2>2. /\ \E p \in {"idle", "sending", "shutting", "set"} : tpc' = [tpc EXCEPT ![t] = p]
        /\ ops' = ops \/ ops' = [ops EXCEPT ![t] = @ + 1]
    BY <1>7 DEF ThreadStep, FinishCall, SendCheck, ShutdownCheck, ForceClose, SendPost,
                ShutdownStore, ShutdownPost, Begin
  <2>3. /\ tpc' \in [Threads -> {"idle", "sending", "shutting", "set"}]
        /\ ops' \in [Threads -> Nat]
    BY <1>a, <2>2 DEF ValueOK
  <2>. QED
    BY <1>a, <2>1, <2>3 DEF ValueOK, States
<1>8. CASE Peer
  <2>1. /\ UNCHANGED <<state, interest, lpc, revents, tpc, ops, nsent, delivered, closed, notified>>
        /\ rcv' = rcv \/ rcv' = rcv + 1
        /\ nrcvd' = nrcvd \/ nrcvd' = nrcvd + 1
    BY <1>8 DEF Peer, PeerReads, PeerSends, PeerCloses, PeerResets, connVars, loopVars, hist
  <2>. QED
    BY <1>a, <2>1 DEF ValueOK
<1>. QED
  BY <1>1, <1>2, <1>3, <1>4, <1>5, <1>6, <1>7, <1>8 DEF Next, LoopStep

(* The type invariant after a step, from its three parts and the stream.    *)
LEMMA TypeStep == ConnectionInv /\ Next => TypeOK'
<1>. SUFFICES ASSUME ConnectionInv, Next PROVE TypeOK'
  OBVIOUS
<1>1. ValueOK'
  BY ValueStep
<1>2. pending' \in Seq(Functor) /\ batch' \in Seq(Functor)
  BY QueueStep
<1>3. /\ out' \in Seq(Byte) /\ sndbuf' \in Seq(Byte) /\ wire' \in Seq(Byte)
      /\ accepted' \in Seq(Byte)
  BY StreamStep DEF StreamInv
<1>4. {inMap', wake', nospace', armed', peerFin', reset', finSent'} \subseteq BOOLEAN
  <2>1. TypeOK
    BY DEF ConnectionInv
  <2>. QED
    BY <2>1, FlagStep, Zenon
<1>5. {rcv', nsent', nrcvd', delivered', notified'} \subseteq Nat
  BY <1>1, Zenon DEF ValueOK
<1>. QED
  BY <1>1, <1>2, <1>3, <1>4, <1>5, Zenon DEF TypeOK, ValueOK, Functor

-----------------------------------------------------------------------------
(* The connection as onNewConnection hands it over.                         *)
LEMMA ConnectionInit == Init => ConnectionInv
<1>. SUFFICES ASSUME Init PROVE ConnectionInv
  OBVIOUS
<1>1. <<>> \in Seq(Byte) /\ Len(<<>>) = 0 /\ <<>> \in Seq(Functor)
  BY EmptySeq
<1>2. <<>> \o <<>> \o <<>> = <<>>
  BY <1>1, ConcatEmptySeq
<1>3. StreamInv
  BY <1>1, <1>2, BoundsAssumption DEF Init, StreamInv, StreamIntegrity
<1>4. FinInv /\ EstablishInv /\ NotifyInv
  BY DEF Init, FinInv, EstablishInv, NotifyInv
<1>5. TypeOK
  <2>1. pending \in Seq(Functor)
    BY FunctorTypes DEF Init
  <2>2. {inMap, wake, nospace, armed, peerFin, reset, finSent} \subseteq BOOLEAN
    BY Zenon DEF Init
  <2>3. /\ tpc \in [Threads -> {"idle", "sending", "shutting", "set"}]
        /\ ops \in [Threads -> Nat]
    BY DEF Init
  <2>4. {rcv, nsent, nrcvd, delivered, notified} \subseteq Nat
    BY DEF Init
  <2>5. state \in States /\ lpc \in {"wait", "dispatch", "functors"}
        /\ closed \in {"no", "io", "functor"} /\ interest = {} /\ revents = {} /\ batch = <<>>
    BY DEF Init, States
  <2>. QED
    BY <1>1, <1>3, <2>1, <2>2, <2>3, <2>4, <2>5, Zenon DEF TypeOK, StreamInv, Functor
<1>. QED
  BY <1>3, <1>4, <1>5 DEF ConnectionInv

(* The invariant is inductive.                                              *)
LEMMA ConnectionStep == ConnectionInv /\ [Next]_vars => ConnectionInv'
<1>1. ASSUME ConnectionInv, UNCHANGED vars
      PROVE  ConnectionInv'
  <2>1. TypeOK' /\ StreamInv' /\ FinInv'
    BY <1>1, Zenon DEF ConnectionInv, TypeOK, StreamInv, StreamIntegrity, FinInv, vars, connVars,
                       loopVars, kernel, hist
  <2>2. EstablishInv' /\ NotifyInv'
    BY <1>1, Zenon DEF ConnectionInv, EstablishInv, NotifyInv, vars, connVars,
                       loopVars, kernel, hist
  <2>. QED
    BY <2>1, <2>2, Zenon DEF ConnectionInv
<1>. QED
  BY <1>1, TypeStep, StreamStep, EstablishStep, NotifyStep DEF ConnectionInv

(* It holds in every state.                                                 *)
LEMMA ConnectionInvariant == Spec => []ConnectionInv
  BY ConnectionInit, ConnectionStep, PTL DEF Spec

-----------------------------------------------------------------------------
(* The variables of TcpConnection keep their types.                         *)
THEOREM TypeCorrect == Spec => []TypeOK
<1>1. ConnectionInv => TypeOK
  BY DEF ConnectionInv
<1>. QED
  BY <1>1, ConnectionInvariant, PTL

(* Bytes leave in the order sendInLoop took them, whichever of them went    *)
(* straight to the socket and whichever waited in output_buffer_, for every *)
(* size of the kernel's buffer, every message and every high-water mark.    *)
THEOREM StreamIsIntact == Spec => []StreamIntegrity
<1>1. ConnectionInv => StreamIntegrity
  BY DEF ConnectionInv, StreamInv
<1>. QED
  BY <1>1, ConnectionInvariant, PTL

(* SHUT_WR is sent with an empty output_buffer_, and nothing is buffered    *)
(* after it, whoever calls shutdown(): any thread, or a connection, message *)
(* or write-complete callback.  A shutdown() inside the high-water-mark     *)
(* callback, which runs before its message is buffered, is not part of Spec. *)
THEOREM FinIsLast == Spec => []FinAfterData
<1>1. ConnectionInv => FinAfterData
  BY DEF ConnectionInv, FinInv, FinAfterData
<1>. QED
  BY <1>1, ConnectionInvariant, PTL

(* connectDestroyed tells the application of the close at most once,        *)
(* although shutdown()'s store can let handleClose take effect twice.       *)
THEOREM NotifiesOnce == Spec => []NotifiedOnce
<1>1. ConnectionInv => NotifiedOnce
  BY DEF ConnectionInv, NotifyInv, NotifiedOnce
<1>. QED
  BY <1>1, ConnectionInvariant, PTL

(* After the close notification no message_callback_ follows: the channel   *)
(* is not readable any more and no event of it is left over.                *)
THEOREM SilentAfterNotification == Spec => NoMessageAfterNotification
<1>1. ConnectionInv /\ [Next]_vars => [notified > 0 => delivered' = delivered]_vars
  <2>. SUFFICES ASSUME ConnectionInv, Next, notified > 0
                PROVE  delivered' = delivered
    OBVIOUS
  <2>1. "in" \notin revents
    BY DEF ConnectionInv, NotifyInv
  <2>2. ~ReadChunk
    BY <2>1 DEF ReadChunk, Reading
  <2>3. CASE RunFunctor
    BY <2>3 DEF RunFunctor
  <2>4. CASE Peer
    BY <2>4 DEF Peer, PeerReads, PeerSends, PeerCloses, PeerResets, hist
  <2>5. ASSUME NEW t \in Threads, ThreadStep(t)
        PROVE  delivered' = delivered
    BY <2>5 DEF ThreadStep, FinishCall, SendCheck, ShutdownCheck, ForceClose, SendPost,
                ShutdownStore, ShutdownPost, hist
  <2>6. CASE LoopStep /\ ~RunFunctor
    BY <2>2, <2>6 DEF LoopStep, EpollWait, HandleError, ReadEnd, ReadAgain, WriteStops, WriteSome,
                WriteFails, WriteDone, WriteComplete, FlushShutdown, SwapFunctors, EndOfBatch, hist
  <2>. QED
    BY <2>3, <2>4, <2>5, <2>6 DEF Next
<1>. QED
  BY <1>1, ConnectionInvariant, PTL DEF Spec, NoMessageAfterNotification
=============================================================================
