----------------------------- MODULE BufferProofs -----------------------------
(***************************************************************************)
(* Theorems about Buffer, for any sizes and any sequence of operations:    *)
(* it implements ByteQueue, and the storage it takes is bounded by twice   *)
(* the most it ever had to hold.                                           *)
(***************************************************************************)
EXTENDS Buffer, SequenceTheorems, TLAPS

(* A layout the member functions may meet: the indices are in order and     *)
(* inside the vector.  Without it neither a compaction nor a memcpy stays   *)
(* within the vector.                                                       *)
IsLayout(b) ==
  /\ b.size \in Nat /\ b.reader \in Nat /\ b.writer \in Nat
  /\ b.mem \in [0..(b.size - 1) -> Nat]
  /\ Prepend <= b.reader /\ b.reader <= b.writer /\ b.writer <= b.size

Readable(b) == b.writer - b.reader

(* The readable bytes are consecutive and end with byte `last'.             *)
EndsWith(b, last) == \A i \in b.reader..(b.writer - 1) : b.mem[i] = last + 1 + i - b.writer

(* The inductive invariant: the readable bytes are the last ones put in.    *)
BufferInv ==
  /\ IsLayout(Layout) /\ EndsWith(Layout, put)
  /\ put \in 0..MaxBytes
  /\ peak \in Nat /\ writer - reader <= peak
  /\ StorageBounded

-----------------------------------------------------------------------------
(* Member functions on layouts.                                             *)

(* makeSpace() by moving the readable bytes down changes neither them nor   *)
(* the size of the vector.                                                  *)
LEMMA CompactedKeeps ==
  ASSUME NEW b, IsLayout(b), NEW last \in Nat, EndsWith(b, last)
  PROVE  /\ IsLayout(Compacted(b)) /\ EndsWith(Compacted(b), last)
         /\ Compacted(b).size = b.size
         /\ Compacted(b).reader = Prepend
         /\ Compacted(b).writer = Prepend + Readable(b)
<1>. DEFINE w == Prepend + b.writer - b.reader
            m == [i \in DOMAIN b.mem |-> IF i >= Prepend /\ i < w
                                        THEN b.mem[b.reader + i - Prepend] ELSE b.mem[i]]
            e == [size |-> b.size, mem |-> m, reader |-> Prepend, writer |-> w]
<1>1. Compacted(b) = e
  BY DEF Compacted
<1>2. /\ Prepend \in Nat /\ b.size \in Nat /\ b.reader \in Nat /\ b.writer \in Nat
      /\ Prepend <= b.reader /\ b.reader <= b.writer /\ b.writer <= b.size
      /\ b.mem \in [0..(b.size - 1) -> Nat]
  BY BufferAssumption DEF IsLayout
<1>3. w \in Nat /\ Prepend <= w /\ w <= b.writer /\ w = Prepend + Readable(b)
  BY <1>2 DEF Readable
<1>4. \A i \in 0..(b.size - 1) : i >= Prepend /\ i < w => b.reader + i - Prepend \in 0..(b.size - 1)
  BY <1>2, <1>3
<1>5. DOMAIN m = 0..(b.size - 1) /\ m \in [0..(b.size - 1) -> Nat]
  BY <1>2, <1>4
<1>6. \A i \in Prepend..(w - 1) : m[i] = last + 1 + i - w
  <2>. SUFFICES ASSUME NEW i \in Prepend..(w - 1) PROVE m[i] = last + 1 + i - w
    OBVIOUS
  <2>1. i \in 0..(b.size - 1) /\ i >= Prepend /\ i < w
    BY <1>2, <1>3
  <2>2. m[i] = b.mem[b.reader + i - Prepend]
    <3>1. i \in DOMAIN b.mem
      BY <1>2, <2>1
    <3>. QED
      BY <2>1, <3>1
  <2>3. b.reader + i - Prepend \in b.reader..(b.writer - 1)
    BY <1>2, <2>1
  <2>4. b.mem[b.reader + i - Prepend] = last + 1 + (b.reader + i - Prepend) - b.writer
    BY <2>3 DEF EndsWith
  <2>5. last + 1 + (b.reader + i - Prepend) - b.writer = last + 1 + i - w
    BY <1>2, <2>1
  <2>. QED
    <3>. HIDE DEF m, w
    <3>. QED
      BY <2>2, <2>4, <2>5
<1>7. /\ e.size = b.size /\ e.mem = m /\ e.reader = Prepend /\ e.writer = w
  OBVIOUS
<1>8. IsLayout(e)
  <2>. HIDE DEF w, m
  <2>. QED
    BY <1>2, <1>3, <1>5, <1>7 DEF IsLayout
<1>9. EndsWith(e, last)
  <2>. HIDE DEF w, m
  <2>. QED
    BY <1>6, <1>7 DEF EndsWith
<1>. QED
  <2>. HIDE DEF w, m, e
  <2>. QED
    BY <1>1, <1>3, <1>7, <1>8, <1>9

(* Indices in order inside a vector make a layout.                          *)
LEMMA LayoutOf ==
  ASSUME NEW s \in Nat, NEW m \in [0..(s - 1) -> Nat], NEW r \in Nat, NEW w \in Nat,
         Prepend <= r, r <= w, w <= s
  PROVE  IsLayout([size |-> s, mem |-> m, reader |-> r, writer |-> w])
  BY DEF IsLayout

(* makeSpace() by resize() keeps the readable bytes where they are.         *)
LEMMA GrownKeeps ==
  ASSUME NEW b, IsLayout(b), NEW last \in Nat, EndsWith(b, last),
         NEW n \in Nat, b.size - b.writer < n
  PROVE  /\ IsLayout(Grown(b, n)) /\ EndsWith(Grown(b, n), last)
         /\ Grown(b, n).size = b.writer + n
         /\ Grown(b, n).reader = b.reader /\ Grown(b, n).writer = b.writer
<1>. DEFINE m == Resized(b.mem, b.writer + n)
            e == [size |-> b.writer + n, mem |-> m, reader |-> b.reader, writer |-> b.writer]
<1>1. Grown(b, n) = e
  BY DEF Grown
<1>2. /\ Prepend \in Nat /\ b.size \in Nat /\ b.reader \in Nat /\ b.writer \in Nat
      /\ Prepend <= b.reader /\ b.reader <= b.writer /\ b.writer <= b.size
      /\ b.mem \in [0..(b.size - 1) -> Nat]
  BY BufferAssumption DEF IsLayout
<1>3. m \in [0..(b.writer + n - 1) -> Nat]
  BY <1>2 DEF Resized
<1>4. \A i \in b.reader..(b.writer - 1) : m[i] = b.mem[i]
  BY <1>2 DEF Resized
<1>5. /\ e.size = b.writer + n /\ e.mem = m /\ e.reader = b.reader /\ e.writer = b.writer
  OBVIOUS
<1>6. IsLayout(e)
  <2>. DEFINE total == b.writer + n
  <2>1. total \in Nat /\ b.writer <= total /\ m \in [0..(total - 1) -> Nat]
    BY <1>2, <1>3
  <2>. HIDE DEF m, total
  <2>2. IsLayout([size |-> total, mem |-> m, reader |-> b.reader, writer |-> b.writer])
    BY <1>2, <2>1, LayoutOf
  <2>. QED
    BY <2>2, Zenon DEF total
<1>7. EndsWith(e, last)
  <2>. HIDE DEF m
  <2>. QED
    BY <1>4, <1>5 DEF EndsWith
<1>. QED
  <2>. HIDE DEF e
  <2>. QED
    BY <1>1, <1>5, <1>6, <1>7

(* ensureWritableBytes(n) keeps the readable bytes, makes room for n more,  *)
(* and grows the vector only when the consumed prefix is shorter than n.    *)
LEMMA EnsureWritableKeeps ==
  ASSUME NEW b, IsLayout(b), NEW last \in Nat, EndsWith(b, last), NEW n \in Nat
  PROVE  LET e == EnsureWritable(b, n)
         IN  /\ IsLayout(e) /\ EndsWith(e, last)
             /\ Readable(e) = Readable(b)
             /\ n <= e.size - e.writer
             /\ e.size = b.size \/ e.size <= Prepend + Readable(b) + 2 * n
<1>1. /\ Prepend \in Nat /\ b.size \in Nat /\ b.reader \in Nat /\ b.writer \in Nat
      /\ Prepend <= b.reader /\ b.reader <= b.writer /\ b.writer <= b.size
  BY BufferAssumption DEF IsLayout
<1>2. CASE ~(b.size - b.writer < n)
  BY <1>1, <1>2 DEF EnsureWritable
<1>3. CASE b.size - b.writer < n /\ (b.size - b.writer) + b.reader - Prepend >= n
  <2>1. EnsureWritable(b, n) = Compacted(b)
    BY <1>3 DEF EnsureWritable, MakeSpace
  <2>. QED
    BY <1>1, <1>3, <2>1, CompactedKeeps DEF Readable
<1>4. CASE b.size - b.writer < n /\ ~((b.size - b.writer) + b.reader - Prepend >= n)
  <2>1. EnsureWritable(b, n) = Grown(b, n)
    BY <1>4 DEF EnsureWritable, MakeSpace
  <2>2. b.writer + n <= Prepend + (b.writer - b.reader) + 2 * n
    BY <1>1, <1>4
  <2>. QED
    BY <1>1, <1>4, <2>1, <2>2, GrownKeeps DEF Readable
<1>. QED
  BY <1>2, <1>3, <1>4

(* A memcpy into the free tail puts the bytes behind the readable ones.     *)
LEMMA StoredAppends ==
  ASSUME NEW b, IsLayout(b), NEW last \in Nat, EndsWith(b, last),
         NEW n \in Nat, n <= b.size - b.writer
  PROVE  LET e == Stored(b, last, n)
         IN  /\ IsLayout(e) /\ EndsWith(e, last + n)
             /\ Readable(e) = Readable(b) + n /\ e.size = b.size
<1>. DEFINE m == [i \in DOMAIN b.mem |-> IF i >= b.writer /\ i < b.writer + n
                                        THEN last + 1 + (i - b.writer) ELSE b.mem[i]]
            w == b.writer + n
            e == [size |-> b.size, mem |-> m, reader |-> b.reader, writer |-> w]
<1>1. Stored(b, last, n) = e
  BY DEF Stored
<1>2. /\ Prepend \in Nat /\ b.size \in Nat /\ b.reader \in Nat /\ b.writer \in Nat
      /\ Prepend <= b.reader /\ b.reader <= b.writer /\ b.writer <= b.size
      /\ b.mem \in [0..(b.size - 1) -> Nat]
  BY BufferAssumption DEF IsLayout
<1>3. m \in [0..(b.size - 1) -> Nat]
  BY <1>2
<1>4. /\ e.size = b.size /\ e.mem = m /\ e.reader = b.reader /\ e.writer = b.writer + n
  OBVIOUS
<1>5. IsLayout(e)
  <2>. HIDE DEF m
  <2>. QED
    BY <1>2, <1>3, <1>4 DEF IsLayout
<1>6. \A i \in b.reader..(w - 1) : m[i] = (last + n) + 1 + i - w
  <2>. SUFFICES ASSUME NEW i \in b.reader..(w - 1)
                PROVE  m[i] = (last + n) + 1 + i - (b.writer + n)
    OBVIOUS
  <2>0. \A x, y \in Nat : /\ last + 1 + (x - y) = (last + n) + 1 + x - (y + n)
                          /\ last + 1 + x - y = (last + n) + 1 + x - (y + n)
    OBVIOUS
  <2>1. i \in DOMAIN b.mem /\ i \in Nat /\ i < b.writer + n /\ b.reader <= i
    BY <1>2
  <2>2. CASE i >= b.writer
    <3>1. m[i] = last + 1 + (i - b.writer)
      BY <2>1, <2>2
    <3>2. last + 1 + (i - b.writer) = (last + n) + 1 + i - (b.writer + n)
      BY <1>2, <2>0, <2>1, Zenon
    <3>. QED
      BY <3>1, <3>2, Zenon
  <2>3. CASE i < b.writer
    <3>1. m[i] = b.mem[i]
      BY <1>2, <2>1, <2>3
    <3>2. i \in b.reader..(b.writer - 1)
      BY <1>2, <2>1, <2>3
    <3>3. b.mem[i] = last + 1 + i - b.writer
      BY <3>2 DEF EndsWith
    <3>4. last + 1 + i - b.writer = (last + n) + 1 + i - (b.writer + n)
      BY <1>2, <2>0, <2>1, Zenon
    <3>. QED
      BY <3>1, <3>3, <3>4, Zenon
  <2>4. i >= b.writer \/ i < b.writer
    BY <1>2, <2>1
  <2>. QED
    BY <2>2, <2>3, <2>4, Zenon
<1>7. EndsWith(e, last + n)
  <2>2. e.mem = m /\ e.reader = b.reader /\ e.writer = w
    OBVIOUS
  <2>. HIDE DEF m, w
  <2>. QED
    BY <1>6, <2>2 DEF EndsWith
<1>. QED
  <2>. HIDE DEF e
  <2>. QED
    BY <1>1, <1>2, <1>4, <1>5, <1>7 DEF Readable

(* append(): the bytes are behind the readable ones, and the vector grew    *)
(* only to less than twice what it must hold.                               *)
LEMMA AppendedAppends ==
  ASSUME NEW b, IsLayout(b), NEW last \in Nat, EndsWith(b, last), NEW n \in Nat
  PROVE  LET e == Appended(b, last, n)
         IN  /\ IsLayout(e) /\ EndsWith(e, last + n)
             /\ Readable(e) = Readable(b) + n
             /\ e.size = b.size \/ e.size <= Prepend + Readable(b) + 2 * n
<1>1. CASE n = 0
  <2>1. Readable(b) \in Int
    BY DEF Readable, IsLayout
  <2>. QED
    BY <1>1, <2>1 DEF Appended
<1>2. CASE n # 0
  <2>. DEFINE d == EnsureWritable(b, n)
  <2>1. /\ IsLayout(d) /\ EndsWith(d, last) /\ Readable(d) = Readable(b)
        /\ n <= d.size - d.writer
        /\ d.size = b.size \/ d.size <= Prepend + Readable(b) + 2 * n
    BY EnsureWritableKeeps
  <2>2. Appended(b, last, n) = Stored(d, last, n)
    BY <1>2 DEF Appended
  <2>. QED
    <3>. HIDE DEF d
    <3>. QED
      BY <2>1, <2>2, StoredAppends
<1>. QED
  BY <1>1, <1>2

-----------------------------------------------------------------------------
(* The operations.                                                          *)

(* What the invariant says of the variables.                                *)
LEMMA InvFacts ==
  ASSUME BufferInv
  PROVE  /\ IsLayout(Layout) /\ EndsWith(Layout, put) /\ Readable(Layout) = readableBytes
         /\ Layout.size = size /\ Layout.mem = mem
         /\ Layout.reader = reader /\ Layout.writer = writer
         /\ size \in Nat /\ reader \in Nat /\ writer \in Nat /\ put \in Nat /\ peak \in Nat
         /\ mem \in [0..(size - 1) -> Nat]
         /\ Prepend <= reader /\ reader <= writer /\ writer <= size
         /\ readableBytes \in Nat /\ readableBytes <= peak
         /\ {Prepend, InitialSize, ExtraSize, MaxBytes} \subseteq Nat
<1>1. /\ Layout.size = size /\ Layout.mem = mem
      /\ Layout.reader = reader /\ Layout.writer = writer
  BY DEF Layout
<1>. QED
  BY <1>1, BufferAssumption DEF BufferInv, IsLayout, Readable, readableBytes

(* The constructor's vector holds nothing.                                  *)
LEMMA BufferInit == Init => BufferInv
<1>. SUFFICES ASSUME Init PROVE BufferInv
  OBVIOUS
<1>1. /\ Layout.size = size /\ Layout.mem = mem
      /\ Layout.reader = reader /\ Layout.writer = writer
  BY DEF Layout
<1>2. {Prepend, InitialSize, ExtraSize, MaxBytes} \subseteq Nat
  BY BufferAssumption
<1>3. size \in Nat /\ Prepend <= size /\ mem \in [0..(size - 1) -> Nat]
  BY <1>2 DEF Init, Larger
<1>4. IsLayout(Layout) /\ EndsWith(Layout, put)
  BY <1>1, <1>2, <1>3 DEF Init, IsLayout, EndsWith
<1>5. StorageBounded
  BY <1>2 DEF Init, StorageBounded, Larger
<1>. QED
  BY <1>2, <1>4, <1>5 DEF Init, BufferInv

(* An operation that turns the layout into one with n more bytes, and asked *)
(* for room for `room' of them, keeps the invariant.                        *)
LEMMA BecomesKeeps ==
  ASSUME BufferInv, NEW e, IsLayout(e), NEW n \in Nat, NEW room \in Nat,
         EndsWith(e, put + n), Readable(e) = readableBytes + n, n <= room,
         e.size = size \/ e.size <= Prepend + 2 * (readableBytes + room),
         Becomes(e, room), put' = put + n, put + n <= MaxBytes
  PROVE  BufferInv'
<1>1. /\ size' = e.size /\ mem' = e.mem /\ reader' = e.reader /\ writer' = e.writer
      /\ peak' = Larger(peak, readableBytes + room)
  BY DEF Becomes
<1>2. /\ readableBytes \in Nat /\ peak \in Nat /\ put \in Nat /\ size \in Nat
      /\ {Prepend, InitialSize, MaxBytes} \subseteq Nat
  BY InvFacts
<1>3. /\ Layout'.size = e.size /\ Layout'.mem = e.mem
      /\ Layout'.reader = e.reader /\ Layout'.writer = e.writer
  BY <1>1 DEF Layout
<1>4. IsLayout(Layout')
  BY <1>3 DEF IsLayout
<1>5. EndsWith(Layout', put')
  BY <1>3 DEF EndsWith
<1>6. /\ peak' \in Nat /\ peak <= peak' /\ readableBytes + room <= peak'
  BY <1>1, <1>2 DEF Larger
<1>7. writer' - reader' <= peak'
  BY <1>1, <1>2, <1>6 DEF Readable
<1>8. StorageBounded'
  <2>1. size <= Larger(Larger(InitialSize, Prepend + 1), Prepend + 2 * peak)
    BY DEF BufferInv, StorageBounded
  <2>2. e.size \in Nat
    BY DEF IsLayout
  <2>3. CASE e.size = size
    BY <1>1, <1>2, <1>6, <2>1, <2>3 DEF StorageBounded, Larger
  <2>4. CASE e.size <= Prepend + 2 * (readableBytes + room)
    BY <1>1, <1>2, <1>6, <2>2, <2>4 DEF StorageBounded, Larger
  <2>. QED
    BY <2>3, <2>4
<1>9. put' \in 0..MaxBytes
  BY <1>2
<1>. QED
  BY <1>4, <1>5, <1>6, <1>7, <1>8, <1>9 DEF BufferInv

(* append(n) keeps the invariant.                                           *)
LEMMA AppendBytesKeeps ==
  ASSUME BufferInv, NEW n \in Nat, AppendBytes(n)
  PROVE  BufferInv' /\ writer' - reader' = (writer - reader) + n
<1>. DEFINE e == Appended(Layout, put, n)
<1>1. /\ IsLayout(e) /\ EndsWith(e, put + n) /\ Readable(e) = readableBytes + n
      /\ e.size = size \/ e.size <= Prepend + readableBytes + 2 * n
  BY InvFacts, AppendedAppends
<1>2. Becomes(e, n) /\ put' = put + n /\ put + n <= MaxBytes
  BY DEF AppendBytes
<1>3. readableBytes \in Nat /\ Prepend \in Nat /\ readableBytes = writer - reader
  BY InvFacts DEF readableBytes
<1>4. e.size = size \/ e.size <= Prepend + 2 * (readableBytes + n)
  <2>1. e.size \in Nat
    BY <1>1 DEF IsLayout
  <2>. QED
    BY <1>1, <1>3, <2>1
<1>5. reader' = e.reader /\ writer' = e.writer
  BY <1>2 DEF Becomes
<1>. HIDE DEF e
<1>6. BufferInv'
  BY <1>1, <1>2, <1>4, BecomesKeeps
<1>. QED
  BY <1>1, <1>3, <1>5, <1>6 DEF Readable

(* ensureWritableBytes(n) keeps the invariant, and the readable bytes.      *)
LEMMA EnsureKeeps ==
  ASSUME BufferInv, NEW n \in Nat, Ensure(n)
  PROVE  BufferInv' /\ writer' - reader' = writer - reader
<1>. DEFINE e == EnsureWritable(Layout, n)
<1>1. /\ IsLayout(e) /\ EndsWith(e, put) /\ Readable(e) = readableBytes
      /\ e.size = size \/ e.size <= Prepend + readableBytes + 2 * n
  BY InvFacts, EnsureWritableKeeps
<1>2. Becomes(e, n) /\ put' = put
  BY DEF Ensure
<1>3. readableBytes \in Nat /\ Prepend \in Nat /\ put \in 0..MaxBytes /\ MaxBytes \in Nat
      /\ readableBytes = writer - reader
  BY InvFacts DEF BufferInv, readableBytes
<1>4. e.size = size \/ e.size <= Prepend + 2 * (readableBytes + n)
  <2>1. e.size \in Nat
    BY <1>1 DEF IsLayout
  <2>. QED
    BY <1>1, <1>3, <2>1
<1>5. reader' = e.reader /\ writer' = e.writer
  BY <1>2 DEF Becomes
<1>6. put + 0 = put /\ readableBytes + 0 = readableBytes /\ put <= MaxBytes
  BY <1>3
<1>. HIDE DEF e
<1>7. BufferInv'
  BY <1>1, <1>2, <1>4, <1>6, BecomesKeeps
<1>. QED
  BY <1>1, <1>3, <1>5, <1>7 DEF Readable

(* readFd() with n bytes, split between the free tail and the overflow      *)
(* block, keeps the invariant.                                              *)
LEMMA ReadFdKeeps ==
  ASSUME BufferInv, NEW n \in Nat, ReadFd(n)
  PROVE  BufferInv' /\ writer' - reader' = (writer - reader) + n
<1>. DEFINE direct == Lesser(n, writableBytes)
            filled == Stored(Layout, put, direct)
            e == Appended(filled, put + direct, n - direct)
<1>1. /\ direct \in Nat /\ n - direct \in Nat /\ direct <= Layout.size - Layout.writer
      /\ put + direct \in Nat /\ (put + direct) + (n - direct) = put + n
  <2>1. writableBytes = size - writer /\ writableBytes \in Nat /\ put \in Nat
    BY InvFacts DEF writableBytes
  <2>2. direct \in Nat /\ direct <= n /\ direct <= writableBytes
    BY <2>1 DEF Lesser
  <2>3. direct <= Layout.size - Layout.writer
    BY <2>1, <2>2, InvFacts
  <2>. HIDE DEF direct
  <2>. QED
    BY <2>1, <2>2, <2>3
<1>2. readableBytes \in Nat /\ Prepend \in Nat /\ readableBytes = writer - reader
  BY InvFacts DEF readableBytes
<1>3. Becomes(e, n) /\ put' = put + n /\ put + n <= MaxBytes
  BY DEF ReadFd
<1>4. reader' = e.reader /\ writer' = e.writer
  BY <1>3 DEF Becomes
<1>. HIDE DEF direct
<1>5. /\ IsLayout(filled) /\ EndsWith(filled, put + direct)
      /\ Readable(filled) = readableBytes + direct /\ filled.size = size
  <2>1. /\ IsLayout(Layout) /\ EndsWith(Layout, put) /\ put \in Nat
        /\ Readable(Layout) = readableBytes /\ Layout.size = size
    BY InvFacts
  <2>. QED
    BY <1>1, <2>1, StoredAppends
<1>. HIDE DEF filled
<1>6. /\ IsLayout(e) /\ EndsWith(e, (put + direct) + (n - direct))
      /\ Readable(e) = (readableBytes + direct) + (n - direct)
      /\ e.size = size \/ e.size <= Prepend + (readableBytes + direct) + 2 * (n - direct)
  BY <1>1, <1>5, AppendedAppends
<1>. HIDE DEF e
<1>7. EndsWith(e, put + n) /\ Readable(e) = readableBytes + n
  BY <1>1, <1>2, <1>6
<1>8. e.size = size \/ e.size <= Prepend + 2 * (readableBytes + n)
  <2>1. e.size \in Nat
    BY <1>6 DEF IsLayout
  <2>. QED
    BY <1>1, <1>2, <1>6, <2>1
<1>9. BufferInv'
  BY <1>3, <1>6, <1>7, <1>8, BecomesKeeps
<1>. QED
  BY <1>2, <1>4, <1>7, <1>9 DEF Readable

(* retrieve(n) keeps the invariant and takes the first n bytes, or all.     *)
LEMMA RetrieveKeeps ==
  ASSUME BufferInv, NEW n \in Nat, Retrieve(n)
  PROVE  /\ BufferInv' /\ put' = put /\ mem' = mem
         /\ \/ n < writer - reader /\ writer' - reader' = (writer - reader) - n
            \/ n >= writer - reader /\ writer' - reader' = 0
<1>0. /\ size \in Nat /\ reader \in Nat /\ writer \in Nat /\ peak \in Nat /\ Prepend \in Nat
      /\ Prepend <= reader /\ reader <= writer /\ writer <= size /\ readableBytes <= peak
  BY InvFacts
<1>1. /\ size' = size /\ mem' = mem /\ put' = put /\ peak' = peak
      /\ readableBytes = writer - reader
  BY DEF Retrieve, readableBytes
<1>2. /\ Layout'.size = size /\ Layout'.mem = mem
      /\ Layout'.reader = reader' /\ Layout'.writer = writer'
      /\ Layout' = [size |-> size, mem |-> mem, reader |-> reader', writer |-> writer']
  BY <1>1 DEF Layout
<1>3. StorageBounded'
  BY <1>1 DEF BufferInv, StorageBounded
<1>4. CASE n < readableBytes
  <2>1. reader' = reader + n /\ writer' = writer
    BY <1>4 DEF Retrieve
  <2>2. /\ reader' \in Nat /\ Prepend <= reader' /\ reader' <= writer'
        /\ writer' - reader' = (writer - reader) - n
        /\ writer' - reader' <= peak'
    BY <1>0, <1>1, <1>4, <2>1
  <2>3. IsLayout(Layout')
    <3>1. /\ reader' \in Nat /\ writer' \in Nat
          /\ Prepend <= reader' /\ reader' <= writer' /\ writer' <= size
      BY <1>0, <2>1, <2>2
    <3>2. size \in Nat /\ mem \in [0..(size - 1) -> Nat]
      BY InvFacts
    <3>3. IsLayout([size |-> size, mem |-> mem, reader |-> reader', writer |-> writer'])
      BY <3>1, <3>2, LayoutOf
    <3>. QED
      BY <1>2, <3>3, Zenon
  <2>4. EndsWith(Layout', put')
    <3>1. \A i \in reader..(writer - 1) : mem[i] = put + 1 + i - writer
      BY InvFacts DEF EndsWith
    <3>2. \A i \in reader'..(writer' - 1) : i \in reader..(writer - 1)
      BY <1>0, <2>1
    <3>. QED
      BY <1>1, <1>2, <2>1, <3>1, <3>2 DEF EndsWith
  <2>. QED
    BY <1>1, <1>3, <1>4, <2>2, <2>3, <2>4 DEF BufferInv
<1>5. CASE ~(n < readableBytes)
  <2>1. reader' = Prepend /\ writer' = Prepend
    BY <1>5 DEF Retrieve
  <2>2. writer' - reader' = 0 /\ writer' - reader' <= peak' /\ n >= writer - reader
        /\ Prepend \in Nat /\ Prepend <= size
    BY <1>0, <1>1, <1>5, <2>1
  <2>3. IsLayout(Layout')
    <3>1. /\ reader' \in Nat /\ writer' \in Nat
          /\ Prepend <= reader' /\ reader' <= writer' /\ writer' <= size
      BY <1>0, <2>1, <2>2
    <3>2. size \in Nat /\ mem \in [0..(size - 1) -> Nat]
      BY InvFacts
    <3>3. IsLayout([size |-> size, mem |-> mem, reader |-> reader', writer |-> writer'])
      BY <3>1, <3>2, LayoutOf
    <3>. QED
      BY <1>2, <3>3, Zenon
  <2>4. EndsWith(Layout', put')
    BY <1>2, <2>1, <2>2 DEF EndsWith
  <2>. QED
    BY <1>1, <1>3, <2>2, <2>3, <2>4 DEF BufferInv
<1>. QED
  BY <1>4, <1>5

(* Every operation keeps the invariant.                                     *)
LEMMA BufferStep == BufferInv /\ [Next]_vars => BufferInv'
<1>. SUFFICES ASSUME BufferInv, [Next]_vars PROVE BufferInv'
  OBVIOUS
<1>1. ASSUME NEW n \in Lengths, AppendBytes(n) \/ Ensure(n) \/ ReadFd(n) \/ Retrieve(n)
      PROVE  BufferInv'
  <2>1. n \in Nat
    BY BufferAssumption
  <2>. QED
    BY <1>1, <2>1, AppendBytesKeeps, EnsureKeeps, ReadFdKeeps, RetrieveKeeps
<1>2. CASE UNCHANGED vars
  <2>1. Layout' = Layout /\ put' = put /\ peak' = peak /\ reader' = reader
        /\ writer' = writer /\ size' = size
    BY <1>2 DEF vars, Layout
  <2>. QED
    BY <2>1 DEF BufferInv, StorageBounded
<1>. QED
  BY <1>1, <1>2 DEF Next

(* The invariant holds in every state.                                      *)
LEMMA BufferInvariant == Spec => []BufferInv
  BY BufferInit, BufferStep, PTL DEF Spec

(* The indices of the vector stay in order and inside it, whatever the      *)
(* sequence of calls.                                                       *)
THEOREM TypeCorrect == Spec => []TypeOK
<1>1. BufferInv => TypeOK
  BY BufferAssumption DEF BufferInv, IsLayout, Layout, TypeOK
<1>. QED
  BY <1>1, BufferInvariant, PTL

(* However long a connection lives, its vector stays below its first size   *)
(* or twice the most it ever had to hold: makeSpace() reclaims what was     *)
(* retrieved.                                                               *)
THEOREM StorageIsBounded == Spec => []StorageBounded
<1>1. BufferInv => StorageBounded
  BY DEF BufferInv
<1>. QED
  BY <1>1, BufferInvariant, PTL

-----------------------------------------------------------------------------
(* The refinement.                                                          *)

(* n bytes, numbered from+1 to from+n                                       *)
Run(from, n) == [k \in 1..n |-> from + k]

(* A run of consecutive bytes is a sequence of numbers.                     *)
LEMMA RunType ==
  ASSUME NEW from \in Int, NEW n \in Nat
  PROVE  /\ Run(from, n) \in Seq(Int) /\ Len(Run(from, n)) = n
         /\ \A k \in 1..n : Run(from, n)[k] = from + k
<1>1. Run(from, n) \in [1..n -> Int]
  BY DEF Run
<1>2. Run(from, n) \in Seq(Int)
  BY <1>1, SeqDef
<1>3. Len(Run(from, n)) = n
  BY <1>1, <1>2, LenProperties
<1>. QED
  BY <1>2, <1>3 DEF Run

(* Runs that follow on each other make one run: bytes put in behind others. *)
LEMMA RunConcat ==
  ASSUME NEW from \in Int, NEW r \in Nat, NEW n \in Nat
  PROVE  Run(from, r + n) = Run(from, r) \o Run(from + r, n)
<1>. DEFINE a == Run(from, r)
            b == Run(from + r, n)
<1>1. /\ a \in Seq(Int) /\ Len(a) = r /\ \A k \in 1..r : a[k] = from + k
      /\ b \in Seq(Int) /\ Len(b) = n /\ \A k \in 1..n : b[k] = (from + r) + k
  BY RunType
<1>2. /\ Run(from, r + n) \in Seq(Int) /\ Len(Run(from, r + n)) = r + n
      /\ \A k \in 1..(r + n) : Run(from, r + n)[k] = from + k
  BY RunType
<1>. HIDE DEF a, b
<1>3. /\ a \o b \in Seq(Int) /\ Len(a \o b) = r + n
      /\ \A i \in 1..(r + n) : (a \o b)[i] = IF i <= r THEN a[i] ELSE b[i - r]
  BY <1>1, ConcatProperties
<1>4. \A i \in 1..(r + n) : (a \o b)[i] = from + i
  BY <1>1, <1>3
<1>. QED
  BY <1>2, <1>3, <1>4, SeqEqual DEF a, b

(* A run without its first n bytes is a run: bytes taken from the front.    *)
LEMMA RunSuffix ==
  ASSUME NEW from \in Int, NEW r \in Nat, NEW n \in 0..r
  PROVE  Run(from + n, r - n) = SubSeq(Run(from, r), n + 1, r)
<1>. DEFINE a == Run(from, r)
            b == Run(from + n, r - n)
            c == SubSeq(a, n + 1, r)
<1>0. from + n \in Int /\ r - n \in Nat
  OBVIOUS
<1>1. /\ a \in Seq(Int) /\ Len(a) = r /\ \A k \in 1..r : a[k] = from + k
      /\ b \in Seq(Int) /\ Len(b) = r - n /\ \A k \in 1..(r - n) : b[k] = (from + n) + k
  BY <1>0, RunType
<1>. HIDE DEF a, b
<1>2. \A i \in (n + 1)..r : a[i] \in Int
  BY <1>1
<1>3. /\ c \in Seq(Int) /\ Len(c) = r - n
      /\ \A i \in 1..(r - n) : c[i] = a[n + i]
  BY <1>2, SubSeqProperties
<1>. HIDE DEF c
<1>4. \A i \in 1..(r - n) : c[i] = b[i]
  BY <1>1, <1>3
<1>. QED
  BY <1>1, <1>3, <1>4, SeqEqual DEF a, b, c

(* peek() shows the last bytes put in.                                      *)
LEMMA ContentsIsRun ==
  ASSUME BufferInv
  PROVE  Contents = Run(put - readableBytes, readableBytes)
<1>1. /\ readableBytes = writer - reader /\ reader \in Nat /\ writer \in Nat /\ put \in Nat
      /\ readableBytes \in Nat
  BY InvFacts DEF readableBytes
<1>2. \A i \in reader..(writer - 1) : mem[i] = put + 1 + i - writer
  BY InvFacts DEF EndsWith
<1>3. \A k \in 1..readableBytes : mem[reader + k - 1] = (put - readableBytes) + k
  <2>. SUFFICES ASSUME NEW k \in 1..readableBytes
                PROVE  mem[reader + k - 1] = (put - readableBytes) + k
    OBVIOUS
  <2>1. reader + k - 1 \in reader..(writer - 1)
    BY <1>1
  <2>2. mem[reader + k - 1] = put + 1 + (reader + k - 1) - writer
    BY <1>2, <2>1
  <2>3. put + 1 + (reader + k - 1) - writer = (put - readableBytes) + k
    BY <1>1
  <2>. QED
    BY <2>2, <2>3
<1>. QED
  BY <1>3, Zenon DEF Contents, Run

(* The same as a formula, which holds in the next state too.               *)
LEMMA ContentsFormula ==
  BufferInv => /\ Contents = Run(put - readableBytes, readableBytes)
               /\ readableBytes \in Nat /\ put \in Nat
  BY ContentsIsRun, InvFacts

(* peek() shows the last bytes put in, after the step.                      *)
LEMMA NextContentsIsRun ==
  ASSUME BufferInv'
  PROVE  /\ Contents' = Run(put' - (writer' - reader'), writer' - reader')
         /\ writer' - reader' \in Nat /\ put' \in Nat
<1>1. (/\ Contents = Run(put - readableBytes, readableBytes)
       /\ readableBytes \in Nat /\ put \in Nat)'
  BY ContentsFormula, PTL
<1>. QED
  BY <1>1 DEF readableBytes

(* Bytes put into the vector are put into the queue.                        *)
LEMMA PutsBytes ==
  ASSUME BufferInv, BufferInv', NEW n \in Nat, put' = put + n, put + n <= MaxBytes,
         writer' - reader' = (writer - reader) + n
  PROVE  [Queue!Next]_<<Contents, put>>
<1>. DEFINE r == writer - reader
<1>1. /\ r \in Nat /\ put \in Nat /\ Contents = Run(put - r, r) /\ MaxBytes \in Nat
  BY InvFacts, ContentsIsRun DEF readableBytes
<1>2. Contents' = Run(put' - (r + n), r + n)
  BY NextContentsIsRun
<1>. HIDE DEF r
<1>3. put' - (r + n) = put - r /\ (put - r) + r = put /\ put - r \in Int
  BY <1>1
<1>4. Contents' = Contents \o Run(put, n)
  <2>1. Run(put - r, r + n) = Run(put - r, r) \o Run((put - r) + r, n)
    BY <1>1, <1>3, RunConcat
  <2>2. Contents' = Run(put - r, r + n)
    BY <1>2, <1>3, Zenon
  <2>3. Run((put - r) + r, n) = Run(put, n)
    BY <1>3, Zenon
  <2>. QED
    BY <1>1, <2>1, <2>2, <2>3, Zenon
<1>5. CASE n = 0
  <2>1. r + n = r /\ put' = put
    BY <1>1, <1>5
  <2>. QED
    BY <1>1, <1>2, <1>3, <2>1
<1>6. CASE n # 0
  <2>1. n \in 1..(MaxBytes - put)
    BY <1>1, <1>6
  <2>. QED
    BY <1>4, <2>1 DEF Queue!Next, Queue!Put, Run
<1>. QED
  BY <1>5, <1>6

(* Bytes retrieved from the vector are taken from the queue.                *)
LEMMA TakesBytes ==
  ASSUME BufferInv, BufferInv', NEW n \in 0..(writer - reader), put' = put,
         writer' - reader' = (writer - reader) - n
  PROVE  [Queue!Next]_<<Contents, put>>
<1>. DEFINE r == writer - reader
<1>1. /\ r \in Nat /\ put \in Nat /\ Contents = Run(put - r, r)
  BY InvFacts, ContentsIsRun DEF readableBytes
<1>2. Contents' = Run(put' - (r - n), r - n)
  BY NextContentsIsRun
<1>. HIDE DEF r
<1>3. put' - (r - n) = (put - r) + n /\ put - r \in Int /\ n \in 0..r
  BY <1>1 DEF r
<1>4. Len(Contents) = r
  BY <1>1, <1>3, RunType
<1>5. Contents' = SubSeq(Contents, n + 1, Len(Contents))
  BY <1>1, <1>2, <1>3, <1>4, RunSuffix
<1>6. CASE n = 0
  <2>1. put' - (r - n) = put - r /\ r - n = r
    BY <1>1, <1>3, <1>6
  <2>. QED
    BY <1>1, <1>2, <2>1
<1>7. CASE n # 0
  <2>1. n \in 1..Len(Contents)
    BY <1>1, <1>3, <1>4, <1>7
  <2>. QED
    BY <1>5, <2>1 DEF Queue!Next, Queue!Take
<1>. QED
  BY <1>6, <1>7

(* net::Buffer is a byte queue: whatever was compacted, grown or read       *)
(* through the overflow block, each operation puts bytes behind the others, *)
(* takes them from the front, or leaves what peek() shows alone.            *)
THEOREM ImplementsByteQueue == Spec => IsByteQueue
<1>1. Init => Queue!Init
  <2>. SUFFICES ASSUME Init PROVE Queue!Init
    OBVIOUS
  <2>1. BufferInv /\ readableBytes = 0
    BY BufferInit, BufferAssumption DEF Init, readableBytes
  <2>2. Contents = <<>>
    BY <2>1 DEF Contents
  <2>. QED
    BY <2>2 DEF Init, Queue!Init
<1>2. BufferInv /\ BufferInv' /\ [Next]_vars => [Queue!Next]_<<Contents, put>>
  <2>. SUFFICES ASSUME BufferInv, BufferInv', [Next]_vars
                PROVE  [Queue!Next]_<<Contents, put>>
    OBVIOUS
  <2>0. writer - reader \in Nat /\ put \in Nat
    BY InvFacts DEF readableBytes
  <2>1. ASSUME NEW n \in Lengths, AppendBytes(n) PROVE [Queue!Next]_<<Contents, put>>
    BY <2>1, BufferAssumption, AppendBytesKeeps, PutsBytes DEF AppendBytes
  <2>2. ASSUME NEW n \in Lengths, Ensure(n) PROVE [Queue!Next]_<<Contents, put>>
    <3>1. n \in Nat
      BY BufferAssumption
    <3>2. writer' - reader' = (writer - reader) - 0 /\ put' = put
      BY <2>0, <2>2, <3>1, EnsureKeeps DEF Ensure
    <3>3. 0 \in 0..(writer - reader)
      BY <2>0
    <3>. QED
      BY <3>2, <3>3, TakesBytes
  <2>3. ASSUME NEW n \in Lengths, ReadFd(n) PROVE [Queue!Next]_<<Contents, put>>
    BY <2>3, BufferAssumption, ReadFdKeeps, PutsBytes DEF ReadFd
  <2>4. ASSUME NEW n \in Lengths, Retrieve(n) PROVE [Queue!Next]_<<Contents, put>>
    <3>1. n \in Nat
      BY BufferAssumption
    <3>2. /\ put' = put
          /\ \/ n < writer - reader /\ writer' - reader' = (writer - reader) - n
             \/ n >= writer - reader /\ writer' - reader' = 0
      BY <2>4, <3>1, RetrieveKeeps
    <3>3. CASE n < writer - reader
      <4>1. n \in 0..(writer - reader) /\ writer' - reader' = (writer - reader) - n
        BY <2>0, <3>1, <3>2, <3>3
      <4>. QED
        BY <3>2, <4>1, TakesBytes
    <3>4. CASE ~(n < writer - reader)
      <4>1. writer - reader \in 0..(writer - reader)
            /\ writer' - reader' = (writer - reader) - (writer - reader)
        BY <2>0, <3>1, <3>2, <3>4
      <4>. QED
        BY <3>2, <4>1, TakesBytes
    <3>. QED
      BY <3>3, <3>4
  <2>5. CASE UNCHANGED vars
    BY <2>5 DEF vars, Contents, readableBytes
  <2>. QED
    BY <2>1, <2>2, <2>3, <2>4, <2>5 DEF Next
<1>. QED
  BY <1>1, <1>2, BufferInvariant, PTL DEF Spec, IsByteQueue, Queue!Spec
=============================================================================
