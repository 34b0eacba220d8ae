------------------------------- MODULE Buffer -------------------------------
(***************************************************************************)
(* nexus::net::Buffer (src/net/buffer.cpp): a byte queue in one vector,    *)
(* with a reader and a writer index, compaction instead of growth where    *)
(* the consumed prefix is large enough, and readv into the free tail plus  *)
(* an overflow block.  Bytes are numbered in the order they are put in.    *)
(***************************************************************************)
EXTENDS Integers, Sequences

CONSTANTS
  Prepend,      \* kCheapPrepend
  InitialSize,  \* constructor argument
  ExtraSize,    \* sizeof(extra_buffer) in readFd
  Lengths,      \* lengths passed to append and retrieve, and returned by readv
  MaxBytes      \* bound: bytes ever put in

ASSUME BufferAssumption ==
  /\ {Prepend, InitialSize, ExtraSize, MaxBytes} \subseteq Nat
  /\ Lengths \subseteq Nat

VARIABLES
  size,     \* buffer_.size()
  mem,      \* buffer_, by index; 0 = never written
  reader,   \* reader_index_
  writer,   \* writer_index_
  put,      \* history: bytes put in so far, numbered 1..put
  peak      \* history: most bytes ever held, or held and asked room for, at once

vars == <<size, mem, reader, writer, put, peak>>

Larger(a, b) == IF a > b THEN a ELSE b
Lesser(a, b) == IF a < b THEN a ELSE b

readableBytes == writer - reader
writableBytes == size - writer

TypeOK ==
  /\ size \in Nat /\ reader \in Nat /\ writer \in Nat
  /\ mem \in [0..(size - 1) -> Nat]
  /\ Prepend <= reader /\ reader <= writer /\ writer <= size
  /\ put \in 0..MaxBytes /\ peak \in Nat

Init ==
  /\ size = Larger(InitialSize, Prepend + 1)
  /\ mem = [i \in 0..(size - 1) |-> 0]
  /\ reader = Prepend /\ writer = Prepend
  /\ put = 0 /\ peak = 0

-----------------------------------------------------------------------------
(* A layout is what the member functions below rearrange.                   *)
Layout == [size |-> size, mem |-> mem, reader |-> reader, writer |-> writer]

Resized(m, n) == [i \in 0..(n - 1) |-> IF i \in DOMAIN m THEN m[i] ELSE 0]

(* Mutant: the indices move, the bytes do not. *)
MutNoMove(b) == [b EXCEPT !.reader = Prepend, !.writer = Prepend + b.writer - b.reader]

(* makeSpace(): move the readable bytes down, or grow *)
Compacted(b) ==
  [size |-> b.size,
   mem |-> [i \in DOMAIN b.mem |-> IF i >= Prepend /\ i < Prepend + b.writer - b.reader
                                  THEN b.mem[b.reader + i - Prepend] ELSE b.mem[i]],
   reader |-> Prepend,
   writer |-> Prepend + b.writer - b.reader]

Grown(b, n) ==
  [size |-> b.writer + n, mem |-> Resized(b.mem, b.writer + n),
   reader |-> b.reader, writer |-> b.writer]

(* Mutant: always grow. *)
MutAlwaysGrows(b, n) == Grown(b, n)

MakeSpace(b, n) ==
  IF (b.size - b.writer) + b.reader - Prepend >= n THEN Compacted(b) ELSE Grown(b, n)

EnsureWritable(b, n) == IF b.size - b.writer < n THEN MakeSpace(b, n) ELSE b

(* memcpy of n bytes numbered from+1 .. from+n to the writer, and hasWritten *)
Stored(b, from, n) ==
  [size |-> b.size,
   mem |-> [i \in DOMAIN b.mem |-> IF i >= b.writer /\ i < b.writer + n
                                  THEN from + 1 + (i - b.writer) ELSE b.mem[i]],
   reader |-> b.reader,
   writer |-> IF n <= b.size - b.writer THEN b.writer + n ELSE b.writer]

Appended(b, from, n) == IF n = 0 THEN b ELSE Stored(EnsureWritable(b, n), from, n)

Becomes(b, room) ==
  /\ size' = b.size /\ mem' = b.mem /\ reader' = b.reader /\ writer' = b.writer
  /\ peak' = Larger(peak, readableBytes + room)

-----------------------------------------------------------------------------
(* append() *)
AppendBytes(n) ==
  /\ put + n <= MaxBytes
  /\ Becomes(Appended(Layout, put, n), n)
  /\ put' = put + n

(* ensureWritableBytes() *)
Ensure(n) ==
  /\ Becomes(EnsureWritable(Layout, n), n)
  /\ UNCHANGED put

(* readFd(): readv filled the free tail, then the overflow block if it was  *)
(* part of the vector, with n bytes in all                                  *)
ReadCapacity == IF writableBytes < ExtraSize THEN writableBytes + ExtraSize
                                             ELSE writableBytes
ReadFd(n) ==
  LET direct == Lesser(n, writableBytes)
      filled == Stored(Layout, put, direct)
  IN  /\ n <= ReadCapacity /\ put + n <= MaxBytes
      /\ Becomes(Appended(filled, put + direct, n - direct), n)
      /\ put' = put + n

(* retrieve(), retrieveAsString(): all of it when n reaches the end *)
Retrieve(n) ==
  /\ IF n < readableBytes
     THEN reader' = reader + n /\ UNCHANGED writer
     ELSE reader' = Prepend /\ writer' = Prepend
  /\ UNCHANGED <<size, mem, put, peak>>

Next == \E n \in Lengths : AppendBytes(n) \/ Ensure(n) \/ ReadFd(n) \/ Retrieve(n)

Spec == Init /\ [][Next]_vars

-----------------------------------------------------------------------------
(* peek() for readableBytes() *)
Contents == [k \in 1..readableBytes |-> mem[reader + k - 1]]

Queue == INSTANCE ByteQueue WITH queue <- Contents

(* The buffer is a byte queue: whatever was compacted, grown or overflowed, *)
(* peek() shows exactly the bytes put in and not yet retrieved, in order,   *)
(* and no operation but append and readFd adds any or but retrieve takes    *)
(* any.                                                                     *)
IsByteQueue == Queue!Spec

(* Consumed bytes are reclaimed: however long the connection lives, the     *)
(* vector stays below its first size or twice the most it ever had to hold. *)
StorageBounded ==
  size <= Larger(Larger(InitialSize, Prepend + 1), Prepend + 2 * peak)
=============================================================================
