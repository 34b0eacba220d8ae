----------------------------- MODULE ByteQueue ------------------------------
(***************************************************************************)
(* What net::Buffer promises its users: an unbounded queue of bytes.       *)
(* Bytes are numbered in the order they are put in.                        *)
(***************************************************************************)
EXTENDS Naturals, Sequences

CONSTANT MaxBytes  \* bound: bytes ever put in

VARIABLES
  queue,  \* the bytes in the queue
  put     \* bytes put in so far

Init == queue = <<>> /\ put = 0

Put(n) ==
  /\ queue' = queue \o [i \in 1..n |-> put + i]
  /\ put' = put + n

(* take the first n bytes *)
Take(n) == queue' = SubSeq(queue, n + 1, Len(queue)) /\ put' = put

Next ==
  \/ \E n \in 1..(MaxBytes - put) : Put(n)
  \/ \E n \in 1..Len(queue) : Take(n)

Spec == Init /\ [][Next]_<<queue, put>>
=============================================================================
