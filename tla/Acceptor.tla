------------------------------ MODULE Acceptor ------------------------------
(***************************************************************************)
(* nexus::net::Acceptor (src/net/acceptor.cpp): the edge-triggered accept  *)
(* loop and its reserved descriptor, against a descriptor table that the   *)
(* rest of the process fills and empties at the same time.  Every system   *)
(* call of handleRead is a step of its own.  TcpServer owns the Acceptor;  *)
(* the names here are distinct from its own.                               *)
(***************************************************************************)
EXTENDS Naturals

CONSTANTS
  FdLimit,     \* RLIMIT_NOFILE, counting only the descriptors below
  MaxOthers,   \* bound: descriptors of the rest of the process
  MaxArrivals  \* bound: connections that clients open

ASSUME AcceptorAssumption ==
  /\ FdLimit \in Nat \ {0} /\ MaxOthers \in Nat /\ MaxArrivals \in Nat

VARIABLES
  pc,        \* handleRead: "wait" = not running
  idle,      \* idle_fd_ >= 0
  armed,     \* the listening channel is on epoll's ready list
  backlog,   \* completed connections the kernel holds
  used,      \* descriptors in use
  others,    \* those of the rest of the process
  conns,     \* those handed to new_connection_callback_ and still open
  arrived,   \* history: connections that clients opened
  gaveUp     \* history: handleRead was last left through its error break

acceptorVars == <<pc, idle, armed, backlog, used, others, conns, arrived, gaveUp>>

AcceptorTypeOK ==
  /\ pc \in {"wait", "accept", "discard", "tmp", "reopen"}
  /\ idle \in BOOLEAN /\ armed \in BOOLEAN
  /\ used \in 0..FdLimit /\ others \in 0..MaxOthers
  /\ backlog \in Nat /\ conns \in Nat /\ arrived \in 0..MaxArrivals
  /\ gaveUp \in BOOLEAN

(* constructor and listen(): /dev/null is open *)
AcceptorInit ==
  /\ pc = "wait" /\ idle = TRUE /\ armed = FALSE /\ backlog = 0
  /\ used = 1 /\ others = 0 /\ conns = 0
  /\ arrived = 0
  /\ gaveUp = FALSE

-----------------------------------------------------------------------------
(* accept4 allocates the descriptor before it looks at the queue, so a full *)
(* table yields EMFILE even when no connection is waiting.                  *)
TableFull == used >= FdLimit

Dispatch ==
  /\ pc = "wait" /\ armed /\ backlog > 0
  /\ pc' = "accept" /\ armed' = FALSE /\ gaveUp' = FALSE
  /\ UNCHANGED <<idle, backlog, used, others, conns, arrived>>

(* Mutant: one accept per event. *)
MutAcceptOnce ==
  /\ pc = "accept" /\ ~TableFull /\ backlog > 0
  /\ backlog' = backlog - 1
  /\ used' = used + 1 /\ conns' = conns + 1
  /\ pc' = "wait"
  /\ UNCHANGED <<idle, armed, others, arrived, gaveUp>>

AcceptOk ==
  /\ pc = "accept" /\ ~TableFull /\ backlog > 0
  /\ backlog' = backlog - 1
  /\ used' = used + 1 /\ conns' = conns + 1
  /\ UNCHANGED <<pc, idle, armed, others, arrived, gaveUp>>

(* Mutant: EAGAIN does not end the loop. *)
MutAgainRetries ==
  /\ pc = "accept" /\ ~TableFull /\ backlog = 0
  /\ UNCHANGED acceptorVars

AcceptAgain ==
  /\ pc = "accept" /\ ~TableFull /\ backlog = 0
  /\ pc' = "wait"
  /\ UNCHANGED <<idle, armed, backlog, used, others, conns, arrived, gaveUp>>

(* What a failed accept4 leaves of the backlog: ECONNABORTED consumes a     *)
(* connection, EINTR or ENOMEM consumes none.                               *)
AcceptFails ==
  \/ UNCHANGED backlog
  \/ ~TableFull /\ backlog > 0 /\ backlog' = backlog - 1

(* errno is neither EAGAIN nor EMFILE nor ENFILE: break *)
AcceptOtherError ==
  /\ pc = "accept" /\ ~TableFull /\ AcceptFails
  /\ pc' = "wait" /\ gaveUp' = TRUE
  /\ UNCHANGED <<idle, armed, used, others, conns, arrived>>

(* EMFILE / ENFILE: give the reserved descriptor back *)
AcceptTableFull ==
  /\ pc = "accept" /\ TableFull
  /\ idle' = FALSE
  /\ used' = IF idle THEN used - 1 ELSE used
  /\ pc' = "discard"
  /\ UNCHANGED <<armed, backlog, others, conns, arrived, gaveUp>>

(* the accept whose result is discarded, and the ways it fails too *)
AcceptDiscard ==
  /\ pc = "discard" /\ ~TableFull /\ backlog > 0
  /\ backlog' = backlog - 1
  /\ used' = used + 1
  /\ pc' = "tmp"
  /\ UNCHANGED <<idle, armed, others, conns, arrived, gaveUp>>

AcceptDiscardFails ==
  /\ pc = "discard" /\ AcceptFails
  /\ pc' = "reopen"
  /\ UNCHANGED <<idle, armed, used, others, conns, arrived, gaveUp>>

(* Mutant: the discarded descriptor is not closed. *)
MutTmpLeaks ==
  /\ pc = "tmp"
  /\ pc' = "reopen"
  /\ UNCHANGED <<idle, armed, backlog, used, others, conns, arrived, gaveUp>>

CloseTmp ==
  /\ pc = "tmp"
  /\ used' = used - 1
  /\ pc' = "reopen"
  /\ UNCHANGED <<idle, armed, backlog, others, conns, arrived, gaveUp>>

(* open /dev/null again when it was closed; continue *)
Reopen ==
  /\ pc = "reopen"
  /\ idle' = (idle \/ ~TableFull)
  /\ used' = IF ~idle /\ ~TableFull THEN used + 1 ELSE used
  /\ pc' = "accept"
  /\ UNCHANGED <<armed, backlog, others, conns, arrived, gaveUp>>

Accepting ==
  \/ AcceptOk \/ AcceptAgain \/ AcceptTableFull
  \/ AcceptDiscard \/ AcceptDiscardFails \/ CloseTmp \/ Reopen

HandleRead == Accepting \/ AcceptOtherError

-----------------------------------------------------------------------------
(* The environment.                                                         *)

ClientConnects ==
  /\ arrived < MaxArrivals
  /\ arrived' = arrived + 1 /\ backlog' = backlog + 1 /\ armed' = TRUE
  /\ UNCHANGED <<pc, idle, used, others, conns, gaveUp>>

ConnectionCloses ==
  /\ conns > 0
  /\ conns' = conns - 1 /\ used' = used - 1
  /\ UNCHANGED <<pc, idle, armed, backlog, others, arrived, gaveUp>>

OtherOpens ==
  /\ ~TableFull /\ others < MaxOthers
  /\ others' = others + 1 /\ used' = used + 1
  /\ UNCHANGED <<pc, idle, armed, backlog, conns, arrived, gaveUp>>

OtherCloses ==
  /\ others > 0
  /\ others' = others - 1 /\ used' = used - 1
  /\ UNCHANGED <<pc, idle, armed, backlog, conns, arrived, gaveUp>>

AcceptorNext ==
  \/ Dispatch \/ HandleRead
  \/ ClientConnects \/ ConnectionCloses \/ OtherOpens \/ OtherCloses

AcceptorSpec == AcceptorInit /\ [][AcceptorNext]_acceptorVars

(* The loop thread is scheduled; nobody is obliged to close a descriptor,   *)
(* nor accept4 to fail.                                                     *)
AcceptorFairSpec == AcceptorSpec /\ WF_acceptorVars(Dispatch \/ Accepting)

-----------------------------------------------------------------------------
Count(b) == IF b THEN 1 ELSE 0

(* No descriptor leaks and none is closed twice on any path through the     *)
(* EMFILE branch: the table holds exactly the reserved one, the discarded   *)
(* one while it is open, the connections and what others own.               *)
DescriptorsAccounted ==
  used = Count(idle) + Count(pc = "tmp") + conns + others

(* Edge-triggered accept strands no connection: when handleRead is not      *)
(* running, connections left in the backlog have an edge pending, unless    *)
(* its loop gave up on an errno it does not name.                           *)
NoStrandedConnection == pc = "wait" /\ backlog > 0 => armed \/ gaveUp

(* The accept loop drains to EAGAIN and returns to the event loop.          *)
AcceptLoopReturns == (pc # "wait") ~> (pc = "wait")

(* It does so when the table stops being full, whatever happened on the     *)
(* EMFILE branch before and with the reserved descriptor lost or not.       *)
ReturnsWhenRoom == <>[](~TableFull) => []<>(pc = "wait")
=============================================================================
