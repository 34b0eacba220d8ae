-------------------------- MODULE RpcServerProofs --------------------------
(***************************************************************************)
(* Proofs of the safety invariants of RpcServer, for every number of       *)
(* workers and connections and every limit.                                *)
(*                                                                         *)
(* None of the invariants is inductive alone.  ServerInv adds what the     *)
(* threads know of each other:                                             *)
(*   - where the three kinds of thread are together (ControlInv): start()  *)
(*     and stop() see the I/O thread in the phase they waited for, and a   *)
(*     worker exits only from an empty queue that nothing enters any more; *)
(*   - that a functor which removes a connection knows a connection, and   *)
(*     that no connection is alive unless the loop runs (ConnInv);         *)
(*   - where a request is (QueueInv, HoldInv, ReplyInv): in the queue, with*)
(*     one worker, or as one functor of the loop, never at two places, and *)
(*     with the history that belongs to the place.                         *)
(***************************************************************************)
EXTENDS RpcServer, SequenceTheorems, FiniteSetTheorems, TLAPS

(* Controller, I/O thread and workers are in phase.                         *)
ControlInv ==
  /\ ctl = "down" => io = "none" /\ queue = <<>> /\ \A w \in Workers : wpc[w] = "off"
  /\ ctl # "down" => \A w \in Workers : wpc[w] # "off"
  /\ ctl = "joinWorkers" => io = "ended"
  /\ ctl \in {"failing", "failJoin"} => io = "failed"
  /\ \A w \in Workers : wpc[w] = "exited" => stopping /\ queue = <<>>

(* No connection outlives the loop, and a removal is of a connection.       *)
ConnInv ==
  /\ io # "loop" => \A c \in Conns : conn[c] \in {"none", "destroyed"}
  /\ \A i \in 1..Len(ioq) :
       ioq[i].op = "remove" => ioq[i].conn \in Conns /\ conn[ioq[i].conn] # "none"

Holding == {"busy", "reply", "posting", "release"}

(* A queued request waits at one place and nobody has handled it.           *)
QueueInv ==
  /\ \A i \in 1..Len(queue) : queue[i] \in enqueued /\ handled[queue[i]] = 0
  /\ \A i, j \in 1..Len(queue) : queue[i] = queue[j] => i = j

(* A worker in the middle of a request has it to itself.                    *)
HoldInv ==
  \A w \in Workers :
    /\ wreq[w] # NoReq <=> wpc[w] \in Holding
    /\ wreq[w] # NoReq =>
         /\ wreq[w] \in enqueued
         /\ \A i \in 1..Len(queue) : queue[i] # wreq[w]
         /\ \A v \in Workers : wreq[v] = wreq[w] => v = w
         /\ handled[wreq[w]] = IF wpc[w] = "busy" THEN 0 ELSE 1

(* A response on its way to the connection is the only one.                 *)
ReplyInv ==
  /\ \A i \in 1..Len(ioq) : ioq[i].op = "reply" =>
       /\ ioq[i].id \in enqueued /\ handled[ioq[i].id] = 1 /\ answers[ioq[i].id] = 0
       /\ ioq[i].conn = reqs[ioq[i].id]
       /\ \A j \in 1..Len(ioq) : ioq[j].op = "reply" /\ ioq[j].id = ioq[i].id => j = i
  /\ \A w \in Workers : wpc[w] \in {"reply", "posting"} =>
       /\ answers[wreq[w]] = 0
       /\ \A i \in 1..Len(ioq) : ioq[i].op = "reply" => ioq[i].id # wreq[w]

(* What the history says of requests not yet received, and of rejected ones.*)
HistoryInv ==
  /\ enqueued \subseteq 1..Len(reqs)
  /\ \A i \in Ids : i > Len(reqs) => handled[i] = 0 /\ answers[i] = 0
  /\ \A i \in Ids : i \notin enqueued => handled[i] = 0

(* An enqueued request that nobody has handled is in the queue or with the  *)
(* worker that is about to handle it.                                       *)
NothingDropped ==
  \A i \in enqueued : handled[i] = 0 =>
    \/ \E k \in 1..Len(queue) : queue[k] = i
    \/ \E w \in Workers : wpc[w] = "busy" /\ wreq[w] = i

PlaceInv ==
  /\ QueueInv /\ HoldInv /\ ReplyInv /\ HistoryInv /\ AtMostOneAnswer
  /\ NothingDropped

ServerInv ==
  /\ TypeOK /\ ControlInv /\ ConnInv /\ TableInStep /\ WorkKeepsWorkerAwake
  /\ PlaceInv /\ PendingExact

Functor == [op : {"reply", "remove", "stop"}, conn : Conns \cup {"none"},
            id : Ids \cup {NoReq}]

-----------------------------------------------------------------------------
(* What is in a queue after a push.                                         *)
LEMMA AfterAppend ==
  ASSUME NEW S, NEW q \in Seq(S), NEW e \in S
  PROVE  /\ Append(q, e) \in Seq(S)
         /\ Len(Append(q, e)) = Len(q) + 1 /\ Len(q) \in Nat
         /\ \A i \in 1..Len(q) : Append(q, e)[i] = q[i]
         /\ Append(q, e)[Len(q) + 1] = e
  BY AppendProperties, LenProperties

(* What is in a queue after its head was taken.                             *)
LEMMA AfterTail ==
  ASSUME NEW S, NEW q \in Seq(S), q # <<>>
  PROVE  /\ Tail(q) \in Seq(S) /\ Head(q) \in S /\ Head(q) = q[1]
         /\ Len(q) \in Nat /\ Len(q) >= 1 /\ Len(Tail(q)) = Len(q) - 1
         /\ \A i \in 1..Len(Tail(q)) : i + 1 \in 2..Len(q) /\ Tail(q)[i] = q[i + 1]
<1>1. /\ Tail(q) \in Seq(S) /\ Head(q) \in S /\ Len(Tail(q)) = Len(q) - 1
      /\ \A i \in 1..Len(Tail(q)) : Tail(q)[i] = q[i + 1]
  BY HeadTailProperties
<1>2. Len(q) \in Nat \ {0}
  BY EmptySeq, LenProperties
<1>. QED
  BY <1>1, <1>2

(* The conjuncts of TypeOK that the proofs use.                             *)
LEMMA Typing ==
  ASSUME ServerInv
  PROVE  /\ TypeOK /\ queue \in Seq(Ids) /\ Len(queue) \in Nat
         /\ ioq \in Seq(Functor) /\ Len(ioq) \in Nat
         /\ reqs \in Seq(Conns) /\ Len(reqs) \in Nat /\ Len(reqs) <= MaxRequests
         /\ MaxRequests \in Nat /\ Ids \subseteq Nat /\ NoReq \notin Ids
         /\ \A i \in 1..Len(queue) : queue[i] \in Ids /\ queue[i] <= Len(reqs)
         /\ \A i \in enqueued : i \in Ids /\ i \in 1..Len(reqs) /\ reqs[i] \in Conns
<1>1. TypeOK /\ QueueInv /\ HistoryInv
  BY DEF ServerInv, PlaceInv
<1>2. /\ queue \in Seq(Ids) /\ ioq \in Seq(Functor) /\ reqs \in Seq(Conns)
      /\ Len(reqs) <= MaxRequests
  BY <1>1 DEF TypeOK, Functor
<1>3. Len(queue) \in Nat /\ Len(ioq) \in Nat /\ Len(reqs) \in Nat
  BY <1>2, LenProperties
<1>4. MaxRequests \in Nat /\ Ids \subseteq Nat /\ NoReq \notin Ids
  BY ServerAssumption DEF Ids, NoReq
<1>5. \A i \in enqueued : i \in Ids /\ i \in 1..Len(reqs) /\ reqs[i] \in Conns
  <2>. SUFFICES ASSUME NEW i \in enqueued
                PROVE  i \in Ids /\ i \in 1..Len(reqs) /\ reqs[i] \in Conns
    OBVIOUS
  <2>1. i \in Ids /\ i \in 1..Len(reqs)
    BY <1>1 DEF HistoryInv, TypeOK
  <2>. QED
    BY <1>2, <2>1, ElementOfSeq
<1>6. \A i \in 1..Len(queue) : queue[i] \in Ids /\ queue[i] <= Len(reqs)
  BY <1>1, <1>2, <1>3, <1>5 DEF QueueInv
<1>. QED
  BY <1>1, <1>2, <1>3, <1>4, <1>5, <1>6

-----------------------------------------------------------------------------
(* The constructor's state has the invariant.                               *)
LEMMA ServerInit == Init => ServerInv
<1>. SUFFICES ASSUME Init PROVE ServerInv
  OBVIOUS
<1>1. TypeOK
  <2>1. <<>> \in Seq(Ids) /\ <<>> \in Seq(Functor) /\ <<>> \in Seq(Conns) /\ Len(<<>>) = 0
    BY EmptySeq
  <2>2. MaxRequests \in Nat /\ MaxStarts \in Nat
    BY ServerAssumption
  <2>3. queue \in Seq(Ids) /\ ioq \in Seq(Functor) /\ reqs \in Seq(Conns)
        /\ Len(reqs) <= MaxRequests /\ starts \in 0..MaxStarts
    BY <2>1, <2>2 DEF Init
  <2>4. /\ wreq \in [Workers -> Ids \cup {NoReq}] /\ pend \in [Conns -> Nat]
        /\ handled \in [Ids -> Nat] /\ answers \in [Ids -> Nat]
    BY DEF Init
  <2>. QED
    BY <2>3, <2>4 DEF Init, TypeOK, Functor
<1>2. ControlInv /\ ConnInv /\ TableInStep /\ WorkKeepsWorkerAwake
  BY DEF Init, ControlInv, ConnInv, TableInStep, WorkKeepsWorkerAwake
<1>3. QueueInv /\ HoldInv /\ ReplyInv /\ HistoryInv /\ AtMostOneAnswer /\ NothingDropped
  BY DEF Init, QueueInv, HoldInv, Holding, ReplyInv, HistoryInv, AtMostOneAnswer,
         NothingDropped
<1>4. PendingExact
  <2>. SUFFICES ASSUME NEW c \in Conns
                PROVE  pend[c] = Cardinality(Waiting(c)) + Cardinality(Holders(c))
    BY DEF PendingExact
  <2>1. Waiting(c) = {} /\ Holders(c) = {}
    BY DEF Init, Waiting, Holders
  <2>. QED
    BY <2>1, FS_EmptySet DEF Init
<1>. QED
  BY <1>1, <1>2, <1>3, <1>4 DEF ServerInv, PlaceInv

(* Start-up, shutdown and exits keep the threads in phase.                  *)
LEMMA ControlStep == ServerInv /\ Next => ControlInv'
<1>. SUFFICES ASSUME ServerInv, Next PROVE ControlInv'
  OBVIOUS
<1>0. TypeOK /\ ControlInv
  BY DEF ServerInv
<1>1. CASE Controller
  <2>1. CASE StartBegins
    BY <1>0, <2>1 DEF StartBegins, TypeOK, ControlInv
  <2>2. CASE StartReturns
    BY <1>0, <2>2 DEF StartReturns, TypeOK, ControlInv, workVars
  <2>3. CASE StartFailed
    BY <1>0, <2>3 DEF StartFailed, NotifyWorkers, TypeOK, ControlInv
  <2>4. CASE StartFailedReturns
    BY <1>0, <2>4 DEF StartFailedReturns, WorkersJoined, TypeOK, ControlInv
  <2>5. CASE StopBegins
    BY <1>0, <2>5 DEF StopBegins, TypeOK, ControlInv, workVars
  <2>6. CASE StopPosts
    BY <1>0, <2>6 DEF StopPosts, TypeOK, ControlInv, workVars
  <2>7. CASE IoJoined
    BY <1>0, <2>7 DEF IoJoined, NotifyWorkers, TypeOK, ControlInv
  <2>8. CASE StopReturns
    BY <1>0, <2>8 DEF StopReturns, WorkersJoined, TypeOK, ControlInv
  <2>. QED
    BY <1>1, <2>1, <2>2, <2>3, <2>4, <2>5, <2>6, <2>7, <2>8 DEF Controller
<1>2. CASE IoThread
  <2>1. /\ UNCHANGED <<ctl, stopping, workVars>>
        /\ io \in {"starting", "listening", "loop", "quitting"}
    BY <1>2 DEF IoThread, IoStarts, IoRuns, RunFunctor, IoEnds
  <2>. QED
    BY <1>0, <2>1 DEF ControlInv, TypeOK, workVars
<1>3. CASE Clients
  <2>1. io = "loop" /\ UNCHANGED lifeVars
    BY <1>3 DEF Clients, NewConnection, PeerCloses, RejectFrame, UnnamedRequest, Request
  <2>2. \/ UNCHANGED <<queue, wpc>>
        \/ ~stopping /\ NotifyOne
    BY <1>3 DEF Clients, NewConnection, PeerCloses, RejectFrame, UnnamedRequest, Request,
                QueueAccepts, workVars
  <2>3. ctl # "down"
    BY <1>0, <2>1 DEF ControlInv
  <2>4. CASE UNCHANGED <<queue, wpc>>
    BY <1>0, <2>1, <2>4 DEF ControlInv, lifeVars
  <2>5. CASE ~stopping /\ NotifyOne
    <3>1. \A w \in Workers : wpc'[w] = wpc[w] \/ wpc'[w] = "awake"
      BY <1>0, <2>5 DEF NotifyOne, TypeOK
    <3>. QED
      BY <1>0, <2>1, <2>3, <2>5, <3>1 DEF ControlInv, lifeVars
  <2>. QED
    BY <2>2, <2>4, <2>5
<1>4. CASE \E w \in Workers : Worker(w)
  <2>. PICK w \in Workers : Worker(w)
    BY <1>4
  <2>1. UNCHANGED lifeVars
    BY DEF Worker, Sleeps, Exits, Takes, Handles, SendChecks, SendPosts, Releases
  <2>2. /\ wpc[w] \notin {"off", "exited"}
        /\ \E pc \in {"awake", "asleep", "busy", "reply", "posting", "release", "exited"} :
             /\ wpc' = [wpc EXCEPT ![w] = pc]
             /\ pc = "exited" => stopping /\ queue = <<>>
    BY DEF Worker, Sleeps, Exits, Takes, Handles, SendChecks, SendPosts, Releases, Goto
  <2>3. ctl # "down"
    BY <1>0, <2>2 DEF ControlInv
  <2>4. queue = <<>> => queue' = queue
    BY DEF Worker, Sleeps, Exits, Takes, Handles, SendChecks, SendPosts, Releases
  <2>. QED
    BY <1>0, <2>1, <2>2, <2>3, <2>4 DEF ControlInv, lifeVars, TypeOK
<1>. QED
  BY <1>1, <1>2, <1>3, <1>4 DEF Next

(* The callbacks and functors keep the table in step with the connections.  *)
LEMMA ConnStep == ServerInv /\ Next => ConnInv' /\ TableInStep'
<1>. SUFFICES ASSUME ServerInv, Next PROVE ConnInv' /\ TableInStep'
  OBVIOUS
<1>0. TypeOK /\ ControlInv /\ ConnInv /\ TableInStep
  BY DEF ServerInv
<1>a. /\ ioq \in Seq(Functor) /\ Len(ioq) \in Nat
      /\ conn \in [Conns -> {"none", "kConnected", "kDisconnecting", "kDisconnected",
                             "destroyed"}]
  BY Typing DEF TypeOK
<1>1. CASE Controller
  <2>1. CASE StopPosts
    <3>1. [op |-> "stop", conn |-> "none", id |-> NoReq] \in Functor
      BY DEF Functor
    <3>2. /\ Len(ioq') = Len(ioq) + 1
          /\ \A i \in 1..Len(ioq') : ioq'[i].op = "remove" =>
               i \in 1..Len(ioq) /\ ioq'[i] = ioq[i]
      BY <1>a, <2>1, <3>1, AfterAppend DEF StopPosts
    <3>. QED
      BY <1>0, <2>1, <3>2 DEF StopPosts, ConnInv, TableInStep, connVars
  <2>2. CASE StopReturns
    <3>1. \A c \in Conns : conn[c] \in {"none", "destroyed"}
      BY <1>0, <2>2 DEF StopReturns, ControlInv, ConnInv
    <3>. QED
      BY <1>0, <2>2, <3>1 DEF StopReturns, ConnInv, TableInStep
  <2>3. CASE ~StopPosts /\ ~StopReturns
    <3>1. UNCHANGED <<conn, table, ioq>> /\ (io = "loop" => io' = "loop")
      BY <1>0, <1>1, <2>3 DEF Controller, StartBegins, StartReturns, StartFailed,
             StartFailedReturns, StopBegins, IoJoined, NotifyWorkers, connVars, ControlInv
    <3>. QED
      BY <1>0, <3>1 DEF ConnInv, TableInStep
  <2>. QED
    BY <2>1, <2>2, <2>3
<1>2. CASE IoStarts \/ IoRuns
  <2>1. UNCHANGED <<conn, table, ioq>> /\ io # "loop"
    BY <1>2 DEF IoStarts, IoRuns, connVars
  <2>. QED
    BY <1>0, <2>1 DEF ConnInv, TableInStep
<1>3. CASE RunFunctor
  <2>. DEFINE f == Head(ioq)
  <2>1. /\ io = "loop" /\ f = ioq[1] /\ f \in Functor
        /\ 1 \in 1..Len(ioq) /\ Len(ioq') = Len(ioq) - 1
        /\ \A i \in 1..Len(ioq') : i + 1 \in 1..Len(ioq) /\ ioq'[i] = ioq[i + 1]
    BY <1>a, <1>3, AfterTail DEF RunFunctor
  <2>2. f.op = "remove" => f.conn \in Conns /\ conn[f.conn] # "none"
    BY <1>0, <2>1 DEF ConnInv
  <2>3. \A i \in 1..Len(ioq') : ioq'[i].op = "remove" =>
               ioq'[i].conn \in Conns /\ conn[ioq'[i].conn] # "none"
    BY <1>0, <2>1 DEF ConnInv
  <2>. HIDE DEF f
  <2>4. CASE RunReply(f)
    BY <1>0, <2>1, <2>3, <2>4 DEF RunReply, ConnInv, TableInStep
  <2>5. CASE RunRemove(f)
    <3>1. CASE conn[f.conn] # "destroyed"
      <4>1. /\ conn' = [conn EXCEPT ![f.conn] = "destroyed"] /\ io' = io
            /\ f.conn \in Conns /\ f.conn \in table /\ table' = table \ {f.conn}
        BY <1>0, <2>2, <2>5, <3>1 DEF RunRemove, Toggle, TableInStep
      <4>. QED
        BY <1>0, <1>a, <2>1, <2>3, <4>1 DEF ConnInv, TableInStep
    <3>2. CASE conn[f.conn] = "destroyed"
      BY <1>0, <2>1, <2>3, <2>5, <3>2 DEF RunRemove, ConnInv, TableInStep
    <3>. QED
      BY <3>1, <3>2
  <2>6. CASE RunStop(f)
    <3>1. /\ \A c \in Conns : /\ conn'[c] \in {"none", "destroyed"}
                              /\ conn[c] # "none" => conn'[c] # "none"
          /\ table' = {c \in Conns : (c \in table) # (conn[c] \notin {"none", "destroyed"})}
      BY <1>a, <2>6 DEF RunStop
    <3>2. table' = {}
      <4>1. \A c \in Conns : c \in table <=> conn[c] \notin {"none", "destroyed"}
        BY <1>0 DEF TableInStep
      <4>2. \A c \in Conns : (c \in table) = (conn[c] \notin {"none", "destroyed"})
        BY <4>1
      <4>. QED
        BY <3>1, <4>2, Zenon
    <3>. QED
      BY <2>3, <3>1, <3>2 DEF ConnInv, TableInStep
  <2>. QED
    BY <1>3, <2>4, <2>5, <2>6 DEF RunFunctor, f
<1>4. CASE IoEnds
  <2>1. /\ UNCHANGED <<conn, table>> /\ io # "loop" /\ Len(ioq') = 0
    BY <1>4, EmptySeq DEF IoEnds, connVars
  <2>. QED
    BY <1>0, <2>1 DEF ConnInv, TableInStep
<1>5. ASSUME NEW c \in Conns, NewConnection(c) \/ UnnamedRequest(c) \/ Request(c)
      PROVE  ConnInv' /\ TableInStep'
  <2>1. io' = io /\ io = "loop" /\ ioq' = ioq
    BY <1>5 DEF NewConnection, UnnamedRequest, Request, lifeVars
  <2>2. \/ UNCHANGED <<conn, table>>
        \/ /\ c \notin table /\ table' = table \cup {c}
           /\ conn' = [conn EXCEPT ![c] = "kConnected"]
        \/ /\ c \in table /\ table' = table
           /\ conn' = [conn EXCEPT ![c] = "kDisconnecting"]
    BY <1>0, <1>5 DEF NewConnection, UnnamedRequest, Request, Toggle, TableInStep, connVars
  <2>. QED
    BY <1>0, <1>a, <2>1, <2>2 DEF ConnInv, TableInStep
<1>6. ASSUME NEW c \in Conns, PeerCloses(c) \/ RejectFrame(c)
      PROVE  ConnInv' /\ TableInStep'
  <2>1. /\ io' = io /\ io = "loop" /\ table' = table /\ conn[c] \in OpenStates
        /\ conn' = [conn EXCEPT ![c] = "kDisconnected"]
        /\ ioq' = Append(ioq, [op |-> "remove", conn |-> c, id |-> NoReq])
    BY <1>6 DEF PeerCloses, RejectFrame, Close, lifeVars
  <2>2. [op |-> "remove", conn |-> c, id |-> NoReq] \in Functor
    BY DEF Functor
  <2>3. /\ Len(ioq') = Len(ioq) + 1
        /\ \A i \in 1..Len(ioq) : ioq'[i] = ioq[i]
        /\ ioq'[Len(ioq) + 1] = [op |-> "remove", conn |-> c, id |-> NoReq]
    BY <1>a, <2>1, <2>2, AfterAppend
  <2>4. \A i \in 1..Len(ioq') : ioq'[i].op = "remove" =>
          ioq'[i].conn \in Conns /\ (conn[ioq'[i].conn] # "none" \/ ioq'[i].conn = c)
    BY <1>0, <1>a, <2>3 DEF ConnInv
  <2>. QED
    BY <1>0, <1>a, <2>1, <2>4 DEF ConnInv, TableInStep, OpenStates
<1>7. CASE \E w \in Workers : Worker(w)
  <2>. PICK w \in Workers : Worker(w)
    BY <1>7
  <2>1. UNCHANGED <<conn, table, io>>
    BY DEF Worker, Sleeps, Exits, Takes, Handles, SendChecks, SendPosts, Releases, lifeVars,
           connVars
  <2>2. CASE SendPosts(w) /\ ioq' # ioq
    <3>. DEFINE f == [op |-> "reply", conn |-> reqs[wreq[w]], id |-> wreq[w]]
    <3>1. wreq[w] \in enqueued /\ wreq[w] \in Ids /\ reqs[wreq[w]] \in Conns
      BY <2>2, Typing DEF SendPosts, ServerInv, PlaceInv, HoldInv, Holding
    <3>2. f \in Functor /\ f.op # "remove"
      BY <3>1 DEF Functor
    <3>3. ioq' = Append(ioq, f)
      BY <2>2 DEF SendPosts
    <3>. HIDE DEF f
    <3>4. \A i \in 1..Len(ioq') : ioq'[i].op = "remove" =>
               i \in 1..Len(ioq) /\ ioq'[i] = ioq[i]
      BY <1>a, <3>2, <3>3, AfterAppend
    <3>. QED
      BY <1>0, <2>1, <3>4 DEF ConnInv, TableInStep
  <2>3. CASE ioq' = ioq
    BY <1>0, <2>1, <2>3 DEF ConnInv, TableInStep
  <2>. QED
    BY <2>2, <2>3 DEF Worker, Sleeps, Exits, Takes, Handles, SendChecks, Releases
<1>. QED
  BY <1>1, <1>2, <1>3, <1>4, <1>5, <1>6, <1>7 DEF Next, IoThread, Clients

(* notify_one() and notify_all() leave no work to sleeping workers.         *)
LEMMA AwakeStep == ServerInv /\ Next => WorkKeepsWorkerAwake'
<1>. SUFFICES ASSUME ServerInv, Next PROVE WorkKeepsWorkerAwake'
  OBVIOUS
<1>0. TypeOK /\ ControlInv /\ WorkKeepsWorkerAwake /\ Workers # {}
  BY ServerAssumption DEF ServerInv
<1>1. CASE Controller
  <2>1. CASE StartBegins
    BY <1>0, <2>1 DEF StartBegins, WorkKeepsWorkerAwake
  <2>2. CASE StartFailed \/ IoJoined
    BY <1>0, <2>2 DEF StartFailed, IoJoined, NotifyWorkers, WorkKeepsWorkerAwake
  <2>3. CASE StartFailedReturns \/ StopReturns
    BY <2>3 DEF StartFailedReturns, StopReturns, WorkersJoined, WorkKeepsWorkerAwake
  <2>4. CASE StartReturns \/ StopBegins \/ StopPosts
    BY <1>0, <2>4 DEF StartReturns, StopBegins, StopPosts, workVars, WorkKeepsWorkerAwake
  <2>. QED
    BY <1>1, <2>1, <2>2, <2>3, <2>4 DEF Controller
<1>2. CASE IoThread
  BY <1>0, <1>2 DEF IoThread, IoStarts, IoRuns, RunFunctor, IoEnds, workVars,
                    WorkKeepsWorkerAwake
<1>3. CASE Clients
  <2>1. io = "loop"
    BY <1>3 DEF Clients, NewConnection, PeerCloses, RejectFrame, UnnamedRequest, Request
  <2>2. \/ UNCHANGED <<queue, wpc>>
        \/ ~stopping /\ NotifyOne
    BY <1>3 DEF Clients, NewConnection, PeerCloses, RejectFrame, UnnamedRequest, Request,
                QueueAccepts, workVars
  <2>3. CASE ~stopping /\ NotifyOne
    <3>1. \A w \in Workers : wpc[w] \notin {"off", "exited"}
      BY <1>0, <2>1, <2>3 DEF ControlInv
    <3>. QED
      BY <1>0, <2>3, <3>1 DEF NotifyOne, WorkKeepsWorkerAwake, TypeOK
  <2>. QED
    BY <1>0, <2>2, <2>3 DEF WorkKeepsWorkerAwake
<1>4. CASE \E w \in Workers : Worker(w)
  <2>. PICK w \in Workers : Worker(w)
    BY <1>4
  <2>1. CASE Sleeps(w) \/ Exits(w)
    BY <2>1 DEF Sleeps, Exits, WorkKeepsWorkerAwake
  <2>2. CASE ~Sleeps(w) /\ ~Exits(w)
    <3>1. wpc'[w] \in {"busy", "reply", "posting", "release", "awake"}
      BY <1>0, <2>2 DEF Worker, Takes, Handles, SendChecks, SendPosts, Releases, Goto, TypeOK
    <3>. QED
      BY <3>1 DEF WorkKeepsWorkerAwake
  <2>. QED
    BY <2>1, <2>2
<1>. QED
  BY <1>1, <1>2, <1>3, <1>4 DEF Next

(* Steps that move no request and add no response: the responses still in   *)
(* the loop's queue were in it before, one position on if its head was run. *)
LEMMA PlacesKept ==
  ASSUME ServerInv, UNCHANGED <<queue, wreq, reqs, enqueued, handled, answers>>,
         \A w \in Workers : \/ wpc'[w] = wpc[w]
                            \/ wpc[w] \notin Holding /\ wpc'[w] \notin Holding,
         NEW d \in {0, 1}, Len(ioq') \in Nat,
         \A i \in 1..Len(ioq') : ioq'[i].op = "reply" =>
           i + d \in 1..Len(ioq) /\ ioq'[i] = ioq[i + d]
  PROVE  PlaceInv'
<1>0. PlaceInv
  BY DEF ServerInv
<1>1. QueueInv' /\ HistoryInv' /\ AtMostOneAnswer'
  BY <1>0 DEF PlaceInv, QueueInv, HistoryInv, AtMostOneAnswer
<1>2. HoldInv'
  BY <1>0 DEF PlaceInv, HoldInv, Holding
<1>3. NothingDropped'
  BY <1>0 DEF PlaceInv, NothingDropped, Holding
<1>4. ReplyInv'
  <2>1. ASSUME NEW i \in 1..Len(ioq'), ioq'[i].op = "reply"
        PROVE  /\ ioq'[i].id \in enqueued /\ handled[ioq'[i].id] = 1
               /\ answers[ioq'[i].id] = 0 /\ ioq'[i].conn = reqs[ioq'[i].id]
               /\ \A j \in 1..Len(ioq') :
                    ioq'[j].op = "reply" /\ ioq'[j].id = ioq'[i].id => j = i
    BY <1>0, <2>1 DEF PlaceInv, ReplyInv
  <2>2. ASSUME NEW w \in Workers, wpc'[w] \in {"reply", "posting"}
        PROVE  /\ answers[wreq[w]] = 0
               /\ \A i \in 1..Len(ioq') : ioq'[i].op = "reply" => ioq'[i].id # wreq[w]
    BY <1>0, <2>2 DEF PlaceInv, ReplyInv, Holding
  <2>. QED
    BY <2>1, <2>2 DEF ReplyInv
<1>. QED
  BY <1>1, <1>2, <1>3, <1>4 DEF PlaceInv

(* sendInLoop takes a response.                                             *)
LEMMA PlacesReply ==
  ASSUME ServerInv, io = "loop", ioq # <<>>, ioq' = Tail(ioq), Head(ioq).op = "reply",
         answers' = [answers EXCEPT ![Head(ioq).id] = @ + 1],
         UNCHANGED <<workVars, reqs, enqueued, handled>>
  PROVE  PlaceInv'
<1>0. PlaceInv
  BY DEF ServerInv
<1>. DEFINE id == Head(ioq).id
<1>1. /\ 1 \in 1..Len(ioq) /\ Head(ioq) = ioq[1] /\ Len(ioq') \in Nat
      /\ \A i \in 1..Len(ioq') : i + 1 \in 2..Len(ioq) /\ ioq'[i] = ioq[i + 1]
  BY Typing, AfterTail
<1>2. /\ id \in enqueued /\ id \in Ids /\ handled[id] = 1 /\ answers[id] = 0
      /\ \A j \in 2..Len(ioq) : ioq[j].op = "reply" => ioq[j].id # id
      /\ \A w \in Workers : wpc[w] \in {"reply", "posting"} => wreq[w] # id
  BY <1>0, <1>1, Typing DEF PlaceInv, ReplyInv
<1>3. /\ answers' \in [Ids -> Nat] /\ answers'[id] = 1
      /\ \A i \in Ids : i # id => answers'[i] = answers[i]
  BY <1>2, Typing DEF TypeOK
<1>. HIDE DEF id
<1>4. QueueInv' /\ HoldInv' /\ NothingDropped'
  BY <1>0 DEF PlaceInv, QueueInv, HoldInv, NothingDropped, workVars
<1>5. HistoryInv'
  BY <1>0, <1>2, <1>3, Typing DEF PlaceInv, HistoryInv
<1>6. AtMostOneAnswer'
  BY <1>0, <1>2, <1>3 DEF PlaceInv, AtMostOneAnswer
<1>7. ReplyInv'
  <2>1. ASSUME NEW i \in 1..Len(ioq'), ioq'[i].op = "reply"
        PROVE  /\ ioq'[i].id \in enqueued /\ handled[ioq'[i].id] = 1
               /\ answers'[ioq'[i].id] = 0 /\ ioq'[i].conn = reqs[ioq'[i].id]
               /\ \A j \in 1..Len(ioq') :
                    ioq'[j].op = "reply" /\ ioq'[j].id = ioq'[i].id => j = i
    <3>1. /\ i + 1 \in 2..Len(ioq) /\ ioq'[i] = ioq[i + 1] /\ i + 1 \in 1..Len(ioq)
          /\ ioq'[i].id # id
      BY <1>1, <1>2, <2>1
    <3>2. ioq'[i].id \in enqueued /\ ioq'[i].id \in Ids
      BY <1>0, <2>1, <3>1, Typing DEF PlaceInv, ReplyInv
    <3>. QED
      BY <1>0, <1>1, <1>3, <2>1, <3>1, <3>2 DEF PlaceInv, ReplyInv
  <2>2. ASSUME NEW w \in Workers, wpc[w] \in {"reply", "posting"}
        PROVE  /\ answers'[wreq[w]] = 0
               /\ \A i \in 1..Len(ioq') : ioq'[i].op = "reply" => ioq'[i].id # wreq[w]
    <3>1. wreq[w] \in Ids /\ wreq[w] # id
      BY <1>0, <1>2, <2>2, Typing DEF PlaceInv, HoldInv, Holding
    <3>. QED
      BY <1>0, <1>1, <1>3, <2>2, <3>1 DEF PlaceInv, ReplyInv
  <2>. QED
    BY <2>1, <2>2 DEF ReplyInv, workVars
<1>. QED
  BY <1>4, <1>5, <1>6, <1>7 DEF PlaceInv

(* A request arrives: it enters the queue, or is answered at once.          *)
LEMMA PlacesRequest ==
  ASSUME ServerInv, NEW c \in Conns, Request(c)
  PROVE  PlaceInv'
<1>0. PlaceInv /\ TypeOK
  BY DEF ServerInv
<1>. DEFINE id == Len(reqs) + 1
<1>1. /\ id \in Ids /\ id \notin enqueued /\ handled[id] = 0 /\ answers[id] = 0
      /\ id \in Nat /\ id > Len(reqs)
  BY <1>0, Typing DEF Request, PlaceInv, HistoryInv
<1>2. /\ reqs' \in Seq(Conns) /\ Len(reqs') = id
      /\ \A i \in 1..Len(reqs) : reqs'[i] = reqs[i]
  BY Typing, AfterAppend DEF Request
<1>3. UNCHANGED <<wreq, ioq, handled>>
  BY DEF Request
<1>4. \A w \in Workers : wpc'[w] = wpc[w] \/ (wpc[w] \notin Holding /\ wpc'[w] \notin Holding)
  <2>1. UNCHANGED wpc \/ NotifyOne
    BY DEF Request
  <2>2. \A w \in Workers :
          \/ wpc'[w] = wpc[w]
          \/ wpc[w] = "asleep" /\ wpc'[w] = "awake"
    BY <1>0, <2>1 DEF NotifyOne, TypeOK
  <2>. QED
    BY <2>2 DEF Holding
<1>5. CASE pend[c] < MaxPending /\ QueueAccepts
  <2>1. /\ queue' = Append(queue, id) /\ enqueued' = enqueued \cup {id} /\ answers' = answers
    BY <1>5 DEF Request
  <2>. HIDE DEF id
  <2>2. /\ Len(queue') = Len(queue) + 1 /\ Len(queue) \in Nat
        /\ \A i \in 1..Len(queue) : queue'[i] = queue[i]
        /\ queue'[Len(queue) + 1] = id
    BY <1>1, <2>1, Typing, AfterAppend
  <2>3. QueueInv'
    BY <1>0, <1>1, <1>3, <2>1, <2>2 DEF PlaceInv, QueueInv
  <2>4. HoldInv'
    BY <1>0, <1>1, <1>3, <1>4, <2>1, <2>2 DEF PlaceInv, HoldInv, Holding
  <2>5. ReplyInv'
    <3>1. \A i \in enqueued : i \in enqueued' /\ reqs'[i] = reqs[i]
      BY <1>2, <2>1, Typing
    <3>2. \A w \in Workers : wpc'[w] \in {"reply", "posting"} => wpc[w] = wpc'[w]
      BY <1>4 DEF Holding
    <3>. QED
      BY <1>0, <1>3, <2>1, <3>1, <3>2 DEF PlaceInv, ReplyInv
  <2>6. HistoryInv'
    <3>1. enqueued' \subseteq 1..Len(reqs')
      BY <1>1, <1>2, <2>1, Typing
    <3>2. \A i \in Ids : i > Len(reqs') => i > Len(reqs)
      <4>1. Ids \subseteq Nat /\ Len(reqs) \in Nat
        BY Typing
      <4>. QED
        BY <1>1, <1>2, <4>1
    <3>. QED
      BY <1>0, <1>3, <2>1, <3>1, <3>2 DEF PlaceInv, HistoryInv
  <2>7. AtMostOneAnswer'
    BY <1>0, <1>1, <1>3, <2>1 DEF PlaceInv, AtMostOneAnswer
  <2>8. NothingDropped'
    <3>. SUFFICES ASSUME NEW i \in enqueued', handled'[i] = 0
                  PROVE  \/ \E k \in 1..Len(queue') : queue'[k] = i
                         \/ \E w \in Workers : wpc'[w] = "busy" /\ wreq'[w] = i
      BY DEF NothingDropped
    <3>1. CASE i = id
      BY <2>2, <3>1
    <3>2. CASE i \in enqueued
      <4>1. \/ \E k \in 1..Len(queue) : queue[k] = i
            \/ \E w \in Workers : wpc[w] = "busy" /\ wreq[w] = i
        BY <1>0, <1>3, <3>2 DEF PlaceInv, NothingDropped
      <4>. QED
        BY <1>3, <1>4, <2>2, <4>1 DEF Holding
    <3>. QED
      BY <2>1, <3>1, <3>2
  <2>. QED
    BY <2>3, <2>4, <2>5, <2>6, <2>7, <2>8 DEF PlaceInv
<1>6. CASE ~(pend[c] < MaxPending /\ QueueAccepts)
  <2>1. /\ answers' = [answers EXCEPT ![id] = @ + 1]
        /\ UNCHANGED <<queue, enqueued, wpc>>
    BY <1>6 DEF Request
  <2>. HIDE DEF id
  <2>2. /\ answers'[id] = 1 /\ \A i \in Ids : i # id => answers'[i] = answers[i]
    BY <1>0, <1>1, <2>1 DEF TypeOK
  <2>3. QueueInv' /\ HoldInv' /\ NothingDropped'
    BY <1>0, <1>3, <2>1 DEF PlaceInv, QueueInv, HoldInv, NothingDropped
  <2>4. ReplyInv'
    <3>1. \A i \in enqueued : i \in Ids /\ i # id /\ reqs'[i] = reqs[i]
      BY <1>1, <1>2, Typing
    <3>2. \A w \in Workers : wpc[w] \in {"reply", "posting"} => wreq[w] \in enqueued
      BY <1>0 DEF PlaceInv, HoldInv, Holding
    <3>. QED
      BY <1>0, <1>3, <2>1, <2>2, <3>1, <3>2 DEF PlaceInv, ReplyInv
  <2>5. HistoryInv'
    BY <1>0, <1>1, <1>2, <1>3, <2>1, <2>2, Typing DEF PlaceInv, HistoryInv
  <2>6. AtMostOneAnswer'
    BY <1>0, <1>1, <1>3, <2>1, <2>2 DEF PlaceInv, AtMostOneAnswer
  <2>. QED
    BY <2>3, <2>4, <2>5, <2>6 DEF PlaceInv
<1>. QED
  BY <1>5, <1>6

(* A worker takes the head of the queue: the request changes hands.         *)
LEMMA PlacesTakes ==
  ASSUME ServerInv, NEW w \in Workers, Takes(w)
  PROVE  PlaceInv'
<1>0. PlaceInv /\ TypeOK
  BY DEF ServerInv
<1>. DEFINE id == Head(queue)
<1>1. /\ id = queue[1] /\ 1 \in 1..Len(queue) /\ Len(queue') \in Nat
      /\ \A i \in 1..Len(queue') : i + 1 \in 2..Len(queue) /\ queue'[i] = queue[i + 1]
      /\ Len(queue') = Len(queue) - 1 /\ Len(queue) \in Nat
  BY Typing, AfterTail DEF Takes
<1>2. /\ wpc[w] = "awake" /\ wreq' = [wreq EXCEPT ![w] = id]
      /\ wpc' = [wpc EXCEPT ![w] = "busy"]
      /\ UNCHANGED <<ioq, reqs, enqueued, handled, answers>>
  BY DEF Takes, Goto, histVars
<1>3. /\ id \in enqueued /\ id \in Ids /\ id # NoReq /\ handled[id] = 0
      /\ \A i \in 2..Len(queue) : queue[i] # id
      /\ \A v \in Workers : wreq[v] # id
  <2>1. id \in enqueued /\ id \in Ids /\ id # NoReq /\ handled[id] = 0
    BY <1>0, <1>1, Typing DEF PlaceInv, QueueInv
  <2>2. \A i \in 2..Len(queue) : queue[i] # id
    BY <1>0, <1>1 DEF PlaceInv, QueueInv
  <2>3. \A v \in Workers : wreq[v] # id
    BY <1>0, <1>1, <2>1 DEF PlaceInv, HoldInv
  <2>. QED
    BY <2>1, <2>2, <2>3
<1>. HIDE DEF id
<1>4. /\ wpc'[w] = "busy" /\ wreq'[w] = id
      /\ \A v \in Workers : v # w => wpc'[v] = wpc[v] /\ wreq'[v] = wreq[v]
  BY <1>0, <1>2 DEF TypeOK
<1>5. QueueInv'
  BY <1>0, <1>1, <1>2 DEF PlaceInv, QueueInv
<1>6. HoldInv'
  <2>. SUFFICES ASSUME NEW v \in Workers
                PROVE  /\ wreq'[v] # NoReq <=> wpc'[v] \in Holding
                       /\ wreq'[v] # NoReq =>
                            /\ wreq'[v] \in enqueued
                            /\ \A i \in 1..Len(queue') : queue'[i] # wreq'[v]
                            /\ \A u \in Workers : wreq'[u] = wreq'[v] => u = v
                            /\ handled[wreq'[v]] = IF wpc'[v] = "busy" THEN 0 ELSE 1
    BY <1>2 DEF HoldInv
  <2>1. CASE v = w
    BY <1>1, <1>3, <1>4, <2>1 DEF Holding
  <2>2. CASE v # w
    BY <1>0, <1>1, <1>3, <1>4, <2>2 DEF PlaceInv, HoldInv
  <2>. QED
    BY <2>1, <2>2
<1>7. ReplyInv'
  BY <1>0, <1>2, <1>4 DEF PlaceInv, ReplyInv
<1>8. HistoryInv' /\ AtMostOneAnswer'
  BY <1>0, <1>2 DEF PlaceInv, HistoryInv, AtMostOneAnswer
<1>9. NothingDropped'
  <2>. SUFFICES ASSUME NEW i \in enqueued, handled[i] = 0
                PROVE  \/ \E k \in 1..Len(queue') : queue'[k] = i
                       \/ \E v \in Workers : wpc'[v] = "busy" /\ wreq'[v] = i
    BY <1>2 DEF NothingDropped
  <2>1. CASE i = id
    BY <1>4, <2>1
  <2>2. CASE \E k \in 1..Len(queue) : queue[k] = i /\ i # id
    <3>. PICK k \in 1..Len(queue) : queue[k] = i /\ i # id
      BY <2>2
    <3>1. k - 1 \in 1..Len(queue') /\ (k - 1) + 1 = k
      BY <1>1
    <3>. QED
      BY <1>1, <3>1
  <2>3. CASE \E v \in Workers : wpc[v] = "busy" /\ wreq[v] = i
    BY <1>2, <1>4, <2>3
  <2>. QED
    BY <1>0, <2>1, <2>2, <2>3 DEF PlaceInv, NothingDropped
<1>. QED
  BY <1>5, <1>6, <1>7, <1>8, <1>9 DEF PlaceInv

(* What a worker that holds a request knows of it.                          *)
LEMMA HeldFacts ==
  ASSUME ServerInv, NEW w \in Workers, wpc[w] \in Holding
  PROVE  /\ wreq[w] # NoReq /\ wreq[w] \in enqueued /\ wreq[w] \in Ids
         /\ wreq[w] \in 1..Len(reqs) /\ reqs[wreq[w]] \in Conns
         /\ \A i \in 1..Len(queue) : queue[i] # wreq[w]
         /\ \A v \in Workers : wreq[v] = wreq[w] => v = w
         /\ handled[wreq[w]] = IF wpc[w] = "busy" THEN 0 ELSE 1
<1>1. HoldInv
  BY DEF ServerInv, PlaceInv
<1>2. /\ wreq[w] # NoReq /\ wreq[w] \in enqueued
      /\ \A i \in 1..Len(queue) : queue[i] # wreq[w]
      /\ \A v \in Workers : wreq[v] = wreq[w] => v = w
      /\ handled[wreq[w]] = IF wpc[w] = "busy" THEN 0 ELSE 1
  BY <1>1 DEF HoldInv
<1>. QED
  BY <1>2, Typing

(* The handler runs, once, and nothing has answered before it.              *)
LEMMA PlacesHandles ==
  ASSUME ServerInv, NEW w \in Workers, Handles(w)
  PROVE  PlaceInv'
<1>0. PlaceInv /\ TypeOK
  BY DEF ServerInv
<1>. DEFINE id == wreq[w]
<1>1. /\ id # NoReq /\ id \in enqueued /\ id \in Ids /\ handled[id] = 0
      /\ \A i \in 1..Len(queue) : queue[i] # id
      /\ \A v \in Workers : wreq[v] = id => v = w
  BY HeldFacts DEF Handles, Holding
<1>2. /\ wpc[w] = "busy" /\ handled' = [handled EXCEPT ![id] = @ + 1]
      /\ wpc' = [wpc EXCEPT ![w] = "reply"]
      /\ UNCHANGED <<queue, wreq, ioq, reqs, enqueued, answers>>
  BY DEF Handles, Goto
<1>3. /\ handled'[id] = 1 /\ \A i \in Ids : i # id => handled'[i] = handled[i]
      /\ wpc'[w] = "reply" /\ \A v \in Workers : v # w => wpc'[v] = wpc[v]
  BY <1>0, <1>1, <1>2 DEF TypeOK
<1>4. answers[id] = 0
  BY <1>0, <1>1 DEF PlaceInv, AtMostOneAnswer, TypeOK
<1>. HIDE DEF id
<1>5. QueueInv'
  BY <1>0, <1>1, <1>2, <1>3, Typing DEF PlaceInv, QueueInv
<1>6. HoldInv'
  <2>. SUFFICES ASSUME NEW v \in Workers
                PROVE  /\ wreq[v] # NoReq <=> wpc'[v] \in Holding
                       /\ wreq[v] # NoReq =>
                            /\ wreq[v] \in enqueued
                            /\ \A i \in 1..Len(queue) : queue[i] # wreq[v]
                            /\ \A u \in Workers : wreq[u] = wreq[v] => u = v
                            /\ handled'[wreq[v]] = IF wpc'[v] = "busy" THEN 0 ELSE 1
    BY <1>2 DEF HoldInv
  <2>1. CASE v = w
    BY <1>1, <1>3, <2>1 DEF Holding, id
  <2>2. CASE v # w
    <3>1. wreq[v] # NoReq => wreq[v] \in Ids /\ wreq[v] # id
      BY <1>0, <1>1, <2>2, Typing DEF PlaceInv, HoldInv
    <3>. QED
      BY <1>0, <1>3, <2>2, <3>1 DEF PlaceInv, HoldInv
  <2>. QED
    BY <2>1, <2>2
<1>7. ReplyInv'
  <2>1. \A i \in 1..Len(ioq) : ioq[i].op = "reply" =>
          /\ ioq[i].id # id /\ ioq[i].id \in Ids
    BY <1>0, <1>1, Typing DEF PlaceInv, ReplyInv
  <2>2. \A v \in Workers : wpc'[v] \in {"reply", "posting"} =>
          v = w \/ wpc[v] \in {"reply", "posting"}
    BY <1>3
  <2>. QED
    BY <1>0, <1>2, <1>3, <1>4, <2>1, <2>2 DEF PlaceInv, ReplyInv, id
<1>8. HistoryInv'
  BY <1>0, <1>1, <1>2, <1>3, Typing DEF PlaceInv, HistoryInv
<1>9. AtMostOneAnswer'
  BY <1>0, <1>2, <1>3 DEF PlaceInv, AtMostOneAnswer
<1>10. NothingDropped'
  <2>1. \A i \in enqueued : handled'[i] = 0 => i # id /\ handled[i] = 0
    BY <1>3, Typing
  <2>2. \A v \in Workers : wpc[v] = "busy" /\ wreq[v] # id => wpc'[v] = "busy"
    BY <1>3 DEF id
  <2>. QED
    BY <1>0, <1>2, <2>1, <2>2 DEF PlaceInv, NothingDropped
<1>. QED
  BY <1>5, <1>6, <1>7, <1>8, <1>9, <1>10 DEF PlaceInv

(* send(): the response is dropped, or posted as one functor.               *)
LEMMA PlacesSends ==
  ASSUME ServerInv, NEW w \in Workers, SendChecks(w) \/ SendPosts(w)
  PROVE  PlaceInv'
<1>0. PlaceInv /\ TypeOK
  BY DEF ServerInv
<1>. DEFINE id == wreq[w]
            f == [op |-> "reply", conn |-> reqs[id], id |-> id]
<1>1. /\ wpc[w] \in {"reply", "posting"}
      /\ UNCHANGED <<queue, wreq, reqs, enqueued, handled, answers>>
      /\ \E pc \in {"posting", "release"} : wpc' = [wpc EXCEPT ![w] = pc]
      /\ ioq' = ioq \/ (wpc' = [wpc EXCEPT ![w] = "release"] /\ ioq' = Append(ioq, f))
  BY DEF SendChecks, SendPosts, Goto, histVars
<1>2. /\ wpc'[w] \in {"posting", "release"}
      /\ \A v \in Workers : v # w => wpc'[v] = wpc[v]
  BY <1>0, <1>1 DEF TypeOK
<1>3. /\ id # NoReq /\ id \in enqueued /\ id \in Ids /\ handled[id] = 1 /\ reqs[id] \in Conns
      /\ \A v \in Workers : wreq[v] = id => v = w
      /\ wreq[w] = id
  BY <1>1, HeldFacts DEF Holding
<1>4. answers[id] = 0 /\ \A i \in 1..Len(ioq) : ioq[i].op = "reply" => ioq[i].id # id
  BY <1>0, <1>1 DEF PlaceInv, ReplyInv
<1>5. f \in Functor /\ f.op = "reply" /\ f.id = id /\ f.conn = reqs[id]
  BY <1>3 DEF Functor
<1>. HIDE DEF id, f
<1>6. QueueInv' /\ HistoryInv' /\ AtMostOneAnswer'
  BY <1>0, <1>1 DEF PlaceInv, QueueInv, HistoryInv, AtMostOneAnswer
<1>7. HoldInv'
  BY <1>0, <1>1, <1>2 DEF PlaceInv, HoldInv, Holding
<1>8. NothingDropped'
  BY <1>0, <1>1, <1>2 DEF PlaceInv, NothingDropped
<1>9. ReplyInv'
  <2>1. CASE ioq' = ioq
    BY <1>0, <1>1, <1>2, <2>1 DEF PlaceInv, ReplyInv
  <2>2. CASE wpc' = [wpc EXCEPT ![w] = "release"] /\ ioq' = Append(ioq, f)
    <3>1. /\ Len(ioq') = Len(ioq) + 1 /\ Len(ioq) \in Nat
          /\ \A i \in 1..Len(ioq) : ioq'[i] = ioq[i]
          /\ ioq'[Len(ioq) + 1] = f
      BY <1>5, <2>2, Typing, AfterAppend
    <3>2. wpc'[w] = "release"
      BY <1>0, <2>2 DEF TypeOK
    <3>3. ASSUME NEW i \in 1..Len(ioq'), ioq'[i].op = "reply"
          PROVE  /\ ioq'[i].id \in enqueued /\ handled[ioq'[i].id] = 1
                 /\ answers[ioq'[i].id] = 0 /\ ioq'[i].conn = reqs[ioq'[i].id]
                 /\ \A j \in 1..Len(ioq') :
                      ioq'[j].op = "reply" /\ ioq'[j].id = ioq'[i].id => j = i
      <4>1. CASE i = Len(ioq) + 1
        BY <1>3, <1>4, <1>5, <3>1, <4>1
      <4>2. CASE i \in 1..Len(ioq)
        BY <1>0, <1>4, <1>5, <3>1, <3>3, <4>2 DEF PlaceInv, ReplyInv
      <4>. QED
        BY <3>1, <4>1, <4>2
    <3>4. ASSUME NEW v \in Workers, wpc'[v] \in {"reply", "posting"}
          PROVE  /\ answers[wreq[v]] = 0
                 /\ \A i \in 1..Len(ioq') : ioq'[i].op = "reply" => ioq'[i].id # wreq[v]
      <4>1. v # w /\ wpc[v] \in {"reply", "posting"} /\ wreq[v] # id
        BY <1>2, <1>3, <3>2, <3>4
      <4>. QED
        BY <1>0, <1>5, <3>1, <4>1 DEF PlaceInv, ReplyInv
    <3>. QED
      BY <1>1, <3>3, <3>4 DEF ReplyInv
  <2>. QED
    BY <1>1, <2>1, <2>2
<1>. QED
  BY <1>6, <1>7, <1>8, <1>9 DEF PlaceInv

(* The worker lets go of a request that was handled.                        *)
LEMMA PlacesReleases ==
  ASSUME ServerInv, NEW w \in Workers, Releases(w)
  PROVE  PlaceInv'
<1>0. PlaceInv /\ TypeOK
  BY DEF ServerInv
<1>1. /\ wpc[w] = "release" /\ wreq' = [wreq EXCEPT ![w] = NoReq]
      /\ wpc' = [wpc EXCEPT ![w] = "awake"]
      /\ UNCHANGED <<queue, ioq, reqs, enqueued, handled, answers>>
  BY DEF Releases, Goto, histVars
<1>2. /\ wpc'[w] = "awake" /\ wreq'[w] = NoReq
      /\ \A v \in Workers : v # w => wpc'[v] = wpc[v] /\ wreq'[v] = wreq[v]
  BY <1>0, <1>1 DEF TypeOK
<1>3. QueueInv' /\ HistoryInv' /\ AtMostOneAnswer'
  BY <1>0, <1>1 DEF PlaceInv, QueueInv, HistoryInv, AtMostOneAnswer
<1>4. HoldInv'
  BY <1>0, <1>1, <1>2 DEF PlaceInv, HoldInv, Holding
<1>5. NothingDropped'
  BY <1>0, <1>1, <1>2 DEF PlaceInv, NothingDropped
<1>6. ReplyInv'
  BY <1>0, <1>1, <1>2 DEF PlaceInv, ReplyInv
<1>. QED
  BY <1>3, <1>4, <1>5, <1>6 DEF PlaceInv

(* Every step leaves every request at one place.                            *)
LEMMA PlacesStep == ServerInv /\ Next => PlaceInv'
<1>. SUFFICES ASSUME ServerInv, Next PROVE PlaceInv'
  OBVIOUS
<1>0. TypeOK /\ ControlInv /\ Workers # {}
  BY ServerAssumption DEF ServerInv
<1>a. ioq \in Seq(Functor) /\ Len(ioq) \in Nat /\ Len(<<>>) = 0
  BY Typing, EmptySeq
<1>1. CASE Controller
  <2>1. UNCHANGED <<wreq, reqs, enqueued, handled, answers>>
    BY <1>1 DEF Controller, StartBegins, StartReturns, StartFailed, StartFailedReturns,
           StopBegins, StopPosts, IoJoined, StopReturns, NotifyWorkers, workVars, histVars
  <2>2. queue' = queue
    <3>1. CASE WorkersJoined
      BY <1>0, <3>1 DEF WorkersJoined, ControlInv
    <3>2. CASE ~WorkersJoined
      BY <1>1, <3>2 DEF Controller, StartBegins, StartReturns, StartFailed,
           StartFailedReturns, StopBegins, StopPosts, IoJoined, StopReturns, NotifyWorkers,
           workVars
    <3>. QED
      BY <3>1, <3>2
  <2>3. \A w \in Workers : \/ wpc'[w] = wpc[w]
                           \/ wpc[w] \notin Holding /\ wpc'[w] \notin Holding
    <3>1. \/ wpc' = wpc
          \/ /\ \A w \in Workers : wpc[w] = "off"
             /\ wpc' = [w \in Workers |-> "awake"]
          \/ wpc' = [w \in Workers |-> IF wpc[w] = "asleep" THEN "awake" ELSE wpc[w]]
          \/ /\ \A w \in Workers : wpc[w] = "exited"
             /\ wpc' = [w \in Workers |-> "off"]
      BY <1>0, <1>1 DEF Controller, StartBegins, StartReturns, StartFailed,
           StartFailedReturns, StopBegins, StopPosts, IoJoined, StopReturns, NotifyWorkers,
           WorkersJoined, workVars, ControlInv
    <3>. QED
      BY <3>1 DEF Holding
  <2>4. /\ Len(ioq') \in Nat
        /\ \A i \in 1..Len(ioq') : ioq'[i].op = "reply" =>
             i + 0 \in 1..Len(ioq) /\ ioq'[i] = ioq[i + 0]
    <3>1. CASE StopPosts
      <4>1. [op |-> "stop", conn |-> "none", id |-> NoReq] \in Functor
        BY DEF Functor
      <4>. QED
        BY <1>a, <3>1, <4>1, AfterAppend DEF StopPosts
    <3>2. CASE ~StopPosts
      <4>1. ioq' = ioq
        BY <1>1, <3>2 DEF Controller, StartBegins, StartReturns, StartFailed,
           StartFailedReturns, StopBegins, IoJoined, StopReturns, NotifyWorkers
      <4>. QED
        BY <1>a, <4>1
    <3>. QED
      BY <3>1, <3>2
  <2>. QED
    BY <2>1, <2>2, <2>3, <2>4, PlacesKept
<1>2. CASE IoStarts \/ IoRuns \/ IoEnds
  <2>1. UNCHANGED <<queue, wpc, wreq, reqs, enqueued, handled, answers>>
    BY <1>2 DEF IoStarts, IoRuns, IoEnds, workVars, histVars
  <2>2. ioq' = ioq \/ ioq' = <<>>
    BY <1>2 DEF IoStarts, IoRuns, IoEnds
  <2>3. /\ Len(ioq') \in Nat
        /\ \A i \in 1..Len(ioq') : ioq'[i].op = "reply" =>
             i + 0 \in 1..Len(ioq) /\ ioq'[i] = ioq[i + 0]
    BY <1>a, <2>2
  <2>. QED
    BY <2>1, <2>3, PlacesKept
<1>3. CASE RunFunctor
  <2>1. /\ io = "loop" /\ ioq # <<>> /\ ioq' = Tail(ioq)
        /\ UNCHANGED <<workVars, reqs, enqueued, handled>>
    BY <1>3 DEF RunFunctor
  <2>2. CASE answers' = answers
    <3>1. /\ Len(ioq') \in Nat
          /\ \A i \in 1..Len(ioq') : ioq'[i].op = "reply" =>
               i + 1 \in 1..Len(ioq) /\ ioq'[i] = ioq[i + 1]
      BY <1>a, <2>1, AfterTail
    <3>. QED
      BY <2>1, <2>2, <3>1, PlacesKept DEF workVars
  <2>3. CASE /\ Head(ioq).op = "reply"
             /\ answers' = [answers EXCEPT ![Head(ioq).id] = @ + 1]
    BY <2>1, <2>3, PlacesReply
  <2>. QED
    BY <1>3, <2>2, <2>3 DEF RunFunctor, RunReply, RunRemove, RunStop
<1>4. ASSUME NEW c \in Conns,
             NewConnection(c) \/ PeerCloses(c) \/ RejectFrame(c) \/ UnnamedRequest(c)
      PROVE  PlaceInv'
  <2>1. UNCHANGED <<queue, wpc, wreq, reqs, enqueued, handled, answers>>
    BY <1>4 DEF NewConnection, PeerCloses, RejectFrame, UnnamedRequest, workVars, histVars
  <2>2. ioq' = ioq \/ ioq' = Append(ioq, [op |-> "remove", conn |-> c, id |-> NoReq])
    BY <1>4 DEF NewConnection, PeerCloses, RejectFrame, UnnamedRequest, Close
  <2>3. [op |-> "remove", conn |-> c, id |-> NoReq] \in Functor
    BY DEF Functor
  <2>4. /\ Len(ioq') \in Nat
        /\ \A i \in 1..Len(ioq') : ioq'[i].op = "reply" =>
             i + 0 \in 1..Len(ioq) /\ ioq'[i] = ioq[i + 0]
    BY <1>a, <2>2, <2>3, AfterAppend
  <2>. QED
    BY <2>1, <2>4, PlacesKept
<1>5. ASSUME NEW w \in Workers, Sleeps(w) \/ Exits(w)
      PROVE  PlaceInv'
  <2>1. UNCHANGED <<queue, wreq, ioq, reqs, enqueued, handled, answers>>
    BY <1>5 DEF Sleeps, Exits, histVars
  <2>2. \A v \in Workers : \/ wpc'[v] = wpc[v]
                           \/ wpc[v] \notin Holding /\ wpc'[v] \notin Holding
    BY <1>0, <1>5 DEF Sleeps, Exits, Goto, TypeOK, Holding
  <2>3. /\ Len(ioq') \in Nat
        /\ \A i \in 1..Len(ioq') : ioq'[i].op = "reply" =>
             i + 0 \in 1..Len(ioq) /\ ioq'[i] = ioq[i + 0]
    BY <1>a, <2>1
  <2>. QED
    BY <2>1, <2>2, <2>3, PlacesKept
<1>. QED
  BY <1>1, <1>2, <1>3, <1>4, <1>5, PlacesRequest, PlacesTakes, PlacesHandles, PlacesSends,
     PlacesReleases DEF Next, IoThread, Clients, Worker

-----------------------------------------------------------------------------
(* Both sets of requests counted for a connection are finite.               *)
LEMMA CountsFinite ==
  ASSUME ServerInv, NEW c \in Conns
  PROVE  /\ IsFiniteSet(Waiting(c)) /\ Cardinality(Waiting(c)) \in Nat
         /\ IsFiniteSet(Holders(c)) /\ Cardinality(Holders(c)) \in Nat
         /\ Waiting(c) = {i \in 1..Len(queue) : reqs[queue[i]] = c}
<1>1. Waiting(c) = {i \in 1..Len(queue) : reqs[queue[i]] = c}
  <2>1. DOMAIN queue = 1..Len(queue)
    BY Typing, LenProperties
  <2>. QED
    BY <2>1 DEF Waiting
<1>2. IsFiniteSet(1..Len(queue))
  BY Typing, FS_Interval
<1>3. IsFiniteSet(Waiting(c))
  BY <1>1, <1>2, FS_Subset
<1>4. IsFiniteSet(Holders(c))
  BY ServerAssumption, FS_Subset DEF Holders
<1>. QED
  BY <1>1, <1>3, <1>4, FS_CardinalityType

(* Positions one down: as many of them.                                     *)
LEMMA ShiftedDown ==
  ASSUME NEW S, NEW T, IsFiniteSet(S), S \subseteq Nat, T \subseteq Nat,
         \A i \in T : i + 1 \in S, \A j \in S : j >= 1 /\ j - 1 \in T
  PROVE  Cardinality(T) = Cardinality(S)
<1>. DEFINE g == [j \in S |-> j - 1]
<1>1. g \in Bijection(S, T)
  <2>1. g \in [S -> T]
    OBVIOUS
  <2>2. \A a, b \in S : g[a] = g[b] => a = b
    OBVIOUS
  <2>3. \A t \in T : \E s \in S : g[s] = t
    <3>. SUFFICES ASSUME NEW t \in T PROVE \E s \in S : g[s] = t
      OBVIOUS
    <3>1. t + 1 \in S /\ g[t + 1] = t
      OBVIOUS
    <3>. QED
      BY <3>1
  <2>. HIDE DEF g
  <2>. QED
    BY <2>1, <2>2, <2>3 DEF Bijection, Injection, Surjection, IsInjective
<1>2. ExistsBijection(S, T)
  BY <1>1 DEF ExistsBijection
<1>. QED
  BY <1>2, FS_Bijection

(* Steps that enqueue nothing, take nothing and release nothing.            *)
LEMMA PendingKept ==
  ASSUME ServerInv, UNCHANGED <<pend, queue, wreq>>,
         \A i \in 1..Len(reqs) : reqs'[i] = reqs[i]
  PROVE  PendingExact'
<1>. SUFFICES ASSUME NEW c \in Conns
              PROVE  pend'[c] = Cardinality(Waiting(c)') + Cardinality(Holders(c)')
  BY DEF PendingExact
<1>1. pend[c] = Cardinality(Waiting(c)) + Cardinality(Holders(c))
  BY DEF ServerInv, PendingExact
<1>2. Waiting(c)' = Waiting(c)
  <2>1. \A i \in DOMAIN queue : reqs'[queue[i]] = reqs[queue[i]]
    <3>1. DOMAIN queue = 1..Len(queue)
      BY Typing, LenProperties
    <3>2. \A i \in 1..Len(queue) : queue[i] \in 1..Len(reqs)
      BY Typing DEF Ids
    <3>. QED
      BY <3>1, <3>2
  <2>. QED
    BY <2>1 DEF Waiting
<1>3. Holders(c)' = Holders(c)
  <2>1. \A w \in Workers : wreq[w] # NoReq => reqs'[wreq[w]] = reqs[wreq[w]]
    BY Typing DEF ServerInv, PlaceInv, HoldInv
  <2>. QED
    BY <2>1 DEF Holders
<1>. QED
  BY <1>1, <1>2, <1>3

(* An accepted request is counted where it waits.                           *)
LEMMA PendingRequest ==
  ASSUME ServerInv, NEW c \in Conns, Request(c), PlaceInv'
  PROVE  PendingExact'
<1>0. TypeOK /\ PendingExact
  BY DEF ServerInv
<1>. DEFINE id == Len(reqs) + 1
<1>1. /\ reqs' = Append(reqs, c) /\ wreq' = wreq /\ id \in Ids
      /\ \A i \in 1..Len(reqs) : reqs'[i] = reqs[i]
      /\ reqs'[id] = c
  BY Typing, AfterAppend DEF Request
<1>2. CASE ~(pend[c] < MaxPending /\ QueueAccepts)
  <2>1. UNCHANGED <<pend, queue, wreq>>
    BY <1>2 DEF Request
  <2>. QED
    BY <1>1, <2>1, PendingKept
<1>3. CASE pend[c] < MaxPending /\ QueueAccepts
  <2>1. pend' = [pend EXCEPT ![c] = @ + 1] /\ queue' = Append(queue, id)
    BY <1>3 DEF Request
  <2>. HIDE DEF id
  <2>2. /\ queue' \in Seq(Ids) /\ Len(queue') = Len(queue) + 1 /\ Len(queue) \in Nat
        /\ \A i \in 1..Len(queue) : queue'[i] = queue[i] /\ reqs'[queue[i]] = reqs[queue[i]]
        /\ queue'[Len(queue) + 1] = id
    <3>1. \A i \in 1..Len(queue) : queue[i] \in 1..Len(reqs)
      BY Typing DEF Ids
    <3>. QED
      BY <1>1, <2>1, <3>1, Typing, AfterAppend
  <2>. SUFFICES ASSUME NEW d \in Conns
                PROVE  pend'[d] = Cardinality(Waiting(d)') + Cardinality(Holders(d)')
    BY DEF PendingExact
  <2>3. Holders(d)' = Holders(d)
    <3>1. \A w \in Workers : wreq[w] # NoReq => reqs'[wreq[w]] = reqs[wreq[w]]
      BY <1>1, Typing DEF ServerInv, PlaceInv, HoldInv
    <3>. QED
      BY <1>1, <3>1 DEF Holders
  <2>4. /\ IsFiniteSet(Waiting(d)) /\ Cardinality(Waiting(d)) \in Nat
        /\ Cardinality(Holders(d)) \in Nat
        /\ Waiting(d) = {i \in 1..Len(queue) : reqs[queue[i]] = d}
    BY CountsFinite
  <2>5. Waiting(d)' = {i \in 1..(Len(queue) + 1) : reqs'[queue'[i]] = d}
    <3>1. DOMAIN queue' = 1..(Len(queue) + 1)
      BY <2>2, LenProperties
    <3>. QED
      BY <3>1 DEF Waiting
  <2>a. /\ \A i \in 1..Len(queue) : i \in Waiting(d)' <=> i \in Waiting(d)
        /\ Len(queue) + 1 \in Waiting(d)' <=> d = c
        /\ Len(queue) + 1 \notin 1..Len(queue)
    <3>1. \A i \in 1..Len(queue) : i \in 1..(Len(queue) + 1) /\ reqs'[queue'[i]] = reqs[queue[i]]
      BY <2>2
    <3>2. \A i \in 1..Len(queue) : i \in Waiting(d)' <=> i \in Waiting(d)
      BY <2>4, <2>5, <3>1, Zenon
    <3>3. Len(queue) + 1 \in 1..(Len(queue) + 1) /\ Len(queue) + 1 \notin 1..Len(queue)
      BY <2>2
    <3>a. reqs'[queue'[Len(queue) + 1]] = c
      BY <1>1, <2>2, Zenon
    <3>4. Len(queue) + 1 \in Waiting(d)' <=> d = c
      BY <2>5, <3>3, <3>a, Zenon
    <3>. QED
      BY <3>2, <3>3, <3>4
  <2>b. /\ Waiting(d)' \subseteq 1..Len(queue) \cup {Len(queue) + 1}
        /\ Waiting(d) \subseteq 1..Len(queue)
    BY <2>2, <2>4, <2>5
  <2>6. CASE d = c
    <3>1. Waiting(d)' = Waiting(d) \cup {Len(queue) + 1} /\ Len(queue) + 1 \notin Waiting(d)
      BY <2>6, <2>a, <2>b
    <3>2. Cardinality(Waiting(d)') = Cardinality(Waiting(d)) + 1
      BY <2>4, <3>1, FS_AddElement
    <3>3. pend'[d] = pend[d] + 1 /\ pend[d] = Cardinality(Waiting(d)) + Cardinality(Holders(d))
      BY <1>0, <2>1, <2>6 DEF TypeOK, PendingExact
    <3>. QED
      BY <2>3, <2>4, <3>2, <3>3
  <2>7. CASE d # c
    <3>1. Waiting(d)' = Waiting(d)
      BY <2>7, <2>a, <2>b
    <3>2. pend'[d] = pend[d]
      BY <1>0, <2>1, <2>7 DEF TypeOK
    <3>. QED
      BY <1>0, <2>3, <3>1, <3>2 DEF PendingExact
  <2>. QED
    BY <2>6, <2>7
<1>. QED
  BY <1>2, <1>3

(* A request taken from the queue is counted with the worker instead.       *)
LEMMA PendingTakes ==
  ASSUME ServerInv, NEW w \in Workers, Takes(w)
  PROVE  PendingExact'
<1>0. TypeOK /\ PendingExact
  BY DEF ServerInv
<1>. DEFINE id == Head(queue)
<1>1. /\ wpc[w] = "awake" /\ wreq' = [wreq EXCEPT ![w] = id] /\ queue' = Tail(queue)
      /\ queue # <<>> /\ UNCHANGED <<pend, reqs>>
  BY DEF Takes, histVars
<1>2. /\ queue' \in Seq(Ids) /\ id \in Ids /\ id = queue[1] /\ id # NoReq
      /\ Len(queue) \in Nat /\ Len(queue) >= 1 /\ Len(queue') = Len(queue) - 1
      /\ \A i \in 1..Len(queue') : i + 1 \in 2..Len(queue) /\ queue'[i] = queue[i + 1]
  BY <1>1, Typing, AfterTail
<1>3. wreq[w] = NoReq
  BY <1>1 DEF ServerInv, PlaceInv, HoldInv, Holding
<1>4. wreq'[w] = id /\ \A v \in Workers : v # w => wreq'[v] = wreq[v]
  BY <1>0, <1>1 DEF TypeOK
<1>. HIDE DEF id
<1>. SUFFICES ASSUME NEW d \in Conns
              PROVE  pend'[d] = Cardinality(Waiting(d)') + Cardinality(Holders(d)')
  BY DEF PendingExact
<1>5. /\ IsFiniteSet(Waiting(d)) /\ Cardinality(Waiting(d)) \in Nat
      /\ IsFiniteSet(Holders(d)) /\ Cardinality(Holders(d)) \in Nat
      /\ Waiting(d) = {i \in 1..Len(queue) : reqs[queue[i]] = d}
  BY CountsFinite
<1>6. pend'[d] = Cardinality(Waiting(d)) + Cardinality(Holders(d))
  BY <1>0, <1>1 DEF PendingExact
<1>7. Waiting(d)' = {i \in 1..Len(queue') : reqs[queue'[i]] = d}
  <2>1. DOMAIN queue' = 1..Len(queue')
    BY <1>2, LenProperties
  <2>. QED
    BY <1>1, <2>1 DEF Waiting
<1>8. Cardinality(Waiting(d)') = Cardinality(Waiting(d) \ {1})
  <2>. DEFINE S == Waiting(d) \ {1}
              T == Waiting(d)'
  <2>1. IsFiniteSet(S)
    BY <1>5, FS_RemoveElement
  <2>2. S \subseteq Nat /\ T \subseteq Nat
    BY <1>2, <1>5, <1>7
  <2>3. \A i \in T : i + 1 \in S
    BY <1>2, <1>5, <1>7
  <2>4. \A j \in S : j >= 1 /\ j - 1 \in T
    <3>. SUFFICES ASSUME NEW j \in S PROVE j >= 1 /\ j - 1 \in T
      OBVIOUS
    <3>1. j \in 2..Len(queue) /\ reqs[queue[j]] = d
      BY <1>2, <1>5
    <3>2. j - 1 \in 1..Len(queue') /\ (j - 1) + 1 = j
      BY <1>2, <3>1
    <3>. QED
      BY <1>2, <1>7, <3>1, <3>2
  <2>. HIDE DEF S, T
  <2>5. Cardinality(T) = Cardinality(S)
    BY <2>1, <2>2, <2>3, <2>4, ShiftedDown
  <2>. QED
    BY <2>5 DEF S, T
<1>9. CASE reqs[id] = d
  <2>1. 1 \in Waiting(d)
    BY <1>2, <1>5, <1>9
  <2>2. Holders(d)' = Holders(d) \cup {w} /\ w \notin Holders(d)
    BY <1>1, <1>2, <1>3, <1>4, <1>9 DEF Holders
  <2>3. /\ Cardinality(Waiting(d)') = Cardinality(Waiting(d)) - 1
        /\ Cardinality(Holders(d)') = Cardinality(Holders(d)) + 1
    <3>1. Cardinality(Waiting(d) \ {1}) = Cardinality(Waiting(d)) - 1
      BY <1>5, <2>1, FS_RemoveElement
    <3>2. Cardinality(Holders(d) \cup {w}) = Cardinality(Holders(d)) + 1
      BY <1>5, <2>2, FS_AddElement
    <3>. QED
      BY <1>8, <2>2, <3>1, <3>2
  <2>. QED
    BY <1>5, <1>6, <2>3
<1>10. CASE reqs[id] # d
  <2>1. 1 \notin Waiting(d)
    BY <1>2, <1>5, <1>10
  <2>2. Holders(d)' = Holders(d)
    BY <1>1, <1>2, <1>3, <1>4, <1>10 DEF Holders
  <2>3. Cardinality(Waiting(d)') = Cardinality(Waiting(d))
    BY <1>5, <1>8, <2>1, FS_RemoveElement
  <2>. QED
    BY <1>5, <1>6, <2>2, <2>3
<1>. QED
  BY <1>9, <1>10

(* fetch_sub(1) takes back what fetch_add(1) counted, never below zero.     *)
LEMMA PendingReleases ==
  ASSUME ServerInv, NEW w \in Workers, Releases(w)
  PROVE  PendingExact' /\ pend' \in [Conns -> Nat]
<1>0. TypeOK /\ PendingExact
  BY DEF ServerInv
<1>. DEFINE c == reqs[wreq[w]]
<1>1. /\ wpc[w] = "release" /\ wreq' = [wreq EXCEPT ![w] = NoReq]
      /\ pend' = [pend EXCEPT ![c] = @ - 1]
      /\ UNCHANGED <<queue, reqs>>
  BY DEF Releases, histVars
<1>2. c \in Conns /\ wreq[w] # NoReq
  BY <1>1, HeldFacts DEF Holding
<1>3. wreq'[w] = NoReq /\ \A v \in Workers : v # w => wreq'[v] = wreq[v]
  BY <1>0, <1>1 DEF TypeOK
<1>4. ASSUME NEW d \in Conns
      PROVE  /\ pend'[d] = Cardinality(Waiting(d)') + Cardinality(Holders(d)')
             /\ pend'[d] \in Nat
  <2>1. /\ Cardinality(Waiting(d)) \in Nat
        /\ IsFiniteSet(Holders(d)) /\ Cardinality(Holders(d)) \in Nat
    BY CountsFinite
  <2>2. pend[d] = Cardinality(Waiting(d)) + Cardinality(Holders(d))
    BY <1>0 DEF PendingExact
  <2>3. Waiting(d)' = Waiting(d)
    BY <1>1 DEF Waiting
  <2>4. Holders(d)' = Holders(d) \ {w} /\ (w \in Holders(d) <=> d = c)
    BY <1>1, <1>2, <1>3 DEF Holders
  <2>. HIDE DEF c
  <2>5. /\ IsFiniteSet(Holders(d)') /\ Cardinality(Holders(d)') \in Nat
        /\ Cardinality(Holders(d)') = IF d = c THEN Cardinality(Holders(d)) - 1
                                                ELSE Cardinality(Holders(d))
    BY <2>1, <2>4, FS_RemoveElement, FS_CardinalityType
  <2>6. pend'[d] = IF d = c THEN pend[d] - 1 ELSE pend[d]
    BY <1>0, <1>1, <1>2 DEF TypeOK
  <2>. QED
    BY <2>1, <2>2, <2>3, <2>5, <2>6
<1>. HIDE DEF c
<1>5. pend' = [d \in Conns |-> pend'[d]]
  BY <1>0, <1>1 DEF TypeOK
<1>. QED
  BY <1>4, <1>5 DEF PendingExact

(* The counter stays exact on every path.                                   *)
LEMMA PendingStep == ServerInv /\ Next => PendingExact'
<1>. SUFFICES ASSUME ServerInv, Next PROVE PendingExact'
  OBVIOUS
<1>0. ControlInv /\ Workers # {} /\ PlaceInv'
  BY ServerAssumption, PlacesStep DEF ServerInv
<1>1. CASE Controller
  <2>1. UNCHANGED <<pend, wreq, reqs>>
    BY <1>1 DEF Controller, StartBegins, StartReturns, StartFailed, StartFailedReturns,
           StopBegins, StopPosts, IoJoined, StopReturns, NotifyWorkers, workVars, histVars
  <2>2. queue' = queue
    <3>1. CASE WorkersJoined
      BY <1>0, <3>1 DEF WorkersJoined, ControlInv
    <3>2. CASE ~WorkersJoined
      BY <1>1, <3>2 DEF Controller, StartBegins, StartReturns, StartFailed,
           StartFailedReturns, StopBegins, StopPosts, IoJoined, StopReturns, NotifyWorkers,
           workVars
    <3>. QED
      BY <3>1, <3>2
  <2>. QED
    BY <2>1, <2>2, PendingKept
<1>2. CASE IoThread
  <2>1. UNCHANGED <<pend, queue, wreq, reqs>>
    BY <1>2 DEF IoThread, IoStarts, IoRuns, RunFunctor, IoEnds, workVars, histVars
  <2>. QED
    BY <2>1, PendingKept
<1>3. ASSUME NEW c \in Conns,
             NewConnection(c) \/ PeerCloses(c) \/ RejectFrame(c) \/ UnnamedRequest(c)
      PROVE  PendingExact'
  <2>1. UNCHANGED <<pend, queue, wreq, reqs>>
    BY <1>3 DEF NewConnection, PeerCloses, RejectFrame, UnnamedRequest, workVars, histVars
  <2>. QED
    BY <2>1, PendingKept
<1>4. ASSUME NEW w \in Workers,
             Sleeps(w) \/ Exits(w) \/ Handles(w) \/ SendChecks(w) \/ SendPosts(w)
      PROVE  PendingExact'
  <2>1. UNCHANGED <<pend, queue, wreq, reqs>>
    BY <1>4 DEF Sleeps, Exits, Handles, SendChecks, SendPosts, histVars
  <2>. QED
    BY <2>1, PendingKept
<1>. QED
  BY <1>0, <1>1, <1>2, <1>3, <1>4, PendingRequest, PendingTakes, PendingReleases
  DEF Next, Clients, Worker

-----------------------------------------------------------------------------
(* Every step keeps the types; the counter's needs PendingExact.            *)
LEMMA TypeStep == ServerInv /\ Next => TypeOK'
<1>. SUFFICES ASSUME ServerInv, Next PROVE TypeOK'
  OBVIOUS
<1>0. TypeOK /\ ControlInv /\ ConnInv
  BY DEF ServerInv
<1>a. ioq \in Seq(Functor) /\ queue \in Seq(Ids) /\ reqs \in Seq(Conns)
  BY Typing
<1>1. CASE Controller
  <2>1. CASE StartBegins
    <3>1. starts' \in 0..MaxStarts
      BY <1>0, <2>1, ServerAssumption DEF StartBegins, TypeOK
    <3>. QED
      BY <1>0, <2>1, <3>1 DEF StartBegins, TypeOK, connVars, histVars
  <2>2. CASE StartReturns \/ StopBegins
    BY <1>0, <2>2 DEF StartReturns, StopBegins, TypeOK, connVars, workVars, histVars
  <2>3. CASE StartFailed \/ IoJoined
    BY <1>0, <2>3 DEF StartFailed, IoJoined, NotifyWorkers, TypeOK, connVars, histVars
  <2>4. CASE StartFailedReturns \/ StopReturns
    <3>1. queue' \in Seq(Ids)
      BY <2>4, EmptySeq DEF StartFailedReturns, StopReturns, WorkersJoined
    <3>. QED
      BY <1>0, <2>4, <3>1 DEF StartFailedReturns, StopReturns, WorkersJoined, TypeOK,
                               connVars, histVars
  <2>5. CASE StopPosts
    <3>1. [op |-> "stop", conn |-> "none", id |-> NoReq] \in Functor
      BY DEF Functor
    <3>2. ioq' \in Seq(Functor)
      BY <1>a, <2>5, <3>1, AfterAppend DEF StopPosts
    <3>. QED
      BY <1>0, <2>5, <3>2 DEF StopPosts, TypeOK, Functor, connVars, workVars, histVars
  <2>. QED
    BY <1>1, <2>1, <2>2, <2>3, <2>4, <2>5 DEF Controller
<1>2. CASE IoStarts \/ IoRuns
  BY <1>0, <1>2 DEF IoStarts, IoRuns, TypeOK, connVars, workVars, histVars
<1>3. CASE RunFunctor
  <2>. DEFINE f == Head(ioq)
  <2>1. /\ f \in Functor /\ ioq' \in Seq(Functor) /\ f = ioq[1] /\ 1 \in 1..Len(ioq)
    BY <1>a, <1>3, AfterTail DEF RunFunctor
  <2>2. f.op = "remove" => f.conn \in Conns
    BY <1>0, <2>1 DEF ConnInv
  <2>3. f.op = "reply" => f.id \in Ids
    BY <2>1, Typing DEF ServerInv, PlaceInv, ReplyInv
  <2>. HIDE DEF f
  <2>4. UNCHANGED <<ctl, running, stopping, starts, stuck, workVars, reqs, enqueued, handled>>
    BY <1>3 DEF RunFunctor
  <2>5. /\ io' \in {"loop", "quitting"}
        /\ answers' \in [Ids -> Nat]
        /\ table' \in SUBSET Conns
        /\ conn' \in [Conns -> {"none", "kConnected", "kDisconnecting", "kDisconnected",
                                "destroyed"}]
    <3>1. io = "loop"
      BY <1>3 DEF RunFunctor
    <3>2. CASE RunReply(f)
      BY <1>0, <2>3, <3>1, <3>2 DEF RunReply, TypeOK
    <3>3. CASE RunRemove(f)
      BY <1>0, <2>2, <3>1, <3>3 DEF RunRemove, Toggle, TypeOK
    <3>4. CASE RunStop(f)
      BY <1>0, <3>4 DEF RunStop, TypeOK
    <3>. QED
      BY <1>3, <3>2, <3>3, <3>4 DEF RunFunctor, f
  <2>. QED
    BY <1>0, <2>1, <2>4, <2>5 DEF TypeOK, Functor, workVars
<1>4. CASE IoEnds
  <2>1. ioq' \in Seq(Functor)
    BY <1>4, EmptySeq DEF IoEnds
  <2>. QED
    BY <1>0, <1>4, <2>1 DEF IoEnds, TypeOK, Functor, connVars, workVars, histVars
<1>5. ASSUME NEW c \in Conns, NewConnection(c) \/ UnnamedRequest(c)
      PROVE  TypeOK'
  BY <1>0, <1>5 DEF NewConnection, UnnamedRequest, Toggle, TypeOK, lifeVars, workVars, histVars
<1>6. ASSUME NEW c \in Conns, PeerCloses(c) \/ RejectFrame(c)
      PROVE  TypeOK'
  <2>1. [op |-> "remove", conn |-> c, id |-> NoReq] \in Functor
    BY DEF Functor
  <2>2. ioq' = Append(ioq, [op |-> "remove", conn |-> c, id |-> NoReq])
    BY <1>6 DEF PeerCloses, RejectFrame, Close
  <2>3. ioq' \in Seq(Functor)
    BY <1>a, <2>1, <2>2, AfterAppend
  <2>. QED
    BY <1>0, <1>6, <2>3 DEF PeerCloses, RejectFrame, Close, TypeOK, Functor, lifeVars,
                            workVars, histVars
<1>7. ASSUME NEW c \in Conns, Request(c)
      PROVE  TypeOK'
  <2>1. reqs' \in Seq(Conns) /\ Len(reqs') <= MaxRequests
    <3>1. reqs' \in Seq(Conns) /\ Len(reqs') = Len(reqs) + 1
      BY <1>7, <1>a, AfterAppend DEF Request
    <3>2. Len(reqs) + 1 <= MaxRequests
      BY <1>7 DEF Request, Ids
    <3>. QED
      BY <3>1, <3>2
  <2>2. UNCHANGED <<lifeVars, connVars, wreq, ioq, handled>>
    BY <1>7 DEF Request
  <2>3. /\ pend' \in [Conns -> Nat] /\ queue' \in Seq(Ids) /\ enqueued' \in SUBSET Ids
        /\ answers' \in [Ids -> Nat]
        /\ wpc' \in [Workers -> {"off", "awake", "asleep", "busy", "reply", "posting",
                                 "release", "exited"}]
    <3>. DEFINE id == Len(reqs) + 1
    <3>1. id \in Ids
      BY <1>7 DEF Request
    <3>2. CASE pend[c] < MaxPending /\ QueueAccepts
      <4>1. /\ pend' = [pend EXCEPT ![c] = @ + 1] /\ queue' = Append(queue, id)
            /\ enqueued' = enqueued \cup {id} /\ NotifyOne /\ answers' = answers
        BY <1>7, <3>2 DEF Request
      <4>2. queue' \in Seq(Ids)
        BY <1>a, <3>1, <4>1, AfterAppend
      <4>3. wpc' \in [Workers -> {"off", "awake", "asleep", "busy", "reply", "posting",
                                  "release", "exited"}]
        BY <1>0, <4>1 DEF TypeOK, NotifyOne
      <4>. HIDE DEF id
      <4>. QED
        BY <1>0, <3>1, <4>1, <4>2, <4>3 DEF TypeOK
    <3>3. CASE ~(pend[c] < MaxPending /\ QueueAccepts)
      <4>1. /\ answers' = [answers EXCEPT ![id] = @ + 1]
            /\ UNCHANGED <<pend, queue, enqueued, wpc>>
        BY <1>7, <3>3 DEF Request
      <4>. QED
        BY <1>0, <3>1, <4>1 DEF TypeOK
    <3>. QED
      BY <3>2, <3>3
  <2>. QED
    BY <1>0, <2>1, <2>2, <2>3 DEF TypeOK, lifeVars, connVars
<1>8. ASSUME NEW w \in Workers, Sleeps(w) \/ Exits(w) \/ SendChecks(w)
      PROVE  TypeOK'
  BY <1>0, <1>8 DEF Sleeps, Exits, SendChecks, Goto, TypeOK, lifeVars, connVars, histVars
<1>9. ASSUME NEW w \in Workers, Takes(w)
      PROVE  TypeOK'
  <2>1. queue' \in Seq(Ids) /\ Head(queue) \in Ids
    BY <1>9, <1>a, AfterTail DEF Takes
  <2>. QED
    BY <1>0, <1>9, <2>1 DEF Takes, Goto, TypeOK, lifeVars, connVars, histVars
<1>10. ASSUME NEW w \in Workers, Handles(w)
       PROVE  TypeOK'
  <2>1. wreq[w] \in Ids
    BY <1>10, HeldFacts DEF Handles, Holding
  <2>. QED
    BY <1>0, <1>10, <2>1 DEF Handles, Goto, TypeOK, lifeVars, connVars
<1>11. ASSUME NEW w \in Workers, SendPosts(w)
       PROVE  TypeOK'
  <2>1. wreq[w] \in Ids /\ reqs[wreq[w]] \in Conns
    BY <1>11, HeldFacts DEF SendPosts, Holding
  <2>2. [op |-> "reply", conn |-> reqs[wreq[w]], id |-> wreq[w]] \in Functor
    BY <2>1 DEF Functor
  <2>3. ioq' \in Seq(Functor)
    BY <1>11, <1>a, <2>2, AfterAppend DEF SendPosts
  <2>. QED
    BY <1>0, <1>11, <2>3 DEF SendPosts, Goto, TypeOK, Functor, lifeVars, connVars, histVars
<1>12. ASSUME NEW w \in Workers, Releases(w)
       PROVE  TypeOK'
  <2>1. pend' \in [Conns -> Nat]
    BY <1>12, PendingReleases
  <2>. QED
    BY <1>0, <1>12, <2>1 DEF Releases, Goto, TypeOK, lifeVars, connVars, histVars
<1>. QED
  BY <1>1, <1>2, <1>3, <1>4, <1>5, <1>6, <1>7, <1>8, <1>9, <1>10, <1>11, <1>12
  DEF Next, IoThread, Clients, Worker

(* A step that changes nothing keeps the invariant.                         *)
LEMMA ServerStutter == ServerInv /\ UNCHANGED vars => ServerInv'
<1>. SUFFICES ASSUME ServerInv, UNCHANGED vars PROVE ServerInv'
  OBVIOUS
<1>. USE DEF vars, lifeVars, connVars, workVars, histVars
<1>1. TypeOK'
  BY DEF ServerInv, TypeOK
<1>2. ControlInv' /\ ConnInv' /\ TableInStep' /\ WorkKeepsWorkerAwake'
  BY DEF ServerInv, ControlInv, ConnInv, TableInStep, WorkKeepsWorkerAwake
<1>3. PlaceInv'
  BY DEF ServerInv, PlaceInv, QueueInv, HoldInv, ReplyInv, HistoryInv, AtMostOneAnswer,
         NothingDropped
<1>4. PendingExact'
  BY PendingKept
<1>. QED
  BY <1>1, <1>2, <1>3, <1>4 DEF ServerInv

(* The inductive invariant holds in every reachable state.                  *)
LEMMA ServerInvariant == Spec => []ServerInv
<1>1. ServerInv /\ Next => ServerInv'
  BY TypeStep, ControlStep, ConnStep, AwakeStep, PlacesStep, PendingStep DEF ServerInv
<1>2. ServerInv /\ [Next]_vars => ServerInv'
  BY <1>1, ServerStutter
<1>. QED
  BY ServerInit, <1>2, PTL DEF Spec

-----------------------------------------------------------------------------
(* Every variable of the server keeps its type; in particular               *)
(* pending_requests never wraps below zero.                                 *)
THEOREM TypeCorrect == Spec => []TypeOK
<1>1. ServerInv => TypeOK
  BY DEF ServerInv
<1>. QED
  BY ServerInvariant, <1>1, PTL

(* pending_requests of a connection is the number of its requests in the    *)
(* queue or in a worker's hands, for any number of workers and connections  *)
(* and any limits.                                                          *)
THEOREM PendingIsExact == Spec => []PendingExact
<1>1. ServerInv => PendingExact
  BY DEF ServerInv
<1>. QED
  BY ServerInvariant, <1>1, PTL

(* onConnection's toggle never gets out of step with the connections.       *)
THEOREM TableStaysInStep == Spec => []TableInStep
<1>1. ServerInv => TableInStep
  BY DEF ServerInv
<1>. QED
  BY ServerInvariant, <1>1, PTL

(* No request is handled or answered twice, or answered before its handler. *)
THEOREM AnswersAreUnique == Spec => []AtMostOneAnswer
<1>1. ServerInv => AtMostOneAnswer
  BY DEF ServerInv, PlaceInv
<1>. QED
  BY ServerInvariant, <1>1, PTL

(* Queued work always has a worker that is awake.                           *)
THEOREM NoWorkAsleep == Spec => []WorkKeepsWorkerAwake
<1>1. ServerInv => WorkKeepsWorkerAwake
  BY DEF ServerInv
<1>. QED
  BY ServerInvariant, <1>1, PTL

(* When start() or stop() has returned with the server down, every request  *)
(* that entered the queue was handled.                                      *)
THEOREM QueueIsDrained == Spec => []StopDrainsQueue
<1>1. ServerInv => StopDrainsQueue
  <2>. SUFFICES ASSUME ServerInv, ctl = "down", NEW i \in enqueued
                PROVE  handled[i] = 1
    BY DEF StopDrainsQueue
  <2>1. queue = <<>> /\ \A w \in Workers : wpc[w] = "off"
    BY DEF ServerInv, ControlInv
  <2>2. handled[i] # 0
    <3>1. Len(queue) = 0
      BY <2>1, EmptySeq
    <3>. QED
      BY <2>1, <3>1 DEF ServerInv, PlaceInv, NothingDropped
  <2>3. i \in Ids /\ handled[i] \in Nat /\ handled[i] <= 1
    BY Typing DEF ServerInv, PlaceInv, AtMostOneAnswer, TypeOK
  <2>. QED
    BY <2>2, <2>3
<1>. QED
  BY ServerInvariant, <1>1, PTL
=============================================================================
