----------------------------- MODULE RpcServer -----------------------------
(***************************************************************************)
(* nexus::rpc::RpcServer (src/rpc/rpc_server.cpp): the controller that     *)
(* starts and stops it, the I/O thread that parses and enqueues requests,  *)
(* and the worker threads that run handlers and post responses back.       *)
(*                                                                         *)
(* A connection is reduced to its state_, a received frame to what         *)
(* onMessage tells apart, a response to the request it answers.  Chunking  *)
(* is FrameParser's subject, wakeups are EventLoop's.                      *)
(***************************************************************************)
EXTENDS Naturals, Sequences, FiniteSets

CONSTANTS
  Workers,     \* worker threads
  Conns,       \* client connections
  MaxPending,  \* kMaxPendingRequestsPerConnection
  MaxQueue,    \* kMaxQueuedRequests
  MaxRequests, \* bound: well-formed requests received
  MaxStarts    \* bound: calls of start() that pass the running_ check

ASSUME ServerAssumption ==
  /\ IsFiniteSet(Workers) /\ Workers # {} /\ IsFiniteSet(Conns)
  /\ {MaxPending, MaxQueue, MaxRequests, MaxStarts} \subseteq Nat

VARIABLES
  ctl,       \* the thread that calls start() and stop()
  running,   \* running_
  stopping,  \* stopping_
  io,        \* the I/O thread and the EventLoop on its stack
  conn,      \* TcpConnection::state_ of each connection
  stuck,     \* connections whose FrameParser cannot leave its current frame
  table,     \* connections_, keyed by connection
  pend,      \* ConnectionState::pending_requests
  queue,     \* work_queue_
  wpc,       \* what each worker is doing
  wreq,      \* the request it holds
  ioq,       \* functors posted to the I/O loop
  starts,    \* history: start() calls so far
  reqs,      \* history: the connection of every well-formed request
  enqueued,  \* history: requests that entered work_queue_
  handled,   \* history: times each request reached its handler
  answers    \* history: responses sendInLoop took for each request

lifeVars == <<ctl, running, stopping, io, starts>>
connVars == <<conn, stuck, table>>
workVars == <<pend, queue, wpc, wreq>>
histVars == <<reqs, enqueued, handled, answers>>
vars == <<lifeVars, connVars, workVars, ioq, histVars>>

Ids == 1..MaxRequests
NoReq == 0
OpenStates == {"kConnected", "kDisconnecting"}

TypeOK ==
  /\ ctl \in {"down", "starting", "failing", "up", "stopFlag", "joinIo",
              "joinWorkers", "failJoin"}
  /\ running \in BOOLEAN /\ stopping \in BOOLEAN
  /\ io \in {"none", "starting", "listening", "loop", "quitting", "ended", "failed"}
  /\ conn \in [Conns -> {"none", "kConnected", "kDisconnecting",
                         "kDisconnected", "destroyed"}]
  /\ stuck \in SUBSET Conns /\ table \in SUBSET Conns
  /\ pend \in [Conns -> Nat]
  /\ queue \in Seq(Ids)
  /\ wpc \in [Workers -> {"off", "awake", "asleep", "busy", "reply", "posting",
                          "release", "exited"}]
  /\ wreq \in [Workers -> Ids \cup {NoReq}]
  /\ ioq \in Seq([op : {"reply", "remove", "stop"},
                  conn : Conns \cup {"none"}, id : Ids \cup {NoReq}])
  /\ starts \in 0..MaxStarts
  /\ reqs \in Seq(Conns) /\ Len(reqs) <= MaxRequests
  /\ enqueued \in SUBSET Ids
  /\ handled \in [Ids -> Nat] /\ answers \in [Ids -> Nat]

Init ==
  /\ ctl = "down" /\ running = FALSE /\ stopping = FALSE /\ io = "none"
  /\ conn = [c \in Conns |-> "none"] /\ stuck = {} /\ table = {}
  /\ pend = [c \in Conns |-> 0] /\ queue = <<>>
  /\ wpc = [w \in Workers |-> "off"] /\ wreq = [w \in Workers |-> NoReq]
  /\ ioq = <<>> /\ starts = 0 /\ reqs = <<>> /\ enqueued = {}
  /\ handled = [i \in Ids |-> 0] /\ answers = [i \in Ids |-> 0]

-----------------------------------------------------------------------------
(* start() and stop().                                                      *)

(* running_.exchange(true), stopping_ = false, startWorkers, io_thread_ *)
StartBegins ==
  /\ ctl = "down" /\ ~running /\ starts < MaxStarts
  /\ running' = TRUE /\ stopping' = FALSE
  /\ wpc' = [w \in Workers |-> "awake"]
  /\ io' = "starting" /\ ctl' = "starting" /\ starts' = starts + 1
  /\ UNCHANGED <<connVars, pend, queue, wreq, ioq, histVars>>

(* I/O thread: the loop exists and tcp_server_ listens, or an exception is  *)
(* reported through the promise                                             *)
IoStarts ==
  /\ io = "starting"
  /\ io' \in {"listening", "failed"}
  /\ UNCHANGED <<ctl, running, stopping, starts, connVars, workVars, ioq, histVars>>

(* startup_future.get(), and io_thread_.join() when startup failed *)
StartReturns ==
  /\ ctl = "starting" /\ io \in {"listening", "loop", "failed"}
  /\ ctl' = IF io = "failed" THEN "failing" ELSE "up"
  /\ UNCHANGED <<running, stopping, io, starts, connVars, workVars, ioq, histVars>>

(* Mutant: notify_all() is forgotten. *)
MutNoNotifyAll(from, to) ==
  /\ ctl = from
  /\ ctl' = to
  /\ stopping' = TRUE
  /\ UNCHANGED <<running, io, starts, connVars, workVars, ioq, histVars>>

(* stopWorkers(): stopping_ under the mutex, notify_all *)
NotifyWorkers(from, to) ==
  /\ ctl = from
  /\ ctl' = to
  /\ stopping' = TRUE
  /\ wpc' = [w \in Workers |-> IF wpc[w] = "asleep" THEN "awake" ELSE wpc[w]]
  /\ UNCHANGED <<running, io, starts, connVars, pend, queue, wreq, ioq, histVars>>

StartFailed == NotifyWorkers("failing", "failJoin")

(* the joins of stopWorkers() have returned; what is left of the queue is   *)
(* thrown away                                                              *)
WorkersJoined ==
  /\ \A w \in Workers : wpc[w] = "exited"
  /\ wpc' = [w \in Workers |-> "off"]
  /\ queue' = <<>>

StartFailedReturns ==
  /\ ctl = "failJoin"
  /\ WorkersJoined
  /\ running' = FALSE /\ ctl' = "down" /\ io' = "none"
  /\ UNCHANGED <<stopping, starts, connVars, pend, wreq, ioq, histVars>>

(* stop(): running_.exchange(false) ... *)
StopBegins ==
  /\ ctl = "up" /\ running
  /\ running' = FALSE /\ ctl' = "stopFlag"
  /\ UNCHANGED <<stopping, io, starts, connVars, workVars, ioq, histVars>>

(* ... stopping_ = true and the functor that stops the TcpServer *)
StopPosts ==
  /\ ctl = "stopFlag"
  /\ stopping' = TRUE
  /\ ioq' = Append(ioq, [op |-> "stop", conn |-> "none", id |-> NoReq])
  /\ ctl' = "joinIo"
  /\ UNCHANGED <<running, io, starts, connVars, workVars, histVars>>

(* io_thread_.join(), then stopWorkers() *)
IoJoined == io = "ended" /\ NotifyWorkers("joinIo", "joinWorkers")

(* stopWorkers() returns; connections_.clear() *)
StopReturns ==
  /\ ctl = "joinWorkers"
  /\ WorkersJoined
  /\ table' = {} /\ ctl' = "down" /\ io' = "none"
  /\ UNCHANGED <<running, stopping, starts, conn, stuck, pend, wreq, ioq, histVars>>

-----------------------------------------------------------------------------
(* The I/O thread.                                                          *)

IoRuns ==
  /\ io = "listening"
  /\ io' = "loop"
  /\ UNCHANGED <<ctl, running, stopping, starts, connVars, workVars, ioq, histVars>>

(* Mutant: the second callback does not erase the entry. *)
MutNoErase(t, c) == t \cup {c}

(* onConnection(): the same callback reports both ends of a connection *)
Toggle(t, c) == IF c \in t THEN t \ {c} ELSE t \cup {c}

NewConnection(c) ==
  /\ io = "loop" /\ conn[c] = "none"
  /\ conn' = [conn EXCEPT ![c] = "kConnected"]
  /\ table' = Toggle(table, c)
  /\ UNCHANGED <<lifeVars, stuck, workVars, ioq, histVars>>

(* handleClose on the I/O thread: removal is deferred to a functor *)
Close(c) ==
  /\ conn' = [conn EXCEPT ![c] = "kDisconnected"]
  /\ ioq' = Append(ioq, [op |-> "remove", conn |-> c, id |-> NoReq])

PeerCloses(c) ==
  /\ io = "loop" /\ conn[c] \in OpenStates
  /\ Close(c)
  /\ UNCHANGED <<lifeVars, stuck, table, workVars, histVars>>

(* onMessage(): no entry, a protocol error, a frame that is not a request,  *)
(* or a parser that still holds a complete frame: forceClose                *)
RejectFrame(c) ==
  /\ io = "loop" /\ conn[c] \in OpenStates
  /\ stuck' = stuck \cup {c}
  /\ Close(c)
  /\ UNCHANGED <<lifeVars, table, workVars, histVars>>

(* onMessage(): no service or method: an error response, then shutdown();   *)
(* the parser is not reset                                                  *)
UnnamedRequest(c) ==
  /\ io = "loop" /\ conn[c] = "kConnected" /\ c \in table /\ c \notin stuck
  /\ stuck' = stuck \cup {c}
  /\ conn' = [conn EXCEPT ![c] = "kDisconnecting"]
  /\ UNCHANGED <<lifeVars, table, workVars, ioq, histVars>>

(* enqueue() under work_queue_mutex_ *)
QueueAccepts == ~stopping /\ Len(queue) < MaxQueue

(* Mutant: notify_one() is forgotten. *)
MutNoNotifyOne == UNCHANGED wpc

(* notify_one() wakes one sleeping worker, if any *)
NotifyOne ==
  \/ \E w \in Workers : wpc[w] = "asleep" /\ wpc' = [wpc EXCEPT ![w] = "awake"]
  \/ (\A w \in Workers : wpc[w] # "asleep") /\ UNCHANGED wpc

(* Mutant: the rejection path does not give its slot back. *)
MutRejectLeaks(c) ==
  LET id == Len(reqs) + 1
  IN  /\ io = "loop" /\ conn[c] = "kConnected" /\ c \in table /\ c \notin stuck
      /\ id \in Ids
      /\ reqs' = Append(reqs, c)
      /\ pend' = [pend EXCEPT ![c] = @ + 1]
      /\ IF pend[c] < MaxPending /\ QueueAccepts
         THEN /\ queue' = Append(queue, id)
              /\ enqueued' = enqueued \cup {id}
              /\ NotifyOne
              /\ UNCHANGED answers
         ELSE /\ answers' = [answers EXCEPT ![id] = @ + 1]
              /\ UNCHANGED <<queue, enqueued, wpc>>
      /\ UNCHANGED <<lifeVars, connVars, wreq, ioq, handled>>

(* onMessage(): a complete request.  Over the limits it is answered at once *)
(* with kResourceExhausted from the I/O thread.                             *)
Request(c) ==
  LET id == Len(reqs) + 1
  IN  /\ io = "loop" /\ conn[c] = "kConnected" /\ c \in table /\ c \notin stuck
      /\ id \in Ids
      /\ reqs' = Append(reqs, c)
      /\ IF pend[c] < MaxPending /\ QueueAccepts
         THEN /\ pend' = [pend EXCEPT ![c] = @ + 1]
              /\ queue' = Append(queue, id)
              /\ enqueued' = enqueued \cup {id}
              /\ NotifyOne
              /\ UNCHANGED answers
         ELSE /\ answers' = [answers EXCEPT ![id] = @ + 1]
              /\ UNCHANGED <<pend, queue, enqueued, wpc>>
      /\ UNCHANGED <<lifeVars, connVars, wreq, ioq, handled>>

(* a posted sendInLoop *)
RunReply(f) ==
  /\ f.op = "reply"
  /\ answers' = IF conn[f.conn] = "kConnected"
                THEN [answers EXCEPT ![f.id] = @ + 1] ELSE answers
  /\ UNCHANGED <<io, conn, table>>

(* removeConnectionInLoop, unless stop() has cleared the server's map *)
RunRemove(f) ==
  /\ f.op = "remove"
  /\ IF conn[f.conn] # "destroyed"
     THEN /\ conn' = [conn EXCEPT ![f.conn] = "destroyed"]
          /\ table' = Toggle(table, f.conn)
     ELSE UNCHANGED <<conn, table>>
  /\ UNCHANGED <<io, answers>>

(* stop()'s functor: connectDestroyed for every connection, then quit() *)
RunStop(f) ==
  LET live == {c \in Conns : conn[c] \notin {"none", "destroyed"}}
  IN  /\ f.op = "stop"
      /\ conn' = [c \in Conns |-> IF c \in live THEN "destroyed" ELSE conn[c]]
      /\ table' = {c \in Conns : (c \in table) # (c \in live)}
      /\ io' = "quitting"
      /\ UNCHANGED answers

RunFunctor ==
  /\ io = "loop" /\ ioq # <<>>
  /\ ioq' = Tail(ioq)
  /\ RunReply(Head(ioq)) \/ RunRemove(Head(ioq)) \/ RunStop(Head(ioq))
  /\ UNCHANGED <<ctl, running, stopping, starts, stuck, workVars, reqs, enqueued,
                 handled>>

(* loop() returns, tcp_server_.reset(), loop_ = nullptr, ~EventLoop: the    *)
(* functors still queued are destroyed.  Those of stop()'s own batch find   *)
(* every connection destroyed and change nothing.                           *)
IoEnds ==
  /\ io = "quitting"
  /\ io' = "ended" /\ ioq' = <<>>
  /\ UNCHANGED <<ctl, running, stopping, starts, connVars, workVars, histVars>>

-----------------------------------------------------------------------------
(* workerLoop().                                                            *)

Goto(w, to) == wpc' = [wpc EXCEPT ![w] = to]

(* work_queue_cv_.wait: the predicate is false *)
Sleeps(w) ==
  /\ wpc[w] = "awake" /\ ~stopping /\ queue = <<>>
  /\ Goto(w, "asleep")
  /\ UNCHANGED <<lifeVars, connVars, pend, queue, wreq, ioq, histVars>>

(* Mutant: a stopping worker leaves without draining the queue. *)
MutExitsAtOnce(w) ==
  /\ wpc[w] = "awake" /\ stopping
  /\ Goto(w, "exited")
  /\ UNCHANGED <<lifeVars, connVars, pend, queue, wreq, ioq, histVars>>

Exits(w) ==
  /\ wpc[w] = "awake" /\ stopping /\ queue = <<>>
  /\ Goto(w, "exited")
  /\ UNCHANGED <<lifeVars, connVars, pend, queue, wreq, ioq, histVars>>

(* Mutant: front() without pop(). *)
MutTakesKeeps(w) ==
  /\ wpc[w] = "awake" /\ queue # <<>>
  /\ wreq' = [wreq EXCEPT ![w] = Head(queue)]
  /\ Goto(w, "busy")
  /\ UNCHANGED <<lifeVars, connVars, pend, queue, ioq, histVars>>

Takes(w) ==
  /\ wpc[w] = "awake" /\ queue # <<>>
  /\ wreq' = [wreq EXCEPT ![w] = Head(queue)]
  /\ queue' = Tail(queue)
  /\ Goto(w, "busy")
  /\ UNCHANGED <<lifeVars, connVars, pend, ioq, histVars>>

(* deadline check, handler lookup, handler: always ends in a response *)
Handles(w) ==
  /\ wpc[w] = "busy"
  /\ handled' = [handled EXCEPT ![wreq[w]] = @ + 1]
  /\ Goto(w, "reply")
  /\ UNCHANGED <<lifeVars, connVars, pend, queue, wreq, ioq, reqs, enqueued,
                 answers>>

(* sendResponse -> TcpConnection::send: the state check ... *)
SendChecks(w) ==
  /\ wpc[w] = "reply"
  /\ Goto(w, IF conn[reqs[wreq[w]]] = "kConnected" THEN "posting" ELSE "release")
  /\ UNCHANGED <<lifeVars, connVars, pend, queue, wreq, ioq, histVars>>

(* ... and the post to the connection's loop.  When the loop is gone the    *)
(* call is undefined; the response is lost in every outcome.                *)
SendPosts(w) ==
  /\ wpc[w] = "posting"
  /\ ioq' = IF io \in {"loop", "quitting"}
            THEN Append(ioq, [op |-> "reply", conn |-> reqs[wreq[w]], id |-> wreq[w]])
            ELSE ioq
  /\ Goto(w, "release")
  /\ UNCHANGED <<lifeVars, connVars, pend, queue, wreq, histVars>>

(* pending_requests.fetch_sub(1) *)
Releases(w) ==
  /\ wpc[w] = "release"
  /\ pend' = [pend EXCEPT ![reqs[wreq[w]]] = @ - 1]
  /\ wreq' = [wreq EXCEPT ![w] = NoReq]
  /\ Goto(w, "awake")
  /\ UNCHANGED <<lifeVars, connVars, queue, ioq, histVars>>

-----------------------------------------------------------------------------
Controller ==
  \/ StartBegins \/ StartReturns \/ StartFailed \/ StartFailedReturns
  \/ StopBegins \/ StopPosts \/ IoJoined \/ StopReturns

IoThread == IoStarts \/ IoRuns \/ RunFunctor \/ IoEnds

Clients ==
  \E c \in Conns : \/ NewConnection(c) \/ PeerCloses(c) \/ RejectFrame(c)
                   \/ UnnamedRequest(c) \/ Request(c)

Worker(w) ==
  \/ Sleeps(w) \/ Exits(w) \/ Takes(w) \/ Handles(w) \/ SendChecks(w)
  \/ SendPosts(w) \/ Releases(w)

Next == Controller \/ IoThread \/ Clients \/ \E w \in Workers : Worker(w)

Spec == Init /\ [][Next]_vars

(* Threads are scheduled and handlers return; the controller finishes the   *)
(* start() or stop() it is in, but need not call either.                    *)
Fairness ==
  /\ WF_vars(StartReturns \/ StartFailed \/ StartFailedReturns \/ StopPosts
             \/ IoJoined \/ StopReturns)
  /\ WF_vars(IoThread)
  /\ \A w \in Workers : WF_vars(Worker(w))

FairSpec == Spec /\ Fairness

-----------------------------------------------------------------------------
Holders(c) == {w \in Workers : wreq[w] # NoReq /\ reqs[wreq[w]] = c}
Waiting(c) == {i \in DOMAIN queue : reqs[queue[i]] = c}

(* The in-flight counter that enforces the per-connection limit is exact:   *)
(* one per request queued or in a worker's hands, on every path including   *)
(* rejection, disconnection and shutdown.  A leak would lock a client out.  *)
PendingExact ==
  \A c \in Conns : pend[c] = Cardinality(Waiting(c)) + Cardinality(Holders(c))

(* onConnection's toggle stays in step with the connections: an entry is    *)
(* there from the first callback to the second.  Out of step, every message *)
(* of a healthy connection would force it closed.                           *)
TableInStep ==
  table = {c \in Conns : conn[c] \notin {"none", "destroyed"}}

(* A request is handled at most once and answered at most once, and the     *)
(* answer of an enqueued request comes after its handler.                   *)
AtMostOneAnswer ==
  \A i \in Ids : /\ answers[i] <= 1 /\ handled[i] <= 1
                 /\ i \in enqueued /\ answers[i] = 1 => handled[i] = 1

(* No lost notification: work is never left to sleeping workers only.       *)
WorkKeepsWorkerAwake ==
  queue # <<>> => \E w \in Workers : wpc[w] \notin {"asleep", "exited", "off"}

(* The workers drain the queue before they exit, so the queue that          *)
(* stopWorkers() throws away is empty: every enqueued request was handled.  *)
StopDrainsQueue ==
  ctl = "down" => \A i \in enqueued : handled[i] = 1

(* An enqueued request is answered, unless its connection does not live     *)
(* that long.                                                               *)
EnqueuedIsAnswered ==
  \A i \in Ids : (i \in enqueued)
    ~> (answers[i] = 1 \/ (i \in DOMAIN reqs /\ conn[reqs[i]] # "kConnected"))

(* stop() returns: no cycle of joins, wakeups and queued functors.  So does *)
(* start(), which stops and joins the workers it started when the I/O       *)
(* thread could not listen.                                                 *)
StopTerminates ==
  /\ (ctl = "stopFlag") ~> (ctl = "down")
  /\ (ctl = "starting") ~> (ctl \in {"up", "down"})
=============================================================================
