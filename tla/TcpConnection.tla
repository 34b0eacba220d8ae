--------------------------- MODULE TcpConnection ---------------------------
(***************************************************************************)
(* One server-side nexus::net::TcpConnection from its hand-over by         *)
(* TcpServer::onNewConnection to its removal (src/net/tcp_connection.cpp,  *)
(* channel.cpp, tcp_server.cpp): the state_ machine, the output buffer,    *)
(* the edge-triggered channel, and the public send / shutdown / forceClose *)
(* called by threads that do not own the loop.                             *)
(*                                                                         *)
(* The loop thread is EventLoop's iteration reduced to what a connection   *)
(* sees: wait, dispatch the reported events, swap the functors, run them.  *)
(* The push and the eventfd write of queueInLoop are one step here; the    *)
(* gap between them is EventLoop's subject.                                *)
(***************************************************************************)
EXTENDS Naturals, Sequences

CONSTANTS
  Threads,   \* threads other than the loop thread that hold the connection
  SndCap,    \* capacity of the kernel's send buffer, in bytes
  HighWater, \* high_water_mark_, in bytes; 0 for none
  MsgLens,   \* lengths a message passed to send() can have
  MaxSends,  \* bound: calls of send() that get past the state check
  MaxIn,     \* bound: chunks the peer sends
  MaxOps     \* bound: calls each foreign thread makes

ASSUME ThreadsAssumption == "loop" \notin Threads
ASSUME BoundsAssumption ==
  /\ SndCap \in Nat \ {0} /\ MsgLens \subseteq Nat \ {0}
  /\ HighWater \in Nat /\ MaxSends \in Nat /\ MaxIn \in Nat /\ MaxOps \in Nat

VARIABLES
  state,     \* state_
  out,       \* output_buffer_
  interest,  \* Channel::events_: {} means not registered with epoll
  inMap,     \* TcpServer::connections_ still holds the connection
  lpc,       \* loop thread: "wait", "dispatch" or "functors"
  revents,   \* events reported for the channel and not yet handled, and what is
             \* left of a handler: "complete", "flushed"
  pending,   \* the loop's pending_functors_ for this connection
  batch,     \* the functors being run
  wake,      \* the loop's eventfd is readable
  tpc,       \* what each foreign thread is in the middle of
  ops,       \* calls made by each foreign thread
  \* the kernel's socket and the peer
  sndbuf,    \* bytes written and not yet read by the peer
  wire,      \* bytes the peer has read
  nospace,   \* a write found the send buffer full (SOCK_NOSPACE)
  armed,     \* the channel is on epoll's ready list
  rcv,       \* chunks received and not yet read
  peerFin,   \* the peer closed its sending side
  reset,     \* the connection was reset
  finSent,   \* shutdown(SHUT_WR) was called
  \* history
  accepted,  \* bytes sendInLoop took, in order
  nsent,     \* messages that passed send()'s state check
  nrcvd,     \* chunks the peer ever sent
  delivered, \* chunks handed to message_callback_
  closed,    \* where handleClose first took effect: "no", "io", "functor"
  notified   \* connection_callback_ calls made by connectDestroyed

kernel == <<sndbuf, wire, nospace, armed, rcv, peerFin, reset, finSent>>
loopVars == <<lpc, revents, pending, batch, wake>>
connVars == <<state, out, interest, inMap>>
hist == <<accepted, nsent, nrcvd, delivered, closed, notified>>
vars == <<connVars, loopVars, tpc, ops, kernel, hist>>

States == {"kConnecting", "kConnected", "kDisconnecting", "kDisconnected"}
Byte == [m : Nat, k : Nat]
SimpleFunctor == [op : {"establish", "shutdown", "forceClose", "remove", "complete"}]
SendFunctor == [op : {"send"}, data : Seq(Byte)]

TypeOK ==
  /\ state \in States
  /\ out \in Seq(Byte) /\ sndbuf \in Seq(Byte) /\ wire \in Seq(Byte)
  /\ accepted \in Seq(Byte)
  /\ interest \in SUBSET {"in", "out"}
  /\ lpc \in {"wait", "dispatch", "functors"}
  /\ revents \in SUBSET {"in", "out", "err", "complete", "flushed"}
  /\ pending \in Seq(SimpleFunctor \cup SendFunctor)
  /\ batch \in Seq(SimpleFunctor \cup SendFunctor)
  /\ tpc \in [Threads -> {"idle", "sending", "shutting", "set"}]
  /\ ops \in [Threads -> Nat]
  /\ {inMap, wake, nospace, armed, peerFin, reset, finSent} \subseteq BOOLEAN
  /\ {rcv, nsent, nrcvd, delivered, notified} \subseteq Nat
  /\ closed \in {"no", "io", "functor"}

(* onNewConnection has inserted the connection and posted its first functor *)
Init ==
  /\ state = "kConnecting" /\ out = <<>> /\ interest = {} /\ inMap = TRUE
  /\ lpc = "wait" /\ revents = {} /\ batch = <<>>
  /\ pending = <<[op |-> "establish"]>> /\ wake = TRUE
  /\ tpc = [t \in Threads |-> "idle"] /\ ops = [t \in Threads |-> 0]
  /\ sndbuf = <<>> /\ wire = <<>> /\ nospace = FALSE /\ armed = FALSE
  /\ rcv = 0 /\ peerFin = FALSE /\ reset = FALSE /\ finSent = FALSE
  /\ accepted = <<>> /\ nsent = 0 /\ nrcvd = 0 /\ delivered = 0
  /\ closed = "no" /\ notified = 0

-----------------------------------------------------------------------------
(* Kernel: epoll and the send buffer.                                       *)

Lesser(a, b) == IF a < b THEN a ELSE b
Space == SndCap - Len(sndbuf)
Take(s, n) == SubSeq(s, 1, n)
Drop(s, n) == SubSeq(s, n + 1, Len(s))

(* events the kernel would report for interest set i with `free' bytes left *)
ReadyFor(i, free) ==
  {e \in {"in", "out", "err"} :
     \/ e = "in"  /\ "in" \in i  /\ (rcv > 0 \/ peerFin \/ reset)
     \/ e = "out" /\ "out" \in i /\ (free > 0 \/ reset)
     \/ e = "err" /\ i # {} /\ reset}

(* Mutant: EPOLL_CTL_DEL is forgotten. *)
MutNoDelete(i, free) ==
  IF i = {} THEN UNCHANGED <<interest, armed>>
  ELSE /\ interest' = i
       /\ armed' = (armed \/ ReadyFor(i, free) # {})

(* Channel::update -> EventLoop::updateChannel.  EPOLL_CTL_ADD and MOD put  *)
(* the channel on the ready list when it is ready; DEL takes it off.        *)
UpdateChannel(i, free) ==
  /\ interest' = i
  /\ armed' = (i # {} /\ (armed \/ ReadyFor(i, free) # {}))

-----------------------------------------------------------------------------
(* Member functions on the loop thread.                                     *)

QueueFunctor(f) == pending' = Append(pending, f)

(* Mutant: the close callback is not called. *)
MutCloseSilent(where) ==
  IF state = "kDisconnected"
  THEN UNCHANGED <<state, interest, armed, pending, closed>>
  ELSE /\ state' = "kDisconnected"
       /\ UpdateChannel({}, Space)
       /\ closed' = IF closed = "no" THEN where ELSE closed
       /\ UNCHANGED pending

(* handleClose(): close_callback_ queues removeConnectionInLoop from the    *)
(* loop thread itself, which writes no eventfd.                             *)
HandleClose(where) ==
  IF state = "kDisconnected"
  THEN UNCHANGED <<state, interest, armed, pending, closed>>
  ELSE /\ state' = "kDisconnected"
       /\ UpdateChannel({}, Space)
       /\ QueueFunctor([op |-> "remove"])
       /\ closed' = IF closed = "no" THEN where ELSE closed

(* Mutant: the socket is written although older bytes are still buffered. *)
MutSendOvertakes(data, where) ==
  LET n == IF reset THEN 0 ELSE Lesser(Space, Len(data))
  IN  /\ state = "kConnected"
      /\ sndbuf' = sndbuf \o Take(data, n)
      /\ nospace' = (nospace \/ n < Len(data))
      /\ out' = out \o Drop(data, n)
      /\ accepted' = accepted \o data
      /\ IF n < Len(data) /\ "out" \notin interest
         THEN UpdateChannel(interest \cup {"out"}, Space - n)
         ELSE UNCHANGED <<interest, armed>>
      /\ UNCHANGED <<state, pending, closed>>

(* Mutant: the rest is buffered without enableWriting(). *)
MutSendNoInterest(data, where) ==
  LET n == IF reset \/ out # <<>> THEN 0 ELSE Lesser(Space, Len(data))
  IN  /\ state = "kConnected"
      /\ sndbuf' = sndbuf \o Take(data, n)
      /\ nospace' = (nospace \/ n < Len(data))
      /\ out' = out \o Drop(data, n)
      /\ accepted' = accepted \o data
      /\ UNCHANGED <<interest, armed, state, pending, closed>>

(* high_water_mark_callback_ closes the connection by force.  It runs       *)
(* before the rest is buffered, so enableWriting() then puts the closed     *)
(* channel back into epoll.                                                 *)
HighWaterCloses(where, free) ==
  /\ state' = "kDisconnected"
  /\ QueueFunctor([op |-> "remove"])
  /\ closed' = IF closed = "no" THEN where ELSE closed
  /\ interest' = {"out"} /\ armed' = (ReadyFor({"out"}, free) # {})

(* sendInLoop(data): the socket write, the high-water mark, the buffering   *)
(* and the interest                                                         *)
SendInLoop(data, where) ==
  \/ /\ state # "kConnected"
     /\ UNCHANGED <<state, out, interest, pending, sndbuf, nospace, armed,
                    accepted, closed>>
  \/ /\ state = "kConnected" /\ out = <<>> /\ "out" \notin interest /\ reset
     /\ HandleClose(where)
     /\ UNCHANGED <<out, sndbuf, nospace, accepted>>
  \/ /\ state = "kConnected"
     /\ LET direct == out = <<>> /\ "out" \notin interest
            n == IF direct THEN Lesser(Space, Len(data)) ELSE 0
            crosses == /\ n < Len(data) /\ Len(out) < HighWater
                       /\ Len(out) + Len(data) - n >= HighWater
        IN  /\ direct => ~reset
            /\ sndbuf' = sndbuf \o Take(data, n)
            /\ nospace' = (nospace \/ (direct /\ n < Len(data)))
            /\ out' = out \o Drop(data, n)
            /\ accepted' = accepted \o data
            /\ \/ /\ IF n < Len(data) /\ "out" \notin interest
                     THEN UpdateChannel(interest \cup {"out"}, Space - n)
                     ELSE UNCHANGED <<interest, armed>>
                  /\ UNCHANGED <<state, pending, closed>>
               \/ crosses /\ HighWaterCloses(where, Space - n)

(* Mutant: SHUT_WR does not wait for the output buffer. *)
MutShutdownEager(s) == finSent' = (finSent \/ (s = "kDisconnecting" /\ ~reset))

(* shutdownInLoop(); ENOTCONN after a reset is ignored                      *)
ShutdownEffect(s) == finSent' = (finSent \/ (s = "kDisconnecting" /\ out = <<>> /\ ~reset))

(* connectDestroyed() *)
ConnectDestroyed ==
  /\ state' = "kDisconnected"
  /\ UpdateChannel({}, Space)
  /\ notified' = notified + 1

(* The bytes of the next message accepted by send()'s state check. *)
Message(len) == [k \in 1..len |-> [m |-> nsent + 1, k |-> k]]

(* connection_callback_, message_callback_ or write_complete_callback_:     *)
(* what the application may do with the connection on the loop thread.      *)
Callback(where) ==
  \/ UNCHANGED <<state, out, interest, pending, sndbuf, nospace, armed, finSent,
                 accepted, closed, nsent>>
  \/ /\ state = "kConnected" /\ nsent < MaxSends
     /\ \E len \in MsgLens : SendInLoop(Message(len), where)
     /\ nsent' = nsent + 1
     /\ UNCHANGED finSent
  \/ /\ state = "kConnected"                   \* shutdown()
     /\ state' = "kDisconnecting"
     /\ ShutdownEffect("kDisconnecting")
     /\ UNCHANGED <<out, interest, pending, sndbuf, nospace, armed, accepted,
                    closed, nsent>>
  \/ /\ state \in {"kConnected", "kDisconnecting"}   \* forceClose()
     /\ HandleClose(where)
     /\ UNCHANGED <<out, sndbuf, nospace, finSent, accepted, nsent>>

(* sendInLoop wrote the whole message directly: it ends with the            *)
(* write-complete callback                                                  *)
WrittenAtOnce == accepted' # accepted /\ out = <<>> /\ out' = <<>>

-----------------------------------------------------------------------------
(* The loop thread's steps.                                                 *)

EpollWait ==
  LET reported == IF armed THEN ReadyFor(interest, Space) ELSE {}
  IN  /\ lpc = "wait"
      /\ wake \/ reported # {}
      /\ revents' = reported
      /\ armed' = FALSE /\ wake' = FALSE
      /\ lpc' = "dispatch"
      /\ UNCHANGED <<connVars, pending, batch, tpc, ops, sndbuf, wire, nospace,
                     rcv, peerFin, reset, finSent, hist>>

(* Channel::handleEvent: a reset reports EPOLLHUP and EPOLLERR.  Without    *)
(* EPOLLIN the close callback is all that runs; with it the error callback  *)
(* runs and the event's other callbacks follow.                             *)
HandleError ==
  /\ lpc = "dispatch" /\ "err" \in revents
  /\ revents' = IF "in" \in revents THEN revents \ {"err"} ELSE {}
  /\ HandleClose("io")
  /\ UNCHANGED <<out, inMap, lpc, batch, wake, tpc, ops, sndbuf, wire, nospace,
                 rcv, peerFin, reset, finSent, accepted, nsent, nrcvd,
                 delivered, notified>>

Reading == lpc = "dispatch" /\ {"err", "complete"} \cap revents = {} /\ "in" \in revents

(* handleRead(): readFd returned n > 0 *)
ReadChunk ==
  /\ Reading /\ ~reset /\ rcv > 0
  /\ \E n \in 1..rcv : rcv' = rcv - n /\ delivered' = delivered + n
  /\ Callback("io")
  /\ revents' = (IF WrittenAtOnce THEN revents \cup {"complete"} ELSE revents)
  /\ UNCHANGED <<inMap, lpc, batch, wake, tpc, ops, wire, peerFin,
                 reset, nrcvd, notified>>

(* handleRead(): readFd returned 0 or a real error *)
ReadEnd ==
  /\ Reading /\ (reset \/ (rcv = 0 /\ peerFin))
  /\ revents' = revents \ {"in"}
  /\ HandleClose("io")
  /\ UNCHANGED <<out, inMap, lpc, batch, wake, tpc, ops, sndbuf, wire, nospace,
                 rcv, peerFin, reset, finSent, accepted, nsent, nrcvd,
                 delivered, notified>>

(* handleRead(): EAGAIN *)
ReadAgain ==
  /\ Reading /\ ~reset /\ rcv = 0 /\ ~peerFin
  /\ revents' = revents \ {"in"}
  /\ UNCHANGED <<connVars, lpc, pending, batch, wake, tpc, ops, kernel, hist>>

Writing == lpc = "dispatch" /\ revents = {"out"}

(* handleWrite(): kDisconnected, or EAGAIN, ends the handler *)
WriteStops ==
  /\ Writing
  /\ \/ state = "kDisconnected" /\ UNCHANGED nospace
     \/ state # "kDisconnected" /\ out # <<>> /\ ~reset /\ Space = 0 /\ nospace' = TRUE
  /\ revents' = {}
  /\ UNCHANGED <<connVars, lpc, pending, batch, wake, tpc, ops, sndbuf, wire,
                 armed, rcv, peerFin, reset, finSent, hist>>

(* handleWrite(): one ::write that takes bytes *)
WriteSome ==
  /\ Writing /\ state # "kDisconnected" /\ out # <<>> /\ ~reset /\ Space > 0
  /\ LET n == Lesser(Space, Len(out))
     IN  /\ sndbuf' = sndbuf \o Take(out, n)
         /\ out' = Drop(out, n)
         /\ nospace' = (nospace \/ n < Len(out))
  /\ UNCHANGED <<state, interest, inMap, loopVars, tpc, ops, wire, armed, rcv,
                 peerFin, reset, finSent, hist>>

(* handleWrite(): ::write fails *)
WriteFails ==
  /\ Writing /\ state # "kDisconnected" /\ out # <<>> /\ reset
  /\ revents' = {}
  /\ HandleClose("io")
  /\ UNCHANGED <<out, inMap, lpc, batch, wake, tpc, ops, sndbuf, wire, nospace,
                 rcv, peerFin, reset, finSent, accepted, nsent, nrcvd,
                 delivered, notified>>

(* handleWrite(): the buffer is empty.  disableWriting, write-complete, and *)
(* the shutdown that was waiting for the flush.                             *)
WriteDone ==
  /\ Writing /\ state # "kDisconnected" /\ out = <<>>
  /\ revents' = {"complete", "flushed"}
  /\ UpdateChannel(interest \ {"out"}, Space)
  /\ UNCHANGED <<state, out, inMap, lpc, pending, batch, wake, tpc, ops, sndbuf,
                 wire, nospace, rcv, peerFin, reset, finSent, hist>>

WriteComplete ==
  /\ lpc = "dispatch" /\ "complete" \in revents
  /\ Callback("io")
  /\ revents' = (IF WrittenAtOnce THEN revents ELSE revents \ {"complete"})
  /\ UNCHANGED <<inMap, lpc, batch, wake, tpc, ops, wire, rcv, peerFin, reset,
                 nrcvd, delivered, notified>>

(* Mutant: the flush does not finish a pending shutdown. *)
MutFlushForgetsShutdown ==
  /\ lpc = "dispatch" /\ revents = {"flushed"}
  /\ revents' = {}
  /\ UNCHANGED <<connVars, lpc, pending, batch, wake, tpc, ops, kernel, hist>>

FlushShutdown ==
  /\ lpc = "dispatch" /\ revents = {"flushed"}
  /\ revents' = {}
  /\ ShutdownEffect(state)
  /\ UNCHANGED <<connVars, lpc, pending, batch, wake, tpc, ops, sndbuf, wire,
                 nospace, armed, rcv, peerFin, reset, hist>>

SwapFunctors ==
  /\ lpc = "dispatch" /\ revents = {}
  /\ batch' = pending /\ pending' = <<>>
  /\ lpc' = "functors"
  /\ UNCHANGED <<connVars, revents, wake, tpc, ops, kernel, hist>>

(* Each functor of the batch; the head has been taken off by RunFunctor.    *)
RunEstablish ==
  /\ Head(batch).op = "establish"
  /\ state' = "kConnected"
  /\ UpdateChannel({"in"}, Space)
  /\ UNCHANGED <<out, inMap, pending, sndbuf, nospace, finSent, accepted, closed,
                 notified, nsent>>

RunSend ==
  /\ Head(batch).op = "send"
  /\ SendInLoop(Head(batch).data, "functor")
  /\ UNCHANGED <<inMap, finSent, notified, nsent>>

(* the application's callback at the end of the connectEstablished or the   *)
(* sendInLoop that was just run                                             *)
RunComplete ==
  /\ Head(batch).op = "complete"
  /\ Callback("functor")
  /\ UNCHANGED <<inMap, notified>>

RunShutdown ==
  /\ Head(batch).op = "shutdown"
  /\ ShutdownEffect(state)
  /\ UNCHANGED <<connVars, pending, sndbuf, nospace, armed, accepted, closed,
                 notified, nsent>>

RunForceClose ==
  /\ Head(batch).op = "forceClose"
  /\ IF state \in {"kConnected", "kDisconnecting"}
     THEN HandleClose("functor")
     ELSE UNCHANGED <<state, interest, armed, pending, closed>>
  /\ UNCHANGED <<out, inMap, sndbuf, nospace, finSent, accepted, notified,
                 nsent>>

(* Mutant: connectDestroyed runs whether or not the map held the connection. *)
MutRemoveUnchecked ==
  /\ Head(batch).op = "remove"
  /\ inMap' = FALSE
  /\ ConnectDestroyed
  /\ UNCHANGED <<out, pending, sndbuf, nospace, finSent, accepted, closed,
                 nsent>>

(* TcpServer::removeConnectionInLoop *)
RunRemove ==
  /\ Head(batch).op = "remove"
  /\ inMap' = FALSE
  /\ IF inMap THEN ConnectDestroyed ELSE UNCHANGED <<state, interest, armed, notified>>
  /\ UNCHANGED <<out, pending, sndbuf, nospace, finSent, accepted, closed,
                 nsent>>

(* The functor just run ends with a callback of the application.            *)
CallsBack == WrittenAtOnce \/ Head(batch).op = "establish"

RunFunctor ==
  /\ lpc = "functors" /\ batch # <<>>
  /\ RunEstablish \/ RunSend \/ RunComplete \/ RunShutdown \/ RunForceClose \/ RunRemove
  /\ batch' = (IF CallsBack THEN <<[op |-> "complete"]>> \o Tail(batch) ELSE Tail(batch))
  /\ UNCHANGED <<lpc, revents, wake, tpc, ops, wire, rcv, peerFin, reset, nrcvd,
                 delivered>>

EndOfBatch ==
  /\ lpc = "functors" /\ batch = <<>>
  /\ lpc' = "wait"
  /\ UNCHANGED <<connVars, revents, pending, batch, wake, tpc, ops, kernel, hist>>

-----------------------------------------------------------------------------
(* Foreign threads: they got the connection from the connection callback.   *)

Begin(t, from) ==
  /\ tpc[t] = "idle" /\ ops[t] < MaxOps
  /\ state # "kConnecting"
  /\ tpc' = [tpc EXCEPT ![t] = from]
  /\ ops' = [ops EXCEPT ![t] = @ + 1]

Post(f) == QueueFunctor(f) /\ wake' = TRUE

(* send(): the state check, then the copy and the post *)
SendCheck(t) ==
  /\ state = "kConnected" /\ nsent < MaxSends
  /\ Begin(t, "sending")
  /\ UNCHANGED <<connVars, loopVars, kernel, hist>>

SendPost(t) ==
  /\ tpc[t] = "sending"
  /\ \E len \in MsgLens : Post([op |-> "send", data |-> Message(len)])
  /\ nsent' = nsent + 1
  /\ tpc' = [tpc EXCEPT ![t] = "idle"]
  /\ UNCHANGED <<connVars, lpc, revents, batch, ops, kernel, accepted, nrcvd,
                 delivered, closed, notified>>

(* shutdown(): the state check, the store, the post *)
ShutdownCheck(t) ==
  /\ state = "kConnected"
  /\ Begin(t, "shutting")
  /\ UNCHANGED <<connVars, loopVars, kernel, hist>>

ShutdownStore(t) ==
  /\ tpc[t] = "shutting"
  /\ state' = "kDisconnecting"
  /\ tpc' = [tpc EXCEPT ![t] = "set"]
  /\ UNCHANGED <<out, interest, inMap, loopVars, ops, kernel, hist>>

ShutdownPost(t) ==
  /\ tpc[t] = "set"
  /\ Post([op |-> "shutdown"])
  /\ tpc' = [tpc EXCEPT ![t] = "idle"]
  /\ UNCHANGED <<connVars, lpc, revents, batch, ops, kernel, hist>>

(* forceClose() *)
ForceClose(t) ==
  /\ Begin(t, "idle")
  /\ Post([op |-> "forceClose"])
  /\ UNCHANGED <<connVars, lpc, revents, batch, kernel, hist>>

-----------------------------------------------------------------------------
(* The peer.                                                                *)

PeerReads ==
  /\ sndbuf # <<>> /\ ~reset
  /\ wire' = Append(wire, Head(sndbuf))
  /\ sndbuf' = Tail(sndbuf)
  /\ armed' = (armed \/ (nospace /\ "out" \in interest))
  /\ nospace' = FALSE
  /\ UNCHANGED <<connVars, loopVars, tpc, ops, rcv, peerFin, reset, finSent, hist>>

PeerSends ==
  /\ nrcvd < MaxIn /\ ~peerFin /\ ~reset
  /\ rcv' = rcv + 1 /\ nrcvd' = nrcvd + 1
  /\ armed' = (interest # {})
  /\ UNCHANGED <<connVars, loopVars, tpc, ops, sndbuf, wire, nospace, peerFin,
                 reset, finSent, accepted, nsent, delivered, closed, notified>>

PeerCloses ==
  /\ ~peerFin /\ ~reset
  /\ peerFin' = TRUE
  /\ armed' = (interest # {})
  /\ UNCHANGED <<connVars, loopVars, tpc, ops, sndbuf, wire, nospace, rcv, reset,
                 finSent, hist>>

PeerResets ==
  /\ ~reset
  /\ reset' = TRUE /\ sndbuf' = <<>>
  /\ armed' = (interest # {})
  /\ UNCHANGED <<connVars, loopVars, tpc, ops, wire, nospace, rcv, peerFin,
                 finSent, hist>>

-----------------------------------------------------------------------------
LoopStep ==
  \/ EpollWait \/ HandleError \/ ReadChunk \/ ReadEnd \/ ReadAgain
  \/ WriteStops \/ WriteSome \/ WriteFails \/ WriteDone
  \/ WriteComplete \/ FlushShutdown
  \/ SwapFunctors \/ RunFunctor \/ EndOfBatch

FinishCall(t) == SendPost(t) \/ ShutdownStore(t) \/ ShutdownPost(t)

ThreadStep(t) ==
  SendCheck(t) \/ ShutdownCheck(t) \/ ForceClose(t) \/ FinishCall(t)

Peer == PeerReads \/ PeerSends \/ PeerCloses \/ PeerResets

Next == LoopStep \/ (\E t \in Threads : ThreadStep(t)) \/ Peer

Spec == Init /\ [][Next]_vars

(* The loop thread is scheduled, a thread finishes the call it began, and   *)
(* the peer keeps reading: a peer that stops reading for ever is allowed to *)
(* stall the flush, since the code has no write timeout.                    *)
Fairness ==
  /\ WF_vars(LoopStep)
  /\ \A t \in Threads : WF_vars(FinishCall(t))
  /\ WF_vars(PeerReads)

FairSpec == Spec /\ Fairness

-----------------------------------------------------------------------------
(* The byte stream: bytes leave in the order sendInLoop took them, none is  *)
(* skipped, repeated or overtaken by the direct write of a later message,   *)
(* although some go straight to the socket and some through the buffer.     *)
StreamIntegrity ==
  IF reset THEN \E n \in 0..Len(accepted) : wire = Take(accepted, n)
           ELSE wire \o sndbuf \o out = accepted

(* SHUT_WR comes after the last accepted byte: the peer never sees the end  *)
(* of the stream before data that sendInLoop had taken.                     *)
FinAfterData == finSent => out = <<>>

(* connectDestroyed notifies the application once, even when the store in   *)
(* shutdown() overwrites kDisconnected and handleClose takes effect twice.  *)
NotifiedOnce == notified <= 1

(* No message reaches the application after its close notification.         *)
NoMessageAfterNotification ==
  [][notified > 0 => delivered' = delivered]_vars

(* Every accepted byte reaches the socket, or the connection is closed.     *)
OutputDrains == (out # <<>>) ~> (out = <<>> \/ closed # "no")

(* A shutdown() that found the connection open ends in SHUT_WR after the    *)
(* flush, or in a close.                                                    *)
ShutdownCompletes ==
  (state = "kDisconnecting") ~> (finSent \/ reset \/ closed # "no")

(* A close that an I/O event brought about ends in the notification and in  *)
(* the removal from TcpServer's map.                                        *)
IoCloseIsRemoved == (closed = "io") ~> (notified = 1 /\ ~inMap)

(* The same for a close that happened inside a functor: forceClose from     *)
(* another thread, or a write error in a posted send.                       *)
FunctorCloseIsRemoved == (closed = "functor") ~> (notified = 1 /\ ~inMap)
=============================================================================
