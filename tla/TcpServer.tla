----------------------------- MODULE TcpServer -----------------------------
(***************************************************************************)
(* nexus::net::TcpServer (src/net/tcp_server.cpp): the connection map      *)
(* shared by the main loop and the sub-reactors, the round-robin choice of *)
(* a loop, the deferred removal, and stop().  A connection is reduced to   *)
(* its state_, its user notifications and the shutdown() calls of other    *)
(* threads (TcpConnection has the rest), a loop to its functor queue       *)
(* (EventLoop has the rest).                                               *)
(***************************************************************************)
EXTENDS Naturals, Sequences

CONSTANTS
  Conns,     \* connections that clients may open
  SubLoops,  \* the sub-reactors start() can create, in order
  Callers,   \* the application's threads that may call shutdown()
  Main       \* main_loop_

ASSUME LoopsAssumption ==
  /\ SubLoops \in Seq({SubLoops[i] : i \in DOMAIN SubLoops})
  /\ \A i \in DOMAIN SubLoops : SubLoops[i] # Main

VARIABLES
  num,      \* num_threads_, as setThreadNum left it
  phase,    \* main thread: "serving", "joining" (inside stop()), "stopped"
  nextSub,  \* next_sub_loop_index_
  inMap,    \* connections_
  loopOf,   \* TcpConnection::getLoop()
  removing, \* erased by a removeConnectionInLoop not yet at connectDestroyed
  state,    \* TcpConnection::state_; "none" before accept
  shutting, \* threads between the check and the store of shutdown()
  queue,    \* each loop's functors
  life,     \* each loop: "running", "quit" (quit() called), "dead"
  ups,      \* history: connection_callback_ calls of connectEstablished
  downs     \* history: connection_callback_ calls of connectDestroyed

vars == <<num, phase, nextSub, inMap, loopOf, removing, state, shutting, queue,
          life, ups, downs>>

Subs == {SubLoops[i] : i \in 1..num}     \* sub_loops_
Loops == {SubLoops[i] : i \in DOMAIN SubLoops} \cup {Main}
Functor == [op : {"establish", "remove"}, conn : Conns]

TypeOK ==
  /\ num \in 0..Len(SubLoops)
  /\ phase \in {"serving", "joining", "stopped"}
  /\ nextSub \in Nat
  /\ inMap \in SUBSET Conns
  /\ loopOf \in [Conns -> Loops]
  /\ removing \in SUBSET Conns
  /\ state \in [Conns -> {"none", "kConnecting", "kConnected", "kDisconnecting",
                          "kDisconnected"}]
  /\ shutting \in [Conns -> SUBSET Callers]
  /\ queue \in [Loops -> Seq(Functor)]
  /\ life \in [Loops -> {"running", "quit", "dead"}]
  /\ ups \in [Conns -> Nat] /\ downs \in [Conns -> Nat]

(* setThreadNum() and start() have returned and the acceptor listens *)
Init ==
  /\ num \in 0..Len(SubLoops)
  /\ phase = "serving" /\ nextSub = 0 /\ inMap = {}
  /\ loopOf = [c \in Conns |-> Main]
  /\ removing = {}
  /\ state = [c \in Conns |-> "none"]
  /\ shutting = [c \in Conns |-> {}]
  /\ queue = [l \in Loops |-> <<>>]
  /\ life = [l \in Loops |-> "running"]
  /\ ups = [c \in Conns |-> 0] /\ downs = [c \in Conns |-> 0]

-----------------------------------------------------------------------------
(* getNextSubLoop() *)
NextLoop == IF num = 0 THEN Main ELSE SubLoops[(nextSub % num) + 1]

(* TcpConnection::connectEstablished on the connection's loop *)
Established(c) ==
  /\ state' = [state EXCEPT ![c] = "kConnected"]
  /\ ups' = [ups EXCEPT ![c] = @ + 1]

(* a loop's thread is free to run its callbacks: the main thread outside    *)
(* stop(), which it executes itself, any thread when it is not inside       *)
(* removeConnectionInLoop                                                   *)
Runs(l) ==
  /\ IF l = Main THEN phase # "joining" ELSE life[l] # "dead"
  /\ \A c \in removing : loopOf[c] # l

(* onNewConnection: runInLoop is immediate when the main loop is chosen *)
OnNewConnection(c) ==
  /\ phase = "serving" /\ Runs(Main) /\ state[c] = "none"
  /\ inMap' = inMap \cup {c}
  /\ loopOf' = [loopOf EXCEPT ![c] = NextLoop]
  /\ nextSub' = IF num = 0 THEN nextSub ELSE nextSub + 1
  /\ IF NextLoop = Main
     THEN Established(c) /\ UNCHANGED queue
     ELSE /\ state' = [state EXCEPT ![c] = "kConnecting"]
          /\ queue' = [queue EXCEPT ![NextLoop] =
                         Append(@, [op |-> "establish", conn |-> c])]
          /\ UNCHANGED ups
  /\ UNCHANGED <<num, phase, removing, shutting, life, downs>>

(* TcpConnection::handleClose on the connection's loop, through the close   *)
(* callback that onNewConnection installed                                  *)
HandleClose(c) ==
  /\ state[c] \in {"kConnected", "kDisconnecting"} /\ Runs(loopOf[c])
  /\ state' = [state EXCEPT ![c] = "kDisconnected"]
  /\ queue' = [queue EXCEPT ![loopOf[c]] = Append(@, [op |-> "remove", conn |-> c])]
  /\ UNCHANGED <<num, phase, nextSub, inMap, loopOf, removing, shutting, life, ups, downs>>

(* TcpConnection::shutdown() by any thread: the check of state_ ...         *)
ShutdownChecks(t, c) ==
  /\ state[c] = "kConnected" /\ t \notin shutting[c]
  /\ shutting' = [shutting EXCEPT ![c] = @ \cup {t}]
  /\ UNCHANGED <<num, phase, nextSub, inMap, loopOf, removing, state, queue, life,
                 ups, downs>>

(* ... and the store, which may overwrite the kDisconnected of a            *)
(* handleClose in between: a second one then queues a second removal        *)
ShutdownStores(t, c) ==
  /\ t \in shutting[c]
  /\ shutting' = [shutting EXCEPT ![c] = @ \ {t}]
  /\ state' = [state EXCEPT ![c] = "kDisconnecting"]
  /\ UNCHANGED <<num, phase, nextSub, inMap, loopOf, removing, queue, life, ups, downs>>

RunEstablish(l, c) ==
  /\ Head(queue[l]) = [op |-> "establish", conn |-> c]
  /\ Established(c)
  /\ UNCHANGED <<inMap, removing>>

(* Mutant: connectDestroyed runs whether or not the map held the connection. *)
MutRemoveUnchecked(l, c) ==
  /\ Head(queue[l]) = [op |-> "remove", conn |-> c]
  /\ inMap' = inMap \ {c}
  /\ removing' = removing \cup {c}
  /\ UNCHANGED <<state, ups>>

(* Mutant: only a connection still in the state handleClose stored is told,  *)
(* so one whose state_ a shutdown() has overwritten is erased silently.      *)
MutRemoveSilent(l, c) ==
  /\ Head(queue[l]) = [op |-> "remove", conn |-> c]
  /\ inMap' = inMap \ {c}
  /\ removing' = IF c \in inMap /\ state[c] = "kDisconnected" THEN removing \cup {c}
                 ELSE removing
  /\ UNCHANGED <<state, ups>>

(* removeConnectionInLoop up to the unlock: the entry is erased; a          *)
(* connection that is no longer in the map is left alone                    *)
RunRemove(l, c) ==
  /\ Head(queue[l]) = [op |-> "remove", conn |-> c]
  /\ inMap' = inMap \ {c}
  /\ removing' = IF c \in inMap THEN removing \cup {c} ELSE removing
  /\ UNCHANGED <<state, ups>>

(* the rest of removeConnectionInLoop: connectDestroyed, inline because the *)
(* functor runs on the connection's own loop                                *)
NotifyRemoved(c) ==
  /\ c \in removing
  /\ removing' = removing \ {c}
  /\ state' = [state EXCEPT ![c] = "kDisconnected"]
  /\ downs' = [downs EXCEPT ![c] = @ + 1]
  /\ UNCHANGED <<num, phase, nextSub, inMap, loopOf, shutting, queue, life, ups>>

RunFunctor(l) ==
  /\ Runs(l) /\ queue[l] # <<>>
  /\ queue' = [queue EXCEPT ![l] = Tail(@)]
  /\ \E c \in Conns : RunEstablish(l, c) \/ RunRemove(l, c)
  /\ UNCHANGED <<num, phase, nextSub, loopOf, shutting, life, downs>>

(* stop(): the acceptor is destroyed and every sub-reactor is told to quit *)
StopBegins ==
  /\ phase = "serving" /\ Runs(Main)
  /\ phase' = "joining"
  /\ life' = [l \in Loops |-> IF l \in Subs THEN "quit" ELSE life[l]]
  /\ UNCHANGED <<num, nextSub, inMap, loopOf, removing, state, shutting, queue, ups,
                 downs>>

(* a sub-reactor leaves loop() at the end of an iteration and its thread    *)
(* ends; functors still queued are destroyed with the loop                  *)
SubLoopEnds(l) ==
  /\ life[l] = "quit" /\ Runs(l)
  /\ life' = [life EXCEPT ![l] = "dead"]
  /\ queue' = [queue EXCEPT ![l] = <<>>]
  /\ UNCHANGED <<num, phase, nextSub, inMap, loopOf, removing, state, shutting, ups,
                 downs>>

(* Mutant: the map is cleared and nobody is told. *)
MutStopSilent ==
  /\ phase = "joining" /\ \A l \in Subs : life[l] = "dead"
  /\ phase' = "stopped"
  /\ inMap' = {}
  /\ UNCHANGED <<num, nextSub, loopOf, removing, state, shutting, queue, life, ups,
                 downs>>

(* stop() after the joins: connections of the main loop are destroyed, the  *)
(* map is cleared                                                           *)
StopEnds ==
  LET mine == {c \in inMap : loopOf[c] = Main}
  IN  /\ phase = "joining" /\ \A l \in Subs : life[l] = "dead"
      /\ phase' = "stopped"
      /\ state' = [c \in Conns |-> IF c \in mine THEN "kDisconnected" ELSE state[c]]
      /\ downs' = [c \in Conns |-> IF c \in mine THEN downs[c] + 1 ELSE downs[c]]
      /\ inMap' = {}
      /\ UNCHANGED <<num, nextSub, loopOf, removing, shutting, queue, life, ups>>

Next ==
  \/ \E c \in Conns : OnNewConnection(c) \/ HandleClose(c) \/ NotifyRemoved(c)
  \/ \E c \in Conns, t \in Callers : ShutdownChecks(t, c) \/ ShutdownStores(t, c)
  \/ \E l \in Loops : RunFunctor(l) \/ SubLoopEnds(l)
  \/ StopBegins \/ StopEnds

Spec == Init /\ [][Next]_vars

-----------------------------------------------------------------------------
(* An application pairs the two notifications of a connection (RpcServer    *)
(* toggles an entry): established once, closed at most once and only after, *)
(* although handleClose may queue two removals around a shutdown(), and a   *)
(* removal may be queued when stop() destroys the connection.               *)
NotificationsPaired ==
  \A c \in Conns : ups[c] <= 1 /\ downs[c] <= ups[c]

(* Until stop() has cleared it, connections_ lacks an open connection only  *)
(* while a removeConnectionInLoop is between its unlock and the close       *)
(* notification, and never holds one whose close was notified: an entry     *)
(* goes first, the application is told next, and nobody is forgotten.       *)
MapMatchesNotifications ==
  phase # "stopped" =>
    /\ inMap \cup removing = {c \in Conns : state[c] # "none" /\ downs[c] = 0}
    /\ inMap \cap removing = {}

(* When stop() has returned, the application has been told of the close of  *)
(* every connection of the main loop, whether or not its removal was queued *)
(* (without sub-reactors, as RpcServer runs it: of every connection).       *)
StopNotifiesMainLoop ==
  phase = "stopped" => \A c \in Conns : loopOf[c] = Main => downs[c] = ups[c]
=============================================================================
