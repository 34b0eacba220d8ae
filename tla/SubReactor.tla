----------------------------- MODULE SubReactor -----------------------------
(***************************************************************************)
(* The life of one sub-reactor of nexus::net::TcpServer: start() spawns a  *)
(* thread that keeps an EventLoop on its stack and publishes the pointer   *)
(* through a promise; stop(), on the main loop's thread, calls quit() on   *)
(* the loop and joins the thread.  The loop itself is EventLoop.           *)
(***************************************************************************)
EXTENDS EventLoop

CONSTANT Owner   \* the main loop's thread, which starts and stops

ASSUME OwnerAssumption == Owner \in Threads

VARIABLES
  owner,   \* TcpServer: "new", "starting", "serving", "quitting", "joining", "joined"
  object   \* the EventLoop object: "unborn", "alive", "destroyed"

subVars == <<owner, object>>
allVars == <<vars, owner, object>>

SubTypeOK ==
  /\ TypeOK
  /\ owner \in {"new", "starting", "serving", "quitting", "joining", "joined"}
  /\ object \in {"unborn", "alive", "destroyed"}

SubInit == Init /\ owner = "new" /\ object = "unborn"

(* start(): the std::thread is created; future.get() blocks *)
Spawn ==
  /\ owner = "new"
  /\ owner' = "starting"
  /\ UNCHANGED <<vars, object>>

(* sub thread: EventLoop loop; promise->set_value(&loop) *)
Construct ==
  /\ owner = "starting" /\ object = "unborn"
  /\ object' = "alive"
  /\ UNCHANGED <<vars, owner>>

(* start() goes on once the pointer has arrived *)
Publish ==
  /\ owner = "starting" /\ object = "alive"
  /\ owner' = "serving"
  /\ UNCHANGED <<vars, object>>

(* sub thread: loop.loop() *)
RunLoop == object = "alive" /\ EnterLoop /\ UNCHANGED subVars

SubLoopStep == object = "alive" /\ LoopStep /\ UNCHANGED subVars

(* sub thread: loop() is left by an exception nobody catches *)
SubEpollFails == object = "alive" /\ EpollFails /\ UNCHANGED subVars

(* sub thread: loop() returned, the stack object dies, the thread ends *)
DestroyLoop ==
  /\ object = "alive" /\ pc = "out" /\ loops = 1
  /\ object' = "destroyed"
  /\ UNCHANGED <<vars, owner>>

(* onNewConnection: connectEstablished is posted to the sub loop *)
OwnerPosts ==
  /\ owner = "serving"
  /\ QueueInLoop(Owner)
  /\ UNCHANGED subVars

(* stop(): loop->quit() stores quit_ ... *)
StopQuits ==
  /\ owner = "serving"
  /\ Quit(Owner)
  /\ owner' = "quitting"
  /\ UNCHANGED object

(* ... and writes the eventfd; a post ends with the same wakeup *)
OwnerWakes ==
  /\ Wakeup(Owner)
  /\ owner' = IF owner = "quitting" THEN "joining" ELSE owner
  /\ UNCHANGED object

(* thread->join() *)
Join ==
  /\ owner = "joining" /\ object = "destroyed"
  /\ owner' = "joined"
  /\ UNCHANGED <<vars, object>>

(* The other threads hold connections of this loop and post sends to it.    *)
UserPosts(t) ==
  /\ object = "alive"
  /\ QueueInLoop(t)
  /\ UNCHANGED subVars

UserWakes(t) == Wakeup(t) /\ UNCHANGED subVars

KernelIo == IoArrives /\ UNCHANGED subVars

SubThread == Construct \/ RunLoop \/ SubLoopStep \/ DestroyLoop
OwnerStep == Spawn \/ Publish \/ OwnerPosts \/ StopQuits \/ OwnerWakes \/ Join
Users == Threads \ {Owner}

SubNext ==
  \/ SubThread \/ SubEpollFails \/ OwnerStep
  \/ \E t \in Users : UserPosts(t) \/ UserWakes(t)
  \/ KernelIo

SubSpec == SubInit /\ [][SubNext]_allVars

(* Threads are scheduled: the sub thread runs from its creation to its end, *)
(* the owner finishes start() and stop(), a user finishes its call.  Nobody *)
(* is obliged to call stop().                                               *)
SubFairness ==
  /\ WF_allVars(SubThread)
  /\ WF_allVars(Publish \/ OwnerWakes \/ Join)
  /\ \A t \in Users : WF_allVars(UserWakes(t))

SubFairSpec == SubSpec /\ SubFairness

-----------------------------------------------------------------------------
(* stop() returns when its quit() found the sub thread past the reset of    *)
(* quit_ at the top of loop(), unless an exception ended the loop.          *)
LateStopReturns ==
  (owner \in {"quitting", "joining"} /\ quit /\ pc \notin {"out", "reset"})
    ~> (owner = "joined" \/ pc = "failed")

(* A connection posted by the main loop before stop() is established, or    *)
(* the loop is stopped first: the post survives the start-up of the thread. *)
PostedConnectionEstablished ==
  \A n \in 1..MaxFunctors :
    (Queued(n) /\ posted[n].by = Owner)
      ~> (Done(n) \/ pc = "failed" \/ object = "destroyed" \/ owner # "serving")
=============================================================================
