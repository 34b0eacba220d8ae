----------------------------- MODULE EventLoop -----------------------------
(***************************************************************************)
(* One nexus::net::EventLoop (src/net/event_loop.cpp): a loop thread that  *)
(* alternates between epoll_wait, the callbacks of the reported events and *)
(* the functors other threads handed over with queueInLoop.                *)
(*                                                                         *)
(* The loop thread and the foreign threads interleave at every access to   *)
(* shared state: queueInLoop pushes under the mutex and writes the eventfd *)
(* afterwards, quit() stores quit_ and writes the eventfd afterwards.      *)
(* User code (channel callbacks and functors) is a nondeterministic choice *)
(* of what such code can do to the loop: nothing, queueInLoop, quit, throw.*)
(***************************************************************************)
EXTENDS Naturals, Sequences

CONSTANTS
  Threads,     \* the threads other than the loop thread that use the loop
  MaxFunctors, \* bound: functors ever queued
  MaxLoops     \* bound: calls of loop() that enter the loop

ASSUME ThreadsAssumption == "io" \notin Threads /\ "functor" \notin Threads
                            /\ "owner" \notin Threads
ASSUME BoundsAssumption == MaxFunctors \in Nat /\ MaxLoops \in Nat

VARIABLES
  pc,        \* where the loop thread is: "out" = not inside loop(),
             \* "failed" = loop() was left by an exception
  looping,   \* looping_
  quit,      \* quit_
  signalled, \* the eventfd counter is above zero
  ready,     \* some channel of the loop has an unreported event
  active,    \* active_events_ still to be dispatched
  pending,   \* pending_functors_
  batch,     \* callbacks: the swapped-out vector, head is the next to run
  tpc,       \* what each foreign thread is in the middle of
  posted,    \* history: every functor in the order of its push
  finished,  \* history: functors taken off a batch, in that order
  abandoned, \* history: those of finished destroyed without being run
  loops      \* history: number of times loop() was entered

vars == <<pc, looping, quit, signalled, ready, active, pending, batch, tpc,
          posted, finished, abandoned, loops>>
history == <<posted, finished, abandoned, loops>>

(* Who pushed a functor: a foreign thread, an I/O callback or a functor on  *)
(* the loop thread, or the loop thread while it is outside loop().          *)
Origins == Threads \cup {"io", "functor", "owner"}
Functor == [id : Nat \ {0}, by : Origins]
PcStates == {"out", "reset", "check", "wait", "dispatch", "functors", "failed"}

TypeOK ==
  /\ pc \in PcStates
  /\ looping \in BOOLEAN
  /\ quit \in BOOLEAN
  /\ signalled \in BOOLEAN
  /\ ready \in BOOLEAN
  /\ active \in SUBSET {"wakeup", "io"}
  /\ pending \in Seq(Functor)
  /\ batch \in Seq(Functor)
  /\ tpc \in [Threads -> {"idle", "pushed", "quitting"}]
  /\ posted \in Seq(Functor)
  /\ finished \in Seq(Functor)
  /\ abandoned \in SUBSET Functor
  /\ loops \in Nat

Init ==
  /\ pc = "out" /\ looping = FALSE /\ quit = FALSE
  /\ signalled = FALSE /\ ready = FALSE /\ active = {}
  /\ pending = <<>> /\ batch = <<>>
  /\ tpc = [t \in Threads |-> "idle"]
  /\ posted = <<>> /\ finished = <<>> /\ abandoned = {} /\ loops = 0

-----------------------------------------------------------------------------
(* Shared helpers.                                                          *)

(* pending_functors_.push_back under mutex_ *)
Push(who) ==
  LET f == [id |-> Len(posted) + 1, by |-> who]
  IN  /\ Len(posted) < MaxFunctors
      /\ pending' = Append(pending, f)
      /\ posted' = Append(posted, f)

(* Mutant: a caller on the loop thread never writes the eventfd. *)
MutLoopThreadSilent == FALSE

(* queueInLoop decides on the wakeup after the push: a caller on the loop   *)
(* thread writes the eventfd only while the loop is not running.            *)
LoopThreadWakes == ~looping

(* The body of a callback that runs on the loop thread inside loop().       *)
CallbackEffect(who) ==
  \/ UNCHANGED <<pending, posted, quit, signalled>>
  \/ /\ Push(who)
     /\ signalled' = (signalled \/ LoopThreadWakes)
     /\ UNCHANGED quit
  \/ /\ quit' = TRUE          \* quit() on the loop thread: no wakeup
     /\ UNCHANGED <<pending, posted, signalled>>

-----------------------------------------------------------------------------
(* The loop thread.                                                         *)

(* loop(): looping_.exchange(true) *)
EnterLoop ==
  /\ pc = "out" /\ loops < MaxLoops
  /\ looping' = TRUE
  /\ loops' = loops + 1
  /\ pc' = "reset"
  /\ UNCHANGED <<quit, signalled, ready, active, pending, batch, tpc, posted,
                 finished, abandoned>>

(* quit_ = false, a separate store *)
ResetQuit ==
  /\ pc = "reset"
  /\ quit' = FALSE
  /\ pc' = "check"
  /\ UNCHANGED <<looping, signalled, ready, active, pending, batch, tpc,
                 history>>

(* while (!quit_): block in epoll_wait, or leave the loop *)
CheckQuit ==
  /\ pc = "check"
  /\ IF quit THEN pc' = "out" /\ looping' = FALSE
             ELSE pc' = "wait" /\ UNCHANGED looping
  /\ UNCHANGED <<quit, signalled, ready, active, pending, batch, tpc, history>>

(* epoll_wait returns: the eventfd is level-triggered, channels are         *)
(* edge-triggered, so their readiness is consumed by being reported.        *)
EpollWait ==
  /\ pc = "wait"
  /\ signalled \/ ready
  /\ active' = (IF signalled THEN {"wakeup"} ELSE {})
                 \cup (IF ready THEN {"io"} ELSE {})
  /\ ready' = FALSE
  /\ pc' = "dispatch"
  /\ UNCHANGED <<looping, quit, signalled, pending, batch, tpc, history>>

(* epoll_wait fails with an errno other than EINTR (which is retried): the  *)
(* exception leaves loop() *)
EpollFails ==
  /\ pc = "wait"
  /\ looping' = FALSE
  /\ pc' = "failed"
  /\ UNCHANGED <<quit, signalled, ready, active, pending, batch, tpc, history>>

(* handleWakeupRead(): read the eventfd until it is empty *)
HandleWakeup ==
  /\ pc = "dispatch" /\ "wakeup" \in active
  /\ active' = active \ {"wakeup"}
  /\ signalled' = FALSE
  /\ UNCHANGED <<pc, looping, quit, ready, pending, batch, tpc, history>>

(* channel->handleEvent() *)
HandleIo ==
  /\ pc = "dispatch" /\ "io" \in active
  /\ active' = active \ {"io"}
  /\ CallbackEffect("io")
  /\ UNCHANGED <<pc, looping, ready, batch, tpc, finished, abandoned, loops>>

(* Mutant: the functors are copied out instead of swapped out. *)
MutSwapCopies ==
  /\ pc = "dispatch" /\ active = {}
  /\ batch' = pending
  /\ pc' = "functors"
  /\ UNCHANGED <<looping, quit, signalled, ready, active, pending, tpc, history>>

(* doPendingFunctors(): callbacks.swap(pending_functors_) under mutex_ *)
SwapFunctors ==
  /\ pc = "dispatch" /\ active = {}
  /\ batch' = pending
  /\ pending' = <<>>
  /\ pc' = "functors"
  /\ UNCHANGED <<looping, quit, signalled, ready, active, tpc, history>>

(* one iteration of the range-for over callbacks *)
RunFunctor ==
  /\ pc = "functors" /\ batch # <<>>
  /\ batch' = Tail(batch)
  /\ finished' = Append(finished, Head(batch))
  /\ CallbackEffect("functor")
  /\ UNCHANGED <<pc, looping, ready, active, tpc, abandoned, loops>>

EndOfBatch ==
  /\ pc = "functors" /\ batch = <<>>
  /\ pc' = "check"
  /\ UNCHANGED <<looping, quit, signalled, ready, active, pending, batch, tpc,
                 history>>

(* catch (...): looping_ = false; throw.  A callback threw: the events not  *)
(* yet dispatched and the rest of the swapped-out vector are dropped.  No   *)
(* caller of loop() survives the exception, so loop() is not entered again. *)
CallbackThrows ==
  /\ \/ pc = "dispatch" /\ "io" \in active
     \/ pc = "functors" /\ batch # <<>>
  /\ looping' = FALSE
  /\ pc' = "failed"
  /\ active' = {}
  /\ batch' = <<>>
  /\ finished' = finished \o batch
  /\ abandoned' = abandoned \cup
                    {batch[i] : i \in {k \in DOMAIN batch : k > 1}}
  /\ UNCHANGED <<quit, signalled, ready, pending, tpc, posted, loops>>

(* queueInLoop called by the loop's own thread while outside loop() *)
OwnerQueuesOutside ==
  /\ pc = "out"
  /\ Push("owner")
  /\ signalled' = (signalled \/ LoopThreadWakes)
  /\ UNCHANGED <<pc, looping, quit, ready, active, batch, tpc, finished,
                 abandoned, loops>>

-----------------------------------------------------------------------------
(* Foreign threads.                                                         *)

(* queueInLoop / runInLoop: the push *)
QueueInLoop(t) ==
  /\ tpc[t] = "idle"
  /\ Push(t)
  /\ tpc' = [tpc EXCEPT ![t] = "pushed"]
  /\ UNCHANGED <<pc, looping, quit, signalled, ready, active, batch, finished,
                 abandoned, loops>>

(* quit(): the store of quit_ *)
Quit(t) ==
  /\ tpc[t] = "idle"
  /\ quit' = TRUE
  /\ tpc' = [tpc EXCEPT ![t] = "quitting"]
  /\ UNCHANGED <<pc, looping, signalled, ready, active, pending, batch, history>>

(* Mutant: only quit() writes the eventfd. *)
MutOnlyQuitWakes(t) ==
  /\ tpc[t] \in {"pushed", "quitting"}
  /\ signalled' = (signalled \/ tpc[t] = "quitting")
  /\ tpc' = [tpc EXCEPT ![t] = "idle"]
  /\ UNCHANGED <<pc, looping, quit, ready, active, pending, batch, history>>

(* Mutant: only queueInLoop writes the eventfd. *)
MutOnlyPostWakes(t) ==
  /\ tpc[t] \in {"pushed", "quitting"}
  /\ signalled' = (signalled \/ tpc[t] = "pushed")
  /\ tpc' = [tpc EXCEPT ![t] = "idle"]
  /\ UNCHANGED <<pc, looping, quit, ready, active, pending, batch, history>>

(* the wakeup() that ends both *)
Wakeup(t) ==
  /\ tpc[t] \in {"pushed", "quitting"}
  /\ signalled' = TRUE
  /\ tpc' = [tpc EXCEPT ![t] = "idle"]
  /\ UNCHANGED <<pc, looping, quit, ready, active, pending, batch, history>>

(* the kernel: a channel of the loop becomes ready *)
IoArrives ==
  /\ ~ready
  /\ ready' = TRUE
  /\ UNCHANGED <<pc, looping, quit, signalled, active, pending, batch, tpc,
                 history>>

-----------------------------------------------------------------------------
LoopStep ==
  \/ ResetQuit \/ CheckQuit \/ EpollWait \/ HandleWakeup \/ HandleIo
  \/ SwapFunctors \/ RunFunctor \/ EndOfBatch \/ CallbackThrows

ThreadStep(t) == QueueInLoop(t) \/ Quit(t) \/ Wakeup(t)

Next ==
  \/ EnterLoop
  \/ OwnerQueuesOutside
  \/ LoopStep
  \/ EpollFails
  \/ \E t \in Threads : ThreadStep(t)
  \/ IoArrives

Spec == Init /\ [][Next]_vars

(* The operating system schedules every runnable thread: the loop thread is *)
(* never stopped inside loop(), a foreign thread finishes a call it began.  *)
(* Nothing obliges a thread to call loop(), queueInLoop or quit, nor the    *)
(* kernel to report I/O or to fail epoll_wait.                              *)
Fairness ==
  /\ WF_vars(LoopStep)
  /\ \A t \in Threads : WF_vars(Wakeup(t))

FairSpec == Spec /\ Fairness

-----------------------------------------------------------------------------
(* Functors are handed over exactly once and in the order of the pushes,    *)
(* across the swap in doPendingFunctors: every functor ever pushed is, in   *)
(* order, done with, in the batch being run, or pending.                    *)
FifoHandOver == finished \o batch \o pending = posted

(* No lost wakeup: while a functor of another thread waits in               *)
(* pending_functors_, the eventfd is readable, its poster has yet to write  *)
(* it, or the loop thread drained it and is on its way to the swap (or an   *)
(* exception ended the loop).                                               *)
ForeignPostWakes ==
  \A i \in DOMAIN pending :
    pending[i].by \in Threads =>
      \/ signalled
      \/ tpc[pending[i].by] = "pushed"
      \/ pc \in {"dispatch", "failed"}

(* No lost quit once the loop runs: a loop thread that blocks in epoll_wait *)
(* although quit_ is set has a wakeup on the way.                           *)
QuitWakes ==
  pc = "wait" /\ quit =>
    signalled \/ \E t \in Threads : tpc[t] = "quitting"

Queued(n) == n <= Len(posted)
Done(n) == n <= Len(finished)

(* A functor queued by another thread, by the owner before loop(), or by an *)
(* I/O callback is executed, unless the loop stops running meanwhile (quit, *)
(* or an exception): the first two write the eventfd, the third is picked   *)
(* up by the doPendingFunctors of its own iteration.                        *)
QueuedFunctorRuns ==
  \A n \in 1..MaxFunctors :
    (Queued(n) /\ posted[n].by # "functor" /\ looping) ~> (Done(n) \/ ~looping)

(* quit() of another thread on a loop that has passed its reset of quit_    *)
(* makes loop() return.                                                     *)
QuitReturns ==
  (quit /\ pc \notin {"out", "reset"}) ~> ~looping
=============================================================================
