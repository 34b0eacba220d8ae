-------------------------- MODULE EventLoopProofs --------------------------
(***************************************************************************)
(* Theorems about EventLoop, for any set of foreign threads and any        *)
(* bounds: type correctness, the exactly-once FIFO hand-over of functors,  *)
(* and the absence of lost wakeups for posts and for quit().  SubReactor,  *)
(* the loop with the life of its thread around it, implements EventLoop,   *)
(* so they hold of a sub-reactor of TcpServer too.                         *)
(***************************************************************************)
EXTENDS SubReactor, SequenceTheorems, TLAPS

(* The swapped-out vector of doPendingFunctors is a local of that function: *)
(* outside it there is no batch.  Without it the swap could overwrite       *)
(* functors, so the hand-over is not inductive alone.                       *)
NoBatchOutside == pc # "functors" => batch = <<>>

HandOverInv == TypeOK /\ NoBatchOutside /\ FifoHandOver
WakeInv == TypeOK /\ ForeignPostWakes /\ QuitWakes

-----------------------------------------------------------------------------
(* Facts about sequences that the hand-over rests on.                       *)

(* A push at the back of a queue is a push at the back of what precedes it  *)
(* followed by the queue: pending_functors_.push_back.                      *)
LEMMA AppendOfConcat ==
  ASSUME NEW S, NEW a \in Seq(S), NEW b \in Seq(S), NEW e \in S
  PROVE  a \o Append(b, e) = Append(a \o b, e)
<1>1. <<e>> \in Seq(S)
  OBVIOUS
<1>2. a \o b \in Seq(S)
  BY ConcatProperties
<1>3. Append(b, e) = b \o <<e>> /\ Append(a \o b, e) = (a \o b) \o <<e>>
  BY <1>2, AppendIsConcat
<1>. QED
  BY <1>1, <1>3, ConcatAssociative

(* Taking the head of a queue to the back of another leaves their           *)
(* concatenation alone: one iteration of doPendingFunctors.                 *)
LEMMA MoveHead ==
  ASSUME NEW S, NEW a \in Seq(S), NEW b \in Seq(S), b # <<>>
  PROVE  Append(a, Head(b)) \o Tail(b) = a \o b
<1>1. Head(b) \in S /\ Tail(b) \in Seq(S) /\ <<Head(b)>> \in Seq(S)
  BY HeadTailProperties
<1>2. Append(a, Head(b)) = a \o <<Head(b)>>
  BY <1>1, AppendIsConcat
<1>3. <<Head(b)>> \o Tail(b) = b
  <2>1. <<Head(b)>> \o Tail(b) \in Seq(S)
    BY <1>1, ConcatProperties
  <2>2. Len(<<Head(b)>> \o Tail(b)) = Len(b)
    BY <1>1, ConcatProperties, HeadTailProperties, EmptySeq
  <2>3. \A i \in 1..Len(b) : (<<Head(b)>> \o Tail(b))[i] = b[i]
    BY <1>1, ConcatProperties, HeadTailProperties, EmptySeq
  <2>. QED
    BY <2>1, <2>2, <2>3, SeqEqual
<1>. QED
  BY <1>1, <1>2, <1>3, ConcatAssociative

-----------------------------------------------------------------------------
(* Every state of the model is well typed.                                  *)
LEMMA TypeInit == Init => TypeOK
<1>. SUFFICES ASSUME Init PROVE TypeOK
  OBVIOUS
<1>1. /\ pending \in Seq(Functor) /\ batch \in Seq(Functor)
      /\ posted \in Seq(Functor) /\ finished \in Seq(Functor)
  BY DEF Init
<1>2. tpc \in [Threads -> {"idle", "pushed", "quitting"}] /\ loops \in Nat
  BY DEF Init
<1>3. /\ pc \in PcStates /\ active \in SUBSET {"wakeup", "io"}
      /\ abandoned \in SUBSET Functor
  BY Zenon DEF Init, PcStates
<1>4. /\ looping \in BOOLEAN /\ quit \in BOOLEAN /\ signalled \in BOOLEAN
      /\ ready \in BOOLEAN
  BY Zenon DEF Init
<1>. QED
  BY <1>1, <1>2, <1>3, <1>4, Zenon DEF TypeOK

(* What queueInLoop pushes is a functor.                                    *)
LEMMA PushTypes ==
  ASSUME TypeOK, NEW who \in Origins, Push(who)
  PROVE  /\ pending' \in Seq(Functor) /\ posted' \in Seq(Functor)
         /\ \E f \in Functor : /\ f.by = who
                               /\ pending' = Append(pending, f)
                               /\ posted' = Append(posted, f)
<1>. DEFINE f == [id |-> Len(posted) + 1, by |-> who]
<1>1. f \in Functor /\ f.by = who
  <2>1. Len(posted) \in Nat
    BY LenProperties DEF TypeOK
  <2>. QED
    BY <2>1 DEF Functor
<1>2. pending' = Append(pending, f) /\ posted' = Append(posted, f)
  BY DEF Push
<1>3. pending' \in Seq(Functor) /\ posted' \in Seq(Functor)
  BY <1>1, <1>2, AppendProperties DEF TypeOK
<1>. QED
  BY <1>1, <1>2, <1>3

(* A callback leaves the queues and the flags well typed.                   *)
LEMMA CallbackTypes ==
  ASSUME TypeOK, NEW who \in Origins, CallbackEffect(who)
  PROVE  /\ pending' \in Seq(Functor) /\ posted' \in Seq(Functor)
         /\ quit' \in BOOLEAN /\ signalled' \in BOOLEAN
<1>1. CASE UNCHANGED <<pending, posted, quit, signalled>>
  BY <1>1 DEF TypeOK
<1>2. CASE Push(who) /\ signalled' = (signalled \/ LoopThreadWakes) /\ UNCHANGED quit
  BY <1>2, PushTypes DEF TypeOK
<1>3. CASE quit' = TRUE /\ UNCHANGED <<pending, posted, signalled>>
  BY <1>3 DEF TypeOK
<1>. QED
  BY <1>1, <1>2, <1>3 DEF CallbackEffect

(* Every step keeps the state well typed.                                   *)
LEMMA TypeStep == TypeOK /\ [Next]_vars => TypeOK'
<1>. SUFFICES ASSUME TypeOK, [Next]_vars PROVE TypeOK'
  OBVIOUS
<1>. USE DEF PcStates
<1>0. {"io", "functor", "owner"} \subseteq Origins /\ Threads \subseteq Origins
  BY DEF Origins
<1>1. CASE EnterLoop
  BY <1>1 DEF TypeOK, EnterLoop
<1>2. CASE OwnerQueuesOutside
  <2>1. pending' \in Seq(Functor) /\ posted' \in Seq(Functor)
    BY <1>0, <1>2, PushTypes DEF OwnerQueuesOutside
  <2>. QED
    BY <1>2, <2>1 DEF TypeOK, OwnerQueuesOutside
<1>3. CASE ResetQuit
  BY <1>3 DEF TypeOK, ResetQuit, history
<1>4. CASE CheckQuit
  BY <1>4 DEF TypeOK, CheckQuit, history
<1>5. CASE EpollWait
  BY <1>5 DEF TypeOK, EpollWait, history
<1>6. CASE HandleWakeup
  BY <1>6 DEF TypeOK, HandleWakeup, history
<1>7. CASE HandleIo
  <2>1. /\ pending' \in Seq(Functor) /\ posted' \in Seq(Functor)
        /\ quit' \in BOOLEAN /\ signalled' \in BOOLEAN
    BY <1>0, <1>7, CallbackTypes DEF HandleIo
  <2>. QED
    BY <1>7, <2>1 DEF TypeOK, HandleIo
<1>8. CASE SwapFunctors
  BY <1>8 DEF TypeOK, SwapFunctors, history
<1>9. CASE RunFunctor
  <2>1. /\ pending' \in Seq(Functor) /\ posted' \in Seq(Functor)
        /\ quit' \in BOOLEAN /\ signalled' \in BOOLEAN
    BY <1>0, <1>9, CallbackTypes DEF RunFunctor
  <2>2. Head(batch) \in Functor /\ Tail(batch) \in Seq(Functor)
    BY <1>9, HeadTailProperties DEF TypeOK, RunFunctor
  <2>3. finished' \in Seq(Functor)
    BY <1>9, <2>2, AppendProperties DEF TypeOK, RunFunctor
  <2>. QED
    BY <1>9, <2>1, <2>2, <2>3 DEF TypeOK, RunFunctor
<1>10. CASE EndOfBatch
  BY <1>10 DEF TypeOK, EndOfBatch, history
<1>11. CASE CallbackThrows
  <2>1. finished' \in Seq(Functor)
    BY <1>11, ConcatProperties DEF TypeOK, CallbackThrows
  <2>2. \A i \in DOMAIN batch : batch[i] \in Functor
    BY ElementOfSeq, LenProperties DEF TypeOK
  <2>3. abandoned' \in SUBSET Functor
    BY <1>11, <2>2 DEF TypeOK, CallbackThrows
  <2>4. batch' \in Seq(Functor)
    BY <1>11 DEF CallbackThrows
  <2>5. looping' \in BOOLEAN /\ pc' \in PcStates /\ active' \in SUBSET {"wakeup", "io"}
    BY <1>11, Zenon DEF CallbackThrows
  <2>. QED
    BY <1>11, <2>1, <2>3, <2>4, <2>5, Zenon DEF TypeOK, CallbackThrows
<1>12. ASSUME NEW t \in Threads, QueueInLoop(t) PROVE TypeOK'
  <2>1. pending' \in Seq(Functor) /\ posted' \in Seq(Functor)
    BY <1>0, <1>12, PushTypes DEF QueueInLoop
  <2>. QED
    BY <1>12, <2>1 DEF TypeOK, QueueInLoop
<1>13. ASSUME NEW t \in Threads, Quit(t) PROVE TypeOK'
  BY <1>13 DEF TypeOK, Quit, history
<1>14. ASSUME NEW t \in Threads, Wakeup(t) PROVE TypeOK'
  BY <1>14 DEF TypeOK, Wakeup, history
<1>15. CASE IoArrives
  BY <1>15 DEF TypeOK, IoArrives, history
<1>16. CASE UNCHANGED vars
  BY <1>16 DEF TypeOK, vars
<1>17. CASE EpollFails
  BY <1>17 DEF TypeOK, EpollFails, history
<1>. QED
  BY <1>17, <1>1, <1>2, <1>3, <1>4, <1>5, <1>6, <1>7, <1>8, <1>9, <1>10, <1>11,
     <1>12, <1>13, <1>14, <1>15, <1>16
  DEF Next, LoopStep, ThreadStep

(* The variables of EventLoop keep their types, whatever the threads, the   *)
(* callbacks and the kernel do.                                             *)
THEOREM TypeCorrect == Spec => []TypeOK
  BY TypeInit, TypeStep, PTL DEF Spec

-----------------------------------------------------------------------------
(* The hand-over.                                                           *)

(* One push of queueInLoop extends both sides of the hand-over equation.    *)
LEMMA PushKeepsHandOver ==
  ASSUME TypeOK, FifoHandOver, NEW who \in Origins, Push(who)
  PROVE  (finished \o batch) \o pending' = posted'
<1>1. PICK f \in Functor : pending' = Append(pending, f) /\ posted' = Append(posted, f)
  BY PushTypes
<1>2. finished \o batch \in Seq(Functor) /\ pending \in Seq(Functor)
  BY ConcatProperties DEF TypeOK
<1>. QED
  BY <1>1, <1>2, AppendOfConcat DEF FifoHandOver

(* What a callback does to the queues extends the hand-over equation or     *)
(* leaves it alone.                                                         *)
LEMMA CallbackKeepsHandOver ==
  ASSUME TypeOK, FifoHandOver, NEW who \in Origins, CallbackEffect(who)
  PROVE  (finished \o batch) \o pending' = posted'
<1>1. CASE UNCHANGED <<pending, posted>>
  BY <1>1 DEF FifoHandOver
<1>2. CASE Push(who)
  BY <1>2, PushKeepsHandOver
<1>. QED
  BY <1>1, <1>2 DEF CallbackEffect

(* Every step keeps the hand-over, given that there is no batch outside     *)
(* doPendingFunctors.                                                       *)
LEMMA HandOverStep == HandOverInv /\ [Next]_vars => HandOverInv'
<1>. SUFFICES ASSUME TypeOK, NoBatchOutside, FifoHandOver, [Next]_vars
              PROVE  NoBatchOutside' /\ FifoHandOver'
  BY TypeStep DEF HandOverInv
<1>0. {"io", "functor", "owner"} \subseteq Origins /\ Threads \subseteq Origins
  BY DEF Origins
<1>1. CASE OwnerQueuesOutside
  <2>1. (finished \o batch) \o pending' = posted'
    BY <1>0, <1>1, PushKeepsHandOver DEF OwnerQueuesOutside
  <2>. QED
    BY <1>1, <2>1 DEF OwnerQueuesOutside, NoBatchOutside, FifoHandOver
<1>2. CASE HandleIo
  <2>1. (finished \o batch) \o pending' = posted'
    BY <1>0, <1>2, CallbackKeepsHandOver DEF HandleIo
  <2>. QED
    BY <1>2, <2>1 DEF HandleIo, NoBatchOutside, FifoHandOver
<1>3. CASE SwapFunctors
  <2>1. batch = <<>> /\ batch' = pending /\ pending' = <<>> /\ pc' = "functors"
        /\ finished' = finished /\ posted' = posted
    BY <1>3 DEF SwapFunctors, NoBatchOutside, history
  <2>2. finished \o <<>> = finished
    BY ConcatEmptySeq DEF TypeOK
  <2>3. (finished \o pending) \o <<>> = finished \o pending
    BY ConcatEmptySeq, ConcatProperties DEF TypeOK
  <2>. QED
    BY <2>1, <2>2, <2>3 DEF NoBatchOutside, FifoHandOver
<1>4. CASE RunFunctor
  <2>1. (finished \o batch) \o pending' = posted'
    BY <1>0, <1>4, CallbackKeepsHandOver DEF RunFunctor
  <2>2. finished' \o batch' = finished \o batch
    BY <1>4, MoveHead DEF RunFunctor, TypeOK
  <2>. QED
    BY <1>4, <2>1, <2>2 DEF RunFunctor, NoBatchOutside, FifoHandOver
<1>5. CASE EndOfBatch
  BY <1>5 DEF EndOfBatch, NoBatchOutside, FifoHandOver, history
<1>6. CASE CallbackThrows
  <2>1. (finished \o batch) \o <<>> = finished \o batch
    BY ConcatEmptySeq, ConcatProperties DEF TypeOK
  <2>. QED
    BY <1>6, <2>1 DEF CallbackThrows, NoBatchOutside, FifoHandOver
<1>7. ASSUME NEW t \in Threads, QueueInLoop(t) PROVE NoBatchOutside' /\ FifoHandOver'
  <2>1. (finished \o batch) \o pending' = posted'
    BY <1>0, <1>7, PushKeepsHandOver DEF QueueInLoop
  <2>. QED
    BY <1>7, <2>1 DEF QueueInLoop, NoBatchOutside, FifoHandOver
<1>8. CASE \/ EpollFails \/ EnterLoop \/ ResetQuit \/ CheckQuit \/ EpollWait \/ HandleWakeup
           \/ IoArrives \/ (\E t \in Threads : Quit(t) \/ Wakeup(t))
           \/ UNCHANGED vars
  <2>1. UNCHANGED <<batch, pending, finished, posted>>
    BY <1>8 DEF EpollFails, EnterLoop, ResetQuit, CheckQuit, EpollWait, HandleWakeup, IoArrives,
                Quit, Wakeup, vars, history
  <2>2. pc' = "functors" => pc = "functors"
    BY <1>8 DEF EpollFails, EnterLoop, ResetQuit, CheckQuit, EpollWait, HandleWakeup, IoArrives,
                Quit, Wakeup, vars
  <2>3. pc = "functors" => pc' = "functors"
    BY <1>8 DEF EpollFails, EnterLoop, ResetQuit, CheckQuit, EpollWait, HandleWakeup, IoArrives,
                Quit, Wakeup, vars
  <2>. QED
    BY <2>1, <2>2, <2>3 DEF NoBatchOutside, FifoHandOver
<1>. QED
  BY <1>1, <1>2, <1>3, <1>4, <1>5, <1>6, <1>7, <1>8 DEF Next, LoopStep, ThreadStep

(* Functors handed to queueInLoop by any number of threads are run or       *)
(* dropped exactly once, in the order of their pushes: the swap in          *)
(* doPendingFunctors neither loses, repeats nor reorders one.               *)
THEOREM HandOverCorrect == Spec => []FifoHandOver
<1>1. Init => HandOverInv
  <2>1. <<>> \o <<>> \o <<>> = <<>>
    BY ConcatEmptySeq, EmptySeq
  <2>. QED
    BY <2>1, TypeInit DEF Init, HandOverInv, NoBatchOutside, FifoHandOver
<1>2. HandOverInv => FifoHandOver
  BY DEF HandOverInv
<1>. QED
  BY <1>1, <1>2, HandOverStep, PTL DEF Spec

-----------------------------------------------------------------------------
(* Wakeups.                                                                 *)

(* A functor that the loop thread itself pushes does not concern            *)
(* ForeignPostWakes: a step that only pushes such functors, and neither     *)
(* drains the eventfd nor leaves the dispatch phase, preserves it.          *)
LEMMA LoopThreadPush ==
  ASSUME TypeOK, ForeignPostWakes,
         NEW who \in {"io", "functor", "owner"},
         Push(who) \/ pending' = pending,
         signalled => signalled', tpc' = tpc, pc' = pc
  PROVE  ForeignPostWakes'
<1>1. CASE pending' = pending
  BY <1>1 DEF ForeignPostWakes
<1>2. CASE Push(who)
  <2>1. PICK f \in Functor : f.by = who /\ pending' = Append(pending, f)
    BY <1>2, PushTypes DEF Origins
  <2>2. f.by \notin Threads
    BY <2>1, ThreadsAssumption
  <2>3. /\ DOMAIN pending' = 1..Len(pending) + 1 /\ DOMAIN pending = 1..Len(pending)
        /\ Len(pending) \in Nat
    BY <2>1, AppendProperties, LenProperties DEF TypeOK
  <2>4. /\ \A i \in 1..Len(pending) : pending'[i] = pending[i]
        /\ pending'[Len(pending) + 1] = f
    BY <2>1, AppendProperties DEF TypeOK
  <2>. QED
    BY <2>2, <2>3, <2>4 DEF ForeignPostWakes
<1>. QED
  BY <1>1, <1>2

(* Every step keeps both wakeup properties.                                 *)
LEMMA WakeStep == WakeInv /\ [Next]_vars => WakeInv'
<1>. SUFFICES ASSUME TypeOK, ForeignPostWakes, QuitWakes, [Next]_vars
              PROVE  ForeignPostWakes' /\ QuitWakes'
  BY TypeStep DEF WakeInv
<1>1. CASE EnterLoop
  BY <1>1 DEF EnterLoop, ForeignPostWakes, QuitWakes
<1>2. CASE OwnerQueuesOutside
  <2>1. ForeignPostWakes'
    BY <1>2, LoopThreadPush DEF OwnerQueuesOutside
  <2>. QED
    BY <1>2, <2>1 DEF OwnerQueuesOutside, QuitWakes
<1>3. CASE ResetQuit
  BY <1>3 DEF ResetQuit, ForeignPostWakes, QuitWakes
<1>4. CASE CheckQuit
  BY <1>4 DEF CheckQuit, ForeignPostWakes, QuitWakes
<1>5. CASE EpollWait
  BY <1>5 DEF EpollWait, ForeignPostWakes, QuitWakes
<1>6. CASE HandleWakeup
  BY <1>6 DEF HandleWakeup, ForeignPostWakes, QuitWakes
<1>7. CASE HandleIo
  <2>1. Push("io") \/ pending' = pending
    BY <1>7 DEF HandleIo, CallbackEffect
  <2>2. tpc' = tpc /\ pc' = pc /\ (signalled => signalled')
    <3>1. tpc' = tpc /\ pc' = pc /\ CallbackEffect("io")
      BY <1>7 DEF HandleIo
    <3>2. signalled => signalled'
      BY <3>1, Zenon DEF CallbackEffect
    <3>. QED
      BY <3>1, <3>2
  <2>3. ForeignPostWakes'
    BY <2>1, <2>2, LoopThreadPush
  <2>. QED
    BY <1>7, <2>3 DEF HandleIo, QuitWakes
<1>8. CASE SwapFunctors
  <2>1. pending' = <<>> /\ pc' = "functors"
    BY <1>8 DEF SwapFunctors
  <2>. QED
    BY <2>1 DEF ForeignPostWakes, QuitWakes
<1>9. CASE RunFunctor
  <2>1. Push("functor") \/ pending' = pending
    BY <1>9 DEF RunFunctor, CallbackEffect
  <2>2. tpc' = tpc /\ pc' = pc /\ (signalled => signalled')
    <3>1. tpc' = tpc /\ pc' = pc /\ CallbackEffect("functor")
      BY <1>9 DEF RunFunctor
    <3>2. signalled => signalled'
      BY <3>1, Zenon DEF CallbackEffect
    <3>. QED
      BY <3>1, <3>2
  <2>3. ForeignPostWakes'
    BY <2>1, <2>2, LoopThreadPush
  <2>. QED
    BY <1>9, <2>3 DEF RunFunctor, QuitWakes
<1>10. CASE EndOfBatch
  BY <1>10 DEF EndOfBatch, ForeignPostWakes, QuitWakes
<1>11. CASE CallbackThrows
  BY <1>11 DEF CallbackThrows, ForeignPostWakes, QuitWakes
<1>12. ASSUME NEW t \in Threads, QueueInLoop(t) PROVE ForeignPostWakes' /\ QuitWakes'
  <2>1. PICK f \in Functor : f.by = t /\ pending' = Append(pending, f)
    BY <1>12, PushTypes DEF QueueInLoop, Origins
  <2>2. /\ DOMAIN pending' = 1..Len(pending) + 1 /\ DOMAIN pending = 1..Len(pending)
        /\ Len(pending) \in Nat
    BY <2>1, AppendProperties, LenProperties DEF TypeOK
  <2>3. /\ \A i \in 1..Len(pending) : pending'[i] = pending[i]
        /\ pending'[Len(pending) + 1] = f
    BY <2>1, AppendProperties DEF TypeOK
  <2>4. /\ tpc'[t] = "pushed" /\ tpc[t] = "idle"
        /\ \A u \in Threads : u # t => tpc'[u] = tpc[u]
        /\ pc' = pc /\ quit' = quit /\ signalled' = signalled
    BY <1>12 DEF QueueInLoop, TypeOK
  <2>5. ForeignPostWakes'
    BY <2>1, <2>2, <2>3, <2>4 DEF ForeignPostWakes
  <2>6. QuitWakes'
    BY <2>4 DEF QuitWakes
  <2>. QED
    BY <2>5, <2>6
<1>13. ASSUME NEW t \in Threads, Quit(t) PROVE ForeignPostWakes' /\ QuitWakes'
  <2>1. /\ tpc'[t] = "quitting" /\ tpc[t] = "idle"
        /\ \A u \in Threads : u # t => tpc'[u] = tpc[u]
        /\ pc' = pc /\ signalled' = signalled /\ pending' = pending
    BY <1>13 DEF Quit, TypeOK
  <2>. QED
    BY <2>1 DEF ForeignPostWakes, QuitWakes
<1>14. ASSUME NEW t \in Threads, Wakeup(t) PROVE ForeignPostWakes' /\ QuitWakes'
  BY <1>14 DEF Wakeup, ForeignPostWakes, QuitWakes
<1>15. CASE IoArrives
  BY <1>15 DEF IoArrives, ForeignPostWakes, QuitWakes
<1>16. CASE UNCHANGED vars
  BY <1>16 DEF ForeignPostWakes, QuitWakes, vars
<1>17. CASE EpollFails
  BY <1>17 DEF EpollFails, ForeignPostWakes, QuitWakes
<1>. QED
  BY <1>17, <1>1, <1>2, <1>3, <1>4, <1>5, <1>6, <1>7, <1>8, <1>9, <1>10, <1>11,
     <1>12, <1>13, <1>14, <1>15, <1>16
  DEF Next, LoopStep, ThreadStep

LEMMA WakeInvariant == Spec => []WakeInv
<1>1. Init => WakeInv
  BY TypeInit DEF Init, WakeInv, ForeignPostWakes, QuitWakes
<1>. QED
  BY <1>1, WakeStep, PTL DEF Spec

(* No post is lost: as long as a functor of another thread waits, the       *)
(* eventfd is readable, the poster is about to write it, or the loop thread *)
(* is past the drain and on its way to the swap.                            *)
THEOREM NoLostPost == Spec => []ForeignPostWakes
<1>1. WakeInv => ForeignPostWakes
  BY DEF WakeInv
<1>. QED
  BY <1>1, WakeInvariant, PTL

(* No quit() is lost once the loop runs: it never blocks in epoll_wait with *)
(* quit_ set and no wakeup on the way.                                      *)
THEOREM NoLostQuit == Spec => []QuitWakes
<1>1. WakeInv => QuitWakes
  BY DEF WakeInv
<1>. QED
  BY <1>1, WakeInvariant, PTL

-----------------------------------------------------------------------------
(* The sub-reactor.                                                         *)

(* A step of the thread function, of start(), of stop() or of a user of the *)
(* loop is a step of the loop or leaves it alone.                           *)
LEMMA SubReactorStep == [SubNext]_allVars => [Next]_vars
<1>. SUFFICES ASSUME [SubNext]_allVars PROVE [Next]_vars
  OBVIOUS
<1>1. Owner \in Threads /\ Users \subseteq Threads
  BY OwnerAssumption DEF Users
<1>2. CASE SubThread
  <2>1. CASE Construct \/ DestroyLoop
    BY <2>1 DEF Construct, DestroyLoop
  <2>2. CASE RunLoop
    BY <2>2 DEF RunLoop, Next
  <2>3. CASE SubLoopStep
    BY <2>3 DEF SubLoopStep, Next
  <2>. QED
    BY <1>2, <2>1, <2>2, <2>3 DEF SubThread
<1>3. CASE OwnerStep
  <2>1. CASE Spawn \/ Publish \/ Join
    BY <2>1 DEF Spawn, Publish, Join
  <2>2. CASE OwnerPosts \/ StopQuits \/ OwnerWakes
    <3>1. ThreadStep(Owner)
      BY <2>2 DEF OwnerPosts, StopQuits, OwnerWakes, ThreadStep
    <3>. QED
      BY <1>1, <3>1 DEF Next
  <2>. QED
    BY <1>3, <2>1, <2>2 DEF OwnerStep
<1>4. ASSUME NEW t \in Users, UserPosts(t) \/ UserWakes(t) PROVE [Next]_vars
  <2>1. ThreadStep(t)
    BY <1>4 DEF UserPosts, UserWakes, ThreadStep
  <2>. QED
    BY <1>1, <2>1 DEF Next
<1>5. CASE KernelIo
  BY <1>5 DEF KernelIo, Next
<1>6. CASE SubEpollFails
  BY <1>6 DEF SubEpollFails, Next
<1>7. CASE UNCHANGED allVars
  BY <1>7 DEF allVars
<1>. QED
  BY <1>2, <1>3, <1>4, <1>5, <1>6, <1>7 DEF SubNext

(* The thread function of TcpServer::start, with start() and stop() around  *)
(* it, uses its EventLoop as any program may: SubReactor implements         *)
(* EventLoop.                                                               *)
THEOREM SubReactorIsEventLoop == SubSpec => Spec
<1>1. SubInit => Init
  BY DEF SubInit
<1>. QED
  BY <1>1, SubReactorStep, PTL DEF SubSpec, Spec

(* The owner and the loop object go through their own states, and the       *)
(* variables of the loop keep their types.                                  *)
THEOREM SubTypeCorrect == SubSpec => []SubTypeOK
<1>. DEFINE Life == /\ owner \in {"new", "starting", "serving", "quitting", "joining", "joined"}
                    /\ object \in {"unborn", "alive", "destroyed"}
<1>1. SubInit => Life
  BY DEF SubInit
<1>2. Life /\ [SubNext]_allVars => Life'
  BY DEF SubNext, allVars, SubThread, OwnerStep, Construct, RunLoop, SubLoopStep,
         SubEpollFails, DestroyLoop, Spawn, Publish, OwnerPosts, StopQuits, OwnerWakes, Join,
         UserPosts, UserWakes, KernelIo, subVars
<1>3. TypeOK /\ Life => SubTypeOK
  BY DEF SubTypeOK
<1>4. SubSpec => []Life
  <2>. HIDE DEF Life
  <2>. QED
    BY <1>1, <1>2, PTL DEF SubSpec
<1>. QED
  <2>. HIDE DEF Life
  <2>. QED
    BY <1>3, <1>4, SubReactorIsEventLoop, TypeCorrect, PTL

(* What is posted to a sub-reactor, from the moment start() publishes the   *)
(* pointer, is handed over once and in order, and neither a post nor the    *)
(* quit() of stop() is lost on a running loop.                              *)
THEOREM SubReactorHandOver == SubSpec => [](FifoHandOver /\ ForeignPostWakes /\ QuitWakes)
  BY SubReactorIsEventLoop, HandOverCorrect, NoLostPost, NoLostQuit, PTL
=============================================================================
