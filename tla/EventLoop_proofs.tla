-------------------------- MODULE EventLoop_proofs --------------------------
(***************************************************************************)
(* Proofs about EventLoop, for every set of calling threads and every      *)
(* number of functions.                                                    *)
(***************************************************************************)
EXTENDS EventLoop, TLAPS

\* Before HandlePendingFunc takes the queue there is nothing left of the last
\* batch, and what it took ends where the queue begins.
BatchInv ==
  /\ loopPc # "func" => batch = <<>>
  /\ Len(done) + Len(batch) = taken

\* There is no loop thread before Start().
OwnerInv == ownerPc = "new" => loopPc = "none"

\* The inductive invariant: types, order, and where the batch ends.
QInv == TypeOK /\ RunOnceInOrder /\ BatchInv /\ OwnerInv

-----------------------------------------------------------------------------
(* Sequences *)

\* Moving the head of the middle part to the end of the first part changes
\* nothing of the whole (what RunTask does).
LEMMA MoveHead ==
  \A a, b, c \in Seq(Task) : b # <<>> =>
    /\ Tail(b) \in Seq(Task) /\ Head(b) \in Task
    /\ Append(a, Head(b)) \o Tail(b) \o c = a \o b \o c
    /\ Len(Append(a, Head(b))) + Len(Tail(b)) = Len(a) + Len(b)
    /\ Len(a) < Len(a \o b \o c)
    /\ (a \o b \o c)[Len(a) + 1] = Head(b)
  BY SMT

\* What is appended to the last part is appended to the whole (RunInLoop).
LEMMA AppendLast ==
  \A a, b, c \in Seq(Task) : \A x \in Task :
    a \o b \o Append(c, x) = Append(a \o b \o c, x)
  BY SMT

\* A sequence is a prefix of itself with one element more.
LEMMA AppendIsPrefix ==
  ASSUME NEW S, NEW s \in Seq(S), NEW x \in S
  PROVE  Len(Append(s, x)) = Len(s) + 1 /\ IsPrefix(s, Append(s, x))
  BY SMT DEF IsPrefix

-----------------------------------------------------------------------------
(* The inductive invariant *)

\* A function is handed over: it joins the queue and the record, and the
\* record is still what was run, what is being run and what waits.
LEMMA HandOverStep ==
  ASSUME QInv, NEW caller \in Callers, RunInLoop(caller),
         NEW d \in Seq(Task), NEW b \in Seq(Task), d \o b \o pending = posted
  PROVE  /\ pending' \in Seq(Task) /\ posted' \in Seq(Task)
         /\ d \o b \o pending' = posted'
         /\ Len(posted') = Len(posted) + 1 /\ IsPrefix(posted, posted')
  <1> DEFINE t == NextTask(caller)
  <1>1. pending \in Seq(Task) /\ posted \in Seq(Task)
    BY DEF QInv, TypeOK
  <1>2. t \in Task
    BY <1>1 DEF NextTask, Task
  <1>3. pending' = Append(pending, t) /\ posted' = Append(posted, t)
    BY DEF RunInLoop, Enqueue
  <1> HIDE DEF t
  <1>4. d \o b \o pending' = posted'
    <2>1. d \o b \o Append(pending, t) = Append(d \o b \o pending, t)
      BY <1>1, <1>2, AppendLast, SMTT(60)
    <2>2. QED
      BY <1>3, <2>1
  <1>5. QED
    BY <1>1, <1>2, <1>3, <1>4, AppendIsPrefix

\* The functions that the loop's thread hands over, if any (LoopOnce, RunTask).
LEMMA MaybeHandOverStep ==
  ASSUME QInv, RunInLoop(LoopThread) \/ UNCHANGED <<pending, posted>>,
         NEW d \in Seq(Task), NEW b \in Seq(Task), d \o b \o pending = posted
  PROVE  /\ pending' \in Seq(Task) /\ posted' \in Seq(Task)
         /\ d \o b \o pending' = posted'
         /\ \/ posted' = posted
            \/ Len(posted') = Len(posted) + 1 /\ IsPrefix(posted, posted')
  <1>1. CASE RunInLoop(LoopThread)
    BY <1>1, HandOverStep DEF Callers
  <1>2. CASE UNCHANGED <<pending, posted>>
    BY <1>2 DEF QInv, TypeOK
  <1>3. QED
    BY <1>1, <1>2

\* The loop starts empty.
LEMMA InitQInv == Init => QInv
  <1> SUFFICES ASSUME Init PROVE QInv
    OBVIOUS
  <1>1. TypeOK
    <2>1. \A S : <<>> \in Seq(S)
      BY SMT
    <2>2. QED
      BY <2>1 DEF Init, TypeOK
  <1>2. RunOnceInOrder
    <2>1. <<>> \o <<>> \o <<>> = <<>>
      BY SMT
    <2>2. QED
      BY <2>1 DEF Init, RunOnceInOrder
  <1>3. BatchInv /\ OwnerInv
    BY DEF Init, BatchInv, OwnerInv
  <1>4. QED
    BY <1>1, <1>2, <1>3 DEF QInv

\* A step of the owner, or of the loop's thread outside HandlePendingFunc,
\* leaves the queue alone.
LEMMA ThreadStep ==
  ASSUME QInv, UNCHANGED queueVars,
         \/ StartThread \/ CheckLoopPtr \/ SpuriousWakeup \/ BeginDestructor
         \/ Stop \/ Join \/ Publish \/ EnterLoop \/ EndRound \/ LeaveThread
         \/ UNCHANGED threadVars
  PROVE  QInv'
  <1>1. TypeOK /\ OwnerInv /\ BatchInv /\ RunOnceInOrder
    BY DEF QInv
  <1>2. UNCHANGED <<pending, batch, taken, posted, done>>
    BY DEF queueVars
  <1>3. RunOnceInOrder'
    BY <1>1, <1>2 DEF RunOnceInOrder
  <1>4. OwnerInv'
    BY <1>1
    DEF TypeOK, OwnerInv, threadVars, StartThread, CheckLoopPtr, SpuriousWakeup,
        BeginDestructor, Stop, Join, Publish, EnterLoop, EndRound, LeaveThread
  <1>5. loopPc' = "func" => loopPc = "func"
    BY DEF threadVars, StartThread, CheckLoopPtr, SpuriousWakeup, BeginDestructor,
           Stop, Join, Publish, EnterLoop, EndRound, LeaveThread
  <1>6. BatchInv'
    <2>1. CASE loopPc = "func" /\ loopPc' # "func"
      BY <1>1, <1>2, <2>1
      DEF BatchInv, OwnerInv, threadVars, StartThread, CheckLoopPtr, SpuriousWakeup,
          BeginDestructor, Stop, Join, Publish, EnterLoop, EndRound, LeaveThread
    <2>2. CASE loopPc = "func" <=> loopPc' = "func"
      BY <1>1, <1>2, <2>2 DEF BatchInv
    <2>3. QED
      BY <1>5, <2>1, <2>2
  <1>7. TypeOK'
    <2>1. /\ ownerPc' \in {"new", "check", "asleep", "running", "stop", "join", "done"}
          /\ loopPc' \in {"none", "created", "published", "poll", "swap", "func",
                         "left", "gone"}
          /\ looping' \in BOOLEAN
      BY <1>1
      DEF TypeOK, threadVars, StartThread, CheckLoopPtr, SpuriousWakeup, BeginDestructor,
             Stop, Join, Publish, EnterLoop, EndRound, LeaveThread
    <2>2. CASE Publish \/ LeaveThread
      BY <1>1, <1>2, <2>1, <2>2 DEF TypeOK, Publish, LeaveThread
    <2>3. CASE ~(Publish \/ LeaveThread)
      <3>1. loopPtr' = loopPtr
        BY <2>3
        DEF threadVars, StartThread, CheckLoopPtr, SpuriousWakeup, BeginDestructor,
               Stop, Join, Publish, EnterLoop, EndRound, LeaveThread
      <3>2. loopPc' \in {"none", "created", "gone"} <=> loopPc \in {"none", "created", "gone"}
        BY <1>1, <2>3
        DEF TypeOK, OwnerInv, threadVars, StartThread, CheckLoopPtr, SpuriousWakeup, BeginDestructor,
               Stop, Join, Publish, EnterLoop, EndRound, LeaveThread
      <3>3. QED
        BY <1>1, <1>2, <2>1, <3>1, <3>2 DEF TypeOK
    <2>4. QED
      BY <2>2, <2>3
  <1>8. QED
    BY <1>3, <1>4, <1>6, <1>7 DEF QInv

\* HandlePendingFunc takes the whole queue and leaves it empty.
LEMMA SwapStep == QInv /\ SwapPending => QInv'
  <1> SUFFICES ASSUME QInv, SwapPending PROVE QInv'
    OBVIOUS
  <1>1. batch = <<>> /\ done \in Seq(Task) /\ pending \in Seq(Task)
    BY DEF QInv, TypeOK, BatchInv, SwapPending
  <1>2. done \o pending = posted
    BY <1>1 DEF QInv, RunOnceInOrder
  <1>3. RunOnceInOrder'
    BY <1>1, <1>2 DEF SwapPending, RunOnceInOrder
  <1>4. Len(posted) = Len(done) + Len(pending)
    BY <1>1, <1>2
  <1>5. BatchInv'
    BY <1>4 DEF SwapPending, BatchInv
  <1>6. TypeOK'
    BY <1>1 DEF QInv, TypeOK, SwapPending
  <1>7. OwnerInv'
    BY DEF QInv, OwnerInv, SwapPending
  <1>8. QED
    BY <1>3, <1>5, <1>6, <1>7 DEF QInv

\* The function at the head of the batch is the oldest that has not run, and
\* what it hands over waits behind the batch.
LEMMA RunTaskStep ==
  ASSUME QInv, RunTask
  PROVE  QInv' /\ (Queue!Run \/ Queue!RunAndPost)
  <1>1. /\ done \in Seq(Task) /\ batch \in Seq(Task) /\ pending \in Seq(Task)
        /\ posted \in Seq(Task) /\ batch # <<>> /\ done \o batch \o pending = posted
        /\ Len(done) + Len(batch) = taken
    BY DEF QInv, TypeOK, RunOnceInOrder, BatchInv, RunTask
  <1>2. done' = Append(done, Head(batch)) /\ batch' = Tail(batch)
    BY DEF RunTask
  <1>3. /\ Tail(batch) \in Seq(Task) /\ Head(batch) \in Task
        /\ Append(done, Head(batch)) \o Tail(batch) \o pending = posted
        /\ Len(done') + Len(batch') = taken
        /\ Len(done) < Len(posted) /\ posted[Len(done) + 1] = Head(batch)
    <2>1. /\ Tail(batch) \in Seq(Task) /\ Head(batch) \in Task
          /\ Append(done, Head(batch)) \o Tail(batch) \o pending
               = done \o batch \o pending
          /\ Len(Append(done, Head(batch))) + Len(Tail(batch)) = Len(done) + Len(batch)
          /\ Len(done) < Len(done \o batch \o pending)
          /\ (done \o batch \o pending)[Len(done) + 1] = Head(batch)
      BY <1>1, MoveHead, Zenon
    <2>2. QED
      BY <1>1, <1>2, <2>1, Zenon
  <1>4. done' \in Seq(Task) /\ batch' \in Seq(Task)
    BY <1>1, <1>2, <1>3
  <1>5. done' \o batch' \o pending = posted
    BY <1>2, <1>3
  <1>6. RunInLoop(LoopThread) \/ UNCHANGED <<pending, posted>>
    BY DEF RunTask
  <1>7. /\ pending' \in Seq(Task) /\ posted' \in Seq(Task)
        /\ done' \o batch' \o pending' = posted'
        /\ \/ posted' = posted
           \/ Len(posted') = Len(posted) + 1 /\ IsPrefix(posted, posted')
    BY <1>4, <1>5, <1>6, MaybeHandOverStep
  <1>8. QInv'
    BY <1>3, <1>4, <1>7
    DEF QInv, TypeOK, RunOnceInOrder, BatchInv, OwnerInv, RunTask, threadVars
  <1>9. Queue!RunOldest
    BY <1>2, <1>3 DEF Queue!RunOldest
  <1>10. Queue!Run \/ Queue!RunAndPost
    BY <1>7, <1>9
    DEF Queue!Run, Queue!RunAndPost, Queue!HandOver, Queue!IsPrefix, IsPrefix
  <1>11. QED
    BY <1>8, <1>10

\* A step that only hands over is Post of the queue, or a stutter.
LEMMA HandOverOnlyStep ==
  ASSUME QInv, UNCHANGED <<batch, taken, done>>,
         \/ LoopOnce
         \/ \E p \in Producers : RunInLoopFromThread(p)
  PROVE  QInv' /\ (Queue!Post \/ UNCHANGED <<posted, done>>)
  <1>1. /\ done \in Seq(Task) /\ batch \in Seq(Task)
        /\ done \o batch \o pending = posted
    BY DEF QInv, TypeOK, RunOnceInOrder
  <1>2. /\ pending' \in Seq(Task) /\ posted' \in Seq(Task)
        /\ done \o batch \o pending' = posted'
        /\ \/ posted' = posted
           \/ Len(posted') = Len(posted) + 1 /\ IsPrefix(posted, posted')
    <2>1. CASE LoopOnce
      BY <1>1, <2>1, MaybeHandOverStep DEF LoopOnce
    <2>2. CASE \E p \in Producers : RunInLoopFromThread(p)
      BY <1>1, <2>2, HandOverStep DEF RunInLoopFromThread, Callers
    <2>3. QED
      BY <2>1, <2>2
  <1>3. QInv'
    BY <1>2 DEF QInv, TypeOK, RunOnceInOrder, BatchInv, OwnerInv, LoopOnce,
                RunInLoopFromThread, threadVars
  <1>4. Queue!Post \/ UNCHANGED <<posted, done>>
    BY <1>2 DEF Queue!Post, Queue!HandOver, Queue!IsPrefix, IsPrefix
  <1>5. QED
    BY <1>3, <1>4

\* Every step keeps the invariant and is a step of the queue or a stutter.
LEMMA NextStep ==
  ASSUME QInv, [Next]_vars
  PROVE  QInv' /\ [Queue!Next]_<<posted, done>>
  <1>1. CASE \/ StartThread \/ CheckLoopPtr \/ SpuriousWakeup \/ BeginDestructor
             \/ Stop \/ Join \/ Publish \/ EnterLoop \/ EndRound \/ LeaveThread
             \/ UNCHANGED vars
    <2>1. UNCHANGED queueVars
      BY <1>1 DEF StartThread, CheckLoopPtr, SpuriousWakeup, BeginDestructor, Stop,
                  Join, Publish, EnterLoop, EndRound, LeaveThread, vars
    <2>2. QInv'
      BY <1>1, <2>1, ThreadStep DEF vars
    <2>3. QED
      BY <2>1, <2>2 DEF queueVars
  <1>2. CASE LoopOnce \/ (\E p \in Producers : RunInLoopFromThread(p))
    <2>1. UNCHANGED <<batch, taken, done>>
      BY <1>2 DEF LoopOnce, RunInLoopFromThread
    <2>2. QED
      BY <1>2, <2>1, HandOverOnlyStep DEF Queue!Next
  <1>3. CASE SwapPending
    BY <1>3, SwapStep DEF SwapPending
  <1>4. CASE RunTask
    BY <1>4, RunTaskStep DEF Queue!Next
  <1>5. QED
    BY <1>1, <1>2, <1>3, <1>4 DEF Next, LoopStep, OwnerStep, Terminated

-----------------------------------------------------------------------------
(* Theorems *)

\* The invariant holds of every execution.
THEOREM QueueInvariant == Spec => []QInv
  <1>1. QInv /\ [Next]_vars => QInv'
    BY NextStep
  <1>2. QED
    BY <1>1, InitQInv, PTL DEF Spec

\* Every variable keeps its type; loop_ is null exactly when no EventLoop lives.
THEOREM TypeCorrect == Spec => []TypeOK
  <1>1. QInv => TypeOK
    BY DEF QInv
  <1>2. QED
    BY <1>1, QueueInvariant, PTL

\* No function is lost, repeated or overtaken, however RunInLoop and
\* HandlePendingFunc of any number of threads interleave.
THEOREM OrderCorrect == Spec => []RunOnceInOrder
  <1>1. QInv => RunOnceInOrder
    BY DEF QInv
  <1>2. QED
    BY <1>1, QueueInvariant, PTL

\* A function handed over while functions run waits for the next round.
THEOREM RoundCorrect == Spec => []NextRound
  <1>1. QInv => NextRound
    BY DEF QInv, TypeOK, BatchInv, NextRound
  <1>2. QED
    BY <1>1, QueueInvariant, PTL

\* The loop, its threads and its two queues implement one queue of functions.
THEOREM QueueRefinement == Spec => ImplementsTaskQueue
  <1>1. Init => Queue!Init
    BY DEF Init, Queue!Init
  <1>2. QInv /\ [Next]_vars => [Queue!Next]_<<posted, done>>
    BY NextStep
  <1>3. QED
    BY <1>1, <1>2, QueueInvariant, PTL DEF Spec, ImplementsTaskQueue, Queue!Spec

-----------------------------------------------------------------------------
(* The owner and the loop it uses *)

\* The owner never sleeps past the publication of loop_, whenever it looked at it
\* and whenever the signal came (Start, ThreadFunc).
NoLostWakeup == ownerPc = "asleep" => ~loopPtr

\* The loop that Start() returned lives on the stack of its thread, and the owner
\* uses it through a plain pointer: it is there until the owner has called Stop
\* (Start, Loop, Stop, ThreadFunc).
LoopOutlivesUse == ownerPc \in {"running", "stop"} => loopPtr

\* A thread that is in Loop() is there until the owner has called Stop, and the
\* owner is past Start() only while loop_ is set.
OwnerLoopInv ==
  /\ NoLostWakeup /\ LoopOutlivesUse
  /\ ownerPc \notin {"join", "done"} =>
       /\ loopPc \notin {"left", "gone"}
       /\ loopPc \in {"poll", "swap", "func"} => looping

\* Stop is the only way to make the thread leave, and publishing wakes the owner.
LEMMA OwnerLoopStep == QInv /\ OwnerLoopInv /\ [Next]_vars => OwnerLoopInv'
  <1> SUFFICES ASSUME QInv, OwnerLoopInv, [Next]_vars PROVE OwnerLoopInv'
    OBVIOUS
  <1>1. /\ ownerPc \in {"new", "check", "asleep", "running", "stop", "join", "done"}
        /\ loopPtr <=> loopPc \notin {"none", "created", "gone"}
        /\ ownerPc = "new" => loopPc = "none"
    BY DEF QInv, TypeOK, OwnerInv
  <1> USE DEF OwnerLoopInv, NoLostWakeup, LoopOutlivesUse
  <1>2. CASE StartThread \/ CheckLoopPtr \/ SpuriousWakeup \/ BeginDestructor
    BY <1>1, <1>2 DEF StartThread, CheckLoopPtr, SpuriousWakeup, BeginDestructor
  <1>3. CASE Stop \/ Join
    BY <1>3 DEF Stop, Join
  <1>4. CASE Publish \/ EnterLoop \/ LoopOnce \/ SwapPending
    BY <1>1, <1>4 DEF Publish, EnterLoop, LoopOnce, SwapPending
  <1>5. CASE EndRound \/ LeaveThread
    BY <1>1, <1>5 DEF EndRound, LeaveThread
  <1>6. CASE \/ RunTask \/ (\E p \in Producers : RunInLoopFromThread(p)) \/ UNCHANGED vars
    <2>1. UNCHANGED <<ownerPc, loopPc, loopPtr, looping>>
      BY <1>6 DEF RunTask, RunInLoopFromThread, threadVars, vars
    <2>2. QED
      BY <2>1
  <1>7. QED
    BY <1>2, <1>3, <1>4, <1>5, <1>6 DEF Next, LoopStep, OwnerStep, Terminated

LEMMA OwnerLoopInvariant == Spec => []OwnerLoopInv
  <1>1. Init => OwnerLoopInv
    BY DEF Init, OwnerLoopInv, NoLostWakeup, LoopOutlivesUse
  <1>2. QED
    BY <1>1, OwnerLoopStep, QueueInvariant, PTL DEF Spec

\* The wake-up of Start() is not lost: the owner sleeps only while loop_ is null.
THEOREM WakeupCorrect == Spec => []NoLostWakeup
  <1>1. OwnerLoopInv => NoLostWakeup
    BY DEF OwnerLoopInv
  <1>2. QED
    BY <1>1, OwnerLoopInvariant, PTL

\* The owner's pointer to the loop on the stack of its thread is good from Start()
\* to Stop().
THEOREM PointerCorrect == Spec => []LoopOutlivesUse
  <1>1. OwnerLoopInv => LoopOutlivesUse
    BY DEF OwnerLoopInv
  <1>2. QED
    BY <1>1, OwnerLoopInvariant, PTL

-----------------------------------------------------------------------------
(* The end of the loop *)

\* When the destructor has ended, the thread and the loop on its stack are gone,
\* nobody can reach it, and all functions that were taken out of the queue have
\* been run, in order: what is lost is what nobody took (~EventLoopThread, Join,
\* HandlePendingFunc).
DestructorIsLast ==
  ownerPc = "done" =>
    /\ loopPc = "gone" /\ ~loopPtr
    /\ batch = <<>> /\ Len(done) = taken
    /\ done \o pending = posted

\* A thread that noticed Stop, or will, goes through what is left of the round it
\* is in and no other: Stop is not undone but by the beginning of Loop(), which
\* may come later than it (Stop, Loop).
StopIsHeard ==
  [][~looping /\ ownerPc \in {"join", "done"} /\ loopPc # "published" =>
       ~looping' /\ (loopPc' = "poll" => loopPc = "poll")]_vars

\* The destructor joins the thread it has stopped; it never takes a loop that
\* runs for one that was never there.
JoinInv == ownerPc = "done" => loopPc = "gone"

LEMMA JoinStep == QInv /\ OwnerLoopInv /\ JoinInv /\ [Next]_vars => JoinInv'
  <1> SUFFICES ASSUME QInv, OwnerLoopInv, JoinInv, [Next]_vars PROVE JoinInv'
    OBVIOUS
  <1>1. CASE BeginDestructor
    BY <1>1 DEF BeginDestructor, OwnerLoopInv, LoopOutlivesUse, JoinInv
  <1>2. CASE StartThread \/ CheckLoopPtr \/ SpuriousWakeup \/ Stop \/ Join
    BY <1>2 DEF StartThread, CheckLoopPtr, SpuriousWakeup, Stop, Join, JoinInv
  <1>3. CASE LoopStep
    <2>1. loopPc # "gone" /\ (ownerPc' = "done" => ownerPc = "done")
      BY <1>3 DEF LoopStep, Publish, EnterLoop, LoopOnce, SwapPending, RunTask, EndRound,
                  LeaveThread, threadVars
    <2>2. QED
      BY <2>1 DEF JoinInv
  <1>4. CASE (\E p \in Producers : RunInLoopFromThread(p)) \/ UNCHANGED vars
    BY <1>4 DEF RunInLoopFromThread, threadVars, vars, JoinInv
  <1>5. QED
    BY <1>1, <1>2, <1>3, <1>4 DEF Next, OwnerStep, Terminated

\* A loop whose destructor has ended left nothing behind that was begun.
THEOREM DestructorIsLastCorrect == Spec => []DestructorIsLast
  <1>1. Init => JoinInv
    BY DEF Init, JoinInv
  <1>2. QInv /\ JoinInv => DestructorIsLast
    <2> SUFFICES ASSUME QInv, ownerPc = "done", loopPc = "gone"
                 PROVE  /\ ~loopPtr /\ batch = <<>> /\ Len(done) = taken
                        /\ done \o pending = posted
      BY DEF JoinInv, DestructorIsLast
    <2>1. /\ done \in Seq(Task) /\ pending \in Seq(Task) /\ ~loopPtr
          /\ batch = <<>> /\ Len(done) + Len(batch) = taken
          /\ done \o batch \o pending = posted
      BY DEF QInv, TypeOK, BatchInv, RunOnceInOrder
    <2>2. \A a, b \in Seq(Task) : a \o <<>> \o b = a \o b
      BY SMT
    <2>3. done \o pending = posted
      BY <2>1, <2>2
    <2>4. Len(done) = taken
      BY <2>1
    <2>5. QED
      BY <2>1, <2>3, <2>4
  <1>3. QED
    BY <1>1, <1>2, JoinStep, QueueInvariant, OwnerLoopInvariant, PTL DEF Spec

\* After Stop was heard the loop begins no round.
THEOREM StopIsHeardCorrect == Spec => StopIsHeard
  <1>1. ASSUME QInv, [Next]_vars, ownerPc \in {"join", "done"}, ~looping, loopPc # "published"
        PROVE  ~looping' /\ (loopPc' = "poll" => loopPc = "poll")
    <2>1. CASE LoopStep
      BY <1>1, <2>1 DEF LoopStep, Publish, EnterLoop, LoopOnce, SwapPending, RunTask, EndRound,
                        LeaveThread, threadVars
    <2>2. CASE OwnerStep \/ SpuriousWakeup \/ BeginDestructor
      BY <1>1, <2>2 DEF OwnerStep, StartThread, CheckLoopPtr, Stop, Join, SpuriousWakeup,
                        BeginDestructor
    <2>3. CASE (\E p \in Producers : RunInLoopFromThread(p)) \/ UNCHANGED vars
      BY <1>1, <2>3 DEF RunInLoopFromThread, threadVars, vars
    <2>4. QED
      BY <1>1, <2>1, <2>2, <2>3 DEF Next, Terminated
  <1>2. QED
    BY <1>1, QueueInvariant, PTL DEF Spec, StopIsHeard

=============================================================================
