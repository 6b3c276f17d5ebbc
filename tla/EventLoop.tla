----------------------------- MODULE EventLoop -----------------------------
(***************************************************************************)
(* An EventLoop (network/EventLoop.cpp) that runs on a thread of its own   *)
(* (network/EventLoopThread.cpp): the thread that owns it, the loop thread *)
(* and the threads that hand it functions with RunInLoop.                  *)
(*                                                                         *)
(* RunInLoop and the swap in HandlePendingFunc hold pending_func_mutex_;   *)
(* Start and the publication of loop_ hold EventLoopThread::mutex_.  Each  *)
(* such critical section is one step.  Stop() takes no lock.               *)
(***************************************************************************)
EXTENDS Integers, SequencesExt

CONSTANTS
  Producers,    \* threads that call RunInLoop from outside
  LoopThread,   \* the loop's own thread
  MaxTasks      \* bound: functions handed to the loop

ASSUME LoopThreadAssumption == LoopThread \notin Producers
ASSUME MaxTasksAssumption == MaxTasks \in Nat

VARIABLES
  ownerPc,    \* the owner: in Start(), using the loop, or in the destructor
  loopPc,     \* the loop thread: in ThreadFunc(), Loop(), HandlePendingFunc()
  loopPtr,    \* loop_ is not null
  looping,    \* looping_
  pending,    \* pending_func_
  batch,      \* what HandlePendingFunc took and has not run yet
  taken,      \* ghost: how many functions HandlePendingFunc took so far
  posted,     \* ghost: everything handed over, in order
  done        \* ghost: everything run, in order

threadVars == <<ownerPc, loopPc, loopPtr, looping>>
queueVars == <<pending, batch, taken, posted, done>>
vars == <<threadVars, queueVars>>

Callers == Producers \cup {LoopThread}
\* A function is told apart by its caller and its place in the order.
Task == [by : Callers, id : Nat]

TypeOK ==
  /\ ownerPc \in {"new", "check", "asleep", "running", "stop", "join", "done"}
  /\ loopPc \in {"none", "created", "published", "poll", "swap", "func", "left",
                 "gone"}
  /\ loopPtr \in BOOLEAN /\ looping \in BOOLEAN
  /\ pending \in Seq(Task) /\ batch \in Seq(Task)
  /\ posted \in Seq(Task) /\ done \in Seq(Task)
  /\ taken \in Nat
  \* loop_ is null or points to the EventLoop that ThreadFunc holds
  /\ loopPtr <=> loopPc \notin {"none", "created", "gone"}

Init ==
  /\ ownerPc = "new" /\ loopPc = "none"
  /\ loopPtr = FALSE /\ looping = FALSE
  /\ pending = <<>> /\ batch = <<>> /\ posted = <<>> /\ done = <<>>
  /\ taken = 0

-----------------------------------------------------------------------------
(* The owner: Start() and ~EventLoopThread() *)

StartThread ==
  /\ ownerPc = "new"
  /\ ownerPc' = "check"
  /\ loopPc' = "created"
  /\ UNCHANGED <<loopPtr, looping, queueVars>>

\* while (loop_ == nullptr) cond_.Wait();
CheckLoopPtr ==
  /\ ownerPc = "check"
  /\ ownerPc' = IF loopPtr THEN "running" ELSE "asleep"
  /\ UNCHANGED <<loopPc, loopPtr, looping, queueVars>>

\* A wait may also end without a signal.
SpuriousWakeup ==
  /\ ownerPc = "asleep"
  /\ ownerPc' = "check"
  /\ UNCHANGED <<loopPc, loopPtr, looping, queueVars>>

BeginDestructor ==
  /\ ownerPc = "running"
  /\ ownerPc' = IF loopPtr THEN "stop" ELSE "done"
  /\ UNCHANGED <<loopPc, loopPtr, looping, queueVars>>

\* Mutant: the destructor joins a loop it never stopped.
StopForgotten ==
  /\ ownerPc = "stop"
  /\ ownerPc' = "join"
  /\ UNCHANGED <<loopPc, loopPtr, looping, queueVars>>

Stop ==
  /\ ownerPc = "stop"
  /\ looping' = FALSE
  /\ ownerPc' = "join"
  /\ UNCHANGED <<loopPc, loopPtr, queueVars>>

Join ==
  /\ ownerPc = "join"
  /\ loopPc = "gone"
  /\ ownerPc' = "done"
  /\ UNCHANGED <<loopPc, loopPtr, looping, queueVars>>

-----------------------------------------------------------------------------
(* RunInLoop *)

\* Mutant: a function is put before those that wait.
EnqueueFirst(task) == pending' = <<task>> \o pending

Enqueue(task) == pending' = Append(pending, task)

NextTask(caller) == [by |-> caller, id |-> Len(posted) + 1]

RunInLoop(caller) ==
  /\ Len(posted) < MaxTasks
  /\ Enqueue(NextTask(caller))
  /\ posted' = Append(posted, NextTask(caller))

\* Start() has returned, so the loop is known to other threads.
RunInLoopFromThread(p) ==
  /\ ownerPc \in {"running", "stop", "join"} /\ loopPtr
  /\ RunInLoop(p)
  /\ UNCHANGED <<threadVars, batch, taken, done>>

-----------------------------------------------------------------------------
(* The loop thread: ThreadFunc(), Loop() and HandlePendingFunc() *)

\* Mutant: nobody is told that loop_ is set.
PublishUnsignalled ==
  /\ loopPc = "created"
  /\ loopPc' = "published"
  /\ loopPtr' = TRUE
  /\ UNCHANGED <<ownerPc, looping, queueVars>>

Publish ==
  /\ loopPc = "created"
  /\ loopPc' = "published"
  /\ loopPtr' = TRUE
  /\ ownerPc' = IF ownerPc = "asleep" THEN "check" ELSE ownerPc
  /\ UNCHANGED <<looping, queueVars>>

\* Mutant: looping_ keeps the value the constructor gave it.
EnterLoopUnset ==
  /\ loopPc = "published"
  /\ loopPc' = "poll"
  /\ UNCHANGED <<ownerPc, loopPtr, looping, queueVars>>

EnterLoop ==
  /\ loopPc = "published"
  /\ looping' = TRUE
  /\ loopPc' = "poll"
  /\ UNCHANGED <<ownerPc, loopPtr, queueVars>>

\* LoopOnce waits 20 ms at most, then the active channels are handled; their
\* handlers may hand functions to their own loop.
LoopOnce ==
  /\ loopPc = "poll"
  /\ loopPc' = "swap"
  /\ \/ RunInLoop(LoopThread) \/ UNCHANGED <<pending, posted>>
  /\ UNCHANGED <<ownerPc, loopPtr, looping, batch, taken, done>>

SwapPending ==
  /\ loopPc = "swap"
  /\ loopPc' = "func"
  /\ batch' = pending
  /\ pending' = <<>>
  /\ taken' = Len(posted)
  /\ UNCHANGED <<ownerPc, loopPtr, looping, posted, done>>

\* Mutant: the queue itself is worked off, with what is added meanwhile.
RunTaskFromQueue ==
  /\ loopPc = "func"
  /\ batch # <<>>
  /\ done' = Append(done, Head(batch))
  /\ \/ UNCHANGED <<pending, posted>> /\ batch' = Tail(batch)
     \/ /\ Len(posted) < MaxTasks
        /\ posted' = Append(posted, NextTask(LoopThread))
        /\ batch' = Append(Tail(batch), NextTask(LoopThread))
        /\ UNCHANGED pending
  /\ UNCHANGED <<threadVars, taken>>

\* A function runs; it may hand another one to its own loop.
RunTask ==
  /\ loopPc = "func"
  /\ batch # <<>>
  /\ batch' = Tail(batch)
  /\ done' = Append(done, Head(batch))
  /\ \/ RunInLoop(LoopThread) \/ UNCHANGED <<pending, posted>>
  /\ UNCHANGED <<threadVars, taken>>

\* while (looping_)
EndRound ==
  /\ loopPc = "func"
  /\ batch = <<>>
  /\ loopPc' = IF looping THEN "poll" ELSE "left"
  /\ UNCHANGED <<ownerPc, loopPtr, looping, queueVars>>

\* loop_ = nullptr, and the EventLoop on the stack of ThreadFunc is destroyed.
LeaveThread ==
  /\ loopPc = "left"
  /\ loopPtr' = FALSE
  /\ loopPc' = "gone"
  /\ UNCHANGED <<ownerPc, looping, queueVars>>

LoopStep ==
  \/ Publish \/ EnterLoop \/ LoopOnce \/ SwapPending \/ RunTask \/ EndRound
  \/ LeaveThread

OwnerStep == StartThread \/ CheckLoopPtr \/ Stop \/ Join

Terminated == ownerPc = "done" /\ UNCHANGED vars

Next ==
  \/ LoopStep \/ OwnerStep
  \/ SpuriousWakeup \/ BeginDestructor
  \/ \E p \in Producers : RunInLoopFromThread(p)
  \/ Terminated

\* The threads are scheduled by the operating system; the owner need never
\* begin the destructor, and a condition variable need never wake spuriously.
Spec == Init /\ [][Next]_vars /\ WF_vars(LoopStep) /\ WF_vars(OwnerStep)

-----------------------------------------------------------------------------
(* Properties *)

\* Nothing handed over is lost, run twice or run out of order, whichever
\* threads hand over while the queue is being taken (RunInLoop,
\* HandlePendingFunc).
RunOnceInOrder == done \o batch \o pending = posted

\* A function handed over while functions run, by one of them or by another
\* thread, waits for the next round, so that the loop always gets back to its
\* sockets (HandlePendingFunc).
NextRound == Len(done) + Len(batch) <= taken

\* Start() returns once the thread runs: the wake-up is not lost (Start,
\* ThreadFunc).
StartReturns == (ownerPc \in {"check", "asleep"}) ~> (ownerPc = "running")

\* Every function is run, unless the loop is stopped (Loop).
EveryTaskRuns ==
  \A n \in 1 .. MaxTasks :
    (Len(posted) >= n) ~> (Len(done) >= n \/ ownerPc = "join" \/ ownerPc = "done")

\* A destructor that begins when Loop() has begun ends, and the functions taken
\* out of the queue have been run by then (~EventLoopThread, Stop, Join).
DestructorEnds ==
  (ownerPc = "stop" /\ loopPc \notin {"created", "published"})
    ~> (ownerPc = "done" /\ loopPc = "gone" /\ batch = <<>>)

\* A loop is a queue of functions.
Queue == INSTANCE TaskQueue
ImplementsTaskQueue == Queue!Spec
=============================================================================
