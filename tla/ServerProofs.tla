---------------------------- MODULE ServerProofs -----------------------------
(***************************************************************************)
(* Dispatcher.tla for any set of tasks, any producers and any bound on the *)
(* list: no wake-up is lost, and what the threads do with lock and signal  *)
(* is a plain queue with one worker.  Then ServerShutdown.tla for any      *)
(* tasks, events and queries: what the dispatcher promises holds in the    *)
(* whole server, a shutdown leaves no task and no query behind, and no     *)
(* task has two owners.                                                    *)
(***************************************************************************)
EXTENDS ServerShutdown, FiniteSetTheorems, SequenceTheorems, TLAPS

\* Only the task queued by shutdown sets TERMINATED, so the thread is past
\* that task's execution when it holds.
EndsInLoop == dState = "TERMINATED" => dPc \in {"loop", "exit"}

DInv == DTypeOK /\ NoSleepOverWork /\ EndsInLoop

\* The invariant holds at the start.
LEMMA InitInv == DInit => DInv
BY DispatcherAssumption
   DEF DInit, DInv, DTypeOK, NoSleepOverWork, EndsInLoop, ThreadState

\* addTask as the callers use it keeps the invariant: it signals whenever the
\* thread may be asleep.
LEMMA AddInv ==
  ASSUME DInv, NEW p \in Producer, NEW t \in Task, DAddTask(p, t, FALSE)
  PROVE  DInv'
<1>1. DTypeOK'
  BY DEF DInv, DTypeOK, DAddTask
<1>2. NoSleepOverWork'
  BY DEF DInv, DTypeOK, NoSleepOverWork, DAddTask
<1>3. EndsInLoop'
  BY DEF DInv, EndsInLoop, DAddTask
<1>4. QED
  BY <1>1, <1>2, <1>3 DEF DInv

\* Waking the thread after an addition keeps the invariant.
LEMMA NotifyInv ==
  ASSUME DInv, NEW p \in Producer, DNotifyOne(p)
  PROVE  DInv'
BY DEF DInv, DTypeOK, NoSleepOverWork, EndsInLoop, DNotifyOne, DWake

\* So does shutdown, which signals in any case.
LEMMA ShutdownInv ==
  ASSUME DInv, dState # "TERMINATED", DShutdown
  PROVE  DInv'
<1>1. DTypeOK'
  BY DispatcherAssumption
     DEF DInv, DTypeOK, DShutdown, DWake
<1>2. NoSleepOverWork' /\ EndsInLoop'
  BY DEF DInv, NoSleepOverWork, EndsInLoop, DShutdown, DWake
<1>3. QED
  BY <1>1, <1>2 DEF DInv

\* Taking a task off the list, the thread is neither asleep nor done.
LEMMA TakeInv ==
  ASSUME DInv, DTake
  PROVE  DInv'
<1>1. /\ Head(taskList) \in Task
      /\ Tail(taskList) \in Seq(Task)
  BY DEF DInv, DTypeOK, DTake, DPop
<1>2. DTypeOK'
  BY <1>1, DispatcherAssumption DEF DInv, DTypeOK, DTake, DPop
<1>3. NoSleepOverWork' /\ EndsInLoop'
  BY DEF DInv, NoSleepOverWork, EndsInLoop, DTake, DPop
<1>4. QED
  BY <1>2, <1>3 DEF DInv

\* The thread's own steps keep it.
LEMMA ThreadInv ==
  ASSUME DInv, DThread
  PROVE  DInv'
<1>1. CASE DLoopHead
  BY <1>1 DEF DInv, DTypeOK, NoSleepOverWork, EndsInLoop, DLoopHead
<1>2. CASE DTake
  BY <1>2, TakeInv
<1>3. CASE DWait
  BY <1>3 DEF DInv, DTypeOK, NoSleepOverWork, EndsInLoop, DWait
<1>4. CASE DNothingThere
  BY <1>4 DEF DInv, DTypeOK, NoSleepOverWork, EndsInLoop, DNothingThere
<1>5. CASE DFinish
  BY <1>5 DEF DInv, DTypeOK, NoSleepOverWork, EndsInLoop, DFinish, ThreadState
<1>6. QED
  BY <1>1, <1>2, <1>3, <1>4, <1>5 DEF DThread

\* Every step keeps it,
LEMMA StepInv == DInv /\ [DNext]_dVars => DInv'
<1> SUFFICES ASSUME DInv, [DNext]_dVars PROVE DInv'
  OBVIOUS
<1>1. CASE \E p \in Producer : DCall(p) \/ DNotifyOne(p)
  BY <1>1, AddInv, NotifyInv DEF DCall
<1>2. CASE DShutdownOnce
  BY <1>2, ShutdownInv DEF DShutdownOnce
<1>3. CASE DStopOnce
  BY <1>3 DEF DInv, DTypeOK, NoSleepOverWork, EndsInLoop, DStopOnce, DStop,
              ThreadState
<1>4. CASE DSpuriousWakeup
  BY <1>4 DEF DInv, DTypeOK, NoSleepOverWork, EndsInLoop, DSpuriousWakeup
<1>5. CASE DThread
  BY <1>5, ThreadInv
<1>6. CASE UNCHANGED dVars
  BY <1>6 DEF DInv, DTypeOK, NoSleepOverWork, EndsInLoop, dVars
<1>7. QED
  BY <1>1, <1>2, <1>3, <1>4, <1>5, <1>6 DEF DNext

\* so it always holds.
LEMMA Invariance == DSpec => []DInv
BY InitInv, StepInv, PTL DEF DSpec

\* The variables of the dispatcher keep their types, and the thread executes
\* a task exactly while it is outside the lock with one in hand.
THEOREM TypeCorrect == DSpec => []DTypeOK
BY Invariance, PTL DEF DInv

\* addTask may signal only when it found the list empty, after releasing the
\* lock: the thread never sleeps over a queued task with no signal owed.
THEOREM NoLostWakeUp == DSpec => []NoSleepOverWork
BY Invariance, PTL DEF DInv

-----------------------------------------------------------------------------
(* The queue with one worker *)

\* The initial states are those of the abstract queue.
LEMMA InitQueue == DInit => Queue!Init
BY DEF DInit, Queue!Init

\* Calls accept a task or change nothing the queue can see.
LEMMA AddQueue ==
  ASSUME DInv, NEW p \in Producer, NEW t \in Task, DAddTask(p, t, FALSE)
  PROVE  [Queue!Next]_(Queue!vars)
<1>1. CASE dState = "RUNNING"
  BY <1>1 DEF DAddTask, Queue!Accept, Queue!Next
<1>2. CASE dState # "RUNNING"
  BY <1>2 DEF DAddTask, Queue!vars
<1>3. QED
  BY <1>1, <1>2

\* Taking a task is the abstract queue's Take, or DropExpired.
LEMMA TakeQueue ==
  ASSUME DInv, DTake
  PROVE  Queue!Next
<1>1. Queue!CanTake
  BY DEF DInv, DTypeOK, EndsInLoop, DTake, DPop, Queue!CanTake
<1>2. CASE dPc' = "run" /\ dTask' = Head(taskList)
  BY <1>1, <1>2 DEF DTake, DPop, Queue!Take, Queue!Next
<1>3. CASE Head(taskList) \in Timed /\ dPc' = "loop" /\ UNCHANGED dTask
  BY <1>1, <1>3 DEF DTake, DPop, Queue!DropExpired, Queue!Next
<1>4. QED
  BY <1>2, <1>3 DEF DTake, DPop

\* The end of a task is the abstract queue's Finish.
LEMMA FinishQueue ==
  ASSUME DInv, DFinish
  PROVE  Queue!Next
<1>1. dTask # NoTask
  BY DEF DInv, DTypeOK, DFinish
<1>2. (dState' = "TERMINATED") = (dState = "TERMINATED" \/ dTask = Terminate)
  BY DEF DFinish
<1>3. QED
  BY <1>1, <1>2 DEF DFinish, Queue!Finish, Queue!Next

\* Every step is one of the abstract queue, or none.
LEMMA StepQueue == DInv /\ [DNext]_dVars => [Queue!Next]_(Queue!vars)
<1> SUFFICES ASSUME DInv, [DNext]_dVars PROVE [Queue!Next]_(Queue!vars)
  OBVIOUS
<1>1. CASE \E p \in Producer : DCall(p) \/ DNotifyOne(p)
  BY <1>1, AddQueue DEF DCall, DNotifyOne, Queue!vars
<1>2. CASE DShutdownOnce
  BY <1>2, DispatcherAssumption
     DEF DShutdownOnce, DShutdown, Queue!Accept, Queue!Next
<1>3. CASE DStopOnce
  BY <1>3 DEF DStopOnce, DStop, Queue!vars
<1>4. CASE DTake
  BY <1>4, TakeQueue
<1>5. CASE DFinish
  BY <1>5, FinishQueue
<1>6. CASE DSpuriousWakeup \/ DLoopHead \/ DWait \/ DNothingThere
  BY <1>6 DEF DSpuriousWakeup, DLoopHead, DWait, DNothingThere, Queue!vars
<1>7. CASE UNCHANGED dVars
  BY <1>7 DEF dVars, Queue!vars
<1>8. QED
  BY <1>1, <1>2, <1>3, <1>4, <1>5, <1>6, <1>7 DEF DNext, DThread

\* Every step of the dispatcher is a step of the queue or invisible to it:
\* the tasks run in the order in which addTask accepted them, one at a time.
THEOREM QueueRefined ==
  DSpec => Queue!Init /\ [][Queue!Next]_(Queue!vars)
BY InitQueue, StepQueue, Invariance, PTL DEF DSpec

-----------------------------------------------------------------------------
(* Types, and the use of the dispatcher *)

\* The database thread has a query in hand while it executes or answers it.
InHand ==
  /\ bPc \in {"query", "callback"} <=> bTask # NoTask
  /\ bPc = "callback" => bTask \in WithCallback

\* flush() has one exactly between its two steps; a new task starts at its
\* first statement.
Flushing ==
  /\ step = "flushRun" <=> bFlush # NoTask
  /\ dPc # "run" => step = "body"

BaseInv ==
  /\ DInv /\ BTypeOK /\ STypeOK /\ ServerTypeOK
  /\ InHand /\ Flushing /\ IsFiniteSet(armed)

\* All that the server does to the dispatcher.
DMove ==
  \/ UNCHANGED dVars
  \/ \E p \in Producer, t \in Task \ {Terminate} : DAddTask(p, t, FALSE)
  \/ \E p \in Producer : DNotifyOne(p)
  \/ DShutdown /\ dPc = "run"
  \/ DStop /\ dPc = "run"
  \/ DSpuriousWakeup \/ DThread

\* The steps of the scheduler.
LEMMA SchedulerMoves ==
  ASSUME BaseInv, SThread
  PROVE  DMove
<1>1. CASE SExit
  BY <1>1 DEF SExit, DMove
<1>2. CASE SHandle
  <2>1. PICK h : h = Head(posted) /\ (SArm(h) \/ SCancel(h) \/ SComplete(h) \/ SDrain(h))
    BY <1>2 DEF SHandle
  <2>2. h \in Handler
    BY <1>2, <2>1 DEF BaseInv, ServerTypeOK, STypeOK, SHandle
  <2>3. CASE SArm(h) \/ SCancel(h) \/ SDrain(h)
    BY <2>3 DEF SArm, SCancel, SDrain, DMove
  <2>4. CASE SComplete(h)
    <3>1. h.event \in Event
      BY <2>2, <2>4 DEF SComplete, Handler, ArmHandler, CancelHandler, Completion, DrainHandler
    <3>2. h.event \in Task \ {Terminate} /\ SchedulerThread \in Producer
      BY <3>1, SchedulerAssumption
    <3> QED
      BY <2>4, <3>2 DEF SComplete, DMove
  <2> QED
    BY <2>1, <2>3, <2>4
<1> QED
  BY <1>1, <1>2 DEF SThread

\* Every step of the server.
LEMMA DispatcherMoves ==
  ASSUME BaseInv, [Next]_vars
  PROVE  DMove
<1>1. ASSUME NEW p \in Producer, Notify(p)
      PROVE  DMove
  BY <1>1 DEF Notify, DMove
<1>2. CASE NetworkRun
  <2>1. /\ NetworkThread \in Producer
        /\ NetTask \cup Signal \cup {SaveGame} \subseteq Task \ {Terminate}
    BY ServerAssumption
  <2> QED
    BY <1>2, <2>1 DEF NetworkRun, NewQuery, DMove
<1>3. CASE MainEnd \/ SetShutdown \/ SaveState \/ FlushPop \/ FlushEnd \/ StopServices
  BY <1>3 DEF MainEnd, SetShutdown, SaveState, FlushPop, FlushEnd, StopServices, DMove
<1>4. CASE PlainCall
  BY <1>4 DEF PlainCall, NewQuery, NewEvent, CancelEvent, DMove
<1>5. CASE FlushRun \/ EnqueueShutdown
  <2>1. /\ DispatcherThread \in Producer /\ GameShutdown \in Task \ {Terminate}
        /\ WithCallback \subseteq Task \ {Terminate}
    BY DispatcherAssumption, DatabaseAssumption, ServerAssumption
  <2> QED
    BY <1>5, <2>1 DEF FlushRun, BFlushRun, EnqueueShutdown, DMove
<1>6. CASE StopQueues \/ EndQueues
  BY <1>6 DEF StopQueues, EndQueues, At, DMove
<1>7. CASE EndTask \/ DLoopHead \/ DTake \/ DWait \/ DNothingThere
  BY <1>7 DEF EndTask, DThread, DMove
<1>8. CASE DatabaseRun
  <2>1. DatabaseThread \in Producer /\ WithCallback \subseteq Task \ {Terminate}
    BY DatabaseAssumption
  <2>2. CASE BCallback
    <3>1. bTask \in WithCallback
      BY <2>2 DEF BaseInv, InHand, BCallback
    <3> QED
      BY <2>1, <2>2, <3>1 DEF BCallback, DMove
  <2> QED
    BY <1>8, <2>2 DEF DatabaseRun, BThread, DMove
<1>9. CASE SchedulerRun
  BY <1>9, SchedulerMoves DEF SchedulerRun
<1>10. CASE (\E e \in Event : Expire(e)) \/ Spurious
  BY <1>10 DEF Expire, Spurious, DMove
<1>11. CASE UNCHANGED vars
  BY <1>11 DEF vars, DMove
<1> QED
  BY <1>1, <1>2, <1>3, <1>4, <1>5, <1>6, <1>7, <1>8, <1>9, <1>10, <1>11 DEF Next, DispatcherRun

\* The dispatcher keeps its invariant whoever uses it.
LEMMA MoveInv ==
  ASSUME DInv, DMove
  PROVE  DInv'
<1>1. CASE UNCHANGED dVars
  BY <1>1 DEF DInv, DTypeOK, NoSleepOverWork, EndsInLoop, dVars
<1>2. CASE DShutdown /\ dPc = "run"
  BY <1>2, ShutdownInv DEF DInv, EndsInLoop
<1>3. CASE DStop /\ dPc = "run"
  BY <1>3 DEF DInv, DTypeOK, NoSleepOverWork, EndsInLoop, DStop, ThreadState
<1>4. CASE DSpuriousWakeup
  BY <1>4 DEF DInv, DTypeOK, NoSleepOverWork, EndsInLoop, DSpuriousWakeup
<1> QED
  BY <1>1, <1>2, <1>3, <1>4, AddInv, NotifyInv, ThreadInv DEF DMove

\* And is a queue with one worker for all of them.
LEMMA MoveQueue ==
  ASSUME DInv, DMove
  PROVE  [Queue!Next]_(Queue!vars)
<1>1. CASE DShutdown
  BY <1>1, DispatcherAssumption DEF DShutdown, Queue!Accept, Queue!Next
<1>2. CASE DTake
  BY <1>2, TakeQueue
<1>3. CASE DFinish
  BY <1>3, FinishQueue
<1>4. CASE DSpuriousWakeup \/ DLoopHead \/ DWait \/ DNothingThere \/ UNCHANGED dVars
  BY <1>4 DEF DSpuriousWakeup, DLoopHead, DWait, DNothingThere, dVars, Queue!vars
<1>6. CASE DStop /\ dPc = "run"
  <2>1. dState # "TERMINATED"
    BY <1>6 DEF DInv, EndsInLoop
  <2>2. (dState' = "TERMINATED") = (dState = "TERMINATED")
    BY <1>6, <2>1 DEF DStop
  <2> QED
    BY <1>6, <2>2 DEF DStop, Queue!vars
<1>5. CASE \E p \in Producer : DNotifyOne(p)
  BY <1>5 DEF DNotifyOne, Queue!vars
<1> QED
  BY <1>1, <1>2, <1>3, <1>4, <1>5, <1>6, AddQueue DEF DMove, DThread
-----------------------------------------------------------------------------
(* The queries *)

\* Signals and changes of state.
BSignal ==
  \/ \E p \in Producer : BNotifyOne(p)
  \/ \E s \in ThreadState : BSetState(s)
  \/ BNotifyShutdown \/ BSpuriousWakeup

\* All that the server does to the queries.
QMove ==
  \/ UNCHANGED <<bVars, accepted>>
  \/ \E p \in Producer, q \in Query :
       /\ Create(q) /\ BAddTask(p, q)
       /\ accepted' = IF bState = "RUNNING" THEN Append(accepted, q) ELSE accepted
  \/ /\ \/ BSignal
        \/ bFlush = NoTask /\ BFlushPop
        \/ bFlush # NoTask /\ BFlushRun
        \/ BOwn \/ BCallback
     /\ UNCHANGED accepted

\* What the database thread and its users do to the query list is a move.
LEMMA QueryMoves ==
  ASSUME BaseInv, [Next]_vars
  PROVE  QMove /\ used \subseteq used'
<1>0. /\ DispatcherThread \in Producer /\ NetworkThread \in Producer
      /\ {"CLOSING", "TERMINATED"} \subseteq ThreadState
  BY DispatcherAssumption, ServerAssumption DEF ThreadState
<1>1. ASSUME NEW p \in Producer, Notify(p)
      PROVE  QMove /\ used \subseteq used'
  BY <1>1 DEF Notify, QMove, BSignal, gVars
<1>2. CASE NetworkRun
  BY <1>0, <1>2 DEF NetworkRun, NewQuery, Create, QMove, BSignal
<1>3. CASE MainEnd \/ SetShutdown \/ SaveState \/ FlushEnd \/ StopServices \/ EnqueueShutdown \/ EndTask
  BY <1>3 DEF MainEnd, SetShutdown, SaveState, FlushEnd, StopServices, EnqueueShutdown, EndTask, GoTo, QMove, BSignal
<1>4. CASE PlainCall
  BY <1>0, <1>4 DEF PlainCall, NewQuery, NewEvent, CancelEvent, Create, gVars, QMove, BSignal
<1>5. CASE FlushPop \/ FlushRun
  <2>1. (FlushPop => bFlush = NoTask) /\ (FlushRun => bFlush # NoTask)
    BY DEF FlushPop, FlushRun, At, BaseInv, Flushing
  <2> QED
    BY <1>5, <2>1 DEF FlushPop, FlushRun, GoTo, QMove
<1>6. CASE StopQueues \/ EndQueues
  BY <1>0, <1>6 DEF StopQueues, EndQueues, GoTo, QMove, BSignal
<1>7. CASE (DLoopHead \/ DTake \/ DWait \/ DNothingThere) /\ UNCHANGED <<bVars, sVars, gVars>>
  BY <1>7 DEF gVars, QMove, BSignal
<1>8. CASE DatabaseRun
  BY <1>8 DEF DatabaseRun, BThread, gVars, QMove, BSignal
<1>9. CASE SchedulerRun \/ (\E e \in Event : Expire(e)) \/ Spurious
  BY <1>9 DEF SchedulerRun, Expire, Spurious, gVars, QMove, BSignal
<1>10. CASE UNCHANGED vars
  BY <1>10 DEF vars, gVars, QMove, BSignal
<1> QED
  BY <1>1, <1>2, <1>3, <1>4, <1>5, <1>6, <1>7, <1>8, <1>9, <1>10 DEF Next, DispatcherRun

\* Those moves keep the type of the query list and the flags around it.
LEMMA QueryTypes ==
  ASSUME BTypeOK, InHand, accepted \in Seq(Query), QMove
  PROVE  BTypeOK' /\ InHand' /\ accepted' \in Seq(Query)
<1> USE DEF BTypeOK, InHand
<1>1. CASE UNCHANGED <<bVars, accepted>>
  BY <1>1 DEF bVars
<1>2. ASSUME NEW p \in Producer, NEW q \in Query, BAddTask(p, q),
             accepted' = IF bState = "RUNNING" THEN Append(accepted, q) ELSE accepted
      PROVE  BTypeOK' /\ InHand' /\ accepted' \in Seq(Query)
  <2>1. /\ Append(bList, q) \in Seq(Query) /\ Append(accepted, q) \in Seq(Query)
        /\ bNotify \cup {p} \in SUBSET Producer
    OBVIOUS
  <2>2. UNCHANGED <<bState, bPc, bTask, bFlush, executed>>
    BY <1>2 DEF BAddTask
  <2>3. bList' \in Seq(Query) /\ bNotify' \in SUBSET Producer /\ accepted' \in Seq(Query)
    BY <1>2, <2>1 DEF BAddTask
  <2> QED
    BY <2>2, <2>3
<1>3. CASE UNCHANGED accepted /\ BSignal
  <2>1. /\ bState' \in ThreadState /\ bNotify' \in SUBSET Producer
        /\ bPc' = bPc \/ (bPc = "waiting" /\ bPc' = "woken")
        /\ UNCHANGED <<bList, bTask, bFlush, executed>>
    <3>1. CASE \E p \in Producer : BNotifyOne(p)
      BY <3>1 DEF BNotifyOne, BWake
    <3>2. CASE \E s \in ThreadState : BSetState(s)
      BY <3>2 DEF BSetState
    <3>3. CASE BNotifyShutdown \/ BSpuriousWakeup
      BY <3>3 DEF BNotifyShutdown, BSpuriousWakeup, BWake
    <3> QED
      BY <1>3, <3>1, <3>2, <3>3 DEF BSignal
  <2>2. BTypeOK'
    BY <2>1
  <2>3. InHand'
    <3>1. bPc' \in {"query", "callback"} <=> bPc \in {"query", "callback"}
      BY <2>1
    <3>2. bPc' = "callback" <=> bPc = "callback"
      BY <2>1
    <3> QED
      BY <2>1, <3>1, <3>2
  <2> QED
    BY <1>3, <2>2, <2>3
<1>4. CASE UNCHANGED accepted /\ (BFlushPop \/ (bFlush # NoTask /\ BFlushRun))
  <2>1. bList # <<>> => Head(bList) \in Query /\ Tail(bList) \in Seq(Query)
    OBVIOUS
  <2>2. CASE BFlushPop
    BY <1>4, <2>1, <2>2 DEF BFlushPop
  <2>3. CASE bFlush # NoTask /\ BFlushRun
    BY <1>4, <2>3 DEF BFlushRun
  <2> QED
    BY <1>4, <2>2, <2>3
<1>5. CASE UNCHANGED accepted /\ BOwn
  <2>1. bList # <<>> => Head(bList) \in Query /\ Tail(bList) \in Seq(Query)
    OBVIOUS
  <2>2. CASE BTake
    BY <1>5, <2>1, <2>2, DatabaseAssumption DEF BTake
  <2>3. CASE BExecute
    BY <1>5, <2>3, DatabaseAssumption DEF BExecute
  <2> QED
    BY <1>5, <2>2, <2>3 DEF BOwn, BLoopHead, BWait, BNothingThere
<1>6. CASE UNCHANGED accepted /\ BCallback
  BY <1>6 DEF BCallback
<1>7. CASE \E p \in Producer, q \in Query :
             /\ Create(q) /\ BAddTask(p, q)
             /\ accepted' = IF bState = "RUNNING" THEN Append(accepted, q) ELSE accepted
  BY <1>2, <1>7
<1> QED
  BY <1>1, <1>3, <1>4, <1>5, <1>6, <1>7 DEF QMove

-----------------------------------------------------------------------------
(* The events *)

SMove ==
  \/ UNCHANGED sVars
  \/ \E e \in Event : SAddEvent(e) \/ SStopEvent(e) \/ SExpire(e)
  \/ SStop \/ SShutdown \/ SThread

\* What the scheduler and its users do is such a move.
LEMMA EventMoves ==
  ASSUME BaseInv, [Next]_vars
  PROVE  SMove
<1>1. ASSUME NEW p \in Producer, Notify(p)
      PROVE  SMove
  BY <1>1 DEF Notify, SMove
<1>2. CASE NetworkRun \/ MainEnd \/ SetShutdown \/ SaveState \/ FlushPop \/ FlushRun \/ FlushEnd
  BY <1>2 DEF NetworkRun, NewQuery, MainEnd, SetShutdown, SaveState, FlushPop, FlushRun, FlushEnd, SMove
<1>3. CASE EnqueueShutdown \/ StopServices \/ EndTask \/ StopQueues \/ EndQueues
  BY <1>3 DEF EnqueueShutdown, StopServices, EndTask, StopQueues, EndQueues, SMove
<1>4. CASE PlainCall
  BY <1>4 DEF PlainCall, NewQuery, NewEvent, CancelEvent, SMove
<1>5. CASE SchedulerRun
  BY <1>5 DEF SchedulerRun, SMove
<1>6. CASE DatabaseRun \/ (\E e \in Event : Expire(e)) \/ Spurious
  BY <1>6 DEF DatabaseRun, Expire, Spurious, SMove
<1>7. CASE (DLoopHead \/ DTake \/ DWait \/ DNothingThere) /\ UNCHANGED <<bVars, sVars, gVars>>
  BY <1>7 DEF SMove
<1>8. CASE UNCHANGED vars
  BY <1>8 DEF vars, SMove
<1> QED
  BY <1>1, <1>2, <1>3, <1>4, <1>5, <1>6, <1>7, <1>8 DEF Next, DispatcherRun

\* What the drain makes of the armed timers: one completion each.
Aborted == {Completion(e, TRUE) : e \in armed}

\* The completions a shutdown of the scheduler queues, in some order.
LEMMA DrainOrder ==
  ASSUME STypeOK, IsFiniteSet(armed)
  PROVE  /\ SetToSeq(Aborted) \in Seq(Aborted)
         /\ \A i, j \in DOMAIN SetToSeq(Aborted) :
               SetToSeq(Aborted)[i] = SetToSeq(Aborted)[j] => i = j
<1> DEFINE f == [e \in armed |-> Completion(e, TRUE)]
<1>1. \A d, e \in armed : f[d] = f[e] => d = e
  BY DEF Completion
<1>2. f \in Bijection(armed, Aborted)
  BY <1>1 DEF Aborted, Bijection, Injection, Surjection, IsInjective
<1>3. IsFiniteSet(Aborted)
  BY <1>2, FS_Bijection DEF ExistsBijection
<1>4. PICK g \in Bijection(1..Cardinality(Aborted), Aborted) : TRUE
  BY <1>3, FS_CardinalityType DEF ExistsBijection
<1>5. g \in [1..Cardinality(Aborted) -> Aborted] /\ IsInjective(g)
  BY <1>4 DEF Bijection, Injection
<1>6. /\ SetToSeq(Aborted) \in [1..Cardinality(Aborted) -> Aborted]
      /\ IsInjective(SetToSeq(Aborted))
  BY <1>5 DEF SetToSeq
<1>7. Cardinality(Aborted) \in Nat
  BY <1>3, FS_CardinalityType
<1> QED
  BY <1>6, <1>7 DEF IsInjective

\* Those moves keep the type of the scheduler.
LEMMA EventTypes ==
  ASSUME STypeOK, IsFiniteSet(armed), SMove
  PROVE  STypeOK' /\ IsFiniteSet(armed')
<1> USE DEF STypeOK
<1>1. CASE UNCHANGED sVars
  BY <1>1 DEF sVars
<1>2. \A e \in Event : /\ ArmHandler(e) \in Handler
                      /\ CancelHandler(e) \in Handler
                      /\ Completion(e, TRUE) \in Handler
                      /\ Completion(e, FALSE) \in Handler
  <2> SUFFICES ASSUME NEW e \in Event
               PROVE  /\ ArmHandler(e) \in Handler
                      /\ CancelHandler(e) \in Handler
                      /\ Completion(e, TRUE) \in Handler
                      /\ Completion(e, FALSE) \in Handler
    OBVIOUS
  <2>1. ArmHandler(e) \in Handler /\ CancelHandler(e) \in Handler
    BY DEF Handler
  <2>2. \A a \in BOOLEAN : Completion(e, a) \in Handler
    BY DEF Handler
  <2>3. Completion(e, TRUE) \in Handler /\ Completion(e, FALSE) \in Handler
    BY <2>2, Zenon
  <2> QED
    BY <2>1, <2>3
<1>9. \A h \in Handler : Append(posted, h) \in Seq(Handler)
  OBVIOUS
<1>3. ASSUME NEW e \in Event, SAddEvent(e) \/ SStopEvent(e)
      PROVE  STypeOK' /\ IsFiniteSet(armed')
  <2>1. posted' \in Seq(Handler)
    BY <1>2, <1>3, <1>9, Zenon DEF SAddEvent, SStopEvent, SPost
  <2> QED
    BY <1>3, <2>1 DEF SAddEvent, SStopEvent, SPost
<1>4. ASSUME NEW e \in Event, SExpire(e)
      PROVE  STypeOK' /\ IsFiniteSet(armed')
  <2>1. IsFiniteSet(armed \ {e})
    BY FS_RemoveElement
  <2>2. armed' = armed \ {e}
    BY <1>4 DEF SExpire
  <2>3. IsFiniteSet(armed')
    BY <2>1, <2>2, Zenon
  <2>4. posted' \in Seq(Handler)
    BY <1>2, <1>4, <1>9, Zenon DEF SExpire
  <2>5. STypeOK'
    BY <1>4, <2>2, <2>4 DEF SExpire
  <2> QED
    BY <2>3, <2>5
<1>5. CASE SStop \/ SShutdown
  <2>1. DrainHandler \in Handler
    BY DEF Handler
  <2> QED
    BY <1>5, <2>1 DEF SStop, SShutdown, SPost, ThreadState
<1>6. CASE SExit
  BY <1>6 DEF SExit
<1>7. CASE SHandle
  <2>1. PICK h : h = Head(posted) /\ (SArm(h) \/ SCancel(h) \/ SComplete(h) \/ SDrain(h))
    BY <1>7 DEF SHandle
  <2>2. h \in Handler /\ Tail(posted) \in Seq(Handler) /\ UNCHANGED <<sState, sPc>>
    BY <1>7, <2>1 DEF SHandle
  <2>3. h.op \in {"arm", "cancel", "timer"} => h.event \in Event
    BY <2>2 DEF Handler, ArmHandler, CancelHandler, Completion, DrainHandler
  <2>4. CASE SArm(h)
    BY <2>2, <2>3, <2>4, FS_AddElement DEF SArm
  <2>5. CASE SCancel(h)
    <3>1. IsFiniteSet(armed \ {h.event}) /\ Completion(h.event, TRUE) \in Handler
      BY <1>2, <2>3, <2>5, FS_RemoveElement DEF SCancel
    <3>2. armed' = armed \ {h.event}
      BY <2>5 DEF SCancel
    <3>3. IsFiniteSet(armed')
      BY <3>1, <3>2, Zenon
    <3>4. posted' \in Seq(Handler)
      <4>1. \A x \in Handler : Append(Tail(posted), x) \in Seq(Handler)
        BY <2>2
      <4> QED
        BY <2>2, <2>5, <3>1, <4>1, Zenon DEF SCancel
    <3> QED
      <4>1. STypeOK'
        BY <2>2, <2>5, <3>2, <3>4 DEF SCancel
      <4> QED
        BY <3>3, <4>1
  <2>6. CASE SComplete(h)
    BY <2>2, <2>6 DEF SComplete
  <2>7. CASE SDrain(h)
    <3>1. Aborted \subseteq Handler
      BY <1>2 DEF Aborted
    <3>2. SetToSeq(Aborted) \in Seq(Handler)
      BY <3>1, DrainOrder
    <3>3. Tail(posted) \o SetToSeq(Aborted) \in Seq(Handler)
      BY <2>2, <3>2
    <3>4. IsFiniteSet({})
      BY FS_EmptySet
    <3> QED
      BY <2>2, <2>7, <3>3, <3>4 DEF SDrain, Aborted
  <2> QED
    BY <2>1, <2>4, <2>5, <2>6, <2>7
<1> QED
  BY <1>1, <1>3, <1>4, <1>5, <1>6, <1>7 DEF SMove, SThread

-----------------------------------------------------------------------------
(* The rest of the state, and the invariant *)

RestOK ==
  /\ gameState \in {"NORMAL", "MAINTAIN", "SHUTDOWN"}
  /\ step \in Step
  /\ mainPc \in {"serving", "stopping", "joinScheduler", "joinDatabase",
                 "joinDispatcher", "exited"}
  /\ used \in SUBSET (Task \cup Query)

\* Only the dispatcher thread moves on in a task, and only its end is not
\* within it.
LEMMA RestTypes ==
  ASSUME BaseInv, [Next]_vars
  PROVE  RestOK' /\ Flushing'
<1>0. RestOK /\ Flushing /\ BTypeOK /\ DTypeOK
  BY DEF BaseInv, ServerTypeOK, RestOK
<1>1. UNCHANGED <<step, bFlush>> /\ (dPc = "run" => dPc' = "run") => Flushing'
  BY <1>0 DEF Flushing
<1>2. CASE UNCHANGED <<gVars, bFlush>> /\ (dPc = "run" => dPc' = "run")
  BY <1>0, <1>1, <1>2 DEF gVars, RestOK
<1>3. ASSUME NEW p \in Producer, Notify(p)
      PROVE  UNCHANGED <<gVars, bFlush>> /\ (dPc = "run" => dPc' = "run")
  BY <1>3 DEF Notify, DNotifyOne, DWake, BNotifyOne, bVars, dVars
<1>4. CASE NetworkRun
  <2>1. used' \in SUBSET (Task \cup Query) /\ UNCHANGED <<gameState, step, mainPc, bFlush, dPc>>
    BY <1>0, <1>4, ServerAssumption
       DEF NetworkRun, NewQuery, Create, RestOK, DAddTask, BAddTask, bVars, dVars
  <2> QED
    BY <1>0, <1>1, <2>1 DEF RestOK
<1>5. CASE PlainCall
  <2>1. used' \in SUBSET (Task \cup Query) /\ UNCHANGED <<gameState, step, mainPc, bFlush, dPc>>
    BY <1>0, <1>5, SchedulerAssumption
       DEF PlainCall, NewQuery, NewEvent, CancelEvent, Create, RestOK, BAddTask, gVars, bVars, dVars
  <2> QED
    BY <1>0, <1>1, <2>1 DEF RestOK
<1>6. CASE MainEnd \/ StopServices
  BY <1>0, <1>6 DEF MainEnd, StopServices, At, RestOK, Flushing, Step, bVars, dVars
<1>7. CASE SetShutdown \/ SaveState
  BY <1>0, <1>7 DEF SetShutdown, SaveState, At, GoTo, RestOK, Flushing, Step, bVars, dVars
<1>8. CASE FlushEnd
  <2>1. AfterFlush \in Step \ {"flushRun"}
    BY DEF AfterFlush, Step
  <2> QED
    BY <1>0, <1>8, <2>1 DEF FlushEnd, At, GoTo, RestOK, Flushing, bVars, dVars
<1>9. CASE FlushPop
  BY <1>0, <1>9, DatabaseAssumption
     DEF FlushPop, BFlushPop, BTypeOK, At, GoTo, RestOK, Flushing, Step, dVars
<1>10. CASE FlushRun
  BY <1>0, <1>10 DEF FlushRun, BFlushRun, DAddTask, At, GoTo, RestOK, Flushing, Step, dVars
<1>11. CASE EnqueueShutdown \/ EndTask
  BY <1>0, <1>11 DEF EnqueueShutdown, EndTask, DAddTask, DFinish, At, GoTo, RestOK, Flushing, Step, bVars
<1>12. CASE StopQueues
  BY <1>0, <1>12 DEF StopQueues, BSetState, DStop, At, GoTo, RestOK, Flushing, Step, bVars, dVars
<1>13. CASE EndQueues
  BY <1>0, <1>13
     DEF EndQueues, BSetState, BNotifyShutdown, DShutdown, DWake, At, GoTo, RestOK, Flushing, Step, bVars, dVars
<1>14. CASE (DLoopHead \/ DTake \/ DWait \/ DNothingThere) /\ UNCHANGED <<bVars, sVars, gVars>>
  BY <1>2, <1>14 DEF DLoopHead, DTake, DWait, DNothingThere, bVars
<1>15. CASE DatabaseRun
  <2>1. UNCHANGED <<gVars, bFlush, dPc>>
    BY <1>15 DEF DatabaseRun, BThread, BOwn, BLoopHead, BTake, BWait, BNothingThere,
                 BExecute, BCallback, DAddTask, dVars
  <2> QED
    BY <1>2, <2>1
<1>16. CASE SchedulerRun
  <2>1. UNCHANGED <<gVars, bFlush, dPc>>
    BY <1>16 DEF SchedulerRun, SThread, SHandle, SExit, SArm, SCancel, SComplete, SDrain,
                 DAddTask, bVars, dVars
  <2> QED
    BY <1>2, <2>1
<1>17. CASE (\E e \in Event : Expire(e)) \/ Spurious \/ UNCHANGED vars
  BY <1>2, <1>17 DEF Expire, Spurious, DSpuriousWakeup, BSpuriousWakeup, vars, bVars, dVars
<1> QED
  BY <1>2, <1>3, <1>4, <1>5, <1>6, <1>7, <1>8, <1>9, <1>10, <1>11, <1>12, <1>13, <1>14, <1>15,
     <1>16, <1>17 DEF Next, DispatcherRun

\* The invariant every other one rests on holds at the start,
LEMMA BaseInit == Init => BaseInv
<1> SUFFICES ASSUME Init PROVE BaseInv
  OBVIOUS
<1>1. DInv /\ DTypeOK
  BY InitInv DEF Init, DInv
<1>2. BTypeOK /\ InHand
  BY DEF Init, BInit, BTypeOK, InHand, ThreadState
<1>3. STypeOK /\ IsFiniteSet(armed)
  BY FS_EmptySet DEF Init, SInit, STypeOK, ThreadState
<1>4. RestOK /\ Flushing /\ accepted \in Seq(Query)
  BY DEF Init, RestOK, Flushing, Step, BInit
<1> QED
  BY <1>1, <1>2, <1>3, <1>4 DEF BaseInv, ServerTypeOK, RestOK

\* every step keeps it,
LEMMA BaseStep == BaseInv /\ [Next]_vars => BaseInv'
<1> SUFFICES ASSUME BaseInv, [Next]_vars PROVE BaseInv'
  OBVIOUS
<1>1. DInv' /\ DTypeOK'
  BY DispatcherMoves, MoveInv DEF BaseInv, DInv
<1>2. BTypeOK' /\ InHand' /\ accepted' \in Seq(Query)
  BY QueryMoves, QueryTypes DEF BaseInv, ServerTypeOK
<1>3. STypeOK' /\ IsFiniteSet(armed')
  BY EventMoves, EventTypes DEF BaseInv
<1>4. RestOK' /\ Flushing'
  BY RestTypes
<1> QED
  BY <1>1, <1>2, <1>3, <1>4 DEF BaseInv, ServerTypeOK, RestOK

\* so it always holds.
LEMMA Based == Spec => []BaseInv
BY BaseInit, BaseStep, PTL DEF Spec

\* The variables of the four threads keep their types, whatever messages,
\* events, queries and signals there are.
THEOREM ServerTypeCorrect == Spec => []ServerTypeOK
BY Based, PTL DEF BaseInv

\* With all the uses the server makes of it, a shutdown included, the
\* dispatcher thread never sleeps over a task with no signal owed.
THEOREM ServerNeverSleepsOverWork == Spec => []NoSleepOverWork
BY Based, PTL DEF BaseInv, DInv

\* In the whole server too the dispatcher is the queue with one worker.
THEOREM ServerQueueRefined ==
  Spec => Queue!Init /\ [][Queue!Next]_(Queue!vars)
<1>1. Init => Queue!Init
  BY InitQueue DEF Init
<1>2. BaseInv /\ [Next]_vars => [Queue!Next]_(Queue!vars)
  BY DispatcherMoves, MoveQueue DEF BaseInv
<1> QED
  BY <1>1, <1>2, Based, PTL DEF Spec

-----------------------------------------------------------------------------
(* The phases of a shutdown *)

Never(t) == \A i \in DOMAIN taskList : taskList[i] # t

Once(t) ==
  \E i \in DOMAIN taskList :
    taskList[i] = t /\ \A j \in DOMAIN taskList : taskList[j] = t => j = i

AtTheEnd(t) ==
  /\ taskList # <<>>
  /\ \A i \in DOMAIN taskList : taskList[i] = t <=> i = Len(taskList)

\* What other threads, and a task of the game, may do to the list.
QuietList ==
  \/ UNCHANGED taskList
  \/ /\ dState = "RUNNING"
     /\ \E t \in Task \ {GameShutdown, Terminate} : taskList' = Append(taskList, t)

\* A task added behind the last one spoils none of what is known of the list.
LEMMA QuietListKept ==
  ASSUME DTypeOK, QuietList
  PROVE  /\ Never(GameShutdown) => Never(GameShutdown)'
         /\ Never(Terminate) => Never(Terminate)'
         /\ Once(GameShutdown) => Once(GameShutdown)'
         /\ dState # "RUNNING" => UNCHANGED taskList
<1>1. CASE UNCHANGED taskList
  BY <1>1 DEF Never, Once
<1>2. CASE dState = "RUNNING" /\ \E t \in Task \ {GameShutdown, Terminate} : taskList' = Append(taskList, t)
  <2>1. PICK t \in Task \ {GameShutdown, Terminate} : taskList' = Append(taskList, t)
    BY <1>2
  <2>2. /\ DOMAIN taskList' = 1..(Len(taskList) + 1)
        /\ taskList'[Len(taskList) + 1] = t
        /\ \A i \in 1..Len(taskList) : taskList'[i] = taskList[i]
        /\ DOMAIN taskList = 1..Len(taskList) /\ Len(taskList) \in Nat
    BY <2>1 DEF DTypeOK
  <2>3. Never(GameShutdown) => Never(GameShutdown)'
    BY <2>2 DEF Never
  <2>4. Never(Terminate) => Never(Terminate)'
    BY <2>2 DEF Never
  <2>5. ASSUME Once(GameShutdown) PROVE Once(GameShutdown)'
    <3>1. PICK i \in 1..Len(taskList) :
            taskList[i] = GameShutdown /\ \A j \in 1..Len(taskList) : taskList[j] = GameShutdown => j = i
      BY <2>2, <2>5 DEF Once
    <3>2. i \in DOMAIN taskList' /\ taskList'[i] = GameShutdown
      BY <2>2, <3>1
    <3>3. \A j \in DOMAIN taskList' : taskList'[j] = GameShutdown => j = i
      BY <2>2, <3>1
    <3> QED
      BY <3>2, <3>3 DEF Once
  <2> QED
    BY <1>2, <2>3, <2>4, <2>5
<1> QED
  BY <1>1, <1>2 DEF QuietList

\* Taking the front of the list keeps what is known of the rest.
LEMMA FrontTaken ==
  ASSUME DTypeOK, taskList # <<>>, taskList' = Tail(taskList), NEW t
  PROVE  /\ Never(t) => Head(taskList) # t /\ Never(t)'
         /\ Once(t) => IF Head(taskList) = t THEN Never(t)' ELSE Once(t)'
         /\ AtTheEnd(t) => IF Head(taskList) = t THEN taskList' = <<>> ELSE AtTheEnd(t)'
<1>1. /\ Len(taskList) \in Nat \ {0} /\ DOMAIN taskList = 1..Len(taskList)
      /\ DOMAIN taskList' = 1..(Len(taskList) - 1) /\ Len(taskList') = Len(taskList) - 1
      /\ \A i \in 1..(Len(taskList) - 1) : taskList'[i] = taskList[i + 1]
      /\ Head(taskList) = taskList[1]
  BY DEF DTypeOK
<1>2. Never(t) => Head(taskList) # t /\ Never(t)'
  BY <1>1 DEF Never
<1>3. ASSUME Once(t) PROVE IF Head(taskList) = t THEN Never(t)' ELSE Once(t)'
  <2>1. PICK i \in 1..Len(taskList) :
          taskList[i] = t /\ \A j \in 1..Len(taskList) : taskList[j] = t => j = i
    BY <1>1, <1>3 DEF Once
  <2>2. CASE Head(taskList) = t
    <3>1. i = 1
      BY <1>1, <2>1, <2>2
    <3> QED
      BY <1>1, <2>1, <2>2, <3>1 DEF Never
  <2>3. CASE Head(taskList) # t
    <3>1. i - 1 \in 1..(Len(taskList) - 1) /\ taskList'[i - 1] = t
      BY <1>1, <2>1, <2>3
    <3>2. \A j \in 1..(Len(taskList) - 1) : taskList'[j] = t => j = i - 1
      BY <1>1, <2>1
    <3>3. i - 1 \in DOMAIN taskList' /\ \A j \in DOMAIN taskList' : taskList'[j] = t => j = i - 1
      BY <1>1, <3>1, <3>2
    <3> QED
      BY <2>3, <3>1, <3>3 DEF Once
  <2> QED
    BY <2>2, <2>3
<1>4. ASSUME AtTheEnd(t) PROVE IF Head(taskList) = t THEN taskList' = <<>> ELSE AtTheEnd(t)'
  <2>1. Head(taskList) = t <=> Len(taskList) = 1
    BY <1>1, <1>4 DEF AtTheEnd
  <2>2. Len(taskList) = 1 => taskList' = <<>>
    BY <1>1 DEF DTypeOK
  <2>3. ASSUME Len(taskList) # 1 PROVE AtTheEnd(t)'
    <3>1. ASSUME NEW i \in 1..(Len(taskList) - 1)
          PROVE  taskList'[i] = t <=> i = Len(taskList) - 1
      <4>1. i + 1 \in DOMAIN taskList /\ taskList'[i] = taskList[i + 1]
        BY <1>1
      <4>2. taskList[i + 1] = t <=> i + 1 = Len(taskList)
        BY <1>4, <4>1 DEF AtTheEnd
      <4>3. i + 1 = Len(taskList) <=> i = Len(taskList) - 1
        BY <1>1
      <4> QED
        BY <4>1, <4>2, <4>3
    <3>2. taskList' # <<>>
      BY <1>1, <2>3
    <3> QED
      BY <1>1, <3>1, <3>2 DEF AtTheEnd
  <2> QED
    BY <2>1, <2>2, <2>3
<1> QED
  BY <1>2, <1>3, <1>4

\* NORMAL or saving; nobody has asked for the end.
Open ==
  /\ gameState # "SHUTDOWN" /\ dState = "RUNNING" /\ bState = "RUNNING"
  /\ Never(GameShutdown) /\ Never(Terminate)
  /\ dTask \notin {GameShutdown, Terminate}
  /\ dTask \in Signal => step = "body"

\* setGameState saves before it closes anything.
Asked ==
  /\ gameState = "SHUTDOWN" /\ dState = "RUNNING" /\ bState = "RUNNING"
  /\ Never(GameShutdown) /\ Never(Terminate)
  /\ dTask \in Signal /\ step \in {"flush", "flushRun", "enqueue"}

\* The last task but one is queued; the queues are closed one by one.
Closing ==
  /\ gameState = "SHUTDOWN" /\ dState = "RUNNING"
  /\ bState \in {"RUNNING", "CLOSING"} /\ (step = "stopDispatcher" => bState = "CLOSING")
  /\ Once(GameShutdown) /\ Never(Terminate)
  /\ dTask \in Signal /\ step \in {"stopScheduler", "stopDatabase", "stopDispatcher"}

\* What was accepted is worked off up to Game::shutdown.
Closed ==
  /\ gameState = "SHUTDOWN" /\ dState = "CLOSING" /\ bState = "CLOSING"
  /\ Once(GameShutdown) /\ Never(Terminate)
  /\ dTask \notin {GameShutdown, Terminate}
  /\ dTask \in Signal => step \in {"body", "done"}

\* Game::shutdown, up to the shutdown of the dispatcher.
Ending ==
  /\ gameState = "SHUTDOWN" /\ dState = "CLOSING"
  /\ Never(GameShutdown) /\ Never(Terminate)
  /\ dTask = GameShutdown
  /\ \/ bState = "CLOSING" /\ step \in {"body", "flush", "flushRun", "stopEvents", "stopQueries"}
     \/ bState = "TERMINATED" /\ step \in {"flush", "flushRun"}
     \/ bState = "TERMINATED" /\ bList = <<>> /\ step \in {"notifyDatabase", "endDispatcher"}

\* What was accepted after Game::shutdown, and then the task that ends it.
Emptied ==
  /\ gameState = "SHUTDOWN" /\ dState = "CLOSING" /\ bState = "TERMINATED" /\ bList = <<>>
  /\ Never(GameShutdown) /\ AtTheEnd(Terminate)
  /\ dTask # Terminate
  /\ dTask = GameShutdown => step \in {"stopServices", "done"}
  /\ dTask \in Signal => step \in {"body", "done"}

Ended ==
  /\ gameState = "SHUTDOWN" /\ bState = "TERMINATED" /\ bList = <<>> /\ taskList = <<>>
  /\ \/ dState = "CLOSING" /\ dTask = Terminate
     \/ dState = "TERMINATED" /\ dTask = NoTask

Phase == Open \/ Asked \/ Closing \/ Closed \/ Ending \/ Emptied \/ Ended

\* Only these tasks have several steps.
TaskSteps ==
  /\ dTask \notin Signal \cup {SaveGame, GameShutdown} => step = "body"
  /\ dTask = SaveGame => step \in {"body", "flush", "flushRun", "done"}

PhaseInv == Phase /\ TaskSteps /\ (dPc = "exit" => dState = "TERMINATED")

\* Nothing that the phase depends on but for the two lists.
QuietStep ==
  /\ UNCHANGED <<gameState, dState, bState, dTask, step>>
  /\ QuietList
  /\ bState # "RUNNING" /\ bList = <<>> => bList' = <<>>

\* A step that leaves the dispatcher and the states alone stays in its phase.
LEMMA QuietPhase ==
  ASSUME DTypeOK, Phase, QuietStep
  PROVE  Phase'
<1>1. /\ Never(GameShutdown) => Never(GameShutdown)'
      /\ Never(Terminate) => Never(Terminate)'
      /\ Once(GameShutdown) => Once(GameShutdown)'
      /\ dState # "RUNNING" => UNCHANGED taskList
  BY QuietListKept DEF QuietStep
<1>2. UNCHANGED taskList => (AtTheEnd(Terminate) => AtTheEnd(Terminate)')
  BY DEF AtTheEnd
<1>3. Open => Open'
  BY <1>1 DEF QuietStep, Open
<1>4. Asked => Asked'
  BY <1>1 DEF QuietStep, Asked
<1>5. Closing => Closing'
  BY <1>1 DEF QuietStep, Closing
<1>6. Closed => Closed'
  BY <1>1 DEF QuietStep, Closed
<1>7. Ending => Ending'
  BY <1>1 DEF QuietStep, Ending
<1>8. Emptied => Emptied'
  BY <1>1, <1>2 DEF QuietStep, Emptied
<1>9. Ended => Ended'
  BY <1>1 DEF QuietStep, Ended
<1> QED
  BY <1>3, <1>4, <1>5, <1>6, <1>7, <1>8, <1>9 DEF Phase

\* What the tasks and threads are, and are not.
LEMMA TaskKinds ==
  /\ NoTask \notin Task /\ Terminate \in Task
  /\ Signal \subseteq Task \ {Terminate, SaveGame, GameShutdown}
  /\ SaveGame \in Task \ {Terminate, GameShutdown}
  /\ GameShutdown \in Task \ {Terminate}
  /\ Plain \cap (Signal \cup {SaveGame, GameShutdown, Terminate}) = {}
BY DispatcherAssumption, DatabaseAssumption, SchedulerAssumption, ServerAssumption DEF Plain

\* So does adding a task that is neither a signal nor the shutdown.
LEMMA AddQuiet ==
  ASSUME NEW p, NEW t \in Task \ {GameShutdown, Terminate}, DAddTask(p, t, FALSE)
  PROVE  QuietList /\ UNCHANGED <<dState, dTask, dPc>>
BY DEF DAddTask, QuietList

\* The steps of the other threads, and what a message, an event or a
\* callback does.
OthersMove ==
  \/ \E p \in Producer : Notify(p)
  \/ NetworkRun \/ MainEnd \/ PlainCall
  \/ (DLoopHead \/ DWait \/ DNothingThere) /\ UNCHANGED <<bVars, sVars, gVars>>
  \/ DatabaseRun \/ SchedulerRun
  \/ (\E e \in Event : Expire(e)) \/ Spurious \/ UNCHANGED vars

\* All steps of the network, the database and the scheduler are of that kind.
LEMMA OthersQuiet ==
  ASSUME BaseInv, OthersMove, dPc = "exit" => dState = "TERMINATED"
  PROVE  QuietStep /\ (dPc' = "exit" => dState' = "TERMINATED")
<1>0. UNCHANGED dVars => UNCHANGED <<dState, dTask, dPc, taskList>>
  BY DEF dVars
<1>1. UNCHANGED bVars => UNCHANGED <<bState, bList>>
  BY DEF bVars
<1>2. UNCHANGED gVars => UNCHANGED <<gameState, step>>
  BY DEF gVars
<1>3. UNCHANGED <<dState, dTask, dPc, taskList, bState, bList, gameState, step>>
        => QuietStep /\ (dPc' = "exit" => dState' = "TERMINATED")
  BY DEF QuietStep, QuietList
<1>4. ASSUME NEW p \in Producer, Notify(p)
      PROVE  QuietStep /\ (dPc' = "exit" => dState' = "TERMINATED")
  BY <1>0, <1>1, <1>2, <1>4
     DEF Notify, DNotifyOne, DWake, BNotifyOne, QuietStep, QuietList
<1>5. ASSUME NEW p, NEW q \in Query, NewQuery(p, q)
      PROVE  QuietStep /\ (dPc' = "exit" => dState' = "TERMINATED")
  BY <1>0, <1>5 DEF NewQuery, BAddTask, QuietStep, QuietList
<1>6. CASE NetworkRun
  <2>1. ASSUME NEW t \in NetTask \cup Signal \cup {SaveGame},
               DAddTask(NetworkThread, t, FALSE),
               UNCHANGED <<bVars, sVars, gameState, step, mainPc, accepted>>
        PROVE  QuietStep /\ (dPc' = "exit" => dState' = "TERMINATED")
    <3>1. t \in Task \ {GameShutdown, Terminate}
      BY TaskKinds, ServerAssumption
    <3>2. QuietList /\ UNCHANGED <<dState, dTask, dPc>>
      BY <2>1, <3>1, AddQuiet
    <3> QED
      BY <1>1, <2>1, <3>2 DEF QuietStep
  <2> QED
    BY <1>5, <1>6, <2>1 DEF NetworkRun
<1>7. CASE MainEnd
  BY <1>0, <1>1, <1>3, <1>7 DEF MainEnd
<1>8. CASE PlainCall
  <2>1. ASSUME NEW e \in Event, NewEvent(e) \/ CancelEvent(e)
        PROVE  QuietStep /\ (dPc' = "exit" => dState' = "TERMINATED")
    BY <1>0, <1>1, <1>2, <1>3, <2>1 DEF NewEvent, CancelEvent
  <2> QED
    BY <1>5, <1>8, <2>1 DEF PlainCall
<1>9. CASE (DLoopHead \/ DWait \/ DNothingThere) /\ UNCHANGED <<bVars, sVars, gVars>>
  BY <1>1, <1>2, <1>9 DEF DLoopHead, DWait, DNothingThere, QuietStep, QuietList
<1>10. CASE DatabaseRun
  <2>1. CASE BOwn /\ UNCHANGED dVars
    BY <1>0, <1>2, <1>10, <2>1
       DEF DatabaseRun, BOwn, BLoopHead, BTake, BWait, BNothingThere, BExecute, QuietStep, QuietList
  <2>2. CASE BCallback
    <3>1. bTask \in Task \ {GameShutdown, Terminate}
      BY <2>2, DatabaseAssumption, ServerAssumption DEF BaseInv, InHand, BCallback
    <3>2. QuietList /\ UNCHANGED <<dState, dTask, dPc>>
      BY <2>2, <3>1, AddQuiet DEF BCallback
    <3> QED
      BY <1>2, <1>10, <2>2, <3>2 DEF DatabaseRun, BCallback, QuietStep
  <2> QED
    BY <1>10, <2>1, <2>2 DEF DatabaseRun, BThread
<1>11. CASE SchedulerRun
  <2>0. UNCHANGED <<bVars, gVars>> /\ SThread
    BY <1>11 DEF SchedulerRun
  <2>1. CASE SExit
    BY <1>0, <1>1, <1>2, <1>3, <2>0, <2>1 DEF SExit
  <2>2. CASE SHandle
    <3>1. PICK h : h = Head(posted) /\ (SArm(h) \/ SCancel(h) \/ SComplete(h) \/ SDrain(h))
      BY <2>2 DEF SHandle
    <3>2. h \in Handler
      BY <2>2, <3>1 DEF BaseInv, STypeOK, SHandle
    <3>3. CASE UNCHANGED dVars
      BY <1>0, <1>1, <1>2, <1>3, <2>0, <3>3
    <3>4. CASE h.op = "timer" /\ DAddTask(SchedulerThread, h.event, FALSE)
      <4>1. h.event \in Event
        BY <3>2, <3>4 DEF Handler, ArmHandler, CancelHandler, Completion, DrainHandler
      <4>2. h.event \in Task \ {GameShutdown, Terminate}
        BY <4>1, SchedulerAssumption, ServerAssumption
      <4>3. QuietList /\ UNCHANGED <<dState, dTask, dPc>>
        BY <3>4, <4>2, AddQuiet
      <4> QED
        BY <1>1, <1>2, <2>0, <4>3 DEF QuietStep
    <3> QED
      BY <3>1, <3>3, <3>4 DEF SArm, SCancel, SComplete, SDrain
  <2> QED
    BY <2>0, <2>1, <2>2 DEF SThread
<1>12. CASE (\E e \in Event : Expire(e)) \/ Spurious \/ UNCHANGED vars
  <2>1. CASE \E e \in Event : Expire(e)
    BY <1>0, <1>1, <1>2, <1>3, <2>1 DEF Expire
  <2>2. CASE Spurious
    BY <1>0, <1>1, <1>2, <2>2
       DEF Spurious, DSpuriousWakeup, BSpuriousWakeup, QuietStep, QuietList
  <2>3. CASE UNCHANGED vars
    BY <1>0, <1>1, <1>2, <1>3, <2>3 DEF vars
  <2> QED
    BY <1>12, <2>1, <2>2, <2>3
<1> QED
  BY <1>4, <1>6, <1>7, <1>8, <1>9, <1>10, <1>11, <1>12 DEF OthersMove

\* The same list again, with what is known of it.
LEMMA SameList ==
  ASSUME UNCHANGED taskList
  PROVE  /\ Never(GameShutdown) => Never(GameShutdown)'
         /\ Never(Terminate) => Never(Terminate)'
         /\ Once(GameShutdown) => Once(GameShutdown)'
         /\ AtTheEnd(Terminate) => AtTheEnd(Terminate)'
BY DEF Never, Once, AtTheEnd

\* A task that was added is in the list.
LEMMA Queued ==
  ASSUME DTypeOK, NEW t \in Task, taskList' = Append(taskList, t)
  PROVE  /\ Never(t) => Once(t)' /\ AtTheEnd(t)'
         /\ \A u \in Task \ {t} : Never(u) => Never(u)'
<1>1. /\ DOMAIN taskList' = 1..(Len(taskList) + 1) /\ Len(taskList') = Len(taskList) + 1
      /\ taskList'[Len(taskList) + 1] = t
      /\ \A i \in 1..Len(taskList) : taskList'[i] = taskList[i]
      /\ DOMAIN taskList = 1..Len(taskList) /\ Len(taskList) \in Nat
      /\ taskList' # <<>>
  BY DEF DTypeOK
<1>2. ASSUME Never(t) PROVE Once(t)' /\ AtTheEnd(t)'
  <2>1. \A i \in DOMAIN taskList' : taskList'[i] = t <=> i = Len(taskList')
    BY <1>1, <1>2 DEF Never
  <2>2. Len(taskList') \in DOMAIN taskList'
    BY <1>1
  <2> QED
    BY <1>1, <2>1, <2>2 DEF Once, AtTheEnd
<1>3. \A u \in Task \ {t} : Never(u) => Never(u)'
  BY <1>1 DEF Never
<1> QED
  BY <1>2, <1>3

\* setGameState and saveGameState, up to the end of their flush.
LEMMA SavePhase ==
  ASSUME BaseInv, PhaseInv, SetShutdown \/ SaveState \/ FlushPop \/ FlushRun \/ FlushEnd
  PROVE  Phase' /\ TaskSteps' /\ dPc' = "run"
<1>0. /\ DTypeOK /\ dPc = "run" /\ Phase /\ TaskSteps
      /\ dTask \in Signal \cup {SaveGame, GameShutdown}
  BY DEF BaseInv, ServerTypeOK, PhaseInv, SetShutdown, SaveState, FlushPop, FlushRun, FlushEnd, At, TaskSteps
<1>1. CASE SetShutdown
  <2>1. /\ UNCHANGED <<dState, taskList, dPc, dTask, bState, bList>>
        /\ step = "body" /\ dTask \in Signal /\ gameState' = "SHUTDOWN"
        /\ step' = IF gameState = "SHUTDOWN" THEN "done" ELSE "flush"
    BY <1>1 DEF SetShutdown, At, GoTo, dVars, bVars
  <2>2. TaskSteps' /\ dPc' = "run"
    BY <1>0, <2>1, TaskKinds DEF TaskSteps
  <2> SUFFICES Phase'
    BY <2>2
  <2>3. CASE Open
    BY <2>1, <2>3, SameList DEF Open, Asked, Phase
  <2>4. CASE Closed
    BY <2>1, <2>4, SameList DEF Closed, Phase
  <2>5. CASE Emptied
    BY <2>1, <2>5, SameList DEF Emptied, Phase
  <2> QED
    BY <1>0, <2>1, <2>2, <2>3, <2>4, <2>5, TaskKinds DEF Phase, Asked, Closing, Ending, Ended
<1>2. CASE SaveState
  <2>1. /\ UNCHANGED <<dState, taskList, dPc, dTask, bState, bList>>
        /\ step = "body" /\ dTask \in {SaveGame, GameShutdown} /\ step' = "flush"
        /\ gameState' = "SHUTDOWN" <=> gameState = "SHUTDOWN"
    BY <1>2 DEF SaveState, At, GoTo, dVars, bVars
  <2>2. TaskSteps' /\ dPc' = "run"
    BY <1>0, <2>1, TaskKinds DEF TaskSteps
  <2> SUFFICES Phase'
    BY <2>2
  <2>3. CASE Open
    BY <2>1, <2>3, SameList, TaskKinds DEF Open, Phase
  <2>4. CASE Closed
    BY <2>1, <2>4, SameList, TaskKinds DEF Closed, Phase
  <2>5. CASE Ending
    BY <2>1, <2>5, SameList DEF Ending, Phase
  <2>6. CASE Emptied
    BY <2>1, <2>6, SameList, TaskKinds DEF Emptied, Phase
  <2> QED
    BY <1>0, <2>1, <2>2, <2>3, <2>4, <2>5, <2>6, TaskKinds DEF Phase, Asked, Closing, Ended
<1>3. CASE FlushPop \/ FlushRun
  <2>1. /\ UNCHANGED <<dState, dPc, dTask, bState, gameState>>
        /\ QuietList
        /\ step \in {"flush", "flushRun"} /\ step' \in {"flush", "flushRun"}
        /\ bList = <<>> => bList' = <<>>
    <3>1. CASE FlushPop
      BY <3>1 DEF FlushPop, BFlushPop, At, GoTo, dVars, QuietList
    <3>2. CASE FlushRun
      <4>1. CASE bFlush \in WithCallback
        <5>1. bFlush \in Task \ {GameShutdown, Terminate}
          BY <4>1, DatabaseAssumption, ServerAssumption
        <5>2. DAddTask(DispatcherThread, bFlush, FALSE)
          BY <3>2, <4>1 DEF FlushRun, BFlushRun
        <5>3. QuietList /\ UNCHANGED <<dState, dTask, dPc>>
          BY <5>1, <5>2, AddQuiet
        <5> QED
          BY <3>2, <5>3 DEF FlushRun, BFlushRun, At, GoTo
      <4>2. CASE bFlush \notin WithCallback
        BY <3>2, <4>2 DEF FlushRun, BFlushRun, At, GoTo, dVars, QuietList
      <4> QED
        BY <4>1, <4>2
    <3> QED
      BY <1>3, <3>1, <3>2
  <2>2. /\ Never(GameShutdown) => Never(GameShutdown)'
        /\ Never(Terminate) => Never(Terminate)'
        /\ Once(GameShutdown) => Once(GameShutdown)'
        /\ dState # "RUNNING" => UNCHANGED taskList
    BY <1>0, <2>1, QuietListKept
  <2>3. TaskSteps' /\ dPc' = "run"
    BY <1>0, <2>1 DEF TaskSteps
  <2> SUFFICES Phase'
    BY <2>3
  <2>4. CASE Open
    BY <2>1, <2>2, <2>4 DEF Open, Phase
  <2>5. CASE Asked
    BY <2>1, <2>2, <2>5 DEF Asked, Phase
  <2>6. CASE Closed
    BY <2>1, <2>2, <2>6 DEF Closed, Phase
  <2>7. CASE Ending
    BY <2>1, <2>2, <2>7 DEF Ending, Phase
  <2>8. CASE Emptied
    BY <2>1, <2>2, <2>8, SameList DEF Emptied, Phase
  <2> QED
    BY <1>0, <2>1, <2>3, <2>4, <2>5, <2>6, <2>7, <2>8, TaskKinds DEF Phase, Closing, Ended
<1>4. CASE FlushEnd
  <2>1. /\ UNCHANGED <<dState, taskList, dPc, dTask, bState, bList>>
        /\ step = "flush" /\ bList = <<>> /\ step' = AfterFlush
        /\ gameState' = "SHUTDOWN" <=> gameState = "SHUTDOWN"
    BY <1>4 DEF FlushEnd, At, GoTo, dVars, bVars
  <2>2. /\ dTask \in Signal => AfterFlush = "enqueue"
        /\ dTask = SaveGame => AfterFlush = "done"
        /\ dTask = GameShutdown =>
             AfterFlush = IF bState = "TERMINATED" THEN "notifyDatabase" ELSE "stopEvents"
    BY TaskKinds DEF AfterFlush
  <2>3. TaskSteps' /\ dPc' = "run"
    BY <1>0, <2>1, <2>2, TaskKinds DEF TaskSteps
  <2> SUFFICES Phase'
    BY <2>3
  <2>4. CASE Open
    BY <1>0, <2>1, <2>2, <2>4, SameList, TaskKinds DEF Open, Phase
  <2>5. CASE Asked
    BY <2>1, <2>2, <2>5, SameList DEF Asked, Phase
  <2>6. CASE Closed
    BY <1>0, <2>1, <2>2, <2>6, SameList, TaskKinds DEF Closed, Phase
  <2>7. CASE Ending
    BY <2>1, <2>2, <2>7, SameList DEF Ending, Phase
  <2>8. CASE Emptied
    BY <1>0, <2>1, <2>2, <2>8, SameList, TaskKinds DEF Emptied, Phase
  <2> QED
    BY <1>0, <2>1, <2>3, <2>4, <2>5, <2>6, <2>7, <2>8, TaskKinds DEF Phase, Closing, Ended
<1> QED
  BY <1>1, <1>2, <1>3, <1>4

\* The rest of setGameState and of Game::shutdown.
LEMMA ClosePhase ==
  ASSUME BaseInv, PhaseInv, EnqueueShutdown \/ StopQueues \/ EndQueues \/ StopServices
  PROVE  Phase' /\ TaskSteps' /\ dPc' = "run"
<1>0. /\ DTypeOK /\ dPc = "run" /\ Phase /\ TaskSteps
      /\ dTask \in Signal \cup {SaveGame, GameShutdown}
  BY DEF BaseInv, ServerTypeOK, PhaseInv, EnqueueShutdown, StopQueues, EndQueues, StopServices, At, TaskSteps
<1>1. CASE EnqueueShutdown
  <2>1. /\ UNCHANGED <<dState, dPc, dTask, bState, gameState>>
        /\ step = "enqueue" /\ step' = "stopScheduler"
        /\ dState = "RUNNING" => taskList' = Append(taskList, GameShutdown)
    BY <1>1 DEF EnqueueShutdown, DAddTask, At, GoTo, bVars
  <2>2. Asked
    BY <1>0, <2>1, TaskKinds DEF Phase, Open, TaskSteps, Closing, Closed, Ending, Emptied, Ended
  <2>3. Once(GameShutdown)' /\ Never(Terminate)'
    BY <1>0, <2>1, <2>2, Queued, TaskKinds, DispatcherAssumption DEF Asked
  <2>4. Closing'
    BY <2>1, <2>2, <2>3 DEF Asked, Closing
  <2> QED
    BY <1>0, <2>1, <2>2, <2>4, TaskKinds DEF Asked, Phase, TaskSteps
<1>2. CASE StopQueues
  <2>1. /\ UNCHANGED <<taskList, dPc, dTask, gameState>>
        /\ step \in {"stopScheduler", "stopDatabase", "stopDispatcher"}
        /\ step = "stopScheduler" => step' = "stopDatabase" /\ UNCHANGED <<dState, bState>>
        /\ step = "stopDatabase" => step' = "stopDispatcher" /\ bState' = "CLOSING" /\ UNCHANGED dState
        /\ step = "stopDispatcher" => step' = "done" /\ dState' = "CLOSING" /\ UNCHANGED bState
    BY <1>2 DEF StopQueues, BSetState, DStop, At, GoTo, dVars, bVars
  <2>2. Closing
    BY <1>0, <2>1, TaskKinds DEF Phase, Open, Asked, TaskSteps, Closed, Ending, Emptied, Ended
  <2>3. CASE step = "stopDispatcher"
    BY <1>0, <2>1, <2>2, <2>3, SameList, TaskKinds DEF Closing, Closed, Phase, TaskSteps
  <2>4. CASE step # "stopDispatcher"
    BY <1>0, <2>1, <2>2, <2>4, SameList, TaskKinds DEF Closing, Phase, TaskSteps
  <2> QED
    BY <1>0, <2>1, <2>3, <2>4
<1>3. CASE EndQueues
  <2>1. /\ dPc' = dPc /\ UNCHANGED <<dState, dTask, gameState, bList>>
        /\ step \in {"stopEvents", "stopQueries", "notifyDatabase", "endDispatcher"}
        /\ step = "stopEvents" => step' = "stopQueries" /\ UNCHANGED <<taskList, bState>>
        /\ step = "stopQueries" => step' = "flush" /\ bState' = "TERMINATED" /\ UNCHANGED taskList
        /\ step = "notifyDatabase" => step' = "endDispatcher" /\ UNCHANGED <<taskList, bState>>
        /\ step = "endDispatcher" =>
             step' = "stopServices" /\ taskList' = Append(taskList, Terminate) /\ UNCHANGED bState
    BY <1>0, <1>3 DEF EndQueues, BSetState, BNotifyShutdown, DShutdown, DWake, At, GoTo, dVars, bVars
  <2>2. Ending
    BY <1>0, <2>1, TaskKinds DEF Phase, Open, Asked, Closing, TaskSteps, Closed, Emptied, Ended
  <2>3. TaskSteps' /\ dPc' = "run"
    BY <1>0, <2>1, <2>2, TaskKinds DEF Ending, TaskSteps
  <2> SUFFICES Phase'
    BY <2>3
  <2>4. CASE step = "endDispatcher"
    <3>1. AtTheEnd(Terminate)' /\ Never(GameShutdown)'
      BY <1>0, <2>1, <2>2, <2>4, Queued, TaskKinds, DispatcherAssumption DEF Ending
    <3> QED
      BY <2>1, <2>2, <2>3, <2>4, <3>1, TaskKinds DEF Ending, Emptied, Phase
  <2>5. CASE step # "endDispatcher"
    BY <2>1, <2>2, <2>3, <2>5, SameList DEF Ending, Phase
  <2> QED
    BY <2>4, <2>5, <2>3
<1>4. CASE StopServices
  <2>1. /\ UNCHANGED <<dState, taskList, dPc, dTask, bState, bList, gameState>>
        /\ step = "stopServices" /\ step' = "done"
    BY <1>4 DEF StopServices, At, dVars, bVars
  <2>2. Emptied /\ dTask = GameShutdown
    BY <1>0, <2>1, TaskKinds DEF Phase, Open, Asked, Closing, TaskSteps, Closed, Ending, Emptied, Ended
  <2> QED
    BY <1>0, <2>1, <2>2, SameList, TaskKinds DEF Emptied, Phase, TaskSteps
<1> QED
  BY <1>1, <1>2, <1>3, <1>4

\* A task is finished, and the next one taken.
LEMMA NextTaskPhase ==
  ASSUME BaseInv, PhaseInv, EndTask \/ (DTake /\ UNCHANGED <<bVars, sVars, gVars>>)
  PROVE  Phase' /\ TaskSteps' /\ dPc' \in {"run", "loop"}
<1>0. DTypeOK /\ Phase /\ TaskSteps /\ (dPc # "run" => step = "body")
  BY DEF BaseInv, ServerTypeOK, PhaseInv, Flushing
<1>1. CASE EndTask
  <2>1. /\ dTask # NoTask /\ dTask' = NoTask /\ dPc' = "loop" /\ step' = "body"
        /\ step = IF dTask \in Plain \cup {Terminate} THEN "body" ELSE "done"
        /\ dState' = IF dTask = Terminate THEN "TERMINATED" ELSE dState
        /\ UNCHANGED <<taskList, bState, bList, gameState>>
    BY <1>0, <1>1 DEF EndTask, DFinish, At, GoTo, bVars, DTypeOK
  <2>2. TaskSteps'
    BY <2>1, TaskKinds DEF TaskSteps
  <2> SUFFICES Phase'
    BY <2>1, <2>2
  <2>3. CASE Open
    BY <2>1, <2>3, SameList, TaskKinds DEF Open, Phase
  <2>4. CASE Closed
    BY <2>1, <2>4, SameList, TaskKinds DEF Closed, Phase
  <2>5. CASE Emptied
    BY <2>1, <2>5, SameList, TaskKinds DEF Emptied, Phase
  <2>6. CASE Ended
    BY <2>1, <2>6 DEF Ended, Phase
  <2> QED
    BY <1>0, <2>1, <2>2, <2>3, <2>4, <2>5, <2>6, TaskKinds DEF Phase, Asked, Closing, Ending
<1>2. CASE DTake /\ UNCHANGED <<bVars, sVars, gVars>>
  <2>1. /\ dTask = NoTask /\ step = "body" /\ taskList # <<>> /\ taskList' = Tail(taskList)
        /\ UNCHANGED <<dState, bState, bList, gameState, step>>
        /\ \/ dPc' = "run" /\ dTask' = Head(taskList)
           \/ dPc' = "loop" /\ dTask' = NoTask /\ Head(taskList) \in Timed
    BY <1>0, <1>2 DEF DTake, DPop, bVars, gVars, DTypeOK
  <2>2. TaskSteps'
    BY <2>1 DEF TaskSteps
  <2> SUFFICES Phase'
    BY <2>1, <2>2
  <2>3. \A t : /\ Never(t) => Head(taskList) # t /\ Never(t)'
               /\ Once(t) => IF Head(taskList) = t THEN Never(t)' ELSE Once(t)'
               /\ AtTheEnd(t) => IF Head(taskList) = t THEN taskList' = <<>> ELSE AtTheEnd(t)'
    BY <1>0, <2>1, FrontTaken
  <2>4. GameShutdown \notin Timed /\ Terminate \notin Timed /\ NoTask \notin {GameShutdown, Terminate}
    BY DispatcherAssumption, ServerAssumption
  <2>5. CASE Open
    BY <2>1, <2>3, <2>4, <2>5 DEF Open, Phase
  <2>6. CASE Closed
    <3>1. CASE Head(taskList) = GameShutdown
      BY <2>1, <2>3, <2>4, <2>6, <3>1 DEF Closed, Ending, Phase
    <3>2. CASE Head(taskList) # GameShutdown
      BY <2>1, <2>3, <2>4, <2>6, <3>2 DEF Closed, Phase
    <3> QED
      BY <3>1, <3>2
  <2>7. CASE Emptied
    <3>1. CASE Head(taskList) = Terminate
      BY <2>1, <2>3, <2>4, <2>7, <3>1 DEF Emptied, Ended, Phase
    <3>2. CASE Head(taskList) # Terminate
      BY <2>1, <2>3, <2>4, <2>7, <3>2 DEF Emptied, Phase
    <3> QED
      BY <3>1, <3>2
  <2> QED
    BY <1>0, <2>1, <2>2, <2>5, <2>6, <2>7, TaskKinds DEF Phase, Asked, Closing, Ending, Ended
<1> QED
  BY <1>1, <1>2

\* The server starts open,
LEMMA PhaseInit == Init => PhaseInv
<1> SUFFICES ASSUME Init PROVE PhaseInv
  OBVIOUS
<1>1. /\ gameState = "NORMAL" /\ dState = "RUNNING" /\ bState = "RUNNING"
      /\ taskList = <<>> /\ dTask = NoTask /\ step = "body" /\ dPc = "loop"
  BY DEF Init, DInit, BInit
<1>2. Never(GameShutdown) /\ Never(Terminate)
  BY <1>1 DEF Never
<1> QED
  BY <1>1, <1>2, TaskKinds DEF PhaseInv, Phase, Open, TaskSteps

\* and each step stays in its phase or enters the next one,
LEMMA PhaseStep == BaseInv /\ PhaseInv /\ [Next]_vars => PhaseInv'
<1> SUFFICES ASSUME BaseInv, PhaseInv, [Next]_vars PROVE PhaseInv'
  OBVIOUS
<1>1. CASE OthersMove
  <2>1. QuietStep /\ (dPc' = "exit" => dState' = "TERMINATED")
    BY <1>1, OthersQuiet DEF PhaseInv
  <2>2. Phase'
    BY <2>1, QuietPhase DEF PhaseInv, BaseInv, ServerTypeOK
  <2>3. TaskSteps'
    BY <2>1 DEF QuietStep, PhaseInv, TaskSteps
  <2> QED
    BY <2>1, <2>2, <2>3 DEF PhaseInv
<1>2. CASE SetShutdown \/ SaveState \/ FlushPop \/ FlushRun \/ FlushEnd
  BY <1>2, SavePhase DEF PhaseInv
<1>3. CASE EnqueueShutdown \/ StopQueues \/ EndQueues \/ StopServices
  BY <1>3, ClosePhase DEF PhaseInv
<1>4. CASE EndTask \/ (DTake /\ UNCHANGED <<bVars, sVars, gVars>>)
  BY <1>4, NextTaskPhase DEF PhaseInv
<1> QED
  BY <1>1, <1>2, <1>3, <1>4 DEF Next, DispatcherRun, OthersMove

\* so it is always in one of them.
LEMMA Phased == Spec => [](BaseInv /\ PhaseInv)
BY BaseInit, BaseStep, PhaseInit, PhaseStep, PTL DEF Spec

\* When its thread has gone, so has the last query to hand back.
LEMMA OverAtExit ==
  ASSUME BaseInv, PhaseInv, dPc = "exit"
  PROVE  taskList = <<>> /\ bList = <<>> /\ bFlush = NoTask
<1>1. dState = "TERMINATED" /\ step = "body"
  BY DEF PhaseInv, BaseInv, Flushing
<1>2. Ended
  BY <1>1 DEF PhaseInv, Phase, Open, Asked, Closing, Closed, Ending, Emptied
<1> QED
  BY <1>1, <1>2 DEF Ended, BaseInv, Flushing

\* Whatever tasks, events and signals come while the queues are closed: when
\* the dispatcher thread ends, it leaves no accepted task behind.
THEOREM NothingLeftBehind == Spec => []NoTaskLeftBehind
<1>1. BaseInv /\ PhaseInv => NoTaskLeftBehind
  BY OverAtExit DEF NoTaskLeftBehind
<1> QED
  BY <1>1, Phased, PTL

-----------------------------------------------------------------------------
(* The queries, counted *)

\* How many of the accepted queries have left the list.
Taken == Len(accepted) - Len(bList)

Executed(q) == \E i \in 1..Len(executed) : executed[i] = q

TakenQuery(q) == \E i \in 1..Taken : accepted[i] = q

\* The list is the end of what was accepted.
ListOrder ==
  /\ Len(bList) <= Len(accepted)
  /\ \A i \in 1..Len(bList) : bList[i] = accepted[Taken + i]

\* No query is accepted twice.
AcceptedOnce ==
  /\ \A i, j \in 1..Len(accepted) : accepted[i] = accepted[j] => i = j
  /\ \A i \in 1..Len(accepted) : accepted[i] \in used

\* What has left the list is executed or in one of two hands.
Balance ==
  Len(executed) + (IF bPc = "query" THEN 1 ELSE 0) + (IF bFlush # NoTask THEN 1 ELSE 0) = Taken

Served ==
  \A i \in 1..Taken : \/ Executed(accepted[i])
                      \/ bPc = "query" /\ bTask = accepted[i]
                      \/ bFlush = accepted[i]

\* And nothing else is.
Known ==
  /\ \A i \in 1..Len(executed) : TakenQuery(executed[i])
  /\ bPc = "query" => TakenQuery(bTask)
  /\ bFlush # NoTask => TakenQuery(bFlush)

Ledger == ListOrder /\ AcceptedOnce /\ Balance /\ Served /\ Known

QueryTypeOK == BTypeOK /\ InHand /\ accepted \in Seq(Query)

\* The lengths the ledger speaks of are natural numbers.
LEMMA LedgerSizes ==
  ASSUME QueryTypeOK
  PROVE  /\ Len(accepted) \in Nat /\ Len(bList) \in Nat /\ Len(executed) \in Nat
         /\ Taken \in Int
         /\ \A i \in 1..Len(accepted) : accepted[i] \in Query
         /\ NoTask \notin Query
BY DatabaseAssumption DEF QueryTypeOK, BTypeOK, Taken

\* Steps that touch no query.
LEMMA LedgerKept ==
  ASSUME QueryTypeOK, Ledger, used \subseteq used',
         UNCHANGED <<bList, accepted, executed, bFlush>>,
         bPc' = "query" <=> bPc = "query",
         bPc = "query" => bTask' = bTask
  PROVE  Ledger'
<1>1. UNCHANGED Taken /\ (\A q : TakenQuery(q)' <=> TakenQuery(q)) /\ (\A q : Executed(q)' <=> Executed(q))
  BY DEF Taken, TakenQuery, Executed
<1>2. ListOrder'
  BY <1>1 DEF Ledger, ListOrder
<1>3. AcceptedOnce'
  BY DEF Ledger, AcceptedOnce
<1>4. Balance'
  BY <1>1 DEF Ledger, Balance
<1>5. Served'
  BY <1>1 DEF Ledger, Served
<1>6. Known'
  BY <1>1 DEF Ledger, Known
<1> QED
  BY <1>2, <1>3, <1>4, <1>5, <1>6 DEF Ledger

\* A query is accepted: it is new.
LEMMA LedgerAccepts ==
  ASSUME QueryTypeOK, Ledger, NEW q \in Query, q \notin used, used' = used \cup {q},
         bList' = Append(bList, q), accepted' = Append(accepted, q),
         UNCHANGED <<bPc, bTask, bFlush, executed>>
  PROVE  Ledger'
<1>0. /\ Len(accepted) \in Nat /\ Len(bList) \in Nat /\ Taken \in Int
      /\ Len(accepted') = Len(accepted) + 1 /\ Len(bList') = Len(bList) + 1
      /\ \A i \in 1..Len(accepted) : accepted'[i] = accepted[i]
      /\ accepted'[Len(accepted) + 1] = q
      /\ \A i \in 1..Len(bList) : bList'[i] = bList[i]
      /\ bList'[Len(bList) + 1] = q
  BY LedgerSizes DEF QueryTypeOK, BTypeOK
<1>1. Taken' = Taken /\ Taken \in 0..Len(accepted) /\ Taken + Len(bList) = Len(accepted)
  BY <1>0 DEF Taken, Ledger, ListOrder
<1>2. (\A x : TakenQuery(x)' <=> TakenQuery(x)) /\ (\A x : Executed(x)' <=> Executed(x))
  BY <1>0, <1>1 DEF TakenQuery, Executed
<1>3. ListOrder'
  <2>1. ASSUME NEW i \in 1..(Len(bList) + 1)
        PROVE  bList'[i] = accepted'[Taken + i]
    <3>1. CASE i = Len(bList) + 1
      BY <1>0, <1>1, <3>1
    <3>2. CASE i \in 1..Len(bList)
      <4>1. Taken + i \in 1..Len(accepted)
        BY <1>0, <1>1, <3>2
      <4> QED
        BY <1>0, <3>2, <4>1 DEF Ledger, ListOrder
    <3>3. i = Len(bList) + 1 \/ i \in 1..Len(bList)
      BY <1>0
    <3> QED
      BY <3>1, <3>2, <3>3
  <2>2. Len(bList') <= Len(accepted')
    BY <1>0, <1>1
  <2> QED
    BY <1>0, <1>1, <2>1, <2>2 DEF ListOrder
<1>4. AcceptedOnce'
  <2>1. \A i \in 1..Len(accepted) : accepted[i] # q
    BY DEF Ledger, AcceptedOnce
  <2>2. \A i \in 1..(Len(accepted) + 1) : accepted'[i] \in used'
    BY <1>0 DEF Ledger, AcceptedOnce
  <2>3. \A i, j \in 1..(Len(accepted) + 1) : accepted'[i] = accepted'[j] => i = j
    BY <1>0, <2>1 DEF Ledger, AcceptedOnce
  <2> QED
    BY <1>0, <2>2, <2>3 DEF AcceptedOnce
<1>5. Balance'
  BY <1>1 DEF Ledger, Balance
<1>6. Served'
  BY <1>0, <1>1, <1>2 DEF Ledger, Served
<1>7. Known'
  BY <1>2 DEF Ledger, Known
<1> QED
  BY <1>3, <1>4, <1>5, <1>6, <1>7 DEF Ledger

\* A query is taken by one of the two threads, into an empty hand.
LEMMA LedgerTakes ==
  ASSUME QueryTypeOK, Ledger, used \subseteq used', bList # <<>>, bList' = Tail(bList),
         UNCHANGED <<accepted, executed>>,
         \/ /\ bFlush = NoTask /\ bFlush' = Head(bList)
            /\ UNCHANGED <<bPc, bTask>>
         \/ /\ bPc # "query" /\ bPc' = "query" /\ bTask' = Head(bList)
            /\ UNCHANGED bFlush
  PROVE  Ledger'
<1>0. /\ Len(accepted) \in Nat /\ Len(bList) \in Nat \ {0} /\ Taken \in Int
      /\ Len(bList') = Len(bList) - 1
      /\ \A i \in 1..(Len(bList) - 1) : bList'[i] = bList[i + 1]
      /\ Head(bList) = bList[1] /\ Head(bList) \in Query /\ NoTask \notin Query
      /\ Len(executed) \in Nat
  BY LedgerSizes DEF QueryTypeOK, BTypeOK
<1>1. /\ Taken' = Taken + 1 /\ Taken \in 0..Len(accepted) /\ Taken + Len(bList) = Len(accepted)
      /\ Taken + 1 \in 1..Len(accepted)
  BY <1>0 DEF Taken, Ledger, ListOrder
<1>2. accepted[Taken + 1] = Head(bList)
  BY <1>0 DEF Ledger, ListOrder
<1>3. /\ \A q : TakenQuery(q) => TakenQuery(q)'
      /\ \A q : q = Head(bList) => TakenQuery(q)'
      /\ \A q : Executed(q)' <=> Executed(q)
  <2>1. \A q : TakenQuery(q) => TakenQuery(q)'
    BY <1>0, <1>1 DEF TakenQuery
  <2>2. \A q : q = Head(bList) => TakenQuery(q)'
    BY <1>0, <1>1, <1>2 DEF TakenQuery
  <2>3. \A q : Executed(q)' <=> Executed(q)
    BY DEF Executed
  <2> QED
    BY <2>1, <2>2, <2>3
<1>4. ListOrder'
  <2>1. ASSUME NEW i \in 1..(Len(bList) - 1)
        PROVE  bList'[i] = accepted[Taken + 1 + i]
    <3>1. i + 1 \in 1..Len(bList) /\ Taken + (i + 1) = Taken + 1 + i
      BY <1>0
    <3> QED
      BY <1>0, <3>1 DEF Ledger, ListOrder
  <2> QED
    BY <1>0, <1>1, <2>1 DEF Ledger, ListOrder
<1>5. AcceptedOnce'
  BY DEF Ledger, AcceptedOnce
<1>6. Balance'
  <2>1. CASE bFlush = NoTask /\ bFlush' = Head(bList) /\ UNCHANGED <<bPc, bTask>>
    <3>1. bFlush' # NoTask
      BY <1>0, <2>1, Zenon
    <3>2. Len(executed) + (IF bPc = "query" THEN 1 ELSE 0) = Taken
      BY <1>0, <2>1 DEF Ledger, Balance
    <3> QED
      BY <1>0, <1>1, <2>1, <3>1, <3>2 DEF Balance
  <2>2. CASE bPc # "query" /\ bPc' = "query" /\ UNCHANGED bFlush
    BY <1>0, <1>1, <2>2 DEF Ledger, Balance
  <2> QED
    BY <2>1, <2>2
<1>7. Served'
  <2>1. \A i \in 1..Taken' : i \in 1..Taken \/ i = Taken + 1
    BY <1>0, <1>1
  <2>2. \A i \in 1..Taken : accepted[i] # NoTask
    BY <1>0, <1>1, LedgerSizes
  <2> QED
    BY <1>0, <1>2, <1>3, <2>1, <2>2 DEF Ledger, Served
<1>8. Known'
  <2>1. (\A i \in 1..Len(executed) : TakenQuery(executed[i]))'
    BY <1>3 DEF Ledger, Known
  <2>2. bPc' = "query" => TakenQuery(bTask)'
    BY <1>3 DEF Ledger, Known
  <2>3. bFlush' # NoTask => TakenQuery(bFlush)'
    BY <1>3 DEF Ledger, Known
  <2> QED
    BY <2>1, <2>2, <2>3 DEF Known
<1> QED
  BY <1>4, <1>5, <1>6, <1>7, <1>8 DEF Ledger

\* And executed there.
LEMMA LedgerExecutes ==
  ASSUME QueryTypeOK, Ledger, used \subseteq used', UNCHANGED <<bList, accepted>>,
         NEW q \in Query, executed' = Append(executed, q),
         \/ bFlush = q /\ bFlush' = NoTask /\ UNCHANGED <<bPc, bTask>>
         \/ bPc = "query" /\ bTask = q /\ bPc' # "query" /\ UNCHANGED bFlush
  PROVE  Ledger'
<1>0. /\ Len(executed) \in Nat /\ Taken \in Int /\ Taken' = Taken
      /\ Len(executed') = Len(executed) + 1
      /\ \A i \in 1..Len(executed) : executed'[i] = executed[i]
      /\ executed'[Len(executed) + 1] = q
      /\ q # NoTask
  BY LedgerSizes DEF QueryTypeOK, BTypeOK, Taken
<1>1. /\ \A x : TakenQuery(x)' <=> TakenQuery(x)
      /\ \A x : Executed(x) => Executed(x)'
      /\ Executed(q)'
  <2>1. \A x : TakenQuery(x)' <=> TakenQuery(x)
    BY <1>0 DEF TakenQuery
  <2>2. \A x : Executed(x) => Executed(x)'
    BY <1>0 DEF Executed
  <2>3. Executed(q)'
    BY <1>0 DEF Executed
  <2> QED
    BY <2>1, <2>2, <2>3
<1>2. ListOrder' /\ AcceptedOnce'
  BY <1>0 DEF Ledger, ListOrder, AcceptedOnce
<1>3. Balance'
  <2>1. CASE bFlush = q /\ bFlush' = NoTask /\ UNCHANGED <<bPc, bTask>>
    BY <1>0, <2>1 DEF Ledger, Balance
  <2>2. CASE bPc = "query" /\ bPc' # "query" /\ UNCHANGED bFlush
    BY <1>0, <2>2 DEF Ledger, Balance
  <2> QED
    BY <2>1, <2>2
<1>4. Served'
  BY <1>0, <1>1 DEF Ledger, Served
<1>5. Known'
  <2>1. TakenQuery(q)
    BY <1>0 DEF Ledger, Known
  <2>2. \A i \in 1..(Len(executed) + 1) : i \in 1..Len(executed) \/ i = Len(executed) + 1
    BY <1>0
  <2>3. \A i \in 1..(Len(executed) + 1) : TakenQuery(executed'[i])
    BY <1>0, <2>1, <2>2 DEF Ledger, Known
  <2>4. /\ bPc' = "query" => TakenQuery(bTask')
        /\ bFlush' # NoTask => TakenQuery(bFlush')
    BY DEF Ledger, Known
  <2> QED
    BY <1>0, <1>1, <2>3, <2>4 DEF Known
<1> QED
  BY <1>2, <1>3, <1>4, <1>5 DEF Ledger

\* The ledger is balanced at the start,
LEMMA LedgerInit == Init => Ledger
<1> SUFFICES ASSUME Init PROVE Ledger
  OBVIOUS
<1>1. /\ bList = <<>> /\ accepted = <<>> /\ executed = <<>> /\ bPc = "loop" /\ bFlush = NoTask
  BY DEF Init, BInit
<1>2. Len(bList) = 0 /\ Len(accepted) = 0 /\ Len(executed) = 0 /\ Taken = 0
  BY <1>1 DEF Taken
<1> QED
  BY <1>1, <1>2 DEF Ledger, ListOrder, AcceptedOnce, Balance, Served, Known

\* every step keeps it balanced,
LEMMA LedgerStep == BaseInv /\ Ledger /\ [Next]_vars => Ledger'
<1> SUFFICES ASSUME BaseInv, Ledger, [Next]_vars PROVE Ledger'
  OBVIOUS
<1>0. QueryTypeOK /\ QMove /\ used \subseteq used'
  BY QueryMoves DEF BaseInv, ServerTypeOK, QueryTypeOK
<1>1. CASE UNCHANGED <<bVars, accepted>>
  BY <1>0, <1>1, LedgerKept DEF bVars
<1>2. ASSUME NEW p \in Producer, NEW q \in Query, Create(q), BAddTask(p, q),
             accepted' = IF bState = "RUNNING" THEN Append(accepted, q) ELSE accepted
      PROVE  Ledger'
  <2>1. CASE bState = "RUNNING"
    BY <1>0, <1>2, <2>1, LedgerAccepts DEF Create, BAddTask
  <2>2. CASE bState # "RUNNING"
    BY <1>0, <1>2, <2>2, LedgerKept DEF BAddTask
  <2> QED
    BY <2>1, <2>2
<1>3. CASE BSignal /\ UNCHANGED accepted
  <2>1. /\ UNCHANGED <<bList, executed, bFlush, bTask>>
        /\ bPc' = "query" <=> bPc = "query"
    BY <1>3 DEF BSignal, BNotifyOne, BSetState, BNotifyShutdown, BSpuriousWakeup, BWake
  <2> QED
    BY <1>0, <1>3, <2>1, LedgerKept
<1>4. CASE bFlush = NoTask /\ BFlushPop /\ UNCHANGED accepted
  BY <1>0, <1>4, LedgerTakes DEF BFlushPop
<1>5. CASE bFlush # NoTask /\ BFlushRun /\ UNCHANGED accepted
  <2>1. bFlush \in Query
    BY <1>0, <1>5 DEF QueryTypeOK, BTypeOK
  <2> QED
    BY <1>0, <1>5, <2>1, LedgerExecutes DEF BFlushRun
<1>6. CASE BTake /\ UNCHANGED accepted
  BY <1>0, <1>6, LedgerTakes DEF BTake
<1>7. CASE BExecute /\ UNCHANGED accepted
  <2>1. bTask \in Query /\ bPc = "query" /\ bPc' # "query"
    BY <1>0, <1>7 DEF QueryTypeOK, BTypeOK, InHand, BExecute
  <2> QED
    BY <1>0, <1>7, <2>1, LedgerExecutes DEF BExecute
<1>8. CASE (BLoopHead \/ BWait \/ BNothingThere \/ BCallback) /\ UNCHANGED accepted
  <2>1. /\ UNCHANGED <<bList, executed, bFlush>>
        /\ bPc # "query" /\ bPc' # "query"
    BY <1>8 DEF BLoopHead, BWait, BNothingThere, BCallback
  <2> QED
    BY <1>0, <1>8, <2>1, LedgerKept
<1> QED
  BY <1>0, <1>1, <1>2, <1>3, <1>4, <1>5, <1>6, <1>7, <1>8 DEF QMove, BOwn

\* so it always is.
LEMMA Counted == Spec => [](BaseInv /\ PhaseInv /\ Ledger)
BY BaseInit, BaseStep, PhaseInit, PhaseStep, LedgerInit, LedgerStep, PTL DEF Spec

\* When both threads that execute queries have stopped, the accepted queries
\* have been executed, each once, and nothing else has.
THEOREM QueriesAlwaysDurable == Spec => []QueriesDurable
<1>1. ASSUME BaseInv, PhaseInv, Ledger, dPc = "exit", bPc \in {"exit", "waiting"}
      PROVE  Len(executed) = Len(accepted) /\ ToSet(executed) = ToSet(accepted)
  <2>1. bList = <<>> /\ bFlush = NoTask /\ bPc # "query"
    BY <1>1, OverAtExit
  <2>2. QueryTypeOK
    BY <1>1 DEF BaseInv, ServerTypeOK, QueryTypeOK
  <2>3. Taken = Len(accepted) /\ Len(accepted) \in Nat /\ Len(executed) \in Nat
    BY <2>1, <2>2, LedgerSizes DEF Taken
  <2>4. Len(executed) = Len(accepted)
    BY <1>1, <2>1, <2>3 DEF Ledger, Balance
  <2>5. \A i \in 1..Len(accepted) : Executed(accepted[i])
    BY <1>1, <2>1, <2>2, <2>3, LedgerSizes DEF Ledger, Served
  <2>6. \A i \in 1..Len(executed) : TakenQuery(executed[i])
    BY <1>1 DEF Ledger, Known
  <2>7. DOMAIN executed = 1..Len(executed) /\ DOMAIN accepted = 1..Len(accepted)
    BY <2>2 DEF QueryTypeOK, BTypeOK
  <2>8. \A q : q \in ToSet(executed) <=> q \in ToSet(accepted)
    BY <2>3, <2>5, <2>6, <2>7 DEF ToSet, Executed, TakenQuery
  <2> QED
    BY <2>4, <2>8
<1>2. BaseInv /\ PhaseInv /\ Ledger => QueriesDurable
  BY <1>1 DEF QueriesDurable
<1> QED
  BY <1>2, Counted, PTL

\* Two threads execute queries, yet a query is overtaken only while one of
\* them has it in hand.
THEOREM OvertakenOnlyInHand == Spec => []OnlyInHandOvertaken
<1>1. ASSUME BaseInv, Ledger, NEW i \in DOMAIN accepted, NEW j \in DOMAIN accepted,
             i < j, accepted[j] \in ToSet(executed)
      PROVE  accepted[i] \in ToSet(executed) \cup {bTask, bFlush}
  <2>1. QueryTypeOK
    BY <1>1 DEF BaseInv, ServerTypeOK, QueryTypeOK
  <2>2. /\ DOMAIN executed = 1..Len(executed) /\ DOMAIN accepted = 1..Len(accepted)
        /\ Len(accepted) \in Nat /\ Taken \in Int /\ Taken <= Len(accepted)
    BY <1>1, <2>1, LedgerSizes DEF QueryTypeOK, BTypeOK, Taken, Ledger, ListOrder
  <2>3. PICK n \in 1..Len(executed) : executed[n] = accepted[j]
    BY <1>1, <2>2 DEF ToSet
  <2>4. PICK k \in 1..Taken : accepted[k] = accepted[j]
    BY <1>1, <2>3 DEF Ledger, Known, TakenQuery
  <2>5. k = j
    BY <1>1, <2>2, <2>4 DEF Ledger, AcceptedOnce
  <2>6. i \in 1..Taken
    BY <1>1, <2>2, <2>5
  <2>7. Executed(accepted[i]) => accepted[i] \in ToSet(executed)
    BY <2>2 DEF Executed, ToSet
  <2> QED
    BY <1>1, <2>6, <2>7 DEF Ledger, Served
<1>2. BaseInv /\ Ledger => OnlyInHandOvertaken
  BY <1>1 DEF OnlyInHandOvertaken
<1> QED
  BY <1>2, Counted, PTL

-----------------------------------------------------------------------------
(* The owners of a task *)

\* The tasks that are deleted by whoever has them.
Kept == Event \cup NetTask

\* A handler that has a task, and does not only name it.
Holds(h, x) == h.op \in {"arm", "timer"} /\ h.event = x

InList(x) == \E i \in 1..Len(taskList) : taskList[i] = x
ListOnce(x) == \A i, j \in 1..Len(taskList) : taskList[i] = x /\ taskList[j] = x => i = j

InPosted(x) == \E i \in 1..Len(posted) : Holds(posted[i], x)
PostedOnce(x) ==
  \A i, j \in 1..Len(posted) : Holds(posted[i], x) /\ Holds(posted[j], x) => i = j

\* The places exclude each other, and a task not yet created is nowhere.
Own(x) ==
  /\ ListOnce(x) /\ PostedOnce(x)
  /\ x \in armed => ~InPosted(x) /\ ~InList(x) /\ dTask # x
  /\ InPosted(x) => ~InList(x) /\ dTask # x
  /\ InList(x) => dTask # x
  /\ x \notin used => x \notin armed /\ ~InPosted(x) /\ ~InList(x) /\ dTask # x

OwnInv == \A x \in Kept : Own(x)

\* An event and the callback of a query are tasks and no signal or shutdown.
LEMMA KeptKinds ==
  /\ Kept \subseteq Task \ {Terminate}
  /\ Kept \cap (Signal \cup {SaveGame, GameShutdown}) = {}
  /\ Kept \cap WithCallback = {}
  /\ NoTask \notin Kept
BY DispatcherAssumption, SchedulerAssumption, ServerAssumption DEF Kept

\* A step that brings the task to no new place.
LEMMA Unmoved ==
  ASSUME NEW x \in Kept, Own(x), used \subseteq used',
         ListOnce(x)', InList(x)' => InList(x),
         PostedOnce(x)', InPosted(x)' => InPosted(x),
         x \in armed' => x \in armed,
         dTask' = x => dTask = x
  PROVE  Own(x)'
BY DEF Own

\* A list that does not change holds a task as before.
LEMMA SameTasks ==
  ASSUME NEW x, UNCHANGED taskList
  PROVE  (ListOnce(x) => ListOnce(x)') /\ (InList(x)' <=> InList(x))
BY DEF ListOnce, InList

\* What the end of the list gains when a task is added.
LEMMA TaskAppended ==
  ASSUME DTypeOK, NEW x, NEW t \in Task, taskList' = Append(taskList, t)
  PROVE  /\ t # x => (ListOnce(x) => ListOnce(x)') /\ (InList(x)' <=> InList(x))
         /\ ~InList(x) => ListOnce(x)'
<1>1. /\ Len(taskList) \in Nat /\ Len(taskList') = Len(taskList) + 1
      /\ \A i \in 1..Len(taskList) : taskList'[i] = taskList[i]
      /\ taskList'[Len(taskList) + 1] = t
  BY DEF DTypeOK
<1>2. \A i \in 1..(Len(taskList) + 1) : i \in 1..Len(taskList) \/ i = Len(taskList) + 1
  BY <1>1
<1>3. t # x => (ListOnce(x) => ListOnce(x)')
  BY <1>1, <1>2 DEF ListOnce
<1>4. t # x => (InList(x)' <=> InList(x))
  BY <1>1, <1>2 DEF InList
<1>5. ~InList(x) => ListOnce(x)'
  BY <1>1, <1>2 DEF InList, ListOnce
<1> QED
  BY <1>3, <1>4, <1>5

\* What the list loses when its front is taken.
LEMMA TaskTaken ==
  ASSUME DTypeOK, NEW x, taskList # <<>>, taskList' = Tail(taskList), ListOnce(x)
  PROVE  /\ ListOnce(x)' /\ (InList(x)' => InList(x))
         /\ Head(taskList) = x => InList(x) /\ ~InList(x)'
<1>1. /\ Len(taskList) \in Nat \ {0} /\ Len(taskList') = Len(taskList) - 1
      /\ \A i \in 1..(Len(taskList) - 1) : taskList'[i] = taskList[i + 1] /\ i + 1 \in 1..Len(taskList)
      /\ Head(taskList) = taskList[1] /\ 1 \in 1..Len(taskList)
  BY DEF DTypeOK
<1>2. ListOnce(x)'
  <2>1. ASSUME NEW i \in 1..(Len(taskList) - 1), NEW j \in 1..(Len(taskList) - 1),
               taskList'[i] = x, taskList'[j] = x
        PROVE  i = j
    <3>1. i + 1 = j + 1
      BY <1>1, <2>1 DEF ListOnce
    <3> QED
      BY <3>1
  <2> QED
    BY <1>1, <2>1 DEF ListOnce
<1>3. InList(x)' => InList(x)
  BY <1>1 DEF InList
<1>4. ASSUME Head(taskList) = x PROVE InList(x) /\ ~InList(x)'
  <2>1. \A i \in 1..(Len(taskList) - 1) : i + 1 # 1
    BY <1>1
  <2>2. \A i \in 1..(Len(taskList) - 1) : taskList'[i] # x
    BY <1>1, <1>4, <2>1 DEF ListOnce
  <2> QED
    BY <1>1, <1>4, <2>2 DEF InList
<1> QED
  BY <1>2, <1>3, <1>4

\* Handlers that do not change hold a task as before.
LEMMA SameHandlers ==
  ASSUME NEW x, UNCHANGED posted
  PROVE  (PostedOnce(x) => PostedOnce(x)') /\ (InPosted(x)' <=> InPosted(x))
BY DEF PostedOnce, InPosted

\* What the posted handlers gain when one is posted.
LEMMA HandlerPosted ==
  ASSUME STypeOK, NEW x, NEW h \in Handler, posted' = Append(posted, h)
  PROVE  /\ ~Holds(h, x) => (PostedOnce(x) => PostedOnce(x)') /\ (InPosted(x)' <=> InPosted(x))
         /\ ~InPosted(x) => PostedOnce(x)'
<1>1. /\ Len(posted) \in Nat /\ Len(posted') = Len(posted) + 1
      /\ \A i \in 1..Len(posted) : posted'[i] = posted[i]
      /\ posted'[Len(posted) + 1] = h
  BY DEF STypeOK
<1>2. \A i \in 1..(Len(posted) + 1) : i \in 1..Len(posted) \/ i = Len(posted) + 1
  BY <1>1
<1>3. ~Holds(h, x) => (PostedOnce(x) => PostedOnce(x)')
  BY <1>1, <1>2 DEF PostedOnce
<1>4. ~Holds(h, x) => (InPosted(x)' <=> InPosted(x))
  BY <1>1, <1>2 DEF InPosted
<1>5. ~InPosted(x) => PostedOnce(x)'
  BY <1>1, <1>2 DEF InPosted, PostedOnce
<1> QED
  BY <1>3, <1>4, <1>5

\* A handler is run, and completions of cancelled timers are queued for it:
\* all those of `tail' are of different timers.
LEMMA HandlerRun ==
  ASSUME STypeOK, NEW x, posted # <<>>, PostedOnce(x),
         NEW tail \in Seq(Handler), posted' = Tail(posted) \o tail,
         \A i, j \in 1..Len(tail) : Holds(tail[i], x) /\ Holds(tail[j], x) => i = j
  PROVE  /\ (\A i \in 1..Len(tail) : ~Holds(tail[i], x)) =>
               /\ PostedOnce(x)' /\ (InPosted(x)' => InPosted(x))
               /\ Holds(Head(posted), x) => InPosted(x) /\ ~InPosted(x)'
         /\ ~InPosted(x) => PostedOnce(x)'
<1> DEFINE n == Len(posted) - 1
           m == Len(tail)
<1>1. /\ n \in Nat /\ m \in Nat /\ Len(posted') = n + m
      /\ Len(posted) = n + 1
      /\ \A i \in 1..n : posted'[i] = posted[i + 1] /\ i + 1 \in 1..Len(posted)
      /\ \A i \in (n + 1)..(n + m) : posted'[i] = tail[i - n] /\ i - n \in 1..m
      /\ Head(posted) = posted[1] /\ 1 \in 1..Len(posted)
  BY DEF STypeOK
<1>2. \A i \in 1..(n + m) : i \in 1..n \/ i \in (n + 1)..(n + m)
  BY <1>1
<1> HIDE DEF n, m
<1>3. ASSUME \A i \in 1..m : ~Holds(tail[i], x)
      PROVE  /\ PostedOnce(x)' /\ (InPosted(x)' => InPosted(x))
             /\ Holds(Head(posted), x) => InPosted(x) /\ ~InPosted(x)'
  <2>1. \A i \in 1..(n + m) : Holds(posted'[i], x) => i \in 1..n /\ Holds(posted[i + 1], x)
    BY <1>1, <1>2, <1>3
  <2>2. PostedOnce(x)'
    <3>1. ASSUME NEW i \in 1..(n + m), NEW j \in 1..(n + m),
                 Holds(posted'[i], x), Holds(posted'[j], x)
          PROVE  i = j
      <4>1. i + 1 = j + 1
        BY <1>1, <2>1, <3>1 DEF PostedOnce
      <4> QED
        BY <1>1, <4>1
    <3> QED
      BY <1>1, <3>1 DEF PostedOnce
  <2>3. InPosted(x)' => InPosted(x)
    BY <1>1, <2>1 DEF InPosted
  <2>4. ASSUME Holds(Head(posted), x) PROVE InPosted(x) /\ ~InPosted(x)'
    <3>1. \A i \in 1..n : i + 1 # 1
      BY <1>1
    <3>2. \A i \in 1..(n + m) : ~Holds(posted'[i], x)
      BY <1>1, <2>1, <2>4, <3>1 DEF PostedOnce
    <3> QED
      BY <1>1, <2>4, <3>2 DEF InPosted
  <2> QED
    BY <2>2, <2>3, <2>4
<1>4. ASSUME ~InPosted(x) PROVE PostedOnce(x)'
  <2>1. \A i \in 1..n : ~Holds(posted'[i], x)
    BY <1>1, <1>4 DEF InPosted
  <2>2. \A i \in 1..(n + m) : Holds(posted'[i], x) => i - n \in 1..m /\ Holds(tail[i - n], x)
    BY <1>1, <1>2, <2>1
  <2>3. ASSUME NEW i \in 1..(n + m), NEW j \in 1..(n + m),
               Holds(posted'[i], x), Holds(posted'[j], x)
        PROVE  i = j
    <3>1. i - n = j - n
      BY <2>2, <2>3 DEF m
    <3> QED
      BY <1>1, <3>1
  <2> QED
    BY <1>1, <2>3 DEF PostedOnce
<1> QED
  BY <1>3, <1>4 DEF m

\* Another task is queued, or refused.
LEMMA OtherQueued ==
  ASSUME DTypeOK, NEW x, ListOnce(x), NEW p, NEW t \in Task, t # x, DAddTask(p, t, FALSE)
  PROVE  ListOnce(x)' /\ (InList(x)' <=> InList(x)) /\ dTask' = dTask
<1>1. dTask' = dTask /\ (taskList' = taskList \/ taskList' = Append(taskList, t))
  BY DEF DAddTask
<1> QED
  BY <1>1, TaskAppended, SameTasks

\* Steps that leave the scheduler alone: tasks are created, queued and taken.
LEMMA DispatcherOwns ==
  ASSUME BaseInv, [Next]_vars, UNCHANGED <<posted, armed>>, used \subseteq used',
         NEW x \in Kept, Own(x), ~SchedulerRun
  PROVE  Own(x)'
<1>0. /\ DTypeOK /\ ListOnce(x) /\ PostedOnce(x)
      /\ PostedOnce(x)' /\ (InPosted(x)' <=> InPosted(x))
  BY SameHandlers DEF BaseInv, ServerTypeOK, Own
<1>1. ListOnce(x)' /\ (InList(x)' => InList(x)) /\ (dTask' = x => dTask = x) => Own(x)'
  BY <1>0, Unmoved
<1>2. UNCHANGED <<taskList, dTask>> => Own(x)'
  BY <1>0, <1>1, SameTasks
<1>3. ASSUME NEW p, NEW t \in Task, t # x, DAddTask(p, t, FALSE) PROVE Own(x)'
  BY <1>0, <1>1, <1>3, OtherQueued
<1>4. UNCHANGED dVars => UNCHANGED <<taskList, dTask>>
  BY DEF dVars
<1>5. ASSUME NEW p \in Producer, Notify(p) PROVE Own(x)'
  BY <1>2, <1>4, <1>5 DEF Notify, DNotifyOne
<1>6. CASE NetworkRun
  <2>1. ASSUME NEW t \in NetTask \cup Signal \cup {SaveGame}, Create(t), DAddTask(NetworkThread, t, FALSE)
        PROVE  Own(x)'
    <3>1. t \in Task
      BY ServerAssumption
    <3>2. CASE t # x
      BY <1>3, <2>1, <3>1, <3>2
    <3>3. CASE t = x
      <4>1. /\ x \notin used /\ x \in used'
            /\ ~InList(x) /\ ~InPosted(x) /\ x \notin armed /\ dTask # x
        BY <2>1, <3>3 DEF Create, Own
      <4>2. dTask' = dTask /\ (taskList' = taskList \/ taskList' = Append(taskList, t))
        BY <2>1 DEF DAddTask
      <4>3. ListOnce(x)'
        BY <1>0, <3>1, <4>1, <4>2, TaskAppended, SameTasks
      <4> QED
        BY <1>0, <4>1, <4>2, <4>3 DEF Own
    <3> QED
      BY <3>2, <3>3
  <2> QED
    BY <1>2, <1>4, <1>6, <2>1 DEF NetworkRun, NewQuery
<1>7. CASE MainEnd \/ SetShutdown \/ SaveState \/ FlushPop \/ FlushEnd \/ StopServices
  BY <1>2, <1>4, <1>7 DEF MainEnd, SetShutdown, SaveState, FlushPop, FlushEnd, StopServices
<1>8. CASE PlainCall
  BY <1>2, <1>4, <1>8 DEF PlainCall, NewQuery, NewEvent, CancelEvent
<1>9. CASE FlushRun
  <2>1. WithCallback \subseteq Task \ {x}
    BY KeptKinds, DatabaseAssumption
  <2> QED
    BY <1>2, <1>3, <1>4, <1>9, <2>1 DEF FlushRun, BFlushRun
<1>10. CASE EnqueueShutdown
  <2>1. GameShutdown \in Task \ {x}
    BY KeptKinds, TaskKinds
  <2> QED
    BY <1>3, <1>10, <2>1 DEF EnqueueShutdown
<1>11. CASE StopQueues
  BY <1>2, <1>4, <1>11 DEF StopQueues, DStop
<1>12. CASE EndQueues
  <2>1. Terminate \in Task \ {x}
    BY KeptKinds, TaskKinds
  <2>2. CASE DShutdown
    BY <1>0, <1>1, <2>1, <2>2, TaskAppended DEF DShutdown
  <2> QED
    BY <1>2, <1>4, <1>12, <2>2 DEF EndQueues
<1>13. CASE EndTask
  <2>1. UNCHANGED taskList /\ dTask' # x
    BY <1>13, KeptKinds DEF EndTask, DFinish
  <2> QED
    BY <1>0, <1>1, <2>1, SameTasks
<1>14. CASE DTake
  <2>1. /\ taskList # <<>> /\ taskList' = Tail(taskList)
        /\ dTask' \in {dTask, Head(taskList)}
    BY <1>14 DEF DTake, DPop
  <2>2. /\ ListOnce(x)' /\ (InList(x)' => InList(x))
        /\ Head(taskList) = x => InList(x) /\ ~InList(x)'
    BY <1>0, <2>1, TaskTaken
  <2>3. CASE dTask' = x /\ dTask # x
    <3>1. InList(x) /\ ~InList(x)'
      BY <2>1, <2>2, <2>3
    <3> QED
      BY <1>0, <2>2, <3>1 DEF Own
  <2> QED
    BY <1>1, <2>2, <2>3
<1>15. CASE DLoopHead \/ DWait \/ DNothingThere
  BY <1>2, <1>15 DEF DLoopHead, DWait, DNothingThere
<1>16. CASE DatabaseRun
  <2>1. ASSUME BCallback PROVE bTask \in Task \ {x}
    BY <2>1, KeptKinds, DatabaseAssumption DEF BaseInv, InHand, BCallback
  <2> QED
    BY <1>2, <1>3, <1>4, <1>16, <2>1 DEF DatabaseRun, BThread, BCallback
<1>17. CASE (\E e \in Event : Expire(e)) \/ Spurious \/ UNCHANGED vars
  BY <1>2, <1>4, <1>17 DEF Expire, Spurious, DSpuriousWakeup, vars
<1> QED
  BY <1>5, <1>6, <1>7, <1>8, <1>9, <1>10, <1>11, <1>12, <1>13, <1>14, <1>15, <1>16, <1>17
     DEF Next, DispatcherRun

\* The calls that post a handler, and the timers.
LEMMA CallersOwn ==
  ASSUME BaseInv, used \subseteq used', NEW x \in Kept, Own(x), UNCHANGED <<taskList, dTask>>,
         \/ \E e \in Event : NewEvent(e) \/ CancelEvent(e) \/ Expire(e)
         \/ SShutdown
  PROVE  Own(x)'
<1>0. /\ STypeOK /\ ListOnce(x) /\ PostedOnce(x)
      /\ ListOnce(x)' /\ (InList(x)' <=> InList(x))
  BY SameTasks DEF BaseInv, Own
<1>1. ASSUME NEW h \in Handler, ~Holds(h, x), SPost(h) PROVE Own(x)'
  <2>1. PostedOnce(x)' /\ (InPosted(x)' <=> InPosted(x)) /\ armed' = armed
    BY <1>0, <1>1, HandlerPosted DEF SPost
  <2> QED
    BY <1>0, <2>1, Unmoved
<1>2. ASSUME NEW e \in Event, NewEvent(e) PROVE Own(x)'
  <2>1. ArmHandler(e) \in Handler /\ (Holds(ArmHandler(e), x) <=> e = x)
    BY DEF Handler, ArmHandler, Holds
  <2>2. CASE e # x
    BY <1>1, <1>2, <2>1, <2>2 DEF NewEvent, SAddEvent
  <2>3. CASE e = x
    <3>1. /\ x \notin used /\ x \in used' /\ armed' = armed
          /\ ~InList(x) /\ ~InPosted(x) /\ x \notin armed /\ dTask # x
      BY <1>2, <2>3 DEF NewEvent, SAddEvent, SPost, Create, Own
    <3>2. PostedOnce(x)'
      BY <1>0, <1>2, <2>1, <3>1, HandlerPosted DEF NewEvent, SAddEvent, SPost
    <3> QED
      BY <1>0, <3>1, <3>2 DEF Own
  <2> QED
    BY <2>2, <2>3
<1>3. ASSUME NEW e \in Event, CancelEvent(e) PROVE Own(x)'
  <2>1. CancelHandler(e) \in Handler /\ ~Holds(CancelHandler(e), x)
    BY DEF Handler, CancelHandler, Holds
  <2> QED
    BY <1>1, <1>3, <2>1 DEF CancelEvent, SStopEvent
<1>4. ASSUME NEW e \in Event, Expire(e) PROVE Own(x)'
  <2>1. \A a \in BOOLEAN : Completion(e, a) \in Handler /\ (Holds(Completion(e, a), x) <=> e = x)
    BY DEF Handler, Completion, Holds
  <2>2. Completion(e, FALSE) \in Handler /\ (Holds(Completion(e, FALSE), x) <=> e = x)
    BY <2>1, Zenon
  <2>3. e \in armed /\ armed' = armed \ {e} /\ posted' = Append(posted, Completion(e, FALSE))
    BY <1>4 DEF Expire, SExpire
  <2>4. CASE e # x
    <3>1. PostedOnce(x)' /\ (InPosted(x)' <=> InPosted(x))
      BY <1>0, <2>2, <2>3, <2>4, HandlerPosted
    <3> QED
      BY <1>0, <2>3, <3>1, Unmoved
  <2>5. CASE e = x
    <3>1. x \in used /\ ~InList(x) /\ ~InPosted(x) /\ dTask # x
      BY <2>3, <2>5 DEF Own
    <3>2. PostedOnce(x)'
      BY <1>0, <2>2, <2>3, <3>1, HandlerPosted
    <3>3. x \notin armed' /\ x \in used' /\ dTask' # x
      BY <2>3, <2>5, <3>1
    <3> QED
      BY <1>0, <3>1, <3>2, <3>3 DEF Own
  <2> QED
    BY <2>4, <2>5
<1>5. CASE SShutdown
  <2>1. DrainHandler \in Handler /\ ~Holds(DrainHandler, x)
    BY DEF Handler, DrainHandler, Holds
  <2> QED
    BY <1>1, <1>5, <2>1 DEF SShutdown
<1> QED
  BY <1>2, <1>3, <1>4, <1>5

\* The scheduler thread passes tasks from its queue to the timers and back,
\* and on to the dispatcher.
LEMMA SchedulerOwns ==
  ASSUME BaseInv, SThread, UNCHANGED used, NEW x \in Kept, Own(x)
  PROVE  Own(x)'
<1>0. /\ STypeOK /\ DTypeOK /\ IsFiniteSet(armed) /\ ListOnce(x) /\ PostedOnce(x)
  BY DEF BaseInv, ServerTypeOK, Own
<1>1. UNCHANGED dVars => ListOnce(x)' /\ (InList(x)' <=> InList(x)) /\ dTask' = dTask
  BY <1>0, SameTasks DEF dVars
<1>2. CASE SExit
  BY <1>0, <1>1, <1>2, SameHandlers, Unmoved DEF SExit
<1>3. CASE SHandle
  <2>1. PICK h : h = Head(posted) /\ (SArm(h) \/ SCancel(h) \/ SComplete(h) \/ SDrain(h))
    BY <1>3 DEF SHandle
  <2>2. h \in Handler /\ posted # <<>> /\ Tail(posted) \in Seq(Handler)
    BY <1>0, <1>3, <2>1 DEF STypeOK, SHandle
  <2>3. h.op \in {"arm", "cancel", "timer"} => h.event \in Event
    BY <2>2 DEF Handler, ArmHandler, CancelHandler, Completion, DrainHandler
  <2>4. ASSUME posted' = Tail(posted)
        PROVE  /\ PostedOnce(x)' /\ (InPosted(x)' => InPosted(x))
               /\ Holds(h, x) => InPosted(x) /\ ~InPosted(x)'
    <3> DEFINE none == SubSeq(Tail(posted), 1, 0)
    <3>1. /\ posted' = Tail(posted) \o none /\ none \in Seq(Handler) /\ Len(none) = 0
      BY <2>2, <2>4
    <3> HIDE DEF none
    <3>2. /\ \A i \in 1..Len(none) : ~Holds(none[i], x)
          /\ \A i, j \in 1..Len(none) : Holds(none[i], x) /\ Holds(none[j], x) => i = j
      BY <3>1
    <3>3. /\ PostedOnce(x)' /\ (InPosted(x)' => InPosted(x))
          /\ Holds(Head(posted), x) => InPosted(x) /\ ~InPosted(x)'
      BY <1>0, <2>2, <3>1, <3>2, HandlerRun
    <3> QED
      BY <2>1, <3>3
  <2>5. CASE SArm(h)
    <3>1. /\ posted' = Tail(posted) /\ armed' = armed \cup {h.event} /\ UNCHANGED dVars
          /\ Holds(h, x) <=> h.event = x
      BY <2>5 DEF SArm, Holds
    <3>2. CASE h.event # x
      BY <1>1, <2>4, <3>1, <3>2, Unmoved
    <3>3. CASE h.event = x
      <4>1. InPosted(x) /\ ~InPosted(x)' /\ PostedOnce(x)'
        BY <2>4, <3>1, <3>3
      <4>2. x \in used' /\ ~InList(x) /\ dTask # x
        BY <4>1 DEF Own
      <4> QED
        BY <1>1, <3>1, <4>1, <4>2 DEF Own
    <3> QED
      BY <3>2, <3>3
  <2>6. CASE SCancel(h)
    <3>0. h.event \in Event /\ ~Holds(h, x) /\ UNCHANGED dVars /\ armed' = armed \ {h.event}
      BY <2>3, <2>6 DEF SCancel, Holds
    <3>1. CASE h.event \notin armed
      <4>1. posted' = Tail(posted)
        BY <2>6, <3>1 DEF SCancel
      <4> QED
        BY <1>1, <2>4, <3>0, <4>1, Unmoved
    <3>2. CASE h.event \in armed
      <4> DEFINE c == Completion(h.event, TRUE)
      <4>1. \A a \in BOOLEAN : Completion(h.event, a) \in Handler /\ (Holds(Completion(h.event, a), x) <=> h.event = x)
        BY <3>0 DEF Handler, Completion, Holds
      <4>2. c \in Handler /\ (Holds(c, x) <=> h.event = x)
        BY <4>1, Zenon
      <4>3. posted' = Append(Tail(posted), c)
        BY <2>6, <3>2 DEF SCancel
      <4> HIDE DEF c
      <4>4. /\ posted' = Tail(posted) \o <<c>> /\ <<c>> \in Seq(Handler)
            /\ \A i \in 1..Len(<<c>>) : i = 1 /\ <<c>>[i] = c
        BY <2>2, <4>2, <4>3
      <4>5. CASE h.event # x
        <5>1. PostedOnce(x)' /\ (InPosted(x)' => InPosted(x))
          BY <1>0, <2>2, <4>2, <4>4, <4>5, HandlerRun
        <5> QED
          BY <1>1, <3>0, <5>1, Unmoved
      <4>6. CASE h.event = x
        <5>1. x \in used' /\ ~InList(x) /\ ~InPosted(x) /\ dTask # x /\ x \notin armed'
          BY <3>0, <3>2, <4>6 DEF Own
        <5>2. PostedOnce(x)'
          BY <1>0, <2>2, <4>4, <5>1, HandlerRun
        <5> QED
          BY <1>1, <3>0, <5>1, <5>2 DEF Own
      <4> QED
        BY <4>5, <4>6
    <3> QED
      BY <3>1, <3>2
  <2>7. CASE SComplete(h)
    <3>0. /\ posted' = Tail(posted) /\ UNCHANGED armed /\ h.event \in Event
          /\ Holds(h, x) <=> h.event = x
      BY <2>3, <2>7 DEF SComplete, Holds
    <3>1. /\ PostedOnce(x)' /\ (InPosted(x)' => InPosted(x))
          /\ h.event = x => InPosted(x) /\ ~InPosted(x)'
      BY <2>4, <3>0
    <3>2. CASE UNCHANGED dVars
      BY <1>1, <3>0, <3>1, <3>2, Unmoved
    <3>3. CASE DAddTask(SchedulerThread, h.event, FALSE)
      <4>0. h.event \in Task
        BY <3>0, SchedulerAssumption
      <4>1. CASE h.event # x
        <5>1. ListOnce(x)' /\ (InList(x)' <=> InList(x)) /\ dTask' = dTask
          BY <1>0, <3>3, <4>0, <4>1, OtherQueued
        <5> QED
          BY <3>0, <3>1, <5>1, Unmoved
      <4>2. CASE h.event = x
        <5>1. /\ x \in used' /\ ~InList(x) /\ dTask # x /\ x \notin armed' /\ ~InPosted(x)'
          BY <3>0, <3>1, <4>2 DEF Own
        <5>2. dTask' = dTask /\ (taskList' = taskList \/ taskList' = Append(taskList, h.event))
          BY <3>3 DEF DAddTask
        <5>3. ListOnce(x)'
          BY <1>0, <4>0, <5>1, <5>2, TaskAppended, SameTasks
        <5> QED
          BY <3>1, <5>1, <5>2, <5>3 DEF Own
      <4> QED
        BY <4>1, <4>2
    <3> QED
      BY <2>7, <3>2, <3>3 DEF SComplete
  <2>8. CASE SDrain(h)
    <3> DEFINE drained == SetToSeq(Aborted)
    <3>1. /\ drained \in Seq(Aborted)
          /\ \A i, j \in DOMAIN drained : drained[i] = drained[j] => i = j
      BY <1>0, DrainOrder
    <3>2. /\ posted' = Tail(posted) \o drained /\ armed' = {} /\ UNCHANGED dVars
      BY <2>8 DEF SDrain, Aborted
    <3> HIDE DEF drained
    <3>3. Aborted \subseteq Handler
      <4>1. \A e \in Event, a \in BOOLEAN : Completion(e, a) \in Handler
        BY DEF Handler
      <4>2. \A e \in Event : Completion(e, TRUE) \in Handler
        BY <4>1, Zenon
      <4> QED
        BY <1>0, <4>2 DEF Aborted, STypeOK
    <3>4. \A c \in Aborted : Holds(c, x) <=> (x \in armed /\ c = Completion(x, TRUE))
      BY DEF Aborted, Completion, Holds
    <3>5. /\ drained \in Seq(Handler) /\ DOMAIN drained = 1..Len(drained)
          /\ \A i \in 1..Len(drained) : drained[i] \in Aborted
      BY <3>1, <3>3
    <3>6. \A i, j \in 1..Len(drained) : Holds(drained[i], x) /\ Holds(drained[j], x) => i = j
      BY <3>1, <3>4, <3>5
    <3>7. CASE x \notin armed
      <4>1. \A i \in 1..Len(drained) : ~Holds(drained[i], x)
        BY <3>4, <3>5, <3>7
      <4>2. PostedOnce(x)' /\ (InPosted(x)' => InPosted(x))
        BY <1>0, <2>2, <3>2, <3>5, <3>6, <4>1, HandlerRun
      <4> QED
        BY <1>1, <3>2, <4>2, Unmoved
    <3>8. CASE x \in armed
      <4>1. x \in used' /\ ~InList(x) /\ ~InPosted(x) /\ dTask # x /\ x \notin armed'
        BY <3>2, <3>8 DEF Own
      <4>2. PostedOnce(x)'
        BY <1>0, <2>2, <3>2, <3>5, <3>6, <4>1, HandlerRun
      <4> QED
        BY <1>1, <3>2, <4>1, <4>2 DEF Own
    <3> QED
      BY <3>7, <3>8
  <2> QED
    BY <2>1, <2>5, <2>6, <2>7, <2>8
<1> QED
  BY <1>2, <1>3 DEF SThread

\* Nothing is owned twice at the start,
LEMMA OwnInit == Init => OwnInv
<1> SUFFICES ASSUME Init, NEW x \in Kept PROVE Own(x)
  BY DEF OwnInv
<1>1. taskList = <<>> /\ posted = <<>> /\ armed = {} /\ dTask = NoTask /\ Len(<< >>) = 0
  BY DEF Init, DInit, SInit
<1> QED
  BY <1>1, KeptKinds DEF Own, ListOnce, PostedOnce, InList, InPosted

\* every step keeps it so,
LEMMA OwnStep == BaseInv /\ OwnInv /\ [Next]_vars => OwnInv'
<1> SUFFICES ASSUME BaseInv, OwnInv, [Next]_vars, NEW x \in Kept PROVE Own(x)'
  BY DEF OwnInv
<1>0. Own(x) /\ used \subseteq used'
  BY QueryMoves DEF OwnInv
<1>1. CASE SchedulerRun
  BY <1>0, <1>1, SchedulerOwns DEF SchedulerRun, gVars
<1>2. CASE \E e \in Event : NewEvent(e) \/ CancelEvent(e) \/ Expire(e)
  <2>1. UNCHANGED <<taskList, dTask>>
    BY <1>2 DEF NewEvent, CancelEvent, Expire, dVars
  <2> QED
    BY <1>0, <1>2, <2>1, CallersOwn
<1>3. CASE SShutdown /\ UNCHANGED dVars
  BY <1>0, <1>3, CallersOwn DEF dVars
<1>4. ASSUME ~SchedulerRun, ~(\E e \in Event : NewEvent(e) \/ CancelEvent(e) \/ Expire(e)),
             ~(SShutdown /\ UNCHANGED dVars)
      PROVE  UNCHANGED <<posted, armed>>
  <2>0. UNCHANGED sVars => UNCHANGED <<posted, armed>>
    BY DEF sVars
  <2>1. CASE NetworkRun \/ PlainCall \/ (\E p \in Producer : Notify(p)) \/ MainEnd
    BY <1>4, <2>0, <2>1 DEF NetworkRun, PlainCall, NewQuery, Notify, MainEnd
  <2>2. CASE DispatcherRun
    BY <1>4, <2>0, <2>2
       DEF DispatcherRun, SetShutdown, SaveState, FlushPop, FlushRun, FlushEnd, EnqueueShutdown,
           StopQueues, SStop, EndQueues, StopServices, EndTask
  <2>3. CASE DatabaseRun \/ Spurious \/ UNCHANGED vars
    BY <2>0, <2>3 DEF DatabaseRun, Spurious, vars
  <2> QED
    BY <1>4, <2>1, <2>2, <2>3 DEF Next
<1> QED
  BY <1>0, <1>1, <1>2, <1>3, <1>4, DispatcherOwns

\* so it is always so.
LEMMA Owned == Spec => [](BaseInv /\ OwnInv)
BY BaseInit, BaseStep, OwnInit, OwnStep, PTL DEF Spec

\* A set with at most one element, as it is counted in Owners.
LEMMA AtMostOne ==
  ASSUME NEW n \in Nat, NEW S \in SUBSET (1..n), \A i, j \in S : i = j
  PROVE  Cardinality(S) = IF S = {} THEN 0 ELSE 1
<1>1. CASE S = {}
  BY <1>1, FS_EmptySet
<1>2. CASE S # {}
  <2>1. PICK i \in S : S = {i}
    BY <1>2
  <2>2. Cardinality({i}) = 1
    BY FS_Singleton
  <2> QED
    BY <1>2, <2>1, <2>2
<1> QED
  BY <1>1, <1>2

\* However cancels, expiries, the drain and the shutdown of the queues come
\* together: a task has one owner at a time, and so is deleted once.
THEOREM AlwaysOwnedOnce == Spec => []OwnedOnce
<1>1. ASSUME BaseInv, OwnInv, NEW x \in Kept
      PROVE  Owners(x) <= 1
  <2> DEFINE L == {i \in DOMAIN taskList : taskList[i] = x}
             P == {i \in DOMAIN posted : posted[i].op \in {"arm", "timer"} /\ posted[i].event = x}
  <2>1. /\ DOMAIN taskList = 1..Len(taskList) /\ Len(taskList) \in Nat
        /\ DOMAIN posted = 1..Len(posted) /\ Len(posted) \in Nat
    BY <1>1 DEF BaseInv, ServerTypeOK, DTypeOK, STypeOK
  <2>2. Own(x)
    BY <1>1 DEF OwnInv
  <2>3. L \in SUBSET (1..Len(taskList)) /\ (\A i, j \in L : i = j) /\ (InList(x) <=> L # {})
    BY <2>1, <2>2 DEF Own, ListOnce, InList
  <2>4. P \in SUBSET (1..Len(posted)) /\ (\A i, j \in P : i = j) /\ (InPosted(x) <=> P # {})
    BY <2>1, <2>2 DEF Own, PostedOnce, InPosted, Holds
  <2>5. Cardinality(L) = IF L = {} THEN 0 ELSE 1
    BY <2>1, <2>3, AtMostOne
  <2>6. Cardinality(P) = IF P = {} THEN 0 ELSE 1
    BY <2>1, <2>4, AtMostOne
  <2>7. Owners(x) = (IF x \in armed THEN 1 ELSE 0) + (IF dTask = x THEN 1 ELSE 0)
                      + Cardinality(L) + Cardinality(P)
    BY DEF Owners, Count
  <2> QED
    BY <2>2, <2>3, <2>4, <2>5, <2>6, <2>7 DEF Own
<1>2. BaseInv /\ OwnInv => OwnedOnce
  BY <1>1 DEF OwnedOnce, Kept
<1> QED
  BY <1>2, Owned, PTL
=============================================================================
