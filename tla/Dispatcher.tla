----------------------------- MODULE Dispatcher -----------------------------
(***************************************************************************)
(* The dispatcher thread (src/src/tasks.cpp): every game handler runs on   *)
(* it, so the whole game state is guarded by this one queue.  Producers    *)
(* (the network thread, the scheduler thread, the database thread and the  *)
(* dispatcher itself) push tasks under taskLock and signal after releasing *)
(* it; the thread waits on taskSignal when it finds the list empty.        *)
(*                                                                         *)
(* The critical sections contain no blocking call, so each is one step;    *)
(* what lies between two of them (the state test of the loop head, the     *)
(* notify_one after the unlock, the execution of a task) is a step of its  *)
(* own.  The operators have the prefix D so that ServerShutdown.tla can    *)
(* extend this module together with the other two threads.                 *)
(***************************************************************************)
EXTENDS Naturals, Sequences

CONSTANTS Task,        \* everything that is ever queued
          Timed,       \* the tasks created with DISPATCHER_TASK_EXPIRATION
          Terminate,   \* the lambda queued by Dispatcher::shutdown
          NoTask,      \* no task in hand
          Producer,    \* the threads that call addTask
          DispatcherThread, \* the one of them that is the dispatcher itself
          QueueBound   \* bound on the length of taskList

ASSUME DispatcherAssumption ==
  /\ Timed \subseteq Task
  /\ Terminate \in Task \ Timed
  /\ NoTask \notin Task
  /\ DispatcherThread \in Producer
  /\ QueueBound \in Nat

VARIABLES dState,    \* ThreadHolder::threadState
          taskList,  \* Dispatcher::taskList, front first
          dPc,       \* where the thread is in threadMain
          dTask,     \* the task it popped and is executing
          dNotify    \* producers between unlock and notify_one

dVars == <<dState, taskList, dPc, dTask, dNotify>>

ThreadState == {"RUNNING", "CLOSING", "TERMINATED"}

DTypeOK ==
  /\ dState \in ThreadState
  /\ taskList \in Seq(Task)
  /\ dPc \in {"loop", "lock", "waiting", "woken", "run", "exit"}
  /\ dTask \in Task \cup {NoTask}
  /\ dNotify \in SUBSET Producer
  /\ (dPc = "run") <=> (dTask # NoTask)

\* After ThreadHolder::start, with nothing queued yet.
DInit ==
  /\ dState = "RUNNING"
  /\ taskList = <<>>
  /\ dPc = "loop"
  /\ dTask = NoTask
  /\ dNotify = {}

-----------------------------------------------------------------------------
(* The producers *)

\* A producer is free to call when it is not inside an earlier call; the
\* dispatcher thread calls only from a task it is executing.
DFree(p) == p \notin dNotify /\ (p = DispatcherThread => dPc = "run")

\* Mutant: the emptiness of the list is tested after the push.
LateTestDAddTask(p, t, pushFront) ==
  /\ DFree(p)
  /\ taskList' = IF dState = "RUNNING" THEN Append(taskList, t) ELSE taskList
  /\ UNCHANGED <<dState, dPc, dTask, dNotify>>

\* addTask: refused (the task is deleted) unless RUNNING; the caller owes a
\* signal exactly when it found the list empty.
DAddTask(p, t, pushFront) ==
  /\ DFree(p)
  /\ IF dState = "RUNNING"
       THEN /\ taskList' = IF pushFront THEN <<t>> \o taskList
                                        ELSE Append(taskList, t)
            /\ dNotify' = IF taskList = <<>> THEN dNotify \cup {p} ELSE dNotify
       ELSE UNCHANGED <<taskList, dNotify>>
  /\ UNCHANGED <<dState, dPc, dTask>>

\* notify_one wakes the thread if it is waiting and is lost otherwise.
DWake == dPc' = IF dPc = "waiting" THEN "woken" ELSE dPc

DNotifyOne(p) ==
  /\ p \in dNotify
  /\ dNotify' = dNotify \ {p}
  /\ DWake
  /\ UNCHANGED <<dState, taskList, dTask>>

\* Mutant: shutdown goes through addTask and is refused once CLOSING.
RefusedDShutdown ==
  /\ dState = "RUNNING" => taskList' = Append(taskList, Terminate)
  /\ dState # "RUNNING" => UNCHANGED taskList
  /\ DWake
  /\ UNCHANGED <<dState, dTask, dNotify>>

\* shutdown: queued whatever the state, and signalled under the lock.
DShutdown ==
  /\ taskList' = Append(taskList, Terminate)
  /\ DWake
  /\ UNCHANGED <<dState, dTask, dNotify>>

\* Mutant: setGameState forgets to stop the dispatcher.
ForgottenDStop == UNCHANGED dVars

\* ThreadHolder::stop.
DStop ==
  /\ dState' = "CLOSING"
  /\ UNCHANGED <<taskList, dPc, dTask, dNotify>>

-----------------------------------------------------------------------------
(* The thread *)

\* The head of the loop reads the state before it takes the lock.
DLoopHead ==
  /\ dPc = "loop"
  /\ dPc' = IF dState = "TERMINATED" THEN "exit" ELSE "lock"
  /\ UNCHANGED <<dState, taskList, dTask, dNotify>>

\* Mutant: the task is taken from the back of the list.
BackDPop ==
  /\ taskList # <<>>
  /\ taskList' = SubSeq(taskList, 1, Len(taskList) - 1)
  /\ dPc' = "run" /\ dTask' = taskList[Len(taskList)]
  /\ UNCHANGED <<dState, dNotify>>

\* pop_front; an expired task is deleted without being executed.
DPop ==
  /\ taskList # <<>>
  /\ taskList' = Tail(taskList)
  /\ \/ dPc' = "run" /\ dTask' = Head(taskList)
     \/ Head(taskList) \in Timed /\ dPc' = "loop" /\ UNCHANGED dTask
  /\ UNCHANGED <<dState, dNotify>>

DTake == dPc \in {"lock", "woken"} /\ DPop

DWait ==
  /\ dPc = "lock"
  /\ taskList = <<>>
  /\ dPc' = "waiting"
  /\ UNCHANGED <<dState, taskList, dTask, dNotify>>

\* A condition variable may return without having been signalled.
DSpuriousWakeup ==
  /\ dPc = "waiting"
  /\ dPc' = "woken"
  /\ UNCHANGED <<dState, taskList, dTask, dNotify>>

DNothingThere ==
  /\ dPc = "woken"
  /\ taskList = <<>>
  /\ dPc' = "loop"
  /\ UNCHANGED <<dState, taskList, dTask, dNotify>>

\* The task returned: it is deleted and the loop goes round.  The one queued
\* by shutdown has set the state (its notify_one finds nobody waiting).
DFinish ==
  /\ dPc = "run"
  /\ DispatcherThread \notin dNotify
  /\ dPc' = "loop"
  /\ dTask' = NoTask
  /\ dState' = IF dTask = Terminate THEN "TERMINATED" ELSE dState
  /\ UNCHANGED <<taskList, dNotify>>

DThread == DLoopHead \/ DTake \/ DWait \/ DNothingThere \/ DFinish

-----------------------------------------------------------------------------
(* The dispatcher alone, under every use of it *)

\* Nothing in the source passes push_front = true.
DCall(p) ==
  \E t \in Task \ {Terminate} :
     Len(taskList) < QueueBound /\ DAddTask(p, t, FALSE)

\* Game::shutdown (on the dispatcher) and the aborted start-up (on the main
\* thread) call shutdown; it is called once.
DShutdownOnce ==
  /\ \A i \in DOMAIN taskList : taskList[i] # Terminate
  /\ dTask # Terminate
  /\ dState # "TERMINATED"
  /\ DShutdown

DStopOnce == dState = "RUNNING" /\ DStop

DNext ==
  \/ \E p \in Producer : DCall(p) \/ DNotifyOne(p)
  \/ DShutdownOnce
  \/ DStopOnce
  \/ DSpuriousWakeup
  \/ DThread

\* The operating system runs every thread that can run.
DFairness ==
  /\ WF_dVars(DThread)
  /\ \A p \in Producer : WF_dVars(DNotifyOne(p))

DSpec == DInit /\ [][DNext]_dVars /\ DFairness

-----------------------------------------------------------------------------
(* Properties *)

\* No lost wake-up: whenever the thread sleeps although a task is queued, a
\* producer that has left its critical section is still to signal it.  It is
\* what makes "signal only if the list was empty" in addTask enough.
NoSleepOverWork ==
  dPc = "waiting" /\ taskList # <<>> => dNotify # {}

Queue == INSTANCE TaskQueue
           WITH queue <- taskList, running <- dTask,
                ended <- (dState = "TERMINATED")

\* Locks, signals, spurious wake-ups and the late state test implement a
\* plain first-in first-out queue with one worker that never stalls.
ImplementsTaskQueue == Queue!Spec
=============================================================================
