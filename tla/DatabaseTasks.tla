--------------------------- MODULE DatabaseTasks ---------------------------
(***************************************************************************)
(* The database thread (src/src/databasetasks.cpp): queries that the game  *)
(* need not wait for.  The thread has the dispatcher's loop, but two more  *)
(* things happen here: flush() lets the dispatcher thread execute queued   *)
(* queries itself while the database thread may be executing another one,  *)
(* and shutdown() sets the state outside the thread.  A query that has a   *)
(* callback hands it to the dispatcher once executed; the callback task is *)
(* named after its query.                                                  *)
(***************************************************************************)
EXTENDS Dispatcher

CONSTANTS Query,           \* the asynchronous queries
          WithCallback,    \* those added with a callback
          DatabaseThread   \* the thread itself, as a producer of tasks

ASSUME DatabaseAssumption ==
  /\ WithCallback \subseteq Query
  /\ WithCallback \subseteq Task \ {Terminate}
  /\ NoTask \notin Query
  /\ DatabaseThread \in Producer \ {DispatcherThread}

VARIABLES bState,    \* ThreadHolder::threadState
          bList,     \* DatabaseTasks::tasks, front first
          bPc,       \* where the thread is in threadMain
          bTask,     \* the query the thread popped
          bFlush,    \* the query flush() popped on the dispatcher thread
          bNotify,   \* producers between unlock and notify_one
          executed   \* the queries the server has executed, in that order

bVars == <<bState, bList, bPc, bTask, bFlush, bNotify, executed>>

BTypeOK ==
  /\ bState \in ThreadState
  /\ bList \in Seq(Query)
  /\ bPc \in {"loop", "lock", "waiting", "woken", "query", "callback", "exit"}
  /\ bTask \in Query \cup {NoTask}
  /\ bFlush \in Query \cup {NoTask}
  /\ bNotify \in SUBSET Producer
  /\ executed \in Seq(Query)

BInit ==
  /\ bState = "RUNNING"
  /\ bList = <<>>
  /\ bPc = "loop"
  /\ bTask = NoTask
  /\ bFlush = NoTask
  /\ bNotify = {}
  /\ executed = <<>>

-----------------------------------------------------------------------------
(* The callers *)

\* addTask: dropped without a word unless RUNNING.
BAddTask(p, q) ==
  /\ p \notin bNotify
  /\ IF bState = "RUNNING"
       THEN /\ bList' = Append(bList, q)
            /\ bNotify' = IF bList = <<>> THEN bNotify \cup {p} ELSE bNotify
       ELSE UNCHANGED <<bList, bNotify>>
  /\ UNCHANGED <<bState, bPc, bTask, bFlush, executed>>

BWake == bPc' = IF bPc = "waiting" THEN "woken" ELSE bPc

BNotifyOne(p) ==
  /\ p \in bNotify
  /\ bNotify' = bNotify \ {p}
  /\ BWake
  /\ UNCHANGED <<bState, bList, bTask, bFlush, executed>>

BSetState(s) ==
  /\ bState' = s
  /\ UNCHANGED <<bList, bPc, bTask, bFlush, bNotify, executed>>

\* The last statement of shutdown(): a signal outside the lock.
BNotifyShutdown ==
  /\ BWake
  /\ UNCHANGED <<bState, bList, bTask, bFlush, bNotify, executed>>

\* Mutant: flush takes the youngest query.
BackBFlushPop ==
  /\ bList # <<>>
  /\ bFlush' = bList[Len(bList)]
  /\ bList' = SubSeq(bList, 1, Len(bList) - 1)
  /\ UNCHANGED <<bState, bPc, bTask, bNotify, executed>>

\* One turn of flush(): pop under the lock, then execute without it.
BFlushPop ==
  /\ bList # <<>>
  /\ bFlush' = Head(bList)
  /\ bList' = Tail(bList)
  /\ UNCHANGED <<bState, bPc, bTask, bNotify, executed>>

BFlushRun ==
  /\ executed' = Append(executed, bFlush)
  /\ bFlush' = NoTask
  /\ IF bFlush \in WithCallback
       THEN DAddTask(DispatcherThread, bFlush, FALSE)
       ELSE UNCHANGED dVars
  /\ UNCHANGED <<bState, bList, bPc, bTask, bNotify>>

-----------------------------------------------------------------------------
(* The thread *)

BLoopHead ==
  /\ bPc = "loop"
  /\ DatabaseThread \notin dNotify
  /\ bPc' = IF bState = "TERMINATED" THEN "exit" ELSE "lock"
  /\ UNCHANGED <<bState, bList, bTask, bFlush, bNotify, executed>>

BTake ==
  /\ bPc \in {"lock", "woken"}
  /\ bList # <<>>
  /\ bTask' = Head(bList)
  /\ bList' = Tail(bList)
  /\ bPc' = "query"
  /\ UNCHANGED <<bState, bFlush, bNotify, executed>>

BWait ==
  /\ bPc = "lock"
  /\ bList = <<>>
  /\ bPc' = "waiting"
  /\ UNCHANGED <<bState, bList, bTask, bFlush, bNotify, executed>>

BSpuriousWakeup ==
  /\ bPc = "waiting"
  /\ bPc' = "woken"
  /\ UNCHANGED <<bState, bList, bTask, bFlush, bNotify, executed>>

BNothingThere ==
  /\ bPc = "woken"
  /\ bList = <<>>
  /\ bPc' = "loop"
  /\ UNCHANGED <<bState, bList, bTask, bFlush, bNotify, executed>>

\* runTask, first half: the query reaches the server.
BExecute ==
  /\ bPc = "query"
  /\ executed' = Append(executed, bTask)
  /\ IF bTask \in WithCallback
       THEN bPc' = "callback" /\ UNCHANGED bTask
       ELSE bPc' = "loop" /\ bTask' = NoTask
  /\ UNCHANGED <<bState, bList, bFlush, bNotify>>

\* runTask, second half: the callback becomes a task of the dispatcher.
BCallback ==
  /\ bPc = "callback"
  /\ DAddTask(DatabaseThread, bTask, FALSE)
  /\ bPc' = "loop"
  /\ bTask' = NoTask
  /\ UNCHANGED <<bState, bList, bFlush, bNotify, executed>>

\* The steps that leave the dispatcher alone, and the one that does not.
BOwn == BLoopHead \/ BTake \/ BWait \/ BNothingThere \/ BExecute

BThread == (BOwn /\ UNCHANGED dVars) \/ BCallback
=============================================================================
