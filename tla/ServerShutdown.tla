--------------------------- MODULE ServerShutdown ---------------------------
(***************************************************************************)
(* The four threads of the server together: the main thread (which runs    *)
(* the network io_service and then joins the others, otserv.cpp), the      *)
(* dispatcher, the scheduler and the database thread, and the protocol     *)
(* that ends them: a signal is posted to the dispatcher, which closes the  *)
(* game and the three queues (Game::setGameState), and a last task saves,  *)
(* drains and terminates them (Game::shutdown).                            *)
(*                                                                         *)
(* A task, an event or a query object is created at most once; the game    *)
(* code inside a task is reduced to the calls it may make on the queues.   *)
(***************************************************************************)
EXTENDS DatabaseTasks, Scheduler

CONSTANTS NetTask,      \* messages of players, posted by the network thread
          Signal,       \* SIGINT, SIGTERM
          SaveGame,     \* SIGUSR1, or a script that saves the server
          GameShutdown, \* the task that runs Game::shutdown
          NetworkThread,\* the main thread while it runs the io_service
          PostBound     \* bound on the length of posted

ASSUME ServerAssumption ==
  /\ NetTask \cup Signal \cup {SaveGame, GameShutdown} \subseteq Task \ {Terminate}
  \* createTask in setGameState and in signals.cpp gives no deadline
  /\ GameShutdown \notin Timed
  \* what is queued is one thing only
  /\ (NetTask \cup Event) \cap WithCallback = {}
  /\ (NetTask \cup Event \cup WithCallback) \cap (Signal \cup {SaveGame, GameShutdown}) = {}
  /\ Signal \cap {SaveGame, GameShutdown} = {} /\ SaveGame # GameShutdown
  /\ NetworkThread \in Producer \ {DispatcherThread}
  /\ PostBound \in Nat

VARIABLES gameState, \* Game::gameState
          step,      \* the statement a multi-step task has reached
          mainPc,    \* where the main thread is
          used,      \* the task, event and query objects created so far
          accepted   \* history: the queries taken by addTask, in that order

gVars == <<gameState, step, mainPc, used, accepted>>
vars == <<dVars, bVars, sVars, gVars>>

Plain == NetTask \cup Event \cup WithCallback

Step == {"body", "flush", "flushRun", "enqueue", "stopScheduler",
         "stopDatabase", "stopDispatcher", "stopEvents", "stopQueries",
         "notifyDatabase", "endDispatcher", "stopServices", "done"}

ServerTypeOK ==
  /\ DTypeOK /\ BTypeOK /\ STypeOK
  /\ gameState \in {"NORMAL", "MAINTAIN", "SHUTDOWN"}
  /\ step \in Step
  /\ mainPc \in {"serving", "stopping", "joinScheduler", "joinDatabase",
                 "joinDispatcher", "exited"}
  /\ used \in SUBSET (Task \cup Query)
  /\ accepted \in Seq(Query)

Init ==
  /\ DInit /\ BInit /\ SInit
  /\ gameState = "NORMAL"
  /\ step = "body"
  /\ mainPc = "serving"
  /\ used = {}
  /\ accepted = <<>>

-----------------------------------------------------------------------------
(* What any thread may do *)

\* No thread runs on while it owes a signal.
Idle(p) == p \notin dNotify \cup bNotify

Create(x) == x \notin used /\ used' = used \cup {x}

NewQuery(p, q) ==
  /\ Create(q)
  /\ BAddTask(p, q)
  /\ accepted' = IF bState = "RUNNING" THEN Append(accepted, q) ELSE accepted
  /\ UNCHANGED <<dVars, sVars, gameState, step, mainPc>>

NewEvent(e) ==
  /\ Create(e)
  /\ SAddEvent(e)
  /\ UNCHANGED <<dVars, bVars, gameState, step, mainPc, accepted>>

\* stopEvent of an event that was added, whatever has become of it since.
CancelEvent(e) ==
  /\ e \in used
  /\ Len(posted) < PostBound
  /\ SStopEvent(e)
  /\ UNCHANGED <<dVars, bVars, gVars>>

Notify(p) ==
  \/ DNotifyOne(p) /\ UNCHANGED <<bVars, sVars, gVars>>
  \/ BNotifyOne(p) /\ UNCHANGED <<dVars, sVars, gVars>>

-----------------------------------------------------------------------------
(* The main thread *)

\* The io_service hands a message or a signal to the dispatcher, or looks an
\* address up in the ban list and expires the entry with a query.
NetworkRun ==
  /\ mainPc \in {"serving", "stopping"}
  /\ Idle(NetworkThread)
  /\ \/ \E t \in NetTask \cup Signal \cup {SaveGame} :
          /\ Create(t)
          /\ DAddTask(NetworkThread, t, FALSE)
          /\ UNCHANGED <<bVars, sVars, gameState, step, mainPc, accepted>>
     \/ \E q \in Query \ WithCallback : NewQuery(NetworkThread, q)

\* The death timer of ServiceManager::stop, then the three joins.
MainEnd ==
  /\ Idle(NetworkThread)
  /\ \/ mainPc = "stopping" /\ mainPc' = "joinScheduler"
     \/ mainPc = "joinScheduler" /\ sPc = "exit" /\ mainPc' = "joinDatabase"
     \/ mainPc = "joinDatabase" /\ bPc = "exit" /\ mainPc' = "joinDispatcher"
     \/ mainPc = "joinDispatcher" /\ dPc = "exit" /\ mainPc' = "exited"
  /\ UNCHANGED <<dVars, bVars, sVars, gameState, step, used, accepted>>

-----------------------------------------------------------------------------
(* The dispatcher thread: the tasks *)

At(s) == dPc = "run" /\ step = s /\ Idle(DispatcherThread)

GoTo(s) == step' = s /\ UNCHANGED <<mainPc, used, accepted>>

\* A message, an event or a callback: any calls on the queues, in any order.
PlainCall ==
  /\ At("body")
  /\ dTask \in Plain
  /\ \/ \E q \in Query : NewQuery(DispatcherThread, q)
     \/ \E e \in Event : NewEvent(e) \/ CancelEvent(e)

\* setGameState(GAME_STATE_SHUTDOWN), up to the flush of saveGameState:
\* "this cannot be stopped", and the second signal does nothing.
SetShutdown ==
  /\ At("body")
  /\ dTask \in Signal
  /\ gameState' = "SHUTDOWN"
  /\ GoTo(IF gameState = "SHUTDOWN" THEN "done" ELSE "flush")
  /\ UNCHANGED <<dVars, bVars, sVars>>

\* saveGameState, up to its flush.
SaveState ==
  /\ At("body")
  /\ dTask \in {SaveGame, GameShutdown}
  /\ gameState' = IF gameState = "NORMAL" THEN "MAINTAIN" ELSE gameState
  /\ GoTo("flush")
  /\ UNCHANGED <<dVars, bVars, sVars>>

FlushPop ==
  /\ At("flush")
  /\ BFlushPop
  /\ GoTo("flushRun")
  /\ UNCHANGED <<dVars, sVars, gameState>>

FlushRun ==
  /\ At("flushRun")
  /\ BFlushRun
  /\ GoTo("flush")
  /\ UNCHANGED <<sVars, gameState>>

\* What follows the flush depends on who called it: Game::shutdown flushes
\* twice, in saveGameState and in DatabaseTasks::shutdown.
AfterFlush ==
  CASE dTask \in Signal -> "enqueue"
    [] dTask = SaveGame -> "done"
    [] OTHER -> IF bState = "TERMINATED" THEN "notifyDatabase" ELSE "stopEvents"

\* Mutant: flush executes what happens to be there, "if" for "while".
EarlyFlushEnd ==
  /\ At("flush")
  /\ gameState' = IF gameState = "MAINTAIN" THEN "NORMAL" ELSE gameState
  /\ GoTo(AfterFlush)
  /\ UNCHANGED <<dVars, bVars, sVars>>

FlushEnd ==
  /\ At("flush")
  /\ bList = <<>>
  /\ gameState' = IF gameState = "MAINTAIN" THEN "NORMAL" ELSE gameState
  /\ GoTo(AfterFlush)
  /\ UNCHANGED <<dVars, bVars, sVars>>

\* The rest of setGameState.
EnqueueShutdown ==
  /\ At("enqueue")
  /\ DAddTask(DispatcherThread, GameShutdown, FALSE)
  /\ GoTo("stopScheduler")
  /\ UNCHANGED <<bVars, sVars, gameState>>

StopQueues ==
  /\ \/ /\ At("stopScheduler") /\ GoTo("stopDatabase")
        /\ SStop /\ UNCHANGED <<dVars, bVars>>
     \/ /\ At("stopDatabase") /\ GoTo("stopDispatcher")
        /\ BSetState("CLOSING") /\ UNCHANGED <<dVars, sVars>>
     \/ /\ At("stopDispatcher") /\ GoTo("done")
        /\ DStop /\ UNCHANGED <<bVars, sVars>>
  /\ UNCHANGED gameState

\* The rest of Game::shutdown; the flush of DatabaseTasks::shutdown lies
\* between "stopQueries" and "notifyDatabase".
EndQueues ==
  /\ \/ /\ At("stopEvents") /\ GoTo("stopQueries")
        /\ SShutdown /\ UNCHANGED <<dVars, bVars>>
     \/ /\ At("stopQueries") /\ GoTo("flush")
        /\ BSetState("TERMINATED") /\ UNCHANGED <<dVars, sVars>>
     \/ /\ At("notifyDatabase") /\ GoTo("endDispatcher")
        /\ BNotifyShutdown /\ UNCHANGED <<dVars, sVars>>
     \/ /\ At("endDispatcher") /\ GoTo("stopServices")
        /\ DShutdown /\ UNCHANGED <<bVars, sVars>>
  /\ UNCHANGED gameState

\* serviceManager->stop arms the death timer.
StopServices ==
  /\ At("stopServices")
  /\ step' = "done"
  /\ mainPc' = "stopping"
  /\ UNCHANGED <<dVars, bVars, sVars, gameState, used, accepted>>

EndTask ==
  /\ At(IF dTask \in Plain \cup {Terminate} THEN "body" ELSE "done")
  /\ DFinish
  /\ GoTo("body")
  /\ UNCHANGED <<bVars, sVars, gameState>>

-----------------------------------------------------------------------------

DispatcherRun ==
  \/ (DLoopHead \/ DTake \/ DWait \/ DNothingThere)
       /\ UNCHANGED <<bVars, sVars, gVars>>
  \/ SetShutdown \/ SaveState \/ FlushPop \/ FlushRun \/ FlushEnd
  \/ EnqueueShutdown \/ StopQueues \/ EndQueues \/ StopServices \/ EndTask

DatabaseRun == BThread /\ UNCHANGED <<sVars, gVars>>

SchedulerRun == SThread /\ UNCHANGED <<bVars, gVars>>

Expire(e) == SExpire(e) /\ UNCHANGED <<dVars, bVars, gVars>>

Spurious ==
  \/ DSpuriousWakeup /\ UNCHANGED <<bVars, sVars, gVars>>
  \/ BSpuriousWakeup /\ UNCHANGED <<dVars, sVars, gVars>>

Next ==
  \/ \E p \in Producer : Notify(p)
  \/ NetworkRun \/ MainEnd
  \/ PlainCall \/ DispatcherRun
  \/ DatabaseRun
  \/ SchedulerRun \/ \E e \in Event : Expire(e)
  \/ Spurious

\* Every thread that can run does, time passes, and a signal once owed is
\* sent.  A message, a query, an event or a spurious wake-up need not come.
Fairness ==
  /\ \A p \in Producer : WF_vars(Notify(p))
  /\ WF_vars(DispatcherRun)
  /\ WF_vars(DatabaseRun)
  /\ WF_vars(SchedulerRun)
  /\ \A e \in Event : WF_vars(Expire(e))
  /\ WF_vars(MainEnd)

Spec == Init /\ [][Next]_vars /\ Fairness

-----------------------------------------------------------------------------
(* Properties *)

Count(b) == IF b THEN 1 ELSE 0

\* How many places hold a pointer to the task x.
Owners(x) ==
  Count(x \in armed) + Count(dTask = x)
  + Cardinality({i \in DOMAIN taskList : taskList[i] = x})
  + Cardinality({i \in DOMAIN posted : posted[i].op \in {"arm", "timer"}
                                         /\ posted[i].event = x})

\* A task is owned, and so deleted, once: an event is never both with the
\* scheduler and with the dispatcher, and no cancel, expiry or drain makes a
\* second completion of one timer.
OwnedOnce == \A t \in Event \cup NetTask : Owners(t) <= 1

\* The dispatcher thread does not leave an accepted task behind: the state
\* it tests is TERMINATED only once Game::shutdown, which setGameState queued
\* before it closed the list, and everything accepted before, have run.
NoTaskLeftBehind == dPc = "exit" => taskList = <<>>

\* No accepted query is lost, or executed twice, by a shutdown: when both
\* threads that execute queries have stopped doing so, the server has
\* executed exactly the accepted ones.
QueriesDurable ==
  dPc = "exit" /\ bPc \in {"exit", "waiting"} =>
    /\ Len(executed) = Len(accepted)
    /\ ToSet(executed) = ToSet(accepted)

\* flush() runs queries on the dispatcher thread while the database thread
\* is executing one: the only query that a later one can overtake is a query
\* one of the two threads has in hand.
OnlyInHandOvertaken ==
  \A i, j \in DOMAIN accepted :
    i < j /\ accepted[j] \in ToSet(executed)
      => accepted[i] \in ToSet(executed) \cup {bTask, bFlush}

\* Once asked to end, the dispatcher and the scheduler end, whatever the
\* network, the timers and the queries do meanwhile.
DispatcherAndSchedulerEnd ==
  gameState = "SHUTDOWN" ~> dPc = "exit" /\ sPc = "exit"

\* The process ends: otserv.cpp joins the three threads, in the words of
\* signals.cpp "until other threads end", and start.sh restarts the server
\* from its exit code.
AllThreadsEnd == gameState = "SHUTDOWN" ~> mainPc = "exited"
=============================================================================
