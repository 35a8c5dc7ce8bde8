------------------------------ MODULE Scheduler ------------------------------
(***************************************************************************)
(* The scheduler thread (src/src/scheduler.cpp): delayed tasks.  addEvent, *)
(* stopEvent and shutdown only post a handler to the io_service; its one   *)
(* thread runs the handlers in order.  A timer that expires, and one that  *)
(* is cancelled, completes through the same queue, so that a completion    *)
(* already queued cannot be cancelled any more.                            *)
(***************************************************************************)
EXTENDS Dispatcher, FiniteSets, SequencesExt

CONSTANTS Event,           \* the SchedulerTasks; an event id is its event
          SchedulerThread  \* the thread itself, as a producer of tasks

ASSUME SchedulerAssumption ==
  /\ Event \subseteq Task \ {Terminate}
  /\ SchedulerThread \in Producer \ {DispatcherThread}

VARIABLES sState,   \* ThreadHolder::threadState
          posted,   \* handlers ready to run, in order
          armed,    \* the entries of eventIds whose timer is still waiting
          sWork,    \* the work guard that keeps io_service.run from returning
          sPc       \* "run" inside io_service.run, "exit" after it

sVars == <<sState, posted, armed, sWork, sPc>>

ArmHandler(e) == [op |-> "arm", event |-> e]
CancelHandler(e) == [op |-> "cancel", event |-> e]
Completion(e, aborted) == [op |-> "timer", event |-> e, aborted |-> aborted]
DrainHandler == [op |-> "drain"]

Handler ==
  {ArmHandler(e) : e \in Event} \cup {CancelHandler(e) : e \in Event}
    \cup {Completion(e, a) : e \in Event, a \in BOOLEAN} \cup {DrainHandler}

STypeOK ==
  /\ sState \in ThreadState
  /\ posted \in Seq(Handler)
  /\ armed \in SUBSET Event
  /\ sWork \in BOOLEAN
  /\ sPc \in {"run", "exit"}

SInit ==
  /\ sState = "RUNNING"
  /\ posted = <<>>
  /\ armed = {}
  /\ sWork = TRUE
  /\ sPc = "run"

-----------------------------------------------------------------------------
(* The callers, on any thread *)

SPost(h) == posted' = Append(posted, h) /\ UNCHANGED <<armed, sWork, sPc>>

SAddEvent(e) == SPost(ArmHandler(e)) /\ UNCHANGED sState

SStopEvent(e) == SPost(CancelHandler(e)) /\ UNCHANGED sState

SStop == sState' = "CLOSING" /\ UNCHANGED <<posted, armed, sWork, sPc>>

SShutdown == sState' = "TERMINATED" /\ SPost(DrainHandler)

-----------------------------------------------------------------------------
(* The thread *)

\* Time passes: the timer completes without an error.
SExpire(e) ==
  /\ sPc = "run"
  /\ e \in armed
  /\ armed' = armed \ {e}
  /\ posted' = Append(posted, Completion(e, FALSE))
  /\ UNCHANGED <<sState, sWork, sPc>>

\* The lambda of addEvent.
SArm(h) ==
  /\ h.op = "arm"
  /\ armed' = armed \cup {h.event}
  /\ posted' = Tail(posted)
  /\ UNCHANGED <<sWork, dVars>>

\* Mutant: a timer already completed is cancelled a second time.
SecondSCancel(h) ==
  /\ h.op = "cancel"
  /\ armed' = armed \ {h.event}
  /\ posted' = Append(Tail(posted), Completion(h.event, TRUE))
  /\ UNCHANGED <<sWork, dVars>>

\* The lambda of stopEvent: too late for a timer that has completed.
SCancel(h) ==
  /\ h.op = "cancel"
  /\ armed' = armed \ {h.event}
  /\ posted' = IF h.event \in armed
                 THEN Append(Tail(posted), Completion(h.event, TRUE))
                 ELSE Tail(posted)
  /\ UNCHANGED <<sWork, dVars>>

\* The completion handler: deletes the task or hands it to the dispatcher.
SComplete(h) ==
  /\ h.op = "timer"
  /\ posted' = Tail(posted)
  /\ IF h.aborted \/ sState = "TERMINATED"
       THEN UNCHANGED dVars
       ELSE DAddTask(SchedulerThread, h.event, FALSE)
  /\ UNCHANGED <<armed, sWork>>

\* The lambda of shutdown: cancels every timer and releases the work guard.
SDrain(h) ==
  /\ h.op = "drain"
  /\ armed' = {}
  /\ posted' = Tail(posted) \o SetToSeq({Completion(e, TRUE) : e \in armed})
  /\ sWork' = FALSE
  /\ UNCHANGED dVars

SHandle ==
  /\ sPc = "run"
  /\ SchedulerThread \notin dNotify
  /\ posted # <<>>
  /\ LET h == Head(posted) IN SArm(h) \/ SCancel(h) \/ SComplete(h) \/ SDrain(h)
  /\ UNCHANGED <<sState, sPc>>

\* run() returns when there is nothing left to wait for.
SExit ==
  /\ sPc = "run"
  /\ SchedulerThread \notin dNotify
  /\ posted = <<>> /\ armed = {} /\ ~sWork
  /\ sPc' = "exit"
  /\ UNCHANGED <<sState, posted, armed, sWork, dVars>>

SThread == SHandle \/ SExit
=============================================================================
