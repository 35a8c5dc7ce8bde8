------------------------------ MODULE TaskQueue ------------------------------
(***************************************************************************)
(* What the dispatcher promises its callers, without mutex, condition      *)
(* variable or wake-ups: one worker takes the accepted tasks in the order  *)
(* they were accepted, one at a time, and goes on taking them until it has *)
(* finished the task that ends it.  A task with a deadline may be dropped  *)
(* instead of run.  Dispatcher.tla is shown to implement this module.      *)
(***************************************************************************)
EXTENDS Sequences

CONSTANTS Task,       \* everything that can be queued
          Timed,      \* the tasks that carry a deadline
          Terminate,  \* the task that ends the worker
          NoTask      \* the worker is between two tasks

VARIABLES queue,      \* accepted and not yet taken
          running,    \* the task being executed, or NoTask
          ended       \* the worker has finished Terminate

vars == <<queue, running, ended>>

Init == queue = <<>> /\ running = NoTask /\ ended = FALSE

Accept(t) == queue' = Append(queue, t) /\ UNCHANGED <<running, ended>>

\* The worker is free and there is something to take.
CanTake == running = NoTask /\ queue # <<>> /\ ~ended

Take ==
  /\ CanTake
  /\ running' = Head(queue)
  /\ queue' = Tail(queue)
  /\ UNCHANGED ended

DropExpired ==
  /\ CanTake
  /\ Head(queue) \in Timed
  /\ queue' = Tail(queue)
  /\ UNCHANGED <<running, ended>>

Finish ==
  /\ running # NoTask
  /\ running' = NoTask
  /\ ended' = (ended \/ running = Terminate)
  /\ UNCHANGED queue

Next == (\E t \in Task : Accept(t)) \/ Take \/ DropExpired \/ Finish

Fairness == WF_vars(Take \/ DropExpired) /\ WF_vars(Finish)

Spec == Init /\ [][Next]_vars /\ Fairness
=============================================================================
