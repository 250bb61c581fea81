---------------------------- MODULE TimerService ----------------------------
(***************************************************************************)
(* What the callers of src/include/scheduler.h count on.  schedule() puts  *)
(* a task on a list under its id, and cancel() takes off what is there     *)
(* under the id of its task: the task scheduled last, of those with that   *)
(* id.  generate_task_id() gives the tasks made in one second the same id, *)
(* so that need not be the task cancel() was called with.  Only a task on  *)
(* the list fires by itself; task functions, whether fired by the          *)
(* scheduler's thread or run by a caller of execute(), never overlap; and  *)
(* neither schedule() nor cancel() gets past a task function that is       *)
(* running.  A cancel() on the empty list uses the service up: the next    *)
(* schedule() or cancel() never returns and no task runs any more.         *)
(***************************************************************************)
EXTENDS Lists

CONSTANTS
  Task,     \* scheduler_task structures
  IdOf,     \* their ids
  NoTask,   \* no task function is running
  Wedged    \* a call that never returns keeps the service to itself

VARIABLES
  armed,    \* the list of the tasks handed to schedule() and not taken off
  running   \* the task whose function is running, NoTask or Wedged

timerVars == <<armed, running>>

TimerTypeOK ==
  /\ armed \in ListOf(Nat, Task)
  /\ running \in Task \cup {NoTask, Wedged}

TimerInit ==
  /\ armed = NewList
  /\ running = NoTask

\* schedule()
Arm(t) ==
  /\ running = NoTask
  /\ Usable(armed)
  /\ armed' = ladd(armed, IdOf[t], t)
  /\ UNCHANGED running

\* cancel()
Disarm(t) ==
  /\ running = NoTask
  /\ Usable(armed)
  /\ armed' = lremove(armed, IdOf[t])
  /\ UNCHANGED running

\* schedule() or cancel(), too late
NeverReturn ==
  /\ running = NoTask
  /\ ~Usable(armed)
  /\ running' = Wedged
  /\ UNCHANGED armed

Fire(t) ==
  /\ running = NoTask
  /\ t \in Values(armed)
  /\ running' = t
  /\ UNCHANGED armed

\* execute(): the caller answers for the task still being alive.
RunNow(t) ==
  /\ running = NoTask
  /\ running' = t
  /\ UNCHANGED armed

Return ==
  /\ running \in Task
  /\ running' = NoTask
  /\ UNCHANGED armed

TimerNext ==
  \/ \E t \in Task : Arm(t) \/ Disarm(t) \/ Fire(t) \/ RunNow(t)
  \/ NeverReturn
  \/ Return

TimerSpec == TimerInit /\ [][TimerNext]_timerVars
=============================================================================
