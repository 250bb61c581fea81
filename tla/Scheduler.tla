------------------------------ MODULE Scheduler ------------------------------
(***************************************************************************)
(* src/scheduler.c: the scheduler's thread, and the threads that call      *)
(* schedule(), cancel(), execute() and stop_scheduler().                   *)
(*                                                                         *)
(* A step is a section of the code between two points at which another     *)
(* thread can get in: the mutex scheduler->lock is taken and released, or  *)
(* released by pthread_cond_(timed)wait.  The semaphore scheduler->guard   *)
(* is only ever taken by the holder of the mutex, so it is never contended *)
(* and has no variable.  The start and the end of a task function are      *)
(* steps of their own.                                                     *)
(*                                                                         *)
(* Time is in seconds and relative: due_in[t] is t->waking_time - time(0), *)
(* deadline is the absolute time of pthread_cond_timedwait minus time(0).  *)
(* Both stop counting down where the code no longer tells values apart.    *)
(***************************************************************************)
EXTENDS Lists

CONSTANTS
  Client,        \* threads that call the scheduler
  SchedThread,   \* scheduler->thread
  Nobody,        \* the mutex is free
  Task,          \* scheduler_task structures
  NoTask,
  Wedged,        \* see TimerService
  IdOf,          \* task->id, from generate_task_id()
  Period,        \* task->period
  Never,         \* deadline of pthread_cond_wait
  CancelAgain    \* callers may cancel a task that is not scheduled

Thread == Client \cup {SchedThread}

UniqueIds == \A t, u \in Task : IdOf[t] = IdOf[u] => t = u

ASSUME SchedulerAssumption ==
  /\ SchedThread \notin Client
  /\ Nobody \notin Thread
  /\ NoTask \notin Task
  /\ Wedged \notin Task \cup {NoTask}
  /\ IdOf \in [Task -> Nat]
  /\ Period \in [Task -> Nat]
  /\ Never \notin Int
  /\ CancelAgain \in BOOLEAN

VARIABLES
  l,          \* scheduler->l
  lock,       \* scheduler->lock: the thread that holds it, or Nobody
  stop,       \* scheduler->stop
  due_in,     \* seconds until t->waking_time
  pc,         \* where each thread is
  deadline,   \* end of the scheduler thread's wait
  due,        \* tasks process_tasks() has found due and not started yet
  task,       \* the task a thread has at hand
  armed       \* history: the tasks scheduled and not cancelled since

vars == <<l, lock, stop, due_in, pc, deadline, due, task, armed>>

SchedPc == {"lock", "wait", "relock", "process", "in_task", "exited"}
ClientPc == {"idle", "found", "in_task", "stuck"}

(* A task that is more than Overdue seconds late is just late. *)
Overdue == 2

(* What the variables may be.  The guard of task_list is 0 or 1: no way       *)
(* through lremove() gives it back twice.                                    *)
TypeOK ==
  /\ l \in ListOf(Nat, Task)
  /\ lock \in Thread \cup {Nobody}
  /\ stop \in BOOLEAN
  /\ due_in \in [Task -> Int]
  /\ pc \in [Thread -> SchedPc \cup ClientPc]
  /\ pc[SchedThread] \in SchedPc
  /\ \A c \in Client : pc[c] \in ClientPc
  /\ deadline \in Nat \cup {Never}
  /\ due \subseteq Task
  /\ task \in [Thread -> Task \cup {NoTask}]
  /\ armed \subseteq Task

(* scheduler_start() *)
Init ==
  /\ l = NewList
  /\ lock = Nobody
  /\ stop = FALSE
  /\ due_in = [t \in Task |-> 0]
  /\ pc = [th \in Thread |-> IF th = SchedThread THEN "lock" ELSE "idle"]
  /\ deadline = Never
  /\ due = {}
  /\ task = [th \in Thread |-> NoTask]
  /\ armed = {}

-----------------------------------------------------------------------------
(* Mutant of Signal: the condition is not signalled. *)
NoSignal == pc

(* pthread_cond_signal(&scheduler->condition): only the scheduler's thread *)
(* ever waits there.                                                       *)
Signal == [pc EXCEPT ![SchedThread] = IF @ = "wait" THEN "relock" ELSE @]

(* Mutant of Schedule: the task is added without the mutex. *)
ScheduleUnlocked(c, t) ==
  /\ pc[c] = "idle"
  /\ Usable(l)
  /\ t \notin armed \cup Values(l)
  /\ due_in' = [due_in EXCEPT ![t] = Period[t]]
  /\ l' = ladd(l, IdOf[t], t)
  /\ pc' = Signal
  /\ armed' = armed \cup {t}
  /\ UNCHANGED <<lock, stop, deadline, due, task>>

Schedule(c, t) ==
  /\ pc[c] = "idle"
  /\ lock = Nobody
  /\ Usable(l)
  /\ t \notin armed \cup Values(l)
  /\ due_in' = [due_in EXCEPT ![t] = Period[t]]
  /\ l' = ladd(l, IdOf[t], t)
  /\ pc' = Signal
  /\ armed' = armed \cup {t}
  /\ UNCHANGED <<lock, stop, deadline, due, task>>

(* Mutant of Cancel: the task is removed without the mutex. *)
CancelUnlocked(c, t) ==
  /\ pc[c] = "idle"
  /\ Usable(l)
  /\ t \in armed \/ CancelAgain
  /\ l' = lremove(l, IdOf[t])
  /\ pc' = Signal
  /\ armed' = armed \ {t}
  /\ UNCHANGED <<lock, stop, due_in, deadline, due, task>>

Cancel(c, t) ==
  /\ pc[c] = "idle"
  /\ lock = Nobody
  /\ Usable(l)
  /\ t \in armed \/ CancelAgain
  /\ l' = lremove(l, IdOf[t])
  /\ pc' = Signal
  /\ armed' = armed \ {t}
  /\ UNCHANGED <<lock, stop, due_in, deadline, due, task>>

(* schedule() or cancel() after a cancel() on the empty list: the caller   *)
(* takes the mutex and blocks for ever on the guard of the list.           *)
BlockOnListGuard(c) ==
  /\ pc[c] = "idle"
  /\ lock = Nobody
  /\ ~Usable(l)
  /\ lock' = c
  /\ pc' = [pc EXCEPT ![c] = "stuck"]
  /\ UNCHANGED <<l, stop, due_in, deadline, due, task, armed>>

(* The caller of execute() finds the task first, without the mutex. *)
FindTask(c, t) ==
  /\ pc[c] = "idle"
  /\ t \in armed
  /\ pc' = [pc EXCEPT ![c] = "found"]
  /\ task' = [task EXCEPT ![c] = t]
  /\ UNCHANGED <<l, lock, stop, due_in, deadline, due, armed>>

(* Mutant of Execute: the task's function is run without the mutex. *)
ExecuteUnlocked(c) ==
  /\ pc[c] = "found"
  /\ lock' = c
  /\ pc' = [pc EXCEPT ![c] = "in_task"]
  /\ UNCHANGED <<l, stop, due_in, deadline, due, task, armed>>

Execute(c) ==
  /\ pc[c] = "found"
  /\ lock = Nobody
  /\ lock' = c
  /\ pc' = [pc EXCEPT ![c] = "in_task"]
  /\ UNCHANGED <<l, stop, due_in, deadline, due, task, armed>>

ExecuteReturn(c) ==
  /\ pc[c] = "in_task"
  /\ due_in' = [due_in EXCEPT ![task[c]] = Period[task[c]]]
  /\ task' = [task EXCEPT ![c] = NoTask]
  /\ lock' = Nobody
  /\ pc' = [Signal EXCEPT ![c] = "idle"]
  /\ UNCHANGED <<l, stop, deadline, due, armed>>

StopScheduler(c) ==
  /\ pc[c] = "idle"
  /\ lock = Nobody
  /\ stop' = TRUE
  /\ pc' = Signal
  /\ UNCHANGED <<l, lock, due_in, deadline, due, task, armed>>

-----------------------------------------------------------------------------
(* Mutant of Earliest: the task scheduled last is taken for the earliest.  *)
NewestIsEarliest(t) == t = l.elems[1].value

(* find_earliest_waking_time(): t is one of the tasks that wake first.     *)
Earliest(t) == \A u \in Values(l) : due_in[t] <= due_in[u]

(* await(): takes the mutex, looks at the list once and releases the mutex *)
(* by waiting, with no end on an empty list, else until one second after   *)
(* the earliest waking time.  scheduler->stop is not looked at here.       *)
Await ==
  /\ pc[SchedThread] = "lock"
  /\ lock = Nobody
  /\ \/ /\ lsize(l) = 0
        /\ deadline' = Never
     \/ \E t \in Values(l) :
          /\ Earliest(t)
          /\ deadline' = IF due_in[t] + 1 > 0 THEN due_in[t] + 1 ELSE 0
  /\ pc' = [pc EXCEPT ![SchedThread] = "wait"]
  /\ UNCHANGED <<l, lock, stop, due_in, due, task, armed>>

WaitTimesOut ==
  /\ pc[SchedThread] = "wait"
  /\ deadline = 0
  /\ pc' = [pc EXCEPT ![SchedThread] = "relock"]
  /\ UNCHANGED <<l, lock, stop, due_in, deadline, due, task, armed>>

(* POSIX lets pthread_cond_wait return unasked; await() does not wait again. *)
SpuriousWakeup ==
  /\ pc[SchedThread] = "wait"
  /\ pc' = [pc EXCEPT ![SchedThread] = "relock"]
  /\ UNCHANGED <<l, lock, stop, due_in, deadline, due, task, armed>>

(* Mutant of MustReturn: scheduler->stop is not looked at. *)
NeverMustReturn == FALSE

MustReturn == stop

(* The thread has the mutex back.  It returns, and keeps the mutex, when it *)
(* is to stop; else it compares each task with the time read once at the   *)
(* top of process_tasks(): which tasks it will run is settled here.        *)
Wake ==
  /\ pc[SchedThread] = "relock"
  /\ lock = Nobody
  /\ lock' = SchedThread
  /\ IF MustReturn
     THEN /\ pc' = [pc EXCEPT ![SchedThread] = "exited"]
          /\ UNCHANGED due
     ELSE /\ pc' = [pc EXCEPT ![SchedThread] = "process"]
          /\ due' = {t \in Values(l) : due_in[t] <= 0}
  /\ UNCHANGED <<l, stop, due_in, deadline, task, armed>>

(* The tasks due are run in the order of the list. *)
RunTask ==
  /\ pc[SchedThread] = "process"
  /\ \E i \in DOMAIN l.elems :
       /\ l.elems[i].value \in due
       /\ \A j \in 1 .. i - 1 : l.elems[j].value \notin due
       /\ task' = [task EXCEPT ![SchedThread] = l.elems[i].value]
       /\ due' = due \ {l.elems[i].value}
  /\ pc' = [pc EXCEPT ![SchedThread] = "in_task"]
  /\ UNCHANGED <<l, lock, stop, due_in, deadline, armed>>

TaskReturns ==
  /\ pc[SchedThread] = "in_task"
  /\ due_in' = [due_in EXCEPT ![task[SchedThread]] = Period[task[SchedThread]]]
  /\ task' = [task EXCEPT ![SchedThread] = NoTask]
  /\ pc' = [pc EXCEPT ![SchedThread] = "process"]
  /\ UNCHANGED <<l, lock, stop, deadline, due, armed>>

EndOfPass ==
  /\ pc[SchedThread] = "process"
  /\ due = {}
  /\ lock' = Nobody
  /\ pc' = [pc EXCEPT ![SchedThread] = "lock"]
  /\ UNCHANGED <<l, stop, due_in, deadline, due, task, armed>>

-----------------------------------------------------------------------------
(* A second passes. *)
Tick ==
  /\ due_in' = [t \in Task |-> IF t \in Values(l) /\ due_in[t] > -Overdue
                               THEN due_in[t] - 1 ELSE due_in[t]]
  /\ deadline' = IF deadline \in Nat \ {0} THEN deadline - 1 ELSE deadline
  /\ UNCHANGED <<l, lock, stop, pc, due, task, armed>>

SchedulerThread ==
  Await \/ WaitTimesOut \/ SpuriousWakeup \/ Wake \/ RunTask \/ TaskReturns \/ EndOfPass

ClientThread(c) ==
  \/ \E t \in Task : Schedule(c, t) \/ Cancel(c, t) \/ FindTask(c, t)
  \/ Execute(c) \/ ExecuteReturn(c) \/ BlockOnListGuard(c) \/ StopScheduler(c)

Next == SchedulerThread \/ (\E c \in Client : ClientThread(c)) \/ Tick

Spec == Init /\ [][Next]_vars

(* Threads run, a task function returns, the clock goes on, and the mutex  *)
(* does not pass over the scheduler's thread for ever.  Nobody is obliged  *)
(* to call the scheduler, and no wakeup is spurious by obligation.         *)
Fairness ==
  /\ SF_vars(Await) /\ SF_vars(Wake)
  /\ WF_vars(WaitTimesOut) /\ WF_vars(RunTask) /\ WF_vars(TaskReturns)
  /\ WF_vars(EndOfPass) /\ WF_vars(Tick)
  /\ \A c \in Client : WF_vars(ExecuteReturn(c))

FairSpec == Spec /\ Fairness

-----------------------------------------------------------------------------
(* Task functions never overlap, whichever thread runs them: process_tasks *)
(* runs them under the mutex execute() takes.                              *)
FunctionsExclusive ==
  \A a, b \in Thread : pc[a] = "in_task" /\ pc[b] = "in_task" => a = b

(* "Cancels a task" (scheduler.h:66): once cancel() has returned, the task *)
(* is neither scheduled nor about to be run by the scheduler's thread, even *)
(* when cancel() was called while a pass was under way; and cancelling one *)
(* task leaves the other ones scheduled.                                   *)
CancelIsFinal ==
  /\ Values(l) = armed
  /\ due \subseteq armed
  /\ pc[SchedThread] = "in_task" => task[SchedThread] \in armed

(* The wait of the scheduler's thread never lasts longer than one second    *)
(* after the waking time of any scheduled task, however the list and the   *)
(* waking times have changed since await() looked for the earliest one: no *)
(* schedule(), cancel() or execute() leaves it asleep on an old deadline.  *)
NeverOversleeps ==
  pc[SchedThread] = "wait" =>
    \A t \in Values(l) : deadline # Never /\ (deadline <= due_in[t] + 1 \/ deadline = 0)

running ==
  CASE lock \in Thread /\ pc[lock] = "in_task" -> task[lock]
    [] lock \in Client /\ pc[lock] = "stuck" -> Wedged
    [] OTHER -> NoTask

Timer == INSTANCE TimerService WITH armed <- l, running <- running

(* What the callers of scheduler.h see of its threads, mutex and condition  *)
(* is the list of TimerService and one task function at a time, whether    *)
(* ids are distinct or not.                                                *)
ImplementsTimerService == Timer!TimerSpec

(* A task on the list is run again, by one thread or the other, until it is *)
(* taken off or the scheduler is told to stop: no signal is lost.          *)
ArmedTaskRuns ==
  \A t \in Task : t \in Values(l) ~> (running = t \/ t \notin Values(l) \/ stop)

(* stop_scheduler() ends the thread, unless there is nothing scheduled: the *)
(* thread does not look at scheduler->stop before it waits.                *)
StopEndsThread == stop ~> (pc[SchedThread] = "exited" \/ lsize(l) = 0)
=============================================================================
