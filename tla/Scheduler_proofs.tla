--------------------------- MODULE Scheduler_proofs ---------------------------
(***************************************************************************)
(* What holds of the scheduler for any number of threads and tasks: types, *)
(* that task functions never overlap, that Scheduler implements            *)
(* TimerService, and that a cancel() is final.  Only the last one needs    *)
(* the ids of the tasks to differ, which generate_task_id() does not       *)
(* ensure.                                                                 *)
(***************************************************************************)
EXTENDS Scheduler, Lists_proofs

(* The mutex is held exactly while its holder runs tasks, has ended with it *)
(* or is stuck with it.                                                    *)
LockInv ==
  /\ lock = SchedThread <=> pc[SchedThread] \in {"process", "in_task", "exited"}
  /\ \A c \in Client : lock = c <=> pc[c] \in {"in_task", "stuck"}

(* A thread that runs a function, or is about to, has a task at hand. *)
TaskInv ==
  /\ pc[SchedThread] = "in_task" => task[SchedThread] \in Task
  /\ \A c \in Client : pc[c] \in {"found", "in_task"} => task[c] \in Task
  /\ due # {} => pc[SchedThread] \in {"process", "in_task"}

Inv == TypeOK /\ LockInv /\ TaskInv

(* The list is keyed by the ids of its tasks, each in it at most once. *)
Keyed ==
  /\ DistinctKeys(l)
  /\ \A i \in DOMAIN l.elems : l.elems[i].key = IdOf[l.elems[i].value]

KeyedInv == Inv /\ Keyed /\ CancelIsFinal

-----------------------------------------------------------------------------
LEMMA ListInNat == ASSUME SchedulerAssumption, NEW t \in Task PROVE IdOf[t] \in Nat
BY DEF SchedulerAssumption

LEMMA SignalType ==
  ASSUME SchedulerAssumption, TypeOK
  PROVE  /\ Signal \in [Thread -> SchedPc \cup ClientPc]
         /\ Signal[SchedThread] \in SchedPc
         /\ \A c \in Client : Signal[c] = pc[c]
         /\ \A p \in {"process", "in_task", "exited"} :
              Signal[SchedThread] = p <=> pc[SchedThread] = p
<1>1. SchedThread \in Thread /\ \A c \in Client : c \in Thread /\ c # SchedThread
  BY DEF SchedulerAssumption, Thread
<1>2. pc \in [Thread -> SchedPc \cup ClientPc] /\ pc[SchedThread] \in SchedPc
  BY DEF TypeOK
<1> QED BY <1>1, <1>2 DEF Signal, SchedPc

(* The inductive step for Inv, one step of the proof per action. *)
LEMMA InvInit == ASSUME SchedulerAssumption, Init PROVE Inv
<1>1. NewList \in ListOf(Nat, Task)
  BY DEF NewList, ListOf
<1>2. SchedThread \in Thread /\ \A c \in Client : c \in Thread /\ c # SchedThread /\ c # Nobody
  BY DEF SchedulerAssumption, Thread
<1>3. Nobody # SchedThread
  BY DEF SchedulerAssumption, Thread
<1>4. TypeOK
  <2>1. /\ pc \in [Thread -> SchedPc \cup ClientPc]
        /\ pc[SchedThread] \in SchedPc
        /\ \A c \in Client : pc[c] \in ClientPc
    BY <1>2 DEF Init, SchedPc, ClientPc
  <2>2. /\ task \in [Thread -> Task \cup {NoTask}]
        /\ due_in \in [Task -> Int]
    BY DEF Init
  <2> QED BY <1>1, <2>1, <2>2 DEF Init, TypeOK
<1>5. LockInv /\ TaskInv
  BY <1>2, <1>3 DEF Init, LockInv, TaskInv
<1> QED BY <1>4, <1>5 DEF Inv

LEMMA InvNext == ASSUME SchedulerAssumption, Inv, [Next]_vars PROVE Inv'
<1> USE DEF Inv
<1> DEFINE OutOfSched == {"lock", "wait", "relock"}
<1>0. /\ SchedThread \in Thread
      /\ \A c \in Client : c \in Thread /\ c # SchedThread /\ c # Nobody
      /\ Nobody # SchedThread
  BY DEF SchedulerAssumption, Thread
<1>s. /\ Signal \in [Thread -> SchedPc \cup ClientPc]
      /\ Signal[SchedThread] \in SchedPc
      /\ \A c \in Client : Signal[c] = pc[c]
      /\ \A p \in {"process", "in_task", "exited"} :
           Signal[SchedThread] = p <=> pc[SchedThread] = p
  BY SignalType
<1>p. \A t \in Task : Period[t] \in Int
  BY DEF SchedulerAssumption
<1>1. ASSUME NEW c \in Client, NEW t \in Task, Schedule(c, t) PROVE Inv'
  <2>1. ladd(l, IdOf[t], t) \in ListOf(Nat, Task)
    BY ListInNat, LaddType DEF TypeOK
  <2>2. TypeOK'
    BY <1>1, <1>s, <1>p, <2>1 DEF Schedule, TypeOK
  <2>3. LockInv' /\ TaskInv'
    BY <1>0, <1>1, <1>s DEF Schedule, LockInv, TaskInv
  <2> QED BY <2>2, <2>3
<1>2. ASSUME NEW c \in Client, NEW t \in Task, Cancel(c, t) PROVE Inv'
  <2>1. lremove(l, IdOf[t]) \in ListOf(Nat, Task)
    BY LremoveType DEF TypeOK
  <2>2. TypeOK'
    BY <1>2, <1>s, <2>1 DEF Cancel, TypeOK
  <2>3. LockInv' /\ TaskInv'
    BY <1>0, <1>2, <1>s DEF Cancel, LockInv, TaskInv
  <2> QED BY <2>2, <2>3
<1>3. ASSUME NEW c \in Client, BlockOnListGuard(c) PROVE Inv'
  <2>1. TypeOK'
    BY <1>0, <1>3 DEF BlockOnListGuard, TypeOK, ClientPc
  <2>2. LockInv' /\ TaskInv'
    BY <1>0, <1>3 DEF BlockOnListGuard, LockInv, TaskInv, TypeOK
  <2> QED BY <2>1, <2>2
<1>4. ASSUME NEW c \in Client, NEW t \in Task, FindTask(c, t) PROVE Inv'
  <2>1. TypeOK'
    BY <1>0, <1>4 DEF FindTask, TypeOK, ClientPc
  <2>2. LockInv' /\ TaskInv'
    BY <1>0, <1>4 DEF FindTask, LockInv, TaskInv, TypeOK
  <2> QED BY <2>1, <2>2
<1>5. ASSUME NEW c \in Client, Execute(c) PROVE Inv'
  <2>1. TypeOK'
    BY <1>0, <1>5 DEF Execute, TypeOK, ClientPc
  <2>2. LockInv' /\ TaskInv'
    BY <1>0, <1>5 DEF Execute, LockInv, TaskInv, TypeOK
  <2> QED BY <2>1, <2>2
<1>6. ASSUME NEW c \in Client, ExecuteReturn(c) PROVE Inv'
  <2>1. task[c] \in Task /\ lock = c
    BY <1>6 DEF ExecuteReturn, TaskInv, LockInv
  <2>2. TypeOK'
    BY <1>0, <1>6, <1>s, <1>p, <2>1 DEF ExecuteReturn, TypeOK, ClientPc
  <2>3. LockInv'
    BY <1>0, <1>6, <1>s, <2>1 DEF ExecuteReturn, LockInv, TypeOK
  <2>4. TaskInv'
    BY <1>0, <1>6, <1>s, <2>1 DEF ExecuteReturn, LockInv, TaskInv, TypeOK
  <2> QED BY <2>2, <2>3, <2>4
<1>7. ASSUME NEW c \in Client, StopScheduler(c) PROVE Inv'
  <2>1. TypeOK'
    BY <1>7, <1>s DEF StopScheduler, TypeOK
  <2>2. LockInv' /\ TaskInv'
    BY <1>0, <1>7, <1>s DEF StopScheduler, LockInv, TaskInv
  <2> QED BY <2>1, <2>2
<1>8. ASSUME Await PROVE Inv'
  <2>1. deadline' \in Nat \cup {Never}
    <3>1. CASE deadline' = Never
      BY <3>1
    <3>2. ASSUME NEW t \in Values(l),
                 deadline' = IF due_in[t] + 1 > 0 THEN due_in[t] + 1 ELSE 0
          PROVE  deadline' \in Nat
      <4>1. due_in[t] \in Int
        BY EmptyList DEF TypeOK
      <4> QED BY <3>2, <4>1
    <3> QED BY <1>8, <3>1, <3>2 DEF Await
  <2>2. TypeOK'
    BY <1>0, <1>8, <2>1 DEF Await, TypeOK, SchedPc
  <2>3. LockInv' /\ TaskInv'
    BY <1>0, <1>8 DEF Await, LockInv, TaskInv, TypeOK
  <2> QED BY <2>2, <2>3
<1>9. ASSUME WaitTimesOut \/ SpuriousWakeup PROVE Inv'
  <2>1. TypeOK'
    BY <1>0, <1>9 DEF WaitTimesOut, SpuriousWakeup, TypeOK, SchedPc
  <2>2. LockInv' /\ TaskInv'
    BY <1>0, <1>9 DEF WaitTimesOut, SpuriousWakeup, LockInv, TaskInv, TypeOK
  <2> QED BY <2>1, <2>2
<1>10. ASSUME Wake PROVE Inv'
  <2>1. due' \subseteq Task
    BY <1>10, EmptyList DEF Wake, TypeOK
  <2>2. TypeOK'
    BY <1>0, <1>10, <2>1 DEF Wake, TypeOK, SchedPc
  <2>3. LockInv' /\ TaskInv'
    BY <1>0, <1>10 DEF Wake, LockInv, TaskInv, TypeOK
  <2> QED BY <2>2, <2>3
<1>11. ASSUME RunTask PROVE Inv'
  <2>1. PICK t \in Task : /\ task' = [task EXCEPT ![SchedThread] = t]
                         /\ due' = due \ {t}
    BY <1>11 DEF RunTask, TypeOK
  <2>2. TypeOK'
    BY <1>0, <1>11, <2>1 DEF RunTask, TypeOK, SchedPc
  <2>3. LockInv' /\ TaskInv'
    BY <1>0, <1>11, <2>1 DEF RunTask, LockInv, TaskInv, TypeOK
  <2> QED BY <2>2, <2>3
<1>12. ASSUME TaskReturns PROVE Inv'
  <2>1. task[SchedThread] \in Task
    BY <1>12 DEF TaskReturns, TaskInv
  <2>2. TypeOK'
    BY <1>0, <1>12, <1>p, <2>1 DEF TaskReturns, TypeOK, SchedPc
  <2>3. LockInv' /\ TaskInv'
    BY <1>0, <1>12, <2>1 DEF TaskReturns, LockInv, TaskInv, TypeOK
  <2> QED BY <2>2, <2>3
<1>13. ASSUME EndOfPass PROVE Inv'
  <2>1. TypeOK'
    BY <1>0, <1>13 DEF EndOfPass, TypeOK, SchedPc
  <2>2. LockInv' /\ TaskInv'
    BY <1>0, <1>13 DEF EndOfPass, LockInv, TaskInv, TypeOK
  <2> QED BY <2>1, <2>2
<1>14. ASSUME Tick PROVE Inv'
  <2>1. deadline' \in Nat \cup {Never} /\ due_in' \in [Task -> Int]
    BY <1>14 DEF Tick, TypeOK
  <2>2. TypeOK'
    BY <1>14, <2>1 DEF Tick, TypeOK
  <2>3. LockInv' /\ TaskInv'
    BY <1>14 DEF Tick, LockInv, TaskInv
  <2> QED BY <2>2, <2>3
<1>15. CASE UNCHANGED vars
  BY <1>15 DEF vars, TypeOK, LockInv, TaskInv
<1> QED
  BY <1>1, <1>2, <1>3, <1>4, <1>5, <1>6, <1>7, <1>8, <1>9, <1>10, <1>11, <1>12,
     <1>13, <1>14, <1>15 DEF Next, SchedulerThread, ClientThread

-----------------------------------------------------------------------------
(* Type correctness. *)
THEOREM TypeCorrect == ASSUME SchedulerAssumption PROVE Spec => []TypeOK
<1>1. Init => Inv
  BY InvInit
<1>2. Inv /\ [Next]_vars => Inv'
  BY InvNext
<1>3. Inv => TypeOK
  BY DEF Inv
<1> QED BY <1>1, <1>2, <1>3, PTL DEF Spec

(* Task functions never overlap, whatever their ids are: a thread inside    *)
(* one holds the mutex of the scheduler.                                   *)
THEOREM NoOverlap == ASSUME SchedulerAssumption PROVE Spec => []FunctionsExclusive
<1>1. Init => Inv
  BY InvInit
<1>2. Inv /\ [Next]_vars => Inv'
  BY InvNext
<1>3. Inv => FunctionsExclusive
  BY DEF Inv, LockInv, FunctionsExclusive, Thread
<1> QED BY <1>1, <1>2, <1>3, PTL DEF Spec

-----------------------------------------------------------------------------
(* Every step that changes the list or brings a waking time nearer signals, *)
(* so the thread no longer waits; the clock moves both ends alike.         *)
LEMMA OversleepNext ==
  ASSUME SchedulerAssumption, Inv, NeverOversleeps, [Next]_vars PROVE NeverOversleeps'
<1>0. /\ SchedThread \in Thread
      /\ \A c \in Client : c \in Thread /\ c # SchedThread
      /\ TypeOK
  BY DEF SchedulerAssumption, Thread, Inv
<1>v. Values(l) \subseteq Task
  BY <1>0, EmptyList DEF TypeOK
<1>s. Signal[SchedThread] # "wait"
  BY <1>0 DEF Signal, TypeOK
<1>1. ASSUME NEW c \in Client, ExecuteReturn(c) \/ StopScheduler(c)
                                \/ \E t \in Task : Schedule(c, t) \/ Cancel(c, t)
      PROVE  pc'[SchedThread] # "wait"
  BY <1>0, <1>1, <1>s, SignalType DEF Schedule, Cancel, ExecuteReturn, StopScheduler
<1>2. ASSUME NEW c \in Client, Execute(c) \/ BlockOnListGuard(c)
                                \/ \E t \in Task : FindTask(c, t)
      PROVE  NeverOversleeps'
  BY <1>0, <1>2 DEF FindTask, Execute, BlockOnListGuard, NeverOversleeps, TypeOK, Values
<1>3. ASSUME Await PROVE NeverOversleeps'
  <2>1. CASE lsize(l) = 0
    <3>1. Values(l) = {}
      BY <2>1, <1>0 DEF lsize, Values, TypeOK, ListOf
    <3> QED BY <3>1, <1>3 DEF Await, NeverOversleeps, Values
  <2>2. ASSUME NEW t \in Values(l), Earliest(t),
               deadline' = IF due_in[t] + 1 > 0 THEN due_in[t] + 1 ELSE 0
        PROVE  NeverOversleeps'
    <3>1. ASSUME NEW u \in Values(l)
          PROVE  deadline' # Never /\ (deadline' <= due_in[u] + 1 \/ deadline' = 0)
      <4>1. due_in[t] \in Int /\ due_in[u] \in Int /\ due_in[t] <= due_in[u]
        BY <1>0, <1>v, <2>2 DEF TypeOK, Earliest
      <4>2. Never \notin Int
        BY DEF SchedulerAssumption
      <4> QED BY <2>2, <4>1, <4>2
    <3>2. due_in' = due_in /\ Values(l)' = Values(l)
      BY <1>3 DEF Await, Values
    <3> QED BY <3>1, <3>2 DEF NeverOversleeps
  <2> QED BY <1>3, <2>1, <2>2 DEF Await
<1>4. ASSUME WaitTimesOut \/ SpuriousWakeup \/ Wake \/ RunTask \/ TaskReturns \/ EndOfPass
      PROVE  pc'[SchedThread] # "wait"
  BY <1>0, <1>4 DEF WaitTimesOut, SpuriousWakeup, Wake, RunTask, TaskReturns, EndOfPass, TypeOK
<1>5. ASSUME Tick PROVE NeverOversleeps'
  <2> SUFFICES ASSUME pc[SchedThread] = "wait", NEW t \in Values(l)
               PROVE  deadline' # Never /\ (deadline' <= due_in'[t] + 1 \/ deadline' = 0)
    BY <1>5 DEF Tick, NeverOversleeps, Values
  <2>1. /\ t \in Task /\ due_in[t] \in Int
        /\ deadline \in Nat
        /\ deadline <= due_in[t] + 1 \/ deadline = 0
        /\ Never \notin Int
    BY <1>0, <1>v DEF NeverOversleeps, TypeOK, SchedulerAssumption
  <2>2. due_in'[t] = IF due_in[t] > -Overdue THEN due_in[t] - 1 ELSE due_in[t]
    BY <1>5, <2>1 DEF Tick
  <2>3. deadline' = IF deadline = 0 THEN 0 ELSE deadline - 1
    BY <1>5, <2>1 DEF Tick
  <2> QED BY <2>1, <2>2, <2>3 DEF Overdue
<1>6. CASE UNCHANGED vars
  BY <1>6 DEF vars, NeverOversleeps, Values
<1> QED
  BY <1>1, <1>2, <1>3, <1>4, <1>5, <1>6 DEF Next, SchedulerThread, ClientThread, NeverOversleeps

(* The scheduler's thread is never asleep on a deadline that is too late   *)
(* for a scheduled task, whatever the ids and periods of the tasks are.    *)
THEOREM WaitsForTheEarliest == ASSUME SchedulerAssumption PROVE Spec => []NeverOversleeps
<1>1. Init => Inv /\ NeverOversleeps
  <2>1. ASSUME Init PROVE NeverOversleeps
    BY <2>1 DEF Init, NeverOversleeps, NewList, Values
  <2> QED BY <2>1, InvInit
<1>2. Inv /\ NeverOversleeps /\ [Next]_vars => Inv' /\ NeverOversleeps'
  BY InvNext, OversleepNext
<1> QED BY <1>1, <1>2, PTL DEF Spec

-----------------------------------------------------------------------------
(* The tasks of a list a task was added to, or removed from by its id. *)
LEMMA KeyedAdd ==
  ASSUME SchedulerAssumption, UniqueIds, TypeOK, Keyed, NEW t \in Task, t \notin Values(l),
         l' = ladd(l, IdOf[t], t)
  PROVE  Keyed' /\ Values(l)' = Values(l) \cup {t}
<1>1. IdOf[t] \in Nat /\ l \in ListOf(Nat, Task)
  BY ListInNat DEF TypeOK
<1>2. Values(l)' = Values(l) \cup {t}
  BY <1>1, LaddValues
<1>3. IdOf[t] \notin Keys(l)
  <2> SUFFICES ASSUME NEW i \in DOMAIN l.elems, l.elems[i].key = IdOf[t] PROVE FALSE
    BY DEF Keys
  <2>1. l.elems[i].value \in Values(l)
    BY DEF Values
  <2>2. l.elems[i].value \in Task
    BY <2>1, <1>1, EmptyList
  <2> QED BY <2>1, <2>2 DEF Keyed, UniqueIds
<1>4. DistinctKeys(l')
  BY <1>1, <1>3, LaddDistinct DEF Keyed
<1>5. ASSUME NEW i \in DOMAIN l'.elems PROVE l'.elems[i].key = IdOf[l'.elems[i].value]
  <2>1. /\ DOMAIN l'.elems = 1 .. Len(l.elems) + 1
        /\ l'.elems[1] = [key |-> IdOf[t], value |-> t]
        /\ \A j \in 1 .. Len(l.elems) : l'.elems[j + 1] = l.elems[j]
    BY <1>1, LaddElems
  <2>2. Len(l.elems) \in Nat /\ DOMAIN l.elems = 1 .. Len(l.elems)
    BY <1>1 DEF ListOf
  <2>3. CASE i = 1
    BY <2>1, <2>3
  <2>4. CASE i # 1
    <3>1. i - 1 \in 1 .. Len(l.elems) /\ (i - 1) + 1 = i
      BY <2>1, <2>2, <2>4
    <3>2. l'.elems[i] = l.elems[i - 1]
      BY <2>1, <3>1
    <3> QED BY <2>2, <3>1, <3>2 DEF Keyed
  <2> QED BY <2>3, <2>4
<1> QED BY <1>2, <1>4, <1>5 DEF Keyed

LEMMA KeyedRemove ==
  ASSUME SchedulerAssumption, UniqueIds, TypeOK, Keyed, NEW t \in Task,
         l' = lremove(l, IdOf[t])
  PROVE  Keyed' /\ Values(l)' = Values(l) \ {t}
<1>1. IdOf[t] \in Nat /\ l \in ListOf(Nat, Task) /\ l' \in ListOf(Nat, Task)
  BY ListInNat, LremoveType DEF TypeOK
<1>2. /\ DistinctKeys(l')
      /\ \A i \in DOMAIN l'.elems :
           /\ l'.elems[i].key # IdOf[t]
           /\ \E j \in DOMAIN l.elems : l'.elems[i] = l.elems[j]
      /\ \A j \in DOMAIN l.elems : l.elems[j].key # IdOf[t] =>
           \E i \in DOMAIN l'.elems : l'.elems[i] = l.elems[j]
  BY <1>1, LremoveValues DEF Keyed
<1>3. \A i \in DOMAIN l'.elems : l'.elems[i].key = IdOf[l'.elems[i].value]
  BY <1>2 DEF Keyed
<1>4. Values(l)' \subseteq Values(l) \ {t}
  BY <1>2, <1>3 DEF Values
<1>5. Values(l) \ {t} \subseteq Values(l)'
  <2> SUFFICES ASSUME NEW j \in DOMAIN l.elems, l.elems[j].value # t
               PROVE  l.elems[j].value \in Values(l)'
    BY DEF Values
  <2>1. l.elems[j].value \in Task
    BY <1>1, EmptyList DEF Values
  <2>2. l.elems[j].key # IdOf[t]
    BY <2>1 DEF Keyed, UniqueIds
  <2> QED BY <1>2, <2>2 DEF Values
<1> QED BY <1>2, <1>3, <1>4, <1>5 DEF Keyed

(* Whoever adds or removes a task holds the mutex: no pass is under way. *)
LEMMA NoPass ==
  ASSUME SchedulerAssumption, Inv, lock = Nobody
  PROVE  due = {} /\ pc[SchedThread] \notin {"process", "in_task", "exited"}
BY DEF SchedulerAssumption, Inv, LockInv, TaskInv, Thread

LEMMA KeyedInvInit == ASSUME SchedulerAssumption, Init PROVE KeyedInv
<1>1. Values(l) = {} /\ l.elems = <<>>
  BY DEF Init, NewList, Values
<1>2. Keyed
  BY <1>1 DEF Keyed, DistinctKeys
<1>3. SchedThread \in Thread
  BY DEF Thread
<1>4. CancelIsFinal
  BY <1>1, <1>3 DEF Init, CancelIsFinal
<1> QED BY <1>2, <1>4, InvInit DEF KeyedInv

LEMMA KeyedInvNext ==
  ASSUME SchedulerAssumption, UniqueIds, KeyedInv, [Next]_vars PROVE KeyedInv'
<1>0. /\ Inv /\ TypeOK /\ Keyed /\ CancelIsFinal
      /\ SchedThread \in Thread
      /\ \A c \in Client : c \in Thread /\ c # SchedThread
  BY DEF KeyedInv, Inv, SchedulerAssumption, Thread
<1>i. Inv'
  BY <1>0, InvNext
<1>s. /\ Signal \in [Thread -> SchedPc \cup ClientPc]
      /\ \A c \in Client : Signal[c] = pc[c]
      /\ \A p \in {"process", "in_task", "exited"} :
           Signal[SchedThread] = p <=> pc[SchedThread] = p
  BY <1>0, SignalType
<1>1. ASSUME NEW c \in Client, NEW t \in Task, Schedule(c, t) PROVE Keyed' /\ CancelIsFinal'
  <2>1. t \notin Values(l) /\ l' = ladd(l, IdOf[t], t)
    BY <1>0, <1>1 DEF Schedule, CancelIsFinal
  <2>2. Keyed' /\ Values(l)' = Values(l) \cup {t}
    BY <1>0, <2>1, KeyedAdd
  <2>3. CancelIsFinal'
    BY <1>0, <1>1, <1>s, <2>2 DEF Schedule, CancelIsFinal
  <2> QED BY <2>2, <2>3
<1>2. ASSUME NEW c \in Client, NEW t \in Task, Cancel(c, t) PROVE Keyed' /\ CancelIsFinal'
  <2>1. l' = lremove(l, IdOf[t])
    BY <1>2 DEF Cancel
  <2>2. Keyed' /\ Values(l)' = Values(l) \ {t}
    BY <1>0, <2>1, KeyedRemove
  <2>3. due = {} /\ pc[SchedThread] # "in_task"
    BY <1>0, <1>2, NoPass DEF Cancel
  <2>4. CancelIsFinal'
    BY <1>0, <1>2, <1>s, <2>2, <2>3 DEF Cancel, CancelIsFinal
  <2> QED BY <2>2, <2>4
<1>3. ASSUME RunTask PROVE Keyed' /\ CancelIsFinal'
  <2>1. PICK t \in due : /\ task' = [task EXCEPT ![SchedThread] = t]
                         /\ due' = due \ {t}
    BY <1>3 DEF RunTask
  <2>2. Keyed'
    BY <1>0, <1>3 DEF RunTask, Keyed
  <2>3. CancelIsFinal'
    BY <1>0, <1>3, <2>1 DEF RunTask, CancelIsFinal, TypeOK, Values
  <2> QED BY <2>2, <2>3
<1>4. ASSUME Wake PROVE Keyed' /\ CancelIsFinal'
  BY <1>0, <1>4 DEF Wake, Keyed, CancelIsFinal, TypeOK, Values
<1>u. ASSUME l' = l PROVE Keyed' /\ Values(l)' = Values(l)
  BY <1>0, <1>u DEF Keyed, DistinctKeys, Values
<1>5. ASSUME TaskReturns \/ EndOfPass \/ Await \/ WaitTimesOut \/ SpuriousWakeup \/ Tick
      PROVE  Keyed' /\ CancelIsFinal'
  <2>1. /\ l' = l /\ armed' = armed /\ due' = due
        /\ pc'[SchedThread] # "in_task" \/ (pc' = pc /\ task' = task)
    BY <1>0, <1>5 DEF TaskReturns, EndOfPass, Await, WaitTimesOut, SpuriousWakeup, Tick, TypeOK
  <2>2. Keyed' /\ Values(l)' = Values(l)
    BY <1>u, <2>1
  <2> QED BY <1>0, <2>1, <2>2 DEF CancelIsFinal
<1>6. ASSUME NEW c \in Client, ExecuteReturn(c) \/ StopScheduler(c) PROVE Keyed' /\ CancelIsFinal'
  <2>1. /\ l' = l /\ armed' = armed /\ due' = due
        /\ task'[SchedThread] = task[SchedThread]
    BY <1>0, <1>6 DEF ExecuteReturn, StopScheduler, TypeOK
  <2>2. pc'[SchedThread] = "in_task" => pc[SchedThread] = "in_task"
    BY <1>0, <1>6, <1>s DEF ExecuteReturn, StopScheduler
  <2>3. Keyed' /\ Values(l)' = Values(l)
    BY <1>u, <2>1
  <2> QED BY <1>0, <2>1, <2>2, <2>3 DEF CancelIsFinal
<1>7. ASSUME NEW c \in Client,
             BlockOnListGuard(c) \/ Execute(c) \/ (\E t \in Task : FindTask(c, t))
      PROVE  Keyed' /\ CancelIsFinal'
  <2>1. /\ l' = l /\ armed' = armed /\ due' = due
        /\ pc'[SchedThread] = pc[SchedThread] /\ task'[SchedThread] = task[SchedThread]
    BY <1>0, <1>7 DEF BlockOnListGuard, Execute, FindTask, TypeOK
  <2>2. Keyed' /\ Values(l)' = Values(l)
    BY <1>u, <2>1
  <2> QED BY <1>0, <2>1, <2>2 DEF CancelIsFinal
<1>8. ASSUME UNCHANGED vars PROVE Keyed' /\ CancelIsFinal'
  BY <1>0, <1>8, <1>u DEF vars, CancelIsFinal
<1>9. Keyed' /\ CancelIsFinal'
  BY <1>1, <1>2, <1>3, <1>4, <1>5, <1>6, <1>7, <1>8
     DEF Next, SchedulerThread, ClientThread
<1> QED BY <1>i, <1>9 DEF KeyedInv

(* A cancelled task is neither scheduled nor started any more, and the      *)
(* other ones stay scheduled, when no two tasks have one id.               *)
THEOREM CancelHolds ==
  ASSUME SchedulerAssumption, UniqueIds PROVE Spec => []CancelIsFinal
<1>1. Init => KeyedInv
  BY KeyedInvInit
<1>2. KeyedInv /\ [Next]_vars => KeyedInv'
  BY KeyedInvNext
<1>3. KeyedInv => CancelIsFinal
  BY DEF KeyedInv
<1> QED BY <1>1, <1>2, <1>3, PTL DEF Spec

-----------------------------------------------------------------------------
(* The task function the service runs, where the mutex is. *)
LEMMA RunningFree == ASSUME SchedulerAssumption, lock = Nobody PROVE running = NoTask
BY DEF running, SchedulerAssumption, Thread

LEMMA RunningTask ==
  ASSUME SchedulerAssumption, Inv, NEW th \in Thread, pc[th] = "in_task"
  PROVE  lock = th /\ running = task[th] /\ task[th] \in Task
BY DEF running, SchedulerAssumption, Thread, Inv, LockInv, TaskInv

LEMMA RunningPass ==
  ASSUME SchedulerAssumption, Inv, lock = SchedThread, pc[SchedThread] # "in_task"
  PROVE  running = NoTask
BY DEF running, SchedulerAssumption, Thread

(* A step that leaves the mutex where it is, and the pc and the task of its *)
(* holder alone, does not change what is running.                          *)
LEMMA RunningSame ==
  ASSUME SchedulerAssumption, lock' = lock,
         \A th \in Thread : lock = th => pc'[th] = pc[th] /\ task'[th] = task[th]
  PROVE  running' = running
BY DEF running, SchedulerAssumption, Thread

LEMMA TimerInitial == ASSUME SchedulerAssumption, Init PROVE Timer!TimerInit
<1>1. running = NoTask
  BY RunningFree DEF Init
<1> QED BY <1>1 DEF Init, Timer!TimerInit, Timer!NewList, NewList

(* TimerService's list operations are those of Lists. *)
LEMMA TimerLists ==
  ASSUME NEW key, NEW t
  PROVE  /\ Timer!ladd(l, key, t) = ladd(l, key, t)
         /\ Timer!lremove(l, key) = lremove(l, key)
         /\ Timer!Usable(l) <=> Usable(l)
         /\ Timer!Values(l) = Values(l)
<1>1. Timer!ladd(l, key, t) = ladd(l, key, t)
  BY DEF Timer!ladd, ladd, Timer!Cons, Cons
<1>2. \A s : Timer!GreatestKey(s) = GreatestKey(s)
  BY DEF Timer!GreatestKey, GreatestKey
<1>3. Timer!RemoveFirstMatch(l.elems, LAMBDA e : e.key = key)
        = RemoveFirstMatch(l.elems, LAMBDA e : e.key = key)
  BY DEF Timer!RemoveFirstMatch, RemoveFirstMatch, Timer!RemoveAt, RemoveAt,
         Timer!SelectInSeq, SelectInSeq, Timer!Min, Min
<1>4. Timer!lremove(l, key) = lremove(l, key)
  BY <1>2, <1>3 DEF Timer!lremove, lremove
<1> QED BY <1>1, <1>4 DEF Timer!Usable, Usable, Timer!Values, Values

LEMMA TimerStep ==
  ASSUME SchedulerAssumption, Inv, Inv', [Next]_vars
  PROVE  [Timer!TimerNext]_(Timer!timerVars)
<1> DEFINE Same == UNCHANGED <<l, running>>
<1>0. /\ TypeOK
      /\ SchedThread \in Thread
      /\ \A c \in Client : c \in Thread /\ c # SchedThread /\ c # Nobody
      /\ Nobody # SchedThread
  BY DEF Inv, SchedulerAssumption, Thread
<1>s. /\ Signal \in [Thread -> SchedPc \cup ClientPc]
      /\ \A c \in Client : Signal[c] = pc[c]
      /\ \A p \in {"process", "in_task", "exited"} :
           Signal[SchedThread] = p <=> pc[SchedThread] = p
  BY <1>0, SignalType
<1>f. lock = Nobody => running = NoTask
  BY RunningFree
<1>g. lock' = Nobody => running' = NoTask
  BY DEF running, SchedulerAssumption, Thread
<1>1. ASSUME NEW c \in Client, NEW t \in Task, Schedule(c, t) PROVE Timer!Arm(t)
  <2>1. running = NoTask /\ running' = NoTask
    BY <1>1, <1>f, <1>g DEF Schedule
  <2> QED BY <1>1, <2>1, TimerLists DEF Schedule, Timer!Arm
<1>2. ASSUME NEW c \in Client, NEW t \in Task, Cancel(c, t) PROVE Timer!Disarm(t)
  <2>1. running = NoTask /\ running' = NoTask
    BY <1>2, <1>f, <1>g DEF Cancel
  <2> QED BY <1>2, <2>1, TimerLists DEF Cancel, Timer!Disarm
<1>3. ASSUME NEW c \in Client, BlockOnListGuard(c) PROVE Timer!NeverReturn
  <2>1. lock' = c /\ pc'[c] = "stuck"
    BY <1>0, <1>3 DEF BlockOnListGuard, TypeOK
  <2>2. running' = Wedged
    BY <1>0, <2>1 DEF running
  <2> QED BY <1>3, <1>f, <2>2, TimerLists DEF BlockOnListGuard, Timer!NeverReturn
<1>4. ASSUME NEW c \in Client, Execute(c) PROVE \E t \in Task : Timer!RunNow(t)
  <2>1. task[c] \in Task
    BY <1>0, <1>4 DEF Execute, Inv, TaskInv
  <2>2. pc'[c] = "in_task" /\ lock' = c /\ task' = task
    BY <1>0, <1>4 DEF Execute, TypeOK
  <2>3. running' = task[c]
    BY <1>0, <2>2 DEF running
  <2>4. Timer!RunNow(task[c])
    BY <1>4, <1>f, <2>3 DEF Execute, Timer!RunNow
  <2> QED BY <2>1, <2>4
<1>5. ASSUME NEW c \in Client, ExecuteReturn(c) PROVE Timer!Return
  <2>1. running \in Task
    BY <1>0, <1>5, RunningTask DEF ExecuteReturn
  <2>2. running' = NoTask
    BY <1>5, <1>g DEF ExecuteReturn
  <2> QED BY <1>5, <2>1, <2>2 DEF ExecuteReturn, Timer!Return
<1>6. ASSUME RunTask PROVE \E t \in Task : Timer!Fire(t)
  <2>1. PICK t \in due : t \in Values(l) /\ task' = [task EXCEPT ![SchedThread] = t]
    BY <1>6 DEF RunTask, Values
  <2>2. t \in Task
    BY <1>0 DEF TypeOK
  <2>3. lock = SchedThread /\ lock' = SchedThread /\ pc'[SchedThread] = "in_task"
    BY <1>0, <1>6 DEF RunTask, Inv, LockInv, TypeOK
  <2>4. running = NoTask
    BY <1>0, <1>6, <2>3, RunningPass DEF RunTask
  <2>5. running' = t
    BY <1>0, <2>1, <2>3 DEF running, TypeOK
  <2>6. Timer!Fire(t)
    BY <1>6, <2>1, <2>4, <2>5, TimerLists DEF RunTask, Timer!Fire
  <2> QED BY <2>2, <2>6
<1>7. ASSUME TaskReturns PROVE Timer!Return
  <2>1. lock = SchedThread /\ running \in Task
    BY <1>0, <1>7, RunningTask DEF TaskReturns
  <2>2. lock' = SchedThread /\ pc'[SchedThread] = "process"
    BY <1>0, <1>7, <2>1 DEF TaskReturns, TypeOK
  <2>3. running' = NoTask
    BY <1>0, <2>2 DEF running, SchedulerAssumption
  <2> QED BY <1>7, <2>1, <2>3 DEF TaskReturns, Timer!Return
<1>8. ASSUME Wake \/ EndOfPass PROVE Same
  <2>1. running = NoTask
    <3>1. CASE Wake
      BY <1>f, <3>1 DEF Wake
    <3>2. CASE EndOfPass
      BY <1>0, <3>2, RunningPass DEF EndOfPass, Inv, LockInv
    <3> QED BY <1>8, <3>1, <3>2
  <2>2. running' = NoTask
    <3>1. CASE Wake
      <4>1. lock' = SchedThread /\ pc'[SchedThread] # "in_task"
        BY <1>0, <3>1 DEF Wake, TypeOK
      <4> QED BY <1>0, <4>1 DEF running, SchedulerAssumption
    <3>2. CASE EndOfPass
      BY <1>g, <3>2 DEF EndOfPass
    <3> QED BY <1>8, <3>1, <3>2
  <2> QED BY <1>8, <2>1, <2>2 DEF Wake, EndOfPass
<1>9. ASSUME Await \/ WaitTimesOut \/ SpuriousWakeup \/ Tick PROVE Same
  <2>1. \A th \in Thread : lock = th => pc'[th] = pc[th] /\ task'[th] = task[th]
    BY <1>0, <1>9 DEF Await, WaitTimesOut, SpuriousWakeup, Tick, TypeOK, Inv, LockInv, Thread
  <2>2. running' = running
    BY <1>9, <2>1, RunningSame DEF Await, WaitTimesOut, SpuriousWakeup, Tick
  <2> QED BY <1>9, <2>2 DEF Await, WaitTimesOut, SpuriousWakeup, Tick
<1>10. ASSUME NEW c \in Client, StopScheduler(c) PROVE Same
  BY <1>10, <1>f, <1>g DEF StopScheduler
<1>11. ASSUME NEW c \in Client, NEW t \in Task, FindTask(c, t) PROVE Same
  <2>1. \A th \in Thread : lock = th => pc'[th] = pc[th] /\ task'[th] = task[th]
    BY <1>0, <1>11 DEF FindTask, TypeOK, Inv, LockInv, Thread
  <2>2. running' = running
    BY <1>11, <2>1, RunningSame DEF FindTask
  <2> QED BY <1>11, <2>2 DEF FindTask
<1>12. ASSUME UNCHANGED vars PROVE Same
  BY <1>12, RunningSame DEF vars
<1> QED
  BY <1>1, <1>2, <1>3, <1>4, <1>5, <1>6, <1>7, <1>8, <1>9, <1>10, <1>11, <1>12
     DEF Next, SchedulerThread, ClientThread, Timer!TimerNext, Timer!timerVars

(* The scheduler is what TimerService describes, for any number of callers  *)
(* and tasks, whatever ids the tasks have.                                 *)
THEOREM Implementation ==
  ASSUME SchedulerAssumption PROVE Spec => ImplementsTimerService
<1>1. Init => Inv /\ Timer!TimerInit
  BY InvInit, TimerInitial
<1>2. Inv /\ [Next]_vars => Inv'
  BY InvNext
<1>3. Inv /\ Inv' /\ [Next]_vars => [Timer!TimerNext]_(Timer!timerVars)
  BY TimerStep
<1> QED BY <1>1, <1>2, <1>3, PTL DEF Spec, ImplementsTimerService, Timer!TimerSpec
=============================================================================
