------------------------------- MODULE Observe -------------------------------
(***************************************************************************)
(* Observation of a resource, its instance and its object, on the three    *)
(* threads that meet there:                                                *)
(*   "mqtt"   OBSERVE, CANCEL OBSERVE, WRITE and DELETE of the servers,    *)
(*            one request at a time                                        *)
(*   "app"    set_value() and deregistrations of the application           *)
(*   "sched"  the scheduler's thread, through TimerService                 *)
(* A notify task is allocated and scheduled by OBSERVE, found in observers *)
(* and run through execute() by whoever sets the value, fired by the       *)
(* scheduler, and freed by CANCEL.  A value is allocated, linked to the    *)
(* resource and then filled; a WRITE frees the one before.                 *)
(*                                                                         *)
(* The update tasks of the servers are on the scheduler's list as well.    *)
(* Tasks made in one second have one id, and cancel(), in CANCEL or in a    *)
(* deregistration, takes off the one scheduled last.  What update_func()   *)
(* does, and when the scheduler's thread waits in it, is in Registration.  *)
(*                                                                         *)
(* A step is what a thread does between two reads or writes of something   *)
(* another thread changes.  Nothing but the scheduler's mutex and the      *)
(* guard of each list orders them: object_tree_lock is taken by WRITE and  *)
(* DELETE, on one thread, and by a deregistration.                         *)
(***************************************************************************)
EXTENDS Lists, FiniteSets

CONSTANTS
  Server,       \* short server ids
  Target,       \* what is observed, a subset of Levels
  MaxTasks,     \* bound: OBSERVEs and answers to a REGISTER in all
  MaxSets,      \* bound: values given to the resource
  NoTask, Wedged, Null,
  Unallocated, Uninit, Freed   \* what is in memory when no value is

Levels == {"resource", "instance", "object"}
Subscription == Target \X Server

(* What is observed, or "update", the server, the how-manieth task it is,  *)
(* and its id.                                                             *)
NotifyTask == Target \X Server \X (1..MaxTasks) \X (1..MaxTasks)
UpdateTask == {"update"} \X Server \X (1..MaxTasks) \X (1..MaxTasks)
Task == NotifyTask \cup UpdateTask
IdOf == [t \in Task |-> t[4]]

Thread == {"app", "mqtt", "sched"}
Pointer == 0..MaxSets

ASSUME ObserveAssumption ==
  /\ Server \subseteq Nat
  /\ Target \subseteq Levels /\ "object" \in Target
  /\ MaxTasks \in Nat \ {0}
  /\ MaxSets \in Nat
  /\ NoTask \notin Task
  /\ Wedged \notin Task \cup {NoTask}
  /\ Null \notin Task \cup Pointer
  /\ {Unallocated, Uninit, Freed} \cap Nat = {}
  /\ Unallocated \notin {Uninit, Freed} /\ Uninit # Freed

VARIABLES
  pc,          \* where each thread is
  at,          \* the task app or mqtt has found, or mqtt is making
  held,        \* the old value app or mqtt has replaced
  todo,        \* the subscriptions app or mqtt has yet to look for
  observers,   \* object->, instance->, resource->observers
  made,        \* the tasks that were allocated
  freed,       \* the tasks that are freed
  ended,       \* the update tasks that deregistrations have called off
  deleted,     \* the instance and the resource are freed
  value,       \* resource->value
  memory,      \* what each value holds: the how-manieth value set, or none
  sets,        \* how many values were set
  reading,     \* the value the running task function follows
  armed, running,   \* the scheduler, see TimerService
  asked,       \* history: OBSERVEs less CANCELs
  last,        \* history: the value each server was sent last
  fault        \* how the process went wrong, and by which thread

localVars == <<at, held, todo>>
taskVars == <<observers, made, freed, ended, asked>>
valueVars == <<value, memory, sets>>
timerVars == <<armed, running>>
vars == <<pc, localVars, taskVars, valueVars, deleted, reading, timerVars, last, fault>>

Timer == INSTANCE TimerService WITH armed <- armed, running <- running

NoFault == [by |-> "nobody", what |-> "none"]

WriterPc == {"idle", "store", "fill", "choose", "free_old", "find", "found", "in_task"}
RequestPc == {"enter", "cancel", "unlist", "free"}

(* What the variables may be. *)
TypeOK ==
  /\ pc \in [Thread -> WriterPc \cup RequestPc]
  /\ at \in [Thread -> NotifyTask \cup {NoTask}]
  /\ held \in [Thread -> Pointer]
  /\ todo \in [Thread -> SUBSET Subscription]
  /\ observers \in [Target -> ListOf(Nat, NotifyTask)]
  /\ made \subseteq Task
  /\ freed \subseteq made \cap NotifyTask
  /\ ended \subseteq made \cap UpdateTask
  /\ deleted \in BOOLEAN
  /\ value \in Pointer
  /\ memory \in [Pointer -> {Unallocated, Uninit, Freed} \cup (0..MaxSets)]
  /\ sets \in 0..MaxSets
  /\ reading \in Pointer \cup {Null}
  /\ armed \in ListOf(Nat, Task)
  /\ running \in NotifyTask \cup {NoTask, Wedged}
  /\ asked \in [Subscription -> 0..MaxTasks]
  /\ last \in [Server -> 0..MaxSets]
  /\ fault \in [by : Thread, what : {"null", "task", "value", "uninit", "target"}]
               \cup {NoFault}

Init ==
  /\ pc = [th \in Thread |-> "idle"]
  /\ at = [th \in Thread |-> NoTask]
  /\ held = [th \in Thread |-> 0]
  /\ todo = [th \in Thread |-> {}]
  /\ observers = [x \in Target |-> NewList]
  /\ made = {}
  /\ freed = {}
  /\ ended = {}
  /\ deleted = FALSE
  /\ value = 0
  /\ memory = [p \in Pointer |-> IF p = 0 THEN 0 ELSE Unallocated]
  /\ sets = 0
  /\ reading = Null
  /\ Timer!TimerInit
  /\ asked = [x \in Subscription |-> 0]
  /\ last = [s \in Server |-> 0]
  /\ fault = NoFault

-----------------------------------------------------------------------------
Go(th, label) == pc' = [pc EXCEPT ![th] = label]

(* Whatever the process does after this is not the program's any more. *)
Fail(th, what) ==
  /\ fault' = [by |-> th, what |-> what]
  /\ UNCHANGED <<pc, localVars, taskVars, valueVars, deleted, reading, timerVars, last>>

Of(t) == <<t[1], t[2]>>

(* The resource and the instance are gone with DELETE, the object never.   *)
Gone(target) == deleted /\ target # "object"

(* A new task may have the id of any other one, which is the number of that *)
(* task, or one of its own: generate_task_id() seeds with time(0) and takes *)
(* the first number, the same all through a second.                        *)
TaskIds == 1 .. Cardinality(made) + 1

-----------------------------------------------------------------------------
(* on_server_register(): an update task is made, entered and scheduled.    *)
OnRegister(s) ==
  /\ pc["mqtt"] = "idle"
  /\ Cardinality(made) < MaxTasks
  /\ \E id \in TaskIds :
       LET t == <<"update", s, Cardinality(made) + 1, id>>
       IN  Timer!Arm(t) /\ made' = made \cup {t}
  /\ UNCHANGED <<pc, localVars, observers, freed, ended, asked, valueVars, deleted, reading,
                 last, fault>>

(* A request of a server that has begun to deregister is dropped. *)
Serves(s) == \A t \in ended : t[2] # s

Newest(t) == \A u \in made \cap UpdateTask : u[2] = t[2] => u[3] <= t[3]

(* deregister_on_server() waits for the requests of the server to end and  *)
(* for the object tree, and cancels the newest update task of the server.  *)
Deregister(s) ==
  /\ pc["app"] = "idle"
  /\ pc["mqtt"] \in {"idle"} \cup RequestPc
  /\ pc["mqtt"] \in RequestPc => at["mqtt"][2] # s
  /\ Serves(s)
  /\ \E t \in made \cap UpdateTask :
       t[2] = s /\ Newest(t) /\ Timer!Disarm(t) /\ ended' = ended \cup {t}
  /\ UNCHANGED <<pc, localVars, observers, made, freed, asked, valueVars, deleted, reading,
                 last, fault>>

-----------------------------------------------------------------------------
(* set_value() and merge_resource(): the old value is remembered ...       *)
Allocated == {p \in Pointer : memory[p] # Unallocated}

ReadOld(th) ==
  /\ pc[th] = "idle"
  /\ th = "mqtt" => \E s \in Server : Serves(s)
  /\ ~deleted
  /\ Cardinality(Allocated) + Cardinality({u \in Thread : pc[u] = "store"}) <= MaxSets
  /\ held' = [held EXCEPT ![th] = value]
  /\ Go(th, "store")
  /\ UNCHANGED <<at, todo, taskVars, valueVars, deleted, reading, timerVars, last, fault>>

(* ... a new one is linked to the resource, if that is still there ...     *)
Store(th) ==
  /\ pc[th] = "store"
  /\ IF deleted THEN Fail(th, "target")
     ELSE /\ value' = Cardinality(Allocated)
          /\ memory' = [memory EXCEPT ![value'] = Uninit]
          /\ Go(th, "fill")
          /\ UNCHANGED <<localVars, taskVars, sets, deleted, reading, timerVars, last, fault>>

(* ... what is linked now is filled ...                                    *)
Fill(th) ==
  /\ pc[th] = "fill"
  /\ IF deleted THEN Fail(th, "target")
     ELSE /\ sets' = sets + 1
          /\ memory' = [memory EXCEPT ![value] = sets + 1]
          /\ Go(th, "choose")
          /\ UNCHANGED <<localVars, taskVars, value, deleted, reading, timerVars, last, fault>>

(* ... and should_notify() compares with the old one: which servers are to *)
(* be notified depends on the attributes each has written.                 *)
Choose(th) ==
  /\ pc[th] = "choose"
  /\ IF deleted THEN Fail(th, "target")
     ELSE IF memory[held[th]] = Freed THEN Fail(th, "value")
     ELSE /\ \E ss \in SUBSET Server : todo' = [todo EXCEPT ![th] = Target \X ss]
          /\ Go(th, IF th = "mqtt" THEN "free_old" ELSE "find")
          /\ UNCHANGED <<at, held, taskVars, valueVars, deleted, reading, timerVars, last,
                         fault>>

(* Only a WRITE frees the old value. *)
FreeOld ==
  /\ pc["mqtt"] = "free_old"
  /\ memory' = [memory EXCEPT ![held["mqtt"]] = Freed]
  /\ Go("mqtt", "find")
  /\ UNCHANGED <<localVars, taskVars, value, sets, deleted, reading, timerVars, last, fault>>

(* The task a server observes a target with: the newest one.  There is no  *)
(* order among the targets here, the code has one.                         *)
Find(th, x) ==
  /\ pc[th] = "find"
  /\ x \in todo[th]
  /\ IF deleted THEN Fail(th, "target")
     ELSE /\ Usable(observers[x[1]])
          /\ at' = [at EXCEPT ![th] = lfind(observers[x[1]], x[2], NoTask)]
          /\ todo' = [todo EXCEPT ![th] = @ \ {x}]
          /\ Go(th, IF at'[th] = NoTask THEN "find" ELSE "found")
          /\ UNCHANGED <<held, taskVars, valueVars, deleted, reading, timerVars, last, fault>>

(* Mutant of Reached: the notification tells the value that was replaced.  *)
ReachedOld(th) == held[th]

(* A notify function reads resource->value. *)
Reached(th) == value

(* __fulfill_PMIN() looks at the task: it was run lately ...               *)
SkipRecent(th) ==
  /\ pc[th] = "found"
  /\ at[th] \notin freed
  /\ at' = [at EXCEPT ![th] = NoTask]
  /\ Go(th, "find")
  /\ UNCHANGED <<held, todo, taskVars, valueVars, deleted, reading, timerVars, last, fault>>

(* ... or execute() runs it, once it has the scheduler.                    *)
Execute(th) ==
  /\ pc[th] = "found"
  /\ IF at[th] \in freed THEN Fail(th, "task")
     ELSE IF deleted THEN Fail(th, "target")
     ELSE /\ Timer!RunNow(at[th])
          /\ reading' = Reached(th)
          /\ Go(th, "in_task")
          /\ UNCHANGED <<localVars, taskVars, valueVars, deleted, last, fault>>

EndOfSet(th) ==
  /\ pc[th] = "find"
  /\ todo[th] = {}
  /\ Go(th, "idle")
  /\ UNCHANGED <<localVars, taskVars, valueVars, deleted, reading, timerVars, last, fault>>

(* The notify function ends: it has serialised the value, it publishes and *)
(* notes the time in the task.                                             *)
TaskReturns(th) ==
  /\ pc[th] = "in_task"
  /\ IF running \in freed THEN Fail(th, "task")
     ELSE IF reading # Null /\ deleted THEN Fail(th, "target")
     ELSE IF reading # Null /\ memory[reading] = Freed THEN Fail(th, "value")
     ELSE IF reading # Null /\ memory[reading] = Uninit THEN Fail(th, "uninit")
     ELSE /\ Timer!Return
          /\ last' = IF reading = Null THEN last ELSE [last EXCEPT ![running[2]] = memory[reading]]
          /\ reading' = Null
          /\ at' = [at EXCEPT ![th] = NoTask]
          /\ Go(th, IF th = "sched" THEN "idle" ELSE "find")
          /\ UNCHANGED <<held, todo, taskVars, valueVars, deleted, fault>>

-----------------------------------------------------------------------------
(* Fired by the scheduler's thread, which follows the tasks on its list. *)
Fire(t) ==
  /\ pc["sched"] = "idle"
  /\ IF t \in freed THEN t \in Values(armed) /\ Fail("sched", "task")
     ELSE IF Gone(t[1]) THEN t \in Values(armed) /\ Fail("sched", "target")
     ELSE /\ Timer!Fire(t)
          /\ reading' = IF deleted THEN Null ELSE value
          /\ Go("sched", "in_task")
          /\ UNCHANGED <<localVars, taskVars, valueVars, deleted, last, fault>>

-----------------------------------------------------------------------------
(* handle_observe_request(), handle_cancel_observe_request(): what a       *)
(* request is about when the instance it names is not there.               *)
Resolved(x) == IF Gone(x[1]) THEN <<"object", x[2]>> ELSE x

(* Mutant of Observe: the task is entered in observers and not scheduled.  *)
ObserveUnscheduled(x) ==
  /\ pc["mqtt"] = "idle" /\ Serves(x[2])
  /\ Cardinality(made) < MaxTasks
  /\ LET y == Resolved(x)
     IN  /\ \E id \in TaskIds :
              LET t == <<y[1], y[2], Cardinality(made) + 1, id>>
              IN  at' = [at EXCEPT !["mqtt"] = t] /\ made' = made \cup {t}
         /\ asked' = [asked EXCEPT ![y] = @ + 1]
  /\ Go("mqtt", "enter")
  /\ UNCHANGED <<held, todo, observers, freed, ended, valueVars, deleted, reading, timerVars,
                 last, fault>>

(* on_..._observe(): a task is made and scheduled ...                      *)
Observe(x) ==
  /\ pc["mqtt"] = "idle" /\ Serves(x[2])
  /\ Cardinality(made) < MaxTasks
  /\ LET y == Resolved(x)
     IN  /\ \E id \in TaskIds :
              LET t == <<y[1], y[2], Cardinality(made) + 1, id>>
              IN  Timer!Arm(t) /\ at' = [at EXCEPT !["mqtt"] = t] /\ made' = made \cup {t}
         /\ asked' = [asked EXCEPT ![y] = @ + 1]
  /\ Go("mqtt", "enter")
  /\ UNCHANGED <<held, todo, observers, freed, ended, valueVars, deleted, reading, last, fault>>

(* ... and entered in observers.                                           *)
Enter ==
  /\ pc["mqtt"] = "enter"
  /\ LET t == at["mqtt"]
     IN  /\ Usable(observers[t[1]])
         /\ observers' = [observers EXCEPT ![t[1]] = ladd(@, t[2], t)]
  /\ at' = [at EXCEPT !["mqtt"] = NoTask]
  /\ Go("mqtt", "idle")
  /\ UNCHANGED <<held, todo, made, freed, ended, asked, valueVars, deleted, reading, timerVars,
                 last, fault>>

(* *get_..._pmax(): neither the server nor its account gives a pmax. *)
ObserveWithoutPmax ==
  /\ pc["mqtt"] = "idle"
  /\ \E s \in Server : Serves(s)
  /\ Fail("mqtt", "null")

(* on_..._cancel_observe(): the newest task is looked up, with no test ... *)
CancelObserve(x) ==
  LET y == Resolved(x)
      t == lfind(observers[y[1]], y[2], NoTask)
  IN  /\ pc["mqtt"] = "idle" /\ Serves(x[2])
      /\ Usable(observers[y[1]])
      /\ IF t = NoTask THEN Fail("mqtt", "null")
         ELSE /\ at' = [at EXCEPT !["mqtt"] = t]
              /\ Go("mqtt", "cancel")
              /\ UNCHANGED <<held, todo, taskVars, valueVars, deleted, reading, timerVars,
                             last, fault>>

(* Mutant of Cancel: cancel() does not wait for the function that runs.    *)
CancelAtOnce ==
  /\ pc["mqtt"] = "cancel"
  /\ armed' = lremove(armed, IdOf[at["mqtt"]])
  /\ Go("mqtt", "unlist")
  /\ UNCHANGED <<localVars, taskVars, valueVars, deleted, reading, running, last, fault>>

(* ... cancelled, or another one with its id ...                           *)
Cancel ==
  /\ pc["mqtt"] = "cancel"
  /\ Timer!Disarm(at["mqtt"])
  /\ Go("mqtt", "unlist")
  /\ UNCHANGED <<localVars, taskVars, valueVars, deleted, reading, last, fault>>

(* Mutant of Unlisted: list_free() takes the other tasks of the server too. *)
UnlistedAll(l, key) == [l EXCEPT !.elems = SelectSeq(@, LAMBDA e : e.key # key)]

Unlisted(l, key) == lremove(l, key)

(* ... taken out of observers, by the server's id ...                      *)
Unlist ==
  /\ pc["mqtt"] = "unlist"
  /\ LET t == at["mqtt"]
     IN  /\ Usable(observers[t[1]])
         /\ observers' = [observers EXCEPT ![t[1]] = Unlisted(@, t[2])]
  /\ Go("mqtt", "free")
  /\ UNCHANGED <<localVars, made, freed, ended, asked, valueVars, deleted, reading, timerVars, last,
                 fault>>

(* ... and freed.                                                          *)
FreeTask ==
  /\ pc["mqtt"] = "free"
  /\ freed' = freed \cup {at["mqtt"]}
  /\ asked' = [asked EXCEPT ![Of(at["mqtt"])] = @ - 1]
  /\ at' = [at EXCEPT !["mqtt"] = NoTask]
  /\ Go("mqtt", "idle")
  /\ UNCHANGED <<held, todo, observers, made, ended, valueVars, deleted, reading, timerVars,
                 last, fault>>

(* lwm2m_delete_instance(): the lists of observers are freed, their tasks  *)
(* are neither cancelled nor freed.                                        *)
Delete ==
  /\ pc["mqtt"] = "idle"
  /\ \E s \in Server : Serves(s)
  /\ ~deleted
  /\ deleted' = TRUE
  /\ observers' = [x \in Target |-> IF x = "object" THEN observers[x] ELSE NewList]
  /\ UNCHANGED <<pc, localVars, made, freed, ended, asked, valueVars, reading, timerVars, last,
                 fault>>

-----------------------------------------------------------------------------
Setter(th) ==
  \/ Store(th) \/ Fill(th) \/ Choose(th) \/ SkipRecent(th) \/ Execute(th)
  \/ TaskReturns(th) \/ EndOfSet(th)
  \/ \E x \in Subscription : Find(th, x)

App == Setter("app")

Mqtt == Setter("mqtt") \/ FreeOld \/ Enter \/ Cancel \/ Unlist \/ FreeTask

Requests ==
  \/ ReadOld("mqtt") \/ Delete \/ ObserveWithoutPmax
  \/ \E x \in Subscription : Observe(x) \/ CancelObserve(x)

Servers == \E s \in Server : OnRegister(s) \/ Deregister(s)

Sched == TaskReturns("sched") \/ \E t \in NotifyTask : Fire(t)

Next == fault = NoFault /\ (App \/ ReadOld("app") \/ Mqtt \/ Requests \/ Servers \/ Sched)

Spec == Init /\ [][Next]_vars

(* A task function returns, a value that is linked is filled, and for each *)
(* server one of its armed notify tasks fires again and again              *)
(* (ArmedTaskRuns of Scheduler).  No other step is taken for granted: the  *)
(* application and the MQTT thread may stop anywhere else.                 *)
FairSpec ==
  /\ Spec
  /\ WF_vars(fault = NoFault /\ \E th \in Thread : TaskReturns(th))
  /\ WF_vars(fault = NoFault /\ \E th \in Thread : Fill(th))
  /\ \A s \in Server : SF_vars(fault = NoFault /\ \E t \in NotifyTask : t[2] = s /\ Fire(t))

-----------------------------------------------------------------------------
(* The tasks that CANCEL or a deregistration has called off: cancel() has   *)
(* returned.                                                               *)
CalledOff == freed \cup ended \cup {t \in {at["mqtt"]} : pc["mqtt"] \in {"unlist", "free"}}

(* A task that is freed is followed in two cases only.  set_value() found  *)
(* it before CANCEL took it out; or the scheduler's thread runs it because *)
(* cancel() took off another task with the same id, which is still wanted. *)
(* It never runs one that was taken off, as cancel() waits for the function *)
(* that runs.  Only a thread other than the one that handles the WRITE     *)
(* reads a value it has freed, and what is freed with the instance is only *)
(* followed after a DELETE.                                                *)
TakenInItsPlace(t) ==
  \E u \in made \ CalledOff : IdOf[u] = IdOf[t] /\ u \notin Values(armed)

FaultsAsKnown ==
  /\ fault.what = "task" =>
       \/ fault.by = "app"
       \/ fault.by = "sched" /\ \E t \in freed \cap Values(armed) : TakenInItsPlace(t)
  /\ fault.what = "value" => fault.by # "mqtt"
  /\ fault.what = "target" => deleted

(* cancel() takes one task off the scheduler, with the id of the one it is  *)
(* about: never none, on an empty list or not, and never a second one.  So *)
(* for each id as many tasks are off as were called off, the same ones if  *)
(* no two tasks have that id.  The notify tasks that can be looked up are   *)
(* those not called off, outside OBSERVE and CANCEL.                       *)
WithId(ts, id) == {t \in ts : IdOf[t] = id}

ScheduledIsListed ==
  /\ \A id \in 1..MaxTasks :
       Cardinality(WithId(made \ Values(armed), id)) = Cardinality(WithId(CalledOff, id))
  /\ \A t \in made \cap NotifyTask :
       \/ Gone(t[1])
       \/ t \in Values(observers[t[1]]) <=> t \notin CalledOff
       \/ at["mqtt"] = t /\ pc["mqtt"] \in {"enter", "unlist"}

(* Servers get what they subscribed to, until a thread follows what is     *)
(* freed (FaultsAsKnown): no notification before OBSERVE or after the last *)
(* CANCEL, though the task it is about may still be armed, and no value    *)
(* after a newer one.                                                      *)
Reports == INSTANCE Subscriptions WITH outstanding <- asked, current <- sets

ImplementsSubscriptions == Reports!SubscriptionSpec

(* A server that observes hears of a value set, or of a newer one, even if *)
(* set_value() did not notify it, since the scheduler's thread does; that  *)
(* is as long as the instance is there, and no cancel() for a task with the *)
(* same id, of whichever server, may have taken its task off.              *)
Observes(s) ==
  /\ \E t \in (made \cap NotifyTask) \ CalledOff :
       t[2] = s /\ \A u \in CalledOff : IdOf[u] # IdOf[t]
  /\ ~deleted

ValueReported ==
  \A s \in Server, n \in 1..MaxSets :
    sets >= n /\ Observes(s) ~> (last[s] >= n \/ ~Observes(s) \/ fault # NoFault)
=============================================================================
