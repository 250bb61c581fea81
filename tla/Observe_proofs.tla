---------------------------- MODULE Observe_proofs ----------------------------
(***************************************************************************)
(* What holds of observation for any number of servers, OBSERVEs and       *)
(* values, and whichever tasks have equal ids: the types, which thread can *)
(* follow what is gone, how what is scheduled goes with what is listed,    *)
(* and that servers are notified as Subscriptions promises.                *)
(***************************************************************************)
EXTENDS Observe, Lists_proofs, FiniteSetTheorems

Writer == {"app", "mqtt"}

(* Where each thread can be.  One task function runs at a time, and the    *)
(* thread that called execute() answers for the task it found.             *)
ThreadInv ==
  /\ pc["sched"] \in {"idle", "in_task"}
  /\ pc["app"] \in WriterPc
  /\ \A th \in Thread : pc[th] = "in_task" =>
       /\ running \in NotifyTask
       /\ \A u \in Thread \ {th} : pc[u] # "in_task"
  /\ \A th \in Writer : pc[th] \in {"found", "in_task"} => at[th] \in NotifyTask
  /\ \A th \in Writer : pc[th] = "in_task" => running = at[th]
  /\ pc["mqtt"] \in RequestPc => at["mqtt"] \in NotifyTask

(* Tasks are numbered as they are made, and the bound is kept. *)
MadeInv ==
  /\ IsFiniteSet(made) /\ Cardinality(made) <= MaxTasks
  /\ \A t \in made : t[3] <= Cardinality(made)

(* The scheduler's list has tasks that were made, under their ids, none     *)
(* twice.                                                                  *)
ArmedInv ==
  /\ KeyedBy(armed, IdOf)
  /\ DistinctValues(armed)
  /\ Values(armed) \subseteq made

(* For each id as many tasks are off the scheduler as were called off: the *)
(* two parts of ScheduledIsListed.                                         *)
CountInv ==
  \A id \in 1..MaxTasks :
    Cardinality(WithId(made \ Values(armed), id)) = Cardinality(WithId(CalledOff, id))

ListedInv ==
  \A t \in made \cap NotifyTask :
    \/ Gone(t[1])
    \/ t \in Values(observers[t[1]]) <=> t \notin CalledOff
    \/ at["mqtt"] = t /\ pc["mqtt"] \in {"enter", "unlist"}

Listed(t) == t \in Values(observers[t[1]])

(* A list holds tasks of its target under the ids of their servers, none   *)
(* twice.                                                                  *)
WellListed(x) ==
  /\ DistinctValues(observers[x])
  /\ \A i \in DOMAIN observers[x].elems :
       /\ observers[x].elems[i].value[1] = x
       /\ observers[x].elems[i].value[2] = observers[x].elems[i].key

(* What OBSERVE and CANCEL are about while they are at it: what CANCEL has  *)
(* looked up is still what it takes out, and it takes out before it frees. *)
RequestInv ==
  LET t == at["mqtt"] IN
  /\ pc["mqtt"] \in RequestPc => t \in made /\ t \notin freed /\ ~Gone(t[1])
  /\ pc["mqtt"] \in {"enter", "free"} => ~Listed(t)
  /\ pc["mqtt"] \in {"cancel", "unlist"} =>
       t[2] \in Keys(observers[t[1]]) /\ t = lfind(observers[t[1]], t[2], NoTask)

(* The tasks that are followed: by the MQTT thread only one it has not     *)
(* freed, by the scheduler's thread only one that is on its list still, as *)
(* cancel() waits.                                                         *)
FollowInv ==
  /\ pc["mqtt"] \in {"found", "in_task"} => at["mqtt"] \notin freed
  /\ pc["sched"] = "in_task" => running \in Values(armed)
  /\ \A th \in Thread : pc[th] = "in_task" => running \in made
  /\ \A th \in Writer : pc[th] = "found" => at[th] \in made

ListInv == \A t \in NotifyTask : Listed(t) => t \in made /\ t \notin freed

TaskInv ==
  /\ MadeInv
  /\ ArmedInv
  /\ ListInv
  /\ \A x \in Target : WellListed(x)
  /\ CountInv
  /\ ListedInv
  /\ RequestInv
  /\ FollowInv

(* Each subscription has as many tasks that are not freed as OBSERVEs that *)
(* are not called off.                                                     *)
Live(x) == {t \in made \ freed : Of(t) = x}

AskedInv == \A x \in Subscription : asked[x] = Cardinality(Live(x))

At(label) == {th \in Writer : pc[th] = label}

(* The oldest value a task function can still read. *)
Oldest == IF reading = Null THEN value ELSE reading

(* Values are linked in the order of their pointers and filled in the order *)
(* in which they are set; what the MQTT thread compares or reports it has  *)
(* not freed, and nobody was sent a value newer than one to be read.       *)
ValueInv ==
  /\ \A p \in Pointer : memory[p] = Unallocated <=> p > value
  /\ value + Cardinality(At("store")) <= MaxSets
  /\ sets + Cardinality(At("fill")) = value
  /\ reading # Null => reading <= value
  /\ \A p \in Pointer : memory[p] = Freed =>
       /\ p < value
       /\ pc["mqtt"] \in {"store", "fill", "choose", "free_old"} => p # held["mqtt"]
       /\ pc["mqtt"] = "in_task" => p # reading
  /\ pc["mqtt"] = "store" => held["mqtt"] <= value
  /\ pc["mqtt"] \in {"fill", "choose", "free_old"} => held["mqtt"] < value
  /\ \A p \in Pointer : memory[p] \in Nat => memory[p] <= sets
  /\ \A p, q \in Pointer :
       p < q /\ memory[p] \in Nat /\ memory[q] \in Nat => memory[p] <= memory[q]
  /\ \A s \in Server : /\ last[s] <= sets
                       /\ \A q \in Pointer : q >= Oldest /\ memory[q] \in Nat =>
                            last[s] <= memory[q]

Inv == TypeOK /\ ThreadInv /\ TaskInv /\ AskedInv /\ ValueInv /\ FaultsAsKnown
-----------------------------------------------------------------------------
LEMMA IdParts ==
  ASSUME NEW t \in Task
  PROVE  /\ t[2] \in Server /\ t[3] \in 1..MaxTasks
         /\ IdOf[t] = t[4] /\ IdOf[t] \in 1..MaxTasks
BY DEF Task, NotifyTask, UpdateTask, IdOf

LEMMA TaskParts ==
  ASSUME NEW t \in NotifyTask
  PROVE  /\ t \in Task /\ t[1] \in Target /\ t[2] \in Server
         /\ t[3] \in 1..MaxTasks /\ t[4] \in 1..MaxTasks
         /\ t = <<t[1], t[2], t[3], t[4]>>
         /\ Of(t) = <<t[1], t[2]>> /\ Of(t) \in Subscription
BY DEF Task, NotifyTask, Of, Subscription

(* An update task is about no target. *)
LEMMA UpdateParts ==
  ASSUME ObserveAssumption, NEW t \in UpdateTask
  PROVE  /\ t \in Task /\ t \notin NotifyTask
         /\ Of(t) \notin Subscription
BY DEF ObserveAssumption, Levels, Task, NotifyTask, UpdateTask, Of, Subscription

LEMMA NoTasks ==
  ASSUME ObserveAssumption
  PROVE  NoTask \notin NotifyTask /\ Wedged \notin NotifyTask \cup {NoTask}
BY DEF ObserveAssumption, Task

(* TimerService's list operations are those of Lists. *)
LEMMA TimerLists ==
  ASSUME NEW l, NEW key, NEW t
  PROVE  /\ Timer!ladd(l, key, t) = ladd(l, key, t)
         /\ Timer!lremove(l, key) = lremove(l, key)
         /\ Timer!Values(l) = Values(l)
<1>1. Timer!ladd(l, key, t) = ladd(l, key, t)
  BY DEF Timer!ladd, ladd, Timer!Cons, Cons
<1>2. \A s : Timer!GreatestKey(s) = GreatestKey(s)
  BY DEF Timer!GreatestKey, GreatestKey
<1>3. Timer!RemoveFirstMatch(l.elems, LAMBDA e : e.key = key)
        = RemoveFirstMatch(l.elems, LAMBDA e : e.key = key)
  BY DEF Timer!RemoveFirstMatch, RemoveFirstMatch, Timer!RemoveAt, RemoveAt,
         Timer!SelectInSeq, SelectInSeq, Timer!Min, Min
<1>4. Timer!lremove(l, key) = lremove(l, key)
  BY <1>2, <1>3 DEF Timer!lremove, lremove
<1> QED BY <1>1, <1>4 DEF Timer!Values, Values

(* schedule() adds the task, under its id ... *)
LEMMA ArmStep ==
  ASSUME ObserveAssumption, TypeOK, NEW t \in Task, Timer!Arm(t)
  PROVE  /\ running = NoTask /\ running' = NoTask
         /\ armed' \in ListOf(Nat, Task)
         /\ ArmedInv /\ t \notin Values(armed) =>
              /\ Values(armed') = Values(armed) \cup {t}
              /\ KeyedBy(armed', IdOf) /\ DistinctValues(armed')
<1>1. armed' = ladd(armed, IdOf[t], t) /\ running = NoTask /\ running' = running
  BY TimerLists DEF Timer!Arm
<1>2. armed \in ListOf(Nat, Task) /\ IdOf[t] \in Nat
  BY IdParts DEF TypeOK, ObserveAssumption
<1> QED BY <1>1, <1>2, LaddType, LaddValues, LaddKeyedBy, LaddDistinctValues DEF ArmedInv

(* ... and cancel() takes off one with the id of its task, if there is one. *)
LEMMA DisarmStep ==
  ASSUME ObserveAssumption, TypeOK, NEW t \in Task, Timer!Disarm(t)
  PROVE  /\ running = NoTask /\ running' = NoTask
         /\ armed' \in ListOf(Nat, Task)
         /\ ArmedInv /\ (\E u \in Values(armed) : IdOf[u] = IdOf[t]) =>
              /\ \E w \in Values(armed) : IdOf[w] = IdOf[t] /\ Values(armed') = Values(armed) \ {w}
              /\ KeyedBy(armed', IdOf) /\ DistinctValues(armed')
<1> DEFINE id == IdOf[t]
           w == lfind(armed, id, NoTask)
<1>1. armed' = lremove(armed, id) /\ running = NoTask /\ running' = running
  BY TimerLists DEF Timer!Disarm
<1>2. armed \in ListOf(Nat, Task)
  BY DEF TypeOK
<1>3. armed' \in ListOf(Nat, Task)
  BY <1>1, <1>2, LremoveType
<1>4. ASSUME ArmedInv, NEW u \in Values(armed), IdOf[u] = id
      PROVE  /\ w \in Values(armed) /\ IdOf[w] = id /\ Values(armed') = Values(armed) \ {w}
             /\ KeyedBy(armed', IdOf) /\ DistinctValues(armed')
  <2>1. id \in Keys(armed)
    BY <1>4 DEF ArmedInv, KeyedBy, Values, Keys
  <2>2. IdOf[w] = id
    BY <1>2, <1>4, <2>1, LfindValue DEF ArmedInv, KeyedBy
  <2>3. /\ w \in Values(armed) /\ Values(armed') = Values(armed) \ {w}
        /\ DistinctValues(armed')
    BY <1>1, <1>2, <1>4, <2>1, LremoveTakesFound DEF ArmedInv
  <2>4. KeyedBy(armed', IdOf)
    BY <1>1, <1>2, <1>4, LremoveKeyedBy DEF ArmedInv
  <2> QED BY <2>2, <2>3, <2>4
<1> QED BY <1>1, <1>3, <1>4

(* A server observes what it names, or the object it is of. *)
LEMMA ResolvedType ==
  ASSUME ObserveAssumption, NEW x \in Subscription
  PROVE  /\ Resolved(x) \in Subscription
         /\ Resolved(x)[1] \in Target /\ Resolved(x)[2] \in Server
         /\ Resolved(x) = <<Resolved(x)[1], Resolved(x)[2]>>
         /\ ~Gone(Resolved(x)[1])
<1>1. x[1] \in Target /\ x[2] \in Server /\ x = <<x[1], x[2]>> /\ "object" \in Target
  BY DEF Subscription, ObserveAssumption
<1>2. CASE Gone(x[1])
  BY <1>1, <1>2 DEF Resolved, Gone, Subscription
<1>3. CASE ~Gone(x[1])
  BY <1>1, <1>3 DEF Resolved, Subscription
<1> QED BY <1>2, <1>3

(* What a search finds is the newest task the server observes the target   *)
(* with; it finds nothing only when no task is listed for the server.      *)
LEMMA Found ==
  ASSUME ObserveAssumption, TypeOK, NEW x \in Subscription, WellListed(x[1])
  PROVE  LET t == lfind(observers[x[1]], x[2], NoTask) IN
         /\ t \in NotifyTask \cup {NoTask}
         /\ t # NoTask => /\ t \in NotifyTask /\ t[1] = x[1] /\ t[2] = x[2] /\ Listed(t)
                          /\ x[2] \in Keys(observers[x[1]])
<1> DEFINE l == observers[x[1]]
           t == lfind(l, x[2], NoTask)
<1>1. x[1] \in Target /\ l \in ListOf(Nat, NotifyTask)
  BY DEF TypeOK, Subscription
<1>2. Values(l) \subseteq NotifyTask
  BY <1>1, EmptyList
<1>3. \/ t = NoTask
      \/ \E i \in DOMAIN l.elems : l.elems[i].key = x[2] /\ t = l.elems[i].value
  BY <1>1, LfindValue
<1>4. ASSUME NEW i \in DOMAIN l.elems, l.elems[i].key = x[2], t = l.elems[i].value
      PROVE  t \in NotifyTask /\ t[1] = x[1] /\ t[2] = x[2] /\ Listed(t) /\ x[2] \in Keys(l)
  <2>1. t \in Values(l) /\ x[2] \in Keys(l)
    BY <1>4 DEF Values, Keys
  <2>2. t[1] = x[1] /\ t[2] = x[2]
    BY <1>4 DEF WellListed
  <2> QED BY <2>1, <2>2, <1>2 DEF Listed
<1> QED BY <1>3, <1>4

-----------------------------------------------------------------------------
(* A step that is no fault is one of these. *)
LEMMA Steps ==
  ASSUME Next
  PROVE  \/ \E th \in Writer :
              \/ ReadOld(th) \/ Store(th) \/ Fill(th) \/ Choose(th) \/ SkipRecent(th)
              \/ Execute(th) \/ EndOfSet(th)
              \/ \E x \in Subscription : Find(th, x)
         \/ \E th \in Thread : TaskReturns(th)
         \/ FreeOld \/ Enter \/ Cancel \/ Unlist \/ FreeTask \/ Delete \/ ObserveWithoutPmax
         \/ \E x \in Subscription : Observe(x) \/ CancelObserve(x)
         \/ \E s \in Server : OnRegister(s) \/ Deregister(s)
         \/ \E t \in NotifyTask : Fire(t)
BY DEF Next, App, Mqtt, Requests, Servers, Sched, Setter, Writer, Thread

(* What a fault is: nothing but fault changes. *)
LEMMA FaultStep ==
  ASSUME NEW th, NEW what, Fail(th, what)
  PROVE  fault' # NoFault \/ what = "none"
BY DEF Fail, NoFault

(* The threads at one place: none, one or two. *)
LEMMA CountAt ==
  ASSUME NEW label
  PROVE  /\ IsFiniteSet(At(label)) /\ Cardinality(At(label)) \in Nat
         /\ \A th \in Writer : pc[th] = label => Cardinality(At(label)) >= 1
<1>1. IsFiniteSet(Writer)
  <2>1. IsFiniteSet({"app"}) /\ Writer = {"app"} \cup {"mqtt"}
    BY FS_Singleton DEF Writer
  <2> QED BY <2>1, FS_AddElement
<1>2. At(label) \subseteq Writer
  BY DEF At
<1>3. IsFiniteSet(At(label)) /\ Cardinality(At(label)) \in Nat
  BY <1>1, <1>2, FS_Subset, FS_CardinalityType
<1>4. \A th \in Writer : pc[th] = label => At(label) # {}
  BY DEF At
<1>5. At(label) # {} => Cardinality(At(label)) # 0
  BY <1>3, FS_EmptySet
<1> QED BY <1>3, <1>4, <1>5

(* The task OBSERVE makes, which nobody has seen. *)
LEMMA NewTask ==
  ASSUME ObserveAssumption, TypeOK, TaskInv, NEW x \in Subscription, Observe(x)
  PROVE  \E t \in NotifyTask :
           /\ Of(t) = Resolved(x) /\ t[1] = Resolved(x)[1] /\ ~Gone(t[1])
           /\ t[3] = Cardinality(made) + 1 /\ t \notin made /\ Timer!Arm(t)
           /\ at' = [at EXCEPT !["mqtt"] = t] /\ made' = made \cup {t}
<1> DEFINE y == Resolved(x)
<1>1. /\ y[1] \in Target /\ y[2] \in Server /\ y = <<y[1], y[2]>> /\ ~Gone(y[1])
  BY ResolvedType
<1>2. PICK id \in TaskIds :
        LET t == <<y[1], y[2], Cardinality(made) + 1, id>>
        IN  Timer!Arm(t) /\ at' = [at EXCEPT !["mqtt"] = t] /\ made' = made \cup {t}
  BY DEF Observe
<1> HIDE DEF y
<1>3. PICK t : t = <<y[1], y[2], Cardinality(made) + 1, id>>
  OBVIOUS
<1>4. Cardinality(made) \in Nat /\ Cardinality(made) < MaxTasks /\ MaxTasks \in Nat
  BY FS_CardinalityType DEF TaskInv, MadeInv, Observe, ObserveAssumption
<1>5. id \in 1..MaxTasks /\ Cardinality(made) + 1 \in 1..MaxTasks
  BY <1>4 DEF TaskIds
<1>6. t \in NotifyTask /\ Of(t) = y /\ t[1] = y[1] /\ t[3] = Cardinality(made) + 1
  BY <1>1, <1>3, <1>5 DEF NotifyTask, Of
<1>7. t \notin made
  BY <1>4, <1>6 DEF TaskInv, MadeInv
<1> QED BY <1>1, <1>2, <1>3, <1>6, <1>7 DEF y

LEMMA NewUpdateTask ==
  ASSUME ObserveAssumption, TypeOK, TaskInv, NEW s \in Server, OnRegister(s)
  PROVE  \E t \in UpdateTask :
           /\ t[3] = Cardinality(made) + 1 /\ t \notin made
           /\ Timer!Arm(t) /\ made' = made \cup {t}
<1>1. PICK id \in TaskIds :
        LET t == <<"update", s, Cardinality(made) + 1, id>>
        IN  Timer!Arm(t) /\ made' = made \cup {t}
  BY DEF OnRegister
<1>2. PICK t : t = <<"update", s, Cardinality(made) + 1, id>>
  OBVIOUS
<1>3. Cardinality(made) \in Nat /\ Cardinality(made) < MaxTasks /\ MaxTasks \in Nat
  BY FS_CardinalityType DEF TaskInv, MadeInv, OnRegister, ObserveAssumption
<1>4. id \in 1..MaxTasks /\ Cardinality(made) + 1 \in 1..MaxTasks
  BY <1>3 DEF TaskIds
<1>5. t \in UpdateTask /\ t[3] = Cardinality(made) + 1
  BY <1>2, <1>4 DEF UpdateTask
<1>6. t \notin made
  BY <1>3, <1>5 DEF TaskInv, MadeInv
<1> QED BY <1>1, <1>2, <1>5, <1>6

LEMMA MadeOne ==
  ASSUME ObserveAssumption, TypeOK, MadeInv, Cardinality(made) < MaxTasks,
         NEW t \in Task, t \notin made, t[3] = Cardinality(made) + 1, made' = made \cup {t}
  PROVE  MadeInv'
<1>1. /\ IsFiniteSet(made) /\ Cardinality(made) \in Nat /\ MaxTasks \in Nat
      /\ \A u \in made : u[3] \in Int /\ u[3] <= Cardinality(made)
  BY FS_CardinalityType, IdParts DEF MadeInv, ObserveAssumption, TypeOK
<1>2. IsFiniteSet(made') /\ Cardinality(made') = Cardinality(made) + 1
  BY <1>1, FS_AddElement
<1>3. \A u \in made' : u[3] <= Cardinality(made) + 1
  BY <1>1
<1> QED BY <1>1, <1>2, <1>3 DEF MadeInv

(* A subscription has no more tasks than were made, and has one as long as *)
(* one is not freed.                                                       *)
LEMMA AskedBound ==
  ASSUME MadeInv, AskedInv, NEW x \in Subscription
  PROVE  /\ asked[x] \in Nat /\ asked[x] <= Cardinality(made)
         /\ IsFiniteSet(Live(x))
<1>1. Live(x) \in SUBSET made
  BY DEF Live
<1>2. IsFiniteSet(Live(x)) /\ Cardinality(Live(x)) <= Cardinality(made)
  BY <1>1, FS_Subset DEF MadeInv
<1> QED BY <1>2, FS_CardinalityType DEF AskedInv

LEMMA LiveTask ==
  ASSUME MadeInv, AskedInv, NEW t \in NotifyTask, t \in made, t \notin freed
  PROVE  /\ t \in Live(Of(t)) /\ IsFiniteSet(Live(Of(t)))
         /\ asked[Of(t)] \in Nat /\ asked[Of(t)] > 0
<1>1. Of(t) \in Subscription
  BY TaskParts
<1>2. t \in Live(Of(t))
  BY DEF Live
<1>3. IsFiniteSet(Live(Of(t))) /\ asked[Of(t)] \in Nat
  BY <1>1, AskedBound
<1>4. Cardinality(Live(Of(t))) # 0
  BY <1>2, <1>3, FS_EmptySet
<1> QED BY <1>1, <1>2, <1>3, <1>4 DEF AskedInv

LEMMA CalledOffMade ==
  ASSUME TypeOK, ThreadInv, TaskInv
  PROVE  /\ CalledOff \subseteq made
         /\ \A id : /\ IsFiniteSet(WithId(CalledOff, id))
                   /\ IsFiniteSet(WithId(made \ Values(armed), id))
<1>1. CalledOff \subseteq made
  BY DEF CalledOff, TypeOK, TaskInv, RequestInv, RequestPc
<1>2. \A id : /\ WithId(CalledOff, id) \in SUBSET made
              /\ WithId(made \ Values(armed), id) \in SUBSET made
  BY <1>1 DEF WithId
<1> QED BY <1>1, <1>2, FS_Subset DEF TaskInv, MadeInv

(* While a task is not called off, one with its id is armed: for cancel()   *)
(* there is always one to take off.                                        *)
LEMMA OneIsArmed ==
  ASSUME ObserveAssumption, TypeOK, ThreadInv, TaskInv, NEW t \in made, t \notin CalledOff
  PROVE  \E u \in Values(armed) : IdOf[u] = IdOf[t]
<1> DEFINE id == IdOf[t]
           off == WithId(made \ Values(armed), id)
           called == WithId(CalledOff, id)
<1>1. id \in 1..MaxTasks
  BY IdParts DEF TypeOK
<1>2. IsFiniteSet(off) /\ Cardinality(off) = Cardinality(called)
  BY <1>1, CalledOffMade DEF TaskInv, CountInv
<1>3. SUFFICES ASSUME \A u \in Values(armed) : IdOf[u] # id PROVE FALSE
  OBVIOUS
<1>4. called \in SUBSET off /\ t \in off /\ t \notin called
  BY <1>3, CalledOffMade DEF WithId
<1> HIDE DEF off, called
<1> QED BY <1>2, <1>4, FS_Subset

(* If one that was called off is armed, another with its id is off that was *)
(* not.                                                                    *)
LEMMA AnotherIsOff ==
  ASSUME ObserveAssumption, TypeOK, ThreadInv, TaskInv, NEW t \in Values(armed), t \in CalledOff
  PROVE  TakenInItsPlace(t)
<1> DEFINE id == IdOf[t]
           off == WithId(made \ Values(armed), id)
           called == WithId(CalledOff, id)
<1>1. t \in made /\ id \in 1..MaxTasks
  BY CalledOffMade, IdParts DEF TypeOK
<1>2. IsFiniteSet(called) /\ Cardinality(off) = Cardinality(called)
  BY <1>1, CalledOffMade DEF TaskInv, CountInv
<1>3. t \in called /\ t \notin off
  BY DEF WithId
<1>4. SUFFICES ASSUME \A u \in off : u \in called PROVE FALSE
  BY DEF WithId, TakenInItsPlace
<1>5. off \in SUBSET called
  BY <1>4
<1> HIDE DEF off, called
<1> QED BY <1>2, <1>3, <1>5, FS_Subset

(* The pointers in use are those up to value. *)
LEMMA NextPointer ==
  ASSUME ObserveAssumption, TypeOK, ValueInv
  PROVE  Cardinality(Allocated) = value + 1
<1>1. value \in 0..MaxSets /\ MaxSets \in Nat
  BY DEF TypeOK, Pointer, ObserveAssumption
<1>2. Allocated = 0 .. value
  BY <1>1 DEF Allocated, ValueInv, Pointer
<1> QED BY <1>1, <1>2, FS_Interval

LEMMA TypeStep ==
  ASSUME ObserveAssumption, Inv, Next, fault' = NoFault PROVE TypeOK'
<1> USE DEF localVars, taskVars, valueVars, timerVars, Thread, Writer, WriterPc, RequestPc, Go
<1>0. TypeOK
  BY DEF Inv
<1>1. ASSUME NEW th \in Writer, ReadOld(th) PROVE TypeOK'
  BY <1>0, <1>1 DEF ReadOld, TypeOK
<1>2. ASSUME NEW th \in Writer, Store(th) PROVE TypeOK'
  <2>1. ~ Fail(th, "target")
    BY FaultStep
  <2>2. value' = value + 1
    BY <1>0, <1>2, <2>1, NextPointer DEF Store, Inv
  <2>3. value + 1 \in Pointer /\ value \in Int /\ MaxSets \in Nat
    BY <1>0, <1>2, CountAt, SMTT(30) DEF Store, Inv, ValueInv, TypeOK, Pointer, ObserveAssumption
  <2>4. memory' = [memory EXCEPT ![value + 1] = Uninit]
    BY <1>2, <2>1, <2>2 DEF Store
  <2>5. memory' \in [Pointer -> {Unallocated, Uninit, Freed} \cup (0..MaxSets)]
    BY <1>0, <2>4 DEF TypeOK
  <2> QED BY <1>0, <1>2, <2>1, <2>2, <2>3, <2>5 DEF Store, TypeOK
<1>3. ASSUME NEW th \in Writer, Fill(th) PROVE TypeOK'
  <2>1. ~ Fail(th, "target")
    BY FaultStep
  <2>2. sets + 1 \in 0..MaxSets
    BY <1>0, <1>3, CountAt DEF Fill, Inv, ValueInv, TypeOK, Pointer, ObserveAssumption
  <2>3. memory' = [memory EXCEPT ![value] = sets + 1]
    BY <1>3, <2>1 DEF Fill
  <2>4. memory' \in [Pointer -> {Unallocated, Uninit, Freed} \cup (0..MaxSets)]
    BY <1>0, <2>2, <2>3 DEF TypeOK
  <2> QED BY <1>0, <1>3, <2>1, <2>2, <2>4 DEF Fill, TypeOK
<1>4. ASSUME NEW th \in Writer, Choose(th) PROVE TypeOK'
  <2>1. ~ Fail(th, "target") /\ ~ Fail(th, "value")
    BY FaultStep
  <2>2. PICK ss \in SUBSET Server : todo' = [todo EXCEPT ![th] = Target \X ss]
    BY <1>4, <2>1 DEF Choose
  <2>3. Target \X ss \subseteq Subscription
    BY DEF Subscription
  <2>4. todo' \in [Thread -> SUBSET Subscription]
    BY <1>0, <2>2, <2>3 DEF TypeOK
  <2> QED BY <1>0, <1>4, <2>1, <2>4 DEF Choose, TypeOK
<1>5. ASSUME NEW th \in Writer, SkipRecent(th) PROVE TypeOK'
  BY <1>0, <1>5 DEF SkipRecent, TypeOK
<1>6. ASSUME NEW th \in Writer, Execute(th) PROVE TypeOK'
  BY <1>0, <1>6, FaultStep DEF Execute, Timer!RunNow, Reached, TypeOK
<1>7. ASSUME NEW th \in Writer, EndOfSet(th) PROVE TypeOK'
  BY <1>0, <1>7 DEF EndOfSet, TypeOK
<1>8. ASSUME NEW th \in Writer, NEW x \in Subscription, Find(th, x) PROVE TypeOK'
  <2>1. ~ Fail(th, "target")
    BY FaultStep
  <2>2. WellListed(x[1])
    BY DEF Inv, TaskInv, Subscription
  <2>3. at'[th] \in NotifyTask \cup {NoTask} /\ at' \in [Thread -> NotifyTask \cup {NoTask}]
    BY <1>0, <1>8, <2>1, <2>2, Found DEF Find, TypeOK
  <2>4. todo' \in [Thread -> SUBSET Subscription]
    BY <1>0, <1>8, <2>1 DEF Find, TypeOK
  <2>5. pc' \in [Thread -> WriterPc \cup RequestPc]
    BY <1>0, <1>8, <2>1 DEF Find, TypeOK
  <2> QED BY <1>0, <1>8, <2>1, <2>3, <2>4, <2>5 DEF Find, TypeOK
<1>9. ASSUME NEW th \in Thread, TaskReturns(th) PROVE TypeOK'
  <2>1. \A what \in {"task", "target", "value", "uninit"} : ~ Fail(th, what)
    BY FaultStep
  <2>2. running \in NotifyTask
    BY <1>9 DEF Inv, ThreadInv, TaskReturns
  <2>3. last' = IF reading = Null THEN last
                ELSE [last EXCEPT ![running[2]] = memory[reading]]
    BY <1>9, <2>1 DEF TaskReturns
  <2>4. reading # Null => memory[reading] \in 0..MaxSets
    <3>1. reading # Null => reading \in Pointer /\ reading <= value /\ value \in Int
      BY <1>0 DEF Inv, ValueInv, TypeOK, Pointer
    <3>2. reading # Null => memory[reading] \notin {Unallocated, Uninit, Freed}
      BY <1>9, <2>1, <3>1 DEF TaskReturns, Inv, ValueInv, Pointer
    <3> QED BY <1>0, <3>1, <3>2 DEF TypeOK
  <2>5. last' \in [Server -> 0..MaxSets]
    BY <1>0, <2>2, <2>3, <2>4, TaskParts DEF TypeOK
  <2>6. /\ Go(th, IF th = "sched" THEN "idle" ELSE "find")
        /\ reading' = Null /\ at' = [at EXCEPT ![th] = NoTask] /\ Timer!Return
        /\ UNCHANGED <<held, todo, taskVars, valueVars, deleted, fault>>
    BY <1>9, <2>1 DEF TaskReturns
  <2> QED BY <1>0, <2>5, <2>6 DEF Timer!Return, TypeOK
<1>10. ASSUME FreeOld PROVE TypeOK'
  BY <1>0, <1>10 DEF FreeOld, TypeOK
<1>11. ASSUME Enter PROVE TypeOK'
  <2> DEFINE t == at["mqtt"]
  <2>1. t \in NotifyTask /\ t[1] \in Target /\ t[2] \in Nat
    BY <1>11, TaskParts DEF Enter, Inv, ThreadInv, ObserveAssumption
  <2>2. observers[t[1]] \in ListOf(Nat, NotifyTask)
    BY <1>0, <2>1 DEF TypeOK
  <2>3. ladd(observers[t[1]], t[2], t) \in ListOf(Nat, NotifyTask)
    <3> HIDE DEF t
    <3> QED BY <2>1, <2>2, LaddType
  <2>4. observers' \in [Target -> ListOf(Nat, NotifyTask)]
    BY <1>0, <1>11, <2>3 DEF Enter, TypeOK
  <2> QED BY <1>0, <1>11, <2>4 DEF Enter, TypeOK
<1>12. ASSUME Cancel PROVE TypeOK'
  <2>1. at["mqtt"] \in NotifyTask /\ Timer!Disarm(at["mqtt"])
    BY <1>12 DEF Cancel, Inv, ThreadInv
  <2>2. armed' \in ListOf(Nat, Task) /\ running' = running
    BY <1>0, <2>1, TaskParts, DisarmStep
  <2> QED BY <1>0, <1>12, <2>2 DEF Cancel, TypeOK
<1>13. ASSUME Unlist PROVE TypeOK'
  <2> DEFINE t == at["mqtt"]
  <2>1. t \in NotifyTask /\ t[1] \in Target
    BY <1>13, TaskParts DEF Unlist, Inv, ThreadInv
  <2>2. Unlisted(observers[t[1]], t[2]) \in ListOf(Nat, NotifyTask)
    BY <1>0, <2>1, LremoveType DEF TypeOK, Unlisted
  <2>3. observers' \in [Target -> ListOf(Nat, NotifyTask)]
    BY <1>0, <1>13, <2>2 DEF Unlist, TypeOK
  <2> QED BY <1>0, <1>13, <2>3 DEF Unlist, TypeOK
<1>14. ASSUME FreeTask PROVE TypeOK'
  <2> DEFINE t == at["mqtt"]
  <2>1. t \in NotifyTask /\ Of(t) \in Subscription
    BY <1>14, TaskParts DEF FreeTask, Inv, ThreadInv
  <2>2. asked[Of(t)] - 1 \in 0..MaxTasks
    <3>1. asked[Of(t)] # 0
      BY <1>14, <2>1, LiveTask DEF FreeTask, Inv, TaskInv, RequestInv
    <3> QED BY <1>0, <2>1, <3>1 DEF TypeOK, ObserveAssumption
  <2>3. asked' \in [Subscription -> 0..MaxTasks]
    BY <1>0, <1>14, <2>1, <2>2 DEF FreeTask, TypeOK
  <2>4. freed' \subseteq made \cap NotifyTask
    BY <1>0, <1>14, <2>1 DEF FreeTask, TypeOK, Inv, TaskInv, RequestInv
  <2> QED BY <1>0, <1>14, <2>1, <2>3, <2>4 DEF FreeTask, TypeOK
<1>15. ASSUME Delete PROVE TypeOK'
  <2>1. NewList \in ListOf(Nat, NotifyTask)
    BY DEF NewList, ListOf
  <2>2. observers' \in [Target -> ListOf(Nat, NotifyTask)]
    BY <1>0, <1>15, <2>1 DEF Delete, TypeOK
  <2> QED BY <1>0, <1>15, <2>2 DEF Delete, TypeOK
<1>16. ASSUME ObserveWithoutPmax PROVE FALSE
  BY <1>16, FaultStep DEF ObserveWithoutPmax
<1>17. ASSUME NEW x \in Subscription, Observe(x) PROVE TypeOK'
  <2>1. PICK t \in NotifyTask : /\ t \notin made /\ Timer!Arm(t) /\ made' = made \cup {t}
                          /\ at' = [at EXCEPT !["mqtt"] = t]
    BY <1>0, <1>17, NewTask DEF Inv
  <2>2. PICK y \in Subscription : y = Resolved(x)
    BY ResolvedType
  <2>3. asked[y] + 1 \in 0..MaxTasks
    <3>1. Cardinality(made) < MaxTasks
      BY <1>17 DEF Observe
    <3>2. asked[y] \in Nat /\ asked[y] <= Cardinality(made)
      BY <1>0, AskedBound DEF Inv, TaskInv
    <3>3. Cardinality(made) \in Nat /\ MaxTasks \in Nat
      BY FS_CardinalityType DEF Inv, TaskInv, MadeInv, ObserveAssumption
    <3> QED BY <3>1, <3>2, <3>3
  <2>4. /\ asked' = [asked EXCEPT ![y] = @ + 1] /\ Go("mqtt", "enter")
        /\ UNCHANGED <<held, todo, observers, freed, ended, valueVars, deleted, reading, last,
                       fault>>
    BY <1>17, <2>2 DEF Observe
  <2>5. asked' \in [Subscription -> 0..MaxTasks]
    BY <1>0, <2>2, <2>3, <2>4 DEF TypeOK
  <2>6. armed' \in ListOf(Nat, Task) /\ running' = running
    BY <1>0, <2>1, TaskParts, ArmStep
  <2>7. /\ at' \in [Thread -> NotifyTask \cup {NoTask}] /\ made' \subseteq Task
        /\ freed' \subseteq made' \cap NotifyTask /\ ended' \subseteq made' \cap UpdateTask
    BY <1>0, <2>1, <2>4, TaskParts DEF TypeOK
  <2> QED BY <1>0, <2>4, <2>5, <2>6, <2>7 DEF TypeOK
<1>18. ASSUME NEW x \in Subscription, CancelObserve(x) PROVE TypeOK'
  <2> DEFINE y == Resolved(x)
             t == lfind(observers[y[1]], y[2], NoTask)
  <2>1. y \in Subscription /\ WellListed(y[1])
    BY ResolvedType DEF Inv, TaskInv
  <2>2. t \in NotifyTask \cup {NoTask}
    BY <1>0, <2>1, Found
  <2> HIDE DEF y
  <2>3. ~ Fail("mqtt", "null")
    BY FaultStep
  <2>4. /\ at' = [at EXCEPT !["mqtt"] = t] /\ Go("mqtt", "cancel")
        /\ UNCHANGED <<held, todo, taskVars, valueVars, deleted, reading, timerVars, last,
                       fault>>
    BY <1>18, <2>3 DEF CancelObserve, y
  <2> HIDE DEF t
  <2> QED BY <1>0, <2>2, <2>4 DEF TypeOK
<1>19. ASSUME NEW t \in NotifyTask, Fire(t) PROVE TypeOK'
  BY <1>0, <1>19, FaultStep DEF Fire, Timer!Fire, TypeOK
<1>20. ASSUME NEW s \in Server, OnRegister(s) PROVE TypeOK'
  <2>1. PICK t \in UpdateTask : t \notin made /\ Timer!Arm(t) /\ made' = made \cup {t}
    BY <1>0, <1>20, NewUpdateTask DEF Inv
  <2>2. t \in Task
    BY UpdateParts
  <2>3. armed' \in ListOf(Nat, Task) /\ running' = running
    BY <1>0, <2>1, <2>2, ArmStep
  <2> QED BY <1>0, <1>20, <2>1, <2>2, <2>3 DEF OnRegister, TypeOK
<1>21. ASSUME NEW s \in Server, Deregister(s) PROVE TypeOK'
  <2>1. PICK t \in made \cap UpdateTask : Timer!Disarm(t) /\ ended' = ended \cup {t}
    BY <1>21 DEF Deregister
  <2>2. armed' \in ListOf(Nat, Task) /\ running' = running
    BY <1>0, <2>1, UpdateParts, DisarmStep
  <2> QED BY <1>0, <1>21, <2>1, <2>2 DEF Deregister, TypeOK
<1> QED BY <1>1, <1>2, <1>3, <1>4, <1>5, <1>6, <1>7, <1>8, <1>9, <1>10, <1>11, <1>12,
          <1>13, <1>14, <1>15, <1>16, <1>17, <1>18, <1>19, <1>20, <1>21, Steps

LEMMA ThreadStep ==
  ASSUME ObserveAssumption, Inv, Next, fault' = NoFault PROVE ThreadInv'
<1> USE DEF localVars, taskVars, valueVars, timerVars, Thread, Writer, WriterPc, RequestPc, Go
<1>0. TypeOK /\ ThreadInv /\ NoTask \notin NotifyTask /\ running' = running'
  BY NoTasks DEF Inv
<1>1. ASSUME NEW th \in Writer, ReadOld(th) PROVE ThreadInv'
  BY <1>0, <1>1 DEF ReadOld, ThreadInv, TypeOK
<1>2. ASSUME NEW th \in Writer, Store(th) PROVE ThreadInv'
  BY <1>0, <1>2, FaultStep DEF Store, ThreadInv, TypeOK
<1>3. ASSUME NEW th \in Writer, Fill(th) PROVE ThreadInv'
  BY <1>0, <1>3, FaultStep DEF Fill, ThreadInv, TypeOK
<1>4. ASSUME NEW th \in Writer, Choose(th) PROVE ThreadInv'
  BY <1>0, <1>4, FaultStep DEF Choose, ThreadInv, TypeOK
<1>5. ASSUME NEW th \in Writer, SkipRecent(th) PROVE ThreadInv'
  BY <1>0, <1>5 DEF SkipRecent, ThreadInv, TypeOK
<1>6. ASSUME NEW th \in Writer, Execute(th) PROVE ThreadInv'
  BY <1>0, <1>6, FaultStep DEF Execute, Timer!RunNow, ThreadInv, TypeOK
<1>7. ASSUME NEW th \in Writer, EndOfSet(th) PROVE ThreadInv'
  BY <1>0, <1>7 DEF EndOfSet, ThreadInv, TypeOK
<1>8. ASSUME NEW th \in Writer, NEW x \in Subscription, Find(th, x) PROVE ThreadInv'
  BY <1>0, <1>8, TypeStep, FaultStep DEF Find, ThreadInv, TypeOK
<1>9. ASSUME NEW th \in Thread, TaskReturns(th) PROVE ThreadInv'
  BY <1>0, <1>9, FaultStep DEF TaskReturns, Timer!Return, ThreadInv, TypeOK
<1>10. ASSUME FreeOld PROVE ThreadInv'
  BY <1>0, <1>10 DEF FreeOld, ThreadInv, TypeOK
<1>11. ASSUME Enter PROVE ThreadInv'
  BY <1>0, <1>11 DEF Enter, ThreadInv, TypeOK
<1>12. ASSUME Cancel PROVE ThreadInv'
  BY <1>0, <1>12 DEF Cancel, Timer!Disarm, ThreadInv, TypeOK
<1>13. ASSUME Unlist PROVE ThreadInv'
  BY <1>0, <1>13 DEF Unlist, ThreadInv, TypeOK
<1>14. ASSUME FreeTask PROVE ThreadInv'
  BY <1>0, <1>14 DEF FreeTask, ThreadInv, TypeOK
<1>15. ASSUME Delete PROVE ThreadInv'
  BY <1>0, <1>15 DEF Delete, ThreadInv, TypeOK
<1>16. ASSUME ObserveWithoutPmax PROVE FALSE
  BY <1>16, FaultStep DEF ObserveWithoutPmax
<1>17. ASSUME NEW x \in Subscription, Observe(x) PROVE ThreadInv'
  <2>1. at'["mqtt"] \in NotifyTask /\ running = NoTask /\ UNCHANGED running
    BY <1>0, <1>17, NewTask DEF Inv, Timer!Arm, TypeOK
  <2>2. pc["mqtt"] = "idle" /\ Go("mqtt", "enter") /\ at'["app"] = at["app"]
    BY <1>0, <1>17 DEF Observe, TypeOK
  <2> QED BY <1>0, <2>1, <2>2 DEF ThreadInv, TypeOK
<1>18. ASSUME NEW x \in Subscription, CancelObserve(x) PROVE ThreadInv'
  <2>1. at'["mqtt"] \in NotifyTask /\ at'["app"] = at["app"]
    BY <1>0, <1>18, TypeStep, FaultStep DEF CancelObserve, TypeOK
  <2>2. pc["mqtt"] = "idle" /\ Go("mqtt", "cancel") /\ UNCHANGED running
    BY <1>0, <1>18, FaultStep DEF CancelObserve, TypeOK
  <2> QED BY <1>0, <2>1, <2>2 DEF ThreadInv, TypeOK
<1>19. ASSUME NEW t \in NotifyTask, Fire(t) PROVE ThreadInv'
  BY <1>0, <1>19, FaultStep DEF Fire, Timer!Fire, ThreadInv, TypeOK
<1>20. ASSUME NEW s \in Server, OnRegister(s) \/ Deregister(s) PROVE ThreadInv'
  <2>1. UNCHANGED <<pc, at, running>>
    BY <1>20 DEF OnRegister, Deregister, Timer!Arm, Timer!Disarm
  <2> QED BY <1>0, <2>1 DEF ThreadInv
<1> QED BY <1>1, <1>2, <1>3, <1>4, <1>5, <1>6, <1>7, <1>8, <1>9, <1>10, <1>11, <1>12,
          <1>13, <1>14, <1>15, <1>16, <1>17, <1>18, <1>19, <1>20, Steps

LEMMA EnteredTask ==
  ASSUME NEW t \in NotifyTask, NEW l \in ListOf(Nat, NotifyTask), t[2] \in Nat,
         \A i \in DOMAIN l.elems : /\ l.elems[i].value[1] = t[1]
                                   /\ l.elems[i].value[2] = l.elems[i].key
  PROVE  \A i \in DOMAIN ladd(l, t[2], t).elems :
           /\ ladd(l, t[2], t).elems[i].value[1] = t[1]
           /\ ladd(l, t[2], t).elems[i].value[2] = ladd(l, t[2], t).elems[i].key
<1> DEFINE a == ladd(l, t[2], t).elems
<1>1. /\ DOMAIN a = 1 .. Len(l.elems) + 1
      /\ a[1] = [key |-> t[2], value |-> t]
      /\ \A i \in 1 .. Len(l.elems) : a[i + 1] = l.elems[i]
  BY LaddElems
<1>2. DOMAIN l.elems = 1 .. Len(l.elems) /\ Len(l.elems) \in Nat
  BY LenProperties DEF ListOf
<1> HIDE DEF a
<1>3. ASSUME NEW i \in DOMAIN a PROVE a[i].value[1] = t[1] /\ a[i].value[2] = a[i].key
  <2>1. CASE i = 1
    BY <2>1, <1>1
  <2>2. CASE i # 1
    <3>1. i - 1 \in DOMAIN l.elems /\ (i - 1) + 1 = i
      BY <2>2, <1>1, <1>2
    <3>2. a[i] = l.elems[i - 1]
      BY <3>1, <1>1, <1>2
    <3> QED BY <3>1, <3>2
  <2> QED BY <2>1, <2>2
<1> QED BY <1>3 DEF a

(* What becomes of the lists and counts when none of them changes and the  *)
(* MQTT thread stays outside OBSERVE and CANCEL, or where it is in them.   *)
LEMMA ListsKept ==
  ASSUME TaskInv, UNCHANGED <<observers, made, freed, ended, deleted, armed>>,
         \/ pc'["mqtt"] = pc["mqtt"] /\ at'["mqtt"] = at["mqtt"]
         \/ {pc["mqtt"], pc'["mqtt"]} \cap RequestPc = {},
         FollowInv'
  PROVE  TaskInv'
<1>1. CalledOff' = CalledOff
  BY DEF CalledOff, RequestPc
<1>2. MadeInv' /\ ArmedInv' /\ ListInv' /\ \A x \in Target : WellListed(x)'
  BY DEF TaskInv, MadeInv, ArmedInv, ListInv, Listed, WellListed
<1>3. CountInv'
  BY <1>1 DEF TaskInv, CountInv, WithId
<1>4. ListedInv'
  BY <1>1 DEF TaskInv, ListedInv, Gone, RequestPc
<1>5. RequestInv'
  BY DEF TaskInv, RequestInv, Gone, Listed, RequestPc
<1> QED BY <1>2, <1>3, <1>4, <1>5 DEF TaskInv

(* The same of a step of the MQTT thread inside OBSERVE or CANCEL that     *)
(* leaves the scheduler alone and calls off no task.                       *)
LEMMA CountKept ==
  ASSUME TaskInv, UNCHANGED <<made, armed>>, CalledOff' = CalledOff
  PROVE  MadeInv' /\ ArmedInv' /\ CountInv'
BY DEF TaskInv, MadeInv, ArmedInv, CountInv, WithId

(* cancel() of a task that is not called off takes one with its id off. *)
LEMMA OneTakenOff ==
  ASSUME ObserveAssumption, TypeOK, ThreadInv, TaskInv, NEW t \in made, t \notin CalledOff,
         Timer!Disarm(t), UNCHANGED made, CalledOff' = CalledOff \cup {t}
  PROVE  running = NoTask /\ running' = NoTask /\ MadeInv' /\ ArmedInv' /\ CountInv'
<1>0. t \in Task
  BY DEF TypeOK
<1>1. PICK w \in Values(armed) : IdOf[w] = IdOf[t] /\ Values(armed') = Values(armed) \ {w}
  BY <1>0, OneIsArmed, DisarmStep DEF TaskInv
<1>2. running = NoTask /\ running' = NoTask /\ KeyedBy(armed', IdOf) /\ DistinctValues(armed')
  BY <1>0, <1>1, DisarmStep DEF TaskInv
<1>3. MadeInv' /\ ArmedInv'
  BY <1>1, <1>2 DEF TaskInv, MadeInv, ArmedInv
<1>4. ASSUME NEW id \in 1..MaxTasks
      PROVE  Cardinality(WithId(made' \ Values(armed'), id)) = Cardinality(WithId(CalledOff', id))
  <2> DEFINE off == WithId(made \ Values(armed), id)
             called == WithId(CalledOff, id)
  <2>1. /\ IsFiniteSet(off) /\ IsFiniteSet(called) /\ Cardinality(off) = Cardinality(called)
        /\ w \in made
    BY CalledOffMade DEF TaskInv, CountInv, ArmedInv
  <2>2. CASE IdOf[t] # id
    <3>1. /\ WithId(made' \ Values(armed'), id) = off
          /\ WithId(CalledOff', id) = called
      BY <1>1, <2>2 DEF WithId
    <3> QED BY <2>1, <3>1
  <2>3. CASE IdOf[t] = id
    <3>1. /\ WithId(made' \ Values(armed'), id) = off \cup {w} /\ w \notin off
          /\ WithId(CalledOff', id) = called \cup {t} /\ t \notin called
      BY <1>1, <2>1, <2>3 DEF WithId
    <3> HIDE DEF off, called
    <3>2. /\ Cardinality(off \cup {w}) = Cardinality(off) + 1
          /\ Cardinality(called \cup {t}) = Cardinality(called) + 1
      BY <2>1, <3>1, FS_AddElement
    <3> QED BY <2>1, <3>1, <3>2
  <2> QED BY <2>2, <2>3
<1> QED BY <1>2, <1>3, <1>4 DEF CountInv

LEMMA TaskStep ==
  ASSUME ObserveAssumption, Inv, Next, fault' = NoFault PROVE TaskInv'
<1> USE DEF localVars, taskVars, valueVars, timerVars, Thread, Writer, Go
<1>0. TypeOK /\ ThreadInv /\ TaskInv
  BY DEF Inv
<1>a. /\ RequestPc \cap WriterPc = {} /\ "enter" \in RequestPc /\ "cancel" \in RequestPc
      /\ "unlist" \in RequestPc /\ "free" \in RequestPc
  BY DEF WriterPc, RequestPc
<1>1. ASSUME NEW th \in Writer,
             ReadOld(th) \/ Store(th) \/ Fill(th) \/ Choose(th) \/ SkipRecent(th) \/ EndOfSet(th)
      PROVE  TaskInv'
  <2>1. /\ UNCHANGED <<observers, made, freed, ended, deleted, armed, running>>
        /\ UNCHANGED at \/ at' = [at EXCEPT ![th] = NoTask]
        /\ pc[th] \in WriterPc
        /\ \E to \in {"idle", "store", "fill", "choose", "free_old", "find"} :
             pc' = [pc EXCEPT ![th] = to]
    BY <1>1, FaultStep DEF ReadOld, Store, Fill, Choose, SkipRecent, EndOfSet, WriterPc
  <2>2. FollowInv'
    BY <1>0, <2>1 DEF TaskInv, FollowInv, TypeOK
  <2>3. \/ pc'["mqtt"] = pc["mqtt"] /\ at'["mqtt"] = at["mqtt"]
        \/ {pc["mqtt"], pc'["mqtt"]} \cap RequestPc = {}
    BY <1>0, <2>1 DEF TypeOK, RequestPc, WriterPc
  <2> QED BY <1>0, <2>1, <2>2, <2>3, ListsKept
<1>6. ASSUME NEW th \in Writer, Execute(th) PROVE TaskInv'
  <2>1. /\ UNCHANGED <<observers, made, freed, ended, deleted, armed, at>>
        /\ pc[th] = "found" /\ pc' = [pc EXCEPT ![th] = "in_task"]
        /\ running = NoTask /\ running' = at[th] /\ at[th] \notin freed
    BY <1>6, FaultStep DEF Execute, Timer!RunNow
  <2>2. pc["sched"] # "in_task"
    BY <1>0, <2>1, NoTasks DEF ThreadInv
  <2>3. FollowInv'
    BY <1>0, <2>1, <2>2 DEF TaskInv, FollowInv, TypeOK, ThreadInv
  <2>4. \/ pc'["mqtt"] = pc["mqtt"] /\ at'["mqtt"] = at["mqtt"]
        \/ {pc["mqtt"], pc'["mqtt"]} \cap RequestPc = {}
    BY <1>0, <2>1 DEF TypeOK, RequestPc
  <2> QED BY <1>0, <2>1, <2>3, <2>4, ListsKept
<1>8. ASSUME NEW th \in Writer, NEW x \in Subscription, Find(th, x) PROVE TaskInv'
  <2>1. PICK t : t = lfind(observers[x[1]], x[2], NoTask)
    OBVIOUS
  <2>2. /\ UNCHANGED <<observers, made, freed, ended, deleted, armed, running>>
        /\ pc[th] = "find" /\ at' = [at EXCEPT ![th] = t]
        /\ Go(th, IF t = NoTask THEN "find" ELSE "found")
    BY <1>0, <1>8, <2>1, FaultStep DEF Find, TypeOK
  <2>3. WellListed(x[1])
    BY <1>0 DEF TaskInv, Subscription
  <2>4. t # NoTask => t \in NotifyTask /\ t \notin freed /\ t \in made
    BY <1>0, <2>1, <2>3, Found DEF TaskInv, ListInv
  <2>5. FollowInv'
    BY <1>0, <2>2, <2>4 DEF TaskInv, FollowInv, TypeOK
  <2>6. \/ pc'["mqtt"] = pc["mqtt"] /\ at'["mqtt"] = at["mqtt"]
        \/ {pc["mqtt"], pc'["mqtt"]} \cap RequestPc = {}
    BY <1>0, <2>2 DEF TypeOK, RequestPc
  <2> QED BY <1>0, <2>2, <2>5, <2>6, ListsKept
<1>9. ASSUME NEW th \in Thread, TaskReturns(th) PROVE TaskInv'
  <2>1. /\ UNCHANGED <<observers, made, freed, ended, deleted, armed>>
        /\ pc[th] = "in_task" /\ at' = [at EXCEPT ![th] = NoTask]
        /\ pc' = [pc EXCEPT ![th] = IF th = "sched" THEN "idle" ELSE "find"]
    BY <1>9, FaultStep DEF TaskReturns, Timer!Return
  <2>2. \A u \in Thread : pc'[u] # "in_task"
    BY <1>0, <2>1 DEF TypeOK, ThreadInv
  <2>3. FollowInv'
    BY <1>0, <2>1, <2>2 DEF TaskInv, FollowInv, TypeOK
  <2>4. \/ pc'["mqtt"] = pc["mqtt"] /\ at'["mqtt"] = at["mqtt"]
        \/ {pc["mqtt"], pc'["mqtt"]} \cap RequestPc = {}
    BY <1>0, <2>1 DEF TypeOK, RequestPc
  <2> QED BY <1>0, <2>1, <2>3, <2>4, ListsKept
<1>10. ASSUME FreeOld PROVE TaskInv'
  <2>1. /\ UNCHANGED <<observers, made, freed, ended, deleted, armed, running, at>>
        /\ pc["mqtt"] = "free_old" /\ pc' = [pc EXCEPT !["mqtt"] = "find"]
    BY <1>10 DEF FreeOld
  <2>2. FollowInv'
    BY <1>0, <2>1 DEF TaskInv, FollowInv, TypeOK
  <2>3. {pc["mqtt"], pc'["mqtt"]} \cap RequestPc = {}
    BY <1>0, <2>1 DEF TypeOK, RequestPc
  <2> QED BY <1>0, <2>1, <2>2, <2>3, ListsKept
<1>11. ASSUME Enter PROVE TaskInv'
  <2>0. PICK t \in NotifyTask : t = at["mqtt"]
    BY <1>0, <1>11, <1>a DEF Enter, ThreadInv
  <2> DEFINE l == observers[t[1]]
  <2>1. /\ t[1] \in Target /\ t[2] \in Nat /\ l \in ListOf(Nat, NotifyTask)
        /\ WellListed(t[1]) /\ ~Listed(t) /\ t \notin freed /\ t \in made
    BY <1>0, <1>11, <1>a, <2>0, TaskParts
       DEF Enter, ObserveAssumption, TypeOK, TaskInv, RequestInv
  <2>2. /\ observers' = [observers EXCEPT ![t[1]] = ladd(l, t[2], t)]
        /\ pc["mqtt"] = "enter" /\ Go("mqtt", "idle") /\ at' = [at EXCEPT !["mqtt"] = NoTask]
        /\ UNCHANGED <<made, freed, ended, deleted, armed, running>>
    BY <1>11, <2>0 DEF Enter
  <2>a. pc'["mqtt"] = "idle" /\ at'["mqtt"] = NoTask
    BY <1>0, <2>2 DEF TypeOK
  <2>3. /\ Values(ladd(l, t[2], t)) = Values(l) \cup {t}
        /\ DistinctValues(ladd(l, t[2], t))
    BY <2>1, LaddValues, LaddDistinctValues DEF WellListed, Listed
  <2>4. \A u \in NotifyTask : Listed(u)' <=> Listed(u) \/ u = t
    BY <1>0, <2>1, <2>2, <2>3, TaskParts DEF TypeOK, Listed
  <2>5. \A x \in Target : WellListed(x)'
    <3>1. \A i \in DOMAIN ladd(l, t[2], t).elems :
            /\ ladd(l, t[2], t).elems[i].value[1] = t[1]
            /\ ladd(l, t[2], t).elems[i].value[2] = ladd(l, t[2], t).elems[i].key
      BY <2>1, EnteredTask DEF WellListed
    <3>2. WellListed(t[1])'
      BY <1>0, <2>1, <2>2, <2>3, <3>1 DEF TypeOK, WellListed
    <3>3. ASSUME NEW x \in Target, x # t[1] PROVE WellListed(x)'
      BY <1>0, <2>2, <3>3 DEF TypeOK, TaskInv, WellListed
    <3> QED BY <3>2, <3>3
  <2>6. CalledOff = freed \cup ended /\ CalledOff' = CalledOff
    BY <2>2, <2>a DEF CalledOff
  <2>7. ListedInv'
    <3>1. \A u \in made \cap NotifyTask : Listed(u)' <=> Listed(u) \/ u = t
      BY <1>0, <2>4 DEF TypeOK
    <3>2. t \notin freed \cup ended
      BY <1>0, <2>1, UpdateParts DEF TypeOK
    <3> QED BY <1>0, <2>0, <2>1, <2>2, <2>a, <2>6, <3>1, <3>2 DEF TaskInv, ListedInv, Listed, Gone
  <2>8. ListInv'
    BY <1>0, <2>1, <2>2, <2>4 DEF TaskInv, ListInv
  <2>9. RequestInv' /\ FollowInv'
    BY <1>0, <2>2, <2>a DEF TaskInv, RequestInv, FollowInv, TypeOK, RequestPc
  <2> QED BY <1>0, <2>2, <2>5, <2>6, <2>7, <2>8, <2>9, CountKept DEF TaskInv
<1>12. ASSUME Cancel PROVE TaskInv'
  <2>0. PICK t \in NotifyTask : t = at["mqtt"]
    BY <1>0, <1>12, <1>a DEF Cancel, ThreadInv
  <2>1. /\ Timer!Disarm(t) /\ pc["mqtt"] = "cancel" /\ pc' = [pc EXCEPT !["mqtt"] = "unlist"]
        /\ UNCHANGED <<at, observers, made, freed, ended, deleted>>
    BY <1>12, <2>0 DEF Cancel
  <2>a. pc'["mqtt"] = "unlist" /\ at'["mqtt"] = t
    BY <1>0, <2>0, <2>1 DEF TypeOK
  <2>2. t \in made /\ t \notin CalledOff /\ CalledOff' = CalledOff \cup {t}
    <3>1. t \in made /\ t \notin freed /\ t \notin ended
      BY <1>0, <1>a, <2>0, <2>1, UpdateParts DEF TaskInv, RequestInv, TypeOK
    <3>2. CalledOff = freed \cup ended /\ CalledOff' = freed \cup ended \cup {t}
      BY <2>1, <2>a DEF CalledOff
    <3> QED BY <3>1, <3>2
  <2>3. running = NoTask /\ running' = NoTask /\ MadeInv' /\ ArmedInv' /\ CountInv'
    BY <1>0, <2>1, <2>2, OneTakenOff
  <2>5. ListInv' /\ \A x \in Target : WellListed(x)'
    BY <1>0, <2>1 DEF TaskInv, ListInv, Listed, WellListed
  <2>7. ListedInv'
    BY <1>0, <2>0, <2>1, <2>2, <2>a DEF TaskInv, ListedInv, Gone
  <2>8. RequestInv'
    BY <1>0, <1>a, <2>0, <2>1, <2>a DEF TaskInv, RequestInv, Listed, Gone
  <2>9. FollowInv'
    <3>1. \A th \in Thread : pc[th] # "in_task" /\ pc'[th] # "in_task"
      BY <1>0, <2>1, <2>3, NoTasks DEF ThreadInv, TypeOK
    <3> QED BY <1>0, <2>1, <3>1 DEF TaskInv, FollowInv, TypeOK
  <2> QED BY <2>3, <2>5, <2>7, <2>8, <2>9 DEF TaskInv
<1>13. ASSUME Unlist PROVE TaskInv'
  <2>0. PICK t \in NotifyTask : t = at["mqtt"]
    BY <1>0, <1>13, <1>a DEF Unlist, ThreadInv
  <2> DEFINE l == observers[t[1]]
  <2>1. /\ t[1] \in Target /\ l \in ListOf(Nat, NotifyTask)
        /\ WellListed(t[1]) /\ t \notin freed /\ t \in made /\ ~Gone(t[1])
        /\ t[2] \in Keys(l) /\ t = lfind(l, t[2], NoTask)
    BY <1>0, <1>13, <1>a, <2>0, TaskParts DEF Unlist, TypeOK, TaskInv, RequestInv
  <2>2. /\ observers' = [observers EXCEPT ![t[1]] = lremove(l, t[2])]
        /\ pc["mqtt"] = "unlist" /\ Go("mqtt", "free")
        /\ UNCHANGED <<at, made, freed, ended, deleted, armed, running>>
    BY <1>13, <2>0 DEF Unlist, Unlisted
  <2>a. pc'["mqtt"] = "free" /\ at'["mqtt"] = t
    BY <1>0, <2>0, <2>2 DEF TypeOK
  <2>3. /\ Values(lremove(l, t[2])) = Values(l) \ {t}
        /\ DistinctValues(lremove(l, t[2]))
        /\ \A i \in DOMAIN lremove(l, t[2]).elems :
             \E j \in DOMAIN l.elems : lremove(l, t[2]).elems[i] = l.elems[j]
    BY <2>1, LremoveTakesFound DEF WellListed
  <2>4. \A u \in NotifyTask : Listed(u)' <=> Listed(u) /\ u # t
    BY <1>0, <2>1, <2>2, <2>3, TaskParts DEF TypeOK, Listed
  <2>5. \A x \in Target : WellListed(x)'
    <3>1. \A i \in DOMAIN lremove(l, t[2]).elems :
            /\ lremove(l, t[2]).elems[i].value[1] = t[1]
            /\ lremove(l, t[2]).elems[i].value[2] = lremove(l, t[2]).elems[i].key
      BY <2>1, <2>3 DEF WellListed
    <3>2. WellListed(t[1])'
      BY <1>0, <2>1, <2>2, <2>3, <3>1 DEF TypeOK, WellListed
    <3>3. ASSUME NEW x \in Target, x # t[1] PROVE WellListed(x)'
      BY <1>0, <2>2, <3>3 DEF TypeOK, TaskInv, WellListed
    <3> QED BY <3>2, <3>3
  <2>6. CalledOff = freed \cup ended \cup {t} /\ CalledOff' = CalledOff
    BY <2>0, <2>2, <2>a DEF CalledOff
  <2>7. ListedInv'
    <3>1. \A u \in made \cap NotifyTask : Listed(u)' <=> Listed(u) /\ u # t
      BY <1>0, <2>4 DEF TypeOK
    <3> QED BY <1>0, <2>0, <2>1, <2>2, <2>6, <3>1 DEF TaskInv, ListedInv, Listed, Gone
  <2>8. ListInv'
    BY <1>0, <2>2, <2>4 DEF TaskInv, ListInv
  <2>9. RequestInv' /\ FollowInv'
    BY <1>0, <1>a, <2>0, <2>1, <2>2, <2>4, <2>a DEF TaskInv, RequestInv, FollowInv, Gone, TypeOK
  <2> QED BY <1>0, <2>2, <2>5, <2>6, <2>7, <2>8, <2>9, CountKept DEF TaskInv
<1>14. ASSUME FreeTask PROVE TaskInv'
  <2>0. PICK t \in NotifyTask : t = at["mqtt"]
    BY <1>0, <1>14, <1>a DEF FreeTask, ThreadInv
  <2>1. /\ freed' = freed \cup {t} /\ at' = [at EXCEPT !["mqtt"] = NoTask]
        /\ pc["mqtt"] = "free" /\ pc' = [pc EXCEPT !["mqtt"] = "idle"]
        /\ UNCHANGED <<observers, made, ended, deleted, armed, running>>
    BY <1>14, <2>0 DEF FreeTask
  <2>a. pc'["mqtt"] = "idle" /\ at'["mqtt"] = NoTask /\ ~Listed(t)
    BY <1>0, <2>0, <2>1 DEF TypeOK, TaskInv, RequestInv
  <2>2. CalledOff = freed \cup ended \cup {t} /\ CalledOff' = CalledOff
    BY <2>0, <2>1, <2>a DEF CalledOff
  <2>3. ListInv' /\ \A x \in Target : WellListed(x)'
    BY <1>0, <2>1, <2>a DEF TaskInv, ListInv, Listed, WellListed
  <2>4. ListedInv'
    BY <1>0, <2>1, <2>2 DEF TaskInv, ListedInv, Gone
  <2>5. RequestInv' /\ FollowInv'
    BY <1>0, <2>1, <2>a DEF TaskInv, RequestInv, FollowInv, RequestPc, TypeOK
  <2> QED BY <1>0, <2>1, <2>2, <2>3, <2>4, <2>5, CountKept DEF TaskInv
<1>15. ASSUME Delete PROVE TaskInv'
  <2>1. /\ observers' = [x \in Target |-> IF x = "object" THEN observers[x] ELSE NewList]
        /\ pc["mqtt"] = "idle" /\ deleted'
        /\ UNCHANGED <<pc, at, made, freed, ended, armed, running>>
    BY <1>15 DEF Delete
  <2>2. DistinctValues(NewList) /\ Values(NewList) = {} /\ DOMAIN NewList.elems = {}
    BY DEF NewList, DistinctValues, Values
  <2>3. \A u \in NotifyTask : Listed(u)' <=> Listed(u) /\ u[1] = "object"
    BY <2>1, <2>2, TaskParts DEF Listed
  <2>4. \A x \in Target : WellListed(x)'
    BY <1>0, <2>1, <2>2 DEF TaskInv, WellListed
  <2>5. CalledOff = freed \cup ended /\ CalledOff' = CalledOff
    BY <2>1 DEF CalledOff
  <2>6. ListedInv'
    <3>1. \A u \in made \cap NotifyTask : Listed(u)' <=> Listed(u) /\ u[1] = "object"
      BY <1>0, <2>3 DEF TypeOK
    <3> QED BY <1>0, <2>1, <2>5, <3>1 DEF TaskInv, ListedInv, Listed, Gone
  <2>7. ListInv'
    BY <1>0, <2>1, <2>3 DEF TaskInv, ListInv
  <2>8. RequestInv' /\ FollowInv'
    BY <1>0, <2>1 DEF TaskInv, RequestInv, FollowInv, RequestPc
  <2> QED BY <1>0, <2>1, <2>4, <2>5, <2>6, <2>7, <2>8, CountKept DEF TaskInv
<1>16. ASSUME ObserveWithoutPmax PROVE FALSE
  BY <1>16, FaultStep DEF ObserveWithoutPmax
<1>17. ASSUME NEW x \in Subscription, Observe(x) PROVE TaskInv'
  <2>1. PICK t \in NotifyTask : /\ ~Gone(t[1]) /\ t[3] = Cardinality(made) + 1 /\ t \notin made
                          /\ Timer!Arm(t) /\ at' = [at EXCEPT !["mqtt"] = t]
                          /\ made' = made \cup {t}
    BY <1>0, <1>17, NewTask
  <2>2. /\ pc["mqtt"] = "idle" /\ pc' = [pc EXCEPT !["mqtt"] = "enter"]
        /\ Cardinality(made) < MaxTasks /\ UNCHANGED <<observers, freed, ended, deleted>>
    BY <1>17 DEF Observe
  <2>a. pc'["mqtt"] = "enter" /\ at'["mqtt"] = t
    BY <1>0, <2>1, <2>2 DEF TypeOK
  <2>3. /\ running = NoTask /\ running' = NoTask /\ Values(armed') = Values(armed) \cup {t}
        /\ KeyedBy(armed', IdOf) /\ DistinctValues(armed')
    BY <1>0, <2>1, TaskParts, ArmStep DEF TaskInv, ArmedInv
  <2>4. MadeInv'
    BY <1>0, <2>1, <2>2, TaskParts, MadeOne DEF TaskInv
  <2>5. CalledOff = freed \cup ended /\ CalledOff' = CalledOff
    BY <2>2, <2>a DEF CalledOff
  <2>6. ArmedInv' /\ CountInv'
    <3>1. made' \ Values(armed') = made \ Values(armed)
      BY <2>1, <2>3
    <3> QED BY <1>0, <2>1, <2>3, <2>5, <3>1 DEF TaskInv, ArmedInv, CountInv
  <2>7. ~Listed(t) /\ t \notin freed
    BY <1>0, <2>1 DEF TaskInv, ListInv, TypeOK
  <2>8. ListInv' /\ \A y \in Target : WellListed(y)'
    BY <1>0, <2>1, <2>2 DEF TaskInv, ListInv, Listed, WellListed
  <2>9. ListedInv'
    BY <1>0, <2>1, <2>2, <2>5, <2>a DEF TaskInv, ListedInv, Gone
  <2>10. RequestInv'
    BY <2>1, <2>2, <2>7, <2>a DEF RequestInv, Listed, Gone
  <2>11. FollowInv'
    <3>1. \A th \in Thread : pc[th] # "in_task" /\ pc'[th] # "in_task"
      BY <1>0, <2>2, <2>3, NoTasks DEF ThreadInv, TypeOK
    <3> QED BY <1>0, <2>1, <2>2, <3>1 DEF TaskInv, FollowInv, TypeOK
  <2> QED BY <2>4, <2>6, <2>8, <2>9, <2>10, <2>11 DEF TaskInv
<1>18. ASSUME NEW x \in Subscription, CancelObserve(x) PROVE TaskInv'
  <2>0. PICK y \in Subscription : y = Resolved(x) /\ ~Gone(y[1]) /\ WellListed(y[1])
    BY <1>0, ResolvedType DEF TaskInv
  <2>1. PICK t : t = lfind(observers[y[1]], y[2], NoTask)
    OBVIOUS
  <2>2. ~ Fail("mqtt", "null")
    BY FaultStep
  <2>3. /\ t # NoTask /\ pc["mqtt"] = "idle" /\ pc' = [pc EXCEPT !["mqtt"] = "cancel"]
        /\ at' = [at EXCEPT !["mqtt"] = t]
        /\ UNCHANGED <<observers, made, freed, ended, deleted, armed, running>>
    BY <1>18, <2>0, <2>1, <2>2 DEF CancelObserve
  <2>4. /\ t \in NotifyTask /\ t[1] = y[1] /\ t[2] = y[2] /\ Listed(t)
        /\ y[2] \in Keys(observers[y[1]])
    BY <1>0, <2>0, <2>1, <2>3, Found
  <2>5. t \notin freed /\ t \in made
    BY <1>0, <2>4 DEF TaskInv, ListInv
  <2>a. pc'["mqtt"] = "cancel" /\ at'["mqtt"] = t
    BY <1>0, <2>3 DEF TypeOK
  <2>6. CalledOff = freed \cup ended /\ CalledOff' = CalledOff
    BY <2>3, <2>a DEF CalledOff
  <2>7. ListInv' /\ \A z \in Target : WellListed(z)'
    BY <1>0, <2>3 DEF TaskInv, ListInv, Listed, WellListed
  <2>8. ListedInv'
    BY <1>0, <2>3, <2>6 DEF TaskInv, ListedInv, Gone
  <2>9. RequestInv'
    BY <2>0, <2>1, <2>3, <2>4, <2>5, <2>a DEF RequestInv, Gone
  <2>10. FollowInv'
    BY <1>0, <2>3 DEF TaskInv, FollowInv, TypeOK
  <2> QED BY <1>0, <2>3, <2>6, <2>7, <2>8, <2>9, <2>10, CountKept DEF TaskInv
<1>19. ASSUME NEW t \in NotifyTask, Fire(t) PROVE TaskInv'
  <2>1. /\ UNCHANGED <<observers, made, freed, ended, deleted, armed, at>>
        /\ pc["sched"] = "idle" /\ pc' = [pc EXCEPT !["sched"] = "in_task"]
        /\ running = NoTask /\ running' = t /\ t \in Values(armed)
    BY <1>19, FaultStep, TimerLists DEF Fire, Timer!Fire
  <2>2. FollowInv'
    BY <1>0, <2>1, NoTasks DEF TaskInv, ArmedInv, FollowInv, ThreadInv, TypeOK
  <2>3. pc'["mqtt"] = pc["mqtt"] /\ at'["mqtt"] = at["mqtt"]
    BY <1>0, <2>1 DEF TypeOK
  <2> QED BY <1>0, <2>1, <2>2, <2>3, ListsKept
<1>20. ASSUME NEW s \in Server, OnRegister(s) PROVE TaskInv'
  <2>1. PICK t \in UpdateTask : /\ t[3] = Cardinality(made) + 1 /\ t \notin made
                                /\ Timer!Arm(t) /\ made' = made \cup {t}
    BY <1>0, <1>20, NewUpdateTask
  <2>2. /\ Cardinality(made) < MaxTasks
        /\ UNCHANGED <<pc, at, observers, freed, ended, deleted>>
    BY <1>20 DEF OnRegister
  <2>3. t \in Task /\ t \notin NotifyTask
    BY UpdateParts
  <2>4. /\ running = NoTask /\ running' = NoTask /\ Values(armed') = Values(armed) \cup {t}
        /\ KeyedBy(armed', IdOf) /\ DistinctValues(armed')
    BY <1>0, <2>1, <2>3, ArmStep DEF TaskInv, ArmedInv
  <2>5. MadeInv'
    BY <1>0, <2>1, <2>2, <2>3, MadeOne DEF TaskInv
  <2>6. CalledOff' = CalledOff
    BY <2>2 DEF CalledOff
  <2>7. ArmedInv' /\ CountInv'
    <3>1. made' \ Values(armed') = made \ Values(armed)
      BY <2>1, <2>4
    <3> QED BY <1>0, <2>1, <2>4, <2>6, <3>1 DEF TaskInv, ArmedInv, CountInv
  <2>8. ListInv' /\ \A y \in Target : WellListed(y)'
    BY <1>0, <2>1, <2>2 DEF TaskInv, ListInv, Listed, WellListed
  <2>9. ListedInv'
    BY <1>0, <2>1, <2>2, <2>3, <2>6 DEF TaskInv, ListedInv, Gone
  <2>10. RequestInv'
    BY <1>0, <2>1, <2>2 DEF TaskInv, RequestInv, Listed, Gone
  <2>11. FollowInv'
    BY <1>0, <2>1, <2>2, <2>4 DEF TaskInv, FollowInv
  <2> QED BY <2>5, <2>7, <2>8, <2>9, <2>10, <2>11 DEF TaskInv
<1>21. ASSUME NEW s \in Server, Deregister(s) PROVE TaskInv'
  <2>1. PICK t \in made \cap UpdateTask :
          t[2] = s /\ Timer!Disarm(t) /\ ended' = ended \cup {t}
    BY <1>21 DEF Deregister
  <2>2. Serves(s) /\ UNCHANGED <<pc, at, observers, made, freed, deleted>>
    BY <1>21 DEF Deregister
  <2>3. t \notin NotifyTask
    BY <2>1, UpdateParts
  <2>4. t \notin CalledOff /\ CalledOff' = CalledOff \cup {t}
    <3>1. t \notin freed /\ t \notin ended
      BY <1>0, <2>1, <2>2, <2>3 DEF TypeOK, Serves
    <3>2. pc["mqtt"] \in {"unlist", "free"} => at["mqtt"] \in NotifyTask
      BY <1>0, <1>a DEF ThreadInv
    <3> QED BY <2>1, <2>2, <2>3, <3>1, <3>2 DEF CalledOff
  <2>5. running = NoTask /\ running' = NoTask /\ MadeInv' /\ ArmedInv' /\ CountInv'
    BY <1>0, <2>1, <2>2, <2>4, OneTakenOff
  <2>6. ListInv' /\ \A x \in Target : WellListed(x)'
    BY <1>0, <2>2 DEF TaskInv, ListInv, Listed, WellListed
  <2>7. ListedInv'
    BY <1>0, <2>2, <2>3, <2>4 DEF TaskInv, ListedInv, Gone
  <2>8. RequestInv'
    BY <1>0, <2>2 DEF TaskInv, RequestInv, Listed, Gone
  <2>9. FollowInv'
    <3>1. pc["sched"] # "in_task"
      BY <1>0, <2>5, NoTasks DEF ThreadInv, Thread
    <3> QED BY <1>0, <2>2, <2>5, <3>1, NoTasks DEF TaskInv, FollowInv, ThreadInv
  <2> QED BY <2>5, <2>6, <2>7, <2>8, <2>9 DEF TaskInv
<1> QED BY <1>1, <1>6, <1>8, <1>9, <1>10, <1>11, <1>12, <1>13, <1>14, <1>15, <1>16, <1>17,
          <1>18, <1>19, <1>20, <1>21, Steps

LEMMA AskedStep ==
  ASSUME ObserveAssumption, Inv, Next, fault' = NoFault PROVE AskedInv'
<1> USE DEF localVars, taskVars, valueVars, timerVars
<1>0. TypeOK /\ ThreadInv /\ TaskInv /\ AskedInv
  BY DEF Inv
<1>1. ASSUME UNCHANGED <<made, freed, asked>> PROVE AskedInv'
  BY <1>0, <1>1 DEF AskedInv, Live
<1>2. ASSUME FreeTask PROVE AskedInv'
  <2>1. PICK t \in NotifyTask : t = at["mqtt"]
    BY <1>0, <1>2 DEF FreeTask, ThreadInv, RequestPc
  <2>2. /\ freed' = freed \cup {t} /\ asked' = [asked EXCEPT ![Of(t)] = @ - 1]
        /\ UNCHANGED made
    BY <1>2, <2>1 DEF FreeTask
  <2>3. t \notin freed /\ t \in made
    BY <1>0, <1>2, <2>1 DEF FreeTask, TaskInv, RequestInv, RequestPc
  <2>4. ASSUME NEW x \in Subscription, x # Of(t) PROVE asked'[x] = Cardinality(Live(x)')
    <3>1. Live(x)' = Live(x)
      BY <2>2, <2>4 DEF Live, Of
    <3> QED BY <1>0, <2>2, <2>4, <3>1 DEF TypeOK, AskedInv
  <2>5. asked'[Of(t)] = Cardinality(Live(Of(t))')
    <3>1. PICK x \in Subscription : x = Of(t)
      BY TaskParts
    <3>2. t \in Live(x) /\ IsFiniteSet(Live(x))
      BY <1>0, <2>3, <3>1, LiveTask DEF TaskInv
    <3>3. Live(x)' = Live(x) \ {t}
      BY <2>2 DEF Live, Of
    <3>4. Cardinality(Live(x) \ {t}) = Cardinality(Live(x)) - 1
      BY <3>2, FS_RemoveElement
    <3>5. Live(Of(t))' = Live(x)'
      BY <3>1 DEF Live, Of
    <3> QED BY <1>0, <2>2, <3>1, <3>3, <3>4, <3>5 DEF TypeOK, AskedInv
  <2> QED BY <2>4, <2>5 DEF AskedInv
<1>3. ASSUME NEW x \in Subscription, Observe(x) PROVE AskedInv'
  <2>1. PICK y \in Subscription, t \in NotifyTask :
          y = Resolved(x) /\ Of(t) = y /\ t \notin made /\ made' = made \cup {t}
    BY <1>0, <1>3, NewTask, ResolvedType
  <2>2. asked' = [asked EXCEPT ![y] = @ + 1] /\ UNCHANGED freed
    BY <1>3, <2>1 DEF Observe
  <2>3. ASSUME NEW w \in Subscription, w # y PROVE asked'[w] = Cardinality(Live(w)')
    <3>1. Live(w)' = Live(w)
      BY <2>1, <2>2, <2>3 DEF Live, Of
    <3> QED BY <1>0, <2>2, <2>3, <3>1 DEF TypeOK, AskedInv
  <2>4. asked'[y] = Cardinality(Live(y)')
    <3>1. t \notin freed
      BY <1>0, <2>1 DEF TypeOK
    <3>2. Live(y)' = Live(y) \cup {t} /\ t \notin Live(y)
      BY <2>1, <2>2, <3>1 DEF Live, Of
    <3>3. IsFiniteSet(Live(y))
      BY <1>0, AskedBound DEF TaskInv
    <3>4. Cardinality(Live(y) \cup {t}) = Cardinality(Live(y)) + 1
      BY <3>2, <3>3, FS_AddElement
    <3> QED BY <1>0, <2>2, <3>2, <3>4 DEF TypeOK, AskedInv
  <2> QED BY <2>3, <2>4 DEF AskedInv
<1>5. ASSUME NEW s \in Server, OnRegister(s) PROVE AskedInv'
  <2>1. PICK t \in UpdateTask : made' = made \cup {t}
    BY <1>0, <1>5, NewUpdateTask
  <2>2. UNCHANGED <<freed, asked>>
    BY <1>5 DEF OnRegister
  <2>3. \A x \in Subscription : Of(t) # x
    BY UpdateParts
  <2>4. \A x \in Subscription : Live(x)' = Live(x)
    BY <2>1, <2>2, <2>3 DEF Live, Of
  <2> QED BY <1>0, <2>2, <2>4 DEF AskedInv
<1>4. \/ FreeTask \/ (\E x \in Subscription : Observe(x))
      \/ (\E s \in Server : OnRegister(s)) \/ UNCHANGED <<made, freed, asked>>
  BY Steps, ZenonT(60) DEF ReadOld, Store, Fill, Choose, SkipRecent, Execute, EndOfSet, Find,
     TaskReturns,
     FreeOld, Enter, Cancel, Unlist, Delete, ObserveWithoutPmax, CancelObserve, Deregister,
     Fire, Fail
<1> QED BY <1>1, <1>2, <1>3, <1>4, <1>5

(* A thread that comes to a place or leaves it changes how many are there. *)
LEMMA CountMoves ==
  ASSUME TypeOK, NEW th \in Writer, NEW to, pc' = [pc EXCEPT ![th] = to], NEW label
  PROVE  /\ to # label /\ pc[th] # label => Cardinality(At(label))' = Cardinality(At(label))
         /\ to = label /\ pc[th] # label =>
              Cardinality(At(label))' = Cardinality(At(label)) + 1
         /\ to # label /\ pc[th] = label =>
              Cardinality(At(label))' = Cardinality(At(label)) - 1
<1>1. pc'[th] = to /\ \A u \in Writer \ {th} : pc'[u] = pc[u]
  BY DEF TypeOK, Thread, Writer
<1>2. IsFiniteSet(At(label))
  BY CountAt
<1>3. CASE to # label /\ pc[th] # label
  BY <1>1, <1>3 DEF At
<1>4. CASE to = label /\ pc[th] # label
  <2>1. At(label)' = At(label) \cup {th} /\ th \notin At(label)
    BY <1>1, <1>4 DEF At
  <2> QED BY <1>2, <1>4, <2>1, FS_AddElement
<1>5. CASE to # label /\ pc[th] = label
  <2>1. At(label)' = At(label) \ {th} /\ th \in At(label)
    BY <1>1, <1>5 DEF At
  <2> QED BY <1>2, <1>5, <2>1, FS_RemoveElement
<1> QED BY <1>3, <1>4, <1>5

LEMMA OtherMoves ==
  ASSUME TypeOK, NEW th \in Thread, NEW to, pc' = [pc EXCEPT ![th] = to],
         {pc[th], to} \cap {"store", "fill"} = {}
  PROVE  /\ At("store")' = At("store") /\ At("fill")' = At("fill")
         /\ pc'["mqtt"] = IF th = "mqtt" THEN to ELSE pc["mqtt"]
<1>1. \A u \in Thread : pc'[u] = IF u = th THEN to ELSE pc[u]
  BY DEF TypeOK
<1>2. Writer \subseteq Thread /\ "mqtt" \in Thread
  BY DEF Writer, Thread
<1>3. \A u \in Writer : /\ pc'[u] = "store" <=> pc[u] = "store"
                       /\ pc'[u] = "fill" <=> pc[u] = "fill"
  BY <1>1, <1>2
<1> QED BY <1>1, <1>2, <1>3 DEF At

(* A step that leaves memory alone, and does not bring a thread to or from  *)
(* a place where it is about to change it.                                 *)
LEMMA MemoryKept ==
  ASSUME TypeOK, ValueInv, UNCHANGED <<valueVars, held, reading, last>>,
         NEW th \in Thread, NEW to, pc' = [pc EXCEPT ![th] = to],
         pc[th] \notin {"store", "fill"}, to \notin {"store", "fill", "choose", "in_task"},
         to = "free_old" => pc[th] = "choose"
  PROVE  ValueInv'
<1>1. /\ At("store")' = At("store") /\ At("fill")' = At("fill")
      /\ pc'["mqtt"] = IF th = "mqtt" THEN to ELSE pc["mqtt"]
  BY OtherMoves
<1> QED BY <1>1 DEF ValueInv, valueVars, Oldest

LEMMA ValueStep ==
  ASSUME ObserveAssumption, Inv, Next, fault' = NoFault PROVE ValueInv'
<1> USE DEF localVars, taskVars, valueVars, timerVars, Go
<1>0. TypeOK /\ ThreadInv /\ ValueInv
  BY DEF Inv
<1>a. /\ value \in 0..MaxSets /\ sets \in 0..MaxSets /\ MaxSets \in Nat /\ Pointer = 0..MaxSets
      /\ memory \in [Pointer -> {Unallocated, Uninit, Freed} \cup (0..MaxSets)]
      /\ last \in [Server -> 0..MaxSets] /\ reading \in Pointer \cup {Null}
      /\ held \in [Thread -> Pointer] /\ pc \in [Thread -> WriterPc \cup RequestPc]
      /\ {Unallocated, Uninit, Freed} \cap Nat = {} /\ Null \notin Pointer
      /\ Unallocated \notin {Uninit, Freed} /\ Uninit # Freed
  BY <1>0 DEF TypeOK, Pointer, ObserveAssumption
<1>b. /\ Cardinality(At("store")) \in Nat /\ Cardinality(At("fill")) \in Nat
      /\ \A th \in Writer : pc[th] = "store" => Cardinality(At("store")) >= 1
      /\ \A th \in Writer : pc[th] = "fill" => Cardinality(At("fill")) >= 1
  BY CountAt
<1>1. ASSUME NEW th \in Writer, ReadOld(th) PROVE ValueInv'
  <2>1. {u \in Thread : pc[u] = "store"} = At("store")
    BY <1>0 DEF ThreadInv, At, Thread, Writer
  <2>2. /\ value + 1 + Cardinality(At("store")) <= MaxSets
        /\ pc[th] = "idle" /\ pc' = [pc EXCEPT ![th] = "store"]
        /\ held' = [held EXCEPT ![th] = value]
        /\ UNCHANGED <<value, memory, sets, reading, last>>
    BY <1>0, <1>1, <2>1, NextPointer DEF ReadOld
  <2>3. /\ Cardinality(At("store"))' = Cardinality(At("store")) + 1
        /\ Cardinality(At("fill"))' = Cardinality(At("fill"))
    BY <1>0, <2>2, CountMoves
  <2>4. th = "mqtt" => pc'["mqtt"] = "store" /\ held'["mqtt"] = value
    BY <1>a, <2>2 DEF Thread
  <2>5. th # "mqtt" => pc'["mqtt"] = pc["mqtt"] /\ held'["mqtt"] = held["mqtt"]
    BY <1>a, <2>2 DEF Thread
  <2> QED BY <1>0, <1>a, <1>b, <2>2, <2>3, <2>4, <2>5 DEF ValueInv, Oldest
<1>2. ASSUME NEW th \in Writer, Store(th) PROVE ValueInv'
  <2>1. /\ value' = value + 1 /\ memory' = [memory EXCEPT ![value + 1] = Uninit]
        /\ pc[th] = "store" /\ pc' = [pc EXCEPT ![th] = "fill"]
        /\ UNCHANGED <<held, sets, reading, last>>
    BY <1>0, <1>2, FaultStep, NextPointer DEF Store
  <2>2. Cardinality(At("store"))' = Cardinality(At("store")) - 1
    BY <1>0, <2>1, CountMoves
  <2>6. Cardinality(At("fill"))' = Cardinality(At("fill")) + 1
    BY <1>0, <2>1, CountMoves
  <2>3. value + 1 \in Pointer
    BY <1>0, <1>a, <1>b, <2>1 DEF ValueInv
  <2>4. /\ memory'[value + 1] = Uninit
        /\ \A p \in Pointer : p # value + 1 => memory'[p] = memory[p]
    BY <1>a, <2>1, <2>3
  <2>5. /\ th = "mqtt" => pc["mqtt"] = "store" /\ pc'["mqtt"] = "fill"
        /\ th # "mqtt" => pc'["mqtt"] = pc["mqtt"]
    BY <1>a, <2>1 DEF Thread
  <2>7. /\ \A p \in Pointer : memory'[p] = Unallocated <=> p > value'
        /\ value' + Cardinality(At("store"))' <= MaxSets
        /\ sets' + Cardinality(At("fill"))' = value'
        /\ reading' # Null => reading' <= value'
    BY <1>0, <1>a, <1>b, <2>1, <2>2, <2>3, <2>4, <2>5, <2>6, SMTT(60) DEF ValueInv
  <2>8. \A p \in Pointer : memory'[p] = Freed =>
        /\ p < value'
        /\ pc'["mqtt"] \in {"store", "fill", "choose", "free_old"} => p # held'["mqtt"]
        /\ pc'["mqtt"] = "in_task" => p # reading'
    BY <1>0, <1>a, <1>b, <2>1, <2>2, <2>3, <2>4, <2>5, <2>6 DEF ValueInv
  <2>9. /\ pc'["mqtt"] = "store" => held'["mqtt"] <= value'
        /\ pc'["mqtt"] \in {"fill", "choose", "free_old"} => held'["mqtt"] < value'
    BY <1>0, <1>a, <1>b, <2>1, <2>2, <2>3, <2>4, <2>5, <2>6, SMTT(30) DEF ValueInv, Thread
  <2>10. /\ \A p \in Pointer : memory'[p] \in Nat => memory'[p] <= sets'
        /\ \A p, q \in Pointer :
             p < q /\ memory'[p] \in Nat /\ memory'[q] \in Nat => memory'[p] <= memory'[q]
    <3>1. \A p \in Pointer : memory'[p] \in Nat => memory[p] \in Nat /\ memory'[p] = memory[p]
      BY <1>a, <2>4
    <3> QED BY <1>0, <2>1, <3>1 DEF ValueInv
  <2>11. \A s \in Server :
          /\ last'[s] <= sets'
          /\ \A q \in Pointer : q >= Oldest' /\ memory'[q] \in Nat => last'[s] <= memory'[q]
    BY <1>0, <1>a, <1>b, <2>1, <2>2, <2>3, <2>4, <2>5, <2>6, SMTT(60) DEF ValueInv, Oldest
  <2> QED BY <2>7, <2>8, <2>9, <2>10, <2>11 DEF ValueInv
<1>3. ASSUME NEW th \in Writer, Fill(th) PROVE ValueInv'
  <2>1. /\ sets' = sets + 1 /\ memory' = [memory EXCEPT ![value] = sets + 1]
        /\ pc[th] = "fill" /\ pc' = [pc EXCEPT ![th] = "choose"]
        /\ UNCHANGED <<held, value, reading, last>>
    BY <1>3, FaultStep DEF Fill
  <2>a. sets + 1 \in Nat /\ sets + 1 \notin {Unallocated, Freed}
    <3>1. sets + 1 \in Nat
      BY <1>a
    <3>2. Unallocated \notin Nat /\ Freed \notin Nat
      BY <1>a
    <3> QED BY <3>1, <3>2
  <2>2. /\ Cardinality(At("store"))' = Cardinality(At("store"))
        /\ Cardinality(At("fill"))' = Cardinality(At("fill")) - 1
    BY <1>0, <2>1, CountMoves
  <2>3. value \in Pointer
    BY <1>a
  <2>4. /\ memory'[value] = sets + 1
        /\ \A p \in Pointer : p # value => memory'[p] = memory[p]
    BY <1>a, <2>1, <2>3
  <2>5. /\ th = "mqtt" => pc["mqtt"] = "fill" /\ pc'["mqtt"] = "choose"
        /\ th # "mqtt" => pc'["mqtt"] = pc["mqtt"]
    BY <1>a, <2>1 DEF Thread
  <2>6. /\ \A p \in Pointer : memory'[p] = Unallocated <=> p > value'
        /\ value' + Cardinality(At("store"))' <= MaxSets
        /\ sets' + Cardinality(At("fill"))' = value'
        /\ reading' # Null => reading' <= value'
    BY <1>0, <1>a, <1>b, <2>1, <2>2, <2>3, <2>4, <2>5, <2>a DEF ValueInv
  <2>7. \A p \in Pointer : memory'[p] = Freed =>
        /\ p < value'
        /\ pc'["mqtt"] \in {"store", "fill", "choose", "free_old"} => p # held'["mqtt"]
        /\ pc'["mqtt"] = "in_task" => p # reading'
    BY <1>0, <1>a, <1>b, <2>1, <2>2, <2>3, <2>4, <2>5, <2>a DEF ValueInv
  <2>8. /\ pc'["mqtt"] = "store" => held'["mqtt"] <= value'
        /\ pc'["mqtt"] \in {"fill", "choose", "free_old"} => held'["mqtt"] < value'
    BY <1>0, <1>a, <1>b, <2>1, <2>2, <2>3, <2>4, <2>5, <2>a DEF ValueInv, Thread
  <2>9. /\ \A p \in Pointer : memory'[p] \in Nat => memory'[p] <= sets'
        /\ \A p, q \in Pointer :
             p < q /\ memory'[p] \in Nat /\ memory'[q] \in Nat => memory'[p] <= memory'[q]
    <3>1. \A p \in Pointer : p > value => memory'[p] \notin Nat
      BY <1>0, <1>a, <2>4 DEF ValueInv
    <3>2. \A p \in Pointer : p # value /\ memory'[p] \in Nat =>
            memory[p] \in Nat /\ memory'[p] = memory[p] /\ memory[p] <= sets
      BY <1>0, <2>4 DEF ValueInv
    <3>3. \A p, q \in Pointer :
            p < q /\ q # value /\ memory'[p] \in Nat /\ memory'[q] \in Nat =>
              memory'[p] <= memory'[q]
      BY <1>0, <1>a, <3>1, <3>2 DEF ValueInv
    <3>4. \A p \in Pointer : p # value /\ memory'[p] \in Nat => memory'[p] <= memory'[value]
      BY <1>a, <2>4, <3>2
    <3> QED BY <1>a, <2>1, <2>3, <2>4, <2>a, <3>2, <3>3, <3>4
  <2>10. \A s \in Server :
          /\ last'[s] <= sets'
          /\ \A q \in Pointer : q >= Oldest' /\ memory'[q] \in Nat => last'[s] <= memory'[q]
    BY <1>0, <1>a, <1>b, <2>1, <2>2, <2>3, <2>4, <2>5, <2>a DEF ValueInv, Oldest
  <2> QED BY <2>6, <2>7, <2>8, <2>9, <2>10 DEF ValueInv
<1>4. ASSUME NEW th \in Writer, Choose(th) PROVE ValueInv'
  <2>1. /\ pc[th] = "choose"
        /\ pc' = [pc EXCEPT ![th] = IF th = "mqtt" THEN "free_old" ELSE "find"]
        /\ UNCHANGED <<valueVars, held, reading, last>>
    BY <1>4, FaultStep DEF Choose
  <2> QED BY <1>0, <2>1, MemoryKept DEF Thread, Writer
<1>5. ASSUME NEW th \in Writer, SkipRecent(th) PROVE ValueInv'
  <2>1. /\ pc[th] = "found" /\ pc' = [pc EXCEPT ![th] = "find"]
        /\ UNCHANGED <<valueVars, held, reading, last>>
    BY <1>5 DEF SkipRecent
  <2> QED BY <1>0, <2>1, MemoryKept DEF Thread, Writer
<1>6. ASSUME NEW th \in Writer, Execute(th) PROVE ValueInv'
  <2>1. /\ reading' = value /\ pc[th] = "found" /\ pc' = [pc EXCEPT ![th] = "in_task"]
        /\ UNCHANGED <<valueVars, held, last>>
    BY <1>6, FaultStep DEF Execute, Reached
  <2>2. At("store")' = At("store") /\ At("fill")' = At("fill")
    BY <1>0, <2>1, OtherMoves DEF Thread, Writer
  <2>3. pc'["mqtt"] = pc["mqtt"] \/ pc'["mqtt"] = "in_task"
    BY <1>a, <2>1 DEF Thread
  <2> QED BY <1>0, <1>a, <2>1, <2>2, <2>3, SMTT(60) DEF ValueInv, Oldest
<1>7. ASSUME NEW th \in Writer, EndOfSet(th) PROVE ValueInv'
  <2>1. /\ pc[th] = "find" /\ pc' = [pc EXCEPT ![th] = "idle"]
        /\ UNCHANGED <<valueVars, held, reading, last>>
    BY <1>7 DEF EndOfSet
  <2> QED BY <1>0, <2>1, MemoryKept DEF Thread, Writer
<1>8. ASSUME NEW th \in Writer, NEW x \in Subscription, Find(th, x) PROVE ValueInv'
  <2>1. /\ pc[th] = "find" /\ UNCHANGED <<valueVars, held, reading, last>>
        /\ pc' = [pc EXCEPT ![th] = "find"] \/ pc' = [pc EXCEPT ![th] = "found"]
    BY <1>8, FaultStep DEF Find
  <2> QED BY <1>0, <2>1, MemoryKept DEF Thread, Writer
<1>9. ASSUME NEW th \in Thread, TaskReturns(th) PROVE ValueInv'
  <2>1. \A what \in {"task", "target", "value", "uninit"} : ~ Fail(th, what)
    BY FaultStep
  <2>2. /\ reading' = Null /\ UNCHANGED <<valueVars, held>> /\ pc[th] = "in_task"
        /\ pc' = [pc EXCEPT ![th] = IF th = "sched" THEN "idle" ELSE "find"]
        /\ last' = IF reading = Null THEN last
                   ELSE [last EXCEPT ![running[2]] = memory[reading]]
        /\ reading # Null => memory[reading] \notin {Freed, Uninit}
    BY <1>9, <2>1 DEF TaskReturns
  <2>3. At("store")' = At("store") /\ At("fill")' = At("fill")
    BY <1>0, <2>2, OtherMoves
  <2>4. pc'["mqtt"] = pc["mqtt"] \/ pc'["mqtt"] = "find"
    BY <1>a, <2>2 DEF Thread
  <2>5. reading # Null => reading <= value /\ memory[reading] \in Nat
    BY <1>0, <1>a, <2>2 DEF ValueInv
  <2>6. \A s \in Server : /\ last'[s] <= sets
                          /\ memory[value] \in Nat => last'[s] <= memory[value]
    BY <1>0, <1>a, <2>2, <2>5 DEF ValueInv, Oldest
  <2>7. \A q \in Pointer : q >= value /\ memory[q] \in Nat => q = value
    BY <1>0, <1>a DEF ValueInv
  <2> QED BY <1>0, <1>a, <2>2, <2>3, <2>4, <2>6, <2>7 DEF ValueInv, Oldest
<1>10. ASSUME FreeOld PROVE ValueInv'
  <2>1. /\ pc["mqtt"] = "free_old" /\ pc' = [pc EXCEPT !["mqtt"] = "find"]
        /\ memory' = [memory EXCEPT ![held["mqtt"]] = Freed]
        /\ UNCHANGED <<held, value, sets, reading, last>>
    BY <1>10 DEF FreeOld
  <2>2. At("store")' = At("store") /\ At("fill")' = At("fill") /\ pc'["mqtt"] = "find"
    BY <1>a, <2>1 DEF At, Thread, Writer
  <2>3. held["mqtt"] \in Pointer /\ held["mqtt"] < value
    BY <1>0, <1>a, <2>1 DEF ValueInv, Thread
  <2>4. /\ memory'[held["mqtt"]] = Freed
        /\ \A p \in Pointer : p # held["mqtt"] => memory'[p] = memory[p]
    BY <1>a, <2>1, <2>3
  <2> QED BY <1>0, <1>a, <2>1, <2>2, <2>3, <2>4 DEF ValueInv, Oldest
<1>11. ASSUME Enter \/ Cancel \/ Unlist \/ FreeTask \/ Delete PROVE ValueInv'
  <2>1. /\ UNCHANGED <<valueVars, held, reading, last>>
        /\ pc["mqtt"] \in RequestPc \cup {"idle"}
        /\ \E to \in {"idle", "unlist", "free"} : pc' = [pc EXCEPT !["mqtt"] = to]
    BY <1>11, <1>a DEF Enter, Cancel, Unlist, FreeTask, Delete, RequestPc
  <2> QED BY <1>0, <2>1, MemoryKept DEF Thread, RequestPc
<1>12. ASSUME ObserveWithoutPmax PROVE FALSE
  BY <1>12, FaultStep DEF ObserveWithoutPmax
<1>13. ASSUME NEW x \in Subscription, Observe(x) \/ CancelObserve(x) PROVE ValueInv'
  <2>1. /\ UNCHANGED <<valueVars, held, reading, last>> /\ pc["mqtt"] = "idle"
        /\ \E to \in {"enter", "cancel"} : pc' = [pc EXCEPT !["mqtt"] = to]
    BY <1>13, FaultStep DEF Observe, CancelObserve
  <2> QED BY <1>0, <2>1, MemoryKept DEF Thread, Writer
<1>14. ASSUME NEW t \in NotifyTask, Fire(t) PROVE ValueInv'
  <2>1. /\ reading' = IF deleted THEN Null ELSE value
        /\ pc' = [pc EXCEPT !["sched"] = "in_task"] /\ pc["mqtt"] # "in_task"
        /\ UNCHANGED <<valueVars, held, last>>
    BY <1>0, <1>14, FaultStep, TaskParts, NoTasks
       DEF Fire, Timer!Fire, ThreadInv, Thread
  <2>3. pc["sched"] = "idle"
    BY <1>0, <1>14, FaultStep DEF Fire
  <2>2. At("store")' = At("store") /\ At("fill")' = At("fill") /\ pc'["mqtt"] = pc["mqtt"]
    BY <1>0, <2>1, <2>3, OtherMoves DEF Thread
  <2>4. /\ \A p \in Pointer : memory'[p] = Unallocated <=> p > value'
        /\ value' + Cardinality(At("store"))' <= MaxSets
        /\ sets' + Cardinality(At("fill"))' = value'
        /\ reading' # Null => reading' <= value'
    BY <1>0, <1>a, <2>1, <2>2 DEF ValueInv
  <2>5. \A p \in Pointer : memory'[p] = Freed =>
        /\ p < value'
        /\ pc'["mqtt"] \in {"store", "fill", "choose", "free_old"} => p # held'["mqtt"]
        /\ pc'["mqtt"] = "in_task" => p # reading'
    BY <1>0, <1>a, <2>1, <2>2 DEF ValueInv
  <2>6. /\ pc'["mqtt"] = "store" => held'["mqtt"] <= value'
        /\ pc'["mqtt"] \in {"fill", "choose", "free_old"} => held'["mqtt"] < value'
    BY <1>0, <1>a, <2>1, <2>2 DEF ValueInv, Thread
  <2>7. /\ \A p \in Pointer : memory'[p] \in Nat => memory'[p] <= sets'
        /\ \A p, q \in Pointer :
             p < q /\ memory'[p] \in Nat /\ memory'[q] \in Nat => memory'[p] <= memory'[q]
    BY <1>0, <1>a, <2>1, <2>2 DEF ValueInv
  <2>8. \A s \in Server :
          /\ last'[s] <= sets'
          /\ \A q \in Pointer : q >= Oldest' /\ memory'[q] \in Nat => last'[s] <= memory'[q]
    BY <1>0, <1>a, <2>1, <2>2 DEF ValueInv, Oldest
  <2> QED BY <2>4, <2>5, <2>6, <2>7, <2>8 DEF ValueInv
<1>15. ASSUME NEW s \in Server, OnRegister(s) \/ Deregister(s) PROVE ValueInv'
  <2>1. UNCHANGED <<pc, held, valueVars, reading, last>>
    BY <1>15 DEF OnRegister, Deregister
  <2> QED BY <1>0, <2>1 DEF ValueInv, At, Oldest
<1> QED BY <1>1, <1>2, <1>3, <1>4, <1>5, <1>6, <1>7, <1>8, <1>9, <1>10, <1>11, <1>12,
          <1>13, <1>14, <1>15, Steps

(* What a fault tells of where the process was. *)
LEMMA FaultsStep ==
  ASSUME ObserveAssumption, Inv, Next PROVE FaultsAsKnown'
<1> USE DEF Thread, Writer
<1>0. TypeOK /\ ThreadInv /\ TaskInv /\ ValueInv /\ FaultsAsKnown /\ fault = NoFault
  BY DEF Inv, Next
<1>1. ASSUME fault' = NoFault PROVE FaultsAsKnown'
  BY <1>1 DEF FaultsAsKnown, NoFault
<1>2. ASSUME NEW th, NEW what, Fail(th, what),
             what = "task" =>
               \/ th = "app"
               \/ th = "sched" /\ \E t \in freed \cap Values(armed) : TakenInItsPlace(t),
             what = "value" => th # "mqtt",
             what = "target" => deleted
      PROVE  FaultsAsKnown'
  BY <1>2 DEF FaultsAsKnown, TakenInItsPlace, CalledOff, Fail, localVars, taskVars, timerVars
<1>a. \A t \in freed \cap Values(armed) : TakenInItsPlace(t)
  BY <1>0, AnotherIsOff DEF CalledOff
<1>3. ASSUME NEW th \in Writer, Store(th) PROVE FaultsAsKnown'
  BY <1>0, <1>1, <1>2, <1>3 DEF Store
<1>4. ASSUME NEW th \in Writer, Fill(th) PROVE FaultsAsKnown'
  BY <1>0, <1>1, <1>2, <1>4 DEF Fill
<1>5. ASSUME NEW th \in Writer, Choose(th) PROVE FaultsAsKnown'
  <2>1. th = "mqtt" => memory[held[th]] # Freed
    BY <1>0, <1>5 DEF Choose, ValueInv, TypeOK
  <2> QED BY <1>0, <1>1, <1>2, <1>5, <2>1 DEF Choose
<1>6. ASSUME NEW th \in Writer, Execute(th) PROVE FaultsAsKnown'
  <2>1. th = "mqtt" => at[th] \notin freed
    BY <1>0, <1>6 DEF Execute, TaskInv, FollowInv
  <2> QED BY <1>0, <1>1, <1>2, <1>6, <2>1 DEF Execute
<1>7. ASSUME NEW th \in Writer, NEW x \in Subscription, Find(th, x) PROVE FaultsAsKnown'
  BY <1>0, <1>1, <1>2, <1>7 DEF Find
<1>8. ASSUME NEW th \in Thread, TaskReturns(th) PROVE FaultsAsKnown'
  <2>1. /\ th = "mqtt" => running \notin freed
        /\ th = "sched" => running \in Values(armed)
    BY <1>0, <1>8 DEF TaskReturns, ThreadInv, TaskInv, FollowInv
  <2>2. th = "mqtt" /\ reading # Null => memory[reading] # Freed
    BY <1>0, <1>8 DEF TaskReturns, ValueInv, TypeOK
  <2> QED BY <1>0, <1>1, <1>2, <1>8, <1>a, <2>1, <2>2 DEF TaskReturns
<1>9. ASSUME ObserveWithoutPmax PROVE FaultsAsKnown'
  BY <1>2, <1>9 DEF ObserveWithoutPmax
<1>10. ASSUME NEW x \in Subscription, CancelObserve(x) PROVE FaultsAsKnown'
  BY <1>0, <1>1, <1>2, <1>10 DEF CancelObserve
<1>11. ASSUME NEW t \in NotifyTask, Fire(t) PROVE FaultsAsKnown'
  <2>1. Gone(t[1]) => deleted
    BY DEF Gone
  <2> QED BY <1>0, <1>1, <1>2, <1>11, <1>a, <2>1 DEF Fire
<1>12. ASSUME \/ \E th \in Writer : ReadOld(th) \/ SkipRecent(th) \/ EndOfSet(th)
              \/ FreeOld \/ Enter \/ Cancel \/ Unlist \/ FreeTask \/ Delete
              \/ \E x \in Subscription : Observe(x)
              \/ \E s \in Server : OnRegister(s) \/ Deregister(s)
       PROVE  FaultsAsKnown'
  BY <1>0, <1>1, <1>12
     DEF ReadOld, SkipRecent, EndOfSet, FreeOld, Enter, Cancel, Unlist, FreeTask, Delete,
     Observe, OnRegister, Deregister
<1> QED BY <1>3, <1>4, <1>5, <1>6, <1>7, <1>8, <1>9, <1>10, <1>11, <1>12, Steps

LEMMA InvInit == ASSUME ObserveAssumption, Init PROVE Inv
<1> USE DEF Init, Timer!TimerInit
<1>a. armed = NewList /\ running = NoTask
  BY DEF Timer!NewList, NewList
<1>1. TypeOK
  <2>1. NewList \in ListOf(Nat, NotifyTask) /\ NewList \in ListOf(Nat, Task)
    BY DEF NewList, ListOf
  <2>2. 0 \in Pointer /\ MaxSets \in Nat /\ MaxTasks \in Nat
    BY DEF ObserveAssumption, Pointer
  <2>3. memory \in [Pointer -> {Unallocated, Uninit, Freed} \cup (0..MaxSets)]
    BY <2>2
  <2>4. /\ pc \in [Thread -> WriterPc \cup RequestPc] /\ at \in [Thread -> NotifyTask \cup {NoTask}]
        /\ held \in [Thread -> Pointer] /\ todo \in [Thread -> SUBSET Subscription]
    BY <2>2 DEF WriterPc
  <2>5. /\ observers \in [Target -> ListOf(Nat, NotifyTask)]
        /\ asked \in [Subscription -> 0..MaxTasks]
        /\ last \in [Server -> 0..MaxSets]
    BY <2>1, <2>2
  <2> QED BY <1>a, <2>1, <2>2, <2>3, <2>4, <2>5 DEF TypeOK
<1>2. ThreadInv
  BY DEF ThreadInv, WriterPc, RequestPc, Thread, Writer
<1>3. TaskInv
  <2>1. Values(NewList) = {} /\ DistinctValues(NewList) /\ DOMAIN NewList.elems = {}
    BY DEF NewList, DistinctValues, Values
  <2>2. \A t \in NotifyTask : ~ Listed(t)
    BY <2>1, TaskParts DEF Listed
  <2>3. \A x \in Target : WellListed(x)
    BY <2>1 DEF WellListed
  <2>4. MadeInv /\ ArmedInv /\ ListInv
    BY <1>a, <2>1, <2>2, FS_EmptySet DEF MadeInv, ArmedInv, ListInv, KeyedBy, ObserveAssumption
  <2>5. CountInv
    <3>1. \A id : WithId(made \ Values(armed), id) = {} /\ WithId(CalledOff, id) = {}
      BY DEF WithId, CalledOff, Thread
    <3> QED BY <3>1 DEF CountInv
  <2>6. ListedInv /\ RequestInv /\ FollowInv
    BY DEF ListedInv, RequestInv, FollowInv, RequestPc, Thread, Writer
  <2> QED BY <2>3, <2>4, <2>5, <2>6 DEF TaskInv
<1>4. AskedInv
  <2>1. \A x \in Subscription : Live(x) = {}
    BY DEF Live
  <2> QED BY <2>1, FS_EmptySet DEF AskedInv
<1>5. ValueInv
  <2>1. At("store") = {} /\ At("fill") = {}
    BY DEF At, Writer, Thread
  <2>2. Cardinality(At("store")) = 0 /\ Cardinality(At("fill")) = 0
    BY <2>1, FS_EmptySet
  <2>3. MaxSets \in Nat /\ {Unallocated, Uninit, Freed} \cap Nat = {} /\ 0 \in Pointer
    BY DEF ObserveAssumption, Pointer
  <2>4. memory[0] = 0 /\ \A p \in Pointer : p # 0 => memory[p] = Unallocated /\ p > 0
    BY <2>3 DEF Pointer
  <2>5. Unallocated \notin {Uninit, Freed, 0} /\ Freed # 0 /\ Unallocated \notin Nat
    BY <2>3 DEF ObserveAssumption
  <2>6. /\ value = 0 /\ sets = 0 /\ reading = Null /\ pc["mqtt"] = "idle"
        /\ \A s \in Server : last[s] = 0
    BY DEF Thread
  <2>7. \A p \in Pointer : p \in Int
    BY DEF Pointer
  <2> HIDE DEF Init
  <2>8. /\ \A p \in Pointer : memory[p] = Unallocated <=> p > 0
        /\ \A p \in Pointer : memory[p] # Freed
        /\ \A p \in Pointer : memory[p] \in Nat => p = 0 /\ memory[p] = 0
    BY <2>4, <2>5
  <2> QED BY <2>2, <2>3, <2>6, <2>7, <2>8 DEF ValueInv, Oldest
<1>6. FaultsAsKnown
  BY DEF FaultsAsKnown, NoFault
<1> QED BY <1>1, <1>2, <1>3, <1>4, <1>5, <1>6 DEF Inv

(* After a fault nothing but fault has changed. *)
LEMMA InvStep == ASSUME ObserveAssumption, Inv, [Next]_vars PROVE Inv'
<1>1. CASE UNCHANGED vars
  BY <1>1 DEF vars, localVars, taskVars, valueVars, timerVars, Inv, TypeOK, ThreadInv, TaskInv,
     MadeInv, ArmedInv, ListInv, CountInv, WithId, CalledOff, ListedInv, WellListed, RequestInv,
     FollowInv, Listed, Gone, AskedInv, Live, TakenInItsPlace,
     ValueInv, At, Oldest, FaultsAsKnown
<1>2. CASE Next /\ fault' = NoFault
  BY <1>2, TypeStep, ThreadStep, TaskStep, AskedStep, ValueStep, FaultsStep DEF Inv
<1>3. CASE Next /\ fault' # NoFault
  <2>1. \E th \in Thread, what \in {"null", "task", "value", "uninit", "target"} : Fail(th, what)
    <3>1. fault = NoFault
      BY <1>3 DEF Next
    <3> QED
      BY <1>3, <3>1, Steps DEF Thread, Writer, ReadOld, Store, Fill, Choose, SkipRecent,
         Execute, EndOfSet, Find, TaskReturns, FreeOld, Enter, Cancel, Unlist, FreeTask,
         Delete, ObserveWithoutPmax, Observe, CancelObserve, OnRegister, Deregister, Fire
  <2>2. FaultsAsKnown'
    BY <1>3, FaultsStep
  <2>3. TypeOK'
    BY <2>1 DEF Inv, Fail, localVars, taskVars, valueVars, timerVars, TypeOK
  <2>4. ThreadInv' /\ TaskInv' /\ AskedInv' /\ ValueInv'
    BY <2>1 DEF Inv, Fail, localVars, taskVars, valueVars, timerVars, ThreadInv, TaskInv,
       MadeInv, ArmedInv, ListInv, CountInv, WithId, CalledOff, ListedInv, WellListed,
       RequestInv, FollowInv, Listed, Gone, AskedInv,
       Live, ValueInv, At, Oldest
  <2> QED BY <2>2, <2>3, <2>4 DEF Inv
<1> QED BY <1>1, <1>2, <1>3

-----------------------------------------------------------------------------
(* The variables keep their types: each value finds a pointer that is free, *)
(* and the bounds on OBSERVEs and values are never passed.                 *)
THEOREM TypeCorrect == ASSUME ObserveAssumption PROVE Spec => []TypeOK
<1>1. Init => Inv
  BY InvInit
<1>2. Inv /\ [Next]_vars => Inv'
  BY InvStep
<1>3. Inv => TypeOK
  BY DEF Inv
<1> QED BY <1>1, <1>2, <1>3, PTL DEF Spec

(* A notify task that CANCEL has freed is followed by the application's     *)
(* set_value(), or by the scheduler's thread when cancel() took off another *)
(* one with its id, which is off though nobody called it off; never by the *)
(* thread that freed it, nor by the scheduler's thread once it is off.     *)
(* The thread that frees values by WRITE reads none it has freed; and only *)
(* a DELETE leaves a target that is gone to be followed.                   *)
THEOREM KnownFaults == ASSUME ObserveAssumption PROVE Spec => []FaultsAsKnown
<1>1. Init => Inv
  BY InvInit
<1>2. Inv /\ [Next]_vars => Inv'
  BY InvStep
<1>3. Inv => FaultsAsKnown
  BY DEF Inv
<1> QED BY <1>1, <1>2, <1>3, PTL DEF Spec

(* For each id, as many tasks are off the scheduler's list as were called  *)
(* off, whichever ones cancel() took: it never comes to the empty list,    *)
(* which would end the scheduler.  What was not called off can be found in *)
(* observers, what was called off cannot.                                  *)
THEOREM ListedWhenScheduled == ASSUME ObserveAssumption PROVE Spec => []ScheduledIsListed
<1>1. Init => Inv
  BY InvInit
<1>2. Inv /\ [Next]_vars => Inv'
  BY InvStep
<1>3. Inv => ScheduledIsListed
  BY DEF Inv, TaskInv, ScheduledIsListed, CountInv, ListedInv
<1> QED BY <1>1, <1>2, <1>3, PTL DEF Spec

(* Each step is what Subscriptions allows the servers to see, or nothing of *)
(* it: OBSERVE asks, freeing the task calls off, filling a value sets it,  *)
(* and a notification is for a subscription that is not called off and     *)
(* tells a value no older than the last one.                               *)
LEMMA SubscriptionStep ==
  ASSUME ObserveAssumption, Inv, [Next]_vars
  PROVE  [Reports!SubscriptionNext]_(Reports!subscriptionVars)
<1> USE DEF Reports!SubscriptionNext, Reports!subscriptionVars, Reports!Subscription, Subscription
<1>0. TypeOK /\ ThreadInv /\ TaskInv /\ AskedInv /\ ValueInv
  BY DEF Inv
<1>1. CASE UNCHANGED <<asked, sets, last>>
  BY <1>1
<1>2. ASSUME NEW th \in Writer, Fill(th), ~ Fail(th, "target")
      PROVE  Reports!Set
  BY <1>2 DEF Fill, Reports!Set, localVars, taskVars
<1>3. ASSUME NEW x \in Subscription, Observe(x)
      PROVE  \E y \in Subscription : Reports!Ask(y)
  BY <1>3, ResolvedType DEF Observe, Reports!Ask, valueVars
<1>4. ASSUME FreeTask
      PROVE  \E y \in Subscription : Reports!CallOff(y)
  <2>1. PICK t \in NotifyTask : t = at["mqtt"]
    BY <1>0, <1>4 DEF FreeTask, ThreadInv, RequestPc
  <2>2. t \notin freed /\ t \in made
    BY <1>0, <1>4, <2>1 DEF FreeTask, TaskInv, RequestInv, RequestPc
  <2>3. Of(t) \in Subscription /\ asked[Of(t)] > 0
    BY <1>0, <2>2, LiveTask, TaskParts DEF TaskInv
  <2> QED BY <1>4, <2>1, <2>3 DEF FreeTask, Reports!CallOff, valueVars
<1>5. ASSUME NEW th \in Thread, TaskReturns(th), ~ UNCHANGED <<asked, sets, last>>
      PROVE  \E y \in Subscription : Reports!Notify(y)
  <2>1. \A what : ~ Fail(th, what)
    BY <1>5 DEF Fail, taskVars, valueVars
  <2>2. /\ reading # Null /\ running \notin freed /\ pc[th] = "in_task"
        /\ last' = [last EXCEPT ![running[2]] = memory[reading]]
        /\ memory[reading] \notin {Freed, Uninit} /\ UNCHANGED <<asked, sets>>
    BY <1>5, <2>1 DEF TaskReturns, taskVars, valueVars
  <2>3. running \in NotifyTask /\ running \in made
    BY <1>0, <1>5, <2>2 DEF ThreadInv, TaskInv, FollowInv
  <2>4. Of(running) \in Subscription /\ asked[Of(running)] > 0 /\ Of(running)[2] = running[2]
    BY <1>0, <2>2, <2>3, LiveTask, TaskParts DEF TaskInv
  <2>5. memory[reading] \in last[running[2]] .. sets
    <3>1. reading \in Pointer /\ reading <= value /\ value \in Int /\ reading \in Int
      BY <1>0, <2>2 DEF TypeOK, ValueInv, Pointer
    <3>2. memory[reading] \in Nat
      BY <1>0, <2>2, <3>1 DEF TypeOK, ValueInv
    <3>3. /\ memory[reading] <= sets /\ last[running[2]] <= memory[reading]
          /\ sets \in Int /\ last[running[2]] \in Int
      BY <1>0, <2>2, <2>3, <3>1, <3>2, TaskParts DEF TypeOK, ValueInv, Oldest
    <3> QED BY <3>2, <3>3
  <2> QED BY <2>2, <2>4, <2>5 DEF Reports!Notify
<1>6. CASE UNCHANGED vars
  BY <1>6 DEF vars, taskVars, valueVars
<1>7. CASE Next
  <2>1. ASSUME NEW th, NEW what, Fail(th, what) PROVE UNCHANGED <<asked, sets, last>>
    BY <2>1 DEF Fail, taskVars, valueVars
  <2>2. \/ UNCHANGED <<asked, sets, last>>
        \/ \E th \in Writer : Fill(th)
        \/ \E x \in Subscription : Observe(x)
        \/ FreeTask
        \/ \E th \in Thread : TaskReturns(th)
    BY <1>7, <2>1, Steps DEF ReadOld, Store, Choose, SkipRecent, Execute, EndOfSet, Find,
       FreeOld, Enter, Cancel, Unlist, Delete, ObserveWithoutPmax, CancelObserve, OnRegister,
       Deregister, Fire, taskVars, valueVars
  <2> QED BY <1>1, <1>2, <1>3, <1>4, <1>5, <2>1, <2>2
<1> QED BY <1>6, <1>7

(* Servers get what they subscribed to, until a thread follows what is     *)
(* freed: no notification before OBSERVE or after the last CANCEL, though  *)
(* the task it is about may still be armed, and no value after a newer one. *)
THEOREM Implementation == ASSUME ObserveAssumption PROVE Spec => ImplementsSubscriptions
<1>1. Init => Inv
  BY InvInit
<1>2. Inv /\ [Next]_vars => Inv'
  BY InvStep
<1>3. Init => Reports!SubscriptionInit
  BY DEF Init, Reports!SubscriptionInit, Reports!Subscription, Subscription
<1>4. Inv /\ [Next]_vars =>
        [Reports!SubscriptionNext]_(Reports!subscriptionVars)
  BY SubscriptionStep
<1> QED BY <1>1, <1>2, <1>3, <1>4, PTL
       DEF Spec, ImplementsSubscriptions, Reports!SubscriptionSpec
=============================================================================
