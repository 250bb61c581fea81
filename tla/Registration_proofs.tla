-------------------------- MODULE Registration_proofs --------------------------
(***************************************************************************)
(* What holds of the life of the servers for any number of servers, kinds  *)
(* of requests and answers, and whichever tasks have equal ids: types, the *)
(* count of pending requests, that no request of a server is handled once  *)
(* it is being deregistered, that no UPDATE follows its DEREGISTER, and    *)
(* which tasks a registered server may lose.                               *)
(***************************************************************************)
EXTENDS Registration, Lists_proofs, FiniteSetTheorems

MainDeregisters == {"dereg_tree", "dereg_cancel", "dereg_send"}
Handles == {"handle", "in_tree", "in_notify", "respond"}

(* Which server each thread is at. *)
AtInv ==
  /\ at["main"] \in Server <=> pc["main"] \in MainDeregisters
  /\ at["mqtt"] \in Server <=> pc["mqtt"] # "idle"
  /\ at["sched"] \in Server <=> pc["sched"] # "idle"
  /\ pc["main"] \in {"register", "add"} => todo # <<>>
  /\ pc["mqtt"] = "schedule" => at["mqtt"] \in Keys(update_tasks)
  /\ pc["mqtt"] \in {"in_tree", "in_notify"} => to_notify \subseteq Keys(observers)

(* A server's mutex is held by the thread that deregisters it, or that      *)
(* handles a request of it.                                                *)
MutexInv ==
  \A s \in Server :
    /\ server_mutex[s] = "main" <=> at["main"] = s
    /\ server_mutex[s] = "mqtt" <=> Handling(s)

(* The thread inside a task function is the one the service runs. *)
RunningInv ==
  /\ pc["sched"] # "idle" => running \in Task
  /\ pc["mqtt"] = "in_notify" => running \in Task /\ pc["sched"] = "idle"

(* register_state is 1 while a request is handled and 0 from inside         *)
(* deregister_on_server() on; a server registers before any deregisters,    *)
(* and is deregistered once.                                               *)
StateInv ==
  /\ \A s \in Server : Handling(s) => register_state[s] = 1
  /\ \A s \in Server : "deregister" \in sent[s] =>
       /\ register_state[s] = 0
       /\ pc["main"] \in {"run"} \cup MainDeregisters
  /\ \A s \in Server : at["main"] = s => "deregister" \notin sent[s]
  /\ pc["main"] \in {"dereg_cancel", "dereg_send"} => register_state[at["main"]] = 0

(* The scheduler's thread is about to send an UPDATE only for a server that *)
(* is registered, or whose deregistration has yet to cancel its task, for   *)
(* which it waits until the task function is over.                         *)
SendInv ==
  \A s \in Server :
    pc["sched"] = "send" /\ at["sched"] = s =>
      \/ register_state[s] = 1
      \/ pc["main"] = "dereg_cancel" /\ at["main"] = s

Parts == AtInv /\ MutexInv /\ RunningInv /\ StateInv /\ SendInv /\ PendingIsHandled

Inv == TypeOK /\ Parts

-----------------------------------------------------------------------------
LEMMA ThreadFacts ==
  ASSUME RegistrationAssumption
  PROVE  /\ Thread = {"main", "mqtt", "sched"}
         /\ Nobody \notin Thread
         /\ NoServer \notin Server
         /\ NoTask \notin Task
         /\ Wedged \notin Task \cup {NoTask}
         /\ \A s \in Server : s \in Nat
         /\ \A t \in Task : t[2] \in Server
         /\ \A t \in Task : IdOf[t] = t[4] /\ IdOf[t] \in Nat
BY DEF RegistrationAssumption, Thread, Task, UpdateTask, NotifyTask, IdOf

(* TimerService's list operations are those of Lists. *)
LEMMA TimerLists ==
  ASSUME NEW l, NEW key, NEW t
  PROVE  /\ Timer!ladd(l, key, t) = ladd(l, key, t)
         /\ Timer!lremove(l, key) = lremove(l, key)
         /\ Timer!Values(l) = Values(l)
<1>1. Timer!ladd(l, key, t) = ladd(l, key, t)
  BY DEF Timer!ladd, ladd, Timer!Cons, Cons
<1>2. \A s : Timer!GreatestKey(s) = GreatestKey(s)
  BY DEF Timer!GreatestKey, GreatestKey
<1>3. Timer!RemoveFirstMatch(l.elems, LAMBDA e : e.key = key)
        = RemoveFirstMatch(l.elems, LAMBDA e : e.key = key)
  BY DEF Timer!RemoveFirstMatch, RemoveFirstMatch, Timer!RemoveAt, RemoveAt,
         Timer!SelectInSeq, SelectInSeq, Timer!Min, Min
<1>4. Timer!lremove(l, key) = lremove(l, key)
  BY <1>2, <1>3 DEF Timer!lremove, lremove
<1> QED BY <1>1, <1>4 DEF Timer!Values, Values

(* schedule() adds the task, under its id ... *)
LEMMA ArmStep ==
  ASSUME RegistrationAssumption, TypeOK, NEW t \in Task, Timer!Arm(t)
  PROVE  /\ running = NoTask /\ running' = NoTask
         /\ armed' \in ListOf(Nat, Task)
         /\ Values(armed') = Values(armed) \cup {t}
         /\ KeyedBy(armed, IdOf) => KeyedBy(armed', IdOf)
<1>1. armed' = ladd(armed, IdOf[t], t) /\ running = NoTask /\ running' = running
  BY TimerLists DEF Timer!Arm
<1>2. armed \in ListOf(Nat, Task) /\ IdOf[t] \in Nat
  BY ThreadFacts DEF TypeOK
<1> QED BY <1>1, <1>2, LaddType, LaddValues, LaddKeyedBy

(* ... and cancel() takes off none with another id. *)
LEMMA DisarmStep ==
  ASSUME RegistrationAssumption, TypeOK, NEW t \in Task, Timer!Disarm(t)
  PROVE  /\ running = NoTask /\ running' = NoTask
         /\ armed' \in ListOf(Nat, Task)
         /\ KeyedBy(armed, IdOf) =>
              /\ KeyedBy(armed', IdOf)
              /\ \A u \in Values(armed) : IdOf[u] # IdOf[t] => u \in Values(armed')
<1>1. armed' = lremove(armed, IdOf[t]) /\ running = NoTask /\ running' = running
  BY TimerLists DEF Timer!Disarm
<1>2. armed \in ListOf(Nat, Task)
  BY DEF TypeOK
<1> QED BY <1>1, <1>2, LremoveType, LremoveKeyedBy

LEMMA MadeType ==
  ASSUME RegistrationAssumption, TypeOK
  PROVE  /\ Made \in Nat
         /\ \A s \in Server, id \in TaskIds :
              /\ <<"update", s, Made + 1, id>> \in UpdateTask
              /\ <<"notify", s, Made + 1, id>> \in NotifyTask
<1>1. lsize(update_tasks) \in Nat /\ lsize(observers) \in Nat
  BY LenProperties DEF TypeOK, ListOf, lsize
<1>2. Made \in Nat
  BY <1>1, FS_CardinalityType DEF Made, TypeOK
<1>3. TaskIds \subseteq Nat \ {0} /\ Made + 1 \in Nat \ {0}
  BY <1>2 DEF TaskIds
<1> QED BY <1>2, <1>3 DEF UpdateTask, NotifyTask

LEMMA NotifyTaskOfType ==
  ASSUME RegistrationAssumption, TypeOK, NEW s \in Keys(observers)
  PROVE  NotifyTaskOf(s) \in Task
<1>1. observers \in ListOf(Nat, NotifyTask)
  BY DEF TypeOK
<1>2. \A i \in DOMAIN observers.elems : observers.elems[i].value \in NotifyTask
  BY <1>1, EmptyList DEF Values
<1>3. \E i \in DOMAIN observers.elems : NotifyTaskOf(s) = observers.elems[i].value
  BY <1>1, LfindValue DEF NotifyTaskOf
<1> QED BY <1>2, <1>3 DEF Task

(* What lfind() finds has its key in the list; what lremove() leaves was in  *)
(* it before.                                                              *)
LEMMA LfindNull ==
  ASSUME NEW Value, NEW l \in ListOf(Nat, Value), NEW key, NEW null,
         lfind(l, key, null) # null
  PROVE  key \in Keys(l)
BY LfindValue DEF Keys

LEMMA LremoveSubset ==
  ASSUME NEW Value, NEW l \in ListOf(Nat, Value), NEW key
  PROVE  Values(lremove(l, key)) \subseteq Values(l)
<1>1. l.elems \in Seq(Elem(Nat, Value))
  BY DEF ListOf, Elem
<1>2. lremove(l, key).elems = Rest(l.elems, key)
  BY DEF lremove, Rest
<1> QED BY <1>1, <1>2, RestElems DEF Values

LEMMA UpdateTaskOfType ==
  ASSUME RegistrationAssumption, TypeOK, NEW s \in Server
  PROVE  /\ UpdateTaskOf(s) \in UpdateTask \cup {NoTask}
         /\ s \in Keys(update_tasks) => UpdateTaskOf(s) \in UpdateTask
<1>1. update_tasks \in ListOf(Nat, UpdateTask)
  BY DEF TypeOK
<1>2. \A i \in DOMAIN update_tasks.elems : update_tasks.elems[i].value \in UpdateTask
  BY <1>1, EmptyList DEF Values
<1>3. \/ UpdateTaskOf(s) = NoTask /\ s \notin Keys(update_tasks)
      \/ \E i \in DOMAIN update_tasks.elems :
           UpdateTaskOf(s) = update_tasks.elems[i].value
  BY <1>1, LfindValue DEF UpdateTaskOf
<1> QED BY <1>2, <1>3

LEMMA InvInit == ASSUME RegistrationAssumption, Init PROVE Inv
<1>1. /\ NewList \in ListOf(Nat, Server) /\ NewList \in ListOf(Nat, UpdateTask)
      /\ NewList \in ListOf(Nat, NotifyTask) /\ NewList \in ListOf(Nat, Task)
  BY DEF NewList, ListOf
<1>2. todo \in Seq(Server)
  <2>1. Cardinality(Server) \in Nat
    BY FS_CardinalityType DEF RegistrationAssumption
  <2>2. todo \in [1..Cardinality(Server) -> Server]
    BY DEF Init, Bijection, Injection, Surjection
  <2> QED BY <2>1, <2>2
<1>3. /\ pc \in [Thread -> MainPc \cup MqttPc \cup SchedPc]
      /\ pc["main"] = "start" /\ pc["mqtt"] = "idle" /\ pc["sched"] = "idle"
      /\ at \in [Thread -> Server \cup {NoServer}]
      /\ \A th \in Thread : at[th] = NoServer
  BY DEF Init, Thread, MainPc, MqttPc, SchedPc
<1>4. TypeOK
  BY <1>1, <1>2, <1>3, FS_EmptySet DEF Init, TypeOK, Kinds, MainPc, MqttPc, SchedPc, Timer!TimerInit,
     NewList, Timer!NewList
<1>5. Parts
  BY <1>3, ThreadFacts DEF Init, Parts, AtInv, MutexInv, RunningInv, StateInv, SendInv,
     PendingIsHandled, Handling, MainDeregisters
<1> QED BY <1>4, <1>5 DEF Inv

(* A step of each action in turn. *)
LEMMA InvNext == ASSUME RegistrationAssumption, Inv, [Next]_vars PROVE Inv'
<1>0. /\ Thread = {"main", "mqtt", "sched"}
      /\ Nobody \notin Thread
      /\ NoServer \notin Server
      /\ NoTask \notin Task
      /\ Wedged \notin Task \cup {NoTask}
      /\ \A s \in Server : s \in Nat
      /\ \A t \in Task : t[2] \in Server
  BY ThreadFacts
<1> USE DEF Go, threadVars, mqttVars, contextVars, taskVars, serverVars, timerVars
<1>1. ASSUME StartRegister PROVE Inv'
  <2>1. TypeOK'
    BY <1>0, <1>1
       DEF StartRegister, Inv, TypeOK, MainPc, MqttPc, SchedPc
  <2>2. Parts'
    BY <1>0, <1>1
       DEF StartRegister, Inv, TypeOK,
       Parts, AtInv, MutexInv, RunningInv, StateInv, SendInv, PendingIsHandled,
       Handling, MainDeregisters
  <2> QED BY <2>1, <2>2 DEF Inv
<1>2. ASSUME RegisterOnServer PROVE Inv'
  <2>1. Head(todo) \in Server
    BY <1>2 DEF RegisterOnServer, Inv, Parts, AtInv, TypeOK
  <2>2. TypeOK'
    BY <1>0, <1>2, <2>1
       DEF RegisterOnServer, Inv, TypeOK, MainPc, MqttPc, SchedPc
  <2>3. Parts'
    BY <1>0, <1>2, <2>1
       DEF RegisterOnServer, Inv, TypeOK,
       Parts, AtInv, MutexInv, RunningInv, StateInv, SendInv, PendingIsHandled,
       Handling, MainDeregisters
  <2> QED BY <2>2, <2>3 DEF Inv
<1>3. ASSUME AddServer PROVE Inv'
  <2>1. Head(todo) \in Server /\ Tail(todo) \in Seq(Server)
    BY <1>3 DEF AddServer, Inv, Parts, AtInv, TypeOK
  <2>2. ladd(servers, Head(todo), Head(todo)) \in ListOf(Nat, Server)
    BY <1>0, LaddType, <2>1 DEF Inv, TypeOK
  <2>3. TypeOK'
    BY <1>0, <1>3, <2>1, <2>2
       DEF AddServer, Inv, TypeOK, MainPc, MqttPc, SchedPc
  <2>4. Parts'
    BY <1>0, <1>3, <2>1, <2>2
       DEF AddServer, Inv, TypeOK,
       Parts, AtInv, MutexInv, RunningInv, StateInv, SendInv, PendingIsHandled,
       Handling, MainDeregisters
  <2> QED BY <2>3, <2>4 DEF Inv
<1>4. ASSUME WaitForRegistered PROVE Inv'
  <2>1. TypeOK'
    BY <1>0, <1>4
       DEF WaitForRegistered, Inv, TypeOK, MainPc, MqttPc, SchedPc
  <2>2. Parts'
    BY <1>0, <1>4
       DEF WaitForRegistered, Inv, TypeOK,
       Parts, AtInv, MutexInv, RunningInv, StateInv, SendInv, PendingIsHandled,
       Handling, MainDeregisters
  <2> QED BY <2>1, <2>2 DEF Inv
<1>5. ASSUME NEW s \in Server, Deregister(s) PROVE Inv'
  <2>1. TypeOK'
    BY <1>0, <1>5
       DEF Deregister, ServerFree, Inv, TypeOK, MainPc, MqttPc, SchedPc
  <2>2. Parts'
    BY <1>0, <1>5
       DEF Deregister, ServerFree, Inv, TypeOK,
       Parts, AtInv, MutexInv, RunningInv, StateInv, SendInv, PendingIsHandled,
       Handling, MainDeregisters
  <2> QED BY <2>1, <2>2 DEF Inv
<1>6. ASSUME DeregisterInTree PROVE Inv'
  <2>1. at["main"] \in Server
    BY <1>6 DEF DeregisterInTree, Inv, Parts, AtInv, MainDeregisters
  <2>2. update_task' \in UpdateTask \cup {NoTask}
    BY <1>6, <2>1, UpdateTaskOfType DEF DeregisterInTree, Inv
  <2>3. TypeOK'
    BY <1>0, <1>6, <2>1, <2>2
       DEF DeregisterInTree, Inv, TypeOK, MainPc, MqttPc, SchedPc
  <2>4. Parts'
    BY <1>0, <1>6, <2>1, <2>2
       DEF DeregisterInTree, Inv, TypeOK,
       Parts, AtInv, MutexInv, RunningInv, StateInv, SendInv, PendingIsHandled,
       Handling, MainDeregisters
  <2> QED BY <2>3, <2>4 DEF Inv
<1>7. ASSUME DeregisterCancel PROVE Inv'
  <2>1. update_task \in Task
    BY <1>0, <1>7 DEF DeregisterCancel, Inv, TypeOK, Task
  <2>2. running = NoTask /\ running' = NoTask /\ armed' \in ListOf(Nat, Task)
    BY <1>7, <2>1, DisarmStep DEF DeregisterCancel, Inv
  <2>3. TypeOK'
    BY <1>0, <1>7, <2>2
       DEF DeregisterCancel, Inv, TypeOK, MainPc, MqttPc, SchedPc
  <2>4. Parts'
    BY <1>0, <1>7, <2>2
       DEF DeregisterCancel, Inv, TypeOK,
       Parts, AtInv, MutexInv, RunningInv, StateInv, SendInv, PendingIsHandled,
       Handling, MainDeregisters
  <2> QED BY <2>3, <2>4 DEF Inv
<1>8. ASSUME DeregisterSend PROVE Inv'
  <2>1. at["main"] \in Server
    BY <1>8 DEF DeregisterSend, Inv, Parts, AtInv, MainDeregisters
  <2>2. TypeOK'
    BY <1>0, <1>8, <2>1
       DEF DeregisterSend, Inv, TypeOK, MainPc, MqttPc, SchedPc
  <2>3. Parts'
    BY <1>0, <1>8, <2>1
       DEF DeregisterSend, Inv, TypeOK,
       Parts, AtInv, MutexInv, RunningInv, StateInv, SendInv, PendingIsHandled,
       Handling, MainDeregisters
  <2> QED BY <2>2, <2>3 DEF Inv
<1>9. ASSUME \/ DeregisterNoTask \/ HandleCancelNone \/ FireFreed
             \/ \E s \in Server : ResponseOfUnknownServer(s)
      PROVE  Inv'
  <2>1. crashed' = TRUE /\ UNCHANGED <<threadVars, contextVars, serverVars, object_tree_lock,
                                      timerVars, sent>>
    BY <1>9 DEF DeregisterNoTask, HandleCancelNone, FireFreed, ResponseOfUnknownServer, Crash
  <2>2. TypeOK'
    BY <2>1 DEF Inv, TypeOK
  <2>3. Parts'
    BY <2>1
       DEF Inv, Parts, AtInv, MutexInv, RunningInv, StateInv, SendInv, PendingIsHandled,
       Handling, MainDeregisters
  <2> QED BY <2>2, <2>3 DEF Inv
<1>10. ASSUME NEW s \in Server, OnRegister(s) PROVE Inv'
  <2>1. PICK id \in TaskIds : update_tasks' = ladd(update_tasks, s, <<"update", s, Made + 1, id>>)
    BY <1>10 DEF OnRegister
  <2> DEFINE t == <<"update", s, Made + 1, id>>
  <2>a. t \in UpdateTask /\ s \in Nat /\ update_tasks \in ListOf(Nat, UpdateTask)
    BY <1>0, MadeType DEF Inv, TypeOK
  <2> HIDE DEF t
  <2>2. update_tasks' \in ListOf(Nat, UpdateTask) /\ s \in Keys(update_tasks')
    BY <2>1, <2>a, LaddType, LaddValues DEF t
  <2>3. TypeOK'
    BY <1>0, <1>10, <2>2
       DEF OnRegister, Receive, Inv, TypeOK, MainPc, MqttPc, SchedPc
  <2>4. Parts'
    BY <1>0, <1>10, <2>2
       DEF OnRegister, Receive, Inv, TypeOK,
       Parts, AtInv, MutexInv, RunningInv, StateInv, SendInv, PendingIsHandled,
       Handling, MainDeregisters
  <2> QED BY <2>3, <2>4 DEF Inv
<1>11. ASSUME ScheduleUpdate PROVE Inv'
  <2>1. UpdateTaskOf(at["mqtt"]) \in Task
    BY <1>0, <1>11, UpdateTaskOfType DEF ScheduleUpdate, Inv, Parts, AtInv, Task
  <2>2. running = NoTask /\ running' = NoTask /\ armed' \in ListOf(Nat, Task)
    BY <1>11, <2>1, ArmStep DEF ScheduleUpdate, Inv
  <2>3. TypeOK'
    BY <1>0, <1>11, <2>2
       DEF ScheduleUpdate, Inv, TypeOK, MainPc, MqttPc, SchedPc
  <2>4. Parts'
    BY <1>0, <1>11, <2>2
       DEF ScheduleUpdate, Inv, TypeOK,
       Parts, AtInv, MutexInv, RunningInv, StateInv, SendInv, PendingIsHandled,
       Handling, MainDeregisters
  <2> QED BY <2>3, <2>4 DEF Inv
<1>12. ASSUME Registered PROVE Inv'
  <2>1. TypeOK'
    BY <1>0, <1>12
       DEF Registered, WakeMain, Inv, TypeOK, MainPc, MqttPc, SchedPc
  <2>2. Parts'
    BY <1>0, <1>12
       DEF Registered, WakeMain, Inv, TypeOK,
       Parts, AtInv, MutexInv, RunningInv, StateInv, SendInv, PendingIsHandled,
       Handling, MainDeregisters
  <2> QED BY <2>1, <2>2 DEF Inv
<1>13. ASSUME NEW s \in Server, OnDeregister(s) PROVE Inv'
  <2>1. servers' \in ListOf(Nat, Server)
    BY <1>0, <1>13, LremoveType DEF OnDeregister, Inv, TypeOK
  <2>2. TypeOK'
    BY <1>0, <1>13, <2>1
       DEF OnDeregister, Receive, Inv, TypeOK, MainPc, MqttPc, SchedPc
  <2>3. Parts'
    BY <1>0, <1>13, <2>1
       DEF OnDeregister, Receive, Inv, TypeOK,
       Parts, AtInv, MutexInv, RunningInv, StateInv, SendInv, PendingIsHandled,
       Handling, MainDeregisters
  <2> QED BY <2>2, <2>3 DEF Inv
<1>14. ASSUME NEW s \in Server, NEW kind \in Request, ReceiveRequest(s, kind) PROVE Inv'
  <2>1. kind \in Kinds
    BY DEF RegistrationAssumption
  <2>2. TypeOK'
    BY <1>0, <1>14, <2>1
       DEF ReceiveRequest, Receive, Inv, TypeOK, MainPc, MqttPc, SchedPc
  <2>3. Parts'
    BY <1>0, <1>14, <2>1
       DEF ReceiveRequest, Receive, Inv, TypeOK,
       Parts, AtInv, MutexInv, RunningInv, StateInv, SendInv, PendingIsHandled,
       Handling, MainDeregisters
  <2> QED BY <2>2, <2>3 DEF Inv
<1>15. ASSUME LockServer PROVE Inv'
  <2>1. at["mqtt"] \in Server
    BY <1>15 DEF LockServer, Inv, Parts, AtInv
  <2>2. TypeOK'
    <3>1. /\ pc' \in [Thread -> MainPc \cup MqttPc \cup SchedPc]
          /\ pc'["main"] \in MainPc /\ pc'["mqtt"] \in MqttPc /\ pc'["sched"] \in SchedPc
      BY <1>0, <1>15 DEF LockServer, Inv, TypeOK, MainPc, MqttPc, SchedPc
    <3>2. /\ at' \in [Thread -> Server \cup {NoServer}]
          /\ pending_requests' \in [Server -> Nat]
          /\ server_mutex' \in [Server -> Thread \cup {Nobody}]
      BY <1>0, <1>15, <2>1 DEF LockServer, Dropped, Inv, TypeOK
    <3> QED
      BY <1>15, <3>1, <3>2 DEF LockServer, Inv, TypeOK, Kinds
  <2>3. Parts'
    BY <1>0, <1>15, <2>1
       DEF LockServer, ServerFree, Dropped, Inv, TypeOK,
       Parts, AtInv, MutexInv, RunningInv, StateInv, SendInv, PendingIsHandled,
       Handling, MainDeregisters
  <2> QED BY <2>2, <2>3 DEF Inv
<1>16. ASSUME HandleExecute PROVE Inv'
  <2>1. TypeOK'
    BY <1>0, <1>16
       DEF HandleExecute, Inv, TypeOK, MainPc, MqttPc, SchedPc
  <2>2. Parts'
    BY <1>0, <1>16
       DEF HandleExecute, Inv, TypeOK,
       Parts, AtInv, MutexInv, RunningInv, StateInv, SendInv, PendingIsHandled,
       Handling, MainDeregisters
  <2> QED BY <2>1, <2>2 DEF Inv
<1>17. ASSUME HandleObserve PROVE Inv'
  <2> DEFINE s == at["mqtt"]
  <2>1. s \in Server /\ s \in Nat
    BY <1>0, <1>17 DEF HandleObserve, Inv, Parts, AtInv
  <2>2. PICK id \in TaskIds :
          /\ Timer!Arm(<<"notify", s, Made + 1, id>>)
          /\ observers' = ladd(observers, s, <<"notify", s, Made + 1, id>>)
    BY <1>17 DEF HandleObserve
  <2> DEFINE t == <<"notify", s, Made + 1, id>>
  <2>3. t \in NotifyTask /\ t \in Task
    BY <2>1, MadeType DEF Inv, Task
  <2> HIDE DEF t, s
  <2>4. running = NoTask /\ running' = NoTask /\ armed' \in ListOf(Nat, Task)
    BY <2>2, <2>3, ArmStep DEF Inv, t
  <2>5. observers \in ListOf(Nat, NotifyTask)
    BY DEF Inv, TypeOK
  <2>6. observers' \in ListOf(Nat, NotifyTask) /\ Keys(observers) \subseteq Keys(observers')
    BY <2>1, <2>2, <2>3, <2>5, LaddType, LaddValues DEF t
  <2>7. TypeOK'
    BY <1>0, <1>17, <2>4, <2>6
       DEF HandleObserve, Inv, TypeOK, MainPc, MqttPc, SchedPc
  <2>8. Parts'
    BY <1>0, <1>17, <2>4, <2>6
       DEF HandleObserve, Inv, TypeOK,
       Parts, AtInv, MutexInv, RunningInv, StateInv, SendInv, PendingIsHandled,
       Handling, MainDeregisters
  <2> QED BY <2>7, <2>8 DEF Inv
<1>29. ASSUME HandleCancel PROVE Inv'
  <2> DEFINE s == at["mqtt"]
             t == NotifyTaskOf(s)
  <2>1. observers \in ListOf(Nat, NotifyTask) /\ t # NoTask
    BY <1>29 DEF HandleCancel, Inv, TypeOK
  <2>2. t \in NotifyTask
    <3>1. \A i \in DOMAIN observers.elems : observers.elems[i].value \in NotifyTask
      BY <2>1, EmptyList DEF Values
    <3> QED BY <2>1, <3>1, LfindValue DEF NotifyTaskOf
  <2>3. /\ Timer!Disarm(t) /\ freed' = freed \cup {t} /\ observers' = lremove(observers, s)
        /\ pc["mqtt"] = "handle" /\ pc' = [pc EXCEPT !["mqtt"] = "respond"]
        /\ UNCHANGED <<at, mqttVars, update_task, todo, state, servers, update_tasks,
                       serverVars, object_tree_lock, sent, crashed>>
    BY <1>29 DEF HandleCancel
  <2> HIDE DEF t, s
  <2>4. running = NoTask /\ running' = NoTask /\ armed' \in ListOf(Nat, Task)
    BY <2>2, <2>3, DisarmStep DEF Inv, Task
  <2>5. observers' \in ListOf(Nat, NotifyTask)
    BY <2>1, <2>3, LremoveType
  <2>6. freed' \subseteq NotifyTask /\ IsFiniteSet(freed')
    BY <2>2, <2>3, FS_AddElement DEF Inv, TypeOK
  <2>7. TypeOK'
    BY <1>0, <2>3, <2>4, <2>5, <2>6 DEF Inv, TypeOK, MainPc, MqttPc, SchedPc
  <2>8. Parts'
    BY <1>0, <2>3, <2>4
       DEF Inv, TypeOK, Parts, AtInv, MutexInv, RunningInv, StateInv, SendInv,
       PendingIsHandled, Handling, MainDeregisters
  <2> QED BY <2>7, <2>8 DEF Inv
<1>18. ASSUME EnterTree PROVE Inv'
  <2>1. to_notify' \subseteq Server /\ to_notify' \subseteq Keys(observers)
    BY <1>18 DEF EnterTree, lcontains
  <2>2. TypeOK'
    BY <1>0, <1>18, <2>1
       DEF EnterTree, Inv, TypeOK, MainPc, MqttPc, SchedPc
  <2>3. Parts'
    BY <1>0, <1>18, <2>1
       DEF EnterTree, Inv, TypeOK,
       Parts, AtInv, MutexInv, RunningInv, StateInv, SendInv, PendingIsHandled,
       Handling, MainDeregisters
  <2> QED BY <2>2, <2>3 DEF Inv
<1>19. ASSUME NEW s \in Server, NotifyObserver(s) PROVE Inv'
  <2>1. NotifyTaskOf(s) \in Task
    BY <1>19, NotifyTaskOfType DEF NotifyObserver, Inv, Parts, AtInv
  <2>2. running = NoTask /\ running' \in Task /\ UNCHANGED armed
    BY <1>19, <2>1 DEF NotifyObserver, Timer!RunNow
  <2>3. TypeOK'
    BY <1>0, <1>19, <2>2
       DEF NotifyObserver, Inv, TypeOK, MainPc, MqttPc, SchedPc
  <2>4. Parts'
    BY <1>0, <1>19, <2>2
       DEF NotifyObserver, Inv, TypeOK,
       Parts, AtInv, MutexInv, RunningInv, StateInv, SendInv, PendingIsHandled,
       Handling, MainDeregisters
  <2> QED BY <2>3, <2>4 DEF Inv
<1>20. ASSUME Notified PROVE Inv'
  <2>1. TypeOK'
    BY <1>0, <1>20
       DEF Notified, Timer!Return, Inv, TypeOK, MainPc, MqttPc, SchedPc
  <2>2. Parts'
    BY <1>0, <1>20
       DEF Notified, Timer!Return, Inv, TypeOK,
       Parts, AtInv, MutexInv, RunningInv, StateInv, SendInv, PendingIsHandled,
       Handling, MainDeregisters
  <2> QED BY <2>1, <2>2 DEF Inv
<1>21. ASSUME LeaveTree PROVE Inv'
  <2>1. TypeOK'
    BY <1>0, <1>21
       DEF LeaveTree, Inv, TypeOK, MainPc, MqttPc, SchedPc
  <2>2. Parts'
    BY <1>0, <1>21
       DEF LeaveTree, Inv, TypeOK,
       Parts, AtInv, MutexInv, RunningInv, StateInv, SendInv, PendingIsHandled,
       Handling, MainDeregisters
  <2> QED BY <2>1, <2>2 DEF Inv
<1>22. ASSUME Respond PROVE Inv'
  <2>1. at["mqtt"] \in Server /\ pending_requests[at["mqtt"]] = 1
    BY <1>22 DEF Respond, Inv, Parts, AtInv, PendingIsHandled, Handling
  <2>2. TypeOK'
    BY <1>0, <1>22, <2>1
       DEF Respond, Ended, Inv, TypeOK, Kinds, MainPc, MqttPc, SchedPc
  <2>3. Parts'
    BY <1>0, <1>22, <2>1
       DEF Respond, Ended, Inv, TypeOK,
       Parts, AtInv, MutexInv, RunningInv, StateInv, SendInv, PendingIsHandled,
       Handling, MainDeregisters
  <2> QED BY <2>2, <2>3 DEF Inv
<1>23. ASSUME NEW t \in Values(armed), FireTask(t) PROVE Inv'
  <2>1. t \in Task /\ t[2] \in Server
    BY <1>0, EmptyList DEF Inv, TypeOK
  <2>2. TypeOK'
    BY <1>0, <1>23, <2>1
       DEF FireTask, Timer!Fire, Inv, TypeOK, MainPc, MqttPc, SchedPc
  <2>3. Parts'
    BY <1>0, <1>23, <2>1
       DEF FireTask, Timer!Fire, Inv, TypeOK,
       Parts, AtInv, MutexInv, RunningInv, StateInv, SendInv, PendingIsHandled,
       Handling, MainDeregisters
  <2> QED BY <2>2, <2>3 DEF Inv
<1>24. ASSUME UpdateOnServer PROVE Inv'
  <2>1. TypeOK'
    BY <1>0, <1>24
       DEF UpdateOnServer, Inv, TypeOK, MainPc, MqttPc, SchedPc
  <2>2. Parts'
    BY <1>0, <1>24
       DEF UpdateOnServer, Inv, TypeOK,
       Parts, AtInv, MutexInv, RunningInv, StateInv, SendInv, PendingIsHandled,
       Handling, MainDeregisters
  <2> QED BY <2>1, <2>2 DEF Inv
<1>25. ASSUME CheckRegistered PROVE Inv'
  <2>1. TypeOK'
    BY <1>0, <1>25
       DEF CheckRegistered, Inv, TypeOK, MainPc, MqttPc, SchedPc
  <2>2. Parts'
    BY <1>0, <1>25
       DEF CheckRegistered, Inv, TypeOK,
       Parts, AtInv, MutexInv, RunningInv, StateInv, SendInv, PendingIsHandled,
       Handling, MainDeregisters
  <2> QED BY <2>1, <2>2 DEF Inv
<1>26. ASSUME SkipUpdate \/ SendUpdate \/ SendNotify PROVE Inv'
  <2>1. pc["sched"] # "idle" /\ FinishTask
    BY <1>26 DEF SkipUpdate, SendUpdate, SendNotify
  <2>2. running' = NoTask /\ UNCHANGED armed
    BY <2>1 DEF FinishTask, Timer!Return
  <2>3. /\ pc' = [pc EXCEPT !["sched"] = "idle"]
        /\ at' = [at EXCEPT !["sched"] = NoServer]
        /\ UNCHANGED <<mqttVars, update_task, contextVars, serverVars, object_tree_lock,
                       sent, crashed>>
    BY <2>1 DEF FinishTask
  <2>4. TypeOK'
    BY <1>0, <1>26, <2>1, <2>2, <2>3
       DEF FinishTask, Timer!Return, Inv, TypeOK, MainPc, MqttPc, SchedPc
  <2>5. Parts'
    BY <1>0, <1>26, <2>1, <2>2, <2>3
       DEF FinishTask, Timer!Return, Inv, TypeOK,
       Parts, AtInv, MutexInv, RunningInv, StateInv, SendInv, PendingIsHandled,
       Handling, MainDeregisters
  <2> QED BY <2>4, <2>5 DEF Inv
<1>27. ASSUME CallNeverReturns PROVE Inv'
  <2>1. TypeOK'
    BY <1>0, <1>27
       DEF CallNeverReturns, Timer!NeverReturn, Inv, TypeOK, MainPc, MqttPc, SchedPc
  <2>2. Parts'
    BY <1>0, <1>27
       DEF CallNeverReturns, Timer!NeverReturn, Inv, TypeOK,
       Parts, AtInv, MutexInv, RunningInv, StateInv, SendInv, PendingIsHandled,
       Handling, MainDeregisters
  <2> QED BY <2>1, <2>2 DEF Inv
<1>28. ASSUME UNCHANGED vars PROVE Inv'
  BY <1>28 DEF vars, Inv, TypeOK, Parts, AtInv, MutexInv,
     RunningInv, StateInv, SendInv, PendingIsHandled, Handling
<1> QED
  BY <1>1, <1>2, <1>3, <1>4, <1>5, <1>6, <1>7, <1>8, <1>9, <1>10, <1>11,
     <1>12, <1>13, <1>14, <1>15, <1>16, <1>17, <1>18, <1>19, <1>20, <1>21,
     <1>22, <1>23, <1>24, <1>25, <1>26, <1>27, <1>28, <1>29
     DEF Next, Main, Mqtt, Sched

-----------------------------------------------------------------------------
(* Type correctness. *)
THEOREM TypeCorrect == ASSUME RegistrationAssumption PROVE Spec => []TypeOK
<1>1. Init => Inv
  BY InvInit
<1>2. Inv /\ [Next]_vars => Inv'
  BY InvNext
<1>3. Inv => TypeOK
  BY DEF Inv
<1> QED BY <1>1, <1>2, <1>3, PTL DEF Spec

(* pending_requests counts exactly the requests being handled. *)
THEOREM PendingCounted ==
  ASSUME RegistrationAssumption PROVE Spec => []PendingIsHandled
<1>1. Init => Inv
  BY InvInit
<1>2. Inv /\ [Next]_vars => Inv'
  BY InvNext
<1>3. Inv => PendingIsHandled
  BY DEF Inv, Parts
<1> QED BY <1>1, <1>2, <1>3, PTL DEF Spec

(* No request of a server is handled from the moment its deregistration     *)
(* passes the wait for its requests to end.                                *)
THEOREM RequestsEndFirst ==
  ASSUME RegistrationAssumption PROVE Spec => []NoRequestOnceDeregistering
<1>1. Init => Inv
  BY InvInit
<1>2. Inv /\ [Next]_vars => Inv'
  BY InvNext
<1>3. Inv => NoRequestOnceDeregistering
  <2> SUFFICES ASSUME Inv, NEW s \in Server, Handling(s),
                      Deregistering(s) \/ "deregister" \in sent[s]
               PROVE  FALSE
    BY DEF NoRequestOnceDeregistering
  <2>1. CASE Deregistering(s)
    BY <2>1 DEF Inv, Parts, MutexInv, Deregistering
  <2>2. CASE "deregister" \in sent[s]
    <3>1. StateInv
      BY DEF Inv, Parts
    <3>2. register_state[s] = 1
      BY <3>1 DEF StateInv
    <3>3. register_state[s] = 0
      BY <2>2, <3>1 DEF StateInv
    <3> QED BY <3>2, <3>3
  <2> QED BY <2>1, <2>2
<1> QED BY <1>1, <1>2, <1>3, PTL DEF Spec

(* The DEREGISTER of a server is the last thing it is sent by the update    *)
(* task: register_state is read without the server's mutex, but cancel()    *)
(* waits for the task function.                                            *)
THEOREM DeregisterIsLast ==
  ASSUME RegistrationAssumption PROVE Spec => []NoUpdateAfterDeregister
<1>1. Init => Inv
  BY InvInit
<1>2. Inv /\ [Next]_vars => Inv'
  BY InvNext
<1>3. Inv => NoUpdateAfterDeregister
  <2> SUFFICES ASSUME Inv, NEW s \in Server, "deregister" \in sent[s],
                      pc["sched"] = "send", at["sched"] = s
               PROVE  FALSE
    BY DEF NoUpdateAfterDeregister
  <2>1. register_state[s] = 0
    BY DEF Inv, Parts, StateInv
  <2>2. at["main"] = s
    BY <2>1 DEF Inv, Parts, SendInv
  <2>3. StateInv
    BY DEF Inv, Parts
  <2> QED BY <2>2, <2>3 DEF StateInv
<1> QED BY <1>1, <1>2, <1>3, PTL DEF Spec
-----------------------------------------------------------------------------
(* The tasks: each is made for a server that has registered by then, and    *)
(* entered and scheduled under its server and its id; the one that         *)
(* deregister_on_server() is about to cancel was made for the server it    *)
(* deregisters.                                                            *)
MadeTasks == Values(update_tasks) \cup Values(observers)

UpdateInv ==
  /\ \A t \in MadeTasks : "register" \in sent[t[2]]
  /\ pc["mqtt"] # "idle" => "register" \in sent[at["mqtt"]]
  /\ \A i \in DOMAIN update_tasks.elems :
       update_tasks.elems[i].key = update_tasks.elems[i].value[2]
  /\ KeyedBy(armed, IdOf)
  /\ pc["main"] = "dereg_cancel" /\ update_task # NoTask =>
       update_task \in Values(update_tasks) /\ update_task[2] = at["main"]
  /\ RegisteredKeepsTasks

(* The servers: main registers on each once, and the one it has registered *)
(* on last is the only one that can be missing in context->servers, until  *)
(* one deregisters.                                                        *)
ServersInv ==
  /\ \A i, j \in DOMAIN todo : todo[i] = todo[j] => i = j
  /\ \A i \in DOMAIN todo : "register" \in sent[todo[i]] => pc["main"] = "add" /\ i = 1
  /\ pc["main"] = "add" => "register" \in sent[Head(todo)]
  /\ \A s \in Server : "register" \in sent[s] /\ s \notin Keys(servers) =>
       \/ pc["main"] = "add" /\ Head(todo) = s
       \/ "deregister" \in sent[s]
  /\ NullOnlyThen

(* The task a server is updated with: one of those made for it. *)
LEMMA NewestUpdate ==
  ASSUME RegistrationAssumption, TypeOK, UpdateInv, NEW s \in Server, UpdateTaskOf(s) # NoTask
  PROVE  UpdateTaskOf(s) \in Values(update_tasks) /\ UpdateTaskOf(s)[2] = s
<1>1. update_tasks \in ListOf(Nat, UpdateTask)
  BY DEF TypeOK
<1>2. PICK i \in DOMAIN update_tasks.elems :
        update_tasks.elems[i].key = s /\ UpdateTaskOf(s) = update_tasks.elems[i].value
  BY <1>1, LfindValue DEF UpdateTaskOf
<1> QED BY <1>2 DEF UpdateInv, Values

LEMMA MadeTasksType ==
  ASSUME RegistrationAssumption, TypeOK
  PROVE  \A t \in MadeTasks : t \in Task /\ t[2] \in Server
<1>1. Values(update_tasks) \subseteq UpdateTask /\ Values(observers) \subseteq NotifyTask
  BY EmptyList DEF TypeOK
<1> QED BY <1>1, ThreadFacts DEF MadeTasks, Task

(* A step that makes, arms and cancels no task, and registers on nobody. *)
LEMMA UpdateKept ==
  ASSUME RegistrationAssumption, TypeOK, UpdateInv,
         UNCHANGED <<taskVars, update_task, armed, register_state>>,
         \A s \in Server : sent[s] \subseteq sent'[s],
         pc'["main"] = "dereg_cancel" => UNCHANGED <<pc["main"], at["main"]>>,
         pc["mqtt"] = "schedule" => UNCHANGED <<pc["mqtt"], at["mqtt"]>>,
         pc'["mqtt"] # "idle" => at'["mqtt"] \in Server /\ "register" \in sent[at'["mqtt"]]
  PROVE  UpdateInv'
<1> USE DEF taskVars
<1>1. \A t \in MadeTasks : "register" \in sent'[t[2]]
  BY MadeTasksType DEF UpdateInv
<1>2. RegisteredKeepsTasks'
  <2>1. \A t : BeingScheduled(t) => BeingScheduled(t)'
    BY DEF BeingScheduled, UpdateTaskOf
  <2>2. \A t : MayBeTaken(t) => MayBeTaken(t)'
    BY DEF MayBeTaken
  <2> QED BY <2>1, <2>2 DEF UpdateInv, RegisteredKeepsTasks
<1> QED BY <1>1, <1>2 DEF UpdateInv, MadeTasks

LEMMA UpdateStep ==
  ASSUME RegistrationAssumption, Inv, UpdateInv, ServersInv, [Next]_vars
  PROVE  UpdateInv'
<1> USE DEF Go, threadVars, mqttVars, contextVars, taskVars, serverVars, timerVars
<1>0. /\ TypeOK /\ AtInv /\ StateInv /\ Thread = {"main", "mqtt", "sched"}
      /\ pc \in [Thread -> MainPc \cup MqttPc \cup SchedPc]
      /\ at \in [Thread -> Server \cup {NoServer}] /\ NoServer \notin Server
      /\ sent \in [Server -> SUBSET {"register", "deregister"}]
      /\ register_state \in [Server -> {0, 1}]
      /\ update_tasks \in ListOf(Nat, UpdateTask)
      /\ observers \in ListOf(Nat, NotifyTask)
      /\ \A t \in MadeTasks : t \in Task /\ t[2] \in Server
  BY ThreadFacts, MadeTasksType DEF Inv, Parts, TypeOK
<1>1. ASSUME RegisterOnServer PROVE UpdateInv'
  <2>1. /\ todo # <<>> /\ Head(todo) \in Server /\ Head(todo) = todo[1] /\ 1 \in DOMAIN todo
    BY <1>0, <1>1, EmptySeq, LenProperties DEF RegisterOnServer, AtInv, TypeOK
  <2> DEFINE s == Head(todo)
  <2>2. "register" \notin sent[s]
    BY <1>1, <2>1 DEF RegisterOnServer, ServersInv
  <2>3. \A t \in MadeTasks : t[2] # s
    BY <2>2 DEF UpdateInv
  <2>4. /\ register_state' = [register_state EXCEPT ![s] = 1]
        /\ sent' = [sent EXCEPT ![s] = @ \cup {"register"}]
        /\ pc' = [pc EXCEPT !["main"] = "add"]
        /\ UNCHANGED <<at, update_task, taskVars, armed>>
    BY <1>1 DEF RegisterOnServer
  <2> HIDE DEF s
  <2>5. \A t \in MadeTasks : register_state'[t[2]] = register_state[t[2]]
    BY <1>0, <2>3, <2>4
  <2>6. RegisteredKeepsTasks'
    <3>1. \A t : BeingScheduled(t)' <=> BeingScheduled(t)
      BY <1>0, <2>4 DEF BeingScheduled, UpdateTaskOf
    <3>2. \A t : MayBeTaken(t) => MayBeTaken(t)'
      BY <2>4, <2>5 DEF MayBeTaken, MadeTasks
    <3> QED BY <2>4, <2>5, <3>1, <3>2 DEF UpdateInv, RegisteredKeepsTasks, MadeTasks
  <2>7. \A t \in MadeTasks : "register" \in sent'[t[2]]
    BY <1>0, <2>3, <2>4 DEF UpdateInv
  <2>8. pc'["mqtt"] # "idle" => "register" \in sent'[at'["mqtt"]]
    BY <1>0, <2>4 DEF UpdateInv, AtInv
  <2> QED BY <1>0, <2>4, <2>6, <2>7, <2>8 DEF UpdateInv, MadeTasks
<1>2. ASSUME DeregisterInTree PROVE UpdateInv'
  <2>1. PICK s \in Server : s = at["main"]
    BY <1>0, <1>2 DEF DeregisterInTree, AtInv, MainDeregisters
  <2>2. /\ register_state' = [register_state EXCEPT ![s] = 0]
        /\ update_task' = UpdateTaskOf(s) /\ pc' = [pc EXCEPT !["main"] = "dereg_cancel"]
        /\ UNCHANGED <<at, taskVars, armed, sent>>
    BY <1>2, <2>1 DEF DeregisterInTree
  <2>3. update_task' # NoTask => update_task' \in Values(update_tasks) /\ update_task'[2] = s
    BY <1>0, <2>2, NewestUpdate
  <2>4. \A u \in Server : /\ register_state'[u] = 1 => register_state[u] = 1
                         /\ register_state[u] = 0 => register_state'[u] = 0
    BY <1>0, <2>2
  <2>5. RegisteredKeepsTasks'
    <3>1. \A t : BeingScheduled(t)' <=> BeingScheduled(t)
      BY <1>0, <2>2 DEF BeingScheduled, UpdateTaskOf
    <3>2. \A t : MayBeTaken(t) => MayBeTaken(t)'
      BY <1>0, <2>2, <2>4 DEF MayBeTaken, MadeTasks
    <3> QED BY <1>0, <2>2, <2>4, <3>1, <3>2 DEF UpdateInv, RegisteredKeepsTasks, MadeTasks
  <2> QED BY <1>0, <2>1, <2>2, <2>3, <2>5 DEF UpdateInv, MadeTasks
<1>3. ASSUME DeregisterCancel PROVE UpdateInv'
  <2>1. PICK s \in Server : s = at["main"] /\ register_state[s] = 0 /\ update_task[2] = s
    BY <1>0, <1>3 DEF DeregisterCancel, AtInv, StateInv, MainDeregisters, UpdateInv
  <2>2. update_task \in Values(update_tasks) /\ update_task \in Task
    BY <1>0, <1>3 DEF DeregisterCancel, UpdateInv, MadeTasks
  <2>3. /\ KeyedBy(armed', IdOf)
        /\ \A u \in Values(armed) : IdOf[u] # IdOf[update_task] => u \in Values(armed')
    BY <1>0, <1>3, <2>2, DisarmStep DEF DeregisterCancel, UpdateInv
  <2>4. /\ pc' = [pc EXCEPT !["main"] = "dereg_send"]
        /\ UNCHANGED <<at, update_task, taskVars, register_state, sent>>
    BY <1>3 DEF DeregisterCancel
  <2>5. RegisteredKeepsTasks'
    <3>1. \A t : BeingScheduled(t)' <=> BeingScheduled(t)
      BY <1>0, <2>4 DEF BeingScheduled, UpdateTaskOf
    <3>2. \A t : MayBeTaken(t)' <=> MayBeTaken(t)
      BY <2>4 DEF MayBeTaken
    <3>3. \A t \in MadeTasks : register_state[t[2]] = 1 /\ IdOf[t] = IdOf[update_task] => MayBeTaken(t)
      BY <2>1, <2>2 DEF MayBeTaken
    <3> QED BY <2>3, <2>4, <3>1, <3>2, <3>3 DEF UpdateInv, RegisteredKeepsTasks, MadeTasks
  <2> QED BY <1>0, <2>3, <2>4, <2>5 DEF UpdateInv, MadeTasks
<1>4. ASSUME NEW s \in Server, OnRegister(s) PROVE UpdateInv'
  <2>1. PICK t \in UpdateTask : t[2] = s /\ update_tasks' = ladd(update_tasks, s, t)
    BY <1>0, <1>4, MadeType DEF OnRegister
  <2> DEFINE l == ladd(update_tasks, s, t)
  <2>2. t \in UpdateTask /\ s \in Nat /\ t[2] = s
    BY <2>1, ThreadFacts
  <2>3. /\ at' = [at EXCEPT !["mqtt"] = s]
        /\ pc' = [pc EXCEPT !["mqtt"] = "schedule"]
        /\ UNCHANGED <<observers, freed, update_task, armed, register_state, sent>>
        /\ "register" \in sent[s] /\ pc["mqtt"] = "idle"
    BY <1>4 DEF OnRegister, Receive
  <2>4. update_tasks' = l
    BY <2>1
  <2>5. Values(l) = Values(update_tasks) \cup {t}
    BY <1>0, <2>2, LaddValues
  <2>6. \A i \in DOMAIN l.elems : l.elems[i].key = l.elems[i].value[2]
    <3>1. /\ DOMAIN l.elems = 1 .. Len(update_tasks.elems) + 1
          /\ l.elems[1] = [key |-> s, value |-> t]
          /\ \A i \in 1 .. Len(update_tasks.elems) : l.elems[i + 1] = update_tasks.elems[i]
      BY <1>0, <2>2, LaddElems
    <3>2. /\ DOMAIN update_tasks.elems = 1 .. Len(update_tasks.elems)
          /\ Len(update_tasks.elems) \in Nat
      BY <1>0, LenProperties DEF ListOf
    <3> HIDE DEF l
    <3>3. \A i \in DOMAIN l.elems :
            \/ i = 1
            \/ \E j \in DOMAIN update_tasks.elems : l.elems[i] = update_tasks.elems[j]
      <4> SUFFICES ASSUME NEW i \in DOMAIN l.elems, i # 1
                   PROVE  \E j \in DOMAIN update_tasks.elems : l.elems[i] = update_tasks.elems[j]
        OBVIOUS
      <4>1. i - 1 \in 1 .. Len(update_tasks.elems) /\ (i - 1) + 1 = i
        BY <3>1, <3>2
      <4> QED BY <4>1, <3>1, <3>2
    <3> QED BY <2>2, <3>1, <3>3 DEF UpdateInv
  <2>7. lfind(l, s, NoTask) = t
    BY <1>0, <2>2, LfindNewest
  <2> HIDE DEF l
  <2>8. BeingScheduled(t)'
    BY <1>0, <2>3, <2>4, <2>7 DEF BeingScheduled, UpdateTaskOf
  <2>9. RegisteredKeepsTasks'
    <3>1. \A u : ~BeingScheduled(u)
      BY <2>3 DEF BeingScheduled
    <3>2. \A u : MayBeTaken(u) => MayBeTaken(u)'
      BY <2>3, <2>4, <2>5 DEF MayBeTaken
    <3> QED BY <2>3, <2>4, <2>5, <2>8, <3>1, <3>2 DEF UpdateInv, RegisteredKeepsTasks
  <2> QED BY <1>0, <2>2, <2>3, <2>4, <2>5, <2>6, <2>9 DEF UpdateInv, MadeTasks
<1>5. ASSUME ScheduleUpdate PROVE UpdateInv'
  <2>1. PICK s \in Server : s = at["mqtt"] /\ pc["mqtt"] = "schedule"
    BY <1>5, <1>0 DEF ScheduleUpdate, AtInv
  <2> DEFINE t == UpdateTaskOf(s)
  <2>2. t \in Task
    BY <1>0, <2>1, UpdateTaskOfType DEF AtInv, Task
  <2>3. Values(armed') = Values(armed) \cup {t} /\ KeyedBy(armed', IdOf)
    BY <1>0, <1>5, <2>1, <2>2, ArmStep DEF ScheduleUpdate, UpdateInv
  <2>4. /\ pc' = [pc EXCEPT !["mqtt"] = "registered"]
        /\ UNCHANGED <<at, update_task, taskVars, register_state, sent>>
    BY <1>5, <2>1 DEF ScheduleUpdate
  <2> HIDE DEF t
  <2>5. RegisteredKeepsTasks'
    <3>1. \A u : BeingScheduled(u) => u = t
      BY <2>1 DEF BeingScheduled, t
    <3>2. \A u : MayBeTaken(u) => MayBeTaken(u)'
      BY <2>4 DEF MayBeTaken
    <3> QED BY <2>3, <2>4, <3>1, <3>2 DEF UpdateInv, RegisteredKeepsTasks
  <2> QED BY <1>0, <2>1, <2>3, <2>4, <2>5 DEF UpdateInv, MadeTasks
<1>6. ASSUME HandleObserve PROVE UpdateInv'
  <2> DEFINE s == at["mqtt"]
  <2>1. s \in Server /\ s \in Nat /\ "register" \in sent[s] /\ pc["mqtt"] = "handle"
    BY <1>0, <1>6, ThreadFacts DEF HandleObserve, AtInv, UpdateInv
  <2>2. PICK id \in TaskIds :
          /\ Timer!Arm(<<"notify", s, Made + 1, id>>)
          /\ observers' = ladd(observers, s, <<"notify", s, Made + 1, id>>)
    BY <1>6 DEF HandleObserve
  <2> DEFINE t == <<"notify", s, Made + 1, id>>
  <2>3. t \in NotifyTask /\ t \in Task /\ t[2] = s
    BY <1>0, <2>1, MadeType DEF Task
  <2> HIDE DEF t, s
  <2>4. Values(armed') = Values(armed) \cup {t} /\ KeyedBy(armed', IdOf)
    BY <1>0, <2>2, <2>3, ArmStep DEF t, UpdateInv
  <2>5. Values(observers') = Values(observers) \cup {t}
    BY <1>0, <2>1, <2>2, <2>3, LaddValues DEF t
  <2>6. /\ pc' = [pc EXCEPT !["mqtt"] = "respond"]
        /\ UNCHANGED <<at, update_task, update_tasks, freed, register_state, sent>>
    BY <1>6 DEF HandleObserve
  <2>7. RegisteredKeepsTasks'
    <3>1. \A u : ~BeingScheduled(u)
      BY <2>1 DEF BeingScheduled
    <3>2. \A u : MayBeTaken(u) => MayBeTaken(u)'
      BY <2>6 DEF MayBeTaken
    <3> QED BY <2>4, <2>5, <2>6, <3>1, <3>2 DEF UpdateInv, RegisteredKeepsTasks
  <2> QED BY <1>0, <2>1, <2>3, <2>4, <2>5, <2>6, <2>7 DEF UpdateInv, MadeTasks, s
<1>11. ASSUME HandleCancel PROVE UpdateInv'
  <2> DEFINE s == at["mqtt"]
             t == NotifyTaskOf(s)
  <2>1. s \in Server /\ "register" \in sent[s] /\ pc["mqtt"] = "handle"
    BY <1>0, <1>11 DEF HandleCancel, AtInv, UpdateInv
  <2>2. t \in Task
    <3>1. s \in Keys(observers)
      BY <1>0, <1>11, LfindNull DEF HandleCancel, NotifyTaskOf
    <3> QED BY <1>0, <3>1, NotifyTaskOfType
  <2>3. /\ Timer!Disarm(t) /\ freed' = freed \cup {t} /\ observers' = lremove(observers, s)
        /\ pc' = [pc EXCEPT !["mqtt"] = "respond"]
        /\ UNCHANGED <<at, update_task, update_tasks, register_state, sent>>
    BY <1>11 DEF HandleCancel
  <2> HIDE DEF t, s
  <2>4. /\ KeyedBy(armed', IdOf)
        /\ \A u \in Values(armed) : IdOf[u] # IdOf[t] => u \in Values(armed')
    BY <1>0, <2>2, <2>3, DisarmStep DEF UpdateInv
  <2>5. Values(observers') \subseteq Values(observers)
    BY <1>0, <2>3, LremoveSubset
  <2>6. RegisteredKeepsTasks'
    <3>1. \A u : ~BeingScheduled(u)
      BY <2>1 DEF BeingScheduled
    <3>2. \A u : MayBeTaken(u) \/ IdOf[u] = IdOf[t] => MayBeTaken(u)'
      BY <2>3 DEF MayBeTaken
    <3> QED BY <2>3, <2>4, <2>5, <3>1, <3>2 DEF UpdateInv, RegisteredKeepsTasks
  <2> QED BY <1>0, <2>1, <2>3, <2>4, <2>5, <2>6 DEF UpdateInv, MadeTasks, s
<1>7. ASSUME DeregisterSend PROVE UpdateInv'
  <2>1. /\ \A s \in Server : sent[s] \subseteq sent'[s]
        /\ pc' = [pc EXCEPT !["main"] = "run"] /\ at' = [at EXCEPT !["main"] = NoServer]
        /\ UNCHANGED <<taskVars, armed, register_state>>
    BY <1>0, <1>7 DEF DeregisterSend
  <2>2. /\ UNCHANGED <<pc["mqtt"], at["mqtt"]>> /\ pc'["main"] # "dereg_cancel"
        /\ pc["mqtt"] # "idle" => at["mqtt"] \in Server
    BY <1>0, <2>1 DEF AtInv
  <2>3. RegisteredKeepsTasks'
    <3>1. \A t : BeingScheduled(t)' <=> BeingScheduled(t)
      BY <2>1, <2>2 DEF BeingScheduled, UpdateTaskOf
    <3>2. \A t : MayBeTaken(t)' <=> MayBeTaken(t)
      BY <2>1 DEF MayBeTaken
    <3> QED BY <2>1, <3>1, <3>2 DEF UpdateInv, RegisteredKeepsTasks
  <2>4. \A t \in MadeTasks : "register" \in sent'[t[2]]
    BY <1>0, <2>1 DEF UpdateInv
  <2> QED BY <1>0, <2>1, <2>2, <2>3, <2>4 DEF UpdateInv, MadeTasks
<1>8. ASSUME \/ StartRegister \/ AddServer \/ WaitForRegistered
             \/ \E s \in Server : Deregister(s) \/ OnDeregister(s)
             \/ DeregisterNoTask \/ (\E s \in Server : ResponseOfUnknownServer(s))
             \/ HandleCancelNone \/ FireFreed \/ CallNeverReturns \/ UNCHANGED vars
      PROVE  UpdateInv'
  <2>1. /\ UNCHANGED <<taskVars, update_task, armed, register_state, sent>>
        /\ UNCHANGED <<pc["mqtt"], at["mqtt"]>>
        /\ pc'["main"] = "dereg_cancel" => UNCHANGED <<pc["main"], at["main"]>>
    BY <1>0, <1>8 DEF StartRegister, AddServer, WaitForRegistered, Deregister, OnDeregister,
       DeregisterNoTask, ResponseOfUnknownServer, HandleCancelNone, FireFreed, Crash,
       CallNeverReturns,
       Timer!NeverReturn, vars
  <2>2. pc["mqtt"] # "idle" => at["mqtt"] \in Server /\ "register" \in sent[at["mqtt"]]
    BY <1>0 DEF AtInv, UpdateInv
  <2> QED BY <1>0, <2>1, <2>2, UpdateKept
<1>9. ASSUME \/ Registered \/ LockServer \/ HandleExecute \/ EnterTree \/ Notified
             \/ LeaveTree \/ Respond
             \/ \E s \in Server : \/ NotifyObserver(s)
                                  \/ \E kind \in Request : ReceiveRequest(s, kind)
      PROVE  UpdateInv'
  <2>1. /\ UNCHANGED <<taskVars, update_task, armed, register_state, sent>>
        /\ pc["mqtt"] # "schedule" /\ UNCHANGED at["main"]
        /\ pc'["main"] = "dereg_cancel" => UNCHANGED pc["main"]
    BY <1>0, <1>9 DEF Registered, WakeMain, LockServer, HandleExecute, EnterTree, Notified,
       LeaveTree, Respond, NotifyObserver, ReceiveRequest, Receive, Timer!Return,
       Timer!RunNow
  <2>2. pc["mqtt"] # "idle" => at["mqtt"] \in Server /\ "register" \in sent[at["mqtt"]]
    BY <1>0 DEF AtInv, UpdateInv
  <2>3. pc'["mqtt"] # "idle" => at'["mqtt"] \in Server /\ "register" \in sent[at'["mqtt"]]
    BY <1>0, <1>9, <2>2 DEF Registered, LockServer, HandleExecute, EnterTree, Notified,
       LeaveTree, Respond, NotifyObserver, ReceiveRequest, Receive
  <2> QED BY <1>0, <2>1, <2>3, UpdateKept
<1>10. ASSUME Sched PROVE UpdateInv'
  <2>1. /\ UNCHANGED <<taskVars, update_task, armed, register_state, sent>>
        /\ UNCHANGED <<pc["main"], at["main"], pc["mqtt"], at["mqtt"]>>
    BY <1>0, <1>10 DEF Sched, FireTask, FireFreed, Crash, Timer!Fire, UpdateOnServer, CheckRegistered,
       SkipUpdate, SendUpdate, SendNotify, FinishTask, Timer!Return
  <2>2. pc["mqtt"] # "idle" => at["mqtt"] \in Server /\ "register" \in sent[at["mqtt"]]
    BY <1>0 DEF AtInv, UpdateInv
  <2> QED BY <1>0, <2>1, <2>2, UpdateKept
<1> QED BY <1>1, <1>2, <1>3, <1>4, <1>5, <1>6, <1>7, <1>8, <1>9, <1>10, <1>11
        DEF Next, Main, Mqtt

LEMMA ServersStep ==
  ASSUME RegistrationAssumption, Inv, ServersInv, [Next]_vars
  PROVE  ServersInv'
<1> USE DEF Go, threadVars, mqttVars, contextVars, taskVars, serverVars, timerVars
<1>0. /\ TypeOK /\ AtInv /\ Thread = {"main", "mqtt", "sched"}
      /\ pc \in [Thread -> MainPc \cup MqttPc \cup SchedPc]
      /\ sent \in [Server -> SUBSET {"register", "deregister"}]
      /\ servers \in ListOf(Nat, Server) /\ todo \in Seq(Server)
      /\ DOMAIN todo = 1 .. Len(todo) /\ Len(todo) \in Nat
      /\ \A s \in Server : s \in Nat
  BY ThreadFacts, LenProperties DEF Inv, Parts, TypeOK
<1>1. CASE UNCHANGED vars
  BY <1>1 DEF vars, ServersInv, NullOnlyThen, lcontains, NotifyTaskOf
<1> SUFFICES ASSUME ~crashed, Next PROVE ServersInv'
  BY <1>1 DEF Next
<1>2. ASSUME RegisterOnServer PROVE ServersInv'
  <2>1. /\ todo # <<>> /\ Head(todo) \in Server /\ Head(todo) = todo[1] /\ 1 \in DOMAIN todo
    BY <1>0, <1>2, EmptySeq DEF RegisterOnServer, AtInv
  <2>2. /\ sent' = [sent EXCEPT ![Head(todo)] = @ \cup {"register"}]
        /\ pc["main"] = "register" /\ pc' = [pc EXCEPT !["main"] = "add"]
        /\ UNCHANGED <<todo, servers, crashed>>
    BY <1>2 DEF RegisterOnServer
  <2>3. \A i \in DOMAIN todo : "register" \in sent'[todo[i]] => i = 1
    <3>1. \A i \in DOMAIN todo : todo[i] \in Server /\ "register" \notin sent[todo[i]]
      BY <1>0, <2>2, ElementOfSeq DEF ServersInv
    <3>2. \A i \in DOMAIN todo : todo[i] = todo[1] => i = 1
      BY <2>1 DEF ServersInv
    <3> QED BY <1>0, <2>1, <2>2, <3>1, <3>2
  <2>4. NullOnlyThen'
    BY <2>2 DEF NullOnlyThen
  <2> QED BY <1>0, <2>1, <2>2, <2>3, <2>4 DEF ServersInv
<1>3. ASSUME AddServer PROVE ServersInv'
  <2>1. /\ todo # <<>> /\ Head(todo) \in Server /\ Head(todo) = todo[1] /\ 1 \in DOMAIN todo
    BY <1>0, <1>3, EmptySeq DEF AddServer, AtInv
  <2>2. /\ Tail(todo) \in Seq(Server) /\ DOMAIN Tail(todo) = 1 .. Len(todo) - 1
        /\ \A i \in 1 .. Len(todo) - 1 : Tail(todo)[i] = todo[i + 1]
    BY <1>0, <2>1, HeadTailProperties, LenProperties
  <2>3. /\ servers' = ladd(servers, Head(todo), Head(todo)) /\ todo' = Tail(todo)
        /\ pc["main"] = "add" /\ pc'["main"] # "add" /\ UNCHANGED <<sent, crashed>>
    BY <1>0, <1>3 DEF AddServer
  <2>4. Keys(servers') = Keys(servers) \cup {Head(todo)}
    <3>1. PICK s \in Server : s = Head(todo) /\ s \in Nat
      BY <1>0, <2>1
    <3>2. Keys(ladd(servers, s, s)) = Keys(servers) \cup {s}
      BY <1>0, <3>1, LaddValues
    <3> QED BY <2>3, <3>1, <3>2
  <2>5. \A i \in 1 .. Len(todo) - 1 : i + 1 \in DOMAIN todo /\ i + 1 # 1
    BY <1>0
  <2>6. \A i, j \in DOMAIN Tail(todo) : Tail(todo)[i] = Tail(todo)[j] => i = j
    <3>1. \A i, j \in DOMAIN Tail(todo) : Tail(todo)[i] = Tail(todo)[j] => i + 1 = j + 1
      BY <2>2, <2>5 DEF ServersInv
    <3> QED BY <1>0, <2>2, <3>1
  <2>7. \A i \in DOMAIN Tail(todo) : "register" \notin sent[Tail(todo)[i]]
    BY <2>2, <2>5 DEF ServersInv
  <2>8. NullOnlyThen'
    BY <2>3 DEF NullOnlyThen
  <2>9. \A s \in Server : "register" \in sent[s] /\ s \notin Keys(servers') =>
          "deregister" \in sent[s]
    BY <2>3, <2>4 DEF ServersInv
  <2> QED BY <2>3, <2>6, <2>7, <2>8, <2>9 DEF ServersInv
<1>4. ASSUME DeregisterSend PROVE ServersInv'
  <2>1. /\ sent' = [sent EXCEPT ![at["main"]] = @ \cup {"deregister"}] /\ at["main"] \in Server
        /\ pc["main"] = "dereg_send" /\ pc'["main"] = "run"
        /\ UNCHANGED <<todo, servers, crashed>>
    BY <1>0, <1>4 DEF DeregisterSend, AtInv, MainDeregisters
  <2>2. \A s \in Server : /\ "register" \in sent'[s] <=> "register" \in sent[s]
                         /\ "deregister" \in sent[s] => "deregister" \in sent'[s]
    BY <1>0, <2>1
  <2>3. \A i \in DOMAIN todo : todo[i] \in Server
    BY <1>0, ElementOfSeq
  <2>4. NullOnlyThen'
    BY <2>1 DEF NullOnlyThen
  <2> QED BY <2>1, <2>2, <2>3, <2>4 DEF ServersInv
<1>5. ASSUME NEW s \in Server, OnDeregister(s) PROVE ServersInv'
  <2>1. /\ servers' = lremove(servers, s) /\ "deregister" \in sent[s]
        /\ UNCHANGED <<todo, sent, crashed, pc>>
    BY <1>5 DEF OnDeregister
  <2>2. \A u \in Keys(servers) : u # s => u \in Keys(servers')
    <3>1. servers.elems \in Seq(Elem(Nat, Server))
      BY <1>0 DEF ListOf, Elem
    <3>2. servers'.elems = Rest(servers.elems, s)
      BY <2>1 DEF lremove, Rest
    <3>3. \A j \in DOMAIN servers.elems : servers.elems[j].key # s =>
            \E i \in DOMAIN Rest(servers.elems, s) : Rest(servers.elems, s)[i] = servers.elems[j]
      BY <3>1, RestElems
    <3> QED BY <3>2, <3>3 DEF Keys
  <2>3. NullOnlyThen'
    BY <2>1 DEF NullOnlyThen
  <2> QED BY <2>1, <2>2, <2>3 DEF ServersInv
<1>6. ASSUME NEW s \in Server, ResponseOfUnknownServer(s) PROVE ServersInv'
  <2>1. /\ "register" \in sent[s] /\ s \notin Keys(servers)
        /\ UNCHANGED <<todo, servers, sent, pc>>
    BY <1>6 DEF ResponseOfUnknownServer, Receive, Crash, lcontains
  <2>2. (pc["main"] = "add" /\ Head(todo) = s) \/ "deregister" \in sent[s]
    BY <2>1 DEF ServersInv
  <2>3. NullOnlyThen'
    BY <2>1, <2>2 DEF NullOnlyThen, lcontains
  <2> QED BY <2>1, <2>3 DEF ServersInv
<1>7. ASSUME DeregisterNoTask PROVE ServersInv'
  <2>1. /\ pc["main"] = "dereg_cancel" /\ update_task = NoTask
        /\ UNCHANGED <<todo, servers, sent, pc, update_task>>
    BY <1>7 DEF DeregisterNoTask, Crash
  <2>2. NullOnlyThen'
    BY <2>1 DEF NullOnlyThen
  <2> QED BY <2>1, <2>2 DEF ServersInv
<1>12. ASSUME HandleCancelNone \/ FireFreed PROVE ServersInv'
  <2>1. /\ \/ pc["mqtt"] = "handle" /\ request = "cancel" /\ NotifyTaskOf(at["mqtt"]) = NoTask
           \/ freed \cap Values(armed) # {}
        /\ UNCHANGED <<todo, servers, sent, pc, at, request, observers, freed, armed>>
    BY <1>12 DEF HandleCancelNone, FireFreed, Crash
  <2>2. NullOnlyThen'
    BY <2>1 DEF NullOnlyThen, NotifyTaskOf
  <2> QED BY <2>1, <2>2 DEF ServersInv
<1>8. ASSUME UNCHANGED <<todo, servers, sent, crashed>>,
             UNCHANGED pc["main"] \/ {pc["main"], pc'["main"]} \cap {"add"} = {}
      PROVE  ServersInv'
  <2>1. NullOnlyThen'
    BY <1>8 DEF NullOnlyThen
  <2> QED BY <1>8, <2>1 DEF ServersInv
<1>9. ASSUME \/ StartRegister \/ WaitForRegistered \/ (\E s \in Server : Deregister(s))
             \/ DeregisterInTree \/ DeregisterCancel \/ CallNeverReturns
      PROVE  ServersInv'
  BY <1>0, <1>8, <1>9 DEF StartRegister, WaitForRegistered, Deregister, DeregisterInTree,
     DeregisterCancel, Timer!Disarm, CallNeverReturns, Timer!NeverReturn
<1>10. ASSUME \/ ScheduleUpdate \/ Registered \/ LockServer \/ HandleExecute \/ HandleObserve
              \/ HandleCancel \/ EnterTree \/ Notified \/ LeaveTree \/ Respond
              \/ \E s \in Server : \/ NotifyObserver(s) \/ OnRegister(s)
                                   \/ \E kind \in Request : ReceiveRequest(s, kind)
       PROVE  ServersInv'
  BY <1>0, <1>8, <1>10 DEF ScheduleUpdate, Registered, WakeMain, LockServer, HandleExecute,
     HandleObserve, HandleCancel, EnterTree, Notified, LeaveTree, Respond, NotifyObserver,
     OnRegister, ReceiveRequest, Timer!Arm, Timer!Disarm, Timer!Return, Timer!RunNow
<1>11. ASSUME Sched PROVE ServersInv'
  BY <1>0, <1>8, <1>11, <1>12 DEF Sched, FireTask, Timer!Fire, UpdateOnServer, CheckRegistered,
     SkipUpdate, SendUpdate, SendNotify, FinishTask, Timer!Return
<1> QED BY <1>2, <1>3, <1>4, <1>5, <1>6, <1>7, <1>9, <1>10, <1>11, <1>12
        DEF Next, Main, Mqtt

LEMMA ServedInit == ASSUME RegistrationAssumption, Init PROVE UpdateInv /\ ServersInv
<1>1. DOMAIN NewList.elems = {} /\ Keys(NewList) = {}
  BY DEF NewList, Keys
<1>2. UpdateInv
  BY <1>1 DEF Init, UpdateInv, RegisteredKeepsTasks, MadeTasks, Values, KeyedBy, Thread,
     Timer!TimerInit, NewList, Timer!NewList
<1>3. \A i, j \in DOMAIN todo : todo[i] = todo[j] => i = j
  BY DEF Init, Bijection, Injection, IsInjective
<1>4. /\ \A s \in Server : sent[s] = {}
      /\ \A i \in DOMAIN todo : todo[i] \in Server
      /\ pc["main"] = "start" /\ ~crashed
  BY DEF Init, Thread, Bijection, Surjection, Injection
<1>5. ServersInv
  BY <1>1, <1>3, <1>4 DEF ServersInv, NullOnlyThen
<1> QED BY <1>2, <1>5

(* While a server is registered, the tasks made for it stay scheduled until *)
(* it calls them off, unless another server that has begun to deregister   *)
(* has an update task with the same id, or a notify task with the same id   *)
(* was called off.                                                         *)
THEOREM TasksKept ==
  ASSUME RegistrationAssumption PROVE Spec => []RegisteredKeepsTasks
<1>1. Init => Inv /\ UpdateInv /\ ServersInv
  BY InvInit, ServedInit
<1>2. Inv /\ UpdateInv /\ ServersInv /\ [Next]_vars => (Inv /\ UpdateInv /\ ServersInv)'
  BY InvNext, UpdateStep, ServersStep
<1>3. UpdateInv => RegisteredKeepsTasks
  BY DEF UpdateInv
<1> QED BY <1>1, <1>2, <1>3, PTL DEF Spec

(* The client follows a null or freed pointer in five cases only: a         *)
(* response that comes before its server is entered in the list, or after  *)
(* the server has left it; a deregistration before the first answer; a     *)
(* CANCEL OBSERVE of what is not observed; a notify task that was called   *)
(* off, and is on the scheduler's list still.                              *)
THEOREM NullOnlyInFiveCases ==
  ASSUME RegistrationAssumption PROVE Spec => []NullOnlyThen
<1>1. Init => Inv /\ ServersInv
  BY InvInit, ServedInit
<1>2. Inv /\ ServersInv /\ [Next]_vars => (Inv /\ ServersInv)'
  BY InvNext, ServersStep
<1>3. ServersInv => NullOnlyThen
  BY DEF ServersInv
<1> QED BY <1>1, <1>2, <1>3, PTL DEF Spec
=============================================================================
