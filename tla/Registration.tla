----------------------------- MODULE Registration -----------------------------
(***************************************************************************)
(* The life of the client's LwM2M servers after bootstrap: register_on_    *)
(* server(), the answers and requests the MQTT thread receives, the update *)
(* and notify tasks of the scheduler's thread, and deregister_on_server(). *)
(* Three threads share the servers, the object tree and the scheduler:     *)
(*   "main"   lwm2m_start_client(), then the application                   *)
(*   "mqtt"   the MQTT library's callbacks: one message at a time          *)
(*   "sched"  scheduler_thread(), through TimerService                     *)
(* and the remote servers answer, answer twice, send requests or are       *)
(* silent: once the REGISTER of a server is published, the broker may hand *)
(* any message of that server to the MQTT thread, in any order.  A step is *)
(* what one thread does between two locks it takes or two messages it      *)
(* publishes.                                                              *)
(***************************************************************************)
EXTENDS Lists, FiniteSets

CONSTANTS
  Server,       \* server instances, by short server id
  Request,      \* the kinds of requests servers send
  MaxTasks,     \* bound: answers to a REGISTER, with repeats, and OBSERVEs
  Nobody, NoServer, NoTask, Wedged

Kinds == {"read", "write", "observe", "cancel", "execute", "refused"}

Thread == {"main", "mqtt", "sched"}

(* The scheduler's tasks: update_func() or a notify function, the server it *)
(* is for, the how-manieth task it is in all, and its id.                  *)
UpdateTask == {"update"} \X Server \X (Nat \ {0}) \X (Nat \ {0})
NotifyTask == {"notify"} \X Server \X (Nat \ {0}) \X (Nat \ {0})
Task == UpdateTask \cup NotifyTask
IdOf == [t \in Task |-> t[4]]

ASSUME RegistrationAssumption ==
  /\ Server \subseteq Nat
  /\ IsFiniteSet(Server)
  /\ Request \subseteq Kinds
  /\ MaxTasks \in Nat
  /\ Nobody \notin Thread
  /\ NoServer \notin Server
  /\ NoTask \notin Task
  /\ Wedged \notin Task \cup {NoTask}

VARIABLES
  pc, at,            \* where each thread is, and the server it is at
  request,           \* the kind of request the MQTT thread is handling, else "read"
  to_notify,         \* the servers a WRITE still has to notify
  todo,              \* server instances still to register on
  state,             \* context->state
  servers,           \* context->servers
  update_tasks,      \* context->update_tasks
  observers,         \* the observers of what a WRITE changes, see EnterTree
  freed,             \* the notify tasks that CANCEL OBSERVE has freed
  update_task,       \* the local variable of deregister_on_server()
  register_state,    \* server->register_state
  pending_requests,  \* server->pending_requests
  server_mutex,      \* server->server_mutex: its holder
  object_tree_lock,  \* context->object_tree_lock: its holder
  armed, running,    \* the scheduler, see TimerService
  sent,              \* what each server has been sent: "register", "deregister"
  crashed            \* a null or freed pointer was followed: the process is gone

Timer == INSTANCE TimerService WITH armed <- armed, running <- running

mqttVars == <<request, to_notify>>
threadVars == <<pc, at, mqttVars, update_task>>
taskVars == <<update_tasks, observers, freed>>
contextVars == <<todo, state, servers, taskVars>>
serverVars == <<register_state, pending_requests, server_mutex>>
timerVars == <<armed, running>>
vars == <<threadVars, contextVars, serverVars, object_tree_lock, timerVars,
          sent, crashed>>

MainPc == {"start", "register", "add", "wait", "waiting", "run",
           "dereg_tree", "dereg_cancel", "dereg_send"}
MqttPc == {"idle", "schedule", "registered", "request", "handle", "in_tree",
           "in_notify", "respond"}
SchedPc == {"idle", "update", "check", "send", "notify"}

(* What the variables may be.  pending_requests is never below zero,        *)
(* whichever way receive_request() returns.                                *)
TypeOK ==
  /\ pc \in [Thread -> MainPc \cup MqttPc \cup SchedPc]
  /\ pc["main"] \in MainPc /\ pc["mqtt"] \in MqttPc /\ pc["sched"] \in SchedPc
  /\ at \in [Thread -> Server \cup {NoServer}]
  /\ request \in Kinds
  /\ to_notify \subseteq Server
  /\ todo \in Seq(Server)
  /\ state \in {"BOOTSTRAPPED", "REGISTERING", "REGISTERED"}
  /\ servers \in ListOf(Nat, Server)
  /\ update_tasks \in ListOf(Nat, UpdateTask)
  /\ observers \in ListOf(Nat, NotifyTask)
  /\ freed \subseteq NotifyTask /\ IsFiniteSet(freed)
  /\ update_task \in UpdateTask \cup {NoTask}
  /\ register_state \in [Server -> {0, 1}]
  /\ pending_requests \in [Server -> Nat]
  /\ server_mutex \in [Server -> Thread \cup {Nobody}]
  /\ object_tree_lock \in Thread \cup {Nobody}
  /\ armed \in ListOf(Nat, Task)
  /\ running \in Task \cup {NoTask, Wedged}
  /\ sent \in [Server -> SUBSET {"register", "deregister"}]
  /\ crashed \in BOOLEAN

Init ==
  /\ pc = [th \in Thread |-> IF th = "main" THEN "start" ELSE "idle"]
  /\ at = [th \in Thread |-> NoServer]
  /\ request = "read"
  /\ to_notify = {}
  /\ todo \in Bijection(1..Cardinality(Server), Server)
  /\ state = "BOOTSTRAPPED"
  /\ servers = NewList
  /\ update_tasks = NewList
  /\ observers = NewList
  /\ freed = {}
  /\ update_task = NoTask
  /\ register_state = [s \in Server |-> 0]
  /\ pending_requests = [s \in Server |-> 0]
  /\ server_mutex = [s \in Server |-> Nobody]
  /\ object_tree_lock = Nobody
  /\ Timer!TimerInit
  /\ sent = [s \in Server |-> {}]
  /\ crashed = FALSE

-----------------------------------------------------------------------------
Go(th, label) == pc' = [pc EXCEPT ![th] = label]

(* Following a pointer that is null or freed ends the process; nothing else *)
(* changes.                                                                *)
Crash ==
  /\ crashed' = TRUE
  /\ UNCHANGED <<threadVars, contextVars, serverVars, object_tree_lock, timerVars, sent>>

(* Mutant of ServerFree: server_mutex is not taken. *)
ServerOpen(s) == TRUE

(* pthread_mutex_lock(&server->server_mutex) returns. *)
ServerFree(s) == server_mutex[s] = Nobody

(* Mutant of UpdateTaskOf: the task made last, of whichever server. *)
NewestUpdateTask(s) ==
  IF lsize(update_tasks) = 0 THEN NoTask ELSE update_tasks.elems[1].value

(* lfind(context->update_tasks, short_server_id): the newest task of s.    *)
UpdateTaskOf(s) == lfind(update_tasks, s, NoTask)

(* How many tasks were made: update tasks stay in their list for ever,      *)
(* notify tasks in the observers until they are freed.  A new task may have *)
(* the id of any other one, which is the number of that task, or one of    *)
(* its own: generate_task_id() seeds with time(0) and takes the first      *)
(* number, the same all through a second.                                  *)
Made == lsize(update_tasks) + lsize(observers) + Cardinality(freed)
TaskIds == 1 .. Made + 1

(* lwm2m_register() *)
StartRegister ==
  /\ pc["main"] = "start"
  /\ todo # <<>>
  /\ state' = "REGISTERING"
  /\ Go("main", "register")
  /\ UNCHANGED <<at, mqttVars, update_task, todo, servers, taskVars, serverVars,
                 object_tree_lock, timerVars, sent, crashed>>

(* register_on_server(): the server is set up, subscribed to and sent the  *)
(* REGISTER request ...                                                    *)
RegisterOnServer ==
  /\ pc["main"] = "register"
  /\ register_state' = [register_state EXCEPT ![Head(todo)] = 1]
  /\ sent' = [sent EXCEPT ![Head(todo)] = @ \cup {"register"}]
  /\ Go("main", "add")
  /\ UNCHANGED <<at, mqttVars, update_task, contextVars, pending_requests, server_mutex,
                 object_tree_lock, timerVars, crashed>>

(* ... and then put into context->servers. *)
AddServer ==
  /\ pc["main"] = "add"
  /\ Usable(servers)
  /\ servers' = ladd(servers, Head(todo), Head(todo))
  /\ todo' = Tail(todo)
  /\ Go("main", IF Tail(todo) = <<>> THEN "wait" ELSE "register")
  /\ UNCHANGED <<at, mqttVars, update_task, state, taskVars, serverVars,
                 object_tree_lock, timerVars, sent, crashed>>

(* wait_for_registered(), at the test of its loop. *)
WaitForRegistered ==
  /\ pc["main"] = "wait"
  /\ Go("main", IF state = "REGISTERED" THEN "run" ELSE "waiting")
  /\ UNCHANGED <<at, mqttVars, update_task, contextVars, serverVars, object_tree_lock,
                 timerVars, sent, crashed>>

-----------------------------------------------------------------------------
(* The application deregisters each server in context->servers once.       *)
(* deregister_on_server() has the mutex and goes on when no request is     *)
(* pending; in pthread_cond_wait the mutex is free.                        *)
Deregister(s) ==
  /\ pc["main"] = "run"
  /\ lcontains(servers, s)
  /\ register_state[s] = 1
  /\ ServerFree(s)
  /\ pending_requests[s] = 0
  /\ server_mutex' = [server_mutex EXCEPT ![s] = "main"]
  /\ at' = [at EXCEPT !["main"] = s]
  /\ Go("main", "dereg_tree")
  /\ UNCHANGED <<mqttVars, update_task, contextVars, register_state, pending_requests,
                 object_tree_lock, timerVars, sent, crashed>>

DeregisterInTree ==
  /\ pc["main"] = "dereg_tree"
  /\ object_tree_lock = Nobody
  /\ object_tree_lock' = "main"
  /\ register_state' = [register_state EXCEPT ![at["main"]] = 0]
  /\ update_task' = UpdateTaskOf(at["main"])
  /\ Go("main", "dereg_cancel")
  /\ UNCHANGED <<at, mqttVars, contextVars, pending_requests, server_mutex,
                 timerVars, sent, crashed>>

(* Mutant of DeregisterCancel: cancel() does not wait for a task function. *)
DeregisterCancelAtOnce ==
  /\ pc["main"] = "dereg_cancel"
  /\ update_task # NoTask
  /\ armed' = lremove(armed, IdOf[update_task])
  /\ Go("main", "dereg_send")
  /\ UNCHANGED <<at, mqttVars, update_task, contextVars, serverVars,
                 object_tree_lock, running, sent, crashed>>

(* cancel() with the newest update task; NULL when none was made yet.  It   *)
(* takes off what was scheduled last of the tasks with that id.            *)
DeregisterCancel ==
  /\ pc["main"] = "dereg_cancel"
  /\ update_task # NoTask
  /\ Timer!Disarm(update_task)
  /\ Go("main", "dereg_send")
  /\ UNCHANGED <<at, mqttVars, update_task, contextVars, serverVars, object_tree_lock,
                 sent, crashed>>

DeregisterNoTask ==
  /\ pc["main"] = "dereg_cancel"
  /\ update_task = NoTask
  /\ running = NoTask
  /\ Crash

(* Mutant of DeregisterSend: the object tree is not unlocked. *)
DeregisterSendLocked ==
  /\ pc["main"] = "dereg_send"
  /\ sent' = [sent EXCEPT ![at["main"]] = @ \cup {"deregister"}]
  /\ server_mutex' = [server_mutex EXCEPT ![at["main"]] = Nobody]
  /\ at' = [at EXCEPT !["main"] = NoServer]
  /\ update_task' = NoTask
  /\ Go("main", "run")
  /\ UNCHANGED <<mqttVars, contextVars, register_state, pending_requests, object_tree_lock,
                 timerVars, crashed>>

DeregisterSend ==
  /\ pc["main"] = "dereg_send"
  /\ sent' = [sent EXCEPT ![at["main"]] = @ \cup {"deregister"}]
  /\ object_tree_lock' = Nobody
  /\ server_mutex' = [server_mutex EXCEPT ![at["main"]] = Nobody]
  /\ at' = [at EXCEPT !["main"] = NoServer]
  /\ update_task' = NoTask
  /\ Go("main", "run")
  /\ UNCHANGED <<mqttVars, contextVars, register_state, pending_requests, timerVars, crashed>>

-----------------------------------------------------------------------------
(* on_message(): the library hands over the next message. *)
Receive(s) == pc["mqtt"] = "idle" /\ "register" \in sent[s]

(* A response of a server that is not in the list: the handler follows the *)
(* null pointer __resolve_server() returned.                               *)
ResponseOfUnknownServer(s) ==
  /\ Receive(s)
  /\ ~lcontains(servers, s)
  /\ Crash

(* on_server_register(): whatever the response code, a new update task is  *)
(* made and entered in update_tasks ...                                    *)
OnRegister(s) ==
  /\ Receive(s)
  /\ Made < MaxTasks
  /\ lcontains(servers, s)
  /\ Usable(update_tasks)
  /\ \E id \in TaskIds :
       update_tasks' = ladd(update_tasks, s, <<"update", s, Made + 1, id>>)
  /\ at' = [at EXCEPT !["mqtt"] = s]
  /\ Go("mqtt", "schedule")
  /\ UNCHANGED <<mqttVars, update_task, todo, state, servers, observers, freed, serverVars,
                 object_tree_lock, timerVars, sent, crashed>>

(* ... scheduled ... *)
ScheduleUpdate ==
  /\ pc["mqtt"] = "schedule"
  /\ Timer!Arm(UpdateTaskOf(at["mqtt"]))
  /\ Go("mqtt", "registered")
  /\ UNCHANGED <<at, mqttVars, update_task, contextVars, serverVars, object_tree_lock,
                 sent, crashed>>

(* Mutant of WakeMain: the condition is not signalled. *)
LeaveMain(label) == label

(* pthread_cond_signal(&context->register_finished_condition) *)
WakeMain(label) == IF label = "waiting" THEN "wait" ELSE label

(* ... and main is told. *)
Registered ==
  /\ pc["mqtt"] = "registered"
  /\ state' = "REGISTERED"
  /\ pc' = [pc EXCEPT !["mqtt"] = "idle", !["main"] = WakeMain(@)]
  /\ at' = [at EXCEPT !["mqtt"] = NoServer]
  /\ UNCHANGED <<mqttVars, update_task, todo, servers, taskVars, serverVars,
                 object_tree_lock, timerVars, sent, crashed>>

(* Mutant of OnDeregister: the newest server is removed, whoever answers.  *)
OnDeregisterNewest(s) ==
  /\ Receive(s)
  /\ "deregister" \in sent[s]
  /\ lcontains(servers, s)
  /\ Usable(servers)
  /\ servers' = lremove(servers, servers.elems[1].key)
  /\ UNCHANGED <<threadVars, todo, state, taskVars, serverVars, object_tree_lock,
                 timerVars, sent, crashed>>

(* on_server_deregister(): the server leaves the list, its task stays.     *)
OnDeregister(s) ==
  /\ Receive(s)
  /\ "deregister" \in sent[s]
  /\ lcontains(servers, s)
  /\ Usable(servers)
  /\ servers' = lremove(servers, s)
  /\ UNCHANGED <<threadVars, todo, state, taskVars, serverVars, object_tree_lock,
                 timerVars, sent, crashed>>

(* receive_request(): a request of a server that is not in the list is     *)
(* ignored.                                                                *)
ReceiveRequest(s, kind) ==
  /\ Receive(s)
  /\ lcontains(servers, s)
  /\ kind = "observe" => Made < MaxTasks
  /\ at' = [at EXCEPT !["mqtt"] = s]
  /\ request' = kind
  /\ Go("mqtt", "request")
  /\ UNCHANGED <<to_notify, update_task, contextVars, serverVars, object_tree_lock, timerVars,
                 sent, crashed>>

(* Mutant of Dropped: the request is counted after register_state is looked *)
(* at, and its end is counted in any case.                                 *)
DroppedUncounted(s) == [pending_requests EXCEPT ![s] = @ - 1]

(* A dropped request is counted and has ended at once. *)
Dropped(s) == pending_requests

(* The server is locked, counts the request, and drops it at once when it  *)
(* is deregistering.                                                       *)
LockServer ==
  /\ pc["mqtt"] = "request"
  /\ ServerFree(at["mqtt"])
  /\ IF register_state[at["mqtt"]] # 1
     THEN /\ at' = [at EXCEPT !["mqtt"] = NoServer]
          /\ Go("mqtt", "idle")
          /\ pending_requests' = Dropped(at["mqtt"])
          /\ request' = "read"
          /\ UNCHANGED server_mutex
     ELSE /\ pending_requests' = [pending_requests EXCEPT ![at["mqtt"]] = @ + 1]
          /\ server_mutex' = [server_mutex EXCEPT ![at["mqtt"]] = "mqtt"]
          /\ Go("mqtt", "handle")
          /\ UNCHANGED <<at, request>>
  /\ UNCHANGED <<to_notify, update_task, contextVars, register_state, object_tree_lock,
                 timerVars, sent, crashed>>

(* The handlers of lwm2m_device_management.c and                           *)
(* lwm2m_information_reporting.c, by the locks they take.  EXECUTE, like   *)
(* DISCOVER and WRITE ATTRIBUTES, takes none.  OBSERVE makes a notify task, *)
(* schedules it and enters it in the observers; CANCEL OBSERVE takes off   *)
(* what was scheduled last with the id of the newest one, and takes that    *)
(* one out of the observers and frees it.  Observe has the steps between.  *)
HandleExecute ==
  /\ pc["mqtt"] = "handle"
  /\ request = "execute"
  /\ Go("mqtt", "respond")
  /\ UNCHANGED <<at, mqttVars, update_task, contextVars, serverVars, object_tree_lock,
                 timerVars, sent, crashed>>

HandleObserve ==
  /\ pc["mqtt"] = "handle"
  /\ request = "observe"
  /\ Usable(observers)
  /\ \E id \in TaskIds :
       LET t == <<"notify", at["mqtt"], Made + 1, id>>
       IN  /\ Timer!Arm(t)
           /\ observers' = ladd(observers, at["mqtt"], t)
  /\ Go("mqtt", "respond")
  /\ UNCHANGED <<at, mqttVars, update_task, todo, state, servers, update_tasks, freed,
                 serverVars, object_tree_lock, sent, crashed>>

NotifyTaskOf(s) == lfind(observers, s, NoTask)

HandleCancel ==
  /\ pc["mqtt"] = "handle"
  /\ request = "cancel"
  /\ LET t == NotifyTaskOf(at["mqtt"])
     IN  /\ t # NoTask
         /\ Timer!Disarm(t)
         /\ freed' = freed \cup {t}
  /\ observers' = lremove(observers, at["mqtt"])
  /\ Go("mqtt", "respond")
  /\ UNCHANGED <<at, mqttVars, update_task, todo, state, servers, update_tasks, serverVars,
                 object_tree_lock, sent, crashed>>

(* cancel() of a server that observes nothing follows what lfind() returned. *)
HandleCancelNone ==
  /\ pc["mqtt"] = "handle"
  /\ request = "cancel"
  /\ NotifyTaskOf(at["mqtt"]) = NoTask
  /\ running = NoTask
  /\ Crash

(* The other ones lock the object tree; a WRITE or CREATE ("write") chooses  *)
(* observers to notify, among the servers in the list, and runs their      *)
(* notify tasks through execute() before it unlocks the tree; a READ, a    *)
(* DELETE or a refused resource WRITE ("read") only unlocks it.            *)
EnterTree ==
  /\ pc["mqtt"] = "handle"
  /\ request \in {"read", "write", "refused"}
  /\ object_tree_lock = Nobody
  /\ object_tree_lock' = "mqtt"
  /\ to_notify' \in SUBSET {s \in Server : /\ request = "write"
                                          /\ lcontains(observers, s)
                                          /\ lcontains(servers, s)}
  /\ Go("mqtt", "in_tree")
  /\ UNCHANGED <<at, request, update_task, contextVars, serverVars, timerVars, sent, crashed>>

NotifyObserver(s) ==
  /\ pc["mqtt"] = "in_tree"
  /\ s \in to_notify
  /\ to_notify' = to_notify \ {s}
  /\ Timer!RunNow(NotifyTaskOf(s))
  /\ Go("mqtt", "in_notify")
  /\ UNCHANGED <<at, request, update_task, contextVars, serverVars, object_tree_lock,
                 sent, crashed>>

Notified ==
  /\ pc["mqtt"] = "in_notify"
  /\ Timer!Return
  /\ Go("mqtt", "in_tree")
  /\ UNCHANGED <<at, mqttVars, update_task, contextVars, serverVars, object_tree_lock,
                 sent, crashed>>

(* Mutant of LeaveTree: no handler unlocks the tree. *)
LeaveTreeLocked ==
  /\ pc["mqtt"] = "in_tree"
  /\ to_notify = {}
  /\ Go("mqtt", "respond")
  /\ UNCHANGED <<at, mqttVars, update_task, contextVars, serverVars, object_tree_lock,
                 timerVars, sent, crashed>>

(* A refused READ, instance WRITE or CREATE returns without sem_post.      *)
LeaveTree ==
  /\ pc["mqtt"] = "in_tree"
  /\ to_notify = {}
  /\ object_tree_lock' = IF request = "refused" THEN object_tree_lock ELSE Nobody
  /\ Go("mqtt", "respond")
  /\ UNCHANGED <<at, mqttVars, update_task, contextVars, serverVars, timerVars,
                 sent, crashed>>

(* Mutant of Ended: the request goes on being counted. *)
NotEnded(s) == pending_requests

Ended(s) == [pending_requests EXCEPT ![s] = @ - 1]

(* publish_response(), and the request has ended. *)
Respond ==
  /\ pc["mqtt"] = "respond"
  /\ pending_requests' = Ended(at["mqtt"])
  /\ server_mutex' = [server_mutex EXCEPT ![at["mqtt"]] = Nobody]
  /\ at' = [at EXCEPT !["mqtt"] = NoServer]
  /\ Go("mqtt", "idle")
  /\ request' = "read"
  /\ UNCHANGED <<to_notify, update_task, contextVars, register_state, object_tree_lock,
                 timerVars, sent, crashed>>

-----------------------------------------------------------------------------
(* The scheduler's thread runs update_func() or a notify function. *)
FireTask(t) ==
  /\ pc["sched"] = "idle"
  /\ t \notin freed
  /\ Timer!Fire(t)
  /\ at' = [at EXCEPT !["sched"] = t[2]]
  /\ Go("sched", IF t \in NotifyTask THEN "notify" ELSE "update")
  /\ UNCHANGED <<mqttVars, update_task, contextVars, serverVars, object_tree_lock,
                 sent, crashed>>

(* A task that is freed is still on the list if CANCEL took off another one. *)
FireFreed ==
  /\ pc["sched"] = "idle"
  /\ running = NoTask
  /\ freed \cap Values(armed) # {}
  /\ Crash

(* update_on_server(): the object tree is serialised under its lock ...    *)
UpdateOnServer ==
  /\ pc["sched"] = "update"
  /\ object_tree_lock = Nobody
  /\ Go("sched", "check")
  /\ UNCHANGED <<at, mqttVars, update_task, contextVars, serverVars, object_tree_lock,
                 timerVars, sent, crashed>>

FinishTask ==
  /\ Timer!Return
  /\ Go("sched", "idle")
  /\ at' = [at EXCEPT !["sched"] = NoServer]
  /\ UNCHANGED <<mqttVars, update_task, contextVars, serverVars, object_tree_lock,
                 sent, crashed>>

(* ... register_state is read without the server's mutex ... *)
CheckRegistered ==
  /\ pc["sched"] = "check"
  /\ register_state[at["sched"]] = 1
  /\ Go("sched", "send")
  /\ UNCHANGED <<at, mqttVars, update_task, contextVars, serverVars, object_tree_lock,
                 timerVars, sent, crashed>>

SkipUpdate ==
  /\ pc["sched"] = "check"
  /\ register_state[at["sched"]] # 1
  /\ FinishTask

(* ... and the UPDATE, or the notification, is published. *)
SendUpdate == pc["sched"] = "send" /\ FinishTask

SendNotify == pc["sched"] = "notify" /\ FinishTask

-----------------------------------------------------------------------------
(* A call that comes too late for the scheduler, see TimerService. *)
CallNeverReturns ==
  /\ \/ pc["mqtt"] = "schedule"
     \/ pc["mqtt"] = "handle" /\ request = "observe"
     \/ pc["mqtt"] = "handle" /\ request = "cancel" /\ NotifyTaskOf(at["mqtt"]) # NoTask
     \/ pc["main"] = "dereg_cancel" /\ update_task # NoTask
  /\ Timer!NeverReturn
  /\ UNCHANGED <<threadVars, contextVars, serverVars, object_tree_lock, sent, crashed>>

Main ==
  \/ StartRegister \/ RegisterOnServer \/ AddServer \/ WaitForRegistered
  \/ \E s \in Server : Deregister(s)
  \/ DeregisterInTree \/ DeregisterCancel \/ DeregisterNoTask \/ DeregisterSend

Mqtt ==
  \/ \E s \in Server :
       \/ OnRegister(s) \/ OnDeregister(s) \/ ResponseOfUnknownServer(s)
       \/ NotifyObserver(s)
       \/ \E kind \in Request : ReceiveRequest(s, kind)
  \/ ScheduleUpdate \/ Registered \/ LockServer
  \/ HandleExecute \/ HandleObserve \/ HandleCancel \/ HandleCancelNone \/ EnterTree
  \/ Notified \/ LeaveTree \/ Respond

Sched ==
  \/ \E t \in Values(armed) : FireTask(t)
  \/ FireFreed
  \/ UpdateOnServer \/ CheckRegistered \/ SkipUpdate \/ SendUpdate \/ SendNotify

Next == ~crashed /\ (Main \/ Mqtt \/ Sched \/ CallNeverReturns)

Spec == Init /\ [][Next]_vars

(* Every thread keeps running, and a thread that waits for a mutex or a    *)
(* semaphore gets it when it is free again and again.  The application is  *)
(* not obliged to deregister, nor a server to send anything.               *)
Steps(th) ==
  CASE th = "main" -> Main /\ ~(\E s \in Server : Deregister(s))
    [] th = "mqtt" -> Mqtt /\ pc["mqtt"] # "idle"
    [] th = "sched" -> Sched

FairSpec == Spec /\ \A th \in Thread : SF_vars(~crashed /\ Steps(th))

-----------------------------------------------------------------------------
(* receive_request() is past its checks for this server. *)
Handling(s) ==
  at["mqtt"] = s /\ pc["mqtt"] \in {"handle", "in_tree", "in_notify", "respond"}

Deregistering(s) == at["main"] = s

(* "Server can deregister only if all requests ended"                      *)
(* (lwm2m_transport_mqtt.c:324), and none begins later: no request of a    *)
(* server is being handled, so no response to it will be published, from   *)
(* the moment deregister_on_server() passes its wait.                      *)
NoRequestOnceDeregistering ==
  \A s \in Server : Deregistering(s) \/ "deregister" \in sent[s] => ~Handling(s)

(* pending_requests counts the requests being handled, whatever way each of *)
(* them ends: deregister_on_server() does not wait for a request that is   *)
(* over, nor pass one that is not.                                         *)
PendingIsHandled ==
  \A s \in Server : pending_requests[s] = IF Handling(s) THEN 1 ELSE 0

(* No UPDATE follows the DEREGISTER of a server, although update_on_server()*)
(* looks at register_state without the server's mutex: cancel() waits for  *)
(* the update that is under way.                                           *)
NoUpdateAfterDeregister ==
  \A s \in Server :
    "deregister" \in sent[s] => ~(pc["sched"] = "send" /\ at["sched"] = s)

(* While a server is registered, each update and notify task made for it    *)
(* stays scheduled until it calls it off, whatever becomes of other servers *)
(* and tasks, but for two cases: another server has begun to deregister,   *)
(* and has an update task with the same id, or a notify task with that id   *)
(* was called off.  Either cancel() may have taken this one off instead.   *)
BeingScheduled(t) == pc["mqtt"] = "schedule" /\ t = UpdateTaskOf(at["mqtt"])

MayBeTaken(t) ==
  \/ \E u \in Values(update_tasks) :
       u[2] # t[2] /\ register_state[u[2]] = 0 /\ IdOf[u] = IdOf[t]
  \/ \E u \in freed : IdOf[u] = IdOf[t]

RegisteredKeepsTasks ==
  \A t \in Values(update_tasks) \cup Values(observers) :
    register_state[t[2]] = 1 /\ ~BeingScheduled(t) =>
      t \in Values(armed) \/ MayBeTaken(t)

(* lwm2m_start_client() returns to the application: an answer to REGISTER  *)
(* that reached the MQTT thread wakes wait_for_registered().               *)
Registering == pc["main"] \in {"start", "register", "add", "wait", "waiting"}

RegisterReturns ==
  pc["mqtt"] = "schedule" ~> (crashed \/ ~Registering)

(* A pointer that is null or freed is followed in five cases only: a        *)
(* response overtakes the entry of its server in context->servers; one     *)
(* comes after the deregistration that took the server out; a server is    *)
(* deregistered and had no answer when its update task was looked up; it   *)
(* calls off what it does not observe; a notify task that was called off    *)
(* and freed is on the scheduler's list still.                             *)
NullOnlyThen ==
  crashed =>
    \/ \E s \in Server :
         /\ "register" \in sent[s] /\ ~lcontains(servers, s)
         /\ \/ pc["main"] = "add" /\ Head(todo) = s
            \/ "deregister" \in sent[s]
    \/ pc["main"] = "dereg_cancel" /\ update_task = NoTask
    \/ pc["mqtt"] = "handle" /\ request = "cancel" /\ NotifyTaskOf(at["mqtt"]) = NoTask
    \/ freed \cap Values(armed) # {}

(* update_func() has the scheduler and waits for the object tree, and the   *)
(* thread that has the tree waits for the scheduler, in cancel() or in     *)
(* execute().                                                              *)
Circle ==
  /\ pc["sched"] = "update"
  /\ \/ object_tree_lock = "main" /\ pc["main"] = "dereg_cancel"
     \/ object_tree_lock = "mqtt" /\ pc["mqtt"] = "in_tree" /\ to_notify # {}

(* cancel() came before the schedule() of the same task and used the       *)
(* scheduler up, see TimerService.                                         *)
Hung == Circle \/ running = Wedged

(* "all requests ended" (lwm2m_transport_mqtt.c:324): as long as no request *)
(* is refused, which keeps the tree locked (LeaveTree), a request comes to *)
(* its end, and so does a deregistration, unless the threads hang in one   *)
(* of the two ways above.                                                  *)
RequestsEnd == \A s \in Server : Handling(s) ~> (crashed \/ ~Handling(s) \/ Hung)

DeregistersUnlessHung ==
  (\E s \in Server : Deregistering(s)) ~> (crashed \/ pc["main"] = "run" \/ Hung)
=============================================================================
