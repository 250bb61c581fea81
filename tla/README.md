# lynx-lwm2m in TLA+

lynx-lwm2m is an OMA LWM2M client library in C that speaks LWM2M over MQTT: it
is bootstrapped, registers on several servers, keeps its registrations alive
and serves requests on its object tree.  This directory holds models of its
core, the TLC runs that check them, and theorems about them that TLAPS proves.

    tlc -workers 2 -config Scheduler_all.cfg MCScheduler.tla        # a run
    tlapm Scheduler_proofs.tla                                      # the proofs

PROJECT.json lists the components, the runs, the mutants (for each property of
a passing run, a faulty variant of one definition that breaks it; they stand
in the modules, before what they vary), the source
lines each definition stands for, the hazards, the findings and the theorems.
Paths below are those of the repository.

## 1. The system

Three threads share one `lwm2m_context`:

* the **application's thread** calls `lwm2m_start_client()` (create the object
  tree, `start_mqtt`, `lwm2m_bootstrap`, `scheduler_start`, `lwm2m_register`, in
  this order), `set_value()` and `deregister()`;
* the **MQTT library's thread** calls `on_message()` for one message at a time:
  requests of servers, answers to REGISTER and DEREGISTER, and the bootstrap
  server's commands;
* the **scheduler's thread** runs the tasks that are due: updates of the
  registrations and notifications.

### Components

| Component | State | Operations | Correct when |
|---|---|---|---|
| Keyed list (`src/list.c`) | elements in order, `greatest_key`, `size`, the semaphore `guard` | `ladd`, `lfind`, `lcontains`, `lremove` | the newest element with a key is found; the greatest key is the greatest; the guard is given back |
| Scheduler (`src/scheduler.c`) | `task_list`, waking times, `lock`, `condition`, `stop` | `schedule`, `cancel`, `execute`, `stop_scheduler`; the thread's `await` and `process_tasks` | a task runs when due, never early, never after its cancel, never together with another; no wakeup is lost |
| Registration (`src/lwm2m_register.c`) | `context->state`, `servers`, `update_tasks`; per server `register_state`, `pending_requests` and its mutex | `lwm2m_register`, `on_server_register`, `update_on_server`, `deregister_on_server`, `on_server_deregister` | a registration is updated until it is deregistered, nothing is sent after; registering and deregistering end |
| Dispatch (`src/lwm2m_transport_mqtt.c`) | topics; the pending counter | `receive_message`, `receive_request`, `receive_response` | no request is served once deregistration began; every accepted request is handled before DEREGISTER |
| Device management (`src/lwm2m_device_management.c`, `src/lwm2m_object.c`) | the object tree under `object_tree_lock` | READ, WRITE, CREATE, DELETE, EXECUTE | requests do what they may and leave the tree consistent and unlocked |
| Access control (`src/lwm2m_access_control.c`) | the instances (ACOs) of object 2 | the checks; the ACO of a new instance | a server does only what the ACOs allow; ACOs live and die with what they are about |
| Client and bootstrap (`src/lwm2m_client.c`, `src/lwm2m_bootstrap.c`) | `context->state`, a mutex and condition | `lwm2m_start_client`; write, delete, delete-all, finish; the waits | nothing is sent before the client knows its servers; the start returns when a server has answered |
| Information reporting (`src/lwm2m_information_reporting.c`) | observers: task per server and resource, instance or object | observe, cancel, notify | notified while observing, never after; freed tasks are not run |
| Attributes (`src/lwm2m_attribute.c`) | `pmin`, `pmax`, `gt`, `lt`, `stp`, `dim` per level and server | lookups, merging, `should_notify` | the innermost value set wins; notifications keep their distance |
| Parsers (`src/lwm2m_parser_*.c`) | none | TLV, text, topics, link format | parsing undoes serialising |

### How they interact

All tables are keyed lists.  `on_server_register()` schedules an update task;
`update_on_server()` takes `object_tree_lock` on the scheduler's thread to
serialise the tree; `deregister_on_server()` waits for `pending_requests` to
drop, takes `object_tree_lock` and cancels the update task, which takes the
scheduler's lock; a WRITE holds `object_tree_lock` while it notifies, through
`execute()`, under the scheduler's lock.  CREATE and DELETE keep ACOs in step
with instances; every check reads them and the length of `context->servers`,
which registration changes on another thread.  The bootstrap server's commands
go straight to the tree: they take neither a server's mutex nor
`object_tree_lock` and are served at any time.  OBSERVE schedules a notify
task and enters it in the observers of its target; `set_value()` on the
application's thread looks it up there, asks the attributes whether and how
soon the server wants to know, and runs it through `execute()`; CANCEL frees
it, DELETE frees the list it is in.  None of this takes `object_tree_lock`.

### What is hard

* Locks: the guards of the lists, the scheduler's lock, a mutex per server,
  `object_tree_lock`, and the condition variables of start-up are taken in
  different orders by the three threads, and several early returns keep one.
* Condition variables: a signal reaches only who waits; each wait depends on
  what the waiter looks at before and after.
* Messages: answers come late, twice, or before the call that asked for them
  has returned; requests of all servers come between any two steps.
* Pointers that outlive what they point to: tasks, instances and parsed
  values are freed by one party while linked elsewhere.
* Nothing is persisted, so there is no recovery after a crash to check.

PROJECT.json lists each of these at its line under "hazards".

## 2. Plan

| | Modules | Question | State |
|---|---|---|---|
| 1 | `Lists`, `Lists_proofs` | the list all else is built on | done |
| 2 | `Scheduler`, `TimerService`, `Scheduler_proofs` | does the scheduler keep what a timer promises? | done |
| 3 | `Registration`, `Registration_proofs` | the three threads: registering, requests, updates, deregistering | done |
| 4 | `ObjectTree`, `DeviceManagement`, `AccessPolicy` | does the tree with its ACOs implement an access policy? | done |
| 5 | `Startup`, `StartService` | start-up: the connection, bootstrap and registration, with commands at any time | done |
| 6 | `Observe`, `Subscriptions` | observation against cancel, delete and `set_value`, over the scheduler's promises | done |
| 7 | `Attributes` | lookups and merging against the header; who is notified, and how soon | done |
| 8 | `Tlv`, `Values` | parsing against serialising, and what servers read and write back | done |
| 9 | `LinkedList`, `KeyedList` | the pointers of `list.c` under the raw loops of its callers, implementing `Lists` | done |
| 10 | `DeviceManagement_proofs` | `AcoDescribesLive`, whose policy it is, and the refinement for every number of servers and objects | done |
| 11 | `Observe_proofs`, `Startup_proofs` | `ScheduledIsListed`, `FaultsAsKnown`, `HandOver` and the refinements | done |
| 12 | `Registration_proofs`, `Resource_proofs` | `RegisteredKeepsTasks`, `NullOnlyThen`, `NotTooOften` | done |
| 13 | `LinkedList_proofs` | the refinement of `KeyedList` and what loops without the guard see, for any memory and number of threads | done |
| 14 | `Resource_proofs` | `DecodesIffPortable`, `WriteBackRestores`: parsing and serialising for values and messages of any length | done |

`Lists` is used by `Scheduler`, `Registration`, `ObjectTree`, `Startup`,
`Observe` and `KeyedList`, which `LinkedList` implements.  `Scheduler`
implements `TimerService`; `Registration` and `Observe` use `TimerService` in
its place.  `DeviceManagement` builds on `ObjectTree` and implements
`AccessPolicy`; `Startup` implements `StartService`, `Observe` implements
`Subscriptions`, and `Values` builds on `Tlv`.

## 3. The modules

### Lists, KeyedList, LinkedList
A list is the sequence of its elements, newest first, with `greatest_key` and
`guard`.  The functions of `list.c` run under the guard, so each is an operator;
`lremove` on an empty list returns with the guard at 0, and callers conjoin
`Usable`, since they would block.  `KeyedList` is a list with `ladd` and
`lremove` as its two steps.

`LinkedList` is `list.c` with its elements in memory.  `mem` says what is at
each address, or that nothing is; `malloc` takes any address that is not in
use, one just freed included.  `Nth` is where `l->first` leads in n steps,
`Chain` the addresses passed on the way to NULL.  The functions under the guard are in two to four
steps each: `Allocate` and `Link` for `ladd`; `RemoveKey`, then `UnlinkFirst` or
`UnlinkNext`, `Clear` and `Free`, or `RemoveNone`, for `lremove`.  Outside the
guard are `Return`, where `lfind` reads `curr->value` after its `sem_post`, and
the loops over `l->first` of `example.c`, `should_notify` and
`__resolve_server` (`Loop`, `Body`, `Step`).  `gone`, `there` and `visited` are
history: whether what a thread stands at was removed since, what was in the
list all through its loop, and where the loop has been.

### Scheduler and TimerService
A process is the scheduler's thread or a caller, and a step is a section under
`scheduler->lock` (`lock` is its owner).  `at` is where each thread stands:
`Schedule`, `Cancel`, `Execute`/`ExecuteReturn` and `StopScheduler` are the
calls; `Await`, `WaitTimesOut`, `Wake`, `RunTask`, `TaskReturns` and
`EndOfPass` the thread, whose `pthread_cond_timedwait` releases the lock and
may wake without cause (`SpuriousWakeup`).  `Tick` is `time(0)`; how late a
task is, is counted up to `Overdue`.  Two tasks created in the same second
have one id: `generate_task_id()` seeds with `time(0)` and takes the first
number, and `cancel()` removes by id.

`TimerService` is what is left for a caller: a list of tasks under their ids,
of which `cancel()` takes off the one scheduled last of those with its task's
id; one that is on the list fires, one at a time; `schedule()` and `cancel()`
wait for a task function that runs.  `Scheduler` is proved to implement it
whatever the ids are.  That `cancel()` takes off the very task it was called
with, and no other one (`CancelIsFinal`), holds only if ids are unique
(`UniqueIds`), so nothing else here builds on it.

### Registration
Three threads with a program counter each.  The main thread registers every
server (`RegisterOnServer` publishes, `AddServer` links: two steps), waits,
and deregisters servers in any order; the MQTT thread takes an answer or a
request and goes through `receive_request` lock by lock; the scheduler's
thread runs tasks, update or notify.  The scheduler itself is `TimerService`
(`armed`, `running`), which `Scheduler` is proved to implement without a
condition.  A task is its kind, its server, its number and its id; the id of a
new one is that of any task made before (the same second) or a new one
(`TaskIds`), so that `DeregisterCancel` and `HandleCancel` may take off the
update or notify task of another server.  `freed` are the notify tasks that
CANCEL has freed: one that is on the scheduler's list still, because `cancel()`
took another in its place, is followed by the scheduler's thread (`FireFreed`).
`sent` is what was published, `crashed` that a null or freed pointer was
followed.  The broker delivers answers at any time once the request was
published, and as often as it likes until `MaxTasks` tasks were made.
Handlers are abstracted to the locks they hold (`Kinds`: they read, write and
notify, observe, call off, execute, or are refused).

### ObjectTree, DeviceManagement, AccessPolicy
`instances` maps each object to its list.  An instance is its id, whether it
has its mandatory values, and whether its memory is live; an ACO adds what it
is about, its owner and its list of entries, where an entry is a set of
rights, a null value or freed memory.  Each request or bootstrap command is
one step, because the MQTT thread handles one message at a time and no other
thread changes the tree.  `Register` and `Deregistered` change the number of
listed servers, on which both the checks and CREATE depend.  `fault` is set
when a step follows a pointer that is null or freed, and nothing follows.
`MergedAcls` lists the outcomes of merging a list when the fields
`create_resource()` and `lwm2m_resource_new()` leave uninitialised hold null
or another pointer, a type or none; the outcome that a garbage type copies the
value as another type is left out.

`AccessPolicy` says what the ACOs are for without any of this: what exists has
a policy or none, a server does only what the policies allow, an instance
created among several servers is its creator's, and policies change only with
what they are about or by a server that is alone.  What a server creates when
it is the only one listed has no policy (`CreateAlone`): that is the code's
exception, against its comment on CREATE, by which every account counts; the
run `device_management_accounts` checks the comment.  `ImplementsAccessPolicy`
instantiates it with `policy` read off the tree by `AcoFor`.  Since
its step is one of some server, `OnlyByRight` adds that it is one of the server
that sent the request.

`Careful` chooses the bootstrap server: one that writes each instance once and
complete, ACOs about what exists, and is done before the client registers; or
one that sends up to `MaxCommands` commands of any kind at any time.

### Startup and StartService
`Startup` is `lwm2m_start_client()` on the main thread, `pc` where it stands,
and the callbacks of the MQTT library, which run one at a time and are one step
each.  `StartMqtt`, `Bootstrap`, the smartcard's or the factory's callback
(`SetUp` writes an account, `SetUpAlready` relies on those there are,
`NothingSetUp` leaves the server object empty), `Announce` (`publish_connected`), `WaitForBootstrap`, `Register`,
`RegisterOnServer` and `WaitForRegistered` are main's; `OnConnect`,
`OnConnectFail`, `OnConnectionLost`, the bootstrap commands, `Finish` and
`OnServerRegister` the callbacks.  `state` is `context->state`, which both
sides set, main once without the mutex.  Of the tree there is as much as
registering reads: which accounts have a server and which a security instance,
and which of these are freed and still linked.  `manners` is the bootstrap
server's: "careful" is one that starts when the client has said that it is
there and ends with its finish, "any" sends any command at any time.

`StartService` is what the start owes the application and the servers.  It has
no waits and no commands: being informed, sending each server one REGISTER,
returning once one has answered or when there is none.

### Observe and Subscriptions
`Observe` has one resource with its instance and object, and the three threads.
A value is a pointer into `memory`, which is unallocated, uninitialised, freed
or the how-manieth value set; `held` is the pointer to the old one in
`set_value()` or `merge_resource()`.  `ReadOld`, `Store` and `Fill` are
`__set_value`, `Choose` is `should_notify` (any set of servers: the conditions
are the subject of Attributes), `FreeOld` the WRITE's; `Find`, then
`SkipRecent` or `Execute`, and `TaskReturns` are one turn of the loop that
notifies.  `Observe`/`Enter`, `CancelObserve`/`Cancel`/`Unlist`/`FreeTask` and
`Delete` are the requests, `Resolved` what they are about when the instance is
gone.  The scheduler is `TimerService`, and a task has an id, new or that of
one made before (`TaskIds`).  After two OBSERVEs in one second, a CANCEL of the
older takes the newer off the scheduler's list, and the older is freed while it
is on it: `Fire` then follows a freed task.  The update tasks of the servers
are on that list as well (`OnRegister`, `Deregister`, in one step each: their
steps are in Registration), so that a CANCEL and a deregistration may take off
one another's.  What an update task does when it fires touches nothing that is
modelled here, so only notify tasks fire.  `fault` says by which thread and how
memory was misused, and nothing follows it.

`Subscriptions` is the server's side: notified while it has asked more often
than it has called off, and of values in the order in which they were set.

### Attributes
What each server wrote at each level (`attrs`), the defaults in its Server
object, and the lookups by their names in the code, as functions that return
the cell a pointer would point to.  A setter holds such pointers
between looking them up (`LookUp`, `LookUpPmin`) and following them (`Compare`,
`Check`); `dangling` are those freed meanwhile by `WriteAttributes` or
`WriteDefault`.  Ages are seconds since the last notification, up to `MaxAge`.
`written` and `since` are history, kept apart from how the code merges and
resets.  `Observer` is what the task of an observation keeps.

### Tlv and Values
`Tlv` is the header and the value in both directions, byte by byte, with the
boundaries the code has (`< 0xFF`, not `<=`), its byte orders, the precedence of
the casts in the length field, and `char` with or without a sign (`signed`).
`Parsed` is what the parser makes of the element at a place in the message,
`Elements` the loop of the three parsers, a recursive function over the bytes,
and `Decode` what becomes of the value, a STRING up to its first zero.
`Values` has an object whose instances have a resource of one type:
`ReadResource`, `ReadInstance`, `ReadObject` and `ReadEntries` put into
`response` what the server is sent, `WriteResource`, `WriteInstance` and
`WriteObject` write that back, and `SetValue` and `Delete` come between.  Text
is what printing and parsing do to a value together (`TextOf`).  A message
whose element has no sensible end, an id `create_resource()` has no definition
for, or a payload longer than its buffer (`BufferSize`) wrecks the program
(`Wreck`).

## 4. The runs

| Run | Shows | Bounds | Distinct states |
|---|---|---|---|
| `scheduler` | type, exclusive task functions, a cancelled task does not run, the thread does not oversleep, refinement of `TimerService`; an armed task runs, stop ends the thread | 2 callers, 2 tasks with an id each, periods 1-2, `Overdue` 2 | 37,556 |
| `scheduler_same_second`\* | with equal ids, cancel removes another task | 2 callers, 2 tasks with one id | |
| `registration_safety` | nothing served once deregistering, accepted requests handled first, no UPDATE after DEREGISTER, a registered server keeps its tasks but for equal ids, where null or freed pointers are followed | 2 servers, 3 tasks, update or notify, with equal ids or not, requests that write, observe, call off and are refused | 3,482,724 |
| `registration_live` | an answer to REGISTER lets the start return; requests and deregistrations end unless the threads hang in one of two ways | 2 servers, 2 tasks, requests of every kind but refused ones | 95,632 |
| `device_management_safety` | ACOs in step with instances; refinement of `AccessPolicy`; a policy is changed by who has the right | 2 servers, an object with instances 0-1, ACOs 0-2, careful bootstrap | 43,633 |
| `device_management_any` | a new instance is its creator's in spite of ACOs left over | 2 servers, an object with several instances and one with a single one, one id each, ACOs 0-2, 3 bootstrap commands of any kind | 587,693 |
| `device_management_accounts`\* | an instance created while one of two accounts is listed gets no ACO | as `device_management_safety` | |
| `startup` | with any bootstrap server, refinement of `StartService` and no lost finish; with a careful one, no bad pointer, a state that only advances, a start that returns | 2 accounts | 31,452 |
| `observe` | refinement of `Subscriptions`; a server that observes hears of a value set, but for equal ids; each `cancel()` takes one task off, with the id of the one called off; which thread may use freed memory | 1 server, 2 targets, 2 tasks, update or notify, with equal ids or not, 2 values | 650,381 |
| `values` | what is parsed is what was serialised exactly when it is portable; writing back restores | 5 types, 2 to 6 values each, 2 ids, 3 steps, `char` signed and not | 48,455 |
| `attributes` | lookups as the header documents; pmin keeps notifications apart; which pointers may dangle | 2 servers, 3 payloads, 2 defaults, 2 WRITEs, 2 values, ages to 3 | 841,270 |
| `linked_list` | refinement of `KeyedList`; loops without the guard see all that stays; `lfind` returns what was there; faults at removed elements only | 2 threads, 3 addresses, 2 keys, 2 values, 6 calls | 310,721 |

\* TLC finds the property violated; the findings in PROJECT.json quote the
header and the comment that promise it.

`TypeOK` states the types of the variables of every module; it is a property of
the runs where a guard given back twice or a count below zero would break it,
and in the others only documents the variables.

What the properties that allow exceptions say is where the exceptions end.
They would not catch the exceptions themselves, and PROJECT.json says so under
the hazards concerned:

* `RegisteredKeepsTasks` and `ValueReported` leave out tasks that may have been
  taken off by a `cancel()` for another one with the same id; `FaultsAsKnown`
  of Observe admits that the scheduler's thread follows a freed task only if
  another one with its id, still wanted, was taken off in its place;
  `ScheduledIsListed` counts the tasks of each id, and says which are off if
  their ids differ.
* `NullOnlyThen` has the five situations in which Registration follows a null
  or freed pointer; `RequestsEnd` and `DeregistersUnlessHung` allow two deadlocks
  (`Hung`) and no other, and leave out refused requests, which keep the tree.
* Each `FaultsAsKnown` says which thread can use freed memory, and at what.
* `StopEndsThread` is about a scheduler with a task: without one the thread
  waits for ever.  That it keeps the mutex when it returns is in the model, and
  no property claims that a later call returns.
* `HandOver`, `StateAdvances` and `StartReturns` are about a careful bootstrap
  server: one that deletes all or sends on after its finish is in Startup, and
  only `ImplementsStartService` and `BootstrapReturns` include it.
* `NotTooOften` leaves out another thread's notification between the look at
  pmin and the execution, `LookupsAsDocumented` `pmin` where the object has a
  `pmin` or a `pmax`.
* `DecodesIffPortable` is an equivalence, so that it says of every value that is
  not portable that it does not come back.

**Seen while modelling, without a run of their own.**  These behaviours are in
the models, at the action named:

* An answer to REGISTER that is handled before `ladd(context->servers)`
  (`src/lwm2m_register.c:199`) follows a null pointer, although "Register on
  all servers in context asynchronously" (256) invites it
  (`ResponseOfUnknownServer`).
* `deregister_on_server()` calls `cancel()` (`src/lwm2m_register.c:130`) with
  `object_tree_lock`, while an update on the scheduler's thread waits for that
  with the scheduler's lock.  The circle also closes when a WRITE notifies
  through `execute()` (`Circle`).
* A refused READ, instance WRITE or CREATE returns with `object_tree_lock`
  (`src/lwm2m_device_management.c:132` and others), and the next request that
  needs the tree never ends (`LeaveTree`).
* When the other server joins, the next request on an instance that was created
  while one was listed, without an ACO, follows a null pointer (`CreatedTree`,
  `RequestFails`).
* A deregistration in the second in which several REGISTERs were answered ends
  the updates of the server answered last, not of the one that deregisters,
  whose task fires on to no effect (`DeregisterCancel`).  A CANCEL does the same
  to notifications (`Cancel`), or to updates (`HandleCancel`), and there the task
  that stays on the scheduler's list is freed (`Fire`, `FireFreed`).
* CANCEL of what a server does not observe follows a null pointer
  (`CancelObserve`, `HandleCancelNone`).
* A task alone in the scheduler runs every period + 1 seconds, for `await()`
  adds a second to the earliest waking time (`Await`; the bound in
  `NeverOversleeps` is 1 and not 0 for that).
* With several servers `lwm2m_register()` returns at the first answer of any of
  them (`WakeMain`).
* A CREATE that is refused for a missing resource leaves the instance
  (`CreateIncomplete`), and CREATE on an object with a single instance follows
  a null pointer (`CreateFails`).
* A WRITE of a list entry for a server not yet named links parsed memory and
  frees it (`MergedAcls`, `ReadFreedEntry`).
* Delete-all frees the instances and keeps them linked (`BootDeleteAll`), so
  the bootstrap write that follows uses freed memory (`BootWrite`).
* Nothing tests whether an instance or resource was found (`NotFound`,
  `BootNotFound`); OBSERVE and CANCEL take the object in its place (`Resolved`).
* A finish that arrives before the client has announced itself is forgotten if
  it is handled before `lwm2m_bootstrap()` sets the state, and one that arrives
  while it registers sets the state back, so that the start waits for another
  answer (`Bootstrap`, `Finish`, manners "any").
* `start_mqtt()` that fails is not noticed: the client goes on without a
  connection and waits for a bootstrap server (`StartMqttFails`).
* CANCEL frees a task `set_value()` has found and is about to execute
  (`FreeTask`, `Execute`), and a WRITE frees a value another thread is reading
  (`FreeOld`, `TaskReturns`).
* An integer of two bytes comes back with its bytes swapped, but for
  `255`, which is written as two bytes and read as 65280; a LINK comes back with its two ids
  exchanged and swapped; in text it comes back with `object_id` for both.
* Attributes are freed on overwriting only when `dim` is set (`Freed`), and
  `pmin` of an object is looked for in `pmax` (`get_object`).

**Why the bounds are enough.** Two callers and two tasks give every pair of
sections of the scheduler, and a list in which a task has a neighbour. Periods
1 and 2 make the earliest task change, and with `Overdue` 2 a task may be late
by a whole period. Two servers are one that is alone and one that is not, the
distinction `context->servers->size` makes. Three tasks in Registration are a
duplicate update task beside one of the other server, two update tasks with one
id beside a notify task, or a notify task that is called off beside one of each
server; two are enough for how calls end, where tasks tell apart no more than
whose they are. With ids 0 and 1 an id is used, freed and used again while
another stays; ACO ids 0-2 hold the ACO of CREATE and one for each instance, or
the one left over beside a new one. Three commands are what it takes to write,
delete and write again.

One account is enough for what can come between two steps of the start, a
second is the one that is missing, freed or silent. Beyond the runs listed, the
invariants of Observe hold with two servers and three tasks (the object, one
value: 3,423,451 states), and with all three targets and three tasks (one
server, one value: 5,149,095); all its properties with two servers and two
tasks (the object, one value: 84,621). Attributes was also run with both
setters and one server (827,875), LinkedList with three keys and five calls
(2,272,846): nothing new. Two OBSERVEs make one that shadows another, or one
OBSERVE and one registration two tasks of different kinds, two values an old
one and a new one; two WRITEs of attributes are a value and its successor, and
ages up to 3 go past the largest pmin that is written. The values are those on
either side of each boundary in the code, 255, 256, 65535 and 16777215 where
they can be reached. A third thread adds nothing to LinkedList: writers exclude
one another, and readers do not see each other.

**Deadlock.**  All runs but those of Scheduler allow states without successor:
the program stops after a fault, an exit, in the deadlocks named and with a
lock that was kept, and the models where a bound is reached or the start has
returned.

**Bounds by name.**  Scheduler: `Overdue`.  Registration: `MaxTasks`.
DeviceManagement: `MaxId`, `MaxAcoId`, `MaxCommands`, and the sets `BootPolicy`
and `Written` of the lists that are written.  Observe: `MaxTasks`, `MaxSets`.
Values: `MaxSteps`, `BufferSize` and the sets `Sample` and `EntrySample`.
Attributes:
`MaxWrites`, `MaxSets`, `MaxAge` and the sets `Payload` and `Default`.
LinkedList: `MaxCalls`.

## 5. Fairness

*Scheduler.*  Weak fairness of the thread's steps and of the return of task
functions: the thread runs when it can.  Strong fairness of taking the lock
(`Await`, `Wake`), which is enabled over and over while callers take turns: a
pthread mutex does not promise it in general, but callers here hold the lock
for a few instructions and call rarely.  Time passes.  Nobody is obliged to
schedule, cancel or stop.

*Registration.*  Strong fairness of each thread's steps, for the same reason.
Nobody is obliged to send a request, to answer or to deregister: the liveness
properties start from an answer, a request or a deregistration that came.

*Startup.*  Weak fairness of main's steps.  Nobody is obliged to connect, to
finish, to answer or to wake main without cause: the properties start from a
finish or an answer that was handled.

*Observe.*  Weak fairness of the return of a task function and of the filling
of a value that was linked, and for each server strong fairness of the firing
of its notify tasks, which is what `ArmedTaskRuns` says of the scheduler.  That
run has task functions that return: one that never does, `update_func()` in the
deadlock `Circle` of Registration, stops the notifications with everything else.
The application and the MQTT thread may stop anywhere else.

*DeviceManagement*, *Values*, *Attributes* and *LinkedList* state no liveness
property and no fairness.

## 6. What is proved

The theorems hold for every set of threads and tasks, every finite set of
servers and of addresses, all periods, all values of the bounds, all kinds of
requests, and values and payloads of any length that fits in the buffers.
Each module proves that its invariant holds initially and is kept by every
action, one step per action; the theorems follow from that.

* `Lists_proofs`: what `ladd`, `lremove` and `lfind` keep and return, which
  elements `lremove` leaves, when values stay distinct and keys below
  `greatest_key`; used by the others.
* `Scheduler_proofs`: `TypeCorrect`; `NoOverlap` (task functions do not
  overlap); `WaitsForTheEarliest` (the thread is never asleep later than a
  second after a task's waking time); `CancelHolds` (a cancelled task runs only
  if it is scheduled again); `Implementation` (every step is a step or a
  stutter of `TimerService`).  The invariant is
  `Inv == TypeOK /\ LockInv /\ TaskInv`:
  exclusion is not inductive alone, it needs that whoever runs a task holds
  `scheduler->lock`.  For cancel and the refinement, `KeyedInv` adds that a
  task is listed under its own id, and what was promised to callers
  (`CancelIsFinal`): that holds when ids are unique, and
  `scheduler_same_second` shows that it fails otherwise.
* `Registration_proofs`: `TypeCorrect`, `PendingCounted` (`pending_requests`
  counts exactly the request being handled), `RequestsEndFirst` (none is being
  handled once deregistration passed its wait) and `DeregisterIsLast` (no
  UPDATE follows DEREGISTER), from `Inv == TypeOK /\ AtInv /\ MutexInv /\
  RunningInv /\ StateInv /\ SendInv /\ PendingIsHandled`.  Where a thread
  stands determines the server it is at, the mutex it holds and the task that
  runs (`AtInv`, `MutexInv`, `RunningInv`); `register_state` is 1 while a
  request is handled and 0 once DEREGISTER is out (`StateInv`); and an update
  about to be published is of a server that is registered, or whose
  deregistration has yet to cancel its task and waits for it (`SendInv`):
  without this last part `NoUpdateAfterDeregister` is not inductive, because
  the task tests `register_state` without the server's mutex.
  `TasksKept` adds `UpdateInv`: an update task is entered under the server it
  updates, the scheduler's list has each task under its id (`KeyedBy`), and the
  task about to be cancelled is of the server that deregisters, so that what
  `cancel()` takes off, there or in CANCEL, is that task or one with its id.
  `NullOnlyInFiveCases` adds `ServersInv`: each server is registered on once, and the only one that
  can have been sent a REGISTER and not be in `context->servers` is the one
  main is about to enter or one that deregistered.
* `Resource_proofs`, about Attributes: `DocumentedLookups` (lookups find what the header
  documents) from `Kept`: what is merged attribute by attribute is at every
  moment what each server wrote last, although old values are freed or leak.
  `KnownFaults` (what may dangle, and which faults that leads to) from
  `Inv == Kept /\ SettersOK /\ Comparing /\ DanglingKnown /\ FaultKnown`: a
  setter that compares holds what its own server has written (`Comparing`),
  and what dangles is a default or at a level where dim was written, since dim
  is never taken back (`DanglingKnown`).  `TypeCorrect` and `PminKept` (pmin
  keeps notifications apart, or another thread's came in between) add `SetInv`:
  the age the code keeps of an observation is the age in history (`Ages`), and
  a setter about to execute has found it above the pmin it holds, or it has
  been told since (`SetterOf`).
* `Resource_proofs`, about Values: `PortableDecodes` (the client parses what it
  serialised if and only if it is portable), `WriteBack` (what is read and
  written back is restored, whatever came between), and `ValuesTypeCorrect`
  (no value of another type comes in, portable or not).  The invariant is
  `ValuesInv`: instances have ids of two bytes and values of the type of their
  resource, and what the server holds is, byte for byte, what `sent` was
  written as, in no more than `BufferSize` bytes (`Answered`).  It is what the
  parser reads, so that the theorems follow from what parsing makes of a
  serialised value.  Values: an INTEGER comes back if its bytes are the same
  from either end (`IntBack`), and each type as it may (`EncodedBack`,
  `TextBack`).  Elements: the header is read as it was written if the length
  comes back; if not, the element goes astray or ends early (`ElementParsed`).
  Messages: elements lie one after the other (`Offsets`), and the parser is at
  the start of each when it has found those before; the first whose length does
  not come back has another value (`Framing`).  Then instances, entries and
  objects (`InstanceSays`, `EntriesSays`, `ObjectSays`), an object with the
  elements of an instance in those of the object.  The parser is a recursive
  function on the bytes read, and a payload is a fold over its elements: that
  such functions exist, and what they return, is proved from the least number
  for which it would fail (`LeastNatural`), as no theorem on induction with a
  predicate for a parameter can be used.
* `Startup_proofs`: `TypeCorrect`, `HandedOver` (main follows no bad pointer
  and waits for the bootstrap server), `StateOnlyAdvances`, and
  `Implementation` (every step is a step or a stutter of `StartService`).
  `Inv == TypeOK /\ PhaseInv /\ CarefulInv`.  `PhaseInv` holds with any
  bootstrap server: nothing is sent before the client was told of its servers,
  and BOOTSTRAPPED means that it was, from `lwm2m_bootstrap()` to the end of the
  wait; it is all that the refinement needs.  `CarefulInv` holds with a careful
  one: the state says where main is, each account has its security instance,
  nothing is freed, and nothing changes once the client was told.
* `Observe_proofs`: `TypeCorrect`, `KnownFaults` (which thread can use freed
  memory), `ListedWhenScheduled` (each `cancel()`, of a CANCEL or of a
  deregistration, takes one task off the scheduler's list, with the id of the one
  it calls off), and `Implementation` (every step
  is a step or a stutter of `Subscriptions`), whatever ids tasks have.
  `Inv == TypeOK /\ ThreadInv /\ TaskInv /\ AskedInv /\ ValueInv /\
  FaultsAsKnown`.  `TaskInv` has that tasks are numbered as they are made
  (`MadeInv`) and on the scheduler's list under their ids, none twice
  (`ArmedInv`); for each id, how many are off (`CountInv`), from which it
  follows that `cancel()` always finds one to take off (`OneIsArmed`), and that a
  freed one is on the list only in place of another (`AnotherIsOff`); what
  OBSERVE and CANCEL have looked up and not yet finished (`RequestInv`); and
  that the scheduler's thread runs only what is on its list, because `cancel()`
  waits (`FollowInv`).
  `AskedInv` counts OBSERVEs not called off as tasks not freed.  `ValueInv`
  orders values: pointers are linked in the order of their numbers, what is
  freed is older than what is linked, and nobody was told of a value newer than
  the oldest a task function can still read.
* `DeviceManagement_proofs`: `TypeCorrect` and `CreatorOwns` (a new instance is
  its creator's) with any bootstrap server.  With a careful one (the hypothesis
  `Careful`): `AcosLiveWithTargets` (an ACO lives with what it describes),
  `ChangedByRight` (a policy is changed by who has the right to) and
  `Implementation` (every request is a step or a stutter of `AccessPolicy`).
  The invariant is `CarefulInv`: types, `CarefulTree`, and all instances whole
  until the first server registers.  `CarefulTree` is `AcoDescribesLive` made
  inductive: every list has distinct values and ids below `greatest_key`, so
  that an id found names one instance, nothing is freed and still linked, and
  an ACO is about something that exists.  Each change of the tree is put as
  which instances went and which came (`Swapped`), and the lemmas on policies
  (`TargetsIn`, `PoliciesIn`, `BothCome`, `BothGo`) say what that does to what
  `AcoFor` finds: an ACO found by a search of the list is the policy of the
  abstract specification.

* `LinkedList_proofs`: `TypeCorrect`, `KnownFaults` (who comes upon freed memory
  stands at what was removed under it), `SeesAll` (a loop that ends has been at
  all that stayed), `FoundIsReturned` (`lfind` returns what it found or its
  element was removed) and `Implementation` (every step is a step or a stutter
  of `KeyedList`).  `Leads(q, f, m)` says that f leads through the addresses of
  q, each once, to NULL; such a q is unique (`StepsLead`, by the least step at
  which two would differ), so it is `Chain` (`ChainNow`), and what a new first
  element (`PushLeads`) and an unlinked one (`CutLeads`) make of it is known.
  `Inv == TypeOK /\ ChainInv /\ GuardInv /\ SizeInv /\ UsedInv /\ ThreadInv /\
  FaultsAsKnown`, with the type of `before`: `l->first` leads through the list,
  and memory in use that is not linked is that of the one thread inside
  (`UsedInv`).  `ThreadInv` has what that thread has done so far
  (`InsideInv`), that a reader is at a linked element unless that was removed
  (`ReadInv`), and what makes loops safe (`LoopInv`): from where a loop is, be
  it an element that was unlinked, or memory that was taken again, its next
  pointer leads to everything it has yet to visit.  It is kept because an
  unlinked element keeps its `next`, and an element filled in points to the
  first.  The refinement also needs that `greatest_key` is -1 or a key in the
  list (`Held`), for `lremove` on an empty list with any key.

The assumptions are those on the constants, named in each module:
`SchedulerAssumption`, `RegistrationAssumption`, `AttributesAssumption`,
`StartupAssumption`, `ObserveAssumption`, `ObjectTreeAssumption`,
`DeviceManagementAssumption`, `LinkedListAssumption` and `ValuesAssumption`.
They say that ids and keys are numbers, that what stands for a null pointer or
for freed or uninitialised memory is none of the things one can point to, that
there are finitely many servers where the code counts them and addresses where
elements may be, that there is a key, that an INTEGER has 32 bits, an id 16, a
DOUBLE eight bytes, a STRING no zero among its bytes, and that a buffer is
shorter than a length field can say.  Of `Rounded`, what `"%f"` and back makes
of a DOUBLE, nothing is assumed but that it is a DOUBLE.  `CancelHolds` alone also assumes `UniqueIds`, and the three
theorems named above `Careful`: the runs `device_management_any` and
`scheduler_same_second` have the other case.  No theorem about Registration or
Observe assumes anything of ids.
PROJECT.json gives each theorem its property.

**Only model-checked:** the liveness properties (`ArmedTaskRuns`,
`StopEndsThread`, `RegisterReturns`, `RequestsEnd`, `DeregistersUnlessHung`,
`BootstrapReturns`, `StartReturns`, `ValueReported`), which TLAPS cannot prove
under fairness.  Every invariant, every other action property and every
refinement the runs check is proved.

## 7. What is not modelled

* Names, tokens, topics and the link format of REGISTER and DISCOVER: wording,
  which nobody parses here.  DISCOVER changes no state.
* The status byte of a response: `serialize_response()` never sets its error
  bit (`response_code / 100 == 200`), whatever the code.
* OPAQUE values: `__set_value_opaque()` writes at `malloc(length) + 1`, past
  the end, and what follows is not the program's; and text of a STRING whose
  payload has no terminator.
* The serialisation of a `REGISTER` while bootstrap commands change the tree
  after the start: no lock orders the two, and any outcome is possible.
  Startup has the same race before the start has returned.
* Client-initiated bootstrap (`src/lwm2m_bootstrap.c:244-252`): the wait before
  it ends in BOOTSTRAPPED only, and `lwm2m_bootstrap()` is called once.
* Observation and registration in one module: Observe has of a registration the
  update task, from the answer to the `cancel()` that takes it off, and
  Registration of an observation the notify task, from OBSERVE to CANCEL.  What
  either kind of task does when it fires, and the locks around it, is in one of
  the two only.
* The vendored Paho and OpenSSL, and TLS: external.  The modules rely on one
  message at a time on one thread, in any order.
* `stop_mqtt()`, with which the program ends.
* The arguments of EXECUTE, and what the application's callbacks do.
* The resource tables of the predefined objects and of `example.c`: data.
* `list_add`, `list_remove` in `scheduler.c`, `lwm2m_object_create_aco_instance`
  and `__free_attribute()` of an instance that has attributes: no call reaches
  the first three, and the last takes a bootstrap delete long after the start.
* `registered_servers_num`, which decides the value `lwm2m_register()` returns
  and `lwm2m_start_client()` does not look at.
* `list_free()`: a list is freed by the one thread that still uses it, with
  what it is part of (`Delete` in Observe and DeviceManagement).
