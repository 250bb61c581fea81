------------------------------- MODULE Startup -------------------------------
(***************************************************************************)
(* lwm2m_start_client() from start_mqtt() to its return, on the main       *)
(* thread, against the callbacks of the MQTT library's thread and what the *)
(* broker and the bootstrap server make of them: the connection may fail,  *)
(* come up or be lost, bootstrap commands and answers come in any order.   *)
(*                                                                         *)
(* A step of main is what it does between two points where it can wait or  *)
(* where a callback can change what it has read; a callback is one step,   *)
(* as the library runs one at a time and the locks it takes are only ever  *)
(* held by main for a step.  How a server is registered, and what happens  *)
(* to it from then on, is the subject of Registration.                     *)
(***************************************************************************)
EXTENDS Lists, FiniteSets

CONSTANTS
  Server,       \* short server ids: the accounts that may be written
  Manners,      \* the kinds of bootstrap servers, a subset of KnownManners
  NoServer

(* A careful bootstrap server begins when the client has said that it is   *)
(* there, writes the two instances of each account, security first, then   *)
(* finishes, and sends nothing after that; nor does it send anything to a  *)
(* client that has been set up by its own callback.                        *)
KnownManners == {"careful", "any"}

ASSUME StartupAssumption ==
  /\ Server \subseteq Nat
  /\ Manners \subseteq KnownManners
  /\ NoServer \notin Server

VARIABLES
  pc,               \* where main is
  process,          \* "up", "exited", or "crashed" by a null or freed pointer
  connection,       \* the connection to the broker
  state,            \* context->state
  manners,          \* the bootstrap server's
  set_up,           \* the smartcard's or the factory callback has set it up
  announced,        \* the bootstrap server was told that the client is there
  server_object,    \* the instances of the server object, by short server id
  security_object,  \* the ids the instances of the security object are about
  freed,            \* the ids whose instances are freed and still linked
  finished,         \* history: on_bootstrap_finish() has run
  elem,             \* the instance main's loop over the server object is at
  sent, answered    \* history: REGISTER requests published, and answered

treeVars == <<server_object, security_object, freed>>
netVars == <<connection, manners, announced>>
historyVars == <<finished, sent, answered>>
vars == <<pc, process, netVars, state, set_up, treeVars, elem, historyVars>>

MainPc == {"start_mqtt", "connecting", "bootstrap", "set_up", "announce", "wait_boot",
           "in_wait_boot", "register", "register_next", "wait_reg", "in_wait_reg", "run"}

(* What the variables may be. *)
TypeOK ==
  /\ pc \in MainPc
  /\ process \in {"up", "exited", "crashed"}
  /\ connection \in {"none", "asked", "up", "lost"}
  /\ state \in {"unset", "STARTED", "BOOTSTRAPPED", "REGISTERING", "REGISTERED"}
  /\ manners \in Manners
  /\ set_up \in BOOLEAN /\ announced \in BOOLEAN /\ finished \in BOOLEAN
  /\ server_object \in ListOf(Nat, Server)
  /\ security_object \subseteq Server
  /\ freed \subseteq Server
  /\ elem \in Server \cup {NoServer}
  /\ sent \subseteq Server /\ answered \subseteq Server

(* lwm2m_create_context(), which leaves context->state unset, and          *)
(* create_object_tree().                                                   *)
Init ==
  /\ pc = "start_mqtt"
  /\ process = "up"
  /\ connection = "none"
  /\ state = "unset"
  /\ manners \in Manners
  /\ set_up = FALSE
  /\ announced = FALSE
  /\ server_object = NewList
  /\ security_object = {}
  /\ freed = {}
  /\ finished = FALSE
  /\ elem = NoServer
  /\ sent = {} /\ answered = {}

-----------------------------------------------------------------------------
Crash ==
  /\ process' = "crashed"
  /\ UNCHANGED <<pc, netVars, state, set_up, treeVars, elem, historyVars>>

(* start_mqtt() up to its pthread_cond_wait: MQTTAsync_connect() has asked *)
(* for a connection, or has failed, which is not looked at.                *)
StartMqtt ==
  /\ pc = "start_mqtt"
  /\ pc' = "connecting"
  /\ connection' \in {"asked", "none"}
  /\ UNCHANGED <<process, manners, announced, state, set_up, treeVars, elem, historyVars>>

(* MQTTAsync_create() or MQTTAsync_setCallbacks() fails: start_mqtt()      *)
(* returns, which is not looked at either.                                 *)
StartMqttFails ==
  /\ pc = "start_mqtt"
  /\ pc' = "bootstrap"
  /\ UNCHANGED <<process, netVars, state, set_up, treeVars, elem, historyVars>>

(* pthread_cond_wait returns unasked.  start_mqtt() does not wait again,   *)
(* the other two loops test what they wait for.                            *)
SpuriousWakeup ==
  /\ \/ pc = "connecting" /\ pc' = "bootstrap"
     \/ pc = "in_wait_boot" /\ pc' = "wait_boot"
     \/ pc = "in_wait_reg" /\ pc' = "wait_reg"
  /\ UNCHANGED <<process, netVars, state, set_up, treeVars, elem, historyVars>>

(* lwm2m_bootstrap(): context->state is set without a mutex, while the     *)
(* callbacks are live already.                                             *)
Bootstrap ==
  /\ pc = "bootstrap"
  /\ state' = "STARTED"
  /\ pc' = "set_up"
  /\ UNCHANGED <<process, netVars, set_up, treeVars, elem, historyVars>>

(* The smartcard's and the factory callback: there is none, it fails, or it *)
(* leaves the server object empty ...                                      *)
NothingSetUp ==
  /\ pc = "set_up"
  /\ pc' = "announce"
  /\ UNCHANGED <<process, netVars, state, set_up, treeVars, elem, historyVars>>

(* ... or it writes an account, or relies on one that is there already.     *)
SetUp(s) ==
  /\ pc = "set_up"
  /\ s \notin freed
  /\ server_object' = IF lcontains(server_object, s) THEN server_object
                      ELSE ladd(server_object, s, s)
  /\ security_object' = security_object \cup {s}
  /\ set_up' = TRUE
  /\ state' = "BOOTSTRAPPED"
  /\ pc' = "announce"
  /\ UNCHANGED <<process, netVars, freed, elem, historyVars>>

SetUpAlready ==
  /\ pc = "set_up"
  /\ lsize(server_object) # 0
  /\ set_up' = TRUE
  /\ state' = "BOOTSTRAPPED"
  /\ pc' = "announce"
  /\ UNCHANGED <<process, netVars, treeVars, elem, historyVars>>

(* Mutant of Announce: context->state is set to STARTED only here. *)
AnnounceStarts ==
  /\ pc = "announce"
  /\ announced' = (connection = "up")
  /\ state' = "STARTED"
  /\ pc' = "wait_boot"
  /\ UNCHANGED <<process, connection, manners, set_up, treeVars, elem, historyVars>>

(* publish_connected(): MQTTAsync_send() fails without a connection. *)
Announce ==
  /\ pc = "announce"
  /\ announced' = (connection = "up")
  /\ pc' = "wait_boot"
  /\ UNCHANGED <<process, connection, manners, state, set_up, treeVars, elem, historyVars>>

(* Mutant of Bootstrapping: the loop waits for client initiated bootstrap  *)
(* only.                                                                   *)
NotStarted == state = "WAITING_FOR_BOOTSTRAP"

Bootstrapping == state \in {"WAITING_FOR_BOOTSTRAP", "STARTED"}

(* lwm2m_wait_for_server_bootstrap(), at the test of its loop; then        *)
(* scheduler_start().                                                      *)
WaitForBootstrap ==
  /\ pc = "wait_boot"
  /\ pc' = IF Bootstrapping THEN "in_wait_boot" ELSE "register"
  /\ UNCHANGED <<process, netVars, state, set_up, treeVars, elem, historyVars>>

(* lwm2m_register(): with no server instance it returns -1, which is not   *)
(* looked at.                                                              *)
Register ==
  /\ pc = "register"
  /\ IF lsize(server_object) = 0
     THEN /\ pc' = "run"
          /\ UNCHANGED <<state, elem>>
     ELSE /\ pc' = "register_next"
          /\ state' = "REGISTERING"
          /\ elem' = server_object.elems[1].value
  /\ UNCHANGED <<process, netVars, set_up, treeVars, historyVars>>

(* The element after s; the loop goes on with what is linked now. *)
NextServer(s) ==
  LET i == SelectInSeq(server_object.elems, LAMBDA e : e.key = s)
  IN  IF i = lsize(server_object) THEN NoServer ELSE server_object.elems[i + 1].value

(* What register_on_server() follows: the element of the list, the server  *)
(* instance, the security instances up to the one with its id.             *)
Registrable(s) ==
  /\ lcontains(server_object, s)
  /\ freed = {}
  /\ s \in security_object

(* register_on_server(), with subscribe_server(): REGISTER is published    *)
(* and the server put into context->servers.                               *)
RegisterOnServer ==
  /\ pc = "register_next"
  /\ elem # NoServer
  /\ IF Registrable(elem)
     THEN /\ sent' = sent \cup (IF connection = "up" THEN {elem} ELSE {})
          /\ elem' = NextServer(elem)
          /\ UNCHANGED <<pc, process, netVars, state, set_up, treeVars, finished, answered>>
     ELSE Crash

(* Mutant of EndOfServers: the requests are published first. *)
EndOfServersLate ==
  /\ pc = "register_next"
  /\ elem = NoServer
  /\ pc' = "wait_reg"
  /\ state' = "REGISTERING"
  /\ UNCHANGED <<process, netVars, set_up, treeVars, elem, historyVars>>

(* The end of the loop, after which main waits. *)
EndOfServers ==
  /\ pc = "register_next"
  /\ elem = NoServer
  /\ pc' = "wait_reg"
  /\ UNCHANGED <<process, netVars, state, set_up, treeVars, elem, historyVars>>

(* Mutant of WaitForRegistered: the condition is waited for without a loop. *)
WaitForRegisteredOnce ==
  /\ pc \in {"wait_reg", "in_wait_reg"}
  /\ pc' = IF state = "REGISTERED" \/ pc = "in_wait_reg" THEN "run" ELSE "in_wait_reg"
  /\ UNCHANGED <<process, netVars, state, set_up, treeVars, elem, historyVars>>

(* wait_for_registered(), at the test of its loop. *)
WaitForRegistered ==
  /\ pc = "wait_reg"
  /\ pc' = IF state = "REGISTERED" THEN "run" ELSE "in_wait_reg"
  /\ UNCHANGED <<process, netVars, state, set_up, treeVars, elem, historyVars>>

Main ==
  \/ StartMqtt \/ StartMqttFails \/ Bootstrap \/ Announce \/ WaitForBootstrap
  \/ NothingSetUp \/ SetUpAlready \/ \E s \in Server : SetUp(s)
  \/ Register \/ RegisterOnServer \/ EndOfServers \/ WaitForRegistered

-----------------------------------------------------------------------------
(* on_connect(): it gets started_lock only when main waits in start_mqtt() *)
(* or has left it, so the signal finds main waiting.                       *)
OnConnect ==
  /\ connection = "asked"
  /\ connection' = "up"
  /\ pc' = IF pc = "connecting" THEN "bootstrap" ELSE pc
  /\ UNCHANGED <<process, manners, announced, state, set_up, treeVars, elem, historyVars>>

(* on_connect_fail(): exit(1) *)
OnConnectFail ==
  /\ connection = "asked"
  /\ process' = "exited"
  /\ UNCHANGED <<pc, netVars, state, set_up, treeVars, elem, historyVars>>

(* on_connection_lost(): a message is printed, and that is all. *)
OnConnectionLost ==
  /\ connection = "up"
  /\ connection' = "lost"
  /\ UNCHANGED <<pc, process, manners, announced, state, set_up, treeVars, elem, historyVars>>

(* A bootstrap command arrives. *)
Command ==
  /\ connection = "up"
  /\ manners = "careful" => announced /\ ~set_up /\ ~finished

(* on_bootstrap_instance_write() on the security object ... *)
WriteSecurity(s) ==
  /\ Command
  /\ s \notin security_object
  /\ security_object' = security_object \cup {s}
  /\ UNCHANGED <<pc, process, netVars, state, set_up, server_object, freed, elem, historyVars>>

(* ... and on the server object: a new instance, or a new value for the    *)
(* one there is, which may be freed.                                       *)
WriteServer(s) ==
  /\ Command
  /\ manners = "careful" => s \in security_object
  /\ ~lcontains(server_object, s)
  /\ server_object' = ladd(server_object, s, s)
  /\ UNCHANGED <<pc, process, netVars, state, set_up, security_object, freed, elem, historyVars>>

WriteFreed(s) ==
  /\ Command
  /\ s \in freed
  /\ Crash

(* on_bootstrap_delete() of a server instance *)
DeleteServer(s) ==
  /\ Command
  /\ manners # "careful"
  /\ lcontains(server_object, s)
  /\ IF s \in freed
     THEN Crash
     ELSE /\ server_object' = lremove(server_object, s)
          /\ UNCHANGED <<pc, process, netVars, state, set_up, security_object, freed, elem,
                         historyVars>>

(* on_bootstrap_delete_all(): the instances are freed where they are. *)
DeleteAll ==
  /\ Command
  /\ manners # "careful"
  /\ IF freed = {}
     THEN /\ freed' = security_object \cup Values(server_object)
          /\ UNCHANGED <<pc, process, netVars, state, set_up, server_object, security_object,
                         elem, historyVars>>
     ELSE Crash

(* Mutant of Finish: context->state is set and nobody is woken. *)
FinishUnsignalled ==
  /\ Command
  /\ manners = "careful" => security_object = Values(server_object)
  /\ state' = "BOOTSTRAPPED"
  /\ finished' = TRUE
  /\ UNCHANGED <<pc, process, netVars, set_up, treeVars, elem, sent, answered>>

(* on_bootstrap_finish() *)
Finish ==
  /\ Command
  /\ manners = "careful" => security_object = Values(server_object)
  /\ state' = "BOOTSTRAPPED"
  /\ pc' = IF pc = "in_wait_boot" THEN "wait_boot" ELSE pc
  /\ finished' = TRUE
  /\ UNCHANGED <<process, netVars, set_up, treeVars, elem, sent, answered>>

(* on_server_register(): the first answer of a server. *)
OnServerRegister(s) ==
  /\ connection = "up"
  /\ s \in sent \ answered
  /\ IF s \in freed \/ ~lcontains(server_object, s)
     THEN Crash
     ELSE /\ answered' = answered \cup {s}
          /\ state' = "REGISTERED"
          /\ pc' = IF pc = "in_wait_reg" THEN "wait_reg" ELSE pc
          /\ UNCHANGED <<process, netVars, set_up, treeVars, elem, finished, sent>>

Callbacks ==
  \/ OnConnect \/ OnConnectFail \/ OnConnectionLost
  \/ \E s \in Server : \/ WriteSecurity(s) \/ WriteServer(s) \/ WriteFreed(s)
                       \/ DeleteServer(s) \/ OnServerRegister(s)
  \/ DeleteAll \/ Finish

Next == process = "up" /\ (Main \/ SpuriousWakeup \/ Callbacks)

Spec == Init /\ [][Next]_vars

(* Main runs when it can.  Nobody is obliged to connect, to finish, to     *)
(* answer or to wake without cause.                                        *)
FairSpec == Spec /\ WF_vars(process = "up" /\ Main)

-----------------------------------------------------------------------------
phase ==
  CASE pc \in {"start_mqtt", "connecting", "bootstrap", "set_up", "announce", "wait_boot",
               "in_wait_boot"} -> "bootstrapping"
    [] pc = "run" -> "started"
    [] OTHER -> "registering"

informed == finished \/ set_up

Start == INSTANCE StartService WITH phase <- phase, informed <- informed

(* lwm2m_start_client() keeps its promise whatever the bootstrap server    *)
(* does, when waits end unasked too: no REGISTER before the client knows   *)
(* its servers, and no return before an answer.                            *)
ImplementsStartService == Start!StartSpec

(* When the bootstrap server keeps to the order the client relies on, main *)
(* follows no pointer that is null or freed; context->state is all that    *)
(* keeps it from reading the tree before the bootstrap server is done.     *)
HandOver ==
  manners = "careful" =>
    /\ process # "crashed"
    /\ pc \in {"register_next", "wait_reg"} => finished \/ set_up

(* A bootstrap finish that is handled once main has begun to bootstrap is  *)
(* never lost, wherever main is: the wait ends.                            *)
BootstrapReturns ==
  (state = "BOOTSTRAPPED" /\ pc \in {"set_up", "announce", "wait_boot", "in_wait_boot"})
    ~> (pc \notin {"set_up", "announce", "wait_boot", "in_wait_boot"} \/ process # "up")

(* With a careful bootstrap server the start returns once a server has     *)
(* answered: context->state goes on to REGISTERED and is not taken back.   *)
StartReturns ==
  (manners = "careful" /\ answered # {}) ~> (pc = "run" \/ process # "up")

(* context->state only ever advances when the bootstrap server is careful. *)
StateAdvances ==
  [][manners = "careful" =>
       \/ state' = state
       \/ state = "unset" /\ state' = "STARTED"
       \/ state = "STARTED" /\ state' = "BOOTSTRAPPED"
       \/ state = "BOOTSTRAPPED" /\ state' = "REGISTERING"
       \/ state \in {"REGISTERING", "REGISTERED"} /\ state' = "REGISTERED"]_state
=============================================================================
