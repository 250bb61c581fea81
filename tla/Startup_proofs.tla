---------------------------- MODULE Startup_proofs ----------------------------
(***************************************************************************)
(* What holds of the start for any number of accounts, whatever the        *)
(* callbacks do between two steps of main: the types, that it keeps the    *)
(* promise of StartService, and, when the bootstrap server is careful,     *)
(* that main follows no bad pointer and context->state only advances.      *)
(***************************************************************************)
EXTENDS Startup, Lists_proofs

BeforeSetUp == {"start_mqtt", "connecting", "bootstrap", "set_up"}
Waiting == {"announce", "wait_boot", "in_wait_boot"}
BootPc == BeforeSetUp \cup Waiting
Registering == {"register_next", "wait_reg", "in_wait_reg"}

KeyIsValue(l) == \A i \in DOMAIN l.elems : l.elems[i].key = l.elems[i].value

(* Whatever the bootstrap server does.  A state of BOOTSTRAPPED means that  *)
(* the client was told of its servers, from lwm2m_bootstrap() to the end of *)
(* the wait; nothing is sent before, and the state is REGISTERED only when  *)
(* a server has answered.                                                  *)
PhaseInv ==
  /\ pc \in BeforeSetUp => ~set_up
  /\ pc \in BeforeSetUp \cup {"announce"} => ~announced
  /\ pc \in BootPc \cup {"register"} => sent = {}
  /\ pc \in {"set_up"} \cup Waiting =>
       state = "STARTED" \/ (state = "BOOTSTRAPPED" /\ informed)
  /\ pc \notin BootPc => informed
  /\ answered \subseteq sent
  /\ state = "REGISTERED" => answered # {}
  /\ KeyIsValue(server_object)

(* With a careful bootstrap server the state says where main is, and what   *)
(* main is about to follow is there: each server instance has its security  *)
(* instance, nothing is freed, and nothing changes once the client was told.*)
CarefulInv ==
  manners = "careful" =>
    /\ process # "crashed"
    /\ freed = {}
    /\ pc \in BeforeSetUp =>
         /\ security_object = {}
         /\ state = IF pc = "set_up" THEN "STARTED" ELSE "unset"
    /\ pc \in Waiting => state = IF informed THEN "BOOTSTRAPPED" ELSE "STARTED"
    /\ pc = "register" => state = "BOOTSTRAPPED"
    /\ pc \in Registering \/ sent # {} => state \in {"REGISTERING", "REGISTERED"}
    /\ finished => announced
    /\ Values(server_object) \subseteq security_object
    /\ informed => security_object = Values(server_object)
    /\ sent \subseteq Values(server_object)
    /\ pc = "register_next" /\ elem # NoServer => elem \in Values(server_object)

Inv == TypeOK /\ PhaseInv /\ CarefulInv

-----------------------------------------------------------------------------
(* An account is entered under its own id. *)
LEMMA AddedAccount ==
  ASSUME StartupAssumption, NEW l \in ListOf(Nat, Server), KeyIsValue(l), NEW s \in Server
  PROVE  /\ ladd(l, s, s) \in ListOf(Nat, Server)
         /\ KeyIsValue(ladd(l, s, s))
         /\ Values(ladd(l, s, s)) = Values(l) \cup {s}
<1>1. s \in Nat
  BY DEF StartupAssumption
<1>2. ladd(l, s, s) \in ListOf(Nat, Server) /\ Values(ladd(l, s, s)) = Values(l) \cup {s}
  BY <1>1, LaddType, LaddValues
<1> DEFINE a == ladd(l, s, s).elems
<1>3. /\ DOMAIN a = 1 .. Len(l.elems) + 1
      /\ a[1] = [key |-> s, value |-> s]
      /\ \A i \in 1 .. Len(l.elems) : a[i + 1] = l.elems[i]
  BY <1>1, LaddElems
<1>4. DOMAIN l.elems = 1 .. Len(l.elems) /\ Len(l.elems) \in Nat
  BY LenProperties DEF ListOf
<1> HIDE DEF a
<1>5. ASSUME NEW i \in DOMAIN a PROVE a[i].key = a[i].value
  <2>1. CASE i = 1
    BY <2>1, <1>3
  <2>2. CASE i # 1
    <3>1. i - 1 \in 1 .. Len(l.elems) /\ (i - 1) + 1 = i
      BY <2>2, <1>3, <1>4
    <3>2. a[i] = l.elems[i - 1]
      BY <3>1, <1>3
    <3> QED BY <3>1, <3>2, <1>4 DEF KeyIsValue
  <2> QED BY <2>1, <2>2
<1> QED BY <1>2, <1>5 DEF a, KeyIsValue

LEMMA RemovedAccount ==
  ASSUME NEW l \in ListOf(Nat, Server), KeyIsValue(l), NEW s
  PROVE  lremove(l, s) \in ListOf(Nat, Server) /\ KeyIsValue(lremove(l, s))
<1>1. l.elems \in Seq(Elem(Nat, Server))
  BY DEF ListOf, Elem
<1>2. lremove(l, s).elems = Rest(l.elems, s)
  BY DEF lremove, Rest
<1>3. \A i \in DOMAIN Rest(l.elems, s) : \E j \in DOMAIN l.elems : Rest(l.elems, s)[i] = l.elems[j]
  BY <1>1, RestElems
<1> QED BY <1>2, <1>3, LremoveType DEF KeyIsValue

LEMMA KeysAreValues ==
  ASSUME NEW l, KeyIsValue(l) PROVE Keys(l) = Values(l)
BY DEF KeyIsValue, Keys, Values

(* The loop over the servers comes from one that is in the list to one that *)
(* is in the list, or to the end.                                          *)
LEMMA NextServerListed ==
  ASSUME TypeOK, NEW s, lcontains(server_object, s)
  PROVE  NextServer(s) \in Values(server_object) \cup {NoServer}
<1> DEFINE elems == server_object.elems
           i == First(elems, s)
<1>1. elems \in Seq(Elem(Nat, Server))
  BY DEF TypeOK, ListOf, Elem
<1>2. DOMAIN elems = 1 .. Len(elems) /\ Len(elems) \in Nat
  BY <1>1, LenProperties
<1>3. i \in DOMAIN elems
  BY <1>1, FirstWithKey DEF lcontains, Keys
<1>4. NextServer(s) = IF i = Len(elems) THEN NoServer ELSE elems[i + 1].value
  BY DEF NextServer, First, lsize
<1>5. i # Len(elems) => i + 1 \in DOMAIN elems
  BY <1>2, <1>3
<1> QED BY <1>4, <1>5 DEF Values

-----------------------------------------------------------------------------
LEMMA InvInit == ASSUME StartupAssumption, Init PROVE Inv
<1>1. NewList \in ListOf(Nat, Server) /\ KeyIsValue(NewList) /\ Values(NewList) = {}
  BY DEF NewList, ListOf, KeyIsValue, Values
<1> QED
  BY <1>1 DEF Init, Inv, TypeOK, PhaseInv, CarefulInv, MainPc, informed, BeforeSetUp,
     Waiting, BootPc, Registering

(* A step of each action in turn. *)
LEMMA InvNext == ASSUME StartupAssumption, Inv, [Next]_vars PROVE Inv'
<1> USE DEF treeVars, netVars, historyVars, MainPc, informed, BeforeSetUp, Waiting, BootPc,
       Registering
<1>1. ASSUME StartMqtt PROVE Inv'
  BY <1>1 DEF StartMqtt, Inv, TypeOK, PhaseInv, CarefulInv
<1>2. ASSUME StartMqttFails PROVE Inv'
  BY <1>2 DEF StartMqttFails, Inv, TypeOK, PhaseInv, CarefulInv
<1>3. ASSUME NothingSetUp PROVE Inv'
  BY <1>3 DEF NothingSetUp, Inv, TypeOK, PhaseInv, CarefulInv
<1>4. ASSUME Bootstrap PROVE Inv'
  BY <1>4 DEF Bootstrap, Inv, TypeOK, PhaseInv, CarefulInv
<1>5. ASSUME Announce PROVE Inv'
  BY <1>5 DEF Announce, Inv, TypeOK, PhaseInv, CarefulInv
<1>6. ASSUME WaitForBootstrap PROVE Inv'
  BY <1>6 DEF WaitForBootstrap, Bootstrapping, Inv, TypeOK, PhaseInv, CarefulInv
<1>7. ASSUME EndOfServers PROVE Inv'
  BY <1>7 DEF EndOfServers, Inv, TypeOK, PhaseInv, CarefulInv
<1>8. ASSUME WaitForRegistered PROVE Inv'
  BY <1>8 DEF WaitForRegistered, Inv, TypeOK, PhaseInv, CarefulInv
<1>9. ASSUME SpuriousWakeup PROVE Inv'
  BY <1>9 DEF SpuriousWakeup, Inv, TypeOK, PhaseInv, CarefulInv
<1>10. ASSUME OnConnect PROVE Inv'
  BY <1>10 DEF OnConnect, Inv, TypeOK, PhaseInv, CarefulInv
<1>11. ASSUME OnConnectFail PROVE Inv'
  BY <1>11 DEF OnConnectFail, Inv, TypeOK, PhaseInv, CarefulInv
<1>12. ASSUME OnConnectionLost PROVE Inv'
  BY <1>12 DEF OnConnectionLost, Inv, TypeOK, PhaseInv, CarefulInv
<1>13. ASSUME SetUpAlready PROVE Inv'
  <2>1. security_object # {} \/ manners # "careful"
    <3>1. Values(server_object) # {}
      BY <1>13, EmptyList DEF SetUpAlready, Inv, TypeOK
    <3> QED BY <3>1 DEF Inv, CarefulInv
  <2> QED BY <1>13, <2>1 DEF SetUpAlready, Inv, TypeOK, PhaseInv, CarefulInv
<1>14. ASSUME NEW s \in Server, SetUp(s) PROVE Inv'
  <2>1. /\ server_object' \in ListOf(Nat, Server)
        /\ KeyIsValue(server_object')
        /\ Values(server_object') = Values(server_object) \cup {s}
    <3>1. lcontains(server_object, s) => s \in Values(server_object)
      BY KeysAreValues DEF lcontains, Inv, PhaseInv
    <3> QED BY <1>14, <3>1, AddedAccount DEF SetUp, Inv, TypeOK, PhaseInv
  <2> QED BY <1>14, <2>1 DEF SetUp, Inv, TypeOK, PhaseInv, CarefulInv
<1>15. ASSUME Register PROVE Inv'
  <2>1. CASE lsize(server_object) = 0
    BY <1>15, <2>1 DEF Register, Inv, TypeOK, PhaseInv, CarefulInv
  <2>2. CASE lsize(server_object) # 0
    <3>1. /\ server_object.elems[1].value \in Values(server_object)
          /\ Values(server_object) \subseteq Server
      <4>1. DOMAIN server_object.elems = 1 .. Len(server_object.elems)
            /\ Len(server_object.elems) \in Nat
        BY LenProperties DEF Inv, TypeOK, ListOf
      <4>2. 1 \in DOMAIN server_object.elems
        BY <4>1, <2>2 DEF lsize
      <4> QED BY <4>2, EmptyList DEF Values, Inv, TypeOK
    <3> QED BY <1>15, <2>2, <3>1 DEF Register, Inv, TypeOK, PhaseInv, CarefulInv
  <2> QED BY <2>1, <2>2
<1>16. ASSUME RegisterOnServer PROVE Inv'
  <2>1. elem \in Server
    BY <1>16 DEF RegisterOnServer, Inv, TypeOK
  <2>2. CASE Registrable(elem)
    <3>1. NextServer(elem) \in Values(server_object) \cup {NoServer}
      BY <2>2, NextServerListed DEF Registrable, Inv
    <3>2. Values(server_object) \subseteq Server
      BY EmptyList DEF Inv, TypeOK
    <3> QED
      <4>1. TypeOK'
        BY <1>16, <2>1, <2>2, <3>1, <3>2, ZenonT(60) DEF RegisterOnServer, Inv, TypeOK
      <4>2. PhaseInv'
        BY <1>16, <2>1, <2>2, <3>1, <3>2 DEF RegisterOnServer, Inv, TypeOK, PhaseInv
      <4>3. CarefulInv'
        BY <1>16, <2>1, <2>2, <3>1, <3>2 DEF RegisterOnServer, Inv, TypeOK, PhaseInv, CarefulInv
      <4> QED BY <4>1, <4>2, <4>3 DEF Inv
  <2>3. CASE ~Registrable(elem)
    <3>1. manners # "careful"
      <4>1. manners = "careful" => freed = {} /\ elem \in Values(server_object)
                                   /\ Values(server_object) \subseteq security_object
        BY <1>16 DEF RegisterOnServer, Inv, CarefulInv
      <4>2. Values(server_object) = Keys(server_object)
        BY KeysAreValues DEF Inv, PhaseInv
      <4> QED BY <4>1, <4>2, <2>3 DEF Registrable, lcontains
    <3> QED BY <1>16, <2>3, <3>1 DEF RegisterOnServer, Crash, Inv, TypeOK, PhaseInv, CarefulInv
  <2> QED BY <2>2, <2>3
<1>17. ASSUME NEW s \in Server, WriteSecurity(s) PROVE Inv'
  BY <1>17 DEF WriteSecurity, Command, Inv, TypeOK, PhaseInv, CarefulInv
<1>18. ASSUME NEW s \in Server, WriteServer(s) PROVE Inv'
  <2>1. /\ server_object' \in ListOf(Nat, Server)
        /\ KeyIsValue(server_object')
        /\ Values(server_object') = Values(server_object) \cup {s}
    BY <1>18, AddedAccount DEF WriteServer, Inv, TypeOK, PhaseInv
  <2> QED BY <1>18, <2>1 DEF WriteServer, Command, Inv, TypeOK, PhaseInv, CarefulInv
<1>19. ASSUME NEW s \in Server, WriteFreed(s) PROVE Inv'
  BY <1>19 DEF WriteFreed, Crash, Inv, TypeOK, PhaseInv, CarefulInv
<1>20. ASSUME NEW s \in Server, DeleteServer(s) PROVE Inv'
  <2>1. CASE s \in freed
    BY <1>20, <2>1 DEF DeleteServer, Command, lcontains, Crash, Inv, TypeOK, PhaseInv, CarefulInv
  <2>2. CASE s \notin freed
    <3>1. server_object' \in ListOf(Nat, Server) /\ KeyIsValue(server_object')
      BY <1>20, <2>2, RemovedAccount DEF DeleteServer, Inv, TypeOK, PhaseInv
    <3> QED
      <4>1. TypeOK'
        BY <1>20, <2>2, <3>1, ZenonT(60) DEF DeleteServer, Command, Inv, TypeOK
      <4>2. PhaseInv'
        BY <1>20, <2>2, <3>1 DEF DeleteServer, Command, Inv, TypeOK, PhaseInv
      <4>3. CarefulInv'
        BY <1>20, <2>2, <3>1 DEF DeleteServer, Command, Inv, TypeOK, PhaseInv, CarefulInv
      <4> QED BY <4>1, <4>2, <4>3 DEF Inv
  <2> QED BY <2>1, <2>2
<1>21. ASSUME DeleteAll PROVE Inv'
  <2>1. Values(server_object) \subseteq Server
    BY EmptyList DEF Inv, TypeOK
  <2> QED
    <3>1. TypeOK'
      BY <1>21, <2>1, ZenonT(60) DEF DeleteAll, Command, Crash, Inv, TypeOK
    <3>2. PhaseInv'
      BY <1>21, <2>1 DEF DeleteAll, Command, Crash, Inv, TypeOK, PhaseInv
    <3>3. CarefulInv'
      BY <1>21, <2>1 DEF DeleteAll, Command, Crash, Inv, TypeOK, PhaseInv, CarefulInv
    <3> QED BY <3>1, <3>2, <3>3 DEF Inv
<1>22. ASSUME Finish PROVE Inv'
  BY <1>22 DEF Finish, Command, Inv, TypeOK, PhaseInv, CarefulInv
<1>23. ASSUME NEW s \in Server, OnServerRegister(s) PROVE Inv'
  <2>1. CASE s \in freed \/ ~lcontains(server_object, s)
    <3>1. Keys(server_object) = Values(server_object)
      BY KeysAreValues DEF Inv, PhaseInv
    <3>2. manners # "careful"
      BY <1>23, <2>1, <3>1 DEF OnServerRegister, lcontains, Inv, CarefulInv
    <3> QED BY <1>23, <2>1, <3>2 DEF OnServerRegister, Crash, Inv, TypeOK, PhaseInv, CarefulInv
  <2>2. CASE ~(s \in freed \/ ~lcontains(server_object, s))
    <3>1. s \in sent /\ answered' = answered \cup {s} /\ answered' # {}
      BY <1>23, <2>2 DEF OnServerRegister
    <3>2. TypeOK'
      BY <1>23, <2>2 DEF OnServerRegister, Inv, TypeOK
    <3>3. PhaseInv'
      BY <1>23, <2>2, <3>1 DEF OnServerRegister, Inv, TypeOK, PhaseInv
    <3>4. CarefulInv'
      BY <1>23, <2>2 DEF OnServerRegister, Inv, TypeOK, PhaseInv, CarefulInv
    <3> QED BY <3>2, <3>3, <3>4 DEF Inv
  <2> QED BY <2>1, <2>2
<1>24. CASE UNCHANGED vars
  BY <1>24 DEF vars, Inv, TypeOK, PhaseInv, CarefulInv
<1> QED
  BY <1>1, <1>2, <1>3, <1>4, <1>5, <1>6, <1>7, <1>8, <1>9, <1>10, <1>11, <1>12,
     <1>13, <1>14, <1>15, <1>16, <1>17, <1>18, <1>19, <1>20, <1>21, <1>22, <1>23, <1>24
     DEF Next, Main, Callbacks

-----------------------------------------------------------------------------
(* Type correctness. *)
THEOREM TypeCorrect == ASSUME StartupAssumption PROVE Spec => []TypeOK
<1>1. Init => Inv
  BY InvInit
<1>2. Inv /\ [Next]_vars => Inv'
  BY InvNext
<1>3. Inv => TypeOK
  BY DEF Inv
<1> QED BY <1>1, <1>2, <1>3, PTL DEF Spec

(* lwm2m_start_client() follows no pointer that is null or freed, and reads *)
(* the tree only when it was told all, if the bootstrap server is careful.  *)
THEOREM HandedOver == ASSUME StartupAssumption PROVE Spec => []HandOver
<1>1. Init => Inv
  BY InvInit
<1>2. Inv /\ [Next]_vars => Inv'
  BY InvNext
<1>3. Inv => HandOver
  BY DEF Inv, PhaseInv, CarefulInv, HandOver, informed, BootPc, BeforeSetUp, Waiting
<1> QED BY <1>1, <1>2, <1>3, PTL DEF Spec

-----------------------------------------------------------------------------
(* context->state is written by main and by the callbacks, in part without  *)
(* a mutex: with a careful bootstrap server each write finds the state the  *)
(* one before it has left.                                                 *)
LEMMA StateStep ==
  ASSUME Inv, [Next]_vars, manners = "careful", state' # state
  PROVE  \/ state = "unset" /\ state' = "STARTED"
         \/ state = "STARTED" /\ state' = "BOOTSTRAPPED"
         \/ state = "BOOTSTRAPPED" /\ state' = "REGISTERING"
         \/ state \in {"REGISTERING", "REGISTERED"} /\ state' = "REGISTERED"
<1> USE DEF Inv, PhaseInv, CarefulInv, informed, BootPc, BeforeSetUp, Waiting
<1>1. CASE Bootstrap
  BY <1>1 DEF Bootstrap
<1>2. CASE SetUpAlready \/ \E s \in Server : SetUp(s)
  BY <1>2 DEF SetUpAlready, SetUp
<1>3. CASE Register
  BY <1>3 DEF Register
<1>4. CASE Finish
  BY <1>4 DEF Finish, Command, TypeOK, MainPc
<1>5. ASSUME NEW s \in Server, OnServerRegister(s)
      PROVE  state \in {"REGISTERING", "REGISTERED"} /\ state' = "REGISTERED"
  <2>1. s \in sent
    BY <1>5 DEF OnServerRegister
  <2> QED BY <1>5, <2>1 DEF OnServerRegister, Crash
<1>6. \/ Bootstrap \/ SetUpAlready \/ \E s \in Server : SetUp(s)
      \/ Register \/ Finish \/ \E s \in Server : OnServerRegister(s)
  BY DEF Next, vars, Main, Callbacks, StartMqtt, StartMqttFails, NothingSetUp, Announce,
     WaitForBootstrap, RegisterOnServer, EndOfServers, WaitForRegistered, SpuriousWakeup,
     OnConnect, OnConnectFail, OnConnectionLost, WriteSecurity, WriteServer, WriteFreed,
     DeleteServer, DeleteAll, Crash
<1> QED BY <1>1, <1>2, <1>3, <1>4, <1>5, <1>6

THEOREM StateOnlyAdvances == ASSUME StartupAssumption PROVE Spec => StateAdvances
<1>1. Init => Inv
  BY InvInit
<1>2. Inv /\ [Next]_vars => Inv'
  BY InvNext
<1>3. Inv /\ [Next]_vars =>
        [manners = "careful" =>
           \/ state' = state
           \/ state = "unset" /\ state' = "STARTED"
           \/ state = "STARTED" /\ state' = "BOOTSTRAPPED"
           \/ state = "BOOTSTRAPPED" /\ state' = "REGISTERING"
           \/ state \in {"REGISTERING", "REGISTERED"} /\ state' = "REGISTERED"]_state
  BY StateStep
<1> QED BY <1>1, <1>2, <1>3, PTL DEF Spec, StateAdvances

-----------------------------------------------------------------------------
(* Each step of main and of the callbacks is one of StartService, or none of *)
(* its business.                                                            *)
LEMMA StartStep ==
  ASSUME StartupAssumption, Inv, [Next]_vars
  PROVE  [Start!StartNext]_(Start!startVars)
<1> USE DEF treeVars, netVars, historyVars, phase, informed, Start!StartNext, Start!startVars
<1>1. CASE StartMqtt \/ StartMqttFails \/ NothingSetUp \/ Bootstrap \/ Announce
  BY <1>1 DEF StartMqtt, StartMqttFails, NothingSetUp, Bootstrap, Announce
<1>2. CASE SetUpAlready \/ \E s \in Server : SetUp(s)
  BY <1>2 DEF SetUpAlready, SetUp, Start!Inform
<1>3. CASE WaitForBootstrap
  <2>1. CASE Bootstrapping
    BY <1>3, <2>1 DEF WaitForBootstrap
  <2>2. CASE ~Bootstrapping
    <3>1. informed
      BY <1>3, <2>2 DEF WaitForBootstrap, Bootstrapping, Inv, PhaseInv, Waiting
    <3> QED BY <1>3, <2>2, <3>1 DEF WaitForBootstrap, Start!EndBootstrap
  <2> QED BY <2>1, <2>2
<1>4. CASE Register
  <2>1. sent = {}
    BY <1>4 DEF Register, Inv, PhaseInv
  <2> QED BY <1>4, <2>1 DEF Register, Start!Return
<1>5. CASE RegisterOnServer
  <2>1. elem \in Server
    BY <1>5 DEF RegisterOnServer, Inv, TypeOK
  <2>2. CASE elem \in sent
    BY <1>5, <2>2 DEF RegisterOnServer, Crash
  <2>3. CASE elem \notin sent
    BY <1>5, <2>1, <2>3 DEF RegisterOnServer, Crash, Start!Send
  <2> QED BY <2>2, <2>3
<1>6. CASE EndOfServers
  BY <1>6 DEF EndOfServers
<1>7. CASE WaitForRegistered
  <2>1. state = "REGISTERED" => answered # {}
    BY DEF Inv, PhaseInv
  <2> QED BY <1>7, <2>1 DEF WaitForRegistered, Start!Return
<1>8. CASE SpuriousWakeup \/ OnConnect \/ OnConnectFail \/ OnConnectionLost
  BY <1>8 DEF SpuriousWakeup, OnConnect, OnConnectFail, OnConnectionLost
<1>9. ASSUME NEW s \in Server,
             WriteSecurity(s) \/ WriteServer(s) \/ WriteFreed(s) \/ DeleteServer(s)
      PROVE  UNCHANGED Start!startVars
  BY <1>9 DEF WriteSecurity, WriteServer, WriteFreed, DeleteServer, Crash
<1>10. CASE DeleteAll
  BY <1>10 DEF DeleteAll, Crash
<1>11. CASE Finish
  BY <1>11 DEF Finish, Start!Inform
<1>12. ASSUME NEW s \in Server, OnServerRegister(s)
       PROVE  [Start!StartNext]_(Start!startVars)
  BY <1>12 DEF OnServerRegister, Crash, Start!Answer
<1>13. CASE UNCHANGED vars
  BY <1>13 DEF vars
<1> QED
  BY <1>1, <1>2, <1>3, <1>4, <1>5, <1>6, <1>7, <1>8, <1>9, <1>10, <1>11, <1>12, <1>13
     DEF Next, Main, Callbacks

(* lwm2m_start_client() implements StartService, whatever the bootstrap     *)
(* server sends and when.                                                  *)
THEOREM Implementation == ASSUME StartupAssumption PROVE Spec => ImplementsStartService
<1>1. Init => Inv /\ Start!StartInit
  BY InvInit DEF Init, Start!StartInit, phase, informed
<1>2. Inv /\ [Next]_vars => Inv'
  BY InvNext
<1>3. Inv /\ [Next]_vars => [Start!StartNext]_(Start!startVars)
  BY StartStep
<1> QED BY <1>1, <1>2, <1>3, PTL DEF Spec, ImplementsStartService, Start!StartSpec
=============================================================================
