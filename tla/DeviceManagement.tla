--------------------------- MODULE DeviceManagement ---------------------------
(***************************************************************************)
(* The requests of servers on the object tree                              *)
(* (src/lwm2m_device_management.c), under the rights the Access Control    *)
(* object gives them, and the commands of the bootstrap server             *)
(* (src/lwm2m_bootstrap.c), which have no rights to respect.               *)
(*                                                                         *)
(* All of them run on the MQTT library's thread, one at a time, so each is *)
(* one step.  The other threads only add servers to context->servers, and  *)
(* no handler but the READ of an object looks at that list twice.  Requests *)
(* that change nothing, a granted READ or EXECUTE among them, are no steps. *)
(*                                                                         *)
(* fault says how the process went wrong, if it did: whatever it does next *)
(* is not the program's any more, so nothing happens then.                 *)
(***************************************************************************)
EXTENDS ObjectTree

CONSTANTS
  MaxId,        \* bound: the greatest id of an instance
  MaxAcoId,     \* bound: the greatest id of an ACO
  BootPolicy,   \* the ACOs the bootstrap server may write: about, owner, acl
  Written,      \* the access control lists servers may write
  MaxCommands,  \* bound: the commands of a bootstrap server that is not careful
  Careful       \* the bootstrap server keeps to CarefulWrite and CarefulDelete

Policy == [about : Object \X (0..MaxId \cup {AllInstances}), owner : Server, acl : Acl]

ASSUME DeviceManagementAssumption ==
  /\ MaxId \in Nat
  /\ MaxAcoId \in Nat
  /\ BootPolicy \subseteq {p \in Policy : p.about[1] # AccessControl}
  /\ Written \subseteq Acl
  /\ MaxCommands \in Nat
  /\ Careful \in BOOLEAN

VARIABLES
  registered,        \* each server: "before", "listed" in context->servers, "gone"
  object_tree_lock,  \* "free", or "kept" by a handler that returned
  fault,
  commands           \* how many commands the bootstrap server has sent

vars == <<instances, registered, object_tree_lock, fault, commands>>

servers == {s \in Server : registered[s] = "listed"}

Faults == {"none", "not found", "no ACO", "no value", "no id", "freed"}

(* What the variables may be.  The guard of every list of the tree is 0 or  *)
(* 1: no way through lremove() gives it back twice.                         *)
TypeOK ==
  /\ TreeTypeOK
  /\ registered \in [Server -> {"before", "listed", "gone"}]
  /\ object_tree_lock \in {"free", "kept"}
  /\ fault \in Faults
  /\ commands \in 0..MaxCommands

(* create_object_tree(), before bootstrap *)
Init ==
  /\ instances = [o \in Object |-> NewList]
  /\ registered = [s \in Server |-> "before"]
  /\ object_tree_lock = "free"
  /\ fault = "none"
  /\ commands = 0

Fail(f) ==
  /\ fault' = f
  /\ UNCHANGED <<instances, registered, object_tree_lock>>

KeepLock ==
  /\ object_tree_lock' = "kept"
  /\ UNCHANGED <<instances, registered, fault>>

SetTree(tree) ==
  /\ instances' = tree
  /\ UNCHANGED <<registered, object_tree_lock, fault>>

-----------------------------------------------------------------------------
(* register_on_server() and on_server_deregister(): a server registers once. *)
Register(s) ==
  /\ registered[s] = "before"
  /\ registered' = [registered EXCEPT ![s] = "listed"]
  /\ UNCHANGED <<instances, object_tree_lock, fault>>

Deregistered(s) ==
  /\ registered[s] = "listed"
  /\ registered' = [registered EXCEPT ![s] = "gone"]
  /\ UNCHANGED <<instances, object_tree_lock, fault>>

-----------------------------------------------------------------------------
(* The entry for this server, else the default entry, else nothing. *)
EntryOrDefault(aco, s) ==
  IF s \in DOMAIN aco.acl THEN aco.acl[s]
  ELSE IF 0 \in DOMAIN aco.acl THEN aco.acl[0] ELSE {}

Grants(entry, op) ==
  IF entry = Null THEN "no value"
  ELSE IF entry = Freed THEN "freed"
  ELSE IF op \in entry THEN "granted" ELSE "refused"

(* Mutant of CheckInstance: the owner is not asked what the list says.     *)
CheckInstanceOwnerFirst(s, o, inst, op) ==
  LET aco == AcoFor(<<o, inst.id>>)
  IN  IF Cardinality(servers) = 1 THEN "granted"
      ELSE IF Reading(aco) # "none" THEN Reading(aco)
      ELSE IF aco.owner = s THEN "granted"
      ELSE Grants(EntryOrDefault(aco, s), op)

(* lwm2m_check_instance_access_control(): a server that is alone may do    *)
(* everything, and so may the owner that the list does not name.           *)
CheckInstance(s, o, inst, op) ==
  LET aco == AcoFor(<<o, inst.id>>)
  IN  IF Cardinality(servers) = 1 THEN "granted"
      ELSE IF Reading(aco) # "none" THEN Reading(aco)
      ELSE IF s \notin DOMAIN aco.acl /\ aco.owner = s THEN "granted"
      ELSE Grants(EntryOrDefault(aco, s), op)

(* check_create_object_access_control(): for CREATE nobody is alone, and   *)
(* an owner is nobody.                                                     *)
CheckCreate(s, o) ==
  LET aco == AcoFor(<<o, AllInstances>>)
  IN  IF aco = Null THEN "refused"
      ELSE IF Reading(aco) # "none" THEN Reading(aco)
      ELSE Grants(EntryOrDefault(aco, s), "CREATE")

(* The rights of s on an instance that is in the tree. *)
Check(s, o, i, op) ==
  IF ~Find(o, i).live THEN "freed" ELSE CheckInstance(s, o, Find(o, i), op)

(* READ, WRITE, CREATE and DELETE lock the tree first; OBSERVE, which asks *)
(* for the right to READ, and EXECUTE do not.                              *)
TreeFree == object_tree_lock = "free"

(* No handler tests whether the instance or resource was found. *)
NotFound(s) ==
  /\ s \in servers
  /\ Fail("not found")

RequestFails(s, o, i, op) ==
  /\ s \in servers
  /\ TreeFree \/ op \in {"READ", "EXECUTE"}
  /\ Exists(o, i)
  /\ Check(s, o, i, op) \in Faults
  /\ Fail(Check(s, o, i, op))

(* The list of an ACO is serialised with an entry that is freed. *)
ReadFreedEntry(s, i) ==
  /\ s \in servers
  /\ TreeFree
  /\ Exists(AccessControl, i)
  /\ Check(s, AccessControl, i, "READ") = "granted"
  /\ FreedEntry(Find(AccessControl, i).acl)
  /\ Fail("freed")

(* A READ or WRITE that is refused, or granted for a resource that does not *)
(* support it, returns without sem_post; every resource of an ACO is       *)
(* readable.                                                               *)
RefusedKeepsLock(s, o, i, op) ==
  /\ s \in servers
  /\ op \in {"READ", "WRITE"}
  /\ TreeFree
  /\ Exists(o, i)
  /\ \/ Check(s, o, i, op) = "refused"
     \/ Check(s, o, i, op) = "granted" /\ ~(o = AccessControl /\ op = "READ")
  /\ KeepLock

(* on_instance_write() and on_resource_write(): a WRITE may give an        *)
(* instance the values it lacks ...                                        *)
Write(s, o, i) ==
  /\ s \in servers
  /\ TreeFree
  /\ o # AccessControl
  /\ Exists(o, i)
  /\ Check(s, o, i, "WRITE") = "granted"
  /\ SetTree([instances EXCEPT ![o] = Replace(@, i, [Find(o, i) EXCEPT !.complete = TRUE])])

(* ... and sets the owner or the list of an ACO. *)
WriteAco(s, i) ==
  /\ s \in servers
  /\ TreeFree
  /\ Exists(AccessControl, i)
  /\ Check(s, AccessControl, i, "WRITE") = "granted"
  /\ LET aco == Find(AccessControl, i)
         Set(new) == SetTree([instances EXCEPT ![AccessControl] = Replace(@, i, new)])
     IN  \/ \E owner \in Server : Set([aco EXCEPT !.owner = owner])
         \/ \E new \in Written :
              IF MergesFreed(aco.acl, new) THEN Fail("freed")
              ELSE \E acl \in MergedAcls(aco.acl, new, TRUE) : Set([aco EXCEPT !.acl = acl])

-----------------------------------------------------------------------------
CreateFails(s, o) ==
  /\ s \in servers
  /\ TreeFree
  /\ \/ CheckCreate(s, o) \in Faults /\ Fail(CheckCreate(s, o))
     \* instance_id = 0 sets the pointer, which is followed next
     \/ CheckCreate(s, o) = "granted" /\ o \notin Multiple /\ Fail("no id")

(* Refused for want of rights, or because the id given is in use. *)
CreateRefused(s, o) ==
  /\ s \in servers
  /\ TreeFree
  /\ \/ CheckCreate(s, o) = "refused"
     \/ CheckCreate(s, o) = "granted" /\ o \in Multiple /\ instances[o].elems # <<>>
  /\ KeepLock

(* The id is the one given, or a new one. *)
MayCreate(s, o, i) ==
  /\ s \in servers
  /\ TreeFree
  /\ CheckCreate(s, o) = "granted"
  /\ o \in Multiple
  /\ ~Exists(o, i)
  /\ i <= MaxId

OwnersRights == Rights \ {"CREATE"}

(* Mutant of CreatedTree: everybody gets the rights of the owner. *)
CreatedTreeOpen(s, o, i) ==
  LET added == [instances EXCEPT ![o] = ladd(@, i, NewInstance(i, TRUE))]
      n == NewId(AccessControl)
  IN  IF Cardinality(servers) <= 1 THEN added
      ELSE [added EXCEPT ![AccessControl] =
              ladd(@, n, NewAco(n, TRUE, <<o, i>>, s, [t \in {0} |-> OwnersRights]))]

(* lwm2m_instance_create_aco_instance(): only if several servers are listed. *)
CreatedTree(s, o, i) ==
  LET added == [instances EXCEPT ![o] = ladd(@, i, NewInstance(i, TRUE))]
      n     == NewId(AccessControl)
      all   == [t \in {s} |-> OwnersRights]
  IN  IF Cardinality(servers) <= 1 THEN added
      ELSE [added EXCEPT ![AccessControl] = ladd(@, n, NewAco(n, TRUE, <<o, i>>, s, all))]

Create(s, o, i) ==
  /\ MayCreate(s, o, i)
  /\ Cardinality(servers) > 1 => NewId(AccessControl) <= MaxAcoId
  /\ SetTree(CreatedTree(s, o, i))

(* A mandatory resource is missing: the instance is in the tree already.   *)
CreateIncomplete(s, o, i) ==
  /\ MayCreate(s, o, i)
  /\ instances' = [instances EXCEPT ![o] = ladd(@, i, NewInstance(i, FALSE))]
  /\ object_tree_lock' = "kept"
  /\ UNCHANGED <<registered, fault>>

(* Mutant of DeletedTree: the ACO stays. *)
DeletedAlone(o, i) == [instances EXCEPT ![o] = Discard(@, i)]

DeletedTree(o, i) == DeleteWithAco(o, i)

(* on_instance_delete(); lwm2m_delete_instance() looks for the ACO even if *)
(* the server is alone.                                                    *)
Delete(s, o, i) ==
  /\ s \in servers
  /\ TreeFree
  /\ Exists(o, i)
  /\ Check(s, o, i, "DELETE") = "granted"
  /\ LET aco == AcoFor(<<o, Find(o, i).id>>)
     IN  IF o = AccessControl \/ Reading(aco) \in {"none", "no ACO"}
         THEN SetTree(DeletedTree(o, i))
         ELSE Fail(Reading(aco))

-----------------------------------------------------------------------------
(* A bootstrap server that knows what it does writes each instance once,   *)
(* with its mandatory values, gives 0 for the id of a single instance,     *)
(* writes ACOs, with ids that count up, about what exists, deletes an ACO  *)
(* before what it is about, and is done before the client registers.       *)
CarefulTime == \A s \in Server : registered[s] = "before"

CarefulWrite(o, i, whole) ==
  /\ CarefulTime
  /\ whole
  /\ ~Exists(o, i)
  /\ o \in Multiple \/ i = 0

CarefulPolicy(i, p) ==
  /\ i = NewId(AccessControl)
  /\ p.about[2] # AllInstances => Exists(p.about[1], p.about[2])
  /\ AcoFor(p.about) = Null

CarefulDelete(o, i) ==
  /\ CarefulTime
  /\ o = AccessControl \/ AcoFor(<<o, i>>) = Null

(* __bootstrap_create_instance(): entered under the id given, even where a *)
(* single instance gets id 0.                                              *)
BootId(o, i) == IF o \in Multiple THEN i ELSE 0

(* on_bootstrap_instance_write(), or one of the instances of               *)
(* on_bootstrap_object_write(): no test of any kind is made first.         *)
BootWrite(o, i, whole) ==
  /\ o # AccessControl
  /\ Careful => CarefulWrite(o, i, whole)
  /\ IF ~Exists(o, i)
     THEN SetTree([instances EXCEPT ![o] = ladd(@, i, NewInstance(BootId(o, i), whole))])
     ELSE IF ~Find(o, i).live THEN Fail("freed")
     ELSE whole /\ SetTree([instances EXCEPT ![o] =
                              Replace(@, i, [Find(o, i) EXCEPT !.complete = TRUE])])

(* The same for an ACO.  What is parsed from the write of one instance is  *)
(* freed if the instance existed, what is parsed from the write of an      *)
(* object never is.                                                        *)
BootWriteAco(i, whole, p) ==
  /\ Careful => CarefulWrite(AccessControl, i, whole) /\ CarefulPolicy(i, p)
  /\ LET old == Find(AccessControl, i)
     IN  IF old = Null
         THEN SetTree([instances EXCEPT ![AccessControl] =
                ladd(@, i, NewAco(i, whole, p.about, p.owner,
                                  IF whole THEN p.acl ELSE <<>>))])
         ELSE IF ~old.live \/ MergesFreed(old.acl, p.acl) THEN Fail("freed")
         ELSE /\ whole
              /\ \E freed \in BOOLEAN : \E acl \in MergedAcls(old.acl, p.acl, freed) :
                   SetTree([instances EXCEPT ![AccessControl] =
                              Replace(@, i, NewAco(i, TRUE, p.about, p.owner, acl))])

(* on_bootstrap_resource_write() and on_bootstrap_delete(): what is not    *)
(* there is not looked for, it is used.                                    *)
BootNotFound ==
  /\ ~Careful
  /\ Fail("not found")

(* __free_instance() goes through all that an instance has, freed entries  *)
(* included.                                                               *)
FreeFails(o, inst) == ~inst.live \/ (o = AccessControl /\ FreedEntry(inst.acl))

(* on_bootstrap_delete() leaves the ACO. *)
BootDelete(o, i) ==
  /\ Exists(o, i)
  /\ Careful => CarefulDelete(o, i)
  /\ IF FreeFails(o, Find(o, i)) THEN Fail("freed")
     ELSE SetTree([instances EXCEPT ![o] = Discard(@, i)])

(* on_bootstrap_delete_all() frees every instance and unlinks none. *)
Freeing(l) == [l EXCEPT !.elems = [n \in DOMAIN @ |-> [@[n] EXCEPT !.value.live = FALSE]]]

BootDeleteAll ==
  /\ ~Careful
  /\ IF \E o \in Object : \E inst \in Values(instances[o]) : FreeFails(o, inst)
     THEN Fail("freed")
     ELSE SetTree([o \in Object |-> Freeing(instances[o])])

-----------------------------------------------------------------------------
Request(s) ==
  \/ \E o \in Object, i \in 0..MaxAcoId, op \in Rights \ {"CREATE"} :
       RequestFails(s, o, i, op) \/ RefusedKeepsLock(s, o, i, op)
  \/ \E o \in Object, i \in 0..MaxAcoId : Write(s, o, i) \/ Delete(s, o, i)
  \/ \E i \in 0..MaxAcoId : WriteAco(s, i) \/ ReadFreedEntry(s, i)
  \/ NotFound(s)
  \/ \E o \in Object :
       \/ CreateFails(s, o) \/ CreateRefused(s, o)
       \/ \E i \in 0..MaxId \cup {NewId(o)} : Create(s, o, i) \/ CreateIncomplete(s, o, i)

Bootstrap ==
  \/ \E o \in Object, i \in 0..MaxId, whole \in BOOLEAN : BootWrite(o, i, whole)
  \/ \E i \in 0..MaxAcoId, p \in BootPolicy, whole \in BOOLEAN : BootWriteAco(i, whole, p)
  \/ \E o \in Object, i \in 0..MaxAcoId : BootDelete(o, i)
  \/ BootDeleteAll
  \/ BootNotFound

Command ==
  IF Careful THEN Bootstrap /\ UNCHANGED commands
  ELSE commands < MaxCommands /\ Bootstrap /\ commands' = commands + 1

Next ==
  /\ fault = "none"
  /\ \/ /\ \E s \in Server : Register(s) \/ Deregistered(s) \/ Request(s)
        /\ UNCHANGED commands
     \/ Command

Spec == Init /\ [][Next]_vars

-----------------------------------------------------------------------------
(* An ACO and what it is about live and die together: each ACO is about an *)
(* instance in the tree that has its mandatory values (or an object), never *)
(* about one that a refused CREATE left, and no two are about the same, so *)
(* that an id used again does not bring back the rights of an instance that *)
(* is gone.                                                                *)
AcoDescribesLive ==
  \A n \in DOMAIN acos.elems :
    LET x == acos.elems[n].value.about
    IN  /\ x[2] # AllInstances => Exists(x[1], x[2]) /\ Find(x[1], x[2]).complete
        /\ \A m \in DOMAIN acos.elems : acos.elems[m].value.about = x => m = n

NoPolicy == Null

PolicyOf(x) ==
  LET aco == AcoFor(x)
  IN  IF aco = Null THEN NoPolicy ELSE [owner |-> aco.owner, acl |-> aco.acl]

NoRights == {Null, Freed}

Targets ==
  (Object \X {AllInstances}) \cup
  UNION {{o} \X Keys(instances[o]) : o \in Object \ {AccessControl}}

policy == [x \in Targets |-> PolicyOf(x)]

Access == INSTANCE AccessPolicy WITH servers <- servers, policy <- policy

(* Whatever sequence of requests, what exists and its policies change only *)
(* as the policies allow: a new instance is its creator's alone, or        *)
(* nobody's if no other server is listed, and a policy changes only with   *)
(* what it is about or by a server that is alone.                          *)
ImplementsAccessPolicy == Access!PolicySpec

(* ... and by the very server that has the right to it: a request that     *)
(* changes a policy is one its sender may make, not one another server may. *)
OnlyByRight ==
  [][policy' # policy => \A s \in servers : Request(s) => Access!ServerStep(s)]_instances

(* An instance created while several servers are listed is its creator's   *)
(* alone, even if its id was in use before and ACOs were left behind: the  *)
(* new ACO is the one that is found.                                       *)
NewInstanceIsCreators ==
  [][\A s \in servers, o \in Object, i \in 0..MaxId :
       Create(s, o, i) =>
         \A t \in servers \ {s}, op \in OwnersRights :
           /\ CheckInstance(s, o, Find(o, i), op)' = "granted"
           /\ CheckInstance(t, o, Find(o, i), op)' = "refused"]_instances

(* The servers the client has accounts of, as far as registrations tell.   *)
Accounts == {s \in Server : registered[s] # "before"}

(* "If a new Object Instance is created through that operation and the     *)
(* LWM2M Client has more than one LWM2M Server Account", it gets an ACO    *)
(* (src/lwm2m_device_management.c:57-62).  The code counts the servers that *)
(* are listed: an account whose server has deregistered does not count.    *)
AccountsGiveAcos ==
  [][\A s \in servers, o \in Object, i \in 0..MaxId :
       Create(s, o, i) /\ Cardinality(Accounts) > 1 => AcoFor(<<o, i>>)' # Null]_instances
=============================================================================
