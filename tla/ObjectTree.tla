------------------------------ MODULE ObjectTree ------------------------------
(***************************************************************************)
(* The object tree of the client (src/lwm2m_object.c) and the Access       *)
(* Control object, object 2, whose instances (ACOs) say what the servers   *)
(* may do with the other instances (src/lwm2m_access_control.c).           *)
(*                                                                         *)
(* A value is abstracted to whether an instance has the values of its      *)
(* mandatory resources, except in an ACO: there it is what the ACO is      *)
(* about, its owner, and its access control list, in which Null is an entry *)
(* whose value is a null pointer and Freed one whose memory was freed.     *)
(* An instance that is freed but still linked is not live.                 *)
(***************************************************************************)
EXTENDS Lists, FiniteSets

CONSTANTS
  Server,         \* short server ids
  Object,         \* object ids
  Multiple,       \* the objects that may have several instances
  AccessControl,  \* ACCESS_CONTROL_OBJECT_ID
  AllInstances,   \* MAX_ID: the ACO is about CREATE on the object
  Null, Freed

Rights == {"READ", "WRITE", "EXECUTE", "DELETE", "CREATE"}

VARIABLE instances   \* object->instances

Instance == [id : Nat, complete : BOOLEAN, live : BOOLEAN]

Entry == {Null, Freed} \cup SUBSET Rights

(* Access control lists, by short server id; 0 is the default entry.       *)
Acl == UNION {[S -> Entry] : S \in SUBSET (Server \cup {0})}

Aco == [id : Nat, complete : BOOLEAN, live : BOOLEAN,
        about : Object \X (Nat \cup {AllInstances}), owner : Server, acl : Acl]

OwnerAndAcl == [owner : Server, acl : Acl]

ASSUME ObjectTreeAssumption ==
  /\ Server \subseteq Nat \ {0} /\ IsFiniteSet(Server)
  /\ AccessControl \in Multiple
  /\ Multiple \subseteq Object
  /\ AllInstances \notin Nat
  /\ Null # Freed
  /\ \A rights \in SUBSET Rights : Null # rights /\ Freed # rights
  /\ Null \notin Instance \cup Aco \cup OwnerAndAcl

TreeTypeOK ==
  /\ DOMAIN instances = Object
  /\ \A o \in Object :
       instances[o] \in ListOf(Nat, IF o = AccessControl THEN Aco ELSE Instance)

-----------------------------------------------------------------------------
acos == instances[AccessControl]

Exists(o, i) == lcontains(instances[o], i)

Find(o, i) == lfind(instances[o], i, Null)

(* aco_for_instance() and aco_for_object() compare the values of each ACO  *)
(* in turn: they stop at the first that is about x, and go wrong at one    *)
(* that has no values or is freed, which is returned here too.             *)
AcoFor(x) ==
  LET stops(e) == e.value.about = x \/ ~e.value.complete \/ ~e.value.live
      n        == SelectInSeq(acos.elems, stops)
  IN  IF n = 0 THEN Null ELSE acos.elems[n].value

FreedEntry(acl) == \E s \in DOMAIN acl : acl[s] = Freed

(* What goes wrong when a pointer to an instance is followed. *)
Following(inst, missing) ==
  IF inst = Null THEN missing
  ELSE IF ~inst.live THEN "freed"
  ELSE "none"

Reading(aco) ==
  IF Following(aco, "no ACO") = "none" /\ ~aco.complete THEN "no value"
  ELSE Following(aco, "no ACO")

-----------------------------------------------------------------------------
(* lwm2m_instance_new(): the id after the greatest one in use. *)
NewId(o) == instances[o].greatest_key + 1

NewInstance(i, whole) == [id |-> i, complete |-> whole, live |-> TRUE]

NewAco(i, whole, x, s, list) ==
  [id |-> i, complete |-> whole, live |-> TRUE, about |-> x, owner |-> s, acl |-> list]

Replace(l, key, value) ==
  LET n == SelectInSeq(l.elems, LAMBDA e : e.key = key)
  IN  [l EXCEPT !.elems[n].value = value]

(* The structure found under this key is freed, and the element whose key  *)
(* is its id is unlinked: for an instance whose id is not its key the freed *)
(* structure stays in the list.                                            *)
Discard(l, key) ==
  LET inst == lfind(l, key, Null)
  IN  lremove(Replace(l, key, [inst EXCEPT !.live = FALSE]), inst.id)

(* lwm2m_delete_instance(): an instance goes together with the ACO that is *)
(* about it.                                                               *)
DeleteWithAco(o, i) ==
  LET aco  == AcoFor(<<o, Find(o, i).id>>)
      tree == IF o = AccessControl \/ aco = Null THEN instances
              ELSE [instances EXCEPT ![AccessControl] = Discard(@, aco.id)]
  IN  [tree EXCEPT ![o] = Discard(@, i)]

(* To set an entry that is freed is to go wrong. *)
MergesFreed(old, new) == \E s \in DOMAIN old \cap DOMAIN new : old[s] = Freed

(* merge_resource() on an access control list.  An entry that is new is the *)
(* parsed one itself, so it is freed when the caller frees what it parsed. *)
(* An entry that exists is set; but the value field of the parsed list and *)
(* the type field of an entry made by lwm2m_resource_new() are not         *)
(* initialised: if the first is null the entry is nulled, and if the second *)
(* is no type the entry stays as it is.                                    *)
MergedAcls(old, new, freed) ==
  {[s \in DOMAIN old \cup DOMAIN new |->
      IF s \notin DOMAIN new THEN old[s]
      ELSE IF s \notin DOMAIN old THEN IF freed THEN Freed ELSE new[s]
      ELSE CASE merged[s] = "set"    -> new[s]
             [] merged[s] = "nulled" -> Null
             [] merged[s] = "stays"  -> old[s]] :
     merged \in [DOMAIN old \cap DOMAIN new -> {"set", "nulled", "stays"}]}
=============================================================================
