------------------------ MODULE DeviceManagement_proofs ------------------------
(***************************************************************************)
(* Proofs about ObjectTree and DeviceManagement, for any servers, objects, *)
(* policies and bounds.                                                    *)
(***************************************************************************)
EXTENDS DeviceManagement, Lists_proofs, FiniteSetTheorems

-----------------------------------------------------------------------------
(* What a list of object o holds. *)
Kind(o) == IF o = AccessControl THEN Aco ELSE Instance

(* An ACO is entered under its id, and is not about an ACO. *)
AcosOK(l) ==
  \A n \in DOMAIN l.elems :
    /\ l.elems[n].value.id = l.elems[n].key
    /\ l.elems[n].value.about[1] # AccessControl

TreeOK(tree) ==
  /\ DOMAIN tree = Object
  /\ \A o \in Object : tree[o] \in ListOf(Nat, Kind(o))
  /\ AcosOK(tree[AccessControl])

Dead(v) == [v EXCEPT !.live = FALSE]

LEMMA AccessControlIsObject ==
  ASSUME ObjectTreeAssumption
  PROVE  AccessControl \in Object /\ AccessControl \in Multiple
BY DEF ObjectTreeAssumption

LEMMA ElemType ==
  ASSUME NEW Value, NEW l \in ListOf(Nat, Value)
  PROVE  /\ l.elems \in Seq(Elem(Nat, Value))
         /\ \A n \in DOMAIN l.elems : l.elems[n].key \in Nat /\ l.elems[n].value \in Value
         /\ l.greatest_key \in Nat \cup {-1}
<1>1. l.elems \in Seq(Elem(Nat, Value)) /\ l.greatest_key \in Nat \cup {-1}
  BY DEF ListOf, Elem
<1>2. \A n \in DOMAIN l.elems : l.elems[n] \in Elem(Nat, Value)
  BY <1>1, ElementOfSeq, LenProperties
<1> QED BY <1>1, <1>2 DEF Elem

(* Replace puts the value into the first element with the key. *)
LEMMA ReplaceElems ==
  ASSUME NEW Value, NEW l \in ListOf(Nat, Value), NEW key \in Keys(l), NEW v \in Value, NEW null
  PROVE  /\ Replace(l, key, v) \in ListOf(Nat, Value)
         /\ \E n \in DOMAIN l.elems :
              /\ l.elems[n].key = key
              /\ lfind(l, key, null) = l.elems[n].value
              /\ Replace(l, key, v).elems = [l.elems EXCEPT ![n] = [key |-> key, value |-> v]]
              /\ Replace(l, key, v).greatest_key = l.greatest_key
<1> DEFINE n == First(l.elems, key)
<1>1. l.elems \in Seq(Elem(Nat, Value))
  BY ElemType
<1>2. n \in DOMAIN l.elems /\ l.elems[n].key = key
  BY <1>1, FirstWithKey DEF Keys
<1>3. n # 0
  BY <1>1, <1>2, LenProperties
<1>4. Replace(l, key, v) = [l EXCEPT !.elems[n].value = v]
  BY DEF Replace, First
<1>5. lfind(l, key, null) = l.elems[n].value
  <2>1. lfind(l, key, null) = IF n = 0 THEN null ELSE l.elems[n].value
    BY DEF lfind, First
  <2> QED BY <1>3, <2>1
<1> HIDE DEF n
<1>6. l.elems[n] \in Elem(Nat, Value)
  BY <1>1, <1>2, ElementOfSeq, LenProperties
<1>7. [l.elems[n] EXCEPT !.value = v] = [key |-> key, value |-> v]
  BY <1>2, <1>6 DEF Elem
<1>8. /\ Replace(l, key, v).elems = [l.elems EXCEPT ![n] = [key |-> key, value |-> v]]
      /\ Replace(l, key, v).greatest_key = l.greatest_key
      /\ Replace(l, key, v).guard = l.guard
      /\ Replace(l, key, v) = [elems |-> [l.elems EXCEPT ![n] = [key |-> key, value |-> v]],
                               greatest_key |-> l.greatest_key, guard |-> l.guard]
  BY <1>4, <1>7 DEF ListOf
<1>9. [l.elems EXCEPT ![n] = [key |-> key, value |-> v]] \in Seq(Elem(Nat, Value))
  <2>1. [key |-> key, value |-> v] \in Elem(Nat, Value)
    BY <1>2, <1>6 DEF Elem
  <2> QED BY <1>1, <1>2, <2>1, ExceptSeq
<1>10. Replace(l, key, v) \in ListOf(Nat, Value)
  BY <1>8, <1>9 DEF ListOf, Elem
<1> QED BY <1>2, <1>5, <1>8, <1>10

(* What is left of a list by Discard was in it, or is freed. *)
LEMMA DiscardElems ==
  ASSUME NEW Value, NEW l \in ListOf(Nat, Value), NEW key \in Keys(l),
         Dead(lfind(l, key, Null)) \in Value
  PROVE  /\ Discard(l, key) \in ListOf(Nat, Value)
         /\ \A i \in DOMAIN Discard(l, key).elems : \E j \in DOMAIN l.elems :
              LET e == Discard(l, key).elems[i]
              IN  e = l.elems[j] \/ e = [key |-> l.elems[j].key, value |-> Dead(l.elems[j].value)]
<1> DEFINE v == Dead(lfind(l, key, Null))
           r == Replace(l, key, v)
<1>1. Discard(l, key) = lremove(r, lfind(l, key, Null).id)
  BY DEF Discard, Dead
<1>2. r \in ListOf(Nat, Value)
  BY ReplaceElems
<1>3. PICK n \in DOMAIN l.elems :
        /\ l.elems[n].key = key
        /\ lfind(l, key, Null) = l.elems[n].value
        /\ r.elems = [l.elems EXCEPT ![n] = [key |-> key, value |-> v]]
  BY ReplaceElems
<1>4. \A j \in DOMAIN r.elems : j \in DOMAIN l.elems /\
        (r.elems[j] = l.elems[j] \/
         r.elems[j] = [key |-> l.elems[j].key, value |-> Dead(l.elems[j].value)])
  BY <1>3
<1> HIDE DEF v, r
<1>5. Discard(l, key) \in ListOf(Nat, Value)
  BY <1>1, <1>2, LremoveType
<1>6. \A i \in DOMAIN Discard(l, key).elems :
        \E j \in DOMAIN r.elems : Discard(l, key).elems[i] = r.elems[j]
  BY <1>1, <1>2, LremoveElems
<1> QED BY <1>4, <1>5, <1>6

(* Where AcoFor stops in a list of ACOs, and what it finds there.          *)
Stops(a, x) == a.about = x \/ ~a.complete \/ ~a.live

FirstStop(l, x) == SelectInSeq(l.elems, LAMBDA e : Stops(e.value, x))

FoundAco(l, x) == IF FirstStop(l, x) = 0 THEN Null ELSE l.elems[FirstStop(l, x)].value

LEMMA AcoForFound ==
  ASSUME NEW x
  PROVE  /\ AcoFor(x) = FoundAco(acos, x)
         /\ AcoFor(x)' = FoundAco(acos', x)
<1> DEFINE At(l) == {n \in 1..Len(l.elems) : Stops(l.elems[n].value, x)}
           first(l) == IF At(l) # {} THEN Min(At(l)) ELSE 0
<1>1. \A l : FoundAco(l, x) = IF first(l) = 0 THEN Null ELSE l.elems[first(l)].value
  BY DEF FoundAco, FirstStop, SelectInSeq
<1>2. AcoFor(x) = IF first(acos) = 0 THEN Null ELSE acos.elems[first(acos)].value
  BY DEF AcoFor, SelectInSeq, Stops
<1>3. AcoFor(x)' = IF first(acos') = 0 THEN Null ELSE acos'.elems[first(acos')].value
  BY DEF AcoFor, SelectInSeq, Stops
<1> HIDE DEF first
<1> QED BY <1>1, <1>2, <1>3

LEMMA FoundFirst ==
  ASSUME NEW l \in ListOf(Nat, Aco), NEW x
  PROVE  \/ /\ FoundAco(l, x) = Null
            /\ \A n \in DOMAIN l.elems : ~Stops(l.elems[n].value, x)
         \/ \E n \in DOMAIN l.elems :
              /\ FoundAco(l, x) = l.elems[n].value
              /\ Stops(l.elems[n].value, x)
              /\ \A m \in DOMAIN l.elems : Stops(l.elems[m].value, x) => n <= m
<1> DEFINE I == {n \in 1..Len(l.elems) : Stops(l.elems[n].value, x)}
           n == FirstStop(l, x)
<1>1. DOMAIN l.elems = 1..Len(l.elems) /\ Len(l.elems) \in Nat
  BY ElemType, LenProperties
<1>2. n = IF I # {} THEN Min(I) ELSE 0
  BY DEF FirstStop, SelectInSeq
<1>3. FoundAco(l, x) = IF n = 0 THEN Null ELSE l.elems[n].value
  BY DEF FoundAco
<1>4. CASE I = {}
  BY <1>1, <1>2, <1>3, <1>4
<1>5. CASE I # {}
  <2>1. I \subseteq Nat
    BY <1>1
  <2>2. n \in I /\ \A j \in I : n <= j
    <3> HIDE DEF I, n
    <3> QED BY <1>2, <1>5, <2>1, MinNatural
  <2> HIDE DEF n
  <2> QED BY <1>1, <1>3, <2>2
<1> QED BY <1>4, <1>5

-----------------------------------------------------------------------------
(* The tree stays well formed when one of its lists is changed.            *)
LEMMA TreeSet ==
  ASSUME ObjectTreeAssumption, NEW tree, TreeOK(tree), NEW o \in Object,
         NEW l \in ListOf(Nat, Kind(o)), o = AccessControl => AcosOK(l)
  PROVE  TreeOK([tree EXCEPT ![o] = l])
BY AccessControlIsObject DEF TreeOK

LEMMA AddOK ==
  ASSUME ObjectTreeAssumption, NEW tree, TreeOK(tree), NEW o \in Object,
         NEW i \in Nat, NEW v \in Kind(o),
         o = AccessControl => v.id = i /\ v.about[1] # AccessControl
  PROVE  TreeOK([tree EXCEPT ![o] = ladd(tree[o], i, v)])
<1> DEFINE l == tree[o]
           a == ladd(l, i, v)
<1>1. l \in ListOf(Nat, Kind(o)) /\ (o = AccessControl => AcosOK(l))
  BY DEF TreeOK
<1>2. a \in ListOf(Nat, Kind(o))
  BY <1>1, LaddType
<1>3. ASSUME o = AccessControl
      PROVE  AcosOK(a)
  <2>1. /\ DOMAIN a.elems = 1 .. Len(l.elems) + 1
        /\ a.elems[1] = [key |-> i, value |-> v]
        /\ \A n \in 1 .. Len(l.elems) : a.elems[n + 1] = l.elems[n]
    BY <1>1, LaddElems
  <2>2. DOMAIN l.elems = 1 .. Len(l.elems) /\ Len(l.elems) \in Nat
    BY <1>1, ElemType, LenProperties
  <2> HIDE DEF a, l
  <2>3. ASSUME NEW n \in DOMAIN a.elems
        PROVE  a.elems[n].value.id = a.elems[n].key /\ a.elems[n].value.about[1] # AccessControl
    <3>1. CASE n = 1
      BY <1>3, <2>1, <3>1
    <3>2. CASE n # 1
      <4>1. n - 1 \in DOMAIN l.elems /\ a.elems[n] = l.elems[n - 1]
        <5>1. n - 1 \in 1 .. Len(l.elems) /\ (n - 1) + 1 = n
          BY <2>1, <2>2, <3>2
        <5> QED BY <2>1, <2>2, <5>1
      <4> QED BY <1>1, <1>3, <4>1 DEF AcosOK
    <3> QED BY <3>1, <3>2
  <2> QED BY <2>3 DEF AcosOK
<1> HIDE DEF a
<1>4. TreeOK([tree EXCEPT ![o] = a])
  BY <1>2, <1>3, TreeSet
<1> QED BY <1>4 DEF a

LEMMA ReplaceOK ==
  ASSUME ObjectTreeAssumption, NEW tree, TreeOK(tree), NEW o \in Object,
         NEW i \in Keys(tree[o]), NEW v \in Kind(o),
         o = AccessControl => v.id = i /\ v.about[1] # AccessControl
  PROVE  TreeOK([tree EXCEPT ![o] = Replace(tree[o], i, v)])
<1>1. PICK l : l = tree[o]
  OBVIOUS
<1>2. l \in ListOf(Nat, Kind(o)) /\ i \in Keys(l) /\ (o = AccessControl => AcosOK(l))
  BY <1>1 DEF TreeOK
<1>3. PICK r : r = Replace(l, i, v)
  OBVIOUS
<1>4. /\ r \in ListOf(Nat, Kind(o))
      /\ \E n \in DOMAIN l.elems :
           l.elems[n].key = i /\ r.elems = [l.elems EXCEPT ![n] = [key |-> i, value |-> v]]
  BY <1>2, <1>3, ReplaceElems
<1>5. o = AccessControl => AcosOK(r)
  BY <1>2, <1>4 DEF AcosOK
<1>6. TreeOK([tree EXCEPT ![o] = r])
  BY <1>4, <1>5, TreeSet
<1> QED BY <1>1, <1>3, <1>6

LEMMA DeadType ==
  ASSUME NEW o, NEW v \in Kind(o)
  PROVE  Dead(v) \in Kind(o)
BY DEF Dead, Kind, Aco, Instance

LEMMA DiscardOK ==
  ASSUME ObjectTreeAssumption, NEW tree, TreeOK(tree), NEW o \in Object, NEW i \in Keys(tree[o])
  PROVE  TreeOK([tree EXCEPT ![o] = Discard(tree[o], i)])
<1> DEFINE l == tree[o]
           d == Discard(l, i)
<1>1. l \in ListOf(Nat, Kind(o)) /\ (o = AccessControl => AcosOK(l))
  BY DEF TreeOK
<1>2. lfind(l, i, Null) \in Kind(o)
  BY <1>1, ElemType, LfindValue
<1>3. Dead(lfind(l, i, Null)) \in Kind(o)
  BY <1>2, DeadType
<1>4. /\ d \in ListOf(Nat, Kind(o))
      /\ \A n \in DOMAIN d.elems : \E j \in DOMAIN l.elems :
           \/ d.elems[n] = l.elems[j]
           \/ d.elems[n] = [key |-> l.elems[j].key, value |-> Dead(l.elems[j].value)]
  BY <1>1, <1>3, DiscardElems
<1>5. \A j \in DOMAIN l.elems : l.elems[j].value \in Kind(o)
  BY <1>1, ElemType
<1> HIDE DEF l, d
<1>6. ASSUME o = AccessControl
      PROVE  AcosOK(d)
  <2>1. ASSUME NEW j \in DOMAIN l.elems
        PROVE  /\ Dead(l.elems[j].value).id = l.elems[j].value.id
               /\ Dead(l.elems[j].value).about = l.elems[j].value.about
    BY <1>5, <1>6 DEF Dead, Kind, Aco
  <2>2. ASSUME NEW n \in DOMAIN d.elems
        PROVE  d.elems[n].value.id = d.elems[n].key /\ d.elems[n].value.about[1] # AccessControl
    <3>1. PICK j \in DOMAIN l.elems :
            \/ d.elems[n] = l.elems[j]
            \/ d.elems[n] = [key |-> l.elems[j].key, value |-> Dead(l.elems[j].value)]
      BY <1>4
    <3>2. /\ l.elems[j].value.id = l.elems[j].key
          /\ l.elems[j].value.about[1] # AccessControl
      BY <1>1, <1>6 DEF AcosOK
    <3>3. CASE d.elems[n] = l.elems[j]
      BY <3>2, <3>3
    <3>4. CASE d.elems[n] = [key |-> l.elems[j].key, value |-> Dead(l.elems[j].value)]
      <4>1. d.elems[n].key = l.elems[j].key /\ d.elems[n].value = Dead(l.elems[j].value)
        BY <3>4
      <4> QED BY <2>1, <3>2, <4>1
    <3> QED BY <3>1, <3>3, <3>4
  <2> QED BY <2>2 DEF AcosOK
<1>7. TreeOK([tree EXCEPT ![o] = d])
  BY <1>4, <1>6, TreeSet
<1> QED BY <1>7 DEF d, l

(* An instance that is found has the type of its object, and an ACO its id. *)
LEMMA FindType ==
  ASSUME ObjectTreeAssumption, TreeOK(instances), NEW o \in Object, NEW i
  PROVE  /\ Exists(o, i) =>
              /\ Find(o, i) \in Kind(o) /\ Find(o, i) # Null
              /\ i \in Nat
              /\ o = AccessControl =>
                   Find(o, i).id = i /\ Find(o, i).about[1] # AccessControl
         /\ ~Exists(o, i) => Find(o, i) = Null
<1>1. instances[o] \in ListOf(Nat, Kind(o)) /\ (o = AccessControl => AcosOK(instances[o]))
  BY DEF TreeOK
<1>2. \A n \in DOMAIN instances[o].elems :
        instances[o].elems[n].key \in Nat /\ instances[o].elems[n].value \in Kind(o)
  BY <1>1, ElemType
<1>3. Null \notin Kind(o)
  BY DEF ObjectTreeAssumption, Kind
<1>4. CASE Find(o, i) = Null /\ ~Exists(o, i)
  BY <1>4
<1>5. ASSUME NEW n \in DOMAIN instances[o].elems,
             instances[o].elems[n].key = i, Find(o, i) = instances[o].elems[n].value
      PROVE  /\ Find(o, i) \in Kind(o) /\ Find(o, i) # Null
             /\ i \in Nat
             /\ o = AccessControl => Find(o, i).id = i /\ Find(o, i).about[1] # AccessControl
             /\ Exists(o, i)
  BY <1>1, <1>2, <1>3, <1>5 DEF AcosOK, Exists, lcontains, Keys
<1> QED BY <1>1, <1>4, <1>5, LfindValue DEF Find, Exists, lcontains

(* An ACO that is found is in the list under its id. *)
LEMMA AcoForType ==
  ASSUME ObjectTreeAssumption, TreeOK(instances), NEW x, AcoFor(x) # Null
  PROVE  /\ AcoFor(x) \in Aco
         /\ AcoFor(x).id \in Keys(acos)
         /\ AcoFor(x).about[1] # AccessControl
         /\ Reading(AcoFor(x)) = "none" => AcoFor(x).about = x
<1>1. acos \in ListOf(Nat, Aco) /\ AcosOK(acos)
  BY AccessControlIsObject DEF TreeOK, Kind, acos
<1>2. PICK n \in DOMAIN acos.elems :
        AcoFor(x) = acos.elems[n].value /\ Stops(acos.elems[n].value, x)
  BY <1>1, AcoForFound, FoundFirst
<1>3. acos.elems[n].value \in Aco
  BY <1>1, ElemType
<1> QED BY <1>1, <1>2, <1>3 DEF AcosOK, Keys, Stops, Reading, Following

LEMMA DeleteOK ==
  ASSUME ObjectTreeAssumption, TreeOK(instances), NEW o \in Object, NEW i, Exists(o, i)
  PROVE  TreeOK(DeleteWithAco(o, i))
<1> DEFINE aco == AcoFor(<<o, Find(o, i).id>>)
           tree == IF o = AccessControl \/ aco = Null THEN instances
                   ELSE [instances EXCEPT ![AccessControl] = Discard(acos, aco.id)]
<1>1. i \in Keys(instances[o])
  BY DEF Exists, lcontains
<1>2. TreeOK(tree) /\ tree[o] = instances[o]
  <2>1. CASE o = AccessControl \/ aco = Null
    BY <2>1
  <2>2. CASE o # AccessControl /\ aco # Null
    <3>1. aco.id \in Keys(acos)
      BY <2>2, AcoForType
    <3>2. TreeOK([instances EXCEPT ![AccessControl] = Discard(acos, aco.id)])
      BY <3>1, DiscardOK, AccessControlIsObject DEF acos
    <3> QED BY <2>2, <3>2 DEF TreeOK
  <2> QED BY <2>1, <2>2
<1>3. DeleteWithAco(o, i) = [tree EXCEPT ![o] = Discard(tree[o], i)]
  BY DEF DeleteWithAco, acos
<1> HIDE DEF tree
<1>4. i \in Keys(tree[o])
  BY <1>1, <1>2
<1>5. TreeOK([tree EXCEPT ![o] = Discard(tree[o], i)])
  BY <1>2, <1>4, DiscardOK
<1> QED BY <1>3, <1>5

LEMMA MergedAclType ==
  ASSUME NEW old \in Acl, NEW new \in Acl, NEW freed \in BOOLEAN,
         NEW acl \in MergedAcls(old, new, freed)
  PROVE  acl \in Acl
<1>1. /\ DOMAIN old \in SUBSET (Server \cup {0}) /\ \A s \in DOMAIN old : old[s] \in Entry
      /\ DOMAIN new \in SUBSET (Server \cup {0}) /\ \A s \in DOMAIN new : new[s] \in Entry
  BY DEF Acl
<1>2. PICK merged \in [DOMAIN old \cap DOMAIN new -> {"set", "nulled", "stays"}] :
        acl = [s \in DOMAIN old \cup DOMAIN new |->
                IF s \notin DOMAIN new THEN old[s]
                ELSE IF s \notin DOMAIN old THEN IF freed THEN Freed ELSE new[s]
                ELSE CASE merged[s] = "set"    -> new[s]
                       [] merged[s] = "nulled" -> Null
                       [] merged[s] = "stays"  -> old[s]]
  BY DEF MergedAcls
<1>3. Null \in Entry /\ Freed \in Entry
  BY DEF Entry
<1>4. ASSUME NEW s \in DOMAIN old \cup DOMAIN new
      PROVE  acl[s] \in Entry
  <2>1. CASE s \notin DOMAIN new
    BY <1>1, <1>2, <2>1
  <2>2. CASE s \in DOMAIN new /\ s \notin DOMAIN old
    BY <1>1, <1>2, <1>3, <2>2
  <2>3. CASE s \in DOMAIN new /\ s \in DOMAIN old
    <3>1. merged[s] \in {"set", "nulled", "stays"}
      BY <2>3
    <3> QED BY <1>1, <1>2, <1>3, <2>3, <3>1
  <2> QED BY <2>1, <2>2, <2>3
<1>5. acl \in [DOMAIN old \cup DOMAIN new -> Entry]
  BY <1>2, <1>4
<1>6. DOMAIN old \cup DOMAIN new \in SUBSET (Server \cup {0})
  BY <1>1
<1> QED BY <1>5, <1>6 DEF Acl

-----------------------------------------------------------------------------
(* The state besides the count of commands. *)
StateOK ==
  /\ TreeOK(instances)
  /\ registered \in [Server -> {"before", "listed", "gone"}]
  /\ object_tree_lock \in {"free", "kept"}
  /\ fault \in Faults

Assumptions == ObjectTreeAssumption /\ DeviceManagementAssumption

LEMMA FailOK ==
  ASSUME StateOK, NEW f \in Faults, Fail(f)
  PROVE  StateOK'
BY DEF StateOK, Fail

LEMMA KeepLockOK ==
  ASSUME StateOK, KeepLock
  PROVE  StateOK'
BY DEF StateOK, KeepLock

LEMMA SetTreeOK ==
  ASSUME StateOK, NEW tree, TreeOK(tree), SetTree(tree)
  PROVE  StateOK'
BY DEF StateOK, SetTree

LEMMA ReadingFault ==
  ASSUME NEW aco
  PROVE  Reading(aco) \in Faults
BY DEF Reading, Following, Faults

LEMMA NewAcoType ==
  ASSUME NEW i \in Nat, NEW whole \in BOOLEAN, NEW x \in Object \X (Nat \cup {AllInstances}),
         NEW s \in Server, NEW acl \in Acl
  PROVE  NewAco(i, whole, x, s, acl) \in Aco
BY DEF NewAco, Aco

(* Nobody is granted the CREATE of an ACO: no ACO is about ACOs. *)
LEMMA CreateGranted ==
  ASSUME Assumptions, StateOK, NEW s \in Server, NEW o \in Object,
         CheckCreate(s, o) = "granted"
  PROVE  /\ o # AccessControl
         /\ AcoFor(<<o, AllInstances>>) # Null
         /\ Reading(AcoFor(<<o, AllInstances>>)) = "none"
         /\ Grants(EntryOrDefault(AcoFor(<<o, AllInstances>>), s), "CREATE") = "granted"
<1> DEFINE aco == AcoFor(<<o, AllInstances>>)
<1>1. Reading(aco) # "granted"
  BY ReadingFault DEF Faults
<1>2. aco # Null /\ Reading(aco) = "none" /\ Grants(EntryOrDefault(aco, s), "CREATE") = "granted"
  BY <1>1 DEF CheckCreate
<1>3. aco.about[1] # AccessControl /\ aco.about = <<o, AllInstances>>
  BY <1>2, AcoForType DEF Assumptions, StateOK
<1> QED BY <1>2, <1>3

(* The rights a creator gets are a list of rights. *)
CreatorsAcl(s) == [t \in {s} |-> OwnersRights]

LEMMA CreatorsAclType ==
  ASSUME NEW s \in Server
  PROVE  CreatorsAcl(s) \in Acl
<1>1. OwnersRights \in Entry
  BY DEF OwnersRights, Entry
<1>2. CreatorsAcl(s) \in [{s} -> Entry] /\ {s} \in SUBSET (Server \cup {0})
  BY <1>1 DEF CreatorsAcl
<1> QED BY <1>2 DEF Acl

LEMMA NewIdType ==
  ASSUME ObjectTreeAssumption, TreeOK(instances), NEW o \in Object
  PROVE  NewId(o) \in Nat
<1>1. instances[o] \in ListOf(Nat, Kind(o))
  BY DEF TreeOK
<1>2. instances[o].greatest_key \in Nat \cup {-1}
  BY <1>1, ElemType
<1> QED BY <1>2 DEF NewId

LEMMA CreatedTreeOK ==
  ASSUME Assumptions, StateOK, NEW s \in Server, NEW o \in Object, NEW i \in Nat,
         CheckCreate(s, o) = "granted"
  PROVE  TreeOK(CreatedTree(s, o, i))
<1> DEFINE added == [instances EXCEPT ![o] = ladd(instances[o], i, NewInstance(i, TRUE))]
           n == NewId(AccessControl)
           aco == NewAco(n, TRUE, <<o, i>>, s, CreatorsAcl(s))
<1>1. o # AccessControl /\ AccessControl \in Object
  BY CreateGranted, AccessControlIsObject DEF Assumptions
<1>2. TreeOK(added) /\ added[AccessControl] = acos
  <2>1. NewInstance(i, TRUE) \in Kind(o)
    BY <1>1 DEF NewInstance, Kind, Instance
  <2>2. TreeOK(added)
    BY <1>1, <2>1, AddOK DEF StateOK, Assumptions
  <2>3. added[AccessControl] = acos
    BY <1>1 DEF acos, StateOK, TreeOK
  <2> QED BY <2>2, <2>3
<1>3. n \in Nat
  BY <1>1, NewIdType DEF StateOK, Assumptions
<1>4. aco \in Kind(AccessControl) /\ aco.id = n /\ aco.about[1] # AccessControl
  <2>1. aco \in Aco
    BY <1>3, CreatorsAclType, NewAcoType
  <2> QED BY <1>1, <2>1 DEF Kind, NewAco
<1>5. CreatedTree(s, o, i) = IF Cardinality(servers) <= 1 THEN added
                             ELSE [added EXCEPT ![AccessControl] = ladd(added[AccessControl], n, aco)]
  BY DEF CreatedTree, CreatorsAcl
<1> HIDE DEF added, n, aco
<1>6. TreeOK([added EXCEPT ![AccessControl] = ladd(added[AccessControl], n, aco)])
  BY <1>1, <1>2, <1>3, <1>4, AddOK DEF Assumptions
<1> QED BY <1>2, <1>5, <1>6

LEMMA FreeingOK ==
  ASSUME ObjectTreeAssumption, TreeOK(instances)
  PROVE  TreeOK([o \in Object |-> Freeing(instances[o])])
<1>1. ASSUME NEW o \in Object
      PROVE  /\ Freeing(instances[o]) \in ListOf(Nat, Kind(o))
             /\ o = AccessControl => AcosOK(Freeing(instances[o]))
  <2>1. PICK l : l = instances[o]
    OBVIOUS
  <2>2. l \in ListOf(Nat, Kind(o)) /\ (o = AccessControl => AcosOK(l))
    BY <2>1 DEF TreeOK
  <2>3. PICK f : f = [n \in DOMAIN l.elems |-> [l.elems[n] EXCEPT !.value.live = FALSE]]
    OBVIOUS
  <2>4. Freeing(l) = [l EXCEPT !.elems = f]
    BY <2>3 DEF Freeing
  <2>5. ASSUME NEW n \in DOMAIN l.elems
        PROVE  /\ f[n] = [key |-> l.elems[n].key, value |-> Dead(l.elems[n].value)]
               /\ f[n] \in Elem(Nat, Kind(o))
    <3>1. l.elems[n] \in Elem(Nat, Kind(o))
      BY <2>2, ElemType, ElementOfSeq, LenProperties
    <3>2. f[n] = [key |-> l.elems[n].key, value |-> Dead(l.elems[n].value)]
      BY <2>3, <3>1 DEF Dead, Elem
    <3>3. Dead(l.elems[n].value) \in Kind(o)
      BY <3>1, DeadType DEF Elem
    <3> QED BY <3>1, <3>2, <3>3 DEF Elem
  <2>6. f \in Seq(Elem(Nat, Kind(o)))
    <3>1. DOMAIN l.elems = 1..Len(l.elems) /\ Len(l.elems) \in Nat
      BY <2>2, ElemType, LenProperties
    <3>2. f = [n \in 1..Len(l.elems) |-> f[n]]
      BY <2>3, <3>1
    <3>3. \A n \in 1..Len(l.elems) : f[n] \in Elem(Nat, Kind(o))
      BY <2>5, <3>1
    <3> QED BY <3>1, <3>2, <3>3, IsASeq
  <2>7. Freeing(l) \in ListOf(Nat, Kind(o))
    BY <2>2, <2>4, <2>6 DEF ListOf, Elem
  <2>8. ASSUME o = AccessControl
        PROVE  AcosOK(Freeing(l))
    <3>1. Freeing(l).elems = f /\ DOMAIN f = DOMAIN l.elems
      BY <2>2, <2>3, <2>4 DEF ListOf
    <3>2. ASSUME NEW n \in DOMAIN l.elems
          PROVE  f[n].value.id = f[n].key /\ f[n].value.about[1] # AccessControl
      <4>1. l.elems[n].value \in Aco
        BY <2>2, <2>8, ElemType DEF Kind
      <4>2. /\ Dead(l.elems[n].value).id = l.elems[n].value.id
            /\ Dead(l.elems[n].value).about = l.elems[n].value.about
        BY <4>1 DEF Dead, Aco
      <4>3. /\ l.elems[n].value.id = l.elems[n].key
            /\ l.elems[n].value.about[1] # AccessControl
        BY <2>2, <2>8 DEF AcosOK
      <4>4. f[n].key = l.elems[n].key /\ f[n].value = Dead(l.elems[n].value)
        <5>1. f[n] = [key |-> l.elems[n].key, value |-> Dead(l.elems[n].value)]
          BY <2>5
        <5> QED BY <5>1
      <4> QED BY <4>2, <4>3, <4>4
    <3> QED BY <3>1, <3>2 DEF AcosOK
  <2> QED BY <2>1, <2>7, <2>8
<1> QED BY <1>1, AccessControlIsObject DEF TreeOK

-----------------------------------------------------------------------------
LEMMA InRange ==
  ASSUME Assumptions
  PROVE  0..MaxId \subseteq Nat /\ 0..MaxAcoId \subseteq Nat /\ 0 \in Nat
BY DEF Assumptions, DeviceManagementAssumption

(* A value of an instance that is in the tree is set. *)
LEMMA SetValueOK ==
  ASSUME Assumptions, StateOK, NEW o \in Object, NEW i, Exists(o, i), NEW v \in Kind(o),
         o = AccessControl => v.id = i /\ v.about[1] # AccessControl,
         SetTree([instances EXCEPT ![o] = Replace(instances[o], i, v)])
  PROVE  StateOK'
<1>1. i \in Keys(instances[o])
  BY DEF Exists, lcontains
<1>2. TreeOK([instances EXCEPT ![o] = Replace(instances[o], i, v)])
  BY <1>1, ReplaceOK DEF StateOK, Assumptions
<1> QED BY <1>2, SetTreeOK

LEMMA CompletedType ==
  ASSUME Assumptions, StateOK, NEW o \in Object, NEW i, o # AccessControl, Exists(o, i)
  PROVE  [Find(o, i) EXCEPT !.complete = TRUE] \in Kind(o)
<1>1. Find(o, i) \in Instance
  BY FindType DEF Assumptions, StateOK, Kind
<1> QED BY <1>1 DEF Instance, Kind

LEMMA WriteOK ==
  ASSUME Assumptions, StateOK, NEW s \in Server, NEW o \in Object, NEW i, Write(s, o, i)
  PROVE  StateOK'
<1>1. o # AccessControl /\ Exists(o, i)
  BY DEF Write
<1>2. [Find(o, i) EXCEPT !.complete = TRUE] \in Kind(o)
  BY <1>1, CompletedType
<1>3. SetTree([instances EXCEPT ![o] =
                 Replace(instances[o], i, [Find(o, i) EXCEPT !.complete = TRUE])])
  BY DEF Write
<1> QED BY <1>1, <1>2, <1>3, SetValueOK

LEMMA WriteAcoOK ==
  ASSUME Assumptions, StateOK, NEW s \in Server, NEW i, WriteAco(s, i)
  PROVE  StateOK'
<1> DEFINE aco == Find(AccessControl, i)
<1>1. Exists(AccessControl, i)
  BY DEF WriteAco
<1>2. aco \in Aco /\ aco.id = i /\ aco.about[1] # AccessControl
  BY <1>1, FindType, AccessControlIsObject DEF Assumptions, StateOK, Kind
<1> HIDE DEF aco
<1>3. ASSUME NEW new \in Aco, new.id = aco.id, new.about = aco.about,
             SetTree([instances EXCEPT ![AccessControl] =
                        Replace(instances[AccessControl], i, new)])
      PROVE  StateOK'
  BY <1>1, <1>2, <1>3, SetValueOK, AccessControlIsObject DEF Assumptions, Kind
<1>4. ASSUME NEW owner \in Server
      PROVE  /\ [aco EXCEPT !.owner = owner] \in Aco
             /\ [aco EXCEPT !.owner = owner].id = aco.id
             /\ [aco EXCEPT !.owner = owner].about = aco.about
  BY <1>2 DEF Aco
<1>5. ASSUME NEW acl \in Acl
      PROVE  /\ [aco EXCEPT !.acl = acl] \in Aco
             /\ [aco EXCEPT !.acl = acl].id = aco.id
             /\ [aco EXCEPT !.acl = acl].about = aco.about
  BY <1>2 DEF Aco
<1>6. ASSUME NEW new \in Written, NEW acl \in MergedAcls(aco.acl, new, TRUE)
      PROVE  acl \in Acl
  <2>1. new \in Acl /\ aco.acl \in Acl
    BY <1>2 DEF Assumptions, DeviceManagementAssumption, Aco
  <2> QED BY <2>1, MergedAclType
<1>7. \/ \E owner \in Server :
           SetTree([instances EXCEPT ![AccessControl] =
                      Replace(instances[AccessControl], i, [aco EXCEPT !.owner = owner])])
      \/ Fail("freed")
      \/ \E new \in Written : \E acl \in MergedAcls(aco.acl, new, TRUE) :
           SetTree([instances EXCEPT ![AccessControl] =
                      Replace(instances[AccessControl], i, [aco EXCEPT !.acl = acl])])
  BY DEF WriteAco, aco
<1> QED BY <1>3, <1>4, <1>5, <1>6, <1>7, FailOK DEF Faults

LEMMA AddInstanceOK ==
  ASSUME Assumptions, StateOK, NEW o \in Object, NEW i \in Nat, NEW j \in Nat,
         NEW whole \in BOOLEAN, o # AccessControl
  PROVE  TreeOK([instances EXCEPT ![o] = ladd(instances[o], i, NewInstance(j, whole))])
<1>1. NewInstance(j, whole) \in Kind(o)
  BY DEF NewInstance, Kind, Instance
<1> QED BY <1>1, AddOK DEF Assumptions, StateOK

LEMMA RequestOK ==
  ASSUME Assumptions, StateOK, NEW s \in Server, Request(s)
  PROVE  StateOK'
<1>1. ASSUME NEW o \in Object, NEW i \in 0..MaxAcoId, NEW op \in Rights \ {"CREATE"},
             RequestFails(s, o, i, op) \/ RefusedKeepsLock(s, o, i, op)
      PROVE  StateOK'
  BY <1>1, FailOK, KeepLockOK DEF RequestFails, RefusedKeepsLock
<1>2. ASSUME NEW o \in Object, NEW i \in 0..MaxAcoId, Write(s, o, i)
      PROVE  StateOK'
  BY <1>2, WriteOK
<1>3. ASSUME NEW o \in Object, NEW i \in 0..MaxAcoId, Delete(s, o, i)
      PROVE  StateOK'
  <2>1. Exists(o, i)
    BY <1>3 DEF Delete
  <2>2. \/ SetTree(DeleteWithAco(o, i))
        \/ Fail(Reading(AcoFor(<<o, Find(o, i).id>>)))
    BY <1>3 DEF Delete, DeletedTree
  <2>3. TreeOK(DeleteWithAco(o, i))
    BY <2>1, DeleteOK DEF Assumptions, StateOK
  <2> QED BY <2>2, <2>3, SetTreeOK, FailOK, ReadingFault
<1>4. ASSUME NEW i \in 0..MaxAcoId, WriteAco(s, i)
      PROVE  StateOK'
  BY <1>4, WriteAcoOK
<1>5. ASSUME (\E i \in 0..MaxAcoId : ReadFreedEntry(s, i)) \/ NotFound(s)
      PROVE  StateOK'
  BY <1>5, FailOK DEF ReadFreedEntry, NotFound, Faults
<1>6. ASSUME NEW o \in Object, CreateFails(s, o)
      PROVE  StateOK'
  BY <1>6, FailOK DEF CreateFails, Faults
<1>7. ASSUME NEW o \in Object, CreateRefused(s, o)
      PROVE  StateOK'
  BY <1>7, KeepLockOK DEF CreateRefused
<1>8. ASSUME NEW o \in Object, NEW i \in 0..MaxId \cup {NewId(o)},
             Create(s, o, i) \/ CreateIncomplete(s, o, i)
      PROVE  StateOK'
  <2>1. CheckCreate(s, o) = "granted"
    BY <1>8 DEF Create, CreateIncomplete, MayCreate
  <2>2. i \in Nat
    BY InRange, NewIdType DEF Assumptions, StateOK
  <2>3. CASE Create(s, o, i)
    <3>1. TreeOK(CreatedTree(s, o, i))
      BY <2>1, <2>2, CreatedTreeOK
    <3> QED BY <2>3, <3>1, SetTreeOK DEF Create
  <2>4. CASE CreateIncomplete(s, o, i)
    <3>1. o # AccessControl
      BY <2>1, CreateGranted
    <3>2. TreeOK(instances')
      BY <2>2, <2>4, <3>1, AddInstanceOK DEF CreateIncomplete
    <3>3. object_tree_lock' = "kept" /\ UNCHANGED <<registered, fault>>
      BY <2>4 DEF CreateIncomplete
    <3> QED BY <3>2, <3>3 DEF StateOK
  <2> QED BY <1>8, <2>3, <2>4
<1> QED BY <1>1, <1>2, <1>3, <1>4, <1>5, <1>6, <1>7, <1>8 DEF Request

LEMMA BootWriteOK ==
  ASSUME Assumptions, StateOK, NEW o \in Object, NEW i \in 0..MaxId, NEW whole \in BOOLEAN,
         BootWrite(o, i, whole)
  PROVE  StateOK'
<1>1. o # AccessControl
  BY DEF BootWrite
<1>2. CASE ~Exists(o, i)
  <2>1. i \in Nat /\ BootId(o, i) \in Nat
    BY InRange DEF BootId
  <2>2. TreeOK([instances EXCEPT ![o] = ladd(instances[o], i, NewInstance(BootId(o, i), whole))])
    BY <1>1, <2>1, AddInstanceOK
  <2>3. SetTree([instances EXCEPT ![o] = ladd(instances[o], i, NewInstance(BootId(o, i), whole))])
    BY <1>2 DEF BootWrite
  <2> QED BY <2>2, <2>3, SetTreeOK
<1>3. CASE Exists(o, i)
  <2>1. [Find(o, i) EXCEPT !.complete = TRUE] \in Kind(o)
    BY <1>1, <1>3, CompletedType
  <2>2. \/ Fail("freed")
        \/ SetTree([instances EXCEPT ![o] =
             Replace(instances[o], i, [Find(o, i) EXCEPT !.complete = TRUE])])
    BY <1>3 DEF BootWrite
  <2>3. "freed" \in Faults
    BY DEF Faults
  <2> QED BY <1>1, <1>3, <2>1, <2>2, <2>3, SetValueOK, FailOK
<1> QED BY <1>2, <1>3

LEMMA BootWriteAcoOK ==
  ASSUME Assumptions, StateOK, NEW i \in 0..MaxAcoId, NEW p \in BootPolicy,
         NEW whole \in BOOLEAN, BootWriteAco(i, whole, p)
  PROVE  StateOK'
<1> DEFINE old == Find(AccessControl, i)
<1>1. /\ p.about \in Object \X (Nat \cup {AllInstances}) /\ p.about[1] # AccessControl
      /\ p.owner \in Server /\ p.acl \in Acl
  <2>1. p \in Policy /\ p.about[1] # AccessControl
    BY DEF Assumptions, DeviceManagementAssumption
  <2> QED BY <2>1, InRange DEF Policy
<1>2. i \in Nat /\ AccessControl \in Object
  BY InRange, AccessControlIsObject DEF Assumptions
<1>3. ASSUME NEW w \in BOOLEAN, NEW acl \in Acl
      PROVE  LET a == NewAco(i, w, p.about, p.owner, acl)
             IN  a \in Kind(AccessControl) /\ a.id = i /\ a.about[1] # AccessControl
  BY <1>1, <1>2, NewAcoType DEF Kind, NewAco
<1>4. CASE old = Null
  <2> DEFINE acl == IF whole THEN p.acl ELSE <<>>
             a == NewAco(i, whole, p.about, p.owner, acl)
  <2>1. <<>> \in Acl
    <3>1. <<>> \in [{} -> Entry]
      OBVIOUS
    <3>2. {} \in SUBSET (Server \cup {0})
      OBVIOUS
    <3> QED BY <3>1, <3>2 DEF Acl
  <2>2. a \in Kind(AccessControl) /\ a.id = i /\ a.about[1] # AccessControl
    BY <1>1, <1>3, <2>1
  <2>3. SetTree([instances EXCEPT ![AccessControl] = ladd(instances[AccessControl], i, a)])
    BY <1>4 DEF BootWriteAco
  <2> HIDE DEF a
  <2>4. TreeOK([instances EXCEPT ![AccessControl] = ladd(instances[AccessControl], i, a)])
    BY <1>2, <2>2, AddOK DEF StateOK, Assumptions
  <2> QED BY <2>3, <2>4, SetTreeOK
<1>5. CASE old # Null
  <2>1. Exists(AccessControl, i) /\ old \in Aco
    BY <1>2, <1>5, FindType DEF Assumptions, StateOK, Kind
  <2>2. \/ Fail("freed")
        \/ \E freed \in BOOLEAN : \E acl \in MergedAcls(old.acl, p.acl, freed) :
             SetTree([instances EXCEPT ![AccessControl] =
               Replace(instances[AccessControl], i, NewAco(i, TRUE, p.about, p.owner, acl))])
    BY <1>5 DEF BootWriteAco
  <2>3. ASSUME NEW freed \in BOOLEAN, NEW acl \in MergedAcls(old.acl, p.acl, freed)
        PROVE  acl \in Acl
    <3>1. old.acl \in Acl
      BY <2>1 DEF Aco
    <3> QED BY <1>1, <3>1, MergedAclType
  <2>4. ASSUME NEW acl \in Acl,
               SetTree([instances EXCEPT ![AccessControl] =
                 Replace(instances[AccessControl], i, NewAco(i, TRUE, p.about, p.owner, acl))])
        PROVE  StateOK'
    <3>1. LET a == NewAco(i, TRUE, p.about, p.owner, acl)
          IN  a \in Kind(AccessControl) /\ a.id = i /\ a.about[1] # AccessControl
      BY <1>3
    <3> QED BY <1>2, <2>1, <2>4, <3>1, SetValueOK
  <2> QED BY <2>2, <2>3, <2>4, FailOK DEF Faults
<1> QED BY <1>4, <1>5

LEMMA BootstrapOK ==
  ASSUME Assumptions, StateOK, Bootstrap
  PROVE  StateOK'
<1>1. ASSUME NEW o \in Object, NEW i \in 0..MaxAcoId, BootDelete(o, i)
      PROVE  StateOK'
  <2>1. i \in Keys(instances[o])
    BY <1>1 DEF BootDelete, Exists, lcontains
  <2>2. TreeOK([instances EXCEPT ![o] = Discard(instances[o], i)])
    BY <2>1, DiscardOK DEF Assumptions, StateOK
  <2>3. \/ Fail("freed")
        \/ SetTree([instances EXCEPT ![o] = Discard(instances[o], i)])
    BY <1>1 DEF BootDelete
  <2> QED BY <2>2, <2>3, SetTreeOK, FailOK DEF Faults
<1>2. ASSUME BootDeleteAll
      PROVE  StateOK'
  <2>1. TreeOK([o \in Object |-> Freeing(instances[o])])
    BY FreeingOK DEF Assumptions, StateOK
  <2>2. \/ Fail("freed")
        \/ SetTree([o \in Object |-> Freeing(instances[o])])
    BY <1>2 DEF BootDeleteAll
  <2> QED BY <2>1, <2>2, SetTreeOK, FailOK DEF Faults
<1>3. ASSUME BootNotFound
      PROVE  StateOK'
  BY <1>3, FailOK DEF BootNotFound, Faults
<1> QED BY <1>1, <1>2, <1>3, BootWriteOK, BootWriteAcoOK DEF Bootstrap

TypeInv == StateOK /\ commands \in 0..MaxCommands

LEMMA TypeInit ==
  ASSUME Assumptions, Init
  PROVE  TypeInv
<1>1. \A o \in Object : NewList \in ListOf(Nat, Kind(o))
  BY DEF NewList, ListOf
<1>2. AcosOK(NewList)
  BY DEF NewList, AcosOK
<1>3. TreeOK(instances)
  BY <1>1, <1>2, AccessControlIsObject DEF Init, TreeOK, Assumptions
<1>4. 0 \in 0..MaxCommands
  BY DEF Assumptions, DeviceManagementAssumption
<1> QED BY <1>3, <1>4 DEF Init, TypeInv, StateOK, Faults

LEMMA TypeStep ==
  ASSUME Assumptions, TypeInv, [Next]_vars
  PROVE  TypeInv'
<1>1. ASSUME UNCHANGED vars
      PROVE  TypeInv'
  BY <1>1 DEF TypeInv, StateOK, TreeOK, vars
<1>2. ASSUME NEW s \in Server, Register(s) \/ Deregistered(s)
      PROVE  StateOK'
  <2>1. TreeOK(instances)'
    BY <1>2 DEF Register, Deregistered, TypeInv, StateOK, TreeOK
  <2> QED BY <1>2, <2>1 DEF Register, Deregistered, TypeInv, StateOK
<1>3. ASSUME NEW s \in Server, Request(s)
      PROVE  StateOK'
  BY <1>3, RequestOK DEF TypeInv
<1>4. ASSUME Command
      PROVE  TypeInv'
  <2>1. StateOK'
    BY <1>4, BootstrapOK DEF Command, TypeInv
  <2>2. (commands \in 0..MaxCommands)'
    BY <1>4 DEF Command, TypeInv, Assumptions, DeviceManagementAssumption
  <2> QED BY <2>1, <2>2 DEF TypeInv
<1> QED BY <1>1, <1>2, <1>3, <1>4 DEF Next, TypeInv

(* Every variable keeps its type: whatever is requested, a list of the tree *)
(* holds what belongs there, and its guard is 0 or 1.                      *)
THEOREM TypeCorrect ==
  ASSUME ObjectTreeAssumption, DeviceManagementAssumption PROVE Spec => []TypeOK
<1>1. Init => TypeInv
  BY TypeInit DEF Assumptions
<1>2. TypeInv /\ [Next]_vars => TypeInv'
  BY TypeStep DEF Assumptions
<1>3. TypeInv => TypeOK
  BY DEF TypeInv, StateOK, TreeOK, TypeOK, TreeTypeOK, Kind
<1> QED BY <1>1, <1>2, <1>3, PTL DEF Spec

-----------------------------------------------------------------------------
(* What is added to a list shadows what is in it. *)
LEMMA AddedIsFound ==
  ASSUME NEW Value, NEW l \in ListOf(Nat, Value), NEW key \in Nat, NEW v \in Value, NEW null
  PROVE  lfind(ladd(l, key, v), key, null) = v
<1> DEFINE a == ladd(l, key, v)
           n == First(a.elems, key)
<1>1. 1 \in DOMAIN a.elems /\ a.elems[1] = [key |-> key, value |-> v]
  <2>1. Len(l.elems) \in Nat
    BY ElemType, LenProperties
  <2> QED BY <2>1, LaddElems
<1>2. a.elems \in Seq(Elem(Nat, Value))
  BY LaddType, ElemType
<1>3. lfind(a, key, null) = IF n = 0 THEN null ELSE a.elems[n].value
  BY DEF lfind, First
<1> HIDE DEF a
<1>4. n \in DOMAIN a.elems /\ n <= 1 /\ n # 0
  BY <1>1, <1>2, FirstWithKey, LenProperties
<1>5. n = 1
  BY <1>2, <1>4, LenProperties
<1> QED BY <1>1, <1>3, <1>5 DEF a

LEMMA AddedAcoIsFound ==
  ASSUME NEW l \in ListOf(Nat, Aco), NEW key \in Nat, NEW a \in Aco
  PROVE  FoundAco(ladd(l, key, a), a.about) = a
<1>1. PICK m : m = ladd(l, key, a)
  OBVIOUS
<1>2. 1 \in DOMAIN m.elems /\ m.elems[1] = [key |-> key, value |-> a]
  <2>1. Len(l.elems) \in Nat
    BY ElemType, LenProperties
  <2> QED BY <1>1, <2>1, LaddElems
<1>3. m \in ListOf(Nat, Aco)
  BY <1>1, LaddType
<1>4. Stops(m.elems[1].value, a.about)
  BY <1>2 DEF Stops
<1>5. PICK n \in DOMAIN m.elems : FoundAco(m, a.about) = m.elems[n].value /\ n <= 1
  BY <1>2, <1>3, <1>4, FoundFirst
<1>6. n = 1
  BY <1>3, <1>5, ElemType, LenProperties
<1> QED BY <1>1, <1>2, <1>5, <1>6

LEMMA ServersAreFew ==
  ASSUME Assumptions
  PROVE  /\ IsFiniteSet(servers) /\ Cardinality(servers) \in Nat
         /\ \A s \in servers : Cardinality(servers) = 1 <=> servers = {s}
         /\ Cardinality(servers) <= 1 => \A s, t \in servers : s = t
<1>1. IsFiniteSet(servers)
  <2>1. servers \subseteq Server
    BY DEF servers
  <2>2. IsFiniteSet(Server)
    BY DEF Assumptions, ObjectTreeAssumption
  <2> QED BY <2>1, <2>2, FS_Subset
<1>2. Cardinality(servers) \in Nat
  BY <1>1, FS_CardinalityType
<1>3. ASSUME NEW s \in servers
      PROVE  Cardinality(servers) = 1 <=> servers = {s}
  <2>1. Cardinality(servers) = 1 <=> \E x : servers = {x}
    BY <1>1, FS_Singleton
  <2> QED BY <2>1
<1>4. ASSUME Cardinality(servers) <= 1, NEW s \in servers, NEW t \in servers
      PROVE  s = t
  <2>1. Cardinality(servers) # 0
    BY <1>1, FS_EmptySet
  <2>2. Cardinality(servers) = 1
    BY <1>2, <1>4, <2>1
  <2> QED BY <1>3, <2>2
<1> QED BY <1>1, <1>2, <1>3, <1>4

(* Once the creator's ACO is found, it has the rights and nobody else.     *)
LEMMA CreatorAlone ==
  ASSUME Assumptions, StateOK, NEW s \in servers, NEW o \in Object, NEW i \in 0..MaxId,
         Create(s, o, i), NEW t \in servers \ {s}, NEW op \in OwnersRights
  PROVE  /\ CheckInstance(s, o, Find(o, i), op)' = "granted"
         /\ CheckInstance(t, o, Find(o, i), op)' = "refused"
<1> DEFINE n == NewId(AccessControl)
           inst == NewInstance(i, TRUE)
           aco == NewAco(n, TRUE, <<o, i>>, s, CreatorsAcl(s))
<1>1. s \in Server /\ t \in Server /\ s # t /\ i \in Nat
  BY InRange DEF servers
<1>2. ~(Cardinality(servers) <= 1)
  BY <1>1, ServersAreFew
<1>3. o # AccessControl /\ AccessControl \in Object
  <2>1. CheckCreate(s, o) = "granted"
    BY DEF Create, MayCreate
  <2> QED BY <1>1, <2>1, CreateGranted, AccessControlIsObject DEF Assumptions
<1>4. inst \in Kind(o) /\ n \in Nat /\ aco \in Aco
  <2>1. inst \in Kind(o)
    BY <1>1, <1>3 DEF NewInstance, Kind, Instance
  <2>2. n \in Nat
    BY <1>3, NewIdType DEF StateOK, Assumptions
  <2>3. aco \in Aco
    BY <1>1, <2>2, CreatorsAclType, NewAcoType
  <2> QED BY <2>1, <2>2, <2>3
<1>5. /\ instances'[o] = ladd(instances[o], i, inst)
      /\ instances'[AccessControl] = ladd(acos, n, aco)
      /\ servers' = servers
  <2>1. instances' = [[instances EXCEPT ![o] = ladd(instances[o], i, inst)]
                        EXCEPT ![AccessControl] = ladd(acos, n, aco)]
    BY <1>2, <1>3 DEF Create, SetTree, CreatedTree, CreatorsAcl, acos, StateOK, TreeOK
  <2>2. servers' = servers
    BY DEF Create, SetTree, servers
  <2> HIDE DEF n, inst, aco
  <2> QED BY <1>3, <2>1, <2>2 DEF StateOK, TreeOK
<1>6. Find(o, i)' = inst
  <2>1. instances[o] \in ListOf(Nat, Kind(o))
    BY DEF StateOK, TreeOK
  <2>2. lfind(ladd(instances[o], i, inst), i, Null) = inst
    <3> HIDE DEF inst
    <3> QED BY <1>1, <1>4, <2>1, AddedIsFound
  <2> QED BY <1>5, <2>2 DEF Find
<1>7. AcoFor(<<o, inst.id>>)' = aco
  <2>1. acos \in ListOf(Nat, Aco)
    BY <1>3 DEF StateOK, TreeOK, Kind, acos
  <2>2. FoundAco(ladd(acos, n, aco), aco.about) = aco
    BY <1>4, <2>1, AddedAcoIsFound
  <2>3. acos' = ladd(acos, n, aco)
    BY <1>5 DEF acos
  <2>4. aco.about = <<o, inst.id>>
    BY DEF NewAco, NewInstance
  <2>5. AcoFor(<<o, inst.id>>)' = FoundAco(acos', <<o, inst.id>>)
    BY AcoForFound
  <2> QED BY <2>2, <2>3, <2>4, <2>5
<1>8. Reading(aco) = "none" /\ aco.acl = CreatorsAcl(s) /\ aco.owner = s
  <2>1. aco # Null
    BY <1>4 DEF Assumptions, ObjectTreeAssumption
  <2>2. aco.live = TRUE /\ aco.complete = TRUE /\ aco.acl = CreatorsAcl(s) /\ aco.owner = s
    BY DEF NewAco
  <2> HIDE DEF aco
  <2> QED BY <2>1, <2>2 DEF Reading, Following
<1> HIDE DEF aco, inst, n
<1>9. Cardinality(servers)' # 1
  BY <1>2, <1>5
<1>10. ASSUME NEW u
       PROVE  CheckInstance(u, o, Find(o, i), op)' =
                IF u \notin DOMAIN CreatorsAcl(s) /\ s = u THEN "granted"
                ELSE Grants(EntryOrDefault(aco, u), op)
  BY <1>6, <1>7, <1>8, <1>9 DEF CheckInstance
<1>11. /\ DOMAIN CreatorsAcl(s) = {s} /\ CreatorsAcl(s)[s] = OwnersRights
       /\ 0 \notin {s}
  BY <1>1 DEF CreatorsAcl, Assumptions, ObjectTreeAssumption
<1>12. EntryOrDefault(aco, s) = OwnersRights /\ EntryOrDefault(aco, t) = {}
  BY <1>1, <1>8, <1>11 DEF EntryOrDefault
<1>13. \A rights \in SUBSET Rights : Null # rights /\ Freed # rights
  BY DEF Assumptions, ObjectTreeAssumption
<1>14. Grants(OwnersRights, op) = "granted" /\ Grants({}, op) = "refused"
  BY <1>13 DEF Grants, OwnersRights
<1> QED BY <1>1, <1>10, <1>11, <1>12, <1>14

(* An instance created while several servers are listed is its creator's   *)
(* alone, whatever ACOs an unknowing bootstrap server has left.            *)
THEOREM CreatorOwns ==
  ASSUME ObjectTreeAssumption, DeviceManagementAssumption PROVE Spec => NewInstanceIsCreators
<1> DEFINE Own == \A s \in servers, o \in Object, i \in 0..MaxId :
              Create(s, o, i) =>
                \A t \in servers \ {s}, op \in OwnersRights :
                  /\ CheckInstance(s, o, Find(o, i), op)' = "granted"
                  /\ CheckInstance(t, o, Find(o, i), op)' = "refused"
<1>1. Init => TypeInv
  BY TypeInit DEF Assumptions
<1>2. TypeInv /\ [Next]_vars => TypeInv'
  BY TypeStep DEF Assumptions
<1>3. TypeInv => Own
  BY CreatorAlone DEF Assumptions, TypeInv
<1>4. TypeInv /\ [Next]_vars => [Own]_instances
  BY <1>3
<1> QED BY <1>1, <1>2, <1>4, PTL DEF Spec, NewInstanceIsCreators

-----------------------------------------------------------------------------
(* While the bootstrap server is careful, lists stay neat: an instance is  *)
(* entered once, under its id, and nothing that is freed stays linked.     *)
(* Then a list is as good as the set of its values.                        *)
NeatList(l) ==
  /\ DistinctKeys(l)
  /\ \A n \in DOMAIN l.elems : l.elems[n].value.id = l.elems[n].key /\ l.elems[n].value.live

LEMMA NeatSet ==
  ASSUME NEW Value, NEW l \in ListOf(Nat, Value), NeatList(l)
  PROVE  /\ Values(l) \subseteq Value
         /\ \A v \in Values(l) : v.id \in Nat /\ v.live
         /\ \A v, w \in Values(l) : v.id = w.id => v = w
         /\ \A i : i \in Keys(l) <=> \E v \in Values(l) : v.id = i
         /\ \A i \in Keys(l) : \A null :
              lfind(l, i, null) \in Values(l) /\ lfind(l, i, null).id = i
<1>1. \A n \in DOMAIN l.elems : l.elems[n].key \in Nat /\ l.elems[n].value \in Value
  BY ElemType
<1>2. /\ Values(l) \subseteq Value
      /\ \A v \in Values(l) : v.id \in Nat /\ v.live
      /\ \A v, w \in Values(l) : v.id = w.id => v = w
  BY <1>1 DEF Values, NeatList, DistinctKeys
<1>3. \A i : i \in Keys(l) <=> \E v \in Values(l) : v.id = i
  BY DEF Keys, Values, NeatList
<1>4. ASSUME NEW i \in Keys(l), NEW null
      PROVE  lfind(l, i, null) \in Values(l) /\ lfind(l, i, null).id = i
  <2>1. PICK n \in DOMAIN l.elems :
          l.elems[n].key = i /\ lfind(l, i, null) = l.elems[n].value
    BY <1>4, LfindValue
  <2> QED BY <2>1 DEF Values, NeatList
<1> QED BY <1>2, <1>3, <1>4

LEMMA NeatAdd ==
  ASSUME NEW Value, NEW l \in ListOf(Nat, Value), NeatList(l),
         NEW i \in Nat, i \notin Keys(l), NEW v \in Value, v.id = i, v.live
  PROVE  /\ NeatList(ladd(l, i, v))
         /\ Values(ladd(l, i, v)) = Values(l) \cup {v}
<1>1. PICK a : a = ladd(l, i, v)
  OBVIOUS
<1>2. DistinctKeys(a) /\ Values(a) = Values(l) \cup {v}
  BY <1>1, LaddDistinct, LaddValues DEF NeatList
<1>3. /\ DOMAIN a.elems = 1 .. Len(l.elems) + 1
      /\ a.elems[1] = [key |-> i, value |-> v]
      /\ \A n \in 1 .. Len(l.elems) : a.elems[n + 1] = l.elems[n]
  BY <1>1, LaddElems
<1>4. DOMAIN l.elems = 1 .. Len(l.elems) /\ Len(l.elems) \in Nat
  BY ElemType, LenProperties
<1>5. ASSUME NEW n \in DOMAIN a.elems
      PROVE  a.elems[n].value.id = a.elems[n].key /\ a.elems[n].value.live
  <2>1. CASE n = 1
    BY <1>3, <2>1
  <2>2. CASE n # 1
    <3>1. n - 1 \in 1 .. Len(l.elems) /\ (n - 1) + 1 = n
      BY <1>3, <1>4, <2>2
    <3>2. a.elems[n] = l.elems[n - 1] /\ n - 1 \in DOMAIN l.elems
      BY <1>3, <1>4, <3>1
    <3> QED BY <3>2 DEF NeatList
  <2> QED BY <2>1, <2>2
<1> QED BY <1>1, <1>2, <1>5 DEF NeatList

LEMMA NeatReplace ==
  ASSUME NEW Value, NEW l \in ListOf(Nat, Value), NeatList(l),
         NEW i \in Keys(l), NEW v \in Value, v.id = i, v.live
  PROVE  /\ NeatList(Replace(l, i, v))
         /\ Values(Replace(l, i, v)) = (Values(l) \ {lfind(l, i, Null)}) \cup {v}
         /\ KeysBounded(l) => KeysBounded(Replace(l, i, v))
<1>1. PICK r : r = Replace(l, i, v)
  OBVIOUS
<1>2. PICK old : old = lfind(l, i, Null)
  OBVIOUS
<1>3. \E m \in DOMAIN l.elems :
        /\ l.elems[m].key = i
        /\ old = l.elems[m].value
        /\ r.elems = [l.elems EXCEPT ![m] = [key |-> i, value |-> v]]
        /\ r.greatest_key = l.greatest_key
  BY <1>1, <1>2, ReplaceElems
<1>4. PICK m \in DOMAIN l.elems :
        /\ l.elems[m].key = i
        /\ old = l.elems[m].value
        /\ r.elems = [l.elems EXCEPT ![m] = [key |-> i, value |-> v]]
        /\ r.greatest_key = l.greatest_key
  BY <1>3
<1>5. /\ DOMAIN r.elems = DOMAIN l.elems
      /\ r.elems[m].key = i /\ r.elems[m].value = v
      /\ \A n \in DOMAIN l.elems \ {m} : r.elems[n] = l.elems[n]
  BY <1>4
<1>6. \A n \in DOMAIN l.elems : r.elems[n].key = l.elems[n].key
  BY <1>4, <1>5
<1>7. NeatList(r)
  BY <1>5, <1>6 DEF NeatList, DistinctKeys
<1>8. \A n \in DOMAIN l.elems \ {m} : l.elems[n].value # old
  BY <1>4 DEF NeatList, DistinctKeys
<1>9. Values(r) = (Values(l) \ {old}) \cup {v}
  <2>1. ASSUME NEW w \in Values(r)
        PROVE  w \in (Values(l) \ {old}) \cup {v}
    BY <1>5, <1>8 DEF Values
  <2>2. ASSUME NEW w \in Values(l), w # old
        PROVE  w \in Values(r)
    BY <1>4, <1>5, <2>2 DEF Values
  <2>3. v \in Values(r)
    BY <1>5 DEF Values
  <2> QED BY <2>1, <2>2, <2>3
<1>10. KeysBounded(l) => KeysBounded(r)
  BY <1>4, <1>5, <1>6 DEF KeysBounded
<1> QED BY <1>1, <1>2, <1>7, <1>9, <1>10

LEMMA NeatDiscard ==
  ASSUME NEW o, NEW l \in ListOf(Nat, Kind(o)), NeatList(l), NEW i \in Keys(l)
  PROVE  /\ NeatList(Discard(l, i))
         /\ Values(Discard(l, i)) = Values(l) \ {lfind(l, i, Null)}
         /\ KeysBounded(l) => KeysBounded(Discard(l, i))
<1>1. PICK old : old = lfind(l, i, Null)
  OBVIOUS
<1>2. PICK r : r = Replace(l, i, Dead(old))
  OBVIOUS
<1>3. old \in Values(l) /\ old \in Kind(o) /\ old.id = i
  BY <1>1, NeatSet
<1>4. Dead(old) \in Kind(o)
  BY <1>3, DeadType
<1>5. \E m \in DOMAIN l.elems :
        /\ l.elems[m].key = i
        /\ old = l.elems[m].value
        /\ r.elems = [l.elems EXCEPT ![m] = [key |-> i, value |-> Dead(old)]]
        /\ r.greatest_key = l.greatest_key
  BY <1>1, <1>2, <1>4, ReplaceElems
<1>6. PICK m \in DOMAIN l.elems :
        /\ l.elems[m].key = i
        /\ old = l.elems[m].value
        /\ r.elems = [l.elems EXCEPT ![m] = [key |-> i, value |-> Dead(old)]]
        /\ r.greatest_key = l.greatest_key
  BY <1>5
<1>7. /\ DOMAIN r.elems = DOMAIN l.elems
      /\ r.elems[m].key = i
      /\ \A n \in DOMAIN l.elems \ {m} : r.elems[n] = l.elems[n]
  BY <1>6
<1>8. \A n \in DOMAIN l.elems : r.elems[n].key = l.elems[n].key
  BY <1>6, <1>7
<1>9. r \in ListOf(Nat, Kind(o)) /\ DistinctKeys(r)
  <2>1. r \in ListOf(Nat, Kind(o))
    BY <1>2, <1>4, ReplaceElems
  <2> QED BY <1>7, <1>8, <2>1 DEF NeatList, DistinctKeys
<1>10. PICK d : d = lremove(r, i)
  OBVIOUS
<1>11. Discard(l, i) = d
  BY <1>1, <1>2, <1>3, <1>10 DEF Discard, Dead
<1>12. /\ DistinctKeys(d)
       /\ \A n \in DOMAIN d.elems :
            d.elems[n].key # i /\ \E j \in DOMAIN r.elems : d.elems[n] = r.elems[j]
       /\ \A j \in DOMAIN r.elems : r.elems[j].key # i =>
            \E n \in DOMAIN d.elems : d.elems[n] = r.elems[j]
  BY <1>9, <1>10, LremoveValues
(* What is left is what was there under other keys. *)
<1>13. ASSUME NEW n \in DOMAIN d.elems
       PROVE  \E j \in DOMAIN l.elems : j # m /\ d.elems[n] = l.elems[j]
  <2>1. PICK j \in DOMAIN r.elems : d.elems[n] = r.elems[j]
    BY <1>12
  <2>2. j # m
    BY <1>7, <1>12, <2>1
  <2> QED BY <1>7, <2>1, <2>2
<1>14. \A j \in DOMAIN l.elems : j # m => l.elems[j].key # i /\ l.elems[j].value # old
  BY <1>6 DEF NeatList, DistinctKeys
<1>15. ASSUME NEW j \in DOMAIN l.elems, j # m
       PROVE  \E n \in DOMAIN d.elems : d.elems[n] = l.elems[j]
  BY <1>7, <1>12, <1>14, <1>15
<1>16. NeatList(d)
  BY <1>12, <1>13 DEF NeatList
<1>17. Values(d) = Values(l) \ {old}
  <2>1. ASSUME NEW w \in Values(d)
        PROVE  w \in Values(l) \ {old}
    BY <1>13, <1>14 DEF Values
  <2>2. ASSUME NEW w \in Values(l), w # old
        PROVE  w \in Values(d)
    <3>1. PICK j \in DOMAIN l.elems : w = l.elems[j].value
      BY DEF Values
    <3>2. j # m
      BY <1>6, <2>2, <3>1
    <3> QED BY <1>15, <3>1, <3>2 DEF Values
  <2> QED BY <2>1, <2>2
<1>18. KeysBounded(l) => KeysBounded(d)
  <2>1. KeysBounded(l) => KeysBounded(r)
    BY <1>6, <1>7, <1>8 DEF KeysBounded
  <2> QED BY <1>9, <1>10, <2>1, LremoveBounded
<1> QED BY <1>1, <1>11, <1>16, <1>17, <1>18

-----------------------------------------------------------------------------
(* The same of the tree. *)
TreeNeat(tree) ==
  /\ TreeOK(tree)
  /\ \A o \in Object : NeatList(tree[o])
  /\ KeysBounded(tree[AccessControl])

(* The list of object o loses some values and gets others. *)
Swapped(tree, next, o, gone, come) ==
  /\ Values(next[o]) = (Values(tree[o]) \ gone) \cup come
  /\ \A p \in Object \ {o} : next[p] = tree[p]

With(tree, o, l) == [tree EXCEPT ![o] = l]

LEMMA TreeSetNeat ==
  ASSUME NEW tree, TreeNeat(tree), NEW o \in Object, NEW next, TreeOK(next),
         NeatList(next[o]), o = AccessControl => KeysBounded(next[o]),
         AccessControl \in Object, \A p \in Object \ {o} : next[p] = tree[p]
  PROVE  TreeNeat(next)
BY DEF TreeNeat

LEMMA AddChange ==
  ASSUME ObjectTreeAssumption, NEW tree, TreeNeat(tree), NEW o \in Object,
         NEW i \in Nat, i \notin Keys(tree[o]), NEW v \in Kind(o), v.id = i, v.live,
         o = AccessControl => v.about[1] # AccessControl,
         NEW next, next = With(tree, o, ladd(tree[o], i, v))
  PROVE  TreeNeat(next) /\ Swapped(tree, next, o, {}, {v})
<1>1. TreeOK(next)
  BY AddOK DEF TreeNeat, With
<1>2. tree[o] \in ListOf(Nat, Kind(o)) /\ NeatList(tree[o])
  BY DEF TreeNeat, TreeOK
<1>3. PICK l : l = ladd(tree[o], i, v)
  OBVIOUS
<1>4. NeatList(l) /\ Values(l) = Values(tree[o]) \cup {v}
  BY <1>2, <1>3, NeatAdd
<1>5. o = AccessControl => KeysBounded(l)
  BY <1>2, <1>3, LaddBounded DEF TreeNeat
<1>6. next = With(tree, o, l)
  BY <1>3
<1>7. next[o] = l /\ \A p \in Object \ {o} : next[p] = tree[p]
  BY <1>6 DEF TreeNeat, TreeOK, With
<1>8. TreeNeat(next)
  BY <1>1, <1>4, <1>5, <1>7, TreeSetNeat, AccessControlIsObject
<1> QED BY <1>4, <1>7, <1>8 DEF Swapped

LEMMA ReplaceChange ==
  ASSUME ObjectTreeAssumption, NEW tree, TreeNeat(tree), NEW o \in Object,
         NEW i \in Keys(tree[o]), NEW v \in Kind(o), v.id = i, v.live,
         o = AccessControl => v.about[1] # AccessControl,
         NEW next, next = With(tree, o, Replace(tree[o], i, v))
  PROVE  TreeNeat(next) /\ Swapped(tree, next, o, {lfind(tree[o], i, Null)}, {v})
<1>1. TreeOK(next)
  BY ReplaceOK DEF TreeNeat, With
<1>2. tree[o] \in ListOf(Nat, Kind(o)) /\ NeatList(tree[o])
  BY DEF TreeNeat, TreeOK
<1>3. PICK l : l = Replace(tree[o], i, v)
  OBVIOUS
<1>4. /\ NeatList(l)
      /\ Values(l) = (Values(tree[o]) \ {lfind(tree[o], i, Null)}) \cup {v}
      /\ KeysBounded(tree[o]) => KeysBounded(l)
  BY <1>2, <1>3, NeatReplace
<1>5. o = AccessControl => KeysBounded(l)
  BY <1>4 DEF TreeNeat
<1>6. next = With(tree, o, l)
  BY <1>3
<1>7. next[o] = l /\ \A p \in Object \ {o} : next[p] = tree[p]
  BY <1>6 DEF TreeNeat, TreeOK, With
<1>8. NeatList(next[o]) /\ (o = AccessControl => KeysBounded(next[o]))
  BY <1>4, <1>5, <1>7
<1>9. AccessControl \in Object
  BY AccessControlIsObject
<1>10. TreeNeat(next)
  BY <1>1, <1>7, <1>8, <1>9, TreeSetNeat
<1> QED BY <1>4, <1>7, <1>10 DEF Swapped

LEMMA DiscardChange ==
  ASSUME ObjectTreeAssumption, NEW tree, TreeNeat(tree), NEW o \in Object,
         NEW i \in Keys(tree[o]),
         NEW next, next = With(tree, o, Discard(tree[o], i))
  PROVE  TreeNeat(next) /\ Swapped(tree, next, o, {lfind(tree[o], i, Null)}, {})
<1>1. TreeOK(next)
  BY DiscardOK DEF TreeNeat, With
<1>2. tree[o] \in ListOf(Nat, Kind(o)) /\ NeatList(tree[o])
  BY DEF TreeNeat, TreeOK
<1>3. PICK l : l = Discard(tree[o], i)
  OBVIOUS
<1>4. /\ NeatList(l)
      /\ Values(l) = Values(tree[o]) \ {lfind(tree[o], i, Null)}
      /\ KeysBounded(tree[o]) => KeysBounded(l)
  BY <1>2, <1>3, NeatDiscard
<1>5. o = AccessControl => KeysBounded(l)
  BY <1>4 DEF TreeNeat
<1>6. next = With(tree, o, l)
  BY <1>3
<1>7. next[o] = l /\ \A p \in Object \ {o} : next[p] = tree[p]
  BY <1>6 DEF TreeNeat, TreeOK, With
<1>8. TreeNeat(next)
  BY <1>1, <1>4, <1>5, <1>7, TreeSetNeat, AccessControlIsObject
<1> QED BY <1>4, <1>7, <1>8 DEF Swapped

-----------------------------------------------------------------------------
(* Each ACO is complete and about an instance that is there and complete,  *)
(* or an object, and no two are about the same.                            *)
Target(tree, x) ==
  x[2] # AllInstances => \E v \in Values(tree[x[1]]) : v.id = x[2] /\ v.complete

Described(tree) ==
  /\ \A a \in Values(tree[AccessControl]) : a.complete /\ Target(tree, a.about)
  /\ \A a, b \in Values(tree[AccessControl]) : a.about = b.about => a = b

CarefulTree(tree) == TreeNeat(tree) /\ Described(tree)

(* Then AcoFor finds the ACO that is about x, if there is one. *)
LEMMA FoundIsAbout ==
  ASSUME ObjectTreeAssumption, NEW tree, CarefulTree(tree), NEW x
  PROVE  /\ \A a \in Values(tree[AccessControl]) :
              a.about = x => FoundAco(tree[AccessControl], x) = a
         /\ \/ /\ FoundAco(tree[AccessControl], x) = Null
               /\ \A a \in Values(tree[AccessControl]) : a.about # x
            \/ /\ FoundAco(tree[AccessControl], x) \in Values(tree[AccessControl])
               /\ FoundAco(tree[AccessControl], x).about = x
<1>1. PICK l : l = tree[AccessControl]
  OBVIOUS
<1>2. l \in ListOf(Nat, Aco) /\ NeatList(l)
  BY <1>1, AccessControlIsObject DEF CarefulTree, TreeNeat, TreeOK, Kind
<1>3. \A a \in Values(l) : a.live /\ a.complete
  BY <1>1, <1>2, NeatSet DEF CarefulTree, Described
<1>4. \A a, b \in Values(l) : a.about = b.about => a = b
  BY <1>1 DEF CarefulTree, Described
<1>5. \A n \in DOMAIN l.elems : l.elems[n].value \in Values(l)
  BY DEF Values
<1>6. \A a \in Values(l) : \E n \in DOMAIN l.elems : a = l.elems[n].value
  BY DEF Values
<1>7. CASE /\ FoundAco(l, x) = Null
           /\ \A n \in DOMAIN l.elems : ~Stops(l.elems[n].value, x)
  BY <1>1, <1>6, <1>7 DEF Stops
<1>8. CASE \E n \in DOMAIN l.elems :
             FoundAco(l, x) = l.elems[n].value /\ Stops(l.elems[n].value, x)
  <2>1. FoundAco(l, x) \in Values(l) /\ FoundAco(l, x).about = x
    BY <1>3, <1>5, <1>8 DEF Stops
  <2> QED BY <1>1, <1>4, <2>1
<1> QED BY <1>2, <1>7, <1>8, FoundFirst

LEMMA AcosAbout ==
  ASSUME ObjectTreeAssumption, NEW tree, TreeOK(tree)
  PROVE  \A a \in Values(tree[AccessControl]) :
           /\ a \in Aco /\ a.about[1] \in Object \ {AccessControl}
           /\ a.about = <<a.about[1], a.about[2]>>
<1>1. tree[AccessControl] \in ListOf(Nat, Aco) /\ AcosOK(tree[AccessControl])
  BY AccessControlIsObject DEF TreeOK, Kind
<1>2. \A n \in DOMAIN tree[AccessControl].elems : tree[AccessControl].elems[n].value \in Aco
  BY <1>1, ElemType
<1>3. \A a \in Aco : a.about[1] \in Object /\ a.about = <<a.about[1], a.about[2]>>
  BY DEF Aco
<1> QED BY <1>1, <1>2, <1>3 DEF Values, AcosOK

(* What goes from the list of object o comes back completed, or no ACO is   *)
(* about it.                                                               *)
Spared(tree, o, gone, come) ==
  \A v \in gone : \/ \E w \in come : w.id = v.id /\ w.complete
                  \/ \A a \in Values(tree[AccessControl]) : a.about # <<o, v.id>>

(* Instances come, and are completed, without ACOs losing what they are    *)
(* about; one goes when no ACO is about it.                                *)
LEMMA InstancesChange ==
  ASSUME ObjectTreeAssumption, NEW tree, CarefulTree(tree), NEW next, TreeNeat(next),
         NEW o \in Object \ {AccessControl}, NEW gone, NEW come,
         Swapped(tree, next, o, gone, come), Spared(tree, o, gone, come)
  PROVE  CarefulTree(next)
<1>1. next[AccessControl] = tree[AccessControl]
  BY AccessControlIsObject DEF Swapped
<1>2. ASSUME NEW a \in Values(tree[AccessControl])
      PROVE  Target(next, a.about)
  <2>1. a.about[1] \in Object \ {AccessControl} /\ a.about = <<a.about[1], a.about[2]>>
    BY AcosAbout DEF CarefulTree, TreeNeat
  <2>2. Target(tree, a.about)
    BY DEF CarefulTree, Described
  <2>3. CASE a.about[1] # o
    BY <2>1, <2>2, <2>3 DEF Target, Swapped
  <2>4. CASE a.about[1] = o /\ a.about[2] # AllInstances
    <3>1. PICK v \in Values(tree[o]) : v.id = a.about[2] /\ v.complete
      BY <2>2, <2>4 DEF Target
    <3>2. CASE v \notin gone
      BY <2>4, <3>1, <3>2 DEF Target, Swapped
    <3>3. CASE v \in gone
      <4>1. a.about = <<o, v.id>>
        BY <2>1, <2>4, <3>1
      <4>2. PICK w \in come : w.id = v.id /\ w.complete
        BY <3>3, <4>1 DEF Spared
      <4> QED BY <2>4, <3>1, <4>2 DEF Target, Swapped
    <3> QED BY <3>2, <3>3
  <2>5. CASE a.about[2] = AllInstances
    BY <2>5 DEF Target
  <2> QED BY <2>3, <2>4, <2>5
<1> QED BY <1>1, <1>2 DEF CarefulTree, Described

(* ACOs go, and come about what there is and no other ACO is about. *)
LEMMA AcosChange ==
  ASSUME ObjectTreeAssumption, NEW tree, CarefulTree(tree), NEW next, TreeNeat(next),
         NEW gone, NEW come, Swapped(tree, next, AccessControl, gone, come),
         \A a \in come : a.complete /\ Target(tree, a.about),
         \A a \in come, b \in (Values(tree[AccessControl]) \ gone) \cup come :
           a.about = b.about => a = b
  PROVE  CarefulTree(next)
<1>1. ASSUME NEW a \in Values(next[AccessControl])
      PROVE  a.complete /\ Target(next, a.about)
  <2>1. a.complete /\ Target(tree, a.about)
    BY DEF CarefulTree, Described, Swapped
  <2>2. a.about[1] \in Object \ {AccessControl}
    BY AcosAbout DEF TreeNeat
  <2> QED BY <2>1, <2>2 DEF Target, Swapped
<1>2. ASSUME NEW a \in Values(next[AccessControl]), NEW b \in Values(next[AccessControl]),
             a.about = b.about
      PROVE  a = b
  <2>1. /\ a \in (Values(tree[AccessControl]) \ gone) \cup come
        /\ b \in (Values(tree[AccessControl]) \ gone) \cup come
    BY DEF Swapped
  <2>2. CASE a \in come \/ b \in come
    BY <1>2, <2>1, <2>2
  <2>3. CASE a \in Values(tree[AccessControl]) /\ b \in Values(tree[AccessControl])
    BY <1>2, <2>3 DEF CarefulTree, Described
  <2> QED BY <2>1, <2>2, <2>3
<1> QED BY <1>1, <1>2 DEF CarefulTree, Described

-----------------------------------------------------------------------------
(* What the handlers do to such a tree. *)
LEMMA NewInstanceChange ==
  ASSUME ObjectTreeAssumption, NEW tree, CarefulTree(tree), NEW o \in Object \ {AccessControl},
         NEW i \in Nat, i \notin Keys(tree[o]), NEW whole \in BOOLEAN,
         NEW next, next = With(tree, o, ladd(tree[o], i, NewInstance(i, whole)))
  PROVE  CarefulTree(next) /\ Swapped(tree, next, o, {}, {NewInstance(i, whole)})
<1>1. PICK v : v = NewInstance(i, whole)
  OBVIOUS
<1>2. v \in Kind(o) /\ v.id = i /\ v.live
  BY <1>1 DEF NewInstance, Kind, Instance
<1>3. next = With(tree, o, ladd(tree[o], i, v))
  BY <1>1
<1>4. TreeNeat(next) /\ Swapped(tree, next, o, {}, {v})
  BY <1>2, <1>3, AddChange DEF CarefulTree
<1>5. Spared(tree, o, {}, {v})
  BY DEF Spared
<1>6. CarefulTree(next)
  BY <1>4, <1>5, InstancesChange
<1> QED BY <1>1, <1>4, <1>6

Completed(l, i) == [lfind(l, i, Null) EXCEPT !.complete = TRUE]

LEMMA CompletionChange ==
  ASSUME ObjectTreeAssumption, NEW tree, CarefulTree(tree), NEW o \in Object \ {AccessControl},
         NEW i \in Keys(tree[o]),
         NEW next, next = With(tree, o, Replace(tree[o], i, Completed(tree[o], i)))
  PROVE  /\ CarefulTree(next)
         /\ Swapped(tree, next, o, {lfind(tree[o], i, Null)}, {Completed(tree[o], i)})
         /\ Completed(tree[o], i).id = i /\ Completed(tree[o], i).complete
<1>1. PICK old : old = lfind(tree[o], i, Null)
  OBVIOUS
<1>2. PICK v : v = Completed(tree[o], i)
  OBVIOUS
<1>3. tree[o] \in ListOf(Nat, Kind(o)) /\ NeatList(tree[o])
  BY DEF CarefulTree, TreeNeat, TreeOK
<1>4. old \in Kind(o) /\ old.id = i /\ old.live
  BY <1>1, <1>3, NeatSet
<1>5. v = [old EXCEPT !.complete = TRUE]
  BY <1>1, <1>2 DEF Completed
<1>6. v \in Kind(o) /\ v.id = i /\ v.live /\ v.complete
  BY <1>4, <1>5 DEF Kind, Instance
<1>7. next = With(tree, o, Replace(tree[o], i, v))
  BY <1>2
<1>8. TreeNeat(next) /\ Swapped(tree, next, o, {old}, {v})
  BY <1>1, <1>6, <1>7, ReplaceChange DEF CarefulTree
<1>9. Spared(tree, o, {old}, {v})
  BY <1>4, <1>6 DEF Spared
<1>10. CarefulTree(next)
  BY <1>8, <1>9, InstancesChange
<1> QED BY <1>1, <1>2, <1>6, <1>8, <1>10

LEMMA DiscardedInstanceChange ==
  ASSUME ObjectTreeAssumption, NEW tree, CarefulTree(tree), NEW o \in Object \ {AccessControl},
         NEW i \in Keys(tree[o]), \A a \in Values(tree[AccessControl]) : a.about # <<o, i>>,
         NEW next, next = With(tree, o, Discard(tree[o], i))
  PROVE  CarefulTree(next) /\ Swapped(tree, next, o, {lfind(tree[o], i, Null)}, {})
<1>1. PICK old : old = lfind(tree[o], i, Null)
  OBVIOUS
<1>2. tree[o] \in ListOf(Nat, Kind(o)) /\ NeatList(tree[o])
  BY DEF CarefulTree, TreeNeat, TreeOK
<1>3. old.id = i
  BY <1>1, <1>2, NeatSet
<1>4. TreeNeat(next) /\ Swapped(tree, next, o, {old}, {})
  BY <1>1, DiscardChange DEF CarefulTree
<1>5. Spared(tree, o, {old}, {})
  BY <1>3 DEF Spared
<1>6. CarefulTree(next)
  BY <1>4, <1>5, InstancesChange
<1> QED BY <1>1, <1>4, <1>6

(* A new ACO is entered under an id that no ACO has. *)
LEMMA NewAcoChange ==
  ASSUME ObjectTreeAssumption, NEW tree, CarefulTree(tree), NEW a \in Aco,
         a.id = tree[AccessControl].greatest_key + 1, a.live, a.complete,
         a.about[1] # AccessControl, Target(tree, a.about),
         \A b \in Values(tree[AccessControl]) : b.about # a.about,
         NEW next,
         next = With(tree, AccessControl, ladd(tree[AccessControl], a.id, a))
  PROVE  CarefulTree(next) /\ Swapped(tree, next, AccessControl, {}, {a})
<1>1. AccessControl \in Object /\ Kind(AccessControl) = Aco
  BY AccessControlIsObject DEF Kind
<1>2. PICK l : l = tree[AccessControl]
  OBVIOUS
<1>3. l \in ListOf(Nat, Aco) /\ KeysBounded(l)
  BY <1>1, <1>2 DEF CarefulTree, TreeNeat, TreeOK
<1>4. a.id \in Nat
  BY DEF Aco
<1>5. a.id \notin Keys(l)
  <2>1. \A n \in DOMAIN l.elems : l.elems[n].key \in Nat
    BY <1>3, ElemType
  <2>2. l.greatest_key \in Nat \cup {-1}
    BY <1>3, ElemType
  <2>3. \A n \in DOMAIN l.elems : l.elems[n].key <= l.greatest_key
    BY <1>3 DEF KeysBounded
  <2>4. a.id = l.greatest_key + 1
    BY <1>2
  <2>5. \A n \in DOMAIN l.elems : l.elems[n].key # a.id
    BY <2>1, <2>2, <2>3, <2>4
  <2> QED BY <2>5 DEF Keys
<1>6. TreeNeat(next) /\ Swapped(tree, next, AccessControl, {}, {a})
  BY <1>1, <1>2, <1>4, <1>5, AddChange DEF CarefulTree
<1>7. CarefulTree(next)
  BY <1>6, AcosChange
<1> QED BY <1>6, <1>7

LEMMA ChangedAcoChange ==
  ASSUME ObjectTreeAssumption, NEW tree, CarefulTree(tree),
         NEW i \in Keys(tree[AccessControl]),
         NEW old, old = lfind(tree[AccessControl], i, Null),
         NEW a \in Aco, a.id = old.id, a.live = old.live, a.complete = old.complete,
         a.about = old.about,
         NEW next, next = With(tree, AccessControl, Replace(tree[AccessControl], i, a))
  PROVE  CarefulTree(next) /\ Swapped(tree, next, AccessControl, {old}, {a})
<1>1. AccessControl \in Object /\ Kind(AccessControl) = Aco
  BY AccessControlIsObject DEF Kind
<1>2. tree[AccessControl] \in ListOf(Nat, Aco) /\ NeatList(tree[AccessControl])
  BY <1>1 DEF CarefulTree, TreeNeat, TreeOK
<1>3. old \in Values(tree[AccessControl]) /\ old.id = i /\ old.live
  BY <1>2, NeatSet
<1>4. old.about[1] # AccessControl
  BY <1>3, AcosAbout DEF CarefulTree, TreeNeat
<1>5. old.complete /\ Target(tree, old.about)
  BY <1>3 DEF CarefulTree, Described
<1>6. \A b \in Values(tree[AccessControl]) : b.about = a.about => b = old
  BY <1>3 DEF CarefulTree, Described
<1>7. TreeNeat(next) /\ Swapped(tree, next, AccessControl, {old}, {a})
  BY <1>1, <1>3, <1>4, ReplaceChange DEF CarefulTree
<1>8. \A b \in {a} : b.complete /\ Target(tree, b.about)
  BY <1>5
<1>9. \A b \in {a}, c \in (Values(tree[AccessControl]) \ {old}) \cup {a} :
        b.about = c.about => b = c
  BY <1>6
<1>10. CarefulTree(next)
  BY <1>7, <1>8, <1>9, AcosChange DEF CarefulTree
<1> QED BY <1>7, <1>10

LEMMA DiscardedAcoChange ==
  ASSUME ObjectTreeAssumption, NEW tree, CarefulTree(tree),
         NEW i \in Keys(tree[AccessControl]),
         NEW next, next = With(tree, AccessControl, Discard(tree[AccessControl], i))
  PROVE  /\ CarefulTree(next)
         /\ Swapped(tree, next, AccessControl, {lfind(tree[AccessControl], i, Null)}, {})
<1>1. PICK old : old = lfind(tree[AccessControl], i, Null)
  OBVIOUS
<1>2. TreeNeat(next) /\ Swapped(tree, next, AccessControl, {old}, {})
  BY <1>1, AccessControlIsObject, DiscardChange DEF CarefulTree
<1>3. CarefulTree(next)
  BY <1>2, AcosChange
<1> QED BY <1>1, <1>2, <1>3

-----------------------------------------------------------------------------
(* What is in the tree is found. *)
LEMMA InTree ==
  ASSUME Assumptions, CarefulTree(instances), NEW o \in Object, NEW i, Exists(o, i)
  PROVE  /\ i \in Keys(instances[o]) /\ i \in Nat
         /\ Find(o, i) = lfind(instances[o], i, Null)
         /\ Find(o, i) \in Values(instances[o])
         /\ Find(o, i) \in Kind(o) /\ Find(o, i).id = i /\ Find(o, i).live
<1>1. instances[o] \in ListOf(Nat, Kind(o)) /\ NeatList(instances[o])
  BY DEF CarefulTree, TreeNeat, TreeOK
<1>2. i \in Keys(instances[o]) /\ Find(o, i) = lfind(instances[o], i, Null)
  BY DEF Exists, lcontains, Find
<1>3. PICK v : v = Find(o, i)
  OBVIOUS
<1>4. v \in Values(instances[o]) /\ v.id = i
  BY <1>1, <1>2, <1>3, NeatSet
<1>5. v \in Kind(o) /\ v.live /\ v.id \in Nat
  BY <1>1, <1>4, NeatSet
<1> QED BY <1>2, <1>3, <1>4, <1>5

LEMMA NotInTree ==
  ASSUME Assumptions, CarefulTree(instances), NEW o \in Object, NEW i, ~Exists(o, i)
  PROVE  /\ i \notin Keys(instances[o])
         /\ i \in Nat => \A a \in Values(acos) : a.about # <<o, i>>
<1>1. i \notin Keys(instances[o])
  BY DEF Exists, lcontains
<1>2. instances[o] \in ListOf(Nat, Kind(o)) /\ NeatList(instances[o])
  BY DEF CarefulTree, TreeNeat, TreeOK
<1>3. \A v \in Values(instances[o]) : v.id # i
  BY <1>1, <1>2, NeatSet
<1>4. ASSUME i \in Nat, NEW a \in Values(acos), a.about = <<o, i>>
      PROVE  FALSE
  <2>1. Target(instances, a.about)
    BY DEF CarefulTree, Described, acos
  <2>2. i # AllInstances
    BY <1>4 DEF Assumptions, ObjectTreeAssumption
  <2> QED BY <1>3, <1>4, <2>1, <2>2 DEF Target
<1> QED BY <1>1, <1>4

(* AcoFor finds the ACO that is about x, or there is none. *)
LEMMA AcoForIsAbout ==
  ASSUME Assumptions, CarefulTree(instances), NEW x
  PROVE  /\ AcoFor(x) = Null => \A a \in Values(acos) : a.about # x
         /\ AcoFor(x) # Null =>
              /\ AcoFor(x) \in Values(acos) /\ AcoFor(x) \in Aco
              /\ AcoFor(x).about = x /\ Reading(AcoFor(x)) = "none"
              /\ AcoFor(x).id \in Keys(acos)
              /\ lfind(acos, AcoFor(x).id, Null) = AcoFor(x)
<1>1. PICK f : f = AcoFor(x)
  OBVIOUS
<1>2. f = FoundAco(instances[AccessControl], x)
  BY <1>1, AcoForFound DEF acos
<1>3. \/ f = Null /\ \A a \in Values(instances[AccessControl]) : a.about # x
      \/ f \in Values(instances[AccessControl]) /\ f.about = x
  BY <1>2, FoundIsAbout DEF Assumptions
<1>4. CASE f = Null /\ \A a \in Values(instances[AccessControl]) : a.about # x
  BY <1>1, <1>4 DEF acos
<1>5. CASE f \in Values(acos) /\ f.about = x
  <2>1. acos \in ListOf(Nat, Aco) /\ NeatList(acos)
    BY AccessControlIsObject DEF Assumptions, CarefulTree, TreeNeat, TreeOK, Kind, acos
  <2>2. f \in Aco /\ f.live
    BY <1>5, <2>1, NeatSet
  <2>3. f.complete
    BY <1>5 DEF CarefulTree, Described, acos
  <2>4. f # Null
    BY <2>2 DEF Assumptions, ObjectTreeAssumption
  <2>5. Reading(f) = "none"
    BY <2>2, <2>3, <2>4 DEF Reading, Following
  <2>6. f.id \in Keys(acos)
    BY <1>5, <2>1, NeatSet
  <2>7. PICK g : g = lfind(acos, f.id, Null)
    OBVIOUS
  <2>8. g \in Values(acos) /\ g.id = f.id
    BY <2>1, <2>6, <2>7, NeatSet
  <2>9. g = f
    BY <1>5, <2>1, <2>8, NeatSet
  <2> QED BY <1>1, <1>5, <2>2, <2>4, <2>5, <2>6, <2>7, <2>9
<1> QED BY <1>3, <1>4, <1>5 DEF acos

-----------------------------------------------------------------------------
(* What each handler changes. *)
LEMMA WriteChange ==
  ASSUME Assumptions, CarefulTree(instances), NEW s, NEW o \in Object, NEW i, Write(s, o, i)
  PROVE  \E v : /\ CarefulTree(instances') /\ v.id = i /\ v.complete
                /\ Swapped(instances, instances', o, {Find(o, i)}, {v})
<1>1. o \in Object \ {AccessControl} /\ Exists(o, i)
  BY DEF Write
<1>2. Find(o, i) = lfind(instances[o], i, Null)
  BY DEF Find
<1>3. instances' = With(instances, o, Replace(instances[o], i, Completed(instances[o], i)))
  BY <1>2 DEF Write, SetTree, Completed, With
<1>4. i \in Keys(instances[o])
  BY <1>1 DEF Exists, lcontains
<1>5. PICK v : v = Completed(instances[o], i)
  OBVIOUS
<1>6. /\ CarefulTree(instances') /\ v.id = i /\ v.complete
      /\ Swapped(instances, instances', o, {lfind(instances[o], i, Null)}, {v})
  BY <1>1, <1>3, <1>4, <1>5, CompletionChange, SMTT(30) DEF Assumptions
<1> QED BY <1>2, <1>6

LEMMA WriteAcoChange ==
  ASSUME Assumptions, StateOK, CarefulTree(instances), NEW s, NEW i, WriteAco(s, i),
         instances' # instances
  PROVE  \E a : /\ CarefulTree(instances') /\ a.about = Find(AccessControl, i).about
                /\ Swapped(instances, instances', AccessControl, {Find(AccessControl, i)}, {a})
<1>1. Exists(AccessControl, i)
  BY DEF WriteAco
<1>2. PICK aco : aco = Find(AccessControl, i)
  OBVIOUS
<1>3. aco \in Aco /\ i \in Keys(instances[AccessControl])
      /\ aco = lfind(instances[AccessControl], i, Null)
  BY <1>1, <1>2, InTree, AccessControlIsObject DEF Assumptions, Kind
<1>4. ASSUME NEW a \in Aco, a.id = aco.id, a.live = aco.live, a.complete = aco.complete,
             a.about = aco.about,
             instances' = With(instances, AccessControl, Replace(instances[AccessControl], i, a))
      PROVE  \E b : /\ CarefulTree(instances') /\ b.about = aco.about
                    /\ Swapped(instances, instances', AccessControl, {aco}, {b})
  <2>1. CarefulTree(instances') /\ Swapped(instances, instances', AccessControl, {aco}, {a})
    BY <1>3, <1>4, ChangedAcoChange DEF Assumptions
  <2> QED BY <1>4, <2>1
<1>5. ASSUME NEW owner \in Server
      PROVE  LET a == [aco EXCEPT !.owner = owner]
             IN  /\ a \in Aco /\ a.id = aco.id /\ a.live = aco.live
                 /\ a.complete = aco.complete /\ a.about = aco.about
  BY <1>3 DEF Aco
<1>6. ASSUME NEW acl \in Acl
      PROVE  LET a == [aco EXCEPT !.acl = acl]
             IN  /\ a \in Aco /\ a.id = aco.id /\ a.live = aco.live
                 /\ a.complete = aco.complete /\ a.about = aco.about
  BY <1>3 DEF Aco
<1>7. ASSUME NEW new \in Written, NEW acl \in MergedAcls(aco.acl, new, TRUE)
      PROVE  acl \in Acl
  <2>1. new \in Acl /\ aco.acl \in Acl
    BY <1>3 DEF Assumptions, DeviceManagementAssumption, Aco
  <2> QED BY <2>1, MergedAclType
<1>8. \/ \E owner \in Server :
           instances' = With(instances, AccessControl,
                             Replace(instances[AccessControl], i, [aco EXCEPT !.owner = owner]))
      \/ \E new \in Written : \E acl \in MergedAcls(aco.acl, new, TRUE) :
           instances' = With(instances, AccessControl,
                             Replace(instances[AccessControl], i, [aco EXCEPT !.acl = acl]))
  BY <1>2 DEF WriteAco, SetTree, Fail, With
<1> QED BY <1>2, <1>4, <1>5, <1>6, <1>7, <1>8

LEMMA CreateIncompleteChange ==
  ASSUME Assumptions, CarefulTree(instances), NEW s, NEW o \in Object \ {AccessControl},
         NEW i \in Nat, CreateIncomplete(s, o, i)
  PROVE  /\ CarefulTree(instances')
         /\ Swapped(instances, instances', o, {}, {NewInstance(i, FALSE)})
<1>1. i \notin Keys(instances[o])
  BY NotInTree DEF CreateIncomplete, MayCreate
<1>2. instances' = With(instances, o, ladd(instances[o], i, NewInstance(i, FALSE)))
  BY DEF CreateIncomplete, With
<1> QED BY <1>1, <1>2, NewInstanceChange DEF Assumptions

LEMMA CreateChange ==
  ASSUME Assumptions, StateOK, CarefulTree(instances), NEW s \in Server,
         NEW o \in Object \ {AccessControl}, NEW i \in Nat, Create(s, o, i)
  PROVE  \E added : \E aco \in Aco :
           /\ CarefulTree(added) /\ CarefulTree(instances')
           /\ Swapped(instances, added, o, {}, {NewInstance(i, TRUE)})
           /\ aco.about = <<o, i>> /\ aco.owner = s /\ aco.acl = CreatorsAcl(s)
           /\ IF Cardinality(servers) <= 1 THEN instances' = added
              ELSE Swapped(added, instances', AccessControl, {}, {aco})
<1>1. i \notin Keys(instances[o]) /\ \A a \in Values(acos) : a.about # <<o, i>>
  BY NotInTree DEF Create, MayCreate
<1>2. PICK added : added = With(instances, o, ladd(instances[o], i, NewInstance(i, TRUE)))
  OBVIOUS
<1>3. CarefulTree(added) /\ Swapped(instances, added, o, {}, {NewInstance(i, TRUE)})
  BY <1>1, <1>2, NewInstanceChange DEF Assumptions
<1>4. PICK n : n = NewId(AccessControl)
  OBVIOUS
<1>5. PICK aco : aco = NewAco(n, TRUE, <<o, i>>, s, CreatorsAcl(s))
  OBVIOUS
<1>6. n \in Nat
  BY <1>4, NewIdType, AccessControlIsObject DEF StateOK, Assumptions
<1>7. aco \in Aco
  BY <1>5, <1>6, CreatorsAclType, NewAcoType
<1>8. /\ aco.id = n /\ aco.live /\ aco.complete /\ aco.about = <<o, i>>
      /\ aco.owner = s /\ aco.acl = CreatorsAcl(s)
  BY <1>5 DEF NewAco
<1>9. instances' = IF Cardinality(servers) <= 1 THEN added
                   ELSE With(added, AccessControl, ladd(added[AccessControl], n, aco))
  BY <1>2, <1>4, <1>5 DEF Create, SetTree, CreatedTree, CreatorsAcl, With
<1>10. CASE Cardinality(servers) <= 1
  BY <1>3, <1>7, <1>8, <1>9, <1>10
<1>11. CASE ~(Cardinality(servers) <= 1)
  <2>1. added[AccessControl] = acos
    BY <1>3, AccessControlIsObject DEF Swapped, acos, Assumptions
  <2>2. aco.id = added[AccessControl].greatest_key + 1
    BY <1>4, <1>8, <2>1 DEF NewId, acos
  <2>3. \A a \in Values(added[AccessControl]) : a.about # aco.about
    BY <1>1, <1>8, <2>1
  <2>4. Target(added, aco.about)
    <3>1. NewInstance(i, TRUE) \in Values(added[o])
      BY <1>3 DEF Swapped
    <3> QED BY <1>8, <3>1 DEF Target, NewInstance
  <2>5. aco.about[1] # AccessControl
    BY <1>8
  <2>6. instances' = With(added, AccessControl, ladd(added[AccessControl], aco.id, aco))
    BY <1>8, <1>9, <1>11
  <2>7. CarefulTree(instances') /\ Swapped(added, instances', AccessControl, {}, {aco})
    BY <1>3, <1>7, <1>8, <2>2, <2>3, <2>4, <2>5, <2>6, NewAcoChange DEF Assumptions
  <2> QED BY <1>3, <1>7, <1>8, <1>11, <2>7
<1> QED BY <1>10, <1>11

(* An instance goes with the ACO that is about it, if there is one. *)
LEMMA DeleteInstanceChange ==
  ASSUME Assumptions, CarefulTree(instances), NEW s, NEW o \in Object \ {AccessControl}, NEW i,
         Delete(s, o, i), instances' # instances
  PROVE  \E alone : \E gone :
           /\ CarefulTree(alone) /\ CarefulTree(instances')
           /\ Swapped(instances, alone, AccessControl, gone, {})
           /\ gone = {a \in Values(acos) : a.about = <<o, i>>}
           /\ Swapped(alone, instances', o, {Find(o, i)}, {})
<1>1. Exists(o, i)
  BY DEF Delete
<1>2. /\ i \in Keys(instances[o]) /\ Find(o, i) = lfind(instances[o], i, Null)
      /\ Find(o, i).id = i
  BY <1>1, InTree
<1>3. PICK aco : aco = AcoFor(<<o, i>>)
  OBVIOUS
<1>4. PICK alone : alone = IF aco = Null THEN instances
                           ELSE With(instances, AccessControl,
                                     Discard(instances[AccessControl], aco.id))
  OBVIOUS
<1>5. instances' = With(alone, o, Discard(alone[o], i))
  <2>1. SetTree(DeleteWithAco(o, i))
    BY DEF Delete, Fail, DeletedTree
  <2> QED BY <1>2, <1>3, <1>4, <2>1 DEF SetTree, DeleteWithAco, With
<1>6. PICK gone : gone = {a \in Values(acos) : a.about = <<o, i>>}
  OBVIOUS
<1>7. CarefulTree(alone) /\ Swapped(instances, alone, AccessControl, gone, {})
  <2>1. CASE aco = Null
    <3>1. gone = {}
      BY <1>3, <1>6, <2>1, AcoForIsAbout
    <3>2. Swapped(instances, instances, AccessControl, {}, {})
      BY DEF Swapped
    <3> QED BY <1>4, <2>1, <3>1, <3>2
  <2>2. CASE aco # Null
    <3>1. /\ aco \in Values(acos) /\ aco.about = <<o, i>>
          /\ aco.id \in Keys(instances[AccessControl])
          /\ lfind(instances[AccessControl], aco.id, Null) = aco
      BY <1>3, <2>2, AcoForIsAbout DEF acos
    <3>2. gone = {aco}
      BY <1>6, <3>1 DEF CarefulTree, Described, acos
    <3>3. alone = With(instances, AccessControl, Discard(instances[AccessControl], aco.id))
      BY <1>4, <2>2
    <3>4. CarefulTree(alone) /\ Swapped(instances, alone, AccessControl, {aco}, {})
      BY <3>1, <3>3, DiscardedAcoChange DEF Assumptions
    <3> QED BY <3>2, <3>4
  <2> QED BY <2>1, <2>2
<1>8. alone[o] = instances[o]
  BY <1>7 DEF Swapped
<1>9. \A a \in Values(alone[AccessControl]) : a.about # <<o, i>>
  BY <1>6, <1>7 DEF Swapped, acos
<1>10. /\ CarefulTree(instances')
       /\ Swapped(alone, instances', o, {lfind(alone[o], i, Null)}, {})
  BY <1>2, <1>5, <1>7, <1>8, <1>9, DiscardedInstanceChange DEF Assumptions
<1> QED BY <1>2, <1>6, <1>7, <1>8, <1>10

LEMMA DeleteAcoChange ==
  ASSUME Assumptions, CarefulTree(instances), NEW s, NEW i,
         Delete(s, AccessControl, i), instances' # instances
  PROVE  /\ CarefulTree(instances')
         /\ Swapped(instances, instances', AccessControl, {Find(AccessControl, i)}, {})
<1>1. Exists(AccessControl, i)
  BY DEF Delete
<1>2. /\ i \in Keys(instances[AccessControl])
      /\ Find(AccessControl, i) = lfind(instances[AccessControl], i, Null)
  BY <1>1, InTree, AccessControlIsObject DEF Assumptions
<1>3. SetTree(DeleteWithAco(AccessControl, i))
  BY DEF Delete, Fail, DeletedTree
<1>4. instances' = With(instances, AccessControl, Discard(instances[AccessControl], i))
  BY <1>3 DEF SetTree, DeleteWithAco, With
<1> QED BY <1>2, <1>4, DiscardedAcoChange DEF Assumptions

(* A careful bootstrap server writes what is whole and not there yet ... *)
LEMMA CarefulBootWriteChange ==
  ASSUME Assumptions, Careful, CarefulTree(instances), NEW o \in Object, NEW i \in 0..MaxId,
         NEW whole \in BOOLEAN, BootWrite(o, i, whole)
  PROVE  /\ o # AccessControl /\ CarefulTree(instances')
         /\ Swapped(instances, instances', o, {}, {NewInstance(i, TRUE)})
<1>1. o # AccessControl /\ whole = TRUE /\ ~Exists(o, i) /\ BootId(o, i) = i
  BY DEF BootWrite, CarefulWrite, BootId
<1>2. instances' = With(instances, o, ladd(instances[o], i, NewInstance(i, TRUE)))
  BY <1>1 DEF BootWrite, SetTree, With
<1>3. i \notin Keys(instances[o]) /\ i \in Nat
  BY <1>1, NotInTree, InRange
<1> QED BY <1>1, <1>2, <1>3, NewInstanceChange DEF Assumptions

(* ... ACOs about what is there and whole and no other ACO is about ... *)
LEMMA CarefulBootWriteAcoChange ==
  ASSUME Assumptions, Careful, StateOK, CarefulTree(instances),
         \A o \in Object : \A v \in Values(instances[o]) : v.complete,
         NEW i \in 0..MaxAcoId, NEW whole \in BOOLEAN, NEW p \in BootPolicy,
         BootWriteAco(i, whole, p)
  PROVE  \E a : /\ a.complete /\ CarefulTree(instances')
                /\ Swapped(instances, instances', AccessControl, {}, {a})
<1>1. /\ whole = TRUE /\ ~Exists(AccessControl, i) /\ i = NewId(AccessControl)
      /\ p.about[2] # AllInstances => Exists(p.about[1], p.about[2])
      /\ AcoFor(p.about) = Null
  BY DEF BootWriteAco, CarefulWrite, CarefulPolicy
<1>2. PICK a : a = NewAco(i, TRUE, p.about, p.owner, p.acl)
  OBVIOUS
<1>3. /\ p.about \in Object \X (Nat \cup {AllInstances}) /\ p.about[1] # AccessControl
      /\ p.owner \in Server /\ p.acl \in Acl
  <2>1. p \in Policy /\ p.about[1] # AccessControl
    BY DEF Assumptions, DeviceManagementAssumption
  <2> QED BY <2>1, InRange DEF Policy
<1>4. i \in Nat /\ AccessControl \in Object
  BY InRange, AccessControlIsObject DEF Assumptions
<1>5. /\ a \in Aco /\ a.id = i /\ a.live /\ a.complete /\ a.about = p.about
      /\ a.about[1] # AccessControl
  <2>1. a \in Aco
    BY <1>2, <1>3, <1>4, NewAcoType
  <2> QED BY <1>2, <1>3, <2>1 DEF NewAco
<1>6. instances' = With(instances, AccessControl, ladd(instances[AccessControl], a.id, a))
  <2>1. Find(AccessControl, i) = Null
    BY <1>1, <1>4, FindType DEF Assumptions, StateOK
  <2>2. SetTree([instances EXCEPT ![AccessControl] = ladd(instances[AccessControl], i, a)])
    BY <1>1, <1>2, <2>1 DEF BootWriteAco
  <2> QED BY <1>5, <2>2 DEF SetTree, With
<1>7. a.id = instances[AccessControl].greatest_key + 1
  BY <1>1, <1>5 DEF NewId
<1>8. Target(instances, a.about)
  <2>1. ASSUME a.about[2] # AllInstances
        PROVE  \E v \in Values(instances[a.about[1]]) : v.id = a.about[2] /\ v.complete
    <3>1. a.about[1] \in Object /\ Exists(a.about[1], a.about[2])
      BY <1>1, <1>3, <1>5, <2>1
    <3> QED BY <3>1, InTree
  <2> QED BY <2>1 DEF Target
<1>9. \A b \in Values(instances[AccessControl]) : b.about # a.about
  BY <1>1, <1>5, AcoForIsAbout DEF acos
<1>10. CarefulTree(instances') /\ Swapped(instances, instances', AccessControl, {}, {a})
  BY <1>5, <1>6, <1>7, <1>8, <1>9, NewAcoChange DEF Assumptions
<1> QED BY <1>5, <1>10

(* ... and deletes what no ACO is about. *)
LEMMA CarefulBootDeleteChange ==
  ASSUME Assumptions, Careful, CarefulTree(instances), NEW o \in Object, NEW i, BootDelete(o, i),
         instances' # instances
  PROVE  CarefulTree(instances') /\ Swapped(instances, instances', o, {Find(o, i)}, {})
<1>1. Exists(o, i) /\ (o = AccessControl \/ AcoFor(<<o, i>>) = Null)
  BY DEF BootDelete, CarefulDelete
<1>2. i \in Keys(instances[o]) /\ Find(o, i) = lfind(instances[o], i, Null)
  BY <1>1, InTree
<1>3. instances' = With(instances, o, Discard(instances[o], i))
  BY DEF BootDelete, SetTree, Fail, With
<1>4. CASE o = AccessControl
  BY <1>2, <1>3, <1>4, DiscardedAcoChange DEF Assumptions
<1>5. CASE o # AccessControl
  <2>1. \A a \in Values(instances[AccessControl]) : a.about # <<o, i>>
    BY <1>1, <1>5, AcoForIsAbout DEF acos
  <2> QED BY <1>2, <1>3, <1>5, <2>1, DiscardedInstanceChange DEF Assumptions
<1> QED BY <1>4, <1>5

-----------------------------------------------------------------------------
(* What bootstrap has left is whole when the first server registers.       *)
AllWhole == \A o \in Object : \A v \in Values(instances[o]) : v.complete

CarefulInv ==
  /\ TypeInv
  /\ CarefulTree(instances)
  /\ CarefulTime => AllWhole

LEMMA RequestCareful ==
  ASSUME Assumptions, StateOK, CarefulTree(instances), NEW s \in Server, Request(s)
  PROVE  /\ CarefulTree(instances') /\ s \in servers /\ registered' = registered
<1>1. s \in servers /\ registered' = registered
  BY DEF Request, RequestFails, RefusedKeepsLock, Write, Delete, WriteAco, ReadFreedEntry,
         NotFound, CreateFails, CreateRefused, Create, CreateIncomplete, MayCreate,
         Fail, KeepLock, SetTree
<1>2. CASE instances' = instances
  BY <1>1, <1>2
<1>3. CASE instances' # instances
  <2>1. ASSUME NEW o \in Object, NEW i \in 0..MaxAcoId, NEW op \in Rights \ {"CREATE"},
               RequestFails(s, o, i, op) \/ RefusedKeepsLock(s, o, i, op)
        PROVE  FALSE
    BY <1>3, <2>1 DEF RequestFails, RefusedKeepsLock, Fail, KeepLock
  <2>2. ASSUME (\E i \in 0..MaxAcoId : ReadFreedEntry(s, i)) \/ NotFound(s)
        PROVE  FALSE
    BY <1>3, <2>2 DEF ReadFreedEntry, NotFound, Fail
  <2>3. ASSUME NEW o \in Object, CreateFails(s, o) \/ CreateRefused(s, o)
        PROVE  FALSE
    BY <1>3, <2>3 DEF CreateFails, CreateRefused, Fail, KeepLock
  <2>4. ASSUME NEW o \in Object, NEW i \in 0..MaxAcoId, Write(s, o, i)
        PROVE  CarefulTree(instances')
    BY <2>4, WriteChange
  <2>5. ASSUME NEW o \in Object, NEW i \in 0..MaxAcoId, Delete(s, o, i)
        PROVE  CarefulTree(instances')
    BY <1>3, <2>5, DeleteAcoChange, DeleteInstanceChange
  <2>6. ASSUME NEW i \in 0..MaxAcoId, WriteAco(s, i)
        PROVE  CarefulTree(instances')
    BY <1>3, <2>6, WriteAcoChange
  <2>7. ASSUME NEW o \in Object, NEW i \in 0..MaxId \cup {NewId(o)},
               Create(s, o, i) \/ CreateIncomplete(s, o, i)
        PROVE  CarefulTree(instances')
    <3>1. CheckCreate(s, o) = "granted"
      BY <2>7 DEF Create, CreateIncomplete, MayCreate
    <3>2. i \in Nat /\ o \in Object \ {AccessControl}
      BY <3>1, InRange, NewIdType, CreateGranted DEF Assumptions, StateOK
    <3> QED BY <2>7, <3>2, CreateChange, CreateIncompleteChange
  <2> QED BY <1>1, <2>1, <2>2, <2>3, <2>4, <2>5, <2>6, <2>7 DEF Request
<1> QED BY <1>1, <1>2, <1>3

LEMMA BootstrapCareful ==
  ASSUME Assumptions, Careful, StateOK, CarefulTree(instances), CarefulTime => AllWhole, Bootstrap
  PROVE  /\ CarefulTree(instances') /\ registered' = registered
         /\ instances' = instances \/ (CarefulTime /\ AllWhole')
<1>1. ASSUME NEW o \in Object, NEW i \in 0..MaxId, NEW whole \in BOOLEAN, BootWrite(o, i, whole)
      PROVE  CarefulTree(instances') /\ registered' = registered /\ CarefulTime /\ AllWhole'
  <2>1. CarefulTime /\ AllWhole
    BY <1>1 DEF BootWrite, CarefulWrite
  <2>2. registered' = registered
    BY <1>1 DEF BootWrite, SetTree, Fail
  <2>3. CarefulTree(instances') /\ Swapped(instances, instances', o, {}, {NewInstance(i, TRUE)})
    BY <1>1, CarefulBootWriteChange
  <2>4. NewInstance(i, TRUE).complete
    BY DEF NewInstance
  <2>5. AllWhole'
    BY <2>1, <2>3, <2>4 DEF AllWhole, Swapped
  <2> QED BY <2>1, <2>2, <2>3, <2>5
<1>2. ASSUME NEW i \in 0..MaxAcoId, NEW p \in BootPolicy, NEW whole \in BOOLEAN,
             BootWriteAco(i, whole, p)
      PROVE  CarefulTree(instances') /\ registered' = registered /\ CarefulTime /\ AllWhole'
  <2>1. CarefulTime /\ AllWhole
    BY <1>2 DEF BootWriteAco, CarefulWrite
  <2>2. registered' = registered
    BY <1>2 DEF BootWriteAco, SetTree, Fail
  <2>3. \E a : /\ a.complete /\ CarefulTree(instances')
               /\ Swapped(instances, instances', AccessControl, {}, {a})
    BY <1>2, <2>1, CarefulBootWriteAcoChange DEF AllWhole
  <2>4. AllWhole'
    BY <2>1, <2>3 DEF AllWhole, Swapped
  <2> QED BY <2>1, <2>2, <2>3, <2>4
<1>3. ASSUME NEW o \in Object, NEW i \in 0..MaxAcoId, BootDelete(o, i)
      PROVE  /\ CarefulTree(instances') /\ registered' = registered
             /\ instances' = instances \/ (CarefulTime /\ AllWhole')
  <2>1. CarefulTime /\ AllWhole
    BY <1>3 DEF BootDelete, CarefulDelete
  <2>2. registered' = registered
    BY <1>3 DEF BootDelete, SetTree, Fail
  <2>3. CASE instances' # instances
    <3>1. CarefulTree(instances') /\ Swapped(instances, instances', o, {Find(o, i)}, {})
      BY <1>3, <2>3, CarefulBootDeleteChange
    <3>2. AllWhole'
      BY <2>1, <3>1 DEF AllWhole, Swapped
    <3> QED BY <2>1, <2>2, <3>1, <3>2
  <2>4. CASE instances' = instances
    BY <2>2, <2>4
  <2> QED BY <2>3, <2>4
<1> QED BY <1>1, <1>2, <1>3 DEF Bootstrap, BootDeleteAll, BootNotFound

LEMMA CarefulInit ==
  ASSUME Assumptions, Init
  PROVE  CarefulInv
<1>1. TypeInv
  BY TypeInit
<1>2. \A o \in Object : Values(instances[o]) = {} /\ NeatList(instances[o])
  BY DEF Init, NewList, Values, NeatList, DistinctKeys
<1>3. KeysBounded(instances[AccessControl])
  BY AccessControlIsObject DEF Init, NewList, KeysBounded, Assumptions
<1>4. CarefulTree(instances)
  BY <1>1, <1>2, <1>3, AccessControlIsObject
     DEF CarefulTree, TreeNeat, Described, TypeInv, StateOK, Assumptions
<1> QED BY <1>1, <1>2, <1>4 DEF CarefulInv, AllWhole

LEMMA CarefulStep ==
  ASSUME Assumptions, Careful, CarefulInv, [Next]_vars
  PROVE  CarefulInv'
<1>1. TypeInv'
  BY TypeStep DEF CarefulInv
<1>2. /\ CarefulTree(instances')
      /\ CarefulTime' => CarefulTime /\ (instances' = instances \/ AllWhole')
  <2>1. ASSUME UNCHANGED vars
        PROVE  CarefulTree(instances') /\ instances' = instances /\ registered' = registered
    BY <2>1 DEF CarefulInv, vars
  <2>2. ASSUME NEW s \in Server, Register(s) \/ Deregistered(s)
        PROVE  CarefulTree(instances') /\ ~CarefulTime'
    BY <2>2 DEF Register, Deregistered, CarefulInv, CarefulTime, TypeInv, StateOK
  <2>3. ASSUME NEW s \in Server, Request(s)
        PROVE  CarefulTree(instances') /\ ~CarefulTime'
    <3>1. CarefulTree(instances') /\ s \in servers /\ registered' = registered
      BY <2>3, RequestCareful DEF CarefulInv, TypeInv
    <3> QED BY <3>1 DEF servers, CarefulTime
  <2>4. ASSUME Command
        PROVE  /\ CarefulTree(instances') /\ registered' = registered
               /\ instances' = instances \/ AllWhole'
    <3>1. Bootstrap
      BY <2>4 DEF Command
    <3> QED BY <3>1, BootstrapCareful DEF CarefulInv, TypeInv
  <2> QED BY <2>1, <2>2, <2>3, <2>4 DEF Next, CarefulTime
<1>3. (CarefulTime => AllWhole)'
  BY <1>2 DEF CarefulInv, AllWhole
<1> QED BY <1>1, <1>2, <1>3 DEF CarefulInv

(* If the bootstrap server is careful, each ACO is about an instance that  *)
(* is in the tree and whole, whatever servers then request, and no two are *)
(* about the same.                                                         *)
THEOREM AcosLiveWithTargets ==
  ASSUME ObjectTreeAssumption, DeviceManagementAssumption, Careful
  PROVE  Spec => []AcoDescribesLive
<1>1. Init => CarefulInv
  BY CarefulInit DEF Assumptions
<1>2. CarefulInv /\ [Next]_vars => CarefulInv'
  BY CarefulStep DEF Assumptions
<1>3. CarefulInv => AcoDescribesLive
  <2>1. Assumptions
    BY DEF Assumptions
  <2>2. SUFFICES ASSUME CarefulInv
                 PROVE  AcoDescribesLive
    OBVIOUS
  <2>3. CarefulTree(instances) /\ acos \in ListOf(Nat, Aco) /\ NeatList(acos)
    <3>1. AccessControl \in Object /\ Kind(AccessControl) = Aco
      BY AccessControlIsObject DEF Kind
    <3>2. CarefulTree(instances)
      BY <2>2 DEF CarefulInv
    <3> QED BY <3>1, <3>2 DEF CarefulTree, TreeNeat, TreeOK, acos
  <2>4. ASSUME NEW n \in DOMAIN acos.elems, NEW x, x = acos.elems[n].value.about
        PROVE  /\ x[2] # AllInstances => Exists(x[1], x[2]) /\ Find(x[1], x[2]).complete
               /\ \A m \in DOMAIN acos.elems : acos.elems[m].value.about = x => m = n
    <3>1. acos.elems[n].value \in Values(acos)
      BY DEF Values
    <3>2. Target(instances, x) /\ x[1] \in Object
      BY <2>3, <2>4, <3>1, AcosAbout DEF CarefulTree, TreeNeat, Described, acos
    <3>3. ASSUME x[2] # AllInstances
          PROVE  Exists(x[1], x[2]) /\ Find(x[1], x[2]).complete
      <4>1. PICK v \in Values(instances[x[1]]) : v.id = x[2] /\ v.complete
        BY <3>2, <3>3 DEF Target
      <4>2. instances[x[1]] \in ListOf(Nat, Kind(x[1])) /\ NeatList(instances[x[1]])
        BY <2>3, <3>2 DEF CarefulTree, TreeNeat, TreeOK
      <4>3. Exists(x[1], x[2])
        BY <4>1, <4>2, NeatSet DEF Exists, lcontains
      <4>4. Find(x[1], x[2]) \in Values(instances[x[1]]) /\ Find(x[1], x[2]).id = x[2]
        BY <2>1, <2>3, <3>2, <4>3, InTree
      <4>5. Find(x[1], x[2]) = v
        BY <4>1, <4>2, <4>4, NeatSet
      <4> QED BY <4>1, <4>3, <4>5
    <3>4. ASSUME NEW m \in DOMAIN acos.elems, acos.elems[m].value.about = x
          PROVE  m = n
      <4>1. acos.elems[m].value \in Values(acos)
        BY DEF Values
      <4>2. acos.elems[m].value = acos.elems[n].value
        BY <2>3, <2>4, <3>1, <3>4, <4>1 DEF CarefulTree, Described, acos
      <4> QED BY <2>3, <4>2 DEF NeatList, DistinctKeys
    <3> QED BY <3>3, <3>4
  <2> QED BY <2>4 DEF AcoDescribesLive
<1> QED BY <1>1, <1>2, <1>3, PTL DEF Spec

-----------------------------------------------------------------------------
(* The policies of a tree, and how they follow the changes of its lists.   *)
FoundPolicy(tree, x) ==
  IF FoundAco(tree[AccessControl], x) = Null THEN NoPolicy
  ELSE [owner |-> FoundAco(tree[AccessControl], x).owner,
        acl   |-> FoundAco(tree[AccessControl], x).acl]

TargetsIn(tree) ==
  (Object \X {AllInstances}) \cup
  UNION {{o} \X Keys(tree[o]) : o \in Object \ {AccessControl}}

PoliciesIn(tree) == [x \in TargetsIn(tree) |-> FoundPolicy(tree, x)]

LEMMA PolicyIsInTree ==
  policy = PoliciesIn(instances) /\ policy' = PoliciesIn(instances')
<1>1. \A x : PolicyOf(x) = FoundPolicy(instances, x)
  BY AcoForFound DEF PolicyOf, FoundPolicy, acos
<1>2. \A x : PolicyOf(x)' = FoundPolicy(instances', x)
  BY AcoForFound DEF PolicyOf, FoundPolicy, acos
<1>3. Targets = TargetsIn(instances) /\ Targets' = TargetsIn(instances')
  BY DEF Targets, TargetsIn
<1> QED BY <1>1, <1>2, <1>3 DEF policy, PoliciesIn

LEMMA InTargets ==
  ASSUME NEW tree, NEW x
  PROVE  x \in TargetsIn(tree) <=>
           \E o \in Object : \/ x = <<o, AllInstances>>
                             \/ o # AccessControl /\ \E i \in Keys(tree[o]) : x = <<o, i>>
BY DEF TargetsIn

LEMMA KeysOfValues ==
  ASSUME NEW tree, CarefulTree(tree), NEW o \in Object, NEW i
  PROVE  i \in Keys(tree[o]) <=> \E v \in Values(tree[o]) : v.id = i
<1>1. tree[o] \in ListOf(Nat, Kind(o)) /\ NeatList(tree[o])
  BY DEF CarefulTree, TreeNeat, TreeOK
<1> QED BY <1>1, NeatSet

(* An instance under a new id is a new target ... *)
LEMMA TargetsGrow ==
  ASSUME NEW tree, CarefulTree(tree), NEW next, CarefulTree(next),
         NEW o \in Object \ {AccessControl}, NEW v, Swapped(tree, next, o, {}, {v})
  PROVE  TargetsIn(next) = TargetsIn(tree) \cup {<<o, v.id>>}
<1>1. \A p \in Object : \A i : i \in Keys(next[p]) <=> i \in Keys(tree[p]) \/ (p = o /\ i = v.id)
  BY KeysOfValues DEF Swapped
<1>2. \A x : x \in TargetsIn(next) <=> x \in TargetsIn(tree) \/ x = <<o, v.id>>
  BY <1>1, InTargets
<1> QED BY <1>2

(* ... one completed is no new target ... *)
LEMMA TargetsSame ==
  ASSUME NEW tree, CarefulTree(tree), NEW next, CarefulTree(next),
         NEW o \in Object, NEW old \in Values(tree[o]), NEW v, v.id = old.id,
         Swapped(tree, next, o, {old}, {v})
  PROVE  TargetsIn(next) = TargetsIn(tree)
<1>1. ASSUME NEW p \in Object, NEW i
      PROVE  i \in Keys(next[p]) <=> i \in Keys(tree[p])
  <2>1. CASE p # o
    BY <2>1 DEF Swapped
  <2>2. CASE p = o
    <3>1. Values(next[o]) = (Values(tree[o]) \ {old}) \cup {v}
      BY DEF Swapped
    <3>2. (\E w \in Values(next[o]) : w.id = i) <=> (\E w \in Values(tree[o]) : w.id = i)
      BY <3>1
    <3> QED BY <2>2, <3>2, KeysOfValues
  <2> QED BY <2>1, <2>2
<1>2. \A x : x \in TargetsIn(next) <=> x \in TargetsIn(tree)
  BY <1>1, InTargets
<1> QED BY <1>2

(* ... and one that goes is a target no more. *)
LEMMA TargetsShrink ==
  ASSUME ObjectTreeAssumption, NEW tree, CarefulTree(tree), NEW next, CarefulTree(next),
         NEW o \in Object \ {AccessControl}, NEW old \in Values(tree[o]),
         Swapped(tree, next, o, {old}, {})
  PROVE  TargetsIn(next) = TargetsIn(tree) \ {<<o, old.id>>}
<1>1. tree[o] \in ListOf(Nat, Kind(o)) /\ NeatList(tree[o])
  BY DEF CarefulTree, TreeNeat, TreeOK
<1>2. \A v \in Values(tree[o]) : v.id = old.id => v = old
  BY <1>1, NeatSet
<1>3. old.id # AllInstances
  BY <1>1, NeatSet DEF ObjectTreeAssumption
<1>4. \A p \in Object : \A i : i \in Keys(next[p]) <=> i \in Keys(tree[p]) /\ ~(p = o /\ i = old.id)
  BY <1>2, KeysOfValues DEF Swapped
<1>5. \A x : x \in TargetsIn(next) <=> x \in TargetsIn(tree) /\ x # <<o, old.id>>
  BY <1>3, <1>4, InTargets
<1> QED BY <1>5

LEMMA TargetsOfAcos ==
  ASSUME NEW tree, NEW next, NEW gone, NEW come,
         Swapped(tree, next, AccessControl, gone, come)
  PROVE  TargetsIn(next) = TargetsIn(tree)
<1>1. \A x : x \in TargetsIn(next) <=> x \in TargetsIn(tree)
  BY InTargets DEF Swapped
<1> QED BY <1>1

(* A policy is that of the one ACO that is about the target.               *)
LEMMA PolicyOfAco ==
  ASSUME ObjectTreeAssumption, NEW tree, CarefulTree(tree), NEW a \in Values(tree[AccessControl])
  PROVE  /\ FoundPolicy(tree, a.about) = [owner |-> a.owner, acl |-> a.acl]
         /\ FoundPolicy(tree, a.about) # NoPolicy
         /\ a.about \in TargetsIn(tree)
<1>1. a \in Aco /\ a.about[1] \in Object \ {AccessControl} /\ a.about = <<a.about[1], a.about[2]>>
  BY AcosAbout DEF CarefulTree, TreeNeat
<1>2. FoundAco(tree[AccessControl], a.about) = a /\ a # Null
  BY <1>1, FoundIsAbout DEF ObjectTreeAssumption
<1>3. [owner |-> a.owner, acl |-> a.acl] \in OwnerAndAcl
  BY <1>1 DEF Aco, OwnerAndAcl
<1>4. Null \notin OwnerAndAcl
  BY DEF ObjectTreeAssumption
<1>5. a.about \in TargetsIn(tree)
  <2>1. CASE a.about[2] = AllInstances
    BY <1>1, <2>1, InTargets
  <2>2. CASE a.about[2] # AllInstances
    <3>1. \E v \in Values(tree[a.about[1]]) : v.id = a.about[2]
      BY <2>2 DEF CarefulTree, Described, Target
    <3>2. a.about[2] \in Keys(tree[a.about[1]])
      BY <1>1, <3>1, KeysOfValues
    <3> QED BY <1>1, <3>2, InTargets
  <2> QED BY <2>1, <2>2
<1> QED BY <1>2, <1>3, <1>4, <1>5 DEF FoundPolicy, NoPolicy

LEMMA NoPolicyFound ==
  ASSUME ObjectTreeAssumption, NEW tree, CarefulTree(tree), NEW x,
         \A a \in Values(tree[AccessControl]) : a.about # x
  PROVE  FoundPolicy(tree, x) = NoPolicy
<1>1. FoundAco(tree[AccessControl], x) = Null
  BY FoundIsAbout
<1> QED BY <1>1 DEF FoundPolicy

(* A change of ACOs changes no policy but those they are about. *)
LEMMA OtherPolicies ==
  ASSUME ObjectTreeAssumption, NEW tree, CarefulTree(tree), NEW next, CarefulTree(next),
         NEW gone, NEW come, Swapped(tree, next, AccessControl, gone, come),
         NEW x, \A a \in gone \cup come : a.about # x
  PROVE  FoundPolicy(next, x) = FoundPolicy(tree, x)
<1>1. CASE \E a \in Values(tree[AccessControl]) : a.about = x
  <2>1. PICK a \in Values(tree[AccessControl]) : a.about = x
    BY <1>1
  <2>2. a \in Values(next[AccessControl])
    BY <2>1 DEF Swapped
  <2>3. FoundPolicy(tree, x) = [owner |-> a.owner, acl |-> a.acl]
    BY <2>1, PolicyOfAco
  <2>4. FoundPolicy(next, x) = [owner |-> a.owner, acl |-> a.acl]
    BY <2>1, <2>2, PolicyOfAco
  <2> QED BY <2>3, <2>4
<1>2. CASE \A a \in Values(tree[AccessControl]) : a.about # x
  <2>1. \A a \in Values(next[AccessControl]) : a.about # x
    BY <1>2 DEF Swapped
  <2> QED BY <1>2, <2>1, NoPolicyFound
<1> QED BY <1>1, <1>2

LEMMA PoliciesWithAcos ==
  ASSUME NEW tree, NEW next, next[AccessControl] = tree[AccessControl], NEW x
  PROVE  FoundPolicy(next, x) = FoundPolicy(tree, x)
BY DEF FoundPolicy

(* The policies of a tree and p for what is new, x. *)
Grown(tree, x, p) ==
  [y \in TargetsIn(tree) \cup {x} |-> IF y = x THEN p ELSE PoliciesIn(tree)[y]]

(* What comes without an ACO has no policy ... *)
LEMMA InstanceComes ==
  ASSUME ObjectTreeAssumption, NEW tree, CarefulTree(tree), NEW next, CarefulTree(next),
         NEW o \in Object \ {AccessControl}, NEW v, Swapped(tree, next, o, {}, {v}),
         <<o, v.id>> \notin TargetsIn(tree)
  PROVE  PoliciesIn(next) = Grown(tree, <<o, v.id>>, NoPolicy)
<1>1. PICK x : x = <<o, v.id>>
  OBVIOUS
<1>2. TargetsIn(next) = TargetsIn(tree) \cup {x}
  BY <1>1, TargetsGrow
<1>3. \A y : FoundPolicy(next, y) = FoundPolicy(tree, y)
  BY AccessControlIsObject, PoliciesWithAcos DEF Swapped
<1>4. \A a \in Values(tree[AccessControl]) : a.about # x
  BY <1>1, PolicyOfAco
<1>5. FoundPolicy(tree, x) = NoPolicy
  BY <1>4, NoPolicyFound
<1>6. PoliciesIn(next) = Grown(tree, x, NoPolicy)
  BY <1>2, <1>3, <1>5 DEF PoliciesIn, Grown
<1> QED BY <1>1, <1>6

(* ... and what comes with one, the policy the ACO says. *)
BothCome(tree, added, next, o, v, a) ==
  /\ CarefulTree(tree) /\ CarefulTree(added) /\ CarefulTree(next)
  /\ Swapped(tree, added, o, {}, {v})
  /\ Swapped(added, next, AccessControl, {}, {a}) /\ a.about = <<o, v.id>>

LEMMA InstanceComesWithAco ==
  ASSUME ObjectTreeAssumption, NEW tree, NEW added, NEW next,
         NEW o \in Object \ {AccessControl}, NEW v, NEW a, BothCome(tree, added, next, o, v, a)
  PROVE  PoliciesIn(next) = Grown(tree, <<o, v.id>>, [owner |-> a.owner, acl |-> a.acl])
<1> USE DEF BothCome
<1>1. PICK x : x = <<o, v.id>>
  OBVIOUS
<1>2. TargetsIn(next) = TargetsIn(tree) \cup {x}
  <2>1. TargetsIn(added) = TargetsIn(tree) \cup {x}
    BY <1>1, TargetsGrow
  <2>2. TargetsIn(next) = TargetsIn(added)
    BY TargetsOfAcos
  <2> QED BY <2>1, <2>2
<1>3. FoundPolicy(next, x) = [owner |-> a.owner, acl |-> a.acl]
  <2>1. a \in Values(next[AccessControl])
    BY DEF Swapped
  <2> QED BY <1>1, <2>1, PolicyOfAco
<1>4. ASSUME NEW y, y # x
      PROVE  FoundPolicy(next, y) = FoundPolicy(tree, y)
  <2>1. \A b \in {} \cup {a} : b.about # y
    BY <1>1, <1>4
  <2>2. FoundPolicy(next, y) = FoundPolicy(added, y)
    BY <2>1, OtherPolicies
  <2>3. FoundPolicy(added, y) = FoundPolicy(tree, y)
    BY AccessControlIsObject, PoliciesWithAcos DEF Swapped
  <2> QED BY <2>2, <2>3
<1>5. PoliciesIn(next) = Grown(tree, x, [owner |-> a.owner, acl |-> a.acl])
  BY <1>1, <1>2, <1>3, <1>4 DEF PoliciesIn, Grown
<1> QED BY <1>1, <1>5

(* The policies of a tree without that of x. *)
Shrunk(tree, x) == [y \in TargetsIn(tree) \ {x} |-> PoliciesIn(tree)[y]]

(* What goes takes its policy with it. *)
BothGo(tree, alone, next, o, old) ==
  /\ CarefulTree(tree) /\ CarefulTree(alone) /\ CarefulTree(next)
  /\ old \in Values(tree[o])
  /\ Swapped(tree, alone, AccessControl,
             {a \in Values(tree[AccessControl]) : a.about = <<o, old.id>>}, {})
  /\ Swapped(alone, next, o, {old}, {})

LEMMA InstanceGoes ==
  ASSUME ObjectTreeAssumption, NEW tree, NEW alone, NEW next,
         NEW o \in Object \ {AccessControl}, NEW old, BothGo(tree, alone, next, o, old)
  PROVE  <<o, old.id>> \in TargetsIn(tree) /\ PoliciesIn(next) = Shrunk(tree, <<o, old.id>>)
<1> DEFINE x == <<o, old.id>>
<1> USE DEF BothGo
<1> DEFINE gone == {a \in Values(tree[AccessControl]) : a.about = x}
<1>1. x \in TargetsIn(tree)
  <2>1. old.id \in Keys(tree[o])
    BY KeysOfValues
  <2> QED BY <2>1, InTargets
<1>2. TargetsIn(next) = TargetsIn(tree) \ {x}
  <2>1. TargetsIn(alone) = TargetsIn(tree)
    BY TargetsOfAcos
  <2>2. old \in Values(alone[o])
    BY DEF Swapped
  <2>3. TargetsIn(next) = TargetsIn(alone) \ {x}
    BY <2>2, TargetsShrink
  <2> QED BY <2>1, <2>3
<1>3. ASSUME NEW y, y # x
      PROVE  FoundPolicy(next, y) = FoundPolicy(tree, y)
  <2>1. FoundPolicy(next, y) = FoundPolicy(alone, y)
    BY AccessControlIsObject, PoliciesWithAcos DEF Swapped
  <2>2. \A a \in gone \cup {} : a.about # y
    BY <1>3
  <2>3. FoundPolicy(alone, y) = FoundPolicy(tree, y)
    BY <2>2, OtherPolicies
  <2> QED BY <2>1, <2>3
<1> HIDE DEF x
<1>4. PoliciesIn(next) = Shrunk(tree, x)
  BY <1>2, <1>3 DEF PoliciesIn, Shrunk
<1> QED BY <1>1, <1>4 DEF x

(* One that is completed keeps it. *)
LEMMA InstanceStays ==
  ASSUME ObjectTreeAssumption, NEW tree, CarefulTree(tree), NEW next, CarefulTree(next),
         NEW o \in Object \ {AccessControl}, NEW old \in Values(tree[o]), NEW v, v.id = old.id,
         Swapped(tree, next, o, {old}, {v})
  PROVE  PoliciesIn(next) = PoliciesIn(tree)
<1>1. TargetsIn(next) = TargetsIn(tree)
  BY TargetsSame
<1>2. \A y : FoundPolicy(next, y) = FoundPolicy(tree, y)
  BY AccessControlIsObject, PoliciesWithAcos DEF Swapped
<1> QED BY <1>1, <1>2 DEF PoliciesIn

(* A change of one ACO, or its end, is a change of one policy. *)
LEMMA OnePolicyChanges ==
  ASSUME ObjectTreeAssumption, NEW tree, CarefulTree(tree), NEW next, CarefulTree(next),
         NEW old \in Values(tree[AccessControl]), NEW come,
         Swapped(tree, next, AccessControl, {old}, come),
         \A a \in come : a.about = old.about
  PROVE  /\ old.about \in TargetsIn(tree)
         /\ PoliciesIn(tree)[old.about] # NoPolicy
         /\ PoliciesIn(next) =
              [PoliciesIn(tree) EXCEPT ![old.about] = PoliciesIn(next)[old.about]]
<1>1. old.about \in TargetsIn(tree) /\ PoliciesIn(tree)[old.about] # NoPolicy
  BY PolicyOfAco DEF PoliciesIn
<1>2. TargetsIn(next) = TargetsIn(tree)
  BY TargetsOfAcos
<1>3. ASSUME NEW y, y # old.about
      PROVE  FoundPolicy(next, y) = FoundPolicy(tree, y)
  <2>1. \A a \in {old} \cup come : a.about # y
    BY <1>3
  <2> QED BY <2>1, OtherPolicies
<1> QED BY <1>1, <1>2, <1>3 DEF PoliciesIn

-----------------------------------------------------------------------------
(* What the client grants, the policy allows. *)
LEMMA GrantsAllows ==
  ASSUME Assumptions, NEW aco, NEW s, NEW op, NEW p, p = [owner |-> aco.owner, acl |-> aco.acl],
         Grants(EntryOrDefault(aco, s), op) = "granted"
  PROVE  Access!Allows(p, s, op)
<1>1. /\ EntryOrDefault(aco, s) \notin {Null, Freed}
      /\ op \in EntryOrDefault(aco, s)
  BY DEF Grants
<1>2. p.acl = aco.acl
  OBVIOUS
<1>3. CASE s \in DOMAIN aco.acl
  BY <1>1, <1>2, <1>3 DEF EntryOrDefault, Access!Allows, Access!Gives, NoRights
<1>4. CASE s \notin DOMAIN aco.acl
  <2>1. 0 \in DOMAIN aco.acl
    BY <1>1, <1>4 DEF EntryOrDefault
  <2> QED BY <1>1, <1>2, <1>4, <2>1 DEF EntryOrDefault, Access!Allows, Access!Gives, NoRights
<1> QED BY <1>3, <1>4

LEMMA InstanceGranted ==
  ASSUME Assumptions, CarefulTree(instances), NEW s \in servers, NEW o \in Object, NEW i,
         NEW op \in OwnersRights, Exists(o, i), Check(s, o, i, op) = "granted"
  PROVE  \/ servers = {s}
         \/ o # AccessControl /\ Access!May(s, <<o, i>>, op)
<1>1. Find(o, i).id = i
  BY InTree
<1>2. PICK aco : aco = AcoFor(<<o, i>>)
  OBVIOUS
<1>3. CASE Cardinality(servers) = 1
  BY <1>3, ServersAreFew
<1>4. CASE Cardinality(servers) # 1
  <2>1. /\ Reading(aco) = "none"
        /\ \/ s \notin DOMAIN aco.acl /\ aco.owner = s
           \/ Grants(EntryOrDefault(aco, s), op) = "granted"
    <3>1. Reading(aco) # "granted"
      BY DEF Reading, Following
    <3> QED BY <1>1, <1>2, <1>4, <3>1 DEF Check, CheckInstance
  <2>2. aco # Null
    BY <2>1 DEF Reading, Following
  <2>3. aco \in Values(instances[AccessControl]) /\ aco.about = <<o, i>>
    BY <1>2, <2>2, AcoForIsAbout DEF acos
  <2>4. o # AccessControl
    BY <2>3, AcosAbout DEF CarefulTree, TreeNeat, Assumptions
  <2>5. PICK p : p = [owner |-> aco.owner, acl |-> aco.acl]
    OBVIOUS
  <2>6. policy[<<o, i>>] = p /\ p # NoPolicy
    <3>1. /\ FoundPolicy(instances, aco.about) = p /\ p # NoPolicy
          /\ aco.about \in TargetsIn(instances)
      BY <2>3, <2>5, PolicyOfAco DEF Assumptions
    <3> QED BY <2>3, <3>1, PolicyIsInTree DEF PoliciesIn
  <2>7. Access!Allows(p, s, op)
    <3>1. CASE s \notin DOMAIN aco.acl /\ aco.owner = s
      BY <2>5, <3>1 DEF Access!Allows, Access!OwnersRights, OwnersRights, Rights
    <3>2. CASE Grants(EntryOrDefault(aco, s), op) = "granted"
      BY <2>5, <3>2, GrantsAllows
    <3> QED BY <2>1, <3>1, <3>2
  <2> QED BY <2>4, <2>6, <2>7 DEF Access!May
<1> QED BY <1>3, <1>4

LEMMA CreateAllowed ==
  ASSUME Assumptions, StateOK, CarefulTree(instances), NEW s \in Server, NEW o \in Object,
         CheckCreate(s, o) = "granted"
  PROVE  Access!May(s, <<o, AllInstances>>, "CREATE")
<1>1. PICK aco : aco = AcoFor(<<o, AllInstances>>)
  OBVIOUS
<1>2. aco # Null /\ Grants(EntryOrDefault(aco, s), "CREATE") = "granted"
  BY <1>1, CreateGranted
<1>3. aco \in Values(instances[AccessControl]) /\ aco.about = <<o, AllInstances>>
  BY <1>1, <1>2, AcoForIsAbout DEF acos
<1>4. PICK p : p = [owner |-> aco.owner, acl |-> aco.acl]
  OBVIOUS
<1>5. policy[<<o, AllInstances>>] = p /\ p # NoPolicy
  <2>1. /\ FoundPolicy(instances, aco.about) = p /\ p # NoPolicy
        /\ aco.about \in TargetsIn(instances)
    BY <1>3, <1>4, PolicyOfAco DEF Assumptions
  <2> QED BY <1>3, <2>1, PolicyIsInTree DEF PoliciesIn
<1>6. Access!Allows(p, s, "CREATE")
  BY <1>2, <1>4, GrantsAllows
<1> QED BY <1>5, <1>6 DEF Access!May

LEMMA NewTarget ==
  ASSUME Assumptions, CarefulTree(instances), NEW o \in Object \ {AccessControl}, NEW i \in Nat,
         ~Exists(o, i)
  PROVE  <<o, i>> \notin TargetsIn(instances)
<1>1. i # AllInstances
  BY DEF Assumptions, ObjectTreeAssumption
<1>2. i \notin Keys(instances[o])
  BY DEF Exists, lcontains
<1> QED BY <1>1, <1>2, InTargets

(* A policy appears. *)
LEMMA AppearsStep ==
  ASSUME Assumptions, CarefulTree(instances), NEW s \in servers, servers' = servers,
         NEW o \in Object \ {AccessControl}, NEW i, <<o, i>> \notin TargetsIn(instances),
         Access!May(s, <<o, AllInstances>>, "CREATE"), NEW p,
         PoliciesIn(instances') = Grown(instances, <<o, i>>, p),
         \/ p = NoPolicy
         \/ servers # {s} /\ p = [owner |-> s, acl |-> CreatorsAcl(s)]
  PROVE  Access!ServerStep(s)
<1>1. PICK x : x = <<o, i>>
  OBVIOUS
<1>2. DOMAIN policy = TargetsIn(instances)
  BY PolicyIsInTree DEF PoliciesIn
<1>3. policy' = [y \in DOMAIN policy \cup {x} |-> IF y = x THEN p ELSE policy[y]]
  BY <1>1, <1>2, PolicyIsInTree DEF Grown
<1>4. x \in DOMAIN policy' \ DOMAIN policy
  BY <1>1, <1>2, <1>3
<1>5. x[1] = o /\ Access!May(s, <<x[1], AllInstances>>, "CREATE")
  BY <1>1
<1>6. Access!Appears(x, p)
  BY <1>3, <1>4 DEF Access!Appears
<1>7. CASE p = NoPolicy
  <2>1. Access!CreateRemains(s, x)
    BY <1>5, <1>6, <1>7 DEF Access!CreateRemains
  <2> QED BY <1>4, <2>1 DEF Access!ServerStep
<1>8. CASE servers # {s} /\ p = [owner |-> s, acl |-> CreatorsAcl(s)]
  <2>1. CreatorsAcl(s) = [t \in {s} |-> Access!OwnersRights]
    BY DEF CreatorsAcl, OwnersRights, Rights, Access!OwnersRights
  <2>2. Access!CreateInstance(s, x)
    BY <1>5, <1>6, <1>8, <2>1 DEF Access!CreateInstance
  <2> QED BY <1>4, <2>2 DEF Access!ServerStep
<1> QED BY <1>7, <1>8

(* A policy changes, or is dropped, by a server that is alone. *)
LEMMA ChangeStep ==
  ASSUME Assumptions, CarefulTree(instances), CarefulTree(instances'),
         NEW s, servers = {s}, servers' = servers,
         NEW old \in Values(acos), NEW come,
         Swapped(instances, instances', AccessControl, {old}, come),
         \A a \in come : a.about = old.about
  PROVE  Access!ServerStep(s)
<1>1. PICK x : x = old.about
  OBVIOUS
<1>2. /\ x \in TargetsIn(instances)
      /\ PoliciesIn(instances)[x] # NoPolicy
      /\ PoliciesIn(instances') = [PoliciesIn(instances) EXCEPT ![x] = PoliciesIn(instances')[x]]
  BY <1>1, OnePolicyChanges DEF Assumptions, acos
<1>3. x \in DOMAIN policy /\ policy[x] # NoPolicy
  BY <1>2, PolicyIsInTree DEF PoliciesIn
<1>4. policy' = [policy EXCEPT ![x] = policy'[x]]
  BY <1>2, PolicyIsInTree
<1>5. Access!ChangePolicy(s, x)
  BY <1>3, <1>4 DEF Access!ChangePolicy
<1> QED BY <1>3, <1>5 DEF Access!ServerStep

(* A policy goes with its instance. *)
LEMMA DeleteStep ==
  ASSUME Assumptions, CarefulTree(instances), NEW s \in servers, servers' = servers,
         NEW o \in Object \ {AccessControl}, NEW i, Delete(s, o, i), instances' # instances
  PROVE  Access!ServerStep(s)
<1>1. Exists(o, i) /\ Check(s, o, i, "DELETE") = "granted" /\ "DELETE" \in OwnersRights
  BY DEF Delete, OwnersRights, Rights
<1>2. Access!May(s, <<o, i>>, "DELETE")
  BY <1>1, InstanceGranted DEF Access!May
<1>3. PICK old : old = Find(o, i)
  OBVIOUS
<1>4. old \in Values(instances[o]) /\ old.id = i
  BY <1>1, <1>3, InTree
<1>5. PICK gone : gone = {a \in Values(acos) : a.about = <<o, i>>}
  OBVIOUS
<1>6. PICK alone : /\ CarefulTree(alone) /\ CarefulTree(instances')
                   /\ Swapped(instances, alone, AccessControl, gone, {})
                   /\ Swapped(alone, instances', o, {old}, {})
  BY <1>3, <1>5, DeleteInstanceChange
<1>7. PICK x : x = <<o, i>>
  OBVIOUS
<1>8. x \in TargetsIn(instances) /\ PoliciesIn(instances') = Shrunk(instances, x)
  <2>1. BothGo(instances, alone, instances', o, old)
    BY <1>4, <1>5, <1>6 DEF BothGo, acos
  <2>2. /\ <<o, old.id>> \in TargetsIn(instances)
        /\ PoliciesIn(instances') = Shrunk(instances, <<o, old.id>>)
    BY <2>1, InstanceGoes DEF Assumptions
  <2> QED BY <1>4, <1>7, <2>2
<1>9. DOMAIN policy = TargetsIn(instances)
  BY PolicyIsInTree DEF PoliciesIn
<1>10. policy' = Access!Restrict(policy, DOMAIN policy \ {x})
  BY <1>8, <1>9, PolicyIsInTree DEF Access!Restrict, Shrunk
<1>11. Access!DeleteInstance(s, x)
  BY <1>2, <1>7, <1>10 DEF Access!DeleteInstance
<1> QED BY <1>8, <1>9, <1>11 DEF Access!ServerStep

LEMMA CreateStep ==
  ASSUME Assumptions, StateOK, CarefulTree(instances), NEW s \in servers, servers' = servers,
         NEW o \in Object, NEW i \in 0..MaxId \cup {NewId(o)},
         Create(s, o, i) \/ CreateIncomplete(s, o, i)
  PROVE  Access!ServerStep(s)
<1>1. s \in Server /\ CheckCreate(s, o) = "granted" /\ ~Exists(o, i)
  BY DEF Create, CreateIncomplete, MayCreate, servers
<1>2. i \in Nat /\ o \in Object \ {AccessControl}
  BY <1>1, InRange, NewIdType, CreateGranted DEF Assumptions, StateOK
<1>3. /\ <<o, i>> \notin TargetsIn(instances)
      /\ Access!May(s, <<o, AllInstances>>, "CREATE")
  BY <1>1, <1>2, NewTarget, CreateAllowed
<1>4. CASE CreateIncomplete(s, o, i)
  <2>1. PICK v : v = NewInstance(i, FALSE)
    OBVIOUS
  <2>2. CarefulTree(instances') /\ Swapped(instances, instances', o, {}, {v}) /\ v.id = i
    BY <1>2, <1>4, <2>1, CreateIncompleteChange DEF NewInstance
  <2>3. PoliciesIn(instances') = Grown(instances, <<o, i>>, NoPolicy)
    BY <1>2, <1>3, <2>2, InstanceComes DEF Assumptions
  <2> QED BY <1>2, <1>3, <2>3, AppearsStep
<1>5. CASE Create(s, o, i)
  <2>1. PICK v : v = NewInstance(i, TRUE)
    OBVIOUS
  <2>2. v.id = i
    BY <2>1 DEF NewInstance
  <2>3. \E added : \E aco \in Aco :
          /\ CarefulTree(added) /\ CarefulTree(instances')
          /\ Swapped(instances, added, o, {}, {v})
          /\ aco.about = <<o, i>> /\ aco.owner = s /\ aco.acl = CreatorsAcl(s)
          /\ IF Cardinality(servers) <= 1 THEN instances' = added
             ELSE Swapped(added, instances', AccessControl, {}, {aco})
    BY <1>1, <1>2, <1>5, <2>1, CreateChange
  <2>4. PICK added : \E aco \in Aco :
          /\ CarefulTree(added) /\ CarefulTree(instances')
          /\ Swapped(instances, added, o, {}, {v})
          /\ aco.about = <<o, i>> /\ aco.owner = s /\ aco.acl = CreatorsAcl(s)
          /\ IF Cardinality(servers) <= 1 THEN instances' = added
             ELSE Swapped(added, instances', AccessControl, {}, {aco})
    BY <2>3
  <2>5. PICK aco \in Aco :
          /\ CarefulTree(added) /\ CarefulTree(instances')
          /\ Swapped(instances, added, o, {}, {v})
          /\ aco.about = <<o, i>> /\ aco.owner = s /\ aco.acl = CreatorsAcl(s)
          /\ IF Cardinality(servers) <= 1 THEN instances' = added
             ELSE Swapped(added, instances', AccessControl, {}, {aco})
    BY <2>4
  <2>6. CASE Cardinality(servers) <= 1
    <3>1. PoliciesIn(instances') = Grown(instances, <<o, i>>, NoPolicy)
      BY <1>2, <1>3, <2>2, <2>5, <2>6, InstanceComes DEF Assumptions
    <3> QED BY <1>2, <1>3, <3>1, AppearsStep
  <2>7. CASE ~(Cardinality(servers) <= 1)
    <3>1. servers # {s}
      BY <2>7, ServersAreFew
    <3>2. Swapped(added, instances', AccessControl, {}, {aco})
      BY <2>5, <2>7
    <3>3. PICK p : p = [owner |-> aco.owner, acl |-> aco.acl]
      OBVIOUS
    <3>4. PoliciesIn(instances') = Grown(instances, <<o, i>>, p)
      <4>1. BothCome(instances, added, instances', o, v, aco)
        BY <2>2, <2>5, <3>2 DEF BothCome
      <4>2. PoliciesIn(instances') =
              Grown(instances, <<o, v.id>>, [owner |-> aco.owner, acl |-> aco.acl])
        BY <1>2, <4>1, InstanceComesWithAco DEF Assumptions
      <4> QED BY <2>2, <3>3, <4>2
    <3>5. p = [owner |-> s, acl |-> CreatorsAcl(s)]
      BY <2>5, <3>3
    <3> QED BY <1>2, <1>3, <3>1, <3>4, <3>5, AppearsStep
  <2> QED BY <2>6, <2>7
<1> QED BY <1>4, <1>5

(* A request that changes the policies is one that they allow.             *)
LEMMA RequestByRight ==
  ASSUME Assumptions, StateOK, CarefulTree(instances), NEW s \in Server, Request(s)
  PROVE  /\ s \in servers /\ servers' = servers
         /\ policy' = policy \/ Access!ServerStep(s)
<1>1. CarefulTree(instances') /\ s \in servers /\ servers' = servers
  BY RequestCareful DEF servers
<1>2. CASE instances' = instances
  <2>1. policy' = policy
    BY <1>2, PolicyIsInTree
  <2> QED BY <1>1, <2>1
<1>3. CASE instances' # instances
  <2>1. ASSUME NEW o \in Object, NEW i \in 0..MaxAcoId, NEW op \in Rights \ {"CREATE"},
               RequestFails(s, o, i, op) \/ RefusedKeepsLock(s, o, i, op)
        PROVE  FALSE
    BY <1>3, <2>1 DEF RequestFails, RefusedKeepsLock, Fail, KeepLock
  <2>2. ASSUME (\E i \in 0..MaxAcoId : ReadFreedEntry(s, i)) \/ NotFound(s)
        PROVE  FALSE
    BY <1>3, <2>2 DEF ReadFreedEntry, NotFound, Fail
  <2>3. ASSUME NEW o \in Object, CreateFails(s, o) \/ CreateRefused(s, o)
        PROVE  FALSE
    BY <1>3, <2>3 DEF CreateFails, CreateRefused, Fail, KeepLock
  <2>4. ASSUME NEW o \in Object, NEW i \in 0..MaxAcoId, Write(s, o, i)
        PROVE  policy' = policy
    <3>1. o \in Object \ {AccessControl} /\ Exists(o, i)
      BY <2>4 DEF Write
    <3>2. PICK old : old = Find(o, i)
      OBVIOUS
    <3>3. old \in Values(instances[o]) /\ old.id = i
      BY <3>1, <3>2, InTree
    <3>4. PICK v : v.id = i /\ Swapped(instances, instances', o, {old}, {v})
      BY <2>4, <3>2, WriteChange
    <3>5. PoliciesIn(instances') = PoliciesIn(instances)
      BY <1>1, <3>1, <3>3, <3>4, InstanceStays DEF Assumptions
    <3> QED BY <3>5, PolicyIsInTree
  <2>5. ASSUME NEW o \in Object, NEW i \in 0..MaxAcoId, Delete(s, o, i)
        PROVE  Access!ServerStep(s)
    <3>1. CASE o # AccessControl
      BY <1>1, <1>3, <2>5, <3>1, DeleteStep
    <3>2. CASE o = AccessControl
      <4>1. PICK old : old = Find(AccessControl, i)
        OBVIOUS
      <4>2. Exists(o, i) /\ Check(s, o, i, "DELETE") = "granted" /\ "DELETE" \in OwnersRights
        BY <2>5 DEF Delete, OwnersRights, Rights
      <4>3. servers = {s}
        BY <1>1, <3>2, <4>2, InstanceGranted
      <4>4. old \in Values(acos)
        BY <3>2, <4>1, <4>2, InTree DEF acos
      <4>5. Swapped(instances, instances', AccessControl, {old}, {})
        BY <1>3, <2>5, <3>2, <4>1, DeleteAcoChange
      <4>6. \A a \in {} : a.about = old.about
        OBVIOUS
      <4> QED BY <1>1, <4>3, <4>4, <4>5, <4>6, ChangeStep
    <3> QED BY <3>1, <3>2
  <2>6. ASSUME NEW i \in 0..MaxAcoId, WriteAco(s, i)
        PROVE  Access!ServerStep(s)
    <3>1. PICK old : old = Find(AccessControl, i)
      OBVIOUS
    <3>2. /\ Exists(AccessControl, i) /\ Check(s, AccessControl, i, "WRITE") = "granted"
          /\ "WRITE" \in OwnersRights /\ AccessControl \in Object
      BY <2>6, AccessControlIsObject DEF WriteAco, OwnersRights, Rights, Assumptions
    <3>3. servers = {s}
      BY <1>1, <3>2, InstanceGranted
    <3>4. old \in Values(acos)
      BY <3>1, <3>2, InTree DEF acos
    <3>5. PICK a : /\ a.about = old.about
                   /\ Swapped(instances, instances', AccessControl, {old}, {a})
      BY <1>3, <2>6, <3>1, WriteAcoChange
    <3>6. \A b \in {a} : b.about = old.about
      BY <3>5
    <3> QED BY <1>1, <3>3, <3>4, <3>5, <3>6, ChangeStep
  <2>7. ASSUME NEW o \in Object, NEW i \in 0..MaxId \cup {NewId(o)},
               Create(s, o, i) \/ CreateIncomplete(s, o, i)
        PROVE  Access!ServerStep(s)
    BY <1>1, <2>7, CreateStep
  <2> QED BY <1>1, <2>1, <2>2, <2>3, <2>4, <2>5, <2>6, <2>7 DEF Request
<1> QED BY <1>2, <1>3

(* If the bootstrap server is careful, a request that changes the policies *)
(* is one the policies allow to the very server that sent it.              *)
THEOREM ChangedByRight ==
  ASSUME ObjectTreeAssumption, DeviceManagementAssumption, Careful
  PROVE  Spec => OnlyByRight
<1> DEFINE ByRight == policy' # policy => \A s \in servers : Request(s) => Access!ServerStep(s)
<1>1. Init => CarefulInv
  BY CarefulInit DEF Assumptions
<1>2. CarefulInv /\ [Next]_vars => CarefulInv'
  BY CarefulStep DEF Assumptions
<1>3. CarefulInv => ByRight
  <2>1. Assumptions /\ servers \subseteq Server
    BY DEF Assumptions, servers
  <2> QED BY <2>1, RequestByRight DEF CarefulInv, TypeInv
<1>4. CarefulInv /\ [Next]_vars => [ByRight]_instances
  BY <1>3
<1> QED BY <1>1, <1>2, <1>4, PTL DEF Spec, OnlyByRight

(* If the bootstrap server is careful, the client does what the Access     *)
(* Control object is for.                                                  *)
THEOREM Implementation ==
  ASSUME ObjectTreeAssumption, DeviceManagementAssumption, Careful
  PROVE  Spec => ImplementsAccessPolicy
<1>1. Init => CarefulInv
  BY CarefulInit DEF Assumptions
<1>2. CarefulInv /\ [Next]_vars => CarefulInv'
  BY CarefulStep DEF Assumptions
<1>3. Init => servers = {}
  BY DEF Init, servers
<1>4. CarefulInv /\ [Next]_vars => [Access!PolicyNext]_(Access!policyVars)
  <2>1. Assumptions
    BY DEF Assumptions
  <2>2. SUFFICES ASSUME CarefulInv, [Next]_vars
                 PROVE  Access!PolicyNext \/ (servers' = servers /\ policy' = policy)
    BY DEF Access!policyVars
  <2>3. ASSUME UNCHANGED vars
        PROVE  servers' = servers /\ policy' = policy
    <3>1. instances' = instances /\ registered' = registered
      BY <2>3 DEF vars
    <3>2. policy' = policy
      BY <3>1, PolicyIsInTree
    <3> QED BY <3>1, <3>2 DEF servers
  <2>4. ASSUME NEW s \in Server, Register(s) \/ Deregistered(s)
        PROVE  Access!PolicyNext
    <3>1. policy' = policy
      BY <2>4, PolicyIsInTree DEF Register, Deregistered
    <3>2. servers' \subseteq Server
      BY DEF servers
    <3> QED BY <3>1, <3>2 DEF Access!PolicyNext, Access!ServersChange
  <2>5. ASSUME NEW s \in Server, Request(s)
        PROVE  Access!PolicyNext \/ (servers' = servers /\ policy' = policy)
    <3>1. /\ s \in servers /\ servers' = servers
          /\ policy' = policy \/ Access!ServerStep(s)
      BY <2>1, <2>2, <2>5, RequestByRight DEF CarefulInv, TypeInv
    <3> QED BY <3>1 DEF Access!PolicyNext
  <2>6. ASSUME Command
        PROVE  Access!PolicyNext \/ (servers' = servers /\ policy' = policy)
    <3>1. /\ registered' = registered
          /\ instances' = instances \/ (CarefulTime /\ AllWhole')
      BY <2>1, <2>2, <2>6, BootstrapCareful DEF CarefulInv, TypeInv, Command
    <3>2. servers' = servers
      BY <3>1 DEF servers
    <3>3. CASE instances' = instances
      BY <3>2, <3>3, PolicyIsInTree
    <3>4. CASE CarefulTime
      <4>1. servers = {}
        BY <3>4 DEF CarefulTime, servers
      <4> QED BY <3>2, <4>1 DEF Access!PolicyNext, Access!Configure
    <3> QED BY <3>1, <3>3, <3>4
  <2> QED BY <2>2, <2>3, <2>4, <2>5, <2>6 DEF Next
<1> QED BY <1>1, <1>2, <1>3, <1>4, PTL DEF Spec, ImplementsAccessPolicy, Access!PolicySpec
=============================================================================
