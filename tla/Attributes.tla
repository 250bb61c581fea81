------------------------------ MODULE Attributes ------------------------------
(***************************************************************************)
(* The attributes servers write to a resource, its instance and its object *)
(* (src/lwm2m_attribute.c), and what they do to notifications: gt, lt and   *)
(* stp choose the servers to notify of a new value (should_notify() in     *)
(* src/lwm2m_information_reporting.c), pmin puts a notification off        *)
(* (set_value() in src/lwm2m_object.c), and pmax is the period of an       *)
(* observation.                                                            *)
(*                                                                         *)
(* WRITE ATTRIBUTES takes no lock.  Who sets a value holds pointers into    *)
(* the attributes between looking them up and reading them, so these are   *)
(* separate steps.  Ages are in seconds, as the scheduler's times.         *)
(***************************************************************************)
EXTENDS Integers, Sequences

CONSTANTS
  Server,       \* the servers that are registered
  Setter,       \* the threads that set the value: "app", "mqtt"
  Observable,   \* what is observed, pairs of a server and a level
  Value,        \* what the resource may hold, besides nothing
  Payload,      \* what WRITE ATTRIBUTES may carry
  Default,      \* what the Server object may say: pmin and pmax
  MaxWrites,    \* bound: WRITEs of attributes and defaults
  MaxSets,      \* bound: values given to the resource
  MaxAge,       \* ages stop here
  Null

Level == {"resource", "instance", "object"}
Attr == {"dim", "pmax", "pmin", "gt", "lt", "stp"}
Condition == {"gt", "lt", "stp"}
Period == {"pmin", "pmax"}

Attrs == [Attr -> Int \cup {Null}]
Defaults == [Period -> Nat \cup {Null}]
Observation == Server \X Level

Age == 0..MaxAge

(* What is kept of who observes: the period, how long ago the task was     *)
(* executed or the observation made, and last_waking_time # 0.             *)
Observer == [period : Int, age : Age, told : BOOLEAN]

(* What a pointer into the attributes may point to: an attribute of a      *)
(* level, or the value of a resource of the Server object.                 *)
Cell == (Server \X Level \X Attr) \cup (Server \X {"default"} \X Period)

ASSUME AttributesAssumption ==
  /\ Server \subseteq Int
  /\ Setter \subseteq {"app", "mqtt"}
  /\ Observable \subseteq Observation
  /\ Value \subseteq Int
  /\ Payload \subseteq Attrs
  /\ Default \subseteq Defaults
  /\ MaxWrites \in Nat /\ MaxSets \in Nat /\ MaxAge \in Nat
  /\ Null \notin Int \cup Cell \cup Observer

VARIABLES
  attrs,       \* resource->, instance->, object->attributes, by server
  defaults,    \* resources 2 and 3 of the Server object's instances
  value,       \* resource->value
  observers,   \* the observations there are
  pc,          \* where each setter is
  change,      \* the old and the new value, while a setter is at it
  asked,       \* the servers should_notify() has yet to ask
  chosen,      \* the servers it has found
  todo,        \* the observations a setter has yet to look for
  at,          \* the observation it is at
  held,        \* the cells it has looked up, and what they held
  dangling,    \* the cells among them that were freed since
  written,     \* history: what each server wrote last
  since,       \* history: the age of the last notification of an observation
  seen,        \* history: and what it was when a setter found it old enough
  writes, sets, fault

localVars == <<pc, change, asked, chosen, todo, at, held, seen>>
attrVars == <<attrs, defaults, written, writes>>
reportVars == <<observers, since>>
valueVars == <<value, sets>>
vars == <<attrVars, valueVars, reportVars, localVars, dangling, fault>>

Setting == {"choosing", "comparing", "notifying", "checking", "executing"}

(* What the variables may be.  Whoever observes has a period, the pmax of   *)
(* the OBSERVE, and what dangles is held.                                   *)
TypeOK ==
  /\ attrs \in [Server -> [Level -> Attrs]]
  /\ written \in [Server -> [Level -> Attrs]]
  /\ defaults \in [Server -> Defaults]
  /\ value \in Value \cup {Null}
  /\ observers \in [Observation -> {Null} \cup Observer]
  /\ pc \in [Setter -> {"idle"} \cup Setting]
  /\ change \in [Setter -> (Value \cup {Null}) \X (Value \cup {Null})]
  /\ asked \in [Setter -> SUBSET Server]
  /\ chosen \in [Setter -> SUBSET Server]
  /\ todo \in [Setter -> SUBSET Observation]
  /\ at \in [Setter -> Observation \cup {Null}]
  /\ \A th \in Setter : DOMAIN held[th] \subseteq Cell /\ dangling[th] \subseteq DOMAIN held[th]
  /\ since \in [Observation -> {Null} \cup Age]
  /\ seen \in [Setter -> {Null} \cup Age]
  /\ writes \in 0..MaxWrites
  /\ sets \in 0..MaxSets
  /\ fault \in {"none", "null", "freed", "period"}

Empty == [a \in Attr |-> Null]   \* EMPTY_ATTR

NothingHeld == [c \in {} |-> 0]

Init ==
  /\ attrs = [s \in Server |-> [l \in Level |-> Empty]]
  /\ written = attrs
  /\ defaults \in [Server -> Default]
  /\ value = Null
  /\ observers = [x \in Observation |-> Null]
  /\ pc = [th \in Setter |-> "idle"]
  /\ change = [th \in Setter |-> <<Null, Null>>]
  /\ asked = [th \in Setter |-> {}]
  /\ chosen = [th \in Setter |-> {}]
  /\ todo = [th \in Setter |-> {}]
  /\ at = [th \in Setter |-> Null]
  /\ held = [th \in Setter |-> NothingHeld]
  /\ dangling = [th \in Setter |-> {}]
  /\ since = [x \in Observation |-> Null]
  /\ seen = [th \in Setter |-> Null]
  /\ writes = 0
  /\ sets = 0
  /\ fault = "none"

Fail(what) ==
  /\ fault' = what
  /\ UNCHANGED <<attrVars, valueVars, reportVars, localVars, dangling>>

(* Requests are handled on one thread, which may be setting the value. *)
HandlerFree == "mqtt" \in Setter => pc["mqtt"] = "idle"

-----------------------------------------------------------------------------
(* get_default_pmin(), get_default_pmax(): the cell, Null if it is empty.  *)
get_default(s, a) == IF defaults[s][a] # Null THEN <<s, "default", a>> ELSE Null

(* Mutant of get_object: the default is looked for with every lookup. *)
get_objectFull(s, a, lookup) ==
  IF attrs[s]["object"]["pmax"] # Null THEN <<s, "object", "pmax">> ELSE get_default(s, a)

(* get_object_pmin() and get_object_pmax(): the first looks at pmax, too. *)
get_object(s, a, lookup) ==
  IF attrs[s]["object"]["pmax"] # Null THEN <<s, "object", "pmax">>
  ELSE IF lookup = 2 THEN get_default(s, a) ELSE Null

get_instance(s, a, lookup) ==
  IF attrs[s]["instance"][a] # Null THEN <<s, "instance", a>>
  ELSE IF lookup # 0 THEN get_object(s, a, lookup) ELSE Null

get_resource(s, a, lookup) ==
  IF attrs[s]["resource"][a] # Null THEN <<s, "resource", a>>
  ELSE IF lookup # 0 THEN get_instance(s, a, lookup) ELSE Null

get(s, level, a, lookup) ==
  CASE level = "resource" -> get_resource(s, a, lookup)
    [] level = "instance" -> get_instance(s, a, lookup)
    [] level = "object"   -> get_object(s, a, lookup)

LOOKUP_FULL == 2

Contents(c) ==
  IF c = Null THEN Null
  ELSE IF c[2] = "default" THEN defaults[c[1]][c[3]] ELSE attrs[c[1]][c[2]][c[3]]

-----------------------------------------------------------------------------
Given(p) == {a \in DOMAIN p : p[a] # Null}

(* __merge_attributes() *)
Merge(old, p) == [a \in DOMAIN old |-> IF a \in Given(p) THEN p[a] ELSE old[a]]

(* Mutant of Freed: each old value is freed if there is one. *)
FreedEach(old, p) == Given(p) \cap Given(old)

(* An old value is freed if dim was written, now or before. *)
Freed(old, p) == IF Merge(old, p)["dim"] = Null THEN {} ELSE Given(p) \cap Given(old)

Dangle(cells) == [th \in Setter |-> dangling[th] \cup (cells \cap DOMAIN held[th])]

(* on_resource_write_attributes() and its likes, of the server's own entry *)
WriteAttributes(s, level, p) ==
  /\ HandlerFree
  /\ writes < MaxWrites
  /\ attrs' = [attrs EXCEPT ![s][level] = Merge(@, p)]
  /\ written' = [written EXCEPT ![s][level] = [a \in Attr |-> IF p[a] # Null THEN p[a] ELSE @[a]]]
  /\ writes' = writes + 1
  /\ dangling' = Dangle({<<s, level, a>> : a \in Freed(attrs[s][level], p)})
  /\ UNCHANGED <<defaults, valueVars, reportVars, localVars, fault>>

(* A WRITE to the Server object frees what it replaces (merge_resource()). *)
WriteDefault(s, d) ==
  /\ HandlerFree
  /\ writes < MaxWrites
  /\ Given(d) # {}
  /\ defaults' = [defaults EXCEPT ![s] = Merge(@, d)]
  /\ writes' = writes + 1
  /\ dangling' = Dangle({<<s, "default", a>> : a \in Given(d) \cap Given(defaults[s])})
  /\ UNCHANGED <<attrs, written, valueVars, reportVars, localVars, fault>>

(* Mutant of Observe: no pmax is taken for a period. *)
ObserveAnyway(x) ==
  /\ HandlerFree
  /\ x \in Observable
  /\ observers[x] = Null
  /\ observers' = [observers EXCEPT ![x] =
       [period |-> Contents(get(x[1], x[2], "pmax", LOOKUP_FULL)), age |-> 0, told |-> FALSE]]
  /\ UNCHANGED <<attrVars, valueVars, since, localVars, dangling, fault>>

(* on_resource_observe() and its likes: the period is what pmax is now, and *)
(* there must be one.                                                      *)
Observe(x) ==
  /\ HandlerFree
  /\ x \in Observable
  /\ observers[x] = Null
  /\ LET pmax == get(x[1], x[2], "pmax", LOOKUP_FULL)
     IN  IF pmax = Null THEN Fail("period")
         ELSE /\ observers' = [observers EXCEPT ![x] =
                                 [period |-> Contents(pmax), age |-> 0, told |-> FALSE]]
              /\ UNCHANGED <<attrVars, valueVars, since, localVars, dangling, fault>>

-----------------------------------------------------------------------------
(* set_value() by the application, or a WRITE: should_notify() begins.     *)
Begin(th, v) ==
  /\ pc[th] = "idle"
  /\ sets < MaxSets
  /\ sets' = sets + 1
  /\ value' = v
  /\ change' = [change EXCEPT ![th] = <<value, v>>]
  /\ asked' = [asked EXCEPT ![th] = Server]
  /\ pc' = [pc EXCEPT ![th] = "choosing"]
  /\ UNCHANGED <<attrVars, reportVars, chosen, todo, at, held, seen, dangling, fault>>

(* One server after the other, here by id: a value that comes or goes is   *)
(* for everybody; else the server's conditions are looked up ...           *)
LookUp(th, s) ==
  /\ pc[th] = "choosing"
  /\ s \in asked[th] /\ \A t \in asked[th] : s <= t
  /\ asked' = [asked EXCEPT ![th] = @ \ {s}]
  /\ IF (change[th][1] = Null) # (change[th][2] = Null)
     THEN /\ chosen' = [chosen EXCEPT ![th] = @ \cup {s}]
          /\ UNCHANGED <<pc, at, held>>
     ELSE /\ held' = [held EXCEPT ![th] =
                        [c \in {s} \X {"resource"} \X Condition |-> Contents(c)]]
          /\ at' = [at EXCEPT ![th] = <<s, "resource">>]
          /\ pc' = [pc EXCEPT ![th] = "comparing"]
          /\ UNCHANGED chosen
  /\ UNCHANGED <<attrVars, valueVars, reportVars, change, todo, seen, dangling, fault>>

Distance(m, n) == IF m < n THEN n - m ELSE m - n

(* __fulfill_GT(), __fulfill_LT(), __fulfill_STP() *)
Fulfils(cell, bound, old, new) ==
  CASE cell[3] = "gt"  -> bound < new
    [] cell[3] = "lt"  -> bound > new
    [] cell[3] = "stp" -> bound < Distance(old, new)

LetGo(th) ==
  /\ held' = [held EXCEPT ![th] = NothingHeld]
  /\ dangling' = [dangling EXCEPT ![th] = {}]

(* ... and then the values compared with what they point to: those that    *)
(* are there.                                                              *)
Compare(th) ==
  /\ pc[th] = "comparing"
  /\ IF dangling[th] # {} THEN Fail("freed")
     ELSE IF change[th] = <<Null, Null>> /\ Given(held[th]) # {} THEN Fail("null")
     ELSE /\ IF \A c \in Given(held[th]) : Fulfils(c, held[th][c], change[th][1], change[th][2])
             THEN chosen' = [chosen EXCEPT ![th] = @ \cup {at[th][1]}]
             ELSE UNCHANGED chosen
          /\ pc' = [pc EXCEPT ![th] = "choosing"]
          /\ LetGo(th)
          /\ UNCHANGED <<attrVars, valueVars, reportVars, change, asked, todo, at, seen, fault>>

(* The servers are known.  There is no order among the three levels here,  *)
(* the code has one.                                                       *)
Chosen(th) ==
  /\ pc[th] = "choosing"
  /\ asked[th] = {}
  /\ pc' = [pc EXCEPT ![th] = "notifying"]
  /\ todo' = [todo EXCEPT ![th] = {x \in chosen[th] \X Level : observers[x] # Null}]
  /\ chosen' = [chosen EXCEPT ![th] = {}]
  /\ UNCHANGED <<attrVars, valueVars, reportVars, change, asked, at, held, seen, dangling, fault>>

(* pmin is looked up ... *)
LookUpPmin(th, x) ==
  /\ pc[th] = "notifying"
  /\ x \in todo[th]
  /\ LET pmin == get(x[1], x[2], "pmin", LOOKUP_FULL)
     IN  held' = [held EXCEPT ![th] = [c \in {pmin} \ {Null} |-> Contents(c)]]
  /\ todo' = [todo EXCEPT ![th] = @ \ {x}]
  /\ at' = [at EXCEPT ![th] = x]
  /\ pc' = [pc EXCEPT ![th] = "checking"]
  /\ UNCHANGED <<attrVars, valueVars, reportVars, change, asked, chosen, seen, dangling, fault>>

(* ... and followed (__fulfill_PMIN()) ... *)
LongAgo(th) ==
  \A c \in DOMAIN held[th] : ~observers[at[th]].told \/ held[th][c] < observers[at[th]].age

Check(th) ==
  /\ pc[th] = "checking"
  /\ IF dangling[th] # {} THEN Fail("freed")
     ELSE /\ IF LongAgo(th)
             THEN /\ pc' = [pc EXCEPT ![th] = "executing"]
                  /\ seen' = [seen EXCEPT ![th] = since[at[th]]]
                  /\ UNCHANGED <<held, dangling>>
             ELSE /\ pc' = [pc EXCEPT ![th] = "notifying"]
                  /\ LetGo(th)
                  /\ UNCHANGED seen
          /\ UNCHANGED <<attrVars, valueVars, reportVars, change, asked, chosen, todo, at, fault>>

(* Mutant of Notified: last_waking_time is set at the first time only. *)
NotifiedFirst(x) ==
  /\ observers' = [observers EXCEPT ![x].told = TRUE,
                                    ![x].age = IF observers[x].told THEN @ ELSE 0]
  /\ since' = [since EXCEPT ![x] = 0]

Notified(x) ==
  /\ observers' = [observers EXCEPT ![x].age = 0, ![x].told = TRUE]
  /\ since' = [since EXCEPT ![x] = 0]

(* ... and the task executed, if that is long ago enough. *)
Execute(th) ==
  /\ pc[th] = "executing"
  /\ Notified(at[th])
  /\ pc' = [pc EXCEPT ![th] = "notifying"]
  /\ seen' = [seen EXCEPT ![th] = Null]
  /\ LetGo(th)
  /\ UNCHANGED <<attrVars, valueVars, change, asked, chosen, todo, at, fault>>

Return(th) ==
  /\ pc[th] = "notifying"
  /\ todo[th] = {}
  /\ pc' = [pc EXCEPT ![th] = "idle"]
  /\ change' = [change EXCEPT ![th] = <<Null, Null>>]
  /\ at' = [at EXCEPT ![th] = Null]
  /\ UNCHANGED <<attrVars, valueVars, reportVars, asked, chosen, todo, held, seen, dangling, fault>>

-----------------------------------------------------------------------------
(* The scheduler's thread runs a task that is due. *)
Fire(x) ==
  /\ observers[x] # Null
  /\ observers[x].age >= observers[x].period
  /\ Notified(x)
  /\ UNCHANGED <<attrVars, valueVars, localVars, dangling, fault>>

Older(age) == IF age < MaxAge THEN age + 1 ELSE age

(* A second passes. *)
Tick ==
  /\ \E x \in Observation : observers[x] # Null /\ observers[x].age < MaxAge
  /\ observers' = [x \in Observation |->
        IF observers[x] = Null THEN Null ELSE [observers[x] EXCEPT !.age = Older(@)]]
  /\ since' = [x \in Observation |-> IF since[x] = Null THEN Null ELSE Older(since[x])]
  /\ UNCHANGED <<attrVars, valueVars, localVars, dangling, fault>>

Next ==
  /\ fault = "none"
  /\ \/ \E s \in Server, level \in Level, p \in Payload : WriteAttributes(s, level, p)
     \/ \E s \in Server, d \in Default : WriteDefault(s, d)
     \/ \E x \in Observation : Observe(x) \/ Fire(x)
     \/ \E th \in Setter :
          \/ \E v \in Value \cup {Null} : Begin(th, v)
          \/ \E s \in Server : LookUp(th, s)
          \/ \E x \in Observation : LookUpPmin(th, x)
          \/ Compare(th) \/ Chosen(th) \/ Check(th) \/ Execute(th) \/ Return(th)
     \/ Tick

Spec == Init /\ [][Next]_vars

-----------------------------------------------------------------------------
(* "for resource look for first of: [resource->instance->object->default]" *)
(* and so on (lwm2m_attribute.h:34-47), of what the server itself wrote.   *)
Ladder == [resource |-> <<"resource", "instance", "object">>,
           instance |-> <<"instance", "object">>,
           object   |-> <<"object">>]

Rungs(level, lookup) == IF lookup = 0 THEN 1..1 ELSE DOMAIN Ladder[level]

(* x is what the server wrote on the first rung that has something, or the *)
(* default.                                                                *)
Documented(x, s, level, a, lookup) ==
  LET said(n) == written[s][Ladder[level][n]][a]
  IN  \/ \E n \in Rungs(level, lookup) :
           said(n) # Null /\ x = said(n) /\ \A m \in 1..(n - 1) : said(m) = Null
      \/ /\ \A n \in Rungs(level, lookup) : said(n) = Null
         /\ x = IF lookup = 2 THEN defaults[s][a] ELSE Null

(* Every lookup finds what the header documents, whatever the servers have *)
(* written in whatever order, at every level: a server sees its own        *)
(* attributes only, and a later WRITE ATTRIBUTES leaves standing what it   *)
(* does not mention.  Except that pmin is not looked for at the object.    *)
LookupsAsDocumented ==
  \A s \in Server, level \in Level, lookup \in 0..2 :
    /\ Documented(Contents(get(s, level, "pmax", lookup)), s, level, "pmax", lookup)
    /\ \/ Documented(Contents(get(s, level, "pmin", lookup)), s, level, "pmin", lookup)
       \/ /\ written[s]["object"]["pmin"] # Null \/ written[s]["object"]["pmax"] # Null
          /\ \A n \in Rungs(level, lookup) :
               Ladder[level][n] # "object" => written[s][Ladder[level][n]]["pmin"] = Null

(* What can go wrong: OBSERVE while no pmax is to be found; a null value   *)
(* set where there is none, on a resource some server has conditions for;  *)
(* and an attribute freed while a setter has a pointer to it, though only  *)
(* a default of the Server object, or one at a level for which the server  *)
(* has also written dim.                                                   *)
FaultsAsKnown ==
  /\ fault = "period" =>
       \E x \in Observation : observers[x] = Null /\ Documented(Null, x[1], x[2], "pmax", 2)
  /\ fault = "null" =>
       \E th \in Setter : /\ pc[th] = "comparing" /\ change[th] = <<Null, Null>>
                          /\ \E a \in Condition : written[at[th][1]]["resource"][a] # Null
  /\ fault = "freed" => \E th \in Setter : dangling[th] # {}
  /\ \A th \in Setter : \A c \in dangling[th] :
       c[2] = "default" \/ written[c[1]][c[2]]["dim"] # Null

(* A new value is notified to a server only when more than pmin seconds    *)
(* have passed since the last notification of the same observation, except *)
(* that another thread's may have come in between: after pmin was found to *)
(* have passed, and before the task was executed.                          *)
NotTooOften ==
  [][\A th \in Setter :
       pc[th] = "executing" /\ pc'[th] = "notifying" =>
         LET last == since[at[th]]
         IN  \/ last = Null
             \/ seen[th] = Null \/ last < seen[th]
             \/ \A c \in DOMAIN held[th] : held[th][c] < last]_vars
=============================================================================
