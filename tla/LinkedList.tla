------------------------------ MODULE LinkedList ------------------------------
(***************************************************************************)
(* src/list.c with its elements in memory: who may be at which of them     *)
(* while another thread, inside the guard, adds and removes.  KeyedList is *)
(* what the guarded functions are to their callers.  Two things happen     *)
(* outside the guard: lfind() reads the value of what it has found after   *)
(* sem_post, and loops over l->first in many callers (context->servers in  *)
(* example.c, lwm2m_information_reporting.c, lwm2m_transport.c) take no    *)
(* guard at all.                                                           *)
(*                                                                         *)
(* malloc() returns any cell that is not in use, one just freed included.  *)
(***************************************************************************)
EXTENDS Integers, Sequences, FiniteSets, SequencesExt

CONSTANTS
  Addr,     \* where elements may be
  Key, Value,
  Thread,   \* the threads that use the list
  MaxCalls, \* bound: calls and loops
  Null

(* struct list_elem. *)
Element == [key : Key, value : Value \cup {Null}, next : Addr \cup {Null}]

(* Null is no address, no value and no element; memory is finite. *)
ASSUME LinkedListAssumption ==
  /\ IsFiniteSet(Addr)
  /\ Key \subseteq Nat /\ Key # {}
  /\ Null \notin Addr \cup Value \cup Element
  /\ MaxCalls \in Nat

VARIABLES
  mem,           \* the elements; Null where there is none
  first, size, greatest_key, guard,
  pc,            \* where each thread is
  at,            \* its pointer: elem, to_remove, next or curr
  arg,           \* the key it was called with
  answer,        \* what lfind() returned
  before,        \* history: the list as it was when the guard was taken
  found,         \* history: the value lfind() had in hand at its sem_post
  gone,          \* history: what a thread is at was removed since it got there
  there,         \* history: the elements there since its loop began
  visited,       \* history: those its loop has been at
  calls, fault

listVars == <<mem, first, size, greatest_key, guard>>
loopVars == <<there, visited>>
vars == <<listVars, pc, at, arg, answer, before, found, gone, loopVars, calls, fault>>

Inside == {"ladd", "lremove", "clear", "free"}
Reading == {"lfind", "loop", "step"}

(* What the variables may be. *)
TypeOK ==
  /\ mem \in [Addr -> Element \cup {Null}]
  /\ first \in Addr \cup {Null}
  /\ size \in Nat
  /\ greatest_key \in Key \cup {-1}
  /\ guard \in {0, 1}
  /\ pc \in [Thread -> {"idle"} \cup Inside \cup Reading]
  /\ at \in [Thread -> Addr \cup {Null}]
  /\ arg \in [Thread -> Key \cup {-1}]
  /\ answer \in [Thread -> Value \cup {Null}]
  /\ found \in [Thread -> Value \cup {Null}]
  /\ gone \in [Thread -> BOOLEAN]
  /\ there \in [Thread -> SUBSET Addr]
  /\ visited \in [Thread -> SUBSET Addr]
  /\ calls \in 0..MaxCalls
  /\ fault \in Thread \cup {Null}

-----------------------------------------------------------------------------
(* Where l->first leads in n steps. *)
Nth[n \in Nat] ==
  IF n = 0 THEN first
  ELSE IF Nth[n - 1] = Null \/ mem[Nth[n - 1]] = Null THEN Null
       ELSE mem[Nth[n - 1]].next

(* The addresses in the list ... *)
Linked == {Nth[n] : n \in 0..Cardinality(Addr) - 1} \ {Null}

(* ... in the order in which they lead to each other. *)
Chain == [i \in 1..Cardinality(Linked) |-> Nth[i - 1]]

(* The list as its callers see it; size is the number of elements. *)
Now ==
  LET chain == Chain
  IN  [elems |-> [i \in 1..size |-> [key |-> mem[chain[i]].key, value |-> mem[chain[i]].value]],
       greatest_key |-> greatest_key,
       guard |-> guard]

(* The first element with the key, Null if there is none. *)
Match(key) ==
  LET chain == Chain
      i == SelectInSeq(chain, LAMBDA a : mem[a].key = key)
  IN  IF i = 0 THEN Null ELSE chain[i]

Previous(a) == CHOOSE b \in Linked : mem[b].next = a

Init ==
  /\ mem = [a \in Addr |-> Null]
  /\ first = Null
  /\ size = 0
  /\ greatest_key = -1
  /\ guard = 1
  /\ pc = [th \in Thread |-> "idle"]
  /\ at = [th \in Thread |-> Null]
  /\ arg = [th \in Thread |-> -1]
  /\ answer = [th \in Thread |-> Null]
  /\ before = Now
  /\ found = [th \in Thread |-> Null]
  /\ gone = [th \in Thread |-> FALSE]
  /\ there = [th \in Thread |-> {}]
  /\ visited = [th \in Thread |-> {}]
  /\ calls = 0
  /\ fault = Null

Call(th) ==
  /\ pc[th] = "idle"
  /\ calls < MaxCalls
  /\ calls' = calls + 1

(* sem_wait() *)
Enter(th) ==
  /\ Call(th)
  /\ guard = 1
  /\ guard' = 0
  /\ before' = Now

Leave(th) ==
  /\ guard' = 1
  /\ pc' = [pc EXCEPT ![th] = "idle"]
  /\ at' = [at EXCEPT ![th] = Null]
  /\ arg' = [arg EXCEPT ![th] = -1]

-----------------------------------------------------------------------------
(* Mutant of Filled: it is not given its value. *)
FilledInPart(a, key, value) == [mem EXCEPT ![a] = [key |-> key, value |-> Null, next |-> first]]

(* Mutant of Filled: an element that has the key is given the new value.   *)
FilledOver(a, key, value) ==
  [b \in Addr |-> IF b = a THEN [key |-> key, value |-> value, next |-> first]
                 ELSE IF b = Match(key) THEN [mem[b] EXCEPT !.value = value] ELSE mem[b]]

Filled(a, key, value) == [mem EXCEPT ![a] = [key |-> key, value |-> value, next |-> first]]

(* ladd(): an element is filled in ... *)
Allocate(th, a, key, value) ==
  /\ Enter(th)
  /\ mem[a] = Null
  /\ mem' = Filled(a, key, value)
  /\ at' = [at EXCEPT ![th] = a]
  /\ arg' = [arg EXCEPT ![th] = key]
  /\ pc' = [pc EXCEPT ![th] = "ladd"]
  /\ UNCHANGED <<first, size, greatest_key, answer, found, gone, loopVars, fault>>

(* ... and put in front. *)
Link(th) ==
  /\ pc[th] = "ladd"
  /\ first' = at[th]
  /\ size' = size + 1
  /\ greatest_key' = IF arg[th] > greatest_key THEN arg[th] ELSE greatest_key
  /\ Leave(th)
  /\ UNCHANGED <<mem, answer, before, found, gone, loopVars, calls, fault>>

(* lremove(): of an empty list it returns without sem_post ... *)
RemoveNothing(th) ==
  /\ Enter(th)
  /\ first = Null
  /\ UNCHANGED <<mem, first, size, greatest_key, pc, at, arg, answer, found, gone, loopVars, fault>>

RemoveKey(th, key) ==
  /\ Enter(th)
  /\ first # Null
  /\ arg' = [arg EXCEPT ![th] = key]
  /\ pc' = [pc EXCEPT ![th] = "lremove"]
  /\ UNCHANGED <<mem, first, size, greatest_key, at, answer, found, gone, loopVars, fault>>

(* An element leaves the list: history only. *)
Depart(a) ==
  /\ gone' = [u \in Thread |-> gone[u] \/ (pc[u] \in Reading /\ at[u] = a)]
  /\ there' = [u \in Thread |-> there[u] \ {a}]
  /\ UNCHANGED visited

UnlinkFirst(th) ==
  /\ pc[th] = "lremove"
  /\ mem[first].key = arg[th]
  /\ first' = mem[first].next
  /\ at' = [at EXCEPT ![th] = first]
  /\ pc' = [pc EXCEPT ![th] = "free"]
  /\ Depart(first)
  /\ UNCHANGED <<mem, size, greatest_key, guard, arg, answer, before, found, calls, fault>>

(* ... and of one further down the value is cleared before it is freed.    *)
UnlinkNext(th) ==
  /\ pc[th] = "lremove"
  /\ mem[first].key # arg[th]
  /\ LET next == Match(arg[th])
     IN  /\ next # Null
         /\ mem' = [mem EXCEPT ![Previous(next)].next = mem[next].next]
         /\ at' = [at EXCEPT ![th] = next]
         /\ Depart(next)
  /\ pc' = [pc EXCEPT ![th] = "clear"]
  /\ UNCHANGED <<first, size, greatest_key, guard, arg, answer, before, found, calls, fault>>

(* Mutant of Cleared: the pointer to the next is cleared, too. *)
ClearedWhole(a) == [mem EXCEPT ![a].value = Null, ![a].next = Null]

Cleared(a) == [mem EXCEPT ![a].value = Null]

Clear(th) ==
  /\ pc[th] = "clear"
  /\ mem' = Cleared(at[th])
  /\ pc' = [pc EXCEPT ![th] = "free"]
  /\ UNCHANGED <<first, size, greatest_key, guard, at, arg, answer, before, found, gone,
                 loopVars, calls, fault>>

(* Mutant of Rescan: greatest_key is not set back before the scan. *)
RescanUp(key) == greatest_key

(* The scan for the greatest key that is left. *)
Rescan(key) ==
  LET keys == {mem[a].key : a \in Linked}
  IN  IF key # greatest_key THEN greatest_key
      ELSE CHOOSE k \in keys \cup {-1} : \A j \in keys : j <= k

Free(th) ==
  /\ pc[th] = "free"
  /\ mem' = [mem EXCEPT ![at[th]] = Null]
  /\ size' = size - 1
  /\ greatest_key' = Rescan(arg[th])
  /\ Leave(th)
  /\ UNCHANGED <<first, answer, before, found, gone, loopVars, calls, fault>>

(* There is no element with the key. *)
RemoveNone(th) ==
  /\ pc[th] = "lremove"
  /\ Match(arg[th]) = Null
  /\ greatest_key' = Rescan(arg[th])
  /\ Leave(th)
  /\ UNCHANGED <<mem, first, size, answer, before, found, gone, loopVars, calls, fault>>

-----------------------------------------------------------------------------
(* lfind() up to and with its sem_post. *)
Find(th, key) ==
  /\ Call(th)
  /\ guard = 1
  /\ LET a == Match(key)
     IN  IF a = Null THEN answer' = [answer EXCEPT ![th] = Null] /\ UNCHANGED <<pc, at, found>>
         ELSE /\ at' = [at EXCEPT ![th] = a]
              /\ found' = [found EXCEPT ![th] = mem[a].value]
              /\ pc' = [pc EXCEPT ![th] = "lfind"]
              /\ UNCHANGED answer
  /\ gone' = [gone EXCEPT ![th] = FALSE]
  /\ UNCHANGED <<listVars, arg, before, loopVars, fault>>

Fail(th) ==
  /\ fault' = th
  /\ UNCHANGED <<listVars, pc, at, arg, answer, before, found, gone, loopVars, calls>>

(* return curr->value *)
Return(th) ==
  /\ pc[th] = "lfind"
  /\ IF mem[at[th]] = Null THEN Fail(th)
     ELSE /\ answer' = [answer EXCEPT ![th] = mem[at[th]].value]
          /\ pc' = [pc EXCEPT ![th] = "idle"]
          /\ at' = [at EXCEPT ![th] = Null]
          /\ UNCHANGED <<listVars, arg, before, found, gone, loopVars, calls, fault>>

-----------------------------------------------------------------------------
(* for (elem = l->first; ... *)
Loop(th) ==
  /\ Call(th)
  /\ first # Null
  /\ at' = [at EXCEPT ![th] = first]
  /\ gone' = [gone EXCEPT ![th] = FALSE]
  /\ there' = [there EXCEPT ![th] = Linked]
  /\ visited' = [visited EXCEPT ![th] = {}]
  /\ pc' = [pc EXCEPT ![th] = "loop"]
  /\ UNCHANGED <<listVars, arg, answer, before, found, fault>>

(* ... the body, which does something with elem->value ... *)
Body(th) ==
  /\ pc[th] = "loop"
  /\ IF mem[at[th]] = Null \/ mem[at[th]].value = Null THEN Fail(th)
     ELSE /\ visited' = [visited EXCEPT ![th] = @ \cup {at[th]}]
          /\ pc' = [pc EXCEPT ![th] = "step"]
          /\ UNCHANGED <<listVars, at, arg, answer, before, found, gone, there, calls, fault>>

(* ... elem = elem->next) *)
Step(th) ==
  /\ pc[th] = "step"
  /\ IF mem[at[th]] = Null THEN Fail(th)
     ELSE LET next == mem[at[th]].next
          IN  /\ at' = [at EXCEPT ![th] = next]
              /\ gone' = [gone EXCEPT ![th] = next # Null /\ next \notin Linked]
              /\ pc' = [pc EXCEPT ![th] = IF next = Null THEN "idle" ELSE "loop"]
              /\ UNCHANGED <<listVars, arg, answer, before, found, loopVars, calls, fault>>

Next ==
  /\ fault = Null
  /\ \E th \in Thread :
       \/ \E a \in Addr, key \in Key, value \in Value : Allocate(th, a, key, value)
       \/ \E key \in Key : RemoveKey(th, key) \/ Find(th, key)
       \/ RemoveNothing(th) \/ Link(th)
       \/ UnlinkFirst(th) \/ UnlinkNext(th) \/ RemoveNone(th) \/ Clear(th) \/ Free(th)
       \/ Return(th)
       \/ Loop(th) \/ Body(th) \/ Step(th)

Spec == Init /\ [][Next]_vars

-----------------------------------------------------------------------------
(* While a thread is inside, its callers have seen nothing of it yet. *)
InTheGuard == \E th \in Thread : pc[th] \in Inside

list == IF InTheGuard THEN before ELSE Now

Abstract == INSTANCE KeyedList WITH l <- list

(* Adding and removing at the pointers is adding and removing as Lists     *)
(* describes it, whatever is added and removed in whatever order: the      *)
(* elements, their order, size, greatest_key and the guard that stays      *)
(* taken after lremove() on an empty list.                                 *)
ImplementsKeyedList == Abstract!Spec

(* A thread outside the guard comes upon freed memory or a cleared value   *)
(* only at an element that was removed while it was there.  So a loop      *)
(* without the guard is safe while nobody removes.                         *)
FaultsAsKnown == fault # Null => gone[fault]

(* A loop that gets to its end has been at every element that was in the   *)
(* list all the while, whatever was added, removed and put into the same   *)
(* memory again on the way.                                                *)
LoopsSeeAll ==
  [][\A th \in Thread :
       pc[th] = "step" /\ pc'[th] = "idle" => there[th] \subseteq visited[th]]_vars

(* lfind() returns what the list held under the key while it had the guard,*)
(* unless the element is removed before the value is read: it may be NULL  *)
(* then, or the value of another key that was put into the same memory.    *)
FindsWhatWasThere ==
  [][\A th \in Thread :
       pc[th] = "lfind" /\ pc'[th] = "idle" => answer'[th] = found[th] \/ gone[th]]_vars
=============================================================================
