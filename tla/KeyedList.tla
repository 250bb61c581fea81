------------------------------- MODULE KeyedList -------------------------------
(***************************************************************************)
(* What src/list.c promises to those who call ladd() and lremove(): each   *)
(* is one step on a list as Lists describes it.  LinkedList implements     *)
(* this with the elements, pointers and the semaphore of the code.         *)
(***************************************************************************)
EXTENDS Lists

CONSTANTS Key, Value

VARIABLE l

Init == l = NewList

Addition(key, value) == Usable(l) /\ l' = ladd(l, key, value)

Removal(key) == Usable(l) /\ l' = lremove(l, key)

Next == \E key \in Key : Removal(key) \/ \E value \in Value : Addition(key, value)

Spec == Init /\ [][Next]_l
=============================================================================
