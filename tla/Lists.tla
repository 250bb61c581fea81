-------------------------------- MODULE Lists --------------------------------
(***************************************************************************)
(* The keyed list of src/list.c, on which every table of the client is     *)
(* built (servers, update_tasks, the scheduler's tasks, the object tree,   *)
(* observers).  A list is the sequence of its elements from l->first on,   *)
(* l->greatest_key, and the value of the semaphore l->guard; l->size is    *)
(* Len(l.elems), because the code pairs every link with size++ and every   *)
(* unlink with size--.                                                     *)
(*                                                                         *)
(* Every function of list.c runs between sem_wait and sem_post on the      *)
(* guard, so each is one operator here.  A caller conjoins Usable(l): with *)
(* the guard at 0 it would block in sem_wait.                              *)
(***************************************************************************)
EXTENDS Integers, Sequences, SequencesExt

NewList == [elems |-> <<>>, greatest_key |-> -1, guard |-> 1]

ListOf(Key, Value) ==
  [elems : Seq([key : Key, value : Value]),
   greatest_key : Key \cup {-1},
   guard : {0, 1}]

Usable(l) == l.guard = 1

lsize(l) == Len(l.elems)

Keys(l) == {l.elems[i].key : i \in DOMAIN l.elems}

Values(l) == {l.elems[i].value : i \in DOMAIN l.elems}

lcontains(l, key) == key \in Keys(l)

(* New elements go to the front: a second element with the same key shadows *)
(* the first one.                                                           *)
ladd(l, key, value) ==
  [l EXCEPT !.elems = Cons([key |-> key, value |-> value], @),
            !.greatest_key = IF key > @ THEN key ELSE @]

(* The value of the first element with this key, NULL when there is none.  *)
lfind(l, key, null) ==
  LET i == SelectInSeq(l.elems, LAMBDA e : e.key = key)
  IN  IF i = 0 THEN null ELSE l.elems[i].value

GreatestKey(elems) ==
  CHOOSE k \in {-1} \cup {elems[i].key : i \in DOMAIN elems} :
    \A i \in DOMAIN elems : elems[i].key <= k

(* Mutant of lremove: the branch for the first element falls through to     *)
(* the sem_post at the end of the function.                                *)
lremovePostsTwice(l, key) ==
  LET rest == RemoveFirstMatch(l.elems, LAMBDA e : e.key = key)
  IN  [elems |-> rest,
       greatest_key |-> GreatestKey(rest),
       guard |-> IF l.elems # <<>> /\ l.elems[1].key = key THEN 2 ELSE 1]

(* Unlinks the first element with this key and rescans for the greatest    *)
(* key when the removed key was the greatest.  On an empty list the code   *)
(* returns after sem_wait without sem_post: the guard stays at 0.          *)
lremove(l, key) ==
  LET rest == RemoveFirstMatch(l.elems, LAMBDA e : e.key = key)
  IN  [elems |-> rest,
       greatest_key |-> IF key = l.greatest_key THEN GreatestKey(rest)
                                                ELSE l.greatest_key,
       guard |-> IF l.elems = <<>> THEN 0 ELSE 1]
=============================================================================
