----------------------------- MODULE MCLinkedList -----------------------------
(***************************************************************************)
(* Instances of LinkedList for TLC.  Addresses and values are compared for *)
(* equality only.                                                          *)
(***************************************************************************)
EXTENDS LinkedList, TLC

MCSymmetry == Permutations(Addr) \cup Permutations(Value)
=============================================================================
