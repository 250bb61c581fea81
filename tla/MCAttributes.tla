----------------------------- MODULE MCAttributes -----------------------------
(***************************************************************************)
(* Instances of Attributes for TLC.                                        *)
(***************************************************************************)
EXTENDS Attributes, TLC

(* Two kinds of pmax, so that the levels can be told apart. *)
MCPayload ==
  {("pmax" :> 2) @@ Empty,
   ("dim" :> 1) @@ ("pmin" :> 1) @@ ("pmax" :> 3) @@ Empty,
   ("gt" :> 1) @@ ("stp" :> 0) @@ Empty}

MCDefault == {[pmin |-> Null, pmax |-> Null], [pmin |-> 1, pmax |-> 2]}

MCObservable == {<<1, "resource">>}
=============================================================================
