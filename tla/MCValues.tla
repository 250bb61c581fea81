------------------------------- MODULE MCValues -------------------------------
(***************************************************************************)
(* An instance of Values for TLC: of each type, values on both sides of    *)
(* every boundary of the encoding.                                         *)
(***************************************************************************)
EXTENDS Values

Text(n) == [k \in 1..n |-> 97]

Zero == [k \in 1..8 |-> 0]
One == <<0, 0, 0, 0, 0, 0, 240, 63>>
TenthOfMillionth == <<72, 175, 188, 154, 242, 215, 122, 62>>   \* 0.0000001

MCSample ==
  [t \in Types |->
     CASE t = "INTEGER" -> {254, 255, 257, 16777214, 16843009, -1}
       [] t = "BOOLEAN" -> BOOLEAN
       [] t = "DOUBLE"  -> {Zero, One, TenthOfMillionth}
       [] t = "STRING"  -> {Text(n) : n \in {4, 31, 124, 128, 255, 256}}
       [] t = "LINK"    -> {<<0, 0>>, <<3, 0>>, <<256, 1>>, <<2, 2>>}]

(* The bytes of 1.0 from the other end are next to nothing, those of       *)
(* 0.0000001 a number of some forty digits, all of which "%f" prints.      *)
MCRounded ==
  [v \in {Zero, One, Reverse(One), TenthOfMillionth, Reverse(TenthOfMillionth)} |->
     IF v \in {TenthOfMillionth, Reverse(One)} THEN Zero ELSE v]

MCEntrySample ==
  {[i \in {0, 1} |-> 1], [i \in {127, 128} |-> 15], [i \in {256, 300} |-> 15],
   [i \in {255} |-> 1], [i \in {1} |-> 257], [i \in {1} |-> 255], <<>>}
=============================================================================
