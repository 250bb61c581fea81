---------------------------- MODULE Resource_proofs ----------------------------
(***************************************************************************)
(* Proofs about a resource: about Attributes, for any servers, setters,    *)
(* payloads and defaults, and about Values, for any instances, values and  *)
(* entries.                                                                *)
(*                                                                         *)
(* Attributes.  What the lookups find is what lwm2m_attribute.h documents, *)
(* and nothing goes wrong but what FaultsAsKnown names.  The attributes    *)
(* are at all times what the servers wrote (Kept), which is all the        *)
(* lookups depend on.  A cell that dangles was freed by a merge that found *)
(* dim written, and dim is never unwritten.                                *)
(*                                                                         *)
(* Values.  What the server holds is what the client wrote (ValuesInv), so *)
(* what the client reads of it depends on the value alone.  The bytes of a *)
(* value are read as that value if it is portable (EncodedBack), an        *)
(* element is found where it was put if its length comes back, and ends    *)
(* early if not (ElementParsed), and so are all the elements of a message, *)
(* one after the other (Framing).  Numbers of bytes and of elements have   *)
(* no bound: the proofs take the first that would differ (LeastNatural).   *)
(***************************************************************************)
EXTENDS Values, Attributes, Lists_proofs, FiniteSetTheorems

AttrsOK ==
  /\ attrs \in [Server -> [Level -> Attrs]]
  /\ defaults \in [Server -> Defaults]

Kept == AttrsOK /\ written = attrs

-----------------------------------------------------------------------------
(* Cells are no null pointers, and what is in them is there. *)
LEMMA CellsAreNot ==
  ASSUME AttributesAssumption, NEW s \in Server
  PROVE  /\ \A l \in Level, a \in Attr : <<s, l, a>> \in Cell /\ <<s, l, a>> # Null
         /\ \A a \in Period : <<s, "default", a>> \in Cell /\ <<s, "default", a>> # Null
<1>1. \A l \in Level, a \in Attr : <<s, l, a>> \in Cell
  BY DEF Cell
<1>2. \A a \in Period : <<s, "default", a>> \in Cell
  BY DEF Cell
<1> QED BY <1>1, <1>2 DEF AttributesAssumption

(* What get_object() finds of either attribute. *)
LEMMA ObjectLookup ==
  ASSUME AttributesAssumption, Kept, NEW s \in Server, NEW a \in Period, NEW k \in 0..2
  PROVE  Contents(get_object(s, a, k)) =
           IF attrs[s]["object"]["pmax"] # Null THEN attrs[s]["object"]["pmax"]
           ELSE IF k = 2 THEN defaults[s][a] ELSE Null
<1>1. <<s, "object", "pmax">> # Null /\ <<s, "default", a>> # Null
  BY CellsAreNot DEF Level, Attr
<1> QED BY <1>1 DEF get_object, get_default, Contents

LEMMA InstanceLookup ==
  ASSUME AttributesAssumption, Kept, NEW s \in Server, NEW a \in Period, NEW k \in 0..2
  PROVE  Contents(get_instance(s, a, k)) =
           IF attrs[s]["instance"][a] # Null THEN attrs[s]["instance"][a]
           ELSE IF k # 0 THEN Contents(get_object(s, a, k)) ELSE Null
<1>1. <<s, "instance", a>> # Null
  BY CellsAreNot DEF Level, Attr, Period
<1> QED BY <1>1 DEF get_instance, Contents

LEMMA ResourceLookup ==
  ASSUME AttributesAssumption, Kept, NEW s \in Server, NEW a \in Period, NEW k \in 0..2
  PROVE  Contents(get_resource(s, a, k)) =
           IF attrs[s]["resource"][a] # Null THEN attrs[s]["resource"][a]
           ELSE IF k # 0 THEN Contents(get_instance(s, a, k)) ELSE Null
<1>1. <<s, "resource", a>> # Null
  BY CellsAreNot DEF Level, Attr, Period
<1> QED BY <1>1 DEF get_resource, Contents

-----------------------------------------------------------------------------
(* What the header documents, without the ladder: for every level, what a  *)
(* server wrote there, and else what is documented for the level above.    *)
AtObject(s, a, k) ==
  IF written[s]["object"][a] # Null THEN written[s]["object"][a]
  ELSE IF k = 2 THEN defaults[s][a] ELSE Null

AtInstance(s, a, k) ==
  IF written[s]["instance"][a] # Null THEN written[s]["instance"][a]
  ELSE IF k # 0 THEN AtObject(s, a, k) ELSE Null

AtResource(s, a, k) ==
  IF written[s]["resource"][a] # Null THEN written[s]["resource"][a]
  ELSE IF k # 0 THEN AtInstance(s, a, k) ELSE Null

LEMMA ObjectDocumented ==
  ASSUME NEW s, NEW a, NEW k \in 0..2
  PROVE  Documented(AtObject(s, a, k), s, "object", a, k)
<1> DEFINE said(n) == written[s][Ladder["object"][n]][a]
<1>1. Rungs("object", k) = {1} /\ said(1) = written[s]["object"][a]
  BY DEF Rungs, Ladder
<1>2. CASE said(1) # Null
  BY <1>1, <1>2 DEF Documented, AtObject
<1>3. CASE said(1) = Null
  BY <1>1, <1>3 DEF Documented, AtObject
<1> QED BY <1>2, <1>3

LEMMA InstanceDocumented ==
  ASSUME NEW s, NEW a, NEW k \in 0..2
  PROVE  Documented(AtInstance(s, a, k), s, "instance", a, k)
<1> DEFINE said(n) == written[s][Ladder["instance"][n]][a]
<1>1. /\ said(1) = written[s]["instance"][a]
      /\ said(2) = written[s]["object"][a]
  BY DEF Ladder
<1>2. Rungs("instance", k) = IF k = 0 THEN {1} ELSE {1, 2}
  BY DEF Rungs, Ladder
<1>3. CASE said(1) # Null
  BY <1>1, <1>2, <1>3 DEF Documented, AtInstance
<1>4. CASE said(1) = Null /\ k = 0
  BY <1>1, <1>2, <1>4 DEF Documented, AtInstance
<1>5. CASE said(1) = Null /\ k # 0 /\ said(2) # Null
  BY <1>1, <1>2, <1>5 DEF Documented, AtInstance, AtObject
<1>6. CASE said(1) = Null /\ k # 0 /\ said(2) = Null
  BY <1>1, <1>2, <1>6 DEF Documented, AtInstance, AtObject
<1> QED BY <1>3, <1>4, <1>5, <1>6

LEMMA ResourceDocumented ==
  ASSUME NEW s, NEW a, NEW k \in 0..2
  PROVE  Documented(AtResource(s, a, k), s, "resource", a, k)
<1> DEFINE said(n) == written[s][Ladder["resource"][n]][a]
<1>1. /\ said(1) = written[s]["resource"][a]
      /\ said(2) = written[s]["instance"][a]
      /\ said(3) = written[s]["object"][a]
  BY DEF Ladder
<1>2. Rungs("resource", k) = IF k = 0 THEN {1} ELSE {1, 2, 3}
  BY DEF Rungs, Ladder
<1>3. CASE said(1) # Null
  BY <1>1, <1>2, <1>3 DEF Documented, AtResource
<1>4. CASE said(1) = Null /\ k = 0
  BY <1>1, <1>2, <1>4 DEF Documented, AtResource
<1>5. CASE said(1) = Null /\ k # 0 /\ said(2) # Null
  BY <1>1, <1>2, <1>5 DEF Documented, AtResource, AtInstance
<1>6. CASE said(1) = Null /\ k # 0 /\ said(2) = Null /\ said(3) # Null
  BY <1>1, <1>2, <1>6 DEF Documented, AtResource, AtInstance, AtObject
<1>7. CASE said(1) = Null /\ k # 0 /\ said(2) = Null /\ said(3) = Null
  BY <1>1, <1>2, <1>7 DEF Documented, AtResource, AtInstance, AtObject
<1> QED BY <1>3, <1>4, <1>5, <1>6, <1>7

-----------------------------------------------------------------------------
(* A lookup of pmax finds what is documented, at each level. *)
LEMMA PmaxDocumented ==
  ASSUME AttributesAssumption, Kept, NEW s \in Server, NEW level \in Level, NEW k \in 0..2
  PROVE  Documented(Contents(get(s, level, "pmax", k)), s, level, "pmax", k)
<1>0. "pmax" \in Period
  BY DEF Period
<1>1. Contents(get_object(s, "pmax", k)) = AtObject(s, "pmax", k)
  BY <1>0, ObjectLookup DEF AtObject, Kept
<1>2. Contents(get_instance(s, "pmax", k)) = AtInstance(s, "pmax", k)
  BY <1>0, <1>1, InstanceLookup DEF AtInstance, Kept
<1>3. Contents(get_resource(s, "pmax", k)) = AtResource(s, "pmax", k)
  BY <1>0, <1>2, ResourceLookup DEF AtResource, Kept
<1>4. CASE level = "resource"
  BY <1>3, <1>4, ResourceDocumented DEF get
<1>5. CASE level = "instance"
  BY <1>2, <1>5, InstanceDocumented DEF get
<1>6. CASE level = "object"
  BY <1>1, <1>6, ObjectDocumented DEF get
<1> QED BY <1>4, <1>5, <1>6 DEF Level

(* And one of pmin, unless it gets to an object that has either of them. *)
LEMMA PminDocumented ==
  ASSUME AttributesAssumption, Kept, NEW s \in Server, NEW level \in Level, NEW k \in 0..2
  PROVE  \/ Documented(Contents(get(s, level, "pmin", k)), s, level, "pmin", k)
         \/ /\ written[s]["object"]["pmin"] # Null \/ written[s]["object"]["pmax"] # Null
            /\ \A n \in Rungs(level, k) :
                 Ladder[level][n] # "object" => written[s][Ladder[level][n]]["pmin"] = Null
<1>0. "pmin" \in Period
  BY DEF Period
<1> DEFINE AtNeither == /\ written[s]["object"]["pmin"] = Null
                        /\ written[s]["object"]["pmax"] = Null
<1>1. AtNeither => Contents(get_object(s, "pmin", k)) = AtObject(s, "pmin", k)
  BY <1>0, ObjectLookup DEF AtObject, Kept
<1>2. AtNeither \/ written[s]["instance"]["pmin"] # Null \/ k = 0
        => Contents(get_instance(s, "pmin", k)) = AtInstance(s, "pmin", k)
  BY <1>0, <1>1, InstanceLookup DEF AtInstance, Kept
<1>3. (\/ AtNeither
       \/ written[s]["resource"]["pmin"] # Null
       \/ written[s]["instance"]["pmin"] # Null
       \/ k = 0)
        => Contents(get_resource(s, "pmin", k)) = AtResource(s, "pmin", k)
  BY <1>0, <1>2, ResourceLookup DEF AtResource, Kept
<1>4. CASE level = "resource"
  <2>1. Ladder[level] = <<"resource", "instance", "object">>
    BY <1>4 DEF Ladder
  <2>2. Rungs(level, k) \subseteq {1, 2, 3}
    BY <1>4 DEF Rungs, Ladder
  <2>3. CASE Contents(get_resource(s, "pmin", k)) = AtResource(s, "pmin", k)
    BY <1>4, <2>3, ResourceDocumented DEF get
  <2>4. CASE Contents(get_resource(s, "pmin", k)) # AtResource(s, "pmin", k)
    <3>1. /\ ~AtNeither
          /\ written[s]["resource"]["pmin"] = Null
          /\ written[s]["instance"]["pmin"] = Null
      BY <1>3, <2>4
    <3>2. ASSUME NEW n \in Rungs(level, k), Ladder[level][n] # "object"
          PROVE  written[s][Ladder[level][n]]["pmin"] = Null
      BY <2>1, <2>2, <3>1, <3>2
    <3> QED BY <3>1, <3>2
  <2> QED BY <2>3, <2>4
<1>5. CASE level = "instance"
  <2>1. Ladder[level] = <<"instance", "object">>
    BY <1>5 DEF Ladder
  <2>2. Rungs(level, k) \subseteq {1, 2}
    BY <1>5 DEF Rungs, Ladder
  <2>3. CASE Contents(get_instance(s, "pmin", k)) = AtInstance(s, "pmin", k)
    BY <1>5, <2>3, InstanceDocumented DEF get
  <2> QED BY <1>2, <2>1, <2>2, <2>3
<1>6. CASE level = "object"
  <2>1. Ladder[level] = <<"object">>
    BY <1>6 DEF Ladder
  <2>2. Rungs(level, k) = {1}
    BY <1>6 DEF Rungs, Ladder
  <2>3. CASE AtNeither
    BY <1>1, <1>6, <2>3, ObjectDocumented DEF get
  <2> QED BY <2>1, <2>2, <2>3
<1> QED BY <1>4, <1>5, <1>6 DEF Level

LEMMA KeptLookups ==
  ASSUME AttributesAssumption, Kept
  PROVE  LookupsAsDocumented
BY PmaxDocumented, PminDocumented DEF LookupsAsDocumented

-----------------------------------------------------------------------------
(* What one server writes at one level, merged with what it wrote there. *)
LEMMA MergeWrites ==
  ASSUME AttributesAssumption, Kept, NEW s \in Server, NEW level \in Level, NEW p \in Payload
  PROVE  /\ Merge(attrs[s][level], p) =
              [a \in Attr |-> IF p[a] # Null THEN p[a] ELSE written[s][level][a]]
         /\ Merge(attrs[s][level], p) \in Attrs
<1>1. p \in Attrs /\ attrs[s][level] \in Attrs
  BY DEF AttributesAssumption, Kept, AttrsOK
<1>2. DOMAIN p = Attr /\ DOMAIN attrs[s][level] = Attr
  BY <1>1 DEF Attrs
<1> QED BY <1>1, <1>2 DEF Merge, Given, Kept, Attrs

LEMMA KeptInit ==
  ASSUME AttributesAssumption, Init
  PROVE  Kept
<1>1. Empty \in Attrs
  BY DEF Empty, Attrs
<1> QED BY <1>1 DEF Init, Kept, AttrsOK, AttributesAssumption

LEMMA KeptNext ==
  ASSUME AttributesAssumption, Kept, [Next]_vars
  PROVE  Kept'
<1>1. ASSUME NEW s \in Server, NEW level \in Level, NEW p \in Payload,
             WriteAttributes(s, level, p)
      PROVE  Kept'
  <2>1. /\ attrs' = [attrs EXCEPT ![s][level] = Merge(attrs[s][level], p)]
        /\ written' = [written EXCEPT ![s][level] = Merge(attrs[s][level], p)]
    <3>1. Merge(attrs[s][level], p) =
            [a \in Attr |-> IF p[a] # Null THEN p[a] ELSE written[s][level][a]]
      BY MergeWrites
    <3> QED BY <1>1, <3>1, Zenon DEF WriteAttributes
  <2>2. defaults' = defaults
    BY <1>1 DEF WriteAttributes
  <2> QED BY <2>1, <2>2, MergeWrites DEF Kept, AttrsOK
<1>2. ASSUME NEW s \in Server, NEW d \in Default, WriteDefault(s, d)
      PROVE  Kept'
  <2>1. d \in Defaults /\ defaults[s] \in Defaults
    BY DEF AttributesAssumption, Kept, AttrsOK
  <2>2. Merge(defaults[s], d) \in Defaults
    BY <2>1 DEF Merge, Given, Defaults
  <2>3. /\ defaults' = [defaults EXCEPT ![s] = Merge(defaults[s], d)]
        /\ UNCHANGED <<attrs, written>>
    BY <1>2 DEF WriteDefault
  <2> QED BY <2>2, <2>3 DEF Kept, AttrsOK
<1>3. ASSUME UNCHANGED attrVars
      PROVE  Kept'
  BY <1>3 DEF attrVars, Kept, AttrsOK
<1>4. ASSUME NEW x \in Observation, Observe(x) \/ Fire(x)
      PROVE  UNCHANGED attrVars
  BY <1>4 DEF Observe, Fire, Fail
<1>5. ASSUME NEW th \in Setter,
             \/ \E v \in Value \cup {Null} : Begin(th, v)
             \/ \E s \in Server : LookUp(th, s)
             \/ \E x \in Observation : LookUpPmin(th, x)
             \/ Compare(th) \/ Chosen(th) \/ Check(th) \/ Execute(th) \/ Return(th)
      PROVE  UNCHANGED attrVars
  BY <1>5 DEF Begin, LookUp, LookUpPmin, Compare, Chosen, Check, Execute, Return, Fail
<1>6. Tick => UNCHANGED attrVars
  BY DEF Tick
<1>7. UNCHANGED vars => UNCHANGED attrVars
  BY DEF vars
<1> QED BY <1>1, <1>2, <1>3, <1>4, <1>5, <1>6, <1>7 DEF Next

(* Whatever the servers write, in whatever order, a lookup finds what      *)
(* lwm2m_attribute.h documents, except for pmin at an object.              *)
THEOREM DocumentedLookups == ASSUME AttributesAssumption PROVE Spec => []LookupsAsDocumented
<1>1. Init => Kept
  BY KeptInit
<1>2. Kept /\ [Next]_vars => Kept'
  BY KeptNext
<1>3. Kept => LookupsAsDocumented
  BY KeptLookups
<1> QED BY <1>1, <1>2, <1>3, PTL DEF Spec

-----------------------------------------------------------------------------
(* What a setter at its comparisons holds is what the server has written.  *)
ComparingOf(th) ==
  pc[th] = "comparing" =>
    /\ at[th][1] \in Server
    /\ \A c \in DOMAIN held[th] : held[th][c] # Null =>
         c[3] \in Condition /\ written[at[th][1]]["resource"][c[3]] # Null

Comparing == \A th \in Setter : ComparingOf(th)

DanglingKnown ==
  \A th \in Setter : \A c \in dangling[th] :
    c[2] = "default" \/ written[c[1]][c[2]]["dim"] # Null

FaultKnown ==
  /\ fault = "period" =>
       \E x \in Observation : observers[x] = Null /\ Documented(Null, x[1], x[2], "pmax", 2)
  /\ fault = "null" =>
       \E th \in Setter : /\ pc[th] = "comparing" /\ change[th] = <<Null, Null>>
                          /\ \E a \in Condition : written[at[th][1]]["resource"][a] # Null
  /\ fault = "freed" => \E th \in Setter : dangling[th] # {}

SettersOK ==
  /\ DOMAIN pc = Setter /\ DOMAIN at = Setter /\ DOMAIN held = Setter
  /\ dangling \in [Setter -> SUBSET Cell]

Inv == Kept /\ SettersOK /\ Comparing /\ DanglingKnown /\ FaultKnown

(* Nothing that a server has written is ever taken back. *)
LEMMA WrittenStays ==
  ASSUME AttributesAssumption, Kept, [Next]_vars,
         NEW s \in Server, NEW l \in Level, NEW a \in Attr, written[s][l][a] # Null
  PROVE  written'[s][l][a] # Null
<1>1. ASSUME NEW t \in Server, NEW level \in Level, NEW p \in Payload,
             WriteAttributes(t, level, p)
      PROVE  written'[s][l][a] # Null
  <2>1. written' = [written EXCEPT ![t][level] =
                      [b \in Attr |-> IF p[b] # Null THEN p[b] ELSE written[t][level][b]]]
    BY <1>1 DEF WriteAttributes
  <2> QED BY <2>1 DEF Kept, AttrsOK
<1>2. ASSUME NEW t \in Server, NEW d \in Default, WriteDefault(t, d)
      PROVE  UNCHANGED written
  BY <1>2 DEF WriteDefault
<1>3. ASSUME NEW x \in Observation, Observe(x) \/ Fire(x)
      PROVE  UNCHANGED written
  BY <1>3 DEF Observe, Fire, Fail, attrVars
<1>4. ASSUME NEW th \in Setter,
             \/ \E v \in Value \cup {Null} : Begin(th, v)
             \/ \E t \in Server : LookUp(th, t)
             \/ \E x \in Observation : LookUpPmin(th, x)
             \/ Compare(th) \/ Chosen(th) \/ Check(th) \/ Execute(th) \/ Return(th)
      PROVE  UNCHANGED written
  BY <1>4 DEF Begin, LookUp, LookUpPmin, Compare, Chosen, Check, Execute, Return, Fail, attrVars
<1>5. Tick => UNCHANGED written
  BY DEF Tick, attrVars
<1>6. UNCHANGED vars => UNCHANGED written
  BY DEF vars, attrVars
<1> QED BY <1>1, <1>2, <1>3, <1>4, <1>5, <1>6 DEF Next

(* What is freed is freed because dim was written. *)
LEMMA FreedHasDim ==
  ASSUME AttributesAssumption, Kept, NEW s \in Server, NEW level \in Level, NEW p \in Payload,
         WriteAttributes(s, level, p), [Next]_vars, NEW a \in Freed(attrs[s][level], p)
  PROVE  /\ a \in Attr
         /\ written'[s][level]["dim"] # Null
<1>1. attrs[s][level] \in Attrs /\ p \in Attrs
  BY DEF Kept, AttrsOK, AttributesAssumption
<1>2. Merge(attrs[s][level], p)["dim"] # Null /\ a \in Given(p)
  BY DEF Freed
<1>3. a \in Attr
  BY <1>1, <1>2 DEF Given, Attrs
<1>4. attrs'[s][level] = Merge(attrs[s][level], p)
  BY DEF WriteAttributes, Kept, AttrsOK
<1>5. Kept'
  BY KeptNext
<1> QED BY <1>2, <1>3, <1>4, <1>5 DEF Kept

LEMMA DanglingNext ==
  ASSUME AttributesAssumption, Kept, SettersOK, DanglingKnown, [Next]_vars
  PROVE  (dangling \in [Setter -> SUBSET Cell])' /\ DanglingKnown'
<1>1. ASSUME NEW s \in Server, NEW level \in Level, NEW a \in Attr, written[s][level][a] # Null
      PROVE  written'[s][level][a] # Null
  BY <1>1, WrittenStays
<1>2. "dim" \in Attr
  BY DEF Attr
(* Cells that dangled already go on having a reason to. *)
<1>3. ASSUME NEW c \in Cell, c[2] = "default" \/ written[c[1]][c[2]]["dim"] # Null
      PROVE  c[2] = "default" \/ written'[c[1]][c[2]]["dim"] # Null
  <2>1. CASE c \in Server \X {"default"} \X Period
    BY <2>1
  <2>2. CASE c \in Server \X Level \X Attr
    <3>1. c[1] \in Server /\ c[2] \in Level
      BY <2>2
    <3> QED BY <1>1, <1>2, <1>3, <3>1
  <2> QED BY <2>1, <2>2 DEF Cell
<1>4. ASSUME NEW cells \in SUBSET Cell, dangling' = Dangle(cells),
             \A c \in cells : c[2] = "default" \/ written'[c[1]][c[2]]["dim"] # Null
      PROVE  (dangling \in [Setter -> SUBSET Cell])' /\ DanglingKnown'
  <2>1. \A th \in Setter : dangling'[th] \subseteq dangling[th] \cup cells
    BY <1>4 DEF Dangle
  <2>2. (dangling \in [Setter -> SUBSET Cell])'
    BY <1>4 DEF Dangle, SettersOK
  <2>3. ASSUME NEW th \in Setter, NEW c \in dangling'[th]
        PROVE  c[2] = "default" \/ written'[c[1]][c[2]]["dim"] # Null
    <3>1. CASE c \in cells
      BY <1>4, <3>1
    <3>2. CASE c \in dangling[th]
      BY <1>3, <3>2 DEF SettersOK, DanglingKnown
    <3> QED BY <2>1, <2>3, <3>1, <3>2
  <2> QED BY <2>2, <2>3 DEF DanglingKnown
<1>5. ASSUME NEW s \in Server, NEW level \in Level, NEW p \in Payload,
             WriteAttributes(s, level, p)
      PROVE  (dangling \in [Setter -> SUBSET Cell])' /\ DanglingKnown'
  <2> DEFINE cells == {<<s, level, a>> : a \in Freed(attrs[s][level], p)}
  <2>1. ASSUME NEW a \in Freed(attrs[s][level], p)
        PROVE  a \in Attr /\ written'[s][level]["dim"] # Null
    BY <1>5, <2>1, FreedHasDim
  <2>2. cells \in SUBSET Cell
    BY <2>1 DEF Cell
  <2>3. \A c \in cells : written'[c[1]][c[2]]["dim"] # Null
    BY <2>1
  <2>4. dangling' = Dangle(cells)
    BY <1>5 DEF WriteAttributes
  <2> HIDE DEF cells
  <2> QED BY <1>4, <2>2, <2>3, <2>4
<1>6. ASSUME NEW s \in Server, NEW d \in Default, WriteDefault(s, d)
      PROVE  (dangling \in [Setter -> SUBSET Cell])' /\ DanglingKnown'
  <2> DEFINE cells == {<<s, "default", a>> : a \in Given(d) \cap Given(defaults[s])}
  <2>1. d \in Defaults
    BY DEF AttributesAssumption
  <2>2. cells \in SUBSET Cell
    BY <2>1 DEF Cell, Given, Defaults
  <2>3. \A c \in cells : c[2] = "default"
    OBVIOUS
  <2>4. dangling' = Dangle(cells)
    BY <1>6 DEF WriteDefault
  <2> HIDE DEF cells
  <2> QED BY <1>4, <2>2, <2>3, <2>4
<1>7. ASSUME \/ UNCHANGED dangling
             \/ \E th \in Setter : dangling' = [dangling EXCEPT ![th] = {}]
      PROVE  (dangling \in [Setter -> SUBSET Cell])' /\ DanglingKnown'
  <2>1. /\ (dangling \in [Setter -> SUBSET Cell])'
        /\ \A th \in Setter : dangling'[th] \subseteq dangling[th]
    BY <1>7 DEF SettersOK
  <2> QED BY <1>3, <2>1 DEF SettersOK, DanglingKnown
<1>8. ASSUME NEW x \in Observation, Observe(x) \/ Fire(x)
      PROVE  UNCHANGED dangling
  BY <1>8 DEF Observe, Fire, Fail
<1>9. ASSUME NEW th \in Setter,
             \/ \E v \in Value \cup {Null} : Begin(th, v)
             \/ \E s \in Server : LookUp(th, s)
             \/ \E x \in Observation : LookUpPmin(th, x)
             \/ Compare(th) \/ Chosen(th) \/ Check(th) \/ Execute(th) \/ Return(th)
      PROVE  UNCHANGED dangling \/ dangling' = [dangling EXCEPT ![th] = {}]
  BY <1>9 DEF Begin, LookUp, LookUpPmin, Compare, Chosen, Check, Execute, Return, Fail, LetGo
<1>10. Tick \/ UNCHANGED vars => UNCHANGED dangling
  BY DEF Tick, vars
<1> QED BY <1>5, <1>6, <1>7, <1>8, <1>9, <1>10 DEF Next

(* What a condition is when it is looked up. *)
LEMMA ConditionLookup ==
  ASSUME AttributesAssumption, Kept, NEW s \in Server, NEW c \in {s} \X {"resource"} \X Condition
  PROVE  /\ c[3] \in Condition
         /\ Contents(c) = written[s]["resource"][c[3]]
<1>1. /\ c = <<s, "resource", c[3]>>
      /\ c[1] = s /\ c[2] = "resource" /\ c[3] \in Condition
  OBVIOUS
<1>2. <<s, "resource", c[3]>> # Null
  BY <1>1, CellsAreNot DEF Condition, Attr, Level
<1> QED BY <1>1, <1>2 DEF Contents, Kept

LEMMA ComparingNext ==
  ASSUME AttributesAssumption, Kept, SettersOK, Comparing, [Next]_vars
  PROVE  /\ (DOMAIN pc = Setter /\ DOMAIN at = Setter /\ DOMAIN held = Setter)'
         /\ Comparing'
<1> DEFINE Domains == DOMAIN pc = Setter /\ DOMAIN at = Setter /\ DOMAIN held = Setter
<1>1. ASSUME NEW s \in Server, NEW a \in Condition, written[s]["resource"][a] # Null
      PROVE  written'[s]["resource"][a] # Null
  BY <1>1, WrittenStays DEF Condition, Attr, Level
(* A setter that stays where it is keeps what it holds. *)
<1>2. ASSUME NEW th \in Setter,
             pc'[th] # "comparing" \/ (pc'[th] = pc[th] /\ at'[th] = at[th] /\ held'[th] = held[th])
      PROVE  ComparingOf(th)'
  BY <1>1, <1>2 DEF Comparing, ComparingOf
<1>3. ASSUME UNCHANGED <<pc, at, held>>
      PROVE  Domains' /\ Comparing'
  BY <1>2, <1>3 DEF Comparing, SettersOK
<1>4. ASSUME NEW th \in Setter, NEW s \in Server, LookUp(th, s)
      PROVE  Domains' /\ Comparing'
  <2>1. CASE UNCHANGED <<pc, at, held>>
    BY <1>3, <2>1
  <2>2. CASE ~UNCHANGED <<pc, at, held>>
    <3>1. /\ held' = [held EXCEPT ![th] = [c \in {s} \X {"resource"} \X Condition |-> Contents(c)]]
          /\ at' = [at EXCEPT ![th] = <<s, "resource">>]
          /\ pc' = [pc EXCEPT ![th] = "comparing"]
          /\ UNCHANGED written
      BY <1>4, <2>2 DEF LookUp, attrVars
    <3>2. Domains'
      BY <3>1 DEF SettersOK
    <3>3. ComparingOf(th)'
      <4>1. at'[th][1] = s
        BY <3>1 DEF SettersOK
      <4>2. /\ DOMAIN held'[th] = {s} \X {"resource"} \X Condition
            /\ \A c \in DOMAIN held'[th] : held'[th][c] = Contents(c)
        BY <3>1 DEF SettersOK
      <4>3. ASSUME NEW c \in DOMAIN held'[th], held'[th][c] # Null
            PROVE  c[3] \in Condition /\ written[s]["resource"][c[3]] # Null
        BY <4>2, <4>3, ConditionLookup
      <4> QED BY <3>1, <4>1, <4>3 DEF ComparingOf
    <3>4. ASSUME NEW u \in Setter, u # th
          PROVE  ComparingOf(u)'
      BY <1>2, <3>1, <3>4 DEF SettersOK
    <3> QED BY <3>2, <3>3, <3>4 DEF Comparing
  <2> QED BY <2>1, <2>2
<1>5. ASSUME NEW th \in Setter,
             pc' = pc \/ \E there : there # "comparing" /\ pc' = [pc EXCEPT ![th] = there],
             at' = at \/ \E x : at' = [at EXCEPT ![th] = x],
             held' = held \/ \E h : held' = [held EXCEPT ![th] = h],
             pc'[th] # "comparing"
      PROVE  Domains' /\ Comparing'
  <2>1. Domains'
    BY <1>5 DEF SettersOK
  <2>2. ASSUME NEW u \in Setter, u # th
        PROVE  pc'[u] = pc[u] /\ at'[u] = at[u] /\ held'[u] = held[u]
    BY <1>5, <2>2 DEF SettersOK
  <2> QED BY <1>2, <1>5, <2>1, <2>2 DEF Comparing
<1>6. ASSUME NEW th \in Setter,
             \/ \E v \in Value \cup {Null} : Begin(th, v)
             \/ \E x \in Observation : LookUpPmin(th, x)
             \/ Compare(th) \/ Chosen(th) \/ Check(th) \/ Execute(th) \/ Return(th)
      PROVE  Domains' /\ Comparing'
  <2>1. CASE \E v \in Value \cup {Null} : Begin(th, v)
    <3>1. pc' = [pc EXCEPT ![th] = "choosing"] /\ UNCHANGED <<at, held>>
      BY <2>1 DEF Begin
    <3>2. pc'[th] = "choosing"
      BY <3>1 DEF SettersOK
    <3> QED BY <1>5, <3>1, <3>2
  <2>2. CASE \E x \in Observation : LookUpPmin(th, x)
    <3>1. /\ pc' = [pc EXCEPT ![th] = "checking"]
          /\ \E x : at' = [at EXCEPT ![th] = x]
          /\ \E h : held' = [held EXCEPT ![th] = h]
      BY <2>2 DEF LookUpPmin
    <3>2. pc'[th] = "checking"
      BY <3>1 DEF SettersOK
    <3> QED BY <1>5, <3>1, <3>2
  <2>3. CASE Compare(th)
    <3>1. CASE UNCHANGED <<pc, at, held>>
      BY <1>3, <3>1
    <3>2. CASE ~UNCHANGED <<pc, at, held>>
      <4>1. /\ pc' = [pc EXCEPT ![th] = "choosing"]
            /\ held' = [held EXCEPT ![th] = NothingHeld]
            /\ at' = at
        BY <2>3, <3>2 DEF Compare, Fail, localVars, LetGo
      <4>2. pc'[th] = "choosing"
        BY <4>1 DEF SettersOK
      <4> QED BY <1>5, <4>1, <4>2
    <3> QED BY <3>1, <3>2
  <2>4. CASE Chosen(th)
    <3>1. pc' = [pc EXCEPT ![th] = "notifying"] /\ UNCHANGED <<at, held>>
      BY <2>4 DEF Chosen
    <3>2. pc'[th] = "notifying"
      BY <3>1 DEF SettersOK
    <3> QED BY <1>5, <3>1, <3>2
  <2>5. CASE Check(th)
    <3>1. CASE UNCHANGED <<pc, at, held>>
      BY <1>3, <3>1
    <3>2. CASE ~UNCHANGED <<pc, at, held>>
      <4>1. /\ \/ pc' = [pc EXCEPT ![th] = "executing"]
               \/ pc' = [pc EXCEPT ![th] = "notifying"]
            /\ held' = held \/ held' = [held EXCEPT ![th] = NothingHeld]
            /\ at' = at
        BY <2>5, <3>2 DEF Check, Fail, localVars, LetGo
      <4>2. pc'[th] \in {"executing", "notifying"}
        BY <4>1 DEF SettersOK
      <4> QED BY <1>5, <4>1, <4>2
    <3> QED BY <3>1, <3>2
  <2>6. CASE Execute(th)
    <3>1. /\ pc' = [pc EXCEPT ![th] = "notifying"]
          /\ held' = [held EXCEPT ![th] = NothingHeld]
          /\ at' = at
      BY <2>6 DEF Execute, LetGo
    <3>2. pc'[th] = "notifying"
      BY <3>1 DEF SettersOK
    <3> QED BY <1>5, <3>1, <3>2
  <2>7. CASE Return(th)
    <3>1. /\ pc' = [pc EXCEPT ![th] = "idle"]
          /\ at' = [at EXCEPT ![th] = Null]
          /\ held' = held
      BY <2>7 DEF Return
    <3>2. pc'[th] = "idle"
      BY <3>1 DEF SettersOK
    <3> QED BY <1>5, <3>1, <3>2
  <2> QED BY <1>6, <2>1, <2>2, <2>3, <2>4, <2>5, <2>6, <2>7
<1>7. ASSUME \/ \E s \in Server, level \in Level, p \in Payload : WriteAttributes(s, level, p)
             \/ \E s \in Server, d \in Default : WriteDefault(s, d)
             \/ \E x \in Observation : Observe(x) \/ Fire(x)
             \/ Tick
             \/ UNCHANGED vars
      PROVE  UNCHANGED <<pc, at, held>>
  BY <1>7 DEF WriteAttributes, WriteDefault, Observe, Fire, Tick, Fail, vars, localVars
<1> QED BY <1>3, <1>4, <1>6, <1>7 DEF Next

-----------------------------------------------------------------------------
(* A step is the first to go wrong, and goes wrong in a known way. *)
LEMMA FaultNext ==
  ASSUME AttributesAssumption, Kept, Comparing, FaultKnown, [Next]_vars
  PROVE  FaultKnown'
<1>1. ASSUME UNCHANGED vars
      PROVE  FaultKnown'
  <2>1. UNCHANGED <<attrs, defaults, written, observers, pc, change, at, dangling, fault>>
    BY <1>1 DEF vars, attrVars, reportVars, localVars
  <2>2. ASSUME NEW x \in Observation
        PROVE  Documented(Null, x[1], x[2], "pmax", 2)' <=> Documented(Null, x[1], x[2], "pmax", 2)
    BY <2>1 DEF Documented
  <2> QED BY <2>1, <2>2 DEF FaultKnown
<1>2. ASSUME fault' = "none"
      PROVE  FaultKnown'
  BY <1>2 DEF FaultKnown
<1>3. ASSUME fault = "none", NEW x \in Observation, Observe(x)
      PROVE  FaultKnown'
  <2>1. CASE fault' = fault
    BY <1>2, <1>3, <2>1
  <2>2. CASE fault' # fault
    <3>1. /\ observers[x] = Null
          /\ get(x[1], x[2], "pmax", 2) = Null
          /\ fault' = "period"
          /\ UNCHANGED <<written, defaults, observers>>
      BY <1>3, <2>2 DEF Observe, Fail, LOOKUP_FULL, attrVars, reportVars
    <3>2. x[1] \in Server /\ x[2] \in Level
      BY DEF Observation
    <3>3. Contents(get(x[1], x[2], "pmax", 2)) = Null
      BY <3>1 DEF Contents
    <3>4. Documented(Null, x[1], x[2], "pmax", 2)
      <4>1. Documented(Contents(get(x[1], x[2], "pmax", 2)), x[1], x[2], "pmax", 2)
        <5>1. 2 \in 0..2
          OBVIOUS
        <5> QED BY <3>2, <5>1, PmaxDocumented, Zenon
      <4> QED BY <3>3, <4>1, Zenon
    <3>5. Documented(Null, x[1], x[2], "pmax", 2)'
      BY <3>1, <3>4 DEF Documented
    <3> QED BY <3>1, <3>5 DEF FaultKnown
  <2> QED BY <2>1, <2>2
<1>4. ASSUME fault = "none", NEW th \in Setter, Compare(th)
      PROVE  FaultKnown'
  <2>1. CASE dangling[th] # {}
    <3>1. fault' = "freed" /\ dangling' = dangling
      BY <1>4, <2>1 DEF Compare, Fail
    <3> QED BY <2>1, <3>1 DEF FaultKnown
  <2>2. CASE dangling[th] = {} /\ change[th] = <<Null, Null>> /\ Given(held[th]) # {}
    <3>1. fault' = "null" /\ pc[th] = "comparing" /\ UNCHANGED <<pc, change, at, written>>
      <4>1. pc[th] = "comparing" /\ Fail("null")
        BY <1>4, <2>2 DEF Compare
      <4> QED BY <4>1 DEF Fail, localVars, attrVars
    <3>2. PICK c \in DOMAIN held[th] : held[th][c] # Null
      BY <2>2 DEF Given
    <3>3. c[3] \in Condition /\ written[at[th][1]]["resource"][c[3]] # Null
      BY <3>1, <3>2 DEF Comparing, ComparingOf
    <3> QED BY <2>2, <3>1, <3>3 DEF FaultKnown
  <2>3. CASE dangling[th] = {} /\ ~(change[th] = <<Null, Null>> /\ Given(held[th]) # {})
    BY <1>2, <1>4, <2>3 DEF Compare
  <2> QED BY <2>1, <2>2, <2>3
<1>5. ASSUME fault = "none", NEW th \in Setter, Check(th)
      PROVE  FaultKnown'
  <2>1. CASE dangling[th] # {}
    <3>1. fault' = "freed" /\ dangling' = dangling
      BY <1>5, <2>1 DEF Check, Fail
    <3> QED BY <2>1, <3>1 DEF FaultKnown
  <2>2. CASE dangling[th] = {}
    BY <1>2, <1>5, <2>2 DEF Check
  <2> QED BY <2>1, <2>2
<1>6. ASSUME fault = "none",
             \/ \E s \in Server, level \in Level, p \in Payload : WriteAttributes(s, level, p)
             \/ \E s \in Server, d \in Default : WriteDefault(s, d)
             \/ \E x \in Observation : Fire(x)
             \/ \E th \in Setter :
                  \/ \E v \in Value \cup {Null} : Begin(th, v)
                  \/ \E s \in Server : LookUp(th, s)
                  \/ \E x \in Observation : LookUpPmin(th, x)
                  \/ Chosen(th) \/ Execute(th) \/ Return(th)
             \/ Tick
      PROVE  FaultKnown'
  BY <1>2, <1>6 DEF WriteAttributes, WriteDefault, Fire, Tick, Begin, LookUp, LookUpPmin,
                    Chosen, Execute, Return
<1> QED BY <1>1, <1>3, <1>4, <1>5, <1>6 DEF Next

LEMMA InvInit ==
  ASSUME AttributesAssumption, Init
  PROVE  Inv
<1>1. /\ SettersOK
      /\ \A th \in Setter : pc[th] = "idle" /\ dangling[th] = {}
      /\ fault = "none"
  BY DEF Init, SettersOK
<1> QED BY <1>1, KeptInit DEF Inv, Comparing, ComparingOf, DanglingKnown, FaultKnown

LEMMA InvNext ==
  ASSUME AttributesAssumption, Inv, [Next]_vars
  PROVE  Inv'
<1>1. Kept'
  BY KeptNext DEF Inv
<1>2. (dangling \in [Setter -> SUBSET Cell])' /\ DanglingKnown'
  BY DanglingNext DEF Inv
<1>3. (DOMAIN pc = Setter /\ DOMAIN at = Setter /\ DOMAIN held = Setter)' /\ Comparing'
  BY ComparingNext DEF Inv
<1>4. FaultKnown'
  BY FaultNext DEF Inv
<1> QED BY <1>1, <1>2, <1>3, <1>4 DEF Inv, SettersOK

(* A client goes wrong over attributes only as FaultsAsKnown says: OBSERVE *)
(* without a pmax, null over null under a condition, and an attribute      *)
(* freed under a setter, where dim was written or a default replaced.      *)
THEOREM KnownFaults == ASSUME AttributesAssumption PROVE Spec => []FaultsAsKnown
<1>1. Init => Inv
  BY InvInit
<1>2. Inv /\ [Next]_vars => Inv'
  BY InvNext
<1>3. Inv => FaultsAsKnown
  BY DEF Inv, FaultKnown, DanglingKnown, FaultsAsKnown
<1> QED BY <1>1, <1>2, <1>3, PTL DEF Spec

-----------------------------------------------------------------------------
(* What a setter is at is typed: it holds cells only between looking them  *)
(* up and reading them, and it goes for observations that there are.       *)
SetterType ==
  /\ pc \in [Setter -> {"idle"} \cup Setting]
  /\ change \in [Setter -> (Value \cup {Null}) \X (Value \cup {Null})]
  /\ asked \in [Setter -> SUBSET Server]
  /\ chosen \in [Setter -> SUBSET Server]
  /\ todo \in [Setter -> SUBSET Observation]
  /\ at \in [Setter -> Observation \cup {Null}]
  /\ seen \in [Setter -> {Null} \cup Age]

CountType ==
  /\ value \in Value \cup {Null}
  /\ writes \in 0..MaxWrites
  /\ sets \in 0..MaxSets
  /\ fault \in {"none", "null", "freed", "period"}

ReportType ==
  /\ observers \in [Observation -> {Null} \cup Observer]
  /\ since \in [Observation -> {Null} \cup Age]

(* What a report says of itself agrees with when it was last sent. *)
Ages ==
  \A x \in Observation :
    since[x] = IF observers[x] # Null /\ observers[x].told THEN observers[x].age ELSE Null

HoldingOf(th) ==
  /\ DOMAIN held[th] \subseteq Cell
  /\ dangling[th] \subseteq DOMAIN held[th]
  /\ pc[th] \in {"idle", "choosing", "notifying"} => DOMAIN held[th] = {}
  /\ pc[th] \in {"checking", "executing"} => \A c \in DOMAIN held[th] : held[th][c] \in Int

(* Whoever was found old enough was so by what the setter holds. *)
ObservingOf(th) ==
  /\ \A x \in todo[th] : observers[x] # Null
  /\ pc[th] \in {"checking", "executing"} =>
       at[th] \in Observation /\ observers[at[th]] # Null
  /\ pc[th] = "executing" =>
       seen[th] = Null \/ \A c \in DOMAIN held[th] : held[th][c] < seen[th]

SetterOf(th) == HoldingOf(th) /\ ObservingOf(th)

SetInv ==
  /\ SetterType /\ CountType /\ ReportType /\ Ages
  /\ \A th \in Setter : SetterOf(th)

(* A lookup of a period finds nothing, or a cell with a number in it. *)
LEMMA LookupType ==
  ASSUME AttributesAssumption, Kept, NEW s \in Server, NEW l \in Level, NEW a \in Period
  PROVE  /\ get(s, l, a, LOOKUP_FULL) \in Cell \cup {Null}
         /\ get(s, l, a, LOOKUP_FULL) # Null => Contents(get(s, l, a, LOOKUP_FULL)) \in Int
<1> DEFINE Found(c) == c \in Cell \cup {Null} /\ (c # Null => Contents(c) \in Int)
<1>1. ASSUME NEW m \in Level, NEW b \in Attr, attrs[s][m][b] # Null
      PROVE  Found(<<s, m, b>>)
  <2>1. <<s, m, b>> \in Cell /\ <<s, m, b>> # Null
    BY CellsAreNot
  <2>2. m # "default"
    BY DEF Level
  <2>3. attrs[s][m][b] \in Int
    BY <1>1 DEF Kept, AttrsOK, Attrs
  <2> QED BY <2>1, <2>2, <2>3 DEF Contents
<1>2. ASSUME NEW b \in Period
      PROVE  Found(get_default(s, b))
  <2>1. CASE defaults[s][b] = Null
    BY <2>1 DEF get_default
  <2>2. CASE defaults[s][b] # Null
    <3>1. <<s, "default", b>> \in Cell /\ <<s, "default", b>> # Null
      BY CellsAreNot
    <3>2. defaults[s][b] \in Int
      BY <2>2 DEF Kept, AttrsOK, Defaults
    <3> QED BY <2>2, <3>1, <3>2 DEF get_default, Contents
  <2> QED BY <2>1, <2>2
<1>3. "pmax" \in Attr /\ a \in Attr /\ {"object", "instance", "resource"} = Level
  BY DEF Attr, Period, Level
<1> HIDE DEF Found
<1>4. Found(get_object(s, a, 2))
  BY <1>1, <1>2, <1>3 DEF get_object
<1>5. Found(get_instance(s, a, 2))
  BY <1>1, <1>3, <1>4 DEF get_instance
<1>6. Found(get_resource(s, a, 2))
  BY <1>1, <1>3, <1>5 DEF get_resource
<1>7. Found(get(s, l, a, 2))
  BY <1>4, <1>5, <1>6 DEF get, Level
<1> QED BY <1>7 DEF Found, LOOKUP_FULL

(* The setters' part of the invariant when they stay as they are. *)
LEMMA SettersStay ==
  ASSUME AttributesAssumption, SetInv, UNCHANGED localVars,
         \A x \in Observation : observers[x] # Null => observers'[x] # Null,
         \A th \in Setter : dangling'[th] \subseteq DOMAIN held[th]
  PROVE  SetterType' /\ \A th \in Setter : SetterOf(th)'
<1>1. UNCHANGED <<pc, change, asked, chosen, todo, at, held, seen>>
  BY DEF localVars
<1>2. SetterType'
  BY <1>1 DEF SetInv, SetterType
<1>3. ASSUME NEW th \in Setter
      PROVE  SetterOf(th)'
  <2>1. todo[th] \subseteq Observation /\ SetterOf(th)
    BY DEF SetInv, SetterType
  <2>2. HoldingOf(th)'
    BY <1>1, <2>1 DEF SetterOf, HoldingOf
  <2>3. ObservingOf(th)'
    BY <1>1, <2>1 DEF SetterOf, ObservingOf
  <2> QED BY <2>2, <2>3 DEF SetterOf
<1> QED BY <1>2, <1>3

(* The same when all but one do. *)
LEMMA OthersStay ==
  ASSUME AttributesAssumption, SetInv, NEW th \in Setter, SetterType', SetterOf(th)',
         \A x \in Observation : observers[x] # Null => observers'[x] # Null,
         \A u \in Setter \ {th} :
           /\ pc'[u] = pc[u] /\ todo'[u] = todo[u] /\ at'[u] = at[u] /\ seen'[u] = seen[u]
           /\ held'[u] = held[u] /\ dangling'[u] = dangling[u]
  PROVE  \A u \in Setter : SetterOf(u)'
<1>1. ASSUME NEW u \in Setter, u # th
      PROVE  SetterOf(u)'
  <2>1. todo[u] \subseteq Observation /\ SetterOf(u)
    BY DEF SetInv, SetterType
  <2>2. /\ pc'[u] = pc[u] /\ todo'[u] = todo[u] /\ at'[u] = at[u] /\ seen'[u] = seen[u]
        /\ held'[u] = held[u] /\ dangling'[u] = dangling[u]
    BY <1>1
  <2>3. HoldingOf(u)'
    BY <2>1, <2>2 DEF SetterOf, HoldingOf
  <2>4. ObservingOf(u)'
    BY <2>1, <2>2 DEF SetterOf, ObservingOf
  <2> QED BY <2>3, <2>4 DEF SetterOf
<1> QED BY <1>1

(* A task that is executed, by whomever, was last told now. *)
LEMMA NotifiedReports ==
  ASSUME AttributesAssumption, ReportType, Ages,
         NEW x \in Observation, observers[x] # Null, Notified(x)
  PROVE  /\ ReportType' /\ Ages'
         /\ \A y \in Observation : observers[y] # Null => observers'[y] # Null
<1>1. 0 \in Age
  BY DEF AttributesAssumption, Age
<1> DEFINE told == [observers[x] EXCEPT !.age = 0, !.told = TRUE]
<1>2. told \in Observer /\ told # Null /\ told.told = TRUE /\ told.age = 0
  <2>1. observers[x] \in Observer
    BY DEF ReportType
  <2>2. told \in Observer /\ told.told = TRUE /\ told.age = 0
    BY <1>1, <2>1 DEF Observer
  <2> QED BY <2>2 DEF AttributesAssumption
<1>3. observers' = [observers EXCEPT ![x] = told] /\ since' = [since EXCEPT ![x] = 0]
  BY DEF Notified
<1> HIDE DEF told
<1>4. ReportType'
  BY <1>1, <1>2, <1>3 DEF ReportType
<1>5. ASSUME NEW y \in Observation
      PROVE  /\ observers'[y] = IF y = x THEN told ELSE observers[y]
             /\ since'[y] = IF y = x THEN 0 ELSE since[y]
  BY <1>3 DEF ReportType
<1>6. Ages'
  BY <1>2, <1>5 DEF Ages
<1> QED BY <1>2, <1>4, <1>5, <1>6

LEMMA TickReports ==
  ASSUME AttributesAssumption, ReportType, Ages, Tick
  PROVE  /\ ReportType' /\ Ages'
         /\ \A y \in Observation : observers[y] # Null => observers'[y] # Null
<1>1. \A n \in Age : Older(n) \in Age
  BY DEF AttributesAssumption, Age, Older
<1> DEFINE older(y) == [observers[y] EXCEPT !.age = Older(@)]
<1>2. ASSUME NEW y \in Observation, observers[y] # Null
      PROVE  /\ older(y) \in Observer /\ older(y) # Null
             /\ older(y).told = observers[y].told
             /\ older(y).age = Older(observers[y].age)
  <2>1. observers[y] \in Observer
    BY <1>2 DEF ReportType
  <2>2. /\ older(y) \in Observer
        /\ older(y).told = observers[y].told
        /\ older(y).age = Older(observers[y].age)
    BY <1>1, <2>1 DEF Observer
  <2> QED BY <2>2 DEF AttributesAssumption
<1>3. /\ observers' = [y \in Observation |-> IF observers[y] = Null THEN Null ELSE older(y)]
      /\ since' = [y \in Observation |-> IF since[y] = Null THEN Null ELSE Older(since[y])]
  BY DEF Tick
<1> HIDE DEF older
<1>4. ReportType'
  BY <1>1, <1>2, <1>3 DEF ReportType
<1>5. ASSUME NEW y \in Observation
      PROVE  since'[y] = IF observers'[y] # Null /\ observers'[y].told
                         THEN observers'[y].age ELSE Null
  <2>1. Null \notin Age
    BY DEF AttributesAssumption, Age
  <2>2. CASE observers[y] = Null
    BY <1>3, <2>2 DEF Ages
  <2>3. CASE observers[y] # Null /\ ~observers[y].told
    BY <1>2, <1>3, <2>3 DEF Ages
  <2>4. CASE observers[y] # Null /\ observers[y].told
    <3>1. since[y] = observers[y].age /\ since[y] \in Age
      <4>1. observers[y] \in Observer
        BY <2>4 DEF ReportType
      <4> QED BY <2>4, <4>1 DEF Ages, Observer
    <3> QED BY <1>2, <1>3, <2>1, <2>4, <3>1
  <2> QED BY <2>2, <2>3, <2>4
<1> QED BY <1>2, <1>3, <1>4, <1>5 DEF Ages

-----------------------------------------------------------------------------
(* Requests, tasks and time leave the setters where they are. *)
LEMMA OutsideStep ==
  ASSUME AttributesAssumption, Kept, SettersOK, SetInv,
         \/ \E s \in Server, level \in Level, p \in Payload : WriteAttributes(s, level, p)
         \/ \E s \in Server, d \in Default : WriteDefault(s, d)
         \/ \E x \in Observation : Observe(x) \/ Fire(x)
         \/ Tick
  PROVE  SetInv'
<1> DEFINE Seen == \A x \in Observation : observers[x] # Null => observers'[x] # Null
<1>0. ReportType /\ Ages /\ CountType
  BY DEF SetInv
<1>1. \A th \in Setter : dangling[th] \subseteq DOMAIN held[th]
  BY DEF SetInv, SetterOf, HoldingOf
<1>2. ASSUME NEW cells
      PROVE  dangling' = Dangle(cells) => \A th \in Setter : dangling'[th] \subseteq DOMAIN held[th]
  BY <1>1 DEF Dangle
<1>3. ASSUME UNCHANGED reportVars
      PROVE  ReportType' /\ Ages' /\ Seen
  BY <1>0, <1>3 DEF reportVars, ReportType, Ages
<1>4. ASSUME NEW s \in Server, NEW level \in Level, NEW p \in Payload, WriteAttributes(s, level, p)
      PROVE  SetInv'
  <2>1. CountType'
    BY <1>0, <1>4 DEF CountType, WriteAttributes, valueVars, AttributesAssumption
  <2>2. UNCHANGED localVars /\ UNCHANGED reportVars
    BY <1>4 DEF WriteAttributes
  <2>3. \A th \in Setter : dangling'[th] \subseteq DOMAIN held[th]
    BY <1>2, <1>4 DEF WriteAttributes
  <2> QED BY <1>3, <2>1, <2>2, <2>3, SettersStay DEF SetInv
<1>5. ASSUME NEW s \in Server, NEW d \in Default, WriteDefault(s, d)
      PROVE  SetInv'
  <2>1. CountType'
    BY <1>0, <1>5 DEF CountType, WriteDefault, valueVars, AttributesAssumption
  <2>2. UNCHANGED localVars /\ UNCHANGED reportVars
    BY <1>5 DEF WriteDefault
  <2>3. \A th \in Setter : dangling'[th] \subseteq DOMAIN held[th]
    BY <1>2, <1>5 DEF WriteDefault
  <2> QED BY <1>3, <2>1, <2>2, <2>3, SettersStay DEF SetInv
<1>6. ASSUME NEW x \in Observation, Observe(x)
      PROVE  SetInv'
  <2>1. UNCHANGED localVars /\ UNCHANGED dangling
    BY <1>6 DEF Observe, Fail
  <2>2. CountType'
    BY <1>0, <1>6 DEF CountType, Observe, Fail, attrVars, valueVars
  <2>3. ReportType' /\ Ages' /\ Seen
    <3>1. CASE UNCHANGED reportVars
      BY <1>3, <3>1
    <3>2. CASE ~UNCHANGED reportVars
      <4> DEFINE pmax == get(x[1], x[2], "pmax", LOOKUP_FULL)
                 new == [period |-> Contents(pmax), age |-> 0, told |-> FALSE]
      <4>1. /\ pmax # Null /\ observers[x] = Null
            /\ observers' = [observers EXCEPT ![x] = new]
            /\ since' = since
        BY <1>6, <3>2 DEF Observe, Fail
      <4>2. Contents(pmax) \in Int
        <5>1. x[1] \in Server /\ x[2] \in Level /\ "pmax" \in Period
          BY DEF Observation, Period
        <5> QED BY <4>1, <5>1, LookupType
      <4>3. new \in Observer /\ new # Null /\ ~new.told
        <5>1. 0 \in Age
          BY DEF Age, AttributesAssumption
        <5>2. new \in Observer
          BY <4>2, <5>1 DEF Observer
        <5> QED BY <5>2 DEF AttributesAssumption
      <4> HIDE DEF new
      <4>4. ReportType'
        BY <1>0, <4>1, <4>3 DEF ReportType
      <4>5. ASSUME NEW y \in Observation
            PROVE  observers'[y] = IF y = x THEN new ELSE observers[y]
        BY <1>0, <4>1 DEF ReportType
      <4>6. Ages'
        BY <1>0, <4>1, <4>3, <4>5 DEF Ages
      <4> QED BY <4>3, <4>4, <4>5, <4>6
    <3> QED BY <3>1, <3>2
  <2> QED BY <1>1, <2>1, <2>2, <2>3, SettersStay DEF SetInv
<1>7. ASSUME NEW x \in Observation, Fire(x)
      PROVE  SetInv'
  <2>1. UNCHANGED localVars /\ UNCHANGED dangling /\ CountType'
    BY <1>0, <1>7 DEF CountType, Fire, attrVars, valueVars
  <2>2. ReportType' /\ Ages' /\ Seen
    BY <1>0, <1>7, NotifiedReports DEF Fire
  <2> QED BY <1>1, <2>1, <2>2, SettersStay DEF SetInv
<1>8. ASSUME Tick
      PROVE  SetInv'
  <2>1. UNCHANGED localVars /\ UNCHANGED dangling /\ CountType'
    BY <1>0, <1>8 DEF CountType, Tick, attrVars, valueVars
  <2>2. ReportType' /\ Ages' /\ Seen
    BY <1>0, <1>8, TickReports
  <2> QED BY <1>1, <2>1, <2>2, SettersStay DEF SetInv
<1> QED BY <1>4, <1>5, <1>6, <1>7, <1>8

(* A setter chooses whom to notify. *)
LEMMA ChoosingStep ==
  ASSUME AttributesAssumption, SettersOK, Comparing, SetInv, fault = "none", NEW th \in Setter,
         \/ \E v \in Value \cup {Null} : Begin(th, v)
         \/ \E s \in Server : LookUp(th, s)
         \/ Compare(th) \/ Chosen(th)
  PROVE  SetInv'
<1>0. SetterType /\ CountType /\ SetterOf(th)
  BY DEF SetInv
<1>1. ReportType' /\ Ages' /\ UNCHANGED observers
  BY DEF SetInv, ReportType, Ages, Begin, LookUp, Compare, Chosen, Fail, reportVars
<1> DEFINE Others == \A u \in Setter \ {th} :
             /\ pc'[u] = pc[u] /\ todo'[u] = todo[u] /\ at'[u] = at[u] /\ seen'[u] = seen[u]
             /\ held'[u] = held[u] /\ dangling'[u] = dangling[u]
<1>2. ASSUME NEW v \in Value \cup {Null}, Begin(th, v)
      PROVE  SetterType' /\ CountType' /\ SetterOf(th)' /\ Others
  <2>1. SetterType'
    BY <1>0, <1>2 DEF SetterType, CountType, Begin, Setting
  <2>2. CountType'
    BY <1>0, <1>2 DEF CountType, Begin, attrVars, AttributesAssumption
  <2>3. Others
    BY <1>0, <1>2 DEF SetterType, Begin
  <2>4. /\ pc[th] = "idle" /\ pc'[th] = "choosing"
        /\ UNCHANGED <<held, dangling, todo, observers>>
    BY <1>0, <1>1, <1>2 DEF SetterType, Begin
  <2> QED BY <1>0, <2>1, <2>2, <2>3, <2>4 DEF SetterOf, HoldingOf, ObservingOf
<1>3. ASSUME NEW s \in Server, LookUp(th, s)
      PROVE  SetterType' /\ CountType' /\ SetterOf(th)' /\ Others
  <2>1. SetterType'
    <3>1. <<s, "resource">> \in Observation
      BY DEF Observation, Level
    <3>2. (chosen \in [Setter -> SUBSET Server] /\ asked \in [Setter -> SUBSET Server])'
      <4>1. /\ asked' = [asked EXCEPT ![th] = @ \ {s}]
            /\ chosen' = chosen \/ chosen' = [chosen EXCEPT ![th] = @ \cup {s}]
        BY <1>3 DEF LookUp
      <4> QED BY <1>0, <4>1 DEF SetterType
    <3>3. (at \in [Setter -> Observation \cup {Null}])'
      BY <1>0, <1>3, <3>1 DEF SetterType, LookUp
    <3>4. (pc \in [Setter -> {"idle"} \cup Setting])'
      BY <1>0, <1>3 DEF SetterType, LookUp, Setting
    <3>5. UNCHANGED <<change, todo, seen>>
      BY <1>3 DEF LookUp
    <3> QED BY <1>0, <3>2, <3>3, <3>4, <3>5 DEF SetterType
  <2>2. CountType'
    BY <1>0, <1>3 DEF CountType, LookUp, attrVars, valueVars
  <2>3. Others
    BY <1>0, <1>3 DEF SetterType, SettersOK, LookUp
  <2>4. SetterOf(th)'
    <3>1. pc[th] = "choosing" /\ DOMAIN held[th] = {} /\ UNCHANGED <<dangling, todo, observers>>
      BY <1>0, <1>1, <1>3 DEF SetterOf, HoldingOf, LookUp
    <3>2. \/ UNCHANGED <<pc, held>>
          \/ /\ pc'[th] = "comparing"
             /\ held'[th] = [c \in {s} \X {"resource"} \X Condition |-> Contents(c)]
      BY <1>0, <1>3 DEF LookUp, SetterType, SettersOK
    <3>3. {s} \X {"resource"} \X Condition \subseteq Cell
      BY DEF Cell, Level, Condition, Attr
    <3>4. HoldingOf(th)'
      BY <1>0, <3>1, <3>2, <3>3 DEF SetterOf, HoldingOf
    <3>5. ObservingOf(th)'
      BY <1>0, <3>1, <3>2 DEF SetterOf, ObservingOf
    <3> QED BY <3>4, <3>5 DEF SetterOf
  <2> QED BY <2>1, <2>2, <2>3, <2>4
<1>4. ASSUME Compare(th)
      PROVE  SetterType' /\ CountType' /\ SetterOf(th)' /\ Others
  <2>1. pc[th] = "comparing" /\ UNCHANGED <<todo, at, seen, asked, change, observers>>
    BY <1>1, <1>4 DEF Compare, Fail, localVars
  <2>2. CountType'
    BY <1>0, <1>4 DEF CountType, Compare, Fail, attrVars, valueVars
  <2>3. CASE fault' # "none"
    <3>1. UNCHANGED <<pc, held, dangling, chosen>>
      BY <1>4, <2>3 DEF Compare, Fail, localVars
    <3>2. SetterType' /\ Others
      BY <1>0, <2>1, <3>1 DEF SetterType
    <3>3. SetterOf(th)'
      BY <1>0, <2>1, <3>1 DEF SetterOf, HoldingOf, ObservingOf
    <3> QED BY <2>2, <3>2, <3>3
  <2>4. CASE fault' = "none"
    <3>1. /\ pc' = [pc EXCEPT ![th] = "choosing"]
          /\ LetGo(th)
          /\ chosen' = chosen \/ chosen' = [chosen EXCEPT ![th] = @ \cup {at[th][1]}]
      <4>1. \/ Fail("freed") \/ Fail("null")
            \/ /\ pc' = [pc EXCEPT ![th] = "choosing"]
               /\ LetGo(th)
               /\ chosen' = chosen \/ chosen' = [chosen EXCEPT ![th] = @ \cup {at[th][1]}]
        BY <1>4 DEF Compare
      <4> QED BY <2>4, <4>1 DEF Fail
    <3>2. pc'[th] = "choosing" /\ DOMAIN held'[th] = {} /\ dangling'[th] = {}
      BY <1>0, <3>1 DEF SetterType, SettersOK, LetGo, NothingHeld
    <3>3. at[th][1] \in Server
      BY <2>1 DEF Comparing, ComparingOf
    <3>4. SetterType'
      <4>1. (chosen \in [Setter -> SUBSET Server])'
        BY <1>0, <3>1, <3>3 DEF SetterType
      <4>2. (pc \in [Setter -> {"idle"} \cup Setting])'
        BY <1>0, <3>1 DEF SetterType, Setting
      <4> QED BY <1>0, <2>1, <4>1, <4>2 DEF SetterType
    <3>5. Others
      BY <1>0, <2>1, <3>1 DEF SetterType, SettersOK, LetGo
    <3>6. SetterOf(th)'
      BY <1>0, <2>1, <3>2 DEF SetterOf, HoldingOf, ObservingOf
    <3> QED BY <2>2, <3>4, <3>5, <3>6
  <2> QED BY <2>3, <2>4
<1>5. ASSUME Chosen(th)
      PROVE  SetterType' /\ CountType' /\ SetterOf(th)' /\ Others
  <2>1. {x \in chosen[th] \X Level : observers[x] # Null} \subseteq Observation
    BY <1>0 DEF SetterType, Observation
  <2>2. SetterType'
    <3>1. (pc \in [Setter -> {"idle"} \cup Setting])'
      BY <1>0, <1>5 DEF SetterType, Chosen, Setting
    <3>2. (todo \in [Setter -> SUBSET Observation] /\ chosen \in [Setter -> SUBSET Server])'
      BY <1>0, <1>5, <2>1 DEF SetterType, Chosen
    <3> QED BY <1>0, <1>5, <3>1, <3>2 DEF SetterType, Chosen
  <2>3. CountType'
    BY <1>0, <1>5 DEF CountType, Chosen, attrVars, valueVars
  <2>4. Others
    BY <1>0, <1>5 DEF SetterType, Chosen
  <2>5. SetterOf(th)'
    <3>1. /\ pc[th] = "choosing" /\ pc'[th] = "notifying"
          /\ \A x \in todo'[th] : observers[x] # Null
          /\ UNCHANGED <<held, dangling>>
      BY <1>0, <1>5 DEF SetterType, Chosen
    <3> QED BY <1>0, <1>1, <3>1 DEF SetterOf, HoldingOf, ObservingOf
  <2> QED BY <2>2, <2>3, <2>4, <2>5
<1> QED BY <1>1, <1>2, <1>3, <1>4, <1>5, OthersStay DEF SetInv

(* And notifies them, of what they observe. *)
LEMMA NotifyingStep ==
  ASSUME AttributesAssumption, Kept, SettersOK, SetInv, fault = "none", NEW th \in Setter,
         \/ \E x \in Observation : LookUpPmin(th, x)
         \/ Check(th) \/ Execute(th) \/ Return(th)
  PROVE  SetInv'
<1>0. SetterType /\ CountType /\ ReportType /\ Ages /\ SetterOf(th)
  BY DEF SetInv
<1> DEFINE Others == \A u \in Setter \ {th} :
             /\ pc'[u] = pc[u] /\ todo'[u] = todo[u] /\ at'[u] = at[u] /\ seen'[u] = seen[u]
             /\ held'[u] = held[u] /\ dangling'[u] = dangling[u]
           Reports == /\ ReportType' /\ Ages'
                      /\ \A x \in Observation : observers[x] # Null => observers'[x] # Null
<1>1. UNCHANGED reportVars => Reports
  BY <1>0 DEF ReportType, Ages, reportVars
<1>2. ASSUME NEW x \in Observation, LookUpPmin(th, x)
      PROVE  SetterType' /\ CountType' /\ SetterOf(th)' /\ Others /\ Reports
  <2> DEFINE pmin == get(x[1], x[2], "pmin", LOOKUP_FULL)
             found == [c \in {pmin} \ {Null} |-> Contents(c)]
  <2>1. /\ pc[th] = "notifying" /\ x \in todo[th]
        /\ held' = [held EXCEPT ![th] = found]
        /\ todo' = [todo EXCEPT ![th] = @ \ {x}]
        /\ at' = [at EXCEPT ![th] = x]
        /\ pc' = [pc EXCEPT ![th] = "checking"]
        /\ UNCHANGED <<change, asked, chosen, seen, dangling>>
        /\ UNCHANGED reportVars
    BY <1>2 DEF LookUpPmin
  <2>2. \A c \in {pmin} \ {Null} : c \in Cell /\ Contents(c) \in Int
    <3>1. x[1] \in Server /\ x[2] \in Level /\ "pmin" \in Period
      BY DEF Observation, Period
    <3> QED BY <3>1, LookupType
  <2>3. DOMAIN found \subseteq Cell /\ \A c \in DOMAIN found : found[c] \in Int
    BY <2>2
  <2> HIDE DEF found
  <2>4. SetterType'
    <3>1. (pc \in [Setter -> {"idle"} \cup Setting])'
      BY <1>0, <2>1 DEF SetterType, Setting
    <3> QED BY <1>0, <2>1, <3>1 DEF SetterType
  <2>5. CountType'
    BY <1>0, <1>2 DEF CountType, LookUpPmin, attrVars, valueVars
  <2>6. Others
    BY <1>0, <2>1 DEF SetterType, SettersOK
  <2>7. /\ pc'[th] = "checking" /\ at'[th] = x /\ held'[th] = found
        /\ todo'[th] = todo[th] \ {x} /\ dangling'[th] = dangling[th]
        /\ observers' = observers
    BY <1>0, <2>1 DEF SetterType, SettersOK, reportVars
  <2>8. HoldingOf(th)'
    BY <1>0, <2>1, <2>3, <2>7 DEF SetterOf, HoldingOf
  <2>9. ObservingOf(th)'
    BY <1>0, <2>1, <2>7 DEF SetterOf, ObservingOf
  <2> QED BY <1>1, <2>1, <2>4, <2>5, <2>6, <2>8, <2>9 DEF SetterOf
<1>3. ASSUME Check(th)
      PROVE  SetterType' /\ CountType' /\ SetterOf(th)' /\ Others /\ Reports
  <2>1. /\ pc[th] = "checking" /\ UNCHANGED <<todo, at, chosen, asked, change, observers>>
        /\ UNCHANGED reportVars
    BY <1>3 DEF Check, Fail, localVars, reportVars
  <2>2. CountType'
    BY <1>0, <1>3 DEF CountType, Check, Fail, attrVars, valueVars
  <2>3. at[th] \in Observation /\ observers[at[th]] # Null
    BY <1>0, <2>1 DEF SetterOf, ObservingOf
  <2>4. CASE UNCHANGED localVars /\ UNCHANGED dangling
    <3>1. SetterType' /\ Others
      BY <1>0, <2>4 DEF SetterType, localVars
    <3>2. SetterOf(th)'
      BY <1>0, <2>1, <2>4 DEF SetterOf, HoldingOf, ObservingOf, localVars
    <3> QED BY <1>1, <2>1, <2>2, <3>1, <3>2
  <2>5. CASE /\ LongAgo(th)
             /\ pc' = [pc EXCEPT ![th] = "executing"]
             /\ seen' = [seen EXCEPT ![th] = since[at[th]]]
             /\ UNCHANGED <<held, dangling>>
    <3>1. SetterType'
      <4>1. (pc \in [Setter -> {"idle"} \cup Setting])'
        BY <1>0, <2>5 DEF SetterType, Setting
      <4>2. (seen \in [Setter -> {Null} \cup Age])'
        BY <1>0, <2>3, <2>5 DEF SetterType, ReportType
      <4> QED BY <1>0, <2>1, <4>1, <4>2 DEF SetterType
    <3>2. Others
      BY <1>0, <2>1, <2>5 DEF SetterType
    <3>3. pc'[th] = "executing" /\ seen'[th] = since[at[th]]
      BY <1>0, <2>5 DEF SetterType
    <3>4. HoldingOf(th)'
      BY <1>0, <2>1, <2>5, <3>3 DEF SetterOf, HoldingOf
    <3>5. since[at[th]] = Null \/ \A c \in DOMAIN held[th] : held[th][c] < since[at[th]]
      BY <1>0, <2>3, <2>5 DEF Ages, LongAgo
    <3>6. ObservingOf(th)'
      BY <1>0, <2>1, <2>5, <3>3, <3>5 DEF SetterOf, ObservingOf
    <3> QED BY <1>1, <2>1, <2>2, <3>1, <3>2, <3>4, <3>6 DEF SetterOf
  <2>6. CASE /\ pc' = [pc EXCEPT ![th] = "notifying"]
             /\ LetGo(th)
             /\ UNCHANGED seen
    <3>1. SetterType'
      <4>1. (pc \in [Setter -> {"idle"} \cup Setting])'
        BY <1>0, <2>6 DEF SetterType, Setting
      <4> QED BY <1>0, <2>1, <2>6, <4>1 DEF SetterType
    <3>2. Others
      BY <1>0, <2>1, <2>6 DEF SetterType, SettersOK, LetGo
    <3>3. pc'[th] = "notifying" /\ DOMAIN held'[th] = {} /\ dangling'[th] = {}
      BY <1>0, <2>6 DEF SetterType, SettersOK, LetGo, NothingHeld
    <3>4. SetterOf(th)'
      BY <1>0, <2>1, <2>6, <3>3 DEF SetterOf, HoldingOf, ObservingOf
    <3> QED BY <1>1, <2>1, <2>2, <3>1, <3>2, <3>4
  <2> QED BY <1>3, <2>4, <2>5, <2>6 DEF Check, Fail
<1>4. ASSUME Execute(th)
      PROVE  SetterType' /\ CountType' /\ SetterOf(th)' /\ Others /\ Reports
  <2>1. /\ pc[th] = "executing" /\ Notified(at[th]) /\ LetGo(th)
        /\ pc' = [pc EXCEPT ![th] = "notifying"]
        /\ seen' = [seen EXCEPT ![th] = Null]
        /\ UNCHANGED <<todo, at, chosen, asked, change>>
    BY <1>4 DEF Execute
  <2>2. CountType'
    BY <1>0, <1>4 DEF CountType, Execute, attrVars, valueVars
  <2>3. Reports
    <3>1. at[th] \in Observation /\ observers[at[th]] # Null
      BY <1>0, <2>1 DEF SetterOf, ObservingOf
    <3> QED BY <1>0, <2>1, <3>1, NotifiedReports
  <2>4. SetterType'
    <3>1. (pc \in [Setter -> {"idle"} \cup Setting])'
      BY <1>0, <2>1 DEF SetterType, Setting
    <3> QED BY <1>0, <2>1, <3>1 DEF SetterType
  <2>5. Others
    BY <1>0, <2>1 DEF SetterType, SettersOK, LetGo
  <2>6. pc'[th] = "notifying" /\ DOMAIN held'[th] = {} /\ dangling'[th] = {}
    BY <1>0, <2>1 DEF SetterType, SettersOK, LetGo, NothingHeld
  <2>7. HoldingOf(th)'
    BY <2>6 DEF HoldingOf
  <2>8. ObservingOf(th)'
    <3>1. todo[th] \subseteq Observation
      BY <1>0 DEF SetterType
    <3> QED BY <1>0, <2>1, <2>3, <2>6, <3>1 DEF SetterOf, ObservingOf
  <2> QED BY <2>2, <2>3, <2>4, <2>5, <2>7, <2>8 DEF SetterOf
<1>5. ASSUME Return(th)
      PROVE  SetterType' /\ CountType' /\ SetterOf(th)' /\ Others /\ Reports
  <2>1. /\ pc[th] = "notifying" /\ pc' = [pc EXCEPT ![th] = "idle"]
        /\ change' = [change EXCEPT ![th] = <<Null, Null>>]
        /\ at' = [at EXCEPT ![th] = Null]
        /\ UNCHANGED <<asked, chosen, todo, held, seen, dangling>>
        /\ UNCHANGED reportVars
    BY <1>5 DEF Return
  <2>2. CountType'
    BY <1>0, <1>5 DEF CountType, Return, attrVars, valueVars
  <2>3. SetterType'
    BY <1>0, <2>1 DEF SetterType
  <2>4. Others
    BY <1>0, <2>1 DEF SetterType
  <2>5. pc'[th] = "idle" /\ observers' = observers
    BY <1>0, <2>1 DEF SetterType, reportVars
  <2>6. SetterOf(th)'
    BY <1>0, <2>1, <2>5 DEF SetterOf, HoldingOf, ObservingOf
  <2> QED BY <1>1, <2>1, <2>2, <2>3, <2>4, <2>6
<1>6. SetterType' /\ CountType' /\ SetterOf(th)' /\ Others /\ Reports
  BY <1>2, <1>3, <1>4, <1>5
<1> HIDE DEF Others
<1>7. \A u \in Setter : SetterOf(u)'
  BY <1>6, OthersStay DEF Others
<1> QED BY <1>6, <1>7 DEF SetInv

LEMMA SetInit ==
  ASSUME AttributesAssumption, Init
  PROVE  SetInv
<1>1. SetterType
  BY DEF Init, SetterType
<1>2. CountType
  BY DEF Init, CountType, AttributesAssumption
<1>3. ReportType /\ Ages
  BY DEF Init, ReportType, Ages
<1>4. ASSUME NEW th \in Setter
      PROVE  SetterOf(th)
  <2>1. pc[th] = "idle" /\ held[th] = NothingHeld /\ dangling[th] = {} /\ todo[th] = {}
    BY DEF Init
  <2>2. DOMAIN NothingHeld = {}
    BY DEF NothingHeld
  <2> QED BY <2>1, <2>2 DEF SetterOf, HoldingOf, ObservingOf
<1> QED BY <1>1, <1>2, <1>3, <1>4 DEF SetInv

LEMMA SetNext ==
  ASSUME AttributesAssumption, Inv, SetInv, [Next]_vars
  PROVE  SetInv'
<1>0. Kept /\ SettersOK /\ Comparing
  BY DEF Inv
<1>1. CASE UNCHANGED vars
  <2>1. UNCHANGED localVars /\ UNCHANGED <<observers, since, dangling>>
    BY <1>1 DEF vars, reportVars
  <2>2. CountType' /\ ReportType' /\ Ages'
    BY <1>1 DEF SetInv, vars, attrVars, valueVars, reportVars, CountType, ReportType, Ages
  <2>3. \A th \in Setter : dangling'[th] \subseteq DOMAIN held[th]
    BY <2>1 DEF SetInv, SetterOf, HoldingOf
  <2>4. \A x \in Observation : observers[x] # Null => observers'[x] # Null
    BY <2>1
  <2> QED BY <2>1, <2>2, <2>3, <2>4, SettersStay DEF SetInv
<1>2. CASE Next
  BY <1>0, <1>2, OutsideStep, ChoosingStep, NotifyingStep DEF Next
<1> QED BY <1>1, <1>2

(* Every variable keeps its type: whoever observes has a period, whatever  *)
(* a setter holds is an attribute or a default, and only that dangles.     *)
THEOREM TypeCorrect == ASSUME AttributesAssumption PROVE Spec => []TypeOK
<1>1. Init => Inv /\ SetInv
  BY InvInit, SetInit
<1>2. Inv /\ SetInv /\ [Next]_vars => (Inv /\ SetInv)'
  BY InvNext, SetNext
<1>3. Inv /\ SetInv => TypeOK
  BY DEF Inv, Kept, AttrsOK, SetInv, SetterType, CountType, ReportType, SetterOf, HoldingOf,
         TypeOK
<1> QED BY <1>1, <1>2, <1>3, PTL DEF Spec

(* set_value() does not notify within pmin of the last notification, unless *)
(* another thread's came between its looking at the time and its sending.  *)
THEOREM PminKept == ASSUME AttributesAssumption PROVE Spec => NotTooOften
<1> DEFINE Executing == \A th \in Setter :
             pc[th] = "executing" /\ pc'[th] = "notifying" =>
               LET last == since[at[th]]
               IN  \/ last = Null
                   \/ seen[th] = Null \/ last < seen[th]
                   \/ \A c \in DOMAIN held[th] : held[th][c] < last
<1>1. Init => Inv /\ SetInv
  BY InvInit, SetInit
<1>2. Inv /\ SetInv /\ [Next]_vars => (Inv /\ SetInv)'
  BY InvNext, SetNext
<1>3. Inv /\ SetInv => Executing
  <2> SUFFICES ASSUME SetInv, NEW th \in Setter, pc[th] = "executing",
                      since[at[th]] # Null, seen[th] # Null, ~(since[at[th]] < seen[th]),
                      NEW c \in DOMAIN held[th]
               PROVE  held[th][c] < since[at[th]]
    OBVIOUS
  <2>1. at[th] \in Observation /\ held[th][c] < seen[th] /\ held[th][c] \in Int
    BY DEF SetInv, SetterOf, HoldingOf, ObservingOf
  <2>2. since[at[th]] \in Int /\ seen[th] \in Int
    BY <2>1 DEF SetInv, ReportType, SetterType, Age
  <2> QED BY <2>1, <2>2
<1>4. Inv /\ SetInv /\ [Next]_vars => [Executing]_vars
  BY <1>3
<1> QED BY <1>1, <1>2, <1>4, PTL DEF Spec, NotTooOften

-----------------------------------------------------------------------------
(* What lies in memory of an int, its lowest bytes. *)
LEMMA LittleBytes ==
  ASSUME NEW v \in Int, NEW n \in 1..4
  PROVE  /\ Little(v, n) \in [1..n -> Byte]
         /\ Len(Little(v, n)) = n
         /\ Little(v, n)[1] = v % 256
         /\ n >= 2 => Little(v, n)[2] = (v \div 256) % 256
         /\ n >= 3 => Little(v, n)[3] = (v \div 65536) % 256
         /\ n >= 4 => Little(v, n)[4] = (v \div 16777216) % 256
<1>1. PICK w1, w2, w3, w4 : /\ w1 = v % 256 /\ w2 = (v \div 256) % 256
                            /\ w3 = (v \div 65536) % 256 /\ w4 = (v \div 16777216) % 256
  OBVIOUS
<1>2. w1 \in Byte /\ w2 \in Byte /\ w3 \in Byte /\ w4 \in Byte
  BY SMT, <1>1 DEF Byte
<1>3. Little(v, n) = SubSeq(<<w1, w2, w3, w4>>, 1, n)
  BY SMT, <1>1 DEF Little
<1>4. <<w1, w2, w3, w4>> \in Seq(Byte) /\ Len(<<w1, w2, w3, w4>>) = 4
  BY <1>2
<1>5. /\ Len(Little(v, n)) = n
      /\ Little(v, n) \in Seq(Byte)
      /\ \A k \in 1..n : Little(v, n)[k] = <<w1, w2, w3, w4>>[k]
  BY SMT, <1>3, <1>4
<1>6. Little(v, n) \in [1..n -> Byte]
  BY SMT, <1>5
<1> QED BY SMT, <1>1, <1>5, <1>6

LEMMA OneByteBack ==
  ASSUME NEW v \in Int
  PROVE  ParseInt(Little(v, 1)) = v % 256
<1>1. PICK b : b = Little(v, 1)
  OBVIOUS
<1>2. Len(b) = 1 /\ b[1] \in Byte /\ b[1] = v % 256
  BY SMT, <1>1, LittleBytes
<1>3. ParseInt(b) = b[1]
  BY SMT, <1>2 DEF ParseInt, Char, Byte
<1> QED BY SMT, <1>1, <1>2, <1>3

LEMMA TwoBytesBack ==
  ASSUME NEW v \in Int
  PROVE  ParseInt(Little(v, 2)) = ((v \div 256) % 256) + 256 * (v % 256)
<1>1. PICK b : b = Little(v, 2)
  OBVIOUS
<1>2. /\ Len(b) = 2 /\ b[1] = v % 256 /\ b[2] = (v \div 256) % 256
      /\ b[1] \in Byte /\ b[2] \in Byte
  BY SMT, <1>1, LittleBytes
<1>3. ParseInt(b) = b[2] + 256 * b[1]
  BY SMT, <1>2 DEF ParseInt, Char, Byte
<1> QED BY SMT, <1>1, <1>2, <1>3

LEMMA ThreeBytesBack ==
  ASSUME NEW v \in Int
  PROVE  ParseInt(Little(v, 3)) =
           ((v \div 65536) % 256) + 256 * ((v \div 256) % 256) + 65536 * (v % 256)
<1>1. PICK b : b = Little(v, 3)
  OBVIOUS
<1>2. /\ Len(b) = 3
      /\ b[1] = v % 256 /\ b[2] = (v \div 256) % 256 /\ b[3] = (v \div 65536) % 256
      /\ b[1] \in Byte /\ b[2] \in Byte /\ b[3] \in Byte
  BY SMT, <1>1, LittleBytes
<1>3. ParseInt(b) = b[3] + 256 * b[2] + 65536 * b[1]
  BY SMT, <1>2 DEF ParseInt, Char, Byte
<1> QED BY SMT, <1>1, <1>2, <1>3

LEMMA FourBytesBack ==
  ASSUME NEW v \in Int
  PROVE  ParseInt(Little(v, 4)) =
           ((v \div 16777216) % 256) + 256 * ((v \div 65536) % 256)
             + 65536 * ((v \div 256) % 256)
             + 16777216 * (IF v % 256 >= 128 THEN (v % 256) - 256 ELSE v % 256)
<1>1. PICK b : b = Little(v, 4)
  OBVIOUS
<1>2. /\ Len(b) = 4
      /\ b[1] = v % 256 /\ b[2] = (v \div 256) % 256
      /\ b[3] = (v \div 65536) % 256 /\ b[4] = (v \div 16777216) % 256
      /\ b[1] \in Byte /\ b[2] \in Byte /\ b[3] \in Byte /\ b[4] \in Byte
  BY SMT, <1>1, LittleBytes
<1>3. ParseInt(b) = b[4] + 256 * b[3] + 65536 * b[2]
                      + 16777216 * (IF b[1] >= 128 THEN b[1] - 256 ELSE b[1])
  <2>1. /\ b[1] \in Int /\ b[2] \in Int /\ b[3] \in Int /\ b[4] \in Int /\ Len(b) = 4
    BY SMT, <1>2 DEF Byte
  <2> QED BY SMT, <2>1 DEF ParseInt, Char
<1> QED BY SMT, <1>1, <1>2, <1>3

LEMMA ByteRange ==
  ASSUME NEW x \in Byte
  PROVE  x \in Int /\ 0 <= x /\ x <= 255
BY SMT DEF Byte

LEMMA ParsedRange ==
  ASSUME NEW b \in Seq(Byte), Len(b) \in 1..4
  PROVE  ParseInt(b) \in Int32
<1>1. \A k \in 1..Len(b) : b[k] \in Int /\ 0 <= b[k] /\ b[k] <= 255
  <2>1. \A k \in 1..Len(b) : b[k] \in Byte
    BY SMT
  <2> QED BY ONLY <2>1, ByteRange
<1>2. CASE Len(b) = 1
  <2>1. b[1] \in Int /\ 0 <= b[1] /\ b[1] <= 255
    BY SMT, <1>1, <1>2
  <2>2. ParseInt(b) = b[1]
    BY SMT, <1>2, <2>1 DEF ParseInt, Char
  <2> QED BY ONLY SMT, <2>1, <2>2 DEF Int32
<1>3. CASE Len(b) = 2
  <2>1. /\ b[1] \in Int /\ 0 <= b[1] /\ b[1] <= 255
        /\ b[2] \in Int /\ 0 <= b[2] /\ b[2] <= 255
    BY SMT, <1>1, <1>3
  <2>2. ParseInt(b) = b[2] + 256 * b[1]
    BY SMT, <1>3, <2>1 DEF ParseInt, Char
  <2> QED BY ONLY SMT, <2>1, <2>2 DEF Int32
<1>4. CASE Len(b) = 3
  <2>1. /\ b[1] \in Int /\ 0 <= b[1] /\ b[1] <= 255
        /\ b[2] \in Int /\ 0 <= b[2] /\ b[2] <= 255
        /\ b[3] \in Int /\ 0 <= b[3] /\ b[3] <= 255
    BY SMT, <1>1, <1>4
  <2>2. ParseInt(b) = b[3] + 256 * b[2] + 65536 * b[1]
    BY SMT, <1>4, <2>1 DEF ParseInt, Char
  <2>3. PICK n \in Int : n = b[3] + 256 * b[2] + 65536 * b[1] /\ 0 <= n /\ n <= 16777215
    BY ONLY SMT, <2>1
  <2>4. n \in Int32
    BY ONLY SMT, <2>3 DEF Int32
  <2> QED BY ONLY SMT, <2>2, <2>3, <2>4
<1>5. CASE Len(b) = 4
  <2>1. /\ b[1] \in Int /\ 0 <= b[1] /\ b[1] <= 255
        /\ b[2] \in Int /\ 0 <= b[2] /\ b[2] <= 255
        /\ b[3] \in Int /\ 0 <= b[3] /\ b[3] <= 255
        /\ b[4] \in Int /\ 0 <= b[4] /\ b[4] <= 255
    BY SMT, <1>1, <1>5
  <2>2. ParseInt(b) = b[4] + 256 * b[3] + 65536 * b[2]
                        + 16777216 * (IF b[1] >= 128 THEN b[1] - 256 ELSE b[1])
    BY SMT, <1>5, <2>1 DEF ParseInt, Char
  <2>3. PICK c \in Int : /\ c = (IF b[1] >= 128 THEN b[1] - 256 ELSE b[1])
                         /\ -128 <= c /\ c <= 127
    BY ONLY SMT, <2>1
  <2>4. PICK m \in Int : m = b[4] + 256 * b[3] + 65536 * b[2] /\ 0 <= m /\ m <= 16777215
    <3>1. PICK x \in Int, y \in Int, z \in Int :
            /\ x = b[4] /\ y = b[3] /\ z = b[2]
            /\ 0 <= x /\ x <= 255 /\ 0 <= y /\ y <= 255 /\ 0 <= z /\ z <= 255
      BY ONLY SMT, <2>1
    <3>2. PICK u \in Int : u = y + 256 * z /\ 0 <= u /\ u <= 65535
      BY ONLY SMT, <3>1, y \in Int, z \in Int
    <3>3. PICK m \in Int : m = x + 256 * u /\ 0 <= m /\ m <= 16777215
      <4>1. 0 <= x /\ x <= 255 /\ 0 <= u /\ u <= 65535
        BY ONLY SMT, <3>1, <3>2
      <4>2. x + 256 * u \in Int /\ 0 <= x + 256 * u /\ x + 256 * u <= 16777215
        BY ONLY SMT, <4>1, x \in Int, u \in Int
      <4> QED BY ONLY SMT, <4>2
    <3>4. m = x + 256 * y + 65536 * z
      BY ONLY SMT, <3>2, <3>3, x \in Int, y \in Int, z \in Int
    <3> QED BY ONLY SMT, <3>1, <3>3, <3>4
  <2>5. -128 <= c /\ c <= 127 /\ c \in Int
    BY ONLY SMT, <2>3
  <2>6. m + 16777216 * c \in Int32
    BY ONLY SMT, <2>4, <2>5 DEF Int32
  <2>7. ParseInt(b) = m + 16777216 * c
    BY ONLY SMT, <2>2, <2>3, <2>4
  <2> QED BY ONLY SMT, <2>6, <2>7
<1> QED BY SMT, <1>2, <1>3, <1>4, <1>5

LEMMA IntBytesRange ==
  ASSUME NEW v \in Int
  PROVE  IntBytes(v) \in 1..4
BY SMT DEF IntBytes

LEMMA Int32Range ==
  ASSUME NEW v \in Int32
  PROVE  v \in Int /\ v <= 2147483647
BY SMT DEF Int32

(* An INTEGER comes back if it is the same from either end. *)
LEMMA IntBack ==
  ASSUME NEW v \in Int32
  PROVE  ParseInt(Little(v, IntBytes(v))) = v <=> PortableInt(v)
<1>0. v \in Int /\ v <= 2147483647
  BY Int32Range
<1>1. CASE v < 255
  <2>1. ParseInt(Little(v, 1)) = v % 256 /\ IntBytes(v) = 1
    BY SMT, <1>0, <1>1, OneByteBack DEF IntBytes
  <2>2. PortableInt(v) <=> v >= 0
    BY ONLY SMT, <1>0, <2>1 DEF PortableInt
  <2> QED BY SMT, <1>0, <1>1, <2>1, <2>2
<1>2. CASE 255 <= v /\ v < 65535
  <2>1. /\ ParseInt(Little(v, 2)) = ((v \div 256) % 256) + 256 * (v % 256)
        /\ IntBytes(v) = 2
    <3>1. IntBytes(v) = 2
      BY ONLY SMT, <1>0, <1>2 DEF IntBytes
    <3>2. ParseInt(Little(v, 2)) = ((v \div 256) % 256) + 256 * (v % 256)
      BY ONLY SMT, <1>0, TwoBytesBack
    <3> QED BY <3>1, <3>2
  <2>2. PortableInt(v) <=> v \div 256 = v % 256
    BY SMT, <1>0, <1>2, <2>1 DEF PortableInt
  <2> QED BY SMT, <1>0, <1>2, <2>1, <2>2
<1>3. CASE 65535 <= v /\ v < 16777215
  <2>1. /\ ParseInt(Little(v, 3)) =
             ((v \div 65536) % 256) + 256 * ((v \div 256) % 256) + 65536 * (v % 256)
        /\ IntBytes(v) = 3
    BY SMT, <1>0, <1>3, ThreeBytesBack DEF IntBytes
  <2>2. PortableInt(v) <=> v \div 65536 = v % 256
    BY SMT, <1>0, <1>3, <2>1 DEF PortableInt
  <2> QED BY SMT, <1>0, <1>3, <2>1, <2>2
<1>4. CASE v >= 16777215
  <2>1. /\ ParseInt(Little(v, 4)) =
             ((v \div 16777216) % 256) + 256 * ((v \div 65536) % 256)
               + 65536 * ((v \div 256) % 256)
               + 16777216 * (IF v % 256 >= 128 THEN (v % 256) - 256 ELSE v % 256)
        /\ IntBytes(v) = 4
    BY SMT, <1>0, <1>4, FourBytesBack DEF IntBytes
  <2>2. PortableInt(v) <=>
          v \div 16777216 = v % 256 /\ (v \div 65536) % 256 = (v \div 256) % 256
    BY SMT, <1>0, <1>4, <2>1 DEF PortableInt
  <2> QED BY SMT, <1>0, <1>4, <2>1, <2>2
<1> QED BY SMT, <1>0, <1>1, <1>2, <1>3, <1>4

LEMMA CharRange ==
  ASSUME NEW s \in BOOLEAN, NEW b \in Byte
  PROVE  Char(s, b) \in Int /\ -128 <= Char(s, b) /\ Char(s, b) <= 255 /\ (~s => Char(s, b) = b)
BY SMT DEF Char, Byte

LEMMA TlvIdRange ==
  ASSUME NEW s \in BOOLEAN, NEW b \in Seq(Byte), Len(b) \in 1..2
  PROVE  /\ TlvId(s, b) \in Int /\ -32896 <= TlvId(s, b) /\ TlvId(s, b) <= 65535
         /\ ~s => TlvId(s, b) >= 0
<1>1. b[1] \in Byte /\ (Len(b) = 2 => b[2] \in Byte)
  BY SMT
<1>2. PICK c \in Int : c = Char(s, b[1]) /\ -128 <= c /\ c <= 255 /\ (~s => c >= 0)
  BY ONLY SMT, <1>1, CharRange, ByteRange, s \in BOOLEAN
<1>3. CASE Len(b) = 1
  <2>1. TlvId(s, b) = c
    BY ONLY SMT, <1>2, <1>3 DEF TlvId
  <2> QED BY ONLY SMT, <1>2, <2>1
<1>4. CASE Len(b) = 2
  <2>1. PICK d \in Int : d = Char(s, b[2]) /\ -128 <= d /\ d <= 255 /\ (~s => d >= 0)
    BY ONLY SMT, <1>1, <1>4, CharRange, ByteRange, s \in BOOLEAN
  <2>2. TlvId(s, b) = 256 * d + c
    BY ONLY SMT, <1>2, <1>4, <2>1 DEF TlvId
  <2> QED BY ONLY SMT, <1>2, <2>1, <2>2
<1> QED BY SMT, <1>3, <1>4

LEMMA TlvLengthType ==
  ASSUME NEW s \in BOOLEAN, NEW b \in Seq(Byte), Len(b) \in 1..3
  PROVE  TlvLength(s, b) \in Int
<1>1. \A k \in 1..Len(b) : b[k] \in Byte
  BY SMT
<1>2. \A k \in 1..Len(b) : b[k] \in Int
  BY ONLY SMT, <1>1, ByteRange
<1>3. CASE Len(b) = 1
  <2>1. Char(s, b[1]) \in Int
    BY SMT, <1>1, <1>3, CharRange
  <2> QED BY ONLY SMT, <1>3, <2>1 DEF TlvLength
<1>4. CASE Len(b) = 2
  <2>1. PICK x \in Int, y \in Int : x = b[1] /\ y = b[2]
    BY ONLY SMT, <1>2, <1>4
  <2>2. TlvLength(s, b) = 256 * x + y
    BY ONLY SMT, <1>4, <2>1 DEF TlvLength
  <2> QED BY ONLY SMT, <2>1, <2>2
<1>5. CASE Len(b) = 3
  <2>1. PICK x \in Int, y \in Int, z \in Int : x = b[1] /\ y = b[2] /\ z = b[3]
    BY ONLY SMT, <1>2, <1>5
  <2>2. TlvLength(s, b) = 65536 * x + 256 * y + z
    BY ONLY SMT, <1>5, <2>1 DEF TlvLength
  <2>3. PICK n \in Int : n = 65536 * x + 256 * y + z
    BY ONLY SMT, x \in Int, y \in Int, z \in Int
  <2> QED BY ONLY SMT, <2>2, <2>3
<1> QED BY SMT, <1>3, <1>4, <1>5

(* The parts of the element after the first p bytes. *)
IdBytes(bits) == IF (bits \div 32) % 2 = 0 THEN 1 ELSE 2
LengthBytes(bits) == (bits \div 8) % 4
ValueStart(m, p) == p + 1 + IdBytes(m[p + 1]) + LengthBytes(m[p + 1])
IdField(m, p) == SubSeq(m, p + 2, p + 1 + IdBytes(m[p + 1]))
FieldOf(m, p) == SubSeq(m, p + 2 + IdBytes(m[p + 1]), ValueStart(m, p))
ValueLength(s, m, p) ==
  IF LengthBytes(m[p + 1]) = 0 THEN m[p + 1] % 8 ELSE TlvLength(s, FieldOf(m, p))

Lost(s, m, p) ==
  \/ Len(m) < ValueStart(m, p)
  \/ ValueLength(s, m, p) < 0
  \/ Len(m) < ValueStart(m, p) + ValueLength(s, m, p)

LEMMA ParsedLost ==
  ASSUME NEW s, NEW m, NEW p, Lost(s, m, p)
  PROVE  Parsed(s, m, p) = [element |-> Astray, next |-> Len(m)]
BY DEF Lost, Parsed, ValueStart, ValueLength, IdBytes, LengthBytes, FieldOf

LEMMA ParsedFound ==
  ASSUME NEW s, NEW m, NEW p, ~Lost(s, m, p)
  PROVE  Parsed(s, m, p) =
           [element |->
              [kind  |-> m[p + 1] \div 64,
               id    |-> TlvId(s, IdField(m, p)),
               value |-> SubSeq(m, ValueStart(m, p) + 1,
                                ValueStart(m, p) + ValueLength(s, m, p))],
            next |-> ValueStart(m, p) + ValueLength(s, m, p)]
BY DEF Lost, Parsed, ValueStart, ValueLength, IdBytes, LengthBytes, IdField, FieldOf

LEMMA SomeBytes ==
  ASSUME NEW m \in Seq(Byte), NEW i \in Int, NEW j \in Int, 1 <= i, i <= j + 1, j <= Len(m)
  PROVE  /\ SubSeq(m, i, j) \in Seq(Byte)
         /\ Len(SubSeq(m, i, j)) = j + 1 - i
         /\ \A k \in 1..(j + 1 - i) : SubSeq(m, i, j)[k] = m[i + k - 1]
BY SMT

LEMMA ValueStartRange ==
  ASSUME NEW m \in Seq(Byte), NEW p \in Nat, p < Len(m)
  PROVE  /\ IdBytes(m[p + 1]) \in 1..2
         /\ LengthBytes(m[p + 1]) \in 0..3
         /\ ValueStart(m, p) \in Nat
         /\ p + 2 <= ValueStart(m, p)
<1>1. m[p + 1] \in Byte
  BY SMT
<1>2. PICK n \in Int : n = m[p + 1] /\ 0 <= n /\ n <= 255
  BY ONLY SMT, <1>1, ByteRange
<1>3. IdBytes(n) \in 1..2 /\ LengthBytes(n) \in 0..3
  BY ONLY SMT, <1>2 DEF IdBytes, LengthBytes
<1> QED BY ONLY SMT, <1>2, <1>3, p \in Nat DEF ValueStart

LEMMA ParsedType ==
  ASSUME NEW s \in BOOLEAN, NEW m \in Seq(Byte), NEW p \in Nat, p < Len(m),
         NEW e, e = Parsed(s, m, p).element
  PROVE  /\ Parsed(s, m, p).next \in Nat
         /\ p + 1 <= Parsed(s, m, p).next /\ Parsed(s, m, p).next <= Len(m)
         /\ e.value \in Seq(Byte)
         /\ e.id \in Int /\ -32896 <= e.id /\ e.id <= 65535
         /\ e # Astray /\ ~s => e.id >= 0
<1>0. Len(m) \in Nat
  BY SMT
<1>1. CASE Lost(s, m, p)
  <2>1. Parsed(s, m, p).element = Astray /\ Parsed(s, m, p).next = Len(m)
    BY ParsedLost, <1>1
  <2>2. Astray.id = -1 /\ Astray.value = <<>> /\ <<>> \in Seq(Byte)
    BY SMT DEF Astray
  <2> QED BY SMT, <1>0, <2>1, <2>2
<1>2. CASE ~Lost(s, m, p)
  <2>1. /\ IdBytes(m[p + 1]) \in 1..2
        /\ LengthBytes(m[p + 1]) \in 0..3
        /\ ValueStart(m, p) \in Nat /\ p + 2 <= ValueStart(m, p)
    BY ValueStartRange
  <2>2. ValueStart(m, p) <= Len(m)
    BY SMT, <1>0, <1>2, <2>1 DEF Lost
  <2>3. /\ IdField(m, p) \in Seq(Byte)
        /\ Len(IdField(m, p)) = IdBytes(m[p + 1])
    <3>1. PICK i \in 1..2 : i = IdBytes(m[p + 1])
      BY <2>1
    <3>2. p + 1 + i <= Len(m)
      BY SMT, <1>0, <2>1, <2>2, <3>1 DEF ValueStart
    <3>3. PICK j \in Int : j = p + 1 + i
      OBVIOUS
    <3>4. p + 2 \in Int /\ 1 <= p + 2 /\ p + 2 <= j + 1 /\ j <= Len(m) /\ j + 1 - (p + 2) = i
      BY SMT, <1>0, <3>2, <3>3
    <3>5. SubSeq(m, p + 2, j) \in Seq(Byte) /\ Len(SubSeq(m, p + 2, j)) = i
      BY SMT, <3>4, SomeBytes
    <3> QED BY SMT, <3>1, <3>3, <3>5 DEF IdField
  <2>4. ValueLength(s, m, p) \in Int
    <3>1. CASE LengthBytes(m[p + 1]) = 0
      <4>1. m[p + 1] \in Byte
        BY SMT
      <4>2. m[p + 1] \in Int
        BY ONLY SMT, <4>1, ByteRange
      <4> QED BY ONLY SMT, <3>1, <4>2 DEF ValueLength
    <3>2. CASE LengthBytes(m[p + 1]) # 0
      <4>1. /\ FieldOf(m, p) \in Seq(Byte)
            /\ Len(FieldOf(m, p)) = LengthBytes(m[p + 1])
        <5>1. PICK i \in 1..2, l \in 0..3 : i = IdBytes(m[p + 1]) /\ l = LengthBytes(m[p + 1])
          BY <2>1
        <5>2. PICK k \in Int, j \in Int : k = p + 2 + i /\ j = p + 1 + i + l
          BY <5>1
        <5>3. j = ValueStart(m, p)
          BY <5>1, <5>2 DEF ValueStart
        <5>4. 1 <= k /\ k <= j + 1 /\ j <= Len(m) /\ j + 1 - k = l
          <6>1. j <= Len(m)
            BY ONLY Zenon, <2>2, <5>3
          <6> QED BY ONLY SMT, <6>1, <5>2, p \in Nat, i \in 1..2, l \in 0..3, k \in Int, j \in Int
        <5>5. SubSeq(m, k, j) \in Seq(Byte) /\ Len(SubSeq(m, k, j)) = l
          BY SMT, <5>4, SomeBytes
        <5> QED BY <5>1, <5>2, <5>3, <5>5 DEF FieldOf
      <4>2. Len(FieldOf(m, p)) \in 1..3
        BY SMT, <2>1, <3>2, <4>1
      <4>3. TlvLength(s, FieldOf(m, p)) \in Int
        BY <4>1, <4>2, TlvLengthType
      <4> QED BY <3>2, <4>3 DEF ValueLength
    <3> QED BY <3>1, <3>2
  <2>5. /\ 0 <= ValueLength(s, m, p)
        /\ ValueStart(m, p) + ValueLength(s, m, p) <= Len(m)
    BY SMT, <1>0, <1>2, <2>1, <2>4 DEF Lost
  <2>6. SubSeq(m, ValueStart(m, p) + 1, ValueStart(m, p) + ValueLength(s, m, p)) \in Seq(Byte)
    BY SMT, <1>0, <2>1, <2>4, <2>5, SomeBytes
  <2>7. /\ TlvId(s, IdField(m, p)) \in Int
        /\ -32896 <= TlvId(s, IdField(m, p)) /\ TlvId(s, IdField(m, p)) <= 65535
        /\ ~s => TlvId(s, IdField(m, p)) >= 0
    <3>1. Len(IdField(m, p)) \in 1..2
      BY <2>1, <2>3
    <3>2. PICK b \in Seq(Byte) : b = IdField(m, p) /\ Len(b) \in 1..2
      BY <2>3, <3>1
    <3>3. /\ TlvId(s, b) \in Int /\ -32896 <= TlvId(s, b) /\ TlvId(s, b) <= 65535
          /\ ~s => TlvId(s, b) >= 0
      BY SMT, <3>2, TlvIdRange
    <3> QED BY SMT, <3>2, <3>3
  <2>8. /\ Parsed(s, m, p).element.id = TlvId(s, IdField(m, p))
        /\ Parsed(s, m, p).element.value =
             SubSeq(m, ValueStart(m, p) + 1, ValueStart(m, p) + ValueLength(s, m, p))
        /\ Parsed(s, m, p).next = ValueStart(m, p) + ValueLength(s, m, p)
    BY ParsedFound, <1>2
  <2>9. PICK start \in Nat, n \in Int : start = ValueStart(m, p) /\ n = ValueLength(s, m, p)
    BY <2>1, <2>4
  <2>10. /\ start + n \in Nat /\ p + 1 <= start + n /\ start + n <= Len(m)
         /\ Parsed(s, m, p).next = start + n
    <3>1. p + 2 <= start /\ 0 <= n /\ start + n <= Len(m) /\ Parsed(s, m, p).next = start + n
      BY <2>1, <2>5, <2>8, <2>9
    <3>2. start + n \in Nat
      BY SMT, <3>1
    <3>3. p + 1 <= start + n
      BY SMT, <3>1
    <3> QED BY <3>1, <3>2, <3>3
  <2>11. e.id = TlvId(s, IdField(m, p)) /\ e.value \in Seq(Byte)
    BY <2>6, <2>8
  <2> QED BY SMT, <2>7, <2>10, <2>11
<1> QED BY <1>1, <1>2

-----------------------------------------------------------------------------
(* What has been read after up to n elements, and where the next starts. *)
Nought == [elements |-> <<>>, next |-> 0]

OneMore(s, m, before) ==
  IF before.next = Len(m) THEN before
  ELSE [elements |-> Append(before.elements, Parsed(s, m, before.next).element),
        next     |-> Parsed(s, m, before.next).next]

Reads(r, s, m, k) ==
  /\ r = [n \in 0..k |-> r[n]]
  /\ r[0] = Nought
  /\ \A n \in 1..k : r[n] = OneMore(s, m, r[n - 1])

LEMMA ReadsExist ==
  ASSUME NEW s, NEW m, NEW N \in Nat
  PROVE  \E r : Reads(r, s, m, N)
<1> DEFINE T == {k \in Nat : ~ \E r : Reads(r, s, m, k)}
<1>1. SUFFICES T = {}
  BY <1>1
<1>2. SUFFICES ASSUME T # {} PROVE FALSE
  BY <1>2
<1>3. PICK k \in T : \A j \in T : k <= j
  BY <1>2, LeastNatural
<1>4. CASE k = 0
  <2>1. Reads([n \in 0..0 |-> Nought], s, m, 0)
    BY SMT DEF Reads
  <2> QED BY <1>4, <2>1
<1>5. CASE k # 0
  <2>1. k \in Nat /\ k - 1 \in Nat /\ ~(k <= k - 1)
    BY <1>5
  <2>2. PICK r : Reads(r, s, m, k - 1)
    BY <1>3, <2>1
  <2> DEFINE g == [n \in 0..k |-> IF n = k THEN OneMore(s, m, r[k - 1]) ELSE r[n]]
  <2>3. /\ g = [n \in 0..k |-> g[n]]
        /\ g[0] = Nought
        /\ \A n \in 0..(k - 1) : g[n] = r[n]
        /\ g[k] = OneMore(s, m, r[k - 1])
    BY SMT, <1>5, <2>1, <2>2 DEF Reads
  <2>4. \A n \in 1..k : g[n] = OneMore(s, m, g[n - 1])
    <3> TAKE n \in 1..k
    <3>1. n - 1 \in 0..(k - 1)
      BY <2>1
    <3>2. g[n - 1] = r[n - 1]
      BY <2>3, <3>1
    <3>3. CASE n = k
      BY <2>3, <3>2, <3>3
    <3>4. CASE n # k
      <4>1. n \in 0..(k - 1) /\ n \in 1..(k - 1)
        BY <2>1, <3>4
      <4>2. r[n] = OneMore(s, m, r[n - 1])
        BY <2>2, <4>1 DEF Reads
      <4> QED BY <2>3, <3>2, <4>1, <4>2
    <3> QED BY <3>3, <3>4
  <2> HIDE DEF g
  <2>5. Reads(g, s, m, k)
    BY <2>3, <2>4 DEF Reads
  <2> QED BY <2>5
<1> QED BY <1>4, <1>5

(* The reader's loop is defined for every message. *)
LEMMA ElementsRead ==
  ASSUME NEW s, NEW m \in Seq(Byte)
  PROVE  \E r : /\ Reads(r, s, m, Len(m))
                /\ Elements(s, m) = r[CHOOSE n \in 0..Len(m) : r[n].next = Len(m)].elements
<1> DEFINE body(h) == [n \in 0..Len(m) |->
                         IF n = 0 THEN [elements |-> <<>>, next |-> 0]
                         ELSE IF h[n - 1].next = Len(m) THEN h[n - 1]
                              ELSE [elements |-> Append(h[n - 1].elements,
                                                        Parsed(s, m, h[n - 1].next).element),
                                    next     |-> Parsed(s, m, h[n - 1].next).next]]
<1> DEFINE read == CHOOSE h : h = body(h)
<1>0. Len(m) \in Nat
  BY SMT
<1>1. PICK r : Reads(r, s, m, Len(m))
  BY <1>0, ReadsExist
<1>2. r = body(r)
  <2>1. \A n \in 0..Len(m) : n # 0 => n \in 1..Len(m)
    BY <1>0
  <2> QED BY <1>1, <2>1 DEF Reads, Nought, OneMore
<1>3. read = body(read)
  BY <1>2
<1>4. Reads(read, s, m, Len(m))
  <2> HIDE DEF read
  <2>1. \A n \in 1..Len(m) : n # 0 /\ n \in 0..Len(m) /\ 0 \in 0..Len(m)
    BY <1>0
  <2>2. DOMAIN read = 0..Len(m)
    BY <1>3
  <2>3. read = [n \in 0..Len(m) |-> read[n]]
    BY <1>3, <2>2
  <2>4. read[0] = Nought
    BY <1>0, <1>3 DEF Nought
  <2>5. \A n \in 1..Len(m) : read[n] = OneMore(s, m, read[n - 1])
    BY <1>3, <2>1 DEF OneMore
  <2> QED BY <2>3, <2>4, <2>5 DEF Reads
<1>5. Elements(s, m) = read[CHOOSE n \in 0..Len(m) : read[n].next = Len(m)].elements
  BY DEF Elements
<1> QED BY <1>4, <1>5

ElementsIn(s, m) == {Parsed(s, m, p).element : p \in 0..(Len(m) - 1)}

ReadSoFar(s, m, n, state) ==
  /\ state.next \in Nat /\ n <= state.next /\ state.next <= Len(m)
  /\ state.elements \in Seq(ElementsIn(s, m))

LEMMA ReadsSoFar ==
  ASSUME NEW s \in BOOLEAN, NEW m \in Seq(Byte), NEW r, Reads(r, s, m, Len(m)),
         NEW n \in 0..Len(m)
  PROVE  ReadSoFar(s, m, n, r[n])
<1>0. Len(m) \in Nat
  BY SMT
<1> DEFINE T == {k \in Nat : k <= Len(m) /\ ~ReadSoFar(s, m, k, r[k])}
<1>1. SUFFICES ASSUME T # {} PROVE FALSE
  <2>1. n \in Nat /\ n <= Len(m)
    BY <1>0
  <2> QED BY <1>1, <2>1
<1>2. PICK k \in T : \A j \in T : k <= j
  BY <1>1, LeastNatural
<1>3. CASE k = 0
  <2>1. Nought.next = 0 /\ Nought.elements = <<>> /\ <<>> \in Seq(ElementsIn(s, m))
    BY SMT DEF Nought
  <2> QED BY SMT, <1>0, <1>2, <1>3, <2>1 DEF Reads, ReadSoFar
<1>4. CASE k # 0
  <2>1. k - 1 \in Nat /\ k - 1 <= Len(m) /\ ~(k <= k - 1) /\ k \in 1..Len(m)
    BY <1>0, <1>4
  <2>2. ReadSoFar(s, m, k - 1, r[k - 1])
    BY <1>2, <2>1
  <2>3. r[k] = OneMore(s, m, r[k - 1])
    BY <2>1 DEF Reads
  <2>4. PICK p \in Nat : p = r[k - 1].next /\ k - 1 <= p /\ p <= Len(m)
    BY <2>2 DEF ReadSoFar
  <2>5. CASE p = Len(m)
    <3>1. r[k] = r[k - 1]
      BY <2>3, <2>4, <2>5 DEF OneMore
    <3>2. k <= p
      BY <2>1, <2>5
    <3> QED BY <1>2, <2>2, <2>4, <3>1, <3>2 DEF ReadSoFar
  <2>6. CASE p # Len(m)
    <3>1. p < Len(m) /\ p \in 0..(Len(m) - 1)
      BY <1>0, <2>4, <2>6
    <3>2. /\ r[k].elements = Append(r[k - 1].elements, Parsed(s, m, p).element)
          /\ r[k].next = Parsed(s, m, p).next
      BY <2>3, <2>4, <2>6 DEF OneMore
    <3>3. PICK q \in Nat : q = Parsed(s, m, p).next /\ p + 1 <= q /\ q <= Len(m)
      BY <3>1, ParsedType
    <3>4. k <= q
      BY <2>1, <2>4, <3>3
    <3>5. Parsed(s, m, p).element \in ElementsIn(s, m)
      BY <3>1 DEF ElementsIn
    <3>6. r[k].elements \in Seq(ElementsIn(s, m))
      BY <2>2, <3>2, <3>5, AppendProperties DEF ReadSoFar
    <3> QED BY <1>2, <3>2, <3>3, <3>4, <3>6 DEF ReadSoFar
  <2> QED BY <2>5, <2>6
<1> QED BY <1>3, <1>4

(* What has been read stays, and at the end of the message no more comes.  *)
Keeps(m, before, now) ==
  /\ Len(before.elements) <= Len(now.elements)
  /\ \A i \in 1..Len(before.elements) : now.elements[i] = before.elements[i]
  /\ before.next = Len(m) => now = before

LEMMA ReadsKeep ==
  ASSUME NEW s \in BOOLEAN, NEW m \in Seq(Byte), NEW r, Reads(r, s, m, Len(m)),
         NEW k \in 0..Len(m), NEW n \in k..Len(m)
  PROVE  Keeps(m, r[k], r[n])
<1>0. Len(m) \in Nat
  BY SMT
<1> DEFINE T == {j \in Nat : k <= j /\ j <= Len(m) /\ ~Keeps(m, r[k], r[j])}
<1>1. SUFFICES ASSUME T # {} PROVE FALSE
  <2>1. n \in Nat /\ k <= n /\ n <= Len(m)
    BY <1>0
  <2> QED BY <1>1, <2>1
<1>2. PICK j \in T : \A i \in T : j <= i
  BY <1>1, LeastNatural
<1>3. \A i \in 0..Len(m) : r[i].elements \in Seq(ElementsIn(s, m))
  BY ReadsSoFar DEF ReadSoFar
<1>4. PICK a \in Nat : a = Len(r[k].elements)
  BY <1>3, LenProperties
<1>5. CASE j = k
  BY <1>2, <1>4, <1>5 DEF Keeps
<1>6. CASE j # k
  <2>1. /\ j - 1 \in Nat /\ k <= j - 1 /\ j - 1 <= Len(m) /\ ~(j <= j - 1)
        /\ j \in 1..Len(m) /\ j - 1 \in 0..Len(m)
    BY <1>0, <1>2, <1>6
  <2>2. Keeps(m, r[k], r[j - 1])
    BY <1>2, <2>1
  <2>3. r[j] = OneMore(s, m, r[j - 1])
    BY <2>1 DEF Reads
  <2>4. CASE r[j - 1].next = Len(m)
    <3>1. r[j] = r[j - 1]
      BY <2>3, <2>4 DEF OneMore
    <3> QED BY <1>2, <2>2, <3>1
  <2>5. CASE r[j - 1].next # Len(m)
    <3>1. r[k].next # Len(m)
      BY <2>2, <2>5 DEF Keeps
    <3>2. PICK e : r[j].elements = Append(r[j - 1].elements, e)
      BY <2>3, <2>5 DEF OneMore
    <3>3. PICK q : q = r[j - 1].elements /\ q \in Seq(ElementsIn(s, m))
      BY <1>3, <2>1
    <3>4. Len(q) \in Nat /\ a <= Len(q)
      BY <1>4, <2>2, <3>3, LenProperties DEF Keeps
    <3>5. Len(Append(q, e)) = Len(q) + 1 /\ \A i \in 1..Len(q) : Append(q, e)[i] = q[i]
      BY <3>3, AppendProperties
    <3>6. /\ a <= Len(Append(q, e))
          /\ \A i \in 1..a : i \in 1..Len(q)
      BY <3>4, <3>5
    <3>7. \A i \in 1..a : Append(q, e)[i] = r[k].elements[i]
      BY <1>4, <2>2, <3>3, <3>5, <3>6 DEF Keeps
    <3> QED BY <1>2, <1>4, <3>1, <3>2, <3>3, <3>6, <3>7 DEF Keeps
  <2> QED BY <2>4, <2>5
<1> QED BY <1>5, <1>6

(* What the loop ends with has been read element by element. *)
LEMMA ElementsKeep ==
  ASSUME NEW s \in BOOLEAN, NEW m \in Seq(Byte)
  PROVE  \E r : /\ Reads(r, s, m, Len(m))
                /\ \A k \in 0..Len(m) :
                     /\ ReadSoFar(s, m, k, r[k])
                     /\ Len(r[k].elements) <= Len(Elements(s, m))
                     /\ \A i \in 1..Len(r[k].elements) : Elements(s, m)[i] = r[k].elements[i]
                     /\ r[k].next = Len(m) => Elements(s, m) = r[k].elements
                /\ Elements(s, m) \in Seq(ElementsIn(s, m))
<1>0. Len(m) \in Nat
  BY SMT
<1>1. PICK r : /\ Reads(r, s, m, Len(m))
               /\ Elements(s, m) = r[CHOOSE n \in 0..Len(m) : r[n].next = Len(m)].elements
  BY ElementsRead
<1>2. \A k \in 0..Len(m) : ReadSoFar(s, m, k, r[k])
  BY <1>1, ReadsSoFar
<1>3. \E n \in 0..Len(m) : r[n].next = Len(m)
  <2>1. Len(m) \in 0..Len(m)
    BY <1>0
  <2>2. r[Len(m)].next \in Nat /\ Len(m) <= r[Len(m)].next /\ r[Len(m)].next <= Len(m)
    BY <1>2, <2>1 DEF ReadSoFar
  <2>3. r[Len(m)].next = Len(m)
    BY <1>0, <2>2
  <2> QED BY <2>1, <2>3
<1>4. PICK z \in 0..Len(m) : r[z].next = Len(m) /\ Elements(s, m) = r[z].elements
  BY <1>1, <1>3
<1>5. ASSUME NEW k \in 0..Len(m)
      PROVE  /\ Len(r[k].elements) <= Len(Elements(s, m))
             /\ \A i \in 1..Len(r[k].elements) : Elements(s, m)[i] = r[k].elements[i]
             /\ r[k].next = Len(m) => Elements(s, m) = r[k].elements
  <2>1. CASE k <= z
    <3>1. z \in k..Len(m)
      BY <1>0, <2>1
    <3> QED BY <1>1, <1>4, <3>1, ReadsKeep DEF Keeps
  <2>2. CASE ~(k <= z)
    <3>1. k \in z..Len(m)
      BY <1>0, <2>2
    <3>2. r[k] = r[z]
      BY <1>1, <1>4, <3>1, ReadsKeep DEF Keeps
    <3>3. Len(r[z].elements) \in Nat
      BY <1>2, LenProperties DEF ReadSoFar
    <3> QED BY <1>4, <3>2, <3>3
  <2> QED BY <2>1, <2>2
<1>6. Elements(s, m) \in Seq(ElementsIn(s, m))
  BY <1>2, <1>4 DEF ReadSoFar
<1> QED BY <1>1, <1>2, <1>5, <1>6

(* An element that is found has an id that fits and a value of bytes. *)
LEMMA ElementFound ==
  ASSUME NEW s \in BOOLEAN, NEW m \in Seq(Byte), NEW n \in DOMAIN Elements(s, m)
  PROVE  /\ Elements(s, m)[n].value \in Seq(Byte)
         /\ Elements(s, m)[n].id \in Int
         /\ -32896 <= Elements(s, m)[n].id /\ Elements(s, m)[n].id <= 65535
         /\ Elements(s, m)[n] # Astray /\ ~s => Elements(s, m)[n].id >= 0
<1>0. Len(m) \in Nat
  BY SMT
<1>1. Elements(s, m)[n] \in ElementsIn(s, m)
  BY ElementsKeep, ElementOfSeq, LenProperties
<1>2. PICK p \in 0..(Len(m) - 1) : Elements(s, m)[n] = Parsed(s, m, p).element
  BY <1>1 DEF ElementsIn
<1>3. p \in Nat /\ p < Len(m)
  BY <1>0
<1>4. PICK e : e = Elements(s, m)[n] /\ e = Parsed(s, m, p).element
  BY <1>2
<1>5. /\ e.value \in Seq(Byte)
      /\ e.id \in Int /\ -32896 <= e.id /\ e.id <= 65535
      /\ e # Astray /\ ~s => e.id >= 0
  BY SMT, <1>3, <1>4, ParsedType
<1> QED BY SMT, <1>4, <1>5

(* Of what is not empty there is a first element. *)
LEMMA FirstElement ==
  ASSUME NEW s \in BOOLEAN, NEW m \in Seq(Byte), m # <<>>
  PROVE  /\ 1 \in DOMAIN Elements(s, m)
         /\ Elements(s, m)[1] = Parsed(s, m, 0).element
         /\ Parsed(s, m, 0).next # Len(m) => 2 \in DOMAIN Elements(s, m)
         /\ Parsed(s, m, 0).next = Len(m) => Elements(s, m) = <<Parsed(s, m, 0).element>>
<1>0. Len(m) \in Nat /\ 1 <= Len(m)
  BY SMT
<1>1. PICK r : /\ Reads(r, s, m, Len(m))
               /\ \A k \in 0..Len(m) :
                    /\ ReadSoFar(s, m, k, r[k])
                    /\ Len(r[k].elements) <= Len(Elements(s, m))
                    /\ \A i \in 1..Len(r[k].elements) : Elements(s, m)[i] = r[k].elements[i]
                    /\ r[k].next = Len(m) => Elements(s, m) = r[k].elements
               /\ Elements(s, m) \in Seq(ElementsIn(s, m))
  BY ElementsKeep
<1>2. DOMAIN Elements(s, m) = 1..Len(Elements(s, m)) /\ Len(Elements(s, m)) \in Nat
  BY <1>1, LenProperties
<1> DEFINE e == Parsed(s, m, 0).element
<1>3. r[1].elements = <<e>> /\ r[1].next = Parsed(s, m, 0).next
  <2>1. r[0].elements = <<>> /\ r[0].next = 0
    BY <1>1 DEF Reads, Nought
  <2>2. r[1] = OneMore(s, m, r[0])
    BY SMT, <1>0, <1>1 DEF Reads
  <2>3. 0 # Len(m)
    BY <1>0
  <2>4. r[1].elements = Append(<<>>, e) /\ r[1].next = Parsed(s, m, 0).next
    BY <2>1, <2>2, <2>3 DEF OneMore
  <2> QED BY SMT, <2>4
<1> HIDE DEF e
<1>4. 1 \in 0..Len(m) /\ Len(<<e>>) = 1 /\ <<e>>[1] = e
  BY SMT, <1>0
<1>5. 1 <= Len(Elements(s, m)) /\ Elements(s, m)[1] = e
  <2>1. /\ Len(r[1].elements) <= Len(Elements(s, m))
        /\ \A i \in 1..Len(r[1].elements) : Elements(s, m)[i] = r[1].elements[i]
    BY <1>1, <1>4
  <2>2. Len(r[1].elements) = 1 /\ r[1].elements[1] = e /\ 1 \in 1..1
    BY <1>3, <1>4
  <2> QED BY <2>1, <2>2
<1>6. Parsed(s, m, 0).next = Len(m) => Elements(s, m) = <<e>>
  BY <1>1, <1>3, <1>4
<1>7. Parsed(s, m, 0).next # Len(m) => 2 <= Len(Elements(s, m))
  <2> SUFFICES ASSUME Parsed(s, m, 0).next # Len(m) PROVE 2 <= Len(Elements(s, m))
    OBVIOUS
  <2>1. r[1].next \in Nat /\ 1 <= r[1].next /\ r[1].next <= Len(m) /\ r[1].next # Len(m)
    BY <1>1, <1>3, <1>4 DEF ReadSoFar
  <2>2. 2 \in 0..Len(m) /\ 2 \in 1..Len(m) /\ 2 - 1 = 1
    BY <1>0, <2>1
  <2>3. r[2] = OneMore(s, m, r[1])
    BY <1>1, <2>2 DEF Reads
  <2>4. PICK d : r[2].elements = Append(<<e>>, d)
    BY <1>3, <2>1, <2>3 DEF OneMore
  <2>5. Len(Append(<<e>>, d)) = 2
    BY SMT
  <2> QED BY <1>1, <2>2, <2>4, <2>5
<1> QED BY <1>2, <1>5, <1>6, <1>7 DEF e

-----------------------------------------------------------------------------
(* The element e lies in m after the first p bytes. *)
LiesAt(e, m, p) ==
  /\ p + Len(e) <= Len(m)
  /\ \A k \in 1..Len(e) : m[p + k] = e[k]

IdWidth(id) == IF id < 255 THEN 1 ELSE 2
LengthWidth(len) == IF len < 4 THEN 0 ELSE IntBytes(len)

(* Three bytes are enough for the length. *)
Fits(len) == len < 16777215

Kinds == {InstanceKind, ResourceInstanceKind, ResourceKind}

FirstByte(kind, id, len) ==
  64 * kind + (IF id < 255 THEN 0 ELSE 32)
    + (IF len < 4 THEN 0 ELSE 8 * IntBytes(len)) + (IF len < 8 THEN len ELSE 0)

LEMMA FirstByteRead ==
  ASSUME NEW kind \in Kinds, NEW id \in Int, NEW len \in Nat, Fits(len)
  PROVE  /\ FirstByte(kind, id, len) \in Byte
         /\ FirstByte(kind, id, len) \div 64 = kind
         /\ IdBytes(FirstByte(kind, id, len)) = IdWidth(id)
         /\ LengthBytes(FirstByte(kind, id, len)) = LengthWidth(len)
         /\ len < 4 => FirstByte(kind, id, len) % 8 = len
         /\ LengthWidth(len) \in 0..3
<1>1. kind \in {0, 1, 3}
  BY DEF Kinds, InstanceKind, ResourceInstanceKind, ResourceKind
<1>2. PICK w \in {0, 32} : w = (IF id < 255 THEN 0 ELSE 32) /\ (w = 0 <=> IdWidth(id) = 1)
  BY SMT DEF IdWidth
<1>3. IdWidth(id) \in {1, 2}
  BY DEF IdWidth
<1>4. PICK l \in {0, 1, 2, 3} : l = LengthWidth(len) /\ (l = 0 <=> len < 4)
  BY SMT DEF LengthWidth, IntBytes, Fits
<1>5. PICK low \in Nat : /\ low = (IF len < 8 THEN len ELSE 0) /\ low < 8 /\ (len < 4 => low = len)
  OBVIOUS
<1>6. PICK b \in Int : b = 64 * kind + w + 8 * l + low
  BY <1>1
<1>7. FirstByte(kind, id, len) = b
  BY ONLY SMT, <1>1, <1>2, <1>4, <1>5, <1>6, IntBytesRange, len \in Nat
     DEF FirstByte, LengthWidth
<1>8. 0 <= b /\ b <= 255 /\ b \div 64 = kind /\ b % 8 = low /\ (b \div 8) % 4 = l
  <2>1. PICK k \in Int, v \in Int, n \in Int :
          /\ k = kind /\ v = w /\ n = l
          /\ k = 0 \/ k = 1 \/ k = 3
          /\ v = 0 \/ v = 32
          /\ 0 <= n /\ n <= 3
    BY <1>1, <1>4
  <2>2. 0 <= low /\ low < 8 /\ low \in Int /\ b = 64 * k + v + 8 * n + low
    BY <1>5, <1>6, <2>1
  <2>3. 0 <= b /\ b <= 255 /\ b \div 64 = k /\ b % 8 = low /\ (b \div 8) % 4 = n
    BY ONLY SMT, <2>1, <2>2, b \in Int, k \in Int, v \in Int, n \in Int
  <2> QED BY <2>1, <2>3
<1>9. (b \div 32) % 2 = 0 <=> w = 0
  <2>1. PICK k \in Int, v \in Int, n \in Int :
          /\ k = kind /\ v = w /\ n = l
          /\ k = 0 \/ k = 1 \/ k = 3
          /\ v = 0 \/ v = 32
          /\ 0 <= n /\ n <= 3
    BY <1>1, <1>4
  <2>2. 0 <= low /\ low < 8 /\ low \in Int /\ b = 64 * k + v + 8 * n + low
    BY <1>5, <1>6, <2>1
  <2>3. (b \div 32) % 2 = 0 <=> v = 0
    BY ONLY SMT, <2>1, <2>2, b \in Int, k \in Int, v \in Int, n \in Int
  <2> QED BY <2>1, <2>3
<1>10. b \in Byte
  BY ONLY SMT, b \in Int, <1>8 DEF Byte
<1>11. IdBytes(b) = IdWidth(id) /\ LengthBytes(b) = LengthWidth(len)
  BY <1>2, <1>3, <1>4, <1>8, <1>9 DEF IdBytes, LengthBytes
<1> QED BY <1>4, <1>5, <1>7, <1>8, <1>10, <1>11

LowByte(v) == v % 256
HighByte(v) == (v \div 256) % 256

LEMMA LittleType ==
  ASSUME NEW v \in Int, NEW n \in 1..4
  PROVE  /\ Little(v, n) \in Seq(Byte)
         /\ Len(Little(v, n)) = n
         /\ Little(v, n)[1] = LowByte(v)
         /\ n >= 2 => Little(v, n)[2] = HighByte(v)
<1>1. PICK w1, w2, w3, w4 : /\ w1 = v % 256 /\ w2 = (v \div 256) % 256
                            /\ w3 = (v \div 65536) % 256 /\ w4 = (v \div 16777216) % 256
  OBVIOUS
<1>2. w1 \in Byte /\ w2 \in Byte /\ w3 \in Byte /\ w4 \in Byte
  BY SMT, <1>1 DEF Byte
<1>3. Little(v, n) = SubSeq(<<w1, w2, w3, w4>>, 1, n)
  BY SMT, <1>1 DEF Little
<1>4. /\ <<w1, w2, w3, w4>> \in Seq(Byte) /\ Len(<<w1, w2, w3, w4>>) = 4
      /\ <<w1, w2, w3, w4>>[1] = w1 /\ <<w1, w2, w3, w4>>[2] = w2
  BY <1>2
<1>5. /\ Len(Little(v, n)) = n
      /\ Little(v, n) \in Seq(Byte)
      /\ \A k \in 1..n : Little(v, n)[k] = <<w1, w2, w3, w4>>[k]
  BY SMT, <1>3, <1>4
<1> QED BY SMT, <1>1, <1>4, <1>5 DEF LowByte, HighByte

LEMMA LengthFieldBytes ==
  ASSUME NEW len \in Nat
  PROVE  /\ LengthField(len) \in Seq(Byte)
         /\ Len(LengthField(len)) = LengthWidth(len)
         /\ LengthWidth(len) \in Nat
         /\ \A k \in 1..LengthWidth(len) :
              LengthField(len)[k] = IF k = LengthWidth(len) THEN len % 256 ELSE 0
<1>1. CASE len < 4
  <2>1. LengthField(len) = <<>> /\ LengthWidth(len) = 0
    BY SMT, <1>1 DEF LengthField, LengthWidth
  <2>2. <<>> \in Seq(Byte) /\ Len(<<>>) = 0
    BY SMT
  <2> QED BY SMT, <2>1, <2>2
<1>2. CASE ~(len < 4)
  <2>1. PICK n \in 1..4 : n = IntBytes(len)
    BY IntBytesRange
  <2>2. PICK low : low = len % 256 /\ low \in Byte
    BY SMT DEF Byte
  <2>3. 0 \in Byte
    BY SMT DEF Byte
  <2>4. LengthField(len) = [k \in 1..n |-> IF k = n THEN low ELSE 0] /\ LengthWidth(len) = n
    BY <1>2, <2>1, <2>2 DEF LengthField, LengthWidth
  <2>5. [k \in 1..n |-> IF k = n THEN low ELSE 0] \in [1..n -> Byte]
    BY <2>2, <2>3
  <2>6. /\ [k \in 1..n |-> IF k = n THEN low ELSE 0] \in Seq(Byte)
        /\ Len([k \in 1..n |-> IF k = n THEN low ELSE 0]) = n
    BY SMT, <2>5
  <2> QED BY SMT, <2>2, <2>4, <2>6
<1> QED BY <1>1, <1>2

LEMMA HeaderBytes ==
  ASSUME NEW kind \in Kinds, NEW id \in Int, NEW len \in Nat, Fits(len),
         NEW h, h = Header(kind, id, len), NEW w, w = IdWidth(id), NEW l, l = LengthWidth(len)
  PROVE  /\ h \in Seq(Byte)
         /\ w \in 1..2 /\ l \in 0..3
         /\ Len(h) = 1 + w + l
         /\ h[1] = FirstByte(kind, id, len)
         /\ h[2] = LowByte(id)
         /\ w = 2 => h[3] = HighByte(id)
         /\ \A k \in 1..l : h[1 + w + k] = IF k = l THEN LowByte(len) ELSE 0
<1>1. w \in 1..2 /\ w = IF id < 255 THEN 1 ELSE 2
  BY DEF IdWidth
<1>2. l \in 0..3
  BY SMT, FirstByteRead
<1>3. PICK f : f = FirstByte(kind, id, len) /\ f \in Byte
  BY SMT, FirstByteRead
<1>4. PICK b : b = Little(id, w) /\ b \in Seq(Byte) /\ Len(b) = w
  <2>1. w \in 1..4
    BY <1>1
  <2> QED BY <2>1, LittleType
<1>5. b[1] = LowByte(id) /\ (w = 2 => b[2] = HighByte(id))
  <2>1. w \in 1..4 /\ (w = 2 => w >= 2)
    BY <1>1
  <2>2. /\ Little(id, w)[1] = LowByte(id)
        /\ w >= 2 => Little(id, w)[2] = HighByte(id)
    BY <2>1, LittleType
  <2> QED BY <1>4, <2>1, <2>2
<1>6. PICK c : /\ c = LengthField(len) /\ c \in Seq(Byte) /\ Len(c) = l
               /\ \A k \in 1..l : c[k] = IF k = l THEN len % 256 ELSE 0
  BY LengthFieldBytes
<1>7. h = <<f>> \o b \o c
  BY SMT, <1>1, <1>3, <1>4, <1>6 DEF Header, FirstByte
<1>8. <<f>> \in Seq(Byte) /\ Len(<<f>>) = 1 /\ <<f>>[1] = f
  BY SMT, <1>3
<1>9. PICK d : /\ d = <<f>> \o b /\ d \in Seq(Byte) /\ Len(d) = 1 + w
               /\ d[1] = f /\ \A k \in 1..w : d[1 + k] = b[k]
  <2>1. PICK a : a = <<f>> /\ a \in Seq(Byte) /\ Len(a) = 1 /\ a[1] = f
    BY <1>8
  <2>2. PICK d : d = a \o b
    OBVIOUS
  <2>3. d \in Seq(Byte) /\ Len(d) = 1 + w
    BY SMT, <1>4, <2>1, <2>2
  <2>4. \A k \in 1..w : d[1 + k] = b[k]
    BY SMT, <1>4, <2>1, <2>2
  <2>5. d[1] = f
    BY SMT, <1>4, <2>1, <2>2
  <2> QED BY <2>1, <2>2, <2>3, <2>4, <2>5
<1>10. /\ h \in Seq(Byte) /\ Len(h) = 1 + w + l
       /\ \A k \in 1..(1 + w) : h[k] = d[k]
       /\ \A k \in 1..l : h[1 + w + k] = c[k]
  BY SMT, <1>1, <1>2, <1>6, <1>7, <1>9
<1>11. 1 \in 1..(1 + w) /\ 2 \in 1..(1 + w) /\ 1 \in 1..w /\ 1 + 1 = 2 /\ 1 + 2 = 3
  BY <1>1
<1>12. h[1] = f /\ h[2] = b[1]
  BY <1>9, <1>10, <1>11
<1>13. w = 2 => h[3] = b[2]
  <2>1. w = 2 => 3 \in 1..(1 + w) /\ 2 \in 1..w
    BY <1>1
  <2> QED BY <1>9, <1>10, <1>11, <2>1
<1>14. \A k \in 1..l : h[1 + w + k] = IF k = l THEN LowByte(len) ELSE 0
  BY <1>6, <1>10 DEF LowByte
<1> QED BY <1>1, <1>2, <1>3, <1>5, <1>10, <1>12, <1>13, <1>14

(* The id and the length that are read of an element. *)
DecodedId(s, id) ==
  IF id < 255 THEN Char(s, LowByte(id))
  ELSE 256 * Char(s, HighByte(id)) + Char(s, LowByte(id))

DecodedLength(s, len) ==
  IF len < 4 THEN len ELSE IF IntBytes(len) = 1 THEN Char(s, LowByte(len)) ELSE LowByte(len)

LEMMA LowByteRange ==
  ASSUME NEW v \in Int
  PROVE  /\ LowByte(v) \in Byte /\ HighByte(v) \in Byte
         /\ LowByte(v) \in Int /\ HighByte(v) \in Int
BY SMT DEF LowByte, HighByte, Byte

LEMMA FieldRead ==
  ASSUME NEW s \in BOOLEAN, NEW len \in Nat, Fits(len), ~(len < 4),
         NEW b \in Seq(Byte), Len(b) = LengthWidth(len),
         \A k \in 1..LengthWidth(len) : b[k] = IF k = LengthWidth(len) THEN LowByte(len) ELSE 0
  PROVE  TlvLength(s, b) = DecodedLength(s, len)
<1>1. LengthWidth(len) = IntBytes(len)
  BY DEF LengthWidth
<1>2. PICK n \in 1..3 : n = IntBytes(len)
  BY ONLY SMT, len \in Nat, Fits(len) DEF IntBytes, Fits
<1>3. \A k \in 1..n : b[k] = IF k = n THEN LowByte(len) ELSE 0
  BY <1>1, <1>2
<1>4. LowByte(len) \in Int
  BY LowByteRange
<1>5. CASE n = 1
  <2>1. b[1] = LowByte(len) /\ Len(b) = 1
    BY <1>1, <1>2, <1>3, <1>5
  <2>2. TlvLength(s, b) = Char(s, b[1])
    BY ONLY SMT, <2>1 DEF TlvLength
  <2> QED BY <1>2, <1>5, <2>1, <2>2 DEF DecodedLength
<1>6. CASE n = 2
  <2>1. b[1] = 0 /\ b[2] = LowByte(len) /\ Len(b) = 2
    BY <1>1, <1>2, <1>3, <1>6
  <2>2. TlvLength(s, b) = LowByte(len)
    BY ONLY SMT, <1>4, <2>1 DEF TlvLength
  <2> QED BY <1>2, <1>6, <2>2 DEF DecodedLength
<1>7. CASE n = 3
  <2>1. b[1] = 0 /\ b[2] = 0 /\ b[3] = LowByte(len) /\ Len(b) = 3
    BY <1>1, <1>2, <1>3, <1>7
  <2>2. TlvLength(s, b) = LowByte(len)
    BY ONLY SMT, <1>4, <2>1 DEF TlvLength
  <2> QED BY <1>2, <1>7, <2>2 DEF DecodedLength
<1> QED BY <1>5, <1>6, <1>7

LEMMA HeaderRead ==
  ASSUME NEW s \in BOOLEAN, NEW kind \in Kinds, NEW id \in Int,
         NEW val \in Seq(Byte), Fits(Len(val)),
         NEW m \in Seq(Byte), NEW p \in Nat, NEW e, e = Element(kind, id, val), LiesAt(e, m, p)
  PROVE  /\ e \in Seq(Byte)
         /\ Len(e) = 1 + IdWidth(id) + LengthWidth(Len(val)) + Len(val)
         /\ p < Len(m)
         /\ m[p + 1] \div 64 = kind
         /\ ValueStart(m, p) = p + 1 + IdWidth(id) + LengthWidth(Len(val))
         /\ TlvId(s, IdField(m, p)) = DecodedId(s, id)
         /\ ValueLength(s, m, p) = DecodedLength(s, Len(val))
         /\ \A k \in 1..Len(val) : m[ValueStart(m, p) + k] = val[k]
<1> DEFINE len == Len(val)
<1>0. len \in Nat /\ Len(m) \in Nat
  BY SMT
<1> HIDE DEF len
<1>13. Fits(len)
  BY DEF len
<1>14. IdWidth(id) \in 1..2 /\ LengthWidth(len) \in 0..3
  BY <1>0, <1>13, HeaderBytes
<1>15. PICK w \in 1..2, l \in 0..3 : w = IdWidth(id) /\ l = LengthWidth(len)
  BY <1>14
<1>16. PICK h : h = Header(kind, id, len)
  OBVIOUS
<1>1. /\ h = Header(kind, id, len) /\ w = IdWidth(id) /\ l = LengthWidth(len)
      /\ h \in Seq(Byte)
      /\ Len(h) = 1 + w + l
      /\ h[1] = FirstByte(kind, id, len)
      /\ h[2] = LowByte(id)
      /\ (w = 2 => h[3] = HighByte(id))
      /\ \A k \in 1..l : h[1 + w + k] = IF k = l THEN LowByte(len) ELSE 0
  <2>1. h \in Seq(Byte) /\ Len(h) = 1 + w + l /\ h[1] = FirstByte(kind, id, len)
    BY <1>0, <1>13, <1>15, <1>16, HeaderBytes
  <2>2. h[2] = LowByte(id) /\ (w = 2 => h[3] = HighByte(id))
    BY <1>0, <1>13, <1>15, <1>16, HeaderBytes
  <2>3. \A k \in 1..l : h[1 + w + k] = IF k = l THEN LowByte(len) ELSE 0
    BY <1>0, <1>13, <1>15, <1>16, HeaderBytes
  <2> QED BY <1>15, <1>16, <2>1, <2>2, <2>3
<1>2. e = h \o val
  BY <1>1 DEF Element, len
<1>3. /\ e \in Seq(Byte) /\ Len(e) = 1 + w + l + len
      /\ \A k \in 1..(1 + w + l) : e[k] = h[k]
      /\ \A k \in 1..len : e[1 + w + l + k] = val[k]
  <2>1. PICK n \in Nat : n = 1 + w + l
    OBVIOUS
  <2>2. h \in Seq(Byte) /\ Len(h) = n
    BY <1>1, <2>1
  <2>3. val \in Seq(Byte) /\ Len(val) = len
    BY DEF len
  <2>4. e \in Seq(Byte) /\ Len(e) = n + len /\ \A k \in 1..n : e[k] = h[k]
    <3>1. e \in Seq(Byte)
      BY SMT, <1>2, <2>2, <2>3
    <3>2. Len(e) = n + len
      BY <1>2, <2>2, <2>3, ConcatProperties
    <3>3. \A k \in 1..n : e[k] = h[k]
      BY SMT, <1>0, <1>2, <2>2, <2>3
    <3> QED BY <3>1, <3>2, <3>3
  <2>5. \A k \in 1..len : e[n + k] = val[k]
    BY SMT, <1>0, <1>2, <2>2, <2>3
  <2> QED BY <2>1, <2>4, <2>5
<1>4. p + 1 + w + l + len <= Len(m) /\ p < Len(m)
  <2>1. p + Len(e) <= Len(m)
    BY DEF LiesAt
  <2>2. Len(e) = 1 + w + l + len
    BY <1>3
  <2> QED BY ONLY SMT, <1>0, <2>1, <2>2, p \in Nat, w \in 1..2, l \in 0..3
<1>5. \A k \in 1..(1 + w + l) : m[p + k] = h[k]
  <2>1. \A k \in 1..(1 + w + l) : k \in 1..Len(e)
    BY <1>0, <1>3
  <2> QED BY <1>3, <2>1 DEF LiesAt
<1>6. m[p + 1] = FirstByte(kind, id, len)
  BY SMT, <1>1, <1>5
<1>7. /\ m[p + 1] \div 64 = kind /\ IdBytes(m[p + 1]) = w /\ LengthBytes(m[p + 1]) = l
      /\ len < 4 => m[p + 1] % 8 = len
  BY <1>0, <1>1, <1>6, FirstByteRead DEF len
<1>8. ValueStart(m, p) = p + 1 + w + l
  BY <1>7 DEF ValueStart
<1>9. PICK b : /\ b = IdField(m, p) /\ b \in Seq(Byte) /\ Len(b) = w
               /\ \A k \in 1..w : b[k] = m[p + 1 + k]
  <2>1. PICK i \in Int, j \in Int : i = p + 2 /\ j = p + 1 + w /\ j + 1 - i = w
    OBVIOUS
  <2>2. 1 <= i /\ i <= j + 1 /\ j <= Len(m)
    BY SMT, <1>0, <1>4, <2>1
  <2>3. IdField(m, p) = SubSeq(m, i, j)
    BY <1>7, <2>1 DEF IdField
  <2>4. /\ SubSeq(m, i, j) \in Seq(Byte) /\ Len(SubSeq(m, i, j)) = w
        /\ \A k \in 1..w : SubSeq(m, i, j)[k] = m[i + k - 1]
    BY SMT, <2>1, <2>2, SomeBytes
  <2>5. \A k \in 1..w : i + k - 1 = p + 1 + k
    BY <2>1
  <2> QED BY <2>3, <2>4, <2>5
<1>10. TlvId(s, b) = DecodedId(s, id)
  <2>1. b[1] = LowByte(id)
    <3>1. 1 \in 1..w /\ 2 \in 1..(1 + w + l) /\ p + 1 + 1 = p + 2
      OBVIOUS
    <3> QED BY <1>1, <1>5, <1>9, <3>1
  <2>2. w = 2 => b[2] = HighByte(id)
    <3>1. w = 2 => 2 \in 1..w /\ 3 \in 1..(1 + w + l) /\ p + 1 + 2 = p + 3
      OBVIOUS
    <3> QED BY <1>1, <1>5, <1>9, <3>1
  <2>3. w = IF id < 255 THEN 1 ELSE 2
    BY <1>1 DEF IdWidth
  <2> QED BY SMT, <1>9, <2>1, <2>2, <2>3 DEF TlvId, DecodedId
<1>11. ValueLength(s, m, p) = DecodedLength(s, len)
  <2>1. CASE len < 4
    <3>1. l = 0
      BY <1>1, <2>1 DEF LengthWidth
    <3> QED BY <1>7, <2>1, <3>1 DEF ValueLength, DecodedLength
  <2>2. CASE ~(len < 4)
    <3>1. l # 0
      BY SMT, <1>0, <1>1, <2>2, IntBytesRange DEF LengthWidth
    <3>2. PICK i \in Int, j \in Int : i = p + 2 + w /\ j = p + 1 + w + l /\ j + 1 - i = l
      OBVIOUS
    <3>3. 1 <= i /\ i <= j + 1 /\ j <= Len(m)
      BY SMT, <1>0, <1>4, <3>2
    <3>4. FieldOf(m, p) = SubSeq(m, i, j)
      BY <1>7, <1>8, <3>2 DEF FieldOf
    <3>5. /\ SubSeq(m, i, j) \in Seq(Byte) /\ Len(SubSeq(m, i, j)) = l
          /\ \A k \in 1..l : SubSeq(m, i, j)[k] = m[i + k - 1]
      BY SMT, <3>2, <3>3, SomeBytes
    <3>6. \A k \in 1..l : i + k - 1 = p + (1 + w + k) /\ 1 + w + k \in 1..(1 + w + l)
      BY <3>2
    <3>7. \A k \in 1..l : SubSeq(m, i, j)[k] = IF k = l THEN LowByte(len) ELSE 0
      <4> TAKE k \in 1..l
      <4>1. SubSeq(m, i, j)[k] = m[p + (1 + w + k)]
        BY <3>5, <3>6
      <4>2. m[p + (1 + w + k)] = h[1 + w + k]
        BY <1>5, <3>6
      <4> QED BY <1>1, <4>1, <4>2
    <3>8. TlvLength(s, FieldOf(m, p)) = DecodedLength(s, len)
      <4>1. Fits(len)
        BY DEF len
      <4>2. PICK f \in Seq(Byte) : f = FieldOf(m, p) /\ f = SubSeq(m, i, j)
        BY <3>4, <3>5
      <4> QED BY <1>0, <1>1, <2>2, <3>5, <3>7, <4>1, <4>2, FieldRead
    <3> QED BY <1>7, <3>1, <3>8 DEF ValueLength
  <2> QED BY <2>1, <2>2
<1>12. \A k \in 1..len : m[ValueStart(m, p) + k] = val[k]
  <2> TAKE k \in 1..len
  <2>1. 1 + w + l + k \in 1..Len(e) /\ p + 1 + w + l + k = p + (1 + w + l + k)
    <3>1. Len(e) = 1 + w + l + len
      BY <1>3
    <3> QED BY ONLY SMT, <1>0, <3>1, p \in Nat, w \in 1..2, l \in 0..3, k \in 1..len
  <2>2. m[p + (1 + w + l + k)] = e[1 + w + l + k]
    BY <2>1 DEF LiesAt
  <2> QED BY <1>3, <1>8, <2>1, <2>2
<1> QED BY <1>1, <1>3, <1>4, <1>7, <1>8, <1>9, <1>10, <1>11, <1>12 DEF len

LEMMA LengthBack ==
  ASSUME signed \in BOOLEAN, NEW len \in Nat, Fits(len)
  PROVE  /\ DecodedLength(signed, len) \in Int
         /\ DecodedLength(signed, len) <= len
         /\ DecodedLength(signed, len) = len <=> PortableLength(len)
<1>1. PICK low \in Int : low = LowByte(len) /\ low = len % 256 /\ 0 <= low /\ low <= 255
  BY SMT DEF LowByte
<1>2. CASE len < 4
  BY SMT, <1>2 DEF DecodedLength, PortableLength
<1>3. CASE 4 <= len /\ len < 255
  <2>1. IntBytes(len) = 1 /\ low = len
    BY ONLY SMT, <1>1, <1>3, len \in Nat DEF IntBytes
  <2>2. DecodedLength(signed, len) = Char(signed, len)
    BY SMT, <1>1, <1>3, <2>1 DEF DecodedLength
  <2>3. Char(signed, len) = IF signed /\ len >= 128 THEN len - 256 ELSE len
    BY DEF Char
  <2> QED BY SMT, <1>3, <2>2, <2>3 DEF PortableLength
<1>4. CASE 255 <= len
  <2>1. IntBytes(len) # 1
    BY ONLY SMT, <1>4, len \in Nat DEF IntBytes
  <2>2. DecodedLength(signed, len) = low
    BY SMT, <1>1, <1>4, <2>1 DEF DecodedLength
  <2>3. low = len <=> len = 255
    BY ONLY SMT, <1>1, <1>4, len \in Nat
  <2> QED BY SMT, <1>1, <1>4, <2>2, <2>3 DEF PortableLength
<1> QED BY <1>2, <1>3, <1>4

(* The ids there may be, of instances and of entries. *)
Id == {n \in Int : /\ -32896 <= n /\ n <= 65535 /\ (~signed => n >= 0)}

LEMMA IdBack ==
  ASSUME signed \in BOOLEAN, NEW id \in Id
  PROVE  /\ DecodedId(signed, id) \in Int
         /\ DecodedId(signed, id) = id <=> PortableId(id)
         /\ id >= 0 => DecodedId(signed, id) <= id
<1>0. id \in Int /\ -32896 <= id /\ id <= 65535 /\ (~signed => id >= 0)
  BY SMT DEF Id
<1>1. PICK low \in Int : low = LowByte(id) /\ low = id % 256 /\ 0 <= low /\ low <= 255
  BY SMT, <1>0 DEF LowByte
<1>2. PICK high \in Int : /\ high = HighByte(id) /\ high = (id \div 256) % 256
                          /\ 0 <= high /\ high <= 255
  BY SMT, <1>0 DEF HighByte
<1>3. PICK a \in Int : a = Char(signed, low) /\ (a = IF signed /\ low >= 128 THEN low - 256 ELSE low)
  BY <1>1 DEF Char
<1>4. PICK b \in Int : b = Char(signed, high) /\ (b = IF signed /\ high >= 128 THEN high - 256 ELSE high)
  BY <1>2 DEF Char
<1>5. CASE id < 255
  <2>1. DecodedId(signed, id) = a
    BY SMT, <1>1, <1>3, <1>5 DEF DecodedId
  <2>2. id < 255 /\ id \in Int
    BY <1>0, <1>5
  <2>3. CASE ~signed
    <3>1. a = id
      BY ONLY SMT, <1>0, <1>1, <1>3, <2>2, <2>3, a \in Int, low \in Int
    <3> QED BY <1>0, <2>1, <2>3, <3>1 DEF PortableId
  <2>4. CASE signed
    <3>1. a = IF low >= 128 THEN low - 256 ELSE low
      BY <1>3, <2>4
    <3>2. a = id <=> -128 <= id /\ id <= 127
      BY ONLY SMT, <1>0, <1>1, <2>2, <3>1, a \in Int, low \in Int
    <3>3. id >= 0 => a <= id
      BY ONLY SMT, <1>0, <1>1, <2>2, <3>1, a \in Int, low \in Int
    <3>4. PortableId(id) <=> -128 <= id /\ id <= 127
      BY SMT, <2>2, <2>4 DEF PortableId
    <3> QED BY <2>1, <3>2, <3>3, <3>4
  <2> QED BY <2>3, <2>4
<1>6. CASE id >= 255
  <2>1. DecodedId(signed, id) = 256 * b + a
    BY SMT, <1>0, <1>1, <1>2, <1>3, <1>4, <1>6 DEF DecodedId
  <2>2. high = id \div 256 /\ id = 256 * high + low
    BY ONLY SMT, <1>0, <1>1, <1>2, <1>6, high \in Int, low \in Int
  <2>3. CASE ~signed
    <3>1. a = low /\ b = high
      BY <1>3, <1>4, <2>3
    <3>2. DecodedId(signed, id) = id
      BY <2>1, <2>2, <3>1
    <3> QED BY <1>0, <2>3, <3>2 DEF PortableId
  <2>4. CASE signed
    <3>1. /\ a = IF low >= 128 THEN low - 256 ELSE low
          /\ b = IF high >= 128 THEN high - 256 ELSE high
      BY <1>3, <1>4, <2>4
    <3>2. 256 * b + a = id <=> low < 128 /\ high < 128
      BY ONLY SMT, <1>1, <1>2, <2>2, <3>1, a \in Int, b \in Int, low \in Int, high \in Int
    <3>3. 256 * b + a <= id /\ 256 * b + a \in Int
      BY ONLY SMT, <1>1, <1>2, <2>2, <3>1, a \in Int, b \in Int, low \in Int, high \in Int
    <3>4. PortableId(id) <=> id % 256 < 128 /\ id \div 256 < 128
      BY SMT, <1>0, <1>6, <2>4 DEF PortableId
    <3> QED BY <1>1, <2>1, <2>2, <3>2, <3>3, <3>4
  <2> QED BY <2>3, <2>4
<1> QED BY <1>0, <1>5, <1>6

TlvElement(kind, id, val) == [kind |-> kind, id |-> id, value |-> val]

(* An element is found where it lies, and what is found of it is its value, *)
(* if its length comes back; if not, it is less.                           *)
IsParsed(m, p, element, next) ==
  /\ Parsed(signed, m, p).element = element
  /\ Parsed(signed, m, p).next = next

ElementsAndNext(elements, next) == [elements |-> elements, next |-> next]

LEMMA ElementParsed ==
  ASSUME signed \in BOOLEAN, NEW kind \in Kinds, NEW id \in Int,
         NEW val \in Seq(Byte), Fits(Len(val)),
         NEW m \in Seq(Byte), NEW p \in Nat, NEW e, e = Element(kind, id, val), LiesAt(e, m, p)
  PROVE  /\ e \in Seq(Byte) /\ Len(e) \in Nat /\ 2 <= Len(e) /\ p < Len(m)
         /\ Len(val) <= Len(e)
         /\ PortableLength(Len(val)) =>
              IsParsed(m, p, TlvElement(kind, DecodedId(signed, id), val), p + Len(e))
         /\ ~PortableLength(Len(val)) =>
              /\ Parsed(signed, m, p).element.value # val
              /\ \/ Parsed(signed, m, p).element = Astray
                 \/ Parsed(signed, m, p).next < p + Len(e)
<1> DEFINE len == Len(val)
<1>0. len \in Nat /\ Len(m) \in Nat
  BY SMT
<1>00. Fits(len)
  OBVIOUS
<1> HIDE DEF len
<1>1. /\ e \in Seq(Byte)
      /\ Len(e) = 1 + IdWidth(id) + LengthWidth(len) + len
      /\ p < Len(m)
      /\ m[p + 1] \div 64 = kind
      /\ ValueStart(m, p) = p + 1 + IdWidth(id) + LengthWidth(len)
      /\ TlvId(signed, IdField(m, p)) = DecodedId(signed, id)
      /\ ValueLength(signed, m, p) = DecodedLength(signed, len)
      /\ \A k \in 1..len : m[ValueStart(m, p) + k] = val[k]
  BY HeaderRead DEF len
<1>2. PICK w \in Nat : w = IdWidth(id) /\ 1 <= w
  BY DEF IdWidth
<1>3. PICK l \in Nat : l = LengthWidth(len)
  BY <1>0, LengthFieldBytes
<1>4. PICK start \in Nat : start = ValueStart(m, p) /\ start = p + 1 + w + l
  BY <1>1, <1>2, <1>3
<1>5. Len(e) = 1 + w + l + len /\ Len(e) \in Nat /\ 2 <= Len(e) /\ start + len = p + Len(e)
  <2>1. Len(e) = 1 + w + l + len
    BY <1>1, <1>2, <1>3
  <2>2. 1 <= w /\ start = p + 1 + w + l
    BY <1>2, <1>4
  <2>3. PICK n \in Nat : n = 1 + w + l + len /\ 2 <= n
    BY ONLY SMT, <1>0, <2>2, w \in Nat, l \in Nat
  <2>4. start + len = p + n
    BY ONLY SMT, <1>0, <2>2, <2>3, w \in Nat, l \in Nat, p \in Nat
  <2> QED BY <2>1, <2>3, <2>4
<1>6. start + len <= Len(m)
  BY <1>5 DEF LiesAt
<1>7. PICK d \in Int : /\ d = DecodedLength(signed, len) /\ d <= len
                       /\ (d = len <=> PortableLength(len))
  BY <1>0, <1>00, LengthBack
<1>8. ASSUME PortableLength(len)
      PROVE  Parsed(signed, m, p) = [element |-> TlvElement(kind, DecodedId(signed, id), val),
                                     next    |-> p + Len(e)]
  <2>1. ValueLength(signed, m, p) = len
    BY <1>1, <1>7, <1>8
  <2>2. ~Lost(signed, m, p)
    BY <1>0, <1>4, <1>6, <2>1 DEF Lost
  <2>3. SubSeq(m, start + 1, start + len) = val
    <3>1. PICK i \in Int, j \in Int : i = start + 1 /\ j = start + len /\ j + 1 - i = len
      BY <1>0
    <3>2. 1 <= i /\ i <= j + 1 /\ j <= Len(m)
      BY <1>0, <1>6, <3>1
    <3>3. PICK v : /\ v = SubSeq(m, i, j)
                   /\ v \in Seq(Byte) /\ Len(v) = len
                   /\ \A k \in 1..len : v[k] = m[i + k - 1]
      <4>1. /\ SubSeq(m, i, j) \in Seq(Byte) /\ Len(SubSeq(m, i, j)) = len
            /\ \A k \in 1..len : SubSeq(m, i, j)[k] = m[i + k - 1]
        <5>1. /\ SubSeq(m, i, j) \in Seq(Byte) /\ Len(SubSeq(m, i, j)) = j + 1 - i
              /\ \A k \in 1..(j + 1 - i) : SubSeq(m, i, j)[k] = m[i + k - 1]
          BY <3>2, SomeBytes
        <5> QED BY <3>1, <5>1
      <4> QED BY <4>1
    <3>4. \A k \in 1..len : i + k - 1 = start + k
      BY <3>1
    <3>5. \A k \in 1..len : v[k] = val[k]
      BY <1>1, <1>4, <3>3, <3>4
    <3>6. v = val
      BY <3>3, <3>5, SeqEqual DEF len
    <3> QED BY <3>1, <3>3, <3>6
  <2>4. Parsed(signed, m, p) =
          [element |->
             [kind  |-> m[p + 1] \div 64,
              id    |-> TlvId(signed, IdField(m, p)),
              value |-> SubSeq(m, start + 1, start + len)],
           next |-> start + len]
    BY <1>4, <2>1, <2>2, ParsedFound
  <2> QED BY <1>1, <1>5, <2>3, <2>4 DEF TlvElement
<1>9. ASSUME ~PortableLength(len)
      PROVE  /\ Parsed(signed, m, p).element.value # val
             /\ \/ Parsed(signed, m, p).element = Astray
                \/ Parsed(signed, m, p).next < p + Len(e)
  <2>1. d < len /\ ValueLength(signed, m, p) = d
    BY <1>0, <1>1, <1>7, <1>9
  <2>2. CASE Lost(signed, m, p)
    <3>1. Parsed(signed, m, p).element = Astray
      BY <2>2, ParsedLost
    <3>2. Astray.value = <<>>
      BY DEF Astray
    <3>3. val # <<>>
      <4>1. len # 0
        BY <1>0, <1>9 DEF PortableLength
      <4> QED BY <4>1 DEF len
    <3> QED BY <3>1, <3>2, <3>3
  <2>3. CASE ~Lost(signed, m, p)
    <3>1. 0 <= d /\ start + d <= Len(m)
      BY <1>0, <1>4, <2>1, <2>3 DEF Lost
    <3>2. /\ Parsed(signed, m, p).next = start + d
          /\ Parsed(signed, m, p).element.value = SubSeq(m, start + 1, start + d)
      <4>1. Parsed(signed, m, p) =
              [element |->
                 [kind  |-> m[p + 1] \div 64,
                  id    |-> TlvId(signed, IdField(m, p)),
                  value |-> SubSeq(m, start + 1, start + d)],
               next |-> start + d]
        BY <1>4, <2>1, <2>3, ParsedFound
      <4> QED BY <4>1
    <3>3. PICK i \in Int, j \in Int : i = start + 1 /\ j = start + d /\ j + 1 - i = d
      OBVIOUS
    <3>4. 1 <= i /\ i <= j + 1 /\ j <= Len(m)
      BY <1>0, <3>1, <3>3
    <3>5. Len(SubSeq(m, i, j)) = d
      BY <3>3, <3>4, SomeBytes
    <3>6. SubSeq(m, i, j) # val
      BY <1>0, <2>1, <3>5 DEF len
    <3>7. start + d < p + Len(e)
      BY <1>0, <1>5, <2>1
    <3> QED BY <3>2, <3>3, <3>6, <3>7
  <2> QED BY <2>2, <2>3
<1>10. len <= Len(e)
  BY <1>0, <1>2, <1>3, <1>5
<1> QED BY <1>1, <1>5, <1>8, <1>9, <1>10 DEF len, IsParsed

-----------------------------------------------------------------------------
(* f[n] is the first n sequences put together. *)
Flattens(f, seqs, k) ==
  /\ f = [n \in 0..k |-> f[n]]
  /\ f[0] = <<>>
  /\ \A n \in 1..k : f[n] = f[n - 1] \o seqs[n]

LEMMA FlattensExist ==
  ASSUME NEW seqs, NEW N \in Nat
  PROVE  \E f : Flattens(f, seqs, N)
<1> DEFINE T == {k \in Nat : ~ \E f : Flattens(f, seqs, k)}
<1>2. SUFFICES ASSUME T # {} PROVE FALSE
  BY <1>2
<1>3. PICK k \in T : \A j \in T : k <= j
  BY <1>2, LeastNatural
<1>4. CASE k = 0
  <2>1. Flattens([n \in 0..0 |-> <<>>], seqs, 0)
    BY SMT DEF Flattens
  <2> QED BY <1>4, <2>1
<1>5. CASE k # 0
  <2>1. k \in Nat /\ k - 1 \in Nat /\ ~(k <= k - 1)
    BY <1>5
  <2>2. PICK f : Flattens(f, seqs, k - 1)
    BY <1>3, <2>1
  <2> DEFINE g == [n \in 0..k |-> IF n = k THEN f[k - 1] \o seqs[k] ELSE f[n]]
  <2>3. /\ g = [n \in 0..k |-> g[n]]
        /\ g[0] = <<>>
        /\ \A n \in 0..(k - 1) : g[n] = f[n]
        /\ g[k] = f[k - 1] \o seqs[k]
    BY SMT, <1>5, <2>1, <2>2 DEF Flattens
  <2>4. \A n \in 1..k : g[n] = g[n - 1] \o seqs[n]
    <3> TAKE n \in 1..k
    <3>1. n - 1 \in 0..(k - 1)
      BY <2>1
    <3>2. g[n - 1] = f[n - 1]
      BY <2>3, <3>1
    <3>3. CASE n = k
      BY <2>3, <3>2, <3>3
    <3>4. CASE n # k
      <4>1. n \in 0..(k - 1) /\ n \in 1..(k - 1)
        BY <2>1, <3>4
      <4>2. f[n] = f[n - 1] \o seqs[n]
        BY <2>2, <4>1 DEF Flattens
      <4> QED BY <2>3, <3>2, <4>1, <4>2
    <3> QED BY <3>3, <3>4
  <2> HIDE DEF g
  <2>5. Flattens(g, seqs, k)
    BY <2>3, <2>4 DEF Flattens
  <2> QED BY <2>5
<1> QED BY <1>4, <1>5

LEMMA FlattenSeqFlattens ==
  ASSUME NEW S, NEW seqs \in Seq(Seq(S))
  PROVE  \E f : Flattens(f, seqs, Len(seqs)) /\ FlattenSeq(seqs) = f[Len(seqs)]
<1> DEFINE N == Len(seqs)
<1> DEFINE body(h) == [i \in 1..N |-> IF i = 1 THEN seqs[i] ELSE h[i - 1] \o seqs[i]]
<1> DEFINE flatten == CHOOSE h : h = body(h)
<1>0. N \in Nat /\ \A n \in 1..N : seqs[n] \in Seq(S)
  BY SMT
<1>1. CASE N = 0
  <2>1. FlattenSeq(seqs) = <<>>
    BY SMT, <1>1 DEF FlattenSeq
  <2>2. PICK f : Flattens(f, seqs, 0)
    BY FlattensExist
  <2> QED BY <1>1, <2>1, <2>2 DEF Flattens
<1>2. CASE N # 0
  <2> HIDE DEF N
  <2>1. PICK f : Flattens(f, seqs, N)
    BY <1>0, FlattensExist
  <2> DEFINE g == [i \in 1..N |-> f[i]]
  <2>2. g = body(g)
    <3>1. ASSUME NEW i \in 1..N
          PROVE  f[i] = IF i = 1 THEN seqs[i] ELSE g[i - 1] \o seqs[i]
      <4>1. f[i] = f[i - 1] \o seqs[i] /\ f[0] = <<>>
        BY <2>1 DEF Flattens
      <4>2. CASE i = 1
        <5>1. <<>> \o seqs[i] = seqs[i]
          BY <1>0, ConcatEmptySeq
        <5>2. i - 1 = 0
          BY <4>2
        <5>3. f[i - 1] = <<>>
          BY <4>1, <5>2
        <5> QED BY <4>1, <4>2, <5>1, <5>3
      <4>3. CASE i # 1
        <5>1. i - 1 \in 1..N
          BY <1>0, <4>3
        <5> QED BY <4>1, <4>3, <5>1
      <4> QED BY <4>2, <4>3
    <3> QED BY <3>1
  <2>3. flatten = body(flatten)
    <3> HIDE DEF g
    <3> QED BY <2>2
  <2> HIDE DEF flatten
  <2> DEFINE h == [n \in 0..N |-> IF n = 0 THEN <<>> ELSE flatten[n]]
  <2>4. ASSUME NEW n \in 1..N
        PROVE  h[n] = h[n - 1] \o seqs[n]
    <3>1. n \in 0..N /\ n # 0 /\ n - 1 \in 0..N
      BY <1>0
    <3>2. flatten[n] = IF n = 1 THEN seqs[n] ELSE flatten[n - 1] \o seqs[n]
      BY <2>3
    <3>3. CASE n = 1
      <4>1. <<>> \o seqs[n] = seqs[n]
        BY <1>0, ConcatEmptySeq
      <4>2. h[n - 1] = <<>>
        BY <3>1, <3>3
      <4> QED BY <3>1, <3>2, <3>3, <4>1, <4>2
    <3>4. CASE n # 1
      <4>1. n - 1 # 0
        BY <1>0, <3>4
      <4>2. h[n - 1] = flatten[n - 1] /\ h[n] = flatten[n]
        BY <3>1, <4>1
      <4> QED BY <3>2, <3>4, <4>2
    <3> QED BY <3>3, <3>4
  <2>5. h = [n \in 0..N |-> h[n]] /\ h[0] = <<>> /\ h[N] = flatten[N]
    BY <1>0, <1>2
  <2>6. FlattenSeq(seqs) = flatten[N]
    BY <1>2 DEF FlattenSeq, flatten, N
  <2> HIDE DEF h
  <2>7. Flattens(h, seqs, N)
    BY <2>4, <2>5 DEF Flattens
  <2> QED BY <2>5, <2>6, <2>7 DEF N
<1> QED BY <1>1, <1>2

(* Each of them lies in the whole after those before it. *)
Joined(f, seqs, S, k) ==
  /\ f[k] \in Seq(S)
  /\ \A n \in 1..k : /\ f[n - 1] \in Seq(S)
                     /\ Len(f[n]) = Len(f[n - 1]) + Len(seqs[n])
                     /\ LiesAt(seqs[n], f[k], Len(f[n - 1]))

LEMMA LiesInLonger ==
  ASSUME NEW S, NEW a \in Seq(S), NEW b \in Seq(S), NEW e \in Seq(S), NEW p \in Nat,
         LiesAt(e, a, p)
  PROVE  LiesAt(e, a \o b, p)
<1>1. PICK la \in Nat, lb \in Nat, le \in Nat : la = Len(a) /\ lb = Len(b) /\ le = Len(e)
  BY LenProperties
<1>2. Len(a \o b) = la + lb /\ \A k \in 1..la : (a \o b)[k] = a[k]
  BY SMT, <1>1
<1>3. p + le <= la
  BY <1>1 DEF LiesAt
<1>4. \A k \in 1..le : p + k \in 1..la
  BY <1>3
<1>5. p + le <= la + lb
  BY <1>3
<1> QED BY <1>1, <1>2, <1>4, <1>5 DEF LiesAt

LEMMA LiesAtEnd ==
  ASSUME NEW S, NEW a \in Seq(S), NEW e \in Seq(S)
  PROVE  LiesAt(e, a \o e, Len(a))
<1>1. PICK la \in Nat, le \in Nat : la = Len(a) /\ le = Len(e)
  BY LenProperties
<1>2. Len(a \o e) = la + le
  BY <1>1, ConcatProperties
<1>3. \A k \in 1..le : (a \o e)[la + k] = e[k]
  BY SMT, <1>1
<1> QED BY <1>1, <1>2, <1>3 DEF LiesAt

LEMMA FlattensJoin ==
  ASSUME NEW S, NEW seqs \in Seq(Seq(S)), NEW f, Flattens(f, seqs, Len(seqs)),
         NEW n \in 0..Len(seqs)
  PROVE  Joined(f, seqs, S, n)
<1>0. Len(seqs) \in Nat /\ \A i \in 1..Len(seqs) : seqs[i] \in Seq(S)
  BY SMT
<1> DEFINE T == {k \in Nat : k <= Len(seqs) /\ ~Joined(f, seqs, S, k)}
<1>1. SUFFICES ASSUME T # {} PROVE FALSE
  <2>1. n \in Nat /\ n <= Len(seqs)
    BY <1>0
  <2> QED BY <1>1, <2>1
<1>2. PICK k \in T : \A j \in T : k <= j
  BY <1>1, LeastNatural
<1>3. CASE k = 0
  <2>1. f[0] = <<>> /\ <<>> \in Seq(S)
    BY EmptySeq DEF Flattens
  <2>2. \A i \in 1..0 : FALSE
    OBVIOUS
  <2> QED BY <1>2, <1>3, <2>1, <2>2 DEF Joined
<1>4. CASE k # 0
  <2>1. k - 1 \in Nat /\ k - 1 <= Len(seqs) /\ ~(k <= k - 1) /\ k \in 1..Len(seqs)
    BY <1>0, <1>4
  <2>2. Joined(f, seqs, S, k - 1)
    BY <1>2, <2>1
  <2>3. PICK a \in Seq(S), e \in Seq(S) : a = f[k - 1] /\ e = seqs[k]
    BY <1>0, <2>1, <2>2 DEF Joined
  <2>4. f[k] = a \o e
    BY <2>1, <2>3 DEF Flattens
  <2>5. a \o e \in Seq(S) /\ Len(a \o e) = Len(a) + Len(e)
    BY ConcatProperties
  <2>6. LiesAt(e, a \o e, Len(a))
    BY LiesAtEnd
  <2>7. ASSUME NEW i \in 1..k
        PROVE  /\ f[i - 1] \in Seq(S)
               /\ Len(f[i]) = Len(f[i - 1]) + Len(seqs[i])
               /\ LiesAt(seqs[i], f[k], Len(f[i - 1]))
    <3>1. CASE i = k
      BY <2>3, <2>4, <2>5, <2>6, <3>1
    <3>2. CASE i # k
      <4>1. i \in 1..(k - 1) /\ i \in 1..Len(seqs)
        BY <1>0, <2>1, <3>2
      <4>2. /\ f[i - 1] \in Seq(S)
            /\ Len(f[i]) = Len(f[i - 1]) + Len(seqs[i])
            /\ LiesAt(seqs[i], a, Len(f[i - 1]))
        BY <2>2, <2>3, <4>1 DEF Joined
      <4>3. Len(f[i - 1]) \in Nat /\ seqs[i] \in Seq(S)
        BY <1>0, <4>1, <4>2, LenProperties
      <4>4. LiesAt(seqs[i], a \o e, Len(f[i - 1]))
        BY <4>2, <4>3, LiesInLonger
      <4> QED BY <2>4, <4>2, <4>4
    <3> QED BY <3>1, <3>2
  <2>8. f[k] \in Seq(S)
    BY <2>4, <2>5
  <2>9. Joined(f, seqs, S, k)
    BY <2>7, <2>8 DEF Joined
  <2> QED BY <1>2, <2>9
<1> QED BY <1>3, <1>4

-----------------------------------------------------------------------------
(* Elements of one kind with these ids and values, one after the other. *)
Sequenced(kind, ids, vals) == [n \in DOMAIN ids |-> Element(kind, ids[n], vals[n])]

Sendable(kind, N, ids, vals) ==
  /\ kind \in Kinds
  /\ ids \in [1..N -> Id]
  /\ vals \in [1..N -> Seq(Byte)]
  /\ \A n \in 1..N : Fits(Len(vals[n]))

LEMMA ElementType ==
  ASSUME signed \in BOOLEAN, NEW kind \in Kinds, NEW id \in Int,
         NEW val \in Seq(Byte), Fits(Len(val))
  PROVE  Element(kind, id, val) \in Seq(Byte)
<1>1. PICK e : e = Element(kind, id, val)
  OBVIOUS
<1>2. PICK h : h = Header(kind, id, Len(val))
  OBVIOUS
<1>3. h \in Seq(Byte)
  BY <1>2, LenProperties, HeaderBytes
<1>4. e = h \o val
  BY <1>1, <1>2 DEF Element
<1> QED BY <1>1, <1>3, <1>4, ConcatProperties

(* Where each element starts, and that the message has room for them. *)
Laid(o, kind, N, ids, vals, m) ==
  /\ o \in [0..N -> Nat]
  /\ o[0] = 0 /\ o[N] = Len(m)
  /\ \A n \in 1..N : /\ o[n] = o[n - 1] + Len(Element(kind, ids[n], vals[n]))
                     /\ LiesAt(Element(kind, ids[n], vals[n]), m, o[n - 1])
  /\ \A n \in 0..N : n <= o[n] /\ o[n] <= Len(m)

LEMMA Offsets ==
  ASSUME signed \in BOOLEAN, NEW kind, NEW N \in Nat, NEW ids, NEW vals,
         Sendable(kind, N, ids, vals), NEW m, m = FlattenSeq(Sequenced(kind, ids, vals))
  PROVE  /\ m \in Seq(Byte)
         /\ \E o : Laid(o, kind, N, ids, vals, m)
<1> DEFINE seqs == Sequenced(kind, ids, vals)
<1>1. \A n \in 1..N : /\ seqs[n] = Element(kind, ids[n], vals[n])
                      /\ ids[n] \in Int /\ vals[n] \in Seq(Byte) /\ Fits(Len(vals[n]))
  BY SMT DEF Sequenced, Sendable, Id
<1>2. \A n \in 1..N : seqs[n] \in Seq(Byte)
  BY <1>1, ElementType DEF Sendable
<1>3. seqs \in Seq(Seq(Byte)) /\ Len(seqs) = N
  <2>1. seqs = [n \in 1..N |-> seqs[n]]
    BY DEF Sequenced, Sendable
  <2> HIDE DEF seqs
  <2>2. seqs \in [1..N -> Seq(Byte)]
    BY <1>2, <2>1
  <2> QED BY SMT, <2>2
<1> HIDE DEF seqs
<1>4. PICK f : Flattens(f, seqs, N) /\ FlattenSeq(seqs) = f[N]
  BY <1>3, FlattenSeqFlattens
<1>5. \A n \in 0..N : Joined(f, seqs, Byte, n)
  BY <1>3, <1>4, FlattensJoin
<1>6. m = f[N] /\ m \in Seq(Byte)
  <2>1. N \in 0..N
    OBVIOUS
  <2> QED BY <1>4, <1>5, <2>1 DEF seqs, Joined
<1>7. PICK o : o = [n \in 0..N |-> Len(f[n])]
  OBVIOUS
<1>8. o \in [0..N -> Nat]
  BY <1>5, <1>7, LenProperties DEF Joined
<1>9. o[0] = 0 /\ o[N] = Len(m)
  <2>1. f[0] = <<>> /\ 0 \in 0..N /\ N \in 0..N
    BY <1>4 DEF Flattens
  <2>2. Len(<<>>) = 0
    BY SMT
  <2> QED BY <1>6, <1>7, <2>1, <2>2
<1>10. ASSUME NEW n \in 1..N
       PROVE  /\ o[n] = o[n - 1] + Len(Element(kind, ids[n], vals[n]))
              /\ LiesAt(Element(kind, ids[n], vals[n]), m, o[n - 1])
  <2>1. N \in 0..N /\ n \in 0..N /\ n - 1 \in 0..N
    OBVIOUS
  <2>2. Len(f[n]) = Len(f[n - 1]) + Len(seqs[n]) /\ LiesAt(seqs[n], m, Len(f[n - 1]))
    BY <1>5, <1>6, <2>1 DEF Joined
  <2> QED BY <1>1, <1>7, <2>1, <2>2
<1>11. \A n \in 1..N : o[n - 1] + 2 <= o[n] /\ o[n] <= Len(m)
  <2> TAKE n \in 1..N
  <2>1. PICK e : e = Element(kind, ids[n], vals[n])
    OBVIOUS
  <2>2. o[n - 1] \in Nat
    BY <1>8
  <2>3. Len(e) \in Nat /\ 2 <= Len(e)
    BY <1>1, <1>6, <1>10, <2>1, <2>2, ElementParsed DEF Sendable
  <2>4. o[n] = o[n - 1] + Len(e) /\ o[n - 1] + Len(e) <= Len(m)
    BY <1>10, <2>1 DEF LiesAt
  <2> QED BY <2>2, <2>3, <2>4
<1>12. \A n \in 0..N : n <= o[n]
  <2> DEFINE T == {k \in Nat : k <= N /\ ~(k <= o[k])}
  <2>1. SUFFICES ASSUME T # {} PROVE FALSE
    BY <2>1
  <2>2. PICK k \in T : \A j \in T : k <= j
    BY <2>1, LeastNatural
  <2>3. k # 0
    BY <1>9, <2>2
  <2>4. k - 1 \in Nat /\ k - 1 <= N /\ ~(k <= k - 1) /\ k \in 1..N /\ k - 1 \in 0..N
    BY <2>3
  <2>5. k - 1 <= o[k - 1] /\ o[k - 1] \in Nat /\ o[k] \in Nat
    BY <1>8, <2>2, <2>4
  <2>6. o[k - 1] + 2 <= o[k]
    BY <1>11, <2>4
  <2> QED BY <2>2, <2>5, <2>6
<1>13. \A n \in 0..N : o[n] <= Len(m)
  <2> TAKE n \in 0..N
  <2>1. Len(m) \in Nat
    BY <1>6, LenProperties
  <2>2. CASE n = 0
    BY <1>9, <2>1, <2>2
  <2>3. CASE n # 0
    BY <1>11, <2>3
  <2> QED BY <2>2, <2>3
<1>14. Laid(o, kind, N, ids, vals, m)
  BY <1>8, <1>9, <1>10, <1>12, <1>13 DEF Laid
<1> QED BY <1>6, <1>14

(* What is found of them, if their lengths come back. *)
FoundOf(kind, ids, vals, k) ==
  [n \in 1..k |-> TlvElement(kind, DecodedId(signed, ids[n]), vals[n])]

LEMMA AppendNext ==
  ASSUME NEW kind, NEW ids, NEW vals, NEW k \in Nat, k # 0
  PROVE  Append(FoundOf(kind, ids, vals, k - 1),
                TlvElement(kind, DecodedId(signed, ids[k]), vals[k]))
           = FoundOf(kind, ids, vals, k)
<1> DEFINE x(n) == TlvElement(kind, DecodedId(signed, ids[n]), vals[n])
<1>1. /\ FoundOf(kind, ids, vals, k - 1) = [n \in 1..(k - 1) |-> x(n)]
      /\ FoundOf(kind, ids, vals, k) = [n \in 1..k |-> x(n)]
  BY DEF FoundOf
<1> HIDE DEF x
<1>2. Append([n \in 1..(k - 1) |-> x(n)], x(k)) = [n \in 1..k |-> x(n)]
  BY SMT
<1> QED BY <1>1, <1>2 DEF x

AllPortable(vals, k) == \A n \in 1..k : PortableLength(Len(vals[n]))

LEMMA ReadUpTo ==
  ASSUME signed \in BOOLEAN, NEW kind, NEW N \in Nat, NEW ids, NEW vals,
         Sendable(kind, N, ids, vals),
         NEW m \in Seq(Byte), NEW o, Laid(o, kind, N, ids, vals, m),
         NEW r, Reads(r, signed, m, Len(m)),
         NEW k \in 0..N, AllPortable(vals, k)
  PROVE  /\ r[k] = ElementsAndNext(FoundOf(kind, ids, vals, k), o[k])
         /\ k \in 0..Len(m)
<1>0. Len(m) \in Nat
  BY LenProperties
<1> DEFINE Reached(j) == r[j] = ElementsAndNext(FoundOf(kind, ids, vals, j), o[j])
<1> DEFINE T == {j \in Nat : j <= k /\ ~Reached(j)}
<1>1. k \in 0..Len(m)
  <2>1. k <= o[k] /\ o[k] <= Len(m) /\ o[k] \in Nat
    BY DEF Laid
  <2> QED BY <1>0, <2>1
<1>2. SUFFICES ASSUME T # {} PROVE FALSE
  <2>1. k \in Nat /\ k <= k
    OBVIOUS
  <2>2. Reached(k)
    <3> HIDE DEF Reached
    <3> QED BY <1>2, <2>1
  <2> QED BY <1>1, <2>2
<1>3. PICK j \in T : \A i \in T : j <= i
  BY <1>2, LeastNatural
<1>4. CASE j = 0
  <2>1. FoundOf(kind, ids, vals, 0) = <<>>
    BY SMT DEF FoundOf
  <2>2. r[0] = Nought
    BY DEF Reads
  <2>3. o[0] = 0
    BY DEF Laid
  <2>4. Reached(0)
    BY <2>1, <2>2, <2>3 DEF Nought, ElementsAndNext
  <2> HIDE DEF Reached
  <2> QED BY <1>3, <1>4, <2>4
<1>5. CASE j # 0
  <2>1. /\ j \in 1..N /\ j - 1 \in Nat /\ j - 1 <= k /\ ~(j <= j - 1)
        /\ j \in 1..Len(m) /\ j - 1 \in 0..N /\ j \in 1..k
    BY <1>0, <1>1, <1>5
  <2>2. Reached(j - 1)
    BY <1>3, <2>1
  <2>3. r[j] = OneMore(signed, m, r[j - 1])
    BY <2>1 DEF Reads
  <2>4. PICK p \in Nat : p = o[j - 1]
    BY <2>1 DEF Laid
  <2>12. PICK id, v, e : id = ids[j] /\ v = vals[j] /\ e = Element(kind, id, v)
    OBVIOUS
  <2>5. LiesAt(e, m, p) /\ o[j] = p + Len(e)
    BY <2>1, <2>4, <2>12 DEF Laid
  <2>6. id \in Int /\ v \in Seq(Byte) /\ Fits(Len(v)) /\ kind \in Kinds
    BY SMT, <2>1, <2>12 DEF Sendable, Id
  <2>7. PortableLength(Len(v))
    BY <2>1, <2>12 DEF AllPortable
  <2>13. e = Element(kind, id, v)
    BY <2>12
  <2>14. p < Len(m)
    BY Zenon, <2>5, <2>6, <2>13, ElementParsed
  <2>8. IsParsed(m, p, TlvElement(kind, DecodedId(signed, id), v), p + Len(e))
    BY Zenon, <2>5, <2>6, <2>7, <2>13, ElementParsed
  <2>9. /\ r[j - 1].elements = FoundOf(kind, ids, vals, j - 1) /\ r[j - 1].next = p
        /\ p # Len(m)
    BY <1>0, <2>2, <2>4, <2>14 DEF ElementsAndNext
  <2>10. r[j] = [elements |-> Append(FoundOf(kind, ids, vals, j - 1),
                                     TlvElement(kind, DecodedId(signed, ids[j]), vals[j])),
                 next     |-> o[j]]
    <3>1. /\ Parsed(signed, m, p).element = TlvElement(kind, DecodedId(signed, id), v)
          /\ Parsed(signed, m, p).next = p + Len(e)
      BY <2>8 DEF IsParsed
    <3>2. r[j] = [elements |-> Append(r[j - 1].elements, Parsed(signed, m, p).element),
                  next     |-> Parsed(signed, m, p).next]
      BY <2>3, <2>9 DEF OneMore
    <3> QED BY <2>5, <2>9, <2>12, <3>1, <3>2
  <2>11. Reached(j)
    BY <1>5, <2>10, AppendNext DEF ElementsAndNext
  <2> QED BY <1>3, <2>11
<1> QED BY <1>4, <1>5

(* The elements of a message come back in their order, with their kinds    *)
(* and values, and the ids as they are read, if all lengths come back; if  *)
(* not, some value does not.                                               *)
LEMMA Framing ==
  ASSUME signed \in BOOLEAN, NEW kind, NEW N \in Nat, NEW ids, NEW vals,
         Sendable(kind, N, ids, vals), NEW m, m = FlattenSeq(Sequenced(kind, ids, vals))
  PROVE  /\ m \in Seq(Byte)
         /\ AllPortable(vals, N) => Elements(signed, m) = FoundOf(kind, ids, vals, N)
         /\ ~AllPortable(vals, N) =>
              \E n \in 1..N : n \in DOMAIN Elements(signed, m) /\ Elements(signed, m)[n].value # vals[n]
<1>1. PICK o : Laid(o, kind, N, ids, vals, m)
  BY Offsets
<1>2. m \in Seq(Byte)
  BY Offsets
<1>3. PICK r : /\ Reads(r, signed, m, Len(m))
               /\ \A k \in 0..Len(m) :
                    /\ ReadSoFar(signed, m, k, r[k])
                    /\ Len(r[k].elements) <= Len(Elements(signed, m))
                    /\ \A i \in 1..Len(r[k].elements) : Elements(signed, m)[i] = r[k].elements[i]
                    /\ r[k].next = Len(m) => Elements(signed, m) = r[k].elements
               /\ Elements(signed, m) \in Seq(ElementsIn(signed, m))
  BY <1>2, ElementsKeep
<1>4. ASSUME AllPortable(vals, N)
      PROVE  Elements(signed, m) = FoundOf(kind, ids, vals, N)
  <2>1. N \in 0..N
    OBVIOUS
  <2>2. r[N] = ElementsAndNext(FoundOf(kind, ids, vals, N), o[N]) /\ N \in 0..Len(m)
    <3>1. Reads(r, signed, m, Len(m))
      BY <1>3
    <3> QED BY SMT, <1>1, <1>2, <1>4, <2>1, <3>1, ReadUpTo
  <2>3. r[N].next = Len(m) /\ r[N].elements = FoundOf(kind, ids, vals, N)
    BY <1>1, <2>2 DEF Laid, ElementsAndNext
  <2> QED BY <1>3, <2>2, <2>3
<1>5. ASSUME ~AllPortable(vals, N)
      PROVE  \E n \in 1..N : n \in DOMAIN Elements(signed, m) /\ Elements(signed, m)[n].value # vals[n]
  <2>0. Len(m) \in Nat
    BY <1>2, LenProperties
  <2> DEFINE T == {n \in Nat : n \in 1..N /\ ~PortableLength(Len(vals[n]))}
  <2>1. T # {}
    BY <1>5 DEF AllPortable
  <2>2. PICK n \in T : \A i \in T : n <= i
    BY <2>1, LeastNatural
  <2>3. /\ n \in 1..N /\ n - 1 \in 0..N /\ n # 0 /\ n - 1 \in Nat
        /\ \A i \in 1..(n - 1) : i \in Nat /\ i \in 1..N /\ ~(n <= i)
    BY <2>2
  <2>4. AllPortable(vals, n - 1)
    BY <2>2, <2>3 DEF AllPortable
  <2>5. r[n - 1] = ElementsAndNext(FoundOf(kind, ids, vals, n - 1), o[n - 1])
    <3>1. Reads(r, signed, m, Len(m))
      BY <1>3
    <3> QED BY SMT, <1>1, <1>2, <2>3, <2>4, <3>1, ReadUpTo
  <2>15. PICK p \in Nat : p = o[n - 1]
    BY <1>1, <2>3 DEF Laid
  <2>16. PICK id, v, e : id = ids[n] /\ v = vals[n] /\ e = Element(kind, id, v)
    OBVIOUS
  <2>6. LiesAt(e, m, p)
    BY <1>1, <2>3, <2>15, <2>16 DEF Laid
  <2>7. id \in Int /\ v \in Seq(Byte) /\ Fits(Len(v)) /\ kind \in Kinds
    BY SMT, <2>3, <2>16 DEF Sendable, Id
  <2>17. ~PortableLength(Len(v))
    BY <2>2, <2>16
  <2>8. p < Len(m) /\ Parsed(signed, m, p).element.value # vals[n]
    BY <1>2, <2>6, <2>7, <2>16, <2>17, ElementParsed
  <2>9. n \in 1..Len(m) /\ n \in 0..Len(m) /\ p # Len(m)
    <3>1. n <= o[n] /\ o[n] <= Len(m) /\ o[n] \in Nat
      BY <1>1, <2>3 DEF Laid
    <3> QED BY <2>0, <2>3, <2>8, <3>1
  <2>10. r[n] = OneMore(signed, m, r[n - 1])
    BY <1>3, <2>9 DEF Reads
  <2>11. PICK q, x : /\ q = FoundOf(kind, ids, vals, n - 1) /\ x = Parsed(signed, m, p).element
                     /\ r[n].elements = Append(q, x)
    <3>1. r[n - 1].next = p /\ r[n - 1].elements = FoundOf(kind, ids, vals, n - 1)
      BY <2>5, <2>15 DEF ElementsAndNext
    <3> QED BY <2>9, <2>10, <3>1 DEF OneMore
  <2>12. Len(Append(q, x)) = n /\ Append(q, x)[n] = x
    <3>1. q = [i \in 1..(n - 1) |-> TlvElement(kind, DecodedId(signed, ids[i]), vals[i])]
      BY <2>11 DEF FoundOf
    <3>2. DOMAIN q = 1..(n - 1) /\ q = [i \in 1..(n - 1) |-> q[i]]
      BY <3>1
    <3>3. Len(q) = n - 1
      BY SMT, <2>3, <3>2
    <3>4. PICK S : S = {q[i] : i \in 1..(n - 1)} \cup {x}
      OBVIOUS
    <3>5. q \in [1..(n - 1) -> S]
      BY <3>2, <3>4
    <3>6. PICK k \in Nat : k = n - 1
      BY <2>3
    <3>7. q \in Seq(S)
      BY SMT, <3>5, <3>6
    <3>8. x \in S
      BY <3>4
    <3>9. Len(Append(q, x)) = Len(q) + 1 /\ Append(q, x)[Len(q) + 1] = x
      BY <3>7, <3>8, AppendProperties
    <3>10. Len(q) + 1 = n
      BY <2>3, <3>3
    <3> QED BY <3>9, <3>10
  <2>13. n <= Len(Elements(signed, m)) /\ Elements(signed, m)[n] = x
    <3>1. n \in 1..n
      BY <2>3
    <3> QED BY <1>3, <2>9, <2>11, <2>12, <3>1
  <2>14. n \in DOMAIN Elements(signed, m)
    <3>1. /\ DOMAIN Elements(signed, m) = 1..Len(Elements(signed, m))
          /\ Len(Elements(signed, m)) \in Nat
      BY <1>3, LenProperties
    <3> QED BY <2>3, <2>13, <3>1
  <2> QED BY <2>3, <2>8, <2>11, <2>13, <2>14
<1> QED BY <1>2, <1>4, <1>5

-----------------------------------------------------------------------------
(* A finite set as a sequence: each of its elements once. *)
LEMMA SetAsSeq ==
  ASSUME NEW S, IsFiniteSet(S), NEW s, s = SetToSeq(S), NEW N, N = Cardinality(S)
  PROVE  /\ N \in Nat
         /\ s \in [1..N -> S]
         /\ \A a, b \in 1..N : s[a] = s[b] => a = b
         /\ \A x \in S : \E n \in 1..N : s[n] = x
<1>1. N \in Nat /\ ExistsBijection(1..N, S)
  BY FS_CardinalityType
<1>2. PICK g : g \in Bijection(1..N, S)
  BY <1>1 DEF ExistsBijection
<1>3. g \in [1..N -> S] /\ IsInjective(g)
  BY <1>2 DEF Bijection, Injection
<1>4. s \in [1..Cardinality(S) -> S] /\ IsInjective(s)
  BY <1>3 DEF SetToSeq
<1>5. s \in Injection(1..N, S)
  BY <1>4 DEF Injection
<1>6. Cardinality(1..N) = N
  BY <1>1, FS_Interval
<1>7. s \in Surjection(1..N, S)
  BY <1>5, <1>6, FS_Injection
<1>8. \A a, b \in 1..N : s[a] = s[b] => a = b
  BY <1>4 DEF IsInjective
<1>9. \A x \in S : \E n \in 1..N : s[n] = x
  BY <1>7 DEF Surjection
<1> QED BY <1>1, <1>4, <1>8, <1>9

-----------------------------------------------------------------------------
(* What the bytes of a value are, and what is read of them, type by type. *)
LEMMA EncodeIs ==
  ASSUME NEW v
  PROVE  /\ Encode("INTEGER", v) = Little(v, IntBytes(v))
         /\ Encode("BOOLEAN", v) = <<IF v THEN 1 ELSE 0>>
         /\ Encode("LINK", v) = Little(v[1], 2) \o Little(v[2], 2)
         /\ Encode("DOUBLE", v) = v
         /\ Encode("STRING", v) = v
BY Zenon DEF Encode

LEMMA DecodeIs ==
  ASSUME NEW b
  PROVE  /\ Decode("INTEGER", b) = ParseInt(b)
         /\ Decode("BOOLEAN", b) = (ParseInt(b) # 0)
         /\ Decode("LINK", b) = <<ParseInt(SubSeq(b, 3, 4)), ParseInt(SubSeq(b, 1, 2))>>
         /\ Decode("DOUBLE", b) = Reverse(b)
         /\ Decode("STRING", b) = Terminated(b)
BY Zenon DEF Decode

LEMMA ValuesAre ==
  /\ ValuesOf("INTEGER") = Int32
  /\ ValuesOf("BOOLEAN") = BOOLEAN
  /\ ValuesOf("DOUBLE") = DOMAIN Rounded
  /\ ValuesOf("STRING") = Seq(1..255)
  /\ ValuesOf("LINK") = Word \X Word
BY Zenon DEF ValuesOf

LEMMA PortableIs ==
  ASSUME NEW v
  PROVE  /\ Portable("INTEGER", v) = PortableInt(v)
         /\ Portable("BOOLEAN", v)
         /\ Portable("DOUBLE", v) = (\A k \in 1..4 : v[k] = v[9 - k])
         /\ Portable("STRING", v) = PortableLength(Len(v))
         /\ Portable("LINK", v) = (v[1] = Swapped(v[2]))
BY Zenon DEF Portable

LEMMA TextIs ==
  ASSUME NEW v
  PROVE  /\ v # Unset => /\ TextOf("INTEGER", v) = v
                         /\ TextOf("BOOLEAN", v) = v
                         /\ TextOf("DOUBLE", v) = Rounded[v]
                         /\ TextOf("STRING", v) =
                              IF Len(v) > 30 THEN SubSeq(v, 1, 27) \o Ellipsis ELSE v
                         /\ TextOf("LINK", v) = <<v[1], v[1]>>
         /\ v = Unset => /\ TextOf("INTEGER", v) = 0
                         /\ TextOf("BOOLEAN", v) = FALSE
                         /\ TextOf("DOUBLE", v) = [k \in 1..8 |-> 0]
                         /\ TextOf("STRING", v) = <<>>
                         /\ TextOf("LINK", v) = <<0, 0>>
BY Zenon DEF TextOf

LEMMA IntervalIs ==
  ASSUME NEW a \in Int, NEW b \in Int, NEW x
  PROVE  x \in a..b <=> x \in Int /\ a <= x /\ x <= b
OBVIOUS

LEMMA WordIs ==
  ASSUME NEW x
  PROVE  x \in Word <=> x \in Int /\ 0 <= x /\ x <= 65535
<1>1. PICK n \in Int : n = 65535
  OBVIOUS
<1>2. Word = 0..n
  BY <1>1 DEF Word
<1>3. x \in 0..n <=> x \in Int /\ 0 <= x /\ x <= n
  BY SMT, IntervalIs
<1>4. n = 65535
  BY <1>1
<1>5. x \in Word <=> x \in Int /\ 0 <= x /\ x <= n
  BY <1>2, <1>3
<1> QED BY <1>4, <1>5

LEMMA OneByte ==
  ASSUME NEW x \in Byte, NEW b, b = <<x>>
  PROVE  b \in Seq(Byte) /\ Len(b) = 1 /\ b[1] = x
OBVIOUS

(* The bytes of an INTEGER: one to four. *)
LEMMA IntegerBytes ==
  ASSUME NEW v \in Int, NEW b, b = Encode("INTEGER", v)
  PROVE  b \in Seq(Byte) /\ Len(b) \in 1..4
<1>1. PICK n \in 1..4 : n = IntBytes(v)
  BY IntBytesRange
<1>2. b = Little(v, n)
  BY <1>1, EncodeIs
<1> QED BY <1>2, LittleType

LEMMA IntegerBack ==
  ASSUME NEW v \in Int32
  PROVE  /\ Decode("INTEGER", Encode("INTEGER", v)) = v <=> PortableInt(v)
         /\ Decode("INTEGER", Encode("INTEGER", v)) \in Int32
<1>1. v \in Int
  BY Int32Range
<1>2. PICK b : b = Encode("INTEGER", v)
  OBVIOUS
<1>3. b = Little(v, IntBytes(v)) /\ Decode("INTEGER", b) = ParseInt(b)
  BY <1>2, EncodeIs, DecodeIs
<1>4. ParseInt(b) = v <=> PortableInt(v)
  BY <1>3, IntBack
<1>5. ParseInt(b) \in Int32
  BY <1>1, <1>2, IntegerBytes, ParsedRange
<1> QED BY <1>2, <1>3, <1>4, <1>5

LEMMA BooleanBack ==
  ASSUME NEW v \in BOOLEAN, NEW b, b = Encode("BOOLEAN", v)
  PROVE  /\ b \in Seq(Byte) /\ Len(b) = 1
         /\ Decode("BOOLEAN", b) = v
<1>1. b = <<IF v THEN 1 ELSE 0>>
  BY Zenon, EncodeIs
<1>2. PICK x \in Byte : /\ x = IF v THEN 1 ELSE 0
                        /\ v => x = 1
                        /\ ~v => x = 0
  BY DEF Byte
<1>3. b = <<x>>
  BY <1>1, <1>2
<1>4. b \in Seq(Byte) /\ Len(b) = 1 /\ b[1] = x
  BY Zenon, <1>3, OneByte
<1>5. ParseInt(b) = x
  BY SMT, <1>2, <1>4 DEF ParseInt, Char, Byte
<1>6. Decode("BOOLEAN", b) = (ParseInt(b) # 0)
  BY Zenon, DecodeIs
<1>7. Decode("BOOLEAN", b) <=> x # 0
  BY Zenon, <1>5, <1>6
<1>8. v <=> x # 0
  BY <1>2
<1>9. Decode("BOOLEAN", b) \in BOOLEAN
  BY Zenon, <1>6
<1> QED BY Zenon, <1>4, <1>7, <1>8, <1>9

(* The bytes of a DOUBLE turned round. *)
LEMMA DoubleBack ==
  ASSUME NEW v \in [1..8 -> Byte]
  PROVE  /\ v \in Seq(Byte) /\ Len(v) = 8
         /\ Reverse(v) = v <=> \A k \in 1..4 : v[k] = v[9 - k]
<1>1. v \in Seq(Byte) /\ Len(v) = 8
  <2>1. v \in UNION {[1..n -> Byte] : n \in Nat}
    <3>1. 8 \in Nat
      OBVIOUS
    <3> QED BY Zenon, <3>1
  <2>2. v \in Seq(Byte)
    BY <2>1, SeqDef
  <2>3. DOMAIN v = 1..8 /\ DOMAIN v = 1..Len(v) /\ Len(v) \in Nat
    BY <2>2, LenProperties
  <2> QED BY <2>2, <2>3
<1>2. Reverse(v) = [k \in 1..8 |-> v[(8 - k) + 1]]
  BY <1>1 DEF Reverse
<1>3. Reverse(v) = v <=> \A k \in 1..8 : v[k] = v[(8 - k) + 1]
  BY <1>2
<1>4. (\A k \in 1..8 : v[k] = v[(8 - k) + 1]) <=> \A k \in 1..4 : v[k] = v[9 - k]
  <2>1. ASSUME \A k \in 1..4 : v[k] = v[9 - k], NEW k \in 1..8 PROVE v[k] = v[(8 - k) + 1]
    <3>1. CASE k \in 1..4
      BY <2>1, <3>1
    <3>2. CASE k \notin 1..4
      <4>1. PICK j \in 1..4 : k = 9 - j /\ j = (8 - k) + 1
        BY <3>2
      <4> QED BY <2>1, <4>1
    <3> QED BY <3>1, <3>2
  <2>2. ASSUME \A k \in 1..8 : v[k] = v[(8 - k) + 1], NEW k \in 1..4 PROVE v[k] = v[9 - k]
    <3>1. k \in 1..8 /\ (8 - k) + 1 = 9 - k
      OBVIOUS
    <3> QED BY <2>2, <3>1
  <2> QED BY <2>1, <2>2
<1> QED BY <1>1, <1>3, <1>4

(* The two bytes of a 16 bit number change places. *)
LEMMA WordBack ==
  ASSUME NEW v \in Word
  PROVE  /\ ParseInt(Little(v, 2)) = Swapped(v)
         /\ Swapped(v) \in Word
         /\ Swapped(Swapped(v)) = v
<1>1. v \in Int /\ 0 <= v /\ v <= 65535
  BY SMT, WordIs
<1>2. ParseInt(Little(v, 2)) = ((v \div 256) % 256) + 256 * (v % 256)
  BY SMT, <1>1, TwoBytesBack
<1>3. PICK h \in Int, l \in Int : h = v \div 256 /\ l = v % 256
  BY <1>1
<1>4. v = 256 * h + l /\ 0 <= l /\ l < 256 /\ 0 <= h /\ h < 256 /\ h % 256 = h
  BY SMT, <1>1, <1>3
<1>5. Swapped(v) = 256 * l + h
  BY <1>3 DEF Swapped
<1>6. (256 * l + h) % 256 = h /\ (256 * l + h) \div 256 = l
  BY SMT, <1>3, <1>4
<1>7. Swapped(256 * l + h) = 256 * h + l
  BY <1>6 DEF Swapped
<1>8. 256 * l + h \in Word
  BY SMT, <1>3, <1>4, WordIs
<1>9. ((v \div 256) % 256) + 256 * (v % 256) = 256 * l + h
  BY SMT, <1>3, <1>4
<1> QED BY SMT, <1>2, <1>4, <1>5, <1>7, <1>8, <1>9

LEMMA TwoPairs ==
  ASSUME NEW c \in Seq(Byte), NEW d \in Seq(Byte), Len(c) = 2, Len(d) = 2, NEW b, b = c \o d
  PROVE  /\ b \in Seq(Byte) /\ Len(b) = 4
         /\ SubSeq(b, 1, 2) = c /\ SubSeq(b, 3, 4) = d
<1>1. b \in Seq(Byte) /\ Len(b) = 4
  <2>1. c \o d \in Seq(Byte) /\ Len(c \o d) = Len(c) + Len(d)
    BY ConcatProperties
  <2> QED BY <2>1
<1>2. b[1] = c[1] /\ b[2] = c[2] /\ b[3] = d[1] /\ b[4] = d[2]
  BY ConcatProperties
<1>3. /\ SubSeq(b, 1, 2) \in Seq(Byte) /\ Len(SubSeq(b, 1, 2)) = 2
      /\ SubSeq(b, 1, 2)[1] = b[1] /\ SubSeq(b, 1, 2)[2] = b[2]
  BY SMT, <1>1
<1>4. /\ SubSeq(b, 3, 4) \in Seq(Byte) /\ Len(SubSeq(b, 3, 4)) = 2
      /\ SubSeq(b, 3, 4)[1] = b[3] /\ SubSeq(b, 3, 4)[2] = b[4]
  BY SMT, <1>1
<1>5. ASSUME NEW x \in Seq(Byte), NEW y \in Seq(Byte), Len(x) = 2, Len(y) = 2,
             x[1] = y[1], x[2] = y[2]
      PROVE  x = y
  BY <1>5
<1> QED BY <1>1, <1>2, <1>3, <1>4, <1>5

LEMMA LinkBack ==
  ASSUME NEW v \in Word \X Word, NEW b, b = Encode("LINK", v)
  PROVE  /\ b \in Seq(Byte) /\ Len(b) = 4
         /\ Decode("LINK", b) = <<Swapped(v[2]), Swapped(v[1])>>
         /\ Decode("LINK", b) \in Word \X Word
         /\ Decode("LINK", b) = v <=> v[1] = Swapped(v[2])
<1>1. PICK x, y : x = v[1] /\ y = v[2] /\ v = <<x, y>> /\ x \in Word /\ y \in Word
  OBVIOUS
<1>2. PICK c, d : c = Little(x, 2) /\ d = Little(y, 2)
  OBVIOUS
<1>3. x \in Int /\ y \in Int
  BY SMT, <1>1, WordIs
<1>4. c \in Seq(Byte) /\ d \in Seq(Byte) /\ Len(c) = 2 /\ Len(d) = 2
  BY <1>2, <1>3, LittleType
<1>5. b = c \o d
  BY <1>1, <1>2, EncodeIs
<1>6. /\ b \in Seq(Byte) /\ Len(b) = 4
      /\ SubSeq(b, 1, 2) = c /\ SubSeq(b, 3, 4) = d
  BY Zenon, <1>4, <1>5, TwoPairs
<1>7. ParseInt(c) = Swapped(x) /\ ParseInt(d) = Swapped(y)
  BY <1>1, <1>2, WordBack
<1>8. Decode("LINK", b) = <<Swapped(y), Swapped(x)>>
  BY <1>6, <1>7, DecodeIs
<1>9. Swapped(x) \in Word /\ Swapped(y) \in Word /\ Swapped(Swapped(y)) = y
  BY <1>1, WordBack
<1>10. <<Swapped(y), Swapped(x)>> = v <=> x = Swapped(y)
  BY <1>1, <1>9
<1> QED BY <1>1, <1>6, <1>8, <1>9, <1>10

(* What strcpy() makes of bytes: none of them zero. *)
LEMMA TerminatedType ==
  ASSUME NEW b \in Seq(Byte)
  PROVE  /\ Terminated(b) \in Seq(1..255)
         /\ (\A k \in 1..Len(b) : b[k] # 0) => Terminated(b) = b
<1> DEFINE End(n) == /\ n = Len(b) \/ b[n + 1] = 0
                     /\ \A k \in 1..n : b[k] # 0
<1>0. Len(b) \in Nat
  OBVIOUS
<1>1. \E n \in 0..Len(b) : End(n)
  <2> DEFINE T == {n \in Nat : n <= Len(b) /\ (n = Len(b) \/ b[n + 1] = 0)}
  <2>1. Len(b) \in T
    BY <1>0
  <2>2. PICK n \in T : \A k \in T : n <= k
    BY <2>1, LeastNatural
  <2>3. ASSUME NEW k \in 1..n PROVE b[k] # 0
    <3>1. k - 1 \in Nat /\ k - 1 <= Len(b) /\ ~(n <= k - 1) /\ (k - 1) + 1 = k
      BY <1>0
    <3> QED BY <2>2, <3>1
  <2> QED BY <1>0, <2>3
<1>2. PICK n : n = CHOOSE m \in 0..Len(b) : End(m)
  OBVIOUS
<1>3. n \in 0..Len(b) /\ End(n)
  BY <1>1, <1>2
<1>4. Terminated(b) = SubSeq(b, 1, n)
  BY <1>2 DEF Terminated
<1>5. \A k \in 1..n : b[k] \in 1..255
  <2> TAKE k \in 1..n
  <2>1. b[k] \in Byte /\ b[k] # 0
    BY <1>0, <1>3
  <2> QED BY <2>1 DEF Byte
<1>6. SubSeq(b, 1, n) = [k \in 1..n |-> b[k]]
  BY <1>0, <1>3
<1>7. SubSeq(b, 1, n) \in Seq(1..255)
  BY <1>3, <1>5, <1>6
<1>8. ASSUME \A k \in 1..Len(b) : b[k] # 0 PROVE SubSeq(b, 1, n) = b
  <2>1. n = Len(b)
    <3>1. CASE n < Len(b)
      <4>1. n + 1 \in 1..Len(b)
        BY <1>0, <1>3, <3>1
      <4> QED BY <1>3, <1>8, <3>1, <4>1
    <3> QED BY <1>0, <1>3, <3>1
  <2> QED BY <1>0, <2>1
<1> QED BY <1>4, <1>7, <1>8

LEMMA ConstantsAre ==
  /\ \A t \in Types : Unset \notin ValuesOf(t)
  /\ \A v \in DOMAIN Rounded : /\ v \in [1..8 -> Byte]
                               /\ Rounded[v] \in DOMAIN Rounded
                               /\ Reverse(v) \in DOMAIN Rounded
  /\ [k \in 1..8 |-> 0] \in DOMAIN Rounded
<1>1. \A v \in DOMAIN Rounded :
        v \in [1..8 -> Byte] /\ {Rounded[v], Reverse(v)} \subseteq DOMAIN Rounded
  BY SMT, ValuesAssumption DEF ValuesAssumption
<1>2. \A t \in Types : Unset \notin ValuesOf(t)
  BY SMT, ValuesAssumption DEF ValuesAssumption
<1>3. [k \in 1..8 |-> 0] \in DOMAIN Rounded
  BY SMT, ValuesAssumption DEF ValuesAssumption
<1> QED BY Zenon, <1>1, <1>2, <1>3

LEMMA DoubleIs ==
  ASSUME NEW v \in DOMAIN Rounded
  PROVE  v \in [1..8 -> Byte] /\ Rounded[v] \in DOMAIN Rounded /\ Reverse(v) \in DOMAIN Rounded
BY Zenon, ConstantsAre

(* A value is written as bytes, at most eight but for a STRING, and what   *)
(* is read of them is a value of its type, the same one if it is portable. *)
LEMMA EncodedBack ==
  ASSUME NEW t \in Types, NEW v \in ValuesOf(t), NEW b, b = Encode(t, v)
  PROVE  /\ b \in Seq(Byte)
         /\ t # "STRING" => Len(b) \in 1..8
         /\ Decode(t, b) \in ValuesOf(t)
         /\ t # "STRING" => (Decode(t, b) = v <=> Portable(t, v))
         /\ t = "STRING" => /\ b = v
                            /\ Decode(t, b) = v
                            /\ Portable(t, v) <=> PortableLength(Len(b))
<1>1. CASE t = "INTEGER"
  <2>0. v \in Int32
    BY Zenon, <1>1, ValuesAre
  <2>1. v \in Int32 /\ v \in Int
    BY SMT, <2>0, Int32Range
  <2>2. b \in Seq(Byte) /\ Len(b) \in 1..4
    BY Zenon, <1>1, <2>1, IntegerBytes
  <2>3. Len(b) \in 1..8
    BY <2>2
  <2>4. /\ Decode(t, b) = v <=> Portable(t, v)
        /\ Decode(t, b) \in ValuesOf(t)
    BY Zenon, <1>1, <2>1, IntegerBack, ValuesAre, PortableIs
  <2> QED BY Zenon, <1>1, <2>2, <2>3, <2>4
<1>2. CASE t = "BOOLEAN"
  <2>1. v \in BOOLEAN
    BY Zenon, <1>2, ValuesAre
  <2>2. b \in Seq(Byte) /\ Len(b) = 1 /\ Decode(t, b) = v /\ Portable(t, v)
    BY Zenon, <1>2, <2>1, BooleanBack, PortableIs
  <2>3. Len(b) \in 1..8
    BY <2>2
  <2> QED BY Zenon, <1>2, <2>2, <2>3
<1>3. CASE t = "DOUBLE"
  <2>1. v \in DOMAIN Rounded
    BY Zenon, <1>3, ValuesAre
  <2>2. v \in [1..8 -> Byte] /\ Reverse(v) \in DOMAIN Rounded
    BY Zenon, <2>1, DoubleIs
  <2>3. b = v /\ Decode(t, b) = Reverse(v)
    BY Zenon, <1>3, EncodeIs, DecodeIs
  <2>4. b \in Seq(Byte) /\ Len(b) = 8
    BY Zenon, <2>2, <2>3, DoubleBack
  <2>5. Len(b) \in 1..8
    BY <2>4
  <2>6. Reverse(v) = v <=> Portable(t, v)
    <3>1. Reverse(v) = v <=> \A k \in 1..4 : v[k] = v[9 - k]
      BY Zenon, <2>2, DoubleBack
    <3>2. Portable(t, v) = (\A k \in 1..4 : v[k] = v[9 - k])
      BY Zenon, <1>3, PortableIs
    <3> QED BY Zenon, <3>1, <3>2
  <2>7. Decode(t, b) \in ValuesOf(t)
    BY Zenon, <1>3, <2>2, <2>3, ValuesAre
  <2> QED BY Zenon, <1>3, <2>3, <2>4, <2>5, <2>6, <2>7
<1>4. CASE t = "STRING"
  <2>1. v \in Seq(1..255)
    BY Zenon, <1>4, ValuesAre
  <2>2. b = v /\ Decode(t, b) = Terminated(v)
    BY Zenon, <1>4, EncodeIs, DecodeIs
  <2>3. 1..255 \subseteq Byte
    BY DEF Byte
  <2>4. v \in Seq(Byte)
    BY <2>1, <2>3, SeqMonotonic
  <2>5. \A k \in 1..Len(v) : v[k] # 0
    <3> TAKE k \in 1..Len(v)
    <3>1. v[k] \in 1..255
      BY <2>1, ElementOfSeq
    <3>2. 0 \notin 1..255
      OBVIOUS
    <3> QED BY Zenon, <3>1, <3>2
  <2>6. Terminated(v) = v
    BY Zenon, <2>4, <2>5, TerminatedType
  <2>7. Portable(t, v) = PortableLength(Len(v))
    BY Zenon, <1>4, PortableIs
  <2> QED BY Zenon, <1>4, <2>1, <2>2, <2>4, <2>6, <2>7, ValuesAre
<1>5. CASE t = "LINK"
  <2>1. v \in Word \X Word
    BY Zenon, <1>5, ValuesAre
  <2>2. /\ b \in Seq(Byte) /\ Len(b) = 4
        /\ Decode(t, b) \in Word \X Word
        /\ Decode(t, b) = v <=> v[1] = Swapped(v[2])
    BY Zenon, <1>5, <2>1, LinkBack
  <2>3. Len(b) \in 1..8
    BY <2>2
  <2>4. Portable(t, v) = (v[1] = Swapped(v[2]))
    BY Zenon, <1>5, PortableIs
  <2>5. Decode(t, b) \in ValuesOf(t)
    BY Zenon, <1>5, <2>2, ValuesAre
  <2> QED BY Zenon, <1>5, <2>2, <2>3, <2>4, <2>5
<1> QED BY Zenon, <1>1, <1>2, <1>3, <1>4, <1>5 DEF Types

(* Any bytes are read as a STRING. *)
LEMMA StringDecoded ==
  ASSUME NEW b \in Seq(Byte)
  PROVE  Decode("STRING", b) \in ValuesOf("STRING")
BY Zenon, DecodeIs, TerminatedType, ValuesAre

(* A long STRING is cut to 30 bytes. *)
LEMMA CutIsShorter ==
  ASSUME NEW S, NEW v \in Seq(S), Len(v) > 30, NEW e \in Seq(S), Len(e) <= 3
  PROVE  SubSeq(v, 1, 27) \o e \in Seq(S) /\ SubSeq(v, 1, 27) \o e # v
<1>1. PICK s : s = SubSeq(v, 1, 27)
  OBVIOUS
<1>2. s \in Seq(S) /\ Len(s) <= 27 /\ Len(s) \in Nat /\ Len(e) \in Nat
  <2>1. PICK a \in Int, b \in Int : a = 1 /\ b = 27
    OBVIOUS
  <2>2. \A i \in a..b : v[i] \in S
    BY <2>1
  <2>3. s = SubSeq(v, a, b)
    BY <1>1, <2>1
  <2>4. s \in Seq(S) /\ Len(s) = IF a <= b THEN b - a + 1 ELSE 0
    BY <2>2, <2>3, SubSeqProperties
  <2> QED BY <2>1, <2>4
<1>3. s \o e \in Seq(S) /\ Len(s \o e) = Len(s) + Len(e)
  BY <1>2
<1>4. ~(Len(s) + Len(e) >= Len(v)) /\ Len(v) >= Len(v)
  <2>1. PICK a \in Nat, b \in Nat, n \in Nat : a = Len(s) /\ b = Len(e) /\ n = Len(v)
    BY <1>2, LenProperties
  <2>2. a <= 27 /\ b <= 3 /\ n > 30
    BY <1>2, <2>1
  <2>3. ~(a + b >= n) /\ n >= n
    BY <2>2
  <2> QED BY Zenon, <2>1, <2>3
<1> QED BY Zenon, <1>1, <1>3, <1>4

LEMMA CutType ==
  ASSUME NEW v \in Seq(1..255), Len(v) > 30
  PROVE  /\ SubSeq(v, 1, 27) \o Ellipsis \in Seq(1..255)
         /\ SubSeq(v, 1, 27) \o Ellipsis # v
<1>1. Ellipsis \in Seq(1..255) /\ Len(Ellipsis) <= 3
  BY DEF Ellipsis
<1> QED BY Zenon, <1>1, CutIsShorter

(* What is read back of a text. *)
LEMMA TextType ==
  ASSUME NEW t \in Types, NEW v, v = Unset \/ v \in ValuesOf(t)
  PROVE  TextOf(t, v) \in ValuesOf(t)
<1>1. CASE v = Unset
  <2>1. 0 \in Int32 /\ <<0, 0>> \in Word \X Word
    BY SMT, WordIs DEF Int32
  <2>2. [k \in 1..8 |-> 0] \in DOMAIN Rounded
    BY Zenon, ConstantsAre
  <2>3. <<>> \in Seq(1..255) /\ FALSE \in BOOLEAN
    BY EmptySeq
  <2>4. CASE t = "INTEGER"
    BY Zenon, <1>1, <2>1, <2>4, TextIs, ValuesAre
  <2>7. CASE t = "BOOLEAN"
    BY Zenon, <1>1, <2>3, <2>7, TextIs, ValuesAre
  <2>8. CASE t = "DOUBLE"
    BY Zenon, <1>1, <2>2, <2>8, TextIs, ValuesAre
  <2>5. CASE t = "STRING"
    BY Zenon, <1>1, <2>3, <2>5, TextIs, ValuesAre
  <2>6. CASE t = "LINK"
    BY Zenon, <1>1, <2>1, <2>6, TextIs, ValuesAre
  <2> QED BY Zenon, <2>4, <2>5, <2>6, <2>7, <2>8 DEF Types
<1>2. CASE v # Unset
  <2>0. v \in ValuesOf(t)
    BY <1>2
  <2>1. CASE t \in {"INTEGER", "BOOLEAN"}
    BY Zenon, <1>2, <2>0, <2>1, TextIs
  <2>2. CASE t = "DOUBLE"
    <3>1. v \in DOMAIN Rounded
      BY Zenon, <2>0, <2>2, ValuesAre
    <3>2. Rounded[v] \in DOMAIN Rounded
      BY Zenon, <3>1, DoubleIs
    <3> QED BY Zenon, <1>2, <2>2, <3>2, TextIs, ValuesAre
  <2>3. CASE t = "STRING"
    <3>1. v \in Seq(1..255)
      BY Zenon, <2>0, <2>3, ValuesAre
    <3>2. CASE Len(v) > 30
      <4>1. SubSeq(v, 1, 27) \o Ellipsis \in Seq(1..255)
        BY Zenon, <3>1, <3>2, CutType
      <4>2. TextOf(t, v) = SubSeq(v, 1, 27) \o Ellipsis
        BY Zenon, <1>2, <2>3, <3>2, TextIs
      <4> QED BY Zenon, <2>3, <4>1, <4>2, ValuesAre
    <3>3. CASE ~(Len(v) > 30)
      <4>1. TextOf(t, v) = v
        BY Zenon, <1>2, <2>3, <3>3, TextIs
      <4> QED BY Zenon, <2>0, <4>1
    <3> QED BY Zenon, <3>2, <3>3
  <2>4. CASE t = "LINK"
    <3>1. v \in Word \X Word
      BY Zenon, <2>0, <2>4, ValuesAre
    <3>2. <<v[1], v[1]>> \in Word \X Word
      BY <3>1
    <3> QED BY Zenon, <1>2, <2>4, <3>2, TextIs, ValuesAre
  <2> QED BY Zenon, <2>1, <2>2, <2>3, <2>4 DEF Types
<1> QED BY Zenon, <1>1, <1>2

LEMMA TextBack ==
  ASSUME type \in Types, sent = Unset \/ sent \in ValuesOf(type)
  PROVE  TextOf(type, sent) = sent <=> PortableText
<1>1. CASE sent = Unset
  <2>1. TextOf(type, sent) \in ValuesOf(type)
    BY Zenon, TextType
  <2>2. Unset \notin ValuesOf(type)
    BY Zenon, ConstantsAre
  <2> QED BY Zenon, <1>1, <2>1, <2>2 DEF PortableText
<1>2. CASE sent # Unset
  <2>1. CASE type \in {"INTEGER", "BOOLEAN"}
    BY Zenon, <1>2, <2>1, TextIs DEF PortableText
  <2>2. CASE type = "DOUBLE"
    BY Zenon, <1>2, <2>2, TextIs DEF PortableText
  <2>3. CASE type = "STRING"
    <3>1. sent \in Seq(1..255)
      BY Zenon, <1>2, <2>3, ValuesAre
    <3>2. ASSUME Len(sent) > 30 PROVE SubSeq(sent, 1, 27) \o Ellipsis # sent
      BY Zenon, <3>1, <3>2, CutType
    <3>3. Len(sent) \in Nat /\ (Len(sent) > 30 <=> ~(Len(sent) <= 30))
      BY <3>1
    <3>4. PortableText <=> Len(sent) <= 30
      BY Zenon, <1>2, <2>3 DEF PortableText
    <3> QED BY Zenon, <1>2, <2>3, <3>2, <3>3, <3>4, TextIs
  <2>4. CASE type = "LINK"
    <3>1. sent \in Word \X Word
      BY Zenon, <1>2, <2>4, ValuesAre
    <3>2. <<sent[1], sent[1]>> = sent <=> sent[1] = sent[2]
      BY <3>1
    <3>3. PortableText <=> sent[1] = sent[2]
      BY Zenon, <1>2, <2>4 DEF PortableText
    <3> QED BY Zenon, <1>2, <2>4, <3>2, <3>3, TextIs
  <2> QED BY Zenon, <2>1, <2>2, <2>3, <2>4 DEF Types
<1> QED BY <1>1, <1>2

-----------------------------------------------------------------------------
(* Whatever the length, an element is no shorter than its value, and a     *)
(* payload no shorter than one of its elements: what is in a payload that  *)
(* the buffer has room for is short enough for the header's length.        *)
LEMMA BytesAreInts ==
  ASSUME NEW b \in Seq(Byte)
  PROVE  b \in Seq(Int)
<1>1. Byte \subseteq Int
  BY DEF Byte
<1> QED BY <1>1, SeqMonotonic

LEMMA OneOf ==
  ASSUME NEW S, NEW x \in S
  PROVE  <<x>> \in Seq(S)
OBVIOUS

LEMMA AnyElement ==
  ASSUME NEW kind \in Kinds, NEW id \in Int, NEW val \in Seq(Int), NEW e, e = Element(kind, id, val)
  PROVE  e \in Seq(Int) /\ Len(val) <= Len(e)
<1>1. PICK len \in Nat : len = Len(val)
  BY LenProperties
<1>2. PICK bits : bits = FirstByte(kind, id, len)
  OBVIOUS
<1>3. bits \in Int
  <2>1. kind \in Int
    BY DEF Kinds, InstanceKind, ResourceInstanceKind, ResourceKind
  <2>2. IntBytes(len) \in Int
    BY SMT, IntBytesRange
  <2> QED BY <1>2, <2>1, <2>2 DEF FirstByte
<1>4. PICK w \in 1..4 : w = IF id < 255 THEN 1 ELSE 2
  OBVIOUS
<1>5. PICK b : b = Little(id, w) /\ b \in Seq(Int)
  BY <1>4, LittleType, BytesAreInts
<1>6. PICK c : c = LengthField(len) /\ c \in Seq(Int)
  BY <1>1, LengthFieldBytes, BytesAreInts
<1>7. e = (<<bits>> \o b \o c) \o val
  <2>1. Header(kind, id, len) = <<bits>> \o b \o c
    BY <1>2, <1>4, <1>5, <1>6 DEF Header, FirstByte
  <2> QED BY <1>1, <2>1 DEF Element
<1>8. PICK a : a = <<bits>> /\ a \in Seq(Int)
  BY Zenon, <1>3, OneOf
<1>9. PICK h : h = a \o b \o c /\ h \in Seq(Int)
  BY <1>5, <1>6, <1>8, ConcatProperties
<1>10. e = h \o val
  BY <1>7, <1>8, <1>9
<1>11. e \in Seq(Int) /\ Len(e) = Len(h) + Len(val) /\ Len(h) \in Nat /\ Len(val) \in Nat
  BY <1>9, <1>10, ConcatProperties, LenProperties
<1> QED BY <1>11

LEMMA PartsFit ==
  ASSUME NEW S, NEW N \in Nat, NEW seqs \in [1..N -> Seq(S)]
  PROVE  /\ FlattenSeq(seqs) \in Seq(S)
         /\ \A n \in 1..N : Len(seqs[n]) <= Len(FlattenSeq(seqs))
<1>1. seqs \in Seq(Seq(S)) /\ Len(seqs) = N
  BY SMT
<1>2. PICK f : Flattens(f, seqs, N) /\ FlattenSeq(seqs) = f[N]
  BY <1>1, FlattenSeqFlattens
<1>3. Joined(f, seqs, S, N)
  BY <1>1, <1>2, FlattensJoin
<1>4. f[N] \in Seq(S) /\ Len(f[N]) \in Nat
  BY <1>3, LenProperties DEF Joined
<1>5. ASSUME NEW n \in 1..N PROVE Len(seqs[n]) <= Len(f[N])
  <2>1. f[n - 1] \in Seq(S) /\ LiesAt(seqs[n], f[N], Len(f[n - 1]))
    BY <1>3 DEF Joined
  <2>2. Len(f[n - 1]) + Len(seqs[n]) <= Len(f[N])
    BY <2>1 DEF LiesAt
  <2>3. Len(f[n - 1]) \in Nat /\ Len(seqs[n]) \in Nat
    BY <2>1, LenProperties
  <2> QED BY <1>4, <2>2, <2>3
<1> QED BY <1>2, <1>4, <1>5

LEMMA BufferFits ==
  ASSUME NEW n \in Nat, n <= BufferSize
  PROVE  Fits(n)
BY SMT, ValuesAssumption DEF ValuesAssumption, Fits

LEMMA FitsBelow ==
  ASSUME NEW n \in Nat, NEW k \in Nat, k <= n, Fits(n)
  PROVE  Fits(k)
BY SMT DEF Fits

LEMMA ShortFits ==
  ASSUME NEW n \in Nat, n < 128
  PROVE  Fits(n) /\ PortableLength(n)
BY SMT DEF Fits, PortableLength

(* An instance without a value is written as nothing, one that has one as  *)
(* an element.                                                             *)
LEMMA InstanceBytes ==
  ASSUME signed \in BOOLEAN, NEW t \in Types, NEW v \in ValuesOf(t), NEW c, c = Encode(t, v),
         NEW b, b = InstancePayload(t, v)
  PROVE  /\ b = Element(ResourceKind, ResourceId, c)
         /\ c \in Seq(Byte) /\ Len(c) \in Nat
         /\ b \in Seq(Int) /\ Len(b) \in Nat /\ Len(c) <= Len(b)
         /\ Fits(Len(b)) => Fits(Len(c)) /\ b \in Seq(Byte)
         /\ t # "STRING" => Fits(Len(b)) /\ PortableLength(Len(b)) /\ PortableLength(Len(c))
<1>1. v # Unset
  BY Zenon, ConstantsAre
<1>2. b = Element(ResourceKind, ResourceId, c)
  BY <1>1 DEF InstancePayload
<1>3. c \in Seq(Byte) /\ (t # "STRING" => Len(c) \in 1..8)
  BY Zenon, EncodedBack
<1>4. Len(c) \in Nat
  BY <1>3, LenProperties
<1>5. ResourceKind \in Kinds /\ ResourceId \in Int
  BY DEF Kinds, ResourceId
<1>6. c \in Seq(Int)
  BY <1>3, BytesAreInts
<1>7. b \in Seq(Int) /\ Len(c) <= Len(b)
  BY Zenon, <1>2, <1>5, <1>6, AnyElement
<1>8. Len(b) \in Nat
  BY <1>7, LenProperties
<1>9. Fits(Len(b)) => Fits(Len(c))
  BY Zenon, <1>4, <1>7, <1>8, FitsBelow
<1>10. Fits(Len(b)) => b \in Seq(Byte)
  BY Zenon, <1>2, <1>3, <1>5, <1>9, ElementType
<1>11. ASSUME t # "STRING"
       PROVE  Fits(Len(b)) /\ PortableLength(Len(b)) /\ PortableLength(Len(c))
  <2>1. PICK l \in 1..8 : l = Len(c)
    BY Zenon, <1>3, <1>11
  <2>2. Fits(l) /\ PortableLength(l)
    BY SMT, ShortFits
  <2>3. LiesAt(b, b, 0)
    BY <1>8 DEF LiesAt
  <2>4. Len(b) = 1 + IdWidth(ResourceId) + LengthWidth(l) + l
    <3>1. b \in Seq(Byte) /\ Fits(Len(c)) /\ 0 \in Nat
      BY Zenon, <1>2, <1>3, <1>5, <2>1, <2>2, ElementType
    <3> QED BY SMT, <1>2, <1>3, <1>5, <2>1, <2>3, <3>1, HeaderRead
  <2>5. IdWidth(ResourceId) = 1 /\ LengthWidth(l) \in 0..1
    BY SMT DEF IdWidth, ResourceId, LengthWidth, IntBytes
  <2>6. Len(b) < 128
    BY <2>4, <2>5
  <2> QED BY Zenon, <1>8, <2>1, <2>2, <2>6, ShortFits
<1> QED BY Zenon, <1>2, <1>3, <1>4, <1>7, <1>8, <1>9, <1>10, <1>11

(* Nothing is read of an empty message. *)
LEMMA EmptyRead ==
  ASSUME NEW s \in BOOLEAN
  PROVE  Elements(s, <<>>) = <<>>
<1>1. PICK m : m = <<>> /\ m \in Seq(Byte) /\ Len(m) = 0
  BY EmptySeq
<1>2. PICK r : /\ Reads(r, s, m, Len(m))
               /\ \A k \in 0..Len(m) :
                    /\ ReadSoFar(s, m, k, r[k])
                    /\ Len(r[k].elements) <= Len(Elements(s, m))
                    /\ \A i \in 1..Len(r[k].elements) : Elements(s, m)[i] = r[k].elements[i]
                    /\ r[k].next = Len(m) => Elements(s, m) = r[k].elements
               /\ Elements(s, m) \in Seq(ElementsIn(s, m))
  BY Zenon, <1>1, ElementsKeep
<1>3. r[0] = Nought /\ 0 \in 0..Len(m)
  BY <1>1, <1>2 DEF Reads
<1>4. r[0].next = Len(m) /\ r[0].elements = <<>>
  BY <1>1, <1>3 DEF Nought
<1> QED BY <1>1, <1>2, <1>3, <1>4

LEMMA ResourceIdBack ==
  ASSUME signed \in BOOLEAN
  PROVE  DecodedId(signed, ResourceId) = ResourceId /\ ResourceId \in Id /\ PortableId(ResourceId)
<1>1. ResourceId \in Id /\ PortableId(ResourceId)
  BY SMT DEF ResourceId, Id, PortableId
<1> QED BY Zenon, <1>1, IdBack

LEMMA ElementsAreSeq ==
  ASSUME NEW s \in BOOLEAN, NEW m \in Seq(Byte)
  PROVE  Len(Elements(s, m)) \in Nat /\ DOMAIN Elements(s, m) = 1..Len(Elements(s, m))
<1>1. Elements(s, m) \in Seq(ElementsIn(s, m))
  BY ElementsKeep
<1> QED BY Zenon, <1>1, LenProperties

(* What is read of an instance that has a value: its value in one element, *)
(* if the length comes back; something else or more than that if not.      *)
LEMMA InstanceRead ==
  ASSUME signed \in BOOLEAN, NEW t \in Types, NEW v \in ValuesOf(t), NEW c, c = Encode(t, v),
         NEW b, b = InstancePayload(t, v), Fits(Len(b))
  PROVE  /\ PortableLength(Len(c)) =>
              Elements(signed, b) = <<TlvElement(ResourceKind, ResourceId, c)>>
         /\ ~PortableLength(Len(c)) =>
              Elements(signed, b)[1] = Astray \/ 2 \in DOMAIN Elements(signed, b)
         /\ 1 \in DOMAIN Elements(signed, b)
<1>1. /\ b = Element(ResourceKind, ResourceId, c)
      /\ c \in Seq(Byte) /\ Fits(Len(c)) /\ b \in Seq(Byte) /\ Len(b) \in Nat
  BY Zenon, InstanceBytes
<1>2. ResourceKind \in Kinds /\ ResourceId \in Int /\ 0 \in Nat
  BY DEF Kinds, ResourceId
<1>3. LiesAt(b, b, 0)
  BY <1>1 DEF LiesAt
<1>4. Len(b) \in Nat /\ 2 <= Len(b)
  BY Zenon, <1>1, <1>2, <1>3, ElementParsed
<1>5. b # <<>>
  <2>1. PICK n \in Nat : n = Len(b) /\ 2 <= n
    BY <1>4
  <2>2. Len(<<>>) = 0 /\ n # 0
    BY <2>1
  <2> QED BY Zenon, <2>1, <2>2
<1>6. /\ 1 \in DOMAIN Elements(signed, b)
      /\ Elements(signed, b)[1] = Parsed(signed, b, 0).element
      /\ Parsed(signed, b, 0).next # Len(b) => 2 \in DOMAIN Elements(signed, b)
      /\ Parsed(signed, b, 0).next = Len(b) => Elements(signed, b) = <<Parsed(signed, b, 0).element>>
  BY Zenon, <1>1, <1>5, FirstElement
<1>7. 0 + Len(b) = Len(b)
  BY <1>4
<1>8. ASSUME PortableLength(Len(c))
      PROVE  Elements(signed, b) = <<TlvElement(ResourceKind, ResourceId, c)>>
  <2>1. IsParsed(b, 0, TlvElement(ResourceKind, DecodedId(signed, ResourceId), c), 0 + Len(b))
    BY Zenon, <1>1, <1>2, <1>3, <1>8, ElementParsed
  <2> QED BY Zenon, <1>6, <1>7, <2>1, ResourceIdBack DEF IsParsed
<1>9. ASSUME ~PortableLength(Len(c))
      PROVE  Elements(signed, b)[1] = Astray \/ 2 \in DOMAIN Elements(signed, b)
  <2>1. Parsed(signed, b, 0).element = Astray \/ Parsed(signed, b, 0).next < 0 + Len(b)
    BY Zenon, <1>1, <1>2, <1>3, <1>9, ElementParsed
  <2>2. ASSUME Parsed(signed, b, 0).next < 0 + Len(b) PROVE Parsed(signed, b, 0).next # Len(b)
    BY <1>4, <2>2
  <2> QED BY Zenon, <1>6, <2>1, <2>2
<1> QED BY Zenon, <1>6, <1>8, <1>9

(* The instance clause: the value comes back, alone, if it is portable.    *)
LEMMA InstanceSays ==
  ASSUME signed \in BOOLEAN, NEW t \in Types, NEW v \in ValuesOf(t),
         NEW b, b = InstancePayload(t, v), Fits(Len(b))
  PROVE  Says(Elements(signed, b), t, Resources(v)) <=> Portable(t, v)
<1>1. PICK c, es : c = Encode(t, v) /\ es = Elements(signed, b)
  OBVIOUS
<1>2. v # Unset
  BY Zenon, ConstantsAre
<1>3. PICK f : f = [i \in {ResourceId} |-> v] /\ Resources(v) = f
  BY <1>2 DEF Resources
<1>4. DOMAIN f = {ResourceId} /\ f[ResourceId] = v /\ Cardinality(DOMAIN f) = 1
  BY <1>3, FS_Singleton
<1>5. Says(es, t, f) <=> /\ Len(es) = 1
                         /\ \E n \in DOMAIN es : /\ es[n].id = ResourceId
                                                 /\ Decode(t, es[n].value) = v
  BY <1>4 DEF Says
<1>6. /\ t # "STRING" => PortableLength(Len(c)) /\ (Decode(t, c) = v <=> Portable(t, v))
      /\ t = "STRING" => Decode(t, c) = v /\ (Portable(t, v) <=> PortableLength(Len(c)))
  BY Zenon, <1>1, InstanceBytes, EncodedBack
<1>7. CASE PortableLength(Len(c))
  <2>1. es = <<TlvElement(ResourceKind, ResourceId, c)>>
    BY Zenon, <1>1, <1>7, InstanceRead
  <2>6. PICK x : x = TlvElement(ResourceKind, ResourceId, c)
    OBVIOUS
  <2>2. x = TlvElement(ResourceKind, ResourceId, c) /\ x.id = ResourceId /\ x.value = c
    BY <2>6 DEF TlvElement
  <2>3. Len(es) = 1 /\ DOMAIN es = {1} /\ es[1] = x
    BY <2>1, <2>2
  <2>4. Says(es, t, f) <=> Decode(t, c) = v
    BY Zenon, <1>5, <2>2, <2>3
  <2>5. Decode(t, c) = v <=> Portable(t, v)
    BY Zenon, <1>6, <1>7
  <2> QED BY Zenon, <1>1, <1>3, <2>4, <2>5
<1>8. CASE ~PortableLength(Len(c))
  <2>1. ~Portable(t, v)
    BY Zenon, <1>6, <1>8
  <2>2. /\ es[1] = Astray \/ 2 \in DOMAIN es
        /\ 1 \in DOMAIN es
    BY Zenon, <1>1, <1>8, InstanceRead
  <2>3. Len(es) \in Nat /\ DOMAIN es = 1..Len(es)
    <3>1. b \in Seq(Byte)
      BY Zenon, InstanceBytes
    <3> QED BY Zenon, <1>1, <3>1, ElementsAreSeq
  <2>4. ASSUME Len(es) = 1, NEW n \in DOMAIN es PROVE es[n].id # ResourceId
    <3>1. n = 1 /\ 2 \notin DOMAIN es
      BY <2>3, <2>4
    <3>2. es[n] = Astray
      BY Zenon, <2>2, <3>1
    <3> QED BY <3>2 DEF Astray, ResourceId
  <2> QED BY Zenon, <1>1, <1>3, <1>5, <2>1, <2>4
<1> QED BY Zenon, <1>7, <1>8

-----------------------------------------------------------------------------
LEMMA WordsAreIds ==
  ASSUME NEW x \in Word
  PROVE  x \in Id /\ x \in Int /\ 0 <= x
BY SMT, WordIs DEF Id

LEMMA WordsAreFinite ==
  ASSUME NEW S, S \subseteq Word
  PROVE  IsFiniteSet(S)
<1>1. PICK n \in Int : n = 65535
  OBVIOUS
<1>2. Word = 0..n
  BY SMT, <1>1 DEF Word
<1>3. IsFiniteSet(0..n)
  <2>1. 0 \in Int
    OBVIOUS
  <2> QED BY Zenon, <2>1, FS_Interval
<1> QED BY Zenon, <1>2, <1>3, FS_Subset

(* No id grows as it is read: if each of some ids is read of one of them,  *)
(* each is read of itself.                                                 *)
LEMMA IdsBack ==
  ASSUME signed \in BOOLEAN, NEW S, S \subseteq Word,
         \A i \in S : \E j \in S : DecodedId(signed, j) = i
  PROVE  \A i \in S : DecodedId(signed, i) = i
<1>1. PICK top \in Int : \A i \in S : i \in Int /\ 0 <= i /\ i <= top
  <2>1. PICK n \in Int : n = 65535
    OBVIOUS
  <2>2. \A i \in S : i \in Int /\ 0 <= i /\ i <= n
    BY SMT, <2>1, WordIs
  <2> QED BY <2>2
<1> DEFINE T == {k \in Nat : \E i \in S : k = top - i /\ DecodedId(signed, i) # i}
<1>2. ASSUME NEW i \in S, DecodedId(signed, i) # i PROVE FALSE
  <2>1. top - i \in T
    BY <1>1, <1>2
  <2>2. PICK k \in T : \A l \in T : k <= l
    BY <2>1, LeastNatural
  <2>3. PICK g \in S : k = top - g /\ DecodedId(signed, g) # g
    BY <2>2
  <2>4. PICK j \in S : DecodedId(signed, j) = g
    OBVIOUS
  <2>5. j # g
    BY <2>3, <2>4
  <2>6. g <= j
    <3>1. j \in Id /\ j \in Int /\ 0 <= j
      BY Zenon, WordsAreIds
    <3>2. j >= 0
      BY <3>1
    <3>3. DecodedId(signed, j) <= j
      BY Zenon, <3>1, <3>2, IdBack
    <3> QED BY Zenon, <2>4, <3>3
  <2>7. DecodedId(signed, j) # j
    BY <2>4, <2>5
  <2>8. g \in Int /\ j \in Int /\ j <= top /\ k = top - g
    BY <1>1, <2>3
  <2>9. top - j \in Nat /\ ~(k <= top - j)
    BY <2>5, <2>6, <2>8
  <2>10. top - j \in T
    BY <2>7, <2>9
  <2> QED BY Zenon, <2>2, <2>9, <2>10
<1> QED BY <1>2

(* The ids and the bytes of the entries of a multiple resource, in the     *)
(* order they are written in.                                              *)
EntryBytes(e, ids, N) == [n \in 1..N |-> Encode("INTEGER", e[ids[n]])]

LEMMA EntriesRead ==
  ASSUME signed \in BOOLEAN, NEW e, NEW S, e \in [S -> Int32], S \subseteq Word,
         NEW m, m = EntriesPayload(e),
         NEW ids, ids = SetToSeq(S), NEW N, N = Cardinality(S)
  PROVE  /\ m \in Seq(Byte)
         /\ Elements(signed, m) = FoundOf(ResourceInstanceKind, ids, EntryBytes(e, ids, N), N)
<1>1. /\ N \in Nat /\ ids \in [1..N -> S]
      /\ DOMAIN e = S /\ DOMAIN ids = 1..N
  <2>1. IsFiniteSet(S)
    BY Zenon, WordsAreFinite
  <2>2. N \in Nat /\ ids \in [1..N -> S]
    BY Zenon, <2>1, SetAsSeq
  <2> QED BY <2>2
<1>2. PICK vals : vals = EntryBytes(e, ids, N)
  OBVIOUS
<1>3. \A n \in 1..N : /\ vals[n] = Encode("INTEGER", e[ids[n]])
                      /\ vals[n] \in Seq(Byte) /\ Fits(Len(vals[n])) /\ PortableLength(Len(vals[n]))
  <2> TAKE n \in 1..N
  <2>1. vals[n] = Encode("INTEGER", e[ids[n]])
    BY <1>2 DEF EntryBytes
  <2>2. e[ids[n]] \in Int32
    BY <1>1
  <2>3. e[ids[n]] \in Int
    BY SMT, <2>2, Int32Range
  <2>4. vals[n] \in Seq(Byte) /\ Len(vals[n]) \in 1..4
    BY Zenon, <2>1, <2>3, IntegerBytes
  <2>5. PICK l \in 1..4 : l = Len(vals[n])
    BY <2>4
  <2>6. Fits(l) /\ PortableLength(l)
    BY SMT, ShortFits
  <2> QED BY Zenon, <2>1, <2>4, <2>5, <2>6
<1>4. AllPortable(vals, N)
  BY <1>3 DEF AllPortable
<1>5. Sendable(ResourceInstanceKind, N, ids, vals)
  <2>1. vals \in [1..N -> Seq(Byte)]
    <3>1. vals = [n \in 1..N |-> vals[n]]
      BY <1>2 DEF EntryBytes
    <3> QED BY <1>3, <3>1
  <2>2. ids \in [1..N -> Id]
    <3>1. S \subseteq Id
      BY Zenon, WordsAreIds
    <3> QED BY <1>1, <3>1
  <2>3. ResourceInstanceKind \in Kinds
    BY DEF Kinds
  <2> QED BY Zenon, <1>3, <2>1, <2>2, <2>3 DEF Sendable
<1>6. m = FlattenSeq(Sequenced(ResourceInstanceKind, ids, vals))
  <2>1. EntriesPayload(e) =
          FlattenSeq([n \in DOMAIN ids |->
                        Element(ResourceInstanceKind, ids[n], Encode("INTEGER", e[ids[n]]))])
    BY Zenon, <1>1 DEF EntriesPayload
  <2>2. Sequenced(ResourceInstanceKind, ids, vals) =
          [n \in DOMAIN ids |->
             Element(ResourceInstanceKind, ids[n], Encode("INTEGER", e[ids[n]]))]
    BY <1>1, <1>3 DEF Sequenced
  <2> QED BY Zenon, <2>1, <2>2
<1>7. N \in Nat
  BY <1>1
<1>8. m \in Seq(Byte)
  BY Zenon, <1>5, <1>6, <1>7, Framing
<1>9. Elements(signed, m) = FoundOf(ResourceInstanceKind, ids, vals, N)
  BY Zenon, <1>4, <1>5, <1>6, <1>7, Framing
<1> QED BY Zenon, <1>2, <1>8, <1>9

(* The clause of the entries: ids and numbers come back, if both are       *)
(* portable.                                                               *)
LEMMA EntriesSays ==
  ASSUME signed \in BOOLEAN, NEW e, NEW S, e \in [S -> Int32], S \subseteq Word,
         NEW m, m = EntriesPayload(e)
  PROVE  Says(Elements(signed, m), "INTEGER", e)
           <=> \A i \in S : PortableId(i) /\ PortableInt(e[i])
<1>0. PICK ids : ids = SetToSeq(S)
  OBVIOUS
<1>00. PICK N : N = Cardinality(S)
  OBVIOUS
<1>1. ids = SetToSeq(S) /\ N = Cardinality(S)
  BY <1>0, <1>00
<1>2. /\ N \in Nat /\ ids \in [1..N -> S]
      /\ \A i \in S : \E n \in 1..N : ids[n] = i
  <2>1. IsFiniteSet(S)
    BY Zenon, WordsAreFinite
  <2>2. N \in Nat /\ ids \in [1..N -> S]
    BY Zenon, <1>1, <2>1, SetAsSeq
  <2>3. \A i \in S : \E n \in 1..N : ids[n] = i
    BY <1>1, <2>1, SetAsSeq
  <2> QED BY Zenon, <2>2, <2>3
<1>3. PICK es : es = Elements(signed, m)
  OBVIOUS
<1>4. es = FoundOf(ResourceInstanceKind, ids, EntryBytes(e, ids, N), N)
  <2>1. Elements(signed, m) = FoundOf(ResourceInstanceKind, ids, EntryBytes(e, ids, N), N)
    BY SMT, <1>1, EntriesRead
  <2> QED BY Zenon, <1>3, <2>1
<1>5. \A n \in 1..N : /\ es[n].id = DecodedId(signed, ids[n])
                      /\ es[n].value = Encode("INTEGER", e[ids[n]])
  BY <1>4 DEF FoundOf, TlvElement, EntryBytes
<1>6. DOMAIN es = 1..N /\ Len(es) = N
  BY <1>2, <1>4 DEF FoundOf
<1>7. DOMAIN e = S
  OBVIOUS
<1>8. \A i \in S : /\ Decode("INTEGER", Encode("INTEGER", e[i])) = e[i] <=> PortableInt(e[i])
                   /\ DecodedId(signed, i) = i <=> PortableId(i)
  <2> TAKE i \in S
  <2>1. e[i] \in Int32
    OBVIOUS
  <2>2. i \in Id
    BY Zenon, WordsAreIds
  <2> QED BY Zenon, <2>1, <2>2, IntegerBack, IdBack
<1>9. Says(es, "INTEGER", e) <=>
        \A i \in S : \E n \in 1..N : /\ DecodedId(signed, ids[n]) = i
                                     /\ Decode("INTEGER", Encode("INTEGER", e[ids[n]])) = e[i]
  <2>1. Says(es, "INTEGER", e) <=>
          \A i \in S : \E n \in 1..N : es[n].id = i /\ Decode("INTEGER", es[n].value) = e[i]
    BY Zenon, <1>1, <1>6, <1>7 DEF Says
  <2>2. ASSUME NEW i, NEW n \in 1..N
        PROVE  es[n].id = i /\ Decode("INTEGER", es[n].value) = e[i] <=>
                 /\ DecodedId(signed, ids[n]) = i
                 /\ Decode("INTEGER", Encode("INTEGER", e[ids[n]])) = e[i]
    BY Zenon, <1>5
  <2> QED BY Zenon, <2>1, <2>2
<1>10. ASSUME \A i \in S : PortableId(i) /\ PortableInt(e[i])
       PROVE  Says(es, "INTEGER", e)
  <2>1. ASSUME NEW i \in S
        PROVE  \E n \in 1..N : /\ DecodedId(signed, ids[n]) = i
                               /\ Decode("INTEGER", Encode("INTEGER", e[ids[n]])) = e[i]
    BY Zenon, <1>2, <1>8, <1>10
  <2> QED BY Zenon, <1>9, <2>1
<1>11. ASSUME Says(es, "INTEGER", e), NEW i \in S
       PROVE  PortableId(i) /\ PortableInt(e[i])
  <2>1. \A j \in S : \E k \in S : DecodedId(signed, k) = j
    BY <1>2, <1>9, <1>11
  <2>2. \A j \in S : DecodedId(signed, j) = j
    BY Zenon, <2>1, IdsBack
  <2>3. PICK n \in 1..N : /\ DecodedId(signed, ids[n]) = i
                          /\ Decode("INTEGER", Encode("INTEGER", e[ids[n]])) = e[i]
    BY Zenon, <1>9, <1>11
  <2>4. ids[n] \in S
    BY <1>2
  <2>5. ids[n] = i
    BY Zenon, <2>2, <2>3, <2>4
  <2> QED BY Zenon, <1>8, <2>2, <2>3, <2>5
<1> QED BY Zenon, <1>3, <1>10, <1>11

-----------------------------------------------------------------------------
LEMMA IdsAreAny == Id \subseteq AnyId /\ IsFiniteSet(AnyId)
<1>1. PICK k \in Int : k = -32896
  OBVIOUS
<1>2. PICK n \in Int : n = 65535
  OBVIOUS
<1>3. AnyId = k..n
  BY SMT, <1>1, <1>2 DEF AnyId
<1>4. ASSUME NEW x \in Id PROVE x \in k..n
  <2>1. x \in Int /\ -32896 <= x /\ x <= 65535
    BY SMT, <1>4 DEF Id
  <2>2. k <= x /\ x <= n
    BY SMT, <1>1, <1>2, <2>1
  <2> QED BY SMT, <2>1, <2>2, IntervalIs
<1>5. IsFiniteSet(k..n)
  BY Zenon, FS_Interval
<1> QED BY Zenon, <1>3, <1>4, <1>5

LEMMA IdsAreFinite ==
  ASSUME NEW S, S \subseteq Id
  PROVE  IsFiniteSet(S)
BY Zenon, IdsAreAny, FS_Subset

(* Instances by their ids, each without a value or with one of the type.   *)
Tree(tree) ==
  /\ tree = [i \in DOMAIN tree |-> tree[i]]
  /\ DOMAIN tree \subseteq Id
  /\ \A i \in DOMAIN tree : tree[i] = Unset \/ tree[i] \in ValuesOf(type)

InstancesBytes(tree, ids, N) == [n \in 1..N |-> InstancePayload(type, tree[ids[n]])]

(* The elements an object is written as: those of its instances that have  *)
(* a value, and all of them fit.                                           *)
LEMMA ObjectWritten ==
  ASSUME signed \in BOOLEAN, type \in Types, NEW tree, Tree(tree),
         NEW m, m = ObjectPayload(type, tree), Len(m) <= BufferSize,
         NEW ids, ids = SetToSeq(Shown(tree)), NEW N, N = Cardinality(Shown(tree)),
         NEW vals, vals = InstancesBytes(tree, ids, N)
  PROVE  /\ N \in Nat /\ ids \in [1..N -> Shown(tree)]
         /\ \A i \in Shown(tree) : \E n \in 1..N : ids[n] = i
         /\ Sendable(InstanceKind, N, ids, vals)
         /\ m = FlattenSeq(Sequenced(InstanceKind, ids, vals))
         /\ \A n \in 1..N : /\ vals[n] = InstancePayload(type, tree[ids[n]])
                            /\ tree[ids[n]] \in ValuesOf(type)
                            /\ Fits(Len(vals[n]))
<1>1. Shown(tree) \subseteq Id /\ \A i \in Shown(tree) : tree[i] \in ValuesOf(type)
  BY DEF Shown, Tree
<1>2. IsFiniteSet(Shown(tree))
  BY Zenon, <1>1, IdsAreFinite
<1>3. N \in Nat /\ ids \in [1..N -> Shown(tree)] /\ DOMAIN ids = 1..N
  BY <1>2, SetAsSeq
<1>4. \A i \in Shown(tree) : \E n \in 1..N : ids[n] = i
  BY <1>2, SetAsSeq
<1>5. \A n \in 1..N : /\ vals[n] = InstancePayload(type, tree[ids[n]])
                      /\ tree[ids[n]] \in ValuesOf(type)
                      /\ ids[n] \in Id
  BY <1>1, <1>3 DEF InstancesBytes
<1>6. PICK seqs : seqs = Sequenced(InstanceKind, ids, vals)
  OBVIOUS
<1>7. m = FlattenSeq(seqs)
  <2>1. ObjectPayload(type, tree) =
          FlattenSeq([n \in DOMAIN ids |->
                        Element(InstanceKind, ids[n], InstancePayload(type, tree[ids[n]]))])
    BY Zenon DEF ObjectPayload
  <2>2. seqs = [n \in DOMAIN ids |->
                  Element(InstanceKind, ids[n], InstancePayload(type, tree[ids[n]]))]
    BY <1>3, <1>5, <1>6 DEF Sequenced
  <2> QED BY Zenon, <2>1, <2>2
<1>8. InstanceKind \in Kinds
  BY DEF Kinds
<1>9. \A n \in 1..N : /\ vals[n] \in Seq(Int) /\ Len(vals[n]) \in Nat
                      /\ Fits(Len(vals[n])) => vals[n] \in Seq(Byte)
                      /\ seqs[n] \in Seq(Int) /\ Len(seqs[n]) \in Nat
                      /\ Len(vals[n]) <= Len(seqs[n])
  <2> TAKE n \in 1..N
  <2>1. /\ vals[n] \in Seq(Int) /\ Len(vals[n]) \in Nat
        /\ Fits(Len(vals[n])) => vals[n] \in Seq(Byte)
    BY Zenon, <1>5, InstanceBytes
  <2>2. ids[n] \in Int
    BY SMT, <1>5 DEF Id
  <2>3. seqs[n] = Element(InstanceKind, ids[n], vals[n])
    BY <1>3, <1>6 DEF Sequenced
  <2>4. seqs[n] \in Seq(Int) /\ Len(vals[n]) <= Len(seqs[n])
    BY Zenon, <1>8, <2>1, <2>2, <2>3, AnyElement
  <2> QED BY <2>1, <2>4, LenProperties
<1>10. seqs \in [1..N -> Seq(Int)]
  <2>1. seqs = [n \in 1..N |-> seqs[n]]
    BY <1>3, <1>6 DEF Sequenced
  <2> QED BY <1>9, <2>1
<1>11. m \in Seq(Int) /\ \A n \in 1..N : Len(seqs[n]) <= Len(m)
  BY Zenon, <1>3, <1>7, <1>10, PartsFit
<1>12. Len(m) \in Nat /\ Fits(Len(m))
  BY Zenon, <1>11, LenProperties, BufferFits
<1>13. \A n \in 1..N : Fits(Len(vals[n])) /\ vals[n] \in Seq(Byte)
  <2> TAKE n \in 1..N
  <2>1. Len(vals[n]) <= Len(m)
    BY <1>9, <1>11, <1>12
  <2>2. Fits(Len(vals[n]))
    BY Zenon, <1>9, <1>12, <2>1, FitsBelow
  <2> QED BY Zenon, <1>9, <2>2
<1>14. Sendable(InstanceKind, N, ids, vals)
  <2>1. vals = [n \in 1..N |-> vals[n]]
    BY DEF InstancesBytes
  <2>2. vals \in [1..N -> Seq(Byte)]
    BY <1>13, <2>1
  <2>3. ids \in [1..N -> Id]
    BY <1>1, <1>3
  <2> QED BY Zenon, <1>8, <1>13, <2>2, <2>3 DEF Sendable
<1> QED BY Zenon, <1>3, <1>4, <1>5, <1>6, <1>7, <1>13, <1>14

(* The clause of the object: the elements and what is in them come back,   *)
(* if the ids, the lengths and the values are portable.                    *)
LEMMA ObjectSays ==
  ASSUME signed \in BOOLEAN, type \in Types, NEW tree, Tree(tree),
         NEW m, m = ObjectPayload(type, tree), Len(m) <= BufferSize,
         NEW es, es = Elements(signed, m)
  PROVE  PortableTree(tree) <=>
           /\ es = Written(type, tree)
           /\ \A n \in DOMAIN es :
                Says(Elements(signed, es[n].value), type, Resources(tree[es[n].id]))
<1>1. PICK ids : ids = SetToSeq(Shown(tree))
  OBVIOUS
<1>2. PICK N : N = Cardinality(Shown(tree))
  OBVIOUS
<1>3. PICK vals : vals = InstancesBytes(tree, ids, N)
  OBVIOUS
<1>4. N \in Nat /\ ids \in [1..N -> Shown(tree)]
  BY SMT, <1>1, <1>2, <1>3, ObjectWritten
<1>5. \A i \in Shown(tree) : \E n \in 1..N : ids[n] = i
  BY SMT, <1>1, <1>2, <1>3, ObjectWritten
<1>6. Sendable(InstanceKind, N, ids, vals) /\ m = FlattenSeq(Sequenced(InstanceKind, ids, vals))
  BY SMT, <1>1, <1>2, <1>3, ObjectWritten
<1>7. \A n \in 1..N : /\ vals[n] = InstancePayload(type, tree[ids[n]])
                      /\ tree[ids[n]] \in ValuesOf(type)
                      /\ Fits(Len(vals[n]))
  BY SMT, <1>1, <1>2, <1>3, ObjectWritten
<1>8. AllPortable(vals, N) => es = FoundOf(InstanceKind, ids, vals, N)
  BY SMT, <1>4, <1>6, Framing
<1>9. ~AllPortable(vals, N) => \E n \in 1..N : n \in DOMAIN es /\ es[n].value # vals[n]
  BY SMT, <1>4, <1>6, Framing
<1>10. PICK w : w = Written(type, tree)
  OBVIOUS
<1>11. w = [n \in 1..N |-> TlvElement(InstanceKind, ids[n], vals[n])]
  <2>1. w = [n \in 1..N |-> [kind  |-> InstanceKind, id |-> ids[n],
                             value |-> InstancePayload(type, tree[ids[n]])]]
    BY Zenon, <1>1, <1>2, <1>10 DEF Written
  <2>2. \A n \in 1..N : TlvElement(InstanceKind, ids[n], vals[n]) =
                          [kind  |-> InstanceKind, id |-> ids[n],
                           value |-> InstancePayload(type, tree[ids[n]])]
    BY <1>7 DEF TlvElement
  <2> QED BY <2>1, <2>2
<1>12. DOMAIN w = 1..N /\ \A n \in 1..N : w[n].id = ids[n] /\ w[n].value = vals[n]
  BY <1>11 DEF TlvElement
<1>13. \A n \in 1..N : Says(Elements(signed, vals[n]), type, Resources(tree[ids[n]]))
                         <=> Portable(type, tree[ids[n]])
  BY Zenon, <1>7, InstanceSays
<1>14. \A n \in 1..N : DecodedId(signed, ids[n]) = ids[n] <=> PortableId(ids[n])
  <2> TAKE n \in 1..N
  <2>1. ids[n] \in Id
    BY <1>4 DEF Shown, Tree
  <2> QED BY Zenon, <2>1, IdBack
<1>15. PortableTree(tree) <=>
         \A n \in 1..N : /\ PortableId(ids[n]) /\ Portable(type, tree[ids[n]])
                         /\ PortableLength(Len(vals[n]))
  <2>1. ASSUME PortableTree(tree), NEW n \in 1..N
        PROVE  /\ PortableId(ids[n]) /\ Portable(type, tree[ids[n]])
               /\ PortableLength(Len(vals[n]))
    BY <1>4, <1>7, <2>1 DEF PortableTree
  <2>2. ASSUME \A n \in 1..N : /\ PortableId(ids[n]) /\ Portable(type, tree[ids[n]])
                               /\ PortableLength(Len(vals[n])),
               NEW i \in Shown(tree)
        PROVE  /\ PortableId(i) /\ Portable(type, tree[i])
               /\ PortableLength(Len(InstancePayload(type, tree[i])))
    BY Zenon, <1>5, <1>7, <2>2
  <2> QED BY Zenon, <2>1, <2>2 DEF PortableTree
<1>16. ASSUME PortableTree(tree)
       PROVE  /\ es = w
              /\ \A n \in DOMAIN es :
                   Says(Elements(signed, es[n].value), type, Resources(tree[es[n].id]))
  <2>1. AllPortable(vals, N)
    BY Zenon, <1>15, <1>16 DEF AllPortable
  <2>2. \A n \in 1..N : DecodedId(signed, ids[n]) = ids[n]
    BY Zenon, <1>14, <1>15, <1>16
  <2>3. es = [n \in 1..N |-> TlvElement(InstanceKind, DecodedId(signed, ids[n]), vals[n])]
    BY Zenon, <1>8, <2>1 DEF FoundOf
  <2>4. es = w
    BY <1>11, <2>2, <2>3
  <2> QED BY Zenon, <1>12, <1>13, <1>15, <1>16, <2>4
<1>17. ASSUME es = w,
              \A n \in DOMAIN es :
                Says(Elements(signed, es[n].value), type, Resources(tree[es[n].id]))
       PROVE  PortableTree(tree)
  <2>1. AllPortable(vals, N)
    BY Zenon, <1>9, <1>12, <1>17
  <2>2. \A n \in 1..N : es[n].id = DecodedId(signed, ids[n])
    BY <1>8, <2>1 DEF FoundOf, TlvElement
  <2>3. ASSUME NEW n \in 1..N
        PROVE  /\ PortableId(ids[n]) /\ Portable(type, tree[ids[n]])
               /\ PortableLength(Len(vals[n]))
    <3>1. PortableId(ids[n])
      BY Zenon, <1>12, <1>14, <1>17, <2>2
    <3>2. Portable(type, tree[ids[n]])
      BY Zenon, <1>12, <1>13, <1>17
    <3>3. PortableLength(Len(vals[n]))
      BY Zenon, <2>1 DEF AllPortable
    <3> QED BY Zenon, <3>1, <3>2, <3>3
  <2> QED BY Zenon, <1>15, <2>3
<1> QED BY Zenon, <1>10, <1>16, <1>17

-----------------------------------------------------------------------------
Single(v) == v = Unset \/ v \in ValuesOf(type)

(* What writing back an instance makes of a resource: a value of its type, *)
(* the one that was read if that is portable, nothing if there was none.   *)
LEMMA InstanceMerged ==
  ASSUME signed \in BOOLEAN, type \in Types, NEW v, Single(v),
         NEW b, b = InstancePayload(type, v), Fits(Len(b)),
         NEW es, es = Elements(signed, b), NEW old, Single(old)
  PROVE  /\ v = Unset => Sound(es) /\ Merged(es, old) = old
         /\ v # Unset /\ Portable(type, v) => Sound(es) /\ Merged(es, old) = v
         /\ Single(Merged(es, old))
<1>1. CASE v = Unset
  <2>1. b = <<>>
    BY <1>1 DEF InstancePayload
  <2>2. es = <<>>
    BY Zenon, <2>1, EmptyRead
  <2>3. Sound(es)
    BY <2>2 DEF Sound
  <2> QED BY Zenon, <1>1, <2>2, <2>3 DEF Merged
<1>2. CASE v # Unset
  <2>0. v \in ValuesOf(type)
    BY Zenon, <1>2 DEF Single
  <2>1. PICK c : c = Encode(type, v)
    OBVIOUS
  <2>2. /\ c \in Seq(Byte) /\ b \in Seq(Byte)
        /\ type # "STRING" => PortableLength(Len(c))
    BY Zenon, <2>0, <2>1, InstanceBytes
  <2>3. /\ Decode(type, c) \in ValuesOf(type)
        /\ Portable(type, v) => PortableLength(Len(c)) /\ Decode(type, c) = v
    BY Zenon, <2>0, <2>1, <2>2, EncodedBack
  <2>4. CASE PortableLength(Len(c))
    <3>1. es = <<TlvElement(ResourceKind, ResourceId, c)>>
      BY Zenon, <2>0, <2>1, <2>4, InstanceRead
    <3>2. PICK x : x = TlvElement(ResourceKind, ResourceId, c)
      OBVIOUS
    <3>3. x.id = ResourceId /\ x.kind # MultipleKind /\ x.value = c
      BY <3>2 DEF TlvElement, ResourceKind, MultipleKind
    <3>4. es = <<x>> /\ es # <<>> /\ DOMAIN es = {1} /\ es[1] = x
      BY <3>1, <3>2
    <3>5. Sound(es)
      BY Zenon, <3>3, <3>4 DEF Sound
    <3>6. Merged(es, old) = Decode(type, c)
      BY Zenon, <3>3, <3>4 DEF Merged
    <3> QED BY Zenon, <1>2, <2>3, <3>5, <3>6 DEF Single
  <2>5. CASE ~PortableLength(Len(c))
    <3>1. type = "STRING"
      BY Zenon, <2>2, <2>5
    <3>2. 1 \in DOMAIN es
      BY Zenon, <2>0, <2>1, InstanceRead
    <3>3. es[1].value \in Seq(Byte)
      BY SMT, <2>2, <3>2, ElementFound
    <3>4. Decode(type, es[1].value) \in ValuesOf(type)
      BY Zenon, <3>1, <3>3, StringDecoded
    <3>5. es # <<>>
      BY <3>2
    <3>6. Merged(es, old) = Decode(type, es[1].value)
      BY Zenon, <3>5 DEF Merged
    <3> QED BY Zenon, <1>2, <2>3, <2>5, <3>4, <3>6 DEF Single
  <2> QED BY Zenon, <2>4, <2>5
<1> QED BY Zenon, <1>1, <1>2

(* What writing back an object makes of an instance, whatever was read.    *)
LEMMA ObjectMerged ==
  ASSUME signed \in BOOLEAN, type \in Types, NEW tree, Tree(tree),
         NEW m, m = ObjectPayload(type, tree), Len(m) <= BufferSize,
         NEW found, found = Elements(signed, m),
         NEW n \in DOMAIN found, found[n] # Astray, NEW old, Single(old),
         NEW es, es = Elements(signed, found[n].value)
  PROVE  found[n].id \in Id /\ Single(Merged(es, old))
<1>1. PICK ids : ids = SetToSeq(Shown(tree))
  OBVIOUS
<1>2. PICK N : N = Cardinality(Shown(tree))
  OBVIOUS
<1>3. PICK vals : vals = InstancesBytes(tree, ids, N)
  OBVIOUS
<1>4. N \in Nat /\ ids \in [1..N -> Shown(tree)]
  BY SMT, <1>1, <1>2, <1>3, ObjectWritten
<1>5. Sendable(InstanceKind, N, ids, vals) /\ m = FlattenSeq(Sequenced(InstanceKind, ids, vals))
  BY SMT, <1>1, <1>2, <1>3, ObjectWritten
<1>6. \A k \in 1..N : /\ vals[k] = InstancePayload(type, tree[ids[k]])
                      /\ tree[ids[k]] \in ValuesOf(type)
                      /\ Fits(Len(vals[k]))
  BY SMT, <1>1, <1>2, <1>3, ObjectWritten
<1>7. m \in Seq(Byte)
  BY SMT, <1>4, <1>5, Framing
<1>8. found[n].value \in Seq(Byte) /\ found[n].id \in Id
  <2>1. /\ found[n].value \in Seq(Byte)
        /\ found[n].id \in Int /\ -32896 <= found[n].id /\ found[n].id <= 65535
        /\ ~signed => found[n].id >= 0
    BY SMT, <1>7, ElementFound
  <2> QED BY SMT, <2>1 DEF Id
<1>9. CASE type = "STRING"
  <2>1. CASE es = <<>>
    <3>1. Merged(es, old) = old
      BY Zenon, <2>1 DEF Merged
    <3> QED BY Zenon, <1>8, <3>1
  <2>2. CASE es # <<>>
    <3>1. 1 \in DOMAIN es
      <4>1. found[n].value # <<>>
        BY Zenon, <2>2, EmptyRead
      <4> QED BY Zenon, <1>8, <4>1, FirstElement
    <3>2. es[1].value \in Seq(Byte)
      BY SMT, <1>8, <3>1, ElementFound
    <3>3. Decode(type, es[1].value) \in ValuesOf(type)
      BY Zenon, <1>9, <3>2, StringDecoded
    <3>4. Merged(es, old) = Decode(type, es[1].value)
      BY Zenon, <2>2 DEF Merged
    <3> QED BY Zenon, <1>8, <3>3, <3>4 DEF Single
  <2> QED BY Zenon, <1>8, <2>1, <2>2
<1>10. CASE type # "STRING"
  <2>1. AllPortable(vals, N)
    <3>1. ASSUME NEW k \in 1..N PROVE PortableLength(Len(vals[k]))
      BY Zenon, <1>6, <1>10, InstanceBytes
    <3> QED BY Zenon, <3>1 DEF AllPortable
  <2>2. found = FoundOf(InstanceKind, ids, vals, N)
    BY SMT, <1>4, <1>5, <2>1, Framing
  <2>3. n \in 1..N /\ found[n].value = vals[n]
    BY <2>2 DEF FoundOf, TlvElement
  <2>4. PICK v, b : v = tree[ids[n]] /\ b = vals[n]
    OBVIOUS
  <2>5. v \in ValuesOf(type) /\ b = InstancePayload(type, v) /\ Fits(Len(b))
    BY Zenon, <1>6, <2>3, <2>4
  <2>6. Single(v) /\ es = Elements(signed, b)
    BY Zenon, <2>3, <2>4, <2>5 DEF Single
  <2> QED BY Zenon, <1>8, <2>5, <2>6, InstanceMerged
<1> QED BY Zenon, <1>9, <1>10

-----------------------------------------------------------------------------
(* What the response holds is what sent was written as, and it fits in the *)
(* buffer.                                                                 *)
Answered ==
  /\ response.kind \in {"nothing", "resource", "entries", "instance", "object", "wrecked"}
  /\ response.kind = "resource" => Single(sent) /\ response.payload = TextOf(type, sent)
  /\ response.kind = "entries" => sent \in EntrySample /\ response.payload = EntriesPayload(sent)
  /\ response.kind = "instance" => /\ Single(sent)
                                   /\ response.payload = InstancePayload(type, sent)
                                   /\ Len(response.payload) <= BufferSize
  /\ response.kind = "object" => /\ Tree(sent)
                                 /\ response.payload = ObjectPayload(type, sent)
                                 /\ Len(response.payload) <= BufferSize

(* The inductive invariant of Values. *)
ValuesInv ==
  /\ signed \in BOOLEAN
  /\ type \in DOMAIN Sample
  /\ Tree(instances)
  /\ Answered
  /\ steps \in 0..MaxSteps

LEMMA SampleIs ==
  /\ \A t \in DOMAIN Sample : t \in Types /\ \A v \in Sample[t] : v \in ValuesOf(t)
  /\ InstanceId \subseteq Word
  /\ \A e \in EntrySample : e \in [DOMAIN e -> Int32] /\ DOMAIN e \subseteq Word
  /\ MaxSteps \in Nat
<1>1. /\ DOMAIN Sample \subseteq Types
      /\ \A t \in DOMAIN Sample : Sample[t] \subseteq ValuesOf(t)
  BY SMT, ValuesAssumption DEF ValuesAssumption
<1>2. InstanceId \subseteq Word /\ MaxSteps \in Nat
  BY SMT, ValuesAssumption DEF ValuesAssumption
<1>3. \A e \in EntrySample : e \in [DOMAIN e -> Int32] /\ DOMAIN e \subseteq Word
  BY SMT, ValuesAssumption DEF ValuesAssumption
<1> QED BY Zenon, <1>1, <1>2, <1>3

LEMMA ValuesInvInit == ValuesInit => ValuesInv
<1> SUFFICES ASSUME ValuesInit PROVE ValuesInv
  OBVIOUS
<1>1. signed \in BOOLEAN /\ type \in DOMAIN Sample
  BY DEF ValuesInit
<1>2. PICK S \in SUBSET InstanceId : instances \in [S -> {Unset} \cup Sample[type]]
  BY DEF ValuesInit
<1>3. Tree(instances)
  <2>1. DOMAIN instances = S /\ instances = [i \in S |-> instances[i]]
    BY <1>2
  <2>2. S \subseteq Word
    BY Zenon, SampleIs
  <2>3. S \subseteq Id
    BY Zenon, <2>2, WordsAreIds
  <2>4. ASSUME NEW i \in S PROVE instances[i] = Unset \/ instances[i] \in ValuesOf(type)
    <3>1. instances[i] \in {Unset} \cup Sample[type]
      BY <1>2
    <3> QED BY Zenon, <1>1, <3>1, SampleIs
  <2> QED BY Zenon, <2>1, <2>3, <2>4 DEF Tree
<1>4. Answered
  <2>1. response.kind = "nothing"
    BY DEF ValuesInit, Nothing
  <2> QED BY Zenon, <2>1 DEF Answered
<1>5. steps \in 0..MaxSteps
  <2>1. steps = 0 /\ MaxSteps \in Nat
    BY Zenon, SampleIs DEF ValuesInit
  <2> QED BY <2>1
<1> QED BY Zenon, <1>1, <1>3, <1>4, <1>5 DEF ValuesInv

-----------------------------------------------------------------------------
LEMMA TreeUpdated ==
  ASSUME NEW tree, Tree(tree), NEW i \in DOMAIN tree, NEW v, Single(v)
  PROVE  Tree([tree EXCEPT ![i] = v])
<1>1. PICK new : new = [tree EXCEPT ![i] = v]
  OBVIOUS
<1>2. tree = [j \in DOMAIN tree |-> tree[j]] /\ DOMAIN tree \subseteq Id
  BY DEF Tree
<1>3. /\ DOMAIN new = DOMAIN tree /\ new = [j \in DOMAIN new |-> new[j]]
      /\ new[i] = v /\ \A j \in DOMAIN tree : j # i => new[j] = tree[j]
  BY <1>1, <1>2
<1> QED BY Zenon, <1>1, <1>2, <1>3 DEF Tree, Single

(* Only instances change, and they stay a tree. *)
LEMMA SetKeeps ==
  ASSUME ValuesInv, NEW new, Tree(new), Set(new)
  PROVE  Tree(instances)' /\ Answered' /\ (signed \in BOOLEAN)' /\ (type \in DOMAIN Sample)'
<1>1. /\ instances' = new /\ signed' = signed /\ type' = type
      /\ response' = response /\ sent' = sent
  BY DEF Set
<1>2. Id' = Id
  BY SMT, <1>1 DEF Id
<1>3. Tree(instances)'
  BY Zenon, <1>1, <1>2 DEF Tree
<1>4. Answered'
  BY Zenon, <1>1, <1>2 DEF ValuesInv, Answered, Single, Tree
<1> QED BY Zenon, <1>1, <1>3, <1>4 DEF ValuesInv

LEMMA WreckKeeps ==
  ASSUME ValuesInv, Wreck
  PROVE  Tree(instances)' /\ Answered' /\ (signed \in BOOLEAN)' /\ (type \in DOMAIN Sample)'
<1>1. /\ instances' = instances /\ signed' = signed /\ type' = type
      /\ response'.kind = "wrecked"
  BY DEF Wreck
<1>2. Id' = Id
  BY SMT, <1>1 DEF Id
<1>3. Tree(instances)'
  BY Zenon, <1>1, <1>2 DEF ValuesInv, Tree
<1>4. Answered'
  BY Zenon, <1>1 DEF Answered
<1> QED BY Zenon, <1>1, <1>3, <1>4 DEF ValuesInv

LEMMA ReadKeeps ==
  ASSUME ValuesInv, NEW kind, NEW payload, NEW what, Read(kind, payload, what),
         \/ kind = "resource" /\ Single(what) /\ payload = TextOf(type, what)
         \/ kind = "entries" /\ what \in EntrySample /\ payload = EntriesPayload(what)
         \/ /\ kind = "instance" /\ Single(what) /\ payload = InstancePayload(type, what)
            /\ Len(payload) <= BufferSize
         \/ /\ kind = "object" /\ Tree(what) /\ payload = ObjectPayload(type, what)
            /\ Len(payload) <= BufferSize
  PROVE  Tree(instances)' /\ Answered' /\ (signed \in BOOLEAN)' /\ (type \in DOMAIN Sample)'
<1>1. /\ instances' = instances /\ signed' = signed /\ type' = type /\ sent' = what
      /\ response'.kind = kind /\ response'.payload = payload
  BY DEF Read
<1>2. Id' = Id
  BY SMT, <1>1 DEF Id
<1>3. Tree(instances)'
  BY Zenon, <1>1, <1>2 DEF ValuesInv, Tree
<1>4. /\ Single(what) => Single(sent)'
      /\ Tree(what) => Tree(sent)'
      /\ TextOf(type, sent)' = TextOf(type, what)
      /\ InstancePayload(type, sent)' = InstancePayload(type, what)
      /\ ObjectPayload(type, sent)' = ObjectPayload(type, what)
      /\ EntriesPayload(sent)' = EntriesPayload(what)
  BY Zenon, <1>1, <1>2 DEF Single, Tree
<1>5. CASE kind = "resource"
  BY Zenon, <1>1, <1>3, <1>4, <1>5 DEF Answered, ValuesInv
<1>6. CASE kind = "entries"
  BY Zenon, <1>1, <1>3, <1>4, <1>6 DEF Answered, ValuesInv
<1>7. CASE kind = "instance"
  BY Zenon, <1>1, <1>3, <1>4, <1>7 DEF Answered, ValuesInv
<1>8. CASE kind = "object"
  BY Zenon, <1>1, <1>3, <1>4, <1>8 DEF Answered, ValuesInv
<1> QED BY Zenon, <1>5, <1>6, <1>7, <1>8

LEMMA TlvReadKeeps ==
  ASSUME ValuesInv, NEW kind, NEW payload, NEW what, ReadTlv(kind, payload, what),
         \/ kind = "entries" /\ what \in EntrySample /\ payload = EntriesPayload(what)
         \/ kind = "instance" /\ Single(what) /\ payload = InstancePayload(type, what)
         \/ kind = "object" /\ Tree(what) /\ payload = ObjectPayload(type, what)
  PROVE  Tree(instances)' /\ Answered' /\ (signed \in BOOLEAN)' /\ (type \in DOMAIN Sample)'
<1>1. CASE Len(payload) <= BufferSize /\ Read(kind, payload, what)
  BY Zenon, <1>1, ReadKeeps
<1>2. CASE Wreck
  BY Zenon, <1>2, WreckKeeps
<1> QED BY Zenon, <1>1, <1>2 DEF ReadTlv

LEMMA WriteResourceKeeps ==
  ASSUME ValuesInv, NEW i \in DOMAIN instances, WriteResource(i)
  PROVE  Tree(instances)' /\ Answered' /\ (signed \in BOOLEAN)' /\ (type \in DOMAIN Sample)'
<1>1. PICK v : v = response.payload
  OBVIOUS
<1>2. type \in Types
  BY Zenon, SampleIs DEF ValuesInv
<1>3. v \in ValuesOf(type)
  BY Zenon, <1>1, <1>2, TextType DEF ValuesInv, Answered, WriteResource, Single
<1>4. Tree([instances EXCEPT ![i] = v])
  BY Zenon, <1>3, TreeUpdated DEF ValuesInv, Single
<1>5. Set([instances EXCEPT ![i] = v])
  BY Zenon, <1>1 DEF WriteResource
<1> QED BY Zenon, <1>4, <1>5, SetKeeps

LEMMA WriteInstanceKeeps ==
  ASSUME ValuesInv, NEW i \in DOMAIN instances, WriteInstance(i)
  PROVE  Tree(instances)' /\ Answered' /\ (signed \in BOOLEAN)' /\ (type \in DOMAIN Sample)'
<1>1. PICK es : es = Elements(signed, response.payload)
  OBVIOUS
<1>2. CASE Wreck
  BY Zenon, <1>2, WreckKeeps
<1>3. CASE Sound(es) /\ Set([instances EXCEPT ![i] = Merged(es, instances[i])])
  <2>1. signed \in BOOLEAN /\ type \in Types
    BY Zenon, SampleIs DEF ValuesInv
  <2>2. PICK b : b = response.payload
    OBVIOUS
  <2>3. Single(sent) /\ b = InstancePayload(type, sent) /\ Len(b) <= BufferSize
    BY Zenon, <2>2 DEF ValuesInv, Answered, WriteInstance
  <2>4. Fits(Len(b))
    <3>1. Len(b) \in Nat
      <4>1. CASE sent = Unset
        <5>1. b = <<>>
          BY <2>3, <4>1 DEF InstancePayload
        <5> QED BY <5>1
      <4>2. CASE sent # Unset
        BY Zenon, <2>1, <2>3, <4>2, InstanceBytes DEF Single
      <4> QED BY Zenon, <4>1, <4>2
    <3> QED BY Zenon, <2>3, <3>1, BufferFits
  <2>5. Single(instances[i])
    BY Zenon DEF ValuesInv, Tree, Single
  <2>6. Single(Merged(es, instances[i]))
    BY Zenon, <1>1, <2>1, <2>2, <2>3, <2>4, <2>5, InstanceMerged
  <2>7. Tree([instances EXCEPT ![i] = Merged(es, instances[i])])
    BY Zenon, <2>6, TreeUpdated DEF ValuesInv
  <2> QED BY Zenon, <1>3, <2>7, SetKeeps
<1>4. Wreck \/ (Sound(es) /\ Set([instances EXCEPT ![i] = Merged(es, instances[i])]))
  BY Zenon, <1>1 DEF WriteInstance
<1> QED BY Zenon, <1>2, <1>3, <1>4

(* The first of the elements with an id. *)
FirstWith(found, i) ==
  CHOOSE n \in DOMAIN found : found[n].id = i /\ \A m \in 1..(n - 1) : found[m].id # i

LEMMA FirstWithFound ==
  ASSUME NEW found, NEW N \in Nat, DOMAIN found = 1..N, NEW k \in 1..N, NEW i, i = found[k].id
  PROVE  FirstWith(found, i) \in DOMAIN found /\ found[FirstWith(found, i)].id = i
<1> DEFINE T == {n \in Nat : n \in 1..N /\ found[n].id = i}
<1>1. k \in T
  OBVIOUS
<1>2. PICK n \in T : \A m \in T : n <= m
  BY <1>1, LeastNatural
<1>3. n \in DOMAIN found /\ found[n].id = i /\ \A m \in 1..(n - 1) : found[m].id # i
  <2>1. ASSUME NEW m \in 1..(n - 1) PROVE found[m].id # i
    <3>1. m \in Nat /\ m \in 1..N /\ ~(n <= m)
      BY <1>2
    <3> QED BY <1>2, <3>1
  <2> QED BY <1>2, <2>1
<1> QED BY Zenon, <1>3 DEF FirstWith

(* What on_bootstrap_object_write() makes of the instances. *)
Old(i) == IF i \in DOMAIN instances THEN instances[i] ELSE Unset

IdsOf(found) == {found[n].id : n \in DOMAIN found}

Rewritten(found) ==
  [i \in DOMAIN instances \cup IdsOf(found) |->
     IF i \in IdsOf(found)
     THEN Merged(Elements(signed, found[FirstWith(found, i)].value), Old(i))
     ELSE instances[i]]

AllSound(found) ==
  \A n \in DOMAIN found : found[n] # Astray /\ Sound(Elements(signed, found[n].value))

LEMMA WriteObjectIs ==
  ASSUME WriteObject
  PROVE  IF AllSound(Elements(signed, response.payload))
         THEN Set(Rewritten(Elements(signed, response.payload)))
         ELSE Wreck
BY Zenon DEF WriteObject, AllSound, Rewritten, FirstWith, IdsOf, Old

LEMMA WriteObjectKeeps ==
  ASSUME ValuesInv, WriteObject
  PROVE  Tree(instances)' /\ Answered' /\ (signed \in BOOLEAN)' /\ (type \in DOMAIN Sample)'
<1>1. PICK m : m = response.payload
  OBVIOUS
<1>2. PICK found : found = Elements(signed, m)
  OBVIOUS
<1>3. CASE ~AllSound(found)
  BY Zenon, <1>1, <1>2, <1>3, WriteObjectIs, WreckKeeps
<1>4. CASE AllSound(found)
  <2>1. Set(Rewritten(found))
    BY Zenon, <1>1, <1>2, <1>4, WriteObjectIs
  <2>2. signed \in BOOLEAN /\ type \in Types /\ Tree(instances)
    BY Zenon, SampleIs DEF ValuesInv
  <2>3. Tree(sent) /\ m = ObjectPayload(type, sent) /\ Len(m) <= BufferSize
    BY Zenon, <1>1 DEF ValuesInv, Answered, WriteObject
  <2>4. PICK new : new = Rewritten(found)
    OBVIOUS
  <2>5. DOMAIN found = 1..Len(found) /\ Len(found) \in Nat
    <3>1. m \in Seq(Byte)
      <4>1. PICK ids : ids = SetToSeq(Shown(sent))
        OBVIOUS
      <4>2. PICK N : N = Cardinality(Shown(sent))
        OBVIOUS
      <4>3. PICK vals : vals = InstancesBytes(sent, ids, N)
        OBVIOUS
      <4>4. /\ N \in Nat /\ Sendable(InstanceKind, N, ids, vals)
            /\ m = FlattenSeq(Sequenced(InstanceKind, ids, vals))
        BY SMT, <2>2, <2>3, <4>1, <4>2, <4>3, ObjectWritten
      <4> QED BY SMT, <2>2, <4>4, Framing
    <3> QED BY Zenon, <1>2, <2>2, <3>1, ElementsAreSeq
  <2>6. ASSUME NEW i \in DOMAIN instances \cup IdsOf(found)
        PROVE  i \in Id /\ Single(new[i])
    <3>1. CASE i \notin IdsOf(found)
      <4>1. i \in DOMAIN instances /\ new[i] = instances[i]
        BY <2>4, <3>1 DEF Rewritten
      <4> QED BY Zenon, <2>2, <4>1 DEF Tree, Single
    <3>2. CASE i \in IdsOf(found)
      <4>1. PICK k \in DOMAIN found : i = found[k].id
        BY <3>2 DEF IdsOf
      <4>2. PICK n : n = FirstWith(found, i)
        OBVIOUS
      <4>3. n \in DOMAIN found /\ found[n].id = i
        BY <2>5, <4>1, <4>2, FirstWithFound
      <4>4. new[i] = Merged(Elements(signed, found[n].value), Old(i))
        BY <2>4, <3>2, <4>2 DEF Rewritten
      <4>5. Single(Old(i))
        BY Zenon, <2>2 DEF Old, Single, Tree
      <4>6. found[n] # Astray
        BY Zenon, <1>4, <4>3 DEF AllSound
      <4>7. found[n].id \in Id /\ Single(Merged(Elements(signed, found[n].value), Old(i)))
        BY SMT, <1>2, <2>2, <2>3, <4>3, <4>5, <4>6, ObjectMerged
      <4> QED BY Zenon, <4>3, <4>4, <4>7
    <3> QED BY <3>1, <3>2
  <2>7. DOMAIN new = DOMAIN instances \cup IdsOf(found) /\ new = [i \in DOMAIN new |-> new[i]]
    BY <2>4 DEF Rewritten
  <2>8. DOMAIN new \subseteq Id
    BY Zenon, <2>6, <2>7
  <2>9. \A i \in DOMAIN new : new[i] = Unset \/ new[i] \in ValuesOf(type)
    BY Zenon, <2>6, <2>7 DEF Single
  <2>10. Tree(new)
    BY Zenon, <2>7, <2>8, <2>9 DEF Tree
  <2> QED BY Zenon, <2>1, <2>4, <2>10, SetKeeps
<1> QED BY <1>3, <1>4

LEMMA DeleteKeeps ==
  ASSUME ValuesInv, NEW i \in DOMAIN instances, Delete(i)
  PROVE  Tree(instances)' /\ Answered' /\ (signed \in BOOLEAN)' /\ (type \in DOMAIN Sample)'
<1>1. PICK new : new = Restrict(instances, DOMAIN instances \ {i})
  OBVIOUS
<1>2. Tree(new)
  <2>1. /\ DOMAIN new = DOMAIN instances \ {i} /\ new = [j \in DOMAIN new |-> new[j]]
        /\ \A j \in DOMAIN new : new[j] = instances[j]
    BY <1>1 DEF Restrict
  <2> QED BY Zenon, <2>1 DEF ValuesInv, Tree
<1>3. Set(new)
  BY Zenon, <1>1 DEF Delete
<1> QED BY Zenon, <1>2, <1>3, SetKeeps

LEMMA SetValueKeeps ==
  ASSUME ValuesInv, NEW i \in DOMAIN instances, NEW v \in Sample[type] \cup {Unset}, SetValue(i, v)
  PROVE  Tree(instances)' /\ Answered' /\ (signed \in BOOLEAN)' /\ (type \in DOMAIN Sample)'
<1>1. Single(v)
  BY Zenon, SampleIs DEF ValuesInv, Single
<1>2. Tree([instances EXCEPT ![i] = v])
  BY Zenon, <1>1, TreeUpdated DEF ValuesInv
<1>3. Set([instances EXCEPT ![i] = v])
  BY Zenon DEF SetValue, Set
<1> QED BY Zenon, <1>2, <1>3, SetKeeps

LEMMA StepKeeps ==
  ASSUME ValuesInv, Step
  PROVE  Tree(instances)' /\ Answered' /\ (signed \in BOOLEAN)' /\ (type \in DOMAIN Sample)'
<1>1. ASSUME NEW i \in DOMAIN instances
      PROVE  Single(instances[i])
  BY Zenon DEF ValuesInv, Tree, Single
<1>2. ASSUME NEW i \in DOMAIN instances, ReadResource(i)
      PROVE  Tree(instances)' /\ Answered' /\ (signed \in BOOLEAN)' /\ (type \in DOMAIN Sample)'
  BY Zenon, <1>1, <1>2, ReadKeeps DEF ReadResource
<1>3. ASSUME NEW i \in DOMAIN instances, ReadInstance(i)
      PROVE  Tree(instances)' /\ Answered' /\ (signed \in BOOLEAN)' /\ (type \in DOMAIN Sample)'
  BY Zenon, <1>1, <1>3, TlvReadKeeps DEF ReadInstance
<1>4. ASSUME ReadObject
      PROVE  Tree(instances)' /\ Answered' /\ (signed \in BOOLEAN)' /\ (type \in DOMAIN Sample)'
  BY Zenon, <1>4, TlvReadKeeps DEF ReadObject, ValuesInv
<1>5. ASSUME ReadEntries
      PROVE  Tree(instances)' /\ Answered' /\ (signed \in BOOLEAN)' /\ (type \in DOMAIN Sample)'
  BY Zenon, <1>5, TlvReadKeeps DEF ReadEntries
<1> QED BY Zenon, <1>2, <1>3, <1>4, <1>5, WriteResourceKeeps, WriteInstanceKeeps,
           WriteObjectKeeps, DeleteKeeps, SetValueKeeps DEF Step

LEMMA ValuesInvNext == ValuesInv /\ [ValuesNext]_ValuesVars => ValuesInv'
<1> SUFFICES ASSUME ValuesInv, [ValuesNext]_ValuesVars PROVE ValuesInv'
  OBVIOUS
<1>1. CASE ValuesNext
  <2>1. Tree(instances)' /\ Answered' /\ (signed \in BOOLEAN)' /\ (type \in DOMAIN Sample)'
    BY Zenon, <1>1, StepKeeps DEF ValuesNext
  <2>2. steps' \in 0..MaxSteps
    <3>1. steps \in 0..MaxSteps /\ steps < MaxSteps /\ steps' = steps + 1 /\ MaxSteps \in Nat
      BY Zenon, <1>1, SampleIs DEF ValuesInv, ValuesNext
    <3> QED BY <3>1
  <2> QED BY Zenon, <2>1, <2>2 DEF ValuesInv
<1>2. CASE UNCHANGED ValuesVars
  <2>1. /\ instances' = instances /\ signed' = signed /\ type' = type
        /\ response' = response /\ sent' = sent /\ steps' = steps
    BY <1>2 DEF ValuesVars
  <2>2. Id' = Id
    BY SMT, <2>1 DEF Id
  <2>3. Tree(instances)'
    BY Zenon, <2>1, <2>2 DEF ValuesInv, Tree
  <2>4. Answered'
    BY Zenon, <2>1, <2>2 DEF ValuesInv, Answered, Single, Tree
  <2> QED BY Zenon, <2>1, <2>3, <2>4 DEF ValuesInv
<1> QED BY <1>1, <1>2

(* The inductive invariant: what the instances and the response hold is of *)
(* the type of the resource, and the response is what was read, written    *)
(* the way its kind is, in a buffer that has room for it.                  *)
THEOREM ValuesInvariant == ValuesSpec => []ValuesInv
<1>1. ValuesInit => ValuesInv
  BY ValuesInvInit
<1>2. ValuesInv /\ [ValuesNext]_ValuesVars => ValuesInv'
  BY ValuesInvNext
<1> QED BY <1>1, <1>2, PTL DEF ValuesSpec

(* Whatever a server writes back, in text or in TLV, portable or not, an   *)
(* instance holds no value of another type and has no id that no field     *)
(* could hold.                                                             *)
THEOREM ValuesTypeCorrect == ValuesSpec => []ValuesTypeOK
<1>1. ValuesInv => ValuesTypeOK
  <2> SUFFICES ASSUME ValuesInv PROVE ValuesTypeOK
    OBVIOUS
  <2>1. signed \in BOOLEAN /\ type \in Types /\ steps \in 0..MaxSteps
    BY Zenon, SampleIs DEF ValuesInv
  <2>2. DOMAIN instances \subseteq Id
    BY Zenon DEF ValuesInv, Tree
  <2>3. DOMAIN instances \subseteq AnyId
    BY Zenon, <2>2, IdsAreAny
  <2>4. \A i \in DOMAIN instances : instances[i] = Unset \/ instances[i] \in ValuesOf(type)
    BY Zenon DEF ValuesInv, Tree
  <2>5. response.kind \in {"nothing", "resource", "entries", "instance", "object", "wrecked"}
    BY Zenon DEF ValuesInv, Answered
  <2> QED BY Zenon, <2>1, <2>3, <2>4, <2>5 DEF ValuesTypeOK
<1> QED BY <1>1, ValuesInvariant, PTL

-----------------------------------------------------------------------------
LEMMA InstancePortable ==
  ASSUME signed \in BOOLEAN, type \in Types, NEW v, Single(v),
         NEW b, b = InstancePayload(type, v), Len(b) <= BufferSize
  PROVE  /\ Fits(Len(b))
         /\ Says(Elements(signed, b), type, Resources(v)) <=> (v = Unset \/ Portable(type, v))
<1>1. CASE v = Unset
  <2>1. b = <<>>
    BY <1>1 DEF InstancePayload
  <2>2. Len(b) \in Nat
    BY <2>1
  <2>3. Fits(Len(b))
    BY Zenon, <2>2, BufferFits
  <2>4. Elements(signed, b) = <<>>
    BY Zenon, <2>1, EmptyRead
  <2>5. Resources(v) = <<>>
    BY <1>1 DEF Resources
  <2>6. Len(<<>>) = 0 /\ DOMAIN <<>> = {}
    OBVIOUS
  <2>7. Says(<<>>, type, <<>>)
    BY Zenon, <2>6, FS_EmptySet DEF Says
  <2> QED BY Zenon, <1>1, <2>3, <2>4, <2>5, <2>7
<1>2. CASE v # Unset
  <2>1. v \in ValuesOf(type)
    BY Zenon, <1>2 DEF Single
  <2>2. Len(b) \in Nat
    BY Zenon, <2>1, InstanceBytes
  <2>3. Fits(Len(b))
    BY Zenon, <2>2, BufferFits
  <2> QED BY Zenon, <1>2, <2>1, <2>3, InstanceSays
<1> QED BY Zenon, <1>1, <1>2

(* What the client reads from a payload it has written is what it put into *)
(* it just when the ids, lengths and values are portable: in no other case *)
(* do the two ends of an INTEGER, DOUBLE or LINK, the casts that eat the   *)
(* length, and the sign of char cancel out.                                *)
THEOREM PortableDecodes == ValuesSpec => []DecodesIffPortable
<1>1. ValuesInv => DecodesIffPortable
  <2> SUFFICES ASSUME ValuesInv PROVE DecodesIffPortable
    OBVIOUS
  <2>1. signed \in BOOLEAN /\ type \in Types
    BY Zenon, SampleIs DEF ValuesInv
  <2>2. PICK b : b = response.payload
    OBVIOUS
  <2>3. PICK es : es = Elements(signed, b)
    OBVIOUS
  <2>4. ASSUME response.kind = "instance"
        PROVE  Says(es, type, Resources(sent)) <=> (sent = Unset \/ Portable(type, sent))
    <3>1. Single(sent) /\ b = InstancePayload(type, sent) /\ Len(b) <= BufferSize
      BY Zenon, <2>2, <2>4 DEF ValuesInv, Answered
    <3> QED BY Zenon, <2>1, <2>3, <3>1, InstancePortable
  <2>5. ASSUME response.kind = "entries"
        PROVE  Says(es, "INTEGER", sent)
                 <=> \A i \in DOMAIN sent : PortableId(i) /\ PortableInt(sent[i])
    <3>1. sent \in EntrySample /\ b = EntriesPayload(sent)
      BY Zenon, <2>2, <2>5 DEF ValuesInv, Answered
    <3>2. PICK S : S = DOMAIN sent /\ sent \in [S -> Int32] /\ S \subseteq Word
      BY Zenon, <3>1, SampleIs
    <3>3. Says(Elements(signed, b), "INTEGER", sent)
            <=> \A i \in S : PortableId(i) /\ PortableInt(sent[i])
      BY SMT, <2>1, <3>1, <3>2, EntriesSays
    <3> QED BY Zenon, <2>3, <3>2, <3>3
  <2>6. ASSUME response.kind = "object"
        PROVE  PortableTree(sent) <=>
                 /\ es = Written(type, sent)
                 /\ \A n \in DOMAIN es :
                      Says(Elements(signed, es[n].value), type, Resources(sent[es[n].id]))
    <3>1. Tree(sent) /\ b = ObjectPayload(type, sent) /\ Len(b) <= BufferSize
      BY Zenon, <2>2, <2>6 DEF ValuesInv, Answered
    <3> QED BY SMT, <2>1, <2>3, <3>1, ObjectSays
  <2> QED BY Zenon, <2>2, <2>3, <2>4, <2>5, <2>6 DEF DecodesIffPortable
<1> QED BY <1>1, ValuesInvariant, PTL

-----------------------------------------------------------------------------
LEMMA RestoresResource ==
  ASSUME ValuesInv, NEW i \in DOMAIN instances, WriteResource(i)
  PROVE  instances'[i] = sent <=> PortableText
<1>1. instances' = [instances EXCEPT ![i] = response.payload]
  BY DEF WriteResource, Set
<1>2. instances'[i] = response.payload
  BY <1>1
<1>3. type \in Types /\ Single(sent) /\ response.payload = TextOf(type, sent)
  BY Zenon, SampleIs DEF ValuesInv, Answered, WriteResource
<1> QED BY Zenon, <1>2, <1>3, TextBack DEF Single

LEMMA RestoresInstance ==
  ASSUME ValuesInv, NEW i \in DOMAIN instances, WriteInstance(i),
         sent = Unset \/ Portable(type, sent)
  PROVE  instances' = [instances EXCEPT ![i] = IF sent = Unset THEN @ ELSE sent]
<1>1. PICK b : b = response.payload
  OBVIOUS
<1>2. PICK es : es = Elements(signed, b)
  OBVIOUS
<1>3. signed \in BOOLEAN /\ type \in Types /\ Single(instances[i])
  BY Zenon, SampleIs DEF ValuesInv, Tree, Single
<1>4. Single(sent) /\ b = InstancePayload(type, sent) /\ Len(b) <= BufferSize
  BY Zenon, <1>1 DEF ValuesInv, Answered, WriteInstance
<1>5. Fits(Len(b))
  BY Zenon, <1>3, <1>4, InstancePortable
<1>6. /\ Sound(es)
      /\ Merged(es, instances[i]) = IF sent = Unset THEN instances[i] ELSE sent
  <2>1. CASE sent = Unset
    <3>1. PICK v, old : v = sent /\ old = instances[i]
      OBVIOUS
    <3>2. Single(v) /\ Single(old) /\ v = Unset /\ b = InstancePayload(type, v)
      BY Zenon, <1>3, <1>4, <2>1, <3>1
    <3>3. Sound(es) /\ Merged(es, old) = old
      BY SMT, <1>2, <1>3, <1>5, <3>2, InstanceMerged
    <3> QED BY Zenon, <2>1, <3>1, <3>3
  <2>2. CASE sent # Unset
    <3>1. Sound(es) /\ Merged(es, instances[i]) = sent
      BY Zenon, <1>2, <1>3, <1>4, <1>5, <2>2, InstanceMerged
    <3> QED BY Zenon, <2>2, <3>1
  <2> QED BY Zenon, <2>1, <2>2
<1>7. Set([instances EXCEPT ![i] = Merged(es, instances[i])])
  BY Zenon, <1>1, <1>2, <1>6 DEF WriteInstance
<1>8. instances' = [instances EXCEPT ![i] = Merged(es, instances[i])]
  BY Zenon, <1>7 DEF Set
<1> QED BY Zenon, <1>6, <1>8

LEMMA RestoresObject ==
  ASSUME ValuesInv, WriteObject, PortableTree(sent)
  PROVE  /\ DOMAIN instances' = DOMAIN instances \cup Shown(sent)
         /\ \A i \in DOMAIN instances' :
              instances'[i] = IF i \in Shown(sent) THEN sent[i] ELSE instances[i]
<1>1. PICK m : m = response.payload
  OBVIOUS
<1>2. PICK found : found = Elements(signed, m)
  OBVIOUS
<1>3. signed \in BOOLEAN /\ type \in Types /\ Tree(instances)
  BY Zenon, SampleIs DEF ValuesInv
<1>4. Tree(sent) /\ m = ObjectPayload(type, sent) /\ Len(m) <= BufferSize
  BY Zenon, <1>1 DEF ValuesInv, Answered, WriteObject
<1>5. found = Written(type, sent)
  BY SMT, <1>2, <1>3, <1>4, ObjectSays
<1>6. PICK ids : ids = SetToSeq(Shown(sent))
  OBVIOUS
<1>7. PICK N : N = Cardinality(Shown(sent))
  OBVIOUS
<1>8. PICK vals : vals = InstancesBytes(sent, ids, N)
  OBVIOUS
<1>9. N \in Nat /\ ids \in [1..N -> Shown(sent)]
  BY SMT, <1>3, <1>4, <1>6, <1>7, <1>8, ObjectWritten
<1>10. \A i \in Shown(sent) : \E n \in 1..N : ids[n] = i
  BY SMT, <1>3, <1>4, <1>6, <1>7, <1>8, ObjectWritten
<1>11. \A n \in 1..N : /\ vals[n] = InstancePayload(type, sent[ids[n]])
                       /\ sent[ids[n]] \in ValuesOf(type)
                       /\ Fits(Len(vals[n]))
  BY SMT, <1>3, <1>4, <1>6, <1>7, <1>8, ObjectWritten
<1>12. /\ DOMAIN found = 1..N
       /\ \A n \in 1..N : /\ found[n].kind = InstanceKind /\ found[n].id = ids[n]
                          /\ found[n].value = vals[n]
  <2>1. found = [n \in 1..N |-> [kind  |-> InstanceKind, id |-> ids[n],
                                 value |-> InstancePayload(type, sent[ids[n]])]]
    BY Zenon, <1>5, <1>6, <1>7 DEF Written
  <2> QED BY <1>11, <2>1
<1>13. ASSUME NEW n \in 1..N, NEW old, Single(old)
       PROVE  /\ Sound(Elements(signed, found[n].value))
              /\ Merged(Elements(signed, found[n].value), old) = sent[ids[n]]
  <2>1. PICK v, b : v = sent[ids[n]] /\ b = vals[n]
    OBVIOUS
  <2>2. v \in ValuesOf(type) /\ b = InstancePayload(type, v) /\ Fits(Len(b))
    BY Zenon, <1>11, <2>1
  <2>3. v # Unset /\ Single(v)
    BY Zenon, <1>3, <2>2, ConstantsAre DEF Single
  <2>4. Portable(type, v)
    <3>1. ids[n] \in Shown(sent)
      BY <1>9
    <3> QED BY Zenon, <2>1, <3>1 DEF PortableTree
  <2>5. Sound(Elements(signed, b)) /\ Merged(Elements(signed, b), old) = v
    BY Zenon, <1>3, <1>13, <2>2, <2>3, <2>4, InstanceMerged
  <2> QED BY Zenon, <1>12, <2>1, <2>5
<1>14. AllSound(found)
  <2>1. ASSUME NEW n \in 1..N
        PROVE  found[n] # Astray /\ Sound(Elements(signed, found[n].value))
    <3>1. found[n].kind = InstanceKind
      BY <1>12
    <3>2. found[n] # Astray
      BY <3>1 DEF Astray, InstanceKind
    <3>3. Single(Unset)
      BY DEF Single
    <3> QED BY Zenon, <1>13, <3>2, <3>3
  <2> QED BY Zenon, <1>12, <2>1 DEF AllSound
<1>15. instances' = Rewritten(found)
  BY Zenon, <1>1, <1>2, <1>14, WriteObjectIs DEF Set
<1>16. IdsOf(found) = Shown(sent)
  BY <1>9, <1>10, <1>12 DEF IdsOf
<1>17. DOMAIN instances' = DOMAIN instances \cup Shown(sent)
  BY <1>15, <1>16 DEF Rewritten
<1>18. ASSUME NEW i \in Shown(sent)
       PROVE  instances'[i] = sent[i]
  <2>1. PICK k \in 1..N : ids[k] = i
    BY <1>10
  <2>2. i = found[k].id
    BY <1>12, <2>1
  <2>3. PICK n : n = FirstWith(found, i)
    OBVIOUS
  <2>4. n \in 1..N /\ found[n].id = i
    BY <1>9, <1>12, <2>2, <2>3, FirstWithFound
  <2>5. Single(Old(i))
    BY Zenon, <1>3 DEF Old, Single, Tree
  <2>6. instances'[i] = Merged(Elements(signed, found[n].value), Old(i))
    BY <1>15, <1>16, <2>3 DEF Rewritten
  <2>7. Merged(Elements(signed, found[n].value), Old(i)) = sent[ids[n]]
    BY Zenon, <1>13, <2>4, <2>5
  <2>8. ids[n] = i
    BY <1>12, <2>4
  <2> QED BY Zenon, <2>6, <2>7, <2>8
<1>19. ASSUME NEW i \in DOMAIN instances, i \notin Shown(sent)
       PROVE  instances'[i] = instances[i]
  BY <1>15, <1>16, <1>19 DEF Rewritten
<1> QED BY Zenon, <1>17, <1>18, <1>19

(* A server that writes back what it read brings back just that, in text   *)
(* or in TLV, as far as it is portable, whatever happened to the instances *)
(* in between.                                                             *)
THEOREM WriteBack == ValuesSpec => WriteBackRestores
<1>1. ValuesInv => /\ \A i \in DOMAIN instances :
                        /\ WriteResource(i) => (instances'[i] = sent <=> PortableText)
                        /\ WriteInstance(i) /\ (sent = Unset \/ Portable(type, sent)) =>
                             instances' = [instances EXCEPT ![i] = IF sent = Unset THEN @ ELSE sent]
                   /\ WriteObject /\ PortableTree(sent) =>
                        /\ DOMAIN instances' = DOMAIN instances \cup Shown(sent)
                        /\ \A i \in DOMAIN instances' :
                             instances'[i] = IF i \in Shown(sent) THEN sent[i] ELSE instances[i]
  BY Zenon, RestoresResource, RestoresInstance, RestoresObject
<1> QED BY <1>1, ValuesInvariant, PTL DEF WriteBackRestores
=============================================================================
