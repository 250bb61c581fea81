---------------------------- MODULE Lists_proofs ----------------------------
(***************************************************************************)
(* What the operators of Lists return, for lists of any length.            *)
(***************************************************************************)
EXTENDS Lists, SequenceTheorems, WellFoundedInduction, TLAPS

Elem(Key, Value) == [key : Key, value : Value]

(* No two elements of the list have the same key. *)
DistinctKeys(l) ==
  \A i, j \in DOMAIN l.elems : l.elems[i].key = l.elems[j].key => i = j

(* A set of naturals that is not empty has a least element: the first       *)
(* match of a search is well defined.                                      *)
LEMMA LeastNatural ==
  ASSUME NEW T, T \subseteq Nat, T # {}
  PROVE  \E x \in T : \A y \in T : x <= y
<1> DEFINE R == OpToRel(<, Nat)
<1>1. IsWellFoundedOn(R, Nat)
  BY NatLessThanWellFounded
<1>2. \A x, y \in Nat : <<y, x>> \in R <=> y < x
  BY DEF OpToRel
<1> HIDE DEF R
<1>3. \E x \in T : \A y \in T : ~ (<<y, x>> \in R)
  BY <1>1, WFMin
<1>4. PICK x \in T : \A y \in T : ~ (<<y, x>> \in R)
  BY <1>3
<1>5. \A y \in T : x <= y
  <2> TAKE y \in T
  <2>1. x \in Nat /\ y \in Nat
    OBVIOUS
  <2>2. ~ (y < x)
    BY <1>2, <1>4, <2>1
  <2> QED BY <2>1, <2>2
<1> QED BY <1>5

LEMMA MinNatural ==
  ASSUME NEW T, T \subseteq Nat, T # {}
  PROVE  /\ Min(T) \in T
         /\ \A y \in T : Min(T) <= y
BY LeastNatural DEF Min

(* SelectInSeq finds the first element with the key. *)
First(s, key) == SelectInSeq(s, LAMBDA e : e.key = key)

LEMMA FirstWithKey ==
  ASSUME NEW S, NEW s \in Seq(S), NEW key
  PROVE  /\ First(s, key) = 0 => \A j \in DOMAIN s : s[j].key # key
         /\ First(s, key) # 0 =>
              /\ First(s, key) \in DOMAIN s
              /\ s[First(s, key)].key = key
              /\ \A j \in DOMAIN s : s[j].key = key => First(s, key) <= j
<1> DEFINE I == {j \in 1..Len(s) : s[j].key = key}
<1>1. First(s, key) = IF I # {} THEN Min(I) ELSE 0
  BY DEF First, SelectInSeq
<1>2. DOMAIN s = 1..Len(s) /\ Len(s) \in Nat
  BY LenProperties
<1>3. CASE I = {}
  BY <1>1, <1>2, <1>3
<1>4. CASE I # {}
  <2>1. I \subseteq Nat
    BY <1>2
  <2>2. First(s, key) \in I /\ \A j \in I : First(s, key) <= j
    <3> HIDE DEF I
    <3> QED BY <1>1, <1>4, <2>1, MinNatural
  <2> QED BY <2>2, <1>2
<1> QED BY <1>3, <1>4

LEMMA RemoveAtProperties ==
  ASSUME NEW S, NEW s \in Seq(S), NEW k \in DOMAIN s
  PROVE  /\ RemoveAt(s, k) \in Seq(S)
         /\ Len(RemoveAt(s, k)) = Len(s) - 1
         /\ \A i \in 1 .. Len(s) - 1 :
              RemoveAt(s, k)[i] = IF i < k THEN s[i] ELSE s[i + 1]
<1> DEFINE a == SubSeq(s, 1, k - 1)
           b == SubSeq(s, k + 1, Len(s))
<1>1. /\ DOMAIN s = 1..Len(s) /\ Len(s) \in Nat /\ k \in 1..Len(s)
      /\ \A i \in 1..Len(s) : s[i] \in S
  BY LenProperties, ElementOfSeq
<1>2. /\ a \in Seq(S)
      /\ Len(a) = k - 1
      /\ \A i \in 1 .. k - 1 : a[i] = s[i]
  <2>1. \A i \in 1 .. k - 1 : s[i] \in S
    BY <1>1
  <2>2. /\ a \in Seq(S)
        /\ Len(a) = IF 1 <= k - 1 THEN (k - 1) - 1 + 1 ELSE 0
        /\ \A i \in 1 .. (k - 1) - 1 + 1 : a[i] = s[1 + i - 1]
    BY <2>1, <1>1, SubSeqProperties
  <2> QED BY <2>2, <1>1
<1>3. /\ b \in Seq(S)
      /\ Len(b) = Len(s) - k
      /\ \A i \in 1 .. Len(s) - k : b[i] = s[k + i]
  <2>1. \A i \in k + 1 .. Len(s) : s[i] \in S
    BY <1>1
  <2>2. /\ b \in Seq(S)
        /\ Len(b) = IF k + 1 <= Len(s) THEN Len(s) - (k + 1) + 1 ELSE 0
        /\ \A i \in 1 .. Len(s) - (k + 1) + 1 : b[i] = s[(k + 1) + i - 1]
    BY <2>1, <1>1, SubSeqProperties
  <2> QED BY <2>2, <1>1
<1>4. /\ a \o b \in Seq(S)
      /\ Len(a \o b) = Len(a) + Len(b)
      /\ \A i \in 1 .. Len(a) + Len(b) :
           (a \o b)[i] = IF i <= Len(a) THEN a[i] ELSE b[i - Len(a)]
  BY <1>2, <1>3, ConcatProperties
<1>5. RemoveAt(s, k) = a \o b
  BY DEF RemoveAt
<1> HIDE DEF a, b
<1>6. Len(a \o b) = Len(s) - 1
  BY <1>1, <1>2, <1>3, <1>4
<1>7. ASSUME NEW i \in 1 .. Len(s) - 1
      PROVE  (a \o b)[i] = IF i < k THEN s[i] ELSE s[i + 1]
  <2>1. (a \o b)[i] = IF i <= k - 1 THEN a[i] ELSE b[i - (k - 1)]
    <3>1. Len(a) = k - 1 /\ i \in 1 .. Len(a) + Len(b)
      BY <1>1, <1>2, <1>3
    <3> QED BY <3>1, <1>4
  <2>2. CASE i < k
    BY <2>1, <2>2, <1>1, <1>2
  <2>3. CASE i >= k
    <3>1. i - (k - 1) \in 1 .. Len(s) - k
      BY <2>3, <1>1
    <3>2. b[i - (k - 1)] = s[k + (i - (k - 1))]
      BY <3>1, <1>3
    <3>3. k + (i - (k - 1)) = i + 1
      BY <1>1
    <3> QED BY <3>2, <3>3, <2>1, <2>3, <1>1
  <2>4. i < k \/ i >= k
    BY <1>1
  <2> QED BY <2>2, <2>3, <2>4
<1> QED BY <1>4, <1>5, <1>6, <1>7

-----------------------------------------------------------------------------
(* A list of naturals and -1 has a greatest element, by descent on the      *)
(* number of elements still to be looked at.                               *)
LEMMA GreatestKeyType ==
  ASSUME NEW Value, NEW elems \in Seq(Elem(Nat, Value))
  PROVE  /\ GreatestKey(elems) \in Nat \cup {-1}
         /\ GreatestKey(elems) \in {-1} \cup {elems[i].key : i \in DOMAIN elems}
         /\ \A i \in DOMAIN elems : elems[i].key <= GreatestKey(elems)
<1> DEFINE K == {-1} \cup {elems[i].key : i \in DOMAIN elems}
           Bounds(k, n) == \A i \in DOMAIN elems : i > n => elems[i].key <= k
           T == {n \in 0..Len(elems) : \E k \in K : Bounds(k, n)}
<1>1. /\ DOMAIN elems = 1..Len(elems)
      /\ Len(elems) \in Nat
      /\ \A i \in 1..Len(elems) : elems[i].key \in Nat
  <2>1. DOMAIN elems = 1..Len(elems) /\ Len(elems) \in Nat
    BY LenProperties
  <2>2. \A i \in 1..Len(elems) : elems[i] \in Elem(Nat, Value)
    BY ElementOfSeq
  <2> QED BY <2>1, <2>2 DEF Elem
<1>2. K \subseteq Nat \cup {-1}
  BY <1>1
<1>3. Len(elems) \in T
  BY <1>1
<1>4. T \subseteq Nat /\ T # {}
  BY <1>1, <1>3
<1>5. PICK n \in T : \A m \in T : n <= m
  <2> HIDE DEF T
  <2> QED BY <1>4, LeastNatural
<1>6. PICK k \in K : Bounds(k, n)
  BY <1>5
<1>7. n = 0
  <2> SUFFICES ASSUME n # 0 PROVE FALSE
    OBVIOUS
  <2>1. n \in 1..Len(elems) /\ n - 1 \in 0..Len(elems) /\ ~ (n <= n - 1)
    BY <1>1
  <2>2. n - 1 \notin T
    BY <1>5, <2>1
  <2>3. CASE elems[n].key <= k
    <3>1. Bounds(k, n - 1)
      BY <1>1, <1>6, <2>1, <2>3
    <3> QED BY <3>1, <2>1, <2>2
  <2>4. CASE elems[n].key > k
    <3>1. elems[n].key \in K
      BY <1>1, <2>1
    <3>2. Bounds(elems[n].key, n - 1)
      BY <1>1, <1>2, <1>6, <2>1, <2>4
    <3> QED BY <3>1, <3>2, <2>1, <2>2
  <2> QED BY <1>1, <1>2, <2>1, <2>3, <2>4
<1>8. \A i \in DOMAIN elems : elems[i].key <= k
  BY <1>1, <1>6, <1>7
<1>9. GreatestKey(elems) \in K /\ \A i \in DOMAIN elems : elems[i].key <= GreatestKey(elems)
  BY <1>8 DEF GreatestKey
<1> QED BY <1>2, <1>9

LEMMA LaddType ==
  ASSUME NEW Value, NEW l \in ListOf(Nat, Value), NEW key \in Nat, NEW v \in Value
  PROVE  ladd(l, key, v) \in ListOf(Nat, Value)
<1>1. <<[key |-> key, value |-> v]>> \in Seq(Elem(Nat, Value))
  BY DEF Elem
<1>2. l.elems \in Seq(Elem(Nat, Value))
  BY DEF ListOf, Elem
<1>3. Cons([key |-> key, value |-> v], l.elems) \in Seq(Elem(Nat, Value))
  BY <1>1, <1>2, ConcatProperties DEF Cons
<1> QED BY <1>3 DEF ladd, ListOf, Elem

(* ladd: the new element comes first and the other ones follow in order. *)
LEMMA LaddElems ==
  ASSUME NEW Value, NEW l \in ListOf(Nat, Value), NEW key \in Nat, NEW v \in Value
  PROVE  LET a == ladd(l, key, v).elems IN
         /\ DOMAIN a = 1 .. Len(l.elems) + 1
         /\ a[1] = [key |-> key, value |-> v]
         /\ \A i \in 1 .. Len(l.elems) : a[i + 1] = l.elems[i]
<1> DEFINE e == [key |-> key, value |-> v]
           a == ladd(l, key, v).elems
<1>1. <<e>> \in Seq(Elem(Nat, Value)) /\ Len(<<e>>) = 1 /\ <<e>>[1] = e
  BY DEF Elem
<1>2. l.elems \in Seq(Elem(Nat, Value)) /\ Len(l.elems) \in Nat
  BY LenProperties DEF ListOf, Elem
<1>3. a = <<e>> \o l.elems
  BY DEF ladd, Cons, ListOf
<1>4. /\ a \in Seq(Elem(Nat, Value))
      /\ Len(a) = 1 + Len(l.elems)
      /\ \A i \in 1 .. 1 + Len(l.elems) :
           a[i] = IF i <= 1 THEN <<e>>[i] ELSE l.elems[i - 1]
  <2> HIDE DEF e, a
  <2> QED BY <1>1, <1>2, <1>3, ConcatProperties
<1>5. DOMAIN a = 1 .. Len(l.elems) + 1
  BY <1>2, <1>4, LenProperties
<1> HIDE DEF a, e
<1>6. a[1] = e
  BY <1>1, <1>2, <1>4
<1>7. \A i \in 1 .. Len(l.elems) : a[i + 1] = l.elems[i]
  BY <1>2, <1>4
<1> QED BY <1>5, <1>6, <1>7 DEF a, e

LEMMA LaddValues ==
  ASSUME NEW Value, NEW l \in ListOf(Nat, Value), NEW key \in Nat, NEW v \in Value
  PROVE  /\ Keys(ladd(l, key, v)) = Keys(l) \cup {key}
         /\ Values(ladd(l, key, v)) = Values(l) \cup {v}
<1> DEFINE a == ladd(l, key, v).elems
           s == l.elems
<1>1. /\ DOMAIN a = 1 .. Len(s) + 1
      /\ a[1] = [key |-> key, value |-> v]
      /\ \A i \in 1 .. Len(s) : a[i + 1] = s[i]
  BY LaddElems
<1>2. DOMAIN s = 1 .. Len(s) /\ Len(s) \in Nat
  BY LenProperties DEF ListOf
<1> HIDE DEF a, s
<1>3. \A i \in DOMAIN a : i = 1 \/ (i - 1 \in DOMAIN s /\ a[i] = s[i - 1])
  <2> TAKE i \in DOMAIN a
  <2>1. i = 1 \/ i - 1 \in 1 .. Len(s)
    BY <1>1, <1>2
  <2>2. i - 1 \in 1 .. Len(s) => a[(i - 1) + 1] = s[i - 1]
    BY <1>1
  <2>3. (i - 1) + 1 = i
    BY <1>1, <1>2
  <2> QED BY <2>1, <2>2, <2>3, <1>2
<1>4. 1 \in DOMAIN a /\ \A i \in DOMAIN s : i + 1 \in DOMAIN a /\ a[i + 1] = s[i]
  BY <1>1, <1>2
<1>5. a[1].key = key /\ a[1].value = v
  BY <1>1
<1>6. \A i \in DOMAIN a :
        \/ a[i].key = key /\ a[i].value = v
        \/ \E j \in DOMAIN s : a[i] = s[j]
  BY <1>3, <1>5
<1>7. \A j \in DOMAIN s : \E i \in DOMAIN a : a[i] = s[j]
  BY <1>4
<1>8. {a[i].key : i \in DOMAIN a} = {s[i].key : i \in DOMAIN s} \cup {key}
  <2>1. {a[i].key : i \in DOMAIN a} \subseteq {s[i].key : i \in DOMAIN s} \cup {key}
    BY <1>6
  <2>2. {s[i].key : i \in DOMAIN s} \cup {key} \subseteq {a[i].key : i \in DOMAIN a}
    BY <1>4, <1>5, <1>7
  <2> QED BY <2>1, <2>2
<1>9. {a[i].value : i \in DOMAIN a} = {s[i].value : i \in DOMAIN s} \cup {v}
  <2>1. {a[i].value : i \in DOMAIN a} \subseteq {s[i].value : i \in DOMAIN s} \cup {v}
    BY <1>6
  <2>2. {s[i].value : i \in DOMAIN s} \cup {v} \subseteq {a[i].value : i \in DOMAIN a}
    BY <1>4, <1>5, <1>7
  <2> QED BY <2>1, <2>2
<1> QED BY <1>8, <1>9 DEF a, s, Keys, Values

LEMMA LaddDistinct ==
  ASSUME NEW Value, NEW l \in ListOf(Nat, Value), NEW key \in Nat, NEW v \in Value,
         DistinctKeys(l), key \notin Keys(l)
  PROVE  DistinctKeys(ladd(l, key, v))
<1> DEFINE a == ladd(l, key, v).elems
           s == l.elems
<1>1. /\ DOMAIN a = 1 .. Len(s) + 1
      /\ a[1] = [key |-> key, value |-> v]
      /\ \A i \in 1 .. Len(s) : a[i + 1] = s[i]
  BY LaddElems
<1>2. DOMAIN s = 1 .. Len(s) /\ Len(s) \in Nat
  BY LenProperties DEF ListOf
<1>3. \A i, j \in DOMAIN s : s[i].key = s[j].key => i = j
  BY DEF DistinctKeys
<1>4. \A i \in DOMAIN s : s[i].key # key
  BY DEF Keys
<1> HIDE DEF a, s
<1>5. \A i \in DOMAIN a :
        \/ i = 1 /\ a[i].key = key
        \/ i # 1 /\ i - 1 \in DOMAIN s /\ a[i].key = s[i - 1].key
  <2> TAKE i \in DOMAIN a
  <2>1. i = 1 \/ i - 1 \in 1 .. Len(s)
    BY <1>1, <1>2
  <2>2. i - 1 \in 1 .. Len(s) => a[(i - 1) + 1] = s[i - 1]
    BY <1>1
  <2>3. (i - 1) + 1 = i
    BY <1>1, <1>2
  <2> QED BY <2>1, <2>2, <2>3, <1>1, <1>2
<1>6. ASSUME NEW i \in DOMAIN a, NEW j \in DOMAIN a, a[i].key = a[j].key
      PROVE  i = j
  <2>1. i \in Int /\ j \in Int
    BY <1>1, <1>2
  <2>2. CASE i = 1
    BY <2>2, <1>4, <1>5, <1>6
  <2>3. CASE j = 1
    BY <2>3, <1>4, <1>5, <1>6
  <2>4. CASE i # 1 /\ j # 1
    <3>1. i - 1 = j - 1
      BY <2>4, <1>3, <1>5, <1>6
    <3> QED BY <3>1, <2>1
  <2> QED BY <2>2, <2>3, <2>4
<1> QED BY <1>6 DEF a, DistinctKeys

-----------------------------------------------------------------------------
(* lremove: what is left in elems. *)
Rest(elems, key) == RemoveFirstMatch(elems, LAMBDA e : e.key = key)

LEMMA RestProperties ==
  ASSUME NEW S, NEW s \in Seq(S), NEW key
  PROVE  \/ /\ \A j \in DOMAIN s : s[j].key # key
            /\ Rest(s, key) = s
         \/ \E k \in DOMAIN s : /\ s[k].key = key
                               /\ Rest(s, key) = RemoveAt(s, k)
<1>1. DOMAIN s = 1 .. Len(s)
  BY LenProperties
<1>2. Rest(s, key) = IF \E i \in 1 .. Len(s) : s[i].key = key
                     THEN RemoveAt(s, First(s, key)) ELSE s
  BY DEF Rest, RemoveFirstMatch, First
<1> QED BY <1>1, <1>2, FirstWithKey

LEMMA RestOfFirst ==
  ASSUME NEW S, NEW s \in Seq(S), NEW key
  PROVE  Rest(s, key) = IF First(s, key) = 0 THEN s ELSE RemoveAt(s, First(s, key))
<1>1. DOMAIN s = 1 .. Len(s)
  BY LenProperties
<1>2. Rest(s, key) = IF \E i \in 1 .. Len(s) : s[i].key = key
                     THEN RemoveAt(s, First(s, key)) ELSE s
  BY DEF Rest, RemoveFirstMatch, First
<1> QED BY <1>1, <1>2, FirstWithKey

(* What lremove leaves: nothing new, and everything with another key; all   *)
(* that has the key goes when keys are distinct.                           *)
LEMMA RestElems ==
  ASSUME NEW S, NEW s \in Seq(S), NEW key
  PROVE  /\ Rest(s, key) \in Seq(S)
         /\ \A i \in DOMAIN Rest(s, key) : \E j \in DOMAIN s : Rest(s, key)[i] = s[j]
         /\ \A j \in DOMAIN s : s[j].key # key =>
              \E i \in DOMAIN Rest(s, key) : Rest(s, key)[i] = s[j]
         /\ (\A i, j \in DOMAIN s : s[i].key = s[j].key => i = j) =>
              /\ \A i \in DOMAIN Rest(s, key) : Rest(s, key)[i].key # key
              /\ \A i, j \in DOMAIN Rest(s, key) :
                   Rest(s, key)[i].key = Rest(s, key)[j].key => i = j
<1> DEFINE r == Rest(s, key)
<1>1. CASE r = s /\ \A j \in DOMAIN s : s[j].key # key
  BY <1>1
<1>2. ASSUME NEW k \in DOMAIN s, s[k].key = key, r = RemoveAt(s, k)
      PROVE  /\ r \in Seq(S)
             /\ \A i \in DOMAIN r : \E j \in DOMAIN s : r[i] = s[j]
             /\ \A j \in DOMAIN s : s[j].key # key => \E i \in DOMAIN r : r[i] = s[j]
             /\ (\A i, j \in DOMAIN s : s[i].key = s[j].key => i = j) =>
                  /\ \A i \in DOMAIN r : r[i].key # key
                  /\ \A i, j \in DOMAIN r : r[i].key = r[j].key => i = j
  <2> DEFINE old(i) == IF i < k THEN i ELSE i + 1
  <2>1. DOMAIN s = 1 .. Len(s) /\ Len(s) \in Nat
    BY LenProperties
  <2>2. /\ r \in Seq(S)
        /\ Len(r) = Len(s) - 1
        /\ \A i \in 1 .. Len(s) - 1 : r[i] = IF i < k THEN s[i] ELSE s[i + 1]
    BY <1>2, RemoveAtProperties
  <2>3. DOMAIN r = 1 .. Len(s) - 1
    BY <2>2, LenProperties
  <2> HIDE DEF r
  <2>4. ASSUME NEW i \in DOMAIN r
        PROVE  old(i) \in DOMAIN s /\ old(i) # k /\ r[i] = s[old(i)]
    BY <2>1, <2>2, <2>3
  <2>5. \A i, j \in DOMAIN r : old(i) = old(j) => i = j
    BY <2>1, <2>3
  <2>6. ASSUME NEW j \in DOMAIN s, j # k
        PROVE  \E i \in DOMAIN r : r[i] = s[j]
    <3>1. CASE j < k
      BY <3>1, <2>1, <2>2, <2>3
    <3>2. CASE j > k
      <4>1. j - 1 \in DOMAIN r /\ ~ (j - 1 < k) /\ (j - 1) + 1 = j
        BY <3>2, <2>1, <2>3
      <4>2. r[j - 1] = s[(j - 1) + 1]
        BY <4>1, <2>2, <2>3
      <4> QED BY <4>1, <4>2
    <3> QED BY <3>1, <3>2, <2>1, <2>6
  <2> HIDE DEF old
  <2>7. ASSUME \A i, j \in DOMAIN s : s[i].key = s[j].key => i = j
        PROVE  /\ \A i \in DOMAIN r : r[i].key # key
               /\ \A i, j \in DOMAIN r : r[i].key = r[j].key => i = j
    <3>1. \A i \in DOMAIN r : r[i].key # key
      BY <2>4, <2>7, <1>2
    <3>2. \A i, j \in DOMAIN r : r[i].key = r[j].key => old(i) = old(j)
      BY <2>4, <2>7
    <3> QED BY <3>1, <3>2, <2>5
  <2>8. \A i \in DOMAIN r : \E j \in DOMAIN s : r[i] = s[j]
    BY <2>4
  <2>9. \A j \in DOMAIN s : s[j].key # key => \E i \in DOMAIN r : r[i] = s[j]
    BY <2>6, <1>2
  <2> QED BY <2>2, <2>7, <2>8, <2>9
<1> HIDE DEF r
<1>3. \/ r = s /\ \A j \in DOMAIN s : s[j].key # key
      \/ \E k \in DOMAIN s : s[k].key = key /\ r = RemoveAt(s, k)
  BY RestProperties DEF r
<1> QED BY <1>1, <1>2, <1>3 DEF r

LEMMA LremoveType ==
  ASSUME NEW Value, NEW l \in ListOf(Nat, Value), NEW key
  PROVE  lremove(l, key) \in ListOf(Nat, Value)
<1>1. l.elems \in Seq(Elem(Nat, Value))
  BY DEF ListOf, Elem
<1>2. Rest(l.elems, key) \in Seq(Elem(Nat, Value))
  BY <1>1, RestElems
<1>3. GreatestKey(Rest(l.elems, key)) \in Nat \cup {-1}
  BY <1>2, GreatestKeyType
<1>4. lremove(l, key) =
        [elems |-> Rest(l.elems, key),
         greatest_key |-> IF key = l.greatest_key THEN GreatestKey(Rest(l.elems, key))
                                                  ELSE l.greatest_key,
         guard |-> IF l.elems = <<>> THEN 0 ELSE 1]
  BY DEF lremove, Rest
<1> QED BY <1>2, <1>3, <1>4 DEF ListOf, Elem

(* With distinct keys lremove takes out the element with the key and        *)
(* nothing else.                                                           *)
LEMMA LremoveValues ==
  ASSUME NEW Value, NEW l \in ListOf(Nat, Value), NEW key, DistinctKeys(l)
  PROVE  /\ DistinctKeys(lremove(l, key))
         /\ \A i \in DOMAIN lremove(l, key).elems :
              /\ lremove(l, key).elems[i].key # key
              /\ \E j \in DOMAIN l.elems : lremove(l, key).elems[i] = l.elems[j]
         /\ \A j \in DOMAIN l.elems : l.elems[j].key # key =>
              \E i \in DOMAIN lremove(l, key).elems : lremove(l, key).elems[i] = l.elems[j]
<1>1. l.elems \in Seq(Elem(Nat, Value))
  BY DEF ListOf, Elem
<1>2. lremove(l, key).elems = Rest(l.elems, key)
  BY DEF lremove, Rest
<1>3. \A i, j \in DOMAIN l.elems : l.elems[i].key = l.elems[j].key => i = j
  BY DEF DistinctKeys
<1>4. /\ \A i \in DOMAIN Rest(l.elems, key) :
           \E j \in DOMAIN l.elems : Rest(l.elems, key)[i] = l.elems[j]
      /\ \A j \in DOMAIN l.elems : l.elems[j].key # key =>
           \E i \in DOMAIN Rest(l.elems, key) : Rest(l.elems, key)[i] = l.elems[j]
  BY <1>1, RestElems
<1>5. /\ \A i \in DOMAIN Rest(l.elems, key) : Rest(l.elems, key)[i].key # key
      /\ \A i, j \in DOMAIN Rest(l.elems, key) :
           Rest(l.elems, key)[i].key = Rest(l.elems, key)[j].key => i = j
  BY <1>1, <1>3, RestElems
<1> QED BY <1>2, <1>4, <1>5 DEF DistinctKeys

(* lfind: the value of some element with the key, or null without one. *)
LEMMA LfindValue ==
  ASSUME NEW Value, NEW l \in ListOf(Nat, Value), NEW key, NEW null
  PROVE  \/ lfind(l, key, null) = null /\ key \notin Keys(l)
         \/ \E i \in DOMAIN l.elems : /\ l.elems[i].key = key
                                     /\ lfind(l, key, null) = l.elems[i].value
<1>1. l.elems \in Seq(Elem(Nat, Value))
  BY DEF ListOf, Elem
<1>2. lfind(l, key, null) = IF First(l.elems, key) = 0 THEN null
                            ELSE l.elems[First(l.elems, key)].value
  BY DEF lfind, First
<1> QED BY <1>1, <1>2, FirstWithKey DEF Keys

(* A list is empty when it has no value. *)
LEMMA EmptyList ==
  ASSUME NEW Value, NEW l \in ListOf(Nat, Value)
  PROVE  /\ l.elems = <<>> <=> Values(l) = {}
         /\ lsize(l) = 0 <=> Values(l) = {}
         /\ Values(l) \subseteq Value
<1>1. l.elems \in Seq(Elem(Nat, Value))
  BY DEF ListOf, Elem
<1>2. DOMAIN l.elems = 1 .. Len(l.elems) /\ Len(l.elems) \in Nat
  BY <1>1, LenProperties
<1>3. l.elems = <<>> <=> Len(l.elems) = 0
  BY <1>1, EmptySeq
<1>4. \A i \in DOMAIN l.elems : l.elems[i].value \in Value
  <2>1. \A i \in 1 .. Len(l.elems) : l.elems[i] \in Elem(Nat, Value)
    BY <1>1, ElementOfSeq
  <2> QED BY <1>2, <2>1 DEF Elem
<1>5. Len(l.elems) # 0 => 1 \in DOMAIN l.elems
  BY <1>2
<1>6. Values(l) \subseteq Value
  BY <1>4 DEF Values
<1>7. Values(l) = {} <=> DOMAIN l.elems = {}
  BY DEF Values
<1>8. DOMAIN l.elems = {} <=> Len(l.elems) = 0
  BY <1>2, <1>5
<1> QED BY <1>3, <1>6, <1>7, <1>8 DEF lsize

(* lremove takes out what lfind finds, and only that, when no value is     *)
(* listed twice: the newest of the elements that share the key.            *)
DistinctValues(l) ==
  \A i, j \in DOMAIN l.elems : l.elems[i].value = l.elems[j].value => i = j

LEMMA RemoveAtElems ==
  ASSUME NEW S, NEW s \in Seq(S), NEW k \in DOMAIN s
  PROVE  \E old \in [DOMAIN RemoveAt(s, k) -> DOMAIN s \ {k}] :
           /\ \A i \in DOMAIN RemoveAt(s, k) : RemoveAt(s, k)[i] = s[old[i]]
           /\ \A i, j \in DOMAIN RemoveAt(s, k) : old[i] = old[j] => i = j
           /\ \A j \in DOMAIN s \ {k} : \E i \in DOMAIN RemoveAt(s, k) : old[i] = j
<1> DEFINE r == RemoveAt(s, k)
           old == [i \in DOMAIN r |-> IF i < k THEN i ELSE i + 1]
<1>1. DOMAIN s = 1 .. Len(s) /\ Len(s) \in Nat
  BY LenProperties
<1>2. /\ r \in Seq(S)
      /\ Len(r) = Len(s) - 1
      /\ \A i \in 1 .. Len(s) - 1 : r[i] = IF i < k THEN s[i] ELSE s[i + 1]
  BY RemoveAtProperties
<1>3. DOMAIN r = 1 .. Len(s) - 1
  BY <1>2, LenProperties
<1> HIDE DEF r
<1>4. \A i \in DOMAIN r : old[i] \in DOMAIN s \ {k} /\ r[i] = s[old[i]]
  BY <1>1, <1>2, <1>3
<1>5. \A i, j \in DOMAIN r : old[i] = old[j] => i = j
  BY <1>1, <1>3
<1>6. ASSUME NEW j \in DOMAIN s \ {k} PROVE \E i \in DOMAIN r : old[i] = j
  <2>1. CASE j < k
    BY <2>1, <1>1, <1>3
  <2>2. CASE j > k
    <3>1. j - 1 \in DOMAIN r /\ ~ (j - 1 < k) /\ (j - 1) + 1 = j
      BY <2>2, <1>1, <1>3
    <3> QED BY <3>1
  <2> QED BY <2>1, <2>2, <1>1
<1>7. old \in [DOMAIN r -> DOMAIN s \ {k}]
  BY <1>4
<1> HIDE DEF old
<1> QED BY <1>4, <1>5, <1>6, <1>7 DEF r

LEMMA LremoveTakesFound ==
  ASSUME NEW Value, NEW l \in ListOf(Nat, Value), NEW key \in Keys(l), NEW null,
         DistinctValues(l)
  PROVE  /\ lfind(l, key, null) \in Values(l)
         /\ Values(lremove(l, key)) = Values(l) \ {lfind(l, key, null)}
         /\ DistinctValues(lremove(l, key))
         /\ \A i \in DOMAIN lremove(l, key).elems :
              \E j \in DOMAIN l.elems : lremove(l, key).elems[i] = l.elems[j]
<1> DEFINE s == l.elems
           k == First(s, key)
           r == RemoveAt(s, k)
<1>1. s \in Seq(Elem(Nat, Value))
  BY DEF ListOf, Elem
<1>2. k \in DOMAIN s
  BY <1>1, FirstWithKey DEF Keys
<1>3. lfind(l, key, null) = s[k].value
  <2>1. DOMAIN s = 1 .. Len(s) /\ Len(s) \in Nat
    BY <1>1, LenProperties
  <2>2. k # 0
    BY <1>2, <2>1
  <2>3. lfind(l, key, null) = IF k = 0 THEN null ELSE s[k].value
    BY DEF lfind, First
  <2> QED BY <2>2, <2>3
<1>4. lremove(l, key).elems = r
  <2>1. DOMAIN s = 1 .. Len(s)
    BY <1>1, LenProperties
  <2>2. \E i \in 1 .. Len(s) : s[i].key = key
    BY <2>1 DEF Keys
  <2>3. lremove(l, key).elems =
          IF \E i \in 1 .. Len(s) : s[i].key = key THEN r ELSE s
    BY DEF lremove, RemoveFirstMatch, First
  <2> QED BY <2>2, <2>3
<1>5. PICK old \in [DOMAIN r -> DOMAIN s \ {k}] :
        /\ \A i \in DOMAIN r : r[i] = s[old[i]]
        /\ \A i, j \in DOMAIN r : old[i] = old[j] => i = j
        /\ \A j \in DOMAIN s \ {k} : \E i \in DOMAIN r : old[i] = j
  <2> HIDE DEF k
  <2> QED BY <1>1, <1>2, RemoveAtElems
<1>6. \A i, j \in DOMAIN s : s[i].value = s[j].value => i = j
  BY DEF DistinctValues
<1>7. \A i \in DOMAIN r : old[i] \in DOMAIN s \ {k}
  BY <1>5
<1> HIDE DEF s, k, r
<1>8. {r[i].value : i \in DOMAIN r} = {s[i].value : i \in DOMAIN s} \ {s[k].value}
  <2>1. \A i \in DOMAIN r : \E j \in DOMAIN s \ {k} : r[i].value = s[j].value
    BY <1>5, <1>7
  <2>2. \A j \in DOMAIN s \ {k} : \E i \in DOMAIN r : r[i].value = s[j].value
    BY <1>5, <1>7
  <2>3. {s[i].value : i \in DOMAIN s} \ {s[k].value} = {s[i].value : i \in DOMAIN s \ {k}}
    BY <1>2, <1>6
  <2>4. {r[i].value : i \in DOMAIN r} = {s[i].value : i \in DOMAIN s \ {k}}
    BY <2>1, <2>2
  <2> QED BY <2>3, <2>4
<1>9. \A i, j \in DOMAIN r : r[i].value = r[j].value => i = j
  BY <1>5, <1>6, <1>7
<1>10. \A i \in DOMAIN r : \E j \in DOMAIN s : r[i] = s[j]
  BY <1>5, <1>7
<1>11. s[k].value \in {s[i].value : i \in DOMAIN s}
  BY <1>2
<1>12. Values(l) = {s[i].value : i \in DOMAIN s}
  BY DEF s, Values
<1>13. Values(lremove(l, key)) = {r[i].value : i \in DOMAIN r}
  BY <1>4 DEF Values
<1>14. DistinctValues(lremove(l, key))
  BY <1>4, <1>9 DEF DistinctValues
<1>15. \A i \in DOMAIN lremove(l, key).elems :
         \E j \in DOMAIN l.elems : lremove(l, key).elems[i] = l.elems[j]
  BY <1>4, <1>10 DEF s
<1> QED BY <1>3, <1>8, <1>11, <1>12, <1>13, <1>14, <1>15

LEMMA LaddDistinctValues ==
  ASSUME NEW Value, NEW l \in ListOf(Nat, Value), NEW key \in Nat, NEW v \in Value,
         DistinctValues(l), v \notin Values(l)
  PROVE  DistinctValues(ladd(l, key, v))
<1> DEFINE a == ladd(l, key, v).elems
           s == l.elems
<1>1. /\ DOMAIN a = 1 .. Len(s) + 1
      /\ a[1] = [key |-> key, value |-> v]
      /\ \A i \in 1 .. Len(s) : a[i + 1] = s[i]
  BY LaddElems
<1>2. DOMAIN s = 1 .. Len(s) /\ Len(s) \in Nat
  BY LenProperties DEF ListOf
<1>3. \A i, j \in DOMAIN s : s[i].value = s[j].value => i = j
  BY DEF DistinctValues
<1>4. \A i \in DOMAIN s : s[i].value # v
  BY DEF Values
<1> HIDE DEF a, s
<1>5. \A i \in DOMAIN a :
        \/ i = 1 /\ a[i].value = v
        \/ i # 1 /\ i - 1 \in DOMAIN s /\ a[i].value = s[i - 1].value
  <2> TAKE i \in DOMAIN a
  <2>1. i = 1 \/ i - 1 \in 1 .. Len(s)
    BY <1>1, <1>2
  <2>2. i - 1 \in 1 .. Len(s) => a[(i - 1) + 1] = s[i - 1]
    BY <1>1
  <2>3. (i - 1) + 1 = i
    BY <1>1, <1>2
  <2> QED BY <2>1, <2>2, <2>3, <1>1, <1>2
<1>6. ASSUME NEW i \in DOMAIN a, NEW j \in DOMAIN a, a[i].value = a[j].value
      PROVE  i = j
  <2>1. i \in Int /\ j \in Int
    BY <1>1, <1>2
  <2>2. CASE i = 1
    BY <2>2, <1>4, <1>5, <1>6
  <2>3. CASE j = 1
    BY <2>3, <1>4, <1>5, <1>6
  <2>4. CASE i # 1 /\ j # 1
    <3>1. i - 1 = j - 1
      BY <2>4, <1>3, <1>5, <1>6
    <3> QED BY <3>1, <2>1
  <2> QED BY <2>2, <2>3, <2>4
<1> QED BY <1>6 DEF a, DistinctValues

-----------------------------------------------------------------------------
(* l->greatest_key is no less than any key, so that an id after it is new. *)
KeysBounded(l) == \A i \in DOMAIN l.elems : l.elems[i].key <= l.greatest_key

LEMMA LaddBounded ==
  ASSUME NEW Value, NEW l \in ListOf(Nat, Value), NEW key \in Nat, NEW v \in Value,
         KeysBounded(l)
  PROVE  KeysBounded(ladd(l, key, v))
<1> DEFINE a == ladd(l, key, v)
           s == l.elems
<1>1. /\ DOMAIN a.elems = 1 .. Len(s) + 1
      /\ a.elems[1] = [key |-> key, value |-> v]
      /\ \A i \in 1 .. Len(s) : a.elems[i + 1] = s[i]
  BY LaddElems
<1>2. /\ DOMAIN s = 1 .. Len(s) /\ Len(s) \in Nat
      /\ \A i \in 1 .. Len(s) : s[i].key \in Nat
  <2>1. s \in Seq(Elem(Nat, Value))
    BY DEF ListOf, Elem
  <2>2. \A i \in 1 .. Len(s) : s[i] \in Elem(Nat, Value)
    BY <2>1, ElementOfSeq
  <2> QED BY <2>1, <2>2, LenProperties DEF Elem
<1>3. /\ a.greatest_key = IF key > l.greatest_key THEN key ELSE l.greatest_key
      /\ l.greatest_key \in Int
  BY DEF ladd, ListOf
<1>4. \A i \in 1 .. Len(s) : s[i].key <= l.greatest_key
  BY <1>2 DEF KeysBounded
<1> HIDE DEF a, s
<1>5. ASSUME NEW i \in DOMAIN a.elems
      PROVE  a.elems[i].key <= a.greatest_key
  <2>1. CASE i = 1
    BY <1>1, <1>3, <2>1
  <2>2. CASE i # 1
    <3>1. i - 1 \in 1 .. Len(s) /\ a.elems[(i - 1) + 1] = s[i - 1] /\ (i - 1) + 1 = i
      BY <1>1, <1>2, <2>2
    <3>2. s[i - 1].key <= l.greatest_key /\ s[i - 1].key \in Nat
      BY <1>2, <1>4, <3>1
    <3> QED BY <1>3, <3>1, <3>2
  <2> QED BY <2>1, <2>2
<1> QED BY <1>5 DEF a, KeysBounded

(* What lremove leaves was in the list, whatever its keys. *)
LEMMA LremoveElems ==
  ASSUME NEW Value, NEW l \in ListOf(Nat, Value), NEW key
  PROVE  \A i \in DOMAIN lremove(l, key).elems :
           \E j \in DOMAIN l.elems : lremove(l, key).elems[i] = l.elems[j]
<1>1. l.elems \in Seq(Elem(Nat, Value)) /\ lremove(l, key).elems = Rest(l.elems, key)
  BY DEF ListOf, Elem, lremove, Rest
<1> QED BY <1>1, RestElems

LEMMA LremoveBounded ==
  ASSUME NEW Value, NEW l \in ListOf(Nat, Value), NEW key, KeysBounded(l)
  PROVE  KeysBounded(lremove(l, key))
<1> DEFINE r == lremove(l, key)
<1>1. l.elems \in Seq(Elem(Nat, Value)) /\ r.elems = Rest(l.elems, key)
  BY DEF ListOf, Elem, lremove, Rest
<1>2. Rest(l.elems, key) \in Seq(Elem(Nat, Value))
  BY <1>1, RestElems
<1>3. r.greatest_key = IF key = l.greatest_key THEN GreatestKey(r.elems) ELSE l.greatest_key
  BY DEF lremove
<1>4. \A i \in DOMAIN r.elems : r.elems[i].key <= GreatestKey(r.elems)
  BY <1>1, <1>2, GreatestKeyType
<1>5. \A i \in DOMAIN r.elems : r.elems[i].key <= l.greatest_key
  BY LremoveElems DEF KeysBounded
<1> HIDE DEF r
<1>6. KeysBounded(r)
  BY <1>3, <1>4, <1>5 DEF KeysBounded
<1> QED BY <1>6 DEF r
-----------------------------------------------------------------------------
(* Lists whose values carry their keys, as tasks carry their ids: what      *)
(* ladd and lremove do to the values of such a list.                       *)
KeyedBy(l, Id) == \A i \in DOMAIN l.elems : l.elems[i].key = Id[l.elems[i].value]

LEMMA LaddKeyedBy ==
  ASSUME NEW Value, NEW l \in ListOf(Nat, Value), NEW Id, NEW v \in Value, Id[v] \in Nat,
         KeyedBy(l, Id)
  PROVE  KeyedBy(ladd(l, Id[v], v), Id)
<1> DEFINE a == ladd(l, Id[v], v).elems
<1>1. /\ DOMAIN a = 1 .. Len(l.elems) + 1
      /\ a[1] = [key |-> Id[v], value |-> v]
      /\ \A i \in 1 .. Len(l.elems) : a[i + 1] = l.elems[i]
  BY LaddElems
<1>2. DOMAIN l.elems = 1 .. Len(l.elems) /\ Len(l.elems) \in Nat
  BY LenProperties DEF ListOf
<1> HIDE DEF a
<1>3. ASSUME NEW i \in DOMAIN a PROVE a[i].key = Id[a[i].value]
  <2>1. CASE i = 1
    BY <1>1, <2>1
  <2>2. CASE i # 1
    <3>1. PICK j \in DOMAIN l.elems : i = j + 1
      <4>1. i - 1 \in 1 .. Len(l.elems) /\ i = (i - 1) + 1
        BY <1>1, <1>2, <2>2
      <4> QED BY <1>2, <4>1
    <3>2. a[i] = l.elems[j]
      BY <1>1, <1>2, <3>1
    <3> QED BY <3>2 DEF KeyedBy
  <2> QED BY <2>1, <2>2
<1> QED BY <1>3 DEF KeyedBy, a

(* lremove leaves a value with another key, and adds none. *)
LEMMA LremoveKeyedBy ==
  ASSUME NEW Value, NEW l \in ListOf(Nat, Value), NEW Id, NEW key, KeyedBy(l, Id)
  PROVE  /\ KeyedBy(lremove(l, key), Id)
         /\ Values(lremove(l, key)) \subseteq Values(l)
         /\ \A v \in Values(l) : Id[v] # key => v \in Values(lremove(l, key))
<1>1. \A i \in DOMAIN lremove(l, key).elems :
        \E j \in DOMAIN l.elems : lremove(l, key).elems[i] = l.elems[j]
  BY LremoveElems
<1>2. l.elems \in Seq(Elem(Nat, Value)) /\ lremove(l, key).elems = Rest(l.elems, key)
  BY DEF ListOf, Elem, lremove, Rest
<1>3. \A j \in DOMAIN l.elems : l.elems[j].key # key =>
        \E i \in DOMAIN lremove(l, key).elems : lremove(l, key).elems[i] = l.elems[j]
  BY <1>2, RestElems
<1>4. KeyedBy(lremove(l, key), Id)
  BY <1>1 DEF KeyedBy
<1>5. Values(lremove(l, key)) \subseteq Values(l)
  BY <1>1 DEF Values
<1>6. \A v \in Values(l) : Id[v] # key => v \in Values(lremove(l, key))
  BY <1>3 DEF Values, KeyedBy
<1> QED BY <1>4, <1>5, <1>6

(* What was added last under a key is found first. *)
LEMMA LfindNewest ==
  ASSUME NEW Value, NEW l \in ListOf(Nat, Value), NEW key \in Nat, NEW v \in Value, NEW null
  PROVE  lfind(ladd(l, key, v), key, null) = v
<1> DEFINE a == ladd(l, key, v)
<1>1. /\ DOMAIN a.elems = 1 .. Len(l.elems) + 1
      /\ a.elems[1] = [key |-> key, value |-> v]
  BY LaddElems
<1>2. a.elems \in Seq(Elem(Nat, Value)) /\ Len(l.elems) \in Nat
  BY LaddType, LenProperties DEF ListOf, Elem
<1> HIDE DEF a
<1>3. 1 \in DOMAIN a.elems /\ a.elems[1].key = key /\ DOMAIN a.elems \subseteq Nat \ {0}
  BY <1>1, <1>2
<1>4. First(a.elems, key) = 1
  BY <1>2, <1>3, FirstWithKey
<1>5. lfind(a, key, null) = a.elems[1].value
  BY <1>4 DEF lfind, First
<1> QED BY <1>1, <1>5 DEF a
=============================================================================
