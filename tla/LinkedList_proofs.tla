--------------------------- MODULE LinkedList_proofs ---------------------------
(***************************************************************************)
(* Theorems about LinkedList, for any memory, keys, values and threads.    *)
(***************************************************************************)
EXTENDS LinkedList, Lists_proofs, FiniteSetTheorems

(* f leads through the addresses in q, one after the other, to NULL.       *)
Leads(q, f, m) ==
  /\ q \in Seq(Addr)
  /\ \A i, j \in DOMAIN q : q[i] = q[j] => i = j
  /\ f = IF q = <<>> THEN Null ELSE q[1]
  /\ \A i \in DOMAIN q : /\ m[q[i]] # Null
                         /\ m[q[i]].next = IF i = Len(q) THEN Null ELSE q[i + 1]

InSeq(q) == {q[i] : i \in DOMAIN q}

(* One step from where h[n - 1] is: Nth is the h with h = Steps(h, first, mem). *)
Steps(h, f, m) ==
  [n \in Nat |-> IF n = 0 THEN f
                 ELSE IF h[n - 1] = Null \/ m[h[n - 1]] = Null THEN Null
                      ELSE m[h[n - 1]].next]

LEMMA StepsLead ==
  ASSUME LinkedListAssumption, NEW q, NEW f, NEW m, Leads(q, f, m),
         NEW nth, nth = CHOOSE h : h = Steps(h, f, m)
  PROVE  nth = [n \in Nat |-> IF n < Len(q) THEN q[n + 1] ELSE Null]
<1> DEFINE g == [n \in Nat |-> IF n < Len(q) THEN q[n + 1] ELSE Null]
<1> Len(q) \in Nat
  BY LenProperties DEF Leads
<1>1. /\ DOMAIN q = 1..Len(q) /\ (q = <<>> <=> Len(q) = 0)
      /\ \A i \in 1..Len(q) : q[i] \in Addr
  BY LenProperties, EmptySeq DEF Leads
<1>2. \A n \in Nat : g[n] = Steps(g, f, m)[n]
  <2> TAKE n \in Nat
  <2>1. CASE n = 0
    BY <2>1, <1>1 DEF Leads, Steps
  <2>2. CASE n # 0 /\ n - 1 < Len(q)
    <3>1. n - 1 \in Nat /\ n \in 1..Len(q)
      BY <2>2, <1>1
    <3>2. g[n - 1] = q[n]
      BY <3>1, <2>2
    <3>3. q[n] \in Addr /\ q[n] # Null
      BY <3>1, <1>1 DEF LinkedListAssumption
    <3>4. m[q[n]] # Null /\ m[q[n]].next = IF n = Len(q) THEN Null ELSE q[n + 1]
      BY <3>1, <1>1 DEF Leads
    <3>5. g[n] = IF n = Len(q) THEN Null ELSE q[n + 1]
      <4>1. n < Len(q) <=> n # Len(q)
        BY <3>1
      <4> QED BY <4>1
    <3>6. Steps(g, f, m)[n] = m[q[n]].next
      <4> HIDE DEF g
      <4> QED BY <2>2, <3>2, <3>3, <3>4 DEF Steps
    <3> QED BY <3>4, <3>5, <3>6
  <2>3. CASE n # 0 /\ ~(n - 1 < Len(q))
    <3>1. n - 1 \in Nat /\ g[n - 1] = Null /\ ~(n < Len(q))
      BY <2>3, <1>1
    <3> QED BY <2>3, <3>1 DEF Steps
  <2> QED BY <2>1, <2>2, <2>3
<1>3. g = Steps(g, f, m)
  <2> HIDE DEF g
  <2>1. DOMAIN g = Nat /\ g = [n \in DOMAIN g |-> g[n]]
    BY DEF g
  <2> QED BY <2>1, <1>2 DEF Steps
<1>4. nth = Steps(nth, f, m)
  <2> HIDE DEF g
  <2> QED BY <1>3
<1>5. \A n \in Nat : nth[n] = g[n]
  <2> DEFINE T == {n \in Nat : nth[n] # g[n]}
  <2> HIDE DEF g
  <2>1. ASSUME T # {}
        PROVE  FALSE
    <3>1. PICK n \in T : \A k \in T : n <= k
      BY <2>1, LeastNatural
    <3>2. nth[n] = Steps(nth, f, m)[n] /\ g[n] = Steps(g, f, m)[n]
      BY <1>2, <1>4
    <3>3. CASE n = 0
      BY <3>2, <3>3, <3>1 DEF Steps
    <3>4. CASE n # 0
      <4>1. n - 1 \in Nat /\ n - 1 \notin T
        BY <3>1, <3>4
      <4>2. nth[n - 1] = g[n - 1]
        BY <4>1
      <4> QED BY <3>1, <3>2, <3>4, <4>2 DEF Steps
    <3> QED BY <3>3, <3>4
  <2> QED BY <2>1
<1>6. nth = [n \in Nat |-> nth[n]]
  <2> HIDE DEF g
  <2>1. Steps(nth, f, m) = [n \in Nat |-> Steps(nth, f, m)[n]]
    BY DEF Steps
  <2> QED BY <1>4, <2>1
<1> HIDE DEF g
<1>7. g = [n \in Nat |-> g[n]]
  BY DEF g
<1>8. nth = g
  BY <1>5, <1>6, <1>7
<1> QED BY <1>8 DEF g

LEMMA ChainLength ==
  ASSUME LinkedListAssumption, NEW q, NEW f, NEW m, Leads(q, f, m)
  PROVE  /\ Len(q) <= Cardinality(Addr)
         /\ Cardinality(InSeq(q)) = Len(q)
<1>1. /\ Len(q) \in Nat /\ DOMAIN q = 1..Len(q) /\ q \in [1..Len(q) -> Addr]
  BY LenProperties DEF Leads
<1>2. q \in Injection(1..Len(q), Addr)
  BY <1>1 DEF Leads, Injection, IsInjective
<1>3. q \in Surjection(1..Len(q), InSeq(q))
  BY <1>1 DEF InSeq, Surjection
<1>4. q \in Injection(1..Len(q), InSeq(q))
  BY <1>1, <1>2 DEF InSeq, Injection, IsInjective
<1>5. IsFiniteSet(1..Len(q)) /\ Cardinality(1..Len(q)) = Len(q)
  BY <1>1, FS_Interval
<1>6. Len(q) <= Cardinality(Addr)
  BY <1>2, <1>5, FS_Injection DEF LinkedListAssumption
<1>7. Cardinality(InSeq(q)) = Len(q)
  BY <1>3, <1>4, <1>5, FS_Surjection
<1> QED BY <1>6, <1>7

(* The elements that the code would reach from f are those of q. *)
LEMMA ChainOf ==
  ASSUME LinkedListAssumption, NEW q, NEW f, NEW m, Leads(q, f, m),
         NEW nth, NEW linked,
         \A n \in Nat : nth[n] = IF n < Len(q) THEN q[n + 1] ELSE Null,
         \A a : a \in linked <=> a # Null /\ \E n \in 0..Cardinality(Addr) - 1 : a = nth[n]
  PROVE  /\ linked = InSeq(q)
         /\ Cardinality(linked) = Len(q)
         /\ \A i \in 1..Len(q) : nth[i - 1] = q[i]
<1>1. \A n \in Nat : nth[n] = IF n < Len(q) THEN q[n + 1] ELSE Null
  OBVIOUS
<1>2. /\ Len(q) \in Nat /\ DOMAIN q = 1..Len(q)
      /\ \A i \in 1..Len(q) : q[i] \in Addr
      /\ q = [i \in 1..Len(q) |-> q[i]]
  BY LenProperties DEF Leads
<1>3. Len(q) <= Cardinality(Addr) /\ Cardinality(InSeq(q)) = Len(q)
  BY ChainLength
<1>4. Cardinality(Addr) \in Nat
  BY FS_CardinalityType DEF LinkedListAssumption
<1>5. ASSUME NEW a \in linked
      PROVE  a \in InSeq(q)
  <2>1. PICK n \in 0..Cardinality(Addr) - 1 : a = nth[n] /\ a # Null
    OBVIOUS
  <2>2. n < Len(q) /\ a = q[n + 1]
    BY <1>1, <1>4, <2>1
  <2> QED BY <1>2, <2>2 DEF InSeq
<1>6. ASSUME NEW a \in InSeq(q)
      PROVE  a \in linked
  <2>1. PICK i \in 1..Len(q) : a = q[i]
    BY <1>2 DEF InSeq
  <2>2. PICK n \in Nat : n = i - 1
    BY <1>2
  <2>3. n \in 0..Cardinality(Addr) - 1 /\ n < Len(q) /\ n + 1 = i
    BY <1>2, <1>3, <1>4, <2>2
  <2>4. nth[n] = a
    BY <1>1, <2>1, <2>3
  <2>5. a # Null
    BY <1>2, <2>1 DEF LinkedListAssumption
  <2> QED BY <2>3, <2>4, <2>5
<1>7. linked = InSeq(q)
  BY <1>5, <1>6
<1>8. \A i \in 1..Len(q) : nth[i - 1] = q[i]
  <2> TAKE i \in 1..Len(q)
  <2>1. PICK n \in Nat : n = i - 1
    BY <1>2
  <2>2. n < Len(q) /\ n + 1 = i
    BY <1>2, <2>1
  <2>3. nth[n] = q[i]
    BY <1>1, <2>2
  <2> QED BY <2>1, <2>3
<1> QED BY <1>3, <1>7, <1>8

LEMMA ChainNow ==
  ASSUME LinkedListAssumption, NEW q, Leads(q, first, mem)
  PROVE  Chain = q /\ Linked = InSeq(q)
<1>1. Nth = CHOOSE h : h = Steps(h, first, mem)
  BY DEF Nth, Steps
<1>2. Nth = [n \in Nat |-> IF n < Len(q) THEN q[n + 1] ELSE Null]
  BY <1>1, StepsLead
<1>3. \A a : a \in Linked <=> a # Null /\ \E n \in 0..Cardinality(Addr) - 1 : a = Nth[n]
  BY DEF Linked
<1>4. PICK nth, linked : nth = Nth /\ linked = Linked
  OBVIOUS
<1>5. /\ \A n \in Nat : nth[n] = IF n < Len(q) THEN q[n + 1] ELSE Null
      /\ \A a : a \in linked <=> a # Null /\ \E n \in 0..Cardinality(Addr) - 1 : a = nth[n]
  BY <1>2, <1>3, <1>4
<1>6. /\ linked = InSeq(q)
      /\ Cardinality(linked) = Len(q)
      /\ \A i \in 1..Len(q) : nth[i - 1] = q[i]
  BY ONLY LinkedListAssumption, Leads(q, first, mem), <1>5, ChainOf
<1>7. Chain = [i \in 1..Len(q) |-> q[i]]
  BY <1>4, <1>6 DEF Chain
<1>8. q = [i \in 1..Len(q) |-> q[i]]
  BY LenProperties DEF Leads
<1> QED BY <1>4, <1>6, <1>7, <1>8

LEMMA ChainNext ==
  ASSUME LinkedListAssumption, NEW q, Leads(q, first', mem')
  PROVE  Chain' = q /\ Linked' = InSeq(q)
<1>1. Nth' = CHOOSE h : h = Steps(h, first', mem')
  BY DEF Nth, Steps
<1>2. Nth' = [n \in Nat |-> IF n < Len(q) THEN q[n + 1] ELSE Null]
  BY <1>1, StepsLead
<1>3. \A a : a \in Linked' <=> a # Null /\ \E n \in 0..Cardinality(Addr) - 1 : a = Nth'[n]
  BY DEF Linked
<1>4. PICK nth, linked : nth = Nth' /\ linked = Linked'
  OBVIOUS
<1>5. /\ \A n \in Nat : nth[n] = IF n < Len(q) THEN q[n + 1] ELSE Null
      /\ \A a : a \in linked <=> a # Null /\ \E n \in 0..Cardinality(Addr) - 1 : a = nth[n]
  BY <1>2, <1>3, <1>4
<1>6. /\ linked = InSeq(q)
      /\ Cardinality(linked) = Len(q)
      /\ \A i \in 1..Len(q) : nth[i - 1] = q[i]
  BY ONLY LinkedListAssumption, Leads(q, first', mem'), <1>5, ChainOf
<1>7. Chain' = [i \in 1..Len(q) |-> q[i]]
  BY <1>4, <1>6 DEF Chain
<1>8. q = [i \in 1..Len(q) |-> q[i]]
  BY LenProperties DEF Leads
<1> QED BY <1>4, <1>6, <1>7, <1>8

-----------------------------------------------------------------------------
(* What the steps of list.c do to a list that f leads through.             *)
Contents(q, m) == [i \in DOMAIN q |-> [key |-> m[q[i]].key, value |-> m[q[i]].value]]

(* n leads to a. *)
Reaches(q, n, a) == \E i, j \in DOMAIN q : i <= j /\ q[i] = n /\ q[j] = a

LEMMA LeadsFacts ==
  ASSUME LinkedListAssumption, NEW q, NEW f, NEW m, Leads(q, f, m)
  PROVE  /\ Len(q) \in Nat /\ DOMAIN q = 1..Len(q)
         /\ q = <<>> <=> Len(q) = 0
         /\ f = Null <=> Len(q) = 0
         /\ Len(q) # 0 => f = q[1] /\ f \in InSeq(q)
         /\ \A i \in 1..Len(q) : q[i] \in Addr /\ q[i] # Null
         /\ InSeq(q) \subseteq Addr /\ Null \notin InSeq(q)
<1>1. Len(q) \in Nat /\ DOMAIN q = 1..Len(q) /\ (q = <<>> <=> Len(q) = 0)
  BY LenProperties, EmptySeq DEF Leads
<1>2. \A i \in 1..Len(q) : q[i] \in Addr /\ q[i] # Null
  BY <1>1 DEF Leads, LinkedListAssumption
<1>3. Len(q) # 0 => f = q[1] /\ 1 \in 1..Len(q)
  BY <1>1 DEF Leads
<1>4. Len(q) = 0 => f = Null
  BY <1>1 DEF Leads
<1> QED BY <1>1, <1>2, <1>3, <1>4 DEF InSeq

(* The pointers of its elements are all that a list depends on. *)
LEMMA SameLeads ==
  ASSUME NEW q, NEW f, NEW m, Leads(q, f, m), NEW m2,
         \A a \in InSeq(q) : m2[a] # Null /\ m2[a].next = m[a].next
  PROVE  Leads(q, f, m2)
BY DEF Leads, InSeq

LEMMA SameContents ==
  ASSUME NEW q, NEW m, NEW m2,
         \A a \in InSeq(q) : m2[a].key = m[a].key /\ m2[a].value = m[a].value
  PROVE  Contents(q, m2) = Contents(q, m)
BY DEF Contents, InSeq

LEMMA PushLeads ==
  ASSUME LinkedListAssumption, NEW q, NEW f, NEW m, Leads(q, f, m),
         NEW a \in Addr, a \notin InSeq(q), m[a] # Null, m[a].next = f
  PROVE  /\ Leads(Cons(a, q), a, m)
         /\ InSeq(Cons(a, q)) = InSeq(q) \cup {a}
         /\ Len(Cons(a, q)) = Len(q) + 1
         /\ Cons(a, q)[1] = a
         /\ \A i \in 1..Len(q) : Cons(a, q)[i + 1] = q[i]
         /\ \A n, b : Reaches(q, n, b) => Reaches(Cons(a, q), n, b)
<1> DEFINE r == Cons(a, q)
<1>1. /\ Len(q) \in Nat /\ DOMAIN q = 1..Len(q)
      /\ Len(q) = 0 => f = Null
      /\ Len(q) # 0 => f = q[1]
  BY LeadsFacts
<1>2. /\ r \in Seq(Addr) /\ Len(r) = Len(q) + 1
      /\ r[1] = a /\ \A i \in 1..Len(q) : r[i + 1] = q[i]
  <2>1. <<a>> \in Seq(Addr) /\ Len(<<a>>) = 1 /\ q \in Seq(Addr)
    BY DEF Leads
  <2> QED BY <1>1, <2>1, ConcatProperties DEF Cons
<1> HIDE DEF r
<1>3. DOMAIN r = 1..Len(q) + 1 /\ r # <<>>
  BY <1>1, <1>2, LenProperties, EmptySeq
<1>4. \A i \in 1..Len(q) + 1 : r[i] = IF i = 1 THEN a ELSE q[i - 1]
  <2> TAKE i \in 1..Len(q) + 1
  <2>1. CASE i # 1
    <3>1. PICK k \in 1..Len(q) : i = k + 1
      BY <1>1, <2>1
    <3>2. r[k + 1] = q[k] /\ k = i - 1
      BY <1>1, <1>2, <3>1
    <3> QED BY <3>1, <3>2, <2>1
  <2> QED BY <2>1, <1>2
<1>5. ASSUME NEW b \in InSeq(r)
      PROVE  b \in InSeq(q) \cup {a}
  <2>1. PICK i \in 1..Len(q) + 1 : b = r[i]
    BY <1>3 DEF InSeq
  <2>2. i = 1 \/ i - 1 \in 1..Len(q)
    BY <1>1
  <2> QED BY <2>1, <2>2, <1>1, <1>4 DEF InSeq
<1>6. ASSUME NEW b \in InSeq(q) \cup {a}
      PROVE  b \in InSeq(r)
  <2>1. CASE b = a
    BY <2>1, <1>1, <1>2, <1>3 DEF InSeq
  <2>2. CASE b \in InSeq(q)
    <3>1. PICK i \in 1..Len(q) : b = q[i]
      BY <2>2, <1>1 DEF InSeq
    <3>2. r[i + 1] = b /\ i + 1 \in DOMAIN r
      BY <3>1, <1>1, <1>2, <1>3
    <3> QED BY <3>2 DEF InSeq
  <2> QED BY <2>1, <2>2
<1>7. ASSUME NEW i \in DOMAIN r, NEW j \in DOMAIN r, r[i] = r[j]
      PROVE  i = j
  <2>1. i \in Int /\ j \in Int /\ i >= 1 /\ j >= 1
    BY <1>1, <1>3
  <2>2. i # 1 => i - 1 \in 1..Len(q) /\ r[i] = q[i - 1] /\ r[i] # a
    BY <1>1, <1>3, <1>4 DEF InSeq
  <2>3. j # 1 => j - 1 \in 1..Len(q) /\ r[j] = q[j - 1] /\ r[j] # a
    BY <1>1, <1>3, <1>4 DEF InSeq
  <2>4. CASE i # 1 /\ j # 1
    <3>1. i - 1 = j - 1
      BY <2>2, <2>3, <2>4, <1>1, <1>7 DEF Leads
    <3> QED BY <3>1, <2>1
  <2> QED BY <2>1, <2>2, <2>3, <2>4, <1>2, <1>7
<1>8. ASSUME NEW i \in DOMAIN r
      PROVE  /\ m[r[i]] # Null
             /\ m[r[i]].next = IF i = Len(r) THEN Null ELSE r[i + 1]
  <2>1. CASE i = 1
    <3>1. m[r[i]].next = f
      BY <2>1, <1>2
    <3>2. CASE Len(q) = 0
      BY <2>1, <3>1, <3>2, <1>1, <1>2
    <3>3. CASE Len(q) # 0
      <4>1. 1 \in 1..Len(q) /\ r[1 + 1] = q[1] /\ i # Len(r)
        BY <2>1, <3>3, <1>1, <1>2
      <4> QED BY <2>1, <3>1, <3>3, <4>1, <1>1, <1>2
    <3> QED BY <3>2, <3>3
  <2>2. CASE i # 1
    <3> i \in 1..Len(q) + 1 /\ Len(r) = Len(q) + 1 /\ Len(q) \in Nat
      BY <1>1, <1>2, <1>3
    <3>1. PICK k \in 1..Len(q) : i = k + 1
      <4>1. i - 1 \in 1..Len(q) /\ i = i - 1 + 1
        BY <2>2
      <4> QED BY <4>1
    <3>2. /\ r[i] = q[k] /\ m[q[k]] # Null
          /\ m[q[k]].next = IF k = Len(q) THEN Null ELSE q[k + 1]
      BY <3>1, <1>1, <1>2 DEF Leads
    <3>3. i = Len(r) <=> k = Len(q)
      BY <3>1
    <3>4. k # Len(q) => r[i + 1] = q[k + 1]
      <4>1. k # Len(q) => k + 1 \in 1..Len(q)
        BY <3>1
      <4>2. k + 1 = i
        BY <3>1
      <4> QED BY <4>1, <4>2, <1>2
    <3> QED BY <3>2, <3>3, <3>4
  <2> QED BY <2>1, <2>2
<1>9. ASSUME NEW n, NEW b, Reaches(q, n, b)
      PROVE  Reaches(r, n, b)
  <2>1. PICK i, j \in 1..Len(q) : i <= j /\ q[i] = n /\ q[j] = b
    BY <1>1, <1>9 DEF Reaches
  <2>2. i + 1 \in DOMAIN r /\ j + 1 \in DOMAIN r /\ i + 1 <= j + 1
    BY <2>1, <1>1, <1>3
  <2>3. r[i + 1] = n /\ r[j + 1] = b
    BY <2>1, <1>2
  <2> QED BY <2>2, <2>3 DEF Reaches
<1>10. Leads(r, a, m)
  BY <1>2, <1>3, <1>7, <1>8 DEF Leads
<1>11. InSeq(r) = InSeq(q) \cup {a}
  BY <1>5, <1>6
<1> QED BY <1>2, <1>9, <1>10, <1>11 DEF r

(* The element at k goes: f or the element before it leads on to the next. *)
CutMem(q, m, m2, k) ==
  \A i \in DOMAIN q : i # k =>
    /\ m2[q[i]] # Null
    /\ m2[q[i]].next = IF i = k - 1 THEN m[q[k]].next ELSE m[q[i]].next

CutFirst(q, f, m, k) == IF k = 1 THEN m[q[k]].next ELSE f

LEMMA CutLeads ==
  ASSUME LinkedListAssumption, NEW q, NEW f, NEW m, Leads(q, f, m), NEW k \in DOMAIN q,
         NEW m2, CutMem(q, m, m2, k)
  PROVE  /\ Leads(RemoveAt(q, k), CutFirst(q, f, m, k), m2)
         /\ InSeq(RemoveAt(q, k)) = InSeq(q) \ {q[k]}
         /\ Len(RemoveAt(q, k)) = Len(q) - 1
         /\ \A i \in 1..Len(q) - 1 : RemoveAt(q, k)[i] = IF i < k THEN q[i] ELSE q[i + 1]
         /\ \A n, b : Reaches(q, n, b) /\ b # q[k] =>
              Reaches(RemoveAt(q, k), IF n = q[k] THEN m[q[k]].next ELSE n, b)
<1> DEFINE r == RemoveAt(q, k)
           old(i) == IF i < k THEN i ELSE i + 1
<1> Len(q) \in Nat /\ k \in 1..Len(q)
  BY LeadsFacts
<1>1. /\ DOMAIN q = 1..Len(q)
      /\ f = q[1]
      /\ \A i, j \in 1..Len(q) : q[i] = q[j] => i = j
      /\ \A i \in 1..Len(q) : m[q[i]].next = IF i = Len(q) THEN Null ELSE q[i + 1]
  BY LeadsFacts DEF Leads
<1>2. /\ r \in Seq(Addr) /\ Len(r) = Len(q) - 1
      /\ \A i \in 1..Len(q) - 1 : r[i] = IF i < k THEN q[i] ELSE q[i + 1]
  BY RemoveAtProperties DEF Leads
<1> HIDE DEF r
<1>3. DOMAIN r = 1..Len(q) - 1 /\ (r = <<>> <=> Len(q) = 1)
  <2>1. DOMAIN r = 1..Len(r) /\ (r = <<>> <=> Len(r) = 0)
    BY <1>2, LenProperties, EmptySeq
  <2>2. Len(r) = Len(q) - 1
    BY <1>2
  <2>3. Len(r) = 0 <=> Len(q) = 1
    BY <2>2
  <2> QED BY <2>1, <2>2, <2>3
<1>4. \A i \in 1..Len(q) - 1 : r[i] = q[old(i)] /\ old(i) \in 1..Len(q) /\ old(i) # k
  BY <1>2
<1>5. \A i, j \in 1..Len(q) - 1 : (old(i) = old(j) => i = j) /\ (i <= j => old(i) <= old(j))
  OBVIOUS
<1>6. \A j \in 1..Len(q) : j # k => \E i \in 1..Len(q) - 1 : old(i) = j
  <2> TAKE j \in 1..Len(q)
  <2> HAVE j # k
  <2>1. CASE j < k
    <3>1. j \in 1..Len(q) - 1 /\ old(j) = j
      BY <2>1
    <3> QED BY <3>1
  <2>2. CASE ~(j < k)
    <3>1. j - 1 \in 1..Len(q) - 1 /\ old(j - 1) = j
      BY <2>2
    <3> QED BY <3>1
  <2> QED BY <2>1, <2>2
<1>7. \A i, j \in 1..Len(q) - 1 : old(i) <= old(j) => i <= j
  OBVIOUS
<1>8. \A i \in DOMAIN r, j \in DOMAIN r : r[i] = r[j] => i = j
  <2> HIDE DEF old
  <2> TAKE i \in DOMAIN r, j \in DOMAIN r
  <2> HAVE r[i] = r[j]
  <2>1. i \in 1..Len(q) - 1 /\ j \in 1..Len(q) - 1
    BY <1>3
  <2>2. q[old(i)] = q[old(j)] /\ old(i) \in 1..Len(q) /\ old(j) \in 1..Len(q)
    BY <2>1, <1>4
  <2> QED BY <2>1, <2>2, <1>1, <1>5
<1>9. CutFirst(q, f, m, k) = IF r = <<>> THEN Null ELSE r[1]
  <2>1. CASE k = 1
    <3>1. CutFirst(q, f, m, k) = IF Len(q) = 1 THEN Null ELSE q[2]
      <4>1. m[q[k]].next = IF k = Len(q) THEN Null ELSE q[k + 1]
        BY <1>1
      <4>2. CutFirst(q, f, m, k) = m[q[k]].next
        BY <2>1 DEF CutFirst
      <4> QED BY <2>1, <4>1, <4>2
    <3>2. Len(q) # 1 => Len(q) - 1 >= 1
      <4> PICK n \in Nat : n = Len(q)
        OBVIOUS
      <4>1. n # 0
        OBVIOUS
      <4>2. n # 1 => n - 1 >= 1
        BY ONLY n \in Nat, <4>1
      <4> QED BY <4>2
    <3>3. Len(q) # 1 => r[1] = q[2]
      BY <2>1, <3>2, <1>2
    <3> QED BY <3>1, <3>3, <1>3
  <2>2. CASE k # 1
    <3>1. 1 < k /\ 1 \in 1..Len(q) - 1 /\ Len(q) # 1
      BY <2>2
    <3>2. r[1] = q[1]
      BY <3>1, <1>2
    <3> QED BY <2>2, <3>1, <3>2, <1>1, <1>3 DEF CutFirst
  <2> QED BY <2>1, <2>2
<1>10. ASSUME NEW i \in DOMAIN r
       PROVE  /\ m2[r[i]] # Null
              /\ m2[r[i]].next = IF i = Len(r) THEN Null ELSE r[i + 1]
  <2> i \in 1..Len(q) - 1 /\ Len(r) = Len(q) - 1
    BY <1>2, <1>3
  <2>1. /\ r[i] = q[old(i)] /\ old(i) \in 1..Len(q) /\ old(i) # k
        /\ m2[q[old(i)]] # Null
        /\ m2[q[old(i)]].next = IF old(i) = k - 1 THEN m[q[k]].next ELSE m[q[old(i)]].next
    <3> HIDE DEF old
    <3> QED BY <1>1, <1>4 DEF CutMem
  <2>2. i # Len(r) => i + 1 \in 1..Len(q) - 1
    OBVIOUS
  <2>3. CASE i < k - 1
    <3>1. i < k /\ i + 1 < k /\ i # Len(r) /\ i # Len(q)
      BY <2>3
    <3>2. r[i + 1] = q[i + 1]
      BY <3>1, <2>2, <1>2
    <3>3. m2[r[i]].next = q[i + 1]
      BY <2>1, <2>3, <3>1, <1>1
    <3> QED BY <2>1, <3>1, <3>2, <3>3
  <2>4. CASE i = k - 1
    <3>1. i < k /\ ~(i + 1 < k) /\ i + 1 = k /\ (i = Len(r) <=> k = Len(q))
      BY <2>4
    <3>2. i # Len(r) => r[i + 1] = q[k + 1]
      BY <3>1, <2>2, <1>2
    <3>3. m2[r[i]].next = IF k = Len(q) THEN Null ELSE q[k + 1]
      BY <2>1, <2>4, <3>1, <1>1
    <3> QED BY <2>1, <3>1, <3>2, <3>3
  <2>5. CASE i >= k
    <3>1. ~(i < k) /\ ~(i + 1 < k) /\ (i = Len(r) <=> i + 1 = Len(q)) /\ i + 1 # k - 1
      BY <2>5
    <3>2. i # Len(r) => r[i + 1] = q[i + 1 + 1]
      BY <3>1, <2>2, <1>2
    <3>3. i + 1 \in 1..Len(q)
      OBVIOUS
    <3>4. m2[r[i]].next = IF i + 1 = Len(q) THEN Null ELSE q[i + 1 + 1]
      BY <2>1, <3>1, <3>3, <1>1
    <3> QED BY <2>1, <3>1, <3>2, <3>4
  <2> QED BY <2>3, <2>4, <2>5
<1>11. Leads(r, CutFirst(q, f, m, k), m2)
  BY <1>2, <1>8, <1>9, <1>10 DEF Leads
<1>12. InSeq(r) = InSeq(q) \ {q[k]}
  <2> HIDE DEF old
  <2>1. ASSUME NEW b \in InSeq(r)
        PROVE  b \in InSeq(q) \ {q[k]}
    <3>1. PICK i \in 1..Len(q) - 1 : b = r[i]
      BY <1>3 DEF InSeq
    <3>2. b = q[old(i)] /\ old(i) \in 1..Len(q) /\ old(i) # k
      BY <3>1, <1>4
    <3> QED BY <3>2, <1>1 DEF InSeq
  <2>2. ASSUME NEW b \in InSeq(q) \ {q[k]}
        PROVE  b \in InSeq(r)
    <3>1. PICK j \in 1..Len(q) : b = q[j] /\ j # k
      BY <1>1 DEF InSeq
    <3>2. PICK i \in 1..Len(q) - 1 : old(i) = j
      BY <3>1, <1>6
    <3> QED BY <3>1, <3>2, <1>3, <1>4 DEF InSeq
  <2> QED BY <2>1, <2>2
<1>13. ASSUME NEW n, NEW b, Reaches(q, n, b), b # q[k]
       PROVE  Reaches(r, IF n = q[k] THEN m[q[k]].next ELSE n, b)
  <2>1. PICK i, j \in 1..Len(q) : i <= j /\ q[i] = n /\ q[j] = b
    BY <1>1, <1>13 DEF Reaches
  <2>2. PICK y \in 1..Len(q) - 1 : old(y) = j
    BY <2>1, <1>6, <1>13
  <2>3. r[y] = b
    <3> HIDE DEF old
    <3> QED BY <2>1, <2>2, <1>4
  <2>4. CASE i = k
    <3>1. i < j /\ i # Len(q) /\ k + 1 \in 1..Len(q) /\ k + 1 # k /\ k + 1 <= j
      <4>1. i # j
        BY <2>1, <2>4, <1>13
      <4> QED BY <2>1, <2>4, <4>1
    <3>2. n = q[k] /\ m[q[k]].next = q[k + 1]
      BY <2>1, <2>4, <3>1, <1>1
    <3>3. PICK x \in 1..Len(q) - 1 : old(x) = k + 1
      BY <3>1, <1>6
    <3>4. x <= y
      BY <3>1, <3>3, <2>2, <1>7
    <3>5. r[x] = q[k + 1]
      <4> HIDE DEF old
      <4> QED BY <3>3, <1>4
    <3> QED BY <2>3, <3>2, <3>4, <3>5, <1>3 DEF Reaches
  <2>5. CASE i # k
    <3>1. PICK x \in 1..Len(q) - 1 : old(x) = i
      BY <2>1, <2>5, <1>6
    <3>2. x <= y
      BY <2>1, <2>2, <3>1, <1>7
    <3>3. r[x] = n /\ n # q[k]
      <4> HIDE DEF old
      <4> QED BY <2>1, <2>5, <3>1, <1>1, <1>4
    <3> QED BY <2>3, <3>2, <3>3, <1>3 DEF Reaches
  <2> QED BY <2>4, <2>5
<1> QED BY <1>2, <1>11, <1>12, <1>13 DEF r

-----------------------------------------------------------------------------
(* The list that l->first leads through; what is linked has its value.     *)
ChainInv ==
  /\ Leads(Chain, first, mem)
  /\ \A a \in Linked : mem[a].value # Null

(* One thread at a time is between sem_wait and sem_post. *)
GuardInv ==
  \A th \in Thread : pc[th] \in Inside =>
    guard = 0 /\ \A u \in Thread : pc[u] \in Inside => u = th

SizeInv == size = Len(Chain) + IF \E th \in Thread : pc[th] \in {"clear", "free"} THEN 1 ELSE 0

(* The memory that is in use and not linked is that of the thread inside.  *)
UsedInv ==
  \A a \in Addr : mem[a] # Null /\ a \notin Linked =>
    \E th \in Thread : pc[th] \in {"ladd", "clear", "free"} /\ at[th] = a

Unchanged == [elems |-> Contents(Chain, mem), greatest_key |-> greatest_key, guard |-> 1]

(* What the thread inside has done so far: an element is filled in and not *)
(* linked, or looked for, or no longer linked and not yet freed.           *)
InsideInv(th) ==
  /\ pc[th] \in Inside => arg[th] \in Key
  /\ pc[th] \in {"ladd", "lremove"} => before = Unchanged
  /\ pc[th] \in {"ladd", "clear", "free"} =>
       at[th] \in Addr /\ at[th] \notin Linked /\ mem[at[th]] # Null
  /\ pc[th] = "ladd" =>
       mem[at[th]].key = arg[th] /\ mem[at[th]].value # Null /\ mem[at[th]].next = first
  /\ pc[th] = "lremove" => first # Null
  /\ pc[th] \in {"clear", "free"} =>
       /\ before.elems # <<>>
       /\ Rest(before.elems, arg[th]) = Contents(Chain, mem)
       /\ before.greatest_key = greatest_key
       /\ before.guard = 1

(* A reader is at a linked element unless that was removed meanwhile.      *)
ReadInv(th) ==
  pc[th] \in Reading =>
    /\ at[th] \in Addr
    /\ ~gone[th] => at[th] \in Linked
    /\ pc[th] = "lfind" /\ ~gone[th] => mem[at[th]].value = found[th]

(* A loop without the guard: wherever it is, be it at removed memory that  *)
(* was taken again, its next pointer leads to all it has yet to visit.     *)
LoopInv(th) ==
  pc[th] \in {"loop", "step"} =>
    /\ there[th] \subseteq Linked
    /\ mem[at[th]] # Null =>
         \A a \in there[th] \ visited[th] :
           (pc[th] = "loop" /\ a = at[th]) \/ Reaches(Chain, mem[at[th]].next, a)

ThreadInv == \A th \in Thread : InsideInv(th) /\ ReadInv(th) /\ LoopInv(th)

Inv ==
  /\ TypeOK
  /\ before \in ListOf(Key, Value)
  /\ ChainInv /\ GuardInv /\ SizeInv /\ UsedInv /\ ThreadInv
  /\ FaultsAsKnown

-----------------------------------------------------------------------------
(* What the searches of the code find, in terms of the chain.              *)
LEMMA ContentsType ==
  ASSUME LinkedListAssumption, TypeOK, ChainInv
  PROVE  /\ Contents(Chain, mem) \in Seq(Elem(Key, Value))
         /\ Contents(Chain, mem) \in Seq(Elem(Nat, Value))
         /\ Len(Contents(Chain, mem)) = Len(Chain)
         /\ DOMAIN Contents(Chain, mem) = DOMAIN Chain
<1> DEFINE c == Contents(Chain, mem)
<1>1. Len(Chain) \in Nat /\ DOMAIN Chain = 1..Len(Chain)
  BY LeadsFacts DEF ChainInv
<1>2. \A i \in 1..Len(Chain) : c[i] \in Elem(Key, Value)
  <2> TAKE i \in 1..Len(Chain)
  <2> Linked = InSeq(Chain)
    BY ChainNow DEF ChainInv
  <2> i \in DOMAIN Chain
    BY <1>1
  <2>1. Chain[i] \in Addr /\ mem[Chain[i]] # Null /\ Chain[i] \in Linked
    <3>1. Chain[i] \in Addr
      BY LeadsFacts DEF ChainInv
    <3>2. mem[Chain[i]] # Null
      BY DEF ChainInv, Leads
    <3>3. Chain[i] \in Linked
      BY DEF InSeq
    <3> QED BY <3>1, <3>2, <3>3
  <2>2. mem[Chain[i]] \in Element /\ mem[Chain[i]].value # Null
    BY <2>1 DEF TypeOK, ChainInv
  <2>3. mem[Chain[i]].key \in Key /\ mem[Chain[i]].value \in Value
    BY <2>2 DEF Element
  <2>4. c[i] = [key |-> mem[Chain[i]].key, value |-> mem[Chain[i]].value]
    BY <1>1 DEF Contents
  <2> QED BY <2>3, <2>4 DEF Elem
<1>3. c = [i \in 1..Len(Chain) |-> c[i]]
  BY <1>1 DEF Contents
<1> HIDE DEF c
<1>4. c \in [1..Len(Chain) -> Elem(Key, Value)]
  BY <1>2, <1>3
<1>5. c \in Seq(Elem(Key, Value)) /\ Len(c) = Len(Chain)
  BY <1>1, <1>4, SeqDef, LenProperties
<1>6. Elem(Key, Value) \subseteq Elem(Nat, Value)
  BY DEF Elem, LinkedListAssumption
<1>7. c \in [1..Len(Chain) -> Elem(Nat, Value)]
  BY <1>4, <1>6
<1>8. c \in Seq(Elem(Nat, Value))
  BY <1>1, <1>7, SeqDef
<1> QED BY <1>1, <1>4, <1>5, <1>8 DEF c

LEMMA MatchIs ==
  ASSUME LinkedListAssumption, TypeOK, ChainInv, NEW key,
         NEW k, k = First(Contents(Chain, mem), key)
  PROVE  /\ k = 0 => Match(key) = Null /\ \A i \in DOMAIN Chain : mem[Chain[i]].key # key
         /\ k # 0 => /\ k \in DOMAIN Chain
                     /\ Match(key) = Chain[k]
                     /\ mem[Chain[k]].key = key
                     /\ \A i \in DOMAIN Chain : mem[Chain[i]].key = key => k <= i
<1> DEFINE c == Contents(Chain, mem)
<1>1. c \in Seq(Elem(Key, Value)) /\ DOMAIN c = DOMAIN Chain /\ Len(c) = Len(Chain)
  BY ContentsType
<1>2. \A i \in DOMAIN Chain : c[i].key = mem[Chain[i]].key
  BY DEF Contents
<1>3. DOMAIN Chain = 1..Len(Chain)
  BY LeadsFacts DEF ChainInv
<1> HIDE DEF c
<1>4. SelectInSeq(Chain, LAMBDA a : mem[a].key = key) = First(c, key)
  <2>1. {i \in 1..Len(Chain) : mem[Chain[i]].key = key} = {i \in 1..Len(c) : c[i].key = key}
    BY <1>1, <1>2, <1>3
  <2> QED BY <2>1 DEF SelectInSeq, First
<1>5. k = First(c, key)
  BY DEF c
<1>6. Match(key) = IF k = 0 THEN Null ELSE Chain[k]
  BY <1>4, <1>5 DEF Match
<1> QED BY <1>1, <1>2, <1>5, <1>6, FirstWithKey

LEMMA PreviousIs ==
  ASSUME LinkedListAssumption, ChainInv, NEW k \in DOMAIN Chain, k # 1
  PROVE  /\ k - 1 \in DOMAIN Chain
         /\ Previous(Chain[k]) = Chain[k - 1]
<1>1. Len(Chain) \in Nat /\ DOMAIN Chain = 1..Len(Chain)
  BY LeadsFacts DEF ChainInv
<1>2. k - 1 \in 1..Len(Chain) /\ k - 1 # Len(Chain) /\ k - 1 + 1 = k
  BY <1>1
<1>3. Linked = InSeq(Chain)
  BY ChainNow DEF ChainInv
<1>4. Chain[k - 1] \in Linked /\ mem[Chain[k - 1]].next = Chain[k]
  BY <1>1, <1>2, <1>3 DEF ChainInv, Leads, InSeq
<1>5. ASSUME NEW b \in Linked, mem[b].next = Chain[k]
      PROVE  b = Chain[k - 1]
  <2>1. PICK i \in 1..Len(Chain) : b = Chain[i]
    BY <1>1, <1>3 DEF InSeq
  <2>2. mem[b].next = IF i = Len(Chain) THEN Null ELSE Chain[i + 1]
    BY <2>1, <1>1 DEF ChainInv, Leads
  <2>3. Chain[k] # Null
    BY <1>1, LeadsFacts DEF ChainInv
  <2>4. i # Len(Chain) /\ Chain[i + 1] = Chain[k]
    BY <2>2, <2>3, <1>5
  <2>5. i + 1 \in 1..Len(Chain) /\ k \in 1..Len(Chain)
    <3> Len(Chain) \in Nat /\ i # Len(Chain) /\ k \in 1..Len(Chain)
      BY <1>1, <2>4
    <3> QED OBVIOUS
  <2>6. i + 1 = k
    BY <2>4, <2>5, <1>1 DEF ChainInv, Leads
  <2>7. i = k - 1
    BY <2>6, <2>5, <1>1
  <2> QED BY <2>1, <2>7
<1> QED BY <1>1, <1>2, <1>4, <1>5 DEF Previous

LEMMA RescanIs ==
  ASSUME LinkedListAssumption, TypeOK, ChainInv, NEW key
  PROVE  /\ Rescan(key) = IF key = greatest_key THEN GreatestKey(Contents(Chain, mem))
                          ELSE greatest_key
         /\ Rescan(key) \in Key \cup {-1}
<1> DEFINE c == Contents(Chain, mem)
           keys == {mem[a].key : a \in Linked}
           P(k) == k \in keys \cup {-1} /\ \A j \in keys : j <= k
           g == GreatestKey(c)
<1>1. c \in Seq(Elem(Key, Value)) /\ c \in Seq(Elem(Nat, Value)) /\ DOMAIN c = DOMAIN Chain
  BY ContentsType
<1>2. Linked = InSeq(Chain)
  BY ChainNow DEF ChainInv
<1>3. keys = {c[i].key : i \in DOMAIN c}
  <2>1. \A i \in DOMAIN Chain : c[i].key = mem[Chain[i]].key
    BY DEF Contents
  <2> HIDE DEF c
  <2>2. ASSUME NEW x \in keys
        PROVE  x \in {c[i].key : i \in DOMAIN c}
    BY <1>1, <1>2, <2>1 DEF InSeq
  <2>3. ASSUME NEW x \in {c[i].key : i \in DOMAIN c}
        PROVE  x \in keys
    BY <1>1, <1>2, <2>1 DEF InSeq
  <2> QED BY <2>2, <2>3
<1>4. keys \subseteq Key
  <2> HIDE DEF c
  <2>1. \A i \in DOMAIN c : c[i] \in Elem(Key, Value)
    BY <1>1, ElementOfSeq, LenProperties
  <2> QED BY <1>3, <2>1 DEF Elem
<1>5. P(g)
  <2> HIDE DEF c
  <2>1. g \in {-1} \cup {c[i].key : i \in DOMAIN c} /\ \A i \in DOMAIN c : c[i].key <= g
    BY <1>1, GreatestKeyType
  <2> QED BY <1>3, <2>1
<1>6. \A k : P(k) => k = g
  <2> HIDE DEF g, keys
  <2> SUFFICES ASSUME NEW k, P(k) PROVE k = g
    OBVIOUS
  <2>1. \A j \in keys : j \in Nat
    BY <1>4 DEF LinkedListAssumption
  <2>2. CASE k \in keys /\ g \in keys
    <3>1. k <= g /\ g <= k /\ k \in Nat /\ g \in Nat
      BY <2>1, <2>2, <1>5
    <3> QED BY <3>1
  <2>3. CASE k \notin keys
    <3>1. k = -1 /\ \A j \in keys : j <= -1
      BY <2>3
    <3> QED BY <3>1, <2>1, <1>5
  <2>4. CASE g \notin keys
    <3>1. g = -1 /\ \A j \in keys : j <= -1
      BY <2>4, <1>5
    <3> QED BY <3>1, <2>1
  <2> QED BY <2>2, <2>3, <2>4
<1>7. (CHOOSE k \in keys \cup {-1} : \A j \in keys : j <= k) = g
  <2> HIDE DEF g, keys
  <2> QED BY <1>5, <1>6
<1>8. Rescan(key) = IF key # greatest_key THEN greatest_key ELSE g
  <2> HIDE DEF g
  <2>1. Rescan(key) = IF key # greatest_key THEN greatest_key
                      ELSE CHOOSE k \in keys \cup {-1} : \A j \in keys : j <= k
    BY DEF Rescan
  <2> HIDE DEF keys
  <2> QED BY <1>7, <2>1
<1>9. g \in Key \cup {-1}
  <2> HIDE DEF g, keys
  <2> QED BY <1>4, <1>5
<1> QED BY <1>8, <1>9 DEF TypeOK

LEMMA NowIs ==
  ASSUME LinkedListAssumption, ChainInv, size = Len(Chain)
  PROVE  Now = [elems |-> Contents(Chain, mem), greatest_key |-> greatest_key, guard |-> guard]
BY LeadsFacts DEF ChainInv, Now, Contents

LEMMA NowNext ==
  ASSUME LinkedListAssumption, NEW q, Leads(q, first', mem'), size' = Len(q)
  PROVE  Now' = [elems |-> Contents(q, mem'), greatest_key |-> greatest_key', guard |-> guard']
<1>1. Chain' = q /\ DOMAIN q = 1..Len(q)
  BY ChainNext, LeadsFacts
<1> QED BY <1>1 DEF Now, Contents

-----------------------------------------------------------------------------
(* What the invariant says of the linked elements, ready for use.          *)
LEMMA InvFacts ==
  ASSUME LinkedListAssumption, Inv
  PROVE  /\ Len(Chain) \in Nat /\ DOMAIN Chain = 1..Len(Chain)
         /\ Linked = InSeq(Chain) /\ Linked \subseteq Addr /\ Null \notin Linked
         /\ \A a \in Linked : mem[a] \in Element /\ mem[a] # Null /\ mem[a].value # Null
         /\ first # Null <=> Len(Chain) # 0
         /\ first # Null => first \in Linked /\ first = Chain[1]
         /\ \A i \in DOMAIN Chain : /\ Chain[i] \in Linked
                                    /\ mem[Chain[i]].next = IF i = Len(Chain) THEN Null
                                                            ELSE Chain[i + 1]
         /\ \A i, j \in DOMAIN Chain : Chain[i] = Chain[j] => i = j
<1>1. Leads(Chain, first, mem) /\ \A a \in Linked : mem[a].value # Null
  BY DEF Inv, ChainInv
<1>2. Linked = InSeq(Chain)
  BY <1>1, ChainNow
<1>3. /\ Len(Chain) \in Nat /\ DOMAIN Chain = 1..Len(Chain)
      /\ Linked \subseteq Addr /\ Null \notin Linked
      /\ first # Null <=> Len(Chain) # 0
      /\ first # Null => first \in Linked /\ first = Chain[1]
  BY <1>1, <1>2, LeadsFacts
<1>4. \A i \in DOMAIN Chain : Chain[i] \in Linked
  BY <1>2 DEF InSeq
<1>5. /\ \A i, j \in DOMAIN Chain : Chain[i] = Chain[j] => i = j
      /\ \A i \in DOMAIN Chain : /\ mem[Chain[i]] # Null
                                 /\ mem[Chain[i]].next = IF i = Len(Chain) THEN Null
                                                         ELSE Chain[i + 1]
  BY <1>1 DEF Leads
<1>6. \A a \in Linked : mem[a] # Null
  BY <1>2, <1>5 DEF InSeq
<1>7. \A a \in Linked : mem[a] \in Element
  BY <1>3, <1>6 DEF Inv, TypeOK
<1> QED BY <1>1, <1>2, <1>3, <1>4, <1>5, <1>6, <1>7

(* From l->first every element is reached, from NULL none.                 *)
LEMMA ReachesAll ==
  ASSUME LinkedListAssumption, Inv
  PROVE  /\ \A b \in Linked : Reaches(Chain, first, b)
         /\ \A b : ~Reaches(Chain, Null, b)
         /\ \A b : Reaches(Chain, first, b) =>
              b = first \/ Reaches(Chain, mem[first].next, b)
         /\ \A n \in Addr : \A b : Reaches(Chain, n, b) =>
              n = b \/ Reaches(Chain, mem[n].next, b)
<1> Len(Chain) \in Nat
  BY InvFacts
<1>1. /\ DOMAIN Chain = 1..Len(Chain) /\ Linked = InSeq(Chain) /\ Null \notin Linked
      /\ \A i \in DOMAIN Chain : /\ Chain[i] \in Linked
                                 /\ mem[Chain[i]].next = IF i = Len(Chain) THEN Null
                                                         ELSE Chain[i + 1]
      /\ first # Null <=> Len(Chain) # 0
      /\ first # Null => first \in Linked /\ first = Chain[1]
  BY InvFacts
<1>2. ASSUME NEW b \in Linked
      PROVE  Reaches(Chain, first, b)
  <2>1. PICK j \in 1..Len(Chain) : b = Chain[j]
    BY <1>1 DEF InSeq
  <2>2. 1 \in 1..Len(Chain) /\ 1 <= j /\ Len(Chain) # 0
    BY <2>1
  <2> QED BY <2>1, <2>2, <1>1 DEF Reaches
<1>3. ASSUME NEW b, Reaches(Chain, Null, b)
      PROVE  FALSE
  BY <1>1, <1>3 DEF Reaches
<1>4. ASSUME NEW n, NEW b, Reaches(Chain, n, b)
      PROVE  n = b \/ Reaches(Chain, mem[n].next, b)
  <2>1. PICK i, j \in 1..Len(Chain) : i <= j /\ Chain[i] = n /\ Chain[j] = b
    BY <1>1, <1>4 DEF Reaches
  <2>2. CASE i = j
    BY <2>1, <2>2
  <2>3. CASE i # j
    <3>1. i + 1 \in 1..Len(Chain) /\ i + 1 <= j /\ i # Len(Chain)
      BY <2>1, <2>3
    <3>2. mem[n].next = Chain[i + 1]
      BY <2>1, <3>1, <1>1
    <3> QED BY <2>1, <3>1, <3>2, <1>1 DEF Reaches
  <2> QED BY <2>2, <2>3
<1> QED BY <1>2, <1>3, <1>4

(* The list is as it was when no pointer of its elements is changed.       *)
LEMMA SameChain ==
  ASSUME LinkedListAssumption, Inv, first' = first,
         \A a \in Linked : mem'[a] # Null /\ mem'[a].next = mem[a].next
  PROVE  /\ Leads(Chain, first', mem')
         /\ Chain' = Chain
         /\ Linked' = Linked
<1>1. Linked = InSeq(Chain)
  BY InvFacts
<1>2. Leads(Chain, first, mem)
  BY DEF Inv, ChainInv
<1>3. Leads(Chain, first, mem')
  <2>1. \A a \in InSeq(Chain) : mem'[a] # Null /\ mem'[a].next = mem[a].next
    BY <1>1
  <2>2. PICK q, m2 : q = Chain /\ m2 = mem'
    OBVIOUS
  <2>3. Leads(q, first, mem) /\ \A a \in InSeq(q) : m2[a] # Null /\ m2[a].next = mem[a].next
    BY <1>2, <2>1, <2>2
  <2>4. Leads(q, first, m2)
    BY <2>3, SameLeads
  <2> QED BY <2>2, <2>4
<1>4. Leads(Chain, first', mem')
  BY <1>3
<1>5. PICK q : q = Chain
  OBVIOUS
<1>6. Chain' = q /\ Linked' = InSeq(q)
  BY <1>4, <1>5, ChainNext
<1> QED BY <1>1, <1>4, <1>5, <1>6

(* At sem_wait nobody is inside, and the list is as its callers see it.    *)
LEMMA AtEntry ==
  ASSUME LinkedListAssumption, Inv, guard = 1
  PROVE  /\ \A u \in Thread : pc[u] \notin Inside
         /\ size = Len(Chain)
         /\ Now = Unchanged
         /\ Unchanged \in ListOf(Key, Value)
         /\ \A a \in Addr : mem[a] # Null => a \in Linked
<1>1. \A u \in Thread : pc[u] \notin Inside
  BY DEF Inv, GuardInv
<1>2. Len(Chain) \in Nat
  BY InvFacts
<1>3. size = Len(Chain)
  BY <1>1, <1>2 DEF Inv, SizeInv, Inside
<1>4. Now = Unchanged
  BY <1>3, NowIs DEF Inv, Unchanged
<1>5. Contents(Chain, mem) \in Seq(Elem(Key, Value))
  BY ContentsType DEF Inv
<1>6. Unchanged \in ListOf(Key, Value)
  BY <1>5 DEF Unchanged, ListOf, Elem, Inv, TypeOK
<1>7. \A a \in Addr : mem[a] # Null => a \in Linked
  BY <1>1 DEF Inv, UsedInv, Inside
<1> QED BY <1>1, <1>3, <1>4, <1>6, <1>7

(* A thread that does nothing while the list changes: x leaves it, if      *)
(* anything does, and from where the thread is the rest is still reached.  *)
LEMMA ReaderKept ==
  ASSUME LinkedListAssumption, NEW u \in Thread, ReadInv(u), LoopInv(u),
         NEW x,
         pc'[u] = pc[u], at'[u] = at[u], found'[u] = found[u], visited'[u] = visited[u],
         there'[u] = there[u] \ {x},
         pc[u] \in Reading /\ ~gone'[u] => ~gone[u] /\ at[u] # x,
         Linked \ {x} \subseteq Linked',
         \A a \in Linked \ {x} : mem'[a].value = mem[a].value,
         \A b \in Linked \ {x} :
           /\ at[u] \in Addr /\ mem'[at[u]] # Null
           /\ mem[at[u]] # Null => Reaches(Chain, mem[at[u]].next, b)
           => Reaches(Chain', mem'[at[u]].next, b)
  PROVE  ReadInv(u)' /\ LoopInv(u)'
<1>1. ReadInv(u)'
  BY DEF ReadInv
<1>2. ASSUME pc[u] \in {"loop", "step"}
      PROVE  /\ there'[u] \subseteq Linked'
             /\ mem'[at[u]] # Null =>
                  \A a \in there'[u] \ visited[u] :
                    (pc[u] = "loop" /\ a = at[u]) \/ Reaches(Chain', mem'[at[u]].next, a)
  BY <1>2 DEF LoopInv, ReadInv, Reading
<1>3. LoopInv(u)'
  BY <1>2 DEF LoopInv
<1> QED BY <1>1, <1>3

-----------------------------------------------------------------------------
(* The steps of a thread that does not touch the list, nor has the guard.  *)
Aside(th) ==
  /\ UNCHANGED <<listVars, before>>
  /\ pc[th] \notin Inside /\ pc'[th] \notin Inside
  /\ \A u \in Thread \ {th} :
       /\ pc'[u] = pc[u] /\ at'[u] = at[u] /\ arg'[u] = arg[u] /\ found'[u] = found[u]
       /\ gone'[u] = gone[u] /\ there'[u] = there[u] /\ visited'[u] = visited[u]

LEMMA AsideKeeps ==
  ASSUME LinkedListAssumption, Inv, NEW th \in Thread, Aside(th)
  PROVE  /\ before' \in ListOf(Key, Value)
         /\ ChainInv' /\ GuardInv' /\ SizeInv' /\ UsedInv'
         /\ Chain' = Chain /\ Linked' = Linked
         /\ \A u \in Thread : InsideInv(u)'
         /\ \A u \in Thread \ {th} : ReadInv(u)' /\ LoopInv(u)'
<1> USE DEF Aside, listVars
<1>1. Leads(Chain, first', mem') /\ Chain' = Chain /\ Linked' = Linked
  BY InvFacts, SameChain
<1>2. before' \in ListOf(Key, Value) /\ ChainInv'
  BY <1>1 DEF Inv, ChainInv
<1>3. GuardInv'
  BY DEF Inv, GuardInv
<1>4. SizeInv'
  BY <1>1 DEF Inv, SizeInv, Inside
<1>5. UsedInv'
  <2> SUFFICES ASSUME NEW a \in Addr, mem[a] # Null, a \notin Linked
               PROVE  \E u \in Thread : pc'[u] \in {"ladd", "clear", "free"} /\ at'[u] = a
    BY <1>1 DEF UsedInv
  <2>1. PICK u \in Thread : pc[u] \in {"ladd", "clear", "free"} /\ at[u] = a
    BY DEF Inv, UsedInv
  <2> QED BY <2>1 DEF Inside
<1>6. ASSUME NEW u \in Thread
      PROVE  InsideInv(u)'
  <2>1. CASE u = th
    BY <2>1 DEF InsideInv, Inside
  <2>2. CASE u # th
    <3>1. InsideInv(u) /\ Unchanged' = Unchanged /\ Contents(Chain, mem)' = Contents(Chain, mem)
      BY <1>1 DEF Inv, ThreadInv, Unchanged, Contents
    <3> QED BY <2>2, <3>1, <1>1 DEF InsideInv
  <2> QED BY <2>1, <2>2
<1>7. ASSUME NEW u \in Thread, u # th
      PROVE  ReadInv(u)' /\ LoopInv(u)'
  <2>1. ReadInv(u) /\ LoopInv(u)
    BY DEF Inv, ThreadInv
  <2>2. ReadInv(u)'
    BY <2>1, <1>1, <1>7 DEF ReadInv
  <2>3. LoopInv(u)'
    BY <2>1, <1>1, <1>7 DEF LoopInv
  <2> QED BY <2>2, <2>3
<1> QED BY <1>1, <1>2, <1>3, <1>4, <1>5, <1>6, <1>7

LEMMA FindKeeps ==
  ASSUME LinkedListAssumption, Inv, fault = Null, NEW th \in Thread, NEW key \in Key, Find(th, key)
  PROVE  Inv'
<1>1. /\ pc[th] = "idle" /\ TypeOK /\ calls < MaxCalls /\ calls' = calls + 1
      /\ UNCHANGED <<listVars, arg, before, loopVars, fault>>
      /\ gone' = [gone EXCEPT ![th] = FALSE]
  BY DEF Find, Call, Inv
<1>2. PICK k : k = First(Contents(Chain, mem), key)
  OBVIOUS
<1>3. /\ k = 0 => Match(key) = Null
      /\ k # 0 => k \in DOMAIN Chain /\ Match(key) = Chain[k]
  BY <1>1, <1>2, MatchIs DEF Inv
<1>4. Match(key) = Null \/ Match(key) \in Linked
  BY <1>3, InvFacts
<1>5. CASE Match(key) = Null
  <2>1. answer' = [answer EXCEPT ![th] = Null] /\ UNCHANGED <<pc, at, found>>
    BY <1>5 DEF Find
  <2>2. Aside(th)
    BY <1>1, <2>1 DEF Aside, TypeOK, Inside, listVars, loopVars
  <2>3. TypeOK'
    BY <1>1, <2>1 DEF TypeOK, LinkedListAssumption, listVars, loopVars
  <2>4. ReadInv(th)' /\ LoopInv(th)'
    BY <1>1, <2>1 DEF ReadInv, LoopInv, Reading
  <2> QED BY <1>1, <2>2, <2>3, <2>4, AsideKeeps DEF Inv, ThreadInv, FaultsAsKnown
<1>6. CASE Match(key) # Null
  <2> DEFINE a == Match(key)
  <2>1. /\ at' = [at EXCEPT ![th] = a]
        /\ found' = [found EXCEPT ![th] = mem[a].value]
        /\ pc' = [pc EXCEPT ![th] = "lfind"]
        /\ UNCHANGED answer
    BY <1>6 DEF Find
  <2>2. a \in Linked /\ a \in Addr /\ mem[a] \in Element
    BY <1>4, <1>6, InvFacts
  <2> HIDE DEF a
  <2>3. Aside(th)
    BY <1>1, <2>1 DEF Aside, TypeOK, Inside, listVars, loopVars
  <2>4. TypeOK'
    BY <1>1, <2>1, <2>2 DEF TypeOK, Element, Reading, LinkedListAssumption, listVars, loopVars
  <2>5. Linked' = Linked
    BY <2>3, AsideKeeps
  <2>6. ReadInv(th)' /\ LoopInv(th)'
    BY <1>1, <2>1, <2>2, <2>5 DEF ReadInv, LoopInv, TypeOK, listVars
  <2> QED BY <1>1, <2>3, <2>4, <2>6, AsideKeeps DEF Inv, ThreadInv, FaultsAsKnown
<1> QED BY <1>5, <1>6

(* A thread fails at an element that was removed while it was there.       *)
LEMMA FailKeeps ==
  ASSUME LinkedListAssumption, Inv, NEW th \in Thread, pc[th] \in Reading, Fail(th),
         mem[at[th]] = Null \/ mem[at[th]].value = Null
  PROVE  Inv'
<1>1. TypeOK /\ fault' = th
      /\ UNCHANGED <<listVars, pc, at, arg, answer, before, found, gone, loopVars, calls>>
  BY DEF Fail, Inv
<1>2. gone[th]
  <2>1. ReadInv(th)
    BY DEF Inv, ThreadInv
  <2> QED BY <2>1, InvFacts DEF ReadInv
<1>3. Aside(th)
  BY <1>1 DEF Aside, Inside, Reading, listVars, loopVars
<1>4. TypeOK'
  BY <1>1 DEF TypeOK, listVars, loopVars
<1>5. Chain' = Chain /\ Linked' = Linked
  BY <1>3, AsideKeeps
<1>6. ReadInv(th)' /\ LoopInv(th)'
  <2>1. ReadInv(th) /\ LoopInv(th)
    BY DEF Inv, ThreadInv
  <2> QED BY <2>1, <1>1, <1>5 DEF ReadInv, LoopInv, listVars, loopVars
<1> QED BY <1>1, <1>2, <1>3, <1>4, <1>6, AsideKeeps DEF Inv, ThreadInv, FaultsAsKnown

LEMMA ReturnKeeps ==
  ASSUME LinkedListAssumption, Inv, fault = Null, NEW th \in Thread, Return(th)
  PROVE  Inv'
<1>1. CASE mem[at[th]] = Null
  BY <1>1, FailKeeps DEF Return, Reading
<1>2. CASE mem[at[th]] # Null
  <2>1. /\ pc[th] = "lfind" /\ TypeOK
        /\ answer' = [answer EXCEPT ![th] = mem[at[th]].value]
        /\ pc' = [pc EXCEPT ![th] = "idle"]
        /\ at' = [at EXCEPT ![th] = Null]
        /\ UNCHANGED <<listVars, arg, before, found, gone, loopVars, calls, fault>>
    BY <1>2 DEF Return, Inv
  <2>2. at[th] \in Addr
    BY <2>1 DEF Inv, ThreadInv, ReadInv, Reading
  <2>3. mem[at[th]].value \in Value \cup {Null}
    BY <1>2, <2>1, <2>2 DEF TypeOK, Element
  <2>4. Aside(th)
    BY <2>1 DEF Aside, TypeOK, Inside, listVars, loopVars
  <2>5. TypeOK'
    BY <2>1, <2>3 DEF TypeOK, listVars, loopVars
  <2>6. ReadInv(th)' /\ LoopInv(th)'
    BY <2>1 DEF ReadInv, LoopInv, TypeOK, Reading
  <2> QED BY <2>1, <2>4, <2>5, <2>6, AsideKeeps DEF Inv, ThreadInv, FaultsAsKnown
<1> QED BY <1>1, <1>2

LEMMA LoopKeeps ==
  ASSUME LinkedListAssumption, Inv, fault = Null, NEW th \in Thread, Loop(th)
  PROVE  Inv'
<1>1. /\ pc[th] = "idle" /\ TypeOK /\ calls < MaxCalls /\ calls' = calls + 1
      /\ first # Null
      /\ at' = [at EXCEPT ![th] = first]
      /\ gone' = [gone EXCEPT ![th] = FALSE]
      /\ there' = [there EXCEPT ![th] = Linked]
      /\ visited' = [visited EXCEPT ![th] = {}]
      /\ pc' = [pc EXCEPT ![th] = "loop"]
      /\ UNCHANGED <<listVars, arg, answer, before, found, fault>>
  BY DEF Loop, Call, Inv
<1>2. first \in Linked /\ first \in Addr /\ Linked \subseteq Addr
  BY <1>1, InvFacts
<1>3. Aside(th)
  BY <1>1 DEF Aside, TypeOK, Inside, listVars
<1>4. TypeOK'
  <2>1. there' \in [Thread -> SUBSET Addr] /\ visited' \in [Thread -> SUBSET Addr]
    BY <1>1, <1>2 DEF TypeOK
  <2> QED BY <1>1, <1>2, <2>1 DEF TypeOK, Reading, LinkedListAssumption, listVars
<1>5. Chain' = Chain /\ Linked' = Linked
  BY <1>3, AsideKeeps
<1>6. ReadInv(th)'
  BY <1>1, <1>2, <1>5 DEF ReadInv, TypeOK
<1>7. /\ pc'[th] = "loop" /\ at'[th] = first /\ mem' = mem
      /\ there'[th] = Linked /\ visited'[th] = {}
  BY <1>1 DEF TypeOK, listVars
<1>8. \A b \in Linked : b = first \/ Reaches(Chain, mem[first].next, b)
  BY ReachesAll
<1>9. LoopInv(th)'
  BY <1>5, <1>7, <1>8 DEF LoopInv
<1> QED BY <1>1, <1>3, <1>4, <1>6, <1>9, AsideKeeps DEF Inv, ThreadInv, FaultsAsKnown

LEMMA BodyKeeps ==
  ASSUME LinkedListAssumption, Inv, fault = Null, NEW th \in Thread, Body(th)
  PROVE  Inv'
<1>1. CASE mem[at[th]] = Null \/ mem[at[th]].value = Null
  BY <1>1, FailKeeps DEF Body, Reading
<1>2. CASE ~(mem[at[th]] = Null \/ mem[at[th]].value = Null)
  <2>1. /\ pc[th] = "loop" /\ TypeOK
        /\ visited' = [visited EXCEPT ![th] = @ \cup {at[th]}]
        /\ pc' = [pc EXCEPT ![th] = "step"]
        /\ UNCHANGED <<listVars, at, arg, answer, before, found, gone, there, calls, fault>>
    BY <1>2 DEF Body, Inv
  <2>2. ReadInv(th) /\ LoopInv(th) /\ at[th] \in Addr
    BY <2>1 DEF Inv, ThreadInv, ReadInv, Reading
  <2>3. Aside(th)
    BY <2>1 DEF Aside, TypeOK, Inside, listVars
  <2>4. visited[th] \subseteq Addr /\ visited'[th] = visited[th] \cup {at[th]}
    BY <2>1 DEF TypeOK
  <2>5. TypeOK'
    <3>1. visited' \in [Thread -> SUBSET Addr]
      BY <2>1, <2>2, <2>4 DEF TypeOK
    <3> QED BY <2>1, <3>1 DEF TypeOK, Reading, listVars
  <2>6. Chain' = Chain /\ Linked' = Linked
    BY <2>3, AsideKeeps
  <2>7. pc'[th] = "step" /\ mem' = mem
    BY <2>1 DEF TypeOK, listVars
  <2>8. ReadInv(th)'
    BY <2>1, <2>2, <2>6, <2>7 DEF ReadInv, Reading
  <2>9. LoopInv(th)'
    BY <2>1, <2>2, <2>4, <2>6, <2>7 DEF LoopInv
  <2> QED BY <2>1, <2>3, <2>5, <2>8, <2>9, AsideKeeps DEF Inv, ThreadInv, FaultsAsKnown
<1> QED BY <1>1, <1>2

LEMMA StepKeeps ==
  ASSUME LinkedListAssumption, Inv, fault = Null, NEW th \in Thread, Step(th)
  PROVE  Inv'
<1>1. CASE mem[at[th]] = Null
  BY <1>1, FailKeeps DEF Step, Reading
<1>2. CASE mem[at[th]] # Null
  <2> DEFINE next == mem[at[th]].next
  <2>1. /\ pc[th] = "step" /\ TypeOK
        /\ at' = [at EXCEPT ![th] = next]
        /\ gone' = [gone EXCEPT ![th] = next # Null /\ next \notin Linked]
        /\ pc' = [pc EXCEPT ![th] = IF next = Null THEN "idle" ELSE "loop"]
        /\ UNCHANGED <<listVars, arg, answer, before, found, loopVars, calls, fault>>
    BY <1>2 DEF Step, Inv
  <2>2. ReadInv(th) /\ LoopInv(th) /\ at[th] \in Addr
    BY <2>1 DEF Inv, ThreadInv, ReadInv, Reading
  <2>3. next \in Addr \cup {Null}
    BY <1>2, <2>1, <2>2 DEF TypeOK, Element
  <2> HIDE DEF next
  <2>4. Aside(th)
    BY <2>1 DEF Aside, TypeOK, Inside, listVars, loopVars
  <2>5. TypeOK'
    BY <2>1, <2>3 DEF TypeOK, Reading, listVars, loopVars
  <2>6. Chain' = Chain /\ Linked' = Linked
    BY <2>4, AsideKeeps
  <2>7. /\ pc'[th] = IF next = Null THEN "idle" ELSE "loop"
        /\ at'[th] = next /\ mem' = mem
        /\ gone'[th] = (next # Null /\ next \notin Linked)
        /\ there'[th] = there[th] /\ visited'[th] = visited[th]
    BY <2>1 DEF TypeOK, listVars, loopVars
  <2>8. ReadInv(th)'
    BY <2>3, <2>6, <2>7 DEF ReadInv, Reading
  <2>9. LoopInv(th)'
    <3> SUFFICES ASSUME next # Null
                 PROVE  /\ there[th] \subseteq Linked
                        /\ mem[next] # Null =>
                             \A a \in there[th] \ visited[th] :
                               a = next \/ Reaches(Chain, mem[next].next, a)
      BY <2>6, <2>7 DEF LoopInv
    <3>1. /\ there[th] \subseteq Linked
          /\ \A a \in there[th] \ visited[th] : Reaches(Chain, next, a)
      BY <1>2, <2>1, <2>2 DEF LoopInv, next
    <3> QED BY <2>3, <3>1, ReachesAll
  <2> QED BY <2>1, <2>4, <2>5, <2>8, <2>9, AsideKeeps DEF Inv, ThreadInv, FaultsAsKnown
<1> QED BY <1>1, <1>2

-----------------------------------------------------------------------------
(* The steps of the thread that has the guard, or takes it.  The others    *)
(* are outside and stay where they are.                                    *)
Within(th) ==
  /\ pc[th] \notin Reading /\ pc'[th] \notin Reading
  /\ \A u \in Thread \ {th} :
       /\ pc[u] \notin Inside
       /\ pc'[u] = pc[u] /\ at'[u] = at[u] /\ found'[u] = found[u]
  /\ visited' = visited

LEMMA WithinKeeps ==
  ASSUME NEW th \in Thread, Within(th)
  PROVE  /\ (pc'[th] \in Inside => guard' = 0) => GuardInv'
         /\ \A u \in Thread \ {th} : InsideInv(u)'
         /\ ReadInv(th)' /\ LoopInv(th)'
<1>1. ASSUME pc'[th] \in Inside => guard' = 0
      PROVE  GuardInv'
  BY <1>1 DEF GuardInv, Within
<1>2. \A u \in Thread \ {th} : InsideInv(u)'
  BY DEF InsideInv, Within, Inside
<1>3. ReadInv(th)' /\ LoopInv(th)'
  BY DEF ReadInv, LoopInv, Within, Reading
<1> QED BY <1>1, <1>2, <1>3

(* Readers do not notice what leaves the list and its values alone; only   *)
(* a, if it was free, may have been filled in, or not linked and freed.    *)
LEMMA ReadersStay ==
  ASSUME LinkedListAssumption, Inv, NEW th \in Thread, Within(th),
         UNCHANGED <<gone, there>>,
         Linked \subseteq Linked',
         NEW a, a \notin Linked,
         \A b \in Addr \ {a} : mem'[b] = mem[b],
         mem'[a] # Null => \/ mem[a] # Null /\ mem'[a].next = mem[a].next
                           \/ mem'[a].next = first,
         \A n, b : Reaches(Chain, n, b) => Reaches(Chain', n, b)
  PROVE  \A u \in Thread \ {th} : ReadInv(u)' /\ LoopInv(u)'
<1> TAKE u \in Thread \ {th}
<1>1. ReadInv(u) /\ LoopInv(u)
  BY DEF Inv, ThreadInv
<1>2. there[u] \subseteq Addr /\ Null \notin Addr
  BY DEF Inv, TypeOK, LinkedListAssumption
<1>3. /\ pc'[u] = pc[u] /\ at'[u] = at[u] /\ found'[u] = found[u] /\ visited'[u] = visited[u]
      /\ there'[u] = there[u] \ {Null} /\ gone'[u] = gone[u]
  BY <1>2 DEF Within
<1>4. pc[u] \in Reading => at[u] # Null
  BY <1>1, <1>2 DEF ReadInv
<1>5. \A b \in Linked : mem'[b].value = mem[b].value
  BY InvFacts
<1>6. ASSUME NEW b \in Linked, at[u] \in Addr, mem'[at[u]] # Null,
             mem[at[u]] # Null => Reaches(Chain, mem[at[u]].next, b)
      PROVE  Reaches(Chain', mem'[at[u]].next, b)
  <2>1. Reaches(Chain, mem'[at[u]].next, b)
    BY <1>6, ReachesAll
  <2> QED BY <2>1
<1> QED BY <1>1, <1>3, <1>4, <1>5, <1>6, ReaderKept

LEMMA AllocateKeeps ==
  ASSUME LinkedListAssumption, Inv, fault = Null, NEW th \in Thread,
         NEW a \in Addr, NEW key \in Key, NEW value \in Value, Allocate(th, a, key, value)
  PROVE  Inv'
<1>1. /\ pc[th] = "idle" /\ TypeOK /\ calls < MaxCalls /\ calls' = calls + 1
      /\ guard = 1 /\ guard' = 0 /\ before' = Now
      /\ mem[a] = Null
      /\ mem' = [mem EXCEPT ![a] = [key |-> key, value |-> value, next |-> first]]
      /\ at' = [at EXCEPT ![th] = a]
      /\ arg' = [arg EXCEPT ![th] = key]
      /\ pc' = [pc EXCEPT ![th] = "ladd"]
      /\ UNCHANGED <<first, size, greatest_key, answer, found, gone, loopVars, fault>>
  BY DEF Allocate, Enter, Call, Filled, Inv
<1>2. a \notin Linked
  BY <1>1, InvFacts
<1>3. /\ mem'[a] = [key |-> key, value |-> value, next |-> first]
      /\ \A b \in Addr \ {a} : mem'[b] = mem[b]
      /\ mem'[a] \in Element /\ mem'[a] # Null /\ value # Null
  <2>1. mem'[a] = [key |-> key, value |-> value, next |-> first]
    BY <1>1 DEF TypeOK
  <2>2. mem'[a] \in Element
    BY <1>1, <2>1 DEF Element, TypeOK
  <2>3. mem'[a] # Null /\ value # Null
    BY <2>2 DEF LinkedListAssumption
  <2> QED BY <1>1, <2>1, <2>2, <2>3 DEF TypeOK
<1>4. Leads(Chain, first', mem') /\ Chain' = Chain /\ Linked' = Linked
  BY <1>1, <1>2, <1>3, InvFacts, SameChain
<1>5. /\ \A u \in Thread : pc[u] \notin Inside
      /\ size = Len(Chain)
      /\ Now = Unchanged
      /\ Unchanged \in ListOf(Key, Value)
      /\ \A b \in Addr : mem[b] # Null => b \in Linked
  BY <1>1, AtEntry
<1>6. TypeOK'
  <2>1. mem' \in [Addr -> Element \cup {Null}]
    BY <1>1, <1>3 DEF TypeOK
  <2> QED BY <1>1, <2>1 DEF TypeOK, Inside, LinkedListAssumption, loopVars
<1>7. before' \in ListOf(Key, Value)
  BY <1>1, <1>5
<1>8. ChainInv'
  BY <1>2, <1>3, <1>4, InvFacts DEF Inv, ChainInv
<1>9. /\ pc'[th] = "ladd" /\ at'[th] = a /\ arg'[th] = key
      /\ \A u \in Thread \ {th} : pc'[u] = pc[u] /\ at'[u] = at[u]
  BY <1>1 DEF TypeOK
<1>10. Within(th)
  BY <1>1, <1>5, <1>9 DEF Within, Reading, loopVars
<1>11. SizeInv'
  BY <1>1, <1>4, <1>5, <1>9, InvFacts DEF SizeInv, Inside
<1>12. UsedInv'
  BY <1>3, <1>4, <1>5, <1>9 DEF UsedInv
<1>13. Unchanged' = Unchanged
  <2>1. Linked = InSeq(Chain) /\ \A b \in Linked : mem'[b] = mem[b]
    BY <1>2, <1>3, InvFacts
  <2>2. PICK q, m2 : q = Chain /\ m2 = mem'
    OBVIOUS
  <2>3. \A b \in InSeq(q) : m2[b].key = mem[b].key /\ m2[b].value = mem[b].value
    BY <2>1, <2>2
  <2>4. Contents(q, m2) = Contents(q, mem)
    BY <2>3, SameContents
  <2>5. Contents(Chain, mem)' = Contents(Chain, mem)
    BY <1>4, <2>2, <2>4 DEF Contents
  <2> QED BY <1>1, <2>5 DEF Unchanged
<1>14. InsideInv(th)'
  <2>1. before' = Unchanged'
    BY <1>1, <1>5, <1>13
  <2> QED BY <1>1, <1>2, <1>3, <1>4, <1>9, <2>1 DEF InsideInv
<1>15. \A u \in Thread \ {th} : ReadInv(u)' /\ LoopInv(u)'
  <2>1. \A n, b : Reaches(Chain, n, b) => Reaches(Chain', n, b)
    BY <1>4
  <2>2. mem'[a].next = first
    BY <1>3
  <2>3. UNCHANGED <<gone, there>> /\ Linked \subseteq Linked'
    BY <1>1, <1>4 DEF loopVars
  <2> QED BY <1>2, <1>3, <1>10, <2>1, <2>2, <2>3, ReadersStay
<1> QED BY <1>1, <1>6, <1>7, <1>8, <1>10, <1>11, <1>12, <1>14, <1>15, WithinKeeps
       DEF Inv, ThreadInv, FaultsAsKnown

(* What holds while a thread has the guard. *)
LEMMA HasGuard ==
  ASSUME LinkedListAssumption, Inv, NEW th \in Thread, pc[th] \in Inside
  PROVE  /\ guard = 0 /\ arg[th] \in Key /\ pc[th] \notin Reading
         /\ \A u \in Thread \ {th} : pc[u] \notin Inside
         /\ size = Len(Chain) + IF pc[th] \in {"clear", "free"} THEN 1 ELSE 0
         /\ \A a \in Addr : mem[a] # Null =>
              a \in Linked \/ (pc[th] \in {"ladd", "clear", "free"} /\ a = at[th])
         /\ InsideInv(th)
         /\ Contents(Chain, mem) \in Seq(Elem(Key, Value))
<1>1. guard = 0 /\ \A u \in Thread \ {th} : pc[u] \notin Inside
  BY DEF Inv, GuardInv
<1>2. InsideInv(th) /\ arg[th] \in Key
  BY DEF Inv, ThreadInv, InsideInv
<1>3. size = Len(Chain) + IF pc[th] \in {"clear", "free"} THEN 1 ELSE 0
  <2>1. (\E u \in Thread : pc[u] \in {"clear", "free"}) <=> pc[th] \in {"clear", "free"}
    BY <1>1 DEF Inside
  <2> QED BY <2>1 DEF Inv, SizeInv
<1>4. \A a \in Addr : mem[a] # Null =>
        a \in Linked \/ (pc[th] \in {"ladd", "clear", "free"} /\ a = at[th])
  BY <1>1 DEF Inv, UsedInv, Inside
<1>5. Contents(Chain, mem) \in Seq(Elem(Key, Value))
  BY ContentsType DEF Inv
<1> QED BY <1>1, <1>2, <1>3, <1>4, <1>5 DEF Inside, Reading

LEMMA LinkKeeps ==
  ASSUME LinkedListAssumption, Inv, fault = Null, NEW th \in Thread, Link(th)
  PROVE  /\ Inv'
         /\ Chain' = Cons(at[th], Chain)
<1>1. /\ pc[th] = "ladd" /\ TypeOK
      /\ first' = at[th] /\ size' = size + 1
      /\ greatest_key' = IF arg[th] > greatest_key THEN arg[th] ELSE greatest_key
      /\ guard' = 1
      /\ pc' = [pc EXCEPT ![th] = "idle"]
      /\ at' = [at EXCEPT ![th] = Null]
      /\ arg' = [arg EXCEPT ![th] = -1]
      /\ UNCHANGED <<mem, answer, before, found, gone, loopVars, calls, fault>>
  BY DEF Link, Leave, Inv
<1> DEFINE a == at[th]
<1>2. /\ guard = 0 /\ arg[th] \in Key /\ pc[th] \notin Reading
      /\ \A u \in Thread \ {th} : pc[u] \notin Inside
      /\ size = Len(Chain)
      /\ \A b \in Addr : mem[b] # Null => b \in Linked \/ b = a
      /\ InsideInv(th)
  <2>1. Len(Chain) \in Nat
    BY InvFacts
  <2>2. pc[th] \in Inside /\ pc[th] \notin {"clear", "free"}
    BY <1>1 DEF Inside
  <2> QED BY <2>1, <2>2, HasGuard
<1>3. /\ a \in Addr /\ a \notin Linked /\ mem[a] # Null
      /\ mem[a].next = first /\ mem[a].value # Null
  BY <1>1, <1>2 DEF InsideInv
<1> HIDE DEF a
<1>4. /\ Leads(Cons(a, Chain), first', mem')
      /\ InSeq(Cons(a, Chain)) = Linked \cup {a}
      /\ Len(Cons(a, Chain)) = Len(Chain) + 1
      /\ \A n, b : Reaches(Chain, n, b) => Reaches(Cons(a, Chain), n, b)
  <2>1. PICK q : q = Chain
    OBVIOUS
  <2>2. Leads(q, first, mem) /\ Linked = InSeq(q)
    BY <2>1, InvFacts DEF Inv, ChainInv
  <2>3. /\ Leads(Cons(a, q), a, mem)
        /\ InSeq(Cons(a, q)) = InSeq(q) \cup {a}
        /\ Len(Cons(a, q)) = Len(q) + 1
        /\ \A n, b : Reaches(q, n, b) => Reaches(Cons(a, q), n, b)
    BY <1>3, <2>2, PushLeads
  <2>4. first' = a /\ mem' = mem
    BY <1>1 DEF a
  <2> QED BY <2>1, <2>2, <2>3, <2>4
<1>5. Chain' = Cons(a, Chain) /\ Linked' = Linked \cup {a}
  <2>1. PICK q : q = Cons(a, Chain)
    OBVIOUS
  <2>2. Chain' = q /\ Linked' = InSeq(q)
    BY <1>4, <2>1, ChainNext
  <2> QED BY <1>4, <2>1, <2>2
<1>6. /\ pc'[th] = "idle"
      /\ \A u \in Thread \ {th} : pc'[u] = pc[u] /\ at'[u] = at[u]
  BY <1>1 DEF TypeOK
<1>7. Within(th)
  BY <1>1, <1>2, <1>6 DEF Within, Reading, loopVars
<1>8. TypeOK'
  <2>1. arg[th] \in Nat /\ greatest_key' \in Key \cup {-1}
    BY <1>1, <1>2 DEF TypeOK, LinkedListAssumption
  <2> QED BY <1>1, <1>3, <2>1 DEF TypeOK, a, loopVars
<1>9. ChainInv'
  BY <1>1, <1>3, <1>4, <1>5, InvFacts DEF ChainInv
<1>10. SizeInv'
  <2>1. Len(Chain) \in Nat /\ Len(Chain') = Len(Chain) + 1 /\ size' = Len(Chain) + 1
    BY <1>1, <1>2, <1>4, <1>5, InvFacts
  <2>2. ~\E u \in Thread : pc'[u] \in {"clear", "free"}
    BY <1>2, <1>6 DEF Inside
  <2> QED BY <2>1, <2>2 DEF SizeInv
<1>11. UsedInv'
  BY <1>1, <1>2, <1>5 DEF UsedInv
<1>12. InsideInv(th)'
  BY <1>6 DEF InsideInv, Inside
<1>13. \A u \in Thread \ {th} : ReadInv(u)' /\ LoopInv(u)'
  <2>1. UNCHANGED <<gone, there>> /\ Linked \subseteq Linked' /\ mem' = mem
    BY <1>1, <1>5 DEF loopVars
  <2>2. \A n, b : Reaches(Chain, n, b) => Reaches(Chain', n, b)
    BY <1>4, <1>5
  <2> QED BY <1>3, <1>7, <2>1, <2>2, ReadersStay
<1>14. Inv'
  BY <1>1, <1>6, <1>7, <1>8, <1>9, <1>10, <1>11, <1>12, <1>13, WithinKeeps
     DEF Inv, ThreadInv, FaultsAsKnown, Inside
<1> QED BY <1>5, <1>14 DEF a

LEMMA RemoveNothingKeeps ==
  ASSUME LinkedListAssumption, Inv, fault = Null, NEW th \in Thread, RemoveNothing(th)
  PROVE  Inv'
<1>1. /\ pc[th] = "idle" /\ TypeOK /\ calls < MaxCalls /\ calls' = calls + 1
      /\ guard = 1 /\ guard' = 0 /\ before' = Now
      /\ UNCHANGED <<mem, first, size, greatest_key, pc, at, arg, answer, found, gone,
                     loopVars, fault>>
  BY DEF RemoveNothing, Enter, Call, Inv
<1>2. /\ \A u \in Thread : pc[u] \notin Inside
      /\ Now = Unchanged
      /\ Unchanged \in ListOf(Key, Value)
  BY <1>1, AtEntry
<1>3. Leads(Chain, first', mem') /\ Chain' = Chain /\ Linked' = Linked
  BY <1>1, InvFacts, SameChain
<1>4. TypeOK'
  BY <1>1 DEF TypeOK, LinkedListAssumption, loopVars
<1>5. ChainInv' /\ GuardInv' /\ SizeInv' /\ UsedInv'
  BY <1>1, <1>2, <1>3, InvFacts DEF Inv, ChainInv, GuardInv, SizeInv, UsedInv
<1>6. \A u \in Thread : InsideInv(u)'
  BY <1>1, <1>2 DEF InsideInv, Inside
<1>7. \A u \in Thread : ReadInv(u)' /\ LoopInv(u)'
  BY <1>1, <1>3 DEF Inv, ThreadInv, ReadInv, LoopInv, loopVars
<1> QED BY <1>1, <1>2, <1>4, <1>5, <1>6, <1>7 DEF Inv, ThreadInv, FaultsAsKnown

LEMMA RemoveKeyKeeps ==
  ASSUME LinkedListAssumption, Inv, fault = Null, NEW th \in Thread, NEW key \in Key,
         RemoveKey(th, key)
  PROVE  Inv'
<1>1. /\ pc[th] = "idle" /\ TypeOK /\ calls < MaxCalls /\ calls' = calls + 1
      /\ guard = 1 /\ guard' = 0 /\ before' = Now
      /\ first # Null
      /\ arg' = [arg EXCEPT ![th] = key]
      /\ pc' = [pc EXCEPT ![th] = "lremove"]
      /\ UNCHANGED <<mem, first, size, greatest_key, at, answer, found, gone, loopVars, fault>>
  BY DEF RemoveKey, Enter, Call, Inv
<1>2. /\ \A u \in Thread : pc[u] \notin Inside
      /\ size = Len(Chain)
      /\ Now = Unchanged
      /\ Unchanged \in ListOf(Key, Value)
      /\ \A a \in Addr : mem[a] # Null => a \in Linked
  BY <1>1, AtEntry
<1>3. Leads(Chain, first', mem') /\ Chain' = Chain /\ Linked' = Linked
  BY <1>1, InvFacts, SameChain
<1>4. /\ pc'[th] = "lremove" /\ arg'[th] = key
      /\ \A u \in Thread \ {th} : pc'[u] = pc[u] /\ at'[u] = at[u]
  BY <1>1 DEF TypeOK
<1>5. Within(th)
  BY <1>1, <1>2, <1>4 DEF Within, Reading, loopVars
<1>6. TypeOK'
  BY <1>1 DEF TypeOK, Inside, LinkedListAssumption, loopVars
<1>7. ChainInv' /\ UsedInv'
  BY <1>1, <1>2, <1>3, InvFacts DEF ChainInv, UsedInv
<1>8. SizeInv'
  BY <1>1, <1>2, <1>3, <1>4, InvFacts DEF SizeInv, Inside
<1>9. InsideInv(th)'
  <2>1. before' = Unchanged'
    BY <1>1, <1>2, <1>3 DEF Unchanged, Contents
  <2> QED BY <1>1, <1>4, <2>1 DEF InsideInv
<1>10. \A u \in Thread \ {th} : ReadInv(u)' /\ LoopInv(u)'
  <2>1. \A n, b : Reaches(Chain, n, b) => Reaches(Chain', n, b)
    BY <1>3
  <2>2. UNCHANGED <<gone, there>> /\ Linked \subseteq Linked' /\ mem' = mem /\ Null \notin Linked
    BY <1>1, <1>3, InvFacts DEF loopVars
  <2> QED BY <1>5, <2>1, <2>2, ReadersStay
<1> QED BY <1>1, <1>2, <1>5, <1>6, <1>7, <1>8, <1>9, <1>10, WithinKeeps
       DEF Inv, ThreadInv, FaultsAsKnown

LEMMA RemoveNoneKeeps ==
  ASSUME LinkedListAssumption, Inv, fault = Null, NEW th \in Thread, RemoveNone(th)
  PROVE  /\ Inv'
         /\ Chain' = Chain
<1>1. /\ pc[th] = "lremove" /\ TypeOK
      /\ greatest_key' = Rescan(arg[th])
      /\ guard' = 1
      /\ pc' = [pc EXCEPT ![th] = "idle"]
      /\ at' = [at EXCEPT ![th] = Null]
      /\ arg' = [arg EXCEPT ![th] = -1]
      /\ UNCHANGED <<mem, first, size, answer, before, found, gone, loopVars, calls, fault>>
  BY DEF RemoveNone, Leave, Inv
<1>2. /\ \A u \in Thread \ {th} : pc[u] \notin Inside
      /\ size = Len(Chain)
      /\ \A b \in Addr : mem[b] # Null => b \in Linked
  <2>1. Len(Chain) \in Nat
    BY InvFacts
  <2>2. pc[th] \in Inside /\ pc[th] \notin {"ladd", "clear", "free"}
    BY <1>1 DEF Inside
  <2> QED BY <2>1, <2>2, HasGuard
<1>3. Leads(Chain, first', mem') /\ Chain' = Chain /\ Linked' = Linked
  BY <1>1, InvFacts, SameChain
<1>4. /\ pc'[th] = "idle"
      /\ \A u \in Thread \ {th} : pc'[u] = pc[u] /\ at'[u] = at[u]
  BY <1>1 DEF TypeOK
<1>5. Within(th)
  BY <1>1, <1>2, <1>4 DEF Within, Reading, loopVars
<1>6. TypeOK'
  <2>1. greatest_key' \in Key \cup {-1}
    BY <1>1, RescanIs DEF Inv
  <2> QED BY <1>1, <2>1 DEF TypeOK, loopVars
<1>7. ChainInv' /\ UsedInv'
  BY <1>1, <1>2, <1>3, InvFacts DEF ChainInv, UsedInv
<1>8. SizeInv'
  BY <1>1, <1>2, <1>3, <1>4, InvFacts DEF SizeInv, Inside
<1>9. InsideInv(th)'
  BY <1>4 DEF InsideInv, Inside
<1>10. \A u \in Thread \ {th} : ReadInv(u)' /\ LoopInv(u)'
  <2>1. \A n, b : Reaches(Chain, n, b) => Reaches(Chain', n, b)
    BY <1>3
  <2>2. UNCHANGED <<gone, there>> /\ Linked \subseteq Linked' /\ mem' = mem /\ Null \notin Linked
    BY <1>1, <1>3, InvFacts DEF loopVars
  <2> QED BY <1>5, <2>1, <2>2, ReadersStay
<1>11. before' \in ListOf(Key, Value)
  BY <1>1 DEF Inv
<1> QED BY <1>1, <1>3, <1>4, <1>5, <1>6, <1>7, <1>8, <1>9, <1>10, <1>11, WithinKeeps
       DEF Inv, ThreadInv, FaultsAsKnown, Inside

(* Neither clearing nor freeing an element that is not linked changes what *)
(* the list holds.                                                         *)
LEMMA ClearKeeps ==
  ASSUME LinkedListAssumption, Inv, fault = Null, NEW th \in Thread, Clear(th)
  PROVE  Inv'
<1> DEFINE a == at[th]
<1>1. /\ pc[th] = "clear" /\ TypeOK
      /\ mem' = [mem EXCEPT ![a].value = Null]
      /\ pc' = [pc EXCEPT ![th] = "free"]
      /\ UNCHANGED <<first, size, greatest_key, guard, at, arg, answer, before, found, gone,
                     loopVars, calls, fault>>
  BY DEF Clear, Cleared, Inv
<1>2. /\ guard = 0 /\ pc[th] \notin Reading
      /\ \A u \in Thread \ {th} : pc[u] \notin Inside
      /\ size = Len(Chain) + 1
      /\ \A b \in Addr : mem[b] # Null => b \in Linked \/ b = a
      /\ InsideInv(th)
  BY <1>1, HasGuard DEF Inside
<1>3. a \in Addr /\ a \notin Linked /\ mem[a] # Null /\ mem[a] \in Element
  BY <1>1, <1>2 DEF InsideInv, TypeOK
<1> HIDE DEF a
<1>4. /\ \A b \in Addr \ {a} : mem'[b] = mem[b]
      /\ mem'[a] = [mem[a] EXCEPT !.value = Null]
      /\ mem' \in [Addr -> Element \cup {Null}]
  <2>1. mem \in [Addr -> Element \cup {Null}]
    BY <1>1 DEF TypeOK
  <2>2. [mem[a] EXCEPT !.value = Null] \in Element
    BY <1>3 DEF Element
  <2> QED BY <1>1, <1>3, <2>1, <2>2
<1>5. mem'[a] \in Element /\ mem'[a] # Null /\ mem'[a].next = mem[a].next
  BY <1>3, <1>4 DEF Element, LinkedListAssumption
<1>6. Leads(Chain, first', mem') /\ Chain' = Chain /\ Linked' = Linked
  BY <1>1, <1>3, <1>4, InvFacts, SameChain
<1>7. /\ pc'[th] = "free"
      /\ \A u \in Thread \ {th} : pc'[u] = pc[u] /\ at'[u] = at[u]
  BY <1>1 DEF TypeOK
<1>8. Within(th)
  BY <1>1, <1>2, <1>7 DEF Within, Reading, loopVars
<1>9. TypeOK'
  BY <1>1, <1>4 DEF TypeOK, Inside, loopVars
<1>10. ChainInv'
  BY <1>3, <1>4, <1>6, InvFacts DEF ChainInv
<1>11. SizeInv'
  BY <1>1, <1>2, <1>6, <1>7 DEF SizeInv
<1>12. UsedInv'
  BY <1>1, <1>2, <1>4, <1>6, <1>7 DEF UsedInv, a
<1>13. Contents(Chain, mem)' = Contents(Chain, mem)
  <2>1. Linked = InSeq(Chain) /\ \A b \in Linked : mem'[b] = mem[b]
    BY <1>3, <1>4, InvFacts
  <2>2. PICK q, m2 : q = Chain /\ m2 = mem'
    OBVIOUS
  <2>3. \A b \in InSeq(q) : m2[b].key = mem[b].key /\ m2[b].value = mem[b].value
    BY <2>1, <2>2
  <2>4. Contents(q, m2) = Contents(q, mem)
    BY <2>3, SameContents
  <2> QED BY <1>6, <2>2, <2>4 DEF Contents
<1>14. InsideInv(th)'
  BY <1>1, <1>2, <1>3, <1>5, <1>6, <1>7, <1>13 DEF InsideInv, Inside, a
<1>15. \A u \in Thread \ {th} : ReadInv(u)' /\ LoopInv(u)'
  <2>1. \A n, b : Reaches(Chain, n, b) => Reaches(Chain', n, b)
    BY <1>6
  <2>2. UNCHANGED <<gone, there>> /\ Linked \subseteq Linked'
    BY <1>1, <1>6 DEF loopVars
  <2> QED BY <1>3, <1>4, <1>5, <1>8, <2>1, <2>2, ReadersStay
<1>16. before' \in ListOf(Key, Value)
  BY <1>1 DEF Inv
<1> QED BY <1>1, <1>2, <1>8, <1>9, <1>10, <1>11, <1>12, <1>14, <1>15, <1>16, WithinKeeps
       DEF Inv, ThreadInv, FaultsAsKnown

LEMMA FreeKeeps ==
  ASSUME LinkedListAssumption, Inv, fault = Null, NEW th \in Thread, Free(th)
  PROVE  /\ Inv'
         /\ Chain' = Chain
         /\ Contents(Chain, mem)' = Contents(Chain, mem)
<1> DEFINE a == at[th]
<1>1. /\ pc[th] = "free" /\ TypeOK
      /\ mem' = [mem EXCEPT ![a] = Null]
      /\ size' = size - 1
      /\ greatest_key' = Rescan(arg[th])
      /\ guard' = 1
      /\ pc' = [pc EXCEPT ![th] = "idle"]
      /\ at' = [at EXCEPT ![th] = Null]
      /\ arg' = [arg EXCEPT ![th] = -1]
      /\ UNCHANGED <<first, answer, before, found, gone, loopVars, calls, fault>>
  BY DEF Free, Leave, Inv
<1>2. /\ guard = 0 /\ pc[th] \notin Reading
      /\ \A u \in Thread \ {th} : pc[u] \notin Inside
      /\ size = Len(Chain) + 1
      /\ \A b \in Addr : mem[b] # Null => b \in Linked \/ b = a
      /\ InsideInv(th)
  BY <1>1, HasGuard DEF Inside
<1>3. a \in Addr /\ a \notin Linked
  BY <1>1, <1>2 DEF InsideInv
<1> HIDE DEF a
<1>4. /\ \A b \in Addr \ {a} : mem'[b] = mem[b]
      /\ mem'[a] = Null
      /\ mem' \in [Addr -> Element \cup {Null}]
  BY <1>1, <1>3 DEF TypeOK
<1>5. Leads(Chain, first', mem') /\ Chain' = Chain /\ Linked' = Linked
  BY <1>1, <1>3, <1>4, InvFacts, SameChain
<1>6. /\ pc'[th] = "idle"
      /\ \A u \in Thread \ {th} : pc'[u] = pc[u] /\ at'[u] = at[u]
  BY <1>1 DEF TypeOK
<1>7. Within(th)
  BY <1>1, <1>2, <1>6 DEF Within, Reading, loopVars
<1>8. size' = Len(Chain) /\ Len(Chain) \in Nat
  BY <1>1, <1>2, InvFacts
<1>9. TypeOK'
  <2>1. greatest_key' \in Key \cup {-1}
    BY <1>1, RescanIs DEF Inv
  <2> QED BY <1>1, <1>4, <1>8, <2>1 DEF TypeOK, loopVars
<1>10. ChainInv'
  BY <1>3, <1>4, <1>5, InvFacts DEF ChainInv
<1>11. SizeInv'
  BY <1>2, <1>5, <1>6, <1>8 DEF SizeInv, Inside
<1>12. UsedInv'
  BY <1>2, <1>4, <1>5 DEF UsedInv
<1>13. Contents(Chain, mem)' = Contents(Chain, mem)
  <2>1. Linked = InSeq(Chain) /\ \A b \in Linked : mem'[b] = mem[b]
    BY <1>3, <1>4, InvFacts
  <2>2. PICK q, m2 : q = Chain /\ m2 = mem'
    OBVIOUS
  <2>3. \A b \in InSeq(q) : m2[b].key = mem[b].key /\ m2[b].value = mem[b].value
    BY <2>1, <2>2
  <2>4. Contents(q, m2) = Contents(q, mem)
    BY <2>3, SameContents
  <2> QED BY <1>5, <2>2, <2>4 DEF Contents
<1>14. InsideInv(th)'
  BY <1>6 DEF InsideInv, Inside
<1>15. \A u \in Thread \ {th} : ReadInv(u)' /\ LoopInv(u)'
  <2>1. \A n, b : Reaches(Chain, n, b) => Reaches(Chain', n, b)
    BY <1>5
  <2>2. UNCHANGED <<gone, there>> /\ Linked \subseteq Linked'
    BY <1>1, <1>5 DEF loopVars
  <2> QED BY <1>3, <1>4, <1>7, <2>1, <2>2, ReadersStay
<1>16. before' \in ListOf(Key, Value)
  BY <1>1 DEF Inv
<1>17. Inv'
  BY <1>1, <1>6, <1>7, <1>9, <1>10, <1>11, <1>12, <1>14, <1>15, <1>16, WithinKeeps
     DEF Inv, ThreadInv, FaultsAsKnown, Inside
<1> QED BY <1>5, <1>13, <1>17

(* What the list holds once its element at k is no longer linked.          *)
LEMMA CutContents ==
  ASSUME NEW S, NEW q \in Seq(Addr), NEW k \in DOMAIN q, NEW m, NEW m2,
         Contents(q, m) \in Seq(S),
         \A i \in DOMAIN q : m2[q[i]].key = m[q[i]].key /\ m2[q[i]].value = m[q[i]].value
  PROVE  Contents(RemoveAt(q, k), m2) = RemoveAt(Contents(q, m), k)
<1> DEFINE c == Contents(q, m)
           r == RemoveAt(q, k)
           rc == RemoveAt(c, k)
<1> Len(q) \in Nat /\ k \in 1..Len(q)
  BY LenProperties
<1>1. DOMAIN q = 1..Len(q) /\ DOMAIN c = DOMAIN q
  BY LenProperties DEF Contents
<1>2. Len(c) = Len(q)
  BY <1>1, LenProperties
<1>3. /\ r \in Seq(Addr) /\ Len(r) = Len(q) - 1
      /\ \A i \in 1..Len(q) - 1 : r[i] = IF i < k THEN q[i] ELSE q[i + 1]
  BY RemoveAtProperties
<1>4. /\ rc \in Seq(S) /\ Len(rc) = Len(q) - 1
      /\ \A i \in 1..Len(q) - 1 : rc[i] = IF i < k THEN c[i] ELSE c[i + 1]
  <2> HIDE DEF c
  <2>1. c \in Seq(S) /\ k \in DOMAIN c
    BY <1>1 DEF c
  <2> QED BY <2>1, <1>2, RemoveAtProperties
<1>5. \A i \in DOMAIN q : c[i] = [key |-> m[q[i]].key, value |-> m[q[i]].value]
  BY DEF Contents
<1> HIDE DEF c, r, rc
<1>6. DOMAIN r = 1..Len(q) - 1 /\ rc = [i \in 1..Len(q) - 1 |-> rc[i]]
  BY <1>3, <1>4, LenProperties
<1>7. \A i \in 1..Len(q) - 1 : rc[i] = [key |-> m2[r[i]].key, value |-> m2[r[i]].value]
  <2> TAKE i \in 1..Len(q) - 1
  <2>1. PICK j \in 1..Len(q) : r[i] = q[j] /\ rc[i] = c[j]
    <3>1. i \in 1..Len(q) /\ i + 1 \in 1..Len(q)
      OBVIOUS
    <3> QED BY <3>1, <1>3, <1>4
  <2> QED BY <2>1, <1>1, <1>5
<1>8. Contents(r, m2) = [i \in 1..Len(q) - 1 |-> [key |-> m2[r[i]].key, value |-> m2[r[i]].value]]
  BY <1>6 DEF Contents
<1> QED BY <1>6, <1>7, <1>8 DEF r, rc, c

(* lremove() takes the element at k, the first with its key, out.          *)
LEMMA UnlinkKeeps ==
  ASSUME LinkedListAssumption, Inv, fault = Null, NEW th \in Thread, pc[th] = "lremove",
         NEW k, k = First(Contents(Chain, mem), arg[th]), k # 0,
         first' = CutFirst(Chain, first, mem, k),
         mem' \in [Addr -> Element \cup {Null}],
         \A i \in DOMAIN Chain :
           /\ mem'[Chain[i]] # Null
           /\ mem'[Chain[i]].key = mem[Chain[i]].key
           /\ mem'[Chain[i]].value = mem[Chain[i]].value
           /\ mem'[Chain[i]].next = IF i = k - 1 THEN mem[Chain[k]].next
                                    ELSE mem[Chain[i]].next,
         \A a \in Addr : mem'[a] # Null => mem[a] # Null,
         at' = [at EXCEPT ![th] = Chain[k]], Depart(Chain[k]),
         NEW p \in {"clear", "free"}, pc' = [pc EXCEPT ![th] = p],
         UNCHANGED <<size, greatest_key, guard, arg, answer, before, found, calls, fault>>
  PROVE  Inv'
<1> DEFINE c == Contents(Chain, mem)
           r == RemoveAt(Chain, k)
           x == Chain[k]
<1>1. /\ Len(Chain) \in Nat /\ DOMAIN Chain = 1..Len(Chain)
      /\ Linked = InSeq(Chain) /\ Linked \subseteq Addr /\ Null \notin Linked
      /\ \A a \in Linked : mem[a] \in Element /\ mem[a] # Null /\ mem[a].value # Null
      /\ \A i \in DOMAIN Chain : /\ Chain[i] \in Linked
                                 /\ mem[Chain[i]].next = IF i = Len(Chain) THEN Null
                                                         ELSE Chain[i + 1]
      /\ \A i, j \in DOMAIN Chain : Chain[i] = Chain[j] => i = j
      /\ Leads(Chain, first, mem) /\ Chain \in Seq(Addr)
  BY InvFacts DEF Inv, ChainInv, Leads
<1>2. k \in DOMAIN Chain /\ k \in 1..Len(Chain)
  BY <1>1, MatchIs DEF Inv
<1>3. /\ guard = 0 /\ arg[th] \in Key /\ pc[th] \notin Reading
      /\ \A u \in Thread \ {th} : pc[u] \notin Inside
      /\ size = Len(Chain)
      /\ \A b \in Addr : mem[b] # Null => b \in Linked
      /\ InsideInv(th)
      /\ c \in Seq(Elem(Key, Value))
  <2>1. pc[th] \in Inside /\ pc[th] \notin {"ladd", "clear", "free"}
    BY DEF Inside
  <2> HIDE DEF c
  <2>2. /\ guard = 0 /\ arg[th] \in Key /\ pc[th] \notin Reading
        /\ \A u \in Thread \ {th} : pc[u] \notin Inside
        /\ size = Len(Chain) + 0
        /\ \A b \in Addr : mem[b] # Null => b \in Linked
        /\ InsideInv(th)
        /\ c \in Seq(Elem(Key, Value))
    BY <2>1, HasGuard DEF c
  <2> QED BY <2>2, <1>1
<1>4. /\ Leads(r, first', mem')
      /\ InSeq(r) = Linked \ {x}
      /\ Len(r) = Len(Chain) - 1
      /\ \A n, b : Reaches(Chain, n, b) /\ b # x =>
           Reaches(r, IF n = x THEN mem[x].next ELSE n, b)
  <2>1. PICK q, m2 : q = Chain /\ m2 = mem'
    OBVIOUS
  <2>2. Leads(q, first, mem) /\ k \in DOMAIN q /\ CutMem(q, mem, m2, k)
    BY <1>1, <1>2, <2>1 DEF CutMem
  <2>3. /\ Leads(RemoveAt(q, k), CutFirst(q, first, mem, k), m2)
        /\ InSeq(RemoveAt(q, k)) = InSeq(q) \ {q[k]}
        /\ Len(RemoveAt(q, k)) = Len(q) - 1
        /\ \A n, b : Reaches(q, n, b) /\ b # q[k] =>
             Reaches(RemoveAt(q, k), IF n = q[k] THEN mem[q[k]].next ELSE n, b)
    BY <2>2, CutLeads
  <2>4. first' = CutFirst(q, first, mem, k)
    BY <2>1
  <2> QED BY <1>1, <2>1, <2>3, <2>4
<1>5. Chain' = r /\ Linked' = Linked \ {x}
  <2>1. PICK q : q = r
    OBVIOUS
  <2>2. Chain' = q /\ Linked' = InSeq(q)
    BY <1>4, <2>1, ChainNext
  <2> QED BY <1>4, <2>1, <2>2
<1>6. x \in Linked /\ x \in Addr /\ x # Null
  BY <1>1, <1>2
<1>7. /\ pc'[th] = p /\ at'[th] = x
      /\ \A u \in Thread \ {th} : pc'[u] = pc[u] /\ at'[u] = at[u]
  BY DEF Inv, TypeOK
<1>8. Within(th)
  BY <1>3, <1>7 DEF Within, Reading, Depart
<1>9. TypeOK'
  <2>1. TypeOK
    BY DEF Inv
  <2>2. first' \in Addr \cup {Null}
    BY <1>1, <1>2, <2>1 DEF CutFirst, Element, TypeOK
  <2>3. gone' \in [Thread -> BOOLEAN] /\ there' \in [Thread -> SUBSET Addr] /\ visited' = visited
    BY <2>1 DEF Depart, TypeOK
  <2>4. at' \in [Thread -> Addr \cup {Null}]
    BY <2>1, <1>6 DEF TypeOK
  <2>5. pc' \in [Thread -> {"idle"} \cup Inside \cup Reading]
    BY <2>1 DEF TypeOK, Inside
  <2> QED BY <2>1, <2>2, <2>3, <2>4, <2>5 DEF TypeOK
<1>10. ChainInv'
  <2>1. \A a \in Linked : mem'[a].value # Null
    BY <1>1 DEF InSeq
  <2> QED BY <2>1, <1>4, <1>5 DEF ChainInv
<1>11. SizeInv'
  <2>1. size' = Len(Chain) /\ Len(Chain') + 1 = Len(Chain)
    BY <1>1, <1>3, <1>4, <1>5
  <2> QED BY <2>1, <1>7 DEF SizeInv
<1>12. UsedInv'
  BY <1>3, <1>5, <1>7 DEF UsedInv
<1>13. InsideInv(th)'
  <2> HIDE DEF c, r
  <2>1. before.elems = c /\ before.greatest_key = greatest_key /\ before.guard = 1
    BY <1>3 DEF InsideInv, Unchanged, c
  <2>2. Rest(c, arg[th]) = RemoveAt(c, k)
    BY <1>3, RestOfFirst DEF c
  <2>3. Contents(r, mem') = RemoveAt(c, k)
    <3>1. PICK q, m2 : q = Chain /\ m2 = mem'
      OBVIOUS
    <3>2. /\ q \in Seq(Addr) /\ k \in DOMAIN q /\ Contents(q, mem) \in Seq(Elem(Key, Value))
          /\ \A i \in DOMAIN q : m2[q[i]].key = mem[q[i]].key /\ m2[q[i]].value = mem[q[i]].value
      BY <1>1, <1>2, <1>3, <3>1 DEF c
    <3>3. Contents(RemoveAt(q, k), m2) = RemoveAt(Contents(q, mem), k)
      BY <3>2, CutContents
    <3> QED BY <3>1, <3>3 DEF c, r
  <2>4. c # <<>>
    <3>1. DOMAIN c = DOMAIN Chain
      BY DEF c, Contents
    <3> QED BY <3>1, <1>2
  <2>5. Contents(Chain, mem)' = Contents(r, mem')
    BY <1>5 DEF Contents
  <2>6. mem'[x] # Null /\ x \in Addr /\ x \notin Linked'
    BY <1>2, <1>5, <1>6
  <2> QED BY <1>3, <1>7, <2>1, <2>2, <2>3, <2>4, <2>5, <2>6 DEF InsideInv, Inside
<1>14. ASSUME NEW u \in Thread \ {th}
       PROVE  ReadInv(u)' /\ LoopInv(u)'
  <2>1. ReadInv(u) /\ LoopInv(u)
    BY DEF Inv, ThreadInv
  <2>2. /\ pc'[u] = pc[u] /\ at'[u] = at[u] /\ found'[u] = found[u] /\ visited'[u] = visited[u]
        /\ there'[u] = there[u] \ {x}
        /\ pc[u] \in Reading /\ ~gone'[u] => ~gone[u] /\ at[u] # x
    BY <1>8 DEF Within, Depart
  <2>3. Linked \ {x} \subseteq Linked' /\ \A a \in Linked \ {x} : mem'[a].value = mem[a].value
    BY <1>1, <1>5 DEF InSeq
  <2>4. ASSUME NEW b \in Linked \ {x}, at[u] \in Addr, mem'[at[u]] # Null,
               mem[at[u]] # Null => Reaches(Chain, mem[at[u]].next, b)
        PROVE  Reaches(Chain', mem'[at[u]].next, b)
    <3>1. at[u] \in Linked /\ Reaches(Chain, mem[at[u]].next, b)
      BY <1>3, <2>4
    <3>2. PICK i \in 1..Len(Chain) : at[u] = Chain[i]
      BY <1>1, <3>1 DEF InSeq
    <3>3. i = k - 1 <=> mem[Chain[i]].next = x
      <4>1. mem[Chain[i]].next = IF i = Len(Chain) THEN Null ELSE Chain[i + 1]
        BY <1>1
      <4>2. CASE i = Len(Chain)
        <5>1. i # k - 1
          BY <4>2, <1>1, <1>2
        <5> QED BY <4>1, <4>2, <5>1, <1>6
      <4>3. CASE i # Len(Chain)
        <5>1. i + 1 \in 1..Len(Chain) /\ (i = k - 1 <=> i + 1 = k)
          <6> Len(Chain) \in Nat /\ k \in 1..Len(Chain)
            BY <1>1, <1>2
          <6> QED BY <4>3
        <5>2. Chain[i + 1] = x <=> i + 1 = k
          BY <5>1, <1>1, <1>2
        <5> QED BY <4>1, <4>3, <5>1, <5>2
      <4> QED BY <4>2, <4>3
    <3>4. mem'[at[u]].next = IF mem[at[u]].next = x THEN mem[x].next ELSE mem[at[u]].next
      <4>1. mem'[Chain[i]].next = IF i = k - 1 THEN mem[x].next ELSE mem[Chain[i]].next
        BY <1>1
      <4> QED BY <3>2, <3>3, <4>1
    <3>5. Reaches(r, IF mem[at[u]].next = x THEN mem[x].next ELSE mem[at[u]].next, b)
      <4> HIDE DEF r, x
      <4>1. b # x
        OBVIOUS
      <4> QED BY <3>1, <4>1, <1>4
    <3> QED BY <3>4, <3>5, <1>5
  <2> HIDE DEF x
  <2> QED BY <2>1, <2>2, <2>3, <2>4, ReaderKept
<1>15. before' \in ListOf(Key, Value)
  BY DEF Inv
<1> QED BY <1>3, <1>8, <1>9, <1>10, <1>11, <1>12, <1>13, <1>14, <1>15, WithinKeeps
       DEF Inv, ThreadInv, FaultsAsKnown

LEMMA UnlinkFirstKeeps ==
  ASSUME LinkedListAssumption, Inv, fault = Null, NEW th \in Thread, UnlinkFirst(th)
  PROVE  Inv'
<1>1. /\ pc[th] = "lremove" /\ TypeOK
      /\ mem[first].key = arg[th]
      /\ first' = mem[first].next
      /\ at' = [at EXCEPT ![th] = first]
      /\ pc' = [pc EXCEPT ![th] = "free"]
      /\ Depart(first)
      /\ UNCHANGED <<mem, size, greatest_key, guard, arg, answer, before, found, calls, fault>>
  BY DEF UnlinkFirst, Inv
<1>2. first # Null
  BY <1>1 DEF Inv, ThreadInv, InsideInv
<1>3. /\ Len(Chain) \in Nat /\ DOMAIN Chain = 1..Len(Chain) /\ Len(Chain) # 0
      /\ first = Chain[1]
      /\ \A i \in DOMAIN Chain : Chain[i] \in Linked
      /\ \A a \in Linked : mem[a] # Null
  BY <1>2, InvFacts
<1>4. PICK k : k = First(Contents(Chain, mem), arg[th])
  OBVIOUS
<1>5. 1 \in DOMAIN Chain /\ mem[Chain[1]].key = arg[th]
  BY <1>1, <1>3
<1>6. k # 0 /\ k \in DOMAIN Chain /\ k <= 1
  BY <1>1, <1>4, <1>5, MatchIs DEF Inv
<1>7. k = 1
  BY <1>3, <1>6
<1>8. first' = CutFirst(Chain, first, mem, k) /\ first = Chain[k]
  BY <1>1, <1>3, <1>7 DEF CutFirst
<1>9. \A i \in DOMAIN Chain :
        /\ mem'[Chain[i]] # Null
        /\ mem'[Chain[i]].key = mem[Chain[i]].key
        /\ mem'[Chain[i]].value = mem[Chain[i]].value
        /\ mem'[Chain[i]].next = IF i = k - 1 THEN mem[Chain[k]].next ELSE mem[Chain[i]].next
  BY <1>1, <1>3, <1>7
<1>10. mem' \in [Addr -> Element \cup {Null}] /\ \A a \in Addr : mem'[a] # Null => mem[a] # Null
  BY <1>1 DEF TypeOK
<1> QED BY <1>1, <1>4, <1>6, <1>8, <1>9, <1>10, UnlinkKeeps

LEMMA UnlinkNextKeeps ==
  ASSUME LinkedListAssumption, Inv, fault = Null, NEW th \in Thread, UnlinkNext(th)
  PROVE  Inv'
<1> DEFINE next == Match(arg[th])
           prev == Previous(next)
<1>1. /\ pc[th] = "lremove" /\ TypeOK
      /\ mem[first].key # arg[th]
      /\ next # Null
      /\ mem' = [mem EXCEPT ![prev].next = mem[next].next]
      /\ at' = [at EXCEPT ![th] = next]
      /\ Depart(next)
      /\ pc' = [pc EXCEPT ![th] = "clear"]
      /\ UNCHANGED <<first, size, greatest_key, guard, arg, answer, before, found, calls, fault>>
  BY DEF UnlinkNext, Inv
<1>2. first # Null
  BY <1>1 DEF Inv, ThreadInv, InsideInv
<1>3. /\ Len(Chain) \in Nat /\ DOMAIN Chain = 1..Len(Chain)
      /\ first = Chain[1]
      /\ Linked \subseteq Addr
      /\ \A i \in DOMAIN Chain : Chain[i] \in Linked
      /\ \A a \in Linked : mem[a] # Null /\ mem[a] \in Element
      /\ \A i, j \in DOMAIN Chain : Chain[i] = Chain[j] => i = j
  BY <1>2, InvFacts
<1>4. PICK k : k = First(Contents(Chain, mem), arg[th])
  OBVIOUS
<1>5. k # 0 /\ k \in DOMAIN Chain /\ next = Chain[k] /\ mem[Chain[k]].key = arg[th]
  BY <1>1, <1>4, MatchIs DEF Inv
<1>6. k # 1
  BY <1>1, <1>3, <1>5
<1>7. k - 1 \in DOMAIN Chain /\ prev = Chain[k - 1]
  BY <1>5, <1>6, PreviousIs DEF Inv
<1> HIDE DEF next, prev
<1>8. /\ prev \in Addr /\ mem[prev] \in Element /\ mem[prev] # Null
      /\ mem[next].next \in Addr \cup {Null}
  BY <1>3, <1>5, <1>7 DEF Element
<1>9. /\ mem' \in [Addr -> Element \cup {Null}]
      /\ \A a \in Addr \ {prev} : mem'[a] = mem[a]
      /\ mem'[prev] \in Element
      /\ mem'[prev].key = mem[prev].key /\ mem'[prev].value = mem[prev].value
      /\ mem'[prev].next = mem[next].next
  <2>1. mem \in [Addr -> Element \cup {Null}]
    BY <1>1 DEF TypeOK
  <2>2. mem'[prev] = [mem[prev] EXCEPT !.next = mem[next].next]
    BY <1>1, <1>8, <2>1
  <2>3. /\ mem'[prev] \in Element
        /\ mem'[prev].key = mem[prev].key /\ mem'[prev].value = mem[prev].value
        /\ mem'[prev].next = mem[next].next
    BY <1>8, <2>2 DEF Element
  <2> QED BY <1>1, <1>8, <2>1, <2>3
<1>10. \A i \in DOMAIN Chain :
         /\ mem'[Chain[i]] # Null
         /\ mem'[Chain[i]].key = mem[Chain[i]].key
         /\ mem'[Chain[i]].value = mem[Chain[i]].value
         /\ mem'[Chain[i]].next = IF i = k - 1 THEN mem[Chain[k]].next ELSE mem[Chain[i]].next
  <2> TAKE i \in DOMAIN Chain
  <2>1. Chain[i] \in Addr /\ mem[Chain[i]] # Null /\ (Chain[i] = prev <=> i = k - 1)
    BY <1>3, <1>7
  <2>2. mem'[prev] # Null
    BY <1>9 DEF LinkedListAssumption
  <2> QED BY <1>5, <1>9, <2>1, <2>2
<1>11. \A a \in Addr : mem'[a] # Null => mem[a] # Null
  BY <1>8, <1>9
<1>12. first' = CutFirst(Chain, first, mem, k)
  BY <1>1, <1>6 DEF CutFirst
<1>13. at' = [at EXCEPT ![th] = Chain[k]] /\ Depart(Chain[k])
  BY <1>1, <1>5
<1>14. /\ pc[th] = "lremove" /\ k = First(Contents(Chain, mem), arg[th]) /\ k # 0
       /\ mem' \in [Addr -> Element \cup {Null}]
       /\ pc' = [pc EXCEPT ![th] = "clear"]
       /\ UNCHANGED <<size, greatest_key, guard, arg, answer, before, found, calls, fault>>
  BY <1>1, <1>4, <1>5, <1>9
<1> QED BY <1>10, <1>11, <1>12, <1>13, <1>14, UnlinkKeeps

-----------------------------------------------------------------------------
LEMMA InitInv ==
  ASSUME LinkedListAssumption, Init
  PROVE  Inv /\ list = NewList
<1>1. Leads(<<>>, first, mem) /\ InSeq(<<>>) = {}
  BY DEF Init, Leads, InSeq
<1>2. Chain = <<>> /\ Linked = {}
  <2>1. PICK q : q = <<>>
    OBVIOUS
  <2>2. Leads(q, first, mem) /\ InSeq(q) = {}
    BY <1>1, <2>1
  <2> QED BY <2>1, <2>2, ChainNow
<1>3. ChainInv
  BY <1>1, <1>2 DEF ChainInv
<1>4. size = Len(Chain)
  BY <1>2 DEF Init
<1>5. Contents(Chain, mem) = <<>>
  BY <1>2 DEF Contents
<1>6. Now = NewList
  BY <1>3, <1>4, <1>5, NowIs DEF Init, NewList
<1>7. Now \in ListOf(Key, Value)
  BY <1>6 DEF NewList, ListOf
<1>8. \A th \in Thread : pc[th] = "idle"
  BY DEF Init
<1>9. TypeOK
  BY DEF Init, TypeOK, LinkedListAssumption
<1>10. GuardInv /\ SizeInv /\ UsedInv /\ ThreadInv /\ FaultsAsKnown
  <2>1. UsedInv
    BY DEF Init, UsedInv
  <2>2. GuardInv
    BY <1>8 DEF GuardInv, Inside
  <2>3. SizeInv
    BY <1>2, <1>4, <1>8 DEF SizeInv
  <2>4. ThreadInv
    BY <1>8 DEF ThreadInv, InsideInv, ReadInv, LoopInv, Inside, Reading
  <2> QED BY <2>1, <2>2, <2>3, <2>4 DEF Init, FaultsAsKnown
<1>11. before \in ListOf(Key, Value)
  BY <1>7 DEF Init
<1>12. list = NewList
  BY <1>6, <1>8 DEF list, InTheGuard, Inside
<1> QED BY <1>3, <1>9, <1>10, <1>11, <1>12 DEF Inv

LEMMA StutterKeeps ==
  ASSUME LinkedListAssumption, Inv, UNCHANGED vars
  PROVE  Inv' /\ list' = list /\ Chain' = Chain
<1> USE DEF vars, listVars, loopVars
<1>1. Leads(Chain, first', mem') /\ Chain' = Chain /\ Linked' = Linked
  BY InvFacts, SameChain
<1>2. TypeOK' /\ before' \in ListOf(Key, Value)
  BY DEF Inv, TypeOK
<1>3. ChainInv' /\ GuardInv' /\ SizeInv' /\ UsedInv' /\ FaultsAsKnown'
  BY <1>1 DEF Inv, ChainInv, GuardInv, SizeInv, UsedInv, FaultsAsKnown
<1>4. \A th \in Thread : InsideInv(th)' /\ ReadInv(th)' /\ LoopInv(th)'
  <2> TAKE th \in Thread
  <2>1. InsideInv(th) /\ ReadInv(th) /\ LoopInv(th)
    BY DEF Inv, ThreadInv
  <2>2. InsideInv(th)'
    BY <2>1, <1>1 DEF InsideInv, Unchanged, Contents
  <2>3. ReadInv(th)' /\ LoopInv(th)'
    BY <2>1, <1>1 DEF ReadInv, LoopInv
  <2> QED BY <2>2, <2>3
<1>5. list' = list
  BY <1>1 DEF list, InTheGuard, Now
<1> QED BY <1>1, <1>2, <1>3, <1>4, <1>5 DEF Inv, ThreadInv

LEMMA NextKeeps ==
  ASSUME LinkedListAssumption, Inv, [Next]_vars
  PROVE  Inv'
<1>1. CASE UNCHANGED vars
  BY <1>1, StutterKeeps
<1>2. CASE Next
  BY <1>2, AllocateKeeps, LinkKeeps, RemoveNothingKeeps, RemoveKeyKeeps, RemoveNoneKeeps,
     UnlinkFirstKeeps, UnlinkNextKeeps, ClearKeeps, FreeKeeps,
     FindKeeps, ReturnKeeps, LoopKeeps, BodyKeeps, StepKeeps DEF Next
<1> QED BY <1>1, <1>2

-----------------------------------------------------------------------------
(* KeyedList's functions are those of Lists. *)
LEMMA AbstractFunctions ==
  /\ Abstract!Init <=> list = NewList
  /\ \A key \in Key, value \in Value :
       list.guard = 1 /\ list' = ladd(list, key, value) => Abstract!Next
  /\ \A key \in Key : list.guard = 1 /\ list' = lremove(list, key) => Abstract!Next
<1>1. Abstract!Init <=> list = NewList
  BY DEF Abstract!Init, Abstract!NewList, NewList
<1>2. ASSUME NEW key \in Key, NEW value \in Value
      PROVE  Abstract!ladd(list, key, value) = ladd(list, key, value)
  BY DEF Abstract!ladd, ladd, Abstract!Cons, Cons
<1>3. ASSUME NEW key \in Key
      PROVE  Abstract!lremove(list, key) = lremove(list, key)
  <2>1. \A s : Abstract!GreatestKey(s) = GreatestKey(s)
    BY DEF Abstract!GreatestKey, GreatestKey
  <2>2. \A s : Abstract!RemoveFirstMatch(s, LAMBDA e : e.key = key) = Rest(s, key)
    BY DEF Abstract!RemoveFirstMatch, RemoveFirstMatch, Rest, Abstract!RemoveAt, RemoveAt,
           Abstract!SelectInSeq, SelectInSeq, Abstract!Min, Min
  <2> QED BY <2>1, <2>2 DEF Abstract!lremove, lremove, Rest
<1> QED BY <1>1, <1>2, <1>3 DEF Abstract!Next, Abstract!Addition, Abstract!Removal,
                                Abstract!Usable

(* What ladd() and lremove() make of a list. *)
LEMMA LaddIs ==
  ASSUME NEW l \in ListOf(Key, Value), NEW key, NEW value
  PROVE  ladd(l, key, value) =
           [elems |-> Cons([key |-> key, value |-> value], l.elems),
            greatest_key |-> IF key > l.greatest_key THEN key ELSE l.greatest_key,
            guard |-> l.guard]
<1>1. PICK s, g, d : l = [elems |-> s, greatest_key |-> g, guard |-> d]
  <2>1. l = [elems |-> l.elems, greatest_key |-> l.greatest_key, guard |-> l.guard]
    BY DEF ListOf
  <2> QED BY <2>1
<1>2. PICK c : c = Cons([key |-> key, value |-> value], s)
  OBVIOUS
<1>3. PICK k : k = IF key > g THEN key ELSE g
  OBVIOUS
<1>4. ladd(l, key, value) = [l EXCEPT !.elems = c, !.greatest_key = k]
  BY <1>1, <1>2, <1>3 DEF ladd
<1>5. [l EXCEPT !.elems = c, !.greatest_key = k] = [elems |-> c, greatest_key |-> k, guard |-> d]
  <2> DEFINE r == [l EXCEPT !.elems = c, !.greatest_key = k]
  <2>1. r \in [elems : {c}, greatest_key : {k}, guard : {d}]
    BY <1>1
  <2> HIDE DEF r
  <2>2. r = [elems |-> r.elems, greatest_key |-> r.greatest_key, guard |-> r.guard]
    BY <2>1
  <2> QED BY <2>1, <2>2 DEF r
<1> QED BY <1>1, <1>2, <1>3, <1>4, <1>5

LEMMA LremoveIs ==
  ASSUME NEW l, NEW key
  PROVE  lremove(l, key) =
           [elems |-> Rest(l.elems, key),
            greatest_key |-> IF key = l.greatest_key THEN GreatestKey(Rest(l.elems, key))
                                                     ELSE l.greatest_key,
            guard |-> IF l.elems = <<>> THEN 0 ELSE 1]
BY DEF lremove, Rest

(* l->greatest_key is the key of an element, or -1. *)
Held(l) == l.greatest_key \in {-1} \cup Keys(l)

LEMMA AddedHeld ==
  ASSUME LinkedListAssumption, NEW l \in ListOf(Key, Value), Held(l),
         NEW key \in Key, NEW value \in Value
  PROVE  Held(ladd(l, key, value))
<1>1. l \in ListOf(Nat, Value) /\ key \in Nat
  <2>1. l.elems \in Seq(Elem(Key, Value)) /\ l = [l EXCEPT !.guard = l.guard]
    BY DEF ListOf, Elem
  <2>2. Elem(Key, Value) \subseteq Elem(Nat, Value)
    BY DEF Elem, LinkedListAssumption
  <2>3. l.elems \in Seq(Elem(Nat, Value))
    <3>1. PICK s : s = l.elems
      OBVIOUS
    <3>2. Len(s) \in Nat /\ s \in [1..Len(s) -> Elem(Key, Value)]
      BY <2>1, <3>1, LenProperties
    <3>3. s \in [1..Len(s) -> Elem(Nat, Value)]
      BY <3>2, <2>2
    <3> QED BY <3>1, <3>2, <3>3, SeqDef
  <2> QED BY <2>3 DEF ListOf, Elem, LinkedListAssumption
<1>2. Keys(ladd(l, key, value)) = Keys(l) \cup {key}
  BY <1>1, LaddValues
<1>3. ladd(l, key, value).greatest_key \in {l.greatest_key, key}
  BY DEF ladd, ListOf
<1> QED BY <1>2, <1>3 DEF Held

LEMMA RemovedHeld ==
  ASSUME LinkedListAssumption, NEW l \in ListOf(Key, Value), Held(l), NEW key \in Key
  PROVE  Held(lremove(l, key))
<1> DEFINE s == l.elems
           r == Rest(l.elems, key)
<1>1. s \in Seq(Elem(Key, Value))
  BY DEF ListOf, Elem
<1>2. /\ r \in Seq(Elem(Key, Value))
      /\ \A j \in DOMAIN s : s[j].key # key => \E i \in DOMAIN r : r[i] = s[j]
  BY <1>1, RestElems
<1>3. lremove(l, key).elems = r /\ Keys(lremove(l, key)) = {r[i].key : i \in DOMAIN r}
  BY LremoveIs DEF Keys
<1> HIDE DEF r
<1>4. CASE key = l.greatest_key
  <2>1. r \in Seq(Elem(Nat, Value))
    <3>1. Len(r) \in Nat /\ r \in [1..Len(r) -> Elem(Key, Value)]
      BY <1>2, LenProperties
    <3>2. Elem(Key, Value) \subseteq Elem(Nat, Value)
      BY DEF Elem, LinkedListAssumption
    <3>3. r \in [1..Len(r) -> Elem(Nat, Value)]
      BY <3>1, <3>2
    <3> QED BY <3>1, <3>3, SeqDef
  <2>2. lremove(l, key).greatest_key = GreatestKey(r)
    BY <1>4, LremoveIs DEF r
  <2> QED BY <2>1, <2>2, <1>3, GreatestKeyType DEF Held
<1>5. CASE key # l.greatest_key
  <2>1. lremove(l, key).greatest_key = l.greatest_key
    BY <1>5, LremoveIs
  <2>2. CASE l.greatest_key \in Keys(l)
    <3>1. PICK j \in DOMAIN s : s[j].key = l.greatest_key
      BY <2>2 DEF Keys
    <3>2. PICK i \in DOMAIN r : r[i] = s[j]
      BY <3>1, <1>2, <1>5
    <3> QED BY <3>1, <3>2, <2>1, <1>3 DEF Held
  <2> QED BY <2>1, <2>2 DEF Held
<1> QED BY <1>4, <1>5

LEMMA PushContents ==
  ASSUME LinkedListAssumption, NEW q \in Seq(Addr), NEW a \in Addr, NEW m,
         Contents(q, m) \in Seq(Elem(Key, Value)),
         [key |-> m[a].key, value |-> m[a].value] \in Elem(Key, Value)
  PROVE  Contents(Cons(a, q), m)
           = Cons([key |-> m[a].key, value |-> m[a].value], Contents(q, m))
<1> DEFINE e == [key |-> m[a].key, value |-> m[a].value]
           c == Contents(q, m)
           r == Cons(a, q)
           rc == Cons(e, c)
<1> Len(q) \in Nat
  BY LenProperties
<1>1. DOMAIN q = 1..Len(q) /\ DOMAIN c = DOMAIN q /\ Len(c) = Len(q)
  BY LenProperties DEF Contents
<1>2. \A i \in DOMAIN q : c[i] = [key |-> m[q[i]].key, value |-> m[q[i]].value]
  BY DEF Contents
<1> HIDE DEF c
<1>3. /\ r \in Seq(Addr) /\ Len(r) = Len(q) + 1
      /\ r[1] = a /\ \A i \in 1..Len(q) : r[i + 1] = q[i]
  <2>1. <<a>> \in Seq(Addr) /\ Len(<<a>>) = 1
    OBVIOUS
  <2> QED BY <2>1, ConcatProperties DEF Cons
<1>4. /\ rc \in Seq(Elem(Key, Value)) /\ Len(rc) = Len(q) + 1
      /\ rc[1] = e /\ \A i \in 1..Len(q) : rc[i + 1] = c[i]
  <2> HIDE DEF e
  <2>1. <<e>> \in Seq(Elem(Key, Value)) /\ Len(<<e>>) = 1 /\ <<e>>[1] = e
    BY DEF e
  <2>2. c \in Seq(Elem(Key, Value))
    BY DEF c
  <2> QED BY <2>1, <2>2, <1>1, ConcatProperties DEF Cons
<1> HIDE DEF r, rc
<1>5. DOMAIN r = 1..Len(q) + 1 /\ rc = [i \in 1..Len(q) + 1 |-> rc[i]]
  BY <1>3, <1>4, LenProperties
<1>6. \A i \in 1..Len(q) + 1 : rc[i] = [key |-> m[r[i]].key, value |-> m[r[i]].value]
  <2> TAKE i \in 1..Len(q) + 1
  <2>1. CASE i = 1
    BY <2>1, <1>3, <1>4
  <2>2. CASE i # 1
    <3>1. i - 1 \in 1..Len(q) /\ i - 1 + 1 = i
      BY <2>2
    <3>2. PICK j \in 1..Len(q) : j + 1 = i
      BY <3>1
    <3>3. r[i] = q[j] /\ rc[i] = c[j]
      BY <3>2, <1>3, <1>4
    <3> QED BY <3>3, <1>1, <1>2
  <2> QED BY <2>1, <2>2
<1>7. Contents(r, m) = [i \in 1..Len(q) + 1 |-> [key |-> m[r[i]].key, value |-> m[r[i]].value]]
  BY <1>5 DEF Contents
<1> QED BY <1>5, <1>6, <1>7 DEF r, rc, c, e

(* What a step may do to the list, as its callers see it.                  *)
ListStep ==
  \/ list' = list
  \/ \E key \in Key, value \in Value : list.guard = 1 /\ list' = ladd(list, key, value)
  \/ \E key \in Key : list.guard = 1 /\ list' = lremove(list, key)

LEMMA ListIs ==
  /\ \A th \in Thread : pc[th] \in Inside => list = before
  /\ \A th \in Thread : pc'[th] \in Inside => list' = before'
  /\ (\A th \in Thread : pc[th] \notin Inside) => list = Now
  /\ (\A th \in Thread : pc'[th] \notin Inside) => list' = Now'
BY DEF list, InTheGuard

LEMMA ListType ==
  ASSUME LinkedListAssumption, Inv
  PROVE  list \in ListOf(Key, Value)
<1>1. CASE \E th \in Thread : pc[th] \in Inside
  BY <1>1, ListIs DEF Inv
<1>2. CASE \A th \in Thread : pc[th] \notin Inside
  <2>1. Len(Chain) \in Nat /\ size = Len(Chain)
    BY <1>2, InvFacts DEF Inv, SizeInv, Inside
  <2>2. list = [elems |-> Contents(Chain, mem), greatest_key |-> greatest_key, guard |-> guard]
    BY <1>2, <2>1, ListIs, NowIs DEF Inv
  <2>3. Contents(Chain, mem) \in Seq(Elem(Key, Value))
    BY ContentsType DEF Inv
  <2> QED BY <2>2, <2>3 DEF ListOf, Elem, Inv, TypeOK
<1> QED BY <1>1, <1>2

LEMMA EnterStep ==
  ASSUME LinkedListAssumption, Inv, NEW th \in Thread, Enter(th), pc'[th] \in Inside
  PROVE  list' = list
<1>1. guard = 1 /\ before' = Now
  BY DEF Enter
<1>2. list = Now
  BY <1>1, AtEntry, ListIs
<1> QED BY <1>1, <1>2, ListIs

LEMMA RemoveNothingStep ==
  ASSUME LinkedListAssumption, Inv, Held(list), NEW th \in Thread, RemoveNothing(th)
  PROVE  ListStep
<1>1. /\ guard = 1 /\ guard' = 0 /\ first = Null
      /\ UNCHANGED <<mem, first, size, greatest_key, pc>>
  BY DEF RemoveNothing, Enter
<1>2. /\ \A u \in Thread : pc[u] \notin Inside
      /\ size = Len(Chain) /\ Now = Unchanged
  BY <1>1, AtEntry
<1>3. Leads(Chain, first', mem') /\ Chain' = Chain
  BY <1>1, InvFacts, SameChain
<1>4. Contents(Chain, mem) = <<>>
  <2>1. DOMAIN Chain = 1..Len(Chain) /\ Len(Chain) = 0
    BY <1>1, InvFacts
  <2>2. DOMAIN Chain = {}
    BY <2>1
  <2> QED BY <2>2 DEF Contents
<1>5. list = [elems |-> <<>>, greatest_key |-> greatest_key, guard |-> 1]
  BY <1>2, <1>4, ListIs DEF Unchanged
<1>6. list' = [elems |-> <<>>, greatest_key |-> greatest_key, guard |-> 0]
  <2>1. PICK q : q = Chain
    OBVIOUS
  <2>2. Now' = [elems |-> Contents(q, mem'), greatest_key |-> greatest_key', guard |-> guard']
    BY <1>1, <1>2, <1>3, <2>1, NowNext
  <2>3. list' = Now'
    BY <1>1, <1>2, ListIs
  <2> QED BY <1>1, <1>4, <2>1, <2>2, <2>3
<1>7. PICK key \in Key : TRUE
  BY DEF LinkedListAssumption
<1>8. greatest_key = -1
  BY <1>5 DEF Held, Keys
<1>9. Rest(<<>>, key) = <<>>
  BY DEF Rest, RemoveFirstMatch
<1>10. lremove(list, key) = [elems |-> <<>>, greatest_key |-> greatest_key, guard |-> 0]
  <2>1. key # greatest_key
    BY <1>8 DEF LinkedListAssumption
  <2> QED BY <1>5, <1>9, <2>1, LremoveIs
<1> QED BY <1>5, <1>6, <1>10 DEF ListStep

LEMMA LinkStep ==
  ASSUME LinkedListAssumption, Inv, Inv', NEW th \in Thread, Link(th),
         Chain' = Cons(at[th], Chain)
  PROVE  ListStep
<1> DEFINE a == at[th]
           c == Contents(Chain, mem)
           e == [key |-> mem[a].key, value |-> mem[a].value]
<1>1. /\ pc[th] = "ladd" /\ pc[th] \in Inside /\ pc[th] \notin {"clear", "free"}
      /\ greatest_key' = IF arg[th] > greatest_key THEN arg[th] ELSE greatest_key
      /\ guard' = 1 /\ mem' = mem
      /\ pc' = [pc EXCEPT ![th] = "idle"]
  BY DEF Link, Leave, Inside
<1>2. /\ arg[th] \in Key /\ InsideInv(th) /\ c \in Seq(Elem(Key, Value))
      /\ \A u \in Thread \ {th} : pc[u] \notin Inside
  BY <1>1, HasGuard
<1>3. /\ a \in Addr /\ mem[a] # Null /\ mem[a].key = arg[th] /\ mem[a].value # Null
      /\ before = Unchanged
  BY <1>1, <1>2 DEF InsideInv
<1>4. mem[a].value \in Value
  BY <1>3 DEF Inv, TypeOK, Element
<1>5. list = [elems |-> c, greatest_key |-> greatest_key, guard |-> 1]
  BY <1>1, <1>3, ListIs DEF Unchanged
<1>6. \A u \in Thread : pc'[u] \notin Inside
  BY <1>1, <1>2 DEF Inv, TypeOK, Inside
<1>7. Contents(Chain', mem') = Cons(e, c)
  <2>1. PICK q : q = Chain
    OBVIOUS
  <2>2. q \in Seq(Addr) /\ Contents(q, mem) \in Seq(Elem(Key, Value)) /\ e \in Elem(Key, Value)
    BY <1>2, <1>3, <1>4, <2>1 DEF Inv, ChainInv, Leads, Elem
  <2>3. Contents(Cons(a, q), mem) = Cons(e, Contents(q, mem))
    <3> HIDE DEF a
    <3> QED BY <1>3, <2>2, PushContents
  <2> QED BY <1>1, <2>1, <2>3
<1>8. list' = [elems |-> Cons(e, c), greatest_key |-> greatest_key', guard |-> 1]
  <2>1. PICK q : q = Chain'
    OBVIOUS
  <2>2. Leads(q, first', mem')
    BY <2>1 DEF Inv, ChainInv
  <2>3. size' = Len(q)
    <3>1. Len(Chain) \in Nat /\ size = Len(Chain) /\ size' = size + 1
      BY <1>1, HasGuard, InvFacts DEF Link
    <3>2. Len(Cons(a, Chain)) = Len(Chain) + 1
      <4>1. Leads(Chain, first, mem) /\ a \notin Linked /\ Linked = InSeq(Chain)
        BY <1>1, <1>2, InvFacts DEF Inv, ChainInv, InsideInv
      <4>2. Chain \in Seq(Addr) /\ <<a>> \in Seq(Addr) /\ Len(<<a>>) = 1
        BY <1>3, <4>1 DEF Leads
      <4>3. Len(<<a>> \o Chain) = 1 + Len(Chain)
        BY <4>2, ConcatProperties
      <4> QED BY <3>1, <4>3 DEF Cons
    <3> QED BY <2>1, <3>1, <3>2
  <2>4. Now' = [elems |-> Contents(q, mem'), greatest_key |-> greatest_key', guard |-> guard']
    BY <2>2, <2>3, NowNext
  <2>5. Contents(q, mem') = Cons(e, c)
    BY <2>1, <1>7
  <2> HIDE DEF e, c
  <2> QED BY <1>1, <1>6, <2>4, <2>5, ListIs
<1>9. ladd(list, arg[th], mem[a].value) = list'
  <2>1. e = [key |-> arg[th], value |-> mem[a].value]
    BY <1>3
  <2> HIDE DEF c
  <2>2. ladd(list, arg[th], mem[a].value)
          = [elems |-> Cons(e, c),
             greatest_key |-> IF arg[th] > greatest_key THEN arg[th] ELSE greatest_key,
             guard |-> 1]
    BY <1>5, <2>1, LaddIs, ListType
  <2> QED BY <1>1, <1>8, <2>2
<1> QED BY <1>2, <1>4, <1>5, <1>9 DEF ListStep

LEMMA RemoveNoneStep ==
  ASSUME LinkedListAssumption, Inv, Inv', NEW th \in Thread, RemoveNone(th), Chain' = Chain
  PROVE  ListStep
<1> DEFINE c == Contents(Chain, mem)
           key == arg[th]
<1>1. /\ pc[th] = "lremove" /\ pc[th] \in Inside /\ pc[th] \notin {"clear", "free"}
      /\ Match(key) = Null
      /\ greatest_key' = Rescan(key) /\ guard' = 1
      /\ mem' = mem /\ size' = size
      /\ pc' = [pc EXCEPT ![th] = "idle"]
  BY DEF RemoveNone, Leave, Inside
<1>2. /\ key \in Key /\ InsideInv(th) /\ c \in Seq(Elem(Key, Value))
      /\ \A u \in Thread \ {th} : pc[u] \notin Inside
  BY <1>1, HasGuard
<1>3. before = Unchanged /\ first # Null
  BY <1>1, <1>2 DEF InsideInv
<1>4. list = [elems |-> c, greatest_key |-> greatest_key, guard |-> 1]
  BY <1>1, <1>3, ListIs DEF Unchanged
<1>5. \A u \in Thread : pc'[u] \notin Inside
  BY <1>1, <1>2 DEF Inv, TypeOK, Inside
<1>6. size' = Len(Chain) /\ Len(Chain) # 0 /\ DOMAIN Chain = 1..Len(Chain) /\ Len(Chain) \in Nat
  BY <1>1, <1>3, HasGuard, InvFacts
<1>7. list' = [elems |-> c, greatest_key |-> greatest_key', guard |-> 1]
  <2>1. PICK q : q = Chain
    OBVIOUS
  <2>2. Leads(q, first', mem') /\ size' = Len(q)
    BY <2>1, <1>6 DEF Inv, ChainInv
  <2>3. Now' = [elems |-> Contents(q, mem'), greatest_key |-> greatest_key', guard |-> guard']
    BY <2>2, NowNext
  <2> QED BY <1>1, <1>5, <2>1, <2>3, ListIs
<1>8. c # <<>>
  <2>1. DOMAIN c = 1..Len(Chain)
    BY <1>6 DEF Contents
  <2>2. 1 \in 1..Len(Chain)
    BY <1>6
  <2> QED BY <2>1, <2>2
<1>9. Rest(c, key) = c
  <2>1. PICK k : k = First(c, key)
    OBVIOUS
  <2>2. k # 0 => k \in DOMAIN Chain /\ Match(key) = Chain[k]
    BY <2>1, MatchIs DEF Inv
  <2>3. k = 0
    BY <1>1, <2>2, InvFacts
  <2> HIDE DEF c
  <2> QED BY <1>2, <2>1, <2>3, RestOfFirst
<1>10. greatest_key' = IF key = greatest_key THEN GreatestKey(c) ELSE greatest_key
  BY <1>1, RescanIs DEF Inv
<1>11. lremove(list, key) = list'
  <2> HIDE DEF c
  <2>1. /\ list.elems = c /\ list.greatest_key = greatest_key
        /\ list' = [elems |-> c, greatest_key |-> greatest_key', guard |-> 1]
    BY <1>4, <1>7
  <2> QED BY <2>1, <1>8, <1>9, <1>10, LremoveIs
<1> QED BY <1>2, <1>4, <1>11 DEF ListStep

LEMMA FreeStep ==
  ASSUME LinkedListAssumption, Inv, Inv', NEW th \in Thread, Free(th), Chain' = Chain,
         Contents(Chain, mem)' = Contents(Chain, mem)
  PROVE  ListStep
<1> DEFINE c == Contents(Chain, mem)
           key == arg[th]
<1>1. /\ pc[th] = "free" /\ pc[th] \in Inside
      /\ greatest_key' = Rescan(key) /\ guard' = 1
      /\ size' = size - 1
      /\ pc' = [pc EXCEPT ![th] = "idle"]
  BY DEF Free, Leave, Inside
<1>2. /\ key \in Key /\ InsideInv(th)
      /\ size = Len(Chain) + 1
      /\ \A u \in Thread \ {th} : pc[u] \notin Inside
  BY <1>1, HasGuard
<1>3. /\ before.elems # <<>> /\ Rest(before.elems, key) = c
      /\ before.greatest_key = greatest_key /\ before.guard = 1
      /\ list = before
  BY <1>1, <1>2, ListIs DEF InsideInv
<1>4. \A u \in Thread : pc'[u] \notin Inside
  BY <1>1, <1>2 DEF Inv, TypeOK, Inside
<1>5. size' = Len(Chain)
  BY <1>1, <1>2, InvFacts
<1>6. list' = [elems |-> c, greatest_key |-> greatest_key', guard |-> 1]
  <2>1. PICK q : q = Chain
    OBVIOUS
  <2>2. Leads(q, first', mem') /\ size' = Len(q)
    BY <2>1, <1>5 DEF Inv, ChainInv
  <2>3. Now' = [elems |-> Contents(q, mem'), greatest_key |-> greatest_key', guard |-> guard']
    BY <2>2, NowNext
  <2>4. Contents(q, mem') = c
    BY <2>1
  <2> HIDE DEF c
  <2> QED BY <1>1, <1>4, <2>3, <2>4, ListIs
<1>7. greatest_key' = IF key = greatest_key THEN GreatestKey(c) ELSE greatest_key
  BY <1>1, RescanIs DEF Inv
<1>8. lremove(list, key) = list'
  <2> HIDE DEF c, key
  <2> QED BY <1>3, <1>6, <1>7, LremoveIs
<1> QED BY <1>2, <1>3, <1>8 DEF ListStep

LEMMA ReaderStep ==
  ASSUME LinkedListAssumption, Inv, NEW th \in Thread,
         \/ \E key \in Key : Find(th, key)
         \/ Return(th) \/ Loop(th) \/ Body(th) \/ Step(th)
  PROVE  list' = list
<1>1. UNCHANGED <<listVars, before>> /\ pc[th] \notin Inside
  BY DEF Find, Return, Loop, Body, Step, Fail, Call, Inside
<1>2. \A u \in Thread : pc[u] \in Inside <=> pc'[u] \in Inside
  BY DEF Find, Return, Loop, Body, Step, Fail, Call, Inside, Inv, TypeOK
<1>3. Chain' = Chain
  BY <1>1, InvFacts, SameChain DEF listVars
<1>4. Now' = Now
  BY <1>1, <1>3 DEF Now, listVars
<1> QED BY <1>1, <1>2, <1>4 DEF list, InTheGuard

LEMMA NextListStep ==
  ASSUME LinkedListAssumption, Inv, Inv', Held(list), [Next]_vars
  PROVE  ListStep
<1>1. CASE UNCHANGED vars
  BY <1>1, StutterKeeps DEF ListStep
<1>2. CASE Next
  <2>1. PICK th \in Thread :
          \/ \E a \in Addr, key \in Key, value \in Value : Allocate(th, a, key, value)
          \/ \E key \in Key : RemoveKey(th, key) \/ Find(th, key)
          \/ RemoveNothing(th) \/ Link(th)
          \/ UnlinkFirst(th) \/ UnlinkNext(th) \/ RemoveNone(th) \/ Clear(th) \/ Free(th)
          \/ Return(th)
          \/ Loop(th) \/ Body(th) \/ Step(th)
    BY <1>2 DEF Next
  <2>2. fault = Null
    BY <1>2 DEF Next
  <2>3. CASE \/ \E a \in Addr, key \in Key, value \in Value : Allocate(th, a, key, value)
             \/ \E key \in Key : RemoveKey(th, key)
    <3>1. Enter(th) /\ pc'[th] \in Inside
      BY <2>3 DEF Allocate, RemoveKey, Inv, TypeOK, Inside
    <3> QED BY <3>1, EnterStep DEF ListStep
  <2>4. CASE UnlinkFirst(th) \/ UnlinkNext(th) \/ Clear(th)
    <3>1. pc[th] \in Inside /\ pc'[th] \in Inside /\ before' = before
      BY <2>4 DEF UnlinkFirst, UnlinkNext, Clear, Inv, TypeOK, Inside
    <3> QED BY <3>1, ListIs DEF ListStep
  <2>5. CASE \/ \E key \in Key : Find(th, key)
             \/ Return(th) \/ Loop(th) \/ Body(th) \/ Step(th)
    BY <2>5, ReaderStep DEF ListStep
  <2>6. CASE RemoveNothing(th)
    BY <2>6, RemoveNothingStep
  <2>7. CASE Link(th)
    BY <2>2, <2>7, LinkKeeps, LinkStep
  <2>8. CASE RemoveNone(th)
    BY <2>2, <2>8, RemoveNoneKeeps, RemoveNoneStep
  <2>9. CASE Free(th)
    BY <2>2, <2>9, FreeKeeps, FreeStep
  <2> QED BY <2>1, <2>3, <2>4, <2>5, <2>6, <2>7, <2>8, <2>9
<1> QED BY <1>1, <1>2

LEMMA HeldNext ==
  ASSUME LinkedListAssumption, Inv, Held(list), ListStep
  PROVE  Held(list')
BY ListType, AddedHeld, RemovedHeld DEF ListStep

LEMMA HeldInit ==
  ASSUME list = NewList
  PROVE  Held(list)
BY DEF Held, NewList

-----------------------------------------------------------------------------
(* Every variable keeps to its type: what ladd() and lremove() follow is   *)
(* an address of an element or NULL.                                       *)
THEOREM TypeCorrect == ASSUME LinkedListAssumption PROVE Spec => []TypeOK
<1>1. Init => Inv
  BY InitInv
<1>2. Inv /\ [Next]_vars => Inv'
  BY NextKeeps
<1>3. Inv => TypeOK
  BY DEF Inv
<1> QED BY <1>1, <1>2, <1>3, PTL DEF Spec

(* A loop without the guard, and lfind() after its sem_post, come upon     *)
(* freed memory or a cleared value only at an element that was removed     *)
(* while they were at it.                                                  *)
THEOREM KnownFaults == ASSUME LinkedListAssumption PROVE Spec => []FaultsAsKnown
<1>1. Init => Inv
  BY InitInv
<1>2. Inv /\ [Next]_vars => Inv'
  BY NextKeeps
<1>3. Inv => FaultsAsKnown
  BY DEF Inv
<1> QED BY <1>1, <1>2, <1>3, PTL DEF Spec

(* A thread that ends its loop, or its lfind(), is one that steps on to    *)
(* NULL, or that returns.                                                  *)
LEMMA EndsWith ==
  ASSUME LinkedListAssumption, Inv, [Next]_vars, NEW th \in Thread, pc'[th] = "idle"
  PROVE  /\ pc[th] = "step" => Step(th) /\ mem[at[th]] # Null
         /\ pc[th] = "lfind" => Return(th) /\ mem[at[th]] # Null
<1> SUFFICES ASSUME pc[th] \in {"step", "lfind"}
             PROVE  /\ mem[at[th]] # Null
                    /\ pc[th] = "step" => Step(th)
                    /\ pc[th] = "lfind" => Return(th)
  OBVIOUS
<1> pc \in [Thread -> {"idle"} \cup Inside \cup Reading]
  BY DEF Inv, TypeOK
<1>1. Next
  BY DEF vars
<1>2. PICK u \in Thread :
        \/ \E a \in Addr, key \in Key, value \in Value : Allocate(u, a, key, value)
        \/ \E key \in Key : RemoveKey(u, key) \/ Find(u, key)
        \/ RemoveNothing(u) \/ Link(u)
        \/ UnlinkFirst(u) \/ UnlinkNext(u) \/ RemoveNone(u) \/ Clear(u) \/ Free(u)
        \/ Return(u)
        \/ Loop(u) \/ Body(u) \/ Step(u)
  BY <1>1 DEF Next
<1>3. CASE u # th
  <2>1. pc'[th] = pc[th]
    BY <1>2, <1>3 DEF Allocate, RemoveKey, Find, RemoveNothing, Link, UnlinkFirst, UnlinkNext,
       RemoveNone, Clear, Free, Return, Loop, Body, Step, Fail, Leave
  <2> QED BY <2>1
<1>4. CASE u = th
  <2>1. Return(th) \/ Step(th)
    BY <1>2, <1>4 DEF Allocate, RemoveKey, Find, RemoveNothing, Link, UnlinkFirst, UnlinkNext,
       RemoveNone, Clear, Free, Return, Loop, Body, Step, Fail, Leave, Enter, Call
  <2> QED BY <2>1 DEF Return, Step, Fail
<1> QED BY <1>3, <1>4

(* A loop without the guard that comes to its end has been at all that was *)
(* in the list from its beginning on: the invariant says that what is left *)
(* to visit can be reached from where it is, and from NULL nothing can.    *)
THEOREM SeesAll == ASSUME LinkedListAssumption PROVE Spec => LoopsSeeAll
<1>1. Init => Inv
  BY InitInv
<1>2. Inv /\ [Next]_vars => Inv'
  BY NextKeeps
<1>3. Inv /\ [Next]_vars =>
        [\A th \in Thread :
           pc[th] = "step" /\ pc'[th] = "idle" => there[th] \subseteq visited[th]]_vars
  <2> SUFFICES ASSUME Inv, [Next]_vars,
                      NEW th \in Thread, pc[th] = "step", pc'[th] = "idle",
                      NEW b \in there[th], b \notin visited[th]
               PROVE  FALSE
    OBVIOUS
  <2>1. Step(th) /\ mem[at[th]] # Null
    BY EndsWith
  <2>2. mem[at[th]].next = Null
    BY <2>1 DEF Step, Inv, TypeOK
  <2>3. Reaches(Chain, mem[at[th]].next, b)
    BY <2>1 DEF Inv, ThreadInv, LoopInv
  <2> QED BY <2>2, <2>3, ReachesAll
<1> QED BY <1>1, <1>2, <1>3, PTL DEF Spec, LoopsSeeAll

(* lfind() returns the value it found under the guard, unless its element  *)
(* was removed before it read it.                                          *)
THEOREM FoundIsReturned == ASSUME LinkedListAssumption PROVE Spec => FindsWhatWasThere
<1>1. Init => Inv
  BY InitInv
<1>2. Inv /\ [Next]_vars => Inv'
  BY NextKeeps
<1>3. Inv /\ [Next]_vars =>
        [\A th \in Thread :
           pc[th] = "lfind" /\ pc'[th] = "idle" => answer'[th] = found[th] \/ gone[th]]_vars
  <2> SUFFICES ASSUME Inv, [Next]_vars,
                      NEW th \in Thread, pc[th] = "lfind", pc'[th] = "idle", ~gone[th]
               PROVE  answer'[th] = found[th]
    OBVIOUS
  <2>1. Return(th) /\ mem[at[th]] # Null
    BY EndsWith
  <2>2. answer'[th] = mem[at[th]].value
    BY <2>1 DEF Return, Inv, TypeOK
  <2>3. mem[at[th]].value = found[th]
    BY DEF Inv, ThreadInv, ReadInv, Reading
  <2> QED BY <2>2, <2>3
<1> QED BY <1>1, <1>2, <1>3, PTL DEF Spec, FindsWhatWasThere

(* The pointers, the semaphore and the four stretches of lremove() are the *)
(* list that Lists describes: ladd() changes it when it links its element, *)
(* lremove() when it is through.                                           *)
THEOREM Implementation == ASSUME LinkedListAssumption PROVE Spec => ImplementsKeyedList
<1>1. Init => Inv /\ Held(list) /\ Abstract!Init
  BY InitInv, HeldInit, AbstractFunctions
<1>2. Inv /\ Held(list) /\ [Next]_vars => Inv' /\ Held(list)' /\ [Abstract!Next]_list
  <2> SUFFICES ASSUME Inv, Held(list), [Next]_vars
               PROVE  Inv' /\ Held(list)' /\ [Abstract!Next]_list
    OBVIOUS
  <2>1. Inv'
    BY NextKeeps
  <2>2. ListStep
    BY <2>1, NextListStep
  <2>3. Held(list')
    BY <2>2, HeldNext
  <2>4. Held(list)'
    BY <2>3 DEF Held, Keys
  <2>5. [Abstract!Next]_list
    BY <2>2, AbstractFunctions DEF ListStep
  <2> QED BY <2>1, <2>4, <2>5
<1> QED BY <1>1, <1>2, PTL DEF Spec, ImplementsKeyedList, Abstract!Spec
=============================================================================
