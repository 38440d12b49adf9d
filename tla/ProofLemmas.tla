---------------------------- MODULE ProofLemmas -----------------------------
(***************************************************************************)
(* What the proofs about several modules rest on: induction over the       *)
(* natural numbers and functions defined by recursion on them, stated of   *)
(* sets and functions, and facts about lists of ids and positions.  The    *)
(* models write what the code does in a loop as a recursive function: the  *)
(* lemmas say that there is such a function, without which nothing         *)
(* follows from its equation.                                              *)
(***************************************************************************)
EXTENDS IdLists, FiniteSetTheorems, SequenceTheorems, WellFoundedInduction, TLAPS

-----------------------------------------------------------------------------
(* Natural numbers. *)

\* A set of natural numbers that is not empty has a least element.
LEMMA LeastNatural ==
    ASSUME NEW T \in SUBSET Nat, T # {}
    PROVE  \E m \in T : \A n \in T : m <= n
  <1> DEFINE R == {p \in Nat \X Nat : p[1] < p[2]}
  <1>1. IsWellFoundedOn(R, Nat)
    BY NatLessThanWellFounded DEF OpToRel
  <1>2. \A i, j \in Nat : <<i, j>> \in R <=> i < j
    OBVIOUS
  <1> HIDE DEF R
  <1>3. PICK m \in T : \A n \in T : ~(<<n, m>> \in R)
    BY <1>1, WFMin
  <1>4. \A n \in T : ~(n < m) /\ n \in Nat /\ m \in Nat
    BY <1>2, <1>3
  <1>5. \A n \in T : m <= n
    BY <1>4
  <1> QED BY <1>5

\* Induction.
LEMMA Induction ==
    ASSUME NEW T, 0 \in T, \A n \in Nat : n \in T => n + 1 \in T
    PROVE  \A n \in Nat : n \in T
  <1> SUFFICES ASSUME NEW k \in Nat, k \notin T PROVE FALSE
    OBVIOUS
  <1> DEFINE Rest == Nat \ T
  <1>1. Rest \in SUBSET Nat /\ Rest # {}
    OBVIOUS
  <1>2. PICK m \in Rest : \A n \in Rest : m <= n
    BY <1>1, LeastNatural
  <1>3. m \in Nat /\ m # 0
    BY <1>2
  <1>4. m - 1 \in Nat /\ m - 1 \in T
    BY <1>2, <1>3
  <1> QED BY <1>2, <1>3, <1>4

\* What is repeated any number of times: the values of a loop without end.
LEMMA Iteration ==
    ASSUME NEW S, NEW base \in S, NEW step \in [S -> S]
    PROVE  \E f \in [Nat -> S] : /\ f[0] = base
                                 /\ \A n \in Nat : f[n + 1] = step[f[n]]
  <1> DEFINE Starts(n) == {g \in [0 .. n -> S] :
                               g[0] = base /\ \A i \in 0 .. (n - 1) : g[i + 1] = step[g[i]]}
  <1> DEFINE IsStart(g, n) == /\ g \in [0 .. n -> S]
                              /\ g[0] = base /\ \A i \in 0 .. (n - 1) : g[i + 1] = step[g[i]]
  <1>0. \A n, g : g \in Starts(n) <=> IsStart(g, n)
    OBVIOUS
  <1> HIDE DEF Starts
  <1>1. \A n \in Nat : Starts(n) # {}
    <2> DEFINE T == {n \in Nat : Starts(n) # {}}
    <2>1. 0 \in T
      <3> DEFINE first == [i \in 0 .. 0 |-> base]
      <3>1. IsStart(first, 0)
        OBVIOUS
      <3> HIDE DEF IsStart, first
      <3>2. first \in Starts(0)
        BY <1>0, <3>1
      <3> QED BY <3>2
    <2>2. ASSUME NEW n \in Nat, n \in T PROVE n + 1 \in T
      <3>1. PICK g \in Starts(n) : TRUE
        BY <2>2
      <3> DEFINE h == [i \in 0 .. (n + 1) |-> IF i \in 0 .. n THEN g[i] ELSE step[g[n]]]
      <3>2. g \in [0 .. n -> S] /\ g[0] = base /\ \A i \in 0 .. (n - 1) : g[i + 1] = step[g[i]]
        BY <1>0, <3>1
      <3>3. h \in [0 .. (n + 1) -> S] /\ h[0] = base
        BY <3>2
      <3>4. ASSUME NEW i \in 0 .. (n + 1 - 1) PROVE h[i + 1] = step[h[i]]
        <4>1. CASE i = n
          BY <4>1
        <4>2. CASE i # n
          BY <3>2, <4>2
        <4> QED BY <4>1, <4>2
      <3>5. h \in Starts(n + 1)
        <4>1. IsStart(h, n + 1)
          BY <3>3, <3>4
        <4> HIDE DEF IsStart, h
        <4> QED BY <1>0, <4>1
      <3> HIDE DEF h
      <3> QED BY <3>5
    <2> HIDE DEF T
    <2>3. \A n \in Nat : n \in T
      BY <2>1, <2>2, Induction
    <2> QED BY <2>3 DEF T
  <1> DEFINE Agree(i) == \A n, m \in Nat : \A g \in Starts(n), h \in Starts(m) :
                             i <= n /\ i <= m => g[i] = h[i]
  <1>2. \A i \in Nat : Agree(i)
    <2> DEFINE T == {i \in Nat : Agree(i)}
    <2>1. 0 \in T
      BY <1>0
    <2>2. ASSUME NEW i \in Nat, i \in T PROVE i + 1 \in T
      <3> SUFFICES ASSUME NEW n \in Nat, NEW m \in Nat, NEW g \in Starts(n), NEW h \in Starts(m),
                          i + 1 <= n, i + 1 <= m
                   PROVE  g[i + 1] = h[i + 1]
        OBVIOUS
      <3>1. Agree(i) /\ i <= n /\ i <= m
        BY <2>2
      <3>2. g[i] = h[i]
        BY <3>1
      <3>3. i \in 0 .. (n - 1) /\ i \in 0 .. (m - 1)
        OBVIOUS
      <3>4. g[i + 1] = step[g[i]] /\ h[i + 1] = step[h[i]]
        BY <1>0, <3>3
      <3> QED BY <3>2, <3>4
    <2> HIDE DEF T
    <2>3. \A i \in Nat : i \in T
      BY <2>1, <2>2, Induction
    <2> QED BY <2>3 DEF T
  <1> DEFINE start(n) == CHOOSE g \in Starts(n) : TRUE
             f == [n \in Nat |-> start(n)[n]]
  <1>3. \A n \in Nat : start(n) \in Starts(n)
    BY <1>1
  <1> HIDE DEF start
  <1>4. f \in [Nat -> S]
    BY <1>0, <1>3
  <1>5. f[0] = base
    BY <1>0, <1>3
  <1>6. ASSUME NEW n \in Nat PROVE f[n + 1] = step[f[n]]
    <2>1. start(n + 1) \in Starts(n + 1) /\ n \in 0 .. (n + 1 - 1)
      BY <1>3
    <2>2. start(n + 1)[n + 1] = step[start(n + 1)[n]]
      BY <1>0, <2>1
    <2>3. start(n + 1)[n] = start(n)[n]
      <3>1. start(n) \in Starts(n) /\ Agree(n) /\ n + 1 \in Nat /\ n <= n + 1 /\ n <= n
        BY <1>2, <1>3
      <3> HIDE DEF IsStart
      <3> QED BY <2>1, <3>1
    <2> QED BY <2>2, <2>3
  <1> QED BY <1>4, <1>5, <1>6

-----------------------------------------------------------------------------
(* Positions. *)

\* The last of a set of positions.
LEMMA MaxIsLast ==
    ASSUME NEW n \in Nat, NEW S \in SUBSET (1 .. n), S # {}
    PROVE  Max(S) \in S /\ \A i \in S : i <= Max(S)
  <1> DEFINE T == {n - i : i \in S}
  <1>1. T \in SUBSET Nat /\ T # {}
    <2>1. \A i \in S : i \in 1 .. n
      OBVIOUS
    <2>2. \A i \in S : n - i \in Nat
      BY <2>1
    <2>3. PICK i \in S : TRUE
      OBVIOUS
    <2>4. n - i \in T
      BY <2>3
    <2> QED BY <2>2, <2>4
  <1>2. PICK m \in T : \A k \in T : m <= k
    <2> HIDE DEF T
    <2> QED BY <1>1, LeastNatural
  <1>3. PICK last \in S : m = n - last
    BY <1>2
  <1>4. \A i \in S : i <= last
    <2> SUFFICES ASSUME NEW i \in S PROVE i <= last
      OBVIOUS
    <2>1. n - last <= n - i
      BY <1>2, <1>3
    <2> QED BY <2>1
  <1>5. \A i \in S : last >= i
    BY <1>4
  <1>6. Max(S) \in S /\ \A i \in S : Max(S) >= i
    BY <1>5 DEF Max
  <1> QED BY <1>6

\* It is the only one with that property.
LEMMA MaxIsOnlyLast ==
    ASSUME NEW n \in Nat, NEW S \in SUBSET (1 .. n), NEW m \in S, \A i \in S : i <= m
    PROVE  Max(S) = m
  <1>1. Max(S) \in S /\ \A i \in S : i <= Max(S)
    BY MaxIsLast
  <1>2. Max(S) <= m /\ m <= Max(S)
    BY <1>1
  <1>3. Max(S) \in 1 .. n /\ m \in 1 .. n
    BY <1>1
  <1> QED BY <1>2, <1>3

-----------------------------------------------------------------------------
(* Lists of ids. *)

\* Adding an entry to a list.
LEMMA AppendType ==
    ASSUME NEW S, NEW s \in Seq(S), NEW e \in S
    PROVE  /\ Append(s, e) \in Seq(S) /\ Len(Append(s, e)) = Len(s) + 1
           /\ Append(s, e)[Len(s) + 1] = e
           /\ \A i \in 1 .. Len(s) : Append(s, e)[i] = s[i]
  BY AppendProperties

\* Taking the last entry of a list.
LEMMA FrontType ==
    ASSUME NEW S, NEW s \in Seq(S), Len(s) >= 1
    PROVE  /\ Front(s) \in Seq(S) /\ Len(Front(s)) = Len(s) - 1
           /\ \A i \in 1 .. (Len(s) - 1) : Front(s)[i] = s[i]
  <1> DEFINE n == Len(s) - 1
  <1>1. n \in Nat /\ \A i \in 1 .. n : s[i] \in S
    BY LenProperties, ElementOfSeq
  <1>2. Front(s) = SubSeq(s, 1, n)
    BY DEF Front
  <1> HIDE DEF n
  <1>3. /\ SubSeq(s, 1, n) \in Seq(S)
        /\ Len(SubSeq(s, 1, n)) = IF 1 <= n THEN n - 1 + 1 ELSE 0
        /\ \A i \in 1 .. n - 1 + 1 : SubSeq(s, 1, n)[i] = s[1 + i - 1]
    BY <1>1, SubSeqProperties
  <1>4. Len(SubSeq(s, 1, n)) = n /\ \A i \in 1 .. n : SubSeq(s, 1, n)[i] = s[i]
    BY <1>1, <1>3
  <1> QED BY <1>2, <1>3, <1>4 DEF n

LEMMA EmptyInOrder == InOrder(<<>>, {})
  BY DEF InOrder, Range

\* A later id goes to the end of a list.
LEMMA AppendInOrder ==
    ASSUME NEW list \in Seq(Nat), NEW ids, InOrder(list, ids),
           NEW id \in Nat, \A i \in ids : i < id
    PROVE  InOrder(Append(list, id), ids \cup {id})
  <1> DEFINE longer == Append(list, id)
  <1>1. /\ longer \in Seq(Nat) /\ Len(longer) = Len(list) + 1
        /\ \A i \in 1 .. Len(list) : longer[i] = list[i]
        /\ longer[Len(list) + 1] = id
    BY AppendProperties
  <1>2. Len(list) \in Nat /\ DOMAIN list = 1 .. Len(list) /\ DOMAIN longer = 1 .. (Len(list) + 1)
    BY <1>1, LenProperties
  <1> HIDE DEF longer
  <1>3. Range(longer) = ids \cup {id}
    <2>1. Range(longer) \subseteq ids \cup {id}
      BY <1>1, <1>2 DEF InOrder, Range
    <2>2. ids \subseteq Range(longer)
      <3> SUFFICES ASSUME NEW x \in ids PROVE x \in Range(longer)
        OBVIOUS
      <3>1. PICK i \in 1 .. Len(list) : list[i] = x
        BY <1>2 DEF InOrder, Range
      <3>2. i \in DOMAIN longer /\ longer[i] = x
        BY <1>1, <1>2, <3>1
      <3> QED BY <3>2 DEF Range
    <2>3. id \in Range(longer)
      BY <1>1, <1>2 DEF Range
    <2> QED BY <2>1, <2>2, <2>3
  <1>4. ASSUME NEW i \in DOMAIN longer, NEW j \in DOMAIN longer, i < j
        PROVE  longer[i] < longer[j]
    <2>1. i \in 1 .. Len(list) /\ longer[i] = list[i] /\ list[i] \in ids
      BY <1>1, <1>2, <1>4 DEF InOrder, Range
    <2>2. CASE j = Len(list) + 1
      BY <1>1, <2>1, <2>2
    <2>3. CASE j \in 1 .. Len(list)
      BY <1>1, <1>2, <1>4, <2>1, <2>3 DEF InOrder
    <2> QED BY <1>2, <2>2, <2>3
  <1> QED BY <1>3, <1>4 DEF InOrder, longer

\* Its last entry is the latest id; without it the list has the others.
LEMMA FrontInOrder ==
    ASSUME NEW list \in Seq(Nat), NEW ids, NEW id \in Nat, \A i \in ids : i < id,
           InOrder(list, ids \cup {id})
    PROVE  InOrder(Front(list), ids) /\ Len(list) >= 1
  <1> DEFINE n == Len(list)  shorter == Front(list)
  <1>1. n \in Nat /\ DOMAIN list = 1 .. n /\ \A i \in 1 .. n : list[i] \in Nat
    BY LenProperties, ElementOfSeq
  <1>2. Range(list) = ids \cup {id} /\ \A i, j \in 1 .. n : i < j => list[i] < list[j]
    BY <1>1 DEF InOrder
  <1>3. \A i \in 1 .. n : list[i] \in ids \cup {id}
    BY <1>1, <1>2 DEF Range
  <1>4. \A x \in ids \cup {id} : \E i \in 1 .. n : list[i] = x
    BY <1>1, <1>2 DEF Range
  <1>5. PICK k \in 1 .. n : list[k] = id
    BY <1>4
  <1>6. n >= 1
    BY <1>1, <1>5
  <1>7. list[n] = id
    <2> SUFFICES ASSUME k < n PROVE FALSE
      BY <1>1, <1>5
    <2>1. list[k] < list[n]
      BY <1>1, <1>2, <1>5
    <2>2. list[n] = id \/ list[n] < id
      BY <1>3, <1>6, <1>1
    <2> QED BY <1>1, <1>5, <1>6, <2>1, <2>2
  <1>8. /\ Len(shorter) = n - 1 /\ shorter \in Seq(Nat)
        /\ \A i \in 1 .. (n - 1) : shorter[i] = list[i]
    BY <1>6, FrontType
  <1>9. DOMAIN shorter = 1 .. (n - 1)
    BY <1>8, LenProperties
  <1> HIDE DEF n, shorter
  <1>10. \A i \in 1 .. (n - 1) : list[i] \in ids
    BY <1>1, <1>2, <1>3, <1>6, <1>7
  <1>11. \A x \in ids : \E i \in 1 .. (n - 1) : list[i] = x
    BY <1>1, <1>4, <1>7
  <1>12. Range(shorter) = ids
    BY <1>8, <1>9, <1>10, <1>11 DEF Range
  <1>13. \A i, j \in DOMAIN shorter : i < j => shorter[i] < shorter[j]
    BY <1>1, <1>2, <1>8, <1>9
  <1> QED BY <1>6, <1>12, <1>13 DEF InOrder, n, shorter

\* A list in order is as long as there are ids.
LEMMA LengthInOrder ==
    ASSUME NEW list \in Seq(Nat), NEW ids, InOrder(list, ids)
    PROVE  Cardinality(ids) = Len(list)
  <1>1. Len(list) \in Nat /\ DOMAIN list = 1 .. Len(list) /\ list \in [1 .. Len(list) -> Nat]
    BY LenProperties
  <1>2. Range(list) = ids /\ \A i, j \in DOMAIN list : i < j => list[i] < list[j]
    BY DEF InOrder
  <1>3. list \in [1 .. Len(list) -> ids]
    BY <1>1, <1>2 DEF Range
  <1>4. \A i, j \in 1 .. Len(list) : i # j => list[i] # list[j]
    BY <1>1, <1>2
  <1>5. list \in Bijection(1 .. Len(list), ids)
    BY <1>1, <1>2, <1>3, <1>4 DEF Bijection, Injection, IsInjective, Surjection, Range
  <1> QED BY <1>1, <1>5, FS_CountingElements DEF ExistsBijection

-----------------------------------------------------------------------------
(* Sorting. *)

\* Each entry of a list is in one place of its order.
Permutes(q, n, list, order) ==
    /\ q \in [1 .. n -> 1 .. n]
    /\ \A i \in 1 .. n : order[i] = list[q[i]]
    /\ \A k \in 1 .. n : \E i \in 1 .. n : q[i] = k
    /\ \A i, j \in 1 .. n : i # j => q[i] # q[j]

\* What a list is after its entries were put in another order.
LEMMA OrderFacts ==
    ASSUME NEW n \in Nat, NEW list, DOMAIN list = 1 .. n, NEW order \in Orders(list)
    PROVE  /\ DOMAIN order = 1 .. n /\ order = [i \in 1 .. n |-> order[i]]
           /\ \E q : Permutes(q, n, list, order)
  <1>1. PICK q \in [1 .. n -> 1 .. n] : Range(q) = 1 .. n /\ order = [i \in 1 .. n |-> list[q[i]]]
    BY DEF Orders
  <1>2. \A k \in 1 .. n : \E i \in 1 .. n : q[i] = k
    BY <1>1 DEF Range
  <1>3. IsFiniteSet(1 .. n)
    BY FS_Interval
  <1>4. q \in Surjection(1 .. n, 1 .. n)
    BY <1>2 DEF Surjection
  <1>5. q \in Injection(1 .. n, 1 .. n)
    BY <1>3, <1>4, FS_SurjSameCardinalityImpliesInj
  <1>6. \A i, j \in 1 .. n : i # j => q[i] # q[j]
    BY <1>5 DEF Injection, IsInjective
  <1> QED BY <1>1, <1>2, <1>6 DEF Permutes

LEMMA OrderType ==
    ASSUME NEW S, NEW list \in Seq(S), NEW order \in Orders(list)
    PROVE  order \in Seq(S)
  <1>1. PICK n \in Nat : DOMAIN list = 1 .. n /\ \A i \in 1 .. n : list[i] \in S
    BY LenProperties, ElementOfSeq
  <1>2. DOMAIN order = 1 .. n /\ order = [i \in 1 .. n |-> order[i]]
    BY <1>1, OrderFacts
  <1>3. PICK q : Permutes(q, n, list, order)
    BY <1>1, OrderFacts
  <1>4. \A i \in 1 .. n : order[i] \in S
    BY <1>1, <1>3 DEF Permutes
  <1>5. order \in [1 .. n -> S]
    BY <1>2, <1>4
  <1> QED BY <1>5, IsASeq

\* Any set of numbers below a bound can be listed in order.
LEMMA ListedInOrder ==
    ASSUME NEW bound \in Nat, NEW ids \in SUBSET (0 .. (bound - 1))
    PROVE  \E list \in Seq(Nat) : InOrder(list, ids)
  <1> DEFINE Listable(n) == \A set \in SUBSET (0 .. (n - 1)) :
                                \E list \in Seq(Nat) : InOrder(list, set)
  <1>1. Listable(0)
    <2> SUFFICES ASSUME NEW set \in SUBSET (0 .. (0 - 1))
                 PROVE  \E list \in Seq(Nat) : InOrder(list, set)
      OBVIOUS
    <2>1. set = {}
      OBVIOUS
    <2>2. <<>> \in Seq(Nat)
      BY EmptySeq
    <2> QED BY <2>1, <2>2, EmptyInOrder
  <1>2. ASSUME NEW n \in Nat, Listable(n) PROVE Listable(n + 1)
    <2> SUFFICES ASSUME NEW set \in SUBSET (0 .. (n + 1 - 1))
                 PROVE  \E list \in Seq(Nat) : InOrder(list, set)
      OBVIOUS
    <2>1. set \ {n} \in SUBSET (0 .. (n - 1)) /\ \A i \in set \ {n} : i < n
      OBVIOUS
    <2>2. PICK list \in Seq(Nat) : InOrder(list, set \ {n})
      BY <1>2, <2>1
    <2>3. CASE n \notin set
      BY <2>2, <2>3, set \ {n} = set
    <2>4. CASE n \in set
      <3>1. InOrder(Append(list, n), (set \ {n}) \cup {n})
        BY <2>1, <2>2, AppendInOrder
      <3>2. Append(list, n) \in Seq(Nat)
        BY AppendProperties
      <3> QED BY <2>4, <3>1, <3>2, (set \ {n}) \cup {n} = set
    <2> QED BY <2>3, <2>4
  <1> HIDE DEF Listable
  <1> DEFINE T == {n \in Nat : Listable(n)}
  <1>3. 0 \in T /\ \A n \in Nat : n \in T => n + 1 \in T
    BY <1>1, <1>2
  <1> HIDE DEF T
  <1>4. bound \in T
    BY <1>3, Induction
  <1>5. Listable(bound)
    BY <1>4 DEF T
  <1> QED BY <1>5 DEF Listable

\* Sorting a list of different ids puts them in order.
LEMMA SortedInOrder ==
    ASSUME NEW list \in Seq(Nat), \A i, j \in DOMAIN list : i # j => list[i] # list[j],
           NEW bound \in Nat, \A i \in DOMAIN list : list[i] < bound,
           NEW sorted, sorted = Sorted(list)
    PROVE  InOrder(sorted, Range(list))
  <1>a. PICK n \in Nat : n = Len(list) /\ DOMAIN list = 1 .. n
    BY LenProperties
  <1>b. PICK ids : ids = Range(list)
    OBVIOUS
  <1>1. \A i \in 1 .. n : list[i] \in Nat /\ list[i] < bound /\ list[i] \in ids
    BY <1>a, <1>b, ElementOfSeq DEF Range
  <1>2. \A id \in ids : \E i \in 1 .. n : list[i] = id
    BY <1>a, <1>b DEF Range
  <1> DEFINE InPlace(o) == \A i, j \in DOMAIN o : i < j => ~(o[j] < o[i])
  <1>4. \E o \in Orders(list) : InPlace(o)
    <2>1. ids \in SUBSET (0 .. (bound - 1))
      BY <1>1, <1>2
    <2>2. PICK line \in Seq(Nat) : InOrder(line, ids)
      BY <2>1, ListedInOrder
    <2>3. Len(line) = n
      <3>1. list \in Bijection(1 .. n, ids)
        <4>1. list \in [1 .. n -> ids]
          BY <1>a, <1>1, LenProperties
        <4> QED BY <1>a, <1>2, <4>1 DEF Bijection, Injection, IsInjective, Surjection
      <3>2. Cardinality(ids) = n
        BY <3>1, FS_CountingElements DEF ExistsBijection
      <3> QED BY <2>2, <3>2, LengthInOrder
    <2>4. DOMAIN line = 1 .. n /\ line = [i \in 1 .. n |-> line[i]]
      BY <2>2, <2>3, LenProperties
    <2>5. /\ \A i \in 1 .. n : line[i] \in ids /\ line[i] \in Nat
          /\ \A id \in ids : \E i \in 1 .. n : line[i] = id
          /\ \A i, j \in 1 .. n : i < j => line[i] < line[j]
      BY <2>2, <2>3, <2>4, ElementOfSeq DEF InOrder, Range
    <2> DEFINE place(i) == CHOOSE k \in 1 .. n : list[k] = line[i]
               p == [i \in 1 .. n |-> place(i)]
    <2>6. \A i \in 1 .. n : place(i) \in 1 .. n /\ list[place(i)] = line[i]
      BY <1>2, <2>5
    <2> HIDE DEF place
    <2>7. p \in [1 .. n -> 1 .. n] /\ \A i \in 1 .. n : list[p[i]] = line[i]
      BY <2>6
    <2>8. Range(p) = 1 .. n
      <3>1. ASSUME NEW k \in 1 .. n PROVE \E i \in 1 .. n : p[i] = k
        <4>1. PICK i \in 1 .. n : line[i] = list[k]
          BY <1>1, <2>5
        <4>2. list[p[i]] = list[k] /\ p[i] \in 1 .. n
          BY <2>7, <4>1
        <4> QED BY <1>a, <4>2
      <3> QED BY <2>7, <3>1 DEF Range
    <2> HIDE DEF p
    <2>9. line = [i \in DOMAIN list |-> list[p[i]]]
      BY <1>a, <2>4, <2>7
    <2>10. line \in Orders(list)
      BY <1>a, <2>7, <2>8, <2>9 DEF Orders
    <2>11. \A i, j \in DOMAIN line : i < j => ~(line[j] < line[i])
      BY <2>4, <2>5
    <2> QED BY <2>10, <2>11
  <1>5. sorted \in Orders(list) /\ InPlace(sorted)
    <2>1. sorted = CHOOSE o \in Orders(list) : InPlace(o)
      BY DEF Sorted
    <2> HIDE DEF InPlace
    <2> QED BY <1>4, <2>1
  <1>6. DOMAIN sorted = 1 .. n
    BY <1>5, <1>a, OrderFacts
  <1> HIDE DEF InPlace
  <1>c. PICK q : Permutes(q, n, list, sorted)
    BY <1>5, <1>a, OrderFacts
  <1>7. /\ q \in [1 .. n -> 1 .. n]
        /\ \A i \in 1 .. n : sorted[i] = list[q[i]]
        /\ \A k \in 1 .. n : \E i \in 1 .. n : q[i] = k
        /\ \A i, j \in 1 .. n : i # j => q[i] # q[j]
    BY <1>c DEF Permutes
  <1>8. Range(sorted) = ids
    <2>1. Range(sorted) \subseteq ids
      <3>1. \A i \in 1 .. n : sorted[i] \in ids
        BY <1>1, <1>7
      <3> QED BY <1>6, <3>1 DEF Range
    <2>2. ASSUME NEW id \in ids PROVE id \in Range(sorted)
      <3>1. PICK k \in 1 .. n : list[k] = id
        BY <1>2
      <3>2. PICK i \in 1 .. n : q[i] = k
        BY <1>7
      <3>3. i \in DOMAIN sorted /\ sorted[i] = id
        BY <1>6, <1>7, <3>1, <3>2
      <3> QED BY <3>3 DEF Range
    <2> QED BY <2>1, <2>2
  <1>9. ASSUME NEW i \in DOMAIN sorted, NEW j \in DOMAIN sorted, i < j
        PROVE  sorted[i] < sorted[j]
    <2>1. i \in 1 .. n /\ j \in 1 .. n /\ q[i] \in 1 .. n /\ q[j] \in 1 .. n /\ q[i] # q[j]
      BY <1>6, <1>7, <1>9
    <2>2. sorted[i] = list[q[i]] /\ sorted[j] = list[q[j]] /\ list[q[i]] # list[q[j]]
      BY <1>7, <1>a, <2>1
    <2>3. sorted[i] \in Nat /\ sorted[j] \in Nat
      BY <1>1, <2>1, <2>2
    <2>4. ~(sorted[j] < sorted[i])
      BY <1>5, <1>9 DEF InPlace
    <2>5. sorted[i] # sorted[j]
      BY <2>2
    <2>6. \A a, b \in Nat : ~(b < a) /\ a # b => a < b
      OBVIOUS
    <2> QED BY <2>3, <2>4, <2>5, <2>6
  <1> QED BY <1>8, <1>9, <1>b DEF InOrder

-----------------------------------------------------------------------------
(* Going through a list, keeping some of its entries. *)

\* What is kept after an entry, if f is what is kept after each of those before it.
Keep(list, good, f, i) == IF list[i] \in good THEN Append(f[i - 1], list[i]) ELSE f[i - 1]

Different(list) == \A i, j \in DOMAIN list : i # j => list[i] # list[j]

\* A list with one more entry, which is a new one.
OneLonger(m, list, longer, entry) ==
    /\ DOMAIN list = 1 .. m /\ DOMAIN longer = 1 .. (m + 1) /\ longer[m + 1] = entry
    /\ \A i \in 1 .. m : longer[i] = list[i] /\ list[i] # entry

LEMMA OneMore ==
    ASSUME NEW m \in Nat, NEW list, NEW longer, NEW entry, Different(list),
           OneLonger(m, list, longer, entry)
    PROVE  Different(longer) /\ Range(longer) = Range(list) \cup {entry}
  <1> USE DEF OneLonger
  <1>1. \A i \in 1 .. (m + 1) : i \in 1 .. m \/ i = m + 1
    OBVIOUS
  <1>2. ASSUME NEW i \in 1 .. (m + 1), NEW j \in 1 .. (m + 1), i # j
        PROVE  longer[i] # longer[j]
    <2>1. CASE i \in 1 .. m /\ j \in 1 .. m
      BY <1>2, <2>1 DEF Different
    <2>2. CASE ~(i \in 1 .. m /\ j \in 1 .. m)
      BY <1>1, <1>2, <2>2
    <2> QED BY <2>1, <2>2
  <1>3. Range(longer) = {longer[i] : i \in 1 .. (m + 1)} /\ Range(list) = {list[i] : i \in 1 .. m}
    BY DEF Range
  <1>4. {longer[i] : i \in 1 .. (m + 1)} = {list[i] : i \in 1 .. m} \cup {entry}
    BY <1>1
  <1> QED BY <1>2, <1>3, <1>4 DEF Different

\* f is what is kept after each of the first n entries, of which all are in S.
KeepsFrom(S, n, list, good, f) ==
    /\ f \in [0 .. n -> Seq(S)] /\ f[0] = <<>>
    /\ \A i \in 1 .. n : f[i] = Keep(list, good, f, i)

\* The loop over a list has a result after each of its entries.
LEMMA KeepingEnds ==
    ASSUME NEW S, NEW list \in Seq(S), NEW good, NEW n \in Nat, n = Len(list)
    PROVE  \E f : KeepsFrom(S, n, list, good, f)
  <1> DEFINE Goes(k) == \E f \in [0 .. k -> Seq(S)] :
                            f[0] = <<>> /\ \A i \in 1 .. k : f[i] = Keep(list, good, f, i)
  <1>1. \A i \in 1 .. n : list[i] \in S
    BY ElementOfSeq
  <1>2. ASSUME NEW f, NEW i \in 1 .. n, f[i - 1] \in Seq(S)
        PROVE  Keep(list, good, f, i) \in Seq(S)
    BY <1>1, <1>2, AppendType DEF Keep
  <1>3. Goes(0)
    <2> DEFINE first == [i \in 0 .. 0 |-> <<>>]
    <2>1. <<>> \in Seq(S)
      BY EmptySeq
    <2>2. first \in [0 .. 0 -> Seq(S)] /\ first[0] = <<>>
      BY <2>1
    <2>3. \A i \in 1 .. 0 : first[i] = Keep(list, good, first, i)
      OBVIOUS
    <2> HIDE DEF first
    <2> QED BY <2>2, <2>3
  <1>4. ASSUME NEW k \in Nat, k + 1 <= n, Goes(k) PROVE Goes(k + 1)
    <2>1. PICK f \in [0 .. k -> Seq(S)] :
              f[0] = <<>> /\ \A i \in 1 .. k : f[i] = Keep(list, good, f, i)
      BY <1>4
    <2> DEFINE next == Keep(list, good, f, k + 1)
               g == [i \in 0 .. (k + 1) |-> IF i = k + 1 THEN next ELSE f[i]]
    <2>2. next \in Seq(S)
      BY <1>2, <1>4, <2>1
    <2> HIDE DEF next
    <2>3. g \in [0 .. (k + 1) -> Seq(S)] /\ g[0] = <<>> /\ g[k + 1] = next
          /\ \A i \in 0 .. k : g[i] = f[i]
      BY <2>1, <2>2
    <2> HIDE DEF g
    <2>4. ASSUME NEW i \in 1 .. (k + 1) PROVE g[i] = Keep(list, good, g, i)
      <3>1. CASE i = k + 1
        <4>1. g[i] = next /\ g[i - 1] = f[i - 1]
          BY <2>3, <3>1
        <4> QED BY <3>1, <4>1 DEF next, Keep
      <3>2. CASE i # k + 1
        <4>1. i \in 1 .. k /\ i \in 0 .. k /\ i - 1 \in 0 .. k
          BY <3>2
        <4>2. g[i] = f[i] /\ g[i - 1] = f[i - 1] /\ f[i] = Keep(list, good, f, i)
          BY <2>1, <2>3, <4>1
        <4> QED BY <4>2 DEF Keep
      <3> QED BY <3>1, <3>2
    <2> QED BY <2>3, <2>4
  <1> HIDE DEF Goes
  <1> DEFINE T == {k \in Nat : k <= n => Goes(k)}
  <1>5. 0 \in T /\ \A k \in Nat : k \in T => k + 1 \in T
    BY <1>3, <1>4
  <1> HIDE DEF T
  <1>6. n \in T
    BY <1>5, Induction
  <1>7. Goes(n)
    BY <1>6 DEF T
  <1> QED BY <1>7 DEF Goes, KeepsFrom

\* Its last result lists the entries that were to be kept, each once if the list
\* has each once.
LEMMA KeptEntries ==
    ASSUME NEW list \in Seq(Nat), Different(list), NEW good, NEW n \in Nat, n = Len(list),
           NEW f, f[0] = <<>>, \A i \in 1 .. n : f[i] = Keep(list, good, f, i)
    PROVE  f[n] \in Seq(Nat) /\ Different(f[n]) /\ Range(f[n]) = Range(list) \cap good
  <1> DEFINE Before(k) == {list[i] : i \in 1 .. k}
             Right(k) == /\ f[k] \in Seq(Nat) /\ Different(f[k])
                         /\ Range(f[k]) = Before(k) \cap good
  <1>1. DOMAIN list = 1 .. n /\ \A i \in 1 .. n : list[i] \in Nat
    BY ElementOfSeq, LenProperties
  <1>2. Right(0)
    BY EmptySeq DEF Different, Range
  <1>3. ASSUME NEW k \in Nat, k + 1 <= n, Right(k) PROVE Right(k + 1)
    <2>1. k + 1 \in 1 .. n /\ (k + 1) - 1 = k /\ f[k + 1] = Keep(list, good, f, k + 1)
      BY <1>3
    <2>2. PICK entry \in Nat : entry = list[k + 1]
      BY <1>1, <2>1
    <2>3. Before(k + 1) = Before(k) \cup {entry}
      BY <2>2
    <2>4. entry \notin Before(k)
      <3> SUFFICES ASSUME NEW i \in 1 .. k, entry = list[i] PROVE FALSE
        OBVIOUS
      <3>1. i \in 1 .. n /\ i # k + 1
        BY <1>3
      <3> QED BY <1>1, <2>1, <2>2, <3>1 DEF Different
    <2> HIDE DEF Before
    <2>5. PICK kept \in Seq(Nat) : kept = f[k] /\ Different(kept) /\ Range(kept) = Before(k) \cap good
      BY <1>3
    <2>6. CASE entry \notin good
      <3>1. f[k + 1] = kept
        BY <2>1, <2>2, <2>5, <2>6 DEF Keep
      <3> QED BY <2>3, <2>5, <2>6, <3>1
    <2>7. CASE entry \in good
      <3>1. f[k + 1] = Append(kept, entry)
        BY <2>1, <2>2, <2>5, <2>7 DEF Keep
      <3>2. PICK longer \in Seq(Nat) : longer = Append(kept, entry)
        BY AppendType
      <3>3. PICK m \in Nat : m = Len(kept) /\ DOMAIN kept = 1 .. m
        BY LenProperties
      <3>4. DOMAIN longer = 1 .. (m + 1) /\ longer[m + 1] = entry
            /\ \A i \in 1 .. m : longer[i] = kept[i]
        BY <3>2, <3>3, AppendProperties, LenProperties
      <3>5. \A i \in 1 .. m : kept[i] \in Before(k) /\ kept[i] # entry
        BY <2>4, <2>5, <3>3 DEF Range
      <3>6. Different(longer) /\ Range(longer) = Range(kept) \cup {entry}
        <4>1. \A i \in 1 .. m : longer[i] = kept[i] /\ kept[i] # entry
          BY <3>4, <3>5
        <4>2. OneLonger(m, kept, longer, entry)
          BY <3>3, <3>4, <4>1 DEF OneLonger
        <4> QED BY <2>5, <4>2, OneMore
      <3> QED BY <2>3, <2>5, <2>7, <3>1, <3>2, <3>6
    <2> QED BY <2>6, <2>7
  <1> HIDE DEF Right
  <1> DEFINE T == {k \in Nat : k <= n => Right(k)}
  <1>4. 0 \in T /\ \A k \in Nat : k \in T => k + 1 \in T
    BY <1>2, <1>3
  <1> HIDE DEF T
  <1>5. n \in T
    BY <1>4, Induction
  <1>6. Right(n)
    BY <1>5 DEF T
  <1>7. Before(n) = Range(list)
    BY <1>1 DEF Range
  <1> QED BY <1>6, <1>7 DEF Right

-----------------------------------------------------------------------------
(* Loops that run a number of turns. *)

\* A loop of n turns, each made of the turn's number and of what the turn before left.
Runs(n, base, step, f) == f[0] = base /\ \A i \in 1 .. n : f[i] = step[<<i, f[i - 1]>>]

LEMMA LoopEnds ==
    ASSUME NEW n \in Nat, NEW S, NEW base \in S, NEW step \in [(1 .. n) \X S -> S]
    PROVE  \E f \in [0 .. n -> S] : Runs(n, base, step, f)
  <1> DEFINE Goes(k) == \E f \in [0 .. k -> S] :
                            f[0] = base /\ \A i \in 1 .. k : f[i] = step[<<i, f[i - 1]>>]
  <1>1. Goes(0)
    <2> DEFINE first == [i \in 0 .. 0 |-> base]
    <2>1. first \in [0 .. 0 -> S] /\ first[0] = base
      OBVIOUS
    <2> HIDE DEF first
    <2> QED BY <2>1
  <1>2. ASSUME NEW k \in Nat, k + 1 <= n, Goes(k) PROVE Goes(k + 1)
    <2>1. PICK f \in [0 .. k -> S] : f[0] = base /\ \A i \in 1 .. k : f[i] = step[<<i, f[i - 1]>>]
      BY <1>2
    <2>2. PICK next \in S : next = step[<<k + 1, f[k]>>]
      <3>1. <<k + 1, f[k]>> \in (1 .. n) \X S
        BY <1>2, <2>1
      <3> QED BY <3>1
    <2> DEFINE g == [i \in 0 .. (k + 1) |-> IF i = k + 1 THEN next ELSE f[i]]
    <2>3. /\ g \in [0 .. (k + 1) -> S] /\ g[0] = base /\ g[k + 1] = next
          /\ \A i \in 0 .. k : g[i] = f[i]
      BY <2>1, <2>2
    <2> HIDE DEF g
    <2>4. ASSUME NEW i \in 1 .. (k + 1) PROVE g[i] = step[<<i, g[i - 1]>>]
      <3>1. CASE i = k + 1
        <4>1. i - 1 = k /\ k \in 0 .. k
          BY <3>1
        <4> QED BY <2>2, <2>3, <3>1, <4>1
      <3>2. CASE i # k + 1
        <4>1. i \in 1 .. k /\ i \in 0 .. k /\ i - 1 \in 0 .. k
          BY <3>2
        <4>2. g[i] = f[i] /\ g[i - 1] = f[i - 1]
          BY <2>3, <4>1
        <4> QED BY <2>1, <4>1, <4>2
      <3> QED BY <3>1, <3>2
    <2> QED BY <2>3, <2>4
  <1> HIDE DEF Goes
  <1> DEFINE T == {k \in Nat : k <= n => Goes(k)}
  <1>3. 0 \in T /\ \A k \in Nat : k \in T => k + 1 \in T
    BY <1>1, <1>2
  <1> HIDE DEF T
  <1>4. n \in T
    BY <1>3, Induction
  <1>5. Goes(n)
    BY <1>4 DEF T
  <1> QED BY <1>5 DEF Goes, Runs

\* What every turn preserves holds at the end: the turns at which it holds are a set.
LEMMA TurnByTurn ==
    ASSUME NEW n \in Nat, NEW T, 0 \in T, \A k \in 0 .. (n - 1) : k \in T => k + 1 \in T
    PROVE  \A k \in 0 .. n : k \in T
  <1> DEFINE R == {k \in Nat : k <= n => k \in T}
  <1>1. 0 \in R
    OBVIOUS
  <1>2. ASSUME NEW k \in Nat, k \in R PROVE k + 1 \in R
    <2> SUFFICES ASSUME k + 1 <= n PROVE k + 1 \in T
      OBVIOUS
    <2>1. k \in 0 .. (n - 1) /\ k \in T
      BY <1>2
    <2> QED BY <2>1
  <1> HIDE DEF R
  <1>3. \A k \in Nat : k \in R
    BY <1>1, <1>2, Induction
  <1> QED BY <1>3 DEF R

-----------------------------------------------------------------------------
(* Ranges of ids that follow one another. *)

\* The range from base[i] up to extent[i] starts where the one before it ends.
Consecutive(n, base, extent) ==
    /\ \A i \in 1 .. n : base[i] \in Nat /\ extent[i] \in Nat /\ base[i] <= extent[i]
    /\ \A i \in 1 .. (n - 1) : base[i + 1] = extent[i]

LEMMA ConsecutiveApart ==
    ASSUME NEW n \in Nat, NEW base, NEW extent, Consecutive(n, base, extent)
    PROVE  \A i, j \in 1 .. n : i < j => extent[i] <= base[j]
  <1> USE DEF Consecutive
  <1>1. ASSUME NEW i \in 1 .. n PROVE \A j \in 1 .. n : i < j => extent[i] <= base[j]
    <2> DEFINE T == {k \in Nat : i + 1 + k <= n => extent[i] <= base[i + 1 + k]}
    <2>1. 0 \in T
      OBVIOUS
    <2>2. ASSUME NEW k \in Nat, k \in T PROVE k + 1 \in T
      <3> SUFFICES ASSUME i + 1 + (k + 1) <= n PROVE extent[i] <= base[i + 1 + (k + 1)]
        OBVIOUS
      <3>1. PICK j \in 1 .. (n - 1) : j = i + 1 + k
        OBVIOUS
      <3>2. extent[i] <= base[j]
        BY <2>2, <3>1
      <3>3. base[j] <= extent[j] /\ base[j + 1] = extent[j]
        BY <3>1
      <3>4. i + 1 + (k + 1) = j + 1
        BY <3>1
      <3>5. extent[i] \in Nat /\ base[j] \in Nat /\ extent[j] \in Nat
        OBVIOUS
      <3> QED BY <3>2, <3>3, <3>4, <3>5
    <2> HIDE DEF T
    <2>3. \A k \in Nat : k \in T
      BY <2>1, <2>2, Induction
    <2>4. ASSUME NEW j \in 1 .. n, i < j PROVE extent[i] <= base[j]
      <3>1. PICK k \in Nat : j = i + 1 + k
        <4>1. j - i - 1 \in Nat /\ j = i + 1 + (j - i - 1)
          BY <2>4
        <4> QED BY <4>1
      <3>2. i + 1 + k <= n => extent[i] <= base[i + 1 + k]
        BY <2>3 DEF T
      <3>3. i + 1 + k <= n /\ base[i + 1 + k] = base[j]
        BY <3>1
      <3> QED BY <3>2, <3>3
    <2> QED BY <2>4
  <1> QED BY <1>1

-----------------------------------------------------------------------------
(* Lists one after another. *)

Before(earlier, later) == \A x \in earlier, y \in later : x < y

\* Later ids after earlier ones.
LEMMA ConcatInOrder ==
    ASSUME NEW a \in Seq(Nat), NEW b \in Seq(Nat), NEW A, NEW B,
           InOrder(a, A), InOrder(b, B), Before(A, B)
    PROVE  a \o b \in Seq(Nat) /\ InOrder(a \o b, A \cup B)
  <1>1. PICK m, n \in Nat : m = Len(a) /\ n = Len(b)
    BY LenProperties
  <1>2. PICK c \in Seq(Nat) : c = a \o b
    BY ConcatProperties
  <1>3. /\ DOMAIN a = 1 .. m /\ DOMAIN b = 1 .. n /\ DOMAIN c = 1 .. (m + n)
        /\ \A i \in 1 .. (m + n) : c[i] = IF i <= m THEN a[i] ELSE b[i - m]
    BY <1>1, <1>2, ConcatProperties, LenProperties
  <1>4. Range(c) = A \cup B
    BY <1>2, RangeConcatenation DEF InOrder
  <1>5. /\ \A i \in 1 .. m : a[i] \in A
        /\ \A i \in 1 .. n : b[i] \in B
    BY <1>3 DEF InOrder, Range
  <1>6. ASSUME NEW i \in 1 .. (m + n), NEW j \in 1 .. (m + n), i < j
        PROVE  c[i] < c[j]
    <2>1. CASE j <= m
      <3>1. i \in 1 .. m /\ j \in 1 .. m /\ c[i] = a[i] /\ c[j] = a[j]
        BY <1>3, <1>6, <2>1
      <3> QED BY <1>3, <1>6, <3>1 DEF InOrder
    <2>2. CASE i > m
      <3>1. i - m \in 1 .. n /\ j - m \in 1 .. n /\ i - m < j - m
        BY <1>6, <2>2
      <3>2. c[i] = b[i - m] /\ c[j] = b[j - m]
        BY <1>3, <1>6, <2>2
      <3> QED BY <1>3, <3>1, <3>2 DEF InOrder
    <2>3. CASE i <= m /\ j > m
      <3>1. i \in 1 .. m /\ j - m \in 1 .. n /\ ~(j <= m)
        BY <2>3
      <3>2. c[i] = a[i] /\ c[j] = b[j - m]
        BY <1>3, <2>3, <3>1
      <3> QED BY <1>5, <3>1, <3>2 DEF Before
    <2> QED BY <2>1, <2>2, <2>3
  <1> QED BY <1>2, <1>3, <1>4, <1>6 DEF InOrder

\* What is gathered after list i, if f is what is gathered after each of those before it:
\* a stop drops everything.
Gather(lists, stops, f, i) == IF i \in stops THEN <<>> ELSE f[i - 1] \o lists[i]

Gathers(n, lists, stops, f) ==
    f[0] = <<>> /\ \A i \in 1 .. n : f[i] = Gather(lists, stops, f, i)

\* List i has the ids of part i, all before those of the parts that follow.
Parts(n, lists, ids) ==
    /\ \A i \in 1 .. n : lists[i] \in Seq(Nat) /\ InOrder(lists[i], ids[i])
    /\ \A i, j \in 1 .. n : i < j => Before(ids[i], ids[j])

FirstIds(ids, n) == UNION {ids[i] : i \in 1 .. n}

LEMMA GatheringEnds ==
    ASSUME NEW n \in Nat, NEW E, NEW lists, \A i \in 1 .. n : lists[i] \in Seq(E), NEW stops
    PROVE  \E f \in [0 .. n -> Seq(E)] : Gathers(n, lists, stops, f)
  <1> DEFINE S == Seq(E)
             step == [x \in (1 .. n) \X S |-> IF x[1] \in stops THEN <<>> ELSE x[2] \o lists[x[1]]]
  <1>1. <<>> \in S
    BY EmptySeq
  <1>2. ASSUME NEW i \in 1 .. n, NEW x \in S
        PROVE  /\ <<i, x>> \in (1 .. n) \X S
               /\ step[<<i, x>>] = IF i \in stops THEN <<>> ELSE x \o lists[i]
    OBVIOUS
  <1>3. \A i \in 1 .. n, x \in S : x \o lists[i] \in S
    BY ConcatProperties
  <1> HIDE DEF S
  <1>4. step \in [(1 .. n) \X S -> S]
    BY <1>1, <1>3
  <1> HIDE DEF step
  <1>5. PICK f \in [0 .. n -> S] : Runs(n, <<>>, step, f)
    BY <1>1, <1>4, LoopEnds
  <1>6. ASSUME NEW i \in 1 .. n PROVE f[i] = Gather(lists, stops, f, i)
    <2>1. i - 1 \in 0 .. n
      OBVIOUS
    <2>2. f[i - 1] \in S
      BY <2>1
    <2>3. f[i] = IF i \in stops THEN <<>> ELSE f[i - 1] \o lists[i]
      BY <1>2, <1>5, <2>2 DEF Runs
    <2> QED BY <2>3 DEF Gather
  <1> QED BY <1>5, <1>6 DEF Gathers, Runs, S

\* What is gathered at the end is in order, if a stop only drops what is empty.
LEMMA GatheredInOrder ==
    ASSUME NEW n \in Nat, NEW lists, NEW ids, Parts(n, lists, ids),
           NEW stops, \A i \in 1 .. n : i \in stops => FirstIds(ids, i) = {},
           NEW f, Gathers(n, lists, stops, f)
    PROVE  f[n] \in Seq(Nat) /\ InOrder(f[n], FirstIds(ids, n))
  <1> DEFINE T == {k \in 0 .. n : f[k] \in Seq(Nat) /\ InOrder(f[k], FirstIds(ids, k))}
  <1>1. 0 \in T
    <2>1. FirstIds(ids, 0) = {}
      BY DEF FirstIds
    <2>2. f[0] = <<>> /\ <<>> \in Seq(Nat) /\ 0 \in 0 .. n
      BY EmptySeq DEF Gathers
    <2> QED BY <2>1, <2>2, EmptyInOrder
  <1>2. ASSUME NEW k \in 0 .. (n - 1), k \in T PROVE k + 1 \in T
    <2>1. k + 1 \in 1 .. n /\ (k + 1) - 1 = k /\ k + 1 \in 0 .. n
      OBVIOUS
    <2>2. f[k + 1] = IF k + 1 \in stops THEN <<>> ELSE f[k] \o lists[k + 1]
      BY <2>1 DEF Gathers, Gather
    <2>3. CASE k + 1 \in stops
      <3>1. FirstIds(ids, k + 1) = {} /\ f[k + 1] = <<>> /\ <<>> \in Seq(Nat)
        BY <2>1, <2>2, <2>3, EmptySeq
      <3> QED BY <2>1, <3>1, EmptyInOrder
    <2>4. CASE k + 1 \notin stops
      <3>1. PICK a \in Seq(Nat) : a = f[k] /\ InOrder(a, FirstIds(ids, k))
        BY <1>2
      <3>2. PICK b \in Seq(Nat) : b = lists[k + 1] /\ InOrder(b, ids[k + 1])
        BY <2>1 DEF Parts
      <3>3. Before(FirstIds(ids, k), ids[k + 1])
        <4>1. \A i \in 1 .. k : i \in 1 .. n /\ i < k + 1
          OBVIOUS
        <4>2. \A i \in 1 .. k : Before(ids[i], ids[k + 1])
          BY <2>1, <4>1 DEF Parts
        <4> QED BY <4>2 DEF Before, FirstIds
      <3>4. a \o b \in Seq(Nat) /\ InOrder(a \o b, FirstIds(ids, k) \cup ids[k + 1])
        BY <3>1, <3>2, <3>3, ConcatInOrder
      <3>5. FirstIds(ids, k + 1) = FirstIds(ids, k) \cup ids[k + 1]
        <4>1. 1 .. (k + 1) = (1 .. k) \cup {k + 1}
          OBVIOUS
        <4> QED BY <4>1 DEF FirstIds
      <3>6. f[k + 1] = a \o b
        BY <2>2, <2>4, <3>1, <3>2
      <3> QED BY <2>1, <3>4, <3>5, <3>6
    <2> QED BY <2>3, <2>4
  <1> HIDE DEF T
  <1>3. n \in T
    BY <1>1, <1>2, TurnByTurn
  <1> QED BY <1>3 DEF T

\* FlattenSeq puts lists one after another.
\* What FlattenSeq makes of lists is the last result of gathering them.
LEMMA FlattenGathers ==
    ASSUME NEW n \in Nat, NEW E, NEW lists, DOMAIN lists = 1 .. n, Len(lists) = n,
           \A i \in 1 .. n : lists[i] \in Seq(E), n # 0
    PROVE  \E f : Gathers(n, lists, {}, f) /\ FlattenSeq(lists) = f[n]
  <1> DEFINE Turn(f) == [i \in 1 .. Len(lists) |->
                             IF i = 1 THEN lists[i] ELSE f[i - 1] \o lists[i]]
             loop == CHOOSE f : f = Turn(f)
  <1>1. FlattenSeq(lists) = loop[n]
    BY DEF FlattenSeq
  <1>2. PICK g \in [0 .. n -> Seq(E)] : Gathers(n, lists, {}, g)
    <2> HIDE DEF Turn, loop
    <2> QED BY GatheringEnds
  <1>3. ASSUME NEW f, NEW i \in 1 .. n
        PROVE  Turn(f)[i] = IF i = 1 THEN lists[i] ELSE f[i - 1] \o lists[i]
    OBVIOUS
  <1>4. \A f : Turn(f) = [i \in 1 .. n |-> Turn(f)[i]]
    OBVIOUS
  <1> HIDE DEF Turn
  <1>5. \E f : f = Turn(f)
    <2> DEFINE h == [i \in 1 .. n |-> g[i]]
    <2>1. ASSUME NEW i \in 1 .. n PROVE h[i] = Turn(h)[i]
      <3>1. g[i] = g[i - 1] \o lists[i] /\ h[i] = g[i]
        BY <1>2 DEF Gathers, Gather
      <3>2. CASE i = 1
        <4>1. g[i - 1] = <<>> /\ lists[i] \in Seq(E)
          BY <1>2, <3>2 DEF Gathers
        <4>2. <<>> \o lists[i] = lists[i]
          BY <4>1, ConcatEmptySeq
        <4> HIDE DEF h
        <4> QED BY <1>3, <3>1, <3>2, <4>1, <4>2
      <3>3. CASE i # 1
        <4>1. i - 1 \in 1 .. n
          BY <3>3
        <4>2. h[i - 1] = g[i - 1]
          BY <4>1
        <4> HIDE DEF h
        <4>3. Turn(h)[i] = IF i = 1 THEN lists[i] ELSE h[i - 1] \o lists[i]
          BY <1>3
        <4> QED BY <3>1, <3>3, <4>2, <4>3
      <3> QED BY <3>2, <3>3
    <2>2. h = [i \in 1 .. n |-> h[i]]
      OBVIOUS
    <2> HIDE DEF h
    <2>3. h = Turn(h)
      BY <1>4, <2>1, <2>2
    <2> QED BY <2>3
  <1>6. loop = Turn(loop)
    BY <1>5
  <1> HIDE DEF loop
  <1> DEFINE f == [i \in 0 .. n |-> IF i = 0 THEN <<>> ELSE loop[i]]
  <1>7. Gathers(n, lists, {}, f)
    <2>1. f[0] = <<>>
      OBVIOUS
    <2>2. ASSUME NEW i \in 1 .. n PROVE f[i] = Gather(lists, {}, f, i)
      <3>1. f[i] = IF i = 1 THEN lists[i] ELSE loop[i - 1] \o lists[i]
        BY <1>3, <1>6
      <3>2. CASE i = 1
        <4>1. f[i - 1] = <<>> /\ lists[i] \in Seq(E)
          BY <3>2
        <4> HIDE DEF f
        <4>2. <<>> \o lists[i] = lists[i]
          BY <4>1, ConcatEmptySeq
        <4> QED BY <3>1, <3>2, <4>1, <4>2 DEF Gather
      <3>3. CASE i # 1
        <4>1. f[i - 1] = loop[i - 1]
          BY <3>3
        <4> HIDE DEF f
        <4> QED BY <3>1, <3>3, <4>1 DEF Gather
      <3> QED BY <3>2, <3>3
    <2> HIDE DEF f
    <2> QED BY <2>1, <2>2 DEF Gathers
  <1>8. FlattenSeq(lists) = f[n]
    BY <1>1
  <1> HIDE DEF f
  <1> QED BY <1>7, <1>8

LEMMA FlattenInOrder ==
    ASSUME NEW n \in Nat, NEW lists, DOMAIN lists = 1 .. n, Len(lists) = n,
           NEW ids, Parts(n, lists, ids), n # 0,
           NEW flat, flat = FlattenSeq(lists)
    PROVE  flat \in Seq(Nat) /\ InOrder(flat, FirstIds(ids, n))
  <1>1. PICK E : E = Nat
    OBVIOUS
  <1>2. \A i \in 1 .. n : lists[i] \in Seq(E)
    BY <1>1 DEF Parts
  <1>3. PICK f : Gathers(n, lists, {}, f) /\ FlattenSeq(lists) = f[n]
    BY <1>2, FlattenGathers
  <1>4. f[n] \in Seq(Nat) /\ InOrder(f[n], FirstIds(ids, n))
    BY <1>3, GatheredInOrder
  <1> QED BY <1>3, <1>4

LEMMA FlattenType ==
    ASSUME NEW n \in Nat, NEW E, NEW lists, DOMAIN lists = 1 .. n, Len(lists) = n,
           \A i \in 1 .. n : lists[i] \in Seq(E)
    PROVE  FlattenSeq(lists) \in Seq(E)
  <1>1. CASE n = 0
    <2>1. FlattenSeq(lists) = lists
      BY <1>1 DEF FlattenSeq
    <2>2. lists \in [1 .. n -> E]
      <3>1. lists = [i \in 1 .. n |-> lists[i]]
        BY <1>1
      <3>2. \A i \in 1 .. n : lists[i] \in E
        BY <1>1
      <3> QED BY <3>1, <3>2
    <2> QED BY <2>1, <2>2, SeqDef
  <1>2. CASE n # 0
    <2>1. PICK f : Gathers(n, lists, {}, f) /\ FlattenSeq(lists) = f[n]
      BY <1>2, FlattenGathers
    <2> DEFINE T == {i \in 0 .. n : f[i] \in Seq(E)}
    <2>2. 0 \in T
      <3>1. f[0] = <<>>
        BY <2>1 DEF Gathers
      <3>2. <<>> \in Seq(E)
        BY EmptySeq
      <3>3. 0 \in 0 .. n /\ f[0] \in Seq(E)
        BY <3>1, <3>2
      <3> QED BY <3>3
    <2>3. ASSUME NEW i \in 0 .. (n - 1), i \in T PROVE i + 1 \in T
      <3>1. i + 1 \in 1 .. n /\ i + 1 \in 0 .. n /\ (i + 1) - 1 = i
        OBVIOUS
      <3>2. f[i + 1] = f[i] \o lists[i + 1]
        BY <2>1, <3>1 DEF Gathers, Gather
      <3>3. f[i] \in Seq(E) /\ lists[i + 1] \in Seq(E)
        BY <2>3, <3>1
      <3>4. f[i] \o lists[i + 1] \in Seq(E)
        BY <3>3, ConcatProperties
      <3> QED BY <3>1, <3>2, <3>4
    <2> HIDE DEF T
    <2>4. \A i \in 0 .. n : i \in T
      BY <2>2, <2>3, TurnByTurn
    <2> QED BY <2>1, <2>4 DEF T
  <1> QED BY <1>1, <1>2

-----------------------------------------------------------------------------
(* Lists, entry by entry. *)

\* longer is list, of entries in S, with x after its n entries.
Extends(S, n, list, x, longer) ==
    /\ longer \in Seq(S) /\ longer = Append(list, x) /\ Len(longer) = n + 1 /\ longer[n + 1] = x
    /\ \A i \in 1 .. n : longer[i] = list[i]

LEMMA AppendExtends ==
    ASSUME NEW S, NEW n \in Nat, NEW list \in Seq(S), n = Len(list), NEW x \in S
    PROVE  Extends(S, n, list, x, Append(list, x))
  BY AppendType DEF Extends

\* A list that is not empty is a list with an entry more.
LEMMA ListExtends ==
    ASSUME NEW S, NEW n \in Nat, NEW list \in Seq(S), Len(list) = n + 1
    PROVE  \E front \in Seq(S), x \in S : list = Append(front, x) /\ Len(front) = n
  <1> DEFINE front == Front(list)
  <1>1. /\ front \in Seq(S) /\ Len(front) = n
        /\ \A i \in 1 .. n : front[i] = list[i]
    BY FrontType
  <1>2. n + 1 \in 1 .. Len(list)
    OBVIOUS
  <1>3. PICK x \in S : x = list[n + 1]
    BY <1>2, ElementOfSeq
  <1> HIDE DEF front
  <1>4. PICK longer : longer = Append(front, x)
    OBVIOUS
  <1>5. Extends(S, n, front, x, longer)
    BY <1>1, <1>4, AppendExtends
  <1>6. \A i \in 1 .. (n + 1) : longer[i] = list[i]
    <2>1. \A i \in 1 .. (n + 1) : i \in 1 .. n \/ i = n + 1
      OBVIOUS
    <2> QED BY <1>1, <1>3, <1>5, <2>1 DEF Extends
  <1>7. longer \in Seq(S) /\ Len(longer) = n + 1
    BY <1>5 DEF Extends
  <1>8. longer = list
    BY <1>6, <1>7, SeqEqual
  <1> QED BY <1>1, <1>4, <1>8

\* Induction on lists: what holds of the empty list and of every list with one entry more.
LEMMA ListInduction ==
    ASSUME NEW S, NEW T, <<>> \in T, \A list \in Seq(S), x \in S : list \in T => Append(list, x) \in T
    PROVE  \A list \in Seq(S) : list \in T
  <1> DEFINE R == {n \in Nat : \A list \in Seq(S) : Len(list) = n => list \in T}
  <1> HIDE DEF R
  <1>1. 0 \in R
    <2>1. ASSUME NEW list \in Seq(S), Len(list) = 0 PROVE list \in T
      <3>1. list = <<>>
        BY <2>1, EmptySeq
      <3> QED BY <3>1
    <2> QED BY <2>1 DEF R
  <1>2. ASSUME NEW n \in Nat, n \in R PROVE n + 1 \in R
    <2>1. ASSUME NEW list \in Seq(S), Len(list) = n + 1 PROVE list \in T
      <3>1. \E front \in Seq(S), x \in S : list = Append(front, x) /\ Len(front) = n
        BY <2>1, ListExtends
      <3> QED BY <1>2, <3>1 DEF R
    <2> QED BY <2>1 DEF R
  <1>3. \A n \in Nat : n \in R
    BY <1>1, <1>2, Induction
  <1> QED BY <1>3, LenProperties DEF R

\* A list is one of the entries it has.
LEMMA ListOfEntries ==
    ASSUME NEW S, NEW list \in Seq(S), NEW T, \A i \in 1 .. Len(list) : list[i] \in T
    PROVE  list \in Seq(T)
  <1>1. PICK n \in Nat : n = Len(list) /\ list \in [1 .. n -> S]
    BY LenProperties
  <1>2. list \in [1 .. n -> T]
    BY <1>1
  <1> QED BY <1>2, SeqDef

\* Kept is what its loop ends with.
LEMMA KeptByTurns ==
    ASSUME NEW S, NEW list \in Seq(S), NEW good, NEW n \in Nat, n = Len(list)
    PROVE  \E f : KeepsFrom(S, n, list, good, f) /\ Kept(list, good) = f[n]
  <1> DEFINE Turn(f) == [i \in 0 .. Len(list) |->
                             IF i = 0 THEN <<>>
                             ELSE IF list[i] \in good THEN Append(f[i - 1], list[i]) ELSE f[i - 1]]
             loop == CHOOSE f : f = Turn(f)
  <1>1. Kept(list, good) = loop[n]
    BY DEF Kept
  <1>2. PICK g : KeepsFrom(S, n, list, good, g)
    <2> HIDE DEF Turn, loop
    <2> QED BY KeepingEnds
  <1>a. /\ g = [i \in 0 .. n |-> g[i]] /\ g[0] = <<>>
        /\ \A i \in 1 .. n : g[i] = Keep(list, good, g, i)
    <2> HIDE DEF Turn, loop
    <2> QED BY <1>2 DEF KeepsFrom
  <1>3. \A f : Turn(f) = [i \in 0 .. n |-> Turn(f)[i]]
    OBVIOUS
  <1>4. \A f : Turn(f)[0] = <<>>
    OBVIOUS
  <1>5. ASSUME NEW f, NEW i \in 1 .. n PROVE Turn(f)[i] = Keep(list, good, f, i)
    <2>1. i \in 0 .. n /\ i # 0
      OBVIOUS
    <2> QED BY <2>1 DEF Keep
  <1> HIDE DEF Turn
  <1>6. ASSUME NEW f, f = [i \in 0 .. n |-> f[i]], f[0] = <<>>,
               \A i \in 1 .. n : f[i] = Keep(list, good, f, i)
        PROVE  f = Turn(f)
    <2>1. ASSUME NEW i \in 0 .. n PROVE f[i] = Turn(f)[i]
      <3>1. CASE i = 0
        BY <1>4, <1>6, <3>1
      <3>2. CASE i # 0
        <4>1. i \in 1 .. n
          BY <3>2
        <4> QED BY <1>5, <1>6, <4>1
      <3> QED BY <3>1, <3>2
    <2> QED BY <1>3, <1>6, <2>1
  <1>7. g = Turn(g)
    BY <1>a, <1>6
  <1>8. loop = Turn(loop)
    BY <1>7
  <1> HIDE DEF loop
  <1>9. /\ loop = [i \in 0 .. n |-> loop[i]] /\ loop[0] = <<>>
        /\ \A i \in 1 .. n : loop[i] = Keep(list, good, loop, i)
    BY <1>3, <1>4, <1>5, <1>8
  <1>10. \A i \in 0 .. n : loop[i] = g[i]
    <2> DEFINE T == {i \in 0 .. n : loop[i] = g[i]}
    <2>1. 0 \in T
      BY <1>a, <1>9
    <2>2. ASSUME NEW i \in 0 .. (n - 1), i \in T PROVE i + 1 \in T
      <3>1. i + 1 \in 1 .. n /\ (i + 1) - 1 = i /\ i + 1 \in 0 .. n /\ loop[i] = g[i]
        BY <2>2
      <3>2. loop[i + 1] = IF list[i + 1] \in good THEN Append(loop[i], list[i + 1]) ELSE loop[i]
        BY <1>9, <3>1 DEF Keep
      <3>3. g[i + 1] = IF list[i + 1] \in good THEN Append(g[i], list[i + 1]) ELSE g[i]
        BY <1>a, <3>1 DEF Keep
      <3> QED BY <3>1, <3>2, <3>3
    <2> HIDE DEF T
    <2>3. \A i \in 0 .. n : i \in T
      BY <2>1, <2>2, TurnByTurn
    <2> QED BY <2>3 DEF T
  <1>11. loop[n] = g[n]
    BY <1>10
  <1> QED BY <1>1, <1>2, <1>11

LEMMA KeptOfNone ==
    ASSUME NEW good
    PROVE  Kept(<<>>, good) = <<>>
  <1>1. PICK S, none \in {{}, <<>>} : S = {} /\ none = <<>>
    OBVIOUS
  <1>2. PICK n \in Nat : n = 0
    OBVIOUS
  <1>3. none \in Seq(S) /\ Len(none) = n
    BY <1>1, <1>2, EmptySeq
  <1>4. PICK f : KeepsFrom(S, n, none, good, f) /\ Kept(none, good) = f[n]
    BY <1>3, KeptByTurns
  <1> QED BY <1>1, <1>2, <1>4 DEF KeepsFrom

\* What is kept of a list with an entry more.
KeepsMore(list, x, good) ==
    Kept(Append(list, x), good) = IF x \in good THEN Append(Kept(list, good), x)
                                                ELSE Kept(list, good)

LEMMA KeptOfMore ==
    ASSUME NEW S, NEW list \in Seq(S), NEW x \in S, NEW good
    PROVE  KeepsMore(list, x, good)
  <1>1. PICK n \in Nat : n = Len(list)
    BY LenProperties
  <1>2. PICK longer \in Seq(S) : /\ longer = Append(list, x) /\ Len(longer) = n + 1
                                 /\ longer[n + 1] = x /\ \A i \in 1 .. n : longer[i] = list[i]
    <2>1. Extends(S, n, list, x, Append(list, x))
      BY <1>1, AppendExtends
    <2> QED BY <2>1 DEF Extends
  <1>3. PICK f : KeepsFrom(S, n, list, good, f) /\ Kept(list, good) = f[n]
    BY <1>1, KeptByTurns
  <1>a. PICK m \in Nat : m = n + 1
    OBVIOUS
  <1>b. Len(longer) = m
    BY <1>2, <1>a
  <1>4. PICK g : KeepsFrom(S, m, longer, good, g) /\ Kept(longer, good) = g[m]
    BY <1>b, KeptByTurns
  <1>c. f[0] = <<>> /\ \A i \in 1 .. n : f[i] = Keep(list, good, f, i)
    BY <1>3 DEF KeepsFrom
  <1>d. g[0] = <<>> /\ \A i \in 1 .. (n + 1) : g[i] = Keep(longer, good, g, i)
    BY <1>4, <1>a DEF KeepsFrom
  <1> DEFINE T == {i \in 0 .. n : f[i] = g[i]}
  <1>5. 0 \in T
    BY <1>c, <1>d
  <1>6. ASSUME NEW i \in 0 .. (n - 1), i \in T PROVE i + 1 \in T
    <2>1. /\ i + 1 \in 1 .. n /\ i + 1 \in 1 .. (n + 1) /\ i + 1 \in 0 .. n
          /\ (i + 1) - 1 = i /\ f[i] = g[i]
      BY <1>6
    <2>2. f[i + 1] = IF list[i + 1] \in good THEN Append(f[i], list[i + 1]) ELSE f[i]
      BY <1>c, <2>1 DEF Keep
    <2>3. g[i + 1] = IF longer[i + 1] \in good THEN Append(g[i], longer[i + 1]) ELSE g[i]
      BY <1>d, <2>1 DEF Keep
    <2>4. longer[i + 1] = list[i + 1]
      BY <1>2, <2>1
    <2> QED BY <2>1, <2>2, <2>3, <2>4
  <1> HIDE DEF T
  <1>7. \A i \in 0 .. n : i \in T
    BY <1>5, <1>6, TurnByTurn
  <1>8. f[n] = g[n]
    BY <1>7 DEF T
  <1>9. g[n + 1] = IF longer[n + 1] \in good THEN Append(g[n], longer[n + 1]) ELSE g[n]
    <2>1. n + 1 \in 1 .. (n + 1) /\ (n + 1) - 1 = n
      OBVIOUS
    <2> QED BY <1>d, <2>1 DEF Keep
  <1> QED BY <1>2, <1>3, <1>4, <1>a, <1>8, <1>9 DEF KeepsMore

\* What is kept is good.
LEMMA KeptType ==
    ASSUME NEW S, NEW list \in Seq(S), NEW good
    PROVE  Kept(list, good) \in Seq(S \cap good)
  <1> DEFINE T == {l \in Seq(S) : Kept(l, good) \in Seq(S \cap good)}
  <1> HIDE DEF T
  <1>1. <<>> \in T
    BY KeptOfNone, EmptySeq DEF T
  <1>2. ASSUME NEW l \in Seq(S), NEW x \in S, l \in T PROVE Append(l, x) \in T
    <2>1. PICK kept \in Seq(S \cap good) : kept = Kept(l, good)
      BY <1>2 DEF T
    <2>2. Append(l, x) \in Seq(S)
      BY AppendType
    <2>3. KeepsMore(l, x, good)
      BY KeptOfMore
    <2>4. ASSUME x \in good PROVE Append(kept, x) \in Seq(S \cap good)
      <3>1. x \in S \cap good
        BY <2>4
      <3> QED BY <3>1, AppendType
    <2> QED BY <2>1, <2>2, <2>3, <2>4 DEF T, KeepsMore
  <1>3. list \in T
    BY <1>1, <1>2, ListInduction
  <1> QED BY <1>3 DEF T

LEMMA SeqSubset ==
    ASSUME NEW S, NEW T, S \subseteq T, NEW list \in Seq(S)
    PROVE  list \in Seq(T)
  <1>1. PICK n \in Nat : list \in [1 .. n -> S]
    BY SeqDef
  <1>2. list \in [1 .. n -> T]
    BY <1>1
  <1> QED BY <1>2, SeqDef

LEMMA KeptAmong ==
    ASSUME NEW S, NEW list \in Seq(S), NEW good
    PROVE  Kept(list, good) \in Seq(S)
  <1>1. PICK kept : kept = Kept(list, good)
    OBVIOUS
  <1>2. kept \in Seq(S \cap good) /\ S \cap good \subseteq S
    BY <1>1, KeptType
  <1>3. kept \in Seq(S)
    BY <1>2, SeqSubset
  <1> QED BY <1>1, <1>3

\* Keeping some of what was kept.
LEMMA KeptTwice ==
    ASSUME NEW S, NEW list \in Seq(S), NEW good, NEW better
    PROVE  Kept(Kept(list, good), better) = Kept(list, good \cap better)
  <1> DEFINE T == {l \in Seq(S) : Kept(Kept(l, good), better) = Kept(l, good \cap better)}
  <1> HIDE DEF T
  <1>1. <<>> \in T
    BY KeptOfNone, EmptySeq DEF T
  <1>2. ASSUME NEW l \in Seq(S), NEW x \in S, l \in T PROVE Append(l, x) \in T
    <2>1. PICK kept : kept = Kept(l, good)
      OBVIOUS
    <2>2. kept \in Seq(S)
      BY <2>1, KeptAmong
    <2>3. PICK both : both = good \cap better
      OBVIOUS
    <2>4. Kept(kept, better) = Kept(l, both)
      BY <1>2, <2>1, <2>3 DEF T
    <2>5. Append(l, x) \in Seq(S)
      BY AppendType
    <2>6. KeepsMore(l, x, good)
      BY KeptOfMore
    <2>7. KeepsMore(l, x, both)
      BY KeptOfMore
    <2>8. KeepsMore(kept, x, better)
      BY <2>2, KeptOfMore
    <2>9. Kept(Kept(Append(l, x), good), better) = Kept(Append(l, x), both)
      <3>1. CASE x \in good
        BY <2>1, <2>3, <2>4, <2>6, <2>7, <2>8, <3>1 DEF KeepsMore
      <3>2. CASE x \notin good
        BY <2>1, <2>3, <2>4, <2>6, <2>7, <3>2 DEF KeepsMore
      <3> QED BY <3>1, <3>2
    <2> QED BY <2>3, <2>5, <2>9 DEF T
  <1>3. list \in T
    BY <1>1, <1>2, ListInduction
  <1> QED BY <1>3 DEF T

\* Only the entries that occur matter.
LEMMA KeptAlike ==
    ASSUME NEW S, NEW list \in Seq(S), NEW good, NEW other, \A x \in S : x \in good <=> x \in other
    PROVE  Kept(list, good) = Kept(list, other)
  <1> DEFINE T == {l \in Seq(S) : Kept(l, good) = Kept(l, other)}
  <1> HIDE DEF T
  <1>1. <<>> \in T
    BY KeptOfNone, EmptySeq DEF T
  <1>2. ASSUME NEW l \in Seq(S), NEW x \in S, l \in T PROVE Append(l, x) \in T
    <2>1. Kept(l, good) = Kept(l, other)
      BY <1>2 DEF T
    <2>2. Append(l, x) \in Seq(S)
      BY AppendType
    <2>3. KeepsMore(l, x, good)
      BY KeptOfMore
    <2>4. KeepsMore(l, x, other)
      BY KeptOfMore
    <2>5. x \in good <=> x \in other
      OBVIOUS
    <2>6. Kept(Append(l, x), good) = Kept(Append(l, x), other)
      <3>1. CASE x \in good
        BY <2>1, <2>3, <2>4, <2>5, <3>1 DEF KeepsMore
      <3>2. CASE x \notin good
        BY <2>1, <2>3, <2>4, <2>5, <3>2 DEF KeepsMore
      <3> QED BY <3>1, <3>2
    <2> QED BY <2>2, <2>6 DEF T
  <1>3. list \in T
    BY <1>1, <1>2, ListInduction
  <1> QED BY <1>3 DEF T

LEMMA AllKept ==
    ASSUME NEW S, NEW list \in Seq(S), NEW good, S \subseteq good
    PROVE  Kept(list, good) = list
  <1> DEFINE T == {l \in Seq(S) : Kept(l, good) = l}
  <1> HIDE DEF T
  <1>1. <<>> \in T
    BY KeptOfNone, EmptySeq DEF T
  <1>2. ASSUME NEW l \in Seq(S), NEW x \in S, l \in T PROVE Append(l, x) \in T
    <2>1. Kept(l, good) = l
      BY <1>2 DEF T
    <2>2. Append(l, x) \in Seq(S)
      BY AppendType
    <2>3. KeepsMore(l, x, good)
      BY KeptOfMore
    <2> QED BY <2>1, <2>2, <2>3 DEF T, KeepsMore
  <1>3. list \in T
    BY <1>1, <1>2, ListInduction
  <1> QED BY <1>3 DEF T

-----------------------------------------------------------------------------
(* Ranks. *)

\* In a strict order of positions every rank is taken: below[i] is the positions before i.
LEMMA EveryRankIsTaken ==
    ASSUME NEW n \in Nat, NEW below \in [1 .. n -> SUBSET (1 .. n)],
           \A i \in 1 .. n : i \notin below[i],
           \A i, j \in 1 .. n : i # j => i \in below[j] \/ j \in below[i],
           \A i, j \in 1 .. n : i \in below[j] => below[i] \subseteq below[j]
    PROVE  /\ \A p \in 1 .. n : \E i \in 1 .. n : 1 + Cardinality(below[i]) = p
           /\ \A i, j \in 1 .. n : Cardinality(below[i]) = Cardinality(below[j]) => i = j
           /\ \A i \in 1 .. n : Cardinality(below[i]) \in Nat
  <1>1. IsFiniteSet(1 .. n) /\ Cardinality(1 .. n) = n
    BY FS_Interval
  <1>2. ASSUME NEW i \in 1 .. n
        PROVE  /\ IsFiniteSet(below[i]) /\ Cardinality(below[i]) \in Nat
               /\ Cardinality(below[i]) <= n - 1
    <2>1. PICK others : others = (1 .. n) \ {i}
      OBVIOUS
    <2>2. IsFiniteSet(others) /\ Cardinality(others) = n - 1
      BY <1>1, <2>1, FS_RemoveElement
    <2>3. below[i] \in SUBSET others
      BY <2>1
    <2>4. IsFiniteSet(below[i]) /\ Cardinality(below[i]) <= Cardinality(others)
      BY <2>2, <2>3, FS_Subset
    <2> QED BY <2>2, <2>4, FS_CardinalityType
  <1>3. ASSUME NEW i \in 1 .. n, NEW j \in 1 .. n, i \in below[j]
        PROVE  Cardinality(below[i]) < Cardinality(below[j])
    <2>1. below[i] \in SUBSET below[j] /\ below[i] # below[j]
      BY <1>3
    <2>2. IsFiniteSet(below[j])
      BY <1>2
    <2>3. /\ Cardinality(below[i]) <= Cardinality(below[j])
          /\ Cardinality(below[j]) # Cardinality(below[i])
      BY <2>1, <2>2, FS_Subset
    <2> QED BY <1>2, <2>3
  <1> DEFINE rank == [i \in 1 .. n |-> 1 + Cardinality(below[i])]
  <1>4. rank \in [1 .. n -> 1 .. n]
    BY <1>2
  <1>5. ASSUME NEW i \in 1 .. n, NEW j \in 1 .. n, i # j PROVE rank[i] # rank[j]
    <2>1. /\ rank[i] = 1 + Cardinality(below[i]) /\ rank[j] = 1 + Cardinality(below[j])
          /\ Cardinality(below[i]) \in Nat /\ Cardinality(below[j]) \in Nat
      BY <1>2
    <2>2. Cardinality(below[i]) < Cardinality(below[j]) \/ Cardinality(below[j]) < Cardinality(below[i])
      BY <1>3, <1>5
    <2> QED BY <2>1, <2>2
  <1>a. /\ \A p \in 1 .. n : (\E i \in 1 .. n : rank[i] = p) =>
               \E i \in 1 .. n : 1 + Cardinality(below[i]) = p
        /\ \A i, j \in 1 .. n : Cardinality(below[i]) = Cardinality(below[j]) => rank[i] = rank[j]
    OBVIOUS
  <1> HIDE DEF rank
  <1>6. rank \in Injection(1 .. n, 1 .. n)
    BY <1>4, <1>5 DEF Injection, IsInjective
  <1>7. rank \in Surjection(1 .. n, 1 .. n)
    BY <1>1, <1>6, FS_Injection
  <1>8. \A p \in 1 .. n : \E i \in 1 .. n : rank[i] = p
    BY <1>7 DEF Surjection
  <1> QED BY <1>2, <1>5, <1>8, <1>a

=============================================================================
