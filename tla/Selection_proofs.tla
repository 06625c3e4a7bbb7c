--------------------------- MODULE Selection_proofs ---------------------------
(***************************************************************************)
(* What the selection returns, for all events that relays may return and   *)
(* every clock; and, for this and other proofs, that a set of numbers has  *)
(* a least one, which is the induction over data they use.                 *)
(***************************************************************************)
EXTENDS Selection, FiniteSetTheorems, WellFoundedInduction, TLAPS

-----------------------------------------------------------------------------
(* Numbers and finite sets *)

\* Of some finite sets, one contains no other.
LEMMA MinimalSet ==
    ASSUME NEW S, NEW W, W \subseteq FiniteSubsetsOf(S), W # {}
    PROVE  \E T \in W : \A U \in W : U \subseteq T => U = T
<1>1. PICK T \in W : \A U \in W : <<U, T>> \notin StrictSubsetOrdering(S)
  BY FS_StrictSubsetOrderingWellFounded, WFMin, Zenon
<1>2. ASSUME NEW U \in W, U \subseteq T, U # T PROVE FALSE
  <2>1. U \in SUBSET S /\ T \in SUBSET S
    BY DEF FiniteSubsetsOf
  <2>. QED
    BY <1>1, <1>2, <2>1 DEF StrictSubsetOrdering
<1>. QED
  BY <1>2

\* Of some numbers, one is the least.
LEMMA LeastNumber ==
    ASSUME NEW T, T \subseteq Nat, T # {}
    PROVE  \E x \in T : \A y \in T : x <= y
<1>. DEFINE W == {1..n : n \in T}
<1>1. W \subseteq FiniteSubsetsOf(Nat) /\ W # {}
  <2>1. \A n \in T : IsFiniteSet(1..n) /\ 1..n \in SUBSET Nat
    BY FS_Interval
  <2>. QED
    BY <2>1 DEF FiniteSubsetsOf
<1>2. PICK w \in W : \A v \in W : v \subseteq w => v = w
  <2>. HIDE DEF W
  <2>. QED
    BY <1>1, MinimalSet
<1>3. PICK x \in T : w = 1..x
  OBVIOUS
<1>4. ASSUME NEW y \in T, y < x PROVE FALSE
  <2>1. 1..y \subseteq 1..x
    BY <1>4
  <2>2. x \in 1..x /\ x \notin 1..y
    BY <1>4
  <2>. QED
    BY <1>2, <1>3, <2>1, <2>2
<1>. QED
  BY <1>4

\* Induction: a set of numbers that has 0 and with every number the next one has them all.
LEMMA Induction ==
    ASSUME NEW T, 0 \in T, \A n \in Nat : n \in T => n + 1 \in T
    PROVE  Nat \subseteq T
<1>. SUFFICES ASSUME Nat \ T # {} PROVE FALSE
  OBVIOUS
<1>1. PICK x \in Nat \ T : \A y \in Nat \ T : x <= y
  BY LeastNumber
<1>2. x - 1 \in Nat
  BY <1>1
<1>. QED
  BY <1>1, <1>2

\* Min returns the least number.
LEMMA MinIsLeast ==
    ASSUME NEW T, T \subseteq Nat, T # {}
    PROVE  Min(T) \in T /\ \A y \in T : Min(T) <= y
<1>1. \E x \in T : \A y \in T : x =< y
  BY LeastNumber
<1>. QED
  BY <1>1, Zenon DEF Min

\* Max returns the greatest number of a bounded set.
LEMMA MaxIsGreatest ==
    ASSUME NEW n \in Nat, NEW T, T \subseteq 0..n, T # {}
    PROVE  Max(T) \in T /\ \A y \in T : Max(T) >= y
<1>. DEFINE W == {n - x : x \in T}
<1>1. W \subseteq Nat /\ W # {}
  <2>1. \A x \in T : n - x \in Nat
    <3>. SUFFICES ASSUME NEW x \in T PROVE n - x \in Nat
      OBVIOUS
    <3>1. x \in 0..n
      OBVIOUS
    <3>. QED
      BY <3>1
  <2>. QED
    BY <2>1
<1>2. PICK w \in W : \A v \in W : w <= v
  <2>. HIDE DEF W
  <2>. QED
    BY <1>1, LeastNumber
<1>3. PICK x \in T : w = n - x
  OBVIOUS
<1>4. \A y \in T : x >= y
  <2>. SUFFICES ASSUME NEW y \in T PROVE x >= y
    OBVIOUS
  <2>1. w <= n - y
    BY <1>2
  <2>. QED
    BY <1>3, <2>1
<1>5. \E z \in T : \A y \in T : z >= y
  BY <1>4
<1>. QED
  BY <1>5, Zenon DEF Max

-----------------------------------------------------------------------------
(* Sequences *)

\* FlattenSeq's recursion has a solution.
LEMMA FlattenThereIs ==
    ASSUME NEW ss, NEW n \in Nat
    PROVE  \E f : f = [i \in 1..n |-> IF i = 1 THEN ss[i] ELSE f[i - 1] \o ss[i]]
<1>. DEFINE T == {m \in Nat : \E f : f = [i \in 1..m |-> IF i = 1 THEN ss[i] ELSE f[i - 1] \o ss[i]]}
<1>1. 0 \in T
  <2>1. <<>> = [i \in 1..0 |-> IF i = 1 THEN ss[i] ELSE <<>>[i - 1] \o ss[i]]
    OBVIOUS
  <2>. QED
    BY <2>1
<1>2. ASSUME NEW m \in Nat, m \in T PROVE m + 1 \in T
  <2>1. PICK f : f = [i \in 1..m |-> IF i = 1 THEN ss[i] ELSE f[i - 1] \o ss[i]]
    BY <1>2
  <2>. DEFINE g == [i \in 1..(m + 1) |-> IF i <= m THEN f[i]
                                          ELSE IF i = 1 THEN ss[i] ELSE f[i - 1] \o ss[i]]
  <2>2. \A i \in 1..(m + 1) : g[i] = IF i = 1 THEN ss[i] ELSE g[i - 1] \o ss[i]
    <3>. SUFFICES ASSUME NEW i \in 1..(m + 1)
                  PROVE  g[i] = IF i = 1 THEN ss[i] ELSE g[i - 1] \o ss[i]
      OBVIOUS
    <3>1. CASE i = 1
      BY <2>1, <3>1
    <3>2. CASE i # 1
      <4>1. i - 1 \in 1..m /\ g[i - 1] = f[i - 1]
        BY <3>2
      <4>2. g[i] = f[i - 1] \o ss[i]
        <5>1. CASE i \in 1..m
          BY <2>1, <3>2, <5>1
        <5>2. CASE i \notin 1..m
          <6>1. ~(i <= m) /\ i \in 1..(m + 1)
            BY <5>2
          <6>. QED
            BY <3>2, <6>1
        <5>. QED
          BY <5>1, <5>2
      <4>. QED
        BY <3>2, <4>1, <4>2
    <3>. QED
      BY <3>1, <3>2
  <2>3. g = [i \in 1..(m + 1) |-> IF i = 1 THEN ss[i] ELSE g[i - 1] \o ss[i]]
    <3>. HIDE DEF g
    <3>1. DOMAIN g = 1..(m + 1) /\ g = [i \in 1..(m + 1) |-> g[i]]
      BY DEF g
    <3>. QED
      BY <2>2, <3>1
  <2>. HIDE DEF g
  <2>4. \E h : h = [i \in 1..(m + 1) |-> IF i = 1 THEN ss[i] ELSE h[i - 1] \o ss[i]]
    BY <2>3, Zenon
  <2>5. m + 1 \in Nat
    OBVIOUS
  <2>. QED
    BY <2>4, <2>5, Zenon
<1>. HIDE DEF T
<1>3. n \in T
  BY <1>1, <1>2, Induction
<1>. QED
  BY <1>3 DEF T

\* The elements of a concatenation.
LEMMA ConcatElements ==
    ASSUME NEW S, NEW s \in Seq(S), NEW t \in Seq(S)
    PROVE  ToSet(s \o t) = ToSet(s) \cup ToSet(t)
<1>1. \A i \in DOMAIN s : i \in DOMAIN (s \o t) /\ (s \o t)[i] = s[i]
  OBVIOUS
<1>2. \A i \in DOMAIN t : i + Len(s) \in DOMAIN (s \o t) /\ (s \o t)[i + Len(s)] = t[i]
  OBVIOUS
<1>3. \A i \in DOMAIN (s \o t) : (s \o t)[i] \in ToSet(s) \cup ToSet(t)
  <2>. SUFFICES ASSUME NEW i \in DOMAIN (s \o t)
                PROVE  (s \o t)[i] \in ToSet(s) \cup ToSet(t)
    OBVIOUS
  <2>1. CASE i <= Len(s)
    BY <2>1 DEF ToSet
  <2>2. CASE i > Len(s)
    <3>1. i - Len(s) \in DOMAIN t /\ (s \o t)[i] = t[i - Len(s)]
      BY <2>2
    <3>. QED
      BY <3>1 DEF ToSet
  <2>. QED
    BY <2>1, <2>2
<1>. HIDE DEF ToSet
<1>4. \A x \in ToSet(s) \cup ToSet(t) : x \in ToSet(s \o t)
  BY <1>1, <1>2, Zenon DEF ToSet
<1>5. \A x \in ToSet(s \o t) : x \in ToSet(s) \cup ToSet(t)
  BY <1>3, Zenon DEF ToSet
<1>. QED
  BY <1>4, <1>5

\* FlattenSeq returns a sequence of what is in its parts.
LEMMA Flattened ==
    ASSUME NEW S, NEW n \in Nat \ {0}, NEW ss \in [1..n -> Seq(S)]
    PROVE  /\ FlattenSeq(ss) \in Seq(S)
           /\ ToSet(FlattenSeq(ss)) = UNION {ToSet(ss[i]) : i \in 1..n}
<1>. DEFINE flatten[i \in 1..n] == IF i = 1 THEN ss[i] ELSE flatten[i - 1] \o ss[i]
<1>1. ss \in Seq(Seq(S)) /\ Len(ss) = n
  OBVIOUS
<1>2. FlattenSeq(ss) = flatten[n]
  BY <1>1 DEF FlattenSeq
<1>3. flatten = [i \in 1..n |-> IF i = 1 THEN ss[i] ELSE flatten[i - 1] \o ss[i]]
  BY FlattenThereIs, Zenon
<1>. HIDE DEF flatten
<1>. DEFINE Whole(m) == /\ flatten[m] \in Seq(S)
                        /\ ToSet(flatten[m]) = UNION {ToSet(ss[i]) : i \in 1..m}
            T == {m \in Nat : m \in 1..n => Whole(m)}
<1>4. ASSUME NEW m \in Nat, m \in 1..n => Whole(m), m + 1 \in 1..n PROVE Whole(m + 1)
  <2>1. CASE m = 0
    <3>1. flatten[1] = ss[1] /\ 1..1 = {1} /\ ss[1] \in Seq(S)
      BY <1>3, <1>4, <2>1
    <3>2. UNION {ToSet(ss[i]) : i \in {1}} = ToSet(ss[1])
      OBVIOUS
    <3>. QED
      BY <2>1, <3>1, <3>2
  <2>2. CASE m # 0
    <3>1. m \in 1..n /\ m + 1 # 1 /\ (m + 1) - 1 = m
      BY <1>4, <2>2
    <3>2. flatten[m + 1] = flatten[m] \o ss[m + 1]
      BY <1>3, <1>4, <3>1
    <3>3. flatten[m] \in Seq(S) /\ ss[m + 1] \in Seq(S)
      BY <1>4, <3>1
    <3>4. ToSet(flatten[m + 1]) = ToSet(flatten[m]) \cup ToSet(ss[m + 1])
      BY <3>2, <3>3, ConcatElements
    <3>5. flatten[m + 1] \in Seq(S)
      BY <3>2, <3>3
    <3>6. 1..(m + 1) = (1..m) \cup {m + 1}
      OBVIOUS
    <3>7. ToSet(flatten[m]) = UNION {ToSet(ss[i]) : i \in 1..m}
      BY <1>4, <3>1
    <3>8. UNION {ToSet(ss[i]) : i \in (1..m) \cup {m + 1}}
          = (UNION {ToSet(ss[i]) : i \in 1..m}) \cup ToSet(ss[m + 1])
      BY Zenon
    <3>. QED
      BY <3>4, <3>5, <3>6, <3>7, <3>8, Zenon
  <2>. QED
    BY <2>1, <2>2
<1>. HIDE DEF Whole
<1>5. 0 \in T /\ \A m \in Nat : m \in T => m + 1 \in T
  BY <1>4
<1>6. n \in T
  <2>. HIDE DEF T
  <2>. QED
    BY <1>5, Induction
<1>7. Whole(n)
  BY <1>6
<1>. QED
  BY <1>2, <1>7 DEF Whole

-----------------------------------------------------------------------------
(* The order of events *)

\* Events as a relay may send them.
Dated(S) ==
    \A e \in S : e.id \in Nat \ {0} /\ e.at \in Nat /\ e.own \in BOOLEAN /\ e.usable \in BOOLEAN

\* No two of them share an id.
Distinct(S) == \A e, f \in S : e.id = f.id => e = f

\* newestFirst is a strict order, and total where ids differ.
LEMMA NewestFirstIsAnOrder ==
    ASSUME NEW S, Dated(S), Distinct(S), NEW a \in S, NEW b \in S, NEW c \in S
    PROVE  /\ ~NewestFirst(a, a)
           /\ a = b \/ NewestFirst(a, b) \/ NewestFirst(b, a)
           /\ NewestFirst(a, b) /\ NewestFirst(b, c) => NewestFirst(a, c)
<1>1. a.at \in Nat /\ b.at \in Nat /\ c.at \in Nat /\ a.id \in Nat /\ b.id \in Nat /\ c.id \in Nat
  BY DEF Dated
<1>2. a.id = b.id => a = b
  BY DEF Distinct
<1>. QED
  BY <1>1, <1>2 DEF NewestFirst

\* Among finitely many events is a newest one.
LEMMA NewestThereIs ==
    ASSUME NEW S, IsFiniteSet(S), Dated(S), Distinct(S), S # {}
    PROVE  \E m \in S : \A e \in S : e = m \/ NewestFirst(m, e)
<1>. DEFINE HasNewest(T) == \E m \in T : \A e \in T : e = m \/ NewestFirst(m, e)
            W == {T \in SUBSET S : T # {} /\ ~HasNewest(T)}
<1>. SUFFICES ASSUME W # {} PROVE FALSE
  OBVIOUS
<1>1. W \subseteq FiniteSubsetsOf(S)
  BY FS_Subset DEF FiniteSubsetsOf
<1>2. PICK T \in W : \A U \in W : U \subseteq T => U = T
  <2>. HIDE DEF W
  <2>. QED
    BY <1>1, MinimalSet
<1>3. PICK x \in T : TRUE
  OBVIOUS
<1>4. T \ {x} \notin W
  BY <1>2, <1>3
<1>5. CASE T \ {x} = {}
  BY <1>3, <1>5
<1>6. CASE T \ {x} # {}
  <2>1. PICK m \in T \ {x} : \A e \in T \ {x} : e = m \/ NewestFirst(m, e)
    BY <1>4, <1>6
  <2>2. CASE NewestFirst(m, x)
    BY <2>1, <2>2
  <2>3. CASE NewestFirst(x, m)
    <3>1. \A e \in T : e = x \/ NewestFirst(x, e)
      BY <1>3, <2>1, <2>3, NewestFirstIsAnOrder
    <3>. QED
      BY <1>3, <3>1
  <2>. QED
    BY <1>3, <2>1, <2>2, <2>3, NewestFirstIsAnOrder
<1>. QED
  BY <1>5, <1>6

\* s lists the events of S, each once and newest first.
Lists(s, S) ==
    /\ s \in SetToSeqs(S)
    /\ \A i, j \in DOMAIN s : i < j => NewestFirst(s[i], s[j])

\* Finitely many events can be sorted.
LEMMA SortedThereIs ==
    ASSUME NEW S, IsFiniteSet(S), Dated(S), Distinct(S)
    PROVE  \E s : Lists(s, S)
<1>. DEFINE W == {T \in SUBSET S : ~\E s : Lists(s, T)}
<1>. SUFFICES ASSUME W # {} PROVE FALSE
  OBVIOUS
<1>1. W \subseteq FiniteSubsetsOf(S)
  BY FS_Subset DEF FiniteSubsetsOf
<1>2. PICK T \in W : \A U \in W : U \subseteq T => U = T
  <2>. HIDE DEF W
  <2>. QED
    BY <1>1, MinimalSet
<1>3. T # {}
  <2>1. Lists(<<>>, {})
    BY FS_EmptySet DEF Lists, SetToSeqs
  <2>. QED
    BY <2>1
<1>4. IsFiniteSet(T) /\ Dated(T) /\ Distinct(T)
  BY FS_Subset DEF Dated, Distinct
<1>5. PICK m \in T : \A e \in T : e = m \/ NewestFirst(m, e)
  BY <1>3, <1>4, NewestThereIs
<1>6. PICK s : Lists(s, T \ {m})
  BY <1>2, <1>5
<1>. DEFINE k == Cardinality(T \ {m})
            t == [i \in 1..(k + 1) |-> IF i = 1 THEN m ELSE s[i - 1]]
<1>7. k \in Nat /\ Cardinality(T) = k + 1
  <2>1. IsFiniteSet(T \ {m}) /\ k = Cardinality(T) - 1
    BY <1>4, FS_RemoveElement
  <2>2. k \in Nat /\ Cardinality(T) \in Nat
    BY <1>4, <2>1, FS_CardinalityType
  <2>. QED
    BY <2>1, <2>2
<1>8. s \in [1..k -> T \ {m}] /\ \A i, j \in 1..k : i < j => NewestFirst(s[i], s[j])
  BY <1>6 DEF Lists, SetToSeqs
<1>. HIDE DEF k
<1>9. \A i \in 2..(k + 1) : i - 1 \in 1..k /\ t[i] = s[i - 1]
  BY <1>7
<1>10. t \in [1..(k + 1) -> T]
  BY <1>7, <1>8, <1>9
<1>11. ASSUME NEW i \in 1..(k + 1), NEW j \in 1..(k + 1), i < j
       PROVE  NewestFirst(t[i], t[j])
  <2>1. j \in 2..(k + 1) /\ t[j] = s[j - 1] /\ j - 1 \in 1..k
    BY <1>7, <1>9, <1>11
  <2>2. CASE i = 1
    <3>1. t[i] = m /\ t[j] \in T \ {m}
      BY <1>7, <1>8, <2>1, <2>2
    <3>. QED
      BY <1>5, <3>1
  <2>3. CASE i # 1
    <3>1. i \in 2..(k + 1) /\ t[i] = s[i - 1] /\ i - 1 \in 1..k /\ i - 1 < j - 1
      BY <1>7, <1>9, <1>11, <2>3
    <3>. QED
      BY <1>8, <2>1, <3>1
  <2>. QED
    BY <2>2, <2>3
<1>. HIDE DEF t
<1>12. \A i, j \in 1..(k + 1) : i # j => t[i] # t[j]
  <2>. SUFFICES ASSUME NEW i \in 1..(k + 1), NEW j \in 1..(k + 1), i # j, t[i] = t[j]
                PROVE  FALSE
    OBVIOUS
  <2>1. i < j \/ j < i
    BY <1>7
  <2>2. NewestFirst(t[i], t[i])
    BY <1>11, <2>1
  <2>. QED
    BY <1>4, <1>10, <2>2, NewestFirstIsAnOrder
<1>13. Lists(t, T)
  <2>1. t \in SetToSeqs(T)
    BY <1>7, <1>10, <1>12 DEF SetToSeqs
  <2>2. DOMAIN t = 1..(k + 1)
    BY <1>10
  <2>. QED
    BY <1>11, <2>1, <2>2 DEF Lists
<1>. QED
  BY <1>2, <1>13

\* Sorted lists all of them.
LEMMA SortedLists ==
    ASSUME NEW S, IsFiniteSet(S), Dated(S), Distinct(S)
    PROVE  /\ DOMAIN Sorted(S) = 1..Cardinality(S)
           /\ \A i \in DOMAIN Sorted(S) : Sorted(S)[i] \in S
           /\ \A e \in S : \E i \in DOMAIN Sorted(S) : Sorted(S)[i] = e
           /\ \A i, j \in DOMAIN Sorted(S) : i < j => NewestFirst(Sorted(S)[i], Sorted(S)[j])
<1>. DEFINE s == Sorted(S)
<1>1. Lists(s, S)
  <2>1. \E r \in SetToSeqs(S) : \A i, j \in DOMAIN r : i < j => NewestFirst(r[i], r[j])
    BY SortedThereIs, Zenon DEF Lists
  <2>. QED
    BY <2>1, Zenon DEF Sorted, Lists
<1>. HIDE DEF s
<1>2. s \in [1..Cardinality(S) -> S] /\ \A i, j \in 1..Cardinality(S) : i # j => s[i] # s[j]
  BY <1>1 DEF Lists, SetToSeqs
<1>3. s \in Injection(1..Cardinality(S), S)
  BY <1>2 DEF Injection, IsInjective
<1>4. Cardinality(S) \in Nat /\ Cardinality(1..Cardinality(S)) = Cardinality(S)
  BY FS_CardinalityType, FS_Interval
<1>5. s \in Surjection(1..Cardinality(S), S)
  BY <1>3, <1>4, FS_Injection
<1>6. \A e \in S : \E i \in 1..Cardinality(S) : s[i] = e
  BY <1>5 DEF Surjection
<1>7. DOMAIN s = 1..Cardinality(S)
  BY <1>2
<1>. QED
  BY <1>1, <1>2, <1>6, <1>7 DEF Lists, s

-----------------------------------------------------------------------------
(* What is selected *)

\* The events that are looked at: one for each id that was received.
LEMMA UniqueEvents ==
    ASSUME NEW E, Dated(E), NEW evs \in Seq(E)
    PROVE  /\ Unique(evs) \subseteq E
           /\ Unique(evs) \subseteq ToSet(evs)
           /\ IsFiniteSet(Unique(evs)) /\ Dated(Unique(evs)) /\ Distinct(Unique(evs))
           /\ \A i \in DOMAIN evs : \E e \in Unique(evs) : e.id = evs[i].id
<1>. DEFINE D == {i \in DOMAIN evs : \A j \in DOMAIN evs : j > i => evs[j].id # evs[i].id}
<1>1. DOMAIN evs = 1..Len(evs) /\ Len(evs) \in Nat /\ \A i \in DOMAIN evs : evs[i] \in E
  OBVIOUS
<1>2. Unique(evs) = {evs[i] : i \in D}
  BY DEF Unique
<1>3. Unique(evs) \subseteq E /\ Unique(evs) \subseteq ToSet(evs)
  BY <1>1, <1>2 DEF ToSet
<1>4. IsFiniteSet(Unique(evs))
  <2>. DEFINE f == [i \in D |-> evs[i]]
  <2>1. IsFiniteSet(D)
    <3>1. IsFiniteSet(1..Len(evs)) /\ D \in SUBSET (1..Len(evs))
      BY <1>1, FS_Interval
    <3>. QED
      BY <3>1, FS_Subset
  <2>2. f \in Surjection(D, Unique(evs))
    BY <1>2 DEF Surjection
  <2>. QED
    BY <2>1, <2>2, FS_Surjection
<1>5. Dated(Unique(evs))
  BY <1>3 DEF Dated
<1>6. Distinct(Unique(evs))
  <2>. SUFFICES ASSUME NEW i \in D, NEW j \in D, evs[i].id = evs[j].id
                PROVE  evs[i] = evs[j]
    BY <1>2 DEF Distinct
  <2>1. ~(i < j) /\ ~(j < i)
    OBVIOUS
  <2>. QED
    BY <1>1, <2>1
<1>7. ASSUME NEW i \in DOMAIN evs PROVE \E e \in Unique(evs) : e.id = evs[i].id
  <2>. DEFINE T == {n \in 0..Len(evs) : n < Len(evs) /\ evs[Len(evs) - n].id = evs[i].id}
  <2>1. Len(evs) - i \in T
    BY <1>1
  <2>2. PICK x \in T : \A y \in T : x <= y
    <3>1. T \subseteq Nat /\ T # {}
      BY <1>1, <2>1
    <3>. HIDE DEF T
    <3>. QED
      BY <3>1, LeastNumber
  <2>. DEFINE k == Len(evs) - x
  <2>3. k \in DOMAIN evs /\ evs[k].id = evs[i].id
    BY <1>1
  <2>4. ASSUME NEW j \in DOMAIN evs, j > k, evs[j].id = evs[k].id PROVE FALSE
    <3>1. Len(evs) - j \in T
      BY <1>1, <2>3, <2>4
    <3>2. x <= Len(evs) - j /\ x \in Nat /\ j \in Nat
      BY <1>1, <2>2, <3>1
    <3>. QED
      BY <1>1, <2>4, <3>2
  <2>5. k \in D
    BY <2>3, <2>4
  <2>. QED
    BY <1>2, <2>3, <2>5
<1>. QED
  BY <1>3, <1>4, <1>5, <1>6, <1>7

Usable(evs)       == {e \in Unique(evs) : e.own /\ e.usable}
Present(evs, now) == {e \in Usable(evs) : ~Future(e, now)}
Best(evs, now)    == IF Present(evs, now) # {} THEN Present(evs, now) ELSE Usable(evs)

\* Whatever was received in whatever order, the newest of the usable events that are not dated
\* in the future is selected; if there are none the newest usable one, and flagged.
THEOREM PickIsBest ==
    ASSUME NEW E, Dated(E), NEW evs \in Seq(E), NEW now \in Int
    PROVE  /\ Best(evs, now) = {} => Pick(evs, now).event = NoEvent
           /\ Best(evs, now) # {} =>
                 /\ Pick(evs, now).event \in Best(evs, now)
                 /\ \A e \in Best(evs, now) :
                       e = Pick(evs, now).event \/ NewestFirst(Pick(evs, now).event, e)
           /\ Pick(evs, now).future <=> Usable(evs) # {} /\ Present(evs, now) = {}
<1>. DEFINE mine     == {e \in Unique(evs) : e.own}
            s        == Sorted(mine)
            usable   == {i \in DOMAIN s : s[i].usable}
            present  == {i \in usable : ~Future(s[i], now)}
            First(S) == IF S = {} THEN NoEvent ELSE s[Min(S)]
            event    == IF First(present) # NoEvent THEN First(present) ELSE First(usable)
<1>1. /\ Pick(evs, now).event = event
      /\ Pick(evs, now).future = (First(present) = NoEvent /\ First(usable) # NoEvent)
  BY DEF Pick, Scan
<1>2. IsFiniteSet(mine) /\ Dated(mine) /\ Distinct(mine)
  BY UniqueEvents, FS_Subset DEF Dated, Distinct
<1>. HIDE DEF mine, s
<1>3. /\ DOMAIN s \subseteq Nat
      /\ \A i \in DOMAIN s : s[i] \in mine
      /\ \A e \in mine : \E i \in DOMAIN s : s[i] = e
      /\ \A i, j \in DOMAIN s : i < j => NewestFirst(s[i], s[j])
  BY <1>2, SortedLists, FS_CardinalityType DEF s
<1>4. Usable(evs) = {s[i] : i \in usable} /\ Present(evs, now) = {s[i] : i \in present}
  <2>1. Usable(evs) = {e \in mine : e.usable}
    BY DEF Usable, mine
  <2>2. Usable(evs) = {s[i] : i \in usable}
    BY <1>3, <2>1
  <2>. QED
    BY <2>2 DEF Present
<1>5. \A i \in DOMAIN s : s[i] # NoEvent
  BY <1>2, <1>3 DEF Dated, NoEvent
<1>6. ASSUME NEW S, S \subseteq DOMAIN s, S # {}
      PROVE  /\ Min(S) \in S /\ First(S) = s[Min(S)] /\ First(S) # NoEvent
             /\ \A i \in S : s[i] = First(S) \/ NewestFirst(First(S), s[i])
  <2>1. Min(S) \in S /\ \A i \in S : Min(S) <= i
    BY <1>3, <1>6, MinIsLeast
  <2>2. \A i \in S : i = Min(S) \/ Min(S) < i
    BY <1>3, <1>6, <2>1
  <2>. QED
    BY <1>3, <1>5, <1>6, <2>1, <2>2
<1>. HIDE DEF usable, present, First
<1>7. present \subseteq usable /\ usable \subseteq DOMAIN s
  BY DEF usable, present
<1>8. First({}) = NoEvent
  BY DEF First
<1>9. CASE present # {}
  <2>1. event = First(present) /\ First(present) # NoEvent /\ Present(evs, now) # {}
    BY <1>4, <1>6, <1>7, <1>9
  <2>. QED
    BY <1>1, <1>4, <1>6, <1>7, <1>9, <2>1 DEF Best
<1>10. CASE present = {} /\ usable # {}
  <2>1. event = First(usable) /\ First(usable) # NoEvent /\ First(present) = NoEvent
    BY <1>6, <1>7, <1>8, <1>10
  <2>2. Present(evs, now) = {} /\ Usable(evs) # {}
    BY <1>4, <1>10
  <2>. QED
    BY <1>1, <1>4, <1>6, <1>7, <1>10, <2>1, <2>2 DEF Best
<1>11. CASE usable = {}
  BY <1>1, <1>4, <1>7, <1>8, <1>11 DEF Best
<1>. QED
  BY <1>9, <1>10, <1>11
=============================================================================
