--------------------------- MODULE RunReportProofs ---------------------------
(***************************************************************************)
(* That the rows of a run are those of its report (RowsAreOfReport), for   *)
(* any reports.  What the folds and the flattening of RunRecords compute   *)
(* is found by induction, stated for the set of the numbers, or of the     *)
(* subsets, of which a fact holds.                                         *)
(***************************************************************************)
EXTENDS RunRecordsProofs, FiniteSetTheorems

(* Induction for a set: of numbers, and of subsets of a finite set.        *)
LEMMA NumbersReached ==
    ASSUME NEW G, 0 \in G, \A n \in Nat : n \in G => n + 1 \in G
    PROVE  Nat \subseteq G
<1> DEFINE D == Nat \ G
           R == OpToRel(<, Nat)
<1>1. CASE D # {}
  <2>1. PICK m \in D : \A n \in D : ~(<<n, m>> \in R)
    <3> HIDE DEF D, R
    <3>1. IsWellFoundedOn(R, Nat)
      BY NatLessThanWellFounded DEF R
    <3>2. D \subseteq Nat
      BY DEF D
    <3>3. QED  BY <1>1, <3>1, <3>2, WFMin
  <2>2. m \in Nat /\ m # 0 /\ m - 1 \in Nat /\ m - 1 \notin G
    <3>1. m \in Nat /\ m \notin G /\ m # 0
      BY <2>1
    <3>2. m - 1 \in Nat /\ (m - 1) + 1 = m
      BY <3>1
    <3>3. QED  BY <3>1, <3>2
  <2>3. m - 1 \in D /\ ~(m - 1 < m)
    BY <2>1, <2>2 DEF OpToRel
  <2>4. QED  BY <2>2, <2>3
<1>2. QED  BY <1>1

LEMMA SubsetsReached ==
    ASSUME NEW S, IsFiniteSet(S), NEW G, {} \in G,
           \A s \in SUBSET S : \A x \in S \ s : s \in G => s \cup {x} \in G
    PROVE  SUBSET S \subseteq G
<1> DEFINE H == {n \in Nat : \A s \in SUBSET S : Cardinality(s) = n => s \in G}
<1>1. 0 \in H
  <2>1. ASSUME NEW s \in SUBSET S, Cardinality(s) = 0 PROVE s = {}
    BY <2>1, FS_Subset, FS_EmptySet
  <2>2. QED  BY <2>1
<1>2. ASSUME NEW n \in Nat, n \in H PROVE n + 1 \in H
  <2> SUFFICES ASSUME NEW s \in SUBSET S, Cardinality(s) = n + 1 PROVE s \in G
    OBVIOUS
  <2>1. IsFiniteSet(s) /\ s # {}
    BY FS_Subset, FS_EmptySet
  <2>2. PICK x \in s : TRUE
    BY <2>1
  <2>3. Cardinality(s \ {x}) = n
    <3>1. Cardinality(s \ {x}) = Cardinality(s) - 1
      BY <2>1, FS_RemoveElement
    <3>2. QED  BY <3>1
  <2>4. s \ {x} \in G
    BY <1>2, <2>3
  <2>5. (s \ {x}) \cup {x} = s
    OBVIOUS
  <2>6. QED  BY <2>4, <2>5
<1> HIDE DEF H
<1>3. Nat \subseteq H
  BY <1>1, <1>2, NumbersReached
<1>4. ASSUME NEW s \in SUBSET S PROVE s \in G
  <2>1. Cardinality(s) \in H
    BY <1>3, FS_Subset, FS_CardinalityType
  <2>2. QED  BY <2>1 DEF H
<1>5. QED  BY <1>4

-----------------------------------------------------------------------------
(* Sums.  it is a sum of g over the subsets of S, whichever element comes  *)
(* last: there is exactly one, and folding in any order gives it.          *)
Sums(it, S, g) ==
    /\ it \in [SUBSET S -> Int] /\ it[{}] = 0
    /\ \A s \in SUBSET S : \A x \in s : it[s] = g[x] + it[s \ {x}]
SumOver(S, g) == (CHOOSE it : Sums(it, S, g))[S]

LEMMA SumsExist ==
    ASSUME NEW S, IsFiniteSet(S), NEW g, \A x \in S : g[x] \in Int
    PROVE  \E it : Sums(it, S, g)
<1> DEFINE G == {s \in SUBSET S : \E it : Sums(it, s, g)}
<1>1. {} \in G
  <2> DEFINE it == [s \in SUBSET {} |-> 0]
  <2>1. Sums(it, {}, g)
    BY DEF Sums
  <2>2. QED  BY <2>1
<1>2. ASSUME NEW s \in SUBSET S, NEW a \in S \ s, s \in G PROVE s \cup {a} \in G
  <2>1. PICK old : Sums(old, s, g)
    BY <1>2
  <2> DEFINE it == [t \in SUBSET (s \cup {a}) |-> IF a \in t THEN g[a] + old[t \ {a}] ELSE old[t]]
  <2>2. it \in [SUBSET (s \cup {a}) -> Int]
    <3>1. \A t \in SUBSET (s \cup {a}) : t \ {a} \in SUBSET s /\ (a \notin t => t \in SUBSET s)
      OBVIOUS
    <3>2. \A t \in SUBSET s : old[t] \in Int
      BY <2>1 DEF Sums
    <3>3. QED  BY <3>1, <3>2
  <2>3. it[{}] = 0
    BY <2>1 DEF Sums
  <2>4. ASSUME NEW t \in SUBSET (s \cup {a}), NEW x \in t
        PROVE  it[t] = g[x] + it[t \ {x}]
    <3>1. CASE a \notin t
      <4>1. t \in SUBSET s /\ t \ {x} \in SUBSET (s \cup {a}) /\ a \notin t \ {x}
        BY <3>1
      <4>2. old[t] = g[x] + old[t \ {x}]
        BY <2>1, <4>1 DEF Sums
      <4>3. QED  BY <3>1, <4>1, <4>2
    <3>2. CASE x = a
      <4>1. t \ {a} \in SUBSET (s \cup {a}) /\ a \notin t \ {a}
        OBVIOUS
      <4>2. QED  BY <3>2, <4>1
    <3>3. CASE a \in t /\ x # a
      <4>1. /\ t \ {x} \in SUBSET (s \cup {a}) /\ a \in t \ {x}
            /\ t \ {a} \in SUBSET s /\ x \in t \ {a} /\ (t \ {x}) \ {a} = (t \ {a}) \ {x}
        BY <3>3
      <4>2. old[t \ {a}] = g[x] + old[(t \ {a}) \ {x}]
        BY <2>1, <4>1 DEF Sums
      <4>3. old[(t \ {a}) \ {x}] \in Int
        BY <2>1, <4>1 DEF Sums
      <4>4. it[t] = g[a] + old[t \ {a}] /\ it[t \ {x}] = g[a] + old[(t \ {a}) \ {x}]
        BY <3>3, <4>1
      <4>5. g[a] \in Int /\ g[x] \in Int
        OBVIOUS
      <4> HIDE DEF it
      <4>6. QED  BY <4>2, <4>3, <4>4, <4>5
    <3>4. QED  BY <3>1, <3>2, <3>3
  <2> HIDE DEF it
  <2>5. Sums(it, s \cup {a}, g)
    BY <2>2, <2>3, <2>4 DEF Sums
  <2>6. QED  BY <2>5
<1> HIDE DEF G
<1>3. SUBSET S \subseteq G
  BY <1>1, <1>2, SubsetsReached
<1>4. QED  BY <1>3 DEF G

(* The step of a fold, whichever way it adds.                              *)
AddsLast(f, g, s, x) == f[s] = g[x] + f[s \ {x}] \/ f[s] = f[s \ {x}] + g[x]

(* Whatever takes some element of each subset last, gives the sum.         *)
LEMMA SumsUnique ==
    ASSUME NEW S, IsFiniteSet(S), NEW g, \A x \in S : g[x] \in Int, NEW it, Sums(it, S, g),
           NEW f, f[{}] = 0,
           \A s \in SUBSET S : s # {} => \E x \in s : AddsLast(f, g, s, x)
    PROVE  \A s \in SUBSET S : f[s] = it[s]
<1> DEFINE H == {n \in Nat : \A s \in SUBSET S : Cardinality(s) = n => f[s] = it[s]}
<1>1. 0 \in H
  <2>1. ASSUME NEW s \in SUBSET S, Cardinality(s) = 0 PROVE s = {}
    BY <2>1, FS_Subset, FS_EmptySet
  <2>2. it[{}] = 0
    BY DEF Sums
  <2>3. QED  BY <2>1, <2>2
<1>2. ASSUME NEW n \in Nat, n \in H PROVE n + 1 \in H
  <2> SUFFICES ASSUME NEW s \in SUBSET S, Cardinality(s) = n + 1 PROVE f[s] = it[s]
    OBVIOUS
  <2>1. IsFiniteSet(s) /\ s # {}
    BY FS_Subset, FS_EmptySet
  <2>2. PICK x \in s : AddsLast(f, g, s, x)
    BY <2>1
  <2>3. Cardinality(s \ {x}) = n /\ s \ {x} \in SUBSET S
    <3>1. Cardinality(s \ {x}) = Cardinality(s) - 1
      BY <2>1, FS_RemoveElement
    <3>2. QED  BY <3>1
  <2>4. f[s \ {x}] = it[s \ {x}]
    BY <1>2, <2>3
  <2>5. it[s] = g[x] + it[s \ {x}] /\ it[s \ {x}] \in Int
    BY <2>3 DEF Sums
  <2>6. QED  BY <2>2, <2>4, <2>5 DEF AddsLast
<1> HIDE DEF H
<1>3. Nat \subseteq H
  BY <1>1, <1>2, NumbersReached
<1>4. ASSUME NEW s \in SUBSET S PROVE f[s] = it[s]
  <2>1. Cardinality(s) \in H
    BY <1>3, FS_Subset, FS_CardinalityType
  <2>2. QED  BY <2>1 DEF H
<1>5. QED  BY <1>4

LEMMA SumOverSums ==
    ASSUME NEW S, IsFiniteSet(S), NEW g, \A x \in S : g[x] \in Int
    PROVE  \E it : Sums(it, S, g) /\ SumOver(S, g) = it[S]
<1>1. \E it : Sums(it, S, g)
  BY SumsExist
<1>2. QED  BY <1>1 DEF SumOver

(* A fold of that kind, and any sum of the same numbers.                   *)
LEMMA SumOverIs ==
    ASSUME NEW S, IsFiniteSet(S), NEW g, \A x \in S : g[x] \in Int, NEW f, f[{}] = 0,
           \A s \in SUBSET S : s # {} => \E x \in s : AddsLast(f, g, s, x)
    PROVE  f[S] = SumOver(S, g)
<1>1. PICK it : Sums(it, S, g) /\ SumOver(S, g) = it[S]
  BY SumOverSums
<1>2. \A s \in SUBSET S : f[s] = it[s]
  BY <1>1, SumsUnique
<1>3. QED  BY <1>1, <1>2

LEMMA SumOverEmpty == ASSUME NEW g PROVE SumOver({}, g) = 0
<1>1. IsFiniteSet({})
  BY FS_EmptySet
<1>2. PICK it : Sums(it, {}, g) /\ SumOver({}, g) = it[{}]
  BY <1>1, SumOverSums
<1>3. QED  BY <1>2 DEF Sums

LEMMA SumOverAdds ==
    ASSUME NEW S, IsFiniteSet(S), NEW g, \A x \in S : g[x] \in Int, NEW a \in S
    PROVE  SumOver(S, g) \in Int /\ SumOver(S, g) = g[a] + SumOver(S \ {a}, g)
<1>1. PICK it : Sums(it, S, g) /\ SumOver(S, g) = it[S]
  BY SumOverSums
<1>2. it[S] \in Int /\ it[S] = g[a] + it[S \ {a}]
  BY <1>1 DEF Sums
<1>3. it[S \ {a}] = SumOver(S \ {a}, g)
  <2>1. IsFiniteSet(S \ {a})
    BY FS_RemoveElement
  <2>2. it[{}] = 0 /\ \A s \in SUBSET (S \ {a}) : s # {} => \E x \in s : AddsLast(it, g, s, x)
    BY <1>1 DEF Sums, AddsLast
  <2>3. QED  BY <2>1, <2>2, SumOverIs
<1>4. QED  BY <1>1, <1>2, <1>3

LEMMA SumOverInt ==
    ASSUME NEW S, IsFiniteSet(S), NEW g, \A x \in S : g[x] \in Int
    PROVE  SumOver(S, g) \in Int
<1>1. PICK it : Sums(it, S, g) /\ SumOver(S, g) = it[S]
  BY SumOverSums
<1>2. QED  BY <1>1 DEF Sums

(* The same numbers under other names.                                     *)
LEMMA SumOverSame ==
    ASSUME NEW S, IsFiniteSet(S), NEW g, \A x \in S : g[x] \in Int,
           NEW T, NEW h, NEW b \in Bijection(S, T), \A x \in S : h[b[x]] = g[x]
    PROVE  SumOver(T, h) = SumOver(S, g)
<1>1. IsFiniteSet(T)
  BY FS_Bijection DEF ExistsBijection
<1>2. /\ b \in [S -> T] /\ \A y \in T : \E x \in S : b[x] = y
      /\ \A x, y \in S : b[x] = b[y] => x = y
  <2>1. b \in Injection(S, T) /\ b \in Surjection(S, T)
    BY DEF Bijection
  <2>2. QED  BY <2>1 DEF Injection, Surjection, IsInjective
<1>3. \A y \in T : h[y] \in Int
  BY <1>2
<1>4. PICK it : Sums(it, T, h) /\ SumOver(T, h) = it[T]
  BY <1>1, <1>3, SumOverSums
<1> DEFINE image(s) == {b[x] : x \in s}
           f == [s \in SUBSET S |-> it[image(s)]]
<1>5. f[{}] = 0
  <2>1. image({}) = {}
    OBVIOUS
  <2>2. QED  BY <1>4, <2>1 DEF Sums
<1>6. ASSUME NEW s \in SUBSET S, NEW x \in s PROVE f[s] = g[x] + f[s \ {x}]
  <2>1. image(s) \in SUBSET T /\ b[x] \in image(s) /\ image(s \ {x}) = image(s) \ {b[x]}
    BY <1>2
  <2>2. it[image(s)] = h[b[x]] + it[image(s) \ {b[x]}]
    BY <1>4, <2>1 DEF Sums
  <2>3. QED  BY <2>1, <2>2
<1>7. f[S] = SumOver(S, g)
  <2> HIDE DEF f
  <2>1. \A s \in SUBSET S : s # {} => \E x \in s : AddsLast(f, g, s, x)
    BY <1>6 DEF AddsLast
  <2>2. QED  BY <1>5, <2>1, SumOverIs
<1>8. image(S) = T
  BY <1>2
<1>9. QED  BY <1>4, <1>7, <1>8

(* FoldLeft takes the greatest index first, MapThenSumSet any element.      *)
LEMMA MaxOfIndices ==
    ASSUME NEW n \in Nat, NEW t, t \subseteq 1..n, t # {}
    PROVE  Max(t) \in t /\ \A x \in t : Max(t) >= x
<1>1. t \subseteq 0..n
  OBVIOUS
<1>2. PICK g \in t \cup {0} : \A x \in t : x <= g
  BY <1>1, MaxFacts
<1>3. g \in t
  <2>1. PICK x \in t : x <= g
    BY <1>2
  <2>2. x \in 1..n /\ ~(x <= 0)
    <3>1. x \in 1..n
      BY <2>1
    <3>2. QED  BY <3>1
  <2>3. QED  BY <2>1, <2>2
<1>4. \A x \in t : g >= x
  BY <1>1, <1>2, <1>3
<1>5. QED  BY <1>3, <1>4 DEF Max

LEMMA TotalIsSum ==
    ASSUME NEW n \in Nat, NEW s, DOMAIN s = 1..n, \A i \in 1..n : s[i] \in Int
    PROVE  Total(s) = SumOver(1..n, s)
<1>1. IsFiniteSet(1..n)
  BY FS_Interval
<1> DEFINE step(it, t) == IF t = {} THEN 0 ELSE it[t \ {Max(t)}] + s[Max(t)]
           fold == CHOOSE it : it = [t \in SUBSET (1..n) |-> step(it, t)]
<1>2. Total(s) = fold[1..n]
  BY DEF Total, FoldLeft, MapThenFoldSet, Plus
<1>3. \A t \in SUBSET (1..n) : t # {} => Max(t) \in t
  BY MaxOfIndices
<1>4. PICK it : Sums(it, 1..n, s)
  BY <1>1, SumsExist
<1>5. it = [t \in SUBSET (1..n) |-> step(it, t)]
  <2>1. \A t \in SUBSET (1..n) : it[t] \in Int
    BY <1>4 DEF Sums
  <2>2. ASSUME NEW t \in SUBSET (1..n) PROVE it[t] = step(it, t)
    <3>1. CASE t = {}
      BY <1>4, <3>1 DEF Sums
    <3>2. CASE t # {}
      <4>1. Max(t) \in t /\ s[Max(t)] \in Int /\ it[t \ {Max(t)}] \in Int
        BY <1>3, <2>1, <3>2
      <4>2. it[t] = s[Max(t)] + it[t \ {Max(t)}]
        BY <1>4, <4>1 DEF Sums
      <4>3. it[t] = it[t \ {Max(t)}] + s[Max(t)]
        BY <4>1, <4>2
      <4>4. QED  BY <3>2, <4>3
    <3>3. QED  BY <3>1, <3>2
  <2>3. QED  BY <1>4, <2>2 DEF Sums
<1>6. fold = [t \in SUBSET (1..n) |-> step(fold, t)]
  <2> DEFINE Is(f) == f = [t \in SUBSET (1..n) |-> step(f, t)]
  <2>1. Is(it)
    BY <1>5
  <2> HIDE DEF Is
  <2>2. Is(CHOOSE f : Is(f))
    BY <2>1
  <2>3. QED  BY <2>2 DEF Is
<1> HIDE DEF fold
<1>7. fold[{}] = 0
  BY <1>6
<1>8. ASSUME NEW t \in SUBSET (1..n), t # {}
      PROVE  \E x \in t : AddsLast(fold, s, t, x)
  <2>1. fold[t] = fold[t \ {Max(t)}] + s[Max(t)]
    BY <1>6, <1>8
  <2>2. QED  BY <1>3, <1>8, <2>1 DEF AddsLast
<1>9. fold[1..n] = SumOver(1..n, s)
  BY <1>1, <1>7, <1>8, SumOverIs
<1>10. QED  BY <1>2, <1>9

Some(t) == CHOOSE x \in t : TRUE
Folds(it, S, g) ==
    it = [t \in SUBSET S |-> IF t = {} THEN 0 ELSE g[Some(t)] + it[t \ {Some(t)}]]

LEMMA FoldsSum ==
    ASSUME NEW S, IsFiniteSet(S), NEW g, \A x \in S : g[x] \in Int
    PROVE  (\E it : Folds(it, S, g)) /\ \A it : Folds(it, S, g) => it[S] = SumOver(S, g)
<1>1. \A t \in SUBSET S : t # {} => Some(t) \in t
  BY DEF Some
<1>2. PICK it : Sums(it, S, g)
  BY SumsExist
<1>3. ASSUME NEW t \in SUBSET S
      PROVE  it[t] = IF t = {} THEN 0 ELSE g[Some(t)] + it[t \ {Some(t)}]
  BY <1>1, <1>2 DEF Sums
<1>4. Folds(it, S, g)
  BY <1>2, <1>3 DEF Sums, Folds
<1>5. ASSUME NEW f, Folds(f, S, g) PROVE f[S] = SumOver(S, g)
  <2>1. f[{}] = 0
    BY <1>5 DEF Folds
  <2>2. ASSUME NEW t \in SUBSET S, t # {} PROVE \E x \in t : AddsLast(f, g, t, x)
    <3>1. f[t] = g[Some(t)] + f[t \ {Some(t)}]
      BY <1>5, <2>2 DEF Folds
    <3>2. QED  BY <1>1, <2>2, <3>1 DEF AddsLast
  <2>3. QED  BY <2>1, <2>2, SumOverIs
<1>6. QED  BY <1>4, <1>5

-----------------------------------------------------------------------------
(* Flattening.  Piece k of c[k] elements comes after the pieces before it. *)
Spot(c, k, i) == SumOver(1..(k - 1), c) + i
Lays(s, seqs, c, n) ==
    /\ IsSeq(s) /\ Len(s) = SumOver(1..n, c)
    /\ \A k \in 1..n : \A i \in 1..c[k] : Spot(c, k, i) \in 1..Len(s) /\ s[Spot(c, k, i)] = seqs[k][i]
    /\ \A q \in 1..Len(s) : \E k \in 1..n : \E i \in 1..c[k] : q = Spot(c, k, i)
    /\ \A k, l \in 1..n : \A i \in 1..c[k] : \A h \in 1..c[l] :
          Spot(c, k, i) = Spot(c, l, h) => k = l /\ i = h

LEMMA SeqConcat ==
    ASSUME NEW s, IsSeq(s), NEW t, IsSeq(t)
    PROVE  /\ IsSeq(s \o t) /\ Len(s \o t) = Len(s) + Len(t)
           /\ \A i \in 1..Len(s) : (s \o t)[i] = s[i]
           /\ \A i \in 1..Len(t) : (s \o t)[Len(s) + i] = t[i]
<1> DEFINE S == ToSet(s) \cup ToSet(t)
<1>1. s \in Seq(S) /\ t \in Seq(S) /\ Len(s) \in Nat /\ Len(t) \in Nat
  <2>1. /\ Len(s) \in Nat /\ s \in [1..Len(s) -> ToSet(s)]
        /\ Len(t) \in Nat /\ t \in [1..Len(t) -> ToSet(t)]
    BY SeqFacts
  <2>2. s \in [1..Len(s) -> S] /\ t \in [1..Len(t) -> S]
    BY <2>1
  <2> HIDE DEF S
  <2>3. QED  BY <2>1, <2>2
<1> HIDE DEF S
<1>2. /\ s \o t \in Seq(S) /\ Len(s \o t) = Len(s) + Len(t)
      /\ \A i \in 1..(Len(s) + Len(t)) : (s \o t)[i] = IF i <= Len(s) THEN s[i] ELSE t[i - Len(s)]
  BY <1>1, ConcatProperties
<1>3. \A i \in 1..Len(t) : (s \o t)[Len(s) + i] = t[i]
  <2>1. ASSUME NEW i \in 1..Len(t) PROVE (s \o t)[Len(s) + i] = t[i]
    <3>1. Len(s) + i \in 1..(Len(s) + Len(t)) /\ ~(Len(s) + i <= Len(s)) /\ (Len(s) + i) - Len(s) = i
      BY <1>1
    <3>2. QED  BY <1>2, <3>1
  <2>2. QED  BY <2>1
<1>4. \A i \in 1..Len(s) : (s \o t)[i] = s[i]
  BY <1>1, <1>2
<1>5. QED  BY <1>2, <1>3, <1>4, SeqOwn

LEMMA SumUpTo ==
    ASSUME NEW n \in Nat, NEW c, \A k \in 1..(n + 1) : c[k] \in Nat
    PROVE  /\ SumOver(1..n, c) \in Int
           /\ SumOver(1..(n + 1), c) = SumOver(1..n, c) + c[n + 1]
<1>1. IsFiniteSet(1..(n + 1)) /\ IsFiniteSet(1..n) /\ (1..(n + 1)) \ {n + 1} = 1..n
      /\ n + 1 \in 1..(n + 1)
  BY FS_Interval
<1>2. \A k \in 1..(n + 1) : c[k] \in Int
  OBVIOUS
<1>3. SumOver(1..(n + 1), c) = c[n + 1] + SumOver((1..(n + 1)) \ {n + 1}, c)
  BY <1>1, <1>2, SumOverAdds
<1>4. SumOver(1..n, c) \in Int
  BY <1>1, <1>2, SumOverInt
<1>5. SumOver(1..(n + 1), c) = c[n + 1] + SumOver(1..n, c)
  BY <1>1, <1>3
<1>6. c[n + 1] \in Int
  BY <1>1, <1>2
<1>7. QED  BY <1>4, <1>5, <1>6

LEMMA LaysMore ==
    ASSUME NEW n \in Nat, NEW c, NEW seqs,
           \A k \in 1..(n + 1) : IsSeq(seqs[k]) /\ c[k] = Len(seqs[k]),
           NEW s, Lays(s, seqs, c, n)
    PROVE  Lays(s \o seqs[n + 1], seqs, c, n + 1)
<1> DEFINE t == seqs[n + 1]
           u == s \o t
<1>1. \A k \in 1..(n + 1) : c[k] \in Nat
  BY SeqFacts
<1>2. IsSeq(s) /\ IsSeq(t) /\ c[n + 1] = Len(t) /\ Len(t) \in Nat
  BY SeqFacts DEF Lays
<1>3. Len(s) \in Nat /\ Len(s) = SumOver(1..n, c)
  BY <1>2, SeqFacts DEF Lays
<1>4. /\ IsSeq(u) /\ Len(u) = Len(s) + Len(t)
      /\ \A i \in 1..Len(s) : u[i] = s[i]
      /\ \A i \in 1..Len(t) : u[Len(s) + i] = t[i]
  BY <1>2, SeqConcat
<1>5. Len(u) = SumOver(1..(n + 1), c)
  BY <1>1, <1>2, <1>3, <1>4, SumUpTo
<1>6. \A i \in 1..Len(t) : Spot(c, n + 1, i) = Len(s) + i
  <2>1. (n + 1) - 1 = n
    OBVIOUS
  <2>2. QED  BY <1>3, <2>1 DEF Spot
<1>7. \A k \in 1..(n + 1) : k = n + 1 \/ k \in 1..n
  OBVIOUS
<1> HIDE DEF t, u
<1>8. ASSUME NEW k \in 1..(n + 1), NEW i \in 1..c[k]
      PROVE  Spot(c, k, i) \in 1..Len(u) /\ u[Spot(c, k, i)] = seqs[k][i]
  <2>1. CASE k = n + 1
    BY <1>2, <1>3, <1>4, <1>6, <2>1 DEF t
  <2>2. CASE k \in 1..n
    <3>1. Spot(c, k, i) \in 1..Len(s) /\ s[Spot(c, k, i)] = seqs[k][i]
      BY <2>2 DEF Lays
    <3>2. QED  BY <1>2, <1>3, <1>4, <3>1
  <2>3. QED  BY <1>7, <2>1, <2>2
<1>9. ASSUME NEW q \in 1..Len(u)
      PROVE  \E k \in 1..(n + 1) : \E i \in 1..c[k] : q = Spot(c, k, i)
  <2>1. CASE q <= Len(s)
    <3>1. q \in 1..Len(s)
      BY <1>3, <2>1
    <3>2. PICK k \in 1..n : \E i \in 1..c[k] : q = Spot(c, k, i)
      BY <3>1 DEF Lays
    <3>3. k \in 1..(n + 1)
      OBVIOUS
    <3>4. QED  BY <3>2, <3>3
  <2>2. CASE ~(q <= Len(s))
    <3>1. q - Len(s) \in 1..Len(t) /\ q = Len(s) + (q - Len(s))
      BY <1>2, <1>3, <1>4, <2>2
    <3>2. q - Len(s) \in 1..c[n + 1] /\ q = Spot(c, n + 1, q - Len(s))
      BY <1>2, <1>6, <3>1
    <3>3. n + 1 \in 1..(n + 1)
      OBVIOUS
    <3>4. QED  BY <3>2, <3>3
  <2>3. QED  BY <2>1, <2>2
<1>10. ASSUME NEW k \in 1..(n + 1), NEW l \in 1..(n + 1), NEW i \in 1..c[k], NEW h \in 1..c[l],
              Spot(c, k, i) = Spot(c, l, h)
       PROVE  k = l /\ i = h
  <2>1. \A g \in 1..n : \A j \in 1..c[g] : Spot(c, g, j) \in 1..Len(s)
    BY DEF Lays
  <2>2. CASE k = n + 1 /\ l = n + 1
    <3>1. Len(s) + i = Len(s) + h /\ i \in Int /\ h \in Int
      BY <1>2, <1>6, <1>10, <2>2
    <3>2. QED  BY <1>3, <2>2, <3>1
  <2>3. CASE k = n + 1 /\ l \in 1..n
    <3>1. Spot(c, k, i) = Len(s) + i /\ i \in 1..Len(t)
      BY <1>2, <1>6, <2>3
    <3>2. QED  BY <1>3, <1>10, <2>1, <2>3, <3>1
  <2>4. CASE k \in 1..n /\ l = n + 1
    <3>1. Spot(c, l, h) = Len(s) + h /\ h \in 1..Len(t)
      BY <1>2, <1>6, <2>4
    <3>2. QED  BY <1>3, <1>10, <2>1, <2>4, <3>1
  <2>5. CASE k \in 1..n /\ l \in 1..n
    BY <1>10, <2>5 DEF Lays
  <2>6. QED  BY <1>7, <2>2, <2>3, <2>4, <2>5
<1>11. QED  BY <1>4, <1>5, <1>8, <1>9, <1>10 DEF Lays, u, t

LEMMA LaysNothing == ASSUME NEW seqs, NEW c PROVE Lays(<<>>, seqs, c, 0)
<1>1. IsSeq(<<>>) /\ Len(<<>>) = 0
  <2>1. <<>> \in Seq({})
    OBVIOUS
  <2>2. QED  BY <2>1, SeqOwn
<1>2. 1..0 = {}
  OBVIOUS
<1>3. QED  BY <1>1, <1>2, SumOverEmpty DEF Lays

LEMMA FlattenLays ==
    ASSUME NEW seqs, IsSeq(seqs), NEW c,
           \A k \in 1..Len(seqs) : IsSeq(seqs[k]) /\ c[k] = Len(seqs[k])
    PROVE  Lays(FlattenSeq(seqs), seqs, c, Len(seqs))
<1> DEFINE n == Len(seqs)
<1>1. n \in Nat /\ DOMAIN seqs = 1..n
  BY SeqFacts
<1>2. CASE n = 0
  <2>1. seqs = <<>>
    <3>1. seqs \in Seq(ToSet(seqs)) /\ Len(seqs) = 0
      BY <1>2 DEF IsSeq
    <3>2. QED  BY <3>1, EmptySeq
  <2>2. FlattenSeq(seqs) = seqs
    BY <1>2 DEF FlattenSeq
  <2>3. Lays(<<>>, seqs, c, 0)
    BY LaysNothing
  <2>4. QED  BY <1>2, <2>1, <2>2, <2>3
<1>3. CASE n # 0
  <2> DEFINE step(f, i) == IF i = 1 THEN seqs[i] ELSE f[i - 1] \o seqs[i]
             Is(f, m) == f = [i \in 1..m |-> step(f, i)]
             flatten == CHOOSE f : Is(f, n)
  <2>1. FlattenSeq(seqs) = flatten[n]
    BY <1>3 DEF FlattenSeq
  <2> DEFINE G == {m \in Nat : \E f : Is(f, m)}
  <2>2. 0 \in G
    <3>1. Is([i \in 1..0 |-> 0], 0)
      OBVIOUS
    <3>2. QED  BY <3>1
  <2>3. ASSUME NEW m \in Nat, m \in G PROVE m + 1 \in G
    <3>1. PICK f : Is(f, m)
      BY <2>3
    <3> DEFINE h == [i \in 1..(m + 1) |-> IF i \in 1..m THEN f[i] ELSE step(f, i)]
    <3>2. ASSUME NEW i \in 1..(m + 1) PROVE h[i] = step(h, i)
      <4>1. h[i] = step(f, i)
        BY <3>1
      <4>2. i # 1 => i - 1 \in 1..m /\ i - 1 \in 1..(m + 1)
        OBVIOUS
      <4>3. i # 1 => h[i - 1] = f[i - 1]
        BY <4>2
      <4>4. QED  BY <4>1, <4>3
    <3>3. Is(h, m + 1)
      BY <3>2
    <3> HIDE DEF h, Is
    <3>4. QED  BY <3>3
  <2> HIDE DEF G
  <2>4. Nat \subseteq G
    BY <2>2, <2>3, NumbersReached
  <2>5. Is(flatten, n)
    <3>1. \E f : Is(f, n)
      BY <1>1, <2>4 DEF G
    <3> HIDE DEF Is
    <3>2. QED  BY <3>1
  <2> HIDE DEF flatten
  <2>6. \A i \in 1..n : flatten[i] = step(flatten, i)
    BY <2>5
  <2> DEFINE P == {m \in Nat : m + 1 \in 1..n => Lays(flatten[m + 1], seqs, c, m + 1)}
  <2>7. 0 \in P
    <3>1. flatten[1] = seqs[1]
      BY <1>1, <1>3, <2>6
    <3>2. 1 \in 1..n
      BY <1>1, <1>3
    <3>3. \A k \in 1..(0 + 1) : IsSeq(seqs[k]) /\ c[k] = Len(seqs[k])
      BY <3>2
    <3>4. Lays(<<>> \o seqs[0 + 1], seqs, c, 0 + 1)
      BY <3>3, LaysNothing, LaysMore
    <3>5. <<>> \o seqs[1] = seqs[1]
      <4>1. seqs[1] \in Seq(ToSet(seqs[1]))
        BY <3>2 DEF IsSeq
      <4>2. QED  BY <4>1, ConcatEmptySeq
    <3>6. QED  BY <3>1, <3>4, <3>5
  <2>8. ASSUME NEW m \in Nat, m \in P PROVE m + 1 \in P
    <3> SUFFICES ASSUME (m + 1) + 1 \in 1..n
                 PROVE  Lays(flatten[(m + 1) + 1], seqs, c, (m + 1) + 1)
      OBVIOUS
    <3>1. m + 1 \in 1..n /\ (m + 1) + 1 # 1 /\ ((m + 1) + 1) - 1 = m + 1 /\ m + 1 \in Nat
      BY <1>1
    <3>2. flatten[(m + 1) + 1] = flatten[m + 1] \o seqs[(m + 1) + 1]
      BY <2>6, <3>1
    <3>3. Lays(flatten[m + 1], seqs, c, m + 1)
      BY <2>8, <3>1
    <3>4. \A k \in 1..((m + 1) + 1) : IsSeq(seqs[k]) /\ c[k] = Len(seqs[k])
      BY <1>1, <3>1
    <3>5. QED  BY <3>1, <3>2, <3>3, <3>4, LaysMore
  <2> HIDE DEF P
  <2>9. Nat \subseteq P
    BY <2>7, <2>8, NumbersReached
  <2>10. n - 1 \in Nat /\ (n - 1) + 1 = n /\ n \in 1..n
    BY <1>1, <1>3
  <2>11. n - 1 \in P
    BY <2>9, <2>10
  <2>12. Lays(flatten[n], seqs, c, n)
    BY <2>10, <2>11 DEF P
  <2>13. QED  BY <2>1, <2>12
<1>4. QED  BY <1>2, <1>3

-----------------------------------------------------------------------------
(* Counting.                                                               *)
LEMMA BijectionIs ==
    ASSUME NEW S, NEW T, NEW b \in [S -> T], \A y \in T : \E x \in S : b[x] = y,
           \A x, y \in S : b[x] = b[y] => x = y
    PROVE  b \in Bijection(S, T)
  BY DEF Bijection, Injection, Surjection, IsInjective

LEMMA BijectionFacts ==
    ASSUME NEW S, NEW T, NEW b \in Bijection(S, T)
    PROVE  /\ b \in [S -> T] /\ \A y \in T : \E x \in S : b[x] = y
           /\ \A x, y \in S : b[x] = b[y] => x = y
<1>1. b \in Injection(S, T) /\ b \in Surjection(S, T)
  BY DEF Bijection
<1>2. QED  BY <1>1 DEF Injection, Surjection, IsInjective

LEMMA BijectionReaches ==
    ASSUME NEW S, NEW T, NEW b \in Bijection(S, T), NEW y \in T
    PROVE  \E x \in S : b[x] = y
<1>1. b \in Surjection(S, T)
  BY DEF Bijection
<1>2. QED  BY <1>1 DEF Surjection

LEMMA SameCount ==
    ASSUME NEW n \in Nat, NEW S, NEW b \in Bijection(S, 1..n), NEW A, A \subseteq S,
           NEW B, B \subseteq 1..n, \A x \in S : x \in A <=> b[x] \in B
    PROVE  IsFiniteSet(A) /\ Cardinality(A) = Cardinality(B)
<1>1. /\ b \in [S -> 1..n] /\ \A y \in 1..n : \E x \in S : b[x] = y
      /\ \A x, y \in S : b[x] = b[y] => x = y
  BY BijectionFacts
<1>2. IsFiniteSet(A)
  <2>1. b \in Injection(S, 1..n) /\ IsFiniteSet(1..n)
    BY FS_Interval DEF Bijection
  <2>2. IsFiniteSet(S)
    BY <2>1, FS_Injection
  <2>3. QED  BY <2>2, FS_Subset
<1> DEFINE c == [x \in A |-> b[x]]
<1>3. /\ c \in [A -> B] /\ \A y \in B : \E x \in A : c[x] = y
      /\ \A x, y \in A : c[x] = c[y] => x = y
  BY <1>1
<1>4. ExistsBijection(A, B)
  BY <1>3, BijectionIs DEF ExistsBijection
<1>5. QED  BY <1>2, <1>4, FS_Bijection

-----------------------------------------------------------------------------
(* Reports.                                                                *)
Report(f) ==
    /\ f.pay \in Payloads /\ f.pay # <<>> /\ f.job \in 0..Len(f.pay)

(* The tests of a report in the order of their groups, with their ids.     *)
TestAt(f, t) == f.pay[t[1]].tests[t[2]]
TestId(f, t) ==
    IF f.job = 0 THEN <<f.pay[t[1]].id, TestAt(f, t).id>> ELSE <<TestAt(f, t).id>>
Counts(pay) == [j \in DOMAIN pay |-> Len(pay[j].tests)]
RowOf(f, t) == IF f.job = 0 THEN Spot(Counts(f.pay), t[1], t[2]) ELSE t[2]
Pieces(pay) ==
    [j \in DOMAIN pay |-> [i \in DOMAIN pay[j].tests |-> [job |-> pay[j].id, test |-> pay[j].tests[i]]]]
Listed(f) ==
    IF f.job = 0
    THEN LET flat == FlatTests(f.pay) IN
         [q \in DOMAIN flat |-> [id |-> <<flat[q].job, flat[q].test.id>>, test |-> flat[q].test]]
    ELSE LET tests == f.pay[f.job].tests IN
         [q \in DOMAIN tests |-> [id |-> <<tests[q].id>>, test |-> tests[q]]]

LEMMA ReportFacts ==
    ASSUME NEW f, Report(f)
    PROVE  /\ IsSeq(f.pay) /\ Len(f.pay) \in Nat \ {0} /\ DOMAIN f.pay = 1..Len(f.pay)
           /\ \A j \in 1..Len(f.pay) :
                 /\ IsSeq(f.pay[j].tests) /\ Len(f.pay[j].tests) \in Nat
                 /\ DOMAIN f.pay[j].tests = 1..Len(f.pay[j].tests)
                 /\ \A i \in 1..Len(f.pay[j].tests) : f.pay[j].tests[i] \in TestData
<1> DEFINE Job == [id : STRING, suite : STRING, tests : Seq(TestData)]
<1>1. f.pay \in Seq(Job) /\ f.pay # <<>>
  BY RecordAssumption DEF Report
<1>2. /\ IsSeq(f.pay) /\ Len(f.pay) \in Nat \ {0} /\ DOMAIN f.pay = 1..Len(f.pay)
      /\ \A j \in 1..Len(f.pay) : f.pay[j] \in Job
  <2> HIDE DEF Job
  <2>1. QED  BY <1>1, SeqOwn, EmptySeq
<1>3. \A j \in 1..Len(f.pay) : f.pay[j].tests \in Seq(TestData)
  BY <1>2
<1>4. ASSUME NEW S, NEW s \in Seq(S)
      PROVE  IsSeq(s) /\ Len(s) \in Nat /\ DOMAIN s = 1..Len(s) /\ \A i \in 1..Len(s) : s[i] \in S
  BY SeqOwn
<1>5. QED  BY <1>2, <1>3, <1>4

LEMMA TestsFacts ==
    ASSUME NEW f, Report(f)
    PROVE  /\ Jobs(f) = IF f.job = 0 THEN 1..Len(f.pay) ELSE {f.job}
           /\ Jobs(f) # {} /\ Jobs(f) \subseteq 1..Len(f.pay)
           /\ \A t : t \in Tests(f) <=>
                 \E j \in Jobs(f) : \E i \in 1..Len(f.pay[j].tests) : t = <<j, i>>
<1>1. /\ Len(f.pay) \in Nat \ {0} /\ DOMAIN f.pay = 1..Len(f.pay)
      /\ \A j \in 1..Len(f.pay) : DOMAIN f.pay[j].tests = 1..Len(f.pay[j].tests)
  BY ReportFacts
<1>2. /\ Jobs(f) = IF f.job = 0 THEN 1..Len(f.pay) ELSE {f.job}
      /\ Jobs(f) # {} /\ Jobs(f) \subseteq 1..Len(f.pay)
  BY <1>1 DEF Jobs, Report
<1>3. ASSUME NEW t
      PROVE  t \in Tests(f) <=> \E j \in Jobs(f) : \E i \in 1..Len(f.pay[j].tests) : t = <<j, i>>
  <2>1. t \in Tests(f) <=> \E j \in Jobs(f) : \E i \in DOMAIN f.pay[j].tests : t = <<j, i>>
    BY DEF Tests
  <2>2. QED  BY <1>1, <1>2, <2>1
<1>4. QED  BY <1>2, <1>3

LEMMA FlatLays ==
    ASSUME NEW f, Report(f)
    PROVE  Lays(FlatTests(f.pay), Pieces(f.pay), Counts(f.pay), Len(f.pay))
<1>1. /\ IsSeq(f.pay) /\ Len(f.pay) \in Nat /\ DOMAIN f.pay = 1..Len(f.pay)
      /\ \A j \in 1..Len(f.pay) : IsSeq(f.pay[j].tests)
  BY ReportFacts
<1> DEFINE s == Pieces(f.pay)
<1>2. IsSeq(s) /\ Len(s) = Len(f.pay)
  <2> DEFINE S == {s[j] : j \in 1..Len(f.pay)}
  <2>1. s \in [1..Len(f.pay) -> S]
    BY <1>1 DEF Pieces
  <2> HIDE DEF s, S
  <2>2. QED  BY <1>1, <2>1, SeqOfFunction
<1>3. ASSUME NEW j \in 1..Len(s)
      PROVE  IsSeq(s[j]) /\ Counts(f.pay)[j] = Len(s[j])
  <2>1. Len(f.pay[j].tests) \in Nat /\ DOMAIN f.pay[j].tests = 1..Len(f.pay[j].tests)
    BY <1>1, <1>2, SeqFacts
  <2> DEFINE S == {s[j][i] : i \in 1..Len(f.pay[j].tests)}
  <2>2. s[j] \in [1..Len(f.pay[j].tests) -> S]
    BY <1>1, <1>2, <2>1 DEF Pieces
  <2>3. IsSeq(s[j]) /\ Len(s[j]) = Len(f.pay[j].tests)
    <3> HIDE DEF s, S
    <3>1. QED  BY <2>1, <2>2, SeqOfFunction
  <2>4. QED  BY <1>1, <1>2, <2>3 DEF Counts
<1>4. FlatTests(f.pay) = FlattenSeq(s)
  BY DEF FlatTests, Pieces
<1> HIDE DEF s
<1>5. Lays(FlattenSeq(s), s, Counts(f.pay), Len(s))
  BY <1>2, <1>3, FlattenLays
<1>6. QED  BY <1>2, <1>4, <1>5 DEF s

(* Each test has one place in the list.                                    *)
LEMMA ListedTests ==
    ASSUME NEW f, Report(f)
    PROVE  /\ IsSeq(Listed(f)) /\ Len(Listed(f)) \in Nat
           /\ [t \in Tests(f) |-> RowOf(f, t)] \in Bijection(Tests(f), 1..Len(Listed(f)))
           /\ \A t \in Tests(f) :
                 Listed(f)[RowOf(f, t)] = [id |-> TestId(f, t), test |-> TestAt(f, t)]
<1> DEFINE l == Listed(f)
           b == [t \in Tests(f) |-> RowOf(f, t)]
<1>1. /\ Len(f.pay) \in Nat \ {0} /\ DOMAIN f.pay = 1..Len(f.pay)
      /\ \A j \in 1..Len(f.pay) : /\ Len(f.pay[j].tests) \in Nat
                                  /\ DOMAIN f.pay[j].tests = 1..Len(f.pay[j].tests)
  BY ReportFacts
<1>2. /\ Jobs(f) = IF f.job = 0 THEN 1..Len(f.pay) ELSE {f.job}
      /\ Jobs(f) \subseteq 1..Len(f.pay)
      /\ \A t : t \in Tests(f) <=> \E j \in Jobs(f) : \E i \in 1..Len(f.pay[j].tests) : t = <<j, i>>
  BY TestsFacts
<1>3. ASSUME NEW n \in Nat, DOMAIN l = 1..n, l = [q \in DOMAIN l |-> l[q]] PROVE IsSeq(l) /\ Len(l) = n
  <2> DEFINE S == {l[q] : q \in 1..n}
  <2> HIDE DEF l
  <2>1. l \in [1..n -> S]
    BY <1>3
  <2> HIDE DEF S
  <2>2. QED  BY <2>1, SeqOfFunction
<1>4. CASE f.job = 0
  <2> DEFINE flat == FlatTests(f.pay)
             c == Counts(f.pay)
  <2>1. Lays(flat, Pieces(f.pay), c, Len(f.pay))
    BY FlatLays
  <2>2. Len(flat) \in Nat /\ DOMAIN flat = 1..Len(flat)
    BY <2>1, SeqFacts DEF Lays
  <2>3. l = [q \in DOMAIN flat |-> [id |-> <<flat[q].job, flat[q].test.id>>, test |-> flat[q].test]]
    BY <1>4 DEF Listed
  <2>4. IsSeq(l) /\ Len(l) = Len(flat)
    BY <1>3, <2>2, <2>3
  <2>5. \A j \in 1..Len(f.pay) : c[j] = Len(f.pay[j].tests)
    BY <1>1 DEF Counts
  <2>6. ASSUME NEW j \in 1..Len(f.pay), NEW i \in 1..Len(f.pay[j].tests)
        PROVE  /\ RowOf(f, <<j, i>>) = Spot(c, j, i) /\ Spot(c, j, i) \in 1..Len(l)
               /\ l[Spot(c, j, i)] = [id |-> TestId(f, <<j, i>>), test |-> TestAt(f, <<j, i>>)]
    <3>1. Spot(c, j, i) \in 1..Len(flat) /\ flat[Spot(c, j, i)] = Pieces(f.pay)[j][i]
      BY <2>1, <2>5 DEF Lays
    <3>2. Pieces(f.pay)[j][i] = [job |-> f.pay[j].id, test |-> f.pay[j].tests[i]]
      BY <1>1 DEF Pieces
    <3>3. RowOf(f, <<j, i>>) = Spot(c, j, i)
      BY <1>4 DEF RowOf
    <3>4. PICK q \in DOMAIN flat : q = Spot(c, j, i)
      BY <2>2, <3>1
    <3>5. l[q] = [id |-> <<f.pay[j].id, f.pay[j].tests[i].id>>, test |-> f.pay[j].tests[i]]
      <4>1. l[q] = [id |-> <<flat[q].job, flat[q].test.id>>, test |-> flat[q].test]
        BY <2>3
      <4>2. flat[q] = [job |-> f.pay[j].id, test |-> f.pay[j].tests[i]]
        BY <3>1, <3>2, <3>4
      <4>3. flat[q].job = f.pay[j].id /\ flat[q].test = f.pay[j].tests[i]
        BY <4>2
      <4> HIDE DEF l, flat
      <4>4. QED  BY <4>1, <4>3
    <3>6. /\ TestAt(f, <<j, i>>) = f.pay[j].tests[i]
          /\ TestId(f, <<j, i>>) = <<f.pay[j].id, f.pay[j].tests[i].id>>
      BY <1>4 DEF TestId, TestAt
    <3>7. QED  BY <2>4, <3>1, <3>3, <3>4, <3>5, <3>6
  <2> HIDE DEF l, flat, c
  <2>7. ASSUME NEW t \in Tests(f)
        PROVE  RowOf(f, t) \in 1..Len(l) /\ l[RowOf(f, t)] = [id |-> TestId(f, t), test |-> TestAt(f, t)]
    <3>1. PICK j \in 1..Len(f.pay) : \E i \in 1..Len(f.pay[j].tests) : t = <<j, i>>
      BY <1>2
    <3>2. PICK i \in 1..Len(f.pay[j].tests) : t = <<j, i>>
      BY <3>1
    <3>3. QED  BY <2>6, <3>2
  <2>8. \A q \in 1..Len(l) : \E t \in Tests(f) : b[t] = q
    <3>1. ASSUME NEW q \in 1..Len(l) PROVE \E t \in Tests(f) : b[t] = q
      <4>1. PICK j \in 1..Len(f.pay) : \E i \in 1..c[j] : q = Spot(c, j, i)
        BY <2>1, <2>4 DEF Lays
      <4>2. PICK i \in 1..Len(f.pay[j].tests) : q = Spot(c, j, i)
        BY <2>5, <4>1
      <4>3. <<j, i>> \in Tests(f)
        BY <1>2, <1>4
      <4>4. RowOf(f, <<j, i>>) = q
        BY <2>6, <4>2
      <4>5. QED  BY <4>3, <4>4
    <3>2. QED  BY <3>1
  <2>9. ASSUME NEW t \in Tests(f), NEW u \in Tests(f), b[t] = b[u] PROVE t = u
    <3>1. PICK j \in 1..Len(f.pay) : \E i \in 1..Len(f.pay[j].tests) : t = <<j, i>>
      BY <1>2
    <3>2. PICK i \in 1..Len(f.pay[j].tests) : t = <<j, i>>
      BY <3>1
    <3>3. PICK k \in 1..Len(f.pay) : \E h \in 1..Len(f.pay[k].tests) : u = <<k, h>>
      BY <1>2
    <3>4. PICK h \in 1..Len(f.pay[k].tests) : u = <<k, h>>
      BY <3>3
    <3>5. Spot(c, j, i) = Spot(c, k, h)
      BY <2>6, <2>9, <3>2, <3>4
    <3>6. j = k /\ i = h
      <4>1. \A x, y \in 1..Len(f.pay) : \A v \in 1..c[x] : \A w \in 1..c[y] :
               Spot(c, x, v) = Spot(c, y, w) => x = y /\ v = w
        BY <2>1 DEF Lays
      <4>2. i \in 1..c[j] /\ h \in 1..c[k]
        BY <2>5
      <4>3. QED  BY <3>5, <4>1, <4>2
    <3>7. QED  BY <3>2, <3>4, <3>6
  <2>10. b \in [Tests(f) -> 1..Len(l)]
    BY <2>7
  <2> HIDE DEF b
  <2>11. b \in Bijection(Tests(f), 1..Len(l))
    BY <2>8, <2>9, <2>10, BijectionIs
  <2>12. QED  BY <2>2, <2>4, <2>7, <2>11 DEF l, b
<1>5. CASE f.job # 0
  <2> DEFINE n == Len(f.pay[f.job].tests)
  <2>1. f.job \in 1..Len(f.pay) /\ n \in Nat /\ DOMAIN f.pay[f.job].tests = 1..n
    BY <1>1, <1>5 DEF Report
  <2>2. l = [q \in 1..n |-> [id |-> <<f.pay[f.job].tests[q].id>>, test |-> f.pay[f.job].tests[q]]]
    BY <1>5, <2>1 DEF Listed
  <2>3. IsSeq(l) /\ Len(l) = n
    BY <1>3, <2>1, <2>2
  <2>4. \A t : t \in Tests(f) <=> \E i \in 1..n : t = <<f.job, i>>
    BY <1>2, <1>5
  <2>5. \A t \in Tests(f) : t = <<f.job, t[2]>> /\ t[2] \in 1..n /\ RowOf(f, t) = t[2]
    BY <1>5, <2>4 DEF RowOf
  <2>6. \A t \in Tests(f) : l[RowOf(f, t)] = [id |-> TestId(f, t), test |-> TestAt(f, t)]
    <3>1. ASSUME NEW t \in Tests(f)
          PROVE  l[t[2]] = [id |-> TestId(f, t), test |-> TestAt(f, t)]
      <4>1. t[1] = f.job /\ t[2] \in 1..n
        BY <2>5
      <4>2. QED  BY <1>5, <2>2, <4>1 DEF TestId, TestAt
    <3>2. QED  BY <2>5, <3>1
  <2> HIDE DEF l, n
  <2>7. b \in [Tests(f) -> 1..Len(l)] /\ \A t \in Tests(f) : b[t] = t[2]
    BY <2>3, <2>5
  <2>8. \A q \in 1..Len(l) : \E t \in Tests(f) : b[t] = q
    <3>1. ASSUME NEW q \in 1..Len(l) PROVE \E t \in Tests(f) : b[t] = q
      <4>1. <<f.job, q>> \in Tests(f)
        BY <2>3, <2>4
      <4>2. QED  BY <2>7, <4>1
    <3>2. QED  BY <3>1
  <2>9. \A t, u \in Tests(f) : b[t] = b[u] => t = u
    BY <2>5, <2>7
  <2> HIDE DEF b
  <2>10. b \in Bijection(Tests(f), 1..Len(l))
    BY <2>7, <2>8, <2>9, BijectionIs
  <2>11. QED  BY <2>1, <2>3, <2>6, <2>10 DEF l, b, n
<1>6. QED  BY <1>4, <1>5

LEMMA MapStatusFacts ==
    ASSUME NEW w
    PROVE  /\ MapStatus(w) = "pass" <=> w \in {"passed", "pass"}
           /\ MapStatus(w) = "fail" <=> w \in {"failed", "fail"}
           /\ MapStatus(w) = "skip" <=> w \in {"skipped", "skip"}
<1>1. CASE w \in {"passed", "pass"}
  <2>1. MapStatus(w) = "pass"
    BY <1>1, Zenon DEF MapStatus
  <2>2. QED  BY <1>1, <2>1
<1>2. CASE w \in {"failed", "fail"}
  <2>1. MapStatus(w) = "fail"
    BY <1>2, Zenon DEF MapStatus
  <2>2. QED  BY <1>2, <2>1
<1>3. CASE w \in {"skipped", "skip"}
  <2>1. MapStatus(w) = "skip"
    BY <1>3, Zenon DEF MapStatus
  <2>2. QED  BY <1>3, <2>1
<1>4. CASE w \in {"error", "running"}
  <2>1. MapStatus(w) = w
    BY <1>4, Zenon DEF MapStatus
  <2>2. QED  BY <1>4, <2>1
<1>5. CASE w \notin {"passed", "pass", "failed", "fail", "skipped", "skip", "error", "running"}
  <2>1. MapStatus(w) = "unknown"
    BY <1>5, Zenon DEF MapStatus
  <2>2. QED  BY <1>5, <2>1
<1>6. QED  BY <1>1, <1>2, <1>3, <1>4, <1>5

CasesTime(test) == MapThenSumSet(LAMBDA k : test.cases[k].ms, DOMAIN test.cases)

LEMMA CasesSum ==
    ASSUME NEW test, test \in TestData
    PROVE  /\ IsSeq(test.cases) /\ Duration(test) \in Int
           /\ CasesTime(test) = Duration(test)
<1> DEFINE n == Len(test.cases)
           g == [i \in DOMAIN test.cases |-> test.cases[i].ms]
<1>1. /\ n \in Nat /\ DOMAIN test.cases = 1..n /\ \A i \in 1..n : test.cases[i] \in CaseData
      /\ IsSeq(test.cases)
  <2>1. test.cases \in Seq(CaseData)
    BY DEF TestData
  <2>2. QED  BY <2>1, SeqOwn
<1>2. \A i \in 1..n : g[i] = test.cases[i].ms /\ g[i] \in Int
  BY <1>1 DEF CaseData
<1>3. IsFiniteSet(1..n) /\ DOMAIN g = 1..n
  BY <1>1, FS_Interval
<1>4. Duration(test) = Total(g)
  BY DEF Duration
<1>5. Total(g) = SumOver(1..n, g) /\ SumOver(1..n, g) \in Int
  <2> HIDE DEF g, n
  <2>1. QED  BY <1>1, <1>2, <1>3, TotalIsSum, SumOverInt
<1> DEFINE Is(it) == it = [t \in SUBSET DOMAIN test.cases |->
                             IF t = {} THEN 0 ELSE test.cases[Some(t)].ms + it[t \ {Some(t)}]]
           fold == CHOOSE it : Is(it)
<1>6. CasesTime(test) = fold[DOMAIN test.cases]
  BY DEF CasesTime, MapThenSumSet, MapThenFoldSet, Some
<1>7. \A t \in SUBSET (1..n) : t # {} => g[Some(t)] = test.cases[Some(t)].ms
  BY <1>1 DEF Some
<1>8. \A it : Is(it) <=> Folds(it, 1..n, g)
  BY <1>1, <1>7 DEF Folds
<1>9. Folds(fold, 1..n, g)
  <2> HIDE DEF Is, g, n
  <2>1. \E it : Is(it)
    BY <1>2, <1>3, <1>8, FoldsSum
  <2>2. Is(fold)
    BY <2>1
  <2>3. QED  BY <1>8, <2>2
<1> HIDE DEF Is, g, n, fold
<1>10. fold[1..n] = SumOver(1..n, g)
  BY <1>2, <1>3, <1>9, FoldsSum
<1>11. QED  BY <1>1, <1>4, <1>5, <1>6, <1>10

LEMMA ListedData ==
    ASSUME NEW f, Report(f), NEW q \in 1..Len(Listed(f))
    PROVE  /\ Listed(f)[q].test \in TestData
           /\ \E t \in Tests(f) : RowOf(f, t) = q /\ Listed(f)[q] = [id |-> TestId(f, t), test |-> TestAt(f, t)]
<1> DEFINE b == [t \in Tests(f) |-> RowOf(f, t)]
           l == Listed(f)
<1>1. /\ b \in Bijection(Tests(f), 1..Len(l))
      /\ \A t \in Tests(f) : l[RowOf(f, t)] = [id |-> TestId(f, t), test |-> TestAt(f, t)]
  BY ListedTests
<1>2. PICK t \in Tests(f) : b[t] = q
  <2> DEFINE S == Tests(f)
             T == 1..Len(l)
  <2>1. b \in Bijection(S, T) /\ q \in T
    BY <1>1
  <2> HIDE DEF b, l, S, T
  <2>2. \E t \in S : b[t] = q
    BY <2>1, BijectionReaches
  <2>3. QED  BY <2>2 DEF S
<1>3. RowOf(f, t) = q /\ l[q] = [id |-> TestId(f, t), test |-> TestAt(f, t)]
  BY <1>1, <1>2
<1>4. TestAt(f, t) \in TestData
  <2>1. PICK j \in Jobs(f) : \E i \in 1..Len(f.pay[j].tests) : t = <<j, i>>
    BY TestsFacts
  <2>2. PICK i \in 1..Len(f.pay[j].tests) : t = <<j, i>>
    BY <2>1
  <2>3. j \in 1..Len(f.pay)
    BY TestsFacts
  <2>4. QED  BY <2>2, <2>3, ReportFacts DEF TestAt
<1>5. l[q].test = TestAt(f, t)
  <2> HIDE DEF l
  <2>1. QED  BY <1>3
<1>6. QED  BY <1>3, <1>4, <1>5

(* The groups are the tests, in the order of the list.                     *)
LEMMA GroupRows ==
    ASSUME NEW f, Report(f)
    PROVE  LET g == GroupsOf(f.pay, f.job) IN
           /\ IsSeq(g) /\ Len(g) = Len(Listed(f)) /\ Len(g) = Cardinality(Tests(f))
           /\ \A q \in 1..Len(g) : g[q].id = Listed(f)[q].id
           /\ \A t \in Tests(f) : /\ RowOf(f, t) \in 1..Len(g) /\ TimeOf(f, t) \in Int
                                  /\ g[RowOf(f, t)].ms = TimeOf(f, t)
<1> DEFINE l == Listed(f)
           n == Len(l)
           g == GroupsOf(f.pay, f.job)
           time(test) == IF f.job = 0 /\ test.stats > 0 THEN test.stats ELSE Duration(test)
<1>1. /\ IsSeq(l) /\ n \in Nat /\ DOMAIN l = 1..n
      /\ [t \in Tests(f) |-> RowOf(f, t)] \in Bijection(Tests(f), 1..n)
      /\ \A t \in Tests(f) : l[RowOf(f, t)] = [id |-> TestId(f, t), test |-> TestAt(f, t)]
  BY ListedTests, SeqFacts
<1>2. DOMAIN g = 1..n /\ g = [q \in 1..n |-> g[q]] /\ \A q \in 1..n : g[q].id = l[q].id /\ g[q].ms = time(l[q].test)
  <2>1. CASE f.job = 0
    <3> DEFINE flat == FlatTests(f.pay)
    <3>1. l = [q \in DOMAIN flat |-> [id |-> <<flat[q].job, flat[q].test.id>>, test |-> flat[q].test]]
      BY <2>1 DEF Listed
    <3>2. DOMAIN flat = 1..n
      BY <1>1, <3>1
    <3>3. g = [q \in DOMAIN flat |-> Group(<<flat[q].job, flat[q].test.id>>, flat[q].test, q - 1,
                  IF flat[q].test.stats > 0 THEN flat[q].test.stats ELSE Duration(flat[q].test))]
      BY <2>1 DEF GroupsOf, RunGroups
    <3> HIDE DEF l, n, g, flat
    <3>4. DOMAIN g = 1..n /\ g = [q \in 1..n |-> g[q]]
      BY <3>2, <3>3
    <3>5. ASSUME NEW q \in 1..n PROVE g[q].id = l[q].id /\ g[q].ms = time(l[q].test)
      <4>1. l[q].id = <<flat[q].job, flat[q].test.id>> /\ l[q].test = flat[q].test
        BY <3>1, <3>2
      <4>2. g[q] = Group(<<flat[q].job, flat[q].test.id>>, flat[q].test, q - 1,
                  IF flat[q].test.stats > 0 THEN flat[q].test.stats ELSE Duration(flat[q].test))
        BY <3>2, <3>3
      <4>3. \A id, test, order, ms : Group(id, test, order, ms).id = id /\ Group(id, test, order, ms).ms = ms
        BY DEF Group
      <4>4. QED  BY <2>1, <4>1, <4>2, <4>3
    <3>6. QED  BY <3>4, <3>5
  <2>2. CASE f.job # 0
    <3> DEFINE tests == f.pay[f.job].tests
    <3>1. l = [q \in DOMAIN tests |-> [id |-> <<tests[q].id>>, test |-> tests[q]]]
      BY <2>2 DEF Listed
    <3>2. DOMAIN tests = 1..n
      BY <1>1, <3>1
    <3>3. g = [q \in DOMAIN tests |->
                 Group(<<tests[q].id>>, tests[q], (f.job - 1) * 1000 + q - 1, Duration(tests[q]))]
      BY <2>2 DEF GroupsOf, JobGroups
    <3> HIDE DEF l, n, g, tests
    <3>4. DOMAIN g = 1..n /\ g = [q \in 1..n |-> g[q]]
      BY <3>2, <3>3
    <3>5. ASSUME NEW q \in 1..n PROVE g[q].id = l[q].id /\ g[q].ms = time(l[q].test)
      <4>1. l[q].id = <<tests[q].id>> /\ l[q].test = tests[q]
        BY <3>1, <3>2
      <4>2. g[q] = Group(<<tests[q].id>>, tests[q], (f.job - 1) * 1000 + q - 1, Duration(tests[q]))
        BY <3>2, <3>3
      <4>3. \A id, test, order, ms : Group(id, test, order, ms).id = id /\ Group(id, test, order, ms).ms = ms
        BY DEF Group
      <4>4. QED  BY <2>2, <4>1, <4>2, <4>3
    <3>6. QED  BY <3>4, <3>5
  <2>3. QED  BY <2>1, <2>2
<1>3. IsSeq(g) /\ Len(g) = n
  <2> DEFINE S == {g[q] : q \in 1..n}
  <2> HIDE DEF g, n
  <2>1. g \in [1..n -> S]
    BY <1>2
  <2> HIDE DEF S
  <2>2. QED  BY <1>1, <2>1, SeqOfFunction
<1>4. n = Cardinality(Tests(f))
  <2>1. Cardinality(1..n) = n
    BY <1>1, FS_Interval
  <2> DEFINE b == [t \in Tests(f) |-> RowOf(f, t)]
  <2>2. b \in Bijection(Tests(f), 1..n)
    BY <1>1
  <2> HIDE DEF b, n
  <2>3. \A x \in Tests(f) : b[x] \in 1..n
    <3>1. b \in [Tests(f) -> 1..n]
      BY <2>2, BijectionFacts
    <3>2. QED  BY <3>1
  <2>4. Cardinality(Tests(f)) = Cardinality(1..n)
    BY <1>1, <2>2, <2>3, SameCount
  <2>5. QED  BY <2>1, <2>4
<1>5. ASSUME NEW t \in Tests(f)
      PROVE  /\ RowOf(f, t) \in 1..n /\ TimeOf(f, t) \in Int /\ g[RowOf(f, t)].ms = TimeOf(f, t)
  <2> DEFINE b == [u \in Tests(f) |-> RowOf(f, u)]
  <2>1. RowOf(f, t) \in 1..n
    <3>1. b \in Bijection(Tests(f), 1..n) /\ b[t] = RowOf(f, t)
      BY <1>1
    <3> HIDE DEF b, n
    <3>2. b \in [Tests(f) -> 1..n]
      BY <3>1, BijectionFacts
    <3>3. QED  BY <3>1, <3>2
  <2>2. PICK q \in 1..n : q = RowOf(f, t)
    BY <2>1
  <2>3. l[q].test = TestAt(f, t) /\ l[q].test \in TestData
    <3>1. l[q] = [id |-> TestId(f, t), test |-> TestAt(f, t)]
      BY <1>1, <2>2
    <3>2. l[q].test = TestAt(f, t)
      <4> HIDE DEF l
      <4>1. QED  BY <3>1
    <3>3. QED  BY <2>2, <3>2, ListedData
  <2>4. PICK test \in TestData : test = TestAt(f, t)
    BY <2>3
  <2>5. TimeOf(f, t) = time(test)
    <3>1. CasesTime(test) = Duration(test)
      BY <2>4, CasesSum
    <3>2. TimeOf(f, t) = IF f.job = 0 /\ TestAt(f, t).stats > 0 THEN TestAt(f, t).stats
                         ELSE CasesTime(TestAt(f, t))
      BY DEF TimeOf, TestAt, CasesTime
    <3>3. QED  BY <2>4, <3>1, <3>2
  <2>6. time(test) \in Int
    BY <2>4, CasesSum DEF TestData
  <2>7. g[q].ms = time(test)
    BY <1>2, <2>2, <2>3, <2>4
  <2>8. QED  BY <2>1, <2>2, <2>5, <2>6, <2>7
<1>6. QED  BY <1>2, <1>3, <1>4, <1>5

(* The cases are those of the tests in that order, each with the id of its *)
(* group.                                                                  *)
Lengths(f) == [q \in 1..Len(Listed(f)) |-> Len(Listed(f)[q].test.cases)]
RowsAt(f) == [q \in 1..Len(Listed(f)) |-> CaseRows(Listed(f)[q].id, Listed(f)[q].test)]
CaseOf(f, x) == Spot(Lengths(f), RowOf(f, <<x[1], x[2]>>), x[3])

LEMMA CaseRowsLay ==
    ASSUME NEW f, Report(f)
    PROVE  Lays(CasesOf(f.pay, f.job), RowsAt(f), Lengths(f), Len(Listed(f)))
<1> DEFINE l == Listed(f)
           n == Len(l)
           s == RowsAt(f)
           c == Lengths(f)
<1>1. IsSeq(l) /\ n \in Nat /\ DOMAIN l = 1..n
  BY ListedTests, SeqFacts
<1>2. CasesOf(f.pay, f.job) = FlattenSeq(s)
  <2>1. CASE f.job = 0
    <3> DEFINE flat == FlatTests(f.pay)
               rows == [q \in DOMAIN flat |-> CaseRows(<<flat[q].job, flat[q].test.id>>, flat[q].test)]
    <3>1. l = [q \in DOMAIN flat |-> [id |-> <<flat[q].job, flat[q].test.id>>, test |-> flat[q].test]]
      BY <2>1 DEF Listed
    <3>2. DOMAIN flat = 1..n
      BY <1>1, <3>1
    <3>3. CasesOf(f.pay, f.job) = FlattenSeq(rows)
      BY <2>1 DEF CasesOf
    <3>4. s = [q \in 1..n |-> CaseRows(l[q].id, l[q].test)]
      BY DEF RowsAt
    <3> HIDE DEF l, n, s, flat
    <3>5. ASSUME NEW q \in 1..n
          PROVE  CaseRows(<<flat[q].job, flat[q].test.id>>, flat[q].test) = CaseRows(l[q].id, l[q].test)
      <4>1. l[q].id = <<flat[q].job, flat[q].test.id>> /\ l[q].test = flat[q].test
        BY <3>1, <3>2
      <4>2. QED  BY <4>1
    <3>6. rows = s
      BY <3>2, <3>4, <3>5
    <3>7. QED  BY <3>3, <3>6
  <2>2. CASE f.job # 0
    <3> DEFINE tests == f.pay[f.job].tests
               rows == [q \in DOMAIN tests |-> CaseRows(<<tests[q].id>>, tests[q])]
    <3>1. l = [q \in DOMAIN tests |-> [id |-> <<tests[q].id>>, test |-> tests[q]]]
      BY <2>2 DEF Listed
    <3>2. DOMAIN tests = 1..n
      BY <1>1, <3>1
    <3>3. CasesOf(f.pay, f.job) = FlattenSeq(rows)
      BY <2>2 DEF CasesOf
    <3>4. s = [q \in 1..n |-> CaseRows(l[q].id, l[q].test)]
      BY DEF RowsAt
    <3> HIDE DEF l, n, s, tests
    <3>5. ASSUME NEW q \in 1..n
          PROVE  CaseRows(<<tests[q].id>>, tests[q]) = CaseRows(l[q].id, l[q].test)
      <4>1. l[q].id = <<tests[q].id>> /\ l[q].test = tests[q]
        BY <3>1, <3>2
      <4>2. QED  BY <4>1
    <3>6. rows = s
      BY <3>2, <3>4, <3>5
    <3>7. QED  BY <3>3, <3>6
  <2>3. QED  BY <2>1, <2>2
<1>3. IsSeq(s) /\ Len(s) = n
  <2> DEFINE S == {s[q] : q \in 1..n}
  <2>1. s \in [1..n -> S]
    BY DEF RowsAt
  <2> HIDE DEF s, n, S
  <2>2. QED  BY <1>1, <2>1, SeqOfFunction
<1>4. ASSUME NEW q \in 1..n PROVE IsSeq(s[q]) /\ c[q] = Len(s[q])
  <2>1. PICK test \in TestData : test = l[q].test
    BY ListedData
  <2>2. IsSeq(test.cases) /\ Len(test.cases) \in Nat /\ DOMAIN test.cases = 1..Len(test.cases)
    BY <2>1, CasesSum, SeqFacts
  <2>3. s[q] = CaseRows(l[q].id, l[q].test) /\ c[q] = Len(l[q].test.cases)
    BY DEF RowsAt, Lengths
  <2> DEFINE m == Len(test.cases)
             S == {s[q][k] : k \in 1..m}
  <2> HIDE DEF l, n, c
  <2>4. s[q] = [k \in 1..m |-> [group |-> l[q].id, status |-> MapStatus(test.cases[k].status)]]
    BY <2>1, <2>2, <2>3 DEF CaseRows
  <2>5. s[q] \in [1..m -> S]
    BY <2>4
  <2>6. c[q] = m /\ m \in Nat
    BY <2>1, <2>2, <2>3
  <2> HIDE DEF s, m, S
  <2>7. QED  BY <2>5, <2>6, SeqOfFunction
<1> HIDE DEF s, c, n
<1>5. Lays(FlattenSeq(s), s, c, Len(s))
  BY <1>3, <1>4, FlattenLays
<1>6. QED  BY <1>2, <1>3, <1>5 DEF s, c, n

LEMMA ListedCases ==
    ASSUME NEW f, Report(f)
    PROVE  LET c == CasesOf(f.pay, f.job) IN
           /\ IsSeq(c) /\ Len(c) \in Nat
           /\ [x \in Cases(f) |-> CaseOf(f, x)] \in Bijection(Cases(f), 1..Len(c))
           /\ \A x \in Cases(f) : c[CaseOf(f, x)].status = MapStatus(CaseAt(f, x).status)
           /\ \A q \in 1..Len(c) : \E i \in 1..Len(Listed(f)) : c[q].group = Listed(f)[i].id
<1> DEFINE l == Listed(f)
           n == Len(l)
           s == RowsAt(f)
           d == Lengths(f)
           c == CasesOf(f.pay, f.job)
           b == [x \in Cases(f) |-> CaseOf(f, x)]
           r == [t \in Tests(f) |-> RowOf(f, t)]
<1>1. Lays(c, s, d, n) /\ IsSeq(c) /\ Len(c) \in Nat
  BY CaseRowsLay, SeqFacts DEF Lays
<1>2. /\ n \in Nat /\ r \in Bijection(Tests(f), 1..n)
      /\ \A t \in Tests(f) : l[RowOf(f, t)] = [id |-> TestId(f, t), test |-> TestAt(f, t)]
  BY ListedTests
<1>3. \A t \in Tests(f) : t = <<t[1], t[2]>>
  BY TestsFacts
<1>4. ASSUME NEW t \in Tests(f)
      PROVE  /\ RowOf(f, t) \in 1..n
             /\ d[RowOf(f, t)] = Len(TestAt(f, t).cases)
             /\ DOMAIN TestAt(f, t).cases = 1..Len(TestAt(f, t).cases)
             /\ \A k \in 1..Len(TestAt(f, t).cases) :
                   s[RowOf(f, t)][k].status = MapStatus(TestAt(f, t).cases[k].status)
  <2>1. PICK q \in 1..n : q = RowOf(f, t)
    <3>1. r[t] = RowOf(f, t)
      OBVIOUS
    <3> HIDE DEF r, n
    <3>2. r \in [Tests(f) -> 1..n]
      BY <1>2, BijectionFacts
    <3>3. QED  BY <3>1, <3>2
  <2>2. l[q].test = TestAt(f, t)
    <3>1. l[q] = [id |-> TestId(f, t), test |-> TestAt(f, t)]
      BY <1>2, <2>1
    <3> HIDE DEF l
    <3>2. QED  BY <3>1
  <2>3. l[q].test \in TestData
    BY ListedData
  <2>4. PICK test \in TestData : test = TestAt(f, t)
    BY <2>2, <2>3
  <2>5. DOMAIN test.cases = 1..Len(test.cases)
    BY <2>4, CasesSum, SeqFacts
  <2>6. d[q] = Len(test.cases) /\ s[q] = CaseRows(l[q].id, test)
    BY <2>2, <2>4 DEF Lengths, RowsAt
  <2>7. \A k \in 1..Len(test.cases) : s[q][k].status = MapStatus(test.cases[k].status)
    <3> HIDE DEF s, l
    <3>1. QED  BY <2>5, <2>6 DEF CaseRows
  <2> HIDE DEF s, d, n
  <2>8. QED  BY <2>1, <2>4, <2>5, <2>6, <2>7
<1>5. ASSUME NEW x
      PROVE  x \in Cases(f) <=> \E t \in Tests(f) : \E k \in 1..Len(TestAt(f, t).cases) :
                                   x = <<t[1], t[2], k>>
  <2>1. x \in Cases(f) <=> \E t \in Tests(f) : \E k \in DOMAIN TestAt(f, t).cases : x = <<t[1], t[2], k>>
    BY DEF Cases, TestAt
  <2>2. QED  BY <1>4, <2>1
<1>6. ASSUME NEW t \in Tests(f), NEW k \in 1..Len(TestAt(f, t).cases)
      PROVE  LET x == <<t[1], t[2], k>> IN
             /\ x \in Cases(f) /\ CaseOf(f, x) = Spot(d, RowOf(f, t), k)
             /\ CaseOf(f, x) \in 1..Len(c)
             /\ c[CaseOf(f, x)].status = MapStatus(CaseAt(f, x).status)
  <2> DEFINE x == <<t[1], t[2], k>>
  <2>1. x \in Cases(f)
    BY <1>5
  <2>2. CaseOf(f, x) = Spot(d, RowOf(f, t), k)
    BY <1>3 DEF CaseOf
  <2>3. k \in 1..d[RowOf(f, t)] /\ RowOf(f, t) \in 1..n
    BY <1>4
  <2>4. Spot(d, RowOf(f, t), k) \in 1..Len(c) /\ c[Spot(d, RowOf(f, t), k)] = s[RowOf(f, t)][k]
    <3> HIDE DEF s, d, c, n
    <3>1. QED  BY <1>1, <2>3 DEF Lays
  <2>5. CaseAt(f, x) = TestAt(f, t).cases[k]
    BY DEF CaseAt, TestAt
  <2>6. s[RowOf(f, t)][k].status = MapStatus(TestAt(f, t).cases[k].status)
    BY <1>4
  <2> HIDE DEF s, d, c, x
  <2>7. QED  BY <2>1, <2>2, <2>4, <2>5, <2>6 DEF x
<1>7. ASSUME NEW x \in Cases(f)
      PROVE  CaseOf(f, x) \in 1..Len(c) /\ c[CaseOf(f, x)].status = MapStatus(CaseAt(f, x).status)
  <2>1. PICK t \in Tests(f) : \E k \in 1..Len(TestAt(f, t).cases) : x = <<t[1], t[2], k>>
    BY <1>5
  <2>2. PICK k \in 1..Len(TestAt(f, t).cases) : x = <<t[1], t[2], k>>
    BY <2>1
  <2> HIDE DEF c
  <2>3. QED  BY <1>6, <2>2
<1>8. ASSUME NEW q \in 1..Len(c)
      PROVE  /\ \E x \in Cases(f) : b[x] = q
             /\ \E i \in 1..n : c[q].group = l[i].id
  <2>1. PICK i \in 1..n : \E k \in 1..d[i] : q = Spot(d, i, k)
    <3> HIDE DEF c, s, d, n
    <3>1. QED  BY <1>1 DEF Lays
  <2>2. PICK k \in 1..d[i] : q = Spot(d, i, k)
    BY <2>1
  <2>3. PICK t \in Tests(f) : RowOf(f, t) = i
    BY ListedData
  <2>4. k \in 1..Len(TestAt(f, t).cases)
    BY <1>4, <2>3
  <2>5. <<t[1], t[2], k>> \in Cases(f) /\ CaseOf(f, <<t[1], t[2], k>>) = q
    BY <1>6, <2>2, <2>3, <2>4
  <2>6. c[q] = s[i][k]
    <3> HIDE DEF c, s, d, n
    <3>1. QED  BY <1>1, <2>2 DEF Lays
  <2>7. s[i][k].group = l[i].id
    <3>1. s[i] = CaseRows(l[i].id, l[i].test) /\ d[i] = Len(l[i].test.cases)
      BY DEF RowsAt, Lengths
    <3>2. l[i].test \in TestData
      BY ListedData
    <3>3. PICK test \in TestData : test = l[i].test
      BY <3>2
    <3>4. DOMAIN test.cases = 1..Len(test.cases)
      BY <3>3, CasesSum, SeqFacts
    <3> HIDE DEF s, l, d
    <3>5. k \in DOMAIN test.cases
      BY <2>2, <3>1, <3>3, <3>4
    <3>6. QED  BY <3>1, <3>3, <3>5 DEF CaseRows
  <2>8. QED  BY <2>5, <2>6, <2>7
<1>9. ASSUME NEW x \in Cases(f), NEW y \in Cases(f), b[x] = b[y] PROVE x = y
  <2>1. PICK t \in Tests(f) : \E k \in 1..Len(TestAt(f, t).cases) : x = <<t[1], t[2], k>>
    BY <1>5
  <2>2. PICK k \in 1..Len(TestAt(f, t).cases) : x = <<t[1], t[2], k>>
    BY <2>1
  <2>3. PICK u \in Tests(f) : \E h \in 1..Len(TestAt(f, u).cases) : y = <<u[1], u[2], h>>
    BY <1>5
  <2>4. PICK h \in 1..Len(TestAt(f, u).cases) : y = <<u[1], u[2], h>>
    BY <2>3
  <2>5. Spot(d, RowOf(f, t), k) = Spot(d, RowOf(f, u), h)
    BY <1>6, <1>9, <2>2, <2>4
  <2>6. /\ RowOf(f, t) \in 1..n /\ k \in 1..d[RowOf(f, t)]
        /\ RowOf(f, u) \in 1..n /\ h \in 1..d[RowOf(f, u)]
    BY <1>4
  <2>7. RowOf(f, t) = RowOf(f, u) /\ k = h
    <3> HIDE DEF c, s, d, n
    <3>1. \A i, j \in 1..n : \A v \in 1..d[i] : \A w \in 1..d[j] :
             Spot(d, i, v) = Spot(d, j, w) => i = j /\ v = w
      BY <1>1 DEF Lays
    <3>2. QED  BY <2>5, <2>6, <3>1
  <2>8. t = u
    <3>1. r[t] = r[u]
      BY <2>7
    <3> HIDE DEF r, n
    <3>2. \A v, w \in Tests(f) : r[v] = r[w] => v = w
      BY <1>2, BijectionFacts
    <3>3. QED  BY <3>1, <3>2
  <2>9. QED  BY <2>2, <2>4, <2>7, <2>8
<1>10. b \in [Cases(f) -> 1..Len(c)]
  BY <1>7
<1>11. b \in Bijection(Cases(f), 1..Len(c))
  <2> HIDE DEF b, c
  <2>1. \A q \in 1..Len(c) : \E x \in Cases(f) : b[x] = q
    BY <1>8
  <2>2. QED  BY <1>9, <1>10, <2>1, BijectionIs
<1>12. QED  BY <1>1, <1>7, <1>8, <1>11

LEMMA CasesCounted ==
    ASSUME NEW f, Report(f)
    PROVE  LET c == CasesOf(f.pay, f.job) IN
           /\ Len(c) = Cardinality(Cases(f))
           /\ \A words, status :
                 (\A w : MapStatus(w) = status <=> w \in words) => Count(c, status) = Saying(f, words)
<1> DEFINE c == CasesOf(f.pay, f.job)
           n == Len(c)
           b == [x \in Cases(f) |-> CaseOf(f, x)]
<1>1. /\ DOMAIN c = 1..n /\ n \in Nat
      /\ b \in Bijection(Cases(f), 1..n)
      /\ \A x \in Cases(f) : c[CaseOf(f, x)].status = MapStatus(CaseAt(f, x).status)
  BY ListedCases, SeqFacts
<1>2. \A x \in Cases(f) : b[x] = CaseOf(f, x)
  OBVIOUS
<1> HIDE DEF b, c, n
<1>3. \A x \in Cases(f) : b[x] \in 1..n
  <2>1. b \in [Cases(f) -> 1..n]
    BY <1>1, BijectionFacts
  <2>2. QED  BY <2>1
<1>4. Cardinality(Cases(f)) = Cardinality(1..n)
  BY <1>1, <1>3, SameCount
<1>5. Cardinality(1..n) = n
  BY <1>1, FS_Interval
<1>6. ASSUME NEW words, NEW status, \A w : MapStatus(w) = status <=> w \in words
      PROVE  Count(c, status) = Saying(f, words)
  <2> DEFINE A == {x \in Cases(f) : CaseAt(f, x).status \in words}
             B == {i \in DOMAIN c : c[i].status = status}
  <2>1. A \subseteq Cases(f) /\ B \subseteq 1..n
    BY <1>1
  <2>2. \A x \in Cases(f) : x \in A <=> b[x] \in B
    BY <1>1, <1>2, <1>3, <1>6
  <2>3. Cardinality(A) = Cardinality(B)
    <3> DEFINE S == Cases(f)
    <3>1. /\ n \in Nat /\ b \in Bijection(S, 1..n) /\ A \subseteq S /\ B \subseteq 1..n
          /\ \A x \in S : x \in A <=> b[x] \in B
      BY <1>1, <2>1, <2>2
    <3> HIDE DEF A, B, S
    <3>2. QED  BY <3>1, SameCount
  <2>4. QED  BY <2>3 DEF Count, Saying
<1>7. QED  BY <1>4, <1>5, <1>6 DEF c, n

(* The time of a job: MapThenSumSet over its tests is the sum in order.    *)
OfJob(f, j) == {t \in Tests(f) : t[1] = j}
JobTime(f, j) == MapThenSumSet(LAMBDA t : TimeOf(f, t), OfJob(f, j))

LEMMA JobTimeIs ==
    ASSUME NEW f, Report(f), NEW j \in Jobs(f), NEW g, DOMAIN g = 1..Len(f.pay[j].tests),
           \A i \in 1..Len(f.pay[j].tests) : g[i] = TimeOf(f, <<j, i>>)
    PROVE  Total(g) = JobTime(f, j) /\ JobTime(f, j) \in Int
<1> DEFINE n == Len(f.pay[j].tests)
           S == OfJob(f, j)
           h == [t \in S |-> TimeOf(f, t)]
           b == [i \in 1..n |-> <<j, i>>]
<1>1. n \in Nat /\ \A t : t \in Tests(f) <=>
         \E k \in Jobs(f) : \E i \in 1..Len(f.pay[k].tests) : t = <<k, i>>
  BY ReportFacts, TestsFacts
<1>2. \A t : t \in S <=> \E i \in 1..n : t = <<j, i>>
  BY <1>1 DEF OfJob
<1>3. b \in Bijection(1..n, S)
  <2>1. b \in [1..n -> S] /\ \A t \in S : \E i \in 1..n : b[i] = t
    BY <1>2
  <2>2. \A x, y \in 1..n : b[x] = b[y] => x = y
    OBVIOUS
  <2> HIDE DEF b, S, n
  <2>3. QED  BY <2>1, <2>2, BijectionIs
<1>4. \A t \in S : h[t] = TimeOf(f, t) /\ h[t] \in Int
  BY GroupRows DEF OfJob
<1>5. \A i \in 1..n : g[i] \in Int /\ h[b[i]] = g[i]
  BY <1>2, <1>4
<1>6. IsFiniteSet(1..n) /\ IsFiniteSet(S)
  <2>1. IsFiniteSet(1..n)
    BY <1>1, FS_Interval
  <2> HIDE DEF b, S, n
  <2>2. QED  BY <1>3, <2>1, FS_Bijection DEF ExistsBijection
<1>7. SumOver(S, h) = SumOver(1..n, g) /\ SumOver(S, h) \in Int
  <2> HIDE DEF b, S, n, h
  <2>1. SumOver(S, h) \in Int
    BY <1>4, <1>6, SumOverInt
  <2>2. \A i \in 1..n : g[i] \in Int
    BY <1>5
  <2>3. \A i \in 1..n : h[b[i]] = g[i]
    BY <1>5
  <2> DEFINE T == 1..n
  <2>4. /\ b \in Bijection(T, S) /\ IsFiniteSet(T) /\ IsFiniteSet(S)
        /\ \A i \in T : g[i] \in Int /\ h[b[i]] = g[i]
    BY <1>3, <1>6, <2>2, <2>3
  <2>5. SumOver(S, h) = SumOver(T, g)
    <3> HIDE DEF T
    <3>1. QED  BY <2>4, SumOverSame
  <2>6. QED  BY <2>1, <2>5
<1>8. Total(g) = SumOver(1..n, g)
  <2> HIDE DEF n
  <2>1. DOMAIN g = 1..n
    BY DEF n
  <2>2. QED  BY <1>1, <1>5, <2>1, TotalIsSum
<1> DEFINE Is(it) == it = [t \in SUBSET S |->
                             IF t = {} THEN 0 ELSE TimeOf(f, Some(t)) + it[t \ {Some(t)}]]
           fold == CHOOSE it : Is(it)
<1>9. JobTime(f, j) = fold[S]
  BY DEF JobTime, MapThenSumSet, MapThenFoldSet, Some
<1>10. \A t \in SUBSET S : t # {} => h[Some(t)] = TimeOf(f, Some(t))
  <2> HIDE DEF S
  <2>1. \A t \in SUBSET S : t # {} => Some(t) \in S
    BY DEF Some
  <2>2. QED  BY <2>1
<1>11. \A it : Is(it) <=> Folds(it, S, h)
  <2> HIDE DEF S, h
  <2>1. QED  BY <1>10 DEF Folds
<1> HIDE DEF Is, S, h, n
<1>12. Is(fold)
  <2>1. \E it : Is(it)
    BY <1>4, <1>6, <1>11, FoldsSum
  <2>2. QED  BY <2>1
<1> HIDE DEF fold
<1>13. fold[S] = SumOver(S, h)
  BY <1>4, <1>6, <1>11, <1>12, FoldsSum
<1>14. QED  BY <1>7, <1>8, <1>9, <1>13

LEMMA SumOverAlike ==
    ASSUME NEW S, IsFiniteSet(S), NEW g, NEW h, \A x \in S : g[x] \in Int /\ h[x] = g[x]
    PROVE  SumOver(S, h) = SumOver(S, g)
<1> DEFINE b == [x \in S |-> x]
<1>1. b \in Bijection(S, S)
  BY BijectionIs
<1>2. \A x \in S : h[b[x]] = g[x]
  OBVIOUS
<1> HIDE DEF b
<1>3. QED  BY <1>1, <1>2, SumOverSame

LEMMA MaxOfOne == ASSUME NEW x \in Int PROVE Max({x}) = x
<1>1. \E y \in {x} : \A z \in {x} : y >= z
  OBVIOUS
<1>2. Max({x}) \in {x}
  BY <1>1 DEF Max
<1>3. QED  BY <1>2

(* The wall clock of the summary is that of the slowest job.               *)
LEMMA ClockIsSlowest ==
    ASSUME NEW f, Report(f)
    PROVE  WallClock(GroupsOf(f.pay, f.job),
                     IF f.job = 0 THEN [j \in DOMAIN f.pay |-> Len(f.pay[j].tests)] ELSE <<>>)
               = Slowest(f)
<1> DEFINE g == GroupsOf(f.pay, f.job)
           c == [j \in DOMAIN f.pay |-> Len(f.pay[j].tests)]
<1>1. /\ Len(f.pay) \in Nat \ {0} /\ DOMAIN f.pay = 1..Len(f.pay)
      /\ \A j \in 1..Len(f.pay) : Len(f.pay[j].tests) \in Nat
  BY ReportFacts
<1>2. /\ Jobs(f) = IF f.job = 0 THEN 1..Len(f.pay) ELSE {f.job}
      /\ Jobs(f) \subseteq 1..Len(f.pay)
      /\ \A t : t \in Tests(f) <=> \E j \in Jobs(f) : \E i \in 1..Len(f.pay[j].tests) : t = <<j, i>>
  BY TestsFacts
<1>3. /\ DOMAIN g = 1..Len(g) /\ Len(g) = Len(Listed(f))
      /\ \A t \in Tests(f) : g[RowOf(f, t)].ms = TimeOf(f, t)
  BY GroupRows, SeqFacts
<1>4. Slowest(f) = Max({JobTime(f, j) : j \in Jobs(f)})
  BY DEF Slowest, JobTime, OfJob
<1>5. CASE f.job = 0
  <2> DEFINE before(j) == Total([k \in 1..(j - 1) |-> c[k]])
             times(j) == [i \in 1..c[j] |-> g[before(j) + i].ms]
  <2>1. c = Counts(f.pay) /\ \A j \in 1..Len(f.pay) : c[j] = Len(f.pay[j].tests) /\ c[j] \in Nat
    BY <1>1 DEF Counts
  <2>2. c # <<>>
    <3>1. DOMAIN c = 1..Len(f.pay) /\ 1 \in DOMAIN c
      BY <1>1
    <3> HIDE DEF c
    <3>2. QED  BY <3>1
  <2>3. WallClock(g, c) = Max({Total(times(j)) : j \in DOMAIN c})
    BY <2>2 DEF WallClock
  <2>4. ASSUME NEW j \in 1..Len(f.pay), NEW i \in 1..c[j]
        PROVE  before(j) + i = RowOf(f, <<j, i>>) /\ <<j, i>> \in Tests(f)
    <3> DEFINE m == j - 1
               d == [k \in 1..m |-> c[k]]
    <3>1. m \in Nat /\ \A k \in 1..m : c[k] \in Int /\ d[k] = c[k]
      BY <1>1, <2>1
    <3>2. DOMAIN d = 1..m
      OBVIOUS
    <3> HIDE DEF m, d, c
    <3>3. IsFiniteSet(1..m)
      BY <3>1, FS_Interval
    <3>4. Total(d) = SumOver(1..m, d)
      BY <3>1, <3>2, TotalIsSum
    <3>5. SumOver(1..m, d) = SumOver(1..m, c)
      BY <3>1, <3>3, SumOverAlike
    <3>6. before(j) = SumOver(1..m, c)
      BY <3>4, <3>5 DEF m, d
    <3>7. RowOf(f, <<j, i>>) = Spot(c, j, i)
      BY <1>5, <2>1 DEF RowOf
    <3>8. <<j, i>> \in Tests(f)
      BY <1>2, <1>5, <2>1
    <3>9. QED  BY <3>6, <3>7, <3>8 DEF Spot, m
  <2>5. ASSUME NEW j \in 1..Len(f.pay) PROVE Total(times(j)) = JobTime(f, j)
    <3>1. j \in Jobs(f) /\ c[j] = Len(f.pay[j].tests)
      BY <1>2, <1>5, <2>1
    <3> DEFINE s == times(j)
    <3>2. DOMAIN s = 1..Len(f.pay[j].tests)
      BY <3>1
    <3>3. ASSUME NEW i \in 1..Len(f.pay[j].tests) PROVE s[i] = TimeOf(f, <<j, i>>)
      <4>1. i \in 1..c[j] /\ s[i] = g[before(j) + i].ms
        BY <3>1
      <4>2. before(j) + i = RowOf(f, <<j, i>>) /\ <<j, i>> \in Tests(f)
        BY <2>4, <4>1
      <4> HIDE DEF g, s
      <4>3. QED  BY <1>3, <4>1, <4>2
    <3> HIDE DEF s
    <3>4. Total(s) = JobTime(f, j)
      BY <3>1, <3>2, <3>3, JobTimeIs
    <3>5. QED  BY <3>4 DEF s
  <2>6. DOMAIN c = 1..Len(f.pay) /\ Jobs(f) = 1..Len(f.pay)
    BY <1>1, <1>2, <1>5
  <2>7. {Total(times(j)) : j \in DOMAIN c} = {JobTime(f, j) : j \in Jobs(f)}
    <3> DEFINE total(j) == Total(times(j))
    <3>1. \A j \in 1..Len(f.pay) : total(j) = JobTime(f, j)
      BY <2>5
    <3> HIDE DEF total, c
    <3>2. {total(j) : j \in DOMAIN c} = {JobTime(f, j) : j \in Jobs(f)}
      BY <2>6, <3>1
    <3>3. QED  BY <3>2 DEF total
  <2>8. QED  BY <1>4, <1>5, <2>3, <2>7
<1>6. CASE f.job # 0
  <2> DEFINE s == [i \in DOMAIN g |-> g[i].ms]
  <2>1. WallClock(g, <<>>) = Total(s)
    BY DEF WallClock
  <2>2. f.job \in Jobs(f) /\ Jobs(f) = {f.job}
    BY <1>2, <1>6
  <2>3. Len(g) = Len(f.pay[f.job].tests)
    <3>1. Listed(f) = [q \in DOMAIN f.pay[f.job].tests |->
              [id |-> <<f.pay[f.job].tests[q].id>>, test |-> f.pay[f.job].tests[q]]]
      BY <1>6 DEF Listed
    <3>2. DOMAIN f.pay[f.job].tests = 1..Len(f.pay[f.job].tests) /\ Len(f.pay[f.job].tests) \in Nat
      BY <1>2, <2>2, ReportFacts
    <3>3. DOMAIN Listed(f) = 1..Len(f.pay[f.job].tests) /\ DOMAIN Listed(f) = 1..Len(Listed(f))
      BY <3>1, <3>2, ListedTests, SeqFacts
    <3>4. Len(Listed(f)) \in Nat
      BY ListedTests
    <3>5. Len(Listed(f)) = Len(f.pay[f.job].tests)
      <4> HIDE DEF g
      <4>1. PICK n \in Nat, m \in Nat : n = Len(Listed(f)) /\ m = Len(f.pay[f.job].tests)
        BY <3>2, <3>4
      <4>2. 1..n = 1..m
        BY <3>3, <4>1
      <4>3. Cardinality(1..n) = n /\ Cardinality(1..m) = m
        BY FS_Interval
      <4>4. QED  BY <4>1, <4>2, <4>3
    <3>6. QED  BY <1>3, <3>5
  <2>4. ASSUME NEW i \in 1..Len(f.pay[f.job].tests) PROVE s[i] = TimeOf(f, <<f.job, i>>)
    <3>1. <<f.job, i>> \in Tests(f) /\ RowOf(f, <<f.job, i>>) = i
      BY <1>2, <1>6, <2>2 DEF RowOf
    <3>2. s[i] = g[i].ms
      BY <1>3, <2>3
    <3> HIDE DEF g, s
    <3>3. QED  BY <1>3, <3>1, <3>2
  <2>5. DOMAIN s = 1..Len(f.pay[f.job].tests)
    BY <1>3, <2>3
  <2>6. Total(s) = JobTime(f, f.job) /\ JobTime(f, f.job) \in Int
    <3> HIDE DEF s
    <3>1. QED  BY <2>2, <2>4, <2>5, JobTimeIs
  <2>7. Slowest(f) = JobTime(f, f.job)
    <3>1. {JobTime(f, j) : j \in Jobs(f)} = {JobTime(f, f.job)}
      BY <2>2
    <3>2. QED  BY <1>4, <2>6, <3>1, MaxOfOne
  <2>8. QED  BY <1>6, <2>1, <2>6, <2>7
<1>7. QED  BY <1>5, <1>6

(* The rows of a report and what its summary says of them.                 *)
SaysAll(f) ==
    [cases |-> Cardinality(Cases(f)), passed |-> Saying(f, {"passed", "pass"}),
     failed |-> Saying(f, {"failed", "fail"}), skipped |-> Saying(f, {"skipped", "skip"}),
     groups |-> Cardinality(Tests(f)), ms |-> Slowest(f)]

LEMMA ReportRows ==
    ASSUME NEW f, Report(f)
    PROVE  LET g == GroupsOf(f.pay, f.job)
               c == CasesOf(f.pay, f.job)
           IN  /\ IsSeq(g) /\ Len(g) = Cardinality(Tests(f))
               /\ IsSeq(c) /\ Len(c) = Cardinality(Cases(f))
               /\ \A q \in 1..Len(c) : \E i \in 1..Len(g) : c[q].group = g[i].id
               /\ g = <<>> => c = <<>>
               /\ SummaryOf(f.pay, f.job) = SaysAll(f)
<1> DEFINE g == GroupsOf(f.pay, f.job)
           c == CasesOf(f.pay, f.job)
           counts == IF f.job = 0 THEN [j \in DOMAIN f.pay |-> Len(f.pay[j].tests)] ELSE <<>>
<1>1. /\ IsSeq(g) /\ Len(g) = Len(Listed(f)) /\ Len(g) = Cardinality(Tests(f))
      /\ \A q \in 1..Len(g) : g[q].id = Listed(f)[q].id
  BY GroupRows
<1>2. /\ IsSeq(c) /\ Len(c) \in Nat
      /\ \A q \in 1..Len(c) : \E i \in 1..Len(Listed(f)) : c[q].group = Listed(f)[i].id
  BY ListedCases
<1>3. /\ Len(c) = Cardinality(Cases(f))
      /\ \A words, status :
            (\A w : MapStatus(w) = status <=> w \in words) => Count(c, status) = Saying(f, words)
  BY CasesCounted
<1>4. WallClock(g, counts) = Slowest(f)
  BY ClockIsSlowest
<1>5. SummaryOf(f.pay, f.job) =
         [cases |-> Len(c), passed |-> Count(c, "pass"), failed |-> Count(c, "fail"),
          skipped |-> Count(c, "skip"), groups |-> Len(g), ms |-> WallClock(g, counts)]
  BY DEF SummaryOf, Summary
<1> HIDE DEF g, c, counts
<1>6. /\ Count(c, "pass") = Saying(f, {"passed", "pass"})
      /\ Count(c, "fail") = Saying(f, {"failed", "fail"})
      /\ Count(c, "skip") = Saying(f, {"skipped", "skip"})
  <2>1. /\ \A w : MapStatus(w) = "pass" <=> w \in {"passed", "pass"}
        /\ \A w : MapStatus(w) = "fail" <=> w \in {"failed", "fail"}
        /\ \A w : MapStatus(w) = "skip" <=> w \in {"skipped", "skip"}
    BY MapStatusFacts
  <2>2. Count(c, "pass") = Saying(f, {"passed", "pass"})
    BY <1>3, <2>1, Zenon
  <2>3. Count(c, "fail") = Saying(f, {"failed", "fail"})
    BY <1>3, <2>1, Zenon
  <2>4. Count(c, "skip") = Saying(f, {"skipped", "skip"})
    BY <1>3, <2>1, Zenon
  <2>5. QED  BY <2>2, <2>3, <2>4
<1>7. SummaryOf(f.pay, f.job) = SaysAll(f)
  BY <1>1, <1>3, <1>4, <1>5, <1>6 DEF SaysAll
<1>8. \A q \in 1..Len(c) : \E i \in 1..Len(g) : c[q].group = g[i].id
  BY <1>1, <1>2
<1>9. ASSUME g = <<>> PROVE c = <<>>
  <2>1. Len(g) = 0
    BY <1>9
  <2>2. 1..Len(c) = {}
    BY <1>8, <2>1
  <2>3. Len(c) = 0
    BY <1>2, <2>2
  <2>4. c \in Seq(ToSet(c))
    BY <1>2 DEF IsSeq
  <2>5. QED  BY <2>3, <2>4, EmptySeq
<1>10. QED  BY <1>1, <1>2, <1>3, <1>7, <1>8, <1>9 DEF g, c

-----------------------------------------------------------------------------
(* What is in the tables while requests take reports in.  The rows of a    *)
(* run without a report are none; those of a run with one are all there or *)
(* none, its cases only after its groups, its summary only after both.  A  *)
(* request that has written the groups of a run finds them, and the cases  *)
(* too once it has written those; two requests get so far with one run     *)
(* only if its report has no tests.                                        *)
Late == {"cases", "finish"}

RowKept(r) ==
    LET f == from[r] IN
    /\ f = [pay |-> f.pay, job |-> f.job]
    /\ f.pay = NoReport =>
           groups[r] = <<>> /\ cases[r] = <<>> /\ runs[r].summary = NoSummary
    /\ f.pay # NoReport =>
           /\ Report(f)
           /\ groups[r] \in {<<>>, GroupsOf(f.pay, f.job)}
           /\ cases[r] \in {<<>>, CasesOf(f.pay, f.job)}
           /\ cases[r] # <<>> => groups[r] = GroupsOf(f.pay, f.job)
           /\ runs[r].summary # NoSummary =>
                  /\ groups[r] = GroupsOf(f.pay, f.job) /\ cases[r] = CasesOf(f.pay, f.job)
                  /\ runs[r].summary = SummaryOf(f.pay, f.job)

Held(x) ==
    x.at \in Taking =>
        /\ from[x.run] = [pay |-> x.pay, job |-> x.job] /\ x.pay # NoReport
        /\ x.at \in Late => groups[x.run] = GroupsOf(x.pay, x.job)
        /\ x.at = "cases" => cases[x.run] = <<>>
        /\ x.at = "finish" => cases[x.run] = CasesOf(x.pay, x.job)

Twins(x, y) ==
    (x.at \in Late /\ y.at \in Late /\ x.run = y.run) =>
        GroupsOf(x.pay, x.job) = <<>> /\ GroupsOf(y.pay, y.job) = <<>>

Kept ==
    /\ \A r \in Runs : RowKept(r)
    /\ \A p \in Procs : Held(req[p])
    /\ \A p, q \in Procs : p # q => Twins(req[p], req[q])

LEMMA RowKeptStays ==
    ASSUME NEW r, RowKept(r), from'[r] = from[r], groups'[r] = groups[r], cases'[r] = cases[r],
           runs'[r].summary = runs[r].summary
    PROVE  RowKept(r)'
  BY DEF RowKept

LEMMA HeldStays ==
    ASSUME NEW x, Held(x), from'[x.run] = from[x.run],
           x.at \in Late => groups'[x.run] = groups[x.run] /\ cases'[x.run] = cases[x.run]
    PROVE  Held(x)'
  BY DEF Held, Late

LEMMA KeptByRequest ==
    ASSUME Typed, Kept, NEW p \in Procs, NEW s \in Request, req' = [req EXCEPT ![p] = s],
           \A k \in Runs' : RowKept(k)', Held(s)',
           \A q \in Procs : q # p => \A x \in Request : x = req[q] => Held(x)',
           \A q \in Procs : q # p => Twins(req[q], s) /\ Twins(s, req[q])
    PROVE  Kept'
<1>1. \A q \in Procs : req'[q] = IF q = p THEN s ELSE req[q]
  BY OneRequest
<1>2. ASSUME NEW q \in Procs PROVE Held(req[q])'
  <2>1. PICK x \in Request : x = IF q = p THEN s ELSE req[q]
    BY DEF Typed
  <2>2. Held(x)'
    BY <2>1
  <2>3. x = req[q]'
    BY <1>1, <2>1
  <2>4. QED  BY <2>2, <2>3
<1>3. ASSUME NEW q \in Procs, NEW u \in Procs, q # u PROVE Twins(req[q], req[u])'
  <2>1. PICK x, y : x = req'[q] /\ y = req'[u]
    OBVIOUS
  <2>2. Twins(x, y)
    BY <1>1, <1>3, <2>1 DEF Kept
  <2>3. QED  BY <2>1, <2>2 DEF Twins
<1>4. QED  BY <1>2, <1>3 DEF Kept

(* Nothing of the rows that is kept changes.                               *)
RowsStay ==
    /\ Runs' = Runs /\ UNCHANGED <<groups, cases, from>>
    /\ \A k \in Runs : runs'[k].summary = runs[k].summary

LEMMA KeptByQuiet ==
    ASSUME Typed, Kept, RowsStay, NEW p \in Procs, NEW s \in Request,
           req' = [req EXCEPT ![p] = s], s.at \notin Taking
    PROVE  Kept'
<1>1. \A k \in Runs' : RowKept(k)'
  BY RowKeptStays DEF Kept, RowsStay
<1>2. Held(s)'
  BY DEF Held
<1>3. ASSUME NEW q \in Procs, NEW x \in Request, x = req[q] PROVE Held(x)'
  <2>1. Held(x)
    BY <1>3 DEF Kept
  <2>2. QED  BY <2>1, HeldStays DEF RowsStay
<1>4. \A q \in Procs : Twins(req[q], s) /\ Twins(s, req[q])
  BY DEF Twins, Late, Taking
<1>5. QED  BY <1>1, <1>2, <1>3, <1>4, KeptByRequest

LEMMA KeptByNone ==
    ASSUME Typed, Kept, RowsStay, req' = req
    PROVE  Kept'
<1>1. \A k \in Runs' : RowKept(k)'
  BY RowKeptStays DEF Kept, RowsStay
<1>2. ASSUME NEW q \in Procs PROVE Held(req[q])'
  <2>1. PICK x : x = req[q]
    OBVIOUS
  <2>2. Held(x)
    BY <2>1 DEF Kept
  <2>3. Held(x)'
    BY <2>2, HeldStays DEF RowsStay
  <2>4. x = req[q]'
    BY <2>1
  <2>5. QED  BY <2>3, <2>4
<1>3. QED  BY <1>1, <1>2 DEF Kept, Twins

(* A request that takes a report in, and the run it does it for.           *)
LEMMA TakerFacts ==
    ASSUME Typed, Kept, NEW p \in Procs, req[p].at \in Taking
    PROVE  \E r \in Request :
              /\ r = req[p] /\ Route(r) /\ Held(r) /\ r.run \in Runs /\ RowKept(r.run)
              /\ from[r.run] = [pay |-> r.pay, job |-> r.job] /\ r.pay # NoReport
              /\ Report(from[r.run]) /\ from[r.run].pay = r.pay /\ from[r.run].job = r.job
<1>1. PICK r \in Request : r = req[p] /\ Route(r) /\ Sound(r)
  BY RequestOf
<1>2. Held(r) /\ r.run \in Runs
  BY <1>1 DEF Kept, Sound
<1>3. RowKept(r.run) /\ from[r.run] = [pay |-> r.pay, job |-> r.job] /\ r.pay # NoReport
  BY <1>1, <1>2 DEF Kept, Held
<1>4. from[r.run].pay = r.pay /\ from[r.run].job = r.job
  BY <1>3
<1>5. Report(from[r.run])
  BY <1>3, <1>4 DEF RowKept
<1>6. QED  BY <1>1, <1>2, <1>3, <1>4, <1>5

LEMMA KeptCreate ==
    ASSUME Typed, Kept, NEW p \in Procs, CreateStep(p)
    PROVE  Kept'
<1>1. PICK r \in Request, s \in Request, n \in Nat : Created(p, r, s, n)
  BY CreateFacts
<1>2. /\ r = req[p] /\ Route(r) /\ r.at = "create" /\ n \notin Runs /\ Runs' = Runs \cup {n}
      /\ req' = [req EXCEPT ![p] = s] /\ s.at = IF r.op = "report" THEN "groups" ELSE "push"
      /\ s.run = n /\ s.pay = r.pay /\ s.job = r.job
  BY <1>1 DEF Created
<1>3. \A k \in Runs : /\ runs'[k] = runs[k] /\ from'[k] = from[k]
                      /\ groups'[k] = groups[k] /\ cases'[k] = cases[k]
  BY <1>1 DEF Created
<1>4. /\ from'[n] = [pay |-> r.pay, job |-> r.job] /\ groups'[n] = <<>> /\ cases'[n] = <<>>
      /\ runs'[n].summary = NoSummary
  BY <1>1 DEF Created, NewRow
<1>5. r.op = "report" => r.pay \in Payloads /\ r.pay # NoReport /\ r.job \in 0..Len(r.pay)
  <2>1. ASSUME r.op = "report" PROVE r.pay \in Payloads /\ r.job \in 1..Len(r.pay)
    BY <1>2, <2>1 DEF Route
  <2>2. Len(NoReport) = 0
    BY DEF NoReport
  <2>3. QED  BY <2>1, <2>2, ReportIsLong
<1>6. r.op # "report" => r.pay = NoReport
  BY <1>2 DEF Route
<1>7. RowKept(n)'
  <2>1. PICK f : f = from'[n]
    OBVIOUS
  <2>2. f = [pay |-> f.pay, job |-> f.job] /\ f.pay = r.pay /\ f.job = r.job
    BY <1>4, <2>1
  <2>3. f.pay # NoReport => Report(f)
    BY <1>5, <1>6, <2>2 DEF Report, NoReport
  <2>4. Report(f)' <=> Report(f)
    BY DEF Report
  <2>5. QED  BY <1>4, <2>1, <2>2, <2>3, <2>4 DEF RowKept
<1>8. \A k \in Runs' : RowKept(k)'
  BY <1>2, <1>3, <1>7, RowKeptStays DEF Kept
<1>9. Held(s)'
  BY <1>2, <1>4, <1>5 DEF Held, Late, Taking
<1>10. ASSUME NEW q \in Procs, NEW x \in Request, x = req[q] PROVE Held(x)'
  <2>1. CASE x.at \in Taking
    <3>1. Held(x) /\ x.run \in Runs
      BY <1>10, <2>1, TakerFacts
    <3>2. QED  BY <1>3, <3>1, HeldStays
  <2>2. QED  BY <2>1 DEF Held
<1>11. \A q \in Procs : Twins(req[q], s) /\ Twins(s, req[q])
  BY <1>2 DEF Twins, Late
<1>12. QED  BY <1>2, <1>8, <1>9, <1>10, <1>11, KeptByRequest

(* A report with tests is not written twice: its second batch clashes.     *)
LEMMA SecondClashes ==
    ASSUME NEW r, NEW rows, IsSeq(rows), rows # <<>>, groups[r] = rows
    PROVE  Clash(r, rows)
<1>1. Len(rows) # 0 /\ Len(rows) \in Nat /\ DOMAIN rows = 1..Len(rows)
  BY SeqFacts, EmptySeq DEF IsSeq
<1>2. rows[1] \in ToSet(rows)
  BY <1>1 DEF ToSet
<1>3. QED  BY <1>2 DEF Clash

LEMMA NothingBefore == ASSUME NEW s, IsSeq(s) PROVE <<>> \o s = s
  BY ConcatEmptySeq DEF IsSeq

LEMMA KeptGroups ==
    ASSUME Typed, Typed', Kept, NEW p \in Procs, GroupsStep(p)
    PROVE  Kept'
<1>1. PICK r \in Request :
        /\ r = req[p] /\ Held(r) /\ r.run \in Runs /\ RowKept(r.run)
        /\ from[r.run] = [pay |-> r.pay, job |-> r.job] /\ r.pay # NoReport
        /\ Report(from[r.run]) /\ from[r.run].pay = r.pay /\ from[r.run].job = r.job
  BY TakerFacts DEF GroupsStep, Taking
<1>2. r.at = "groups" /\ UNCHANGED <<suites, runs, cases, from>> /\ Runs' = Runs
  BY <1>1 DEF GroupsStep, Runs
<1>3. CASE Fail(p) /\ groups' = groups
  <2>1. RowsStay
    BY <1>2, <1>3 DEF RowsStay
  <2>2. QED  BY <1>3, <2>1, FailLeaves, KeptByQuiet
<1>4. CASE /\ ~Clash(req[p].run, Batch(p)) /\ Goto(p, "cases")
           /\ groups' = [groups EXCEPT ![req[p].run] = @ \o Batch(p)]
  <2>1. PICK b, c : b = GroupsOf(r.pay, r.job) /\ c = CasesOf(r.pay, r.job)
    OBVIOUS
  <2>2. IsSeq(b) /\ (b = <<>> => c = <<>>)
    BY <1>1, <2>1, ReportRows
  <2>3. /\ groups[r.run] \in {<<>>, b} /\ cases[r.run] \in {<<>>, c}
        /\ cases[r.run] # <<>> => groups[r.run] = b
        /\ runs[r.run].summary # NoSummary =>
              /\ groups[r.run] = b /\ cases[r.run] = c
              /\ runs[r.run].summary = SummaryOf(r.pay, r.job)
    BY <1>1, <2>1 DEF RowKept
  <2>4. b # <<>> => groups[r.run] # b
    BY <1>1, <1>4, <2>1, <2>2, SecondClashes DEF Batch
  <2>5. groups[r.run] = <<>> /\ cases[r.run] = <<>>
    BY <2>2, <2>3, <2>4
  <2>6. DOMAIN groups = Runs
    BY Indices DEF Indexed, Typed
  <2>7. groups' = [groups EXCEPT ![r.run] = b]
    BY <1>1, <1>4, <2>1, <2>2, <2>5, NothingBefore DEF Batch
  <2>8. \A k \in Runs : groups'[k] = IF k = r.run THEN b ELSE groups[k]
    BY <2>6, <2>7
  <2>9. PICK s : s = [r EXCEPT !.at = "cases"]
    OBVIOUS
  <2>10. s \in Request /\ s.at = "cases" /\ s.run = r.run /\ s.pay = r.pay /\ s.job = r.job
    BY <2>9, GotoFacts DEF Taking
  <2>11. req' = [req EXCEPT ![p] = s]
    BY <1>1, <1>4, <2>9 DEF Goto, Typed
  <2>12. RowKept(r.run)'
    <3>1. PICK f : f = from[r.run]
      OBVIOUS
    <3>2. /\ f = [pay |-> f.pay, job |-> f.job] /\ f.pay # NoReport /\ Report(f)
          /\ b = GroupsOf(f.pay, f.job) /\ c = CasesOf(f.pay, f.job)
          /\ SummaryOf(f.pay, f.job) = SummaryOf(r.pay, r.job)
      BY <1>1, <2>1, <3>1
    <3>3. f = from'[r.run] /\ groups'[r.run] = b /\ cases'[r.run] = <<>>
      BY <1>1, <1>2, <2>5, <2>8, <3>1
    <3>4. runs'[r.run].summary # NoSummary =>
             c = <<>> /\ runs'[r.run].summary = SummaryOf(f.pay, f.job)
      BY <1>2, <2>3, <2>5, <3>2
    <3>5. QED  BY <3>2, <3>3, <3>4 DEF RowKept
  <2>13. \A k \in Runs' : RowKept(k)'
    <3>1. ASSUME NEW k \in Runs, k # r.run PROVE RowKept(k)'
      BY <1>2, <2>8, <3>1, RowKeptStays DEF Kept
    <3>2. QED  BY <1>2, <2>12, <3>1
  <2>14. Held(s)'
    BY <1>1, <1>2, <2>1, <2>5, <2>8, <2>10 DEF Held, Late, Taking
  <2>15. ASSUME NEW q \in Procs, NEW x \in Request, x = req[q], x.at \in Late, x.run = r.run
         PROVE  b = <<>> /\ GroupsOf(x.pay, x.job) = b
    <3>1. Held(x) /\ from[x.run] = [pay |-> x.pay, job |-> x.job]
      BY <2>15, TakerFacts DEF Late, Taking
    <3>2. x.pay = r.pay /\ x.job = r.job
      BY <1>1, <2>15, <3>1
    <3>3. groups[r.run] = GroupsOf(x.pay, x.job)
      BY <2>15, <3>1 DEF Held, Late, Taking
    <3>4. QED  BY <2>1, <2>5, <3>2, <3>3
  <2>16. ASSUME NEW q \in Procs, NEW x \in Request, x = req[q] PROVE Held(x)'
    <3>1. CASE x.at \in Taking
      <4>1. Held(x) /\ x.run \in Runs
        BY <2>16, <3>1, TakerFacts
      <4>2. x.at \in Late => groups'[x.run] = groups[x.run]
        BY <2>5, <2>8, <2>15, <2>16, <4>1
      <4>3. QED  BY <1>2, <4>1, <4>2, HeldStays
    <3>2. QED  BY <3>1 DEF Held
  <2>17. \A q \in Procs : Twins(req[q], s) /\ Twins(s, req[q])
    <3>1. ASSUME NEW q \in Procs, req[q].at \in Late, req[q].run = r.run
          PROVE  GroupsOf(req[q].pay, req[q].job) = <<>> /\ b = <<>>
      <4>1. PICK x \in Request : x = req[q]
        BY RequestOf
      <4>2. QED  BY <2>15, <3>1, <4>1
    <3>2. QED  BY <2>1, <2>10, <3>1 DEF Twins
  <2>18. QED  BY <2>10, <2>11, <2>13, <2>14, <2>16, <2>17, KeptByRequest
<1>5. QED  BY <1>3, <1>4 DEF GroupsStep

LEMMA KeptCases ==
    ASSUME Typed, Typed', Kept, NEW p \in Procs, CasesStep(p)
    PROVE  Kept'
<1>1. PICK r \in Request :
        /\ r = req[p] /\ Held(r) /\ r.run \in Runs /\ RowKept(r.run)
        /\ from[r.run] = [pay |-> r.pay, job |-> r.job] /\ r.pay # NoReport
        /\ Report(from[r.run]) /\ from[r.run].pay = r.pay /\ from[r.run].job = r.job
  BY TakerFacts DEF CasesStep, Taking
<1>2. /\ r.at = "cases" /\ UNCHANGED <<suites, runs, groups, from>> /\ Runs' = Runs
      /\ Goto(p, "finish")
      /\ cases' = [cases EXCEPT ![r.run] = @ \o CasesOf(r.pay, r.job)]
  BY <1>1 DEF CasesStep, Runs
<1>3. PICK b, c : b = GroupsOf(r.pay, r.job) /\ c = CasesOf(r.pay, r.job)
  OBVIOUS
<1>4. IsSeq(c) /\ (b = <<>> => c = <<>>)
  BY <1>1, <1>3, ReportRows
<1>5. groups[r.run] = b /\ cases[r.run] = <<>>
  BY <1>1, <1>2, <1>3 DEF Held, Late, Taking
<1>6. DOMAIN cases = Runs
  BY Indices DEF Indexed, Typed
<1>7. cases' = [cases EXCEPT ![r.run] = c]
  BY <1>1, <1>2, <1>3, <1>4, <1>5, NothingBefore
<1>8. \A k \in Runs : cases'[k] = IF k = r.run THEN c ELSE cases[k]
  BY <1>6, <1>7
<1>9. PICK s : s = [r EXCEPT !.at = "finish"]
  OBVIOUS
<1>10. s \in Request /\ s.at = "finish" /\ s.run = r.run /\ s.pay = r.pay /\ s.job = r.job
  BY <1>9, GotoFacts DEF Taking
<1>11. req' = [req EXCEPT ![p] = s]
  BY <1>1, <1>2, <1>9 DEF Goto, Typed
<1>12. RowKept(r.run)'
  <2>1. PICK f : f = from[r.run]
    OBVIOUS
  <2>2. /\ f = [pay |-> f.pay, job |-> f.job] /\ f.pay # NoReport /\ Report(f)
        /\ b = GroupsOf(f.pay, f.job) /\ c = CasesOf(f.pay, f.job)
    BY <1>1, <1>3, <2>1
  <2>3. f = from'[r.run] /\ groups'[r.run] = b /\ cases'[r.run] = c
    BY <1>1, <1>2, <1>5, <1>8, <2>1
  <2>4. runs'[r.run].summary # NoSummary => runs'[r.run].summary = SummaryOf(f.pay, f.job)
    BY <1>1, <1>2, <2>1 DEF RowKept
  <2>5. QED  BY <2>2, <2>3, <2>4 DEF RowKept
<1>13. \A k \in Runs' : RowKept(k)'
  <2>1. ASSUME NEW k \in Runs, k # r.run PROVE RowKept(k)'
    BY <1>2, <1>8, <2>1, RowKeptStays DEF Kept
  <2>2. QED  BY <1>2, <1>12, <2>1
<1>14. Held(s)'
  BY <1>1, <1>2, <1>3, <1>5, <1>8, <1>10 DEF Held, Late, Taking
<1>15. ASSUME NEW q \in Procs, q # p, NEW x \in Request, x = req[q], x.at \in Late, x.run = r.run
       PROVE  b = <<>> /\ GroupsOf(x.pay, x.job) = <<>>
  <2>1. Twins(x, r)
    BY <1>1, <1>15 DEF Kept
  <2>2. r.at \in Late
    BY <1>2 DEF Late
  <2>3. QED  BY <1>3, <1>15, <2>1, <2>2 DEF Twins
<1>16. ASSUME NEW q \in Procs, q # p, NEW x \in Request, x = req[q] PROVE Held(x)'
  <2>1. CASE x.at \in Taking
    <3>1. Held(x) /\ x.run \in Runs
      BY <1>16, <2>1, TakerFacts
    <3>2. x.at \in Late => cases'[x.run] = cases[x.run]
      BY <1>4, <1>5, <1>8, <1>15, <1>16, <3>1
    <3>3. QED  BY <1>2, <3>1, <3>2, HeldStays
  <2>2. QED  BY <2>1 DEF Held
<1>17. ASSUME NEW q \in Procs, q # p PROVE Twins(req[q], s) /\ Twins(s, req[q])
  <2>1. PICK x \in Request : x = req[q]
    BY RequestOf
  <2>2. QED  BY <1>3, <1>10, <1>15, <1>17, <2>1 DEF Twins
<1>18. QED  BY <1>10, <1>11, <1>13, <1>14, <1>16, <1>17, KeptByRequest

LEMMA KeptFinish ==
    ASSUME Typed, Typed', Kept, NEW p \in Procs, FinishStep(p)
    PROVE  Kept'
<1>1. PICK r \in Request :
        /\ r = req[p] /\ Held(r) /\ r.run \in Runs /\ RowKept(r.run)
        /\ from[r.run] = [pay |-> r.pay, job |-> r.job] /\ r.pay # NoReport
        /\ Report(from[r.run]) /\ from[r.run].pay = r.pay /\ from[r.run].job = r.job
  BY TakerFacts DEF FinishStep, Taking
<1>2. /\ r.at = "finish" /\ Runs' = Runs /\ UNCHANGED <<groups, cases, from>>
      /\ runs'[r.run].summary = SummaryOf(r.pay, r.job)
      /\ \A k \in Runs : k # r.run => runs'[k] = runs[k]
      /\ \/ Finish(p)
         \/ \E s \in Request : req' = [req EXCEPT ![p] = s] /\ s.at = "suite"
  BY <1>1, FinishFacts
<1>3. PICK s \in Request : req' = [req EXCEPT ![p] = s] /\ s.at \notin Taking
  BY <1>2, IdleFacts DEF Finish, Taking
<1>4. /\ groups[r.run] = GroupsOf(r.pay, r.job) /\ cases[r.run] = CasesOf(r.pay, r.job)
  BY <1>1, <1>2 DEF Held, Late, Taking
<1>5. RowKept(r.run)'
  <2>1. PICK f : f = from[r.run]
    OBVIOUS
  <2>2. /\ f = [pay |-> f.pay, job |-> f.job] /\ f.pay # NoReport /\ Report(f)
        /\ groups[r.run] = GroupsOf(f.pay, f.job) /\ cases[r.run] = CasesOf(f.pay, f.job)
        /\ runs'[r.run].summary = SummaryOf(f.pay, f.job)
    BY <1>1, <1>2, <1>4, <2>1
  <2>3. f = from'[r.run] /\ groups'[r.run] = groups[r.run] /\ cases'[r.run] = cases[r.run]
    BY <1>2, <2>1
  <2>4. QED  BY <2>2, <2>3 DEF RowKept
<1>6. \A k \in Runs' : RowKept(k)'
  <2>1. ASSUME NEW k \in Runs, k # r.run PROVE RowKept(k)'
    BY <1>2, <2>1, RowKeptStays DEF Kept
  <2>2. QED  BY <1>2, <1>5, <2>1
<1>7. Held(s)'
  BY <1>3 DEF Held
<1>8. ASSUME NEW q \in Procs, NEW x \in Request, x = req[q] PROVE Held(x)'
  <2>1. Held(x)
    BY <1>8 DEF Kept
  <2>2. QED  BY <1>2, <2>1, HeldStays
<1>9. \A q \in Procs : Twins(req[q], s) /\ Twins(s, req[q])
  BY <1>3 DEF Twins, Late, Taking
<1>10. QED  BY <1>3, <1>6, <1>7, <1>8, <1>9, KeptByRequest

(* What a callback or a completion brings: a verdict, or the report of the *)
(* run, the same whoever brings it.                                        *)
LEMMA DeliveryFacts ==
    ASSUME Typed, Typed', NEW p \in Procs, StartCallback(p) \/ StartCompletion(p)
    PROVE  \E s \in Request :
              /\ req' = [req EXCEPT ![p] = s] /\ UNCHANGED tables
              /\ HasWorkflow(s.run) /\ s.job = 0
              /\ \/ s.at = "conclude" /\ from' = from
                 \/ /\ s.at = "groups" /\ s.pay \in Payloads /\ s.pay # NoReport
                    /\ Reported(s.run, s.pay)
<1>1. PICK k \in Runs, pay \in Payloads \cup {NoReport}, verdict \in {"passed", "failed"},
           op \in {"callback", "completion"}, at \in {"conclude", "groups"} :
        /\ HasWorkflow(k)
        /\ Begin(p, [Idle EXCEPT !.op = op, !.run = k, !.pay = pay, !.verdict = verdict, !.at = at])
        /\ \/ at = "conclude" /\ from' = from
           \/ at = "groups" /\ pay # NoReport /\ Reported(k, pay)
  <2>1. CASE StartCallback(p)
    <3>1. PICK k \in Runs, pay \in Payloads \cup {NoReport},
               verdict \in {"passed", "failed"} :
            /\ Begin(p, [Idle EXCEPT !.op = "callback", !.run = k, !.pay = pay,
                                     !.verdict = verdict,
                                     !.at = IF pay = NoReport THEN "conclude" ELSE "groups"])
            /\ IF pay = NoReport THEN from' = from ELSE Reported(k, pay)
            /\ HasWorkflow(k)
      BY <2>1 DEF StartCallback, HasWorkflow
    <3>2. CASE pay = NoReport
      BY <3>1, <3>2
    <3>3. CASE pay # NoReport
      BY <3>1, <3>3
    <3>4. QED  BY <3>2, <3>3
  <2>2. CASE StartCompletion(p)
    <3>1. PICK k \in jobs, pay \in Payloads \cup {NoReport}, verdict \in {"passed", "failed"} :
            /\ Begin(p, [Idle EXCEPT !.op = "completion", !.run = k, !.pay = pay,
                                     !.verdict = verdict,
                                     !.at = IF pay = NoReport THEN "conclude" ELSE "groups"])
            /\ IF pay = NoReport THEN from' = from ELSE Reported(k, pay)
            /\ k \in Runs /\ HasWorkflow(k)
      BY <2>2 DEF StartCompletion, Typed, Tables, HasWorkflow
    <3>2. CASE pay = NoReport
      BY <3>1, <3>2
    <3>3. CASE pay # NoReport
      BY <3>1, <3>3
    <3>4. QED  BY <3>2, <3>3
  <2>3. QED  BY <2>1, <2>2
<1>2. PICK s : s = [Idle EXCEPT !.op = op, !.run = k, !.pay = pay, !.verdict = verdict, !.at = at]
  OBVIOUS
<1>3. s.run = k /\ s.pay = pay /\ s.at = at /\ s.job = 0
  BY <1>2 DEF Idle
<1>4. req' = [req EXCEPT ![p] = s] /\ UNCHANGED tables
  BY <1>1, <1>2 DEF Begin
<1>5. s \in Request
  BY <1>4 DEF Typed
<1>6. QED  BY <1>1, <1>3, <1>4, <1>5

LEMMA KeptDelivery ==
    ASSUME Typed, Typed', Kept, NEW p \in Procs, StartCallback(p) \/ StartCompletion(p)
    PROVE  Kept'
<1>1. PICK s \in Request :
        /\ req' = [req EXCEPT ![p] = s] /\ UNCHANGED tables /\ HasWorkflow(s.run) /\ s.job = 0
        /\ \/ s.at = "conclude" /\ from' = from
           \/ /\ s.at = "groups" /\ s.pay \in Payloads /\ s.pay # NoReport
              /\ Reported(s.run, s.pay)
  BY DeliveryFacts
<1>2. Runs' = Runs /\ UNCHANGED <<runs, groups, cases>>
  BY <1>1 DEF tables, Runs
<1>3. CASE s.at = "conclude" /\ from' = from
  <2>1. RowsStay
    BY <1>2, <1>3 DEF RowsStay
  <2>2. QED  BY <1>1, <1>3, <2>1, KeptByQuiet DEF Taking
<1>4. CASE s.at = "groups" /\ s.pay \in Payloads /\ s.pay # NoReport /\ Reported(s.run, s.pay)
  <2>1. PICK f : f = [pay |-> s.pay, job |-> 0]
    OBVIOUS
  <2>2. f.pay = s.pay /\ f.job = 0 /\ f = [pay |-> f.pay, job |-> f.job]
    BY <2>1
  <2>3. s.run \in Runs /\ from[s.run].job = 0 /\ DOMAIN from = Runs
    BY <1>1, Indices DEF Indexed, Typed, Tables, HasWorkflow
  <2>4. from[s.run].pay \in {NoReport, s.pay} /\ from' = [from EXCEPT ![s.run] = f]
    BY <1>4, <2>1 DEF Reported
  <2>5. \A k \in Runs : from'[k] = IF k = s.run THEN f ELSE from[k]
    BY <2>3, <2>4
  <2>6. RowKept(s.run) /\ from[s.run] = [pay |-> from[s.run].pay, job |-> from[s.run].job]
    BY <2>3 DEF Kept, RowKept
  <2>7. from[s.run].pay # NoReport => from[s.run] = f
    BY <2>1, <2>3, <2>4, <2>6
  <2>8. Report(f)
    <3>1. Len(f.pay) \in Nat
      BY <1>4, <2>2, ReportIsLong
    <3>2. 0 \in 0..Len(f.pay)
      BY <3>1
    <3>3. QED  BY <1>4, <2>2, <3>2 DEF Report, NoReport
  <2>9. RowKept(s.run)'
    <3>1. CASE from[s.run].pay # NoReport
      BY <1>2, <2>3, <2>5, <2>6, <2>7, <3>1, RowKeptStays
    <3>2. CASE from[s.run].pay = NoReport
      <4>1. groups[s.run] = <<>> /\ cases[s.run] = <<>> /\ runs[s.run].summary = NoSummary
        BY <2>6, <3>2 DEF RowKept
      <4>2. /\ from'[s.run] = f /\ groups'[s.run] = <<>> /\ cases'[s.run] = <<>>
            /\ runs'[s.run].summary = NoSummary
        BY <1>2, <2>3, <2>5, <4>1
      <4>3. f.pay # NoReport
        BY <1>4, <2>2
      <4>4. QED  BY <2>2, <2>8, <4>2, <4>3 DEF RowKept
    <3>3. QED  BY <3>1, <3>2
  <2>10. \A k \in Runs' : RowKept(k)'
    <3>1. ASSUME NEW k \in Runs, k # s.run PROVE RowKept(k)'
      BY <1>2, <2>5, <3>1, RowKeptStays DEF Kept
    <3>2. QED  BY <1>2, <2>9, <3>1
  <2>11. Held(s)'
    BY <1>1, <1>4, <2>1, <2>3, <2>5 DEF Held, Late
  <2>12. ASSUME NEW q \in Procs, NEW x \in Request, x = req[q] PROVE Held(x)'
    <3>1. CASE x.at \in Taking
      <4>1. Held(x) /\ x.run \in Runs /\ from[x.run].pay # NoReport
        BY <2>12, <3>1, TakerFacts
      <4>2. from'[x.run] = from[x.run]
        BY <2>5, <2>7, <4>1
      <4>3. QED  BY <1>2, <4>1, <4>2, HeldStays
    <3>2. QED  BY <3>1 DEF Held
  <2>13. \A q \in Procs : Twins(req[q], s) /\ Twins(s, req[q])
    BY <1>4 DEF Twins, Late
  <2>14. QED  BY <1>1, <2>10, <2>11, <2>12, <2>13, KeptByRequest
<1>5. QED  BY <1>1, <1>3, <1>4

LEMMA KeptStep ==
    ASSUME Typed, Typed', Kept, [RecordNext]_vars
    PROVE  Kept'
<1>1. ASSUME NEW p \in Procs, Quiet(p) PROVE Kept'
  <2>1. /\ \E s \in Request : req' = [req EXCEPT ![p] = s] /\ s.at \notin Taking
        /\ UNCHANGED <<groups, cases, from>>
    BY <1>1, QuietLeaves
  <2>2. CASE ConcludeStep(p)
    BY <2>1, <2>2, ConcludeFacts, KeptByQuiet DEF RowsStay
  <2>3. CASE ~ConcludeStep(p)
    <3>1. runs' = runs
      BY <1>1, <2>3 DEF Quiet, StartTrigger, StartRunAll, StartRerun, StartReport, Begin,
            FindStep, NumberStep, Numbered, SuiteStep, PushStep, Fault, tables
    <3>2. RowsStay
      BY <2>1, <3>1 DEF RowsStay, Runs
    <3>3. QED  BY <2>1, <3>2, KeptByQuiet
  <2>4. QED  BY <2>2, <2>3
<1>2. ASSUME NEW p \in Procs, Step(p) PROVE Kept'
  BY <1>1, <1>2, KeptDelivery, KeptCreate, KeptGroups, KeptCases, KeptFinish DEF Step, Quiet
<1>3. ASSUME NEW r \in Runs, Dispatch(r) \/ Cancel(r) \/ Forget(r) PROVE Kept'
  <2>1. req' = req /\ UNCHANGED <<groups, cases, from>>
    BY <1>3 DEF Dispatch, Cancel, Forget, tables
  <2>2. Runs' = Runs /\ \A k \in Runs : runs'[k].summary = runs[k].summary
    <3>1. CASE Forget(r)
      BY <3>1 DEF Forget, tables, Runs
    <3>2. CASE Dispatch(r) \/ Cancel(r)
      <4>1. PICK status \in Statuses : runs' = [runs EXCEPT ![r].status = status]
        BY <3>2 DEF Dispatch, Cancel, Statuses
      <4>2. /\ UNCHANGED <<suites, groups, cases, from>> /\ jobs' \subseteq jobs /\ hurt' = hurt
            /\ Tables
        BY <3>2 DEF Dispatch, Cancel, Typed
      <4>3. QED  BY <4>1, <4>2, StatusTables
    <3>3. QED  BY <1>3, <3>1, <3>2
  <2>3. QED  BY <2>1, <2>2, KeptByNone DEF RowsStay
<1>4. CASE Crash
  <2>1. RowsStay /\ Idle.at = "idle" /\ req' = [q \in Procs |-> Idle]
    BY <1>4, IdleFacts DEF Crash, RowsStay, tables, Runs
  <2>2. \A k \in Runs' : RowKept(k)'
    BY <2>1, RowKeptStays DEF Kept, RowsStay
  <2>3. \A q \in Procs : req'[q].at = "idle"
    BY <2>1
  <2>4. QED  BY <2>2, <2>3 DEF Kept, Held, Twins, Late, Taking
<1>5. CASE UNCHANGED vars
  BY <1>5, KeptByNone DEF vars, tables, RowsStay, Runs
<1>6. QED  BY <1>2, <1>3, <1>4, <1>5 DEF RecordNext

LEMMA KeptAlways == RecordSpec => []Kept
<1>1. RecordInit => Kept
  <2> SUFFICES ASSUME RecordInit PROVE Kept
    OBVIOUS
  <2>1. Runs = {} /\ \A q \in Procs : req[q].at = "idle"
    BY IdleFacts DEF RecordInit, Runs
  <2>2. QED  BY <2>1 DEF Kept, Held, Twins, Late, Taking
<1>2. Typed /\ Typed' /\ Kept /\ [RecordNext]_vars => Kept'
  BY KeptStep
<1>3. QED  BY <1>1, <1>2, TypedAlways, PTL DEF RecordSpec

(* The rows of a run are those of its report, each once, whoever delivers  *)
(* the report and however often, with whatever crashes and failing         *)
(* statements in between: every case is in a group of its run, and a       *)
(* stored summary counts the whole report, its cases by status and, as     *)
(* duration, the time of the slowest job.                                  *)
THEOREM RowsFollowReport == RecordSpec => []RowsAreOfReport
<1>1. ASSUME Kept PROVE RowsAreOfReport
  <2>1. SUFFICES ASSUME NEW r \in Runs, NEW f, f = from[r]
                 PROVE  /\ Len(groups[r]) \in {0, Cardinality(Tests(f))}
                        /\ Len(cases[r]) \in {0, Cardinality(Cases(f))}
                        /\ runs[r].summary # NoSummary =>
                              /\ Len(groups[r]) = Cardinality(Tests(f))
                              /\ Len(cases[r]) = Cardinality(Cases(f))
                              /\ runs[r].summary = SaysAll(f)
                        /\ \A c \in ToSet(cases[r]) : \E g \in ToSet(groups[r]) : g.id = c.group
    BY DEF RowsAreOfReport, SaysAll
  <2>2. RowKept(r)
    BY <1>1 DEF Kept
  <2>3. Len(<<>>) = 0 /\ ToSet(<<>>) = {}
    BY DEF ToSet
  <2>4. CASE f.pay = NoReport
    BY <2>1, <2>2, <2>3, <2>4 DEF RowKept
  <2>5. CASE f.pay # NoReport
    <3>1. PICK b, c : b = GroupsOf(f.pay, f.job) /\ c = CasesOf(f.pay, f.job)
      OBVIOUS
    <3>2. /\ Report(f) /\ groups[r] \in {<<>>, b} /\ cases[r] \in {<<>>, c}
          /\ cases[r] # <<>> => groups[r] = b
          /\ runs[r].summary # NoSummary =>
                groups[r] = b /\ cases[r] = c /\ runs[r].summary = SummaryOf(f.pay, f.job)
      BY <2>1, <2>2, <2>5, <3>1 DEF RowKept
    <3>3. /\ IsSeq(b) /\ Len(b) = Cardinality(Tests(f))
          /\ IsSeq(c) /\ Len(c) = Cardinality(Cases(f))
          /\ \A q \in 1..Len(c) : \E i \in 1..Len(b) : c[q].group = b[i].id
          /\ SummaryOf(f.pay, f.job) = SaysAll(f)
      BY <3>1, <3>2, ReportRows
    <3>4. \A x \in ToSet(c) : \E g \in ToSet(b) : g.id = x.group
      <4>1. DOMAIN b = 1..Len(b) /\ DOMAIN c = 1..Len(c)
        BY <3>3, SeqFacts
      <4>2. QED  BY <3>3, <4>1 DEF ToSet
    <3>5. \A x \in ToSet(cases[r]) : \E g \in ToSet(groups[r]) : g.id = x.group
      BY <2>3, <3>2, <3>4
    <3>6. Len(groups[r]) \in {0, Cardinality(Tests(f))} /\ Len(cases[r]) \in {0, Cardinality(Cases(f))}
      BY <2>3, <3>2, <3>3
    <3>7. QED  BY <3>2, <3>3, <3>5, <3>6
  <2>6. QED  BY <2>4, <2>5
<1>2. QED  BY <1>1, KeptAlways, PTL
=============================================================================
