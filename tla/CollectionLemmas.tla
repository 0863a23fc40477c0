-------------------------- MODULE CollectionLemmas --------------------------
(***************************************************************************)
(* What the proofs of several components use about the sequences their     *)
(* loops consume and fill, about the sets they count and about the sums    *)
(* they take over them.                                                    *)
(***************************************************************************)
EXTENDS Naturals, Sequences, FiniteSets, SequencesExt, SequenceTheorems, FiniteSetTheorems,
        WellFoundedInduction, TLAPS

-----------------------------------------------------------------------------
(* The elements of a sequence that a loop consumes or fills.               *)

LEMMA ConsumedLoop ==
  ASSUME NEW S, NEW s \in Seq(S), s # <<>>
  PROVE  /\ Head(s) \in S
         /\ Head(s) \in Range(s)
         /\ Tail(s) \in Seq(S)
         /\ Range(s) = Range(Tail(s)) \union {Head(s)}
<1>1. Head(s) \in S /\ Tail(s) \in Seq(S)
  BY HeadTailProperties
<1>2. /\ Len(s) \in Nat \ {0}
      /\ DOMAIN s = 1..Len(s)
      /\ DOMAIN Tail(s) = 1..(Len(s) - 1)
      /\ Head(s) = s[1]
      /\ \A i \in 1..(Len(s) - 1) : Tail(s)[i] = s[i + 1]
  BY HeadTailProperties, LenProperties, EmptySeq, SMT
<1>3. ASSUME NEW x \in Range(s) PROVE x \in Range(Tail(s)) \union {Head(s)}
  <2>1. PICK i \in 1..Len(s) : x = s[i]
    BY <1>2 DEF Range
  <2>2. CASE i = 1
    BY <1>2, <2>1, <2>2
  <2>3. CASE i # 1
    <3>1. i - 1 \in 1..(Len(s) - 1) /\ Tail(s)[i - 1] = x
      BY <1>2, <2>1, <2>3, SMT
    <3> QED BY <1>2, <3>1 DEF Range
  <2> QED BY <2>2, <2>3
<1>4. ASSUME NEW x \in Range(Tail(s)) PROVE x \in Range(s)
  <2>1. PICK i \in 1..(Len(s) - 1) : x = Tail(s)[i]
    BY <1>2 DEF Range
  <2>2. i + 1 \in 1..Len(s) /\ s[i + 1] = x
    BY <1>2, <2>1, SMT
  <2> QED BY <1>2, <2>2 DEF Range
<1>5. Head(s) \in Range(s)
  BY <1>2, SMT DEF Range
<1> QED BY <1>1, <1>3, <1>4, <1>5

LEMMA FilledLoop ==
  ASSUME NEW S, NEW s \in Seq(S), NEW x \in S
  PROVE  /\ Append(s, x) \in Seq(S)
         /\ Range(Append(s, x)) = Range(s) \union {x}
<1>1. /\ Append(s, x) \in Seq(S)
      /\ DOMAIN Append(s, x) = 1..(Len(s) + 1)
      /\ DOMAIN s = 1..Len(s)
      /\ Len(s) \in Nat
      /\ \A i \in 1..Len(s) : Append(s, x)[i] = s[i]
      /\ Append(s, x)[Len(s) + 1] = x
  BY AppendProperties, LenProperties, SMT
<1>2. ASSUME NEW y \in Range(Append(s, x)) PROVE y \in Range(s) \union {x}
  BY <1>1, SMT DEF Range
<1>3. ASSUME NEW y \in Range(s) \union {x} PROVE y \in Range(Append(s, x))
  BY <1>1, SMT DEF Range
<1> QED BY <1>1, <1>2, <1>3

LEMMA EmptyLoop == Range(<<>>) = {}
BY DEF Range

\* Where the elements are after a loop took the first one, or added one.
LEMMA ConsumedPositions ==
  ASSUME NEW S, NEW s \in Seq(S), s # <<>>
  PROVE  /\ Len(s) \in Nat \ {0}
         /\ Len(Tail(s)) = Len(s) - 1
         /\ Head(s) = s[1]
         /\ \A i \in 1..(Len(s) - 1) : Tail(s)[i] = s[i + 1]
BY HeadTailProperties, LenProperties, EmptySeq, SMT

LEMMA FilledPositions ==
  ASSUME NEW S, NEW s \in Seq(S), NEW x \in S
  PROVE  /\ Len(s) \in Nat
         /\ Len(Append(s, x)) = Len(s) + 1
         /\ Append(s, x)[Len(s) + 1] = x
         /\ \A i \in 1..Len(s) : Append(s, x)[i] = s[i]
BY AppendProperties, LenProperties, SMT

-----------------------------------------------------------------------------
(* Counting.                                                               *)

LEMMA FewerOrAsMany ==
  ASSUME NEW S, IsFiniteSet(S), NEW T \in SUBSET S
  PROVE  /\ IsFiniteSet(T)
         /\ Cardinality(T) \in Nat /\ Cardinality(S) \in Nat
         /\ Cardinality(T) <= Cardinality(S)
BY FS_Subset, FS_CardinalityType

LEMMA OneMoreAtMost ==
  ASSUME NEW S, IsFiniteSet(S), NEW x, NEW T \in SUBSET (S \cup {x})
  PROVE  Cardinality(T) <= Cardinality(S) + 1
<1>1. /\ IsFiniteSet(S \cup {x}) /\ Cardinality(S) \in Nat
      /\ Cardinality(S \cup {x}) <= Cardinality(S) + 1
  <2>1. /\ IsFiniteSet(S \cup {x})
        /\ Cardinality(S \cup {x}) =
             IF x \in S THEN Cardinality(S) ELSE Cardinality(S) + 1
    BY FS_AddElement
  <2>2. Cardinality(S) \in Nat
    BY FS_CardinalityType
  <2> QED BY <2>1, <2>2
<1>2. Cardinality(T) \in Nat /\ Cardinality(T) <= Cardinality(S \cup {x})
      /\ Cardinality(S \cup {x}) \in Nat
  BY <1>1, FewerOrAsMany
<1> QED BY <1>1, <1>2

LEMMA OneFewerAtLeast ==
  ASSUME NEW S, IsFiniteSet(S), NEW x \in S, NEW T \in SUBSET (S \ {x})
  PROVE  Cardinality(T) + 1 <= Cardinality(S)
<1>1. /\ IsFiniteSet(S \ {x}) /\ Cardinality(S) \in Nat
      /\ Cardinality(S \ {x}) = Cardinality(S) - 1
  BY FS_RemoveElement, FS_CardinalityType
<1>2. Cardinality(T) \in Nat /\ Cardinality(T) <= Cardinality(S \ {x})
      /\ Cardinality(S \ {x}) \in Nat
  BY <1>1, FewerOrAsMany
<1> QED BY <1>1, <1>2

-----------------------------------------------------------------------------
(* Sums over finite sets.  A proof by induction takes a smallest           *)
(* counterexample, which needs no theorem with an operator parameter.      *)

\* The sum of a function's values over a finite set, as MapThenSumSet takes it:
\* one element after the other, in an order that is the choice of Pick.
SumOf(f, S) == MapThenSumSet(LAMBDA x : f[x], S)
Pick(s) == CHOOSE x \in s : TRUE

IsTally(g, f, S) ==
  g = [s \in SUBSET S |-> IF s = {} THEN 0 ELSE f[Pick(s)] + g[s \ {Pick(s)}]]

\* Induction over finite sets, as the choice of a smallest counterexample.
LEMMA SmallestSubset ==
  ASSUME NEW S, IsFiniteSet(S), NEW T \in SUBSET SUBSET S, T # {}
  PROVE  \E t \in T : \A s \in SUBSET t : s # t => s \notin T
<1>1. FiniteSubsetsOf(S) = SUBSET S
  BY FS_FiniteSubsetsOfFinite
<1>2. IsWellFoundedOn(StrictSubsetOrdering(S), SUBSET S)
  BY <1>1, FS_StrictSubsetOrderingWellFounded
<1>3. \E t \in T : \A s \in T : ~(<<s, t>> \in StrictSubsetOrdering(S))
  BY <1>2, WFMin
<1> QED BY <1>3 DEF StrictSubsetOrdering

LEMMA TallyUnique ==
  ASSUME NEW f, NEW S, NEW R, IsFiniteSet(S), NEW g, NEW h,
         IsTally(g, f, S), IsTally(h, f, R), NEW s \in SUBSET S, s \in SUBSET R
  PROVE  g[s] = h[s]
<1> DEFINE T == {t \in SUBSET S : t \in SUBSET R /\ g[t] # h[t]}
<1> SUFFICES ASSUME T # {} PROVE FALSE
  OBVIOUS
<1>1. PICK t \in T : \A r \in SUBSET t : r # t => r \notin T
  BY SmallestSubset
<1>2. t # {}
  BY DEF IsTally
<1>3. Pick(t) \in t
  BY <1>2 DEF Pick
<1>4. g[t \ {Pick(t)}] = h[t \ {Pick(t)}]
  BY <1>1, <1>3
<1>5. /\ g[t] = f[Pick(t)] + g[t \ {Pick(t)}]
      /\ h[t] = f[Pick(t)] + h[t \ {Pick(t)}]
  BY <1>1, <1>2 DEF IsTally
<1> QED BY <1>1, <1>4, <1>5

LEMMA TallyExists ==
  ASSUME NEW f, NEW S, IsFiniteSet(S)
  PROVE  \E g : IsTally(g, f, S)
<1> DEFINE T == {t \in SUBSET S : ~\E g : IsTally(g, f, t)}
<1> SUFFICES ASSUME T # {} PROVE FALSE
  OBVIOUS
<1>0. T \in SUBSET SUBSET S
  OBVIOUS
<1>1. PICK t \in T : \A r \in SUBSET t : r # t => r \notin T
  <2> HIDE DEF T
  <2> QED BY <1>0, SmallestSubset
<1> DEFINE G(r) == CHOOSE g : IsTally(g, f, r)
           g == [s \in SUBSET t |->
                   IF s = {} THEN 0 ELSE f[Pick(s)] + G(s \ {Pick(s)})[s \ {Pick(s)}]]
<1>2. ASSUME NEW r \in SUBSET t, r # t PROVE IsTally(G(r), f, r)
  BY <1>1, <1>2
<1>3. ASSUME NEW s \in SUBSET t, s # {} PROVE Pick(s) \in s
  BY <1>3 DEF Pick
<1> HIDE DEF G
<1>4. ASSUME NEW r \in SUBSET t, r # t PROVE g[r] = G(r)[r]
  <2>1. CASE r = {}
    BY <1>2, <1>4, <2>1 DEF IsTally
  <2>2. CASE r # {}
    <3>1. Pick(r) \in r
      BY <1>3, <2>2
    <3>2. G(r)[r] = f[Pick(r)] + G(r)[r \ {Pick(r)}]
      BY <1>2, <1>4, <2>2 DEF IsTally
    <3>3. r \ {Pick(r)} \in SUBSET t /\ r \ {Pick(r)} # t /\ IsFiniteSet(r)
      BY <1>1, <1>4, <3>1, FS_Subset
    <3>4. IsTally(G(r), f, r) /\ IsTally(G(r \ {Pick(r)}), f, r \ {Pick(r)})
      BY <1>2, <1>4, <3>3
    <3>5. G(r)[r \ {Pick(r)}] = G(r \ {Pick(r)})[r \ {Pick(r)}]
      BY <3>3, <3>4, TallyUnique
    <3>6. g[r] = f[Pick(r)] + G(r \ {Pick(r)})[r \ {Pick(r)}]
      BY <2>2
    <3> QED BY <3>2, <3>5, <3>6
  <2> QED BY <2>1, <2>2
<1>5. ASSUME NEW s \in SUBSET t
      PROVE  g[s] = IF s = {} THEN 0 ELSE f[Pick(s)] + g[s \ {Pick(s)}]
  <2>1. CASE s # {}
    <3>1. s \ {Pick(s)} \in SUBSET t /\ s \ {Pick(s)} # t
      BY <1>3, <2>1
    <3>2. g[s] = f[Pick(s)] + G(s \ {Pick(s)})[s \ {Pick(s)}]
      BY <2>1
    <3> HIDE DEF g
    <3> QED BY <1>4, <2>1, <3>1, <3>2
  <2>2. CASE s = {}
    BY <2>2
  <2> QED BY <2>1, <2>2
<1>6. g = [s \in SUBSET t |-> g[s]]
  OBVIOUS
<1> HIDE DEF g
<1>7. g = [s \in SUBSET t |-> IF s = {} THEN 0 ELSE f[Pick(s)] + g[s \ {Pick(s)}]]
  BY <1>5, <1>6
<1> QED BY <1>1, <1>7 DEF IsTally

LEMMA SumIsTally ==
  ASSUME NEW f, NEW S, IsFiniteSet(S), NEW g, IsTally(g, f, S)
  PROVE  SumOf(f, S) = g[S]
<1> DEFINE h == CHOOSE iter : iter = [s \in SUBSET S |-> IF s = {} THEN 0
              ELSE f[CHOOSE x \in s : TRUE] + iter[s \ {CHOOSE x \in s : TRUE}]]
<1>1. SumOf(f, S) = h[S]
  BY DEF SumOf, MapThenSumSet, MapThenFoldSet
<1>2. IsTally(h, f, S)
  BY DEF IsTally, Pick
<1> HIDE DEF h
<1> QED BY <1>1, <1>2, TallyUnique

\* The order does not matter: a sum loses what the removed element had.
IsSumTable(g, f, S) ==
  /\ g \in [SUBSET S -> Nat]
  /\ g[{}] = 0
  /\ \A s \in SUBSET S : SumOf(f, s) = g[s]
  /\ \A s \in SUBSET S : \A x \in s : g[s] = f[x] + g[s \ {x}]

LEMMA SumTable ==
  ASSUME NEW f, NEW S, IsFiniteSet(S), \A x \in S : f[x] \in Nat
  PROVE  \E g : IsSumTable(g, f, S)
<1>1. PICK g : IsTally(g, f, S)
  BY TallyExists
<1>0. g = [s \in SUBSET S |-> g[s]]
  BY <1>1 DEF IsTally
<1>2. /\ g[{}] = 0
      /\ \A s \in SUBSET S : s # {} => g[s] = f[Pick(s)] + g[s \ {Pick(s)}]
  <2>1. DOMAIN g = SUBSET S
    BY <1>1 DEF IsTally
  <2> QED BY <1>1, <2>1 DEF IsTally
<1>3. \A s \in SUBSET S : s # {} => Pick(s) \in s
  BY DEF Pick
<1>4. ASSUME NEW s \in SUBSET S PROVE g[s] \in Nat
  <2> DEFINE T == {t \in SUBSET S : g[t] \notin Nat}
  <2> SUFFICES ASSUME T # {} PROVE FALSE
    OBVIOUS
  <2>1. PICK t \in T : \A r \in SUBSET t : r # t => r \notin T
    BY SmallestSubset
  <2>2. t \in SUBSET S /\ g[t] \notin Nat
    BY <2>1
  <2>3. t # {}
    BY <1>2, <2>2
  <2>4. Pick(t) \in t /\ g[t] = f[Pick(t)] + g[t \ {Pick(t)}]
    BY <1>2, <1>3, <2>2, <2>3
  <2>5. g[t \ {Pick(t)}] \in Nat
    BY <2>1, <2>2, <2>4
  <2>6. f[Pick(t)] \in Nat
    BY <2>2, <2>4
  <2> HIDE DEF T
  <2> QED BY <2>2, <2>4, <2>5, <2>6
<1>5. ASSUME NEW s \in SUBSET S, NEW x \in s PROVE g[s] = f[x] + g[s \ {x}]
  <2> DEFINE T == {t \in SUBSET S : \E y \in t : g[t] # f[y] + g[t \ {y}]}
  <2> SUFFICES ASSUME T # {} PROVE FALSE
    OBVIOUS
  <2>1. PICK t \in T : \A r \in SUBSET t : r # t => r \notin T
    BY SmallestSubset
  <2>2. PICK y \in t : g[t] # f[y] + g[t \ {y}]
    OBVIOUS
  <2>3. PICK c \in t : c = Pick(t) /\ g[t] = f[c] + g[t \ {c}]
    BY <1>2, <1>3, <2>2
  <2>4. y # c
    BY <2>2, <2>3
  <2>5. g[t \ {c}] = f[y] + g[(t \ {c}) \ {y}]
    BY <2>1, <2>3, <2>4
  <2>6. g[t \ {y}] = f[c] + g[(t \ {y}) \ {c}]
    BY <2>1, <2>2, <2>3, <2>4
  <2>7. (t \ {c}) \ {y} = (t \ {y}) \ {c}
    OBVIOUS
  <2>8. f[c] \in Nat /\ f[y] \in Nat /\ g[(t \ {y}) \ {c}] \in Nat
    BY <1>4
  <2>9. g[t] = f[c] + (f[y] + g[(t \ {y}) \ {c}]) /\ g[t \ {y}] = f[c] + g[(t \ {y}) \ {c}]
    BY <2>3, <2>5, <2>6, <2>7
  <2> HIDE DEF T
  <2> QED BY <2>2, <2>8, <2>9
<1>6. ASSUME NEW s \in SUBSET S PROVE SumOf(f, s) = g[s]
  <2>1. IsFiniteSet(s)
    BY FS_Subset
  <2>2. PICK h : IsTally(h, f, s)
    BY <2>1, TallyExists
  <2>3. SumOf(f, s) = h[s]
    BY <2>1, <2>2, SumIsTally
  <2> QED BY <1>1, <2>1, <2>2, <2>3, TallyUnique
<1>7. g \in [SUBSET S -> Nat]
  BY <1>0, <1>4
<1> QED BY <1>2, <1>5, <1>6, <1>7 DEF IsSumTable

LEMMA SumOfNothing == ASSUME NEW f PROVE SumOf(f, {}) = 0
<1>1. IsFiniteSet({})
  BY FS_EmptySet
<1>2. PICK g : IsSumTable(g, f, {})
  <2>1. \A x \in {} : f[x] \in Nat
    OBVIOUS
  <2> QED BY <1>1, <2>1, SumTable
<1> QED BY <1>2 DEF IsSumTable

LEMMA SumOneMore ==
  ASSUME NEW f, NEW S, IsFiniteSet(S), NEW x, \A y \in S \cup {x} : f[y] \in Nat
  PROVE  /\ SumOf(f, S) \in Nat
         /\ SumOf(f, S \cup {x}) \in Nat
         /\ x \notin S => SumOf(f, S \cup {x}) = SumOf(f, S) + f[x]
         /\ SumOf(f, S \cup {x}) <= SumOf(f, S) + f[x]
<1>1. IsFiniteSet(S \cup {x})
  BY FS_AddElement
<1>2. PICK g : IsSumTable(g, f, S \cup {x})
  <2> DEFINE R == S \cup {x}
  <2>1. IsFiniteSet(R) /\ \A y \in R : f[y] \in Nat
    BY <1>1
  <2> HIDE DEF R
  <2>2. \E g : IsSumTable(g, f, R)
    BY <2>1, SumTable
  <2> QED BY <2>2 DEF R
<1>3. g[S] \in Nat /\ g[S \cup {x}] \in Nat /\ f[x] \in Nat
  BY <1>2 DEF IsSumTable
<1>4. SumOf(f, S) = g[S] /\ SumOf(f, S \cup {x}) = g[S \cup {x}]
  BY <1>2 DEF IsSumTable
<1>5. CASE x \notin S
  <2>1. (S \cup {x}) \ {x} = S
    BY <1>5
  <2>2. g[S \cup {x}] = f[x] + g[S]
    BY <1>2, <2>1 DEF IsSumTable
  <2> QED BY <1>3, <1>4, <1>5, <2>2
<1>6. CASE x \in S
  <2>1. S \cup {x} = S
    BY <1>6
  <2>2. SumOf(f, S \cup {x}) = SumOf(f, S)
    BY <2>1
  <2> QED BY <1>3, <1>4, <1>6, <2>2
<1> QED BY <1>5, <1>6

LEMMA SumOfPart ==
  ASSUME NEW f, NEW S, IsFiniteSet(S), \A x \in S : f[x] \in Nat, NEW R \in SUBSET S
  PROVE  /\ SumOf(f, R) \in Nat /\ SumOf(f, S) \in Nat
         /\ SumOf(f, R) <= SumOf(f, S)
<1>1. PICK g : IsSumTable(g, f, S)
  BY SumTable
<1> USE DEF IsSumTable
<1> DEFINE T == {t \in SUBSET S : R \subseteq t /\ ~(g[R] <= g[t])}
<1>2. ASSUME T # {} PROVE FALSE
  <2>1. PICK t \in T : \A r \in SUBSET t : r # t => r \notin T
    BY <1>2, SmallestSubset
  <2>2. /\ t \in SUBSET S /\ R \subseteq t /\ ~(g[R] <= g[t])
        /\ g[R] \in Nat /\ g[t] \in Nat
    BY <1>1, <2>1
  <2>3. PICK x \in t : x \notin R
    <3>1. g[t] # g[R]
      BY <2>2
    <3> QED BY <2>2, <3>1
  <2>4. g[R] <= g[t \ {x}] /\ g[t \ {x}] \in Nat /\ f[x] \in Nat
    BY <1>1, <2>1, <2>2, <2>3
  <2>5. g[t] = f[x] + g[t \ {x}]
    BY <1>1, <2>2
  <2>6. g[R] <= g[t]
    <3> HIDE DEF T
    <3> QED BY <2>2, <2>4, <2>5
  <2> QED BY <2>6
<1>3. g[R] <= g[S]
  BY <1>2
<1> QED BY <1>1, <1>3

\* Sums of functions that agree, or are ordered, on the set.
LEMMA SumIsMonotonic ==
  ASSUME NEW f, NEW h, NEW S, IsFiniteSet(S),
         \A x \in S : f[x] \in Nat /\ h[x] \in Nat /\ f[x] <= h[x]
  PROVE  SumOf(f, S) \in Nat /\ SumOf(h, S) \in Nat /\ SumOf(f, S) <= SumOf(h, S)
<1>1. PICK g : IsSumTable(g, f, S)
  BY SumTable
<1>2. PICK k : IsSumTable(k, h, S)
  BY SumTable
<1> USE DEF IsSumTable
<1> DEFINE T == {t \in SUBSET S : ~(g[t] <= k[t])}
<1>3. ASSUME T # {} PROVE FALSE
  <2>0. T \in SUBSET SUBSET S
    OBVIOUS
  <2>1. PICK t \in T : \A r \in SUBSET t : r # t => r \notin T
    <3> HIDE DEF T
    <3> QED BY <1>3, <2>0, SmallestSubset
  <2>2. PICK x \in t : TRUE
    <3>1. g[{}] = 0 /\ k[{}] = 0 /\ ~(g[t] <= k[t])
      BY <1>1, <1>2
    <3>2. t # {}
      BY <3>1
    <3> QED BY <3>2
  <2>3. g[t \ {x}] <= k[t \ {x}] /\ g[t \ {x}] \in Nat /\ k[t \ {x}] \in Nat
    BY <1>1, <1>2, <2>1, <2>2
  <2>4. g[t] = f[x] + g[t \ {x}] /\ k[t] = h[x] + k[t \ {x}]
    BY <1>1, <1>2
  <2>5. f[x] \in Nat /\ h[x] \in Nat /\ f[x] <= h[x]
    OBVIOUS
  <2>6. g[t] <= k[t]
    <3> HIDE DEF T
    <3> QED BY <2>3, <2>4, <2>5
  <2> QED BY <2>6
<1>4. g[S] <= k[S]
  BY <1>3
<1> QED BY <1>1, <1>2, <1>4

LEMMA SumOfZeros ==
  ASSUME NEW f, NEW S, IsFiniteSet(S), \A x \in S : f[x] = 0
  PROVE  SumOf(f, S) = 0
<1>1. PICK g : IsSumTable(g, f, S)
  BY SumTable
<1> USE DEF IsSumTable
<1> DEFINE T == {t \in SUBSET S : g[t] # 0}
<1>2. ASSUME T # {} PROVE FALSE
  <2>0. T \in SUBSET SUBSET S
    OBVIOUS
  <2>1. PICK t \in T : \A r \in SUBSET t : r # t => r \notin T
    <3> HIDE DEF T
    <3> QED BY <1>2, <2>0, SmallestSubset
  <2>2. PICK x \in t : TRUE
    <3>1. g[{}] = 0 /\ g[t] # 0
      BY <1>1
    <3>2. t # {}
      BY <3>1
    <3> QED BY <3>2
  <2>3. g[t \ {x}] = 0
    BY <2>1, <2>2
  <2> QED BY <1>1, <2>2, <2>3
<1> QED BY <1>1, <1>2

\* The sum over the pairs of one element with those of a set.
PairsOf(c, S) == {c} \X S

LEMMA SumOfPairs ==
  ASSUME NEW f, NEW h, NEW c, NEW S, IsFiniteSet(S),
         \A x \in S : f[x] \in Nat /\ h[<<c, x>>] = f[x]
  PROVE  SumOf(h, PairsOf(c, S)) = SumOf(f, S)
<1> DEFINE T == {t \in SUBSET S : SumOf(h, {c} \X t) # SumOf(f, t)}
<1>1. ASSUME T # {} PROVE FALSE
  <2>0. T \in SUBSET SUBSET S
    OBVIOUS
  <2>1. PICK t \in T : \A r \in SUBSET t : r # t => r \notin T
    <3> HIDE DEF T
    <3> QED BY <1>1, <2>0, SmallestSubset
  <2>2. t # {}
    <3>1. {c} \X {} = {}
      OBVIOUS
    <3> QED BY <3>1, SumOfNothing
  <2>3. PICK x \in t : TRUE
    BY <2>2
  <2> DEFINE r == t \ {x}
             Q == {c} \X r
  <2>4. /\ IsFiniteSet(r) /\ x \notin r /\ r \cup {x} = t
        /\ r \in SUBSET S /\ x \in S
    BY <2>3, FS_Subset
  <2>5. IsFiniteSet(Q)
    BY <2>4, FS_Singleton, FS_Product
  <2>6. Q \cup {<<c, x>>} = {c} \X t /\ <<c, x>> \notin Q
    BY <2>4
  <2>7. SumOf(h, Q) = SumOf(f, r)
    BY <2>1, <2>3, <2>4
  <2>8. SumOf(f, t) = SumOf(f, r) + f[x]
    <3> HIDE DEF r
    <3>1. \A y \in r \cup {x} : f[y] \in Nat
      BY <2>4
    <3>2. SumOf(f, r \cup {x}) = SumOf(f, r) + f[x]
      BY <2>4, <3>1, SumOneMore
    <3> QED BY <2>4, <3>2
  <2>9. SumOf(h, {c} \X t) = SumOf(h, Q) + h[<<c, x>>]
    <3>1. \A y \in Q \cup {<<c, x>>} : h[y] \in Nat
      BY <2>4
    <3> HIDE DEF Q
    <3>2. SumOf(h, Q \cup {<<c, x>>}) = SumOf(h, Q) + h[<<c, x>>]
      BY <2>5, <2>6, <3>1, SumOneMore
    <3> QED BY <2>6, <3>2
  <2> HIDE DEF Q
  <2>10. SumOf(h, {c} \X t) = SumOf(f, t)
    BY <2>4, <2>7, <2>8, <2>9
  <2> QED BY <2>10
<1>2. S \notin T
  BY <1>1
<1> QED BY <1>2 DEF PairsOf
=============================================================================
