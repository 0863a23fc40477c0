------------------------- MODULE UsageReportsProofs -------------------------
(***************************************************************************)
(* Proofs about UsageReports: what its answers and checks contain.         *)
(*                                                                         *)
(* A reader takes the rows in its range page by page, each page from an    *)
(* order of its own.  A row that shares its moment with no other has one   *)
(* place in every order, which only rows that are committed meanwhile move *)
(* back; so it has been read, or its place is still ahead of the offset.   *)
(***************************************************************************)
EXTENDS UsageReports, CollectionLemmas

-----------------------------------------------------------------------------
(* The inductive invariant.                                                *)

\* The rows with an id each, in the past.
RowsInv ==
  /\ rows \subseteq Row /\ IsFiniteSet(rows)
  /\ \A r \in rows : /\ r.id <= Cardinality(rows) /\ r.at <= now /\ r.committed <= now
                     /\ r.committed # Pending => r.at <= r.committed
  /\ \A r, q \in rows : r.id = q.id => r = q

\* A row that shares its moment with no other of S, and its place in every
\* order of S.
Alone(x, S) == \A y \in S \ {x} : y.at # x.at
Newer(x, S) == {y \in S : y.at > x.at}
Place(x, S) == Cardinality(Newer(x, S)) + 1

\* What e, read so far, has of the rows S that match: the older rows whose
\* place is before the offset, and, undisturbed, every row at its place only.
ReadSoFar(e, S, to, raced) ==
  /\ e \in Seq(S) /\ Len(e) <= Cardinality(S)
  /\ \A x \in S : Alone(x, S) /\ x.committed < to =>
       (\E i \in 1..Len(e) : e[i] = x) \/ Place(x, S) > Len(e)
  /\ ~raced => \A x \in S : Alone(x, S) =>
                 \A i \in 1..Len(e) : e[i] = x => i = Place(x, S)

ReaderType == [question: Question \cup {NoQuestion}, from: Int, to: Nat,
               events: Seq(Row), reading: BOOLEAN, raced: BOOLEAN]

ReaderOK(r, p) ==
  /\ r \in ReaderType
  /\ ~r.reading => r = Idle
  /\ r.to <= now /\ Len(r.events) < MaxEvents
  /\ ReadSoFar(r.events, Matching(r), r.to, r.raced)
  /\ p = "server" /\ r.reading => r.question \in Question /\ r.from = r.to - RangeDays(r.question)
  /\ p = "check" /\ r.reading => r.from = r.to - LookbackDays

ReaderInv == reader \in [Process -> ReaderType] /\ \A p \in Process : ReaderOK(reader[p], p)

\* What a finished reading keeps saying about the ledger, which only grows.
Reading(ids, from, to, raced) ==
  /\ ids \in Seq(1..MaxRows)
  /\ \A i \in 1..Len(ids) : \E r \in Ledger : r.id = ids[i]
  /\ ~raced => \A r \in Ledger : ~Tied(r) => Counts(ids, r.id) <= 1
  /\ Len(ids) < MaxEvents =>
       \A r \in Ledger : r.at >= from /\ r.committed < to /\ ~Tied(r) => Counts(ids, r.id) >= 1

AnswerInv(a) ==
  /\ a \in Answer
  /\ a.to <= a.loaded /\ a.loaded <= now
  /\ Reading(a.events, a.to - RangeDays(a.question), a.to, a.raced)
  /\ a.question.visibility = "public" => a.names \subseteq PublicRepos

Entry == [key: {KeyOf(question) : question \in Question}, expiresAt: Nat, answer: Answer]

EntryInv(entry) ==
  /\ entry.key = KeyOf(entry.answer.question)
  /\ entry.expiresAt = entry.answer.loaded + TtlMs
  /\ AnswerInv(entry.answer)

CacheInv ==
  /\ cache \in Seq(Entry) /\ Len(cache) <= MaxEntries
  /\ \A i \in 1..Len(cache) : EntryInv(cache[i])

ServedInv ==
  \/ served = NotServed
  \/ /\ AnswerInv(served.answer)
     /\ served.asked \in Question /\ KeyOf(served.asked) = KeyOf(served.answer.question)
     /\ served.at \in 0..MaxTime
     /\ served.answer.to <= served.at /\ served.at <= served.answer.loaded + TtlMs

AlertsInv ==
  \/ alerts = NoCheck
  \/ /\ Cardinality(alerts.reported) <= MaxAlerts /\ Len(alerts.events) <= MaxEvents
     /\ \E from \in Int : Reading(alerts.events, from, alerts.to, alerts.raced)

ReportsInv ==
  now \in 0..MaxTime /\ RowsInv /\ ReaderInv /\ CacheInv /\ ServedInv /\ AlertsInv

-----------------------------------------------------------------------------
(* Ranges and keys of questions.                                           *)

LEMMA RangeType ==
  ASSUME NEW question \in Question
  PROVE  /\ RangeDays(question) \in Nat /\ RangeDays(question) \in Range(question.days)
         /\ \A days \in Range(question.days) : days \in Nat
<1>1. question.days \in Seq(Nat \ {0}) /\ question.days # <<>>
  BY ReportsAssumption
<1>2. /\ DOMAIN question.days = 1..Len(question.days) /\ Len(question.days) \in Nat \ {0}
      /\ \A i \in 1..Len(question.days) : question.days[i] \in Nat
      /\ Head(question.days) = question.days[1]
  BY <1>1, LenProperties
<1> QED BY <1>2 DEF RangeDays, Range

\* The key tells the routes apart, and keeps which values the query names.
LEMMA SameKey ==
  ASSUME NEW q \in Question, NEW o \in Question, KeyOf(q) = KeyOf(o)
  PROVE  q.visibility = o.visibility /\ Range(q.days) = Range(o.days)
<1>1. q.visibility = o.visibility /\ ToBag(q.days) = ToBag(o.days)
  BY DEF KeyOf
<1>2. DOMAIN ToBag(q.days) = Range(q.days) /\ DOMAIN ToBag(o.days) = Range(o.days)
  BY DEF ToBag
<1> QED BY <1>1, <1>2

-----------------------------------------------------------------------------
(* Orders, pages, and what reading a page adds.                            *)

LEMMA OrderType ==
  ASSUME NEW S, IsFiniteSet(S), NEW s \in Orders(S)
  PROVE  /\ Cardinality(S) \in Nat
         /\ s \in Seq(S) /\ Len(s) = Cardinality(S)
         /\ \A i \in 1..Cardinality(S) : s[i] \in S
         /\ \A i, j \in 1..Cardinality(S) : i < j => s[i] # s[j] /\ s[i].at >= s[j].at
<1>1. Cardinality(S) \in Nat /\ s \in [1..Cardinality(S) -> S]
  BY FS_CardinalityType DEF Orders
<1>2. s \in Seq(S)
  BY <1>1, SeqDef
<1>3. Len(s) \in Nat /\ DOMAIN s = 1..Len(s)
  BY <1>2, LenProperties
<1>4. Len(s) = Cardinality(S)
  BY <1>1, <1>3
<1> QED BY <1>1, <1>2, <1>4 DEF Orders

\* A row alone at its moment is at its place in every order.
LEMMA PlaceInOrder ==
  ASSUME NEW S, IsFiniteSet(S), \A y \in S : y.at \in Int,
         NEW s \in Orders(S), NEW x \in S, Alone(x, S)
  PROVE  /\ Place(x, S) \in 1..Cardinality(S)
         /\ \A i \in 1..Cardinality(S) : s[i] = x <=> i = Place(x, S)
<1> DEFINE n == Cardinality(S)
<1>1. /\ n \in Nat /\ s \in [1..n -> S]
      /\ \A i, j \in 1..n : i < j => s[i] # s[j] /\ s[i].at >= s[j].at
  BY OrderType DEF Orders
<1> HIDE DEF n
<1>2. \A i, j \in 1..n : s[i] = s[j] => i = j
  BY <1>1
<1>3. s \in Injection(1..n, S)
  BY <1>1, <1>2 DEF Injection, IsInjective
<1>4. Cardinality(1..n) = n /\ IsFiniteSet(1..n)
  BY <1>1, FS_Interval
<1>5. s \in Surjection(1..n, S)
  BY <1>3, <1>4, FS_Injection DEF n
<1>6. PICK k \in 1..n : s[k] = x
  BY <1>5 DEF Surjection
<1>7. ASSUME NEW i \in 1..(k - 1) PROVE s[i] \in Newer(x, S)
  <2>1. i \in 1..n /\ i < k
    BY <1>1
  <2>2. s[i] \in S /\ s[i] # x /\ s[i].at >= x.at
    BY <1>1, <1>6, <2>1
  <2>3. s[i].at # x.at /\ s[i].at \in Int /\ x.at \in Int
    BY <2>2 DEF Alone
  <2> QED BY <2>2, <2>3 DEF Newer
<1>8. ASSUME NEW y \in Newer(x, S) PROVE \E i \in 1..(k - 1) : s[i] = y
  <2>1. y \in S /\ y.at > x.at /\ y.at \in Int /\ x.at \in Int
    BY DEF Newer
  <2>2. PICK j \in 1..n : s[j] = y
    BY <1>5, <2>1 DEF Surjection
  <2>3. j # k
    BY <1>6, <2>1, <2>2
  <2>4. ~(k < j)
    BY <1>1, <1>6, <2>1, <2>2
  <2>5. j \in 1..(k - 1)
    BY <1>1, <2>3, <2>4
  <2> QED BY <2>2, <2>5
<1> DEFINE b == [i \in 1..(k - 1) |-> s[i]]
<1>9. b \in Bijection(1..(k - 1), Newer(x, S))
  <2>1. b \in [1..(k - 1) -> Newer(x, S)]
    BY <1>7
  <2>2. \A i, j \in 1..(k - 1) : b[i] = b[j] => i = j
    BY <1>1, <1>2
  <2>3. \A y \in Newer(x, S) : \E i \in 1..(k - 1) : b[i] = y
    BY <1>8
  <2> HIDE DEF b
  <2> QED BY <2>1, <2>2, <2>3 DEF Bijection, Injection, Surjection, IsInjective
<1>10. k - 1 \in Nat /\ ExistsBijection(1..(k - 1), Newer(x, S))
  BY <1>1, <1>9 DEF ExistsBijection
<1>11. Cardinality(Newer(x, S)) = k - 1
  BY <1>10, FS_CountingElements
<1>12. Place(x, S) = k
  BY <1>11, <1>1 DEF Place
<1> QED BY <1>2, <1>6, <1>12 DEF n

\* The page of at most L rows that an order s continues e with.
PageAfter(e, s, L) == SubSeq(s, Len(e) + 1, Least(Len(s), Len(e) + L))

LEMMA PageType ==
  ASSUME NEW S, IsFiniteSet(S), NEW s \in Orders(S), NEW e \in Seq(S), Len(e) <= Cardinality(S),
         NEW L \in Nat, NEW page, page = PageAfter(e, s, L)
  PROVE  /\ page \in Seq(S) /\ Len(page) \in Nat /\ Len(page) <= L
         /\ Len(e) + Len(page) <= Cardinality(S)
         /\ Len(page) < L => Len(e) + Len(page) = Cardinality(S)
         /\ e \o page \in Seq(S)
         /\ Len(e \o page) = Len(e) + Len(page)
         /\ \A i \in 1..Len(e) : (e \o page)[i] = e[i]
         /\ \A i \in (Len(e) + 1)..(Len(e) + Len(page)) : (e \o page)[i] = s[i]
<1> DEFINE n == Cardinality(S)
           k == Len(e)
           m == Least(Len(s), k + L)
<1>1. /\ n \in Nat /\ k \in Nat /\ k <= n /\ Len(s) = n
      /\ \A i \in 1..n : s[i] \in S
  BY OrderType, LenProperties
<1>2. m \in Nat /\ k <= m /\ m <= n /\ m <= k + L /\ (m = n \/ m = k + L)
  BY <1>1 DEF Least
<1>0. page = SubSeq(s, k + 1, m)
  BY DEF PageAfter
<1> HIDE DEF n, k, m
<1>3. \A i \in (k + 1)..m : s[i] \in S
  BY <1>1, <1>2
<1>4. /\ SubSeq(s, k + 1, m) \in Seq(S)
      /\ Len(SubSeq(s, k + 1, m)) = IF k + 1 <= m THEN m - (k + 1) + 1 ELSE 0
      /\ \A i \in 1..(m - (k + 1) + 1) : SubSeq(s, k + 1, m)[i] = s[k + 1 + i - 1]
  <2>1. k + 1 \in Int /\ m \in Int
    BY <1>1, <1>2
  <2> QED BY <1>3, <2>1, SubSeqProperties
<1>4a. /\ page \in Seq(S)
       /\ Len(page) = IF k + 1 <= m THEN m - (k + 1) + 1 ELSE 0
       /\ \A i \in 1..(m - (k + 1) + 1) : page[i] = s[k + 1 + i - 1]
  BY <1>0, <1>4, Zenon
<1>5. page \in Seq(S) /\ Len(page) = m - k /\ \A i \in 1..(m - k) : page[i] = s[k + i]
  <2>1. Len(page) = m - k
    BY <1>1, <1>2, <1>4a
  <2>2. ASSUME NEW i \in 1..(m - k) PROVE page[i] = s[k + i]
    <3>1. i \in 1..(m - (k + 1) + 1) /\ k + 1 + i - 1 = k + i
      BY <1>1, <1>2
    <3> QED BY <1>4a, <3>1
  <2> QED BY <1>4a, <2>1, <2>2
<1>6. /\ e \o page \in Seq(S)
      /\ Len(e \o page) = k + (m - k)
      /\ \A i \in 1..(k + (m - k)) : (e \o page)[i] = IF i <= k THEN e[i] ELSE page[i - k]
  BY <1>5, ConcatProperties DEF k
<1>7. \A i \in 1..k : (e \o page)[i] = e[i]
  BY <1>1, <1>2, <1>6
<1>8. ASSUME NEW i \in (k + 1)..m PROVE (e \o page)[i] = s[i]
  <2>1. i \in 1..(k + (m - k)) /\ ~(i <= k) /\ i - k \in 1..(m - k) /\ k + (i - k) = i
    BY <1>1, <1>2
  <2> QED BY <1>5, <1>6, <2>1
<1>9. k + (m - k) = m
  BY <1>1, <1>2
<1>10. Len(page) \in Nat /\ Len(page) <= L /\ (Len(page) < L => m = n)
  BY <1>1, <1>2, <1>5
<1> QED BY <1>1, <1>2, <1>5, <1>6, <1>7, <1>8, <1>9, <1>10 DEF n, k, m

LEMMA PageRead ==
  ASSUME NEW S, S \subseteq Row, IsFiniteSet(S), NEW to, NEW raced,
         NEW e, ReadSoFar(e, S, to, raced), NEW s \in Orders(S), NEW f,
         f \in Seq(S), Len(e) <= Len(f), Len(f) <= Cardinality(S),
         \A i \in 1..Len(e) : f[i] = e[i],
         \A i \in (Len(e) + 1)..Len(f) : f[i] = s[i]
  PROVE  ReadSoFar(f, S, to, raced)
<1>1. /\ Len(e) \in Nat /\ Len(f) \in Nat /\ Cardinality(S) \in Nat
  BY LenProperties, FS_CardinalityType DEF ReadSoFar
<1>2. ASSUME NEW x \in S, Alone(x, S)
      PROVE  /\ Place(x, S) \in 1..Cardinality(S)
             /\ \A i \in 1..Cardinality(S) : s[i] = x <=> i = Place(x, S)
  <2>1. \A y \in S : y.at \in Int
    BY ReportsAssumption DEF Row
  <2> QED BY <1>2, <2>1, PlaceInOrder
<1>3. ASSUME NEW x \in S, Alone(x, S), x.committed < to
      PROVE  (\E i \in 1..Len(f) : f[i] = x) \/ Place(x, S) > Len(f)
  <2>1. CASE \E i \in 1..Len(e) : e[i] = x
    <3>1. PICK i \in 1..Len(e) : e[i] = x
      BY <2>1
    <3>2. i \in 1..Len(f) /\ f[i] = x
      BY <1>1, <3>1
    <3> QED BY <3>2
  <2>2. CASE Place(x, S) > Len(e) /\ ~(Place(x, S) > Len(f))
    <3>1. Place(x, S) \in (Len(e) + 1)..Len(f) /\ Place(x, S) \in 1..Len(f)
      BY <1>1, <1>2, <1>3, <2>2
    <3>2. s[Place(x, S)] = x
      BY <1>2, <1>3
    <3> QED BY <3>1, <3>2
  <2> QED BY <1>3, <2>1, <2>2 DEF ReadSoFar
<1>4. ASSUME ~raced, NEW x \in S, Alone(x, S), NEW i \in 1..Len(f), f[i] = x
      PROVE  i = Place(x, S)
  <2>1. CASE i \in 1..Len(e)
    BY <1>4, <2>1 DEF ReadSoFar
  <2>2. CASE i \notin 1..Len(e)
    <3>1. i \in (Len(e) + 1)..Len(f) /\ i \in 1..Cardinality(S)
      BY <1>1, <2>2
    <3>2. s[i] = x
      BY <1>4, <3>1
    <3> QED BY <1>2, <1>4, <3>1, <3>2
  <2> QED BY <2>1, <2>2
<1> QED BY <1>3, <1>4 DEF ReadSoFar

LEMMA NothingRead ==
  ASSUME NEW S, IsFiniteSet(S), NEW to PROVE ReadSoFar(<<>>, S, to, FALSE)
<1>1. Cardinality(S) \in Nat /\ <<>> \in Seq(S) /\ Len(<<>>) = 0
  BY FS_CardinalityType
<1>2. ASSUME NEW x \in S PROVE Place(x, S) > 0
  <2>1. Newer(x, S) \in SUBSET S
    BY DEF Newer
  <2>2. Cardinality(Newer(x, S)) \in Nat
    BY <2>1, FewerOrAsMany
  <2> QED BY <2>2 DEF Place
<1> QED BY <1>1, <1>2 DEF ReadSoFar

\* Rows that are committed meanwhile, none of them before the reading.
LEMMA MoreRows ==
  ASSUME NEW S, IsFiniteSet(S), NEW z, IsFiniteSet(S \cup {z}), NEW to, ~(z.committed < to),
         NEW e, NEW raced, ReadSoFar(e, S, to, raced)
  PROVE  ReadSoFar(e, S \cup {z}, to, TRUE)
<1> DEFINE T == S \cup {z}
<1>1. /\ Cardinality(S) \in Nat /\ Cardinality(T) \in Nat /\ Cardinality(S) <= Cardinality(T)
  BY FewerOrAsMany
<1>2. e \in Seq(T) /\ Len(e) \in Nat /\ Len(e) <= Cardinality(S)
  BY SeqMonotonic, LenProperties DEF ReadSoFar
<1>3. ASSUME NEW x \in T, Alone(x, T), x.committed < to
      PROVE  (\E i \in 1..Len(e) : e[i] = x) \/ Place(x, T) > Len(e)
  <2>1. x \in S /\ Alone(x, S)
    BY <1>3 DEF Alone
  <2>2. Newer(x, S) \in SUBSET Newer(x, T) /\ Newer(x, T) \in SUBSET T
    BY DEF Newer
  <2>3. /\ Cardinality(Newer(x, S)) \in Nat /\ Cardinality(Newer(x, T)) \in Nat
        /\ Cardinality(Newer(x, S)) <= Cardinality(Newer(x, T))
    BY <2>2, FewerOrAsMany
  <2>4. Place(x, S) \in Nat /\ Place(x, T) \in Nat /\ Place(x, S) <= Place(x, T)
    BY <2>3 DEF Place
  <2> QED BY <1>2, <1>3, <2>1, <2>4 DEF ReadSoFar
<1>4. Len(e) <= Cardinality(T)
  BY <1>1, <1>2
<1> HIDE DEF T
<1>5. ReadSoFar(e, T, to, TRUE)
  BY <1>2, <1>3, <1>4 DEF ReadSoFar
<1> QED BY <1>5 DEF T

-----------------------------------------------------------------------------
(* A reading that is finished.                                             *)

LEMMA LedgerType ==
  ASSUME RowsInv
  PROVE  /\ Ledger \subseteq Row /\ IsFiniteSet(Ledger)
         /\ \A r \in Ledger : r.at <= r.committed /\ r.committed \in Nat /\ r.at \in Nat
         /\ \A r, q \in Ledger : r.id = q.id => r = q
<1>1. Ledger \subseteq rows
  BY DEF Ledger
<1>2. IsFiniteSet(Ledger)
  BY <1>1, FS_Subset DEF RowsInv
<1>3. ASSUME NEW r \in Ledger PROVE r.at <= r.committed /\ r.committed \in Nat /\ r.at \in Nat
  <2>1. r \in Row /\ r.committed # -1 /\ r.at <= r.committed
    BY <1>1 DEF Ledger, RowsInv, Pending
  <2>2. r.committed \in -1..MaxTime /\ r.at \in 0..MaxTime /\ MaxTime \in Nat
    BY <2>1, ReportsAssumption DEF Row
  <2> QED BY <2>1, <2>2
<1> QED BY <1>1, <1>2, <1>3 DEF RowsInv

LEMMA MatchingType ==
  ASSUME RowsInv, NEW r
  PROVE  /\ Matching(r) \subseteq Ledger /\ Matching(r) \subseteq Row /\ IsFiniteSet(Matching(r))
         /\ \A x \in Matching(r) : ~Tied(x) => Alone(x, Matching(r))
<1>1. Matching(r) \subseteq Ledger
  BY DEF Matching
<1>2. IsFiniteSet(Matching(r)) /\ Matching(r) \subseteq Row
  BY <1>1, LedgerType, FS_Subset
<1> QED BY <1>1, <1>2 DEF Alone, Tied

LEMMA IdsType ==
  ASSUME NEW e \in Seq(Row)
  PROVE  /\ Ids(e) \in Seq(1..MaxRows) /\ Len(Ids(e)) = Len(e) /\ Len(e) \in Nat
         /\ DOMAIN Ids(e) = 1..Len(e)
         /\ \A i \in 1..Len(e) : Ids(e)[i] = e[i].id
<1>1. Len(e) \in Nat /\ DOMAIN e = 1..Len(e) /\ \A i \in 1..Len(e) : e[i] \in Row
  BY LenProperties
<1>2. Ids(e) \in [1..Len(e) -> 1..MaxRows]
  BY <1>1 DEF Ids, Row
<1>3. Ids(e) \in Seq(1..MaxRows)
  <2>1. Ids(e) \in UNION {[1..n -> 1..MaxRows] : n \in Nat}
    BY <1>1, <1>2
  <2> QED BY <2>1, SeqDef
<1>4. Len(Ids(e)) \in Nat /\ DOMAIN Ids(e) = 1..Len(Ids(e))
  BY <1>3, LenProperties
<1>5. Len(Ids(e)) = Len(e)
  BY <1>1, <1>2, <1>4
<1> QED BY <1>1, <1>2, <1>3, <1>5 DEF Ids

\* How often a sequence has an id, from where it has it.
LEMMA CountType ==
  ASSUME NEW n \in Nat, NEW ids, DOMAIN ids = 1..n, NEW id
  PROVE  /\ Counts(ids, id) \in Nat
         /\ (\A i, j \in 1..n : ids[i] = id /\ ids[j] = id => i = j) => Counts(ids, id) <= 1
         /\ (\E i \in 1..n : ids[i] = id) => Counts(ids, id) >= 1
         /\ Counts(ids, id) >= 1 => \E i \in 1..n : ids[i] = id
<1> DEFINE C == {i \in DOMAIN ids : ids[i] = id}
<1>1. IsFiniteSet(C) /\ Cardinality(C) \in Nat /\ Counts(ids, id) = Cardinality(C)
  <2>1. IsFiniteSet(1..n) /\ C \in SUBSET (1..n)
    BY FS_Interval
  <2> QED BY <2>1, FewerOrAsMany DEF Counts
<1>2. Cardinality(C) = 0 <=> C = {}
  BY <1>1, FS_EmptySet
<1>3. ASSUME NEW i \in C, \A j \in C : j = i PROVE Cardinality(C) = 1
  <2>1. C = {i}
    BY <1>3
  <2> QED BY <2>1, FS_Singleton
<1>4. ASSUME \A i, j \in 1..n : ids[i] = id /\ ids[j] = id => i = j PROVE Cardinality(C) <= 1
  <2>1. CASE C = {}
    BY <1>1, <1>2, <2>1
  <2>2. CASE C # {}
    <3>1. PICK i \in C : TRUE
      BY <2>2
    <3>2. \A j \in C : j = i
      BY <1>4
    <3>3. Cardinality(C) = 1
      BY <1>3, <3>2
    <3> QED BY <3>3
  <2> QED BY <2>1, <2>2
<1>5. (\E i \in 1..n : ids[i] = id) <=> C # {}
  OBVIOUS
<1> HIDE DEF C
<1> QED BY <1>1, <1>2, <1>4, <1>5

LEMMA FinishedReading ==
  ASSUME RowsInv, NEW r, r.from \in Int, NEW e, NEW to, to = r.to, to \in Nat, NEW raced,
         ReadSoFar(e, Matching(r), to, raced),
         Len(e) < MaxEvents => Len(e) = Cardinality(Matching(r))
  PROVE  Reading(Ids(e), r.from, to, raced)
<1> DEFINE S == Matching(r)
<1>1. /\ S \subseteq Ledger /\ S \subseteq Row /\ IsFiniteSet(S)
      /\ \A x \in S : ~Tied(x) => Alone(x, S)
  BY MatchingType
<1>2. /\ e \in Seq(S) /\ e \in Seq(Row) /\ Len(e) \in Nat
      /\ \A i \in 1..Len(e) : e[i] \in S
  BY <1>1, SeqMonotonic, LenProperties DEF ReadSoFar
<1>3. /\ Ids(e) \in Seq(1..MaxRows) /\ Len(Ids(e)) = Len(e)
      /\ DOMAIN Ids(e) = 1..Len(e)
      /\ \A i \in 1..Len(e) : Ids(e)[i] = e[i].id
  BY <1>2, IdsType
<1>4. \A x \in Ledger, i \in 1..Len(e) : Ids(e)[i] = x.id <=> e[i] = x
  BY <1>1, <1>2, <1>3, LedgerType
<1>5. ASSUME ~raced, NEW x \in Ledger, ~Tied(x) PROVE Counts(Ids(e), x.id) <= 1
  <2>1. ASSUME NEW i \in 1..Len(e), Ids(e)[i] = x.id PROVE i = Place(x, S)
    <3>1. e[i] = x /\ x \in S
      BY <1>2, <1>4, <2>1
    <3> QED BY <1>1, <1>5, <3>1 DEF ReadSoFar
  <2>2. \A i, j \in 1..Len(e) : Ids(e)[i] = x.id /\ Ids(e)[j] = x.id => i = j
    BY <2>1
  <2> QED BY <1>2, <1>3, <2>2, CountType
<1>6. ASSUME Len(e) < MaxEvents, NEW x \in Ledger, x.at >= r.from, x.committed < to, ~Tied(x)
      PROVE  Counts(Ids(e), x.id) >= 1
  <2>1. x.at < r.to /\ r.from <= x.at
    BY <1>6, LedgerType
  <2>2. x \in S
    BY <2>1 DEF Matching, InRange
  <2>3. ~(Place(x, S) > Len(e))
    <3>1. x \notin Newer(x, S) /\ Newer(x, S) \subseteq S
      BY LedgerType DEF Newer
    <3>2. Newer(x, S) \in SUBSET (S \ {x})
      BY <3>1
    <3>3. Cardinality(Newer(x, S)) + 1 <= Cardinality(S)
      BY <1>1, <2>2, <3>2, OneFewerAtLeast
    <3>4. Cardinality(Newer(x, S)) \in Nat /\ Cardinality(S) \in Nat
      BY <1>1, <3>1, FewerOrAsMany
    <3> QED BY <1>6, <3>3, <3>4 DEF Place
  <2>4. \E i \in 1..Len(e) : e[i] = x
    BY <1>1, <1>6, <2>2, <2>3 DEF ReadSoFar
  <2>5. \E i \in 1..Len(e) : Ids(e)[i] = x.id
    BY <1>4, <2>4
  <2> QED BY <1>2, <1>3, <2>5, CountType
<1>7. ASSUME NEW i \in 1..Len(Ids(e)) PROVE \E x \in Ledger : x.id = Ids(e)[i]
  BY <1>1, <1>2, <1>3
<1> QED BY <1>3, <1>5, <1>6, <1>7 DEF Reading

-----------------------------------------------------------------------------
(* The rows and the ledger.                                                *)

\* The ledger stays, or a row is committed.
LedgerGrows ==
  \/ Ledger' = Ledger
  \/ \E z : /\ Ledger' = Ledger \cup {z} /\ z.committed = now
           /\ \A r \in Ledger : r.id # z.id

LEMMA InitRows == Init => RowsInv /\ now \in 0..MaxTime
<1> SUFFICES ASSUME Init PROVE RowsInv /\ now \in 0..MaxTime
  OBVIOUS
<1>1. rows = {} /\ now = 0
  BY DEF Init
<1> QED BY <1>1, FS_EmptySet, ReportsAssumption DEF RowsInv

LEMMA RowsBegin ==
  ASSUME RowsInv, now \in 0..MaxTime, NEW repo \in Repo, BeginWrite(repo)
  PROVE  RowsInv' /\ Ledger' = Ledger
<1> DEFINE n == Cardinality(rows)
           z == [id |-> n + 1, at |-> now, repo |-> repo, committed |-> Pending]
<1>1. n \in Nat /\ n < MaxRows /\ rows' = rows \cup {z} /\ now' = now /\ MaxRows \in Nat
  BY FS_CardinalityType, ReportsAssumption DEF RowsInv, BeginWrite
<1>2. z \in Row /\ z.id = n + 1 /\ z.at = now /\ z.committed = Pending
  BY <1>1, ReportsAssumption DEF Row, Pending
<1>3. \A r \in rows : r.id \in Nat /\ r.id <= n
  BY DEF RowsInv, Row
<1>4. \A r \in rows : r.id # z.id
  BY <1>1, <1>2, <1>3
<1> HIDE DEF z
<1>5. z \notin rows
  BY <1>4
<1>6. IsFiniteSet(rows') /\ Cardinality(rows') = n + 1
  BY <1>1, <1>5, FS_AddElement DEF RowsInv
<1>7. ASSUME NEW r \in rows'
      PROVE  /\ r.id <= Cardinality(rows') /\ r.at <= now' /\ r.committed <= now'
             /\ r.committed # Pending => r.at <= r.committed
  <2>1. CASE r \in rows
    BY <1>1, <1>3, <1>6, <2>1 DEF RowsInv
  <2>2. CASE r = z
    BY <1>1, <1>2, <1>6, <2>2 DEF Pending
  <2> QED BY <1>1, <2>1, <2>2
<1>8. \A r, q \in rows' : r.id = q.id => r = q
  BY <1>1, <1>4 DEF RowsInv
<1>9. Ledger' = Ledger
  BY <1>1, <1>2 DEF Ledger
<1> QED BY <1>1, <1>2, <1>6, <1>7, <1>8, <1>9 DEF RowsInv

LEMMA RowsCommit ==
  ASSUME RowsInv, now \in 0..MaxTime, NEW row \in rows, CommitWrite(row)
  PROVE  LET z == [row EXCEPT !.committed = now] IN
         /\ RowsInv'
         /\ Ledger' = Ledger \cup {z} /\ z.committed = now /\ z.at = row.at
         /\ \A r \in Ledger : r.id # z.id
<1> DEFINE z == [row EXCEPT !.committed = now]
           R == rows \ {row}
<1>1. /\ row \in Row /\ row \notin Ledger /\ rows' = R \cup {z} /\ now' = now
  BY DEF RowsInv, CommitWrite
<1>2. /\ z \in Row /\ z.committed = now /\ z.id = row.id /\ z.at = row.at
      /\ row.committed = Pending /\ now # Pending
  BY <1>1 DEF Row, Pending, Ledger
<1> HIDE DEF z
<1>3. \A r \in R : r.id # z.id
  BY <1>2 DEF RowsInv
<1>4. z \notin R /\ row \notin R
  BY <1>3
<1>5. IsFiniteSet(rows') /\ Cardinality(rows') = Cardinality(rows)
  <2>1. IsFiniteSet(R) /\ Cardinality(R) = Cardinality(rows) - 1 /\ Cardinality(rows) \in Nat
    BY FS_RemoveElement, FS_CardinalityType DEF RowsInv
  <2>2. IsFiniteSet(R \cup {z}) /\ Cardinality(R \cup {z}) = Cardinality(R) + 1
    BY <1>4, <2>1, FS_AddElement
  <2> QED BY <1>1, <2>1, <2>2
<1>6. ASSUME NEW r \in rows'
      PROVE  /\ r \in Row
             /\ r.id <= Cardinality(rows') /\ r.at <= now' /\ r.committed <= now'
             /\ r.committed # Pending => r.at <= r.committed
  <2>1. CASE r \in R
    BY <1>1, <1>5, <2>1 DEF RowsInv
  <2>2. CASE r = z
    <3>1. row.at <= now /\ row.id <= Cardinality(rows) /\ now \in Nat
      BY ReportsAssumption DEF RowsInv
    <3> QED BY <1>1, <1>2, <1>5, <2>2, <3>1
  <2> QED BY <1>1, <2>1, <2>2
<1>7. \A r, q \in rows' : r.id = q.id => r = q
  BY <1>1, <1>3 DEF RowsInv
<1>8. Ledger' = Ledger \cup {z}
  BY <1>1, <1>2 DEF Ledger
<1>9. \A r \in Ledger : r.id # z.id
  BY <1>1, <1>3 DEF Ledger
<1>10. RowsInv'
  BY <1>5, <1>6, <1>7 DEF RowsInv
<1> QED BY <1>2, <1>8, <1>9, <1>10 DEF z

\* What a step other than an insert leaves alone.
LEMMA OtherSteps ==
  ASSUME [Next]_vars
  PROVE  \/ \E repo \in Repo : BeginWrite(repo)
         \/ \E row \in rows : CommitWrite(row)
         \/ rows' = rows /\ now' = now
         \/ Tick
BY DEF Next, ReadPage, ReadFails, AskCached, Ask, FinishAnswer, RestartServer, StartCheck,
       FinishCheck, vars

LEMMA NextRows ==
  RowsInv /\ now \in 0..MaxTime /\ [Next]_vars
    => RowsInv' /\ now' \in 0..MaxTime /\ now <= now' /\ LedgerGrows
<1> SUFFICES ASSUME RowsInv, now \in 0..MaxTime, [Next]_vars
             PROVE  RowsInv' /\ now' \in 0..MaxTime /\ now <= now' /\ LedgerGrows
  OBVIOUS
<1>1. ASSUME NEW repo \in Repo, BeginWrite(repo)
      PROVE  RowsInv' /\ now' \in 0..MaxTime /\ now <= now' /\ LedgerGrows
  BY <1>1, RowsBegin DEF BeginWrite, LedgerGrows
<1>2. ASSUME NEW row \in rows, CommitWrite(row)
      PROVE  RowsInv' /\ now' \in 0..MaxTime /\ now <= now' /\ LedgerGrows
  <2>1. PICK z : z = [row EXCEPT !.committed = now]
    OBVIOUS
  <2>2. /\ RowsInv' /\ Ledger' = Ledger \cup {z} /\ z.committed = now
        /\ \A r \in Ledger : r.id # z.id
    BY <1>2, <2>1, RowsCommit
  <2>3. LedgerGrows
    BY <2>2 DEF LedgerGrows
  <2>4. now' \in 0..MaxTime /\ now <= now'
    BY <1>2, ReportsAssumption DEF CommitWrite
  <2> QED BY <2>2, <2>3, <2>4
<1>3. ASSUME rows' = rows, now' \in 0..MaxTime, now <= now'
      PROVE  RowsInv' /\ LedgerGrows
  <2>1. Ledger' = Ledger
    BY <1>3 DEF Ledger
  <2>2. ASSUME NEW r \in rows PROVE r.at <= now' /\ r.committed <= now'
    <3>1. /\ r.at \in Int /\ r.committed \in Int /\ r.at <= now /\ r.committed <= now
          /\ now \in Int /\ now' \in Int
      BY <1>3 DEF RowsInv, Row
    <3> QED BY <1>3, <3>1
  <2> QED BY <1>3, <2>1, <2>2 DEF RowsInv, LedgerGrows
<1>4. CASE Tick
  BY <1>3, <1>4, ReportsAssumption DEF Tick
<1>5. CASE rows' = rows /\ now' = now
  BY <1>3, <1>5, ReportsAssumption
<1> QED BY <1>1, <1>2, <1>4, <1>5, OtherSteps

LEMMA ReadingStays ==
  ASSUME RowsInv, RowsInv', LedgerGrows, now \in 0..MaxTime,
         NEW ids, NEW from, NEW to \in Nat, to <= now, NEW raced, Reading(ids, from, to, raced)
  PROVE  Reading(ids, from, to, raced)'
<1>1. CASE Ledger' = Ledger
  BY <1>1 DEF Reading, Tied
<1>2. CASE Ledger' # Ledger
  <2>1. PICK z : /\ Ledger' = Ledger \cup {z} /\ z.committed = now
                 /\ \A r \in Ledger : r.id # z.id
    BY <1>2 DEF LedgerGrows
  <2>2. \A r \in Ledger : Tied(r) => Tied(r)'
    BY <2>1 DEF Tied
  <2>3. Len(ids) \in Nat /\ DOMAIN ids = 1..Len(ids)
    BY LenProperties DEF Reading
  <2>4. Counts(ids, z.id) <= 1
    <3>1. \A i \in 1..Len(ids) : ids[i] # z.id
      BY <2>1 DEF Reading
    <3> QED BY <2>3, <3>1, CountType
  <2>5. ~(z.committed < to)
    BY <2>1
  <2>6. ~raced => \A r \in Ledger' : ~Tied(r)' => Counts(ids, r.id) <= 1
    BY <2>1, <2>2, <2>4 DEF Reading
  <2>7. Len(ids) < MaxEvents =>
          \A r \in Ledger' : r.at >= from /\ r.committed < to /\ ~Tied(r)' => Counts(ids, r.id) >= 1
    BY <2>1, <2>2, <2>5 DEF Reading
  <2>8. \A i \in 1..Len(ids) : \E r \in Ledger' : r.id = ids[i]
    BY <2>1 DEF Reading
  <2> QED BY <2>6, <2>7, <2>8 DEF Reading
<1> QED BY <1>1, <1>2

-----------------------------------------------------------------------------
(* The readers.                                                            *)

LEMMA IdleReader ==
  ASSUME RowsInv, now \in 0..MaxTime, NEW p
  PROVE  ReaderOK(Idle, p)
<1>1. IsFiniteSet(Matching(Idle))
  BY MatchingType
<1>2. ReadSoFar(<<>>, Matching(Idle), 0, FALSE)
  BY <1>1, NothingRead
<1>3. <<>> \in Seq(Row) /\ Len(<<>>) = 0 /\ MaxEvents \in Nat \ {0} /\ 0 <= now
  BY ReportsAssumption
<1>4. /\ Idle \in ReaderType /\ Idle.events = <<>> /\ Idle.reading = FALSE
      /\ Idle.to = 0 /\ Idle.raced = FALSE
  BY <1>3 DEF Idle, ReaderType
<1>5. ReadSoFar(Idle.events, Matching(Idle), Idle.to, Idle.raced)
  BY <1>2, <1>4
<1>6. Len(Idle.events) < MaxEvents /\ Idle.to <= now
  BY <1>3, <1>4
<1> QED BY <1>4, <1>5, <1>6 DEF ReaderOK

LEMMA FirstPage ==
  ASSUME RowsInv, now \in 0..MaxTime, NEW p \in Process, NEW days \in Nat,
         NEW q \in Question \cup {NoQuestion},
         p = "server" => q \in Question /\ days = RangeDays(q),
         p = "check" => days = LookbackDays
  PROVE  ReaderOK([question |-> q, from |-> now - days, to |-> now, events |-> <<>>,
                   reading |-> TRUE, raced |-> FALSE], p)
<1> DEFINE r == [question |-> q, from |-> now - days, to |-> now, events |-> <<>>,
                 reading |-> TRUE, raced |-> FALSE]
<1>1. IsFiniteSet(Matching(r))
  BY MatchingType
<1>2. ReadSoFar(<<>>, Matching(r), now, FALSE)
  BY <1>1, NothingRead
<1>3. <<>> \in Seq(Row) /\ Len(<<>>) = 0 /\ MaxEvents \in Nat \ {0} /\ now \in Nat
  BY ReportsAssumption
<1>4. r \in ReaderType
  BY <1>3 DEF ReaderType
<1>5. /\ r.question = q /\ r.from = now - days /\ r.to = now /\ r.events = <<>>
      /\ r.reading = TRUE /\ r.raced = FALSE
  OBVIOUS
<1> HIDE DEF r
<1>6. ReadSoFar(r.events, Matching(r), r.to, r.raced)
  BY <1>2, <1>5
<1>7. /\ p = "server" => r.question \in Question /\ r.from = r.to - RangeDays(r.question)
      /\ p = "check" => r.from = r.to - LookbackDays
  BY <1>5
<1>8. r.to <= now /\ Len(r.events) < MaxEvents
  BY <1>3, <1>5
<1>9. ReaderOK(r, p)
  BY <1>4, <1>5, <1>6, <1>7, <1>8 DEF ReaderOK
<1> QED BY <1>9 DEF r

\* The next page of a reader, and what it then has.
LEMMA NextPage ==
  ASSUME RowsInv, now \in 0..MaxTime, NEW r \in ReaderType, NEW p, ReaderOK(r, p),
         NEW page \in Pages(r)
  PROVE  /\ ReadSoFar(r.events \o page, Matching(r), r.to, r.raced)
         /\ Len(page) \in Nat /\ Len(page) <= PageLimit(r)
         /\ Len(r.events \o page) = Len(r.events) + Len(page)
         /\ Len(r.events \o page) <= MaxEvents
         /\ r.events \o page \in Seq(Row)
         /\ LastPage(r, page) /\ Len(r.events \o page) < MaxEvents =>
              Len(r.events \o page) = Cardinality(Matching(r))
<1> DEFINE S == Matching(r)
           e == r.events
           L == PageLimit(r)
<1>1. S \subseteq Row /\ IsFiniteSet(S)
  BY MatchingType
<1>2. /\ ReadSoFar(e, S, r.to, r.raced) /\ e \in Seq(S) /\ Len(e) <= Cardinality(S)
      /\ Len(e) \in Nat /\ Len(e) < MaxEvents
  BY LenProperties DEF ReaderOK, ReadSoFar
<1>3. L \in Nat /\ L <= MaxEvents - Len(e)
  BY <1>2, ReportsAssumption DEF PageLimit, Least
<1>4. PICK s \in Orders(S) : page = PageAfter(e, s, L)
  BY DEF Pages, PageAfter
<1> HIDE DEF S, e, L
<1>5. /\ page \in Seq(S) /\ Len(page) \in Nat /\ Len(page) <= L
      /\ Len(e) + Len(page) <= Cardinality(S)
      /\ Len(page) < L => Len(e) + Len(page) = Cardinality(S)
      /\ e \o page \in Seq(S)
      /\ Len(e \o page) = Len(e) + Len(page)
      /\ \A i \in 1..Len(e) : (e \o page)[i] = e[i]
      /\ \A i \in (Len(e) + 1)..(Len(e) + Len(page)) : (e \o page)[i] = s[i]
  BY <1>1, <1>2, <1>3, <1>4, PageType
<1>6. ReadSoFar(e \o page, S, r.to, r.raced)
  <2> DEFINE f == e \o page
  <2>1. /\ f \in Seq(S) /\ Len(e) <= Len(f) /\ Len(f) <= Cardinality(S)
        /\ \A i \in 1..Len(e) : f[i] = e[i]
        /\ \A i \in (Len(e) + 1)..Len(f) : f[i] = s[i]
    BY <1>2, <1>5
  <2> HIDE DEF f
  <2>2. ReadSoFar(f, S, r.to, r.raced)
    BY <1>1, <1>2, <2>1, PageRead
  <2> QED BY <2>2 DEF f
<1>7. e \o page \in Seq(Row)
  BY <1>1, <1>5, SeqMonotonic
<1>8. LastPage(r, page) /\ Len(e \o page) < MaxEvents => Len(e \o page) = Cardinality(S)
  BY <1>2, <1>5, ReportsAssumption DEF LastPage, e, L
<1>9. Len(e \o page) <= MaxEvents
  BY <1>2, <1>3, <1>5, ReportsAssumption
<1> QED BY <1>5, <1>6, <1>7, <1>8, <1>9 DEF S, e, L

LEMMA InitReader == Init => ReaderInv
<1> SUFFICES ASSUME Init PROVE ReaderInv
  OBVIOUS
<1>1. RowsInv /\ now \in 0..MaxTime
  BY InitRows
<1>2. \A p \in Process : ReaderOK(Idle, p)
  BY <1>1, IdleReader
<1>3. reader = [p \in Process |-> Idle]
  BY DEF Init
<1> QED BY <1>2, <1>3 DEF ReaderInv, ReaderOK

\* A reader that does nothing while nothing in its range is committed.
LEMMA ReaderStays ==
  ASSUME ReaderInv, NEW p \in Process, reader'[p] = reader[p], now <= now', now \in Nat,
         now' \in Nat, Matching(reader[p])' = Matching(reader[p])
  PROVE  ReaderOK(reader[p], p)'
<1>1. ReaderOK(reader[p], p) /\ reader[p].to \in Nat
  BY DEF ReaderInv, ReaderType
<1>2. reader'[p].to <= now'
  BY <1>1 DEF ReaderOK
<1> QED BY <1>1, <1>2 DEF ReaderOK

LEMMA ReaderCommit ==
  ASSUME RowsInv, RowsInv', now \in 0..MaxTime, ReaderInv, NEW row \in rows, CommitWrite(row),
         NEW p \in Process
  PROVE  ReaderOK(reader[p], p)'
<1>1. PICK z : /\ Ledger' = Ledger \cup {z} /\ z.committed = now /\ z.at = row.at
               /\ \A r \in Ledger : r.id # z.id
  <2>1. PICK z : z = [row EXCEPT !.committed = now]
    OBVIOUS
  <2> QED BY <2>1, RowsCommit
<1>2. PICK r \in ReaderType : r = reader[p]
  BY DEF ReaderInv
<1>3. ReaderOK(r, p)
  BY <1>2 DEF ReaderInv
<1>4. /\ now' = now
      /\ reader'[p] = IF r.reading /\ InRange(row, r) THEN [r EXCEPT !.raced = TRUE] ELSE r
  BY <1>2 DEF CommitWrite
<1>5. CASE InRange(row, r)
  <2>1. r.reading
    <3>1. row.at \in Nat
      BY ReportsAssumption DEF RowsInv, Row
    <3>2. ~InRange(row, Idle)
      BY <3>1 DEF InRange, Idle
    <3> QED BY <1>3, <1>5, <3>2 DEF ReaderOK
  <2>2. PICK q : q = [r EXCEPT !.raced = TRUE]
    OBVIOUS
  <2>3. /\ q \in ReaderType /\ q.from = r.from /\ q.to = r.to /\ q.events = r.events
        /\ q.question = r.question /\ q.reading = r.reading /\ q.raced = TRUE
    BY <2>2 DEF ReaderType
  <2>4. Matching(q)' = Matching(r) \cup {z}
    BY <1>1, <1>5, <2>3 DEF Matching, InRange
  <2>5. IsFiniteSet(Matching(q)') /\ IsFiniteSet(Matching(r))
    <3>1. \A u : IsFiniteSet(Matching(u))
      BY MatchingType
    <3>2. (\A u : IsFiniteSet(Matching(u)))'
      <4>1. IsFiniteSet(Ledger')
        BY LedgerType, FS_AddElement, <1>1
      <4>2. \A u : {x \in Ledger' : InRange(x, u)} \in SUBSET Ledger'
        OBVIOUS
      <4> QED BY <4>1, <4>2, FS_Subset DEF Matching
    <3> QED BY <3>1, <3>2
  <2>6. ~(z.committed < r.to)
    BY <1>1, <1>3 DEF ReaderOK, ReaderType
  <2>7. ReadSoFar(r.events, Matching(r), r.to, r.raced)
    BY <1>3 DEF ReaderOK
  <2>8. ReadSoFar(r.events, Matching(r) \cup {z}, r.to, TRUE)
    BY <2>4, <2>5, <2>6, <2>7, MoreRows
  <2>9. ReaderOK(q, p)'
    BY <1>3, <1>4, <2>1, <2>3, <2>4, <2>8 DEF ReaderOK
  <2>10. reader'[p] = q
    BY <1>4, <1>5, <2>1, <2>2
  <2> QED BY <2>9, <2>10 DEF ReaderOK
<1>6. CASE ~InRange(row, r)
  <2>1. reader'[p] = reader[p]
    BY <1>2, <1>4, <1>6
  <2>2. Matching(reader[p])' = Matching(reader[p])
    BY <1>1, <1>2, <1>6, <2>1 DEF Matching, InRange
  <2> QED BY <1>4, <2>1, <2>2, ReaderStays, ReportsAssumption
<1> QED BY <1>5, <1>6

\* One reader does something, and nothing is written.
LEMMA OneReads ==
  ASSUME ReaderInv, now \in Nat, UNCHANGED <<rows, now>>, NEW p \in Process, NEW q, ReaderOK(q, p),
         reader' = [reader EXCEPT ![p] = q]
  PROVE  ReaderInv'
<1>1. \A r, o : ReaderOK(r, o)' <=> ReaderOK(r, o)
  BY DEF ReaderOK, Matching, Ledger
<1>2. q \in ReaderType
  BY DEF ReaderOK
<1>3. reader' \in [Process -> ReaderType]
  BY <1>2 DEF ReaderInv
<1>4. ASSUME NEW o \in Process PROVE ReaderOK(reader'[o], o)
  BY DEF ReaderInv
<1> QED BY <1>1, <1>3, <1>4 DEF ReaderInv

LEMMA AllStay ==
  ASSUME ReaderInv, now \in Nat, now' \in Nat, now <= now', Ledger' = Ledger, reader' = reader
  PROVE  ReaderInv'
<1>1. \A p \in Process : Matching(reader[p])' = Matching(reader[p])
  BY DEF Matching
<1>2. \A p \in Process : ReaderOK(reader[p], p)'
  BY <1>1, ReaderStays
<1> QED BY <1>2 DEF ReaderInv

LEMMA NextReader ==
  RowsInv /\ RowsInv' /\ now \in 0..MaxTime /\ now' \in 0..MaxTime /\ ReaderInv /\ [Next]_vars
    => ReaderInv'
<1> SUFFICES ASSUME RowsInv, RowsInv', now \in 0..MaxTime, now' \in 0..MaxTime, ReaderInv,
                    [Next]_vars
             PROVE  ReaderInv'
  OBVIOUS
<1>0. /\ now \in Nat /\ now' \in Nat
      /\ Process = {"server", "check"}
      /\ \A p \in Process : reader[p] \in ReaderType /\ ReaderOK(reader[p], p)
  BY ReportsAssumption DEF ReaderInv, Process
<1>1. ASSUME NEW repo \in Repo, BeginWrite(repo) PROVE ReaderInv'
  BY <1>0, <1>1, RowsBegin, AllStay DEF BeginWrite
<1>2. ASSUME NEW row \in rows, CommitWrite(row) PROVE ReaderInv'
  <2>1. \A p \in Process : ReaderOK(reader[p], p)'
    BY <1>2, ReaderCommit
  <2>2. reader' = [p \in Process |-> reader'[p]]
    BY <1>2 DEF CommitWrite
  <2>3. \A p \in Process : reader'[p] \in ReaderType
    BY <2>1 DEF ReaderOK
  <2> QED BY <2>1, <2>2, <2>3 DEF ReaderInv
<1>3. ASSUME NEW p \in Process, ReadPage(p) PROVE ReaderInv'
  <2>1. PICK r \in ReaderType : r = reader[p] /\ ReaderOK(r, p)
    BY <1>0
  <2>2. PICK page \in Pages(r) :
          ~LastPage(r, page) /\ reader' = [reader EXCEPT ![p].events = @ \o page]
    BY <1>3, <2>1 DEF ReadPage
  <2>3. PICK q : q = [r EXCEPT !.events = r.events \o page]
    OBVIOUS
  <2>4. reader' = [reader EXCEPT ![p] = q] /\ UNCHANGED <<rows, now>>
    BY <1>3, <2>1, <2>2, <2>3 DEF ReadPage
  <2>5. /\ ReadSoFar(r.events \o page, Matching(r), r.to, r.raced)
        /\ Len(page) \in Nat
        /\ Len(r.events \o page) = Len(r.events) + Len(page)
        /\ r.events \o page \in Seq(Row)
    BY <2>1, <2>2, NextPage
  <2>6. Len(r.events \o page) < MaxEvents
    <3>1. Len(r.events) \in Nat
      BY <2>1, LenProperties DEF ReaderType
    <3> QED BY <2>2, <2>5, <3>1, ReportsAssumption DEF LastPage
  <2>7. /\ q \in ReaderType /\ q.events = r.events \o page /\ q.question = r.question
        /\ q.from = r.from /\ q.to = r.to /\ q.reading = r.reading /\ q.raced = r.raced
    BY <2>1, <2>3, <2>5 DEF ReaderType
  <2>8. Matching(q) = Matching(r) /\ r.reading
    BY <1>3, <2>1, <2>7 DEF Matching, InRange, ReadPage
  <2>9. ReadSoFar(q.events, Matching(q), q.to, q.raced) /\ Len(q.events) < MaxEvents
    BY <2>5, <2>6, <2>7, <2>8
  <2>10. ReaderOK(q, p)
    BY <2>1, <2>7, <2>8, <2>9 DEF ReaderOK
  <2> QED BY <1>0, <2>4, <2>10, OneReads
\* A reader that ends.
<1>4. ASSUME NEW p \in Process, reader' = [reader EXCEPT ![p] = Idle], UNCHANGED <<rows, now>>
      PROVE  ReaderInv'
  BY <1>0, <1>4, IdleReader, OneReads
\* A reader that starts.
<1>5. ASSUME NEW p \in Process, NEW days \in Nat, NEW question \in Question \cup {NoQuestion},
             p = "server" => question \in Question /\ days = RangeDays(question),
             p = "check" => days = LookbackDays,
             StartReading(p, question, days), UNCHANGED <<rows, now>>
      PROVE  ReaderInv'
  <2>1. PICK q : q = [question |-> question, from |-> now - days, to |-> now, events |-> <<>>,
                      reading |-> TRUE, raced |-> FALSE]
    OBVIOUS
  <2>2. ReaderOK(q, p)
    BY <1>5, <2>1, FirstPage
  <2>3. reader' = [reader EXCEPT ![p] = q]
    BY <1>5, <2>1 DEF StartReading
  <2> QED BY <1>0, <1>5, <2>2, <2>3, OneReads
<1>6. ASSUME NEW p \in Process, ReadFails(p) PROVE ReaderInv'
  BY <1>4, <1>6 DEF ReadFails
<1>7. ASSUME NEW question \in Question, AskCached(question) PROVE ReaderInv'
  <2>1. Ledger' = Ledger
    BY <1>7 DEF AskCached, Ledger
  <2> QED BY <1>0, <1>7, <2>1, AllStay DEF AskCached
<1>8. ASSUME NEW question \in Question, Ask(question) PROVE ReaderInv'
  <2>1. RangeDays(question) \in Nat
    BY RangeType
  <2>2. "server" \in Process /\ StartReading("server", question, RangeDays(question))
        /\ UNCHANGED <<rows, now>>
    BY <1>8 DEF Ask, Process
  <2> QED BY <1>5, <2>1, <2>2
<1>9. CASE FinishAnswer \/ RestartServer
  BY <1>0, <1>4, <1>9 DEF FinishAnswer, RestartServer
<1>10. CASE StartCheck
  <2>1. LookbackDays \in Nat
    BY ReportsAssumption
  <2>2. "check" \in Process /\ StartReading("check", NoQuestion, LookbackDays)
        /\ UNCHANGED <<rows, now>>
    BY <1>10 DEF StartCheck, Process
  <2> QED BY <1>5, <2>1, <2>2
<1>11. CASE FinishCheck
  BY <1>0, <1>4, <1>11 DEF FinishCheck
<1>12. CASE Tick
  <2>1. Ledger' = Ledger /\ now <= now'
    BY <1>0, <1>12 DEF Tick, Ledger
  <2> QED BY <1>0, <1>12, <2>1, AllStay DEF Tick
<1>13. CASE UNCHANGED vars
  <2>1. Ledger' = Ledger /\ now <= now' /\ reader' = reader
    BY <1>0, <1>13 DEF vars, Ledger
  <2> QED BY <1>0, <2>1, AllStay
<1> QED
  BY <1>1, <1>2, <1>3, <1>6, <1>7, <1>8, <1>9, <1>10, <1>11, <1>12, <1>13 DEF Next

-----------------------------------------------------------------------------
(* The cache.                                                              *)

\* Deleting and setting move entries and add one, and keep to the limit.
LEMMA WithoutOne ==
  ASSUME NEW c \in Seq(Entry), Len(c) <= MaxEntries, NEW key
  PROVE  /\ Without(c, key) \in Seq(Entry) /\ Len(Without(c, key)) <= MaxEntries
         /\ \A i \in 1..Len(Without(c, key)) : \E j \in 1..Len(c) : Without(c, key)[i] = c[j]
<1> DEFINE n == Len(c)
<1>1. n \in Nat /\ DOMAIN c = 1..n /\ \A i \in 1..n : c[i] \in Entry
  BY LenProperties
<1>2. CASE PlacesOf(c, key) = {}
  BY <1>2 DEF Without
<1>3. CASE PlacesOf(c, key) # {}
  <2>1. PICK k \in 1..n : Without(c, key) = RemoveAt(c, k)
    <3>1. PICK k : k = CHOOSE i \in PlacesOf(c, key) : TRUE
      OBVIOUS
    <3>2. k \in PlacesOf(c, key)
      BY <1>3, <3>1
    <3>3. k \in 1..n
      BY <1>1, <3>2 DEF PlacesOf
    <3> QED BY <1>3, <3>1, <3>3 DEF Without
  <2> DEFINE A == SubSeq(c, 1, k - 1)
             B == SubSeq(c, k + 1, n)
  <2> HIDE DEF n
  <2>2. /\ A \in Seq(Entry)
        /\ Len(A) = IF 1 <= k - 1 THEN k - 1 - 1 + 1 ELSE 0
        /\ \A i \in 1..(k - 1 - 1 + 1) : A[i] = c[1 + i - 1]
    <3>1. k - 1 \in Int /\ 1 \in Int /\ \A i \in 1..(k - 1) : c[i] \in Entry
      BY <1>1
    <3> QED BY <3>1, SubSeqProperties
  <2>3. /\ B \in Seq(Entry)
        /\ Len(B) = IF k + 1 <= n THEN n - (k + 1) + 1 ELSE 0
        /\ \A i \in 1..(n - (k + 1) + 1) : B[i] = c[k + 1 + i - 1]
    <3>1. k + 1 \in Int /\ n \in Int /\ \A i \in (k + 1)..n : c[i] \in Entry
      BY <1>1
    <3> QED BY <3>1, SubSeqProperties
  <2> HIDE DEF A, B
  <2>4. Len(A) = k - 1 /\ Len(B) = n - k
    BY <1>1, <2>2, <2>3
  <2>5. /\ A \o B \in Seq(Entry) /\ Len(A \o B) = (k - 1) + (n - k)
        /\ \A i \in 1..(k - 1) + (n - k) :
             (A \o B)[i] = IF i <= k - 1 THEN A[i] ELSE B[i - (k - 1)]
    <3>1. /\ A \o B \in Seq(Entry) /\ Len(A \o B) = Len(A) + Len(B)
          /\ \A i \in 1..Len(A) + Len(B) :
               (A \o B)[i] = IF i <= Len(A) THEN A[i] ELSE B[i - Len(A)]
      BY <2>2, <2>3, ConcatProperties
    <3> QED BY <2>4, <3>1
  <2>6. ASSUME NEW i \in 1..Len(A \o B) PROVE \E j \in 1..n : (A \o B)[i] = c[j]
    <3>1. CASE i <= k - 1
      <4>1. i \in 1..(k - 1 - 1 + 1) /\ i \in 1..n /\ 1 + i - 1 = i
        BY <1>1, <2>5, <3>1
      <4> QED BY <1>1, <2>2, <2>5, <3>1, <4>1
    <3>2. CASE ~(i <= k - 1)
      <4>1. /\ i - (k - 1) \in 1..(n - (k + 1) + 1)
            /\ k + 1 + (i - (k - 1)) - 1 = i + 1 /\ i + 1 \in 1..n
        BY <1>1, <2>5, <3>2
      <4>2. B[i - (k - 1)] = c[i + 1]
        BY <2>3, <4>1
      <4> QED BY <1>1, <2>5, <3>2, <4>1, <4>2
    <3> QED BY <3>1, <3>2
  <2>7. Without(c, key) = A \o B
    BY <2>1 DEF RemoveAt, A, B, n
  <2>8. Len(A \o B) <= MaxEntries
    BY <1>1, <2>5, ReportsAssumption DEF n
  <2> QED BY <2>5, <2>6, <2>7, <2>8 DEF n
<1> QED BY <1>2, <1>3

LEMMA SetOne ==
  ASSUME NEW c \in Seq(Entry), Len(c) <= MaxEntries, NEW key, NEW answer, NEW entry \in Entry,
         entry = [key |-> key, expiresAt |-> now + TtlMs, answer |-> answer],
         NEW d, d = CacheSet(c, key, answer)
  PROVE  /\ d \in Seq(Entry) /\ Len(d) <= MaxEntries
         /\ \A i \in 1..Len(d) : d[i] = entry \/ \E j \in 1..Len(c) : d[i] = c[j]
<1> DEFINE n == Len(c)
<1>1. n \in Nat /\ DOMAIN c = 1..n /\ \A i \in 1..n : c[i] \in Entry
  BY LenProperties
<1>2. CASE PlacesOf(c, key) # {}
  <2>1. d = [i \in 1..n |-> IF i \in PlacesOf(c, key) THEN entry ELSE c[i]]
    BY <1>1, <1>2 DEF CacheSet
  <2>2. d \in [1..n -> Entry] /\ \A i \in 1..n : d[i] = entry \/ d[i] = c[i]
    BY <1>1, <2>1
  <2>3. d \in Seq(Entry)
    <3>1. d \in UNION {[1..m -> Entry] : m \in Nat}
      BY <1>1, <2>2
    <3> QED BY <3>1, SeqDef
  <2>4. Len(d) \in Nat /\ DOMAIN d = 1..Len(d)
    BY <2>3, LenProperties
  <2>5. Len(d) = n
    BY <1>1, <2>2, <2>4
  <2> QED BY <2>2, <2>3, <2>5
<1>3. CASE PlacesOf(c, key) = {}
  <2>1. PICK b : b = IF Full(c) THEN Tail(c) ELSE c
    OBVIOUS
  <2>2. d = Append(b, entry)
    BY <1>3, <2>1 DEF CacheSet
  <2>3. /\ b \in Seq(Entry) /\ Len(b) \in Nat /\ Len(b) + 1 <= MaxEntries
        /\ \A i \in 1..Len(b) : \E j \in 1..n : b[i] = c[j]
    <3>1. CASE Full(c)
      <4>1. n >= 1 /\ c # <<>> /\ MaxEntries \in Nat
        BY <1>1, <3>1, ReportsAssumption DEF Full
      <4>2. Tail(c) \in Seq(Entry) /\ Len(Tail(c)) = n - 1
            /\ \A i \in 1..(n - 1) : Tail(c)[i] = c[i + 1]
        BY <4>1, HeadTailProperties
      <4>3. \A i \in 1..(n - 1) : i + 1 \in 1..n
        BY <1>1
      <4>4. n - 1 \in Nat /\ n - 1 + 1 <= MaxEntries
        BY <1>1, <4>1
      <4>5. b = Tail(c)
        BY <2>1, <3>1
      <4> QED BY <4>2, <4>3, <4>4, <4>5
    <3>2. CASE ~Full(c)
      BY <1>1, <2>1, <3>2, ReportsAssumption DEF Full
    <3> QED BY <3>1, <3>2
  <2>4. /\ d \in Seq(Entry) /\ Len(d) = Len(b) + 1
        /\ \A i \in 1..Len(b) : d[i] = b[i]
        /\ d[Len(b) + 1] = entry
    BY <2>2, <2>3, AppendProperties
  <2>5. ASSUME NEW i \in 1..Len(d) PROVE d[i] = entry \/ \E j \in 1..n : d[i] = c[j]
    <3>1. i \in 1..Len(b) \/ i = Len(b) + 1
      BY <2>3, <2>4
    <3> QED BY <2>3, <2>4, <3>1
  <2> QED BY <2>3, <2>4, <2>5
<1> QED BY <1>2, <1>3

LEMMA AnswerStays ==
  ASSUME RowsInv, RowsInv', LedgerGrows, now \in 0..MaxTime, now' \in 0..MaxTime, now <= now',
         NEW a, AnswerInv(a)
  PROVE  AnswerInv(a)'
<1>1. a.to \in Nat /\ a.loaded \in Nat /\ a.to <= a.loaded /\ a.loaded <= now
  BY ReportsAssumption DEF AnswerInv, Answer
<1>2. a.to <= now /\ a.loaded <= now'
  BY <1>1, ReportsAssumption
<1>3. Reading(a.events, a.to - RangeDays(a.question), a.to, a.raced)
  BY DEF AnswerInv
<1>4. Reading(a.events, a.to - RangeDays(a.question), a.to, a.raced)'
  BY <1>1, <1>2, <1>3, ReadingStays
<1> QED BY <1>1, <1>2, <1>4 DEF AnswerInv

LEMMA RowsRead ==
  ASSUME NEW e \in Seq(Row)
  PROVE  \A i \in DOMAIN e : e[i] \in Row /\ e[i].repo \in Repo /\ e[i].at \in Nat
<1>1. e \in [1..Len(e) -> Row]
  BY LenProperties
<1>2. \A i \in DOMAIN e : e[i] \in Row
  BY <1>1
<1>3. \A x \in Row : x.repo \in Repo /\ x.at \in Nat
  BY ReportsAssumption DEF Row
<1> QED BY <1>2, <1>3

\* What FinishAnswer makes of the last page.
LEMMA AnswerMade ==
  ASSUME RowsInv, now \in 0..MaxTime, ReaderInv, NEW r, r = reader["server"], r.reading,
         NEW page \in Pages(r), LastPage(r, page),
         NEW e, e = r.events \o page,
         NEW a, a = [question |-> r.question, events |-> Ids(e),
                     names |-> NamesIn(r.question, e),
                     to |-> r.to, loaded |-> now, raced |-> r.raced]
  PROVE  AnswerInv(a)
<1>1. r \in ReaderType /\ ReaderOK(r, "server")
  BY DEF ReaderInv, Process
<1>2. /\ r.question \in Question /\ r.from = r.to - RangeDays(r.question)
      /\ r.to \in Nat /\ r.to <= now /\ r.from \in Int /\ r.raced \in BOOLEAN
  BY <1>1 DEF ReaderOK, ReaderType
<1>3. /\ ReadSoFar(e, Matching(r), r.to, r.raced)
      /\ e \in Seq(Row)
      /\ Len(e) < MaxEvents => Len(e) = Cardinality(Matching(r))
  BY <1>1, NextPage
<1>4. Reading(Ids(e), r.from, r.to, r.raced)
  BY <1>2, <1>3, FinishedReading
<1>5. Ids(e) \in Seq(1..MaxRows)
  BY <1>3, IdsType
<1>6. NamesIn(r.question, e) \subseteq Repo
      /\ (r.question.visibility = "public" => NamesIn(r.question, e) \subseteq PublicRepos)
  <2>1. \A i \in DOMAIN e : e[i].repo \in Repo
    BY <1>3, RowsRead
  <2> QED BY <2>1 DEF NamesIn
<1>7. r.to \in 0..MaxTime
  BY <1>2, ReportsAssumption
<1>8. a \in Answer
  BY <1>2, <1>5, <1>6, <1>7 DEF Answer
<1> QED BY <1>2, <1>4, <1>6, <1>8 DEF AnswerInv

LEMMA InitCache == Init => CacheInv /\ ServedInv /\ AlertsInv
<1> SUFFICES ASSUME Init PROVE CacheInv /\ ServedInv /\ AlertsInv
  OBVIOUS
<1>1. <<>> \in Seq(Entry) /\ Len(<<>>) = 0 /\ 0 <= MaxEntries
  BY ReportsAssumption
<1>2. cache = <<>> /\ served = NotServed /\ alerts = NoCheck
  BY DEF Init
<1> QED BY <1>1, <1>2 DEF CacheInv, ServedInv, AlertsInv

LEMMA NextCache ==
  /\ RowsInv /\ RowsInv' /\ now \in 0..MaxTime /\ now' \in 0..MaxTime /\ now <= now'
  /\ LedgerGrows /\ ReaderInv /\ CacheInv /\ [Next]_vars
  => CacheInv' /\ (ServedInv' \/ UNCHANGED vars)
<1> SUFFICES ASSUME RowsInv, RowsInv', now \in 0..MaxTime, now' \in 0..MaxTime, now <= now',
                    LedgerGrows, ReaderInv, CacheInv, [Next]_vars
             PROVE  CacheInv' /\ (ServedInv' \/ UNCHANGED vars)
  OBVIOUS
<1>0. now \in Nat /\ MaxTime \in Nat /\ TtlMs \in Nat \ {0}
  BY ReportsAssumption
<1>1. ASSUME NEW entry, EntryInv(entry) PROVE EntryInv(entry)'
  BY <1>1, AnswerStays DEF EntryInv
<1>2. ASSUME cache' = cache PROVE CacheInv'
  BY <1>1, <1>2 DEF CacheInv
<1>3. served' = NotServed => ServedInv'
  BY DEF ServedInv
<1>4. ASSUME NEW question \in Question, AskCached(question) PROVE CacheInv' /\ ServedInv'
  <2>1. PICK i \in 1..Len(cache) :
          /\ cache[i].key = KeyOf(question) /\ Live(cache[i])
          /\ Serve(cache[i].answer, question)
    <3>1. DOMAIN cache = 1..Len(cache)
      BY LenProperties DEF CacheInv
    <3> QED BY <1>4, <3>1 DEF AskCached, EntryOf, PlacesOf
  <2>2. PICK a : a = cache[i].answer
    OBVIOUS
  <2>3. /\ AnswerInv(a) /\ KeyOf(question) = KeyOf(a.question)
        /\ cache[i].expiresAt = a.loaded + TtlMs
    BY <2>1, <2>2 DEF CacheInv, EntryInv
  <2>4. served' = [answer |-> a, at |-> now, asked |-> question]
    BY <2>1, <2>2 DEF Serve
  <2>5. AnswerInv(a)'
    BY <2>3, AnswerStays
  <2>6. a.to <= now /\ now <= a.loaded + TtlMs
    <3>1. a.to \in Nat /\ a.loaded \in Nat /\ a.to <= a.loaded /\ a.loaded <= now
      BY <2>3, ReportsAssumption DEF AnswerInv, Answer
    <3>2. cache[i].expiresAt > now
      BY <2>1 DEF Live
    <3> QED BY <1>0, <2>3, <3>1, <3>2
  <2>7. ServedInv'
    BY <2>3, <2>4, <2>5, <2>6 DEF ServedInv
  <2> QED BY <1>2, <1>4, <2>7 DEF AskCached
<1>5. ASSUME NEW question \in Question, Ask(question) PROVE CacheInv' /\ ServedInv'
  <2>1. cache' = Without(cache, KeyOf(question)) /\ served' = NotServed
    BY <1>5 DEF Ask, Quiet
  <2>2. /\ cache \in Seq(Entry) /\ Len(cache) <= MaxEntries
        /\ \A i \in 1..Len(cache) : EntryInv(cache[i])
    BY DEF CacheInv
  <2>3. /\ cache' \in Seq(Entry) /\ Len(cache') <= MaxEntries
        /\ \A i \in 1..Len(cache') : \E j \in 1..Len(cache) : cache'[i] = cache[j]
    BY <2>1, <2>2, WithoutOne
  <2>4. \A i \in 1..Len(cache') : EntryInv(cache[i])'
    <3> SUFFICES ASSUME NEW i \in 1..Len(cache') PROVE EntryInv(cache[i])'
      OBVIOUS
    <3>1. PICK j \in 1..Len(cache) : cache'[i] = cache[j]
      BY <2>3
    <3>2. PICK x : x = cache[j]
      OBVIOUS
    <3>3. EntryInv(x)'
      BY <1>1, <2>2, <3>2
    <3> QED BY <3>1, <3>2, <3>3 DEF EntryInv
  <2>5. CacheInv'
    BY <2>3, <2>4 DEF CacheInv
  <2> QED BY <1>3, <2>1, <2>5
<1>6. CASE FinishAnswer
  <2>1. PICK r : r = reader["server"]
    OBVIOUS
  <2>2. PICK page \in Pages(r) :
          /\ r.reading /\ LastPage(r, page)
          /\ LET e == r.events \o page
                 answer == [question |-> r.question, events |-> Ids(e),
                            names |-> NamesIn(r.question, e),
                            to |-> r.to, loaded |-> now, raced |-> r.raced]
             IN  /\ cache' = CacheSet(cache, KeyOf(r.question), answer)
                 /\ served' = [answer |-> answer, at |-> now, asked |-> r.question]
    BY <1>6, <2>1 DEF FinishAnswer, Serve
  <2>3. PICK e : e = r.events \o page
    OBVIOUS
  <2>4. PICK a : a = [question |-> r.question, events |-> Ids(e),
                      names |-> NamesIn(r.question, e),
                      to |-> r.to, loaded |-> now, raced |-> r.raced]
    OBVIOUS
  <2>5. AnswerInv(a)
    BY <2>1, <2>2, <2>3, <2>4, AnswerMade
  <2>6. /\ cache' = CacheSet(cache, KeyOf(r.question), a)
        /\ served' = [answer |-> a, at |-> now, asked |-> r.question]
        /\ a.question = r.question /\ a.loaded = now
    BY <2>2, <2>3, <2>4
  <2>7. AnswerInv(a)'
    BY <2>5, AnswerStays
  <2>8. /\ a.to <= now /\ now <= a.loaded + TtlMs /\ a \in Answer /\ r.question \in Question
    BY <1>0, <2>5, <2>6 DEF AnswerInv, Answer
  <2>9. ServedInv'
    BY <2>6, <2>7, <2>8 DEF ServedInv
  <2>10. PICK entry : entry = [key |-> KeyOf(r.question), expiresAt |-> now + TtlMs, answer |-> a]
    OBVIOUS
  <2>11. entry \in Entry
    BY <1>0, <2>8, <2>10 DEF Entry
  <2>12. EntryInv(entry)'
    BY <2>6, <2>7, <2>10 DEF EntryInv
  <2>13. /\ cache \in Seq(Entry) /\ Len(cache) <= MaxEntries
         /\ \A i \in 1..Len(cache) : EntryInv(cache[i])
    BY DEF CacheInv
  <2>14. /\ cache' \in Seq(Entry) /\ Len(cache') <= MaxEntries
         /\ \A i \in 1..Len(cache') :
              cache'[i] = entry \/ \E j \in 1..Len(cache) : cache'[i] = cache[j]
    BY <2>6, <2>10, <2>11, <2>13, SetOne
  <2>15. \A i \in 1..Len(cache') : EntryInv(cache[i])'
    <3> SUFFICES ASSUME NEW i \in 1..Len(cache') PROVE EntryInv(cache[i])'
      OBVIOUS
    <3>1. CASE cache'[i] = entry
      BY <2>12, <3>1 DEF EntryInv
    <3>2. CASE \E j \in 1..Len(cache) : cache'[i] = cache[j]
      <4>1. PICK j \in 1..Len(cache) : cache'[i] = cache[j]
        BY <3>2
      <4>2. PICK x : x = cache[j]
        OBVIOUS
      <4>3. EntryInv(x)'
        BY <1>1, <2>13, <4>2
      <4> QED BY <4>1, <4>2, <4>3 DEF EntryInv
    <3> QED BY <2>14, <3>1, <3>2
  <2> QED BY <2>9, <2>14, <2>15 DEF CacheInv
<1>7. CASE RestartServer
  <2>1. <<>> \in Seq(Entry) /\ Len(<<>>) = 0 /\ 0 <= MaxEntries
    BY ReportsAssumption
  <2>2. cache' = <<>> /\ served' = NotServed
    BY <1>7 DEF RestartServer, Quiet
  <2> QED BY <1>3, <2>1, <2>2 DEF CacheInv
<1>8. CASE \/ \E repo \in Repo : BeginWrite(repo)
           \/ \E row \in rows : CommitWrite(row)
           \/ \E p \in Process : ReadPage(p) \/ ReadFails(p)
           \/ StartCheck \/ FinishCheck \/ Tick
  <2>1. cache' = cache /\ served' = NotServed
    BY <1>8 DEF BeginWrite, CommitWrite, ReadPage, ReadFails, StartCheck, FinishCheck, Tick, Quiet
  <2> QED BY <1>2, <1>3, <2>1
<1>9. CASE UNCHANGED vars
  BY <1>2, <1>9 DEF vars
<1> QED BY <1>4, <1>5, <1>6, <1>7, <1>8, <1>9 DEF Next

-----------------------------------------------------------------------------
(* The alert check.                                                        *)

\* A cap that is reached is at a hundred percent.
LEMMA PercentOfCap ==
  ASSUME NEW spent \in Nat, NEW cap \in Nat \ {0}, spent >= cap
  PROVE  (100 * spent) \div cap \in Nat /\ (100 * spent) \div cap >= 100
OBVIOUS

\* What is dropped from the sorted alerts ranks behind everything that is kept,
\* and makes room for policy.maxAlerts of them.
LEMMA DroppedAlert ==
  ASSUME NEW found, IsFiniteSet(found), NEW kept \in Reports(found), NEW c \in found
  PROVE  /\ Cardinality(kept) <= MaxAlerts
         /\ \/ c \in kept
            \/ Cardinality(kept) = MaxAlerts /\ \A a \in kept : ~Before(c, a)
<1>1. /\ kept \in SUBSET found /\ Cardinality(kept) = Least(MaxAlerts, Cardinality(found))
      /\ \A a \in kept, b \in found \ kept : ~Before(b, a)
  BY DEF Reports
<1>2. Cardinality(found) \in Nat /\ MaxAlerts \in Nat
  BY FS_CardinalityType, ReportsAssumption
<1>3. Cardinality(kept) <= MaxAlerts
  BY <1>1, <1>2 DEF Least
<1>4. ASSUME c \notin kept PROVE Cardinality(kept) = MaxAlerts
  <2>1. Cardinality(found) # Cardinality(kept)
    BY <1>1, <1>4, FS_Subset
  <2> QED BY <1>1, <2>1 DEF Least
<1> QED BY <1>1, <1>3, <1>4

\* The rows a budget snapshot would have counted are all among those read.
LEMMA SpentIsRead ==
  ASSUME RowsInv, NEW r, r.to \in Nat, r.from = r.to - LookbackDays,
         PeriodDays <= LookbackDays + 1, NEW raced,
         NEW e, ReadSoFar(e, Matching(r), r.to, raced), Len(e) = Cardinality(Matching(r)),
         \A row \in Ledger : ~Tied(row), NEW repo
  PROVE  /\ SpentBefore(repo, r.to) \in Nat /\ SpentIn(e, repo, PeriodStart(r.to)) \in Nat
         /\ SpentBefore(repo, r.to) <= SpentIn(e, repo, PeriodStart(r.to))
<1> DEFINE S == Matching(r)
           from == PeriodStart(r.to)
           T == {row \in Ledger : row.repo = repo /\ row.committed < r.to /\ row.at >= from}
           I == {i \in DOMAIN e : e[i].repo = repo /\ e[i].at >= from}
           J == {i \in 1..Len(e) : e[i] \in T}
           f == [i \in J |-> e[i]]
<1>1. /\ S \subseteq Ledger /\ S \subseteq Row /\ IsFiniteSet(S)
      /\ \A x \in S : Alone(x, S)
  BY MatchingType
<1>2. /\ e \in Seq(S) /\ Len(e) \in Nat /\ DOMAIN e = 1..Len(e)
      /\ \A i \in 1..Len(e) : e[i] \in S
  BY LenProperties DEF ReadSoFar
<1>3. from \in Int /\ r.from \in Int /\ r.from <= from
  <2>1. r.to % PeriodDays \in 0..(PeriodDays - 1) /\ PeriodDays \in Nat /\ LookbackDays \in Nat
    BY ReportsAssumption
  <2> QED BY <2>1 DEF PeriodStart
<1> HIDE DEF from
<1>4. ASSUME NEW x \in T PROVE \E i \in J : e[i] = x
  <2>1. /\ x \in Ledger /\ x.committed < r.to /\ x.at >= from
        /\ x.at \in Nat /\ x.committed \in Nat /\ x.at <= x.committed
    BY LedgerType
  <2>2. x \in S
    BY <1>3, <2>1 DEF Matching, InRange
  <2>3. ~(Place(x, S) > Len(e))
    <3>1. Newer(x, S) \in SUBSET (S \ {x}) /\ Newer(x, S) \in SUBSET S
      BY <2>1 DEF Newer
    <3>2. Cardinality(Newer(x, S)) + 1 <= Cardinality(S)
      BY <1>1, <2>2, <3>1, OneFewerAtLeast
    <3>3. Cardinality(Newer(x, S)) \in Nat /\ Cardinality(S) \in Nat
      BY <1>1, <3>1, FewerOrAsMany
    <3> QED BY <3>2, <3>3 DEF Place
  <2>4. \E i \in 1..Len(e) : e[i] = x
    BY <1>1, <2>1, <2>2, <2>3 DEF ReadSoFar
  <2> QED BY <2>4
<1>5. IsFiniteSet(I) /\ Cardinality(I) \in Nat /\ IsFiniteSet(J)
      /\ Cardinality(J) \in Nat /\ Cardinality(J) <= Cardinality(I)
  <2>1. IsFiniteSet(1..Len(e)) /\ I \in SUBSET (1..Len(e)) /\ J \in SUBSET I
    <3>1. IsFiniteSet(1..Len(e))
      BY <1>2, FS_Interval
    <3>2. \A i \in J : i \in DOMAIN e /\ e[i].repo = repo /\ e[i].at >= from
      BY <1>2
    <3> QED BY <1>2, <3>1, <3>2
  <2> HIDE DEF I, J
  <2>2. IsFiniteSet(I) /\ Cardinality(I) \in Nat
    BY <2>1, FewerOrAsMany
  <2> QED BY <2>1, <2>2, FewerOrAsMany
<1>6. f \in Surjection(J, T)
  <2>1. f \in [J -> T] /\ \A x \in T : \E i \in J : f[i] = x
    BY <1>4
  <2> HIDE DEF f, J, T
  <2> QED BY <2>1 DEF Surjection
<1> HIDE DEF f, I, J, T
<1>7. IsFiniteSet(T) /\ Cardinality(T) <= Cardinality(J)
  BY <1>5, <1>6, FS_Surjection
<1>8. Cardinality(T) \in Nat
  BY <1>7, FS_CardinalityType
<1>9. Cardinality(T) <= Cardinality(I)
  BY <1>5, <1>7, <1>8
<1>10. SpentBefore(repo, r.to) = Cardinality(T)
  BY DEF SpentBefore, T, from
<1>11. SpentIn(e, repo, PeriodStart(r.to)) = Cardinality(I)
  BY DEF SpentIn, I, from
<1> QED BY <1>5, <1>8, <1>9, <1>10, <1>11

LEMMA CheckMade ==
  ASSUME RowsInv, RowsInv', now \in 0..MaxTime, LedgerGrows, ReaderInv, FinishCheck
  PROVE  /\ AlertsInv'
         /\ PeriodDays <= LookbackDays + 1 => CapsReachedAreCritical'
<1>1. PICK r : r = reader["check"]
  OBVIOUS
<1>2. PICK page \in Pages(r), spikes \in SUBSET SpikeAlerts :
        /\ r.reading /\ LastPage(r, page)
        /\ LET e == r.events \o page
           IN  \E reported \in Reports(BudgetAlerts(e, r.to) \cup spikes) :
                   alerts' = [events |-> Ids(e), to |-> r.to, loaded |-> now,
                              raced |-> r.raced, reported |-> reported]
  BY <1>1 DEF FinishCheck
<1>3. PICK e : e = r.events \o page
  OBVIOUS
<1> DEFINE found == BudgetAlerts(e, r.to) \cup spikes
<1>4. PICK reported \in Reports(found) :
        alerts' = [events |-> Ids(e), to |-> r.to, loaded |-> now,
                   raced |-> r.raced, reported |-> reported]
  BY <1>2, <1>3
<1>4a. IsFiniteSet(found)
  <2> DEFINE A(repo) ==
               [kind |-> "budget_utilization", repo |-> repo,
                severity |-> IF Critical(repo, SpentIn(e, repo, PeriodStart(r.to)))
                             THEN "critical" ELSE "warning",
                score |-> Percent(repo, SpentIn(e, repo, PeriodStart(r.to)))]
             W == {repo \in Repo :
                     Percent(repo, SpentIn(e, repo, PeriodStart(r.to))) >= WarningPercent}
  <2>1. IsFiniteSet(Repo) /\ W \in SUBSET Repo
    BY ReportsAssumption
  <2>2. IsFiniteSet(W)
    BY <2>1, FS_Subset
  <2>3. BudgetAlerts(e, r.to) = {A(repo) : repo \in W}
    BY DEF BudgetAlerts
  <2> DEFINE B == BudgetAlerts(e, r.to)
             f == [repo \in W |-> A(repo)]
  <2> HIDE DEF A, W
  <2>4. f \in Surjection(W, B)
    BY <2>3 DEF Surjection
  <2> HIDE DEF f
  <2>4a. IsFiniteSet(B)
    BY <2>2, <2>4, FS_Surjection
  <2>5. IsFiniteSet(spikes)
    BY ReportsAssumption, FS_Subset
  <2> QED BY <2>4a, <2>5, FS_Union
<1>5. /\ alerts'.events = Ids(e) /\ alerts'.to = r.to /\ alerts'.raced = r.raced
      /\ alerts'.reported = reported
  BY <1>4
<1>6. r \in ReaderType /\ ReaderOK(r, "check")
  BY <1>1 DEF ReaderInv, Process
<1>7. /\ r.from = r.to - LookbackDays /\ r.to \in Nat /\ r.to <= now /\ r.from \in Int
  BY <1>2, <1>6 DEF ReaderOK, ReaderType
<1>8. /\ ReadSoFar(e, Matching(r), r.to, r.raced)
      /\ e \in Seq(Row) /\ Len(e) <= MaxEvents
      /\ Len(e) < MaxEvents => Len(e) = Cardinality(Matching(r))
  BY <1>2, <1>3, <1>6, NextPage
<1>9. Reading(Ids(e), r.from, r.to, r.raced)
  BY <1>7, <1>8, FinishedReading
<1>10. Reading(Ids(e), r.from, r.to, r.raced)'
  BY <1>7, <1>9, ReadingStays
<1>11. Len(Ids(e)) = Len(e)
  BY <1>8, IdsType
<1>12. AlertsInv'
  <2>1. Cardinality(reported) <= MaxAlerts
    <3>1. Cardinality(found) \in Nat /\ MaxAlerts \in Nat
      BY <1>4a, FS_CardinalityType, ReportsAssumption
    <3>2. Cardinality(reported) = Least(MaxAlerts, Cardinality(found))
      BY DEF Reports
    <3> QED BY <3>1, <3>2 DEF Least
  <2> QED BY <1>5, <1>7, <1>8, <1>10, <1>11, <2>1 DEF AlertsInv
<1>13. ASSUME PeriodDays <= LookbackDays + 1 PROVE CapsReachedAreCritical'
  <2>1. Ledger' = Ledger
    BY DEF FinishCheck, Ledger
  <2>2. /\ \A row \in Ledger : Tied(row)' <=> Tied(row)
        /\ \A repo \in Repo : SpentBefore(repo, r.to)' = SpentBefore(repo, r.to)
    BY <2>1 DEF Tied, SpentBefore
  <2>3. ASSUME Len(Ids(e)) < MaxEvents, \A row \in Ledger : ~Tied(row), NEW repo \in Repo,
               SpentBefore(repo, r.to) >= CapUsd[repo]
        PROVE  \/ \E a \in reported :
                      /\ a.kind = "budget_utilization" /\ a.repo = repo
                      /\ a.severity = "critical"
               \/ /\ Cardinality(reported) = MaxAlerts
                  /\ \A a \in reported : a.severity = "critical" /\ a.score >= 100
    <3> DEFINE spent(q) == SpentIn(e, q, PeriodStart(r.to))
    <3>1. /\ SpentBefore(repo, r.to) \in Nat /\ SpentIn(e, repo, PeriodStart(r.to)) \in Nat
          /\ SpentBefore(repo, r.to) <= SpentIn(e, repo, PeriodStart(r.to))
      BY <1>7, <1>8, <1>11, <1>13, <2>3, SpentIsRead
    <3>2. CapUsd[repo] \in Nat \ {0} /\ WarningPercent \in 1..100
      BY ReportsAssumption
    <3>3. Critical(repo, spent(repo)) /\ spent(repo) >= CapUsd[repo] /\ spent(repo) \in Nat
      BY <2>3, <3>1, <3>2 DEF Critical
    <3>4. Percent(repo, spent(repo)) \in Nat /\ Percent(repo, spent(repo)) >= 100
      BY <3>2, <3>3, PercentOfCap DEF Percent
    <3>5. PICK c : c = [kind |-> "budget_utilization", repo |-> repo, severity |-> "critical",
                        score |-> Percent(repo, spent(repo))]
      OBVIOUS
    <3>6. c \in found
      <4>1. Percent(repo, spent(repo)) >= WarningPercent
        BY <3>2, <3>4
      <4> QED BY <3>3, <3>5, <4>1 DEF BudgetAlerts
    <3>7. CASE c \in reported
      BY <3>5, <3>7
    <3>8. CASE c \notin reported
      <4>1. Cardinality(reported) = MaxAlerts /\ \A a \in reported : ~Before(c, a)
        BY <1>4a, <3>6, <3>8, DroppedAlert
      <4>2. ASSUME NEW a \in reported PROVE a.severity = "critical" /\ a.score >= 100
        <5>1. a \in found
          BY DEF Reports
        <5>2. a.severity \in {"warning", "critical"} /\ a.score \in Int
          <6>1. CASE a \in spikes
            BY <6>1, ReportsAssumption
          <6>2. CASE a \in BudgetAlerts(e, r.to)
            <7>1. PICK q \in Repo :
                    /\ a.score = Percent(q, spent(q))
                    /\ a.severity = IF Critical(q, spent(q)) THEN "critical" ELSE "warning"
              BY <6>2 DEF BudgetAlerts
            <7>2. spent(q) \in Nat /\ CapUsd[q] \in Nat \ {0}
              BY <1>7, <1>8, <1>11, <1>13, <2>3, SpentIsRead, ReportsAssumption
            <7>3. Percent(q, spent(q)) \in Int
              BY <7>2 DEF Percent
            <7> QED BY <7>1, <7>3
          <6> QED BY <5>1, <6>1, <6>2
        <5>3. ~Before(c, a) /\ c.severity = "critical" /\ c.score >= 100 /\ c.score \in Int
          BY <3>4, <3>5, <4>1
        <5> QED BY <5>2, <5>3 DEF Before
      <4> QED BY <4>1, <4>2
    <3> QED BY <3>7, <3>8
  <2> QED BY <1>5, <2>1, <2>2, <2>3 DEF CapsReachedAreCritical
<1> QED BY <1>12, <1>13

\* Nothing was spent before the time zero.
Unchecked == alerts = NoCheck

LEMMA NoCheckCaps == RowsInv /\ Unchecked => CapsReachedAreCritical
<1> SUFFICES ASSUME RowsInv, alerts = NoCheck, NEW repo \in Repo,
                    SpentBefore(repo, 0) >= CapUsd[repo]
             PROVE  FALSE
  BY DEF CapsReachedAreCritical, NoCheck, Unchecked
<1>1. {row \in Ledger : row.repo = repo /\ row.committed < 0 /\ row.at >= PeriodStart(0)} = {}
  BY LedgerType
<1>2. SpentBefore(repo, 0) = 0
  BY <1>1, FS_EmptySet DEF SpentBefore
<1> QED BY <1>2, ReportsAssumption

LEMMA NextAlerts ==
  /\ RowsInv /\ RowsInv' /\ now \in 0..MaxTime /\ LedgerGrows /\ ReaderInv /\ [Next]_vars
  => \/ /\ AlertsInv'
        /\ PeriodDays <= LookbackDays + 1 => CapsReachedAreCritical'
     \/ UNCHANGED vars
<1> SUFFICES ASSUME RowsInv, RowsInv', now \in 0..MaxTime, LedgerGrows, ReaderInv, Next,
                    ~FinishCheck
             PROVE  AlertsInv' /\ CapsReachedAreCritical'
  BY CheckMade
<1>1. alerts' = NoCheck
  BY DEF Next, BeginWrite, CommitWrite, ReadPage, ReadFails, AskCached, Ask, FinishAnswer,
         RestartServer, StartCheck, Tick, Quiet
<1>2. RowsInv' /\ Unchecked' => CapsReachedAreCritical'
  BY NoCheckCaps, PTL
<1> QED BY <1>1, <1>2 DEF AlertsInv, Unchecked

-----------------------------------------------------------------------------
(* The theorems.                                                           *)

LEMMA InitReports == Init => ReportsInv
BY InitRows, InitReader, InitCache DEF ReportsInv

LEMMA NextReports == ReportsInv /\ [Next]_vars => ReportsInv'
<1> SUFFICES ASSUME ReportsInv, [Next]_vars PROVE ReportsInv'
  OBVIOUS
<1>1. RowsInv' /\ now' \in 0..MaxTime /\ now <= now' /\ LedgerGrows
  BY NextRows DEF ReportsInv
<1>2. ReaderInv'
  BY <1>1, NextReader DEF ReportsInv
<1>3. CacheInv' /\ (ServedInv' \/ UNCHANGED vars)
  BY <1>1, NextCache DEF ReportsInv
<1>4. AlertsInv' \/ UNCHANGED vars
  BY <1>1, NextAlerts DEF ReportsInv
<1>5. CASE ~UNCHANGED vars
  BY <1>1, <1>2, <1>3, <1>4, <1>5 DEF ReportsInv
<1>6. CASE UNCHANGED vars
  <2>1. served' = served /\ alerts' = alerts /\ Ledger' = Ledger
    BY <1>6 DEF vars, Ledger
  <2>2. ServedInv'
    <3>1. PICK a : a = served.answer
      OBVIOUS
    <3>2. AnswerInv(a) => AnswerInv(a)'
      BY <1>1, AnswerStays DEF ReportsInv
    <3> QED BY <2>1, <3>1, <3>2 DEF ReportsInv, ServedInv, AnswerInv, Reading, Tied
  <2>3. AlertsInv'
    BY <2>1 DEF ReportsInv, AlertsInv, Reading, Tied
  <2> QED BY <1>1, <1>2, <1>3, <2>2, <2>3 DEF ReportsInv
<1> QED BY <1>5, <1>6

THEOREM ReportsInductive == Spec => []ReportsInv
<1>1. Init => ReportsInv
  BY InitReports
<1>2. ReportsInv /\ [Next]_vars => ReportsInv'
  BY NextReports
<1> QED BY <1>1, <1>2, PTL DEF Spec

\* The rows, what is being read, the cache, an answer and a check have their
\* types, the cache keeps to its limit and a reading to settings.maxEvents.
THEOREM ReportTypes == Spec => []TypeOK
<1>1. ReportsInv => TypeOK
  <2> SUFFICES ASSUME ReportsInv PROVE TypeOK
    OBVIOUS
  <2>1. \A p \in Process : /\ Len(reader[p].events) < MaxEvents
                           /\ \A i \in DOMAIN reader[p].events : reader[p].events[i] \in Row
    <3> SUFFICES ASSUME NEW p \in Process
                 PROVE  /\ Len(reader[p].events) < MaxEvents
                        /\ \A i \in DOMAIN reader[p].events : reader[p].events[i] \in Row
      OBVIOUS
    <3>1. reader[p].events \in Seq(Row) /\ Len(reader[p].events) < MaxEvents
      BY DEF ReportsInv, ReaderInv, ReaderOK, ReaderType
    <3> QED BY <3>1, RowsRead
  <2>2. /\ \A i \in DOMAIN cache : cache[i].answer \in Answer
        /\ Len(cache) <= MaxEntries
    <3>1. cache \in Seq(Entry) /\ Len(cache) <= MaxEntries
          /\ \A i \in 1..Len(cache) : cache[i].answer \in Answer
      BY DEF ReportsInv, CacheInv, EntryInv, AnswerInv
    <3>2. DOMAIN cache = 1..Len(cache)
      BY <3>1, LenProperties
    <3> QED BY <3>1, <3>2
  <2>3. served.answer \in Answer \cup {NoAnswer} /\ served.at \in 0..MaxTime
    BY ReportsAssumption DEF ReportsInv, ServedInv, AnswerInv, NotServed
  <2>4. Cardinality(alerts.reported) <= MaxAlerts /\ Len(alerts.events) <= MaxEvents
    <3>1. Cardinality({}) = 0
      BY FS_EmptySet
    <3>2. CASE alerts = NoCheck
      BY <3>1, <3>2, ReportsAssumption DEF NoCheck
    <3> QED BY <3>2 DEF ReportsInv, AlertsInv
  <2> QED BY <2>1, <2>2, <2>3, <2>4 DEF TypeOK, ReportsInv, RowsInv
<1> QED BY <1>1, ReportsInductive, PTL

\* An answer, be it read or cached, is of the route that was asked and for a
\* range the query names, and a public one names public repositories only,
\* although the key of the cache does not keep the order of the query.
THEOREM AnswersMatch == Spec => []AnswersFitTheQuestion
<1>1. ReportsInv => AnswersFitTheQuestion
  <2> SUFFICES ASSUME ReportsInv, served.answer # NoAnswer
               PROVE  /\ served.answer.question.visibility = served.asked.visibility
                      /\ RangeDays(served.answer.question) \in Range(served.asked.days)
                      /\ served.asked.visibility = "public" =>
                             served.answer.names \subseteq PublicRepos
    BY DEF AnswersFitTheQuestion
  <2>1. /\ AnswerInv(served.answer) /\ served.asked \in Question
        /\ KeyOf(served.asked) = KeyOf(served.answer.question)
    BY DEF ReportsInv, ServedInv, NotServed
  <2>2. served.answer.question \in Question
    BY <2>1 DEF AnswerInv, Answer
  <2>3. /\ served.asked.visibility = served.answer.question.visibility
        /\ Range(served.asked.days) = Range(served.answer.question.days)
    BY <2>1, <2>2, SameKey
  <2>4. RangeDays(served.answer.question) \in Range(served.asked.days)
    BY <2>2, <2>3, RangeType
  <2> QED BY <2>1, <2>3, <2>4 DEF AnswerInv
<1> QED BY <1>1, ReportsInductive, PTL

LEMMA NothingCounted == \A id : Counts(<<>>, id) = 0
<1>1. \A id : {i \in DOMAIN <<>> : <<>>[i] = id} = {}
  OBVIOUS
<1> QED BY <1>1, FS_EmptySet DEF Counts

\* No event is counted twice, whatever is inserted between two pages.
THEOREM NoEventTwice == Spec => []EventsAreCountedOnce
<1>1. ReportsInv => EventsAreCountedOnce
  <2> SUFFICES ASSUME ReportsInv, NEW read \in {served.answer, alerts}, ~read.raced,
                      NEW row \in Ledger, ~Tied(row)
               PROVE  Counts(read.events, row.id) <= 1
    BY DEF EventsAreCountedOnce
  <2>1. CASE read.events = <<>>
    BY <2>1, NothingCounted
  <2>2. CASE read.events # <<>>
    <3>1. NotServed.answer.events = <<>> /\ NoCheck.events = <<>>
      BY DEF NotServed, NoAnswer, NoCheck
    <3>2. \E from, to : Reading(read.events, from, to, read.raced)
      <4>1. CASE read = served.answer
        BY <2>2, <3>1, <4>1 DEF ReportsInv, ServedInv, AnswerInv
      <4>2. CASE read = alerts
        BY <2>2, <3>1, <4>2 DEF ReportsInv, AlertsInv
      <4> QED BY <4>1, <4>2
    <3> QED BY <3>2 DEF Reading
  <2> QED BY <2>1, <2>2
<1> QED BY <1>1, ReportsInductive, PTL

\* An event committed longer ago than an answer may be old is in the answer.
THEOREM NoEventHidden == Spec => []OldEventsAreCounted
<1>1. ReportsInv => OldEventsAreCounted
  <2> SUFFICES ASSUME ReportsInv, served.answer # NoAnswer,
                      Len(served.answer.events) < MaxEvents,
                      NEW row \in Ledger,
                      \A days \in Range(served.asked.days) : row.at >= served.at - days,
                      row.committed + (TtlMs + (served.answer.loaded - served.answer.to))
                        < served.at,
                      ~Tied(row)
               PROVE  Counts(served.answer.events, row.id) >= 1
    BY DEF OldEventsAreCounted
  <2>1. PICK a : a = served.answer
    OBVIOUS
  <2>2. /\ AnswerInv(a) /\ served.asked \in Question /\ KeyOf(served.asked) = KeyOf(a.question)
        /\ served.at \in 0..MaxTime
        /\ a.to <= served.at /\ served.at <= a.loaded + TtlMs
    BY <2>1 DEF ReportsInv, ServedInv, NotServed
  <2>3. /\ a.to \in Int /\ a.loaded \in Int /\ TtlMs \in Int /\ RangeDays(a.question) \in Int
        /\ served.at \in Int
    <3>1. a \in Answer
      BY <2>2 DEF AnswerInv
    <3>2. a.to \in 0..MaxTime /\ a.loaded \in 0..MaxTime /\ a.question \in Question
      BY <3>1 DEF Answer
    <3>4. MaxTime \in Nat /\ TtlMs \in Nat
      BY ReportsAssumption
    <3>5. \A t \in 0..MaxTime : t \in Int
      BY <3>4
    <3>6. RangeDays(a.question) \in Int
      BY <3>2, RangeType
    <3> QED BY <2>2, <3>2, <3>4, <3>5, <3>6
  <2>4. row.at \in Int /\ row.committed \in Int
    BY LedgerType DEF ReportsInv
  <2>5. row.committed < a.to
    BY <2>1, <2>2, <2>3, <2>4
  <2>6. row.at >= a.to - RangeDays(a.question)
    <3>1. a.question \in Question
      BY <2>2 DEF AnswerInv, Answer
    <3>2. RangeDays(a.question) \in Range(served.asked.days)
      BY <2>2, <3>1, SameKey, RangeType
    <3> QED BY <2>2, <2>3, <2>4, <3>2
  <2> QED BY <2>1, <2>2, <2>5, <2>6 DEF AnswerInv, Reading
<1> QED BY <1>1, ReportsInductive, PTL

\* A cap that admission would find reached is reported, or dropped for alerts
\* that are critical too, when the check looks back over the whole period.  The default does; without the assumption a
\* check that looks back over less misses what was spent before.
THEOREM CapsAlert ==
  ASSUME PeriodDays <= LookbackDays + 1
  PROVE  Spec => []CapsReachedAreCritical
<1>1. Init => CapsReachedAreCritical
  <2>1. Init => RowsInv /\ Unchecked
    BY InitRows DEF Init, Unchecked
  <2> QED BY <2>1, NoCheckCaps
<1>2. /\ ReportsInv /\ ReportsInv' /\ CapsReachedAreCritical /\ [Next]_vars
      => CapsReachedAreCritical'
  <2> SUFFICES ASSUME ReportsInv, ReportsInv', CapsReachedAreCritical, [Next]_vars
               PROVE  CapsReachedAreCritical'
    OBVIOUS
  <2>1. LedgerGrows
    BY NextRows DEF ReportsInv
  <2>2. CapsReachedAreCritical' \/ UNCHANGED vars
    BY <2>1, NextAlerts DEF ReportsInv
  <2>3. CASE UNCHANGED vars
    <3>1. alerts' = alerts /\ Ledger' = Ledger
      BY <2>3 DEF vars, Ledger
    <3> QED BY <3>1 DEF CapsReachedAreCritical, SpentBefore, Tied
  <2> QED BY <2>2, <2>3
<1> QED BY <1>1, <1>2, ReportsInductive, PTL DEF Spec
=============================================================================
