-------------------------- MODULE GraphServeProofs --------------------------
(***************************************************************************)
(* Theorems about GraphServe, for any graphs, requests, page sizes and     *)
(* numbers of replacements.                                                *)
(***************************************************************************)
EXTENDS GraphServe, FiniteSetTheorems, WellFoundedInduction, NaturalsInduction, TLAPS

-----------------------------------------------------------------------------
(* Natural numbers: the least of a set, and induction over a set.          *)

Less == {p \in Nat \X Nat : p[1] < p[2]}

LEMMA LeastNatural ==
  ASSUME NEW S \in SUBSET Nat, S # {}
  PROVE  \E m \in S : \A k \in S : m <= k
<1>1. IsWellFoundedOn(OpToRel(<, Nat), Nat)
  BY NatLessThanWellFounded
<1>2. Less = OpToRel(<, Nat)
  BY DEF Less, OpToRel
<1>3. PICK x \in S : \A y \in S : ~(<<y, x>> \in Less)
  BY <1>1, <1>2, WFMin
<1>4. \A y \in S : <<y, x>>[1] = y /\ <<y, x>>[2] = x
  OBVIOUS
<1>5. \A y \in S : ~(y < x)
  BY <1>3, <1>4 DEF Less
<1> QED
  BY <1>5

LEMMA MinOfNaturals ==
  ASSUME NEW S \in SUBSET Nat, S # {}
  PROVE  Min(S) \in S /\ \A k \in S : Min(S) <= k
BY LeastNatural DEF Min

LEMMA Induction ==
  ASSUME NEW S \in SUBSET Nat, 0 \in S, \A n \in S : n + 1 \in S
  PROVE  S = Nat
<1> SUFFICES ASSUME Nat \ S # {} PROVE FALSE
  OBVIOUS
<1>1. PICK x \in Nat \ S : \A y \in Nat \ S : x <= y
  BY LeastNatural
<1>2. x # 0 /\ x - 1 \in Nat
  BY <1>1
<1>3. x - 1 \in S
  BY <1>1, <1>2
<1> QED
  BY <1>1, <1>2, <1>3

\* What a step does again and again from a start.
Chain(start, step, n, f) ==
  /\ f[0] = start
  /\ \A k \in 0 .. n - 1 : f[k + 1] = step[f[k]]

LEMMA ChainGrows ==
  ASSUME NEW S, NEW start \in S, NEW step \in [S -> S], NEW n \in Nat
  PROVE  \E f \in [0 .. n -> S] : Chain(start, step, n, f)
<1> DEFINE chained == {m \in Nat : \E f \in [0 .. m -> S] : Chain(start, step, m, f)}
<1>1. 0 \in chained
  <2> DEFINE f == [k \in 0 .. 0 |-> start]
  <2>1. f \in [0 .. 0 -> S] /\ Chain(start, step, 0, f)
    BY DEF Chain
  <2> QED
    BY <2>1
<1>2. ASSUME NEW m \in chained PROVE m + 1 \in chained
  <2>1. m \in Nat
    OBVIOUS
  <2>2. PICK f \in [0 .. m -> S] : Chain(start, step, m, f)
    OBVIOUS
  <2> DEFINE h == [k \in 0 .. m + 1 |-> IF k <= m THEN f[k] ELSE step[f[m]]]
  <2>3. h \in [0 .. m + 1 -> S]
    BY <2>1
  <2>4. h[0] = start
    BY <2>1, <2>2 DEF Chain
  <2>5. \A k \in 0 .. m : h[k + 1] = step[h[k]]
    <3> TAKE k \in 0 .. m
    <3>1. k \in Nat /\ k <= m /\ h[k] = f[k]
      BY <2>1
    <3>2. CASE k = m
      <4>1. k + 1 \in 0 .. m + 1 /\ ~(k + 1 <= m)
        BY <2>1, <3>2
      <4> QED
        BY <3>1, <3>2, <4>1
    <3>3. CASE k # m
      <4>1. k + 1 \in 0 .. m + 1 /\ k + 1 <= m /\ k \in 0 .. m - 1
        BY <2>1, <3>1, <3>3
      <4> QED
        BY <2>2, <3>1, <4>1 DEF Chain
    <3> QED
      BY <3>2, <3>3
  <2> HIDE DEF h
  <2>6. Chain(start, step, m + 1, h)
    BY <2>1, <2>4, <2>5 DEF Chain
  <2> QED
    BY <2>1, <2>3, <2>6
<1>3. chained = Nat
  BY <1>1, <1>2, Induction
<1> QED
  BY <1>3

LEMMA ChainsAgree ==
  ASSUME NEW start, NEW step, NEW m \in Nat, NEW n \in Nat, NEW f, NEW h,
         Chain(start, step, m, f), Chain(start, step, n, h)
  PROVE  \A k \in Nat : k <= m /\ k <= n => f[k] = h[k]
<1> DEFINE same == {k \in Nat : k <= m /\ k <= n => f[k] = h[k]}
<1>1. 0 \in same
  BY DEF Chain
<1>2. ASSUME NEW k \in same PROVE k + 1 \in same
  <2> SUFFICES ASSUME k + 1 <= m, k + 1 <= n PROVE f[k + 1] = h[k + 1]
    OBVIOUS
  <2>1. k \in Nat /\ k \in 0 .. m - 1 /\ k \in 0 .. n - 1
    OBVIOUS
  <2>2. f[k] = h[k]
    BY <2>1
  <2>3. f[k + 1] = step[f[k]] /\ h[k + 1] = step[h[k]]
    BY <2>1 DEF Chain
  <2> QED
    BY <2>2, <2>3
<1>3. same = Nat
  BY <1>1, <1>2, Induction
<1> QED
  BY <1>3

LEMMA Iterates ==
  ASSUME NEW S, NEW start \in S, NEW step \in [S -> S]
  PROVE  \E f \in [Nat -> S] : f[0] = start /\ \A n \in Nat : f[n + 1] = step[f[n]]
<1> DEFINE pick == [n \in Nat |-> CHOOSE f \in [0 .. n -> S] : Chain(start, step, n, f)]
           whole == [n \in Nat |-> pick[n][n]]
<1>1. \A n \in Nat : pick[n] \in [0 .. n -> S] /\ Chain(start, step, n, pick[n])
  BY ChainGrows
<1> HIDE DEF pick
<1>2. \A n \in Nat : whole[n] \in S
  BY <1>1
<1>3. whole[0] = start
  BY <1>1 DEF Chain
<1>4. \A n \in Nat : whole[n + 1] = step[whole[n]]
  <2> TAKE n \in Nat
  <2>1. n + 1 \in Nat /\ n <= n + 1 /\ n \in 0 .. (n + 1) - 1
    OBVIOUS
  <2>2. whole[n + 1] = pick[n + 1][n + 1] /\ whole[n] = pick[n][n]
    BY <2>1
  <2>3. pick[n][n] = pick[n + 1][n]
    BY <1>1, <2>1, ChainsAgree
  <2>4. pick[n + 1][n + 1] = step[pick[n + 1][n]]
    BY <1>1, <2>1 DEF Chain
  <2> QED
    BY <2>2, <2>3, <2>4
<1>5. whole \in [Nat -> S]
  BY <1>2
<1> QED
  BY <1>3, <1>4, <1>5

-----------------------------------------------------------------------------
(* The order of keys, and the list of a set of rows with a key each.       *)

Key(n) == [1 .. n -> Nat]

LEMMA KeyNotEmpty ==
  ASSUME NEW n \in Nat \ {0}, NEW a \in Key(n)
  PROVE  a # <<>>
<1>1. DOMAIN <<>> = {}
  OBVIOUS
<1>2. 1 \in DOMAIN a
  BY DEF Key
<1> QED
  BY <1>1, <1>2

LEMMA NotBeforeItself ==
  ASSUME NEW n \in Nat, NEW a \in Key(n)
  PROVE  ~Before(a, a)
BY DEF Before, Key

LEMMA BeforeTransitive ==
  ASSUME NEW n \in Nat, NEW a \in Key(n), NEW b \in Key(n), NEW c \in Key(n),
         Before(a, b), Before(b, c)
  PROVE  Before(a, c)
<1>1. PICK i \in 1 .. n : a[i] < b[i] /\ \A j \in 1 .. i - 1 : a[j] = b[j]
  BY DEF Before, Key
<1>2. PICK k \in 1 .. n : b[k] < c[k] /\ \A j \in 1 .. k - 1 : b[j] = c[j]
  BY DEF Before, Key
<1>3. \A j \in 1 .. n : a[j] \in Nat /\ b[j] \in Nat /\ c[j] \in Nat
  BY DEF Key
<1>4. CASE i <= k
  <2>1. a[i] < c[i]
    BY <1>1, <1>2, <1>3, <1>4
  <2>2. \A j \in 1 .. i - 1 : a[j] = c[j]
    BY <1>1, <1>2, <1>4
  <2> QED
    BY <2>1, <2>2 DEF Before, Key
<1>5. CASE k < i
  <2>1. a[k] < c[k]
    BY <1>1, <1>2, <1>3, <1>5
  <2>2. \A j \in 1 .. k - 1 : a[j] = c[j]
    BY <1>1, <1>2, <1>5
  <2> QED
    BY <2>1, <2>2 DEF Before, Key
<1> QED
  BY <1>4, <1>5

LEMMA BeforeTotal ==
  ASSUME NEW n \in Nat, NEW a \in Key(n), NEW b \in Key(n), a # b
  PROVE  Before(a, b) \/ Before(b, a)
<1> DEFINE Differ == {k \in 1 .. n : a[k] # b[k]}
<1>1. Differ # {} /\ Differ \in SUBSET Nat
  BY DEF Key
<1>2. PICK k \in Differ : \A j \in Differ : k <= j
  BY <1>1, LeastNatural
<1>3. \A j \in 1 .. k - 1 : a[j] = b[j]
  BY <1>2
<1>4. a[k] \in Nat /\ b[k] \in Nat /\ a[k] # b[k] /\ k \in 1 .. n
  BY <1>2 DEF Key
<1>5. a[k] < b[k] \/ b[k] < a[k]
  BY <1>4
<1> QED
  BY <1>3, <1>4, <1>5 DEF Before, Key

\* Rows with keys of one length, each of its own.
Keyed(rows, n) ==
  /\ n \in Nat \ {0}
  /\ IsFiniteSet(rows)
  /\ \A r \in rows : r.key \in Key(n)
  /\ \A r, s \in rows : r.key = s.key => r = s

Preceding(rows, key) == {s \in rows : Before(s.key, key)}
Rank(rows, key) == Cardinality(Preceding(rows, key))

LEMMA SomeKeyed ==
  ASSUME NEW rows, NEW n, Keyed(rows, n), NEW some \in SUBSET rows
  PROVE  Keyed(some, n)
BY FS_Subset DEF Keyed

LEMMA RankOf ==
  ASSUME NEW rows, NEW n, Keyed(rows, n), NEW r \in rows
  PROVE  /\ Rank(rows, r.key) \in 0 .. Cardinality(rows) - 1
         /\ \A s \in rows : Before(s.key, r.key) => Rank(rows, s.key) < Rank(rows, r.key)
         /\ \A s \in rows : Rank(rows, s.key) = Rank(rows, r.key) => s = r
<1>1. \A s \in rows : /\ IsFiniteSet(Preceding(rows, s.key))
                      /\ Rank(rows, s.key) \in Nat
                      /\ s \notin Preceding(rows, s.key)
  BY FS_Subset, FS_CardinalityType, NotBeforeItself DEF Keyed, Preceding, Rank
<1>2. \A s, t \in rows : Before(s.key, t.key) => Rank(rows, s.key) < Rank(rows, t.key)
  <2> SUFFICES ASSUME NEW s \in rows, NEW t \in rows, Before(s.key, t.key)
               PROVE  Rank(rows, s.key) < Rank(rows, t.key)
    OBVIOUS
  <2>1. Preceding(rows, s.key) \cup {s} \subseteq Preceding(rows, t.key)
    BY BeforeTransitive DEF Keyed, Preceding
  <2>2. Cardinality(Preceding(rows, s.key) \cup {s}) = Rank(rows, s.key) + 1
    BY <1>1, FS_AddElement DEF Rank
  <2>3. Cardinality(Preceding(rows, s.key) \cup {s}) <= Rank(rows, t.key)
    BY <1>1, <2>1, FS_Subset DEF Rank
  <2> QED
    BY <1>1, <2>2, <2>3
<1>3. Rank(rows, r.key) < Cardinality(rows)
  <2>1. Preceding(rows, r.key) \cup {r} \subseteq rows
    BY DEF Preceding
  <2>2. Cardinality(Preceding(rows, r.key) \cup {r}) = Rank(rows, r.key) + 1
    BY <1>1, FS_AddElement DEF Rank
  <2>3. Cardinality(Preceding(rows, r.key) \cup {r}) <= Cardinality(rows)
    BY <2>1, FS_Subset DEF Keyed
  <2>4. Cardinality(rows) \in Nat
    BY FS_CardinalityType DEF Keyed
  <2> QED
    BY <1>1, <2>2, <2>3, <2>4
<1>4. \A s \in rows : Rank(rows, s.key) = Rank(rows, r.key) => s = r
  <2> SUFFICES ASSUME NEW s \in rows, s # r PROVE Rank(rows, s.key) # Rank(rows, r.key)
    OBVIOUS
  <2>1. Before(s.key, r.key) \/ Before(r.key, s.key)
    BY BeforeTotal DEF Keyed
  <2> QED
    BY <1>1, <1>2, <2>1
<1>5. Cardinality(rows) \in Nat
  BY FS_CardinalityType DEF Keyed
<1> QED
  BY <1>1, <1>2, <1>3, <1>4, <1>5

\* The list of a set of rows: the k-th has k - 1 before it.
LEMMA ByKeyLists ==
  ASSUME NEW rows, NEW n, Keyed(rows, n)
  PROVE  /\ Cardinality(rows) \in Nat
         /\ ByKey(rows) \in [1 .. Cardinality(rows) -> rows]
         /\ Len(ByKey(rows)) = Cardinality(rows)
         /\ \A k \in 1 .. Cardinality(rows) : Rank(rows, ByKey(rows)[k].key) = k - 1
         /\ \A r \in rows : r = ByKey(rows)[Rank(rows, r.key) + 1]
<1> DEFINE N == Cardinality(rows)
           rank == [r \in rows |-> Rank(rows, r.key)]
           ranks == {rank[r] : r \in rows}
<1>1. N \in Nat /\ IsFiniteSet(rows)
  BY FS_CardinalityType DEF Keyed
<1>2. \A r, s \in rows : rank[r] = rank[s] => r = s
  BY RankOf
<1>3. rank \in [rows -> 0 .. N - 1]
  BY RankOf
<1>4. rank \in Injection(rows, 0 .. N - 1)
  BY <1>2, <1>3 DEF Injection, IsInjective
<1>5. IsFiniteSet(0 .. N - 1) /\ Cardinality(0 .. N - 1) = N
  BY <1>1, FS_Interval
<1>6. rank \in Surjection(rows, 0 .. N - 1)
  BY <1>4, <1>5, <1>1, FS_Injection DEF Bijection
<1>8. ByKey(rows) = [k \in 1 .. N |-> CHOOSE r \in rows : rank[r] = k - 1]
  BY DEF ByKey, Rank, Preceding
<1> HIDE DEF rank, N
<1>7. \A k \in 1 .. N : \E r \in rows : rank[r] = k - 1
  <2> TAKE k \in 1 .. N
  <2>1. k - 1 \in 0 .. N - 1
    BY <1>1
  <2> QED
    BY <1>6, <2>1 DEF Surjection
<1>9. \A k \in 1 .. N : ByKey(rows)[k] \in rows /\ rank[ByKey(rows)[k]] = k - 1
  BY <1>7, <1>8
<1>10. Len(ByKey(rows)) = N
  BY <1>1, <1>8
<1>11. \A r \in rows : rank[r] = Rank(rows, r.key)
  BY DEF rank
<1>12. \A r \in rows : r = ByKey(rows)[rank[r] + 1]
  <2> TAKE r \in rows
  <2>1. rank[r] + 1 \in 1 .. N /\ (rank[r] + 1) - 1 = rank[r]
    BY <1>1, <1>3
  <2> QED
    BY <1>2, <1>9, <2>1
<1>13. ByKey(rows) \in [1 .. N -> rows]
  BY <1>8, <1>9
<1> QED
  BY <1>1, <1>9, <1>10, <1>11, <1>12, <1>13 DEF N

LEMMA ByKeyAscends ==
  ASSUME NEW rows, NEW n, Keyed(rows, n),
         NEW i \in 1 .. Cardinality(rows), NEW j \in 1 .. Cardinality(rows), i < j
  PROVE  Before(ByKey(rows)[i].key, ByKey(rows)[j].key)
<1> DEFINE r == ByKey(rows)[i]
           s == ByKey(rows)[j]
<1>1. r \in rows /\ s \in rows /\ Rank(rows, r.key) < Rank(rows, s.key)
  BY ByKeyLists
<1>2. r.key # s.key
  <2>1. Rank(rows, r.key) \in 0 .. Cardinality(rows) - 1
    BY <1>1, RankOf
  <2> QED
    BY <1>1, <2>1
<1>3. ~Before(s.key, r.key)
  BY <1>1, RankOf
<1>4. r.key \in Key(n) /\ s.key \in Key(n) /\ n \in Nat
  BY <1>1 DEF Keyed
<1> QED
  BY <1>2, <1>3, <1>4, BeforeTotal

\* What comes after the m-th row is the list from the next one on.
LEMMA ByKeyAfter ==
  ASSUME NEW rows, NEW n, Keyed(rows, n), NEW m \in 1 .. Cardinality(rows)
  PROVE  LET rest == After(rows, ByKey(rows)[m].key)
         IN  /\ Keyed(rest, n)
             /\ Cardinality(rest) = Cardinality(rows) - m
             /\ \A k \in 1 .. Cardinality(rows) - m : ByKey(rest)[k] = ByKey(rows)[m + k]
<1> DEFINE N == Cardinality(rows)
           c == ByKey(rows)[m]
           rest == After(rows, c.key)
<1>1. /\ N \in Nat
      /\ c \in rows
      /\ Rank(rows, c.key) = m - 1
      /\ c.key \in Key(n)
      /\ n \in Nat \ {0}
      /\ IsFiniteSet(rows)
  BY ByKeyLists DEF Keyed
<1>2. m >= 1 /\ m <= N /\ m \in Nat
  BY <1>1
<1>3. rest = {r \in rows : Before(c.key, r.key)}
  <2>1. c.key # <<>>
    BY <1>1, KeyNotEmpty DEF Keyed
  <2> QED
    BY <2>1 DEF After
<1>4. Keyed(rest, n)
  BY <1>3, SomeKeyed
<1> DEFINE upTo == Preceding(rows, c.key) \cup {c}
<1>5. \A r \in rows : r \in upTo <=> r \notin rest
  <2> TAKE r \in rows
  <2>1. r.key \in Key(n)
    BY DEF Keyed
  <2>2. r \in rest => r \notin upTo
    BY <1>1, <1>3, <2>1, NotBeforeItself, BeforeTransitive DEF Preceding
  <2>3. r \notin rest => r \in upTo
    BY <1>1, <1>3, <2>1, BeforeTotal DEF Preceding, Keyed
  <2> QED
    BY <2>2, <2>3
<1>6. IsFiniteSet(upTo) /\ Cardinality(upTo) = m /\ upTo \subseteq rows
  <2>1. IsFiniteSet(Preceding(rows, c.key)) /\ c \notin Preceding(rows, c.key)
    BY <1>1, FS_Subset, NotBeforeItself DEF Preceding
  <2>2. Cardinality(upTo) = (m - 1) + 1 /\ IsFiniteSet(upTo)
    BY <1>1, <2>1, FS_AddElement DEF Rank
  <2> QED
    BY <1>1, <2>2 DEF Preceding
<1>7. IsFiniteSet(rest) /\ rest \subseteq rows /\ Cardinality(rest) \in Nat
  BY <1>3, <1>4, FS_CardinalityType DEF Keyed
<1> HIDE DEF upTo, rest, c
<1>8. Cardinality(rest) = N - m
  <2>1. rows = upTo \cup rest /\ upTo \cap rest = {}
    BY <1>5, <1>6, <1>7
  <2>2. Cardinality(rows) = Cardinality(upTo) + Cardinality(rest) - Cardinality({})
    BY <1>6, <1>7, <2>1, FS_Union
  <2>3. Cardinality({}) = 0
    BY FS_EmptySet
  <2> QED
    BY <1>1, <1>6, <1>7, <2>2, <2>3
<1>9. \A r \in rest : Rank(rows, r.key) = m + Rank(rest, r.key)
  <2> TAKE r \in rest
  <2>1. r \in rows /\ r.key \in Key(n) /\ Before(c.key, r.key)
    BY <1>3, <1>7 DEF Keyed
  <2>2. upTo \subseteq Preceding(rows, r.key)
    BY <1>1, <2>1, BeforeTransitive DEF upTo, Preceding, Keyed
  <2>3. Preceding(rows, r.key) = upTo \cup Preceding(rest, r.key)
    BY <1>5, <1>7, <2>2 DEF Preceding
  <2>4. upTo \cap Preceding(rest, r.key) = {}
    BY <1>5, <1>7 DEF Preceding
  <2>5. IsFiniteSet(Preceding(rest, r.key)) /\ Rank(rest, r.key) \in Nat
    BY <1>7, FS_Subset, FS_CardinalityType DEF Preceding, Rank
  <2>6. Rank(rows, r.key) = Cardinality(upTo) + Rank(rest, r.key) - Cardinality({})
    BY <1>6, <2>3, <2>4, <2>5, FS_Union DEF Rank
  <2>7. Cardinality({}) = 0
    BY FS_EmptySet
  <2> QED
    BY <1>1, <1>6, <2>5, <2>6, <2>7
<1>10. \A k \in 1 .. N - m : ByKey(rest)[k] = ByKey(rows)[m + k]
  <2> TAKE k \in 1 .. N - m
  <2> DEFINE r == ByKey(rest)[k]
  <2>1. r \in rest /\ Rank(rest, r.key) = k - 1
    BY <1>4, <1>8, ByKeyLists
  <2>2. Rank(rows, r.key) = m + k - 1
    BY <1>2, <1>9, <2>1
  <2>3. r = ByKey(rows)[(m + k - 1) + 1]
    BY <1>7, <2>1, <2>2, ByKeyLists
  <2>4. (m + k - 1) + 1 = m + k
    BY <1>2
  <2> QED
    BY <2>3, <2>4
<1> QED
  BY <1>4, <1>8, <1>10 DEF rest, c

-----------------------------------------------------------------------------
(* Pages.                                                                  *)

LEMMA MinOfTwo ==
  ASSUME NEW a \in Nat, NEW b \in Nat
  PROVE  Min({a, b}) = IF a <= b THEN a ELSE b
<1>1. {a, b} \in SUBSET Nat /\ {a, b} # {}
  OBVIOUS
<1>2. Min({a, b}) \in {a, b} /\ \A k \in {a, b} : Min({a, b}) <= k
  BY <1>1, MinOfNaturals
<1> QED
  BY <1>2

LEMMA FirstOfProperties ==
  ASSUME NEW S, NEW s \in Seq(S), NEW n \in Nat
  PROVE  /\ FirstOf(s, n) \in Seq(S)
         /\ Len(FirstOf(s, n)) = IF n <= Len(s) THEN n ELSE Len(s)
         /\ \A k \in 1 .. Len(FirstOf(s, n)) : FirstOf(s, n)[k] = s[k]
<1> DEFINE m == IF n <= Len(s) THEN n ELSE Len(s)
<1>1. FirstOf(s, n) = SubSeq(s, 1, m) /\ m \in Nat /\ m <= Len(s)
  BY MinOfTwo DEF FirstOf
<1> HIDE DEF m
<1>2. SubSeq(s, 1, m) \in Seq(S) /\ Len(SubSeq(s, 1, m)) = m
  BY <1>1
<1>3. \A k \in 1 .. m : SubSeq(s, 1, m)[k] = s[k]
  BY <1>1
<1> QED
  BY <1>1, <1>2, <1>3 DEF m

\* A page of a list after a cursor: the first rows after it, and where the
\* next page starts.
Is(row, was) == row.key = was.key /\ row.item = was.item
PageOf(items, next, rows, cursor, limit) ==
  LET list == ByKey(After(rows, cursor))
  IN  /\ items \in [1 .. Len(items) -> {items[k] : k \in 1 .. Len(items)}]
      /\ Len(items) = IF limit <= Len(list) THEN limit ELSE Len(list)
      /\ \A k \in 1 .. Len(items) : Is(items[k], list[k])
      /\ next = IF Len(list) <= limit THEN <<>> ELSE list[limit].key

LEMMA ListAfter ==
  ASSUME NEW rows, NEW n, Keyed(rows, n), NEW cursor
  PROVE  /\ Keyed(After(rows, cursor), n)
         /\ ByKey(After(rows, cursor)) \in Seq(rows)
<1>1. After(rows, cursor) \in SUBSET rows
  BY DEF After
<1>2. Keyed(After(rows, cursor), n)
  BY <1>1, SomeKeyed
<1> HIDE DEF After
<1>3. ByKey(After(rows, cursor)) \in [1 .. Cardinality(After(rows, cursor)) -> rows]
  BY <1>1, <1>2, ByKeyLists
<1>4. Cardinality(After(rows, cursor)) \in Nat
  BY <1>2, ByKeyLists
<1> QED
  BY <1>2, <1>3, <1>4

LEMMA SeqIsFunction ==
  ASSUME NEW S, NEW s \in Seq(S)
  PROVE  s \in [1 .. Len(s) -> {s[k] : k \in 1 .. Len(s)}]
OBVIOUS

\* A page is one row short of what was fetched for it.
LEMMA PageOfFetched ==
  ASSUME NEW rows, NEW n, Keyed(rows, n), NEW cursor, NEW limit \in Nat \ {0},
         NEW S, NEW fetched \in Seq(S),
         Len(fetched) = Len(FirstOf(ByKey(After(rows, cursor)), limit + 1)),
         \A k \in 1 .. Len(fetched) :
            Is(fetched[k], FirstOf(ByKey(After(rows, cursor)), limit + 1)[k])
  PROVE  LET page == BuildPage(fetched, limit)
         IN  /\ PageOf(page.items, page.next, rows, cursor, limit)
             /\ page.items \in Seq(S)
             /\ \A k \in 1 .. Len(page.items) : page.items[k] = fetched[k]
             /\ Len(page.items) <= Len(fetched)
<1> DEFINE list == ByKey(After(rows, cursor))
           page == BuildPage(fetched, limit)
<1>1. list \in Seq(rows) /\ Len(list) \in Nat
  BY ListAfter
<1> HIDE DEF list
<1>2. /\ Len(FirstOf(list, limit + 1)) = IF limit + 1 <= Len(list) THEN limit + 1 ELSE Len(list)
      /\ \A k \in 1 .. Len(FirstOf(list, limit + 1)) : FirstOf(list, limit + 1)[k] = list[k]
  BY <1>1, FirstOfProperties
<1>3. /\ Len(fetched) = IF limit + 1 <= Len(list) THEN limit + 1 ELSE Len(list)
      /\ \A k \in 1 .. Len(fetched) : Is(fetched[k], list[k])
  BY <1>2 DEF list
<1>4. page.items = FirstOf(fetched, limit)
  BY DEF BuildPage
<1>5. page.next = IF Len(fetched) <= limit THEN <<>> ELSE fetched[limit].key
  BY DEF BuildPage
<1> HIDE DEF page
<1>6. /\ page.items \in Seq(S)
      /\ Len(page.items) = IF limit <= Len(fetched) THEN limit ELSE Len(fetched)
      /\ \A k \in 1 .. Len(page.items) : page.items[k] = fetched[k]
  BY <1>4, FirstOfProperties
<1>7. /\ Len(page.items) = IF limit <= Len(list) THEN limit ELSE Len(list)
      /\ Len(page.items) <= Len(fetched)
  BY <1>1, <1>3, <1>6
<1>8. \A k \in 1 .. Len(page.items) : Is(page.items[k], list[k])
  BY <1>3, <1>6, <1>7, <1>1
<1>9. page.next = IF Len(list) <= limit THEN <<>> ELSE list[limit].key
  BY <1>1, <1>3, <1>5 DEF Is
<1>10. page.items \in [1 .. Len(page.items) -> {page.items[k] : k \in 1 .. Len(page.items)}]
  BY <1>6, SeqIsFunction
<1> QED
  BY <1>6, <1>7, <1>8, <1>9, <1>10 DEF PageOf, list, page

AtOrBefore(a, b) == a = b \/ Before(a, b)

\* A page ascends, starts after its cursor and ends where the next one starts.
LEMMA PageAscends ==
  ASSUME NEW rows, NEW n, Keyed(rows, n), NEW cursor, NEW limit \in Nat \ {0},
         NEW items, NEW next, PageOf(items, next, rows, cursor, limit)
  PROVE  /\ Len(items) \in Nat /\ DOMAIN items = 1 .. Len(items)
         /\ \A k \in 1 .. Len(items) : items[k].key \in Key(n)
         /\ \A k \in 1 .. Len(items) : \E r \in rows : Is(items[k], r)
         /\ cursor # <<>> => \A k \in 1 .. Len(items) : Before(cursor, items[k].key)
         /\ \A k, l \in 1 .. Len(items) : k < l => Before(items[k].key, items[l].key)
         /\ next # <<>> => /\ next \in Key(n)
                           /\ Len(items) = limit
                           /\ \A k \in 1 .. Len(items) : AtOrBefore(items[k].key, next)
<1> DEFINE after == After(rows, cursor)
           list == ByKey(after)
<1>1. Keyed(after, n) /\ after \subseteq rows
  BY ListAfter DEF After
<1>2. \A r \in after : r.key \in Key(n) /\ (cursor # <<>> => Before(cursor, r.key))
  BY <1>1 DEF After, Keyed
<1> HIDE DEF after
<1>3. /\ Len(list) \in Nat
      /\ \A k \in 1 .. Len(list) : list[k] \in after
      /\ \A k, l \in 1 .. Len(list) : k < l => Before(list[k].key, list[l].key)
  BY <1>1, ByKeyLists, ByKeyAscends
<1> HIDE DEF list
<1>4. /\ Len(items) = IF limit <= Len(list) THEN limit ELSE Len(list)
      /\ \A k \in 1 .. Len(items) : Is(items[k], list[k])
      /\ next = IF Len(list) <= limit THEN <<>> ELSE list[limit].key
      /\ DOMAIN items = 1 .. Len(items)
  BY DEF PageOf, list, after
<1>5. Len(items) \in Nat /\ \A k \in 1 .. Len(items) : k \in 1 .. Len(list)
  BY <1>3, <1>4
<1>6. \A k \in 1 .. Len(items) : items[k].key = list[k].key /\ list[k] \in after
  BY <1>3, <1>4, <1>5 DEF Is
<1>7. \A k \in 1 .. Len(items) : \E r \in rows : Is(items[k], r)
  BY <1>1, <1>4, <1>6
<1>8. \A k, l \in 1 .. Len(items) : k < l => Before(items[k].key, items[l].key)
  BY <1>3, <1>5, <1>6
<1>9. ASSUME next # <<>>
      PROVE  /\ next \in Key(n)
             /\ Len(items) = limit
             /\ \A k \in 1 .. Len(items) : AtOrBefore(items[k].key, next)
  <2>1. Len(items) = limit /\ next = items[limit].key
    BY <1>3, <1>4, <1>6, <1>9
  <2>2. \A k \in 1 .. Len(items) : k = limit \/ k < limit
    BY <1>5, <2>1
  <2>3. limit \in 1 .. Len(items)
    BY <2>1
  <2> QED
    BY <1>2, <1>6, <1>8, <2>1, <2>2, <2>3 DEF AtOrBefore
<1> QED
  BY <1>2, <1>4, <1>5, <1>6, <1>7, <1>8, <1>9

\* What is left of a list after its first m rows, cut at the limit.
Exact(items, next, all, m, limit) ==
  /\ Len(all) \in Nat
  /\ Len(items) = IF limit <= Len(all) - m THEN limit ELSE Len(all) - m
  /\ \A k \in 1 .. Len(items) : Is(items[k], all[m + k])
  /\ next = IF Len(all) - m <= limit THEN <<>> ELSE all[m + limit].key

\* A page that starts after the m-th row shows the rows from the next on.
LEMMA PageExact ==
  ASSUME NEW rows, NEW n, Keyed(rows, n), NEW cursor, NEW limit \in Nat \ {0},
         NEW items, NEW next, PageOf(items, next, rows, cursor, limit),
         NEW m \in Nat, m <= Len(ByKey(rows)),
         cursor = IF m = 0 THEN <<>> ELSE ByKey(rows)[m].key
  PROVE  Exact(items, next, ByKey(rows), m, limit)
<1> DEFINE all == ByKey(rows)
           list == ByKey(After(rows, cursor))
<1>1. Len(all) = Cardinality(rows) /\ Len(all) \in Nat
  BY ByKeyLists
<1>2. Len(list) = Len(all) - m /\ \A k \in 1 .. Len(list) : list[k] = all[m + k]
  <2>1. CASE m = 0
    <3>1. After(rows, cursor) = rows
      BY <2>1 DEF After
    <3> QED
      BY <1>1, <2>1, <3>1
  <2>2. CASE m # 0
    <3>1. m \in 1 .. Cardinality(rows)
      BY <1>1, <2>2
    <3>2. cursor = ByKey(rows)[m].key
      BY <2>2
    <3>3. /\ Keyed(After(rows, cursor), n)
          /\ Cardinality(After(rows, cursor)) = Cardinality(rows) - m
          /\ \A k \in 1 .. Cardinality(rows) - m : list[k] = all[m + k]
      BY <3>1, <3>2, ByKeyAfter
    <3>4. Len(list) = Cardinality(After(rows, cursor))
      BY <3>3, ByKeyLists
    <3> QED
      BY <1>1, <3>3, <3>4
  <2> QED
    BY <2>1, <2>2
<1> HIDE DEF all, list
<1>3. /\ Len(items) = IF limit <= Len(list) THEN limit ELSE Len(list)
      /\ \A k \in 1 .. Len(items) : Is(items[k], list[k])
      /\ next = IF Len(list) <= limit THEN <<>> ELSE list[limit].key
  BY DEF PageOf, list
<1>4. \A k \in 1 .. Len(items) : Is(items[k], all[m + k])
  BY <1>1, <1>2, <1>3 DEF all
<1>5. Len(list) > limit => list[limit].key = all[m + limit].key
  BY <1>1, <1>2
<1> QED
  BY <1>1, <1>2, <1>3, <1>4, <1>5 DEF Exact, all

-----------------------------------------------------------------------------
(* The lists of a stored graph have a key for each row.                    *)

KeyLength(list) == CASE list \in {"in", "out", "references", "cyclic"} -> 5
                     [] list \in {"nameCollisions", "blastRadius"} -> 2
                     [] OTHER -> 1

Edge == [kind : EdgeKinds, source : Nat, target : Nat, subKind : Nat,
         certainty : {"deterministic", "inferred"}]

LEMMA KindRankInjective ==
  ASSUME NEW a \in EdgeKinds, NEW b \in EdgeKinds
  PROVE  KindRank(a) \in Nat /\ (KindRank(a) = KindRank(b) => a = b)
<1> DEFINE kinds == <<"calls", "contains", "exports", "extends", "implements", "imports",
                      "references">>
<1>1. \A kind \in EdgeKinds : \E k \in 1 .. 7 : kinds[k] = kind
  <2>1. /\ 1 \in 1 .. 7 /\ 2 \in 1 .. 7 /\ 3 \in 1 .. 7 /\ 4 \in 1 .. 7
        /\ 5 \in 1 .. 7 /\ 6 \in 1 .. 7 /\ 7 \in 1 .. 7
    OBVIOUS
  <2>2. /\ kinds[1] = "calls" /\ kinds[2] = "contains" /\ kinds[3] = "exports"
        /\ kinds[4] = "extends" /\ kinds[5] = "implements" /\ kinds[6] = "imports"
        /\ kinds[7] = "references"
    OBVIOUS
  <2> HIDE DEF kinds
  <2> QED
    BY <2>1, <2>2 DEF EdgeKinds
<1>2. \A kind \in EdgeKinds : KindRank(kind) \in 1 .. 7 /\ kinds[KindRank(kind)] = kind
  BY <1>1 DEF KindRank
<1> QED
  BY <1>2

LEMMA EdgeKeys ==
  ASSUME NEW e \in Edge
  PROVE  /\ EdgeKey(e) \in Key(5)
         /\ \A f \in Edge : EdgeKey(e) = EdgeKey(f) => e = f
<1>1. \A f \in Edge : /\ f.source \in Nat /\ f.target \in Nat /\ f.subKind \in Nat
                      /\ f.kind \in EdgeKinds /\ f.certainty \in {"deterministic", "inferred"}
                      /\ KindRank(f.kind) \in Nat
                      /\ TrustRank(f.certainty) \in Nat
  BY KindRankInjective DEF Edge, TrustRank
<1>2. EdgeKey(e) \in Key(5)
  BY <1>1 DEF EdgeKey, Key
<1>3. \A f \in Edge : EdgeKey(e) = EdgeKey(f) => e = f
  <2> SUFFICES ASSUME NEW f \in Edge, EdgeKey(e) = EdgeKey(f) PROVE e = f
    OBVIOUS
  <2>1. /\ e.source = f.source /\ e.target = f.target /\ e.subKind = f.subKind
        /\ KindRank(e.kind) = KindRank(f.kind)
        /\ TrustRank(e.certainty) = TrustRank(f.certainty)
    BY DEF EdgeKey
  <2>2. e.kind = f.kind /\ e.certainty = f.certainty
    BY <1>1, <2>1, KindRankInjective DEF TrustRank
  <2> QED
    BY <2>1, <2>2 DEF Edge
<1> QED
  BY <1>2, <1>3

LEMMA FiniteImage ==
  ASSUME NEW S, IsFiniteSet(S), NEW T, NEW f \in [S -> T], \A t \in T : \E s \in S : f[s] = t
  PROVE  IsFiniteSet(T) /\ Cardinality(T) <= Cardinality(S)
<1>1. f \in Surjection(S, T)
  BY DEF Surjection
<1> QED
  BY <1>1, FS_Surjection

\* The rows of nodes by identity, and of edges.
LEMMA NodeRows ==
  ASSUME NEW nodes, IsFiniteSet(nodes), \A n \in nodes : n.id \in Nat,
         \A m, n \in nodes : m.id = n.id => m = n
  PROVE  Keyed({[key |-> <<n.id>>, item |-> n] : n \in nodes}, 1)
<1> DEFINE rows == {[key |-> <<n.id>>, item |-> n] : n \in nodes}
<1>1. IsFiniteSet(rows)
  <2> DEFINE f == [n \in nodes |-> [key |-> <<n.id>>, item |-> n]]
  <2>1. f \in [nodes -> rows] /\ \A r \in rows : \E n \in nodes : f[n] = r
    OBVIOUS
  <2> HIDE DEF f, rows
  <2> QED
    BY <2>1, FiniteImage
<1>2. \A r \in rows : r.key \in Key(1)
  BY DEF Key
<1>3. \A r, s \in rows : r.key = s.key => r = s
  OBVIOUS
<1> QED
  BY <1>1, <1>2, <1>3 DEF Keyed

LEMMA EdgeRows ==
  ASSUME NEW edges \in SUBSET Edge, IsFiniteSet(edges)
  PROVE  Keyed({[key |-> EdgeKey(e), item |-> e] : e \in edges}, 5)
<1> DEFINE rows == {[key |-> EdgeKey(e), item |-> e] : e \in edges}
<1>1. IsFiniteSet(rows)
  <2> DEFINE f == [e \in edges |-> [key |-> EdgeKey(e), item |-> e]]
  <2>1. f \in [edges -> rows] /\ \A r \in rows : \E e \in edges : f[e] = r
    OBVIOUS
  <2> HIDE DEF f, rows
  <2> QED
    BY <2>1, FiniteImage
<1>2. \A r \in rows : r.key \in Key(5)
  BY EdgeKeys
<1>3. \A r, s \in rows : r.key = s.key => r = s
  BY EdgeKeys
<1> QED
  BY <1>1, <1>2, <1>3 DEF Keyed

\* The paths of a blast radius have a length, and end in a source of an edge.
Path(g) == {p \in [node : Nat, depth : Nat, path : SUBSET Nat, certain : BOOLEAN] :
              p.depth > 0 => p.node \in {e.source : e \in g.edges}}

\* The path of no edge, and the paths of a set with those one edge longer.
Stay(id) == [node |-> id, depth |-> 0, path |-> {id}, certain |-> TRUE]
Longer(p, e) == [node |-> e.source, depth |-> p.depth + 1, path |-> p.path \cup {e.source},
                 certain |-> p.certain /\ e.certainty = "deterministic"]
Lengthened(g, s) ==
  s \cup {Longer(x[1], x[2]) : x \in {y \in s \X Dependencies(g) :
                                        y[2].target = y[1].node /\ ~Visited(y[1], y[2].source)}}

LEMMA PathsUnfold ==
  ASSUME NEW g, StoredGraph(g), NEW id \in Nat
  PROVE  /\ BlastPaths(g, id) \in [Nat -> SUBSET Path(g)]
         /\ BlastPaths(g, id)[0] = {Stay(id)}
         /\ \A n \in Nat : BlastPaths(g, id)[n + 1] = Lengthened(g, BlastPaths(g, id)[n])
<1> DEFINE start == {Stay(id)}
           Unfolds(f) == f = [d \in Nat |-> IF d = 0 THEN start ELSE Lengthened(g, f[d - 1])]
           run == CHOOSE f : Unfolds(f)
<1>1. BlastPaths(g, id) = run
  BY DEF BlastPaths, Stay, Longer, Lengthened
<1>2. start \in SUBSET Path(g)
  BY DEF Path, Stay
<1>3. ASSUME NEW s \in SUBSET Path(g)
      PROVE  Lengthened(g, s) \in SUBSET Path(g)
  <2>1. ASSUME NEW p \in s, NEW e \in Dependencies(g)
        PROVE  Longer(p, e) \in Path(g)
    <3>1. p \in Path(g) /\ e \in g.edges
      BY <2>1 DEF Dependencies
    <3>2. e.source \in Nat /\ e.source \in {f.source : f \in g.edges}
      BY <3>1 DEF StoredGraph
    <3>3. p.depth \in Nat /\ p.path \in SUBSET Nat /\ p.certain \in BOOLEAN
      BY <3>1 DEF Path
    <3>4. /\ p.depth + 1 \in Nat
          /\ p.path \cup {e.source} \in SUBSET Nat
          /\ (p.certain /\ e.certainty = "deterministic") \in BOOLEAN
      BY <3>2, <3>3
    <3> QED
      BY <3>2, <3>4 DEF Path, Longer
  <2> QED
    BY <2>1 DEF Lengthened
<1> HIDE DEF start
<1>4. \E f \in [Nat -> SUBSET Path(g)] : Unfolds(f)
  <2> DEFINE Sets == SUBSET Path(g)
             step == [s \in Sets |-> Lengthened(g, s)]
  <2>1. start \in Sets /\ step \in [Sets -> Sets]
    BY <1>2, <1>3
  <2>2. PICK f \in [Nat -> Sets] : f[0] = start /\ \A n \in Nat : f[n + 1] = step[f[n]]
    <3> HIDE DEF step, Sets
    <3> QED
      BY <2>1, Iterates
  <2>3. \A d \in Nat : f[d] = IF d = 0 THEN start ELSE Lengthened(g, f[d - 1])
    <3> TAKE d \in Nat
    <3>1. CASE d = 0
      BY <2>2, <3>1
    <3>2. CASE d # 0
      <4>1. d - 1 \in Nat /\ (d - 1) + 1 = d
        BY <3>2
      <4>2. f[d] = step[f[d - 1]] /\ f[d - 1] \in Sets
        BY <2>2, <4>1
      <4> QED
        BY <3>2, <4>2
    <3> QED
      BY <3>1, <3>2
  <2>4. f = [d \in Nat |-> IF d = 0 THEN start ELSE Lengthened(g, f[d - 1])]
    BY <2>3
  <2> QED
    BY <2>4
<1>5. Unfolds(run)
  BY <1>4
<1> HIDE DEF run
<1>6. \A d \in Nat : run[d] = IF d = 0 THEN start ELSE Lengthened(g, run[d - 1])
  BY <1>5
<1>7. run = [d \in Nat |-> run[d]]
  BY <1>5
<1> HIDE DEF Unfolds
<1>8. run[0] = start /\ \A n \in Nat : run[n + 1] = Lengthened(g, run[n])
  <2>1. \A n \in Nat : n + 1 \in Nat /\ n + 1 # 0 /\ (n + 1) - 1 = n
    OBVIOUS
  <2> QED
    BY <1>6, <2>1
<1> DEFINE typed == {d \in Nat : run[d] \in SUBSET Path(g)}
<1>9. 0 \in typed /\ \A d \in typed : d + 1 \in typed
  BY <1>2, <1>3, <1>8
<1>10. typed = Nat
  BY <1>9, Induction
<1>11. run \in [Nat -> SUBSET Path(g)]
  BY <1>7, <1>10
<1> QED
  BY <1>1, <1>8, <1>11 DEF start

LEMMA PathsTyped ==
  ASSUME NEW g, StoredGraph(g), NEW id \in Nat, NEW depth \in Nat
  PROVE  BlastPaths(g, id)[depth] \in SUBSET Path(g)
BY PathsUnfold

LEMMA BlastRows ==
  ASSUME NEW g, StoredGraph(g), NEW id \in Nat, NEW depth \in Nat
  PROVE  Keyed({[key |-> <<h.depth, h.node>>, item |-> h] : h \in BlastRadius(g, id, depth)}, 2)
<1> DEFINE hits == {p \in BlastPaths(g, id)[depth] : p.depth > 0}
           To(n) == {p \in hits : p.node = n}
           nodes == {p.node : p \in hits}
           Hit(n) == [node |-> n, depth |-> Min({p.depth : p \in To(n)}),
                      certain |-> \E p \in To(n) : p.certain]
           Row(h) == [key |-> <<h.depth, h.node>>, item |-> h]
<1>1. BlastRadius(g, id, depth) = {Hit(n) : n \in nodes}
  BY DEF BlastRadius
<1>2. hits \in SUBSET Path(g)
  BY PathsTyped
<1>3. \A p \in hits : p.depth \in Nat /\ p.node \in Nat /\ p.node \in {e.source : e \in g.edges}
  BY <1>2 DEF Path
<1> HIDE DEF hits
<1>4. IsFiniteSet(nodes)
  <2>1. IsFiniteSet({e.source : e \in g.edges})
    <3> DEFINE ends == {e.source : e \in g.edges}
               f == [e \in g.edges |-> e.source]
    <3>1. f \in [g.edges -> ends] /\ \A s \in ends : \E e \in g.edges : f[e] = s
      OBVIOUS
    <3>2. IsFiniteSet(g.edges)
      BY DEF StoredGraph
    <3> HIDE DEF f, ends
    <3> QED
      BY <3>1, <3>2, FiniteImage DEF ends
  <2>2. nodes \subseteq {e.source : e \in g.edges}
    BY <1>3
  <2> QED
    BY <2>1, <2>2, FS_Subset
<1> DEFINE Depths(n) == {p.depth : p \in To(n)}
<1>5. \A n \in nodes : n \in Nat /\ Min(Depths(n)) \in Nat
  <2> TAKE n \in nodes
  <2>1. Depths(n) \in SUBSET Nat /\ Depths(n) # {}
    BY <1>3
  <2> HIDE DEF Depths
  <2>2. Min(Depths(n)) \in Nat
    BY <2>1, MinOfNaturals
  <2> QED
    BY <1>3, <2>2
<1> HIDE DEF nodes
<1> DEFINE RowAt(n) == Row(Hit(n))
           rows == {RowAt(n) : n \in nodes}
<1>6. {Row(h) : h \in BlastRadius(g, id, depth)} = rows
  <2> HIDE DEF Row, Hit
  <2> QED
    BY <1>1
<1>7. \A n \in nodes : RowAt(n).key = <<Min(Depths(n)), n>>
  OBVIOUS
<1> HIDE DEF Depths
<1> HIDE DEF RowAt, To
<1>8. IsFiniteSet(rows)
  <2> DEFINE f == [n \in nodes |-> RowAt(n)]
  <2>1. f \in [nodes -> rows] /\ \A r \in rows : \E n \in nodes : f[n] = r
    OBVIOUS
  <2> HIDE DEF f, rows
  <2> QED
    BY <1>4, <2>1, FiniteImage
<1>9. \A r \in rows : r.key \in Key(2)
  BY <1>5, <1>7 DEF Key
<1>10. \A m, n \in nodes : RowAt(m).key = RowAt(n).key => m = n
  <2> TAKE m, n \in nodes
  <2>1. <<Min(Depths(m)), m>>[2] = m /\ <<Min(Depths(n)), n>>[2] = n
    OBVIOUS
  <2> QED
    BY <1>7, <2>1
<1>11. \A r, s \in rows : r.key = s.key => r = s
  BY <1>10
<1> HIDE DEF rows
<1>12. Keyed(rows, 2)
  BY <1>8, <1>9, <1>11 DEF Keyed
<1> QED
  BY <1>6, <1>12

LEMMA SomeNodes ==
  ASSUME NEW g, StoredGraph(g), NEW nodes \in SUBSET g.nodes
  PROVE  Keyed({[key |-> <<n.id>>, item |-> n] : n \in nodes}, 1)
<1>1. /\ IsFiniteSet(nodes)
      /\ \A n \in nodes : n.id \in Nat
      /\ \A m, n \in nodes : m.id = n.id => m = n
  BY FS_Subset DEF StoredGraph
<1> QED
  BY <1>1, NodeRows

LEMMA SomeEdges ==
  ASSUME NEW g, StoredGraph(g), NEW edges \in SUBSET g.edges
  PROVE  Keyed({[key |-> EdgeKey(e), item |-> e] : e \in edges}, 5)
<1>1. edges \in SUBSET Edge /\ IsFiniteSet(edges)
  BY FS_Subset DEF StoredGraph, Edge
<1> QED
  BY <1>1, EdgeRows

LEMMA CollisionRows ==
  ASSUME NEW g, StoredGraph(g)
  PROVE  Keyed({[key |-> <<n.name, n.id>>, item |-> n] : n \in NameCollisions(g)}, 2)
<1> DEFINE nodes == NameCollisions(g)
           RowAt(n) == [key |-> <<n.name, n.id>>, item |-> n]
           rows == {RowAt(n) : n \in nodes}
<1>1. nodes \in SUBSET g.nodes
  BY DEF NameCollisions, TopLevelSymbols
<1> HIDE DEF nodes
<1>2. /\ IsFiniteSet(nodes)
      /\ \A n \in nodes : n.id \in Nat /\ n.name \in Nat
      /\ \A m, n \in nodes : m.id = n.id => m = n
  BY <1>1, FS_Subset DEF StoredGraph
<1>3. IsFiniteSet(rows)
  <2> DEFINE f == [n \in nodes |-> RowAt(n)]
  <2>1. f \in [nodes -> rows] /\ \A r \in rows : \E n \in nodes : f[n] = r
    OBVIOUS
  <2> HIDE DEF f, rows
  <2> QED
    BY <1>2, <2>1, FiniteImage
<1>4. \A r \in rows : r.key \in Key(2)
  BY <1>2 DEF Key
<1>5. \A r, s \in rows : r.key = s.key => r = s
  <2> SUFFICES ASSUME NEW m \in nodes, NEW n \in nodes, RowAt(m).key = RowAt(n).key
               PROVE  m = n
    OBVIOUS
  <2>1. <<m.name, m.id>>[2] = m.id /\ <<n.name, n.id>>[2] = n.id
    OBVIOUS
  <2> QED
    BY <1>2, <2>1
<1> HIDE DEF rows
<1>6. Keyed(rows, 2)
  BY <1>3, <1>4, <1>5 DEF Keyed
<1> QED
  BY <1>6 DEF rows, nodes

LEMMA UnusedRows ==
  ASSUME NEW g, StoredGraph(g)
  PROVE  Keyed({[key |-> <<n.id>>, item |-> n] : n \in UnusedSymbols(g)}, 1)
<1> DEFINE used == {e.target : e \in Dependencies(g)}
           some == {m \in TopLevelSymbols(g) : m.id \notin used}
           Mark(n) == [id |-> n.id, candidate |-> Candidate(g, FileOfNode(g), n),
                       exported |-> \E e \in g.edges : e.kind = "exports" /\ e.target = n.id]
           marked == {Mark(n) : n \in some}
<1>1. UnusedSymbols(g) = marked
  BY DEF UnusedSymbols
<1>2. some \in SUBSET g.nodes
  BY DEF TopLevelSymbols
<1>3. \A n \in some : Mark(n).id = n.id
  OBVIOUS
<1> HIDE DEF some, Mark
<1>4. /\ IsFiniteSet(some)
      /\ \A n \in some : n.id \in Nat
      /\ \A m, n \in some : m.id = n.id => m = n
  BY <1>2, FS_Subset DEF StoredGraph
<1>5. IsFiniteSet(marked)
  <2> DEFINE f == [n \in some |-> Mark(n)]
  <2>1. f \in [some -> marked] /\ \A r \in marked : \E n \in some : f[n] = r
    OBVIOUS
  <2> HIDE DEF f, marked
  <2> QED
    BY <1>4, <2>1, FiniteImage
<1>6. /\ \A n \in marked : n.id \in Nat
      /\ \A m, n \in marked : m.id = n.id => m = n
  BY <1>3, <1>4
<1> HIDE DEF marked
<1> QED
  BY <1>1, <1>5, <1>6, NodeRows

ListNames == {"declaredInterface", "declarations", "callSites", "search", "nameCollisions",
              "unusedSymbols", "in", "out", "references", "cyclic", "blastRadius"}

LEMMA ListsKeyed ==
  ASSUME NEW g, StoredGraph(g), NEW q \in Requests, NEW list \in ListNames
  PROVE  Keyed(ListRows(g, list, q), KeyLength(list))
<1>1. CASE list = "declaredInterface"
  <2>1. DeclaredInterface(g, q.id) \in SUBSET g.nodes
    BY DEF DeclaredInterface
  <2> QED
    BY <1>1, <2>1, SomeNodes DEF ListRows, KeyLength
<1>2. CASE list = "declarations"
  <2>1. ContainedDeclarations(g, q.id) \in SUBSET g.nodes
    BY DEF ContainedDeclarations
  <2> QED
    BY <1>2, <2>1, SomeNodes DEF ListRows, KeyLength
<1>3. CASE list = "callSites"
  <2>1. CallSitesOf(g, q.id) \in SUBSET g.nodes
    BY DEF CallSitesOf
  <2> QED
    BY <1>3, <2>1, SomeNodes DEF ListRows, KeyLength
<1>4. CASE list = "search"
  BY <1>4, SomeNodes DEF ListRows, KeyLength
<1>5. CASE list = "nameCollisions"
  BY <1>5, CollisionRows DEF ListRows, KeyLength
<1>6. CASE list = "unusedSymbols"
  BY <1>6, UnusedRows DEF ListRows, KeyLength
<1>7. CASE list \in {"in", "out"}
  <2>1. NeighborEdges(g, q.id, list) \in SUBSET g.edges
    BY DEF NeighborEdges
  <2> QED
    BY <1>7, <2>1, SomeEdges DEF ListRows, KeyLength
<1>8. CASE list = "references"
  <2>1. {e \in NeighborEdges(g, q.id, "out") : e.kind = "references"} \in SUBSET g.edges
    BY DEF NeighborEdges
  <2> QED
    BY <1>8, <2>1, SomeEdges DEF ListRows, KeyLength
<1>9. CASE list = "cyclic"
  <2>1. CyclicDependencyEdges(g) \in SUBSET g.edges
    BY DEF CyclicDependencyEdges, Dependencies
  <2> QED
    BY <1>9, <2>1, SomeEdges DEF ListRows, KeyLength
<1>10. CASE list = "blastRadius"
  <2>1. q.id \in Nat /\ q.depth \in Nat
    BY DEF Requests
  <2> QED
    BY <1>10, <2>1, BlastRows DEF ListRows, KeyLength
<1> QED
  BY <1>1, <1>2, <1>3, <1>4, <1>5, <1>6, <1>7, <1>8, <1>9, <1>10 DEF ListNames

-----------------------------------------------------------------------------
(* Tarjan's algorithm finds components that share no node.                 *)

Tables(N) == UNION {[D -> Nat] : D \in SUBSET N}
TarjanStates(N) ==
  [work : Seq([node : N, next : Nat]), index : Tables(N), low : Tables(N), counter : Nat,
   stack : Seq(N), found : Seq(SUBSET N)]

\* What is found and what is stacked is numbered, and nothing is in two places.
Apart(t) ==
  /\ DOMAIN t.low = DOMAIN t.index
  /\ \A k \in 1 .. Len(t.stack) : t.stack[k] \in DOMAIN t.index
  /\ \A j, k \in 1 .. Len(t.stack) : t.stack[j] = t.stack[k] => j = k
  /\ \A i \in 1 .. Len(t.found) :
        /\ t.found[i] \subseteq DOMAIN t.index
        /\ \A k \in 1 .. Len(t.stack) : t.stack[k] \notin t.found[i]
  /\ \A i, j \in 1 .. Len(t.found) : i # j => t.found[i] \cap t.found[j] = {}

\* The first m frames are on the stack, in their order.
Placed(t, m) ==
  /\ \A i \in 1 .. m : \E p \in 1 .. Len(t.stack) : t.stack[p] = t.work[i].node
  /\ \A i, j \in 1 .. m : \A p, r \in 1 .. Len(t.stack) :
        i < j /\ t.stack[p] = t.work[i].node /\ t.stack[r] = t.work[j].node => p < r

Left(t) == \A k \in 1 .. Len(t.work) - 1 : t.work[k].next # 0
Opened(t) == IF Last(t.work).next = 0
             THEN Last(t.work).node \notin DOMAIN t.index /\ Placed(t, Len(t.work) - 1)
             ELSE Placed(t, Len(t.work))

Sound(N) == {t \in TarjanStates(N) : Apart(t) /\ Left(t) /\ (t.work # <<>> => Opened(t))}

LEMMA LastAndFront ==
  ASSUME NEW S, NEW s \in Seq(S), s # <<>>
  PROVE  /\ Len(s) \in Nat \ {0}
         /\ Last(s) = s[Len(s)] /\ Last(s) \in S
         /\ Front(s) \in Seq(S) /\ Len(Front(s)) = Len(s) - 1
         /\ \A k \in 1 .. Len(s) - 1 : Front(s)[k] = s[k]
<1>1. Len(s) \in Nat /\ Len(s) # 0
  OBVIOUS
<1>2. Len(s) \in 1 .. Len(s)
  BY <1>1
<1>3. s[Len(s)] \in S
  BY <1>2
<1>4. Front(s) = SubSeq(s, 1, Len(s) - 1)
  BY DEF Front
<1>5. Last(s) = s[Len(s)]
  BY DEF Last
<1> DEFINE m == Len(s) - 1
<1>6. m \in Nat /\ m <= Len(s) /\ m = Len(s) - 1
  BY <1>1
<1> HIDE DEF Front, m
<1>7. /\ SubSeq(s, 1, m) \in Seq(S) /\ Len(SubSeq(s, 1, m)) = m
      /\ \A k \in 1 .. m : SubSeq(s, 1, m)[k] = s[k]
  BY <1>6
<1> QED
  BY <1>1, <1>3, <1>4, <1>5, <1>6, <1>7

LEMMA EnterKeeps ==
  ASSUME NEW N \in SUBSET Nat, NEW t \in Sound(N), t.work # <<>>
  PROVE  LET e == Enter(t, Last(t.work).node)
         IN  /\ e \in TarjanStates(N) /\ Apart(e)
             /\ e.work = t.work
             /\ Placed(e, Len(t.work))
<1> DEFINE node == Last(t.work).node
           e == Enter(t, node)
<1>1. /\ t \in TarjanStates(N) /\ Apart(t) /\ Left(t) /\ Opened(t)
      /\ t.work \in Seq([node : N, next : Nat]) /\ Len(t.work) \in Nat \ {0}
      /\ Last(t.work) = t.work[Len(t.work)]
      /\ node \in N
  <2>1. /\ t \in TarjanStates(N) /\ Apart(t) /\ Left(t) /\ Opened(t)
        /\ t.work \in Seq([node : N, next : Nat])
    BY DEF Sound, TarjanStates
  <2>2. /\ Len(t.work) \in Nat \ {0}
        /\ Last(t.work) = t.work[Len(t.work)]
        /\ Last(t.work) \in [node : N, next : Nat]
    BY <2>1, LastAndFront
  <2> QED
    BY <2>1, <2>2
<1>2. CASE Last(t.work).next # 0
  BY <1>1, <1>2 DEF Enter, Opened
<1>3. CASE Last(t.work).next = 0
  <2> DEFINE Numbered(f) == [n \in DOMAIN f \cup {node} |-> IF n = node THEN t.counter ELSE f[n]]
  <2>1. e = [t EXCEPT !.index = Numbered(@), !.low = Numbered(@),
                      !.counter = @ + 1, !.stack = Append(@, node)]
    BY <1>3 DEF Enter
  <2>2. node \notin DOMAIN t.index /\ Placed(t, Len(t.work) - 1)
    BY <1>1, <1>3 DEF Opened
  <2>3. /\ t.index \in Tables(N) /\ t.low \in Tables(N) /\ t.counter \in Nat
        /\ t.stack \in Seq(N) /\ t.found \in Seq(SUBSET N)
    BY <1>1 DEF TarjanStates
  <2>4. \A f \in Tables(N) : Numbered(f) \in Tables(N) /\ DOMAIN Numbered(f) = DOMAIN f \cup {node}
    <3> TAKE f \in Tables(N)
    <3>1. DOMAIN f \in SUBSET N /\ \A n \in DOMAIN f : f[n] \in Nat
      BY DEF Tables
    <3>2. DOMAIN f \cup {node} \in SUBSET N
      BY <1>1, <3>1
    <3>3. Numbered(f) \in [DOMAIN f \cup {node} -> Nat]
      BY <2>3, <3>1
    <3> QED
      BY <3>2, <3>3 DEF Tables
  <2>5. /\ e.work = t.work /\ e.index = Numbered(t.index) /\ e.low = Numbered(t.low)
        /\ e.counter = t.counter + 1 /\ e.stack = Append(t.stack, node) /\ e.found = t.found
    <3> HIDE DEF Numbered, node, e
    <3> QED
      BY <1>1, <2>1 DEF TarjanStates
  <2>6. e \in TarjanStates(N)
    <3>1. Append(t.stack, node) \in Seq(N) /\ t.counter + 1 \in Nat
      BY <1>1, <2>3
    <3> HIDE DEF Numbered, node, e
    <3> QED
      BY <1>1, <2>1, <2>3, <2>4, <3>1 DEF TarjanStates
  <2> HIDE DEF Numbered, e
  <2> DEFINE L == Len(t.stack)
  <2>7. /\ L \in Nat /\ Len(e.stack) = L + 1 /\ e.stack[L + 1] = node
        /\ \A k \in 1 .. L : e.stack[k] = t.stack[k]
    BY <2>3, <2>5
  <2>8. DOMAIN e.index = DOMAIN t.index \cup {node} /\ DOMAIN e.low = DOMAIN e.index
    BY <1>1, <2>3, <2>4, <2>5 DEF Apart
  <2>9. \A k \in 1 .. L : t.stack[k] \in DOMAIN t.index /\ t.stack[k] # node
    BY <1>1, <2>2 DEF Apart
  <2> HIDE DEF L
  <2>10. Apart(e)
    <3>1. \A k \in 1 .. Len(e.stack) : e.stack[k] \in DOMAIN e.index
      BY <2>7, <2>8, <2>9
    <3>2. \A j, k \in 1 .. Len(e.stack) : e.stack[j] = e.stack[k] => j = k
      BY <1>1, <2>7, <2>9 DEF Apart, L
    <3>3. \A i \in 1 .. Len(e.found) :
             /\ e.found[i] \subseteq DOMAIN e.index
             /\ \A k \in 1 .. Len(e.stack) : e.stack[k] \notin e.found[i]
      <4> TAKE i \in 1 .. Len(e.found)
      <4>1. t.found[i] \subseteq DOMAIN t.index /\ \A k \in 1 .. L : t.stack[k] \notin t.found[i]
        BY <1>1, <2>5 DEF Apart, L
      <4> QED
        BY <2>2, <2>5, <2>7, <2>8, <4>1
    <3>4. \A i, j \in 1 .. Len(e.found) : i # j => e.found[i] \cap e.found[j] = {}
      BY <1>1, <2>5 DEF Apart
    <3> QED
      BY <2>8, <3>1, <3>2, <3>3, <3>4 DEF Apart
  <2>11. Placed(e, Len(t.work))
    <3> DEFINE W == Len(t.work)
    <3>1. W \in Nat \ {0} /\ t.work[W].node = node
      BY <1>1
    <3> HIDE DEF W
    <3>2. /\ \A i \in 1 .. W - 1 : \E p \in 1 .. L : t.stack[p] = t.work[i].node
          /\ \A i, j \in 1 .. W - 1 : \A p, r \in 1 .. L :
                i < j /\ t.stack[p] = t.work[i].node /\ t.stack[r] = t.work[j].node => p < r
      BY <2>2 DEF Placed, L, W
    <3>3. \A i \in 1 .. W : \E p \in 1 .. L + 1 : e.stack[p] = t.work[i].node
      <4> TAKE i \in 1 .. W
      <4>1. CASE i = W
        BY <2>7, <3>1, <4>1
      <4>2. CASE i # W
        <5>1. i \in 1 .. W - 1
          BY <3>1, <4>2
        <5> QED
          BY <2>7, <3>2, <5>1
      <4> QED
        BY <4>1, <4>2
    <3>4. \A i \in 1 .. W - 1 : t.work[i].node # node
      BY <2>9, <3>2
    <3>5. ASSUME NEW i \in 1 .. W, NEW j \in 1 .. W, NEW p \in 1 .. L + 1, NEW r \in 1 .. L + 1,
                 i < j, e.stack[p] = t.work[i].node, e.stack[r] = t.work[j].node
          PROVE  p < r
      <4>1. i \in 1 .. W - 1 /\ p # L + 1
        BY <2>7, <3>1, <3>4, <3>5
      <4>2. p \in 1 .. L
        BY <2>7, <4>1
      <4>3. CASE r = L + 1
        BY <2>7, <4>2, <4>3
      <4>4. CASE r # L + 1
        <5>1. r \in 1 .. L /\ t.work[j].node # node
          BY <2>7, <2>9, <3>5, <4>4
        <5>2. j \in 1 .. W - 1
          BY <3>1, <5>1
        <5> QED
          BY <2>7, <3>2, <3>5, <4>1, <4>2, <5>1, <5>2
      <4> QED
        BY <4>3, <4>4
    <3>6. /\ \A i \in 1 .. W : \E p \in 1 .. Len(e.stack) : e.stack[p] = e.work[i].node
          /\ \A i, j \in 1 .. W : \A p, r \in 1 .. Len(e.stack) :
               i < j /\ e.stack[p] = e.work[i].node /\ e.stack[r] = e.work[j].node => p < r
      BY <2>5, <2>7, <3>3, <3>5
    <3> QED
      BY <3>6 DEF Placed, W
  <2> QED
    BY <2>5, <2>6, <2>10, <2>11 DEF e
<1> QED
  BY <1>2, <1>3

LEMMA VisitKeeps ==
  ASSUME NEW N \in SUBSET Nat, NEW t \in TarjanStates(N), Apart(t), Left(t), t.work # <<>>,
         Placed(t, Len(t.work)), NEW child \in N
  PROVE  VisitChild(t, Last(t.work).node, child) \in Sound(N)
<1> DEFINE node == Last(t.work).node
           W == Len(t.work)
           moved == [t EXCEPT !.work[Len(t.work)].next = @ + 1]
           v == VisitChild(t, node, child)
<1>1. /\ t.work \in Seq([node : N, next : Nat]) /\ t.index \in Tables(N) /\ t.low \in Tables(N)
      /\ t.counter \in Nat /\ t.stack \in Seq(N) /\ t.found \in Seq(SUBSET N)
  BY DEF TarjanStates
<1>2. W \in Nat \ {0} /\ Last(t.work) = t.work[W] /\ t.work[W] \in [node : N, next : Nat]
  BY <1>1, LastAndFront
<1> HIDE DEF W
<1> DEFINE work == [t.work EXCEPT ![W] = [t.work[W] EXCEPT !.next = @ + 1]]
<1>3. /\ work \in Seq([node : N, next : Nat]) /\ Len(work) = W
      /\ work[W].next # 0 /\ \A k \in 1 .. W : work[k].node = t.work[k].node
      /\ \A k \in 1 .. W - 1 : work[k] = t.work[k]
  <2>1. [t.work[W] EXCEPT !.next = @ + 1] \in [node : N, next : Nat]
    BY <1>2
  <2>2. W = Len(t.work)
    BY DEF W
  <2> QED
    BY <1>1, <1>2, <2>1, <2>2
<1>4. moved = [t EXCEPT !.work = work]
  BY <1>1 DEF W
<1> HIDE DEF work
<1>5. /\ moved \in TarjanStates(N) /\ moved.work = work
      /\ moved.index = t.index /\ moved.low = t.low /\ moved.counter = t.counter
      /\ moved.stack = t.stack /\ moved.found = t.found
  <2> HIDE DEF moved
  <2> QED
    BY <1>1, <1>3, <1>4 DEF TarjanStates
<1>6. \A k \in 1 .. W : work[k].next # 0
  <2> TAKE k \in 1 .. W
  <2>1. k = W \/ k \in 1 .. W - 1
    BY <1>2
  <2> QED
    BY <1>3, <2>1 DEF Left, W
<1>7. /\ \A i \in 1 .. W : \E p \in 1 .. Len(t.stack) : t.stack[p] = work[i].node
      /\ \A i, j \in 1 .. W : \A p, r \in 1 .. Len(t.stack) :
           i < j /\ t.stack[p] = work[i].node /\ t.stack[r] = work[j].node => p < r
  BY <1>3 DEF Placed, W
<1>8. CASE child \notin DOMAIN t.index
  <2> DEFINE frame == [node |-> child, next |-> 0]
             new == Append(work, frame)
  <2>1. v = [moved EXCEPT !.work = Append(@, frame)]
    BY <1>8 DEF VisitChild
  <2>2. /\ new \in Seq([node : N, next : Nat]) /\ Len(new) = W + 1
        /\ new[W + 1] = frame /\ \A k \in 1 .. W : new[k] = work[k]
    BY <1>3
  <2>3. frame.node = child /\ frame.next = 0 /\ Last(new) = frame /\ new # <<>>
    <3>1. Len(new) # 0 /\ Len(<<>>) = 0
      BY <1>2, <2>2
    <3> HIDE DEF new
    <3> QED
      BY <2>2, <3>1 DEF Last
  <2> HIDE DEF new, frame
  <2>4. v = [moved EXCEPT !.work = new]
    BY <1>5, <2>1 DEF new
  <2> HIDE DEF moved, v
  <2>5. /\ v \in TarjanStates(N) /\ v.work = new
        /\ v.index = t.index /\ v.low = t.low /\ v.stack = t.stack /\ v.found = t.found
    BY <1>5, <2>2, <2>4 DEF TarjanStates
  <2>6. Apart(v)
    BY <2>5 DEF Apart
  <2>7. Left(v)
    <3>1. \A k \in 1 .. W : new[k].next # 0
      BY <1>6, <2>2
    <3>2. Len(v.work) - 1 = W
      BY <1>2, <2>2, <2>5
    <3> QED
      BY <2>5, <3>1, <3>2 DEF Left
  <2>8. Placed(v, W)
    BY <1>7, <2>2, <2>5 DEF Placed
  <2>9. Opened(v)
    <3>1. Len(v.work) - 1 = W
      BY <1>2, <2>2, <2>5
    <3> QED
      BY <1>8, <2>3, <2>5, <2>8, <3>1 DEF Opened
  <2> QED
    BY <2>5, <2>6, <2>7, <2>9 DEF Sound, v
<1>9. CASE child \in DOMAIN t.index
  <2>1. /\ v \in TarjanStates(N) /\ v.work = work
        /\ v.index = t.index /\ DOMAIN v.low = DOMAIN t.low
        /\ v.stack = t.stack /\ v.found = t.found
    <3>1. CASE child \in ToSet(t.stack)
      <4> DEFINE least == Min({t.low[node], t.index[child]})
      <4>1. v = [moved EXCEPT !.low[node] = least]
        BY <1>5, <1>9, <3>1 DEF VisitChild
      <4>2. node \in DOMAIN t.index
        BY <1>2 DEF Placed, Apart, W
      <4>3. node \in DOMAIN t.low /\ t.low[node] \in Nat /\ t.index[child] \in Nat
        <5>1. \A f \in Tables(N) : \A n \in DOMAIN f : f[n] \in Nat
          BY DEF Tables
        <5>2. DOMAIN t.low = DOMAIN t.index
          BY DEF Apart
        <5> HIDE DEF node
        <5> QED
          BY <1>1, <1>9, <4>2, <5>1, <5>2
      <4>4. least \in Nat
        BY <4>3, MinOfTwo
      <4> HIDE DEF least, node
      <4> DEFINE low == [t.low EXCEPT ![node] = least]
      <4>5. low \in Tables(N) /\ DOMAIN low = DOMAIN t.low
        <5>1. PICK D \in SUBSET N : t.low \in [D -> Nat]
          BY <1>1 DEF Tables
        <5>2. low \in [D -> Nat]
          BY <4>4, <5>1
        <5> QED
          BY <5>1, <5>2 DEF Tables
      <4>6. v = [moved EXCEPT !.low = low]
        BY <1>5, <4>1
      <4> HIDE DEF low, moved, v
      <4> QED
        BY <1>5, <4>5, <4>6 DEF TarjanStates
    <3>2. CASE child \notin ToSet(t.stack)
      <4>1. v = moved
        BY <1>9, <3>2 DEF VisitChild
      <4> HIDE DEF v, moved
      <4> QED
        BY <1>5, <4>1
    <3> QED
      BY <3>1, <3>2
  <2> HIDE DEF v, moved
  <2>2. Apart(v)
    BY <2>1 DEF Apart
  <2>3. Left(v)
    BY <1>3, <1>6, <2>1 DEF Left
  <2>4. Placed(v, W)
    BY <1>7, <2>1 DEF Placed
  <2>5. Last(v.work).next # 0 /\ Len(v.work) = W
    <3>1. W \in 1 .. W /\ Len(v.work) = W
      BY <1>2, <1>3, <2>1
    <3>2. Last(v.work) = work[W]
      BY <2>1, <3>1 DEF Last
    <3> QED
      BY <1>6, <3>1, <3>2
  <2>6. Opened(v)
    BY <2>4, <2>5 DEF Opened
  <2> QED
    BY <2>1, <2>2, <2>3, <2>6 DEF Sound, v
<1> QED
  BY <1>8, <1>9

\* A frame that is left takes its component, if any, off the stack's end.
LEMMA LeaveKeeps ==
  ASSUME NEW N \in SUBSET Nat, NEW t \in TarjanStates(N), Apart(t), Left(t), t.work # <<>>,
         Placed(t, Len(t.work))
  PROVE  Leave(t, Last(t.work).node) \in Sound(N)
<1> DEFINE node == Last(t.work).node
           W == Len(t.work)
           L == Len(t.stack)
           at == CHOOSE k \in DOMAIN t.stack : t.stack[k] = node
           root == t.low[node] = t.index[node]
           work == Front(t.work)
           component == ToSet(SubSeq(t.stack, at, L))
           stack == IF root THEN SubSeq(t.stack, 1, at - 1) ELSE t.stack
           found == IF root THEN Append(t.found, component) ELSE t.found
           closed == [t EXCEPT !.work = work, !.stack = stack, !.found = found]
           v == Leave(t, node)
<1>1. /\ t.work \in Seq([node : N, next : Nat]) /\ t.index \in Tables(N) /\ t.low \in Tables(N)
      /\ t.counter \in Nat /\ t.stack \in Seq(N) /\ t.found \in Seq(SUBSET N)
      /\ L \in Nat
  BY DEF TarjanStates
<1>2. W \in Nat \ {0} /\ node = t.work[W].node
  BY <1>1, LastAndFront
<1>3. /\ work \in Seq([node : N, next : Nat]) /\ Len(work) = W - 1
      /\ \A k \in 1 .. W - 1 : work[k] = t.work[k]
  BY <1>1, LastAndFront
<1>4. at \in 1 .. L /\ t.stack[at] = node
  <2>1. \E p \in 1 .. L : t.stack[p] = node
    <3>1. /\ W \in 1 .. W
          /\ \A i \in 1 .. W : \E p \in 1 .. L : t.stack[p] = t.work[i].node
      BY <1>2 DEF Placed
    <3> HIDE DEF node, W, L
    <3> QED
      BY <1>2, <3>1
  <2>2. DOMAIN t.stack = 1 .. L
    BY <1>1
  <2> HIDE DEF node, L
  <2> QED
    BY <2>1, <2>2
<1>5. v = IF work = <<>> THEN closed
          ELSE [closed EXCEPT !.low[Last(work).node] = Min({@, t.low[node]})]
  BY DEF Leave
<1> HIDE DEF at, root, work, L, W
<1>6. \A k \in 1 .. L : t.stack[k] \in N /\ t.stack[k] \in DOMAIN t.index
  BY <1>1 DEF Apart, L
<1>7. component = {t.stack[k] : k \in at .. L} /\ component \in SUBSET N
  <2> DEFINE s == SubSeq(t.stack, at, L)
  <2>1. /\ Len(s) = L - at + 1 /\ DOMAIN s = 1 .. Len(s)
        /\ \A k \in 1 .. L - at + 1 : s[k] = t.stack[at + k - 1]
    BY <1>1, <1>4 DEF L
  <2> HIDE DEF s
  <2>2. ToSet(s) = {s[k] : k \in 1 .. L - at + 1}
    BY <1>1, <1>4, <2>1 DEF ToSet
  <2>3. \A k \in at .. L : /\ k - at + 1 \in 1 .. L - at + 1
                           /\ s[k - at + 1] = t.stack[k]
    <3> TAKE k \in at .. L
    <3>1. k - at + 1 \in 1 .. L - at + 1 /\ at + (k - at + 1) - 1 = k
      BY <1>1, <1>4
    <3> QED
      BY <2>1, <3>1
  <2>4. \A k \in 1 .. L - at + 1 : at + k - 1 \in at .. L
    BY <1>1, <1>4
  <2>5. ToSet(s) = {t.stack[k] : k \in at .. L}
    <3>1. \A k \in at .. L : t.stack[k] \in {s[j] : j \in 1 .. L - at + 1}
      BY <2>3
    <3>2. \A j \in 1 .. L - at + 1 : s[j] \in {t.stack[k] : k \in at .. L}
      BY <2>1, <2>4
    <3> QED
      BY <2>2, <3>1, <3>2
  <2>6. \A k \in at .. L : t.stack[k] \in N
    BY <1>1, <1>4, <1>6
  <2> QED
    BY <2>5, <2>6 DEF s
<1> HIDE DEF component
<1>8. /\ stack \in Seq(N) /\ Len(stack) \in Nat /\ Len(stack) <= L
      /\ \A k \in 1 .. Len(stack) : k \in 1 .. L /\ stack[k] = t.stack[k]
      /\ root => Len(stack) = at - 1
      /\ ~root => Len(stack) = L
  <2> DEFINE m == at - 1
  <2>1. m \in Nat /\ m <= L
    BY <1>1, <1>4
  <2> HIDE DEF m
  <2>2. /\ SubSeq(t.stack, 1, m) \in Seq(N) /\ Len(SubSeq(t.stack, 1, m)) = m
        /\ \A k \in 1 .. m : SubSeq(t.stack, 1, m)[k] = t.stack[k]
    BY <1>1, <2>1 DEF L
  <2>3. CASE root
    <3>1. stack = SubSeq(t.stack, 1, m)
      BY <2>3 DEF m
    <3> HIDE DEF stack
    <3> QED
      BY <1>1, <2>1, <2>2, <2>3, <3>1 DEF m
  <2>4. CASE ~root
    <3>1. stack = t.stack
      BY <2>4
    <3> HIDE DEF stack
    <3> QED
      BY <1>1, <2>4, <3>1 DEF L
  <2> QED
    BY <2>3, <2>4
<1>9. found \in Seq(SUBSET N)
  BY <1>1, <1>7
<1>10. \A i \in 1 .. Len(found) :
          \/ i \in 1 .. Len(t.found) /\ found[i] = t.found[i]
          \/ root /\ i = Len(t.found) + 1 /\ found[i] = component
  <2>1. CASE root
    <3>1. found = Append(t.found, component)
      BY <2>1
    <3> HIDE DEF found
    <3> QED
      BY <1>1, <2>1, <3>1
  <2>2. CASE ~root
    BY <2>2
  <2> QED
    BY <2>1, <2>2
<1> HIDE DEF stack, found
<1>11. \A k \in 1 .. Len(stack) : root => stack[k] \notin component
  <2> SUFFICES ASSUME NEW k \in 1 .. Len(stack), root, NEW l \in at .. L, stack[k] = t.stack[l]
               PROVE  FALSE
    BY <1>7
  <2>1. k \in 1 .. L /\ l \in 1 .. L /\ k < at
    BY <1>1, <1>4, <1>8
  <2>2. k = l
    BY <1>8, <2>1 DEF Apart, L
  <2> QED
    BY <1>4, <2>1, <2>2
<1>12. component \subseteq DOMAIN t.index /\ \A i \in 1 .. Len(t.found) : t.found[i] \cap component = {}
  <2>1. \A k \in at .. L : k \in 1 .. L
    BY <1>1, <1>4
  <2>2. \A i \in 1 .. Len(t.found) : \A k \in 1 .. L : t.stack[k] \notin t.found[i]
    BY DEF Apart, L
  <2> QED
    BY <1>6, <1>7, <2>1, <2>2
<1>13. /\ v \in TarjanStates(N) /\ v.work = work /\ v.stack = stack /\ v.found = found
       /\ v.index = t.index /\ DOMAIN v.low = DOMAIN t.low
  <2>1. /\ closed \in TarjanStates(N)
        /\ closed.work = work /\ closed.stack = stack /\ closed.found = found
        /\ closed.index = t.index /\ closed.low = t.low
    BY <1>1, <1>3, <1>8, <1>9 DEF TarjanStates
  <2> HIDE DEF closed
  <2>2. CASE work = <<>>
    BY <1>5, <2>1, <2>2
  <2>3. CASE work # <<>>
    <3> DEFINE parent == Last(work).node
               least == Min({t.low[parent], t.low[node]})
               low == [t.low EXCEPT ![parent] = least]
    <3>1. W - 1 \in 1 .. W /\ parent = t.work[W - 1].node
      <4>1. Len(work) # 0
        BY <1>3, <2>3
      <4> QED
        BY <1>2, <1>3, <4>1 DEF Last
    <3>2. W \in 1 .. W
      BY <1>2
    <3>3. parent \in DOMAIN t.low /\ node \in DOMAIN t.low
      <4>1. \A i \in 1 .. W : t.work[i].node \in DOMAIN t.index
        BY <1>6 DEF Placed, W, L
      <4> HIDE DEF parent, node
      <4> QED
        BY <1>2, <3>1, <3>2, <4>1 DEF Apart
    <3> HIDE DEF parent, node
    <3>4. least \in Nat
      <4>1. \A f \in Tables(N) : \A n \in DOMAIN f : f[n] \in Nat
        BY DEF Tables
      <4>2. t.low[parent] \in Nat /\ t.low[node] \in Nat
        BY <1>1, <3>3, <4>1
      <4> QED
        BY <4>2, MinOfTwo
    <3> HIDE DEF least
    <3>5. low \in Tables(N) /\ DOMAIN low = DOMAIN t.low
      <4>1. PICK D \in SUBSET N : t.low \in [D -> Nat]
        BY <1>1 DEF Tables
      <4>2. low \in [D -> Nat]
        BY <3>4, <4>1
      <4> QED
        BY <4>1, <4>2 DEF Tables
    <3>6. v = [closed EXCEPT !.low = low]
      BY <1>5, <2>1, <2>3 DEF parent, least
    <3> HIDE DEF low, v
    <3> QED
      BY <2>1, <3>5, <3>6 DEF TarjanStates
  <2> QED
    BY <2>2, <2>3
<1> HIDE DEF v, closed
<1>14. Apart(v)
  <2>1. DOMAIN v.low = DOMAIN v.index
    BY <1>13 DEF Apart
  <2>2. \A k \in 1 .. Len(stack) : stack[k] \in DOMAIN t.index
    BY <1>6, <1>8
  <2>3. \A j, k \in 1 .. Len(stack) : stack[j] = stack[k] => j = k
    BY <1>8 DEF Apart, L
  <2>4. \A i \in 1 .. Len(found) :
           /\ found[i] \subseteq DOMAIN t.index
           /\ \A k \in 1 .. Len(stack) : stack[k] \notin found[i]
    <3> TAKE i \in 1 .. Len(found)
    <3>1. CASE i \in 1 .. Len(t.found) /\ found[i] = t.found[i]
      BY <1>8, <3>1 DEF Apart, L
    <3>2. CASE root /\ found[i] = component
      BY <1>11, <1>12, <3>2
    <3> QED
      BY <1>10, <3>1, <3>2
  <2>5. \A i, j \in 1 .. Len(found) : i # j => found[i] \cap found[j] = {}
    <3> TAKE i, j \in 1 .. Len(found)
    <3>1. \A m, n \in 1 .. Len(t.found) : m # n => t.found[m] \cap t.found[n] = {}
      BY DEF Apart
    <3> QED
      BY <1>10, <1>12, <3>1
  <2> QED
    BY <1>13, <2>1, <2>2, <2>3, <2>4, <2>5 DEF Apart
<1>15. /\ Left(v)
       /\ v.work # <<>> => Last(v.work).next # 0 /\ Len(v.work) = W - 1
  <2>1. \A k \in 1 .. W - 1 : t.work[k].next # 0
    BY DEF Left, W
  <2>2. \A k \in 1 .. Len(v.work) : v.work[k].next # 0
    BY <1>3, <1>13, <2>1
  <2>3. v.work # <<>> => Len(v.work) \in 1 .. Len(v.work) /\ Last(v.work) = v.work[Len(v.work)]
    <3>1. work # <<>> => Len(work) \in Nat \ {0}
      BY <1>3, LastAndFront
    <3> QED
      BY <1>13, <3>1 DEF Last
  <2>4. \A k \in 1 .. Len(v.work) - 1 : k \in 1 .. Len(v.work)
    BY <1>2, <1>3, <1>13
  <2> QED
    BY <1>3, <1>13, <2>2, <2>3, <2>4 DEF Left
<1>16. Placed(v, W - 1)
  <2>1. /\ \A i \in 1 .. W : \E p \in 1 .. L : t.stack[p] = t.work[i].node
        /\ \A i, j \in 1 .. W : \A p, r \in 1 .. L :
             i < j /\ t.stack[p] = t.work[i].node /\ t.stack[r] = t.work[j].node => p < r
    BY DEF Placed, W, L
  <2>2. \A i \in 1 .. W - 1 : i \in 1 .. W /\ i < W /\ work[i] = t.work[i] /\ W \in 1 .. W
    BY <1>2, <1>3
  <2>3. \A i \in 1 .. W - 1 : \E p \in 1 .. Len(stack) : stack[p] = work[i].node
    <3> TAKE i \in 1 .. W - 1
    <3>1. PICK p \in 1 .. L : t.stack[p] = t.work[i].node
      BY <2>1, <2>2
    <3>2. p < at
      BY <1>2, <1>4, <2>1, <2>2, <3>1
    <3>3. p \in 1 .. Len(stack)
      BY <1>1, <1>4, <1>8, <3>1, <3>2
    <3> QED
      BY <1>8, <2>2, <3>1, <3>3
  <2>4. ASSUME NEW i \in 1 .. W - 1, NEW j \in 1 .. W - 1,
               NEW p \in 1 .. Len(stack), NEW r \in 1 .. Len(stack),
               i < j, stack[p] = work[i].node, stack[r] = work[j].node
        PROVE  p < r
    BY <1>8, <2>1, <2>2, <2>4
  <2> QED
    BY <1>13, <2>3, <2>4 DEF Placed
<1>17. v.work # <<>> => Opened(v)
  BY <1>15, <1>16 DEF Opened
<1> QED
  BY <1>13, <1>14, <1>15, <1>17 DEF Sound, v

LEMMA AdvanceKeeps ==
  ASSUME NEW N \in SUBSET Nat, NEW adjacency, DOMAIN adjacency = N,
         \A n \in N : \A k \in 1 .. Len(adjacency[n]) : adjacency[n][k].key[1] \in N,
         \A n \in N : Len(adjacency[n]) \in Nat,
         NEW t \in Sound(N)
  PROVE  Advance(adjacency, t) \in Sound(N)
<1> DEFINE starts == DOMAIN adjacency \ DOMAIN t.index
           node == Last(t.work).node
           next == Last(t.work).next
           entered == Enter(t, node)
<1>1. t \in TarjanStates(N) /\ Apart(t) /\ Left(t) /\ t.work \in Seq([node : N, next : Nat])
  BY DEF Sound, TarjanStates
<1>2. CASE t.work = <<>> /\ starts = {}
  BY <1>2 DEF Advance
<1>3. CASE t.work = <<>> /\ starts # {}
  <2> DEFINE frame == [node |-> Min(starts), next |-> 0]
             v == [t EXCEPT !.work = <<frame>>]
  <2>1. Advance(adjacency, t) = v
    BY <1>3 DEF Advance
  <2>2. Min(starts) \in N /\ Min(starts) \notin DOMAIN t.index
    BY <1>3, MinOfNaturals
  <2>3. /\ frame \in [node : N, next : Nat] /\ frame.next = 0 /\ frame.node \notin DOMAIN t.index
    BY <2>2
  <2> HIDE DEF frame
  <2>4. /\ <<frame>> \in Seq([node : N, next : Nat]) /\ Len(<<frame>>) = 1
        /\ Last(<<frame>>) = frame
    BY <2>3 DEF Last
  <2>5. /\ v \in TarjanStates(N) /\ v.work = <<frame>> /\ v.index = t.index /\ v.low = t.low
        /\ v.stack = t.stack /\ v.found = t.found
    BY <1>1, <2>4 DEF TarjanStates
  <2> HIDE DEF v
  <2>6. Apart(v)
    BY <1>1, <2>5 DEF Apart
  <2>7. Left(v) /\ Placed(v, Len(v.work) - 1)
    BY <2>4, <2>5 DEF Left, Placed
  <2>8. Opened(v)
    BY <2>3, <2>4, <2>5, <2>7 DEF Opened
  <2> QED
    BY <2>1, <2>5, <2>6, <2>7, <2>8 DEF Sound
<1>4. CASE t.work # <<>>
  <2>1. /\ entered \in TarjanStates(N) /\ Apart(entered) /\ entered.work = t.work
        /\ Placed(entered, Len(entered.work))
    BY <1>4, EnterKeeps
  <2>2. Left(entered) /\ entered.work # <<>> /\ Last(entered.work).node = node
    BY <1>1, <1>4, <2>1 DEF Left
  <2>3. node \in N /\ next \in Nat
    <3>1. Last(t.work) \in [node : N, next : Nat]
      BY <1>1, <1>4, LastAndFront
    <3> QED
      BY <3>1
  <2> HIDE DEF entered, node, next
  <2>4. CASE next < Len(adjacency[node])
    <3> DEFINE child == adjacency[node][next + 1].key[1]
    <3>1. child \in N
      <4>1. next + 1 \in 1 .. Len(adjacency[node])
        BY <2>3, <2>4
      <4> QED
        BY <2>3, <4>1
    <3>2. Advance(adjacency, t) = VisitChild(entered, node, child)
      BY <1>4, <2>4 DEF Advance, entered, node, next
    <3> HIDE DEF child
    <3> QED
      BY <2>1, <2>2, <3>1, <3>2, VisitKeeps
  <2>5. CASE ~(next < Len(adjacency[node]))
    <3>1. Advance(adjacency, t) = Leave(entered, node)
      BY <1>4, <2>5 DEF Advance, entered, node, next
    <3> QED
      BY <2>1, <2>2, <3>1, LeaveKeeps
  <2> QED
    BY <2>4, <2>5
<1> QED
  BY <1>2, <1>3, <1>4

\* Its runs: each state is sound and advances to the next.
LEMMA TarjanRuns ==
  ASSUME NEW N \in SUBSET Nat, NEW adjacency, DOMAIN adjacency = N,
         \A n \in N : \A k \in 1 .. Len(adjacency[n]) : adjacency[n][k].key[1] \in N,
         \A n \in N : Len(adjacency[n]) \in Nat
  PROVE  LET run == Tarjan(adjacency)
         IN  /\ run[0] = NotStarted
             /\ \A n \in Nat : run[n] \in Sound(N) /\ run[n + 1] = Advance(adjacency, run[n])
<1> DEFINE S == Sound(N)
           Unfolds(f) == f = [n \in Nat |-> IF n = 0 THEN NotStarted
                                            ELSE Advance(adjacency, f[n - 1])]
           run == CHOOSE f : Unfolds(f)
<1>1. Tarjan(adjacency) = run
  BY DEF Tarjan
<1>2. NotStarted \in S
  <2>1. <<>> \in Tables(N)
    <3>1. <<>> \in [{} -> Nat]
      OBVIOUS
    <3> QED
      BY <3>1 DEF Tables
  <2>2. /\ NotStarted.work = <<>> /\ NotStarted.index = <<>> /\ NotStarted.low = <<>>
        /\ NotStarted.counter = 0 /\ NotStarted.stack = <<>> /\ NotStarted.found = <<>>
    BY DEF NotStarted
  <2>3. NotStarted \in TarjanStates(N)
    BY <2>1 DEF NotStarted, TarjanStates
  <2>4. Apart(NotStarted) /\ Left(NotStarted)
    BY <2>2 DEF Apart, Left
  <2> QED
    BY <2>2, <2>3, <2>4 DEF Sound
<1>3. \A t \in S : Advance(adjacency, t) \in S
  BY AdvanceKeeps
<1> HIDE DEF S
<1>4. \E f : Unfolds(f)
  <2> DEFINE step == [t \in S |-> Advance(adjacency, t)]
  <2>1. step \in [S -> S]
    BY <1>3
  <2>2. PICK f \in [Nat -> S] :
               f[0] = NotStarted /\ \A n \in Nat : f[n + 1] = step[f[n]]
    <3> HIDE DEF step
    <3> QED
      BY <1>2, <2>1, Iterates
  <2>3. \A n \in Nat : f[n] = IF n = 0 THEN NotStarted ELSE Advance(adjacency, f[n - 1])
    <3> TAKE n \in Nat
    <3>1. CASE n = 0
      BY <2>2, <3>1
    <3>2. CASE n # 0
      <4>1. n - 1 \in Nat /\ (n - 1) + 1 = n
        BY <3>2
      <4>2. f[n] = step[f[n - 1]] /\ f[n - 1] \in S
        BY <2>2, <4>1
      <4> QED
        BY <3>2, <4>2
    <3> QED
      BY <3>1, <3>2
  <2>4. f = [n \in Nat |-> IF n = 0 THEN NotStarted ELSE Advance(adjacency, f[n - 1])]
    BY <2>3
  <2> QED
    BY <2>4
<1>5. Unfolds(run)
  BY <1>4
<1> HIDE DEF run
<1>6. run[0] = NotStarted /\ \A n \in Nat : run[n + 1] = Advance(adjacency, run[n])
  <2>1. \A n \in Nat : run[n] = IF n = 0 THEN NotStarted ELSE Advance(adjacency, run[n - 1])
    BY <1>5
  <2>2. \A n \in Nat : n + 1 \in Nat /\ n + 1 # 0 /\ (n + 1) - 1 = n
    OBVIOUS
  <2> HIDE DEF Unfolds
  <2> QED
    BY <2>1, <2>2
<1> DEFINE sound == {n \in Nat : run[n] \in S}
<1>7. 0 \in sound /\ \A n \in sound : n + 1 \in sound
  BY <1>2, <1>3, <1>6
<1>8. sound = Nat
  BY <1>7, Induction
<1>9. \A n \in Nat : run[n] \in S
  BY <1>8
<1> QED
  BY <1>1, <1>6, <1>9 DEF S

\* Its components are sets of nodes, and two of them have no node in common.
LEMMA TarjanFinds ==
  ASSUME NEW N \in SUBSET Nat, NEW adjacency, DOMAIN adjacency = N,
         \A n \in N : \A k \in 1 .. Len(adjacency[n]) : adjacency[n][k].key[1] \in N,
         \A n \in N : Len(adjacency[n]) \in Nat,
         NEW steps \in Nat
  PROVE  LET found == Tarjan(adjacency)[steps].found
         IN  /\ found \in Seq(SUBSET N)
             /\ \A i, j \in 1 .. Len(found) : i # j => found[i] \cap found[j] = {}
<1>1. Tarjan(adjacency)[steps] \in Sound(N)
  BY TarjanRuns
<1> QED
  BY <1>1 DEF Sound, TarjanStates, Apart

RowOf(e) == [key |-> <<e.target, KindRank(e.kind), e.subKind, TrustRank(e.certainty)>>]

\* A node's row for each of its edges, once.
LEMMA AdjacentRows ==
  ASSUME NEW edges \in SUBSET Edge, IsFiniteSet(edges)
  PROVE  LET adjacency == BuildAdjacency(edges)
         IN  /\ Ends(edges) \in SUBSET Nat /\ DOMAIN adjacency = Ends(edges)
             /\ \A e \in edges : RowOf(e).key[1] = e.target
             /\ \A n \in Ends(edges) :
                  /\ Len(adjacency[n]) \in Nat
                  /\ \A k \in 1 .. Len(adjacency[n]) :
                       \E e \in edges : e.source = n /\ adjacency[n][k] = RowOf(e)
                  /\ \A e \in edges : e.source = n =>
                       \E k \in 1 .. Len(adjacency[n]) : adjacency[n][k] = RowOf(e)
                  /\ \A k, l \in 1 .. Len(adjacency[n]) : adjacency[n][k] = adjacency[n][l] => k = l
<1> DEFINE From(n) == {f \in edges : f.source = n}
           Rows(n) == {RowOf(e) : e \in From(n)}
<1>1. \A e \in edges : /\ e.source \in Nat /\ e.target \in Nat /\ e.subKind \in Nat
                       /\ KindRank(e.kind) \in Nat /\ TrustRank(e.certainty) \in Nat
  BY KindRankInjective DEF Edge, TrustRank
<1>2. Ends(edges) \in SUBSET Nat
  BY <1>1 DEF Ends
<1>3. BuildAdjacency(edges) = [n \in Ends(edges) |-> ByKey(Rows(n))]
  BY DEF BuildAdjacency, RowOf
<1>4. \A e \in edges : RowOf(e).key[1] = e.target
  BY DEF RowOf
<1>5. ASSUME NEW n \in Ends(edges)
      PROVE  LET list == ByKey(Rows(n))
             IN  /\ Len(list) \in Nat
                 /\ \A k \in 1 .. Len(list) : list[k] \in Rows(n)
                 /\ \A r \in Rows(n) : \E k \in 1 .. Len(list) : list[k] = r
                 /\ \A k, l \in 1 .. Len(list) : list[k] = list[l] => k = l
  <2>1. \A r \in Rows(n) : r.key \in Key(4)
    <3> SUFFICES ASSUME NEW e \in From(n) PROVE RowOf(e).key \in Key(4)
      OBVIOUS
    <3>1. e \in edges
      OBVIOUS
    <3> QED
      BY <1>1, <3>1 DEF Key, RowOf
  <2>2. \A r, s \in Rows(n) : r.key = s.key => r = s
    BY DEF RowOf
  <2>3. IsFiniteSet(Rows(n))
    <3> DEFINE f == [e \in From(n) |-> RowOf(e)]
    <3>1. f \in [From(n) -> Rows(n)] /\ \A r \in Rows(n) : \E e \in From(n) : f[e] = r
      OBVIOUS
    <3>2. IsFiniteSet(From(n))
      BY FS_Subset
    <3> HIDE DEF f, Rows, From
    <3> QED
      BY <3>1, <3>2, FiniteImage
  <2> DEFINE rows == Rows(n)
             list == ByKey(rows)
  <2> HIDE DEF Rows
  <2>4. Keyed(rows, 4)
    BY <2>1, <2>2, <2>3 DEF Keyed
  <2> HIDE DEF rows
  <2>5. /\ Cardinality(rows) \in Nat
        /\ list \in [1 .. Cardinality(rows) -> rows]
        /\ Len(list) = Cardinality(rows)
        /\ \A k \in 1 .. Cardinality(rows) : Rank(rows, list[k].key) = k - 1
        /\ \A r \in rows : r = list[Rank(rows, r.key) + 1]
    BY <2>4, ByKeyLists
  <2> HIDE DEF list
  <2>6. ASSUME NEW k \in 1 .. Cardinality(rows), NEW l \in 1 .. Cardinality(rows), list[k] = list[l]
        PROVE  k = l
    <3>1. k - 1 = l - 1
      BY <2>5, <2>6
    <3> QED
      BY <2>5, <3>1
  <2>7. \A r \in rows : Rank(rows, r.key) + 1 \in 1 .. Cardinality(rows)
    BY <2>4, <2>5, RankOf
  <2> QED
    BY <2>5, <2>6, <2>7 DEF list, rows
<1> HIDE DEF Rows
<1>6. ASSUME NEW n \in Ends(edges)
      PROVE  LET list == BuildAdjacency(edges)[n]
             IN  /\ Len(list) \in Nat
                 /\ \A k \in 1 .. Len(list) : \E e \in edges : e.source = n /\ list[k] = RowOf(e)
                 /\ \A e \in edges : e.source = n => \E k \in 1 .. Len(list) : list[k] = RowOf(e)
                 /\ \A k, l \in 1 .. Len(list) : list[k] = list[l] => k = l
  <2> DEFINE list == ByKey(Rows(n))
  <2>1. BuildAdjacency(edges)[n] = list
    BY <1>3
  <2>2. /\ Len(list) \in Nat
        /\ \A k \in 1 .. Len(list) : list[k] \in Rows(n)
        /\ \A r \in Rows(n) : \E k \in 1 .. Len(list) : list[k] = r
        /\ \A k, l \in 1 .. Len(list) : list[k] = list[l] => k = l
    BY <1>5
  <2>3. \A r \in Rows(n) : \E e \in edges : e.source = n /\ r = RowOf(e)
    BY DEF Rows
  <2>4. \A e \in edges : e.source = n => RowOf(e) \in Rows(n)
    BY DEF Rows
  <2> HIDE DEF list
  <2>5. ASSUME NEW k \in 1 .. Len(list)
        PROVE  \E e \in edges : e.source = n /\ list[k] = RowOf(e)
    <3>1. list[k] \in Rows(n)
      BY <2>2
    <3> QED
      BY <2>3, <3>1
  <2>6. ASSUME NEW e \in edges, e.source = n
        PROVE  \E k \in 1 .. Len(list) : list[k] = RowOf(e)
    <3>1. RowOf(e) \in Rows(n)
      BY <2>4, <2>6
    <3> QED
      BY <2>2, <3>1
  <2> QED
    BY <2>1, <2>2, <2>5, <2>6
<1> QED
  BY <1>2, <1>3, <1>4, <1>6

LEMMA AdjacencyOf ==
  ASSUME NEW edges \in SUBSET Edge, IsFiniteSet(edges)
  PROVE  LET adjacency == BuildAdjacency(edges)
         IN  /\ Ends(edges) \in SUBSET Nat
             /\ DOMAIN adjacency = Ends(edges)
             /\ \A n \in Ends(edges) : Len(adjacency[n]) \in Nat
             /\ \A n \in Ends(edges) : \A k \in 1 .. Len(adjacency[n]) :
                   adjacency[n][k].key[1] \in Ends(edges)
<1>1. \A e \in edges : e.target \in Ends(edges)
  BY DEF Ends
<1> QED
  BY <1>1, AdjacentRows

\* The cycles of a set of edges have an identity of their own.
LEMMA CycleRows ==
  ASSUME NEW edges \in SUBSET Edge, IsFiniteSet(edges)
  PROVE  Keyed({[key |-> <<c.id>>, item |-> c] : c \in FindCycles(edges)}, 1)
<1> DEFINE N == Ends(edges)
           steps == 2 * Cardinality(Ends(edges)) + Cardinality(edges)
           found == Tarjan(BuildAdjacency(edges))[steps].found
           components == ToSet(found)
           Within(c) == {e \in edges : e.source \in c /\ e.target \in c}
           cyclic == {d \in components : Cardinality(d) > 1 \/ Within(d) # {}}
           Cycle(c) == [id |-> Min(c), members |-> FirstOf(Sorted(c), MemberCap),
                        length |-> Cardinality(c),
                        candidate |-> \E e \in Within(c) : e.certainty = "inferred",
                        truncated |-> Cardinality(c) > MemberCap]
           cycles == {Cycle(c) : c \in cyclic}
<1>1. FindCycles(edges) = cycles
  BY DEF FindCycles
<1>2. N \in SUBSET Nat /\ steps \in Nat
  <2>1. IsFiniteSet(N)
    <3> DEFINE sources == {e.source : e \in edges}
               targets == {e.target : e \in edges}
               f == [e \in edges |-> e.source]
               h == [e \in edges |-> e.target]
    <3>1. /\ f \in [edges -> sources] /\ \A s \in sources : \E e \in edges : f[e] = s
          /\ h \in [edges -> targets] /\ \A s \in targets : \E e \in edges : h[e] = s
      OBVIOUS
    <3>2. N = sources \cup targets
      BY DEF Ends
    <3> HIDE DEF f, h, sources, targets, N
    <3>3. IsFiniteSet(sources) /\ IsFiniteSet(targets)
      BY <3>1, FiniteImage
    <3> QED
      BY <3>2, <3>3, FS_Union
  <2>2. Cardinality(N) \in Nat /\ Cardinality(edges) \in Nat
    BY <2>1, FS_CardinalityType
  <2> QED
    BY <2>2, AdjacencyOf
<1> HIDE DEF steps
<1>3. /\ found \in Seq(SUBSET N)
      /\ \A i, j \in 1 .. Len(found) : i # j => found[i] \cap found[j] = {}
  <2> DEFINE adjacency == BuildAdjacency(edges)
  <2>1. /\ DOMAIN adjacency = N
        /\ \A n \in N : \A k \in 1 .. Len(adjacency[n]) : adjacency[n][k].key[1] \in N
        /\ \A n \in N : Len(adjacency[n]) \in Nat
    BY AdjacencyOf
  <2> HIDE DEF adjacency, N
  <2> QED
    BY <1>2, <2>1, TarjanFinds DEF adjacency
<1> HIDE DEF found
<1>4. components = {found[k] : k \in 1 .. Len(found)} /\ Len(found) \in Nat
  BY <1>3 DEF ToSet
<1>5. \A c \in cyclic : c \in SUBSET Nat /\ c # {}
  <2>1. \A c \in components : c \in SUBSET Nat
    BY <1>2, <1>3, <1>4
  <2>2. Cardinality({}) = 0 /\ ~(0 > 1)
    BY FS_EmptySet
  <2> QED
    BY <2>1, <2>2
<1>6. \A c, d \in cyclic : c \cap d # {} => c = d
  BY <1>3, <1>4
<1>7. IsFiniteSet(cyclic)
  <2> DEFINE f == [k \in 1 .. Len(found) |-> found[k]]
  <2>1. f \in [1 .. Len(found) -> components]
        /\ \A c \in components : \E k \in 1 .. Len(found) : f[k] = c
    BY <1>4
  <2>2. IsFiniteSet(1 .. Len(found))
    BY <1>4, FS_Interval
  <2> HIDE DEF f, components
  <2>3. IsFiniteSet(components)
    BY <2>1, <2>2, FiniteImage
  <2> QED
    BY <2>3, FS_Subset
<1> HIDE DEF cyclic
<1>8. \A c \in cyclic : Cycle(c).id = Min(c) /\ Min(c) \in c /\ Min(c) \in Nat
  BY <1>5, MinOfNaturals
<1> HIDE DEF Cycle
<1>9. IsFiniteSet(cycles)
  <2> DEFINE f == [c \in cyclic |-> Cycle(c)]
  <2>1. f \in [cyclic -> cycles] /\ \A x \in cycles : \E c \in cyclic : f[c] = x
    OBVIOUS
  <2> HIDE DEF f, cycles
  <2> QED
    BY <1>7, <2>1, FiniteImage
<1>10. /\ \A x \in cycles : x.id \in Nat
       /\ \A x, y \in cycles : x.id = y.id => x = y
  BY <1>6, <1>8
<1> HIDE DEF cycles
<1> QED
  BY <1>1, <1>9, <1>10, NodeRows

-----------------------------------------------------------------------------
(* The inductive invariant.                                                *)

Listy(s) == s \in Seq({s[k] : k \in 1 .. Len(s)})
Prev(ps, i) == IF i = 1 THEN <<>> ELSE ps[i - 1].next
Plain == Listed \cup {"nodeDetail"}
Fields == {"at", "cursor", "total", "rows", "shown", "truncated"}

Limit(q, list, hd) == CASE list = "cyclic" \/ q.view = "nodeDetail" -> PageLimit
                        [] list = "references" -> Len(hd[1].payload)
                        [] OTHER -> q.limit
Drawing(list, q, hd, g) ==
  IF list = "counts" THEN {<<id, ChildCount(g, q.level, id)>> : id \in hd[1].ids}
  ELSE ProjectedEdges(g, q.level, hd[1].ids)

\* What a page shows of a list, read in one of some graphs and shown with the
\* nodes of another one.
Filled(items, next, list, q, cursor, limit, graphs) ==
  /\ \E g \in graphs : PageOf(items, next, ListRows(g, list, q), cursor, limit)
  /\ list \in Hydrates =>
       \E h \in graphs : \A k \in 1 .. Len(items) : items[k].node = Hydrated(h, NodeId(list, items[k]))
CountedOn(total, list, q, cursor, graphs, now) ==
  list \in Counted /\ cursor = <<>> /\ graphs = {now} => total = Cardinality(ListRows(now, list, q))

\* The stages of a read of one page.
PagedRead(list, read, q, limit, cursor, graphs, now) ==
  /\ read.at \in {"count", "rows", "nodes", "done"}
  /\ read.at \in {"count", "rows"} => read.cursor = cursor /\ read.shown = <<>>
  /\ read.at = "nodes" =>
       /\ list \in Hydrates /\ read.shown = <<>>
       /\ \E g \in graphs :
            read.rows = FirstOf(ByKey(After(ListRows(g, list, q), cursor)), limit + 1)
  /\ read.at = "done" => Filled(read.shown, read.cursor, list, q, cursor, limit, graphs)
  /\ read.at # "count" => CountedOn(read.total, list, q, cursor, graphs, now)

Binds(q, hd, graphs, now) ==
  q.view = "callBindings" /\ graphs = {now} /\ hd[1].payload # <<>>

ReadIs(list, read, q, hd, cursor, graphs, now) ==
  /\ DOMAIN read = Fields
  /\ q.view \in Plain \/ Binds(q, hd, graphs, now) =>
       PagedRead(list, read, q, Limit(q, list, hd), cursor, graphs, now)
  /\ q.view = "cycles" => /\ read.at \in {"rows", "done"}
                          /\ Listy(read.shown)
                          /\ \A k \in 1 .. Len(read.shown) : read.shown[k].item \in Edge
  /\ q.view = "map" => /\ read.at \in {"map", "done"}
                       /\ read.at = "done" /\ graphs = {now} =>
                            read.shown = <<Drawing(list, q, hd, now)>>

HeadIs(hd, q, graphs, now) ==
  /\ hd # <<>> /\ q.view \in {"nodeDetail", "callBindings"} =>
       \E g \in graphs : \E n \in g.nodes :
          hd[1] = n /\ n.id = q.id /\ (q.view = "callBindings" => n.kind = "callSite")
  /\ hd # <<>> /\ q.view = "map" /\ graphs = {now} =>
       LET hidden == {n.id : n \in ContainerRows(now, q.level, q.scope)} \ hd[1].ids
       IN  /\ hd[1].truncated = (hidden # {})
           /\ \A i \in hd[1].ids, j \in hidden : i < j

PagesIs(ps, q, hd, graphs, now) ==
  /\ Listy(ps)
  /\ \A i \in 1 .. Len(ps) - 1 : ps[i].next # <<>>
  /\ HasHead(q) => Len(ps) <= 1 /\ (ps # <<>> => ps[1].next = <<>>)
  /\ q.view \in Listed =>
       /\ \A i \in 1 .. Len(ps) :
            Filled(ps[i].items, ps[i].next, ListOf(q), q, Prev(ps, i), q.limit, graphs)
       /\ ps # <<>> => CountedOn(ps[1].total, ListOf(q), q, <<>>, graphs, now)
  /\ q.view = "cycles" =>
       \A i \in 1 .. Len(ps) : \E rows :
          Keyed(rows, 1) /\ PageOf(ps[i].items, ps[i].next, rows, Prev(ps, i), q.limit)
  /\ q.view = "nodeDetail" /\ ps # <<>> =>
       \A part \in ps[1].more :
          /\ part.list \in Lists(q)
          /\ Filled(part.read.shown, part.read.cursor, part.list, q, <<>>, PageLimit, graphs)
          /\ CountedOn(part.read.total, part.list, q, <<>>, graphs, now)
  /\ q.view = "callBindings" /\ ps # <<>> /\ hd # <<>> /\ graphs = {now} =>
       ps[1].items = CallBindings(now, hd[1])
  /\ q.view = "map" /\ ps # <<>> => hd # <<>>
  /\ q.view = "map" /\ ps # <<>> /\ graphs = {now} =>
       /\ \A part \in ps[1].more : part.read.shown = <<Drawing(part.list, q, hd, now)>>
       /\ \A list \in {"counts", "edges"} : \E part \in ps[1].more : part.list = list

Flow ==
  /\ reads = <<>> \/ DOMAIN reads = Lists(request[1])
  /\ HasHead(request[1]) /\ reads # <<>> => head # <<>> /\ pages = <<>>
  /\ reads # <<>> /\ pages # <<>> => ClientCursor # <<>>

TypeInv ==
  /\ stored \in Graphs \cup Versions
  /\ versions \subseteq Graphs \cup Versions
  /\ Idle => head = <<>> /\ reads = <<>> /\ pages = <<>>
  /\ ~Idle => request[1] \in Requests /\ Valid(request[1]) /\ stored \in versions

ReadsInv == \A list \in DOMAIN reads :
              ReadIs(list, reads[list], request[1], head, ClientCursor, versions, stored)
HeadInv == HeadIs(head, request[1], versions, stored)
PagesInv == PagesIs(pages, request[1], head, versions, stored)

ServeInv == TypeInv /\ (~Idle => Flow /\ HeadInv /\ ReadsInv /\ PagesInv)

LEMMA EmptyListy ==
  Listy(<<>>) /\ Len(<<>>) = 0 /\ DOMAIN <<>> = {}
BY DEF Listy

LEMMA SeqListy ==
  ASSUME NEW S, NEW s \in Seq(S)
  PROVE  Listy(s) /\ Len(s) \in Nat /\ DOMAIN s = 1 .. Len(s)
BY DEF Listy

LEMMA ListyFacts ==
  ASSUME NEW s, Listy(s)
  PROVE  /\ Len(s) \in Nat /\ DOMAIN s = 1 .. Len(s)
         /\ s # <<>> <=> Len(s) # 0
         /\ s # <<>> => Len(s) \in 1 .. Len(s) /\ Last(s) = s[Len(s)]
         /\ ToSet(s) = {s[k] : k \in 1 .. Len(s)}
         /\ <<>> \o s = s
<1> DEFINE S == {s[k] : k \in 1 .. Len(s)}
<1>1. s \in Seq(S)
  BY DEF Listy
<1> HIDE DEF S
<1>2. Len(s) \in Nat /\ DOMAIN s = 1 .. Len(s) /\ (s # <<>> <=> Len(s) # 0) /\ <<>> \o s = s
  BY <1>1
<1>3. Last(s) = s[Len(s)]
  BY DEF Last
<1>4. ToSet(s) = {s[k] : k \in 1 .. Len(s)}
  BY <1>2 DEF ToSet
<1> QED
  BY <1>2, <1>3, <1>4

LEMMA ListyAppend ==
  ASSUME NEW s, Listy(s), NEW x
  PROVE  /\ Listy(Append(s, x))
         /\ Append(s, x) # <<>>
         /\ Len(Append(s, x)) = Len(s) + 1
         /\ Append(s, x)[Len(s) + 1] = x
         /\ \A k \in 1 .. Len(s) : Append(s, x)[k] = s[k]
<1> DEFINE S == {s[k] : k \in 1 .. Len(s)}
           T == S \cup {x}
<1>1. s \in Seq(S)
  BY DEF Listy
<1> HIDE DEF S
<1>2. s \in Seq(T) /\ x \in T
  BY <1>1
<1> HIDE DEF T
<1>3. /\ Append(s, x) \in Seq(T) /\ Len(Append(s, x)) = Len(s) + 1
      /\ Append(s, x)[Len(s) + 1] = x
      /\ \A k \in 1 .. Len(s) : Append(s, x)[k] = s[k]
  BY <1>2
<1>4. Listy(Append(s, x))
  BY <1>3, SeqListy
<1>5. Len(s) + 1 # 0
  BY <1>2
<1> QED
  BY <1>3, <1>4, <1>5, EmptyListy

LEMMA ListyConcat ==
  ASSUME NEW s, Listy(s), NEW t, Listy(t)
  PROVE  /\ Listy(s \o t)
         /\ \A k \in 1 .. Len(s \o t) : \/ \E j \in 1 .. Len(s) : (s \o t)[k] = s[j]
                                        \/ \E j \in 1 .. Len(t) : (s \o t)[k] = t[j]
<1> DEFINE S == {s[k] : k \in 1 .. Len(s)}
           T == {t[k] : k \in 1 .. Len(t)}
           U == S \cup T
<1>1. s \in Seq(S) /\ t \in Seq(T)
  BY DEF Listy
<1>2. \A x \in S \cup T : \/ \E j \in 1 .. Len(s) : x = s[j]
                          \/ \E j \in 1 .. Len(t) : x = t[j]
  OBVIOUS
<1> HIDE DEF S, T
<1>3. s \in Seq(U) /\ t \in Seq(U)
  BY <1>1
<1> HIDE DEF U
<1>4. s \o t \in Seq(U)
  BY <1>3
<1>5. \A k \in 1 .. Len(s \o t) : (s \o t)[k] \in U
  BY <1>4
<1> QED
  BY <1>2, <1>4, <1>5, SeqListy DEF U

Stored(graphs) == \A g \in graphs : StoredGraph(g) /\ BindsEachOnce(g)

\* What a request asks for.
LEMMA ListsOf ==
  ASSUME NEW q \in Requests
  PROVE  /\ q.view \in Listed => /\ Lists(q) = {ListOf(q)}
                                 /\ ListOf(q) \in ListNames \ {"cyclic", "references"}
                                 /\ ~HasHead(q)
         /\ q.view = "nodeDetail" => /\ Lists(q) \subseteq ListNames \ {"cyclic", "references"}
                                     /\ HasHead(q)
         /\ q.view = "callBindings" => Lists(q) = {"references"} /\ HasHead(q)
         /\ q.view = "cycles" => Lists(q) = {"cyclic"} /\ ~HasHead(q)
         /\ q.view = "map" => Lists(q) = {"counts", "edges"} /\ HasHead(q)
         /\ q.view \in Plain \cup {"callBindings", "cycles", "map"}
<1>1. /\ q.view \in {"nodeDetail", "neighbors", "callBindings", "cycles", "map",
                     "declaredInterface", "declarations", "callSites", "search",
                     "nameCollisions", "unusedSymbols", "blastRadius"}
      /\ q.direction \in {"in", "out"}
  BY DEF Requests
<1>2. q.view = "nodeDetail" => Lists(q) = {"declaredInterface", "in", "out", "callSites"} /\ HasHead(q)
  BY DEF Lists, HasHead
<1>3. q.view = "callBindings" => Lists(q) = {"references"} /\ HasHead(q)
  BY DEF Lists, HasHead
<1>4. q.view = "cycles" => Lists(q) = {"cyclic"} /\ ~HasHead(q)
  BY DEF Lists, HasHead
<1>5. q.view = "map" => Lists(q) = {"counts", "edges"} /\ HasHead(q)
  BY DEF Lists, HasHead
<1>6. CASE q.view = "neighbors"
  BY <1>1, <1>6 DEF Lists, ListOf, HasHead, ListNames, Listed, Plain
<1>7. CASE q.view \in Listed \ {"neighbors"}
  <2>1. Lists(q) = {q.view} /\ ListOf(q) = q.view /\ ~HasHead(q)
    BY <1>7 DEF Lists, ListOf, HasHead, Listed
  <2> QED
    BY <1>7, <2>1 DEF ListNames, Listed, Plain
<1>8. CASE q.view \notin Listed
  BY <1>1, <1>2, <1>3, <1>4, <1>5, <1>8 DEF Listed, Plain, ListNames
<1> QED
  BY <1>6, <1>7, <1>8

LEMMA LimitIs ==
  ASSUME NEW q, NEW list
  PROVE  LimitOf(q, list) = Limit(q, list, head)
BY DEF LimitOf, Limit

\* A read that has not started yet.
LEMMA FreshIs ==
  ASSUME NEW q \in Requests, NEW list \in Lists(q), NEW cursor, NEW hd, NEW graphs, NEW now
  PROVE  ReadIs(list, Fresh(list, IF q.view = "cycles" THEN <<>> ELSE cursor),
                q, hd, cursor, graphs, now)
<1> DEFINE c == IF q.view = "cycles" THEN <<>> ELSE cursor
           r == Fresh(list, c)
<1>1. /\ DOMAIN r = Fields
      /\ r.at = CASE list \in Counted /\ c = <<>> -> "count"
                  [] list \in {"counts", "edges"} -> "map"
                  [] OTHER -> "rows"
      /\ r.cursor = c /\ r.shown = <<>>
  BY DEF Fresh, Fields
<1>2. CASE q.view \in Plain \cup {"callBindings"}
  <2>1. q.view \notin {"cycles", "map"} /\ c = cursor
    BY <1>2 DEF Plain, Listed
  <2>2. list \in ListNames
    BY <1>2, ListsOf DEF Plain, ListNames
  <2>3. list \notin {"counts", "edges"}
    BY <2>2 DEF ListNames
  <2>4. r.at \in {"count", "rows"} /\ (r.at # "count" => ~(list \in Counted /\ cursor = <<>>))
    BY <1>1, <2>1, <2>3
  <2>5. \A limit : PagedRead(list, r, q, limit, cursor, graphs, now)
    <3> HIDE DEF r
    <3> QED
      BY <1>1, <2>1, <2>4 DEF PagedRead, CountedOn
  <2> HIDE DEF r
  <2>6. ReadIs(list, r, q, hd, cursor, graphs, now)
    BY <1>1, <2>1, <2>5 DEF ReadIs
  <2> QED
    BY <2>6 DEF r
<1>3. CASE q.view = "cycles"
  <2>1. r.at = "rows"
    BY <1>1, <1>3, ListsOf DEF Counted
  <2>2. q.view \notin Plain /\ q.view # "map" /\ ~Binds(q, hd, graphs, now)
    BY <1>3 DEF Plain, Listed, Binds
  <2>3. Listy(r.shown) /\ Len(r.shown) = 0
    BY <1>1, EmptyListy
  <2> HIDE DEF r
  <2>4. ReadIs(list, r, q, hd, cursor, graphs, now)
    BY <1>1, <2>1, <2>2, <2>3 DEF ReadIs
  <2> QED
    BY <2>4 DEF r
<1>4. CASE q.view = "map"
  <2>1. list \in {"counts", "edges"}
    BY <1>4, ListsOf
  <2>2. r.at = "map"
    BY <1>1, <2>1 DEF Counted
  <2>3. q.view \notin Plain /\ q.view # "cycles" /\ ~Binds(q, hd, graphs, now)
    BY <1>4 DEF Plain, Listed, Binds
  <2> HIDE DEF r
  <2>4. ReadIs(list, r, q, hd, cursor, graphs, now)
    BY <1>1, <2>2, <2>3 DEF ReadIs
  <2> QED
    BY <2>4 DEF r
<1> QED
  BY <1>2, <1>3, <1>4, ListsOf

\* A replacement leaves true what was found in the graphs stored before it.
LEMMA GrowsFilled ==
  ASSUME NEW graphs, NEW g, NEW items, NEW next, NEW list, NEW q, NEW cursor, NEW limit,
         Filled(items, next, list, q, cursor, limit, graphs)
  PROVE  Filled(items, next, list, q, cursor, limit, graphs \cup {g})
BY DEF Filled

LEMMA Grows ==
  ASSUME NEW graphs, NEW now \in graphs, NEW g, g # now, NEW q, NEW hd
  PROVE  /\ \A list, read, cursor :
              ReadIs(list, read, q, hd, cursor, graphs, now)
                => ReadIs(list, read, q, hd, cursor, graphs \cup {g}, g)
         /\ HeadIs(hd, q, graphs, now) => HeadIs(hd, q, graphs \cup {g}, g)
         /\ \A ps : PagesIs(ps, q, hd, graphs, now) => PagesIs(ps, q, hd, graphs \cup {g}, g)
<1> DEFINE more == graphs \cup {g}
<1>1. more # {g} /\ graphs \subseteq more
  OBVIOUS
<1>2. \A items, next, list, cursor, limit :
        Filled(items, next, list, q, cursor, limit, graphs)
          => Filled(items, next, list, q, cursor, limit, more)
  BY GrowsFilled
<1> HIDE DEF more
<1>3. \A total, list, cursor : CountedOn(total, list, q, cursor, more, g)
  BY <1>1 DEF CountedOn
<1>4. ~Binds(q, hd, more, g)
  BY <1>1 DEF Binds
<1>5. ASSUME NEW list, NEW read, NEW cursor, ReadIs(list, read, q, hd, cursor, graphs, now)
      PROVE  ReadIs(list, read, q, hd, cursor, more, g)
  <2>1. ASSUME NEW limit, PagedRead(list, read, q, limit, cursor, graphs, now)
        PROVE  PagedRead(list, read, q, limit, cursor, more, g)
    BY <1>1, <1>2, <1>3, <2>1 DEF PagedRead
  <2> QED
    BY <1>1, <1>4, <1>5, <2>1 DEF ReadIs
<1>6. HeadIs(hd, q, graphs, now) => HeadIs(hd, q, more, g)
  BY <1>1 DEF HeadIs
<1>7. ASSUME NEW ps, PagesIs(ps, q, hd, graphs, now) PROVE PagesIs(ps, q, hd, more, g)
  BY <1>1, <1>2, <1>3, <1>7 DEF PagesIs
<1> QED
  BY <1>5, <1>6, <1>7 DEF more

\* A page is cut from the rows fetched for it, and its read is over.
LEMMA PagedIs ==
  ASSUME NEW q \in Requests, q = request[1], NEW list \in ListNames \ {"cyclic"},
         NEW cursor, NEW graphs, NEW g \in graphs, StoredGraph(g), NEW now,
         NEW limit \in Nat \ {0}, limit = LimitOf(q, list),
         NEW fetched, fetched = FirstOf(ByKey(After(ListRows(g, list, q), cursor)), limit + 1),
         NEW rows, Listy(rows), Len(rows) = Len(fetched),
         \A k \in 1 .. Len(rows) : Is(rows[k], fetched[k]),
         list \in Hydrates =>
           \E h \in graphs : \A k \in 1 .. Len(rows) :
              rows[k].node = Hydrated(h, NodeId(list, rows[k])),
         list = "references" => Len(fetched) <= limit,
         NEW read, DOMAIN read = Fields, read.shown = <<>>,
         CountedOn(read.total, list, q, cursor, graphs, now)
  PROVE  /\ DOMAIN Paged(list, read, rows) = Fields
         /\ PagedRead(list, Paged(list, read, rows), q, limit, cursor, graphs, now)
<1> DEFINE page == BuildPage(rows, limit)
           p == Paged(list, read, rows)
           S == {rows[k] : k \in 1 .. Len(rows)}
           keyed == ListRows(g, list, q)
<1>1. Keyed(keyed, KeyLength(list))
  BY ListsKeyed
<1>2. rows \in Seq(S)
  BY DEF Listy
<1> HIDE DEF S, keyed
<1>3. /\ PageOf(page.items, page.next, keyed, cursor, limit)
      /\ page.items \in Seq(S)
      /\ \A k \in 1 .. Len(page.items) : page.items[k] = rows[k]
      /\ Len(page.items) <= Len(rows)
  BY <1>1, <1>2, PageOfFetched DEF keyed
<1>4. list = "references" => page.next = <<>>
  BY DEF BuildPage
<1>5. Listy(page.items) /\ <<>> \o page.items = page.items
  BY <1>3, SeqListy, ListyFacts
<1>6. p = [read EXCEPT !.rows = <<>>, !.shown = page.items, !.cursor = page.next, !.at = "done"]
  <2>1. read.shown \o page.items = page.items
    BY <1>5
  <2>2. ~Drains(list, page, Len(page.items))
    BY <1>4 DEF Drains
  <2> HIDE DEF page
  <2> QED
    BY <2>1, <2>2 DEF Paged, page
<1> HIDE DEF page, p
<1>7. /\ DOMAIN p = Fields /\ p.shown = page.items /\ p.cursor = page.next /\ p.at = "done"
      /\ p.total = read.total
  BY <1>6 DEF Fields
<1>8. Filled(page.items, page.next, list, q, cursor, limit, graphs)
  <2>1. \A k \in 1 .. Len(page.items) : k \in 1 .. Len(rows) /\ page.items[k] = rows[k]
    BY <1>2, <1>3
  <2> QED
    BY <1>3, <2>1 DEF Filled, keyed
<1> QED
  BY <1>7, <1>8 DEF PagedRead, p

\* A call site has an argument for each of its references, and more.
LEMMA ReferencesFit ==
  ASSUME NEW now, StoredGraph(now), BindsEachOnce(now), NEW n \in now.nodes,
         n.kind = "callSite", NEW q \in Requests, n.id = q.id, NEW cursor
  PROVE  /\ Len(n.payload) \in Nat
         /\ Len(ByKey(After(ListRows(now, "references", q), cursor))) <= Len(n.payload)
         /\ Len(ByKey(After(ListRows(now, "references", q), cursor))) \in Nat
<1> DEFINE refs == {e \in NeighborEdges(now, q.id, "out") : e.kind = "references"}
           Entry(e) == [key |-> EdgeKey(e), item |-> e]
           rows == {Entry(e) : e \in refs}
           after == After(rows, cursor)
<1>1. ListRows(now, "references", q) = rows
  BY DEF ListRows
<1>2. Len(n.payload) \in Nat
  BY DEF StoredGraph
<1>3. IsFiniteSet(refs)
  <2>1. refs \subseteq now.edges
    BY DEF NeighborEdges
  <2> QED
    BY <2>1, FS_Subset DEF StoredGraph
<1>4. Cardinality(refs) <= Len(n.payload)
  <2>1. refs = {e \in NeighborEdges(now, n.id, "out") : n.kind = "callSite" /\ e.kind = "references"}
    OBVIOUS
  <2> HIDE DEF refs
  <2> QED
    BY <2>1 DEF BindsEachOnce
<1>5. Keyed(rows, 5)
  BY <1>1, ListsKeyed DEF ListNames, KeyLength
<1>6. Cardinality(rows) <= Cardinality(refs)
  <2> DEFINE f == [e \in refs |-> Entry(e)]
  <2>1. f \in [refs -> rows] /\ \A r \in rows : \E e \in refs : f[e] = r
    OBVIOUS
  <2> HIDE DEF f, rows, refs
  <2> QED
    BY <1>3, <2>1, FiniteImage
<1> HIDE DEF rows, refs
<1>7. Keyed(after, 5) /\ after \subseteq rows
  BY <1>5, ListAfter DEF After
<1>8. Cardinality(after) <= Cardinality(rows) /\ Cardinality(rows) \in Nat /\ Cardinality(refs) \in Nat
  BY <1>3, <1>5, <1>7, FS_Subset, FS_CardinalityType DEF Keyed
<1> HIDE DEF after
<1>9. Len(ByKey(after)) = Cardinality(after) /\ Cardinality(after) \in Nat
  BY <1>7, ByKeyLists
<1> QED
  BY <1>1, <1>2, <1>4, <1>6, <1>8, <1>9 DEF after

-----------------------------------------------------------------------------
(* The steps of a read.                                                    *)

LEMMA WhileReading ==
  ASSUME ServeInv, NEW list \in DOMAIN reads
  PROVE  /\ ~Idle /\ reads # <<>>
         /\ request[1] \in Requests /\ Valid(request[1])
         /\ stored \in versions /\ Stored(versions) /\ StoredGraph(stored)
         /\ Flow /\ HeadInv /\ ReadsInv /\ PagesInv
         /\ list \in Lists(request[1])
<1>1. reads # <<>>
  BY EmptyListy
<1>2. ~Idle
  BY <1>1 DEF ServeInv, TypeInv
<1>3. Stored(versions) /\ stored \in versions
  BY <1>2, GraphsAssumption DEF ServeInv, TypeInv, Stored
<1> QED
  BY <1>1, <1>2, <1>3 DEF ServeInv, TypeInv, Flow, Stored

LEMMA Becomes ==
  ASSUME ServeInv, NEW list \in DOMAIN reads, NEW read, Become(list, read),
         ReadIs(list, read, request[1], head, ClientCursor, versions, stored)
  PROVE  ServeInv'
<1>1. /\ reads' = [reads EXCEPT ![list] = read]
      /\ stored' = stored /\ request' = request /\ head' = head /\ pages' = pages
      /\ versions' = versions
  BY DEF Become
<1>2. ~Idle /\ reads # <<>> /\ Flow /\ HeadInv /\ ReadsInv /\ PagesInv /\ TypeInv
  BY WhileReading DEF ServeInv
<1>3. ClientCursor' = ClientCursor /\ DOMAIN reads' = DOMAIN reads
  BY <1>1 DEF ClientCursor
<1>4. TypeInv'
  BY <1>1, <1>2 DEF TypeInv, Idle
<1>5. Flow'
  <2>1. reads' # <<>>
    BY <1>1, <1>3, EmptyListy
  <2> QED
    BY <1>1, <1>2, <1>3, <2>1 DEF Flow
<1>6. HeadInv' /\ PagesInv'
  BY <1>1, <1>2 DEF HeadInv, PagesInv
<1>7. ReadsInv'
  <2>1. \A l \in DOMAIN reads : reads'[l] = IF l = list THEN read ELSE reads[l]
    BY <1>1
  <2> QED
    BY <1>1, <1>2, <1>3, <2>1 DEF ReadsInv
<1> QED
  BY <1>4, <1>5, <1>6, <1>7 DEF ServeInv

LEMMA CountRowsKeeps ==
  ASSUME ServeInv, NEW list \in DOMAIN reads, CountRows(list)
  PROVE  ServeInv'
<1> DEFINE q == request[1]
           r == reads[list]
           read == [r EXCEPT !.at = "rows", !.total = Cardinality(ListRows(stored, list, q))]
<1>1. ReadIs(list, r, q, head, ClientCursor, versions, stored) /\ r.at = "count"
  BY WhileReading DEF ReadsInv, CountRows
<1>2. Become(list, read)
  BY DEF CountRows
<1>3. DOMAIN r = Fields
  BY <1>1 DEF ReadIs
<1> HIDE DEF r
<1>4. /\ DOMAIN read = Fields /\ read.at = "rows" /\ read.shown = r.shown /\ read.cursor = r.cursor
      /\ read.total = Cardinality(ListRows(stored, list, q))
  BY <1>3 DEF Fields
<1> HIDE DEF read
<1>5. ASSUME NEW limit, PagedRead(list, r, q, limit, ClientCursor, versions, stored)
      PROVE  PagedRead(list, read, q, limit, ClientCursor, versions, stored)
  BY <1>1, <1>4, <1>5 DEF PagedRead, CountedOn
<1>6. ReadIs(list, read, q, head, ClientCursor, versions, stored)
  BY <1>1, <1>4, <1>5 DEF ReadIs
<1> QED
  BY <1>2, <1>6, Becomes

\* What limits a page.
LEMMA LimitIsPositive ==
  ASSUME ServeInv, NEW list \in DOMAIN reads,
         request[1].view \in Plain \/ Binds(request[1], head, versions, stored)
  PROVE  /\ Limit(request[1], list, head) \in Nat \ {0}
         /\ list \in ListNames \ {"cyclic"}
         /\ list = "references" =>
              /\ Len(ByKey(After(ListRows(stored, list, request[1]), ClientCursor)))
                   <= Limit(request[1], list, head)
              /\ Len(ByKey(After(ListRows(stored, list, request[1]), ClientCursor))) \in Nat
              /\ versions = {stored}
<1> DEFINE q == request[1]
<1>1. /\ q \in Requests /\ Valid(q) /\ list \in Lists(q) /\ HeadInv /\ Flow /\ reads # <<>>
      /\ StoredGraph(stored) /\ Stored(versions) /\ stored \in versions
  BY WhileReading
<1>2. CASE q.view \in Listed
  <2>1. list \in ListNames \ {"cyclic", "references"} /\ q.view # "nodeDetail"
    BY <1>1, <1>2, ListsOf DEF Listed
  <2>2. Limit(q, list, head) = q.limit
    BY <2>1 DEF Limit
  <2>3. q.limit \in Nat /\ q.limit >= 1
    BY <1>1 DEF Requests, Valid
  <2> QED
    BY <2>1, <2>2, <2>3
<1>3. CASE q.view = "nodeDetail"
  <2>1. list \in ListNames \ {"cyclic", "references"}
    BY <1>1, <1>3, ListsOf
  <2>2. Limit(q, list, head) = PageLimit
    BY <1>3, <2>1 DEF Limit
  <2> QED
    BY <2>1, <2>2, LimitsAssumption
<1>4. CASE Binds(q, head, versions, stored)
  <2>1. q.view = "callBindings" /\ versions = {stored} /\ head[1].payload # <<>>
    BY <1>4 DEF Binds
  <2>2. list = "references" /\ head # <<>>
    BY <1>1, <2>1, ListsOf DEF Flow
  <2>3. PICK n \in stored.nodes : head[1] = n /\ n.id = q.id /\ n.kind = "callSite"
    BY <1>1, <2>1, <2>2 DEF HeadInv, HeadIs
  <2>4. /\ Len(n.payload) \in Nat
        /\ Len(ByKey(After(ListRows(stored, "references", q), ClientCursor))) <= Len(n.payload)
        /\ Len(ByKey(After(ListRows(stored, "references", q), ClientCursor))) \in Nat
    BY <1>1, <2>3, ReferencesFit DEF Stored
  <2>5. Len(n.payload) # 0
    <3>1. n.payload \in Seq(Arguments)
      BY <1>1, <2>3 DEF StoredGraph
    <3> QED
      BY <2>1, <2>3, <3>1
  <2>6. Limit(q, list, head) = Len(n.payload)
    BY <2>1, <2>2, <2>3 DEF Limit
  <2>7. list \in ListNames \ {"cyclic"}
    BY <2>2 DEF ListNames
  <2> QED
    BY <2>1, <2>2, <2>4, <2>5, <2>6, <2>7
<1> QED
  BY <1>2, <1>3, <1>4 DEF Plain

LEMMA FetchRowsKeeps ==
  ASSUME ServeInv, NEW list \in DOMAIN reads, FetchRows(list)
  PROVE  ServeInv'
<1> DEFINE q == request[1]
           r == reads[list]
           cursor == ClientCursor
           limit == LimitOf(q, list)
           all == ListRows(stored, list, q)
           rows == FirstOf(ByKey(After(all, r.cursor)), limit + 1)
           mark == /\ list = "blastRadius" /\ rows # <<>>
                   /\ BlastTruncated({x.item : x \in all}, q.depth)
           read == [r EXCEPT !.truncated = mark]
           waits == [read EXCEPT !.at = "nodes", !.rows = rows]
           next == IF list \in Hydrates /\ rows # <<>> THEN waits ELSE Paged(list, read, rows)
<1>1. /\ q \in Requests /\ list \in Lists(q)
      /\ StoredGraph(stored) /\ Stored(versions) /\ stored \in versions
      /\ ReadIs(list, r, q, head, cursor, versions, stored)
  BY WhileReading DEF ReadsInv
<1>2. r.at = "rows" /\ Become(list, next)
  BY DEF FetchRows
<1>3. DOMAIN r = Fields
  BY <1>1 DEF ReadIs
<1> HIDE DEF r, mark
<1>4. /\ DOMAIN read = Fields /\ read.at = "rows" /\ read.shown = r.shown /\ read.total = r.total
      /\ read.cursor = r.cursor
  BY <1>2, <1>3 DEF Fields
<1> HIDE DEF read
<1>5. /\ DOMAIN waits = Fields /\ waits.at = "nodes" /\ waits.shown = r.shown
      /\ waits.total = r.total /\ waits.rows = rows
  <2> HIDE DEF rows
  <2> QED
    BY <1>4 DEF Fields
<1> HIDE DEF rows, waits, all, limit, cursor
<1>6. DOMAIN Paged(list, read, rows) = Fields
  BY <1>4 DEF Paged, Fields
<1>7. DOMAIN next = Fields
  BY <1>5, <1>6
<1>8. CASE q.view \in Plain \/ Binds(q, head, versions, stored)
  <2>1. /\ Limit(q, list, head) = limit /\ limit \in Nat \ {0} /\ list \in ListNames \ {"cyclic"}
        /\ list = "references" => /\ Len(ByKey(After(all, cursor))) <= limit
                                  /\ Len(ByKey(After(all, cursor))) \in Nat
    BY <1>8, LimitIsPositive, LimitIs DEF limit, all, cursor
  <2>2. PagedRead(list, r, q, limit, cursor, versions, stored)
    BY <1>1, <1>8, <2>1 DEF ReadIs
  <2>3. r.cursor = cursor /\ r.shown = <<>> /\ CountedOn(r.total, list, q, cursor, versions, stored)
    BY <1>2, <2>2 DEF PagedRead
  <2>4. rows = FirstOf(ByKey(After(all, cursor)), limit + 1)
    BY <2>3 DEF rows
  <2>5. PagedRead(list, next, q, limit, cursor, versions, stored)
    <3>1. CASE list \in Hydrates /\ rows # <<>>
      BY <1>1, <1>5, <2>3, <2>4, <3>1 DEF PagedRead, all
    <3>2. CASE ~(list \in Hydrates /\ rows # <<>>)
      <4>1. Keyed(all, KeyLength(list))
        BY <1>1, <2>1, ListsKeyed DEF all
      <4>2. ByKey(After(all, cursor)) \in Seq(all)
        BY <4>1, ListAfter
      <4>3. /\ rows \in Seq(all)
            /\ Len(rows) = IF limit + 1 <= Len(ByKey(After(all, cursor))) THEN limit + 1
                           ELSE Len(ByKey(After(all, cursor)))
        <5> DEFINE whole == ByKey(After(all, cursor))
        <5>1. whole \in Seq(all) /\ rows = FirstOf(whole, limit + 1) /\ limit + 1 \in Nat
          BY <2>1, <2>4, <4>2
        <5> HIDE DEF whole
        <5>2. /\ rows \in Seq(all)
              /\ Len(rows) = IF limit + 1 <= Len(whole) THEN limit + 1 ELSE Len(whole)
          BY <5>1, FirstOfProperties
        <5> QED
          BY <5>2 DEF whole
      <4>4. Listy(rows) /\ Len(rows) \in Nat
        BY <4>3, SeqListy
      <4>5. list = "references" => Len(rows) <= limit
        BY <2>1, <4>3
      <4>6. list \in Hydrates => Len(rows) = 0
        BY <3>2, EmptyListy
      <4>7. list \in Hydrates =>
              \E h \in versions : \A k \in 1 .. Len(rows) :
                 rows[k].node = Hydrated(h, NodeId(list, rows[k]))
        BY <1>1, <4>6
      <4>8. \A k \in 1 .. Len(rows) : Is(rows[k], rows[k])
        BY DEF Is
      <4>9. /\ limit = LimitOf(q, list) /\ rows = FirstOf(ByKey(After(ListRows(stored, list, q), cursor)), limit + 1)
            /\ read.shown = <<>> /\ CountedOn(read.total, list, q, cursor, versions, stored)
        BY <1>4, <2>3, <2>4 DEF limit, all
      <4>10. PagedRead(list, Paged(list, read, rows), q, limit, cursor, versions, stored)
        BY <1>1, <1>4, <2>1, <4>4, <4>5, <4>7, <4>8, <4>9, PagedIs
      <4> QED
        BY <3>2, <4>10
    <3> QED
      BY <3>1, <3>2
  <2>6. q.view \notin {"cycles", "map"}
    BY <1>8 DEF Plain, Listed, Binds
  <2> HIDE DEF next
  <2> QED
    BY <1>7, <2>1, <2>5, <2>6, <1>2, Becomes DEF ReadIs, cursor
<1>9. CASE q.view = "cycles"
  <2>1. list = "cyclic"
    BY <1>1, <1>9, ListsOf
  <2>2. Listy(r.shown) /\ \A k \in 1 .. Len(r.shown) : r.shown[k].item \in Edge
    BY <1>1, <1>9 DEF ReadIs
  <2>3. limit = PageLimit
    BY <2>1 DEF limit, LimitOf
  <2>4. Keyed(all, KeyLength(list)) /\ \A x \in all : x.item \in Edge
    <3>1. list \in ListNames
      BY <2>1 DEF ListNames
    <3>2. all = {[key |-> EdgeKey(e), item |-> e] : e \in CyclicDependencyEdges(stored)}
      BY <2>1 DEF ListRows, all
    <3>3. CyclicDependencyEdges(stored) \subseteq Edge
      BY <1>1 DEF CyclicDependencyEdges, Dependencies, StoredGraph, Edge
    <3> QED
      BY <1>1, <3>1, <3>2, <3>3, ListsKeyed DEF all
  <2>5. ByKey(After(all, r.cursor)) \in Seq(all)
    BY <2>4, ListAfter
  <2>6. rows \in Seq(all)
    BY <2>3, <2>5, FirstOfProperties, LimitsAssumption DEF rows
  <2> DEFINE items == FirstOf(rows, limit)
  <2>7. items \in Seq(all)
    BY <2>3, <2>6, FirstOfProperties, LimitsAssumption
  <2>8. Listy(items) /\ \A k \in 1 .. Len(items) : items[k].item \in Edge
    BY <2>4, <2>7, SeqListy
  <2> HIDE DEF items
  <2>9. /\ Listy(r.shown \o items)
        /\ \A k \in 1 .. Len(r.shown \o items) : (r.shown \o items)[k].item \in Edge
    BY <2>2, <2>8, ListyConcat
  <2>10. /\ next.shown = r.shown \o items
         /\ next.at \in {"rows", "done"}
    <3>1. next = Paged(list, read, rows)
      BY <2>1 DEF Hydrates
    <3> DEFINE page == BuildPage(rows, limit)
    <3>2. page.items = items
      BY DEF BuildPage, items
    <3>3. next = [read EXCEPT !.rows = <<>>, !.shown = read.shown \o page.items, !.cursor = page.next,
                             !.at = IF Drains(list, page, Len(read.shown \o page.items))
                                    THEN "rows" ELSE "done"]
      BY <3>1 DEF Paged, limit
    <3> HIDE DEF page, next
    <3> QED
      BY <1>4, <3>2, <3>3 DEF Fields
  <2>11. q.view \notin Plain /\ q.view # "map" /\ ~Binds(q, head, versions, stored)
    BY <1>9 DEF Plain, Listed, Binds
  <2> HIDE DEF next
  <2> QED
    BY <1>2, <1>7, <1>9, <2>9, <2>10, <2>11, Becomes DEF ReadIs, cursor
<1>10. CASE q.view = "map"
  BY <1>1, <1>2, <1>10 DEF ReadIs
<1>11. CASE q.view = "callBindings" /\ ~Binds(q, head, versions, stored)
  <2>1. q.view \notin Plain
    BY <1>11 DEF Plain, Listed
  <2> HIDE DEF next
  <2> QED
    BY <1>2, <1>7, <1>11, <2>1, Becomes DEF ReadIs, cursor
<1> QED
  BY <1>1, <1>8, <1>9, <1>10, <1>11, ListsOf

LEMMA HydrateRowsKeeps ==
  ASSUME ServeInv, NEW list \in DOMAIN reads, HydrateRows(list)
  PROVE  ServeInv'
<1> DEFINE q == request[1]
           r == reads[list]
           cursor == ClientCursor
           limit == LimitOf(q, list)
           fetched == r.rows
           Row(k) == [key |-> fetched[k].key, item |-> fetched[k].item,
                      node |-> Hydrated(stored, NodeId(list, fetched[k]))]
           rows == [k \in DOMAIN fetched |-> Row(k)]
           next == Paged(list, r, rows)
<1>1. /\ q \in Requests /\ list \in Lists(q)
      /\ StoredGraph(stored) /\ Stored(versions) /\ stored \in versions
      /\ ReadIs(list, r, q, head, cursor, versions, stored)
  BY WhileReading DEF ReadsInv
<1>2. r.at = "nodes" /\ Become(list, next)
  BY DEF HydrateRows
<1>3. DOMAIN r = Fields
  BY <1>1 DEF ReadIs
<1> HIDE DEF r, rows
<1>4. DOMAIN next = Fields
  BY <1>3 DEF Paged, Fields
<1> HIDE DEF next, limit, cursor
<1>5. CASE q.view \in Plain \/ Binds(q, head, versions, stored)
  <2>1. /\ Limit(q, list, head) = limit /\ limit \in Nat \ {0} /\ list \in ListNames \ {"cyclic"}
        /\ list = "references" =>
             /\ Len(ByKey(After(ListRows(stored, list, q), cursor))) <= limit
             /\ Len(ByKey(After(ListRows(stored, list, q), cursor))) \in Nat
             /\ versions = {stored}
    BY <1>5, LimitIsPositive, LimitIs DEF limit, cursor
  <2>2. PagedRead(list, r, q, limit, cursor, versions, stored)
    BY <1>1, <1>5, <2>1 DEF ReadIs
  <2>3. r.shown = <<>> /\ CountedOn(r.total, list, q, cursor, versions, stored)
    BY <1>2, <2>2 DEF PagedRead
  <2>4. PICK g \in versions : fetched = FirstOf(ByKey(After(ListRows(g, list, q), cursor)), limit + 1)
    BY <1>2, <2>2 DEF PagedRead
  <2> DEFINE all == ListRows(g, list, q)
             whole == ByKey(After(all, cursor))
  <2>5. StoredGraph(g) /\ Keyed(all, KeyLength(list))
    BY <1>1, <2>1, ListsKeyed DEF Stored
  <2>6. whole \in Seq(all)
    BY <2>5, ListAfter
  <2>7. /\ fetched \in Seq(all)
        /\ Len(fetched) = IF limit + 1 <= Len(whole) THEN limit + 1 ELSE Len(whole)
    BY <2>1, <2>4, <2>6, FirstOfProperties
  <2> HIDE DEF all, whole, fetched
  <2>8. DOMAIN fetched = 1 .. Len(fetched) /\ Len(fetched) \in Nat
    BY <2>7
  <2>9. rows \in Seq({Row(k) : k \in 1 .. Len(fetched)}) /\ Len(rows) = Len(fetched)
    <3> DEFINE T == {Row(k) : k \in 1 .. Len(fetched)}
    <3>1. rows \in [1 .. Len(fetched) -> T]
      BY <2>8 DEF rows
    <3> HIDE DEF T, Row
    <3> QED
      BY <2>8, <3>1 DEF T
  <2>10. Listy(rows)
    BY <2>9, SeqListy
  <2>11. \A k \in 1 .. Len(rows) :
            /\ Is(rows[k], fetched[k])
            /\ rows[k].item = fetched[k].item
            /\ rows[k].node = Hydrated(stored, NodeId(list, fetched[k]))
    BY <2>8, <2>9 DEF rows, Is
  <2>12. \A k \in 1 .. Len(rows) : NodeId(list, rows[k]) = NodeId(list, fetched[k])
    BY <2>11 DEF NodeId
  <2>13. list \in Hydrates =>
           \E h \in versions : \A k \in 1 .. Len(rows) :
              rows[k].node = Hydrated(h, NodeId(list, rows[k]))
    BY <1>1, <2>11, <2>12
  <2>14. list = "references" => Len(fetched) <= limit
    BY <2>1, <2>4, <2>7 DEF whole, all
  <2>15. \A k \in 1 .. Len(rows) : Is(rows[k], fetched[k])
    BY <2>11
  <2>16. PagedRead(list, next, q, limit, cursor, versions, stored)
    <3>1. limit = LimitOf(q, list)
      BY DEF limit
    <3> QED
      BY <1>1, <1>3, <2>1, <2>3, <2>4, <2>5, <2>9, <2>10, <2>13, <2>14, <2>15, <3>1, PagedIs DEF next
  <2>17. q.view \notin {"cycles", "map"}
    BY <1>5 DEF Plain, Listed, Binds
  <2> QED
    BY <1>2, <1>4, <2>1, <2>16, <2>17, Becomes DEF ReadIs, cursor
<1>6. CASE q.view = "cycles"
  BY <1>1, <1>2, <1>6 DEF ReadIs
<1>7. CASE q.view = "map"
  BY <1>1, <1>2, <1>7 DEF ReadIs
<1>8. CASE q.view = "callBindings" /\ ~Binds(q, head, versions, stored)
  <2>1. q.view \notin Plain
    BY <1>8 DEF Plain, Listed
  <2> QED
    BY <1>2, <1>4, <1>8, <2>1, Becomes DEF ReadIs, cursor
<1> QED
  BY <1>1, <1>5, <1>6, <1>7, <1>8, ListsOf

LEMMA ProjectKeeps ==
  ASSUME ServeInv, NEW list \in DOMAIN reads, Project(list)
  PROVE  ServeInv'
<1> DEFINE q == request[1]
           r == reads[list]
           cursor == ClientCursor
           drawn == ProjectOn(list)
           read == [r EXCEPT !.at = "done", !.shown = <<drawn>>]
<1>1. q \in Requests /\ ReadIs(list, r, q, head, cursor, versions, stored)
  BY WhileReading DEF ReadsInv
<1>2. r.at = "map" /\ Become(list, read)
  BY DEF Project
<1>3. drawn = Drawing(list, q, head, stored)
  BY DEF ProjectOn, Drawing
<1>4. DOMAIN r = Fields
  BY <1>1 DEF ReadIs
<1> HIDE DEF r, drawn, cursor
<1>5. DOMAIN read = Fields /\ read.at = "done" /\ read.shown = <<drawn>>
  BY <1>4 DEF Fields
<1> HIDE DEF read
<1>6. q.view # "cycles"
  BY <1>1, <1>2 DEF ReadIs
<1>7. ~(q.view \in Plain \/ Binds(q, head, versions, stored))
  BY <1>1, <1>2 DEF ReadIs, PagedRead
<1> QED
  BY <1>2, <1>3, <1>5, <1>6, <1>7, Becomes DEF ReadIs, cursor

-----------------------------------------------------------------------------
(* The steps of a request.                                                 *)

\* The reads of a page, started together.
LEMMA StartedIs ==
  ASSUME NEW q \in Requests, NEW cursor, NEW hd, NEW graphs, NEW now, NEW rs,
         rs = Started(q, cursor)
  PROVE  /\ DOMAIN rs = Lists(q)
         /\ rs # <<>>
         /\ \A list \in DOMAIN rs : ReadIs(list, rs[list], q, hd, cursor, graphs, now)
<1>1. rs = [list \in Lists(q) |-> Fresh(list, IF q.view = "cycles" THEN <<>> ELSE cursor)]
  BY DEF Started
<1>2. Lists(q) # {}
  BY ListsOf DEF Plain, Lists
<1> QED
  BY <1>1, <1>2, FreshIs, EmptyListy

LEMMA NoPages ==
  ASSUME NEW q, NEW hd, NEW graphs, NEW now
  PROVE  PagesIs(<<>>, q, hd, graphs, now)
BY EmptyListy DEF PagesIs

LEMMA AskKeeps ==
  ASSUME ServeInv, NEW q \in RequestsOn(stored), Ask(q)
  PROVE  ServeInv'
<1>1. /\ Idle /\ Valid(q) /\ request' = <<q>> /\ versions' = {stored}
      /\ reads' = (IF HasHead(q) THEN <<>> ELSE Started(q, <<>>))
      /\ stored' = stored /\ head' = head /\ pages' = pages
  BY DEF Ask
<1>2. stored \in Graphs \cup Versions /\ head = <<>> /\ pages = <<>>
  BY <1>1 DEF ServeInv, TypeInv
<1>3. q \in Requests /\ request'[1] = q /\ ~Idle'
  BY <1>1, <1>2, RequestsAssumption DEF Idle
<1>4. ClientCursor' = <<>>
  BY <1>1, <1>2 DEF ClientCursor
<1>5. TypeInv'
  BY <1>1, <1>2, <1>3 DEF TypeInv
<1>6. Flow'
  <2>1. ~HasHead(q) => DOMAIN reads' = Lists(q)
    BY <1>1, <1>3, StartedIs
  <2> QED
    BY <1>1, <1>2, <1>3, <2>1 DEF Flow
<1>7. HeadInv'
  BY <1>1, <1>2 DEF HeadInv, HeadIs
<1>8. PagesInv'
  BY <1>1, <1>2, NoPages DEF PagesInv
<1>9. ReadsInv'
  <2>1. CASE HasHead(q)
    BY <1>1, <2>1, EmptyListy DEF ReadsInv
  <2>2. CASE ~HasHead(q)
    <3>1. reads' = Started(q, <<>>)
      BY <1>1, <2>2
    <3>2. \A hd, graphs, now : \A list \in DOMAIN reads' :
             ReadIs(list, reads'[list], q, hd, <<>>, graphs, now)
      BY <1>3, <3>1, StartedIs
    <3> QED
      BY <1>3, <1>4, <3>2 DEF ReadsInv
  <2> QED
    BY <2>1, <2>2
<1> QED
  BY <1>5, <1>6, <1>7, <1>8, <1>9 DEF ServeInv

LEMMA WhileAsked ==
  ASSUME ServeInv, ~Idle
  PROVE  /\ request[1] \in Requests /\ Valid(request[1])
         /\ stored \in versions /\ Stored(versions) /\ StoredGraph(stored)
         /\ TypeInv /\ Flow /\ HeadInv /\ ReadsInv /\ PagesInv
BY GraphsAssumption DEF ServeInv, TypeInv, Stored

\* An answer that is not found.
LEMMA NotFoundIs ==
  ASSUME NEW q \in Requests, q.view \in {"nodeDetail", "callBindings"},
         NEW graphs, NEW now, NEW ps, ps = <<Answer(<<>>, <<>>, -1, {})>>
  PROVE  PagesIs(ps, q, <<>>, graphs, now)
<1> DEFINE a == Answer(<<>>, <<>>, -1, {})
<1>1. a.next = <<>> /\ a.more = {}
  BY DEF Answer
<1> HIDE DEF a
<1>2. ps \in Seq({a}) /\ Len(ps) = 1 /\ ps[1] = a
  BY DEF a
<1>3. Listy(ps)
  BY <1>2, SeqListy
<1>4. q.view \notin Listed /\ q.view \notin {"cycles", "map"}
  BY DEF Listed
<1> QED
  BY <1>1, <1>2, <1>3, <1>4 DEF PagesIs

LEMMA GetNodeKeeps ==
  ASSUME ServeInv, GetNode
  PROVE  ServeInv'
<1> DEFINE q == request[1]
           found == {n \in stored.nodes : /\ n.id = q.id
                                          /\ q.view = "callBindings" => n.kind = "callSite"}
           node == CHOOSE n \in found : TRUE
<1>1. /\ ~Idle /\ q.view \in {"nodeDetail", "callBindings"} /\ head = <<>> /\ pages = <<>>
      /\ \/ found # {} /\ head' = <<node>> /\ reads' = StartedOn(q, node) /\ pages' = pages
         \/ /\ found = {} /\ pages' = <<Answer(<<>>, <<>>, -1, {})>>
            /\ head' = head /\ reads' = reads
      /\ stored' = stored /\ request' = request /\ versions' = versions
  BY DEF GetNode
<1>2. /\ q \in Requests /\ stored \in versions /\ TypeInv /\ Flow /\ ReadsInv
      /\ HasHead(q)
  BY <1>1, WhileAsked, ListsOf
<1>3. reads = <<>>
  BY <1>1, <1>2 DEF Flow
<1> HIDE DEF found
<1>4. CASE found = {}
  <2>1. /\ pages' = <<Answer(<<>>, <<>>, -1, {})>> /\ head' = <<>> /\ reads' = <<>>
    BY <1>1, <1>3, <1>4
  <2>2. TypeInv'
    BY <1>1, <1>2 DEF TypeInv, Idle
  <2>3. Flow' /\ ReadsInv'
    BY <2>1, EmptyListy DEF Flow, ReadsInv
  <2>4. HeadInv'
    BY <2>1 DEF HeadInv, HeadIs
  <2>5. PagesInv'
    BY <1>1, <1>2, <2>1, NotFoundIs DEF PagesInv
  <2> QED
    BY <2>2, <2>3, <2>4, <2>5 DEF ServeInv
<1>5. CASE found # {}
  <2>1. /\ head' = <<node>> /\ reads' = StartedOn(q, node) /\ pages' = <<>>
    BY <1>1, <1>5
  <2>2. node \in found
    BY <1>5
  <2>3. /\ node \in stored.nodes /\ node.id = q.id
        /\ q.view = "callBindings" => node.kind = "callSite"
    BY <2>2 DEF found
  <2> HIDE DEF node
  <2>4. TypeInv'
    BY <1>1, <1>2 DEF TypeInv, Idle
  <2>5. HeadInv'
    BY <1>1, <1>2, <2>1, <2>3 DEF HeadInv, HeadIs
  <2>6. PagesInv'
    BY <2>1, NoPages DEF PagesInv
  <2>7. ClientCursor' = <<>> /\ head'[1] = node /\ head' # <<>>
    BY <2>1 DEF ClientCursor
  <2>8. DOMAIN reads' = Lists(q)
        /\ \A list \in DOMAIN reads' :
             ReadIs(list, reads'[list], q, head', <<>>, versions', stored')
    <3>1. CASE q.view = "callBindings" /\ node.payload = <<>>
      <4> DEFINE fresh == Fresh("references", <<>>)
                 done == [fresh EXCEPT !.at = "done"]
      <4>1. reads' = [list \in {"references"} |-> [Fresh(list, <<>>) EXCEPT !.at = "done"]]
        BY <2>1, <3>1 DEF StartedOn
      <4>2. DOMAIN reads' = {"references"} /\ reads'["references"] = done
        BY <4>1
      <4>3. DOMAIN done = Fields
        BY DEF Fresh, Fields
      <4> HIDE DEF done
      <4>4. q.view \notin Plain \cup {"cycles", "map"} /\ ~Binds(q, head', versions', stored')
        BY <2>7, <3>1 DEF Binds, Plain, Listed
      <4>5. ReadIs("references", done, q, head', <<>>, versions', stored')
        BY <4>3, <4>4 DEF ReadIs
      <4> QED
        BY <1>2, <3>1, <4>2, <4>5, ListsOf
    <3>2. CASE ~(q.view = "callBindings" /\ node.payload = <<>>)
      <4>1. reads' = Started(q, <<>>)
        BY <2>1, <3>2 DEF StartedOn
      <4> QED
        BY <1>2, <4>1, StartedIs
    <3> QED
      BY <3>1, <3>2
  <2>9. ReadsInv'
    BY <1>1, <2>7, <2>8 DEF ReadsInv
  <2>10. Flow'
    BY <1>1, <2>1, <2>7, <2>8 DEF Flow
  <2> QED
    BY <2>4, <2>5, <2>6, <2>9, <2>10 DEF ServeInv
<1> QED
  BY <1>4, <1>5

LEMMA AskNextKeeps ==
  ASSUME ServeInv, AskNext
  PROVE  ServeInv'
<1> DEFINE q == request[1]
<1>1. /\ ~Idle /\ reads = <<>> /\ pages # <<>> /\ ClientCursor # <<>>
      /\ reads' = Started(q, ClientCursor)
      /\ stored' = stored /\ request' = request /\ head' = head /\ pages' = pages
      /\ versions' = versions
  BY DEF AskNext, Answered
<1>2. /\ q \in Requests /\ TypeInv /\ HeadInv /\ PagesInv
  BY <1>1, WhileAsked
<1>3. ClientCursor' = ClientCursor
  BY <1>1 DEF ClientCursor
<1>4. ~HasHead(q)
  <2> SUFFICES ASSUME HasHead(q) PROVE FALSE
    OBVIOUS
  <2>1. Listy(pages) /\ Len(pages) <= 1 /\ pages[1].next = <<>>
    BY <1>1, <1>2 DEF PagesInv, PagesIs
  <2>2. Len(pages) \in 1 .. Len(pages) /\ Last(pages) = pages[Len(pages)]
    BY <1>1, <2>1, ListyFacts
  <2>3. Last(pages) = pages[1]
    BY <2>1, <2>2
  <2> QED
    BY <1>1, <2>1, <2>3 DEF ClientCursor
<1>5. /\ DOMAIN reads' = Lists(q)
      /\ \A list \in DOMAIN reads' :
           ReadIs(list, reads'[list], q, head, ClientCursor, versions, stored)
  BY <1>1, <1>2, StartedIs
<1>6. TypeInv' /\ HeadInv' /\ PagesInv'
  BY <1>1, <1>2 DEF TypeInv, Idle, HeadInv, PagesInv
<1>7. ReadsInv'
  BY <1>1, <1>3, <1>5 DEF ReadsInv
<1>8. Flow'
  BY <1>1, <1>3, <1>4, <1>5 DEF Flow
<1> QED
  BY <1>6, <1>7, <1>8 DEF ServeInv

LEMMA LeavesKeeps ==
  ASSUME ServeInv, Leaves
  PROVE  ServeInv'
<1>1. /\ request' = <<>> /\ head' = <<>> /\ pages' = <<>> /\ versions' = {}
      /\ stored' = stored /\ reads' = reads /\ reads = <<>>
  BY DEF Leaves, Answered
<1>2. Idle' /\ TypeInv'
  BY <1>1 DEF Idle, TypeInv, ServeInv
<1> QED
  BY <1>2 DEF ServeInv

LEMMA ReplaceKeeps ==
  ASSUME ServeInv, NEW g \in Versions, Replace(g)
  PROVE  ServeInv'
<1> DEFINE q == request[1]
<1>1. /\ g # stored /\ stored' = g
      /\ versions' = (IF Idle THEN {} ELSE versions \cup {g})
      /\ request' = request /\ head' = head /\ reads' = reads /\ pages' = pages
  BY DEF Replace
<1>2. (Idle' <=> Idle) /\ ClientCursor' = ClientCursor
  BY <1>1 DEF Idle, ClientCursor
<1>3. TypeInv
  BY DEF ServeInv
<1>4. TypeInv'
  <2>1. CASE Idle
    BY <1>1, <1>2, <1>3, <2>1 DEF TypeInv
  <2>2. CASE ~Idle
    BY <1>1, <1>2, <1>3, <2>2 DEF TypeInv
  <2> QED
    BY <2>1, <2>2
<1>5. CASE Idle
  BY <1>2, <1>4, <1>5 DEF ServeInv
<1>6. CASE ~Idle
  <2>1. stored \in versions /\ Flow /\ HeadInv /\ ReadsInv /\ PagesInv
    BY <1>6, WhileAsked
  <2>2. versions' = versions \cup {g}
    BY <1>1, <1>6
  <2>3. Flow'
    BY <1>1, <1>2, <2>1 DEF Flow
  <2>4. HeadIs(head, q, versions \cup {g}, g) /\ PagesIs(pages, q, head, versions \cup {g}, g)
    BY <1>1, <2>1, Grows DEF HeadInv, PagesInv
  <2>5. HeadInv' /\ PagesInv'
    BY <1>1, <2>2, <2>4 DEF HeadInv, PagesInv
  <2>6. \A list \in DOMAIN reads :
          ReadIs(list, reads[list], q, head, ClientCursor, versions \cup {g}, g)
    BY <1>1, <2>1, Grows DEF ReadsInv
  <2>7. ReadsInv'
    BY <1>1, <1>2, <2>2, <2>6 DEF ReadsInv
  <2> QED
    BY <1>4, <2>3, <2>5, <2>7 DEF ServeInv
<1> QED
  BY <1>5, <1>6

-----------------------------------------------------------------------------
(* The containers of a map.                                                *)

LEMMA SortedIs ==
  ASSUME NEW ids \in SUBSET Nat, IsFiniteSet(ids)
  PROVE  /\ Sorted(ids) \in Seq(ids)
         /\ \A i \in ids : \E k \in 1 .. Len(Sorted(ids)) : Sorted(ids)[k] = i
         /\ \A j, k \in 1 .. Len(Sorted(ids)) : j < k => Sorted(ids)[j] < Sorted(ids)[k]
<1> DEFINE Entry(id) == [key |-> <<id>>]
           set == {Entry(id) : id \in ids}
           rows == ByKey(set)
           s == Sorted(ids)
<1>1. Keyed(set, 1)
  <2>1. IsFiniteSet(set)
    <3> DEFINE f == [id \in ids |-> Entry(id)]
    <3>1. f \in [ids -> set] /\ \A r \in set : \E id \in ids : f[id] = r
      OBVIOUS
    <3> HIDE DEF f, set
    <3> QED
      BY <3>1, FiniteImage
  <2>2. \A r \in set : r.key \in Key(1)
    BY DEF Key
  <2>3. \A x, y \in set : x.key = y.key => x = y
    OBVIOUS
  <2> HIDE DEF set
  <2> QED
    BY <2>1, <2>2, <2>3 DEF Keyed
<1>2. \A r \in set : r.key[1] \in ids /\ \A x \in set : Before(r.key, x.key) => r.key[1] < x.key[1]
  <2> SUFFICES ASSUME NEW a \in ids, NEW b \in ids
               PROVE  <<a>>[1] = a /\ (Before(<<a>>, <<b>>) => a < b)
    OBVIOUS
  <2>1. DOMAIN <<a>> = {1} /\ <<a>>[1] = a /\ <<b>>[1] = b
    OBVIOUS
  <2> QED
    BY <2>1 DEF Before
<1>3. \A i \in ids : \E r \in set : r.key[1] = i
  <2>1. \A i \in ids : Entry(i) \in set /\ Entry(i).key[1] = i
    OBVIOUS
  <2> QED
    BY <2>1
<1>4. s = [k \in DOMAIN rows |-> rows[k].key[1]]
  BY DEF Sorted
<1> HIDE DEF set
<1> DEFINE N == Cardinality(set)
<1>5. /\ N \in Nat /\ DOMAIN rows = 1 .. N
      /\ \A k \in 1 .. N : rows[k] \in set
      /\ \A j, k \in 1 .. N : j < k => Before(rows[j].key, rows[k].key)
      /\ \A r \in set : \E k \in 1 .. N : rows[k] = r
  <2>1. /\ N \in Nat /\ DOMAIN rows = 1 .. N /\ \A k \in 1 .. N : rows[k] \in set
    BY <1>1, ByKeyLists
  <2>2. \A j, k \in 1 .. N : j < k => Before(rows[j].key, rows[k].key)
    BY <1>1, ByKeyAscends
  <2>3. \A r \in set : r = rows[Rank(set, r.key) + 1] /\ Rank(set, r.key) \in 0 .. N - 1
    BY <1>1, ByKeyLists, RankOf
  <2>4. \A r \in set : Rank(set, r.key) + 1 \in 1 .. N
    BY <2>1, <2>3
  <2> QED
    BY <2>1, <2>2, <2>3, <2>4
<1> HIDE DEF rows, N, s
<1>6. s \in [1 .. N -> ids]
  BY <1>2, <1>4, <1>5
<1>7. s \in Seq(ids) /\ Len(s) = N
  BY <1>5, <1>6
<1>8. \A i \in ids : \E k \in 1 .. N : s[k] = i
  BY <1>3, <1>4, <1>5
<1>9. \A j, k \in 1 .. N : j < k => s[j] < s[k]
  BY <1>2, <1>4, <1>5
<1> QED
  BY <1>7, <1>8, <1>9 DEF s

LEMMA ContainersAre ==
  ASSUME NEW g, StoredGraph(g), NEW q \in Requests
  PROVE  LET ids == {n.id : n \in ContainerRows(g, q.level, q.scope)}
         IN  ids \in SUBSET Nat /\ IsFiniteSet(ids)
<1> DEFINE rows == ContainerRows(g, q.level, q.scope)
           ids == {n.id : n \in rows}
<1>1. q.level \in {"package", "file", "symbol"}
  BY DEF Requests
<1>2. rows \subseteq g.nodes
  BY <1>1 DEF ContainerRows
<1> HIDE DEF rows
<1>3. IsFiniteSet(rows) /\ \A n \in rows : n.id \in Nat
  BY <1>2, FS_Subset DEF StoredGraph
<1> DEFINE f == [n \in rows |-> n.id]
<1>4. f \in [rows -> ids] /\ \A i \in ids : \E n \in rows : f[n] = i
  OBVIOUS
<1>5. ids \in SUBSET Nat
  BY <1>3
<1> HIDE DEF f, ids
<1>6. IsFiniteSet(ids)
  BY <1>3, <1>4, FiniteImage
<1> QED
  BY <1>5, <1>6 DEF ids, rows

LEMMA SelectContainersKeeps ==
  ASSUME ServeInv, SelectContainers
  PROVE  ServeInv'
<1> DEFINE q == request[1]
           all == {n.id : n \in ContainerRows(stored, q.level, q.scope)}
           s == Sorted(all)
           limit == q.limit
           rows == FirstOf(s, limit + 1)
           first == FirstOf(rows, limit)
           ids == ToSet(first)
           h == [ids |-> ids, truncated |-> Len(rows) > limit]
<1>1. /\ ~Idle /\ q.view = "map" /\ head = <<>> /\ pages = <<>>
      /\ head' = <<h>> /\ reads' = Started(q, <<>>)
      /\ stored' = stored /\ request' = request /\ pages' = pages /\ versions' = versions
  BY DEF SelectContainers, Containers
<1>2. /\ q \in Requests /\ Valid(q) /\ StoredGraph(stored) /\ TypeInv /\ Flow
  BY <1>1, WhileAsked
<1>3. limit \in Nat \ {0}
  BY <1>2 DEF Requests, Valid
<1>4. all \in SUBSET Nat /\ IsFiniteSet(all)
  BY <1>2, ContainersAre
<1>5. h.ids = ids /\ h.truncated = (Len(rows) > limit)
  OBVIOUS
<1> HIDE DEF all, limit, h
<1>6. /\ s \in Seq(all) /\ Len(s) \in Nat
      /\ \A i \in all : \E k \in 1 .. Len(s) : s[k] = i
      /\ \A j, k \in 1 .. Len(s) : j < k => s[j] < s[k]
  BY <1>4, SortedIs
<1> HIDE DEF s
<1>7. /\ rows \in Seq(all)
      /\ Len(rows) = IF limit + 1 <= Len(s) THEN limit + 1 ELSE Len(s)
      /\ \A k \in 1 .. Len(rows) : rows[k] = s[k]
  <2>1. limit + 1 \in Nat
    BY <1>3
  <2> QED
    BY <1>6, <2>1, FirstOfProperties
<1> HIDE DEF rows
<1>8. /\ first \in Seq(all)
      /\ Len(first) = IF limit <= Len(rows) THEN limit ELSE Len(rows)
      /\ \A k \in 1 .. Len(first) : first[k] = rows[k]
  BY <1>3, <1>7, FirstOfProperties
<1> HIDE DEF first
<1> DEFINE m == IF limit <= Len(s) THEN limit ELSE Len(s)
<1>9. m \in Nat /\ m <= Len(s) /\ Len(first) = m /\ (m < Len(s) <=> Len(rows) > limit)
  <2>1. /\ Len(rows) = IF limit + 1 <= Len(s) THEN limit + 1 ELSE Len(s)
        /\ Len(first) = IF limit <= Len(rows) THEN limit ELSE Len(rows)
    BY <1>7, <1>8
  <2>2. limit \in Nat /\ Len(s) \in Nat
    BY <1>3, <1>6
  <2>3. CASE limit + 1 <= Len(s)
    BY <2>1, <2>2, <2>3
  <2>4. CASE ~(limit + 1 <= Len(s))
    BY <2>1, <2>2, <2>4
  <2> QED
    BY <2>3, <2>4
<1>10. \A k \in 1 .. m : first[k] = s[k]
  BY <1>3, <1>6, <1>7, <1>8, <1>9
<1> HIDE DEF m
<1>11. ids = {s[k] : k \in 1 .. m}
  <2>1. DOMAIN first = 1 .. m
    BY <1>8, <1>9
  <2>2. ids = {first[k] : k \in 1 .. m}
    BY <2>1 DEF ToSet
  <2> QED
    BY <1>10, <2>2
<1> DEFINE hidden == all \ ids
<1>12. \A j \in hidden : \E k \in m + 1 .. Len(s) : s[k] = j
  <2> TAKE j \in hidden
  <2>1. PICK k \in 1 .. Len(s) : s[k] = j
    BY <1>6
  <2>2. k \notin 1 .. m
    BY <1>11, <2>1
  <2> QED
    BY <1>6, <1>9, <2>1, <2>2
<1>13. \A i \in ids, j \in hidden : i < j
  <2> TAKE i \in ids, j \in hidden
  <2>1. PICK k \in 1 .. m : s[k] = i
    BY <1>11
  <2>2. PICK l \in m + 1 .. Len(s) : s[l] = j
    BY <1>12
  <2>3. k \in 1 .. Len(s) /\ l \in 1 .. Len(s) /\ k < l
    BY <1>6, <1>9
  <2> QED
    BY <1>6, <2>1, <2>2, <2>3
<1>14. (hidden # {}) = (Len(rows) > limit)
  <2>1. ASSUME m < Len(s) PROVE hidden # {}
    <3>1. m + 1 \in 1 .. Len(s)
      BY <1>6, <1>9, <2>1
    <3>2. s[m + 1] \in all
      BY <1>6, <3>1
    <3>3. \A k \in 1 .. m : s[k] < s[m + 1] /\ s[k] \in Nat /\ s[m + 1] \in Nat
      <4> TAKE k \in 1 .. m
      <4>1. k \in 1 .. Len(s) /\ k < m + 1
        BY <1>6, <1>9
      <4>2. s[k] \in all /\ s[m + 1] \in all
        BY <1>6, <3>1, <4>1
      <4> QED
        BY <1>4, <1>6, <3>1, <4>1, <4>2
    <3>4. s[m + 1] \notin ids
      BY <1>11, <3>3
    <3> QED
      BY <3>2, <3>4
  <2>2. ASSUME hidden # {} PROVE m < Len(s)
    <3>1. PICK k \in m + 1 .. Len(s) : TRUE
      BY <1>12, <2>2
    <3> QED
      BY <1>6, <1>9, <3>1
  <2> QED
    BY <1>9, <2>1, <2>2
<1> HIDE DEF ids
<1>15. TypeInv'
  BY <1>1, <1>2 DEF TypeInv, Idle
<1>16. HeadInv'
  BY <1>1, <1>5, <1>13, <1>14 DEF HeadInv, HeadIs, all
<1>17. PagesInv'
  BY <1>1, NoPages DEF PagesInv
<1>18. ClientCursor' = <<>>
  BY <1>1 DEF ClientCursor
<1>19. DOMAIN reads' = Lists(q)
       /\ \A list \in DOMAIN reads' :
            ReadIs(list, reads'[list], q, head', <<>>, versions', stored')
  BY <1>1, <1>2, StartedIs
<1>20. ReadsInv'
  BY <1>1, <1>18, <1>19 DEF ReadsInv
<1>21. Flow'
  <2>1. head' # <<>>
    BY <1>1
  <2> QED
    BY <1>1, <1>19, <2>1 DEF Flow
<1> QED
  BY <1>15, <1>16, <1>17, <1>20, <1>21 DEF ServeInv

-----------------------------------------------------------------------------
(* An answer.                                                              *)

Cursor(ps) == IF ps = <<>> THEN <<>> ELSE Last(ps).next

\* The pages with one more.
Continued(ps, a, qs) ==
  /\ Listy(qs) /\ qs # <<>> /\ Len(ps) \in Nat
  /\ Len(qs) = Len(ps) + 1
  /\ qs[Len(ps) + 1] = a
  /\ \A i \in 1 .. Len(ps) : qs[i] = ps[i] /\ Prev(qs, i) = Prev(ps, i)
  /\ Prev(qs, Len(ps) + 1) = Cursor(ps)
  /\ \A i \in 1 .. Len(qs) : i \in 1 .. Len(ps) \/ i = Len(ps) + 1

LEMMA PagesAppend ==
  ASSUME NEW ps, Listy(ps), NEW a, NEW qs, qs = Append(ps, a)
  PROVE  Continued(ps, a, qs)
<1>1. /\ Listy(qs) /\ qs # <<>> /\ Len(qs) = Len(ps) + 1 /\ qs[Len(ps) + 1] = a
      /\ \A i \in 1 .. Len(ps) : qs[i] = ps[i]
  BY ListyAppend
<1>2. /\ Len(ps) \in Nat /\ (ps # <<>> <=> Len(ps) # 0)
      /\ ps # <<>> => Len(ps) \in 1 .. Len(ps) /\ Last(ps) = ps[Len(ps)]
  BY ListyFacts
<1>3. \A i \in 1 .. Len(ps) : Prev(qs, i) = Prev(ps, i)
  <2> TAKE i \in 1 .. Len(ps)
  <2>1. CASE i = 1
    BY <2>1 DEF Prev
  <2>2. CASE i # 1
    <3>1. i - 1 \in 1 .. Len(ps)
      BY <1>2, <2>2
    <3> QED
      BY <1>1, <2>2, <3>1 DEF Prev
  <2> QED
    BY <2>1, <2>2
<1>4. Prev(qs, Len(ps) + 1) = Cursor(ps)
  <2>1. CASE ps = <<>>
    BY <1>2, <2>1 DEF Prev, Cursor
  <2>2. CASE ps # <<>>
    <3>1. Len(ps) + 1 # 1 /\ (Len(ps) + 1) - 1 = Len(ps)
      BY <1>2, <2>2
    <3> QED
      BY <1>1, <1>2, <2>2, <3>1 DEF Prev, Cursor
  <2> QED
    BY <2>1, <2>2
<1> QED
  BY <1>1, <1>2, <1>3, <1>4 DEF Continued

\* A page cut from all that is left of a list.
LEMMA PageOfWhole ==
  ASSUME NEW rows, NEW n, Keyed(rows, n), NEW cursor, NEW limit \in Nat \ {0}
  PROVE  LET page == BuildPage(ByKey(After(rows, cursor)), limit)
         IN  PageOf(page.items, page.next, rows, cursor, limit)
<1> DEFINE list == ByKey(After(rows, cursor))
           page == BuildPage(list, limit)
<1>1. list \in Seq(rows)
  BY ListAfter
<1> HIDE DEF list
<1>2. page.items = FirstOf(list, limit)
      /\ page.next = IF Len(list) <= limit THEN <<>> ELSE list[limit].key
  BY DEF BuildPage
<1> HIDE DEF page
<1>3. /\ page.items \in Seq(rows)
      /\ Len(page.items) = IF limit <= Len(list) THEN limit ELSE Len(list)
      /\ \A k \in 1 .. Len(page.items) : page.items[k] = list[k]
  BY <1>1, <1>2, FirstOfProperties
<1>4. page.items \in [1 .. Len(page.items) -> {page.items[k] : k \in 1 .. Len(page.items)}]
  BY <1>3, SeqIsFunction
<1>5. \A k \in 1 .. Len(page.items) : Is(page.items[k], list[k])
  BY <1>3 DEF Is
<1> QED
  BY <1>2, <1>3, <1>4, <1>5 DEF PageOf, list, page

\* The bindings of arguments, from references shown with their nodes.
BindingsFrom(payload, shown) ==
  LET Named(a) == {r \in ToSet(shown) :
                     /\ a.pass = "named"
                     /\ \E m \in r.node : m.kind = "symbol" /\ m.name = a.name}
  IN  [k \in DOMAIN payload |-> UNION {r.node : r \in Named(payload[k])}]

\* The bindings read of one graph are those of all its references.
LEMMA BindingsAre ==
  ASSUME NEW g, StoredGraph(g), BindsEachOnce(g), NEW n \in g.nodes, n.kind = "callSite",
         NEW q \in Requests, n.id = q.id, Len(n.payload) \in Nat \ {0},
         NEW shown, NEW next, Filled(shown, next, "references", q, <<>>, Len(n.payload), {g})
  PROVE  BindingsFrom(n.payload, shown) = CallBindings(g, n)
<1> DEFINE Named(a) == {r \in ToSet(shown) :
                          /\ a.pass = "named"
                          /\ \E m \in r.node : m.kind = "symbol" /\ m.name = a.name}
           refs == {e \in NeighborEdges(g, n.id, "out") : e.kind = "references"}
           Bound(a) == {m \in g.nodes : /\ a.pass = "named" /\ m.kind = "symbol" /\ m.name = a.name
                                        /\ \E e \in refs : e.target = m.id}
           rows == ListRows(g, "references", q)
           list == ByKey(After(rows, <<>>))
<1>1. CallBindings(g, n) = [k \in DOMAIN n.payload |-> Bound(n.payload[k])]
  BY DEF CallBindings
<1>2. rows = {[key |-> EdgeKey(e), item |-> e] : e \in refs}
  BY DEF ListRows
<1>3. Keyed(rows, 5)
  BY ListsKeyed DEF ListNames, KeyLength
<1>4. Len(list) <= Len(n.payload) /\ Len(list) \in Nat
  BY ReferencesFit
<1>5. /\ PageOf(shown, next, rows, <<>>, Len(n.payload))
      /\ \A k \in 1 .. Len(shown) : shown[k].node = Hydrated(g, NodeId("references", shown[k]))
  BY DEF Filled, Hydrates
<1>6. After(rows, <<>>) = rows
  BY DEF After
<1> HIDE DEF rows, refs
<1>7. /\ Len(shown) = Len(list) /\ \A k \in 1 .. Len(shown) : Is(shown[k], list[k])
      /\ DOMAIN shown = 1 .. Len(shown)
  BY <1>4, <1>5 DEF PageOf
<1>8. /\ \A r \in rows : \E k \in 1 .. Len(list) : list[k] = r
      /\ \A k \in 1 .. Len(list) : list[k] \in rows
  <2>1. /\ Len(ByKey(rows)) = Cardinality(rows) /\ Cardinality(rows) \in Nat
        /\ \A k \in 1 .. Cardinality(rows) : ByKey(rows)[k] \in rows
        /\ \A r \in rows : r = ByKey(rows)[Rank(rows, r.key) + 1]
        /\ \A r \in rows : Rank(rows, r.key) \in 0 .. Cardinality(rows) - 1
    BY <1>3, ByKeyLists, RankOf
  <2>2. \A r \in rows : Rank(rows, r.key) + 1 \in 1 .. Cardinality(rows)
    BY <2>1
  <2> QED
    BY <1>6, <2>1, <2>2
<1> HIDE DEF list
<1>9. ToSet(shown) = {shown[k] : k \in 1 .. Len(shown)}
  BY <1>7 DEF ToSet
<1>10. \A r \in ToSet(shown) : r.item \in refs /\ r.node = {m \in g.nodes : m.id = r.item.target}
  <2> SUFFICES ASSUME NEW k \in 1 .. Len(shown)
               PROVE  /\ shown[k].item \in refs
                      /\ shown[k].node = {m \in g.nodes : m.id = shown[k].item.target}
    BY <1>9
  <2>1. shown[k].item \in refs
    BY <1>2, <1>7, <1>8 DEF Is
  <2>2. NodeId("references", shown[k]) = shown[k].item.target
    BY DEF NodeId, FarEnd
  <2> QED
    BY <1>5, <2>1, <2>2 DEF Hydrated
<1>11. \A e \in refs : \E r \in ToSet(shown) : r.item = e
  <2> TAKE e \in refs
  <2> DEFINE row == [key |-> EdgeKey(e), item |-> e]
  <2>1. row \in rows /\ row.item = e
    BY <1>2
  <2> HIDE DEF row
  <2>2. PICK k \in 1 .. Len(list) : list[k] = row
    BY <1>8, <2>1
  <2> QED
    BY <1>7, <1>9, <2>1, <2>2 DEF Is
<1> HIDE DEF Is
<1>12. \A l, m \in g.nodes : l.id = m.id => l = m
  BY DEF StoredGraph
<1>13. ASSUME NEW a PROVE UNION {r.node : r \in Named(a)} = Bound(a)
  <2>1. ASSUME NEW r \in Named(a), NEW x \in r.node PROVE x \in Bound(a)
    <3>1. r \in ToSet(shown) /\ a.pass = "named"
      BY <2>1
    <3>2. PICK m \in r.node : m.kind = "symbol" /\ m.name = a.name
      BY <2>1
    <3>3. x \in g.nodes /\ m \in g.nodes /\ x.id = r.item.target /\ m.id = r.item.target
          /\ r.item \in refs
      BY <1>10, <3>1
    <3>4. x = m
      BY <1>12, <3>3
    <3> QED
      BY <3>1, <3>2, <3>3, <3>4
  <2>2. ASSUME NEW x \in Bound(a) PROVE \E r \in Named(a) : x \in r.node
    <3>1. PICK e \in refs : e.target = x.id
      BY <2>2
    <3>2. PICK r \in ToSet(shown) : r.item = e
      BY <1>11
    <3>3. x \in r.node
      BY <1>10, <2>2, <3>1, <3>2
    <3>4. r \in Named(a)
      BY <2>2, <3>3
    <3> QED
      BY <3>3, <3>4
  <2> HIDE DEF Named, Bound
  <2> QED
    BY <2>1, <2>2
<1>14. BindingsFrom(n.payload, shown) = [k \in DOMAIN n.payload |-> UNION {r.node : r \in Named(n.payload[k])}]
  BY DEF BindingsFrom
<1> HIDE DEF Named, Bound
<1> QED
  BY <1>1, <1>13, <1>14

LEMMA Responding ==
  ASSUME ServeInv, Respond
  PROVE  LET q == request[1]
         IN  /\ reads # <<>> /\ reads' = <<>> /\ DOMAIN reads = Lists(q)
             /\ \A list \in Lists(q) :
                  /\ reads[list].at = "done"
                  /\ ReadIs(list, reads[list], q, head, ClientCursor, versions, stored)
             /\ \E a : /\ pages' = Append(pages, a)
                       /\ q.view = "cycles" => a = CyclesPage(q, ClientCursor)
                       /\ q.view = "callBindings" => a = Answer(Bindings, <<>>, -1, {})
                       /\ q.view \in {"map", "nodeDetail"} =>
                            a = Answer(<<>>, <<>>, -1, {[list |-> l, read |-> reads[l]] : l \in Lists(q)})
                       /\ q.view \in Listed =>
                            LET only == reads[ListOf(q)]
                            IN  a = Answer(only.shown, only.cursor, only.total, {only.truncated})
<1> DEFINE q == request[1]
           Only == reads[CHOOSE list \in Lists(q) : TRUE]
           a == CASE q.view = "cycles" -> CyclesPage(q, ClientCursor)
                  [] q.view = "callBindings" -> Answer(Bindings, <<>>, -1, {})
                  [] q.view \in {"map", "nodeDetail"} ->
                       Answer(<<>>, <<>>, -1, {[list |-> l, read |-> reads[l]] : l \in DOMAIN reads})
                  [] OTHER -> Answer(Only.shown, Only.cursor, Only.total, {Only.truncated})
<1>1. ~Idle /\ reads # <<>> /\ ~Reading /\ pages' = Append(pages, a) /\ reads' = <<>>
  BY DEF Respond
<1>2. /\ DOMAIN reads = Lists(q) /\ q \in Requests
      /\ \A list \in Lists(q) :
           /\ reads[list].at = "done"
           /\ ReadIs(list, reads[list], q, head, ClientCursor, versions, stored)
  BY <1>1, WhileAsked DEF Flow, ReadsInv, Reading
<1>3. q.view \in Listed => Only = reads[ListOf(q)]
  <2> SUFFICES ASSUME q.view \in Listed PROVE Only = reads[ListOf(q)]
    OBVIOUS
  <2>1. Lists(q) = {ListOf(q)}
    BY <1>2, ListsOf
  <2>2. (CHOOSE list \in Lists(q) : TRUE) = ListOf(q)
    BY <2>1
  <2> QED
    BY <2>2
<1> HIDE DEF Only
<1>4. /\ q.view = "cycles" => a = CyclesPage(q, ClientCursor)
      /\ q.view = "callBindings" => a = Answer(Bindings, <<>>, -1, {})
      /\ q.view \in {"map", "nodeDetail"} =>
           a = Answer(<<>>, <<>>, -1, {[list |-> l, read |-> reads[l]] : l \in Lists(q)})
      /\ q.view \in Listed => a = Answer(Only.shown, Only.cursor, Only.total, {Only.truncated})
  BY <1>2 DEF Listed
<1> HIDE DEF a
<1> QED
  BY <1>1, <1>2, <1>3, <1>4

\* The answer of a list.
LEMMA ListAnswer ==
  ASSUME ServeInv, Respond, request[1].view \in Listed
  PROVE  PagesIs(pages', request[1], head, versions, stored)
<1> DEFINE q == request[1]
           only == reads[ListOf(q)]
<1>1. ~Idle /\ q \in Requests /\ Flow /\ PagesInv
  BY WhileAsked DEF Respond
<1>2. /\ Lists(q) = {ListOf(q)} /\ ~HasHead(q) /\ ListOf(q) \notin {"cyclic", "references"}
      /\ q.view \notin {"cycles", "callBindings", "map", "nodeDetail"}
  BY <1>1, ListsOf DEF Listed
<1>3. PICK a : /\ pages' = Append(pages, a)
               /\ a = Answer(only.shown, only.cursor, only.total, {only.truncated})
  BY <1>2, Responding
<1>4. /\ reads # <<>> /\ only.at = "done"
      /\ ReadIs(ListOf(q), only, q, head, ClientCursor, versions, stored)
  BY <1>2, Responding
<1>5. PagedRead(ListOf(q), only, q, q.limit, ClientCursor, versions, stored)
  <2>1. Limit(q, ListOf(q), head) = q.limit
    BY <1>2 DEF Limit
  <2> QED
    BY <1>4, <2>1 DEF ReadIs, Plain
<1> HIDE DEF only
<1>6. /\ Filled(a.items, a.next, ListOf(q), q, ClientCursor, q.limit, versions)
      /\ CountedOn(a.total, ListOf(q), q, ClientCursor, versions, stored)
  BY <1>3, <1>4, <1>5 DEF PagedRead, Answer
<1>7. Listy(pages) /\ (\A i \in 1 .. Len(pages) - 1 : pages[i].next # <<>>)
      /\ (\A i \in 1 .. Len(pages) :
            Filled(pages[i].items, pages[i].next, ListOf(q), q, Prev(pages, i), q.limit, versions))
      /\ (pages # <<>> => CountedOn(pages[1].total, ListOf(q), q, <<>>, versions, stored))
  BY <1>1, <1>2 DEF PagesInv, PagesIs
<1>8. pages # <<>> => Last(pages) = pages[Len(pages)] /\ Last(pages).next # <<>>
                      /\ Len(pages) \in 1 .. Len(pages)
  BY <1>1, <1>4, <1>7, ListyFacts DEF Flow, ClientCursor
<1>9. pages = <<>> <=> Len(pages) = 0
  BY <1>7, ListyFacts
<1> DEFINE ps == pages'
<1> HIDE DEF ps
<1>10. /\ Listy(ps) /\ ps # <<>> /\ Len(pages) \in Nat
       /\ Len(ps) = Len(pages) + 1
       /\ ps[Len(pages) + 1] = a
       /\ \A i \in 1 .. Len(pages) : ps[i] = pages[i] /\ Prev(ps, i) = Prev(pages, i)
       /\ Prev(ps, Len(pages) + 1) = ClientCursor
       /\ \A i \in 1 .. Len(ps) : i \in 1 .. Len(pages) \/ i = Len(pages) + 1
  <2>1. ps = Append(pages, a) /\ Listy(pages)
    BY <1>3, <1>7 DEF ps
  <2>2. Continued(pages, a, ps)
    BY <2>1, PagesAppend
  <2>3. Cursor(pages) = ClientCursor
    BY DEF Cursor, ClientCursor
  <2> QED
    BY <2>2, <2>3 DEF Continued
<1>11. \A i \in 1 .. Len(ps) - 1 : ps[i].next # <<>>
  BY <1>7, <1>8, <1>9, <1>10
<1>12. \A i \in 1 .. Len(ps) :
         Filled(ps[i].items, ps[i].next, ListOf(q), q, Prev(ps, i), q.limit, versions)
  BY <1>6, <1>7, <1>10
<1>13. CountedOn(ps[1].total, ListOf(q), q, <<>>, versions, stored)
  <2>1. CASE pages = <<>>
    BY <1>6, <1>9, <1>10, <2>1 DEF ClientCursor
  <2>2. CASE pages # <<>>
    BY <1>7, <1>8, <1>10, <2>2
  <2> QED
    BY <2>1, <2>2
<1>14. PagesIs(ps, q, head, versions, stored)
  BY <1>2, <1>10, <1>11, <1>12, <1>13 DEF PagesIs
<1> QED
  BY <1>14 DEF ps

\* The answer of cycles: all are found again for each page.
LEMMA CyclesAnswer ==
  ASSUME ServeInv, Respond, request[1].view = "cycles"
  PROVE  PagesIs(pages', request[1], head, versions, stored)
<1> DEFINE q == request[1]
           only == reads["cyclic"]
           edges == {r.item : r \in ToSet(only.shown)}
           rows == {[key |-> <<c.id>>, item |-> c] : c \in FindCycles(edges)}
           page == BuildPage(ByKey(After(rows, ClientCursor)), q.limit)
<1>1. ~Idle /\ q \in Requests /\ Valid(q) /\ Flow /\ PagesInv
  BY WhileAsked DEF Respond
<1>2. /\ Lists(q) = {"cyclic"} /\ ~HasHead(q)
      /\ q.view \notin Listed \cup {"callBindings", "map", "nodeDetail"}
  BY <1>1, ListsOf DEF Listed
<1>3. PICK a : pages' = Append(pages, a) /\ a = CyclesPage(q, ClientCursor)
  BY Responding
<1>4. /\ reads # <<>>
      /\ ReadIs("cyclic", only, q, head, ClientCursor, versions, stored)
  BY <1>2, Responding
<1>5. Listy(only.shown) /\ \A k \in 1 .. Len(only.shown) : only.shown[k].item \in Edge
  BY <1>4 DEF ReadIs
<1>6. edges \in SUBSET Edge /\ IsFiniteSet(edges)
  <2> DEFINE s == only.shown
             f == [k \in 1 .. Len(s) |-> s[k].item]
  <2> HIDE DEF only
  <2>1. Len(s) \in Nat /\ ToSet(s) = {s[k] : k \in 1 .. Len(s)}
    BY <1>5, ListyFacts
  <2>2. edges = {s[k].item : k \in 1 .. Len(s)}
    BY <2>1
  <2>3. f \in [1 .. Len(s) -> edges] /\ \A e \in edges : \E k \in 1 .. Len(s) : f[k] = e
    BY <2>2
  <2>4. IsFiniteSet(1 .. Len(s))
    BY <2>1, FS_Interval
  <2>5. edges \in SUBSET Edge
    BY <1>5, <2>2
  <2> HIDE DEF f, s, edges
  <2>6. IsFiniteSet(edges)
    BY <2>3, <2>4, FiniteImage
  <2> QED
    BY <2>5, <2>6
<1>7. a.items = page.items /\ a.next = page.next
  BY <1>3 DEF CyclesPage, Answer
<1> HIDE DEF edges
<1>8. Keyed(rows, 1)
  BY <1>6, CycleRows
<1>9. q.limit \in Nat \ {0}
  BY <1>1 DEF Requests, Valid
<1> HIDE DEF rows
<1>10. PageOf(page.items, page.next, rows, ClientCursor, q.limit)
  BY <1>8, <1>9, PageOfWhole
<1> HIDE DEF page
<1>11. \E some : Keyed(some, 1) /\ PageOf(a.items, a.next, some, ClientCursor, q.limit)
  BY <1>7, <1>8, <1>10
<1>12. Listy(pages) /\ (\A i \in 1 .. Len(pages) - 1 : pages[i].next # <<>>)
       /\ (\A i \in 1 .. Len(pages) : \E some :
             Keyed(some, 1) /\ PageOf(pages[i].items, pages[i].next, some, Prev(pages, i), q.limit))
  BY <1>1, <1>2 DEF PagesInv, PagesIs
<1>13. pages # <<>> => Last(pages) = pages[Len(pages)] /\ Last(pages).next # <<>>
                       /\ Len(pages) \in 1 .. Len(pages)
  BY <1>1, <1>4, <1>12, ListyFacts DEF Flow, ClientCursor
<1>14. pages = <<>> <=> Len(pages) = 0
  BY <1>12, ListyFacts
<1> DEFINE ps == pages'
<1> HIDE DEF ps
<1>15. /\ Listy(ps) /\ ps # <<>> /\ Len(pages) \in Nat
       /\ Len(ps) = Len(pages) + 1
       /\ ps[Len(pages) + 1] = a
       /\ \A i \in 1 .. Len(pages) : ps[i] = pages[i] /\ Prev(ps, i) = Prev(pages, i)
       /\ Prev(ps, Len(pages) + 1) = ClientCursor
       /\ \A i \in 1 .. Len(ps) : i \in 1 .. Len(pages) \/ i = Len(pages) + 1
  <2>1. ps = Append(pages, a) /\ Listy(pages)
    BY <1>3, <1>12 DEF ps
  <2>2. Continued(pages, a, ps)
    BY <2>1, PagesAppend
  <2>3. Cursor(pages) = ClientCursor
    BY DEF Cursor, ClientCursor
  <2> QED
    BY <2>2, <2>3 DEF Continued
<1>16. \A i \in 1 .. Len(ps) - 1 : ps[i].next # <<>>
  BY <1>12, <1>13, <1>14, <1>15
<1>17. \A i \in 1 .. Len(ps) : \E some :
         Keyed(some, 1) /\ PageOf(ps[i].items, ps[i].next, some, Prev(ps, i), q.limit)
  BY <1>11, <1>12, <1>15
<1>18. PagesIs(ps, q, head, versions, stored)
  BY <1>2, <1>15, <1>16, <1>17 DEF PagesIs
<1> QED
  BY <1>18 DEF ps

\* The answer of a composed view is its only page.
LEMMA OnlyAnswer ==
  ASSUME ServeInv, Respond, HasHead(request[1])
  PROVE  /\ head # <<>> /\ pages = <<>> /\ ClientCursor = <<>>
         /\ \A a : pages' = Append(pages, a) =>
               Listy(pages') /\ Len(pages') = 1 /\ pages'[1] = a
<1>1. Flow /\ reads # <<>>
  BY WhileAsked DEF Respond
<1>2. head # <<>> /\ pages = <<>>
  BY <1>1 DEF Flow
<1>3. ASSUME NEW a, pages' = Append(pages, a)
      PROVE  Listy(pages') /\ Len(pages') = 1 /\ pages'[1] = a
  <2> DEFINE ps == pages'
  <2>1. ps = Append(pages, a) /\ Listy(pages) /\ Len(pages) = 0
    BY <1>2, <1>3, EmptyListy
  <2> HIDE DEF ps
  <2>2. Listy(ps) /\ Len(ps) = Len(pages) + 1 /\ ps[Len(pages) + 1] = a
    BY <2>1, ListyAppend
  <2>3. Len(pages) + 1 = 1
    BY <2>1
  <2> QED
    BY <2>2, <2>3 DEF ps
<1>4. ClientCursor = <<>>
  BY <1>2 DEF ClientCursor
<1> QED
  BY <1>2, <1>3, <1>4

LEMMA DetailAnswer ==
  ASSUME ServeInv, Respond, request[1].view = "nodeDetail"
  PROVE  PagesIs(pages', request[1], head, versions, stored)
<1> DEFINE q == request[1]
           ps == pages'
           parts == {[list |-> l, read |-> reads[l]] : l \in Lists(q)}
<1>1. ~Idle /\ q \in Requests
  BY WhileAsked DEF Respond
<1>2. HasHead(q) /\ q.view \notin Listed \cup {"callBindings", "map", "cycles"}
  BY <1>1, ListsOf DEF Listed
<1>3. PICK a : pages' = Append(pages, a) /\ a = Answer(<<>>, <<>>, -1, parts)
  BY Responding
<1>4. Listy(ps) /\ Len(ps) = 1 /\ ps[1] = a /\ ClientCursor = <<>>
  BY <1>2, <1>3, OnlyAnswer
<1>5. a.next = <<>> /\ a.more = parts
  BY <1>3 DEF Answer
<1>6. \A l \in Lists(q) : /\ reads[l].at = "done"
                          /\ ReadIs(l, reads[l], q, head, ClientCursor, versions, stored)
  BY Responding
<1>7. ASSUME NEW l \in Lists(q)
      PROVE  /\ Filled(reads[l].shown, reads[l].cursor, l, q, <<>>, PageLimit, versions)
             /\ CountedOn(reads[l].total, l, q, <<>>, versions, stored)
  <2>1. Limit(q, l, head) = PageLimit
    <3>1. q.view = "nodeDetail"
      OBVIOUS
    <3> HIDE DEF q
    <3>2. l = "references" => FALSE
      BY <1>1, <3>1, ListsOf
    <3> QED
      BY <3>1, <3>2 DEF Limit
  <2>2. PagedRead(l, reads[l], q, PageLimit, <<>>, versions, stored)
    BY <1>4, <1>6, <2>1 DEF ReadIs, Plain
  <2> QED
    BY <1>6, <2>2 DEF PagedRead
<1>8. \A part \in parts : /\ part.list \in Lists(q)
                          /\ Filled(part.read.shown, part.read.cursor, part.list, q, <<>>, PageLimit,
                                    versions)
                          /\ CountedOn(part.read.total, part.list, q, <<>>, versions, stored)
  BY <1>7
<1> HIDE DEF parts, ps
<1>9. PagesIs(ps, q, head, versions, stored)
  BY <1>2, <1>4, <1>5, <1>8 DEF PagesIs
<1> QED
  BY <1>9 DEF ps

LEMMA BindingsAnswer ==
  ASSUME ServeInv, Respond, request[1].view = "callBindings"
  PROVE  PagesIs(pages', request[1], head, versions, stored)
<1> DEFINE q == request[1]
           ps == pages'
           site == head[1]
           read == reads["references"]
<1>1. ~Idle /\ q \in Requests /\ HeadInv /\ StoredGraph(stored) /\ Stored(versions)
      /\ stored \in versions
  BY WhileAsked DEF Respond
<1>2. HasHead(q) /\ q.view \notin Listed \cup {"nodeDetail", "map", "cycles"}
      /\ Lists(q) = {"references"}
  BY <1>1, ListsOf DEF Listed
<1>3. PICK a : pages' = Append(pages, a) /\ a = Answer(Bindings, <<>>, -1, {})
  BY Responding
<1>4. Listy(ps) /\ Len(ps) = 1 /\ ps[1] = a /\ ClientCursor = <<>> /\ head # <<>>
  BY <1>2, <1>3, OnlyAnswer
<1>5. a.next = <<>> /\ a.items = Bindings
  BY <1>3 DEF Answer
<1>6. /\ read.at = "done"
      /\ ReadIs("references", read, q, head, ClientCursor, versions, stored)
  BY <1>2, Responding
<1>7. ASSUME versions = {stored} PROVE Bindings = CallBindings(stored, site)
  <2>1. site \in stored.nodes /\ site.id = q.id /\ site.kind = "callSite"
    BY <1>1, <1>4, <1>7 DEF HeadInv, HeadIs
  <2>2. site.payload \in Seq(Arguments)
    BY <1>1, <2>1 DEF StoredGraph
  <2>3. CASE site.payload = <<>>
    <3>1. DOMAIN site.payload = {}
      BY <2>3
    <3>2. Bindings = <<>> /\ CallBindings(stored, site) = <<>>
      BY <3>1, EmptyListy DEF Bindings, CallBindings
    <3> QED
      BY <3>2
  <2>4. CASE site.payload # <<>>
    <3>1. Binds(q, head, versions, stored)
      BY <1>7, <2>4 DEF Binds
    <3>2. Limit(q, "references", head) = Len(site.payload)
      BY <1>2 DEF Limit
    <3>3. PagedRead("references", read, q, Len(site.payload), <<>>, {stored}, stored)
      BY <1>4, <1>6, <1>7, <3>1, <3>2 DEF ReadIs
    <3>4. Filled(read.shown, read.cursor, "references", q, <<>>, Len(site.payload), {stored})
      BY <1>6, <3>3 DEF PagedRead
    <3>5. Len(site.payload) \in Nat \ {0}
      BY <2>2, <2>4
    <3>6. BindsEachOnce(stored)
      BY <1>1 DEF Stored
    <3> HIDE DEF site, read
    <3>7. StoredGraph(stored) /\ q \in Requests
      BY <1>1
    <3> HIDE DEF q
    <3>8. BindingsFrom(site.payload, read.shown) = CallBindings(stored, site)
      BY <2>1, <3>4, <3>5, <3>6, <3>7, BindingsAre
    <3>9. Bindings = BindingsFrom(site.payload, read.shown)
      BY DEF Bindings, BindingsFrom, site, read
    <3> QED
      BY <3>8, <3>9
  <2> QED
    BY <2>3, <2>4
<1> HIDE DEF ps
<1>8. PagesIs(ps, q, head, versions, stored)
  BY <1>2, <1>4, <1>5, <1>7 DEF PagesIs
<1> QED
  BY <1>8 DEF ps

LEMMA MapAnswer ==
  ASSUME ServeInv, Respond, request[1].view = "map"
  PROVE  PagesIs(pages', request[1], head, versions, stored)
<1> DEFINE q == request[1]
           ps == pages'
           parts == {[list |-> l, read |-> reads[l]] : l \in Lists(q)}
<1>1. ~Idle /\ q \in Requests
  BY WhileAsked DEF Respond
<1>2. /\ HasHead(q) /\ q.view \notin Listed \cup {"callBindings", "nodeDetail", "cycles"}
      /\ Lists(q) = {"counts", "edges"}
  BY <1>1, ListsOf DEF Listed
<1>3. PICK a : pages' = Append(pages, a) /\ a = Answer(<<>>, <<>>, -1, parts)
  BY Responding
<1>4. Listy(ps) /\ Len(ps) = 1 /\ ps[1] = a /\ head # <<>>
  BY <1>2, <1>3, OnlyAnswer
<1>5. a.next = <<>> /\ a.more = parts
  BY <1>3 DEF Answer
<1>6. \A l \in Lists(q) : /\ reads[l].at = "done"
                          /\ ReadIs(l, reads[l], q, head, ClientCursor, versions, stored)
  BY Responding
<1>7. ASSUME versions = {stored}
      PROVE  \A part \in parts : part.read.shown = <<Drawing(part.list, q, head, stored)>>
  <2>1. \A l \in Lists(q) : reads[l].shown = <<Drawing(l, q, head, stored)>>
    BY <1>6, <1>7 DEF ReadIs
  <2> QED
    BY <2>1
<1>8. \A l \in {"counts", "edges"} : \E part \in parts : part.list = l
  <2> TAKE l \in {"counts", "edges"}
  <2>1. [list |-> l, read |-> reads[l]] \in parts /\ [list |-> l, read |-> reads[l]].list = l
    BY <1>2
  <2> QED
    BY <2>1
<1> HIDE DEF parts, ps
<1>9. PagesIs(ps, q, head, versions, stored)
  BY <1>2, <1>4, <1>5, <1>7, <1>8 DEF PagesIs
<1> QED
  BY <1>9 DEF ps

LEMMA RespondKeeps ==
  ASSUME ServeInv, Respond
  PROVE  ServeInv'
<1> DEFINE q == request[1]
<1>1. /\ ~Idle /\ reads' = <<>>
      /\ stored' = stored /\ request' = request /\ head' = head /\ versions' = versions
  BY DEF Respond
<1>2. q \in Requests /\ TypeInv /\ HeadInv
  BY <1>1, WhileAsked
<1>3. PagesIs(pages', q, head, versions, stored)
  <2>1. q.view \in Plain \cup {"callBindings", "cycles", "map"}
    BY <1>2, ListsOf
  <2> QED
    BY <2>1, ListAnswer, CyclesAnswer, DetailAnswer, BindingsAnswer, MapAnswer DEF Plain
<1>4. TypeInv' /\ HeadInv'
  BY <1>1, <1>2 DEF TypeInv, Idle, HeadInv
<1>5. PagesInv'
  BY <1>1, <1>3 DEF PagesInv
<1>6. Flow' /\ ReadsInv'
  BY <1>1, EmptyListy DEF Flow, ReadsInv
<1> QED
  BY <1>4, <1>5, <1>6 DEF ServeInv

-----------------------------------------------------------------------------
(* The invariant.                                                          *)

\* At any time the reads of a request are at a stage of their statements,
\* what they hold was cut from the lists of the stored graphs, and each
\* answer given continues the one before it.
THEOREM ServeInvariant == Spec => []ServeInv
<1>1. Init => ServeInv
  <2> SUFFICES ASSUME Init PROVE ServeInv
    OBVIOUS
  <2>1. Idle /\ TypeInv
    BY DEF Init, Idle, TypeInv
  <2> QED
    BY <2>1 DEF ServeInv
<1>2. ServeInv /\ [Next]_vars => ServeInv'
  <2> SUFFICES ASSUME ServeInv, [Next]_vars PROVE ServeInv'
    OBVIOUS
  <2>1. ASSUME NEW q \in RequestsOn(stored), Ask(q) PROVE ServeInv'
    BY <2>1, AskKeeps
  <2>2. CASE GetNode
    BY <2>2, GetNodeKeeps
  <2>3. CASE SelectContainers
    BY <2>3, SelectContainersKeeps
  <2>4. ASSUME NEW list \in DOMAIN reads,
               CountRows(list) \/ FetchRows(list) \/ HydrateRows(list) \/ Project(list)
        PROVE  ServeInv'
    BY <2>4, CountRowsKeeps, FetchRowsKeeps, HydrateRowsKeeps, ProjectKeeps
  <2>5. CASE Respond
    BY <2>5, RespondKeeps
  <2>6. CASE AskNext
    BY <2>6, AskNextKeeps
  <2>7. CASE Leaves
    BY <2>7, LeavesKeeps
  <2>8. ASSUME NEW g \in Versions, Replace(g) PROVE ServeInv'
    BY <2>8, ReplaceKeeps
  <2>9. CASE UNCHANGED vars
    BY <2>9 DEF vars, ServeInv, TypeInv, Idle, Flow, HeadInv, ReadsInv, PagesInv, ClientCursor
  <2> QED
    BY <2>1, <2>2, <2>3, <2>4, <2>5, <2>6, <2>7, <2>8, <2>9 DEF Next
<1> QED
  BY <1>1, <1>2, PTL DEF Spec

-----------------------------------------------------------------------------
(* What a client may rely on.                                              *)

\* A row shown was in a stored graph, and its node is that of its far end.
LEMMA FilledIsGenuine ==
  ASSUME NEW q \in Requests, NEW list \in ListNames \ {"cyclic"}, NEW graphs,
         \A g \in graphs : StoredGraph(g), NEW items, NEW next, NEW cursor,
         NEW limit \in Nat \ {0}, Filled(items, next, list, q, cursor, limit, graphs),
         NEW row \in ToSet(items)
  PROVE  /\ \E g \in graphs : \E r \in ListRows(g, list, q) : r.item = row.item
         /\ list \in Hydrates => \E h \in graphs : row.node = Hydrated(h, NodeId(list, row))
<1>1. PICK g \in graphs : PageOf(items, next, ListRows(g, list, q), cursor, limit)
  BY DEF Filled
<1>2. Keyed(ListRows(g, list, q), KeyLength(list))
  BY <1>1, ListsKeyed
<1>3. /\ DOMAIN items = 1 .. Len(items)
      /\ \A k \in 1 .. Len(items) : \E r \in ListRows(g, list, q) : Is(items[k], r)
  BY <1>1, <1>2, PageAscends
<1>4. PICK k \in 1 .. Len(items) : row = items[k]
  BY <1>3 DEF ToSet
<1> QED
  BY <1>1, <1>3, <1>4 DEF Filled, Is

\* Whatever is replaced between the statements of a read, a row was in some
\* stored graph and is shown with the node at its far end, or with none.
THEOREM RowsAreGenuine == Spec => []ShownWithItsFarEnd
<1> DEFINE q == request[1]
           End(list, row) == CASE list = "blastRadius" -> row.item.node
                               [] list = "in" -> row.item.source
                               [] OTHER -> row.item.target
           Genuine(list, row) ==
             /\ \E g \in versions : \E r \in ListRows(g, list, q) : r.item = row.item
             /\ list \in Hydrates => /\ \A n \in row.node : n.id = End(list, row)
                                     /\ row.node \subseteq UNION {g.nodes : g \in versions}
                                     /\ Undisturbed => row.node = Hydrated(stored, End(list, row))
<1>1. ServeInv => ShownWithItsFarEnd
  <2> SUFFICES ASSUME ServeInv, Answered
               PROVE  /\ q.view \in Listed =>
                           \A page \in ToSet(pages) : \A row \in ToSet(page.items) : Genuine(ListOf(q), row)
                      /\ q.view = "nodeDetail" =>
                           \A part \in pages[1].more :
                             \A row \in ToSet(part.read.shown) : Genuine(part.list, row)
    BY DEF ShownWithItsFarEnd
  <2>1. /\ q \in Requests /\ Valid(q) /\ PagesInv /\ pages # <<>> /\ Listy(pages)
        /\ \A g \in versions : StoredGraph(g)
    BY WhileAsked DEF Answered, Stored, PagesInv, PagesIs
  <2>2. ASSUME NEW list \in ListNames \ {"cyclic"}, NEW row,
               \E g \in versions : \E r \in ListRows(g, list, q) : r.item = row.item,
               list \in Hydrates => \E h \in versions : row.node = Hydrated(h, NodeId(list, row))
        PROVE  Genuine(list, row)
    <3>1. NodeId(list, row) = End(list, row)
      BY DEF NodeId, FarEnd
    <3> HIDE DEF End
    <3>2. ASSUME list \in Hydrates
          PROVE  /\ \A n \in row.node : n.id = End(list, row)
                 /\ row.node \subseteq UNION {g.nodes : g \in versions}
                 /\ Undisturbed => row.node = Hydrated(stored, End(list, row))
      <4>1. PICK h \in versions : row.node = Hydrated(h, End(list, row))
        BY <2>2, <3>1, <3>2
      <4> QED
        BY <4>1 DEF Hydrated, Undisturbed
    <3> QED
      BY <2>2, <3>2
  <2>3. ASSUME NEW items, NEW next, NEW list \in ListNames \ {"cyclic"}, NEW cursor,
               NEW limit \in Nat \ {0}, Filled(items, next, list, q, cursor, limit, versions),
               NEW row \in ToSet(items)
        PROVE  Genuine(list, row)
    <3>1. /\ \E g \in versions : \E r \in ListRows(g, list, q) : r.item = row.item
          /\ list \in Hydrates => \E h \in versions : row.node = Hydrated(h, NodeId(list, row))
      <4>1. q \in Requests /\ \A g \in versions : StoredGraph(g)
        BY <2>1
      <4> HIDE DEF q
      <4> QED
        BY <2>3, <4>1, FilledIsGenuine
    <3> HIDE DEF Genuine
    <3> QED
      BY <2>2, <3>1
  <2> HIDE DEF Genuine
  <2>4. CASE q.view \in Listed
    <3>1. ListOf(q) \in ListNames \ {"cyclic"} /\ q.limit \in Nat \ {0} /\ q.view # "nodeDetail"
      BY <2>1, <2>4, ListsOf DEF Requests, Valid, Listed
    <3> SUFFICES ASSUME NEW page \in ToSet(pages), NEW row \in ToSet(page.items)
                 PROVE  Genuine(ListOf(q), row)
      BY <3>1
    <3>2. PICK i \in 1 .. Len(pages) : page = pages[i]
      BY <2>1, ListyFacts
    <3>3. Filled(page.items, page.next, ListOf(q), q, Prev(pages, i), q.limit, versions)
      BY <2>1, <2>4, <3>2 DEF PagesInv, PagesIs
    <3> QED
      BY <2>3, <3>1, <3>3
  <2>5. CASE q.view = "nodeDetail"
    <3>1. q.view \notin Listed /\ Lists(q) \subseteq ListNames \ {"cyclic"}
      BY <2>1, <2>5, ListsOf DEF Listed
    <3> SUFFICES ASSUME NEW part \in pages[1].more, NEW row \in ToSet(part.read.shown)
                 PROVE  Genuine(part.list, row)
      BY <3>1
    <3>2. /\ part.list \in Lists(q)
          /\ Filled(part.read.shown, part.read.cursor, part.list, q, <<>>, PageLimit, versions)
      BY <2>1, <2>5 DEF PagesInv, PagesIs
    <3> QED
      BY <2>3, <3>1, <3>2, LimitsAssumption
  <2> QED
    BY <2>4, <2>5
<1> QED
  BY <1>1, ServeInvariant, PTL

\* Pages that continue one another ascend.
LEMMA PagesInOrder ==
  ASSUME NEW ps, Listy(ps), NEW n, NEW limit \in Nat \ {0},
         \A i \in 1 .. Len(ps) - 1 : ps[i].next # <<>>,
         \A i \in 1 .. Len(ps) : \E rows :
            Keyed(rows, n) /\ PageOf(ps[i].items, ps[i].next, rows, Prev(ps, i), limit)
  PROVE  \A i, j \in DOMAIN ps : \A k \in DOMAIN ps[i].items, l \in DOMAIN ps[j].items :
            i < j \/ (i = j /\ k < l) => Before(ps[i].items[k].key, ps[j].items[l].key)
<1>1. Len(ps) \in Nat /\ DOMAIN ps = 1 .. Len(ps)
  BY ListyFacts
<1>2. \A i \in 1 .. Len(ps) :
        /\ n \in Nat \ {0}
        /\ Len(ps[i].items) \in Nat /\ DOMAIN ps[i].items = 1 .. Len(ps[i].items)
        /\ \A k \in 1 .. Len(ps[i].items) : ps[i].items[k].key \in Key(n)
        /\ Prev(ps, i) # <<>> => \A k \in 1 .. Len(ps[i].items) : Before(Prev(ps, i), ps[i].items[k].key)
        /\ \A k, l \in 1 .. Len(ps[i].items) : k < l => Before(ps[i].items[k].key, ps[i].items[l].key)
        /\ ps[i].next # <<>> =>
             /\ ps[i].next \in Key(n)
             /\ Len(ps[i].items) = limit
             /\ \A k \in 1 .. Len(ps[i].items) : AtOrBefore(ps[i].items[k].key, ps[i].next)
  <2> TAKE i \in 1 .. Len(ps)
  <2>1. PICK rows : Keyed(rows, n) /\ PageOf(ps[i].items, ps[i].next, rows, Prev(ps, i), limit)
    OBVIOUS
  <2> DEFINE items == ps[i].items
             next == ps[i].next
             cursor == Prev(ps, i)
  <2>2. PageOf(items, next, rows, cursor, limit)
    BY <2>1
  <2>3. n \in Nat \ {0}
    BY <2>1 DEF Keyed
  <2> HIDE DEF items, next, cursor
  <2>4. /\ Len(items) \in Nat /\ DOMAIN items = 1 .. Len(items)
        /\ \A k \in 1 .. Len(items) : items[k].key \in Key(n)
        /\ cursor # <<>> => \A k \in 1 .. Len(items) : Before(cursor, items[k].key)
        /\ \A k, l \in 1 .. Len(items) : k < l => Before(items[k].key, items[l].key)
        /\ next # <<>> => /\ next \in Key(n)
                          /\ Len(items) = limit
                          /\ \A k \in 1 .. Len(items) : AtOrBefore(items[k].key, next)
    BY <2>1, <2>2, PageAscends
  <2> QED
    BY <2>3, <2>4 DEF items, next, cursor
<1>3. \A i \in 1 .. Len(ps) - 1 : /\ ps[i].next # <<>> /\ ps[i].next \in Key(n)
                                  /\ i \in 1 .. Len(ps) /\ i + 1 \in 1 .. Len(ps)
                                  /\ Prev(ps, i + 1) = ps[i].next
  BY <1>1, <1>2 DEF Prev
<1>4. \A a, b, c \in Key(n) : n \in Nat =>
         /\ AtOrBefore(a, b) /\ Before(b, c) => Before(a, c)
         /\ Before(a, b) /\ AtOrBefore(b, c) => Before(a, c)
         /\ AtOrBefore(a, b) /\ AtOrBefore(b, c) => AtOrBefore(a, c)
  BY BeforeTransitive DEF AtOrBefore
<1>5. \A i \in 1 .. Len(ps) - 1 : Prev(ps, i) # <<>> /\ Prev(ps, i) \in Key(n) =>
         Before(Prev(ps, i), ps[i].next)
  <2> TAKE i \in 1 .. Len(ps) - 1
  <2>1. i \in 1 .. Len(ps) /\ 1 \in 1 .. Len(ps[i].items)
    BY <1>2, <1>3
  <2>2. /\ Prev(ps, i) # <<>> => Before(Prev(ps, i), ps[i].items[1].key)
        /\ AtOrBefore(ps[i].items[1].key, ps[i].next)
        /\ ps[i].items[1].key \in Key(n) /\ ps[i].next \in Key(n) /\ n \in Nat
    BY <1>2, <1>3, <2>1
  <2> QED
    BY <1>4, <2>2
<1>6. \A m \in Nat : \A i \in 1 .. Len(ps) - 1 :
         i + 1 + m <= Len(ps) => /\ AtOrBefore(ps[i].next, Prev(ps, i + 1 + m))
                                 /\ Prev(ps, i + 1 + m) # <<>> /\ Prev(ps, i + 1 + m) \in Key(n)
  <2> DEFINE Holds(m) == \A i \in 1 .. Len(ps) - 1 :
                            i + 1 + m <= Len(ps) =>
                              /\ AtOrBefore(ps[i].next, Prev(ps, i + 1 + m))
                              /\ Prev(ps, i + 1 + m) # <<>> /\ Prev(ps, i + 1 + m) \in Key(n)
             S == {m \in Nat : Holds(m)}
  <2>1. 0 \in S
    <3>1. \A i \in 1 .. Len(ps) - 1 : i + 1 + 0 = i + 1
      BY <1>1
    <3> QED
      BY <1>3, <3>1 DEF AtOrBefore
  <2>2. ASSUME NEW m \in S PROVE m + 1 \in S
    <3> SUFFICES ASSUME NEW i \in 1 .. Len(ps) - 1, i + 1 + (m + 1) <= Len(ps)
                 PROVE  /\ AtOrBefore(ps[i].next, Prev(ps, i + 1 + (m + 1)))
                        /\ Prev(ps, i + 1 + (m + 1)) # <<>> /\ Prev(ps, i + 1 + (m + 1)) \in Key(n)
      OBVIOUS
    <3> DEFINE j == i + 1 + m
    <3>1. j \in 1 .. Len(ps) - 1 /\ j <= Len(ps) /\ i + 1 + (m + 1) = j + 1
      BY <1>1
    <3>2. AtOrBefore(ps[i].next, Prev(ps, j)) /\ Prev(ps, j) # <<>> /\ Prev(ps, j) \in Key(n)
      BY <3>1
    <3> HIDE DEF j
    <3>3. Before(Prev(ps, j), ps[j].next) /\ Prev(ps, j + 1) = ps[j].next
          /\ ps[j].next # <<>> /\ ps[j].next \in Key(n) /\ ps[i].next \in Key(n) /\ n \in Nat
      BY <1>2, <1>3, <1>5, <3>1, <3>2
    <3>4. AtOrBefore(ps[i].next, ps[j].next)
      BY <1>4, <3>2, <3>3 DEF AtOrBefore
    <3> QED
      BY <3>1, <3>3, <3>4
  <2> HIDE DEF Holds
  <2>3. S = Nat
    BY <2>1, <2>2, Induction
  <2> QED
    BY <2>3 DEF Holds
<1> SUFFICES ASSUME NEW i \in DOMAIN ps, NEW j \in DOMAIN ps,
                    NEW k \in DOMAIN ps[i].items, NEW l \in DOMAIN ps[j].items,
                    i < j \/ (i = j /\ k < l)
             PROVE  Before(ps[i].items[k].key, ps[j].items[l].key)
  OBVIOUS
<1>7. /\ i \in 1 .. Len(ps) /\ j \in 1 .. Len(ps)
      /\ k \in 1 .. Len(ps[i].items) /\ l \in 1 .. Len(ps[j].items)
  BY <1>1, <1>2
<1>8. CASE i = j /\ k < l
  BY <1>2, <1>7, <1>8
<1>9. CASE i < j
  <2>1. i \in 1 .. Len(ps) - 1 /\ j - i - 1 \in Nat /\ i + 1 + (j - i - 1) = j
    BY <1>1, <1>7, <1>9
  <2>2. AtOrBefore(ps[i].next, Prev(ps, j)) /\ Prev(ps, j) # <<>> /\ Prev(ps, j) \in Key(n)
    BY <1>1, <1>6, <1>7, <2>1
  <2>3. Before(Prev(ps, j), ps[j].items[l].key) /\ AtOrBefore(ps[i].items[k].key, ps[i].next)
    BY <1>2, <1>3, <1>7, <2>1, <2>2
  <2>4. /\ ps[i].items[k].key \in Key(n) /\ ps[j].items[l].key \in Key(n)
        /\ ps[i].next \in Key(n) /\ n \in Nat
    BY <1>2, <1>3, <1>7, <2>1
  <2>5. AtOrBefore(ps[i].items[k].key, Prev(ps, j))
    BY <1>4, <2>2, <2>3, <2>4
  <2> QED
    BY <1>4, <2>2, <2>3, <2>4, <2>5
<1> QED
  BY <1>8, <1>9

\* Whatever is replaced between the pages of a list, no row comes twice and
\* none comes before one already shown.
THEOREM PagesOnlyAscend == Spec => []PagesAscend
<1>1. ServeInv => PagesAscend
  <2> DEFINE q == request[1]
  <2> SUFFICES ASSUME ServeInv, Answered, q.view \in Listed \cup {"cycles"}
               PROVE  \A i, j \in DOMAIN pages :
                        \A k \in DOMAIN pages[i].items, l \in DOMAIN pages[j].items :
                          i < j \/ (i = j /\ k < l) =>
                            Before(pages[i].items[k].key, pages[j].items[l].key)
    BY DEF PagesAscend
  <2>1. /\ q \in Requests /\ q.limit \in Nat \ {0} /\ PagesInv
        /\ \A g \in versions : StoredGraph(g)
    BY WhileAsked DEF Answered, Stored, Valid, Requests
  <2>2. Listy(pages) /\ \A i \in 1 .. Len(pages) - 1 : pages[i].next # <<>>
    BY <2>1 DEF PagesInv, PagesIs
  <2>3. \E n : \A i \in 1 .. Len(pages) : \E rows :
           Keyed(rows, n) /\ PageOf(pages[i].items, pages[i].next, rows, Prev(pages, i), q.limit)
    <3>1. CASE q.view \in Listed
      <4>1. ListOf(q) \in ListNames
        BY <2>1, <3>1, ListsOf
      <4>2. \A i \in 1 .. Len(pages) : \E g \in versions :
               PageOf(pages[i].items, pages[i].next, ListRows(g, ListOf(q), q), Prev(pages, i), q.limit)
        BY <2>1, <3>1 DEF PagesInv, PagesIs, Filled
      <4>3. \A g \in versions : Keyed(ListRows(g, ListOf(q), q), KeyLength(ListOf(q)))
        BY <2>1, <4>1, ListsKeyed
      <4> QED
        BY <4>2, <4>3
    <3>2. CASE q.view = "cycles"
      BY <2>1, <3>2 DEF PagesInv, PagesIs
    <3> QED
      BY <3>1, <3>2
  <2> QED
    BY <2>1, <2>2, <2>3, PagesInOrder
<1> QED
  BY <1>1, ServeInvariant, PTL

\* Pages that continue one another, cut from one list, are the list.
LEMMA PagesOfWhole ==
  ASSUME NEW ps, Listy(ps), ps # <<>>, NEW rows, NEW n, Keyed(rows, n), NEW limit \in Nat \ {0},
         \A i \in 1 .. Len(ps) - 1 : ps[i].next # <<>>,
         ps[Len(ps)].next = <<>>,
         \A i \in 1 .. Len(ps) : PageOf(ps[i].items, ps[i].next, rows, Prev(ps, i), limit)
  PROVE  LET all == ByKey(rows)
         IN  /\ Len(all) = (Len(ps) - 1) * limit + Len(ps[Len(ps)].items)
             /\ \A i \in 1 .. Len(ps) - 1 : Len(ps[i].items) = limit
             /\ \A i \in DOMAIN ps : \A k \in DOMAIN ps[i].items :
                  Is(ps[i].items[k], all[(i - 1) * limit + k])
<1> DEFINE all == ByKey(rows)
           Start(i) == (i - 1) * limit
           Cut(i) == /\ Start(i) <= Len(all)
                     /\ Prev(ps, i) = IF Start(i) = 0 THEN <<>> ELSE all[Start(i)].key
<1>1. Len(ps) \in Nat /\ DOMAIN ps = 1 .. Len(ps) /\ Len(ps) \in 1 .. Len(ps)
  BY ListyFacts
<1>2. Len(all) \in Nat
  BY ByKeyLists
<1>3. /\ Start(1) = 0
      /\ \A i \in Nat \ {0} : Start(i) \in Nat /\ Start(i + 1) = Start(i) + limit
  OBVIOUS
<1> HIDE DEF all, Start
<1>4. ASSUME NEW i \in 1 .. Len(ps), Cut(i)
      PROVE  LET items == ps[i].items
             IN  /\ DOMAIN items = 1 .. Len(items)
                 /\ Len(items) = IF limit <= Len(all) - Start(i) THEN limit ELSE Len(all) - Start(i)
                 /\ \A k \in 1 .. Len(items) : Is(items[k], all[Start(i) + k])
                 /\ ps[i].next = IF Len(all) - Start(i) <= limit THEN <<>>
                                 ELSE all[Start(i) + limit].key
  <2> DEFINE items == ps[i].items
             next == ps[i].next
             cursor == Prev(ps, i)
             m == Start(i)
  <2>1. m \in Nat
    <3>1. i \in Nat \ {0}
      BY <1>1
    <3> QED
      BY <1>3, <3>1
  <2>2. m <= Len(all) /\ cursor = IF m = 0 THEN <<>> ELSE all[m].key
    BY <1>4
  <2>3. PageOf(items, next, rows, cursor, limit)
    OBVIOUS
  <2> HIDE DEF items, next, cursor, m
  <2>4. Exact(items, next, all, m, limit)
    BY <2>1, <2>2, <2>3, PageExact DEF all
  <2>5. DOMAIN items = 1 .. Len(items)
    BY <2>3 DEF PageOf
  <2> QED
    BY <2>4, <2>5 DEF Exact, items, next, m
<1>5. \A i \in 1 .. Len(ps) : Cut(i)
  <2> DEFINE S == {m \in Nat : m + 1 <= Len(ps) => Cut(m + 1)}
  <2>1. 0 \in S
    <3>1. Cut(1)
      BY <1>2, <1>3 DEF Prev
    <3> QED
      BY <3>1
  <2>2. ASSUME NEW m \in S PROVE m + 1 \in S
    <3> SUFFICES ASSUME (m + 1) + 1 <= Len(ps) PROVE Cut((m + 1) + 1)
      OBVIOUS
    <3> DEFINE i == m + 1
    <3>1. i \in 1 .. Len(ps) - 1 /\ i \in 1 .. Len(ps) /\ i \in Nat \ {0} /\ Cut(i)
          /\ (i + 1) - 1 = i /\ i + 1 # 1
      BY <1>1
    <3> HIDE DEF i
    <3>2. /\ ps[i].next # <<>> /\ Prev(ps, i + 1) = ps[i].next
          /\ Start(i) \in Nat /\ Start(i + 1) = Start(i) + limit
      BY <1>3, <3>1 DEF Prev
    <3>3. ps[i].next = IF Len(all) - Start(i) <= limit THEN <<>> ELSE all[Start(i) + limit].key
      BY <1>4, <3>1
    <3>4. Cut(i + 1)
      BY <1>2, <3>2, <3>3
    <3> QED
      BY <3>4 DEF i
  <2>3. S \in SUBSET Nat
    OBVIOUS
  <2> HIDE DEF Cut, S
  <2>4. S = Nat
    BY <2>1, <2>2, <2>3, Induction
  <2>5. ASSUME NEW i \in 1 .. Len(ps) PROVE Cut(i)
    <3>1. i - 1 \in S /\ (i - 1) + 1 = i
      BY <1>1, <2>4
    <3>2. i <= Len(ps)
      BY <1>1
    <3> QED
      BY <3>1, <3>2 DEF S
  <2> QED
    BY <2>5
<1>6. \A i \in 1 .. Len(ps) - 1 : Len(ps[i].items) = limit
  <2> SUFFICES ASSUME NEW i \in 1 .. Len(ps) - 1 PROVE Len(ps[i].items) = limit
    OBVIOUS
  <2>1. i \in 1 .. Len(ps) /\ i \in Nat \ {0} /\ ps[i].next # <<>>
    BY <1>1
  <2>2. Start(i) \in Nat
    BY <1>3, <2>1
  <2>3. /\ Len(ps[i].items) = IF limit <= Len(all) - Start(i) THEN limit ELSE Len(all) - Start(i)
        /\ ps[i].next = IF Len(all) - Start(i) <= limit THEN <<>> ELSE all[Start(i) + limit].key
    BY <1>4, <1>5, <2>1
  <2> QED
    BY <1>2, <2>1, <2>3, <2>2
<1>7. Len(all) = Start(Len(ps)) + Len(ps[Len(ps)].items)
  <2> DEFINE i == Len(ps)
  <2>1. i \in 1 .. Len(ps) /\ ps[i].next = <<>> /\ Start(i) \in Nat /\ Start(i) <= Len(all)
    BY <1>1, <1>3, <1>5
  <2> HIDE DEF i
  <2>2. /\ Len(ps[i].items) = IF limit <= Len(all) - Start(i) THEN limit ELSE Len(all) - Start(i)
        /\ ps[i].next = IF Len(all) - Start(i) <= limit THEN <<>> ELSE all[Start(i) + limit].key
    BY <1>4, <1>5, <2>1
  <2>3. Len(all) - Start(i) <= limit
    <3> SUFFICES ASSUME ~(Len(all) - Start(i) <= limit) PROVE FALSE
      OBVIOUS
    <3>1. Start(i) + limit \in 1 .. Cardinality(rows)
      BY <1>2, <2>1, ByKeyLists DEF all
    <3>2. all[Start(i) + limit].key \in Key(n) /\ n \in Nat \ {0}
      BY <3>1, ByKeyLists DEF all, Keyed
    <3>3. all[Start(i) + limit].key # <<>>
      BY <3>2, KeyNotEmpty
    <3> QED
      BY <2>1, <2>2, <3>3
  <2> QED
    BY <1>2, <2>1, <2>2, <2>3 DEF i
<1>8. \A i \in DOMAIN ps : \A k \in DOMAIN ps[i].items : Is(ps[i].items[k], all[Start(i) + k])
  BY <1>1, <1>4, <1>5
<1> QED
  BY <1>6, <1>7, <1>8 DEF all, Start

\* What is read of a graph that nothing replaces meanwhile is the whole list,
\* in order, counted, however it is cut into pages; the parts of a node's
\* detail are the first pages of its lists, the bindings of a call site those
\* of all its references, and a map says whether it hides containers.
THEOREM UndisturbedReads == Spec => []UndisturbedReadIsExact
<1> DEFINE q == request[1]
           All(list) == ByKey(ListRows(stored, list, q))
<1>1. ServeInv /\ Complete /\ Undisturbed =>
        /\ q \in Requests /\ q.limit \in Nat \ {0} /\ StoredGraph(stored) /\ versions = {stored}
        /\ HeadInv /\ PagesInv /\ Listy(pages) /\ pages # <<>>
        /\ Len(pages) \in 1 .. Len(pages) /\ Last(pages) = pages[Len(pages)]
        /\ pages[Len(pages)].next = <<>>
  <2> SUFFICES ASSUME ServeInv, Complete, Undisturbed
               PROVE  /\ q \in Requests /\ q.limit \in Nat \ {0} /\ StoredGraph(stored)
                      /\ versions = {stored}
                      /\ HeadInv /\ PagesInv /\ Listy(pages) /\ pages # <<>>
                      /\ Len(pages) \in 1 .. Len(pages) /\ Last(pages) = pages[Len(pages)]
                      /\ pages[Len(pages)].next = <<>>
    OBVIOUS
  <2>1. ~Idle /\ pages # <<>> /\ ClientCursor = <<>> /\ versions = {stored}
    BY DEF Complete, Answered, Undisturbed
  <2>2. q \in Requests /\ Valid(q) /\ StoredGraph(stored) /\ HeadInv /\ PagesInv
    BY <2>1, WhileAsked
  <2>3. Listy(pages)
    BY <2>2 DEF PagesInv, PagesIs
  <2>4. Len(pages) \in 1 .. Len(pages) /\ Last(pages) = pages[Len(pages)]
    BY <2>1, <2>3, ListyFacts
  <2> QED
    BY <2>1, <2>2, <2>3, <2>4 DEF ClientCursor, Valid, Requests
<1>2. ASSUME ServeInv, Complete, Undisturbed, q.view \in Listed
      PROVE  LET all == All(ListOf(q))
             IN  /\ Len(all) = (Len(pages) - 1) * q.limit + Len(Last(pages).items)
                 /\ \A i \in 1 .. Len(pages) - 1 : Len(pages[i].items) = q.limit
                 /\ \A i \in DOMAIN pages : \A k \in DOMAIN pages[i].items :
                      Is(pages[i].items[k], all[(i - 1) * q.limit + k])
                 /\ q.view # "blastRadius" => pages[1].total = Len(all)
  <2> DEFINE rows == ListRows(stored, ListOf(q), q)
             limit == q.limit
  <2>1. ListOf(q) \in ListNames
    BY <1>1, <1>2, ListsOf
  <2>2. Keyed(rows, KeyLength(ListOf(q)))
    BY <1>1, <1>2, <2>1, ListsKeyed
  <2>3. /\ \A i \in 1 .. Len(pages) - 1 : pages[i].next # <<>>
        /\ \A i \in 1 .. Len(pages) :
             PageOf(pages[i].items, pages[i].next, rows, Prev(pages, i), limit)
        /\ CountedOn(pages[1].total, ListOf(q), q, <<>>, versions, stored)
    BY <1>1, <1>2 DEF PagesInv, PagesIs, Filled
  <2>4. q.view # "blastRadius" => pages[1].total = Len(ByKey(rows))
    <3>1. q.view # "blastRadius" => ListOf(q) \in Counted
      BY <1>1, <1>2 DEF Listed, Counted, ListOf, Requests
    <3>2. Len(ByKey(rows)) = Cardinality(rows)
      BY <2>2, ByKeyLists
    <3> QED
      BY <1>1, <1>2, <2>3, <3>1, <3>2 DEF CountedOn
  <2>5. limit \in Nat \ {0} /\ Listy(pages) /\ pages # <<>> /\ pages[Len(pages)].next = <<>>
        /\ Last(pages) = pages[Len(pages)]
    BY <1>1, <1>2
  <2> HIDE DEF rows, limit
  <2>6. LET all == ByKey(rows)
        IN  /\ Len(all) = (Len(pages) - 1) * limit + Len(pages[Len(pages)].items)
            /\ \A i \in 1 .. Len(pages) - 1 : Len(pages[i].items) = limit
            /\ \A i \in DOMAIN pages : \A k \in DOMAIN pages[i].items :
                 Is(pages[i].items[k], all[(i - 1) * limit + k])
    BY <2>2, <2>3, <2>5, PagesOfWhole
  <2> QED
    BY <2>4, <2>5, <2>6 DEF rows, limit
<1>3. ASSUME ServeInv, Complete, Undisturbed, q.view = "nodeDetail", NEW part \in pages[1].more
      PROVE  /\ part.read.total = Len(All(part.list))
             /\ Len(part.read.shown) = Min({PageLimit, Len(All(part.list))})
             /\ \A k \in DOMAIN part.read.shown : Is(part.read.shown[k], All(part.list)[k])
  <2> DEFINE list == part.list
             shown == part.read.shown
             next == part.read.cursor
             rows == ListRows(stored, list, q)
             all == ByKey(rows)
  <2>1. /\ list \in Lists(q) /\ PageOf(shown, next, rows, <<>>, PageLimit)
        /\ CountedOn(part.read.total, list, q, <<>>, versions, stored)
    BY <1>1, <1>3 DEF PagesInv, PagesIs, Filled
  <2>2. list \in ListNames /\ list \in Counted
    BY <1>3, <2>1 DEF Lists, ListNames, Counted
  <2>3. Keyed(rows, KeyLength(list))
    BY <1>1, <1>3, <2>2, ListsKeyed
  <2>4. part.read.total = Cardinality(rows)
    BY <1>1, <1>3, <2>1, <2>2 DEF CountedOn
  <2> HIDE DEF list, shown, next, rows
  <2>5. Len(all) = Cardinality(rows) /\ Len(all) \in Nat
    BY <2>3, ByKeyLists
  <2>6. Exact(shown, next, all, 0, PageLimit)
    BY <2>1, <2>3, <2>5, PageExact, LimitsAssumption
  <2> HIDE DEF all
  <2>7. /\ Len(shown) = IF PageLimit <= Len(all) THEN PageLimit ELSE Len(all)
        /\ \A k \in 1 .. Len(shown) : Is(shown[k], all[k])
    BY <2>5, <2>6, LimitsAssumption DEF Exact
  <2>8. Min({PageLimit, Len(all)}) = IF PageLimit <= Len(all) THEN PageLimit ELSE Len(all)
    BY <2>5, MinOfTwo, LimitsAssumption
  <2>9. DOMAIN shown = 1 .. Len(shown)
    BY <2>1 DEF PageOf
  <2> QED
    BY <2>4, <2>5, <2>7, <2>8, <2>9 DEF all, rows, shown, list
<1>4. ASSUME ServeInv, Complete, Undisturbed, q.view = "callBindings", head # <<>>
      PROVE  pages[1].items = CallBindings(stored, head[1])
  BY <1>1, <1>4 DEF PagesInv, PagesIs
<1>5. ASSUME ServeInv, Complete, Undisturbed, q.view = "map"
      PROVE  LET Drawn(list) == (CHOOSE p \in pages[1].more : p.list = list).read.shown[1]
                 ids == head[1].ids
                 hidden == {n.id : n \in ContainerRows(stored, q.level, q.scope)} \ ids
             IN  /\ head[1].truncated = (hidden # {})
                 /\ \A i \in ids, j \in hidden : i < j
                 /\ Drawn("counts") = {<<id, ChildCount(stored, q.level, id)>> : id \in ids}
                 /\ Drawn("edges") = ProjectedEdges(stored, q.level, ids)
  <2> DEFINE Part(list) == CHOOSE p \in pages[1].more : p.list = list
  <2>1. head # <<>>
    BY <1>1, <1>5 DEF PagesInv, PagesIs
  <2>2. LET hidden == {n.id : n \in ContainerRows(stored, q.level, q.scope)} \ head[1].ids
        IN  /\ head[1].truncated = (hidden # {})
            /\ \A i \in head[1].ids, j \in hidden : i < j
    BY <1>1, <1>5, <2>1 DEF HeadInv, HeadIs
  <2>3. /\ \A part \in pages[1].more : part.read.shown = <<Drawing(part.list, q, head, stored)>>
        /\ \A list \in {"counts", "edges"} : \E part \in pages[1].more : part.list = list
    BY <1>1, <1>5 DEF PagesInv, PagesIs
  <2>4. ASSUME NEW list \in {"counts", "edges"}
        PROVE  Part(list).read.shown[1] = Drawing(list, q, head, stored)
    <3>1. Part(list) \in pages[1].more /\ Part(list).list = list
      BY <2>3
    <3> HIDE DEF Part
    <3>2. Part(list).read.shown = <<Drawing(list, q, head, stored)>>
      BY <2>3, <3>1
    <3> QED
      BY <3>2
  <2>5. /\ Part("counts").read.shown[1] = {<<id, ChildCount(stored, q.level, id)>> : id \in head[1].ids}
        /\ Part("edges").read.shown[1] = ProjectedEdges(stored, q.level, head[1].ids)
    BY <2>4 DEF Drawing
  <2> QED
    BY <2>2, <2>5
<1>6. ServeInv => UndisturbedReadIsExact
  <2> SUFFICES ASSUME ServeInv PROVE UndisturbedReadIsExact
    OBVIOUS
  <2> QED
    BY <1>2, <1>3, <1>4, <1>5 DEF UndisturbedReadIsExact, Is
<1> QED
  BY <1>6, ServeInvariant, PTL

-----------------------------------------------------------------------------
(* Blast radii: simple paths meet whom dependencies reach, as soon.        *)

\* Whom some edges reach backwards, a step further with each edge followed.
Reaching(deps, near) == near \cup {e.source : e \in {d \in deps : d.target \in near}}

LEMMA ReachingIs ==
  ASSUME NEW deps, NEW near, NEW n
  PROVE  n \in Reaching(deps, near) <=>
           n \in near \/ \E e \in deps : e.source = n /\ e.target \in near
BY DEF Reaching

LEMMA DependentsUnfold ==
  ASSUME NEW deps, NEW to
  PROVE  /\ Dependents(deps, to)[0] = to
         /\ \A n \in Nat :
              Dependents(deps, to)[n + 1] = Reaching(deps, Dependents(deps, to)[n])
<1> DEFINE Unfolds(f) == f = [d \in Nat |-> IF d = 0 THEN to ELSE Reaching(deps, f[d - 1])]
           run == CHOOSE f : Unfolds(f)
<1>1. Dependents(deps, to) = run
  BY DEF Dependents, Reaching
<1>2. \E f : Unfolds(f)
  <2> DEFINE Sets == SUBSET (to \cup {e.source : e \in deps})
             step == [s \in Sets |-> Reaching(deps, s)]
  <2>1. to \in Sets /\ step \in [Sets -> Sets]
    BY DEF Reaching
  <2>2. PICK f \in [Nat -> Sets] : f[0] = to /\ \A n \in Nat : f[n + 1] = step[f[n]]
    <3> HIDE DEF step, Sets
    <3> QED
      BY <2>1, Iterates
  <2>3. \A d \in Nat : f[d] = IF d = 0 THEN to ELSE Reaching(deps, f[d - 1])
    <3> TAKE d \in Nat
    <3>1. CASE d = 0
      BY <2>2, <3>1
    <3>2. CASE d # 0
      <4>1. d - 1 \in Nat /\ (d - 1) + 1 = d
        BY <3>2
      <4>2. f[d] = step[f[d - 1]] /\ f[d - 1] \in Sets
        BY <2>2, <4>1
      <4> QED
        BY <3>2, <4>2
    <3> QED
      BY <3>1, <3>2
  <2>4. f = [d \in Nat |-> IF d = 0 THEN to ELSE Reaching(deps, f[d - 1])]
    BY <2>3
  <2> QED
    BY <2>4
<1>3. Unfolds(run)
  BY <1>2
<1> HIDE DEF run
<1>4. \A d \in Nat : run[d] = IF d = 0 THEN to ELSE Reaching(deps, run[d - 1])
  BY <1>3
<1> HIDE DEF Unfolds
<1>5. \A n \in Nat : n + 1 \in Nat /\ n + 1 # 0 /\ (n + 1) - 1 = n
  OBVIOUS
<1> QED
  BY <1>1, <1>4, <1>5

LEMMA DependentsGrow ==
  ASSUME NEW deps, NEW to, NEW m \in Nat, NEW n \in Nat, m <= n
  PROVE  Dependents(deps, to)[m] \subseteq Dependents(deps, to)[n]
<1> DEFINE D == Dependents(deps, to)
           grown == {k \in Nat : D[m] \subseteq D[m + k]}
<1>1. 0 \in grown
  OBVIOUS
<1>2. ASSUME NEW k \in grown PROVE k + 1 \in grown
  <2>1. m + k \in Nat /\ m + (k + 1) = (m + k) + 1
    OBVIOUS
  <2>2. D[m + k] \subseteq D[(m + k) + 1]
    BY <2>1, DependentsUnfold DEF Reaching
  <2> QED
    BY <2>1, <2>2
<1>3. grown \in SUBSET Nat
  OBVIOUS
<1>4. grown = Nat
  <2> HIDE DEF grown
  <2> QED
    BY <1>1, <1>2, <1>3, Induction
<1>5. n - m \in Nat /\ m + (n - m) = n
  OBVIOUS
<1> QED
  BY <1>4, <1>5

LEMMA PathsGrow ==
  ASSUME NEW g, StoredGraph(g), NEW id \in Nat, NEW m \in Nat, NEW n \in Nat, m <= n
  PROVE  BlastPaths(g, id)[m] \subseteq BlastPaths(g, id)[n]
<1> DEFINE P == BlastPaths(g, id)
           grown == {k \in Nat : P[m] \subseteq P[m + k]}
<1>1. 0 \in grown
  OBVIOUS
<1>2. ASSUME NEW k \in grown PROVE k + 1 \in grown
  <2>1. m + k \in Nat /\ m + (k + 1) = (m + k) + 1
    OBVIOUS
  <2>2. P[m + k] \subseteq P[(m + k) + 1]
    BY <2>1, PathsUnfold DEF Lengthened
  <2> QED
    BY <2>1, <2>2
<1>3. grown \in SUBSET Nat
  OBVIOUS
<1>4. grown = Nat
  <2> HIDE DEF grown
  <2> QED
    BY <1>1, <1>2, <1>3, Induction
<1>5. n - m \in Nat /\ m + (n - m) = n
  OBVIOUS
<1> QED
  BY <1>4, <1>5

\* The edges a path may take: all, or the deterministic ones alone.
Taken(g, sure) == {e \in Dependencies(g) : sure => e.certainty = "deterministic"}

\* A path goes no further than its length, and never comes back to its start.
LEMMA PathsReach ==
  ASSUME NEW g, StoredGraph(g), NEW id \in Nat, NEW sure \in BOOLEAN, NEW depth \in Nat
  PROVE  \A p \in BlastPaths(g, id)[depth] :
           /\ p.depth <= depth /\ id \in p.path /\ (p.depth > 0 <=> p.node # id)
           /\ (sure => p.certain) => p.node \in Dependents(Taken(g, sure), {id})[p.depth]
<1> DEFINE P == BlastPaths(g, id)
           D == Dependents(Taken(g, sure), {id})
           Good(p) == /\ p.depth \in Nat /\ id \in p.path /\ (p.depth > 0 <=> p.node # id)
                      /\ (sure => p.certain) => p.node \in D[p.depth]
           good == {d \in Nat : \A p \in P[d] : p.depth <= d /\ Good(p)}
<1>1. /\ P[0] = {Stay(id)} /\ \A n \in Nat : P[n + 1] = Lengthened(g, P[n])
      /\ D[0] = {id} /\ \A n \in Nat : D[n + 1] = Reaching(Taken(g, sure), D[n])
  BY PathsUnfold, DependentsUnfold
<1> HIDE DEF P, D
<1>2. 0 \in good
  BY <1>1 DEF Stay
<1>3. ASSUME NEW d \in good PROVE d + 1 \in good
  <2>1. \A p \in P[d] : p.depth <= d + 1 /\ Good(p)
    OBVIOUS
  <2>2. ASSUME NEW p \in P[d], NEW e \in Dependencies(g), e.target = p.node, ~Visited(p, e.source)
        PROVE  Longer(p, e).depth <= d + 1 /\ Good(Longer(p, e))
    <3>1. Good(p) /\ p.depth <= d
      OBVIOUS
    <3>2. /\ Longer(p, e).depth = p.depth + 1 /\ Longer(p, e).node = e.source
          /\ Longer(p, e).path = p.path \cup {e.source}
          /\ Longer(p, e).certain = (p.certain /\ e.certainty = "deterministic")
      BY DEF Longer
    <3>3. ASSUME sure => Longer(p, e).certain
          PROVE  e.source \in D[p.depth + 1]
      <4>1. p.node \in D[p.depth] /\ e \in Taken(g, sure)
        BY <3>1, <3>2, <3>3 DEF Taken
      <4>2. D[p.depth + 1] = Reaching(Taken(g, sure), D[p.depth])
        BY <1>1, <3>1
      <4> QED
        BY <2>2, <4>1, <4>2, ReachingIs
    <3>4. e.source # id
      BY <2>2, <3>1 DEF Visited
    <3> QED
      BY <3>1, <3>2, <3>3, <3>4
  <2>3. ASSUME NEW p \in P[d + 1] PROVE p.depth <= d + 1 /\ Good(p)
    BY <1>1, <2>1, <2>2 DEF Lengthened
  <2> QED
    BY <2>3
<1>4. good \in SUBSET Nat
  OBVIOUS
<1>5. good = Nat
  <2> HIDE DEF good
  <2> QED
    BY <1>2, <1>3, <1>4, Induction
<1>6. \A p \in P[depth] : p.depth <= depth /\ Good(p)
  BY <1>5
<1> QED
  BY <1>6 DEF P, D

\* What deterministic edges alone reach is reached.
LEMMA SureReach ==
  ASSUME NEW g, NEW sure \in BOOLEAN, NEW id, NEW depth \in Nat
  PROVE  Dependents(Taken(g, sure), {id})[depth] \subseteq Dependents(Dependencies(g), {id})[depth]
<1> DEFINE S == Dependents(Taken(g, sure), {id})
           D == Dependents(Dependencies(g), {id})
           within == {d \in Nat : S[d] \subseteq D[d]}
<1>1. /\ S[0] = {id} /\ \A k \in Nat : S[k + 1] = Reaching(Taken(g, sure), S[k])
      /\ D[0] = {id} /\ \A k \in Nat : D[k + 1] = Reaching(Dependencies(g), D[k])
  BY DependentsUnfold
<1>2. Taken(g, sure) \subseteq Dependencies(g)
  BY DEF Taken
<1> HIDE DEF S, D
<1>3. 0 \in within /\ \A d \in within : d + 1 \in within
  BY <1>1, <1>2 DEF Reaching
<1>4. within \in SUBSET Nat
  OBVIOUS
<1>5. within = Nat
  <2> HIDE DEF within
  <2> QED
    BY <1>3, <1>4, Induction
<1> QED
  BY <1>5 DEF S, D

\* Of nodes LIKE tells apart, whatever is reached is reached by a path that
\* meets no node twice.
HasPaths(g, id, sure, depth) ==
  \A n \in Dependents(Taken(g, sure), {id})[depth] :
    \E p \in BlastPaths(g, id)[depth] : p.node = n /\ (sure => p.certain)

LEMMA ReachedByPath ==
  ASSUME NEW g, StoredGraph(g), NEW id \in Nat, NEW sure \in BOOLEAN, NEW depth \in Nat,
         ToldApart(Dependents(Taken(g, sure), {id})[depth])
  PROVE  HasPaths(g, id, sure, depth)
<1> DEFINE P == BlastPaths(g, id)
           D == Dependents(Taken(g, sure), {id})
           To(d, m) == \E p \in P[d] : p.node = m /\ (sure => p.certain) /\ p.path \subseteq D[d]
           met == {d \in Nat : d <= depth => \A m \in D[d] : To(d, m)}
<1>1. /\ P[0] = {Stay(id)} /\ \A k \in Nat : P[k + 1] = Lengthened(g, P[k])
      /\ D[0] = {id} /\ \A k \in Nat : D[k + 1] = Reaching(Taken(g, sure), D[k])
  BY PathsUnfold, DependentsUnfold
<1>6. ToldApart(D[depth]) /\ \A d \in Nat : d <= depth => D[d] \subseteq D[depth]
  BY DependentsGrow
<1> HIDE DEF P, D
<1>2. 0 \in met
  <2>1. Stay(id).node = id /\ Stay(id).certain = TRUE /\ Stay(id).path = {id}
    BY DEF Stay
  <2>2. \A m \in D[0] : To(0, m)
    BY <1>1, <2>1
  <2> QED
    BY <2>2
<1>3. ASSUME NEW d \in met PROVE d + 1 \in met
  <2> SUFFICES ASSUME d + 1 <= depth PROVE \A m \in D[d + 1] : To(d + 1, m)
    OBVIOUS
  <2>3. d \in Nat /\ d <= depth /\ \A m \in D[d] : To(d, m)
    OBVIOUS
  <2>1. P[d] \subseteq P[d + 1] /\ D[d] \subseteq D[d + 1]
    BY <1>1 DEF Lengthened, Reaching
  <2>2. ASSUME NEW m \in D[d + 1] PROVE To(d + 1, m)
    <3>1. CASE m \in D[d]
      BY <2>1, <3>1
    <3>2. CASE m \notin D[d]
      <4>1. PICK e \in Taken(g, sure) : e.source = m /\ e.target \in D[d]
        <5>1. D[d + 1] = Reaching(Taken(g, sure), D[d])
          BY <1>1
        <5> QED
          BY <2>2, <3>2, <5>1, ReachingIs
      <4>2. PICK p \in P[d] : p.node = e.target /\ (sure => p.certain) /\ p.path \subseteq D[d]
        BY <2>3, <4>1
      <4>3. e \in Dependencies(g) /\ (sure => e.certainty = "deterministic")
        BY <4>1 DEF Taken
      <4>4. ~Visited(p, e.source)
        <5>1. p.path \subseteq D[depth] /\ m \in D[depth]
          BY <1>6, <2>2, <2>3, <4>2
        <5>2. \A k \in p.path : LikeForm(k) = LikeForm(m) => k = m
          BY <1>6, <5>1 DEF ToldApart
        <5> QED
          BY <3>2, <4>1, <4>2, <5>2 DEF Visited
      <4>5. Longer(p, e) \in P[d + 1]
        <5> DEFINE x == <<p, e>>
        <5>1. x \in P[d] \X Dependencies(g) /\ x[1] = p /\ x[2] = e
          BY <4>3
        <5> HIDE DEF x
        <5>2. x \in {y \in P[d] \X Dependencies(g) :
                      y[2].target = y[1].node /\ ~Visited(y[1], y[2].source)}
          BY <4>2, <4>4, <5>1
        <5>3. Longer(x[1], x[2]) \in Lengthened(g, P[d])
          BY <5>2 DEF Lengthened
        <5> QED
          BY <1>1, <2>3, <5>1, <5>3
      <4>6. /\ Longer(p, e).node = m /\ (sure => Longer(p, e).certain)
            /\ Longer(p, e).path = p.path \cup {m}
        BY <4>1, <4>2, <4>3 DEF Longer
      <4> QED
        BY <2>1, <2>2, <4>2, <4>5, <4>6
    <3> QED
      BY <3>1, <3>2
  <2> QED
    BY <2>2
<1>4. met \in SUBSET Nat
  OBVIOUS
<1>5. met = Nat
  <2> HIDE DEF met
  <2> QED
    BY <1>2, <1>3, <1>4, Induction
<1> QED
  BY <1>5 DEF P, D, HasPaths

LEMMA AllOrSure ==
  ASSUME NEW g
  PROVE  /\ Taken(g, FALSE) = Dependencies(g)
         /\ Taken(g, TRUE) = {e \in Dependencies(g) : e.certainty = "deterministic"}
BY DEF Taken

\* A hit is a dependent at its depth, certain only if deterministic edges
\* reach it.
TrueHit(h, id, depth, reached, surely) ==
  /\ h.depth \in Nat /\ h.depth >= 1 /\ h.depth <= depth /\ h.node # id
  /\ h.node \in reached[h.depth] /\ h.node \in reached[depth]
  /\ h.certain => h.node \in surely[depth]

LEMMA RadiusIsSound ==
  ASSUME NEW g, StoredGraph(g), NEW id \in Nat, NEW depth \in Nat, NEW h \in BlastRadius(g, id, depth)
  PROVE  TrueHit(h, id, depth, Dependents(Dependencies(g), {id}), Dependents(Taken(g, TRUE), {id}))
<1> DEFINE D == Dependents(Dependencies(g), {id})
           S == Dependents(Taken(g, TRUE), {id})
           P == BlastPaths(g, id)
           hits == {p \in P[depth] : p.depth > 0}
           To(n) == {p \in hits : p.node = n}
           nodes == {p.node : p \in hits}
           Depths(n) == {p.depth : p \in To(n)}
           Hit(n) == [node |-> n, depth |-> Min(Depths(n)), certain |-> \E p \in To(n) : p.certain]
<1>1. BlastRadius(g, id, depth) = {Hit(n) : n \in nodes}
  BY DEF BlastRadius
<1>2. /\ FALSE \in BOOLEAN /\ TRUE \in BOOLEAN
      /\ \A p \in hits : p.depth \in Nat /\ p.certain \in BOOLEAN
  BY PathsTyped DEF Path
<1>3. \A p \in P[depth] : /\ p.depth <= depth /\ (p.depth > 0 <=> p.node # id)
                          /\ p.node \in Dependents(Taken(g, FALSE), {id})[p.depth]
  BY <1>2, PathsReach
<1>4. \A p \in P[depth] : p.certain => p.node \in S[p.depth]
  BY <1>2, PathsReach
<1>5. \A p \in P[depth] : p.node \in D[p.depth]
  BY <1>3, AllOrSure
<1>6. PICK n \in nodes : h = Hit(n)
  <2> HIDE DEF nodes, Hit
  <2> QED
    BY <1>1
<1>7. PICK p \in To(n) : p.depth = Min(Depths(n))
  <2>1. Depths(n) \in SUBSET Nat /\ Depths(n) # {}
    BY <1>2
  <2>2. Min(Depths(n)) \in Depths(n)
    <3> HIDE DEF Depths
    <3> QED
      BY <2>1, MinOfNaturals
  <2> QED
    BY <2>2
<1>8. h.depth = p.depth /\ h.node = n /\ (h.certain <=> \E r \in To(n) : r.certain)
  <2> HIDE DEF Depths, To
  <2> QED
    BY <1>6, <1>7
<1> HIDE DEF D, S, P
<1>9. p.depth \in Nat /\ p.depth >= 1 /\ p.depth <= depth /\ n # id /\ n \in D[p.depth]
  <2>1. p \in P[depth] /\ p.depth > 0 /\ p.node = n /\ p.depth \in Nat
    BY <1>2
  <2>2. p.depth <= depth /\ p.node # id
    BY <1>3, <2>1
  <2>3. n \in D[p.depth]
    BY <1>5, <2>1
  <2> HIDE DEF To
  <2> QED
    BY <2>1, <2>2, <2>3
<1>10. n \in D[depth]
  BY <1>9, DependentsGrow DEF D
<1>11. ASSUME NEW r \in To(n), r.certain PROVE n \in S[depth]
  <2>1. r.depth \in Nat /\ r.depth <= depth /\ n \in S[r.depth]
    BY <1>2, <1>3, <1>4, <1>11
  <2> QED
    BY <2>1, DependentsGrow DEF S
<1> HIDE DEF To
<1> QED
  BY <1>8, <1>9, <1>10, <1>11 DEF TrueHit, D, S

\* Of nodes LIKE tells apart, the least depth at which one is hit is its
\* distance, and a path of deterministic edges hits it exactly if they reach
\* it.
Radius(hits, id, depth, reached, surely) ==
  /\ {h.node : h \in hits} = reached[depth] \ {id}
  /\ \A h \in hits :
       /\ h.depth \in Nat /\ h.depth >= 1 /\ h.depth <= depth
       /\ h.node \in reached[h.depth] /\ h.node \notin reached[h.depth - 1]
       /\ (h.certain <=> h.node \in surely[depth])

LEMMA RadiusIsDistance ==
  ASSUME NEW g, StoredGraph(g), NEW id \in Nat, NEW depth \in Nat,
         ToldApart(Dependents(Dependencies(g), {id})[depth])
  PROVE  Radius(BlastRadius(g, id, depth), id, depth,
                Dependents(Dependencies(g), {id}), Dependents(Taken(g, TRUE), {id}))
<1> DEFINE D == Dependents(Dependencies(g), {id})
           S == Dependents(Taken(g, TRUE), {id})
           P == BlastPaths(g, id)
           hits == {p \in P[depth] : p.depth > 0}
           To(n) == {p \in hits : p.node = n}
           nodes == {p.node : p \in hits}
           Depths(n) == {p.depth : p \in To(n)}
           Hit(n) == [node |-> n, depth |-> Min(Depths(n)), certain |-> \E p \in To(n) : p.certain]
<1>1. BlastRadius(g, id, depth) = {Hit(n) : n \in nodes}
  BY DEF BlastRadius
<1>2. /\ FALSE \in BOOLEAN /\ TRUE \in BOOLEAN
      /\ \A p \in hits : p.depth \in Nat /\ p.certain \in BOOLEAN
  BY PathsTyped DEF Path
<1>3. \A p \in P[depth] : /\ p.depth <= depth /\ (p.depth > 0 <=> p.node # id)
                          /\ p.node \in D[p.depth]
                          /\ p.certain => p.node \in S[p.depth]
  <2>1. \A p \in P[depth] : /\ p.depth <= depth /\ (p.depth > 0 <=> p.node # id)
                            /\ p.node \in Dependents(Taken(g, FALSE), {id})[p.depth]
    BY <1>2, PathsReach
  <2>2. \A p \in P[depth] : p.certain => p.node \in S[p.depth]
    BY <1>2, PathsReach
  <2> QED
    BY <2>1, <2>2, AllOrSure
<1>4. ASSUME NEW d \in Nat, d <= depth, NEW n \in D[d], n # id
      PROVE  \E p \in To(n) : p.depth <= d
  <2>1. n \in Dependents(Taken(g, FALSE), {id})[d]
    BY <1>4, AllOrSure
  <2>2. PICK p \in P[d] : p.node = n
    <3>1. ToldApart(Dependents(Taken(g, FALSE), {id})[d])
      <4>1. D[d] \subseteq D[depth]
        BY <1>4, DependentsGrow
      <4> QED
        BY <4>1, AllOrSure DEF ToldApart
    <3>2. HasPaths(g, id, FALSE, d)
      BY <1>2, <1>4, <3>1, ReachedByPath
    <3> QED
      BY <2>1, <3>2 DEF HasPaths
  <2>3. p.depth <= d /\ p.depth > 0
    BY <1>2, <1>4, <2>2, PathsReach
  <2>4. p \in P[depth]
    BY <1>4, <2>2, PathsGrow
  <2> QED
    BY <2>2, <2>3, <2>4
<1>5. ASSUME NEW n \in S[depth], n # id
      PROVE  \E p \in To(n) : p.certain
  <2>1. PICK p \in P[depth] : p.node = n /\ p.certain
    <3>1. ToldApart(S[depth])
      BY <1>2, SureReach DEF ToldApart
    <3>2. HasPaths(g, id, TRUE, depth)
      BY <1>2, <3>1, ReachedByPath
    <3> QED
      BY <1>5, <3>2 DEF HasPaths
  <2> QED
    BY <1>3, <1>5, <2>1
<1>6. ASSUME NEW n \in nodes
      PROVE  /\ Min(Depths(n)) \in Nat /\ Min(Depths(n)) >= 1 /\ Min(Depths(n)) <= depth
             /\ \E p \in To(n) : p.depth = Min(Depths(n))
             /\ \A p \in To(n) : Min(Depths(n)) <= p.depth
  <2>1. Depths(n) \in SUBSET Nat /\ Depths(n) # {}
    BY <1>2
  <2>2. Min(Depths(n)) \in Depths(n) /\ \A k \in Depths(n) : Min(Depths(n)) <= k
    <3> HIDE DEF Depths
    <3> QED
      BY <2>1, MinOfNaturals
  <2>3. \A p \in To(n) : p.depth \in Depths(n)
    OBVIOUS
  <2>4. PICK p \in To(n) : p.depth = Min(Depths(n))
    BY <2>2
  <2>5. p.depth \in Nat /\ p.depth > 0 /\ p.depth <= depth
    BY <1>2, <1>3
  <2> HIDE DEF Depths
  <2> QED
    BY <2>2, <2>3, <2>4, <2>5
<1> HIDE DEF D, S, P, Depths
<1>7. nodes = D[depth] \ {id}
  <2>1. ASSUME NEW p \in hits PROVE p.node \in D[depth] /\ p.node # id
    <3>1. p.depth \in Nat /\ p.depth <= depth /\ p.node \in D[p.depth] /\ p.node # id
      BY <1>2, <1>3
    <3> QED
      BY <3>1, DependentsGrow DEF D
  <2>2. ASSUME NEW n \in D[depth], n # id PROVE n \in nodes
    BY <1>4, <2>2
  <2> QED
    BY <2>1, <2>2
<1>8. ASSUME NEW n \in nodes
      PROVE  /\ n \in D[Min(Depths(n))] /\ n \notin D[Min(Depths(n)) - 1]
             /\ ((\E p \in To(n) : p.certain) <=> n \in S[depth])
  <2>1. PICK p \in To(n) : p.depth = Min(Depths(n))
    BY <1>6
  <2>2. n \in D[Min(Depths(n))] /\ n # id
    BY <1>3, <2>1
  <2>3. ASSUME n \in D[Min(Depths(n)) - 1] PROVE FALSE
    <3>1. Min(Depths(n)) - 1 \in Nat /\ Min(Depths(n)) - 1 <= depth
      BY <1>6
    <3>2. PICK r \in To(n) : r.depth <= Min(Depths(n)) - 1
      BY <1>4, <2>2, <2>3, <3>1
    <3>3. Min(Depths(n)) <= r.depth /\ r.depth \in Nat
      BY <1>2, <1>6
    <3> QED
      BY <1>6, <3>2, <3>3
  <2>4. ASSUME NEW r \in To(n), r.certain PROVE n \in S[depth]
    <3>1. r.depth \in Nat /\ r.depth <= depth /\ n \in S[r.depth]
      BY <1>2, <1>3, <2>4
    <3> QED
      BY <3>1, DependentsGrow DEF S
  <2>5. n \in S[depth] => \E r \in To(n) : r.certain
    BY <1>5, <2>2
  <2> HIDE DEF To
  <2> QED
    BY <2>2, <2>3, <2>4, <2>5
<1>9. \A n \in nodes : /\ Hit(n).depth = Min(Depths(n)) /\ Hit(n).node = n
                       /\ (Hit(n).certain <=> \E p \in To(n) : p.certain)
  OBVIOUS
<1> HIDE DEF Hit, nodes, To
<1>10. {h.node : h \in BlastRadius(g, id, depth)} = nodes
  <2> DEFINE R == BlastRadius(g, id, depth)
  <2>1. \A h \in R : h.node \in nodes
    BY <1>1, <1>9
  <2>2. \A n \in nodes : \E h \in R : h.node = n
    BY <1>1, <1>9
  <2> HIDE DEF R
  <2>3. {h.node : h \in R} = nodes
    BY <2>1, <2>2
  <2> QED
    BY <2>3 DEF R
<1>11. ASSUME NEW h \in BlastRadius(g, id, depth)
       PROVE  /\ h.depth \in Nat /\ h.depth >= 1 /\ h.depth <= depth
              /\ h.node \in D[h.depth] /\ h.node \notin D[h.depth - 1]
              /\ (h.certain <=> h.node \in S[depth])
  <2>1. PICK n \in nodes : h = Hit(n)
    BY <1>1, <1>11
  <2>2. h.depth = Min(Depths(n)) /\ h.node = n /\ (h.certain <=> \E p \in To(n) : p.certain)
    BY <1>9, <2>1
  <2> QED
    BY <1>6, <1>8, <2>2
<1> QED
  BY <1>7, <1>10, <1>11 DEF D, S, Radius

\* Unless a hit is as deep as was asked, no dependency leads on from the hits.
LEMMA RadiusIsWhole ==
  ASSUME NEW g, StoredGraph(g), NEW id \in Nat, NEW depth \in Nat, depth >= 1,
         ToldApart(Dependents(Dependencies(g), {id})[depth]),
         ~BlastTruncated(BlastRadius(g, id, depth), depth), NEW e \in Dependencies(g),
         e.target \in {h.node : h \in BlastRadius(g, id, depth)} \cup {id}
  PROVE  e.source \in {h.node : h \in BlastRadius(g, id, depth)} \cup {id}
<1> DEFINE D == Dependents(Dependencies(g), {id})
           R == BlastRadius(g, id, depth)
<1>1. /\ {h.node : h \in R} = D[depth] \ {id}
      /\ \A h \in R : h.depth \in Nat /\ h.node \in D[h.depth]
  <2>1. Radius(R, id, depth, D, Dependents(Taken(g, TRUE), {id}))
    BY RadiusIsDistance
  <2> QED
    BY <2>1 DEF Radius
<1>2. \A h \in R : h.depth < depth
  BY <1>1 DEF BlastTruncated
<1>3. \A n \in Nat : D[n + 1] = Reaching(Dependencies(g), D[n]) /\ D[0] = {id}
  BY DependentsUnfold
<1> HIDE DEF D, R
<1>4. \E n \in Nat : n < depth /\ e.target \in D[n]
  <2>1. CASE e.target = id
    BY <1>3, <2>1
  <2>2. CASE e.target # id
    <3>1. PICK h \in R : h.node = e.target
      BY <2>2 DEF R
    <3> QED
      BY <1>1, <1>2, <3>1
  <2> QED
    BY <2>1, <2>2
<1>5. PICK n \in Nat : n < depth /\ e.target \in D[n]
  BY <1>4
<1>6. e.source \in D[n + 1]
  BY <1>3, <1>5, ReachingIs
<1>7. e.source \in D[depth]
  BY <1>5, <1>6, DependentsGrow DEF D
<1> QED
  BY <1>1, <1>7 DEF R

\* A radius says it was cut on its first page, if a hit is as deep as was asked.
Cut(g, q) == BlastTruncated({r.item : r \in ListRows(g, "blastRadius", q)}, q.depth)
Marked(read, g, q) ==
  read.at \in {"nodes", "done"} => (read.truncated <=> Cut(g, q))
Marks(rs, ps, g, q) ==
  /\ ps = <<>> /\ rs # <<>> => Marked(rs["blastRadius"], g, q)
  /\ ps # <<>> => \E t : ps[1].more = {t} /\ (t <=> Cut(g, q))
MarkInv ==
  ~Idle /\ request[1].view = "blastRadius" /\ Undisturbed => Marks(reads, pages, stored, request[1])

LEMMA PagedKeepsMark ==
  ASSUME NEW list, NEW read, NEW rows, DOMAIN read = Fields
  PROVE  Paged(list, read, rows).truncated = read.truncated
BY DEF Paged, Fields

\* What the first rows are cut from is empty only if there are none.
LEMMA FetchMarks ==
  ASSUME ServeInv, request[1].view = "blastRadius", versions = {stored}, pages = <<>>,
         NEW list \in DOMAIN reads, FetchRows(list)
  PROVE  Marked(reads'["blastRadius"], stored, request[1])
<1> DEFINE q == request[1]
           r == reads[list]
           all == ListRows(stored, list, q)
           rows == FirstOf(ByKey(After(all, r.cursor)), LimitOf(q, list) + 1)
           read == [r EXCEPT !.truncated = /\ list = "blastRadius" /\ rows # <<>>
                                           /\ BlastTruncated({x.item : x \in all}, q.depth)]
           next == IF list \in Hydrates /\ rows # <<>>
                   THEN [read EXCEPT !.at = "nodes", !.rows = rows]
                   ELSE Paged(list, read, rows)
<1>1. /\ q \in Requests /\ Valid(q) /\ list \in Lists(q) /\ StoredGraph(stored)
      /\ ReadIs(list, r, q, head, ClientCursor, versions, stored)
  BY WhileReading DEF ReadsInv
<1>2. list = "blastRadius"
  BY <1>1 DEF Lists
<1>3. r.at = "rows" /\ reads' = [reads EXCEPT ![list] = next]
  BY DEF FetchRows, Become
<1>4. DOMAIN r = Fields /\ r.cursor = <<>>
  BY <1>1, <1>3, ListsOf DEF ReadIs, PagedRead, Plain, Listed, ClientCursor
<1>5. LimitOf(q, list) \in Nat \ {0}
  BY <1>1, <1>2 DEF LimitOf, Requests, Valid
<1>6. rows = <<>> => all = {}
  <2> SUFFICES ASSUME rows = <<>> PROVE all = {}
    OBVIOUS
  <2>1. Keyed(all, 2) /\ After(all, r.cursor) = all
    BY <1>1, <1>2, <1>4, ListsKeyed DEF ListNames, KeyLength, After
  <2> HIDE DEF all
  <2>2. /\ Cardinality(all) \in Nat /\ ByKey(all) \in [1 .. Cardinality(all) -> all]
        /\ Len(ByKey(all)) = Cardinality(all) /\ IsFiniteSet(all)
    BY <2>1, ByKeyLists DEF Keyed
  <2>3. ByKey(all) \in Seq(all) /\ LimitOf(q, list) + 1 \in Nat
    BY <1>5, <2>2
  <2>4. Len(rows) = IF LimitOf(q, list) + 1 <= Len(ByKey(all)) THEN LimitOf(q, list) + 1
                    ELSE Len(ByKey(all))
    BY <2>1, <2>3, FirstOfProperties
  <2>5. Len(rows) = 0
    BY EmptyListy
  <2> HIDE DEF rows
  <2>6. Cardinality(all) = 0
    BY <1>5, <2>2, <2>4, <2>5
  <2> QED
    BY <2>2, <2>6, FS_EmptySet
<1>7. read.truncated <=> Cut(stored, q)
  <2>1. read.truncated = (/\ list = "blastRadius" /\ rows # <<>>
                          /\ BlastTruncated({x.item : x \in all}, q.depth))
    BY <1>4 DEF Fields
  <2>2. all = {} => ~BlastTruncated({x.item : x \in all}, q.depth)
    BY DEF BlastTruncated
  <2> HIDE DEF read, rows
  <2>3. Cut(stored, q) <=> BlastTruncated({x.item : x \in all}, q.depth)
    BY <1>2 DEF Cut
  <2> HIDE DEF all
  <2> QED
    BY <1>2, <1>6, <2>1, <2>2, <2>3
<1>8. DOMAIN read = Fields
  BY <1>4
<1> HIDE DEF read, rows
<1>9. next.truncated = read.truncated
  BY <1>8, PagedKeepsMark DEF Fields
<1>10. reads'["blastRadius"] = next
  BY <1>2, <1>3
<1> HIDE DEF next
<1> QED
  BY <1>7, <1>9, <1>10 DEF Marked

LEMMA HydrateMarks ==
  ASSUME ServeInv, request[1].view = "blastRadius", NEW list \in DOMAIN reads, HydrateRows(list),
         Marked(reads["blastRadius"], stored, request[1])
  PROVE  Marked(reads'["blastRadius"], stored, request[1])
<1>1. /\ request[1] \in Requests /\ list \in Lists(request[1])
      /\ ReadIs(list, reads[list], request[1], head, ClientCursor, versions, stored)
  BY WhileReading DEF ReadsInv
<1>2. list = "blastRadius"
  BY <1>1 DEF Lists
<1>3. PICK rows : reads' = [reads EXCEPT ![list] = Paged(list, reads[list], rows)]
  BY DEF HydrateRows, Become
<1>4. DOMAIN reads[list] = Fields /\ reads[list].at = "nodes"
  BY <1>1 DEF ReadIs, HydrateRows
<1>5. reads'["blastRadius"].truncated = reads["blastRadius"].truncated
  BY <1>2, <1>3, <1>4, PagedKeepsMark
<1> QED
  BY <1>2, <1>4, <1>5 DEF Marked

LEMMA RespondMarks ==
  ASSUME ServeInv, request[1].view = "blastRadius", Respond,
         Marks(reads, pages, stored, request[1])
  PROVE  Marks(reads', pages', stored, request[1])
<1>1. ~Idle /\ reads # <<>> /\ reads' = <<>>
  BY DEF Respond
<1>2. request[1] \in Requests /\ Listy(pages)
  BY <1>1, WhileAsked DEF PagesInv, PagesIs
<1>3. request[1].view \in Listed /\ Lists(request[1]) = {"blastRadius"}
      /\ ListOf(request[1]) = "blastRadius"
  BY <1>2 DEF Listed, Lists, ListOf
<1>4. reads["blastRadius"].at = "done"
  BY <1>3, Responding
<1>5. PICK a : /\ pages' = Append(pages, a)
               /\ a = Answer(reads["blastRadius"].shown, reads["blastRadius"].cursor,
                             reads["blastRadius"].total, {reads["blastRadius"].truncated})
  BY <1>3, Responding
<1>6. a.more = {reads["blastRadius"].truncated}
  BY <1>5 DEF Answer
<1>7. /\ pages' # <<>> /\ pages'[Len(pages) + 1] = a
      /\ \A k \in 1 .. Len(pages) : pages'[k] = pages[k]
  BY <1>2, <1>5, ListyAppend
<1>8. \E t : pages'[1].more = {t} /\ (t <=> Cut(stored, request[1]))
  <2>1. CASE pages = <<>>
    <3>1. Len(pages) + 1 = 1
      BY <2>1, EmptyListy
    <3> QED
      BY <1>1, <1>4, <1>6, <1>7, <2>1, <3>1 DEF Marks, Marked
  <2>2. CASE pages # <<>>
    <3>1. 1 \in 1 .. Len(pages)
      BY <1>2, <2>2, ListyFacts
    <3> QED
      BY <1>7, <2>2, <3>1 DEF Marks
  <2> QED
    BY <2>1, <2>2
<1> QED
  BY <1>1, <1>7, <1>8 DEF Marks

LEMMA AskMarks ==
  ASSUME ServeInv, NEW q \in RequestsOn(stored), Ask(q), q.view = "blastRadius"
  PROVE  Marks(reads', pages', stored', q)
<1>1. Idle /\ stored \in Graphs \cup Versions /\ pages = <<>> /\ pages' = pages
  BY DEF Ask, ServeInv, TypeInv
<1>2. q \in Requests
  BY <1>1, RequestsAssumption
<1>3. ~HasHead(q) /\ Lists(q) = {"blastRadius"}
  BY <1>2, ListsOf DEF Lists, Listed
<1>4. reads' = Started(q, <<>>)
  BY <1>3 DEF Ask
<1>5. reads'["blastRadius"].at = "rows"
  BY <1>3, <1>4 DEF Started, Fresh, Counted
<1> QED
  BY <1>1, <1>5 DEF Marks, Marked

LEMMA MarkNext ==
  ASSUME ServeInv, MarkInv, [Next]_vars
  PROVE  MarkInv'
<1> SUFFICES ASSUME ~Idle', request'[1].view = "blastRadius", Undisturbed'
             PROVE  Marks(reads', pages', stored', request'[1])
  BY DEF MarkInv
<1>1. ASSUME NEW q \in RequestsOn(stored), Ask(q)
      PROVE  Marks(reads', pages', stored', request'[1])
  <2>1. request'[1] = q
    BY <1>1 DEF Ask
  <2> QED
    BY <1>1, <2>1, AskMarks
<1>2. ASSUME ~Idle, request' = request, versions' = versions, stored' = stored
      PROVE  Marks(reads, pages, stored, request[1]) /\ request[1].view = "blastRadius"
             /\ versions = {stored} /\ request[1] \in Requests /\ Flow
             /\ Lists(request[1]) = {"blastRadius"}
  BY <1>2, WhileAsked DEF MarkInv, Undisturbed, Lists
<1>3. CASE GetNode \/ SelectContainers
  BY <1>2, <1>3 DEF GetNode, SelectContainers
<1>4. ASSUME NEW list \in DOMAIN reads,
             CountRows(list) \/ FetchRows(list) \/ HydrateRows(list) \/ Project(list)
      PROVE  Marks(reads', pages', stored', request'[1])
  <2>1. ~Idle /\ reads # <<>> /\ list \in Lists(request[1])
        /\ ReadIs(list, reads[list], request[1], head, ClientCursor, versions, stored)
    BY WhileReading DEF ReadsInv
  <2>2. request' = request /\ versions' = versions /\ stored' = stored /\ pages' = pages
    BY <1>4 DEF CountRows, FetchRows, HydrateRows, Project, Become
  <2>3. list = "blastRadius"
    BY <1>2, <2>1, <2>2
  <2>4. pages = <<>> => Marked(reads'["blastRadius"], stored, request[1])
    <3> SUFFICES ASSUME pages = <<>> PROVE Marked(reads'["blastRadius"], stored, request[1])
      OBVIOUS
    <3>1. CASE CountRows(list)
      <4>1. DOMAIN reads[list] = Fields
        BY <2>1 DEF ReadIs
      <4>2. reads'["blastRadius"].at = "rows"
        BY <2>3, <3>1, <4>1 DEF CountRows, Become, Fields
      <4> QED
        BY <4>2 DEF Marked
    <3>2. CASE FetchRows(list)
      BY <1>2, <2>1, <2>2, <3>2, FetchMarks
    <3>3. CASE HydrateRows(list)
      BY <1>2, <2>1, <2>2, <3>3, HydrateMarks DEF Marks
    <3>4. CASE Project(list)
      <4>1. reads[list].at \in {"count", "rows", "nodes", "done"}
        BY <1>2, <2>1, <2>2 DEF ReadIs, Plain, Listed, PagedRead
      <4> QED
        BY <3>4, <4>1 DEF Project
    <3> QED
      BY <1>4, <3>1, <3>2, <3>3, <3>4
  <2> QED
    BY <1>2, <2>1, <2>2, <2>4 DEF Marks
<1>5. CASE Respond
  BY <1>2, <1>5, RespondMarks DEF Respond
<1>6. CASE AskNext
  BY <1>2, <1>6 DEF AskNext, Answered, Marks
<1>7. CASE Leaves
  BY <1>7 DEF Leaves, Idle
<1>8. ASSUME NEW g \in Versions, Replace(g)
      PROVE  FALSE
  <2>1. ~Idle /\ g # stored /\ stored' = g /\ versions' = versions \cup {g}
    BY <1>8 DEF Replace, Idle
  <2>2. stored \in versions
    BY <2>1, WhileAsked
  <2> QED
    BY <2>1, <2>2 DEF Undisturbed
<1>9. CASE UNCHANGED vars
  BY <1>2, <1>9 DEF vars, Idle
<1> QED
  BY <1>1, <1>3, <1>4, <1>5, <1>6, <1>7, <1>8, <1>9 DEF Next

\* Rows that fill pages one after the other are all on some page.
Spans(size, n, limit, last) == size = (n - 1) * limit + last
OnAPage(j, n, limit, last) ==
  \E i \in 1 .. n : \E k \in 1 .. (IF i = n THEN last ELSE limit) : j = (i - 1) * limit + k

LEMMA PagesCover ==
  ASSUME NEW n \in Nat \ {0}, NEW limit \in Nat, NEW size \in Nat, NEW last \in Nat,
         Spans(size, n, limit, last), NEW j \in 1 .. size
  PROVE  OnAPage(j, n, limit, last)
<1> DEFINE Start(m) == m * limit
           S == {m \in Nat : j > Start(m)}
           On(i) == \E k \in 1 .. (IF i = n THEN last ELSE limit) : j = Start(i - 1) + k
<1>1. /\ Start(0) = 0
      /\ \A m \in Nat : Start(m) \in Nat /\ Start(m + 1) = Start(m) + limit
  OBVIOUS
<1>2. size = Start(n - 1) + last
  BY DEF Spans
<1> HIDE DEF Start
<1>3. ASSUME NEW m \in Nat, m < n, j > Start(m), m = n - 1 \/ ~(j > Start(m + 1))
      PROVE  On(m + 1)
  <2>1. Start(m) \in Nat /\ Start(m + 1) = Start(m) + limit /\ (m + 1) - 1 = m
    BY <1>1
  <2> DEFINE k == j - Start(m)
  <2>2. k \in Nat /\ k >= 1 /\ j = Start((m + 1) - 1) + k
    BY <1>3, <2>1
  <2>3. m = n - 1 => k <= last /\ m + 1 = n
    BY <1>2, <2>1
  <2>4. m # n - 1 => k <= limit /\ m + 1 # n
    BY <1>3, <2>1
  <2> HIDE DEF k
  <2>5. k \in 1 .. (IF m + 1 = n THEN last ELSE limit)
    BY <2>2, <2>3, <2>4
  <2> QED
    BY <2>2, <2>5
<1>4. \E m \in Nat : m < n /\ j > Start(m) /\ (m = n - 1 \/ ~(j > Start(m + 1)))
  <2> SUFFICES ASSUME \A m \in Nat : m < n /\ j > Start(m) => m # n - 1 /\ j > Start(m + 1)
               PROVE  FALSE
    OBVIOUS
  <2> DEFINE T == {m \in Nat : m < n => j > Start(m)}
  <2>1. 0 \in T
    BY <1>1
  <2>2. ASSUME NEW m \in T PROVE m + 1 \in T
    OBVIOUS
  <2>3. T \in SUBSET Nat
    OBVIOUS
  <2>4. T = Nat
    <3> HIDE DEF T
    <3> QED
      BY <2>1, <2>2, <2>3, Induction
  <2>5. n - 1 \in T /\ n - 1 < n /\ n - 1 \in Nat
    BY <2>4
  <2> QED
    BY <2>5
<1>5. PICK m \in Nat : m < n /\ j > Start(m) /\ (m = n - 1 \/ ~(j > Start(m + 1)))
  BY <1>4
<1>6. On(m + 1) /\ m + 1 \in 1 .. n
  BY <1>3, <1>5
<1> QED
  BY <1>6 DEF Start, OnAPage

LEMMA Earlier ==
  ASSUME NEW n \in Nat \ {0}, NEW i \in 1 .. n, i # n, NEW limit \in Nat \ {0}
  PROVE  /\ i \in 1 .. n - 1
         /\ (i - 1) * limit + limit <= (n - 1) * limit
<1>1. i \in 1 .. n - 1
  OBVIOUS
<1> DEFINE more == n - 1 - i
<1>2. i \in Nat /\ more \in Nat /\ n - 1 = i + more
  BY <1>1
<1> HIDE DEF more
<1>3. more * limit \in Nat /\ (i - 1) * limit + limit = i * limit
  BY <1>2
<1>4. (i + more) * limit = i * limit + more * limit /\ i * limit \in Nat
  BY <1>2
<1>5. (n - 1) * limit = i * limit + more * limit
  BY <1>2, <1>4
<1> QED
  BY <1>1, <1>3, <1>4, <1>5

\* The pages of a list show what is on its rows, and nothing else.
LEMMA PagesShow ==
  ASSUME NEW ps, Listy(ps), ps # <<>>, NEW rows, NEW n, Keyed(rows, n), NEW limit \in Nat \ {0},
         \A i \in 1 .. Len(ps) - 1 : ps[i].next # <<>>,
         ps[Len(ps)].next = <<>>,
         \A i \in 1 .. Len(ps) : PageOf(ps[i].items, ps[i].next, rows, Prev(ps, i), limit)
  PROVE  {row.item : row \in UNION {ToSet(page.items) : page \in ToSet(ps)}}
           = {r.item : r \in rows}
<1> DEFINE all == ByKey(rows)
           shown == UNION {ToSet(page.items) : page \in ToSet(ps)}
           last == Len(ps[Len(ps)].items)
<1>1. /\ Len(ps) \in Nat \ {0} /\ DOMAIN ps = 1 .. Len(ps) /\ Len(ps) \in 1 .. Len(ps)
      /\ ToSet(ps) = {ps[k] : k \in 1 .. Len(ps)}
  BY ListyFacts
<1>2. \A i \in 1 .. Len(ps) : /\ Len(ps[i].items) \in Nat
                              /\ DOMAIN ps[i].items = 1 .. Len(ps[i].items)
                              /\ ToSet(ps[i].items) = {ps[i].items[k] : k \in 1 .. Len(ps[i].items)}
  <2> TAKE i \in 1 .. Len(ps)
  <2>1. PageOf(ps[i].items, ps[i].next, rows, Prev(ps, i), limit)
    OBVIOUS
  <2>2. DOMAIN ps[i].items = 1 .. Len(ps[i].items) /\ Len(ps[i].items) \in Nat
    BY <2>1 DEF PageOf
  <2> QED
    BY <2>2 DEF ToSet
<1>3. /\ Len(all) = (Len(ps) - 1) * limit + last
      /\ \A i \in 1 .. Len(ps) - 1 : Len(ps[i].items) = limit
      /\ \A i \in DOMAIN ps : \A k \in DOMAIN ps[i].items :
           Is(ps[i].items[k], all[(i - 1) * limit + k])
  BY PagesOfWhole
<1>4. /\ Len(all) = Cardinality(rows) /\ Len(all) \in Nat
      /\ \A k \in 1 .. Len(all) : all[k] \in rows
      /\ \A r \in rows : r = all[Rank(rows, r.key) + 1]
                        /\ Rank(rows, r.key) \in 0 .. Cardinality(rows) - 1
  BY ByKeyLists, RankOf
<1> HIDE DEF all
<1>5. ASSUME NEW i \in 1 .. Len(ps), NEW k \in 1 .. Len(ps[i].items)
      PROVE  (i - 1) * limit + k \in 1 .. Len(all)
  <2> DEFINE Start(m) == (m - 1) * limit
  <2>1. \A m \in 1 .. Len(ps) : Start(m) \in Nat
    BY <1>1
  <2>2. i # Len(ps) => Start(i) + limit <= Start(Len(ps)) /\ Len(ps[i].items) = limit
    <3> SUFFICES ASSUME i # Len(ps)
                 PROVE  Start(i) + limit <= Start(Len(ps)) /\ Len(ps[i].items) = limit
      OBVIOUS
    <3> DEFINE m == Len(ps)
    <3>1. m \in Nat \ {0} /\ i \in 1 .. m /\ i # m
      BY <1>1
    <3> HIDE DEF m
    <3>2. i \in 1 .. m - 1 /\ Start(i) + limit <= Start(m)
      BY <3>1, Earlier
    <3> QED
      BY <1>3, <3>2 DEF m
  <2>3. Len(all) = Start(Len(ps)) + last
    BY <1>3
  <2>4. last \in Nat
    BY <1>1, <1>2
  <2>5. i = Len(ps) => Len(ps[i].items) = last
    OBVIOUS
  <2> HIDE DEF Start, last
  <2>6. Start(i) + k \in 1 .. Len(all)
    BY <1>1, <1>2, <2>1, <2>2, <2>3, <2>4, <2>5
  <2> QED
    BY <2>6 DEF Start
<1>6. ASSUME NEW row \in shown
      PROVE  \E r \in rows : r.item = row.item
  <2>1. PICK i \in 1 .. Len(ps) : row \in ToSet(ps[i].items)
    BY <1>1
  <2>2. PICK k \in 1 .. Len(ps[i].items) : row = ps[i].items[k]
    BY <1>2, <2>1
  <2>3. Is(row, all[(i - 1) * limit + k])
    BY <1>1, <1>2, <1>3, <2>2
  <2>4. all[(i - 1) * limit + k] \in rows
    BY <1>4, <1>5
  <2> QED
    BY <2>3, <2>4 DEF Is
<1>7. ASSUME NEW r \in rows
      PROVE  \E row \in shown : row.item = r.item
  <2> DEFINE j == Rank(rows, r.key) + 1
  <2>1. j \in 1 .. Len(all) /\ r = all[j]
    BY <1>4
  <2> HIDE DEF j
  <2>2. last \in Nat /\ Len(all) = (Len(ps) - 1) * limit + last
    BY <1>1, <1>2, <1>3
  <2> HIDE DEF last
  <2>3. PICK i \in 1 .. Len(ps) : \E k \in 1 .. (IF i = Len(ps) THEN last ELSE limit) :
          j = (i - 1) * limit + k
    <3> DEFINE m == Len(ps)
               size == Len(all)
    <3>1. m \in Nat \ {0} /\ size \in Nat /\ Spans(size, m, limit, last) /\ j \in 1 .. size
      BY <1>1, <1>4, <2>1, <2>2 DEF Spans
    <3> HIDE DEF m, size
    <3>2. OnAPage(j, m, limit, last)
      BY <2>2, <3>1, PagesCover
    <3> QED
      BY <3>2 DEF m, OnAPage
  <2>4. PICK k \in 1 .. (IF i = Len(ps) THEN last ELSE limit) : j = (i - 1) * limit + k
    BY <2>3
  <2>5. Len(ps[i].items) = IF i = Len(ps) THEN last ELSE limit
    <3>1. CASE i = Len(ps)
      BY <3>1 DEF last
    <3>2. CASE i # Len(ps)
      <4> DEFINE m == Len(ps)
      <4>1. m \in Nat \ {0} /\ i \in 1 .. m /\ i # m
        BY <1>1, <3>2
      <4> HIDE DEF m
      <4>2. i \in 1 .. m - 1
        BY <4>1, Earlier
      <4> QED
        BY <1>3, <3>2, <4>2 DEF m
    <3> QED
      BY <3>1, <3>2
  <2>6. k \in DOMAIN ps[i].items
    BY <1>2, <2>4, <2>5
  <2>7. Is(ps[i].items[k], r)
    BY <1>1, <1>3, <2>1, <2>4, <2>6
  <2>8. ps[i].items[k] \in shown
    <3>1. ps[i].items[k] \in ToSet(ps[i].items)
      BY <1>2, <2>6
    <3> QED
      BY <1>1, <3>1
  <2> QED
    BY <2>7, <2>8 DEF Is
<1> HIDE DEF shown
<1>8. {row.item : row \in shown} = {r.item : r \in rows}
  BY <1>6, <1>7
<1> QED
  BY <1>8 DEF shown

\* A blast radius read while nothing is replaced names only dependents, at a
\* depth some way to them has, certain only if deterministic edges alone
\* reach them; of dependents LIKE tells apart it has each at its distance,
\* certain whenever such edges reach it, and all of them unless it says it
\* was cut (blastRadiusCte, runBlastRadiusPage).
THEOREM BlastIsExact == Spec => []BlastIsDistance
<1> DEFINE q == request[1]
           rows == ListRows(stored, "blastRadius", q)
           hits == {row.item : row \in UNION {ToSet(page.items) : page \in ToSet(pages)}}
           deps == Dependencies(stored)
           nodes == {h.node : h \in hits}
           reached == Dependents(deps, {q.id})
           surely == Dependents({e \in deps : e.certainty = "deterministic"}, {q.id})
<1>1. Spec => []MarkInv
  <2>1. Init => MarkInv
    BY DEF Init, Idle, MarkInv
  <2>2. ServeInv /\ MarkInv /\ [Next]_vars => MarkInv'
    BY MarkNext
  <2> QED
    BY <2>1, <2>2, ServeInvariant, PTL DEF Spec
<1>2. ServeInv /\ MarkInv => BlastIsDistance
  <2> SUFFICES ASSUME ServeInv, MarkInv, Complete, Undisturbed, q.view = "blastRadius"
               PROVE  /\ nodes \subseteq reached[q.depth] \ {q.id}
                      /\ \A h \in hits : /\ h.node \in reached[h.depth]
                                         /\ h.certain => h.node \in surely[q.depth]
                      /\ ToldApart(reached[q.depth]) =>
                           /\ nodes = reached[q.depth] \ {q.id}
                           /\ \A h \in hits : /\ h.node \notin reached[h.depth - 1]
                                              /\ (h.certain <=> h.node \in surely[q.depth])
                           /\ pages[1].more = {FALSE} =>
                                \A e \in deps : e.target \in nodes \cup {q.id}
                                                  => e.source \in nodes \cup {q.id}
    BY DEF BlastIsDistance
  <2>1. ~Idle /\ reads = <<>> /\ pages # <<>> /\ ClientCursor = <<>> /\ versions = {stored}
    BY DEF Complete, Answered, Undisturbed
  <2>2. q \in Requests /\ Valid(q) /\ StoredGraph(stored) /\ PagesInv
    BY <2>1, WhileAsked
  <2>3. /\ q.id \in Nat /\ q.depth \in Nat /\ q.depth >= 1 /\ q.limit \in Nat \ {0}
        /\ q.view \in Listed /\ ListOf(q) = "blastRadius"
    BY <2>2 DEF Requests, Valid, Listed, ListOf
  <2>4. /\ Listy(pages) /\ \A i \in 1 .. Len(pages) - 1 : pages[i].next # <<>>
        /\ \A i \in 1 .. Len(pages) :
             PageOf(pages[i].items, pages[i].next, rows, Prev(pages, i), q.limit)
    BY <2>1, <2>2, <2>3 DEF PagesInv, PagesIs, Filled
  <2>5. pages[Len(pages)].next = <<>>
    BY <2>1, <2>4, ListyFacts DEF ClientCursor
  <2>6. Keyed(rows, KeyLength("blastRadius"))
    BY <2>2, ListsKeyed DEF ListNames
  <2>7. hits = {r.item : r \in rows}
    <3> DEFINE limit == q.limit
    <3> HIDE DEF rows, limit
    <3> QED
      BY <2>1, <2>3, <2>4, <2>5, <2>6, PagesShow DEF limit
  <2>8. {r.item : r \in rows} = BlastRadius(stored, q.id, q.depth)
    <3> DEFINE R == BlastRadius(stored, q.id, q.depth)
    <3>1. rows = {[key |-> <<h.depth, h.node>>, item |-> h] : h \in R}
      BY DEF ListRows
    <3> HIDE DEF R, rows
    <3>2. \A r \in rows : r.item \in R
      BY <3>1
    <3>3. ASSUME NEW h \in R PROVE \E r \in rows : r.item = h
      <4> DEFINE r == [key |-> <<h.depth, h.node>>, item |-> h]
      <4>1. r \in rows /\ r.item = h
        BY <3>1
      <4> QED
        BY <4>1
    <3>4. {r.item : r \in rows} = R
      BY <3>2, <3>3
    <3> QED
      BY <3>4 DEF R
  <2>9. pages[1].more = {FALSE} => ~BlastTruncated(BlastRadius(stored, q.id, q.depth), q.depth)
    <3>1. \E t : pages[1].more = {t} /\ (t <=> Cut(stored, q))
      BY <2>1 DEF MarkInv, Marks
    <3>2. Cut(stored, q) <=> BlastTruncated(BlastRadius(stored, q.id, q.depth), q.depth)
      BY <2>8 DEF Cut
    <3> QED
      BY <3>1, <3>2
  <2> DEFINE id == q.id
             depth == q.depth
  <2> HIDE DEF hits, rows, id, depth
  <2>10. hits = BlastRadius(stored, id, depth)
    BY <2>7, <2>8 DEF id, depth
  <2>11. id \in Nat /\ depth \in Nat /\ depth >= 1
    BY <2>3 DEF id, depth
  <2>12. surely = Dependents(Taken(stored, TRUE), {id}) /\ reached = Dependents(deps, {id})
    BY AllOrSure DEF id
  <2> HIDE DEF reached, surely
  <2>13. \A h \in hits : TrueHit(h, id, depth, reached, surely)
    BY <2>2, <2>10, <2>11, <2>12, RadiusIsSound
  <2>14. ASSUME ToldApart(reached[depth])
         PROVE  /\ Radius(hits, id, depth, reached, surely)
                /\ pages[1].more = {FALSE} =>
                     \A e \in deps : e.target \in nodes \cup {id} => e.source \in nodes \cup {id}
    <3>1. ToldApart(Dependents(Dependencies(stored), {id})[depth])
      BY <2>12, <2>14
    <3>2. Radius(hits, id, depth, reached, surely)
      BY <2>2, <2>10, <2>11, <2>12, <3>1, RadiusIsDistance
    <3>3. pages[1].more = {FALSE} =>
            \A e \in deps : e.target \in nodes \cup {id} => e.source \in nodes \cup {id}
      BY <2>2, <2>9, <2>10, <2>11, <3>1, RadiusIsWhole DEF id, depth
    <3> QED
      BY <3>2, <3>3
  <2>15. nodes \subseteq reached[depth] \ {id}
    BY <2>13 DEF TrueHit
  <2> QED
    BY <2>13, <2>14, <2>15 DEF TrueHit, Radius, id, depth
<1> QED
  BY <1>1, <1>2, ServeInvariant, PTL

-----------------------------------------------------------------------------
(* Tarjan's algorithm finds the classes of nodes that lead to each other.  *)

Child(adjacency, n, k) == adjacency[n][k].key[1]
Arrows(adjacency) ==
  /\ DOMAIN adjacency \in SUBSET Nat
  /\ \A n \in DOMAIN adjacency :
       /\ Len(adjacency[n]) \in Nat
       /\ \A k \in 1 .. Len(adjacency[n]) : Child(adjacency, n, k) \in DOMAIN adjacency

\* A shut set holds the children of what it holds; a node leads to another
\* when no shut set holds the one without the other.
Shut(adjacency, S) == \A n \in S : \A k \in 1 .. Len(adjacency[n]) : Child(adjacency, n, k) \in S
Leads(adjacency, a, b) == \A S \in SUBSET DOMAIN adjacency : Shut(adjacency, S) /\ a \in S => b \in S

LEMMA LeadsOn ==
  ASSUME NEW adjacency
  PROVE  /\ \A a : Leads(adjacency, a, a)
         /\ \A a, b, c : Leads(adjacency, a, b) /\ Leads(adjacency, b, c) => Leads(adjacency, a, c)
         /\ \A a : \A k \in 1 .. Len(adjacency[a]) : Leads(adjacency, a, Child(adjacency, a, k))
BY DEF Leads, Shut

Open(t) == {t.stack[p] : p \in 1 .. Len(t.stack)}
FoundBy(t, m) == UNION {t.found[i] : i \in 1 .. m}
\* The edge is followed, of a node that is numbered.
Past(t, n, k) == \A i \in 1 .. Len(t.work) : t.work[i].node = n => k <= t.work[i].next

\* The stack is in the order of the numbers; what has one is stacked or found.
Numbers(t) ==
  /\ \A p, r \in 1 .. Len(t.stack) : p < r => t.index[t.stack[p]] < t.index[t.stack[r]]
  /\ \A n \in DOMAIN t.index : t.index[n] < t.counter
  /\ \A n \in DOMAIN t.index : n \in Open(t) \/ n \in FoundBy(t, Len(t.found))
\* A frame leads to all that is stacked above it, each of which leads to a
\* frame at or below it.
Frames(adjacency, t) ==
  /\ \A i \in 1 .. Len(t.work) : t.work[i].next <= Len(adjacency[t.work[i].node])
  /\ \A i \in 1 .. Len(t.work) : \A x \in Open(t) :
       t.index[t.work[i].node] <= t.index[x] => Leads(adjacency, t.work[i].node, x)
  /\ \A x \in Open(t) : \E i \in 1 .. Len(t.work) :
       t.index[t.work[i].node] <= t.index[x] /\ Leads(adjacency, x, t.work[i].node)
\* The link of a frame is the number of a stacked node it leads to.
Links(adjacency, t) ==
  \A i \in 1 .. Len(t.work) :
    /\ t.low[t.work[i].node] <= t.index[t.work[i].node]
    /\ \E y \in Open(t) : /\ t.index[y] = t.low[t.work[i].node]
                          /\ Leads(adjacency, t.work[i].node, y)
\* Above each frame at or below x is one, at or below x too, whose link is at
\* or below y.
Bounded(t, x, y) ==
  \A i \in 1 .. Len(t.work) : t.index[t.work[i].node] <= t.index[x] =>
    \E j \in 1 .. Len(t.work) : /\ i <= j /\ t.index[t.work[j].node] <= t.index[x]
                                /\ t.low[t.work[j].node] <= t.index[y]
\* A followed edge of a stacked node ends in a component or in the stack, and
\* the links tell of it.
Followed(adjacency, t) ==
  \A x \in Open(t) : \A k \in 1 .. Len(adjacency[x]) : Past(t, x, k) =>
    \/ Child(adjacency, x, k) \in FoundBy(t, Len(t.found))
    \/ Child(adjacency, x, k) \in Open(t) /\ Bounded(t, x, Child(adjacency, x, k))
\* A component's nodes lead to each other, and only to it and to earlier ones.
Components(adjacency, t) ==
  \A i \in 1 .. Len(t.found) :
    /\ t.found[i] # {}
    /\ \A n \in t.found[i] : \A k \in 1 .. Len(adjacency[n]) : Child(adjacency, n, k) \in FoundBy(t, i)
    /\ \A a, b \in t.found[i] : Leads(adjacency, a, b)
Traced(adjacency, t) ==
  /\ Numbers(t) /\ Frames(adjacency, t) /\ Links(adjacency, t) /\ Followed(adjacency, t)
  /\ Components(adjacency, t)

\* What is behind a state: nodes numbered (0), edges followed, nodes left.
Done(adjacency, t) ==
  {m \in (DOMAIN t.index) \X Nat : m[2] <= Len(adjacency[m[1]]) + 1 /\ Past(t, m[1], m[2])}
Farther(adjacency, a, c) ==
  Done(adjacency, a) \subseteq Done(adjacency, c) /\ Done(adjacency, a) # Done(adjacency, c)

Ready(N) == {t \in TarjanStates(N) : Apart(t) /\ Placed(t, Len(t.work))}

LEMMA ReadyState ==
  ASSUME NEW N \in SUBSET Nat, NEW t \in Ready(N)
  PROVE  /\ Len(t.work) \in Nat /\ Len(t.stack) \in Nat /\ Len(t.found) \in Nat /\ t.counter \in Nat
         /\ \A i \in 1 .. Len(t.work) :
              t.work[i].node \in Open(t) /\ t.work[i].node \in N /\ t.work[i].next \in Nat
         /\ Open(t) \subseteq DOMAIN t.index /\ DOMAIN t.index \in SUBSET N
         /\ DOMAIN t.low = DOMAIN t.index
         /\ \A n \in DOMAIN t.index : t.index[n] \in Nat /\ t.low[n] \in Nat
         /\ \A i \in 1 .. Len(t.found) : t.found[i] \in SUBSET N
         /\ \A n \in Open(t) : n \notin FoundBy(t, Len(t.found))
         /\ FoundBy(t, Len(t.found)) \subseteq DOMAIN t.index
         /\ Numbers(t) => \A i, j \in 1 .. Len(t.work) :
                            i < j => t.index[t.work[i].node] < t.index[t.work[j].node]
         /\ \A i, j \in 1 .. Len(t.work) : t.work[i].node = t.work[j].node => i = j
<1>1. /\ t \in TarjanStates(N) /\ Apart(t) /\ Placed(t, Len(t.work))
      /\ t.work \in Seq([node : N, next : Nat]) /\ t.index \in Tables(N) /\ t.low \in Tables(N)
      /\ t.counter \in Nat /\ t.stack \in Seq(N) /\ t.found \in Seq(SUBSET N)
  BY DEF Ready, TarjanStates
<1>2. /\ Len(t.work) \in Nat /\ Len(t.stack) \in Nat /\ Len(t.found) \in Nat
      /\ \A i \in 1 .. Len(t.work) : t.work[i] \in [node : N, next : Nat]
      /\ \A i \in 1 .. Len(t.found) : t.found[i] \in SUBSET N
  <2>1. \A S : \A s \in Seq(S) : Len(s) \in Nat /\ \A i \in 1 .. Len(s) : s[i] \in S
    OBVIOUS
  <2> QED
    BY <1>1, <2>1
<1>3. \A i \in 1 .. Len(t.work) :
         t.work[i].node \in Open(t) /\ t.work[i].node \in N /\ t.work[i].next \in Nat
  <2> TAKE i \in 1 .. Len(t.work)
  <2>1. \E p \in 1 .. Len(t.stack) : t.stack[p] = t.work[i].node
    BY <1>1 DEF Placed
  <2> QED
    BY <1>2, <2>1 DEF Open
<1>4. \A f \in Tables(N) : DOMAIN f \in SUBSET N /\ \A n \in DOMAIN f : f[n] \in Nat
  BY DEF Tables
<1>5. /\ DOMAIN t.low = DOMAIN t.index /\ DOMAIN t.index \in SUBSET N
      /\ \A n \in DOMAIN t.index : t.index[n] \in Nat /\ t.low[n] \in Nat
  BY <1>1, <1>4 DEF Apart
<1>6. /\ Open(t) \subseteq DOMAIN t.index
      /\ \A n \in Open(t) : n \notin FoundBy(t, Len(t.found))
      /\ FoundBy(t, Len(t.found)) \subseteq DOMAIN t.index
  BY <1>1 DEF Apart, Open, FoundBy
<1>7. ASSUME Numbers(t), NEW i \in 1 .. Len(t.work), NEW j \in 1 .. Len(t.work), i < j
      PROVE  t.index[t.work[i].node] < t.index[t.work[j].node]
  <2>1. PICK p \in 1 .. Len(t.stack) : t.stack[p] = t.work[i].node
    BY <1>1 DEF Placed
  <2>2. PICK r \in 1 .. Len(t.stack) : t.stack[r] = t.work[j].node
    BY <1>1 DEF Placed
  <2>3. p < r
    BY <1>1, <1>7, <2>1, <2>2 DEF Placed
  <2> QED
    BY <1>7, <2>1, <2>2, <2>3 DEF Numbers
<1>8. ASSUME NEW i \in 1 .. Len(t.work), NEW j \in 1 .. Len(t.work), t.work[i].node = t.work[j].node,
             i < j
      PROVE  FALSE
  <2>1. PICK p \in 1 .. Len(t.stack) : t.stack[p] = t.work[i].node
    BY <1>1 DEF Placed
  <2>2. p < p
    BY <1>1, <1>8, <2>1 DEF Placed
  <2> QED
    BY <2>2
<1> QED
  BY <1>1, <1>2, <1>3, <1>5, <1>6, <1>7, <1>8

\* A new node is numbered and stacked; the last frame moves on by one child.
Stacks(a, c, child) ==
  /\ child \notin DOMAIN a.index /\ DOMAIN c.index = DOMAIN a.index \cup {child}
  /\ \A n \in DOMAIN a.index : c.index[n] = a.index[n] /\ c.low[n] = a.low[n]
  /\ c.index[child] = a.counter /\ c.low[child] = a.counter /\ c.counter = a.counter + 1
  /\ c.stack = Append(a.stack, child) /\ c.found = a.found
Moves(a, c) ==
  /\ Len(a.work) <= Len(c.work)
  /\ \A i \in 1 .. Len(a.work) : /\ c.work[i].node = a.work[i].node
                                 /\ i # Len(a.work) => c.work[i].next = a.work[i].next
  /\ Len(a.work) # 0 => c.work[Len(a.work)].next = a.work[Len(a.work)].next + 1

LEMMA MovesPast ==
  ASSUME NEW N \in SUBSET Nat, NEW a \in Ready(N), NEW c \in Ready(N), Moves(a, c), NEW n, NEW k \in Nat,
         \A i \in 1 .. Len(c.work) : i \in 1 .. Len(a.work) \/ c.work[i].node # n
  PROVE  /\ Past(a, n, k) => Past(c, n, k)
         /\ Past(c, n, k) => \/ Past(a, n, k)
                             \/ /\ Len(a.work) # 0 /\ n = a.work[Len(a.work)].node
                                /\ k = a.work[Len(a.work)].next + 1
<1> DEFINE W == Len(a.work)
<1>1. /\ W \in Nat /\ \A i \in 1 .. W : a.work[i].next \in Nat
      /\ \A i, j \in 1 .. W : a.work[i].node = a.work[j].node => i = j
  BY ReadyState
<1>2. /\ W <= Len(c.work) /\ Len(c.work) \in Nat
      /\ \A i \in 1 .. W : /\ c.work[i].node = a.work[i].node
                           /\ i # W => c.work[i].next = a.work[i].next
      /\ W # 0 => c.work[W].next = a.work[W].next + 1
  BY ReadyState DEF Moves
<1>3. \A i \in 1 .. W : i \in 1 .. Len(c.work)
  BY <1>1, <1>2
<1>4. ASSUME Past(a, n, k) PROVE Past(c, n, k)
  <2> SUFFICES ASSUME NEW i \in 1 .. Len(c.work), c.work[i].node = n PROVE k <= c.work[i].next
    BY DEF Past
  <2>1. i \in 1 .. W /\ a.work[i].node = n
    BY <1>2
  <2>2. k <= a.work[i].next
    BY <1>4, <2>1 DEF Past
  <2> QED
    BY <1>1, <1>2, <2>1, <2>2
<1>5. ASSUME Past(c, n, k), ~Past(a, n, k)
      PROVE  W # 0 /\ n = a.work[W].node /\ k = a.work[W].next + 1
  <2>1. PICK i \in 1 .. W : a.work[i].node = n /\ ~(k <= a.work[i].next)
    BY <1>5 DEF Past
  <2>2. k <= c.work[i].next
    BY <1>2, <1>3, <1>5, <2>1 DEF Past
  <2>3. i = W /\ a.work[i].next \in Nat
    BY <1>1, <1>2, <2>1, <2>2
  <2> DEFINE f == a.work[W].next
  <2>4. k <= f + 1 /\ ~(k <= f) /\ f \in Nat /\ W # 0 /\ n = a.work[W].node
    BY <1>1, <1>2, <2>1, <2>2, <2>3
  <2> HIDE DEF f, W
  <2>5. k = f + 1
    BY <2>4
  <2> QED
    BY <2>4, <2>5 DEF f
<1> QED
  BY <1>4, <1>5

LEMMA PushTraces ==
  ASSUME NEW N \in SUBSET Nat, NEW adjacency, Arrows(adjacency), DOMAIN adjacency = N,
         NEW a \in Ready(N), NEW c \in Ready(N), Traced(adjacency, a), NEW child \in N,
         Stacks(a, c, child), Moves(a, c), Len(c.work) = Len(a.work) + 1,
         c.work[Len(a.work) + 1].node = child, c.work[Len(a.work) + 1].next = 0,
         Len(a.work) # 0 =>
           LET v == a.work[Len(a.work)].node
               k == a.work[Len(a.work)].next + 1
           IN  k <= Len(adjacency[v]) /\ Child(adjacency, v, k) = child
  PROVE  Traced(adjacency, c) /\ Farther(adjacency, a, c)
<1> DEFINE W == Len(a.work)
           v == a.work[W].node
           at == a.work[W].next + 1
<1>1. /\ W \in Nat /\ Len(a.stack) \in Nat /\ a.counter \in Nat
      /\ \A i \in 1 .. W : a.work[i].node \in Open(a) /\ a.work[i].node \in N /\ a.work[i].next \in Nat
      /\ Open(a) \subseteq DOMAIN a.index /\ DOMAIN a.index \in SUBSET N
      /\ \A n \in DOMAIN a.index : a.index[n] \in Nat /\ a.low[n] \in Nat
      /\ \A i, j \in 1 .. W : i < j => a.index[a.work[i].node] < a.index[a.work[j].node]
  BY ReadyState DEF Traced
<1>2. Numbers(a) /\ Frames(adjacency, a) /\ Links(adjacency, a) /\ Followed(adjacency, a)
  BY DEF Traced
<1>3. /\ child \notin DOMAIN a.index /\ DOMAIN c.index = DOMAIN a.index \cup {child}
      /\ \A n \in DOMAIN a.index : c.index[n] = a.index[n] /\ c.low[n] = a.low[n]
      /\ c.index[child] = a.counter /\ c.low[child] = a.counter /\ c.counter = a.counter + 1
      /\ c.stack = Append(a.stack, child) /\ c.found = a.found
  BY DEF Stacks
<1>4. /\ \A i \in 1 .. W : /\ c.work[i].node = a.work[i].node
                           /\ i # W => c.work[i].next = a.work[i].next
      /\ W # 0 => c.work[W].next = at
  BY DEF Moves
<1>5. /\ \A n \in DOMAIN adjacency : Len(adjacency[n]) \in Nat
      /\ W # 0 => at <= Len(adjacency[v]) /\ Child(adjacency, v, at) = child
  BY DEF Arrows
<1>6. /\ Len(c.stack) = Len(a.stack) + 1 /\ c.stack[Len(a.stack) + 1] = child
      /\ \A p \in 1 .. Len(a.stack) : c.stack[p] = a.stack[p]
  <2>1. a.stack \in Seq(N)
    BY DEF Ready, TarjanStates
  <2> QED
    BY <1>3, <2>1
<1>7. Open(c) = Open(a) \cup {child}
  <2>1. \A p \in 1 .. Len(a.stack) : p \in 1 .. Len(a.stack) + 1
    BY <1>1
  <2>2. \A p \in 1 .. Len(a.stack) + 1 : p \in 1 .. Len(a.stack) \/ p = Len(a.stack) + 1
    BY <1>1
  <2>3. Len(a.stack) + 1 \in 1 .. Len(a.stack) + 1
    BY <1>1
  <2> QED
    BY <1>6, <2>1, <2>2, <2>3 DEF Open
<1>8. /\ \A n \in Open(a) : /\ c.index[n] = a.index[n] /\ a.index[n] \in Nat /\ n # child
                            /\ a.index[n] < a.counter
      /\ Len(c.work) = W + 1 /\ c.work[W + 1].node = child /\ c.work[W + 1].next = 0
      /\ \A i \in 1 .. W + 1 : i \in 1 .. W \/ i = W + 1
      /\ W # 0 => W \in 1 .. W
  BY <1>1, <1>2, <1>3 DEF Numbers
<1> HIDE DEF W, v, at
<1>9. Numbers(c)
  <2>1. \A p, r \in 1 .. Len(c.stack) : p < r => c.index[c.stack[p]] < c.index[c.stack[r]]
    <3> TAKE p, r \in 1 .. Len(c.stack)
    <3> HAVE p < r
    <3>1. p \in 1 .. Len(a.stack) /\ a.stack[p] \in Open(a)
      BY <1>1, <1>6 DEF Open
    <3>2. CASE r = Len(a.stack) + 1
      BY <1>3, <1>6, <1>8, <3>1, <3>2
    <3>3. CASE r # Len(a.stack) + 1
      <4>1. r \in 1 .. Len(a.stack) /\ a.stack[r] \in Open(a)
        BY <1>1, <1>6, <3>3 DEF Open
      <4>2. a.index[a.stack[p]] < a.index[a.stack[r]]
        BY <1>2, <3>1, <4>1 DEF Numbers
      <4> QED
        BY <1>6, <1>8, <3>1, <4>1, <4>2
    <3> QED
      BY <3>2, <3>3
  <2>2. \A n \in DOMAIN c.index : c.index[n] < c.counter
    BY <1>1, <1>2, <1>3 DEF Numbers
  <2>3. \A n \in DOMAIN c.index : n \in Open(c) \/ n \in FoundBy(c, Len(c.found))
    BY <1>2, <1>3, <1>7 DEF Numbers, FoundBy
  <2> QED
    BY <2>1, <2>2, <2>3 DEF Numbers
<1>10. Frames(adjacency, c)
  <2>1. ASSUME NEW i \in 1 .. W + 1 PROVE c.work[i].next <= Len(adjacency[c.work[i].node])
    <3>1. CASE i = W + 1
      BY <1>5, <1>8, <3>1
    <3>2. CASE i # W + 1 /\ i # W
      BY <1>2, <1>4, <1>8, <3>2 DEF Frames, W
    <3>3. CASE i = W /\ W # 0
      BY <1>4, <1>5, <1>8, <3>3 DEF v
    <3> QED
      BY <1>8, <3>1, <3>2, <3>3
  <2>2. ASSUME NEW i \in 1 .. W + 1, NEW x \in Open(c), c.index[c.work[i].node] <= c.index[x]
        PROVE  Leads(adjacency, c.work[i].node, x)
    <3>1. CASE i = W + 1
      <4>1. x = child
        BY <1>1, <1>3, <1>7, <1>8, <2>2, <3>1
      <4> QED
        BY <1>8, <3>1, <4>1, LeadsOn
    <3>2. CASE i \in 1 .. W /\ x = child
      <4>1. i <= W /\ W \in 1 .. W /\ W # 0
        BY <1>1, <3>2
      <4>2. a.index[a.work[i].node] <= a.index[v] /\ v \in Open(a)
        <5>1. v \in Open(a) /\ a.index[v] \in Nat
          BY <1>1, <4>1 DEF v
        <5>2. i <= W => a.index[a.work[i].node] <= a.index[a.work[W].node]
          BY <1>1, <3>2, <4>1
        <5> QED
          BY <4>1, <5>1, <5>2 DEF v
      <4>3. Leads(adjacency, a.work[i].node, v)
        BY <1>2, <3>2, <4>2 DEF Frames, W
      <4>4. at \in 1 .. Len(adjacency[v])
        <5>1. v \in DOMAIN adjacency /\ at \in Nat \ {0}
          BY <1>1, <4>1 DEF at, v
        <5> QED
          BY <1>5, <4>1, <5>1
      <4>5. Leads(adjacency, v, child)
        BY <1>5, <4>1, <4>4, LeadsOn
      <4>6. c.work[i].node = a.work[i].node
        BY <1>4, <3>2, <4>1 DEF v
      <4> QED
        BY <3>2, <4>3, <4>5, <4>6, LeadsOn
    <3>3. CASE i \in 1 .. W /\ x # child
      BY <1>1, <1>2, <1>4, <1>7, <1>8, <2>2, <3>3 DEF Frames, W
    <3> QED
      BY <1>8, <3>1, <3>2, <3>3
  <2>3. ASSUME NEW x \in Open(c)
        PROVE  \E i \in 1 .. W + 1 : /\ c.index[c.work[i].node] <= c.index[x]
                                     /\ Leads(adjacency, x, c.work[i].node)
    <3>1. CASE x = child
      <4>1. W + 1 \in 1 .. W + 1 /\ Leads(adjacency, x, x) /\ c.index[x] <= c.index[x]
        BY <1>1, <1>3, <3>1, LeadsOn
      <4> QED
        BY <1>8, <3>1, <4>1
    <3>2. CASE x # child
      <4>1. PICK i \in 1 .. W : /\ a.index[a.work[i].node] <= a.index[x]
                                /\ Leads(adjacency, x, a.work[i].node)
        BY <1>2, <1>7, <3>2 DEF Frames, W
      <4>2. i \in 1 .. W + 1
        BY <1>1
      <4> QED
        BY <1>1, <1>4, <1>7, <1>8, <3>2, <4>1, <4>2
    <3> QED
      BY <3>1, <3>2
  <2> QED
    BY <1>8, <2>1, <2>2, <2>3 DEF Frames
<1>11. Links(adjacency, c)
  <2> SUFFICES ASSUME NEW i \in 1 .. W + 1
               PROVE  /\ c.low[c.work[i].node] <= c.index[c.work[i].node]
                      /\ \E y \in Open(c) : /\ c.index[y] = c.low[c.work[i].node]
                                            /\ Leads(adjacency, c.work[i].node, y)
    BY <1>8 DEF Links
  <2>1. CASE i = W + 1
    <3>1. child \in Open(c) /\ Leads(adjacency, child, child)
      BY <1>7, LeadsOn
    <3> QED
      BY <1>1, <1>3, <1>8, <2>1, <3>1
  <2>2. CASE i \in 1 .. W
    <3>1. a.low[a.work[i].node] <= a.index[a.work[i].node]
      BY <1>2, <2>2 DEF Links, W
    <3>2. PICK y \in Open(a) : /\ a.index[y] = a.low[a.work[i].node]
                               /\ Leads(adjacency, a.work[i].node, y)
      BY <1>2, <2>2 DEF Links, W
    <3> QED
      BY <1>1, <1>3, <1>4, <1>7, <2>2, <3>1, <3>2
  <2> QED
    BY <1>8, <2>1, <2>2
<1>12. \A n \in DOMAIN a.index : \A k \in Nat :
          /\ Past(a, n, k) => Past(c, n, k)
          /\ Past(c, n, k) => Past(a, n, k) \/ (W # 0 /\ n = v /\ k = at)
  <2> TAKE n \in DOMAIN a.index
  <2>1. \A i \in 1 .. Len(c.work) : i \in 1 .. Len(a.work) \/ c.work[i].node # n
    BY <1>3, <1>8 DEF W
  <2> QED
    BY <2>1, MovesPast DEF W, v, at
<1>13. Followed(adjacency, c)
  <2> SUFFICES ASSUME NEW x \in Open(c), NEW k \in 1 .. Len(adjacency[x]), Past(c, x, k)
               PROVE  \/ Child(adjacency, x, k) \in FoundBy(c, Len(c.found))
                      \/ Child(adjacency, x, k) \in Open(c) /\ Bounded(c, x, Child(adjacency, x, k))
    BY DEF Followed
  <2>1. x # child
    <3> SUFFICES ASSUME x = child PROVE FALSE
      OBVIOUS
    <3>1. W + 1 \in 1 .. Len(c.work)
      BY <1>1, <1>8
    <3>2. k <= 0
      BY <1>8, <3>1 DEF Past
    <3> QED
      BY <1>5, <3>2
  <2>2. x \in Open(a) /\ x \in DOMAIN a.index /\ x \in N /\ k \in Nat
    BY <1>1, <1>5, <1>7, <2>1
  <2>3. ASSUME NEW i \in 1 .. W + 1, c.index[c.work[i].node] <= c.index[x]
        PROVE  i \in 1 .. W /\ a.index[a.work[i].node] <= a.index[x]
    <3>1. c.index[x] = a.index[x] /\ a.index[x] < a.counter /\ a.index[x] \in Nat
      BY <1>8, <2>2
    <3>2. i # W + 1
      BY <1>1, <1>3, <1>8, <2>3, <3>1
    <3>3. i \in 1 .. W
      BY <1>8, <3>2
    <3>4. c.work[i].node = a.work[i].node /\ a.work[i].node \in Open(a)
      BY <1>1, <1>4, <3>3
    <3> QED
      BY <1>8, <2>3, <3>1, <3>3, <3>4
  <2>4. CASE Past(a, x, k)
    <3> DEFINE y == Child(adjacency, x, k)
    <3>1. CASE y \in FoundBy(a, Len(a.found))
      BY <1>3, <3>1 DEF FoundBy
    <3>2. CASE y \in Open(a) /\ Bounded(a, x, y)
      <4> HIDE DEF y
      <4>1. ASSUME NEW i \in 1 .. W + 1, c.index[c.work[i].node] <= c.index[x]
            PROVE  \E j \in 1 .. W + 1 : /\ i <= j /\ c.index[c.work[j].node] <= c.index[x]
                                         /\ c.low[c.work[j].node] <= c.index[y]
        <5>1. i \in 1 .. W /\ a.index[a.work[i].node] <= a.index[x]
          BY <2>3, <4>1
        <5>2. PICK j \in 1 .. W : /\ i <= j /\ a.index[a.work[j].node] <= a.index[x]
                                  /\ a.low[a.work[j].node] <= a.index[y]
          BY <3>2, <5>1 DEF Bounded, W
        <5>3. j \in 1 .. W + 1 /\ a.work[j].node \in Open(a) /\ a.work[j].node \in DOMAIN a.index
          BY <1>1
        <5>4. /\ c.index[c.work[j].node] = a.index[a.work[j].node]
              /\ c.low[c.work[j].node] = a.low[a.work[j].node]
              /\ c.index[x] = a.index[x] /\ c.index[y] = a.index[y]
          BY <1>1, <1>3, <1>4, <2>2, <3>2, <5>3
        <5> QED
          BY <5>2, <5>3, <5>4
      <4> QED
        BY <1>7, <1>8, <3>2, <4>1 DEF Bounded, y
    <3> QED
      BY <1>2, <2>2, <2>4, <3>1, <3>2 DEF Followed
  <2>5. CASE W # 0 /\ x = v /\ k = at
    <3>1. Child(adjacency, x, k) = child /\ child \in Open(c)
      BY <1>5, <1>7, <2>5
    <3>2. ASSUME NEW i \in 1 .. W + 1, c.index[c.work[i].node] <= c.index[x]
          PROVE  \E j \in 1 .. W + 1 : /\ i <= j /\ c.index[c.work[j].node] <= c.index[x]
                                       /\ c.low[c.work[j].node] <= c.index[child]
      <4>1. i \in 1 .. W
        BY <2>3, <3>2
      <4>2. i <= W /\ W \in 1 .. W + 1 /\ W \in 1 .. W
        BY <1>1, <2>5, <4>1
      <4>3. a.low[v] <= a.index[v]
        BY <1>2, <4>2 DEF Links, v, W
      <4>4. c.work[W].node = v /\ c.low[v] = a.low[v] /\ c.index[v] = a.index[v]
        BY <1>3, <1>4, <2>2, <2>5, <4>2 DEF v
      <4>5. a.index[v] < a.counter /\ a.index[v] \in Nat /\ a.low[v] \in Nat
        BY <1>1, <1>8, <2>2, <2>5
      <4>6. c.low[v] <= c.index[child] /\ c.index[v] <= c.index[v]
        BY <1>1, <1>3, <4>3, <4>4, <4>5
      <4> QED
        BY <2>5, <4>2, <4>4, <4>6
    <3> QED
      BY <1>8, <3>1, <3>2 DEF Bounded
  <2> QED
    BY <1>12, <2>2, <2>4, <2>5
<1>14. Components(adjacency, c)
  BY <1>3 DEF Traced, Components, FoundBy
<1>15. Farther(adjacency, a, c)
  <2>1. Done(adjacency, a) \subseteq Done(adjacency, c)
    BY <1>3, <1>12 DEF Done
  <2> DEFINE m == <<child, 0>>
  <2>2. m[1] = child /\ m[2] = 0 /\ m \in (DOMAIN c.index) \X Nat
    BY <1>3
  <2>3. Past(c, child, 0)
    <3> SUFFICES ASSUME NEW i \in 1 .. W + 1, c.work[i].node = child PROVE 0 <= c.work[i].next
      BY <1>8 DEF Past
    <3>1. \A j \in 1 .. W : c.work[j].node \in Open(a)
      BY <1>1, <1>4
    <3>2. i = W + 1
      BY <1>8, <3>1
    <3> QED
      BY <1>8, <3>2
  <2>4. 0 <= Len(adjacency[child]) + 1
    BY <1>5
  <2> HIDE DEF m
  <2>5. m \in Done(adjacency, c)
    BY <2>2, <2>3, <2>4 DEF Done
  <2>6. m \notin Done(adjacency, a)
    BY <1>3, <2>2 DEF Done
  <2> QED
    BY <2>1, <2>5, <2>6 DEF Farther
<1> QED
  BY <1>9, <1>10, <1>11, <1>13, <1>14, <1>15 DEF Traced

\* A numbered child is looked at: one that is stacked lowers the link.
Relinks(a, c, v, child) ==
  /\ c.index = a.index /\ c.counter = a.counter /\ c.stack = a.stack /\ c.found = a.found
  /\ \A n \in DOMAIN a.index : n # v => c.low[n] = a.low[n]
  /\ c.low[v] <= a.low[v]
  /\ \/ c.low[v] = a.low[v]
     \/ child \in Open(a) /\ c.low[v] = a.index[child]
  /\ child \in Open(a) => c.low[v] <= a.index[child]

LEMMA FollowTraces ==
  ASSUME NEW N \in SUBSET Nat, NEW adjacency, Arrows(adjacency), DOMAIN adjacency = N,
         NEW a \in Ready(N), NEW c \in Ready(N), Traced(adjacency, a), NEW v, NEW at, NEW child,
         Moves(a, c), Len(c.work) = Len(a.work), Len(a.work) # 0,
         v = a.work[Len(a.work)].node, at = a.work[Len(a.work)].next + 1,
         at <= Len(adjacency[v]), child = Child(adjacency, v, at), child \in DOMAIN a.index,
         Relinks(a, c, v, child)
  PROVE  Traced(adjacency, c) /\ Farther(adjacency, a, c)
<1> DEFINE W == Len(a.work)
<1>1. /\ W \in Nat /\ W \in 1 .. W /\ at \in Nat \ {0} /\ v \in Open(a) /\ v \in N
      /\ \A i \in 1 .. W : a.work[i].node \in Open(a) /\ a.work[i].node \in N /\ a.work[i].next \in Nat
      /\ Open(a) \subseteq DOMAIN a.index /\ DOMAIN a.index \in SUBSET N
      /\ \A n \in DOMAIN a.index : a.index[n] \in Nat /\ a.low[n] \in Nat
      /\ \A i, j \in 1 .. W : i < j => a.index[a.work[i].node] < a.index[a.work[j].node]
      /\ \A i, j \in 1 .. W : a.work[i].node = a.work[j].node => i = j
  <2>1. W \in Nat /\ W \in 1 .. W
    BY ReadyState
  <2> QED
    BY <2>1, ReadyState DEF Traced
<1>2. Numbers(a) /\ Frames(adjacency, a) /\ Links(adjacency, a) /\ Followed(adjacency, a)
  BY DEF Traced
<1>3. /\ c.index = a.index /\ c.counter = a.counter /\ c.stack = a.stack /\ c.found = a.found
      /\ \A n \in DOMAIN a.index : n # v => c.low[n] = a.low[n]
      /\ c.low[v] <= a.low[v]
      /\ \/ c.low[v] = a.low[v]
         \/ child \in Open(a) /\ c.low[v] = a.index[child]
      /\ child \in Open(a) => c.low[v] <= a.index[child]
  BY DEF Relinks
<1>4. /\ Len(c.work) = W
      /\ \A i \in 1 .. W : /\ c.work[i].node = a.work[i].node
                           /\ i # W => c.work[i].next = a.work[i].next
      /\ c.work[W].next = at /\ a.work[W].node = v /\ a.work[W].next < at
  <2>1. c.work[W].next = at
    BY DEF Moves
  <2> QED
    BY <1>1, <2>1 DEF Moves
<1>5. \A n \in DOMAIN adjacency : Len(adjacency[n]) \in Nat
  BY DEF Arrows
<1>6. Open(c) = Open(a) /\ FoundBy(c, Len(c.found)) = FoundBy(a, Len(a.found))
  BY <1>3 DEF Open, FoundBy
<1>7. \A n \in DOMAIN a.index : c.low[n] <= a.low[n] /\ c.low[n] \in Nat
  <2> TAKE n \in DOMAIN a.index
  <2>1. c.low[n] \in Nat
    BY <1>1, <1>3, ReadyState
  <2> QED
    BY <1>1, <1>3, <2>1
<1> HIDE DEF W
<1>8. Numbers(c)
  BY <1>2, <1>3, <1>6 DEF Numbers
<1>9. at \in 1 .. Len(adjacency[v]) /\ Leads(adjacency, v, child)
  <2>1. at \in 1 .. Len(adjacency[v])
    BY <1>1, <1>5
  <2> QED
    BY <2>1, LeadsOn
<1>10. Frames(adjacency, c)
  <2>1. ASSUME NEW i \in 1 .. W PROVE c.work[i].next <= Len(adjacency[c.work[i].node])
    BY <1>2, <1>4, <2>1 DEF Frames, W
  <2>2. /\ \A i \in 1 .. W : \A x \in Open(a) :
             a.index[a.work[i].node] <= a.index[x] => Leads(adjacency, a.work[i].node, x)
        /\ \A x \in Open(a) : \E i \in 1 .. W :
             a.index[a.work[i].node] <= a.index[x] /\ Leads(adjacency, x, a.work[i].node)
    BY <1>2 DEF Frames, W
  <2>3. /\ \A i \in 1 .. W : \A x \in Open(c) :
             c.index[c.work[i].node] <= c.index[x] => Leads(adjacency, c.work[i].node, x)
        /\ \A x \in Open(c) : \E i \in 1 .. W :
             c.index[c.work[i].node] <= c.index[x] /\ Leads(adjacency, x, c.work[i].node)
    BY <1>3, <1>4, <1>6, <2>2
  <2> QED
    BY <1>4, <2>1, <2>3 DEF Frames
<1>11. Links(adjacency, c)
  <2> SUFFICES ASSUME NEW i \in 1 .. W
               PROVE  /\ c.low[c.work[i].node] <= c.index[c.work[i].node]
                      /\ \E y \in Open(c) : /\ c.index[y] = c.low[c.work[i].node]
                                            /\ Leads(adjacency, c.work[i].node, y)
    BY <1>4 DEF Links
  <2>1. a.low[a.work[i].node] <= a.index[a.work[i].node]
    BY <1>2 DEF Links, W
  <2>2. PICK y \in Open(a) : /\ a.index[y] = a.low[a.work[i].node]
                             /\ Leads(adjacency, a.work[i].node, y)
    BY <1>2 DEF Links, W
  <2>3. c.work[i].node = a.work[i].node /\ a.work[i].node \in DOMAIN a.index
    BY <1>1, <1>4
  <2>4. c.low[c.work[i].node] <= c.index[c.work[i].node]
    <3> DEFINE n == a.work[i].node
    <3>1. c.work[i].node = n /\ n \in DOMAIN a.index
      BY <2>3
    <3>2. a.low[n] \in Nat /\ a.index[n] \in Nat /\ c.index[n] = a.index[n]
      BY <1>1, <1>3, <3>1
    <3>3. c.low[n] \in Nat /\ c.low[n] <= a.low[n] /\ a.low[n] <= a.index[n]
      BY <1>7, <2>1, <3>1
    <3> HIDE DEF n
    <3>4. c.low[n] <= c.index[n]
      BY <3>2, <3>3
    <3> QED
      BY <3>1, <3>4
  <2>5. CASE c.low[c.work[i].node] = a.low[a.work[i].node]
    BY <1>3, <1>6, <2>2, <2>3, <2>4, <2>5
  <2>6. CASE c.low[c.work[i].node] # a.low[a.work[i].node]
    <3>1. c.work[i].node = v /\ child \in Open(a) /\ c.low[v] = a.index[child]
      BY <1>3, <2>3, <2>6
    <3> QED
      BY <1>3, <1>6, <1>9, <2>4, <3>1
  <2> QED
    BY <2>5, <2>6
<1>12. \A n \in DOMAIN a.index : \A k \in Nat :
          /\ Past(a, n, k) => Past(c, n, k)
          /\ Past(c, n, k) => Past(a, n, k) \/ (n = v /\ k = at)
  BY <1>4, MovesPast DEF W
<1>13. Followed(adjacency, c)
  <2> SUFFICES ASSUME NEW x \in Open(c), NEW k \in 1 .. Len(adjacency[x]), Past(c, x, k)
               PROVE  \/ Child(adjacency, x, k) \in FoundBy(c, Len(c.found))
                      \/ Child(adjacency, x, k) \in Open(c) /\ Bounded(c, x, Child(adjacency, x, k))
    BY DEF Followed
  <2>1. x \in Open(a) /\ x \in DOMAIN a.index /\ x \in N /\ k \in Nat
    BY <1>1, <1>5, <1>6
  <2>2. CASE Past(a, x, k)
    <3> DEFINE y == Child(adjacency, x, k)
    <3>1. CASE y \in FoundBy(a, Len(a.found))
      BY <1>6, <3>1
    <3>2. CASE y \in Open(a) /\ Bounded(a, x, y)
      <4> HIDE DEF y
      <4>1. ASSUME NEW i \in 1 .. W, c.index[c.work[i].node] <= c.index[x]
            PROVE  \E j \in 1 .. W : /\ i <= j /\ c.index[c.work[j].node] <= c.index[x]
                                     /\ c.low[c.work[j].node] <= c.index[y]
        <5>1. a.index[a.work[i].node] <= a.index[x]
          BY <1>3, <1>4, <4>1
        <5>2. PICK j \in 1 .. W : /\ i <= j /\ a.index[a.work[j].node] <= a.index[x]
                                  /\ a.low[a.work[j].node] <= a.index[y]
          BY <3>2, <5>1 DEF Bounded, W
        <5>3. /\ a.work[j].node \in DOMAIN a.index /\ c.work[j].node = a.work[j].node
              /\ y \in DOMAIN a.index
          BY <1>1, <1>4, <3>2
        <5>4. c.low[c.work[j].node] <= c.index[y]
          <6>1. /\ c.low[a.work[j].node] <= a.low[a.work[j].node] /\ c.low[a.work[j].node] \in Nat
                /\ a.low[a.work[j].node] \in Nat /\ c.index[y] \in Nat
                /\ a.low[a.work[j].node] <= c.index[y]
            BY <1>1, <1>3, <1>7, <5>2, <5>3
          <6> QED
            BY <5>3, <6>1
        <5> QED
          BY <1>3, <5>2, <5>3, <5>4
      <4> QED
        BY <1>4, <1>6, <3>2, <4>1 DEF Bounded, y
    <3> QED
      BY <1>2, <2>1, <2>2, <3>1, <3>2 DEF Followed
  <2>3. CASE x = v /\ k = at
    <3>1. CASE child \in FoundBy(a, Len(a.found))
      BY <1>6, <2>3, <3>1
    <3>2. CASE child \in Open(a)
      <4>1. ASSUME NEW i \in 1 .. W
            PROVE  \E j \in 1 .. W : /\ i <= j /\ c.index[c.work[j].node] <= c.index[x]
                                     /\ c.low[c.work[j].node] <= c.index[child]
        <5>1. i <= W /\ c.work[W].node = v
          <6>1. \A i2 \in 1 .. W : i2 <= W
            BY <1>1
          <6> QED
            BY <1>1, <1>4, <6>1
        <5>2. c.index[v] \in Nat /\ c.index[v] <= c.index[v]
          BY <1>1, <1>3
        <5> QED
          BY <1>1, <1>3, <2>3, <3>2, <5>1, <5>2
      <4> QED
        BY <1>4, <1>6, <2>3, <3>2, <4>1 DEF Bounded
    <3> QED
      BY <1>2, <3>1, <3>2 DEF Numbers
  <2> QED
    BY <1>12, <2>1, <2>2, <2>3
<1>14. Components(adjacency, c)
  BY <1>3 DEF Traced, Components, FoundBy
<1>15. Farther(adjacency, a, c)
  <2>1. Done(adjacency, a) \subseteq Done(adjacency, c)
    BY <1>3, <1>12 DEF Done
  <2> DEFINE m == <<v, at>>
  <2>2. m[1] = v /\ m[2] = at /\ m \in (DOMAIN c.index) \X Nat
    BY <1>1, <1>3
  <2>3. Past(c, v, at)
    <3> SUFFICES ASSUME NEW i \in 1 .. W, c.work[i].node = v PROVE at <= c.work[i].next
      BY <1>4 DEF Past
    <3>1. i = W
      BY <1>1, <1>4
    <3> QED
      BY <1>1, <1>4, <3>1
  <2>4. at <= Len(adjacency[v]) + 1
    BY <1>1, <1>5
  <2>5. ~Past(a, v, at)
    <3>1. W \in 1 .. Len(a.work)
      BY <1>1 DEF W
    <3>2. a.work[W].node = v /\ ~(at <= a.work[W].next)
      BY <1>1, <1>4
    <3> QED
      BY <3>1, <3>2 DEF Past
  <2> HIDE DEF m
  <2>6. m \in Done(adjacency, c)
    BY <2>2, <2>3, <2>4 DEF Done
  <2>7. m \notin Done(adjacency, a)
    BY <2>2, <2>5 DEF Done
  <2> QED
    BY <2>1, <2>6, <2>7 DEF Farther
<1> QED
  BY <1>8, <1>10, <1>11, <1>13, <1>14, <1>15 DEF Traced

\* The last frame is left, its node's children all looked at: a root closes
\* what is stacked above it, and the frame below takes over the link.
Pops(a, c, v) ==
  /\ Len(c.work) = Len(a.work) - 1 /\ \A i \in 1 .. Len(a.work) - 1 : c.work[i] = a.work[i]
  /\ c.index = a.index /\ c.counter = a.counter
  /\ Len(c.stack) <= Len(a.stack) /\ \A p \in 1 .. Len(c.stack) : c.stack[p] = a.stack[p]
  /\ a.low[v] = a.index[v] =>
       /\ Open(c) = {x \in Open(a) : a.index[x] < a.index[v]}
       /\ c.found = Append(a.found, {x \in Open(a) : a.index[v] <= a.index[x]})
  /\ a.low[v] # a.index[v] => c.stack = a.stack /\ c.found = a.found
  /\ \A n \in DOMAIN a.index :
       (Len(a.work) > 1 => n # a.work[Len(a.work) - 1].node) => c.low[n] = a.low[n]
  /\ Len(a.work) > 1 =>
       LET u == a.work[Len(a.work) - 1].node
       IN  /\ c.low[u] <= a.low[u] /\ c.low[u] <= a.low[v]
           /\ c.low[u] \in {a.low[u], a.low[v]}

LEMMA PopTraces ==
  ASSUME NEW N \in SUBSET Nat, NEW adjacency, Arrows(adjacency), DOMAIN adjacency = N,
         NEW a \in Ready(N), NEW c \in Ready(N), Traced(adjacency, a), NEW v,
         Len(a.work) # 0, v = a.work[Len(a.work)].node,
         ~(a.work[Len(a.work)].next < Len(adjacency[v])), Pops(a, c, v)
  PROVE  Traced(adjacency, c) /\ Farther(adjacency, a, c)
<1> DEFINE W == Len(a.work)
           w(i) == a.work[i].node
           u == a.work[W - 1].node
           F == Len(a.found)
           C == {x \in Open(a) : a.index[v] <= a.index[x]}
<1>1. /\ W \in Nat /\ W \in 1 .. W /\ v = w(W) /\ v \in Open(a) /\ v \in N
      /\ \A i \in 1 .. W : w(i) \in Open(a) /\ w(i) \in N /\ a.work[i].next \in Nat
      /\ Open(a) \subseteq DOMAIN a.index /\ DOMAIN a.index \in SUBSET N
      /\ \A n \in DOMAIN a.index : a.index[n] \in Nat /\ a.low[n] \in Nat /\ c.low[n] \in Nat
      /\ \A i, j \in 1 .. W : i < j => a.index[w(i)] < a.index[w(j)]
      /\ \A i, j \in 1 .. W : w(i) = w(j) => i = j
      /\ F \in Nat
      /\ \A i \in 1 .. W - 1 : i \in 1 .. W /\ i < W
      /\ \A i \in 1 .. W : i \in 1 .. W - 1 \/ i = W
  <2>1. W \in Nat /\ W \in 1 .. W /\ F \in Nat
    BY ReadyState
  <2>2. c.index = a.index
    BY DEF Pops
  <2>3. \A n \in DOMAIN a.index : a.index[n] \in Nat /\ a.low[n] \in Nat /\ c.low[n] \in Nat
    BY <2>2, ReadyState
  <2>4. /\ \A i \in 1 .. W - 1 : i \in 1 .. W /\ i < W
        /\ \A i \in 1 .. W : i \in 1 .. W - 1 \/ i = W
    BY <2>1
  <2> QED
    BY <2>1, <2>3, <2>4, ReadyState DEF Traced
<1>2. /\ Numbers(a) /\ Frames(adjacency, a) /\ Links(adjacency, a) /\ Followed(adjacency, a)
      /\ Components(adjacency, a)
  BY DEF Traced
<1>3. /\ Len(c.work) = W - 1 /\ \A i \in 1 .. W - 1 : c.work[i] = a.work[i]
      /\ c.index = a.index /\ c.counter = a.counter
      /\ Len(c.stack) <= Len(a.stack) /\ \A p \in 1 .. Len(c.stack) : c.stack[p] = a.stack[p]
      /\ a.low[v] = a.index[v] =>
           /\ Open(c) = {x \in Open(a) : a.index[x] < a.index[v]}
           /\ c.found = Append(a.found, C)
      /\ a.low[v] # a.index[v] => c.stack = a.stack /\ c.found = a.found
      /\ \A n \in DOMAIN a.index : (W > 1 => n # u) => c.low[n] = a.low[n]
      /\ W > 1 => c.low[u] <= a.low[u] /\ c.low[u] <= a.low[v] /\ c.low[u] \in {a.low[u], a.low[v]}
  BY DEF Pops
<1>4. /\ \A i \in 1 .. W : a.work[i].next <= Len(adjacency[w(i)])
      /\ \A i \in 1 .. W : \A x \in Open(a) :
           a.index[w(i)] <= a.index[x] => Leads(adjacency, w(i), x)
      /\ \A x \in Open(a) : \E i \in 1 .. W :
           a.index[w(i)] <= a.index[x] /\ Leads(adjacency, x, w(i))
      /\ \A i \in 1 .. W : /\ a.low[w(i)] <= a.index[w(i)]
                           /\ \E y \in Open(a) : a.index[y] = a.low[w(i)] /\ Leads(adjacency, w(i), y)
  BY <1>2 DEF Frames, Links
<1>5. \A n \in DOMAIN adjacency : Len(adjacency[n]) \in Nat
  BY DEF Arrows
<1>6. W > 1 => W - 1 \in 1 .. W - 1 /\ W - 1 \in 1 .. W /\ u = w(W - 1)
  BY <1>1
<1>7. a.work[W].next = Len(adjacency[v])
  <2> DEFINE k == a.work[W].next
             l == Len(adjacency[v])
  <2>1. k \in Nat /\ l \in Nat /\ k <= l /\ ~(k < l)
    BY <1>1, <1>4, <1>5
  <2> HIDE DEF k, l
  <2>2. k = l
    BY <2>1
  <2> QED
    BY <2>2 DEF k, l
<1>8. /\ \A i \in 1 .. W - 1 : c.work[i].node = w(i) /\ c.work[i].next = a.work[i].next
      /\ \A n \in DOMAIN a.index : c.low[n] <= a.low[n]
  <2>1. \A n \in DOMAIN a.index : c.low[n] = a.low[n] \/ (W > 1 /\ n = u)
    BY <1>3
  <2>2. \A n \in DOMAIN a.index : c.low[n] <= a.low[n]
    <3> TAKE n \in DOMAIN a.index
    <3>1. CASE c.low[n] = a.low[n]
      <4>1. a.low[n] \in Nat
        BY <1>1
      <4> QED
        BY <3>1, <4>1
    <3>2. CASE W > 1 /\ n = u
      BY <1>3, <3>2
    <3> QED
      BY <2>1, <3>1, <3>2
  <2> QED
    BY <1>3, <2>2
<1>9. \A n : \A k \in Nat : /\ Past(a, n, k) => Past(c, n, k)
                            /\ n # v => (Past(c, n, k) => Past(a, n, k))
  <2> TAKE n
  <2> TAKE k \in Nat
  <2>1. Past(a, n, k) <=> \A i \in 1 .. W : w(i) = n => k <= a.work[i].next
    BY DEF Past
  <2>2. Past(c, n, k) <=> \A i \in 1 .. W - 1 : w(i) = n => k <= a.work[i].next
    BY <1>3, <1>8 DEF Past
  <2> QED
    BY <1>1, <2>1, <2>2
<1> HIDE DEF W, u, F
<1>10. \A x \in Open(a) : \A k \in 1 .. Len(adjacency[x]) :
          x = v \/ a.index[v] <= a.index[x] => Past(a, x, k)
  <2> SUFFICES ASSUME NEW x \in Open(a), NEW k \in 1 .. Len(adjacency[x]),
                      x = v \/ a.index[v] <= a.index[x],
                      NEW i \in 1 .. W, w(i) = x
               PROVE  k <= a.work[i].next
    BY DEF Past, W
  <2>1. i = W
    <3> SUFFICES ASSUME i # W PROVE FALSE
      OBVIOUS
    <3>1. i < W
      BY <1>1
    <3>2. a.index[x] < a.index[v] /\ x \in DOMAIN a.index /\ v \in DOMAIN a.index
      BY <1>1, <3>1
    <3> QED
      BY <1>1, <3>2
  <2>2. x = v /\ Len(adjacency[v]) \in Nat
    BY <1>1, <1>5, <2>1
  <2> QED
    BY <1>7, <2>1, <2>2
<1>11. Farther(adjacency, a, c)
  <2>1. Done(adjacency, a) \subseteq Done(adjacency, c)
    BY <1>3, <1>9 DEF Done
  <2> DEFINE l == Len(adjacency[v])
             m == <<v, l + 1>>
  <2>2. l \in Nat
    BY <1>1, <1>5
  <2> HIDE DEF l
  <2>3. l \in Nat /\ l + 1 <= l + 1 /\ l + 1 \in Nat /\ ~(l + 1 <= l)
    BY <2>2
  <2>4. m[1] = v /\ m[2] = l + 1 /\ m \in (DOMAIN c.index) \X Nat
    BY <1>1, <1>3, <2>3
  <2>5. Past(c, v, l + 1)
    <3>1. \A i \in 1 .. W - 1 : c.work[i].node # v
      BY <1>1, <1>8
    <3> QED
      BY <1>3, <3>1 DEF Past
  <2>6. ~Past(a, v, l + 1)
    <3>1. W \in 1 .. Len(a.work)
      BY <1>1 DEF W
    <3>2. a.work[W].node = v /\ ~(l + 1 <= a.work[W].next)
      BY <1>1, <1>7, <2>3 DEF l
    <3> QED
      BY <3>1, <3>2 DEF Past
  <2> HIDE DEF m
  <2>7. m \in Done(adjacency, c)
    BY <2>3, <2>4, <2>5 DEF Done, l
  <2>8. m \notin Done(adjacency, a)
    BY <2>4, <2>6 DEF Done
  <2> QED
    BY <2>1, <2>7, <2>8 DEF Farther
<1>12. CASE a.low[v] # a.index[v]
  <2>1. /\ Open(c) = Open(a) /\ c.found = a.found
        /\ FoundBy(c, Len(c.found)) = FoundBy(a, Len(a.found))
    BY <1>3, <1>12 DEF Open, FoundBy
  <2>2. PICK y \in Open(a) : a.index[y] = a.low[v] /\ Leads(adjacency, v, y)
    BY <1>1, <1>4
  <2>3. a.low[v] < a.index[v]
    <3>1. a.low[v] <= a.index[v] /\ v \in DOMAIN a.index
      BY <1>1, <1>4
    <3> QED
      BY <1>1, <1>12, <3>1
  <2>4. PICK h \in 1 .. W : a.index[w(h)] <= a.index[y] /\ Leads(adjacency, y, w(h))
    BY <1>4
  <2>5. a.index[w(h)] < a.index[v] /\ h \in 1 .. W - 1 /\ W > 1
    <3>1. w(h) \in DOMAIN a.index /\ y \in DOMAIN a.index /\ v \in DOMAIN a.index
      BY <1>1
    <3>2. a.index[w(h)] < a.index[v]
      BY <1>1, <2>2, <2>3, <2>4, <3>1
    <3>3. h # W
      BY <1>1, <3>1, <3>2
    <3> QED
      BY <1>1, <3>2, <3>3
  <2>6. Numbers(c)
    BY <1>2, <1>3, <1>12, <2>1 DEF Numbers
  <2>7. Frames(adjacency, c)
    <3>1. ASSUME NEW x \in Open(c)
          PROVE  \E i \in 1 .. W - 1 : a.index[w(i)] <= a.index[x] /\ Leads(adjacency, x, w(i))
      <4>1. PICK i \in 1 .. W : a.index[w(i)] <= a.index[x] /\ Leads(adjacency, x, w(i))
        BY <1>4, <2>1
      <4>2. CASE i # W
        BY <1>1, <4>1, <4>2
      <4>3. CASE i = W
        <5>1. a.index[w(h)] <= a.index[x]
          <6>1. w(h) \in DOMAIN a.index /\ x \in DOMAIN a.index /\ v \in DOMAIN a.index
            BY <1>1, <2>1
          <6>2. a.index[v] <= a.index[x]
            BY <1>1, <4>1, <4>3
          <6> QED
            BY <1>1, <2>5, <6>1, <6>2
        <5>2. Leads(adjacency, x, w(h))
          BY <1>1, <2>2, <2>4, <4>1, <4>3, LeadsOn
        <5> QED
          BY <2>5, <5>1, <5>2
      <4> QED
        BY <4>2, <4>3
    <3>2. /\ \A i \in 1 .. W - 1 : c.work[i].next <= Len(adjacency[c.work[i].node])
          /\ \A i \in 1 .. W - 1 : \A x \in Open(c) :
               c.index[c.work[i].node] <= c.index[x] => Leads(adjacency, c.work[i].node, x)
          /\ \A x \in Open(c) : \E i \in 1 .. W - 1 :
               c.index[c.work[i].node] <= c.index[x] /\ Leads(adjacency, x, c.work[i].node)
      <4>1. \A i \in 1 .. W - 1 : c.work[i].next <= Len(adjacency[c.work[i].node])
        BY <1>1, <1>4, <1>8
      <4>2. \A i \in 1 .. W - 1 : \A x \in Open(c) :
               c.index[c.work[i].node] <= c.index[x] => Leads(adjacency, c.work[i].node, x)
        <5> TAKE i \in 1 .. W - 1
        <5> TAKE x \in Open(c)
        <5>1. i \in 1 .. W /\ c.work[i].node = w(i) /\ x \in Open(a) /\ c.index = a.index
          BY <1>1, <1>3, <1>8, <2>1
        <5>2. a.index[w(i)] <= a.index[x] => Leads(adjacency, w(i), x)
          BY <1>4, <5>1
        <5> QED
          BY <5>1, <5>2
      <4>3. \A x \in Open(c) : \E i \in 1 .. W - 1 :
               c.index[c.work[i].node] <= c.index[x] /\ Leads(adjacency, x, c.work[i].node)
        BY <1>3, <1>8, <3>1
      <4> QED
        BY <4>1, <4>2, <4>3
    <3> QED
      BY <1>3, <3>2 DEF Frames
  <2>8. Links(adjacency, c)
    <3> SUFFICES ASSUME NEW i \in 1 .. W - 1
                 PROVE  /\ c.low[w(i)] <= c.index[w(i)]
                        /\ \E z \in Open(c) : c.index[z] = c.low[w(i)] /\ Leads(adjacency, w(i), z)
      BY <1>3, <1>8 DEF Links
    <3>1. i \in 1 .. W /\ w(i) \in DOMAIN a.index
      BY <1>1
    <3>2. c.low[w(i)] <= c.index[w(i)]
      <4>1. /\ c.low[w(i)] <= a.low[w(i)] /\ a.low[w(i)] <= a.index[w(i)]
            /\ c.low[w(i)] \in Nat /\ a.low[w(i)] \in Nat /\ a.index[w(i)] \in Nat
        BY <1>1, <1>4, <1>8, <3>1
      <4> QED
        BY <1>3, <4>1
    <3>3. CASE c.low[w(i)] = a.low[w(i)]
      BY <1>3, <1>4, <2>1, <3>1, <3>2, <3>3
    <3>4. CASE c.low[w(i)] # a.low[w(i)]
      <4>1. w(i) = u /\ c.low[u] = a.low[v]
        BY <1>3, <3>1, <3>4
      <4>2. a.index[w(i)] <= a.index[v]
        <5>1. i < W /\ a.index[w(i)] < a.index[v] /\ v \in DOMAIN a.index
          BY <1>1
        <5> QED
          BY <1>1, <3>1, <5>1
      <4>3. Leads(adjacency, w(i), v)
        BY <1>1, <1>4, <3>1, <4>2
      <4>4. Leads(adjacency, w(i), y)
        BY <2>2, <4>3, LeadsOn
      <4> QED
        BY <1>3, <2>1, <2>2, <3>2, <4>1, <4>4
    <3> QED
      BY <3>3, <3>4
  <2>9. Followed(adjacency, c)
    <3> SUFFICES ASSUME NEW x \in Open(c), NEW k \in 1 .. Len(adjacency[x]), Past(c, x, k)
                 PROVE  \/ Child(adjacency, x, k) \in FoundBy(c, Len(c.found))
                        \/ /\ Child(adjacency, x, k) \in Open(c)
                           /\ Bounded(c, x, Child(adjacency, x, k))
      BY DEF Followed
    <3> DEFINE z == Child(adjacency, x, k)
    <3>1. x \in Open(a) /\ x \in DOMAIN a.index /\ x \in N /\ k \in Nat
      BY <1>1, <1>5, <2>1
    <3>2. Past(a, x, k)
      BY <1>9, <1>10, <2>1, <3>1
    <3>3. z \in FoundBy(a, Len(a.found)) \/ (z \in Open(a) /\ Bounded(a, x, z))
      BY <1>2, <3>1, <3>2 DEF Followed
    <3> HIDE DEF z
    <3>4. ASSUME z \in Open(a), Bounded(a, x, z), NEW i \in 1 .. W - 1, a.index[w(i)] <= a.index[x]
          PROVE  \E j \in 1 .. W - 1 : i <= j /\ a.index[w(j)] <= a.index[x] /\ c.low[w(j)] <= a.index[z]
      <4>1. i \in 1 .. W /\ z \in DOMAIN a.index
        BY <1>1, <3>4
      <4>2. PICK j \in 1 .. W : i <= j /\ a.index[w(j)] <= a.index[x] /\ a.low[w(j)] <= a.index[z]
        BY <3>4, <4>1 DEF Bounded, W
      <4>3. w(j) \in DOMAIN a.index
        BY <1>1
      <4>4. CASE j # W
        <5>1. c.low[w(j)] <= a.index[z]
          <6>1. c.low[w(j)] <= a.low[w(j)] /\ c.low[w(j)] \in Nat /\ a.low[w(j)] \in Nat /\ a.index[z] \in Nat
            BY <1>1, <1>8, <4>1, <4>3
          <6> QED
            BY <4>2, <6>1
        <5> QED
          BY <1>1, <4>2, <4>4, <5>1
      <4>5. CASE j = W
        <5>1. W - 1 \in 1 .. W - 1 /\ W - 1 \in 1 .. W /\ u = w(W - 1) /\ i <= W - 1 /\ W - 1 < W
          BY <1>1, <1>6, <2>5
        <5>2. a.index[u] <= a.index[x]
          <6>1. a.index[u] < a.index[v] /\ a.index[v] <= a.index[x] /\ u \in DOMAIN a.index
                /\ v \in DOMAIN a.index
            BY <1>1, <4>2, <4>5, <5>1
          <6> QED
            BY <1>1, <3>1, <6>1
        <5>3. c.low[u] <= a.index[z]
          <6>1. /\ c.low[u] <= a.low[v] /\ a.low[v] <= a.index[z] /\ u \in DOMAIN a.index
                /\ v \in DOMAIN a.index
            BY <1>1, <1>3, <2>5, <4>2, <4>5, <5>1
          <6> QED
            BY <1>1, <4>1, <6>1
        <5> QED
          BY <5>1, <5>2, <5>3
      <4> QED
        BY <4>4, <4>5
    <3>5. z \in Open(a) /\ Bounded(a, x, z) => z \in Open(c) /\ Bounded(c, x, z)
      <4> SUFFICES ASSUME z \in Open(a), Bounded(a, x, z),
                          NEW i \in 1 .. W - 1, c.index[c.work[i].node] <= c.index[x]
                   PROVE  \E j \in 1 .. W - 1 : /\ i <= j /\ c.index[c.work[j].node] <= c.index[x]
                                                /\ c.low[c.work[j].node] <= c.index[z]
        BY <1>3, <2>1 DEF Bounded
      <4>1. a.index[w(i)] <= a.index[x]
        BY <1>3, <1>8
      <4>2. PICK j \in 1 .. W - 1 : i <= j /\ a.index[w(j)] <= a.index[x] /\ c.low[w(j)] <= a.index[z]
        BY <3>4, <4>1
      <4> QED
        BY <1>3, <1>8, <4>2
    <3> QED
      BY <2>1, <3>3, <3>5 DEF z
  <2>10. Components(adjacency, c)
    BY <1>2, <2>1 DEF Components, FoundBy
  <2> QED
    BY <1>11, <2>6, <2>7, <2>8, <2>9, <2>10 DEF Traced
<1>13. CASE a.low[v] = a.index[v]
  <2>1. /\ Open(c) = {x \in Open(a) : a.index[x] < a.index[v]} /\ c.found = Append(a.found, C)
        /\ v \in DOMAIN a.index /\ a.index[v] \in Nat
    BY <1>1, <1>3, <1>13
  <2>2. /\ Len(c.found) = F + 1 /\ c.found[F + 1] = C
        /\ \A i \in 1 .. F : c.found[i] = a.found[i]
    <3>1. a.found \in Seq(SUBSET N)
      BY DEF Ready, TarjanStates
    <3> HIDE DEF C
    <3> QED
      BY <2>1, <3>1 DEF F
  <2>3. /\ \A x \in Open(a) : x \in Open(c) \/ x \in C
        /\ \A x \in Open(c) : x \in Open(a) /\ x # v /\ a.index[x] \in Nat
    BY <1>1, <2>1
  <2> HIDE DEF C
  <2>4. /\ \A i \in 1 .. F : FoundBy(c, i) = FoundBy(a, i)
        /\ FoundBy(c, F + 1) = FoundBy(a, F) \cup C
    <3>1. \A i \in 1 .. F : \A j \in 1 .. i : j \in 1 .. F
      BY <1>1
    <3>2. /\ \A j \in 1 .. F : j \in 1 .. F + 1
          /\ F + 1 \in 1 .. F + 1
          /\ \A j \in 1 .. F + 1 : j \in 1 .. F \/ j = F + 1
      BY <1>1
    <3> QED
      BY <2>2, <3>1, <3>2 DEF FoundBy
  <2>5. Numbers(c)
    <3>1. \A p, r \in 1 .. Len(c.stack) : p < r => c.index[c.stack[p]] < c.index[c.stack[r]]
      <4>1. \A p \in 1 .. Len(c.stack) : p \in 1 .. Len(a.stack)
        BY <1>3, ReadyState
      <4> QED
        BY <1>2, <1>3, <4>1 DEF Numbers
    <3> QED
      BY <1>2, <1>3, <2>2, <2>3, <2>4, <3>1 DEF Numbers, F
  <2>6. Frames(adjacency, c)
    <3>1. ASSUME NEW x \in Open(c)
          PROVE  \E i \in 1 .. W - 1 : a.index[w(i)] <= a.index[x] /\ Leads(adjacency, x, w(i))
      <4>1. PICK i \in 1 .. W : a.index[w(i)] <= a.index[x] /\ Leads(adjacency, x, w(i))
        BY <1>4, <2>3
      <4>2. i # W
        <5>1. a.index[x] < a.index[v] /\ a.index[x] \in Nat
          BY <2>1, <2>3
        <5> QED
          BY <1>1, <2>1, <4>1, <5>1
      <4> QED
        BY <1>1, <4>1, <4>2
    <3>2. /\ \A i \in 1 .. W - 1 : c.work[i].next <= Len(adjacency[c.work[i].node])
          /\ \A i \in 1 .. W - 1 : \A x \in Open(c) :
               c.index[c.work[i].node] <= c.index[x] => Leads(adjacency, c.work[i].node, x)
          /\ \A x \in Open(c) : \E i \in 1 .. W - 1 :
               c.index[c.work[i].node] <= c.index[x] /\ Leads(adjacency, x, c.work[i].node)
      <4>1. \A i \in 1 .. W - 1 : c.work[i].next <= Len(adjacency[c.work[i].node])
        BY <1>1, <1>4, <1>8
      <4>2. \A i \in 1 .. W - 1 : \A x \in Open(c) :
               c.index[c.work[i].node] <= c.index[x] => Leads(adjacency, c.work[i].node, x)
        <5> TAKE i \in 1 .. W - 1
        <5> TAKE x \in Open(c)
        <5>1. i \in 1 .. W /\ c.work[i].node = w(i) /\ x \in Open(a) /\ c.index = a.index
          BY <1>1, <1>3, <1>8, <2>3
        <5>2. a.index[w(i)] <= a.index[x] => Leads(adjacency, w(i), x)
          BY <1>4, <5>1
        <5> QED
          BY <5>1, <5>2
      <4>3. \A x \in Open(c) : \E i \in 1 .. W - 1 :
               c.index[c.work[i].node] <= c.index[x] /\ Leads(adjacency, x, c.work[i].node)
        BY <1>3, <1>8, <3>1
      <4> QED
        BY <4>1, <4>2, <4>3
    <3> QED
      BY <1>3, <3>2 DEF Frames
  <2>7. \A i \in 1 .. W - 1 : /\ i \in 1 .. W /\ w(i) \in DOMAIN a.index
                              /\ a.index[w(i)] < a.index[v] /\ c.low[w(i)] = a.low[w(i)]
    <3> TAKE i \in 1 .. W - 1
    <3>1. i \in 1 .. W /\ i < W /\ w(i) \in DOMAIN a.index /\ a.index[w(i)] < a.index[v]
      BY <1>1
    <3>2. a.low[w(i)] <= a.index[w(i)] /\ c.low[w(i)] <= a.low[w(i)]
      BY <1>4, <1>8, <3>1
    <3>3. c.low[w(i)] # a.low[v]
      <4>1. /\ c.low[w(i)] \in Nat /\ a.low[w(i)] \in Nat /\ a.index[w(i)] \in Nat
        BY <1>1, <3>1
      <4> QED
        BY <1>13, <2>1, <3>1, <3>2, <4>1
    <3> QED
      BY <1>3, <3>1, <3>3
  <2>8. Links(adjacency, c)
    <3> SUFFICES ASSUME NEW i \in 1 .. W - 1
                 PROVE  /\ c.low[w(i)] <= c.index[w(i)]
                        /\ \E z \in Open(c) : c.index[z] = c.low[w(i)] /\ Leads(adjacency, w(i), z)
      BY <1>3, <1>8 DEF Links
    <3>1. a.low[w(i)] <= a.index[w(i)]
      BY <1>4, <2>7
    <3>2. PICK y \in Open(a) : a.index[y] = a.low[w(i)] /\ Leads(adjacency, w(i), y)
      BY <1>4, <2>7
    <3>3. a.index[y] < a.index[v]
      <4>1. a.low[w(i)] \in Nat /\ a.index[w(i)] \in Nat /\ a.index[w(i)] < a.index[v]
        BY <1>1, <2>7
      <4> QED
        BY <2>1, <3>1, <3>2, <4>1
    <3>4. y \in Open(c)
      BY <2>1, <3>3
    <3> QED
      BY <1>3, <2>7, <3>1, <3>2, <3>4
  <2>9. Followed(adjacency, c)
    <3> SUFFICES ASSUME NEW x \in Open(c), NEW k \in 1 .. Len(adjacency[x]), Past(c, x, k)
                 PROVE  \/ Child(adjacency, x, k) \in FoundBy(c, Len(c.found))
                        \/ /\ Child(adjacency, x, k) \in Open(c)
                           /\ Bounded(c, x, Child(adjacency, x, k))
      BY DEF Followed
    <3> DEFINE z == Child(adjacency, x, k)
    <3>1. x \in Open(a) /\ x # v /\ x \in DOMAIN a.index /\ x \in N /\ k \in Nat
      <4>1. x \in Open(a) /\ x # v
        BY <2>3
      <4>2. x \in DOMAIN a.index /\ x \in N
        BY <1>1, <4>1
      <4> QED
        BY <1>5, <4>1, <4>2
    <3>2. Past(a, x, k)
      BY <1>9, <3>1
    <3>3. z \in FoundBy(a, F) \/ (z \in Open(a) /\ Bounded(a, x, z))
      BY <1>2, <3>1, <3>2 DEF Followed, F
    <3> HIDE DEF z
    <3>4. ASSUME z \in Open(c), Bounded(a, x, z)
          PROVE  Bounded(c, x, z)
      <4> SUFFICES ASSUME NEW i \in 1 .. W - 1, a.index[w(i)] <= a.index[x]
                   PROVE  \E j \in 1 .. W - 1 : /\ i <= j /\ a.index[w(j)] <= a.index[x]
                                                /\ c.low[w(j)] <= a.index[z]
        BY <1>3, <1>8 DEF Bounded
      <4>1. i \in 1 .. W
        BY <1>1
      <4>2. PICK j \in 1 .. W : i <= j /\ a.index[w(j)] <= a.index[x] /\ a.low[w(j)] <= a.index[z]
        BY <3>4, <4>1 DEF Bounded, W
      <4>3. j # W
        <5>1. a.index[x] < a.index[v] /\ a.index[x] \in Nat
          BY <2>1, <2>3
        <5> QED
          BY <1>1, <2>1, <4>2, <5>1
      <4>4. j \in 1 .. W - 1
        BY <1>1, <4>3
      <4> QED
        BY <2>7, <4>2, <4>4
    <3> QED
      BY <2>2, <2>3, <2>4, <3>3, <3>4 DEF z
  <2>10. Components(adjacency, c)
    <3>1. \A x \in C : x \in Open(a) /\ a.index[v] <= a.index[x] /\ x \in DOMAIN a.index /\ x \in N
      BY <1>1 DEF C
    <3>2. v \in C
      BY <1>1, <2>1 DEF C
    <3>3. ASSUME NEW n \in C, NEW k \in 1 .. Len(adjacency[n])
          PROVE  Child(adjacency, n, k) \in FoundBy(c, F + 1)
      <4> DEFINE y == Child(adjacency, n, k)
      <4>1. Past(a, n, k)
        BY <1>10, <3>1
      <4>2. y \in FoundBy(a, F) \/ (y \in Open(a) /\ Bounded(a, n, y))
        BY <1>2, <3>1, <4>1 DEF Followed, F
      <4> HIDE DEF y
      <4>3. ASSUME y \in Open(a), Bounded(a, n, y) PROVE y \in C
        <5>1. PICK j \in 1 .. W : W <= j /\ a.low[w(j)] <= a.index[y]
          BY <1>1, <3>1, <4>3 DEF Bounded, W
        <5>2. j = W
          BY <1>1, <5>1
        <5> QED
          BY <1>1, <1>13, <4>3, <5>1, <5>2 DEF C
      <4> QED
        BY <2>4, <4>2, <4>3 DEF y
    <3>4. ASSUME NEW x \in C, NEW z \in C PROVE Leads(adjacency, x, z)
      <4>1. PICK i \in 1 .. W : Leads(adjacency, x, w(i))
        BY <1>4, <3>1
      <4>2. a.index[w(i)] <= a.index[v]
        <5>1. i = W \/ i < W
          BY <1>1
        <5>2. w(i) \in DOMAIN a.index
          BY <1>1
        <5> QED
          BY <1>1, <2>1, <5>1, <5>2
      <4>3. Leads(adjacency, w(i), v)
        BY <1>1, <1>4, <4>2
      <4>4. Leads(adjacency, v, z)
        <5>1. z \in Open(a) /\ a.index[w(W)] <= a.index[z] /\ W \in 1 .. W /\ w(W) = v
          BY <1>1, <3>1
        <5>2. Leads(adjacency, w(W), z)
          BY <1>4, <5>1
        <5> QED
          BY <5>1, <5>2
      <4> QED
        BY <4>1, <4>3, <4>4, LeadsOn
    <3> SUFFICES ASSUME NEW i \in 1 .. F + 1
                 PROVE  /\ c.found[i] # {}
                        /\ \A n \in c.found[i] : \A k \in 1 .. Len(adjacency[n]) :
                             Child(adjacency, n, k) \in FoundBy(c, i)
                        /\ \A b, d \in c.found[i] : Leads(adjacency, b, d)
      BY <2>2 DEF Components
    <3>5. CASE i = F + 1
      BY <2>2, <3>2, <3>3, <3>4, <3>5
    <3>6. CASE i # F + 1
      <4>1. i \in 1 .. F
        BY <1>1, <3>6
      <4> QED
        BY <1>2, <2>2, <2>4, <4>1 DEF Components, F
    <3> QED
      BY <3>5, <3>6
  <2> QED
    BY <1>11, <2>5, <2>6, <2>8, <2>9, <2>10 DEF Traced
<1> QED
  BY <1>12, <1>13

\* The state once the last frame is entered.
Entered(t) == IF t.work = <<>> THEN t ELSE Enter(t, Last(t.work).node)

LEMMA EnteredState ==
  ASSUME NEW N \in SUBSET Nat, NEW t \in Sound(N)
  PROVE  /\ Entered(t) \in Ready(N) /\ Entered(t).work = t.work
         /\ t.work # <<>> /\ Last(t.work).next = 0 => Stacks(t, Entered(t), Last(t.work).node)
         /\ t.work = <<>> \/ Last(t.work).next # 0 => Entered(t) = t
<1>1. /\ t \in TarjanStates(N) /\ Apart(t) /\ Left(t) /\ (t.work # <<>> => Opened(t))
      /\ t.work \in Seq([node : N, next : Nat])
  BY DEF Sound, TarjanStates
<1>2. Entered(t) \in Ready(N) /\ Entered(t).work = t.work
  <2>1. CASE t.work = <<>>
    <3>1. Placed(t, Len(t.work)) /\ Entered(t) = t
      BY <2>1 DEF Placed, Entered
    <3> QED
      BY <1>1, <3>1 DEF Ready
  <2>2. CASE t.work # <<>>
    BY <2>2, EnterKeeps DEF Entered, Ready
  <2> QED
    BY <2>1, <2>2
<1>3. t.work = <<>> \/ Last(t.work).next # 0 => Entered(t) = t
  BY DEF Entered, Enter
<1>4. ASSUME t.work # <<>>, Last(t.work).next = 0 PROVE Stacks(t, Entered(t), Last(t.work).node)
  <2> DEFINE node == Last(t.work).node
             e == Entered(t)
             Numbered(f) == [n \in DOMAIN f \cup {node} |-> IF n = node THEN t.counter ELSE f[n]]
  <2>1. e = [t EXCEPT !.index = Numbered(@), !.low = Numbered(@),
                      !.counter = @ + 1, !.stack = Append(@, node)]
    BY <1>4 DEF Enter, Entered
  <2>2. node \notin DOMAIN t.index /\ DOMAIN t.low = DOMAIN t.index
    BY <1>1, <1>4 DEF Opened, Apart
  <2>3. /\ e.index = Numbered(t.index) /\ e.low = Numbered(t.low)
        /\ e.counter = t.counter + 1 /\ e.stack = Append(t.stack, node) /\ e.found = t.found
    <3> HIDE DEF Numbered, node, e
    <3> QED
      BY <1>1, <2>1 DEF TarjanStates
  <2> HIDE DEF node, e
  <2>4. /\ DOMAIN e.index = DOMAIN t.index \cup {node}
        /\ \A n \in DOMAIN t.index : e.index[n] = t.index[n] /\ e.low[n] = t.low[n]
        /\ e.index[node] = t.counter /\ e.low[node] = t.counter
    BY <2>2, <2>3
  <2> HIDE DEF Numbered
  <2> QED
    BY <2>2, <2>3, <2>4 DEF Stacks, node, e
<1> QED
  BY <1>2, <1>3, <1>4

LEMMA VisitIs ==
  ASSUME NEW N \in SUBSET Nat, NEW t \in Ready(N), t.work # <<>>, NEW child \in N
  PROVE  LET v == Last(t.work).node
             b == VisitChild(t, v, child)
             W == Len(t.work)
         IN  /\ Moves(t, b)
             /\ child \notin DOMAIN t.index =>
                  /\ b.index = t.index /\ b.low = t.low /\ b.counter = t.counter
                  /\ b.stack = t.stack /\ b.found = t.found
                  /\ Len(b.work) = W + 1 /\ b.work[W + 1] = [node |-> child, next |-> 0]
             /\ child \in DOMAIN t.index => Len(b.work) = W /\ Relinks(t, b, v, child)
<1> DEFINE node == Last(t.work).node
           W == Len(t.work)
           moved == [t EXCEPT !.work[Len(t.work)].next = @ + 1]
           b == VisitChild(t, node, child)
<1>1. /\ t \in TarjanStates(N) /\ Apart(t) /\ Placed(t, W)
      /\ t.work \in Seq([node : N, next : Nat]) /\ t.index \in Tables(N) /\ t.low \in Tables(N)
      /\ t.counter \in Nat /\ t.stack \in Seq(N) /\ t.found \in Seq(SUBSET N)
  BY DEF TarjanStates, Ready
<1>2. W \in Nat \ {0} /\ Last(t.work) = t.work[W] /\ t.work[W] \in [node : N, next : Nat]
  BY <1>1, LastAndFront
<1>3. /\ node \in DOMAIN t.index /\ \A n \in DOMAIN t.index : t.index[n] \in Nat /\ t.low[n] \in Nat
      /\ DOMAIN t.low = DOMAIN t.index
  <2>1. W \in 1 .. W /\ node = t.work[W].node
    BY <1>2
  <2>2. t.work[W].node \in Open(t) /\ Open(t) \subseteq DOMAIN t.index
    BY <2>1, ReadyState
  <2> QED
    BY <2>1, <2>2, ReadyState
<1>4. child \in ToSet(t.stack) <=> child \in Open(t)
  <2>1. DOMAIN t.stack = 1 .. Len(t.stack)
    BY <1>1
  <2> QED
    BY <2>1 DEF ToSet, Open
<1> HIDE DEF W, node
<1> DEFINE work == [t.work EXCEPT ![W] = [t.work[W] EXCEPT !.next = @ + 1]]
<1>5. /\ work \in Seq([node : N, next : Nat]) /\ Len(work) = W
      /\ work[W].next = t.work[W].next + 1 /\ \A k \in 1 .. W : work[k].node = t.work[k].node
      /\ \A k \in 1 .. W : k # W => work[k].next = t.work[k].next
  <2>1. [t.work[W] EXCEPT !.next = @ + 1] \in [node : N, next : Nat]
    BY <1>2
  <2>2. W = Len(t.work)
    BY DEF W
  <2> QED
    BY <1>1, <1>2, <2>1, <2>2
<1>6. moved = [t EXCEPT !.work = work]
  BY <1>1 DEF W
<1> HIDE DEF work
<1>7. /\ moved.work = work /\ moved.index = t.index /\ moved.low = t.low
      /\ moved.counter = t.counter /\ moved.stack = t.stack /\ moved.found = t.found
      /\ moved \in TarjanStates(N)
  <2> HIDE DEF moved
  <2> QED
    BY <1>1, <1>5, <1>6 DEF TarjanStates
<1>8. CASE child \notin DOMAIN t.index
  <2> DEFINE frame == [node |-> child, next |-> 0]
             new == Append(work, frame)
  <2>1. b = [moved EXCEPT !.work = Append(@, frame)]
    BY <1>8 DEF VisitChild
  <2>2. /\ Len(new) = W + 1 /\ new[W + 1] = frame /\ \A k \in 1 .. W : new[k] = work[k]
    BY <1>5
  <2> HIDE DEF new, frame
  <2>3. b = [moved EXCEPT !.work = new]
    BY <1>7, <2>1 DEF new
  <2> HIDE DEF moved, b
  <2>4. /\ b.work = new /\ b.index = t.index /\ b.low = t.low /\ b.counter = t.counter
        /\ b.stack = t.stack /\ b.found = t.found
    BY <1>7, <2>3 DEF TarjanStates
  <2>5. Moves(t, b)
    <3>1. /\ W \in Nat /\ W \in 1 .. W /\ W <= W + 1
      BY <1>2
    <3> QED
      BY <1>5, <2>2, <2>4, <3>1 DEF Moves, W
  <2> QED
    BY <1>8, <2>2, <2>4, <2>5 DEF W, b, node, frame
<1>9. CASE child \in DOMAIN t.index
  <2> DEFINE least == Min({t.low[node], t.index[child]})
             low == IF child \in Open(t) THEN [t.low EXCEPT ![node] = least] ELSE t.low
  <2>1. least \in {t.low[node], t.index[child]} /\ least <= t.low[node] /\ least <= t.index[child]
    BY <1>3, <1>9, MinOfTwo
  <2>2. b.work = work /\ b.index = t.index /\ b.low = low /\ b.counter = t.counter
        /\ b.stack = t.stack /\ b.found = t.found
    <3>1. CASE child \in Open(t)
      <4>1. b = [moved EXCEPT !.low[node] = least]
        BY <1>4, <1>7, <1>9, <3>1 DEF VisitChild
      <4>2. low = [t.low EXCEPT ![node] = least]
        BY <3>1
      <4>3. b = [moved EXCEPT !.low = low]
        BY <1>7, <4>1, <4>2
      <4> HIDE DEF low, moved, b
      <4> QED
        BY <1>7, <4>3 DEF TarjanStates
    <3>2. CASE child \notin Open(t)
      <4>1. b = moved
        BY <1>4, <1>9, <3>2 DEF VisitChild
      <4> HIDE DEF b, moved
      <4> QED
        BY <1>7, <3>2, <4>1
    <3> QED
      BY <3>1, <3>2
  <2>3. /\ \A n \in DOMAIN t.index : n # node => low[n] = t.low[n]
        /\ child \in Open(t) => low[node] = least
        /\ child \notin Open(t) => low[node] = t.low[node]
    BY <1>3
  <2> HIDE DEF b, moved, low, least
  <2>4. Moves(t, b)
    <3>1. /\ W \in Nat /\ W \in 1 .. W /\ W <= W
      BY <1>2
    <3> QED
      BY <1>5, <2>2, <3>1 DEF Moves, W
  <2>5. Relinks(t, b, node, child)
    <3>1. t.low[node] <= t.low[node]
      BY <1>3
    <3>2. CASE child \in Open(t)
      <4>1. b.low[node] = least
        BY <2>2, <2>3, <3>2
      <4>2. b.low[node] = t.low[node] \/ (child \in Open(t) /\ b.low[node] = t.index[child])
        BY <2>1, <3>2, <4>1
      <4> QED
        BY <2>1, <2>2, <2>3, <4>1, <4>2 DEF Relinks
    <3>3. CASE child \notin Open(t)
      BY <2>2, <2>3, <3>1, <3>3 DEF Relinks
    <3> QED
      BY <3>2, <3>3
  <2> QED
    BY <1>5, <1>9, <2>2, <2>4, <2>5 DEF W, b, node
<1> QED
  BY <1>8, <1>9

LEMMA LeaveIs ==
  ASSUME NEW N \in SUBSET Nat, NEW t \in Ready(N), Numbers(t), t.work # <<>>
  PROVE  Pops(t, Leave(t, Last(t.work).node), Last(t.work).node)
<1> DEFINE node == Last(t.work).node
           W == Len(t.work)
           L == Len(t.stack)
           at == CHOOSE k \in DOMAIN t.stack : t.stack[k] = node
           root == t.low[node] = t.index[node]
           work == Front(t.work)
           component == ToSet(SubSeq(t.stack, at, L))
           C == {x \in Open(t) : t.index[node] <= t.index[x]}
           stack == IF root THEN SubSeq(t.stack, 1, at - 1) ELSE t.stack
           found == IF root THEN Append(t.found, component) ELSE t.found
           closed == [t EXCEPT !.work = work, !.stack = stack, !.found = found]
           b == Leave(t, node)
<1>1. /\ t \in TarjanStates(N) /\ Apart(t) /\ Placed(t, W)
      /\ t.work \in Seq([node : N, next : Nat]) /\ t.index \in Tables(N) /\ t.low \in Tables(N)
      /\ t.counter \in Nat /\ t.stack \in Seq(N) /\ t.found \in Seq(SUBSET N)
      /\ L \in Nat
  BY DEF TarjanStates, Ready
<1>2. W \in Nat \ {0} /\ W \in 1 .. W /\ node = t.work[W].node
  <2>1. W \in Nat \ {0} /\ Last(t.work) = t.work[W]
    BY <1>1, LastAndFront
  <2> QED
    BY <2>1
<1>3. /\ Len(work) = W - 1 /\ \A k \in 1 .. W - 1 : work[k] = t.work[k]
  BY <1>1, LastAndFront
<1>4. /\ \A i \in 1 .. W : t.work[i].node \in Open(t) /\ t.work[i].node \in DOMAIN t.index
      /\ \A n \in DOMAIN t.index : t.index[n] \in Nat /\ t.low[n] \in Nat
      /\ DOMAIN t.low = DOMAIN t.index
      /\ \A p \in 1 .. L : t.index[t.stack[p]] \in Nat
  <2>1. Open(t) \subseteq DOMAIN t.index /\ \A i \in 1 .. W : t.work[i].node \in Open(t)
    BY ReadyState
  <2>2. \A p \in 1 .. L : t.stack[p] \in Open(t)
    BY DEF Open
  <2>3. (\A n \in DOMAIN t.index : t.index[n] \in Nat /\ t.low[n] \in Nat)
        /\ DOMAIN t.low = DOMAIN t.index
    BY ReadyState
  <2> HIDE DEF W, L
  <2> QED
    BY <2>1, <2>2, <2>3
<1>5. at \in 1 .. L /\ t.stack[at] = node
  <2>1. \E p \in 1 .. L : t.stack[p] = node
    <3>1. t.work[W].node \in Open(t)
      BY <1>2, <1>4
    <3> QED
      BY <1>2, <3>1 DEF Open
  <2>2. DOMAIN t.stack = 1 .. L
    BY <1>1
  <2> HIDE DEF node, L
  <2> QED
    BY <2>1, <2>2
<1>6. b = IF work = <<>> THEN closed
          ELSE [closed EXCEPT !.low[Last(work).node] = Min({@, t.low[node]})]
  BY DEF Leave
<1> HIDE DEF at, root, work, L, W
<1>7. \A p, r \in 1 .. L : p < r => t.index[t.stack[p]] < t.index[t.stack[r]]
  BY DEF Numbers, L
<1>8. /\ \A p \in 1 .. L : p < at => t.index[t.stack[p]] < t.index[node]
      /\ \A p \in 1 .. L : at <= p => t.index[node] <= t.index[t.stack[p]]
  <2>1. \A p \in 1 .. L : p < at => t.index[t.stack[p]] < t.index[node]
    BY <1>5, <1>7
  <2>2. ASSUME NEW p \in 1 .. L, at <= p PROVE t.index[node] <= t.index[t.stack[p]]
    <3>1. at = p \/ at < p
      BY <1>1, <1>5, <2>2
    <3>2. t.index[t.stack[p]] \in Nat /\ t.index[node] \in Nat
      BY <1>4, <1>5
    <3>3. at < p => t.index[node] < t.index[t.stack[p]]
      BY <1>5, <1>7
    <3> QED
      BY <1>5, <3>1, <3>2, <3>3
  <2> QED
    BY <2>1, <2>2
<1>9. component = C
  <2> DEFINE s == SubSeq(t.stack, at, L)
  <2>1. /\ Len(s) = L - at + 1 /\ DOMAIN s = 1 .. Len(s)
        /\ \A k \in 1 .. L - at + 1 : s[k] = t.stack[at + k - 1]
    BY <1>1, <1>5 DEF L
  <2> HIDE DEF s
  <2>2. ToSet(s) = {s[k] : k \in 1 .. L - at + 1}
    BY <1>1, <1>5, <2>1 DEF ToSet
  <2>3. ASSUME NEW k \in 1 .. L - at + 1 PROVE s[k] \in C
    <3>1. at + k - 1 \in 1 .. L /\ at <= at + k - 1
      BY <1>1, <1>5
    <3>2. t.stack[at + k - 1] \in Open(t)
      BY <3>1 DEF Open, L
    <3> QED
      BY <1>8, <2>1, <3>1, <3>2
  <2>4. ASSUME NEW x \in C PROVE \E k \in 1 .. L - at + 1 : s[k] = x
    <3>1. PICK p \in 1 .. L : t.stack[p] = x
      BY DEF Open, L
    <3>2. at <= p
      <4> SUFFICES ASSUME p < at PROVE FALSE
        BY <1>1, <1>5
      <4>1. t.index[x] < t.index[node] /\ t.index[node] <= t.index[x]
        BY <1>8, <3>1
      <4>2. t.index[x] \in Nat /\ t.index[node] \in Nat
        BY <1>4, <1>5, <3>1
      <4> QED
        BY <4>1, <4>2
    <3>3. p - at + 1 \in 1 .. L - at + 1 /\ at + (p - at + 1) - 1 = p
      BY <1>1, <1>5, <3>1, <3>2
    <3> QED
      BY <2>1, <3>1, <3>3
  <2> HIDE DEF C
  <2>5. ToSet(s) = C
    BY <2>2, <2>3, <2>4
  <2> QED
    BY <2>5 DEF s
<1> HIDE DEF component
<1>10. /\ Len(stack) \in Nat /\ Len(stack) <= L
       /\ \A k \in 1 .. Len(stack) : k \in 1 .. L /\ stack[k] = t.stack[k]
       /\ root => Len(stack) = at - 1
       /\ ~root => stack = t.stack
       /\ stack \in Seq(N)
  <2> DEFINE m == at - 1
  <2>1. m \in Nat /\ m <= L
    BY <1>1, <1>5
  <2> HIDE DEF m
  <2>2. /\ SubSeq(t.stack, 1, m) \in Seq(N) /\ Len(SubSeq(t.stack, 1, m)) = m
        /\ \A k \in 1 .. m : SubSeq(t.stack, 1, m)[k] = t.stack[k]
    BY <1>1, <2>1 DEF L
  <2>3. CASE root
    <3>1. stack = SubSeq(t.stack, 1, m)
      BY <2>3 DEF m
    <3> HIDE DEF stack
    <3> QED
      BY <1>1, <2>1, <2>2, <2>3, <3>1 DEF m
  <2>4. CASE ~root
    <3>1. stack = t.stack
      BY <2>4
    <3> HIDE DEF stack
    <3> QED
      BY <1>1, <2>4, <3>1 DEF L
  <2> QED
    BY <2>3, <2>4
<1>11. root => {stack[p] : p \in 1 .. Len(stack)} = {x \in Open(t) : t.index[x] < t.index[node]}
  <2> SUFFICES ASSUME root
               PROVE  {stack[p] : p \in 1 .. Len(stack)} = {x \in Open(t) : t.index[x] < t.index[node]}
    OBVIOUS
  <2> HIDE DEF stack
  <2>1. ASSUME NEW p \in 1 .. Len(stack)
        PROVE  stack[p] \in Open(t) /\ t.index[stack[p]] < t.index[node]
    <3>1. p \in 1 .. L /\ p < at /\ stack[p] = t.stack[p]
      BY <1>5, <1>10
    <3> QED
      BY <1>8, <3>1 DEF Open, L
  <2>2. ASSUME NEW x \in Open(t), t.index[x] < t.index[node]
        PROVE  \E p \in 1 .. Len(stack) : stack[p] = x
    <3>1. PICK p \in 1 .. L : t.stack[p] = x
      BY DEF Open, L
    <3>2. p < at
      <4> SUFFICES ASSUME at <= p PROVE FALSE
        BY <1>1, <1>5
      <4>1. t.index[node] <= t.index[x]
        BY <1>8, <3>1
      <4>2. t.index[x] \in Nat /\ t.index[node] \in Nat
        BY <1>4, <1>5, <3>1
      <4> QED
        BY <2>2, <4>1, <4>2
    <3>3. p \in 1 .. Len(stack)
      BY <1>5, <1>10, <3>1, <3>2
    <3> QED
      BY <1>10, <3>1, <3>3
  <2> QED
    BY <2>1, <2>2
<1> HIDE DEF stack
<1>12. /\ closed.work = work /\ closed.stack = stack /\ closed.found = found
       /\ closed.index = t.index /\ closed.low = t.low /\ closed.counter = t.counter
       /\ closed \in TarjanStates(N)
  <2>1. work \in Seq([node : N, next : Nat])
    BY <1>1, LastAndFront DEF work
  <2>2. C \in SUBSET N
    BY ReadyState
  <2>3. found \in Seq(SUBSET N)
    BY <1>1, <1>9, <2>2
  <2> HIDE DEF found, C
  <2> QED
    BY <1>1, <1>10, <2>1, <2>3 DEF TarjanStates
<1> HIDE DEF closed
<1> DEFINE u == t.work[W - 1].node
           least == Min({t.low[u], t.low[node]})
           low == IF W > 1 THEN [t.low EXCEPT ![u] = least] ELSE t.low
<1>13. b.work = work /\ b.stack = stack /\ b.found = found /\ b.index = t.index /\ b.low = low
       /\ b.counter = t.counter
  <2>1. CASE W = 1
    <3>1. work = <<>> /\ low = t.low
      BY <1>1, <1>3, <2>1, LastAndFront
    <3> QED
      BY <1>6, <1>12, <3>1
  <2>2. CASE W # 1
    <3>1. W > 1 /\ work # <<>> /\ Last(work).node = u
      <4>1. W > 1 /\ Len(work) # 0 /\ W - 1 \in 1 .. W - 1
        BY <1>2, <1>3, <2>2
      <4> QED
        BY <1>3, <4>1 DEF Last
    <3>2. low = [t.low EXCEPT ![u] = least]
      BY <3>1
    <3>3. b = [closed EXCEPT !.low = low]
      BY <1>6, <1>12, <3>1, <3>2
    <3> HIDE DEF low, b, least, u
    <3> QED
      BY <1>12, <3>3 DEF TarjanStates
  <2> QED
    BY <2>1, <2>2
<1>14. Open(b) = {stack[p] : p \in 1 .. Len(stack)}
  BY <1>13 DEF Open
<1>15. /\ \A n \in DOMAIN t.index : (W > 1 => n # u) => b.low[n] = t.low[n]
       /\ W > 1 => /\ b.low[u] <= t.low[u] /\ b.low[u] <= t.low[node]
                   /\ b.low[u] \in {t.low[u], t.low[node]}
  <2>1. CASE W > 1
    <3>1. u \in DOMAIN t.low /\ t.low[u] \in Nat /\ t.low[node] \in Nat
      <4>1. W - 1 \in 1 .. W
        BY <1>2, <2>1
      <4> QED
        BY <1>2, <1>4, <4>1
    <3>2. least \in {t.low[u], t.low[node]} /\ least <= t.low[u] /\ least <= t.low[node]
      BY <3>1, MinOfTwo
    <3> HIDE DEF least, u
    <3> QED
      BY <1>4, <1>13, <2>1, <3>1, <3>2
  <2>2. CASE ~(W > 1)
    BY <1>13, <2>2
  <2> QED
    BY <2>1, <2>2
<1> HIDE DEF b, low, least, node
<1>16. Len(b.work) = Len(t.work) - 1 /\ \A i \in 1 .. Len(t.work) - 1 : b.work[i] = t.work[i]
  BY <1>3, <1>13 DEF W
<1>17. Len(b.stack) <= Len(t.stack) /\ \A p \in 1 .. Len(b.stack) : b.stack[p] = t.stack[p]
  BY <1>10, <1>13 DEF L
<1>18. t.low[node] = t.index[node] =>
          /\ Open(b) = {x \in Open(t) : t.index[x] < t.index[node]}
          /\ b.found = Append(t.found, {x \in Open(t) : t.index[node] <= t.index[x]})
  BY <1>9, <1>11, <1>13, <1>14 DEF root
<1>19. t.low[node] # t.index[node] => b.stack = t.stack /\ b.found = t.found
  BY <1>10, <1>13 DEF root
<1>20. Pops(t, b, node)
  BY <1>13, <1>15, <1>16, <1>17, <1>18, <1>19 DEF Pops, W, u
<1> QED
  BY <1>20 DEF b, node

LEMMA AdvanceTraces ==
  ASSUME NEW N \in SUBSET Nat, NEW adjacency, Arrows(adjacency), DOMAIN adjacency = N,
         NEW t \in Sound(N), Traced(adjacency, Entered(t))
  PROVE  LET b == Advance(adjacency, t)
         IN  \/ t.work = <<>> /\ N \subseteq DOMAIN t.index /\ b = t
             \/ Traced(adjacency, Entered(b)) /\ Farther(adjacency, Entered(t), Entered(b))
<1> DEFINE starts == DOMAIN adjacency \ DOMAIN t.index
           node == Last(t.work).node
           next == Last(t.work).next
           a == Entered(t)
           b == Advance(adjacency, t)
           c == Entered(b)
           W == Len(t.work)
<1>1. t \in TarjanStates(N) /\ Left(t) /\ t.work \in Seq([node : N, next : Nat])
  BY DEF Sound, TarjanStates
<1>2. a \in Ready(N) /\ a.work = t.work /\ b \in Sound(N) /\ c \in Ready(N) /\ c.work = b.work
  <2>1. b \in Sound(N)
    BY AdvanceKeeps DEF Arrows, Child
  <2> QED
    BY <2>1, EnteredState
<1>3. /\ b.work # <<>> /\ Last(b.work).next = 0 => Stacks(b, c, Last(b.work).node)
      /\ b.work = <<>> \/ Last(b.work).next # 0 => c = b
  BY <1>2, EnteredState
<1>4. CASE t.work = <<>> /\ starts = {}
  BY <1>4 DEF Advance
<1>5. CASE t.work = <<>> /\ starts # {}
  <2> DEFINE child == Min(starts)
             frame == [node |-> child, next |-> 0]
             r == [t EXCEPT !.work = <<frame>>]
  <2>1. b = r
    BY <1>5 DEF Advance
  <2>2. child \in N
    BY <1>5, MinOfNaturals
  <2>3. /\ frame.node = child /\ frame.next = 0
        /\ Len(<<frame>>) = 1 /\ <<frame>>[1] = frame /\ Last(<<frame>>) = frame /\ <<frame>> # <<>>
    BY DEF Last
  <2>4. /\ b.work = <<frame>> /\ b.index = t.index /\ b.low = t.low /\ b.counter = t.counter
        /\ b.stack = t.stack /\ b.found = t.found
    <3> HIDE DEF frame, b
    <3> QED
      BY <1>1, <2>1 DEF TarjanStates
  <2>5. a = t /\ Len(a.work) = 0
    BY <1>5, EnteredState
  <2> HIDE DEF frame, child, a, b, c
  <2>6. Stacks(a, c, child)
    BY <1>3, <2>3, <2>4, <2>5 DEF Stacks
  <2>7. /\ Moves(a, c) /\ Len(c.work) = Len(a.work) + 1
        /\ c.work[Len(a.work) + 1].node = child /\ c.work[Len(a.work) + 1].next = 0
    BY <1>2, <2>3, <2>4, <2>5 DEF Moves
  <2>8. Traced(adjacency, c) /\ Farther(adjacency, a, c)
    BY <1>2, <2>2, <2>5, <2>6, <2>7, PushTraces DEF a
  <2> QED
    BY <2>8 DEF a, b, c
<1>6. CASE t.work # <<>>
  <2>1. a = Enter(t, node) /\ Last(a.work).node = node /\ a.work # <<>>
    BY <1>2, <1>6 DEF Entered
  <2>2. /\ W \in Nat \ {0} /\ Last(t.work) = t.work[W] /\ Last(t.work) \in [node : N, next : Nat]
    BY <1>1, <1>6, LastAndFront
  <2>3. node \in N /\ next \in Nat /\ node = t.work[W].node /\ next = t.work[W].next
        /\ Len(adjacency[node]) \in Nat
    BY <2>2 DEF Arrows
  <2> HIDE DEF node, next, a
  <2>4. CASE next < Len(adjacency[node])
    <3> DEFINE child == adjacency[node][next + 1].key[1]
    <3>1. /\ next + 1 \in 1 .. Len(adjacency[node]) /\ child = Child(adjacency, node, next + 1)
          /\ next + 1 <= Len(adjacency[node])
      BY <2>3, <2>4 DEF Child
    <3>2. child \in N
      BY <2>3, <3>1 DEF Arrows
    <3>3. b = VisitChild(a, node, child)
      BY <1>6, <2>1, <2>4 DEF Advance, node, next
    <3> HIDE DEF child, b
    <3>4. /\ Moves(a, b)
          /\ child \notin DOMAIN a.index =>
               /\ b.index = a.index /\ b.low = a.low /\ b.counter = a.counter
               /\ b.stack = a.stack /\ b.found = a.found
               /\ Len(b.work) = W + 1 /\ b.work[W + 1] = [node |-> child, next |-> 0]
          /\ child \in DOMAIN a.index => Len(b.work) = W /\ Relinks(a, b, node, child)
      BY <1>2, <2>1, <3>2, <3>3, VisitIs
    <3> HIDE DEF W, c
    <3>5. CASE child \notin DOMAIN a.index
      <4>1. Last(b.work) = b.work[W + 1] /\ b.work # <<>>
        <5>1. Len(b.work) # 0
          BY <2>2, <3>4, <3>5
        <5> QED
          BY <3>4, <3>5, <5>1 DEF Last
      <4>2. Stacks(b, c, child)
        BY <1>3, <3>4, <3>5, <4>1
      <4>3. Stacks(a, c, child)
        BY <3>4, <3>5, <4>2 DEF Stacks
      <4>4. /\ Moves(a, c) /\ Len(c.work) = Len(a.work) + 1
            /\ c.work[Len(a.work) + 1].node = child /\ c.work[Len(a.work) + 1].next = 0
        BY <1>2, <3>4, <3>5 DEF Moves, W
      <4>5. Traced(adjacency, c) /\ Farther(adjacency, a, c)
        <5>1. Traced(adjacency, a)
          BY DEF a
        <5>2. /\ a.work[Len(a.work)].node = node /\ a.work[Len(a.work)].next = next
          BY <1>2, <2>3 DEF W
        <5> QED
          BY <1>2, <3>1, <3>2, <4>3, <4>4, <5>1, <5>2, PushTraces
      <4> QED
        BY <4>5 DEF a, b, c
    <3>6. CASE child \in DOMAIN a.index
      <4>1. /\ Last(b.work) = b.work[W] /\ b.work # <<>> /\ b.work[W].next = next + 1
            /\ next + 1 # 0
        <5>1. Len(b.work) = W /\ W # 0
          BY <2>2, <3>4, <3>6
        <5>2. b.work[W].next = a.work[W].next + 1
          BY <1>2, <3>4, <5>1 DEF Moves, W
        <5> QED
          BY <1>2, <2>3, <5>1, <5>2 DEF Last
      <4>2. c = b
        BY <1>3, <4>1
      <4>3. Traced(adjacency, a)
        BY DEF a
      <4>4. /\ a.work[Len(a.work)].node = node /\ a.work[Len(a.work)].next = next
            /\ Len(a.work) = W /\ W # 0
        BY <1>2, <2>2, <2>3 DEF W
      <4>5. Traced(adjacency, c) /\ Farther(adjacency, a, c)
        BY <1>2, <3>1, <3>4, <3>6, <4>2, <4>3, <4>4, FollowTraces
      <4> QED
        BY <4>5 DEF a, b, c
    <3> QED
      BY <3>5, <3>6
  <2>5. CASE ~(next < Len(adjacency[node]))
    <3>1. b = Leave(a, node)
      BY <1>6, <2>1, <2>5 DEF Advance, node, next
    <3>2. Traced(adjacency, a) /\ Numbers(a)
      BY DEF a, Traced
    <3> HIDE DEF b, W
    <3>3. Pops(a, b, node)
      BY <1>2, <2>1, <3>1, <3>2, LeaveIs
    <3>4. c = b
      <4>1. b.work # <<>> => Last(b.work).next # 0
        <5> SUFFICES ASSUME b.work # <<>> PROVE Last(b.work).next # 0
          OBVIOUS
        <5>1. Len(b.work) = W - 1 /\ \A i \in 1 .. W - 1 : b.work[i] = t.work[i]
          BY <1>2, <3>3 DEF Pops, W
        <5>2. b.work \in Seq([node : N, next : Nat])
          BY <1>2 DEF Sound, TarjanStates
        <5>3. Len(b.work) \in 1 .. Len(b.work) /\ Last(b.work) = b.work[Len(b.work)]
          <6>1. Len(b.work) \in Nat \ {0} /\ Last(b.work) = b.work[Len(b.work)]
            BY <5>2, LastAndFront
          <6> QED
            BY <6>1
        <5>4. Last(b.work) = t.work[W - 1] /\ W - 1 \in 1 .. W - 1
          BY <5>1, <5>3
        <5> QED
          BY <1>1, <5>4 DEF Left, W
      <4> QED
        BY <1>3, <4>1
    <3>5. /\ a.work[Len(a.work)].node = node /\ a.work[Len(a.work)].next = next
          /\ Len(a.work) # 0
      BY <1>2, <2>2, <2>3 DEF W
    <3>6. Traced(adjacency, c) /\ Farther(adjacency, a, c)
      BY <1>2, <2>5, <3>2, <3>3, <3>4, <3>5, PopTraces
    <3> QED
      BY <3>6 DEF a, b, c
  <2> QED
    BY <2>4, <2>5
<1> QED
  BY <1>4, <1>5, <1>6

\* What there is to do: each node is numbered and left, each edge followed.
Tokens(adjacency) ==
  {m \in (DOMAIN adjacency) \X Nat : m[2] <= Len(adjacency[m[1]]) + 1}
Ended(adjacency, t) == t.work = <<>> /\ DOMAIN adjacency \subseteq DOMAIN t.index

LEMMA TarjanTraces ==
  ASSUME NEW N \in SUBSET Nat, NEW adjacency, Arrows(adjacency), DOMAIN adjacency = N,
         IsFiniteSet(Tokens(adjacency)), NEW steps \in Nat
  PROVE  LET t == Tarjan(adjacency)[steps]
         IN  /\ t \in Sound(N) /\ Traced(adjacency, Entered(t))
             /\ Ended(adjacency, t) \/ steps <= Cardinality(Done(adjacency, Entered(t)))
<1> DEFINE run == Tarjan(adjacency)
<1>1. /\ run[0] = NotStarted
      /\ \A n \in Nat : run[n] \in Sound(N) /\ run[n + 1] = Advance(adjacency, run[n])
  BY TarjanRuns DEF Arrows, Child
<1> HIDE DEF run
<1>2. ASSUME NEW t \in Sound(N)
      PROVE  /\ IsFiniteSet(Done(adjacency, Entered(t)))
             /\ Cardinality(Done(adjacency, Entered(t))) \in Nat
  <2>1. DOMAIN Entered(t).index \in SUBSET N
    BY EnteredState, ReadyState
  <2>2. Done(adjacency, Entered(t)) \in SUBSET Tokens(adjacency)
    BY <2>1 DEF Done, Tokens
  <2> QED
    BY <2>2, FS_Subset, FS_CardinalityType
<1> DEFINE Holds(n) == /\ Traced(adjacency, Entered(run[n]))
                       /\ \/ Ended(adjacency, run[n])
                          \/ n <= Cardinality(Done(adjacency, Entered(run[n])))
           held == {n \in Nat : Holds(n)}
<1>3. 0 \in held
  <2>1. /\ NotStarted.work = <<>> /\ NotStarted.index = <<>> /\ NotStarted.low = <<>>
        /\ NotStarted.counter = 0 /\ NotStarted.stack = <<>> /\ NotStarted.found = <<>>
    BY DEF NotStarted
  <2>2. Entered(NotStarted) = NotStarted
    BY <2>1 DEF Entered
  <2>3. /\ \A i \in 1 .. Len(NotStarted.work) : FALSE
        /\ \A i \in 1 .. Len(NotStarted.stack) : FALSE
        /\ \A i \in 1 .. Len(NotStarted.found) : FALSE
        /\ DOMAIN NotStarted.index = {}
    BY <2>1
  <2>4. Open(NotStarted) = {}
    BY <2>3 DEF Open
  <2>5. Traced(adjacency, NotStarted)
    BY <2>3, <2>4 DEF Traced, Numbers, Frames, Links, Followed, Components
  <2>6. 0 <= Cardinality(Done(adjacency, NotStarted))
    BY <1>1, <1>2, <2>2
  <2> QED
    BY <1>1, <2>2, <2>5, <2>6
<1>4. ASSUME NEW n \in held PROVE n + 1 \in held
  <2> DEFINE t == run[n]
             b == run[n + 1]
  <2>1. /\ n \in Nat /\ n + 1 \in Nat /\ t \in Sound(N) /\ b \in Sound(N) /\ b = Advance(adjacency, t)
        /\ Traced(adjacency, Entered(t))
        /\ Ended(adjacency, t) \/ n <= Cardinality(Done(adjacency, Entered(t)))
    BY <1>1
  <2> HIDE DEF t, b
  <2>2. Ended(adjacency, t) => b = t
    <3> SUFFICES ASSUME Ended(adjacency, t) PROVE b = t
      OBVIOUS
    <3>1. t.work = <<>> /\ DOMAIN adjacency \ DOMAIN t.index = {}
      BY DEF Ended
    <3> QED
      BY <2>1, <3>1 DEF Advance
  <2>3. \/ t.work = <<>> /\ N \subseteq DOMAIN t.index /\ b = t
        \/ Traced(adjacency, Entered(b)) /\ Farther(adjacency, Entered(t), Entered(b))
    BY <2>1, AdvanceTraces
  <2>4. CASE Ended(adjacency, t)
    BY <2>1, <2>2, <2>4 DEF t, b
  <2>5. CASE ~Ended(adjacency, t)
    <3>1. Traced(adjacency, Entered(b)) /\ Farther(adjacency, Entered(t), Entered(b))
      BY <2>3, <2>5 DEF Ended
    <3> DEFINE A == Done(adjacency, Entered(t))
               B == Done(adjacency, Entered(b))
    <3>2. IsFiniteSet(B) /\ A \in SUBSET B /\ A # B /\ Cardinality(A) \in Nat /\ Cardinality(B) \in Nat
      BY <1>2, <2>1, <3>1 DEF Farther
    <3> HIDE DEF A, B
    <3>3. Cardinality(A) <= Cardinality(B) /\ Cardinality(A) # Cardinality(B)
      BY <3>2, FS_Subset
    <3>4. n <= Cardinality(A)
      BY <2>1, <2>5 DEF A
    <3>5. n + 1 <= Cardinality(B)
      BY <2>1, <3>2, <3>3, <3>4
    <3> QED
      BY <2>1, <3>1, <3>5 DEF b, B
  <2> QED
    BY <2>4, <2>5
<1> HIDE DEF Holds
<1>5. held = Nat
  <2>1. held \in SUBSET Nat
    OBVIOUS
  <2> HIDE DEF held
  <2> QED
    BY <1>3, <1>4, <2>1, Induction
<1>6. Holds(steps)
  BY <1>5
<1> QED
  BY <1>1, <1>6 DEF Holds, run

\* After as many steps as there is to do, the components are the classes of
\* the nodes that lead to each other.
LEMMA TarjanClasses ==
  ASSUME NEW N \in SUBSET Nat, NEW adjacency, Arrows(adjacency), DOMAIN adjacency = N,
         IsFiniteSet(Tokens(adjacency)), NEW steps \in Nat,
         Cardinality(Tokens(adjacency)) <= steps
  PROVE  LET found == Tarjan(adjacency)[steps].found
         IN  /\ found \in Seq(SUBSET N)
             /\ \A i \in 1 .. Len(found) : found[i] # {}
             /\ \A n \in N : \E i \in 1 .. Len(found) : n \in found[i]
             /\ \A i \in 1 .. Len(found) : \A a \in found[i], b \in N :
                  b \in found[i] <=> Leads(adjacency, a, b) /\ Leads(adjacency, b, a)
<1> DEFINE t == Tarjan(adjacency)[steps]
           e == Entered(t)
           found == t.found
<1>1. /\ t \in Sound(N) /\ Traced(adjacency, e)
      /\ Ended(adjacency, t) \/ steps <= Cardinality(Done(adjacency, e))
  BY TarjanTraces
<1> HIDE DEF t
<1>2. e \in Ready(N) /\ e.work = t.work /\ (t.work = <<>> => e = t)
  BY <1>1, EnteredState
<1>3. /\ Numbers(e) /\ Frames(adjacency, e) /\ Components(adjacency, e)
  BY <1>1 DEF Traced
<1>4. Ended(adjacency, t)
  <2> SUFFICES ASSUME ~Ended(adjacency, t) PROVE FALSE
    OBVIOUS
  <2>1. DOMAIN e.index \in SUBSET N
    BY <1>2, ReadyState
  <2>2. Done(adjacency, e) \in SUBSET Tokens(adjacency)
    BY <2>1 DEF Done, Tokens
  <2>3. /\ Cardinality(Tokens(adjacency)) \in Nat /\ Cardinality(Done(adjacency, e)) \in Nat
        /\ Cardinality(Done(adjacency, e)) <= Cardinality(Tokens(adjacency))
        /\ Cardinality(Tokens(adjacency)) = Cardinality(Done(adjacency, e)) =>
             Tokens(adjacency) = Done(adjacency, e)
    BY <2>2, FS_Subset, FS_CardinalityType
  <2>4. Tokens(adjacency) = Done(adjacency, e)
    BY <1>1, <2>3
  <2>5. ASSUME NEW n \in N
        PROVE  n \in DOMAIN e.index /\ Past(e, n, Len(adjacency[n]) + 1)
    <3> DEFINE m == <<n, Len(adjacency[n]) + 1>>
    <3>1. m[1] = n /\ m[2] = Len(adjacency[n]) + 1 /\ Len(adjacency[n]) \in Nat
      BY DEF Arrows
    <3> HIDE DEF m
    <3>2. m \in Tokens(adjacency)
      <4>1. Len(adjacency[n]) + 1 \in Nat /\ Len(adjacency[n]) + 1 <= Len(adjacency[n]) + 1
        BY <3>1
      <4>2. m \in (DOMAIN adjacency) \X Nat
        BY <4>1 DEF m
      <4> QED
        BY <3>1, <4>1, <4>2 DEF Tokens
    <3> QED
      BY <2>4, <3>1, <3>2 DEF Done
  <2>6. e.work # <<>>
    BY <1>2, <2>5 DEF Ended
  <2>7. 1 \in 1 .. Len(e.work)
    <3>1. e.work \in Seq([node : N, next : Nat])
      BY <1>2 DEF Ready, TarjanStates
    <3>2. Len(e.work) \in Nat \ {0}
      BY <2>6, <3>1, LastAndFront
    <3> QED
      BY <3>2
  <2> DEFINE n == e.work[1].node
             k == e.work[1].next
             l == Len(adjacency[n])
  <2>8. n \in N /\ k \in Nat /\ l \in Nat /\ k <= l
    BY <1>2, <1>3, <2>7, ReadyState DEF Arrows, Frames
  <2>9. l + 1 <= k
    BY <2>5, <2>7, <2>8 DEF Past
  <2> HIDE DEF n, k, l
  <2> QED
    BY <2>8, <2>9
<1>5. e = t /\ Len(t.work) = 0 /\ N \subseteq DOMAIN t.index
  BY <1>2, <1>4 DEF Ended
<1> HIDE DEF e
<1>6. Open(t) = {}
  <2>1. \A i \in 1 .. Len(t.work) : FALSE
    BY <1>5
  <2> QED
    BY <1>3, <1>5, <2>1 DEF Frames
<1>7. \A n \in N : n \in FoundBy(t, Len(found))
  BY <1>3, <1>5, <1>6 DEF Numbers
<1>8. /\ found \in Seq(SUBSET N) /\ Len(found) \in Nat
      /\ \A i \in 1 .. Len(found) : found[i] \in SUBSET N
      /\ \A i, j \in 1 .. Len(found) : i # j => found[i] \cap found[j] = {}
  <2>1. Apart(t) /\ t.found \in Seq(SUBSET N) /\ Len(t.found) \in Nat
    BY <1>1 DEF Sound, TarjanStates
  <2> QED
    BY <1>2, <1>5, <2>1, ReadyState DEF Apart
<1>9. \A i \in 1 .. Len(found) :
        /\ found[i] # {}
        /\ \A n \in found[i] : \A k \in 1 .. Len(adjacency[n]) : Child(adjacency, n, k) \in FoundBy(t, i)
        /\ \A a, b \in found[i] : Leads(adjacency, a, b)
  BY <1>3, <1>5 DEF Components
<1> HIDE DEF found
<1>10. ASSUME NEW i \in 1 .. Len(found), NEW a \in found[i], NEW b, Leads(adjacency, a, b)
       PROVE  \E j \in 1 .. i : b \in found[j]
  <2> DEFINE S == FoundBy(t, i)
  <2>1. \A j \in 1 .. i : j \in 1 .. Len(found)
    BY <1>8
  <2>2. S \in SUBSET N
    BY <1>8, <2>1 DEF FoundBy, found
  <2>3. Shut(adjacency, S)
    <3> SUFFICES ASSUME NEW j \in 1 .. i, NEW n \in found[j], NEW k \in 1 .. Len(adjacency[n])
                 PROVE  Child(adjacency, n, k) \in S
      BY DEF Shut, FoundBy, found
    <3>1. Child(adjacency, n, k) \in FoundBy(t, j)
      BY <1>9, <2>1
    <3>2. \A h \in 1 .. j : h \in 1 .. i
      BY <1>8
    <3> QED
      BY <3>1, <3>2 DEF FoundBy
  <2>4. a \in S
    <3>1. i \in 1 .. i
      BY <1>8
    <3> QED
      BY <3>1 DEF FoundBy, found
  <2> HIDE DEF S
  <2>5. b \in S
    BY <1>10, <2>2, <2>3, <2>4 DEF Leads
  <2> QED
    BY <2>5 DEF S, FoundBy, found
<1>11. ASSUME NEW i \in 1 .. Len(found), NEW a \in found[i], NEW b \in N,
              Leads(adjacency, a, b), Leads(adjacency, b, a)
       PROVE  b \in found[i]
  <2>1. PICK j \in 1 .. i : b \in found[j]
    BY <1>10, <1>11
  <2>2. j \in 1 .. Len(found) /\ j <= i
    BY <1>8
  <2>3. PICK h \in 1 .. j : a \in found[h]
    BY <1>10, <1>11, <2>1, <2>2
  <2>4. h \in 1 .. Len(found) /\ h <= j
    BY <1>8, <2>2
  <2>5. h = i
    BY <1>8, <2>3, <2>4
  <2>6. j = i
    BY <2>2, <2>4, <2>5
  <2> QED
    BY <2>1, <2>6
<1>12. \A n \in N : \E i \in 1 .. Len(found) : n \in found[i]
  BY <1>7 DEF FoundBy, found
<1> QED
  BY <1>8, <1>9, <1>11, <1>12 DEF found, t

-----------------------------------------------------------------------------
(* The classes of mutually dependent nodes.                                *)

LEMMA ReachedOn ==
  ASSUME NEW deps
  PROVE  /\ \A n \in Ends(deps) : n \in Reached(deps, n)
         /\ \A n : Reached(deps, n) \subseteq Ends(deps)
         /\ \A k, m, n : m \in Reached(deps, n) /\ k \in Reached(deps, m) => k \in Reached(deps, n)
         /\ \A n : \A e \in deps : e.source \in Reached(deps, n) => e.target \in Reached(deps, n)
         /\ \A s \in SUBSET Ends(deps) : \A n \in s :
              (\A e \in deps : e.source \in s => e.target \in s) => Reached(deps, n) \subseteq s
<1>1. \A e \in deps : e.source \in Ends(deps) /\ e.target \in Ends(deps)
  BY DEF Ends
<1>2. \A k, m, n : m \in Reached(deps, n) /\ k \in Reached(deps, m) => k \in Reached(deps, n)
  BY DEF Reached
<1>3. \A n : \A e \in deps : e.source \in Reached(deps, n) => e.target \in Reached(deps, n)
  BY <1>1 DEF Reached
<1> QED
  BY <1>2, <1>3 DEF Reached

LEMMA ClassOn ==
  ASSUME NEW deps, NEW n, NEW a \in ClassOf(deps, n), NEW b \in ClassOf(deps, n)
  PROVE  b \in Reached(deps, a) /\ ClassOf(deps, a) = ClassOf(deps, n)
<1>1. /\ a \in Reached(deps, n) /\ n \in Reached(deps, a)
      /\ b \in Reached(deps, n) /\ n \in Reached(deps, b)
  BY DEF ClassOf
<1>2. b \in Reached(deps, a)
  BY <1>1, ReachedOn
<1>3. \A m : m \in ClassOf(deps, a) <=> m \in ClassOf(deps, n)
  BY <1>1, ReachedOn DEF ClassOf
<1> QED
  BY <1>2, <1>3

\* No part of a class is shut off inside it.
LEMMA ClosedOff ==
  ASSUME NEW deps, NEW n, NEW a \in ClassOf(deps, n), NEW s, a \in s,
         \A e \in Inside(deps, ClassOf(deps, n)) : e.source \in s => e.target \in s
  PROVE  ClassOf(deps, n) \subseteq s
<1> DEFINE c == ClassOf(deps, n)
           R == Reached(deps, a)
           y == (R \ c) \cup (s \cap c)
<1>1. \A b \in c : b \in R /\ a \in Reached(deps, b)
  BY ClassOn
<1>2. c = ClassOf(deps, a)
  BY ClassOn
<1>3. ASSUME NEW e \in deps, e.source \in y PROVE e.target \in y
  <2>1. e.source \in R
    BY <1>1, <1>3
  <2>2. e.target \in R
    BY <2>1, ReachedOn
  <2>3. CASE e.target \notin c
    BY <2>2, <2>3
  <2>4. CASE e.target \in c
    <3>1. e.target \in Reached(deps, e.source)
      <4>1. e.source \in Ends(deps)
        BY DEF Ends
      <4> QED
        BY <4>1, ReachedOn
    <3>2. a \in Reached(deps, e.source)
      BY <1>1, <2>4, <3>1, ReachedOn
    <3>3. e.source \in c
      BY <1>2, <2>1, <3>2 DEF ClassOf
    <3>4. e.source \in s
      BY <1>3, <3>3
    <3> QED
      BY <2>4, <3>3, <3>4 DEF Inside
  <2> QED
    BY <2>3, <2>4
<1>4. y \in SUBSET Ends(deps) /\ a \in y
  BY <1>1, ReachedOn
<1> HIDE DEF y
<1>5. R \subseteq y
  BY <1>3, <1>4, ReachedOn
<1> QED
  BY <1>1, <1>5 DEF y

\* Only the edges between two ends that are both reached and left matter.
CyclicOf(deps) ==
  {e \in deps : e.source \in {f.target : f \in deps} /\ e.target \in {f.source : f \in deps}}

LEMMA InsideIsCyclic ==
  ASSUME NEW deps, NEW n
  PROVE  Inside(deps, ClassOf(deps, n)) = Inside(CyclicOf(deps), ClassOf(deps, n))
<1> DEFINE c == ClassOf(deps, n)
<1> SUFFICES ASSUME NEW e \in deps, e.source \in c, e.target \in c
             PROVE  e \in CyclicOf(deps)
  BY DEF Inside, CyclicOf
<1> DEFINE a == e.source
           b == e.target
<1>1. a \in Reached(deps, b) /\ a \in Ends(deps) /\ b \in Ends(deps)
  <2>1. a \in Reached(deps, b)
    BY ClassOn
  <2> QED
    BY <2>1 DEF Ends
<1>2. a \in {f.target : f \in deps}
  <2> SUFFICES ASSUME \A f \in deps : f.target # a PROVE FALSE
    OBVIOUS
  <2> DEFINE s == Ends(deps) \ {a}
  <2>1. \A f \in deps : f.target \in s
    BY DEF Ends
  <2>2. Reached(deps, b) \subseteq s
    <3>1. s \in SUBSET Ends(deps) /\ b \in s
      BY <2>1
    <3> HIDE DEF s, a, b
    <3> QED
      BY <2>1, <3>1, ReachedOn
  <2> QED
    BY <1>1, <2>2
<1>3. b \in {f.source : f \in deps}
  <2> SUFFICES ASSUME \A f \in deps : f.source # b PROVE FALSE
    OBVIOUS
  <2> DEFINE s == {b}
  <2>1. s \in SUBSET Ends(deps) /\ b \in s /\ \A f \in deps : f.source \in s => f.target \in s
    BY <1>1
  <2>2. Reached(deps, b) \subseteq s
    <3> HIDE DEF s, b
    <3> QED
      BY <2>1, ReachedOn
  <2> QED
    BY <1>1, <2>2
<1> QED
  BY <1>2, <1>3 DEF CyclicOf

LEMMA ClassInCyclic ==
  ASSUME NEW deps, NEW n
  PROVE  /\ n \in Ends(CyclicOf(deps)) =>
              n \in Ends(deps) /\ ClassOf(CyclicOf(deps), n) \subseteq ClassOf(deps, n)
         /\ n \in Ends(deps) /\ Inside(deps, ClassOf(deps, n)) # {} =>
              /\ n \in Ends(CyclicOf(deps))
              /\ ClassOf(CyclicOf(deps), n) = ClassOf(deps, n)
<1> DEFINE E == CyclicOf(deps)
           c == ClassOf(deps, n)
<1>1. E \subseteq deps /\ Ends(E) \subseteq Ends(deps)
      /\ \A e \in E : e.source \in Ends(E) /\ e.target \in Ends(E)
  BY DEF CyclicOf, Ends
<1> HIDE DEF E
<1>2. ASSUME NEW a \in Ends(E), NEW b \in Reached(E, a) PROVE b \in Reached(deps, a)
  <2>1. b \in Ends(deps)
    BY <1>1, ReachedOn
  <2>2. ASSUME NEW s \in SUBSET Ends(deps), a \in s, \A e \in deps : e.source \in s => e.target \in s
        PROVE  b \in s
    <3> DEFINE r == s \cap Ends(E)
    <3>1. r \in SUBSET Ends(E) /\ a \in r /\ \A e \in E : e.source \in r => e.target \in r
      BY <1>1, <2>2
    <3> HIDE DEF r
    <3>2. b \in r
      BY <3>1, ReachedOn
    <3> QED
      BY <3>2 DEF r
  <2> QED
    BY <2>1, <2>2 DEF Reached
<1>3. ASSUME n \in Ends(E) PROVE ClassOf(E, n) \subseteq c
  <2> SUFFICES ASSUME NEW m \in ClassOf(E, n) PROVE m \in c
    OBVIOUS
  <2>1. m \in Reached(E, n) /\ n \in Reached(E, m) /\ m \in Ends(E)
    BY ReachedOn DEF ClassOf
  <2> QED
    BY <1>2, <1>3, <2>1 DEF ClassOf
<1>4. ASSUME n \in Ends(deps), Inside(deps, c) # {} PROVE n \in Ends(E) /\ c \subseteq ClassOf(E, n)
  <2>1. n \in c
    BY <1>4, ReachedOn DEF ClassOf
  <2>2. PICK f \in Inside(deps, c) : TRUE
    BY <1>4
  <2>3. \A e \in Inside(deps, c) : e \in E
    BY InsideIsCyclic DEF Inside, E
  <2>4. ASSUME NEW m \in c PROVE m \in Ends(E)
    <3> SUFFICES ASSUME m \notin Ends(E) PROVE FALSE
      OBVIOUS
    <3> DEFINE s == {m}
    <3>1. \A e \in Inside(deps, c) : e.source \in s => e.target \in s
      BY <1>1, <2>3
    <3>2. m \in s
      OBVIOUS
    <3>3. c \subseteq s
      <4> HIDE DEF s
      <4> QED
        BY <3>1, <3>2, ClosedOff
    <3>4. f.source = m
      BY <2>2, <3>3 DEF Inside
    <3> QED
      BY <1>1, <2>2, <2>3, <3>4
  <2>5. ASSUME NEW a \in c, NEW b \in c PROVE b \in Reached(E, a)
    <3> SUFFICES ASSUME NEW s \in SUBSET Ends(E), a \in s,
                        \A e \in E : e.source \in s => e.target \in s
                 PROVE  b \in s
      BY <2>4 DEF Reached
    <3>1. c \subseteq s
      BY <2>3, ClosedOff
    <3> QED
      BY <3>1
  <2> QED
    BY <2>1, <2>4, <2>5 DEF ClassOf
<1> QED
  BY <1>1, <1>3, <1>4 DEF E

LEMMA CyclicClasses ==
  ASSUME NEW deps
  PROVE  /\ CycleClasses(CyclicOf(deps)) = CycleClasses(deps)
         /\ \A c \in CycleClasses(deps) : Inside(CyclicOf(deps), c) = Inside(deps, c)
<1> DEFINE E == CyclicOf(deps)
<1>1. ASSUME NEW n \in Ends(deps), Inside(deps, ClassOf(deps, n)) # {}
      PROVE  /\ n \in Ends(E) /\ ClassOf(E, n) = ClassOf(deps, n)
             /\ Inside(E, ClassOf(deps, n)) = Inside(deps, ClassOf(deps, n))
  BY <1>1, ClassInCyclic, InsideIsCyclic
<1>2. ASSUME NEW n \in Ends(E), Inside(E, ClassOf(E, n)) # {}
      PROVE  n \in Ends(deps) /\ Inside(deps, ClassOf(deps, n)) # {}
  <2>1. n \in Ends(deps) /\ ClassOf(E, n) \subseteq ClassOf(deps, n)
    BY ClassInCyclic
  <2>2. E \subseteq deps
    BY DEF CyclicOf
  <2> QED
    BY <1>2, <2>1, <2>2 DEF Inside
<1> HIDE DEF E
<1>3. \A c : c \in CycleClasses(E) => c \in CycleClasses(deps)
  BY <1>1, <1>2 DEF CycleClasses
<1>4. \A c \in CycleClasses(deps) : c \in CycleClasses(E) /\ Inside(E, c) = Inside(deps, c)
  BY <1>1 DEF CycleClasses
<1> QED
  BY <1>3, <1>4 DEF E

LEMMA EndsFinite ==
  ASSUME NEW edges, IsFiniteSet(edges)
  PROVE  IsFiniteSet(Ends(edges)) /\ Cardinality(Ends(edges)) \in Nat /\ Cardinality(edges) \in Nat
<1> DEFINE sources == {e.source : e \in edges}
           targets == {e.target : e \in edges}
           f == [e \in edges |-> e.source]
           h == [e \in edges |-> e.target]
<1>1. /\ f \in [edges -> sources] /\ \A s \in sources : \E e \in edges : f[e] = s
      /\ h \in [edges -> targets] /\ \A s \in targets : \E e \in edges : h[e] = s
  OBVIOUS
<1>2. Ends(edges) = sources \cup targets
  BY DEF Ends
<1> HIDE DEF f, h, sources, targets
<1>3. IsFiniteSet(sources) /\ IsFiniteSet(targets)
  BY <1>1, FiniteImage
<1>4. IsFiniteSet(sources \cup targets)
  BY <1>3, FS_Union
<1> QED
  BY <1>2, <1>4, FS_CardinalityType

\* Each step of a run does one of these.
LEMMA TokensBounded ==
  ASSUME NEW edges \in SUBSET Edge, IsFiniteSet(edges)
  PROVE  /\ IsFiniteSet(Tokens(BuildAdjacency(edges)))
         /\ Cardinality(Tokens(BuildAdjacency(edges)))
              <= 2 * Cardinality(Ends(edges)) + Cardinality(edges)
<1> DEFINE adjacency == BuildAdjacency(edges)
           N == Ends(edges)
           all == Tokens(adjacency)
           first == {m \in all : m[2] = 0}
           last == {m \in all : m[2] = Len(adjacency[m[1]]) + 1}
           inner == {m \in all : m[2] \in 1 .. Len(adjacency[m[1]])}
<1>1. /\ DOMAIN adjacency = N /\ IsFiniteSet(N) /\ Cardinality(N) \in Nat /\ Cardinality(edges) \in Nat
      /\ \A n \in N : Len(adjacency[n]) \in Nat
      /\ \A n \in N : \A k \in 1 .. Len(adjacency[n]) :
           \E e \in edges : e.source = n /\ adjacency[n][k] = RowOf(e)
      /\ \A n \in N : \A k, l \in 1 .. Len(adjacency[n]) : adjacency[n][k] = adjacency[n][l] => k = l
  BY AdjacentRows, EndsFinite
<1> HIDE DEF adjacency, N
<1>2. all = (first \cup last) \cup inner
  <2>1. \A m \in all : m[1] \in N /\ m[2] \in Nat /\ m[2] <= Len(adjacency[m[1]]) + 1
    BY <1>1 DEF Tokens
  <2>2. ASSUME NEW m \in all
        PROVE  m[2] = 0 \/ m[2] = Len(adjacency[m[1]]) + 1 \/ m[2] \in 1 .. Len(adjacency[m[1]])
    <3>1. m[2] \in Nat /\ m[2] <= Len(adjacency[m[1]]) + 1 /\ Len(adjacency[m[1]]) \in Nat
      BY <1>1, <2>1
    <3> QED
      BY <3>1
  <2> HIDE DEF all
  <2> QED
    BY <2>2
<1>3. ASSUME NEW part \in {first, last}
      PROVE  IsFiniteSet(part) /\ Cardinality(part) <= Cardinality(N)
  <2> DEFINE f == [m \in part |-> m[1]]
  <2>1. \A m \in part : m \in N \X Nat
    BY <1>1 DEF Tokens
  <2>2. \A m, l \in part : m[1] = l[1] => m[2] = l[2]
    OBVIOUS
  <2> HIDE DEF first, last
  <2>3. f \in Injection(part, N)
    <3>1. \A m, l \in part : m[1] = l[1] => m = l
      BY <2>1, <2>2
    <3> QED
      BY <2>1, <3>1 DEF Injection, IsInjective
  <2> HIDE DEF f
  <2> QED
    BY <1>1, <2>3, FS_Injection
<1>4. IsFiniteSet(inner) /\ Cardinality(inner) <= Cardinality(edges)
  <2> DEFINE Of(m) == CHOOSE e \in edges : e.source = m[1] /\ adjacency[m[1]][m[2]] = RowOf(e)
             f == [m \in inner |-> Of(m)]
  <2>1. \A m \in inner : m \in N \X Nat /\ m[2] \in 1 .. Len(adjacency[m[1]])
    BY <1>1 DEF Tokens
  <2>2. ASSUME NEW m \in inner
        PROVE  Of(m) \in edges /\ Of(m).source = m[1] /\ adjacency[m[1]][m[2]] = RowOf(Of(m))
    <3>1. \E e \in edges : e.source = m[1] /\ adjacency[m[1]][m[2]] = RowOf(e)
      BY <1>1, <2>1
    <3> QED
      BY <3>1
  <2> HIDE DEF Of, inner
  <2>3. ASSUME NEW m \in inner, NEW l \in inner, Of(m) = Of(l) PROVE m = l
    <3>1. m[1] = l[1] /\ m[1] \in N
      BY <2>1, <2>2, <2>3
    <3>2. m[2] = l[2]
      BY <1>1, <2>1, <2>2, <2>3, <3>1
    <3> QED
      BY <2>1, <3>1, <3>2
  <2>4. f \in Injection(inner, edges)
    BY <2>2, <2>3 DEF Injection, IsInjective
  <2> HIDE DEF f
  <2> QED
    BY <2>4, FS_Injection
<1> HIDE DEF first, last, inner, all
<1>5. /\ IsFiniteSet(first) /\ Cardinality(first) <= Cardinality(N)
      /\ IsFiniteSet(last) /\ Cardinality(last) <= Cardinality(N)
  BY <1>3
<1>6. ASSUME NEW a, NEW b, IsFiniteSet(a), IsFiniteSet(b)
      PROVE  /\ IsFiniteSet(a \cup b) /\ Cardinality(a) \in Nat /\ Cardinality(b) \in Nat
             /\ Cardinality(a \cup b) \in Nat /\ Cardinality(a \cup b) <= Cardinality(a) + Cardinality(b)
  <2>1. /\ IsFiniteSet(a \cup b)
        /\ Cardinality(a \cup b) = Cardinality(a) + Cardinality(b) - Cardinality(a \cap b)
    BY <1>6, FS_Union
  <2>2. IsFiniteSet(a \cap b)
    BY <1>6, FS_Subset
  <2>3. /\ Cardinality(a) \in Nat /\ Cardinality(b) \in Nat /\ Cardinality(a \cap b) \in Nat
        /\ Cardinality(a \cup b) \in Nat
    BY <1>6, <2>1, <2>2, FS_CardinalityType
  <2> QED
    BY <2>1, <2>3
<1> DEFINE u == first \cup last
<1>7. /\ IsFiniteSet(u) /\ Cardinality(u) \in Nat /\ Cardinality(first) \in Nat /\ Cardinality(last) \in Nat
      /\ Cardinality(u) <= Cardinality(first) + Cardinality(last)
  BY <1>5, <1>6
<1> HIDE DEF u
<1>8. /\ IsFiniteSet(all) /\ Cardinality(inner) \in Nat /\ Cardinality(all) \in Nat
      /\ Cardinality(all) <= Cardinality(u) + Cardinality(inner)
  BY <1>2, <1>4, <1>6, <1>7 DEF u
<1>9. Cardinality(all) <= 2 * Cardinality(N) + Cardinality(edges)
  BY <1>1, <1>4, <1>5, <1>7, <1>8
<1> QED
  BY <1>8, <1>9 DEF all, adjacency, N

\* A node leads to those it reaches.
LEMMA LeadsIsReached ==
  ASSUME NEW edges \in SUBSET Edge, IsFiniteSet(edges)
  PROVE  /\ Arrows(BuildAdjacency(edges))
         /\ \A a, b \in Ends(edges) : Leads(BuildAdjacency(edges), a, b) <=> b \in Reached(edges, a)
<1> DEFINE adjacency == BuildAdjacency(edges)
           N == Ends(edges)
<1>1. /\ N \in SUBSET Nat /\ DOMAIN adjacency = N
      /\ \A e \in edges : RowOf(e).key[1] = e.target /\ e.source \in N /\ e.target \in N
      /\ \A n \in N : Len(adjacency[n]) \in Nat
      /\ \A n \in N : \A k \in 1 .. Len(adjacency[n]) :
           \E e \in edges : e.source = n /\ adjacency[n][k] = RowOf(e)
      /\ \A n \in N : \A e \in edges : e.source = n =>
           \E k \in 1 .. Len(adjacency[n]) : adjacency[n][k] = RowOf(e)
  BY AdjacentRows DEF Ends
<1> HIDE DEF adjacency
<1>2. ASSUME NEW n \in N, NEW k \in 1 .. Len(adjacency[n])
      PROVE  \E e \in edges : e.source = n /\ Child(adjacency, n, k) = e.target
  BY <1>1 DEF Child
<1>3. ASSUME NEW e \in edges
      PROVE  \E k \in 1 .. Len(adjacency[e.source]) : Child(adjacency, e.source, k) = e.target
  <2>1. PICK k \in 1 .. Len(adjacency[e.source]) : adjacency[e.source][k] = RowOf(e)
    BY <1>1
  <2>2. RowOf(e).key[1] = e.target
    BY <1>1
  <2> QED
    BY <2>1, <2>2 DEF Child
<1> HIDE DEF N
<1>4. Arrows(adjacency)
  BY <1>1, <1>2 DEF Arrows
<1>5. ASSUME NEW s \in SUBSET N
      PROVE  Shut(adjacency, s) <=> \A e \in edges : e.source \in s => e.target \in s
  BY <1>2, <1>3 DEF Shut
<1>6. \A a, b \in N : Leads(adjacency, a, b) <=> b \in Reached(edges, a)
  BY <1>1, <1>5 DEF Leads, Reached, N
<1> QED
  BY <1>4, <1>6 DEF adjacency, N

CycleOf(edges, c) ==
  [id |-> Min(c), members |-> FirstOf(Sorted(c), MemberCap), length |-> Cardinality(c),
   candidate |-> \E e \in Inside(edges, c) : e.certainty = "inferred",
   truncated |-> Cardinality(c) > MemberCap]

\* For any finite set of edges: after as many steps as there are nodes to enter and
\* leave and edges to follow, the components Tarjan's algorithm has found that have an
\* edge inside are the classes of mutually reachable nodes that have one (findCycles,
\* tarjan).
THEOREM CyclesFound ==
  ASSUME NEW edges \in SUBSET Edge, IsFiniteSet(edges)
  PROVE  FindCycles(edges) = {CycleOf(edges, c) : c \in CycleClasses(edges)}
<1> DEFINE N == Ends(edges)
           steps == 2 * Cardinality(Ends(edges)) + Cardinality(edges)
           adjacency == BuildAdjacency(edges)
           found == Tarjan(adjacency)[steps].found
           components == ToSet(found)
           cyclic == {d \in components : Cardinality(d) > 1 \/ Inside(edges, d) # {}}
<1>1. FindCycles(edges) = {CycleOf(edges, c) : c \in cyclic}
  BY DEF FindCycles, Inside, CycleOf
<1>2. N \in SUBSET Nat /\ DOMAIN adjacency = N /\ IsFiniteSet(N) /\ steps \in Nat
  <2>1. /\ N \in SUBSET Nat /\ DOMAIN adjacency = N /\ IsFiniteSet(N)
        /\ Cardinality(N) \in Nat /\ Cardinality(edges) \in Nat
    BY AdjacentRows, EndsFinite
  <2> QED
    BY <2>1
<1>3. /\ IsFiniteSet(Tokens(adjacency)) /\ Cardinality(Tokens(adjacency)) <= steps
      /\ Arrows(adjacency)
      /\ \A a, b \in N : Leads(adjacency, a, b) <=> b \in Reached(edges, a)
  BY TokensBounded, LeadsIsReached
<1> HIDE DEF steps, adjacency, N
<1>4. /\ found \in Seq(SUBSET N)
      /\ \A i \in 1 .. Len(found) : found[i] # {}
      /\ \A n \in N : \E i \in 1 .. Len(found) : n \in found[i]
      /\ \A i \in 1 .. Len(found) : \A a \in found[i], b \in N :
           b \in found[i] <=> Leads(adjacency, a, b) /\ Leads(adjacency, b, a)
  BY <1>2, <1>3, TarjanClasses
<1> HIDE DEF found
<1>5. /\ \A d \in components : \E i \in 1 .. Len(found) : d = found[i]
      /\ \A i \in 1 .. Len(found) : found[i] \in components /\ found[i] \in SUBSET N
  BY <1>4 DEF ToSet
<1>6. ASSUME NEW i \in 1 .. Len(found), NEW n \in found[i]
      PROVE  n \in N /\ found[i] = ClassOf(edges, n)
  <2>1. n \in N /\ found[i] \in SUBSET N
    BY <1>5
  <2>2. \A m \in N : m \in found[i] <=> m \in Reached(edges, n) /\ n \in Reached(edges, m)
    BY <1>3, <1>4, <2>1
  <2>3. \A m \in Reached(edges, n) : m \in N
    BY ReachedOn DEF N
  <2> QED
    BY <2>1, <2>2, <2>3 DEF ClassOf
<1> HIDE DEF components
<1>7. ASSUME NEW d \in cyclic PROVE d \in CycleClasses(edges)
  <2>1. PICK i \in 1 .. Len(found) : d = found[i]
    BY <1>5
  <2>2. PICK n \in d : TRUE
    BY <1>4, <2>1
  <2>3. n \in N /\ d = ClassOf(edges, n)
    BY <1>6, <2>1, <2>2
  <2>4. Inside(edges, d) # {}
    <3> SUFFICES ASSUME Inside(edges, d) = {} PROVE FALSE
      OBVIOUS
    <3> DEFINE s == {n}
    <3>1. n \in ClassOf(edges, n) /\ n \in s
      BY <2>2, <2>3
    <3>2. \A e \in Inside(edges, ClassOf(edges, n)) : e.source \in s => e.target \in s
      BY <2>3
    <3>3. d \in SUBSET s
      <4> HIDE DEF s
      <4> QED
        BY <2>3, <3>1, <3>2, ClosedOff
    <3>4. IsFiniteSet(s) /\ Cardinality(s) = 1
      BY FS_Singleton
    <3>5. Cardinality(d) <= 1 /\ Cardinality(d) \in Nat
      <4> HIDE DEF s
      <4>1. IsFiniteSet(d) /\ Cardinality(d) <= 1
        BY <3>3, <3>4, FS_Subset
      <4> QED
        BY <4>1, FS_CardinalityType
    <3>6. Cardinality(d) > 1
      OBVIOUS
    <3> QED
      BY <3>5, <3>6
  <2> QED
    BY <2>3, <2>4 DEF CycleClasses, N
<1>8. ASSUME NEW c \in CycleClasses(edges) PROVE c \in cyclic
  <2>1. PICK n \in N : c = ClassOf(edges, n) /\ Inside(edges, c) # {}
    BY DEF CycleClasses, N
  <2>2. PICK i \in 1 .. Len(found) : n \in found[i]
    BY <1>4
  <2>3. c = found[i]
    BY <1>6, <2>1, <2>2
  <2> QED
    BY <1>5, <2>1, <2>3
<1> HIDE DEF cyclic
<1>9. cyclic = CycleClasses(edges)
  BY <1>7, <1>8
<1> QED
  BY <1>1, <1>9

\* Of a graph, they are the classes of all its dependencies.
LEMMA CyclesOfGraph ==
  ASSUME NEW g, IsFiniteSet(Dependencies(g)), Dependencies(g) \in SUBSET Edge
  PROVE  FindCycles(CyclicDependencyEdges(g))
           = {CycleOf(Dependencies(g), c) : c \in CycleClasses(Dependencies(g))}
<1> DEFINE deps == Dependencies(g)
           E == CyclicDependencyEdges(g)
<1>1. E = CyclicOf(deps) /\ E \in SUBSET deps
  BY DEF CyclicDependencyEdges, CyclicOf
<1> HIDE DEF deps, E
<1>2. IsFiniteSet(E) /\ E \in SUBSET Edge
  BY <1>1, FS_Subset DEF deps
<1>3. FindCycles(E) = {CycleOf(E, c) : c \in CycleClasses(E)}
  BY <1>2, CyclesFound
<1>4. CycleClasses(E) = CycleClasses(deps) /\ \A c \in CycleClasses(deps) : Inside(E, c) = Inside(deps, c)
  BY <1>1, CyclicClasses
<1>5. \A c \in CycleClasses(deps) : CycleOf(E, c) = CycleOf(deps, c)
  BY <1>4 DEF CycleOf
<1>6. {CycleOf(E, c) : c \in CycleClasses(E)} = {CycleOf(deps, c) : c \in CycleClasses(deps)}
  BY <1>4, <1>5
<1> QED
  BY <1>3, <1>6 DEF deps, E

-----------------------------------------------------------------------------
(* Cycles, from the drained edges to the pages.                            *)

\* A drained list, as far as it is read.
Drained(read, all) ==
  /\ Len(read.shown) <= Len(all)
  /\ \A k \in 1 .. Len(read.shown) : read.shown[k] = all[k]
  /\ read.at = "rows" =>
       read.cursor = IF Len(read.shown) = 0 THEN <<>> ELSE all[Len(read.shown)].key
  /\ read.at = "done" => Len(read.shown) = Len(all)
CycleItems(g) == {[key |-> <<c.id>>, item |-> c] : c \in FindCycles(CyclicDependencyEdges(g))}
Cycles(rs, ps, g, q) ==
  /\ rs # <<>> => Drained(rs["cyclic"], ByKey(ListRows(g, "cyclic", q)))
  /\ \A i \in 1 .. Len(ps) :
       PageOf(ps[i].items, ps[i].next, CycleItems(g), Prev(ps, i), q.limit)
  /\ ps # <<>> => ps[1].total = Cardinality(CycleItems(g))
CycleInv ==
  ~Idle /\ request[1].view = "cycles" /\ Undisturbed => Cycles(reads, pages, stored, request[1])

LEMMA Concatenates ==
  ASSUME NEW S, NEW s \in Seq(S), NEW t \in Seq(S)
  PROVE  /\ Len(s \o t) = Len(s) + Len(t)
         /\ \A k \in 1 .. Len(s \o t) : (s \o t)[k] = IF k <= Len(s) THEN s[k] ELSE t[k - Len(s)]
OBVIOUS

LEMMA CyclicRows ==
  ASSUME NEW g, StoredGraph(g), NEW q \in Requests
  PROVE  /\ Keyed(ListRows(g, "cyclic", q), KeyLength("cyclic"))
         /\ KeyLength("cyclic") \in Nat \ {0}
         /\ {r.item : r \in ListRows(g, "cyclic", q)} = CyclicDependencyEdges(g)
<1> DEFINE E == CyclicDependencyEdges(g)
           set == ListRows(g, "cyclic", q)
<1>1. set = {[key |-> EdgeKey(e), item |-> e] : e \in E}
  BY DEF ListRows
<1>2. \A e \in E : \E r \in set : r.item = e
  <2> TAKE e \in E
  <2> DEFINE r == [key |-> EdgeKey(e), item |-> e]
  <2>1. r \in set /\ r.item = e
    BY <1>1
  <2> QED
    BY <2>1
<1>3. \A r \in set : r.item \in E
  BY <1>1
<1>4. Keyed(set, KeyLength("cyclic"))
  BY ListsKeyed DEF ListNames
<1> HIDE DEF set, E
<1>5. {r.item : r \in set} = E
  BY <1>2, <1>3
<1> QED
  BY <1>4, <1>5 DEF set, E, Keyed

\* A page more of a drained list.
LEMMA FetchDrains ==
  ASSUME ServeInv, request[1].view = "cycles", NEW list \in DOMAIN reads, FetchRows(list),
         Drained(reads["cyclic"], ByKey(ListRows(stored, "cyclic", request[1])))
  PROVE  Drained(reads'["cyclic"], ByKey(ListRows(stored, "cyclic", request[1])))
<1> DEFINE q == request[1]
           set == ListRows(stored, "cyclic", q)
           all == ByKey(set)
           r == reads["cyclic"]
           m == Len(r.shown)
           limit == PageLimit
           rows == FirstOf(ByKey(After(set, r.cursor)), limit + 1)
           page == BuildPage(rows, limit)
           next == reads'["cyclic"]
           KL == KeyLength("cyclic")
<1>1. /\ q \in Requests /\ StoredGraph(stored) /\ list \in Lists(q)
      /\ ReadIs(list, reads[list], q, head, ClientCursor, versions, stored)
  BY WhileReading DEF ReadsInv
<1>2. list = "cyclic" /\ DOMAIN r = Fields /\ Listy(r.shown)
  BY <1>1, ListsOf DEF ReadIs
<1>3. r.at = "rows"
  BY <1>2 DEF FetchRows
<1>4. \E t : next = Paged("cyclic", [r EXCEPT !.truncated = t], rows)
  <2> DEFINE t == /\ list = "blastRadius" /\ rows # <<>>
                  /\ BlastTruncated({x.item : x \in ListRows(stored, list, q)}, q.depth)
  <2>1. "cyclic" \notin Hydrates /\ LimitOf(q, "cyclic") = limit
    BY DEF Hydrates, LimitOf
  <2>2. next = Paged("cyclic", [r EXCEPT !.truncated = t], rows)
    BY <1>2, <2>1 DEF FetchRows, Become
  <2> QED
    BY <2>2
<1> HIDE DEF r
<1>5. /\ next.shown = r.shown \o page.items /\ next.cursor = page.next
      /\ next.at = IF page.next # <<>> THEN "rows" ELSE "done"
  <2>1. PICK t : next = Paged("cyclic", [r EXCEPT !.truncated = t], rows)
    BY <1>4
  <2> DEFINE read == [r EXCEPT !.truncated = t]
  <2>2. read.shown = r.shown /\ DOMAIN read = Fields
    BY <1>2 DEF Fields
  <2>3. LimitOf(request[1], "cyclic") = limit
    BY DEF LimitOf
  <2> HIDE DEF read, rows, limit
  <2> DEFINE p == BuildPage(rows, limit)
             Drain == Drains("cyclic", p, Len(read.shown \o p.items))
  <2>4. next = [read EXCEPT !.rows = <<>>, !.shown = read.shown \o p.items, !.cursor = p.next,
                           !.at = IF Drain THEN "rows" ELSE "done"]
    BY <2>1, <2>3 DEF Paged, read
  <2>5. Drain <=> p.next # <<>>
    BY DEF Drains
  <2> HIDE DEF next, p, Drain
  <2>6. /\ next.shown = read.shown \o p.items /\ next.cursor = p.next
        /\ next.at = IF Drain THEN "rows" ELSE "done"
    BY <2>2, <2>4 DEF Fields
  <2> QED
    BY <2>2, <2>5, <2>6 DEF p
<1>6. Keyed(set, KL) /\ KL \in Nat \ {0}
  BY <1>1, CyclicRows
<1>7. /\ m \in Nat /\ DOMAIN r.shown = 1 .. m /\ m <= Len(all)
      /\ \A k \in 1 .. m : r.shown[k] = all[k]
      /\ r.cursor = IF m = 0 THEN <<>> ELSE all[m].key
  BY <1>2, <1>3, ListyFacts DEF Drained, r
<1>8. limit \in Nat \ {0}
  BY LimitsAssumption
<1> HIDE DEF set, limit, next, KL
<1>9. /\ Len(all) \in Nat
      /\ \A k \in 1 .. Len(all) : all[k] \in set
      /\ \A k \in 1 .. Len(all) : all[k].key # <<>>
  <2>1. Len(all) \in Nat /\ \A k \in 1 .. Len(all) : all[k] \in set
    BY <1>6, ByKeyLists
  <2>2. \A x \in set : x.key # <<>>
    BY <1>6, KeyNotEmpty DEF Keyed
  <2> QED
    BY <2>1, <2>2
<1>10. /\ PageOf(page.items, page.next, set, r.cursor, limit)
       /\ page.items \in Seq(set)
  <2> DEFINE whole == ByKey(After(set, r.cursor))
  <2>1. whole \in Seq(set)
    BY <1>6, ListAfter
  <2> HIDE DEF whole
  <2>2. rows \in Seq(set)
    BY <1>8, <2>1, FirstOfProperties DEF whole
  <2>3. \A k \in 1 .. Len(rows) : Is(rows[k], rows[k])
    BY DEF Is
  <2> QED
    BY <1>6, <1>8, <2>2, <2>3, PageOfFetched
<1> DEFINE items == page.items
           after == page.next
<1> HIDE DEF page
<1>11. Exact(items, after, all, m, limit)
  <2> DEFINE cursor == r.cursor
  <2>1. PageOf(items, after, set, cursor, limit) /\ cursor = IF m = 0 THEN <<>> ELSE ByKey(set)[m].key
    BY <1>7, <1>10
  <2>2. m \in Nat /\ m <= Len(ByKey(set))
    BY <1>7
  <2> HIDE DEF cursor, items, after, m, all
  <2>3. Exact(items, after, ByKey(set), m, limit)
    BY <1>6, <1>8, <2>1, <2>2, PageExact
  <2> QED
    BY <2>3 DEF all
<1> HIDE DEF all
<1>12. /\ items \in Seq(set) /\ Len(items) \in Nat
       /\ Len(items) = IF limit <= Len(all) - m THEN limit ELSE Len(all) - m
       /\ \A k \in 1 .. Len(items) : Is(items[k], all[m + k]) /\ items[k] \in set
       /\ after = IF Len(all) - m <= limit THEN <<>> ELSE all[m + limit].key
  BY <1>10, <1>11 DEF Exact
<1> HIDE DEF items, after
<1>13. \A k \in 1 .. Len(items) : items[k] = all[m + k]
  <2> TAKE k \in 1 .. Len(items)
  <2>1. m + k \in 1 .. Len(all)
    BY <1>7, <1>8, <1>9, <1>12
  <2>2. all[m + k] \in set /\ items[k] \in set /\ items[k].key = all[m + k].key
    BY <1>9, <1>12, <2>1 DEF Is
  <2> QED
    BY <1>6, <2>2 DEF Keyed
<1>14. r.shown \in Seq(set)
  <2> DEFINE s == r.shown
  <2>1. s \in Seq({s[k] : k \in 1 .. Len(s)})
    BY <1>2 DEF Listy
  <2>2. \A k \in 1 .. Len(s) : s[k] \in set
    <3> TAKE k \in 1 .. Len(s)
    <3>1. k \in 1 .. Len(all)
      BY <1>7, <1>9
    <3> QED
      BY <1>7, <1>9, <3>1
  <2> HIDE DEF s
  <2>3. s \in Seq(set)
    BY <2>1, <2>2
  <2> QED
    BY <2>3 DEF s
<1> DEFINE shown == next.shown
<1>15. /\ Len(shown) = m + Len(items)
       /\ \A k \in 1 .. Len(shown) : shown[k] = IF k <= m THEN r.shown[k] ELSE items[k - m]
  <2>1. shown = r.shown \o items
    BY <1>5 DEF items
  <2> HIDE DEF shown
  <2> QED
    BY <1>12, <1>14, <2>1, Concatenates
<1> HIDE DEF shown
<1> DEFINE L == Len(all)
           I == Len(items)
<1>16. /\ m \in Nat /\ L \in Nat /\ m <= L /\ limit \in Nat /\ I \in Nat
        /\ I = IF limit <= L - m THEN limit ELSE L - m
  BY <1>7, <1>8, <1>9, <1>12
<1>17. Len(shown) = m + I
  BY <1>15
<1> HIDE DEF L, I, m
<1>18. Len(shown) <= Len(all) /\ Len(shown) \in Nat
  <2>1. m + I <= L /\ m + I \in Nat
    BY <1>16
  <2> QED
    BY <1>17, <2>1 DEF L
<1> USE DEF m
<1>19. \A k \in 1 .. Len(shown) : shown[k] = all[k]
  <2> TAKE k \in 1 .. Len(shown)
  <2>1. CASE k <= m
    <3>1. k \in 1 .. m
      BY <1>7, <1>18, <2>1
    <3> QED
      BY <1>7, <1>15, <2>1, <3>1
  <2>2. CASE ~(k <= m)
    <3>1. k - m \in 1 .. Len(items) /\ m + (k - m) = k
      BY <1>7, <1>12, <1>15, <2>2
    <3>2. items[k - m] = all[m + (k - m)]
      BY <1>13, <3>1
    <3>3. shown[k] = items[k - m]
      BY <1>15, <2>2
    <3> QED
      BY <3>1, <3>2, <3>3
  <2> QED
    BY <2>1, <2>2
<1>20. CASE Len(all) - m <= limit
  <2>1. after = <<>> /\ Len(items) = Len(all) - m
    <3>1. after = <<>>
      BY <1>12, <1>20
    <3>2. I = L - m
      <4>1. L - m <= limit
        BY <1>20 DEF L
      <4> HIDE DEF m
      <4> QED
        BY <1>16, <4>1
    <3> QED
      BY <3>1, <3>2 DEF I, L
  <2>2. next.at = "done" /\ Len(shown) = Len(all)
    <3>1. next.at = "done"
      BY <1>5, <2>1 DEF after
    <3> QED
      BY <1>7, <1>9, <1>15, <2>1, <3>1
  <2> QED
    BY <1>18, <1>19, <2>2 DEF Drained, shown, next, all, set, q
<1>21. CASE ~(Len(all) - m <= limit)
  <2>1. after = all[m + limit].key /\ Len(items) = limit
    BY <1>7, <1>8, <1>9, <1>12, <1>21
  <2>2. m + limit \in 1 .. Len(all) /\ m + limit # 0
    BY <1>7, <1>8, <1>9, <1>21
  <2>3. after # <<>>
    BY <1>9, <2>1, <2>2
  <2>4. next.at = "rows" /\ next.cursor = after
    BY <1>5, <2>3 DEF after
  <2>5. Len(shown) = m + limit
    BY <1>15, <2>1
  <2>6. next.cursor = IF Len(shown) = 0 THEN <<>> ELSE all[Len(shown)].key
    BY <2>1, <2>2, <2>4, <2>5
  <2> QED
    BY <1>18, <1>19, <2>4, <2>6 DEF Drained, shown, next, all, set, q
<1> QED
  BY <1>20, <1>21

\* What was drained is found again, and a page of it answered.
LEMMA RespondCycles ==
  ASSUME ServeInv, request[1].view = "cycles", Respond,
         Cycles(reads, pages, stored, request[1])
  PROVE  Cycles(reads', pages', stored, request[1])
<1> DEFINE q == request[1]
           set == ListRows(stored, "cyclic", q)
           all == ByKey(set)
           only == reads["cyclic"]
           shown == only.shown
           edges == {r.item : r \in ToSet(shown)}
           rows == {[key |-> <<c.id>>, item |-> c] : c \in FindCycles(edges)}
           cursor == ClientCursor
           page == BuildPage(ByKey(After(rows, cursor)), q.limit)
           ps == pages'
<1>1. ~Idle /\ reads # <<>> /\ reads' = <<>>
  BY DEF Respond
<1>2. q \in Requests /\ Valid(q) /\ StoredGraph(stored) /\ Listy(pages)
  BY <1>1, WhileAsked DEF PagesInv, PagesIs
<1>3. /\ only.at = "done" /\ Listy(shown)
      /\ \E a : pages' = Append(pages, a) /\ a = CyclesPage(q, cursor)
  BY <1>2, ListsOf, Responding DEF ReadIs
<1>4. Keyed(set, KeyLength("cyclic")) /\ {r.item : r \in set} = CyclicDependencyEdges(stored)
  BY <1>2, CyclicRows
<1>5. edges = CyclicDependencyEdges(stored)
  <2>1. Len(shown) = Len(all) /\ \A k \in 1 .. Len(shown) : shown[k] = all[k]
    BY <1>1, <1>3 DEF Cycles, Drained
  <2>2. ToSet(shown) = {shown[k] : k \in 1 .. Len(shown)}
    BY <1>3, ListyFacts
  <2> HIDE DEF set, shown
  <2>3. /\ Cardinality(set) \in Nat /\ Len(all) = Cardinality(set)
        /\ \A k \in 1 .. Len(all) : all[k] \in set
        /\ \A r \in set : r = all[Rank(set, r.key) + 1]
        /\ \A r \in set : Rank(set, r.key) \in 0 .. Cardinality(set) - 1
    BY <1>4, ByKeyLists, RankOf
  <2>4. \A r \in set : Rank(set, r.key) + 1 \in 1 .. Len(all)
    BY <2>3
  <2> HIDE DEF all
  <2>5. \A r : r \in ToSet(shown) <=> r \in set
    BY <2>1, <2>2, <2>3, <2>4
  <2> QED
    BY <1>4, <2>5
<1>6. rows = CycleItems(stored)
  BY <1>5 DEF CycleItems
<1>7. Keyed(rows, 1)
  <2>1. CyclicDependencyEdges(stored) \in SUBSET Edge /\ IsFiniteSet(CyclicDependencyEdges(stored))
    <3>1. CyclicDependencyEdges(stored) \in SUBSET stored.edges
      BY DEF CyclicDependencyEdges, Dependencies
    <3> QED
      BY <1>2, <3>1, FS_Subset DEF StoredGraph, Edge
  <2> HIDE DEF edges
  <2> QED
    BY <1>5, <2>1, CycleRows
<1>8. PICK a : pages' = Append(pages, a) /\ a = CyclesPage(q, cursor)
  BY <1>3
<1>9. /\ a.items = page.items /\ a.next = page.next
      /\ a.total = IF cursor = <<>> THEN Cardinality(rows) ELSE -1
  BY <1>8 DEF CyclesPage, Answer
<1>10. q.limit \in Nat \ {0}
  BY <1>2 DEF Requests, Valid
<1> HIDE DEF rows
<1>11. PageOf(page.items, page.next, rows, cursor, q.limit)
  <2> HIDE DEF cursor
  <2> QED
    BY <1>7, <1>10, PageOfWhole
<1> HIDE DEF page
<1>12. Continued(pages, a, ps) /\ Cursor(pages) = cursor
  BY <1>2, <1>8, PagesAppend DEF Cursor, ClientCursor
<1> HIDE DEF ps, cursor
<1>13. \A i \in 1 .. Len(ps) : PageOf(ps[i].items, ps[i].next, rows, Prev(ps, i), q.limit)
  <2>1. \A i \in 1 .. Len(pages) :
          PageOf(pages[i].items, pages[i].next, rows, Prev(pages, i), q.limit)
    BY <1>6 DEF Cycles
  <2> QED
    BY <1>9, <1>11, <1>12, <2>1 DEF Continued
<1>14. ps[1].total = Cardinality(rows)
  <2>1. CASE pages = <<>>
    <3>1. Len(pages) + 1 = 1 /\ cursor = <<>>
      BY <2>1, EmptyListy DEF cursor, ClientCursor
    <3> QED
      BY <1>9, <1>12, <3>1 DEF Continued
  <2>2. CASE pages # <<>>
    <3>1. 1 \in 1 .. Len(pages)
      BY <1>2, <2>2, ListyFacts
    <3> QED
      BY <1>6, <1>12, <2>2, <3>1 DEF Continued, Cycles
  <2> QED
    BY <2>1, <2>2
<1> QED
  BY <1>1, <1>6, <1>13, <1>14 DEF Cycles, ps

\* Each request reads the edges from the first.
LEMMA StartDrains ==
  ASSUME NEW q, q.view = "cycles", Lists(q) = {"cyclic"}, NEW cursor, NEW all, Len(all) \in Nat
  PROVE  Drained(Started(q, cursor)["cyclic"], all)
<1>1. Started(q, cursor)["cyclic"] = Fresh("cyclic", <<>>)
  BY DEF Started
<1>2. /\ Fresh("cyclic", <<>>).at = "rows" /\ Fresh("cyclic", <<>>).cursor = <<>>
      /\ Fresh("cyclic", <<>>).shown = <<>>
  BY DEF Fresh, Counted
<1>3. Len(<<>>) = 0
  OBVIOUS
<1> QED
  BY <1>1, <1>2, <1>3 DEF Drained

LEMMA CycleNext ==
  ASSUME ServeInv, CycleInv, [Next]_vars
  PROVE  CycleInv'
<1> SUFFICES ASSUME ~Idle', request'[1].view = "cycles", Undisturbed'
             PROVE  Cycles(reads', pages', stored', request'[1])
  BY DEF CycleInv
<1>1. ASSUME NEW q \in RequestsOn(stored), Ask(q)
      PROVE  Cycles(reads', pages', stored', request'[1])
  <2>1. /\ request'[1] = q /\ stored' = stored /\ pages' = <<>>
        /\ stored \in Graphs \cup Versions
    BY <1>1 DEF Ask, ServeInv, TypeInv
  <2>2. q \in Requests /\ q.view = "cycles" /\ StoredGraph(stored)
    BY <2>1, RequestsAssumption, GraphsAssumption
  <2>3. ~HasHead(q) /\ Lists(q) = {"cyclic"}
    BY <2>2, ListsOf
  <2>4. reads' = Started(q, <<>>)
    BY <1>1, <2>3 DEF Ask
  <2>5. Len(ByKey(ListRows(stored, "cyclic", q))) \in Nat
    BY <2>2, CyclicRows, ByKeyLists
  <2>6. Drained(reads'["cyclic"], ByKey(ListRows(stored, "cyclic", q)))
    <3> DEFINE all == ByKey(ListRows(stored, "cyclic", q))
    <3> HIDE DEF all
    <3> QED
      BY <2>2, <2>3, <2>4, <2>5, StartDrains DEF all
  <2> QED
    BY <2>1, <2>6, EmptyListy DEF Cycles
<1>2. ASSUME ~Idle, request' = request, versions' = versions, stored' = stored
      PROVE  /\ Cycles(reads, pages, stored, request[1]) /\ request[1].view = "cycles"
             /\ versions = {stored} /\ request[1] \in Requests /\ StoredGraph(stored)
             /\ Lists(request[1]) = {"cyclic"}
  BY <1>2, WhileAsked, ListsOf DEF CycleInv, Undisturbed
<1>3. CASE GetNode \/ SelectContainers
  BY <1>2, <1>3 DEF GetNode, SelectContainers
<1>4. ASSUME NEW list \in DOMAIN reads,
             CountRows(list) \/ FetchRows(list) \/ HydrateRows(list) \/ Project(list)
      PROVE  Cycles(reads', pages', stored', request'[1])
  <2>1. ~Idle /\ reads # <<>> /\ list \in Lists(request[1])
        /\ ReadIs(list, reads[list], request[1], head, ClientCursor, versions, stored)
    BY WhileReading DEF ReadsInv
  <2>2. request' = request /\ versions' = versions /\ stored' = stored /\ pages' = pages
    BY <1>4 DEF CountRows, FetchRows, HydrateRows, Project, Become
  <2>3. reads[list].at \in {"rows", "done"}
    BY <1>2, <2>1, <2>2 DEF ReadIs
  <2>4. FetchRows(list)
    BY <1>4, <2>3 DEF CountRows, HydrateRows, Project
  <2>5. Drained(reads'["cyclic"], ByKey(ListRows(stored, "cyclic", request[1])))
    BY <1>2, <2>1, <2>2, <2>4, FetchDrains DEF Cycles
  <2> QED
    BY <1>2, <2>1, <2>2, <2>5 DEF Cycles
<1>5. CASE Respond
  BY <1>2, <1>5, RespondCycles DEF Respond
<1>6. CASE AskNext
  <2>1. /\ ~Idle /\ request' = request /\ versions' = versions /\ stored' = stored /\ pages' = pages
        /\ reads' = Started(request[1], ClientCursor)
    BY <1>6 DEF AskNext, Answered
  <2>2. Len(ByKey(ListRows(stored, "cyclic", request[1]))) \in Nat
    BY <1>2, <2>1, CyclicRows, ByKeyLists
  <2>3. Drained(reads'["cyclic"], ByKey(ListRows(stored, "cyclic", request[1])))
    <3> DEFINE all == ByKey(ListRows(stored, "cyclic", request[1]))
               cursor == ClientCursor
               q == request[1]
    <3>1. q.view = "cycles" /\ Lists(q) = {"cyclic"} /\ reads' = Started(q, cursor) /\ Len(all) \in Nat
      BY <1>2, <2>1, <2>2
    <3> HIDE DEF all, cursor, q
    <3>2. Drained(Started(q, cursor)["cyclic"], all)
      BY <3>1, StartDrains
    <3> QED
      BY <3>1, <3>2 DEF all, q
  <2> QED
    BY <1>2, <2>1, <2>3 DEF Cycles
<1>7. CASE Leaves
  BY <1>7 DEF Leaves, Idle
<1>8. ASSUME NEW g \in Versions, Replace(g)
      PROVE  FALSE
  <2>1. ~Idle /\ g # stored /\ stored' = g /\ versions' = versions \cup {g}
    BY <1>8 DEF Replace, Idle
  <2>2. stored \in versions
    BY <2>1, WhileAsked
  <2> QED
    BY <2>1, <2>2 DEF Undisturbed
<1>9. CASE UNCHANGED vars
  BY <1>2, <1>9 DEF vars, Idle
<1> QED
  BY <1>1, <1>3, <1>4, <1>5, <1>6, <1>7, <1>8, <1>9 DEF Next

\* The least of a set, in order.
LEMMA LeastOf ==
  ASSUME NEW c \in SUBSET Nat, IsFiniteSet(c), NEW cap \in Nat
  PROVE  LET s == FirstOf(Sorted(c), cap)
         IN  /\ Cardinality(c) \in Nat
             /\ Len(s) = Min({cap, Cardinality(c)})
             /\ Len(s) = IF cap <= Cardinality(c) THEN cap ELSE Cardinality(c)
             /\ ToSet(s) \subseteq c
             /\ \A m \in ToSet(s), n \in c \ ToSet(s) : m < n
<1> DEFINE all == Sorted(c)
           s == FirstOf(all, cap)
           size == Len(all)
<1>1. /\ all \in Seq(c)
      /\ \A i \in c : \E k \in 1 .. size : all[k] = i
      /\ \A j, k \in 1 .. size : j < k => all[j] < all[k]
  BY SortedIs
<1> HIDE DEF all
<1>2. all \in [1 .. size -> c] /\ size \in Nat
  BY <1>1
<1>3. /\ s \in Seq(c) /\ Len(s) = IF cap <= size THEN cap ELSE size
      /\ \A k \in 1 .. Len(s) : s[k] = all[k]
  BY <1>1, FirstOfProperties
<1> HIDE DEF s, size
<1>4. Cardinality(c) = size
  <2>1. \A j, k \in 1 .. size : all[j] = all[k] => j = k
    <3> SUFFICES ASSUME NEW j \in 1 .. size, NEW k \in 1 .. size, all[j] = all[k], j < k
                 PROVE  FALSE
      BY <1>2
    <3>1. all[j] < all[k] /\ all[j] \in Nat
      BY <1>1, <1>2
    <3> QED
      BY <3>1
  <2>2. all \in Injection(1 .. size, c) /\ all \in Surjection(1 .. size, c)
    BY <1>1, <1>2, <2>1 DEF Injection, Surjection, IsInjective
  <2>3. Cardinality(1 .. size) = Cardinality(c)
    BY <2>2, FS_Injection
  <2>4. Cardinality(1 .. size) = size
    BY <1>2, FS_Interval
  <2> QED
    BY <2>3, <2>4
<1>5. ToSet(s) = {s[k] : k \in 1 .. Len(s)} /\ Len(s) \in Nat
  BY <1>3 DEF ToSet
<1>6. ASSUME NEW m \in ToSet(s), NEW n \in c \ ToSet(s) PROVE m < n
  <2>1. PICK k \in 1 .. Len(s) : s[k] = m
    BY <1>5
  <2>2. PICK l \in 1 .. size : all[l] = n
    BY <1>1
  <2>3. ~(l \in 1 .. Len(s))
    BY <1>3, <1>5, <2>2
  <2>4. k < l /\ k \in 1 .. size
    BY <1>2, <1>3, <1>5, <2>3
  <2> QED
    BY <1>1, <1>3, <2>1, <2>2, <2>4
<1>7. ToSet(s) \subseteq c
  BY <1>3, <1>5
<1>8. Len(s) = Min({cap, Cardinality(c)})
  BY <1>2, <1>3, <1>4, MinOfTwo
<1> QED
  BY <1>2, <1>3, <1>4, <1>6, <1>7, <1>8 DEF s, all

LEMMA ClassIs ==
  ASSUME NEW deps \in SUBSET Edge, IsFiniteSet(deps), NEW c \in CycleClasses(deps)
  PROVE  /\ c \in SUBSET Nat /\ IsFiniteSet(c) /\ Min(c) \in c
         /\ ClassOf(deps, Min(c)) = c
<1>1. PICK n \in Ends(deps) : c = ClassOf(deps, n)
  BY DEF CycleClasses
<1>2. n \in c
  BY <1>1, ReachedOn DEF ClassOf
<1>3. c \in SUBSET Ends(deps)
  BY <1>1, ReachedOn DEF ClassOf
<1>4. Ends(deps) \in SUBSET Nat /\ IsFiniteSet(Ends(deps))
  BY AdjacentRows, EndsFinite
<1>5. c \in SUBSET Nat /\ IsFiniteSet(c)
  BY <1>3, <1>4, FS_Subset
<1>6. Min(c) \in c
  BY <1>2, <1>5, MinOfNaturals
<1>7. ClassOf(deps, Min(c)) = c
  BY <1>1, <1>6, ClassOn
<1> QED
  BY <1>5, <1>6, <1>7

\* A row of cycles shows a class.
Tells(cycle, deps, c) ==
  /\ cycle.length = Cardinality(c)
  /\ ToSet(cycle.members) \subseteq c
  /\ \A m \in ToSet(cycle.members), n \in c \ ToSet(cycle.members) : m < n
  /\ Len(cycle.members) = Min({MemberCap, Cardinality(c)})
  /\ cycle.truncated <=> Len(cycle.members) # cycle.length
  /\ cycle.candidate <=> \E e \in Inside(deps, c) : e.certainty = "inferred"

LEMMA CycleTells ==
  ASSUME NEW deps \in SUBSET Edge, IsFiniteSet(deps), NEW c \in CycleClasses(deps)
  PROVE  Tells(CycleOf(deps, c), deps, c) /\ CycleOf(deps, c).id = Min(c)
<1> DEFINE s == FirstOf(Sorted(c), MemberCap)
           size == Cardinality(c)
           cycle == CycleOf(deps, c)
<1>1. c \in SUBSET Nat /\ IsFiniteSet(c) /\ MemberCap \in Nat
  BY ClassIs, LimitsAssumption
<1>2. /\ size \in Nat
      /\ Len(s) = Min({MemberCap, size})
      /\ Len(s) = IF MemberCap <= size THEN MemberCap ELSE size
      /\ ToSet(s) \subseteq c
      /\ \A m \in ToSet(s), n \in c \ ToSet(s) : m < n
  BY <1>1, LeastOf
<1> HIDE DEF s
<1>3. size > MemberCap <=> Len(s) # size
  <2> HIDE DEF size
  <2> QED
    BY <1>1, <1>2
<1>4. /\ cycle.id = Min(c) /\ cycle.members = s /\ cycle.length = size
      /\ cycle.truncated <=> size > MemberCap
      /\ cycle.candidate <=> \E e \in Inside(deps, c) : e.certainty = "inferred"
  BY DEF CycleOf, s
<1> HIDE DEF cycle, size
<1> QED
  BY <1>2, <1>3, <1>4 DEF Tells, cycle, size

\* The rows are the classes, each once.
LEMMA CycleItemsAre ==
  ASSUME NEW g, StoredGraph(g)
  PROVE  LET deps == Dependencies(g)
         IN  /\ deps \in SUBSET Edge /\ IsFiniteSet(deps)
             /\ Keyed(CycleItems(g), 1)
             /\ {r.item : r \in CycleItems(g)} = {CycleOf(deps, c) : c \in CycleClasses(deps)}
             /\ Cardinality(CycleItems(g)) = Cardinality(CycleClasses(deps))
<1> DEFINE deps == Dependencies(g)
           E == CyclicDependencyEdges(g)
           classes == CycleClasses(deps)
           rows == CycleItems(g)
           Row(c) == [key |-> <<CycleOf(deps, c).id>>, item |-> CycleOf(deps, c)]
<1>1. /\ deps \in SUBSET Edge /\ IsFiniteSet(deps)
      /\ E \in SUBSET Edge /\ IsFiniteSet(E)
  <2>1. deps \in SUBSET g.edges /\ E \in SUBSET g.edges
    BY DEF CyclicDependencyEdges, Dependencies
  <2> QED
    BY <2>1, FS_Subset DEF StoredGraph, Edge
<1>2. FindCycles(E) = {CycleOf(deps, c) : c \in classes}
  BY <1>1, CyclesOfGraph
<1>3. Keyed(rows, 1)
  BY <1>1, CycleRows DEF CycleItems
<1>4. rows = {Row(c) : c \in classes}
  BY <1>2 DEF CycleItems
<1> HIDE DEF deps, E, classes, rows
<1>5. \A c \in classes : Row(c).item = CycleOf(deps, c) /\ Row(c).key = <<Min(c)>>
  BY <1>1, CycleTells DEF classes
<1>6. \A c, d \in classes : Min(c) = Min(d) => c = d
  BY <1>1, ClassIs DEF classes
<1> HIDE DEF Row
<1>7. {r.item : r \in rows} = {CycleOf(deps, c) : c \in classes}
  BY <1>4, <1>5
<1>8. Cardinality(rows) = Cardinality(classes)
  <2> DEFINE f == [c \in classes |-> Row(c)]
  <2>1. \A c, d \in classes : Row(c) = Row(d) => c = d
    BY <1>5, <1>6
  <2>2. f \in Injection(classes, rows) /\ f \in Surjection(classes, rows)
    BY <1>4, <2>1 DEF Injection, Surjection, IsInjective
  <2>3. IsFiniteSet(rows)
    BY <1>3 DEF Keyed
  <2> HIDE DEF f
  <2> QED
    BY <2>2, <2>3, FS_Injection
<1> QED
  BY <1>1, <1>3, <1>7, <1>8 DEF deps, rows, classes

\* Cycles read while nothing is replaced are the classes of mutually dependent
\* nodes a dependency lies inside of, each once on the pages and counted, shown
\* with its least members, however the edges are drained and the components
\* found (cycles, cyclicDependencyEdges, findCycles).
THEOREM CyclesAreExact == Spec => []CyclesAreComponents
<1> DEFINE q == request[1]
           deps == Dependencies(stored)
           classes == CycleClasses(deps)
           rows == CycleItems(stored)
           shown == UNION {ToSet(page.items) : page \in ToSet(pages)}
<1>1. Spec => []CycleInv
  <2>1. Init => CycleInv
    BY DEF Init, Idle, CycleInv
  <2>2. ServeInv /\ CycleInv /\ [Next]_vars => CycleInv'
    BY CycleNext
  <2> QED
    BY <2>1, <2>2, ServeInvariant, PTL DEF Spec
<1>2. ServeInv /\ CycleInv => CyclesAreComponents
  <2> SUFFICES ASSUME ServeInv, CycleInv, Complete, Undisturbed, q.view = "cycles"
               PROVE  /\ {r.item.id : r \in shown} = {Min(c) : c \in classes}
                      /\ \A i \in 1 .. Len(pages) - 1 : Len(pages[i].items) = q.limit
                      /\ Cardinality(classes) = (Len(pages) - 1) * q.limit + Len(Last(pages).items)
                      /\ pages[1].total = Cardinality(classes)
                      /\ \A r \in shown : Tells(r.item, deps, ClassOf(deps, r.item.id))
    BY DEF CyclesAreComponents, Tells
  <2>1. ~Idle /\ reads = <<>> /\ pages # <<>> /\ ClientCursor = <<>> /\ versions = {stored}
    BY DEF Complete, Answered, Undisturbed
  <2>2. q \in Requests /\ Valid(q) /\ StoredGraph(stored) /\ PagesInv
    BY <2>1, WhileAsked
  <2>3. q.limit \in Nat \ {0}
    BY <2>2 DEF Requests, Valid
  <2>4. Listy(pages) /\ \A i \in 1 .. Len(pages) - 1 : pages[i].next # <<>>
    BY <2>2 DEF PagesInv, PagesIs
  <2>5. /\ \A i \in 1 .. Len(pages) :
             PageOf(pages[i].items, pages[i].next, rows, Prev(pages, i), q.limit)
        /\ pages[1].total = Cardinality(rows)
    BY <2>1 DEF CycleInv, Cycles
  <2>6. pages[Len(pages)].next = <<>> /\ Last(pages) = pages[Len(pages)]
    BY <2>1, <2>4, ListyFacts DEF ClientCursor
  <2>7. /\ deps \in SUBSET Edge /\ IsFiniteSet(deps) /\ Keyed(rows, 1)
        /\ {r.item : r \in rows} = {CycleOf(deps, c) : c \in classes}
        /\ Cardinality(rows) = Cardinality(classes)
    BY <2>2, CycleItemsAre
  <2> DEFINE limit == q.limit
             last == Len(pages[Len(pages)].items)
  <2> HIDE DEF rows, limit
  <2>8. /\ Len(ByKey(rows)) = (Len(pages) - 1) * limit + last
        /\ \A i \in 1 .. Len(pages) - 1 : Len(pages[i].items) = limit
    BY <2>1, <2>3, <2>4, <2>5, <2>6, <2>7, PagesOfWhole DEF limit
  <2>9. {row.item : row \in shown} = {r.item : r \in rows}
    BY <2>1, <2>3, <2>4, <2>5, <2>6, <2>7, PagesShow DEF limit
  <2>10. Len(ByKey(rows)) = Cardinality(classes)
    BY <2>7, ByKeyLists
  <2> HIDE DEF shown, deps, classes
  <2>11. \A c \in classes : /\ CycleOf(deps, c).id = Min(c) /\ Tells(CycleOf(deps, c), deps, c)
                            /\ ClassOf(deps, Min(c)) = c
    BY <2>7, CycleTells, ClassIs DEF classes
  <2>12. \A r \in shown : \E c \in classes : r.item = CycleOf(deps, c)
    BY <2>7, <2>9
  <2>13. \A c \in classes : \E r \in shown : r.item = CycleOf(deps, c)
    BY <2>7, <2>9
  <2>14. {r.item.id : r \in shown} = {Min(c) : c \in classes}
    BY <2>11, <2>12, <2>13
  <2>15. \A r \in shown : Tells(r.item, deps, ClassOf(deps, r.item.id))
    BY <2>11, <2>12
  <2> QED
    BY <2>5, <2>6, <2>7, <2>8, <2>10, <2>14, <2>15 DEF limit
<1> QED
  BY <1>1, <1>2, ServeInvariant, PTL
=============================================================================
