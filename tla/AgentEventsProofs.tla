------------------------- MODULE AgentEventsProofs -------------------------
(***************************************************************************)
(* Theorems about AgentEvents for any number of instances, turns, thinking *)
(* messages, event streams and polls in flight, and any buffer limit that  *)
(* holds the events of a turn.                                             *)
(***************************************************************************)
EXTENDS AgentEvents, FiniteSetTheorems, SequenceTheorems, WellFoundedInduction, TLAPS

-----------------------------------------------------------------------------
(* Rows in order: the operators that read the table.                       *)

\* Rows with ascending ids.
Ordered(q) ==
    /\ q \in Seq(Rows)
    /\ \A a, b \in DOMAIN q : a < b => q[a].id < q[b].id

LEMMA RowIds == \A r \in Rows : r.id \in Nat /\ r.id >= 1 /\ r.id \in Ids /\ r # Connected
  BY DEF Rows, Ids, Connected

\* A finite set of naturals has a least and a greatest element.
LEMMA LeastNatural ==
    ASSUME NEW T, T \subseteq Nat, T # {}
    PROVE  \E x \in T : \A y \in T : x <= y
  <1>1. IsWellFoundedOn(OpToRel(<, Nat), Nat)
    BY NatLessThanWellFounded
  <1>2. PICK x \in T : \A y \in T : ~(<<y, x>> \in OpToRel(<, Nat))
    BY <1>1, WFMin
  <1>3. \A y \in T : ~(y < x)
    BY <1>2 DEF OpToRel
  <1> QED BY <1>3

LEMMA GreatestNatural ==
    ASSUME NEW n \in Nat, NEW T, T \subseteq 0 .. n, T # {}
    PROVE  Max(T) \in T /\ \A y \in T : y <= Max(T)
  <1> DEFINE U == {m \in 0 .. n : n - m \in T}
  <1>1. PICK y \in T : TRUE
    OBVIOUS
  <1>2. n - y \in U
    BY <1>1
  <1>3. PICK x \in U : \A z \in U : x <= z
    <2>1. U \subseteq Nat
      OBVIOUS
    <2>2. U # {}
      BY <1>2
    <2> HIDE DEF U
    <2> QED BY <2>1, <2>2, LeastNatural
  <1>4. n - x \in T
    BY <1>3
  <1>5. ASSUME NEW z \in T PROVE n - x >= z
    <2>1. n - z \in U
      OBVIOUS
    <2> QED BY <1>3, <2>1
  <1> QED BY <1>4, <1>5 DEF Max

\* The rank of a row among rows with distinct ids.
Rank(R, r) == Cardinality({q \in R : q.id <= r.id})

LEMMA RankFacts ==
    ASSUME NEW R, R \subseteq Rows, IsFiniteSet(R), \A a, b \in R : a.id = b.id => a = b
    PROVE  /\ \A r \in R : Rank(R, r) \in 1 .. Cardinality(R)
           /\ \A a, b \in R : a.id < b.id <=> Rank(R, a) < Rank(R, b)
           /\ \A k \in 1 .. Cardinality(R) : \E r \in R : Rank(R, r) = k
  <1> DEFINE Low(r) == {q \in R : q.id <= r.id}
  <1>1. Cardinality(R) \in Nat
    BY FS_CardinalityType
  <1>2. ASSUME NEW r \in R
        PROVE  /\ IsFiniteSet(Low(r)) /\ Rank(R, r) \in 1 .. Cardinality(R)
    <2>1. Low(r) \in SUBSET R /\ r \in Low(r)
      BY RowIds
    <2>2. IsFiniteSet(Low(r)) /\ Cardinality(Low(r)) <= Cardinality(R)
      BY <2>1, FS_Subset
    <2>3. Cardinality(Low(r)) \in Nat
      BY <2>2, FS_CardinalityType
    <2>4. Cardinality(Low(r)) # 0
      BY <2>1, <2>2, FS_EmptySet
    <2> QED BY <1>1, <2>2, <2>3, <2>4 DEF Rank
  <1>8. \A r \in R : Rank(R, r) \in 1 .. Cardinality(R)
    BY <1>2
  <1>9. \A r \in R : Rank(R, r) \in Nat
    BY ONLY <1>1, <1>8
  <1>3. ASSUME NEW a \in R, NEW b \in R, a.id < b.id
        PROVE  Rank(R, a) < Rank(R, b)
    <2>1. Low(a) \in SUBSET Low(b) /\ b \in Low(b) /\ b \notin Low(a)
      BY <1>3, RowIds
    <2>2. IsFiniteSet(Low(b)) /\ Low(a) # Low(b)
      BY <1>2, <2>1
    <2>3. Cardinality(Low(a)) <= Cardinality(Low(b)) /\ Cardinality(Low(b)) # Cardinality(Low(a))
      BY <2>1, <2>2, FS_Subset
    <2>4. Rank(R, a) = Cardinality(Low(a)) /\ Rank(R, b) = Cardinality(Low(b))
      BY DEF Rank
    <2>5. Cardinality(Low(a)) < Cardinality(Low(b))
      BY ONLY <1>9, <2>3, <2>4
    <2> QED BY <2>4, <2>5
  <1>4. ASSUME NEW a \in R, NEW b \in R, ~(a.id < b.id)
        PROVE  ~(Rank(R, a) < Rank(R, b))
    <2>1. CASE a.id = b.id
      <3>1. a = b
        BY <2>1
      <3> QED BY <1>9, <3>1
    <2>2. CASE b.id < a.id
      BY <1>9, <1>3, <2>2
    <2>3. a.id \in Nat /\ b.id \in Nat
      BY RowIds
    <2> QED BY <1>4, <2>1, <2>2, <2>3
  <1> HIDE DEF Low
  <1> DEFINE f == [r \in R |-> Rank(R, r)]
  <1>5. f \in Injection(R, 1 .. Cardinality(R))
    <2>1. f \in [R -> 1 .. Cardinality(R)]
      BY <1>2
    <2>2. ASSUME NEW a \in R, NEW b \in R, Rank(R, a) = Rank(R, b)
          PROVE  a = b
      <3>1. ~(a.id < b.id) /\ ~(b.id < a.id)
        BY <1>9, <1>3, <2>2
      <3> QED BY <3>1, RowIds
    <2> QED BY <2>1, <2>2 DEF Injection, IsInjective
  <1>6. f \in Surjection(R, 1 .. Cardinality(R))
    <2>1. IsFiniteSet(1 .. Cardinality(R)) /\ Cardinality(1 .. Cardinality(R)) = Cardinality(R)
      BY <1>1, FS_Interval
    <2> HIDE DEF f
    <2> QED BY <1>5, <2>1, FS_Injection
  <1>7. \A k \in 1 .. Cardinality(R) : \E r \in R : Rank(R, r) = k
    BY <1>6 DEF Surjection
  <1> QED BY <1>2, <1>3, <1>4, <1>7

\* InOrder lists the rows of a set, each once, by ascending id.
LEMMA InOrderLists ==
    ASSUME NEW R, R \subseteq Rows, IsFiniteSet(R), \A a, b \in R : a.id = b.id => a = b
    PROVE  /\ Ordered(InOrder(R)) /\ Len(InOrder(R)) = Cardinality(R)
           /\ \A k \in DOMAIN InOrder(R) : InOrder(R)[k] \in R
           /\ \A r \in R : \E k \in DOMAIN InOrder(R) : InOrder(R)[k] = r
  <1> DEFINE n == Cardinality(R)
             q == InOrder(R)
  <1>1. n \in Nat
    BY FS_CardinalityType
  <1>2. q = [k \in 1 .. n |-> CHOOSE r \in R : Rank(R, r) = k]
    BY DEF InOrder, Rank
  <1>3. ASSUME NEW k \in 1 .. n PROVE q[k] \in R /\ Rank(R, q[k]) = k
    <2>1. \E r \in R : Rank(R, r) = k
      BY RankFacts
    <2> QED BY <1>2, <2>1
  <1> HIDE DEF q
  <1>4. q \in [1 .. n -> R]
    <2>1. DOMAIN q = 1 .. n
      BY <1>2
    <2> QED BY <1>2, <1>3, <2>1
  <1>5. q \in Seq(R) /\ DOMAIN q = 1 .. n /\ Len(q) = n
    BY <1>1, <1>4
  <1>6. \A a, b \in 1 .. n : a < b => q[a].id < q[b].id
    BY <1>3, RankFacts
  <1>7. ASSUME NEW r \in R PROVE \E k \in 1 .. n : q[k] = r
    <2> DEFINE k == Rank(R, r)
    <2>1. k \in 1 .. n
      BY RankFacts
    <2>2. q[k] \in R /\ Rank(R, q[k]) = Rank(R, r)
      BY <1>3, <2>1
    <2>3. q[k].id = r.id
      <3>1. Rank(R, r) \in Int
        BY <2>1
      <3>2. ~(q[k].id < r.id) /\ ~(r.id < q[k].id)
        BY <2>2, <3>1, RankFacts
      <3> QED BY <2>2, <3>2, RowIds
    <2> QED BY <2>1, <2>2, <2>3
  <1>8. q \in Seq(Rows)
    BY <1>5
  <1> QED BY <1>3, <1>5, <1>6, <1>7, <1>8 DEF Ordered, q

\* A part of a sequence of rows in order.
LEMMA PartInOrder ==
    ASSUME NEW q, Ordered(q), NEW m \in Nat, NEW n \in Nat, n <= Len(q)
    PROVE  /\ Ordered(SubSeq(q, m + 1, n))
           /\ Len(SubSeq(q, m + 1, n)) = IF m < n THEN n - m ELSE 0
           /\ DOMAIN SubSeq(q, m + 1, n) = 1 .. Len(SubSeq(q, m + 1, n))
           /\ \A k \in DOMAIN SubSeq(q, m + 1, n) :
                 m + k \in DOMAIN q /\ m + k <= n /\ SubSeq(q, m + 1, n)[k] = q[m + k]
           /\ \A j \in DOMAIN q : m < j /\ j <= n =>
                 j - m \in DOMAIN SubSeq(q, m + 1, n) /\ SubSeq(q, m + 1, n)[j - m] = q[j]
  <1> DEFINE p == SubSeq(q, m + 1, n)
  <1>1. q \in Seq(Rows) /\ Len(q) \in Nat /\ DOMAIN q = 1 .. Len(q)
    BY DEF Ordered
  <1>2. \A i \in (m + 1) .. n : q[i] \in Rows
    BY <1>1, ElementOfSeq
  <1>3. /\ p \in Seq(Rows)
        /\ Len(p) = IF m + 1 <= n THEN n - (m + 1) + 1 ELSE 0
        /\ \A k \in 1 .. n - (m + 1) + 1 : p[k] = q[m + 1 + k - 1]
    <2>1. m + 1 \in Int /\ n \in Int
      OBVIOUS
    <2> QED BY <1>2, <2>1, SubSeqProperties
  <1> HIDE DEF p
  <1>4. Len(p) = IF m < n THEN n - m ELSE 0
    BY <1>3
  <1>5. DOMAIN p = 1 .. Len(p)
    BY <1>3
  <1>6. \A k \in DOMAIN p : m + k \in DOMAIN q /\ m + k <= n /\ p[k] = q[m + k]
    <2> TAKE k \in DOMAIN p
    <2>1. k \in 1 .. n - (m + 1) + 1 /\ m + 1 + k - 1 = m + k
      BY <1>4, <1>5
    <2>2. p[k] = q[m + k]
      BY <1>3, <2>1
    <2> QED BY <1>1, <2>1, <2>2
  <1>7. \A j \in DOMAIN q : m < j /\ j <= n => j - m \in DOMAIN p /\ p[j - m] = q[j]
    <2> TAKE j \in DOMAIN q
    <2> HAVE m < j /\ j <= n
    <2>1. j - m \in DOMAIN p /\ m + (j - m) = j
      BY <1>1, <1>4, <1>5
    <2> QED BY <1>6, <2>1
  <1>8. \A a, b \in DOMAIN p : a < b => p[a].id < p[b].id
    <2> TAKE a, b \in DOMAIN p
    <2> HAVE a < b
    <2>1. m + a < m + b
      BY <1>4, <1>5
    <2>2. q[m + a].id < q[m + b].id
      BY <1>6, <2>1 DEF Ordered
    <2> QED BY <1>6, <2>2
  <1> QED BY <1>3, <1>4, <1>5, <1>6, <1>7, <1>8 DEF p, Ordered

\* Above keeps exactly the rows above the id.
LEMMA AboveKeeps ==
    ASSUME NEW q, Ordered(q), NEW id \in Nat
    PROVE  /\ Ordered(Above(q, id))
           /\ \A k \in DOMAIN Above(q, id) :
                 Above(q, id)[k].id > id /\ \E j \in DOMAIN q : Above(q, id)[k] = q[j]
           /\ \A j \in DOMAIN q : q[j].id > id => \E k \in DOMAIN Above(q, id) : Above(q, id)[k] = q[j]
  <1> DEFINE n == Len(q)
             K == {k \in DOMAIN q : q[k].id <= id}
             c == Max({0} \cup K)
  <1>1. q \in Seq(Rows) /\ n \in Nat /\ DOMAIN q = 1 .. n
    BY DEF Ordered
  <1>2. \A k \in DOMAIN q : q[k] \in Rows /\ q[k].id \in Nat
    BY <1>1, ElementOfSeq, RowIds
  <1>3. c \in {0} \cup K /\ \A k \in {0} \cup K : k <= c
    <2>1. {0} \cup K \subseteq 0 .. n /\ {0} \cup K # {}
      BY <1>1
    <2> HIDE DEF K
    <2> QED BY <1>1, <2>1, GreatestNatural
  <1> HIDE DEF c
  <1>4. c \in 0 .. n
    BY <1>1, <1>3
  <1>5. K = 1 .. c
    <2>1. ASSUME NEW k \in 1 .. c PROVE k \in K
      <3>1. c \in K /\ k \in DOMAIN q
        BY <1>1, <1>3, <1>4
      <3>2. k = c \/ q[k].id < q[c].id
        BY <1>4, <3>1 DEF Ordered
      <3> QED BY <1>2, <3>1, <3>2
    <2>2. ASSUME NEW k \in K PROVE k \in 1 .. c
      BY <1>1, <1>3, <1>4
    <2> QED BY <2>1, <2>2
  <1>6. Cardinality(K) = c
    <2>1. Cardinality(1 .. c) = IF 1 > c THEN 0 ELSE c - 1 + 1
      BY <1>4, FS_Interval
    <2> HIDE DEF K
    <2> QED BY <1>4, <1>5, <2>1
  <1>7. Above(q, id) = SubSeq(q, c + 1, n)
    BY <1>6 DEF Above
  <1>8. c \in Nat /\ n \in Nat /\ n <= Len(q)
    BY <1>1, <1>4
  <1>9. /\ Ordered(Above(q, id))
        /\ \A k \in DOMAIN Above(q, id) : c + k \in DOMAIN q /\ Above(q, id)[k] = q[c + k]
        /\ \A j \in DOMAIN q : c < j => j - c \in DOMAIN Above(q, id) /\ Above(q, id)[j - c] = q[j]
        /\ DOMAIN Above(q, id) = 1 .. Len(Above(q, id))
    <2> DEFINE p == SubSeq(q, c + 1, n)
    <2>4. /\ Ordered(p)
          /\ Len(p) = IF c < n THEN n - c ELSE 0
          /\ DOMAIN p = 1 .. Len(p)
          /\ \A k \in DOMAIN p : c + k \in DOMAIN q /\ c + k <= n /\ p[k] = q[c + k]
          /\ \A j \in DOMAIN q : c < j /\ j <= n => j - c \in DOMAIN p /\ p[j - c] = q[j]
      BY <1>8, PartInOrder, ZenonT(60)
    <2>1. /\ Ordered(p)
          /\ \A k \in DOMAIN p : c + k \in DOMAIN q /\ c + k <= n /\ p[k] = q[c + k]
          /\ \A j \in DOMAIN q : c < j /\ j <= n => j - c \in DOMAIN p /\ p[j - c] = q[j]
          /\ DOMAIN p = 1 .. Len(p)
      BY <2>4
    <2>2. \A j \in DOMAIN q : j <= n
      BY <1>1
    <2>3. Above(q, id) = p
      BY <1>7
    <2> HIDE DEF p, n
    <2> QED BY <2>1, <2>2, <2>3
  <1>10. ASSUME NEW k \in DOMAIN Above(q, id)
         PROVE  Above(q, id)[k].id > id /\ \E j \in DOMAIN q : Above(q, id)[k] = q[j]
    <2>1. c + k \in DOMAIN q /\ Above(q, id)[k] = q[c + k] /\ k \in Nat \ {0}
      BY <1>9
    <2>2. c + k \notin K
      BY <1>4, <1>5, <2>1
    <2> QED BY <1>2, <2>1, <2>2
  <1>11. ASSUME NEW j \in DOMAIN q, q[j].id > id
         PROVE  \E k \in DOMAIN Above(q, id) : Above(q, id)[k] = q[j]
    <2>1. j \notin K
      BY <1>2, <1>11
    <2>2. c < j
      BY <1>1, <1>4, <1>5, <2>1
    <2> QED BY <1>9, <2>2
  <1> QED BY <1>9, <1>10, <1>11

\* The rows of the table have distinct ids.
Table == rows \subseteq Rows /\ IsFiniteSet(rows) /\ \A a, b \in rows : a.id = b.id => a = b

LEMMA Bounds ==
    ASSUME NEW a \in Int, NEW b \in Int
    PROVE  /\ Min({a, b}) = IF a <= b THEN a ELSE b
           /\ Max({a, b}) = IF a <= b THEN b ELSE a
  BY DEF Min, Max

\* What a poll reads: rows of the table above the id, none of them skipped.
LEMMA PolledRows ==
    ASSUME Table, NEW id \in Nat
    PROVE  /\ Ordered(RowsAfter(id))
           /\ \A k \in DOMAIN RowsAfter(id) : RowsAfter(id)[k] \in rows /\ RowsAfter(id)[k].id > id
           /\ \A r \in rows, k \in DOMAIN RowsAfter(id) : id < r.id /\ r.id <= RowsAfter(id)[k].id =>
                 \E j \in DOMAIN RowsAfter(id) : RowsAfter(id)[j] = r
  <1> DEFINE R == {r \in rows : r.id > id}
             q == InOrder(R)
             n == Min({BufferLimit, Len(q)})
             f == SubSeq(q, 0 + 1, n)
  <1>1. R \in SUBSET rows /\ R \subseteq Rows /\ \A a, b \in R : a.id = b.id => a = b
    BY DEF Table
  <1>2. IsFiniteSet(R)
    BY <1>1, FS_Subset DEF Table
  <1> HIDE DEF R
  <1>3. /\ Ordered(q)
        /\ \A k \in DOMAIN q : q[k] \in R
        /\ \A r \in R : \E k \in DOMAIN q : q[k] = r
    BY <1>1, <1>2, InOrderLists
  <1> HIDE DEF q
  <1>4. q \in Seq(Rows) /\ Len(q) \in Nat /\ DOMAIN q = 1 .. Len(q)
    BY <1>3 DEF Ordered
  <1>5. n \in Nat /\ n <= Len(q)
    BY <1>4, Bounds, AgentEventsConstants
  <1> HIDE DEF n
  <1>6. /\ Ordered(f)
        /\ Len(f) = IF 0 < n THEN n - 0 ELSE 0
        /\ DOMAIN f = 1 .. Len(f)
        /\ \A k \in DOMAIN f : 0 + k \in DOMAIN q /\ 0 + k <= n /\ f[k] = q[0 + k]
        /\ \A j \in DOMAIN q : 0 < j /\ j <= n => j - 0 \in DOMAIN f /\ f[j - 0] = q[j]
    <2>1. 0 \in Nat
      OBVIOUS
    <2> QED BY <1>3, <1>5, <2>1, PartInOrder, ZenonT(60)
  <1>7. f = RowsAfter(id)
    BY DEF f, n, q, R, RowsAfter
  <1> HIDE DEF f
  <1>8. \A k \in DOMAIN f : k \in DOMAIN q /\ k <= n /\ f[k] = q[k]
    <2> TAKE k \in DOMAIN f
    <2>1. 0 + k = k
      BY <1>5, <1>6
    <2> QED BY <1>6, <2>1
  <1>9. \A j \in DOMAIN q : j <= n => j \in DOMAIN f /\ f[j] = q[j]
    <2> TAKE j \in DOMAIN q
    <2> HAVE j <= n
    <2>1. 0 < j /\ j - 0 = j
      BY <1>4
    <2> QED BY <1>6, <2>1
  <1>10. \A k \in DOMAIN f : f[k] \in rows /\ f[k].id > id
    BY <1>3, <1>8 DEF R
  <1>11. ASSUME NEW r \in rows, NEW k \in DOMAIN f, id < r.id, r.id <= f[k].id
         PROVE  \E j \in DOMAIN f : f[j] = r
    <2>1. r \in R
      BY <1>11 DEF R
    <2>2. PICK j \in DOMAIN q : q[j] = r
      BY <1>3, <2>1
    <2>3. k \in DOMAIN q /\ k <= n /\ f[k] = q[k]
      BY <1>8
    <2>4. ~(k < j)
      <3>1. q[j].id \in Nat /\ q[k].id \in Nat
        BY <1>4, <2>2, <2>3, ElementOfSeq, RowIds
      <3>2. k < j => q[k].id < q[j].id
        BY <1>3, <2>2, <2>3 DEF Ordered
      <3> QED BY <1>11, <2>2, <2>3, <3>1, <3>2
    <2>5. j <= n
      BY <1>4, <1>5, <2>2, <2>3, <2>4
    <2> QED BY <1>9, <2>2, <2>5
  <1> QED BY <1>6, <1>7, <1>10, <1>11

\* The buffer is the newest part of the table, all of it or BufferLimit rows.
LEMMA RecentRows ==
    ASSUME Table
    PROVE  /\ Ordered(Recent)
           /\ \A k \in DOMAIN Recent : Recent[k] \in rows
           /\ \A r \in rows :
                 \/ \E k \in DOMAIN Recent : Recent[k] = r
                 \/ Len(Recent) = BufferLimit /\ \A k \in DOMAIN Recent : r.id < Recent[k].id
  <1> DEFINE q == InOrder(rows)
             m == Max({0, Len(q) - BufferLimit})
             f == SubSeq(q, m + 1, Len(q))
  <1>1. /\ Ordered(q)
        /\ \A k \in DOMAIN q : q[k] \in rows
        /\ \A r \in rows : \E k \in DOMAIN q : q[k] = r
    BY InOrderLists DEF Table
  <1> HIDE DEF q
  <1>2. q \in Seq(Rows) /\ Len(q) \in Nat /\ DOMAIN q = 1 .. Len(q)
    BY <1>1 DEF Ordered
  <1>3. m \in Nat /\ m = IF 0 <= Len(q) - BufferLimit THEN Len(q) - BufferLimit ELSE 0
    <2>1. 0 \in Int /\ Len(q) - BufferLimit \in Int
      BY <1>2, AgentEventsConstants
    <2>2. m = IF 0 <= Len(q) - BufferLimit THEN Len(q) - BufferLimit ELSE 0
      BY ONLY <2>1, Bounds
    <2> HIDE DEF m
    <2> QED BY <2>1, <2>2
  <1> HIDE DEF m
  <1>4. /\ Ordered(f)
        /\ Len(f) = IF m < Len(q) THEN Len(q) - m ELSE 0
        /\ DOMAIN f = 1 .. Len(f)
        /\ \A k \in DOMAIN f : m + k \in DOMAIN q /\ m + k <= Len(q) /\ f[k] = q[m + k]
        /\ \A j \in DOMAIN q : m < j /\ j <= Len(q) => j - m \in DOMAIN f /\ f[j - m] = q[j]
    <2>1. m \in Nat /\ Len(q) \in Nat /\ Len(q) <= Len(q)
      BY <1>2, <1>3
    <2> QED BY <1>1, <2>1, PartInOrder, ZenonT(60)
  <1>5. f = Recent
    BY DEF f, m, q, Recent
  <1> HIDE DEF f
  <1>6. ASSUME NEW r \in rows
        PROVE  \/ \E k \in DOMAIN f : f[k] = r
               \/ Len(f) = BufferLimit /\ \A k \in DOMAIN f : r.id < f[k].id
    <2>1. PICK j \in DOMAIN q : q[j] = r
      BY <1>1
    <2>2. CASE m < j
      BY <1>2, <1>4, <2>1, <2>2
    <2>3. CASE j <= m
      <3>1. Len(f) = BufferLimit
        <4>1. BufferLimit \in Nat /\ BufferLimit > 0
          BY AgentEventsConstants
        <4>2. m >= 1 /\ m \in Nat /\ Len(q) \in Nat
          BY <1>2, <1>3, <2>1, <2>3
        <4>3. m = Len(q) - BufferLimit
          BY <1>3, <4>2
        <4> QED BY ONLY <1>4, <4>1, <4>2, <4>3
      <3>2. ASSUME NEW k \in DOMAIN f PROVE r.id < f[k].id
        <4>1. m + k \in DOMAIN q /\ f[k] = q[m + k] /\ j < m + k
          BY <1>2, <1>3, <1>4, <2>1, <2>3
        <4>2. q[j].id < q[m + k].id
          BY <1>1, <2>1, <4>1 DEF Ordered
        <4> QED BY <2>1, <4>1, <4>2
      <3> QED BY <3>1, <3>2
    <2> QED BY <1>2, <1>3, <2>1, <2>2, <2>3
  <1>7. \A k \in DOMAIN f : f[k] \in rows
    BY <1>1, <1>4
  <1> QED BY <1>4, <1>5, <1>6, <1>7

\* What a stream replays: rows of the table above the last id the client saw.
LEMMA ReplayedRows ==
    ASSUME Table, NEW after \in Nat
    PROVE  /\ Ordered(Buffered(after))
           /\ \A k \in DOMAIN Buffered(after) :
                 Buffered(after)[k] \in rows /\ Buffered(after)[k].id > after
  <1> DEFINE q == Recent
             f == Buffered(after)
  <1>1. Ordered(q) /\ \A k \in DOMAIN q : q[k] \in rows
    BY RecentRows
  <1> HIDE DEF q
  <1>2. q \in Seq(Rows) /\ Len(q) \in Nat /\ DOMAIN q = 1 .. Len(q)
    BY <1>1 DEF Ordered
  <1>3. ASSUME after # 0
        PROVE  Ordered(f) /\ \A k \in DOMAIN f : f[k] \in rows /\ f[k].id > after
    <2>1. f = Above(q, after)
      BY <1>3 DEF Buffered, ForReplay, q
    <2>2. Ordered(f) /\ \A k \in DOMAIN f : f[k].id > after /\ \E j \in DOMAIN q : f[k] = q[j]
      BY <1>1, <2>1, AboveKeeps
    <2> QED BY <1>1, <2>2
  <1>4. ASSUME after = 0
        PROVE  Ordered(f) /\ \A k \in DOMAIN f : f[k] \in rows /\ f[k].id > after
    <2> DEFINE D == {i \in DOMAIN q : q[i].what = Done}
               m == Max({0} \cup D)
    <2>1. f = SubSeq(q, m + 1, Len(q))
      BY <1>4 DEF Buffered, ForReplay, q
    <2>2. m \in {0} \cup D
      <3>1. {0} \cup D \subseteq 0 .. Len(q) /\ {0} \cup D # {}
        BY <1>2
      <3> HIDE DEF D
      <3> QED BY <1>2, <3>1, GreatestNatural
    <2> HIDE DEF m
    <2>3. m \in Nat /\ Len(q) \in Nat /\ Len(q) <= Len(q)
      BY <1>2, <2>2
    <2>4. /\ Ordered(f)
          /\ \A k \in DOMAIN f : m + k \in DOMAIN q /\ f[k] = q[m + k]
      <3>1. /\ Ordered(SubSeq(q, m + 1, Len(q)))
            /\ \A k \in DOMAIN SubSeq(q, m + 1, Len(q)) :
                  m + k \in DOMAIN q /\ m + k <= Len(q) /\ SubSeq(q, m + 1, Len(q))[k] = q[m + k]
        BY <1>1, <2>3, PartInOrder, ZenonT(60)
      <3> QED BY <2>1, <3>1
    <2>5. \A k \in DOMAIN f : f[k] \in rows
      BY <1>1, <2>4
    <2>6. \A k \in DOMAIN f : f[k].id > 0
      BY <2>5, RowIds DEF Table
    <2> QED BY <1>4, <2>4, <2>5, <2>6
  <1> QED BY <1>3, <1>4

-----------------------------------------------------------------------------
(* Types and ids.  An id the sequence gave out names one event of one turn,*)
(* so there are never more ids than events.                                *)

Typed ==
    /\ rows \subseteq Rows /\ IsFiniteSet(rows) /\ lastId \in {0} \cup Ids
    /\ turn \in [Turns -> TurnRecords]
    /\ stream \in [Streams -> StreamRecords]
    /\ \A s \in Streams : Ordered(stream[s].replay) /\ \A q \in stream[s].polls : Ordered(q)
    /\ channel \in [Instances -> {0} \cup Streams]
    /\ client \in ClientRecords

\* The events of turns that an id was given to.
Begun == {<<r.turn, r.what>> : r \in rows} \cup {<<t, What(t)>> : t \in {u \in Turns : turn[u].held # 0}}

\* An id belongs to one row or to the one turn that is about to store it, and an
\* event of a turn is stored once.
IdsApart ==
    /\ \A a, b \in rows : a.id = b.id => a = b
    /\ \A a, b \in rows : a.turn = b.turn /\ a.what = b.what => a = b
    /\ \A r \in rows : r.id <= lastId
    /\ \A t \in Turns : turn[t].held <= lastId
    /\ \A t, u \in Turns : turn[t].held = turn[u].held /\ turn[t].held # 0 => t = u
    /\ \A t \in Turns, r \in rows :
          turn[t].held # 0 /\ r.id = turn[t].held => r.turn = t /\ r.what = What(t)

\* A turn stores its events one after the other, each after all before it.
TurnsProceed ==
    /\ \A t \in Turns :
          /\ turn[t].held # 0 => turn[t].phase = "open"
          /\ turn[t].phase = "none" => turn[t].next = 1
          /\ turn[t].phase = "open" => turn[t].next <= turn[t].thought + 1
    /\ \A r \in rows :
          /\ turn[r.turn].phase # "none"
          /\ turn[r.turn].held # 0 => r.id <= turn[r.turn].held
          /\ turn[r.turn].phase = "open" =>
                r.id = turn[r.turn].held \/ (r.what # Done /\ r.what < turn[r.turn].next)

\* The browser posts its turns in order, each once.
PostedOnce ==
    /\ client.phase # "idle" => client.turn # 0
    /\ client.phase = "opening" => turn[client.turn].phase = "none"
    /\ \A t \in Turns : t > client.turn => turn[t].phase = "none"

IdsCounted == lastId = Cardinality(Begun)

TurnInv == IdsApart /\ TurnsProceed /\ PostedOnce /\ DoneIsLast /\ IdsCounted

LEMMA BegunBounded ==
    ASSUME Typed, TurnInv
    PROVE  /\ Begun \subseteq Turns \X (0 .. MaxThinking)
           /\ IsFiniteSet(Begun)
           /\ IsFiniteSet(Turns \X (0 .. MaxThinking))
           /\ Cardinality(Turns \X (0 .. MaxThinking)) = MaxTurns * (MaxThinking + 1)
  <1>1. \A r \in rows : <<r.turn, r.what>> \in Turns \X (0 .. MaxThinking)
    BY DEF Typed, Rows
  <1>2. \A t \in Turns : turn[t].held # 0 => What(t) \in 0 .. MaxThinking
    <2> TAKE t \in Turns
    <2>1. turn[t].thought \in 0 .. MaxThinking /\ turn[t].next \in 1 .. MaxThinking + 2
      BY DEF Typed, TurnRecords
    <2> QED BY <2>1, AgentEventsConstants DEF What, Chained, Done
  <1>3. Begun \subseteq Turns \X (0 .. MaxThinking)
    BY <1>1, <1>2 DEF Begun
  <1>4. /\ IsFiniteSet(Turns) /\ Cardinality(Turns) = MaxTurns
        /\ IsFiniteSet(0 .. MaxThinking) /\ Cardinality(0 .. MaxThinking) = MaxThinking + 1
    <2>1. MaxTurns \in Nat \ {0} /\ MaxThinking \in Nat
      BY AgentEventsConstants
    <2>2. /\ IsFiniteSet(1 .. MaxTurns)
          /\ Cardinality(1 .. MaxTurns) = IF 1 > MaxTurns THEN 0 ELSE MaxTurns - 1 + 1
      BY <2>1, FS_Interval
    <2>3. /\ IsFiniteSet(0 .. MaxThinking)
          /\ Cardinality(0 .. MaxThinking) = IF 0 > MaxThinking THEN 0 ELSE MaxThinking - 0 + 1
      BY <2>1, FS_Interval
    <2> QED BY <2>1, <2>2, <2>3 DEF Turns
  <1>5. /\ IsFiniteSet(Turns \X (0 .. MaxThinking))
        /\ Cardinality(Turns \X (0 .. MaxThinking)) = MaxTurns * (MaxThinking + 1)
    BY <1>4, FS_Product
  <1> QED BY <1>3, <1>5, FS_Subset

\* The next event of a turn was not begun yet, so an id is left for it.
LEMMA RoomForId ==
    ASSUME Typed, TurnInv, NEW t \in Turns, turn[t].phase = "open", turn[t].held = 0
    PROVE  /\ <<t, What(t)>> \notin Begun
           /\ <<t, What(t)>> \in Turns \X (0 .. MaxThinking)
           /\ lastId + 1 \in Ids
  <1>1. /\ turn[t].thought \in 0 .. MaxThinking /\ turn[t].next \in 1 .. MaxThinking + 2
        /\ turn[t].next <= turn[t].thought + 1 /\ MaxThinking \in Nat /\ MaxTurns \in Nat
    BY AgentEventsConstants DEF Typed, TurnRecords, TurnInv, TurnsProceed
  <1>2. What(t) = Done \/ What(t) = turn[t].next
    BY DEF What
  <1>3. ASSUME NEW r \in rows, r.turn = t PROVE r.what # What(t)
    <2>1. r.id # turn[t].held /\ r.what \in 0 .. MaxThinking
      BY RowIds DEF Typed, Rows
    <2>2. r.what # Done /\ r.what < turn[t].next
      BY <1>3, <2>1 DEF TurnInv, TurnsProceed
    <2> QED BY <1>1, <1>2, <2>1, <2>2
  <1>4. <<t, What(t)>> \notin Begun
    BY <1>3 DEF Begun
  <1>5. What(t) \in 0 .. MaxThinking
    BY <1>1 DEF What, Chained, Done
  <1>6. <<t, What(t)>> \in Turns \X (0 .. MaxThinking)
    BY <1>5
  <1>7. Begun \subseteq Turns \X (0 .. MaxThinking) /\ Begun # Turns \X (0 .. MaxThinking)
    BY <1>4, <1>6, BegunBounded
  <1>8. /\ Cardinality(Begun) <= Cardinality(Turns \X (0 .. MaxThinking))
        /\ Cardinality(Begun) # Cardinality(Turns \X (0 .. MaxThinking))
    <2>1. IsFiniteSet(Turns \X (0 .. MaxThinking))
      BY BegunBounded
    <2> QED BY <1>7, <2>1, FS_Subset
  <1>9. Cardinality(Begun) = lastId /\ lastId \in Nat
    BY DEF TurnInv, IdsCounted, Typed, Ids
  <1>10. MaxTurns * (MaxThinking + 1) \in Int
    BY <1>1
  <1>11. lastId + 1 \in 1 .. MaxTurns * (MaxThinking + 1)
    BY <1>8, <1>9, <1>10, BegunBounded
  <1> QED BY <1>4, <1>6, <1>11 DEF Ids

-----------------------------------------------------------------------------
(* What a step makes of an event stream.                                   *)

Opened(st, i, after) == [st EXCEPT !.phase = "checking", !.inst = i, !.after = after]

Started(st) ==
    [st EXCEPT !.phase = "read", !.last = st.after, !.listens = ~st.gone,
               !.replay = IF st.gone THEN <<>> ELSE Buffered(st.after)]

Closed(st) ==
    [st EXCEPT !.closed = TRUE, !.set = 0, !.polls = {}, !.replay = <<>>, !.last = 0, !.after = 0]

Replayed(st) == Push(PushAll(st, st.replay), Connected)

SetLive(st, c) == [st EXCEPT !.phase = "live", !.replay = <<>>, !.set = c]

Polled(st) == [st EXCEPT !.polls = @ \cup {RowsAfter(st.last)}]

Left(st) ==
    [st EXCEPT !.gone = TRUE, !.wire = <<>>, !.replay = <<>>, !.polls = {}, !.last = 0, !.after = 0]

Read(st) == [st EXCEPT !.wire = Tail(@)]

\* One clause per step that concerns the stream.
LEMMA StreamFate ==
    ASSUME Typed, Next, NEW s \in Streams
    PROVE  \/ stream'[s] = stream[s]
           \/ \E i \in Instances : /\ Connect(i) /\ stream[s].phase = "none"
                                   /\ client' = [client EXCEPT !.stream = s]
                                   /\ stream'[s] = Opened(stream[s], i, client.after)
           \/ Start(s) /\ stream'[s] = Started(stream[s])
           \/ (ReplayFails(s) \/ Abort(s)) /\ stream'[s] = Closed(stream[s])
           \/ GoLive(s) /\ stream'[s] = SetLive(Replayed(stream[s]), SubscriptionOf(s))
           \/ PollRead(s) /\ stream'[s] = Polled(stream[s])
           \/ \E found \in stream[s].polls : PollApply(s) /\ stream'[s] = Applied(stream[s], found)
           \/ EnqueueThrows(s) /\ stream'[s] = [stream[s] EXCEPT !.closed = TRUE]
           \/ \E t \in Turns, r \in rows :
                 /\ Fanout(t) /\ turn[t].held # 0 /\ r.id = turn[t].held
                 /\ s \in Listeners(turn[t].inst) /\ stream'[s] = PushDelivery(stream[s], r)
           \/ Receive /\ s = client.stream /\ stream'[s] = Read(stream[s])
           \/ (StreamOver \/ ConnectionFails \/ TurnEnds) /\ s = client.stream /\ stream'[s] = Left(stream[s])
  <1> stream \in [Streams -> StreamRecords]
    BY DEF Typed
  <1>1. ASSUME NEW x \in Streams, Serve(x) \/ Abort(x) PROVE
           \/ stream'[s] = stream[s]
           \/ Start(s) /\ stream'[s] = Started(stream[s])
           \/ (ReplayFails(s) \/ Abort(s)) /\ stream'[s] = Closed(stream[s])
           \/ GoLive(s) /\ stream'[s] = SetLive(Replayed(stream[s]), SubscriptionOf(s))
           \/ PollRead(s) /\ stream'[s] = Polled(stream[s])
           \/ \E found \in stream[s].polls : PollApply(s) /\ stream'[s] = Applied(stream[s], found)
           \/ EnqueueThrows(s) /\ stream'[s] = [stream[s] EXCEPT !.closed = TRUE]
    <2>1. CASE Start(x)
      BY <2>1 DEF Start, Started
    <2>2. CASE ReplayFails(x)
      <3>1. stream' = [stream EXCEPT ![x] = Closed(stream[x])]
        BY ONLY <2>2, stream \in [Streams -> StreamRecords], x \in Streams
           DEF ReplayFails, CloseStream, Closed, StreamRecords
      <3> QED BY <2>2, <3>1
    <2>3. CASE Abort(x)
      <3>1. stream' = [stream EXCEPT ![x] = Closed(stream[x])]
        BY ONLY <2>3, stream \in [Streams -> StreamRecords], x \in Streams
           DEF Abort, CloseStream, Closed, StreamRecords
      <3> QED BY <2>3, <3>1
    <2>4. CASE GoLive(x)
      <3>1. stream' = [stream EXCEPT ![x] = SetLive(Replayed(stream[x]), SubscriptionOf(x))]
        BY <2>4 DEF GoLive, Subscribed, SetLive, Replayed
      <3> QED BY <2>4, <3>1
    <2>5. CASE PollRead(x)
      BY <2>5 DEF PollRead, Polled
    <2>6. CASE PollApply(x)
      <3>1. PICK found \in stream[x].polls : stream' = [stream EXCEPT ![x] = Applied(stream[x], found)]
        BY <2>6 DEF PollApply
      <3> QED BY <2>6, <3>1
    <2>7. CASE EnqueueThrows(x)
      BY <2>7 DEF EnqueueThrows
    <2> QED BY <1>1, <2>1, <2>2, <2>3, <2>4, <2>5, <2>6, <2>7 DEF Serve
  <1>2. ASSUME NEW t \in Turns, TurnStep(t) PROVE
           \/ stream'[s] = stream[s]
           \/ \E r \in rows :
                 /\ Fanout(t) /\ turn[t].held # 0 /\ r.id = turn[t].held
                 /\ s \in Listeners(turn[t].inst) /\ stream'[s] = PushDelivery(stream[s], r)
    <2>1. CASE Insert(t) \/ Commit(t) \/ InsertFails(t)
      BY <2>1 DEF Insert, Commit, InsertFails
    <2>2. CASE Fanout(t)
      BY <2>2 DEF Fanout
    <2> QED BY <1>2, <2>1, <2>2 DEF TurnStep
  <1>3. ASSUME ClientStep PROVE
           \/ stream'[s] = stream[s]
           \/ \E i \in Instances : /\ Connect(i) /\ stream[s].phase = "none"
                                   /\ client' = [client EXCEPT !.stream = s]
                                   /\ stream'[s] = Opened(stream[s], i, client.after)
           \/ Receive /\ s = client.stream /\ stream'[s] = Read(stream[s])
           \/ (StreamOver \/ ConnectionFails \/ TurnEnds) /\ s = client.stream /\ stream'[s] = Left(stream[s])
    <2>1. CASE SendTurn \/ \E i \in Instances : Post(i)
      BY <2>1 DEF SendTurn, Post
    <2>2. CASE Receive
      BY <2>2 DEF Receive, Read
    <2>3. CASE StreamOver \/ ConnectionFails \/ TurnEnds
      <3>1. Leave(client.stream)
        BY <2>3 DEF StreamOver, ConnectionFails, TurnEnds
      <3> QED BY <2>3, <3>1 DEF Leave, Left
    <2>4. ASSUME NEW i \in Instances, Connect(i)
          PROVE  \/ stream'[s] = stream[s]
                 \/ /\ Connect(i) /\ stream[s].phase = "none"
                    /\ client' = [client EXCEPT !.stream = s]
                    /\ stream'[s] = Opened(stream[s], i, client.after)
      <3>1. PICK x \in Streams : /\ stream[x].phase = "none"
                                 /\ stream' = [stream EXCEPT ![x] = Opened(stream[x], i, client.after)]
                                 /\ client' = [client EXCEPT !.stream = x]
        BY <2>4 DEF Connect, Opened
      <3> QED BY <2>4, <3>1
    <2> QED BY <1>3, <2>1, <2>2, <2>3, <2>4 DEF ClientStep
  <1> QED BY <1>1, <1>2, <1>3 DEF Next

LEMMA StreamsRemain ==
    ASSUME Typed, Next
    PROVE  stream' = [s \in Streams |-> stream'[s]]
  <1> stream \in [Streams -> StreamRecords]
    BY DEF Typed
  <1>1. ASSUME NEW x \in Streams, Serve(x) \/ Abort(x) PROVE stream' = [s \in Streams |-> stream'[s]]
    BY <1>1 DEF Serve, Abort, Start, ReplayFails, CloseStream, GoLive, Subscribed, PollRead, PollApply,
                EnqueueThrows
  <1>2. ASSUME NEW t \in Turns, TurnStep(t) PROVE stream' = [s \in Streams |-> stream'[s]]
    BY <1>2 DEF TurnStep, Insert, Commit, InsertFails, Fanout
  <1>3. ASSUME ClientStep PROVE stream' = [s \in Streams |-> stream'[s]]
    BY <1>3 DEF ClientStep, SendTurn, Receive, StreamOver, ConnectionFails, TurnEnds, Leave, Connect, Post
  <1> QED BY <1>1, <1>2, <1>3 DEF Next

\* Two streams that differ only in what they sent.
SameButSent(p, st) ==
    /\ p.phase = st.phase /\ p.inst = st.inst /\ p.after = st.after /\ p.replay = st.replay
    /\ p.polls = st.polls /\ p.set = st.set /\ p.closed = st.closed /\ p.gone = st.gone
    /\ p.listens = st.listens

Chunks == Rows \cup {Connected}

\* PushAll sends the rows above the last id and remembers the newest.
LEMMA PushedAll ==
    ASSUME NEW st \in StreamRecords, NEW q, Ordered(q)
    PROVE  /\ PushAll(st, q) \in StreamRecords
           /\ SameButSent(PushAll(st, q), st)
           /\ st.gone => PushAll(st, q) = st
           /\ ~st.gone => PushAll(st, q).wire = st.wire \o Above(q, st.last)
           /\ PushAll(st, q).last >= st.last
           /\ ~st.gone => \A k \in DOMAIN Above(q, st.last) : Above(q, st.last)[k].id <= PushAll(st, q).last
           /\ \/ PushAll(st, q).last = st.last
              \/ \E k \in DOMAIN Above(q, st.last) : PushAll(st, q).last = Above(q, st.last)[k].id
  <1> DEFINE p == PushAll(st, q)
             f == Above(q, st.last)
  <1>1. st.last \in Nat /\ st.last \in {0} \cup Ids /\ st.wire \in Seq(Chunks)
    BY DEF StreamRecords, Ids, Chunks
  <1>2. Ordered(f) /\ \A k \in DOMAIN f : f[k].id > st.last
    BY <1>1, AboveKeeps
  <1>3. p = IF st.gone \/ f = <<>> THEN st ELSE [st EXCEPT !.wire = @ \o f, !.last = f[Len(f)].id]
    BY DEF PushAll
  <1>4. f \in Seq(Rows) /\ f \in Seq(Chunks) /\ Len(f) \in Nat /\ DOMAIN f = 1 .. Len(f)
    BY <1>2 DEF Ordered, Chunks
  <1>5. SameButSent(st, st)
    BY DEF SameButSent
  <1>6. CASE st.gone
    BY <1>1, <1>3, <1>5, <1>6
  <1>7. CASE ~st.gone /\ f = <<>>
    <2>1. st.wire \o f = st.wire
      BY <1>1, <1>7, ConcatEmptySeq
    <2>2. DOMAIN f = {}
      BY <1>4, <1>7
    <2> QED BY <1>1, <1>3, <1>5, <1>7, <2>1, <2>2
  <1>8. CASE ~st.gone /\ f # <<>>
    <2>1. Len(f) \in DOMAIN f
      BY <1>4, <1>8, EmptySeq
    <2>2. f[Len(f)] \in Rows /\ f[Len(f)].id \in Ids /\ f[Len(f)].id > st.last
      BY <1>2, <1>4, <2>1, ElementOfSeq, RowIds
    <2>3. \A k \in DOMAIN f : f[k].id <= f[Len(f)].id
      <3> TAKE k \in DOMAIN f
      <3>1. k = Len(f) \/ k < Len(f)
        BY <1>4
      <3>2. k < Len(f) => f[k].id < f[Len(f)].id
        BY <1>2, <2>1 DEF Ordered
      <3>3. f[k].id \in Nat /\ f[Len(f)].id \in Nat
        BY <1>4, <2>2, ElementOfSeq, RowIds
      <3> QED BY <3>1, <3>2, <3>3
    <2>4. st.wire \o f \in Seq(Chunks)
      BY <1>1, <1>4, ConcatProperties
    <2>5. p = [st EXCEPT !.wire = st.wire \o f, !.last = f[Len(f)].id]
      BY <1>3, <1>8
    <2>6. p \in StreamRecords /\ p.wire = st.wire \o f /\ p.last = f[Len(f)].id /\ SameButSent(p, st)
      <3> DEFINE w == st.wire \o f
                 l == f[Len(f)].id
      <3>1. w \in Seq(Chunks) /\ l \in {0} \cup Ids
        BY <2>2, <2>4
      <3>2. p = [st EXCEPT !.wire = w, !.last = l]
        BY <2>5
      <3> HIDE DEF w, l, p, f
      <3>3. p \in StreamRecords /\ p.wire = w /\ p.last = l /\ SameButSent(p, st)
        BY ONLY <3>1, <3>2, st \in StreamRecords DEF StreamRecords, SameButSent, Chunks
      <3> QED BY <3>3 DEF w, l
    <2>7. p.last >= st.last
      BY <1>1, <2>2, <2>6 DEF Ids
    <2> QED BY <1>8, <2>1, <2>3, <2>6, <2>7
  <1> QED BY <1>6, <1>7, <1>8

\* One delivery, and the connected comment.
LEMMA PushedOne ==
    ASSUME NEW st \in StreamRecords, NEW row \in Rows
    PROVE  /\ PushDelivery(st, row) \in StreamRecords
           /\ SameButSent(PushDelivery(st, row), st)
           /\ st.gone \/ row.id <= st.last => PushDelivery(st, row) = st
           /\ ~st.gone /\ row.id > st.last => PushDelivery(st, row).last = row.id
           /\ ~st.gone /\ row.id > st.last /\ ~st.closed => PushDelivery(st, row).wire = Append(st.wire, row)
           /\ Push(st, Connected) \in StreamRecords
           /\ SameButSent(Push(st, Connected), st)
           /\ Push(st, Connected).last = st.last
           /\ ~st.gone /\ ~st.closed => Push(st, Connected).wire = Append(st.wire, Connected)
           /\ st.gone => Push(st, Connected) = st
  <1>1. st.last \in Nat /\ st.wire \in Seq(Chunks) /\ row.id \in Ids /\ row.id \in Nat
    BY RowIds DEF StreamRecords, Ids, Chunks
  <1>2. Append(st.wire, row) \in Seq(Chunks) /\ Append(st.wire, Connected) \in Seq(Chunks)
    BY <1>1, AppendProperties DEF Chunks
  <1>3. SameButSent(st, st)
    BY DEF SameButSent
  <1>4. \A c \in Chunks : st.closed \/ st.gone => Push(st, c) = st
    BY DEF Push
  <1>5. \A c \in Chunks : ~st.closed /\ ~st.gone => Push(st, c) = [st EXCEPT !.wire = Append(st.wire, c)]
    BY DEF Push
  <1>6. row \in Chunks /\ Connected \in Chunks
    BY DEF Chunks
  <1>7. /\ Push(st, Connected) \in StreamRecords
        /\ SameButSent(Push(st, Connected), st)
        /\ Push(st, Connected).last = st.last
        /\ ~st.gone /\ ~st.closed => Push(st, Connected).wire = Append(st.wire, Connected)
        /\ st.gone => Push(st, Connected) = st
    <2> DEFINE w == Append(st.wire, Connected)
    <2>1. CASE st.gone \/ st.closed
      BY <1>3, <1>4, <1>6, <2>1
    <2>2. CASE ~st.gone /\ ~st.closed
      <3>1. Push(st, Connected) = [st EXCEPT !.wire = w] /\ w \in Seq(Chunks)
        BY <1>2, <1>5, <1>6, <2>2
      <3> HIDE DEF w
      <3>2. /\ Push(st, Connected) \in StreamRecords /\ Push(st, Connected).wire = w
            /\ Push(st, Connected).last = st.last /\ SameButSent(Push(st, Connected), st)
        BY ONLY <1>1, <3>1, st \in StreamRecords DEF StreamRecords, SameButSent, Chunks
      <3> QED BY <2>2, <3>2 DEF w
    <2> QED BY <2>1, <2>2
  <1>8. CASE st.gone \/ row.id <= st.last
    <2>1. PushDelivery(st, row) = st
      BY <1>8 DEF PushDelivery
    <2> QED BY <1>1, <1>3, <1>7, <1>8, <2>1
  <1>9. CASE ~st.gone /\ row.id > st.last /\ st.closed
    <2>1. PushDelivery(st, row) = [st EXCEPT !.last = row.id]
      BY <1>1, <1>4, <1>6, <1>9 DEF PushDelivery
    <2>2. [st EXCEPT !.last = row.id] \in StreamRecords /\ SameButSent([st EXCEPT !.last = row.id], st)
          /\ [st EXCEPT !.last = row.id].last = row.id
      BY <1>1 DEF StreamRecords, SameButSent
    <2> QED BY <1>1, <1>7, <1>9, <2>1, <2>2
  <1>10. CASE ~st.gone /\ row.id > st.last /\ ~st.closed
    <2> DEFINE w == Append(st.wire, row)
    <2>1. PushDelivery(st, row) = [[st EXCEPT !.wire = w] EXCEPT !.last = row.id]
      <3>1. Push(st, row) = [st EXCEPT !.wire = w]
        BY <1>5, <1>6, <1>10
      <3>2. PushDelivery(st, row) = [Push(st, row) EXCEPT !.last = row.id]
        BY <1>1, <1>10 DEF PushDelivery
      <3> QED BY ONLY <3>1, <3>2
    <2>2. w \in Seq(Chunks)
      BY <1>2
    <2> HIDE DEF w
    <2>3. /\ PushDelivery(st, row) \in StreamRecords /\ SameButSent(PushDelivery(st, row), st)
          /\ PushDelivery(st, row).last = row.id /\ PushDelivery(st, row).wire = w
      BY ONLY <1>1, <2>1, <2>2, st \in StreamRecords DEF StreamRecords, SameButSent, Chunks
    <2> QED BY <1>1, <1>7, <1>10, <2>3 DEF w
  <1> QED BY <1>1, <1>8, <1>9, <1>10

\* The other values.
LEMMA StreamValues ==
    ASSUME NEW st \in StreamRecords
    PROVE  /\ \A i \in Instances, after \in {0} \cup Ids :
                 LET p == Opened(st, i, after)
                 IN  /\ p \in StreamRecords /\ p.phase = "checking" /\ p.inst = i /\ p.after = after
                     /\ p.wire = st.wire /\ p.last = st.last /\ p.replay = st.replay /\ p.polls = st.polls
                     /\ p.set = st.set /\ p.closed = st.closed /\ p.gone = st.gone
           /\ LET p == Closed(st)
              IN  /\ p \in StreamRecords /\ p.phase = st.phase /\ p.inst = st.inst /\ p.after = 0
                  /\ p.wire = st.wire /\ p.last = 0 /\ p.replay = <<>> /\ p.polls = {}
                  /\ p.set = 0 /\ p.closed = TRUE /\ p.gone = st.gone
           /\ LET p == Left(st)
              IN  /\ p \in StreamRecords /\ p.phase = st.phase /\ p.inst = st.inst /\ p.after = 0
                  /\ p.wire = <<>> /\ p.last = 0 /\ p.replay = <<>> /\ p.polls = {}
                  /\ p.set = st.set /\ p.closed = st.closed /\ p.gone = TRUE
           /\ LET p == [st EXCEPT !.closed = TRUE]
              IN  /\ p \in StreamRecords /\ p.phase = st.phase /\ p.inst = st.inst /\ p.after = st.after
                  /\ p.wire = st.wire /\ p.last = st.last /\ p.replay = st.replay /\ p.polls = st.polls
                  /\ p.set = st.set /\ p.closed = TRUE /\ p.gone = st.gone
           /\ \A c \in {0} \cup Streams :
                 LET p == SetLive(st, c)
                 IN  /\ p \in StreamRecords /\ p.phase = "live" /\ p.inst = st.inst /\ p.after = st.after
                     /\ p.wire = st.wire /\ p.last = st.last /\ p.replay = <<>> /\ p.polls = st.polls
                     /\ p.set = c /\ p.closed = st.closed /\ p.gone = st.gone
  <1>1. <<>> \in Seq(Rows) /\ <<>> \in Seq(Chunks) /\ {} \in SUBSET Seq(Rows)
    OBVIOUS
  <1> QED BY <1>1, ZenonT(40) DEF StreamRecords, Chunks, Opened, Closed, Left, SetLive

LEMMA TableKept == ASSUME Typed, TurnInv PROVE Table
  BY DEF Typed, TurnInv, IdsApart, Table

\* What is replayed is sent before the connected comment.
LEMMA ReplayedSent ==
    ASSUME NEW st \in StreamRecords, Ordered(st.replay)
    PROVE  /\ Replayed(st) \in StreamRecords
           /\ SameButSent(Replayed(st), st)
           /\ Replayed(st).last = PushAll(st, st.replay).last
           /\ ~st.gone /\ ~st.closed =>
                 Replayed(st).wire = Append(st.wire \o Above(st.replay, st.last), Connected)
           /\ st.gone => Replayed(st) = st
  <1> DEFINE p == PushAll(st, st.replay)
  <1>1. /\ p \in StreamRecords /\ SameButSent(p, st)
        /\ st.gone => p = st
        /\ ~st.gone => p.wire = st.wire \o Above(st.replay, st.last)
    BY PushedAll
  <1> HIDE DEF p
  <1>2. Replayed(st) = Push(p, Connected)
    BY DEF Replayed, p
  <1>3. \E row \in Rows : TRUE
    <2>1. /\ 1 \in Ids /\ 1 \in Turns /\ 0 \in 0 .. MaxThinking
      <3>1. MaxTurns \in Nat \ {0} /\ MaxThinking \in Nat
        BY AgentEventsConstants
      <3>2. MaxTurns * (MaxThinking + 1) >= 1
        BY <3>1
      <3>3. MaxTurns * (MaxThinking + 1) \in Int
        BY <3>1
      <3> QED BY <3>1, <3>2, <3>3 DEF Ids, Turns
    <2>2. [id |-> 1, turn |-> 1, what |-> 0] \in Rows
      BY <2>1 DEF Rows
    <2> QED BY <2>2
  <1>4. /\ Push(p, Connected) \in StreamRecords
        /\ SameButSent(Push(p, Connected), p)
        /\ Push(p, Connected).last = p.last
        /\ ~p.gone /\ ~p.closed => Push(p, Connected).wire = Append(p.wire, Connected)
        /\ p.gone => Push(p, Connected) = p
    BY <1>1, <1>3, PushedOne
  <1>5. p.gone = st.gone /\ p.closed = st.closed
    BY <1>1 DEF SameButSent
  <1>6. SameButSent(Replayed(st), st)
    BY <1>1, <1>2, <1>4 DEF SameButSent
  <1> QED BY <1>1, <1>2, <1>4, <1>5, <1>6 DEF p

LEMMA StreamTyped ==
    ASSUME Typed, TurnInv, Next, NEW s \in Streams
    PROVE  stream'[s] \in StreamRecords /\ Ordered(stream'[s].replay) /\ \A q \in stream'[s].polls : Ordered(q)
  <1> DEFINE st == stream[s]
             p == stream'[s]
             G == p \in StreamRecords /\ Ordered(p.replay) /\ \A q \in p.polls : Ordered(q)
  <1>1. st \in StreamRecords /\ Ordered(st.replay) /\ \A q \in st.polls : Ordered(q)
    BY DEF Typed
  <1>2. Ordered(<<>>)
    BY DEF Ordered
  <1>3. /\ st.after \in Nat /\ st.last \in Nat /\ Table
    BY <1>1, TableKept DEF StreamRecords, Ids
  <1>4. client.after \in {0} \cup Ids
    BY DEF Typed, ClientRecords
  <1> HIDE DEF st, p
  <1>5. ASSUME p = st PROVE G
    BY <1>1, <1>5
  <1>6. ASSUME NEW i \in Instances, p = Opened(st, i, client.after) PROVE G
    <2> DEFINE a == client.after
    <2>1. a \in {0} \cup Ids /\ p = Opened(st, i, a)
      BY <1>4, <1>6
    <2> HIDE DEF a
    <2>2. p \in StreamRecords /\ p.replay = st.replay /\ p.polls = st.polls
      BY ONLY <1>1, <2>1, i \in Instances DEF Opened, StreamRecords
    <2> QED BY <1>1, <2>2
  <1>7. ASSUME p = Started(st) PROVE G
    <2>1. Ordered(Buffered(st.after))
      BY <1>3, ReplayedRows
    <2>2. Buffered(st.after) \in Seq(Rows) /\ <<>> \in Seq(Rows)
      BY <2>1 DEF Ordered
    <2>3. p \in StreamRecords /\ p.polls = st.polls /\ p.replay \in {<<>>, Buffered(st.after)}
      BY ONLY <1>1, <1>7, <2>2 DEF Started, StreamRecords
    <2> QED BY <1>1, <1>2, <2>1, <2>3
  <1>8. ASSUME p = Closed(st) PROVE G
    BY <1>1, <1>2, <1>8, StreamValues
  <1>9. ASSUME p = SetLive(Replayed(st), SubscriptionOf(s)) PROVE G
    <2>1. SubscriptionOf(s) \in {0} \cup Streams
      BY <1>1 DEF SubscriptionOf, Typed, st, StreamRecords
    <2>2. Replayed(st) \in StreamRecords /\ Replayed(st).polls = st.polls
      BY <1>1, ReplayedSent DEF SameButSent
    <2>3. p \in StreamRecords /\ p.replay = <<>> /\ p.polls = Replayed(st).polls
      BY <1>9, <2>1, <2>2, StreamValues, ZenonT(40)
    <2> QED BY <1>1, <1>2, <2>2, <2>3
  <1>10. ASSUME p = Polled(st) PROVE G
    <2>1. Ordered(RowsAfter(st.last))
      BY <1>3, PolledRows
    <2>2. RowsAfter(st.last) \in Seq(Rows)
      BY <2>1 DEF Ordered
    <2>3. p \in StreamRecords /\ p.polls = st.polls \cup {RowsAfter(st.last)} /\ p.replay = st.replay
      BY ONLY <1>1, <1>10, <2>2 DEF Polled, StreamRecords
    <2> QED BY <1>1, <2>1, <2>3
  <1>11. ASSUME NEW found \in st.polls, p = Applied(st, found) PROVE G
    <2> DEFINE pushed == PushAll(st, found)
    <2>1. pushed \in StreamRecords /\ pushed.replay = st.replay /\ pushed.polls = st.polls
      BY <1>1, PushedAll DEF SameButSent
    <2>2. p = [pushed EXCEPT !.polls = @ \ {found}]
      BY <1>11 DEF Applied
    <2> HIDE DEF pushed
    <2>3. p \in StreamRecords /\ p.replay = pushed.replay /\ p.polls = pushed.polls \ {found}
      BY ONLY <2>1, <2>2 DEF StreamRecords
    <2> QED BY <1>1, <2>1, <2>3
  <1>12. ASSUME p = [st EXCEPT !.closed = TRUE] PROVE G
    BY <1>1, <1>12, StreamValues
  <1>13. ASSUME NEW r \in rows, p = PushDelivery(st, r) PROVE G
    <2>1. r \in Rows
      BY DEF Typed
    <2>2. p \in StreamRecords /\ p.replay = st.replay /\ p.polls = st.polls
      BY <1>1, <1>13, <2>1, PushedOne DEF SameButSent
    <2> QED BY <1>1, <2>2
  <1>14. ASSUME Receive, s = client.stream, p = Read(st) PROVE G
    <2>1. st.wire \in Seq(Chunks) /\ st.wire # <<>>
      BY <1>1, <1>14 DEF Receive, StreamRecords, Chunks, st
    <2>2. Tail(st.wire) \in Seq(Chunks)
      BY <2>1, HeadTailProperties
    <2>3. p \in StreamRecords /\ p.replay = st.replay /\ p.polls = st.polls
      BY ONLY <1>1, <1>14, <2>2 DEF Read, StreamRecords, Chunks
    <2> QED BY <1>1, <2>3
  <1>15. ASSUME p = Left(st) PROVE G
    BY <1>1, <1>2, <1>15, StreamValues
  <1>16. \/ p = st \/ p = Started(st) \/ p = Closed(st)
         \/ p = SetLive(Replayed(st), SubscriptionOf(s))
         \/ p = Polled(st) \/ p = [st EXCEPT !.closed = TRUE] \/ p = Left(st)
         \/ \E i \in Instances : p = Opened(st, i, client.after)
         \/ \E found \in st.polls : p = Applied(st, found)
         \/ \E r \in rows : p = PushDelivery(st, r)
         \/ Receive /\ s = client.stream /\ p = Read(st)
    BY StreamFate DEF st, p
  <1> HIDE DEF G
  <1>17. G
    BY <1>5, <1>6, <1>7, <1>8, <1>9, <1>10, <1>11, <1>12, <1>13, <1>14, <1>15, <1>16
  <1> QED BY <1>17 DEF p, G

\* The actions of the browser and what they leave.
LEMMA TurnSide ==
    ASSUME Typed, Next
    PROVE  \/ /\ UNCHANGED <<rows, lastId, turn>>
              /\ client'.turn = client.turn /\ client'.phase \in {client.phase, "idle"}
           \/ SendTurn
           \/ \E i \in Instances : Post(i)
           \/ \E t \in Turns : TurnStep(t)
  <1> client \in ClientRecords
    BY DEF Typed
  <1>1. ASSUME NEW s \in Streams, Serve(s) \/ Abort(s) PROVE UNCHANGED <<rows, lastId, turn, client>>
    BY <1>1 DEF Serve, Abort, Start, ReplayFails, GoLive, PollRead, PollApply, EnqueueThrows
  <1>2. ASSUME Receive \/ StreamOver \/ ConnectionFails \/ TurnEnds \/ \E i \in Instances : Connect(i)
        PROVE  /\ UNCHANGED <<rows, lastId, turn>>
               /\ client'.turn = client.turn /\ client'.phase \in {client.phase, "idle"}
    <2>1. CASE Receive
      BY <2>1 DEF Receive, ClientRecords
    <2>2. CASE StreamOver \/ ConnectionFails \/ TurnEnds
      BY <2>2 DEF StreamOver, ConnectionFails, TurnEnds, Idle, ClientRecords
    <2>3. CASE \E i \in Instances : Connect(i)
      <3>1. PICK x \in Streams : client' = [client EXCEPT !.stream = x]
        BY <2>3 DEF Connect
      <3>2. UNCHANGED <<rows, lastId, turn>>
        BY <2>3 DEF Connect
      <3> QED BY <3>1, <3>2 DEF ClientRecords
    <2> QED BY <1>2, <2>1, <2>2, <2>3
  <1> QED BY <1>1, <1>2 DEF Next, ClientStep

LEMMA ClientTyped ==
    ASSUME Typed, Next
    PROVE  client' \in ClientRecords
  <1>1. client \in ClientRecords
    BY DEF Typed
  <1>2. ASSUME UNCHANGED client PROVE client' \in ClientRecords
    BY <1>1, <1>2
  <1>3. Idle \in ClientRecords
    <2>1. <<>> \in Seq(Ids)
      OBVIOUS
    <2> QED BY ONLY <1>1, <2>1 DEF Idle, ClientRecords
  <1>4. ASSUME SendTurn PROVE client' \in ClientRecords
    <2>1. client.turn + 1 \in {0} \cup Turns
      BY <1>1, <1>4, AgentEventsConstants DEF SendTurn, ClientRecords, Turns
    <2>2. client' = [Idle EXCEPT !.phase = "opening", !.turn = client.turn + 1]
      BY <1>1, <1>4 DEF SendTurn, Idle, ClientRecords
    <2> QED BY ONLY <1>3, <2>1, <2>2 DEF ClientRecords
  <1>5. ASSUME Receive PROVE client' \in ClientRecords
    <2> DEFINE wire == stream[client.stream].wire
               chunk == Head(wire)
    <2>1. wire \in Seq(Chunks) /\ wire # <<>>
      BY <1>1, <1>5 DEF Receive, Typed, StreamRecords, ClientRecords, Chunks
    <2>2. chunk \in Chunks
      BY <2>1, HeadTailProperties
    <2>3. client' = IF chunk = Connected THEN [client EXCEPT !.ready = TRUE]
                    ELSE [client EXCEPT !.after = chunk.id, !.got = Append(@, chunk.id)]
      BY <1>5 DEF Receive
    <2> HIDE DEF chunk
    <2>4. CASE chunk = Connected
      BY ONLY <1>1, <2>3, <2>4 DEF ClientRecords
    <2>5. CASE chunk # Connected
      <3>1. chunk.id \in Ids
        BY <2>2, <2>5, RowIds DEF Chunks
      <3>2. Append(client.got, chunk.id) \in Seq(Ids)
        BY <1>1, <3>1 DEF ClientRecords
      <3> QED BY ONLY <1>1, <2>3, <2>5, <3>1, <3>2 DEF ClientRecords
    <2> QED BY <2>4, <2>5
  <1>6. ASSUME StreamOver \/ ConnectionFails \/ TurnEnds PROVE client' \in ClientRecords
    BY <1>1, <1>3, <1>6 DEF StreamOver, ConnectionFails, TurnEnds, ClientRecords
  <1>7. ASSUME NEW i \in Instances, Connect(i) PROVE client' \in ClientRecords
    <2>1. PICK x \in Streams : client' = [client EXCEPT !.stream = x]
      BY <1>7 DEF Connect
    <2> QED BY ONLY <1>1, <2>1 DEF ClientRecords
  <1>8. ASSUME NEW i \in Instances, Post(i) PROVE client' \in ClientRecords
    <2>1. client' = [client EXCEPT !.phase = "posted"]
      BY <1>8 DEF Post
    <2> QED BY ONLY <1>1, <2>1 DEF ClientRecords
  <1>9. ASSUME NEW s \in Streams, Serve(s) \/ Abort(s) PROVE UNCHANGED client
    BY <1>9 DEF Serve, Abort, Start, ReplayFails, GoLive, PollRead, PollApply, EnqueueThrows
  <1>10. ASSUME NEW t \in Turns, TurnStep(t) PROVE UNCHANGED client
    BY <1>10 DEF TurnStep, Insert, Commit, InsertFails, Fanout
  <1> QED BY <1>2, <1>4, <1>5, <1>6, <1>7, <1>8, <1>9, <1>10 DEF Next, ClientStep

LEMMA ChannelTyped ==
    ASSUME Typed, Next
    PROVE  channel' \in [Instances -> {0} \cup Streams]
  <1>1. channel \in [Instances -> {0} \cup Streams] /\ stream \in [Streams -> StreamRecords]
    BY DEF Typed
  <1>2. ASSUME NEW s \in Streams, GoLive(s) PROVE channel' \in [Instances -> {0} \cup Streams]
    <2>1. channel' = [channel EXCEPT ![Replayed(stream[s]).inst] = SubscriptionOf(s)]
      <3>1. [Replayed(stream[s]) EXCEPT !.phase = "live", !.replay = <<>>].inst = Replayed(stream[s]).inst
        BY <1>1, ReplayedSent DEF Typed, StreamRecords
      <3> QED BY <1>2, <3>1 DEF GoLive, Subscribed, Replayed
    <2>2. SubscriptionOf(s) \in {0} \cup Streams
      BY <1>1 DEF SubscriptionOf, StreamRecords
    <2> QED BY <1>1, <2>1, <2>2
  <1>3. ASSUME NEW s \in Streams, ReplayFails(s) \/ Abort(s) PROVE channel' \in [Instances -> {0} \cup Streams]
    BY <1>1, <1>3 DEF ReplayFails, Abort, CloseStream, Unsubscribed
  <1>4. ASSUME NEW s \in Streams, Serve(s)
        PROVE  GoLive(s) \/ ReplayFails(s) \/ UNCHANGED channel
    BY <1>4 DEF Serve, Start, PollRead, PollApply, EnqueueThrows
  <1>5. ASSUME ClientStep PROVE UNCHANGED channel
    BY <1>5 DEF ClientStep, SendTurn, Receive, StreamOver, ConnectionFails, TurnEnds, Connect, Post
  <1>6. ASSUME NEW t \in Turns, TurnStep(t) PROVE UNCHANGED channel
    BY <1>6 DEF TurnStep, Insert, Commit, InsertFails, Fanout
  <1> QED BY <1>1, <1>2, <1>3, <1>4, <1>5, <1>6 DEF Next

\* The end of a publication.
LEMMA PublishedTurn ==
    ASSUME Typed, NEW t \in Turns, turn[t].phase = "open", turn[t].next <= turn[t].thought + 1
    PROVE  /\ Published(t) \in TurnRecords /\ Published(t).held = 0 /\ Published(t).inst = turn[t].inst
           /\ Chained(t) => /\ Published(t).phase = "open" /\ Published(t).next = turn[t].next + 1
                            /\ Published(t).thought = turn[t].thought
                            /\ turn[t].next + 1 <= turn[t].thought + 1
           /\ ~Chained(t) => Published(t).phase = "finished"
  <1>1. turn[t] \in TurnRecords
    BY DEF Typed
  <1>2. /\ turn[t].thought \in 0 .. MaxThinking /\ turn[t].next \in 1 .. MaxThinking + 2
        /\ MaxThinking \in Nat
    BY <1>1, AgentEventsConstants DEF TurnRecords
  <1>3. CASE Chained(t)
    <2>1. turn[t].next + 1 \in 1 .. MaxThinking + 2 /\ turn[t].next + 1 <= turn[t].thought + 1
      BY <1>2, <1>3 DEF Chained
    <2>2. Published(t) = [turn[t] EXCEPT !.held = 0, !.next = turn[t].next + 1]
      BY <1>1, <1>3 DEF Published, TurnRecords
    <2> QED BY ONLY <1>1, <1>3, <2>1, <2>2, turn[t].phase = "open" DEF TurnRecords
  <1>4. CASE ~Chained(t)
    <2>1. Published(t) = [turn[t] EXCEPT !.held = 0, !.phase = "finished", !.next = 1, !.thought = 0]
      BY <1>4 DEF Published
    <2>2. 1 \in 1 .. MaxThinking + 2 /\ 0 \in 0 .. MaxThinking
      BY <1>2
    <2> QED BY ONLY <1>1, <1>4, <2>1, <2>2 DEF TurnRecords
  <1> QED BY <1>3, <1>4

LEMMA TurnTyped ==
    ASSUME Typed, TurnInv, Next
    PROVE  /\ rows' \subseteq Rows /\ IsFiniteSet(rows') /\ lastId' \in {0} \cup Ids
           /\ turn' \in [Turns -> TurnRecords]
  <1>1. /\ rows \subseteq Rows /\ IsFiniteSet(rows) /\ lastId \in {0} \cup Ids
        /\ turn \in [Turns -> TurnRecords]
    BY DEF Typed
  <1>2. \A t \in Turns : turn[t].phase = "open" => turn[t].next <= turn[t].thought + 1
    BY DEF TurnInv, TurnsProceed
  <1>3. \A t \in Turns : turn[t].held # 0 => turn[t].phase = "open"
    BY DEF TurnInv, TurnsProceed
  <1>4. ASSUME NEW t \in Turns, Insert(t)
        PROVE  UNCHANGED rows /\ lastId' \in Ids /\ turn' \in [Turns -> TurnRecords]
    <2>1. turn[t].phase = "open" /\ turn[t].held = 0
      BY <1>4 DEF Insert
    <2>2. lastId' = lastId + 1 /\ turn' = [turn EXCEPT ![t].held = lastId'] /\ UNCHANGED rows
      BY <1>4 DEF Insert
    <2>3. lastId' \in Ids
      BY <2>1, <2>2, RoomForId
    <2> QED BY <1>1, <2>2, <2>3 DEF TurnRecords
  <1>5. ASSUME NEW t \in Turns, Commit(t)
        PROVE  UNCHANGED <<lastId, turn>> /\ rows' \subseteq Rows /\ IsFiniteSet(rows')
    <2> DEFINE r == [id |-> turn[t].held, turn |-> t, what |-> What(t)]
    <2>1. rows' = rows \cup {r} /\ UNCHANGED <<lastId, turn>> /\ turn[t].held # 0
      BY <1>5 DEF Commit
    <2>2. What(t) \in 0 .. MaxThinking
      <3>1. turn[t].thought \in 0 .. MaxThinking /\ turn[t].next \in 1 .. MaxThinking + 2
        BY <1>1 DEF TurnRecords
      <3> QED BY <3>1, AgentEventsConstants DEF What, Chained, Done
    <2>3. turn[t].held \in Ids
      BY <1>1, <2>1 DEF TurnRecords
    <2>4. r \in Rows
      BY <2>2, <2>3 DEF Rows
    <2> HIDE DEF r
    <2> QED BY <1>1, <2>1, <2>4, FS_AddElement
  <1>6. ASSUME NEW t \in Turns, InsertFails(t) \/ Fanout(t)
        PROVE  UNCHANGED <<rows, lastId>> /\ turn' \in [Turns -> TurnRecords]
    <2>1. /\ turn[t].phase = "open" /\ turn' = [turn EXCEPT ![t] = Published(t)]
          /\ UNCHANGED <<rows, lastId>>
      BY <1>3, <1>6 DEF InsertFails, Fanout
    <2>2. Published(t) \in TurnRecords
      BY <1>2, <2>1, PublishedTurn
    <2> QED BY <1>1, <2>1, <2>2
  <1>7. ASSUME NEW i \in Instances, Post(i)
        PROVE  UNCHANGED <<rows, lastId>> /\ turn' \in [Turns -> TurnRecords]
    <2>1. PICK queried \in Queried(client.turn, i) : turn' = [turn EXCEPT ![client.turn] = queried]
      BY <1>7 DEF Post
    <2>2. client.turn \in Turns
      BY <1>7 DEF Post, TurnInv, PostedOnce, Typed, ClientRecords
    <2>3. turn[client.turn] \in TurnRecords
      BY <1>1, <2>2
    <2>4. 0 \in 0 .. MaxThinking
      BY AgentEventsConstants
    <2>5. queried \in TurnRecords
      <3> DEFINE c == client.turn
      <3>1. turn[c] \in TurnRecords /\ queried \in Queried(c, i)
        BY <2>1, <2>3
      <3> HIDE DEF c
      <3> QED BY ONLY <3>1, i \in Instances DEF Queried, TurnRecords
    <2> QED BY <1>1, <1>7, <2>1, <2>2, <2>5 DEF Post
  <1>8. ASSUME SendTurn PROVE UNCHANGED <<rows, lastId, turn>>
    BY <1>8 DEF SendTurn
  <1> QED BY <1>1, <1>4, <1>5, <1>6, <1>7, <1>8, TurnSide DEF TurnStep

LEMMA TypedStep == ASSUME Typed, TurnInv, Next PROVE Typed'
  <1>1. stream' \in [Streams -> StreamRecords]
    BY StreamTyped, StreamsRemain
  <1>2. \A s \in Streams : Ordered(stream'[s].replay) /\ \A q \in stream'[s].polls : Ordered(q)
    BY StreamTyped
  <1>3. /\ rows' \subseteq Rows /\ IsFiniteSet(rows') /\ lastId' \in {0} \cup Ids
        /\ turn' \in [Turns -> TurnRecords]
    BY TurnTyped
  <1>4. channel' \in [Instances -> {0} \cup Streams] /\ client' \in ClientRecords
    BY ChannelTyped, ClientTyped
  <1> QED BY <1>1, <1>2, <1>3, <1>4 DEF Typed

\* A turn takes the next id.
LEMMA InsertKeeps ==
    ASSUME Typed, TurnInv, NEW t \in Turns, Insert(t)
    PROVE  TurnInv'
  <1>1. /\ turn \in [Turns -> TurnRecords] /\ lastId \in Nat /\ rows \subseteq Rows
        /\ client.turn \in {0} \cup Turns
    BY DEF Typed, Ids, ClientRecords
  <1>2. /\ turn[t].phase = "open" /\ turn[t].held = 0 /\ lastId' = lastId + 1
        /\ turn' = [turn EXCEPT ![t].held = lastId + 1] /\ UNCHANGED <<rows, client>>
    BY DEF Insert
  <1>3. /\ \A u \in Turns : /\ turn'[u].phase = turn[u].phase /\ turn'[u].next = turn[u].next
                            /\ turn'[u].thought = turn[u].thought
                            /\ turn'[u].held = IF u = t THEN lastId + 1 ELSE turn[u].held
    BY <1>1, <1>2 DEF TurnRecords
  <1>4. \A u \in Turns : What(u)' = What(u)
    BY <1>3 DEF What, Chained
  <1>5. \A u \in Turns : turn[u].held \in Nat /\ turn[u].held <= lastId
    BY <1>1 DEF TurnInv, IdsApart, TurnRecords, Ids
  <1>6. \A r \in rows : r.id \in Nat /\ r.id >= 1 /\ r.id <= lastId /\ r.turn \in Turns
    BY <1>1, RowIds DEF TurnInv, IdsApart, Rows
  <1>7. IdsApart'
    <2>1. /\ \A a, b \in rows : a.id = b.id => a = b
          /\ \A a, b \in rows : a.turn = b.turn /\ a.what = b.what => a = b
          /\ \A u, v \in Turns : turn[u].held = turn[v].held /\ turn[u].held # 0 => u = v
          /\ \A u \in Turns, r \in rows :
                turn[u].held # 0 /\ r.id = turn[u].held => r.turn = u /\ r.what = What(u)
      BY DEF TurnInv, IdsApart
    <2>2. \A r \in rows : r.id <= lastId + 1 /\ r.id # lastId + 1
      BY <1>1, <1>6
    <2>3. \A u \in Turns : turn'[u].held <= lastId + 1
      BY <1>1, <1>3, <1>5
    <2>4. \A u, v \in Turns : turn'[u].held = turn'[v].held /\ turn'[u].held # 0 => u = v
      BY <1>1, <1>3, <1>5, <2>1
    <2>5. \A u \in Turns, r \in rows :
             turn'[u].held # 0 /\ r.id = turn'[u].held => r.turn = u /\ r.what = What(u)
      BY <1>3, <2>1, <2>2
    <2> QED BY <1>2, <1>4, <2>1, <2>2, <2>3, <2>4, <2>5 DEF IdsApart
  <1>8. TurnsProceed'
    <2>1. \A u \in Turns : /\ turn'[u].held # 0 => turn'[u].phase = "open"
                           /\ turn'[u].phase = "none" => turn'[u].next = 1
                           /\ turn'[u].phase = "open" => turn'[u].next <= turn'[u].thought + 1
      BY <1>2, <1>3 DEF TurnInv, TurnsProceed
    <2>2. ASSUME NEW r \in rows
          PROVE  /\ turn'[r.turn].phase # "none"
                 /\ turn'[r.turn].held # 0 => r.id <= turn'[r.turn].held
                 /\ turn'[r.turn].phase = "open" =>
                       r.id = turn'[r.turn].held \/ (r.what # Done /\ r.what < turn'[r.turn].next)
      <3>1. /\ turn[r.turn].phase # "none"
            /\ turn[r.turn].held # 0 => r.id <= turn[r.turn].held
            /\ turn[r.turn].phase = "open" =>
                  r.id = turn[r.turn].held \/ (r.what # Done /\ r.what < turn[r.turn].next)
        BY DEF TurnInv, TurnsProceed
      <3>2. r.id <= lastId + 1
        BY <1>1, <1>6
      <3> QED BY <1>2, <1>3, <1>6, <3>1, <3>2
    <2> QED BY <1>2, <2>1, <2>2 DEF TurnsProceed
  <1>9. PostedOnce'
    <2>1. client.phase = "opening" => client.turn \in Turns
      BY <1>1 DEF TurnInv, PostedOnce
    <2> QED BY <1>2, <1>3, <2>1 DEF TurnInv, PostedOnce
  <1>10. DoneIsLast'
    BY <1>2 DEF TurnInv, DoneIsLast
  <1>11. IdsCounted'
    <2>1. Begun' = Begun \cup {<<t, What(t)>>}
      <3>1. {<<u, What(u)'>> : u \in {v \in Turns : turn'[v].held # 0}}
            = {<<u, What(u)>> : u \in {v \in Turns : turn[v].held # 0}} \cup {<<t, What(t)>>}
        BY <1>1, <1>2, <1>3, <1>4
      <3> QED BY <1>2, <3>1 DEF Begun
    <2>2. <<t, What(t)>> \notin Begun /\ IsFiniteSet(Begun)
      BY <1>2, RoomForId, BegunBounded
    <2>3. Cardinality(Begun \cup {<<t, What(t)>>}) = Cardinality(Begun) + 1
      BY <2>2, FS_AddElement
    <2> QED BY <1>2, <2>1, <2>3 DEF TurnInv, IdsCounted
  <1> QED BY <1>7, <1>8, <1>9, <1>10, <1>11 DEF TurnInv

\* The row of the id that a turn holds becomes visible.
LEMMA CommitKeeps ==
    ASSUME Typed, TurnInv, NEW t \in Turns, Commit(t)
    PROVE  TurnInv'
  <1> DEFINE n == [id |-> turn[t].held, turn |-> t, what |-> What(t)]
  <1>1. /\ turn \in [Turns -> TurnRecords] /\ lastId \in Nat /\ rows \subseteq Rows
    BY DEF Typed, Ids
  <1>2. /\ turn[t].held # 0 /\ rows' = rows \cup {n} /\ UNCHANGED <<lastId, turn, client>>
        /\ \A r \in rows : r.id # turn[t].held
    BY DEF Commit, Stored
  <1>3. n.id = turn[t].held /\ n.turn = t /\ n.what = What(t)
    OBVIOUS
  <1> HIDE DEF n
  <1>4. \A u \in Turns : What(u)' = What(u)
    BY <1>2 DEF What, Chained
  <1>5. /\ turn[t].phase = "open" /\ turn[t].held \in Nat /\ turn[t].held <= lastId
        /\ turn[t].next \in Nat /\ turn[t].next >= 1
    BY <1>1, <1>2 DEF TurnInv, TurnsProceed, IdsApart, TurnRecords, Ids
  <1>6. \A r \in rows : r.id \in Nat /\ r.what \in Nat
    BY <1>1, RowIds DEF Rows
  <1>7. ASSUME NEW r \in rows, r.turn = t
        PROVE  r.what # Done /\ r.what # What(t) /\ r.id <= turn[t].held
    <2>1. r.what # Done /\ r.what < turn[t].next /\ r.id <= turn[t].held
      BY <1>2, <1>5, <1>7 DEF TurnInv, TurnsProceed
    <2>2. What(t) = Done \/ What(t) = turn[t].next
      BY DEF What
    <2> QED BY <1>5, <1>6, <2>1, <2>2
  <1>8. IdsApart'
    <2>1. \A a, b \in rows' : a.id = b.id => a = b
      BY <1>2, <1>3 DEF TurnInv, IdsApart
    <2>2. \A a, b \in rows' : a.turn = b.turn /\ a.what = b.what => a = b
      BY <1>2, <1>3, <1>7 DEF TurnInv, IdsApart
    <2>3. \A r \in rows' : r.id <= lastId
      BY <1>2, <1>3, <1>5 DEF TurnInv, IdsApart
    <2>4. \A u \in Turns, r \in rows' :
             turn[u].held # 0 /\ r.id = turn[u].held => r.turn = u /\ r.what = What(u)
      BY <1>2, <1>3 DEF TurnInv, IdsApart
    <2> QED BY <1>2, <1>4, <2>1, <2>2, <2>3, <2>4 DEF TurnInv, IdsApart
  <1>9. TurnsProceed'
    <2>1. \A r \in rows' :
            /\ turn[r.turn].phase # "none"
            /\ turn[r.turn].held # 0 => r.id <= turn[r.turn].held
            /\ turn[r.turn].phase = "open" =>
                  r.id = turn[r.turn].held \/ (r.what # Done /\ r.what < turn[r.turn].next)
      BY <1>2, <1>3, <1>5 DEF TurnInv, TurnsProceed
    <2> QED BY <1>2, <2>1 DEF TurnInv, TurnsProceed
  <1>10. PostedOnce'
    BY <1>2 DEF TurnInv, PostedOnce
  <1>11. DoneIsLast'
    <2>1. ASSUME NEW a \in rows', NEW b \in rows', a.turn = b.turn, a.what = Done
          PROVE  b.id <= a.id
      <3>1. CASE a \in rows /\ b \in rows
        BY <2>1, <3>1 DEF TurnInv, DoneIsLast
      <3>2. CASE a = n /\ b \in rows
        BY <1>3, <1>7, <2>1, <3>2
      <3>3. CASE a \in rows /\ b = n
        BY <1>3, <1>7, <2>1, <3>3
      <3>4. CASE a = n /\ b = n
        BY <1>3, <1>5, <3>4
      <3> QED BY <1>2, <3>1, <3>2, <3>3, <3>4
    <2> QED BY <2>1 DEF DoneIsLast
  <1>12. IdsCounted'
    <2>1. Begun' = Begun
      <3>1. {<<u, What(u)'>> : u \in {v \in Turns : turn'[v].held # 0}}
            = {<<u, What(u)>> : u \in {v \in Turns : turn[v].held # 0}}
        BY <1>2, <1>4
      <3>2. {<<r.turn, r.what>> : r \in rows'} = {<<r.turn, r.what>> : r \in rows} \cup {<<t, What(t)>>}
        BY <1>2, <1>3
      <3>3. <<t, What(t)>> \in {<<u, What(u)>> : u \in {v \in Turns : turn[v].held # 0}}
        BY <1>2
      <3> QED BY <3>1, <3>2, <3>3 DEF Begun
    <2> QED BY <1>2, <2>1 DEF TurnInv, IdsCounted
  <1> QED BY <1>8, <1>9, <1>10, <1>11, <1>12 DEF TurnInv

\* A publication ends: the id, if there is one, has its row.
LEMMA PublishKeeps ==
    ASSUME Typed, TurnInv, NEW t \in Turns, InsertFails(t) \/ Fanout(t)
    PROVE  TurnInv'
  <1>1. /\ turn \in [Turns -> TurnRecords] /\ lastId \in Nat /\ rows \subseteq Rows
    BY DEF Typed, Ids
  <1>2. /\ turn[t].phase = "open" /\ turn[t].next <= turn[t].thought + 1
        /\ turn' = [turn EXCEPT ![t] = Published(t)] /\ UNCHANGED <<rows, lastId, client>>
    BY DEF InsertFails, Fanout, TurnInv, TurnsProceed
  <1>3. turn[t].held # 0 => \E r \in rows : r.id = turn[t].held /\ r.turn = t /\ r.what = What(t)
    BY DEF InsertFails, Fanout, TurnInv, IdsApart
  <1>4. /\ Published(t).held = 0
        /\ Chained(t) => Published(t).phase = "open" /\ Published(t).next = turn[t].next + 1
                         /\ Published(t).next <= Published(t).thought + 1
        /\ ~Chained(t) => Published(t).phase = "finished"
    BY <1>1, <1>2, PublishedTurn
  <1>5. \A u \in Turns : turn'[u] = IF u = t THEN Published(t) ELSE turn[u]
    BY <1>1, <1>2
  <1>6. \A u \in Turns : turn'[u].held # 0 => u # t /\ turn'[u] = turn[u] /\ What(u)' = What(u)
    BY <1>4, <1>5 DEF What, Chained
  <1>7. IdsApart'
    BY <1>1, <1>2, <1>4, <1>5, <1>6 DEF TurnInv, IdsApart
  <1>8. TurnsProceed'
    <2>1. \A u \in Turns : /\ turn'[u].held # 0 => turn'[u].phase = "open"
                           /\ turn'[u].phase = "none" => turn'[u].next = 1
                           /\ turn'[u].phase = "open" => turn'[u].next <= turn'[u].thought + 1
      BY <1>4, <1>5 DEF TurnInv, TurnsProceed
    <2>2. ASSUME NEW r \in rows
          PROVE  /\ turn'[r.turn].phase # "none"
                 /\ turn'[r.turn].held # 0 => r.id <= turn'[r.turn].held
                 /\ turn'[r.turn].phase = "open" =>
                       r.id = turn'[r.turn].held \/ (r.what # Done /\ r.what < turn'[r.turn].next)
      <3>1. /\ turn[r.turn].phase # "none"
            /\ turn[r.turn].held # 0 => r.id <= turn[r.turn].held
            /\ turn[r.turn].phase = "open" =>
                  r.id = turn[r.turn].held \/ (r.what # Done /\ r.what < turn[r.turn].next)
        BY DEF TurnInv, TurnsProceed
      <3>2. r.turn \in Turns /\ r.what \in Nat /\ r.id >= 1 /\ r.id \in Nat
        BY <1>1, RowIds DEF Rows
      <3>3. CASE r.turn # t
        BY <1>5, <3>1, <3>2, <3>3
      <3>4. CASE r.turn = t /\ ~Chained(t)
        BY <1>4, <1>5, <3>2, <3>4
      <3>5. CASE r.turn = t /\ Chained(t)
        <4>1. turn[t].next \in Nat /\ turn[t].next >= 1
          BY <1>1 DEF TurnRecords
        <4>2. What(t) = turn[t].next /\ What(t) # Done
          BY <3>5, <4>1 DEF What, Done
        <4>3. r.id = turn[t].held => r.what = What(t)
          BY <3>2 DEF TurnInv, IdsApart
        <4>4. r.what # Done /\ r.what < turn[t].next + 1
          BY <1>2, <3>1, <3>2, <3>5, <4>1, <4>2, <4>3
        <4> QED BY <1>4, <1>5, <3>2, <3>5, <4>4
      <3> QED BY <3>3, <3>4, <3>5
    <2> QED BY <1>2, <2>1, <2>2 DEF TurnsProceed
  <1>9. PostedOnce'
    <2>1. client.phase = "opening" => client.turn \in Turns
      BY DEF TurnInv, PostedOnce, Typed, ClientRecords
    <2>2. \A u \in Turns : turn[u].phase = "none" => turn'[u].phase = "none"
      BY <1>2, <1>5
    <2> QED BY <1>2, <2>1, <2>2 DEF TurnInv, PostedOnce
  <1>10. DoneIsLast'
    BY <1>2 DEF TurnInv, DoneIsLast
  <1>11. IdsCounted'
    <2>1. Begun' = Begun
      <3>1. \A u \in Turns : turn'[u].held # 0 <=> u # t /\ turn[u].held # 0
        BY <1>4, <1>5
      <3>2. {<<u, What(u)'>> : u \in {v \in Turns : turn'[v].held # 0}}
            = {<<u, What(u)>> : u \in {v \in Turns : v # t /\ turn[v].held # 0}}
        BY <1>6, <3>1
      <3>3. turn[t].held # 0 => <<t, What(t)>> \in {<<r.turn, r.what>> : r \in rows}
        BY <1>3
      <3>4. Begun' = {<<r.turn, r.what>> : r \in rows}
                     \cup {<<u, What(u)>> : u \in {v \in Turns : v # t /\ turn[v].held # 0}}
        BY <1>2, <3>2 DEF Begun
      <3> QED BY <3>3, <3>4 DEF Begun
    <2> QED BY <1>2, <2>1 DEF TurnInv, IdsCounted
  <1> QED BY <1>7, <1>8, <1>9, <1>10, <1>11 DEF TurnInv

\* A turn is posted that stored nothing yet.
LEMMA PostKeeps ==
    ASSUME Typed, TurnInv, NEW i \in Instances, Post(i)
    PROVE  TurnInv'
  <1> DEFINE c == client.turn
  <1>1. /\ turn \in [Turns -> TurnRecords] /\ lastId \in Nat /\ rows \subseteq Rows
        /\ client \in ClientRecords
    BY DEF Typed, Ids
  <1>2. c \in Turns /\ turn[c].phase = "none"
    BY <1>1 DEF Post, TurnInv, PostedOnce, ClientRecords
  <1>3. PICK queried \in Queried(c, i) :
           turn' = [turn EXCEPT ![c] = queried] /\ UNCHANGED <<rows, lastId>>
    BY DEF Post
  <1>4. client' = [client EXCEPT !.phase = "posted"]
    BY DEF Post
  <1>5. client'.turn = c /\ client'.phase = "posted"
    BY ONLY <1>1, <1>4 DEF ClientRecords
  <1> HIDE DEF c
  <1>6. turn[c].held = 0
    BY <1>2 DEF TurnInv, TurnsProceed
  <1>7. queried.held = 0 /\ queried.phase # "none"
        /\ (queried.phase = "open" => queried.next <= queried.thought + 1)
    <2>1. turn[c] \in TurnRecords /\ MaxThinking \in Nat
      BY <1>1, <1>2, AgentEventsConstants
    <2>2. turn[c].next = 1
      BY <1>2 DEF TurnInv, TurnsProceed
    <2>3. CASE queried = [turn[c] EXCEPT !.phase = "finished", !.inst = i]
      BY ONLY <1>6, <2>1, <2>3 DEF TurnRecords
    <2>4. ASSUME NEW n \in 0 .. MaxThinking,
                 queried = [turn[c] EXCEPT !.phase = "open", !.thought = n, !.inst = i]
          PROVE  queried.held = 0 /\ queried.phase = "open" /\ queried.next <= queried.thought + 1
      <3>1. queried.held = 0 /\ queried.phase = "open" /\ queried.next = 1 /\ queried.thought = n
        BY ONLY <1>6, <2>1, <2>2, <2>4 DEF TurnRecords
      <3> QED BY <2>1, <3>1
    <2> QED BY <1>3, <2>3, <2>4 DEF Queried
  <1>8. \A u \in Turns : turn'[u] = IF u = c THEN queried ELSE turn[u]
    BY <1>1, <1>3
  <1>9. \A r \in rows : r.turn # c /\ r.turn \in Turns
    BY <1>1, <1>2 DEF TurnInv, TurnsProceed, Rows
  <1>10. \A u \in Turns : turn'[u].held # 0 => u # c /\ turn'[u] = turn[u] /\ What(u)' = What(u)
    BY <1>7, <1>8 DEF What, Chained
  <1>11. IdsApart'
    BY <1>1, <1>3, <1>7, <1>8, <1>10 DEF TurnInv, IdsApart
  <1>12. TurnsProceed'
    BY <1>3, <1>7, <1>8, <1>9 DEF TurnInv, TurnsProceed
  <1>13. PostedOnce'
    <2>1. \A u \in Turns : u > c => turn'[u].phase = "none"
      BY <1>2, <1>8 DEF TurnInv, PostedOnce, c, Turns
    <2>2. c # 0
      BY <1>2 DEF Turns
    <2> QED BY <1>5, <2>1, <2>2 DEF PostedOnce
  <1>14. DoneIsLast'
    BY <1>3 DEF TurnInv, DoneIsLast
  <1>15. IdsCounted'
    <2>1. \A u \in Turns : turn'[u].held # 0 <=> turn[u].held # 0
      BY <1>6, <1>7, <1>8
    <2>2. {<<u, What(u)'>> : u \in {v \in Turns : turn'[v].held # 0}}
          = {<<u, What(u)>> : u \in {v \in Turns : turn[v].held # 0}}
      BY <1>10, <2>1
    <2>3. Begun' = Begun
      BY <1>3, <2>2 DEF Begun
    <2> QED BY <1>3, <2>3 DEF TurnInv, IdsCounted
  <1> QED BY <1>11, <1>12, <1>13, <1>14, <1>15 DEF TurnInv

LEMMA TurnStepKeeps == ASSUME Typed, TurnInv, Next PROVE TurnInv'
  <1>1. ASSUME UNCHANGED <<rows, lastId, turn>>, PostedOnce' PROVE TurnInv'
    <2>1. \A u \in Turns : What(u)' = What(u)
      BY <1>1 DEF What, Chained
    <2>2. IdsApart'
      BY <1>1, <2>1 DEF TurnInv, IdsApart
    <2>3. TurnsProceed'
      BY <1>1 DEF TurnInv, TurnsProceed
    <2>4. DoneIsLast'
      BY <1>1 DEF TurnInv, DoneIsLast
    <2>5. Begun' = Begun
      BY <1>1, <2>1 DEF Begun
    <2>6. IdsCounted'
      BY <1>1, <2>5 DEF TurnInv, IdsCounted
    <2> QED BY <1>1, <2>2, <2>3, <2>4, <2>6 DEF TurnInv
  <1>2. ASSUME UNCHANGED <<rows, lastId, turn>>, client'.turn = client.turn,
               client'.phase \in {client.phase, "idle"}
        PROVE  PostedOnce'
    BY <1>2 DEF TurnInv, PostedOnce
  <1>3. ASSUME SendTurn PROVE UNCHANGED <<rows, lastId, turn>> /\ PostedOnce'
    <2>1. client \in ClientRecords /\ client.turn < MaxTurns /\ UNCHANGED <<rows, lastId, turn>>
          /\ client' = [Idle EXCEPT !.phase = "opening", !.turn = @ + 1]
      BY <1>3 DEF SendTurn, Typed
    <2>2. client'.turn = client.turn + 1 /\ client'.phase = "opening"
      BY ONLY <2>1 DEF Idle, ClientRecords
    <2>3. client.turn + 1 \in Turns /\ client.turn \in Nat
      BY <2>1, AgentEventsConstants DEF ClientRecords, Turns
    <2>4. \A u \in Turns : u >= client.turn + 1 => turn[u].phase = "none"
      BY <2>3 DEF TurnInv, PostedOnce, Turns
    <2> QED BY <2>1, <2>2, <2>3, <2>4 DEF PostedOnce, Turns
  <1> QED BY <1>1, <1>2, <1>3, TurnSide, InsertKeeps, CommitKeeps, PublishKeeps, PostKeeps DEF TurnStep

-----------------------------------------------------------------------------
(* What a stream and the browser know comes from the table.                *)

SeenIn(R) == {0} \cup {r.id : r \in R}

KnownIn(st, R) ==
    /\ \A k \in DOMAIN st.replay : st.replay[k] \in R
    /\ \A q \in st.polls : \A k \in DOMAIN q : q[k] \in R
    /\ \A k \in DOMAIN st.wire : st.wire[k] \in R \cup {Connected}
    /\ st.last \in SeenIn(R) /\ st.after \in SeenIn(R)

Known == (\A s \in Streams : KnownIn(stream[s], rows)) /\ client.after \in SeenIn(rows)

LEMMA RowsGrow == ASSUME Typed, Next PROVE rows \subseteq rows'
  BY TurnSide DEF TurnStep, SendTurn, Post, Insert, Commit, InsertFails, Fanout

\* The wire after rows and comments are added or the first is read.
LEMMA WireValues ==
    ASSUME NEW R, NEW w \in Seq(Chunks), \A k \in DOMAIN w : w[k] \in R \cup {Connected}
    PROVE  /\ \A c \in Chunks : c \in R \cup {Connected} =>
                 \A k \in DOMAIN Append(w, c) : Append(w, c)[k] \in R \cup {Connected}
           /\ \A f : Ordered(f) /\ (\A k \in DOMAIN f : f[k] \in R) =>
                 /\ w \o f \in Seq(Chunks)
                 /\ \A k \in DOMAIN (w \o f) : (w \o f)[k] \in R \cup {Connected}
           /\ w # <<>> => /\ Head(w) \in R \cup {Connected} /\ Head(w) \in Chunks
                          /\ \A k \in DOMAIN Tail(w) : Tail(w)[k] \in R \cup {Connected}
  <1>1. Len(w) \in Nat /\ DOMAIN w = 1 .. Len(w)
    OBVIOUS
  <1>2. ASSUME NEW c \in Chunks, c \in R \cup {Connected}, NEW k \in DOMAIN Append(w, c)
        PROVE  Append(w, c)[k] \in R \cup {Connected}
    <2>1. /\ Append(w, c) \in Seq(Chunks) /\ Len(Append(w, c)) = Len(w) + 1
          /\ \A i \in 1 .. Len(w) : Append(w, c)[i] = w[i]
          /\ Append(w, c)[Len(w) + 1] = c
      BY AppendProperties
    <2>2. k \in 1 .. Len(w) \/ k = Len(w) + 1
      BY <1>1, <1>2, <2>1
    <2> QED BY <1>1, <1>2, <2>1, <2>2
  <1>3. ASSUME NEW f, Ordered(f), \A k \in DOMAIN f : f[k] \in R
        PROVE  /\ w \o f \in Seq(Chunks)
               /\ \A k \in DOMAIN (w \o f) : (w \o f)[k] \in R \cup {Connected}
    <2>1. f \in Seq(Chunks) /\ Len(f) \in Nat /\ DOMAIN f = 1 .. Len(f)
      BY <1>3 DEF Ordered, Chunks
    <2>2. /\ w \o f \in Seq(Chunks) /\ Len(w \o f) = Len(w) + Len(f)
          /\ \A i \in 1 .. Len(w) + Len(f) : (w \o f)[i] = IF i <= Len(w) THEN w[i] ELSE f[i - Len(w)]
      BY <2>1, ConcatProperties
    <2> DEFINE v == w \o f
    <2>3. DOMAIN v = 1 .. Len(w) + Len(f)
      BY <2>2
    <2> HIDE DEF v
    <2>4. ASSUME NEW k \in DOMAIN v PROVE v[k] \in R \cup {Connected}
      <3>1. CASE k <= Len(w)
        BY <1>1, <2>1, <2>2, <2>3, <3>1 DEF v
      <3>2. CASE k > Len(w)
        <4>1. k - Len(w) \in DOMAIN f /\ v[k] = f[k - Len(w)]
          BY <1>1, <2>1, <2>2, <2>3, <3>2 DEF v
        <4> QED BY <1>3, <4>1
      <3> QED BY <1>1, <2>1, <2>3, <3>1, <3>2
    <2> QED BY <2>2, <2>4 DEF v
  <1>4. ASSUME w # <<>>
        PROVE  /\ Head(w) \in R \cup {Connected} /\ Head(w) \in Chunks
               /\ \A k \in DOMAIN Tail(w) : Tail(w)[k] \in R \cup {Connected}
    <2>1. /\ Head(w) \in Chunks /\ Tail(w) \in Seq(Chunks) /\ Len(Tail(w)) = Len(w) - 1
          /\ \A i \in 1 .. Len(Tail(w)) : Tail(w)[i] = w[i + 1]
      BY <1>4, HeadTailProperties
    <2>2. Head(w) = w[1] /\ 1 \in DOMAIN w
      BY <1>1, <1>4
    <2>3. DOMAIN Tail(w) = 1 .. Len(Tail(w)) /\ \A i \in 1 .. Len(Tail(w)) : i + 1 \in DOMAIN w
      BY <1>1, <2>1
    <2> QED BY <2>1, <2>2, <2>3
  <1> QED BY <1>2, <1>3, <1>4

\* Rows added by PushAll are known if the source's are.
LEMMA PushedKnown ==
    ASSUME NEW st \in StreamRecords, NEW q, Ordered(q), NEW R \in SUBSET Rows, KnownIn(st, R),
           \A k \in DOMAIN q : q[k] \in R
    PROVE  KnownIn(PushAll(st, q), R)
  <1> DEFINE p == PushAll(st, q)
             f == Above(q, st.last)
  <1>1. st.last \in Nat /\ st.wire \in Seq(Chunks)
    BY DEF StreamRecords, Ids, Chunks
  <1>2. Ordered(f) /\ \A k \in DOMAIN f : f[k] \in R
    BY <1>1, AboveKeeps
  <1>3. /\ SameButSent(p, st)
        /\ st.gone => p = st
        /\ ~st.gone => p.wire = st.wire \o f
        /\ p.last = st.last \/ \E k \in DOMAIN f : p.last = f[k].id
    BY PushedAll
  <1> HIDE DEF p, f
  <1>4. p.last \in SeenIn(R)
    BY <1>2, <1>3 DEF KnownIn, SeenIn
  <1>5. \A k \in DOMAIN (st.wire \o f) : (st.wire \o f)[k] \in R \cup {Connected}
    BY <1>1, <1>2, WireValues DEF KnownIn
  <1>6. \A k \in DOMAIN p.wire : p.wire[k] \in R \cup {Connected}
    BY <1>3, <1>5 DEF KnownIn
  <1>7. KnownIn(p, R)
    BY <1>3, <1>4, <1>6 DEF KnownIn, SameButSent
  <1> QED BY <1>7 DEF p

\* What a step makes of the browser's turn.
LEMMA ClientFate ==
    ASSUME Typed, Next
    PROVE  \/ UNCHANGED client /\ ~Receive
           \/ /\ SendTurn /\ client'.stream = 0 /\ client'.after = 0 /\ client'.got = <<>>
              /\ client'.phase = "opening" /\ client'.turn = client.turn + 1
           \/ \E i \in Instances :
                 /\ Post(i) /\ client'.stream = client.stream /\ client'.after = client.after
                 /\ client'.got = client.got /\ client'.phase = "posted" /\ client'.turn = client.turn
           \/ \E i \in Instances, s \in Streams :
                 /\ Connect(i) /\ client'.stream = s /\ client'.after = client.after
                 /\ client'.got = client.got /\ client'.phase = client.phase /\ client'.turn = client.turn
                 /\ client.stream = 0 /\ client.phase # "idle" /\ stream[s].phase = "none"
                 /\ stream'[s] = Opened(stream[s], i, client.after)
           \/ /\ Receive /\ client.stream \in Streams /\ client'.stream = client.stream
              /\ stream[client.stream].wire # <<>>
              /\ client'.phase = client.phase /\ client'.turn = client.turn
              /\ LET chunk == Head(stream[client.stream].wire)
                 IN  IF chunk = Connected
                     THEN client'.after = client.after /\ client'.got = client.got
                     ELSE client'.after = chunk.id /\ client'.got = Append(client.got, chunk.id)
           \/ /\ StreamOver \/ ConnectionFails \/ TurnEnds
              /\ client'.stream = 0 /\ client'.turn = client.turn
              /\ \/ client'.phase = client.phase /\ client'.after = client.after /\ client'.got = client.got
                 \/ client'.phase = "idle" /\ client'.after = 0 /\ client'.got = <<>>
  <1>1. client \in ClientRecords /\ stream \in [Streams -> StreamRecords]
    BY DEF Typed
  <1>2. CASE SendTurn
    <2>1. client' = [Idle EXCEPT !.phase = "opening", !.turn = @ + 1]
      BY <1>2 DEF SendTurn
    <2>2. /\ client'.stream = 0 /\ client'.after = 0 /\ client'.got = <<>>
          /\ client'.phase = "opening" /\ client'.turn = client.turn + 1
      BY ONLY <1>1, <2>1 DEF Idle, ClientRecords
    <2> QED BY <1>2, <2>2
  <1>3. ASSUME NEW i \in Instances, Post(i)
        PROVE  /\ client'.stream = client.stream /\ client'.after = client.after
               /\ client'.got = client.got /\ client'.phase = "posted" /\ client'.turn = client.turn
    <2>1. client' = [client EXCEPT !.phase = "posted"]
      BY <1>3 DEF Post
    <2> QED BY ONLY <1>1, <2>1 DEF ClientRecords
  <1>4. ASSUME NEW i \in Instances, Connect(i)
        PROVE  \E s \in Streams :
                 /\ client'.stream = s /\ client'.after = client.after
                 /\ client'.got = client.got /\ client'.phase = client.phase /\ client'.turn = client.turn
                 /\ client.stream = 0 /\ client.phase # "idle" /\ stream[s].phase = "none"
                 /\ stream'[s] = Opened(stream[s], i, client.after)
    <2>1. PICK s \in Streams :
             /\ stream[s].phase = "none" /\ client' = [client EXCEPT !.stream = s]
             /\ stream' = [stream EXCEPT ![s].phase = "checking", ![s].inst = i, ![s].after = client.after]
      BY <1>4 DEF Connect
    <2>2. /\ client'.stream = s /\ client'.after = client.after
          /\ client'.got = client.got /\ client'.phase = client.phase /\ client'.turn = client.turn
      BY ONLY <1>1, <2>1 DEF ClientRecords
    <2>3. stream'[s] = Opened(stream[s], i, client.after)
      BY <1>1, <2>1 DEF Opened
    <2>4. client.stream = 0 /\ client.phase # "idle"
      BY <1>4 DEF Connect
    <2> QED BY <2>1, <2>2, <2>3, <2>4
  <1>5. CASE Receive
    <2> DEFINE chunk == Head(stream[client.stream].wire)
    <2>1. /\ client.stream # 0 /\ stream[client.stream].wire # <<>>
          /\ client' = IF chunk = Connected THEN [client EXCEPT !.ready = TRUE]
                       ELSE [client EXCEPT !.after = chunk.id, !.got = Append(@, chunk.id)]
      BY <1>5 DEF Receive
    <2>2. client.stream \in Streams
      BY <1>1, <2>1 DEF ClientRecords
    <2> HIDE DEF chunk
    <2>3. /\ client'.stream = client.stream /\ client'.phase = client.phase /\ client'.turn = client.turn
          /\ IF chunk = Connected THEN client'.after = client.after /\ client'.got = client.got
             ELSE client'.after = chunk.id /\ client'.got = Append(client.got, chunk.id)
      BY ONLY <1>1, <2>1 DEF ClientRecords
    <2> QED BY <1>5, <2>1, <2>2, <2>3 DEF chunk
  <1>6. CASE StreamOver \/ ConnectionFails \/ TurnEnds
    <2>1. client' = Idle \/ client' = [client EXCEPT !.stream = 0]
      BY <1>6 DEF StreamOver, ConnectionFails, TurnEnds
    <2>2. /\ client'.stream = 0 /\ client'.turn = client.turn
          /\ \/ client'.phase = client.phase /\ client'.after = client.after /\ client'.got = client.got
             \/ client'.phase = "idle" /\ client'.after = 0 /\ client'.got = <<>>
      BY ONLY <1>1, <2>1 DEF Idle, ClientRecords
    <2> QED BY <1>6, <2>2
  <1>8. ASSUME NEW s \in Streams, Serve(s) \/ Abort(s) PROVE UNCHANGED client
    BY <1>8 DEF Serve, Abort, Start, ReplayFails, GoLive, PollRead, PollApply, EnqueueThrows
  <1>9. ASSUME NEW t \in Turns, TurnStep(t) PROVE UNCHANGED client
    BY <1>9 DEF TurnStep, Insert, Commit, InsertFails, Fanout
  <1>10. CASE \E i \in Instances : Post(i)
    BY <1>3, <1>10
  <1>11. CASE \E i \in Instances : Connect(i)
    BY <1>4, <1>11
  <1>12. \/ SendTurn \/ Receive \/ (StreamOver \/ ConnectionFails \/ TurnEnds)
         \/ (\E i \in Instances : Connect(i)) \/ (\E i \in Instances : Post(i))
         \/ UNCHANGED client
    BY <1>8, <1>9 DEF Next, ClientStep
  <1> QED BY <1>2, <1>5, <1>6, <1>10, <1>11, <1>12

LEMMA KnownKept == ASSUME Typed, TurnInv, Known, Next PROVE Known'
  <1>1. rows \subseteq rows' /\ rows \in SUBSET Rows /\ Table
    BY RowsGrow, TableKept DEF Typed
  <1>2. ASSUME NEW s \in Streams PROVE KnownIn(stream'[s], rows)
    <2> DEFINE st == stream[s]
               p == stream'[s]
               G == KnownIn(p, rows)
    <2>1. /\ st \in StreamRecords /\ Ordered(st.replay) /\ \A q \in st.polls : Ordered(q)
          /\ KnownIn(st, rows) /\ client.after \in SeenIn(rows) /\ client.after \in {0} \cup Ids
      BY DEF Typed, Known, ClientRecords
    <2>2. st.last \in Nat /\ st.after \in Nat /\ st.wire \in Seq(Chunks) /\ DOMAIN <<>> = {}
      BY <2>1 DEF StreamRecords, Ids, Chunks
    <2> HIDE DEF st, p
    <2>3. ASSUME NEW i \in Instances, p = Opened(st, i, client.after) PROVE G
      <3> DEFINE a == client.after
      <3>1. a \in {0} \cup Ids /\ p = Opened(st, i, a) /\ a \in SeenIn(rows)
        BY <2>1, <2>3
      <3> HIDE DEF a
      <3>2. /\ p.replay = st.replay /\ p.polls = st.polls /\ p.wire = st.wire /\ p.last = st.last
            /\ p.after = a
        BY ONLY <2>1, <3>1, i \in Instances DEF Opened, StreamRecords
      <3> QED BY <2>1, <3>1, <3>2 DEF KnownIn
    <2>4. ASSUME p = Started(st) PROVE G
      <3>1. \A k \in DOMAIN Buffered(st.after) : Buffered(st.after)[k] \in rows
        BY <1>1, <2>2, ReplayedRows
      <3>2. /\ p.polls = st.polls /\ p.replay \in {<<>>, Buffered(st.after)} /\ p.wire = st.wire
            /\ p.last = st.after /\ p.after = st.after
        BY ONLY <2>1, <2>4 DEF Started, StreamRecords
      <3> QED BY <2>1, <2>2, <3>1, <3>2 DEF KnownIn
    <2>5. ASSUME p = Closed(st) \/ p = Left(st) PROVE G
      <3>1. /\ p.polls = {} /\ p.replay = <<>> /\ p.wire \in {<<>>, st.wire} /\ p.last = 0 /\ p.after = 0
        BY ONLY <2>1, <2>5 DEF Closed, Left, StreamRecords
      <3> QED BY <2>1, <2>2, <3>1 DEF KnownIn, SeenIn
    <2>6. ASSUME p = SetLive(Replayed(st), SubscriptionOf(s)) PROVE G
      <3> DEFINE v == Replayed(st)
                 u == PushAll(st, st.replay)
      <3>1. v \in StreamRecords /\ SameButSent(v, st) /\ v.last = u.last
        BY <2>1, ReplayedSent
      <3>2. KnownIn(u, rows) /\ u \in StreamRecords
        BY <1>1, <2>1, PushedKnown, PushedAll DEF KnownIn
      <3>3. v = Push(u, Connected)
        BY DEF Replayed
      <3> HIDE DEF v, u
      <3>4. v.wire = u.wire \/ v.wire = Append(u.wire, Connected)
        BY <3>2, <3>3 DEF Push, StreamRecords
      <3>5. \A k \in DOMAIN v.wire : v.wire[k] \in rows \cup {Connected}
        <4>1. u.wire \in Seq(Chunks) /\ Connected \in Chunks
          BY <3>2 DEF StreamRecords, Chunks
        <4>2. \A k \in DOMAIN u.wire : u.wire[k] \in rows \cup {Connected}
          BY <3>2 DEF KnownIn
        <4> QED BY <3>4, <4>1, <4>2, WireValues, SMTT(30)
      <3>6. SubscriptionOf(s) \in {0} \cup Streams
        BY <2>1 DEF SubscriptionOf, Typed, st, StreamRecords
      <3>7. /\ p.replay = <<>> /\ p.polls = v.polls /\ p.wire = v.wire /\ p.last = v.last /\ p.after = v.after
        BY <2>6, <3>1, <3>6, StreamValues, ZenonT(40) DEF v
      <3> QED BY <2>1, <2>2, <3>1, <3>2, <3>5, <3>7 DEF KnownIn, SameButSent
    <2>7. ASSUME p = Polled(st) PROVE G
      <3>1. \A k \in DOMAIN RowsAfter(st.last) : RowsAfter(st.last)[k] \in rows
        BY <1>1, <2>2, PolledRows
      <3>2. /\ p.polls = st.polls \cup {RowsAfter(st.last)} /\ p.replay = st.replay /\ p.wire = st.wire
            /\ p.last = st.last /\ p.after = st.after
        BY ONLY <2>1, <2>7 DEF Polled, StreamRecords
      <3> QED BY <2>1, <3>1, <3>2 DEF KnownIn
    <2>8. ASSUME NEW found \in st.polls, p = Applied(st, found) PROVE G
      <3> DEFINE u == PushAll(st, found)
      <3>1. KnownIn(u, rows) /\ u \in StreamRecords
        BY <1>1, <2>1, PushedKnown, PushedAll DEF KnownIn
      <3>2. p = [u EXCEPT !.polls = @ \ {found}]
        BY <2>8 DEF Applied
      <3> HIDE DEF u
      <3>3. /\ p.polls \subseteq u.polls /\ p.replay = u.replay /\ p.wire = u.wire
            /\ p.last = u.last /\ p.after = u.after
        BY ONLY <3>1, <3>2 DEF StreamRecords
      <3> QED BY <3>1, <3>3 DEF KnownIn
    <2>9. ASSUME p = [st EXCEPT !.closed = TRUE] PROVE G
      <3>1. /\ p.polls = st.polls /\ p.replay = st.replay /\ p.wire = st.wire
            /\ p.last = st.last /\ p.after = st.after
        BY ONLY <2>1, <2>9 DEF StreamRecords
      <3> QED BY <2>1, <3>1 DEF KnownIn
    <2>10. ASSUME NEW r \in rows, p = PushDelivery(st, r) PROVE G
      <3>1. r \in Rows /\ r \in Chunks
        BY DEF Typed, Chunks
      <3>2. SameButSent(p, st)
        BY <2>1, <2>10, <3>1, PushedOne
      <3>3. p.last \in {st.last, r.id}
        <4>1. r.id \in Nat
          BY <3>1, RowIds
        <4> QED BY <2>1, <2>2, <2>10, <3>1, <4>1, PushedOne, SMTT(30)
      <3>4. p.wire \in {st.wire, Append(st.wire, r)}
        BY <2>1, <2>10 DEF PushDelivery, Push, StreamRecords
      <3>5. \A k \in DOMAIN p.wire : p.wire[k] \in rows \cup {Connected}
        <4>1. \A k \in DOMAIN st.wire : st.wire[k] \in rows \cup {Connected}
          BY <2>1 DEF KnownIn
        <4> DEFINE w == Append(st.wire, r)
        <4>2. \A k \in DOMAIN w : w[k] \in rows \cup {Connected}
          BY <2>2, <3>1, <4>1, WireValues
        <4> HIDE DEF w
        <4>3. p.wire = st.wire \/ p.wire = w
          BY <3>4 DEF w
        <4> QED BY ONLY <4>1, <4>2, <4>3
      <3> QED BY <2>1, <3>2, <3>3, <3>5 DEF KnownIn, SameButSent, SeenIn
    <2>11. ASSUME Receive, s = client.stream, p = Read(st) PROVE G
      <3>1. st.wire # <<>>
        BY <2>11 DEF Receive, st
      <3>2. /\ p.polls = st.polls /\ p.replay = st.replay /\ p.wire = Tail(st.wire)
            /\ p.last = st.last /\ p.after = st.after
        BY ONLY <2>1, <2>11 DEF Read, StreamRecords
      <3> QED BY <2>1, <2>2, <3>1, <3>2, WireValues DEF KnownIn
    <2>12. \/ p = st \/ p = Started(st) \/ p = Closed(st)
           \/ p = SetLive(Replayed(st), SubscriptionOf(s))
           \/ p = Polled(st) \/ p = [st EXCEPT !.closed = TRUE] \/ p = Left(st)
           \/ \E i \in Instances : p = Opened(st, i, client.after)
           \/ \E found \in st.polls : p = Applied(st, found)
           \/ \E r \in rows : p = PushDelivery(st, r)
           \/ Receive /\ s = client.stream /\ p = Read(st)
      BY StreamFate DEF st, p
    <2>13. p = st => G
      BY <2>1
    <2> HIDE DEF G
    <2>14. G
      BY <2>3, <2>4, <2>5, <2>6, <2>7, <2>8, <2>9, <2>10, <2>11, <2>12, <2>13
    <2> QED BY <2>14 DEF G, p
  <1>3. client'.after \in SeenIn(rows)
    <2>1. ASSUME Receive, client.stream \in Streams, stream[client.stream].wire # <<>>,
                 Head(stream[client.stream].wire) # Connected
          PROVE  Head(stream[client.stream].wire).id \in SeenIn(rows)
      <3> DEFINE w == stream[client.stream].wire
      <3>1. w \in Seq(Chunks) /\ \A k \in DOMAIN w : w[k] \in rows \cup {Connected}
        BY <2>1 DEF Typed, Known, KnownIn, StreamRecords, Chunks
      <3>2. Head(w) \in rows
        <4>1. Head(w) = w[1] /\ 1 \in DOMAIN w
          BY <2>1, <3>1
        <4> QED BY <2>1, <3>1, <4>1
      <3> QED BY <3>2 DEF SeenIn
    <2>2. client.after \in SeenIn(rows) /\ 0 \in SeenIn(rows)
      BY DEF Known, SeenIn
    <2> QED BY <2>1, <2>2, ClientFate
  <1>4. SeenIn(rows) \subseteq SeenIn(rows')
    BY <1>1 DEF SeenIn
  <1>5. \A s \in Streams : KnownIn(stream'[s], rows')
    BY <1>1, <1>2, <1>4 DEF KnownIn
  <1> QED BY <1>3, <1>4, <1>5 DEF Known

-----------------------------------------------------------------------------
(* The listener sets.  An open live stream is in the set its instance's map*)
(* holds, and a set has streams of one instance only.                      *)

Listening ==
    \A s \in Streams :
        /\ stream[s].phase # "live" => stream[s].set = 0
        /\ stream[s].phase = "live" /\ ~stream[s].closed =>
              stream[s].set # 0 /\ channel[stream[s].inst] = stream[s].set

SetsApart ==
    /\ \A s \in Streams : stream[s].set # 0 =>
          stream[stream[s].set].inst = stream[s].inst /\ stream[stream[s].set].phase # "none"
    /\ \A i \in Instances : channel[i] # 0 =>
          stream[channel[i]].inst = i /\ stream[channel[i]].phase # "none"

\* What a step changes of phase, instance, set and channel.
LEMMA SubscriptionFate ==
    ASSUME Typed, Next
    PROVE  \/ /\ UNCHANGED channel
              /\ \A s \in Streams :
                    /\ stream'[s].phase = stream[s].phase \/ (stream'[s].phase = "read" /\ stream[s].phase = "checking")
                    /\ stream'[s].inst = stream[s].inst /\ stream'[s].set = stream[s].set
                    /\ stream[s].closed => stream'[s].closed
           \/ /\ UNCHANGED channel
              /\ \E x \in Streams :
                    /\ \A s \in Streams \ {x} : stream'[s] = stream[s]
                    /\ stream[x].phase = "none" /\ stream'[x].phase = "checking"
                    /\ stream'[x].set = stream[x].set
           \/ \E x \in Streams :
                    /\ ReplayFails(x) \/ Abort(x)
                    /\ \A s \in Streams \ {x} : stream'[s] = stream[s]
                    /\ stream'[x].phase = stream[x].phase /\ stream'[x].inst = stream[x].inst
                    /\ stream'[x].set = 0 /\ stream'[x].closed = TRUE /\ ~stream[x].closed
                    /\ channel' = IF stream[x].set # 0 /\ \A o \in Streams \ {x} : stream[o].set # stream[x].set
                                  THEN [channel EXCEPT ![stream[x].inst] = 0] ELSE channel
           \/ \E x \in Streams :
                    /\ GoLive(x)
                    /\ \A s \in Streams \ {x} : stream'[s] = stream[s]
                    /\ stream[x].phase = "read" /\ stream'[x].phase = "live" /\ stream'[x].inst = stream[x].inst
                    /\ stream'[x].set = SubscriptionOf(x)
                    /\ channel' = [channel EXCEPT ![stream[x].inst] = SubscriptionOf(x)]
  <1>1. stream \in [Streams -> StreamRecords] /\ channel \in [Instances -> {0} \cup Streams]
    BY DEF Typed
  <1> DEFINE Quiet == /\ UNCHANGED channel
                      /\ \A s \in Streams :
                            /\ \/ stream'[s].phase = stream[s].phase
                               \/ stream'[s].phase = "read" /\ stream[s].phase = "checking"
                            /\ stream'[s].inst = stream[s].inst /\ stream'[s].set = stream[s].set
                            /\ stream[s].closed => stream'[s].closed
  <1>2. ASSUME NEW x \in Streams, Start(x) PROVE Quiet
    BY <1>1, <1>2 DEF Start, StreamRecords
  <1>3. ASSUME NEW x \in Streams, PollRead(x) PROVE Quiet
    BY <1>1, <1>3 DEF PollRead, StreamRecords
  <1>4. ASSUME NEW x \in Streams, PollApply(x) PROVE Quiet
    <2>1. PICK found \in stream[x].polls : stream' = [stream EXCEPT ![x] = Applied(stream[x], found)]
      BY <1>4 DEF PollApply
    <2>2. Ordered(found)
      BY DEF Typed
    <2> DEFINE u == PushAll(stream[x], found)
    <2>3. u \in StreamRecords /\ SameButSent(u, stream[x])
      BY <1>1, <2>2, PushedAll
    <2>4. Applied(stream[x], found) = [u EXCEPT !.polls = @ \ {found}]
      BY DEF Applied
    <2> DEFINE v == Applied(stream[x], found)
    <2> HIDE DEF u, v
    <2>5. v.phase = u.phase /\ v.inst = u.inst /\ v.set = u.set /\ v.closed = u.closed
      BY ONLY <2>3, <2>4 DEF StreamRecords, v
    <2>6. stream'[x] = v /\ \A s \in Streams \ {x} : stream'[s] = stream[s]
      BY <1>1, <2>1 DEF v
    <2> QED BY <1>4, <2>3, <2>5, <2>6 DEF PollApply, SameButSent
  <1>5. ASSUME NEW x \in Streams, EnqueueThrows(x) PROVE Quiet
    BY <1>1, <1>5 DEF EnqueueThrows, StreamRecords
  <1>6. ASSUME NEW t \in Turns, TurnStep(t) PROVE Quiet
    <2>1. CASE Insert(t) \/ Commit(t) \/ InsertFails(t)
      BY <2>1 DEF Insert, Commit, InsertFails
    <2>2. CASE Fanout(t)
      <3>1. PICK r \in rows : stream' = [s \in Streams |-> IF s \in Listeners(turn[t].inst)
                                          THEN PushDelivery(stream[s], r) ELSE stream[s]]
        BY <2>2 DEF Fanout
      <3>2. \A s \in Streams : SameButSent(PushDelivery(stream[s], r), stream[s])
        BY <1>1, PushedOne DEF Typed
      <3> QED BY <2>2, <3>1, <3>2 DEF Fanout, SameButSent
    <2> QED BY <1>6, <2>1, <2>2 DEF TurnStep
  <1>7. ASSUME Receive PROVE Quiet
    BY <1>1, <1>7 DEF Receive, StreamRecords
  <1>8. ASSUME StreamOver \/ ConnectionFails \/ TurnEnds PROVE Quiet
    <2>1. Leave(client.stream) /\ UNCHANGED channel
      BY <1>8 DEF StreamOver, ConnectionFails, TurnEnds
    <2> QED BY <1>1, <2>1, SMTT(40) DEF Leave, StreamRecords
  <1>9. ASSUME SendTurn \/ \E i \in Instances : Post(i) PROVE Quiet
    BY <1>9 DEF SendTurn, Post
  <1> HIDE DEF Quiet
  <1>10. ASSUME NEW i \in Instances, Connect(i)
         PROVE  /\ UNCHANGED channel
                /\ \E x \in Streams :
                    /\ \A s \in Streams \ {x} : stream'[s] = stream[s]
                    /\ stream[x].phase = "none" /\ stream'[x].phase = "checking"
                    /\ stream'[x].set = stream[x].set
    <2>1. PICK x \in Streams :
             /\ stream[x].phase = "none"
             /\ stream' = [stream EXCEPT ![x].phase = "checking", ![x].inst = i, ![x].after = client.after]
      BY <1>10 DEF Connect
    <2>2. stream[x] \in StreamRecords
      BY <1>1
    <2>3. /\ \A s \in Streams \ {x} : stream'[s] = stream[s]
          /\ stream'[x] = Opened(stream[x], i, client.after)
      BY <1>1, <2>1 DEF Opened
    <2>4. stream'[x].phase = "checking" /\ stream'[x].set = stream[x].set
      BY ONLY <2>2, <2>3 DEF Opened, StreamRecords
    <2>5. UNCHANGED channel
      BY <1>10 DEF Connect
    <2> QED BY <2>1, <2>3, <2>4, <2>5
  <1>11. ASSUME NEW x \in Streams, ReplayFails(x) \/ Abort(x)
         PROVE  /\ \A s \in Streams \ {x} : stream'[s] = stream[s]
                /\ stream'[x].phase = stream[x].phase /\ stream'[x].inst = stream[x].inst
                /\ stream'[x].set = 0 /\ stream'[x].closed = TRUE /\ ~stream[x].closed
                /\ channel' = IF stream[x].set # 0 /\ \A o \in Streams \ {x} : stream[o].set # stream[x].set
                              THEN [channel EXCEPT ![stream[x].inst] = 0] ELSE channel
    <2>1. ~stream[x].closed /\ CloseStream(x)
      BY <1>11 DEF ReplayFails, Abort
    <2> QED BY <1>1, <2>1 DEF CloseStream, Unsubscribed, StreamRecords
  <1>12. ASSUME NEW x \in Streams, GoLive(x)
         PROVE  /\ \A s \in Streams \ {x} : stream'[s] = stream[s]
                /\ stream[x].phase = "read" /\ stream'[x].phase = "live" /\ stream'[x].inst = stream[x].inst
                /\ stream'[x].set = SubscriptionOf(x)
                /\ channel' = [channel EXCEPT ![stream[x].inst] = SubscriptionOf(x)]
    <2> DEFINE v == Replayed(stream[x])
               c == SubscriptionOf(x)
    <2>1. v \in StreamRecords /\ v.inst = stream[x].inst
      BY <1>1, ReplayedSent DEF SameButSent, Typed
    <2>2. c \in {0} \cup Streams
      BY <1>1 DEF SubscriptionOf, StreamRecords
    <2>3. /\ stream[x].phase = "read"
          /\ stream' = [stream EXCEPT ![x] = [[v EXCEPT !.phase = "live", !.replay = <<>>] EXCEPT !.set = c]]
          /\ channel' = [channel EXCEPT ![[v EXCEPT !.phase = "live", !.replay = <<>>].inst] = c]
      BY <1>12 DEF GoLive, Subscribed, Replayed
    <2> HIDE DEF v, c
    <2>4. [v EXCEPT !.phase = "live", !.replay = <<>>].inst = stream[x].inst
      BY ONLY <2>1 DEF StreamRecords
    <2>5. /\ stream'[x] = [[v EXCEPT !.phase = "live", !.replay = <<>>] EXCEPT !.set = c]
          /\ \A s \in Streams \ {x} : stream'[s] = stream[s]
      BY <1>1, <2>3
    <2>6. stream'[x].phase = "live" /\ stream'[x].inst = v.inst /\ stream'[x].set = c
      BY ONLY <2>1, <2>5 DEF StreamRecords
    <2> QED BY <2>1, <2>3, <2>4, <2>5, <2>6 DEF c
  <1>13. \/ Quiet
         \/ \E i \in Instances : Connect(i)
         \/ \E x \in Streams : ReplayFails(x) \/ Abort(x) \/ GoLive(x)
    BY <1>2, <1>3, <1>4, <1>5, <1>6, <1>7, <1>8, <1>9 DEF Next, ClientStep, Serve
  <1>14. CASE Quiet
    BY <1>14 DEF Quiet
  <1>15. CASE \E i \in Instances : Connect(i)
    BY <1>10, <1>15
  <1>16. CASE \E x \in Streams : ReplayFails(x) \/ Abort(x)
    BY <1>11, <1>16
  <1>17. CASE \E x \in Streams : GoLive(x)
    BY <1>12, <1>17
  <1> QED BY <1>13, <1>14, <1>15, <1>16, <1>17

LEMMA ListeningKept == ASSUME Typed, Listening, Next PROVE Listening'
  <1>1. stream \in [Streams -> StreamRecords] /\ channel \in [Instances -> {0} \cup Streams]
    BY DEF Typed
  <1>2. \A s \in Streams : stream[s].inst \in Instances /\ stream[s].set \in {0} \cup Streams
    BY <1>1 DEF StreamRecords
  <1>3. CASE /\ UNCHANGED channel
             /\ \A s \in Streams :
                    /\ stream'[s].phase = stream[s].phase \/ (stream'[s].phase = "read" /\ stream[s].phase = "checking")
                    /\ stream'[s].inst = stream[s].inst /\ stream'[s].set = stream[s].set
                    /\ stream[s].closed => stream'[s].closed
    <2> SUFFICES ASSUME NEW s \in Streams
                 PROVE  /\ stream'[s].phase # "live" => stream'[s].set = 0
                        /\ stream'[s].phase = "live" /\ ~stream'[s].closed =>
                              stream'[s].set # 0 /\ channel'[stream'[s].inst] = stream'[s].set
      BY DEF Listening
    <2>1. /\ stream[s].phase # "live" => stream[s].set = 0
          /\ stream[s].phase = "live" /\ ~stream[s].closed =>
                stream[s].set # 0 /\ channel[stream[s].inst] = stream[s].set
      BY DEF Listening
    <2> QED BY <1>3, <2>1
  <1>4. ASSUME NEW x \in Streams, UNCHANGED channel,
               \A s \in Streams \ {x} : stream'[s] = stream[s],
               stream[x].phase = "none", stream'[x].phase = "checking", stream'[x].set = stream[x].set
        PROVE  Listening'
    BY <1>4 DEF Listening
  <1>5. ASSUME NEW x \in Streams,
               \A s \in Streams \ {x} : stream'[s] = stream[s],
               stream'[x].set = 0, stream'[x].closed = TRUE, ~stream[x].closed,
               channel' = IF stream[x].set # 0 /\ \A o \in Streams \ {x} : stream[o].set # stream[x].set
                          THEN [channel EXCEPT ![stream[x].inst] = 0] ELSE channel
        PROVE  Listening'
    <2> SUFFICES ASSUME NEW s \in Streams
                 PROVE  /\ stream'[s].phase # "live" => stream'[s].set = 0
                        /\ stream'[s].phase = "live" /\ ~stream'[s].closed =>
                              stream'[s].set # 0 /\ channel'[stream'[s].inst] = stream'[s].set
      BY DEF Listening
    <2>1. CASE s = x
      BY <1>5, <2>1
    <2>2. CASE s # x
      <3>1. stream'[s] = stream[s]
        BY <1>5, <2>2
      <3>2. /\ stream[s].phase # "live" => stream[s].set = 0
            /\ stream[s].phase = "live" /\ ~stream[s].closed =>
                  stream[s].set # 0 /\ channel[stream[s].inst] = stream[s].set
            /\ stream[x].set # 0 => channel[stream[x].inst] = stream[x].set
        BY <1>5 DEF Listening
      <3>3. ASSUME stream[s].phase = "live", ~stream[s].closed
            PROVE  channel'[stream[s].inst] = channel[stream[s].inst]
        <4>1. CASE stream[s].inst # stream[x].inst
          BY <1>1, <1>2, <1>5, <4>1
        <4>2. CASE stream[s].inst = stream[x].inst /\ stream[x].set # 0
          <5>1. stream[s].set = stream[x].set
            BY <3>2, <3>3, <4>2
          <5> QED BY <1>5, <2>2, <5>1
        <4>3. CASE stream[x].set = 0
          BY <1>5, <4>3
        <4> QED BY <4>1, <4>2, <4>3
      <3> QED BY <3>1, <3>2, <3>3
    <2> QED BY <2>1, <2>2
  <1>6. ASSUME NEW x \in Streams,
               \A s \in Streams \ {x} : stream'[s] = stream[s],
               stream'[x].phase = "live", stream'[x].inst = stream[x].inst,
               stream'[x].set = SubscriptionOf(x),
               channel' = [channel EXCEPT ![stream[x].inst] = SubscriptionOf(x)]
        PROVE  Listening'
    <2> DEFINE c == SubscriptionOf(x)
    <2>1. /\ channel[stream[x].inst] = 0 => c = x
          /\ channel[stream[x].inst] # 0 => c = channel[stream[x].inst]
      BY DEF SubscriptionOf
    <2>2. c # 0 /\ x # 0
      BY <2>1 DEF Streams
    <2> HIDE DEF c
    <2> SUFFICES ASSUME NEW s \in Streams
                 PROVE  /\ stream'[s].phase # "live" => stream'[s].set = 0
                        /\ stream'[s].phase = "live" /\ ~stream'[s].closed =>
                              stream'[s].set # 0 /\ channel'[stream'[s].inst] = stream'[s].set
      BY DEF Listening
    <2>3. channel' = [channel EXCEPT ![stream[x].inst] = c] /\ stream'[x].set = c
      BY <1>6 DEF c
    <2>4. CASE s = x
      BY <1>1, <1>2, <1>6, <2>2, <2>3, <2>4
    <2>5. CASE s # x
      <3>1. stream'[s] = stream[s]
        BY <1>6, <2>5
      <3>2. /\ stream[s].phase # "live" => stream[s].set = 0
            /\ stream[s].phase = "live" /\ ~stream[s].closed =>
                  stream[s].set # 0 /\ channel[stream[s].inst] = stream[s].set
        BY DEF Listening
      <3>3. stream[s].phase = "live" /\ ~stream[s].closed => channel'[stream[s].inst] = stream[s].set
        BY <1>1, <1>2, <2>1, <2>3, <3>2
      <3> QED BY <3>1, <3>2, <3>3
    <2> QED BY <2>4, <2>5
  <1> QED BY <1>3, <1>4, <1>5, <1>6, SubscriptionFate

LEMMA SetsApartKept == ASSUME Typed, Listening, SetsApart, Next PROVE SetsApart'
  <1>1. stream \in [Streams -> StreamRecords] /\ channel \in [Instances -> {0} \cup Streams]
    BY DEF Typed
  <1>2. \A s \in Streams : stream[s].inst \in Instances /\ stream[s].set \in {0} \cup Streams
    BY <1>1 DEF StreamRecords
  <1>3. ASSUME \A s \in Streams : stream'[s].set \in {0, stream[s].set},
               \A s \in Streams : stream[s].phase # "none" =>
                   stream'[s].inst = stream[s].inst /\ stream'[s].phase # "none",
               \A s \in Streams : stream'[s].set # 0 => stream[s].phase # "none",
               \A i \in Instances : channel'[i] \in {0, channel[i]}
        PROVE  SetsApart'
    <2>1. ASSUME NEW s \in Streams, stream'[s].set # 0
          PROVE  stream'[stream'[s].set].inst = stream'[s].inst /\ stream'[stream'[s].set].phase # "none"
      <3>1. stream'[s].set = stream[s].set /\ stream[s].set \in Streams
        BY <1>2, <1>3, <2>1
      <3>2. stream[stream[s].set].inst = stream[s].inst /\ stream[stream[s].set].phase # "none"
        BY <2>1, <3>1 DEF SetsApart
      <3> QED BY <1>3, <2>1, <3>1, <3>2
    <2>2. ASSUME NEW i \in Instances, channel'[i] # 0
          PROVE  stream'[channel'[i]].inst = i /\ stream'[channel'[i]].phase # "none"
      <3>1. channel'[i] = channel[i] /\ channel[i] \in Streams
        BY <1>1, <1>3, <2>2
      <3> QED BY <1>3, <2>2, <3>1 DEF SetsApart
    <2> QED BY <2>1, <2>2 DEF SetsApart
  <1>4. CASE /\ UNCHANGED channel
             /\ \A s \in Streams :
                    /\ stream'[s].phase = stream[s].phase \/ (stream'[s].phase = "read" /\ stream[s].phase = "checking")
                    /\ stream'[s].inst = stream[s].inst /\ stream'[s].set = stream[s].set
                    /\ stream[s].closed => stream'[s].closed
    BY <1>3, <1>4 DEF Listening
  <1>5. ASSUME NEW x \in Streams, UNCHANGED channel,
               \A s \in Streams \ {x} : stream'[s] = stream[s],
               stream[x].phase = "none", stream'[x].phase = "checking", stream'[x].set = stream[x].set
        PROVE  SetsApart'
    BY <1>3, <1>5 DEF Listening
  <1>6. ASSUME NEW x \in Streams,
               \A s \in Streams \ {x} : stream'[s] = stream[s],
               stream'[x].phase = stream[x].phase, stream'[x].inst = stream[x].inst, stream'[x].set = 0,
               channel' = IF stream[x].set # 0 /\ \A o \in Streams \ {x} : stream[o].set # stream[x].set
                          THEN [channel EXCEPT ![stream[x].inst] = 0] ELSE channel
        PROVE  SetsApart'
    <2>1. \A i \in Instances : channel'[i] \in {0, channel[i]}
      BY <1>1, <1>6
    <2>2. \A s \in Streams : stream'[s].set \in {0, stream[s].set} /\ (stream'[s].set # 0 => s # x)
      BY <1>6
    <2>3. \A s \in Streams : stream[s].phase # "none" => stream'[s].inst = stream[s].inst /\ stream'[s].phase # "none"
      BY <1>6
    <2>4. \A s \in Streams : stream'[s].set # 0 => stream[s].phase # "none"
      BY <1>6, <2>2 DEF Listening
    <2> QED BY <1>3, <2>1, <2>2, <2>3, <2>4
  <1>7. ASSUME NEW x \in Streams,
               \A s \in Streams \ {x} : stream'[s] = stream[s], stream[x].phase = "read",
               stream'[x].phase = "live", stream'[x].inst = stream[x].inst,
               stream'[x].set = SubscriptionOf(x),
               channel' = [channel EXCEPT ![stream[x].inst] = SubscriptionOf(x)]
        PROVE  SetsApart'
    <2> DEFINE c == SubscriptionOf(x)
    <2>1. /\ channel[stream[x].inst] = 0 => c = x
          /\ channel[stream[x].inst] # 0 => c = channel[stream[x].inst]
      BY DEF SubscriptionOf
    <2>2. c \in Streams /\ stream[c].inst = stream[x].inst /\ stream[c].phase # "none"
      BY <1>1, <1>2, <1>7, <2>1 DEF SetsApart
    <2> HIDE DEF c
    <2>3. channel' = [channel EXCEPT ![stream[x].inst] = c] /\ stream'[x].set = c
      BY <1>7 DEF c
    <2>4. \A s \in Streams : stream[s].phase # "none" => stream'[s].inst = stream[s].inst /\ stream'[s].phase # "none"
      BY <1>7
    <2>5. ASSUME NEW s \in Streams, stream'[s].set # 0
          PROVE  stream'[stream'[s].set].inst = stream'[s].inst /\ stream'[stream'[s].set].phase # "none"
      <3>1. CASE s = x
        BY <1>7, <2>2, <2>3, <2>4, <3>1
      <3>2. CASE s # x
        <4>1. stream'[s] = stream[s] /\ stream[s].set \in Streams
          BY <1>2, <1>7, <2>5, <3>2
        <4>2. stream[stream[s].set].inst = stream[s].inst /\ stream[stream[s].set].phase # "none"
          BY <2>5, <4>1 DEF SetsApart
        <4> QED BY <2>4, <4>1, <4>2
      <3> QED BY <3>1, <3>2
    <2>6. ASSUME NEW i \in Instances, channel'[i] # 0
          PROVE  stream'[channel'[i]].inst = i /\ stream'[channel'[i]].phase # "none"
      <3>1. CASE i = stream[x].inst
        BY <1>1, <1>2, <2>2, <2>3, <2>4, <3>1
      <3>2. CASE i # stream[x].inst
        <4>1. channel'[i] = channel[i] /\ channel[i] \in Streams
          BY <1>1, <2>3, <2>6, <3>2
        <4> QED BY <2>4, <2>6, <4>1 DEF SetsApart
      <3> QED BY <3>1, <3>2
    <2> QED BY <2>5, <2>6 DEF SetsApart
  <1> QED BY <1>4, <1>5, <1>6, <1>7, SubscriptionFate

-----------------------------------------------------------------------------
(* The browser and its stream.  What is on the wire comes after what the   *)
(* browser has seen, in order, and up to the last id the stream sent.      *)

Ascending(w, low, high) ==
    /\ \A k \in DOMAIN w : w[k] # Connected => low < w[k].id /\ w[k].id <= high
    /\ \A a, b \in DOMAIN w : a < b /\ w[a] # Connected /\ w[b] # Connected => w[a].id < w[b].id

InStep(st, after) ==
    /\ ~st.gone /\ st.phase # "none"
    /\ st.phase # "live" \/ st.closed => st.wire = <<>>
    /\ st.phase = "checking" /\ ~st.closed => st.after = after
    /\ st.phase = "read" /\ ~st.closed => st.last = after
    /\ st.phase = "live" /\ ~st.closed => after <= st.last /\ Ascending(st.wire, after, st.last)

InSync ==
    /\ \A k \in DOMAIN client.got : client.got[k] <= client.after
    /\ ReceivedOnceInOrder
    /\ client.stream # 0 => InStep(stream[client.stream], client.after)
    /\ \A s \in Streams : stream[s].phase = "none" =>
          stream[s].wire = <<>> /\ ~stream[s].gone /\ ~stream[s].closed

LEMMA EmptyAscends == ASSUME NEW low, NEW high PROVE Ascending(<<>>, low, high)
  BY DEF Ascending

LEMMA AscendingAppend ==
    ASSUME NEW w \in Seq(Chunks), NEW low \in Nat, NEW high \in Nat, low <= high, Ascending(w, low, high)
    PROVE  /\ Ascending(Append(w, Connected), low, high)
           /\ \A r \in Rows : r.id > high => Ascending(Append(w, r), low, r.id)
  <1>1. Len(w) \in Nat /\ DOMAIN w = 1 .. Len(w) /\ Connected \in Chunks
    BY DEF Chunks
  <1>2. \A k \in DOMAIN w : w[k] \in Chunks /\ (w[k] # Connected => w[k].id \in Nat)
    BY <1>1, RowIds, ElementOfSeq DEF Chunks
  <1>3. ASSUME NEW c \in Chunks
        PROVE  /\ DOMAIN Append(w, c) = 1 .. Len(w) + 1
               /\ \A i \in 1 .. Len(w) : Append(w, c)[i] = w[i]
               /\ Append(w, c)[Len(w) + 1] = c
    BY AppendProperties
  <1>4. Ascending(Append(w, Connected), low, high)
    <2> DEFINE v == Append(w, Connected)
    <2>1. /\ DOMAIN v = 1 .. Len(w) + 1
          /\ \A i \in 1 .. Len(w) : v[i] = w[i]
          /\ v[Len(w) + 1] = Connected
      BY <1>1, <1>3
    <2> HIDE DEF v
    <2>2. \A k \in DOMAIN v : v[k] # Connected => k \in DOMAIN w /\ v[k] = w[k]
      BY <1>1, <2>1
    <2>3. Ascending(v, low, high)
      BY <2>2 DEF Ascending
    <2> QED BY <2>3 DEF v
  <1>5. ASSUME NEW r \in Rows, r.id > high PROVE Ascending(Append(w, r), low, r.id)
    <2> DEFINE v == Append(w, r)
    <2>1. r \in Chunks /\ r.id \in Nat
      BY RowIds DEF Chunks
    <2>2. /\ DOMAIN v = 1 .. Len(w) + 1
          /\ \A i \in 1 .. Len(w) : v[i] = w[i]
          /\ v[Len(w) + 1] = r
      BY <1>3, <2>1
    <2> HIDE DEF v
    <2>3. \A k \in DOMAIN v : (k \in DOMAIN w /\ v[k] = w[k]) \/ (k = Len(w) + 1 /\ v[k] = r)
      BY <1>1, <2>2
    <2>4. ASSUME NEW k \in DOMAIN v, v[k] # Connected
          PROVE  low < v[k].id /\ v[k].id <= r.id
      BY <1>2, <1>5, <2>1, <2>3, <2>4 DEF Ascending
    <2>5. ASSUME NEW a \in DOMAIN v, NEW b \in DOMAIN v, a < b, v[a] # Connected, v[b] # Connected
          PROVE  v[a].id < v[b].id
      <3>1. a \in DOMAIN w /\ v[a] = w[a]
        BY <1>1, <2>2, <2>3, <2>5
      <3>2. CASE b \in DOMAIN w /\ v[b] = w[b]
        BY <2>5, <3>1, <3>2 DEF Ascending
      <3>3. CASE v[b] = r
        <4>1. w[a].id <= high /\ w[a].id \in Nat
          BY <1>2, <2>5, <3>1 DEF Ascending
        <4> QED BY <1>5, <2>1, <3>1, <3>3, <4>1
      <3> QED BY <2>3, <3>2, <3>3
    <2>6. Ascending(v, low, r.id)
      BY <2>4, <2>5 DEF Ascending
    <2> QED BY <2>6 DEF v
  <1> QED BY <1>4, <1>5

LEMMA AscendingConcat ==
    ASSUME NEW w \in Seq(Chunks), NEW low \in Nat, NEW high \in Nat, NEW top \in Nat,
           low <= high, high <= top, Ascending(w, low, high),
           NEW f, Ordered(f), \A k \in DOMAIN f : f[k].id > high /\ f[k].id <= top
    PROVE  Ascending(w \o f, low, top)
  <1> DEFINE v == w \o f
  <1>1. Len(w) \in Nat /\ DOMAIN w = 1 .. Len(w)
    OBVIOUS
  <1>2. \A k \in DOMAIN w : w[k] # Connected => w[k].id \in Nat
    BY <1>1, RowIds, ElementOfSeq DEF Chunks
  <1>3. f \in Seq(Chunks) /\ Len(f) \in Nat /\ DOMAIN f = 1 .. Len(f) /\ f \in Seq(Rows)
    BY DEF Ordered, Chunks
  <1>4. \A k \in DOMAIN f : f[k].id \in Nat
    BY <1>3, RowIds, ElementOfSeq
  <1>5. /\ v \in Seq(Chunks) /\ Len(v) = Len(w) + Len(f)
        /\ \A i \in 1 .. Len(w) + Len(f) : v[i] = IF i <= Len(w) THEN w[i] ELSE f[i - Len(w)]
    BY <1>3, ConcatProperties
  <1> HIDE DEF v
  <1>6. \A k \in DOMAIN v : \/ k \in DOMAIN w /\ v[k] = w[k]
                            \/ k - Len(w) \in DOMAIN f /\ v[k] = f[k - Len(w)]
    <2> TAKE k \in DOMAIN v
    <2>1. k \in 1 .. Len(w) + Len(f)
      BY <1>5
    <2> QED BY <1>1, <1>3, <1>5, <2>1
  <1>7. ASSUME NEW k \in DOMAIN v, v[k] # Connected
        PROVE  low < v[k].id /\ v[k].id <= top
    <2>1. CASE k \in DOMAIN w /\ v[k] = w[k]
      BY <1>2, <1>7, <2>1 DEF Ascending
    <2>2. CASE k - Len(w) \in DOMAIN f /\ v[k] = f[k - Len(w)]
      BY <1>4, <2>2
    <2> QED BY <1>6, <2>1, <2>2
  <1>8. ASSUME NEW a \in DOMAIN v, NEW b \in DOMAIN v, a < b, v[a] # Connected, v[b] # Connected
        PROVE  v[a].id < v[b].id
    <2>1. a \in Nat /\ b \in Nat
      BY <1>5
    <2>2. CASE b \in DOMAIN w /\ v[b] = w[b]
      <3>1. a \in DOMAIN w /\ v[a] = w[a]
        BY <1>1, <1>3, <1>6, <1>8, <2>1, <2>2
      <3> QED BY <1>8, <2>2, <3>1 DEF Ascending
    <2>3. CASE b - Len(w) \in DOMAIN f /\ v[b] = f[b - Len(w)]
      <3>1. CASE a \in DOMAIN w /\ v[a] = w[a]
        <4>1. w[a].id <= high /\ w[a].id \in Nat /\ f[b - Len(w)].id > high /\ f[b - Len(w)].id \in Nat
          BY <1>2, <1>4, <1>8, <2>3, <3>1 DEF Ascending
        <4> QED BY <2>3, <3>1, <4>1
      <3>2. CASE a - Len(w) \in DOMAIN f /\ v[a] = f[a - Len(w)]
        <4>1. a - Len(w) < b - Len(w)
          BY <1>1, <1>8, <2>1
        <4>2. f[a - Len(w)].id < f[b - Len(w)].id
          BY <2>3, <3>2, <4>1 DEF Ordered
        <4> QED BY <2>3, <3>2, <4>2
      <3> QED BY <1>6, <3>1, <3>2
    <2> QED BY <1>6, <2>2, <2>3
  <1>9. Ascending(v, low, top)
    BY <1>7, <1>8 DEF Ascending
  <1> QED BY <1>9 DEF v

LEMMA AscendingTail ==
    ASSUME NEW w \in Seq(Chunks), w # <<>>, NEW low \in Nat, NEW high \in Nat, Ascending(w, low, high)
    PROVE  /\ Head(w) = Connected => Ascending(Tail(w), low, high)
           /\ Head(w) # Connected => /\ low < Head(w).id /\ Head(w).id <= high
                                     /\ Head(w) \in Rows
                                     /\ Ascending(Tail(w), Head(w).id, high)
  <1> DEFINE v == Tail(w)
             h == Head(w)
  <1>1. Len(w) \in Nat /\ DOMAIN w = 1 .. Len(w) /\ 1 \in DOMAIN w /\ h = w[1]
    OBVIOUS
  <1>2. /\ h \in Chunks /\ v \in Seq(Chunks) /\ Len(v) = Len(w) - 1
        /\ \A i \in 1 .. Len(v) : v[i] = w[i + 1]
    BY HeadTailProperties
  <1> HIDE DEF v, h
  <1>3. \A k \in DOMAIN v : k + 1 \in DOMAIN w /\ v[k] = w[k + 1] /\ k \in Nat /\ 1 < k + 1
    BY <1>1, <1>2
  <1>4. \A a, b \in DOMAIN v : a < b /\ v[a] # Connected /\ v[b] # Connected => v[a].id < v[b].id
    <2> TAKE a, b \in DOMAIN v
    <2> HAVE a < b /\ v[a] # Connected /\ v[b] # Connected
    <2>1. a + 1 < b + 1
      BY <1>3
    <2> QED BY <1>3, <2>1 DEF Ascending
  <1>5. Ascending(v, low, high)
    BY <1>3, <1>4 DEF Ascending
  <1>6. ASSUME h # Connected
        PROVE  low < h.id /\ h.id <= high /\ h \in Rows /\ Ascending(v, h.id, high)
    <2>1. low < h.id /\ h.id <= high /\ h \in Rows
      BY <1>1, <1>2, <1>6 DEF Ascending, Chunks
    <2>2. \A k \in DOMAIN v : v[k] # Connected => h.id < v[k].id /\ v[k].id <= high
      BY <1>1, <1>3, <1>6 DEF Ascending
    <2> QED BY <1>4, <2>1, <2>2 DEF Ascending
  <1> QED BY <1>5, <1>6 DEF v, h

\* Whatever the server does with the stream that the browser reads.
LEMMA StaysInStep ==
    ASSUME Typed, Listening, Next, NEW s \in Streams, NEW after \in Nat, InStep(stream[s], after),
           ~(Receive /\ s = client.stream), client'.stream = s, client.stream = s
    PROVE  InStep(stream'[s], after)
  <1> DEFINE st == stream[s]
             p == stream'[s]
             G == InStep(p, after)
  <1>1. /\ st \in StreamRecords /\ Ordered(st.replay) /\ \A q \in st.polls : Ordered(q)
        /\ InStep(st, after) /\ ~st.gone /\ st.phase # "none"
    BY DEF Typed, InStep
  <1>2. st.last \in Nat /\ st.after \in Nat /\ st.wire \in Seq(Chunks)
    BY <1>1 DEF StreamRecords, Ids, Chunks
  <1>3. st.phase # "live" => st.set = 0
    BY DEF Listening
  <1> HIDE DEF st, p
  <1>4. ASSUME p = Started(st), Start(s) PROVE G
    <2>1. st.phase = "checking" /\ ~st.closed
      BY <1>4 DEF Start, st
    <2>2. /\ p.phase = "read" /\ p.last = st.after /\ p.wire = st.wire /\ p.gone = st.gone
          /\ p.closed = st.closed
      BY ONLY <1>1, <1>4 DEF Started, StreamRecords
    <2> QED BY <1>1, <2>1, <2>2 DEF InStep
  <1>5. ASSUME p = Closed(st), ReplayFails(s) \/ Abort(s) PROVE G
    <2>1. st.phase = "checking"
      BY <1>1, <1>5 DEF ReplayFails, Abort, st
    <2>2. p.phase = st.phase /\ p.closed = TRUE /\ p.gone = st.gone /\ p.wire = st.wire
      BY ONLY <1>1, <1>5 DEF Closed, StreamRecords
    <2> QED BY <1>1, <2>1, <2>2 DEF InStep
  <1>6. ASSUME p = SetLive(Replayed(st), SubscriptionOf(s)), GoLive(s) PROVE G
    <2> DEFINE v == Replayed(st)
               u == PushAll(st, st.replay)
               f == Above(st.replay, st.last)
    <2>1. st.phase = "read" /\ ~st.closed
      BY <1>6 DEF GoLive, st
    <2>2. st.wire = <<>> /\ st.last = after
      BY <1>1, <2>1 DEF InStep
    <2>3. /\ v \in StreamRecords /\ SameButSent(v, st) /\ v.last = u.last
          /\ v.wire = Append(st.wire \o f, Connected)
      BY <1>1, <2>1, ReplayedSent
    <2>4. u.last >= st.last /\ (\A k \in DOMAIN f : f[k].id <= u.last) /\ u \in StreamRecords
      BY <1>1, PushedAll
    <2>5. Ordered(f) /\ \A k \in DOMAIN f : f[k].id > st.last
      BY <1>1, <1>2, AboveKeeps
    <2>6. SubscriptionOf(s) \in {0} \cup Streams
      BY <1>1 DEF SubscriptionOf, Typed, st, StreamRecords
    <2>7. p.phase = "live" /\ p.wire = v.wire /\ p.last = v.last /\ p.gone = v.gone /\ p.closed = v.closed
      BY <1>6, <2>3, <2>6, StreamValues, ZenonT(40) DEF v
    <2>8. u.last \in Nat
      BY <2>4 DEF StreamRecords, Ids
    <2>9. st.wire \o f \in Seq(Chunks)
      <3>1. f \in Seq(Chunks)
        BY <2>5 DEF Ordered, Chunks
      <3> QED BY <1>2, <3>1, ConcatProperties
    <2> HIDE DEF v, u, f
    <2>10. Ascending(st.wire \o f, after, u.last)
      <3>1. Ascending(st.wire, after, st.last) /\ after <= st.last
        BY <2>2, EmptyAscends
      <3> QED BY <1>2, <2>4, <2>5, <2>8, <3>1, AscendingConcat
    <2>11. Ascending(v.wire, after, u.last)
      <3>1. after <= u.last
        BY <2>2, <2>4
      <3> QED BY <2>3, <2>8, <2>9, <2>10, <3>1, AscendingAppend
    <2>12. p.phase = "live" /\ ~p.gone /\ ~p.closed
      BY <1>1, <2>1, <2>3, <2>7 DEF SameButSent
    <2>13. after <= p.last /\ Ascending(p.wire, after, p.last)
      BY <2>2, <2>3, <2>4, <2>7, <2>11
    <2> QED BY <2>12, <2>13 DEF InStep
  <1>7. ASSUME p = Polled(st) PROVE G
    <2>1. /\ p.phase = st.phase /\ p.wire = st.wire /\ p.last = st.last /\ p.after = st.after
          /\ p.gone = st.gone /\ p.closed = st.closed
      BY ONLY <1>1, <1>7 DEF Polled, StreamRecords
    <2> QED BY <1>1, <2>1 DEF InStep
  <1>8. ASSUME NEW found \in st.polls, p = Applied(st, found), PollApply(s) PROVE G
    <2> DEFINE u == PushAll(st, found)
               f == Above(found, st.last)
    <2>1. st.phase = "live" /\ ~st.closed /\ Ordered(found)
      BY <1>1, <1>8 DEF PollApply, Polling, st
    <2>2. after <= st.last /\ Ascending(st.wire, after, st.last)
      BY <1>1, <2>1 DEF InStep
    <2>3. /\ u \in StreamRecords /\ SameButSent(u, st) /\ u.wire = st.wire \o f
          /\ u.last >= st.last /\ \A k \in DOMAIN f : f[k].id <= u.last
      BY <1>1, <2>1, PushedAll
    <2>4. Ordered(f) /\ \A k \in DOMAIN f : f[k].id > st.last
      BY <1>2, <2>1, AboveKeeps
    <2>5. p = [u EXCEPT !.polls = @ \ {found}]
      BY <1>8 DEF Applied
    <2> HIDE DEF u, f
    <2>6. p.phase = u.phase /\ p.wire = u.wire /\ p.last = u.last /\ p.gone = u.gone /\ p.closed = u.closed
      BY ONLY <2>3, <2>5 DEF StreamRecords
    <2>7. u.last \in Nat
      BY <2>3 DEF StreamRecords, Ids
    <2>8. Ascending(st.wire \o f, after, u.last)
      BY <1>2, <2>2, <2>3, <2>4, <2>7, AscendingConcat
    <2>9. after <= u.last
      BY <1>2, <2>2, <2>3, <2>7
    <2> QED BY <1>1, <2>1, <2>3, <2>6, <2>8, <2>9 DEF InStep, SameButSent
  <1>9. ASSUME EnqueueThrows(s) PROVE G
    BY <1>1, <1>9 DEF EnqueueThrows, st
  <1>10. ASSUME NEW r \in rows, st.set # 0, p = PushDelivery(st, r) PROVE G
    <2>1. r \in Rows /\ r.id \in Nat
      BY RowIds DEF Typed
    <2>2. st.phase = "live"
      BY <1>3, <1>10
    <2>3. SameButSent(p, st)
      BY <1>1, <1>10, <2>1, PushedOne
    <2>4. CASE r.id <= st.last
      <3>1. p = st
        BY <1>1, <1>10, <2>1, <2>4, PushedOne
      <3> QED BY <1>1, <3>1
    <2>5. CASE r.id > st.last /\ st.closed
      <3>1. p.wire = st.wire
        BY <1>1, <1>10, <2>5 DEF PushDelivery, Push, StreamRecords
      <3> QED BY <1>1, <2>2, <2>3, <2>5, <3>1 DEF InStep, SameButSent
    <2>6. CASE r.id > st.last /\ ~st.closed
      <3>1. p.last = r.id /\ p.wire = Append(st.wire, r)
        BY <1>1, <1>10, <2>1, <2>6, PushedOne
      <3>2. after <= st.last /\ Ascending(st.wire, after, st.last)
        BY <1>1, <2>2, <2>6 DEF InStep
      <3>3. Ascending(p.wire, after, r.id)
        BY <1>2, <2>1, <2>6, <3>1, <3>2, AscendingAppend
      <3>4. after <= r.id
        BY <1>2, <2>1, <2>6, <3>2
      <3> QED BY <1>1, <2>2, <2>3, <2>6, <3>1, <3>3, <3>4 DEF InStep, SameButSent
    <2> QED BY <1>2, <2>1, <2>4, <2>5, <2>6
  <1>11. ~(StreamOver \/ ConnectionFails \/ TurnEnds)
    <2>1. client \in ClientRecords /\ s # 0
      BY DEF Typed, Streams
    <2>2. ASSUME client' = Idle \/ client' = [client EXCEPT !.stream = 0] PROVE client'.stream = 0
      BY ONLY <2>1, <2>2 DEF Idle, ClientRecords
    <2> QED BY <2>1, <2>2 DEF StreamOver, ConnectionFails, TurnEnds
  <1>12. \/ p = st
         \/ Start(s) /\ p = Started(st)
         \/ (ReplayFails(s) \/ Abort(s)) /\ p = Closed(st)
         \/ GoLive(s) /\ p = SetLive(Replayed(st), SubscriptionOf(s))
         \/ p = Polled(st)
         \/ \E found \in st.polls : PollApply(s) /\ p = Applied(st, found)
         \/ EnqueueThrows(s)
         \/ \E r \in rows : st.set # 0 /\ p = PushDelivery(st, r)
    <2>1. \A i \in Instances : ~Connect(i)
      <3>1. client.stream # 0
        BY DEF Streams
      <3> QED BY <3>1 DEF Connect
    <2> QED BY <1>11, <2>1, StreamFate DEF st, p, Listeners
  <1>13. p = st => G
    BY <1>1
  <1> HIDE DEF G
  <1>14. G
    BY <1>4, <1>5, <1>6, <1>7, <1>8, <1>9, <1>10, <1>12, <1>13
  <1> QED BY <1>14 DEF G, p

\* The browser reads one frame.
LEMMA ReadInStep ==
    ASSUME Typed, InSync, Receive, client.stream \in Streams
    PROVE  LET st == stream[client.stream]
               chunk == Head(st.wire)
           IN  /\ st.phase = "live" /\ ~st.closed
               /\ stream'[client.stream] = Read(st)
               /\ chunk = Connected => InStep(Read(st), client.after)
               /\ chunk # Connected => /\ chunk \in Rows /\ client.after < chunk.id /\ chunk.id <= st.last
                                       /\ InStep(Read(st), chunk.id)
  <1> DEFINE st == stream[client.stream]
             chunk == Head(st.wire)
             p == Read(st)
  <1>1. /\ st \in StreamRecords /\ client.after \in Nat /\ client.stream # 0
        /\ stream \in [Streams -> StreamRecords]
    BY DEF Typed, ClientRecords, Ids, Streams
  <1>2. st.wire # <<>> /\ stream'[client.stream] = Read(st)
    BY <1>1 DEF Receive, Read
  <1>3. InStep(st, client.after)
    BY <1>1 DEF InSync
  <1>4. st.wire \in Seq(Chunks) /\ st.last \in Nat
    BY <1>1 DEF StreamRecords, Chunks, Ids
  <1> HIDE DEF st, p, chunk
  <1>5. st.phase = "live" /\ ~st.closed /\ ~st.gone
    BY <1>2, <1>3 DEF InStep
  <1>6. client.after <= st.last /\ Ascending(st.wire, client.after, st.last)
    BY <1>3, <1>5 DEF InStep
  <1>7. /\ chunk = Connected => Ascending(Tail(st.wire), client.after, st.last)
        /\ chunk # Connected => /\ client.after < chunk.id /\ chunk.id <= st.last
                                /\ chunk \in Rows
                                /\ Ascending(Tail(st.wire), chunk.id, st.last)
    BY <1>1, <1>2, <1>4, <1>6, AscendingTail DEF chunk
  <1>8. /\ p.phase = st.phase /\ p.wire = Tail(st.wire) /\ p.last = st.last
        /\ p.gone = st.gone /\ p.closed = st.closed
    BY ONLY <1>1 DEF Read, StreamRecords, p
  <1>9. chunk = Connected => InStep(p, client.after)
    BY <1>5, <1>6, <1>7, <1>8 DEF InStep
  <1>10. chunk # Connected => InStep(p, chunk.id)
    BY <1>5, <1>7, <1>8 DEF InStep
  <1> QED BY <1>2, <1>5, <1>7, <1>9, <1>10 DEF st, p, chunk

LEMMA UnusedKept ==
    ASSUME Typed, Listening, InSync, Next, NEW s \in Streams, stream'[s].phase = "none"
    PROVE  stream'[s].wire = <<>> /\ ~stream'[s].gone /\ ~stream'[s].closed
  <1> DEFINE st == stream[s]
             p == stream'[s]
  <1>1. /\ st \in StreamRecords /\ Ordered(st.replay) /\ \A q \in st.polls : Ordered(q)
    BY DEF Typed
  <1>2. st.phase = "none" => /\ st.wire = <<>> /\ ~st.gone /\ ~st.closed /\ s # client.stream /\ st.set = 0
    BY DEF InSync, InStep, Listening, Streams
  <1>3. p.phase = "none"
    OBVIOUS
  <1> HIDE DEF st, p
  <1>4. ASSUME NEW i \in Instances, p = Opened(st, i, client.after) PROVE FALSE
    <2> DEFINE a == client.after
    <2>1. p = Opened(st, i, a)
      BY <1>4
    <2> HIDE DEF a
    <2> QED BY ONLY <1>1, <1>3, <2>1 DEF Opened, StreamRecords
  <1>5. ASSUME p = Started(st) PROVE FALSE
    BY ONLY <1>1, <1>3, <1>5 DEF Started, StreamRecords
  <1>6. ASSUME p = Closed(st), ReplayFails(s) \/ Abort(s) PROVE FALSE
    <2>1. p.phase = st.phase
      BY ONLY <1>1, <1>6 DEF Closed, StreamRecords
    <2> QED BY <1>2, <1>3, <1>6, <2>1 DEF ReplayFails, Abort, st
  <1>7. ASSUME p = SetLive(Replayed(st), SubscriptionOf(s)) PROVE FALSE
    <2> DEFINE v == Replayed(st)
               c == SubscriptionOf(s)
    <2>1. v \in StreamRecords /\ p = SetLive(v, c)
      BY <1>1, <1>7, ReplayedSent
    <2> HIDE DEF v, c
    <2> QED BY ONLY <1>3, <2>1 DEF SetLive, StreamRecords
  <1>8. ASSUME PollRead(s) \/ PollApply(s) \/ EnqueueThrows(s) PROVE st.phase # "none"
    BY <1>2, <1>8 DEF PollRead, PollApply, Polling, EnqueueThrows, st
  <1>9. ASSUME p = Polled(st) \/ p = [st EXCEPT !.closed = TRUE] PROVE p.phase = st.phase
    BY ONLY <1>1, <1>9 DEF Polled, StreamRecords
  <1>10. ASSUME NEW found \in st.polls, p = Applied(st, found) PROVE p.phase = st.phase
    <2> DEFINE u == PushAll(st, found)
    <2>1. u \in StreamRecords /\ u.phase = st.phase
      BY <1>1, PushedAll DEF SameButSent
    <2>2. p = [u EXCEPT !.polls = @ \ {found}]
      BY <1>10 DEF Applied
    <2> HIDE DEF u
    <2>3. p.phase = u.phase
      BY ONLY <2>1, <2>2 DEF StreamRecords
    <2> QED BY <2>1, <2>3
  <1>11. ASSUME NEW r \in rows, st.set # 0, p = PushDelivery(st, r) PROVE FALSE
    <2>1. p.phase = st.phase
      BY <1>1, <1>11, PushedOne DEF SameButSent, Typed
    <2> QED BY <1>2, <1>3, <1>11, <2>1
  <1>12. ASSUME s = client.stream, p = Read(st) \/ p = Left(st) PROVE FALSE
    <2>1. p.phase = st.phase
      BY ONLY <1>1, <1>12 DEF Read, Left, StreamRecords
    <2> QED BY <1>2, <1>3, <1>12, <2>1
  <1>13. \/ p = st
         \/ \E i \in Instances : p = Opened(st, i, client.after)
         \/ p = Started(st)
         \/ (ReplayFails(s) \/ Abort(s)) /\ p = Closed(st)
         \/ p = SetLive(Replayed(st), SubscriptionOf(s))
         \/ PollRead(s) /\ p = Polled(st)
         \/ \E found \in st.polls : PollApply(s) /\ p = Applied(st, found)
         \/ EnqueueThrows(s) /\ p = [st EXCEPT !.closed = TRUE]
         \/ \E r \in rows : st.set # 0 /\ p = PushDelivery(st, r)
         \/ s = client.stream /\ (p = Read(st) \/ p = Left(st))
    BY StreamFate DEF st, p, Listeners
  <1>14. p = st
    BY <1>3, <1>4, <1>5, <1>6, <1>7, <1>8, <1>9, <1>10, <1>11, <1>12, <1>13
  <1> QED BY <1>2, <1>3, <1>14 DEF p

LEMMA InSyncKept == ASSUME Typed, Listening, InSync, Next PROVE InSync'
  <1>1. /\ client \in ClientRecords /\ stream \in [Streams -> StreamRecords]
        /\ client.after \in Nat /\ client.got \in Seq(Ids) /\ client.stream \in {0} \cup Streams
    BY DEF Typed, ClientRecords, Ids
  <1>2. /\ \A k \in DOMAIN client.got : client.got[k] <= client.after
        /\ \A a, b \in DOMAIN client.got : a < b => client.got[a] < client.got[b]
        /\ client.stream # 0 => InStep(stream[client.stream], client.after)
    BY DEF InSync, ReceivedOnceInOrder
  <1>3. \A s \in Streams : stream'[s].phase = "none" =>
           stream'[s].wire = <<>> /\ ~stream'[s].gone /\ ~stream'[s].closed
    BY UnusedKept
  <1>4. ASSUME (client'.got = client.got /\ client'.after = client.after) \/ client'.got = <<>>
        PROVE  /\ \A k \in DOMAIN client'.got : client'.got[k] <= client'.after
               /\ ReceivedOnceInOrder'
    <2>1. CASE client'.got = client.got /\ client'.after = client.after
      BY <1>2, <2>1 DEF ReceivedOnceInOrder
    <2>2. CASE client'.got = <<>>
      BY <2>2 DEF ReceivedOnceInOrder
    <2> QED BY <1>4, <2>1, <2>2
  <1>5. ASSUME (client'.got = client.got /\ client'.after = client.after) \/ client'.got = <<>>,
               client'.stream = 0
        PROVE  InSync'
    BY <1>3, <1>4, <1>5 DEF InSync
  <1>6. ASSUME UNCHANGED client, ~Receive PROVE InSync'
    <2>1. ASSUME client.stream # 0 PROVE InStep(stream'[client.stream], client.after)
      <3>1. client.stream \in Streams /\ InStep(stream[client.stream], client.after)
            /\ client'.stream = client.stream
        BY <1>1, <1>2, <1>6, <2>1
      <3> QED BY <1>1, <1>6, <3>1, StaysInStep
    <2> QED BY <1>3, <1>4, <1>6, <2>1 DEF InSync
  <1>7. ASSUME NEW i \in Instances, Post(i), client'.stream = client.stream,
               client'.after = client.after, client'.got = client.got
        PROVE  InSync'
    <2>1. UNCHANGED stream
      BY <1>7 DEF Post
    <2> QED BY <1>2, <1>3, <1>4, <1>7, <2>1 DEF InSync
  <1>8. ASSUME NEW i \in Instances, NEW s \in Streams, client'.stream = s,
               client'.after = client.after, client'.got = client.got, stream[s].phase = "none",
               stream'[s] = Opened(stream[s], i, client.after)
        PROVE  InSync'
    <2>1. stream[s].wire = <<>> /\ ~stream[s].gone /\ ~stream[s].closed /\ stream[s] \in StreamRecords
      BY <1>1, <1>8 DEF InSync
    <2> DEFINE p == Opened(stream[s], i, client.after)
    <2>2. /\ p.phase = "checking" /\ p.after = client.after /\ p.wire = stream[s].wire
          /\ p.gone = stream[s].gone /\ p.closed = stream[s].closed
      BY ONLY <2>1 DEF Opened, StreamRecords
    <2>3. InStep(p, client.after)
      BY <2>1, <2>2 DEF InStep
    <2> QED BY <1>3, <1>4, <1>8, <2>3 DEF InSync
  <1>9. ASSUME Receive, client.stream \in Streams, client'.stream = client.stream,
               Head(stream[client.stream].wire) = Connected,
               client'.after = client.after, client'.got = client.got
        PROVE  InSync'
    <2>1. InStep(stream'[client.stream], client.after)
      BY <1>9, ReadInStep
    <2> QED BY <1>3, <1>4, <1>9, <2>1 DEF InSync
  <1>10. ASSUME Receive, client.stream \in Streams, client'.stream = client.stream,
                NEW chunk, chunk = Head(stream[client.stream].wire), chunk # Connected,
                client'.after = chunk.id, client'.got = Append(client.got, chunk.id)
         PROVE  InSync'
    <2>1. /\ chunk \in Rows /\ client.after < chunk.id
          /\ InStep(stream'[client.stream], chunk.id)
      BY <1>10, ReadInStep
    <2>2. chunk.id \in Ids /\ chunk.id \in Nat
      BY <2>1, RowIds
    <2> DEFINE g == Append(client.got, chunk.id)
               n == Len(client.got)
    <2>3. /\ DOMAIN g = 1 .. n + 1 /\ DOMAIN client.got = 1 .. n /\ n \in Nat
          /\ \A k \in 1 .. n : g[k] = client.got[k]
          /\ g[n + 1] = chunk.id
      BY <1>1, <2>2, AppendProperties
    <2> HIDE DEF g, n
    <2>4. \A k \in 1 .. n : g[k] \in Nat /\ g[k] <= client.after
      <3> TAKE k \in 1 .. n
      <3>1. client.got[k] \in Ids
        BY <1>1, <2>3, ElementOfSeq
      <3>2. client.got[k] \in Nat
        BY <3>1 DEF Ids
      <3> QED BY <1>2, <2>3, <3>2
    <2>5. \A k \in DOMAIN g : g[k] <= chunk.id
      <3> TAKE k \in DOMAIN g
      <3>1. k \in 1 .. n \/ k = n + 1
        BY <2>3
      <3> QED BY <1>1, <2>1, <2>2, <2>3, <2>4, <3>1
    <2>6. \A a, b \in DOMAIN g : a < b => g[a] < g[b]
      <3> TAKE a, b \in DOMAIN g
      <3> HAVE a < b
      <3>1. a \in 1 .. n /\ (b \in 1 .. n \/ b = n + 1)
        BY <2>3
      <3>2. CASE b \in 1 .. n
        BY <1>2, <2>3, <3>1, <3>2
      <3>3. CASE b = n + 1
        BY <1>1, <2>1, <2>2, <2>3, <2>4, <3>1, <3>3
      <3> QED BY <3>1, <3>2, <3>3
    <2>7. client'.got = g
      BY <1>10 DEF g
    <2> QED BY <1>3, <1>10, <2>1, <2>5, <2>6, <2>7 DEF InSync, ReceivedOnceInOrder
  <1> QED BY <1>5, <1>6, <1>7, <1>8, <1>9, <1>10, ClientFate

-----------------------------------------------------------------------------
(* Nothing is skipped.  While no stream runs on the instance of the        *)
(* browser's turn and no other turn stores events in between, every event  *)
(* of the turn up to the last one seen, sent, read or polled is seen, on   *)
(* the wire or in what was read.                                           *)

Mine == {r \in rows : r.turn = client.turn}

\* What OtherInstanceMissesNothing supposes.
Alone ==
    /\ client.phase = "posted"
    /\ \A s \in Streams : stream[s].phase # "none" => stream[s].inst # turn[client.turn].inst
    /\ \A r \in rows \ Mine, m \in Mine : r.id < m.id

Has(q, r) == \E k \in DOMAIN q : q[k] = r

\* Of the rows of M above an id, those up to one that was read were read.
Covers(q, low, M) == \A r \in M, k \in DOMAIN q : r.id <= q[k].id => r.id <= low \/ Has(q, r)

NoGap(st, after, M) ==
    ~st.closed =>
        /\ st.phase = "read" => Covers(st.replay, after, M)
        /\ st.phase = "live" =>
              /\ \A r \in M : r.id <= st.last => r.id <= after \/ Has(st.wire, r)
              /\ \A q \in st.polls : Covers(q, st.last, M)

SeenAll == \A r \in Mine : r.id <= client.after => \E k \in DOMAIN client.got : client.got[k] = r.id

NoneSkipped ==
    Alone => SeenAll /\ (client.stream # 0 => NoGap(stream[client.stream], client.after, Mine))

PollsAreLive == \A s \in Streams : stream[s].phase # "live" => stream[s].polls = {}

LEMMA HasAppended ==
    ASSUME NEW w \in Seq(Chunks), NEW c \in Chunks, NEW r
    PROVE  /\ Has(w, r) => Has(Append(w, c), r)
           /\ Has(Append(w, c), c)
  <1> DEFINE v == Append(w, c)
  <1>1. /\ DOMAIN w = 1 .. Len(w) /\ Len(w) \in Nat
        /\ DOMAIN v = 1 .. Len(w) + 1 /\ v[Len(w) + 1] = c
        /\ \A k \in 1 .. Len(w) : v[k] = w[k]
    BY AppendProperties
  <1> HIDE DEF v
  <1>2. (Has(w, r) => Has(v, r)) /\ Has(v, c)
    BY <1>1 DEF Has
  <1> QED BY <1>2 DEF v

LEMMA HasJoined ==
    ASSUME NEW w \in Seq(Chunks), NEW f, Ordered(f), NEW r, Has(w, r) \/ Has(f, r)
    PROVE  Has(w \o f, r)
  <1> DEFINE v == w \o f
  <1>1. f \in Seq(Chunks) /\ Len(f) \in Nat /\ DOMAIN f = 1 .. Len(f) /\ Len(w) \in Nat /\ DOMAIN w = 1 .. Len(w)
    BY DEF Ordered, Chunks
  <1>2. /\ v \in Seq(Chunks) /\ Len(v) = Len(w) + Len(f)
        /\ \A i \in 1 .. Len(w) + Len(f) : v[i] = IF i <= Len(w) THEN w[i] ELSE f[i - Len(w)]
    BY <1>1, ConcatProperties
  <1> HIDE DEF v
  <1>3. DOMAIN v = 1 .. Len(w) + Len(f)
    BY <1>2
  <1>4. ASSUME NEW k \in DOMAIN w, w[k] = r PROVE Has(v, r)
    BY <1>1, <1>2, <1>3, <1>4 DEF Has
  <1>5. ASSUME NEW k \in DOMAIN f, f[k] = r PROVE Has(v, r)
    <2>1. Len(w) + k \in DOMAIN v /\ ~(Len(w) + k <= Len(w)) /\ Len(w) + k - Len(w) = k
      BY <1>1, <1>3
    <2> QED BY <1>2, <1>3, <1>5, <2>1, SMTT(30) DEF Has
  <1>6. Has(v, r)
    BY <1>4, <1>5 DEF Has
  <1> QED BY <1>6 DEF v

LEMMA HasLeft ==
    ASSUME NEW w \in Seq(Chunks), w # <<>>, NEW r, Has(w, r)
    PROVE  r = Head(w) \/ Has(Tail(w), r)
  <1> DEFINE v == Tail(w)
  <1>1. Len(w) \in Nat /\ DOMAIN w = 1 .. Len(w) /\ Head(w) = w[1]
    OBVIOUS
  <1>2. /\ v \in Seq(Chunks) /\ Len(v) = Len(w) - 1
        /\ \A i \in 1 .. Len(v) : v[i] = w[i + 1]
    BY HeadTailProperties
  <1> HIDE DEF v
  <1>3. DOMAIN v = 1 .. Len(v)
    BY <1>2
  <1>4. PICK k \in DOMAIN w : w[k] = r
    BY DEF Has
  <1>5. CASE k = 1
    BY <1>1, <1>4, <1>5
  <1>6. CASE k # 1
    <2>1. k - 1 \in DOMAIN v /\ k - 1 + 1 = k
      BY <1>1, <1>2, <1>3, <1>4, <1>6
    <2>2. Has(v, r)
      BY <1>2, <1>3, <1>4, <2>1 DEF Has
    <2> QED BY <2>2 DEF v
  <1> QED BY <1>5, <1>6

\* A larger bound covers no less.
LEMMA CoversAbove ==
    ASSUME NEW q, NEW low \in Nat, NEW high \in Nat, low <= high, NEW M, M \subseteq Rows, Covers(q, low, M)
    PROVE  Covers(q, high, M)
  <1>1. \A r \in M : r.id \in Nat
    BY RowIds
  <1> QED BY <1>1 DEF Covers

\* The buffer holds every event of the turn.
LEMMA MineIsRecent ==
    ASSUME Typed, TurnInv, Alone, NEW r \in Mine
    PROVE  Has(Recent, r)
  <1> DEFINE q == Recent
  <1>1. /\ Ordered(q) /\ \A k \in DOMAIN q : q[k] \in rows
        /\ Has(q, r) \/ (Len(q) = BufferLimit /\ \A k \in DOMAIN q : r.id < q[k].id)
    BY TableKept, RecentRows DEF Mine, Has
  <1> HIDE DEF q
  <1> SUFFICES ASSUME Len(q) = BufferLimit, \A k \in DOMAIN q : r.id < q[k].id
               PROVE  FALSE
    BY <1>1 DEF q
  <1>2. BufferLimit \in Nat /\ BufferLimit > MaxThinking /\ MaxThinking \in Nat
    BY AgentEventsConstants
  <1>3. DOMAIN q = 1 .. BufferLimit
    BY <1>1 DEF Ordered
  <1>4. rows \subseteq Rows /\ \A a, b \in rows : a.turn = b.turn /\ a.what = b.what => a = b
    BY DEF Typed, TurnInv, IdsApart
  <1>5. r \in rows /\ r \in Rows /\ r.id \in Nat
    BY <1>4, RowIds DEF Mine
  <1>6. \A k \in DOMAIN q : q[k] \in Mine /\ q[k] \in Rows /\ q[k].id \in Nat
    <2> TAKE k \in DOMAIN q
    <2>1. q[k] \in rows /\ q[k] \in Rows /\ q[k].id \in Nat /\ r.id < q[k].id
      BY <1>1, <1>4, RowIds
    <2>2. q[k] \notin Mine => q[k].id < r.id
      BY <2>1 DEF Alone
    <2> QED BY <1>5, <2>1, <2>2
  <1> DEFINE W == 0 .. MaxThinking
             f == [k \in 0 .. BufferLimit |-> IF k = 0 THEN r.what ELSE q[k].what]
  <1>7. f \in [0 .. BufferLimit -> W]
    <2>1. \A x \in Rows : x.what \in W
      BY DEF Rows
    <2>2. \A k \in 0 .. BufferLimit : k = 0 \/ k \in DOMAIN q
      BY <1>2, <1>3
    <2> HIDE DEF W
    <2> QED BY <1>5, <1>6, <2>1, <2>2
  <1>8. ASSUME NEW x \in Mine, NEW y \in Mine, x.what = y.what PROVE x = y
    BY <1>4, <1>8 DEF Mine
  <1>9. \A a, b \in 0 .. BufferLimit : a < b => f[a] # f[b]
    <2> TAKE a, b \in 0 .. BufferLimit
    <2> HAVE a < b
    <2>1. b # 0 /\ b \in DOMAIN q
      BY <1>2, <1>3
    <2>2. CASE a = 0
      <3>1. r # q[b]
        BY <1>5, <1>6, <2>1
      <3> QED BY <1>6, <1>8, <2>1, <2>2, <3>1
    <2>3. CASE a # 0
      <3>1. a \in DOMAIN q
        BY <1>2, <1>3, <2>3
      <3>2. q[a].id < q[b].id
        BY <1>1, <2>1, <3>1 DEF Ordered
      <3>3. q[a] # q[b]
        BY <1>6, <2>1, <3>1, <3>2
      <3> QED BY <1>6, <1>8, <2>1, <2>3, <3>1, <3>3
    <2> QED BY <2>2, <2>3
  <1>10. \A a, b \in 0 .. BufferLimit : f[a] = f[b] => a = b
    <2> TAKE a, b \in 0 .. BufferLimit
    <2>1. a < b \/ b < a \/ a = b
      BY <1>2
    <2> HIDE DEF f
    <2> QED BY <1>9, <2>1
  <1>11. /\ IsFiniteSet(0 .. BufferLimit) /\ Cardinality(0 .. BufferLimit) = BufferLimit + 1
         /\ IsFiniteSet(W) /\ Cardinality(W) = MaxThinking + 1
    <2>1. /\ Cardinality(0 .. BufferLimit) = IF 0 > BufferLimit THEN 0 ELSE BufferLimit - 0 + 1
          /\ Cardinality(0 .. MaxThinking) = IF 0 > MaxThinking THEN 0 ELSE MaxThinking - 0 + 1
          /\ IsFiniteSet(0 .. BufferLimit) /\ IsFiniteSet(0 .. MaxThinking)
      BY <1>2, FS_Interval
    <2> QED BY <1>2, <2>1
  <1> HIDE DEF f, W
  <1>12. \E a, b \in 0 .. BufferLimit : a # b /\ f[a] = f[b]
    <2>1. Cardinality(W) < Cardinality(0 .. BufferLimit)
      BY <1>2, <1>11
    <2> QED BY <1>7, <1>11, <2>1, FS_PigeonHole
  <1> QED BY <1>10, <1>12

\* What a stream replays of the turn has no gap, with or without a last id.
LEMMA ReplayCovers ==
    ASSUME Typed, TurnInv, Alone, NEW after \in Nat
    PROVE  Covers(Buffered(after), after, Mine)
  <1> DEFINE q == Recent
             f == Buffered(after)
  <1>1. Ordered(q) /\ \A k \in DOMAIN q : q[k] \in rows
    BY TableKept, RecentRows
  <1>2. \A r \in Mine : Has(q, r)
    BY MineIsRecent
  <1> HIDE DEF q
  <1>3. q \in Seq(Rows) /\ Len(q) \in Nat /\ DOMAIN q = 1 .. Len(q)
    BY <1>1 DEF Ordered
  <1>4. rows \subseteq Rows /\ \A r \in rows : r.id \in Nat
    BY RowIds DEF Typed
  <1>5. CASE after # 0
    <2>1. f = Above(q, after)
      BY <1>5 DEF Buffered, ForReplay, q
    <2>2. \A j \in DOMAIN q : q[j].id > after => Has(Above(q, after), q[j])
      BY <1>1, AboveKeeps DEF Has
    <2> HIDE DEF f
    <2>3. ASSUME NEW r \in Mine PROVE r.id <= after \/ Has(f, r)
      <3>1. r.id \in Nat
        BY <1>4 DEF Mine
      <3> QED BY <1>2, <2>1, <2>2, <3>1 DEF Has
    <2>4. Covers(f, after, Mine)
      BY <2>3 DEF Covers
    <2> QED BY <2>4 DEF f
  <1>6. CASE after = 0
    <2> DEFINE D == {i \in DOMAIN q : q[i].what = Done}
               m == Max({0} \cup D)
    <2>1. f = SubSeq(q, m + 1, Len(q))
      BY <1>6 DEF Buffered, ForReplay, q
    <2>2. m \in {0} \cup D
      <3>1. {0} \cup D \subseteq 0 .. Len(q) /\ {0} \cup D # {}
        BY <1>3
      <3> HIDE DEF D
      <3> QED BY <1>3, <3>1, GreatestNatural
    <2> HIDE DEF m
    <2>3. m \in Nat /\ Len(q) \in Nat /\ Len(q) <= Len(q)
      BY <1>3, <2>2
    <2>4. /\ \A k \in DOMAIN f : m + k \in DOMAIN q /\ f[k] = q[m + k] /\ k \in Nat /\ k > 0
          /\ \A j \in DOMAIN q : m < j => Has(f, q[j])
      <3> DEFINE p == SubSeq(q, m + 1, Len(q))
      <3>1. /\ Ordered(p)
            /\ \A k \in DOMAIN p : m + k \in DOMAIN q /\ m + k <= Len(q) /\ p[k] = q[m + k]
            /\ \A j \in DOMAIN q : m < j /\ j <= Len(q) => j - m \in DOMAIN p /\ p[j - m] = q[j]
        BY <1>1, <2>3, PartInOrder, ZenonT(60)
      <3>2. f = p
        BY <2>1
      <3> HIDE DEF f, p
      <3>3. \A k \in DOMAIN p : k \in Nat /\ k > 0
        BY <3>1 DEF Ordered
      <3>4. \A j \in DOMAIN q : m < j => Has(p, q[j])
        BY <1>3, <3>1 DEF Has
      <3> QED BY <3>1, <3>2, <3>3, <3>4
    <2> HIDE DEF f
    <2>5. ASSUME NEW r \in Mine, NEW k \in DOMAIN f PROVE Has(f, r)
      <3>1. PICK j \in DOMAIN q : q[j] = r
        BY <1>2 DEF Has
      <3>2. CASE m < j
        BY <2>4, <3>1, <3>2
      <3>3. CASE j <= m
        <4>1. m \in DOMAIN q /\ q[m].what = Done
          BY <1>3, <2>2, <3>1, <3>3
        <4>2. r.id <= q[m].id
          <5>1. j = m \/ q[j].id < q[m].id
            BY <1>1, <1>3, <3>1, <3>3, <4>1 DEF Ordered
          <5> QED BY <1>1, <1>4, <3>1, <4>1, <5>1
        <4>3. q[m] \in rows /\ q[m + k] \in rows /\ q[m].id < q[m + k].id
          <5>1. m + k \in DOMAIN q /\ m < m + k
            BY <2>3, <2>4
          <5> QED BY <1>1, <4>1, <5>1 DEF Ordered
        <4>4. r \in rows /\ r.id \in Nat /\ q[m].id \in Nat /\ q[m + k].id \in Nat
          BY <1>4, <4>3 DEF Mine
        <4>5. q[m] \in Mine
          <5>1. q[m] \notin Mine => q[m].id < r.id
            BY <4>3 DEF Alone
          <5> QED BY <4>2, <4>4, <5>1
        <4>6. q[m + k] \in Mine
          <5>1. q[m + k] \notin Mine => q[m + k].id < q[m].id
            BY <4>3, <4>5 DEF Alone
          <5> QED BY <4>3, <4>4, <5>1
        <4>7. q[m + k].id <= q[m].id
          BY <4>1, <4>5, <4>6 DEF Mine, TurnInv, DoneIsLast
        <4> QED BY <4>3, <4>4, <4>7
      <3> QED BY <1>3, <2>3, <3>1, <3>2, <3>3
    <2>6. Covers(f, after, Mine)
      BY <2>5 DEF Covers
    <2> QED BY <2>6 DEF f
  <1> QED BY <1>5, <1>6

LEMMA PollsAreLiveKept == ASSUME Typed, PollsAreLive, Next PROVE PollsAreLive'
  <1> SUFFICES ASSUME NEW s \in Streams, stream'[s].phase # "live" PROVE stream'[s].polls = {}
    BY DEF PollsAreLive
  <1> DEFINE st == stream[s]
             p == stream'[s]
             G == p.polls = {}
  <1>1. /\ st \in StreamRecords /\ Ordered(st.replay) /\ \A q \in st.polls : Ordered(q)
        /\ (st.phase # "live" => st.polls = {}) /\ p.phase # "live"
    BY DEF Typed, PollsAreLive
  <1>3. client.after \in {0} \cup Ids
    BY DEF Typed, ClientRecords
  <1> HIDE DEF st, p
  <1>2. ASSUME NEW i \in Instances, NEW a \in {0} \cup Ids, p = Opened(st, i, a) PROVE p.polls = st.polls
    BY ONLY <1>1, <1>2 DEF Opened, StreamRecords
  <1>4. p = st => G
    BY <1>1
  <1>5. ASSUME NEW i \in Instances, p = Opened(st, i, client.after), st.phase = "none" PROVE G
    BY <1>1, <1>2, <1>3, <1>5
  <1>6. ASSUME p = Started(st), st.phase = "checking" PROVE G
    <2>1. p.polls = st.polls
      BY ONLY <1>1, <1>6 DEF Started, StreamRecords
    <2> QED BY <1>1, <1>6, <2>1
  <1>7. ASSUME p = Closed(st) \/ p = Left(st) PROVE G
    BY <1>1, <1>7, StreamValues
  <1>8. ASSUME p = SetLive(Replayed(st), SubscriptionOf(s)) PROVE FALSE
    <2> DEFINE v == Replayed(st)
               c == SubscriptionOf(s)
    <2>1. v \in StreamRecords /\ p = SetLive(v, c)
      BY <1>1, <1>8, ReplayedSent
    <2> HIDE DEF v, c
    <2> QED BY ONLY <1>1, <2>1 DEF SetLive, StreamRecords
  <1>9. ASSUME st.phase = "live", p = Polled(st) PROVE FALSE
    <2>1. p.phase = st.phase
      BY ONLY <1>1, <1>9 DEF Polled, StreamRecords
    <2> QED BY <1>1, <1>9, <2>1
  <1>10. ASSUME st.phase = "live", NEW found \in st.polls, p = Applied(st, found) PROVE FALSE
    <2> DEFINE u == PushAll(st, found)
    <2>1. u \in StreamRecords /\ u.phase = st.phase
      BY <1>1, PushedAll DEF SameButSent
    <2>2. p = [u EXCEPT !.polls = @ \ {found}]
      BY <1>10 DEF Applied
    <2> HIDE DEF u
    <2>3. p.phase = u.phase
      BY ONLY <2>1, <2>2 DEF StreamRecords
    <2> QED BY <1>1, <1>10, <2>1, <2>3
  <1>11. ASSUME p = [st EXCEPT !.closed = TRUE] \/ p = Read(st) PROVE G
    <2>1. p.phase = st.phase /\ p.polls = st.polls
      BY ONLY <1>1, <1>11 DEF StreamRecords, Read
    <2> QED BY <1>1, <2>1
  <1>12. ASSUME NEW r \in rows, p = PushDelivery(st, r) PROVE G
    <2>1. SameButSent(p, st)
      BY <1>1, <1>12, PushedOne DEF Typed
    <2> QED BY <1>1, <2>1 DEF SameButSent
  <1>13. \/ p = st
         \/ \E i \in Instances : p = Opened(st, i, client.after) /\ st.phase = "none"
         \/ p = Started(st) /\ st.phase = "checking"
         \/ p = Closed(st) \/ p = Left(st)
         \/ p = SetLive(Replayed(st), SubscriptionOf(s))
         \/ st.phase = "live" /\ p = Polled(st)
         \/ \E found \in st.polls : st.phase = "live" /\ p = Applied(st, found)
         \/ p = [st EXCEPT !.closed = TRUE] \/ p = Read(st)
         \/ \E r \in rows : p = PushDelivery(st, r)
    BY StreamFate DEF st, p, Start, PollRead, PollApply, Polling
  <1> HIDE DEF G
  <1>14. G
    BY <1>4, <1>5, <1>6, <1>7, <1>8, <1>9, <1>10, <1>11, <1>12, <1>13
  <1> QED BY <1>14 DEF G, p

\* A step to a state where the turn is alone starts in one, unless the turn has
\* stored nothing; if it stores an event, that is newer than all that was read.
LEMMA AloneBefore ==
    ASSUME Typed, TurnInv, Next, Alone'
    PROVE  \/ Mine' = {}
           \/ Alone /\ client'.turn = client.turn /\ Mine' = Mine
           \/ /\ Alone /\ UNCHANGED <<stream, client>>
              /\ \E r \in Rows : Mine' = Mine \cup {r} /\ \A b \in SeenIn(rows) : b < r.id
  <1>1. /\ client \in ClientRecords /\ stream \in [Streams -> StreamRecords] /\ turn \in [Turns -> TurnRecords]
        /\ rows \subseteq Rows
    BY DEF Typed
  <1>2. \A s \in Streams : stream[s].phase # "none" =>
           stream'[s].phase # "none" /\ stream'[s].inst = stream[s].inst
    BY SubscriptionFate
  <1>3. /\ client'.phase = "posted"
        /\ \A s \in Streams : stream'[s].phase # "none" => stream'[s].inst # turn'[client'.turn].inst
        /\ \A r \in rows' \ Mine', m \in Mine' : r.id < m.id
    BY DEF Alone
  <1>4. ASSUME client.phase = "posted", client'.turn = client.turn, UNCHANGED rows,
               turn'[client.turn].inst = turn[client.turn].inst
        PROVE  Alone /\ Mine' = Mine
    <2>1. Mine' = Mine
      BY <1>4 DEF Mine
    <2> QED BY <1>2, <1>3, <1>4, <2>1 DEF Alone
  <1>5. CASE /\ UNCHANGED <<rows, lastId, turn>>
             /\ client'.turn = client.turn /\ client'.phase \in {client.phase, "idle"}
    BY <1>3, <1>4, <1>5
  <1>6. CASE SendTurn
    BY <1>1, <1>3, <1>6 DEF SendTurn, Idle, ClientRecords
  <1>7. ASSUME NEW i \in Instances, Post(i) PROVE Mine' = {}
    <2>1. client'.turn = client.turn /\ rows' = rows /\ client.phase = "opening"
      BY <1>1, <1>7 DEF Post, ClientRecords
    <2>2. turn[client.turn].phase = "none"
      BY <2>1 DEF TurnInv, PostedOnce
    <2> QED BY <2>1, <2>2 DEF Mine, TurnInv, TurnsProceed
  <1>8. ASSUME NEW t \in Turns, Insert(t) \/ InsertFails(t) \/ Fanout(t)
        PROVE  Alone /\ client'.turn = client.turn /\ Mine' = Mine
    <2>1. client' = client /\ rows' = rows
      BY <1>8 DEF Insert, InsertFails, Fanout
    <2>2. turn'[client.turn].inst = turn[client.turn].inst
      <3>1. client.turn \in Turns
        BY <1>1, <1>3, <2>1 DEF TurnInv, PostedOnce, ClientRecords
      <3>2. Published(t).inst = turn[t].inst
        BY <1>1 DEF Published, TurnRecords
      <3>3. CASE Insert(t)
        BY <1>1, <3>1, <3>3 DEF Insert, TurnRecords
      <3>4. CASE InsertFails(t) \/ Fanout(t)
        <4>1. turn' = [turn EXCEPT ![t] = Published(t)]
          BY <3>4 DEF InsertFails, Fanout
        <4> QED BY <1>1, <3>1, <3>2, <4>1
      <3> QED BY <1>8, <3>3, <3>4
    <2> QED BY <1>3, <1>4, <2>1, <2>2
  <1>9. ASSUME NEW t \in Turns, Commit(t)
        PROVE  \/ Alone /\ client'.turn = client.turn /\ Mine' = Mine
               \/ /\ Alone /\ UNCHANGED <<stream, client>>
                  /\ \E r \in Rows : Mine' = Mine \cup {r} /\ \A b \in SeenIn(rows) : b < r.id
    <2> DEFINE r == [id |-> turn[t].held, turn |-> t, what |-> What(t)]
    <2>1. /\ turn[t].held # 0 /\ ~Stored(t) /\ rows' = rows \cup {r}
          /\ UNCHANGED <<turn, stream, client>>
      BY <1>9 DEF Commit
    <2>2. r.id = turn[t].held /\ r.turn = t /\ r \in Rows /\ r \notin rows
      <3>1. turn[t].held \in Ids
        BY <1>1, <2>1 DEF TurnRecords
      <3>2. What(t) \in 0 .. MaxThinking
        BY <1>1, AgentEventsConstants, <2>1 DEF What, Chained, Done, TurnRecords, TurnInv, TurnsProceed
      <3> QED BY <2>1, <3>1, <3>2 DEF Rows, Stored
    <2> HIDE DEF r
    <2>3. CASE t # client.turn
      <3>1. Mine' = Mine
        BY <2>1, <2>2, <2>3 DEF Mine
      <3>2. Alone
        BY <1>3, <2>1, <3>1 DEF Alone
      <3> QED BY <2>1, <3>1, <3>2
    <2>4. CASE t = client.turn
      <3>1. Mine' = Mine \cup {r} /\ rows' \ Mine' = rows \ Mine
        BY <2>1, <2>2, <2>4 DEF Mine
      <3>2. Alone
        BY <1>3, <2>1, <3>1 DEF Alone
      <3>3. ASSUME NEW x \in rows PROVE x.id < r.id
        <4>1. CASE x \in Mine
          <5>1. x.id <= turn[t].held /\ x.id # turn[t].held
            BY <2>1, <2>4, <4>1 DEF Mine, Stored, TurnInv, TurnsProceed
          <5> QED BY <1>1, <2>2, <5>1, RowIds
        <4>2. CASE x \notin Mine
          BY <1>3, <3>1, <4>2
        <4> QED BY <4>1, <4>2
      <3>4. 0 < r.id
        BY <2>2, RowIds
      <3>5. \A b \in SeenIn(rows) : b < r.id
        BY <3>3, <3>4 DEF SeenIn
      <3> QED BY <2>1, <2>2, <3>1, <3>2, <3>5
    <2> QED BY <2>3, <2>4
  <1> QED BY <1>5, <1>6, <1>7, <1>8, <1>9, TurnSide DEF TurnStep

\* Whatever the server does with the stream that the browser reads.
LEMMA NoGapKept ==
    ASSUME Typed, TurnInv, Known, Listening, SetsApart, InSync, PollsAreLive, Next, Alone,
           NEW s \in Streams, s = client.stream, client'.stream = s, ~Receive,
           NoGap(stream[s], client.after, Mine)
    PROVE  NoGap(stream'[s], client.after, Mine)
  <1> DEFINE st == stream[s]
             p == stream'[s]
             a == client.after
             M == Mine
             G == NoGap(p, a, M)
  <1>1. /\ st \in StreamRecords /\ Ordered(st.replay) /\ \A q \in st.polls : Ordered(q)
        /\ InStep(st, a) /\ ~st.gone /\ NoGap(st, a, M)
        /\ (st.phase # "live" => st.polls = {})
    BY DEF Typed, InSync, InStep, Streams, PollsAreLive
  <1>2. st.last \in Nat /\ st.after \in Nat /\ st.wire \in Seq(Chunks) /\ a \in Nat
    BY <1>1 DEF Typed, ClientRecords, StreamRecords, Ids, Chunks
  <1>3. M \subseteq Rows /\ \A r \in M : r.id \in Nat /\ r \in rows
    BY RowIds DEF Mine, Typed
  <1>4. st.phase # "live" => st.set = 0
    BY DEF Listening
  <1>5. Table
    BY TableKept
  <1>6. Covers(Buffered(a), a, M)
    BY <1>2, ReplayCovers
  <1> HIDE DEF st, p, a, M
  <1>7. ASSUME p = Started(st), Start(s) PROVE G
    <2>1. st.phase = "checking" /\ ~st.closed
      BY <1>7 DEF Start, st
    <2>2. p.phase = "read" /\ p.replay = Buffered(st.after)
      BY ONLY <1>1, <1>7 DEF Started, StreamRecords
    <2>3. st.after = a
      BY <1>1, <2>1 DEF InStep
    <2> QED BY <1>6, <2>2, <2>3 DEF NoGap
  <1>8. ASSUME p = Closed(st) PROVE G
    <2>1. p.closed
      BY ONLY <1>1, <1>8 DEF Closed, StreamRecords
    <2> QED BY <2>1 DEF NoGap
  <1>9. ASSUME p = SetLive(Replayed(st), SubscriptionOf(s)), GoLive(s) PROVE G
    <2> DEFINE v == Replayed(st)
               u == PushAll(st, st.replay)
               f == Above(st.replay, st.last)
               c == SubscriptionOf(s)
               x == st.wire \o f
    <2>1. st.phase = "read" /\ ~st.closed
      BY <1>9 DEF GoLive, st
    <2>2. st.wire = <<>> /\ st.last = a /\ st.polls = {} /\ Covers(st.replay, a, M)
      BY <1>1, <2>1 DEF InStep, NoGap
    <2>3. /\ v \in StreamRecords /\ SameButSent(v, st) /\ v.last = u.last
          /\ v.wire = Append(x, Connected)
      BY <1>1, <2>1, ReplayedSent
    <2>4. u.last = st.last \/ \E k \in DOMAIN f : u.last = f[k].id
      BY <1>1, PushedAll
    <2>5. /\ Ordered(f)
          /\ \A k \in DOMAIN f : \E j \in DOMAIN st.replay : f[k] = st.replay[j]
          /\ \A j \in DOMAIN st.replay : st.replay[j].id > st.last => Has(f, st.replay[j])
      BY <1>1, <1>2, AboveKeeps DEF Has
    <2>6. p = SetLive(v, c)
      BY <1>9
    <2>7. x \in Seq(Chunks) /\ Connected \in Chunks
      <3>1. f \in Seq(Chunks)
        BY <2>5 DEF Ordered, Chunks
      <3> QED BY <1>2, <3>1, ConcatProperties DEF Chunks
    <2>8. \A r : Has(f, r) => Has(x, r)
      BY <1>2, <2>5, HasJoined
    <2> HIDE DEF v, u, f, c, x
    <2>9. p.phase = "live" /\ p.wire = v.wire /\ p.last = v.last /\ p.polls = v.polls
      BY ONLY <2>3, <2>6 DEF SetLive, StreamRecords
    <2>10. p.polls = {}
      BY <2>2, <2>3, <2>9 DEF SameButSent
    <2>11. ASSUME NEW r \in M, r.id <= p.last PROVE r.id <= a \/ Has(p.wire, r)
      <3>1. CASE u.last = st.last
        BY <2>2, <2>3, <2>9, <2>11, <3>1
      <3>2. CASE \E k \in DOMAIN f : u.last = f[k].id
        <4>1. PICK j \in DOMAIN st.replay : u.last = st.replay[j].id
          BY <2>5, <3>2
        <4>2. r.id <= a \/ Has(st.replay, r)
          BY <2>2, <2>3, <2>9, <2>11, <4>1 DEF Covers
        <4>3. r.id > a /\ Has(st.replay, r) => Has(f, r)
          BY <2>2, <2>5 DEF Has
        <4>4. Has(f, r) => Has(v.wire, r)
          BY <2>3, <2>7, <2>8, HasAppended
        <4> QED BY <1>2, <1>3, <2>9, <4>2, <4>3, <4>4
      <3> QED BY <2>4, <3>1, <3>2
    <2> QED BY <2>9, <2>10, <2>11 DEF NoGap
  <1>10. ASSUME p = Polled(st), PollRead(s) PROVE G
    <2> DEFINE f == RowsAfter(st.last)
    <2>1. st.phase = "live" /\ ~st.closed
      BY <1>10 DEF PollRead, Polling, st
    <2>2. \A r \in rows, k \in DOMAIN f : st.last < r.id /\ r.id <= f[k].id => Has(f, r)
      BY <1>2, <1>5, PolledRows DEF Has
    <2>3. p = [st EXCEPT !.polls = @ \cup {f}]
      BY <1>10 DEF Polled
    <2> HIDE DEF f
    <2>4. /\ p.polls = st.polls \cup {f} /\ p.last = st.last /\ p.wire = st.wire /\ p.phase = st.phase
          /\ p.closed = st.closed
      BY ONLY <1>1, <2>3 DEF StreamRecords
    <2>5. Covers(f, st.last, M)
      BY <1>2, <1>3, <2>2 DEF Covers
    <2> QED BY <1>1, <2>1, <2>4, <2>5 DEF NoGap
  <1>11. ASSUME NEW found \in st.polls, p = Applied(st, found), PollApply(s) PROVE G
    <2> DEFINE u == PushAll(st, found)
               f == Above(found, st.last)
               x == st.wire \o f
    <2>1. st.phase = "live" /\ ~st.closed /\ Ordered(found)
      BY <1>1, <1>11 DEF PollApply, Polling, st
    <2>2. /\ \A r \in M : r.id <= st.last => r.id <= a \/ Has(st.wire, r)
          /\ \A q \in st.polls : Covers(q, st.last, M)
      BY <1>1, <2>1 DEF NoGap
    <2>3. /\ u \in StreamRecords /\ SameButSent(u, st) /\ u.wire = x /\ u.last >= st.last
          /\ u.last = st.last \/ \E k \in DOMAIN f : u.last = f[k].id
      BY <1>1, <2>1, PushedAll
    <2>4. /\ Ordered(f)
          /\ \A k \in DOMAIN f : \E j \in DOMAIN found : f[k] = found[j]
          /\ \A j \in DOMAIN found : found[j].id > st.last => Has(f, found[j])
      BY <1>2, <2>1, AboveKeeps DEF Has
    <2>5. p = [u EXCEPT !.polls = @ \ {found}]
      BY <1>11 DEF Applied
    <2>6. \A r : Has(st.wire, r) \/ Has(f, r) => Has(x, r)
      BY <1>2, <2>4, HasJoined
    <2> HIDE DEF u, f, x
    <2>7. p.phase = u.phase /\ p.wire = u.wire /\ p.last = u.last /\ p.closed = u.closed /\ p.polls \subseteq u.polls
      BY ONLY <2>3, <2>5 DEF StreamRecords
    <2>8. u.last \in Nat
      BY <2>3 DEF StreamRecords, Ids
    <2>9. ASSUME NEW r \in M, r.id <= p.last PROVE r.id <= a \/ Has(p.wire, r)
      <3>1. CASE r.id <= st.last
        BY <2>2, <2>3, <2>6, <2>7, <3>1
      <3>2. CASE r.id > st.last
        <4>1. PICK j \in DOMAIN found : u.last = found[j].id
          BY <1>2, <1>3, <2>3, <2>4, <2>7, <2>8, <2>9, <3>2
        <4>2. r.id <= st.last \/ Has(found, r)
          BY <2>2, <2>7, <2>9, <4>1 DEF Covers
        <4>3. Has(found, r)
          BY <1>2, <1>3, <3>2, <4>2
        <4>4. Has(f, r)
          BY <2>4, <3>2, <4>3 DEF Has
        <4> QED BY <2>3, <2>6, <2>7, <4>4
      <3> QED BY <1>2, <1>3, <3>1, <3>2
    <2>10. ASSUME NEW q \in p.polls PROVE Covers(q, p.last, M)
      <3>1. q \in st.polls /\ p.last \in Nat /\ st.last <= p.last
        BY <1>2, <2>3, <2>7, <2>8, <2>10 DEF SameButSent
      <3> QED BY <1>2, <1>3, <2>2, <3>1, CoversAbove
    <2>11. p.phase = "live"
      BY <2>1, <2>3, <2>7 DEF SameButSent
    <2> QED BY <2>9, <2>10, <2>11 DEF NoGap
  <1>12. ASSUME EnqueueThrows(s) PROVE FALSE
    BY <1>1, <1>12 DEF EnqueueThrows, st
  <1>13. ASSUME NEW t \in Turns, NEW r \in rows, Fanout(t), turn[t].held # 0, r.id = turn[t].held,
                s \in Listeners(turn[t].inst), p = PushDelivery(st, r)
         PROVE  G
    <2>1. r \in Rows /\ r.id \in Nat
      BY <1>13, RowIds DEF Typed
    <2>2. r.turn = t
      BY <1>13 DEF TurnInv, IdsApart
    <2>3. st.phase = "live" /\ st.inst = turn[t].inst
      <3>1. st.set # 0 /\ st.set = channel[turn[t].inst] /\ turn[t].inst \in Instances
        BY <1>13 DEF Listeners, st, Typed, TurnRecords
      <3>2. stream[st.set].inst = st.inst
        BY <3>1 DEF SetsApart, st
      <3>3. stream[channel[turn[t].inst]].inst = turn[t].inst
        BY <3>1 DEF SetsApart
      <3> QED BY <1>4, <3>1, <3>2, <3>3
    <2>4. t # client.turn
      BY <2>3 DEF Alone, st
    <2>5. r \in rows \ Mine
      BY <2>2, <2>4 DEF Mine
    <2>6. \A m \in M : r.id < m.id
      BY <2>5 DEF Alone, M
    <2>7. SameButSent(p, st)
      BY <1>1, <1>13, <2>1, PushedOne
    <2>8. CASE r.id <= st.last
      <3>1. p = st
        BY <1>1, <1>13, <2>1, <2>8, PushedOne
      <3> QED BY <1>1, <3>1
    <2>9. CASE r.id > st.last /\ ~st.closed
      <3>1. p.last = r.id
        BY <1>1, <1>13, <2>1, <2>9, PushedOne
      <3>2. \A m \in M : ~(m.id <= p.last)
        BY <1>3, <2>1, <2>6, <3>1
      <3>3. ASSUME NEW q \in p.polls PROVE Covers(q, p.last, M)
        <4>1. q \in st.polls
          BY <2>7, <3>3 DEF SameButSent
        <4>2. Covers(q, st.last, M)
          BY <1>1, <2>3, <2>9, <4>1 DEF NoGap
        <4>3. st.last <= p.last /\ p.last \in Nat
          BY <1>2, <2>1, <2>9, <3>1
        <4> QED BY <1>2, <1>3, <4>2, <4>3, CoversAbove
      <3>4. p.phase = "live"
        BY <2>3, <2>7 DEF SameButSent
      <3> QED BY <3>2, <3>3, <3>4 DEF NoGap
    <2>10. CASE st.closed
      BY <2>7, <2>10 DEF NoGap, SameButSent
    <2> QED BY <1>2, <2>1, <2>8, <2>9, <2>10
  <1>14. ~(StreamOver \/ ConnectionFails \/ TurnEnds)
    <2>1. client \in ClientRecords /\ s # 0
      BY DEF Typed, Streams
    <2>2. ASSUME client' = Idle \/ client' = [client EXCEPT !.stream = 0] PROVE client'.stream = 0
      BY ONLY <2>1, <2>2 DEF Idle, ClientRecords
    <2> QED BY <2>1, <2>2 DEF StreamOver, ConnectionFails, TurnEnds
  <1>15. \/ p = st
         \/ Start(s) /\ p = Started(st)
         \/ p = Closed(st)
         \/ GoLive(s) /\ p = SetLive(Replayed(st), SubscriptionOf(s))
         \/ PollRead(s) /\ p = Polled(st)
         \/ \E found \in st.polls : PollApply(s) /\ p = Applied(st, found)
         \/ EnqueueThrows(s)
         \/ \E t \in Turns, r \in rows :
               /\ Fanout(t) /\ turn[t].held # 0 /\ r.id = turn[t].held
               /\ s \in Listeners(turn[t].inst) /\ p = PushDelivery(st, r)
    <2>1. \A i \in Instances : ~Connect(i)
      <3>1. client.stream # 0
        BY DEF Streams
      <3> QED BY <3>1 DEF Connect
    <2> QED BY <1>14, <2>1, StreamFate DEF st, p
  <1>16. p = st => G
    BY <1>1
  <1> HIDE DEF G
  <1>17. G
    BY <1>7, <1>8, <1>9, <1>10, <1>11, <1>12, <1>13, <1>15, <1>16
  <1> QED BY <1>17 DEF G, p, a, M

LEMMA NoneSkippedKept ==
    ASSUME Typed, TurnInv, Known, Listening, SetsApart, InSync, PollsAreLive, NoneSkipped, Next
    PROVE  NoneSkipped'
  <1> DEFINE After == SeenAll' /\ (client'.stream # 0 => NoGap(stream'[client'.stream], client'.after, Mine'))
  <1> SUFFICES ASSUME Alone' PROVE After
    BY DEF NoneSkipped
  <1>1. /\ client \in ClientRecords /\ stream \in [Streams -> StreamRecords] /\ rows \subseteq Rows
        /\ client.after \in Nat /\ client.stream \in {0} \cup Streams /\ client.got \in Seq(Ids)
    BY DEF Typed, ClientRecords, Ids
  <1>2. ASSUME Mine' = {} PROVE After
    BY <1>2 DEF SeenAll, NoGap, Covers
  <1>3. ASSUME Alone, UNCHANGED <<stream, client>>,
               NEW r \in Rows, Mine' = Mine \cup {r}, \A b \in SeenIn(rows) : b < r.id
        PROVE  After
    <2>1. r.id \in Nat /\ \A b \in SeenIn(rows) : b \in Nat /\ ~(r.id <= b)
      BY <1>1, <1>3, RowIds DEF SeenIn
    <2>2. client.after \in SeenIn(rows) /\ SeenAll
      BY <1>3 DEF Known, NoneSkipped
    <2>3. SeenAll'
      BY <1>3, <2>1, <2>2 DEF SeenAll
    <2>4. ASSUME client.stream # 0
          PROVE  NoGap(stream[client.stream], client.after, Mine \cup {r})
      <3> DEFINE st == stream[client.stream]
                 M == Mine
      <3>1. NoGap(st, client.after, M) /\ KnownIn(st, rows)
        BY <1>1, <1>3, <2>4 DEF Known, NoneSkipped
      <3>2. \A x \in rows : x.id \in SeenIn(rows)
        BY DEF SeenIn
      <3> HIDE DEF st, M
      <3>3. ASSUME NEW q, NEW low, \A k \in DOMAIN q : q[k] \in rows, Covers(q, low, M)
            PROVE  Covers(q, low, M \cup {r})
        BY <2>1, <3>2, <3>3 DEF Covers
      <3>4. st.last \in SeenIn(rows)
        BY <3>1 DEF KnownIn
      <3>5. ~st.closed /\ st.phase = "read" => Covers(st.replay, client.after, M \cup {r})
        BY <3>1, <3>3 DEF NoGap, KnownIn
      <3>6. ~st.closed /\ st.phase = "live" => \A q \in st.polls : Covers(q, st.last, M \cup {r})
        BY <3>1, <3>3 DEF NoGap, KnownIn
      <3>7. ~st.closed /\ st.phase = "live" =>
               \A x \in M \cup {r} : x.id <= st.last => x.id <= client.after \/ Has(st.wire, x)
        BY <2>1, <3>1, <3>4 DEF NoGap
      <3>8. NoGap(st, client.after, M \cup {r})
        BY <3>5, <3>6, <3>7 DEF NoGap
      <3> QED BY <3>8 DEF st, M
    <2> QED BY <1>3, <2>3, <2>4
  <1>4. ASSUME Alone, client'.turn = client.turn, Mine' = Mine PROVE After
    <2>1. SeenAll /\ (client.stream # 0 => NoGap(stream[client.stream], client.after, Mine))
      BY <1>4 DEF NoneSkipped
    <2>2. client.phase = "posted" /\ client'.phase = "posted"
      BY <1>4 DEF Alone
    <2>3. ASSUME client'.after = client.after, client'.got = client.got PROVE SeenAll'
      BY <1>4, <2>1, <2>3 DEF SeenAll
    <2>4. ASSUME UNCHANGED client, ~Receive PROVE After
      <3>1. ASSUME client.stream # 0 PROVE NoGap(stream'[client.stream], client.after, Mine)
        <4>1. client.stream \in Streams /\ client'.stream = client.stream
          BY <1>1, <2>4, <3>1
        <4> QED BY <1>4, <2>1, <2>4, <3>1, <4>1, NoGapKept
      <3> QED BY <1>4, <2>3, <2>4, <3>1
    <2>5. ASSUME NEW i \in Instances, NEW s \in Streams, client'.stream = s,
                 client'.after = client.after, client'.got = client.got,
                 stream'[s] = Opened(stream[s], i, client.after)
          PROVE  After
      <3> DEFINE st == stream[s]
                 p == stream'[s]
                 c == client.after
      <3>1. st \in StreamRecords /\ p = Opened(st, i, c)
        BY <1>1, <2>5
      <3> HIDE DEF st, p, c
      <3>2. p.phase = "checking"
        BY ONLY <3>1 DEF Opened, StreamRecords
      <3>3. NoGap(p, c, Mine)
        BY <3>2 DEF NoGap
      <3> QED BY <1>4, <2>3, <2>5, <3>3 DEF p, c
    <2>6. ASSUME client'.stream = 0, client'.after = client.after, client'.got = client.got PROVE After
      BY <2>3, <2>6
    <2>7. ASSUME Receive, client.stream \in Streams, client'.stream = client.stream,
                 stream[client.stream].wire # <<>>,
                 LET chunk == Head(stream[client.stream].wire)
                 IN  IF chunk = Connected
                     THEN client'.after = client.after /\ client'.got = client.got
                     ELSE client'.after = chunk.id /\ client'.got = Append(client.got, chunk.id)
          PROVE  After
      <3> DEFINE st == stream[client.stream]
                 p == stream'[client.stream]
                 a == client.after
                 M == Mine
                 chunk == Head(st.wire)
      <3>1. /\ st \in StreamRecords /\ st.wire # <<>> /\ NoGap(st, a, M) /\ client.stream # 0
        BY <1>1, <2>1, <2>7 DEF Streams
      <3>2. /\ st.phase = "live" /\ ~st.closed /\ p = Read(st)
            /\ chunk # Connected => chunk \in Rows /\ a < chunk.id /\ chunk.id <= st.last
        BY <2>7, ReadInStep
      <3>3. IF chunk = Connected THEN client'.after = a /\ client'.got = client.got
            ELSE client'.after = chunk.id /\ client'.got = Append(client.got, chunk.id)
        BY <2>7
      <3>4. Ascending(st.wire, a, st.last)
        BY <3>1, <3>2 DEF InSync, InStep
      <3>5. st.wire \in Seq(Chunks) /\ st.last \in Nat /\ a \in Nat
        BY <1>1, <3>1 DEF StreamRecords, Chunks, Ids
      <3>6. M \subseteq Rows /\ (\A r \in M : r.id \in Nat /\ r # Connected)
            /\ \A r \in M : r.id <= a => \E k \in DOMAIN client.got : client.got[k] = r.id
        BY <1>1, <2>1, RowIds DEF Mine, SeenAll
      <3> HIDE DEF st, p, a, M, chunk
      <3>7. p.phase = st.phase /\ p.polls = st.polls /\ p.last = st.last /\ p.wire = Tail(st.wire)
        BY ONLY <3>1, <3>2 DEF Read, StreamRecords
      <3>8. /\ \A r \in M : r.id <= st.last => r.id <= a \/ Has(st.wire, r)
            /\ \A q \in st.polls : Covers(q, st.last, M)
        BY <3>1, <3>2 DEF NoGap
      <3>9. \A r : Has(st.wire, r) => r = chunk \/ Has(Tail(st.wire), r)
        BY <3>1, <3>5, HasLeft DEF chunk
      <3>10. CASE chunk = Connected
        <4>1. \A r \in M : r.id <= p.last => r.id <= a \/ Has(p.wire, r)
          BY <3>6, <3>7, <3>8, <3>9, <3>10
        <4>2. NoGap(p, a, M)
          BY <3>2, <3>7, <3>8, <4>1 DEF NoGap
        <4>3. SeenAll'
          BY <2>3, <3>3, <3>10 DEF a
        <4> QED BY <1>4, <2>7, <3>3, <3>10, <4>2, <4>3 DEF p, M
      <3>11. CASE chunk # Connected
        <4>1. chunk.id \in Nat /\ a < chunk.id /\ chunk.id <= st.last /\ chunk.id \in Ids
          BY <3>2, <3>11, RowIds
        <4>2. \A r \in M : r.id <= p.last => r.id <= chunk.id \/ Has(p.wire, r)
          BY <3>5, <3>6, <3>7, <3>8, <3>9, <4>1
        <4>3. NoGap(p, chunk.id, M)
          BY <3>2, <3>7, <3>8, <4>2 DEF NoGap
        <4>4. ASSUME NEW r \in M, r.id <= chunk.id, r.id > a PROVE r.id = chunk.id
          <5>1. Has(st.wire, r)
            BY <3>5, <3>6, <3>8, <4>1, <4>4
          <5>2. CASE r = chunk
            BY <5>2
          <5>3. CASE Has(Tail(st.wire), r)
            <6>1. Ascending(Tail(st.wire), chunk.id, st.last)
              BY <3>1, <3>4, <3>5, <3>11, AscendingTail DEF chunk
            <6>2. chunk.id < r.id
              BY <3>6, <5>3, <6>1 DEF Has, Ascending
            <6> QED BY <3>6, <4>1, <4>4, <6>2
          <5> QED BY <3>9, <5>1, <5>2, <5>3
        <4> DEFINE g == Append(client.got, chunk.id)
                   n == Len(client.got)
        <4>5. /\ DOMAIN g = 1 .. n + 1 /\ DOMAIN client.got = 1 .. n /\ n \in Nat
              /\ \A k \in 1 .. n : g[k] = client.got[k]
              /\ g[n + 1] = chunk.id
          BY <1>1, <4>1, AppendProperties
        <4> HIDE DEF g, n
        <4>6. ASSUME NEW r \in M, r.id <= chunk.id PROVE \E k \in DOMAIN g : g[k] = r.id
          <5>1. CASE r.id <= a
            BY <3>6, <4>5, <5>1
          <5>2. CASE r.id > a
            BY <4>4, <4>5, <4>6, <5>2
          <5> QED BY <3>5, <3>6, <5>1, <5>2
        <4>7. client'.got = g /\ client'.after = chunk.id
          BY <3>3, <3>11 DEF g
        <4>8. SeenAll'
          BY <1>4, <4>6, <4>7 DEF SeenAll, M
        <4> QED BY <1>4, <2>7, <4>3, <4>7, <4>8 DEF p, M
      <3> QED BY <3>10, <3>11
    <2>8. \A i \in Instances : ~Post(i)
      BY <2>2 DEF Post
    <2> HIDE DEF After
    <2> QED BY <2>2, <2>4, <2>5, <2>6, <2>7, <2>8, ClientFate
  <1> HIDE DEF After
  <1> QED BY <1>2, <1>3, <1>4, AloneBefore

-----------------------------------------------------------------------------
(* The theorems.                                                           *)

\* The inductive invariant.
Inv ==
    /\ Typed /\ TurnInv /\ Known /\ Listening /\ SetsApart /\ InSync
    /\ PollsAreLive /\ NoneSkipped

LEMMA InitInv == ASSUME Init PROVE Inv
  <1>1. AnyInstance \in Instances
    BY AgentEventsConstants DEF AnyInstance
  <1>2. MaxThinking \in Nat /\ 1 \in 1 .. MaxThinking + 2 /\ 0 \in 0 .. MaxThinking
    BY AgentEventsConstants
  <1> DEFINE T == [phase |-> "none", inst |-> AnyInstance, thought |-> 0, next |-> 1, held |-> 0]
             S == [phase |-> "none", inst |-> AnyInstance, after |-> 0, last |-> 0,
                   replay |-> <<>>, polls |-> {}, set |-> 0, wire |-> <<>>, closed |-> FALSE,
                   gone |-> FALSE, listens |-> FALSE]
  <1>3. /\ turn = [t \in Turns |-> T] /\ stream = [s \in Streams |-> S]
        /\ rows = {} /\ lastId = 0 /\ channel = [i \in Instances |-> 0]
        /\ client = [phase |-> "idle", turn |-> 0, ready |-> FALSE, stream |-> 0, after |-> 0, got |-> <<>>]
    BY DEF Init
  <1>4. T \in TurnRecords /\ T.phase = "none" /\ T.held = 0 /\ T.next = 1
    BY <1>1, <1>2 DEF TurnRecords
  <1>5. /\ S \in StreamRecords /\ S.phase = "none" /\ S.wire = <<>> /\ S.gone = FALSE /\ S.closed = FALSE
        /\ S.set = 0 /\ S.last = 0 /\ S.after = 0 /\ S.replay = <<>> /\ S.polls = {}
    BY <1>1 DEF StreamRecords
  <1>6. client \in ClientRecords /\ client.phase = "idle" /\ client.stream = 0 /\ client.after = 0 /\ client.got = <<>>
    BY <1>3 DEF ClientRecords
  <1>7. Ordered(<<>>)
    BY DEF Ordered
  <1> HIDE DEF T, S
  <1>8. Typed
    BY <1>3, <1>4, <1>5, <1>6, <1>7, FS_EmptySet DEF Typed
  <1>9. TurnInv
    <2>1. Begun = {}
      BY <1>3, <1>4 DEF Begun
    <2>2. IdsCounted
      BY <1>3, <2>1, FS_EmptySet DEF IdsCounted
    <2>3. IdsApart /\ DoneIsLast
      BY <1>3, <1>4 DEF IdsApart, DoneIsLast
    <2>4. TurnsProceed /\ PostedOnce
      BY <1>3, <1>4, <1>6 DEF TurnsProceed, PostedOnce
    <2> QED BY <2>2, <2>3, <2>4 DEF TurnInv
  <1>10. Known
    BY <1>3, <1>5, <1>6 DEF Known, KnownIn, SeenIn
  <1>11. Listening /\ SetsApart
    BY <1>3, <1>5 DEF Listening, SetsApart
  <1>12. InSync
    BY <1>3, <1>5, <1>6 DEF InSync, ReceivedOnceInOrder
  <1>13. PollsAreLive /\ NoneSkipped
    BY <1>3, <1>5, <1>6 DEF PollsAreLive, NoneSkipped, Alone
  <1> QED BY <1>8, <1>9, <1>10, <1>11, <1>12, <1>13 DEF Inv

LEMMA StepInv == ASSUME Inv, [Next]_vars PROVE Inv'
  <1>1. CASE Next
    BY <1>1, TypedStep, TurnStepKeeps, KnownKept, ListeningKept, SetsApartKept, InSyncKept, PollsAreLiveKept,
       NoneSkippedKept
       DEF Inv
  <1>2. CASE UNCHANGED vars
    <2>1. Typed' /\ Known' /\ Listening'
      BY <1>2 DEF Inv, vars, Typed, Known, Listening
    <2>2. TurnInv'
      BY <1>2 DEF Inv, vars, TurnInv, IdsApart, TurnsProceed, PostedOnce, IdsCounted, DoneIsLast, Begun, What,
                  Chained
    <2>3. SetsApart' /\ InSync'
      BY <1>2 DEF Inv, vars, SetsApart, InSync, ReceivedOnceInOrder
    <2>4. PollsAreLive' /\ NoneSkipped'
      BY <1>2 DEF Inv, vars, PollsAreLive, NoneSkipped, Alone, SeenAll, Mine
    <2> QED BY <2>1, <2>2, <2>3, <2>4 DEF Inv
  <1> QED BY <1>1, <1>2

LEMMA Invariant == Spec => []Inv
  BY InitInv, StepInv, PTL DEF Spec

\* The variables keep their types, ids never run out, and no stream has sent an id
\* the table's sequence has not given out.
THEOREM AgentTypes == Spec => []TypeOK
  <1>1. ASSUME Inv PROVE TypeOK
    <2>1. Typed /\ Known /\ IdsApart /\ lastId \in Nat
      BY <1>1 DEF Inv, TurnInv, Typed, Ids
    <2>2. ASSUME NEW s \in Streams PROVE stream[s].last <= lastId
      BY <2>1 DEF Known, KnownIn, SeenIn, IdsApart
    <2> QED BY <2>1, <2>2 DEF Typed, TypeOK, TurnRecords, StreamRecords, ClientRecords
  <1> QED BY Invariant, <1>1, PTL

\* The done event of a turn is the last one it stores, whatever inserts fail
\* and whichever server instance ran the turn.
THEOREM DoneComesLast == Spec => []DoneIsLast
  <1>1. ASSUME Inv PROVE DoneIsLast
    BY <1>1 DEF Inv, TurnInv
  <1> QED BY Invariant, <1>1, PTL

\* The browser gets no event of a turn's loop twice and none out of order, over
\* replays, fan-outs, overlapping polls and reconnections.
THEOREM EventsOnceInOrder == Spec => []ReceivedOnceInOrder
  <1>1. ASSUME Inv PROVE ReceivedOnceInOrder
    BY <1>1 DEF Inv, InSync
  <1> QED BY Invariant, <1>1, PTL

\* An open subscribed stream is in the listener set its instance fans out to,
\* however the other streams of the session came and went.
THEOREM SubscribersReached == Spec => []SubscriberIsReached
  <1>1. ASSUME Inv PROVE SubscriberIsReached
    BY <1>1 DEF Inv, Listening, SubscriberIsReached, Polling, Listeners
  <1> QED BY Invariant, <1>1, PTL


\* A browser whose streams all ran on other instances than its turn misses no
\* stored event of the turn that is older than one it has seen, unless another
\* turn stored events in between: polling alone loses nothing.
THEOREM PollingLosesNothing == Spec => []OtherInstanceMissesNothing
  <1>1. ASSUME Inv PROVE OtherInstanceMissesNothing
    <2> SUFFICES ASSUME Alone, NEW r \in Mine, r.id < client.after
                 PROVE  \E k \in DOMAIN client.got : client.got[k] = r.id
      BY DEF OtherInstanceMissesNothing, Alone, Mine
    <2>1. SeenAll
      BY <1>1 DEF Inv, NoneSkipped
    <2>2. r.id \in Nat /\ client.after \in Nat
      BY <1>1, RowIds DEF Inv, Typed, Mine, ClientRecords, Ids
    <2> QED BY <2>1, <2>2 DEF SeenAll
  <1> QED BY Invariant, <1>1, PTL
=============================================================================
