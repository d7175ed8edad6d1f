---------------------------- MODULE LibraryProofs ----------------------------
(***************************************************************************)
(* Theorems about Library and SaveSpot for any accounts, places, tables at *)
(* the start and number of transactions.                                   *)
(***************************************************************************)
EXTENDS SaveSpot, FiniteSetTheorems, WellFoundedInduction, TLAPS

-----------------------------------------------------------------------------
(* What a transaction under way may rely on.                               *)

TxFields == DOMAIN NoTx

\* A transaction has the fields of one and the arguments its route was called with.
IsTx(c) ==
    /\ DOMAIN c = TxFields
    /\ c.at \in {"free", "read", "target", "edge", "write", "answered", "over"}
    /\ c.at \in {"read", "target", "edge", "write"} => c.user \in Users
    /\ c.op = "create_spot" => c.arg \in Places
    /\ c.op \in {"create_collection", "update_collection"} => c.arg \in {"friends", "secret"}
    /\ c.op = "reorder" => c.arg \in Seq(Collections)
    /\ c.op = "create_collection" /\ c.at = "write" => IsFiniteSet(c.held) /\ c.held \subseteq Nat

\* A copy's source was there when the copy was asked for.  If it still is when
\* the source was read, it is another account's, with whom the user is or was
\* friends.
Knows(c, spots, pairs) ==
    /\ c.op = "recollect" => c.spot \in Spots /\ spots[c.spot] # NoSpot
    /\ (c.op = "recollect" /\ c.at \in {"target", "edge", "write"}) =>
          \/ spots[c.spot].by = Nobody
          \/ spots[c.spot].by # c.user /\ {c.user, spots[c.spot].by} \in pairs

Shaped ==
    /\ friends \subseteq met
    /\ \A pair \in met : pair \subseteq Users /\ Cardinality(pair) = 2
    /\ collection \in [Collections -> CollectionRecords]
    /\ spot \in [Spots -> SpotRecords]
    /\ liked \subseteq Users \X Spots
    /\ flags \in Seq([to : Users, actor : Users \cup {Nobody}])

Under ==
    /\ tx = [i \in TxIds |-> tx[i]]
    /\ \A i \in TxIds : IsTx(tx[i]) /\ Knows(tx[i], spot, met)

TablesFit == Shaped /\ LibraryHolds
LibraryInvariant == TablesFit /\ Under

\* What no step undoes: friendships there were, and the author of a spot as long
\* as it is there.  Ids are not used twice.
Lasts ==
    /\ met \subseteq met'
    /\ \A s \in Spots : spot[s] # NoSpot =>
          /\ spot'[s] # NoSpot
          /\ spot'[s].by \in {Nobody, spot[s].by}

-----------------------------------------------------------------------------
(* Least and greatest numbers.                                             *)

LEMMA LeastNatural ==
    ASSUME NEW T, T \subseteq Nat, T # {}
    PROVE  Min(T) \in T
  <1>1. IsWellFoundedOn(OpToRel(<, Nat), Nat)
    BY NatLessThanWellFounded
  <1>2. PICK x \in T : \A y \in T : ~(<<y, x>> \in OpToRel(<, Nat))
    BY <1>1, WFMin
  <1>3. \A y \in T : ~(y < x)
    BY <1>2 DEF OpToRel
  <1>4. \A y \in T : x <= y
    BY <1>3
  <1> QED BY <1>4 DEF Min

HasGreatest(A) == \E x \in A : \A y \in A : x >= y

\* A finite set of numbers has a greatest one: a smallest counterexample would
\* have one less some element.
LEMMA GreatestExists ==
    ASSUME NEW S, IsFiniteSet(S), S \subseteq Int, S # {}
    PROVE  HasGreatest(S)
  <1> SUFFICES ASSUME ~HasGreatest(S) PROVE FALSE
    OBVIOUS
  <1> DEFINE bad == {A \in SUBSET S : A # {} /\ ~HasGreatest(A)}
             sizes == {Cardinality(A) : A \in bad}
  <1>1. \A A \in SUBSET S : IsFiniteSet(A) /\ Cardinality(A) \in Nat
    BY FS_Subset, FS_CardinalityType
  <1>2. S \in bad
    OBVIOUS
  <1>3. sizes \subseteq Nat /\ sizes # {}
    BY <1>1, <1>2
  <1>4. IsWellFoundedOn(OpToRel(<, Nat), Nat)
    BY NatLessThanWellFounded
  <1>5. PICK n \in sizes : \A m \in sizes : ~(<<m, n>> \in OpToRel(<, Nat))
    BY <1>3, <1>4, WFMin
  <1>6. PICK A \in bad : n = Cardinality(A)
    BY <1>5
  <1>7. PICK a \in A : TRUE
    BY <1>6
  <1> DEFINE B == A \ {a}
  <1>8. Cardinality(B) = Cardinality(A) - 1 /\ Cardinality(B) \in Nat /\ Cardinality(A) \in Nat
    BY <1>1, <1>6, <1>7, FS_RemoveElement
  <1>9. B \notin bad
    <2> SUFFICES ASSUME B \in bad PROVE FALSE
      OBVIOUS
    <2>1. Cardinality(B) \in sizes
      OBVIOUS
    <2>2. ~(<<Cardinality(B), n>> \in OpToRel(<, Nat))
      BY <1>5, <2>1
    <2> HIDE DEF B
    <2>3. Cardinality(B) < n /\ n \in Nat
      BY <1>6, <1>8
    <2> QED BY <1>8, <2>2, <2>3 DEF OpToRel
  <1>10. a \in Int /\ B \in SUBSET S /\ B \subseteq Int /\ A = B \cup {a}
    BY <1>6, <1>7
  <1> HIDE DEF B
  <1>11. CASE B = {}
    BY <1>6, <1>10, <1>11 DEF HasGreatest
  <1>12. CASE B # {}
    <2>1. PICK x \in B : \A y \in B : x >= y
      BY <1>9, <1>10, <1>12 DEF HasGreatest
    <2>2. CASE x >= a
      <3>1. x \in A /\ \A y \in A : x >= y
        BY <1>10, <2>1, <2>2
      <3> QED BY <1>6, <3>1 DEF HasGreatest
    <2>3. CASE ~(x >= a)
      <3>1. a \in A /\ \A y \in A : a >= y
        BY <1>10, <2>1, <2>3
      <3> QED BY <1>6, <3>1 DEF HasGreatest
    <2> QED BY <2>2, <2>3
  <1> QED BY <1>11, <1>12

LEMMA GreatestNumber ==
    ASSUME NEW S, IsFiniteSet(S), S \subseteq Int, S # {}
    PROVE  Max(S) \in S /\ \A y \in S : Max(S) >= y
  BY GreatestExists DEF Max, HasGreatest

\* The order after those that were read.
LEMMA NextOrder ==
    ASSUME NEW S, IsFiniteSet(S), S \subseteq Nat
    PROVE  Max({-1} \cup S) + 1 \in Nat
  <1> DEFINE T == S \cup {-1}
  <1>1. IsFiniteSet(T)
    BY FS_AddElement
  <1>2. T \subseteq Int /\ T # {} /\ T = {-1} \cup S
    OBVIOUS
  <1>3. Max(T) \in T
    BY <1>1, <1>2, GreatestNumber
  <1>4. Max(T) \in Nat \/ Max(T) = -1
    BY <1>3
  <1> QED BY <1>2, <1>4

-----------------------------------------------------------------------------
(* The tables.                                                             *)

\* A row with an author is a spot of an account.
LEMMA SpotFacts ==
    ASSUME LibraryConstants, Shaped, NEW s \in Spots
    PROVE  /\ spot[s] \in SpotRecords
           /\ IsSpot(s) <=> spot[s].by # Nobody
           /\ IsSpot(s) => /\ spot[s] # NoSpot /\ spot[s].by \in Users
                           /\ spot[s].col \in Collections /\ spot[s].place \in Places
                           /\ spot[s].source \in {0} \cup Spots
                           /\ spot[s].origin \in Users \cup {Nobody} /\ spot[s].depth \in Nat
  <1>1. spot[s] \in SpotRecords
    BY DEF Shaped
  <1>2. CASE spot[s] \in {NoSpot, GoneSpot}
    BY <1>1, <1>2 DEF NoSpot, GoneSpot, IsSpot
  <1>3. CASE spot[s] \in [by : Users, col : Collections, place : Places,
                          source : {0} \cup Spots, origin : Users \cup {Nobody}, depth : Nat]
    BY <1>1, <1>3 DEF NoSpot, IsSpot, LibraryConstants
  <1> QED BY <1>1, <1>2, <1>3 DEF SpotRecords

LEMMA CollectionFacts ==
    ASSUME LibraryConstants, Shaped, NEW c \in Collections
    PROVE  /\ collection[c] \in CollectionRecords
           /\ IsCollection(c) <=> collection[c].owner # Nobody
           /\ IsCollection(c) => /\ collection[c].owner \in Users
                                 /\ collection[c].visibility \in {"friends", "secret"}
                                 /\ collection[c].order \in Nat
                                 /\ collection[c] \notin {Unused, Deleted}
  <1>1. collection[c] \in CollectionRecords
    BY DEF Shaped
  <1>2. CASE collection[c] \in {Unused, Deleted}
    BY <1>1, <1>2 DEF Unused, Deleted, IsCollection
  <1>3. CASE collection[c] \in [owner : Users, visibility : {"friends", "secret"}, order : Nat]
    BY <1>1, <1>3 DEF Unused, Deleted, IsCollection, LibraryConstants
  <1> QED BY <1>1, <1>2, <1>3 DEF CollectionRecords

LEMMA FreshSpot ==
    ASSUME LibraryConstants, UnusedSpots # {}
    PROVE  /\ Min(UnusedSpots) \in Spots /\ spot[Min(UnusedSpots)] = NoSpot
           /\ Min(UnusedSpots) # 0
  <1>1. UnusedSpots \subseteq Nat
    BY DEF UnusedSpots, Spots, LibraryConstants
  <1>2. Min(UnusedSpots) \in UnusedSpots
    BY <1>1, LeastNatural
  <1> QED BY <1>2 DEF UnusedSpots, Spots, LibraryConstants

LEMMA FreshCollection ==
    ASSUME LibraryConstants, UnusedCollections # {}
    PROVE  /\ Min(UnusedCollections) \in Collections
           /\ collection[Min(UnusedCollections)] = Unused
  <1>1. UnusedCollections \subseteq Nat
    BY DEF UnusedCollections, Collections, LibraryConstants
  <1>2. Min(UnusedCollections) \in UnusedCollections
    BY <1>1, LeastNatural
  <1> QED BY <1>2 DEF UnusedCollections

\* A spot that fits is added under an id that was not used.
LEMMA SpotAdded ==
    ASSUME LibraryConstants, Shaped, SpotsHold, UnusedSpots # {},
           NEW r \in [by : Users, col : Collections, place : Places, source : {0} \cup Spots,
                      origin : Users \cup {Nobody}, depth : Nat],
           collection[r.col].owner = r.by, (r.depth = 0) = (r.origin = Nobody),
           r.source # 0 => /\ IsSpot(r.source) /\ spot[r.source].by # r.by
                           /\ r.depth = spot[r.source].depth + 1
                           /\ r.origin \in {spot[r.source].by, spot[r.source].origin},
           spot' = [spot EXCEPT ![Min(UnusedSpots)] = r],
           UNCHANGED <<met, collection, liked>>
    PROVE  spot' \in [Spots -> SpotRecords] /\ SpotsHold' /\ Lasts
  <1> DEFINE n == Min(UnusedSpots)
  <1>1. n \in Spots /\ spot[n] = NoSpot /\ n # 0
    BY FreshSpot
  <1> HIDE DEF n
  <1>2. spot \in [Spots -> SpotRecords] /\ r \in SpotRecords
    BY DEF Shaped, SpotRecords
  <1>3. spot' = [spot EXCEPT ![n] = r]
    BY DEF n
  <1>4. spot' \in [Spots -> SpotRecords] /\ spot'[n] = r
        /\ \A s \in Spots \ {n} : spot'[s] = spot[s]
    BY <1>1, <1>2, <1>3
  <1>5. spot[n].by = Nobody /\ r.by # Nobody /\ r # NoSpot /\ ~IsSpot(n)
    BY <1>1 DEF NoSpot, LibraryConstants, IsSpot
  <1>6. Lasts
    BY <1>1, <1>4 DEF Lasts
  <1>7. RowsFit(collection, spot)
    BY DEF SpotsHold
  <1>8. ASSUME NEW s \in Spots, spot'[s].by # Nobody
        PROVE  /\ spot'[s].col \in Collections /\ collection[spot'[s].col].owner = spot'[s].by
               /\ (spot'[s].depth = 0) = (spot'[s].origin = Nobody)
               /\ spot'[s].source # 0 =>
                     /\ spot'[spot'[s].source].by \notin {Nobody, spot'[s].by}
                     /\ spot'[s].depth = spot'[spot'[s].source].depth + 1
                     /\ spot'[s].origin \in {spot'[spot'[s].source].by, spot'[spot'[s].source].origin}
    <2>1. CASE s = n
      <3>1. r.source # 0 => r.source \in Spots \ {n} /\ spot[r.source].by # Nobody
        BY <1>5 DEF IsSpot
      <3> QED BY <2>1, <3>1, <1>4
    <2>2. CASE s # n
      <3>1. spot'[s] = spot[s] /\ IsSpot(s)
        BY <2>2, <1>4, <1>8 DEF IsSpot
      <3>2. spot[s].source # 0 => spot[s].source \in Spots \ {n}
        BY <3>1, <1>5, <1>7, SpotFacts DEF RowsFit
      <3>3. spot[s].source # 0 => spot'[spot[s].source] = spot[spot[s].source]
        BY <3>2, <1>4
      <3> QED BY <3>1, <3>3, <1>7 DEF RowsFit, IsSpot
    <2> QED BY <2>1, <2>2
  <1>9. \A l \in liked' : IsSpot(l[2])'
    <2> SUFFICES ASSUME NEW l \in liked PROVE l[2] \in Spots /\ spot'[l[2]].by # Nobody
      BY DEF IsSpot
    <2>1. l[2] \in Spots /\ spot[l[2]].by # Nobody
      BY DEF SpotsHold, IsSpot
    <2> QED BY <2>1, <1>4, <1>5
  <1>10. RowsFit(collection, spot)'
    BY <1>8 DEF RowsFit
  <1> QED BY <1>4, <1>6, <1>9, <1>10 DEF SpotsHold

\* Spots go, with the edges to them and the likes of them; what stays is in a
\* collection that stays.
LEMMA SpotsGo ==
    ASSUME LibraryConstants, Shaped, SpotsHold, NEW gone, SpotsDeleted(gone),
           \A s \in Spots \ gone : IsSpot(s) =>
               collection'[spot[s].col].owner = collection[spot[s].col].owner,
           met' = met
    PROVE  /\ spot' \in [Spots -> SpotRecords] /\ liked' \subseteq Users \X Spots
           /\ SpotsHold' /\ Lasts
  <1>1. spot \in [Spots -> SpotRecords]
    BY DEF Shaped
  <1>2. /\ spot' = [s \in Spots |-> IF s \in gone THEN GoneSpot
                       ELSE [spot[s] EXCEPT !.source = IF @ \in gone THEN 0 ELSE @]]
        /\ liked' = {l \in liked : l[2] \notin gone}
    BY DEF SpotsDeleted, Removed
  <1>3. \A s \in Spots : s \in gone => spot'[s] = GoneSpot
    BY <1>2
  <1>4. ASSUME NEW s \in Spots, s \notin gone
        PROVE  /\ spot'[s] \in SpotRecords
               /\ spot'[s].by = spot[s].by /\ spot'[s].col = spot[s].col
               /\ spot'[s].origin = spot[s].origin /\ spot'[s].depth = spot[s].depth
               /\ spot'[s].source = IF spot[s].source \in gone THEN 0 ELSE spot[s].source
               /\ spot[s] # NoSpot => spot'[s] # NoSpot
    <2>1. spot'[s] = [spot[s] EXCEPT !.source = IF @ \in gone THEN 0 ELSE @]
      BY <1>2, <1>4
    <2>2. CASE spot[s] = NoSpot \/ spot[s] = GoneSpot
      <3>1. spot'[s] = spot[s]
        BY <2>1, <2>2 DEF NoSpot, GoneSpot
      <3> QED BY <3>1, <2>2 DEF NoSpot, GoneSpot, SpotRecords
    <2>3. CASE spot[s] \in [by : Users, col : Collections, place : Places,
                            source : {0} \cup Spots, origin : Users \cup {Nobody}, depth : Nat]
      BY <2>1, <2>3 DEF SpotRecords, NoSpot, LibraryConstants
    <2> QED BY <1>1, <2>2, <2>3 DEF SpotRecords
  <1>5. spot' \in [Spots -> SpotRecords]
    <2>1. \A s \in Spots : spot'[s] \in SpotRecords
      BY <1>3, <1>4 DEF SpotRecords
    <2> QED BY <1>2, <2>1
  <1>6. liked' \subseteq Users \X Spots
    BY <1>2 DEF Shaped
  <1>7. GoneSpot.by = Nobody /\ GoneSpot # NoSpot
    BY DEF GoneSpot, NoSpot
  <1>8. Lasts
    <2>1. ASSUME NEW s \in Spots, spot[s] # NoSpot
          PROVE  spot'[s] # NoSpot /\ spot'[s].by \in {Nobody, spot[s].by}
      BY <2>1, <1>3, <1>4, <1>7
    <2> QED BY <2>1 DEF Lasts
  <1>9. RowsFit(collection, spot)
    BY DEF SpotsHold
  <1>10. ASSUME NEW s \in Spots, spot'[s].by # Nobody
        PROVE  /\ spot'[s].col \in Collections /\ collection'[spot'[s].col].owner = spot'[s].by
               /\ (spot'[s].depth = 0) = (spot'[s].origin = Nobody)
               /\ spot'[s].source # 0 =>
                     /\ spot'[spot'[s].source].by \notin {Nobody, spot'[s].by}
                     /\ spot'[s].depth = spot'[spot'[s].source].depth + 1
                     /\ spot'[s].origin \in {spot'[spot'[s].source].by, spot'[spot'[s].source].origin}
    <2>1. s \notin gone
      BY <1>10, <1>3, <1>7
    <2>2. IsSpot(s) /\ spot[s].by # Nobody
      BY <2>1, <1>4, <1>10 DEF IsSpot
    <2>3. spot[s].col \in Collections /\ collection'[spot[s].col].owner = spot[s].by
      BY <2>1, <2>2, <1>9 DEF RowsFit
    <2>4. ASSUME spot'[s].source # 0
          PROVE  /\ spot'[spot'[s].source].by \notin {Nobody, spot'[s].by}
                 /\ spot'[s].depth = spot'[spot'[s].source].depth + 1
                 /\ spot'[s].origin \in {spot'[spot'[s].source].by, spot'[spot'[s].source].origin}
      <3> DEFINE o == spot[s].source
      <3>1. spot'[s].source = o /\ o \notin gone /\ o # 0
        BY <2>1, <2>4, <1>4
      <3>2. o \in Spots
        BY <3>1, <2>2, SpotFacts
      <3>3. spot[o].by \notin {Nobody, spot[s].by} /\ spot[s].depth = spot[o].depth + 1
            /\ spot[s].origin \in {spot[o].by, spot[o].origin}
        BY <2>2, <3>1, <1>9 DEF RowsFit
      <3> HIDE DEF o
      <3>4. spot'[o].by = spot[o].by /\ spot'[o].depth = spot[o].depth
            /\ spot'[o].origin = spot[o].origin
        BY <3>1, <3>2, <1>4
      <3>5. spot'[s].by = spot[s].by /\ spot'[s].depth = spot[s].depth
            /\ spot'[s].origin = spot[s].origin
        BY <2>1, <1>4
      <3> QED BY <3>1, <3>3, <3>4, <3>5
    <2> QED BY <2>1, <2>2, <2>3, <2>4, <1>4, <1>9 DEF RowsFit
  <1>11. RowsFit(collection, spot)'
    BY <1>10 DEF RowsFit
  <1>12. \A l \in liked' : IsSpot(l[2])'
    <2> SUFFICES ASSUME NEW l \in liked, l[2] \notin gone
                 PROVE  l[2] \in Spots /\ spot'[l[2]].by # Nobody
      BY <1>2 DEF IsSpot
    <2>1. l[2] \in Spots /\ spot[l[2]].by # Nobody
      BY DEF SpotsHold, IsSpot
    <2> QED BY <2>1, <1>4
  <1> QED BY <1>5, <1>6, <1>8, <1>11, <1>12 DEF SpotsHold

\* Collections change, but none changes hands.
LEMMA CollectionsStay ==
    ASSUME Shaped, SpotsHold, UNCHANGED <<met, spot, liked>>,
           \A c \in Collections : collection[c].owner # Nobody =>
               collection'[c].owner = collection[c].owner
    PROVE  SpotsHold' /\ Lasts
  <1>1. \A s \in Spots : spot[s].by # Nobody =>
            spot[s].col \in Collections /\ collection[spot[s].col].owner = spot[s].by
    BY DEF SpotsHold, RowsFit
  <1>2. RowsFit(collection, spot)'
    BY <1>1 DEF SpotsHold, RowsFit
  <1>3. \A l \in liked' : IsSpot(l[2])'
    BY DEF SpotsHold, IsSpot
  <1> QED BY <1>2, <1>3 DEF SpotsHold, Lasts

-----------------------------------------------------------------------------
(* The transactions.                                                       *)

LEMMA Unmoved ==
    ASSUME TablesFit, UNCHANGED tables PROVE TablesFit' /\ Lasts
  BY DEF TablesFit, Shaped, LibraryHolds, SpotsHold, RowsFit, FlagsNameFriends, IsSpot, Lasts, tables

LEMMA KnowsLasts ==
    ASSUME Lasts, NEW c, Knows(c, spot, met) PROVE Knows(c, spot', met')
  BY DEF Knows, Lasts

LEMMA UnderNext ==
    ASSUME Under, Lasts, NEW i \in TxIds, NEW d, IsTx(d), Knows(d, spot', met'),
           tx' = [tx EXCEPT ![i] = d]
    PROVE  Under'
  <1>1. tx = [j \in TxIds |-> tx[j]]
    BY DEF Under
  <1>2. tx' = [j \in TxIds |-> IF j = i THEN d ELSE tx[j]]
    BY <1>1
  <1>3. tx' = [j \in TxIds |-> tx'[j]]
    BY <1>2
  <1>4. \A j \in TxIds : IsTx(tx'[j]) /\ Knows(tx'[j], spot', met')
    <2> TAKE j \in TxIds
    <2>1. CASE j = i
      BY <1>2, <2>1
    <2>2. CASE j # i
      BY <1>2, <2>2, KnowsLasts DEF Under
    <2> QED BY <2>1, <2>2
  <1> QED BY <1>3, <1>4 DEF Under

LEMMA UnderStays ==
    ASSUME Under, Lasts, UNCHANGED tx PROVE Under'
  BY KnowsLasts DEF Under

LEMMA OverIsTx == IsTx(Over) /\ Over.op = ""
  BY DEF IsTx, TxFields, Over, NoTx

\* A transaction that is answered.
LEMMA Ended ==
    ASSUME Under, Lasts, NEW i \in TxIds, NEW answer, NEW got, Answers(i, answer, got)
    PROVE  Under'
  <1>1. IsTx(tx[i]) /\ Knows(tx[i], spot, met) /\ tx = [j \in TxIds |-> tx[j]]
    BY DEF Under
  <1> DEFINE d == [tx[i] EXCEPT !.at = "answered", !.answer = answer, !.got = got, !.held = {}]
  <1>2. IsTx(d) /\ d.op = tx[i].op /\ d.spot = tx[i].spot /\ d.at = "answered"
    <2>1. DOMAIN tx[i] = TxFields
      BY <1>1 DEF IsTx
    <2>2. /\ DOMAIN d = TxFields /\ d.at = "answered" /\ d.op = tx[i].op /\ d.spot = tx[i].spot
          /\ d.arg = tx[i].arg
      BY <2>1 DEF TxFields, NoTx
    <2> HIDE DEF d
    <2> QED BY <1>1, <2>2 DEF IsTx
  <1>3. Knows(d, spot', met')
    <2>1. Knows(tx[i], spot', met')
      BY <1>1, KnowsLasts
    <2> HIDE DEF d
    <2> QED BY <1>2, <2>1 DEF Knows
  <1>4. CASE tx[i].user \in Watchers
    <2>1. tx' = [tx EXCEPT ![i] = d]
      BY <1>1, <1>4 DEF Answers
    <2> HIDE DEF d
    <2> QED BY <1>2, <1>3, <2>1, UnderNext
  <1>5. CASE tx[i].user \notin Watchers
    <2>1. tx' = [tx EXCEPT ![i] = Over]
      BY <1>1, <1>5 DEF Answers
    <2>2. Knows(Over, spot', met')
      BY OverIsTx DEF Knows
    <2> QED BY OverIsTx, <2>1, <2>2, UnderNext
  <1> QED BY <1>4, <1>5

LEMMA Refused ==
    ASSUME LibraryInvariant, NEW i \in TxIds, NEW answer, Refuses(i, answer)
    PROVE  LibraryInvariant'
  BY Unmoved, Ended DEF Refuses, LibraryInvariant

\* A transaction that goes on to its next statement.
LEMMA Continued ==
    ASSUME LibraryInvariant, NEW i \in TxIds, NEW held,
           NEW statement \in {"target", "edge", "write"}, GoesOn(i, statement, held),
           tx[i].at \in {"read", "target", "edge", "write"},
           (tx[i].op = "create_collection" /\ statement = "write") =>
               IsFiniteSet(held) /\ held \subseteq Nat,
           tx[i].op = "recollect" =>
               \/ spot[tx[i].spot].by = Nobody
               \/ /\ spot[tx[i].spot].by # tx[i].user
                  /\ {tx[i].user, spot[tx[i].spot].by} \in met
    PROVE  LibraryInvariant'
  <1>1. IsTx(tx[i]) /\ Knows(tx[i], spot, met) /\ tx = [j \in TxIds |-> tx[j]]
    BY DEF Under, LibraryInvariant
  <1>2. TablesFit' /\ Lasts /\ spot' = spot /\ met' = met
    BY Unmoved DEF GoesOn, LibraryInvariant, tables
  <1> DEFINE d == [tx[i] EXCEPT !.at = statement, !.held = held]
  <1>3. IsTx(d) /\ d.op = tx[i].op /\ d.spot = tx[i].spot /\ d.at = statement /\ d.user = tx[i].user
    <2>1. DOMAIN tx[i] = TxFields
      BY <1>1 DEF IsTx
    <2>2. /\ DOMAIN d = TxFields /\ d.at = statement /\ d.op = tx[i].op /\ d.spot = tx[i].spot
          /\ d.arg = tx[i].arg /\ d.user = tx[i].user /\ d.held = held
      BY <2>1 DEF TxFields, NoTx
    <2> HIDE DEF d
    <2> QED BY <1>1, <2>2 DEF IsTx
  <1>4. tx' = [tx EXCEPT ![i] = d]
    BY <1>1 DEF GoesOn
  <1> HIDE DEF d
  <1>5. Knows(d, spot, met)
    BY <1>1, <1>3 DEF Knows
  <1>6. Under'
    BY <1>2, <1>3, <1>4, <1>5, UnderNext DEF LibraryInvariant
  <1> QED BY <1>2, <1>6 DEF LibraryInvariant

\* A transaction that only decides, before its last statement.
LEMMA Decided ==
    ASSUME LibraryInvariant, NEW i \in TxIds, NEW verdict, Reads(i, verdict),
           tx[i].at = "read", tx[i].op \notin {"create_collection", "recollect"}
    PROVE  LibraryInvariant'
  BY Refused, Continued DEF Reads

LEMMA Begun ==
    ASSUME LibraryConstants, LibraryInvariant, NEW u \in Users, NEW op, NEW s, NEW c, NEW arg,
           Begins(u, op, s, c, arg),
           op = "create_spot" => arg \in Places,
           op \in {"create_collection", "update_collection"} => arg \in {"friends", "secret"},
           op = "reorder" => arg \in Seq(Collections),
           op = "recollect" => s \in KnownSpots
    PROVE  LibraryInvariant'
  <1> DEFINE d == [NoTx EXCEPT !.user = u, !.op = op, !.spot = s, !.col = c, !.arg = arg,
                               !.at = "read"]
  <1>1. NextTx \in TxIds
    <2>1. FreeTx \subseteq Nat /\ FreeTx \subseteq TxIds /\ FreeTx # {}
      BY DEF FreeTx, TxIds, LibraryConstants, Begins
    <2> QED BY <2>1, LeastNatural DEF NextTx
  <1>2. tx' = [tx EXCEPT ![NextTx] = d] /\ UNCHANGED tables
    BY DEF Begins
  <1>3. IsTx(d) /\ d.op = op /\ d.spot = s /\ d.at = "read"
    BY DEF IsTx, TxFields, NoTx
  <1> HIDE DEF d
  <1>4. TablesFit' /\ Lasts /\ spot' = spot
    BY <1>2, Unmoved DEF LibraryInvariant, tables
  <1>5. Knows(d, spot', met')
    BY <1>3, <1>4 DEF Knows, KnownSpots, UnusedSpots
  <1> QED BY <1>1, <1>2, <1>3, <1>4, <1>5, UnderNext DEF LibraryInvariant

-----------------------------------------------------------------------------
(* The statements that write.                                              *)

\* A like, a spot or a collection is written and no flag is raised.
LEMMA Written ==
    ASSUME LibraryInvariant, NEW i \in TxIds, NEW answer, NEW got, Answers(i, answer, got),
           UNCHANGED <<friends, met, flags>>, SpotsHold', Lasts,
           collection' \in [Collections -> CollectionRecords],
           spot' \in [Spots -> SpotRecords], liked' \subseteq Users \X Spots
    PROVE  LibraryInvariant'
  <1>1. Shaped' /\ FlagsNameFriends'
    BY DEF LibraryInvariant, TablesFit, Shaped, LibraryHolds, FlagsNameFriends
  <1>2. Under'
    BY Ended DEF LibraryInvariant
  <1> QED BY <1>1, <1>2 DEF LibraryInvariant, TablesFit, LibraryHolds

LEMMA CreateSpotKeeps ==
    ASSUME LibraryConstants, LibraryInvariant, NEW i \in TxIds, CreateSpot(i)
    PROVE  LibraryInvariant'
  <1>1. CASE At(i, "create_spot", "read") /\ Reads(i, CollectionVerdict(tx[i].user, tx[i].col))
    BY <1>1, Decided DEF At
  <1>2. CASE At(i, "create_spot", "write") /\ Insertable(tx[i].user, tx[i].col)
    <2> DEFINE r == [NoSpot EXCEPT !.by = tx[i].user, !.col = tx[i].col, !.place = tx[i].arg]
    <2>1. tx[i].user \in Users /\ tx[i].arg \in Places
      BY <1>2 DEF At, LibraryInvariant, Under, IsTx
    <2>2. tx[i].col \in Collections /\ collection[tx[i].col].owner = tx[i].user
      BY <1>2 DEF Insertable, IsCollection
    <2>3. /\ r \in [by : Users, col : Collections, place : Places, source : {0} \cup Spots,
                    origin : Users \cup {Nobody}, depth : Nat]
          /\ r.col = tx[i].col /\ r.by = tx[i].user /\ r.source = 0 /\ r.depth = 0
          /\ r.origin = Nobody
      BY <2>1, <2>2 DEF NoSpot
    <2>4. /\ spot' = [spot EXCEPT ![Min(UnusedSpots)] = r] /\ UnusedSpots # {}
          /\ Answers(i, "ok", Min(UnusedSpots))
          /\ UNCHANGED <<friends, met, collection, liked, flags>>
      BY <1>2 DEF CreateSpot, At
    <2> HIDE DEF r
    <2>5. Shaped /\ SpotsHold
      BY DEF LibraryInvariant, TablesFit, LibraryHolds
    <2>6. spot' \in [Spots -> SpotRecords] /\ SpotsHold' /\ Lasts
      BY <2>2, <2>3, <2>4, <2>5, SpotAdded
    <2> QED BY <2>4, <2>5, <2>6, Written DEF Shaped
  <1>3. CASE At(i, "create_spot", "write") /\ ~Insertable(tx[i].user, tx[i].col)
    BY <1>3, Refused DEF CreateSpot, At
  <1> QED BY <1>1, <1>2, <1>3 DEF CreateSpot

LEMMA UpdateSpotKeeps ==
    ASSUME LibraryInvariant, NEW i \in TxIds, UpdateSpot(i) PROVE LibraryInvariant'
  BY Decided, Refused DEF UpdateSpot, At

LEMMA SpotsDeletedKeep ==
    ASSUME LibraryConstants, LibraryInvariant, NEW i \in TxIds, NEW gone, SpotsDeleted(gone),
           Answers(i, "ok", 0), UNCHANGED <<friends, met, collection, flags>>
    PROVE  LibraryInvariant'
  <1>1. Shaped /\ SpotsHold
    BY DEF LibraryInvariant, TablesFit, LibraryHolds
  <1>2. spot' \in [Spots -> SpotRecords] /\ liked' \subseteq Users \X Spots /\ SpotsHold' /\ Lasts
    BY <1>1, SpotsGo
  <1> QED BY <1>1, <1>2, Written DEF Shaped

LEMMA DeleteSpotKeeps ==
    ASSUME LibraryConstants, LibraryInvariant, NEW i \in TxIds, DeleteSpot(i)
    PROVE  LibraryInvariant'
  BY Decided, Refused, SpotsDeletedKeep DEF DeleteSpot, At

LEMMA UnrecollectKeeps ==
    ASSUME LibraryConstants, LibraryInvariant, NEW i \in TxIds, UnrecollectSpot(i)
    PROVE  LibraryInvariant'
  <1>1. CASE At(i, "unrecollect", "read")
    BY <1>1, Refused, Continued DEF UnrecollectSpot, At
  <1>2. CASE At(i, "unrecollect", "write")
    BY <1>2, SpotsDeletedKeep DEF UnrecollectSpot, At
  <1> QED BY <1>1, <1>2 DEF UnrecollectSpot

\* A flag is raised for a copy of a friend's spot, or it names nobody.
LEMMA FlagRaised ==
    ASSUME Shaped, FlagsNameFriends, NEW f \in [to : Users, actor : Users \cup {Nobody}],
           f.actor # Nobody => {f.actor, f.to} \in met,
           flags' = Append(flags, f), met' = met
    PROVE  flags' \in Seq([to : Users, actor : Users \cup {Nobody}]) /\ FlagsNameFriends'
  <1>1. flags \in Seq([to : Users, actor : Users \cup {Nobody}])
    BY DEF Shaped
  <1>2. /\ flags' \in Seq([to : Users, actor : Users \cup {Nobody}])
        /\ DOMAIN flags' = 1 .. Len(flags) + 1 /\ Len(flags) \in Nat /\ DOMAIN flags = 1 .. Len(flags)
        /\ flags'[Len(flags) + 1] = f
        /\ \A n \in 1 .. Len(flags) : flags'[n] = flags[n]
    BY <1>1
  <1>3. ASSUME NEW n \in DOMAIN flags', flags'[n].actor # Nobody
        PROVE  {flags'[n].actor, flags'[n].to} \in met'
    <2>1. CASE n = Len(flags) + 1
      BY <1>2, <1>3, <2>1
    <2>2. CASE n # Len(flags) + 1
      <3>1. n \in DOMAIN flags /\ flags'[n] = flags[n]
        BY <1>2, <2>2
      <3> QED BY <1>3, <3>1 DEF FlagsNameFriends
    <2> QED BY <2>1, <2>2
  <1> QED BY <1>2, <1>3 DEF FlagsNameFriends

\* A visible spot of somebody else is a friend's.
LEMMA VisibleIsFriends ==
    ASSUME LibraryConstants, Shaped, SpotsHold, NEW u, NEW s, SpotVisible(u, s), spot[s].by # u
    PROVE  {u, spot[s].by} \in met
  <1>1. s \in Spots /\ spot[s].by # Nobody /\ CollectionVisible(u, spot[s].col)
    BY DEF SpotVisible, IsSpot
  <1>2. collection[spot[s].col].owner = spot[s].by
    BY <1>1 DEF SpotsHold, RowsFit
  <1>3. {spot[s].by, u} \in friends
    BY <1>1, <1>2 DEF CollectionVisible, AreFriends
  <1>4. {spot[s].by, u} = {u, spot[s].by}
    OBVIOUS
  <1> QED BY <1>3, <1>4 DEF Shaped

LEMMA CopyMade ==
    ASSUME LibraryConstants, LibraryInvariant, NEW i \in TxIds, tx[i].op = "recollect",
           tx[i].at = "write", RecollectSpot(i)
    PROVE  LibraryInvariant'
  <1> DEFINE u == tx[i].user
             s == tx[i].spot
             c == tx[i].col
             copy == CopyOf(s, u, c)
  <1>0. Shaped /\ SpotsHold /\ FlagsNameFriends
    BY DEF LibraryInvariant, TablesFit, LibraryHolds
  <1>1. /\ UnusedSpots # {}
        /\ IF Insertable(u, c) /\ IsSpot(s)
           THEN /\ spot' = [spot EXCEPT ![Min(UnusedSpots)] = copy]
                /\ flags' = IF copy.origin = u THEN flags ELSE Append(flags, FlagOf(copy))
                /\ Answers(i, "ok", Min(UnusedSpots))
                /\ UNCHANGED <<friends, met, collection, liked>>
           ELSE Refuses(i, "error")
    BY DEF RecollectSpot, At
  <1>2. CASE ~(Insertable(u, c) /\ IsSpot(s))
    BY <1>1, <1>2, Refused
  <1>3. CASE Insertable(u, c) /\ IsSpot(s)
    <2>1. u \in Users /\ c \in Collections /\ collection[c].owner = u
      BY <1>3 DEF LibraryInvariant, Under, IsTx, Insertable, IsCollection
    <2>2. /\ s \in Spots /\ spot[s].by \in Users /\ spot[s].by # Nobody
          /\ spot[s].place \in Places /\ spot[s].depth \in Nat
          /\ spot[s].origin \in Users \cup {Nobody}
      BY <1>0, <1>3, SpotFacts DEF IsSpot
    <2>3. spot[s].by # u /\ {u, spot[s].by} \in met
      BY <2>2 DEF LibraryInvariant, Under, Knows
    <2>4. (spot[s].depth = 0) = (spot[s].origin = Nobody)
      BY <1>0, <2>2 DEF SpotsHold, RowsFit
    <2>5. /\ copy \in [by : Users, col : Collections, place : Places, source : {0} \cup Spots,
                       origin : Users \cup {Nobody}, depth : Nat]
          /\ copy.by = u /\ copy.col = c /\ copy.source = s /\ copy.depth = spot[s].depth + 1
          /\ copy.origin = (IF spot[s].origin = Nobody THEN spot[s].by ELSE spot[s].origin)
      BY <2>1, <2>2 DEF CopyOf
    <2>6. copy.origin \in Users /\ copy.depth # 0 /\ copy.origin # Nobody
          /\ copy.origin \in {spot[s].by, spot[s].origin}
      BY <2>2, <2>5 DEF LibraryConstants
    <2>7. /\ spot' = [spot EXCEPT ![Min(UnusedSpots)] = copy]
          /\ flags' = IF copy.origin = u THEN flags ELSE Append(flags, FlagOf(copy))
          /\ Answers(i, "ok", Min(UnusedSpots))
          /\ UNCHANGED <<friends, met, collection, liked>>
      BY <1>1, <1>3
    <2> HIDE DEF copy
    <2>8. spot' \in [Spots -> SpotRecords] /\ SpotsHold' /\ Lasts
      <3>1. (copy.depth = 0) = (copy.origin = Nobody)
        BY <2>6
      <3> HIDE DEF u, s, c
      <3> QED BY <1>0, <1>1, <1>3, <2>1, <2>3, <2>5, <2>6, <2>7, <3>1, SpotAdded
    <2>9. flags' \in Seq([to : Users, actor : Users \cup {Nobody}]) /\ FlagsNameFriends'
      <3>1. CASE copy.origin = u
        BY <1>0, <2>7, <3>1 DEF Shaped, FlagsNameFriends
      <3>2. CASE copy.origin # u
        <4> DEFINE f == FlagOf(copy)
        <4>1. /\ f \in [to : Users, actor : Users \cup {Nobody}]
              /\ f.to = copy.origin /\ f.actor = IF copy.depth >= 2 THEN Nobody ELSE copy.by
          BY <2>1, <2>5, <2>6 DEF FlagOf
        <4>2. ASSUME f.actor # Nobody PROVE {f.actor, f.to} \in met
          <5>1. spot[s].depth = 0
            BY <4>1, <4>2, <2>2, <2>5
          <5>2. copy.origin = spot[s].by
            BY <5>1, <2>4, <2>5
          <5>3. f.actor = u /\ f.to = spot[s].by
            BY <4>1, <4>2, <5>2, <2>5
          <5> QED BY <5>3, <2>3
        <4>3. flags' = Append(flags, f) /\ met' = met
          BY <2>7, <3>2
        <4> HIDE DEF f
        <4> QED BY <1>0, <4>1, <4>2, <4>3, FlagRaised
      <3> QED BY <3>1, <3>2
    <2>10. Shaped'
      BY <1>0, <2>7, <2>8, <2>9 DEF Shaped
    <2>11. Under'
      BY <2>7, <2>8, Ended DEF LibraryInvariant
    <2> QED BY <2>8, <2>9, <2>10, <2>11 DEF LibraryInvariant, TablesFit, LibraryHolds
  <1> QED BY <1>2, <1>3

LEMMA RecollectKeeps ==
    ASSUME LibraryConstants, LibraryInvariant, NEW i \in TxIds, RecollectSpot(i)
    PROVE  LibraryInvariant'
  <1>0. Shaped /\ SpotsHold /\ Knows(tx[i], spot, met) /\ tx[i].op = "recollect"
    BY DEF LibraryInvariant, TablesFit, LibraryHolds, Under, RecollectSpot, At
  <1>1. CASE tx[i].at = "read"
    <2>1. CASE SpotVisible(tx[i].user, tx[i].spot) /\ spot[tx[i].spot].by # tx[i].user
      <3>1. {tx[i].user, spot[tx[i].spot].by} \in met
        BY <1>0, <2>1, VisibleIsFriends
      <3>2. GoesOn(i, "target", {})
        BY <1>1, <2>1 DEF RecollectSpot, At
      <3> QED BY <1>0, <1>1, <2>1, <3>1, <3>2, Continued
    <2>2. CASE ~(SpotVisible(tx[i].user, tx[i].spot) /\ spot[tx[i].spot].by # tx[i].user)
      BY <1>1, <2>2, Refused DEF RecollectSpot, At
    <2> QED BY <2>1, <2>2
  <1>2. CASE tx[i].at = "target"
    <2>1. Refuses(i, "forbidden") \/ GoesOn(i, "edge", {})
      BY <1>2 DEF RecollectSpot, At
    <2>2. \/ spot[tx[i].spot].by = Nobody
          \/ spot[tx[i].spot].by # tx[i].user /\ {tx[i].user, spot[tx[i].spot].by} \in met
      BY <1>0, <1>2 DEF Knows
    <2> QED BY <1>0, <1>2, <2>1, <2>2, Refused, Continued
  <1>3. CASE tx[i].at = "edge"
    <2>1. Refuses(i, "forbidden") \/ GoesOn(i, "write", {})
          \/ (Answers(i, "ok", Min(CopiesOf(tx[i].user, tx[i].spot))) /\ UNCHANGED tables)
      BY <1>3 DEF RecollectSpot, At
    <2>2. \/ spot[tx[i].spot].by = Nobody
          \/ spot[tx[i].spot].by # tx[i].user /\ {tx[i].user, spot[tx[i].spot].by} \in met
      BY <1>0, <1>3 DEF Knows
    <2>3. ASSUME Answers(i, "ok", Min(CopiesOf(tx[i].user, tx[i].spot))), UNCHANGED tables
          PROVE  LibraryInvariant'
      BY <2>3, Unmoved, Ended DEF LibraryInvariant
    <2> QED BY <1>0, <1>3, <2>1, <2>2, <2>3, Refused, Continued
  <1>4. CASE tx[i].at = "write"
    BY <1>0, <1>4, CopyMade
  <1> QED BY <1>1, <1>2, <1>3, <1>4 DEF RecollectSpot, At

LEMMA LikesKeep ==
    ASSUME LibraryConstants, LibraryInvariant, NEW i \in TxIds, LikeSpot(i) \/ UnlikeSpot(i)
    PROVE  LibraryInvariant'
  <1>0. Shaped /\ SpotsHold /\ IsTx(tx[i])
    BY DEF LibraryInvariant, TablesFit, LibraryHolds, Under
  <1> DEFINE pair == <<tx[i].user, tx[i].spot>>
  <1>1. CASE tx[i].at = "read"
    BY <1>1, Decided DEF LikeSpot, UnlikeSpot, At
  <1>2. CASE tx[i].at = "write"
    <2>1. \/ Refuses(i, "error")
          \/ /\ Answers(i, "ok", 0) /\ UNCHANGED <<friends, met, collection, spot, flags>>
             /\ \/ liked' = liked \cup {pair} /\ IsSpot(tx[i].spot)
                \/ liked' = liked \ {pair}
      BY <1>2 DEF LikeSpot, UnlikeSpot, At, SpotVisible
    <2>2. ASSUME Answers(i, "ok", 0), UNCHANGED <<friends, met, collection, spot, flags>>,
                 \/ liked' = liked \cup {pair} /\ IsSpot(tx[i].spot)
                 \/ liked' = liked \ {pair}
          PROVE  LibraryInvariant'
      <3>1. IsSpot(tx[i].spot) => pair \in Users \X Spots
        BY <1>0, <1>2 DEF IsTx, IsSpot
      <3>2. liked' \subseteq Users \X Spots
        BY <1>0, <2>2, <3>1 DEF Shaped
      <3>3. \A l \in liked' : IsSpot(l[2])'
        BY <1>0, <2>2 DEF SpotsHold, IsSpot
      <3>4. SpotsHold' /\ Lasts
        BY <1>0, <2>2, <3>3 DEF SpotsHold, RowsFit, Lasts
      <3> HIDE DEF pair
      <3> QED BY <1>0, <2>2, <3>2, <3>4, Written DEF Shaped
    <2> QED BY <2>1, <2>2, Refused
  <1> QED BY <1>1, <1>2 DEF LikeSpot, UnlikeSpot, At

-----------------------------------------------------------------------------
(* Collections.                                                            *)

\* Only collections change, and none changes hands.
LEMMA CollectionsWritten ==
    ASSUME LibraryInvariant, NEW i \in TxIds, NEW answer, NEW got, Answers(i, answer, got),
           collection' \in [Collections -> CollectionRecords],
           \A c \in Collections : collection[c].owner # Nobody =>
               collection'[c].owner = collection[c].owner,
           UNCHANGED <<friends, met, spot, liked, flags>>
    PROVE  LibraryInvariant'
  <1>1. Shaped /\ SpotsHold
    BY DEF LibraryInvariant, TablesFit, LibraryHolds
  <1>2. SpotsHold' /\ Lasts
    BY <1>1, CollectionsStay
  <1> QED BY <1>1, <1>2, Written DEF Shaped

LEMMA CollectionInserted ==
    ASSUME LibraryConstants, LibraryInvariant, NEW i \in TxIds, NEW order \in Nat,
           NEW visibility \in {"friends", "secret"}, tx[i].user \in Users,
           Inserted(i, order, visibility)
    PROVE  LibraryInvariant'
  <1> DEFINE n == Min(UnusedCollections)
             r == [owner |-> tx[i].user, visibility |-> visibility, order |-> order]
  <1>1. n \in Collections /\ collection[n] = Unused
    BY FreshCollection DEF Inserted
  <1>2. collection \in [Collections -> CollectionRecords] /\ r \in CollectionRecords
    BY DEF LibraryInvariant, TablesFit, Shaped, CollectionRecords
  <1>3. /\ collection' = [collection EXCEPT ![n] = r] /\ Answers(i, "ok", n)
        /\ UNCHANGED <<friends, met, spot, liked, flags>>
    BY DEF Inserted
  <1> HIDE DEF n, r
  <1>4. collection[n].owner = Nobody
    BY <1>1 DEF Unused
  <1>5. collection' \in [Collections -> CollectionRecords]
    BY <1>1, <1>2, <1>3
  <1>6. \A c \in Collections : collection[c].owner # Nobody =>
            collection'[c].owner = collection[c].owner
    BY <1>1, <1>2, <1>3, <1>4
  <1> QED BY <1>3, <1>5, <1>6, CollectionsWritten

LEMMA OwnedByFacts ==
    ASSUME LibraryConstants, Shaped, NEW u \in Users
    PROVE  /\ IsFiniteSet(OwnedBy(u)) /\ OwnedBy(u) \subseteq Collections
           /\ \A c \in OwnedBy(u) : collection[c].order \in Nat
  <1>1. OwnedBy(u) \subseteq Collections
    BY DEF OwnedBy
  <1>2. IsFiniteSet(Collections)
    <2>1. MaxCollections \in Int /\ 1 \in Int
      BY DEF LibraryConstants
    <2> QED BY <2>1, FS_Interval DEF Collections
  <1>3. IsFiniteSet(OwnedBy(u))
    BY <1>1, <1>2, FS_Subset
  <1>4. ASSUME NEW c \in OwnedBy(u) PROVE collection[c].order \in Nat
    <2>1. c \in Collections /\ collection[c].owner # Nobody
      BY DEF OwnedBy, LibraryConstants
    <2> QED BY <2>1, CollectionFacts
  <1> QED BY <1>1, <1>3, <1>4

LEMMA CreateCollectionKeeps ==
    ASSUME LibraryConstants, LibraryInvariant, NEW i \in TxIds, CreateCollection(i)
    PROVE  LibraryInvariant'
  <1>0. Shaped /\ IsTx(tx[i]) /\ tx[i].op = "create_collection" /\ tx[i].user \in Users
    BY DEF LibraryInvariant, TablesFit, Under, CreateCollection, At, IsTx
  <1>1. CASE tx[i].at = "read"
    <2> DEFINE held == {collection[c].order : c \in OwnedBy(tx[i].user)}
    <2>1. GoesOn(i, "write", held)
      BY <1>1 DEF CreateCollection, At
    <2>2. IsFiniteSet(held)
      <3> DEFINE f == [c \in OwnedBy(tx[i].user) |-> collection[c].order]
      <3>1. f \in Surjection(OwnedBy(tx[i].user), held)
        BY DEF Surjection
      <3> HIDE DEF f, held
      <3> QED BY <1>0, <3>1, OwnedByFacts, FS_Surjection
    <2>3. held \subseteq Nat
      BY <1>0, OwnedByFacts
    <2> HIDE DEF held
    <2> QED BY <1>0, <1>1, <2>1, <2>2, <2>3, Continued
  <1>2. CASE tx[i].at = "write"
    <2>1. Inserted(i, Max({-1} \cup tx[i].held) + 1, tx[i].arg)
      BY <1>2 DEF CreateCollection, At
    <2>2. Max({-1} \cup tx[i].held) + 1 \in Nat
      BY <1>0, <1>2, NextOrder DEF IsTx
    <2>3. tx[i].arg \in {"friends", "secret"}
      BY <1>0 DEF IsTx
    <2> QED BY <1>0, <2>1, <2>2, <2>3, CollectionInserted
  <1> QED BY <1>1, <1>2 DEF CreateCollection, At

LEMMA EnsureDefaultKeeps ==
    ASSUME LibraryConstants, LibraryInvariant, NEW i \in TxIds, EnsureDefaultCollection(i)
    PROVE  LibraryInvariant'
  <1>0. tx[i].op = "ensure_default" /\ tx[i].user \in Users
    BY DEF LibraryInvariant, Under, EnsureDefaultCollection, At, IsTx
  <1>1. CASE tx[i].at = "read"
    <2>1. Refuses(i, "ok") \/ GoesOn(i, "write", {})
      BY <1>1 DEF EnsureDefaultCollection, At
    <2> QED BY <1>0, <1>1, <2>1, Refused, Continued
  <1>2. CASE tx[i].at = "write"
    BY <1>0, <1>2, CollectionInserted DEF EnsureDefaultCollection, At
  <1> QED BY <1>1, <1>2 DEF EnsureDefaultCollection, At

LEMMA UpdateCollectionKeeps ==
    ASSUME LibraryConstants, LibraryInvariant, NEW i \in TxIds, UpdateCollection(i)
    PROVE  LibraryInvariant'
  <1>0. Shaped /\ IsTx(tx[i]) /\ tx[i].op = "update_collection"
    BY DEF LibraryInvariant, TablesFit, Under, UpdateCollection, At
  <1>1. CASE tx[i].at = "read"
    BY <1>0, <1>1, Decided DEF UpdateCollection, At
  <1>2. CASE tx[i].at = "write" /\ IsCollection(tx[i].col)
    <2> DEFINE c == tx[i].col
    <2>1. c \in Collections
      BY <1>2 DEF IsCollection
    <2>2. collection[c] \in [owner : Users, visibility : {"friends", "secret"}, order : Nat]
      BY <1>0, <1>2, <2>1, CollectionFacts DEF CollectionRecords
    <2>3. tx[i].arg \in {"friends", "secret"}
      BY <1>0 DEF IsTx
    <2>4. /\ collection' = [collection EXCEPT ![c].visibility = tx[i].arg] /\ Answers(i, "ok", c)
          /\ UNCHANGED <<friends, met, spot, liked, flags>>
      BY <1>2 DEF UpdateCollection, At
    <2>5. collection \in [Collections -> CollectionRecords]
      BY <1>0 DEF Shaped
    <2> DEFINE r == [collection[c] EXCEPT !.visibility = tx[i].arg]
    <2>6. r \in CollectionRecords /\ r.owner = collection[c].owner
      BY <2>2, <2>3 DEF CollectionRecords
    <2>7. collection' = [collection EXCEPT ![c] = r]
      BY <2>4
    <2> HIDE DEF c, r
    <2>8. collection' \in [Collections -> CollectionRecords]
      BY <2>1, <2>5, <2>6, <2>7
    <2>9. \A d \in Collections : collection'[d].owner = collection[d].owner
      BY <2>1, <2>5, <2>6, <2>7
    <2> QED BY <2>4, <2>8, <2>9, CollectionsWritten
  <1>3. CASE tx[i].at = "write" /\ ~IsCollection(tx[i].col)
    BY <1>3, Refused DEF UpdateCollection, At
  <1> QED BY <1>1, <1>2, <1>3 DEF UpdateCollection, At

LEMMA ReorderKeeps ==
    ASSUME LibraryConstants, LibraryInvariant, NEW i \in TxIds, ReorderCollections(i)
    PROVE  LibraryInvariant'
  <1> DEFINE wish == tx[i].arg
             Positions(c) == {n \in DOMAIN wish : wish[n] = c}
  <1>0. Shaped /\ IsTx(tx[i]) /\ tx[i].op = "reorder" /\ wish \in Seq(Collections)
    BY DEF LibraryInvariant, TablesFit, Under, ReorderCollections, At, IsTx
  <1>1. CASE tx[i].at = "read"
    <2>1. \/ Refuses(i, "not_found")
          \/ Reads(i, IF Len(wish) = Cardinality(OwnedBy(tx[i].user))
                         /\ ToSet(wish) \subseteq OwnedBy(tx[i].user)
                      THEN "ok" ELSE "forbidden")
      BY <1>1 DEF ReorderCollections, At
    <2> QED BY <1>0, <1>1, <2>1, Refused, Decided
  <1>2. CASE tx[i].at = "write" /\ \A c \in ToSet(wish) : IsCollection(c)
    <2>1. /\ collection' = [c \in Collections |-> IF c \in ToSet(wish)
                   THEN [collection[c] EXCEPT !.order = Max(Positions(c)) - 1] ELSE collection[c]]
          /\ Answers(i, "ok", 0) /\ UNCHANGED <<friends, met, spot, liked, flags>>
      BY <1>2 DEF ReorderCollections, At
    <2>2. ASSUME NEW c \in Collections, c \in ToSet(wish)
          PROVE  Max(Positions(c)) - 1 \in Nat
      <3>1. DOMAIN wish = 1 .. Len(wish) /\ Len(wish) \in Nat
        BY <1>0
      <3>2. Positions(c) \subseteq 1 .. Len(wish) /\ Positions(c) # {}
        BY <2>2, <3>1 DEF ToSet
      <3>3. IsFiniteSet(1 .. Len(wish))
        BY <3>1, FS_Interval
      <3> HIDE DEF Positions
      <3>4. IsFiniteSet(Positions(c)) /\ Positions(c) \subseteq Int
        BY <3>1, <3>2, <3>3, FS_Subset
      <3>5. Max(Positions(c)) \in 1 .. Len(wish)
        BY <3>2, <3>4, GreatestNumber
      <3> QED BY <3>1, <3>5
    <2>3. collection \in [Collections -> CollectionRecords]
      BY <1>0 DEF Shaped
    <2>4. ASSUME NEW c \in Collections
          PROVE  collection'[c] \in CollectionRecords /\ collection'[c].owner = collection[c].owner
      <3>1. CASE c \in ToSet(wish)
        <4> DEFINE o == Max(Positions(c)) - 1
        <4>1. o \in Nat
          BY <2>2, <3>1
        <4>2. collection'[c] = [collection[c] EXCEPT !.order = o]
          BY <2>1, <3>1
        <4>3. IsCollection(c)
          BY <1>2, <3>1
        <4>4. collection[c] \in [owner : Users, visibility : {"friends", "secret"}, order : Nat]
          BY <1>0, <4>3, CollectionFacts DEF CollectionRecords
        <4> HIDE DEF o
        <4> QED BY <4>1, <4>2, <4>4 DEF CollectionRecords
      <3>2. CASE c \notin ToSet(wish)
        BY <2>1, <2>3, <3>2
      <3> QED BY <3>1, <3>2
    <2>5. collection' = [c \in Collections |-> collection'[c]]
      BY <2>1
    <2>6. collection' \in [Collections -> CollectionRecords]
      BY <2>4, <2>5
    <2> QED BY <2>1, <2>4, <2>6, CollectionsWritten
  <1>3. CASE tx[i].at = "write" /\ ~(\A c \in ToSet(wish) : IsCollection(c))
    BY <1>3, Refused DEF ReorderCollections, At
  <1> QED BY <1>1, <1>2, <1>3 DEF ReorderCollections, At

LEMMA DeleteCollectionKeeps ==
    ASSUME LibraryConstants, LibraryInvariant, NEW i \in TxIds, DeleteCollection(i)
    PROVE  LibraryInvariant'
  <1> DEFINE c == tx[i].col
  <1>0. Shaped /\ SpotsHold /\ tx[i].op = "delete_collection"
    BY DEF LibraryInvariant, TablesFit, LibraryHolds, DeleteCollection, At
  <1>1. CASE tx[i].at = "read"
    BY <1>0, <1>1, Decided DEF DeleteCollection, At
  <1>2. CASE tx[i].at = "write" /\ ~IsCollection(c)
    BY <1>2, Refused DEF DeleteCollection, At
  <1>3. CASE tx[i].at = "write" /\ IsCollection(c)
    <2>1. /\ collection' = [collection EXCEPT ![c] = Deleted]
          /\ SpotsDeleted(SpotsIn(c)) /\ Answers(i, "ok", 0)
          /\ UNCHANGED <<friends, met, flags>>
      BY <1>3 DEF DeleteCollection, At
    <2> HIDE DEF c
    <2>2. collection \in [Collections -> CollectionRecords] /\ Deleted \in CollectionRecords
      BY <1>0 DEF Shaped, CollectionRecords
    <2>3. collection' \in [Collections -> CollectionRecords]
      BY <2>1, <2>2
    <2>4. ASSUME NEW s \in Spots \ SpotsIn(c), IsSpot(s)
          PROVE  collection'[spot[s].col].owner = collection[spot[s].col].owner
      BY <2>1, <2>2, <2>4 DEF SpotsIn
    <2>5. /\ spot' \in [Spots -> SpotRecords] /\ liked' \subseteq Users \X Spots
          /\ SpotsHold' /\ Lasts
      BY <1>0, <2>1, <2>4, SpotsGo
    <2> QED BY <2>1, <2>3, <2>5, Written
  <1> QED BY <1>1, <1>2, <1>3 DEF DeleteCollection, At

-----------------------------------------------------------------------------
(* Every step keeps the invariant.                                         *)

LEMMA CircleKeeps ==
    ASSUME LibraryInvariant, NEW u \in Users, NEW v \in Users \ {u}, CircleChanges(u, v)
    PROVE  LibraryInvariant'
  <1>1. Shaped /\ SpotsHold /\ FlagsNameFriends /\ Under
    BY DEF LibraryInvariant, TablesFit, LibraryHolds
  <1>2. UNCHANGED <<collection, spot, liked, flags, tx>>
    BY DEF CircleChanges
  <1>3. {u, v} \subseteq Users /\ Cardinality({u, v}) = 2
    <2>1. IsFiniteSet({u}) /\ Cardinality({u}) = 1
      BY FS_Singleton
    <2>2. Cardinality({u} \cup {v}) = 2
      BY <2>1, FS_AddElement
    <2>3. {u} \cup {v} = {u, v}
      OBVIOUS
    <2> QED BY <2>2, <2>3
  <1>4. friends' \subseteq friends \cup {{u, v}} /\ met' = met \cup friends'
    BY DEF CircleChanges
  <1>5. Lasts
    BY <1>2, <1>4 DEF Lasts
  <1>6. Shaped'
    <2>1. \A pair \in met' : pair \in met \/ pair = {u, v}
      BY <1>1, <1>4 DEF Shaped
    <2>2. \A pair \in met' : pair \subseteq Users /\ Cardinality(pair) = 2
      BY <1>1, <1>3, <2>1 DEF Shaped
    <2>3. friends' \subseteq met'
      BY <1>4
    <2> QED BY <1>1, <1>2, <2>2, <2>3 DEF Shaped
  <1>7. SpotsHold' /\ FlagsNameFriends'
    BY <1>1, <1>2, <1>5 DEF SpotsHold, RowsFit, IsSpot, FlagsNameFriends, Lasts
  <1>8. Under'
    BY <1>1, <1>2, <1>5, UnderStays
  <1> QED BY <1>6, <1>7, <1>8 DEF LibraryInvariant, TablesFit, LibraryHolds

LEMMA CallsKeep ==
    ASSUME LibraryConstants, LibraryInvariant, NEW u \in Users, AnyCall(u)
    PROVE  LibraryInvariant'
  <1>1. CASE PostOnboarding(u)
    BY <1>1, Begun DEF PostOnboarding
  <1>2. ASSUME NEW v \in {"friends", "secret"}, PostCollection(u, v) PROVE LibraryInvariant'
    BY <1>2, Begun DEF PostCollection
  <1>3. ASSUME NEW s \in KnownSpots,
               \/ PatchSpot(u, s) \/ DeleteSpotRoute(u, s) \/ DeleteRecollect(u, s)
               \/ PostLike(u, s) \/ DeleteLike(u, s)
        PROVE  LibraryInvariant'
    <2>1. \E op \in {"update_spot", "delete_spot", "unrecollect", "like", "unlike"} :
              Begins(u, op, s, 0, "")
      BY <1>3 DEF PatchSpot, DeleteSpotRoute, DeleteRecollect, PostLike, DeleteLike
    <2> QED BY <2>1, Begun
  <1>4. ASSUME NEW s \in KnownSpots, NEW c \in KnownCollections, PostRecollect(u, s, c)
        PROVE  LibraryInvariant'
    BY <1>4, Begun DEF PostRecollect
  <1>5. ASSUME NEW c \in KnownCollections, DeleteCollectionRoute(u, c) PROVE LibraryInvariant'
    BY <1>5, Begun DEF DeleteCollectionRoute
  <1>6. ASSUME NEW c \in KnownCollections, NEW p \in Places, PostSpot(u, c, p)
        PROVE  LibraryInvariant'
    BY <1>6, Begun DEF PostSpot
  <1>7. ASSUME NEW c \in KnownCollections, NEW v \in {"friends", "secret"},
               PatchCollection(u, c, v)
        PROVE  LibraryInvariant'
    BY <1>7, Begun DEF PatchCollection
  <1>8. ASSUME NEW wish \in SetToSeqs(OwnedBy(u)), PatchReorder(u, wish)
        PROVE  LibraryInvariant'
    <2>1. IsFiniteSet(OwnedBy(u)) /\ OwnedBy(u) \subseteq Collections
      BY OwnedByFacts DEF LibraryInvariant, TablesFit
    <2>2. Cardinality(OwnedBy(u)) \in Nat
      BY <2>1, FS_CardinalityType
    <2>3. wish \in [1 .. Cardinality(OwnedBy(u)) -> OwnedBy(u)]
      BY DEF SetToSeqs
    <2>4. wish \in Seq(Collections)
      BY <2>1, <2>2, <2>3
    <2> QED BY <1>8, <2>4, Begun DEF PatchReorder
  <1> QED BY <1>1, <1>2, <1>3, <1>4, <1>5, <1>6, <1>7, <1>8 DEF AnyCall

LEMMA StatementsKeep ==
    ASSUME LibraryConstants, LibraryInvariant, NEW i \in TxIds, Statement(i)
    PROVE  LibraryInvariant'
  BY CreateSpotKeeps, UpdateSpotKeeps, DeleteSpotKeeps, RecollectKeeps, UnrecollectKeeps,
     LikesKeep, CreateCollectionKeeps, EnsureDefaultKeeps, UpdateCollectionKeeps,
     ReorderKeeps, DeleteCollectionKeeps
  DEF Statement

LEMMA LibraryKeeps ==
    ASSUME LibraryConstants, LibraryInvariant, [LibraryNext]_libraryVars
    PROVE  LibraryInvariant'
  <1>1. CASE LibraryNext
    BY <1>1, StatementsKeep, CallsKeep, CircleKeeps DEF LibraryNext
  <1>2. CASE UNCHANGED libraryVars
    BY <1>2, Unmoved, UnderStays DEF libraryVars, tables, LibraryInvariant
  <1> QED BY <1>1, <1>2

LEMMA LibraryStarts == LibraryConstants /\ LibraryInit => LibraryInvariant
  <1> SUFFICES ASSUME LibraryConstants, LibraryInit PROVE LibraryInvariant
    OBVIOUS
  <1>1. Shaped
    <2>1. /\ collection \in [Collections -> CollectionRecords] /\ spot \in [Spots -> SpotRecords]
          /\ friends = met /\ liked = {} /\ flags = <<>>
          /\ \A pair \in met : pair \subseteq Users /\ Cardinality(pair) = 2
      BY DEF LibraryInit, LibraryConstants
    <2> QED BY <2>1 DEF Shaped
  <1>2. SpotsHold /\ FlagsNameFriends
    BY DEF LibraryInit, LibraryConstants, SpotsHold, FlagsNameFriends
  <1>3. Under
    <2>1. IsTx(NoTx) /\ NoTx.op = ""
      BY DEF IsTx, TxFields, NoTx
    <2>2. Knows(NoTx, spot, met)
      BY <2>1 DEF Knows
    <2>3. tx = [i \in TxIds |-> NoTx]
      BY DEF LibraryInit
    <2> HIDE DEF NoTx
    <2> QED BY <2>1, <2>2, <2>3 DEF Under
  <1> QED BY <1>1, <1>2, <1>3 DEF LibraryInvariant, TablesFit, LibraryHolds

LEMMA LibraryInvariantHolds == LibraryConstants => (LibrarySpec => []LibraryInvariant)
  <1> SUFFICES ASSUME LibraryConstants PROVE LibrarySpec => []LibraryInvariant
    OBVIOUS
  <1>1. LibraryInit => LibraryInvariant
    BY LibraryStarts
  <1>2. LibraryInvariant /\ [LibraryNext]_libraryVars => LibraryInvariant'
    BY LibraryKeeps
  <1> QED BY <1>1, <1>2, PTL DEF LibrarySpec

\* The values the tables of lib/dal and the transactions on them take, whatever
\* interleaves.
THEOREM LibraryTypes == LibraryConstants => (LibrarySpec => []LibraryTypeOK)
  <1> SUFFICES ASSUME LibraryConstants PROVE LibrarySpec => []LibraryTypeOK
    OBVIOUS
  <1>1. LibraryInvariant => LibraryTypeOK
    BY DEF LibraryInvariant, TablesFit, Shaped, Under, IsTx, LibraryTypeOK
  <1> QED BY <1>1, LibraryInvariantHolds, PTL

\* A spot stays in a collection of its author, a copy one step farther from the
\* same author than its source, a like on a spot, and a flag names nobody who was
\* never a friend of its receiver: although recollectSpot (lib/dal/spots.ts) reads
\* source, collection and friendship in statements of their own, and any of them
\* may be gone when it inserts the copy.
THEOREM HoldsTogether == LibraryConstants => (LibrarySpec => []LibraryHolds)
  <1> SUFFICES ASSUME LibraryConstants PROVE LibrarySpec => []LibraryHolds
    OBVIOUS
  <1>1. LibraryInvariant => LibraryHolds
    BY DEF LibraryInvariant, TablesFit
  <1> QED BY <1>1, LibraryInvariantHolds, PTL

-----------------------------------------------------------------------------
(* The save button (SaveSpot).                                             *)

ButtonRecords ==
    [spot : Saveable, saved : BOOLEAN, busy : BOOLEAN, flying : BOOLEAN, failed : BOOLEAN,
     picker : BOOLEAN, initial : BOOLEAN]
PickerRecords ==
    [loading : BOOLEAN, listed : SUBSET Collections, saving : BOOLEAN, creating : BOOLEAN]
FlightRecords ==
    [kind : Saves \cup {"list", "create"}, spot : Saveable, col : {0} \cup Collections,
     tx : {0} \cup TxIds, own : BOOLEAN]

ScreenTypes ==
    /\ host \in {"page", "card"} /\ button \in ButtonRecords /\ picker \in PickerRecords
    /\ snapshot \in [Saveable -> BOOLEAN] /\ last \in {0} \cup Collections
    /\ flights \subseteq FlightRecords /\ disturbed \in BOOLEAN

\* The spots that are shown are of others, and nobody here deletes them.
SourcesStay == \A s \in Saveable : IsSpot(s) /\ spot[s].by # Viewer

\* A transaction is one of the viewer's three, or none; one that removes copies holds
\* copies of its spot, and what was created is there to be saved to.
TxFits(c) ==
    \/ c.op = NoTx.op /\ c.at \in {"free", "over"}
    \/ /\ c.op \in {"recollect", "unrecollect", "create_collection"}
       /\ c.user = Viewer /\ c.at \notin {"free", "over"}
       /\ c.op # "create_collection" => c.spot \in Saveable
       /\ c.op = "create_collection" /\ c.at = "answered" => c.got \in Collections
       /\ c.op = "unrecollect" /\ c.at = "answered" => c.answer = "ok"
       /\ c.op = "unrecollect" /\ c.at = "write" =>
             \A t \in c.held :
                 /\ t \in Spots /\ spot[t] # NoSpot
                 /\ IsSpot(t) => spot[t].by = Viewer /\ spot[t].source = c.spot
TxsFit == \A i \in TxIds : TxFits(tx[i])

\* A request is served by a transaction of its own.
OpOf(kind) ==
    IF kind = "unsave" THEN "unrecollect"
    ELSE IF kind = "create" THEN "create_collection" ELSE "recollect"
FlightFits(f) ==
    f.kind # "list" =>
        /\ f.tx \in TxIds /\ tx[f.tx].op = OpOf(f.kind)
        /\ f.kind \in Saves => tx[f.tx].spot = f.spot
        /\ f.kind \in {"save", "pick"} => f.col \in Collections
FlightsFit ==
    /\ \A f \in flights : FlightFits(f)
    /\ \A f, g \in flights : f.kind # "list" /\ g.kind # "list" /\ f.tx = g.tx => f = g

\* Unless it is disturbed.  Of a spot one request is under way, and the browser awaits it;
OneFlight == \A f, g \in Awaited(Saves) : f.spot = g.spot => f = g
Heeded ==
    \A i \in TxIds : tx[i].op \in {"recollect", "unrecollect"} =>
        \E f \in Awaited(Saves) : f.tx = i

\* a copy is inserted only if there is none, and is there when the answer says so;
CopyFits(c) ==
    c.op = "recollect" =>
        /\ c.at = "write" => CopiesOf(Viewer, c.spot) = {}
        /\ c.at = "answered" /\ c.answer = "ok" => SavedByMe(Viewer, c.spot)
CopiesFit == \A i \in TxIds : CopyFits(tx[i])
OneCopy ==
    \A s, t \in Spots :
        /\ spot[s].source # 0 /\ spot[s].source = spot[t].source
        /\ spot[s].by # Nobody /\ spot[s].by = spot[t].by
        => s = t

\* what is shown as saved has a copy, or a request that removes it is awaited; and a card
\* shows what its feed was told, while a page awaits the picker of its own spot only.
SavedOrGoing(s) == SavedByMe(Viewer, s) \/ \E f \in flights : f.kind = "unsave" /\ f.spot = s
ShownIsSaved ==
    /\ button.saved => SavedOrGoing(button.spot)
    /\ \A s \in Saveable : snapshot[s] => SavedOrGoing(s)
HostFits ==
    /\ button.initial <=> snapshot[button.spot]
    /\ host = "card" => /\ button.saved <=> button.initial
                        /\ \A f \in flights : f.spot = button.spot
    /\ host = "page" =>
          /\ \A s \in Saveable : ~snapshot[s]
          /\ \A f \in flights : f.own /\ (f.kind \in {"pick", "create"} => f.spot = button.spot)

RowsOfSaves == SourcesStay /\ TxsFit
Undisturbed == OneFlight /\ Heeded /\ CopiesFit /\ OneCopy /\ ShownIsSaved /\ HostFits
SaveInvariant ==
    /\ LibraryInvariant /\ ScreenTypes /\ RowsOfSaves /\ FlightsFit
    /\ ~disturbed => Undisturbed

LEMMA SaveFacts ==
    ASSUME SaveConstants
    PROVE  /\ LibraryConstants /\ Viewer \in Users /\ Viewer \in Watchers /\ Viewer # Nobody
           /\ Saveable \subseteq Spots /\ Saveable # {} /\ Spots \subseteq Nat /\ 0 \notin Spots
           /\ Collections \subseteq Nat /\ 0 \notin Collections
           /\ TxIds \subseteq Nat /\ 0 \notin TxIds
  BY DEF SaveConstants, LibraryConstants, Spots, Collections, TxIds

LEMMA NoTxFits ==
    /\ NoTx.op \notin {"recollect", "unrecollect", "create_collection"}
    /\ NoTx.at = "free" /\ Over.op = NoTx.op /\ Over.at = "over"
  BY DEF NoTx, Over

LEMMA SaveStarts == SaveConstants /\ Init => SaveInvariant
  <1> SUFFICES ASSUME SaveConstants, Init PROVE SaveInvariant
    OBVIOUS
  <1>0. LibraryInit /\ flights = {}
    BY DEF Init
  <1>1. LibraryInvariant
    BY <1>0, SaveFacts, LibraryStarts
  <1>2. Min(Saveable) \in Saveable
    BY SaveFacts, LeastNatural
  <1>3. ScreenTypes
    <2>1. OwnedBy(Viewer) \subseteq Collections
      BY DEF OwnedBy
    <2>2. Button(Min(Saveable), FALSE) \in ButtonRecords
      BY <1>2 DEF Button, ButtonRecords
    <2>3. ClosedPicker \in PickerRecords
      BY DEF ClosedPicker, PickerRecords
    <2> QED BY <2>1, <2>2, <2>3 DEF Init, ScreenTypes
  <1>4. SourcesStay /\ OneCopy
    BY <1>0 DEF LibraryInit, SaveConstants, SourcesStay, OneCopy, IsSpot
  <1>5. \A i \in TxIds : tx[i].op = NoTx.op /\ tx[i].at = "free"
    BY <1>0, NoTxFits DEF LibraryInit
  <1>6. TxsFit /\ CopiesFit /\ Heeded
    BY <1>5, NoTxFits DEF TxsFit, TxFits, CopiesFit, CopyFits, Heeded
  <1>7. FlightsFit /\ OneFlight
    BY <1>0 DEF FlightsFit, OneFlight, Awaited
  <1>8. ShownIsSaved /\ HostFits
    BY <1>0, <1>2 DEF Init, Button, ShownIsSaved, HostFits
  <1> QED BY <1>1, <1>3, <1>4, <1>6, <1>7, <1>8 DEF SaveInvariant, RowsOfSaves, Undisturbed

-----------------------------------------------------------------------------
(* Steps of the screen alone.                                              *)

\* Nothing is asked of the server, and but for loads of the picker the same is awaited.
Loads(s) == {f \in FlightRecords : f.kind = "list" /\ f.spot = s /\ f.own}
SameAwaited ==
    /\ \A f \in flights : f.kind # "list" => f \in flights'
    /\ \A f \in flights' : f \in flights \/ f \in Loads(button'.spot)

LEMMA RowsStill ==
    ASSUME SaveInvariant, UNCHANGED libraryVars
    PROVE  /\ LibraryInvariant' /\ RowsOfSaves'
           /\ CopiesFit => CopiesFit'
           /\ OneCopy => OneCopy'
           /\ \A s \in Saveable : SavedByMe(Viewer, s)' <=> SavedByMe(Viewer, s)
  <1>1. UNCHANGED <<tables, tx, spot>>
    BY DEF libraryVars, tables
  <1>2. LibraryInvariant'
    BY <1>1, Unmoved, UnderStays DEF SaveInvariant, LibraryInvariant
  <1>3. RowsOfSaves'
    BY <1>1 DEF SaveInvariant, RowsOfSaves, SourcesStay, TxsFit, TxFits, IsSpot
  <1>4. \A s : CopiesOf(Viewer, s)' = CopiesOf(Viewer, s)
    BY <1>1 DEF CopiesOf
  <1>5. \A s : SavedByMe(Viewer, s)' <=> SavedByMe(Viewer, s)
    BY <1>4 DEF SavedByMe
  <1>6. CopiesFit => CopiesFit'
    BY <1>1, <1>4, <1>5 DEF CopiesFit, CopyFits
  <1> QED BY <1>1, <1>2, <1>3, <1>5, <1>6 DEF OneCopy

LEMMA AwaitedStill ==
    ASSUME SaveInvariant, UNCHANGED tx, SameAwaited
    PROVE  /\ FlightsFit'
           /\ OneFlight => OneFlight'
           /\ Heeded => Heeded'
           /\ \A s \in Saveable :
                 SavedOrGoing(s) /\ (SavedByMe(Viewer, s) => SavedByMe(Viewer, s)') => SavedOrGoing(s)'
  <1>1. \A f \in flights' : f.kind # "list" => f \in flights
    BY DEF SameAwaited, Loads
  <1>2. \A f \in flights : f.kind # "list" => f \in flights'
    BY DEF SameAwaited
  <1>3. FlightsFit
    BY DEF SaveInvariant
  <1>4. \A f \in flights' : FlightFits(f)'
    BY <1>1, <1>3 DEF FlightsFit, FlightFits
  <1>5. \A f, g \in flights' : f.kind # "list" /\ g.kind # "list" /\ f.tx = g.tx => f = g
    BY <1>1, <1>3 DEF FlightsFit
  <1>6. Awaited(Saves)' = Awaited(Saves)
    BY <1>1, <1>2 DEF Awaited, Saves
  <1>7. \A f : f.kind = "unsave" /\ f \in flights => f \in flights'
    BY <1>2
  <1>8. FlightsFit'
    BY <1>4, <1>5 DEF FlightsFit
  <1>9. OneFlight => OneFlight'
    BY <1>6 DEF OneFlight
  <1>10. Heeded => Heeded'
    BY <1>6 DEF Heeded
  <1> QED BY <1>7, <1>8, <1>9, <1>10 DEF SavedOrGoing

\* A step that shows the same of the same spot.
LEMMA QuietKeeps ==
    ASSUME SaveInvariant, UNCHANGED <<libraryVars, host, snapshot, last, disturbed>>,
           SameAwaited, flights' \subseteq FlightRecords, picker' \in PickerRecords,
           button' \in ButtonRecords, button'.spot = button.spot,
           button'.saved = button.saved, button'.initial = button.initial
    PROVE  SaveInvariant'
  <1>1. ScreenTypes'
    BY DEF SaveInvariant, ScreenTypes
  <1>2. LibraryInvariant' /\ RowsOfSaves' /\ FlightsFit'
    BY RowsStill, AwaitedStill DEF libraryVars
  <1>3. ASSUME ~disturbed' PROVE Undisturbed'
    <2>1. Undisturbed /\ button.spot \in Saveable
      BY <1>3 DEF SaveInvariant, ScreenTypes, ButtonRecords
    <2>2. OneFlight' /\ Heeded' /\ CopiesFit' /\ OneCopy'
      BY <2>1, RowsStill, AwaitedStill DEF Undisturbed, libraryVars
    <2>3. \A s \in Saveable : SavedOrGoing(s) => SavedOrGoing(s)'
      BY RowsStill, AwaitedStill DEF libraryVars
    <2>4. ShownIsSaved'
      BY <2>1, <2>3 DEF Undisturbed, ShownIsSaved
    <2>5. \A f \in flights' : f \in flights \/ (f.spot = button.spot /\ f.own /\ f.kind = "list")
      BY DEF SameAwaited, Loads
    <2>6. HostFits'
      BY <2>1, <2>5 DEF Undisturbed, HostFits
    <2> QED BY <2>2, <2>4, <2>6 DEF Undisturbed
  <1> QED BY <1>1, <1>2, <1>3 DEF SaveInvariant

LEMMA LoadIsFlight ==
    ASSUME SaveConstants, NEW s \in Saveable
    PROVE  Flight("list", s, 0, 0) \in Loads(s)
  BY DEF Flight, Loads, FlightRecords

\* The picker opens, unless it is open.
LEMMA OpeningKeeps ==
    ASSUME SaveConstants, SaveInvariant, Opens(button, picker),
           UNCHANGED <<libraryVars, host, snapshot, last, disturbed>>
    PROVE  SaveInvariant'
  <1>1. button \in ButtonRecords /\ picker \in PickerRecords /\ flights \subseteq FlightRecords
    BY DEF SaveInvariant, ScreenTypes
  <1>2. button' = [button EXCEPT !.picker = TRUE, !.failed = FALSE]
    BY DEF Opens
  <1>3. /\ button' \in ButtonRecords /\ button'.spot = button.spot
        /\ button'.saved = button.saved /\ button'.initial = button.initial
        /\ button.spot \in Saveable
    BY <1>1, <1>2 DEF ButtonRecords
  <1>4. CASE button.picker
    <2>1. picker' = picker /\ flights' = flights
      BY <1>4 DEF Opens
    <2>2. SameAwaited
      BY <2>1 DEF SameAwaited
    <2> QED BY <1>1, <1>3, <2>1, <2>2, QuietKeeps
  <1>5. CASE ~button.picker
    <2> DEFINE load == Flight("list", button.spot, 0, 0)
    <2>1. picker' = [picker EXCEPT !.loading = TRUE] /\ flights' = flights \cup {load}
      BY <1>5 DEF Opens
    <2>2. load \in Loads(button.spot)
      BY <1>3, LoadIsFlight
    <2>3. picker' \in PickerRecords
      BY <1>1, <2>1 DEF PickerRecords
    <2> HIDE DEF load
    <2>4. SameAwaited /\ flights' \subseteq FlightRecords
      BY <1>1, <1>3, <2>1, <2>2 DEF SameAwaited, Loads
    <2> QED BY <1>3, <2>3, <2>4, QuietKeeps
  <1> QED BY <1>4, <1>5

LEMMA PickerKeeps ==
    ASSUME SaveConstants, SaveInvariant,
           OpenPicker \/ ClosePicker \/ \E f \in flights : ListArrives(f)
    PROVE  SaveInvariant'
  <1>1. button \in ButtonRecords /\ picker \in PickerRecords /\ flights \subseteq FlightRecords
    BY DEF SaveInvariant, ScreenTypes
  <1>2. CASE OpenPicker
    BY <1>2, OpeningKeeps DEF OpenPicker
  <1>3. CASE ClosePicker
    <2>1. button' = [button EXCEPT !.picker = FALSE] /\ picker' = [picker EXCEPT !.loading = FALSE]
          /\ flights' = Cancelled(flights)
      BY <1>3 DEF ClosePicker
    <2>2. /\ button' \in ButtonRecords /\ button'.spot = button.spot
          /\ button'.saved = button.saved /\ button'.initial = button.initial
      BY <1>1, <2>1 DEF ButtonRecords
    <2>3. picker' \in PickerRecords
      BY <1>1, <2>1 DEF PickerRecords
    <2>4. SameAwaited /\ flights' \subseteq FlightRecords
      BY <1>1, <2>1 DEF Cancelled, SameAwaited
    <2> QED BY <1>3, <2>2, <2>3, <2>4, QuietKeeps DEF ClosePicker
  <1>4. ASSUME NEW f \in flights, ListArrives(f) PROVE SaveInvariant'
    <2>1. f.kind = "list" /\ flights' = flights \ {f} /\ UNCHANGED button
          /\ picker' = [picker EXCEPT !.loading = FALSE, !.listed = OwnedBy(Viewer)]
      BY <1>4 DEF ListArrives
    <2>2. OwnedBy(Viewer) \subseteq Collections
      BY DEF OwnedBy
    <2>3. picker' \in PickerRecords
      BY <1>1, <2>1, <2>2 DEF PickerRecords
    <2>4. SameAwaited /\ flights' \subseteq FlightRecords
      BY <1>1, <2>1 DEF SameAwaited
    <2> QED BY <1>1, <1>4, <2>1, <2>3, <2>4, QuietKeeps DEF ListArrives
  <1> QED BY <1>2, <1>3, <1>4


-----------------------------------------------------------------------------
(* Requests that are sent.                                                 *)

\* A transaction that is free becomes the viewer's; no flight has it yet.
LEMMA BegunTx ==
    ASSUME SaveConstants, SaveInvariant, NEW op, NEW s, NEW c, NEW arg,
           Begins(Viewer, op, s, c, arg)
    PROVE  /\ NextTx \in TxIds /\ tx[NextTx].op = NoTx.op /\ UNCHANGED tables
           /\ tx'[NextTx].op = op /\ tx'[NextTx].user = Viewer
           /\ tx'[NextTx].spot = s /\ tx'[NextTx].at = "read"
           /\ \A i \in TxIds : i # NextTx => tx'[i] = tx[i]
           /\ \A f \in flights : f.kind # "list" => f.tx # NextTx
  <1> DEFINE d == [NoTx EXCEPT !.user = Viewer, !.op = op, !.spot = s, !.col = c, !.arg = arg,
                               !.at = "read"]
  <1>1. NextTx \in TxIds /\ tx[NextTx].at = "free"
    <2>1. FreeTx \subseteq Nat /\ FreeTx \subseteq TxIds /\ FreeTx # {}
      BY SaveFacts DEF FreeTx, Begins
    <2>2. NextTx \in FreeTx
      BY <2>1, LeastNatural DEF NextTx
    <2> QED BY <2>1, <2>2 DEF FreeTx
  <1>2. tx[NextTx].op = NoTx.op
    BY <1>1, NoTxFits DEF SaveInvariant, RowsOfSaves, TxsFit, TxFits
  <1>3. tx' = [tx EXCEPT ![NextTx] = d] /\ UNCHANGED tables
    BY DEF Begins
  <1>4. d.op = op /\ d.user = Viewer /\ d.spot = s /\ d.at = "read"
    BY DEF NoTx
  <1> HIDE DEF d
  <1>5. DOMAIN tx = TxIds
    <2>1. tx = [i \in TxIds |-> tx[i]]
      BY DEF SaveInvariant, LibraryInvariant, Under
    <2> QED BY <2>1
  <1>6. tx'[NextTx] = d /\ \A i \in TxIds : i # NextTx => tx'[i] = tx[i]
    BY <1>1, <1>3, <1>5
  <1>7. \A f \in flights : f.kind # "list" => f.tx # NextTx
    <2> SUFFICES ASSUME NEW f \in flights, f.kind # "list", f.tx = NextTx PROVE FALSE
      OBVIOUS
    <2>1. tx[f.tx].op = OpOf(f.kind)
      BY DEF SaveInvariant, FlightsFit, FlightFits
    <2> QED BY <1>2, <2>1, NoTxFits DEF OpOf
  <1> QED BY <1>1, <1>2, <1>3, <1>4, <1>6, <1>7

\* A request of the spot that is shown is sent; the one to create a collection may be
\* over by that.
Asked(nf, col, arg, gone) ==
    /\ nf \in FlightRecords /\ nf.kind \in Saves \cup {"create"} /\ nf.tx = NextTx
    /\ nf.kind \in {"save", "pick"} => nf.col \in Collections
    /\ nf.kind = "create" => arg = "friends"
    /\ Begins(Viewer, OpOf(nf.kind), IF nf.kind = "create" THEN 0 ELSE nf.spot, col, arg)
    /\ disturbed' = (disturbed \/ (nf.kind \in Saves /\ Overlaps(nf.spot)))
    /\ HostFits => nf.spot = button.spot /\ (host = "page" => nf.own)
    /\ (\A f \in gone : f.kind = "create") /\ flights' = (flights \ gone) \cup {nf}

LEMMA RequestKeeps ==
    ASSUME SaveConstants, SaveInvariant, NEW nf, NEW col, NEW arg, NEW gone,
           Asked(nf, col, arg, gone),
           UNCHANGED <<host, snapshot, last>>, picker' \in PickerRecords,
           button' \in ButtonRecords, button'.spot = button.spot,
           button'.saved = button.saved, button'.initial = button.initial
    PROVE  SaveInvariant'
  <1> USE DEF Asked
  <1> DEFINE op == OpOf(nf.kind)
             s == IF nf.kind = "create" THEN 0 ELSE nf.spot
  <1>0. ScreenTypes /\ RowsOfSaves /\ FlightsFit /\ LibraryInvariant /\ nf.spot \in Saveable
    BY DEF SaveInvariant, FlightRecords
  <1>1. /\ NextTx \in TxIds /\ tx[NextTx].op = NoTx.op /\ UNCHANGED tables
        /\ tx'[NextTx].op = op /\ tx'[NextTx].user = Viewer
        /\ tx'[NextTx].spot = s /\ tx'[NextTx].at = "read"
        /\ \A i \in TxIds : i # NextTx => tx'[i] = tx[i]
        /\ \A f \in flights : f.kind # "list" => f.tx # NextTx
    BY BegunTx
  <1>a. /\ nf.kind \in Saves => s = nf.spot
        /\ op # "create_collection" => s \in Saveable
        /\ op \in {"recollect", "unrecollect", "create_collection"}
        /\ op \in {"recollect", "unrecollect"} => nf.kind \in Saves
        /\ op = OpOf(nf.kind)
    BY <1>0 DEF OpOf, Saves
  <1>b. Begins(Viewer, op, s, col, arg) /\ (op = "create_collection" => arg = "friends")
    BY DEF OpOf, Saves
  <1> HIDE DEF op, s
  <1>2. LibraryInvariant'
    <2>1. nf.spot \in KnownSpots
      BY <1>0, SaveFacts DEF RowsOfSaves, SourcesStay, IsSpot, KnownSpots, UnusedSpots, NoSpot
    <2>2. op = "recollect" => s \in KnownSpots
      BY <1>a, <2>1
    <2> QED BY <1>0, <1>a, <1>b, <2>2, SaveFacts, Begun
  <1>3. ScreenTypes'
    BY <1>0 DEF ScreenTypes
  <1>4. UNCHANGED spot
    BY <1>1 DEF tables
  <1>5. RowsOfSaves'
    <2>1. SourcesStay'
      BY <1>0, <1>4 DEF RowsOfSaves, SourcesStay, IsSpot
    <2>2. ASSUME NEW i \in TxIds PROVE TxFits(tx[i])'
      <3>1. CASE i = NextTx
        BY <1>1, <1>a, <3>1 DEF TxFits
      <3>2. CASE i # NextTx
        <4>1. tx'[i] = tx[i] /\ TxFits(tx[i])
          BY <1>0, <1>1, <3>2 DEF RowsOfSaves, TxsFit
        <4> QED BY <1>4, <4>1 DEF TxFits, IsSpot
      <3> QED BY <3>1, <3>2
    <2> QED BY <2>1, <2>2 DEF RowsOfSaves, TxsFit
  <1>6. \A f \in flights' : f = nf \/ (f \in flights /\ f \notin gone)
    OBVIOUS
  <1>7. FlightsFit'
    <2>1. ASSUME NEW f \in flights' PROVE FlightFits(f)'
      <3>1. CASE f = nf
        <4>1. tx'[nf.tx].op = OpOf(nf.kind) /\ tx'[nf.tx].spot = s /\ nf.tx \in TxIds
          BY <1>1, <1>a
        <4> QED BY <1>a, <3>1, <4>1 DEF FlightFits
      <3>2. CASE f \in flights
        <4>1. f.kind # "list" => FlightFits(f) /\ f.tx \in TxIds /\ tx'[f.tx] = tx[f.tx]
          BY <1>0, <1>1, <3>2 DEF FlightsFit, FlightFits
        <4> QED BY <4>1 DEF FlightFits
      <3> QED BY <1>6, <2>1, <3>1, <3>2
    <2>2. ASSUME NEW f \in flights', NEW g \in flights', f.kind # "list", g.kind # "list",
                 f.tx = g.tx
          PROVE  f = g
      BY <1>0, <1>1, <1>6, <2>2 DEF FlightsFit
    <2> QED BY <2>1, <2>2 DEF FlightsFit
  <1>8. ASSUME ~disturbed' PROVE Undisturbed'
    <2>1. Undisturbed /\ (nf.kind \in Saves => ~Overlaps(nf.spot))
      BY <1>8 DEF SaveInvariant
    <2>2. OneFlight'
      <3> SUFFICES ASSUME NEW f \in flights', NEW g \in flights', f.kind \in Saves,
                          g.kind \in Saves, f.spot = g.spot
                   PROVE  f = g
        BY DEF OneFlight, Awaited
      <3>1. \A h \in flights : h.kind \in Saves => (nf.kind \in Saves => h.spot # nf.spot)
        BY <2>1 DEF Overlaps, Awaited
      <3> QED BY <1>6, <2>1, <3>1 DEF Undisturbed, OneFlight, Awaited
    <2>3. Heeded'
      <3> SUFFICES ASSUME NEW i \in TxIds, tx'[i].op \in {"recollect", "unrecollect"}
                   PROVE  \E f \in flights' : f.kind \in Saves /\ f.tx = i
        BY DEF Heeded, Awaited
      <3>1. CASE i = NextTx
        BY <1>1, <1>a, <3>1
      <3>2. CASE i # NextTx
        <4>1. PICK f \in flights : f.kind \in Saves /\ f.tx = i
          BY <1>1, <2>1, <3>2 DEF Undisturbed, Heeded, Awaited
        <4> QED BY <4>1 DEF Saves
      <3> QED BY <3>1, <3>2
    <2>4. \A t : CopiesOf(Viewer, t)' = CopiesOf(Viewer, t)
      BY <1>4 DEF CopiesOf
    <2>5. CopiesFit' /\ OneCopy'
      <3>1. OneCopy'
        BY <1>4, <2>1 DEF Undisturbed, OneCopy
      <3>2. ASSUME NEW i \in TxIds PROVE CopyFits(tx[i])'
        <4>1. CASE i = NextTx
          BY <1>1, <4>1 DEF CopyFits
        <4>2. CASE i # NextTx
          <5>1. tx'[i] = tx[i] /\ CopyFits(tx[i])
            BY <1>1, <2>1, <4>2 DEF Undisturbed, CopiesFit
          <5> QED BY <2>4, <5>1 DEF CopyFits, SavedByMe
        <4> QED BY <4>1, <4>2
      <3> QED BY <3>1, <3>2 DEF CopiesFit
    <2>6. \A t : SavedOrGoing(t) => SavedOrGoing(t)'
      <3>1. \A f \in flights : f.kind = "unsave" => f \in flights'
        OBVIOUS
      <3> QED BY <2>4, <3>1 DEF SavedOrGoing, SavedByMe
    <2>7. ShownIsSaved'
      BY <2>1, <2>6 DEF Undisturbed, ShownIsSaved
    <2>8. HostFits'
      <3>1. HostFits /\ nf.spot = button.spot /\ (host = "page" => nf.own)
        BY <2>1 DEF Undisturbed
      <3> QED BY <1>6, <3>1 DEF HostFits
    <2> QED BY <2>2, <2>3, <2>5, <2>7, <2>8 DEF Undisturbed
  <1> QED BY <1>2, <1>3, <1>5, <1>7, <1>8 DEF SaveInvariant

LEMMA FlightTyped ==
    ASSUME SaveConstants, NEW kind \in Saves \cup {"list", "create"}, NEW s \in Saveable,
           NEW c \in {0} \cup Collections, NEW i \in TxIds, NEW f, f = Flight(kind, s, c, i)
    PROVE  f \in FlightRecords /\ f.kind = kind /\ f.spot = s /\ f.col = c /\ f.tx = i /\ f.own
  BY DEF Flight, FlightRecords

LEMMA FlightOwned ==
    ASSUME NEW f \in FlightRecords, NEW own \in BOOLEAN, NEW g, g = [f EXCEPT !.own = own]
    PROVE  /\ g \in FlightRecords /\ g.kind = f.kind /\ g.spot = f.spot /\ g.col = f.col
           /\ g.tx = f.tx /\ g.own = own
  BY DEF FlightRecords

LEMMA TapKeeps ==
    ASSUME SaveConstants, SaveInvariant, Tap PROVE SaveInvariant'
  <1>1. button \in ButtonRecords /\ picker \in PickerRecords /\ last \in {0} \cup Collections
    BY DEF SaveInvariant, ScreenTypes
  <1>2. CASE QuickSave = "pick"
    BY <1>2, OpeningKeeps DEF Tap
  <1>3. CASE QuickSave # "pick"
    <2>0. PICK nf : nf = Flight(QuickSave, button.spot, last, NextTx)
      OBVIOUS
    <2>a. PICK blank : blank = ""
      OBVIOUS
    <2>1. /\ Requests(QuickSave, button.spot, last) /\ flights' = (flights \ {}) \cup {nf}
          /\ button' = [button EXCEPT !.busy = TRUE, !.flying = TRUE, !.failed = FALSE]
          /\ UNCHANGED <<picker, host, snapshot, last>>
      BY <1>3, <2>0 DEF Tap
    <2>2. /\ button' \in ButtonRecords /\ button'.spot = button.spot
          /\ button'.saved = button.saved /\ button'.initial = button.initial
          /\ button.spot \in Saveable
      BY <1>1, <2>1 DEF ButtonRecords
    <2>3. QuickSave \in {"save", "unsave"} /\ (QuickSave = "save" => last \in Collections)
      BY <1>1, <1>3 DEF QuickSave
    <2>4. CASE QuickSave = "unsave"
      <3>1. Begins(Viewer, OpOf("unsave"), button.spot, 0, blank)
            /\ disturbed' = (disturbed \/ Overlaps(button.spot))
        BY <2>1, <2>a, <2>4 DEF Requests, DeleteRecollect, OpOf
      <3>2. NextTx \in TxIds
        BY <3>1, BegunTx
      <3>3. nf \in FlightRecords /\ nf.kind = "unsave" /\ nf.spot = button.spot /\ nf.tx = NextTx
            /\ nf.own
        BY <1>1, <2>0, <2>2, <2>4, <3>2, FlightTyped DEF Saves
      <3>4. /\ Begins(Viewer, OpOf(nf.kind), IF nf.kind = "create" THEN 0 ELSE nf.spot, 0, blank)
            /\ disturbed' = (disturbed \/ (nf.kind \in Saves /\ Overlaps(nf.spot)))
            /\ nf.kind \in Saves \cup {"create"} /\ nf.kind \notin {"save", "pick", "create"}
        BY <3>1, <3>3 DEF Saves
      <3>5. Asked(nf, 0, blank, {})
        BY <2>1, <3>3, <3>4 DEF Asked
      <3> QED BY <1>1, <2>1, <2>2, <3>5, RequestKeeps
    <2>5. CASE QuickSave = "save"
      <3>1. Begins(Viewer, OpOf("save"), button.spot, last, blank)
            /\ disturbed' = (disturbed \/ Overlaps(button.spot))
        BY <2>1, <2>a, <2>5 DEF Requests, PostRecollect, OpOf
      <3>2. NextTx \in TxIds
        BY <3>1, BegunTx
      <3>3. nf \in FlightRecords /\ nf.kind = "save" /\ nf.spot = button.spot /\ nf.tx = NextTx
            /\ nf.own /\ nf.col = last
        BY <1>1, <2>0, <2>2, <2>5, <3>2, FlightTyped DEF Saves
      <3>4. /\ Begins(Viewer, OpOf(nf.kind), IF nf.kind = "create" THEN 0 ELSE nf.spot, last, blank)
            /\ disturbed' = (disturbed \/ (nf.kind \in Saves /\ Overlaps(nf.spot)))
            /\ nf.kind \in Saves \cup {"create"} /\ nf.kind # "create" /\ nf.col \in Collections
        BY <2>3, <2>5, <3>1, <3>3 DEF Saves
      <3>5. Asked(nf, last, blank, {})
        BY <2>1, <3>3, <3>4 DEF Asked
      <3> QED BY <1>1, <2>1, <2>2, <3>5, RequestKeeps
    <2> QED BY <2>3, <2>4, <2>5
  <1> QED BY <1>2, <1>3

LEMMA SelectKeeps ==
    ASSUME SaveConstants, SaveInvariant, NEW c, HandleSelectCollection(c) PROVE SaveInvariant'
  <1>1. button \in ButtonRecords /\ picker \in PickerRecords
    BY DEF SaveInvariant, ScreenTypes
  <1>0. PICK nf : nf = Flight("pick", button.spot, c, NextTx)
    OBVIOUS
  <1>a. PICK blank : blank = ""
    OBVIOUS
  <1>2. /\ c \in picker.listed /\ flights' = (flights \ {}) \cup {nf}
        /\ picker' = [picker EXCEPT !.saving = TRUE]
        /\ Begins(Viewer, OpOf("pick"), button.spot, c, blank)
        /\ disturbed' = (disturbed \/ Overlaps(button.spot))
        /\ UNCHANGED <<button, host, snapshot, last>>
    BY <1>0, <1>a DEF HandleSelectCollection, Requests, PostRecollect, OpOf
  <1>3. picker' \in PickerRecords /\ c \in Collections /\ button.spot \in Saveable
    BY <1>1, <1>2 DEF PickerRecords, ButtonRecords
  <1>4. NextTx \in TxIds
    BY <1>2, BegunTx
  <1>5. nf \in FlightRecords /\ nf.kind = "pick" /\ nf.spot = button.spot /\ nf.tx = NextTx
        /\ nf.own /\ nf.col = c
    <2>1. "pick" \in Saves \cup {"list", "create"} /\ c \in {0} \cup Collections
      BY <1>3 DEF Saves
    <2> QED BY <1>0, <1>3, <1>4, <2>1, FlightTyped
  <1>6. /\ Begins(Viewer, OpOf(nf.kind), IF nf.kind = "create" THEN 0 ELSE nf.spot, c, blank)
        /\ disturbed' = (disturbed \/ (nf.kind \in Saves /\ Overlaps(nf.spot)))
        /\ nf.kind \in Saves \cup {"create"} /\ nf.kind # "create" /\ nf.col \in Collections
    BY <1>2, <1>3, <1>5 DEF Saves
  <1>7. Asked(nf, c, blank, {})
    BY <1>2, <1>5, <1>6 DEF Asked
  <1> QED BY <1>1, <1>2, <1>3, <1>7, RequestKeeps

LEMMA CreateKeeps ==
    ASSUME SaveConstants, SaveInvariant, HandleCreateCollection PROVE SaveInvariant'
  <1>1. button \in ButtonRecords /\ picker \in PickerRecords
    BY DEF SaveInvariant, ScreenTypes
  <1>0. PICK nf : nf = Flight("create", button.spot, 0, NextTx)
    OBVIOUS
  <1>2. /\ flights' = (flights \ {}) \cup {nf} /\ picker' = [picker EXCEPT !.creating = TRUE]
        /\ Begins(Viewer, OpOf("create"), 0, 0, "friends")
        /\ UNCHANGED <<button, host, snapshot, last, disturbed>>
    BY <1>0 DEF HandleCreateCollection, PostCollection, OpOf
  <1>3. picker' \in PickerRecords /\ button.spot \in Saveable
    BY <1>1, <1>2 DEF PickerRecords, ButtonRecords
  <1>4. NextTx \in TxIds
    BY <1>2, BegunTx
  <1>5. nf \in FlightRecords /\ nf.kind = "create" /\ nf.spot = button.spot /\ nf.tx = NextTx
        /\ nf.own
    <2>1. "create" \in Saves \cup {"list", "create"} /\ 0 \in {0} \cup Collections
      OBVIOUS
    <2> QED BY <1>0, <1>3, <1>4, <2>1, FlightTyped
  <1>6. nf.kind \notin Saves
    BY <1>5 DEF Saves
  <1>7. disturbed' = (disturbed \/ (nf.kind \in Saves /\ Overlaps(nf.spot)))
    <2>1. disturbed \in BOOLEAN /\ disturbed' = disturbed
      BY <1>2 DEF SaveInvariant, ScreenTypes
    <2> QED BY <1>6, <2>1, Zenon
  <1>8. /\ Begins(Viewer, OpOf(nf.kind), IF nf.kind = "create" THEN 0 ELSE nf.spot, 0, "friends")
        /\ nf.kind \in Saves \cup {"create"} /\ nf.kind \notin {"save", "pick"}
    BY <1>2, <1>5
  <1>9. Asked(nf, 0, "friends", {})
    BY <1>2, <1>5, <1>7, <1>8 DEF Asked
  <1> QED BY <1>1, <1>2, <1>3, <1>9, RequestKeeps

LEMMA CreatedKeeps ==
    ASSUME SaveConstants, SaveInvariant, NEW f \in flights, Created(f) PROVE SaveInvariant'
  <1>1. button \in ButtonRecords /\ picker \in PickerRecords /\ f \in FlightRecords
    BY DEF SaveInvariant, ScreenTypes
  <1>2. f.kind = "create" /\ tx[f.tx].at = "answered"
    BY DEF Created
  <1>3. PICK c : c = tx[f.tx].got
    OBVIOUS
  <1>0. PICK sent, nf : /\ sent = Flight("pick", f.spot, c, NextTx)
                        /\ nf = [sent EXCEPT !.own = f.own]
    OBVIOUS
  <1>a. PICK blank : blank = ""
    OBVIOUS
  <1>4. /\ flights' = (flights \ {f}) \cup {nf}
        /\ picker' = IF f.own THEN [picker EXCEPT !.listed = @ \cup {c}, !.saving = TRUE] ELSE picker
        /\ Begins(Viewer, OpOf("pick"), f.spot, c, blank)
        /\ disturbed' = (disturbed \/ Overlaps(f.spot))
        /\ UNCHANGED <<button, host, snapshot, last>>
    BY <1>0, <1>3, <1>a DEF Created, Requests, PostRecollect, OpOf
  <1>5. c \in Collections
    <2>1. f.tx \in TxIds /\ tx[f.tx].op = "create_collection"
      BY <1>2 DEF SaveInvariant, FlightsFit, FlightFits, OpOf
    <2> QED BY <1>2, <1>3, <2>1 DEF SaveInvariant, RowsOfSaves, TxsFit, TxFits
  <1>6. picker' \in PickerRecords /\ f.spot \in Saveable /\ f.own \in BOOLEAN
    BY <1>1, <1>4, <1>5 DEF PickerRecords, FlightRecords
  <1>7. NextTx \in TxIds
    BY <1>4, BegunTx
  <1>8. nf \in FlightRecords /\ nf.kind = "pick" /\ nf.spot = f.spot /\ nf.tx = NextTx
        /\ nf.own = f.own /\ nf.col = c
    <2>1. "pick" \in Saves \cup {"list", "create"} /\ c \in {0} \cup Collections
      BY <1>5 DEF Saves
    <2>2. sent \in FlightRecords /\ sent.kind = "pick" /\ sent.spot = f.spot /\ sent.tx = NextTx
          /\ sent.col = c
      BY <1>0, <1>6, <1>7, <2>1, FlightTyped
    <2> QED BY <1>0, <1>6, <2>2, FlightOwned
  <1>9. HostFits => nf.spot = button.spot /\ (host = "page" => nf.own)
    BY <1>2, <1>8 DEF HostFits, SaveInvariant, ScreenTypes
  <1>10. /\ Begins(Viewer, OpOf(nf.kind), IF nf.kind = "create" THEN 0 ELSE nf.spot, c, blank)
         /\ disturbed' = (disturbed \/ (nf.kind \in Saves /\ Overlaps(nf.spot)))
         /\ nf.kind \in Saves \cup {"create"} /\ nf.kind # "create" /\ nf.col \in Collections
         /\ \A g \in {f} : g.kind = "create"
    BY <1>2, <1>4, <1>5, <1>8 DEF Saves
  <1>11. Asked(nf, c, blank, {f})
    BY <1>4, <1>8, <1>9, <1>10 DEF Asked
  <1> QED BY <1>1, <1>4, <1>6, <1>11, RequestKeeps


-----------------------------------------------------------------------------
(* Requests that are answered, or fail.                                    *)

\* One request of the three is no longer awaited.
Settles(f) ==
    /\ \A g \in flights : g.kind # "list" => (g \in flights' <=> g # f)
    /\ \A g \in flights' : g \in flights \/ g \in Loads(button.spot)

LEMMA FollowsKept ==
    ASSUME NEW b \in ButtonRecords, NEW given \in BOOLEAN
    PROVE  LET d == Follows(b, given) IN d \in ButtonRecords /\ d.spot = b.spot
  BY DEF Follows, ButtonRecords

LEMMA FollowsShows ==
    ASSUME NEW b \in ButtonRecords, NEW given \in BOOLEAN
    PROVE  /\ Follows(b, given).initial <=> given
           /\ (b.initial <=> given) => (Follows(b, given).saved <=> b.saved)
           /\ ~(b.initial <=> given) => (Follows(b, given).saved <=> given)
  <1>1. CASE given = b.initial
    <2>1. Follows(b, given) = b
      BY <1>1 DEF Follows
    <2> QED BY <1>1, <2>1 DEF ButtonRecords
  <1>2. CASE given # b.initial
    <2> DEFINE d == [b EXCEPT !.initial = given, !.saved = given]
    <2>1. Follows(b, given) = d
      BY <1>2 DEF Follows
    <2>2. (d.initial <=> given) /\ (d.saved <=> given)
      BY DEF ButtonRecords
    <2>3. b.initial \in BOOLEAN
      BY DEF ButtonRecords
    <2> QED BY <1>2, <2>1, <2>2, <2>3
  <1> QED BY <1>1, <1>2

LEMMA ToldTyped ==
    ASSUME NEW s \in Saveable, NEW saved \in BOOLEAN, snapshot \in [Saveable -> BOOLEAN]
    PROVE  /\ Told(s, saved) \in [Saveable -> BOOLEAN]
           /\ host = "page" => Told(s, saved) = snapshot
           /\ host = "card" => Told(s, saved)[s] = saved
           /\ \A t \in Saveable : t # s => Told(s, saved)[t] = snapshot[t]
  BY DEF Told

\* Whatever the answer, the button stays with its spot.
LEMMA AnsweredTyped ==
    ASSUME SaveConstants, ScreenTypes, NEW f \in flights, NEW failed \in BOOLEAN,
           Answered(f, failed)
    PROVE  /\ f.kind \in Saves /\ Settles(f) /\ flights' \subseteq FlightRecords
           /\ button' \in ButtonRecords /\ button'.spot = button.spot
           /\ picker' \in PickerRecords /\ snapshot' \in [Saveable -> BOOLEAN]
           /\ last' \in {0} \cup Collections
  <1>1. /\ button \in ButtonRecords /\ picker \in PickerRecords /\ f \in FlightRecords
        /\ snapshot \in [Saveable -> BOOLEAN] /\ last \in {0} \cup Collections
        /\ flights \subseteq FlightRecords /\ button.spot \in Saveable /\ f.spot \in Saveable
        /\ f.col \in {0} \cup Collections
    BY DEF ScreenTypes, ButtonRecords, FlightRecords
  <1>2. PICK load : load = Flight("list", button.spot, 0, 0)
    OBVIOUS
  <1>3. load \in Loads(button.spot) /\ load \in FlightRecords /\ load.kind = "list"
    BY <1>1, <1>2, LoadIsFlight DEF Loads
  <1>4. \A given \in BOOLEAN, b \in ButtonRecords :
            Follows(b, given) \in ButtonRecords /\ Follows(b, given).spot = b.spot
    BY FollowsKept
  <1>5. \A saved \in BOOLEAN : Told(f.spot, saved) \in [Saveable -> BOOLEAN]
    BY <1>1, ToldTyped
  <1>6. Landed(button) \in ButtonRecords /\ Landed(button).spot = button.spot
    BY <1>1 DEF Landed, ButtonRecords
  <1>7. CASE SaveAnswered(f, failed)
    <2> DEFINE freed == [Landed(button) EXCEPT !.busy = FALSE]
    <2>1. /\ [freed EXCEPT !.saved = TRUE, !.picker = FALSE] \in ButtonRecords
          /\ [freed EXCEPT !.saved = TRUE, !.picker = FALSE].spot = button.spot
          /\ [freed EXCEPT !.picker = TRUE, !.failed = TRUE] \in ButtonRecords
          /\ [freed EXCEPT !.picker = TRUE, !.failed = TRUE].spot = button.spot
      BY <1>6 DEF ButtonRecords
    <2>2. f.kind = "save" /\ last' \in {0} \cup Collections
      BY <1>1, <1>7 DEF SaveAnswered
    <2>3. CASE ~Current(f)
      <3>1. button' = Landed(button) /\ flights' = flights \ {f} /\ UNCHANGED <<picker, snapshot>>
        BY <1>7, <2>3 DEF SaveAnswered
      <3>2. Settles(f) /\ flights' \subseteq FlightRecords
        BY <1>1, <3>1 DEF Settles
      <3> QED BY <1>1, <1>6, <2>2, <3>1, <3>2 DEF Saves
    <2>4. CASE Current(f) /\ ~failed /\ Stored(f)
      <3>1. /\ snapshot' = Told(f.spot, TRUE)
            /\ button' = Follows([freed EXCEPT !.saved = TRUE, !.picker = FALSE],
                                 snapshot'[button.spot])
            /\ picker' = [picker EXCEPT !.loading = FALSE]
            /\ flights' = Cancelled(flights \ {f})
        BY <1>7, <2>4 DEF SaveAnswered
      <3>2. Settles(f) /\ flights' \subseteq FlightRecords
        BY <1>1, <3>1 DEF Settles, Cancelled
      <3>3. snapshot' \in [Saveable -> BOOLEAN] /\ snapshot'[button.spot] \in BOOLEAN
        BY <1>1, <1>5, <3>1
      <3>4. button' \in ButtonRecords /\ button'.spot = button.spot
        BY <1>4, <2>1, <3>1, <3>3
      <3>5. picker' \in PickerRecords
        BY <1>1, <3>1 DEF PickerRecords
      <3> QED BY <2>2, <3>2, <3>3, <3>4, <3>5 DEF Saves
    <2>5. CASE Current(f) /\ ~(~failed /\ Stored(f))
      <3>1. /\ button' = [freed EXCEPT !.picker = TRUE, !.failed = TRUE]
            /\ picker' = IF button.picker THEN picker ELSE [picker EXCEPT !.loading = TRUE]
            /\ flights' = (flights \ {f}) \cup (IF button.picker THEN {} ELSE {load})
            /\ UNCHANGED snapshot
        BY <1>2, <1>7, <2>5 DEF SaveAnswered
      <3>2. Settles(f) /\ flights' \subseteq FlightRecords
        BY <1>1, <1>3, <3>1 DEF Settles, Loads
      <3>3. picker' \in PickerRecords
        BY <1>1, <3>1 DEF PickerRecords
      <3> QED BY <1>1, <2>1, <2>2, <3>1, <3>2, <3>3 DEF Saves
    <2> QED BY <2>3, <2>4, <2>5
  <1>8. CASE UnsaveAnswered(f, failed)
    <2> DEFINE freed == [Landed(button) EXCEPT !.busy = FALSE]
    <2>1. /\ [freed EXCEPT !.saved = FALSE] \in ButtonRecords
          /\ [freed EXCEPT !.saved = FALSE].spot = button.spot
          /\ [freed EXCEPT !.failed = TRUE] \in ButtonRecords
          /\ [freed EXCEPT !.failed = TRUE].spot = button.spot
      BY <1>6 DEF ButtonRecords
    <2> DEFINE ok == ~failed /\ tx[f.tx].answer = "ok"
    <2>2. /\ f.kind = "unsave" /\ flights' = flights \ {f} /\ UNCHANGED <<picker, last>>
          /\ snapshot' = IF Current(f) /\ ok THEN Told(f.spot, FALSE) ELSE snapshot
          /\ button' = IF ~Current(f) THEN Landed(button)
                       ELSE IF ok THEN Follows([freed EXCEPT !.saved = FALSE], snapshot'[button.spot])
                       ELSE [freed EXCEPT !.failed = TRUE]
      BY <1>8 DEF UnsaveAnswered
    <2>3. Settles(f) /\ flights' \subseteq FlightRecords
      BY <1>1, <2>2 DEF Settles
    <2>4. snapshot' \in [Saveable -> BOOLEAN] /\ snapshot'[button.spot] \in BOOLEAN
      <3>1. snapshot' \in [Saveable -> BOOLEAN]
        BY <1>1, <1>5, <2>2
      <3> QED BY <1>1, <3>1
    <2> HIDE DEF freed, ok
    <2>5. button' \in ButtonRecords /\ button'.spot = button.spot
      BY <1>4, <1>6, <2>1, <2>2, <2>4
    <2> QED BY <1>1, <2>2, <2>3, <2>4, <2>5 DEF Saves
  <1>9. CASE PickAnswered(f, failed)
    <2> DEFINE b == [button EXCEPT !.saved = TRUE, !.picker = FALSE]
               ok == ~failed /\ Stored(f)
    <2>1. b \in ButtonRecords /\ b.spot = button.spot
      BY <1>1 DEF ButtonRecords
    <2>2. /\ f.kind = "pick" /\ last' = IF ok THEN f.col ELSE last
          /\ snapshot' = IF ok THEN Told(f.spot, TRUE) ELSE snapshot
          /\ button' = IF ok THEN Follows(b, snapshot'[button.spot]) ELSE button
          /\ picker' = [picker EXCEPT !.saving = FALSE, !.creating = FALSE,
                                      !.loading = picker.loading /\ ~ok]
          /\ flights' = IF ok THEN Cancelled(flights \ {f}) ELSE flights \ {f}
      BY <1>9 DEF PickAnswered
    <2>3. Settles(f) /\ flights' \subseteq FlightRecords
      BY <1>1, <2>2 DEF Settles, Cancelled
    <2>4. picker' \in PickerRecords
      BY <1>1, <2>2 DEF PickerRecords
    <2>5. snapshot' \in [Saveable -> BOOLEAN] /\ snapshot'[button.spot] \in BOOLEAN
      <3>1. snapshot' \in [Saveable -> BOOLEAN]
        BY <1>1, <1>5, <2>2
      <3> QED BY <1>1, <3>1
    <2> HIDE DEF b, ok
    <2>6. button' \in ButtonRecords /\ button'.spot = button.spot
      BY <1>1, <1>4, <2>1, <2>2, <2>5
    <2> QED BY <1>1, <2>2, <2>3, <2>4, <2>5, <2>6 DEF Saves
  <1>10. CASE OrphanAnswered(f, failed)
    <2>1. /\ f.kind \in Saves /\ flights' = flights \ {f} /\ UNCHANGED picker
          /\ last' = f.col \/ last' = last
          /\ snapshot' = Told(f.spot, f.kind # "unsave") \/ snapshot' = snapshot
          /\ button' = Follows(button, snapshot'[button.spot])
      BY <1>10 DEF OrphanAnswered
    <2>2. Settles(f) /\ flights' \subseteq FlightRecords
      BY <1>1, <2>1 DEF Settles
    <2>3. (f.kind # "unsave") \in BOOLEAN
      OBVIOUS
    <2>4. snapshot' \in [Saveable -> BOOLEAN] /\ snapshot'[button.spot] \in BOOLEAN
      <3>1. Told(f.spot, f.kind # "unsave") \in [Saveable -> BOOLEAN]
        BY <1>5, <2>3
      <3>2. snapshot' \in [Saveable -> BOOLEAN]
        BY <1>1, <2>1, <3>1
      <3> QED BY <1>1, <3>2
    <2>5. button' \in ButtonRecords /\ button'.spot = button.spot
      BY <1>1, <1>4, <2>1, <2>4
    <2>6. last' \in {0} \cup Collections
      BY <1>1, <2>1
    <2> QED BY <1>1, <2>1, <2>2, <2>4, <2>5, <2>6
  <1> QED BY <1>7, <1>8, <1>9, <1>10 DEF Answered

\* The answer is there: its transaction is over, and nothing else at the server changes.
LEMMA ConsumedKeeps ==
    ASSUME SaveConstants, SaveInvariant, NEW f \in flights, f.kind \in Saves, Consumed(f),
           Settles(f)
    PROVE  /\ LibraryInvariant' /\ RowsOfSaves' /\ FlightsFit'
           /\ OneFlight => OneFlight'
           /\ Heeded => Heeded'
           /\ CopiesFit => CopiesFit'
           /\ OneCopy => OneCopy'
           /\ \A s : SavedByMe(Viewer, s)' <=> SavedByMe(Viewer, s)
  <1>0. /\ LibraryInvariant /\ RowsOfSaves /\ FlightsFit /\ f.kind # "list"
        /\ tx' = [tx EXCEPT ![f.tx] = Over] /\ UNCHANGED tables
    BY DEF SaveInvariant, Saves, Consumed
  <1>1. f.tx \in TxIds
    BY <1>0 DEF FlightsFit, FlightFits
  <1>2. tx'[f.tx] = Over /\ \A i \in TxIds : i # f.tx => tx'[i] = tx[i]
    <2>1. tx = [i \in TxIds |-> tx[i]]
      BY <1>0 DEF LibraryInvariant, Under
    <2> QED BY <1>0, <1>1, <2>1
  <1>3. LibraryInvariant'
    <2>1. TablesFit' /\ Lasts
      BY <1>0, Unmoved DEF LibraryInvariant
    <2>2. Knows(Over, spot', met')
      BY NoTxFits DEF Knows
    <2>3. Under'
      BY <1>0, <1>1, <2>1, <2>2, OverIsTx, UnderNext DEF LibraryInvariant
    <2> QED BY <2>1, <2>3 DEF LibraryInvariant
  <1>4. UNCHANGED spot
    BY <1>0 DEF tables
  <1>5. RowsOfSaves'
    <2>1. SourcesStay'
      BY <1>0, <1>4 DEF RowsOfSaves, SourcesStay, IsSpot
    <2>2. ASSUME NEW i \in TxIds PROVE TxFits(tx[i])'
      <3>1. CASE i = f.tx
        BY <1>2, <3>1, NoTxFits DEF TxFits
      <3>2. CASE i # f.tx
        <4>1. tx'[i] = tx[i] /\ TxFits(tx[i])
          BY <1>0, <1>2, <3>2 DEF RowsOfSaves, TxsFit
        <4> QED BY <1>4, <4>1 DEF TxFits, IsSpot
      <3> QED BY <3>1, <3>2
    <2> QED BY <2>1, <2>2 DEF RowsOfSaves, TxsFit
  <1>6. /\ \A g \in flights' : g.kind # "list" => g \in flights /\ g # f
        /\ \A g \in flights : g.kind # "list" /\ g # f => g \in flights'
    BY DEF Settles, Loads
  <1>7. FlightsFit'
    <2>1. ASSUME NEW g \in flights' PROVE FlightFits(g)'
      <3>1. CASE g.kind = "list"
        BY <3>1 DEF FlightFits
      <3>2. CASE g.kind # "list"
        <4>1. g \in flights /\ g # f /\ g.tx # f.tx
          BY <1>0, <1>6, <3>2 DEF FlightsFit
        <4>2. FlightFits(g) /\ g.tx \in TxIds
          BY <1>0, <3>2, <4>1 DEF FlightsFit, FlightFits
        <4>3. tx'[g.tx] = tx[g.tx]
          BY <1>2, <4>1, <4>2
        <4> QED BY <4>2, <4>3 DEF FlightFits
      <3> QED BY <3>1, <3>2
    <2> QED BY <1>0, <1>6, <2>1 DEF FlightsFit
  <1>8. \A g : g \in Awaited(Saves)' <=> g \in Awaited(Saves) /\ g # f
    BY <1>6 DEF Awaited, Saves
  <1>9. OneFlight => OneFlight'
    BY <1>8 DEF OneFlight
  <1>10. ASSUME Heeded PROVE Heeded'
    <2> SUFFICES ASSUME NEW i \in TxIds, tx'[i].op \in {"recollect", "unrecollect"}
                 PROVE  \E g \in Awaited(Saves)' : g.tx = i
      BY DEF Heeded
    <2>1. i # f.tx
      BY <1>2, NoTxFits
    <2>2. PICK g \in Awaited(Saves) : g.tx = i
      BY <1>2, <1>10, <2>1 DEF Heeded
    <2> QED BY <1>8, <2>1, <2>2
  <1>11. \A s : CopiesOf(Viewer, s)' = CopiesOf(Viewer, s)
    BY <1>4 DEF CopiesOf
  <1>12. \A s : SavedByMe(Viewer, s)' <=> SavedByMe(Viewer, s)
    BY <1>11 DEF SavedByMe
  <1>13. ASSUME CopiesFit, NEW i \in TxIds PROVE CopyFits(tx[i])'
    <2>1. CASE i = f.tx
      BY <1>2, <2>1, NoTxFits DEF CopyFits
    <2>2. CASE i # f.tx
      <3>1. tx'[i] = tx[i] /\ CopyFits(tx[i])
        BY <1>2, <1>13, <2>2 DEF CopiesFit
      <3> QED BY <1>11, <1>12, <3>1 DEF CopyFits
    <2> QED BY <2>1, <2>2
  <1>14. OneCopy => OneCopy'
    BY <1>4 DEF OneCopy
  <1> QED BY <1>3, <1>5, <1>7, <1>9, <1>10, <1>12, <1>13, <1>14 DEF CopiesFit

\* What the button and the feed show for it.
Shows(f) ==
    /\ \A s \in Saveable : snapshot'[s] =>
          \/ snapshot[s] /\ (f.kind = "unsave" => s # f.spot)
          \/ SavedByMe(Viewer, s)
    /\ button'.saved => \/ button.saved /\ (f.kind = "unsave" => f.spot # button.spot)
                        \/ SavedByMe(Viewer, button.spot)
    /\ button'.initial <=> snapshot'[button.spot]
    /\ host = "card" => (button'.saved <=> button'.initial)
    /\ host = "page" => snapshot' = snapshot

LEMMA AnswerShows ==
    ASSUME SaveConstants, SaveInvariant, Undisturbed, NEW f \in flights,
           f.kind \in Saves, tx[f.tx].at = "answered", Answered(f, FALSE)
    PROVE  Shows(f)
  <1>1. /\ button \in ButtonRecords /\ f \in FlightRecords /\ snapshot \in [Saveable -> BOOLEAN]
        /\ button.spot \in Saveable /\ f.spot \in Saveable /\ host \in {"page", "card"}
        /\ Landed(button) \in ButtonRecords
    BY DEF SaveInvariant, ScreenTypes, ButtonRecords, FlightRecords, Landed
  <1>2. /\ button.initial <=> snapshot[button.spot]
        /\ host = "card" => (button.saved <=> button.initial) /\ Current(f)
        /\ host = "page" =>
              /\ \A s \in Saveable : ~snapshot[s]
              /\ f.own /\ (f.kind = "pick" => Current(f))
    BY DEF Undisturbed, HostFits, Current
  <1>3. f.tx \in TxIds /\ tx[f.tx].op = OpOf(f.kind) /\ tx[f.tx].spot = f.spot
    BY DEF SaveInvariant, FlightsFit, FlightFits, Saves
  <1>4. ASSUME f.kind # "unsave", Stored(f) PROVE SavedByMe(Viewer, f.spot)
    <2>1. tx[f.tx].op = "recollect"
      BY <1>3, <1>4 DEF OpOf, Saves
    <2> QED BY <1>3, <1>4, <2>1 DEF Undisturbed, CopiesFit, CopyFits, Stored
  <1>5. f.kind = "unsave" => tx[f.tx].answer = "ok"
    BY <1>3, NoTxFits DEF OpOf, SaveInvariant, RowsOfSaves, TxsFit, TxFits
  <1>6. \A s \in Saveable, b \in BOOLEAN :
            /\ Told(s, b) \in [Saveable -> BOOLEAN]
            /\ host = "page" => Told(s, b) = snapshot
            /\ host = "card" => Told(s, b)[s] = b
            /\ \A t \in Saveable : t # s => Told(s, b)[t] = snapshot[t]
    BY <1>1, ToldTyped
  <1>7. CASE SaveAnswered(f, FALSE)
    <2>0. f.kind = "save"
      BY <1>7 DEF SaveAnswered
    <2> DEFINE freed == [Landed(button) EXCEPT !.busy = FALSE]
               b == [freed EXCEPT !.saved = TRUE, !.picker = FALSE]
    <2>1. CASE ~Current(f)
      <3>1. button' = Landed(button) /\ UNCHANGED snapshot
        BY <1>7, <2>1 DEF SaveAnswered
      <3>2. (button'.saved <=> button.saved) /\ (button'.initial <=> button.initial)
        BY <1>1, <3>1 DEF Landed, ButtonRecords
      <3> QED BY <1>2, <2>0, <3>1, <3>2 DEF Shows
    <2>2. CASE Current(f) /\ Stored(f)
      <3>1. snapshot' = Told(f.spot, TRUE) /\ button' = Follows(b, snapshot'[button.spot])
        BY <1>7, <2>2 DEF SaveAnswered
      <3>2. f.spot = button.spot /\ SavedByMe(Viewer, f.spot)
        BY <1>4, <2>0, <2>2 DEF Current
      <3>3. b \in ButtonRecords /\ b.saved /\ (b.initial <=> button.initial)
        BY <1>1 DEF ButtonRecords, Landed
      <3>4. snapshot'[button.spot] \in BOOLEAN
        BY <1>1, <1>6, <3>1
      <3> HIDE DEF b
      <3>5. /\ button'.initial <=> snapshot'[button.spot]
            /\ (b.initial <=> snapshot'[button.spot]) => (button'.saved <=> b.saved)
            /\ ~(b.initial <=> snapshot'[button.spot]) => (button'.saved <=> snapshot'[button.spot])
        BY <3>1, <3>3, <3>4, FollowsShows
      <3>6. host = "card" => snapshot'[button.spot]
        BY <1>1, <1>6, <3>1, <3>2
      <3>7. host = "page" => snapshot' = snapshot
        BY <1>1, <1>6, <3>1
      <3>8. \A s \in Saveable : snapshot'[s] => snapshot[s] \/ SavedByMe(Viewer, s)
        <4>1. \A s \in Saveable : s # f.spot => snapshot'[s] = snapshot[s]
          BY <1>1, <1>6, <3>1
        <4> QED BY <3>2, <4>1
      <3>9. host = "card" => (button'.saved <=> button'.initial)
        BY <3>3, <3>5, <3>6
      <3> QED BY <2>0, <3>2, <3>5, <3>7, <3>8, <3>9 DEF Shows
    <2>3. CASE Current(f) /\ ~Stored(f)
      <3>1. button' = [freed EXCEPT !.picker = TRUE, !.failed = TRUE] /\ UNCHANGED snapshot
        BY <1>7, <2>3 DEF SaveAnswered
      <3>2. (button'.saved <=> button.saved) /\ (button'.initial <=> button.initial)
        BY <1>1, <3>1 DEF Landed, ButtonRecords
      <3> QED BY <1>2, <2>0, <3>1, <3>2 DEF Shows
    <2> QED BY <2>1, <2>2, <2>3
  <1>8. CASE UnsaveAnswered(f, FALSE)
    <2>0. f.kind = "unsave" /\ tx[f.tx].answer = "ok"
      BY <1>5, <1>8 DEF UnsaveAnswered
    <2> DEFINE b == [[Landed(button) EXCEPT !.busy = FALSE] EXCEPT !.saved = FALSE]
    <2>1. CASE ~Current(f)
      <3>1. button' = Landed(button) /\ UNCHANGED snapshot
        BY <1>8, <2>1 DEF UnsaveAnswered
      <3>2. (button'.saved <=> button.saved) /\ (button'.initial <=> button.initial)
        BY <1>1, <3>1 DEF Landed, ButtonRecords
      <3>3. host = "page" /\ f.spot # button.spot
        BY <1>1, <1>2, <2>1 DEF Current
      <3> QED BY <1>2, <3>1, <3>2, <3>3 DEF Shows
    <2>2. CASE Current(f)
      <3>1. snapshot' = Told(f.spot, FALSE) /\ button' = Follows(b, snapshot'[button.spot])
        BY <1>8, <2>0, <2>2 DEF UnsaveAnswered
      <3>2. f.spot = button.spot
        BY <2>2 DEF Current
      <3>3. b \in ButtonRecords /\ ~b.saved /\ (b.initial <=> button.initial)
        BY <1>1 DEF ButtonRecords, Landed
      <3>4. snapshot'[button.spot] \in BOOLEAN
        BY <1>1, <1>6, <3>1
      <3> HIDE DEF b
      <3>5. /\ button'.initial <=> snapshot'[button.spot]
            /\ (b.initial <=> snapshot'[button.spot]) => (button'.saved <=> b.saved)
            /\ ~(b.initial <=> snapshot'[button.spot]) => (button'.saved <=> snapshot'[button.spot])
        BY <3>1, <3>3, <3>4, FollowsShows
      <3>6. ~snapshot'[button.spot]
        BY <1>1, <1>2, <1>6, <3>1, <3>2
      <3>7. host = "page" => snapshot' = snapshot
        BY <1>1, <1>6, <3>1
      <3>8. \A s \in Saveable : snapshot'[s] => snapshot[s] /\ s # f.spot
        <4>1. \A s \in Saveable : s # f.spot => snapshot'[s] = snapshot[s]
          BY <1>1, <1>6, <3>1
        <4> QED BY <3>2, <3>6, <4>1
      <3> QED BY <3>3, <3>5, <3>6, <3>7, <3>8 DEF Shows
    <2> QED BY <2>1, <2>2
  <1>9. CASE PickAnswered(f, FALSE)
    <2>0. f.kind = "pick" /\ f.spot = button.spot
      BY <1>1, <1>2, <1>9 DEF PickAnswered, Current
    <2> DEFINE b == [button EXCEPT !.saved = TRUE, !.picker = FALSE]
    <2>1. CASE Stored(f)
      <3>1. snapshot' = Told(f.spot, TRUE) /\ button' = Follows(b, snapshot'[button.spot])
        BY <1>9, <2>1 DEF PickAnswered
      <3>2. SavedByMe(Viewer, f.spot)
        BY <1>4, <2>0, <2>1
      <3>3. b \in ButtonRecords /\ b.saved /\ (b.initial <=> button.initial)
        BY <1>1 DEF ButtonRecords
      <3>4. snapshot'[button.spot] \in BOOLEAN
        BY <1>1, <1>6, <3>1
      <3> HIDE DEF b
      <3>5. /\ button'.initial <=> snapshot'[button.spot]
            /\ (b.initial <=> snapshot'[button.spot]) => (button'.saved <=> b.saved)
            /\ ~(b.initial <=> snapshot'[button.spot]) => (button'.saved <=> snapshot'[button.spot])
        BY <3>1, <3>3, <3>4, FollowsShows
      <3>6. host = "card" => snapshot'[button.spot]
        BY <1>1, <1>6, <2>0, <3>1
      <3>7. host = "page" => snapshot' = snapshot
        BY <1>1, <1>6, <3>1
      <3>8. \A s \in Saveable : snapshot'[s] => snapshot[s] \/ SavedByMe(Viewer, s)
        <4>1. \A s \in Saveable : s # f.spot => snapshot'[s] = snapshot[s]
          BY <1>1, <1>6, <3>1
        <4> QED BY <3>2, <4>1
      <3>9. host = "card" => (button'.saved <=> button'.initial)
        BY <3>3, <3>5, <3>6
      <3> QED BY <2>0, <3>2, <3>5, <3>7, <3>8, <3>9 DEF Shows
    <2>2. CASE ~Stored(f)
      <3>1. UNCHANGED <<button, snapshot>>
        BY <1>9, <2>2 DEF PickAnswered
      <3> QED BY <1>2, <2>0, <3>1 DEF Shows
    <2> QED BY <2>1, <2>2
  <1>10. CASE OrphanAnswered(f, FALSE)
    <2>0. host = "card" /\ f.spot = button.spot
      BY <1>1, <1>2, <1>10 DEF OrphanAnswered, Current
    <2>1. button' = Follows(button, snapshot'[button.spot])
      BY <1>10 DEF OrphanAnswered
    <2>2. snapshot'[button.spot] \in BOOLEAN =>
              /\ button'.initial <=> snapshot'[button.spot]
              /\ (button.initial <=> snapshot'[button.spot]) => (button'.saved <=> button.saved)
              /\ ~(button.initial <=> snapshot'[button.spot]) =>
                    (button'.saved <=> snapshot'[button.spot])
      BY <1>1, <2>1, FollowsShows
    <2>3. CASE f.kind = "unsave"
      <3>1. snapshot' = Told(f.spot, FALSE)
        BY <1>5, <1>10, <2>3 DEF OrphanAnswered
      <3>2. ~snapshot'[button.spot] /\ snapshot'[button.spot] \in BOOLEAN
        BY <1>1, <1>6, <2>0, <3>1
      <3>3. \A s \in Saveable : snapshot'[s] => snapshot[s] /\ s # f.spot
        BY <1>1, <1>6, <2>0, <3>1, <3>2
      <3> QED BY <1>2, <2>0, <2>2, <3>2, <3>3 DEF Shows
    <2>4. CASE f.kind # "unsave" /\ Stored(f)
      <3>1. snapshot' = Told(f.spot, TRUE)
        BY <1>10, <2>4 DEF OrphanAnswered
      <3>2. snapshot'[button.spot] /\ snapshot'[button.spot] \in BOOLEAN
        BY <1>1, <1>6, <2>0, <3>1
      <3>3. SavedByMe(Viewer, f.spot)
        BY <1>4, <2>4
      <3>4. \A s \in Saveable : snapshot'[s] => snapshot[s] \/ SavedByMe(Viewer, s)
        <4>1. \A s \in Saveable : s # f.spot => snapshot'[s] = snapshot[s]
          BY <1>1, <1>6, <3>1
        <4> QED BY <3>3, <4>1
      <3> QED BY <1>2, <2>0, <2>2, <2>4, <3>2, <3>3, <3>4 DEF Shows
    <2>5. CASE f.kind # "unsave" /\ ~Stored(f)
      <3>1. snapshot' = snapshot
        BY <1>10, <2>5 DEF OrphanAnswered
      <3>2. snapshot'[button.spot] \in BOOLEAN
        BY <1>1, <3>1
      <3> QED BY <1>2, <2>0, <2>2, <2>5, <3>1, <3>2 DEF Shows
    <2> QED BY <2>3, <2>4, <2>5
  <1> QED BY <1>7, <1>8, <1>9, <1>10 DEF Answered

LEMMA AnswerKeeps ==
    ASSUME SaveConstants, SaveInvariant, NEW f \in flights, AnswerArrives(f)
    PROVE  SaveInvariant'
  <1>0. /\ f.kind \in Saves /\ tx[f.tx].at = "answered" /\ Consumed(f) /\ Answered(f, FALSE)
        /\ UNCHANGED <<host, disturbed>>
    BY DEF AnswerArrives
  <1>1. ScreenTypes
    BY DEF SaveInvariant
  <1>2. /\ Settles(f) /\ flights' \subseteq FlightRecords
        /\ button' \in ButtonRecords /\ button'.spot = button.spot
        /\ picker' \in PickerRecords /\ snapshot' \in [Saveable -> BOOLEAN]
        /\ last' \in {0} \cup Collections
    BY <1>0, <1>1, AnsweredTyped
  <1>3. ScreenTypes'
    BY <1>0, <1>1, <1>2 DEF ScreenTypes
  <1>4. /\ LibraryInvariant' /\ RowsOfSaves' /\ FlightsFit'
        /\ OneFlight => OneFlight'
        /\ Heeded => Heeded'
        /\ CopiesFit => CopiesFit'
        /\ OneCopy => OneCopy'
        /\ \A s : SavedByMe(Viewer, s)' <=> SavedByMe(Viewer, s)
    BY <1>0, <1>2, ConsumedKeeps
  <1>5. ASSUME ~disturbed' PROVE Undisturbed'
    <2>1. Undisturbed
      BY <1>0, <1>5 DEF SaveInvariant
    <2>2. Shows(f)
      BY <1>0, <2>1, AnswerShows
    <2>3. OneFlight' /\ Heeded' /\ CopiesFit' /\ OneCopy'
      BY <1>4, <2>1 DEF Undisturbed
    <2>4. \A s : SavedOrGoing(s) /\ (f.kind = "unsave" => s # f.spot) => SavedOrGoing(s)'
      <3>1. \A g \in flights : g.kind = "unsave" /\ g # f => g \in flights'
        BY <1>2 DEF Settles
      <3> QED BY <1>4, <3>1 DEF SavedOrGoing
    <2>5. \A s : SavedByMe(Viewer, s) => SavedOrGoing(s)'
      BY <1>4 DEF SavedOrGoing
    <2>6. ShownIsSaved'
      <3>1. ASSUME NEW s \in Saveable, snapshot'[s] PROVE SavedOrGoing(s)'
        BY <2>1, <2>2, <2>4, <2>5, <3>1 DEF Shows, Undisturbed, ShownIsSaved
      <3>a. PICK b : b = button.spot
        OBVIOUS
      <3>2. ASSUME button'.saved PROVE SavedOrGoing(b)'
        <4>1. CASE SavedByMe(Viewer, b)
          BY <2>5, <4>1
        <4>2. CASE ~SavedByMe(Viewer, b)
          <5>1. button.saved /\ (f.kind = "unsave" => f.spot # b)
            BY <2>2, <3>a, <3>2, <4>2 DEF Shows
          <5>2. SavedOrGoing(b)
            BY <2>1, <3>a, <5>1 DEF Undisturbed, ShownIsSaved
          <5> QED BY <2>4, <5>1, <5>2
        <4> QED BY <4>1, <4>2
      <3> QED BY <1>2, <3>1, <3>2, <3>a DEF ShownIsSaved, SavedOrGoing
    <2>7. HostFits'
      <3>1. \A g \in flights' : g \in flights \/ (g.kind = "list" /\ g.spot = button.spot /\ g.own)
        BY <1>2 DEF Settles, Loads
      <3> QED BY <1>0, <1>2, <2>1, <2>2, <3>1 DEF Undisturbed, HostFits, Shows
    <2> QED BY <2>3, <2>6, <2>7 DEF Undisturbed
  <1> QED BY <1>3, <1>4, <1>5 DEF SaveInvariant

\* The browser gives up on a request: from then on it is disturbed.
LEMMA FailureKeeps ==
    ASSUME SaveConstants, SaveInvariant, NEW f \in flights, RequestFails(f)
    PROVE  SaveInvariant'
  <1>0. disturbed' = TRUE /\ UNCHANGED <<libraryVars, host>> /\ (Answered(f, TRUE) \/ CreateFails(f))
    BY DEF RequestFails
  <1>1. ScreenTypes /\ FlightsFit
    BY DEF SaveInvariant
  <1>2. LibraryInvariant' /\ RowsOfSaves' /\ UNCHANGED tx
    BY <1>0, RowsStill DEF libraryVars
  <1>3. /\ \A g \in flights' : g.kind # "list" => g \in flights
        /\ ScreenTypes'
    <2>1. CASE Answered(f, TRUE)
      <3>1. /\ Settles(f) /\ flights' \subseteq FlightRecords /\ button' \in ButtonRecords
            /\ picker' \in PickerRecords /\ snapshot' \in [Saveable -> BOOLEAN]
            /\ last' \in {0} \cup Collections
        BY <1>1, <2>1, AnsweredTyped
      <3>2. \A g \in flights' : g.kind # "list" => g \in flights
        BY <3>1 DEF Settles, Loads
      <3>3. ScreenTypes'
        BY <1>0, <1>1, <3>1 DEF ScreenTypes
      <3> QED BY <3>2, <3>3
    <2>2. CASE CreateFails(f)
      <3>1. /\ picker' = IF f.own THEN [picker EXCEPT !.creating = FALSE] ELSE picker
            /\ flights' = flights \ {f} /\ UNCHANGED <<button, snapshot, last>>
        BY <2>2 DEF CreateFails
      <3>2. picker' \in PickerRecords
        BY <1>1, <3>1 DEF ScreenTypes, PickerRecords
      <3>3. ScreenTypes'
        BY <1>0, <1>1, <3>1, <3>2 DEF ScreenTypes
      <3> QED BY <3>1, <3>3
    <2> QED BY <1>0, <2>1, <2>2
  <1>4. FlightsFit'
    <2>1. \A g \in flights' : FlightFits(g)'
      BY <1>1, <1>2, <1>3 DEF FlightsFit, FlightFits
    <2> QED BY <1>1, <1>3, <2>1 DEF FlightsFit
  <1> QED BY <1>0, <1>2, <1>3, <1>4 DEF SaveInvariant

-----------------------------------------------------------------------------
(* Another spot, and a card that is mounted anew.                          *)

LEMMA ButtonShows ==
    ASSUME NEW s \in Saveable, NEW saved \in BOOLEAN
    PROVE  LET b == Button(s, saved)
           IN  b \in ButtonRecords /\ b.spot = s /\ (b.saved <=> saved) /\ (b.initial <=> saved)
  BY DEF Button, ButtonRecords

LEMMA NavigateKeeps ==
    ASSUME SaveConstants, SaveInvariant, NEW s \in Saveable, Navigate(s) PROVE SaveInvariant'
  <1>0. /\ host = "page" /\ button' = Button(s, snapshot[s])
        /\ picker' = [picker EXCEPT !.loading = FALSE] /\ flights' = Cancelled(flights)
        /\ disturbed' = (disturbed \/ Awaited({"pick", "create"}) # {})
        /\ UNCHANGED <<libraryVars, host, snapshot, last>>
    BY DEF Navigate
  <1>1. ScreenTypes /\ snapshot[s] \in BOOLEAN
    BY DEF SaveInvariant, ScreenTypes
  <1>2. button' \in ButtonRecords /\ button'.spot = s /\ (button'.saved <=> snapshot[s])
        /\ (button'.initial <=> snapshot[s])
    BY <1>0, <1>1, ButtonShows
  <1>3. picker' \in PickerRecords
    BY <1>0, <1>1 DEF ScreenTypes, PickerRecords
  <1>4. SameAwaited
    BY <1>0 DEF SameAwaited, Cancelled
  <1>5. ScreenTypes'
    <2>1. flights' \subseteq FlightRecords /\ disturbed' \in BOOLEAN
      BY <1>0, <1>1 DEF ScreenTypes, Cancelled
    <2> QED BY <1>0, <1>1, <1>2, <1>3, <2>1 DEF ScreenTypes
  <1>6. LibraryInvariant' /\ RowsOfSaves' /\ FlightsFit'
    BY <1>0, <1>4, RowsStill, AwaitedStill DEF libraryVars
  <1>7. ASSUME ~disturbed' PROVE Undisturbed'
    <2>1. Undisturbed /\ Awaited({"pick", "create"}) = {}
      BY <1>0, <1>7 DEF SaveInvariant
    <2>2. OneFlight' /\ Heeded' /\ CopiesFit' /\ OneCopy'
      BY <1>0, <1>4, <2>1, RowsStill, AwaitedStill DEF Undisturbed, libraryVars
    <2>3. \A t \in Saveable : ~snapshot[t]
      BY <1>0, <2>1 DEF Undisturbed, HostFits
    <2>4. ShownIsSaved'
      BY <1>0, <1>2, <2>3 DEF ShownIsSaved
    <2>5. HostFits'
      <3>1. \A f \in flights' : f \in flights /\ f.kind \notin {"pick", "create"}
        BY <1>0, <2>1 DEF Cancelled, Awaited
      <3> QED BY <1>0, <1>2, <2>1, <2>3, <3>1 DEF Undisturbed, HostFits
    <2> QED BY <2>2, <2>4, <2>5 DEF Undisturbed
  <1> QED BY <1>5, <1>6, <1>7 DEF SaveInvariant

LEMMA RemountKeeps ==
    ASSUME SaveConstants, SaveInvariant, Remount PROVE SaveInvariant'
  <1> DEFINE Left(f) == [f EXCEPT !.own = FALSE]
  <1>0. /\ host = "card" /\ button' = Button(button.spot, snapshot[button.spot])
        /\ picker' = ClosedPicker /\ flights' = {Left(f) : f \in Cancelled(flights)}
        /\ UNCHANGED <<libraryVars, host, snapshot, last, disturbed>>
    BY DEF Remount
  <1>1. ScreenTypes /\ snapshot[button.spot] \in BOOLEAN /\ button.spot \in Saveable
    BY DEF SaveInvariant, ScreenTypes, ButtonRecords
  <1>2. button' \in ButtonRecords /\ button'.spot = button.spot
        /\ (button'.saved <=> snapshot[button.spot]) /\ (button'.initial <=> snapshot[button.spot])
    BY <1>0, <1>1, ButtonShows
  <1>3. \A f \in flights : /\ Left(f) \in FlightRecords /\ Left(f).kind = f.kind
                           /\ Left(f).spot = f.spot /\ Left(f).tx = f.tx /\ Left(f).col = f.col
    <2> TAKE f \in flights
    <2>1. f \in FlightRecords /\ FALSE \in BOOLEAN
      BY <1>1 DEF ScreenTypes
    <2> QED BY <2>1, FlightOwned
  <1> HIDE DEF Left
  <1>4. /\ \A g \in flights' : \E f \in flights : f.kind # "list" /\ g = Left(f)
        /\ \A f \in flights : f.kind # "list" => Left(f) \in flights'
    BY <1>0 DEF Cancelled
  <1>5. ScreenTypes'
    <2>1. flights' \subseteq FlightRecords
      BY <1>3, <1>4
    <2>2. picker' \in PickerRecords
      BY <1>0 DEF ClosedPicker, PickerRecords
    <2> QED BY <1>0, <1>1, <1>2, <2>1, <2>2 DEF ScreenTypes
  <1>6. LibraryInvariant' /\ RowsOfSaves' /\ UNCHANGED tx
    BY <1>0, RowsStill DEF libraryVars
  <1>7. FlightsFit'
    <2>1. FlightsFit
      BY DEF SaveInvariant
    <2>2. ASSUME NEW g \in flights' PROVE FlightFits(g)'
      <3>1. PICK f \in flights : f.kind # "list" /\ g = Left(f)
        BY <1>4
      <3>2. FlightFits(f) /\ g.kind = f.kind /\ g.tx = f.tx /\ g.spot = f.spot /\ g.col = f.col
        BY <1>3, <2>1, <3>1 DEF FlightsFit
      <3> QED BY <1>6, <3>2 DEF FlightFits
    <2>3. ASSUME NEW g \in flights', NEW h \in flights', g.tx = h.tx PROVE g = h
      <3>1. PICK f \in flights : f.kind # "list" /\ g = Left(f)
        BY <1>4
      <3>2. PICK e \in flights : e.kind # "list" /\ h = Left(e)
        BY <1>4
      <3>3. f.tx = e.tx
        BY <1>3, <2>3, <3>1, <3>2
      <3> QED BY <2>1, <3>1, <3>2, <3>3 DEF FlightsFit
    <2> QED BY <2>2, <2>3 DEF FlightsFit
  <1>8. ASSUME ~disturbed' PROVE Undisturbed'
    <2>1. Undisturbed
      BY <1>0, <1>8 DEF SaveInvariant
    <2>2. OneFlight'
      <3> SUFFICES ASSUME NEW g \in flights', NEW h \in flights', g.kind \in Saves,
                          h.kind \in Saves, g.spot = h.spot
                   PROVE  g = h
        BY DEF OneFlight, Awaited
      <3>1. PICK f \in flights : g = Left(f)
        BY <1>4
      <3>2. PICK e \in flights : h = Left(e)
        BY <1>4
      <3>3. f.kind \in Saves /\ e.kind \in Saves /\ f.spot = e.spot
        BY <1>3, <3>1, <3>2
      <3> QED BY <2>1, <3>1, <3>2, <3>3 DEF Undisturbed, OneFlight, Awaited
    <2>3. Heeded'
      <3> SUFFICES ASSUME NEW i \in TxIds, tx[i].op \in {"recollect", "unrecollect"}
                   PROVE  \E g \in flights' : g.kind \in Saves /\ g.tx = i
        BY <1>6 DEF Heeded, Awaited
      <3>1. PICK f \in flights : f.kind \in Saves /\ f.tx = i
        BY <2>1 DEF Undisturbed, Heeded, Awaited
      <3>2. Left(f) \in flights'
        BY <1>4, <3>1 DEF Saves
      <3> QED BY <1>3, <3>1, <3>2
    <2>4. CopiesFit' /\ OneCopy' /\ \A s \in Saveable : SavedByMe(Viewer, s)' <=> SavedByMe(Viewer, s)
      BY <1>0, <2>1, RowsStill DEF Undisturbed, libraryVars
    <2>5. \A s \in Saveable : SavedOrGoing(s) => SavedOrGoing(s)'
      <3>1. \A f \in flights : f.kind = "unsave" => Left(f) \in flights'
        BY <1>4
      <3> QED BY <1>3, <2>4, <3>1 DEF SavedOrGoing
    <2>6. ShownIsSaved'
      <3>1. \A s \in Saveable : snapshot[s] => SavedOrGoing(s)'
        BY <2>1, <2>5 DEF Undisturbed, ShownIsSaved
      <3>2. \A s \in Saveable : snapshot'[s] => SavedOrGoing(s)'
        BY <1>0, <3>1
      <3>3. button'.saved => SavedByMe(Viewer, button.spot)'
                             \/ \E g \in flights' : g.kind = "unsave" /\ g.spot = button.spot
        BY <1>1, <1>2, <3>1 DEF SavedOrGoing
      <3> QED BY <1>2, <3>2, <3>3 DEF ShownIsSaved, SavedOrGoing
    <2>7. HostFits'
      <3>1. \A g \in flights' : g.spot = button.spot
        BY <1>0, <1>3, <1>4, <2>1 DEF Undisturbed, HostFits
      <3> QED BY <1>0, <1>2, <3>1 DEF HostFits
    <2> QED BY <2>2, <2>3, <2>4, <2>6, <2>7 DEF Undisturbed
  <1> QED BY <1>5, <1>6, <1>7, <1>8 DEF SaveInvariant

-----------------------------------------------------------------------------
(* Statements at the server.                                               *)

\* The transactions stay what they are for, and what they do to the copies is allowed.
LEMMA ServerKeeps ==
    ASSUME SaveConstants, SaveInvariant, UNCHANGED screenVars, LibraryInvariant', RowsOfSaves',
           \A i \in TxIds : tx'[i].op = tx[i].op /\ tx'[i].spot = tx[i].spot,
           Undisturbed => /\ CopiesFit' /\ OneCopy'
                          /\ \A s \in Saveable : SavedByMe(Viewer, s) => SavedOrGoing(s)'
    PROVE  SaveInvariant'
  <1>0. UNCHANGED <<host, button, picker, snapshot, last, flights, disturbed>>
    BY DEF screenVars
  <1>1. ScreenTypes' /\ button.spot \in Saveable
    BY <1>0 DEF SaveInvariant, ScreenTypes, ButtonRecords
  <1>2. FlightsFit'
    <2>1. FlightsFit
      BY DEF SaveInvariant
    <2>2. ASSUME NEW f \in flights PROVE FlightFits(f)'
      <3>1. FlightFits(f)
        BY <2>1 DEF FlightsFit
      <3>2. CASE f.kind = "list"
        BY <3>2 DEF FlightFits
      <3>3. CASE f.kind # "list"
        <4>1. f.tx \in TxIds /\ tx'[f.tx].op = tx[f.tx].op /\ tx'[f.tx].spot = tx[f.tx].spot
          BY <3>1, <3>3 DEF FlightFits
        <4> QED BY <3>1, <4>1 DEF FlightFits
      <3> QED BY <3>2, <3>3
    <2> QED BY <1>0, <2>1, <2>2 DEF FlightsFit
  <1>3. ASSUME ~disturbed' PROVE Undisturbed'
    <2>1. Undisturbed
      BY <1>0, <1>3 DEF SaveInvariant
    <2>2. CopiesFit' /\ OneCopy' /\ \A s \in Saveable : SavedByMe(Viewer, s) => SavedOrGoing(s)'
      BY <2>1
    <2>3. OneFlight' /\ Heeded'
      <3>1. Awaited(Saves)' = Awaited(Saves)
        BY <1>0 DEF Awaited, Saves
      <3>2. OneFlight'
        BY <2>1, <3>1 DEF Undisturbed, OneFlight
      <3>3. Heeded'
        BY <2>1, <3>1 DEF Undisturbed, Heeded
      <3> QED BY <3>2, <3>3
    <2>4. \A s \in Saveable : SavedOrGoing(s) => SavedOrGoing(s)'
      BY <1>0, <2>2 DEF SavedOrGoing
    <2>5. ShownIsSaved'
      BY <1>0, <1>1, <2>1, <2>4 DEF Undisturbed, ShownIsSaved
    <2>6. HostFits'
      BY <1>0, <2>1 DEF Undisturbed, HostFits
    <2> QED BY <2>2, <2>3, <2>5, <2>6 DEF Undisturbed
  <1> QED BY <1>1, <1>2, <1>3 DEF SaveInvariant

\* What an answer, and a statement that only reads, do to their transaction.
LEMMA AnswersTx ==
    ASSUME SaveConstants, SaveInvariant, NEW i \in TxIds, tx[i].user = Viewer,
           NEW answer, NEW got, Answers(i, answer, got)
    PROVE  /\ tx'[i].op = tx[i].op /\ tx'[i].spot = tx[i].spot /\ tx'[i].user = Viewer
           /\ tx'[i].at = "answered" /\ tx'[i].answer = answer /\ tx'[i].got = got
           /\ \A j \in TxIds : j # i => tx'[j] = tx[j]
  <1>1. IsTx(tx[i]) /\ tx = [j \in TxIds |-> tx[j]]
    BY DEF SaveInvariant, LibraryInvariant, Under
  <1> DEFINE d == [tx[i] EXCEPT !.at = "answered", !.answer = answer, !.got = got, !.held = {}]
  <1>2. DOMAIN tx[i] = TxFields
    BY <1>1 DEF IsTx
  <1>3. /\ d.op = tx[i].op /\ d.spot = tx[i].spot /\ d.user = tx[i].user
        /\ d.at = "answered" /\ d.answer = answer /\ d.got = got
    BY <1>2 DEF TxFields, NoTx
  <1>4. tx' = [tx EXCEPT ![i] = d]
    BY SaveFacts DEF Answers
  <1> HIDE DEF d
  <1> QED BY <1>1, <1>3, <1>4

LEMMA GoesOnTx ==
    ASSUME SaveConstants, SaveInvariant, NEW i \in TxIds, NEW statement, NEW held,
           GoesOn(i, statement, held)
    PROVE  /\ tx'[i].op = tx[i].op /\ tx'[i].spot = tx[i].spot /\ tx'[i].user = tx[i].user
           /\ tx'[i].at = statement /\ tx'[i].held = held
           /\ \A j \in TxIds : j # i => tx'[j] = tx[j]
  <1>1. IsTx(tx[i]) /\ tx = [j \in TxIds |-> tx[j]]
    BY DEF SaveInvariant, LibraryInvariant, Under
  <1> DEFINE d == [tx[i] EXCEPT !.at = statement, !.held = held]
  <1>2. DOMAIN tx[i] = TxFields
    BY <1>1 DEF IsTx
  <1>3. /\ d.op = tx[i].op /\ d.spot = tx[i].spot /\ d.user = tx[i].user
        /\ d.at = statement /\ d.held = held
    BY <1>2 DEF TxFields, NoTx
  <1>4. tx' = [tx EXCEPT ![i] = d]
    BY <1>1 DEF GoesOn
  <1> HIDE DEF d
  <1> QED BY <1>1, <1>3, <1>4

\* A statement that leaves the spots as they are.
LEMMA ReadKeeps ==
    ASSUME SaveConstants, SaveInvariant, UNCHANGED screenVars, LibraryInvariant', spot' = spot,
           NEW i \in TxIds, tx'[i].op = tx[i].op, tx'[i].spot = tx[i].spot,
           \A j \in TxIds : j # i => tx'[j] = tx[j],
           TxFits(tx[i])', CopyFits(tx[i])'
    PROVE  SaveInvariant'
  <1>1. RowsOfSaves'
    <2>1. SourcesStay'
      BY DEF SaveInvariant, RowsOfSaves, SourcesStay, IsSpot
    <2>2. ASSUME NEW j \in TxIds, j # i PROVE TxFits(tx[j])'
      <3>1. tx'[j] = tx[j] /\ TxFits(tx[j])
        BY <2>2 DEF SaveInvariant, RowsOfSaves, TxsFit
      <3> QED BY <3>1 DEF TxFits, IsSpot
    <2> QED BY <2>1, <2>2 DEF RowsOfSaves, TxsFit
  <1>2. \A s : CopiesOf(Viewer, s)' = CopiesOf(Viewer, s)
    BY DEF CopiesOf
  <1>3. ASSUME Undisturbed
        PROVE  /\ CopiesFit' /\ OneCopy'
               /\ \A s \in Saveable : SavedByMe(Viewer, s) => SavedOrGoing(s)'
    <2>1. ASSUME NEW j \in TxIds, j # i PROVE CopyFits(tx[j])'
      <3>1. tx'[j] = tx[j] /\ CopyFits(tx[j])
        BY <1>3, <2>1 DEF Undisturbed, CopiesFit
      <3> QED BY <1>2, <3>1 DEF CopyFits, SavedByMe
    <2>2. CopiesFit'
      BY <2>1 DEF CopiesFit
    <2>3. OneCopy'
      BY <1>3 DEF Undisturbed, OneCopy
    <2>4. \A s \in Saveable : SavedByMe(Viewer, s) => SavedOrGoing(s)'
      BY <1>2 DEF SavedByMe, SavedOrGoing
    <2> QED BY <2>2, <2>3, <2>4
  <1>4. \A j \in TxIds : tx'[j].op = tx[j].op /\ tx'[j].spot = tx[j].spot
    OBVIOUS
  <1> QED BY <1>1, <1>3, <1>4, ServerKeeps

\* Undisturbed, no two transactions are about the copies of one spot.
LEMMA Alone ==
    ASSUME SaveInvariant, Undisturbed, NEW i \in TxIds, NEW j \in TxIds,
           tx[i].op \in {"recollect", "unrecollect"}, tx[j].op \in {"recollect", "unrecollect"},
           tx[i].spot = tx[j].spot
    PROVE  i = j
  <1>1. PICK f \in Awaited(Saves) : f.tx = i
    BY DEF Undisturbed, Heeded
  <1>2. PICK g \in Awaited(Saves) : g.tx = j
    BY DEF Undisturbed, Heeded
  <1>3. /\ f \in flights /\ f.kind \in Saves /\ f.kind # "list"
        /\ g \in flights /\ g.kind \in Saves /\ g.kind # "list"
    BY <1>1, <1>2 DEF Awaited, Saves
  <1>4. f.spot = tx[i].spot /\ g.spot = tx[j].spot
    BY <1>1, <1>2, <1>3 DEF SaveInvariant, FlightsFit, FlightFits
  <1>5. f = g
    BY <1>1, <1>2, <1>4 DEF Undisturbed, OneFlight
  <1> QED BY <1>1, <1>2, <1>5

LEMMA RecollectSaves ==
    ASSUME SaveConstants, SaveInvariant, UNCHANGED screenVars, LibraryInvariant',
           NEW i \in TxIds, RecollectSpot(i)
    PROVE  SaveInvariant'
  <1> DEFINE u == tx[i].user
  <1>a. PICK s : s = tx[i].spot
    OBVIOUS
  <1> USE <1>a
  <1>0. tx[i].op = "recollect" /\ tx[i].at \in {"read", "target", "edge", "write"}
    BY DEF RecollectSpot, At
  <1>1. u = Viewer /\ s \in Saveable
    BY <1>0, NoTxFits DEF SaveInvariant, RowsOfSaves, TxsFit, TxFits
  <1>2. ASSUME NEW answer, NEW got, Answers(i, answer, got), spot' = spot,
               answer = "ok" => SavedByMe(Viewer, s)
        PROVE  SaveInvariant'
    <2>1. /\ tx'[i].op = tx[i].op /\ tx'[i].spot = tx[i].spot /\ tx'[i].user = Viewer
          /\ tx'[i].at = "answered" /\ tx'[i].answer = answer
          /\ \A j \in TxIds : j # i => tx'[j] = tx[j]
      BY <1>1, <1>2, AnswersTx
    <2>2. TxFits(tx[i])'
      BY <1>0, <1>1, <2>1 DEF TxFits
    <2>3. SavedByMe(Viewer, s)' <=> SavedByMe(Viewer, s)
      BY <1>2 DEF SavedByMe, CopiesOf
    <2>4. CopyFits(tx[i])'
      BY <1>2, <2>1, <2>3 DEF CopyFits
    <2> QED BY <1>2, <2>1, <2>2, <2>4, ReadKeeps
  <1>3. ASSUME NEW answer, answer # "ok", Refuses(i, answer) PROVE SaveInvariant'
    BY <1>2, <1>3 DEF Refuses, tables
  <1>4. ASSUME NEW statement \in {"target", "edge", "write"}, GoesOn(i, statement, {}),
               statement = "write" => ~SavedByMe(Viewer, s)
        PROVE  SaveInvariant'
    <2>1. /\ tx'[i].op = tx[i].op /\ tx'[i].spot = tx[i].spot /\ tx'[i].user = tx[i].user
          /\ tx'[i].at = statement
          /\ \A j \in TxIds : j # i => tx'[j] = tx[j]
      BY <1>4, GoesOnTx
    <2>2. spot' = spot
      BY <1>4 DEF GoesOn, tables
    <2>3. TxFits(tx[i])'
      BY <1>0, <1>1, <1>4, <2>1 DEF TxFits
    <2>4. CopiesOf(Viewer, s)' = CopiesOf(Viewer, s)
      BY <2>2 DEF CopiesOf
    <2>5. CopyFits(tx[i])'
      BY <1>4, <2>1, <2>4 DEF CopyFits, SavedByMe
    <2> QED BY <2>1, <2>2, <2>3, <2>5, ReadKeeps
  <1>5. CASE tx[i].at = "read"
    <2>1. Refuses(i, "not_found") \/ Refuses(i, "forbidden") \/ GoesOn(i, "target", {})
      BY <1>5 DEF RecollectSpot, At
    <2> QED BY <1>3, <1>4, <2>1
  <1>6. CASE tx[i].at = "target"
    <2>1. Refuses(i, "forbidden") \/ GoesOn(i, "edge", {})
      BY <1>6 DEF RecollectSpot, At
    <2> QED BY <1>3, <1>4, <2>1
  <1>7. CASE tx[i].at = "edge"
    <2>1. \/ SavedByMe(u, s) /\ Answers(i, "ok", Min(CopiesOf(u, s))) /\ UNCHANGED tables
          \/ ~SavedByMe(u, s) /\ GoesOn(i, "write", {})
      BY <1>7 DEF RecollectSpot, At
    <2>2. CASE SavedByMe(u, s) /\ Answers(i, "ok", Min(CopiesOf(u, s))) /\ UNCHANGED tables
      <3>1. spot' = spot
        BY <2>2 DEF tables
      <3> QED BY <1>1, <1>2, <2>2, <3>1
    <2>3. CASE ~SavedByMe(u, s) /\ GoesOn(i, "write", {})
      BY <1>1, <1>4, <2>3
    <2> QED BY <2>1, <2>2, <2>3
  <1>8. CASE tx[i].at = "write" /\ ~(Insertable(u, tx[i].col) /\ IsSpot(s))
    <2>1. Refuses(i, "error")
      BY <1>8 DEF RecollectSpot, At
    <2> QED BY <1>3, <2>1
  <1>9. CASE tx[i].at = "write" /\ Insertable(u, tx[i].col) /\ IsSpot(s)
    <2> DEFINE n == Min(UnusedSpots)
               copy == CopyOf(s, u, tx[i].col)
    <2>1. UnusedSpots # {} /\ spot' = [spot EXCEPT ![n] = copy] /\ Answers(i, "ok", n)
      BY <1>9 DEF RecollectSpot, At
    <2>2. n \in Spots /\ spot[n] = NoSpot
      BY <2>1, SaveFacts, FreshSpot
    <2>3. copy.by = Viewer /\ copy.source = s
      BY <1>1 DEF CopyOf
    <2>4. /\ tx'[i].op = tx[i].op /\ tx'[i].spot = tx[i].spot /\ tx'[i].user = Viewer
          /\ tx'[i].at = "answered"
          /\ \A j \in TxIds : j # i => tx'[j] = tx[j]
      BY <1>1, <2>1, AnswersTx
    <2> HIDE DEF n, copy
    <2>5. spot'[n] = copy /\ \A t \in Spots : t # n => spot'[t] = spot[t]
      <3>1. spot \in [Spots -> SpotRecords]
        BY DEF SaveInvariant, LibraryInvariant, TablesFit, Shaped
      <3> QED BY <2>1, <2>2, <3>1
    <2>6. spot[n].by = Nobody
      BY <2>2 DEF NoSpot
    <2>7. RowsOfSaves'
      <3>1. SourcesStay'
        BY <2>5, <2>6, SaveFacts DEF SaveInvariant, RowsOfSaves, SourcesStay, IsSpot
      <3>2. TxFits(tx[i])'
        BY <1>0, <1>1, <2>4 DEF TxFits
      <3>3. ASSUME NEW j \in TxIds, j # i PROVE TxFits(tx[j])'
        <4>1. tx'[j] = tx[j] /\ TxFits(tx[j])
          BY <2>4, <3>3 DEF SaveInvariant, RowsOfSaves, TxsFit
        <4>2. \A t \in Spots : spot[t] # NoSpot => spot'[t] = spot[t]
          BY <2>2, <2>5
        <4> QED BY <4>1, <4>2 DEF TxFits, IsSpot
      <3> QED BY <3>1, <3>2, <3>3 DEF RowsOfSaves, TxsFit
    <2>8. ASSUME Undisturbed
          PROVE  /\ CopiesFit' /\ OneCopy'
                 /\ \A t \in Saveable : SavedByMe(Viewer, t) => SavedOrGoing(t)'
      <3>1. CopiesOf(Viewer, s) = {}
        BY <1>0, <1>1, <1>9, <2>8 DEF Undisturbed, CopiesFit, CopyFits
      <3>2. \A t : t # s => CopiesOf(Viewer, t)' = CopiesOf(Viewer, t)
        BY <2>2, <2>3, <2>5, <2>6, SaveFacts DEF CopiesOf
      <3>3. n \in CopiesOf(Viewer, s)'
        BY <2>2, <2>3, <2>5 DEF CopiesOf
      <3>4. CopiesFit'
        <4> SUFFICES ASSUME NEW j \in TxIds PROVE CopyFits(tx[j])'
          BY DEF CopiesFit
        <4>1. CASE j = i
          BY <2>4, <3>3, <4>1 DEF CopyFits, SavedByMe
        <4>2. CASE j # i /\ tx[j].op = "recollect"
          <5>1. tx[j].spot # s
            BY <1>0, <2>8, <4>2, Alone
          <5>2. tx'[j] = tx[j] /\ CopyFits(tx[j])
            BY <2>4, <2>8, <4>2 DEF Undisturbed, CopiesFit
          <5> QED BY <3>2, <5>1, <5>2 DEF CopyFits, SavedByMe
        <4>3. CASE j # i /\ tx[j].op # "recollect"
          BY <2>4, <4>3 DEF CopyFits
        <4> QED BY <4>1, <4>2, <4>3
      <3>5. OneCopy'
        <4>1. \A t \in Spots : ~(spot[t].source = s /\ spot[t].by = Viewer)
          BY <3>1 DEF CopiesOf
        <4> QED BY <2>2, <2>3, <2>5, <2>8, <4>1 DEF Undisturbed, OneCopy
      <3>6. \A t \in Saveable : SavedByMe(Viewer, t) => SavedOrGoing(t)'
        BY <3>2, <3>3 DEF SavedByMe, SavedOrGoing
      <3> QED BY <3>4, <3>5, <3>6
    <2>9. \A j \in TxIds : tx'[j].op = tx[j].op /\ tx'[j].spot = tx[j].spot
      BY <2>4
    <2> QED BY <2>7, <2>8, <2>9, ServerKeeps
  <1> QED BY <1>0, <1>5, <1>6, <1>7, <1>8, <1>9

LEMMA UnrecollectSaves ==
    ASSUME SaveConstants, SaveInvariant, UNCHANGED screenVars, LibraryInvariant',
           NEW i \in TxIds, UnrecollectSpot(i)
    PROVE  SaveInvariant'
  <1> DEFINE gone == {t \in tx[i].held : IsSpot(t)}
  <1>a. PICK s : s = tx[i].spot
    OBVIOUS
  <1> USE <1>a
  <1>0. tx[i].op = "unrecollect" /\ tx[i].at \in {"read", "write"}
    BY DEF UnrecollectSpot, At
  <1>1. tx[i].user = Viewer /\ s \in Saveable /\ TxFits(tx[i])
    BY <1>0, NoTxFits DEF SaveInvariant, RowsOfSaves, TxsFit, TxFits
  <1>2. CASE tx[i].at = "read" /\ CopiesOf(Viewer, s) = {}
    <2>1. Refuses(i, "ok")
      BY <1>1, <1>2 DEF UnrecollectSpot, At
    <2>2. Answers(i, "ok", 0) /\ spot' = spot
      BY <2>1 DEF Refuses, tables
    <2>3. /\ tx'[i].op = tx[i].op /\ tx'[i].spot = tx[i].spot /\ tx'[i].user = Viewer
          /\ tx'[i].at = "answered" /\ tx'[i].answer = "ok"
          /\ \A j \in TxIds : j # i => tx'[j] = tx[j]
      BY <1>1, <2>2, AnswersTx
    <2>4. TxFits(tx[i])' /\ CopyFits(tx[i])'
      BY <1>0, <1>1, <2>3 DEF TxFits, CopyFits
    <2> QED BY <2>2, <2>3, <2>4, ReadKeeps
  <1>3. CASE tx[i].at = "read" /\ CopiesOf(Viewer, s) # {}
    <2>1. GoesOn(i, "write", CopiesOf(Viewer, s))
      BY <1>1, <1>3 DEF UnrecollectSpot, At
    <2>2. spot' = spot
      BY <2>1 DEF GoesOn, tables
    <2>3. /\ tx'[i].op = tx[i].op /\ tx'[i].spot = tx[i].spot /\ tx'[i].user = Viewer
          /\ tx'[i].at = "write" /\ tx'[i].held = CopiesOf(Viewer, s)
          /\ \A j \in TxIds : j # i => tx'[j] = tx[j]
      BY <1>1, <2>1, GoesOnTx
    <2>4. \A t \in CopiesOf(Viewer, s) :
              t \in Spots /\ spot[t] # NoSpot /\ spot[t].by = Viewer /\ spot[t].source = s
      BY SaveFacts DEF CopiesOf, NoSpot
    <2>5. TxFits(tx[i])' /\ CopyFits(tx[i])'
      BY <1>0, <1>1, <2>2, <2>3, <2>4 DEF TxFits, CopyFits
    <2> QED BY <2>2, <2>3, <2>5, ReadKeeps
  <1>4. CASE tx[i].at = "write"
    <2>1. SpotsDeleted(gone) /\ Answers(i, "ok", 0)
      BY <1>4 DEF UnrecollectSpot, At
    <2>2. /\ tx'[i].op = tx[i].op /\ tx'[i].spot = tx[i].spot /\ tx'[i].user = Viewer
          /\ tx'[i].at = "answered" /\ tx'[i].answer = "ok"
          /\ \A j \in TxIds : j # i => tx'[j] = tx[j]
      BY <1>1, <2>1, AnswersTx
    <2>3. \A t \in gone : t \in Spots /\ spot[t].by = Viewer /\ spot[t].source = s
      BY <1>0, <1>1, <1>4, NoTxFits DEF TxFits, IsSpot
    <2> HIDE DEF gone
    <2>4. /\ \A t \in Spots : t \in gone => spot'[t] = GoneSpot
          /\ \A t \in Spots : t \notin gone =>
                /\ spot'[t].by = spot[t].by
                /\ spot'[t].source = IF spot[t].source \in gone THEN 0 ELSE spot[t].source
                /\ spot[t] # NoSpot => spot'[t] # NoSpot
      <3>1. spot' = [t \in Spots |-> IF t \in gone THEN GoneSpot
                        ELSE [spot[t] EXCEPT !.source =
                                  IF spot[t].source \in gone THEN 0 ELSE spot[t].source]]
        BY <2>1 DEF SpotsDeleted, Removed
      <3>2. Lasts
        BY <2>1, SaveFacts, SpotsGo, <1>4 DEF SaveInvariant, LibraryInvariant, TablesFit,
           LibraryHolds, UnrecollectSpot, At
      <3>3. ASSUME NEW t \in Spots, t \notin gone
            PROVE  /\ spot'[t].by = spot[t].by
                   /\ spot'[t].source = IF spot[t].source \in gone THEN 0 ELSE spot[t].source
        <4>1. spot[t] \in SpotRecords
          BY DEF SaveInvariant, LibraryInvariant, TablesFit, Shaped
        <4>2. spot'[t] = [spot[t] EXCEPT !.source =
                              IF spot[t].source \in gone THEN 0 ELSE spot[t].source]
          BY <3>1, <3>3
        <4> QED BY <4>1, <4>2 DEF SpotRecords, NoSpot, GoneSpot
      <3> QED BY <3>1, <3>2, <3>3 DEF Lasts
    <2>5. \A t \in Saveable : t \notin gone /\ t \in Spots /\ IsSpot(t) /\ spot[t].by # Viewer
      BY <2>3, SaveFacts DEF SaveInvariant, RowsOfSaves, SourcesStay, IsSpot
    <2>6. GoneSpot # NoSpot /\ GoneSpot.by = Nobody /\ GoneSpot.source = 0
      BY DEF GoneSpot, NoSpot
    <2>7. RowsOfSaves'
      <3>1. SourcesStay'
        BY <2>4, <2>5 DEF SourcesStay, IsSpot
      <3>2. TxFits(tx[i])'
        BY <1>0, <1>1, <2>2 DEF TxFits
      <3>3. ASSUME NEW j \in TxIds, j # i PROVE TxFits(tx[j])'
        <4>1. tx'[j] = tx[j] /\ TxFits(tx[j])
          BY <2>2, <3>3 DEF SaveInvariant, RowsOfSaves, TxsFit
        <4>2. ASSUME tx[j].op = "unrecollect", tx[j].at = "write", NEW t \in tx[j].held
              PROVE  /\ t \in Spots /\ spot'[t] # NoSpot
                     /\ IsSpot(t)' => spot'[t].by = Viewer /\ spot'[t].source = tx[j].spot
          <5>1. /\ t \in Spots /\ spot[t] # NoSpot /\ tx[j].spot \in Saveable
                /\ IsSpot(t) => spot[t].by = Viewer /\ spot[t].source = tx[j].spot
            BY <4>1, <4>2, NoTxFits DEF TxFits
          <5>2. CASE t \in gone
            BY <2>4, <2>6, <5>1, <5>2 DEF IsSpot
          <5>3. CASE t \notin gone
            BY <2>4, <2>5, <5>1, <5>3 DEF IsSpot
          <5> QED BY <5>2, <5>3
        <4> QED BY <4>1, <4>2 DEF TxFits
      <3> QED BY <3>1, <3>2, <3>3 DEF RowsOfSaves, TxsFit
    <2>8. \A t \in Saveable : CopiesOf(Viewer, t)' = CopiesOf(Viewer, t) \ gone
      <3> TAKE t \in Saveable
      <3>1. \A r \in Spots : r \in CopiesOf(Viewer, t)' <=> r \in CopiesOf(Viewer, t) /\ r \notin gone
        <4> TAKE r \in Spots
        <4>1. CASE r \in gone
          BY <2>4, <2>6, <4>1, SaveFacts DEF CopiesOf
        <4>2. CASE r \notin gone
          BY <2>4, <2>5, <4>2, SaveFacts DEF CopiesOf
        <4> QED BY <4>1, <4>2
      <3>2. CopiesOf(Viewer, t)' \subseteq Spots /\ CopiesOf(Viewer, t) \subseteq Spots
        BY DEF CopiesOf
      <3> QED BY <3>1, <3>2
    <2>9. \A t \in Saveable : t # s => CopiesOf(Viewer, t) \cap gone = {}
      BY <2>3 DEF CopiesOf
    <2>10. ASSUME Undisturbed
           PROVE  /\ CopiesFit' /\ OneCopy'
                  /\ \A t \in Saveable : SavedByMe(Viewer, t) => SavedOrGoing(t)'
      <3>1. CopiesFit'
        <4> SUFFICES ASSUME NEW j \in TxIds PROVE CopyFits(tx[j])'
          BY DEF CopiesFit
        <4>1. CASE tx[j].op = "recollect"
          <5>a. PICK r : r = tx[j].spot
            OBVIOUS
          <5>1. j # i /\ r # s
            BY <1>0, <2>10, <4>1, <5>a, Alone
          <5>2. tx'[j] = tx[j] /\ CopyFits(tx[j])
            BY <2>2, <2>10, <5>1 DEF Undisturbed, CopiesFit
          <5>3. r \in Saveable
            BY <4>1, <5>a, NoTxFits DEF SaveInvariant, RowsOfSaves, TxsFit, TxFits
          <5>4. CopiesOf(Viewer, r)' = CopiesOf(Viewer, r)
            BY <2>8, <2>9, <5>1, <5>3
          <5>5. SavedByMe(Viewer, r)' <=> SavedByMe(Viewer, r)
            BY <5>4 DEF SavedByMe
          <5> QED BY <5>2, <5>4, <5>5, <5>a DEF CopyFits
        <4>2. CASE tx[j].op # "recollect"
          BY <2>2, <4>2 DEF CopyFits
        <4> QED BY <4>1, <4>2
      <3>2. OneCopy'
        <4>1. \A t \in Spots : spot'[t].by # Nobody /\ spot'[t].source # 0 =>
                  spot'[t].by = spot[t].by /\ spot'[t].source = spot[t].source
          BY <2>4, <2>6
        <4> QED BY <2>10, <4>1 DEF Undisturbed, OneCopy
      <3>3. \E f \in flights : f.kind = "unsave" /\ f.spot = s
        <4>1. PICK f \in flights : f.kind \in Saves /\ f.tx = i
          BY <1>0, <2>10 DEF Undisturbed, Heeded, Awaited
        <4>2. tx[f.tx].op = OpOf(f.kind) /\ tx[f.tx].spot = f.spot
          BY <4>1 DEF SaveInvariant, FlightsFit, FlightFits, Saves
        <4>3. f.kind = "unsave"
          BY <1>0, <4>1, <4>2 DEF OpOf
        <4> QED BY <4>1, <4>2, <4>3
      <3>4. flights' = flights
        BY DEF screenVars
      <3>5. \A t \in Saveable : SavedByMe(Viewer, t) => SavedOrGoing(t)'
        BY <2>8, <2>9, <3>3, <3>4 DEF SavedByMe, SavedOrGoing
      <3> QED BY <3>1, <3>2, <3>5
    <2>11. \A j \in TxIds : tx'[j].op = tx[j].op /\ tx'[j].spot = tx[j].spot
      BY <2>2
    <2> QED BY <2>7, <2>10, <2>11, ServerKeeps
  <1> QED BY <1>0, <1>2, <1>3, <1>4

LEMMA CreateSaves ==
    ASSUME SaveConstants, SaveInvariant, UNCHANGED screenVars, LibraryInvariant',
           NEW i \in TxIds, CreateCollection(i)
    PROVE  SaveInvariant'
  <1>0. tx[i].op = "create_collection" /\ tx[i].at \in {"read", "write"}
    BY DEF CreateCollection, At
  <1>1. tx[i].user = Viewer
    BY <1>0, NoTxFits DEF SaveInvariant, RowsOfSaves, TxsFit, TxFits
  <1>2. CASE tx[i].at = "read"
    <2>1. PICK held : GoesOn(i, "write", held)
      BY <1>2 DEF CreateCollection, At
    <2>2. spot' = spot
      BY <2>1 DEF GoesOn, tables
    <2>3. /\ tx'[i].op = tx[i].op /\ tx'[i].spot = tx[i].spot /\ tx'[i].user = Viewer
          /\ tx'[i].at = "write" /\ \A j \in TxIds : j # i => tx'[j] = tx[j]
      BY <1>1, <2>1, GoesOnTx
    <2>4. TxFits(tx[i])' /\ CopyFits(tx[i])'
      BY <1>0, <2>3 DEF TxFits, CopyFits
    <2> QED BY <2>2, <2>3, <2>4, ReadKeeps
  <1>3. CASE tx[i].at = "write"
    <2> DEFINE c == Min(UnusedCollections)
    <2>1. UnusedCollections # {} /\ Answers(i, "ok", c) /\ spot' = spot
      BY <1>3 DEF CreateCollection, At, Inserted
    <2>2. c \in Collections
      BY <2>1, SaveFacts, FreshCollection
    <2> HIDE DEF c
    <2>3. /\ tx'[i].op = tx[i].op /\ tx'[i].spot = tx[i].spot /\ tx'[i].user = Viewer
          /\ tx'[i].at = "answered" /\ tx'[i].got = c
          /\ \A j \in TxIds : j # i => tx'[j] = tx[j]
      BY <1>1, <2>1, AnswersTx
    <2>4. TxFits(tx[i])' /\ CopyFits(tx[i])'
      BY <1>0, <2>2, <2>3 DEF TxFits, CopyFits
    <2> QED BY <2>1, <2>3, <2>4, ReadKeeps
  <1> QED BY <1>0, <1>2, <1>3

LEMMA ServerStepKeeps ==
    ASSUME SaveConstants, SaveInvariant, Server PROVE SaveInvariant'
  <1>1. PICK i \in TxIds : Statement(i)
    BY DEF Server
  <1>2. UNCHANGED screenVars
    BY DEF Server
  <1>3. LibraryInvariant'
    BY <1>1, SaveFacts, StatementsKeep DEF SaveInvariant
  <1>4. TxFits(tx[i])
    BY DEF SaveInvariant, RowsOfSaves, TxsFit
  <1>5. RecollectSpot(i) \/ UnrecollectSpot(i) \/ CreateCollection(i)
    <2>1. tx[i].at \in {"read", "target", "edge", "write"}
      BY <1>1 DEF Statement, At, CreateSpot, UpdateSpot, DeleteSpot, RecollectSpot,
         UnrecollectSpot, LikeSpot, UnlikeSpot, CreateCollection, EnsureDefaultCollection,
         UpdateCollection, ReorderCollections, DeleteCollection
    <2>2. tx[i].op \in {"recollect", "unrecollect", "create_collection"}
      BY <1>4, <2>1 DEF TxFits
    <2> QED BY <1>1, <2>2 DEF Statement, At, CreateSpot, UpdateSpot, DeleteSpot, LikeSpot,
              UnlikeSpot, EnsureDefaultCollection, UpdateCollection, ReorderCollections,
              DeleteCollection
  <1> QED BY <1>2, <1>3, <1>5, RecollectSaves, UnrecollectSaves, CreateSaves

LEMMA SaveKeeps ==
    ASSUME SaveConstants, SaveInvariant, [Next]_vars PROVE SaveInvariant'
  <1>1. CASE Next
    <2>1. ASSUME NEW f \in flights, AnswerArrives(f) \/ RequestFails(f) \/ Created(f)
          PROVE  SaveInvariant'
      BY <2>1, AnswerKeeps, FailureKeeps, CreatedKeeps
    <2>2. ASSUME NEW c, HandleSelectCollection(c) PROVE SaveInvariant'
      BY <2>2, SelectKeeps
    <2>3. ASSUME NEW s \in Saveable, Navigate(s) PROVE SaveInvariant'
      BY <2>3, NavigateKeeps
    <2> QED BY <1>1, <2>1, <2>2, <2>3, PickerKeeps, TapKeeps, CreateKeeps, RemountKeeps,
              ServerStepKeeps DEF Next
  <1>2. CASE UNCHANGED vars
    <2>1. UNCHANGED screenVars /\ UNCHANGED libraryVars
      BY <1>2 DEF vars
    <2>2. LibraryInvariant' /\ RowsOfSaves'
      BY <2>1, RowsStill
    <2>3. UNCHANGED tx
      BY <2>1 DEF libraryVars
    <2>4. Undisturbed => /\ CopiesFit' /\ OneCopy'
                         /\ \A s \in Saveable : SavedByMe(Viewer, s) => SavedOrGoing(s)'
      BY <2>1, RowsStill DEF Undisturbed, SavedOrGoing
    <2> QED BY <2>1, <2>2, <2>3, <2>4, ServerKeeps
  <1> QED BY <1>1, <1>2

LEMMA SaveShown == ASSUME SaveConstants, SaveInvariant PROVE TypeOK /\ SavedIsTrue
  <1>1. TypeOK
    <2>1. LibraryTypeOK
      BY DEF SaveInvariant, LibraryInvariant, TablesFit, Shaped, Under, IsTx, LibraryTypeOK
    <2>2. ScreenTypes
      BY DEF SaveInvariant
    <2>3. button.spot \in Saveable /\ picker.listed \subseteq Collections
          /\ \A f \in flights : f.kind \in Saves \cup {"list", "create"}
      BY <2>2 DEF ScreenTypes, ButtonRecords, PickerRecords, FlightRecords
    <2> QED BY <2>1, <2>2, <2>3 DEF TypeOK, ScreenTypes
  <1>2. SavedIsTrue
    <2> SUFFICES ASSUME ~disturbed
                 PROVE  /\ OneCopyPerSpot
                        /\ (button.saved /\ ~Overlaps(button.spot)) => SavedByMe(Viewer, button.spot)
      BY DEF SavedIsTrue
    <2>1. Undisturbed
      BY DEF SaveInvariant
    <2>2. OneCopyPerSpot
      <3> SUFFICES ASSUME NEW u \in Users, NEW s \in Spots PROVE Cardinality(CopiesOf(u, s)) <= 1
        BY DEF OneCopyPerSpot
      <3>1. \A r, t \in CopiesOf(u, s) : r = t
        BY <2>1, SaveFacts DEF Undisturbed, OneCopy, CopiesOf, SaveConstants, LibraryConstants
      <3>2. CASE CopiesOf(u, s) = {}
        <4>1. Cardinality(CopiesOf(u, s)) = 0
          BY <3>2, FS_EmptySet
        <4> QED BY <4>1
      <3>3. CASE CopiesOf(u, s) # {}
        <4>1. PICK t : CopiesOf(u, s) = {t}
          BY <3>1, <3>3
        <4>2. Cardinality(CopiesOf(u, s)) = 1
          BY <4>1, FS_Singleton
        <4> QED BY <4>2
      <3> QED BY <3>2, <3>3
    <2>3. ASSUME button.saved, ~Overlaps(button.spot) PROVE SavedByMe(Viewer, button.spot)
      <3>1. SavedOrGoing(button.spot)
        BY <2>1, <2>3 DEF Undisturbed, ShownIsSaved
      <3>2. ~ \E f \in flights : f.kind = "unsave" /\ f.spot = button.spot
        BY <2>3 DEF Overlaps, Awaited, Saves
      <3> QED BY <3>1, <3>2 DEF SavedOrGoing
    <2> QED BY <2>2, <2>3
  <1> QED BY <1>1, <1>2

\* #283 (lib/recollect/use-recollect): whatever order requests are answered in, and
\* however often the card is mounted anew or the page goes on, a spot has one copy at
\* most and the button shows it as saved only if it has one, as long as no two
\* requests for a spot overlapped and none lost its answer.
THEOREM SavedTellsTheTruth == SaveConstants => (Spec => [](TypeOK /\ SavedIsTrue))
  <1> SUFFICES ASSUME SaveConstants PROVE Spec => [](TypeOK /\ SavedIsTrue)
    OBVIOUS
  <1>1. Init => SaveInvariant
    BY SaveStarts
  <1>2. SaveInvariant /\ [Next]_vars => SaveInvariant'
    BY SaveKeeps
  <1>3. SaveInvariant => TypeOK /\ SavedIsTrue
    BY SaveShown
  <1> QED BY <1>1, <1>2, <1>3, PTL DEF Spec
=============================================================================
