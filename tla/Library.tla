------------------------------ MODULE Library ------------------------------
(***************************************************************************)
(* The tables behind collections and spots of apps/web, the row-level      *)
(* security that hides them, and the transactions of lib/dal that change   *)
(* them: collections, spots, copies of a friend's spot (recollect), likes, *)
(* and the flags a copy raises.                                            *)
(*                                                                         *)
(* Transactions run at READ COMMITTED.  Each first reads, in one step per  *)
(* statement, and commits its writes in a last step, which fails when a    *)
(* foreign key or a policy refuses what the reads had allowed.  Names,     *)
(* comments, tags and photos are left out, and so is the archiving of the *)
(* demo personas' spots.                                                   *)
(***************************************************************************)
EXTENDS Integers, Sequences, FiniteSets, FiniteSetsExt, SequencesExt

CONSTANTS
    Users,           \* accounts
    Nobody,          \* no account
    Places,          \* places of the map service
    Watchers,        \* accounts of which a screen awaits the answers
    Start,           \* the tables at the start: friends, collection and spot
    MaxCollections,  \* collections ever created (bound of the model)
    MaxSpots,        \* spots ever created (bound of the model)
    MaxTx            \* transactions ever begun (bound of the model)

Collections == 1 .. MaxCollections
Spots == 1 .. MaxSpots
TxIds == 1 .. MaxTx

VARIABLES
    friends,     \* accepted friendships, as pairs
    met,         \* friendships there ever were
    collection,  \* collections: owner, visibility and sort order
    spot,        \* spots, each with the edge to the spot it was copied from
    liked,       \* likes, as <<user, spot>>
    flags,       \* flags raised by copies, in order
    tx           \* transactions under way

tables == <<friends, met, collection, spot, liked, flags>>
libraryVars == <<friends, met, collection, spot, liked, flags, tx>>

\* An id that was not used yet, and one whose row is deleted.
Unused == [owner |-> Nobody, visibility |-> "unused", order |-> 0]
Deleted == [Unused EXCEPT !.visibility = "deleted"]
CollectionRecords ==
    [owner : Users, visibility : {"friends", "secret"}, order : Nat] \cup {Unused, Deleted}

NoSpot == [by |-> Nobody, col |-> 0, place |-> "unused", source |-> 0, origin |-> Nobody,
           depth |-> 0]
GoneSpot == [NoSpot EXCEPT !.place = "deleted"]
SpotRecords ==
    [by : Users, col : Collections, place : Places, source : {0} \cup Spots,
     origin : Users \cup {Nobody}, depth : Nat] \cup {NoSpot, GoneSpot}

NoTx == [user |-> Nobody, op |-> "", spot |-> 0, col |-> 0, arg |-> "", at |-> "free",
         held |-> {}, answer |-> "", got |-> 0]
Over == [NoTx EXCEPT !.at = "over"]

LibraryInit ==
    /\ friends = Start.friends /\ met = Start.friends
    /\ collection = Start.collection /\ spot = Start.spot
    /\ liked = {} /\ flags = <<>>
    /\ tx = [i \in TxIds |-> NoTx]

-----------------------------------------------------------------------------
(***************************************************************************)
(* What a user may see: the policies collections_select and spots_select,  *)
(* and the two gates that pass them by (migration share_gate).             *)
(***************************************************************************)
AreFriends(u, v) == {u, v} \in friends
IsCollection(c) == c \in Collections /\ collection[c].owner # Nobody
IsSpot(s) == s \in Spots /\ spot[s].by # Nobody

CollectionVisible(u, c) ==
    /\ IsCollection(c)
    /\ \/ collection[c].owner = u
       \/ collection[c].visibility = "friends" /\ AreFriends(collection[c].owner, u)

SpotVisible(u, s) == IsSpot(s) /\ (spot[s].by = u \/ CollectionVisible(u, spot[s].col))

\* A collection for friends that only the missing friendship hides.
Gated(u, c) ==
    /\ IsCollection(c) /\ collection[c].visibility = "friends"
    /\ collection[c].owner # u /\ ~AreFriends(collection[c].owner, u)

CollectionGate(u, c) == Gated(u, c)
SpotGate(u, s) == IsSpot(s) /\ spot[s].depth < 2 /\ Gated(u, spot[s].col)
UserGate(u, v) == u # v /\ ~AreFriends(u, v)

(***************************************************************************)
(* What the reading endpoints answer (lib/dal).                            *)
(***************************************************************************)
OwnedBy(u) == {c \in Collections : collection[c].owner = u}
SpotsIn(c) == {s \in Spots : IsSpot(s) /\ spot[s].col = c}

\* listCollections: in sort order (ties, by their times, in either order).
Listing(u, owner) ==
    SetToSortSeq({c \in OwnedBy(owner) : CollectionVisible(u, c)},
                 LAMBDA c, d : \/ collection[c].order < collection[d].order
                               \/ collection[c].order = collection[d].order /\ c > d)

Detail(u, c) == IF CollectionVisible(u, c) THEN {s \in SpotsIn(c) : SpotVisible(u, s)} ELSE {}
SpotDetail(u, s) == SpotVisible(u, s)
Profile(u, v) == u # v /\ AreFriends(u, v)

Circle(u) == {v \in Users : v = u \/ AreFriends(u, v)}

\* Savers of a place and likes of a spot the viewer may see, in his circle.
SavedCount(u, p) ==
    Cardinality({spot[s].by : s \in {t \in Spots : SpotVisible(u, t) /\ spot[t].place = p}}
                \cap Circle(u))
LikeCount(u, s) ==
    Cardinality({v \in Circle(u) : <<v, s>> \in liked /\ SpotVisible(u, s)})

CopiesOf(u, s) == {t \in Spots : spot[t].by = u /\ spot[t].source = s}
SavedByMe(u, s) == CopiesOf(u, s) # {}
LikedByMe(u, s) == <<u, s>> \in liked

-----------------------------------------------------------------------------
(***************************************************************************)
(* The steps of a transaction.                                             *)
(***************************************************************************)
FreeTx == {i \in TxIds : tx[i].at = "free"}
NextTx == Min(FreeTx)

Begins(u, op, s, c, arg) ==
    /\ FreeTx # {}
    /\ tx' = [tx EXCEPT ![NextTx] = [NoTx EXCEPT
          !.user = u, !.op = op, !.spot = s, !.col = c, !.arg = arg, !.at = "read"]]
    /\ UNCHANGED tables

At(i, op, statement) == tx[i].op = op /\ tx[i].at = statement
Answers(i, answer, got) ==
    tx' = [tx EXCEPT ![i] = IF @.user \in Watchers
              THEN [@ EXCEPT !.at = "answered", !.answer = answer, !.got = got, !.held = {}]
              ELSE Over]

\* A statement that only reads: the transaction goes on, or it is answered.
GoesOn(i, statement, held) ==
    tx' = [tx EXCEPT ![i].at = statement, ![i].held = held] /\ UNCHANGED tables
Refuses(i, answer) == Answers(i, answer, 0) /\ UNCHANGED tables

Reads(i, verdict) == IF verdict = "ok" THEN GoesOn(i, "write", {}) ELSE Refuses(i, verdict)

\* The row is visible, and it is the user's own.
SpotVerdict(u, s) ==
    IF ~SpotVisible(u, s) THEN "not_found" ELSE IF spot[s].by # u THEN "forbidden" ELSE "ok"
CollectionVerdict(u, c) ==
    IF ~CollectionVisible(u, c) THEN "not_found"
    ELSE IF collection[c].owner # u THEN "forbidden" ELSE "ok"

UnusedSpots == {s \in Spots : spot[s] = NoSpot}
UnusedCollections == {c \in Collections : collection[c] = Unused}

\* Mutated form of Insertable: the foreign key is missing.
InsertableAnywhere(u, c) == TRUE

\* spots_insert: into a collection of one's own, which is still there.
Insertable(u, c) == IsCollection(c) /\ collection[c].owner = u

\* Mutated form of Removed: copies keep the edge to a spot that is deleted.
RemovedOnly(gone) == [s \in Spots |-> IF s \in gone THEN GoneSpot ELSE spot[s]]

\* The edge of a copy goes with the copy; that of a deleted source is cleared.
Removed(gone) ==
    [s \in Spots |-> IF s \in gone THEN GoneSpot
                     ELSE [spot[s] EXCEPT !.source = IF @ \in gone THEN 0 ELSE @]]

\* Likes go with their spot.  (Flags stay, without the spot.)
SpotsDeleted(gone) ==
    /\ spot' = Removed(gone)
    /\ liked' = {l \in liked : l[2] \notin gone}

(***************************************************************************)
(* Spots (lib/dal/spots.ts).                                               *)
(***************************************************************************)
CreateSpot(i) ==
    \/ At(i, "create_spot", "read") /\ Reads(i, CollectionVerdict(tx[i].user, tx[i].col))
    \/ /\ At(i, "create_spot", "write") /\ UnusedSpots # {}
       /\ IF Insertable(tx[i].user, tx[i].col)
          THEN /\ spot' = [spot EXCEPT ![Min(UnusedSpots)] =
                     [NoSpot EXCEPT !.by = tx[i].user, !.col = tx[i].col, !.place = tx[i].arg]]
               /\ Answers(i, "ok", Min(UnusedSpots))
               /\ UNCHANGED <<friends, met, collection, liked, flags>>
          ELSE Refuses(i, "error")

\* (The content of a spot is left out: an update fails when its row is gone.)
UpdateSpot(i) ==
    \/ At(i, "update_spot", "read") /\ Reads(i, SpotVerdict(tx[i].user, tx[i].spot))
    \/ /\ At(i, "update_spot", "write")
       /\ Refuses(i, IF IsSpot(tx[i].spot) THEN "ok" ELSE "error")

DeleteSpot(i) ==
    \/ At(i, "delete_spot", "read") /\ Reads(i, SpotVerdict(tx[i].user, tx[i].spot))
    \/ /\ At(i, "delete_spot", "write")
       /\ IF IsSpot(tx[i].spot)
          THEN /\ SpotsDeleted({tx[i].spot}) /\ Answers(i, "ok", 0)
               /\ UNCHANGED <<friends, met, collection, flags>>
          ELSE Refuses(i, "error")

\* Mutated form of FlagOf: the actor is named however far the copy travelled.
FlagOfAnyone(copy) == [to |-> copy.origin, actor |-> copy.by]

\* emit_flag_on_recollection: the author is told who copied, but not who copied
\* a copy.
FlagOf(copy) == [to |-> copy.origin, actor |-> IF copy.depth >= 2 THEN Nobody ELSE copy.by]

\* Mutated form of CopyOf: the author of a spot that is no copy is forgotten.
CopyOfOrigin(s, u, c) ==
    [by |-> u, col |-> c, place |-> spot[s].place, source |-> s, origin |-> spot[s].origin,
     depth |-> spot[s].depth + 1]

CopyOf(s, u, c) ==
    [by |-> u, col |-> c, place |-> spot[s].place, source |-> s,
     origin |-> (IF spot[s].origin = Nobody THEN spot[s].by ELSE spot[s].origin),
     depth |-> spot[s].depth + 1]

\* recollectSpot: the source, the collection, then a copy that is there already;
\* else the copy and its edge are inserted and the trigger raises the flag.
RecollectSpot(i) ==
    LET u == tx[i].user
        s == tx[i].spot
        c == tx[i].col
        copy == CopyOf(s, u, c)
    IN  \/ /\ At(i, "recollect", "read")
           /\ IF ~SpotVisible(u, s) THEN Refuses(i, "not_found")
              ELSE IF spot[s].by = u THEN Refuses(i, "forbidden")
              ELSE GoesOn(i, "target", {})
        \/ /\ At(i, "recollect", "target")
           /\ IF CollectionVerdict(u, c) = "ok" THEN GoesOn(i, "edge", {})
              ELSE Refuses(i, "forbidden")
        \/ /\ At(i, "recollect", "edge")
           /\ IF SavedByMe(u, s)
              THEN Answers(i, "ok", Min(CopiesOf(u, s))) /\ UNCHANGED tables
              ELSE GoesOn(i, "write", {})
        \/ /\ At(i, "recollect", "write") /\ UnusedSpots # {}
           /\ IF Insertable(u, c) /\ IsSpot(s)
              THEN /\ spot' = [spot EXCEPT ![Min(UnusedSpots)] = copy]
                   /\ flags' = IF copy.origin = u THEN flags ELSE Append(flags, FlagOf(copy))
                   /\ Answers(i, "ok", Min(UnusedSpots))
                   /\ UNCHANGED <<friends, met, collection, liked>>
              ELSE Refuses(i, "error")

\* unrecollectSpot: the copies whose edge was read are deleted.
UnrecollectSpot(i) ==
    LET copies == CopiesOf(tx[i].user, tx[i].spot)
        gone == {s \in tx[i].held : IsSpot(s)}
    IN  \/ /\ At(i, "unrecollect", "read")
           /\ IF copies = {} THEN Refuses(i, "ok") ELSE GoesOn(i, "write", copies)
        \/ /\ At(i, "unrecollect", "write")
           /\ SpotsDeleted(gone) /\ Answers(i, "ok", 0)
           /\ UNCHANGED <<friends, met, collection, flags>>

(***************************************************************************)
(* Likes (lib/dal/spot-likes.ts).                                          *)
(***************************************************************************)
LikeSpot(i) ==
    LET u == tx[i].user
        s == tx[i].spot
    IN  \/ /\ At(i, "like", "read")
           /\ Reads(i, IF SpotVisible(u, s) THEN "ok" ELSE "not_found")
        \/ /\ At(i, "like", "write")
           /\ IF SpotVisible(u, s)
              THEN /\ liked' = liked \cup {<<u, s>>} /\ Answers(i, "ok", 0)
                   /\ UNCHANGED <<friends, met, collection, spot, flags>>
              ELSE Refuses(i, "error")

UnlikeSpot(i) ==
    LET u == tx[i].user
        s == tx[i].spot
    IN  \/ /\ At(i, "unlike", "read")
           /\ Reads(i, IF SpotVisible(u, s) THEN "ok" ELSE "not_found")
        \/ /\ At(i, "unlike", "write")
           /\ liked' = liked \ {<<u, s>>} /\ Answers(i, "ok", 0)
           /\ UNCHANGED <<friends, met, collection, spot, flags>>

(***************************************************************************)
(* Collections (lib/dal/collections.ts).                                   *)
(***************************************************************************)
Inserted(i, order, visibility) ==
    /\ UnusedCollections # {}
    /\ collection' = [collection EXCEPT ![Min(UnusedCollections)] =
          [owner |-> tx[i].user, visibility |-> visibility, order |-> order]]
    /\ Answers(i, "ok", Min(UnusedCollections))
    /\ UNCHANGED <<friends, met, spot, liked, flags>>

\* The new collection comes after those that were there when it was begun.
CreateCollection(i) ==
    \/ /\ At(i, "create_collection", "read")
       /\ GoesOn(i, "write", {collection[c].order : c \in OwnedBy(tx[i].user)})
    \/ /\ At(i, "create_collection", "write")
       /\ Inserted(i, Max({-1} \cup tx[i].held) + 1, tx[i].arg)

\* The first collection of an account that has none.
EnsureDefaultCollection(i) ==
    \/ /\ At(i, "ensure_default", "read")
       /\ IF OwnedBy(tx[i].user) # {} THEN Refuses(i, "ok") ELSE GoesOn(i, "write", {})
    \/ At(i, "ensure_default", "write") /\ Inserted(i, 0, "friends")

UpdateCollection(i) ==
    \/ At(i, "update_collection", "read") /\ Reads(i, CollectionVerdict(tx[i].user, tx[i].col))
    \/ /\ At(i, "update_collection", "write")
       /\ IF IsCollection(tx[i].col)
          THEN /\ collection' = [collection EXCEPT ![tx[i].col].visibility = tx[i].arg]
               /\ Answers(i, "ok", tx[i].col)
               /\ UNCHANGED <<friends, met, spot, liked, flags>>
          ELSE Refuses(i, "error")

\* All collections of the user, in their new order.  One that is created
\* meanwhile keeps its place; with one that is deleted the update fails.
ReorderCollections(i) ==
    LET wish == tx[i].arg
        u == tx[i].user
    IN  \/ /\ At(i, "reorder", "read")
           /\ IF wish = <<>> THEN Refuses(i, "not_found")
              ELSE Reads(i, IF Len(wish) = Cardinality(OwnedBy(u)) /\ ToSet(wish) \subseteq OwnedBy(u)
                            THEN "ok" ELSE "forbidden")
        \/ /\ At(i, "reorder", "write")
           /\ IF \A c \in ToSet(wish) : IsCollection(c)
              THEN /\ collection' = [c \in Collections |-> IF c \in ToSet(wish)
                         THEN [collection[c] EXCEPT !.order = Max({n \in DOMAIN wish : wish[n] = c}) - 1]
                         ELSE collection[c]]
                   /\ Answers(i, "ok", 0)
                   /\ UNCHANGED <<friends, met, spot, liked, flags>>
              ELSE Refuses(i, "error")

\* The spots go with their collection.
DeleteCollection(i) ==
    \/ At(i, "delete_collection", "read") /\ Reads(i, CollectionVerdict(tx[i].user, tx[i].col))
    \/ /\ At(i, "delete_collection", "write")
       /\ IF IsCollection(tx[i].col)
          THEN /\ collection' = [collection EXCEPT ![tx[i].col] = Deleted]
               /\ SpotsDeleted(SpotsIn(tx[i].col)) /\ Answers(i, "ok", 0)
               /\ UNCHANGED <<friends, met, flags>>
          ELSE Refuses(i, "error")

-----------------------------------------------------------------------------
(***************************************************************************)
(* The routes that begin them (app/api/v1).                                *)
(***************************************************************************)
PostSpot(u, c, p) == Begins(u, "create_spot", 0, c, p)
PatchSpot(u, s) == Begins(u, "update_spot", s, 0, "")
DeleteSpotRoute(u, s) == Begins(u, "delete_spot", s, 0, "")
PostRecollect(u, s, c) == Begins(u, "recollect", s, c, "")
DeleteRecollect(u, s) == Begins(u, "unrecollect", s, 0, "")
PostLike(u, s) == Begins(u, "like", s, 0, "")
DeleteLike(u, s) == Begins(u, "unlike", s, 0, "")
PostCollection(u, v) == Begins(u, "create_collection", 0, 0, v)
PatchCollection(u, c, v) == Begins(u, "update_collection", 0, c, v)
PatchReorder(u, wish) == Begins(u, "reorder", 0, 0, wish)
DeleteCollectionRoute(u, c) == Begins(u, "delete_collection", 0, c, "")
PostOnboarding(u) == Begins(u, "ensure_default", 0, 0, "")

\* Ids of rows there are or were: what a client may have seen.
KnownSpots == Spots \ UnusedSpots
KnownCollections == Collections \ UnusedCollections

AnyCall(u) ==
    \/ PostOnboarding(u)
    \/ \E v \in {"friends", "secret"} : PostCollection(u, v)
    \/ \E s \in KnownSpots :
          \/ PatchSpot(u, s) \/ DeleteSpotRoute(u, s) \/ DeleteRecollect(u, s)
          \/ PostLike(u, s) \/ DeleteLike(u, s)
          \/ \E c \in KnownCollections : PostRecollect(u, s, c)
    \/ \E c \in KnownCollections :
          \/ DeleteCollectionRoute(u, c)
          \/ \E p \in Places : PostSpot(u, c, p)
          \/ \E v \in {"friends", "secret"} : PatchCollection(u, c, v)
    \/ \E wish \in SetToSeqs(OwnedBy(u)) : PatchReorder(u, wish)

Statement(i) ==
    \/ CreateSpot(i) \/ UpdateSpot(i) \/ DeleteSpot(i)
    \/ RecollectSpot(i) \/ UnrecollectSpot(i) \/ LikeSpot(i) \/ UnlikeSpot(i)
    \/ CreateCollection(i) \/ EnsureDefaultCollection(i) \/ UpdateCollection(i)
    \/ ReorderCollections(i) \/ DeleteCollection(i)

\* Friendships come and go (module Friends).
CircleChanges(u, v) ==
    /\ friends' = IF AreFriends(u, v) THEN friends \ {{u, v}} ELSE friends \cup {{u, v}}
    /\ met' = met \cup friends'
    /\ UNCHANGED <<collection, spot, liked, flags, tx>>

LibraryNext ==
    \/ \E i \in TxIds : Statement(i)
    \/ \E u \in Users : AnyCall(u)
    \/ \E u \in Users : \E v \in Users \ {u} : CircleChanges(u, v)

LibrarySpec == LibraryInit /\ [][LibraryNext]_libraryVars

-----------------------------------------------------------------------------
\* The values the variables take.
LibraryTypeOK ==
    /\ friends \subseteq met
    /\ \A pair \in met : pair \subseteq Users /\ Cardinality(pair) = 2
    /\ collection \in [Collections -> CollectionRecords]
    /\ spot \in [Spots -> SpotRecords]
    /\ liked \subseteq Users \X Spots
    /\ flags \in Seq([to : Users, actor : Users \cup {Nobody}])
    /\ \A i \in TxIds : tx[i].at \in {"free", "read", "target", "edge", "write", "answered", "over"}

\* A spot is in a collection of its author, and a copy stands one step farther from
\* the same author than the spot it names as its source.
RowsFit(collections, spots) ==
    \A s \in Spots : spots[s].by # Nobody =>
        /\ spots[s].col \in Collections /\ collections[spots[s].col].owner = spots[s].by
        /\ (spots[s].depth = 0) = (spots[s].origin = Nobody)
        /\ spots[s].source # 0 =>
              LET source == spots[spots[s].source]
              IN  /\ source.by \notin {Nobody, spots[s].by}
                  /\ spots[s].depth = source.depth + 1
                  /\ spots[s].origin \in {source.by, source.origin}

\* What the theorems ask of the constants: the tables at the start are tables.
LibraryConstants ==
    /\ Nobody \notin Users /\ {"unused", "deleted"} \cap Places = {}
    /\ MaxCollections \in Nat /\ MaxSpots \in Nat /\ MaxTx \in Nat
    /\ \A pair \in Start.friends : pair \subseteq Users /\ Cardinality(pair) = 2
    /\ Start.collection \in [Collections -> CollectionRecords]
    /\ Start.spot \in [Spots -> SpotRecords]
    /\ RowsFit(Start.collection, Start.spot)

\* Whatever is deleted while a transaction runs, the rows fit together, and a like
\* is of a spot.
SpotsHold ==
    /\ RowsFit(collection, spot)
    /\ \A l \in liked : IsSpot(l[2])

\* docs/erd-api.md: a flag names who copied only among friends.  However far a spot
\* travels and whoever left the circle since, a flag names nobody who was never a
\* friend of the account it goes to, and never goes to who made the copy.
FlagsNameFriends ==
    \A n \in DOMAIN flags : flags[n].actor # Nobody => {flags[n].actor, flags[n].to} \in met

\* What the transactions keep, whatever they interleave with.
LibraryHolds == SpotsHold /\ FlagsNameFriends

\* lib/dal/spots.ts: a repeated recollect of the same spot raises no second flag.
OneCopyPerSpot == \A u \in Users : \A s \in Spots : Cardinality(CopiesOf(u, s)) <= 1
=============================================================================
