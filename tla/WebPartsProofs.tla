---------------------------- MODULE WebPartsProofs ----------------------------
(***************************************************************************)
(* Theorems about parts of MCWeb, each about its own module: friendships,  *)
(* whose module is extended here, and those that are instanced with the    *)
(* constants and variables that MCWeb gives them.  WebProofs puts them     *)
(* together.                                                               *)
(***************************************************************************)
EXTENDS Friends, TLAPS

CONSTANTS
    ShareUsers, SharePlaces, ShareWatchers, ShareStart, ShareViewer, ShareOwner,
    ShareCollections, ShareSpots, ShareTx,           \* SharePages
    Pending,                                         \* Session
    Others,                                          \* FeedCard
    Pins,                                            \* MapView
    Queries, People, NoText, MaxAsked,               \* FriendSearch
    SpotPhotos, PlaceURLs, NoPhoto, Numbers,        \* PhotoImage
    Messages, Instances, Periods, Thresholds, Said    \* BudgetNotifier

VARIABLES
    friends, met, collection, spot, liked, raised, tx, route, page, inner, gate, seen, \* SharePages
    sheet, reduced, mobile, heart, touch, likes, call, deceived,    \* FeedCard, Sheet
    account, given, session, user, view, me, badges, stored, asks, strayed, \* Session
    board, spots, located, script, map, failure, position,          \* MapView
    named, search, requests, current,                               \* FriendSearch
    thumb, image, running, made, alive, painted,                    \* PhotoImage
    acked, object, request, posts, irregular                        \* BudgetNotifier

SH == INSTANCE SharePages WITH
    Users <- ShareUsers, Places <- SharePlaces, Watchers <- ShareWatchers, Start <- ShareStart,
    Viewer <- ShareViewer, Owner <- ShareOwner, MaxCollections <- ShareCollections,
    MaxSpots <- ShareSpots, MaxTx <- ShareTx, flags <- raised

LB == INSTANCE LibraryProofs WITH
    Users <- ShareUsers, Places <- SharePlaces, Watchers <- ShareWatchers, Start <- ShareStart,
    MaxCollections <- ShareCollections, MaxSpots <- ShareSpots, MaxTx <- ShareTx, flags <- raised,
    Viewer <- ShareViewer, Saveable <- {}, host <- 0, button <- 0, picker <- 0, snapshot <- 0,
    last <- 0, flights <- 0, disturbed <- 0

FC == INSTANCE FeedCard

SE == INSTANCE Session

MV == INSTANCE MapView WITH Spots <- Pins

FS == INSTANCE FriendSearch

PI == INSTANCE PhotoImage WITH None <- NoPhoto

BN == INSTANCE BudgetNotifier

-----------------------------------------------------------------------------
(* Friendships.                                                            *)


-----------------------------------------------------------------------------
(* Types, as far as the transactions need them.  A call is a record; one   *)
(* that may insert or accept is of a pair and of one of its two.           *)

IsCall(c) ==
    /\ c = [user |-> c.user, op |-> c.op, pair |-> c.pair, at |-> c.at, answer |-> c.answer]
    /\ c.op # "mark"
    /\ c.op \in {"send", "accept"} => c.pair \in Pairs /\ c.user \in c.pair

Shaped ==
    /\ friendship \in [Pairs -> RowRecords]
    /\ asked \in [Pairs -> SUBSET Users] /\ overtaken \subseteq Pairs
    /\ calls = [i \in CallIds |-> calls[i]]
    /\ \A i \in CallIds : IsCall(calls[i])

LEMMA PairOfTwo ==
    ASSUME NEW u \in Users, NEW v \in Users, u # v
    PROVE  {u, v} \in Pairs /\ u \in {u, v}
  BY DEF Pairs

\* Two different members of a pair are all of it.
LEMMA TwoAreAll ==
    ASSUME NEW p \in Pairs, NEW S \in SUBSET p, NEW u \in S, NEW v \in S, u # v
    PROVE  S = p
  BY DEF Pairs

-----------------------------------------------------------------------------
(* What a step does to the calls.  A call that a step brings forward does  *)
(* not come to the update of an accept, unless the step is AcceptReads.    *)

Forward(c, d) == IsCall(d) /\ (d.op = "accept" /\ d.at = "write" => d = c)
CallsForward ==
    /\ calls' = [j \in CallIds |-> calls'[j]]
    /\ \A j \in CallIds : Forward(calls[j], calls'[j])

LEMMA GoesTo ==
    ASSUME NEW c, NEW statement, IsCall(c)
    PROVE  LET d == [c EXCEPT !.at = statement]
           IN  IsCall(d) /\ d.at = statement /\ d.op = c.op
  BY DEF IsCall

LEMMA NoCallIsCall == IsCall(NoCall) /\ NoCall.op # "accept"
  BY DEF IsCall, NoCall

LEMMA AtForward ==
    ASSUME Shaped, NEW i \in CallIds, NEW statement, At(i, statement),
           statement = "write" => calls[i].op # "accept"
    PROVE  CallsForward
  <1>1. IsCall(calls[i]) /\ IsCall([calls[i] EXCEPT !.at = statement])
    BY DEF Shaped, IsCall
  <1>2. [calls[i] EXCEPT !.at = statement].op = calls[i].op
        /\ [calls[i] EXCEPT !.at = statement].at = statement
    BY <1>1 DEF IsCall
  <1>3. /\ calls' = [j \in CallIds |-> calls'[j]]
        /\ calls'[i] = [calls[i] EXCEPT !.at = statement]
        /\ \A j \in CallIds : j # i => calls'[j] = calls[j]
    BY DEF Shaped, At
  <1> QED BY <1>1, <1>2, <1>3 DEF CallsForward, Forward, Shaped

LEMMA AnsweredForward ==
    ASSUME Shaped, NEW i \in CallIds, NEW answer, Answered(i, answer)
    PROVE  CallsForward
  <1> DEFINE c == [calls[i] EXCEPT !.at = "answered", !.answer = answer]
  <1>1. IsCall(c) /\ c.at = "answered"
    <2>1. IsCall(calls[i])
      BY DEF Shaped
    <2>2. c = [[calls[i] EXCEPT !.at = "answered"] EXCEPT !.answer = answer]
      OBVIOUS
    <2>3. /\ IsCall([calls[i] EXCEPT !.at = "answered"])
          /\ [calls[i] EXCEPT !.at = "answered"].at = "answered"
      BY <2>1, GoesTo
    <2>4. ASSUME NEW d, IsCall(d)
          PROVE  IsCall([d EXCEPT !.answer = answer]) /\ [d EXCEPT !.answer = answer].at = d.at
      BY <2>4 DEF IsCall
    <2> HIDE DEF c
    <2> QED BY <2>2, <2>3, <2>4
  <1>2. /\ calls' = [j \in CallIds |-> calls'[j]]
        /\ calls'[i] \in {c, NoCall}
        /\ \A j \in CallIds : j # i => calls'[j] = calls[j]
    BY DEF Shaped, Answered
  <1> QED BY <1>1, <1>2, NoCallIsCall DEF CallsForward, Forward, Shaped

LEMMA StartsForward ==
    ASSUME Shaped, NEW u \in Users, NEW op \in Ops, NEW v, Starts(u, op, v),
           op \in {"send", "accept"} => v \in Users \ {u}
    PROVE  CallsForward
  <1> DEFINE c == [user |-> u, op |-> op, pair |-> {u, v}, at |-> "read", answer |-> ""]
  <1>0. op # "mark"
    BY DEF Ops
  <1>1. IsCall(c) /\ c.at = "read"
    BY <1>0, PairOfTwo DEF IsCall
  <1>2. /\ calls' = [j \in CallIds |-> calls'[j]]
        /\ \A j \in CallIds : calls'[j] \in {c, calls[j]}
    BY DEF Shaped, Starts
  <1> QED BY <1>1, <1>2 DEF CallsForward, Forward, Shaped

LEMMA FreedForward ==
    ASSUME Shaped, NEW S, calls' = [i \in CallIds |-> IF i \in S THEN NoCall ELSE calls[i]]
    PROVE  CallsForward
  BY NoCallIsCall DEF CallsForward, Forward, Shaped

LEMMA StillForward ==
    ASSUME Shaped, calls' = calls
    PROVE  CallsForward
  BY DEF CallsForward, Forward, Shaped

-----------------------------------------------------------------------------
(* The invariant. *)

IInv == Shaped /\ FriendshipInvariant

\* A step that leaves the rows alone keeps it.
LEMMA RowsAlone ==
    ASSUME IInv, CallsForward, UNCHANGED <<friendship, asked, overtaken>>
    PROVE  IInv'
  <1>1. Shaped'
    BY DEF IInv, Shaped, CallsForward, Forward
  <1>2. \A i \in CallIds : AcceptsAnother(i)'
    BY DEF IInv, FriendshipInvariant, AcceptsAnother, RowOf, CallsForward, Forward
  <1>3. /\ \A p \in Pairs : AskedBy(p)' /\ RowIsAsked(p)'
        /\ FriendshipIsMutual'
    BY DEF IInv, FriendshipInvariant, AskedBy, RowIsAsked, FriendshipIsMutual
  <1> QED BY <1>1, <1>2, <1>3 DEF IInv, FriendshipInvariant

\* An acceptance about to be written, of the pair p, is of another's request.
Faces(i, p, row) ==
    (calls[i].op = "accept" /\ calls[i].at = "write" /\ calls[i].pair = p) =>
        row.by # calls[i].user

\* So does one that writes the row of one pair, if its author has asked by then and,
\* unless the pair counts as overtaken, no acceptance of the author's is about to be
\* written and a row that is accepted has been asked for by both.
LEMMA RowWritten ==
    ASSUME IInv, CallsForward, NEW p \in Pairs, NEW u \in p, NEW row \in RowRecords,
           row # NoRow, row.by \in asked[p] \cup {u},
           friendship' = [friendship EXCEPT ![p] = row],
           asked' = [asked EXCEPT ![p] = @ \cup {u}],
           \A q \in Pairs : q # p => (q \in overtaken' <=> q \in overtaken),
           overtaken' \subseteq Pairs,
           p \notin overtaken' => \A i \in CallIds : Faces(i, p, row),
           p \notin overtaken' /\ row.status = "accepted" => asked[p] \cup {u} = p
    PROVE  IInv'
  <1>0. u \in Users
    BY DEF Pairs
  <1>1. Shaped'
    BY <1>0 DEF IInv, Shaped, CallsForward, Forward
  <1>2. /\ asked'[p] = asked[p] \cup {u} /\ friendship'[p] = row
        /\ \A q \in Pairs : q # p => asked'[q] = asked[q] /\ friendship'[q] = friendship[q]
    BY DEF IInv, Shaped
  <1>3. \A i \in CallIds : AcceptsAnother(i)'
    <2> SUFFICES ASSUME NEW i \in CallIds, calls'[i].op = "accept", calls'[i].at = "write",
                        calls'[i].pair \notin overtaken', RowOf(i)' # NoRow
                 PROVE  RowOf(i)'.by # calls'[i].user
      BY DEF AcceptsAnother
    <2>1. calls'[i] = calls[i] /\ calls[i].pair \in Pairs
      BY DEF IInv, CallsForward, Forward, IsCall
    <2>2. CASE calls[i].pair = p
      BY <2>1, <2>2, <1>2 DEF Faces, RowOf
    <2>3. CASE calls[i].pair # p
      BY <2>1, <2>3, <1>2 DEF IInv, FriendshipInvariant, AcceptsAnother, RowOf
    <2> QED BY <2>2, <2>3
  <1>4. \A q \in Pairs : AskedBy(q)' /\ RowIsAsked(q)'
    BY <1>2 DEF IInv, FriendshipInvariant, AskedBy, RowIsAsked
  <1>5. FriendshipIsMutual'
    BY <1>2 DEF IInv, FriendshipInvariant, FriendshipIsMutual
  <1> QED BY <1>1, <1>3, <1>4, <1>5 DEF IInv, FriendshipInvariant

\* So does one that deletes it, and what was asked for it.
LEMMA RowDeleted ==
    ASSUME IInv, CallsForward, NEW p,
           friendship' = [friendship EXCEPT ![p] = NoRow],
           asked' = [asked EXCEPT ![p] = {}], UNCHANGED overtaken
    PROVE  IInv'
  <1>1. \A q \in Pairs :
           \/ q = p /\ friendship'[q] = NoRow /\ asked'[q] = {}
           \/ friendship'[q] = friendship[q] /\ asked'[q] = asked[q]
    BY DEF IInv, Shaped
  <1>2. Shaped'
    BY DEF IInv, Shaped, CallsForward, Forward, RowRecords
  <1>3. \A i \in CallIds : AcceptsAnother(i)'
    <2> SUFFICES ASSUME NEW i \in CallIds, calls'[i].op = "accept", calls'[i].at = "write",
                        calls'[i].pair \notin overtaken', RowOf(i)' # NoRow
                 PROVE  RowOf(i)'.by # calls'[i].user
      BY DEF AcceptsAnother
    <2>1. calls'[i] = calls[i] /\ calls[i].pair \in Pairs
      BY DEF IInv, CallsForward, Forward, IsCall
    <2> QED BY <2>1, <1>1 DEF IInv, FriendshipInvariant, AcceptsAnother, RowOf
  <1>4. \A q \in Pairs : AskedBy(q)' /\ RowIsAsked(q)'
    BY <1>1 DEF IInv, FriendshipInvariant, AskedBy, RowIsAsked
  <1>5. FriendshipIsMutual'
    BY <1>1 DEF IInv, FriendshipInvariant, FriendshipIsMutual, NoRow
  <1> QED BY <1>2, <1>3, <1>4, <1>5 DEF IInv, FriendshipInvariant

\* So does an accept that has read another's request and goes on to its update.
LEMMA AcceptMoves ==
    ASSUME IInv, NEW i \in CallIds, calls[i].op = "accept", RowOf(i).by # calls[i].user,
           At(i, "write"), UNCHANGED <<friendship, asked, overtaken>>
    PROVE  IInv'
  <1> DEFINE d == [calls[i] EXCEPT !.at = "write"]
  <1>1. IsCall(d) /\ d.pair = calls[i].pair /\ d.user = calls[i].user
    BY DEF IInv, Shaped, IsCall
  <1>2. /\ calls' = [j \in CallIds |-> calls'[j]] /\ calls'[i] = d
        /\ \A j \in CallIds : j # i => calls'[j] = calls[j]
    BY DEF IInv, Shaped, At
  <1> HIDE DEF d
  <1>3. Shaped'
    BY <1>1, <1>2 DEF IInv, Shaped
  <1>4. \A j \in CallIds : AcceptsAnother(j)'
    BY <1>1, <1>2 DEF IInv, FriendshipInvariant, AcceptsAnother, RowOf
  <1>5. /\ \A p \in Pairs : AskedBy(p)' /\ RowIsAsked(p)'
        /\ FriendshipIsMutual'
    BY DEF IInv, FriendshipInvariant, AskedBy, RowIsAsked, FriendshipIsMutual
  <1> QED BY <1>3, <1>4, <1>5 DEF IInv, FriendshipInvariant

-----------------------------------------------------------------------------
(* One lemma per group of actions. *)

LEMMA InitHolds == ASSUME Init PROVE IInv
  <1>1. Shaped
    BY NoCallIsCall DEF Init, Shaped, RowRecords
  <1>2. FriendshipInvariant
    BY DEF Init, FriendshipInvariant, AskedBy, RowIsAsked, AcceptsAnother, FriendshipIsMutual,
           NoCall, NoRow
  <1> QED BY <1>1, <1>2 DEF IInv

LEMMA DatabaseKeeps ==
    ASSUME IInv, NEW i \in CallIds,
           \/ SendReads(i) \/ SendInserts(i) \/ AcceptReads(i) \/ AcceptUpdates(i)
           \/ Deletes(i) \/ DeleteClassified(i)
    PROVE  IInv'
  <1> DEFINE c == calls[i]
  <1>0. Shaped /\ IsCall(c)
    BY DEF IInv, Shaped
  <1>1. CASE SendReads(i)
    <2>1. CallsForward
      <3>1. CASE RowOf(i) = NoRow
        BY <1>1, <3>1, <1>0, AtForward DEF SendReads, Calls
      <3>2. CASE RowOf(i) # NoRow
        BY <1>1, <3>2, <1>0, AnsweredForward DEF SendReads
      <3> QED BY <3>1, <3>2
    <2> QED BY <1>1, <2>1, RowsAlone DEF SendReads
  <1>2. CASE SendInserts(i)
    <2>1. c.pair \in Pairs /\ c.user \in c.pair /\ c.user \in Users
      BY <1>2, <1>0 DEF SendInserts, Calls, IsCall, Pairs
    <2>2. CASE RowOf(i) = NoRow
      <3> DEFINE row == [status |-> "pending", by |-> c.user]
      <3>1. CallsForward
        BY <1>2, <2>2, <1>0, AnsweredForward DEF SendInserts
      <3>2. row \in RowRecords /\ row.by = c.user /\ row.status # "accepted"
        BY <2>1 DEF RowRecords
      <3>3. /\ friendship' = [friendship EXCEPT ![c.pair] = row]
            /\ asked' = [asked EXCEPT ![c.pair] = @ \cup {c.user}]
        BY <1>2, <2>2 DEF SendInserts, Asks
      <3>4. /\ \A q \in Pairs : q # c.pair => (q \in overtaken' <=> q \in overtaken)
            /\ overtaken' \subseteq Pairs
            /\ c.pair \notin overtaken' => ~StillAccepts(c.user, c.pair)
        BY <1>2, <2>2, <2>1, <1>0 DEF SendInserts, Shaped
      <3>5. ~StillAccepts(c.user, c.pair) => \A j \in CallIds : Faces(j, c.pair, row)
        BY <3>2 DEF StillAccepts, Calls, Faces
      <3>6. row # NoRow
        BY DEF NoRow
      <3> HIDE DEF row, c
      <3> QED BY <2>1, <3>1, <3>2, <3>3, <3>4, <3>5, <3>6, RowWritten
    <2>3. CASE RowOf(i) # NoRow
      <3>1. CallsForward
        BY <1>2, <2>3, <1>0, AnsweredForward DEF SendInserts
      <3> QED BY <1>2, <2>3, <3>1, RowsAlone DEF SendInserts
    <2> QED BY <2>2, <2>3
  <1>3. CASE AcceptReads(i)
    <2>1. c.pair \in Pairs /\ c.user \in c.pair /\ c.op = "accept"
      BY <1>3, <1>0 DEF AcceptReads, Calls, IsCall
    <2>2. CASE AcceptVerdict(RowOf(i), c.user) # "go on"
      <3>1. CallsForward
        BY <1>3, <2>2, <1>0, AnsweredForward DEF AcceptReads
      <3> QED BY <1>3, <3>1, RowsAlone DEF AcceptReads
    <2>3. CASE AcceptVerdict(RowOf(i), c.user) = "go on"
      <3>1. RowOf(i) # NoRow /\ RowOf(i).by # c.user
        BY <2>3 DEF AcceptVerdict
      <3>2. At(i, "write") /\ UNCHANGED <<friendship, asked, overtaken>>
        BY <1>3, <2>3 DEF AcceptReads
      <3> QED BY <2>1, <3>1, <3>2, AcceptMoves
    <2> QED BY <2>2, <2>3
  <1>4. CASE AcceptUpdates(i)
    <2>1. c.pair \in Pairs /\ c.user \in c.pair /\ c.op = "accept" /\ c.at = "write"
      BY <1>4, <1>0 DEF AcceptUpdates, Calls, IsCall
    <2>2. CASE RowOf(i) = NoRow
      <3>1. CallsForward
        BY <1>4, <2>2, <1>0, AnsweredForward DEF AcceptUpdates
      <3> QED BY <1>4, <2>2, <3>1, RowsAlone DEF AcceptUpdates
    <2>3. CASE RowOf(i) # NoRow
      <3> DEFINE old == friendship[c.pair]
                 row == [old EXCEPT !.status = "accepted"]
      <3>1. CallsForward
        BY <1>4, <2>3, <1>0, AnsweredForward DEF AcceptUpdates
      <3>2. old \in [status : {"pending", "accepted"}, by : Users]
        BY <2>1, <2>3, <1>0 DEF Shaped, RowRecords, RowOf
      <3>3. row \in RowRecords /\ row.by = old.by
        BY <3>2 DEF RowRecords
      <3>4. old.by \in asked[c.pair]
        BY <2>1, <2>3 DEF IInv, FriendshipInvariant, RowIsAsked, RowOf
      <3>5. c.pair \notin overtaken => asked[c.pair] \cup {c.user} = c.pair
        <4> SUFFICES ASSUME c.pair \notin overtaken PROVE asked[c.pair] \cup {c.user} = c.pair
          OBVIOUS
        <4> DEFINE v == old.by
        <4>1. v \in asked[c.pair] /\ v # c.user
          BY <2>1, <2>3, <3>4 DEF IInv, FriendshipInvariant, AcceptsAnother, RowOf
        <4>2. asked[c.pair] \subseteq c.pair
          BY <2>1 DEF IInv, FriendshipInvariant, AskedBy
        <4> DEFINE S == asked[c.pair] \cup {c.user}
        <4>3. S \in SUBSET c.pair /\ v \in S /\ c.user \in S
          BY <2>1, <4>1, <4>2
        <4>4. c.pair \in Pairs /\ v # c.user
          BY <2>1, <4>1
        <4> HIDE DEF c, S, v
        <4>5. S = c.pair
          BY <4>3, <4>4, TwoAreAll
        <4> QED BY <4>5 DEF S
      <3>6. /\ friendship' = [friendship EXCEPT ![c.pair] = row]
            /\ asked' = [asked EXCEPT ![c.pair] = @ \cup {c.user}]
            /\ overtaken' = overtaken
        BY <1>4, <2>3, <2>1, <1>0 DEF AcceptUpdates, Asks, Shaped
      <3>7. c.pair \notin overtaken => \A j \in CallIds : Faces(j, c.pair, old)
        BY <2>3 DEF IInv, FriendshipInvariant, AcceptsAnother, RowOf, Faces
      <3>8. overtaken \subseteq Pairs /\ row # NoRow
        BY <1>0, <3>2 DEF Shaped, NoRow
      <3>9. \A j \in CallIds : Faces(j, c.pair, old) => Faces(j, c.pair, row)
        BY <3>3 DEF Faces
      <3> HIDE DEF row, c, old
      <3> QED BY <2>1, <3>1, <3>3, <3>4, <3>5, <3>6, <3>7, <3>8, <3>9, RowWritten
    <2> QED BY <2>2, <2>3
  <1>5. CASE Deletes(i)
    <2>1. CASE Deletable(RowOf(i), c.user, Guard(c.op))
      <3>1. CallsForward
        BY <1>5, <2>1, <1>0, AnsweredForward DEF Deletes
      <3> QED BY <1>5, <2>1, <3>1, RowDeleted DEF Deletes
    <2>2. CASE ~Deletable(RowOf(i), c.user, Guard(c.op))
      <3>1. CallsForward
        BY <1>5, <2>2, <1>0, AtForward DEF Deletes
      <3> QED BY <1>5, <2>2, <3>1, RowsAlone DEF Deletes
    <2> QED BY <2>1, <2>2
  <1>6. CASE DeleteClassified(i)
    <2>1. CallsForward
      BY <1>6, <1>0, AnsweredForward DEF DeleteClassified
    <2> QED BY <1>6, <2>1, RowsAlone DEF DeleteClassified
  <1> QED BY <1>1, <1>2, <1>3, <1>4, <1>5, <1>6

LEMMA ListsKeep == ASSUME IInv, Lists PROVE IInv'
  <1>1. UNCHANGED <<friendship, asked, overtaken, calls>>
    BY DEF Lists, ListAnswered, LoadEnds, LoadFails, MarkRead
  <1> QED BY <1>1, StillForward, RowsAlone DEF IInv

LEMMA ScreensKeep == ASSUME FriendsConstants, IInv, Screens PROVE IInv'
  <1>1. UNCHANGED <<friendship, asked, overtaken>>
    BY ZenonT(60) DEF Screens, Open, Leave, RetryLoad, CancelUnfriend, HandleConfirmUnfriend, FlagEmitted,
           AnswerArrives, HandleSendRequest, HandleAccept, HandleReject, HandleCancel,
           RequestUnfriend, Pressed
  <1>2. CallsForward
    <2>1. PICK u \in Viewers :
             \/ \E at \in {"friends", "notifications"} : Open(u, at)
             \/ Leave(u) \/ RetryLoad(u) \/ CancelUnfriend(u) \/ HandleConfirmUnfriend(u)
             \/ FlagEmitted(u)
             \/ \E i \in CallIds : AnswerArrives(u, i)
             \/ \E v \in Users \ {u} :
                   \/ HandleSendRequest(u, v) \/ HandleAccept(u, v) \/ HandleReject(u, v)
                   \/ HandleCancel(u, v) \/ RequestUnfriend(u, v)
      BY DEF Screens
    <2>2. u \in Users /\ Shaped
      BY DEF FriendsConstants, IInv
    <2>3. CASE \/ \E at \in {"friends", "notifications"} : Open(u, at)
               \/ RetryLoad(u) \/ CancelUnfriend(u) \/ FlagEmitted(u)
               \/ \E v \in Users \ {u} : RequestUnfriend(u, v)
      BY <2>3, <2>2, StillForward DEF Open, RetryLoad, CancelUnfriend, FlagEmitted, RequestUnfriend
    <2>4. CASE Leave(u)
      <3> DEFINE S == {i \in CallIds : calls[i].user = u /\ calls[i].at = "answered"}
      <3>1. calls' = [i \in CallIds |-> IF i \in S THEN NoCall ELSE calls[i]]
        BY <2>4 DEF Leave
      <3> HIDE DEF S
      <3> QED BY <3>1, <2>2, FreedForward
    <2>5. CASE \E i \in CallIds : AnswerArrives(u, i)
      <3>1. PICK i \in CallIds : calls' = [calls EXCEPT ![i] = NoCall]
        BY <2>5 DEF AnswerArrives
      <3>2. calls' = [j \in CallIds |-> IF j \in {i} THEN NoCall ELSE calls[j]]
        BY <3>1, <2>2 DEF Shaped
      <3> QED BY <3>2, <2>2, FreedForward
    <2>6. CASE HandleConfirmUnfriend(u)
      BY <2>6, <2>2, StartsForward DEF HandleConfirmUnfriend, DeleteFriend, Ops
    <2>7. ASSUME NEW v \in Users \ {u},
                 \/ HandleSendRequest(u, v) \/ HandleAccept(u, v) \/ HandleReject(u, v)
                 \/ HandleCancel(u, v)
          PROVE  CallsForward
      <3>1. PICK op \in Ops : Starts(u, op, v)
        BY <2>7 DEF HandleSendRequest, HandleAccept, HandleReject, HandleCancel, PostRequest,
                    PostAccept, PostReject, DeleteRequest, Ops
      <3> QED BY <3>1, <2>2, StartsForward
    <2> QED BY <2>1, <2>3, <2>4, <2>5, <2>6, <2>7
  <1> QED BY <1>1, <1>2, RowsAlone

LEMMA CallersKeep ==
    ASSUME IInv, NEW u \in Users, NEW v \in Users \ {u}, CallsApi(u, v)
    PROVE  IInv'
  <1>1. PICK op \in Ops : Starts(u, op, v)
    BY DEF CallsApi, PostRequest, PostAccept, PostReject, DeleteRequest, DeleteFriend, Ops
  <1>2. CallsForward
    BY <1>1, StartsForward DEF IInv
  <1> QED BY <1>2, RowsAlone DEF CallsApi

LEMMA NextKeeps == ASSUME FriendsConstants, IInv, [Next]_vars PROVE IInv'
  <1>1. CASE Database
    BY <1>1, DatabaseKeeps DEF Database
  <1>2. CASE Lists
    BY <1>2, ListsKeep
  <1>3. CASE Screens
    BY <1>3, ScreensKeep
  <1>4. CASE \E u \in Users : \E v \in Users \ {u} : CallsApi(u, v)
    BY <1>4, CallersKeep
  <1>5. CASE UNCHANGED vars
    BY <1>5, StillForward, RowsAlone DEF vars, IInv
  <1> QED BY <1>1, <1>2, <1>3, <1>4, <1>5 DEF Next

\* docs/spec.md: whatever the transactions of any number of accounts do between each
\* other's statements, nobody becomes a friend who did not ask for it since the pair was
\* last without a row, but for an acceptance overtaken by a withdrawal and a request.
THEOREM Mutual == FriendsConstants => (Spec => []FriendshipIsMutual)
  <1> SUFFICES ASSUME FriendsConstants PROVE Spec => []FriendshipIsMutual
    OBVIOUS
  <1>1. IInv /\ [Next]_vars => IInv'
    BY NextKeeps
  <1>2. IInv => FriendshipIsMutual
    BY DEF IInv, FriendshipInvariant
  <1> QED BY <1>1, <1>2, InitHolds, PTL DEF Spec

-----------------------------------------------------------------------------
\* Only the deletion of an unfriending, in the call itself, ends a friendship.
LEMMA EndsInDeletion ==
    ASSUME IInv, Next, NEW p \in Pairs,
           friendship[p].status = "accepted", friendship'[p] = NoRow
    PROVE  \E i \in CallIds : Runs(i, p) /\ calls[i].op = "remove"
  <1>0. friendship'[p] # friendship[p]
    BY DEF NoRow
  <1>1. PICK i \in CallIds :
           \/ SendReads(i) \/ SendInserts(i) \/ AcceptReads(i) \/ AcceptUpdates(i)
           \/ Deletes(i) \/ DeleteClassified(i)
    <2>1. Lists => UNCHANGED friendship
      BY DEF Lists, ListAnswered, LoadEnds, LoadFails, MarkRead
    <2>2. Screens => UNCHANGED friendship
      BY ZenonT(60) DEF Screens, Open, Leave, RetryLoad, CancelUnfriend, HandleConfirmUnfriend,
             FlagEmitted, AnswerArrives, HandleSendRequest, HandleAccept, HandleReject,
             HandleCancel, RequestUnfriend, Pressed
    <2>3. (\E u \in Users : \E v \in Users \ {u} : CallsApi(u, v)) => UNCHANGED friendship
      BY DEF CallsApi
    <2> QED BY <1>0, <2>1, <2>2, <2>3 DEF Next, Database
  <1>2. ~SendReads(i) /\ ~AcceptReads(i) /\ ~DeleteClassified(i)
    BY <1>0 DEF SendReads, AcceptReads, DeleteClassified
  <1>3. ~SendInserts(i)
    <2> SUFFICES ASSUME SendInserts(i) PROVE FALSE
      OBVIOUS
    <2>1. friendship' = [friendship EXCEPT ![calls[i].pair] =
                            [status |-> "pending", by |-> calls[i].user]]
      BY <1>0 DEF SendInserts
    <2> QED BY <2>1, <1>0 DEF NoRow, IInv, Shaped
  <1>4. ~AcceptUpdates(i)
    <2> SUFFICES ASSUME AcceptUpdates(i) PROVE FALSE
      OBVIOUS
    <2>1. friendship' = [friendship EXCEPT ![calls[i].pair].status = "accepted"]
      BY <1>0 DEF AcceptUpdates
    <2>2. friendship'[p] = [friendship[p] EXCEPT !.status = "accepted"]
      BY <2>1, <1>0 DEF IInv, Shaped
    <2>3. friendship[p] \in [status : {"pending", "accepted"}, by : Users]
      BY DEF IInv, Shaped, RowRecords, NoRow
    <2>4. [friendship[p] EXCEPT !.status = "accepted"].status = "accepted"
      BY <2>3
    <2> QED BY <2>2, <2>4 DEF NoRow
  <1>5. Deletes(i) /\ Deletable(RowOf(i), calls[i].user, Guard(calls[i].op))
    BY <1>0, <1>1, <1>2, <1>3, <1>4 DEF Deletes
  <1>6. calls[i].pair = p
    BY <1>0, <1>5 DEF Deletes, IInv, Shaped
  <1>7. calls[i].op = "remove"
    BY <1>5, <1>6 DEF Deletes, Calls, Deletable, Guard, RowOf
  <1>8. calls'[i] # calls[i]
    <2>1. calls'[i] \in {[calls[i] EXCEPT !.at = "answered", !.answer = "ok"], NoCall}
      BY <1>5 DEF Deletes, Answered, IInv, Shaped
    <2>2. calls[i].at = "read"
      BY <1>5 DEF Deletes, Calls
    <2>3. NoCall.op # "remove"
      BY DEF NoCall
    <2>4. [calls[i] EXCEPT !.at = "answered", !.answer = "ok"].at = "answered"
      BY DEF IInv, Shaped, IsCall
    <2> QED BY <2>1, <2>2, <2>3, <2>4, <1>7
  <1> QED BY <1>6, <1>7, <1>8 DEF Runs

\* A friendship ends by an unfriending only: a withdrawal or a rejection that races with
\* the acceptance does not end it, for any number of accounts and calls.
THEOREM EndsByUnfriending == FriendsConstants => (Spec => OnlyUnfriendingEnds)
  <1> SUFFICES ASSUME FriendsConstants PROVE Spec => OnlyUnfriendingEnds
    OBVIOUS
  <1>1. IInv /\ [Next]_vars => IInv'
    BY NextKeeps
  <1>2. IInv /\ [Next]_vars => [UnfriendingEnds]_vars
    BY EndsInDeletion DEF UnfriendingEnds
  <1> QED BY <1>1, <1>2, InitHolds, PTL DEF Spec, OnlyUnfriendingEnds

-----------------------------------------------------------------------------
(* Flags.  The events a mark is under way for have been shown. *)

IsLoad(l) ==
    /\ l = [user |-> l.user, at |-> l.at, then |-> l.then, todo |-> l.todo,
            lists |-> l.lists, events |-> l.events]
    /\ l.user \in Viewers
MarksShown(l) == l.then = "mark" => l.todo = {} /\ l.events \subseteq shown[l.user]
FlagsInv ==
    /\ flags \in [Viewers -> Seq({"unread", "read"})]
    /\ shown = [u \in Viewers |-> shown[u]]
    /\ \A l \in loads : IsLoad(l) /\ MarksShown(l)
    /\ ReadWasShown

LEMMA FreshLoad ==
    ASSUME NEW u \in Viewers, NEW at, NEW then
    PROVE  LET l == Load(u, at, then) IN IsLoad(l) /\ l.then = then
  BY DEF IsLoad, Load

SameLoad(l, d) == IsLoad(d) /\ d.user = l.user /\ d.then = l.then

LEMMA ChangedTodo ==
    ASSUME NEW l, IsLoad(l), NEW x, NEW d, d = [l EXCEPT !.todo = x]
    PROVE  SameLoad(l, d) /\ d.todo = x
  BY DEF IsLoad, SameLoad
LEMMA ChangedLists ==
    ASSUME NEW l, IsLoad(l), NEW x, NEW d, d = [l EXCEPT !.lists = x]
    PROVE  SameLoad(l, d) /\ d.todo = l.todo
  BY DEF IsLoad, SameLoad
LEMMA ChangedEvents ==
    ASSUME NEW l, IsLoad(l), NEW x, NEW d, d = [l EXCEPT !.events = x]
    PROVE  SameLoad(l, d) /\ d.todo = l.todo /\ d.events = x
  BY DEF IsLoad, SameLoad

\* Nothing is marked or shown, and what loads there are were there or are no mark.
LEMMA LoadsAlone ==
    ASSUME FlagsInv, UNCHANGED <<flags, shown>>,
           \A l \in loads' : l \in loads \/ (IsLoad(l) /\ l.then # "mark")
    PROVE  FlagsInv'
  BY DEF FlagsInv, MarksShown, ReadWasShown, IsLoad

LEMMA ListsFlags == ASSUME FlagsInv, Lists PROVE FlagsInv'
  <1>1. ASSUME NEW l \in loads, NEW what \in l.todo, ListAnswered(l, what) PROVE FlagsInv'
    <2> DEFINE d == [l EXCEPT !.todo = @ \ {what},
                     !.lists.friends = IF what = "friends" THEN FriendsOf(l.user) ELSE @,
                     !.lists.incoming = IF what = "incoming" THEN IncomingOf(l.user) ELSE @,
                     !.lists.outgoing = IF what = "outgoing" THEN OutgoingOf(l.user) ELSE @,
                     !.events = IF what = "events" THEN Page(l.user) ELSE @]
    <2>1. loads' = (loads \ {l}) \cup {d} /\ UNCHANGED <<flags, shown>>
      BY <1>1 DEF ListAnswered
    <2>2. IsLoad(l) /\ l.then # "mark"
      BY DEF FlagsInv, MarksShown
    <2>3. IsLoad(d) /\ d.then # "mark"
      <3> DEFINE e == [l EXCEPT !.todo = @ \ {what}]
                 f == [e EXCEPT !.lists = d.lists]
      <3>1. d = [f EXCEPT !.events = d.events]
        BY <2>2, ZenonT(60) DEF IsLoad
      <3> HIDE DEF d
      <3>2. SameLoad(l, e)
        BY <2>2, ChangedTodo
      <3> HIDE DEF e
      <3>3. SameLoad(e, f)
        BY <3>2, ChangedLists DEF SameLoad
      <3> HIDE DEF f
      <3>4. SameLoad(f, d)
        BY <3>1, <3>3, ChangedEvents DEF SameLoad
      <3> QED BY <2>2, <3>2, <3>3, <3>4 DEF SameLoad
    <2> HIDE DEF d
    <2> QED BY <2>1, <2>3, LoadsAlone
  <1>2. ASSUME NEW l \in loads, LoadEnds(l) PROVE FlagsInv'
    <2> DEFINE d == [Load(l.user, l.at, "mark") EXCEPT !.todo = {}, !.events = l.events]
    <2>0. l.user \in Viewers
      BY DEF FlagsInv, IsLoad
    <2>1. IsLoad(d) /\ d.user = l.user /\ d.todo = {} /\ d.events = l.events
      <3> DEFINE e == Load(l.user, l.at, "mark")
                 f == [e EXCEPT !.todo = {}]
      <3>1. IsLoad(e) /\ e.user = l.user
        BY <2>0, FreshLoad DEF Load
      <3>2. d = [f EXCEPT !.events = l.events]
        OBVIOUS
      <3> HIDE DEF d, e
      <3>3. SameLoad(e, f) /\ f.todo = {}
        BY <3>1, ChangedTodo
      <3> HIDE DEF f
      <3>4. SameLoad(f, d) /\ d.todo = f.todo /\ d.events = l.events
        BY <3>2, <3>3, ChangedEvents DEF SameLoad
      <3> QED BY <3>1, <3>3, <3>4 DEF SameLoad
    <2>2. \A k \in loads' : k \in loads \/ k = d
      BY <1>2 DEF LoadEnds
    <2>3. /\ shown' = [u \in Viewers |-> shown'[u]]
          /\ \A u \in Viewers : shown[u] \subseteq shown'[u]
          /\ l.events \subseteq shown'[l.user]
      BY <1>2, <2>0 DEF LoadEnds, FlagsInv
    <2> HIDE DEF d
    <2>4. \A k \in loads' : IsLoad(k) /\ MarksShown(k)'
      <3> TAKE k \in loads'
      <3>1. CASE k \in loads
        BY <3>1, <2>3 DEF FlagsInv, MarksShown, IsLoad
      <3>2. CASE k = d
        BY <3>2, <2>1, <2>3 DEF MarksShown
      <3> QED BY <3>1, <3>2, <2>2
    <2>5. flags' = flags /\ ReadWasShown'
      BY <1>2, <2>3 DEF LoadEnds, FlagsInv, ReadWasShown
    <2> QED BY <2>3, <2>4, <2>5 DEF FlagsInv, IsLoad
  <1>3. ASSUME NEW l \in loads, LoadFails(l) PROVE FlagsInv'
    BY <1>3, LoadsAlone DEF LoadFails
  <1>4. ASSUME NEW l \in loads, NEW fails \in BOOLEAN, MarkRead(l, fails) PROVE FlagsInv'
    <2>1. UNCHANGED shown /\ loads' \subseteq loads
      BY <1>4 DEF MarkRead
    <2>2. CASE fails
      BY <1>4, <2>1, <2>2, LoadsAlone DEF MarkRead
    <2>3. CASE ~fails
      <3> DEFINE u == l.user
      <3>1. u \in Viewers /\ l.events \subseteq shown[u]
        BY <1>4 DEF FlagsInv, MarksShown, IsLoad, MarkRead
      <3>2. flags' = [flags EXCEPT ![u] = Marked(u, l.events)]
        BY <1>4, <2>3 DEF MarkRead
      <3>3. /\ Marked(u, l.events) \in Seq({"unread", "read"})
            /\ DOMAIN Marked(u, l.events) = DOMAIN flags[u]
            /\ \A f \in DOMAIN flags[u] : Marked(u, l.events)[f] = "read" =>
                  flags[u][f] = "read" \/ f \in l.events
        <4>1. flags[u] \in Seq({"unread", "read"})
          BY <3>1 DEF FlagsInv
        <4>2. DOMAIN flags[u] = 1 .. Len(flags[u]) /\ Len(flags[u]) \in Nat
          BY <4>1
        <4>3. Marked(u, l.events) \in [1 .. Len(flags[u]) -> {"unread", "read"}]
          BY <4>1, <4>2 DEF Marked
        <4>4. Marked(u, l.events) \in Seq({"unread", "read"})
          BY <4>2, <4>3
        <4> QED BY <4>4 DEF Marked
      <3> HIDE DEF u
      <3>4. flags' \in [Viewers -> Seq({"unread", "read"})]
        BY <3>1, <3>2, <3>3 DEF FlagsInv
      <3>5. ReadWasShown'
        BY <3>1, <3>2, <3>3, <2>1 DEF FlagsInv, ReadWasShown
      <3> QED BY <2>1, <3>4, <3>5 DEF FlagsInv, MarksShown, IsLoad
    <2> QED BY <2>2, <2>3
  <1> QED BY <1>1, <1>2, <1>3, <1>4 DEF Lists

LEMMA ScreensFlags == ASSUME IInv, FlagsInv, Screens PROVE FlagsInv'
  <1>1. PICK u \in Viewers :
           \/ \E at \in {"friends", "notifications"} : Open(u, at)
           \/ Leave(u) \/ RetryLoad(u) \/ CancelUnfriend(u) \/ HandleConfirmUnfriend(u)
           \/ FlagEmitted(u)
           \/ \E i \in CallIds : AnswerArrives(u, i)
           \/ \E v \in Users \ {u} :
                 \/ HandleSendRequest(u, v) \/ HandleAccept(u, v) \/ HandleReject(u, v)
                 \/ HandleCancel(u, v) \/ RequestUnfriend(u, v)
    BY DEF Screens
  <1>2. CASE (\E at \in {"friends", "notifications"} : Open(u, at)) \/ RetryLoad(u)
    <2>1. PICK at : loads' = loads \cup {Load(u, at, "open")} /\ UNCHANGED <<flags, shown>>
      BY <1>2 DEF Open, RetryLoad
    <2> QED BY <2>1, FreshLoad, LoadsAlone
  <1>3. CASE \E i \in CallIds : AnswerArrives(u, i)
    <2>1. PICK i \in CallIds : AnswerArrives(u, i)
      BY <1>3
    <2>2. CASE Reloads(i)
      <3>1. PICK at : loads' = loads \cup {Load(u, at, calls[i].op)}
        BY <2>1, <2>2 DEF AnswerArrives
      <3>2. calls[i].op # "mark"
        BY DEF IInv, Shaped, IsCall, Ops
      <3> QED BY <2>1, <3>1, <3>2, FreshLoad, LoadsAlone DEF AnswerArrives
    <2>3. CASE ~Reloads(i)
      BY <2>1, <2>3, LoadsAlone DEF AnswerArrives
    <2> QED BY <2>2, <2>3
  <1>4. CASE FlagEmitted(u)
    <2>1. flags' = [flags EXCEPT ![u] = Append(@, "unread")] /\ UNCHANGED <<loads, shown>>
      BY <1>4 DEF FlagEmitted
    <2>2. flags[u] \in Seq({"unread", "read"})
      BY DEF FlagsInv
    <2>3. /\ Append(flags[u], "unread") \in Seq({"unread", "read"})
          /\ \A f \in DOMAIN Append(flags[u], "unread") :
                Append(flags[u], "unread")[f] = "read" =>
                   f \in DOMAIN flags[u] /\ flags[u][f] = "read"
      BY <2>2
    <2> QED BY <2>1, <2>3 DEF FlagsInv, ReadWasShown, MarksShown, IsLoad
  <1>5. CASE Leave(u)
    BY <1>5, LoadsAlone DEF Leave
  <1>6. CASE \/ CancelUnfriend(u) \/ HandleConfirmUnfriend(u)
             \/ \E v \in Users \ {u} :
                   \/ HandleSendRequest(u, v) \/ HandleAccept(u, v) \/ HandleReject(u, v)
                   \/ HandleCancel(u, v) \/ RequestUnfriend(u, v)
    BY <1>6, LoadsAlone DEF CancelUnfriend, HandleConfirmUnfriend, HandleSendRequest, HandleAccept,
       HandleReject, HandleCancel, RequestUnfriend, Pressed
  <1> QED BY <1>1, <1>2, <1>3, <1>4, <1>5, <1>6

LEMMA NextFlags == ASSUME IInv, FlagsInv, [Next]_vars PROVE FlagsInv'
  <1>1. CASE Database
    <2>1. UNCHANGED <<loads, flags, shown>>
      BY <1>1 DEF Database, SendReads, SendInserts, AcceptReads, AcceptUpdates, Deletes,
                  DeleteClassified
    <2> QED BY <2>1, LoadsAlone
  <1>2. CASE (\E u \in Users : \E v \in Users \ {u} : CallsApi(u, v)) \/ UNCHANGED vars
    BY <1>2, LoadsAlone DEF CallsApi, vars
  <1> QED BY <1>1, <1>2, ListsFlags, ScreensFlags DEF Next

\* A flag is read only after a notifications screen has shown it, whatever arrives between
\* the load of a page, its end and the mark, and however many screens open and close.
THEOREM ReadAfterShown == FriendsConstants => (Spec => []ReadWasShown)
  <1> SUFFICES ASSUME FriendsConstants PROVE Spec => []ReadWasShown
    OBVIOUS
  <1>0. IInv /\ [Next]_vars => IInv'
    BY NextKeeps
  <1>1. Init => FlagsInv
    BY DEF Init, FlagsInv, ReadWasShown
  <1>2. FlagsInv => ReadWasShown
    BY DEF FlagsInv
  <1> QED BY <1>0, <1>1, <1>2, InitHolds, NextFlags, PTL DEF Spec

-----------------------------------------------------------------------------
(* The values of the screens, the loads and the calls.  A screen names     *)
(* other accounts than its own, also in the confirmation it waits for: the *)
(* call that follows is of a pair.                                         *)

ListsOf(u) ==
    [friends : SUBSET (Users \ {u}), incoming : SUBSET (Users \ {u}),
     outgoing : SUBSET (Users \ {u})]
ScreenOf(u) ==
    [at : {"none", "friends", "notifications"}, loading : BOOLEAN, failed : BOOLEAN,
     lists : ListsOf(u), pair : Pairs \cup {{}}, sending : (Users \ {u}) \cup {Nobody},
     target : (Users \ {u}) \cup {Nobody}, removing : BOOLEAN, awaits : SUBSET CallIds]

CallsAreTyped == \A i \in CallIds : calls[i] \in CallRecords \cup {NoCall}
ScreensAreTyped ==
    screen = [u \in Viewers |-> screen[u]] /\ \A u \in Viewers : screen[u] \in ScreenOf(u)
LoadsAreTyped == \A l \in loads : l.lists \in ListsOf(l.user) /\ l.user \in Viewers

FriendsTyped == CallsAreTyped /\ ScreensAreTyped /\ LoadsAreTyped

LEMMA NextCallIsFree ==
    ASSUME Free # {}
    PROVE  NextCall \in Free /\ NextCall \in CallIds
  <1>1. Free \subseteq CallIds /\ Free \subseteq Nat
    BY DEF Free, CallIds
  <1>2. LB!Min(Free) \in Free
    BY <1>1, LB!LeastNatural
  <1> QED BY <1>1, <1>2 DEF NextCall, LB!Min

LEMMA NobodyLists ==
    ASSUME NEW u
    PROVE  NoLists \in ListsOf(u)
  BY DEF NoLists, ListsOf

LEMMA OpenedIsTyped ==
    ASSUME NEW u, NEW at \in {"none", "friends", "notifications"}
    PROVE  Opened(at) \in ScreenOf(u) /\ Closed \in ScreenOf(u)
  BY NobodyLists DEF Opened, Closed, ScreenOf

LEMMA FriendsTypedAtStart == Init => FriendsTyped
  <1> SUFFICES ASSUME Init PROVE FriendsTyped
    OBVIOUS
  <1>1. CallsAreTyped
    BY DEF Init, CallsAreTyped
  <1>2. ScreensAreTyped
    BY OpenedIsTyped DEF Init, ScreensAreTyped
  <1> QED BY <1>1, <1>2 DEF Init, LoadsAreTyped, FriendsTyped

LEMMA NoCallAt == NoCall.at = "free"
  BY DEF NoCall

LEMMA DatabaseTyped ==
    ASSUME FriendsTyped, IInv, NEW i \in CallIds,
           \/ SendReads(i) \/ SendInserts(i) \/ AcceptReads(i) \/ AcceptUpdates(i)
           \/ Deletes(i) \/ DeleteClassified(i)
    PROVE  FriendsTyped'
  <1>1. UNCHANGED <<screen, loads>>
    BY DEF SendReads, SendInserts, AcceptReads, AcceptUpdates, Deletes, DeleteClassified
  <1>2. calls[i].at \in {"read", "write", "classify"}
    BY DEF SendReads, SendInserts, AcceptReads, AcceptUpdates, Deletes, DeleteClassified, Calls
  <1>3. \/ \E statement \in {"write", "classify"} : At(i, statement)
        \/ \E answer \in {"ok", "not_found", "forbidden", "conflict", "error"} :
              Answered(i, answer)
    <2>1. AcceptVerdict(RowOf(i), calls[i].user) \in {"not_found", "forbidden", "ok", "go on"}
      BY DEF AcceptVerdict
    <2>2. Classified(RowOf(i), calls[i].user, Guard(calls[i].op))
             \in {"not_found", "forbidden", "conflict"}
      BY DEF Classified
    <2> QED BY <2>1, <2>2
        DEF SendReads, SendInserts, AcceptReads, AcceptUpdates, Deletes, DeleteClassified
  <1>4. \A j \in CallIds : calls'[j] \in {calls[j], NoCall} \/ calls'[j] \in CallRecords
    <2>1. calls = [j \in CallIds |-> calls[j]]
      BY DEF IInv, Shaped
    <2>2. ASSUME NEW statement \in {"write", "classify"}, At(i, statement)
          PROVE  \A j \in CallIds : calls'[j] = calls[j] \/ calls'[j] \in CallRecords
      <3>1. calls[i] \in CallRecords
        BY <1>2, NoCallAt DEF FriendsTyped, CallsAreTyped
      <3>2. [calls[i] EXCEPT !.at = statement] \in CallRecords
        BY <3>1 DEF CallRecords
      <3> QED BY <2>1, <2>2, <3>2 DEF At
    <2>3. ASSUME NEW answer \in {"ok", "not_found", "forbidden", "conflict", "error"},
                 Answered(i, answer)
          PROVE  \A j \in CallIds : calls'[j] \in {calls[j], NoCall} \/ calls'[j] \in CallRecords
      <3>1. calls[i] \in CallRecords
        BY <1>2, NoCallAt DEF FriendsTyped, CallsAreTyped
      <3>2. [calls[i] EXCEPT !.at = "answered", !.answer = answer] \in CallRecords
        BY <3>1 DEF CallRecords
      <3> QED BY <2>1, <2>3, <3>2 DEF Answered
    <2> QED BY <1>3, <2>2, <2>3
  <1>5. CallsAreTyped'
    BY <1>4 DEF FriendsTyped, CallsAreTyped
  <1> QED BY <1>1, <1>5 DEF FriendsTyped, ScreensAreTyped, LoadsAreTyped

\* A call is begun.
LEMMA StartsTyped ==
    ASSUME CallsAreTyped, NEW u \in Users, NEW v \in Users \ {u}, NEW op \in Ops, Starts(u, op, v)
    PROVE  CallsAreTyped' /\ NextCall \in CallIds
  <1> DEFINE c == [user |-> u, op |-> op, pair |-> {u, v}, at |-> "read", answer |-> ""]
  <1>1. c \in CallRecords
    BY PairOfTwo DEF CallRecords
  <1>2. calls' = [calls EXCEPT ![NextCall] = c] /\ NextCall \in CallIds
    BY NextCallIsFree DEF Starts
  <1> HIDE DEF c
  <1>3. \A i \in CallIds : calls'[i] \in {c, calls[i]}
    BY <1>2
  <1> QED BY <1>1, <1>2, <1>3 DEF CallsAreTyped

LEMMA ApiTyped ==
    ASSUME FriendsTyped, NEW u \in Users, NEW v \in Users \ {u}, CallsApi(u, v)
    PROVE  FriendsTyped'
  <1>1. PICK op \in Ops : Starts(u, op, v)
    BY DEF CallsApi, PostRequest, PostAccept, PostReject, DeleteRequest, DeleteFriend, Ops
  <1>2. CallsAreTyped'
    BY <1>1, StartsTyped DEF FriendsTyped
  <1> QED BY <1>2 DEF CallsApi, FriendsTyped, ScreensAreTyped, LoadsAreTyped

\* The screen of one account becomes another one.
LEMMA ScreenWritten ==
    ASSUME ScreensAreTyped, NEW u \in Viewers, NEW s \in ScreenOf(u),
           screen' = [screen EXCEPT ![u] = s]
    PROVE  ScreensAreTyped'
  <1>1. /\ screen' = [w \in Viewers |-> screen'[w]]
        /\ \A w \in Viewers : screen'[w] = IF w = u THEN s ELSE screen[w]
    BY DEF ScreensAreTyped
  <1> QED BY <1>1 DEF ScreensAreTyped

LEMMA FreshLists ==
    ASSUME NEW u \in Viewers, NEW at, NEW then
    PROVE  LET l == Load(u, at, then) IN
               l.lists \in ListsOf(l.user) /\ l.user \in Viewers /\ l.then = then
  BY NobodyLists DEF Load

LEMMA EndsTyped ==
    ASSUME NEW u, NEW s \in ScreenOf(u), NEW op
    PROVE  Ends(s, op) \in ScreenOf(u)
  BY DEF Ends, ScreenOf

LEMMA ListsTyped ==
    ASSUME FriendsTyped, FlagsInv, FriendsConstants, Lists
    PROVE  FriendsTyped'
  <1>1. UNCHANGED calls
    BY DEF Lists, ListAnswered, LoadEnds, LoadFails, MarkRead
  <1>2. CallsAreTyped'
    BY <1>1 DEF FriendsTyped, CallsAreTyped
  <1>3. ASSUME NEW l \in loads, NEW what \in l.todo, ListAnswered(l, what)
        PROVE  FriendsTyped'
    <2> DEFINE d == [l EXCEPT !.todo = @ \ {what},
                     !.lists.friends = IF what = "friends" THEN FriendsOf(l.user) ELSE @,
                     !.lists.incoming = IF what = "incoming" THEN IncomingOf(l.user) ELSE @,
                     !.lists.outgoing = IF what = "outgoing" THEN OutgoingOf(l.user) ELSE @,
                     !.events = IF what = "events" THEN Page(l.user) ELSE @]
               lists == [friends |-> IF what = "friends" THEN FriendsOf(l.user)
                                     ELSE l.lists.friends,
                         incoming |-> IF what = "incoming" THEN IncomingOf(l.user)
                                     ELSE l.lists.incoming,
                         outgoing |-> IF what = "outgoing" THEN OutgoingOf(l.user)
                                     ELSE l.lists.outgoing]
    <2>1. loads' = (loads \ {l}) \cup {d} /\ UNCHANGED screen
      BY <1>3 DEF ListAnswered
    <2>2. l.lists \in ListsOf(l.user) /\ l.user \in Viewers
      BY DEF FriendsTyped, LoadsAreTyped
    <2>3. /\ FriendsOf(l.user) \subseteq Users \ {l.user} 
          /\ IncomingOf(l.user) \subseteq Users \ {l.user}
          /\ OutgoingOf(l.user) \subseteq Users \ {l.user}
      BY DEF FriendsOf, IncomingOf, OutgoingOf
    <2>4. lists \in ListsOf(l.user)
      BY <2>2, <2>3 DEF ListsOf
    <2>5. d.user = l.user /\ d.lists = lists
      <3>1. l = [user |-> l.user, at |-> l.at, then |-> l.then, todo |-> l.todo,
                lists |-> l.lists, events |-> l.events]
        BY DEF FlagsInv, IsLoad
      <3>2. l.lists = [friends |-> l.lists.friends, incoming |-> l.lists.incoming,
                      outgoing |-> l.lists.outgoing]
        BY <2>2 DEF ListsOf
      <3> QED BY <3>1, <3>2
    <2> HIDE DEF d, lists
    <2> QED BY <1>2, <2>1, <2>2, <2>4, <2>5 DEF FriendsTyped, LoadsAreTyped, ScreensAreTyped
  <1>4. ASSUME NEW l \in loads, LoadEnds(l)
        PROVE  FriendsTyped'
    <2> DEFINE u == l.user
               s == [Ends(screen[u], l.then) EXCEPT !.lists = l.lists]
               d == [Load(l.user, l.at, "mark") EXCEPT !.todo = {}, !.events = l.events]
    <2>1. u \in Viewers /\ l.lists \in ListsOf(u) /\ screen[u] \in ScreenOf(u)
      BY DEF FriendsTyped, LoadsAreTyped, ScreensAreTyped
    <2>2. Ends(screen[u], l.then) \in ScreenOf(u)
      BY <2>1, EndsTyped
    <2>3. s \in ScreenOf(u)
      BY <2>1, <2>2 DEF ScreenOf
    <2>4. screen' = [screen EXCEPT ![u] = s] /\ \A k \in loads' : k \in loads \/ k = d
      BY <1>4 DEF LoadEnds
    <2>5. d.lists \in ListsOf(d.user) /\ d.user \in Viewers
      BY <2>1, NobodyLists DEF Load
    <2> HIDE DEF s, d, u
    <2>6. ScreensAreTyped'
      BY <2>1, <2>3, <2>4, ScreenWritten DEF FriendsTyped
    <2> QED BY <1>2, <2>4, <2>5, <2>6 DEF FriendsTyped, LoadsAreTyped
  <1>5. ASSUME NEW l \in loads, LoadFails(l)
        PROVE  FriendsTyped'
    <2> DEFINE u == l.user
               s == [Ends(screen[u], l.then) EXCEPT !.failed = @ \/ l.then = "open"]
    <2>1. u \in Viewers /\ screen[u] \in ScreenOf(u)
      BY DEF FriendsTyped, LoadsAreTyped, ScreensAreTyped
    <2>2. Ends(screen[u], l.then) \in ScreenOf(u)
      BY <2>1, EndsTyped
    <2>3. s \in ScreenOf(u)
      BY <2>2 DEF ScreenOf
    <2>4. screen' = [screen EXCEPT ![u] = s] /\ loads' \subseteq loads
      BY <1>5 DEF LoadFails
    <2> HIDE DEF s, u
    <2>5. ScreensAreTyped'
      BY <2>1, <2>3, <2>4, ScreenWritten DEF FriendsTyped
    <2> QED BY <1>2, <2>4, <2>5 DEF FriendsTyped, LoadsAreTyped
  <1>6. ASSUME NEW l \in loads, NEW fails \in BOOLEAN, MarkRead(l, fails)
        PROVE  FriendsTyped'
    BY <1>2, <1>6 DEF MarkRead, FriendsTyped, LoadsAreTyped, ScreensAreTyped
  <1> QED BY <1>3, <1>4, <1>5, <1>6 DEF Lists

\* A button of a screen is pressed: a call starts, and the screen awaits it.
LEMMA PressedTyped ==
    ASSUME FriendsTyped, NEW u \in Viewers, u \in Users, NEW v \in Users \ {u}, NEW op \in Ops,
           NEW s \in ScreenOf(u), Starts(u, op, v), Pressed(u, s)
    PROVE  FriendsTyped'
  <1> DEFINE t == [s EXCEPT !.awaits = @ \cup {NextCall}]
  <1>1. CallsAreTyped' /\ NextCall \in CallIds
    BY StartsTyped DEF FriendsTyped
  <1>2. t \in ScreenOf(u)
    BY <1>1 DEF ScreenOf
  <1>3. screen' = [screen EXCEPT ![u] = t] /\ UNCHANGED loads
    BY DEF Pressed
  <1> HIDE DEF t
  <1>4. ScreensAreTyped'
    BY <1>2, <1>3, ScreenWritten DEF FriendsTyped
  <1> QED BY <1>1, <1>3, <1>4 DEF FriendsTyped, LoadsAreTyped

LEMMA ButtonsTyped ==
    ASSUME FriendsTyped, FriendsConstants, NEW u \in Viewers, NEW v \in Users \ {u},
           \/ HandleSendRequest(u, v) \/ HandleAccept(u, v) \/ HandleReject(u, v)
           \/ HandleCancel(u, v)
    PROVE  FriendsTyped'
  <1>1. u \in Users /\ screen[u] \in ScreenOf(u) /\ {u, v} \in Pairs
    BY PairOfTwo DEF FriendsTyped, ScreensAreTyped, FriendsConstants
  <1>2. [screen[u] EXCEPT !.sending = v] \in ScreenOf(u)
    BY <1>1 DEF ScreenOf
  <1>3. [screen[u] EXCEPT !.pair = {u, v}] \in ScreenOf(u)
    BY <1>1 DEF ScreenOf
  <1>4. CASE HandleSendRequest(u, v)
    BY <1>1, <1>2, <1>4, PressedTyped DEF HandleSendRequest, PostRequest, Ops
  <1>5. CASE HandleAccept(u, v)
    BY <1>1, <1>3, <1>5, PressedTyped DEF HandleAccept, PostAccept, Ops
  <1>6. CASE HandleReject(u, v)
    BY <1>1, <1>3, <1>6, PressedTyped DEF HandleReject, PostReject, Ops
  <1>7. CASE HandleCancel(u, v)
    BY <1>1, <1>3, <1>7, PressedTyped DEF HandleCancel, DeleteRequest, Ops
  <1> QED BY <1>4, <1>5, <1>6, <1>7

LEMMA AnswerTyped ==
    ASSUME FriendsTyped, NEW u \in Viewers, NEW i \in CallIds, AnswerArrives(u, i)
    PROVE  FriendsTyped'
  <1> DEFINE s == [screen[u] EXCEPT !.awaits = @ \ {i}]
             t == [s EXCEPT !.target = IF calls[i].op = "remove" THEN Nobody ELSE @]
             l == Load(u, s.at, calls[i].op)
  <1>1. screen[u] \in ScreenOf(u)
    BY DEF FriendsTyped, ScreensAreTyped
  <1>2. s \in ScreenOf(u)
    BY <1>1 DEF ScreenOf
  <1>3. t \in ScreenOf(u) /\ Ends(s, calls[i].op) \in ScreenOf(u)
    <2> HIDE DEF s
    <2>1. t \in ScreenOf(u)
      BY <1>2 DEF ScreenOf
    <2> QED BY <1>2, <2>1, EndsTyped
  <1>4. CallsAreTyped'
    BY DEF AnswerArrives, FriendsTyped, CallsAreTyped
  <1>5. l.lists \in ListsOf(l.user) /\ l.user \in Viewers
    BY FreshLists
  <1>6. \/ screen' = [screen EXCEPT ![u] = t] /\ loads' = loads \cup {l}
        \/ screen' = [screen EXCEPT ![u] = Ends(s, calls[i].op)] /\ UNCHANGED loads
    BY DEF AnswerArrives
  <1> HIDE DEF s, t, l
  <1>7. ScreensAreTyped'
    BY <1>3, <1>6, ScreenWritten DEF FriendsTyped
  <1>8. LoadsAreTyped'
    BY <1>5, <1>6 DEF FriendsTyped, LoadsAreTyped
  <1> QED BY <1>4, <1>7, <1>8 DEF FriendsTyped

LEMMA ScreensTyped ==
    ASSUME FriendsTyped, FriendsConstants, Screens
    PROVE  FriendsTyped'
  <1>1. ASSUME NEW u \in Viewers, NEW at \in {"friends", "notifications"}, Open(u, at)
        PROVE  FriendsTyped'
    <2>1. ScreensAreTyped'
      BY <1>1, OpenedIsTyped, ScreenWritten DEF Open, FriendsTyped
    <2>2. LoadsAreTyped'
      BY <1>1, FreshLists DEF Open, FriendsTyped, LoadsAreTyped
    <2> QED BY <1>1, <2>1, <2>2 DEF Open, FriendsTyped, CallsAreTyped
  <1>2. ASSUME NEW u \in Viewers, Leave(u)
        PROVE  FriendsTyped'
    <2>1. ScreensAreTyped'
      BY <1>2, OpenedIsTyped, ScreenWritten DEF Leave, FriendsTyped
    <2> QED BY <1>2, <2>1 DEF Leave, FriendsTyped, CallsAreTyped, LoadsAreTyped
  <1>3. ASSUME NEW u \in Viewers, RetryLoad(u)
        PROVE  FriendsTyped'
    <2> DEFINE s == [screen[u] EXCEPT !.loading = TRUE, !.failed = FALSE]
    <2>1. s \in ScreenOf(u)
      BY DEF FriendsTyped, ScreensAreTyped, ScreenOf
    <2>2. screen' = [screen EXCEPT ![u] = s]
      BY <1>3 DEF RetryLoad
    <2> HIDE DEF s
    <2>3. ScreensAreTyped'
      BY <2>1, <2>2, ScreenWritten DEF FriendsTyped
    <2>4. LoadsAreTyped'
      BY <1>3, FreshLists DEF RetryLoad, FriendsTyped, LoadsAreTyped
    <2> QED BY <1>3, <2>3, <2>4 DEF RetryLoad, FriendsTyped, CallsAreTyped
  <1>4. ASSUME NEW u \in Viewers, CancelUnfriend(u)
        PROVE  FriendsTyped'
    <2> DEFINE s == [screen[u] EXCEPT !.target = Nobody]
    <2>1. s \in ScreenOf(u)
      BY DEF FriendsTyped, ScreensAreTyped, ScreenOf
    <2>2. screen' = [screen EXCEPT ![u] = s]
      BY <1>4 DEF CancelUnfriend
    <2> HIDE DEF s
    <2>3. ScreensAreTyped'
      BY <2>1, <2>2, ScreenWritten DEF FriendsTyped
    <2> QED BY <1>4, <2>3 DEF CancelUnfriend, FriendsTyped, CallsAreTyped, LoadsAreTyped
  <1>5. ASSUME NEW u \in Viewers, HandleConfirmUnfriend(u)
        PROVE  FriendsTyped'
    <2>1. screen[u] \in ScreenOf(u) /\ u \in Users
      BY DEF FriendsTyped, ScreensAreTyped, FriendsConstants
    <2>2. screen[u].target \in Users \ {u}
      BY <1>5, <2>1 DEF HandleConfirmUnfriend, ScreenOf
    <2>3. [screen[u] EXCEPT !.removing = TRUE] \in ScreenOf(u)
      BY <2>1 DEF ScreenOf
    <2> QED BY <1>5, <2>1, <2>2, <2>3, PressedTyped DEF HandleConfirmUnfriend, DeleteFriend, Ops
  <1>6. ASSUME NEW u \in Viewers, FlagEmitted(u)
        PROVE  FriendsTyped'
    BY <1>6 DEF FlagEmitted, FriendsTyped, CallsAreTyped, ScreensAreTyped, LoadsAreTyped
  <1>7. ASSUME NEW u \in Viewers, NEW v \in Users \ {u}, RequestUnfriend(u, v)
        PROVE  FriendsTyped'
    <2> DEFINE s == [screen[u] EXCEPT !.target = v]
    <2>1. s \in ScreenOf(u)
      BY DEF FriendsTyped, ScreensAreTyped, ScreenOf
    <2>2. screen' = [screen EXCEPT ![u] = s]
      BY <1>7 DEF RequestUnfriend
    <2> HIDE DEF s
    <2>3. ScreensAreTyped'
      BY <2>1, <2>2, ScreenWritten DEF FriendsTyped
    <2> QED BY <1>7, <2>3 DEF RequestUnfriend, FriendsTyped, CallsAreTyped, LoadsAreTyped
  <1> QED BY <1>1, <1>2, <1>3, <1>4, <1>5, <1>6, <1>7, AnswerTyped, ButtonsTyped DEF Screens

LEMMA NextTyped ==
    ASSUME FriendsConstants, FriendsTyped, IInv, FlagsInv, [Next]_vars
    PROVE  FriendsTyped'
  <1>1. CASE UNCHANGED vars
    BY <1>1 DEF vars, FriendsTyped, CallsAreTyped, ScreensAreTyped, LoadsAreTyped, CallIds,
                ScreenOf, ListsOf
  <1>2. CASE Database
    BY <1>2, DatabaseTyped DEF Database
  <1> QED BY <1>1, <1>2, ListsTyped, ScreensTyped, ApiTyped DEF Next

LEMMA FriendsFit == ASSUME FriendsTyped, IInv, FlagsInv PROVE TypeOK
  <1>1. /\ friendship \in [Pairs -> RowRecords] /\ asked \in [Pairs -> SUBSET Users]
        /\ overtaken \subseteq Pairs
    BY DEF IInv, Shaped
  <1>2. \A i \in CallIds : calls[i].at = "free" \/ calls[i] \in CallRecords
    BY NoCallAt DEF FriendsTyped, CallsAreTyped
  <1>3. ASSUME NEW u \in Viewers
        PROVE  /\ screen[u].at \in {"none", "friends", "notifications"}
               /\ \A l \in DOMAIN screen[u].lists : screen[u].lists[l] \subseteq Users \ {u}
               /\ screen[u].pair \in Pairs \cup {{}}
               /\ flags[u] \in [1 .. Len(flags[u]) -> {"unread", "read"}]
    <2>1. screen[u] \in ScreenOf(u)
      BY DEF FriendsTyped, ScreensAreTyped
    <2>2. screen[u].lists \in ListsOf(u)
      BY <2>1 DEF ScreenOf
    <2>3. \A l \in DOMAIN screen[u].lists : screen[u].lists[l] \subseteq Users \ {u}
      BY <2>2 DEF ListsOf
    <2>4. flags[u] \in Seq({"unread", "read"})
      BY DEF FlagsInv
    <2>5. flags[u] \in [1 .. Len(flags[u]) -> {"unread", "read"}]
      BY <2>4
    <2> QED BY <2>1, <2>3, <2>5 DEF ScreenOf
  <1> QED BY <1>1, <1>2, <1>3 DEF TypeOK

\* Accounts, rows, calls, screens and loads keep to their kinds, and a list shown to an
\* account never names that account, whatever a page of them mixes.
THEOREM FriendsKeepTheirTypes == FriendsConstants => (Spec => []TypeOK)
  <1> SUFFICES ASSUME FriendsConstants PROVE Spec => []TypeOK
    OBVIOUS
  <1>1. IInv /\ [Next]_vars => IInv'
    BY NextKeeps
  <1>2. Init => FlagsInv
    BY DEF Init, FlagsInv, ReadWasShown
  <1>3. IInv /\ FlagsInv /\ [Next]_vars => FlagsInv'
    BY NextFlags
  <1>4. IInv /\ FlagsInv /\ FriendsTyped /\ [Next]_vars => FriendsTyped'
    BY NextTyped
  <1>5. IInv /\ FlagsInv /\ FriendsTyped => TypeOK
    BY FriendsFit
  <1> QED BY <1>1, <1>2, <1>3, <1>4, <1>5, InitHolds, FriendsTypedAtStart, PTL DEF Spec

-----------------------------------------------------------------------------
(* A card of the feed and its sheet.                                       *)

SheetRecords ==
    [open : BOOLEAN, mounted : BOOLEAN, dialog : BOOLEAN, state : {"open", "closed"},
     offset : FC!Drags, dragging : BOOLEAN, asked : BOOLEAN,
     mountFrame : BOOLEAN, showFrame : BOOLEAN, hideFrame : BOOLEAN, timer : BOOLEAN]

\* An open sheet waits for its mount or is shown; a timer is that of a closed one; and
\* what is not dragged is where it belongs.
SheetFits(s) ==
    /\ s \in SheetRecords
    /\ s.mountFrame => s.open
    /\ s.timer => ~s.open
    /\ s.open /\ s.mounted => s.dialog
    /\ ~s.dragging => s.offset = 0
    /\ s.dialog => s.mounted /\ (s.open \/ s.timer)
    /\ s.open => ~s.asked /\ (s.dialog \/ s.mountFrame)

\* What the effect needs of the state it is run in.
BeforeEffect(s) ==
    /\ s \in SheetRecords
    /\ s.mountFrame => s.open
    /\ s.open => ~s.asked /\ (s.mounted \/ s.mountFrame)
    /\ ~s.dragging => s.offset = 0
    /\ s.dialog => s.mounted

LEMMA EffectFits ==
    ASSUME NEW s, BeforeEffect(s)
    PROVE  SheetFits(FC!Effect(s))
  <1> DEFINE t == [s EXCEPT !.showFrame = FALSE, !.hideFrame = FALSE, !.timer = FALSE]
  <1>1. /\ t \in SheetRecords /\ t.timer = FALSE
        /\ t.open = s.open /\ t.mounted = s.mounted /\ t.dialog = s.dialog
        /\ t.offset = s.offset /\ t.dragging = s.dragging /\ t.asked = s.asked
        /\ t.mountFrame = s.mountFrame
    BY DEF BeforeEffect, SheetRecords
  <1> HIDE DEF t
  <1>2. FC!Effect(s) = IF ~s.mounted THEN t
                       ELSE IF s.open THEN [t EXCEPT !.dialog = TRUE, !.showFrame = TRUE]
                       ELSE [t EXCEPT !.hideFrame = TRUE, !.timer = TRUE]
    BY DEF FC!Effect, t
  <1>3. CASE ~s.mounted
    BY <1>1, <1>2, <1>3 DEF SheetFits, BeforeEffect
  <1>4. CASE s.mounted /\ s.open
    <2> DEFINE e == [t EXCEPT !.dialog = TRUE, !.showFrame = TRUE]
    <2>1. /\ e \in SheetRecords /\ e.dialog = TRUE /\ e.timer = t.timer
          /\ e.open = t.open /\ e.mounted = t.mounted /\ e.offset = t.offset
          /\ e.dragging = t.dragging /\ e.asked = t.asked /\ e.mountFrame = t.mountFrame
      BY <1>1 DEF SheetRecords
    <2> HIDE DEF e
    <2>2. FC!Effect(s) = e
      BY <1>2, <1>4 DEF e
    <2> QED BY <1>1, <1>4, <2>1, <2>2 DEF SheetFits, BeforeEffect
  <1>5. CASE s.mounted /\ ~s.open
    <2> DEFINE e == [t EXCEPT !.hideFrame = TRUE, !.timer = TRUE]
    <2>1. /\ e \in SheetRecords /\ e.dialog = t.dialog /\ e.timer = TRUE
          /\ e.open = t.open /\ e.mounted = t.mounted /\ e.offset = t.offset
          /\ e.dragging = t.dragging /\ e.asked = t.asked /\ e.mountFrame = t.mountFrame
      BY <1>1 DEF SheetRecords
    <2> HIDE DEF e
    <2>2. FC!Effect(s) = e
      BY <1>2, <1>5 DEF e
    <2> QED BY <1>1, <1>5, <2>1, <2>2 DEF SheetFits, BeforeEffect
  <1> QED BY <1>3, <1>4, <1>5

LEMMA ClosingFits ==
    ASSUME NEW s \in SheetRecords, s.dialog => s.mounted, ~s.dragging => s.offset = 0
    PROVE  SheetFits(FC!ClosedByParent(s))
  <1> DEFINE d == [s EXCEPT !.open = FALSE, !.mountFrame = FALSE]
  <1>1. BeforeEffect(d)
    BY DEF BeforeEffect, SheetRecords
  <1> QED BY <1>1, EffectFits DEF FC!ClosedByParent

LEMMA RequestFitsSheet ==
    ASSUME NEW s, SheetFits(s)
    PROVE  SheetFits(FC!RequestClose(s))
  <1>1. CASE s.asked
    BY <1>1 DEF FC!RequestClose
  <1>2. CASE ~s.asked
    <2> DEFINE d == [s EXCEPT !.asked = TRUE]
    <2>1. /\ d \in SheetRecords
          /\ d.dialog => d.mounted
          /\ ~d.dragging => d.offset = 0
      BY DEF SheetFits, SheetRecords
    <2> HIDE DEF d
    <2>2. FC!RequestClose(s) = FC!ClosedByParent(d)
      BY <1>2 DEF FC!RequestClose, d
    <2> QED BY <2>1, <2>2, ClosingFits
  <1> QED BY <1>1, <1>2

LEMMA ResetFits ==
    ASSUME NEW s, SheetFits(s)
    PROVE  SheetFits(FC!ResetDrag(s))
  <1> DEFINE d == [s EXCEPT !.dragging = FALSE, !.offset = 0]
  <1>1. /\ d \in SheetRecords /\ d.offset = 0
        /\ d.open = s.open /\ d.mounted = s.mounted /\ d.dialog = s.dialog
        /\ d.asked = s.asked /\ d.mountFrame = s.mountFrame /\ d.timer = s.timer
    <2>1. s \in SheetRecords /\ 0 \in FC!Drags
      BY DEF SheetFits, FC!Drags
    <2> QED BY <2>1 DEF SheetRecords
  <1> HIDE DEF d
  <1>2. FC!ResetDrag(s) = d
    BY DEF FC!ResetDrag, d
  <1> QED BY <1>1, <1>2 DEF SheetFits

LEMMA ParentFits ==
    ASSUME SheetFits(sheet), FC!ParentOpens \/ FC!ParentCloses
    PROVE  SheetFits(sheet')
  <1>1. CASE FC!ParentOpens
    <2> DEFINE d == [sheet EXCEPT !.open = TRUE, !.mountFrame = TRUE, !.asked = FALSE]
    <2>1. BeforeEffect(d)
      BY DEF BeforeEffect, SheetFits, SheetRecords
    <2>2. sheet' = FC!Effect(d)
      BY <1>1 DEF FC!ParentOpens, FC!Opened
    <2> QED BY <2>1, <2>2, EffectFits
  <1>2. CASE FC!ParentCloses
    BY <1>2, ClosingFits DEF FC!ParentCloses, SheetFits
  <1> QED BY <1>1, <1>2

LEMMA SheetKeeps ==
    ASSUME SheetFits(sheet), FC!SheetNext
    PROVE  SheetFits(sheet')
  <1>1. CASE FC!MountFrame
    <2>1. CASE sheet.mounted
      <3>1. sheet' = [sheet EXCEPT !.mountFrame = FALSE]
        BY <1>1, <2>1 DEF FC!MountFrame
      <3> QED BY <2>1, <3>1 DEF SheetFits, SheetRecords
    <2>2. CASE ~sheet.mounted
      <3> DEFINE d == [sheet EXCEPT !.mountFrame = FALSE, !.mounted = TRUE]
      <3>1. BeforeEffect(d)
        BY DEF BeforeEffect, SheetFits, SheetRecords
      <3>2. sheet' = FC!Effect(d)
        BY <1>1, <2>2 DEF FC!MountFrame
      <3> QED BY <3>1, <3>2, EffectFits
    <2> QED BY <2>1, <2>2
  <1>2. CASE FC!ShowFrame
    BY <1>2 DEF FC!ShowFrame, SheetFits, SheetRecords
  <1>3. CASE FC!HideFrame
    <2> DEFINE d == [sheet EXCEPT !.hideFrame = FALSE, !.state = "closed", !.offset = 0,
                            !.dragging = FALSE]
    <2>1. sheet \in SheetRecords /\ 0 \in FC!Drags
      BY DEF SheetFits, FC!Drags
    <2>2. /\ d \in SheetRecords /\ d.offset = 0
          /\ d.open = sheet.open /\ d.mounted = sheet.mounted /\ d.dialog = sheet.dialog
          /\ d.asked = sheet.asked /\ d.mountFrame = sheet.mountFrame /\ d.timer = sheet.timer
      BY <2>1 DEF SheetRecords
    <2>3. sheet' = d
      BY <1>3 DEF FC!HideFrame
    <2> HIDE DEF d
    <2> QED BY <2>2, <2>3 DEF SheetFits
  <1>4. CASE FC!Timer
    <2> DEFINE d == [sheet EXCEPT !.timer = FALSE, !.dialog = FALSE, !.mounted = FALSE]
    <2>1. BeforeEffect(d)
      BY <1>4 DEF FC!Timer, BeforeEffect, SheetFits, SheetRecords
    <2>2. sheet' = FC!Effect(d)
      BY <1>4 DEF FC!Timer
    <2> QED BY <2>1, <2>2, EffectFits
  <1>5. CASE FC!Dismiss
    BY <1>5, RequestFitsSheet DEF FC!Dismiss
  <1>6. CASE FC!PointerDown
    BY <1>6 DEF FC!PointerDown, SheetFits, SheetRecords
  <1>7. CASE FC!FinishDrag
    BY <1>7, RequestFitsSheet, ResetFits DEF FC!FinishDrag
  <1>8. CASE FC!PointerCancel
    BY <1>8, ResetFits DEF FC!PointerCancel
  <1>9. CASE \E to \in FC!Drags : FC!PointerMove(to)
    BY <1>9 DEF FC!PointerMove, SheetFits, SheetRecords
  <1> QED BY <1>1, <1>2, <1>3, <1>4, <1>5, <1>6, <1>7, <1>8, <1>9 DEF FC!SheetNext

\* The likes that are shown: those of others and the viewer's own.
Shown(h, mine) == h.others + (IF mine THEN 1 ELSE 0)

HeartRecords ==
    [liked : BOOLEAN, count : Nat, busy : BOOLEAN, failed : BOOLEAN, before : BOOLEAN,
     others : 0 .. Others]

\* The heart shows what it asked for until the answer, and can go back; unless an answer
\* was lost, the server has what the heart says or had before.
HeartFits ==
    /\ heart \in HeartRecords
    /\ likes \in [visible : BOOLEAN, mine : BOOLEAN]
    /\ call \in [at : {"none", "sent", "ok", "not_found"}, like : BOOLEAN]
    /\ deceived \in BOOLEAN /\ touch \in {"no", "tap", "swipe"}
    /\ heart.count = Shown(heart, heart.liked)
    /\ heart.busy <=> call.at # "none"
    /\ heart.busy => call.like = heart.liked
    /\ likes.visible => call.at # "not_found"
    /\ likes.visible /\ ~deceived =>
          likes.mine = IF call.at = "sent" THEN heart.before ELSE heart.liked

CardInvariant ==
    /\ reduced \in BOOLEAN /\ mobile \in BOOLEAN
    /\ SheetFits(sheet) /\ HeartFits

LEMMA CardHolds ==
    ASSUME FC!CardConstants, CardInvariant
    PROVE  FC!TypeOK /\ FC!HeartIsTrue /\ FC!SheetIsFree
  <1>1. FC!SheetTypeOK /\ FC!SheetIsFree
    BY DEF CardInvariant, SheetFits, SheetRecords, FC!SheetTypeOK, FC!SheetIsFree
  <1>2. heart.count \in 0 .. Others + 1 /\ FC!HeartIsTrue
    BY DEF CardInvariant, HeartFits, HeartRecords, Shown, FC!HeartIsTrue, FC!CardConstants
  <1> QED BY <1>1, <1>2 DEF CardInvariant, HeartFits, FC!TypeOK

LEMMA CardStarts ==
    ASSUME FC!CardConstants, FC!Init
    PROVE  CardInvariant
  <1>1. SheetFits(sheet)
    BY DEF FC!Init, FC!SheetInit, SheetFits, SheetRecords, FC!Drags
  <1>2. HeartFits
    <2>1. PICK mine \in BOOLEAN, n \in 0 .. Others :
             /\ likes = [visible |-> TRUE, mine |-> mine]
             /\ heart = [liked |-> mine, count |-> n + (IF mine THEN 1 ELSE 0),
                         busy |-> FALSE, failed |-> FALSE, before |-> mine, others |-> n]
      BY DEF FC!Init
    <2>2. n \in Nat /\ n + (IF mine THEN 1 ELSE 0) \in Nat
      BY DEF FC!CardConstants
    <2> QED BY <2>1, <2>2 DEF FC!Init, FC!Idle, HeartFits, HeartRecords, Shown
  <1> QED BY <1>1, <1>2 DEF FC!Init, FC!SheetInit, CardInvariant

LEMMA ToggleKeeps ==
    ASSUME FC!CardConstants, HeartFits, FC!ToggleLike
    PROVE  HeartFits'
  <1>1. /\ ~heart.busy /\ UNCHANGED <<touch, likes, deceived>>
        /\ call' = [at |-> "sent", like |-> ~heart.liked]
    BY DEF FC!ToggleLike, FC!HeartOffered
  <1>2. heart' = [liked |-> ~heart.liked, failed |-> FALSE, busy |-> TRUE,
                  before |-> heart.liked, others |-> heart.others,
                  count |-> IF heart.liked THEN (IF heart.count = 0 THEN 0 ELSE heart.count - 1)
                            ELSE heart.count + 1]
    BY DEF FC!ToggleLike, HeartFits, HeartRecords
  <1>3. /\ heart'.count = heart.others + (IF heart.liked THEN 0 ELSE 1)
        /\ heart'.count \in Nat
    BY <1>2 DEF HeartFits, HeartRecords, Shown, FC!CardConstants
  <1> QED BY <1>1, <1>2, <1>3 DEF HeartFits, HeartRecords, Shown

LEMMA ServeKeeps ==
    ASSUME HeartFits, FC!Serve \/ FC!SpotLost
    PROVE  HeartFits'
  <1>1. CASE FC!Serve
    <2>1. /\ call.at = "sent" /\ UNCHANGED <<heart, touch, deceived>>
          /\ call' = [at |-> IF likes.visible THEN "ok" ELSE "not_found", like |-> call.like]
          /\ likes' = [visible |-> likes.visible,
                       mine |-> IF likes.visible THEN call.like ELSE likes.mine]
      BY <1>1 DEF FC!Serve, HeartFits
    <2> QED BY <2>1 DEF HeartFits, Shown
  <1>2. CASE FC!SpotLost
    BY <1>2 DEF FC!SpotLost, HeartFits, Shown
  <1> QED BY <1>1, <1>2

\* An answer ends the request, and an error takes the heart back.
LEMMA RolledFits ==
    ASSUME FC!CardConstants, HeartFits, NEW ok \in BOOLEAN, FC!Answered(ok)
    PROVE  /\ heart' \in HeartRecords
           /\ heart'.liked = IF ok THEN heart.liked ELSE heart.before
           /\ heart'.count = Shown(heart', heart'.liked)
           /\ ~heart'.busy /\ call' = FC!Idle /\ UNCHANGED touch
  <1>0. heart \in HeartRecords /\ Shown(heart, heart.before) \in Nat
    BY DEF HeartFits, HeartRecords, Shown, FC!CardConstants
  <1>1. CASE ok
    <2>1. heart' = [heart EXCEPT !.busy = FALSE, !.failed = FALSE]
      BY <1>1 DEF FC!Answered
    <2>2. /\ heart' \in HeartRecords /\ ~heart'.busy
          /\ heart'.liked = heart.liked /\ heart'.count = heart.count
          /\ heart'.others = heart.others
      BY <1>0, <2>1 DEF HeartRecords
    <2> QED BY <1>1, <2>2 DEF FC!Answered, HeartFits, Shown
  <1>2. CASE ~ok
    <2> DEFINE h == FC!RolledBack(heart)
    <2>1. /\ h \in HeartRecords /\ h.liked = heart.before /\ h.others = heart.others
          /\ h.count = Shown(heart, heart.before)
      <3> DEFINE n == Shown(heart, heart.before)
                 d == [heart EXCEPT !.liked = heart.before, !.count = n]
      <3>1. h = d
        BY DEF FC!RolledBack, Shown
      <3>2. heart.before \in BOOLEAN /\ n \in Nat
        BY <1>0 DEF HeartRecords
      <3> HIDE DEF n
      <3>3. d \in HeartRecords /\ d.liked = heart.before /\ d.others = heart.others /\ d.count = n
        BY <1>0, <3>2 DEF HeartRecords
      <3> HIDE DEF d, h
      <3> QED BY <3>1, <3>3 DEF n
    <2>2. heart' = [h EXCEPT !.busy = FALSE, !.failed = TRUE]
      BY <1>2 DEF FC!Answered
    <2> HIDE DEF h
    <2>3. /\ heart' \in HeartRecords /\ ~heart'.busy
          /\ heart'.liked = h.liked /\ heart'.count = h.count /\ heart'.others = h.others
      BY <2>1, <2>2 DEF HeartRecords
    <2> QED BY <1>2, <2>1, <2>3 DEF FC!Answered, Shown
  <1> QED BY <1>1, <1>2

LEMMA AnsweredHeart ==
    ASSUME FC!CardConstants, HeartFits, FC!AnswerArrives \/ FC!RequestFails
    PROVE  HeartFits'
  <1>1. CASE FC!AnswerArrives
    <2>1. /\ call.at \in {"ok", "not_found"} /\ UNCHANGED <<likes, deceived>>
          /\ FC!Answered(call.at = "ok")
      BY <1>1 DEF FC!AnswerArrives
    <2>2. /\ heart' \in HeartRecords
          /\ heart'.liked = IF call.at = "ok" THEN heart.liked ELSE heart.before
          /\ heart'.count = Shown(heart', heart'.liked)
          /\ ~heart'.busy /\ call' = FC!Idle /\ UNCHANGED touch
      BY <2>1, RolledFits
    <2> QED BY <2>1, <2>2 DEF HeartFits, Shown, FC!Idle
  <1>2. CASE FC!RequestFails
    <2>1. call.at # "none" /\ deceived' = TRUE /\ FC!Answered(FALSE)
          /\ likes' \in [visible : BOOLEAN, mine : BOOLEAN]
      BY <1>2 DEF FC!RequestFails, HeartFits, HeartRecords
    <2>2. /\ heart' \in HeartRecords
          /\ heart'.count = Shown(heart', heart'.liked)
          /\ ~heart'.busy /\ call' = FC!Idle /\ UNCHANGED touch
      BY <2>1, RolledFits
    <2> QED BY <2>1, <2>2 DEF HeartFits, Shown, FC!Idle
  <1> QED BY <1>1, <1>2

LEMMA TouchKeeps ==
    ASSUME HeartFits, touch' \in {"no", "tap", "swipe"}, UNCHANGED <<heart, likes, call, deceived>>
    PROVE  HeartFits'
  BY DEF HeartFits, Shown

LEMMA CardKeeps ==
    ASSUME FC!CardConstants, CardInvariant, [FC!Next]_FC!vars
    PROVE  CardInvariant'
  <1>0. /\ reduced \in BOOLEAN /\ mobile \in BOOLEAN /\ SheetFits(sheet) /\ HeartFits
    BY DEF CardInvariant
  <1>1. CASE FC!ToggleLike \/ FC!Serve \/ FC!AnswerArrives \/ FC!RequestFails \/ FC!SpotLost
    <2>1. UNCHANGED <<sheet, reduced, mobile>>
      BY <1>1 DEF FC!ToggleLike, FC!Serve, FC!AnswerArrives, FC!RequestFails, FC!SpotLost,
                  FC!Answered, FC!sheetVars
    <2>2. HeartFits'
      BY <1>0, <1>1, ToggleKeeps, ServeKeeps, AnsweredHeart
    <2> QED BY <1>0, <2>1, <2>2 DEF CardInvariant
  <1>2. CASE FC!HandlePhotoTouchStart \/ FC!HandlePhotoTouchMove \/ FC!HandlePhotoActivate
             \/ FC!FollowAuthor
    <2>1. /\ touch' \in {"no", "tap", "swipe"} /\ UNCHANGED <<heart, likes, call, deceived>>
          /\ UNCHANGED <<reduced, mobile>>
          /\ UNCHANGED sheet \/ FC!ParentOpens \/ FC!ParentCloses
      BY <1>0, <1>2 DEF FC!HandlePhotoTouchStart, FC!HandlePhotoTouchMove, FC!HandlePhotoActivate,
                  FC!FollowAuthor, FC!OpenDetail, FC!sheetVars, FC!cardVars, HeartFits
    <2> QED BY <1>0, <2>1, TouchKeeps, ParentFits DEF CardInvariant
  <1>3. CASE FC!SheetNext /\ UNCHANGED FC!cardVars
    <2>1. UNCHANGED <<reduced, mobile, heart, touch, likes, call, deceived>>
      BY <1>3 DEF FC!SheetNext, FC!cardVars
    <2>2. HeartFits'
      BY <1>0, <2>1, TouchKeeps DEF HeartFits
    <2> QED BY <1>0, <1>3, <2>1, <2>2, SheetKeeps DEF CardInvariant
  <1>4. CASE UNCHANGED FC!vars
    BY <1>0, <1>4, TouchKeeps DEF FC!vars, FC!sheetVars, FC!cardVars, HeartFits, CardInvariant
  <1> QED BY <1>1, <1>2, <1>3, <1>4 DEF FC!Next

\* The heart shows what the viewer asked for last, or what the server said of it, and the
\* sheet can be dismissed and opened again, whatever timers and frames of it are under way.
THEOREM CardTellsTheTruth == FC!CardConstants => (FC!Spec => [](FC!HeartIsTrue /\ FC!SheetIsFree))
  <1> SUFFICES ASSUME FC!CardConstants PROVE FC!Spec => [](FC!HeartIsTrue /\ FC!SheetIsFree)
    OBVIOUS
  <1>1. FC!Init => CardInvariant
    BY CardStarts
  <1>2. CardInvariant /\ [FC!Next]_FC!vars => CardInvariant'
    BY CardKeeps
  <1>3. CardInvariant => FC!HeartIsTrue /\ FC!SheetIsFree
    BY CardHolds
  <1> QED BY <1>1, <1>2, <1>3, PTL DEF FC!Spec

-----------------------------------------------------------------------------
(* The search for users.                                                   *)

\* An answer that will count is to the query in the field, and true of it at some time
\* since it was typed.
HeardIsCurrent(r) ==
    /\ r.query = search.query /\ r.query # NoText
    /\ r.at = "answered" => r.users \in current

SearchInvariant ==
    /\ FS!TypeOK
    /\ \A r \in requests : ~r.cancelled => HeardIsCurrent(r)
    /\ search.query # NoText => named[search.query] \in current
    /\ FS!SearchIsTrue

LEMMA SearchStarts == FS!SearchConstants /\ FS!Init => SearchInvariant
  BY DEF FS!Init, SearchInvariant, FS!TypeOK, FS!NoSearch, FS!SearchIsTrue

\* What is typed, or a screen that is left, leaves no request to be heard.
LEMMA CancelledRequests ==
    ASSUME FS!TypeOK, requests' = FS!Cancelled
    PROVE  requests' \subseteq FS!Requests /\ \A r \in requests' : r.cancelled
  <1>1. \A r \in FS!Requests : LET d == [r EXCEPT !.cancelled = TRUE]
                              IN  d \in FS!Requests /\ d.cancelled
    BY DEF FS!Requests
  <1> QED BY <1>1 DEF FS!TypeOK, FS!Cancelled

LEMMA TypingKeeps ==
    ASSUME FS!SearchConstants, SearchInvariant, NEW q \in Queries \cup {NoText},
           FS!HandleSearchQueryChange(q)
    PROVE  SearchInvariant'
  <1>1. FS!TypeOK /\ requests' \subseteq FS!Requests /\ \A r \in requests' : r.cancelled
    BY CancelledRequests DEF SearchInvariant, FS!HandleSearchQueryChange
  <1>2. CASE q = NoText
    <2>1. search' = FS!NoSearch /\ current' = {} /\ UNCHANGED named
      BY <1>2 DEF FS!HandleSearchQueryChange, FS!Cleared
    <2> QED BY <1>1, <2>1 DEF SearchInvariant, FS!TypeOK, FS!SearchIsTrue, FS!NoSearch
  <1>3. CASE q # NoText
    <2>1. /\ search' = [search EXCEPT !.query = q, !.timer = TRUE]
          /\ current' = {named[q]} /\ UNCHANGED named
      BY <1>3 DEF FS!HandleSearchQueryChange
    <2>2. /\ search'.query = q /\ search'.timer = TRUE
          /\ search' \in [query : Queries \cup {NoText}, results : SUBSET People,
                          searching : BOOLEAN, error : BOOLEAN, timer : BOOLEAN]
      BY <1>1, <2>1 DEF FS!TypeOK
    <2>3. named[q] \in SUBSET People
      BY <1>1, <1>3 DEF FS!TypeOK
    <2> QED BY <1>1, <1>3, <2>1, <2>2, <2>3
        DEF SearchInvariant, FS!TypeOK, FS!SearchIsTrue, FS!Awaited
  <1> QED BY <1>2, <1>3

LEMMA LeavingKeeps ==
    ASSUME FS!SearchConstants, SearchInvariant, FS!Leave
    PROVE  SearchInvariant'
  <1>1. FS!TypeOK /\ requests' \subseteq FS!Requests /\ \A r \in requests' : r.cancelled
    BY CancelledRequests DEF SearchInvariant, FS!Leave
  <1> QED BY <1>1 DEF FS!Leave, SearchInvariant, FS!TypeOK, FS!SearchIsTrue, FS!NoSearch

LEMMA TimerKeeps ==
    ASSUME FS!SearchConstants, SearchInvariant, FS!TimerFires
    PROVE  SearchInvariant'
  <1>1. PICK n \in 1..MaxAsked :
            requests' = requests \cup {[id |-> n, query |-> search.query, cancelled |-> FALSE,
                                        at |-> "sent", users |-> {}]}
    BY DEF FS!TimerFires
  <1> DEFINE asking == [id |-> n, query |-> search.query, cancelled |-> FALSE,
                        at |-> "sent", users |-> {}]
  <1>2. /\ search.timer /\ UNCHANGED <<named, current>> /\ FS!TypeOK
        /\ search' = [search EXCEPT !.timer = FALSE, !.searching = TRUE]
    BY DEF FS!TimerFires, SearchInvariant
  <1>3. /\ search'.query = search.query /\ search'.timer = FALSE
        /\ search' \in [query : Queries \cup {NoText}, results : SUBSET People,
                        searching : BOOLEAN, error : BOOLEAN, timer : BOOLEAN]
    BY <1>2 DEF FS!TypeOK
  <1>4. search.query # NoText /\ search.query \in Queries
    <2>1. search.query # NoText
      BY <1>2 DEF SearchInvariant, FS!SearchIsTrue, FS!NoSearch
    <2> QED BY <1>2, <2>1 DEF FS!TypeOK
  <1>5. asking \in FS!Requests /\ ~asking.cancelled /\ asking.query = search.query
        /\ asking.at = "sent"
    BY <1>4 DEF FS!Requests
  <1> HIDE DEF asking
  <1>6. requests' = requests \cup {asking}
    BY <1>1 DEF asking
  <1>7. \A r \in requests' : ~r.cancelled => HeardIsCurrent(r)'
    BY <1>2, <1>3, <1>4, <1>5, <1>6 DEF SearchInvariant, HeardIsCurrent
  <1>8. FS!Awaited' /\ FS!TypeOK'
    BY <1>2, <1>3, <1>5, <1>6 DEF FS!Awaited, FS!TypeOK
  <1> QED BY <1>2, <1>3, <1>4, <1>7, <1>8 DEF SearchInvariant, FS!SearchIsTrue

\* The server answers, or does not.
LEMMA ServerKeeps ==
    ASSUME FS!SearchConstants, SearchInvariant, NEW r \in requests,
           FS!SearchUsers(r) \/ FS!SearchFails(r)
    PROVE  SearchInvariant'
  <1>1. r \in FS!Requests /\ FS!TypeOK
    BY DEF SearchInvariant, FS!TypeOK
  <1>2. PICK d \in FS!Requests :
            /\ requests' = (requests \ {r}) \cup {d} /\ UNCHANGED <<named, search, current>>
            /\ d.cancelled = r.cancelled /\ d.query = r.query
            /\ d.at = "answered" => d.users = named[r.query]
    <2>1. CASE FS!SearchUsers(r)
      <3> DEFINE d == [r EXCEPT !.at = "answered", !.users = named[r.query]]
      <3>1. named[r.query] \in SUBSET People
        BY <1>1 DEF FS!TypeOK, FS!Requests
      <3>2. d \in FS!Requests /\ d.cancelled = r.cancelled /\ d.query = r.query
            /\ d.users = named[r.query]
        BY <1>1, <3>1 DEF FS!Requests
      <3> QED BY <2>1, <3>2 DEF FS!SearchUsers
    <2>2. CASE FS!SearchFails(r)
      <3> DEFINE d == [r EXCEPT !.at = "failed"]
      <3>1. d \in FS!Requests /\ d.cancelled = r.cancelled /\ d.query = r.query
            /\ d.at = "failed"
        BY <1>1 DEF FS!Requests
      <3> QED BY <2>2, <3>1 DEF FS!SearchFails
    <2> QED BY <2>1, <2>2
  <1>3. \A x \in requests' : ~x.cancelled => HeardIsCurrent(x)'
    BY <1>2 DEF SearchInvariant, HeardIsCurrent
  <1>4. FS!TypeOK'
    BY <1>1, <1>2 DEF FS!TypeOK
  <1>5. FS!Awaited => FS!Awaited'
    BY <1>2 DEF FS!Awaited
  <1>6. FS!Awaited' => FS!Awaited
    BY <1>2 DEF FS!Awaited
  <1> QED BY <1>2, <1>3, <1>4, <1>5, <1>6 DEF SearchInvariant, FS!SearchIsTrue

LEMMA AnswerKeeps ==
    ASSUME FS!SearchConstants, SearchInvariant, NEW r \in requests, FS!AnswerArrives(r)
    PROVE  SearchInvariant'
  <1>1. /\ r \in FS!Requests /\ FS!TypeOK /\ requests' = requests \ {r}
        /\ UNCHANGED <<named, current>> /\ r.at \in {"answered", "failed"}
    BY DEF SearchInvariant, FS!TypeOK, FS!AnswerArrives
  <1>2. CASE r.cancelled
    <2>1. search' = search
      BY <1>2 DEF FS!AnswerArrives, FS!Heard
    <2>2. FS!Awaited' <=> FS!Awaited
      BY <1>1, <1>2, <2>1 DEF FS!Awaited
    <2> QED BY <1>1, <2>1, <2>2
        DEF SearchInvariant, FS!TypeOK, FS!SearchIsTrue, HeardIsCurrent
  <1>3. CASE ~r.cancelled
    <2>1. search' = [search EXCEPT !.searching = FALSE, !.error = r.at = "failed",
                                   !.results = r.users]
      BY <1>3 DEF FS!AnswerArrives, FS!Heard
    <2>2. /\ search'.query = search.query /\ search'.searching = FALSE
          /\ search'.results = r.users /\ search'.error = (r.at = "failed")
          /\ search' \in [query : Queries \cup {NoText}, results : SUBSET People,
                          searching : BOOLEAN, error : BOOLEAN, timer : BOOLEAN]
      BY <1>1, <2>1 DEF FS!TypeOK, FS!Requests
    <2>3. HeardIsCurrent(r) /\ search.query # NoText
      BY <1>3 DEF SearchInvariant, HeardIsCurrent
    <2>4. ~search'.error => search'.results \in current
      BY <1>1, <2>2, <2>3 DEF HeardIsCurrent
    <2> QED BY <1>1, <2>2, <2>3, <2>4
        DEF SearchInvariant, FS!TypeOK, FS!SearchIsTrue, HeardIsCurrent
  <1> QED BY <1>2, <1>3

LEMMA NamesKeep ==
    ASSUME FS!SearchConstants, SearchInvariant, NEW q \in Queries, NEW users \in SUBSET People,
           FS!NamesChange(q, users)
    PROVE  SearchInvariant'
  <1>1. /\ UNCHANGED <<search, requests>> /\ current \subseteq current'
        /\ named' = [named EXCEPT ![q] = users]
        /\ current' = IF q = search.query THEN current \cup {users} ELSE current
    BY DEF FS!NamesChange
  <1>2. FS!TypeOK'
    BY <1>1 DEF SearchInvariant, FS!TypeOK
  <1>3. search.query # NoText => named'[search.query] \in current'
    BY <1>1 DEF SearchInvariant, FS!TypeOK
  <1>4. FS!Awaited' <=> FS!Awaited
    BY <1>1 DEF FS!Awaited
  <1> QED BY <1>1, <1>2, <1>3, <1>4 DEF SearchInvariant, FS!SearchIsTrue, HeardIsCurrent

LEMMA SearchKeeps ==
    ASSUME FS!SearchConstants, SearchInvariant, [FS!Next]_FS!vars
    PROVE  SearchInvariant'
  <1>1. CASE UNCHANGED FS!vars
    BY <1>1 DEF FS!vars, SearchInvariant, FS!TypeOK, FS!SearchIsTrue, FS!Awaited, HeardIsCurrent
  <1>2. CASE FS!Next
    BY <1>2, TypingKeeps, LeavingKeeps, TimerKeeps, ServerKeeps, AnswerKeeps, NamesKeep
    DEF FS!Next
  <1> QED BY <1>1, <1>2

\* The list is what the query on the screen found, whatever answers come late or fail.
THEOREM SearchFindsWhatIsTyped == FS!SearchConstants => (FS!Spec => []FS!SearchIsTrue)
  <1> SUFFICES ASSUME FS!SearchConstants PROVE FS!Spec => []FS!SearchIsTrue
    OBVIOUS
  <1>1. FS!Init => SearchInvariant
    BY SearchStarts
  <1>2. SearchInvariant /\ [FS!Next]_FS!vars => SearchInvariant'
    BY SearchKeeps
  <1>3. SearchInvariant => FS!SearchIsTrue
    BY DEF SearchInvariant
  <1> QED BY <1>1, <1>2, <1>3, PTL DEF FS!Spec

-----------------------------------------------------------------------------
(* The photo of a spot.                                                    *)

\* When the load of the photo is over, its blob is the one shown or the photo failed.
Settled ==
    /\ image.forKey = PI!Hero(thumb)
    /\ \/ image.status = "error"
       \/ /\ image.src = made /\ made \in alive
          /\ image.visible => painted = made
          /\ image.status = "loading" => painted # made

PhotoInvariant ==
    /\ PI!TypeOK
    /\ \A l \in running : ~l.cancelled => l.photo = PI!Hero(thumb)
    /\ \A l \in running : \A k \in running : ~l.cancelled /\ ~k.cancelled => l = k
    /\ alive \subseteq {made}
    /\ PI!Loading => alive = {}
    /\ image.forKey = NoPhoto => image.src = PI!NoBlob /\ ~image.visible
    /\ image.src # PI!NoBlob => image.src.photo = image.forKey
    /\ image.status = "error" => image.src = PI!NoBlob /\ ~image.visible
    /\ ~PI!Loading /\ PI!Hero(thumb) # NoPhoto => Settled

LEMMA NoBlobIsNone ==
    PI!PhotoConstants => PI!NoBlob \notin PI!Blobs /\ NoPhoto \notin PI!Photos
  BY DEF PI!PhotoConstants, PI!NoBlob, PI!Blobs

\* What a reader sees follows from how the load stands.
LEMMA PhotoIsSettled == PI!PhotoConstants /\ PhotoInvariant => PI!PhotoIsTrue
  <1> SUFFICES ASSUME PI!PhotoConstants, PhotoInvariant PROVE PI!PhotoIsTrue
    OBVIOUS
  <1> DEFINE hero == PI!Hero(thumb)
  <1>1. CASE image.forKey = hero
    <2>1. PI!Active = image
      BY <1>1 DEF PI!Active
    <2>2. hero = NoPhoto => image.src = PI!NoBlob /\ ~image.visible
      BY <1>1 DEF PhotoInvariant
    <2>3. ~PI!Loading /\ hero # NoPhoto => Settled
      BY DEF PhotoInvariant
    <2>4. /\ alive \subseteq {made}
          /\ image.src # PI!NoBlob => image.src.photo = hero
          /\ image.status = "error" => image.src = PI!NoBlob /\ ~image.visible
      BY <1>1 DEF PhotoInvariant
    <2> HIDE DEF hero
    <2>5. image.src # PI!NoBlob /\ ~PI!Loading => image.src \in alive
      BY <2>2, <2>3, <2>4 DEF Settled
    <2>6. image.visible /\ ~PI!Loading => painted = image.src
      BY <2>2, <2>3, <2>4 DEF Settled
    <2>7. image.status = "loading" /\ hero # NoPhoto =>
              PI!Loading \/ (image.src \in alive /\ painted # image.src)
      BY <2>2, <2>3, <2>4 DEF Settled
    <2> QED BY <2>1, <2>4, <2>5, <2>6, <2>7 DEF PI!PhotoIsTrue, hero
  <1>2. CASE image.forKey # hero
    <2>1. PI!Active.src = PI!NoBlob /\ ~PI!Active.visible
      BY <1>2 DEF PI!Active, PI!LoadingState
    <2>2. ~PI!Loading => hero = NoPhoto
      BY <1>2 DEF PhotoInvariant, Settled
    <2> QED BY <2>1, <2>2 DEF PI!PhotoIsTrue, PhotoInvariant
  <1> QED BY <1>1, <1>2

LEMMA PhotoStarts == PI!PhotoConstants /\ PI!Init => PhotoInvariant
  BY DEF PI!Init, PhotoInvariant, PI!TypeOK, PI!LoadingState, PI!Loading, PI!Hero, PI!NoBlob

LEMMA PhotoFits ==
    ASSUME NEW t \in [spot : SpotPhotos \cup {NoPhoto}, place : PlaceURLs \cup {NoPhoto}]
    PROVE  PI!Hero(t) \in PI!Photos \cup {NoPhoto}
  BY DEF PI!Hero, PI!Photos

\* The states of the hook between loads.
LEMMA StatesFit ==
    ASSUME NEW photo \in PI!Photos \cup {NoPhoto}
    PROVE  /\ PI!LoadingState(photo) \in
                 [forKey : PI!Photos \cup {NoPhoto}, status : {"loading", "loaded", "error"},
                  src : PI!Blobs \cup {PI!NoBlob}, visible : BOOLEAN]
           /\ PI!ErrorState(photo) \in
                 [forKey : PI!Photos \cup {NoPhoto}, status : {"loading", "loaded", "error"},
                  src : PI!Blobs \cup {PI!NoBlob}, visible : BOOLEAN]
           /\ PI!LoadingState(photo).forKey = photo /\ PI!ErrorState(photo).forKey = photo
           /\ PI!LoadingState(photo).src = PI!NoBlob /\ PI!ErrorState(photo).src = PI!NoBlob
           /\ ~PI!LoadingState(photo).visible /\ ~PI!ErrorState(photo).visible
           /\ PI!LoadingState(photo).status = "loading" /\ PI!ErrorState(photo).status = "error"
  BY DEF PI!LoadingState, PI!ErrorState

LEMMA SpotKeeps ==
    ASSUME PI!PhotoConstants, PhotoInvariant,
           NEW t \in [spot : SpotPhotos \cup {NoPhoto}, place : PlaceURLs \cup {NoPhoto}],
           PI!SpotChanges(t)
    PROVE  PhotoInvariant'
  <1>1. PI!TypeOK /\ thumb' = t /\ PI!Hero(thumb') = PI!Hero(t)
    BY DEF PhotoInvariant, PI!SpotChanges
  <1>2. PI!Hero(thumb)' = PI!Hero(t)
    BY <1>1 DEF PI!Hero
  <1>3. CASE PI!Hero(t) = PI!Hero(thumb)
    <2>1. UNCHANGED <<image, running, made, alive, painted>>
      BY <1>3 DEF PI!SpotChanges
    <2> QED BY <1>1, <1>2, <1>3, <2>1 DEF PhotoInvariant, PI!TypeOK, PI!Loading, Settled
  <1>4. CASE PI!Hero(t) # PI!Hero(thumb)
    <2>1. /\ image' = IF PI!Remains(t) THEN image ELSE PI!LoadingState(PI!Hero(t))
          /\ running' = PI!Abandoned \cup PI!Started(PI!Hero(t))
          /\ alive' = PI!Revoked
          /\ made' = PI!NoBlob /\ painted' = PI!NoBlob
      BY <1>4 DEF PI!SpotChanges
    <2>2. alive' = {}
      BY <2>1 DEF PI!Revoked, PhotoInvariant
    <2>3. \A l \in PI!Abandoned :
             l \in [photo : PI!Photos, cancelled : BOOLEAN, at : {"asked", "body"}] /\ l.cancelled
      <3>1. \A l \in [photo : PI!Photos, cancelled : BOOLEAN, at : {"asked", "body"}] :
               LET d == [l EXCEPT !.cancelled = TRUE]
               IN  d \in [photo : PI!Photos, cancelled : BOOLEAN, at : {"asked", "body"}]
                   /\ d.cancelled
        OBVIOUS
      <3> QED BY <1>1, <3>1 DEF PI!Abandoned, PI!TypeOK
    <2>4. \A l \in PI!Started(PI!Hero(t)) :
             /\ l = [photo |-> PI!Hero(t), cancelled |-> FALSE, at |-> "asked"]
             /\ PI!Hero(t) \in PI!Photos
             /\ l \in [photo : PI!Photos, cancelled : BOOLEAN, at : {"asked", "body"}]
      <3>1. PI!Hero(t) \in PI!Photos \cup {NoPhoto}
        BY PhotoFits
      <3>2. CASE PI!Hero(t) = NoPhoto
        BY <3>2 DEF PI!Started
      <3>3. CASE PI!Hero(t) # NoPhoto
        <4> DEFINE l == [photo |-> PI!Hero(t), cancelled |-> FALSE, at |-> "asked"]
        <4>1. PI!Started(PI!Hero(t)) = {l}
          BY <3>3 DEF PI!Started
        <4>2. l \in [photo : PI!Photos, cancelled : BOOLEAN, at : {"asked", "body"}]
          BY <3>1, <3>3
        <4> QED BY <3>1, <3>3, <4>1, <4>2
      <3> QED BY <3>2, <3>3
    <2>5. \A l \in running' :
             /\ l \in [photo : PI!Photos, cancelled : BOOLEAN, at : {"asked", "body"}]
             /\ ~l.cancelled => l = [photo |-> PI!Hero(t), cancelled |-> FALSE, at |-> "asked"]
      BY <2>1, <2>3, <2>4
    <2>6. PI!Hero(t) # NoPhoto => PI!Loading'
      <3> SUFFICES ASSUME PI!Hero(t) # NoPhoto
                   PROVE  \E l \in running' : ~l.cancelled
        BY DEF PI!Loading
      <3>1. [photo |-> PI!Hero(t), cancelled |-> FALSE, at |-> "asked"] \in running'
        BY <2>1 DEF PI!Started
      <3> QED BY <3>1
    <2>7. /\ image' \in [forKey : PI!Photos \cup {NoPhoto},
                         status : {"loading", "loaded", "error"},
                         src : PI!Blobs \cup {PI!NoBlob}, visible : BOOLEAN]
          /\ image'.forKey = NoPhoto => image'.src = PI!NoBlob /\ ~image'.visible
          /\ image'.src # PI!NoBlob => image'.src.photo = image'.forKey
          /\ image'.status = "error" => image'.src = PI!NoBlob /\ ~image'.visible
      BY <1>1, <2>1, PhotoFits, StatesFit DEF PhotoInvariant, PI!TypeOK
    <2>8. PI!TypeOK'
      BY <1>1, <2>1, <2>2, <2>5, <2>7 DEF PI!TypeOK
    <2> QED BY <1>2, <2>2, <2>5, <2>6, <2>7, <2>8 DEF PhotoInvariant
  <1> QED BY <1>3, <1>4

LEMMA ResponseKeeps ==
    ASSUME PI!PhotoConstants, PhotoInvariant, NEW l \in running, PI!Responds(l)
    PROVE  PhotoInvariant'
  <1> DEFINE d == [l EXCEPT !.at = "body"]
  <1>1. /\ running' = (running \ {l}) \cup {d} /\ PI!TypeOK
        /\ UNCHANGED <<thumb, image, made, alive, painted>>
    BY DEF PI!Responds, PhotoInvariant
  <1>2. /\ d \in [photo : PI!Photos, cancelled : BOOLEAN, at : {"asked", "body"}]
        /\ d.cancelled = l.cancelled /\ d.photo = l.photo
    BY <1>1 DEF PI!TypeOK
  <1> HIDE DEF d
  <1>3. PI!Loading' <=> PI!Loading
    BY <1>1, <1>2 DEF PI!Loading
  <1>4. PI!TypeOK'
    BY <1>1, <1>2 DEF PI!TypeOK
  <1>5. PI!Hero(thumb)' = PI!Hero(thumb) /\ (Settled' <=> Settled)
    BY <1>1 DEF PI!Hero, Settled
  <1>6. \A x \in running' : ~x.cancelled => x.photo = PI!Hero(thumb)
    BY <1>1, <1>2 DEF PhotoInvariant
  <1>7. \A x \in running' : \A k \in running' : ~x.cancelled /\ ~k.cancelled => x = k
    BY <1>1, <1>2 DEF PhotoInvariant
  <1> QED BY <1>1, <1>3, <1>4, <1>5, <1>6, <1>7 DEF PhotoInvariant

\* A load that ends leaves no other that counts, if it counts itself.
LEMMA LoadOver ==
    ASSUME PhotoInvariant, NEW l \in running, running' = running \ {l}
    PROVE  /\ ~l.cancelled => ~PI!Loading'
           /\ l.cancelled => (PI!Loading' <=> PI!Loading)
  BY DEF PhotoInvariant, PI!Loading

LEMMA StoppedKeeps ==
    ASSUME PhotoInvariant, NEW l \in running, l.cancelled, running' = running \ {l},
           UNCHANGED <<thumb, image, made, alive, painted>>
    PROVE  PhotoInvariant'
  <1>1. PI!Loading' <=> PI!Loading
    BY LoadOver
  <1>2. PI!Hero(thumb)' = PI!Hero(thumb) /\ (Settled' <=> Settled)
    BY DEF PI!Hero, Settled
  <1>3. PI!TypeOK'
    BY DEF PhotoInvariant, PI!TypeOK
  <1> QED BY <1>1, <1>2, <1>3 DEF PhotoInvariant

LEMMA FailedKeeps ==
    ASSUME PI!PhotoConstants, PhotoInvariant, NEW l \in running, PI!LoadFails(l)
    PROVE  PhotoInvariant'
  <1>1. /\ running' = running \ {l} /\ UNCHANGED <<thumb, made, alive>> /\ PI!TypeOK
        /\ l \in [photo : PI!Photos, cancelled : BOOLEAN, at : {"asked", "body"}]
    BY DEF PI!LoadFails, PhotoInvariant, PI!TypeOK
  <1>2. CASE l.cancelled
    BY <1>1, <1>2, StoppedKeeps DEF PI!LoadFails, PI!Stops
  <1>3. CASE ~l.cancelled
    <2>1. image' = PI!ErrorState(l.photo) /\ painted' = PI!NoBlob
      BY <1>3 DEF PI!LoadFails, PI!Stops
    <2>2. l.photo = PI!Hero(thumb) /\ PI!Hero(thumb)' = PI!Hero(thumb) /\ l.photo # NoPhoto
      BY <1>1, <1>3, NoBlobIsNone DEF PhotoInvariant, PI!Hero
    <2>3. /\ image'.forKey = l.photo /\ image'.status = "error" /\ image'.src = PI!NoBlob
          /\ ~image'.visible
      BY <1>1, <2>1, StatesFit
    <2>4. PI!TypeOK'
      BY <1>1, <2>1, StatesFit DEF PI!TypeOK
    <2>5. ~PI!Loading' /\ Settled'
      BY <1>1, <1>3, <2>2, <2>3, LoadOver DEF Settled
    <2> QED BY <1>1, <2>2, <2>3, <2>4, <2>5 DEF PhotoInvariant
  <1> QED BY <1>2, <1>3

LEMMA BlobKeeps ==
    ASSUME PI!PhotoConstants, PhotoInvariant, NEW l \in running, PI!BlobIsRead(l)
    PROVE  PhotoInvariant'
  <1>1. /\ running' = running \ {l} /\ UNCHANGED thumb /\ PI!TypeOK
        /\ l \in [photo : PI!Photos, cancelled : BOOLEAN, at : {"asked", "body"}]
    BY DEF PI!BlobIsRead, PhotoInvariant, PI!TypeOK
  <1>2. CASE l.cancelled
    BY <1>1, <1>2, StoppedKeeps DEF PI!BlobIsRead, PI!Stops
  <1>3. CASE ~l.cancelled
    <2>1. PICK b \in PI!Blobs :
             /\ b.photo = l.photo /\ alive' = alive \cup {b} /\ made' = b
             /\ image' = [PI!LoadingState(l.photo) EXCEPT !.src = b] /\ painted' = PI!NoBlob
      BY <1>3 DEF PI!BlobIsRead, PI!Stops
    <2>2. l.photo = PI!Hero(thumb) /\ PI!Hero(thumb)' = PI!Hero(thumb) /\ l.photo # NoPhoto
      BY <1>1, <1>3, NoBlobIsNone DEF PhotoInvariant, PI!Hero
    <2>3. alive' = {b} /\ b # PI!NoBlob
      BY <1>3, <2>1, NoBlobIsNone DEF PhotoInvariant, PI!Loading
    <2>4. image' = [forKey |-> l.photo, status |-> "loading", src |-> b, visible |-> FALSE]
      BY <2>1 DEF PI!LoadingState
    <2>5. PI!TypeOK'
      <3>1. image' \in [forKey : PI!Photos \cup {NoPhoto}, status : {"loading", "loaded", "error"},
                        src : PI!Blobs \cup {PI!NoBlob}, visible : BOOLEAN]
        BY <1>1, <2>4
      <3>2. made' \in PI!Blobs /\ painted' = PI!NoBlob /\ alive' \subseteq PI!Blobs
        BY <2>1, <2>3
      <3> QED BY <1>1, <3>1, <3>2 DEF PI!TypeOK
    <2>6. ~PI!Loading' /\ Settled'
      BY <1>1, <1>3, <2>1, <2>2, <2>3, <2>4, LoadOver DEF Settled
    <2> QED BY <1>1, <2>1, <2>2, <2>3, <2>4, <2>5, <2>6 DEF PhotoInvariant
  <1> QED BY <1>2, <1>3

LEMMA ImageKeeps ==
    ASSUME PI!PhotoConstants, PhotoInvariant, PI!OnImageLoad \/ PI!OnImageError
    PROVE  PhotoInvariant'
  <1>1. /\ UNCHANGED <<thumb, running, made, alive>> /\ PI!TypeOK
        /\ PI!Active.src # PI!NoBlob /\ painted # PI!Active.src
    BY NoBlobIsNone DEF PI!OnImageLoad, PI!OnImageError, PhotoInvariant, PI!TypeOK
  <1>2. image.forKey = PI!Hero(thumb) /\ PI!Active = image
    BY <1>1 DEF PI!Active, PI!LoadingState
  <1>3. /\ PI!Hero(thumb)' = PI!Hero(thumb) /\ (PI!Loading' <=> PI!Loading)
        /\ PI!Hero(thumb) # NoPhoto /\ PI!Hero(thumb) \in PI!Photos \cup {NoPhoto}
    BY <1>1, <1>2 DEF PI!Hero, PI!Loading, PhotoInvariant, PI!TypeOK
  <1>4. CASE PI!OnImageLoad
    <2>1. /\ image.src \in alive /\ painted' = image.src
          /\ image' = [image EXCEPT !.status = "loaded", !.visible = TRUE]
      BY <1>2, <1>4 DEF PI!OnImageLoad
    <2>2. image' = [forKey |-> image.forKey, status |-> "loaded", src |-> image.src,
                    visible |-> TRUE]
      BY <1>1, <2>1 DEF PI!TypeOK
    <2>3. PI!TypeOK'
      BY <1>1, <2>1, <2>2 DEF PI!TypeOK
    <2>4. image.src = made
      BY <2>1 DEF PhotoInvariant
    <2>5. Settled'
      BY <1>1, <1>2, <1>3, <2>1, <2>2, <2>4 DEF Settled
    <2> QED BY <1>1, <1>2, <1>3, <2>2, <2>3, <2>5 DEF PhotoInvariant
  <1>5. CASE PI!OnImageError
    <2>1. image' = PI!ErrorState(PI!Hero(thumb)) /\ UNCHANGED painted
      BY <1>5 DEF PI!OnImageError
    <2>2. /\ image'.forKey = PI!Hero(thumb) /\ image'.status = "error"
          /\ image'.src = PI!NoBlob /\ ~image'.visible
      BY <1>3, <2>1, StatesFit
    <2>3. PI!TypeOK'
      BY <1>1, <1>3, <2>1, StatesFit DEF PI!TypeOK
    <2> QED BY <1>1, <1>3, <2>2, <2>3 DEF PhotoInvariant, Settled
  <1> QED BY <1>4, <1>5

LEMMA PhotoKeeps ==
    ASSUME PI!PhotoConstants, PhotoInvariant, [PI!Next]_PI!vars
    PROVE  PhotoInvariant'
  <1>1. CASE UNCHANGED PI!vars
    BY <1>1 DEF PI!vars, PhotoInvariant, PI!TypeOK, PI!Loading, Settled, PI!Hero
  <1>2. CASE PI!Next
    BY <1>2, SpotKeeps, ResponseKeeps, FailedKeeps, BlobKeeps, ImageKeeps DEF PI!Next
  <1> QED BY <1>1, <1>2

\* The image is a blob of the spot's photo that nobody revoked, and no spinner outlasts
\* the request it waits for.
THEOREM PhotoIsOfItsSpot == PI!PhotoConstants => (PI!Spec => []PI!PhotoIsTrue)
  <1> SUFFICES ASSUME PI!PhotoConstants PROVE PI!Spec => []PI!PhotoIsTrue
    OBVIOUS
  <1>1. PI!Init => PhotoInvariant
    BY PhotoStarts
  <1>2. PhotoInvariant /\ [PI!Next]_PI!vars => PhotoInvariant'
    BY PhotoKeeps
  <1>3. PhotoInvariant => PI!PhotoIsTrue
    BY PhotoIsSettled
  <1> QED BY <1>1, <1>2, <1>3, PTL DEF PI!Spec

-----------------------------------------------------------------------------
(* The map of spots.                                                       *)

\* The coordinates of the spots s are known, or failed, or are waited for.
Located(s, l) ==
    /\ s \subseteq Pins
    /\ l \in [found : SUBSET Pins, resolved : SUBSET Pins, error : SUBSET Pins,
              awaited : SUBSET Pins, from : SUBSET Pins]
    /\ l.awaited \in {{}, s}
    /\ l.error = l.resolved \/ l.from = l.resolved
    /\ MV!Loading(s, l) => l.awaited = s

\* The ref of a failure is what is shown of it; what is made or watched is on the screen.
FailureFits(f) ==
    /\ f \in [shown : BOOLEAN, ref : BOOLEAN, broken : BOOLEAN]
    /\ f.ref = f.shown /\ f.broken = f.shown
ScreenFits ==
    /\ map \in [mounted : BOOLEAN, made : BOOLEAN, watched : BOOLEAN, painted : BOOLEAN]
    /\ map.made \/ map.watched => map.mounted
    /\ FailureFits(failure)
    /\ map.mounted <=> MV!MapShown(spots, located, failure)

CameraFits(p) ==
    /\ p \in [known : BOOLEAN, asked : BOOLEAN, error : BOOLEAN, focus : BOOLEAN,
              camera : {"none", "spots", "user", "hand"}]
    /\ p.focus => p.camera # "spots"

\* My page has nothing to show before its spots are loaded, and knows when the map failed.
BoardFits ==
    /\ board \in [host : MV!Hosts, at : {"ready", "loading", "failed"}, failed : BOOLEAN,
                  hasKey : BOOLEAN]
    /\ board.host = "home" => board.at = "ready"
    /\ board.at # "ready" => spots = {} /\ located = MV!NothingLocated /\ ~failure.shown
    /\ board.host = "mypage" /\ spots # {} => board.failed = (failure.shown \/ ~board.hasKey)

MapInvariant ==
    /\ Located(spots, located) /\ ScreenFits /\ CameraFits(position) /\ BoardFits
    /\ script \in MV!Scripts

LEMMA MapIsTrue == MapInvariant => MV!TypeOK /\ MV!MapIsHonest
  <1> SUFFICES ASSUME MapInvariant PROVE MV!TypeOK /\ MV!MapIsHonest
    OBVIOUS
  <1>1. MV!TypeOK
    BY DEF MapInvariant, Located, ScreenFits, CameraFits, BoardFits, MV!TypeOK
  <1>2. spots # {} /\ ~MV!Loading(spots, located) /\ located.error # spots => located.from = spots
    BY DEF MapInvariant, Located, MV!Loading
  <1>3. map.mounted = MV!MapShown(spots, located, failure)
    BY DEF MapInvariant, ScreenFits, MV!MapShown
  <1> QED BY <1>1, <1>2, <1>3
      DEF MapInvariant, Located, ScreenFits, FailureFits, CameraFits, BoardFits, MV!MapIsHonest

LEMMA NothingIsLocated == Located({}, MV!NothingLocated)
  BY DEF Located, MV!NothingLocated, MV!Loading

\* Nothing is shown of spots without coordinates.
LEMMA NothingShown ==
    ASSUME NEW s \in SUBSET Pins, NEW l, l.found = {}, NEW f
    PROVE  ~MV!MapShown(s, l, f)
  BY DEF MV!MapShown, MV!Empty, MV!Markers

LEMMA MapStarts == MV!Init => MapInvariant
  <1> SUFFICES ASSUME MV!Init PROVE MapInvariant
    OBVIOUS
  <1>1. Located(spots, located) /\ ~MV!MapShown(spots, located, failure)
    <2>1. spots = {} /\ located = MV!NothingLocated /\ MV!NothingLocated.found = {}
      BY DEF MV!Init, MV!NothingLocated
    <2> QED BY <2>1, NothingIsLocated, NothingShown
  <1>2. ScreenFits
    BY <1>1 DEF MV!Init, MV!NoMap, MV!NoFailure, ScreenFits, FailureFits
  <1>3. CameraFits(position)
    BY DEF MV!Init, MV!NoPosition, CameraFits
  <1>4. BoardFits
    BY DEF MV!Init, MV!NoFailure, MV!Hosts, BoardFits
  <1> QED BY <1>1, <1>2, <1>3, <1>4 DEF MV!Init, MV!Scripts, MapInvariant

\* A failure that is reported is shown.
LEMMA FailureShown ==
    ASSUME NEW f, FailureFits(f)
    PROVE  FailureFits(MV!HandleMapsLoadError(f)) /\ MV!HandleMapsLoadError(f).shown
  <1>1. CASE f.ref
    <2> DEFINE g == [f EXCEPT !.broken = TRUE]
    <2>1. g \in [shown : BOOLEAN, ref : BOOLEAN, broken : BOOLEAN] /\ g.shown /\ g.ref /\ g.broken
      BY <1>1 DEF FailureFits
    <2> QED BY <1>1, <2>1 DEF FailureFits, MV!HandleMapsLoadError
  <1>2. CASE ~f.ref
    BY <1>2 DEF FailureFits, MV!HandleMapsLoadError
  <1> QED BY <1>1, <1>2

\* What the page around the map is told.
LEMMA ParentKnows ==
    ASSUME BoardFits, board.at = "ready", NEW f, FailureFits(f), MV!TellsParent(f)
    PROVE  /\ board' \in [host : MV!Hosts, at : {"ready", "loading", "failed"},
                          failed : BOOLEAN, hasKey : BOOLEAN]
           /\ board'.host = board.host /\ board'.at = "ready" /\ board'.hasKey = board.hasKey
           /\ board.host = "mypage" => board'.failed = (f.shown \/ ~board.hasKey)
  BY DEF BoardFits, FailureFits, MV!TellsParent

\* A map that comes onto the screen, or fails at once.
LEMMA MountKeeps ==
    ASSUME BoardFits, board.at = "ready", script \in MV!Scripts, NEW f, FailureFits(f),
           MV!MapMounts(f), MV!MapShown(spots', located', f)
    PROVE  ScreenFits' /\ BoardFits' /\ script' \in MV!Scripts
  <1>1. CASE /\ failure' = MV!HandleMapsLoadError(f) /\ map' = MV!NoMap
             /\ MV!TellsParent(failure') /\ UNCHANGED script
    <2>1. FailureFits(failure') /\ failure'.shown
      BY <1>1, FailureShown
    <2>2. ScreenFits'
      <3>1. ~MV!MapShown(spots, located, failure)'
        BY <2>1 DEF MV!MapShown
      <3> QED BY <1>1, <2>1, <3>1 DEF ScreenFits, FailureFits, MV!NoMap, MV!MapShown
    <2>3. BoardFits'
      <3>1. /\ board' \in [host : MV!Hosts, at : {"ready", "loading", "failed"},
                           failed : BOOLEAN, hasKey : BOOLEAN]
            /\ board'.host = board.host /\ board'.at = "ready" /\ board'.hasKey = board.hasKey
            /\ board.host = "mypage" => board'.failed = (failure'.shown \/ ~board.hasKey)
        BY <1>1, <2>1, ParentKnows
      <3> QED BY <3>1 DEF BoardFits
    <2> QED BY <1>1, <2>2, <2>3
  <1>2. CASE /\ script' = IF script \in MV!BadScripts THEN "loading" ELSE script
             /\ failure' = f /\ map' = MV!FreshMap /\ MV!TellsParent(f)
    <2>1. /\ board' \in [host : MV!Hosts, at : {"ready", "loading", "failed"},
                         failed : BOOLEAN, hasKey : BOOLEAN]
          /\ board'.host = board.host /\ board'.at = "ready" /\ board'.hasKey = board.hasKey
          /\ board.host = "mypage" => board'.failed = (f.shown \/ ~board.hasKey)
      BY <1>2, ParentKnows
    <2>2. BoardFits'
      BY <1>2, <2>1 DEF BoardFits
    <2>3. MV!MapShown(spots, located, failure)'
      BY <1>2, <2>1 DEF MV!MapShown, MV!Empty, MV!Loading, MV!Markers
    <2>4. ScreenFits'
      BY <1>2, <2>3 DEF ScreenFits, FailureFits, MV!FreshMap, MV!NoMap, MV!MapShown, MV!Empty,
                        MV!Loading, MV!Markers
    <2> QED BY <1>2, <2>2, <2>4 DEF MV!Scripts
  <1> QED BY <1>1, <1>2 DEF MV!MapMounts

\* The view with other spots or coordinates.
LEMMA RenderKeeps ==
    ASSUME MapInvariant, board.at = "ready", MV!Rendered(spots', located'),
           Located(spots', located'), board.host = "mypage" => UNCHANGED spots
    PROVE  MapInvariant'
  <1>0. /\ ScreenFits /\ CameraFits(position) /\ BoardFits /\ script \in MV!Scripts
        /\ FailureFits(failure)
    BY DEF MapInvariant, ScreenFits
  <1>1. CASE ~MV!MapShown(spots', located', failure)
    <2>1. /\ map' = MV!NoMap /\ position' = [position EXCEPT !.camera = "none"]
          /\ UNCHANGED <<script, failure>> /\ MV!TellsParent(failure)
      BY <1>1 DEF MV!Rendered
    <2>2. /\ board' \in [host : MV!Hosts, at : {"ready", "loading", "failed"},
                         failed : BOOLEAN, hasKey : BOOLEAN]
          /\ board'.host = board.host /\ board'.at = "ready" /\ board'.hasKey = board.hasKey
          /\ board.host = "mypage" => board'.failed = (failure.shown \/ ~board.hasKey)
      BY <1>0, <2>1, ParentKnows
    <2>3. BoardFits'
      BY <2>1, <2>2 DEF BoardFits
    <2>4. ~MV!MapShown(spots, located, failure)'
      BY <1>1, <2>1, <2>2 DEF MV!MapShown, MV!Empty, MV!Loading, MV!Markers
    <2>5. ScreenFits'
      BY <1>0, <2>1, <2>4 DEF ScreenFits, FailureFits, MV!NoMap, MV!MapShown, MV!Empty,
                              MV!Loading, MV!Markers
    <2>6. CameraFits(position')
      BY <1>0, <2>1 DEF CameraFits
    <2> QED BY <1>0, <2>1, <2>3, <2>5, <2>6 DEF MapInvariant, Located, MV!Loading, CameraFits
  <1>2. CASE MV!MapShown(spots', located', failure) /\ ~map.mounted
    <2>1. MV!MapMounts(failure) /\ UNCHANGED position
      BY <1>2 DEF MV!Rendered
    <2>2. ScreenFits' /\ BoardFits' /\ script' \in MV!Scripts
      BY <1>0, <1>2, <2>1, MountKeeps
    <2> QED BY <1>0, <2>1, <2>2 DEF MapInvariant, Located, MV!Loading, CameraFits
  <1>3. CASE MV!MapShown(spots', located', failure) /\ map.mounted
    <2>1. /\ position' = IF map.made /\ MV!FitMapViewport
                         THEN [position EXCEPT !.camera = MV!Aimed] ELSE position
          /\ UNCHANGED <<script, map, failure, board>>
      BY <1>3 DEF MV!Rendered
    <2>2. CameraFits(position')
      BY <1>0, <2>1 DEF CameraFits, MV!FitMapViewport, MV!PanMapToTarget, MV!Aimed
    <2>3. ScreenFits'
      BY <1>0, <1>3, <2>1 DEF ScreenFits, MV!MapShown, MV!Empty, MV!Loading, MV!Markers
    <2>4. BoardFits'
      BY <1>0, <2>1 DEF BoardFits
    <2> QED BY <1>0, <2>1, <2>2, <2>3, <2>4 DEF MapInvariant, Located, MV!Loading, CameraFits
  <1> QED BY <1>1, <1>2, <1>3

LEMMA ItemsKeep ==
    ASSUME MapInvariant, NEW s \in SUBSET Pins, MV!ItemsChange(s)
    PROVE  MapInvariant'
  <1>1. /\ board.host = "home" /\ board.at = "ready" /\ spots' = s
        /\ located' = MV!UsePlaceLocations(s) /\ MV!Rendered(s, located')
    BY DEF MV!ItemsChange
  <1>2. Located(s, located')
    <2>0. Located(spots, located)
      BY DEF MapInvariant
    <2>1. CASE s = spots
      BY <1>1, <2>0, <2>1 DEF MV!UsePlaceLocations
    <2>2. CASE s # spots
      <3>1. located' = [located EXCEPT !.awaited = s]
        BY <1>1, <2>2 DEF MV!UsePlaceLocations
      <3> QED BY <2>0, <3>1 DEF Located
    <2> QED BY <2>1, <2>2
  <1> QED BY <1>1, <1>2, RenderKeeps

LEMMA MySpotsKeep ==
    ASSUME MapInvariant, NEW s \in SUBSET Pins, MV!LoadAllMySpots(s)
    PROVE  MapInvariant'
  <1>1. /\ board.host = "mypage" /\ board.at = "loading" /\ spots' = s
        /\ board' = [board EXCEPT !.at = "ready", !.failed = s # {} /\ ~board.hasKey]
        /\ located' = MV!UsePlaceLocations(s) /\ UNCHANGED <<script, map, failure, position>>
    BY DEF MV!LoadAllMySpots
  <1>2. spots = {} /\ located = MV!NothingLocated /\ ~failure.shown
    BY <1>1 DEF MapInvariant, BoardFits
  <1>3. Located(s, located') /\ located'.found = {}
    <2>1. CASE s = {}
      BY <1>1, <1>2, <2>1, NothingIsLocated DEF MV!UsePlaceLocations, MV!NothingLocated
    <2>2. CASE s # {}
      <3>1. located' = [MV!NothingLocated EXCEPT !.awaited = s]
        BY <1>1, <1>2, <2>2 DEF MV!UsePlaceLocations
      <3> QED BY <3>1 DEF Located, MV!NothingLocated
    <2> QED BY <2>1, <2>2
  <1>4. /\ board' \in [host : MV!Hosts, at : {"ready", "loading", "failed"}, failed : BOOLEAN,
                       hasKey : BOOLEAN]
        /\ board'.host = "mypage" /\ board'.at = "ready" /\ board'.hasKey = board.hasKey
        /\ board'.failed = (s # {} /\ ~board.hasKey)
    <2>1. board \in [host : MV!Hosts, at : {"ready", "loading", "failed"}, failed : BOOLEAN,
                     hasKey : BOOLEAN]
      BY DEF MapInvariant, BoardFits
    <2> QED BY <1>1, <2>1
  <1>5. BoardFits'
    BY <1>1, <1>2, <1>4 DEF BoardFits
  <1>6. ScreenFits'
    <2>1. ~map.mounted
      BY <1>2, NothingShown DEF MapInvariant, ScreenFits, Located, MV!NothingLocated
    <2>2. ~MV!MapShown(spots, located, failure)'
      BY <1>3 DEF MV!MapShown, MV!Empty, MV!Markers
    <2> QED BY <1>1, <2>1, <2>2 DEF MapInvariant, ScreenFits
  <1> QED BY <1>1, <1>3, <1>5, <1>6 DEF MapInvariant, Located, MV!Loading

LEMMA LoadKeeps ==
    ASSUME MapInvariant, MV!LoadFails \/ MV!Reload
    PROVE  MapInvariant'
  <1>1. /\ board.host = "mypage" /\ board.at \in {"loading", "failed"}
        /\ board' = [board EXCEPT !.at = "failed"] \/ board' = [board EXCEPT !.at = "loading"]
        /\ UNCHANGED <<spots, located, script, map, failure, position>>
    BY DEF MapInvariant, BoardFits, MV!LoadFails, MV!Reload, MV!Hosts
  <1>2. /\ board' \in [host : MV!Hosts, at : {"ready", "loading", "failed"}, failed : BOOLEAN,
                       hasKey : BOOLEAN]
        /\ board'.host = "mypage" /\ board'.hasKey = board.hasKey
    BY <1>1 DEF MapInvariant, BoardFits
  <1>3. BoardFits'
    BY <1>1, <1>2 DEF MapInvariant, BoardFits
  <1>4. MV!MapShown(spots, located, failure)' <=> MV!MapShown(spots, located, failure)
    BY <1>1, <1>2 DEF MV!MapShown, MV!Empty, MV!Loading, MV!Markers
  <1> QED BY <1>1, <1>3, <1>4
      DEF MapInvariant, ScreenFits, Located, MV!Loading, CameraFits, FailureFits

LEMMA LocationsKeep ==
    ASSUME MapInvariant, MV!LocationsFail \/ \E found \in SUBSET Pins : MV!LocationsArrive(found)
    PROVE  MapInvariant'
  <1>1. /\ located.awaited # {} /\ UNCHANGED spots /\ MV!Rendered(spots, located')
        /\ Located(spots, located)
    BY DEF MapInvariant, MV!LocationsFail, MV!LocationsArrive
  <1>2. located.awaited = spots /\ board.at = "ready"
    BY <1>1 DEF MapInvariant, Located, BoardFits, MV!NothingLocated
  <1>3. Located(spots, located')
    <2>1. CASE MV!LocationsFail
      <3>1. located' = [found |-> located.found, from |-> located.from, error |-> spots,
                        resolved |-> spots, awaited |-> {}]
        BY <1>1, <1>2, <2>1 DEF MV!LocationsFail, Located
      <3> QED BY <1>1, <3>1 DEF Located, MV!Loading
    <2>2. CASE \E found \in SUBSET Pins : MV!LocationsArrive(found)
      BY <1>1, <1>2, <2>2 DEF MV!LocationsArrive, Located, MV!Loading
    <2> QED BY <2>1, <2>2
  <1> QED BY <1>1, <1>2, <1>3, RenderKeeps

\* The script, the window or the tiles fail a map on the screen.
LEMMA BreakKeeps ==
    ASSUME MapInvariant, MV!Breaks, map.mounted, script' \in MV!Scripts
    PROVE  MapInvariant'
  <1>0. /\ Located(spots, located) /\ ScreenFits /\ CameraFits(position) /\ BoardFits
        /\ FailureFits(failure)
    BY DEF MapInvariant, ScreenFits
  <1>1. /\ failure' = MV!HandleMapsLoadError(failure) /\ MV!TellsParent(failure')
        /\ UNCHANGED <<spots, located>>
    BY DEF MV!Breaks
  <1>2. FailureFits(failure') /\ failure'.shown
    BY <1>0, <1>1, FailureShown
  <1>3. map' = MV!NoMap /\ position' = [position EXCEPT !.camera = "none"]
    BY <1>2 DEF MV!Breaks
  <1>4. board.at = "ready"
    BY <1>0, NothingShown DEF ScreenFits, BoardFits, MV!NothingLocated
  <1>5. BoardFits'
    <2>1. /\ board' \in [host : MV!Hosts, at : {"ready", "loading", "failed"},
                         failed : BOOLEAN, hasKey : BOOLEAN]
          /\ board'.host = board.host /\ board'.at = "ready" /\ board'.hasKey = board.hasKey
          /\ board.host = "mypage" => board'.failed = (failure'.shown \/ ~board.hasKey)
      BY <1>0, <1>1, <1>2, <1>4, ParentKnows
    <2> QED BY <2>1 DEF BoardFits
  <1>6. ScreenFits'
    <2>1. ~MV!MapShown(spots, located, failure)'
      BY <1>2 DEF MV!MapShown
    <2> QED BY <1>2, <1>3, <2>1 DEF ScreenFits, FailureFits, MV!NoMap
  <1>7. CameraFits(position')
    BY <1>0, <1>3 DEF CameraFits
  <1> QED BY <1>0, <1>1, <1>5, <1>6, <1>7 DEF MapInvariant, Located, MV!Loading, CameraFits

\* A step that leaves alone what is shown.
LEMMA SameScreen ==
    ASSUME MapInvariant, UNCHANGED <<board, spots, located, failure>>, map'.mounted = map.mounted,
           map' \in [mounted : BOOLEAN, made : BOOLEAN, watched : BOOLEAN, painted : BOOLEAN],
           map'.made \/ map'.watched => map'.mounted,
           script' \in MV!Scripts, CameraFits(position')
    PROVE  MapInvariant'
  <1>1. ScreenFits'
    BY DEF MapInvariant, ScreenFits, FailureFits, MV!MapShown, MV!Empty, MV!Loading, MV!Markers
  <1> QED BY <1>1 DEF MapInvariant, Located, MV!Loading, CameraFits, BoardFits

LEMMA ScriptKeeps ==
    ASSUME MapInvariant,
           \/ MV!ScriptLoads \/ MV!ScriptFails \/ MV!AuthFailure \/ MV!HandleWindowError
           \/ MV!InspectDom \/ MV!TilesTimeout
    PROVE  MapInvariant'
  <1>0. /\ ScreenFits /\ script \in MV!Scripts /\ CameraFits(position)
        /\ map.made \/ map.watched => map.mounted
        /\ map \in [mounted : BOOLEAN, made : BOOLEAN, watched : BOOLEAN, painted : BOOLEAN]
    BY DEF MapInvariant, ScreenFits
  <1>1. CASE MV!Breaks /\ map.mounted /\ script' \in MV!Scripts
    BY <1>1, BreakKeeps
  <1>2. CASE MV!ScriptLoads
    <2>1. script' \in MV!Scripts /\ UNCHANGED <<board, spots, located, map, failure, position>>
      BY <1>2 DEF MV!ScriptLoads, MV!Scripts
    <2> QED BY <1>0, <2>1, SameScreen
  <1>3. CASE MV!TilesTimeout /\ map.painted
    <2>1. /\ map' = [map EXCEPT !.watched = FALSE]
          /\ UNCHANGED <<script, board, spots, located, failure, position>>
      BY <1>3 DEF MV!TilesTimeout
    <2>2. /\ map' \in [mounted : BOOLEAN, made : BOOLEAN, watched : BOOLEAN, painted : BOOLEAN]
          /\ map'.mounted = map.mounted /\ map'.made = map.made /\ ~map'.watched
      BY <1>0, <2>1
    <2> QED BY <1>0, <2>1, <2>2, SameScreen
  <1>4. \/ MV!Breaks /\ map.mounted /\ script' \in MV!Scripts
        \/ MV!ScriptLoads \/ (MV!TilesTimeout /\ map.painted)
    BY <1>0 DEF MV!ScriptFails, MV!AuthFailure, MV!HandleWindowError, MV!InspectDom,
                MV!TilesTimeout, MV!Scripts
  <1> QED BY <1>1, <1>2, <1>3, <1>4

LEMMA MadeKeeps ==
    ASSUME MapInvariant, MV!MapMade \/ MV!TilesLoaded
    PROVE  MapInvariant'
  <1>0. /\ script \in MV!Scripts /\ CameraFits(position)
        /\ map.made \/ map.watched => map.mounted
        /\ map \in [mounted : BOOLEAN, made : BOOLEAN, watched : BOOLEAN, painted : BOOLEAN]
    BY DEF MapInvariant, ScreenFits
  <1>1. CASE MV!MapMade
    <2>1. /\ map' = [map EXCEPT !.made = TRUE, !.watched = TRUE] /\ map.mounted
          /\ position' = [position EXCEPT !.camera = MV!Aimed]
          /\ UNCHANGED <<board, spots, located, script, failure>>
      BY <1>1 DEF MV!MapMade
    <2>2. /\ map' \in [mounted : BOOLEAN, made : BOOLEAN, watched : BOOLEAN, painted : BOOLEAN]
          /\ map'.mounted = map.mounted /\ map.mounted
      BY <1>0, <2>1
    <2>3. CameraFits(position')
      BY <1>0, <2>1 DEF CameraFits, MV!FitMapViewport, MV!PanMapToTarget, MV!Aimed
    <2> QED BY <1>0, <2>1, <2>2, <2>3, SameScreen
  <1>2. CASE MV!TilesLoaded
    <2>1. /\ map' = [map EXCEPT !.painted = TRUE]
          /\ UNCHANGED <<board, spots, located, script, failure, position>>
      BY <1>2 DEF MV!TilesLoaded
    <2>2. /\ map' \in [mounted : BOOLEAN, made : BOOLEAN, watched : BOOLEAN, painted : BOOLEAN]
          /\ map'.mounted = map.mounted /\ map'.made = map.made /\ map'.watched = map.watched
      BY <1>0, <2>1
    <2> QED BY <1>0, <2>1, <2>2, SameScreen
  <1> QED BY <1>1, <1>2

LEMMA RetryKeeps ==
    ASSUME MapInvariant, MV!HandleRetryMap
    PROVE  MapInvariant'
  <1>1. /\ failure.shown /\ MV!MapMounts(MV!NoFailure) /\ UNCHANGED <<spots, located, position>>
        /\ MV!MapShown(spots, located, MV!NoFailure)
    BY DEF MV!HandleRetryMap, MV!MapShown, MV!NoFailure
  <1>2. BoardFits /\ board.at = "ready" /\ script \in MV!Scripts
    BY <1>1 DEF MapInvariant, BoardFits
  <1>3. FailureFits(MV!NoFailure)
    BY DEF FailureFits, MV!NoFailure
  <1>4. MV!MapShown(spots', located', MV!NoFailure)
    BY <1>1
  <1>5. ScreenFits' /\ BoardFits' /\ script' \in MV!Scripts
    BY <1>1, <1>2, <1>3, <1>4, MountKeeps
  <1> QED BY <1>1, <1>5 DEF MapInvariant, Located, MV!Loading, CameraFits

LEMMA PositionKeeps ==
    ASSUME MapInvariant,
           \/ MV!HandleRequestCurrentLocation \/ MV!PositionFound \/ MV!PositionFails \/ MV!Drag
    PROVE  MapInvariant'
  <1>0. /\ script \in MV!Scripts /\ CameraFits(position)
        /\ map.made \/ map.watched => map.mounted
        /\ map \in [mounted : BOOLEAN, made : BOOLEAN, watched : BOOLEAN, painted : BOOLEAN]
    BY DEF MapInvariant, ScreenFits
  <1>1. UNCHANGED <<board, spots, located, script, map, failure>>
    BY DEF MV!HandleRequestCurrentLocation, MV!PositionFound, MV!PositionFails, MV!Drag
  <1>2. \A p : CameraFits(p) => CameraFits(MV!PanToLocation(p))
    BY DEF CameraFits, MV!PanToLocation
  <1>3. CameraFits(position')
    <2>1. CASE MV!HandleRequestCurrentLocation
      <3>1. CASE position.known
        BY <1>0, <1>2, <2>1, <3>1 DEF MV!HandleRequestCurrentLocation
      <3>2. CASE ~position.known
        <4>1. position' = [position EXCEPT !.asked = TRUE, !.error = FALSE]
          BY <2>1, <3>2 DEF MV!HandleRequestCurrentLocation
        <4> QED BY <1>0, <4>1 DEF CameraFits
      <3> QED BY <3>1, <3>2
    <2>2. CASE MV!PositionFound
      <3> DEFINE p == [position EXCEPT !.asked = FALSE, !.known = TRUE, !.error = FALSE]
      <3>1. CameraFits(p)
        BY <1>0 DEF CameraFits
      <3>2. position' = MV!PanToLocation(p)
        BY <2>2 DEF MV!PositionFound
      <3> QED BY <1>2, <3>1, <3>2
    <2>3. CASE MV!PositionFails
      <3>1. position' = [position EXCEPT !.asked = FALSE, !.error = TRUE]
        BY <2>3 DEF MV!PositionFails
      <3> QED BY <1>0, <3>1 DEF CameraFits
    <2>4. CASE MV!Drag
      <3>1. position' = [position EXCEPT !.camera = "hand"]
        BY <2>4 DEF MV!Drag
      <3> QED BY <1>0, <3>1 DEF CameraFits
    <2> QED BY <2>1, <2>2, <2>3, <2>4
  <1> QED BY <1>0, <1>1, <1>3, SameScreen

LEMMA ReopenKeeps ==
    ASSUME MapInvariant, MV!Reopen
    PROVE  MapInvariant'
  <1>1. /\ board.host = "home" /\ map' = MV!NoMap /\ failure' = MV!NoFailure
        /\ position' = MV!NoPosition /\ UNCHANGED <<board, spots, script>>
        /\ located' = [found |-> {}, resolved |-> {}, error |-> {}, awaited |-> spots, from |-> {}]
    BY DEF MV!Reopen, MV!NothingLocated
  <1>2. Located(spots, located')
    BY <1>1 DEF MapInvariant, Located
  <1>3. ScreenFits'
    <2>1. ~MV!MapShown(spots, located, failure)'
      BY <1>1 DEF MV!MapShown, MV!Empty, MV!Markers
    <2> QED BY <1>1, <2>1 DEF ScreenFits, FailureFits, MV!NoMap, MV!NoFailure
  <1>4. BoardFits'
    BY <1>1 DEF MapInvariant, BoardFits
  <1>5. CameraFits(position')
    BY <1>1 DEF CameraFits, MV!NoPosition
  <1> QED BY <1>1, <1>2, <1>3, <1>4, <1>5 DEF MapInvariant, Located, MV!Loading, CameraFits

LEMMA MapKeeps ==
    ASSUME MapInvariant, [MV!Next]_MV!vars
    PROVE  MapInvariant'
  <1>1. CASE UNCHANGED MV!vars
    <2>1. UNCHANGED <<board, spots, located, script, map, failure, position>>
      BY <1>1 DEF MV!vars
    <2> QED BY <2>1, SameScreen DEF MapInvariant, ScreenFits, CameraFits
  <1>2. CASE MV!Next
    BY <1>2, ItemsKeep, MySpotsKeep, LoadKeeps, LocationsKeep, ScriptKeeps, MadeKeeps,
       RetryKeeps, PositionKeeps, ReopenKeeps DEF MV!Next
  <1> QED BY <1>1, <1>2

\* The map shows the spots whose places are known, or says what it waits for or lacks.
THEOREM MapTellsTheTruth == MV!Spec => []MV!MapIsHonest
  <1>1. MV!Init => MapInvariant
    BY MapStarts
  <1>2. MapInvariant /\ [MV!Next]_MV!vars => MapInvariant'
    BY MapKeeps
  <1>3. MapInvariant => MV!MapIsHonest
    BY MapIsTrue
  <1> QED BY <1>1, <1>2, <1>3, PTL DEF MV!Spec

-----------------------------------------------------------------------------
(* Sessions, the gates and the onboarding page.                            *)

AskKinds ==
    {"signin", "provision", "signout", "gate", "form", "create", "target", "me", "badges"}
SessionAsks ==
    [kind : AskKinds, by : Users \cup {Nobody}, next : SE!Protected \cup {"login"}, own : BOOLEAN,
     at : {"sent", "answered", "saved"}, answer : SE!Accounts]
Views ==
    [page : SE!Pages, next : SE!Protected, loading : BOOLEAN, failed : BOOLEAN, busy : BOOLEAN]
Browsers ==
    [readAt : Users \cup {Nobody}, recommendation : Users \cup {Nobody},
     collection : Users \cup {Nobody}]

\* Only a sign-in is asked for by nobody, and only a sign-out leads to login.
AskFits(a) ==
    /\ a \in SessionAsks
    /\ a.kind # "signout" => a.next \in SE!Protected
    /\ a.kind # "signin" \/ a.answer = "complete" => a.by \in Users
\* One sign-out is awaited at a time, and only the onboarding page waits for its form.
AsksFit(s) ==
    /\ \A a \in s : AskFits(a)
    /\ \A a, b \in s : a.kind = "signout" /\ b.kind = "signout" => a = b
    /\ \A a \in s : a.own /\ a.kind = "form" => view.page = "onboarding"
\* An account that was complete when it was read stays so.
AnswersHold(s) == \A a \in s : a.answer = "complete" => account[a.by] = "complete"

SessionTypes ==
    /\ account \in [Users -> SE!Accounts] /\ given \in [Users -> BOOLEAN]
    /\ session \in Users \cup {Nobody} /\ user \in Users \cup {Nobody, Pending}
    /\ view \in Views /\ stored \in Browsers /\ strayed \in BOOLEAN
    /\ me \in Users \cup {Nobody} /\ badges \in Users \cup {Nobody}

\* A tab that has not heard of its user has nothing; one without a user is at an entrance.
UserFits ==
    /\ user = Pending => /\ asks = {} /\ view = SE!Fresh(view.page, view.next)
                         /\ me = Nobody /\ badges = Nobody
    /\ user # Pending => user = session
    /\ user = Nobody => view.page \in SE!Entrances

\* Whoever shows that it waits is heard by an answer that is still to come.
Heeds(s, kinds) == \E a \in s : a.own /\ a.kind \in kinds
Waiting(s) ==
    /\ view.page \in SE!Entrances /\ (view.busy \/ user \in Users)
          => Heeds(s, {"signin", "provision"})
    /\ view.page \in SE!Protected /\ user \in Users /\ view.loading => Heeds(s, {"gate"})
    /\ view.page = "onboarding" /\ user \in Users /\ view.loading => Heeds(s, {"form"})
    /\ view.page = "onboarding" /\ view.busy => Heeds(s, {"create", "target"})

\* What is heard inside of the gates was asked for the user who is inside.
AsksAreTheirs(s) ==
    \A a \in s : a.own /\ a.kind \in {"me", "badges", "gate"} => SE!Inside /\ a.by = user
ShownIsTheirs == me \in {Nobody, user} /\ badges \in {Nobody, user}
KeptIsTheirs ==
    /\ stored.readAt \in {Nobody, session} /\ stored.recommendation \in {Nobody, session}
    /\ stored.collection \in {Nobody, session}
    /\ Nobody \in {stored.recommendation, stored.collection}
\* While the tab signs out, my page is shown and nothing is kept.
Emptied == SE!SigningOut => stored = SE!Nothing /\ view.page = "mypage"
Peaceful ==
    /\ AsksAreTheirs(asks) /\ ShownIsTheirs /\ KeptIsTheirs /\ Emptied
    /\ SE!Ready => account[user] = "complete"

SessionInvariant ==
    /\ SE!SessionConstants /\ SessionTypes /\ UserFits
    /\ AsksFit(asks) /\ AnswersHold(asks) /\ Waiting(asks)
    /\ ~strayed => Peaceful

LEMMA SessionHolds == SessionInvariant => SE!TypeOK /\ SE!NeverStuck /\ SE!OnlyTheirOwn
  <1> SUFFICES ASSUME SessionInvariant PROVE SE!TypeOK /\ SE!NeverStuck /\ SE!OnlyTheirOwn
    OBVIOUS
  <1> USE DEF SessionInvariant, SessionTypes
  <1>1. {stored[key] : key \in DOMAIN stored}
            = {stored.readAt, stored.recommendation, stored.collection}
    BY DEF Browsers
  <1>2. {a.by : a \in asks} \subseteq Users \cup {Nobody}
    BY DEF AsksFit, AskFits, SessionAsks
  <1>3. SE!TypeOK
    BY <1>1, <1>2 DEF SE!TypeOK, Views, Browsers
  <1>4. SE!NeverStuck
    <2> SUFFICES ASSUME asks = {}, user # Pending
                 PROVE  \/ SE!LoginReached \/ SE!SignupReached
                        \/ SE!FormReached /\ ~view.busy
                        \/ SE!Inside /\ ~view.loading
      BY DEF SE!NeverStuck
    <2>1. ~\E a \in asks : TRUE
      OBVIOUS
    <2>2. CASE view.page \in SE!Entrances
      BY <2>1, <2>2 DEF Waiting, Heeds, SE!Entrances, SE!LoginReached, SE!SignupReached
    <2>3. CASE view.page \in SE!Protected
      BY <2>1, <2>3 DEF Waiting, Heeds, UserFits, SE!Inside, SE!Entrances, SE!Protected
    <2>4. CASE view.page = "onboarding"
      BY <2>1, <2>4 DEF Waiting, Heeds, UserFits, SE!FormReached, SE!Entrances
    <2> QED BY <2>2, <2>3, <2>4 DEF Views, SE!Pages
  <1>5. SE!OnlyTheirOwn
    BY <1>1 DEF SE!OnlyTheirOwn, Peaceful, ShownIsTheirs, KeptIsTheirs
  <1> QED BY <1>3, <1>4, <1>5

LEMMA SessionStarts == SE!SessionConstants /\ SE!Init => SessionInvariant
  <1> SUFFICES ASSUME SE!SessionConstants, SE!Init PROVE SessionInvariant
    OBVIOUS
  <1> USE DEF SE!Init
  <1>1. PICK path \in SE!Pages : view = SE!Fresh(path, "home")
    OBVIOUS
  <1>2. view = SE!Fresh(view.page, view.next) /\ view \in Views /\ ~view.busy
    BY <1>1 DEF SE!Fresh, Views, SE!Protected
  <1>3. SessionTypes
    BY <1>2 DEF SessionTypes, SE!Nothing, Browsers
  <1>4. UserFits /\ user \notin Users
    BY <1>2 DEF UserFits, SE!SessionConstants
  <1>5. AsksFit(asks) /\ AnswersHold(asks) /\ Waiting(asks)
    BY <1>2, <1>4 DEF AsksFit, AnswersHold, Waiting
  <1>6. Peaceful
    BY <1>4 DEF Peaceful, AsksAreTheirs, ShownIsTheirs, KeptIsTheirs, Emptied, SE!SigningOut,
                SE!Nothing, SE!Ready, SE!Inside
  <1> QED BY <1>3, <1>4, <1>5, <1>6 DEF SessionInvariant


\* Where a redirect ends.
LEMMA Landed ==
    ASSUME SE!SessionConstants, NEW path \in SE!Pages, NEW who \in Users \cup {Nobody}
    PROVE  /\ SE!Landing(path, who) \in SE!Pages
           /\ who = Nobody => SE!Landing(path, who) \in SE!Entrances
           /\ who \in Users /\ SE!Landing(path, who) \in SE!Entrances
                 => SE!Landing(path, who) = path /\ path = view.page /\ view.busy
  BY DEF SE!SessionConstants, SE!Landing, SE!Pages, SE!Entrances, SE!Protected

\* Unmounting a component changes who hears the answer, nothing else.
Deafened(a, deaf) == [a EXCEPT !.own = a.own /\ a.kind \notin deaf]

LEMMA DeafenedFits ==
    ASSUME NEW a, AskFits(a), NEW deaf
    PROVE  /\ AskFits(Deafened(a, deaf))
           /\ Deafened(a, deaf).kind = a.kind /\ Deafened(a, deaf).by = a.by
           /\ Deafened(a, deaf).answer = a.answer
           /\ Deafened(a, deaf).own <=> (a.own /\ a.kind \notin deaf)
  BY DEF AskFits, SessionAsks, Deafened

LEMMA LoadsFit ==
    ASSUME NEW same \in BOOLEAN, NEW land \in SE!Pages, NEW next \in SE!Protected,
           NEW who \in Users \cup {Nobody}, NEW a \in SE!Loads(same, land, next, who)
    PROVE  /\ AskFits(a) /\ a.own /\ a.answer = "none" /\ a.by = who /\ who \in Users
           /\ \/ a.kind = "form" /\ land = "onboarding"
              \/ a.kind \in {"me", "badges", "gate"} /\ land \in SE!Protected
  <1>1. who \in Users /\ land \notin SE!Entrances
    BY DEF SE!Loads
  <1>2. land = "onboarding" \/ land \in SE!Protected
    BY <1>1 DEF SE!Pages
  <1>3. CASE land = "onboarding"
    <2>1. a = SE!Ask("form", who, next)
      BY <1>1, <1>3 DEF SE!Loads
    <2> QED BY <1>1, <1>3, <2>1 DEF SE!Ask, AskFits, SessionAsks, AskKinds, SE!Accounts
  <1>4. CASE land # "onboarding"
    <2>1. \/ a = SE!Ask("badges", who, land) \/ a = SE!Ask("me", who, land)
          \/ a = SE!Ask("gate", who, land)
      BY <1>1, <1>4 DEF SE!Loads
    <2>2. PICK kind \in {"me", "badges", "gate"} : a = SE!Ask(kind, who, land)
      BY <2>1
    <2>3. a \in SessionAsks /\ a.by = who /\ a.kind = kind /\ a.next = land /\ a.own /\ a.answer = "none"
      BY <1>1, <1>2, <1>4, <2>2 DEF SE!Ask, SessionAsks, AskKinds, SE!Accounts
    <2> QED BY <1>1, <1>2, <1>4, <2>3 DEF AskFits
  <1> QED BY <1>3, <1>4

\* The two outcomes of MoveTo.
Stays(rest, land, next, who) ==
    /\ who = user /\ land = view.page /\ asks' = rest
    /\ UNCHANGED <<view, me, badges, stored>>
Drawn(same, land, next) ==
    IF ~same THEN SE!Fresh(land, next)
    ELSE IF land = "onboarding"
    THEN [view EXCEPT !.next = next, !.loading = TRUE, !.failed = FALSE]
    ELSE view
Moves(rest, same, land, next, who) ==
    /\ view' = Drawn(same, land, next)
    /\ me' = IF SE!Inside /\ land \in SE!Protected /\ who \in Users THEN me ELSE Nobody
    /\ badges' = IF {land, view.page} \subseteq SE!Protected THEN badges ELSE Nobody
    /\ asks' = {Deafened(a, SE!Deaf(same, land, who)) : a \in rest}
                  \cup SE!Loads(same, land, next, who)
    /\ \/ stored' = stored
       \/ SE!Ready /\ view.page = "home" /\ ~same /\ stored' = [stored EXCEPT !.readAt = user]

LEMMA MoveToIs ==
    ASSUME NEW rest, NEW path \in SE!Pages, NEW next, NEW who, SE!MoveTo(rest, path, next, who),
           \A a \in rest : AskFits(a)
    PROVE  /\ user' = who
           /\ \/ /\ path = view.page
                 /\ Stays(rest, SE!Landing(path, who), next, who)
              \/ \E same \in BOOLEAN :
                    /\ same <=> SE!Landing(path, who) = view.page /\ path = view.page
                    /\ Moves(rest, same, SE!Landing(path, who), next, who)
  <1> DEFINE land == SE!Landing(path, who)
             same == land = view.page /\ path = view.page
  <1>2. {[a EXCEPT !.own = a.own /\ a.kind \notin SE!Deaf(same, land, who)] : a \in rest}
            = {Deafened(a, SE!Deaf(same, land, who)) : a \in rest}
    BY DEF Deafened
  <1>3. CASE same /\ who = user /\ (land = "onboarding" => next = view.next)
    BY <1>3 DEF SE!MoveTo, Stays
  <1>4. CASE ~(same /\ who = user /\ (land = "onboarding" => next = view.next))
    <2>1. Moves(rest, same, land, next, who)
      BY <1>2, <1>4 DEF SE!MoveTo, Moves, Drawn
    <2> QED BY <2>1 DEF SE!MoveTo
  <1> QED BY <1>3, <1>4

\* A move of a user whom the tab has not lost, while it does not sign out in peace, or as
\* the end of its own sign-out.
PeacefulMove(rest) ==
    /\ AsksAreTheirs(rest) /\ \A a \in rest : a.kind # "signout"
    /\ user \in Users => \/ session' = user
                         \/ session' = Nobody /\ stored = SE!Nothing /\ view.page = "mypage"
    /\ user = Pending => session' = session

LEMMA MoveKeeps ==
    ASSUME SessionInvariant, NEW rest, NEW path \in SE!Pages, NEW next \in SE!Protected,
           SE!MoveTo(rest, path, next, session'), session' \in Users \cup {Nobody},
           account' = account, given' = given, strayed' \in BOOLEAN,
           AsksFit(rest), AnswersHold(rest), path = view.page => Waiting(rest),
           ~strayed' => ~strayed /\ PeacefulMove(rest)
    PROVE  SessionInvariant'
  <1> DEFINE land == SE!Landing(path, session')
  <1>1. PICK who \in Users \cup {Nobody} : who = session'
    OBVIOUS
  <1>2. /\ land \in SE!Pages
        /\ who = Nobody => land \in SE!Entrances
        /\ who \in Users /\ land \in SE!Entrances
              => land = path /\ path = view.page /\ view.busy
    BY <1>1, Landed DEF SessionInvariant
  <1>3. /\ user' = who
        /\ \/ path = view.page /\ Stays(rest, land, next, who)
           \/ \E same \in BOOLEAN : /\ same <=> land = view.page /\ path = view.page
                                    /\ Moves(rest, same, land, next, who)
    BY <1>1, MoveToIs DEF AsksFit
  <1>4. who # Pending /\ SE!SessionConstants
    BY DEF SessionInvariant, SE!SessionConstants
  <1> HIDE DEF land
  <1>5. CASE path = view.page /\ Stays(rest, land, next, who)
    <2> USE <1>1, <1>2, <1>3, <1>4, <1>5 DEF Stays
    <2>1. SessionTypes' /\ UserFits'
      BY DEF SessionInvariant, SessionTypes, UserFits
    <2>2. AsksFit(asks)' /\ AnswersHold(asks)' /\ Waiting(asks)'
      BY DEF AsksFit, AnswersHold, Waiting, Heeds
    <2>3. ASSUME ~strayed' PROVE Peaceful'
      <3>1. Peaceful /\ AsksAreTheirs(rest) /\ \A a \in rest : a.kind # "signout"
        BY <2>3 DEF PeacefulMove, SessionInvariant
      <3>2. user = Pending => session' = session
        BY <2>3 DEF PeacefulMove
      <3>3. session' = session
        BY <3>2 DEF SessionInvariant, UserFits
      <3> QED BY <3>1, <3>3 DEF Peaceful, AsksAreTheirs, ShownIsTheirs, KeptIsTheirs, Emptied,
                   SE!SigningOut, SE!Ready, SE!Inside
    <2> QED BY <2>1, <2>2, <2>3 DEF SessionInvariant
  <1>6. ASSUME NEW same \in BOOLEAN, same <=> land = view.page /\ path = view.page,
               Moves(rest, same, land, next, who)
        PROVE  SessionInvariant'
    <2> DEFINE fresh == SE!Loads(same, land, next, who)
               deaf == SE!Deaf(same, land, who)
    <2>1. \A a \in fresh :
              /\ AskFits(a) /\ a.own /\ a.answer = "none" /\ a.by = who /\ who \in Users
              /\ \/ a.kind = "form" /\ land = "onboarding"
                 \/ a.kind \in {"me", "badges", "gate"} /\ land \in SE!Protected
      BY <1>2, LoadsFit
    <2>2. \A a \in rest :
              /\ AskFits(Deafened(a, deaf))
              /\ Deafened(a, deaf).kind = a.kind /\ Deafened(a, deaf).by = a.by
              /\ Deafened(a, deaf).answer = a.answer
              /\ Deafened(a, deaf).own <=> (a.own /\ a.kind \notin deaf)
      BY DeafenedFits DEF AsksFit
    <2>3. asks' = {Deafened(a, deaf) : a \in rest} \cup fresh
      BY <1>6 DEF Moves
    <2> HIDE DEF fresh, deaf
    <2>4. /\ view' = Drawn(same, land, next) /\ view' \in Views /\ view'.page = land
          /\ ~same => view'.loading /\ ~view'.busy
      <3>1. view \in Views
        BY DEF SessionInvariant, SessionTypes
      <3>2. CASE ~same
        BY <1>2, <1>6, <3>2 DEF Moves, Drawn, Views, SE!Fresh
      <3>3. CASE same
        BY <1>2, <1>6, <3>1, <3>3 DEF Moves, Drawn, Views
      <3> QED BY <3>2, <3>3, <1>6 DEF Moves
    <2>5. SessionTypes'
      <3>1. me' \in Users \cup {Nobody} /\ badges' \in Users \cup {Nobody}
        BY <1>6 DEF Moves, SessionInvariant, SessionTypes
      <3>2. stored' \in Browsers
        BY <1>6 DEF Moves, SessionInvariant, SessionTypes, Browsers, SE!Ready, SE!Inside
      <3> QED BY <1>1, <1>3, <2>4, <3>1, <3>2 DEF SessionInvariant, SessionTypes
    <2>6. UserFits'
      BY <1>1, <1>2, <1>3, <1>4, <2>4 DEF UserFits
    <2>7. AsksFit(asks)' /\ AnswersHold(asks)'
      <3>1. \A a \in asks' : AskFits(a)
        BY <2>1, <2>2, <2>3
      <3>2. ASSUME NEW a \in asks', NEW b \in asks', a.kind = "signout", b.kind = "signout"
            PROVE  a = b
        <4>1. PICK c \in rest : a = Deafened(c, deaf)
          BY <2>1, <2>3, <3>2
        <4>2. PICK d \in rest : b = Deafened(d, deaf)
          BY <2>1, <2>3, <3>2
        <4> QED BY <2>2, <3>2, <4>1, <4>2 DEF AsksFit
      <3>3. ASSUME NEW a \in asks', a.own, a.kind = "form" PROVE view'.page = "onboarding"
        <4>1. "form" \in deaf
          BY DEF deaf, SE!Deaf
        <4> QED BY <2>1, <2>2, <2>3, <2>4, <3>3, <4>1
      <3>4. ASSUME NEW a \in asks', a.answer = "complete" PROVE account'[a.by] = "complete"
        BY <2>1, <2>2, <2>3, <3>4 DEF AnswersHold
      <3> QED BY <3>1, <3>2, <3>3, <3>4 DEF AsksFit, AnswersHold, AskFits
    <2>8. Waiting(asks)'
      <3>1. ASSUME NEW kinds, Heeds(rest, kinds), kinds \cap deaf = {} PROVE Heeds(asks, kinds)'
        <4>1. PICK a \in rest : a.own /\ a.kind \in kinds
          BY <3>1 DEF Heeds
        <4>2. Deafened(a, deaf) \in asks'
          BY <2>3
        <4> QED BY <2>2, <3>1, <4>1, <4>2 DEF Heeds
      <3>2. ASSUME land \in SE!Entrances, view'.busy \/ who \in Users
            PROVE  Heeds(asks, {"signin", "provision"})'
        <4>1. same /\ view' = view /\ path = view.page
          BY <1>2, <1>6, <2>4, <3>2 DEF Drawn, SE!Entrances
        <4>2. view.busy
          BY <1>2, <3>2, <4>1
        <4>3. Heeds(rest, {"signin", "provision"})
          BY <1>6, <3>2, <4>1, <4>2 DEF Waiting
        <4>4. {"signin", "provision"} \cap deaf = {}
          BY <4>1 DEF deaf, SE!Deaf
        <4> QED BY <3>1, <4>3, <4>4
      <3>3. ASSUME land \in SE!Protected, who \in Users, view'.loading
            PROVE  Heeds(asks, {"gate"})'
        <4>1. CASE SE!Inside /\ same
          <5>1. view' = view /\ path = view.page
            BY <1>6, <2>4, <3>3, <4>1 DEF Drawn, SE!Protected
          <5>2. Heeds(rest, {"gate"})
            BY <1>6, <3>3, <4>1, <5>1 DEF Waiting, SE!Inside
          <5>3. {"gate"} \cap deaf = {}
            BY <4>1 DEF deaf, SE!Deaf
          <5> QED BY <3>1, <5>2, <5>3
        <4>2. CASE ~(SE!Inside /\ same)
          <5>1. SE!Ask("gate", who, land) \in fresh
            BY <3>3, <4>2 DEF fresh, SE!Loads, SE!Protected, SE!Entrances
          <5>2. SE!Ask("gate", who, land).own /\ SE!Ask("gate", who, land).kind = "gate"
            BY DEF SE!Ask
          <5> QED BY <2>3, <5>1, <5>2 DEF Heeds
        <4> QED BY <4>1, <4>2
      <3>4. ASSUME land = "onboarding", who \in Users PROVE Heeds(asks, {"form"})'
        <4>1. SE!Ask("form", who, next) \in fresh
          BY <3>4 DEF fresh, SE!Loads, SE!Entrances
        <4>2. SE!Ask("form", who, next).own /\ SE!Ask("form", who, next).kind = "form"
          BY DEF SE!Ask
        <4> QED BY <2>3, <4>1, <4>2 DEF Heeds
      <3>5. ASSUME land = "onboarding", view'.busy PROVE Heeds(asks, {"create", "target"})'
        <4>1. same /\ path = view.page
          BY <1>6, <2>4, <3>5
        <4>2. view.busy
          BY <2>4, <3>5, <4>1 DEF Drawn, SessionInvariant, SessionTypes, Views
        <4>3. Heeds(rest, {"create", "target"})
          BY <1>6, <3>5, <4>1, <4>2 DEF Waiting
        <4>4. {"create", "target"} \cap deaf = {}
          BY <4>1 DEF deaf, SE!Deaf
        <4> QED BY <3>1, <4>3, <4>4
      <3> QED BY <1>3, <2>4, <3>2, <3>3, <3>4, <3>5 DEF Waiting, Heeds
    <2>9. ASSUME ~strayed' PROVE Peaceful'
      <3>1. Peaceful /\ PeacefulMove(rest)
        BY <2>9 DEF SessionInvariant
      <3>2. user \in Users /\ who \in Users => who = user
        BY <1>1, <3>1, <1>4 DEF PeacefulMove, SE!SessionConstants
      <3>3. who = Nobody => land \notin SE!Protected
        BY <1>2 DEF SE!Entrances, SE!Protected
      <3>4. AsksAreTheirs(asks)'
        <4> SUFFICES ASSUME NEW a \in asks', a.own, a.kind \in {"me", "badges", "gate"}
                     PROVE  SE!Inside' /\ a.by = user'
          BY DEF AsksAreTheirs, SE!Inside
        <4>1. CASE a \in fresh
          BY <1>3, <2>1, <2>4, <4>1 DEF SE!Inside
        <4>2. CASE a \notin fresh
          <5>1. PICK c \in rest : a = Deafened(c, deaf)
            BY <2>3, <4>2
          <5>2. c.own /\ c.kind \in {"me", "badges", "gate"} /\ c.kind \notin deaf /\ a.by = c.by
            BY <2>2, <5>1
          <5>3. SE!Inside /\ c.by = user
            BY <3>1, <5>2 DEF PeacefulMove, AsksAreTheirs
          <5>4. land \in SE!Protected /\ who \in Users
            <6>1. CASE c.kind = "me"
              BY <5>2, <5>3, <6>1 DEF deaf, SE!Deaf, SE!Inside
            <6>2. CASE c.kind = "gate"
              BY <1>6, <5>2, <5>3, <6>2, <3>3 DEF deaf, SE!Deaf, SE!Inside
            <6> QED BY <5>2, <6>1, <6>2 DEF deaf, SE!Deaf
          <5> QED BY <1>3, <2>4, <3>2, <5>2, <5>3, <5>4 DEF SE!Inside
        <4> QED BY <4>1, <4>2
      <3>5. ShownIsTheirs'
        <4>1. me' \in {Nobody, user'}
          BY <1>3, <1>6, <3>1, <3>2 DEF Moves, Peaceful, ShownIsTheirs, SE!Inside
        <4>2. badges' \in {Nobody, user'}
          <5>1. CASE {land, view.page} \subseteq SE!Protected
            <6>1. badges' = badges /\ who \in Users /\ badges \in {Nobody, user}
              BY <1>6, <3>1, <3>3, <5>1 DEF Moves, Peaceful, ShownIsTheirs
            <6>2. user = Nobody \/ user = Pending \/ user \in Users
              BY DEF SessionInvariant, SessionTypes
            <6>3. user = Pending => badges = Nobody
              BY DEF SessionInvariant, UserFits
            <6> QED BY <1>3, <3>2, <6>1, <6>2, <6>3
          <5>2. CASE ~({land, view.page} \subseteq SE!Protected)
            BY <1>6, <5>2 DEF Moves
          <5> QED BY <5>1, <5>2
        <4> QED BY <4>1, <4>2 DEF ShownIsTheirs
      <3>6. KeptIsTheirs'
        <4>1. CASE user \in Users /\ session' = user
          <5>1. session = user
            BY <4>1, <1>4 DEF SessionInvariant, UserFits, SE!SessionConstants
          <5> QED BY <1>6, <3>1, <4>1, <5>1
                DEF Moves, Peaceful, KeptIsTheirs, SessionInvariant, SessionTypes, Browsers
        <4>2. CASE session' = Nobody /\ stored = SE!Nothing /\ view.page = "mypage"
          BY <1>6, <4>2 DEF Moves, KeptIsTheirs, SE!Nothing
        <4>3. CASE user \notin Users
          <5>1. stored' = stored
            BY <1>6, <4>3 DEF Moves, SE!Ready, SE!Inside
          <5>2. session' = session \/ session = Nobody
            BY <3>1, <4>3 DEF PeacefulMove, SessionInvariant, SessionTypes, UserFits
          <5> QED BY <3>1, <5>1, <5>2 DEF Peaceful, KeptIsTheirs
        <4> QED BY <3>1, <4>1, <4>2, <4>3 DEF PeacefulMove
      <3>7. Emptied'
        <4>1. \A a \in asks' : a.kind # "signout"
          BY <2>1, <2>2, <2>3, <3>1 DEF PeacefulMove
        <4> QED BY <4>1 DEF Emptied, SE!SigningOut
      <3>8. ASSUME SE!Ready' PROVE account'[user'] = "complete"
        <4>1. land \in SE!Protected /\ who \in Users /\ ~view'.loading /\ ~view'.failed
          BY <1>3, <2>4, <3>8 DEF SE!Ready, SE!Inside
        <4>2. view' = view /\ land = view.page
          BY <1>6, <2>4, <4>1 DEF Drawn, SE!Protected
        <4>3. user \in Users
          <5>1. user # Nobody
            BY <4>1, <4>2 DEF SessionInvariant, UserFits, SE!Entrances, SE!Protected
          <5>2. user # Pending
            BY <4>1, <4>2 DEF SessionInvariant, UserFits, SE!Fresh
          <5> QED BY <5>1, <5>2 DEF SessionInvariant, SessionTypes
        <4>4. SE!Ready /\ who = user
          BY <3>2, <4>1, <4>2, <4>3 DEF SE!Ready, SE!Inside
        <4> QED BY <1>3, <3>1, <4>4 DEF Peaceful
      <3> QED BY <3>4, <3>5, <3>6, <3>7, <3>8 DEF Peaceful
    <2> QED BY <1>4, <2>5, <2>6, <2>7, <2>8, <2>9 DEF SessionInvariant
  <1> QED BY <1>3, <1>5, <1>6

LEMMA FewerAsks ==
    ASSUME SessionInvariant, NEW rest \in SUBSET asks
    PROVE  AsksFit(rest) /\ AnswersHold(rest) /\ (AsksAreTheirs(asks) => AsksAreTheirs(rest))
  BY DEF SessionInvariant, AsksFit, AnswersHold, AsksAreTheirs

\* What waits for another answer than a waits still.
LEMMA WaitsStill ==
    ASSUME SessionInvariant, NEW a \in asks,
           view.page \in SE!Entrances => a.kind \notin {"signin", "provision"},
           view.page \in SE!Protected => a.kind # "gate",
           view.page = "onboarding" => a.kind \notin {"form", "create", "target"}
    PROVE  Waiting(asks \ {a})
  <1>1. ASSUME NEW kinds, Heeds(asks, kinds), a.kind \notin kinds PROVE Heeds(asks \ {a}, kinds)
    BY <1>1 DEF Heeds
  <1> QED BY <1>1 DEF Waiting, SessionInvariant

LEMMA GoesKeeps ==
    ASSUME SessionInvariant, NEW rest \in SUBSET asks, NEW path \in SE!Pages,
           NEW next \in SE!Protected, SE!Goes(rest, path, next), user # Pending,
           path = view.page => Waiting(rest)
    PROVE  SessionInvariant'
  <1>1. /\ SE!MoveTo(rest, path, next, session') /\ session' \in Users \cup {Nobody}
        /\ session' = session /\ session = user
        /\ account' = account /\ given' = given /\ strayed' \in BOOLEAN
    BY DEF SE!Goes, SessionInvariant, SessionTypes, UserFits, SE!SigningOut
  <1>2. ASSUME ~strayed' PROVE ~strayed /\ PeacefulMove(rest)
    <2>1. ~strayed /\ \A a \in asks : a.kind # "signout"
      BY <1>2 DEF SE!Goes, SE!SigningOut, SessionInvariant, SessionTypes
    <2>2. AsksAreTheirs(rest)
      BY <2>1, FewerAsks DEF SessionInvariant, Peaceful
    <2> QED BY <1>1, <2>1, <2>2 DEF PeacefulMove
  <1>3. AsksFit(rest) /\ AnswersHold(rest)
    BY FewerAsks
  <1> QED BY <1>1, <1>2, <1>3, MoveKeeps

LEMMA BrowseKeeps ==
    ASSUME SessionInvariant, NEW path \in SE!Pages, SE!Browse(path)
    PROVE  SessionInvariant'
  <1>1. view.next \in SE!Protected /\ user # Pending
    BY DEF SE!Browse, SE!Ready, SE!Inside, SessionInvariant, SessionTypes, Views,
           SE!SessionConstants
  <1> QED BY <1>1, GoesKeeps DEF SE!Browse

LEMMA ReloadKeeps == ASSUME SessionInvariant, SE!Reload PROVE SessionInvariant'
  <1> USE DEF SE!Reload
  <1>1. view' \in Views /\ view'.page = view.page /\ ~view'.busy
        /\ view' = SE!Fresh(view'.page, view'.next)
    BY DEF SessionInvariant, SessionTypes, Views, SE!Fresh
  <1>2. user' \notin Users \cup {Nobody} /\ SE!SessionConstants
    BY DEF SessionInvariant, SE!SessionConstants
  <1>3. SessionTypes' /\ UserFits'
    BY <1>1, <1>2 DEF SessionInvariant, SessionTypes, UserFits
  <1>4. AsksFit(asks)' /\ AnswersHold(asks)' /\ Waiting(asks)'
    BY <1>1, <1>2 DEF AsksFit, AnswersHold, Waiting
  <1>5. ASSUME ~strayed' PROVE Peaceful'
    BY <1>2, <1>5 DEF SessionInvariant, Peaceful, AsksAreTheirs, ShownIsTheirs, KeptIsTheirs,
                Emptied, SE!SigningOut, SE!Ready, SE!Inside
  <1> QED BY <1>2, <1>3, <1>4, <1>5 DEF SessionInvariant

LEMMA AuthKeeps == ASSUME SessionInvariant, SE!AuthStateReady PROVE SessionInvariant'
  <1> USE DEF SE!AuthStateReady, SessionInvariant
  <1>1. /\ view.page \in SE!Pages /\ view.next \in SE!Protected /\ session' = session
        /\ session \in Users \cup {Nobody} /\ strayed' \in BOOLEAN /\ asks = {}
        /\ user \notin Users
    BY DEF SessionTypes, Views, UserFits, SE!SessionConstants
  <1>2. PeacefulMove(asks)
    BY <1>1 DEF PeacefulMove, AsksAreTheirs
  <1> QED BY <1>1, <1>2, MoveKeeps

LEMMA ElsewhereKeeps ==
    ASSUME SessionInvariant, NEW who \in Users \cup {Nobody}, SE!Elsewhere(who)
    PROVE  SessionInvariant'
  <1>1. /\ view.page \in SE!Pages /\ view.next \in SE!Protected /\ session' = who
        /\ strayed' \in BOOLEAN /\ session = user
    BY DEF SE!Elsewhere, SessionInvariant, SessionTypes, Views, UserFits
  <1>2. ASSUME ~strayed' PROVE ~strayed /\ PeacefulMove(asks)
    <2>1. ~strayed /\ user = Nobody /\ Peaceful
      BY <1>1, <1>2 DEF SE!Elsewhere, SessionInvariant, SessionTypes
    <2>2. view.page \in SE!Entrances
      BY <2>1 DEF SessionInvariant, UserFits
    <2>3. ~SE!SigningOut
      BY <2>1, <2>2 DEF Peaceful, Emptied, SE!Entrances
    <2> QED BY <2>1, <2>3 DEF PeacefulMove, Peaceful, SE!SigningOut, SessionInvariant,
               SE!SessionConstants
  <1>3. SE!MoveTo(asks, view.page, view.next, session')
    BY <1>1 DEF SE!Elsewhere
  <1> QED BY <1>1, <1>2, <1>3, MoveKeeps DEF SE!Elsewhere, SessionInvariant

LEMMA SignedInKeeps ==
    ASSUME SessionInvariant, NEW a \in asks, NEW u \in Users, SE!SignedIn(a, u)
    PROVE  SessionInvariant'
  <1> DEFINE b == [SE!Ask("provision", u, "home") EXCEPT !.own = a.own]
             rest == (asks \ {a}) \cup {b}
  <1>1. /\ AskFits(b) /\ b.kind = "provision" /\ b.own = a.own /\ b.answer = "none"
    BY DEF SE!Ask, AskFits, SessionAsks, AskKinds, SE!Protected, SE!Accounts, SessionInvariant,
           AsksFit
  <1> HIDE DEF b
  <1>2. /\ view.page \in SE!Pages /\ view.next \in SE!Protected /\ session' = u
        /\ strayed' \in BOOLEAN /\ user # Pending /\ session = user /\ a.kind = "signin"
    BY DEF SE!SignedIn, SessionInvariant, SessionTypes, Views, UserFits
  <1>3. AsksFit(rest) /\ AnswersHold(rest)
    BY <1>1 DEF SessionInvariant, AsksFit, AnswersHold
  <1>4. Waiting(rest)
    <2>1. ASSUME NEW kinds, Heeds(asks, kinds), "signin" \notin kinds PROVE Heeds(rest, kinds)
      BY <1>2, <2>1 DEF Heeds
    <2>2. Heeds(asks, {"signin", "provision"}) => Heeds(rest, {"signin", "provision"})
      BY <1>1 DEF Heeds
    <2> QED BY <2>1, <2>2 DEF Waiting, SessionInvariant
  <1>5. ASSUME ~strayed' PROVE ~strayed /\ PeacefulMove(rest)
    <2>1. ~strayed /\ user = Nobody /\ Peaceful
      BY <1>2, <1>5 DEF SE!SignedIn, SessionInvariant, SessionTypes
    <2>2. view.page \in SE!Entrances
      BY <2>1 DEF SessionInvariant, UserFits
    <2>3. ~SE!SigningOut
      BY <2>1, <2>2 DEF Peaceful, Emptied, SE!Entrances
    <2>4. AsksAreTheirs(rest)
      BY <1>1, <2>1 DEF Peaceful, AsksAreTheirs
    <2> QED BY <1>1, <1>2, <2>1, <2>3, <2>4 DEF PeacefulMove, SE!SigningOut, SessionInvariant,
               SE!SessionConstants
  <1>6. SE!MoveTo(rest, view.page, view.next, session')
    BY <1>2 DEF SE!SignedIn, b
  <1> QED BY <1>2, <1>3, <1>4, <1>5, <1>6, MoveKeeps DEF SE!SignedIn

LEMMA SignedOutKeeps ==
    ASSUME SessionInvariant, NEW a \in asks, SE!SignedOut(a)
    PROVE  SessionInvariant'
  <1> DEFINE rest == asks \ {a}
  <1>1. /\ "login" \in SE!Pages /\ "home" \in SE!Protected /\ session' = Nobody
        /\ strayed' = strayed /\ strayed \in BOOLEAN /\ user # Pending /\ a.kind = "signout"
    BY DEF SE!SignedOut, SessionInvariant, SessionTypes, UserFits, SE!Pages, SE!Entrances,
           SE!Protected
  <1>2. AsksFit(rest) /\ AnswersHold(rest)
    BY FewerAsks
  <1>3. Waiting(rest)
    BY <1>1, WaitsStill
  <1>4. ASSUME ~strayed' PROVE ~strayed /\ PeacefulMove(rest)
    <2>1. ~strayed /\ Peaceful /\ SE!SigningOut
      BY <1>1, <1>4 DEF SessionInvariant, SE!SigningOut
    <2>2. AsksAreTheirs(rest)
      BY <2>1, FewerAsks DEF Peaceful
    <2>3. \A b \in rest : b.kind # "signout"
      BY <1>1 DEF SessionInvariant, AsksFit
    <2> QED BY <1>1, <2>1, <2>2, <2>3 DEF PeacefulMove, Peaceful, Emptied
  <1> QED BY <1>1, <1>2, <1>3, <1>4, MoveKeeps DEF SE!SignedOut

\* An answer that is heard where it was asked for.
LEMMA HeardKeeps ==
    ASSUME SessionInvariant, NEW a \in asks, NEW v \in Views, SE!Heard(a, v),
           v.page = view.page, Waiting(asks)',
           ~strayed /\ SE!Ready' => account[user] = "complete"
    PROVE  SessionInvariant'
  <1> USE DEF SE!Heard
  <1>1. user # Pending /\ view' \in Views /\ view'.page = view.page
    BY DEF SessionInvariant, SessionTypes, UserFits
  <1>2. SessionTypes' /\ UserFits'
    BY <1>1 DEF SessionInvariant, SessionTypes, UserFits
  <1>3. AsksFit(asks)' /\ AnswersHold(asks)'
    BY <1>1 DEF SessionInvariant, AsksFit, AnswersHold
  <1>4. ASSUME ~strayed' PROVE Peaceful'
    BY <1>1, <1>4 DEF SessionInvariant, Peaceful, AsksAreTheirs, ShownIsTheirs, KeptIsTheirs,
                Emptied, SE!SigningOut, SE!Inside
  <1> QED BY <1>2, <1>3, <1>4 DEF SessionInvariant

LEMMA AskIs ==
    ASSUME SessionInvariant, NEW a \in asks
    PROVE  /\ AskFits(a) /\ user # Pending
           /\ a.kind # "signout" => a.next \in SE!Protected
           /\ view \in Views /\ a.own \in BOOLEAN
  BY DEF SessionInvariant, AsksFit, AskFits, SessionAsks, UserFits, SessionTypes

LEMMA ProvisionedKeeps ==
    ASSUME SessionInvariant, NEW a \in asks, SE!Provisioned(a)
    PROVE  SessionInvariant'
  <1>1. "onboarding" = view.page => Waiting(asks \ {a})
    BY WaitsStill DEF SE!Provisioned, SE!Entrances
  <1>2. "onboarding" \in SE!Pages /\ "home" \in SE!Protected
    BY DEF SE!Pages, SE!Protected
  <1> QED BY <1>1, <1>2, AskIs, GoesKeeps DEF SE!Provisioned

LEMMA SignInFailsKeeps ==
    ASSUME SessionInvariant, NEW a \in asks, SE!SignInFails(a)
    PROVE  SessionInvariant'
  <1>1. CASE a.own /\ user \in Users
    <2>1. "home" = view.page => Waiting(asks \ {a})
      BY WaitsStill DEF SE!SignInFails, SE!Entrances
    <2>2. "home" \in SE!Pages /\ "home" \in SE!Protected
      BY DEF SE!Pages, SE!Protected
    <2> QED BY <1>1, <2>1, <2>2, AskIs, GoesKeeps DEF SE!SignInFails
  <1>2. CASE ~(a.own /\ user \in Users)
    <2> DEFINE v == [view EXCEPT !.busy = FALSE]
    <2>1. SE!Heard(a, v) /\ v \in Views /\ v.page = view.page
      BY <1>2, AskIs DEF SE!SignInFails, Views
    <2>2. /\ view'.page = view.page /\ view'.loading = view.loading /\ view'.failed = view.failed
          /\ ~view'.busy \/ (~a.own /\ view' = view)
          /\ user' = user /\ asks' = asks \ {a}
      BY <2>1, AskIs DEF SE!Heard, Views
    <2>3. Waiting(asks)'
      <3>1. ASSUME NEW kinds, Heeds(asks, kinds),
                   ~a.own \/ kinds \cap {"signin", "provision"} = {}
            PROVE  Heeds(asks, kinds)'
        BY <2>2, <3>1 DEF Heeds, SE!SignInFails
      <3>2. CASE a.own
        BY <1>2, <2>2, <3>1, <3>2 DEF Waiting, SessionInvariant
      <3>3. CASE ~a.own
        BY <2>2, <3>1, <3>3 DEF Waiting, SessionInvariant
      <3> QED BY <3>2, <3>3
    <2>4. ~strayed /\ SE!Ready' => account[user] = "complete"
      BY <2>2 DEF SE!Ready, SE!Inside, SessionInvariant, Peaceful
    <2> QED BY <2>1, <2>3, <2>4, HeardKeeps
  <1> QED BY <1>1, <1>2

LEMMA GateLoadsKeeps ==
    ASSUME SessionInvariant, NEW a \in asks, SE!GateLoads(a)
    PROVE  SessionInvariant'
  <1>1. CASE ~SE!IsOnboardingComplete(a.answer)
    <2>1. "onboarding" = view.page => Waiting(asks \ {a})
      BY WaitsStill DEF SE!GateLoads, SE!Entrances, SE!Protected
    <2>2. "onboarding" \in SE!Pages /\ a.next \in SE!Protected
      BY AskIs DEF SE!Pages, SE!Protected, SE!GateLoads
    <2> QED BY <1>1, <2>1, <2>2, AskIs, GoesKeeps DEF SE!GateLoads
  <1>2. CASE SE!IsOnboardingComplete(a.answer)
    <2> DEFINE v == [view EXCEPT !.loading = FALSE]
    <2>1. SE!Heard(a, v) /\ v \in Views /\ v.page = view.page
      BY <1>2, AskIs DEF SE!GateLoads, Views
    <2>2. /\ view'.page = view.page /\ view'.busy = view.busy
          /\ ~view'.loading \/ (~a.own /\ view' = view)
          /\ user' = user /\ asks' = asks \ {a}
      BY <2>1, AskIs DEF SE!Heard, Views
    <2>3. Waiting(asks)'
      <3>1. ASSUME NEW kinds, Heeds(asks, kinds), ~a.own \/ "gate" \notin kinds
            PROVE  Heeds(asks, kinds)'
        BY <2>2, <3>1 DEF Heeds, SE!GateLoads
      <3>2. CASE a.own
        BY <2>2, <3>1, <3>2 DEF Waiting, SessionInvariant
      <3>3. CASE ~a.own
        BY <2>2, <3>1, <3>3 DEF Waiting, SessionInvariant
      <3> QED BY <3>2, <3>3
    <2>4. ASSUME ~strayed, SE!Ready' PROVE account[user] = "complete"
      <3>1. CASE a.own
        BY <1>2, <2>4, <3>1 DEF SessionInvariant, Peaceful, AsksAreTheirs, AnswersHold,
                    SE!IsOnboardingComplete, SE!GateLoads
      <3>2. CASE ~a.own
        BY <2>1, <2>2, <2>4, <3>2 DEF SE!Ready, SE!Inside, SE!Heard, SessionInvariant, Peaceful
      <3> QED BY <3>1, <3>2, AskIs
    <2> QED BY <2>1, <2>3, <2>4, HeardKeeps
  <1> QED BY <1>1, <1>2

LEMMA FormLoadsKeeps ==
    ASSUME SessionInvariant, NEW a \in asks, SE!FormLoads(a)
    PROVE  SessionInvariant'
  <1>1. CASE SE!IsOnboardingComplete(a.answer)
    <2>1. a.next \in SE!Pages /\ a.next \in SE!Protected /\ "home" \in SE!Protected
      BY AskIs DEF SE!Pages, SE!Protected, SE!FormLoads
    <2>2. a.next = view.page => Waiting(asks \ {a})
      BY <2>1, WaitsStill DEF SE!FormLoads, SE!Protected
    <2> QED BY <1>1, <2>1, <2>2, AskIs, GoesKeeps DEF SE!FormLoads
  <1>2. CASE ~SE!IsOnboardingComplete(a.answer)
    <2> DEFINE v == [view EXCEPT !.loading = FALSE]
    <2>1. SE!Heard(a, v) /\ v \in Views /\ v.page = view.page
      BY <1>2, AskIs DEF SE!FormLoads, Views
    <2>2. /\ view'.page = view.page /\ view'.busy = view.busy
          /\ ~view'.loading \/ (~a.own /\ view' = view)
          /\ user' = user /\ asks' = asks \ {a}
      BY <2>1, AskIs DEF SE!Heard, Views
    <2>3. Waiting(asks)'
      <3>1. ASSUME NEW kinds, Heeds(asks, kinds), ~a.own \/ "form" \notin kinds
            PROVE  Heeds(asks, kinds)'
        BY <2>2, <3>1 DEF Heeds, SE!FormLoads
      <3>2. CASE a.own
        BY <2>2, <3>1, <3>2 DEF Waiting, SessionInvariant
      <3>3. CASE ~a.own
        BY <2>2, <3>1, <3>3 DEF Waiting, SessionInvariant
      <3> QED BY <3>2, <3>3
    <2>4. ASSUME ~strayed, SE!Ready' PROVE account[user] = "complete"
      <3>1. ~a.own
        BY <2>2, <2>4 DEF SE!Ready, SE!Inside, SE!Protected, SessionInvariant, AsksFit,
                    SE!FormLoads
      <3> QED BY <2>1, <2>2, <2>4, <3>1 DEF SE!Ready, SE!Inside, SE!Heard, SessionInvariant, Peaceful
    <2> QED BY <2>1, <2>3, <2>4, HeardKeeps
  <1> QED BY <1>1, <1>2

LEMMA LoadFailsKeeps ==
    ASSUME SessionInvariant, NEW a \in asks, SE!LoadFails(a)
    PROVE  SessionInvariant'
  <1> DEFINE v == SE!Failed
  <1>1. /\ SE!Heard(a, v) /\ v \in Views /\ v.page = view.page
        /\ ~v.loading /\ ~v.busy /\ v.failed
    BY AskIs DEF SE!LoadFails, SE!Failed, Views
  <1>2. /\ view'.page = view.page /\ user' = user /\ asks' = asks \ {a}
        /\ (~view'.loading /\ ~view'.busy /\ view'.failed) \/ (~a.own /\ view' = view)
    BY <1>1, AskIs DEF SE!Heard
  <1>3. Waiting(asks)'
    <2>1. ASSUME NEW kinds, Heeds(asks, kinds), ~a.own \/ kinds = {"signin", "provision"}
          PROVE  Heeds(asks, kinds)'
      BY <1>2, <2>1 DEF Heeds, SE!LoadFails
    <2>2. CASE a.own
      BY <1>2, <2>1, <2>2 DEF Waiting, SessionInvariant
    <2>3. CASE ~a.own
      BY <1>2, <2>1, <2>3 DEF Waiting, SessionInvariant
    <2> QED BY <2>2, <2>3
  <1>4. ~strayed /\ SE!Ready' => account[user] = "complete"
    BY <1>2 DEF SE!Ready, SE!Inside, SessionInvariant, Peaceful
  <1> QED BY <1>1, <1>3, <1>4, HeardKeeps

LEMMA TargetEndsKeeps ==
    ASSUME SessionInvariant, NEW a \in asks, SE!TargetEnds(a)
    PROVE  SessionInvariant'
  <1>1. a.next \in SE!Pages /\ a.next \in SE!Protected /\ "home" \in SE!Protected
    BY AskIs DEF SE!Pages, SE!Protected, SE!TargetEnds
  <1>2. a.next = view.page => Waiting(asks \ {a})
    BY <1>1, WaitsStill DEF SE!TargetEnds, SE!Protected, SE!Entrances
  <1> QED BY <1>1, <1>2, AskIs, GoesKeeps DEF SE!TargetEnds

\* A component of the page asks for something.
LEMMA AskedFits ==
    ASSUME SessionInvariant, NEW b, AskFits(b), b.answer = "none",
           b.kind \notin {"form", "me", "badges"},
           b.kind = "gate" => SE!Inside /\ b.by = user, b.kind = "signout" => ~SE!SigningOut,
           asks' = asks \cup {b}, account' = account, view' \in Views, view'.page = view.page,
           user' = user
    PROVE  /\ AsksFit(asks)' /\ AnswersHold(asks)'
           /\ AsksAreTheirs(asks) => AsksAreTheirs(asks)'
           /\ \A kinds : Heeds(asks, kinds) => Heeds(asks, kinds)'
           /\ \A kinds : b.own /\ b.kind \in kinds => Heeds(asks, kinds)'
  <1>1. AsksFit(asks)'
    <2>1. \A a \in asks' : AskFits(a)
      BY DEF SessionInvariant, AsksFit
    <2>2. \A a, c \in asks' : a.kind = "signout" /\ c.kind = "signout" => a = c
      BY DEF SessionInvariant, AsksFit, SE!SigningOut
    <2>3. \A a \in asks' : a.own /\ a.kind = "form" => view'.page = "onboarding"
      BY DEF SessionInvariant, AsksFit
    <2> QED BY <2>1, <2>2, <2>3 DEF AsksFit, AskFits
  <1>2. AnswersHold(asks)'
    BY DEF SessionInvariant, AnswersHold
  <1>3. AsksAreTheirs(asks) => AsksAreTheirs(asks)'
    BY DEF AsksAreTheirs, SE!Inside
  <1> QED BY <1>1, <1>2, <1>3 DEF Heeds

LEMMA AskFitsIt ==
    ASSUME NEW kind \in AskKinds, NEW who \in Users \cup {Nobody},
           NEW next \in SE!Protected \cup {"login"},
           kind = "signout" \/ next \in SE!Protected, kind = "signin" \/ who \in Users
    PROVE  /\ AskFits(SE!Ask(kind, who, next)) /\ SE!Ask(kind, who, next).answer = "none"
           /\ SE!Ask(kind, who, next).kind = kind /\ SE!Ask(kind, who, next).by = who
           /\ SE!Ask(kind, who, next).own
  BY DEF SE!Ask, AskFits, SessionAsks, SE!Accounts

LEMMA SubmitsKeeps ==
    ASSUME SessionInvariant, SE!HandleSignIn \/ SE!HandleSignUp PROVE SessionInvariant'
  <1> USE DEF SE!Submits, SE!HandleSignIn, SE!HandleSignUp, SE!LoginReached, SE!SignupReached
  <1> DEFINE b == SE!Ask("signin", Nobody, view.next)
  <1>1. AskFits(b) /\ b.answer = "none" /\ b.kind = "signin" /\ b.own
    <2>1. "signin" \in AskKinds /\ view.next \in SE!Protected
      BY DEF SessionInvariant, SessionTypes, Views, AskKinds
    <2> QED BY <2>1, AskFitsIt
  <1> HIDE DEF b
  <1>2. /\ view' \in Views /\ view'.page = view.page /\ view.page \in SE!Entrances
        /\ asks' = asks \cup {b}
        /\ user' = user /\ user = Nobody /\ Nobody \notin Users
    BY DEF SessionInvariant, SessionTypes, Views, SE!SessionConstants, SE!Entrances, b
  <1>3. SessionTypes' /\ UserFits'
    BY <1>2 DEF SessionInvariant, SessionTypes, UserFits, SE!SessionConstants
  <1>4. /\ AsksFit(asks)' /\ AnswersHold(asks)'
        /\ AsksAreTheirs(asks) => AsksAreTheirs(asks)'
        /\ Heeds(asks, {"signin", "provision"})'
    BY <1>1, <1>2, AskedFits
  <1>5. Waiting(asks)'
    BY <1>2, <1>4 DEF Waiting, SE!Entrances, SE!Protected, Heeds
  <1>6. ASSUME ~strayed' PROVE Peaceful'
    BY <1>1, <1>2, <1>4, <1>6 DEF SessionInvariant, Peaceful, ShownIsTheirs, KeptIsTheirs,
            Emptied, SE!SigningOut, SE!Ready, SE!Inside
  <1> QED BY <1>3, <1>4, <1>5, <1>6 DEF SessionInvariant

LEMMA LogoutKeeps == ASSUME SessionInvariant, SE!Logout PROVE SessionInvariant'
  <1> USE DEF SE!Logout
  <1> DEFINE b == SE!Ask("signout", user, "login")
  <1>1. user \in Users /\ user # Pending /\ view.page = "mypage" /\ view \in Views
    BY DEF SE!Ready, SE!Inside, SessionInvariant, SessionTypes, SE!SessionConstants
  <1>2. AskFits(b) /\ b.answer = "none" /\ b.kind = "signout"
    BY <1>1, AskFitsIt DEF AskKinds
  <1> HIDE DEF b
  <1>3. asks' = asks \cup {b}
    BY DEF b
  <1>4. /\ AsksFit(asks)' /\ AnswersHold(asks)'
        /\ AsksAreTheirs(asks) => AsksAreTheirs(asks)'
        /\ \A kinds : Heeds(asks, kinds) => Heeds(asks, kinds)'
    BY <1>1, <1>2, <1>3, AskedFits
  <1>5. SessionTypes' /\ UserFits' /\ stored' = SE!Nothing
    BY <1>1 DEF SessionInvariant, SessionTypes, UserFits, SE!Nothing, Browsers
  <1>6. Waiting(asks)'
    BY <1>4 DEF Waiting, SessionInvariant, Heeds
  <1>7. ASSUME ~strayed' PROVE Peaceful'
    BY <1>1, <1>4, <1>5, <1>7 DEF SessionInvariant, Peaceful, ShownIsTheirs, KeptIsTheirs,
            Emptied, SE!Ready, SE!Inside, SE!Nothing
  <1> QED BY <1>4, <1>5, <1>6, <1>7 DEF SessionInvariant

LEMMA RetryGateKeeps == ASSUME SessionInvariant, SE!RetryGate PROVE SessionInvariant'
  <1> USE DEF SE!RetryGate
  <1> DEFINE b == SE!Ask("gate", user, view.page)
  <1>1. /\ user \in Users /\ user # Pending /\ view.page \in SE!Protected /\ SE!Inside
        /\ view \in Views /\ view' \in Views /\ view'.page = view.page /\ view'.loading
        /\ user' = user
    BY DEF SE!Inside, SessionInvariant, SessionTypes, SE!SessionConstants, Views
  <1>2. AskFits(b) /\ b.answer = "none" /\ b.kind = "gate" /\ b.by = user /\ b.own
    BY <1>1, AskFitsIt DEF AskKinds
  <1> HIDE DEF b
  <1>3. asks' = asks \cup {b}
    BY DEF b
  <1>4. /\ AsksFit(asks)' /\ AnswersHold(asks)'
        /\ AsksAreTheirs(asks) => AsksAreTheirs(asks)'
        /\ Heeds(asks, {"gate"})'
    BY <1>1, <1>2, <1>3, AskedFits
  <1>5. SessionTypes' /\ UserFits'
    BY <1>1 DEF SessionInvariant, SessionTypes, UserFits
  <1>6. Waiting(asks)'
    BY <1>1, <1>4 DEF Waiting, SE!Entrances, SE!Protected, Heeds
  <1>7. ASSUME ~strayed' PROVE Peaceful'
    BY <1>1, <1>2, <1>3, <1>4, <1>7 DEF SessionInvariant, Peaceful, ShownIsTheirs, KeptIsTheirs,
            Emptied, SE!SigningOut, SE!Ready
  <1> QED BY <1>4, <1>5, <1>6, <1>7 DEF SessionInvariant

LEMMA SubmitKeeps == ASSUME SessionInvariant, SE!HandleSubmit PROVE SessionInvariant'
  <1> USE DEF SE!HandleSubmit
  <1> DEFINE b == SE!Ask("create", user, view.next)
  <1>1. /\ user \in Users /\ user # Pending /\ view.page = "onboarding" /\ ~view.loading
        /\ view \in Views /\ view' \in Views /\ view'.page = view.page /\ ~view'.loading
        /\ user' = user
    BY DEF SE!FormReached, SessionInvariant, SessionTypes, SE!SessionConstants, Views
  <1>2. AskFits(b) /\ b.answer = "none" /\ b.kind = "create" /\ b.own
    BY <1>1, AskFitsIt DEF AskKinds, Views
  <1> HIDE DEF b
  <1>3. asks' = asks \cup {b}
    BY DEF b
  <1>4. /\ AsksFit(asks)' /\ AnswersHold(asks)'
        /\ AsksAreTheirs(asks) => AsksAreTheirs(asks)'
        /\ Heeds(asks, {"create", "target"})'
    BY <1>1, <1>2, <1>3, AskedFits
  <1>5. SessionTypes' /\ UserFits'
    BY <1>1 DEF SessionInvariant, SessionTypes, UserFits
  <1>6. Waiting(asks)'
    BY <1>1, <1>4 DEF Waiting, SE!Entrances, SE!Protected, Heeds
  <1>7. ASSUME ~strayed' PROVE Peaceful'
    BY <1>1, <1>2, <1>3, <1>4, <1>7 DEF SessionInvariant, Peaceful, ShownIsTheirs, KeptIsTheirs,
            Emptied, SE!SigningOut, SE!Ready, SE!Inside, SE!Protected
  <1> QED BY <1>4, <1>5, <1>6, <1>7 DEF SessionInvariant

LEMMA StoredKeeps ==
    ASSUME SessionInvariant,
           UNCHANGED <<account, given, session, user, view, me, badges, asks>>,
           stored' \in Browsers, strayed' \in BOOLEAN,
           ~strayed' => ~strayed /\ KeptIsTheirs' /\ (SE!SigningOut => stored' = stored)
    PROVE  SessionInvariant'
  <1>1. SessionTypes' /\ UserFits' /\ AsksFit(asks)' /\ AnswersHold(asks)' /\ Waiting(asks)'
    BY DEF SessionInvariant, SessionTypes, UserFits, AsksFit, AnswersHold, Waiting, Heeds
  <1>2. ASSUME ~strayed' PROVE Peaceful'
    BY <1>2 DEF SessionInvariant, Peaceful, ShownIsTheirs, AsksAreTheirs, Emptied,
                SE!SigningOut, SE!Ready, SE!Inside
  <1> QED BY <1>1, <1>2 DEF SessionInvariant

LEMMA StashedKeeps ==
    ASSUME SessionInvariant, NEW key \in {"recommendation", "collection"}, SE!Stashed(key)
    PROVE  SessionInvariant'
  <1> USE DEF SE!Stashed
  <1>1. user \in Users /\ user = session
    BY DEF SE!Ready, SE!Inside, SessionInvariant, UserFits, SE!SessionConstants
  <1>2. /\ stored' \in Browsers /\ stored'.readAt = stored.readAt
        /\ \/ stored'.recommendation = user /\ stored'.collection = Nobody
           \/ stored'.recommendation = Nobody /\ stored'.collection = user
    <2>1. CASE key = "recommendation"
      BY <1>1, <2>1 DEF SessionInvariant, SessionTypes, Browsers
    <2>2. CASE key = "collection"
      BY <1>1, <2>2 DEF SessionInvariant, SessionTypes, Browsers
    <2> QED BY <2>1, <2>2
  <1>3. strayed' \in BOOLEAN /\ (~strayed' => ~strayed /\ ~SE!SigningOut)
    BY DEF SessionInvariant, SessionTypes, SE!SigningOut
  <1>4. ~strayed' => KeptIsTheirs'
    BY <1>1, <1>2, <1>3 DEF SessionInvariant, Peaceful, KeptIsTheirs
  <1> QED BY <1>2, <1>3, <1>4, StoredKeeps

LEMMA CommitPendingKeeps == ASSUME SessionInvariant, SE!CommitPending PROVE SessionInvariant'
  <1> USE DEF SE!CommitPending
  <1>1. /\ stored' \in Browsers /\ stored'.readAt = stored.readAt
        /\ stored'.recommendation = Nobody /\ stored'.collection = Nobody
    BY DEF SessionInvariant, SessionTypes, Browsers, SE!Nothing
  <1>2. strayed' = strayed /\ strayed \in BOOLEAN
    BY DEF SessionInvariant, SessionTypes
  <1>3. ~strayed' => KeptIsTheirs'
    BY <1>1, <1>2 DEF SessionInvariant, Peaceful, KeptIsTheirs
  <1>4. ~strayed /\ SE!SigningOut => stored' = stored
    BY <1>1 DEF SessionInvariant, Peaceful, Emptied, SE!Nothing, Browsers
  <1> QED BY <1>1, <1>2, <1>3, <1>4, StoredKeeps

\* What the providers hold.
LEMMA ProviderKeeps ==
    ASSUME SessionInvariant, NEW a \in asks, a.kind \in {"me", "badges"},
           asks' = asks \ {a}, UNCHANGED <<account, given, session, user, view, stored, strayed>>,
           me' \in {me, Nobody} \/ (me' = a.by /\ a.own),
           badges' \in {badges, Nobody} \/ (badges' = a.by /\ a.own)
    PROVE  SessionInvariant'
  <1>1. a.by \in Users /\ user # Pending
    BY AskIs DEF AskFits
  <1>2. SessionTypes' /\ UserFits'
    BY <1>1 DEF SessionInvariant, SessionTypes, UserFits
  <1>3. AsksFit(asks)' /\ AnswersHold(asks)'
    BY DEF SessionInvariant, AsksFit, AnswersHold
  <1>4. Waiting(asks)'
    BY WaitsStill DEF Waiting, Heeds
  <1>5. ASSUME ~strayed' PROVE Peaceful'
    BY <1>5 DEF SessionInvariant, Peaceful, AsksAreTheirs, ShownIsTheirs, KeptIsTheirs,
                Emptied, SE!SigningOut, SE!Ready, SE!Inside
  <1> QED BY <1>2, <1>3, <1>4, <1>5 DEF SessionInvariant

LEMMA MeKeeps ==
    ASSUME SessionInvariant, NEW a \in asks, NEW ok, SE!MeArrives(a, ok) \/ SE!BadgesArrive(a, ok)
    PROVE  SessionInvariant'
  BY ProviderKeeps DEF SE!MeArrives, SE!BadgesArrive

\* An answer of the server, or the step from a creation to its target.
LEMMA ReplacedKeeps ==
    ASSUME SessionInvariant, NEW a \in asks, NEW b, AskFits(b), asks' = (asks \ {a}) \cup {b},
           b.own = a.own, b.by = a.by,
           b.kind = a.kind \/ (a.kind = "create" /\ b.kind = "target"), a.kind # "signout",
           account' \in [Users -> SE!Accounts], given' \in [Users -> BOOLEAN],
           \A u \in Users : account[u] = "complete" => account'[u] = "complete",
           b.answer = "complete" => account'[b.by] = "complete",
           UNCHANGED <<session, user, view, me, badges, stored, strayed>>
    PROVE  SessionInvariant'
  <1>1. user # Pending /\ a.kind # "signin" => a.by \in Users
    BY AskIs DEF AskFits
  <1>2. SessionTypes' /\ UserFits'
    BY AskIs DEF SessionInvariant, SessionTypes, UserFits
  <1>3. AsksFit(asks)'
    <2>1. \A c \in asks' : AskFits(c)
      BY DEF SessionInvariant, AsksFit
    <2>2. \A c, d \in asks' : c.kind = "signout" /\ d.kind = "signout" => c = d
      BY DEF SessionInvariant, AsksFit
    <2>3. \A c \in asks' : c.own /\ c.kind = "form" => view'.page = "onboarding"
      BY DEF SessionInvariant, AsksFit
    <2> QED BY <2>1, <2>2, <2>3 DEF AsksFit, AskFits
  <1>4. AnswersHold(asks)'
    <2> SUFFICES ASSUME NEW c \in asks', c.answer = "complete" PROVE account'[c.by] = "complete"
      BY DEF AnswersHold
    <2>1. CASE c = b
      BY <2>1
    <2>2. CASE c # b
      <3>1. c \in asks /\ account[c.by] = "complete"
        BY <2>2 DEF SessionInvariant, AnswersHold
      <3>2. c.by \in Users
        BY <2>2, <3>1, AskIs DEF AskFits
      <3> QED BY <3>1, <3>2
    <2> QED BY <2>1, <2>2
  <1>5. Waiting(asks)'
    <2>1. ASSUME NEW kinds, Heeds(asks, kinds), "create" \in kinds => "target" \in kinds
          PROVE  Heeds(asks, kinds)'
      BY <2>1 DEF Heeds
    <2> QED BY <2>1 DEF SessionInvariant, Waiting
  <1>6. ASSUME ~strayed' PROVE Peaceful'
    <2>1. Peaceful
      BY <1>6 DEF SessionInvariant
    <2>2. AsksAreTheirs(asks)'
      BY <2>1 DEF Peaceful, AsksAreTheirs, SE!Inside
    <2>3. SE!SigningOut' => SE!SigningOut
      BY DEF SE!SigningOut
    <2> QED BY <2>1, <2>2, <2>3 DEF Peaceful, ShownIsTheirs, KeptIsTheirs, Emptied,
                SE!Ready, SE!Inside
  <1> QED BY <1>2, <1>3, <1>4, <1>5, <1>6 DEF SessionInvariant

LEMMA CreatedKeeps ==
    ASSUME SessionInvariant, NEW a \in asks, SE!Created(a) PROVE SessionInvariant'
  <1> DEFINE b == [a EXCEPT !.kind = "target", !.at = "sent"]
  <1>1. /\ AskFits(b) /\ b.own = a.own /\ b.by = a.by /\ b.kind = "target"
        /\ b.answer = a.answer /\ a.kind = "create"
    BY AskIs DEF SE!Created, AskFits, SessionAsks, AskKinds
  <1>2. asks' = (asks \ {a}) \cup {b}
    BY DEF SE!Created
  <1> HIDE DEF b
  <1>3. account' = account /\ given' = given
    BY DEF SE!Created
  <1>4. account' \in [Users -> SE!Accounts] /\ given' \in [Users -> BOOLEAN]
    BY <1>3 DEF SessionInvariant, SessionTypes
  <1>5. b.answer = "complete" => account'[b.by] = "complete"
    BY <1>1, <1>3 DEF SessionInvariant, AnswersHold
  <1> QED BY <1>1, <1>2, <1>3, <1>4, <1>5, ReplacedKeeps DEF SE!Created

\* The server answers with the account that it read; an account that is complete stays so.
LEMMA RouteAnswerKeeps ==
    ASSUME SessionInvariant, NEW a \in asks, NEW stage \in {"answered", "saved"},
           SE!Answered(a, stage), a.kind \notin {"signin", "signout"},
           \/ account' = account
           \/ account' = [account EXCEPT ![a.by] = IF account[a.by] = "none" THEN "bare"
                                                   ELSE account[a.by]]
           \/ account' = [account EXCEPT ![a.by] = "complete"],
           given' = given \/ given' = [given EXCEPT ![a.by] = TRUE]
    PROVE  SessionInvariant'
  <1> DEFINE b == [a EXCEPT !.at = stage, !.answer = account[a.by]]
  <1>1. a.by \in Users /\ account \in [Users -> SE!Accounts] /\ given \in [Users -> BOOLEAN]
    BY AskIs DEF AskFits, SessionInvariant, SessionTypes
  <1>2. /\ AskFits(b) /\ b.own = a.own /\ b.by = a.by /\ b.kind = a.kind
        /\ b.answer = account[a.by]
    <2>1. account[a.by] \in SE!Accounts /\ stage \in {"sent", "answered", "saved"}
      BY <1>1
    <2>2. a \in SessionAsks /\ (a.kind # "signout" => a.next \in SE!Protected)
      BY AskIs DEF AskFits
    <2>3. b \in SessionAsks /\ b.own = a.own /\ b.by = a.by /\ b.kind = a.kind
          /\ b.answer = account[a.by] /\ b.next = a.next
      BY <2>1, <2>2 DEF SessionAsks
    <2> QED BY <1>1, <2>2, <2>3 DEF AskFits
  <1>3. asks' = (asks \ {a}) \cup {b}
    BY DEF SE!Answered
  <1> HIDE DEF b
  <1>4. account' \in [Users -> SE!Accounts] /\ given' \in [Users -> BOOLEAN]
    BY <1>1 DEF SE!Accounts
  <1>5. \A u \in Users : account[u] = "complete" => account'[u] = "complete"
    BY <1>1
  <1>6. b.answer = "complete" => account'[b.by] = "complete"
    BY <1>1, <1>2, <1>5
  <1> QED BY <1>2, <1>3, <1>4, <1>5, <1>6, ReplacedKeeps DEF SE!Answered

LEMMA RoutesKeep ==
    ASSUME SessionInvariant, NEW a \in asks,
           \/ SE!GetMe(a) \/ SE!ProvisionUser(a) \/ SE!UpsertOnboardingUser(a)
           \/ SE!EnsureDefaultCollection(a)
    PROVE  SessionInvariant'
  <1>1. CASE SE!GetMe(a)
    BY <1>1, RouteAnswerKeeps DEF SE!GetMe
  <1>2. CASE SE!ProvisionUser(a)
    BY <1>2, RouteAnswerKeeps DEF SE!ProvisionUser
  <1>3. CASE SE!UpsertOnboardingUser(a)
    BY <1>3, RouteAnswerKeeps DEF SE!UpsertOnboardingUser
  <1>4. CASE SE!EnsureDefaultCollection(a)
    BY <1>4, RouteAnswerKeeps DEF SE!EnsureDefaultCollection
  <1> QED BY <1>1, <1>2, <1>3, <1>4

LEMMA SessionKeeps == SessionInvariant /\ [SE!Next]_SE!vars => SessionInvariant'
  <1> SUFFICES ASSUME SessionInvariant, [SE!Next]_SE!vars PROVE SessionInvariant'
    OBVIOUS
  <1>1. CASE UNCHANGED SE!vars
    <2> USE <1>1 DEF SE!vars
    <2>1. SessionTypes' /\ UserFits' /\ AsksFit(asks)' /\ AnswersHold(asks)' /\ Waiting(asks)'
      BY DEF SessionInvariant, SessionTypes, UserFits, AsksFit, AnswersHold, Waiting, Heeds
    <2>2. ~strayed' => Peaceful'
      BY DEF SessionInvariant, Peaceful, AsksAreTheirs, ShownIsTheirs, KeptIsTheirs, Emptied,
             SE!SigningOut, SE!Ready, SE!Inside
    <2> QED BY <2>1, <2>2 DEF SessionInvariant
  <1>2. CASE \/ SE!Reload \/ SE!AuthStateReady \/ SE!HandleSignIn \/ SE!HandleSignUp \/ SE!Logout
             \/ SE!RetryGate \/ SE!HandleSubmit
    BY <1>2, ReloadKeeps, AuthKeeps, SubmitsKeeps, LogoutKeeps, RetryGateKeeps, SubmitKeeps
  <1>3. CASE SE!StashPendingRecommendation \/ SE!StashPendingCollectionConsult \/ SE!CommitPending
    BY <1>3, StashedKeeps, CommitPendingKeeps
       DEF SE!StashPendingRecommendation, SE!StashPendingCollectionConsult
  <1>4. CASE \E path \in SE!Pages : SE!Browse(path)
    BY <1>4, BrowseKeeps
  <1>5. CASE \E who \in Users \cup {Nobody} : SE!Elsewhere(who)
    BY <1>5, ElsewhereKeeps
  <1>6. ASSUME NEW a \in asks,
               \/ SE!Provisioned(a) \/ SE!SignInFails(a) \/ SE!SignedOut(a) \/ SE!GateLoads(a)
               \/ SE!FormLoads(a) \/ SE!Created(a) \/ SE!TargetEnds(a) \/ SE!LoadFails(a)
        PROVE  SessionInvariant'
    BY <1>6, ProvisionedKeeps, SignInFailsKeeps, SignedOutKeeps, GateLoadsKeeps, FormLoadsKeeps,
       CreatedKeeps, TargetEndsKeeps, LoadFailsKeeps
  <1>7. ASSUME NEW a \in asks, NEW u \in Users, SE!SignedIn(a, u) PROVE SessionInvariant'
    BY <1>7, SignedInKeeps
  <1>8. ASSUME NEW a \in asks, NEW ok \in BOOLEAN, SE!MeArrives(a, ok) \/ SE!BadgesArrive(a, ok)
        PROVE  SessionInvariant'
    BY <1>8, MeKeeps
  <1> QED BY <1>1, <1>2, <1>3, <1>4, <1>5, <1>6, <1>7, <1>8, RoutesKeep DEF SE!Next

\* However redirects, answers, other tabs and the server overlap, no page is a dead end;
\* and as long as the tab signs in and out by itself and in peace, nobody passes a gate
\* without a complete account, or sees or leaves what is another user's.
THEOREM SessionsStayTheirs == SE!SessionConstants => (SE!Spec => [](SE!NeverStuck /\ SE!OnlyTheirOwn))
  <1> SUFFICES ASSUME SE!SessionConstants PROVE SE!Spec => [](SE!NeverStuck /\ SE!OnlyTheirOwn)
    OBVIOUS
  <1>1. SE!Init => SessionInvariant
    BY SessionStarts
  <1>2. SessionInvariant /\ [SE!Next]_SE!vars => SessionInvariant'
    BY SessionKeeps
  <1>3. SessionInvariant => SE!NeverStuck /\ SE!OnlyTheirOwn
    BY SessionHolds
  <1> QED BY <1>1, <1>2, <1>3, PTL DEF SE!Spec

-----------------------------------------------------------------------------
(* The pages a shared link leads to.  A load is heard by the page it was    *)
(* begun for only, and what it was answered was due on it; an answer about *)
(* access is a gate only if nothing is to be seen, which for a spot needs  *)
(* that it lies in a collection of its author.                             *)

Due == {"detail", "owner", "gate"}
PageRecords ==
    [loading : BOOLEAN, is : {"none", "error", "missing"} \cup Due]
InnerRecords == [loading : BOOLEAN, is : {"absent", "none", "detail", "error"}]
LoadRecords ==
    [of : {"page", "inner"}, route : SH!Routes, own : BOOLEAN,
     at : {"detail", "list", "gate", "answered"},
     is : {"none", "error", "missing"} \cup Due]

LoadFits(l) ==
    /\ l.own => l.route = route
    /\ l.of = "inner" => l.at \in {"detail", "answered"} /\ l.is \in {"none", "detail", "error"}
    /\ l.own /\ l.of = "page" /\ l.is \in Due => l.is \in seen

Awaits(of) == \E l \in loads : l.own /\ l.of = of

ShareTypes ==
    /\ route \in SH!Routes /\ me \in {"pending", "ok", "failed"}
    /\ page \in PageRecords /\ inner \in InnerRecords
    /\ gate \in {"offered", "sending", "sent"}
    /\ loads \subseteq LoadRecords
LoadsAreFit == \A l \in loads : LoadFits(l)
PageWasDue == page.is \in Due => page.is \in seen
GateIsShown == gate # "offered" => page.is = "gate"
PageIsAwaited ==
    page.loading /\ (me # "pending" \/ ~SH!WaitsForMe(route)) => Awaits("page")
InnerIsAwaited ==
    route.kind = "collection" /\ page.is = "detail" /\ inner.loading => Awaits("inner")

\* Of the pages, besides the tables.
ShareState ==
    /\ SH!Truth(route) \in seen
    /\ ShareTypes /\ LoadsAreFit /\ PageWasDue /\ GateIsShown
    /\ PageIsAwaited /\ InnerIsAwaited

LEMMA RouteKinds ==
    ASSUME NEW r \in SH!Routes
    PROVE  r.kind \in {"collection", "spot", "user"}
  BY DEF SH!Routes

LEMMA TruthValues ==
    ASSUME NEW r
    PROVE  SH!Truth(r) \in {"detail", "owner", "gate", "missing"}
  BY DEF SH!Truth, SH!Access

\* What a load is told: that there is something to see, or a gate.
LEMMA TruthLasts ==
    ASSUME UNCHANGED <<SH!libraryVars, route>>
    PROVE  SH!Truth(route)' = SH!Truth(route)
  BY DEF SH!libraryVars, SH!Truth, SH!Access, SH!SpotDetail, SH!SpotGate, SH!Profile,
         SH!UserGate, SH!CollectionVisible, SH!CollectionGate, SH!SpotVisible, SH!Gated,
         SH!IsCollection, SH!IsSpot, SH!AreFriends, SH!Collections, SH!Spots

\* The gates are those that Truth tells.
LEMMA GateIsTrue ==
    ASSUME NEW r \in SH!Routes, SH!SpotsHold,
           \/ r.kind = "collection" /\ SH!CollectionGate(ShareViewer, r.id)
           \/ r.kind = "spot" /\ SH!SpotGate(ShareViewer, r.id)
           \/ r.kind = "user" /\ SH!UserGate(ShareViewer, r.id)
    PROVE  SH!Truth(r) = "gate"
  <1>1. CASE r.kind = "collection"
    BY <1>1 DEF SH!Truth, SH!Access, SH!CollectionGate, SH!Gated, SH!CollectionVisible
  <1>2. CASE r.kind = "user"
    BY <1>2 DEF SH!Truth, SH!Access, SH!Profile, SH!UserGate
  <1>3. CASE r.kind = "spot"
    <2>1. SH!SpotGate(ShareViewer, r.id)
      BY <1>3
    <2>2. spot[r.id].by # ShareViewer
      BY <2>1 DEF SH!SpotGate, SH!SpotsHold, SH!RowsFit, SH!Gated, SH!IsSpot
    <2>3. ~SH!SpotVisible(ShareViewer, r.id)
      BY <2>1, <2>2 DEF SH!SpotGate, SH!Gated, SH!CollectionVisible, SH!SpotVisible
    <2> QED BY <1>3, <2>1, <2>3 DEF SH!Truth, SH!Access, SH!SpotDetail
  <1> QED BY <1>1, <1>2, <1>3, RouteKinds

\* A load that is begun.
LEMMA LoadBegun ==
    ASSUME NEW of \in {"page", "inner"}, NEW r \in SH!Routes
    PROVE  /\ SH!Load(of, r) \in LoadRecords
           /\ SH!Load(of, r).of = of /\ SH!Load(of, r).own /\ SH!Load(of, r).route = r
           /\ SH!Load(of, r).at = "detail" /\ SH!Load(of, r).is = "none"
  BY DEF SH!Load, LoadRecords

\* Loads whose effect is cleaned up.
LEMMA Cancelled ==
    ASSUME NEW of, loads \subseteq LoadRecords, NEW k \in SH!Cancel(of)
    PROVE  /\ k \in LoadRecords
           /\ \E l \in loads : /\ k.of = l.of /\ k.route = l.route /\ k.at = l.at /\ k.is = l.is
                               /\ k.own <=> l.own /\ l.of \notin of
  <1>1. PICK l \in loads : k = [l EXCEPT !.own = @ /\ l.of \notin of]
    BY DEF SH!Cancel
  <1>2. l \in LoadRecords
    OBVIOUS
  <1> QED BY <1>1, <1>2 DEF LoadRecords

LEMMA NotCancelled ==
    ASSUME NEW of, loads \subseteq LoadRecords, NEW l \in loads, l.own, l.of \notin of
    PROVE  \E k \in SH!Cancel(of) : k.own /\ k.of = l.of
  <1>1. [l EXCEPT !.own = @ /\ l.of \notin of] \in SH!Cancel(of)
    BY DEF SH!Cancel
  <1>2. l \in LoadRecords
    OBVIOUS
  <1> QED BY <1>1, <1>2 DEF LoadRecords
\* The server answers a request, and the load goes on.
LEMMA LoadGoesKeeps ==
    ASSUME ShareState, NEW l \in loads, NEW at \in {"detail", "list", "gate", "answered"},
           NEW is \in {"none", "error", "missing"} \cup Due, SH!Goes(l, at, is),
           l.of = "inner" => at \in {"detail", "answered"} /\ is \in {"none", "detail", "error"},
           l.own /\ is \in Due /\ l.of = "page" => is \in seen
    PROVE  ShareState'
  <1> DEFINE m == [l EXCEPT !.at = at, !.is = is]
  <1>1. /\ loads' = (loads \ {l}) \cup {m}
        /\ UNCHANGED <<SH!libraryVars, route, me, page, inner, gate, seen>>
    BY DEF SH!Goes
  <1>2. l \in LoadRecords
    BY DEF ShareState, ShareTypes
  <1>3. m \in LoadRecords /\ m.of = l.of /\ m.own = l.own /\ m.route = l.route /\ m.at = at /\ m.is = is
    BY <1>2 DEF LoadRecords
  <1> HIDE DEF m
  <1>4. SH!Truth(route)' \in seen'
    BY <1>1, TruthLasts DEF ShareState
  <1>5. ShareTypes' /\ PageWasDue' /\ GateIsShown'
    BY <1>1, <1>3 DEF ShareState, ShareTypes, PageWasDue, GateIsShown
  <1>6. LoadsAreFit'
    <2>1. ASSUME NEW k \in loads' PROVE LoadFits(k)'
      <3>1. CASE k = m
        BY <3>1, <1>1, <1>3 DEF ShareState, LoadsAreFit, LoadFits
      <3>2. CASE k \in loads
        BY <3>2, <1>1 DEF ShareState, LoadsAreFit, LoadFits
      <3> QED BY <2>1, <3>1, <3>2, <1>1
    <2> QED BY <2>1 DEF LoadsAreFit
  <1>7. ASSUME NEW of, Awaits(of) PROVE Awaits(of)'
    BY <1>7, <1>1, <1>3 DEF Awaits
  <1> QED BY <1>1, <1>4, <1>5, <1>6, <1>7
          DEF ShareState, PageIsAwaited, InnerIsAwaited, SH!WaitsForMe

LEMMA AnswersKeep ==
    ASSUME ShareState, SH!SpotsHold, NEW l \in loads,
           \/ SH!LoadCollectionPage(l) \/ SH!LoadSpotPage(l) \/ SH!FetchFriendProfile(l)
           \/ SH!ListFriendCollections(l) \/ SH!GetCollectionDetail(l)
           \/ SH!GetCollectionGate(l) \/ SH!GetSpotGate(l) \/ SH!GetUserGate(l)
    PROVE  ShareState'
  <1>1. l \in LoadRecords /\ LoadFits(l) /\ SH!Truth(route) \in seen
    BY DEF ShareState, ShareTypes, LoadsAreFit
  <1>2. ASSUME NEW at \in {"answered", "list"}, SH!OrGate(l, at), l.of = "page" PROVE ShareState'
    <2>1. CASE SH!Sees(l.route)
      BY <2>1, <1>1, <1>2, LoadGoesKeeps DEF SH!OrGate, SH!Sees, LoadFits, Due
    <2>2. CASE ~SH!Sees(l.route)
      BY <2>2, <1>1, <1>2, LoadGoesKeeps DEF SH!OrGate, Due
    <2> QED BY <2>1, <2>2
  <1>3. CASE SH!LoadCollectionPage(l) \/ SH!LoadSpotPage(l) \/ SH!FetchFriendProfile(l)
    BY <1>3, <1>2 DEF SH!LoadCollectionPage, SH!LoadSpotPage, SH!FetchFriendProfile, SH!Asked
  <1>4. CASE SH!ListFriendCollections(l)
    <2>1. l.is \in {"none", "error", "missing"} \cup Due /\ SH!Goes(l, "answered", l.is)
      BY <1>1, <1>4 DEF LoadRecords, SH!ListFriendCollections
    <2> QED BY <1>1, <2>1, LoadGoesKeeps DEF LoadFits
  <1>5. CASE SH!GetCollectionDetail(l)
    <2>1. PICK is \in {"detail", "error"} : SH!Goes(l, "answered", is) /\ l.of = "inner"
      BY <1>5 DEF SH!GetCollectionDetail, SH!Asked
    <2> QED BY <2>1, LoadGoesKeeps DEF Due
  <1>6. ASSUME NEW kind, NEW gated \in BOOLEAN, SH!Gate(l, kind, gated),
               gated => SH!Truth(l.route) = "gate"
        PROVE  ShareState'
    <2>1. PICK is \in {"gate", "missing"} :
              SH!Goes(l, "answered", is) /\ l.at = "gate" /\ (is = "gate" <=> gated)
      BY <1>6 DEF SH!Gate
    <2>2. l.of = "page"
      BY <1>1, <2>1 DEF LoadFits, LoadRecords
    <2>3. l.own /\ is \in Due => is \in seen
      BY <1>1, <1>6, <2>1, <2>2 DEF LoadFits, Due
    <2> QED BY <2>1, <2>2, <2>3, LoadGoesKeeps DEF Due
  <1>7. l.route \in SH!Routes
    BY <1>1 DEF LoadRecords
  <1>8. CASE SH!GetCollectionGate(l)
    <2>1. SH!CollectionGate(ShareViewer, l.route.id) \in BOOLEAN /\ l.route.kind = "collection"
          /\ SH!Gate(l, "collection", SH!CollectionGate(ShareViewer, l.route.id))
      BY <1>8 DEF SH!GetCollectionGate, SH!Gate, SH!CollectionGate, SH!Gated
    <2> QED BY <2>1, <1>6, <1>7, GateIsTrue
  <1>9. CASE SH!GetSpotGate(l)
    <2>1. SH!SpotGate(ShareViewer, l.route.id) \in BOOLEAN /\ l.route.kind = "spot"
          /\ SH!Gate(l, "spot", SH!SpotGate(ShareViewer, l.route.id))
      BY <1>9 DEF SH!GetSpotGate, SH!Gate, SH!SpotGate, SH!Gated
    <2> QED BY <2>1, <1>6, <1>7, GateIsTrue
  <1>10. CASE SH!GetUserGate(l)
    <2>1. SH!UserGate(ShareViewer, l.route.id) \in BOOLEAN /\ l.route.kind = "user"
          /\ SH!Gate(l, "user", SH!UserGate(ShareViewer, l.route.id))
      BY <1>10 DEF SH!GetUserGate, SH!Gate, SH!UserGate
    <2> QED BY <2>1, <1>6, <1>7, GateIsTrue
  <1> QED BY <1>3, <1>4, <1>5, <1>8, <1>9, <1>10

\* What else happens in the tables is noted.
LEMMA ChangesKeep ==
    ASSUME ShareState, SH!Changes
    PROVE  ShareState'
  <1>1. /\ UNCHANGED <<route, me, page, inner, loads, gate>>
        /\ seen' = seen \cup {SH!Truth(route)'}
    BY DEF SH!Changes
  <1>2. LoadsAreFit'
    BY <1>1 DEF ShareState, LoadsAreFit, LoadFits
  <1> QED BY <1>1, <1>2
          DEF ShareState, ShareTypes, PageWasDue, GateIsShown, PageIsAwaited, InnerIsAwaited, Awaits, SH!WaitsForMe

\* A load goes on, heard or not.
Remains(k, l) ==
    k.of = l.of /\ k.route = l.route /\ k.at = l.at /\ k.is = l.is /\ (k.own => l.own)

\* Loads that end, and others that are begun.
LEMMA LoadsChange ==
    ASSUME ShareState, UNCHANGED SH!libraryVars, route' \in SH!Routes,
           NEW rest, NEW begun,
           loads' = rest \cup begun,
           rest \subseteq LoadRecords, \A k \in rest : \E l \in loads : Remains(k, l),
           \A k \in rest : k.own => UNCHANGED <<route, seen>>,
           \A k \in begun : \E of \in {"page", "inner"} : k = SH!Load(of, route')
    PROVE  LoadsAreFit' /\ (loads \subseteq LoadRecords)'
  <1>1. ASSUME NEW k \in rest PROVE LoadFits(k)'
    <2>1. PICK l \in loads : Remains(k, l)
      BY <1>1
    <2>2. LoadFits(l)
      BY <2>1 DEF ShareState, LoadsAreFit
    <2> QED BY <1>1, <2>1, <2>2 DEF LoadFits, Remains
  <1>2. ASSUME NEW k \in begun PROVE LoadFits(k)' /\ k \in LoadRecords
    <2>1. PICK of \in {"page", "inner"} : k = SH!Load(of, route')
      BY <1>2
    <2>2. /\ k \in LoadRecords /\ k.of = of /\ k.own /\ k.route = route'
          /\ k.at = "detail" /\ k.is = "none"
      BY <2>1, LoadBegun
    <2> QED BY <2>2 DEF LoadFits, Due
  <1> QED BY <1>1, <1>2 DEF LoadsAreFit
LEMMA StillRemains ==
    ASSUME NEW of, loads \subseteq LoadRecords
    PROVE  /\ SH!Cancel(of) \subseteq LoadRecords
           /\ \A k \in SH!Cancel(of) : \E l \in loads : Remains(k, l) /\ (k.own => l.of \notin of)
  BY Cancelled DEF Remains

LEMMA LoadsEnd ==
    ASSUME ShareState, UNCHANGED SH!libraryVars, route' \in SH!Routes,
           loads' \subseteq LoadRecords,
           \A k \in loads' : \E l \in loads : Remains(k, l),
           UNCHANGED <<route, seen>>
    PROVE  LoadsAreFit' /\ (loads \subseteq LoadRecords)'
  BY DEF ShareState, LoadsAreFit, LoadFits, Remains

LEMMA SameRemains == \A l : Remains(l, l)
  BY DEF Remains

\* The page is told, or the view inside it; a load that nobody hears is dropped.
LEMMA ArrivesKeeps ==
    ASSUME ShareState, NEW l \in loads, SH!Arrives(l)
    PROVE  ShareState'
  <1>1. l \in LoadRecords /\ LoadFits(l) /\ ShareTypes
    BY DEF ShareState, ShareTypes, LoadsAreFit
  <1>2. UNCHANGED <<SH!libraryVars, route, me, seen>>
    BY DEF SH!Arrives
  <1>3. SH!Truth(route)' \in seen'
    BY <1>2, TruthLasts DEF ShareState
  <1>4. CASE ~l.own
    <2>1. loads' = loads \ {l} /\ UNCHANGED <<page, inner, gate>>
      BY <1>4 DEF SH!Arrives, SH!Heard
    <2>2. \A of : Awaits(of) => Awaits(of)'
      BY <1>4, <2>1 DEF Awaits
    <2> QED BY <1>2, <1>3, <2>1, <2>2
        DEF ShareState, ShareTypes, LoadsAreFit, LoadFits, PageWasDue, GateIsShown, PageIsAwaited,
            InnerIsAwaited, SH!WaitsForMe
  <1>5. CASE l.own
    <2>1. l.route = route
      BY <1>1, <1>5 DEF LoadFits
    <2>2. gate' = IF page'.is = page.is THEN gate ELSE "offered"
      BY <1>5 DEF SH!Arrives, SH!Heard
    <2>3. CASE SH!CollectionPageLoads(l)
      <3>1. l.of = "page" /\ route.kind = "collection"
        BY <2>1, <2>3 DEF SH!CollectionPageLoads
      <3> DEFINE is == IF l.is = "gate" THEN "gate"
                       ELSE IF me # "ok" THEN (IF page.is = "none" THEN "error" ELSE page.is)
                       ELSE l.is
      <3>0. page' = [loading |-> FALSE, is |-> is]
        BY <2>3 DEF SH!CollectionPageLoads
      <3>a. /\ page.is \in {"none", "error", "missing"} \cup Due /\ (page.is \in Due => page.is \in seen)
            /\ l.is \in {"none", "error", "missing"} \cup Due /\ (l.is \in Due => l.is \in seen)
        BY <1>1, <1>5, <3>1 DEF LoadFits, LoadRecords, ShareState, ShareTypes, PageRecords, PageWasDue
      <3>b. is \in {"none", "error", "missing"} \cup Due /\ (is \in Due => is \in seen)
        BY <3>a DEF Due
      <3> HIDE DEF is
      <3>2. page' = [loading |-> FALSE, is |-> is] /\ (is \in Due => is \in seen)
        BY <3>0, <3>b
      <3>3. page' \in PageRecords /\ ~page'.loading /\ page'.is = is
        BY <3>2, <3>b DEF PageRecords
      <3>4. CASE is # "detail"
        <4>1. inner' = SH!Absent /\ loads' = SH!Cancel({"inner"}) \ {l}
          BY <2>3, <3>3, <3>4 DEF SH!CollectionPageLoads
        <4>2. inner' \in InnerRecords
          BY <4>1 DEF SH!Absent, InnerRecords
        <4>3. LoadsAreFit' /\ (loads \subseteq LoadRecords)'
          <5>1. SH!Cancel({"inner"}) \ {l} \subseteq LoadRecords
            BY <1>1, StillRemains DEF ShareTypes
          <5>2. \A k \in SH!Cancel({"inner"}) \ {l} : \E m \in loads : Remains(k, m)
            BY <1>1, StillRemains DEF ShareTypes
          <5>3. route' \in SH!Routes
            BY <1>1, <1>2 DEF ShareTypes
          <5> QED BY <1>2, <4>1, <5>1, <5>2, <5>3, LoadsEnd
        <4> QED BY <1>1, <1>2, <1>3, <2>2, <3>2, <3>3, <3>4, <4>2, <4>3
            DEF ShareState, ShareTypes, PageWasDue, GateIsShown, PageIsAwaited, InnerIsAwaited
      <3>5. CASE is = "detail" /\ page.is = "detail"
        <4>1. inner' = inner /\ loads' = loads \ {l}
          BY <2>3, <3>3, <3>5 DEF SH!CollectionPageLoads
        <4>2. Awaits("inner") => Awaits("inner")'
          BY <3>1, <4>1 DEF Awaits
        <4>3. LoadsAreFit' /\ (loads \subseteq LoadRecords)'
          BY <1>2, <4>1 DEF ShareState, ShareTypes, LoadsAreFit, LoadFits
        <4> QED BY <1>1, <1>2, <1>3, <2>2, <3>2, <3>3, <3>5, <4>1, <4>2, <4>3
            DEF ShareState, ShareTypes, PageWasDue, GateIsShown, PageIsAwaited, InnerIsAwaited
      <3>6. CASE is = "detail" /\ page.is # "detail"
        <4>1. inner' = SH!Blank /\ loads' = (loads \ {l}) \cup {SH!Load("inner", route)}
          BY <2>3, <3>3, <3>6 DEF SH!CollectionPageLoads
        <4>2. inner' \in InnerRecords
          BY <4>1 DEF SH!Blank, InnerRecords
        <4>3. Awaits("inner")'
          BY <1>1, <4>1, LoadBegun DEF Awaits, ShareTypes
        <4>4. LoadsAreFit' /\ (loads \subseteq LoadRecords)'
          <5>1. loads \ {l} \subseteq LoadRecords /\ route' \in SH!Routes
            BY <1>1, <1>2 DEF ShareTypes
          <5>2. \A k \in loads \ {l} : \E m \in loads : Remains(k, m)
            BY SameRemains
          <5>3. \A k \in {SH!Load("inner", route)} : \E of \in {"page", "inner"} : k = SH!Load(of, route')
            BY <1>2
          <5> QED BY <1>2, <4>1, <5>1, <5>2, <5>3, LoadsChange
        <4> QED BY <1>1, <1>2, <1>3, <2>2, <3>2, <3>3, <3>6, <4>2, <4>3, <4>4
            DEF ShareState, ShareTypes, PageWasDue, GateIsShown, PageIsAwaited, InnerIsAwaited
      <3> QED BY <3>4, <3>5, <3>6
    <2>4. CASE SH!SpotPageLoads(l) \/ SH!ProfileLoads(l)
      <3>1. /\ l.of = "page" /\ route.kind # "collection"
            /\ page' = [loading |-> FALSE, is |-> l.is]
            /\ loads' = loads \ {l} /\ inner' = inner
        BY <2>1, <2>4 DEF SH!SpotPageLoads, SH!ProfileLoads, SH!PageLoads
      <3>2. page' \in PageRecords /\ ~page'.loading /\ page'.is = l.is
        BY <1>1, <3>1 DEF PageRecords, LoadRecords
      <3>3. PageWasDue'
        BY <1>1, <1>2, <1>5, <3>1, <3>2 DEF LoadFits, PageWasDue
      <3>4. LoadsAreFit' /\ (loads \subseteq LoadRecords)'
        BY <1>2, <3>1 DEF ShareState, ShareTypes, LoadsAreFit, LoadFits
      <3> QED BY <1>1, <1>2, <1>3, <2>2, <3>1, <3>2, <3>3, <3>4
          DEF ShareState, ShareTypes, GateIsShown, PageIsAwaited, InnerIsAwaited
    <2>5. CASE SH!InnerLoads(l)
      <3>1. /\ l.of = "inner" /\ page' = page /\ loads' = loads \ {l}
            /\ inner' = [loading |-> FALSE, is |-> l.is]
        BY <2>5 DEF SH!InnerLoads
      <3>2. inner' \in InnerRecords /\ ~inner'.loading
        BY <1>1, <3>1 DEF InnerRecords, LoadFits
      <3>3. Awaits("page") => Awaits("page")'
        BY <3>1 DEF Awaits
      <3>4. LoadsAreFit' /\ (loads \subseteq LoadRecords)'
        BY <1>2, <3>1 DEF ShareState, ShareTypes, LoadsAreFit, LoadFits
      <3> QED BY <1>1, <1>2, <1>3, <2>2, <3>1, <3>2, <3>3, <3>4
          DEF ShareState, ShareTypes, PageWasDue, GateIsShown, PageIsAwaited, InnerIsAwaited, SH!WaitsForMe
    <2> QED BY <1>5, <2>3, <2>4, <2>5 DEF SH!Arrives, SH!Heard
  <1> QED BY <1>1, <1>4, <1>5 DEF LoadRecords

LEMMA LoadFailureKeeps ==
    ASSUME ShareState, NEW l \in loads, SH!LoadFails(l)
    PROVE  ShareState'
  <1>1. l \in LoadRecords /\ LoadFits(l) /\ ShareTypes
    BY DEF ShareState, ShareTypes, LoadsAreFit
  <1>2. /\ UNCHANGED <<SH!libraryVars, route, me, gate, seen>>
        /\ loads' = loads \ {l}
    BY DEF SH!LoadFails
  <1>3. SH!Truth(route)' \in seen'
    BY <1>2, TruthLasts DEF ShareState
  <1>4. LoadsAreFit' /\ (loads \subseteq LoadRecords)'
    BY <1>2 DEF ShareState, ShareTypes, LoadsAreFit, LoadFits
  <1>5. ASSUME NEW of, Awaits(of), ~(l.own /\ l.of = of) PROVE Awaits(of)'
    BY <1>2, <1>5 DEF Awaits
  <1>6. /\ page' \in PageRecords
        /\ page'.is # page.is => page'.is \notin Due /\ page.is \notin Due
        /\ l.own /\ l.of = "page" => ~page'.loading
        /\ ~(l.own /\ l.of = "page") => page' = page
    BY <1>1 DEF SH!LoadFails, SH!Heard, SH!Failed, ShareTypes, PageRecords, Due
  <1>7. /\ inner' \in InnerRecords
        /\ l.own /\ l.of = "inner" => ~inner'.loading
        /\ ~(l.own /\ l.of = "inner") => inner' = inner
    BY <1>1 DEF SH!LoadFails, SH!Heard, SH!Failed, ShareTypes, InnerRecords
  <1>8. ShareTypes' /\ PageWasDue' /\ GateIsShown'
    BY <1>1, <1>2, <1>4, <1>6, <1>7 DEF ShareState, ShareTypes, PageWasDue, GateIsShown, Due
  <1>9. PageIsAwaited'
    BY <1>2, <1>5, <1>6 DEF ShareState, PageIsAwaited, SH!WaitsForMe
  <1>10. InnerIsAwaited'
    BY <1>2, <1>5, <1>6, <1>7 DEF ShareState, InnerIsAwaited, Due
  <1> QED BY <1>3, <1>4, <1>8, <1>9, <1>10 DEF ShareState
LEMMA NavigateKeeps ==
    ASSUME ShareState, NEW r \in SH!Routes, SH!Navigate(r)
    PROVE  ShareState'
  <1> DEFINE begun == IF SH!WaitsForMe(r) /\ me = "pending" THEN {} ELSE {SH!Load("page", r)}
             rest == SH!Cancel({"page", "inner"})
  <1>1. /\ route' = r /\ gate' = "offered" /\ page' = SH!Blank /\ inner' = SH!Absent
        /\ seen' = {SH!Truth(r)} /\ UNCHANGED <<SH!libraryVars, me>>
        /\ loads' = rest \cup begun
    BY DEF SH!Navigate, SH!Entered
  <1>2. loads \subseteq LoadRecords
    BY DEF ShareState, ShareTypes
  <1>3. SH!Truth(route)' \in seen'
    BY <1>1
    DEF SH!libraryVars, SH!Truth, SH!Access, SH!SpotDetail, SH!SpotGate, SH!Profile,
        SH!UserGate, SH!CollectionVisible, SH!CollectionGate, SH!SpotVisible, SH!Gated,
        SH!IsCollection, SH!IsSpot, SH!AreFriends, SH!Collections, SH!Spots
  <1>4. /\ page' \in PageRecords /\ page'.is = "none"
        /\ inner' \in InnerRecords /\ ~inner'.loading
    BY <1>1 DEF SH!Blank, SH!Absent, PageRecords, InnerRecords
  <1>5. rest \subseteq LoadRecords /\ (\A k \in rest : \E l \in loads : Remains(k, l))
        /\ \A k \in rest : ~k.own
    BY <1>2, StillRemains DEF LoadRecords, Remains
  <1>6. \A k \in begun : \E of \in {"page", "inner"} : k = SH!Load(of, route')
    BY <1>1
  <1>7. (~SH!WaitsForMe(r) \/ me # "pending") => Awaits("page")'
    BY <1>1, LoadBegun DEF Awaits
  <1> HIDE DEF begun, rest
  <1>8. LoadsAreFit' /\ (loads \subseteq LoadRecords)'
    <2>1. route' \in SH!Routes /\ \A k \in rest : k.own => UNCHANGED <<route, seen>>
      BY <1>1, <1>5
    <2> QED BY <1>1, <1>5, <1>6, <2>1, LoadsChange
  <1>9. ShareTypes' /\ PageWasDue' /\ GateIsShown'
    BY <1>1, <1>4, <1>8 DEF ShareState, ShareTypes, PageWasDue, GateIsShown, Due
  <1>10. PageIsAwaited' /\ InnerIsAwaited'
    BY <1>1, <1>4, <1>7 DEF PageIsAwaited, InnerIsAwaited
  <1> QED BY <1>3, <1>8, <1>9, <1>10 DEF ShareState

\* A load of the page or of the view inside it is begun, in place of the one before or
\* beside it.
LEMMA LoadsAgain ==
    ASSUME ShareState, NEW of \in {"page", "inner"}, NEW rest \in {loads, SH!Cancel({of})},
           loads' = rest \cup {SH!Load(of, route)},
           UNCHANGED <<SH!libraryVars, route, seen>>
    PROVE  /\ LoadsAreFit' /\ (loads \subseteq LoadRecords)'
           /\ SH!Truth(route)' \in seen'
           /\ Awaits(of)'
           /\ \A o \in {"page", "inner"} : Awaits(o) => Awaits(o)'
  <1>1. loads \subseteq LoadRecords /\ route \in SH!Routes
    BY DEF ShareState, ShareTypes
  <1>2. rest \subseteq LoadRecords /\ \A k \in rest : \E l \in loads : Remains(k, l)
    BY <1>1, StillRemains, SameRemains
  <1>3. LoadsAreFit' /\ (loads \subseteq LoadRecords)'
    <2>1. \A k \in {SH!Load(of, route)} : \E o \in {"page", "inner"} : k = SH!Load(o, route')
      OBVIOUS
    <2> QED BY <1>1, <1>2, <2>1, LoadsChange
  <1>4. Awaits(of)'
    BY <1>1, LoadBegun DEF Awaits
  <1>5. ASSUME NEW o \in {"page", "inner"}, Awaits(o) PROVE Awaits(o)'
    <2>1. CASE o = of
      BY <1>4, <2>1
    <2>2. CASE o # of
      <3>1. PICK l \in loads : l.own /\ l.of = o
        BY <1>5 DEF Awaits
      <3>2. \E k \in rest : k.own /\ k.of = o
        BY <1>1, <2>2, <3>1, NotCancelled
      <3> QED BY <3>2 DEF Awaits
    <2> QED BY <2>1, <2>2
  <1> QED BY <1>3, <1>4, <1>5, TruthLasts DEF ShareState

LEMMA RetriesKeep ==
    ASSUME ShareState,
           SH!RetryCollection \/ SH!RetrySpot \/ SH!RetryProfile \/ SH!RetryInner
    PROVE  ShareState'
  <1>1. ShareTypes
    BY DEF ShareState
  <1>2. CASE SH!RetryCollection \/ SH!RetrySpot \/ SH!RetryProfile
    <2>1. /\ page' = [page EXCEPT !.loading = TRUE] /\ inner' = inner
          /\ loads' = SH!Cancel({"page"}) \cup {SH!Load("page", route)}
          /\ UNCHANGED <<SH!libraryVars, route, me, gate, seen>>
      BY <1>2 DEF SH!RetryCollection, SH!RetrySpot, SH!RetryProfile, SH!PageAgain, SH!Again
    <2>2. /\ LoadsAreFit' /\ (loads \subseteq LoadRecords)' /\ SH!Truth(route)' \in seen'
          /\ Awaits("page")' /\ (Awaits("inner") => Awaits("inner")')
      BY <2>1, LoadsAgain
    <2>3. page' \in PageRecords /\ page'.is = page.is
      BY <1>1, <2>1 DEF ShareTypes, PageRecords
    <2> QED BY <1>1, <2>1, <2>2, <2>3
        DEF ShareState, ShareTypes, PageWasDue, GateIsShown, PageIsAwaited, InnerIsAwaited
  <1>3. CASE SH!RetryInner
    <2>1. /\ inner' = [inner EXCEPT !.loading = TRUE] /\ page' = page
          /\ loads' = SH!Cancel({"inner"}) \cup {SH!Load("inner", route)}
          /\ UNCHANGED <<SH!libraryVars, route, me, gate, seen>>
      BY <1>3 DEF SH!RetryInner, SH!Again
    <2>2. /\ LoadsAreFit' /\ (loads \subseteq LoadRecords)' /\ SH!Truth(route)' \in seen'
          /\ Awaits("inner")' /\ (Awaits("page") => Awaits("page")')
      BY <2>1, LoadsAgain
    <2>3. inner' \in InnerRecords
      BY <1>1, <2>1 DEF ShareTypes, InnerRecords
    <2> QED BY <1>1, <2>1, <2>2, <2>3
        DEF ShareState, ShareTypes, PageWasDue, GateIsShown, PageIsAwaited, InnerIsAwaited, SH!WaitsForMe
  <1> QED BY <1>2, <1>3

\* The profile arrives, or is refreshed.
LEMMA ProfileKeeps ==
    ASSUME ShareState, SH!RefreshMe \/ \E ok \in BOOLEAN : SH!MeArrives(ok)
    PROVE  ShareState'
  <1>1. /\ UNCHANGED <<SH!libraryVars, route, page, inner, gate, seen>>
        /\ me' \in {"ok", "failed"}
    BY DEF SH!RefreshMe, SH!MeArrives
  <1>2. CASE loads' = loads /\ (me # "pending" \/ ~SH!WaitsForMe(route))
    BY <1>1, <1>2, TruthLasts
    DEF ShareState, ShareTypes, LoadsAreFit, LoadFits, PageWasDue, GateIsShown, PageIsAwaited, InnerIsAwaited, Awaits,
        SH!WaitsForMe
  <1>3. ASSUME NEW rest \in {loads, SH!Cancel({"page"})},
               loads' = rest \cup {SH!Load("page", route)}
        PROVE  ShareState'
    <2>1. /\ LoadsAreFit' /\ (loads \subseteq LoadRecords)' /\ SH!Truth(route)' \in seen'
          /\ Awaits("page")' /\ (Awaits("inner") => Awaits("inner")')
      BY <1>1, <1>3, LoadsAgain
    <2> QED BY <1>1, <2>1
        DEF ShareState, ShareTypes, PageWasDue, GateIsShown, PageIsAwaited, InnerIsAwaited
  <1>4. CASE SH!RefreshMe
    <2>1. CASE route.kind = "collection"
      BY <1>3, <1>4, <2>1 DEF SH!RefreshMe
    <2>2. CASE route.kind # "collection"
      BY <1>2, <1>4, <2>2 DEF SH!RefreshMe
    <2> QED BY <2>1, <2>2
  <1>5. CASE \E ok \in BOOLEAN : SH!MeArrives(ok)
    <2>1. CASE SH!WaitsForMe(route)
      BY <1>3, <1>5, <2>1 DEF SH!MeArrives
    <2>2. CASE ~SH!WaitsForMe(route)
      BY <1>2, <1>5, <2>2 DEF SH!MeArrives
    <2> QED BY <2>1, <2>2
  <1> QED BY <1>4, <1>5

\* The button of the gate.
LEMMA GateKeeps ==
    ASSUME ShareState, SH!HandleRequest \/ \E ok \in BOOLEAN : SH!RequestEnds(ok)
    PROVE  ShareState'
  <1>1. /\ UNCHANGED <<SH!libraryVars, route, me, page, inner, loads, seen>>
        /\ gate' \in {"offered", "sending", "sent"}
    BY DEF SH!HandleRequest, SH!RequestEnds
  <1>2. page.is = "gate"
    <2>1. CASE \E ok \in BOOLEAN : SH!RequestEnds(ok)
      BY <2>1 DEF SH!RequestEnds, ShareState, GateIsShown
    <2>2. CASE SH!HandleRequest
      BY <2>2 DEF SH!HandleRequest, SH!Shown, SH!CollectionShown, SH!SpotShown, SH!ProfileShown, SH!InnerShown, ShareState,
                  ShareTypes, InnerRecords
    <2> QED BY <2>1, <2>2
  <1> QED BY <1>1, <1>2, TruthLasts
      DEF ShareState, ShareTypes, LoadsAreFit, LoadFits, PageWasDue, GateIsShown, PageIsAwaited, InnerIsAwaited, Awaits,
          SH!WaitsForMe

-----------------------------------------------------------------------------
(* With the tables.                                                        *)

LEMMA PagesStart == SH!Init => ShareState
  <1> SUFFICES ASSUME SH!Init PROVE ShareState
    OBVIOUS
  <1>1. route \in SH!Routes /\ route.kind = "user" /\ loads = {SH!Load("page", route)}
    BY DEF SH!Init
  <1>2. LET l == SH!Load("page", route)
        IN  l \in LoadRecords /\ l.of = "page" /\ l.own /\ l.route = route /\ l.is = "none"
    BY <1>1, LoadBegun
  <1> QED BY <1>1, <1>2
      DEF SH!Init, ShareState, ShareTypes, LoadsAreFit, LoadFits, PageWasDue, GateIsShown, PageIsAwaited, InnerIsAwaited,
          Awaits, SH!Blank, SH!Absent, PageRecords, InnerRecords, Due

LEMMA PagesKeep ==
    ASSUME ShareState, SH!SpotsHold, SH!Next
    PROVE  ShareState'
  <1>1. ASSUME NEW l \in loads,
               \/ SH!LoadCollectionPage(l) \/ SH!LoadSpotPage(l) \/ SH!FetchFriendProfile(l)
               \/ SH!ListFriendCollections(l) \/ SH!GetCollectionDetail(l)
               \/ SH!GetCollectionGate(l) \/ SH!GetSpotGate(l) \/ SH!GetUserGate(l)
               \/ SH!Arrives(l) \/ SH!LoadFails(l)
        PROVE  ShareState'
    BY <1>1, AnswersKeep, ArrivesKeeps, LoadFailureKeeps
  <1> QED BY <1>1, ChangesKeep, NavigateKeeps, RetriesKeep, ProfileKeeps, GateKeeps DEF SH!Next

\* What is on the screen.
LEMMA PagesHold == ShareState => SH!ShownWasDue
  <1> SUFFICES ASSUME ShareState PROVE SH!ShownWasDue
    OBVIOUS
  <1>1. /\ SH!Shown \in Due => SH!Shown \in seen
        /\ SH!Shown = "skeleton" /\ me # "pending" => Awaits("page") \/ Awaits("inner")
    BY RouteKinds
    DEF ShareState, ShareTypes, PageWasDue, PageIsAwaited, InnerIsAwaited, SH!Shown, SH!CollectionShown, SH!SpotShown,
        SH!ProfileShown, SH!InnerShown, PageRecords, InnerRecords, Due
  <1> QED BY <1>1 DEF ShareState, GateIsShown, SH!ShownWasDue, Awaits, Due
-----------------------------------------------------------------------------
(* The tables below the pages are those of the module Library.             *)

LEMMA SameTables ==
    /\ SH!LibraryConstants <=> LB!LibraryConstants
    /\ SH!LibraryInit <=> LB!LibraryInit
    /\ SH!LibraryNext <=> LB!LibraryNext
    /\ SH!libraryVars = LB!libraryVars
    /\ SH!LibraryTypeOK <=> LB!LibraryTypeOK
    /\ SH!SpotsHold <=> LB!SpotsHold
  <1> USE DEF SH!Collections, LB!Collections, SH!Spots, LB!Spots, SH!TxIds, LB!TxIds, SH!tables, LB!tables,
          SH!libraryVars, LB!libraryVars, SH!Unused, LB!Unused, SH!Deleted, LB!Deleted,
          SH!CollectionRecords, LB!CollectionRecords, SH!NoSpot, LB!NoSpot, SH!GoneSpot,
          LB!GoneSpot, SH!SpotRecords, LB!SpotRecords, SH!NoTx, LB!NoTx, SH!Over, LB!Over,
          SH!LibraryInit, LB!LibraryInit, SH!AreFriends, LB!AreFriends, SH!IsCollection,
          LB!IsCollection, SH!IsSpot, LB!IsSpot, SH!CollectionVisible, LB!CollectionVisible,
          SH!SpotVisible, LB!SpotVisible, SH!OwnedBy, LB!OwnedBy, SH!SpotsIn, LB!SpotsIn,
          SH!CopiesOf, LB!CopiesOf, SH!SavedByMe, LB!SavedByMe, SH!FreeTx, LB!FreeTx, SH!NextTx,
          LB!NextTx, SH!Begins, LB!Begins, SH!At, LB!At, SH!Answers, LB!Answers, SH!GoesOn,
          LB!GoesOn, SH!Refuses, LB!Refuses, SH!Reads, LB!Reads, SH!SpotVerdict, LB!SpotVerdict,
          SH!CollectionVerdict, LB!CollectionVerdict, SH!UnusedSpots, LB!UnusedSpots,
          SH!UnusedCollections, LB!UnusedCollections, SH!Insertable, LB!Insertable, SH!Removed,
          LB!Removed, SH!SpotsDeleted, LB!SpotsDeleted, SH!CreateSpot, LB!CreateSpot,
          SH!UpdateSpot, LB!UpdateSpot, SH!DeleteSpot, LB!DeleteSpot, SH!FlagOf, LB!FlagOf,
          SH!CopyOf, LB!CopyOf, SH!RecollectSpot, LB!RecollectSpot, SH!UnrecollectSpot,
          LB!UnrecollectSpot, SH!LikeSpot, LB!LikeSpot, SH!UnlikeSpot, LB!UnlikeSpot, SH!Inserted,
          LB!Inserted, SH!CreateCollection, LB!CreateCollection, SH!EnsureDefaultCollection,
          LB!EnsureDefaultCollection, SH!UpdateCollection, LB!UpdateCollection,
          SH!ReorderCollections, LB!ReorderCollections, SH!DeleteCollection, LB!DeleteCollection,
          SH!PostSpot, LB!PostSpot, SH!PatchSpot, LB!PatchSpot, SH!DeleteSpotRoute,
          LB!DeleteSpotRoute, SH!PostRecollect, LB!PostRecollect, SH!DeleteRecollect,
          LB!DeleteRecollect, SH!PostLike, LB!PostLike, SH!DeleteLike, LB!DeleteLike,
          SH!PostCollection, LB!PostCollection, SH!PatchCollection, LB!PatchCollection,
          SH!PatchReorder, LB!PatchReorder, SH!DeleteCollectionRoute, LB!DeleteCollectionRoute,
          SH!PostOnboarding, LB!PostOnboarding, SH!KnownSpots, LB!KnownSpots, SH!KnownCollections,
          LB!KnownCollections, SH!AnyCall, LB!AnyCall, SH!Statement, LB!Statement,
          SH!CircleChanges, LB!CircleChanges, SH!LibraryNext, LB!LibraryNext, SH!LibraryTypeOK,
          LB!LibraryTypeOK, SH!RowsFit, LB!RowsFit, SH!LibraryConstants, LB!LibraryConstants,
          SH!SpotsHold, LB!SpotsHold, SH!Cardinality, LB!Cardinality, SH!IsFiniteSet,
          LB!IsFiniteSet, SH!SetToSeqs, LB!SetToSeqs, SH!Min, LB!Min, SH!Max, LB!Max, SH!ToSet,
          LB!ToSet, SH!IsInjective, LB!IsInjective, SH!Range, LB!Range, SH!Injection,
          LB!Injection, SH!Bijection, LB!Bijection
  <1>1. SH!LibraryConstants <=> LB!LibraryConstants
    OBVIOUS
  <1>2. SH!LibraryInit <=> LB!LibraryInit
    OBVIOUS
  <1>3. SH!LibraryNext <=> LB!LibraryNext
    OBVIOUS
  <1>4. SH!libraryVars = LB!libraryVars
    OBVIOUS
  <1>5. SH!LibraryTypeOK <=> LB!LibraryTypeOK
    OBVIOUS
  <1>6. SH!SpotsHold <=> LB!SpotsHold
    OBVIOUS
  <1> QED BY ONLY <1>1, <1>2, <1>3, <1>4, <1>5, <1>6

ShareInvariant == LB!LibraryInvariant /\ ShareState

LEMMA ShareStarts == SH!LibraryConstants /\ SH!Init => ShareInvariant
  <1> SUFFICES ASSUME SH!LibraryConstants, SH!Init PROVE ShareInvariant
    OBVIOUS
  <1>1. LB!LibraryInvariant
    BY SameTables, LB!LibraryStarts DEF SH!Init
  <1> QED BY <1>1, PagesStart DEF ShareInvariant

LEMMA TablesStep ==
    ASSUME SH!Next
    PROVE  [LB!LibraryNext]_LB!libraryVars
  <1>1. CASE SH!Changes
    BY <1>1, SameTables DEF SH!Changes
  <1>2. CASE ~SH!Changes
    <2>1. UNCHANGED SH!libraryVars
      BY <1>2
      DEF SH!Next, SH!RefreshMe, SH!HandleRequest, SH!RetryCollection, SH!RetrySpot, SH!RetryProfile, SH!PageAgain,
          SH!RetryInner, SH!Again, SH!MeArrives, SH!RequestEnds, SH!Navigate, SH!LoadCollectionPage,
          SH!LoadSpotPage, SH!FetchFriendProfile, SH!ListFriendCollections, SH!GetCollectionDetail,
          SH!GetCollectionGate, SH!GetSpotGate, SH!GetUserGate, SH!Gate, SH!OrGate, SH!Goes, SH!Arrives, SH!LoadFails
    <2> QED BY <2>1, SameTables DEF LB!libraryVars, SH!libraryVars
  <1> QED BY <1>1, <1>2

LEMMA ShareKeeps ==
    ASSUME SH!LibraryConstants, ShareInvariant, [SH!Next]_SH!vars
    PROVE  ShareInvariant'
  <1>1. CASE SH!Next
    <2>1. SH!SpotsHold
      BY SameTables DEF ShareInvariant, LB!LibraryInvariant, LB!TablesFit, LB!LibraryHolds
    <2>2. LB!LibraryInvariant'
      BY <1>1, SameTables, TablesStep, LB!LibraryKeeps DEF ShareInvariant
    <2> QED BY <1>1, <2>1, <2>2, PagesKeep DEF ShareInvariant
  <1>2. CASE UNCHANGED SH!vars
    <2>1. UNCHANGED <<SH!libraryVars, route, me, page, inner, loads, gate, seen>>
      BY <1>2 DEF SH!vars, SH!shareVars
    <2>2. LB!LibraryInvariant'
      <3>1. UNCHANGED LB!libraryVars
        BY <2>1 DEF SH!libraryVars, LB!libraryVars
      <3> QED BY <3>1, SameTables, LB!LibraryKeeps DEF ShareInvariant
    <2> QED BY <2>1, <2>2, TruthLasts
        DEF ShareInvariant, ShareState, ShareTypes, LoadsAreFit, LoadFits, PageWasDue, GateIsShown, PageIsAwaited, InnerIsAwaited,
            Awaits, SH!WaitsForMe
  <1> QED BY <1>1, <1>2

LEMMA ShareHolds == ShareInvariant => SH!TypeOK /\ SH!ShownWasDue
  <1> SUFFICES ASSUME ShareInvariant PROVE SH!TypeOK
    BY PagesHold DEF ShareInvariant
  <1>1. SH!LibraryTypeOK
    BY SameTables
    DEF ShareInvariant, LB!LibraryInvariant, LB!TablesFit, LB!Shaped, LB!Under, LB!IsTx, LB!LibraryTypeOK
  <1> QED BY <1>1 DEF ShareInvariant, ShareState, ShareTypes, PageRecords, InnerRecords, Due, SH!TypeOK

\* A page behind a shared link shows content, the owner's screen or a gate only if that was
\* due since the page was entered, though each load asks several endpoints while friendships,
\* visibility and rows change; a gate's button speaks of the gate on the screen; and no
\* page waits for an answer that nobody awaits.  For any accounts, tables and transactions.
THEOREM SharedPagesShowWhatWasDue ==
    SH!LibraryConstants => (SH!Spec => [](SH!TypeOK /\ SH!ShownWasDue))
  <1> SUFFICES ASSUME SH!LibraryConstants PROVE SH!Spec => [](SH!TypeOK /\ SH!ShownWasDue)
    OBVIOUS
  <1>1. SH!Init => ShareInvariant
    BY ShareStarts
  <1>2. ShareInvariant /\ [SH!Next]_SH!vars => ShareInvariant'
    BY ShareKeeps
  <1>3. ShareInvariant => SH!TypeOK /\ SH!ShownWasDue
    BY ShareHolds
  <1> QED BY <1>1, <1>2, <1>3, PTL DEF SH!Spec

-----------------------------------------------------------------------------
(* The budget notifier.                                                    *)

\* What the object records of a period was posted.
Told(p, marks) == BN!ActualPosted(p, marks.actual) /\ BN!ForecastPosted(p, marks.forecast)
Recorded == \A p \in Periods : Told(p, object[p])

\* What a request will record was posted before, or it posts it now.
Recordable(i) ==
    LET c == BN!MessageOf(i)
        state == request[i].state
    IN  /\ BN!At(i) = "evaluating" => ~c.test
        /\ BN!At(i) = "posting" /\ ~c.test =>
              /\ state.actual = c.actual \/ BN!ActualPosted(c.period, state.actual)
              /\ state.forecast = c.forecast \/ BN!ForecastPosted(c.period, state.forecast)
        /\ BN!At(i) = "committing" =>
              /\ \E k \in DOMAIN posts : posts[k] = request[i].message
              /\ ~c.test => Told(c.period, state)

\* No post of period p has a threshold above marks.
Tops(p, marks) ==
    \A k \in BN!Posted(p) :
        /\ Said[posts[k]].actual <= marks.actual
        /\ Said[posts[k]].forecast <= marks.forecast

\* A period whose requests do not overlap has one at a time, which evaluated the object
\* that is still there; the object, or what is to be written to it, tops all posts.
OneAtATime(p) ==
    /\ \A i \in Instances : \A j \in Instances : BN!Works(i, p) /\ BN!Works(j, p) => i = j
    /\ \A i \in Instances :
          BN!Works(i, p) =>
              /\ BN!At(i) = "posting" =>
                    /\ request[i].state = BN!Raised(object[p], BN!MessageOf(i))
                    /\ request[i].state # object[p]
              /\ BN!At(i) = "committing" => Tops(p, request[i].state)
    /\ (\A i \in Instances : BN!Works(i, p) => BN!At(i) # "committing") => Tops(p, object[p])

BudgetInvariant ==
    /\ BN!TypeOK
    /\ Recorded
    /\ \A i \in Instances : BN!At(i) # "idle" => Recordable(i)
    /\ \A p \in Periods \ irregular : OneAtATime(p)
    /\ BN!BudgetIsTold

LEMMA LevelsCount == BN!BudgetConstants => BN!Levels \subseteq Nat
  BY DEF BN!BudgetConstants, BN!Levels, BN!Null

\* What a message says.
LEMMA ContentFits ==
    ASSUME BN!BudgetConstants, NEW m \in Messages
    PROVE  /\ Said[m].period \in Periods /\ Said[m].test \in BOOLEAN
           /\ Said[m].actual \in Nat /\ Said[m].forecast \in Nat
           /\ Said[m].actual \in BN!Levels /\ Said[m].forecast \in BN!Levels
  <1>1. Said[m] \in BN!Contents
    BY DEF BN!BudgetConstants
  <1>2. Said[m].actual \in BN!Levels /\ Said[m].forecast \in BN!Levels
    BY <1>1 DEF BN!Contents
  <1> QED BY <1>1, <1>2, LevelsCount DEF BN!Contents

LEMMA MarksFit ==
    ASSUME BN!BudgetConstants, NEW marks \in BN!Marks
    PROVE  /\ marks.actual \in Nat /\ marks.forecast \in Nat
           /\ marks = [actual |-> marks.actual, forecast |-> marks.forecast]
  BY LevelsCount DEF BN!Marks

\* A request is of a message, and has a state.
LEMMA RequestFits ==
    ASSUME BN!BudgetConstants, BN!TypeOK, NEW i \in Instances, BN!At(i) # "idle"
    PROVE  /\ request[i].message \in Messages /\ request[i].state \in BN!Marks
           /\ BN!At(i) \in {"evaluating", "posting", "committing"}
           /\ request[i] = [at |-> BN!At(i), message |-> request[i].message,
                            state |-> request[i].state]
           /\ BN!MessageOf(i) = Said[request[i].message]
  BY DEF BN!TypeOK, BN!At, BN!Idle, BN!MessageOf

\* Raised tops both.
LEMMA RaisedTops ==
    ASSUME BN!BudgetConstants, NEW m \in Messages, NEW marks \in BN!Marks
    PROVE  LET c == Said[m]
               state == BN!Raised(marks, c)
           IN  /\ state \in BN!Marks
               /\ c.actual <= state.actual /\ marks.actual <= state.actual
               /\ c.forecast <= state.forecast /\ marks.forecast <= state.forecast
               /\ state.actual \in {c.actual, marks.actual}
               /\ state.forecast \in {c.forecast, marks.forecast}
               /\ state = marks => c.actual <= marks.actual /\ c.forecast <= marks.forecast
               /\ state # marks => c.actual > marks.actual \/ c.forecast > marks.forecast
  BY ContentFits, MarksFit DEF BN!Raised, BN!Marks

\* Whatever is posted, what was told stays told.
LEMMA StaysTold ==
    ASSUME BN!TypeOK, posts' = posts \/ \E m \in Messages : posts' = Append(posts, m)
    PROVE  /\ posts' \in Seq(Messages)
           /\ \A k \in DOMAIN posts : k \in DOMAIN posts' /\ posts'[k] = posts[k]
           /\ \A p, level : BN!ActualPosted(p, level) => BN!ActualPosted(p, level)'
           /\ \A p, level : BN!ForecastPosted(p, level) => BN!ForecastPosted(p, level)'
           /\ \A p, marks : Told(p, marks) => Told(p, marks)'
  <1>1. posts' \in Seq(Messages) /\ \A k \in DOMAIN posts : k \in DOMAIN posts' /\ posts'[k] = posts[k]
    BY DEF BN!TypeOK
  <1>2. \A p, k : k \in BN!Posted(p) => k \in BN!Posted(p)' /\ posts'[k] = posts[k]
    BY <1>1 DEF BN!Posted
  <1>3. \A p, level : BN!ActualPosted(p, level) => BN!ActualPosted(p, level)'
    BY <1>2 DEF BN!ActualPosted
  <1>4. \A p, level : BN!ForecastPosted(p, level) => BN!ForecastPosted(p, level)'
    BY <1>2 DEF BN!ForecastPosted
  <1> QED BY <1>1, <1>3, <1>4 DEF Told

\* A message whose thresholds were posted.
IsTold(m) ==
    IF Said[m].test THEN \E k \in DOMAIN posts : posts[k] = m
    ELSE /\ BN!ActualPosted(Said[m].period, Said[m].actual)
         /\ BN!ForecastPosted(Said[m].period, Said[m].forecast)

LEMMA AnsweredKeeps ==
    ASSUME BN!TypeOK, BN!AnsweredIsPosted,
           posts' = posts \/ \E m \in Messages : posts' = Append(posts, m),
           acked' = acked \/ \E m \in Messages : acked' = acked \cup {m} /\ IsTold(m)
    PROVE  BN!AnsweredIsPosted'
  <1>1. \A m : IsTold(m) => IsTold(m)'
    BY StaysTold DEF IsTold
  <1>2. BN!AnsweredIsPosted <=> \A m \in acked : IsTold(m)
    BY DEF BN!AnsweredIsPosted, IsTold
  <1>3. BN!AnsweredIsPosted' <=> \A m \in acked' : IsTold(m)'
    BY DEF BN!AnsweredIsPosted, IsTold
  <1> QED BY <1>1, <1>2, <1>3

\* Marks below told ones are told.
LEMMA LowerIsTold ==
    ASSUME BN!BudgetConstants, NEW p, NEW marks \in BN!Marks, Told(p, marks), BN!TypeOK,
           NEW lower \in BN!Marks, lower.actual <= marks.actual, lower.forecast <= marks.forecast
    PROVE  Told(p, lower)
  <1>1. \A k \in BN!Posted(p) : Said[posts[k]].actual \in Nat /\ Said[posts[k]].forecast \in Nat
    BY ContentFits DEF BN!Posted, BN!TypeOK
  <1> QED BY <1>1, MarksFit DEF Told, BN!ActualPosted, BN!ForecastPosted, BN!Null

\* What a message says is told once it is posted.
LEMMA PostedIsTold ==
    ASSUME BN!BudgetConstants, BN!TypeOK, NEW m \in Messages,
           \E k \in DOMAIN posts : posts[k] = m
    PROVE  IsTold(m)
  BY ContentFits DEF IsTold, BN!ActualPosted, BN!ForecastPosted, BN!Posted

LEMMA OthersStay ==
    ASSUME BN!TypeOK, NEW i \in Instances, NEW r, request' = [request EXCEPT ![i] = r]
    PROVE  /\ request'[i] = r /\ BN!At(i)' = r.at /\ BN!MessageOf(i)' = Said[r.message]
           /\ \A p : BN!Works(i, p)' <=> /\ r.at # "idle" /\ ~Said[r.message].test
                                         /\ Said[r.message].period = p
           /\ \A j \in Instances \ {i} :
                 /\ request'[j] = request[j] /\ BN!At(j)' = BN!At(j)
                 /\ BN!MessageOf(j)' = BN!MessageOf(j)
                 /\ \A p : BN!Works(j, p)' <=> BN!Works(j, p)
  <1>1. request'[i] = r /\ \A j \in Instances \ {i} : request'[j] = request[j]
    BY DEF BN!TypeOK
  <1>2. BN!At(i)' = r.at /\ BN!MessageOf(i)' = Said[r.message]
    BY <1>1 DEF BN!At, BN!MessageOf
  <1>3. \A p : BN!Works(i, p)' <=> /\ r.at # "idle" /\ ~Said[r.message].test
                                   /\ Said[r.message].period = p
    BY <1>2 DEF BN!Works, BN!PeriodOf
  <1>4. \A j \in Instances \ {i} :
           /\ BN!At(j)' = BN!At(j) /\ BN!MessageOf(j)' = BN!MessageOf(j)
           /\ \A p : BN!Works(j, p)' <=> BN!Works(j, p)
    BY <1>1 DEF BN!At, BN!MessageOf, BN!Works, BN!PeriodOf
  <1> QED BY <1>1, <1>2, <1>3, <1>4

LEMMA OthersRecord ==
    ASSUME BN!TypeOK, NEW j \in Instances, request'[j] = request[j], Recordable(j),
           posts' = posts \/ \E m \in Messages : posts' = Append(posts, m)
    PROVE  Recordable(j)'
  <1>1. /\ BN!At(j)' = BN!At(j) /\ BN!MessageOf(j)' = BN!MessageOf(j)
    BY DEF BN!At, BN!MessageOf
  <1> QED BY <1>1, StaysTold DEF Recordable

LEMMA IdleIsIdle == BN!Idle.at = "idle"
  BY DEF BN!Idle

\* The posts of the period and what the object holds of it are as before.
SamePeriod(p) ==
    /\ object'[p] = object[p]
    /\ BN!Posted(p)' = BN!Posted(p) /\ \A k \in BN!Posted(p) : posts'[k] = posts[k]

\* The step of a request of another period, or of a test, changes nothing for p.
LEMMA OthersAlone ==
    ASSUME BN!TypeOK, NEW i \in Instances, NEW r, request' = [request EXCEPT ![i] = r],
           NEW p \in Periods, SamePeriod(p), OneAtATime(p), ~BN!Works(i, p), ~BN!Works(i, p)'
    PROVE  OneAtATime(p)'
  <1>1. \A j \in Instances : BN!Works(j, p)' <=> BN!Works(j, p)
    BY OthersStay
  <1>2. \A j \in Instances :
            BN!Works(j, p) => /\ request'[j] = request[j] /\ BN!At(j)' = BN!At(j)
                              /\ BN!MessageOf(j)' = BN!MessageOf(j)
    BY OthersStay
  <1>3. ASSUME NEW j \in Instances, BN!Works(j, p), BN!At(j) = "posting"
        PROVE  /\ request'[j].state = BN!Raised(object[p], BN!MessageOf(j))'
               /\ request'[j].state # object'[p]
    BY <1>2, <1>3 DEF OneAtATime, SamePeriod, BN!Raised
  <1>4. ASSUME NEW j \in Instances, BN!Works(j, p), BN!At(j) = "committing"
        PROVE  Tops(p, request[j].state)'
    BY <1>2, <1>4 DEF OneAtATime, SamePeriod, Tops
  <1>5. (\A j \in Instances : BN!Works(j, p) => BN!At(j) # "committing") => Tops(p, object[p])'
    BY DEF OneAtATime, SamePeriod, Tops
  <1>6. \A j \in Instances : \A l \in Instances : BN!Works(j, p)' /\ BN!Works(l, p)' => j = l
    BY <1>1 DEF OneAtATime
  <1> QED BY <1>1, <1>2, <1>3, <1>4, <1>5, <1>6 DEF OneAtATime

\* The only request of p ends, or goes on, before its post.
LEMMA AloneBefore ==
    ASSUME BN!TypeOK, NEW i \in Instances, NEW r, request' = [request EXCEPT ![i] = r],
           NEW p \in Periods, SamePeriod(p), OneAtATime(p), BN!Works(i, p),
           BN!At(i) # "committing", BN!At(i)' # "committing",
           BN!Works(i, p)' /\ BN!At(i)' = "posting" =>
              /\ r.state = BN!Raised(object[p], BN!MessageOf(i)')
              /\ r.state # object[p]
    PROVE  OneAtATime(p)'
  <1>1. \A j \in Instances : BN!Works(j, p)' => j = i
    BY OthersStay DEF OneAtATime
  <1>2. Tops(p, object[p])
    BY DEF OneAtATime
  <1>3. Tops(p, object[p])'
    BY <1>2 DEF SamePeriod, Tops
  <1>4. request'[i] = r
    BY OthersStay
  <1>5. BN!Works(i, p)' /\ BN!At(i)' = "posting" =>
            /\ request'[i].state = BN!Raised(object[p], BN!MessageOf(i))'
            /\ request'[i].state # object'[p]
    BY <1>4 DEF SamePeriod, BN!Raised
  <1> QED BY <1>1, <1>3, <1>5 DEF OneAtATime

LEMMA NothingPosted ==
    ASSUME UNCHANGED posts, BN!NothingTwice, irregular \subseteq irregular'
    PROVE  BN!NothingTwice'
  BY DEF BN!NothingTwice, BN!Posted

LEMMA SameMarks ==
    ASSUME UNCHANGED <<object, posts>>
    PROVE  /\ Recorded => Recorded'
           /\ \A p \in Periods : SamePeriod(p)
  BY DEF Recorded, Told, BN!ActualPosted, BN!ForecastPosted, BN!Posted, SamePeriod

LEMMA DeliverKeeps ==
    ASSUME BN!BudgetConstants, BudgetInvariant, NEW i \in Instances, NEW m \in Messages,
           BN!Deliver(i, m)
    PROVE  BudgetInvariant'
  <1> DEFINE c == Said[m]
  <1>1. /\ BN!At(i) = "idle" /\ UNCHANGED <<object, posts>> /\ irregular \subseteq irregular'
    BY DEF BN!Deliver
  <1>2. BN!TypeOK /\ Recorded' /\ BN!NothingTwice' /\ BN!AnsweredIsPosted
    BY <1>1, NothingPosted, SameMarks DEF BudgetInvariant, BN!BudgetIsTold
  <1>3. CASE BN!Skipped(c)
    <2>1. acked' = acked \cup {m} /\ UNCHANGED <<request, irregular>>
      BY <1>3 DEF BN!Deliver
    <2>2. IsTold(m)
      BY <1>3 DEF BN!Skipped, IsTold, BN!ActualPosted, BN!ForecastPosted
    <2>3. BN!AnsweredIsPosted'
      BY <1>1, <1>2, <2>1, <2>2, AnsweredKeeps
    <2>4. BN!TypeOK'
      BY <1>1, <1>2, <2>1 DEF BN!TypeOK
    <2>5. \A j \in Instances : BN!At(j)' # "idle" => Recordable(j)'
      BY <1>1, <1>2, <2>1, OthersRecord DEF BudgetInvariant, BN!At
    <2>6. \A p \in Periods \ irregular : OneAtATime(p)'
      BY <1>1, <2>1 DEF BudgetInvariant, OneAtATime, Tops, BN!Works, BN!At, BN!MessageOf,
                        BN!PeriodOf, BN!Posted, BN!Raised
    <2> QED BY <1>2, <2>1, <2>3, <2>4, <2>5, <2>6 DEF BudgetInvariant, BN!BudgetIsTold
  <1>4. CASE ~BN!Skipped(c)
    <2> DEFINE r == [at |-> IF c.test THEN "posting" ELSE "evaluating",
                     message |-> m, state |-> BN!NothingSent]
    <2>1. /\ request' = [request EXCEPT ![i] = r] /\ UNCHANGED acked
          /\ irregular' = irregular \cup BN!Overlaps(c)
      BY <1>4 DEF BN!Deliver
    <2>2. /\ request'[i] = r /\ BN!At(i)' = r.at /\ BN!MessageOf(i)' = c
          /\ \A p : BN!Works(i, p)' <=> ~c.test /\ c.period = p
      <3>1. r.at # "idle" /\ r.message = m
        OBVIOUS
      <3>2. /\ request'[i] = r /\ BN!At(i)' = r.at /\ BN!MessageOf(i)' = Said[r.message]
            /\ \A p : BN!Works(i, p)' <=> /\ r.at # "idle" /\ ~Said[r.message].test
                                         /\ Said[r.message].period = p
        <4> HIDE DEF r
        <4> QED BY <1>2, <2>1, OthersStay
      <3> QED BY ONLY <3>1, <3>2
    <2>3. BN!TypeOK'
      <3>1. BN!NothingSent \in BN!Marks
        BY DEF BN!NothingSent, BN!Marks, BN!Levels, BN!Null
      <3>2. r \in [at : {"evaluating", "posting", "committing"}, message : Messages,
                   state : BN!Marks]
        BY <3>1
      <3>3. irregular' \subseteq Periods
        BY <1>2, <2>1, ContentFits DEF BN!Overlaps, BN!TypeOK
      <3> QED BY <1>1, <1>2, <2>1, <3>2, <3>3 DEF BN!TypeOK
    <2>4. BN!AnsweredIsPosted'
      BY <1>1, <1>2, <2>1, AnsweredKeeps
    <2>5. Recordable(i)'
      BY <2>2 DEF Recordable
    <2>6. ASSUME NEW j \in Instances \ {i}, BN!At(j)' # "idle" PROVE Recordable(j)'
      <3>1. request'[j] = request[j] /\ BN!At(j) # "idle"
        BY <1>2, <2>1, <2>6, OthersStay
      <3> QED BY <1>1, <1>2, <3>1, OthersRecord DEF BudgetInvariant
    <2>7. ASSUME NEW p \in Periods \ irregular' PROVE OneAtATime(p)'
      <3>1. OneAtATime(p) /\ SamePeriod(p) /\ ~BN!Works(i, p)
        BY <1>1, SameMarks DEF BudgetInvariant, BN!Works
      <3>2. CASE BN!Works(i, p)'
        <4>1. \A j \in Instances : ~BN!Works(j, p)
          BY <2>1, <2>2, <2>7, <3>2 DEF BN!Overlaps
        <4>2. \A j \in Instances : BN!Works(j, p)' => j = i
          BY <1>2, <2>1, <4>1, OthersStay
        <4>3. Tops(p, object[p])'
          BY <3>1, <4>1 DEF OneAtATime, SamePeriod, Tops
        <4>4. BN!At(i)' = "evaluating"
          BY <2>2, <3>2
        <4> QED BY <1>1, <4>2, <4>3, <4>4 DEF OneAtATime, Tops
      <3>3. CASE ~BN!Works(i, p)'
        BY <1>2, <2>1, <3>1, <3>3, OthersAlone
      <3> QED BY <3>2, <3>3
    <2> QED BY <1>2, <2>3, <2>4, <2>5, <2>6, <2>7 DEF BudgetInvariant, BN!BudgetIsTold
  <1> QED BY <1>3, <1>4

LEMMA EvaluateKeeps ==
    ASSUME BN!BudgetConstants, BudgetInvariant, NEW i \in Instances, BN!EvaluateNotification(i)
    PROVE  BudgetInvariant'
  <1>0. PICK m \in Messages : request[i].message = m
    BY RequestFits DEF BN!EvaluateNotification, BudgetInvariant
  <1> DEFINE p0 == Said[m].period
             state == BN!Raised(object[p0], Said[m])
  <1>1. /\ BN!At(i) = "evaluating" /\ UNCHANGED <<object, posts, irregular>>
        /\ BN!MessageOf(i) = Said[m] /\ BN!PeriodOf(i) = p0 
        /\ BN!TypeOK /\ p0 \in Periods /\ object[p0] \in BN!Marks
    BY <1>0, RequestFits, ContentFits
    DEF BN!EvaluateNotification, BudgetInvariant, BN!PeriodOf, BN!TypeOK
  <1>2. Recorded' /\ BN!NothingTwice' /\ BN!AnsweredIsPosted
    BY <1>1, NothingPosted, SameMarks DEF BudgetInvariant, BN!BudgetIsTold
  <1>3. ~Said[m].test
    BY <1>1 DEF BudgetInvariant, Recordable
  <1>4. \A p : BN!Works(i, p) <=> p = p0
    BY <1>1, <1>3 DEF BN!Works
  <1>5. Told(p0, object[p0])
    BY <1>1 DEF BudgetInvariant, Recorded
  <1>6. CASE state = object[p0]
    <2>1. request' = [request EXCEPT ![i] = BN!Idle] /\ acked' = acked \cup {m}
      BY <1>0, <1>1, <1>6 DEF BN!EvaluateNotification, BN!Ends, BN!Acked
    <2>2. IsTold(m)
      <3>1. [actual |-> Said[m].actual, forecast |-> Said[m].forecast] \in BN!Marks
        BY <1>1, ContentFits DEF BN!Marks
      <3>2. Told(p0, [actual |-> Said[m].actual, forecast |-> Said[m].forecast])
        BY <1>1, <1>5, <1>6, <3>1, RaisedTops, LowerIsTold
      <3> QED BY <1>3, <3>2 DEF IsTold, Told
    <2>3. BN!AnsweredIsPosted'
      BY <1>1, <1>2, <2>1, <2>2, AnsweredKeeps
    <2>4. BN!TypeOK'
      BY <1>1, <2>1 DEF BN!TypeOK
    <2>5. BN!At(i)' = "idle" /\ \A p : ~BN!Works(i, p)'
      BY <1>1, <2>1, OthersStay, IdleIsIdle
    <2>6. ASSUME NEW j \in Instances, BN!At(j)' # "idle" PROVE Recordable(j)'
      <3>1. request'[j] = request[j] /\ BN!At(j) # "idle"
        BY <1>1, <2>1, <2>5, <2>6, OthersStay
      <3> QED BY <1>1, <3>1, OthersRecord DEF BudgetInvariant
    <2>7. ASSUME NEW p \in Periods \ irregular' PROVE OneAtATime(p)'
      <3>1. OneAtATime(p) /\ SamePeriod(p)
        BY <1>1, SameMarks DEF BudgetInvariant
      <3> QED BY <1>1, <1>4, <2>1, <2>5, <3>1, OthersAlone, AloneBefore
    <2> QED BY <1>2, <2>3, <2>4, <2>6, <2>7 DEF BudgetInvariant, BN!BudgetIsTold
  <1>7. CASE state # object[p0]
    <2> DEFINE r == [at |-> "posting", message |-> m, state |-> state]
    <2>1. request' = [request EXCEPT ![i] = r] /\ UNCHANGED acked
      <3>1. request' = [request EXCEPT ![i].at = "posting", ![i].state = state]
            /\ UNCHANGED acked
        BY <1>1, <1>7 DEF BN!EvaluateNotification
      <3> HIDE DEF state
      <3>2. request[i] = [at |-> "evaluating", message |-> m, state |-> request[i].state]
        BY <1>0, <1>1, RequestFits
      <3>3. [request[i] EXCEPT !.at = "posting"] =
                [at |-> "posting", message |-> m, state |-> request[i].state]
        BY <3>2
      <3>4. [[at |-> "posting", message |-> m, state |-> request[i].state]
                EXCEPT !.state = state] = r
        OBVIOUS
      <3>5. [[request[i] EXCEPT !.at = "posting"] EXCEPT !.state = state] = r
        BY <3>3, <3>4
      <3> HIDE DEF r
      <3> QED BY <1>1, <3>1, <3>3, <3>5 DEF BN!TypeOK
    <2>2. /\ request'[i] = r /\ BN!At(i)' = "posting" /\ BN!MessageOf(i)' = Said[m]
          /\ \A p : BN!Works(i, p)' <=> p = p0
      <3>1. r.at = "posting" /\ r.message = m
        OBVIOUS
      <3>2. /\ request'[i] = r /\ BN!At(i)' = r.at /\ BN!MessageOf(i)' = Said[r.message]
            /\ \A p : BN!Works(i, p)' <=> /\ r.at # "idle" /\ ~Said[r.message].test
                                         /\ Said[r.message].period = p
        <4> HIDE DEF r
        <4> QED BY <1>1, <2>1, OthersStay
      <3>3. \A p : BN!Works(i, p)' <=> p = p0
        BY ONLY <1>3, <3>1, <3>2
      <3> QED BY ONLY <3>1, <3>2, <3>3
    <2>3. BN!TypeOK'
      <3>1. state \in BN!Marks
        BY <1>1, RaisedTops
      <3> QED BY <1>1, <2>1, <3>1 DEF BN!TypeOK
    <2>4. BN!AnsweredIsPosted'
      BY <1>1, <1>2, <2>1, AnsweredKeeps
    <2>5. Recordable(i)'
      <3>1. state.actual \in {Said[m].actual, object[p0].actual}
            /\ state.forecast \in {Said[m].forecast, object[p0].forecast}
        BY <1>1, RaisedTops
      <3>2. Told(p0, object[p0])'
        BY <1>1, <1>5, StaysTold
      <3> QED BY <1>1, <2>2, <3>1, <3>2 DEF Recordable, Told
    <2>6. ASSUME NEW j \in Instances \ {i}, BN!At(j)' # "idle" PROVE Recordable(j)'
      <3>1. request'[j] = request[j] /\ BN!At(j) # "idle"
        BY <1>1, <2>1, <2>6, OthersStay
      <3> QED BY <1>1, <3>1, OthersRecord DEF BudgetInvariant
    <2>7. ASSUME NEW p \in Periods \ irregular' PROVE OneAtATime(p)'
      <3>1. OneAtATime(p) /\ SamePeriod(p)
        BY <1>1, SameMarks DEF BudgetInvariant
      <3>2. CASE p = p0
        <4>1. r.state = BN!Raised(object[p], BN!MessageOf(i)') /\ r.state # object[p]
          BY <1>7, <2>2, <3>2
        <4> HIDE DEF r
        <4> QED BY <1>1, <1>4, <2>1, <2>2, <3>1, <3>2, <4>1, AloneBefore
      <3>3. CASE p # p0
        BY <1>1, <1>4, <2>1, <2>2, <3>1, <3>3, OthersAlone
      <3> QED BY <3>2, <3>3
    <2> QED BY <1>2, <2>3, <2>4, <2>5, <2>6, <2>7 DEF BudgetInvariant, BN!BudgetIsTold
  <1> QED BY <1>6, <1>7

\* What a post adds.
LEMMA PostAppends ==
    ASSUME BN!TypeOK, NEW m \in Messages, posts' = Append(posts, m)
    PROVE  /\ Len(posts) \in Nat /\ DOMAIN posts = 1..Len(posts)
           /\ DOMAIN posts' = 1..(Len(posts) + 1) /\ posts'[Len(posts) + 1] = m
           /\ \A k \in DOMAIN posts : posts'[k] = posts[k] /\ k < Len(posts) + 1
           /\ \A p : Said[m].period = p /\ ~Said[m].test =>
                        BN!Posted(p)' = BN!Posted(p) \cup {Len(posts) + 1}
           /\ \A p : Said[m].period # p \/ Said[m].test => BN!Posted(p)' = BN!Posted(p)
  <1>1. /\ Len(posts) \in Nat /\ DOMAIN posts = 1..Len(posts)
        /\ DOMAIN posts' = 1..(Len(posts) + 1) /\ posts'[Len(posts) + 1] = m
        /\ \A k \in DOMAIN posts : posts'[k] = posts[k] /\ k < Len(posts) + 1
    BY DEF BN!TypeOK
  <1>2. DOMAIN posts' = DOMAIN posts \cup {Len(posts) + 1}
    BY <1>1
  <1> QED BY <1>1, <1>2 DEF BN!Posted

\* A post of a period whose requests do not overlap tops those before it.
LEMMA PostTops ==
    ASSUME BN!BudgetConstants, BudgetInvariant, NEW i \in Instances, BN!At(i) = "posting",
           ~BN!MessageOf(i).test, NEW p \in Periods \ irregular, BN!MessageOf(i).period = p
    PROVE  LET c == BN!MessageOf(i)
           IN  /\ Tops(p, object[p]) /\ request[i].state = BN!Raised(object[p], c)
               /\ object[p].actual < c.actual \/ object[p].forecast < c.forecast
  <1>1. BN!Works(i, p) /\ OneAtATime(p) /\ BN!TypeOK /\ object[p] \in BN!Marks
    BY DEF BN!Works, BN!PeriodOf, BudgetInvariant, BN!TypeOK
  <1>2. /\ \A j \in Instances : BN!Works(j, p) => BN!At(j) # "committing"
        /\ request[i].state = BN!Raised(object[p], BN!MessageOf(i))
        /\ request[i].state # object[p]
    BY <1>1 DEF OneAtATime
  <1>3. object[p].actual < BN!MessageOf(i).actual \/ object[p].forecast < BN!MessageOf(i).forecast
    <2>1. PICK m \in Messages : BN!MessageOf(i) = Said[m]
      BY <1>1, RequestFits
    <2>2. Said[m].actual > object[p].actual \/ Said[m].forecast > object[p].forecast
      BY <1>1, <1>2, <2>1, RaisedTops
    <2>3. /\ object[p].actual \in Nat /\ object[p].forecast \in Nat
          /\ Said[m].actual \in Nat /\ Said[m].forecast \in Nat
      BY <1>1, MarksFit, ContentFits
    <2> QED BY <2>1, <2>2, <2>3
  <1> QED BY <1>1, <1>2, <1>3 DEF OneAtATime

LEMMA NothingPostedTwice ==
    ASSUME BN!BudgetConstants, BudgetInvariant, NEW i \in Instances, BN!At(i) = "posting",
           posts' = Append(posts, request[i].message), irregular \subseteq irregular'
    PROVE  BN!NothingTwice'
  <1>0. PICK m \in Messages : request[i].message = m /\ BN!MessageOf(i) = Said[m]
    BY RequestFits DEF BudgetInvariant
  <1> SUFFICES ASSUME NEW p \in Periods \ irregular', NEW k \in BN!Posted(p)'
               PROVE  \/ \A j \in BN!Posted(p)' :
                            j < k => Said[posts'[j]].actual < Said[posts'[k]].actual
                      \/ \A j \in BN!Posted(p)' :
                            j < k => Said[posts'[j]].forecast < Said[posts'[k]].forecast
    BY DEF BN!NothingTwice
  <1> DEFINE new == Len(posts) + 1
  <1>1. /\ new \in Nat /\ DOMAIN posts' = 1..new /\ posts'[new] = m
        /\ \A j \in BN!Posted(p) : posts'[j] = posts[j] /\ j < new /\ j \in Nat
        /\ Said[m].period = p /\ ~Said[m].test => BN!Posted(p)' = BN!Posted(p) \cup {new}
        /\ Said[m].period # p \/ Said[m].test => BN!Posted(p)' = BN!Posted(p)
    BY <1>0, PostAppends DEF BudgetInvariant, BN!Posted
  <1>2. BN!NothingTwice
    BY DEF BudgetInvariant, BN!BudgetIsTold
  <1> HIDE DEF new
  <1>3. CASE k \in BN!Posted(p)
    <2>1. \A j \in BN!Posted(p)' : j < k => j \in BN!Posted(p)
      BY <1>1, <1>3
    <2> QED BY <1>1, <1>2, <1>3, <2>1 DEF BN!NothingTwice
  <1>4. CASE k \notin BN!Posted(p)
    <2>1. /\ k = new /\ Said[m].period = p /\ ~Said[m].test
          /\ \A j \in BN!Posted(p)' : j < k => j \in BN!Posted(p)
      BY <1>1, <1>4
    <2>2. /\ Tops(p, object[p])
          /\ object[p].actual < Said[m].actual \/ object[p].forecast < Said[m].forecast
      BY <1>0, <2>1, PostTops
    <2>3. /\ object[p].actual \in Nat /\ object[p].forecast \in Nat
          /\ Said[m].actual \in Nat /\ Said[m].forecast \in Nat
          /\ \A j \in BN!Posted(p) :
                Said[posts[j]].actual \in Nat /\ Said[posts[j]].forecast \in Nat
      <3>1. object[p] \in BN!Marks /\ \A j \in BN!Posted(p) : posts[j] \in Messages
        BY DEF BudgetInvariant, BN!TypeOK, BN!Posted
      <3> QED BY <3>1, MarksFit, ContentFits
    <2>4. \A j \in BN!Posted(p) :
             /\ posts'[j] = posts[j] /\ Said[posts[j]].actual <= object[p].actual
             /\ Said[posts[j]].forecast <= object[p].forecast
      BY <1>1, <2>2 DEF Tops
    <2>5. CASE object[p].actual < Said[m].actual
      <3>1. ASSUME NEW j \in BN!Posted(p) PROVE Said[posts'[j]].actual < Said[posts'[k]].actual
        <4>1. Said[posts'[j]] = Said[posts[j]] /\ Said[posts'[k]] = Said[m]
          BY <1>1, <2>1
        <4>2. Said[posts[j]].actual < Said[m].actual
          BY <2>3, <2>4, <2>5
        <4> QED BY <4>1, <4>2
      <3> QED BY <2>1, <3>1
    <2>6. CASE object[p].forecast < Said[m].forecast
      <3>1. ASSUME NEW j \in BN!Posted(p) PROVE Said[posts'[j]].forecast < Said[posts'[k]].forecast
        <4>1. Said[posts'[j]] = Said[posts[j]] /\ Said[posts'[k]] = Said[m]
          BY <1>1, <2>1
        <4>2. Said[posts[j]].forecast < Said[m].forecast
          BY <2>3, <2>4, <2>6
        <4> QED BY <4>1, <4>2
      <3> QED BY <2>1, <3>1
    <2> QED BY <2>2, <2>5, <2>6
  <1> QED BY <1>3, <1>4

LEMMA PostKeeps ==
    ASSUME BN!BudgetConstants, BudgetInvariant, NEW i \in Instances,
           BN!PostToSlack(i) \/ BN!PostIsLost(i)
    PROVE  BudgetInvariant'
  <1>0. PICK m \in Messages : request[i].message = m
    BY RequestFits DEF BN!PostToSlack, BN!PostIsLost, BudgetInvariant
  <1> DEFINE p0 == Said[m].period
             new == Len(posts) + 1
  <1>1. /\ BN!At(i) = "posting" /\ UNCHANGED <<acked, object>> /\ posts' = Append(posts, m)
        /\ BN!MessageOf(i) = Said[m] /\ BN!TypeOK /\ p0 \in Periods
        /\ irregular \subseteq irregular' /\ BN!AnsweredIsPosted
    BY <1>0, RequestFits, ContentFits
    DEF BN!PostToSlack, BN!PostIsLost, BudgetInvariant, BN!BudgetIsTold
  <1>2. BN!NothingTwice' /\ BN!AnsweredIsPosted'
    BY <1>0, <1>1, NothingPostedTwice, AnsweredKeeps
  <1>3. Recorded'
    <2>1. \A p \in Periods : Told(p, object[p]) /\ object'[p] = object[p]
      BY <1>1 DEF BudgetInvariant, Recorded
    <2>2. \A p \in Periods : Told(p, object[p])'
      <3>1. \A p \in Periods : BN!ActualPosted(p, object[p].actual)
                            /\ BN!ForecastPosted(p, object[p].forecast)
        BY <2>1 DEF Told
      <3>2. \A p \in Periods : BN!ActualPosted(p, object[p].actual)'
                            /\ BN!ForecastPosted(p, object[p].forecast)'
        BY <1>1, <2>1, <3>1, StaysTold
      <3> QED BY <3>2 DEF Told
    <2> QED BY <2>2 DEF Recorded
  <1>4. \A p : BN!Works(i, p) <=> ~Said[m].test /\ p = p0
    BY <1>1 DEF BN!Works, BN!PeriodOf
  <1>5. \A p \in Periods : ~BN!Works(i, p) => SamePeriod(p)
    BY <1>1, <1>4, PostAppends DEF SamePeriod, BN!Posted
  <1>6. CASE BN!PostToSlack(i)
    <2> DEFINE r == [at |-> "committing", message |-> m, state |-> request[i].state]
    <2>1. request' = [request EXCEPT ![i] = r] /\ UNCHANGED irregular
      <3>1. request' = [request EXCEPT ![i].at = "committing"] /\ UNCHANGED irregular
        BY <1>6 DEF BN!PostToSlack
      <3>2. request[i] = [at |-> "posting", message |-> m, state |-> request[i].state]
        BY <1>0, <1>1, RequestFits
      <3>3. [request[i] EXCEPT !.at = "committing"] = r
        BY <3>2
      <3> HIDE DEF r
      <3> QED BY <1>1, <3>1, <3>3 DEF BN!TypeOK
    <2>2. /\ request'[i] = r /\ BN!At(i)' = "committing" /\ BN!MessageOf(i)' = Said[m]
          /\ \A p : BN!Works(i, p)' <=> BN!Works(i, p)
      <3>1. r.at = "committing" /\ r.message = m
        OBVIOUS
      <3>2. /\ request'[i] = r /\ BN!At(i)' = r.at /\ BN!MessageOf(i)' = Said[r.message]
            /\ \A p : BN!Works(i, p)' <=> /\ r.at # "idle" /\ ~Said[r.message].test
                                         /\ Said[r.message].period = p
        <4> HIDE DEF r
        <4> QED BY <1>1, <2>1, OthersStay
      <3>3. \A p : BN!Works(i, p)' <=> BN!Works(i, p)
        BY ONLY <1>4, <3>1, <3>2
      <3> QED BY ONLY <3>1, <3>2, <3>3
    <2>3. BN!TypeOK'
      <3>1. request[i].state \in BN!Marks
        BY <1>1, RequestFits
      <3> QED BY <1>1, <2>1, <3>1 DEF BN!TypeOK
    <2>4. Recordable(i)'
      <3>1. request'[i].message = m /\ request'[i].state = request[i].state
        BY <2>2
      <3>2. \E k \in DOMAIN posts' : posts'[k] = m
        BY <1>1, PostAppends
      <3>3. ASSUME ~Said[m].test
            PROVE  /\ BN!ActualPosted(p0, request[i].state.actual)'
                   /\ BN!ForecastPosted(p0, request[i].state.forecast)'
        <4>1. BN!ActualPosted(p0, Said[m].actual)' /\ BN!ForecastPosted(p0, Said[m].forecast)'
          <5>1. new \in BN!Posted(p0)' /\ posts'[new] = m
            BY <1>1, <3>3, PostAppends
          <5>2. Said[m].actual \in Nat /\ Said[m].forecast \in Nat
            BY ContentFits
          <5> HIDE DEF new
          <5> QED BY <5>1, <5>2 DEF BN!ActualPosted, BN!ForecastPosted
        <4>2. /\ \/ request[i].state.actual = Said[m].actual
                 \/ BN!ActualPosted(p0, request[i].state.actual)
              /\ \/ request[i].state.forecast = Said[m].forecast
                 \/ BN!ForecastPosted(p0, request[i].state.forecast)
          BY <1>1, <3>3 DEF BudgetInvariant, Recordable
        <4> QED BY <1>1, <3>1, <4>1, <4>2, StaysTold
      <3> QED BY <2>2, <3>1, <3>2, <3>3 DEF Recordable, Told
    <2>5. ASSUME NEW j \in Instances \ {i}, BN!At(j)' # "idle" PROVE Recordable(j)'
      <3>1. request'[j] = request[j] /\ BN!At(j) # "idle"
        BY <1>1, <2>1, <2>5, OthersStay
      <3> QED BY <1>1, <3>1, OthersRecord DEF BudgetInvariant
    <2>6. ASSUME NEW p \in Periods \ irregular' PROVE OneAtATime(p)'
      <3>1. OneAtATime(p) /\ p \in Periods \ irregular
        BY <2>1 DEF BudgetInvariant
      <3>2. CASE BN!Works(i, p)
        <4>1. \A j \in Instances : BN!Works(j, p)' => j = i
          <5>1. \A j \in Instances \ {i} : BN!Works(j, p)' <=> BN!Works(j, p)
            <6> HIDE DEF r
            <6> QED BY <1>1, <2>1, OthersStay
          <5> QED BY <3>1, <3>2, <5>1 DEF OneAtATime
        <4>2. /\ Tops(p, object[p]) /\ request[i].state = BN!Raised(object[p], Said[m])
              /\ ~Said[m].test /\ p = p0
          BY <1>1, <1>4, <3>1, <3>2, PostTops
        <4>3. Tops(p, request[i].state)'
          <5>1. /\ request'[i].state = request[i].state
                /\ BN!Posted(p)' = BN!Posted(p) \cup {new} /\ posts'[new] = m
                /\ \A k \in BN!Posted(p) : posts'[k] = posts[k] /\ posts[k] \in Messages
            BY <1>1, <2>2, <4>2, PostAppends DEF BN!Posted, BN!TypeOK
          <5>2. object[p] \in BN!Marks
            BY <1>1 DEF BN!TypeOK
          <5>3. /\ Said[m].actual <= request[i].state.actual
                /\ Said[m].forecast <= request[i].state.forecast
                /\ object[p].actual <= request[i].state.actual
                /\ object[p].forecast <= request[i].state.forecast
            BY <4>2, <5>2, RaisedTops
          <5>4. request[i].state \in BN!Marks
            BY <1>1, RequestFits
          <5>5. \A k \in BN!Posted(p) :
                   /\ Said[posts[k]].actual <= request[i].state.actual
                   /\ Said[posts[k]].forecast <= request[i].state.forecast
            BY <4>2, <5>1, <5>2, <5>3, <5>4, MarksFit, ContentFits DEF Tops
          <5> HIDE DEF new
          <5> QED BY <5>1, <5>3, <5>5 DEF Tops
        <4> QED BY <2>2, <3>2, <4>1, <4>3 DEF OneAtATime
      <3>3. CASE ~BN!Works(i, p)
        <4> HIDE DEF r
        <4> QED BY <1>1, <1>5, <2>1, <2>2, <3>1, <3>3, OthersAlone
      <3> QED BY <3>2, <3>3
    <2> QED BY <1>2, <1>3, <2>3, <2>4, <2>5, <2>6 DEF BudgetInvariant, BN!BudgetIsTold
  <1>7. CASE BN!PostIsLost(i)
    <2>1. /\ request' = [request EXCEPT ![i] = BN!Idle]
          /\ irregular' = irregular \cup BN!Unrecorded(i)
      BY <1>7 DEF BN!PostIsLost, BN!Ends
    <2>2. BN!TypeOK'
      BY <1>1, <2>1 DEF BN!TypeOK, BN!Unrecorded, BN!PeriodOf
    <2>3. BN!At(i)' = "idle" /\ \A p : ~BN!Works(i, p)'
      BY <1>1, <2>1, OthersStay, IdleIsIdle
    <2>4. ASSUME NEW j \in Instances, BN!At(j)' # "idle" PROVE Recordable(j)'
      <3>1. request'[j] = request[j] /\ BN!At(j) # "idle"
        BY <1>1, <2>1, <2>3, <2>4, OthersStay
      <3> QED BY <1>1, <3>1, OthersRecord DEF BudgetInvariant
    <2>5. ASSUME NEW p \in Periods \ irregular' PROVE OneAtATime(p)'
      <3>1. OneAtATime(p) /\ ~BN!Works(i, p)
        BY <1>1, <1>4, <2>1 DEF BudgetInvariant, BN!Unrecorded, BN!PeriodOf
      <3> QED BY <1>1, <1>5, <2>1, <2>3, <3>1, OthersAlone
    <2> QED BY <1>2, <1>3, <2>2, <2>4, <2>5 DEF BudgetInvariant, BN!BudgetIsTold
  <1> QED BY <1>6, <1>7

LEMMA CommitKeeps ==
    ASSUME BN!BudgetConstants, BudgetInvariant, NEW i \in Instances,
           BN!CommitDedupeState(i) \/ BN!CommitIsLost(i)
    PROVE  BudgetInvariant'
  <1>0. PICK m \in Messages : request[i].message = m
    BY RequestFits DEF BN!CommitDedupeState, BN!CommitIsLost, BudgetInvariant
  <1> DEFINE p0 == Said[m].period
  <1>1. /\ BN!At(i) = "committing" /\ UNCHANGED <<posts, irregular>> /\ object' = BN!Saved(i)
        /\ request' = [request EXCEPT ![i] = BN!Idle]
        /\ acked' = acked \/ acked' = acked \cup {m}
        /\ BN!MessageOf(i) = Said[m] /\ BN!PeriodOf(i) = p0 /\ BN!TypeOK /\ p0 \in Periods
        /\ request[i].state \in BN!Marks /\ BN!AnsweredIsPosted /\ Recordable(i)
    BY <1>0, RequestFits, ContentFits
    DEF BN!CommitDedupeState, BN!CommitIsLost, BudgetInvariant, BN!BudgetIsTold, BN!PeriodOf,
        BN!Ends, BN!Acked
  <1>2. /\ Said[m].test => object' = object
        /\ ~Said[m].test => object' = [object EXCEPT ![p0] = request[i].state]
    BY <1>1 DEF BN!Saved
  <1>3. BN!TypeOK'
    BY <1>1, <1>2 DEF BN!TypeOK
  <1>4. BN!NothingTwice'
    BY <1>1, NothingPosted DEF BudgetInvariant, BN!BudgetIsTold
  <1>5. BN!AnsweredIsPosted'
    <2>1. IsTold(m)
      BY <1>0, <1>1, PostedIsTold DEF Recordable
    <2> QED BY <1>1, <2>1, AnsweredKeeps
  <1>6. Recorded'
    <2>1. ~Said[m].test => Told(p0, request[i].state)
      BY <1>1 DEF Recordable
    <2>2. \A p \in Periods : Told(p, object[p])
      BY DEF BudgetInvariant, Recorded
    <2>3. ASSUME NEW p \in Periods
          PROVE  object'[p] = object[p] \/ (object'[p] = request[i].state /\ p = p0 /\ ~Said[m].test)
      BY <1>1, <1>2 DEF BN!TypeOK
    <2> QED BY <1>1, <2>1, <2>2, <2>3
        DEF Recorded, Told, BN!ActualPosted, BN!ForecastPosted, BN!Posted
  <1>7. BN!At(i)' = "idle" /\ \A p : ~BN!Works(i, p)'
    BY <1>1, OthersStay, IdleIsIdle
  <1>8. ASSUME NEW j \in Instances, BN!At(j)' # "idle" PROVE Recordable(j)'
    <2>1. request'[j] = request[j] /\ BN!At(j) # "idle"
      BY <1>1, <1>7, <1>8, OthersStay
    <2> QED BY <1>1, <2>1, OthersRecord DEF BudgetInvariant
  <1>9. ASSUME NEW p \in Periods \ irregular' PROVE OneAtATime(p)'
    <2>1. OneAtATime(p)
      BY <1>1 DEF BudgetInvariant
    <2>2. CASE BN!Works(i, p)
      <3>1. p = p0 /\ ~Said[m].test /\ object'[p] = request[i].state
        BY <1>1, <1>2, <2>2 DEF BN!Works, BN!TypeOK
      <3>2. \A j \in Instances : ~BN!Works(j, p)'
        <4>1. \A j \in Instances \ {i} : BN!Works(j, p)' <=> BN!Works(j, p)
          BY <1>1, OthersStay
        <4> QED BY <1>7, <2>1, <2>2, <4>1 DEF OneAtATime
      <3>3. Tops(p, request[i].state)
        BY <1>1, <2>1, <2>2 DEF OneAtATime
      <3>4. Tops(p, object[p])'
        BY <1>1, <3>1, <3>3 DEF Tops, BN!Posted
      <3> QED BY <3>2, <3>4 DEF OneAtATime
    <2>3. CASE ~BN!Works(i, p)
      <3>1. object'[p] = object[p]
        BY <1>1, <1>2, <2>3 DEF BN!Works, BN!TypeOK
      <3>2. SamePeriod(p)
        BY <1>1, <3>1 DEF SamePeriod, BN!Posted
      <3> QED BY <1>1, <1>7, <2>1, <2>3, <3>2, OthersAlone
    <2> QED BY <2>2, <2>3
  <1> QED BY <1>3, <1>4, <1>5, <1>6, <1>8, <1>9 DEF BudgetInvariant, BN!BudgetIsTold

LEMMA FailKeeps ==
    ASSUME BN!BudgetConstants, BudgetInvariant, NEW i \in Instances, BN!Fails(i)
    PROVE  BudgetInvariant'
  <1>1. /\ BN!At(i) # "idle" /\ UNCHANGED <<acked, object, posts>>
        /\ request' = [request EXCEPT ![i] = BN!Idle]
        /\ irregular' = irregular \cup (IF BN!At(i) = "committing" THEN BN!Unrecorded(i) ELSE {})
        /\ BN!TypeOK /\ BN!AnsweredIsPosted
    BY DEF BN!Fails, BN!Ends, BN!Failed, BudgetInvariant, BN!BudgetIsTold
  <1>2. irregular \subseteq irregular' /\ irregular' \subseteq Periods
    BY <1>1, RequestFits, ContentFits DEF BN!Unrecorded, BN!PeriodOf, BN!TypeOK
  <1>3. BN!TypeOK'
    BY <1>1, <1>2 DEF BN!TypeOK
  <1>4. Recorded' /\ BN!NothingTwice' /\ BN!AnsweredIsPosted'
    BY <1>1, <1>2, SameMarks, NothingPosted, AnsweredKeeps DEF BudgetInvariant, BN!BudgetIsTold
  <1>5. BN!At(i)' = "idle" /\ \A p : ~BN!Works(i, p)'
    BY <1>1, OthersStay, IdleIsIdle
  <1>6. ASSUME NEW j \in Instances, BN!At(j)' # "idle" PROVE Recordable(j)'
    <2>1. request'[j] = request[j] /\ BN!At(j) # "idle"
      BY <1>1, <1>5, <1>6, OthersStay
    <2> QED BY <1>1, <2>1, OthersRecord DEF BudgetInvariant
  <1>7. ASSUME NEW p \in Periods \ irregular' PROVE OneAtATime(p)'
    <2>1. OneAtATime(p) /\ SamePeriod(p)
      BY <1>1, <1>2, SameMarks DEF BudgetInvariant
    <2>2. CASE BN!Works(i, p)
      <3>1. BN!At(i) # "committing"
        BY <1>1, <1>7, <2>2 DEF BN!Works, BN!Unrecorded
      <3> QED BY <1>1, <1>5, <2>1, <2>2, <3>1, AloneBefore
    <2>3. CASE ~BN!Works(i, p)
      BY <1>1, <1>5, <2>1, <2>3, OthersAlone
    <2> QED BY <2>2, <2>3
  <1> QED BY <1>3, <1>4, <1>6, <1>7 DEF BudgetInvariant, BN!BudgetIsTold

LEMMA BudgetStarts == BN!BudgetConstants /\ BN!Init => BudgetInvariant
  <1> SUFFICES ASSUME BN!BudgetConstants, BN!Init PROVE BudgetInvariant
    OBVIOUS
  <1>1. BN!TypeOK
    BY DEF BN!Init, BN!TypeOK, BN!NothingSent, BN!Marks, BN!Levels
  <1>2. /\ \A i \in Instances : BN!At(i) = "idle"
        /\ \A p : BN!Posted(p) = {}
    BY DEF BN!Init, BN!At, BN!Idle, BN!Posted
  <1>3. Recorded
    BY DEF BN!Init, Recorded, Told, BN!NothingSent, BN!ActualPosted, BN!ForecastPosted
  <1>4. \A p \in Periods : OneAtATime(p)
    BY <1>2 DEF OneAtATime, BN!Works, Tops
  <1>5. BN!BudgetIsTold
    BY <1>2 DEF BN!Init, BN!BudgetIsTold, BN!AnsweredIsPosted, BN!NothingTwice
  <1> QED BY <1>1, <1>2, <1>3, <1>4, <1>5 DEF BudgetInvariant

LEMMA BudgetKeeps ==
    ASSUME BN!BudgetConstants, BudgetInvariant, [BN!Next]_BN!vars
    PROVE  BudgetInvariant'
  <1>1. CASE UNCHANGED BN!vars
    BY <1>1 DEF BN!vars, BudgetInvariant, BN!TypeOK, Recorded, Recordable, OneAtATime, Tops, Told,
                BN!BudgetIsTold, BN!AnsweredIsPosted, BN!NothingTwice, BN!Posted,
                BN!ActualPosted, BN!ForecastPosted, BN!At, BN!Works, BN!MessageOf, BN!PeriodOf,
                BN!Raised
  <1>2. CASE BN!Next
    BY <1>2, DeliverKeeps, EvaluateKeeps, PostKeeps, CommitKeeps, FailKeeps DEF BN!Next
  <1> QED BY <1>1, <1>2

\* The Cloud Function tells of every threshold that a message it answered exceeds, and of
\* none twice while requests of a period do not overlap and their posts are recorded.
THEOREM BudgetIsToldOnce == BN!BudgetConstants => (BN!Spec => []BN!BudgetIsTold)
  <1> SUFFICES ASSUME BN!BudgetConstants PROVE BN!Spec => []BN!BudgetIsTold
    OBVIOUS
  <1>1. BN!Init => BudgetInvariant
    BY BudgetStarts
  <1>2. BudgetInvariant /\ [BN!Next]_BN!vars => BudgetInvariant'
    BY BudgetKeeps
  <1>3. BudgetInvariant => BN!BudgetIsTold
    BY DEF BudgetInvariant
  <1> QED BY <1>1, <1>2, <1>3, PTL DEF BN!Spec
=============================================================================
