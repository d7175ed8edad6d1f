------------------------------ MODULE Friends ------------------------------
(***************************************************************************)
(* Friendships of apps/web: one row per unordered pair of accounts and the *)
(* transactions on it (lib/dal/friends), the friends screen and the        *)
(* notifications screen that start them, and the flags the notifications   *)
(* screen shows and marks as read.                                         *)
(*                                                                         *)
(* Transactions run at READ COMMITTED: each statement sees what the others *)
(* committed before it, so a transaction is one step per statement.  The   *)
(* screens of Viewers are followed; the other accounts act through any     *)
(* number of tabs, that is, call the API as they like.                     *)
(***************************************************************************)
EXTENDS Integers, Sequences, FiniteSets

CONSTANTS
    Users,       \* accounts
    Viewers,     \* accounts among them whose screens are followed
    Nobody,      \* no account
    MaxCalls,    \* API calls of all users under way at once (bound of the model)
    MaxFlags,    \* flags each viewer receives (bound of the model)
    FlagLimit    \* flags a page of events holds: 50 in the code

\* What the instances and the proofs take for granted of the constants.
FriendsConstants ==
    Nobody \notin Users /\ Viewers \subseteq Users /\ FlagLimit \in Nat \ {0}

Pairs == {p \in SUBSET Users : \E u, v \in p : u # v /\ p = {u, v}}
Partner(u, p) == CHOOSE v \in p : v # u

\* Rows of friendships.
NoRow == [status |-> "none", by |-> Nobody]
RowRecords == {NoRow} \cup [status : {"pending", "accepted"}, by : Users]

VARIABLES
    friendship,  \* the row of each pair
    calls,       \* API calls under way, each at a statement of its transaction
    asked,       \* who asked for the friendship of a pair, in a request or an accept,
                 \* since the pair was last without a row
    overtaken,   \* pairs of which a request was inserted while its author's acceptance
                 \* of an earlier row, withdrawn meanwhile, was about to be written
    screen,      \* the screen each viewer has open, with what it shows
    loads,       \* loads of lists under way
    flags,       \* flags of each viewer, by number: "unread" or "read"
    shown        \* flags a notifications screen has shown

vars == <<friendship, calls, asked, overtaken, screen, loads, flags, shown>>

Ops == {"send", "accept", "reject", "cancel", "remove"}
CallIds == 1 .. MaxCalls
CallRecords ==
    [user : Users, op : Ops, pair : Pairs, at : {"read", "write", "classify", "answered"},
     answer : {"", "ok", "not_found", "forbidden", "conflict", "error"}]
NoCall == [user |-> Nobody, op |-> "", pair |-> {}, at |-> "free", answer |-> ""]

NoLists == [friends |-> {}, incoming |-> {}, outgoing |-> {}]

\* A screen that has just opened.
Opened(at) ==
    [at |-> at, loading |-> TRUE, failed |-> FALSE, lists |-> NoLists,
     pair |-> {}, sending |-> Nobody, target |-> Nobody, removing |-> FALSE,
     awaits |-> {}]
Closed == [Opened("none") EXCEPT !.loading = FALSE]

Init ==
    /\ friendship = [p \in Pairs |-> NoRow]
    /\ calls = [i \in CallIds |-> NoCall]
    /\ asked = [p \in Pairs |-> {}] /\ overtaken = {}
    /\ screen = [u \in Viewers |-> Closed]
    /\ loads = {}
    /\ flags = [u \in Viewers |-> <<>>]
    /\ shown = [u \in Viewers |-> {}]

-----------------------------------------------------------------------------
(***************************************************************************)
(* The transactions (lib/dal/friends.ts, lib/dal/friendship-delete.ts).    *)
(***************************************************************************)
\* What a deletion requires of the row (lib/friendship/delete-guard.ts).
Guard(op) ==
    CASE op = "reject" -> [status |-> "pending", requester |-> {FALSE}]
      [] op = "cancel" -> [status |-> "pending", requester |-> {TRUE}]
      [] op = "remove" -> [status |-> "accepted", requester |-> BOOLEAN]

\* Mutated form of Deletable: the state is not part of the deletion.
DeletableByRole(row, u, g) == row # NoRow /\ (row.by = u) \in g.requester

Deletable(row, u, g) == row.status = g.status /\ (row.by = u) \in g.requester

\* Why a deletion removed nothing, by the row that is there afterwards.
Classified(row, u, g) ==
    IF row = NoRow THEN "not_found"
    ELSE IF (row.by = u) \notin g.requester THEN "forbidden" ELSE "conflict"

\* A call that was answered, and whose answer no screen awaits, is over.
Awaited(i) == calls[i].user \in Viewers /\ i \in screen[calls[i].user].awaits
Answered(i, answer) ==
    calls' = [calls EXCEPT ![i] = IF Awaited(i) THEN [@ EXCEPT !.at = "answered", !.answer = answer]
                                  ELSE NoCall]
At(i, statement) == calls' = [calls EXCEPT ![i].at = statement]
Calls(ops, statement) == {i \in CallIds : calls[i].op \in ops /\ calls[i].at = statement}
RowOf(i) == friendship[calls[i].pair]

Asks(i) == asked' = [asked EXCEPT ![calls[i].pair] = @ \cup {calls[i].user}]

\* sendFriendRequest looks for a row of the pair, then inserts one.
SendReads(i) ==
    /\ i \in Calls({"send"}, "read")
    /\ IF RowOf(i) = NoRow THEN At(i, "write") ELSE Answered(i, "conflict")
    /\ UNCHANGED <<friendship, asked, overtaken, screen, loads, flags, shown>>

\* The author of a new request is still about to accept an earlier one.
StillAccepts(u, p) ==
    \E i \in Calls({"accept"}, "write") : calls[i].pair = p /\ calls[i].user = u

\* The primary key refuses a second row: the request fails as an error.
SendInserts(i) ==
    /\ i \in Calls({"send"}, "write")
    /\ IF RowOf(i) = NoRow
       THEN /\ friendship' = [friendship EXCEPT ![calls[i].pair] =
                                 [status |-> "pending", by |-> calls[i].user]]
            /\ Answered(i, "ok") /\ Asks(i)
            /\ overtaken' = IF StillAccepts(calls[i].user, calls[i].pair)
                            THEN overtaken \cup {calls[i].pair}
                            ELSE overtaken \ {calls[i].pair}
       ELSE Answered(i, "error") /\ UNCHANGED <<friendship, asked, overtaken>>
    /\ UNCHANGED <<screen, loads, flags, shown>>

\* Mutated form of AcceptVerdict: the author of a request may accept it.
AcceptVerdictOfAnyone(row, u) ==
    CASE row = NoRow -> "not_found"
      [] row.status = "accepted" -> "ok"
      [] OTHER -> "go on"

AcceptVerdict(row, u) ==
    CASE row = NoRow -> "not_found"
      [] row.by = u -> "forbidden"
      [] row.status = "accepted" /\ row.by # u -> "ok"
      [] OTHER -> "go on"

\* acceptFriendRequest reads the row, then updates the row of the pair.
AcceptReads(i) ==
    /\ i \in Calls({"accept"}, "read")
    /\ LET verdict == AcceptVerdict(RowOf(i), calls[i].user)
       IN  IF verdict = "go on" THEN At(i, "write") ELSE Answered(i, verdict)
    /\ UNCHANGED <<friendship, asked, overtaken, screen, loads, flags, shown>>

AcceptUpdates(i) ==
    /\ i \in Calls({"accept"}, "write")
    /\ IF RowOf(i) = NoRow
       THEN Answered(i, "error") /\ UNCHANGED <<friendship, asked>>
       ELSE /\ friendship' = [friendship EXCEPT ![calls[i].pair].status = "accepted"]
            /\ Answered(i, "ok") /\ Asks(i)
    /\ UNCHANGED <<overtaken, screen, loads, flags, shown>>

\* reject, cancel and remove delete under their guard, in one statement; what was
\* asked before a deletion counts no more.
Deletes(i) ==
    /\ i \in Calls({"reject", "cancel", "remove"}, "read")
    /\ IF Deletable(RowOf(i), calls[i].user, Guard(calls[i].op))
       THEN /\ friendship' = [friendship EXCEPT ![calls[i].pair] = NoRow]
            /\ asked' = [asked EXCEPT ![calls[i].pair] = {}]
            /\ Answered(i, "ok")
       ELSE At(i, "classify") /\ UNCHANGED <<friendship, asked>>
    /\ UNCHANGED <<overtaken, screen, loads, flags, shown>>

DeleteClassified(i) ==
    /\ i \in Calls({"reject", "cancel", "remove"}, "classify")
    /\ Answered(i, Classified(RowOf(i), calls[i].user, Guard(calls[i].op)))
    /\ UNCHANGED <<friendship, asked, overtaken, screen, loads, flags, shown>>

\* What listFriends and listFriendRequests select.
FriendsOf(u) == {v \in Users \ {u} : friendship[{u, v}].status = "accepted"}
IncomingOf(u) == {v \in Users \ {u} : friendship[{u, v}] = [status |-> "pending", by |-> v]}
OutgoingOf(u) == {v \in Users \ {u} : friendship[{u, v}] = [status |-> "pending", by |-> u]}

-----------------------------------------------------------------------------
(***************************************************************************)
(* The routes: a call starts (app/api/v1/friends).                         *)
(***************************************************************************)
Free == {i \in CallIds : calls[i] = NoCall}
NextCall == CHOOSE i \in Free : \A j \in Free : i <= j

Starts(u, op, v) ==
    /\ Free # {}
    /\ calls' = [calls EXCEPT ![NextCall] =
          [user |-> u, op |-> op, pair |-> {u, v}, at |-> "read", answer |-> ""]]

PostRequest(u, v) == Starts(u, "send", v)
PostAccept(u, v) == Starts(u, "accept", v)
PostReject(u, v) == Starts(u, "reject", v)
DeleteRequest(u, v) == Starts(u, "cancel", v)
DeleteFriend(u, v) == Starts(u, "remove", v)

\* An account whose screen is not followed calls as it likes.
CallsApi(u, v) ==
    /\ u \in Users \ Viewers
    /\ \/ PostRequest(u, v) \/ PostAccept(u, v) \/ PostReject(u, v)
       \/ DeleteRequest(u, v) \/ DeleteFriend(u, v)
    /\ UNCHANGED <<friendship, asked, overtaken, screen, loads, flags, shown>>

-----------------------------------------------------------------------------
(***************************************************************************)
(* The friends screen (lib/mypage/use-friends-view.ts, components/mypage). *)
(***************************************************************************)
\* A load of the lists: requests that are answered one by one.  then: the call
\* whose handler awaits the load, "open" for the load of the screen, or "mark"
\* when its events are to be marked as read.
Load(u, at, then) ==
    [user |-> u, at |-> at, then |-> then, todo |-> (IF at = "friends"
        THEN {"friends", "incoming", "outgoing"} ELSE {"incoming", "events"}),
     lists |-> NoLists, events |-> {}]

Open(u, at) ==
    /\ screen[u].at = "none"
    /\ screen' = [screen EXCEPT ![u] = Opened(at)]
    /\ loads' = loads \cup {Load(u, at, "open")}
    /\ UNCHANGED <<friendship, calls, asked, overtaken, flags, shown>>

\* The handlers of a screen that is gone end without an effect.
Leave(u) ==
    /\ screen[u].at # "none"
    /\ screen' = [screen EXCEPT ![u] = Closed]
    /\ loads' = {l \in loads : l.user # u \/ l.then = "mark"}
    /\ calls' = [i \in CallIds |-> IF calls[i].user = u /\ calls[i].at = "answered"
                                    THEN NoCall ELSE calls[i]]
    /\ UNCHANGED <<friendship, asked, overtaken, flags, shown>>

\* The page of events: the newest flags, read or not.
Page(u) == {f \in DOMAIN flags[u] : f > Len(flags[u]) - FlagLimit}

ListAnswered(l, what) ==
    /\ what \in l.todo
    /\ loads' = (loads \ {l}) \cup
          {[l EXCEPT !.todo = @ \ {what},
                     !.lists.friends = IF what = "friends" THEN FriendsOf(l.user) ELSE @,
                     !.lists.incoming = IF what = "incoming" THEN IncomingOf(l.user) ELSE @,
                     !.lists.outgoing = IF what = "outgoing" THEN OutgoingOf(l.user) ELSE @,
                     !.events = IF what = "events" THEN Page(l.user) ELSE @]}
    /\ UNCHANGED <<friendship, calls, asked, overtaken, screen, flags, shown>>

\* What the handler of a call does last: its button is free.
Ends(s, op) ==
    [s EXCEPT !.loading = @ /\ op # "open",
              !.pair = IF op \in {"accept", "reject", "cancel"} THEN {} ELSE @,
              !.sending = IF op = "send" THEN Nobody ELSE @,
              !.removing = @ /\ op # "remove"]

\* Mutated form of Marked: every flag of the account is marked.
MarkedAll(u, events) == [f \in DOMAIN flags[u] |-> "read"]

\* markFlagsRead with the ids of the events.
Marked(u, events) == [f \in DOMAIN flags[u] |-> IF f \in events THEN "read" ELSE flags[u][f]]

\* All lists are there: they are shown.  The first load of the notifications
\* goes on to mark the events it shows as read.
LoadEnds(l) ==
    /\ l.todo = {} /\ l.then # "mark"
    /\ screen' = [screen EXCEPT ![l.user] = [Ends(@, l.then) EXCEPT !.lists = l.lists]]
    /\ shown' = [shown EXCEPT ![l.user] = @ \cup l.events]
    /\ loads' = (loads \ {l}) \cup
          (IF l.then = "open" /\ l.events # {}
           THEN {[Load(l.user, l.at, "mark") EXCEPT !.todo = {}, !.events = l.events]} ELSE {})
    /\ UNCHANGED <<friendship, calls, asked, overtaken, flags>>

\* The mark is best effort, and is sent even if the screen is left meanwhile.
MarkRead(l, fails) ==
    /\ l.then = "mark"
    /\ loads' = loads \ {l}
    /\ flags' = IF fails THEN flags ELSE [flags EXCEPT ![l.user] = Marked(l.user, l.events)]
    /\ UNCHANGED <<friendship, calls, asked, overtaken, screen, shown>>

LoadFails(l) ==
    /\ l.todo # {}
    /\ loads' = loads \ {l}
    /\ screen' = [screen EXCEPT ![l.user] =
          [Ends(screen[l.user], l.then) EXCEPT !.failed = @ \/ l.then = "open"]]
    /\ UNCHANGED <<friendship, calls, asked, overtaken, flags, shown>>

RetryLoad(u) ==
    /\ screen[u].failed
    /\ screen' = [screen EXCEPT ![u].loading = TRUE, ![u].failed = FALSE]
    /\ loads' = loads \cup {Load(u, screen[u].at, "open")}
    /\ UNCHANGED <<friendship, calls, asked, overtaken, flags, shown>>

ListsShown(u) == screen[u].at # "none" /\ ~screen[u].loading /\ ~screen[u].failed

\* The button of a user found by name (friends-view.tsx, friends-search-section).
SendOffered(u, v) ==
    /\ ListsShown(u) /\ screen[u].at = "friends"
    /\ v \notin UNION {screen[u].lists.friends, screen[u].lists.incoming,
                       screen[u].lists.outgoing}
    /\ screen[u].sending # v
RequestOffered(u, v) ==
    ListsShown(u) /\ v \in screen[u].lists.incoming /\ screen[u].pair # {u, v}
WithdrawalOffered(u, v) ==
    /\ ListsShown(u) /\ screen[u].at = "friends"
    /\ v \in screen[u].lists.outgoing /\ screen[u].pair # {u, v}
UnfriendOffered(u, v) ==
    /\ ListsShown(u) /\ screen[u].at = "friends"
    /\ v \in screen[u].lists.friends /\ screen[u].target = Nobody

Pressed(u, changed) ==
    /\ screen' = [screen EXCEPT ![u] = [changed EXCEPT !.awaits = @ \cup {NextCall}]]
    /\ UNCHANGED <<friendship, asked, overtaken, loads, flags, shown>>

HandleSendRequest(u, v) ==
    /\ SendOffered(u, v) /\ PostRequest(u, v)
    /\ Pressed(u, [screen[u] EXCEPT !.sending = v])

\* (On the friends and on the notifications screen.)
HandleAccept(u, v) ==
    /\ RequestOffered(u, v) /\ PostAccept(u, v)
    /\ Pressed(u, [screen[u] EXCEPT !.pair = {u, v}])

HandleReject(u, v) ==
    /\ RequestOffered(u, v) /\ PostReject(u, v)
    /\ Pressed(u, [screen[u] EXCEPT !.pair = {u, v}])

HandleCancel(u, v) ==
    /\ WithdrawalOffered(u, v) /\ DeleteRequest(u, v)
    /\ Pressed(u, [screen[u] EXCEPT !.pair = {u, v}])

\* "Unfriend" asks for a confirmation first.
RequestUnfriend(u, v) ==
    /\ UnfriendOffered(u, v)
    /\ screen' = [screen EXCEPT ![u].target = v]
    /\ UNCHANGED <<friendship, calls, asked, overtaken, loads, flags, shown>>

CancelUnfriend(u) ==
    /\ screen[u].target # Nobody /\ ~screen[u].removing
    /\ screen' = [screen EXCEPT ![u].target = Nobody]
    /\ UNCHANGED <<friendship, calls, asked, overtaken, loads, flags, shown>>

HandleConfirmUnfriend(u) ==
    /\ screen[u].target # Nobody /\ ~screen[u].removing
    /\ DeleteFriend(u, screen[u].target)
    /\ Pressed(u, [screen[u] EXCEPT !.removing = TRUE])

\* The answer arrives.  After a success, and after the answer that a request is
\* there already, the lists are loaded again before the button is free.
Reloads(i) ==
    calls[i].answer = "ok" \/ (calls[i].op = "send" /\ calls[i].answer = "conflict")

AnswerArrives(u, i) ==
    /\ i \in screen[u].awaits /\ calls[i].at = "answered"
    /\ calls' = [calls EXCEPT ![i] = NoCall]
    /\ LET s == [screen[u] EXCEPT !.awaits = @ \ {i}]
       IN  IF Reloads(i)
           THEN /\ loads' = loads \cup {Load(u, s.at, calls[i].op)}
                /\ screen' = [screen EXCEPT ![u] =
                      [s EXCEPT !.target = IF calls[i].op = "remove" THEN Nobody ELSE @]]
           ELSE screen' = [screen EXCEPT ![u] = Ends(s, calls[i].op)] /\ UNCHANGED loads
    /\ UNCHANGED <<friendship, asked, overtaken, flags, shown>>

\* A friend saves a spot of the account: a flag (trigger emit_flag_on_recollection).
FlagEmitted(u) ==
    /\ Len(flags[u]) < MaxFlags
    /\ flags' = [flags EXCEPT ![u] = Append(@, "unread")]
    /\ UNCHANGED <<friendship, calls, asked, overtaken, screen, loads, shown>>

-----------------------------------------------------------------------------
Database ==
    \E i \in CallIds :
        \/ SendReads(i) \/ SendInserts(i) \/ AcceptReads(i) \/ AcceptUpdates(i)
        \/ Deletes(i) \/ DeleteClassified(i)

Lists ==
    \E l \in loads :
        \/ \E what \in l.todo : ListAnswered(l, what)
        \/ LoadEnds(l) \/ LoadFails(l) \/ MarkRead(l, TRUE) \/ MarkRead(l, FALSE)

Screens ==
    \E u \in Viewers :
        \/ \E at \in {"friends", "notifications"} : Open(u, at)
        \/ Leave(u) \/ RetryLoad(u) \/ CancelUnfriend(u) \/ HandleConfirmUnfriend(u)
        \/ FlagEmitted(u)
        \/ \E i \in CallIds : AnswerArrives(u, i)
        \/ \E v \in Users \ {u} :
              \/ HandleSendRequest(u, v) \/ HandleAccept(u, v) \/ HandleReject(u, v)
              \/ HandleCancel(u, v) \/ RequestUnfriend(u, v)

Next ==
    \/ Database \/ Lists \/ Screens
    \/ \E u \in Users : \E v \in Users \ {u} : CallsApi(u, v)

Spec == Init /\ [][Next]_vars

-----------------------------------------------------------------------------
\* The values the variables take.
TypeOK ==
    /\ friendship \in [Pairs -> RowRecords]
    /\ \A i \in CallIds : calls[i].at = "free" \/ calls[i] \in CallRecords
    /\ asked \in [Pairs -> SUBSET Users] /\ overtaken \subseteq Pairs
    /\ \A u \in Viewers :
          /\ screen[u].at \in {"none", "friends", "notifications"}
          /\ \A l \in DOMAIN screen[u].lists : screen[u].lists[l] \subseteq Users \ {u}
          /\ screen[u].pair \in Pairs \cup {{}}
          /\ flags[u] \in [1 .. Len(flags[u]) -> {"unread", "read"}]

\* docs/erd-api.md, the policies of friendships: the application keeps an account
\* from accepting its own request.  It does not: an acceptance that has read the
\* other's request updates whatever row the pair has by then.
AcceptedByBoth == \A p \in Pairs : friendship[p].status = "accepted" => asked[p] = p

\* docs/spec.md: collections are seen after mutual approval only.  Whatever the
\* transactions of the two do in between, no pair is friends before both of them
\* asked for it since the pair was last without a row, in a request or an accept.
\* In one case the code lets it happen, and this property leaves it out: the author
\* of the row had read an earlier row, of the other's, when its acceptance was
\* overtaken by a withdrawal of that row and by its own request.
FriendshipIsMutual ==
    \A p \in Pairs \ overtaken : friendship[p].status = "accepted" => asked[p] = p

\* The strengthening that a step preserves: the author of a row asked for the friendship,
\* nobody else than the two did, nobody did while there is no row, and an acceptance
\* about to be written is of the other's request, unless it was overtaken.
AskedBy(p) == asked[p] \subseteq p /\ (friendship[p] = NoRow => asked[p] = {})
RowIsAsked(p) == friendship[p] # NoRow => friendship[p].by \in asked[p]
AcceptsAnother(i) ==
    (/\ calls[i].op = "accept" /\ calls[i].at = "write"
     /\ calls[i].pair \notin overtaken /\ RowOf(i) # NoRow) => RowOf(i).by # calls[i].user
FriendshipInvariant ==
    /\ \A p \in Pairs : AskedBy(p) /\ RowIsAsked(p)
    /\ \A i \in CallIds : AcceptsAnother(i)
    /\ FriendshipIsMutual

Runs(i, p) == calls[i].pair = p /\ calls'[i] # calls[i]

\* A friendship ends by an unfriending only: a withdrawal or a rejection that
\* races with the acceptance does not end it.
UnfriendingEnds ==
    \A p \in Pairs : (friendship[p].status = "accepted" /\ friendship'[p] = NoRow) =>
        \E i \in CallIds : Runs(i, p) /\ calls[i].op = "remove"
OnlyUnfriendingEnds == [][UnfriendingEnds]_vars

\* A flag is read only after a notifications screen has shown it: one that
\* arrives between the load and the mark stays unread.
ReadWasShown ==
    \A u \in Viewers : \A f \in DOMAIN flags[u] : flags[u][f] = "read" => f \in shown[u]
=============================================================================
