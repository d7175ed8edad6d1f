----------------------------- MODULE HomeScreen -----------------------------
(***************************************************************************)
(* The home screen of apps/web (components/home/home-view) over the feed   *)
(* of lib/dal/feed and the daily recommendation: the first load with the   *)
(* extra pages for the unread rings, pull to refresh, more pages, retries, *)
(* the filter by friend, and the mark that is left when the screen goes.   *)
(*                                                                         *)
(* One viewer.  A spot is named by its place in the order of creation,     *)
(* which is its creation time too: no two have the same millisecond, the   *)
(* precision of a cursor.  A time is the number of spots created by then.  *)
(***************************************************************************)
EXTENDS Integers, Sequences, FiniteSets, SequencesExt

CONSTANTS
    Viewer, Others,
    Begin,                   \* the spots there are at the start
    PageSize,                \* FEED_PAGE_SIZE
    MaxRingBackfillPages,
    MaxPosts                 \* bound: spots of a behaviour

VARIABLES
    post,       \* the spots, in the order of creation
    circle,     \* the viewer's friends
    daily,      \* the spot of the viewer's newest daily recommendation, or 0
    readAt,     \* mogu:lastReadFeedAt in localStorage, or Never
    home,       \* state of HomeView and of its PullToRefresh
    fetches,    \* what it awaits: a first load, a refresh, more, a recommendation
    steady,     \* spots that were in the feed ever since its first page was read
    overlapped  \* a refresh and more were awaited at once

worldVars == <<post, circle, daily>>
viewVars == <<readAt, home, fetches, steady, overlapped>>
vars == <<worldVars, viewVars>>

Never == -1
None == "none"
Pending == -2
Failed == -1
Spot(u, again) == [by |-> u, again |-> again, gone |-> FALSE]
PostIds == DOMAIN post

-----------------------------------------------------------------------------
\* Row-level security: the viewer's own spots and those of friends.
Visible(p) == ~post[p].gone /\ post[p].by \in circle \cup {Viewer}

\* The viewer's own spots are in the feed of a viewer without friends only.
InFeed(p) == Visible(p) /\ (circle # {} => post[p].by # Viewer)
Listed == {p \in PostIds : InFeed(p)}

Descending(S) == SetToSortSeq(S, >)
Newest(S) == IF S = {} THEN 0 ELSE Max(S)

\* A page: one row more than it holds tells whether there are others.
Rows(cursor) ==
    LET below == {p \in Listed : cursor = 0 \/ p < cursor}
    IN  SubSeq(Descending(below), 1, Min({PageSize + 1, Cardinality(below)}))
PageOf(rows) == SubSeq(rows, 1, Min({PageSize, Len(rows)}))

NextCursor(rows) == IF Len(rows) > PageSize THEN rows[PageSize] ELSE 0

\* The daily pick: a preferred friend's newest spot rated "again", another's, one
\* of the viewer's, any; with an anchor that one or none.
Again(S) == {p \in PostIds : Visible(p) /\ post[p].again /\ post[p].by \in S}
PickDaily(preferred, anchor) ==
    LET prefers == {u \in preferred : Again({u}) # {}}
        rest == Again(Others \ preferred)
    IN  IF anchor # 0 THEN IF Visible(anchor) THEN anchor ELSE 0
        ELSE IF prefers # {} THEN Newest(Again({CHOOSE u \in prefers : TRUE}))
        ELSE IF rest # {} THEN Newest(rest)
        ELSE IF Again({Viewer}) # {} THEN Newest(Again({Viewer}))
        ELSE Newest({p \in PostIds : Visible(p)})

\* GET /home/recommendation: none if its spot is no longer visible.
Recommendation == IF daily # 0 /\ Visible(daily) THEN daily ELSE 0

-----------------------------------------------------------------------------
Closed ==
    [open |-> FALSE, loading |-> TRUE, me |-> Pending, friends |-> {}, items |-> <<>>,
     cursor |-> 0, row |-> Pending, lastRead |-> Never, filter |-> None, mode |-> "list",
     more |-> FALSE, refreshing |-> FALSE, failed |-> FALSE, viewed |-> FALSE,
     opened |-> FALSE, pull |-> "no"]
Fetch(cursor) ==
    [pages |-> 0, items |-> <<>>, cursor |-> cursor, lastRead |-> readAt,
     listed |-> FALSE, friends |-> {}, row |-> Pending, since |-> {}]
Nothing == [k \in {"load", "refresh", "more", "row"} |-> {}]

Init ==
    /\ post = Begin /\ daily = 0
    /\ circle \in {{}, Others}
    /\ readAt \in {Never, 0}
    /\ home = Closed /\ fetches = Nothing
    /\ steady = {} /\ overlapped = FALSE

\* A spot that leaves the feed, whoever caused it, is no longer steady.
Stays ==
    /\ steady' = steady \cap Listed'
    /\ fetches' = [k \in DOMAIN fetches |->
                      {[f EXCEPT !.since = @ \cap Listed'] : f \in fetches[k]}]

CreatePost(u, again) ==
    /\ Len(post) < MaxPosts
    /\ post' = Append(post, Spot(u, again))
    /\ UNCHANGED <<circle, daily, readAt, home, overlapped>> /\ Stays

\* A spot is deleted, or its collection becomes secret.
RemovePost(p) ==
    /\ ~post[p].gone /\ post' = [post EXCEPT ![p].gone = TRUE]
    /\ UNCHANGED <<circle, daily, readAt, home, overlapped>> /\ Stays

CircleChanges(u) ==
    /\ circle' = IF u \in circle THEN circle \ {u} ELSE circle \cup {u}
    /\ UNCHANGED <<post, daily, readAt, home, overlapped>> /\ Stays

\* The batch of 4:00.
GenerateDaily ==
    /\ daily' = PickDaily({}, 0) /\ daily' \notin {0, daily}
    /\ UNCHANGED <<post, circle, viewVars>>

-----------------------------------------------------------------------------
\* The screen opens; the profile, which outlives it, is loaded first.
Open ==
    /\ ~home.open
    /\ home' = [Closed EXCEPT !.open = TRUE, !.me = home.me]
    /\ fetches' = IF home.me = Pending THEN Nothing
                  ELSE [Nothing EXCEPT !["load"] = {Fetch(0)}]
    /\ UNCHANGED <<worldVars, readAt, steady, overlapped>>

\* The profile arrives, or fails (it stays as it was); it is read again after every
\* change of profile, badges or friends.  A first one starts the load.
MeArrives(ok) ==
    /\ home.open
    /\ home' = [home EXCEPT !.me = IF ok THEN Cardinality(circle)
                                   ELSE IF @ = Pending THEN Failed ELSE @]
    /\ home' # home
    /\ fetches' = IF home.me = Pending THEN [fetches EXCEPT !["load"] = {Fetch(0)}]
                  ELSE fetches
    /\ UNCHANGED <<worldVars, readAt, steady, overlapped>>

Updates(k, f, g) == fetches' = [fetches EXCEPT ![k] = (@ \ {f}) \cup {g}]

\* loadFeedForRings goes on while unread spots may be on the next page.
Oldest(items) == items[Len(items)]
Backfills(f) ==
    /\ f.cursor # 0 /\ f.pages <= MaxRingBackfillPages
    /\ f.lastRead # Never /\ Oldest(f.items) > f.lastRead
PagesRead(k, f) == f.pages > 0 /\ (k \in {"load", "refresh"} => ~Backfills(f))

ReadPage(k, f) ==
    /\ k # "row" /\ ~PagesRead(k, f)
    /\ LET rows == Rows(f.cursor)
       IN  Updates(k, f, [f EXCEPT !.pages = @ + 1, !.items = @ \o PageOf(rows),
                              !.cursor = NextCursor(rows),
                              !.since = IF f.pages = 0 THEN Listed ELSE @])
    /\ UNCHANGED <<worldVars, readAt, home, steady, overlapped>>

ReadFriends(k, f) ==
    /\ k \in {"load", "refresh"} /\ ~f.listed
    /\ Updates(k, f, [f EXCEPT !.listed = TRUE, !.friends = circle])
    /\ UNCHANGED <<worldVars, readAt, home, steady, overlapped>>

ReadRecommendation(k, f, ok) ==
    /\ k # "more" /\ f.row = Pending
    /\ Updates(k, f, [f EXCEPT !.row = IF ok THEN Recommendation ELSE Failed])
    /\ UNCHANGED <<worldVars, readAt, home, steady, overlapped>>

Ended(k, f) == fetches' = [fetches EXCEPT ![k] = @ \ {f}]

\* The three answers of a load are shown at once.
ApplyHomeData(k, f) ==
    /\ k \in {"load", "refresh"} /\ PagesRead(k, f) /\ f.listed /\ f.row # Pending
    /\ home' = [home EXCEPT !.friends = f.friends, !.items = f.items, !.cursor = f.cursor,
                   !.row = f.row, !.lastRead = f.lastRead, !.viewed = TRUE,
                   !.loading = IF k = "load" THEN FALSE ELSE @,
                   !.refreshing = IF k = "refresh" THEN FALSE ELSE @]
    /\ steady' = f.since
    /\ Ended(k, f) /\ UNCHANGED <<worldVars, readAt, overlapped>>

\* More is put after what is shown by now.
ApplyMore(k, f) ==
    /\ k = "more" /\ PagesRead(k, f)
    /\ home' = [home EXCEPT !.items = @ \o f.items, !.cursor = f.cursor, !.more = FALSE]
    /\ Ended(k, f) /\ UNCHANGED <<worldVars, readAt, steady, overlapped>>

ApplyRow(k, f) ==
    /\ k = "row" /\ f.row # Pending
    /\ home' = [home EXCEPT !.row = f.row]
    /\ Ended(k, f) /\ UNCHANGED <<worldVars, readAt, steady, overlapped>>

FetchFails(k, f) ==
    /\ k # "row"
    /\ home' = [home EXCEPT !.failed = TRUE,
                   !.loading = IF k = "load" THEN FALSE ELSE @,
                   !.refreshing = IF k = "refresh" THEN FALSE ELSE @,
                   !.more = IF k = "more" THEN FALSE ELSE @]
    /\ Ended(k, f) /\ UNCHANGED <<worldVars, readAt, steady, overlapped>>

-----------------------------------------------------------------------------
\* What the screen shows.
ShownItems == SelectSeq(home.items, LAMBDA p : home.filter \in {None, post[p].by})
Body ==
    IF ~home.open THEN "closed"
    ELSE IF home.loading \/ home.me = Pending THEN "skeleton"
    ELSE IF home.me = Failed THEN "error"
    ELSE IF home.me = 0 /\ home.items = <<>> THEN "solo"
    ELSE IF ShownItems = <<>> THEN "empty" ELSE home.mode
Content == Body \notin {"closed", "skeleton", "error"}

Unread(p) == home.lastRead = Never \/ p > home.lastRead
Rings ==
    {u \in home.friends : \E i \in DOMAIN home.items :
                              post[home.items[i]].by = u /\ Unread(home.items[i])}

\* Pull to refresh: a pull from the top, short or past the threshold.
Disabled == home.loading \/ home.refreshing
TouchStart(atTop) ==
    /\ Content /\ ~Disabled /\ atTop /\ home.pull = "no"
    /\ home' = [home EXCEPT !.pull = "short"]
    /\ UNCHANGED <<worldVars, readAt, fetches, steady, overlapped>>
TouchMove(to) ==
    /\ Content /\ ~Disabled /\ home.pull # "no" /\ to # home.pull
    /\ home' = [home EXCEPT !.pull = to]
    /\ UNCHANGED <<worldVars, readAt, fetches, steady, overlapped>>

HandlePullRefresh ==
    /\ ~home.refreshing
    /\ home' = [home EXCEPT !.refreshing = TRUE, !.failed = FALSE, !.opened = FALSE,
                   !.pull = "no"]
    /\ fetches' = [fetches EXCEPT !["refresh"] = {Fetch(0)}]
    /\ overlapped' = (overlapped \/ home.more)
    /\ UNCHANGED <<worldVars, readAt, steady>>
TouchEnd ==
    /\ Content /\ home.pull # "no"
    /\ IF home.pull = "long" /\ ~Disabled THEN HandlePullRefresh
       ELSE /\ home' = [home EXCEPT !.pull = "no"]
            /\ UNCHANGED <<worldVars, readAt, fetches, steady, overlapped>>

\* "more", and the retry of the line that shows an error, whatever failed.
HandleLoadMore ==
    /\ Body = "list" \/ (Body = "empty" /\ home.mode = "list") \/ (Content /\ home.failed)
    /\ home.cursor # 0 /\ ~home.more
    /\ home' = [home EXCEPT !.more = TRUE, !.failed = FALSE]
    /\ fetches' = [fetches EXCEPT !["more"] = {Fetch(home.cursor)}]
    /\ overlapped' = (overlapped \/ home.refreshing)
    /\ UNCHANGED <<worldVars, readAt, steady>>

HandleRetryRecommendation ==
    /\ Content /\ home.row = Failed /\ fetches["row"] = {}
    /\ home' = [home EXCEPT !.row = Pending, !.opened = FALSE]
    /\ fetches' = [fetches EXCEPT !["row"] = {Fetch(0)}]
    /\ UNCHANGED <<worldVars, readAt, steady, overlapped>>

\* The sheet of the recommendation; "consult" leaves for the agent.
RowShown == Content /\ home.row > 0
OpenRecommendation ==
    /\ RowShown /\ ~home.opened /\ home' = [home EXCEPT !.opened = TRUE]
    /\ UNCHANGED <<worldVars, readAt, fetches, steady, overlapped>>
CloseRecommendation ==
    /\ RowShown /\ home.opened /\ home' = [home EXCEPT !.opened = FALSE]
    /\ UNCHANGED <<worldVars, readAt, fetches, steady, overlapped>>

HandleRetryInitialLoad ==
    /\ Body = "error"
    /\ home' = [home EXCEPT !.loading = TRUE, !.failed = FALSE, !.opened = FALSE,
                   !.pull = "no"]
    /\ fetches' = [fetches EXCEPT !["load"] = {Fetch(0)}]
    /\ UNCHANGED <<worldVars, readAt, steady, overlapped>>

HandleSelectFriend(u) ==
    /\ Content /\ u \in home.friends
    /\ home' = [home EXCEPT !.filter = IF @ = u THEN None ELSE u, !.mode = "list"]
    /\ UNCHANGED <<worldVars, readAt, fetches, steady, overlapped>>

HandleClearFeedFilter ==
    /\ Content /\ home.filter \in home.friends
    /\ home' = [home EXCEPT !.filter = None, !.mode = "list"]
    /\ UNCHANGED <<worldVars, readAt, fetches, steady, overlapped>>

HandleFeedViewModeChange ==
    /\ Body \in {"list", "map"}
    /\ home' = [home EXCEPT !.mode = IF @ = "list" THEN "map" ELSE "list"]
    /\ UNCHANGED <<worldVars, readAt, fetches, steady, overlapped>>

\* The screen goes: the feed, if it was shown unfiltered, counts as read.
Leave ==
    /\ home.open
    /\ readAt' = IF home.viewed /\ home.filter = None THEN Len(post) ELSE readAt
    /\ home' = [Closed EXCEPT !.me = home.me]
    /\ fetches' = Nothing /\ steady' = {} /\ overlapped' = FALSE
    /\ UNCHANGED worldVars

Answers(k, f) ==
    \/ ReadPage(k, f) \/ ReadFriends(k, f) \/ ApplyHomeData(k, f) \/ ApplyMore(k, f)
    \/ ApplyRow(k, f) \/ FetchFails(k, f)
    \/ \E ok \in BOOLEAN : ReadRecommendation(k, f, ok)

Next ==
    \/ \E u \in Others \cup {Viewer}, again \in BOOLEAN : CreatePost(u, again)
    \/ \E p \in PostIds : RemovePost(p)
    \/ \E u \in Others : CircleChanges(u) \/ HandleSelectFriend(u)
    \/ GenerateDaily \/ Open \/ Leave \/ HandleLoadMore \/ HandleRetryRecommendation
    \/ OpenRecommendation \/ CloseRecommendation
    \/ HandleRetryInitialLoad \/ HandleClearFeedFilter \/ HandleFeedViewModeChange
    \/ \E b \in BOOLEAN : MeArrives(b) \/ TouchStart(b)
    \/ \E to \in {"no", "short", "long"} : TouchMove(to)
    \/ TouchEnd
    \/ \E k \in DOMAIN fetches : \E f \in fetches[k] : Answers(k, f)

Spec == Init /\ [][Next]_vars

-----------------------------------------------------------------------------
\* The values the variables take.
TypeOK ==
    /\ circle \subseteq Others /\ daily \in {0} \cup PostIds
    /\ readAt \in {Never} \cup (0 .. Len(post))
    /\ Range(home.items) \subseteq PostIds /\ steady \subseteq PostIds
    /\ \A k \in DOMAIN fetches : Cardinality(fetches[k]) <= 1

\* #54: unless a refresh overlapped more, the feed shows its spots once, newest
\* first, and every spot that stayed in it since its first page was read, down to the
\* last one shown; a friend with such a spot that is unread has a ring, unless it
\* lies beyond the extra pages.
FeedIsGapless ==
    LET items == home.items
        Reaches(p) == home.cursor = 0 \/ p >= home.cursor
        deep == Len(items) >= PageSize * (1 + MaxRingBackfillPages)
    IN  ~overlapped =>
        /\ \A i, j \in DOMAIN items : i < j => items[i] > items[j]
        /\ \A p \in steady : Reaches(p) => p \in Range(items)
        /\ (home.viewed /\ home.lastRead # Never /\ ~deep) =>
              \A p \in steady :
                  Unread(p) /\ post[p].by \in home.friends => post[p].by \in Rings
=============================================================================
