------------------------------- MODULE MCWeb -------------------------------
(***************************************************************************)
(* Small instances of the modules of apps/web and of the budget notifier,  *)
(* checked in one run: a behaviour is one of a single part, chosen at the  *)
(* start.  The variables of the other parts are 0 throughout.              *)
(***************************************************************************)
EXTENDS Integers, Sequences, FiniteSets

CONSTANTS
    Users, Viewers, MaxCalls, MaxFlags, FlagLimit,                  \* Friends, Session
    LibraryUsers, LibraryPlaces, LibraryWatchers, LibraryStart,     \* Library
    LibraryCollections, LibrarySpots, LibraryTx,
    SaveUsers, SavePlaces, SaveWatchers, SaveStart, SaveViewer, Saveable,   \* SaveSpot
    SaveCollections, SaveSpots, SaveTx,
    ShareUsers, SharePlaces, ShareWatchers, ShareStart, ShareViewer, ShareOwner, \* SharePages
    ShareCollections, ShareSpots, ShareTx,
    Others,                                                         \* FeedCard
    Pins,                                                           \* MapView
    Ids, OtherKeys, Hooks, TTL, MaxEntries, Lag,                    \* Places
    Queries, People, NoText, MaxAsked,                              \* FriendSearch
    SpotPhotos, PlaceURLs, NoPhoto, Numbers,                       \* PhotoImage
    Messages, Instances, Periods, Thresholds, Said                  \* BudgetNotifier

VARIABLES
    part,
    friendship, calls, asked, overtaken, screen, unread, shown,     \* Friends
    friends, met, collection, spot, liked, flags, tx,               \* Library
    host, button, picker, snapshot, last, flights, disturbed,       \* SaveSpot
    post, circle, daily, readAt, home, fetches, steady, overlapped, \* HomeScreen
    sheet, reduced, mobile, heart, touch, likes, call, deceived,    \* FeedCard, Sheet
    profile,                                                        \* MyPage
    account, given, session, user, badges, stored, strayed,         \* Session
    page, inner, gate, seen,                                        \* SharePages
    store, inflight, cache, fetching, hooks,                        \* Places
    board, spots, located, script, map, failure, position,          \* MapView
    body, buffer, drained,                                          \* JsonStream
    visible, kept, turn,                                            \* AgentReply
    named, search, requests, current,                               \* FriendSearch
    thumb, image, running, made, alive, painted,                    \* PhotoImage
    acked, object, request, posts, irregular,                       \* BudgetNotifier
    loads, route, me, view, asks, counted, crossed                  \* several of them

friendsVars == <<friendship, calls, asked, overtaken, screen, unread, shown>>
libraryVars == <<friends, met, collection, spot, liked, flags, tx>>
saveVars == <<host, button, picker, snapshot, last, flights, disturbed>>
homeVars == <<post, circle, daily, readAt, home, fetches, steady, overlapped>>
cardVars == <<sheet, reduced, mobile, heart, touch, likes, call, deceived>>
sessionVars == <<account, given, session, user, badges, stored, strayed>>
shareVars == <<page, inner, gate, seen>>
placesVars == <<store, inflight, cache, fetching, hooks>>
mapVars == <<board, spots, located, script, map, failure, position>>
streamVars == <<body, buffer, drained>>
replyVars == <<visible, kept, turn>>
searchVars == <<named, search, requests, current>>
photoVars == <<thumb, image, running, made, alive, painted>>
budgetVars == <<acked, object, request, posts, irregular>>
viewVars == <<view, asks>>
changeVars == <<counted, crossed>>
webVars == <<part, friendsVars, libraryVars, saveVars, homeVars, cardVars, profile,
             sessionVars, shareVars, placesVars, mapVars, streamVars, replyVars, searchVars,
             photoVars, budgetVars, loads, route, me, viewVars, changeVars>>

\* The parts whose module has the variables.
OfLibrary == {"library", "save", "screen", "mypage", "share"}
OfLoads == {"friends", "share"}
OfRoute == {"screen", "share"}
OfView == {"screen", "mypage", "session"}
OfChange == {"screen", "mypage"}
OfMe == {"mypage", "session", "share"}

(***************************************************************************)
(* The tables a part starts with.                                          *)
(***************************************************************************)
Nobody == "nobody"
Owned(u, order) == [owner |-> u, visibility |-> "friends", order |-> order]
NoCollection == [owner |-> Nobody, visibility |-> "unused", order |-> 0]
By(u, c) == [by |-> u, col |-> c, place |-> "p", source |-> 0, origin |-> Nobody, depth |-> 0]
NoSpot == [by |-> Nobody, col |-> 0, place |-> "unused", source |-> 0, origin |-> Nobody,
           depth |-> 0]
CopyBy(u, c, s, origin) == [By(u, c) EXCEPT !.source = s, !.origin = origin, !.depth = 1]

\* b is a friend of a and of c, who are not friends, and saved a's spot.
Chain ==
    [friends |-> {{"a", "b"}, {"b", "c"}},
     collection |-> <<Owned("a", 0), Owned("b", 0), Owned("c", 0), NoCollection>>,
     spot |-> <<By("a", 1), CopyBy("b", 2, 1, "a"), NoSpot, NoSpot>>]

\* v sees two spots of a friend.
TwoOfAFriend ==
    [friends |-> {{"v", "f"}},
     collection |-> <<Owned("f", 0), Owned("v", 0), NoCollection>>,
     spot |-> <<By("f", 1), By("f", 1), NoSpot, NoSpot>>]

\* o has two collections and one spot.
TwoCollections ==
    [friends |-> {}, collection |-> <<Owned("o", 0), Owned("o", 1)>>,
     spot |-> <<By("o", 1), NoSpot>>]

\* o has two collections, and there may be a third.
TwoOfThree ==
    [friends |-> {}, collection |-> <<Owned("o", 0), Owned("o", 1), NoCollection>>,
     spot |-> <<NoSpot>>]

\* f, who is not a friend of v, has a collection with a spot, and v has one.
OfAStranger ==
    [friends |-> {}, collection |-> <<Owned("f", 0), Owned("v", 0)>>, spot |-> <<By("f", 1)>>]

\* Three spots, one of them the viewer's.
Posted(u, again) == [by |-> u, again |-> again, gone |-> FALSE]
Feed == <<Posted("f", TRUE), Posted("me", TRUE), Posted("f", FALSE)>>

\* What the server keeps of a place besides its details.
Photos == {[kind |-> "photos", id |-> "p"]}

\* What Cloud Billing publishes of a budget in a period: actual costs, a forecast, a test.
State(actual, forecast, test) ==
    [period |-> "p", actual |-> actual, forecast |-> forecast, test |-> test]
Published ==
    <<State(1, 0, FALSE), State(2, 0, FALSE), State(1, 1, FALSE), State(0, 0, FALSE),
      State(0, 0, TRUE)>>

-----------------------------------------------------------------------------
F == INSTANCE Friends WITH flags <- unread

L == INSTANCE Library WITH
    Users <- LibraryUsers, Places <- LibraryPlaces, Watchers <- LibraryWatchers,
    Start <- LibraryStart, MaxCollections <- LibraryCollections, MaxSpots <- LibrarySpots,
    MaxTx <- LibraryTx

S == INSTANCE SaveSpot WITH
    Users <- SaveUsers, Places <- SavePlaces, Watchers <- SaveWatchers, Start <- SaveStart,
    Viewer <- SaveViewer, MaxCollections <- SaveCollections, MaxSpots <- SaveSpots,
    MaxTx <- SaveTx

H == INSTANCE HomeScreen WITH
    Viewer <- "me", Others <- {"f"}, Begin <- Feed, PageSize <- 1,
    MaxRingBackfillPages <- 1, MaxPosts <- 4

FC == INSTANCE FeedCard

CS == INSTANCE CollectionScreen WITH
    Users <- {"o"}, Places <- {"p"}, Watchers <- {"o"}, Start <- TwoCollections,
    Owner <- "o", MaxCollections <- 2, MaxSpots <- 2, MaxTx <- 2

PG == INSTANCE MyPage WITH
    Users <- {"o"}, Places <- {"p"}, Watchers <- {}, Start <- TwoOfThree,
    Owner <- "o", Pictures <- {"x"}, MaxCollections <- 3, MaxSpots <- 1, MaxTx <- 2

SE == INSTANCE Session WITH Nobody <- Nobody, Pending <- "pending"

SH == INSTANCE SharePages WITH
    Users <- ShareUsers, Places <- SharePlaces, Watchers <- ShareWatchers, Start <- ShareStart,
    Viewer <- ShareViewer, Owner <- ShareOwner, MaxCollections <- ShareCollections,
    MaxSpots <- ShareSpots, MaxTx <- ShareTx

PL == INSTANCE Places

MV == INSTANCE MapView WITH Spots <- Pins

JS == INSTANCE JsonStream WITH MaxChars <- 6, MaxChunk <- 2

AR == INSTANCE AgentReply WITH
    Spots <- {"s", "d"}, DemoSpots <- {"d"}, Invented <- "x", DemoMode <- TRUE,
    MaxCandidates <- 2, MaxLines <- 3

FS == INSTANCE FriendSearch

PI == INSTANCE PhotoImage WITH None <- NoPhoto

BN == INSTANCE BudgetNotifier

\* What the modules assume of their constants.
ASSUME WebAssumption ==
    /\ F!FriendsConstants /\ L!LibraryConstants /\ S!SaveConstants /\ SH!LibraryConstants
    /\ SE!SessionConstants /\ PL!PlacesConstants /\ FC!CardConstants
    /\ FS!SearchConstants /\ PI!PhotoConstants /\ BN!BudgetConstants

\* The variables of the other parts are 0.
Idle ==
    /\ IF part = "friends" THEN TRUE
       ELSE /\ friendship = 0 /\ calls = 0 /\ asked = 0 /\ overtaken = 0
            /\ screen = 0 /\ unread = 0 /\ shown = 0
    /\ IF part \in OfLibrary THEN TRUE
       ELSE /\ friends = 0 /\ met = 0 /\ collection = 0 /\ spot = 0 /\ liked = 0
            /\ flags = 0 /\ tx = 0
    /\ IF part = "save" THEN TRUE
       ELSE /\ host = 0 /\ button = 0 /\ picker = 0 /\ snapshot = 0 /\ last = 0
            /\ flights = 0 /\ disturbed = 0
    /\ IF part = "home" THEN TRUE
       ELSE /\ post = 0 /\ circle = 0 /\ daily = 0 /\ readAt = 0 /\ home = 0
            /\ fetches = 0 /\ steady = 0 /\ overlapped = 0
    /\ IF part = "card" THEN TRUE
       ELSE /\ sheet = 0 /\ reduced = 0 /\ mobile = 0 /\ heart = 0 /\ touch = 0
            /\ likes = 0 /\ call = 0 /\ deceived = 0
    /\ IF part = "session" THEN TRUE
       ELSE /\ account = 0 /\ given = 0 /\ session = 0 /\ user = 0 /\ badges = 0
            /\ stored = 0 /\ strayed = 0
    /\ IF part = "share" THEN TRUE ELSE page = 0 /\ inner = 0 /\ gate = 0 /\ seen = 0
    /\ IF part = "places" THEN TRUE
       ELSE store = 0 /\ inflight = 0 /\ cache = 0 /\ fetching = 0 /\ hooks = 0
    /\ IF part = "map" THEN TRUE
       ELSE /\ board = 0 /\ spots = 0 /\ located = 0 /\ script = 0 /\ map = 0
            /\ failure = 0 /\ position = 0
    /\ IF part = "stream" THEN TRUE ELSE body = 0 /\ buffer = 0 /\ drained = 0
    /\ IF part = "reply" THEN TRUE
       ELSE visible = 0 /\ kept = 0 /\ turn = 0
    /\ IF part = "search" THEN TRUE
       ELSE named = 0 /\ search = 0 /\ requests = 0 /\ current = 0
    /\ IF part = "photo" THEN TRUE
       ELSE /\ thumb = 0 /\ image = 0 /\ running = 0 /\ made = 0 /\ alive = 0 /\ painted = 0
    /\ IF part = "budget" THEN TRUE
       ELSE acked = 0 /\ object = 0 /\ request = 0 /\ posts = 0 /\ irregular = 0
    /\ IF part \in OfLoads THEN TRUE ELSE loads = 0
    /\ IF part \in OfRoute THEN TRUE ELSE route = 0
    /\ IF part \in OfView THEN TRUE ELSE view = 0 /\ asks = 0
    /\ IF part \in OfChange THEN TRUE ELSE counted = 0 /\ crossed = 0
    /\ IF part \in OfMe THEN TRUE ELSE me = 0
    /\ IF part = "mypage" THEN TRUE ELSE profile = 0

Init ==
    /\ \/ part = "friends" /\ F!Init
       \/ part = "library" /\ L!LibraryInit
       \/ part = "save" /\ S!Init
       \/ part = "home" /\ H!Init
       \/ part = "card" /\ FC!Init
       \/ part = "screen" /\ CS!Init
       \/ part = "mypage" /\ PG!Init
       \/ part = "session" /\ SE!Init
       \/ part = "share" /\ SH!Init
       \/ part = "places" /\ PL!Init
       \/ part = "map" /\ MV!Init
       \/ part = "stream" /\ JS!Init
       \/ part = "reply" /\ AR!Init
       \/ part = "search" /\ FS!Init
       \/ part = "photo" /\ PI!Init
       \/ part = "budget" /\ BN!Init
    /\ Idle

\* One disjunct per part.
Next ==
    /\ UNCHANGED part
    /\ IF part = "friends" THEN TRUE ELSE UNCHANGED friendsVars
    /\ IF part \in OfLibrary THEN TRUE ELSE UNCHANGED libraryVars
    /\ IF part = "save" THEN TRUE ELSE UNCHANGED saveVars
    /\ IF part = "home" THEN TRUE ELSE UNCHANGED homeVars
    /\ IF part = "card" THEN TRUE ELSE UNCHANGED cardVars
    /\ IF part = "session" THEN TRUE ELSE UNCHANGED sessionVars
    /\ IF part = "share" THEN TRUE ELSE UNCHANGED shareVars
    /\ IF part = "places" THEN TRUE ELSE UNCHANGED placesVars
    /\ IF part = "map" THEN TRUE ELSE UNCHANGED mapVars
    /\ IF part = "stream" THEN TRUE ELSE UNCHANGED streamVars
    /\ IF part = "reply" THEN TRUE ELSE UNCHANGED replyVars
    /\ IF part = "search" THEN TRUE ELSE UNCHANGED searchVars
    /\ IF part = "photo" THEN TRUE ELSE UNCHANGED photoVars
    /\ IF part = "budget" THEN TRUE ELSE UNCHANGED budgetVars
    /\ IF part \in OfLoads THEN TRUE ELSE UNCHANGED loads
    /\ IF part \in OfRoute THEN TRUE ELSE UNCHANGED route
    /\ IF part \in OfView THEN TRUE ELSE UNCHANGED viewVars
    /\ IF part \in OfChange THEN TRUE ELSE UNCHANGED changeVars
    /\ IF part \in OfMe THEN TRUE ELSE UNCHANGED me
    /\ IF part = "mypage" THEN TRUE ELSE UNCHANGED profile
    /\ \/ part = "friends" /\ F!Next
       \/ part = "library" /\ L!LibraryNext
       \/ part = "save" /\ S!Next
       \/ part = "home" /\ H!Next
       \/ part = "card" /\ FC!Next
       \/ part = "screen" /\ CS!Next
       \/ part = "mypage" /\ PG!Next
       \/ part = "session" /\ SE!Next
       \/ part = "share" /\ SH!Next
       \/ part = "places" /\ PL!Next
       \/ part = "map" /\ MV!Next
       \/ part = "stream" /\ JS!Next
       \/ part = "reply" /\ AR!Next
       \/ part = "search" /\ FS!Next
       \/ part = "photo" /\ PI!Next
       \/ part = "budget" /\ BN!Next

Spec == Init /\ [][Next]_webVars

\* Home: what happens besides loads, at most one thing at a time.
Count(b) == IF b THEN 1 ELSE 0
Changed == Count(Len(post) > 3) + Cardinality({p \in H!PostIds : post[p].gone}) + Count(circle = {})
Touched ==
    Count(home.filter # H!None) + Count(home.mode = "map") + Count(home.pull = "short") +
    Count(home.row = H!Failed) + Count(fetches["row"] # {}) + Count(daily # 0)

\* Friends: the API calls under way.
CallsUnderWay == Cardinality({i \in F!CallIds : calls[i] # F!NoCall})

\* My page: whether a picture is concerned.
Pictured ==
    \/ profile.elsewhere \/ view.sheet \/ view.uploads # {}
    \/ profile.picture # PG!NoPicture

\* Bounds: of friends two loads at a time, then no call, and otherwise two calls, one while
\* a list is loaded, on the notifications or once a flag has arrived; one friendship
\* at a time that is not as at the start, and then one transaction under way; two requests of a save button or of a
\* screen at a time, up to the first that overlaps another or loses its answer (their
\* properties say no more from there); a shared page whose content changes once while it is
\* open, by its owner or by its circle; of the answers a load of the home screen reads
\* in any order, the friends before the rest; replies of the agent of more than one line
\* to the first question, one spot seen, the persona's of one line unless it is all; three
\* posts about a budget.
Bounded ==
    /\ part = "friends" =>
          /\ Cardinality(loads) <= 2 /\ (Cardinality(loads) = 2 => CallsUnderWay = 0)
          /\ loads # {} \/ unread["a"] # <<>> => CallsUnderWay <= 1
          /\ screen["a"].at = "notifications" => CallsUnderWay <= 1
          /\ screen["a"].failed => CallsUnderWay = 0
          /\ unread["a"] # <<>> /\ screen["a"].at = "friends" => CallsUnderWay = 0
    /\ part = "library" =>
          \/ friends = LibraryStart.friends
          \/ /\ Cardinality((friends \cup LibraryStart.friends) \
                             (friends \cap LibraryStart.friends)) = 1
             /\ Cardinality({i \in {1, 2} : tx[i].at \notin {"free", "over"}}) <= 1
    /\ part = "save" => Cardinality(flights) <= 2 /\ ~disturbed
    /\ part = "home" =>
          /\ Changed + Touched <= 1 /\ ~overlapped
          /\ home.failed \/ readAt > 0 => Changed + Touched = 0
          /\ \A k \in {"load", "refresh"} : \A f \in fetches[k] :
                /\ f.pages > 0 \/ f.row # H!Pending => f.listed
                /\ f.row # H!Pending => f.pages > 0
    /\ part = "screen" => ~crossed /\ Cardinality(asks) <= 2
    /\ part = "mypage" =>
          /\ ~crossed /\ Cardinality(asks) <= 2
          /\ Cardinality({a \in asks : a.kind = "me"}) <= 1
          /\ Pictured => tx[1].at = "free"
          /\ profile.elsewhere => view.uploads = {}
          /\ me.at = "failed" => tx[1].at = "free" /\ ~Pictured
    /\ part = "session" => Cardinality(asks) <= (IF strayed THEN 1 ELSE 3)
    /\ part = "share" =>
          /\ Cardinality(loads) <= 2 /\ Cardinality(seen) <= 2
          /\ tx[1].op \in {"", "update_collection", "delete_collection", "delete_spot"}
          /\ liked = {} /\ (tx[1].at = "free" \/ met = {})
          /\ gate # "offered" => tx[1].at = "free"
          /\ (\A l \in loads : l.own) \/ (tx[1].at = "free" /\ gate = "offered")
    /\ part = "reply" =>
          \/ Len(turn.orchestrator) + Len(turn.persona) <= 1
          \/ /\ visible = {"s"} /\ kept = AR!None
             /\ turn.asks \in {"", "anything"}
             /\ turn.orchestrator # <<>> => Len(turn.persona) <= 1
    /\ part = "budget" => Len(posts) <= 3

-----------------------------------------------------------------------------
\* The values the variables of each module take.
WebTypeOK ==
    /\ part = "friends" => F!TypeOK
    /\ part = "library" => L!LibraryTypeOK
    /\ part = "save" => S!TypeOK
    /\ part = "home" => H!TypeOK
    /\ part = "card" => FC!TypeOK
    /\ part = "screen" => CS!TypeOK
    /\ part = "mypage" => PG!TypeOK
    /\ part = "session" => SE!TypeOK
    /\ part = "share" => SH!TypeOK
    /\ part = "places" => PL!TypeOK
    /\ part = "map" => MV!TypeOK
    /\ part = "stream" => JS!TypeOK
    /\ part = "reply" => AR!TypeOK
    /\ part = "search" => FS!TypeOK
    /\ part = "photo" => PI!TypeOK
    /\ part = "budget" => BN!TypeOK

\* Friends: no pair is friends before both of them asked for it since it was last without
\* a row, except where an acceptance was overtaken (with the strengthening that
\* WebPartsProofs preserves).
FriendshipIsMutual ==
    part = "friends" => F!FriendshipIsMutual /\ F!FriendshipInvariant

\* Friends: a friendship ends by an unfriending only.
OnlyUnfriendingEnds == [][part = "friends" => F!UnfriendingEnds]_webVars

\* Friends: a flag is read only after a notifications screen has shown it.
ReadWasShown == part = "friends" => F!ReadWasShown

\* Library: whatever is deleted meanwhile, spots, copies and likes hold together,
\* and a flag names nobody who was never a friend.
LibraryHolds == part = "library" => L!LibraryHolds

\* What a user is shown, in every other part.  SaveSpot: what the save button shows as
\* saved is saved, once.  HomeScreen, FeedCard, Sheet: the feed has no gaps and tells who
\* has news, its cards show the viewer's like, and their sheet can always be dismissed and
\* opened again.  CollectionScreen, MyPage: what a screen shows at rest is what there is.
\* Session: no page is a dead end, and a user sees and leaves their own data only.
\* SharePages: a shared page shows what was due on it since it was opened.  Places,
\* MapView: nobody is told what Google said too long ago, and a map that fails says so.
\* JsonStream, AgentReply: a bubble of the agent has all that was streamed for the user,
\* nothing that was not, and shops of the database only.  FriendSearch, PhotoImage: users
\* and photos are those of what was asked for last, and a spinner ends.
ScreensAreTrue ==
    /\ part = "save" => S!SavedIsTrue
    /\ part = "home" => H!FeedIsGapless
    /\ part = "card" => FC!HeartIsTrue /\ FC!SheetIsFree
    /\ part = "screen" => CS!ScreenIsTrue
    /\ part = "mypage" => PG!PageIsTrue
    /\ part = "session" => SE!NeverStuck /\ SE!OnlyTheirOwn
    /\ part = "share" => SH!ShownWasDue
    /\ part = "places" => PL!PlacesAreFresh
    /\ part = "map" => MV!MapIsHonest
    /\ part = "stream" => JS!CutsDoNotMatter
    /\ part = "reply" => AR!TalkStaysInside /\ AR!CardsAreReal /\ AR!ClaimsAreBacked
    /\ part = "search" => FS!SearchIsTrue
    /\ part = "photo" => PI!PhotoIsTrue

\* BudgetNotifier: a message that was answered without an error was posted, or what it
\* says had been told, and nothing is told twice unless requests overlap or a record is lost.
BudgetIsTold == part = "budget" => BN!BudgetIsTold
=============================================================================
