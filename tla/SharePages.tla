----------------------------- MODULE SharePages -----------------------------
(***************************************************************************)
(* The pages of apps/web that a shared link leads to: a collection, a      *)
(* spot, an account's profile and one of its collections.  Each shows its  *)
(* content to those who may see it, a gate that offers a friend request to *)
(* those whom only a missing friendship keeps out, and an error otherwise; *)
(* each decides that with several requests, one after the other, while     *)
(* friendships and visibility change (Library).                            *)
(***************************************************************************)
EXTENDS Library

CONSTANTS Viewer, Owner     \* who browses, whose links they are

VARIABLES
    route,     \* the page: its kind and the id in its path
    me,        \* the profile of MeProvider: pending, ok or failed
    page,      \* what the page knows
    inner,     \* FriendCollectionDetailView inside a collection's page
    loads,     \* loads under way
    gate,      \* the button of FriendAccessGate
    seen       \* what the answer has been since the page was entered

shareVars == <<route, me, page, inner, loads, gate, seen>>
vars == <<libraryVars, shareVars>>

Routes ==
    [kind : {"collection"}, id : Collections] \cup [kind : {"spot"}, id : Spots] \cup
    [kind : {"user"}, id : {Owner}]

\* What the viewer is to be shown.
Access(sees, gated) == IF sees THEN "detail" ELSE IF gated THEN "gate" ELSE "missing"
Truth(r) ==
    CASE r.kind = "spot" -> Access(SpotDetail(Viewer, r.id), SpotGate(Viewer, r.id))
      [] r.kind = "user" -> Access(Profile(Viewer, r.id), UserGate(Viewer, r.id))
      [] OTHER -> IF CollectionVisible(Viewer, r.id) /\ collection[r.id].owner = Viewer
                  THEN "owner" ELSE Access(CollectionVisible(Viewer, r.id), CollectionGate(Viewer, r.id))

Blank == [loading |-> TRUE, is |-> "none"]
Absent == [loading |-> FALSE, is |-> "absent"]

\* (own: its effect was not cleaned up since.)
Load(of, r) == [of |-> of, route |-> r, own |-> TRUE, at |-> "detail", is |-> "none"]

Heard(l) == l.own
Cancel(of) == {[l EXCEPT !.own = @ /\ l.of \notin of] : l \in loads}

\* A collection and a spot wait for the profile.
WaitsForMe(r) == r.kind \in {"collection", "spot"}

Entered(r) ==
    /\ route' = r /\ gate' = "offered"
    /\ page' = Blank /\ inner' = Absent
    /\ seen' = {Truth(r)}

Init ==
    /\ LibraryInit
    /\ me = "pending"
    /\ route \in {r \in Routes : r.kind = "user"}
    /\ page = Blank /\ inner = Absent /\ gate = "offered"
    /\ loads = {Load("page", route)} /\ seen = {Truth(route)}

-----------------------------------------------------------------------------
\* The server: a 404 answer to the first request is followed by one for the gate, a
\* profile by the list of its collections.
Goes(l, at, is) ==
    /\ loads' = (loads \ {l}) \cup {[l EXCEPT !.at = at, !.is = is]}
    /\ UNCHANGED <<libraryVars, route, me, page, inner, gate, seen>>
Sees(r) == Truth(r) \in {"detail", "owner"}
Asked(l, of, kind) == l.at = "detail" /\ l.of = of /\ l.route.kind = kind
OrGate(l, at) == IF Sees(l.route) THEN Goes(l, at, Truth(l.route)) ELSE Goes(l, "gate", "none")

LoadCollectionPage(l) == Asked(l, "page", "collection") /\ OrGate(l, "answered")
LoadSpotPage(l) == Asked(l, "page", "spot") /\ OrGate(l, "answered")
FetchFriendProfile(l) == Asked(l, "page", "user") /\ OrGate(l, "list")
ListFriendCollections(l) == l.at = "list" /\ Goes(l, "answered", l.is)

\* (FriendCollectionDetailView shows a collection of its owner only.)
GetCollectionDetail(l) ==
    /\ Asked(l, "inner", "collection")
    /\ Goes(l, "answered", IF Sees(l.route) /\ collection[l.route.id].owner = Owner
                           THEN "detail" ELSE "error")

Gate(l, kind, gated) ==
    l.at = "gate" /\ l.route.kind = kind /\ Goes(l, "answered", IF gated THEN "gate" ELSE "missing")
GetCollectionGate(l) == Gate(l, "collection", CollectionGate(Viewer, l.route.id))
GetSpotGate(l) == Gate(l, "spot", SpotGate(Viewer, l.route.id))
GetUserGate(l) == Gate(l, "user", UserGate(Viewer, l.route.id))

\* Friendships, visibility and what is shared change meanwhile.
Changes ==
    /\ LibraryNext
    /\ UNCHANGED <<route, me, page, inner, loads, gate>>
    /\ seen' = seen \cup {Truth(route)'}

-----------------------------------------------------------------------------
\* CollectionPageView: the owner's screen (CollectionScreen), a friend's view or a gate;
\* all but the gate need the profile.
CollectionPageLoads(l) ==
    /\ l.of = "page" /\ l.route.kind = "collection"
    /\ page' = [loading |-> FALSE,
                is |-> IF l.is = "gate" THEN "gate"
                       ELSE IF me # "ok" THEN (IF page.is = "none" THEN "error" ELSE page.is)
                       ELSE l.is]
    /\ inner' = IF page'.is # "detail" THEN Absent
                ELSE IF page.is = "detail" THEN inner ELSE Blank
    /\ loads' = IF page'.is # "detail" THEN Cancel({"inner"}) \ {l}
                ELSE IF page.is = "detail" THEN loads \ {l}
                ELSE (loads \ {l}) \cup {Load("inner", route)}

PageLoads(l, kind) ==
    /\ l.of = "page" /\ l.route.kind = kind
    /\ page' = [loading |-> FALSE, is |-> l.is]
    /\ loads' = loads \ {l} /\ UNCHANGED inner
SpotPageLoads(l) == PageLoads(l, "spot")
ProfileLoads(l) == PageLoads(l, "user")

InnerLoads(l) ==
    /\ l.of = "inner"
    /\ inner' = [loading |-> FALSE, is |-> l.is]
    /\ loads' = loads \ {l} /\ UNCHANGED page

Arrives(l) ==
    /\ l.at = "answered"
    /\ UNCHANGED <<libraryVars, route, me, seen>>
    /\ \/ ~Heard(l) /\ loads' = loads \ {l} /\ UNCHANGED <<page, inner, gate>>
       \/ /\ Heard(l)
          /\ CollectionPageLoads(l) \/ SpotPageLoads(l) \/ ProfileLoads(l) \/ InnerLoads(l)
          /\ gate' = IF page'.is = page.is THEN gate ELSE "offered"

\* What is known stays.
Failed(p) == [loading |-> FALSE, is |-> IF p.is \in {"none", "missing"} THEN "error" ELSE p.is]
LoadFails(l) ==
    /\ loads' = loads \ {l}
    /\ page' = IF Heard(l) /\ l.of = "page" THEN Failed(page) ELSE page
    /\ inner' = IF Heard(l) /\ l.of = "inner" THEN Failed(inner) ELSE inner
    /\ UNCHANGED <<libraryVars, route, me, gate, seen>>

-----------------------------------------------------------------------------
\* What is on the screen.
InnerShown == IF inner.loading THEN "skeleton" ELSE inner.is
CollectionShown ==
    IF page.loading \/ me = "pending" THEN "skeleton"
    ELSE IF page.is = "detail" THEN InnerShown ELSE page.is
SpotShown ==
    IF page.loading \/ me = "pending" THEN "skeleton"
    ELSE IF page.is = "detail" /\ me # "ok" THEN "error" ELSE page.is
ProfileShown == IF page.loading THEN "skeleton" ELSE page.is

Shown ==
    CASE route.kind = "collection" -> CollectionShown
      [] route.kind = "spot" -> SpotShown
      [] OTHER -> ProfileShown

Navigate(r) ==
    /\ r # route
    /\ Entered(r)
    /\ loads' = Cancel({"page", "inner"}) \cup
          (IF WaitsForMe(r) /\ me = "pending" THEN {} ELSE {Load("page", r)})
    /\ UNCHANGED <<libraryVars, me>>

\* An error offers another try.
Again(of) ==
    /\ Shown \in {"error", "missing"}
    /\ loads' = Cancel({of}) \cup {Load(of, route)}
    /\ UNCHANGED <<libraryVars, route, me, gate, seen>>
PageAgain(kind) ==
    /\ route.kind = kind /\ inner.is # "error"
    /\ page' = [page EXCEPT !.loading = TRUE] /\ UNCHANGED inner
    /\ Again("page")
RetryCollection == PageAgain("collection")
RetrySpot == PageAgain("spot")             \* its refreshMe is answered by RefreshMe
RetryProfile == PageAgain("user")
RetryInner ==
    /\ inner.is = "error"
    /\ inner' = [inner EXCEPT !.loading = TRUE] /\ UNCHANGED page
    /\ Again("inner")

\* MeProvider loads the profile, once.
MeArrives(ok) ==
    /\ me = "pending"
    /\ me' = IF ok THEN "ok" ELSE "failed"
    /\ loads' = loads \cup (IF WaitsForMe(route) THEN {Load("page", route)} ELSE {})
    /\ UNCHANGED <<libraryVars, route, page, inner, gate, seen>>

\* Other screens have it refreshed, and so has the retry of a spot's page; a
\* collection's page loads again then, behind what it shows.
RefreshMe ==
    /\ me # "pending" /\ me' = "ok"
    /\ loads' = IF route.kind = "collection" THEN Cancel({"page"}) \cup {Load("page", route)}
                ELSE loads
    /\ UNCHANGED <<libraryVars, route, page, inner, gate, seen>>

\* FriendAccessGate.
HandleRequest ==
    /\ Shown = "gate" /\ gate = "offered" /\ gate' = "sending"
    /\ UNCHANGED <<libraryVars, route, me, page, inner, loads, seen>>
RequestEnds(ok) ==
    /\ gate = "sending" /\ gate' = IF ok THEN "sent" ELSE "offered"
    /\ UNCHANGED <<libraryVars, route, me, page, inner, loads, seen>>

Next ==
    \/ Changes \/ RefreshMe \/ HandleRequest
    \/ RetryCollection \/ RetrySpot \/ RetryProfile \/ RetryInner
    \/ \E ok \in BOOLEAN : MeArrives(ok) \/ RequestEnds(ok)
    \/ \E r \in Routes : Navigate(r)
    \/ \E l \in loads :
          \/ LoadCollectionPage(l) \/ LoadSpotPage(l) \/ FetchFriendProfile(l)
          \/ ListFriendCollections(l) \/ GetCollectionDetail(l)
          \/ GetCollectionGate(l) \/ GetSpotGate(l) \/ GetUserGate(l)
          \/ Arrives(l) \/ LoadFails(l)

Spec == Init /\ [][Next]_vars

-----------------------------------------------------------------------------
\* The values the variables take.
TypeOK ==
    /\ LibraryTypeOK /\ route \in Routes /\ me \in {"pending", "ok", "failed"}
    /\ {page.is, inner.is} \subseteq {"none", "absent", "error", "detail", "owner", "gate", "missing"}
    /\ gate \in {"offered", "sending", "sent"}

\* Whatever changes between the requests of a load, and whatever arrives after the page
\* it was for: content, the owner's screen and a gate are shown only if they were due on
\* this page since it was entered; a button that says that a request was sent is of the
\* gate on the screen; and no page waits for an answer that nobody awaits.
ShownWasDue ==
    /\ Shown \in {"detail", "owner", "gate"} => Shown \in seen
    /\ gate # "offered" => page.is = "gate"
    /\ (Shown = "skeleton" /\ me # "pending") => \E l \in loads : l.own
=============================================================================
