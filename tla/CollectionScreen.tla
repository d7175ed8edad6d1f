-------------------------- MODULE CollectionScreen --------------------------
(***************************************************************************)
(* The screen on which an owner works on a collection of apps/web          *)
(* (components/mypage/collection-detail-view and spot-form), over the      *)
(* transactions of Library: spots are added, edited and removed, the       *)
(* collection is renamed, gets a cover or is deleted, and the screen is    *)
(* kept up to date by what each answer says.                               *)
(*                                                                         *)
(* One owner, one tab, nobody else changes the collections.  Search,       *)
(* filters and distances choose among the spots shown and are left out.    *)
(***************************************************************************)
EXTENDS Library

CONSTANT Owner

VARIABLES
    route,      \* the collection the screen is for, and a spot to open or 0
    view,       \* state of CollectionDetailView and of its SpotForm
    asks,       \* requests the browser awaits
    counted,    \* the number of spots an update of the collection answers
    crossed     \* a change was read, lost or answered where the screen cannot follow:
                \* see Clash, ReadsDetail, Misplaced and RequestFails

screenVars == <<route, view, asks, counted, crossed>>
vars == <<libraryVars, screenVars>>

\* One dialog is open at a time: sheet names it.
Fresh ==
    [loading |-> TRUE, col |-> 0, spots |-> {}, count |-> 0, form |-> "no", editing |-> 0,
     selected |-> 0, sheet |-> "none", busy |-> {}]

\* (A form that is closed and opened again no longer owns its earlier requests.)
\* A removal goes by the spot that was being edited when it was asked for.  The server's
\* answer to a load: whether it found the collection, and its spots.
Ask(kind, s, i) ==
    [kind |-> kind, col |-> route.col, spot |-> s, tx |-> i, own |-> TRUE,
     edited |-> s # 0 /\ view.editing = s, done |-> FALSE, found |-> FALSE, spots |-> {}]
LoadAsk == Ask("load", 0, 0)
Changes == {"form", "spot", "edit", "cover", "collection"}

Init ==
    /\ LibraryInit
    /\ \E c \in OwnedBy(Owner), s \in {0} \cup KnownSpots : route = [col |-> c, spot |-> s]
    /\ view = Fresh /\ asks = {LoadAsk}
    /\ counted = [i \in TxIds |-> 0] /\ crossed = FALSE

Running == {i \in TxIds : tx[i].at \in {"read", "write"}}

\* Two changes of one spot, or one of a spot and an update of the collection, whose
\* answer carries its number of spots, are awaited at once.
Clash(kind, s) ==
    \E a \in asks :
        \/ a.kind \in {"form", "spot"} /\ s # 0 /\ s \in {a.spot, tx[a.tx].got}
        \/ {kind, a.kind} \cap {"edit"} # {} /\ a.kind # "load" /\ kind # a.kind

-----------------------------------------------------------------------------
\* What is shown, and with it which handlers can be reached.
Shown == IF view.loading THEN "skeleton" ELSE IF view.col = 0 THEN "error" ELSE "detail"
PageReached == Shown = "detail" /\ view.sheet = "none"
SpotsListed == IF PageReached THEN view.spots ELSE {}
FormReached == PageReached /\ view.form # "no"
SheetReached(name) == Shown = "detail" /\ view.sheet = name
DetailReached == SheetReached("detail")
Busy(kind) == kind \in view.busy

Shows(v) == view' = v /\ UNCHANGED <<libraryVars, route, asks, counted, crossed>>
Opens(name) == Shows([view EXCEPT !.sheet = name])

\* The spot a link names is opened, if the collection still has it.
Initial(spots) == IF route.spot \in spots THEN route.spot ELSE 0

\* The server reads a collection.  A change whose transaction goes on is not seen, and its
\* answer may find no screen, or one that does not show it.
ReadsDetail(a) ==
    /\ a.kind = "load" /\ ~a.done
    /\ LET found == CollectionVisible(Owner, a.col)
       IN  asks' = (asks \ {a}) \cup
              {[a EXCEPT !.done = TRUE, !.found = found,
                   !.spots = IF found THEN Detail(Owner, a.col) ELSE {}]}
    /\ crossed' = (crossed \/ Running # {})
    /\ UNCHANGED <<libraryVars, route, view, counted>>

LoadArrives(a, ok) ==
    /\ a.kind = "load" /\ (ok => a.done)
    /\ LET got == ok /\ a.found
           spots == IF got THEN a.spots ELSE {}
       IN  view' = [view EXCEPT !.loading = FALSE, !.col = IF got THEN a.col ELSE 0,
                       !.spots = spots, !.count = Cardinality(spots),
                       !.selected = Initial(spots),
                       !.sheet = IF Initial(spots) # 0 THEN "detail" ELSE @]
    /\ asks' = asks \ {a}
    /\ UNCHANGED <<libraryVars, route, counted, crossed>>

HandleRetryLoad ==
    /\ Shown = "error"
    /\ view' = [view EXCEPT !.loading = TRUE]
    /\ asks' = asks \cup {LoadAsk}
    /\ UNCHANGED <<libraryVars, route, counted, crossed>>

\* The form.
FormOffered == PageReached
Disowned(kinds) == {IF a.kind \in kinds THEN [a EXCEPT !.own = FALSE] ELSE a : a \in asks}
FormShows(form, s) ==
    /\ view' = [view EXCEPT !.form = form, !.editing = s, !.busy = @ \ {"form"}]
    /\ asks' = Disowned({"form"})
    /\ UNCHANGED <<libraryVars, route, counted, crossed>>

HandleOpenSpotForm == FormOffered /\ view.form = "no" /\ FormShows("new", 0)
HandleCancelSpotForm == FormReached /\ FormShows("no", 0)

HandleSubmit ==
    /\ FormReached /\ ~Busy("form")
    /\ IF view.editing = 0 THEN \E p \in Places : PostSpot(Owner, route.col, p)
       ELSE PatchSpot(Owner, view.editing)
    /\ view' = [view EXCEPT !.busy = @ \cup {"form"}]
    /\ asks' = asks \cup {Ask("form", view.editing, NextTx)}
    /\ crossed' = (crossed \/ Clash("form", view.editing))
    /\ UNCHANGED <<route, counted>>

\* The list and the sheet of a spot.
HandleSelectSpot(s) ==
    /\ s \in SpotsListed
    /\ Shows([view EXCEPT !.selected = s, !.sheet = "detail"])
HandleCloseDetail == DetailReached /\ Opens("none")
HandleEditFromDetail ==
    /\ DetailReached
    /\ view' = [view EXCEPT !.sheet = "none", !.form = "edit", !.editing = view.selected,
                   !.busy = IF view.editing = view.selected THEN @ ELSE @ \ {"form"}]
    /\ asks' = IF view.editing = view.selected THEN asks ELSE Disowned({"form"})
    /\ UNCHANGED <<libraryVars, route, counted, crossed>>
HandleDeleteFromDetail == DetailReached /\ Opens("deleteSpot")

CancelDeleteSpot == SheetReached("deleteSpot") /\ ~Busy("spot") /\ Opens("none")
HandleConfirmDeleteSpot ==
    /\ SheetReached("deleteSpot") /\ ~Busy("spot")
    /\ DeleteSpotRoute(Owner, view.selected)
    /\ view' = [view EXCEPT !.busy = @ \cup {"spot"}]
    /\ asks' = asks \cup {Ask("spot", view.selected, NextTx)}
    /\ crossed' = (crossed \/ Clash("spot", view.selected))
    /\ UNCHANGED <<route, counted>>

\* The collection itself.
OpenActions == PageReached /\ Opens("actions")
HandleEditCollection == SheetReached("actions") /\ Opens("edit")
HandleOpenCoverSheet == PageReached /\ Opens("cover")
HandleRequestDeleteCollection == SheetReached("actions") /\ Opens("deleteCollection")
CloseSheet ==
    /\ \/ \E name \in {"actions", "edit", "cover"} : SheetReached(name)
       \/ SheetReached("deleteCollection") /\ ~Busy("collection")
    /\ Opens("none")

Updates(kind) ==
    /\ PatchCollection(Owner, view.col, collection[view.col].visibility)
    /\ view' = [view EXCEPT !.busy = @ \cup {kind}]
    /\ asks' = asks \cup {Ask(kind, 0, NextTx)}
    /\ crossed' = (crossed \/ Clash(kind, 0))
    /\ UNCHANGED <<route, counted>>
HandleSaveCollectionEdit == SheetReached("edit") /\ ~Busy("edit") /\ Updates("edit")
HandleSaveCover == SheetReached("cover") /\ ~Busy("cover") /\ Updates("cover")

HandleConfirmDeleteCollection ==
    /\ SheetReached("deleteCollection") /\ ~Busy("collection")
    /\ DeleteCollectionRoute(Owner, view.col)
    /\ view' = [view EXCEPT !.busy = @ \cup {"collection"}]
    /\ asks' = asks \cup {Ask("collection", 0, NextTx)}
    /\ crossed' = (crossed \/ Clash("collection", 0))
    /\ UNCHANGED <<route, counted>>

-----------------------------------------------------------------------------
\* What an answer changes on the screen.

\* Mutated form of HandleSpotSaved: an edited spot is counted again.
HandleSpotSavedTwice(v, s) ==
    [v EXCEPT !.spots = IF v.col = 0 THEN @ ELSE @ \cup {s},
              !.count = IF v.col = 0 THEN @ ELSE @ + 1,
              !.form = "no", !.editing = 0]

\* A spot that is not in the list is a new one.
HandleSpotSaved(v, s) ==
    [v EXCEPT !.spots = IF v.col = 0 THEN @ ELSE @ \cup {s},
              !.count = IF v.col = 0 \/ s \in v.spots THEN @ ELSE @ + 1,
              !.form = "no", !.editing = 0]

SpotRemoved(v, a) ==
    [v EXCEPT !.spots = @ \ {a.spot},
              !.count = IF v.col = 0 \/ @ = 0 THEN @ ELSE @ - 1,
              !.editing = IF a.edited THEN 0 ELSE @,
              !.form = IF a.edited /\ @ = "edit" THEN "new" ELSE @,
              !.busy = IF a.edited THEN @ \ {"form"} ELSE @,
              !.selected = 0,
              !.sheet = IF @ \in {"detail", "deleteSpot"} THEN "none" ELSE @]

CollectionUpdated(v, a) ==
    [v EXCEPT !.count = IF a.kind = "edit" /\ v.col = a.col THEN counted[a.tx] ELSE @,
              !.sheet = IF @ = a.kind THEN "none" ELSE @]

Freed(v, a) == IF a.own THEN [v EXCEPT !.busy = @ \ {a.kind}] ELSE v

Succeeds(a) ==
    CASE a.kind = "form" ->
           HandleSpotSaved(Freed(view, a), IF a.spot = 0 THEN tx[a.tx].got ELSE a.spot)
      [] a.kind = "spot" -> SpotRemoved(Freed(view, a), a)
      [] OTHER -> CollectionUpdated(Freed(view, a), a)

\* A saved or removed spot is put into, or taken off, whatever collection is shown by now,
\* and is counted off even if the list has been loaded without it.
Misplaced(a) ==
    /\ a.kind \in {"form", "spot"} /\ tx[a.tx].answer = "ok" /\ view.col # 0
    /\ a.col # view.col \/ (a.kind = "spot" /\ a.spot \notin view.spots)

AnswerArrives(a) ==
    /\ a.kind \in Changes /\ tx[a.tx].at = "answered"
    /\ tx' = [tx EXCEPT ![a.tx] = Over] /\ UNCHANGED tables
    /\ IF a.kind = "collection" /\ tx[a.tx].answer = "ok"
       THEN \* router.replace: the screen goes
            view' = [Fresh EXCEPT !.loading = FALSE] /\ asks' = {}
       ELSE /\ view' = IF tx[a.tx].answer = "ok" THEN Succeeds(a) ELSE Freed(view, a)
            /\ asks' = (IF a.kind = "spot" /\ a.edited THEN Disowned({"form"}) ELSE asks) \ {a}
    /\ crossed' = (crossed \/ Misplaced(a))
    /\ UNCHANGED <<route, counted>>

RequestFails(a) ==
    /\ a.kind \in Changes
    /\ view' = Freed(view, a)
    /\ asks' = asks \ {a} /\ crossed' = TRUE
    /\ UNCHANGED <<libraryVars, route, counted>>

\* The screen goes on to another collection: all but a removal under way is reset.
Navigate(c, s) ==
    /\ route' = [col |-> c, spot |-> s] /\ route' # route
    /\ view' = [Fresh EXCEPT !.busy = view.busy \cap {"spot"}]
    /\ asks' = {a \in Disowned(Changes \ {"spot"}) : a.kind # "load"} \cup
                   {[LoadAsk EXCEPT !.col = c]}
    /\ UNCHANGED <<libraryVars, counted, crossed>>

\* It is left and opened anew.
Reopen(c, s) ==
    /\ route' = [col |-> c, spot |-> s] /\ view' = Fresh
    /\ asks' = {[LoadAsk EXCEPT !.col = c]}
    /\ UNCHANGED <<libraryVars, counted, crossed>>

\* The count is read with the update.
Server(i) ==
    /\ Statement(i)
    /\ counted' = IF tx[i].op = "update_collection" /\ tx[i].at = "write"
                  THEN [counted EXCEPT ![i] = Cardinality(SpotsIn(tx[i].col))] ELSE counted
    /\ UNCHANGED <<route, view, asks, crossed>>

Next ==
    \/ HandleRetryLoad \/ HandleOpenSpotForm \/ HandleCancelSpotForm \/ HandleSubmit
    \/ \E s \in view.spots : HandleSelectSpot(s)
    \/ HandleCloseDetail \/ HandleEditFromDetail \/ HandleDeleteFromDetail
    \/ CancelDeleteSpot \/ HandleConfirmDeleteSpot
    \/ OpenActions \/ HandleEditCollection \/ HandleOpenCoverSheet \/ CloseSheet
    \/ HandleRequestDeleteCollection \/ HandleSaveCollectionEdit \/ HandleSaveCover
    \/ HandleConfirmDeleteCollection
    \/ \E a \in asks :
          \/ ReadsDetail(a) \/ AnswerArrives(a) \/ RequestFails(a)
          \/ \E ok \in BOOLEAN : LoadArrives(a, ok)
    \/ \E c \in OwnedBy(Owner), s \in {0} \cup KnownSpots : Navigate(c, s) \/ Reopen(c, s)
    \/ \E i \in TxIds : Server(i)

Spec == Init /\ [][Next]_vars

-----------------------------------------------------------------------------
\* The values the variables take.
TypeOK ==
    /\ LibraryTypeOK /\ route.col \in Collections /\ view.spots \subseteq Spots
    /\ view.col \in {0} \cup Collections /\ view.count \in 0 .. MaxSpots
    /\ view.busy \subseteq Changes

\* What the screen shows when nothing is awaited is what there is: its own collection, all
\* of its spots, and their number, in whatever order the answers came and wherever the
\* screen went meanwhile.  It says nothing once changes of one spot, or of a spot and of
\* the collection, were awaited at once, a load was read while a change was being made, an
\* answer was lost, or the answer to a saved or removed spot came to another collection
\* than its own, where the code applies it all the same.
ScreenIsTrue ==
    (view.col # 0 /\ asks = {} /\ ~crossed) =>
        /\ view.col = route.col
        /\ view.spots = SpotsIn(route.col) /\ view.count = Cardinality(view.spots)
=============================================================================
