------------------------------- MODULE MyPage -------------------------------
(***************************************************************************)
(* "My page" of apps/web (components/mypage/mypage-view): the owner's      *)
(* collections, which are created and put in order (use-mypage-            *)
(* collections), the account sheet, and the profile with its counts that   *)
(* all screens share (lib/mypage/me-provider), over the transactions of    *)
(* Library.                                                                *)
(*                                                                         *)
(* One owner with one tab and another device.  Of the profile only the     *)
(* picture and the number of collections; what is typed is left out.       *)
(***************************************************************************)
EXTENDS Library

CONSTANTS Owner, Pictures

VARIABLES
    profile,    \* the row of users: its picture, the one that was chosen for it last, in
                \* the sheet or elsewhere, and whether anybody did elsewhere
    me,         \* state of MeProvider
    view,       \* state of MypageView, useMypageCollections and MypageAccountSheet
    asks,       \* requests the browser awaits
    counted,    \* the list a reordering answers
    crossed     \* an answer was lost, or one to a question was read beside a change

pageVars == <<profile, me, view, asks, counted, crossed>>
vars == <<libraryVars, pageVars>>

NoPicture == "none"
Avatars == Pictures \cup {NoPicture}

Away ==
    [open |-> FALSE, loading |-> TRUE, failed |-> FALSE, list |-> <<>>, form |-> FALSE,
     ordering |-> FALSE, busy |-> FALSE, sheet |-> FALSE, saving |-> FALSE,
     uploads |-> {}, picture |-> NoPicture, opened |-> NoPicture, picked |-> FALSE]

\* (own: asked by the page as it is mounted now.)
Ask(kind) ==
    [kind |-> kind, own |-> TRUE, done |-> FALSE, tx |-> 0, count |-> 0,
     list |-> <<>>, picture |-> NoPicture, sends |-> FALSE, picked |-> FALSE]
Changes == {"create", "order", "save"}

\* A question and a change whose effect its answer tells.
Concerns(question, change) ==
    <<question, change>> \in {<<"list", "create">>, <<"list", "order">>,
                              <<"me", "create">>, <<"me", "save">>}
Crosses(kind) == \E a \in asks : Concerns(kind, a.kind) \/ Concerns(a.kind, kind)
Asks(new) ==
    /\ asks' = asks \cup new
    /\ crossed' = (crossed \/ \E a \in new : Crosses(a.kind))

Init ==
    /\ LibraryInit
    /\ profile = [picture |-> NoPicture, chosen |-> NoPicture, elsewhere |-> FALSE]
    /\ me = [at |-> "pending", count |-> 0, picture |-> NoPicture]
    /\ view = Away /\ asks = {Ask("me")}
    /\ counted = [i \in TxIds |-> <<>>] /\ crossed = FALSE

-----------------------------------------------------------------------------
\* The server.
ReadsList(a) ==
    /\ a.kind = "list" /\ ~a.done
    /\ asks' = (asks \ {a}) \cup {[a EXCEPT !.done = TRUE, !.list = Listing(Owner, Owner)]}
    /\ UNCHANGED <<libraryVars, profile, me, view, counted, crossed>>

GetMeByUid(a) ==
    /\ a.kind = "me" /\ ~a.done
    /\ asks' = (asks \ {a}) \cup
          {[a EXCEPT !.done = TRUE, !.count = Cardinality(OwnedBy(Owner)),
                !.picture = profile.picture]}
    /\ UNCHANGED <<libraryVars, profile, me, view, counted, crossed>>

\* The picture is written only if the request has one.  It is chosen if the user picked
\* or removed one in the sheet that was submitted.
UpdateUserProfile(a) ==
    /\ a.kind = "save" /\ ~a.done
    /\ profile' = IF a.sends
                  THEN [profile EXCEPT !.picture = a.picture,
                                       !.chosen = IF a.picked THEN a.picture ELSE @]
                  ELSE profile
    /\ asks' = (asks \ {a}) \cup {[a EXCEPT !.done = TRUE, !.picture = profile'.picture]}
    /\ UNCHANGED <<libraryVars, me, view, counted, crossed>>

\* The other device chooses a picture, once.
Elsewhere(p) ==
    /\ ~profile.elsewhere
    /\ profile' = [picture |-> p, chosen |-> p, elsewhere |-> TRUE]
    /\ UNCHANGED <<libraryVars, me, view, asks, counted, crossed>>

Server(i) ==
    /\ Statement(i)
    /\ counted' = IF tx[i].op = "reorder" /\ tx[i].at = "write"
                  THEN [counted EXCEPT ![i] = SetToSortSeq(ToSet(tx[i].arg) \cup
                           OwnedBy(Owner), LAMBDA c, d : collection'[c].order < collection'[d].order)]
                  ELSE counted
    /\ UNCHANGED <<profile, me, view, asks, crossed>>

-----------------------------------------------------------------------------
\* MeProvider: an answer replaces the profile; without one it stays.
MeArrives(a, ok) ==
    /\ a.kind = "me" /\ (ok => a.done)
    /\ me' = IF ok THEN [at |-> "ok", count |-> a.count, picture |-> a.picture]
             ELSE [me EXCEPT !.at = IF @ = "pending" THEN "failed" ELSE @]
    /\ asks' = asks \ {a}
    /\ UNCHANGED <<libraryVars, profile, view, counted, crossed>>

\* Friends and notifications tell that badges changed.
RefreshMe ==
    /\ Asks({Ask("me")})
    /\ UNCHANGED <<libraryVars, profile, me, view, counted>>

-----------------------------------------------------------------------------
\* The page.
Orphaned == {[a EXCEPT !.own = a.kind = "me"] : a \in asks}

Open ==
    /\ ~view.open
    /\ view' = [Away EXCEPT !.open = TRUE]
    /\ Asks({Ask("list")})
    /\ UNCHANGED <<libraryVars, profile, me, counted>>
Leave ==
    /\ view.open /\ view' = Away /\ asks' = Orphaned
    /\ UNCHANGED <<libraryVars, profile, me, counted, crossed>>

Shown ==
    IF ~view.open THEN "closed"
    ELSE IF me.at = "pending" \/ view.loading THEN "skeleton"
    ELSE IF me.at = "failed" THEN "error" ELSE "page"
PageReached == Shown = "page" /\ ~view.sheet

ListArrives(a, ok) ==
    /\ a.kind = "list" /\ (ok => a.done)
    /\ view' = IF ~a.own THEN view
               ELSE [view EXCEPT !.loading = FALSE, !.failed = ~ok,
                        !.list = IF ok THEN a.list ELSE @]
    /\ asks' = asks \ {a}
    /\ UNCHANGED <<libraryVars, profile, me, counted, crossed>>

HandleRetryLoad ==
    /\ Shown = "error"
    /\ view' = [view EXCEPT !.loading = TRUE, !.failed = FALSE]
    /\ Asks({Ask("list"), Ask("me")})
    /\ UNCHANGED <<libraryVars, profile, me, counted>>

ToggleForm ==
    /\ PageReached /\ view' = [view EXCEPT !.form = ~@]
    /\ UNCHANGED <<libraryVars, profile, me, asks, counted, crossed>>
ToggleOrdering ==
    /\ PageReached /\ Len(view.list) > 1 /\ view' = [view EXCEPT !.ordering = ~@]
    /\ UNCHANGED <<libraryVars, profile, me, asks, counted, crossed>>

HandleCreate ==
    /\ PageReached /\ view.form /\ ~view.busy
    /\ PostCollection(Owner, "friends")
    /\ view' = [view EXCEPT !.busy = TRUE]
    /\ Asks({[Ask("create") EXCEPT !.tx = NextTx]})
    /\ UNCHANGED <<profile, me, counted>>

Reorderable == PageReached /\ view.ordering /\ ~view.busy

PersistCollectionOrder(next) ==
    /\ Reorderable
    /\ PatchReorder(Owner, next)
    /\ view' = [view EXCEPT !.busy = TRUE]
    /\ Asks({[Ask("order") EXCEPT !.tx = NextTx]})
    /\ UNCHANGED <<profile, me, counted>>

Swapped(list, i, j) == [list EXCEPT ![i] = list[j], ![j] = list[i]]
MoveCollection(i, j) ==
    /\ {i, j} \subseteq DOMAIN view.list
    /\ PersistCollectionOrder(Swapped(view.list, i, j))
PinCollectionToTop(i) ==
    /\ i \in DOMAIN view.list /\ i > 1
    /\ PersistCollectionOrder(<<view.list[i]>> \o RemoveAt(view.list, i))

\* A new collection is shown last; it is counted on whatever screen.
Succeeds(a) ==
    /\ view' = IF ~a.own THEN view
               ELSE IF a.kind = "create"
               THEN [view EXCEPT !.busy = FALSE, !.form = FALSE,
                        !.list = Append(@, tx[a.tx].got)]
               ELSE [view EXCEPT !.busy = FALSE, !.list = counted[a.tx]]
    /\ me' = [me EXCEPT !.count = IF a.kind = "create" /\ me.at = "ok" THEN @ + 1 ELSE @]

AnswerArrives(a) ==
    /\ a.kind \in {"create", "order"} /\ tx[a.tx].at = "answered"
    /\ tx' = [tx EXCEPT ![a.tx] = Over] /\ UNCHANGED tables
    /\ IF tx[a.tx].answer = "ok" THEN Succeeds(a)
       ELSE /\ view' = IF a.own THEN [view EXCEPT !.busy = FALSE] ELSE view
            /\ UNCHANGED me
    /\ asks' = asks \ {a}
    /\ UNCHANGED <<profile, counted, crossed>>

RequestFails(a) ==
    /\ a.kind \in Changes
    /\ view' = IF ~a.own THEN view
               ELSE IF a.kind = "save" THEN [view EXCEPT !.saving = FALSE]
               ELSE [view EXCEPT !.busy = FALSE]
    /\ asks' = asks \ {a} /\ crossed' = TRUE
    /\ UNCHANGED <<libraryVars, profile, me, counted>>

-----------------------------------------------------------------------------
\* The account sheet.
OpenSheet ==
    /\ PageReached
    /\ view' = [view EXCEPT !.sheet = TRUE, !.picture = me.picture, !.opened = me.picture,
                   !.picked = FALSE, !.uploads = IF @ = {} THEN {} ELSE {"earlier"}]
    /\ UNCHANGED <<libraryVars, profile, me, asks, counted, crossed>>
CloseSheet ==
    /\ Shown = "page" /\ view.sheet /\ view' = [view EXCEPT !.sheet = FALSE]
    /\ UNCHANGED <<libraryVars, profile, me, asks, counted, crossed>>

SheetReached == Shown = "page" /\ view.sheet /\ ~view.saving

\* A picture is uploaded first; the field goes with its sheet, the upload does not.
FieldReached == SheetReached /\ "own" \notin view.uploads
HandleFileChange ==
    /\ FieldReached
    /\ view' = [view EXCEPT !.uploads = @ \cup {"own"}]
    /\ UNCHANGED <<libraryVars, profile, me, asks, counted, crossed>>
UploadEnds(p, upload) ==
    /\ view' = [view EXCEPT !.uploads = @ \ {upload},
                   !.picture = IF p = NoPicture THEN @ ELSE p, !.picked = @ \/ p # NoPicture]
    /\ UNCHANGED <<libraryVars, profile, me, asks, counted, crossed>>
RemovePicture ==
    /\ FieldReached /\ view.picture # NoPicture
    /\ view' = [view EXCEPT !.picture = NoPicture, !.picked = TRUE]
    /\ UNCHANGED <<libraryVars, profile, me, asks, counted, crossed>>

\* #259: the picture is sent only if it was changed in this sheet.
HandleSubmit ==
    /\ SheetReached
    /\ view' = [view EXCEPT !.saving = TRUE]
    /\ Asks({[Ask("save") EXCEPT !.picture = view.picture, !.picked = view.picked,
                !.sends = view.picture # view.opened]})
    /\ UNCHANGED <<libraryVars, profile, me, counted>>

\* The profile is merged, and read again.
Saved(a) ==
    /\ a.kind = "save" /\ a.done
    /\ view' = IF a.own THEN [view EXCEPT !.saving = FALSE, !.sheet = FALSE] ELSE view
    /\ me' = [me EXCEPT !.picture = IF me.at = "ok" THEN a.picture ELSE @]
    /\ asks' = (asks \ {a}) \cup {Ask("me")}
    /\ crossed' = (crossed \/ \E b \in asks \ {a} : Concerns("me", b.kind))
    /\ UNCHANGED <<libraryVars, profile, counted>>

Next ==
    \/ RefreshMe \/ Open \/ Leave \/ HandleRetryLoad \/ ToggleForm \/ ToggleOrdering
    \/ HandleCreate \/ OpenSheet \/ CloseSheet \/ HandleFileChange \/ RemovePicture
    \/ HandleSubmit
    \/ \E p \in Avatars : Elsewhere(p) \/ \E u \in view.uploads : UploadEnds(p, u)
    \/ \E i \in DOMAIN view.list :
          \/ PinCollectionToTop(i)
          \/ \E j \in {i - 1, i + 1} : MoveCollection(i, j)
    \/ \E a \in asks :
          \/ ReadsList(a) \/ GetMeByUid(a) \/ UpdateUserProfile(a) \/ Saved(a)
          \/ AnswerArrives(a) \/ RequestFails(a)
          \/ \E ok \in BOOLEAN : MeArrives(a, ok) \/ ListArrives(a, ok)
    \/ \E i \in TxIds : Server(i)

Spec == Init /\ [][Next]_vars

-----------------------------------------------------------------------------
\* The values the variables take.
TypeOK ==
    /\ LibraryTypeOK /\ ToSet(view.list) \subseteq Collections
    /\ {view.picture, view.opened, me.picture, profile.picture} \subseteq Avatars
    /\ me.count \in Nat

\* Unless an answer was lost or read beside a change, what my page and the profile
\* show when nothing is awaited is what there is: the collections in their order, and
\* their number; and a picture is replaced only by one that was picked for it, never by
\* the one a sheet was opened with, which may be older than another device's choice.
PageIsTrue ==
    /\ (asks = {} /\ ~crossed) =>
          /\ (Shown = "page" /\ ~view.failed) => view.list = Listing(Owner, Owner)
          /\ me.at = "ok" =>
                /\ me.count = Cardinality(OwnedBy(Owner))
                /\ ~profile.elsewhere => me.picture = profile.picture
    /\ profile.picture = profile.chosen
=============================================================================
