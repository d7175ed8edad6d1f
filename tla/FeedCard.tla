------------------------------ MODULE FeedCard ------------------------------
(***************************************************************************)
(* A card of the feed in apps/web (components/home/feed-item-card): its    *)
(* heart, which is shown before the server answers (use-feed-spot-like),   *)
(* its photos, which open the detail sheet by a tap but not by a swipe,    *)
(* and that sheet.                                                         *)
(*                                                                         *)
(* The spot stays visible or is lost to the viewer for good.  One tab; of  *)
(* the likes of others only how many there were when the card was read.    *)
(***************************************************************************)
EXTENDS Sheet

CONSTANT Others          \* likes of others, at the most

CardConstants == Others \in Nat

VARIABLES
    heart,      \* state of useFeedSpotLike
    touch,      \* didScroll: "no", "tap" or "swipe" while a finger is down
    likes,      \* the server: is the spot visible, does the viewer like it
    call,       \* the request of the heart
    deceived    \* a request was answered otherwise than it ended

cardVars == <<heart, touch, likes, call, deceived>>
vars == <<sheetVars, cardVars>>

Idle == [at |-> "none", like |-> FALSE]

Init ==
    /\ SheetInit
    /\ touch = "no" /\ call = Idle /\ deceived = FALSE
    /\ \E liked \in BOOLEAN, n \in 0 .. Others :
          /\ likes = [visible |-> TRUE, mine |-> liked]
          /\ heart = [liked |-> liked, count |-> n + (IF liked THEN 1 ELSE 0),
                      busy |-> FALSE, failed |-> FALSE, before |-> liked, others |-> n]

\* What a finger reaches: the modal sheet hides the card.
DetailShown == sheet.dialog
PhotoReached == ~DetailShown
HeartOffered == ~DetailShown /\ ~heart.busy

\* The heart changes at once, and is busy until the answer.
ToggleLike ==
    /\ HeartOffered
    /\ heart' = [heart EXCEPT !.liked = ~@, !.busy = TRUE, !.failed = FALSE,
                    !.before = heart.liked,
                    !.count = IF heart.liked THEN (IF @ = 0 THEN 0 ELSE @ - 1) ELSE @ + 1]
    /\ call' = [at |-> "sent", like |-> ~heart.liked]
    /\ UNCHANGED <<sheetVars, touch, likes, deceived>>

\* POST or DELETE /spots/:id/like, both idempotent.
Serve ==
    /\ call.at = "sent"
    /\ call' = [call EXCEPT !.at = IF likes.visible THEN "ok" ELSE "not_found"]
    /\ likes' = IF likes.visible THEN [likes EXCEPT !.mine = call.like] ELSE likes
    /\ UNCHANGED <<sheetVars, heart, touch, deceived>>

\* Mutated form of RolledBack: only the heart goes back, not its count.
RolledBackHalf(h) == [h EXCEPT !.liked = h.before]

RolledBack(h) ==
    [h EXCEPT !.liked = h.before, !.count = h.others + (IF h.before THEN 1 ELSE 0)]

Answered(ok) ==
    /\ heart' = [(IF ok THEN heart ELSE RolledBack(heart)) EXCEPT !.busy = FALSE,
                    !.failed = ~ok]
    /\ call' = Idle
    /\ UNCHANGED <<sheetVars, touch>>

AnswerArrives ==
    /\ call.at \in {"ok", "not_found"}
    /\ Answered(call.at = "ok") /\ UNCHANGED <<likes, deceived>>

\* The request fails for the browser; the server may have done it, or do it yet.
RequestFails ==
    /\ call.at # "none"
    /\ likes' \in {likes} \cup
           (IF call.at = "sent" /\ likes.visible THEN {[likes EXCEPT !.mine = call.like]} ELSE {})
    /\ Answered(FALSE)
    /\ deceived' = TRUE

SpotLost ==
    /\ likes.visible /\ likes' = [visible |-> FALSE, mine |-> FALSE]
    /\ UNCHANGED <<sheetVars, heart, touch, call, deceived>>

-----------------------------------------------------------------------------
\* The photos.
OpenDetail == ParentOpens /\ UNCHANGED <<reduced, mobile>>

HandlePhotoTouchStart ==
    /\ PhotoReached /\ touch = "no" /\ touch' = "tap"
    /\ UNCHANGED <<sheetVars, heart, likes, call, deceived>>
HandlePhotoTouchMove ==
    /\ touch = "tap" /\ touch' = "swipe"
    /\ UNCHANGED <<sheetVars, heart, likes, call, deceived>>
HandlePhotoActivate ==
    /\ touch # "no" /\ touch' = "no"
    /\ IF touch = "tap" /\ ~sheet.open /\ ~sheet.hideFrame THEN OpenDetail
       ELSE UNCHANGED sheetVars
    /\ UNCHANGED <<heart, likes, call, deceived>>

\* The link to the author in the sheet, and its close button, close it.
FollowAuthor ==
    /\ DetailShown /\ ParentCloses
    /\ UNCHANGED <<reduced, mobile, cardVars>>

Next ==
    \/ ToggleLike \/ Serve \/ AnswerArrives \/ RequestFails \/ SpotLost
    \/ HandlePhotoTouchStart \/ HandlePhotoTouchMove \/ HandlePhotoActivate
    \/ FollowAuthor
    \/ (SheetNext /\ UNCHANGED cardVars)

Spec == Init /\ [][Next]_vars

-----------------------------------------------------------------------------
\* The values the variables take.
TypeOK ==
    /\ SheetTypeOK
    /\ touch \in {"no", "tap", "swipe"} /\ heart.count \in 0 .. Others + 1

\* #212: a heart at rest is what the server has, and its count is that of others and
\* the viewer's own, whatever failed, unless an answer was lost on its way.
HeartIsTrue ==
    (~heart.busy /\ likes.visible) =>
        /\ heart.count = heart.others + (IF heart.liked THEN 1 ELSE 0)
        /\ ~deceived => heart.liked = likes.mine
=============================================================================
