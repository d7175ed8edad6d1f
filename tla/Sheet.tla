-------------------------------- MODULE Sheet --------------------------------
(***************************************************************************)
(* The bottom sheet of apps/web (components/ui/sheet): a modal <dialog>    *)
(* that is mounted, shown, dragged and dismissed over animation frames and *)
(* a timer, whose effects are redone whenever its parent opens or closes   *)
(* it.  The parent closes it when it is asked to.                          *)
(***************************************************************************)
EXTENDS Integers

VARIABLES
    sheet,      \* props, state and refs of Sheet, and its pending callbacks
    reduced,    \* prefers-reduced-motion
    mobile      \* a viewport on which a sheet is dragged

sheetVars == <<sheet, reduced, mobile>>

\* A drag: none, short of the dismissal or past it.
Drags == 0 .. 2

SheetInit ==
    /\ reduced \in BOOLEAN /\ mobile \in BOOLEAN
    /\ sheet = [open |-> FALSE, mounted |-> FALSE, dialog |-> FALSE, state |-> "closed",
                offset |-> 0, dragging |-> FALSE, asked |-> FALSE,
                mountFrame |-> FALSE, showFrame |-> FALSE, hideFrame |-> FALSE,
                timer |-> FALSE]

\* The effect of open and mounted: show the dialog, or hide it and set the timer.
\* What an earlier effect left pending is cancelled.
Effect(s) ==
    LET t == [s EXCEPT !.showFrame = FALSE, !.hideFrame = FALSE, !.timer = FALSE]
    IN  IF ~s.mounted THEN t
        ELSE IF s.open THEN [t EXCEPT !.dialog = TRUE, !.showFrame = TRUE]
        ELSE [t EXCEPT !.hideFrame = TRUE, !.timer = TRUE]

\* Mutated form of Opened: what was asked for before stays asked for.
OpenedAsAsked(s) == Effect([s EXCEPT !.open = TRUE, !.mountFrame = TRUE])

Opened(s) == Effect([s EXCEPT !.open = TRUE, !.mountFrame = TRUE, !.asked = FALSE])
ClosedByParent(s) == Effect([s EXCEPT !.open = FALSE, !.mountFrame = FALSE])

\* (Nobody opens a sheet again before the next animation frame.)
ParentOpens == ~sheet.open /\ ~sheet.hideFrame /\ sheet' = Opened(sheet)
ParentCloses == sheet.open /\ sheet' = ClosedByParent(sheet)

MountFrame ==
    /\ sheet.mountFrame
    /\ sheet' = IF sheet.mounted THEN [sheet EXCEPT !.mountFrame = FALSE]
                ELSE Effect([sheet EXCEPT !.mountFrame = FALSE, !.mounted = TRUE])

ShowFrame ==
    /\ sheet.showFrame
    /\ sheet' = [sheet EXCEPT !.showFrame = FALSE, !.state = "open"]

HideFrame ==
    /\ sheet.hideFrame
    /\ sheet' = [sheet EXCEPT !.hideFrame = FALSE, !.state = "closed", !.offset = 0,
                    !.dragging = FALSE]

\* The 250 ms of the transition outlast a frame; with reduced motion there are none.
Timer ==
    /\ sheet.timer /\ (sheet.hideFrame => reduced)
    /\ sheet' = Effect([sheet EXCEPT !.timer = FALSE, !.dialog = FALSE, !.mounted = FALSE])

\* The backdrop, the escape key, the close button and a long drag.
RequestClose(s) == IF s.asked THEN s ELSE ClosedByParent([s EXCEPT !.asked = TRUE])
Dismiss == sheet.dialog /\ ~sheet.asked /\ sheet' = RequestClose(sheet)

PointerDown ==
    /\ sheet.dialog /\ mobile
    /\ sheet' = [sheet EXCEPT !.dragging = TRUE]
PointerMove(to) ==
    /\ sheet.dialog /\ sheet.dragging
    /\ sheet' = [sheet EXCEPT !.offset = to]
ResetDrag(s) == [s EXCEPT !.dragging = FALSE, !.offset = 0]
FinishDrag ==
    /\ sheet.dialog /\ sheet.dragging
    /\ sheet' = IF sheet.offset = 2 THEN RequestClose(sheet) ELSE ResetDrag(sheet)
PointerCancel == sheet.dialog /\ sheet.dragging /\ sheet' = ResetDrag(sheet)

SheetNext ==
    /\ \/ MountFrame \/ ShowFrame \/ HideFrame \/ Timer \/ Dismiss
       \/ PointerDown \/ FinishDrag \/ PointerCancel
       \/ \E to \in Drags : PointerMove(to)
    /\ UNCHANGED <<reduced, mobile>>

-----------------------------------------------------------------------------
SheetTypeOK ==
    /\ reduced \in BOOLEAN /\ mobile \in BOOLEAN
    /\ sheet.state \in {"open", "closed"} /\ sheet.offset \in Drags

\* A modal dialog that the parent has closed is about to go; an open one can be
\* dismissed; with motion, it opens where it belongs, whatever drag closed it.
SheetIsFree ==
    /\ sheet.dialog => sheet.mounted /\ (sheet.open \/ sheet.timer)
    /\ sheet.open => ~sheet.asked /\ (sheet.dialog \/ sheet.mountFrame)
    /\ (sheet.open /\ ~sheet.dragging /\ ~reduced) => sheet.offset = 0
=============================================================================
