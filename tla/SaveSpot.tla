------------------------------ MODULE SaveSpot ------------------------------
(***************************************************************************)
(* The save button of a spot in apps/web (lib/recollect/use-recollect) and *)
(* the sheet that picks a collection (components/recollect), over the      *)
(* transactions of Library: a tap saves to the last collection or removes  *)
(* what is saved, a long press picks the collection.  The host is the page *)
(* of a spot, which goes on to other spots with the same button, or a card *)
(* of the feed, which keeps what was saved and is mounted anew (#283).     *)
(*                                                                         *)
(* One viewer, one button.  Requests are answered in any order, or fail    *)
(* for the browser whatever the server did.                                *)
(***************************************************************************)
EXTENDS Library

CONSTANTS
    Viewer,       \* the account whose button is followed
    Saveable      \* spots of others the host shows

VARIABLES
    host,       \* "page" or "card"
    button,     \* state and refs of useRecollect
    picker,     \* state of the sheet
    snapshot,   \* the initialSaved the host passes, for each spot
    last,       \* mogu:lastRecollectTarget in localStorage, or 0
    flights,    \* requests the browser awaits
    disturbed   \* two requests for a spot overlapped, one lost its answer, or
                \* the host went on while the sheet was saving

screenVars == <<host, button, picker, snapshot, last, flights, disturbed>>
vars == <<libraryVars, screenVars>>

Button(s, saved) ==
    [spot |-> s, saved |-> saved, busy |-> FALSE, flying |-> FALSE, failed |-> FALSE,
     picker |-> FALSE, initial |-> saved]
ClosedPicker == [loading |-> FALSE, listed |-> {}, saving |-> FALSE, creating |-> FALSE]

Init ==
    /\ LibraryInit
    /\ host \in {"page", "card"}
    /\ button = Button(Min(Saveable), FALSE)
    /\ picker = ClosedPicker
    /\ snapshot = [s \in Saveable |-> FALSE]
    /\ last \in {0} \cup OwnedBy(Viewer)
    /\ flights = {} /\ disturbed = FALSE

\* (A card that is mounted anew no longer owns the requests of the one before.)
Flight(kind, s, c, i) == [kind |-> kind, spot |-> s, col |-> c, tx |-> i, own |-> TRUE]
Awaited(kinds) == {f \in flights : f.kind \in kinds}
Saves == {"save", "unsave", "pick"}

\* A request for a spot that has another one under way, here or at the server.
Running == {i \in TxIds : tx[i].at \in {"read", "target", "edge", "write"}}
Overlaps(s) ==
    \/ \E f \in Awaited(Saves) : f.spot = s
    \/ \E i \in Running : tx[i].spot = s

-----------------------------------------------------------------------------
\* The picker loads the viewer's collections whenever it opens or its spot
\* changes; an earlier load is cancelled.
Opens(b, p) ==
    /\ button' = [b EXCEPT !.picker = TRUE, !.failed = FALSE]
    /\ IF b.picker THEN picker' = p /\ flights' = flights
       ELSE /\ picker' = [p EXCEPT !.loading = TRUE]
            /\ flights' = flights \cup {Flight("list", b.spot, 0, 0)}

OpenPicker ==
    /\ ~button.picker
    /\ Opens(button, picker)
    /\ UNCHANGED <<libraryVars, host, snapshot, last, disturbed>>

Cancelled(fs) == fs \ {f \in fs : f.kind = "list"}

ClosePicker ==
    /\ button.picker
    /\ button' = [button EXCEPT !.picker = FALSE]
    /\ picker' = [picker EXCEPT !.loading = FALSE]
    /\ flights' = Cancelled(flights)
    /\ UNCHANGED <<libraryVars, host, snapshot, last, disturbed>>

ListArrives(f) ==
    /\ f.kind = "list"
    /\ picker' = [picker EXCEPT !.loading = FALSE, !.listed = OwnedBy(Viewer)]
    /\ flights' = flights \ {f}
    /\ UNCHANGED <<libraryVars, host, button, snapshot, last, disturbed>>

\* What a tap does: remove what is saved, save to the last collection, or ask.
QuickSave ==
    IF button.saved THEN "unsave" ELSE IF last = 0 THEN "pick" ELSE "save"

Requests(kind, s, c) ==
    /\ IF kind = "unsave" THEN DeleteRecollect(Viewer, s) ELSE PostRecollect(Viewer, s, c)
    /\ disturbed' = (disturbed \/ Overlaps(s))

TapTaken == ~button.busy /\ ~button.flying

Tap ==
    /\ TapTaken
    /\ IF QuickSave = "pick"
       THEN Opens(button, picker) /\ UNCHANGED <<libraryVars, disturbed>>
       ELSE /\ Requests(QuickSave, button.spot, last)
            /\ button' = [button EXCEPT !.busy = TRUE, !.flying = TRUE, !.failed = FALSE]
            /\ flights' = flights \cup {Flight(QuickSave, button.spot, last, NextTx)}
            /\ picker' = picker
    /\ UNCHANGED <<host, snapshot, last>>

\* The rows of the picker.
SelectOffered == button.picker /\ ~picker.loading /\ ~picker.saving /\ ~picker.creating /\ ~button.busy

HandleSelectCollection(c) ==
    /\ SelectOffered /\ c \in picker.listed
    /\ Requests("pick", button.spot, c)
    /\ picker' = [picker EXCEPT !.saving = TRUE]
    /\ flights' = flights \cup {Flight("pick", button.spot, c, NextTx)}
    /\ UNCHANGED <<host, button, snapshot, last>>

HandleCreateCollection ==
    /\ SelectOffered
    /\ PostCollection(Viewer, "friends")
    /\ picker' = [picker EXCEPT !.creating = TRUE]
    /\ flights' = flights \cup {Flight("create", button.spot, 0, NextTx)}
    /\ UNCHANGED <<host, button, snapshot, last, disturbed>>

\* The collection is created: the spot it was created for is saved to it.
Created(f) ==
    LET c == tx[f.tx].got
    IN  /\ f.kind = "create" /\ tx[f.tx].at = "answered"
        /\ Requests("pick", f.spot, c)
        /\ picker' = IF f.own THEN [picker EXCEPT !.listed = @ \cup {c}, !.saving = TRUE]
                      ELSE picker
        /\ flights' = (flights \ {f}) \cup
                          {[Flight("pick", f.spot, c, NextTx) EXCEPT !.own = f.own]}
        /\ UNCHANGED <<host, button, snapshot, last>>

-----------------------------------------------------------------------------
\* The button follows an initialSaved that changes.
Follows(b, given) ==
    IF given = b.initial THEN b ELSE [b EXCEPT !.initial = given, !.saved = given]

\* onSavedChange of the spot the request was for.
Told(s, saved) == IF host = "card" THEN [snapshot EXCEPT ![s] = saved] ELSE snapshot

\* The spot was saved, to the collection it was sent to.
Stored(f) ==
    /\ tx[f.tx].answer = "ok"
    /\ IsSpot(tx[f.tx].got) => spot[tx[f.tx].got].col = f.col

Current(f) == f.spot = button.spot

Landed(b) == [b EXCEPT !.flying = FALSE]

Consumed(f) == tx' = [tx EXCEPT ![f.tx] = Over] /\ UNCHANGED tables

\* A tap's save is answered.  A failure opens the picker.
SaveAnswered(f, failed) ==
    LET ok == ~failed /\ Stored(f)
        freed == [Landed(button) EXCEPT !.busy = FALSE]
    IN  /\ f.kind = "save" /\ f.own
        /\ last' = IF ok THEN f.col ELSE last
        /\ IF ~Current(f)
           THEN /\ button' = Landed(button)
                /\ flights' = flights \ {f} /\ UNCHANGED <<picker, snapshot>>
           ELSE IF ok
           THEN /\ snapshot' = Told(f.spot, TRUE)
                /\ button' = Follows([freed EXCEPT !.saved = TRUE, !.picker = FALSE],
                                     snapshot'[button.spot])
                /\ picker' = [picker EXCEPT !.loading = FALSE]
                /\ flights' = Cancelled(flights \ {f})
           ELSE /\ button' = [freed EXCEPT !.picker = TRUE, !.failed = TRUE]
                /\ picker' = IF button.picker THEN picker ELSE [picker EXCEPT !.loading = TRUE]
                /\ flights' = (flights \ {f}) \cup
                      (IF button.picker THEN {} ELSE {Flight("list", button.spot, 0, 0)})
                /\ UNCHANGED snapshot

UnsaveAnswered(f, failed) ==
    LET ok == ~failed /\ tx[f.tx].answer = "ok"
        freed == [Landed(button) EXCEPT !.busy = FALSE]
    IN  /\ f.kind = "unsave" /\ f.own
        /\ snapshot' = IF Current(f) /\ ok THEN Told(f.spot, FALSE) ELSE snapshot
        /\ button' = IF ~Current(f) THEN Landed(button)
                     ELSE IF ok THEN Follows([freed EXCEPT !.saved = FALSE], snapshot'[button.spot])
                     ELSE [freed EXCEPT !.failed = TRUE]
        /\ flights' = flights \ {f}
        /\ UNCHANGED <<picker, last>>

\* The picker's save is answered: the button shows it, whatever its spot is now.
PickAnswered(f, failed) ==
    LET ok == ~failed /\ Stored(f)
    IN  /\ f.kind = "pick" /\ f.own
        /\ last' = IF ok THEN f.col ELSE last
        /\ snapshot' = IF ok THEN Told(f.spot, TRUE) ELSE snapshot
        /\ button' = IF ok THEN Follows([button EXCEPT !.saved = TRUE, !.picker = FALSE],
                                        snapshot'[button.spot])
                     ELSE button
        /\ picker' = [picker EXCEPT !.saving = FALSE, !.creating = FALSE,
                                    !.loading = @ /\ ~ok]
        /\ flights' = IF ok THEN Cancelled(flights \ {f}) ELSE flights \ {f}

CreateFails(f) ==
    /\ f.kind = "create"
    /\ picker' = IF f.own THEN [picker EXCEPT !.creating = FALSE] ELSE picker
    /\ flights' = flights \ {f}
    /\ UNCHANGED <<button, snapshot, last>>

\* The card that asked is gone: the feed is told, and the card there is now follows.
OrphanAnswered(f, failed) ==
    LET ok == ~failed /\ (IF f.kind = "unsave" THEN tx[f.tx].answer = "ok" ELSE Stored(f))
    IN  /\ f.kind \in Saves /\ ~f.own
        /\ last' = IF ok /\ f.kind # "unsave" THEN f.col ELSE last
        /\ snapshot' = IF ok THEN Told(f.spot, f.kind # "unsave") ELSE snapshot
        /\ button' = Follows(button, snapshot'[button.spot])
        /\ flights' = flights \ {f}
        /\ UNCHANGED picker

Answered(f, failed) ==
    \/ SaveAnswered(f, failed) \/ UnsaveAnswered(f, failed)
    \/ PickAnswered(f, failed) \/ OrphanAnswered(f, failed)

AnswerArrives(f) ==
    /\ f.kind \in Saves /\ tx[f.tx].at = "answered" /\ Consumed(f)
    /\ Answered(f, FALSE)
    /\ UNCHANGED <<host, disturbed>>

\* The request fails for the browser: the server may work on it, or be done.
RequestFails(f) ==
    /\ f.kind # "list"
    /\ Answered(f, TRUE) \/ CreateFails(f)
    /\ disturbed' = TRUE
    /\ UNCHANGED <<libraryVars, host>>

\* The page shows another spot: the button starts anew, the sheet is closed.
Navigate(s) ==
    /\ host = "page" /\ s # button.spot
    /\ button' = Button(s, snapshot[s])
    /\ picker' = [picker EXCEPT !.loading = FALSE]
    /\ flights' = Cancelled(flights)
    /\ disturbed' = (disturbed \/ Awaited({"pick", "create"}) # {})
    /\ UNCHANGED <<libraryVars, host, snapshot, last>>

\* The feed mounts the card anew, with what it was told.
Remount ==
    /\ host = "card"
    /\ button' = Button(button.spot, snapshot[button.spot])
    /\ picker' = ClosedPicker
    /\ flights' = {[f EXCEPT !.own = FALSE] : f \in Cancelled(flights)}
    /\ UNCHANGED <<libraryVars, host, snapshot, last, disturbed>>

Server == (\E i \in TxIds : Statement(i)) /\ UNCHANGED screenVars

Next ==
    \/ OpenPicker \/ ClosePicker \/ Tap \/ HandleCreateCollection \/ Remount \/ Server
    \/ \E c \in picker.listed : HandleSelectCollection(c)
    \/ \E f \in flights :
          ListArrives(f) \/ Created(f) \/ AnswerArrives(f) \/ RequestFails(f)
    \/ \E s \in Saveable : Navigate(s)

Spec == Init /\ [][Next]_vars

-----------------------------------------------------------------------------
\* The values the variables take.
TypeOK ==
    /\ LibraryTypeOK /\ host \in {"page", "card"}
    /\ button.spot \in Saveable /\ DOMAIN snapshot = Saveable
    /\ picker.listed \subseteq Collections /\ last \in {0} \cup Collections
    /\ \A f \in flights : f.kind \in Saves \cup {"list", "create"}

\* What the theorems ask of the constants: the answers of the viewer are awaited, the host
\* shows spots of others, and the tables at the start are tables without a second copy.
SaveConstants ==
    /\ LibraryConstants
    /\ Viewer \in Users \cap Watchers
    /\ Saveable \subseteq Spots /\ Saveable # {}
    /\ \A s \in Saveable : Start.spot[s].by \notin {Nobody, Viewer}
    /\ \A s, t \in Spots :
          /\ Start.spot[s].source # 0 /\ Start.spot[s].source = Start.spot[t].source
          /\ Start.spot[s].by # Nobody /\ Start.spot[s].by = Start.spot[t].by
          => s = t

\* #283: in one tab, whatever is saved and removed one after the other and wherever the
\* page goes while a tap's request is awaited, a spot has one copy at most, and the button
\* shows it as saved only if it has one: a tap never removes a copy that is not there.
\* It says nothing once two requests for a spot overlapped (then the code does make two
\* copies), one lost its answer, or the page went on while the sheet was saving (then the
\* code does mark the new spot as saved: handlePickerSaved does not look at the spot).
SavedIsTrue ==
    ~disturbed =>
        /\ OneCopyPerSpot
        /\ (button.saved /\ ~Overlaps(button.spot)) => SavedByMe(Viewer, button.spot)
=============================================================================
