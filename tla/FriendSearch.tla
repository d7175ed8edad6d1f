---------------------------- MODULE FriendSearch ----------------------------
(***************************************************************************)
(* The search for users on the friends screen (use-friend-search.ts): what *)
(* is typed is asked for after 300 ms without another letter, an answer    *)
(* counts until the next letter only, and users change their names         *)
(* meanwhile.  A query is what is typed without the blanks around it; the  *)
(* order of the users found and their limit of 20 are left out.            *)
(***************************************************************************)
EXTENDS Naturals, FiniteSets

CONSTANTS Queries, People, NoText, MaxAsked

SearchConstants == NoText \notin Queries

VARIABLES
    named,     \* the users a query finds
    search,    \* state of useFriendSearch
    requests,  \* of it: the first letter typed after one cancels it
    current    \* what the query found at some time since it was typed

vars == <<named, search, requests, current>>

NoSearch ==
    [query |-> NoText, results |-> {}, searching |-> FALSE, error |-> FALSE, timer |-> FALSE]

Requests ==
    [id : 1 .. MaxAsked, query : Queries, cancelled : BOOLEAN,
     at : {"sent", "answered", "failed"}, users : SUBSET People]

Init ==
    /\ named \in [Queries -> SUBSET People]
    /\ search = NoSearch /\ requests = {} /\ current = {}

Cancelled == {[r EXCEPT !.cancelled = TRUE] : r \in requests}

\* handleSearchQueryChange with nothing left to search for.
Cleared == NoSearch

\* A letter, or a blank around the query; the effect of the earlier text is cleaned up.
HandleSearchQueryChange(q) ==
    /\ search' = IF q = NoText THEN Cleared ELSE [search EXCEPT !.query = q, !.timer = TRUE]
    /\ requests' = Cancelled
    /\ current' = IF q = NoText THEN {} ELSE {named[q]}
    /\ UNCHANGED named

\* After SEARCH_DEBOUNCE_MS.
TimerFires ==
    /\ search.timer
    /\ search' = [search EXCEPT !.timer = FALSE, !.searching = TRUE]
    /\ \E i \in 1 .. MaxAsked :
          /\ \A r \in requests : r.id # i
          /\ requests' = requests \cup {[id |-> i, query |-> search.query, cancelled |-> FALSE,
                                   at |-> "sent", users |-> {}]}
    /\ UNCHANGED <<named, current>>

\* searchUsers on the server, or an error on the way.
SearchUsers(r) ==
    /\ r.at = "sent"
    /\ requests' = (requests \ {r}) \cup {[r EXCEPT !.at = "answered", !.users = named[r.query]]}
    /\ UNCHANGED <<named, search, current>>

SearchFails(r) ==
    /\ r.at = "sent"
    /\ requests' = (requests \ {r}) \cup {[r EXCEPT !.at = "failed"]}
    /\ UNCHANGED <<named, search, current>>

Heard(r) == ~r.cancelled

AnswerArrives(r) ==
    /\ r.at \in {"answered", "failed"}
    /\ requests' = requests \ {r}
    /\ search' = IF ~Heard(r) THEN search
                 ELSE [search EXCEPT !.searching = FALSE, !.error = r.at = "failed",
                                     !.results = r.users]
    /\ UNCHANGED <<named, current>>

\* The friends screen is left: its state goes, its requests do not.
Leave ==
    /\ search' = NoSearch /\ requests' = Cancelled /\ current' = {}
    /\ UNCHANGED named

\* Users join or change their names.
NamesChange(q, users) ==
    /\ named' = [named EXCEPT ![q] = users]
    /\ current' = IF q = search.query THEN current \cup {users} ELSE current
    /\ UNCHANGED <<search, requests>>

Next ==
    \/ \E q \in Queries \cup {NoText} : HandleSearchQueryChange(q)
    \/ TimerFires \/ Leave
    \/ \E r \in requests : SearchUsers(r) \/ SearchFails(r) \/ AnswerArrives(r)
    \/ \E q \in Queries, users \in SUBSET People : NamesChange(q, users)

Spec == Init /\ [][Next]_vars

-----------------------------------------------------------------------------
\* The values the variables take.
TypeOK ==
    /\ named \in [Queries -> SUBSET People]
    /\ search \in [query : Queries \cup {NoText}, results : SUBSET People,
                   searching : BOOLEAN, error : BOOLEAN, timer : BOOLEAN]
    /\ requests \subseteq Requests
    /\ current \subseteq SUBSET People

Awaited == search.timer \/ \E r \in requests : ~r.cancelled

\* At rest the list is what the query found since it was typed, never what an earlier
\* one found; an empty field shows nothing; and the spinner is on only while an answer
\* is to come that will end it.
SearchIsTrue ==
    /\ search.query # NoText /\ ~Awaited /\ ~search.error => search.results \in current
    /\ search.query = NoText => search = NoSearch
    /\ search.searching => Awaited
=============================================================================
