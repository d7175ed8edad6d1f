------------------------------- MODULE Places -------------------------------
(***************************************************************************)
(* What apps/web shows of a place of Google Maps.  It is never stored: a   *)
(* server process keeps an answer of Google for a while, the browser keeps *)
(* the server's answer for a while again, and both let concurrent          *)
(* requests share one (places-response-cache, place-client-cache).         *)
(*                                                                         *)
(* (docs/erd-api.md, guard rail 7, says that the endpoint of a place is    *)
(* not cached; the code caches it twice, to be billed less.)               *)
(*                                                                         *)
(* Time goes in ticks.  An answer carries its age, the ticks since Google  *)
(* gave it; how long an answer travels is bounded by Lag.                  *)
(***************************************************************************)
EXTENDS Integers, Sequences, FiniteSets, SequencesExt

CONSTANTS
    Ids,          \* places the browser shows
    OtherKeys,    \* what else the server keeps of places: kind and id
    Hooks,        \* components that show places (usePlace, usePlaceNames)
    TTL,          \* the life of a cached answer
    MaxEntries,   \* entries the server keeps
    Lag           \* ticks an answer travels (bound of the model)

PlacesConstants ==
    /\ TTL \in Nat \ {0} /\ MaxEntries \in Nat /\ Lag \in Nat
    /\ \A k \in OtherKeys : k.kind # "details"

VARIABLES
    store,        \* the server's answers, in the order of a Map
    inflight,     \* the server's requests to Google, by key
    cache,        \* the browser's answers, by place
    fetching,     \* the browser's requests, by place
    hooks         \* what the components await, and what the answers to it said

vars == <<store, inflight, cache, fetching, hooks>>

Details(id) == [kind |-> "details", id |-> id]
Keys == {Details(id) : id \in Ids} \cup OtherKeys

\* The oldest an answer may be when it is shown, and one that is older.
Oldest == 2 * (TTL - 1) + 2 * Lag
TooOld == Oldest + 1
Missing == -1                   \* no such place, or no answer
Ages == Missing .. TooOld
Older(age) == IF age = Missing \/ age = TooOld THEN age ELSE age + 1

NoRequest == [at |-> "none", age |-> Missing, lag |-> 0]
NoEntry == [age |-> Missing, left |-> 0]
Idle == [ids |-> {}, left |-> {}, got |-> [id \in Ids |-> Missing], lost |-> FALSE]

Init ==
    /\ store = <<>> /\ inflight = [k \in Keys |-> NoRequest]
    /\ cache = [id \in Ids |-> NoEntry] /\ fetching = [id \in Ids |-> NoRequest]
    /\ hooks = [h \in Hooks |-> Idle]

-----------------------------------------------------------------------------
(***************************************************************************)
(* The server.                                                             *)
(***************************************************************************)
Hits(k) == {i \in DOMAIN store : store[i].key = k /\ store[i].left > 0}

Loading(k) ==
    inflight' = IF inflight[k].at = "none" THEN [inflight EXCEPT ![k].at = "asked"] ELSE inflight

\* GET of a place by the browser, and of anything by another.
GetPlace(id) ==
    /\ fetching[id].at = "sent"
    /\ LET k == Details(id)
       IN  IF Hits(k) # {}
           THEN /\ \E i \in Hits(k) :
                      fetching' = [fetching EXCEPT ![id] =
                          [at |-> "answered", age |-> store[i].age, lag |-> 0]]
                /\ UNCHANGED inflight
           ELSE fetching' = [fetching EXCEPT ![id].at = "awaits"] /\ Loading(k)
    /\ UNCHANGED <<store, cache, hooks>>
GetCachedPlacesResponse(k) ==
    /\ Hits(k) = {} /\ inflight[k].at = "none" /\ Loading(k)
    /\ UNCHANGED <<store, cache, fetching, hooks>>

\* What becomes of Google's answer: a value, null or an error.
PlaceDetails(r) == IF r = "found" THEN "value" ELSE IF r = "missing" THEN "null" ELSE "error"
PlaceBusinessStatus(r) == IF r \in {"found", "missing"} THEN "value" ELSE "error"
PlaceLocation(r) == IF r = "found" THEN "value" ELSE IF r = "lost" THEN "error" ELSE "null"
PlacePhotos(r) == IF r = "found" THEN "value" ELSE "error"
Loader(kind, r) ==
    CASE kind = "details" -> PlaceDetails(r)
      [] kind = "businessStatus" -> PlaceBusinessStatus(r)
      [] kind = "location" -> PlaceLocation(r)
      [] OTHER -> PlacePhotos(r)

GoogleAnswers(k, r) ==
    /\ inflight[k].at = "asked"
    /\ inflight' = [inflight EXCEPT ![k] =
          [at |-> "read", age |-> IF Loader(k.kind, r) = "value" THEN 0 ELSE Missing, lag |-> 0]]
    /\ UNCHANGED <<store, cache, fetching, hooks>>

\* An entry that is set again keeps its place in the Map; the expired ones go, then the
\* first ones while there are too many.
SetEntry(e) ==
    IF \E i \in DOMAIN store : store[i].key = e.key
    THEN [i \in DOMAIN store |-> IF store[i].key = e.key THEN e ELSE store[i]]
    ELSE Append(store, e)
PruneExpiredEntries(s) == SelectSeq(s, LAMBDA e : e.left > 0)
EnforceMaxEntries(s) ==
    IF Len(s) <= MaxEntries THEN s ELSE SubSeq(s, Len(s) - MaxEntries + 1, Len(s))

\* Only values are kept; whoever awaits the answer gets it (an error is none to them).
LoaderEnds(k) ==
    /\ inflight[k].at = "read"
    /\ inflight' = [inflight EXCEPT ![k] = NoRequest]
    /\ store' = IF inflight[k].age = Missing THEN store
                ELSE EnforceMaxEntries(PruneExpiredEntries(
                        SetEntry([key |-> k, age |-> inflight[k].age, left |-> TTL])))
    /\ fetching' = [id \in Ids |->
          IF Details(id) = k /\ fetching[id].at = "awaits"
          THEN [at |-> "answered", age |-> inflight[k].age, lag |-> 0] ELSE fetching[id]]
    /\ UNCHANGED <<cache, hooks>>

\* The process is replaced by another.
Restart ==
    /\ store' = <<>> /\ inflight' = [k \in Keys |-> NoRequest]
    /\ fetching' = [id \in Ids |-> IF fetching[id].at = "awaits"
                                   THEN [fetching[id] EXCEPT !.at = "lost"] ELSE fetching[id]]
    /\ UNCHANGED <<cache, hooks>>

-----------------------------------------------------------------------------
(***************************************************************************)
(* The browser.                                                            *)
(***************************************************************************)
Cached(id) == cache[id].left > 0

\* Each place from the cache, or from a request under way, or from a new one.
FetchPlaceDeduped(ids) ==
    fetching' = [id \in Ids |->
        IF id \in ids /\ ~Cached(id) /\ fetching[id].at = "none"
        THEN [NoRequest EXCEPT !.at = "sent"] ELSE fetching[id]]

\* The effect of a component that shows other places than before.  The answers to the
\* places before are ignored (cancelled).
Shows(h, ids) ==
    /\ hooks[h].ids # ids
    /\ hooks' = [hooks EXCEPT ![h] =
          [ids |-> ids, left |-> {id \in ids : ~Cached(id)}, lost |-> FALSE,
           got |-> [id \in Ids |-> IF id \in ids /\ Cached(id) THEN cache[id].age ELSE Missing]]]
    /\ FetchPlaceDeduped(ids)
    /\ UNCHANGED <<store, inflight, cache>>

\* One place, one that is disabled, and a list, whose names are all set when the last came.
UsePlace(h, id) == Shows(h, {id})
Disabled(h) == Shows(h, {})
UsePlaceNames(h) == Shows(h, Ids)

\* Only values are kept.
AnswerArrives(id) ==
    /\ fetching[id].at = "answered"
    /\ fetching' = [fetching EXCEPT ![id] = NoRequest]
    /\ cache' = IF fetching[id].age = Missing THEN cache
                ELSE [cache EXCEPT ![id] = [age |-> fetching[id].age, left |-> TTL]]
    /\ hooks' = [h \in Hooks |->
          IF id \notin hooks[h].left THEN hooks[h]
          ELSE [hooks[h] EXCEPT !.left = @ \ {id}, !.got[id] = fetching[id].age]]
    /\ UNCHANGED <<store, inflight>>

\* Nobody handles a request that is rejected: what awaits it shows nothing from there on.
RequestLost(id) ==
    /\ fetching[id].at \in {"sent", "awaits", "lost"}
    /\ fetching' = [fetching EXCEPT ![id] = NoRequest]
    /\ hooks' = [h \in Hooks |->
          IF id \in hooks[h].left THEN [hooks[h] EXCEPT !.lost = TRUE] ELSE hooks[h]]
    /\ UNCHANGED <<store, inflight, cache>>

\* The page is loaded again.
Reload ==
    /\ cache' = [id \in Ids |-> NoEntry] /\ fetching' = [id \in Ids |-> NoRequest]
    /\ hooks' = [h \in Hooks |-> Idle]
    /\ UNCHANGED <<store, inflight>>

Ticks(r) == [at |-> r.at, age |-> Older(r.age),
             lag |-> IF r.at \in {"read", "answered"} THEN r.lag + 1 ELSE r.lag]
Expires(e) == [e EXCEPT !.age = Older(@), !.left = IF @ > 0 THEN @ - 1 ELSE 0]
Tick ==
    /\ \A k \in Keys : inflight[k].at = "read" => inflight[k].lag < Lag
    /\ \A id \in Ids : fetching[id].at = "answered" => fetching[id].lag < Lag
    /\ inflight' = [k \in Keys |-> Ticks(inflight[k])]
    /\ fetching' = [id \in Ids |-> Ticks(fetching[id])]
    /\ store' = [i \in DOMAIN store |-> Expires(store[i])]
    /\ cache' = [id \in Ids |-> Expires(cache[id])]
    /\ UNCHANGED hooks

Next ==
    \/ Restart \/ Reload \/ Tick
    \/ \E id \in Ids : GetPlace(id) \/ AnswerArrives(id) \/ RequestLost(id)
    \/ \E k \in Keys :
          \/ GetCachedPlacesResponse(k) \/ LoaderEnds(k)
          \/ \E r \in {"found", "missing", "refused", "lost"} : GoogleAnswers(k, r)
    \/ \E h \in Hooks : Disabled(h) \/ UsePlaceNames(h) \/ \E id \in Ids : UsePlace(h, id)

Spec == Init /\ [][Next]_vars

-----------------------------------------------------------------------------
\* The values the variables take.
TypeOK ==
    /\ \A i \in DOMAIN store :
          store[i].key \in Keys /\ store[i].age \in Ages /\ store[i].left \in 0 .. TTL
    /\ \A k \in Keys : inflight[k].at \in {"none", "asked", "read"} /\ inflight[k].age \in Ages
    /\ \A id \in Ids : cache[id].age \in Ages /\ cache[id].left \in 0 .. TTL
    /\ \A id \in Ids : fetching[id].at \in {"none", "sent", "awaits", "answered", "lost"}
    /\ \A h \in Hooks : hooks[h].left \subseteq hooks[h].ids

\* Google's data is not stored (docs/erd-api.md, guard rail 7), but the code does keep it for
\* a while, where that document says it is not cached at all.  How much that is: through
\* both caches, and through requests that others began, no component is told what Google
\* said longer ago than two lives of an entry and the way of the answers; the
\* server keeps one entry per key and no more than it may; and a component waits only
\* while an answer to it is on its way or was lost.
PlacesAreFresh ==
    /\ \A h \in Hooks, id \in Ids : hooks[h].got[id] <= Oldest
    /\ Len(store) <= MaxEntries
    /\ \A i, j \in DOMAIN store : store[i].key = store[j].key => i = j
    /\ \A h \in Hooks : hooks[h].lost \/ \A id \in hooks[h].left : fetching[id].at # "none"
=============================================================================
