----------------------------- MODULE AgentReply -----------------------------
(***************************************************************************)
(* One turn with the agent, on the server (message-client,                 *)
(* resolve-agent-turn): what the model writes is streamed by two authors,  *)
(* cleaned of what is not for the user, and becomes a bubble with a        *)
(* recommendation, with cards of candidates, or with neither.  A model     *)
(* writes anything; shops are taken from the database only.                *)
(*                                                                         *)
(* A text is a sequence of lines and a line is what the code tells of it:  *)
(* see Kinds.  Two lines of a kind look the same.  A line that is partly   *)
(* narration is two lines.                                                 *)
(***************************************************************************)
EXTENDS Integers, Sequences, FiniteSets, SequencesExt

CONSTANTS
    Spots,        \* spots of the database
    DemoSpots,    \* those of the demo personas, which the demo viewer sees
    Invented,     \* a spot of no database
    DemoMode,     \* AGENT_DEMO_MODE
    MaxCandidates,
    MaxLines      \* lines of a reply (bound of the model)

VARIABLES
    visible,      \* spots the user sees
    kept,         \* the latest recommendation in the consultation's history
    turn          \* the turn under way

vars == <<visible, kept, turn>>

None == "none"

\* "reasoning" begins with a label of the model's thinking; "note" has no Japanese;
\* "delegates" speaks to a persona, "refers" quotes its collection, "names" names it;
\* "ack" is all there is in it; "claims" recommends and "wonders" asks.
Internal == {"reasoning", "note"}
Kinds == Internal \cup {"delegates", "refers", "ack", "claims", "wonders", "names", "says"}
Line(k) == [kind |-> k, spot |-> None, right |-> TRUE]
Marker(s, right) == [kind |-> "marker", spot |-> s, right |-> right]
Lines ==
    {Line(k) : k \in Kinds} \cup {Marker(s, r) : s \in Spots, r \in BOOLEAN} \cup
    {Marker(Invented, TRUE)}

\* What the server says itself.
CandidateOnlyReply == Line("candidates")
CandidateResolutionFailed == Line("no_candidates")
RecommendationResolutionFailed == Line("no_recommendation")
Assertion == Line("assertion")

NoMessage == [text |-> <<>>, recommendation |-> None, candidateSpots |-> <<>>]
NoTurn ==
    [at |-> "idle", asks |-> "", tapped |-> None, pin |-> None, active |-> None,
     orchestrator |-> <<>>, persona |-> <<>>, saw |-> {}, message |-> NoMessage]

Has(text, kinds) == \E i \in DOMAIN text : text[i].kind \in kinds
Without(text, kinds) == SelectSeq(text, LAMBDA l : l.kind \notin kinds)

-----------------------------------------------------------------------------
(***************************************************************************)
(* What is cut out of a text.                                              *)
(***************************************************************************)
\* Leaked thinking is at the start of a text: up to the first line that is for the user.
StripLeakedThinkingText(text) ==
    IF text = <<>> \/ Head(text).kind # "reasoning" THEN text
    ELSE LET replies == {i \in DOMAIN text : text[i].kind \notin Internal}
         IN  IF replies = {} THEN <<>>
             ELSE SubSeq(text, CHOOSE i \in replies : \A j \in replies : i <= j, Len(text))

StripDelegationNarration(text) == Without(text, {"delegates"})
StripPersonaReferenceLines(text) == Without(text, {"refers"})
SanitizeAgentReplyText(text) ==
    StripPersonaReferenceLines(StripDelegationNarration(StripLeakedThinkingText(text)))

\* Personas have names in texts that are not shown yet.
SanitizeAgentPublicText(text) ==
    LET clean == SanitizeAgentReplyText(text)
    IN  [i \in DOMAIN clean |-> IF clean[i].kind = "names" THEN Line("says") ELSE clean[i]]

IsThinOrchestratorReply(text) == Len(text) = 1 /\ text[1].kind = "ack"
ResolveAgentReplyText(orchestrator, persona) ==
    LET primary == SanitizeAgentReplyText(orchestrator)
        fallback == SanitizeAgentReplyText(persona)
    IN  IF primary = <<>> THEN fallback
        ELSE IF IsThinOrchestratorReply(primary) /\ fallback # <<>>
                /\ ~IsThinOrchestratorReply(fallback)
             THEN fallback ELSE primary

IsAgentAssertionTurn(text) == Has(text, {"claims"}) /\ ~Has(text, {"wonders", "candidates"})

-----------------------------------------------------------------------------
(***************************************************************************)
(* Markers of candidates: the first of each spot, the first of them all.   *)
(***************************************************************************)
AddMarker(markers, m) ==
    IF Len(markers) >= MaxCandidates \/ (\E i \in DOMAIN markers : markers[i].spot = m.spot)
    THEN markers ELSE Append(markers, m)
ExtractCandidateSpotMarkers(text) ==
    LET markers == FoldLeft(AddMarker, <<>>, SelectSeq(text, LAMBDA l : l.kind = "marker"))
        cleaned == Without(text, {"marker"})
    IN  [markers |-> markers,
         text |-> IF markers # <<>> /\ cleaned = <<>> THEN <<CandidateOnlyReply>> ELSE cleaned]
MergeCandidateSpotMarkers(first, second, third) ==
    FoldLeft(AddMarker, <<>>, first \o second \o third)

\* The resolved text goes before what its author wrote and it left out.
CandidateMarkerBundle(t) ==
    LET resolved == ExtractCandidateSpotMarkers(ResolveAgentReplyText(t.orchestrator, t.persona))
    IN  [text |-> resolved.text,
         candidateMarkers |-> MergeCandidateSpotMarkers(
             resolved.markers,
             ExtractCandidateSpotMarkers(t.orchestrator).markers,
             ExtractCandidateSpotMarkers(t.persona).markers)]

\* Markers make cards; an assertion without any needs a recommendation, of the place the
\* user asks about if there is one.
Route(t) ==
    LET bundle == CandidateMarkerBundle(t)
    IN  [text |-> bundle.text, markers |-> bundle.candidateMarkers,
         useCandidateCards |-> bundle.candidateMarkers # <<>>,
         needsAssertionRecommendation |->
             bundle.candidateMarkers = <<>> /\ IsAgentAssertionTurn(bundle.text),
         anchor |-> IF t.pin # None THEN t.pin
                    ELSE t.active]

DisplayText(route, recommendation, candidateSpots) ==
    IF recommendation # None THEN <<Assertion>>
    ELSE IF route.useCandidateCards
         THEN IF candidateSpots # <<>> THEN <<CandidateOnlyReply>> ELSE <<CandidateResolutionFailed>>
    ELSE IF route.needsAssertionRecommendation THEN <<RecommendationResolutionFailed>>
    ELSE SanitizeAgentPublicText(route.text)

-----------------------------------------------------------------------------
(***************************************************************************)
(* The database, as the user sees it and as the demo viewer does.          *)
(***************************************************************************)
ResolveCandidateSpotRows(seen, markers) ==
    SelectSeq(markers, LAMBDA m : m.spot \in seen /\ m.right)
BuildAgentCandidateSpots(markers) ==
    LET resolved == ResolveCandidateSpotRows(visible, markers)
    IN  IF resolved = <<>> /\ DemoMode THEN ResolveCandidateSpotRows(DemoSpots, markers)
        ELSE resolved

\* The spot of a tapped card, unless it went meanwhile.
CandidatePinContext(s) ==
    IF s \in visible \/ (DemoMode /\ s \in DemoSpots) THEN s ELSE None

\* The rules prefer some visible spot to another; one that is asked for has no substitute.
Picks(anchor) ==
    IF anchor # None THEN {anchor} \cap visible ELSE visible

-----------------------------------------------------------------------------
Init == visible \in SUBSET Spots /\ kept = None /\ turn = NoTurn

\* A friendship or a spot comes or goes.
SpotsChange ==
    /\ \E s \in Spots : visible' = (visible \ {s}) \cup ({s} \ visible)
    /\ UNCHANGED <<kept, turn>>

\* sendAgentMessage up to the query: each of the two reads may fail, and then counts as
\* nothing found.  The active recommendation matters to who asks about the same place.
Ask(asks, tapped, active, pin) ==
    /\ turn.at = "idle"
    /\ active \in {kept, None} /\ pin \in {None, CandidatePinContext(tapped)}
    /\ asks = "candidate" <=> tapped # None
    /\ asks # "same place" => active = None
    /\ turn' = [NoTurn EXCEPT !.at = "streams", !.asks = asks, !.tapped = tapped, !.pin = pin,
                              !.active = active]
    /\ UNCHANGED <<visible, kept>>

\* An event with text of one of the authors.
ApplyStreamEvent(author, line) ==
    /\ turn.at = "streams"
    /\ Len(turn.orchestrator) + Len(turn.persona) < MaxLines
    /\ turn' = [turn EXCEPT ![author] = Append(@, line)]
    /\ UNCHANGED <<visible, kept>>

\* The request, an event of the stream or the database fails: the user sees an error.
TurnFails ==
    /\ turn.at \in {"streams", "recommends"}
    /\ turn' = NoTurn /\ UNCHANGED <<visible, kept>>

\* The stream ends.  No text is an error; else the route is chosen.
StreamEnds ==
    /\ turn.at = "streams"
    /\ LET route == Route(turn)
       IN  turn' =
             IF ResolveAgentReplyText(turn.orchestrator, turn.persona) = <<>> THEN NoTurn
             ELSE IF route.needsAssertionRecommendation THEN [turn EXCEPT !.at = "recommends"]
             ELSE IF route.useCandidateCards THEN [turn EXCEPT !.at = "matches"]
             ELSE [turn EXCEPT !.at = "answers",
                               !.message.text = DisplayText(route, None, <<>>)]
    /\ UNCHANGED <<visible, kept>>

Answers(recommendation, candidateSpots) ==
    turn' = [turn EXCEPT !.at = "answers", !.saw = visible, !.message =
        [text |-> DisplayText(Route(turn), recommendation, candidateSpots),
         recommendation |-> recommendation, candidateSpots |-> candidateSpots]]

BuildRecommendation ==
    /\ turn.at = "recommends"
    /\ LET picks == Picks(Route(turn).anchor)
       IN  IF picks = {} THEN Answers(None, <<>>) ELSE \E s \in picks : Answers(s, <<>>)
    /\ UNCHANGED <<visible, kept>>

\* A failure of the database leaves no cards.
BuildCandidates ==
    /\ turn.at = "matches"
    /\ \/ Answers(None, BuildAgentCandidateSpots(Route(turn).markers))
       \/ Answers(None, <<>>)
    /\ UNCHANGED <<visible, kept>>

\* The history is written when it can be; the answer goes to the user anyway, so that the
\* user may have been shown a later recommendation than the history has.
PersistAgentTurn(written) ==
    /\ turn.at = "answers"
    /\ kept' = IF written /\ turn.message.recommendation # None
               THEN turn.message.recommendation ELSE kept
    /\ turn' = NoTurn /\ UNCHANGED visible

Next ==
    \/ SpotsChange
    \/ \E asks \in {"anything", "same place", "candidate"}, tapped \in Spots \cup {None},
          active \in Spots \cup {None}, pin \in Spots \cup {None} : Ask(asks, tapped, active, pin)
    \/ \E author \in {"orchestrator", "persona"}, line \in Lines : ApplyStreamEvent(author, line)
    \/ StreamEnds \/ BuildRecommendation \/ BuildCandidates \/ TurnFails
    \/ \E written \in BOOLEAN : PersistAgentTurn(written)

Spec == Init /\ [][Next]_vars
-----------------------------------------------------------------------------
TypeOK ==
    /\ visible \subseteq Spots /\ kept \in Spots \cup {None}
    /\ turn.at \in {"idle", "streams", "recommends", "matches", "answers"}
    /\ {turn.tapped, turn.pin, turn.active} \subseteq Spots \cup {None}
    /\ turn.orchestrator \in Seq(Lines) /\ turn.persona \in Seq(Lines) /\ turn.saw \subseteq Spots

\* Markers of a text, the spots they name, and those that deserve a card.
Marked == {l \in Range(turn.orchestrator \o turn.persona) : l.kind = "marker"}
Named == {l.spot : l \in Marked}
Deserving == {s \in Named \cap turn.saw : \A l \in Marked : l.spot = s => l.right}
Carded == {c.spot : c \in Range(turn.message.candidateSpots)}

\* Nothing of the agents' talk is shown: no marker, no narration, no persona, and no
\* thinking at the start of a bubble.  A bubble is blank only where thinking leaked behind
\* narration (each is cut out once before the author is chosen).
TalkStaysInside ==
    turn.at = "answers" =>
        LET text == turn.message.text
        IN  /\ ~Has(text, {"marker", "delegates", "refers", "names"})
            /\ text # <<>> => Head(text).kind # "reasoning"
            /\ text = <<>> => \E author \in {"orchestrator", "persona"} :
                  \E i, j \in DOMAIN turn[author] :
                      /\ i < j /\ turn[author][i].kind \in {"delegates", "refers"}
                      /\ turn[author][j].kind \in Internal

\* Every shop on a card is one the user saw then (or, in demo mode, a demo persona's), of
\* the right place and once, and no deserving one is left out however the two authors
\* wrote it, unless there are too many.
CardsAreReal ==
    turn.at = "answers" =>
        LET cards == turn.message.candidateSpots
        IN  /\ Len(cards) <= MaxCandidates /\ Cardinality(Carded) = Len(cards)
            /\ \A i \in DOMAIN cards : cards[i] \in Marked /\ cards[i].right
            /\ Carded \subseteq turn.saw \/ (DemoMode /\ Carded \subseteq DemoSpots)
            /\ cards # <<>> /\ Cardinality(Named) <= MaxCandidates => Deserving \subseteq Carded
            /\ cards # <<>> => turn.message.recommendation = None

\* A claim of the model is shown only beside a question; else a shop of the database is
\* recommended in its place, or none with an apology.  Who asks about a shop, on a card
\* or the latest in the history, is not recommended another, as long as the reads before
\* the query found it.
ClaimsAreBacked ==
    turn.at = "answers" =>
        LET m == turn.message
        IN  /\ Has(m.text, {"claims"}) => Has(m.text, {"wonders"})
            /\ m.recommendation # None => m.recommendation \in turn.saw
            /\ m.recommendation # None /\ turn.pin # None => m.recommendation = turn.tapped
            /\ m.recommendation # None /\ turn.asks = "same place" /\ turn.active # None
                  => m.recommendation = kept
=============================================================================
