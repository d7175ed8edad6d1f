----------------------------- MODULE JsonStream -----------------------------
(***************************************************************************)
(* The answer of the agent engine is a stream of JSON objects that arrives *)
(* in chunks cut anywhere (stream-parser, agent-stream-query): complete    *)
(* objects are drained from a buffer, the rest waits for the next chunk.   *)
(*                                                                         *)
(* Of the characters only those the scanner tells apart are modelled, and  *)
(* none of them is anything else: outside a string an escape is any other  *)
(* character, inside one a bracket is.  An object that does not parse is   *)
(* dropped for what it is, wherever it was cut: it is kept here.           *)
(***************************************************************************)
EXTENDS Integers, Sequences, SequencesExt

CONSTANTS
    MaxChars,     \* characters of a body (bound of the model)
    MaxChunk      \* characters of a chunk (bound of the model)

VARIABLES
    body,         \* what arrived so far
    buffer,       \* what waits for its end
    drained       \* the objects found, in their order

vars == <<body, buffer, drained>>

Chars == {"{", "}", "quote", "escape"}

-----------------------------------------------------------------------------
Start == [depth |-> 0, start |-> 0, inString |-> FALSE, escape |-> FALSE,
          cursor |-> 0, events |-> <<>>]

InString(s, ch) ==
    IF s.escape THEN [s EXCEPT !.escape = FALSE]
    ELSE [s EXCEPT !.escape = (ch = "escape"), !.inString = (ch # "quote")]

Opens(s, i) == [s EXCEPT !.depth = @ + 1, !.start = IF s.depth = 0 THEN i ELSE @]

Closes(s, raw, i) ==
    IF s.depth > 1 THEN [s EXCEPT !.depth = @ - 1]
    ELSE [s EXCEPT !.depth = 0, !.start = 0, !.cursor = i,
                   !.events = Append(@, SubSeq(raw, s.start, i))]

ScanChar(s, raw, i) ==
    CASE s.inString -> InString(s, raw[i])
      [] ~s.inString /\ raw[i] = "quote" -> [s EXCEPT !.inString = TRUE]
      [] ~s.inString /\ raw[i] = "{" -> Opens(s, i)
      [] ~s.inString /\ raw[i] = "}" /\ s.depth > 0 -> Closes(s, raw, i)
      [] OTHER -> s

ScanJsonObjects(raw) ==
    LET s == FoldLeft(LAMBDA t, i : ScanChar(t, raw, i), Start, [i \in DOMAIN raw |-> i])
    IN  [events |-> s.events, remainder |-> SubSeq(raw, s.cursor + 1, Len(raw))]

-----------------------------------------------------------------------------
Init == body = <<>> /\ buffer = <<>> /\ drained = <<>>

\* The reader's loop: a chunk is put behind the buffer, whose objects are drained.
DrainStreamBuffer(chunk) ==
    /\ Len(body) + Len(chunk) <= MaxChars
    /\ body' = body \o chunk
    /\ LET d == ScanJsonObjects(buffer \o chunk)
       IN  buffer' = d.remainder /\ drained' = drained \o d.events

Next == \E n \in 1..MaxChunk : \E chunk \in [1..n -> Chars] : DrainStreamBuffer(chunk)

Spec == Init /\ [][Next]_vars

-----------------------------------------------------------------------------
TypeOK ==
    /\ body \in Seq(Chars) /\ buffer \in Seq(Chars)
    /\ \A i \in DOMAIN drained : drained[i] \in Seq(Chars)

\* However the body is cut into chunks, the same objects are found as in all of it, and
\* what waits is what follows the last of them: no object is lost, found twice or cut.
CutsDoNotMatter ==
    LET whole == ScanJsonObjects(body)
    IN  drained = whole.events /\ buffer = whole.remainder
=============================================================================
