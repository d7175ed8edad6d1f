---------------------------- MODULE AgentEvents ----------------------------
(***************************************************************************)
(* The progress events of an agent turn in apps/web, for one user and one  *)
(* agent session.  A turn publishes thinking events and one done event:    *)
(* each is inserted in agent_session_events and then fanned out to the     *)
(* streams subscribed on the same server instance (lib/agent/event-bus).   *)
(* The browser opens an event stream before it posts a turn and reopens it *)
(* with Last-Event-ID until the turn ends (lib/agent/send-turn); the       *)
(* route replays, subscribes, and polls the table for what other instances *)
(* publish.                                                                *)
(*                                                                         *)
(* An insert takes its id in one step and becomes visible in the next.     *)
(* Requests, inserts, replays and polls end in any order or fail; the      *)
(* server learns late, or never, that a client is gone.                    *)
(***************************************************************************)
EXTENDS Integers, Sequences, FiniteSets, FiniteSetsExt

CONSTANTS
    Instances,     \* server instances
    BufferLimit,   \* AGENT_EVENT_BUFFER_LIMIT
    MaxTurns,      \* turns of the session (bound of the model)
    MaxThinking,   \* distinct thinking messages of a turn
    MaxStreams,    \* event streams the browser opens (bound of the model)
    MaxPolls       \* polls of one stream in flight at once (bound of the model)

\* The thinking messages are a fixed list, far shorter than the buffer.
ASSUME AgentEventsConstants ==
    /\ MaxTurns \in Nat \ {0} /\ MaxStreams \in Nat \ {0} /\ MaxPolls \in Nat \ {0}
    /\ MaxThinking \in Nat /\ Instances # {}
    /\ BufferLimit \in Nat /\ BufferLimit > MaxThinking

Turns == 1 .. MaxTurns
Streams == 1 .. MaxStreams
Done == 0
Ids == 1 .. MaxTurns * (MaxThinking + 1)
Rows == [id : Ids, turn : Turns, what : 0 .. MaxThinking]
\* The connected comment, a frame without id.
Connected == [id |-> 0, turn |-> 0, what |-> 0]

VARIABLES
    rows,     \* agent_session_events of the session
    lastId,   \* last id its sequence gave out
    turn,     \* server side of each turn: the streamQuery request
    stream,   \* server side of each event stream
    channel,  \* per instance, the listener set of the session (0: none)
    client    \* the browser's turn and its event loop

vars == <<rows, lastId, turn, stream, channel, client>>

TurnRecords ==
    [phase : {"none", "open", "finished"}, inst : Instances,
     thought : 0 .. MaxThinking, next : 1 .. MaxThinking + 2, held : {0} \cup Ids]

StreamRecords ==
    [phase : {"none", "checking", "read", "live"}, inst : Instances,
     after : {0} \cup Ids, last : {0} \cup Ids, replay : Seq(Rows),
     polls : SUBSET Seq(Rows), set : {0} \cup Streams, wire : Seq(Rows \cup {Connected}),
     closed : BOOLEAN, gone : BOOLEAN, listens : BOOLEAN]

ClientRecords ==
    [phase : {"idle", "opening", "posted"}, turn : {0} \cup Turns, ready : BOOLEAN,
     stream : {0} \cup Streams, after : {0} \cup Ids, got : Seq(Ids)]

AnyInstance == CHOOSE i \in Instances : TRUE

Init ==
    /\ rows = {} /\ lastId = 0
    /\ turn = [t \in Turns |-> [phase |-> "none", inst |-> AnyInstance,
                                thought |-> 0, next |-> 1, held |-> 0]]
    /\ stream = [s \in Streams |->
          [phase |-> "none", inst |-> AnyInstance, after |-> 0, last |-> 0,
           replay |-> <<>>, polls |-> {}, set |-> 0, wire |-> <<>>, closed |-> FALSE,
           gone |-> FALSE, listens |-> FALSE]]
    /\ channel = [i \in Instances |-> 0]
    /\ client = [phase |-> "idle", turn |-> 0, ready |-> FALSE, stream |-> 0,
                 after |-> 0, got |-> <<>>]

(***************************************************************************)
(* The table (lib/dal/agent-session-events.ts) and the replay rule         *)
(* (lib/agent/agent-event-replay.ts).                                      *)
(***************************************************************************)
\* Rows in the order of their ids: up to the k-th there are k.
InOrder(R) ==
    [k \in 1 .. Cardinality(R) |-> CHOOSE r \in R : Cardinality({q \in R : q.id <= r.id}) = k]

\* Of rows in order, those above an id.
Above(events, id) ==
    SubSeq(events, Cardinality({k \in DOMAIN events : events[k].id <= id}) + 1, Len(events))

\* The newest BufferLimit rows, oldest first.
Recent ==
    LET all == InOrder(rows)
    IN  SubSeq(all, Max({0, Len(all) - BufferLimit}) + 1, Len(all))

\* After a known id, what is newer; on a fresh connection, what follows the
\* last done event: nothing if that is the newest row.
ForReplay(events, after) ==
    IF after # 0
    THEN Above(events, after)
    ELSE LET dones == {i \in DOMAIN events : events[i].what = Done}
         IN  SubSeq(events, Max({0} \cup dones) + 1, Len(events))

Buffered(after) == ForReplay(Recent, after)

\* Mutated form of RowsAfter: the query starts one id too high.
RowsAfterNext(after) ==
    LET newer == InOrder({r \in rows : r.id > after + 1})
    IN  SubSeq(newer, 1, Min({BufferLimit, Len(newer)}))

\* The oldest BufferLimit rows above an id.
RowsAfter(after) ==
    LET newer == InOrder({r \in rows : r.id > after})
    IN  SubSeq(newer, 1, Min({BufferLimit, Len(newer)}))

(***************************************************************************)
(* One stream on the server (the events route).                            *)
(***************************************************************************)
\* Only an open stream with a client is followed: what is read and written for
\* a client that left reaches nobody.
Push(st, chunk) ==
    IF st.closed \/ st.gone THEN st ELSE [st EXCEPT !.wire = Append(@, chunk)]

\* Mutated form of PushDelivery: ids already sent are sent again.
PushAnyDelivery(st, row) ==
    IF st.gone THEN st ELSE [Push(st, row) EXCEPT !.last = row.id]

PushDelivery(st, row) ==
    IF st.gone \/ row.id <= st.last THEN st ELSE [Push(st, row) EXCEPT !.last = row.id]

\* One row after the other, as they come from the table in order: what is left out
\* are the first ones, up to the last id sent.
PushAll(st, deliveries) ==
    LET fresh == Above(deliveries, st.last)
    IN  IF st.gone \/ fresh = <<>> THEN st
        ELSE [st EXCEPT !.wire = @ \o fresh, !.last = fresh[Len(fresh)].id]

\* The listeners of an instance: the streams in the set its map holds.
Listeners(i) == {s \in Streams : stream[s].set # 0 /\ stream[s].set = channel[i]}

\* Mutated form of SubscriptionOf: every subscription makes a new set.
NewSubscriptionOf(s) == s

\* A listener set is named after the stream that created it.
SubscriptionOf(s) == LET c == channel[stream[s].inst] IN IF c = 0 THEN s ELSE c

Subscribed(s, st) ==
    /\ stream' = [stream EXCEPT ![s] = [st EXCEPT !.set = SubscriptionOf(s)]]
    /\ channel' = [channel EXCEPT ![st.inst] = SubscriptionOf(s)]

\* The last listener of a set deletes the channel, by its key.
Unsubscribed(s) ==
    IF stream[s].set # 0 /\ \A o \in Streams \ {s} : stream[o].set # stream[s].set
    THEN channel' = [channel EXCEPT ![stream[s].inst] = 0]
    ELSE UNCHANGED channel

CloseStream(s) ==
    IF stream[s].closed
    THEN UNCHANGED <<stream, channel>>
    ELSE /\ Unsubscribed(s)
         /\ stream' = [stream EXCEPT ![s].closed = TRUE, ![s].set = 0, ![s].polls = {},
                                     ![s].replay = <<>>, ![s].last = 0, ![s].after = 0]

\* The owner check is answered: the stream starts with what the client saw
\* last, listens for the abort of a request that is not aborted yet, and reads
\* its replay.
Start(s) ==
    /\ stream[s].phase = "checking" /\ ~stream[s].closed
    /\ stream' = [stream EXCEPT
          ![s].phase = "read", ![s].last = stream[s].after, ![s].listens = ~stream[s].gone,
          ![s].replay = IF stream[s].gone THEN <<>> ELSE Buffered(stream[s].after)]
    /\ UNCHANGED <<rows, lastId, turn, channel, client>>

ReplayFails(s) ==
    /\ stream[s].phase = "checking" /\ ~stream[s].closed
    /\ CloseStream(s)
    /\ UNCHANGED <<rows, lastId, turn, client>>

\* Replay, the connected comment, the subscription and the timers.
GoLive(s) ==
    LET sent == Push(PushAll(stream[s], stream[s].replay), Connected)
    IN  /\ stream[s].phase = "read" /\ ~stream[s].closed
        /\ Subscribed(s, [sent EXCEPT !.phase = "live", !.replay = <<>>])
        /\ UNCHANGED <<rows, lastId, turn, client>>

Polling(s) == stream[s].phase = "live" /\ ~stream[s].closed /\ ~stream[s].gone

\* Mutated form of PollRead: it polls from where the request started.
PollReadFromStart(s) ==
    /\ Polling(s) /\ Cardinality(stream[s].polls) < MaxPolls
    /\ stream' = [stream EXCEPT ![s].polls = @ \cup {RowsAfter(stream[s].after)}]
    /\ UNCHANGED <<rows, lastId, turn, channel, client>>

PollRead(s) ==
    /\ Polling(s) /\ Cardinality(stream[s].polls) < MaxPolls
    /\ stream' = [stream EXCEPT ![s].polls = @ \cup {RowsAfter(stream[s].last)}]
    /\ UNCHANGED <<rows, lastId, turn, channel, client>>

Applied(st, found) == [PushAll(st, found) EXCEPT !.polls = @ \ {found}]

\* (A poll that fails leaves no trace.)
PollApply(s) ==
    /\ Polling(s)
    /\ \E found \in stream[s].polls :
          stream' = [stream EXCEPT ![s] = Applied(stream[s], found)]
    /\ UNCHANGED <<rows, lastId, turn, channel, client>>

\* Mutated form of EnqueueThrows: the exception is swallowed.
EnqueueSwallowed(s) ==
    /\ stream[s].gone /\ stream[s].phase \in {"read", "live"} /\ ~stream[s].closed
    /\ UNCHANGED vars

\* Once the body of a response nobody reads is cancelled, an enqueue (at the
\* latest the next keepalive) throws.  That marks the stream closed, so the
\* abort does nothing any more and the subscription stays.
EnqueueThrows(s) ==
    /\ stream[s].gone /\ stream[s].phase \in {"read", "live"} /\ ~stream[s].closed
    /\ stream' = [stream EXCEPT ![s].closed = TRUE]
    /\ UNCHANGED <<rows, lastId, turn, channel, client>>

\* The request is aborted, if it was not before the route listened for it.
Abort(s) ==
    /\ stream[s].gone /\ stream[s].listens /\ ~stream[s].closed
    /\ CloseStream(s)
    /\ UNCHANGED <<rows, lastId, turn, client>>

(***************************************************************************)
(* One turn on the server (lib/agent/agent-stream-query.ts).               *)
(***************************************************************************)
\* The model's stream is refused, and no event is published, or it yields some
\* distinct messages and ends, well or with an error.  (When they come only
\* delays their publication.)
Queried(t, i) ==
    {[turn[t] EXCEPT !.phase = "finished", !.inst = i]}
    \cup {[turn[t] EXCEPT !.phase = "open", !.thought = n, !.inst = i] : n \in 0 .. MaxThinking}

\* Publications are chained; done waits for the chain.
\* Mutated form of Chained: one event more than the turn has.
ChainedOneMore(t) == turn[t].next <= turn[t].thought + 1

Chained(t) == turn[t].next <= turn[t].thought
ChainIsDone(t) == turn[t].next = turn[t].thought + 1

\* Mutated form of What: done is published without waiting for the chain.
WhatUnchained(t) == IF turn[t].next = 1 THEN Done ELSE turn[t].next - 1

What(t) == IF Chained(t) THEN turn[t].next ELSE Done

\* Publication of an event ends, whether or not it was stored.
Published(t) ==
    IF Chained(t) THEN [turn[t] EXCEPT !.held = 0, !.next = @ + 1]
    ELSE [turn[t] EXCEPT !.held = 0, !.phase = "finished", !.next = 1, !.thought = 0]

Insert(t) ==
    /\ turn[t].held = 0 /\ turn[t].phase = "open"
    /\ Chained(t) \/ ChainIsDone(t)
    /\ lastId' = lastId + 1
    /\ turn' = [turn EXCEPT ![t].held = lastId']
    /\ UNCHANGED <<rows, stream, channel, client>>

Stored(t) == \E r \in rows : r.id = turn[t].held

Commit(t) ==
    /\ turn[t].held # 0 /\ ~Stored(t)
    /\ rows' = rows \cup {[id |-> turn[t].held, turn |-> t, what |-> What(t)]}
    /\ UNCHANGED <<lastId, turn, stream, channel, client>>

\* A failed insert is swallowed.
InsertFails(t) ==
    /\ turn[t].held = 0 /\ turn[t].phase = "open"
    /\ turn' = [turn EXCEPT ![t] = Published(t)]
    /\ UNCHANGED <<rows, lastId, stream, channel, client>>

Fanout(t) ==
    /\ turn[t].held # 0
    /\ \E r \in rows :
          /\ r.id = turn[t].held
          /\ stream' = [s \in Streams |-> IF s \in Listeners(turn[t].inst)
                                          THEN PushDelivery(stream[s], r) ELSE stream[s]]
    /\ turn' = [turn EXCEPT ![t] = Published(t)]
    /\ UNCHANGED <<rows, lastId, channel, client>>

(***************************************************************************)
(* The browser's turn (lib/agent/send-turn.ts, lib/agent/browser-api.ts).  *)
(***************************************************************************)
Idle == [client EXCEPT !.phase = "idle", !.stream = 0, !.ready = FALSE, !.after = 0,
                       !.got = <<>>]

Leave(s) ==
    stream' = IF s = 0 THEN stream
              ELSE [stream EXCEPT ![s].gone = TRUE, ![s].wire = <<>>, ![s].replay = <<>>, ![s].polls = {}, ![s].last = 0,
                                 ![s].after = 0]

SendTurn ==
    /\ client.phase = "idle" /\ client.turn < MaxTurns
    /\ client' = [Idle EXCEPT !.phase = "opening", !.turn = @ + 1]
    /\ UNCHANGED <<rows, lastId, turn, stream, channel>>

\* The event loop opens a stream from the last id it saw.
Connect(i) ==
    /\ client.phase # "idle" /\ client.stream = 0
    /\ \E s \in Streams :
          /\ stream[s].phase = "none" /\ \A o \in Streams : o < s => stream[o].phase # "none"
          /\ stream' = [stream EXCEPT ![s].phase = "checking", ![s].inst = i,
                                      ![s].after = client.after]
          /\ client' = [client EXCEPT !.stream = s]
    /\ UNCHANGED <<rows, lastId, turn, channel>>

\* A frame is read: its id is remembered for the next connection.
Receive ==
    /\ client.stream # 0 /\ stream[client.stream].wire # <<>>
    /\ LET chunk == Head(stream[client.stream].wire)
       IN  client' = IF chunk = Connected THEN [client EXCEPT !.ready = TRUE]
                     ELSE [client EXCEPT !.after = chunk.id, !.got = Append(@, chunk.id)]
    /\ stream' = [stream EXCEPT ![client.stream].wire = Tail(@)]
    /\ UNCHANGED <<rows, lastId, turn, channel>>

\* The server closed the stream: the loop opens another one.
StreamOver ==
    /\ client.stream # 0
    /\ stream[client.stream].closed /\ stream[client.stream].wire = <<>>
    /\ client' = [client EXCEPT !.stream = 0]
    /\ Leave(client.stream)
    /\ UNCHANGED <<rows, lastId, turn, channel>>

\* A refused or broken connection: fatal before the first connected comment.
ConnectionFails ==
    /\ client.stream # 0
    /\ client' = IF client.ready THEN [client EXCEPT !.stream = 0] ELSE Idle
    /\ Leave(client.stream)
    /\ UNCHANGED <<rows, lastId, turn, channel>>

\* The message is posted once the stream is connected.
Post(i) ==
    /\ client.phase = "opening" /\ client.ready
    /\ client' = [client EXCEPT !.phase = "posted"]
    /\ \E queried \in Queried(client.turn, i) :
          turn' = [turn EXCEPT ![client.turn] = queried]
    /\ UNCHANGED <<rows, lastId, stream, channel>>

\* The answer of the POST, or its failure while the server still works on
\* the turn, or no connected stream in time: the event loop is aborted.
TurnEnds ==
    /\ client.phase = "posted" \/ (client.phase = "opening" /\ ~client.ready)
    /\ client' = Idle
    /\ Leave(client.stream)
    /\ UNCHANGED <<rows, lastId, turn, channel>>

-----------------------------------------------------------------------------
Serve(s) ==
    \/ Start(s) \/ ReplayFails(s) \/ GoLive(s)
    \/ PollRead(s) \/ PollApply(s) \/ EnqueueThrows(s)

TurnStep(t) ==
    \/ Insert(t) \/ Commit(t) \/ InsertFails(t) \/ Fanout(t)

ClientStep ==
    \/ SendTurn \/ Receive \/ StreamOver \/ ConnectionFails \/ TurnEnds
    \/ \E i \in Instances : Connect(i) \/ Post(i)

Next ==
    \/ ClientStep
    \/ \E s \in Streams : Serve(s) \/ Abort(s)
    \/ \E t \in Turns : TurnStep(t)

Spec == Init /\ [][Next]_vars

\* Each stream's work goes on: queries end, timers fire, polls do not fail for
\* ever, and the platform cancels the body of a response nobody reads.  (Polls
\* and their results alternate when MaxPolls are in flight.)
Fairness == \A s \in Streams : WF_vars(Serve(s))

FairSpec == Spec /\ Fairness

-----------------------------------------------------------------------------
\* The values the variables take.
TypeOK ==
    /\ rows \subseteq Rows /\ lastId \in {0} \cup Ids
    /\ \A t \in Turns : turn[t] \in TurnRecords
    /\ \A s \in Streams :
          /\ stream[s].phase \in {"none", "checking", "read", "live"}
          /\ stream[s].set \in {0} \cup Streams
          /\ stream[s].last \in {0} \cup Ids /\ stream[s].last <= lastId
    /\ channel \in [Instances -> {0} \cup Streams]
    /\ client.phase \in {"idle", "opening", "posted"}
    /\ client.stream \in {0} \cup Streams /\ client.turn \in {0} \cup Turns

\* The browser sees no event of a turn's loop twice and none out of order,
\* over replays, fan-outs, overlapping polls and reconnections.
ReceivedOnceInOrder ==
    \A a, b \in DOMAIN client.got : a < b => client.got[a] < client.got[b]

\* A browser whose streams all ran on other instances than its turn misses no
\* stored event of the turn that is older than one it has seen, unless another
\* turn stored events in between: polling alone loses nothing.  (A fan-out may
\* overtake what a replay has not read, and a second publisher an uncommitted
\* id.)
OtherInstanceMissesNothing ==
    LET mine == {r \in rows : r.turn = client.turn}
    IN  (/\ client.phase = "posted"
         /\ \A s \in Streams :
               stream[s].phase # "none" => stream[s].inst # turn[client.turn].inst
         /\ \A r \in rows \ mine, m \in mine : r.id < m.id)
        => \A r \in mine : r.id < client.after => \E k \in DOMAIN client.got : client.got[k] = r.id

\* The done event of a turn is the last one it stores.
DoneIsLast ==
    \A a, b \in rows : (a.turn = b.turn /\ a.what = Done) => b.id <= a.id

\* Every open stream that subscribed is in the set its instance fans out to,
\* however other streams of the session came and went.
SubscriberIsReached ==
    \A s \in Streams : Polling(s) => s \in Listeners(stream[s].inst)

\* An open stream gets past every stored event again and again, by fan-out or
\* by polling, until it closes.
StreamCatchesUp ==
    \A s \in Streams : []<>(Polling(s) => \A r \in rows : r.id <= stream[s].last)

\* A stream whose client is gone stops polling the table, even if the client
\* went before the route listened for it.
GoneStreamStops == \A s \in Streams : []<>(stream[s].gone => stream[s].closed)
=============================================================================
