----------------------------- MODULE AgentChat -----------------------------
(***************************************************************************)
(* The chat with the agent in apps/web: the hooks behind the chat screen   *)
(* (use-agent-chat and the hooks it joins), the turn in flight that        *)
(* outlives the screen (send-turn), the conversation a browser tab keeps   *)
(* (session-storage), the handoff another screen leaves for the chat, and  *)
(* the history the server keeps of each session (agent-consultations).     *)
(*                                                                         *)
(* One browser tab, whose users sign in and out; a screen that is mounted  *)
(* and unmounted while requests are under way; requests that end in any    *)
(* order, fail, or fail for the browser while the server still works on    *)
(* them; sessions that expire on the agent platform.  A reply is the pair  *)
(* of entries of a turn; what it says is left out.                         *)
(***************************************************************************)
EXTENDS Integers, Sequences, FiniteSets, SequencesExt

CONSTANTS
    Users,         \* accounts that sign in on this tab
    Nobody,        \* signed out
    Kinds,         \* what another screen hands over: a recommendation, a collection
    MaxSessions,   \* agent sessions (bound of the model)
    MaxTurns,      \* turns sent (bound of the model)
    MaxMounts,     \* times the chat screen opens (bound of the model)
    MaxReloads     \* page reloads (bound of the model)

ASSUME AgentChatConstants ==
    /\ Nobody \notin Users /\ "none" \notin Kinds
    /\ MaxSessions \in Nat \ {0} /\ MaxTurns \in Nat \ {0}
    /\ MaxMounts \in Nat \ {0} /\ MaxReloads \in Nat

Sessions == 1 .. MaxSessions
Turns == 1 .. MaxTurns
\* An entry of a conversation: the welcome, the card of a handoff, or one side
\* of a turn.
Entry(who, t) == [who |-> who, turn |-> t]
Welcome == Entry("welcome", 0)
Card(kind) == Entry(kind, 0)
Asked(t) == Entry("user", t)
Answer(t) == Entry("agent", t)
Entries == {Welcome} \cup {Card(k) : k \in Kinds}
           \cup {Asked(t) : t \in Turns} \cup {Answer(t) : t \in Turns}

VARIABLES
    user,      \* the account signed in, or Nobody
    chat,      \* state and refs of the mounted chat screen
    requests,  \* connect and history requests the browser awaits
    turn,      \* turns sent: the in-flight map and what they captured
    stored,    \* mogu:agent-chat-session in sessionStorage
    handoff,   \* the stashed recommendation or collection, or "none"
    session,   \* sessions of the agent platform
    log,       \* agent_consultations: the entries of each session
    unlogged,  \* turns answered although their append to the log failed
    work,      \* requests the server works on
    past       \* mounts and reloads so far, whether a sign-out is under way, and
               \* the sessions of which a request went on that the screen did not
               \* wait for any more, and whether the history was used

vars == <<user, chat, requests, turn, stored, handoff, session, log, unlogged, work, past>>

NoChat ==
    [mounted |-> FALSE, status |-> "loading", sid |-> 0, entries |-> <<>>,
     view |-> "none", loading |-> FALSE, retrying |-> FALSE, resetting |-> FALSE,
     sending |-> FALSE, persist |-> TRUE, history |-> FALSE]

ChatRecords ==
    [mounted : BOOLEAN, status : {"loading", "ready", "error"}, sid : {0} \cup Sessions,
     entries : Seq(Entries), view : {"none", "live", "readonly"}, loading : BOOLEAN,
     retrying : BOOLEAN, resetting : BOOLEAN, sending : BOOLEAN, persist : BOOLEAN,
     history : BOOLEAN]

NothingStored == [user |-> Nobody, sid |-> 0, entries |-> <<>>, pending |-> 0]

StoredRecords ==
    [user : Users \cup {Nobody}, sid : {0} \cup Sessions, entries : Seq(Entries),
     pending : {0} \cup Turns]

RequestRecords ==
    [what : {"create", "created", "sync", "open"}, user : Users, mine : BOOLEAN,
     current : BOOLEAN, handoff : Kinds \cup {"none"}, sid : {0} \cup Sessions]

\* mine: by the screen that is mounted now; current: its generation was not
\* bumped since.
Connecting(kind) ==
    [what |-> "create", user |-> user, mine |-> TRUE, current |-> TRUE, handoff |-> kind,
     sid |-> 0]

NoTurn == [phase |-> "none", sid |-> 0, before |-> <<>>, saves |-> FALSE,
           aborted |-> FALSE, waiters |-> {}]

TurnRecords ==
    [phase : {"none", "waiting", "posted", "over"}, sid : {0} \cup Sessions,
     before : Seq(Entries), saves : BOOLEAN, aborted : BOOLEAN,
     waiters : SUBSET [mine : BOOLEAN, current : BOOLEAN, resume : BOOLEAN]]

\* stage: run, then read (the row was read), and for a turn answered.
WorkRecords ==
    [what : {"sync", "turn"}, sid : Sessions, turn : {0} \cup Turns,
     stage : {"run", "read", "answered"}, read : Seq(Entries), add : Seq(Entries)]

Init ==
    /\ user = Nobody
    /\ chat = NoChat /\ requests = {}
    /\ turn = [t \in Turns |-> NoTurn]
    /\ stored = NothingStored /\ handoff = "none"
    /\ session = [s \in Sessions |-> [user |-> Nobody, alive |-> FALSE]]
    /\ log = [s \in Sessions |-> <<>>] /\ unlogged = {}
    /\ work = {}
    /\ past = [mounts |-> 0, reloads |-> 0, abandoned |-> {}, leaving |-> FALSE, opened |-> FALSE]

Created == {s \in Sessions : session[s].user # Nobody}
NextSession == Cardinality(Created) + 1
Sent == {t \in Turns : turn[t].phase # "none"}
NextTurn == Cardinality(Sent) + 1
InFlight(s) == {t \in Turns : turn[t].phase \in {"waiting", "posted"} /\ turn[t].sid = s}

(***************************************************************************)
(* The tab's storage (lib/agent/session-storage.ts).                       *)
(***************************************************************************)
\* The current user may write, unless another session is stored.
CanWrite(st, u, s) ==
    /\ u = user
    /\ st = NothingStored \/ (st.user = u /\ st.sid = s)

Saved(st, u, s, entries, pending) ==
    IF entries # <<>> /\ CanWrite(st, u, s)
    THEN [user |-> u, sid |-> s, entries |-> entries, pending |-> pending]
    ELSE st

\* A pending turn whose reply is there is over.
Reconciled(st) ==
    IF Answer(st.pending) \in ToSet(st.entries) THEN [st EXCEPT !.pending = 0] ELSE st

\* What is stored is used by its user only, and for half an hour.
Loaded(st, expired) ==
    IF st.user = user /\ ~expired THEN Reconciled(st) ELSE NothingStored

\* Clearing ends the epoch: turns in flight save nothing any more.
ClearedTurns(turns) == [t \in Turns |-> [turns[t] EXCEPT !.saves = FALSE]]

\* The effect that saves what a ready, idle chat shows.
Persisted(c, st) ==
    IF c.persist /\ c.status = "ready" /\ c.sid # 0 /\ ~c.sending
    THEN Saved(st, user, c.sid, c.entries, 0) ELSE st

Shows(c, st) == chat' = c /\ stored' = Persisted(c, st)

(***************************************************************************)
(* What the screen offers (components/search).                             *)
(***************************************************************************)
InputDisabled ==
    \/ chat.status # "ready" \/ chat.sending \/ chat.retrying \/ chat.resetting
    \/ chat.loading \/ chat.view = "readonly" \/ chat.sid = 0

HeaderShown == chat.mounted /\ chat.status = "ready"

\* Mutated form of HistoryOffered: the history opens even while a turn is sent.
HistoryOfferedAlways == HeaderShown /\ ~chat.loading

HistoryOffered == HeaderShown /\ ~chat.loading /\ ~chat.sending

NewOffered ==
    \/ HeaderShown /\ ~chat.resetting /\ ~chat.sending /\ ~chat.loading
    \/ chat.mounted /\ chat.view = "readonly" /\ ~chat.resetting

RetryOffered == chat.mounted /\ chat.status = "error" /\ ~chat.retrying

(***************************************************************************)
(* Connecting (lib/agent/use-agent-session.ts).                            *)
(***************************************************************************)
\* A bumped generation makes what the screen awaits stale.
Stale(rs) == {[r EXCEPT !.current = @ /\ ~r.mine] : r \in rs}
StaleResumes(turns) ==
    [t \in Turns |-> [turns[t] EXCEPT
        !.waiters = {[w EXCEPT !.current = @ /\ ~(w.mine /\ w.resume)] : w \in @}]]

\* The button that started a connection is free again when it ends, stale or
\* not.  (One of the two is set at most, and a mount sets none.)
Freed(c) == [c EXCEPT !.retrying = FALSE, !.resetting = FALSE]

Resumed(c, st) ==
    [Freed(c) EXCEPT !.view = "live", !.sid = st.sid, !.entries = st.entries,
                     !.status = "ready", !.persist = TRUE]

\* A pending turn that is not in flight any more is dropped from what is shown.
Dropped(st) == RemoveFirst(st.entries, Asked(st.pending))

Resumer == [mine |-> TRUE, current |-> TRUE, resume |-> TRUE]
Sender == [mine |-> TRUE, current |-> TRUE, resume |-> FALSE]

\* A handoff starts a session; else the stored conversation is shown, with the
\* turn it waits for; else a session starts.
Connect(c, st, turns, kind) ==
    IF kind # "none" \/ st = NothingStored
    THEN /\ requests' = Stale(requests) \cup {Connecting(kind)}
         /\ chat' = c
         /\ stored' = NothingStored
         /\ turn' = IF kind # "none" THEN ClearedTurns(turns) ELSE turns
    ELSE /\ requests' = Stale(requests)
         /\ \/ /\ st.pending = 0
               /\ Shows(Resumed(c, st), st) /\ turn' = turns
            \/ /\ st.pending # 0 /\ InFlight(st.sid) = {}
               /\ Shows([Resumed(c, st) EXCEPT !.entries = Dropped(st)],
                        Saved(st, user, st.sid, Dropped(st), 0))
               /\ turn' = turns
            \/ /\ st.pending # 0 /\ InFlight(st.sid) # {}
               /\ Shows([Resumed(c, st) EXCEPT !.sending = TRUE], st)
               /\ turn' = [t \in Turns |-> IF t \in InFlight(st.sid)
                     THEN [turns[t] EXCEPT !.waiters = @ \cup {Resumer}] ELSE turns[t]]

\* Stored entries may have expired only after the half hour in which every
\* request ends.
Expired == requests = {} /\ work = {} /\ \A s \in Sessions : InFlight(s) = {}

Mount ==
    /\ user # Nobody /\ ~chat.mounted /\ ~past.leaving /\ past.mounts < MaxMounts
    /\ past' = [past EXCEPT !.mounts = @ + 1]
    /\ \E expired \in {FALSE, Expired} :
          Connect([NoChat EXCEPT !.mounted = TRUE],
                  IF handoff # "none" THEN stored ELSE Loaded(stored, expired),
                  turn, handoff)
    /\ UNCHANGED <<user, handoff, session, log, unlogged, work>>

Reset(c) == [c EXCEPT !.status = "loading", !.view = "none"]

Retry ==
    /\ RetryOffered /\ ~chat.history
    /\ \E expired \in {FALSE, Expired} :
          Connect([Reset(chat) EXCEPT !.retrying = TRUE],
                  IF handoff # "none" THEN stored ELSE Loaded(stored, expired),
                  StaleResumes(turn), handoff)
    /\ UNCHANGED <<user, handoff, session, log, unlogged, work, past>>

\* A new consultation forgets the stored one and any handoff.
NewConsultation ==
    /\ NewOffered /\ ~chat.history
    /\ ~chat.retrying /\ ~chat.sending
    /\ handoff' = "none"
    /\ Connect([Reset(chat) EXCEPT !.resetting = TRUE, !.persist = FALSE],
               NothingStored, ClearedTurns(StaleResumes(turn)), "none")
    /\ UNCHANGED <<user, session, log, unlogged, work, past>>

\* Mutated form of Greeting: no welcome without a handoff.
GreetingIsCard(kind) == Card(kind)

Greeting(kind) == IF kind = "none" THEN Welcome ELSE Card(kind)

Syncing(s) == {o \in work : o.what = "sync" /\ o.sid = s}

\* The session is created: its greeting is shown and sent to the history.  The
\* handoff is committed even by a screen that is gone.
SessionStarts(r) ==
    /\ r.what = "created" /\ r.current
    /\ requests' = (requests \ {r}) \cup {[r EXCEPT !.what = "sync"]}
    /\ work' = work \cup {[what |-> "sync", sid |-> r.sid, turn |-> 0, stage |-> "run",
                           read |-> <<>>, add |-> <<Greeting(r.handoff)>>]}
    /\ handoff' = IF r.handoff = handoff THEN "none" ELSE handoff
    /\ IF r.mine
       THEN Shows([chat EXCEPT !.sid = r.sid, !.entries = <<Greeting(r.handoff)>>,
                               !.view = "live", !.persist = TRUE], stored)
       ELSE UNCHANGED <<chat, stored>>
    /\ past' = IF r.mine THEN past ELSE [past EXCEPT !.abandoned = @ \cup {r.sid}]
    /\ UNCHANGED <<user, turn, session, log, unlogged>>

\* Mutated form of SyncAwaited: the chat is ready before its greeting is stored.
SyncNotAwaited(r) == TRUE

SyncAwaited(r) == Syncing(r.sid) = {}

\* The greeting is stored, or the browser gave up storing it: the chat is ready.
SessionReady(r, givesUp) ==
    /\ r.what = "sync" /\ givesUp # SyncAwaited(r)
    /\ requests' = requests \ {r}
    /\ past' = IF givesUp THEN [past EXCEPT !.abandoned = @ \cup {r.sid}] ELSE past
    /\ IF r.mine /\ r.current THEN Shows(Freed([chat EXCEPT !.status = "ready"]), stored)
       ELSE chat' = (IF r.mine THEN Freed(chat) ELSE chat) /\ UNCHANGED stored
    /\ UNCHANGED <<user, turn, handoff, session, log, unlogged, work>>

\* What a stale creation returns is left alone.
StaleSession(r) ==
    /\ r.what = "created" /\ ~r.current
    /\ requests' = requests \ {r}
    /\ chat' = IF r.mine THEN Freed(chat) ELSE chat
    /\ UNCHANGED <<user, turn, stored, handoff, session, log, unlogged, work, past>>

SessionFails(r) ==
    /\ r.what \in {"create", "created"}
    /\ requests' = requests \ {r}
    /\ chat' = IF ~r.mine THEN chat
               ELSE IF ~r.current THEN Freed(chat)
               ELSE Freed([chat EXCEPT !.sid = 0, !.entries = <<Welcome>>, !.status = "error"])
    /\ UNCHANGED <<user, turn, stored, handoff, session, log, unlogged, work, past>>

(***************************************************************************)
(* The history (lib/agent/use-consultation-history.ts).                    *)
(***************************************************************************)
OpenHistory ==
    /\ HistoryOffered /\ ~chat.history
    /\ chat' = [chat EXCEPT !.history = TRUE]
    /\ UNCHANGED <<user, requests, turn, stored, handoff, session, log, unlogged, work, past>>

CloseHistory ==
    /\ chat.history
    /\ chat' = [chat EXCEPT !.history = FALSE]
    /\ UNCHANGED <<user, requests, turn, stored, handoff, session, log, unlogged, work, past>>

Listed(s) == session[s].user = user

\* A conversation is picked in the open history sheet.
OpenConsultation(s) ==
    /\ chat.history /\ Listed(s) /\ ~chat.loading
    /\ requests' = Stale(requests) \cup
          {[Connecting("none") EXCEPT !.what = "open", !.sid = s]}
    /\ turn' = StaleResumes(turn)
    /\ chat' = [chat EXCEPT !.loading = TRUE, !.history = FALSE, !.status = "loading"]
    /\ past' = [past EXCEPT !.opened = TRUE]
    /\ UNCHANGED <<user, stored, handoff, session, log, unlogged, work>>

Transcript(s) == IF log[s] = <<>> THEN <<Welcome>> ELSE log[s]

\* The platform has the session, or dropped it some time before: the model
\* decides when somebody looks.
Resumable(r) == IF session[r.sid].alive THEN BOOLEAN ELSE {FALSE}

Looked(r, resumable) == session' = [session EXCEPT ![r.sid].alive = resumable]

\* A session the platform still has is live again; of another one the entries
\* are shown, and what the tab had stored is forgotten.
ConsultationOpens(r) ==
    LET opened == [chat EXCEPT !.loading = FALSE, !.status = "ready",
                               !.entries = Transcript(r.sid)]
    IN  /\ r.what = "open" /\ r.mine /\ r.current
        /\ \E resumable \in Resumable(r) :
              /\ Looked(r, resumable)
              /\ IF resumable
                 THEN /\ Shows([opened EXCEPT !.view = "live", !.sid = r.sid, !.persist = TRUE],
                               Saved(stored, user, r.sid, Transcript(r.sid), 0))
                      /\ UNCHANGED turn
                 ELSE /\ chat' = [opened EXCEPT !.view = "readonly", !.sid = 0, !.persist = FALSE]
                      /\ stored' = NothingStored /\ turn' = ClearedTurns(turn)
        /\ requests' = requests \ {r}
        /\ UNCHANGED <<user, handoff, log, unlogged, work, past>>

\* A screen that is gone still stores what it opened.
ConsultationOpensUnseen(r) ==
    /\ r.what = "open" /\ ~r.mine /\ r.current
    /\ \E resumable \in Resumable(r) :
          /\ Looked(r, resumable)
          /\ IF resumable
             THEN /\ stored' = Saved(stored, r.user, r.sid, Transcript(r.sid), 0)
                  /\ UNCHANGED turn
             ELSE stored' = NothingStored /\ turn' = ClearedTurns(turn)
    /\ requests' = requests \ {r}
    /\ UNCHANGED <<user, chat, handoff, log, unlogged, work, past>>

ConsultationFails(r) ==
    /\ r.what = "open" /\ r.current
    /\ requests' = requests \ {r}
    /\ chat' = IF ~r.mine THEN chat
               ELSE [chat EXCEPT !.loading = FALSE, !.status = "error", !.view = "none",
                                 !.sid = 0, !.entries = <<Welcome>>]
    /\ UNCHANGED <<user, turn, stored, handoff, session, log, unlogged, work, past>>

\* A stale answer changes nothing: the marker of the load stays.
StaleConsultation(r) ==
    /\ r.what = "open" /\ ~r.current
    /\ requests' = requests \ {r}
    /\ UNCHANGED <<user, chat, turn, stored, handoff, session, log, unlogged, work, past>>

(***************************************************************************)
(* Sending (lib/agent/use-agent-send.ts, lib/agent/send-turn.ts).          *)
(***************************************************************************)
\* A turn of a session that is in flight takes the place of a new one.
Send ==
    /\ chat.mounted /\ ~InputDisabled /\ ~chat.history
    /\ \/ /\ InFlight(chat.sid) = {} /\ NextTurn \in Turns
          /\ LET asked == Append(chat.entries, Asked(NextTurn))
             IN  /\ chat' = [chat EXCEPT !.sending = TRUE, !.entries = asked]
                 /\ stored' = Saved(stored, user, chat.sid, asked, NextTurn)
                 /\ turn' = [turn EXCEPT ![NextTurn] =
                       [phase |-> "waiting", sid |-> chat.sid, before |-> chat.entries,
                        saves |-> TRUE, aborted |-> FALSE, waiters |-> {Sender}]]
       \/ /\ InFlight(chat.sid) # {}
          /\ chat' = [chat EXCEPT !.sending = TRUE]
          /\ turn' = [t \in Turns |-> IF t \in InFlight(chat.sid)
                THEN [turn[t] EXCEPT !.waiters = @ \cup {Sender}] ELSE turn[t]]
          /\ UNCHANGED stored
    /\ UNCHANGED <<user, requests, handoff, session, log, unlogged, work, past>>

\* The event stream is connected: the message is posted.
Post(t) ==
    /\ turn[t].phase = "waiting" /\ ~turn[t].aborted
    /\ turn' = [turn EXCEPT ![t].phase = "posted"]
    /\ work' = work \cup {[what |-> "turn", sid |-> turn[t].sid, turn |-> t, stage |-> "run",
                           read |-> <<>>, add |-> <<Asked(t), Answer(t)>>]}
    /\ UNCHANGED <<user, chat, requests, stored, handoff, session, log, unlogged, past>>

\* Who waits for a turn and is still concerned.
Concerned(t) == {w \in turn[t].waiters : w.current \/ ~w.resume}

\* Mutated form of SavedResult: the result of a turn that outlived its
\* conversation is saved.
SavedResultAlways(t, entries) ==
    Saved(stored, session[turn[t].sid].user, turn[t].sid, entries, 0)

\* Mutated form of SavedResult: a screen must be there.
SavedResultIfShown(t, entries) ==
    IF turn[t].saves /\ \E w \in Concerned(t) : w.mine
    THEN Saved(stored, session[turn[t].sid].user, turn[t].sid, entries, 0) ELSE stored

SavedResult(t, entries) ==
    IF turn[t].saves
    THEN Saved(stored, session[turn[t].sid].user, turn[t].sid, entries, 0) ELSE stored

\* The result is saved in its epoch, and shown if the screen that waits for it
\* is there.  An error that says the session is unusable ends what is stored,
\* whoever waited.
Concludes(t, entries, unusable) ==
    LET ends == unusable /\ Concerned(t) # {}
        after == [turn EXCEPT ![t] = [NoTurn EXCEPT !.phase = "over", !.sid = turn[t].sid]]
        shown == [chat EXCEPT !.entries = entries, !.sending = FALSE,
                              !.persist = @ /\ ~unusable]
    IN  /\ turn' = IF ends THEN ClearedTurns(after) ELSE after
        /\ IF \E w \in Concerned(t) : w.mine
           THEN Shows(shown, IF ends THEN NothingStored ELSE SavedResult(t, entries))
           ELSE /\ chat' = chat
                /\ stored' = IF ends THEN NothingStored ELSE SavedResult(t, entries)

TurnWork(t) == {o \in work : o.what = "turn" /\ o.turn = t}

TurnAnswered(t) ==
    /\ turn[t].phase = "posted"
    /\ \E o \in TurnWork(t) : o.stage = "answered" /\ work' = work \ {o}
    /\ Concludes(t, turn[t].before \o <<Asked(t), Answer(t)>>, FALSE)
    /\ UNCHANGED <<user, requests, handoff, session, log, unlogged, past>>

\* The stream is not connected, the server refuses or fails, or the answer does
\* not arrive; then the server may still work on the turn.
TurnFails(t) ==
    /\ turn[t].phase \in {"waiting", "posted"}
    /\ \E unusable \in (IF turn[t].aborted THEN {FALSE} ELSE BOOLEAN) :
          Concludes(t, turn[t].before, unusable)
    /\ past' = IF TurnWork(t) = {} THEN past
               ELSE [past EXCEPT !.abandoned = @ \cup {turn[t].sid}]
    /\ work' = {o \in work : ~(o \in TurnWork(t) /\ o.stage = "answered")}
    /\ UNCHANGED <<user, requests, handoff, session, log, unlogged>>

(***************************************************************************)
(* Leaving, reloading, signing out.                                        *)
(***************************************************************************)
Gone(rs) == {[r EXCEPT !.mine = FALSE] : r \in rs}

Unwatched == {r.sid : r \in {q \in requests : q.what = "sync"}}

\* Nobody waits for the event stream of a screen that is gone; its turn goes on
\* if it was posted.
Left(turns) ==
    [t \in Turns |-> [turns[t] EXCEPT
        !.aborted = @ \/ (turns[t].phase = "waiting" /\ chat.sending /\ chat.sid = turns[t].sid),
        !.waiters = Gone(@)]]

\* (A screen is left as long as another one may open.)
LeaveChat ==
    /\ chat.mounted /\ past.mounts < MaxMounts
    /\ chat' = NoChat
    /\ requests' = Gone(requests)
    /\ turn' = Left(turn)
    /\ past' = [past EXCEPT !.abandoned = @ \cup Unwatched]
    /\ UNCHANGED <<user, stored, handoff, session, log, unlogged, work>>

\* Another screen hands a recommendation or a collection over to the chat.
Stash(kind) ==
    /\ user # Nobody /\ ~chat.mounted /\ ~past.leaving /\ past.mounts < MaxMounts
    /\ handoff' = kind
    /\ UNCHANGED <<user, chat, requests, turn, stored, session, log, unlogged, work, past>>

\* A page reload ends every script; sessionStorage stays.  (On the chat's screen,
\* where most is lost.)
Reload ==
    /\ chat.mounted /\ past.reloads < MaxReloads /\ past.mounts < MaxMounts
    /\ past' = [past EXCEPT !.reloads = @ + 1, !.leaving = FALSE,
                            !.abandoned = @ \cup {o.sid : o \in work}]
    /\ chat' = NoChat /\ requests' = {}
    /\ turn' = [t \in Turns |-> IF turn[t].phase = "none" THEN NoTurn
                                ELSE [NoTurn EXCEPT !.phase = "over", !.sid = turn[t].sid]]
    /\ UNCHANGED <<user, stored, handoff, session, log, unlogged, work>>

\* (From another screen than the chat.)  What the tab keeps is cleared first.
SignOut ==
    /\ user # Nobody /\ ~chat.mounted /\ ~past.leaving /\ past.mounts < MaxMounts
    /\ past' = [past EXCEPT !.leaving = TRUE]
    /\ handoff' = "none" /\ stored' = NothingStored
    /\ turn' = ClearedTurns(turn)
    /\ UNCHANGED <<user, chat, requests, session, log, unlogged, work>>

SignedOut ==
    /\ past.leaving
    /\ past' = [past EXCEPT !.leaving = FALSE, !.abandoned = @ \cup Unwatched]
    /\ user' = Nobody
    /\ chat' = NoChat
    /\ requests' = Gone(requests)
    /\ turn' = Left(turn)
    /\ UNCHANGED <<stored, handoff, session, log, unlogged, work>>

SignIn(u) ==
    /\ user = Nobody /\ past.mounts < MaxMounts
    /\ user' = u
    /\ UNCHANGED <<chat, requests, turn, stored, handoff, session, log, unlogged, work, past>>

(***************************************************************************)
(* The server (app/api/v1/agent, lib/agent/message-client.ts,              *)
(* lib/dal/agent-consultations.ts).                                        *)
(***************************************************************************)
\* A session and its row of the history.
CreateSession(r) ==
    /\ r.what = "create" /\ NextSession \in Sessions
    /\ session' = [session EXCEPT ![NextSession] = [user |-> r.user, alive |-> TRUE]]
    /\ requests' = (requests \ {r}) \cup {[r EXCEPT !.what = "created", !.sid = NextSession]}
    /\ UNCHANGED <<user, chat, turn, stored, handoff, log, unlogged, work, past>>

\* A request finds its session gone, the agent fails, or the snapshot is not
\* stored: nothing is recorded.
WorkFails(o) ==
    /\ o.stage = "run" \/ (o.what = "sync" /\ o.stage = "read")
    /\ work' = work \ {o}
    /\ UNCHANGED <<user, chat, requests, turn, stored, handoff, session, log, unlogged, past>>

\* The agent answered, or a snapshot arrived: the row is read.
ReadLog(o) ==
    /\ o.stage = "run" /\ session[o.sid].alive
    /\ work' = (work \ {o}) \cup {[o EXCEPT !.stage = "read", !.read = log[o.sid]]}
    /\ UNCHANGED <<user, chat, requests, turn, stored, handoff, session, log, unlogged, past>>

\* A turn is appended to what was read; a snapshot shorter than that is dropped.
Recorded(o) ==
    IF o.what = "turn" THEN o.read \o o.add
    ELSE IF Len(o.read) > Len(o.add) THEN log[o.sid] ELSE o.add

\* A snapshot needs no answer beyond its end; a turn is answered, whether or not
\* its append succeeded.
Ended(o) ==
    work' = (work \ {o}) \cup
        (IF o.what = "turn" /\ turn[o.turn].phase = "posted"
         THEN {[o EXCEPT !.stage = "answered", !.read = <<>>]} ELSE {})

WriteLog(o) ==
    /\ o.stage = "read"
    /\ log' = [log EXCEPT ![o.sid] = Recorded(o)]
    /\ Ended(o)
    /\ UNCHANGED <<user, chat, requests, turn, stored, handoff, session, unlogged, past>>

\* The log is kept at best effort: that the append of a turn fails, at its read or
\* at its write, is swallowed, and the turn is answered all the same.
AppendFails(o) ==
    /\ o.what = "turn" /\ o.stage = "read"
    /\ unlogged' = unlogged \cup {o.turn}
    /\ Ended(o)
    /\ UNCHANGED <<user, chat, requests, turn, stored, handoff, session, log, past>>

-----------------------------------------------------------------------------
Await(r) ==
    \/ SessionStarts(r) \/ StaleSession(r)
    \/ SessionReady(r, TRUE) \/ SessionReady(r, FALSE)
    \/ ConsultationOpens(r) \/ ConsultationOpensUnseen(r)
    \/ ConsultationFails(r) \/ StaleConsultation(r) \/ SessionFails(r)

Screen ==
    \/ Mount \/ Retry \/ NewConsultation \/ OpenHistory \/ CloseHistory \/ Send
    \/ LeaveChat \/ Reload \/ SignOut \/ SignedOut
    \/ \E s \in Sessions : OpenConsultation(s)
    \/ \E k \in Kinds : Stash(k)
    \/ \E u \in Users : SignIn(u)

Server ==
    \/ \E r \in requests : CreateSession(r)
    \/ \E o \in work : WorkFails(o) \/ ReadLog(o) \/ WriteLog(o) \/ AppendFails(o)

Next ==
    \/ Screen \/ Server
    \/ \E r \in requests : Await(r)
    \/ \E t \in Turns : Post(t) \/ TurnAnswered(t) \/ TurnFails(t)

Spec == Init /\ [][Next]_vars

\* Every turn in flight ends: the wait for the stream has a deadline and the
\* request a timeout.
TurnEnds == \E t \in Turns : TurnAnswered(t) \/ TurnFails(t)
FairSpec == Spec /\ WF_vars(TurnEnds)

-----------------------------------------------------------------------------
Typed ==
    /\ user \in Users \cup {Nobody}
    /\ chat \in ChatRecords
    /\ requests \subseteq RequestRecords
    /\ turn \in [Turns -> TurnRecords]
    /\ stored \in StoredRecords
    /\ handoff \in Kinds \cup {"none"}
    /\ session \in [Sessions -> [user : Users \cup {Nobody}, alive : BOOLEAN]]
    /\ log \in [Sessions -> Seq(Entries)] /\ unlogged \subseteq Turns
    /\ work \subseteq WorkRecords
    /\ past \in [mounts : 0 .. MaxMounts, reloads : 0 .. MaxReloads,
                 abandoned : SUBSET Sessions, leaving : BOOLEAN, opened : BOOLEAN]

\* The values the variables take; what is stored is somebody's conversation, and
\* one turn of a session is in flight at most.
TypeOK ==
    /\ Typed
    /\ stored = NothingStored
       \/ (stored.user \in Users /\ stored.sid \in Sessions /\ Len(stored.entries) > 0)
    /\ \A s \in Sessions : Cardinality(InFlight(s)) <= 1

TurnsIn(entries) == {t \in Turns : Asked(t) \in ToSet(entries) \/ Answer(t) \in ToSet(entries)}

\* Every turn shown in a chat that can send was sent in the session it sends to,
\* and that is the account's: whatever connections, history loads and turns
\* ended in between.
ShownBelongs ==
    (chat.sid # 0 /\ chat.status = "ready") =>
        /\ session[chat.sid].user = user
        /\ \A t \in TurnsIn(chat.entries) : turn[t].sid = chat.sid

\* As long as the history is not used, an idle chat that may be stored is stored
\* as it is shown, or an unusable session had it cleared: no late turn of an
\* earlier conversation takes its place.
StorageFollowsChat ==
    (/\ chat.status = "ready" /\ chat.view = "live" /\ ~chat.sending /\ chat.persist
     /\ ~past.opened) =>
        stored = NothingStored \/ (stored.sid = chat.sid /\ stored.entries = chat.entries)

\* A turn the tab's storage waits for is in flight, unless the page was reloaded
\* since, and a chat that shows its session waits for it too.
PendingIsAwaited ==
    stored.pending # 0 =>
        /\ turn[stored.pending].phase \in {"waiting", "posted"} \/ past.reloads > 0
        /\ (chat.status = "ready" /\ chat.sid = stored.sid) => chat.sending

\* A failed append loses its own turn and no other: of a session of which no
\* request was given up, every answer the chat shows is in the history unless its
\* own append failed.
HistoryComplete ==
    \A s \in Sessions \ past.abandoned : \A t \in Turns :
        (chat.sid = s /\ Answer(t) \in ToSet(chat.entries)) =>
            Answer(t) \in ToSet(log[s]) \/ t \in unlogged

\* A chat that sends does not send for ever: the input comes back.
SendingEnds == [](chat.sending => <>~chat.sending)
=============================================================================
