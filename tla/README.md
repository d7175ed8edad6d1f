# mogu: TLA+ models and proofs

The repository is a monorepo: `apps/web` (a Next.js application on Postgres with row-level
security), `services/incident-agent` (a Python service that turns monitoring alerts into
investigated incidents, GitHub Issues and Slack threads), `agents` (declarative model agents) and
`terraform`. This directory holds models of the parts that keep state, the TLC runs that check
them on small instances, and proofs checked by TLAPS. `PROJECT.json` lists components, runs,
mutants, findings, hazards and theorems, and maps every definition to the lines it models.

## 1. Inventory

### services/incident-agent

| part | state | operations | neighbours |
|---|---|---|---|
| intake (`app/ingest.py`) | `ops.alert_deliveries` | checkpoint, mask, route a redelivery, safe escalation | Pub/Sub pushes in, noise control |
| noise control (`app/noise.py`) | deliveries, `ops.incidents`, `ops.budget_usage` | L1 to L4 search, storm, embedding lease, aggregation, escalation | embedding API, outbox rows |
| owner (`app/owner.py`, `agent/service.py`) | tokens and leases on an incident and its delivery | renew, expire, save, final escalation | agent runtime, outbox rows |
| outbox (`app/outbox.py`, `app/dispatcher.py`, `app/worker.py`, `app/external.py`) | `ops.outbox`, names in Cloud Tasks | scan and enqueue, claim, send, mark, release, fail, replay | Cloud Scheduler, Cloud Tasks, Slack, GitHub |
| Slack events (`app/slack_events.py`, `app/slack_worker.py`, `app/followup.py`) | `ops.slack_events` | receive once, claim with a lease, answer, complete or release | Slack, incidents, outbox |
| jobs, scripts | none of their own | migrate, retain 7 days, replay, review | database |
| budget notifier (`terraform/functions/budget-slack-notifier`, a Cloud Function of its own) | an object per budget and period with the thresholds told | evaluate, post, record | Cloud Billing over Pub/Sub in, Slack |

Several Cloud Run instances run each service, so everything above interleaves at the grain of one
database transaction or one HTTP call. Pub/Sub and Cloud Tasks deliver at least once; a request
may die anywhere; leases of 60, 600 and 660 s decide when another request may take over. What must
hold: no alert that was answered 200 is lost, an effect outside happens once and in the order of
`depends_on`, two requests never both own one row, budgets are not charged twice, and what was
accepted is settled in the end.

### apps/web: server

| part | state | hard behaviour | what must hold |
|---|---|---|---|
| agent session events (`lib/dal/agent-session-events.ts`, `lib/agent/event-bus-core.ts`, the SSE route) | buffered events, subscribers of an instance, the last id sent | commits and fan-out out of id order, reconnection, polling beside pushing | once, in order, caught up, stopped when nobody reads |
| agent replies (`lib/agent/stream-parser.ts`, `resolve-agent-turn.ts`, `reply-sanitizer.ts`, `candidate-spots.ts`) | a turn under way, the history | chunks cut anywhere, two authors, a model that writes anything | no internal talk, shops of the database only |
| friendships (`lib/dal/friends.ts`, `friendship-delete.ts`, `flags.ts`) | one row per pair, flags | crossing requests, accept against withdraw, marking as read | mutual approval, ended by unfriending only |
| collections, spots, recollect (`lib/dal/collections.ts`, `spots.ts`, `spot-likes.ts`) | ordered lists, copies, likes, flags | statements of several transactions, deletions between read and write | rows hold together, no flag names a stranger |
| feed and recommendations (`lib/dal/feed.ts`, `recommendations.ts`) | none of its own | a cursor over rows that come and go | no gap, no repetition |
| places (`lib/places/google-places-client.ts`, `places-response-cache.ts`) | answers of Google for a while | shared requests, eviction, two caches in a row | nothing too old |

### apps/web: browser

| part | state | hard behaviour | what must hold |
|---|---|---|---|
| agent chat (`lib/agent/use-agent-session.ts`, `use-agent-send.ts`, `send-turn.ts`, `session-storage.ts`) | session, turns, storage of the tab | results of an earlier session or user arriving late | own session only, storage follows, input comes back |
| session (`contexts/auth-context.tsx`, the gates, login, signup, onboarding) | signed-in user, what is kept per user | redirects, provisioning, sign-out, other tabs | no dead end, nobody else's data |
| home, cards, sheets (`components/home`, `components/ui/sheet.tsx`) | pages of the feed, an optimistic heart, timers | refresh beside more pages, rollback, reopening during an animation | feed without gaps, hearts as on the server |
| save button and picker (`lib/recollect`, `components/recollect`) | what the button shows | navigation and remount under way | saved only if there is a copy |
| collection screen, My page (`components/mypage`, `lib/mypage`) | lists, counts, the shared profile | answers that cross, reorders, another device | what is shown at rest is there |
| search for users (`lib/mypage/use-friend-search.ts`) | what is typed, found, awaited | debounce, answers to an earlier text | the list is of the text in the field |
| photos (`lib/ui/use-authenticated-image-blob.ts`, `components/places/spot-thumbnail.tsx`) | a blob's URL and what the image has loaded | a spot that changes under a load, revoked URLs | the right photo, none revoked, no shimmer for ever |
| shared pages (`components/share`, `components/collections`, `components/users`) | what a link may show | several requests while access changes | shown only when due |
| places and maps (`lib/places`, `collection-spot-map-view.tsx`) | coordinates, script, camera | retries, three ways to fail, late coordinates | a failed map says so |

Server instances share the database only. A browser tab runs one event at a time, but each request
it awaits is answered at any later time, in any order, or not at all, and the screen may have moved
on; other tabs and devices call the same API. Every transaction runs at READ COMMITTED.

## 2. Modules

| module | role |
|---|---|
| `Outbox` | the outbox with its dispatcher, task queue, workers and the outside world |
| `OutboxDelivery` | what the outbox promises, without queue, lease, token or worker |
| `Alerts` | intake, noise control and owner for one resource and one alert policy |
| `SlackEvents` | mentions of the bot in an incident's thread: reception, claims, follow-up, answers |
| `AgentEvents` | events of an agent session: rows, fan-out, polling, streams, the reconnecting browser |
| `AgentChat` | the chat of one tab with its storage, its turns in flight and the server's history |
| `JsonStream`, `AgentReply` | the streamed answer of the agent, and what becomes of it |
| `Friends` | friendships with the two screens that change them, flags and their reading |
| `Library` | tables, policies and transactions of collections, spots, copies, likes and flags |
| `SaveSpot`, `CollectionScreen`, `MyPage`, `SharePages` | screens over `Library`, which they extend |
| `Sheet`, `FeedCard` | the modal sheet; a feed card, which extends it |
| `HomeScreen` | the home screen over the feed and the daily recommendation |
| `Session` | entrances, gates, profile, storage and sign-out of one tab |
| `FriendSearch`, `PhotoImage` | the search for users on the friends screen; the photo of a spot |
| `BudgetNotifier` | the Cloud Function that tells Slack of exceeded budgets |
| `Places`, `MapView` | both caches and the hooks that show a place; the map of spots |
| `MCOutbox`, `MCAlerts`, `MCSlackEvents`, `MCAgentEvents`, `MCAgentChat` | instances for TLC |
| `MCOutboxRows`, `MCLive`, `MCWeb` | instances that put several scopes or several modules into one run |
| `*Proofs` | the theorems (section 5) |

### Outbox

`row` is the table, `incident` the two references an incident carries, `world` the number of
effects of each row that exist in Slack or GitHub, `tasks` the names Cloud Tasks knows, `worker`
the requests in progress. One action is one transaction or one call: `Record` (an owner's or a
storm's rows), `Dispatch` (scan and enqueue), `Claim`, `Exhaust`, `AlreadySettled` and their
answers, `Lookup` and `Call` (search for the marker, then write), `Mark` (sent, the reference, the
follow-up Slack row), `Release`, `FailSafety`, `Replay`; around them `Crash`, `LeaseExpires`,
`RetriesEnd` and `NameFreed`. A reply that changes nothing is a stuttering step.

Modelled with a choice: the scan and the enqueue are one step, since a stale name enqueued later
is only a task that waits; the scan's LIMIT 100 is left out; Slack recognises a repeated
`client_msg_id`; an effect, if it happens at all, happens before its caller sees a failure; Cloud
Tasks retains the name of a finished task for longer than a request lasts.

### Alerts

`delivery` and `incident` are the tables, an incident's record also saying what its outbox rows
say (Issue pending or sent, comments, close); `embeddings` and `investigations` are the day's
budgets; `request` holds the pushes in progress by the step they are at; `answered` the messages
that got a 200. `Checkpoint`, `Redeliver` and `Acknowledge` are the three ways a push enters;
`Mask` .. `MaskingFailureEscalation`, `RunAfterMasking`, `StormBranch`, `ResumeEmbedding`,
`ReserveEmbedding`, `ClaimEmbedding`, `SaveEmbedding`, `EmbeddingFailed`, `PostEmbedding`,
`SimilarOrNew`, `DeclareStorm` are the transactions of `ingest.py` and `noise.py`, in the order
the code runs them; `SaveOwnerAnalysis`, `MergedMeanwhile`, `ExpireOwnerLease`, `ResumeOwner`,
`RenewOwnerLease`, `SaveFinalEscalation` those of `owner.py` and its callers. `Drop` ends a
request anywhere: a crash, the deadline, or an answer that is not 2xx.

An aggregation is two steps, `Choose` and `Aggregate`, because the code decides on a comment with
the status it read and the owner's save takes no lock on the resource. The advisory lock and the
row lock are held between the two. Where the code answers 200 after its commit, the commit and the
answer are one step; a crash between the two leaves a completed delivery, and the next push is
`Acknowledge`.

Choices: whether two alerts are similar, whether the time windows contain them and whether the
recent count surges are nondeterministic, bounded by what is recorded; the storm key's 5-minute
bucket is constant (with another bucket the code fails on the unique index and answers 500, which
is `Drop`); an alert that cannot be adapted is kept in the same scope rather than in `unknown`;
tokens are named after the attempt that minted them.

### SlackEvents

`event` is the table `ops.slack_events` with its lease, `task` the Cloud Task of each event, `worker`
the requests in progress by the step they are at, `comment` the outbox rows of answers, `charged`
the follow-ups in `ops.budget_usage`; `runs` and `told` count model runs and what the thread was
told. `Receive` is the public ingress, `Lookup`, `Claim`, `Exhaust`, `AlreadySettled` and
`TurnedAway` the ways a delivered task enters, `Decide` .. `Notice` what the holder does, in the
order of `SlackFollowupWorker._process`; `Drop` ends a request anywhere, `LeaseExpires` and `Purge`
are time. What the thread says, the allowlists and the rate limits are choices. A claim has no
token: completing and releasing ask only for a row in `processing`, which is what `outlived` (a
request went on after its lease) is about.

Seen while modelling: the queue gives up after 3 attempts or 600 s while a crashed attempt keeps its
600 s lease, so its row may stay in `processing` for ever, Slack's own retry being answered
"duplicate"; no liveness is claimed. A fixed reply whose third delivery fails makes the row failed
without the notice that other failures post.

### AgentEvents

`rows` and `lastId` are the table and its sequence: an insert takes its id in one step and is seen
in the next, so ids commit out of order. `turn` is a turn on its server instance, `channel` the
set of subscribers of each instance, `stream` a request of the SSE route, `client` the browser's
loop in `send-turn.ts`. `Insert`/`Commit`/`Fanout` are `publishAgentSessionEvent`; `Start`,
`ReplayFails`, `GoLive`, `PollRead`/`PollApply`, `EnqueueThrows`, `Abort` the route;
`Connect`, `Receive`, `StreamOver`, `Post`, `TurnEnds` the browser. Keepalives and the deletion of
old rows are left out.

### AgentChat

`chat` holds the state and refs of the hooks behind the screen, `requests` what the tab awaits,
`turn` the turns that outlive the screen, `stored` and `handoff` the tab's storage, `session`,
`work` and `log` the server's sessions, the requests it works on and its history. An action is an
event handler, the continuation of a request, or a statement of the server. `StaleSession` and
`StaleConsultation` are the continuations that find the generation gone. A request may fail for
the browser while the server still works on it. The history is kept at best effort: `AppendFails` is
an append that fails and is swallowed, after which the turn is answered all the same
(`message-client.ts:88-98`); `unlogged` holds those turns.

### JsonStream and AgentReply

`JsonStream` has the scanner of `drainJsonObjectsFromBuffer` with the characters it tells apart, and feeds it a
body in chunks. `AgentReply` is one turn: `SendAgentMessage` reads the pin, the two authors stream
lines, `ResolveAgentTurn` and its helpers choose bubble, recommendation or cards. A line is what the
patterns of `reply-sanitizer.ts` and the marker parser tell of it (marker, narration, reference,
leaked thinking, claim, question); a line of which a clause is cut is two lines. Which persona
speaks is left out: it is only a preference among spots the user sees.

### Friends

`friendship` is the table, `calls` the transactions under way with the statement each is at,
`screen` and `loads` the friends and notifications screens with the lists they await, `flags` the
notifications. A call is free again when its answer is out, so `MaxCalls` bounds the calls under way
at once and not those of a behaviour. `asked` records who asked for a pair since it was last without
a row: a deletion empties it. `overtaken` holds the pairs whose present row was requested by an
account that was about to write its acceptance of an earlier row, which had been withdrawn meanwhile;
of these the code makes friends without asking the other (section 4). `CallsApi` lets every account
call the API as it likes, from any number of tabs.

### Library, and the screens over it

`Library` has the tables (`friends`, `collection`, `spot`, `liked`, `flags`) and `tx`, the
transactions under way. Each reads in one step per statement and writes in a last one, which fails
where a foreign key, a unique index or a policy refuses. Reads see what the policies of row-level
security show (`Sees` and its kin). Content (names, comments, tags, photos) is left out.

`SaveSpot` is the optimistic button and its sheet: `Tap`, `OpenPicker`, `HandleSelectCollection`,
the answers, `Navigate` and `Remount`. `CollectionScreen` and `MyPage` are the owner's screens:
every handler that sends a request, every answer, and the reloads. `MyPage` also has the profile
that all screens share and another device that changes it. `SharePages` decides what a link shows,
with one step per request of `loadCollectionPage` and its siblings.

### HomeScreen, Sheet, FeedCard

A spot is its place in the order of creation, which is its creation time too: two spots of one
millisecond, the precision of a cursor, are left out (see hazards in section 4). `fetches` holds
the loads under way. `Sheet` has each animation frame and timer of the component as a flag that may
fire. `FeedCard` adds the heart, and the touch that is a tap or a swipe.

### Session

`session` is what Firebase keeps in the browser, `user` what `useAuth` says of it, `view` the page,
`stored` whose data each key of the storage holds. Redirects are part of the step that changes
what they depend on (effects run before the next event). `Elsewhere` is a sign-in or sign-out in
another tab.

### Places and MapView

`Places` counts time in ticks; an answer carries its age. `store` and `inflight` are the server's
cache, `cache` and `fetching` the browser's, `hooks` the components that wait. In `MapView` one step
is an event with the renders and effects it leads to; `script`, `map` and `failure` are the three
watchers of a failing map, `located` the coordinates and whose request they answer, `position` the
user's place and the camera.

### FriendSearch, PhotoImage, BudgetNotifier

In `FriendSearch` a letter typed cancels the requests before it and starts the debounce timer again;
`named` is what the server finds for each text, which other users change. In `PhotoImage` a load is
asked, has a response, and becomes a blob; a spot or place that changes abandons it. `made`, `alive`
and `painted` are the blob of the present photo, the URLs not revoked and what the `<img>` has loaded.

In `BudgetNotifier` `request` is what each instance of the function is at: reading the object,
posting, writing the object. `Fails`, `PostIsLost` and `CommitIsLost` are the ways a request ends with
an error, whether what it did took effect or not. `posts` is the history of the channel.

## 3. Runs

| run | instance | shows |
|---|---|---|
| outbox_rows | 2 workers, 1 attempt, in two scopes. announce: Slack post, Issue, update, 1 replay, deployed timeouts. merge: the Issues of an incident and of a storm, comment and close, requests that outlive leases | `TypeOK`, `SentIsTrue`, `IssueIsAnnounced`, `DependencyOrder`, `StaleIsHarmless` |
| live | three parts, fair. chain: Issue and comment, 2 workers, 2 attempts. replay: the Issue, 1 replay. alerts: 1 alert, 2 pushes, 3 attempts, threshold 0 | `AtMostOnce`, `LeaseIsRespected`, `Settles`, `Converges`, and `Outbox` implements `OutboxDelivery` (`ImplementsDelivery`) |
| outbox_replay | one Issue, 1 replay, fair | violated: `ReplayUsesNewTaskName` |
| alerts_safety | 2 alerts, 2 pushes, 2 incidents, 2 attempts, threshold 1 | `TypeOK`, `OwnerMirrored`, `NoAlertLost`, `CountIsComplete`, `ChargedOnce`, `OwnerIsRespected` |
| alerts_stuck | the alerts of live | violated: `AlwaysConverges` |
| alerts_merge | as alerts_safety | violated: `MergedIssuesClose` |
| slack_thread | 2 mentions in one thread, 2 workers, 2 attempts | `OutcomeIsOne`, `RunsAreCharged`, `OneFollowup`, `AnsweredIsSettled` |
| agent_events | 2 server instances, 2 turns, 2 streams, 1 thinking message a turn, fair | `TypeOK`, `ReceivedOnceInOrder`, `OtherInstanceMissesNothing`, `DoneIsLast`, `SubscriberIsReached`, `StreamCatchesUp`, `GoneStreamStops` |
| agent_chat | 2 accounts, 2 sessions, 1 turn, 2 openings of the screen, 1 reload, fair | `TypeOK`, `ShownBelongs`, `StorageFollowsChat`, `PendingIsAwaited`, `HistoryComplete`, `SendingEnds` |
| friends_selfaccept | `Friends` itself: 2 accounts, 2 API calls at once | violated: `AcceptedByBoth` |
| session_signout | `Session` itself: 1 account, 1 tab | violated: `SignOutLeavesNothing` |
| web | one behaviour per module of apps/web | see below |

Two workers or pushes are the least that race, and every race in the code is between two: who
holds a row, and who comes late. Two attempts give a first, a last, and one too many; the
alerts of live take the deployed three. `MCOutboxRows` and `MCLive` only leave steps of the modules
out, so that each scope or part can be explored to its end; in live, what does not run stays as it
was at the start. Two alerts and two incidents allow an aggregation, a storm that merges
another incident, and an owner merged while its agent runs. Threshold 1 (0 with one alert) makes a
surge possible as soon as both alerts are recorded. A longer dependency chain than comment and
close does not exist in the code. Deadlock checking is off where a model may come to rest: all
rows settled and replays used up, or the bound on incident rows reached. `Workers` (outbox_rows and
slack_thread), `Events`, `Requests` and unused incident rows (alerts, safety) are interchangeable; runs with liveness use
no symmetry.

### The run web

`MCWeb` puts small instances of sixteen modules into one run (fifteen of the web application, and the
budget notifier): a behaviour belongs to one part, chosen at the start, and the variables of the other
parts are 0. Nothing is shared between parts, so the run checks the union of sixteen state spaces.
What the modules of the proved parts take as parameters, `MCWeb` takes as CONSTANTS, with
`WebAssumption` about them, so that the theorems of `WebProofs` hold of this very specification for
all their values; `Web.cfg` gives the small ones. The other parts have theirs in the INSTANCE. There
are about 1.1 million distinct states. Its properties are stated per part:

| property | part (instance) | says |
|---|---|---|
| `WebTypeOK`, `FriendshipIsMutual`, `OnlyUnfriendingEnds`, `ReadWasShown` | friends (2 accounts, the screens of one, 2 API calls under way at once, 2 flags, a page of 1) | both asked before they are friends, unless the pair was `overtaken`; a withdrawal or rejection that races with an accept ends no friendship; only a shown flag is read |
| `LibraryHolds` | library (a chain of 3 accounts, 2 transactions, 4 collections, 4 spots) | rows hold together whatever is deleted under a transaction; a flag names nobody who was never a friend |
| `ScreensAreTrue` | save (2 spots of a friend, 3 transactions), home (3 spots and a fourth, pages of 1, 1 extra page), card, screen, mypage, share, places, map, stream, reply, session (2 accounts), search (2 texts, 1 user to be found, 2 requests), photo (2 photos of the spot, 1 of its place, 2 blobs each) | what the button shows as saved is saved, once; the feed has no gap and rings are right; hearts are the server's, the sheet never traps; what a screen shows at rest is there; a shared page shows what was due; nothing of a place is too old; a failing map says so; chunks do not matter; a bubble has no internal talk and real shops only; no page is a dead end and nobody's data is shown to or left for another; a list is of the text in the field, a photo of its spot |
| `BudgetIsTold` | budget (5 messages about one period, 2 thresholds, 2 instances) | what was answered without an error was posted or had been told; nothing is told twice unless requests overlap or a post was not recorded |

`Bounded` in `MCWeb` limits what happens at once, never which of two things comes first: two loads
or two requests of a screen at a time, three posts about a budget, one change of the surroundings while a shared page is open,
one friendship at a time that differs from the start. Two requests are the least that cross and a
third repeats a crossing. A part whose property says no more once two answers crossed (`crossed`,
`disturbed`, `overlapped`) is not followed beyond that point. Pages of one spot make every page a
boundary; four spots give a page, an extra page, a page on demand and a new spot. A chain of three
accounts is the shortest in which a copy's source is by a stranger. Time to live 2, one entry and
lag 1 make every cached answer expire, be evicted and be refreshed. In the reply part the two
authors write three lines in all ways about one visible spot, and one line about the rest.

### Assumptions

`Overrun = FALSE` says that no request outlives its lease: the outbox lease is 660 s against a
600 s request timeout, an owner's 600 s against a 540 s deadline, an embedding's 60 s against the
30 s timeout of the call. The first two are enforced by the platform and the deadline; the third
is a matter of timing, since the timeout bounds each wait on the socket and the branch that
handles a failure waits for locks as well. With `Overrun = TRUE` in `Alerts_safety.cfg`, TLC
violates `OwnerMirrored`: a late failing embedding call completes a delivery that already owns an
investigation, because that branch (`noise.py:768-824`) checks neither status nor token.
The scope merge of outbox_rows runs with `Overrun = TRUE`, the scope announce without. `SlackEvents` lets any request outlive its lease and records
that it happened; the properties that need the opposite say so (`~outlived`).

### Fairness

Outbox: Cloud Scheduler starts the dispatcher every minute and Cloud Tasks keeps delivering, so a
dispatch and a delivery that are possible again and again happen (strong fairness per row); leases
and retained names run out; a request takes its next step or dies (weak). No call is assumed to
succeed, and nobody must replay. Alerts: Pub/Sub pushes until it is answered 200 (strong, per
message), leases run out, a request takes its next step or ends; and from some time on a request
ends without an answer only where the code gives it no further step, which says that crashes and
deadlines stop, not that the embedding API or the agent ever succeeds. That the retention of a
Pub/Sub message (7 days) is longer than this takes is part of the assumption.

Agent events: each stream's work goes on (weak): its query ends, its timer fires, polls do not
fail for ever, and the platform cancels the body of a response nobody reads. Nothing is assumed of
the browser or of turns. Agent chat: a turn in flight ends (weak), since the wait for its stream has
a deadline and its request a timeout. The properties of the run web need no fairness.

## 4. Findings

* **A replayed row can wait for a name that is taken** (outbox_replay). A replay adds one to the
  generation, but an expired lease has already used generation plus attempts as a task name; the
  enqueue is answered ALREADY_EXISTS, which counts as success, until the name is free again.
* **A crash of the last embedding attempt strands the alert** (alerts_stuck). Only the exception
  branch of that request escalates; later pushes fail the compare-and-set on the attempt count
  and are answered 500. `Converges` shows on the same instance that this is the only way.
* **An account can accept its own request** (friends_selfaccept). `acceptFriendRequest` reads the
  row with its author, then updates by pair and status only (`friends.ts:218-226`). If the other
  account withdraws its request between the two statements and the user asks in turn, the update
  accepts the user's own request. `docs/erd-api.md:174` wants the approval of both.
* **A sign-out can leave the feed's mark behind** (session_signout). What is kept per user is
  removed before Firebase's sign-out is awaited; home, which can be opened meanwhile, stores
  `lastReadFeedAt` when the sign-out unmounts it. The comment at `auth-context.tsx:70-72` says that
  this must not leak to the next account.
* **A merged incident's Issue can stay open** (alerts_merge). The close chain is built once, for
  the Issues that exist by then; an Issue that is still in the outbox is created afterwards.

Three more behaviours of the service met while modelling are in the hazards or in the modules: an
alert counted on two incidents (`docs/incident-agent.md:326` says it is aggregated once), an alert joining an analyzed incident without its comment, and a
normal incident opened beside a storm declared between two transactions.

In `apps/web` the properties are stated for what the code does promise; where it does not, they
say so in a premise. What the premises leave out, each a behaviour of the model:

* Save button: the picker's save is not checked against the current spot, so after a navigation
  it marks the new spot as saved (`use-recollect.ts:172`); two saves of one spot from two tabs may
  make two copies, since nothing but a read keeps them apart (premise `~disturbed`).
* Collection screen: the answer of a saved or removed spot is not checked against the collection
  shown, so after a navigation the spot appears in, or its count is taken off, another collection
  (`collection-detail-view.tsx:275-296`, `Misplaced`); a removal is counted off again if the list was
  loaded without the spot meanwhile; a load read before a save commits and answered after it hides
  the spot (all three set `crossed`). A navigation beside a change that is answered where it belongs
  is inside the property.
* Agent history: a failed append leaves an answer out of the history that was shown
  (`message-client.ts:88-98`, said to be best effort there); a later question about the same place is
  then pinned to an older recommendation.
* Home: a refresh that overlaps more pages may leave a gap (`home-view.tsx:168`; `~overlapped`); a
  retry after an error asks for more pages and does nothing without a cursor; the mark left at
  unmount covers spots that were never loaded; a cursor has milliseconds where the column has
  microseconds (`feed/cursor.ts:9`), so spots of one millisecond can be skipped.
* My page: the profile's GET that overlaps a create or a save shows an older picture or counts a
  collection twice (`me-provider.tsx:38`); a picture whose upload ends after the sheet was closed
  is lost, or lands in the next opening.
* Session: a sign-out in another tab or an expired session clears none of the per-user storage,
  and home writes its mark while the sign-out is awaited (the finding above; premise `~strayed`). The
  proof met another way, which needs more than the three answers the run allows at once: a redirect still awaited goes on while
  the sign-out is, so that home is left once more and stores the mark. `strayed` therefore includes
  whatever moves the page during a sign-out. Also `mogu:lastRecollectTarget` survives a sign-out; if
  `ensureDefaultCollection` fails after the profile was written, the account has no collection
  (`users/route.ts:22`), and two at once may create two.
* Shared pages: the retry of a collection's page does not reload a failed profile
  (`collection-page-view.tsx:103`), the one of a spot's page does.
* Places and maps: `docs/erd-api.md:559` says that the place endpoint is not cached; the code keeps
  an answer in the server's process and again in the browser, so that what is shown may be two lives
  of an entry old, which is the bound that `PlacesAreFresh` states. A rejected request is not handled, so its component waits for ever
  (`use-place.ts:30`); the position of the user is never asked for again; any new list of items
  moves the camera after the user dragged the map.
* Agent replies: narration followed only by leaked thinking is not blank after the first cleaning,
  so the persona's text is not used, and blank after the second (`resolve-agent-turn.ts:138`);
  thinking after the first line is not cut; the third disjunct of the route never decides; in demo
  mode a reply that names visible and demo spots loses the demo ones.
* Search: between the last letter and the first search for it, `showSearchEmpty` says that nobody
  was found (`use-friend-search.ts`, 300 ms); the property is about the screen at rest.
* Budget notifier: when a message exceeds an actual and a forecast threshold at once, the post names
  the actual one only (`index.js:88-92`) and both count as told; an overlapping request may write an
  older record over a newer one, so a threshold may be told again, which the comment in
  `dedupe.js:111-113` accepts ("prefer a rare duplicate over a lost cost alert").

## 5. Proofs

Each theorem holds for every value of the constants. Its assumptions are `OutboxConstants`,
`AlertsConstants`, `SlackConstants`, `AgentEventsConstants` and `AgentChatConstants` (evaluated by TLC
in every run that extends the module), `WebAssumption` for `MCWeb`, whose parts are the hypotheses
of the theorems about its modules, and what a theorem names.

`Outbox`, for every set of rows and workers, every dependency function and every bound:

* `TypeCorrect` (`OutboxProofs`): `TypeOK` is not inductive, since a step of an active worker indexes the table
  with the worker's row; `Typed` adds that an active worker has one.
* `SentForever`: the only actions that write a row have guards that exclude `sent`. Lemma
  `RowSummary` says once what any step can do to a row, and the later proofs use it instead of
  going through the actions again.
* `EffectsInOrder`, `NoBlockedTask`: the strengthening `Ordered` says that a queued task, a row
  beyond `pending`, a worker at work and an existing effect each imply that the dependency is
  sent; `SentForever` keeps that true.
* `Once` (`~Overrun`): `Exclusive` says that an active worker holds its row (`Held`), that no two
  hold the same (`Alone`), and that a worker about to post has seen that there is nothing yet
  (`PostingIsNew`). Without `~Overrun` the first fails.
* `SentMeansSent`: only `Mark` makes a row sent, and it does so with the effect in the world and,
  for a primary row, with the incident's reference written or equal; effects and references never
  go. `SentIsTrue` is inductive beside `Ordered`.
* `IssuesAnnounced` (`UpdatesFollowPosts`): `PrimariesTogether` adds that the first post and the
  Issue of an incident are recorded together, so the transaction that marks the Issue sent finds
  the post and creates the update; the hypothesis, that an update depends on its incident's post,
  is how the code builds it.
* `LateIsHarmless`: whoever writes an effect or a row is its row's holder or writes what is there
  already, also when requests outlive their leases (`StaleIsHarmless`).
* `LeasesRespected` (`~Overrun`): a row with a live lease is changed by its holder only; from `Held`
  and `RowSummary`.
* `Implements` (`~Overrun`): under the mapping of status and `world` in `Outbox`, each step is a
  step of `OutboxDelivery` or a stutter, given `Typed`, `Ordered` and `Exclusive`.

`Alerts`, for every set of messages, keys, incidents and requests, every threshold and budget:

* `TypeCorrect` (`AlertsProofs`): `Typed` adds to `TypeOK` that a delivery in `processing` names its
  incident, that a request in progress names its message and, from the choice of an incident on, an
  incident. Without the first, a redelivery to the owner would index the table with no incident.
  Lemmas say once what the shared parts (`Choose`, `Sift`, `Escalate`, `SaveAs`, `Done`) preserve.
* `ChargedOncePerDelivery` (`AlertsProofs`): all steps but two leave `reserved` and the
  budget alone; `ReserveEmbedding` adds one delivery to a finite set and one to the count; a claim
  needs that a request about to embed has its delivery reserved, which is the strengthening.
* `OwnersMirrored`, `AnsweredNotLost` (`AlertsProofs`, `~Overrun`): the tables' invariant is
  `Mirrored` (owner row and incident agree), `Filed` (a completed delivery names an incident, what
  was decided has outbox rows) and `Tokened`. It needs what the requests know: `StageOK` says of
  each stage what its request read and may still rely on, `Alone` that one embedding call of a
  delivery runs at a time, `Answered` that only completed deliveries were answered. With
  `Overrun = TRUE` `Alone` fails, and with it the first property (see Assumptions).
* `LiveOwnerStays`, `AlertsCounted` (`AlertsProofs`, `~Overrun`): `NextSteps` sorts all actions
  into four shapes (nothing changes hands; an incident is founded; a message joins; the owner saves
  or renews). On these, `Fresh` says that tokens count attempts and only grow, that no two requests
  hold the same, and that a redelivery which still has its row's token came after the lease ended:
  so nobody but the owner passes the token check while the lease is live. `Counted` adds that a row
  at work names no incident (`Unfiled`), and follows the finite set of deliveries of an incident.

`SlackEvents` (`SlackEventsProofs`), for any events, incidents, requests and attempts:

* `SlackTypes`: `Typed` adds that a request in progress names an event.
* `FollowupsArePaid`: `ChargeInv` counts, beside the runs begun, the requests that have claimed an
  event and not yet called the model: together they are no more than the attempts.
* `OneOutcome`: `OutcomeInv` says of each request about to tell the thread that it stands for the
  only end its event has had, which also holds for requests that outlived their lease.
* `OneFollowupAtATime`, `NoMentionDropped`: as long as nothing outlived its lease, a request that
  holds an event has its row's live lease and its incident (`HoldInv`); so two never hold the same,
  and `complete`, which asks for no token, meets its own row.

`AgentEvents` (`AgentEventsProofs`), for any instances, turns, messages, streams and polls in flight,
and any buffer that holds more than a turn's thinking messages. The first lemmas say what the
operators on the table return: `InOrder` lists rows by rank (`InOrderLists`, a pigeonhole argument),
`Above` keeps exactly the rows above an id, a poll skips none (`PolledRows`), the buffer is the newest
part of the table (`RecentRows`). These operators and `PushAll` are written in closed form, without
recursion, so that they can be proved about. `StreamFate` and `ClientFate` say once what any step
does to a stream and to the browser. The invariant is a conjunction:

* `Typed` and `TurnInv`: an id belongs to one row or to the turn about to store it, a turn stores its
  events one after the other, each once, and ids given out are as many as events begun, so they stay
  in range. `AgentTypes` and `DoneComesLast` follow.
* `Known`: what was replayed, polled, sent or seen are rows of the table.
* `Listening` and `SetsApart`: an open live stream is in the set its instance's map holds, and a set
  has streams of one instance only, although a set outlives the stream it is named after.
  `SubscribersReached` follows.
* `InSync`: a stream that is checking or reading starts at the last id the browser saw, and what is on
  the wire ascends from there to the last id sent. `EventsOnceInOrder` follows.
* `NoneSkipped` (with `PollsAreLive`): while the premise of `OtherInstanceMissesNothing` holds, every
  stored event of the turn up to one seen, sent, replayed or polled is itself seen, on the wire or in
  what was read. A new row is newer than all that was read; a fan-out of the turn itself cannot reach
  the stream (`SetsApart`) and one of another turn is older than all of its rows; a replay reads all of
  the turn because its rows are at most `MaxThinking + 1` and the buffer limit exceeds `MaxThinking`
  (`MineIsRecent`). `PollingLosesNothing` follows.

`AgentChat` (`AgentChatProofs`), for any accounts, sessions, turns, mounts and reloads. One invariant
serves all properties (`ChatInvariant`), since what the screen, the storage, the turns in flight and
the server know of a conversation lean on each other. There is one lemma for each action and, where an
action has several outcomes, one for each conjunct it can disturb. The conjuncts:

* `Typed`, `Counted`: sessions and turns are numbered as they come, and of a session one turn is in
  flight at most: a send needs an idle chat, and whoever shows a session with a turn in flight is
  sending. `ChatTypes` follows.
* `OneAwaited`, `WaitersSend`: of the requests the screen itself waits for, one is current, and while it
  runs the chat loads, so nothing else can be sent or opened; a screen that a turn's result will
  reach is sending and shows that turn's session. They are the generation counters of
  `use-agent-session.ts` seen from the state: without them a late answer could be shown in another
  session.
* `Owned`: the chat, the storage, requests, turns with the entries they save, the log and the server's
  work each hold entries of one session, and that session is the holder's account's. All of them are
  needed, since each is a way by which entries reach the chat. `ShownIsOwn` follows.
* `Pending`: the turn the storage waits for is in flight, will save, and belongs to the stored session;
  or the page was reloaded, and then nothing is in flight. `PendingAwaited` follows.
* `Following`: before the history is used, the storage is the screen's, and a turn that will save is
  the one the storage waits for, so a save by an earlier conversation is ruled out. `StorageFollows`
  follows. The history is excluded because a screen
  that is gone still stores the consultation it opened (`ConsultationOpensUnseen`).
* `FreshAwaited`, `Kept`: a session just created has no turn and no work; a session none of whose
  requests was given up has one piece of work at a time, the greeting before any turn, and a turn's
  append read the log as it still is. So the answers in the chat, the storage and the turns in flight are in the
  log, unless the turn's own append failed (`unlogged`): nothing else removes one, neither another
  turn's append nor a snapshot. `HistoryKeepsAnswers` follows.

`Friends` (`WebPartsProofs`, which extends it), for any accounts, screens and calls:

* `Mutual`: `FriendshipIsMutual` alone is not inductive: an accept reads a request and then updates
  by pair only, when the row may be another. `FriendshipInvariant` adds that a row's author asked
  since the pair was last without a row (`RowIsAsked`), that nobody outside the pair did, and nobody
  at all while there is no row (`AskedBy`), and that an acceptance about to be written meets a request
  of the other account (`AcceptsAnother`) unless the pair was `overtaken`: since an acceptance asks
  too, both did. Without `overtaken` the last fails, which is the finding of friends_selfaccept.
* `EndsByUnfriending`: each step that ends an accepted row is a statement of an unfriending.
* `ReadAfterShown`: `FlagsInv` says that what a load is about to mark was shown by it.
* `FriendsKeepTheirTypes`: `FriendsTyped` says what kinds of calls, screens and loads there are; that
  an account is on none of its own lists (`ListsOf`) follows from what the rows of a pair are.

`Library` (`LibraryProofs`), for any accounts and places, any number of transactions and any tables at
the start that fit together (`LibraryConstants`, part of `WebTypeOK`):

* `LibraryTypes`: of interest is the order of a new collection, the greatest of those read plus one;
  that a finite set of numbers has a greatest is `GreatestExists`, a least-counterexample argument.
* `HoldsTogether`: the tables alone do not explain why a copy fits, since the statements of
  `recollectSpot` read source, target and earlier copies before the one that inserts. The strengthening
  is `Knows`: from its first read on, the source of a copy is gone, or it is still another account's,
  with whom the user is or was friends. `Lasts` is what any step leaves of it: ids are not used twice, a
  spot keeps its author, and who were friends remains on record. At the insert the foreign keys and the
  policy ask for source and target again, so the copy fits; its flag names the user only for a first copy,
  whose receiver is the author of the source.

`SaveSpot` (`LibraryProofs` too, which extends it), for any tables at the start in which the spots on
display are others' and nobody has a second copy (`SaveConstants`):

* `SavedTellsTheTruth` (`SaveInvariant`, which TLC checked on two instances first): what the button
  shows depends on what a request in flight will do, so the invariant joins three things. A request
  is served by a transaction of its own (`FlightsFit`), and a transaction that removes copies holds
  copies of its spot (`TxsFit`); these hold whatever happens. Until `disturbed`, at most one request of
  a spot is awaited (`OneFlight`) and none that writes is unattended (`Heeded`), so that nothing can
  come between the check for an earlier copy and the insert (`CopiesFit`), of which `OneCopy` is the
  result; and what is shown as saved has a copy, or the request that removes it is still awaited
  (`ShownIsSaved`). `HostFits` is what makes a remount harmless: a card shows what its feed was told, a
  page holds no such memory and leaves a picker with its spot. `Alone` is the lemma used most: what
  one awaited request changes, no other shows.

The other parts of `MCWeb` (`WebPartsProofs`, where each module is an instance with the constants and
variables that `MCWeb` gives it). Each theorem has one invariant, that implies type and property:

* `CardTellsTheTruth` (`CardInvariant`): `SheetFits` says which timers and frames can be pending in
  which phase of the sheet, so that none of an earlier opening closes a later one for good;
  `HeartFits` that a heart under way knows what it goes back to, and that, unless an answer was
  lost, the server has what the heart says or what it had before.
* `SearchFindsWhatIsTyped` (`SearchInvariant`): a request that nobody cancelled is of the text in the
  field, and its answer is what that text found since it was typed (`HeardIsCurrent`).
* `PhotoIsOfItsSpot` (`PhotoInvariant`): of the loads one at most is not abandoned, and it is of the
  photo wanted; while it runs no blob is alive; when it is over, the blob shown is the one it made or
  the photo failed (`Settled`). A component that remains shows the state of an earlier photo until the
  load ends, which `Active` masks.
* `MapTellsTheTruth` (`MapInvariant`): `Located` ties coordinates to the spots they were asked for,
  `FailureFits` and `ScreenFits` the three watchers to what is mounted, `BoardFits` my page's memory
  of a failure to the failure itself.
* `SessionsStayTheirs` (`SessionInvariant`): whoever shows that it waits is heard by an answer that is
  still to come (`Waiting`), so no page is a dead end; while the tab is not `strayed`, answers heard
  inside the gates were asked for the user who is inside (`AsksAreTheirs`), and what is shown and
  stored is that user's. `Emptied` is needed for the sign-out: while it is awaited nothing is stored.
* `SharedPagesShowWhatWasDue` (`ShareInvariant`): of each load, what it has read so far was so since
  the page was entered (`seen` follows the tables), and what is on the screen is of the present
  route. It stands beside the Library's invariant, from `LibraryProofs`: the gate of a spot decides by its
  collection, and only the tables' invariant says that a spot lies in a collection of its author.
* `BudgetIsToldOnce` (`BudgetInvariant`): every threshold recorded was posted (`Recorded`), and one
  about to be recorded is posted or is the message's own (`Recordable`), which needs nothing of other
  requests and so survives overlaps. That nothing is told twice needs `OneAtATime`: in a period
  without overlaps one request works, its state is computed from the object still there, and the
  object, or what is about to be written to it, tops all posts.

`MCWeb` itself (`WebProofs`): `FriendsAreMutual`, `FlagsReadWereShown`, `FriendshipsEndByUnfriending`,
`LibraryHoldsTogether` and `BudgetsAreTold` state the very formulas that run web checks, for all
constants that `WebAssumption` allows; `ScreensProved` is `ScreensAreTrue` for the parts save, card,
session, map, share, search and photo, `TypesProved` is `WebTypeOK` for these and friends, library and budget.
A step of `Next` is a step of the module of its part or leaves that part alone (`PartStays` and one
lemma for each part), and what `WebPartsProofs` and `LibraryProofs` prove is then cited. The lemmas
`Same...` say that both instances of a module are the same formula, since tlapm does not see that by
itself.

Only model-checked:

* liveness (`Settles`, `Converges`, `SendingEnds`, `StreamCatchesUp`, `GoneStreamStops`), which is
  beyond the prover;
* of `ScreensAreTrue` and `WebTypeOK`, the parts places, stream and reply, whose definitions rest on
  `SelectSeq`, folds or recursion, which the provers cannot expand; and home, screen and mypage,
  whose invariants would say what each request in flight will still show (see the plan).

## 6. Not modelled

* The agent runtime, masking, keys and adapters: computation over one payload, no shared state.
* Uploads, image resizing, searches of places: single calls to external services.
* The demo seed and other development scripts; agent personas and most of terraform: declarations.
* The budget day's change at midnight, the retention job, rate limits, keepalives, the content of
  rows (names, comments, tags, photos), layout and wording.

## 7. Plan

1. `ScreenIsTrue` and `PageIsTrue` for all constants, the way `SavedIsTrue` is proved: `CollectionScreen`
   and `MyPage` with their constants in `MCWeb`, and an invariant that says of each request in flight
   what its answer will show. Then `HomeScreen`.
2. An abstract intake refined by `Alerts`, and a composition of `Alerts` with `Outbox` through the rows
   they share.
