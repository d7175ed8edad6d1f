-------------------------- MODULE AgentChatProofs --------------------------
(***************************************************************************)
(* Theorems about AgentChat for any accounts, sessions, turns, mounts and  *)
(* reloads, and any number of requests under way.                          *)
(***************************************************************************)
EXTENDS AgentChat, FiniteSetTheorems, SequenceTheorems, WellFoundedInduction, TLAPS

-----------------------------------------------------------------------------
(* The inductive invariant.                                                *)

Flying(t) == turn[t].phase \in {"waiting", "posted"}

\* Every turn these entries tell of was sent in session s.
SentIn(turns, entries, s) == \A t \in TurnsIn(entries) : turns[t].sid = s

\* Sessions and turns are numbered as they come, and one turn of a session is in
\* flight at a time.
Counted ==
    /\ \E n \in 0 .. MaxSessions : Created = 1 .. n
    /\ \E n \in 0 .. MaxTurns : Sent = 1 .. n
    /\ \A t \in Turns : turn[t].sid = 0 <=> turn[t].phase = "none"
    /\ \A t, u \in Turns : Flying(t) /\ Flying(u) /\ turn[t].sid = turn[u].sid => t = u

\* The request whose end the screen waits for is one, and nothing is sent or
\* picked meanwhile.
OneAwaited ==
    /\ ~chat.mounted => chat = NoChat
    /\ chat.mounted => user \in Users /\ ~past.leaving
    /\ chat.sending => chat.status = "ready" /\ chat.sid # 0 /\ ~chat.history
    /\ chat.history => chat.status = "ready"
    /\ \A r \in requests : r.mine => chat.mounted /\ r.user = user
    /\ \A r \in requests : r.mine /\ r.current =>
          /\ chat.status = "loading"
          /\ r.what = "sync" => chat.view = "live" /\ chat.sid = r.sid /\ chat.persist
    /\ \A r, q \in requests : r.mine /\ r.current /\ q.mine /\ q.current => r = q

\* A screen that will show a turn's result is sending, in that turn's session.
WaitersSend ==
    \A t \in Turns : \A w \in turn[t].waiters :
        /\ Flying(t)
        /\ w.mine /\ (w.current \/ ~w.resume) => chat.sending /\ chat.sid = turn[t].sid

\* Whatever holds entries of a session belongs to the session's account, and the
\* entries to the session.
ChatOwned ==
    chat.sid # 0 =>
        /\ user \in Users /\ session[chat.sid].user = user
        /\ chat.entries # <<>> /\ SentIn(turn, chat.entries, chat.sid)
StoredOwned ==
    stored # NothingStored =>
        /\ stored.user \in Users /\ stored.sid \in Sessions
        /\ session[stored.sid].user = stored.user
        /\ stored.entries # <<>> /\ SentIn(turn, stored.entries, stored.sid)
RequestsOwned ==
    \A r \in requests : r.what # "create" =>
        r.sid \in Sessions /\ session[r.sid].user = r.user
TurnsOwned ==
    \A t \in Turns : turn[t].sid # 0 =>
        /\ session[turn[t].sid].user \in Users
        /\ Flying(t) => turn[t].before # <<>> /\ SentIn(turn, turn[t].before, turn[t].sid)
LogOwned ==
    \A s \in Sessions : SentIn(turn, log[s], s)
WorkOwned ==
    \A o \in work :
        /\ session[o.sid].user \in Users
        /\ SentIn(turn, o.read, o.sid) /\ SentIn(turn, o.add, o.sid)
        /\ o.what = "turn" => o.turn \in Turns /\ turn[o.turn].sid = o.sid
Owned == ChatOwned /\ StoredOwned /\ RequestsOwned /\ TurnsOwned /\ LogOwned /\ WorkOwned

\* The turn the storage waits for is in flight and will end the wait, or a reload
\* ended it and no screen was opened since.
Pending ==
    stored.pending # 0 =>
        /\ stored.user = user /\ ~past.leaving
        /\ Len(stored.entries) > 1 /\ Asked(stored.pending) \in ToSet(stored.entries)
        /\ \/ past.reloads > 0 /\ ~chat.mounted /\ \A t \in Turns : ~Flying(t)
           \/ /\ Flying(stored.pending) /\ turn[stored.pending].saves
              /\ turn[stored.pending].sid = stored.sid
        /\ (chat.status = "ready" /\ chat.sid = stored.sid) => chat.sending

\* As long as the history is not used, what is stored is the account's, and the
\* conversation of the screen; a turn that will save is the one it waits for.
Following ==
    ~past.opened =>
        /\ \A r \in requests : r.what # "open"
        /\ stored # NothingStored =>
              /\ stored.user = user /\ ~past.leaving
              /\ chat.mounted => chat.sid = stored.sid /\ chat.status = "ready"
        /\ \A t \in Turns : Flying(t) /\ turn[t].saves =>
              /\ stored.pending = t /\ stored.sid = turn[t].sid
              /\ Answer(t) \notin ToSet(stored.entries)
        /\ (/\ chat.status = "ready" /\ chat.view = "live" /\ ~chat.sending /\ chat.persist) =>
              stored = NothingStored
              \/ (stored.sid = chat.sid /\ stored.entries = chat.entries)

\* The server works on one request of a session at a time, the greeting before
\* any turn, and what a reader of the session shows as answered is recorded unless
\* its own append failed.
Answers(entries) == {t \in Turns : Answer(t) \in ToSet(entries)}

NoTurnsOf(s) == \A t \in Turns : turn[t].sid # s

FreshAwaited ==
    /\ \A r \in requests : r.what = "created" /\ r.mine /\ r.current =>
          NoTurnsOf(r.sid) /\ \A o \in work : o.sid # r.sid
    /\ \A r, q \in requests : r.what = "created" /\ q.what = "created" /\ r.sid = q.sid => r = q

OneWorkAt(s) == \A o, p \in work : o.sid = s /\ p.sid = s => o = p

WorkInOrder(s) ==
    \A o \in work : o.sid = s =>
        /\ o.stage = "read" => o.read = log[s]
        /\ o.what = "sync" =>
              /\ NoTurnsOf(s)
              /\ \E r \in requests : r.what = "sync" /\ r.sid = s /\ r.mine /\ r.current
        /\ o.what = "turn" =>
              /\ turn[o.turn].phase = "posted" /\ o.turn \in Answers(o.add)
              /\ o.stage = "answered" => o.turn \in Answers(log[s]) \cup unlogged

AnswersLogged(s) ==
    /\ chat.sid = s => Answers(chat.entries) \subseteq Answers(log[s]) \cup unlogged
    /\ stored.sid = s => Answers(stored.entries) \subseteq Answers(log[s]) \cup unlogged
    /\ \A t \in Turns : Flying(t) /\ turn[t].sid = s =>
          Answers(turn[t].before) \subseteq Answers(log[s]) \cup unlogged

Kept ==
    \A s \in Sessions \ past.abandoned : OneWorkAt(s) /\ WorkInOrder(s) /\ AnswersLogged(s)

Inv ==
    /\ Typed /\ Counted /\ OneAwaited /\ WaitersSend /\ Owned
    /\ Pending /\ Following /\ FreshAwaited /\ Kept
-----------------------------------------------------------------------------
(* The operators on entries.                                               *)

LEMMA LeastNatural ==
    ASSUME NEW T, T \subseteq Nat, T # {}
    PROVE  Min(T) \in T
  <1>1. IsWellFoundedOn(OpToRel(<, Nat), Nat)
    BY NatLessThanWellFounded
  <1>2. PICK x \in T : \A y \in T : ~(<<y, x>> \in OpToRel(<, Nat))
    BY <1>1, WFMin
  <1>3. \A y \in T : ~(y < x)
    BY <1>2 DEF OpToRel
  <1>4. \A y \in T : x <= y
    BY <1>3
  <1> QED BY <1>4 DEF Min

LEMMA RemoveAtFacts ==
    ASSUME NEW S, NEW s \in Seq(S), NEW m \in 1 .. Len(s)
    PROVE  /\ RemoveAt(s, m) \in Seq(S) /\ Len(RemoveAt(s, m)) = Len(s) - 1
           /\ ToSet(RemoveAt(s, m)) \subseteq ToSet(s)
  <1> DEFINE a == SubSeq(s, 1, m - 1)
             b == SubSeq(s, m + 1, Len(s))
  <1>1. Len(s) \in Nat /\ DOMAIN s = 1 .. Len(s) /\ \A j \in 1 .. Len(s) : s[j] \in S
    OBVIOUS
  <1>0. Len(s) \in Int /\ m \in Int /\ 1 <= m /\ m <= Len(s)
    BY <1>1
  <1>2. a \in Seq(S) /\ Len(a) = m - 1 /\ \A j \in 1 .. m - 1 : a[j] = s[j]
    BY <1>1, SubSeqProperties
  <1>3. b \in Seq(S) /\ Len(b) = Len(s) - m /\ \A j \in 1 .. Len(s) - m : b[j] = s[m + j]
    <2>1. m + 1 \in Int /\ Len(s) \in Int /\ \A j \in m + 1 .. Len(s) : s[j] \in S
      BY <1>1
    <2>2. /\ b \in Seq(S)
          /\ Len(b) = IF m + 1 <= Len(s) THEN Len(s) - (m + 1) + 1 ELSE 0
          /\ \A i \in 1 .. Len(s) - (m + 1) + 1 : b[i] = s[(m + 1) + i - 1]
      BY <2>1, SubSeqProperties
    <2>3. ASSUME NEW j \in 1 .. Len(s) - m PROVE b[j] = s[m + j]
      <3>1. j \in 1 .. Len(s) - (m + 1) + 1 /\ (m + 1) + j - 1 = m + j
        BY <1>1
      <3> HIDE DEF b
      <3> QED BY <2>2, <3>1
    <2>4. Len(b) = Len(s) - m
      <3>1. Len(b) = IF m + 1 <= Len(s) THEN Len(s) - (m + 1) + 1 ELSE 0
        BY <2>2
      <3>2. (IF m + 1 <= Len(s) THEN Len(s) - (m + 1) + 1 ELSE 0) = Len(s) - m
        BY ONLY <1>0
      <3> QED BY <3>1, <3>2
    <2> HIDE DEF b
    <2> QED BY <2>2, <2>3, <2>4
  <1> HIDE DEF a, b
  <1>7. /\ a \o b \in Seq(S) /\ Len(a \o b) = Len(a) + Len(b)
        /\ \A i \in 1 .. Len(a) + Len(b) :
              (a \o b)[i] = IF i <= Len(a) THEN a[i] ELSE b[i - Len(a)]
    BY <1>2, <1>3, ConcatProperties
  <1>4. RemoveAt(s, m) = a \o b
    BY DEF RemoveAt, a, b
  <1>5. a \o b \in Seq(S) /\ Len(a \o b) = Len(s) - 1
    BY <1>1, <1>2, <1>3, <1>7
  <1>6. ASSUME NEW j \in 1 .. Len(s) - 1 PROVE (a \o b)[j] \in ToSet(s)
    <2>1. CASE j <= m - 1
      <3>1. (a \o b)[j] = a[j] /\ a[j] = s[j] /\ j \in DOMAIN s
        BY <1>1, <1>2, <1>3, <1>7, <2>1
      <3> QED BY <3>1 DEF ToSet
    <2>2. CASE j > m - 1
      <3>1. (a \o b)[j] = b[j - (m - 1)]
        BY <1>1, <1>2, <1>3, <1>7, <2>2
      <3>2. j - (m - 1) \in 1 .. Len(s) - m /\ m + (j - (m - 1)) \in 1 .. Len(s)
        BY <1>1, <2>2
      <3>3. (a \o b)[j] = s[m + (j - (m - 1))]
        BY <1>3, <3>1, <3>2
      <3> QED BY <1>1, <3>2, <3>3 DEF ToSet
    <2>3. j <= m - 1 \/ j > m - 1
      BY <1>0
    <2> QED BY <2>1, <2>2, <2>3
  <1> QED BY <1>4, <1>5, <1>6 DEF ToSet

LEMMA ConcatToSet ==
    ASSUME NEW S, NEW a \in Seq(S), NEW b \in Seq(S)
    PROVE  ToSet(a \o b) = ToSet(a) \cup ToSet(b)
  <1>1. /\ a \o b \in Seq(S) /\ Len(a \o b) = Len(a) + Len(b)
        /\ \A i \in 1 .. Len(a) + Len(b) : (a \o b)[i] = IF i <= Len(a) THEN a[i] ELSE b[i - Len(a)]
    BY ConcatProperties
  <1>2. Len(a) \in Nat /\ Len(b) \in Nat /\ DOMAIN a = 1 .. Len(a) /\ DOMAIN b = 1 .. Len(b)
        /\ DOMAIN (a \o b) = 1 .. Len(a) + Len(b)
    BY <1>1
  <1>3. ASSUME NEW x \in ToSet(a \o b) PROVE x \in ToSet(a) \cup ToSet(b)
    <2>1. PICK i \in 1 .. Len(a) + Len(b) : x = (a \o b)[i]
      BY <1>2 DEF ToSet
    <2>2. CASE i <= Len(a)
      BY <1>1, <1>2, <2>1, <2>2 DEF ToSet
    <2>3. CASE i > Len(a)
      <3>1. i - Len(a) \in DOMAIN b /\ x = b[i - Len(a)]
        BY <1>1, <1>2, <2>1, <2>3
      <3> QED BY <3>1 DEF ToSet
    <2> QED BY <1>2, <2>2, <2>3
  <1>4. ASSUME NEW x \in ToSet(a) PROVE x \in ToSet(a \o b)
    <2>1. PICK i \in 1 .. Len(a) : x = a[i]
      BY <1>2 DEF ToSet
    <2>2. i \in DOMAIN (a \o b) /\ x = (a \o b)[i]
      BY <1>1, <1>2, <2>1
    <2> QED BY <2>2 DEF ToSet
  <1>5. ASSUME NEW x \in ToSet(b) PROVE x \in ToSet(a \o b)
    <2>1. PICK i \in 1 .. Len(b) : x = b[i]
      BY <1>2 DEF ToSet
    <2>2. i + Len(a) \in DOMAIN (a \o b) /\ i + Len(a) > Len(a) /\ (i + Len(a)) - Len(a) = i
      BY <1>2
    <2>3. x = (a \o b)[i + Len(a)]
      BY <1>1, <1>2, <2>1, <2>2
    <2> QED BY <2>2, <2>3 DEF ToSet
  <1> QED BY <1>3, <1>4, <1>5

LEMMA EntryFacts ==
    /\ Welcome \in Entries
    /\ \A t \in Turns : Asked(t) \in Entries /\ Answer(t) \in Entries
    /\ \A k \in Kinds \cup {"none"} : Greeting(k) \in Entries
    /\ \A t, u \in Turns : Asked(t) # Answer(u) /\ (Asked(t) = Asked(u) => t = u)
                           /\ (Answer(t) = Answer(u) => t = u)
    /\ \A t \in Turns, k \in Kinds \cup {"none"} :
          Asked(t) # Greeting(k) /\ Answer(t) # Greeting(k)
  <1>1. /\ Welcome \in Entries
        /\ \A t \in Turns : Asked(t) \in Entries /\ Answer(t) \in Entries
        /\ \A k \in Kinds : Card(k) \in Entries
    BY DEF Entries
  <1>2. \A k \in Kinds \cup {"none"} : Greeting(k) \in Entries
    BY <1>1 DEF Greeting
  <1>3. \A t, u \in Turns : Asked(t) # Answer(u) /\ (Asked(t) = Asked(u) => t = u)
                           /\ (Answer(t) = Answer(u) => t = u)
    BY DEF Asked, Answer, Entry
  <1>4. \A t \in Turns : t # 0
    BY DEF Turns
  <1>5. \A t \in Turns : Asked(t).turn = t /\ Answer(t).turn = t
    BY DEF Asked, Answer, Entry
  <1>6. \A k \in Kinds \cup {"none"} : Greeting(k).turn = 0
    BY DEF Greeting, Welcome, Card, Entry
  <1>7. \A t \in Turns, k \in Kinds \cup {"none"} :
           Asked(t) # Greeting(k) /\ Answer(t) # Greeting(k)
    BY <1>4, <1>5, <1>6
  <1> QED BY <1>1, <1>2, <1>3, <1>7

LEMMA GreetingFacts ==
    ASSUME NEW k \in Kinds \cup {"none"}
    PROVE  /\ <<Greeting(k)>> \in Seq(Entries) /\ <<Greeting(k)>> # <<>>
           /\ TurnsIn(<<Greeting(k)>>) = {} /\ Answers(<<Greeting(k)>>) = {}
  <1>1. ToSet(<<Greeting(k)>>) = {Greeting(k)}
    BY DEF ToSet
  <1> QED BY <1>1, EntryFacts DEF TurnsIn, Answers

LEMMA WelcomeFacts ==
    /\ <<Welcome>> \in Seq(Entries) /\ <<Welcome>> # <<>>
    /\ TurnsIn(<<Welcome>>) = {} /\ Answers(<<Welcome>>) = {}
  BY GreetingFacts DEF Greeting

LEMMA FewerTurns ==
    ASSUME NEW e, NEW f, ToSet(e) \subseteq ToSet(f)
    PROVE  TurnsIn(e) \subseteq TurnsIn(f) /\ Answers(e) \subseteq Answers(f)
  BY DEF TurnsIn, Answers

LEMMA AskedFacts ==
    ASSUME NEW e \in Seq(Entries), NEW t \in Turns
    PROVE  /\ Append(e, Asked(t)) \in Seq(Entries)
           /\ Len(Append(e, Asked(t))) = Len(e) + 1 /\ Append(e, Asked(t)) # <<>>
           /\ Asked(t) \in ToSet(Append(e, Asked(t)))
           /\ TurnsIn(Append(e, Asked(t))) \subseteq TurnsIn(e) \cup {t}
           /\ Answers(Append(e, Asked(t))) = Answers(e)
  <1>1. ToSet(Append(e, Asked(t))) = ToSet(e) \cup {Asked(t)}
    <2>1. /\ Asked(t) \in Entries /\ Len(e) \in Nat /\ DOMAIN e = 1 .. Len(e)
          /\ DOMAIN Append(e, Asked(t)) = 1 .. Len(e) + 1
          /\ \A i \in 1 .. Len(e) : Append(e, Asked(t))[i] = e[i]
          /\ Append(e, Asked(t))[Len(e) + 1] = Asked(t)
      BY EntryFacts
    <2>2. 1 .. Len(e) + 1 = (1 .. Len(e)) \cup {Len(e) + 1}
      BY <2>1
    <2> QED BY <2>1, <2>2 DEF ToSet
  <1>2. Append(e, Asked(t)) \in Seq(Entries) /\ Len(Append(e, Asked(t))) = Len(e) + 1
    BY EntryFacts
  <1> QED BY <1>1, <1>2, EntryFacts DEF TurnsIn, Answers

LEMMA AnsweredFacts ==
    ASSUME NEW e \in Seq(Entries), NEW t \in Turns
    PROVE  /\ <<Asked(t), Answer(t)>> \in Seq(Entries)
           /\ TurnsIn(<<Asked(t), Answer(t)>>) = {t} /\ Answers(<<Asked(t), Answer(t)>>) = {t}
           /\ e \o <<Asked(t), Answer(t)>> \in Seq(Entries)
           /\ e \o <<Asked(t), Answer(t)>> # <<>>
           /\ TurnsIn(e \o <<Asked(t), Answer(t)>>) = TurnsIn(e) \cup {t}
           /\ Answers(e \o <<Asked(t), Answer(t)>>) = Answers(e) \cup {t}
  <1> DEFINE p == <<Asked(t), Answer(t)>>
  <1>1. p \in Seq(Entries) /\ ToSet(p) = {Asked(t), Answer(t)}
    BY EntryFacts DEF ToSet
  <1>2. Len(p) = 2
    OBVIOUS
  <1> HIDE DEF p
  <1>3. e \o p \in Seq(Entries) /\ e \o p # <<>>
    BY <1>1, <1>2, ConcatProperties
  <1>4. ToSet(e \o p) = ToSet(e) \cup ToSet(p)
    BY <1>1, ConcatToSet
  <1> QED BY <1>1, <1>3, <1>4, EntryFacts DEF TurnsIn, Answers, p

LEMMA DroppedFacts ==
    ASSUME NEW st \in StoredRecords, Len(st.entries) > 1, Asked(st.pending) \in ToSet(st.entries)
    PROVE  /\ Dropped(st) \in Seq(Entries) /\ Dropped(st) # <<>>
           /\ ToSet(Dropped(st)) \subseteq ToSet(st.entries)
  <1> DEFINE s == st.entries
             I == {i \in 1 .. Len(s) : s[i] = Asked(st.pending)}
  <1>1. s \in Seq(Entries) /\ Len(s) \in Nat
    BY DEF StoredRecords
  <1>2. PICK i \in 1 .. Len(s) : s[i] = Asked(st.pending)
    BY <1>1 DEF ToSet
  <1>3. Dropped(st) = RemoveAt(s, Min(I))
    BY <1>2 DEF Dropped, RemoveFirst, SelectInSeq
  <1>4. Min(I) \in I
    <2>1. I \subseteq Nat /\ I # {}
      BY <1>1, <1>2
    <2> HIDE DEF I
    <2> QED BY <2>1, LeastNatural
  <1>5. Min(I) \in 1 .. Len(s)
    BY <1>4
  <1> HIDE DEF I
  <1>6. /\ RemoveAt(s, Min(I)) \in Seq(Entries) /\ Len(RemoveAt(s, Min(I))) = Len(s) - 1
        /\ ToSet(RemoveAt(s, Min(I))) \subseteq ToSet(s)
    BY <1>1, <1>5, RemoveAtFacts
  <1> QED BY <1>1, <1>3, <1>6

-----------------------------------------------------------------------------
(* The operators on requests, turns and what is stored.                    *)

LEMMA StaleFacts ==
    ASSUME NEW rs, rs \subseteq RequestRecords
    PROVE  /\ Stale(rs) \subseteq RequestRecords
           /\ \A q \in Stale(rs) : \E r \in rs :
                 /\ q.what = r.what /\ q.user = r.user /\ q.mine = r.mine
                 /\ q.handoff = r.handoff /\ q.sid = r.sid
                 /\ q.current = (r.current /\ ~r.mine)
  <1>1. ASSUME NEW q \in Stale(rs)
        PROVE  /\ q \in RequestRecords
               /\ \E r \in rs :
                     /\ q.what = r.what /\ q.user = r.user /\ q.mine = r.mine
                     /\ q.handoff = r.handoff /\ q.sid = r.sid
                     /\ q.current = (r.current /\ ~r.mine)
    <2>1. PICK r \in rs : q = [r EXCEPT !.current = r.current /\ ~r.mine]
      BY DEF Stale
    <2>2. r \in RequestRecords
      OBVIOUS
    <2> QED BY <2>1, <2>2 DEF RequestRecords
  <1> QED BY <1>1

LEMMA GoneFacts ==
    ASSUME NEW rs, rs \subseteq RequestRecords
    PROVE  /\ Gone(rs) \subseteq RequestRecords
           /\ \A q \in Gone(rs) : \E r \in rs :
                 /\ q.what = r.what /\ q.user = r.user /\ ~q.mine
                 /\ q.handoff = r.handoff /\ q.sid = r.sid /\ q.current = r.current
  <1>1. ASSUME NEW q \in Gone(rs)
        PROVE  /\ q \in RequestRecords
               /\ \E r \in rs :
                     /\ q.what = r.what /\ q.user = r.user /\ ~q.mine
                     /\ q.handoff = r.handoff /\ q.sid = r.sid /\ q.current = r.current
    <2>1. PICK r \in rs : q = [r EXCEPT !.mine = FALSE]
      BY DEF Gone
    <2>2. r \in RequestRecords
      OBVIOUS
    <2> QED BY <2>1, <2>2 DEF RequestRecords
  <1> QED BY <1>1

TurnFunctions == [Turns -> TurnRecords]

\* The same turns, but for who waits for them and whether they save.
SameTurns(a, b) ==
    \A t \in Turns : b[t].phase = a[t].phase /\ b[t].sid = a[t].sid /\ b[t].before = a[t].before

LEMMA ClearedFacts ==
    ASSUME NEW a \in TurnFunctions
    PROVE  /\ ClearedTurns(a) \in TurnFunctions /\ SameTurns(a, ClearedTurns(a))
           /\ \A t \in Turns : ~ClearedTurns(a)[t].saves
                               /\ ClearedTurns(a)[t].waiters = a[t].waiters
  BY DEF TurnFunctions, ClearedTurns, SameTurns, TurnRecords

Waiters == [mine : BOOLEAN, current : BOOLEAN, resume : BOOLEAN]

LEMMA StaleResumesFacts ==
    ASSUME NEW a \in TurnFunctions
    PROVE  /\ StaleResumes(a) \in TurnFunctions /\ SameTurns(a, StaleResumes(a))
           /\ \A t \in Turns : StaleResumes(a)[t].saves = a[t].saves
           /\ \A t \in Turns : \A w \in StaleResumes(a)[t].waiters : \E v \in a[t].waiters :
                 /\ w.mine = v.mine /\ w.resume = v.resume
                 /\ w.current = (v.current /\ ~(v.mine /\ v.resume))
  <1> DEFINE W(t) == {[w EXCEPT !.current = w.current /\ ~(w.mine /\ w.resume)] : w \in a[t].waiters}
  <1>1. ASSUME NEW t \in Turns, NEW w \in W(t)
        PROVE  /\ w \in Waiters
               /\ \E v \in a[t].waiters :
                     /\ w.mine = v.mine /\ w.resume = v.resume
                     /\ w.current = (v.current /\ ~(v.mine /\ v.resume))
    <2>1. PICK v \in a[t].waiters : w = [v EXCEPT !.current = v.current /\ ~(v.mine /\ v.resume)]
      OBVIOUS
    <2>2. v \in Waiters
      BY DEF TurnFunctions, TurnRecords, Waiters
    <2> QED BY <2>1, <2>2 DEF Waiters
  <1>2. \A t \in Turns :
           StaleResumes(a)[t] = [a[t] EXCEPT !.aborted = a[t].aborted, !.waiters = W(t)]
    BY DEF StaleResumes, TurnFunctions, TurnRecords
  <1>3. \A t \in Turns : W(t) \in SUBSET Waiters
    BY <1>1
  <1>6. StaleResumes(a) = [t \in Turns |-> StaleResumes(a)[t]]
    BY DEF StaleResumes
  <1> HIDE DEF W
  <1>4. ASSUME NEW t \in Turns
        PROVE  /\ StaleResumes(a)[t] \in TurnRecords
               /\ StaleResumes(a)[t].waiters = W(t) /\ StaleResumes(a)[t].saves = a[t].saves
               /\ StaleResumes(a)[t].phase = a[t].phase /\ StaleResumes(a)[t].sid = a[t].sid
               /\ StaleResumes(a)[t].before = a[t].before
    <2>1. a[t] \in TurnRecords /\ W(t) \in SUBSET Waiters
      BY <1>3 DEF TurnFunctions
    <2> DEFINE r == a[t]
               w == W(t)
               b == a[t].aborted
               q == [r EXCEPT !.aborted = b, !.waiters = w]
    <2>2. b \in BOOLEAN
      BY <2>1 DEF TurnRecords
    <2>3. r \in TurnRecords /\ w \in SUBSET Waiters
      BY <2>1
    <2> HIDE DEF r, w, b
    <2>4. /\ q \in TurnRecords /\ q.waiters = w /\ q.saves = r.saves
          /\ q.phase = r.phase /\ q.sid = r.sid /\ q.before = r.before
      BY <2>2, <2>3 DEF TurnRecords, Waiters
    <2> HIDE DEF q
    <2>5. StaleResumes(a)[t] = q
      BY <1>2 DEF q, r, w, b
    <2> QED BY <2>4, <2>5 DEF r, w
  <1> QED BY <1>1, <1>4, <1>6 DEF TurnFunctions, SameTurns

LEMMA LeftFacts ==
    ASSUME NEW a \in TurnFunctions, Typed
    PROVE  /\ Left(a) \in TurnFunctions /\ SameTurns(a, Left(a))
           /\ \A t \in Turns : Left(a)[t].saves = a[t].saves
           /\ \A t \in Turns : \A w \in Left(a)[t].waiters : ~w.mine /\ a[t].waiters # {}
  <1> DEFINE W(t) == Gone(a[t].waiters)
             B(t) == a[t].aborted \/ (a[t].phase = "waiting" /\ chat.sending /\ chat.sid = a[t].sid)
  <1>1. ASSUME NEW t \in Turns, NEW w \in W(t)
        PROVE  /\ w \in Waiters
               /\ ~w.mine /\ a[t].waiters # {}
    <2>1. PICK v \in a[t].waiters : w = [v EXCEPT !.mine = FALSE]
      BY DEF Gone
    <2>2. v \in Waiters
      BY DEF TurnFunctions, TurnRecords, Waiters
    <2> QED BY <2>1, <2>2 DEF Waiters
  <1>2. \A t \in Turns : Left(a)[t] = [a[t] EXCEPT !.aborted = B(t), !.waiters = W(t)]
    BY DEF Left
  <1>3. \A t \in Turns : W(t) \in SUBSET Waiters
    BY <1>1
  <1>5. \A t \in Turns : B(t) \in BOOLEAN
    BY DEF TurnFunctions, TurnRecords, Typed, ChatRecords
  <1>6. Left(a) = [t \in Turns |-> Left(a)[t]]
    BY DEF Left
  <1> HIDE DEF W, B
  <1>4. ASSUME NEW t \in Turns
        PROVE  /\ Left(a)[t] \in TurnRecords
               /\ Left(a)[t].waiters = W(t) /\ Left(a)[t].saves = a[t].saves
               /\ Left(a)[t].phase = a[t].phase /\ Left(a)[t].sid = a[t].sid
               /\ Left(a)[t].before = a[t].before
    <2>1. a[t] \in TurnRecords /\ W(t) \in SUBSET Waiters
      BY <1>3 DEF TurnFunctions
    <2> DEFINE r == a[t]
               w == W(t)
               b == B(t)
               q == [r EXCEPT !.aborted = b, !.waiters = w]
    <2>2. b \in BOOLEAN
      BY <2>1, <1>5 DEF TurnRecords
    <2>3. r \in TurnRecords /\ w \in SUBSET Waiters
      BY <2>1
    <2> HIDE DEF r, w, b
    <2>4. /\ q \in TurnRecords /\ q.waiters = w /\ q.saves = r.saves
          /\ q.phase = r.phase /\ q.sid = r.sid /\ q.before = r.before
      BY <2>2, <2>3 DEF TurnRecords, Waiters
    <2> HIDE DEF q
    <2>5. Left(a)[t] = q
      BY <1>2 DEF q, r, w, b
    <2> QED BY <2>4, <2>5 DEF r, w
  <1> QED BY <1>1, <1>4, <1>6 DEF TurnFunctions, SameTurns

LEMMA SavedTyped ==
    ASSUME NEW st \in StoredRecords, NEW u \in Users \cup {Nobody}, NEW s \in {0} \cup Sessions,
           NEW e \in Seq(Entries), NEW p \in {0} \cup Turns
    PROVE  Saved(st, u, s, e, p) \in StoredRecords
  BY DEF Saved, StoredRecords

LEMMA PersistedTyped ==
    ASSUME Typed, NEW c \in ChatRecords, NEW st \in StoredRecords
    PROVE  Persisted(c, st) \in StoredRecords
  <1>1. c.sid \in {0} \cup Sessions /\ c.entries \in Seq(Entries) /\ user \in Users \cup {Nobody}
    BY DEF ChatRecords, Typed
  <1> QED BY <1>1, SavedTyped DEF Persisted

LEMMA EmptyTyped ==
    NothingStored \in StoredRecords /\ NoChat \in ChatRecords /\ NoTurn \in TurnRecords
  <1>1. <<>> \in Seq(Entries)
    OBVIOUS
  <1> QED BY <1>1 DEF NothingStored, StoredRecords, NoChat, ChatRecords, NoTurn, TurnRecords

LEMMA LoadedFacts ==
    ASSUME NEW st \in StoredRecords, NEW expired \in BOOLEAN
    PROVE  /\ Loaded(st, expired) \in StoredRecords
           /\ \/ Loaded(st, expired) = NothingStored /\ (expired \/ st.user # user)
              \/ st.user = user /\ Loaded(st, expired) = st
              \/ /\ st.user = user /\ Loaded(st, expired) = [st EXCEPT !.pending = 0]
                 /\ Answer(st.pending) \in ToSet(st.entries)
  BY EmptyTyped DEF Loaded, Reconciled, StoredRecords

\* The turns S get one more waiter.
Joined(a, S, w) ==
    [t \in Turns |-> IF t \in S THEN [a[t] EXCEPT !.waiters = @ \cup {w}] ELSE a[t]]

LEMMA JoinedFacts ==
    ASSUME NEW a \in TurnFunctions, NEW S, NEW w \in Waiters
    PROVE  /\ Joined(a, S, w) \in TurnFunctions /\ SameTurns(a, Joined(a, S, w))
           /\ \A t \in Turns : /\ Joined(a, S, w)[t].saves = a[t].saves
                               /\ Joined(a, S, w)[t].waiters = IF t \in S THEN a[t].waiters \cup {w}
                                                               ELSE a[t].waiters
  <1>1. ASSUME NEW t \in Turns
        PROVE  /\ Joined(a, S, w)[t] \in TurnRecords
               /\ Joined(a, S, w)[t].saves = a[t].saves
               /\ Joined(a, S, w)[t].phase = a[t].phase /\ Joined(a, S, w)[t].sid = a[t].sid
               /\ Joined(a, S, w)[t].before = a[t].before
               /\ Joined(a, S, w)[t].waiters = IF t \in S THEN a[t].waiters \cup {w}
                                               ELSE a[t].waiters
    <2> DEFINE r == a[t]
               q == [r EXCEPT !.waiters = r.waiters \cup {w}]
    <2>1. r \in TurnRecords
      BY DEF TurnFunctions
    <2> HIDE DEF r
    <2>2. /\ q \in TurnRecords /\ q.waiters = r.waiters \cup {w} /\ q.saves = r.saves
          /\ q.phase = r.phase /\ q.sid = r.sid /\ q.before = r.before
      BY <2>1 DEF TurnRecords, Waiters
    <2> HIDE DEF q
    <2>3. Joined(a, S, w)[t] = IF t \in S THEN q ELSE r
      BY DEF Joined, q, r
    <2> QED BY <2>1, <2>2, <2>3 DEF r
  <1>2. Joined(a, S, w) = [t \in Turns |-> Joined(a, S, w)[t]]
    BY DEF Joined
  <1> QED BY <1>1, <1>2 DEF TurnFunctions, SameTurns

LEMMA TheWaiters == Resumer \in Waiters /\ Sender \in Waiters
  BY DEF Resumer, Sender, Waiters

LEMMA ResumedTyped ==
    ASSUME NEW c \in ChatRecords, NEW st \in StoredRecords
    PROVE  Resumed(c, st) \in ChatRecords
  BY DEF Resumed, Freed, ChatRecords, StoredRecords

-----------------------------------------------------------------------------
(* The types.                                                              *)

\* What a connection may be given.
ConnectInputs(c, st, turns, kind) ==
    /\ c \in ChatRecords /\ st \in StoredRecords /\ turns \in TurnFunctions
    /\ kind \in Kinds \cup {"none"} /\ user \in Users
    /\ st.pending # 0 => Len(st.entries) > 1 /\ Asked(st.pending) \in ToSet(st.entries)

LEMMA ConnectTyped ==
    ASSUME Typed, NEW c, NEW st, NEW turns, NEW kind, ConnectInputs(c, st, turns, kind),
           Connect(c, st, turns, kind)
    PROVE  /\ requests' \subseteq RequestRecords /\ chat' \in ChatRecords
           /\ stored' \in StoredRecords /\ turn' \in TurnFunctions
           /\ SameTurns(turns, turn')
  <1> USE DEF ConnectInputs
  <1>1. requests \subseteq RequestRecords /\ Stale(requests) \subseteq RequestRecords
    BY StaleFacts DEF Typed
  <1>2. CASE kind # "none" \/ st = NothingStored
    <2>1. Connecting(kind) \in RequestRecords
      BY DEF Connecting, RequestRecords
    <2> QED BY <1>1, <1>2, <2>1, EmptyTyped, ClearedFacts DEF Connect, SameTurns
  <1>3. CASE ~(kind # "none" \/ st = NothingStored)
    <2>1. requests' \subseteq RequestRecords
      BY <1>1, <1>3 DEF Connect
    <2>2. CASE st.pending = 0 /\ Shows(Resumed(c, st), st) /\ turn' = turns
      BY <2>1, <2>2, ResumedTyped, PersistedTyped DEF Shows, SameTurns
    <2>3. CASE /\ st.pending # 0
               /\ Shows([Resumed(c, st) EXCEPT !.entries = Dropped(st)],
                        Saved(st, user, st.sid, Dropped(st), 0))
               /\ turn' = turns
      <3>1. Dropped(st) \in Seq(Entries) /\ st.sid \in {0} \cup Sessions
        BY <2>3, DroppedFacts DEF StoredRecords
      <3>2. [Resumed(c, st) EXCEPT !.entries = Dropped(st)] \in ChatRecords
        BY <3>1, ResumedTyped, ZenonT(60) DEF ChatRecords
      <3>3. Saved(st, user, st.sid, Dropped(st), 0) \in StoredRecords
        BY <3>1, SavedTyped
      <3> QED BY <2>1, <2>3, <3>2, <3>3, PersistedTyped DEF Shows, SameTurns
    <2>4. CASE /\ st.pending # 0
               /\ Shows([Resumed(c, st) EXCEPT !.sending = TRUE], st)
               /\ turn' = Joined(turns, InFlight(st.sid), Resumer)
      <3>1. [Resumed(c, st) EXCEPT !.sending = TRUE] \in ChatRecords
        BY ResumedTyped, ZenonT(60) DEF ChatRecords
      <3> QED BY <2>1, <2>4, <3>1, PersistedTyped, JoinedFacts, TheWaiters DEF Shows
    <2> QED BY <1>3, <2>2, <2>3, <2>4 DEF Connect, Joined
  <1> QED BY <1>2, <1>3

LEMMA StoredInput ==
    ASSUME Inv, NEW expired \in {FALSE, Expired},
           NEW st, st = IF handoff # "none" THEN stored ELSE Loaded(stored, expired)
    PROVE  /\ st \in StoredRecords
           /\ st.pending # 0 => Len(st.entries) > 1 /\ Asked(st.pending) \in ToSet(st.entries)
  <1>1. expired \in BOOLEAN
    BY DEF Expired
  <1>2. stored \in StoredRecords /\ Loaded(stored, expired) \in StoredRecords
    BY <1>1, LoadedFacts DEF Inv, Typed
  <1>3. stored.pending # 0 =>
           Len(stored.entries) > 1 /\ Asked(stored.pending) \in ToSet(stored.entries)
    BY DEF Inv, Pending
  <1>4. /\ stored.pending \in {0} \cup Turns
        /\ \/ Loaded(stored, expired) = NothingStored \/ Loaded(stored, expired) = stored
           \/ Loaded(stored, expired) = [stored EXCEPT !.pending = 0]
    BY <1>1, <1>2, LoadedFacts DEF StoredRecords
  <1>5. NothingStored.pending = 0 /\ [stored EXCEPT !.pending = 0].pending = 0
    BY <1>2 DEF NothingStored, StoredRecords
  <1> QED BY <1>2, <1>3, <1>4, <1>5

\* The three actions that connect.
LEMMA Connections ==
    ASSUME Inv
    PROVE  /\ Mount => \E expired \in {FALSE, Expired} :
                 LET st == IF handoff # "none" THEN stored ELSE Loaded(stored, expired)
                 IN  /\ ConnectInputs([NoChat EXCEPT !.mounted = TRUE], st, turn, handoff)
                     /\ Connect([NoChat EXCEPT !.mounted = TRUE], st, turn, handoff)
           /\ Retry => \E expired \in {FALSE, Expired} :
                 LET st == IF handoff # "none" THEN stored ELSE Loaded(stored, expired)
                     c == [Reset(chat) EXCEPT !.retrying = TRUE]
                 IN  /\ ConnectInputs(c, st, StaleResumes(turn), handoff)
                     /\ Connect(c, st, StaleResumes(turn), handoff)
           /\ NewConsultation =>
                 LET c == [Reset(chat) EXCEPT !.resetting = TRUE, !.persist = FALSE]
                     turns == ClearedTurns(StaleResumes(turn))
                 IN  /\ ConnectInputs(c, NothingStored, turns, "none")
                     /\ Connect(c, NothingStored, turns, "none")
  <1>1. /\ chat \in ChatRecords /\ turn \in TurnFunctions /\ handoff \in Kinds \cup {"none"}
        /\ user \in Users \cup {Nobody}
    BY DEF Inv, Typed, TurnFunctions
  <1>2. StaleResumes(turn) \in TurnFunctions /\ ClearedTurns(StaleResumes(turn)) \in TurnFunctions
    BY <1>1, StaleResumesFacts, ClearedFacts
  <1>3. chat.mounted => user \in Users
    BY DEF Inv, OneAwaited
  <1>4. ASSUME Mount
        PROVE \E expired \in {FALSE, Expired} :
                 LET st == IF handoff # "none" THEN stored ELSE Loaded(stored, expired)
                 IN  /\ ConnectInputs([NoChat EXCEPT !.mounted = TRUE], st, turn, handoff)
                     /\ Connect([NoChat EXCEPT !.mounted = TRUE], st, turn, handoff)
    <2> DEFINE c == [NoChat EXCEPT !.mounted = TRUE]
               st(x) == IF handoff # "none" THEN stored ELSE Loaded(stored, x)
    <2>1. c \in ChatRecords /\ user \in Users
      BY <1>1, <1>4, EmptyTyped DEF Mount, ChatRecords
    <2>2. PICK expired \in {FALSE, Expired} : Connect(c, st(expired), turn, handoff)
      BY <1>4 DEF Mount
    <2> HIDE DEF c
    <2>3. ConnectInputs(c, st(expired), turn, handoff)
      BY <1>1, <2>1, <2>2, StoredInput DEF ConnectInputs
    <2> QED BY <2>2, <2>3 DEF c
  <1>5. ASSUME Retry
        PROVE \E expired \in {FALSE, Expired} :
                 LET st == IF handoff # "none" THEN stored ELSE Loaded(stored, expired)
                     c == [Reset(chat) EXCEPT !.retrying = TRUE]
                 IN  /\ ConnectInputs(c, st, StaleResumes(turn), handoff)
                     /\ Connect(c, st, StaleResumes(turn), handoff)
    <2> DEFINE c == [Reset(chat) EXCEPT !.retrying = TRUE]
               st(x) == IF handoff # "none" THEN stored ELSE Loaded(stored, x)
    <2>1. c \in ChatRecords
      BY <1>1 DEF Reset, ChatRecords
    <2>2. user \in Users
      BY <1>3, <1>5 DEF Retry, RetryOffered
    <2>3. PICK expired \in {FALSE, Expired} : Connect(c, st(expired), StaleResumes(turn), handoff)
      BY <1>5 DEF Retry
    <2> HIDE DEF c
    <2>4. ConnectInputs(c, st(expired), StaleResumes(turn), handoff)
      BY <1>1, <1>2, <2>1, <2>2, <2>3, StoredInput DEF ConnectInputs
    <2> QED BY <2>3, <2>4 DEF c
  <1>6. ASSUME NewConsultation
        PROVE LET c == [Reset(chat) EXCEPT !.resetting = TRUE, !.persist = FALSE]
                  turns == ClearedTurns(StaleResumes(turn))
              IN  /\ ConnectInputs(c, NothingStored, turns, "none")
                  /\ Connect(c, NothingStored, turns, "none")
    <2> DEFINE c == [Reset(chat) EXCEPT !.resetting = TRUE, !.persist = FALSE]
    <2>1. c \in ChatRecords
      BY <1>1 DEF Reset, ChatRecords
    <2>2. user \in Users
      BY <1>3, <1>6 DEF NewConsultation, NewOffered, HeaderShown
    <2>3. NothingStored \in StoredRecords /\ NothingStored.pending = 0
      BY EmptyTyped DEF NothingStored
    <2>4. Connect(c, NothingStored, ClearedTurns(StaleResumes(turn)), "none")
      BY <1>6 DEF NewConsultation
    <2> HIDE DEF c
    <2>5. ConnectInputs(c, NothingStored, ClearedTurns(StaleResumes(turn)), "none")
      BY <1>2, <2>1, <2>2, <2>3 DEF ConnectInputs
    <2> QED BY <2>4, <2>5 DEF c
  <1> QED BY <1>4, <1>5, <1>6

\* Nobody who waits for a turn will show its result.
NobodyShows(turns) ==
    \A t \in Turns : \A w \in turns[t].waiters :
        Flying(t) /\ ~(w.mine /\ (w.current \/ ~w.resume))

\* The stored conversation a connection without a handoff goes on with.
ConnectsFrom(st, turns) ==
    \/ /\ st = NothingStored
       /\ \/ stored = NothingStored \/ stored.user # user
          \/ \A t \in Turns : ~turns[t].saves
          \/ \A t \in Turns : ~Flying(t)
    \/ /\ st = stored /\ stored.user = user
       /\ \A t \in Turns : turns[t].saves = turn[t].saves
    \/ /\ st = [stored EXCEPT !.pending = 0] /\ stored.user = user
       /\ Answer(stored.pending) \in ToSet(stored.entries)

\* Where a connection starts from.
ConnectContext(c, st, turns, kind) ==
    /\ ConnectInputs(c, st, turns, kind)
    /\ c.mounted /\ c.status = "loading" /\ c.view = "none" /\ ~c.history /\ ~c.sending
    /\ c.sid = 0 \/ (c.sid = chat.sid /\ c.entries = chat.entries)
    /\ SameTurns(turn, turns) /\ NobodyShows(turns)
    /\ \A t \in Turns : turns[t].saves => turn[t].saves
    /\ kind = "none" => ConnectsFrom(st, turns)
    /\ \A r \in requests : r.mine /\ r.current => r.what # "sync"
    /\ ~past.leaving
    /\ UNCHANGED <<user, session, log, unlogged, work>>
    /\ past' = [past EXCEPT !.mounts = past'.mounts] /\ past'.mounts \in 0 .. MaxMounts
    /\ handoff' \in {handoff, "none"}

LEMMA StoredSource ==
    ASSUME Inv, NEW expired \in {FALSE, Expired}, handoff = "none"
    PROVE  ConnectsFrom(Loaded(stored, expired), turn)
  <1>1. expired \in BOOLEAN
    BY DEF Expired
  <1>2. stored \in StoredRecords /\ turn \in TurnFunctions
    BY DEF Inv, Typed, TurnFunctions
  <1>3. ASSUME expired PROVE \A t \in Turns : ~Flying(t)
    <2>1. \A s \in Sessions : InFlight(s) = {}
      BY <1>3 DEF Expired
    <2>2. \A t \in Turns : Flying(t) => turn[t].sid \in Sessions
      BY <1>2 DEF TurnFunctions, TurnRecords, Inv, Counted, Flying
    <2> QED BY <2>1, <2>2 DEF InFlight, Flying
  <1>4. \/ Loaded(stored, expired) = NothingStored /\ (expired \/ stored.user # user)
        \/ stored.user = user /\ Loaded(stored, expired) = stored
        \/ /\ stored.user = user /\ Loaded(stored, expired) = [stored EXCEPT !.pending = 0]
           /\ Answer(stored.pending) \in ToSet(stored.entries)
    BY <1>1, <1>2, LoadedFacts
  <1> QED BY <1>3, <1>4 DEF ConnectsFrom

LEMMA ConnectStep ==
    ASSUME Inv, Mount \/ Retry \/ NewConsultation
    PROVE  \E c, st, turns, kind :
              ConnectContext(c, st, turns, kind) /\ Connect(c, st, turns, kind)
  <1>1. /\ chat \in ChatRecords /\ turn \in TurnFunctions /\ handoff \in Kinds \cup {"none"}
        /\ past \in [mounts : 0 .. MaxMounts, reloads : 0 .. MaxReloads,
                     abandoned : SUBSET Sessions, leaving : BOOLEAN, opened : BOOLEAN]
    BY DEF Inv, Typed, TurnFunctions
  <1>2. /\ ~chat.mounted => chat = NoChat
        /\ chat.mounted => ~past.leaving
        /\ chat.sending => chat.status = "ready"
        /\ \A r \in requests : r.mine => chat.mounted
        /\ \A r \in requests : r.mine /\ r.current =>
              chat.status = "loading" /\ (r.what = "sync" => chat.view = "live")
    BY DEF Inv, OneAwaited
  <1>3. /\ StaleResumes(turn) \in TurnFunctions /\ SameTurns(turn, StaleResumes(turn))
        /\ \A t \in Turns : StaleResumes(turn)[t].saves = turn[t].saves
        /\ \A t \in Turns : \A w \in StaleResumes(turn)[t].waiters : \E v \in turn[t].waiters :
              /\ w.mine = v.mine /\ w.resume = v.resume
              /\ w.current = (v.current /\ ~(v.mine /\ v.resume))
    BY <1>1, StaleResumesFacts
  <1>4. ASSUME ~chat.sending PROVE NobodyShows(turn)
    BY <1>4 DEF Inv, WaitersSend, NobodyShows
  <1>5. ASSUME ~chat.sending PROVE NobodyShows(StaleResumes(turn))
    <2>1. SUFFICES ASSUME NEW t \in Turns, NEW w \in StaleResumes(turn)[t].waiters
                   PROVE  Flying(t) /\ ~(w.mine /\ (w.current \/ ~w.resume))
      BY DEF NobodyShows
    <2>2. PICK v \in turn[t].waiters :
             /\ w.mine = v.mine /\ w.resume = v.resume
             /\ w.current = (v.current /\ ~(v.mine /\ v.resume))
      BY <1>3
    <2>3. Flying(t) /\ ~(v.mine /\ (v.current \/ ~v.resume))
      BY <1>5 DEF Inv, WaitersSend
    <2> QED BY <2>2, <2>3
  <1>6. CASE Mount
    <2> DEFINE c == [NoChat EXCEPT !.mounted = TRUE]
               st(x) == IF handoff # "none" THEN stored ELSE Loaded(stored, x)
    <2>1. PICK x \in {FALSE, Expired} :
             ConnectInputs(c, st(x), turn, handoff) /\ Connect(c, st(x), turn, handoff)
      BY <1>6, Connections
    <2>2. /\ c.mounted /\ c.status = "loading" /\ c.view = "none" /\ ~c.history /\ ~c.sending
          /\ c.sid = 0
      BY DEF NoChat
    <2>3. /\ ~chat.mounted /\ ~chat.sending /\ ~past.leaving
          /\ UNCHANGED <<user, session, log, unlogged, work, handoff>>
          /\ past' = [past EXCEPT !.mounts = past.mounts + 1] /\ past.mounts < MaxMounts
      BY <1>2, <1>6 DEF Mount, NoChat
    <2>4. past' = [past EXCEPT !.mounts = past'.mounts] /\ past'.mounts \in 0 .. MaxMounts
      BY <1>1, <2>3, AgentChatConstants
    <2>5. handoff = "none" => ConnectsFrom(st(x), turn)
      BY StoredSource
    <2> HIDE DEF c, st
    <2>6. ConnectContext(c, st(x), turn, handoff)
      BY <1>1, <1>2, <1>4, <2>1, <2>2, <2>3, <2>4, <2>5 DEF ConnectContext, SameTurns
    <2> QED BY <2>1, <2>6
  <1>7. CASE Retry
    <2> DEFINE c == [Reset(chat) EXCEPT !.retrying = TRUE]
               st(x) == IF handoff # "none" THEN stored ELSE Loaded(stored, x)
    <2>1. PICK x \in {FALSE, Expired} :
             /\ ConnectInputs(c, st(x), StaleResumes(turn), handoff)
             /\ Connect(c, st(x), StaleResumes(turn), handoff)
      BY <1>7, Connections
    <2>2. /\ chat.mounted /\ chat.status = "error" /\ ~chat.history /\ ~chat.sending
          /\ ~past.leaving /\ UNCHANGED <<user, session, log, unlogged, work, handoff, past>>
      BY <1>2, <1>7 DEF Retry, RetryOffered
    <2>3. /\ c.mounted /\ c.status = "loading" /\ c.view = "none" /\ ~c.history /\ ~c.sending
          /\ c.sid = chat.sid /\ c.entries = chat.entries
      BY <1>1, <2>2 DEF Reset, ChatRecords
    <2>4. past' = [past EXCEPT !.mounts = past'.mounts] /\ past'.mounts \in 0 .. MaxMounts
      BY <1>1, <2>2
    <2>5. handoff = "none" => ConnectsFrom(st(x), StaleResumes(turn))
      BY <1>3, StoredSource DEF ConnectsFrom
    <2> HIDE DEF c, st
    <2>6. ConnectContext(c, st(x), StaleResumes(turn), handoff)
      BY <1>2, <1>3, <1>5, <2>1, <2>2, <2>3, <2>4, <2>5 DEF ConnectContext
    <2> QED BY <2>1, <2>6
  <1>8. CASE NewConsultation
    <2> DEFINE c == [Reset(chat) EXCEPT !.resetting = TRUE, !.persist = FALSE]
               turns == ClearedTurns(StaleResumes(turn))
    <2>1. ConnectInputs(c, NothingStored, turns, "none") /\ Connect(c, NothingStored, turns, "none")
      BY <1>8, Connections
    <2>2. /\ chat.mounted /\ (chat.status = "ready" \/ chat.view = "readonly")
          /\ ~chat.history /\ ~chat.sending
          /\ UNCHANGED <<user, session, log, unlogged, work, past>> /\ handoff' = "none"
      BY <1>8 DEF NewConsultation, NewOffered, HeaderShown
    <2>3. chat.mounted
      BY <1>8 DEF NewConsultation, NewOffered, HeaderShown
    <2>4. /\ c.mounted /\ c.status = "loading" /\ c.view = "none" /\ ~c.history /\ ~c.sending
          /\ c.sid = chat.sid /\ c.entries = chat.entries
      BY <1>1, <2>2, <2>3 DEF Reset, ChatRecords
    <2>5. past' = [past EXCEPT !.mounts = past'.mounts] /\ past'.mounts \in 0 .. MaxMounts
      BY <1>1, <2>2
    <2>6. /\ \A t \in Turns : ~turns[t].saves /\ turns[t].waiters = StaleResumes(turn)[t].waiters
          /\ SameTurns(turn, turns)
      BY <1>3, ClearedFacts DEF SameTurns
    <2> HIDE DEF c, turns
    <2>7. NobodyShows(turns)
      BY <1>5, <2>2, <2>6 DEF NobodyShows
    <2>8. ConnectsFrom(NothingStored, turns)
      BY <2>6 DEF ConnectsFrom
    <2>9. \A r \in requests : r.mine /\ r.current => r.what # "sync"
      BY <1>2, <2>2
    <2>10. ~past.leaving
      BY <1>2, <2>3
    <2>11. ConnectContext(c, NothingStored, turns, "none")
      BY <2>1, <2>2, <2>4, <2>5, <2>6, <2>7, <2>8, <2>9, <2>10 DEF ConnectContext
    <2> QED BY <2>1, <2>11
  <1> QED BY <1>6, <1>7, <1>8

\* What the end of a turn does.
Ends(t, entries, unusable, ends) ==
    LET saved == IF ends THEN NothingStored ELSE SavedResult(t, entries)
    IN  /\ turn' \in TurnFunctions
        /\ \A u \in Turns \ {t} :
              /\ turn'[u].phase = turn[u].phase /\ turn'[u].sid = turn[u].sid
              /\ turn'[u].before = turn[u].before /\ turn'[u].waiters = turn[u].waiters
              /\ turn'[u].saves = (turn[u].saves /\ ~ends)
        /\ turn'[t].phase = "over" /\ turn'[t].sid = turn[t].sid /\ turn'[t].waiters = {}
        /\ ends => \A u \in Turns : ~turn'[u].saves
        /\ ends => unusable
        /\ \/ /\ chat.sending /\ chat.sid = turn[t].sid
              /\ chat' = [chat EXCEPT !.entries = entries, !.sending = FALSE,
                                      !.persist = chat.persist /\ ~unusable]
              /\ stored' = Persisted(chat', saved)
           \/ chat' = chat /\ stored' = saved

LEMMA ConcludesFacts ==
    ASSUME Inv, NEW t \in Turns, Flying(t), NEW entries, NEW unusable \in BOOLEAN,
           Concludes(t, entries, unusable)
    PROVE  \E ends \in BOOLEAN : Ends(t, entries, unusable, ends)
  <1> DEFINE ends == unusable /\ Concerned(t) # {}
             over == [NoTurn EXCEPT !.phase = "over", !.sid = turn[t].sid]
             after == [turn EXCEPT ![t] = over]
             shown == [chat EXCEPT !.entries = entries, !.sending = FALSE,
                                   !.persist = chat.persist /\ ~unusable]
             saved == IF ends THEN NothingStored ELSE SavedResult(t, entries)
  <1>1. turn \in TurnFunctions /\ turn[t] \in TurnRecords /\ chat \in ChatRecords
    BY DEF Inv, Typed, TurnFunctions
  <1>2. /\ over \in TurnRecords /\ over.phase = "over" /\ over.sid = turn[t].sid
        /\ over.waiters = {}
    BY <1>1, EmptyTyped DEF TurnRecords, NoTurn
  <1> HIDE DEF over
  <1>3. after \in TurnFunctions /\ after[t] = over /\ \A u \in Turns \ {t} : after[u] = turn[u]
    BY <1>1, <1>2 DEF TurnFunctions
  <1>4. turn' = IF ends THEN ClearedTurns(after) ELSE after
    BY DEF Concludes, over
  <1> HIDE DEF after
  <1>5. /\ turn' \in TurnFunctions /\ SameTurns(after, turn')
        /\ \A u \in Turns : turn'[u].waiters = after[u].waiters
                            /\ turn'[u].saves = (after[u].saves /\ ~ends)
        /\ ends => \A u \in Turns : ~turn'[u].saves
    <2>1. \A u \in Turns : after[u].saves \in BOOLEAN
      BY <1>3 DEF TurnFunctions, TurnRecords
    <2>2. CASE ends
      <3>1. turn' = ClearedTurns(after)
        BY <1>4, <2>2
      <3>2. \A u \in Turns : turn'[u].saves \in BOOLEAN
        BY <1>3, <3>1, ClearedFacts DEF TurnFunctions, TurnRecords
      <3> QED BY <1>3, <2>2, <3>1, <3>2, ClearedFacts
    <2>3. CASE ~ends
      BY <1>3, <1>4, <2>1, <2>3 DEF SameTurns
    <2> QED BY <2>2, <2>3
  <1>6. CASE \E w \in Concerned(t) : w.mine
    <2>1. PICK w \in turn[t].waiters : w.mine /\ (w.current \/ ~w.resume)
      BY <1>6 DEF Concerned
    <2>2. chat.sending /\ chat.sid = turn[t].sid
      BY <2>1 DEF Inv, WaitersSend
    <2>3. chat' = shown /\ stored' = Persisted(chat', saved)
      BY <1>6 DEF Concludes, Shows
    <2>4. ends \in BOOLEAN /\ (ends => unusable)
      OBVIOUS
    <2> HIDE DEF ends
    <2> QED BY <1>2, <1>3, <1>5, <2>2, <2>3, <2>4 DEF Ends, SameTurns
  <1>7. CASE ~(\E w \in Concerned(t) : w.mine)
    <2>3. chat' = chat /\ stored' = saved
      BY <1>7 DEF Concludes
    <2>4. ends \in BOOLEAN /\ (ends => unusable)
      OBVIOUS
    <2> HIDE DEF ends
    <2> QED BY <1>2, <1>3, <1>5, <2>3, <2>4 DEF Ends, SameTurns
  <1> QED BY <1>6, <1>7

\* The two ends of a turn.
LEMMA EndStep ==
    ASSUME Inv, NEW t \in Turns, TurnAnswered(t) \/ TurnFails(t)
    PROVE  \E entries \in Seq(Entries), unusable, ends \in BOOLEAN :
              /\ Flying(t) /\ Ends(t, entries, unusable, ends)
              /\ entries # <<>> /\ turn[t].sid \in Sessions
              /\ SentIn(turn, entries, turn[t].sid)
              /\ \/ TurnAnswered(t) /\ turn[t].phase = "posted"
                    /\ Answers(entries) = Answers(turn[t].before) \cup {t}
                 \/ TurnFails(t) /\ entries = turn[t].before
              /\ UNCHANGED <<user, requests, handoff, session, log, unlogged>>
              /\ chat' \in ChatRecords /\ stored' \in StoredRecords
  <1>1. turn[t] \in TurnRecords /\ turn[t].before \in Seq(Entries) /\ Flying(t)
    BY DEF Inv, Typed, TurnRecords, TurnAnswered, TurnFails, Flying
  <1>2. /\ turn[t].sid \in Sessions /\ session[turn[t].sid].user \in Users
        /\ turn[t].before # <<>> /\ SentIn(turn, turn[t].before, turn[t].sid)
    BY <1>1 DEF TurnRecords, Inv, Counted, Owned, TurnsOwned, Flying
  <1>3. ASSUME NEW entries \in Seq(Entries), NEW unusable \in BOOLEAN, NEW ends \in BOOLEAN,
               Ends(t, entries, unusable, ends)
        PROVE  chat' \in ChatRecords /\ stored' \in StoredRecords
    <2>1. chat \in ChatRecords /\ stored \in StoredRecords /\ session[turn[t].sid].user \in Users
      BY <1>2 DEF Inv, Typed
    <2>2. SavedResult(t, entries) \in StoredRecords /\ NothingStored \in StoredRecords
      BY <1>2, <2>1, SavedTyped, EmptyTyped DEF SavedResult
    <2>3. [chat EXCEPT !.entries = entries, !.sending = FALSE,
                       !.persist = chat.persist /\ ~unusable] \in ChatRecords
      BY <2>1 DEF ChatRecords
    <2>4. Typed
      BY DEF Inv
    <2> QED BY <1>3, <2>1, <2>2, <2>3, <2>4, PersistedTyped DEF Ends
  <1>4. CASE TurnAnswered(t)
    <2> DEFINE entries == turn[t].before \o <<Asked(t), Answer(t)>>
    <2>1. /\ entries \in Seq(Entries) /\ entries # <<>>
          /\ TurnsIn(entries) = TurnsIn(turn[t].before) \cup {t}
          /\ Answers(entries) = Answers(turn[t].before) \cup {t}
      BY <1>1, AnsweredFacts
    <2>2. /\ turn[t].phase = "posted" /\ Concludes(t, entries, FALSE)
          /\ UNCHANGED <<user, requests, handoff, session, log, unlogged>>
      BY <1>4 DEF TurnAnswered
    <2> HIDE DEF entries
    <2>3. SentIn(turn, entries, turn[t].sid)
      BY <1>2, <2>1 DEF SentIn
    <2>4. PICK ends \in BOOLEAN : Ends(t, entries, FALSE, ends)
      BY <1>1, <2>2, ConcludesFacts
    <2> QED BY <1>1, <1>2, <1>3, <1>4, <2>1, <2>2, <2>3, <2>4
  <1>5. CASE TurnFails(t)
    <2>1. PICK unusable \in BOOLEAN : Concludes(t, turn[t].before, unusable)
      BY <1>5 DEF TurnFails
    <2>2. UNCHANGED <<user, requests, handoff, session, log, unlogged>>
      BY <1>5 DEF TurnFails
    <2>3. PICK ends \in BOOLEAN : Ends(t, turn[t].before, unusable, ends)
      BY <1>1, <2>1, ConcludesFacts
    <2> QED BY <1>1, <1>2, <1>3, <1>5, <2>2, <2>3
  <1> QED BY <1>4, <1>5

LEMMA NextNumber ==
    ASSUME NEW N \in Nat, NEW S, NEW n \in 0 .. N, S = 1 .. n, Cardinality(S) + 1 \in 1 .. N
    PROVE  /\ Cardinality(S) = n /\ Cardinality(S) + 1 \notin S
           /\ n + 1 \in 0 .. N /\ S \cup {Cardinality(S) + 1} = 1 .. n + 1
  <1>1. n \in Nat /\ Cardinality(1 .. n) = n
    BY FS_Interval
  <1> QED BY <1>1

LEMMA FreshTurn ==
    ASSUME Inv, NextTurn \in Turns
    PROVE  /\ turn[NextTurn].phase = "none" /\ turn[NextTurn].sid = 0
           /\ \E n \in 0 .. MaxTurns : Sent \cup {NextTurn} = 1 .. n
  <1>1. PICK n \in 0 .. MaxTurns : Sent = 1 .. n
    BY DEF Inv, Counted
  <1>2. MaxTurns \in Nat
    BY AgentChatConstants
  <1>3. NextTurn \notin Sent /\ n + 1 \in 0 .. MaxTurns /\ Sent \cup {NextTurn} = 1 .. n + 1
    BY <1>1, <1>2, NextNumber DEF NextTurn, Turns
  <1> QED BY <1>3 DEF Sent, Inv, Counted

LEMMA FreshSession ==
    ASSUME Inv, NextSession \in Sessions
    PROVE  /\ session[NextSession].user = Nobody
           /\ \E n \in 0 .. MaxSessions : Created \cup {NextSession} = 1 .. n
  <1>1. PICK n \in 0 .. MaxSessions : Created = 1 .. n
    BY DEF Inv, Counted
  <1>2. MaxSessions \in Nat
    BY AgentChatConstants
  <1>3. /\ NextSession \notin Created /\ n + 1 \in 0 .. MaxSessions
        /\ Created \cup {NextSession} = 1 .. n + 1
    BY <1>1, <1>2, NextNumber DEF NextSession, Sessions
  <1> QED BY <1>3 DEF Created

\* A message is sent, or the chat waits for the one in flight.
LEMMA SendStep ==
    ASSUME Inv, Send
    PROVE  /\ chat.mounted /\ chat.status = "ready" /\ ~chat.sending /\ ~chat.history
           /\ chat.sid \in Sessions /\ user \in Users /\ ~past.leaving
           /\ UNCHANGED <<user, requests, handoff, session, log, unlogged, work, past>>
           /\ \/ /\ NextTurn \in Turns /\ InFlight(chat.sid) = {}
                 /\ chat' = [chat EXCEPT !.sending = TRUE,
                                         !.entries = Append(chat.entries, Asked(NextTurn))]
                 /\ stored' = Saved(stored, user, chat.sid,
                                    Append(chat.entries, Asked(NextTurn)), NextTurn)
                 /\ turn' = [turn EXCEPT ![NextTurn] =
                       [phase |-> "waiting", sid |-> chat.sid, before |-> chat.entries,
                        saves |-> TRUE, aborted |-> FALSE, waiters |-> {Sender}]]
              \/ /\ InFlight(chat.sid) # {}
                 /\ chat' = [chat EXCEPT !.sending = TRUE] /\ stored' = stored
                 /\ turn' = Joined(turn, InFlight(chat.sid), Sender)
           /\ chat' \in ChatRecords /\ stored' \in StoredRecords /\ turn' \in TurnFunctions
  <1>1. /\ chat \in ChatRecords /\ turn \in TurnFunctions /\ stored \in StoredRecords
        /\ chat.sid \in {0} \cup Sessions /\ chat.entries \in Seq(Entries)
    BY DEF Inv, Typed, ChatRecords, TurnFunctions
  <1>2. /\ chat.mounted /\ chat.status = "ready" /\ ~chat.sending /\ ~chat.history
        /\ chat.sid # 0
        /\ UNCHANGED <<user, requests, handoff, session, log, unlogged, work, past>>
    BY DEF Send, InputDisabled
  <1>3. user \in Users /\ ~past.leaving
    BY <1>2 DEF Inv, OneAwaited
  <1>4. CASE InFlight(chat.sid) # {}
    <2>1. /\ chat' = [chat EXCEPT !.sending = TRUE] /\ stored' = stored
          /\ turn' = Joined(turn, InFlight(chat.sid), Sender)
      BY <1>4 DEF Send, Joined
    <2>2. chat' \in ChatRecords
      BY <1>1, <2>1 DEF ChatRecords
    <2> QED BY <1>1, <1>2, <1>3, <1>4, <2>1, <2>2, JoinedFacts, TheWaiters
  <1>5. CASE InFlight(chat.sid) = {}
    <2> DEFINE asked == Append(chat.entries, Asked(NextTurn))
               sent == [phase |-> "waiting", sid |-> chat.sid, before |-> chat.entries,
                        saves |-> TRUE, aborted |-> FALSE, waiters |-> {Sender}]
    <2>1. /\ NextTurn \in Turns
          /\ chat' = [chat EXCEPT !.sending = TRUE, !.entries = asked]
          /\ stored' = Saved(stored, user, chat.sid, asked, NextTurn)
          /\ turn' = [turn EXCEPT ![NextTurn] = sent]
      BY <1>5 DEF Send
    <2>2. asked \in Seq(Entries)
      BY <1>1, <2>1, AskedFacts
    <2>3. sent \in TurnRecords
      BY <1>1, TheWaiters DEF TurnRecords, Waiters
    <2> HIDE DEF asked, sent
    <2>4. chat' \in ChatRecords
      BY <1>1, <2>1, <2>2 DEF ChatRecords
    <2>5. stored' \in StoredRecords
      BY <1>1, <1>3, <2>1, <2>2, SavedTyped
    <2>6. turn' \in TurnFunctions
      BY <1>1, <2>1, <2>3 DEF TurnFunctions
    <2> QED BY <1>1, <1>2, <1>3, <1>5, <2>1, <2>4, <2>5, <2>6 DEF asked, sent
  <1> QED BY <1>4, <1>5

-----------------------------------------------------------------------------
(* What a step leaves alone.                                               *)

\* A turn stays in its session and a session with its account.
Later ==
    /\ \A t \in Turns : turn[t].sid # 0 => turn'[t].sid = turn[t].sid
    /\ \A s \in Sessions : session[s].user # Nobody => session'[s].user = session[s].user

LEMMA SentLater ==
    ASSUME Later, NEW s \in Sessions, NEW e, SentIn(turn, e, s) PROVE SentIn(turn', e, s)
  BY DEF Later, SentIn, TurnsIn, Sessions

LEMMA SameIsLater ==
    ASSUME SameTurns(turn, turn'),
           \A s \in Sessions : session'[s].user = session[s].user
    PROVE  Later /\ (Counted => Counted')
  <1>1. Later
    BY DEF Later, SameTurns
  <1>2. Created' = Created /\ Sent' = Sent
    BY DEF Created, Sent, SameTurns
  <1>3. ASSUME Counted PROVE Counted'
    <2>1. \A t \in Turns : Flying(t)' <=> Flying(t)
      BY DEF Flying, SameTurns
    <2>2. \A t \in Turns : turn'[t].sid = 0 <=> turn'[t].phase = "none"
      BY <1>3 DEF Counted, SameTurns
    <2>3. \A t, u \in Turns : Flying(t)' /\ Flying(u)' /\ turn'[t].sid = turn'[u].sid => t = u
      BY <1>3, <2>1 DEF Counted, SameTurns
    <2> QED BY <1>2, <1>3, <2>2, <2>3 DEF Counted
  <1> QED BY <1>1, <1>3

LEMMA ChatOwnedLater ==
    ASSUME Inv, Later, user' = user, chat' \in ChatRecords,
           chat'.sid = 0 \/ (chat'.sid = chat.sid /\ chat'.entries = chat.entries)
    PROVE  ChatOwned'
  <1>1. Nobody \notin Users /\ (chat.sid # 0 => chat.sid \in Sessions)
    BY AgentChatConstants DEF Inv, Typed, ChatRecords
  <1>2. ASSUME chat.sid # 0, chat'.sid = chat.sid
        PROVE  session'[chat.sid].user = user /\ SentIn(turn', chat.entries, chat.sid)
    BY <1>1, <1>2, SentLater DEF Inv, Owned, ChatOwned, Later
  <1> QED BY <1>2 DEF Inv, Owned, ChatOwned

LEMMA StoredOwnedLater ==
    ASSUME Inv, Later, stored' \in {stored, NothingStored}
    PROVE  StoredOwned'
  <1>1. Nobody \notin Users
    BY AgentChatConstants
  <1>2. ASSUME stored # NothingStored
        PROVE  session'[stored.sid].user = stored.user /\ SentIn(turn', stored.entries, stored.sid)
    BY <1>1, <1>2, SentLater DEF Inv, Owned, StoredOwned, Later
  <1>3. NothingStored' = NothingStored
    BY DEF NothingStored
  <1> QED BY <1>2, <1>3 DEF Inv, Owned, StoredOwned

LEMMA RequestsOwnedLater ==
    ASSUME Inv, Later,
           \A q \in requests' : q.what # "create" =>
              \E r \in requests : r.what # "create" /\ q.sid = r.sid /\ q.user = r.user
    PROVE  RequestsOwned'
  <1>1. Nobody \notin Users /\ \A r \in requests : r.user \in Users
    BY AgentChatConstants DEF Inv, Typed, RequestRecords
  <1> QED BY <1>1 DEF Inv, Owned, RequestsOwned, Later

LEMMA TurnsOwnedLater ==
    ASSUME Inv, Later,
           \A t \in Turns : turn'[t].phase \in {"waiting", "posted"} =>
              Flying(t) /\ turn'[t].before = turn[t].before,
           \A t \in Turns : turn'[t].sid = turn[t].sid
    PROVE  TurnsOwned'
  <1>1. Nobody \notin Users /\ \A t \in Turns : turn[t].sid # 0 => turn[t].sid \in Sessions
    BY AgentChatConstants DEF Inv, Typed, TurnRecords
  <1>2. ASSUME NEW t \in Turns, turn[t].sid # 0
        PROVE  /\ session'[turn[t].sid].user \in Users
               /\ Flying(t) => turn[t].before # <<>> /\ SentIn(turn', turn[t].before, turn[t].sid)
    BY <1>1, <1>2, SentLater DEF Inv, Owned, TurnsOwned, Later
  <1> QED BY <1>2 DEF TurnsOwned, Flying

LEMMA LogOwnedLater ==
    ASSUME Inv, Later, log' = log PROVE LogOwned'
  BY SentLater DEF Inv, Owned, LogOwned

LEMMA WorkOwnedLater ==
    ASSUME Inv, Later, work' \subseteq work PROVE WorkOwned'
  <1>1. Nobody \notin Users /\ \A o \in work : o.sid \in Sessions /\ o.sid # 0
    BY AgentChatConstants DEF Inv, Typed, WorkRecords, Sessions
  <1> QED BY <1>1, SentLater DEF Inv, Owned, WorkOwned, Later

\* Nothing of it is lost: requests, turns and work are as they were, and nothing
\* else is shown or stored.
LEMMA KeptLater ==
    ASSUME Inv, SameTurns(turn, turn'), log' = log, unlogged' = unlogged, work' = work,
           past.abandoned \subseteq past'.abandoned,
           chat'.sid \notin Sessions \/ (chat'.sid = chat.sid /\ chat'.entries = chat.entries),
           stored' \in {stored, NothingStored},
           \A r \in requests :
              r.what = "sync" /\ r.mine /\ r.current /\ r.sid \notin past'.abandoned => r \in requests'
    PROVE  Kept'
  <1> SUFFICES ASSUME NEW s \in Sessions \ past'.abandoned
               PROVE  OneWorkAt(s)' /\ WorkInOrder(s)' /\ AnswersLogged(s)'
    BY DEF Kept
  <1>1. OneWorkAt(s) /\ WorkInOrder(s) /\ AnswersLogged(s)
    BY DEF Inv, Kept
  <1>2. OneWorkAt(s)'
    BY <1>1 DEF OneWorkAt
  <1>3. WorkInOrder(s)'
    <2>1. \A o \in work : o.what = "turn" => o.turn \in Turns
      BY DEF Inv, Owned, WorkOwned
    <2> QED BY <1>1, <2>1 DEF WorkInOrder, NoTurnsOf, SameTurns
  <1>4. AnswersLogged(s)'
    <2>1. NothingStored.sid \notin Sessions
      BY DEF NothingStored, Sessions
    <2> QED BY <1>1, <2>1 DEF AnswersLogged, SameTurns, Flying
  <1> QED BY <1>2, <1>3, <1>4

LEMMA FreshLater ==
    ASSUME Inv, SameTurns(turn, turn'), \A o \in work' : \E p \in work : o.sid = p.sid,
           requests' \subseteq requests
    PROVE  FreshAwaited'
  BY DEF Inv, FreshAwaited, NoTurnsOf, SameTurns

LEMMA OwnedLater ==
    ASSUME Inv, SameTurns(turn, turn'), user' = user, session' = session, log' = log,
           work' \subseteq work,
           chat' \in ChatRecords,
           chat'.sid = 0 \/ (chat'.sid = chat.sid /\ chat'.entries = chat.entries),
           stored' \in {stored, NothingStored},
           \A q \in requests' : q.what # "create" =>
              \E r \in requests : r.what # "create" /\ q.sid = r.sid /\ q.user = r.user
    PROVE  Owned'
  <1>1. Later
    BY SameIsLater
  <1>2. TurnsOwned'
    BY <1>1, TurnsOwnedLater DEF SameTurns, Flying
  <1> QED BY <1>1, <1>2, ChatOwnedLater, StoredOwnedLater, RequestsOwnedLater, LogOwnedLater,
             WorkOwnedLater DEF Owned

-----------------------------------------------------------------------------
(* The screen, between requests.                                           *)

LEMMA HistoryKeeps ==
    ASSUME Inv, OpenHistory \/ CloseHistory PROVE Inv'
  <1>1. PICK h \in BOOLEAN :
           /\ chat' = [chat EXCEPT !.history = h]
           /\ h => chat.mounted /\ chat.status = "ready" /\ ~chat.sending
           /\ UNCHANGED <<user, requests, turn, stored, handoff, session, log, unlogged, work, past>>
    BY DEF OpenHistory, CloseHistory, HistoryOffered, HeaderShown
  <1>2. chat \in ChatRecords /\ chat' \in ChatRecords
    BY <1>1 DEF Inv, Typed, ChatRecords
  <1>3. /\ chat'.mounted = chat.mounted /\ chat'.status = chat.status /\ chat'.sid = chat.sid
        /\ chat'.entries = chat.entries /\ chat'.view = chat.view /\ chat'.sending = chat.sending
        /\ chat'.persist = chat.persist /\ chat'.history = h
    BY <1>1, <1>2 DEF ChatRecords
  <1>4. SameTurns(turn, turn') /\ requests' = requests
    BY <1>1 DEF SameTurns
  <1>5. Typed'
    BY <1>1, <1>2 DEF Inv, Typed
  <1>6. Counted'
    BY <1>1, <1>4, SameIsLater DEF Inv
  <1>7. OneAwaited'
    <2>1. ~chat'.mounted => chat' = NoChat
      <3>1. ASSUME ~chat.mounted PROVE chat' = NoChat
        <4>1. chat = NoChat /\ ~h
          BY <1>1, <3>1 DEF Inv, OneAwaited
        <4> QED BY <1>1, <4>1 DEF NoChat
      <3> QED BY <1>3, <3>1
    <2> QED BY <1>1, <1>3, <2>1 DEF Inv, OneAwaited
  <1>8. WaitersSend'
    BY <1>1, <1>3 DEF Inv, WaitersSend, Flying
  <1>9. Owned'
    BY <1>1, <1>2, <1>3, <1>4, OwnedLater
  <1>10. Pending' /\ Following'
    BY <1>1, <1>3 DEF Inv, Pending, Following, Flying, NothingStored
  <1>11. FreshAwaited' /\ Kept'
    BY <1>1, <1>3, <1>4, KeptLater, FreshLater
  <1> QED BY <1>5, <1>6, <1>7, <1>8, <1>9, <1>10, <1>11 DEF Inv

LEMMA StashKeeps ==
    ASSUME Inv, NEW k \in Kinds, Stash(k) PROVE Inv'
  <1>1. UNCHANGED <<user, chat, requests, turn, stored, session, log, unlogged, work, past>> /\ handoff' = k
    BY DEF Stash
  <1>2. Typed'
    BY <1>1 DEF Inv, Typed
  <1>3. UNCHANGED <<Counted, OneAwaited, WaitersSend, Owned, Pending, Following, FreshAwaited, Kept>>
    BY <1>1 DEF Counted, Created, Sent, Flying, OneAwaited, WaitersSend, Owned, ChatOwned, StoredOwned,
        RequestsOwned, TurnsOwned, LogOwned, WorkOwned, Pending, Following, FreshAwaited, Kept,
        OneWorkAt, WorkInOrder, AnswersLogged, NoTurnsOf
  <1> QED BY <1>2, <1>3 DEF Inv

-----------------------------------------------------------------------------
(* Leaving, reloading, signing in and out.                                 *)

LEMMA SignInKeeps ==
    ASSUME Inv, NEW u \in Users, SignIn(u) PROVE Inv'
  <1>1. /\ user = Nobody /\ user' = u
        /\ UNCHANGED <<chat, requests, turn, stored, handoff, session, log, unlogged, work, past>>
    BY DEF SignIn
  <1>2. Nobody \notin Users /\ chat = NoChat /\ ~chat.mounted /\ chat.sid = 0 /\ ~chat.sending
    BY <1>1, AgentChatConstants DEF Inv, OneAwaited, NoChat
  <1>3. stored.pending = 0
    <2>1. stored.pending # 0 => stored.user \in Users
      BY DEF Inv, Owned, StoredOwned, NothingStored
    <2> QED BY <1>1, <1>2, <2>1 DEF Inv, Pending
  <1>4. ~past.opened => stored = NothingStored
    BY <1>1, <1>2 DEF Inv, Owned, StoredOwned, Following
  <1>5. SameTurns(turn, turn') /\ chat' \in ChatRecords /\ NothingStored' = NothingStored
    BY <1>1 DEF SameTurns, Inv, Typed, NothingStored
  <1>6. Typed'
    BY <1>1 DEF Inv, Typed
  <1>7. Counted' /\ Later
    BY <1>1, <1>5, SameIsLater DEF Inv
  <1>8. OneAwaited'
    BY <1>1, <1>2 DEF Inv, OneAwaited, NoChat
  <1>9. WaitersSend'
    BY <1>1 DEF Inv, WaitersSend, Flying
  <1>10. Owned'
    <2>1. ChatOwned'
      BY <1>1, <1>2 DEF ChatOwned
    <2>2. StoredOwned' /\ RequestsOwned' /\ TurnsOwned' /\ LogOwned' /\ WorkOwned'
      BY <1>1 DEF Inv, Owned, StoredOwned, RequestsOwned, TurnsOwned, LogOwned, WorkOwned, Flying,
          NothingStored
    <2> QED BY <2>1, <2>2 DEF Owned
  <1>11. Pending'
    BY <1>1, <1>3 DEF Pending
  <1>12. Following'
    <2>1. \A t \in Turns : t # 0
      BY DEF Turns
    <2>2. ~past.opened => \A t \in Turns : ~(Flying(t) /\ turn[t].saves)
      BY <1>3, <2>1 DEF Inv, Following
    <2>3. ~past.opened => \A r \in requests : r.what # "open"
      BY DEF Inv, Following
    <2> QED BY <1>1, <1>4, <1>5, <2>2, <2>3 DEF Following, Flying
  <1>13. FreshAwaited' /\ Kept'
    BY <1>1, <1>5, KeptLater, FreshLater
  <1> QED BY <1>6, <1>7, <1>8, <1>9, <1>10, <1>11, <1>12, <1>13 DEF Inv

LEMMA SignOutKeeps ==
    ASSUME Inv, SignOut PROVE Inv'
  <1>1. /\ user # Nobody /\ ~chat.mounted /\ handoff' = "none" /\ stored' = NothingStored
        /\ turn' = ClearedTurns(turn) /\ past' = [past EXCEPT !.leaving = TRUE]
        /\ UNCHANGED <<user, chat, requests, session, log, unlogged, work>>
    BY DEF SignOut
  <1>2. /\ turn \in TurnFunctions /\ chat \in ChatRecords
        /\ past \in [mounts : 0 .. MaxMounts, reloads : 0 .. MaxReloads,
                     abandoned : SUBSET Sessions, leaving : BOOLEAN, opened : BOOLEAN]
    BY DEF Inv, Typed, TurnFunctions
  <1>3. /\ turn' \in TurnFunctions /\ SameTurns(turn, turn')
        /\ \A t \in Turns : ~turn'[t].saves /\ turn'[t].waiters = turn[t].waiters
    BY <1>1, <1>2, ClearedFacts
  <1>4. /\ past' \in [mounts : 0 .. MaxMounts, reloads : 0 .. MaxReloads,
                      abandoned : SUBSET Sessions, leaving : BOOLEAN, opened : BOOLEAN]
        /\ past'.abandoned = past.abandoned /\ past'.opened = past.opened
    BY <1>1, <1>2
  <1>5. NothingStored' = NothingStored /\ NothingStored.pending = 0 /\ NothingStored.sid = 0
    BY DEF NothingStored
  <1>6. Typed'
    BY <1>1, <1>3, <1>4, EmptyTyped DEF Inv, Typed, TurnFunctions
  <1>7. Counted'
    BY <1>1, <1>3, SameIsLater DEF Inv
  <1>8. OneAwaited'
    BY <1>1 DEF Inv, OneAwaited, NoChat
  <1>9. WaitersSend'
    BY <1>1, <1>3 DEF Inv, WaitersSend, Flying, SameTurns
  <1>10. Owned'
    BY <1>1, <1>2, <1>3, OwnedLater
  <1>11. Pending'
    BY <1>1, <1>5 DEF Pending
  <1>12. Following'
    <2>1. ~past.opened => \A r \in requests : r.what # "open"
      BY DEF Inv, Following
    <2> QED BY <1>1, <1>3, <1>4, <1>5, <2>1 DEF Following
  <1>13. FreshAwaited' /\ Kept'
    BY <1>1, <1>3, <1>4, KeptLater, FreshLater
  <1> QED BY <1>6, <1>7, <1>8, <1>9, <1>10, <1>11, <1>12, <1>13 DEF Inv

\* The screen goes away: with the chat, or with the account.
LEMMA GoneKeeps ==
    ASSUME Inv, chat' = NoChat, requests' = Gone(requests), turn' = Left(turn),
           UNCHANGED <<stored, handoff, session, log, unlogged, work>>,
           past' = [past EXCEPT !.leaving = past'.leaving,
                                !.abandoned = past.abandoned \cup Unwatched],
           \/ user' = user /\ past'.leaving = past.leaving
           \/ user' = Nobody /\ past.leaving /\ past'.leaving = FALSE
    PROVE  Inv'
  <1>1. /\ turn \in TurnFunctions /\ requests \subseteq RequestRecords
        /\ past \in [mounts : 0 .. MaxMounts, reloads : 0 .. MaxReloads,
                     abandoned : SUBSET Sessions, leaving : BOOLEAN, opened : BOOLEAN]
    BY DEF Inv, Typed, TurnFunctions
  <1>2. /\ turn' \in TurnFunctions /\ SameTurns(turn, turn')
        /\ \A t \in Turns : turn'[t].saves = turn[t].saves
        /\ \A t \in Turns : \A w \in turn'[t].waiters : ~w.mine /\ turn[t].waiters # {}
    <2>1. Typed
      BY DEF Inv
    <2> QED BY <1>1, <2>1, LeftFacts
  <1>3. /\ requests' \subseteq RequestRecords
        /\ \A q \in requests' : \E r \in requests :
              /\ q.what = r.what /\ q.user = r.user /\ ~q.mine
              /\ q.handoff = r.handoff /\ q.sid = r.sid /\ q.current = r.current
    BY <1>1, GoneFacts
  <1>4. Unwatched \subseteq Sessions
    BY DEF Unwatched, Inv, Owned, RequestsOwned
  <1>5. /\ past' \in [mounts : 0 .. MaxMounts, reloads : 0 .. MaxReloads,
                      abandoned : SUBSET Sessions, leaving : BOOLEAN, opened : BOOLEAN]
        /\ past'.abandoned = past.abandoned \cup Unwatched /\ past'.opened = past.opened
        /\ past'.reloads = past.reloads
    BY <1>1, <1>4
  <1>6. NothingStored' = NothingStored /\ NoChat.sid = 0 /\ ~NoChat.mounted /\ ~NoChat.sending
        /\ NoChat.status = "loading" /\ ~NoChat.history /\ NoChat' = NoChat
    BY DEF NothingStored, NoChat
  <1>7. Typed'
    BY <1>1, <1>2, <1>3, <1>5, EmptyTyped DEF Inv, Typed, TurnFunctions
  <1>8. Counted' /\ Later
    BY <1>2, SameIsLater DEF Inv
  <1>9. OneAwaited'
    BY <1>3, <1>6 DEF OneAwaited
  <1>10. WaitersSend'
    BY <1>2 DEF Inv, WaitersSend, Flying, SameTurns
  <1>11. Owned'
    <2>1. ChatOwned'
      BY <1>6 DEF ChatOwned
    <2>2. StoredOwned' /\ RequestsOwned' /\ LogOwned' /\ WorkOwned'
      BY <1>3, <1>8, StoredOwnedLater, RequestsOwnedLater, LogOwnedLater, WorkOwnedLater
    <2>3. TurnsOwned'
      BY <1>2, <1>8, TurnsOwnedLater DEF SameTurns, Flying
    <2> QED BY <2>1, <2>2, <2>3 DEF Owned
  <1>12. Pending'
    <2>1. \A t \in Turns : Flying(t)' <=> Flying(t)
      BY <1>2 DEF SameTurns, Flying
    <2>2. stored.pending # 0 => stored.pending \in Turns
      BY DEF Inv, Typed, StoredRecords
    <2>3. ASSUME stored.pending # 0
          PROVE /\ stored.user = user' /\ ~past'.leaving
                /\ Len(stored.entries) > 1 /\ Asked(stored.pending) \in ToSet(stored.entries)
                /\ \/ past.reloads > 0 /\ \A t \in Turns : ~Flying(t)
                   \/ /\ Flying(stored.pending) /\ turn'[stored.pending].saves
                      /\ turn'[stored.pending].sid = stored.sid
      BY <1>2, <2>2, <2>3 DEF Inv, Pending, SameTurns
    <2> QED BY <1>5, <1>6, <2>1, <2>2, <2>3 DEF Pending
  <1>13. Following'
    <2>1. SUFFICES ASSUME ~past.opened PROVE Following'
      BY <1>5 DEF Following
    <2>2. ASSUME stored # NothingStored PROVE stored.user = user' /\ ~past'.leaving
      BY <2>1, <2>2 DEF Inv, Following
    <2>3. ASSUME NEW t \in Turns, Flying(t)', turn'[t].saves
          PROVE  /\ stored.pending = t /\ stored.sid = turn'[t].sid
                 /\ Answer(t) \notin ToSet(stored.entries)
      BY <1>2, <2>1, <2>3 DEF Inv, Following, SameTurns, Flying
    <2>4. \A q \in requests' : q.what # "open"
      BY <1>3, <2>1 DEF Inv, Following
    <2> QED BY <1>6, <2>2, <2>3, <2>4 DEF Following
  <1>14. FreshAwaited'
    <2>1. ASSUME NEW q \in requests', NEW p \in requests', q.what = "created", p.what = "created",
                 q.sid = p.sid
          PROVE  q = p
      <3>1. PICK r \in requests : q = [r EXCEPT !.mine = FALSE]
        BY DEF Gone
      <3>2. PICK v \in requests : p = [v EXCEPT !.mine = FALSE]
        BY DEF Gone
      <3>3. r.what = "created" /\ v.what = "created" /\ r.sid = v.sid
        BY <1>1, <2>1, <3>1, <3>2 DEF RequestRecords
      <3> QED BY <3>1, <3>2, <3>3 DEF Inv, FreshAwaited
    <2> QED BY <1>3, <2>1 DEF FreshAwaited
  <1>15. Kept'
    <2>1. \A r \in requests : r.what = "sync" => r.sid \in past'.abandoned
      BY <1>5 DEF Unwatched
    <2>2. NoChat.sid \notin Sessions /\ past.abandoned \subseteq past'.abandoned
      BY <1>5, <1>6 DEF Sessions
    <2> QED BY <1>2, <2>1, <2>2, KeptLater
  <1> QED BY <1>7, <1>8, <1>9, <1>10, <1>11, <1>12, <1>13, <1>14, <1>15 DEF Inv

LEMMA LeaveKeeps ==
    ASSUME Inv, LeaveChat \/ SignedOut PROVE Inv'
  <1>1. past \in [mounts : 0 .. MaxMounts, reloads : 0 .. MaxReloads,
                  abandoned : SUBSET Sessions, leaving : BOOLEAN, opened : BOOLEAN]
    BY DEF Inv, Typed
  <1>2. CASE LeaveChat
    <2>1. /\ past' = [past EXCEPT !.leaving = past'.leaving,
                                  !.abandoned = past.abandoned \cup Unwatched]
          /\ user' = user /\ past'.leaving = past.leaving
      BY <1>1, <1>2 DEF LeaveChat
    <2> QED BY <1>2, <2>1, GoneKeeps DEF LeaveChat
  <1>3. CASE SignedOut
    <2>1. /\ past' = [past EXCEPT !.leaving = past'.leaving,
                                  !.abandoned = past.abandoned \cup Unwatched]
          /\ user' = Nobody /\ past.leaving /\ past'.leaving = FALSE
      BY <1>1, <1>3 DEF SignedOut
    <2> QED BY <1>3, <2>1, GoneKeeps DEF SignedOut
  <1> QED BY <1>2, <1>3

LEMMA ReloadKeeps ==
    ASSUME Inv, Reload PROVE Inv'
  <1> DEFINE over(t) == [NoTurn EXCEPT !.phase = "over", !.sid = turn[t].sid]
  <1>1. /\ chat.mounted /\ past.reloads < MaxReloads
        /\ past' = [past EXCEPT !.reloads = past.reloads + 1, !.leaving = FALSE,
                                !.abandoned = past.abandoned \cup {o.sid : o \in work}]
        /\ chat' = NoChat /\ requests' = {}
        /\ turn' = [t \in Turns |-> IF turn[t].phase = "none" THEN NoTurn ELSE over(t)]
        /\ UNCHANGED <<user, stored, handoff, session, log, unlogged, work>>
    BY DEF Reload
  <1>2. /\ turn \in TurnFunctions /\ \A o \in work : o.sid \in Sessions
        /\ past \in [mounts : 0 .. MaxMounts, reloads : 0 .. MaxReloads,
                     abandoned : SUBSET Sessions, leaving : BOOLEAN, opened : BOOLEAN]
    BY DEF Inv, Typed, TurnFunctions, WorkRecords
  <1>3. \A t \in Turns : /\ over(t) \in TurnRecords /\ over(t).phase = "over"
                         /\ over(t).sid = turn[t].sid /\ over(t).waiters = {}
    BY <1>2, EmptyTyped DEF TurnRecords, NoTurn, TurnFunctions
  <1>4. NoTurn \in TurnRecords /\ NoTurn.phase = "none" /\ NoTurn.sid = 0 /\ NoTurn.waiters = {}
    BY EmptyTyped DEF NoTurn
  <1> HIDE DEF over
  <1>5. /\ turn' \in TurnFunctions
        /\ \A t \in Turns : /\ turn'[t].sid = turn[t].sid /\ turn'[t].waiters = {} /\ ~Flying(t)'
                            /\ turn'[t].phase = "none" <=> turn[t].phase = "none"
    BY <1>1, <1>3, <1>4 DEF TurnFunctions, Inv, Counted, Flying
  <1>6. /\ past' \in [mounts : 0 .. MaxMounts, reloads : 0 .. MaxReloads,
                      abandoned : SUBSET Sessions, leaving : BOOLEAN, opened : BOOLEAN]
        /\ past'.abandoned = past.abandoned \cup {o.sid : o \in work}
        /\ past'.opened = past.opened /\ past'.reloads > 0
    <2> DEFINE a == past.abandoned \cup {o.sid : o \in work}
               n == past.reloads + 1
    <2>1. a \in SUBSET Sessions
      BY <1>2
    <2>2. n \in 0 .. MaxReloads /\ n > 0
      BY <1>1, <1>2, AgentChatConstants
    <2>3. past' = [past EXCEPT !.reloads = n, !.leaving = FALSE, !.abandoned = a]
      BY <1>1
    <2> HIDE DEF a, n
    <2>4. /\ past' \in [mounts : 0 .. MaxMounts, reloads : 0 .. MaxReloads,
                        abandoned : SUBSET Sessions, leaving : BOOLEAN, opened : BOOLEAN]
          /\ past'.abandoned = a /\ past'.opened = past.opened /\ past'.reloads = n
      BY <1>2, <2>1, <2>2, <2>3
    <2> QED BY <2>2, <2>4 DEF a
  <1>7. NothingStored' = NothingStored /\ NoChat.sid = 0 /\ ~NoChat.mounted /\ ~NoChat.sending
        /\ NoChat.status = "loading" /\ ~NoChat.history /\ NoChat' = NoChat
    BY DEF NothingStored, NoChat
  <1>8. Typed'
    BY <1>1, <1>5, <1>6, EmptyTyped DEF Inv, Typed, TurnFunctions
  <1>9. Counted' /\ Later
    <2>1. Created' = Created /\ Sent' = Sent
      BY <1>1, <1>5 DEF Created, Sent
    <2>2. \A t \in Turns : turn'[t].sid = 0 <=> turn'[t].phase = "none"
      BY <1>5 DEF Inv, Counted
    <2> QED BY <1>1, <1>5, <2>1, <2>2 DEF Inv, Counted, Later
  <1>10. OneAwaited'
    BY <1>1, <1>7 DEF OneAwaited
  <1>11. WaitersSend'
    BY <1>5 DEF WaitersSend
  <1>12. Owned'
    <2>1. ChatOwned'
      BY <1>1, <1>7 DEF ChatOwned
    <2>2. StoredOwned' /\ RequestsOwned' /\ LogOwned' /\ WorkOwned'
      BY <1>1, <1>9, StoredOwnedLater, RequestsOwnedLater, LogOwnedLater, WorkOwnedLater
    <2>3. TurnsOwned'
      BY <1>5, <1>9, TurnsOwnedLater DEF Flying
    <2> QED BY <2>1, <2>2, <2>3 DEF Owned
  <1>13. Pending'
    BY <1>1, <1>5, <1>6, <1>7 DEF Inv, Pending, OneAwaited
  <1>14. Following'
    BY <1>1, <1>5, <1>6, <1>7 DEF Inv, Following, OneAwaited
  <1>15. FreshAwaited'
    BY <1>1 DEF FreshAwaited
  <1>16. Kept'
    <2> SUFFICES ASSUME NEW s \in Sessions \ past'.abandoned
                 PROVE  OneWorkAt(s)' /\ WorkInOrder(s)' /\ AnswersLogged(s)'
      BY DEF Kept
    <2>1. \A o \in work' : o.sid # s
      BY <1>1, <1>6
    <2>2. AnswersLogged(s)
      BY <1>6 DEF Inv, Kept
    <2>3. NoChat.sid # s
      BY <1>7 DEF Sessions
    <2> QED BY <1>1, <1>5, <2>1, <2>2, <2>3 DEF OneWorkAt, WorkInOrder, AnswersLogged
  <1> QED BY <1>8, <1>9, <1>10, <1>11, <1>12, <1>13, <1>14, <1>15, <1>16 DEF Inv

-----------------------------------------------------------------------------
(* The server.                                                             *)

\* What the screen and the storage hold depends on neither the server's work nor
\* who owns a session.
LEMMA ScreenSame ==
    ASSUME Inv, UNCHANGED <<user, chat, requests, stored, past>>, SameTurns(turn, turn'),
           \A t \in Turns : turn'[t].saves = turn[t].saves /\ turn'[t].waiters = turn[t].waiters
    PROVE  OneAwaited' /\ WaitersSend' /\ Pending' /\ Following'
  <1>1. \A t \in Turns : (Flying(t)' <=> Flying(t)) /\ turn'[t].sid = turn[t].sid
    BY DEF SameTurns, Flying
  <1>2. NothingStored' = NothingStored
    BY DEF NothingStored
  <1>3. OneAwaited'
    BY DEF Inv, OneAwaited, NoChat
  <1>4. WaitersSend'
    BY <1>1 DEF Inv, WaitersSend
  <1>5. Pending'
    <2>1. stored.pending # 0 => stored.pending \in Turns
      BY DEF Inv, Typed, StoredRecords
    <2> QED BY <1>1, <2>1 DEF Inv, Pending
  <1>6. Following'
    BY <1>1, <1>2 DEF Inv, Following
  <1> QED BY <1>3, <1>4, <1>5, <1>6

LEMMA CreateSessionKeeps ==
    ASSUME Inv, NEW r \in requests, CreateSession(r) PROVE Inv'
  <1> DEFINE s == NextSession
             q == [r EXCEPT !.what = "created", !.sid = s]
  <1>1. /\ r.what = "create" /\ s \in Sessions
        /\ session' = [session EXCEPT ![s] = [user |-> r.user, alive |-> TRUE]]
        /\ requests' = (requests \ {r}) \cup {q}
        /\ UNCHANGED <<user, chat, turn, stored, handoff, log, unlogged, work, past>>
    BY DEF CreateSession
  <1>2. /\ r \in RequestRecords /\ r.user \in Users /\ chat \in ChatRecords
        /\ session \in [Sessions -> [user : Users \cup {Nobody}, alive : BOOLEAN]]
    BY DEF Inv, Typed, RequestRecords
  <1>3. /\ q \in RequestRecords /\ q.what = "created" /\ q.sid = s /\ q.user = r.user
        /\ q.mine = r.mine /\ q.current = r.current
    BY <1>1, <1>2 DEF RequestRecords
  <1>4. /\ session[s].user = Nobody /\ \E n \in 0 .. MaxSessions : Created \cup {s} = 1 .. n
        /\ Nobody \notin Users
    BY <1>1, FreshSession, AgentChatConstants
  <1> HIDE DEF s, q
  <1>5. /\ session' \in [Sessions -> [user : Users \cup {Nobody}, alive : BOOLEAN]]
        /\ session'[s].user = r.user /\ \A x \in Sessions \ {s} : session'[x] = session[x]
    BY <1>1, <1>2
  <1>6. SameTurns(turn, turn')
    BY <1>1 DEF SameTurns
  <1>7. Later
    BY <1>1, <1>4, <1>5 DEF Later
  <1>8. Typed'
    BY <1>1, <1>3, <1>5 DEF Inv, Typed
  <1>9. Counted'
    <2>1. Created' = Created \cup {s}
      BY <1>1, <1>2, <1>4, <1>5 DEF Created
    <2>2. Sent' = Sent
      BY <1>1 DEF Sent
    <2> QED BY <1>1, <1>4, <2>1, <2>2 DEF Inv, Counted, Flying
  <1>10. OneAwaited'
    BY <1>1, <1>3 DEF Inv, OneAwaited, NoChat
  <1>11. WaitersSend' /\ Pending' /\ Following'
    <2>1. WaitersSend' /\ Pending'
      BY <1>1 DEF Inv, WaitersSend, Pending, Flying
    <2>2. ~past.opened => \A p \in requests' : p.what # "open"
      BY <1>1, <1>3 DEF Inv, Following
    <2>3. Following'
      BY <1>1, <2>2 DEF Inv, Following, Flying, NothingStored
    <2> QED BY <2>1, <2>3
  <1>12. Owned'
    <2>1. RequestsOwned'
      BY <1>1, <1>2, <1>3, <1>4, <1>5 DEF Inv, Owned, RequestsOwned, Typed, RequestRecords
    <2>2. ChatOwned' /\ StoredOwned' /\ LogOwned' /\ WorkOwned'
      BY <1>1, <1>2, <1>7, ChatOwnedLater, StoredOwnedLater, LogOwnedLater, WorkOwnedLater
    <2>3. TurnsOwned'
      BY <1>1, <1>7, TurnsOwnedLater DEF Flying
    <2> QED BY <2>1, <2>2, <2>3 DEF Owned
  <1>13. FreshAwaited'
    <2>1. NoTurnsOf(s) /\ \A o \in work : o.sid # s
      BY <1>1, <1>4 DEF Inv, Owned, TurnsOwned, WorkOwned, NoTurnsOf, Sessions
    <2>2. \A p \in requests : p.what = "created" => p.sid # s
      BY <1>4 DEF Inv, Typed, RequestRecords, Owned, RequestsOwned
    <2>3. FreshAwaited
      BY DEF Inv
    <2>4. \A p \in requests' : p = q \/ p \in requests
      BY <1>1
    <2>5. \A p \in requests' : p.what = "created" /\ p.mine /\ p.current =>
             NoTurnsOf(p.sid)' /\ \A o \in work' : o.sid # p.sid
      BY <1>1, <1>3, <2>1, <2>3, <2>4 DEF FreshAwaited, NoTurnsOf
    <2>6. ASSUME NEW a \in requests', NEW b \in requests', a.what = "created", b.what = "created",
                 a.sid = b.sid
          PROVE  a = b
      BY <1>3, <2>2, <2>3, <2>4, <2>6 DEF FreshAwaited
    <2> QED BY <2>5, <2>6 DEF FreshAwaited
  <1>14. Kept'
    BY <1>1, <1>6, KeptLater
  <1> QED BY <1>8, <1>9, <1>10, <1>11, <1>12, <1>13, <1>14 DEF Inv

LEMMA WorkFailsKeeps ==
    ASSUME Inv, NEW o \in work, WorkFails(o) PROVE Inv'
  <1>1. /\ work' = work \ {o}
        /\ UNCHANGED <<user, chat, requests, turn, stored, handoff, session, log, unlogged, past>>
    BY DEF WorkFails
  <1>2. SameTurns(turn, turn') /\ chat' \in ChatRecords
    BY <1>1 DEF SameTurns, Inv, Typed
  <1>3. Typed'
    BY <1>1 DEF Inv, Typed
  <1>4. Counted' /\ OneAwaited' /\ WaitersSend' /\ Pending' /\ Following'
    BY <1>1, <1>2, SameIsLater, ScreenSame DEF Inv
  <1>5. Owned' /\ FreshAwaited'
    BY <1>1, <1>2, OwnedLater, FreshLater
  <1>6. Kept'
    BY <1>1 DEF Inv, Kept, OneWorkAt, WorkInOrder, AnswersLogged, NoTurnsOf, Flying
  <1> QED BY <1>3, <1>4, <1>5, <1>6 DEF Inv

LEMMA ReadLogKeeps ==
    ASSUME Inv, NEW o \in work, ReadLog(o) PROVE Inv'
  <1> DEFINE p == [o EXCEPT !.stage = "read", !.read = log[o.sid]]
  <1>1. /\ o.stage = "run" /\ work' = (work \ {o}) \cup {p}
        /\ UNCHANGED <<user, chat, requests, turn, stored, handoff, session, log, unlogged, past>>
    BY DEF ReadLog
  <1>2. o \in WorkRecords /\ o.sid \in Sessions /\ log[o.sid] \in Seq(Entries)
    BY DEF Inv, Typed, WorkRecords
  <1>3. /\ p \in WorkRecords /\ p.what = o.what /\ p.sid = o.sid /\ p.turn = o.turn
        /\ p.stage = "read" /\ p.read = log[o.sid] /\ p.add = o.add
    BY <1>2 DEF WorkRecords
  <1> HIDE DEF p
  <1>4. SameTurns(turn, turn') /\ chat' \in ChatRecords
    BY <1>1 DEF SameTurns, Inv, Typed
  <1>5. Typed'
    BY <1>1, <1>3 DEF Inv, Typed
  <1>6. Counted' /\ Later /\ OneAwaited' /\ WaitersSend' /\ Pending' /\ Following'
    BY <1>1, <1>4, SameIsLater, ScreenSame DEF Inv
  <1>7. Owned'
    <2>1. WorkOwned'
      BY <1>1, <1>2, <1>3 DEF Inv, Owned, WorkOwned, LogOwned
    <2>2. ChatOwned' /\ StoredOwned' /\ RequestsOwned' /\ TurnsOwned' /\ LogOwned'
      BY <1>1 DEF Inv, Owned, ChatOwned, StoredOwned, RequestsOwned, TurnsOwned, LogOwned, Flying,
          NothingStored
    <2> QED BY <2>1, <2>2 DEF Owned
  <1>8. FreshAwaited'
    BY <1>1, <1>3, <1>4, FreshLater
  <1>9. Kept'
    <2> SUFFICES ASSUME NEW s \in Sessions \ past.abandoned
                 PROVE  OneWorkAt(s)' /\ WorkInOrder(s)' /\ AnswersLogged(s)'
      BY <1>1 DEF Kept
    <2>1. OneWorkAt(s) /\ WorkInOrder(s) /\ AnswersLogged(s)
      BY DEF Inv, Kept
    <2>2. OneWorkAt(s)'
      BY <1>1, <1>3, <2>1 DEF OneWorkAt
    <2>3. WorkInOrder(s)'
      BY <1>1, <1>3, <2>1 DEF WorkInOrder, NoTurnsOf
    <2>4. AnswersLogged(s)'
      BY <1>1, <2>1 DEF AnswersLogged, Flying
    <2> QED BY <2>2, <2>3, <2>4
  <1> QED BY <1>5, <1>6, <1>7, <1>8, <1>9 DEF Inv

\* The answers a session's log has are its own turns'.
LEMMA AnswersSent ==
    ASSUME NEW e, NEW s, SentIn(turn, e, s), NoTurnsOf(s) PROVE Answers(e) = {}
  BY DEF Answers, SentIn, TurnsIn, NoTurnsOf

LEMMA WriteLogKeeps ==
    ASSUME Inv, NEW o \in work, WriteLog(o) PROVE Inv'
  <1> DEFINE p == [o EXCEPT !.stage = "answered", !.read = <<>>]
             x == o.sid
             new == Recorded(o)
  <1>1. /\ o.stage = "read" /\ log' = [log EXCEPT ![x] = new]
        /\ work' = work \ {o}
           \/ (o.what = "turn" /\ work' = (work \ {o}) \cup {p})
        /\ UNCHANGED <<user, chat, requests, turn, stored, handoff, session, unlogged, past>>
    BY DEF WriteLog, Ended
  <1>2. /\ o \in WorkRecords /\ x \in Sessions /\ log \in [Sessions -> Seq(Entries)]
        /\ o.read \in Seq(Entries) /\ o.add \in Seq(Entries)
    BY DEF Inv, Typed, WorkRecords
  <1>3. /\ p \in WorkRecords /\ p.what = o.what /\ p.sid = x /\ p.turn = o.turn
        /\ p.stage = "answered" /\ p.read = <<>> /\ p.add = o.add
    <2>1. <<>> \in Seq(Entries)
      OBVIOUS
    <2> QED BY <1>2, <2>1 DEF WorkRecords
  <1>4. /\ SentIn(turn, o.read, x) /\ SentIn(turn, o.add, x) /\ SentIn(turn, log[x], x)
        /\ session[x].user \in Users
        /\ o.what = "turn" => o.turn \in Turns /\ turn[o.turn].sid = x
    BY <1>2 DEF Inv, Owned, WorkOwned, LogOwned
  <1>5. /\ new \in Seq(Entries) /\ SentIn(turn, new, x)
        /\ o.what = "turn" => Answers(new) = Answers(o.read) \cup Answers(o.add)
    <2>1. CASE o.what = "turn"
      <3>1. new = o.read \o o.add
        BY <2>1 DEF Recorded
      <3>2. new \in Seq(Entries) /\ ToSet(new) = ToSet(o.read) \cup ToSet(o.add)
        BY <1>2, <3>1, ConcatProperties, ConcatToSet
      <3>3. TurnsIn(new) = TurnsIn(o.read) \cup TurnsIn(o.add)
            /\ Answers(new) = Answers(o.read) \cup Answers(o.add)
        BY <3>2 DEF TurnsIn, Answers
      <3> QED BY <1>4, <3>2, <3>3 DEF SentIn
    <2>2. CASE o.what # "turn"
      BY <1>2, <1>4, <2>2 DEF Recorded
    <2> QED BY <2>1, <2>2
  <1> HIDE DEF p, x, new
  <1>6. /\ log' \in [Sessions -> Seq(Entries)] /\ log'[x] = new
        /\ \A s \in Sessions \ {x} : log'[s] = log[s]
    BY <1>1, <1>2, <1>5
  <1>7. SameTurns(turn, turn') /\ chat' \in ChatRecords
    BY <1>1 DEF SameTurns, Inv, Typed
  <1>8. Typed'
    BY <1>1, <1>3, <1>6 DEF Inv, Typed
  <1>9. Counted' /\ OneAwaited' /\ WaitersSend' /\ Pending' /\ Following'
    BY <1>1, <1>7, SameIsLater, ScreenSame DEF Inv
  <1>10. Owned'
    <2>1. LogOwned'
      BY <1>1, <1>2, <1>5, <1>6 DEF Inv, Owned, LogOwned
    <2>2. WorkOwned'
      <3>1. SentIn(turn, <<>>, x)
        BY DEF SentIn, TurnsIn, ToSet
      <3>2. p.sid = x /\ session[x].user \in Users /\ SentIn(turn, o.add, x)
            /\ (o.what = "turn" => o.turn \in Turns /\ turn[o.turn].sid = x)
        BY <1>3, <1>4
      <3>3. WorkOwned
        BY DEF Inv, Owned
      <3> QED BY <1>1, <1>3, <3>1, <3>2, <3>3 DEF WorkOwned
    <2>3. ChatOwned' /\ StoredOwned' /\ RequestsOwned' /\ TurnsOwned'
      BY <1>1 DEF Inv, Owned, ChatOwned, StoredOwned, RequestsOwned, TurnsOwned, Flying,
          NothingStored
    <2> QED BY <2>1, <2>2, <2>3 DEF Owned
  <1>11. FreshAwaited'
    <2>1. p.sid = o.sid
      BY <1>3 DEF x
    <2>2. \A q \in work' : \E v \in work : q.sid = v.sid
      BY <1>1, <2>1
    <2> QED BY <1>1, <1>7, <2>2, FreshLater
  <1>12. Kept'
    <2> SUFFICES ASSUME NEW s \in Sessions \ past.abandoned
                 PROVE  OneWorkAt(s)' /\ WorkInOrder(s)' /\ AnswersLogged(s)'
      BY <1>1 DEF Kept
    <2>1. OneWorkAt(s) /\ WorkInOrder(s) /\ AnswersLogged(s)
      BY DEF Inv, Kept
    <2>2. CASE s # x
      <3>1. log'[s] = log[s] /\ \A q \in work' : q.sid = s => q \in work
        BY <1>1, <1>3, <1>6, <2>2
      <3>2. OneWorkAt(s)'
        BY <2>1, <3>1 DEF OneWorkAt
      <3>3. WorkInOrder(s)'
        BY <1>1, <2>1, <3>1 DEF WorkInOrder, NoTurnsOf
      <3>4. AnswersLogged(s)'
        BY <1>1, <2>1, <3>1 DEF AnswersLogged, Flying
      <3> QED BY <3>2, <3>3, <3>4
    <2>3. CASE s = x
      <3>1. o.sid = s /\ log'[s] = new
        BY <1>6, <2>3 DEF x
      <3>2. \A q \in work' : q.sid = s => q = p /\ o.what = "turn"
        BY <1>1, <2>1, <3>1 DEF OneWorkAt
      <3>3. /\ o.read = log[s]
            /\ o.what = "sync" => NoTurnsOf(s)
            /\ o.what = "turn" => turn[o.turn].phase = "posted" /\ o.turn \in Answers(o.add)
        BY <1>1, <2>1, <3>1 DEF WorkInOrder
      <3>4. OneWorkAt(s)'
        BY <3>2 DEF OneWorkAt
      <3>5. WorkInOrder(s)'
        <4>1. p.what = o.what /\ p.turn = o.turn /\ p.stage = "answered" /\ p.add = o.add
          BY <1>3
        <4> QED BY <1>1, <1>5, <3>1, <3>2, <3>3, <4>1 DEF WorkInOrder
      <3>6. AnswersLogged(s)'
        <4>1. CASE o.what = "turn"
          <5>1. Answers(log[s]) \cup unlogged \subseteq Answers(log'[s]) \cup unlogged
            BY <1>5, <3>1, <3>3, <4>1
          <5>2. /\ chat.sid = s => Answers(chat.entries) \subseteq Answers(log'[s]) \cup unlogged
                /\ stored.sid = s => Answers(stored.entries) \subseteq Answers(log'[s]) \cup unlogged
                /\ \A t \in Turns : Flying(t) /\ turn[t].sid = s =>
                      Answers(turn[t].before) \subseteq Answers(log'[s]) \cup unlogged
            BY <2>1, <5>1 DEF AnswersLogged
          <5> QED BY <1>1, <5>2 DEF AnswersLogged, Flying
        <4>2. CASE o.what # "turn"
          <5>1. NoTurnsOf(s) /\ s # 0
            BY <1>2, <3>3, <4>2 DEF WorkRecords, Sessions
          <5>2. chat.sid = s => Answers(chat.entries) = {}
            BY <5>1, AnswersSent DEF Inv, Owned, ChatOwned
          <5>3. stored.sid = s => Answers(stored.entries) = {}
            <6>1. NothingStored.sid = 0
              BY DEF NothingStored
            <6> QED BY <5>1, <6>1, AnswersSent DEF Inv, Owned, StoredOwned
          <5> QED BY <1>1, <5>1, <5>2, <5>3 DEF AnswersLogged, NoTurnsOf
        <4> QED BY <4>1, <4>2
      <3> QED BY <3>4, <3>5, <3>6
    <2> QED BY <2>2, <2>3
  <1> QED BY <1>8, <1>9, <1>10, <1>11, <1>12 DEF Inv

LEMMA AppendFailsKeeps ==
    ASSUME Inv, NEW o \in work, AppendFails(o) PROVE Inv'
  <1> DEFINE p == [o EXCEPT !.stage = "answered", !.read = <<>>]
  <1>1. /\ o.what = "turn" /\ o.stage = "read" /\ unlogged' = unlogged \cup {o.turn}
        /\ work' = work \ {o} \/ work' = (work \ {o}) \cup {p}
        /\ UNCHANGED <<user, chat, requests, turn, stored, handoff, session, log, past>>
    BY DEF AppendFails, Ended
  <1>2. /\ o \in WorkRecords /\ o.sid \in Sessions /\ o.read \in Seq(Entries)
        /\ o.turn \in Turns /\ turn[o.turn].sid = o.sid
        /\ session[o.sid].user \in Users /\ SentIn(turn, o.add, o.sid)
    BY <1>1 DEF Inv, Typed, WorkRecords, Owned, WorkOwned
  <1>3. /\ p \in WorkRecords /\ p.what = o.what /\ p.sid = o.sid /\ p.turn = o.turn
        /\ p.stage = "answered" /\ p.read = <<>> /\ p.add = o.add
    <2>1. <<>> \in Seq(Entries)
      OBVIOUS
    <2> QED BY <1>2, <2>1 DEF WorkRecords
  <1> HIDE DEF p
  <1>4. SameTurns(turn, turn') /\ chat' \in ChatRecords
    BY <1>1 DEF SameTurns, Inv, Typed
  <1>5. Typed'
    BY <1>1, <1>2, <1>3 DEF Inv, Typed
  <1>6. Counted' /\ OneAwaited' /\ WaitersSend' /\ Pending' /\ Following'
    BY <1>1, <1>4, SameIsLater, ScreenSame DEF Inv
  <1>7. Owned'
    <2>1. WorkOwned'
      <3>1. SentIn(turn, <<>>, o.sid)
        BY DEF SentIn, TurnsIn, ToSet
      <3> QED BY <1>1, <1>2, <1>3, <3>1 DEF Inv, Owned, WorkOwned
    <2>2. ChatOwned' /\ StoredOwned' /\ RequestsOwned' /\ TurnsOwned' /\ LogOwned'
      BY <1>1 DEF Inv, Owned, ChatOwned, StoredOwned, RequestsOwned, TurnsOwned, LogOwned, Flying,
          NothingStored
    <2> QED BY <2>1, <2>2 DEF Owned
  <1>8. FreshAwaited'
    BY <1>1, <1>3, <1>4, FreshLater
  <1>9. Kept'
    <2> SUFFICES ASSUME NEW s \in Sessions \ past.abandoned
                 PROVE  OneWorkAt(s)' /\ WorkInOrder(s)' /\ AnswersLogged(s)'
      BY <1>1 DEF Kept
    <2>1. OneWorkAt(s) /\ WorkInOrder(s) /\ AnswersLogged(s)
      BY DEF Inv, Kept
    <2>2. OneWorkAt(s)'
      BY <1>1, <1>3, <2>1 DEF OneWorkAt
    <2>3. WorkInOrder(s)'
      BY <1>1, <1>3, <2>1 DEF WorkInOrder, NoTurnsOf
    <2>4. AnswersLogged(s)'
      BY <1>1, <2>1 DEF AnswersLogged, Flying
    <2> QED BY <2>2, <2>3, <2>4
  <1> QED BY <1>5, <1>6, <1>7, <1>8, <1>9 DEF Inv

LEMMA PostKeeps ==
    ASSUME Inv, NEW t \in Turns, Post(t) PROVE Inv'
  <1> DEFINE s == turn[t].sid
             o == [what |-> "turn", sid |-> s, turn |-> t, stage |-> "run",
                   read |-> <<>>, add |-> <<Asked(t), Answer(t)>>]
  <1>1. /\ turn[t].phase = "waiting" /\ turn' = [turn EXCEPT ![t].phase = "posted"]
        /\ work' = work \cup {o}
        /\ UNCHANGED <<user, chat, requests, stored, handoff, session, log, unlogged, past>>
    BY DEF Post
  <1>2. turn \in TurnFunctions /\ turn[t] \in TurnRecords
    BY DEF Inv, Typed, TurnFunctions
  <1>3. /\ turn' \in TurnFunctions /\ turn'[t].phase = "posted" /\ Flying(t)
        /\ \A u \in Turns : /\ turn'[u].sid = turn[u].sid /\ turn'[u].before = turn[u].before
                            /\ turn'[u].saves = turn[u].saves
                            /\ turn'[u].waiters = turn[u].waiters
                            /\ turn'[u].phase = "none" <=> turn[u].phase = "none"
                            /\ Flying(u)' <=> Flying(u)
        /\ \A u \in Turns \ {t} : turn'[u].phase = turn[u].phase
    <2> DEFINE q == [turn[t] EXCEPT !.phase = "posted"]
    <2>1. /\ q \in TurnRecords /\ q.phase = "posted" /\ q.sid = turn[t].sid
          /\ q.before = turn[t].before /\ q.saves = turn[t].saves /\ q.waiters = turn[t].waiters
      BY <1>2 DEF TurnRecords, Waiters
    <2>2. turn' = [turn EXCEPT ![t] = q]
      BY <1>1
    <2> HIDE DEF q
    <2>3. turn' \in TurnFunctions /\ turn'[t] = q /\ \A u \in Turns \ {t} : turn'[u] = turn[u]
      BY <1>2, <2>1, <2>2 DEF TurnFunctions
    <2> QED BY <1>1, <2>1, <2>3 DEF Flying
  <1>4. s \in Sessions /\ session[s].user \in Users
    BY <1>1, <1>2 DEF TurnRecords, Inv, Counted, Owned, TurnsOwned
  <1>5. /\ <<Asked(t), Answer(t)>> \in Seq(Entries) /\ TurnsIn(<<Asked(t), Answer(t)>>) = {t}
        /\ Answers(<<Asked(t), Answer(t)>>) = {t}
    <2>1. <<>> \in Seq(Entries)
      OBVIOUS
    <2> QED BY <2>1, AnsweredFacts
  <1>6. /\ o \in WorkRecords /\ o.what = "turn" /\ o.sid = s /\ o.turn = t /\ o.stage = "run"
        /\ o.read = <<>> /\ Answers(o.add) = {t} /\ TurnsIn(o.add) = {t}
    BY <1>4, <1>5 DEF WorkRecords
  <1> HIDE DEF s, o
  <1>7. Later
    BY <1>1, <1>3 DEF Later
  <1>8. chat' \in ChatRecords /\ NothingStored' = NothingStored
    BY <1>1 DEF Inv, Typed, NothingStored
  <1>9. Typed'
    BY <1>1, <1>3, <1>6 DEF Inv, Typed, TurnFunctions
  <1>10. Counted'
    <2>1. Created' = Created /\ Sent' = Sent
      BY <1>1, <1>3 DEF Created, Sent
    <2> QED BY <1>3, <2>1 DEF Inv, Counted
  <1>11. OneAwaited' /\ WaitersSend'
    BY <1>1, <1>3 DEF Inv, OneAwaited, WaitersSend, NoChat
  <1>12. Owned'
    <2>1. ChatOwned' /\ StoredOwned' /\ RequestsOwned' /\ LogOwned'
      BY <1>1, <1>7, <1>8, ChatOwnedLater, StoredOwnedLater, RequestsOwnedLater, LogOwnedLater
    <2>2. TurnsOwned'
      BY <1>3, <1>7, TurnsOwnedLater DEF Flying
    <2>3. WorkOwned'
      <3>1. SentIn(turn', o.read, s) /\ SentIn(turn', o.add, s)
        BY <1>3, <1>6 DEF SentIn, TurnsIn, ToSet, s
      <3>2. turn'[t].sid = s
        BY <1>3 DEF s
      <3>3. \A p \in work : p.sid \in Sessions
        BY DEF Inv, Typed, WorkRecords
      <3>4. \A p \in work : SentIn(turn', p.read, p.sid) /\ SentIn(turn', p.add, p.sid)
        BY <1>7, <3>3, SentLater DEF Inv, Owned, WorkOwned
      <3>5. ASSUME NEW p \in work
            PROVE  /\ session'[p.sid].user \in Users
                   /\ p.what = "turn" => p.turn \in Turns /\ turn'[p.turn].sid = p.sid
        BY <1>1, <1>3 DEF Inv, Owned, WorkOwned
      <3>6. session'[o.sid].user \in Users /\ (o.what = "turn" => o.turn \in Turns /\ turn'[o.turn].sid = o.sid)
        BY <1>1, <1>4, <1>6, <3>2
      <3>7. SentIn(turn', o.read, o.sid) /\ SentIn(turn', o.add, o.sid)
        BY <1>6, <3>1
      <3>8. \A p \in work' : p \in work \/ p = o
        BY <1>1
      <3> QED BY <3>4, <3>5, <3>6, <3>7, <3>8 DEF WorkOwned
    <2> QED BY <2>1, <2>2, <2>3 DEF Owned
  <1>13. Pending'
    <2>1. stored.pending # 0 => stored.pending \in Turns
      BY DEF Inv, Typed, StoredRecords
    <2> QED BY <1>1, <1>3, <2>1 DEF Inv, Pending
  <1>14. Following'
    BY <1>1, <1>3, <1>8 DEF Inv, Following
  <1>15. FreshAwaited'
    <2>1. \A r \in requests : NoTurnsOf(r.sid) => r.sid # s /\ NoTurnsOf(r.sid)'
      BY <1>1, <1>3 DEF NoTurnsOf, s
    <2> QED BY <1>1, <1>6, <2>1 DEF Inv, FreshAwaited
  <1>16. Kept'
    <2> SUFFICES ASSUME NEW x \in Sessions \ past.abandoned
                 PROVE  OneWorkAt(x)' /\ WorkInOrder(x)' /\ AnswersLogged(x)'
      BY <1>1 DEF Kept
    <2>1. OneWorkAt(x) /\ WorkInOrder(x) /\ AnswersLogged(x)
      BY DEF Inv, Kept
    <2>2. x = s => \A p \in work : p.sid # x
      <3>1. SUFFICES ASSUME x = s, NEW p \in work, p.sid = x PROVE FALSE
        OBVIOUS
      <3>2. p.what \in {"sync", "turn"} /\ turn[t].sid = x
        BY <3>1 DEF Inv, Typed, WorkRecords, s
      <3>3. p.what = "turn"
        BY <2>1, <3>1, <3>2 DEF WorkInOrder, NoTurnsOf
      <3>4. p.turn \in Turns /\ turn[p.turn].sid = x /\ turn[p.turn].phase = "posted"
        BY <2>1, <3>1, <3>3 DEF WorkInOrder, Inv, Owned, WorkOwned
      <3>5. p.turn = t
        BY <1>3, <3>2, <3>4 DEF Inv, Counted, Flying
      <3> QED BY <1>1, <3>4, <3>5
    <2>3. OneWorkAt(x)'
      BY <1>1, <1>6, <2>1, <2>2 DEF OneWorkAt
    <2>4. WorkInOrder(x)'
      <3>1. NoTurnsOf(x)' <=> NoTurnsOf(x)
        BY <1>3 DEF NoTurnsOf
      <3>2. \A p \in work : p.what = "turn" /\ p.sid = x =>
               (turn[p.turn].phase = "posted" => turn'[p.turn].phase = "posted")
        BY <1>3 DEF Inv, Owned, WorkOwned
      <3> QED BY <1>1, <1>3, <1>6, <2>1, <3>1, <3>2 DEF WorkInOrder
    <2>5. AnswersLogged(x)'
      BY <1>1, <1>3, <2>1 DEF AnswersLogged
    <2> QED BY <2>3, <2>4, <2>5
  <1> QED BY <1>9, <1>10, <1>11, <1>12, <1>13, <1>14, <1>15, <1>16 DEF Inv

-----------------------------------------------------------------------------
(* The ends of requests.                                                   *)

\* What is shown or stored of a session is known from before.
LEMMA KeptKnown ==
    ASSUME Inv, SameTurns(turn, turn'), log' = log, unlogged' = unlogged, work' = work,
           past.abandoned \subseteq past'.abandoned,
           \A s \in Sessions \ past'.abandoned :
              /\ chat'.sid = s => Answers(chat'.entries) \subseteq Answers(log[s]) \cup unlogged
              /\ stored'.sid = s => Answers(stored'.entries) \subseteq Answers(log[s]) \cup unlogged,
           \A s \in Sessions \ past'.abandoned, r \in requests :
              /\ r.what = "sync" /\ r.sid = s /\ r.mine /\ r.current
              /\ \E o \in work : o.what = "sync" /\ o.sid = s
              => r \in requests'
    PROVE  Kept'
  <1> SUFFICES ASSUME NEW s \in Sessions \ past'.abandoned
               PROVE  OneWorkAt(s)' /\ WorkInOrder(s)' /\ AnswersLogged(s)'
    BY DEF Kept
  <1>1. OneWorkAt(s) /\ WorkInOrder(s) /\ AnswersLogged(s)
    BY DEF Inv, Kept
  <1>2. OneWorkAt(s)'
    BY <1>1 DEF OneWorkAt
  <1>3. WorkInOrder(s)'
    <2>1. \A o \in work : o.what = "turn" => o.turn \in Turns
      BY DEF Inv, Owned, WorkOwned
    <2>2. ASSUME NEW o \in work, o.sid = s, o.what = "sync"
          PROVE  \E r \in requests' : r.what = "sync" /\ r.sid = s /\ r.mine /\ r.current
      BY <1>1, <2>2 DEF WorkInOrder
    <2> QED BY <1>1, <2>1, <2>2 DEF WorkInOrder, NoTurnsOf, SameTurns
  <1>4. AnswersLogged(s)'
    BY <1>1 DEF AnswersLogged, SameTurns, Flying
  <1> QED BY <1>2, <1>3, <1>4

\* A request ends that changes no conversation: it failed, or was stale.
LEMMA RequestEnds ==
    ASSUME Inv, NEW r \in requests, r.what # "sync", requests' = requests \ {r},
           UNCHANGED <<user, turn, stored, handoff, session, log, unlogged, work, past>>,
           chat' \in ChatRecords, chat'.mounted = chat.mounted, chat'.sending = chat.sending,
           ~chat.mounted => chat' = chat,
           \/ /\ chat'.status = chat.status /\ chat'.sid = chat.sid
              /\ chat'.entries = chat.entries /\ chat'.view = chat.view
              /\ chat'.persist = chat.persist /\ chat'.history = chat.history
           \/ /\ r.mine /\ r.current /\ chat'.history = chat.history
              /\ chat'.status = "error" /\ chat'.sid = 0
    PROVE  Inv'
  <1>1. CASE /\ chat'.status = chat.status /\ chat'.sid = chat.sid
             /\ chat'.entries = chat.entries /\ chat'.view = chat.view
             /\ chat'.persist = chat.persist /\ chat'.history = chat.history
    <2>1. SameTurns(turn, turn') /\ NothingStored' = NothingStored /\ NoChat' = NoChat
      BY DEF SameTurns, NothingStored, NoChat
    <2>2. Typed' /\ Counted'
      BY <2>1, SameIsLater DEF Inv, Typed
    <2>3. OneAwaited'
      BY <1>1, <2>1 DEF Inv, OneAwaited
    <2>4. WaitersSend' /\ Pending'
      BY <1>1 DEF Inv, WaitersSend, Pending, Flying
    <2>5. Following'
      BY <1>1, <2>1 DEF Inv, Following, Flying
    <2>6. Owned' /\ FreshAwaited'
      BY <1>1, <2>1, OwnedLater, FreshLater
    <2>7. Kept'
      BY <1>1, <2>1, KeptLater
    <2> QED BY <2>2, <2>3, <2>4, <2>5, <2>6, <2>7 DEF Inv
  <1>2. CASE /\ r.mine /\ r.current /\ chat'.history = chat.history
             /\ chat'.status = "error" /\ chat'.sid = 0
    <2>1. SameTurns(turn, turn') /\ NothingStored' = NothingStored /\ NoChat' = NoChat
      BY DEF SameTurns, NothingStored, NoChat
    <2>2. Typed' /\ Counted'
      BY <2>1, SameIsLater DEF Inv, Typed
    <2>3. chat.mounted /\ chat.status = "loading" /\ ~chat.sending /\ ~chat.history
      BY <1>2 DEF Inv, OneAwaited
    <2>4. \A q \in requests' : ~(q.mine /\ q.current)
      BY <1>2 DEF Inv, OneAwaited
    <2>5. OneAwaited'
      BY <1>2, <2>1, <2>3, <2>4 DEF Inv, OneAwaited
    <2>6. WaitersSend'
      BY <2>3 DEF Inv, WaitersSend, Flying
    <2>7. Pending'
      BY <1>2, <2>3 DEF Inv, Pending, Flying
    <2>8. Following'
      BY <1>2, <2>1, <2>3 DEF Inv, Following, Flying
    <2>9. Owned' /\ FreshAwaited'
      BY <1>2, <2>1, OwnedLater, FreshLater
    <2>10. Kept'
      <3>1. chat'.sid \notin Sessions
        BY <1>2 DEF Sessions
      <3> QED BY <2>1, <3>1, KeptLater
    <2> QED BY <2>2, <2>5, <2>6, <2>7, <2>8, <2>9, <2>10 DEF Inv
  <1> QED BY <1>1, <1>2

LEMMA FreedFacts ==
    ASSUME NEW c \in ChatRecords
    PROVE  /\ Freed(c) \in ChatRecords /\ Freed(c).mounted = c.mounted
           /\ Freed(c).sending = c.sending /\ Freed(c).status = c.status /\ Freed(c).sid = c.sid
           /\ Freed(c).entries = c.entries /\ Freed(c).view = c.view
           /\ Freed(c).persist = c.persist /\ Freed(c).history = c.history
  BY DEF Freed, ChatRecords

LEMMA FailureKeeps ==
    ASSUME Inv, NEW r \in requests,
           StaleSession(r) \/ SessionFails(r) \/ ConsultationFails(r) \/ StaleConsultation(r)
    PROVE  Inv'
  <1>1. chat \in ChatRecords /\ (r.mine => chat.mounted)
    BY DEF Inv, Typed, OneAwaited
  <1>2. CASE StaleSession(r)
    BY <1>1, <1>2, RequestEnds, FreedFacts DEF StaleSession
  <1>3. CASE StaleConsultation(r)
    BY <1>1, <1>3, RequestEnds DEF StaleConsultation
  <1>4. CASE SessionFails(r)
    <2> DEFINE c == [chat EXCEPT !.sid = 0, !.entries = <<Welcome>>, !.status = "error"]
    <2>1. /\ c \in ChatRecords /\ c.mounted = chat.mounted /\ c.sending = chat.sending
          /\ c.history = chat.history /\ c.status = "error" /\ c.sid = 0
      BY <1>1, WelcomeFacts DEF ChatRecords
    <2>2. /\ r.what # "sync" /\ requests' = requests \ {r}
          /\ UNCHANGED <<user, turn, stored, handoff, session, log, unlogged, work, past>>
          /\ chat' = IF ~r.mine THEN chat ELSE IF ~r.current THEN Freed(chat) ELSE Freed(c)
      BY <1>4 DEF SessionFails
    <2> HIDE DEF c
    <2> QED BY <1>1, <2>1, <2>2, RequestEnds, FreedFacts
  <1>5. CASE ConsultationFails(r)
    <2> DEFINE c == [chat EXCEPT !.loading = FALSE, !.status = "error", !.view = "none",
                                 !.sid = 0, !.entries = <<Welcome>>]
    <2>1. /\ c \in ChatRecords /\ c.mounted = chat.mounted /\ c.sending = chat.sending
          /\ c.history = chat.history /\ c.status = "error" /\ c.sid = 0
      BY <1>1, WelcomeFacts DEF ChatRecords
    <2>2. /\ r.what # "sync" /\ r.current /\ requests' = requests \ {r}
          /\ UNCHANGED <<user, turn, stored, handoff, session, log, unlogged, work, past>>
          /\ chat' = IF ~r.mine THEN chat ELSE c
      BY <1>5 DEF ConsultationFails
    <2> HIDE DEF c
    <2> QED BY <1>1, <2>1, <2>2, RequestEnds
  <1> QED BY <1>2, <1>3, <1>4, <1>5

\* A conversation takes the place of what is stored, when it may.
LEMMA StoredTaken ==
    ASSUME NEW st, NEW u \in Users, u = user, NEW s \in Sessions, NEW e \in Seq(Entries), e # <<>>,
           stored' = Saved(st, u, s, e, 0)
    PROVE  \/ /\ st = NothingStored \/ (st.user = u /\ st.sid = s)
              /\ stored'.user = u /\ stored'.sid = s /\ stored'.entries = e /\ stored'.pending = 0
              /\ stored' \in StoredRecords
           \/ st # NothingStored /\ ~(st.user = u /\ st.sid = s) /\ stored' = st
  <1> DEFINE w == [user |-> u, sid |-> s, entries |-> e, pending |-> 0]
  <1>1. /\ w \in StoredRecords /\ w.user = u /\ w.sid = s /\ w.entries = e /\ w.pending = 0
    BY DEF StoredRecords
  <1>2. stored' = IF CanWrite(st, u, s) THEN w ELSE st
    BY DEF Saved
  <1> HIDE DEF w
  <1> QED BY <1>1, <1>2 DEF CanWrite

LEMMA SessionStartsKeeps ==
    ASSUME Inv, NEW r \in requests, SessionStarts(r) PROVE Inv'
  <1> DEFINE g == <<Greeting(r.handoff)>>
             s == r.sid
             q == [r EXCEPT !.what = "sync"]
             o == [what |-> "sync", sid |-> s, turn |-> 0, stage |-> "run", read |-> <<>>, add |-> g]
             c == [chat EXCEPT !.sid = s, !.entries = g, !.view = "live", !.persist = TRUE]
  <1>1. /\ r.what = "created" /\ r.current
        /\ requests' = (requests \ {r}) \cup {q} /\ work' = work \cup {o}
        /\ handoff' \in {handoff, "none"}
        /\ UNCHANGED <<user, turn, session, log, unlogged>>
    BY DEF SessionStarts
  <1>2. /\ IF r.mine THEN chat' = c /\ stored' = Persisted(c, stored)
                     ELSE chat' = chat /\ stored' = stored
        /\ past' = IF r.mine THEN past ELSE [past EXCEPT !.abandoned = past.abandoned \cup {s}]
    BY DEF SessionStarts, Shows
  <1>3. /\ r \in RequestRecords /\ r.user \in Users /\ chat \in ChatRecords
        /\ s \in Sessions /\ session[s].user = r.user /\ r.handoff \in Kinds \cup {"none"}
    BY <1>1 DEF Inv, Typed, RequestRecords, Owned, RequestsOwned
  <1>4. /\ q \in RequestRecords /\ q.what = "sync" /\ q.sid = s /\ q.user = r.user
        /\ q.mine = r.mine /\ q.current = r.current
    BY <1>3 DEF RequestRecords
  <1>5. g \in Seq(Entries) /\ g # <<>> /\ TurnsIn(g) = {} /\ Answers(g) = {}
    BY <1>3, GreetingFacts
  <1> HIDE DEF g, q
  <1>6. /\ o \in WorkRecords /\ o.what = "sync" /\ o.sid = s /\ o.stage = "run"
        /\ o.read = <<>> /\ o.add = g
    <2>1. <<>> \in Seq(Entries)
      OBVIOUS
    <2> QED BY <1>3, <1>5, <2>1 DEF WorkRecords
  <1>7. /\ c \in ChatRecords /\ c.mounted = chat.mounted /\ c.status = chat.status
        /\ c.sending = chat.sending /\ c.history = chat.history /\ c.sid = s /\ c.entries = g
        /\ c.view = "live" /\ c.persist
    BY <1>3, <1>5 DEF ChatRecords
  <1> HIDE DEF o, c
  <1>8. r.mine => /\ chat.mounted /\ r.user = user /\ user \in Users /\ chat.status = "loading"
                  /\ ~chat.sending /\ ~chat.history
                  /\ \A p \in requests \ {r} : ~(p.mine /\ p.current)
    BY <1>1 DEF Inv, OneAwaited
  <1>9. stored' = stored
    BY <1>2, <1>7, <1>8 DEF Persisted
  <1>10. /\ past' \in [mounts : 0 .. MaxMounts, reloads : 0 .. MaxReloads,
                       abandoned : SUBSET Sessions, leaving : BOOLEAN, opened : BOOLEAN]
         /\ past'.abandoned = IF r.mine THEN past.abandoned ELSE past.abandoned \cup {s}
         /\ past'.opened = past.opened /\ past'.reloads = past.reloads
         /\ past'.leaving = past.leaving
    BY <1>2, <1>3 DEF Inv, Typed
  <1>11. SameTurns(turn, turn') /\ NothingStored' = NothingStored /\ NoChat' = NoChat
    BY <1>1 DEF SameTurns, NothingStored, NoChat
  <1>12. Typed'
    BY <1>1, <1>2, <1>4, <1>6, <1>7, <1>9, <1>10 DEF Inv, Typed
  <1>13. Counted' /\ Later
    BY <1>1, <1>11, SameIsLater DEF Inv
  <1>14. OneAwaited'
    <2>1. CASE r.mine
      <3>1. /\ chat' = c /\ user' = user /\ ~past'.leaving
            /\ \A p \in requests' : p = q \/ (p \in requests /\ ~(p.mine /\ p.current))
        BY <1>1, <1>2, <1>8, <1>10, <2>1 DEF Inv, OneAwaited
      <3> QED BY <1>4, <1>7, <1>8, <1>11, <2>1, <3>1 DEF Inv, OneAwaited
    <2>2. CASE ~r.mine
      <3>1. chat' = chat /\ user' = user /\ \A p \in requests' : p.mine => p \in requests
        BY <1>1, <1>2, <1>4, <2>2
      <3> QED BY <1>10, <1>11, <3>1 DEF Inv, OneAwaited
    <2> QED BY <2>1, <2>2
  <1>15. WaitersSend'
    BY <1>1, <1>2, <1>7, <1>8 DEF Inv, WaitersSend, Flying
  <1>16. Owned'
    <2>1. ChatOwned'
      <3>1. CASE r.mine
        BY <1>1, <1>2, <1>3, <1>5, <1>7, <1>8, <3>1 DEF ChatOwned, SentIn
      <3>2. CASE ~r.mine
        BY <1>1, <1>2, <3>2 DEF Inv, Owned, ChatOwned
      <3> QED BY <3>1, <3>2
    <2>2. StoredOwned' /\ LogOwned' /\ TurnsOwned'
      BY <1>1, <1>9 DEF Inv, Owned, StoredOwned, LogOwned, TurnsOwned, Flying, NothingStored
    <2>3. RequestsOwned'
      BY <1>1, <1>3, <1>4 DEF Inv, Owned, RequestsOwned
    <2>4. WorkOwned'
      <3>1. SentIn(turn, o.read, s) /\ SentIn(turn, o.add, s)
        BY <1>5, <1>6 DEF SentIn, TurnsIn, ToSet
      <3>2. session[o.sid].user \in Users /\ o.what # "turn"
        BY <1>3, <1>6
      <3>3. \A p \in work' : p \in work \/ p = o
        BY <1>1
      <3>4. WorkOwned /\ turn' = turn /\ session' = session
        BY <1>1 DEF Inv, Owned
      <3> QED BY <1>6, <3>1, <3>2, <3>3, <3>4 DEF WorkOwned
    <2> QED BY <2>1, <2>2, <2>3, <2>4 DEF Owned
  <1>17. Pending'
    BY <1>1, <1>2, <1>7, <1>8, <1>9, <1>10 DEF Inv, Pending, Flying
  <1>18. Following'
    <2>1. ~past.opened => \A p \in requests' : p.what # "open"
      BY <1>1, <1>4 DEF Inv, Following
    <2> QED BY <1>1, <1>2, <1>7, <1>8, <1>9, <1>10, <1>11, <2>1 DEF Inv, Following, Flying
  <1>19. FreshAwaited'
    <2>1. \A p \in requests' : p.what = "created" => p \in requests /\ p.sid # s
      BY <1>1, <1>4 DEF Inv, FreshAwaited
    <2>2. \A p \in work' : p \in work \/ p.sid = s
      BY <1>1, <1>6
    <2> QED BY <1>1, <2>1, <2>2 DEF Inv, FreshAwaited, NoTurnsOf
  <1>20. Kept'
    <2> SUFFICES ASSUME NEW x \in Sessions \ past'.abandoned
                 PROVE  OneWorkAt(x)' /\ WorkInOrder(x)' /\ AnswersLogged(x)'
      BY DEF Kept
    <2>1. OneWorkAt(x) /\ WorkInOrder(x) /\ AnswersLogged(x)
      BY <1>10 DEF Inv, Kept
    <2>2. CASE x = s
      <3>1. r.mine /\ chat' = c
        BY <1>2, <1>10, <2>2
      <3>2. NoTurnsOf(x) /\ \A p \in work : p.sid # x
        BY <1>1, <2>2, <3>1 DEF Inv, FreshAwaited
      <3>3. \A p \in work' : p.sid = x => p = o
        BY <1>1, <3>2
      <3>4. q \in requests' /\ q.what = "sync" /\ q.sid = x /\ q.mine /\ q.current
        BY <1>1, <1>4, <2>2, <3>1
      <3>5. OneWorkAt(x)'
        BY <3>3 DEF OneWorkAt
      <3>6. NoTurnsOf(x)'
        BY <1>1, <3>2 DEF NoTurnsOf
      <3>7. WorkInOrder(x)'
        BY <1>6, <3>3, <3>4, <3>6 DEF WorkInOrder
      <3>8. AnswersLogged(x)'
        BY <1>1, <1>5, <1>7, <1>9, <2>1, <3>1, <3>2 DEF AnswersLogged, NoTurnsOf
      <3> QED BY <3>5, <3>7, <3>8
    <2>3. CASE x # s
      <3>1. \A p \in work' : p.sid = x => p \in work
        BY <1>1, <1>6, <2>3
      <3>2. \A p \in requests : p.what = "sync" => p \in requests'
        BY <1>1
      <3>3. OneWorkAt(x)'
        BY <2>1, <3>1 DEF OneWorkAt
      <3>4. WorkInOrder(x)'
        <4>1. UNCHANGED <<turn, log, unlogged>> /\ (NoTurnsOf(x)' <=> NoTurnsOf(x))
          BY <1>1 DEF NoTurnsOf
        <4> QED BY <2>1, <3>1, <3>2, <4>1 DEF WorkInOrder
      <3>5. AnswersLogged(x)'
        BY <1>1, <1>2, <1>7, <1>9, <2>1, <2>3 DEF AnswersLogged, Flying
      <3> QED BY <3>3, <3>4, <3>5
    <2> QED BY <2>2, <2>3
  <1> QED BY <1>12, <1>13, <1>14, <1>15, <1>16, <1>17, <1>18, <1>19, <1>20 DEF Inv

LEMMA SessionReadyKeeps ==
    ASSUME Inv, NEW r \in requests, NEW givesUp \in BOOLEAN, SessionReady(r, givesUp) PROVE Inv'
  <1> DEFINE s == r.sid
             c == Freed([chat EXCEPT !.status = "ready"])
  <1>1. /\ r.what = "sync" /\ requests' = requests \ {r}
        /\ ~givesUp => \A o \in work : ~(o.what = "sync" /\ o.sid = s)
        /\ past' = IF givesUp THEN [past EXCEPT !.abandoned = past.abandoned \cup {s}] ELSE past
        /\ UNCHANGED <<user, turn, handoff, session, log, unlogged, work>>
    BY DEF SessionReady, SyncAwaited, Syncing
  <1>2. IF r.mine /\ r.current THEN chat' = c /\ stored' = Persisted(c, stored)
        ELSE chat' = (IF r.mine THEN Freed(chat) ELSE chat) /\ stored' = stored
    BY DEF SessionReady, Shows
  <1>3. chat \in ChatRecords /\ stored \in StoredRecords /\ s \in Sessions
    BY <1>1 DEF Inv, Typed, Owned, RequestsOwned
  <1>4. /\ c \in ChatRecords /\ c.mounted = chat.mounted /\ c.status = "ready"
        /\ c.sending = chat.sending /\ c.history = chat.history /\ c.sid = chat.sid
        /\ c.entries = chat.entries /\ c.view = chat.view /\ c.persist = chat.persist
    BY <1>3 DEF Freed, ChatRecords
  <1> HIDE DEF c
  <1>5. /\ past' \in [mounts : 0 .. MaxMounts, reloads : 0 .. MaxReloads,
                      abandoned : SUBSET Sessions, leaving : BOOLEAN, opened : BOOLEAN]
        /\ past'.abandoned = IF givesUp THEN past.abandoned \cup {s} ELSE past.abandoned
        /\ past'.opened = past.opened /\ past'.reloads = past.reloads
        /\ past'.leaving = past.leaving
    BY <1>1, <1>3 DEF Inv, Typed
  <1>6. SameTurns(turn, turn') /\ NothingStored' = NothingStored /\ NoChat' = NoChat
    BY <1>1 DEF SameTurns, NothingStored, NoChat
  <1>7. Counted' /\ Later
    BY <1>1, <1>6, SameIsLater DEF Inv
  <1>8. FreshAwaited'
    BY <1>1, <1>6, FreshLater
  <1>9. \A x \in Sessions \ past'.abandoned, q \in requests :
           /\ q.what = "sync" /\ q.sid = x /\ q.mine /\ q.current
           /\ \E o \in work : o.what = "sync" /\ o.sid = x
           => q \in requests'
    BY <1>1, <1>5
  <1>10. past.abandoned \subseteq past'.abandoned
    BY <1>5
  <1>11. CASE r.mine /\ r.current
    <2>1. /\ chat.mounted /\ chat.status = "loading" /\ ~chat.sending /\ ~chat.history
          /\ chat.view = "live" /\ chat.sid = s /\ chat.persist /\ user \in Users
          /\ \A q \in requests' : ~(q.mine /\ q.current)
      BY <1>1, <1>11 DEF Inv, OneAwaited
    <2>2. /\ session[s].user = user /\ chat.entries # <<>> /\ chat.entries \in Seq(Entries)
          /\ SentIn(turn, chat.entries, s)
      BY <1>3, <2>1 DEF Inv, Owned, ChatOwned, Sessions, ChatRecords
    <2>3. chat' = c /\ stored' = Saved(stored, user, s, chat.entries, 0)
      <3>1. s # 0
        BY <1>3 DEF Sessions
      <3> QED BY <1>2, <1>4, <1>11, <2>1, <3>1 DEF Persisted
    <2>4. \/ /\ stored = NothingStored \/ (stored.user = user /\ stored.sid = s)
             /\ stored'.user = user /\ stored'.sid = s /\ stored'.entries = chat.entries
             /\ stored'.pending = 0 /\ stored' \in StoredRecords
          \/ /\ stored # NothingStored /\ ~(stored.user = user /\ stored.sid = s)
             /\ stored' = stored
      BY <1>3, <2>1, <2>2, <2>3, StoredTaken
    <2>5. Typed'
      BY <1>1, <1>3, <1>4, <1>5, <2>3, <2>4 DEF Inv, Typed
    <2>6. OneAwaited'
      BY <1>1, <1>4, <1>5, <1>6, <2>1, <2>3 DEF Inv, OneAwaited
    <2>7. WaitersSend'
      BY <1>1, <1>4, <2>1, <2>3 DEF Inv, WaitersSend, Flying
    <2>8. Owned'
      <3>1. ChatOwned' /\ LogOwned' /\ TurnsOwned' /\ WorkOwned' /\ RequestsOwned'
        BY <1>1, <1>4, <2>3 DEF Inv, Owned, ChatOwned, LogOwned, TurnsOwned, WorkOwned,
            RequestsOwned, Flying
      <3>2. StoredOwned'
        BY <1>1, <1>3, <1>6, <2>1, <2>2, <2>4 DEF Inv, Owned, StoredOwned
      <3> QED BY <3>1, <3>2 DEF Owned
    <2>9. Pending'
      BY <1>1, <1>4, <1>5, <2>1, <2>3, <2>4 DEF Inv, Pending, Flying
    <2>10. Following'
      <3>1. SUFFICES ASSUME ~past.opened PROVE Following'
        BY <1>5 DEF Following
      <3>2. stored = NothingStored /\ ~past.leaving
        BY <2>1, <3>1 DEF Inv, Following, OneAwaited
      <3>3. /\ stored'.user = user /\ stored'.sid = s /\ stored'.entries = chat.entries
        BY <2>4, <3>2
      <3>4. NothingStored.pending = 0 /\ \A t \in Turns : t # 0
        BY DEF NothingStored, Turns
      <3>5. \A t \in Turns : ~(Flying(t) /\ turn[t].saves)
        BY <3>1, <3>2, <3>4 DEF Inv, Following
      <3>6. \A q \in requests' : q.what # "open"
        BY <1>1, <3>1 DEF Inv, Following
      <3> QED BY <1>1, <1>4, <1>5, <2>1, <2>3, <3>2, <3>3, <3>5, <3>6 DEF Following, Flying
    <2>11. Kept'
      <3>1. ASSUME NEW x \in Sessions \ past'.abandoned
            PROVE  /\ chat'.sid = x => Answers(chat'.entries) \subseteq Answers(log[x]) \cup unlogged
                   /\ stored'.sid = x => Answers(stored'.entries) \subseteq Answers(log[x]) \cup unlogged
        BY <1>4, <1>10, <2>1, <2>3, <2>4 DEF Inv, Kept, AnswersLogged
      <3> QED BY <1>1, <1>6, <1>9, <1>10, <3>1, KeptKnown
    <2> QED BY <1>7, <1>8, <2>5, <2>6, <2>7, <2>8, <2>9, <2>10, <2>11 DEF Inv
  <1>12. CASE ~(r.mine /\ r.current)
    <2>1. /\ chat' \in ChatRecords /\ chat'.mounted = chat.mounted /\ chat'.status = chat.status
          /\ chat'.sending = chat.sending /\ chat'.history = chat.history
          /\ chat'.sid = chat.sid /\ chat'.entries = chat.entries /\ chat'.view = chat.view
          /\ chat'.persist = chat.persist /\ stored' = stored
      BY <1>2, <1>3, <1>12, FreedFacts
    <2>2. ~chat.mounted => chat' = chat
      BY <1>2, <1>12 DEF Inv, OneAwaited
    <2>3. Typed'
      BY <1>1, <1>5, <2>1 DEF Inv, Typed
    <2>4. OneAwaited'
      BY <1>1, <1>5, <1>6, <2>1, <2>2 DEF Inv, OneAwaited
    <2>5. WaitersSend' /\ Pending' /\ Following'
      <3>1. WaitersSend'
        BY <1>1, <2>1 DEF Inv, WaitersSend, Flying
      <3>2. Pending'
        BY <1>1, <1>5, <2>1 DEF Inv, Pending, Flying
      <3>3. Following'
        BY <1>1, <1>5, <1>6, <2>1 DEF Inv, Following, Flying
      <3> QED BY <3>1, <3>2, <3>3
    <2>6. Owned'
      BY <1>1, <1>6, <2>1, OwnedLater
    <2>7. Kept'
      <3>1. \A q \in requests : q.what = "sync" /\ q.mine /\ q.current => q \in requests'
        BY <1>1, <1>12
      <3> QED BY <1>1, <1>6, <1>10, <2>1, <3>1, KeptLater
    <2> QED BY <1>7, <1>8, <2>3, <2>4, <2>5, <2>6, <2>7 DEF Inv
  <1> QED BY <1>11, <1>12

-----------------------------------------------------------------------------
(* The history of consultations.                                           *)

LEMMA TranscriptFacts ==
    ASSUME Inv, NEW s \in Sessions
    PROVE  /\ Transcript(s) \in Seq(Entries) /\ Transcript(s) # <<>>
           /\ SentIn(turn, Transcript(s), s) /\ Answers(Transcript(s)) \subseteq Answers(log[s]) \cup unlogged
  <1>1. log[s] \in Seq(Entries) /\ SentIn(turn, log[s], s)
    BY DEF Inv, Typed, Owned, LogOwned
  <1> QED BY <1>1, WelcomeFacts DEF Transcript, SentIn

\* Turns whose waiters went stale, or that save no more, show nothing new.
LEMMA StaleKeeps ==
    ASSUME Inv, ~chat.sending, turn' = StaleResumes(turn)
    PROVE  /\ turn' \in TurnFunctions /\ SameTurns(turn, turn')
           /\ \A t \in Turns : turn'[t].saves = turn[t].saves
           /\ \A t \in Turns : \A w \in turn'[t].waiters :
                 Flying(t) /\ ~(w.mine /\ (w.current \/ ~w.resume))
  <1>1. turn \in TurnFunctions
    BY DEF Inv, Typed, TurnFunctions
  <1>2. /\ turn' \in TurnFunctions /\ SameTurns(turn, turn')
        /\ \A t \in Turns : turn'[t].saves = turn[t].saves
        /\ \A t \in Turns : \A w \in turn'[t].waiters : \E v \in turn[t].waiters :
              /\ w.mine = v.mine /\ w.resume = v.resume
              /\ w.current = (v.current /\ ~(v.mine /\ v.resume))
    BY <1>1, StaleResumesFacts
  <1>3. ASSUME NEW t \in Turns, NEW w \in turn'[t].waiters
        PROVE  Flying(t) /\ ~(w.mine /\ (w.current \/ ~w.resume))
    <2>1. PICK v \in turn[t].waiters :
             /\ w.mine = v.mine /\ w.resume = v.resume
             /\ w.current = (v.current /\ ~(v.mine /\ v.resume))
      BY <1>2
    <2>2. Flying(t) /\ ~(v.mine /\ (v.current \/ ~v.resume))
      BY DEF Inv, WaitersSend
    <2> QED BY <2>1, <2>2
  <1> QED BY <1>2, <1>3

\* Requests that went stale are not awaited.
LEMMA StaleRequests ==
    ASSUME Inv, user \in Users
    PROVE  /\ Stale(requests) \subseteq RequestRecords
           /\ \A q \in Stale(requests) :
                 /\ ~(q.mine /\ q.current)
                 /\ q.mine => chat.mounted /\ q.user = user
                 /\ ~past.opened => q.what # "open"
                 /\ \E r \in requests : q.what = r.what /\ q.sid = r.sid /\ q.user = r.user
           /\ \A p, q \in Stale(requests) :
                 p.what = "created" /\ q.what = "created" /\ p.sid = q.sid => p = q
  <1>1. requests \subseteq RequestRecords
    BY DEF Inv, Typed
  <1>2. /\ Stale(requests) \subseteq RequestRecords
        /\ \A q \in Stale(requests) : \E r \in requests :
              /\ q.what = r.what /\ q.user = r.user /\ q.mine = r.mine
              /\ q.handoff = r.handoff /\ q.sid = r.sid
              /\ q.current = (r.current /\ ~r.mine)
    BY <1>1, StaleFacts
  <1>3. \A q \in Stale(requests) :
           /\ ~(q.mine /\ q.current)
           /\ q.mine => chat.mounted /\ q.user = user
           /\ ~past.opened => q.what # "open"
           /\ \E r \in requests : q.what = r.what /\ q.sid = r.sid /\ q.user = r.user
    <2>1. /\ \A r \in requests : r.mine => chat.mounted /\ r.user = user
          /\ \A r \in requests : ~past.opened => r.what # "open"
      BY DEF Inv, OneAwaited, Following
    <2>2. SUFFICES ASSUME NEW q \in Stale(requests)
                   PROVE  /\ ~(q.mine /\ q.current)
                          /\ q.mine => chat.mounted /\ q.user = user
                          /\ ~past.opened => q.what # "open"
                          /\ \E r \in requests :
                                q.what = r.what /\ q.sid = r.sid /\ q.user = r.user
      OBVIOUS
    <2>3. PICK r \in requests :
             /\ q.what = r.what /\ q.user = r.user /\ q.mine = r.mine
             /\ q.sid = r.sid /\ q.current = (r.current /\ ~r.mine)
      BY <1>2
    <2> QED BY <2>1, <2>3
  <1>4. ASSUME NEW p \in Stale(requests), NEW q \in Stale(requests),
               p.what = "created", q.what = "created", p.sid = q.sid
        PROVE  p = q
    <2>1. PICK r \in requests : p = [r EXCEPT !.current = r.current /\ ~r.mine]
      BY DEF Stale
    <2>2. PICK v \in requests : q = [v EXCEPT !.current = v.current /\ ~v.mine]
      BY DEF Stale
    <2>3. r.what = "created" /\ v.what = "created" /\ r.sid = v.sid
      BY <1>1, <1>4, <2>1, <2>2 DEF RequestRecords
    <2> QED BY <2>1, <2>2, <2>3 DEF Inv, FreshAwaited
  <1> QED BY <1>2, <1>3, <1>4

LEMMA OpenConsultationKeeps ==
    ASSUME Inv, NEW s \in Sessions, OpenConsultation(s) PROVE Inv'
  <1> DEFINE q == [Connecting("none") EXCEPT !.what = "open", !.sid = s]
  <1>1. /\ chat.history /\ session[s].user = user
        /\ requests' = Stale(requests) \cup {q} /\ turn' = StaleResumes(turn)
        /\ chat' = [chat EXCEPT !.loading = TRUE, !.history = FALSE, !.status = "loading"]
        /\ past' = [past EXCEPT !.opened = TRUE]
        /\ UNCHANGED <<user, stored, handoff, session, log, unlogged, work>>
    BY DEF OpenConsultation, Listed
  <1>2. /\ chat.mounted /\ chat.status = "ready" /\ ~chat.sending /\ user \in Users /\ ~past.leaving
        /\ \A r \in requests : ~(r.mine /\ r.current)
    BY <1>1 DEF Inv, OneAwaited, NoChat
  <1>3. /\ q \in RequestRecords /\ q.what = "open" /\ q.mine /\ q.current /\ q.sid = s
        /\ q.user = user
    BY <1>2 DEF RequestRecords, Connecting
  <1> HIDE DEF q
  <1>4. chat \in ChatRecords
    BY DEF Inv, Typed
  <1>5. /\ chat' \in ChatRecords /\ chat'.status = "loading" /\ chat'.history = FALSE
        /\ chat'.mounted = chat.mounted /\ chat'.sending = chat.sending /\ chat'.sid = chat.sid
        /\ chat'.entries = chat.entries
    BY <1>1, <1>4 DEF ChatRecords
  <1>6. /\ turn' \in TurnFunctions /\ SameTurns(turn, turn')
        /\ \A t \in Turns : turn'[t].saves = turn[t].saves
        /\ \A t \in Turns : \A w \in turn'[t].waiters :
              Flying(t) /\ ~(w.mine /\ (w.current \/ ~w.resume))
    BY <1>1, <1>2, StaleKeeps
  <1>7. /\ Stale(requests) \subseteq RequestRecords
        /\ \A p \in Stale(requests) :
              /\ ~(p.mine /\ p.current) /\ (p.mine => p.user = user)
              /\ \E r \in requests : p.what = r.what /\ p.sid = r.sid /\ p.user = r.user
        /\ \A p, v \in Stale(requests) :
              p.what = "created" /\ v.what = "created" /\ p.sid = v.sid => p = v
    BY <1>2, StaleRequests
  <1>8. /\ past' \in [mounts : 0 .. MaxMounts, reloads : 0 .. MaxReloads,
                      abandoned : SUBSET Sessions, leaving : BOOLEAN, opened : BOOLEAN]
        /\ past'.abandoned = past.abandoned /\ past'.opened = TRUE /\ past'.reloads = past.reloads
        /\ past'.leaving = past.leaving
    BY <1>1 DEF Inv, Typed
  <1>9. Counted' /\ Later
    BY <1>1, <1>6, SameIsLater DEF Inv
  <1>10. Typed'
    BY <1>1, <1>3, <1>5, <1>6, <1>7, <1>8 DEF Inv, Typed, TurnFunctions
  <1>11. OneAwaited'
    BY <1>1, <1>2, <1>3, <1>5, <1>7, <1>8 DEF OneAwaited
  <1>12. WaitersSend'
    BY <1>6 DEF WaitersSend, Flying, SameTurns
  <1>13. Owned'
    <2>1. ChatOwned' /\ StoredOwned' /\ LogOwned' /\ WorkOwned'
      BY <1>1, <1>5, <1>9, ChatOwnedLater, StoredOwnedLater, LogOwnedLater, WorkOwnedLater
    <2>2. TurnsOwned'
      BY <1>6, <1>9, TurnsOwnedLater DEF SameTurns, Flying
    <2>3. RequestsOwned'
      BY <1>1, <1>3, <1>7 DEF Inv, Owned, RequestsOwned
    <2> QED BY <2>1, <2>2, <2>3 DEF Owned
  <1>14. Pending'
    <2>1. stored.pending # 0 => stored.pending \in Turns
      BY DEF Inv, Typed, StoredRecords
    <2>2. \A t \in Turns : Flying(t)' <=> Flying(t)
      BY <1>6 DEF SameTurns, Flying
    <2> QED BY <1>1, <1>2, <1>5, <1>6, <1>8, <2>1, <2>2 DEF Inv, Pending, SameTurns
  <1>15. Following'
    BY <1>8 DEF Following
  <1>16. FreshAwaited'
    BY <1>1, <1>3, <1>7 DEF FreshAwaited
  <1>17. Kept'
    BY <1>1, <1>2, <1>5, <1>6, <1>8, KeptLater
  <1> QED BY <1>9, <1>10, <1>11, <1>12, <1>13, <1>14, <1>15, <1>16, <1>17 DEF Inv

\* A consultation that is not resumable: what is stored is forgotten.
LEMMA ForgottenKeeps ==
    ASSUME Inv, NEW r \in requests, r.what = "open", requests' = requests \ {r},
           NEW a \in BOOLEAN, session' = [session EXCEPT ![r.sid].alive = a],
           UNCHANGED <<user, handoff, log, unlogged, work, past>>,
           stored' = NothingStored, turn' = ClearedTurns(turn),
           chat' \in ChatRecords,
           \/ chat' = chat
           \/ /\ r.mine /\ r.current
              /\ chat'.mounted = chat.mounted /\ chat'.sending = chat.sending
              /\ chat'.history = chat.history /\ chat'.status = "ready" /\ chat'.sid = 0
    PROVE  Inv'
  <1>1. /\ r.sid \in Sessions /\ turn \in TurnFunctions
        /\ session \in [Sessions -> [user : Users \cup {Nobody}, alive : BOOLEAN]]
    BY DEF Inv, Typed, TurnFunctions, Owned, RequestsOwned
  <1>2. /\ session' \in [Sessions -> [user : Users \cup {Nobody}, alive : BOOLEAN]]
        /\ \A s \in Sessions : session'[s].user = session[s].user
    BY <1>1
  <1>3. /\ turn' \in TurnFunctions /\ SameTurns(turn, turn')
        /\ \A t \in Turns : ~turn'[t].saves /\ turn'[t].waiters = turn[t].waiters
    BY <1>1, ClearedFacts
  <1>4. NothingStored' = NothingStored /\ NoChat' = NoChat /\ NothingStored.pending = 0
    BY DEF NothingStored, NoChat
  <1>5. Counted' /\ Later
    BY <1>2, <1>3, SameIsLater DEF Inv
  <1>6. Typed'
    BY <1>2, <1>3, EmptyTyped DEF Inv, Typed, TurnFunctions
  <1>7. chat' # chat => /\ chat.mounted /\ ~chat.sending /\ ~chat.history
                        /\ \A q \in requests' : ~(q.mine /\ q.current)
    BY DEF Inv, OneAwaited
  <1>8. OneAwaited'
    BY <1>4, <1>7 DEF Inv, OneAwaited
  <1>9. WaitersSend'
    BY <1>3, <1>7 DEF Inv, WaitersSend, Flying, SameTurns
  <1>10. Owned'
    <2>1. ChatOwned' /\ StoredOwned' /\ RequestsOwned' /\ LogOwned' /\ WorkOwned'
      BY <1>5, ChatOwnedLater, StoredOwnedLater, RequestsOwnedLater, LogOwnedLater, WorkOwnedLater
    <2>2. TurnsOwned'
      BY <1>3, <1>5, TurnsOwnedLater DEF SameTurns, Flying
    <2> QED BY <2>1, <2>2 DEF Owned
  <1>11. Pending'
    BY <1>4 DEF Pending
  <1>12. Following'
    <2>1. ~past.opened => \A q \in requests : q.what # "open"
      BY DEF Inv, Following
    <2> QED BY <1>3, <1>4, <2>1 DEF Following
  <1>13. FreshAwaited'
    BY <1>3, FreshLater
  <1>14. Kept'
    <2>1. chat'.sid \notin Sessions \/ (chat'.sid = chat.sid /\ chat'.entries = chat.entries)
      BY DEF Sessions
    <2> QED BY <1>3, <2>1, KeptLater
  <1> QED BY <1>5, <1>6, <1>8, <1>9, <1>10, <1>11, <1>12, <1>13, <1>14 DEF Inv

\* A consultation that is resumable: it takes the place of what is stored.
LEMMA ReopenedKeeps ==
    ASSUME Inv, NEW r \in requests, r.what = "open", requests' = requests \ {r},
           NEW a \in BOOLEAN, session' = [session EXCEPT ![r.sid].alive = a],
           UNCHANGED <<user, turn, handoff, log, unlogged, work, past>>,
           stored' = Saved(stored, r.user, r.sid, Transcript(r.sid), 0),
           chat' \in ChatRecords,
           \/ chat' = chat
           \/ /\ r.mine /\ r.current
              /\ chat'.mounted = chat.mounted /\ chat'.sending = chat.sending
              /\ chat'.history = chat.history /\ chat'.status = "ready" /\ chat'.sid = r.sid
              /\ chat'.entries = Transcript(r.sid)
    PROVE  Inv'
  <1> DEFINE s == r.sid
             e == Transcript(s)
  <1>1. /\ s \in Sessions /\ session[s].user = r.user /\ r.user \in Users
        /\ session \in [Sessions -> [user : Users \cup {Nobody}, alive : BOOLEAN]]
        /\ stored \in StoredRecords
    BY DEF Inv, Typed, Owned, RequestsOwned, RequestRecords
  <1>2. /\ session' \in [Sessions -> [user : Users \cup {Nobody}, alive : BOOLEAN]]
        /\ \A x \in Sessions : session'[x].user = session[x].user
    BY <1>1
  <1>3. e \in Seq(Entries) /\ e # <<>> /\ SentIn(turn, e, s) /\ Answers(e) \subseteq Answers(log[s]) \cup unlogged
    BY <1>1, TranscriptFacts
  <1>4. SameTurns(turn, turn') /\ NothingStored' = NothingStored /\ NoChat' = NoChat
    BY DEF SameTurns, NothingStored, NoChat
  <1> HIDE DEF e
  <1>5. \/ /\ user = r.user
           /\ stored = NothingStored \/ (stored.user = r.user /\ stored.sid = s)
           /\ stored'.user = r.user /\ stored'.sid = s /\ stored'.entries = e /\ stored'.pending = 0
           /\ stored' \in StoredRecords
        \/ /\ user = r.user => stored # NothingStored /\ ~(stored.user = r.user /\ stored.sid = s)
           /\ stored' = stored
    <2>1. stored' = Saved(stored, r.user, s, e, 0)
      BY DEF e
    <2>2. CASE user = r.user
      BY <1>1, <1>3, <2>1, <2>2, StoredTaken, ZenonT(60)
    <2>3. CASE user # r.user
      BY <2>1, <2>3 DEF Saved, CanWrite
    <2> QED BY <2>2, <2>3
  <1>6. Counted' /\ Later
    BY <1>2, <1>4, SameIsLater DEF Inv
  <1>7. Typed'
    BY <1>1, <1>2, <1>5 DEF Inv, Typed
  <1>8. chat' # chat => /\ chat.mounted /\ ~chat.sending /\ ~chat.history /\ r.user = user
                        /\ \A q \in requests' : ~(q.mine /\ q.current)
    BY DEF Inv, OneAwaited
  <1>9. OneAwaited'
    BY <1>4, <1>8 DEF Inv, OneAwaited
  <1>10. WaitersSend'
    BY <1>8 DEF Inv, WaitersSend, Flying
  <1>11. Owned'
    <2>1. ChatOwned'
      <3>1. CASE chat' = chat
        BY <1>6, <3>1, ChatOwnedLater
      <3>2. CASE chat' # chat
        BY <1>1, <1>2, <1>3, <1>8, <3>2 DEF ChatOwned, e
      <3> QED BY <3>1, <3>2
    <2>2. StoredOwned'
      <3>1. CASE stored' = stored
        BY <1>6, <3>1, StoredOwnedLater
      <3>2. CASE stored' # stored
        BY <1>1, <1>2, <1>3, <1>4, <1>5, <3>2 DEF StoredOwned
      <3> QED BY <3>1, <3>2
    <2>3. RequestsOwned' /\ LogOwned' /\ WorkOwned'
      BY <1>6, RequestsOwnedLater, LogOwnedLater, WorkOwnedLater
    <2>4. TurnsOwned'
      BY <1>4, <1>6, TurnsOwnedLater DEF SameTurns, Flying
    <2> QED BY <2>1, <2>2, <2>3, <2>4 DEF Owned
  <1>12. Pending'
    <2>1. SUFFICES ASSUME stored'.pending # 0 PROVE Pending'
      BY DEF Pending
    <2>2. stored' = stored /\ Pending
      BY <1>5, <2>1 DEF Inv
    <2>3. chat' # chat => stored.sid # chat'.sid
      <3>1. SUFFICES ASSUME chat' # chat PROVE stored.sid # chat'.sid
        OBVIOUS
      <3>2. stored.user = user /\ r.user = user /\ chat'.sid = s
        BY <1>8, <2>1, <2>2, <3>1 DEF Pending
      <3> QED BY <1>5, <2>1, <2>2, <3>2
    <2>4. chat'.mounted = chat.mounted
      OBVIOUS
    <2> QED BY <2>1, <2>2, <2>3, <2>4 DEF Pending, Flying
  <1>13. Following'
    <2>1. ~past.opened => \A q \in requests : q.what # "open"
      BY DEF Inv, Following
    <2> QED BY <2>1 DEF Following
  <1>14. FreshAwaited'
    BY <1>4, FreshLater
  <1>15. Kept'
    <2>1. ASSUME NEW x \in Sessions \ past'.abandoned
          PROVE  /\ chat'.sid = x => Answers(chat'.entries) \subseteq Answers(log[x]) \cup unlogged
                 /\ stored'.sid = x => Answers(stored'.entries) \subseteq Answers(log[x]) \cup unlogged
      <3>1. AnswersLogged(x)
        BY DEF Inv, Kept
      <3>2. chat'.sid = x => Answers(chat'.entries) \subseteq Answers(log[x]) \cup unlogged
        BY <1>3, <3>1 DEF AnswersLogged, e
      <3>3. stored'.sid = x => Answers(stored'.entries) \subseteq Answers(log[x]) \cup unlogged
        BY <1>3, <1>5, <3>1 DEF AnswersLogged
      <3> QED BY <3>2, <3>3
    <2> QED BY <1>4, <2>1, KeptKnown
  <1> QED BY <1>6, <1>7, <1>9, <1>10, <1>11, <1>12, <1>13, <1>14, <1>15 DEF Inv

LEMMA OpensKeeps ==
    ASSUME Inv, NEW r \in requests, ConsultationOpens(r) PROVE Inv'
  <1> DEFINE opened == [chat EXCEPT !.loading = FALSE, !.status = "ready",
                                    !.entries = Transcript(r.sid)]
             live == [opened EXCEPT !.view = "live", !.sid = r.sid, !.persist = TRUE]
             read == [opened EXCEPT !.view = "readonly", !.sid = 0, !.persist = FALSE]
  <1>1. /\ r.what = "open" /\ r.mine /\ r.current /\ requests' = requests \ {r}
        /\ UNCHANGED <<user, handoff, log, unlogged, work, past>>
    BY DEF ConsultationOpens
  <1>2. PICK a \in BOOLEAN :
           /\ session' = [session EXCEPT ![r.sid].alive = a]
           /\ \/ /\ chat' = live /\ UNCHANGED turn
                 /\ stored' = Persisted(live, Saved(stored, user, r.sid, Transcript(r.sid), 0))
              \/ chat' = read /\ stored' = NothingStored /\ turn' = ClearedTurns(turn)
    BY DEF ConsultationOpens, Resumable, Looked, Shows
  <1>3. /\ chat \in ChatRecords /\ r.sid \in Sessions /\ r.user = user /\ ~chat.sending
        /\ Transcript(r.sid) \in Seq(Entries) /\ Transcript(r.sid) # <<>>
    BY <1>1, TranscriptFacts DEF Inv, Typed, OneAwaited, Owned, RequestsOwned
  <1>4. /\ opened \in ChatRecords /\ opened.mounted = chat.mounted /\ opened.sending = chat.sending
        /\ opened.history = chat.history /\ opened.status = "ready"
        /\ opened.entries = Transcript(r.sid)
    BY <1>3 DEF ChatRecords
  <1> HIDE DEF opened
  <1>5. /\ live \in ChatRecords /\ live.mounted = chat.mounted /\ live.sending = chat.sending
        /\ live.history = chat.history /\ live.status = "ready" /\ live.sid = r.sid
        /\ live.entries = Transcript(r.sid) /\ live.persist = TRUE
    BY <1>3, <1>4 DEF ChatRecords
  <1>6. /\ read \in ChatRecords /\ read.mounted = chat.mounted /\ read.sending = chat.sending
        /\ read.history = chat.history /\ read.status = "ready" /\ read.sid = 0
    BY <1>3, <1>4 DEF ChatRecords
  <1> HIDE DEF live, read
  <1>7. CASE chat' = live /\ UNCHANGED turn
             /\ stored' = Persisted(live, Saved(stored, user, r.sid, Transcript(r.sid), 0))
    <2> DEFINE w == Saved(stored, user, r.sid, Transcript(r.sid), 0)
    <2>1. Persisted(live, w) = Saved(w, user, r.sid, Transcript(r.sid), 0)
      <3>1. r.sid # 0
        BY <1>3 DEF Sessions
      <3> QED BY <1>3, <1>5, <3>1 DEF Persisted
    <2>2. Saved(w, user, r.sid, Transcript(r.sid), 0) = w
      BY DEF Saved
    <2>3. stored' = Saved(stored, r.user, r.sid, Transcript(r.sid), 0)
      BY <1>3, <1>7, <2>1, <2>2
    <2> QED BY <1>1, <1>2, <1>5, <1>7, <2>3, ReopenedKeeps
  <1>8. CASE chat' = read /\ stored' = NothingStored /\ turn' = ClearedTurns(turn)
    BY <1>1, <1>2, <1>6, <1>8, ForgottenKeeps
  <1> QED BY <1>2, <1>7, <1>8

LEMMA OpensUnseenKeeps ==
    ASSUME Inv, NEW r \in requests, ConsultationOpensUnseen(r) PROVE Inv'
  <1>1. /\ r.what = "open" /\ requests' = requests \ {r} /\ chat' = chat /\ chat' \in ChatRecords
        /\ UNCHANGED <<user, handoff, log, unlogged, work, past>>
    BY DEF ConsultationOpensUnseen, Inv, Typed
  <1>2. PICK a \in BOOLEAN :
           /\ session' = [session EXCEPT ![r.sid].alive = a]
           /\ \/ /\ stored' = Saved(stored, r.user, r.sid, Transcript(r.sid), 0)
                 /\ UNCHANGED turn
              \/ stored' = NothingStored /\ turn' = ClearedTurns(turn)
    BY DEF ConsultationOpensUnseen, Resumable, Looked
  <1>3. CASE stored' = Saved(stored, r.user, r.sid, Transcript(r.sid), 0) /\ UNCHANGED turn
    BY <1>1, <1>2, <1>3, ReopenedKeeps
  <1>4. CASE stored' = NothingStored /\ turn' = ClearedTurns(turn)
    BY <1>1, <1>2, <1>4, ForgottenKeeps
  <1> QED BY <1>2, <1>3, <1>4

-----------------------------------------------------------------------------
(* Sending.                                                                *)

LEMMA SendJoins ==
    ASSUME Inv, chat.mounted, chat.status = "ready", ~chat.sending, ~chat.history,
           chat.sid \in Sessions,
           UNCHANGED <<user, requests, handoff, session, log, unlogged, work, past, stored>>,
           chat' = [chat EXCEPT !.sending = TRUE], turn' = Joined(turn, InFlight(chat.sid), Sender)
    PROVE  Inv'
  <1>1. chat \in ChatRecords /\ turn \in TurnFunctions
    BY DEF Inv, Typed, TurnFunctions
  <1>2. /\ chat' \in ChatRecords /\ chat'.mounted = chat.mounted /\ chat'.status = chat.status
        /\ chat'.sid = chat.sid /\ chat'.entries = chat.entries /\ chat'.history = chat.history
        /\ chat'.view = chat.view /\ chat'.persist = chat.persist /\ chat'.sending = TRUE
    BY <1>1 DEF ChatRecords
  <1>3. /\ turn' \in TurnFunctions /\ SameTurns(turn, turn')
        /\ \A t \in Turns : /\ turn'[t].saves = turn[t].saves
                            /\ turn'[t].waiters = IF t \in InFlight(chat.sid)
                                  THEN turn[t].waiters \cup {Sender} ELSE turn[t].waiters
    BY <1>1, JoinedFacts, TheWaiters
  <1>4. NothingStored' = NothingStored /\ NoChat' = NoChat
    BY DEF NothingStored, NoChat
  <1>5. \A t \in Turns : (Flying(t)' <=> Flying(t)) /\ turn'[t].sid = turn[t].sid
    BY <1>3 DEF SameTurns, Flying
  <1>6. Typed'
    BY <1>2, <1>3 DEF Inv, Typed, TurnFunctions
  <1>7. Counted' /\ Later
    BY <1>3, SameIsLater DEF Inv
  <1>8. OneAwaited'
    <2>1. chat.sid # 0
      BY DEF Sessions
    <2> QED BY <1>2, <2>1 DEF Inv, OneAwaited
  <1>9. WaitersSend'
    <2>1. SUFFICES ASSUME NEW t \in Turns, NEW w \in turn'[t].waiters
                   PROVE  /\ Flying(t)
                          /\ w.mine /\ (w.current \/ ~w.resume) => chat.sid = turn[t].sid
      BY <1>2, <1>5 DEF WaitersSend
    <2>2. CASE w \in turn[t].waiters
      BY <2>2 DEF Inv, WaitersSend
    <2>3. CASE t \in InFlight(chat.sid)
      BY <2>3 DEF InFlight, Flying
    <2> QED BY <1>3, <2>2, <2>3
  <1>10. Owned'
    BY <1>2, <1>3, OwnedLater
  <1>11. Pending'
    <2>1. stored.pending # 0 => stored.pending \in Turns
      BY DEF Inv, Typed, StoredRecords
    <2> QED BY <1>2, <1>3, <1>5, <2>1 DEF Inv, Pending
  <1>12. Following'
    <2>1. SUFFICES ASSUME ~past.opened PROVE Following'
      BY DEF Following
    <2>2. stored # NothingStored =>
             /\ stored.user = user /\ ~past.leaving /\ chat.sid = stored.sid
      BY <2>1 DEF Inv, Following
    <2>3. \A t \in Turns : Flying(t)' /\ turn'[t].saves =>
             /\ stored.pending = t /\ stored.sid = turn'[t].sid
             /\ Answer(t) \notin ToSet(stored.entries)
      BY <1>3, <1>5, <2>1 DEF Inv, Following
    <2>4. \A r \in requests' : r.what # "open"
      BY <2>1 DEF Inv, Following
    <2> QED BY <1>2, <1>4, <2>2, <2>3, <2>4 DEF Following
  <1>13. FreshAwaited' /\ Kept'
    BY <1>2, <1>3, FreshLater, KeptLater
  <1> QED BY <1>6, <1>7, <1>8, <1>9, <1>10, <1>11, <1>12, <1>13 DEF Inv

LEMMA SendsNew ==
    ASSUME Inv, chat.mounted, chat.status = "ready", ~chat.sending, ~chat.history,
           chat.sid \in Sessions, user \in Users, ~past.leaving,
           UNCHANGED <<user, requests, handoff, session, log, unlogged, work, past>>,
           NEW t \in Turns, t = NextTurn, InFlight(chat.sid) = {},
           NEW asked, asked = Append(chat.entries, Asked(t)),
           chat' = [chat EXCEPT !.sending = TRUE, !.entries = asked],
           stored' = Saved(stored, user, chat.sid, asked, t),
           turn' = [turn EXCEPT ![t] =
              [phase |-> "waiting", sid |-> chat.sid, before |-> chat.entries,
               saves |-> TRUE, aborted |-> FALSE, waiters |-> {Sender}]],
           chat' \in ChatRecords, stored' \in StoredRecords, turn' \in TurnFunctions
    PROVE  Inv'
  <1> DEFINE s == chat.sid
             sent == [phase |-> "waiting", sid |-> s, before |-> chat.entries,
                      saves |-> TRUE, aborted |-> FALSE, waiters |-> {Sender}]
             w == [user |-> user, sid |-> s, entries |-> asked, pending |-> t]
  <1>1. /\ chat \in ChatRecords /\ turn \in TurnFunctions /\ stored \in StoredRecords
        /\ chat.entries \in Seq(Entries) /\ s # 0
    BY DEF Inv, Typed, TurnFunctions, ChatRecords, Sessions
  <1>2. /\ turn[t].phase = "none" /\ turn[t].sid = 0
        /\ \E n \in 0 .. MaxTurns : Sent \cup {t} = 1 .. n
    BY FreshTurn
  <1>3. /\ session[s].user = user /\ chat.entries # <<>> /\ SentIn(turn, chat.entries, s)
    BY <1>1 DEF Inv, Owned, ChatOwned
  <1>4. /\ asked \in Seq(Entries) /\ asked # <<>> /\ Len(asked) = Len(chat.entries) + 1
        /\ Asked(t) \in ToSet(asked) /\ TurnsIn(asked) \subseteq TurnsIn(chat.entries) \cup {t}
        /\ Answers(asked) = Answers(chat.entries)
    BY <1>1, AskedFacts
  <1>5. Len(asked) > 1
    BY <1>1, <1>3, <1>4
  <1>6. /\ chat'.mounted = chat.mounted /\ chat'.status = chat.status
        /\ chat'.sid = s /\ chat'.entries = asked /\ chat'.history = chat.history
        /\ chat'.view = chat.view /\ chat'.persist = chat.persist /\ chat'.sending = TRUE
    BY <1>1 DEF ChatRecords
  <1>7. /\ sent.phase = "waiting" /\ sent.sid = s /\ sent.before = chat.entries /\ sent.saves = TRUE
        /\ sent.waiters = {Sender}
    OBVIOUS
  <1>8. turn' = [turn EXCEPT ![t] = sent]
    OBVIOUS
  <1> HIDE DEF sent
  <1>9. /\ turn'[t].phase = "waiting" /\ turn'[t].sid = s /\ turn'[t].before = chat.entries
        /\ turn'[t].saves = TRUE /\ turn'[t].waiters = {Sender} /\ Flying(t)' /\ ~Flying(t)
        /\ \A u \in Turns \ {t} : turn'[u] = turn[u] /\ (Flying(u)' <=> Flying(u))
    BY <1>1, <1>2, <1>7, <1>8 DEF TurnFunctions, Flying
  <1>10. \A u \in Turns : Flying(u) => turn[u].sid # s
    BY DEF InFlight, Flying
  <1>11. stored' = IF CanWrite(stored, user, s) THEN w ELSE stored
    BY <1>4 DEF Saved
  <1>12. w.user = user /\ w.sid = s /\ w.entries = asked /\ w.pending = t
    OBVIOUS
  <1> HIDE DEF w
  <1>13. CanWrite(stored, user, s) <=> (stored = NothingStored \/ (stored.user = user /\ stored.sid = s))
    BY DEF CanWrite
  <1>14. NothingStored' = NothingStored /\ NoChat' = NoChat
    BY DEF NothingStored, NoChat
  <1>15. Later
    BY <1>2, <1>9 DEF Later
  <1>16. SentIn(turn', chat.entries, s) /\ SentIn(turn', asked, s)
    BY <1>3, <1>4, <1>9, <1>15, SentLater DEF SentIn, TurnsIn
  <1>17. Typed'
    BY DEF Inv, Typed, TurnFunctions
  <1>18. Counted'
    <2>1. Created' = Created /\ Sent' = Sent \cup {t}
      BY <1>9 DEF Created, Sent
    <2>2. \A u \in Turns : turn'[u].sid = 0 <=> turn'[u].phase = "none"
      BY <1>1, <1>9 DEF Inv, Counted
    <2>3. \A u, v \in Turns : Flying(u)' /\ Flying(v)' /\ turn'[u].sid = turn'[v].sid => u = v
      BY <1>9, <1>10 DEF Inv, Counted
    <2> QED BY <1>2, <2>1, <2>2, <2>3 DEF Inv, Counted
  <1>19. OneAwaited'
    BY <1>1, <1>6, <1>14 DEF Inv, OneAwaited
  <1>20. WaitersSend'
    <2>1. \A u \in Turns \ {t} : \A v \in turn[u].waiters :
             Flying(u) /\ ~(v.mine /\ (v.current \/ ~v.resume))
      BY DEF Inv, WaitersSend
    <2> QED BY <1>6, <1>9, <2>1 DEF WaitersSend
  <1>21. Owned'
    <2>1. ChatOwned'
      BY <1>3, <1>4, <1>6, <1>16 DEF ChatOwned
    <2>2. StoredOwned'
      <3>1. CASE stored' = stored
        BY <1>15, <3>1, StoredOwnedLater
      <3>2. CASE stored' = w
        BY <1>3, <1>4, <1>12, <1>16, <3>2 DEF StoredOwned
      <3> QED BY <1>11, <3>1, <3>2
    <2>3. RequestsOwned' /\ LogOwned' /\ WorkOwned'
      BY <1>15, RequestsOwnedLater, LogOwnedLater, WorkOwnedLater
    <2>4. TurnsOwned'
      <3>1. ASSUME NEW u \in Turns \ {t}, turn[u].sid # 0
            PROVE  /\ session'[turn[u].sid].user \in Users
                   /\ Flying(u) => turn[u].before # <<>> /\ SentIn(turn', turn[u].before, turn[u].sid)
        <4>1. turn[u].sid \in Sessions
          BY <1>1, <3>1 DEF TurnFunctions, TurnRecords
        <4> QED BY <1>15, <3>1, <4>1, SentLater DEF Inv, Owned, TurnsOwned
      <3> QED BY <1>3, <1>9, <1>16, <3>1 DEF TurnsOwned
    <2> QED BY <2>1, <2>2, <2>3, <2>4 DEF Owned
  <1>22. Pending'
    <2>1. CASE stored' = w
      BY <1>4, <1>5, <1>6, <1>9, <1>12, <2>1, ZenonT(60) DEF Pending
    <2>2. CASE stored' = stored /\ ~CanWrite(stored, user, s)
      <3>1. SUFFICES ASSUME stored.pending # 0 PROVE Pending'
        BY <2>2 DEF Pending
      <3>2. /\ stored.pending \in Turns /\ stored.user = user /\ stored.sid # s
            /\ Flying(stored.pending) /\ turn[stored.pending].saves
            /\ turn[stored.pending].sid = stored.sid
        BY <1>1, <1>13, <2>2, <3>1 DEF Inv, Pending, StoredRecords
      <3>3. stored.pending # t
        BY <1>9, <3>2
      <3> QED BY <1>6, <1>9, <2>2, <3>1, <3>2, <3>3 DEF Inv, Pending
    <2> QED BY <1>11, <2>1, <2>2
  <1>23. Following'
    <2>1. SUFFICES ASSUME ~past.opened PROVE Following'
      BY DEF Following
    <2>2. stored # NothingStored => stored.user = user /\ stored.sid = s
      BY <2>1 DEF Inv, Following
    <2>3. stored' = w
      BY <1>11, <1>13, <2>2
    <2>4. t \notin Answers(asked)
      <3>1. t \in Answers(chat.entries) => t \in TurnsIn(chat.entries)
        BY DEF Answers, TurnsIn
      <3> QED BY <1>1, <1>2, <1>3, <1>4, <3>1 DEF SentIn
    <2>5. ASSUME NEW u \in Turns \ {t}, Flying(u), turn[u].saves PROVE FALSE
      <3>1. stored.pending = u /\ stored.sid = turn[u].sid
        BY <2>1, <2>5 DEF Inv, Following
      <3>2. u # 0 /\ NothingStored.pending = 0
        BY DEF Turns, NothingStored
      <3> QED BY <1>10, <2>2, <2>5, <3>1, <3>2
    <2>6. \A r \in requests' : r.what # "open"
      BY <2>1 DEF Inv, Following
    <2>7. \A u \in Turns : Flying(u)' /\ turn'[u].saves => u = t
      BY <1>9, <2>5
    <2>8. \A u \in Turns : Flying(u)' /\ turn'[u].saves =>
             /\ stored'.pending = u /\ stored'.sid = turn'[u].sid
             /\ Answer(u) \notin ToSet(stored'.entries)
      BY <1>9, <1>12, <2>3, <2>4, <2>7 DEF Answers
    <2>9. chat'.sid = stored'.sid /\ chat'.status = "ready" /\ stored'.user = user
      BY <1>6, <1>12, <2>3
    <2> QED BY <1>6, <2>6, <2>8, <2>9 DEF Following
  <1>24. \A r \in requests : ~(r.mine /\ r.current)
    BY DEF Inv, OneAwaited
  <1>25. FreshAwaited'
    BY <1>24 DEF Inv, FreshAwaited
  <1>26. Kept'
    <2> SUFFICES ASSUME NEW x \in Sessions \ past'.abandoned
                 PROVE  OneWorkAt(x)' /\ WorkInOrder(x)' /\ AnswersLogged(x)'
      BY DEF Kept
    <2>1. OneWorkAt(x) /\ WorkInOrder(x) /\ AnswersLogged(x)
      BY DEF Inv, Kept
    <2>2. OneWorkAt(x)'
      BY <2>1 DEF OneWorkAt
    <2>3. WorkInOrder(x)'
      <3>1. \A o \in work : o.sid = x => o.what # "sync"
        BY <1>24, <2>1 DEF WorkInOrder
      <3>2. \A o \in work : o.sid = x /\ o.what = "turn" =>
               o.turn \in Turns \ {t} /\ turn'[o.turn].phase = turn[o.turn].phase
        BY <1>2, <1>9, <2>1 DEF WorkInOrder, Inv, Owned, WorkOwned
      <3> QED BY <2>1, <3>1, <3>2 DEF WorkInOrder
    <2>4. AnswersLogged(x)'
      <3>1. chat'.sid = x => Answers(chat'.entries) \subseteq Answers(log[x]) \cup unlogged
        BY <1>4, <1>6, <2>1 DEF AnswersLogged
      <3>2. stored'.sid = x => Answers(stored'.entries) \subseteq Answers(log[x]) \cup unlogged
        BY <1>4, <1>11, <1>12, <2>1 DEF AnswersLogged
      <3>3. \A u \in Turns : Flying(u)' /\ turn'[u].sid = x =>
               Answers(turn'[u].before) \subseteq Answers(log[x]) \cup unlogged
        BY <1>9, <2>1 DEF AnswersLogged
      <3> QED BY <3>1, <3>2, <3>3 DEF AnswersLogged
    <2> QED BY <2>2, <2>3, <2>4
  <1> QED BY <1>17, <1>18, <1>19, <1>20, <1>21, <1>22, <1>23, <1>25, <1>26 DEF Inv

LEMMA SendKeeps ==
    ASSUME Inv, Send PROVE Inv'
  <1>1. CASE InFlight(chat.sid) # {}
    BY <1>1, SendStep, SendJoins
  <1>2. CASE InFlight(chat.sid) = {}
    BY <1>2, SendStep, SendsNew
  <1> QED BY <1>1, <1>2

-----------------------------------------------------------------------------
(* The end of a turn.                                                      *)

\* What is stored may be a conversation of the account in session s.
Replaceable(st, s) == st = NothingStored \/ (st.user = user /\ st.sid = s)

\* What is stored when turn t of session s ends.
EndStores(t, s, entries, ends) ==
    \/ stored' = NothingStored /\ (ends \/ stored = NothingStored)
    \/ /\ stored'.sid = s /\ stored'.entries = entries /\ stored'.pending = 0
       /\ stored'.user = session[s].user /\ session[s].user = user
       /\ turn[t].saves \/ (chat.sending /\ chat.sid = s)
    \/ /\ stored' = stored /\ ~ends
       /\ turn[t].saves => session[s].user # user \/ ~Replaceable(stored, s)
       /\ chat' # chat /\ chat'.persist => ~Replaceable(stored, s)

\* What the screen shows then, if the result is for it.
EndShows(s, entries) ==
    chat' # chat =>
        /\ chat.sending /\ chat.sid = s /\ session[s].user = user /\ chat.status = "ready"
        /\ chat.mounted /\ user \in Users /\ ~past.leaving
        /\ chat'.mounted = chat.mounted /\ chat'.status = chat.status
        /\ chat'.sid = s /\ chat'.entries = entries /\ chat'.history = chat.history
        /\ chat'.view = chat.view /\ chat'.sending = FALSE

LEMMA EndStored ==
    ASSUME Inv, NEW t \in Turns, Flying(t), NEW entries \in Seq(Entries), NEW unusable \in BOOLEAN,
           NEW ends \in BOOLEAN, Ends(t, entries, unusable, ends), entries # <<>>,
           NEW s \in Sessions, s = turn[t].sid
    PROVE  EndStores(t, s, entries, ends) /\ EndShows(s, entries)
  <1> DEFINE v == session[s].user
             saved == IF ends THEN NothingStored ELSE SavedResult(t, entries)
             w == [user |-> user, sid |-> s, entries |-> entries, pending |-> 0]
             shown == [chat EXCEPT !.entries = entries, !.sending = FALSE,
                                   !.persist = chat.persist /\ ~unusable]
  <1>1. v \in Users /\ s # 0
    BY DEF Inv, Owned, TurnsOwned, Sessions
  <1>2. w.user = user /\ w.sid = s /\ w.entries = entries /\ w.pending = 0
    OBVIOUS
  <1>3. saved = IF ends THEN NothingStored
                ELSE IF turn[t].saves /\ v = user /\ Replaceable(stored, s) THEN w ELSE stored
    BY DEF SavedResult, Saved, CanWrite, Replaceable
  <1>4. \/ chat' = chat /\ stored' = saved
        \/ /\ chat.sending /\ chat.sid = s
           /\ chat' = shown /\ stored' = Persisted(shown, saved)
    BY DEF Ends
  <1> HIDE DEF saved, w
  <1>5. CASE chat' = chat /\ stored' = saved
    BY <1>2, <1>3, <1>5 DEF EndStores, EndShows, Replaceable
  <1>6. CASE chat.sending /\ chat.sid = s /\ chat' = shown /\ stored' = Persisted(shown, saved)
    <2>1. /\ chat.status = "ready" /\ chat.mounted /\ user \in Users /\ v = user /\ ~past.leaving
      BY <1>1, <1>6 DEF Inv, OneAwaited, NoChat, Owned, ChatOwned
    <2>2. chat \in ChatRecords
      BY DEF Inv, Typed
    <2>3. /\ shown.mounted = chat.mounted /\ shown.status = chat.status
          /\ shown.sid = s /\ shown.entries = entries /\ shown.history = chat.history
          /\ shown.view = chat.view /\ shown.sending = FALSE
      BY <1>6, <2>2 DEF ChatRecords
    <2> HIDE DEF shown
    <2>4. stored' = IF shown.persist /\ Replaceable(saved, s) THEN w ELSE saved
      BY <1>1, <1>6, <2>1, <2>3 DEF Persisted, Saved, CanWrite, Replaceable, w
    <2>5. EndShows(s, entries)
      BY <1>6, <2>1, <2>3 DEF EndShows
    <2>6. EndStores(t, s, entries, ends)
      <3>1. CASE stored' = w
        BY <1>2, <1>6, <2>1, <3>1 DEF EndStores
      <3>2. CASE stored' = saved /\ ~(shown.persist /\ Replaceable(saved, s))
        BY <1>2, <1>3, <1>6, <2>1, <3>2 DEF EndStores
      <3> QED BY <2>4, <3>1, <3>2
    <2> QED BY <2>5, <2>6
  <1> QED BY <1>4, <1>5, <1>6

LEMMA EndKeeps ==
    ASSUME Inv, NEW t \in Turns, TurnAnswered(t) \/ TurnFails(t) PROVE Inv'
  <1> DEFINE s == turn[t].sid
  <1>1. PICK entries \in Seq(Entries), unusable \in BOOLEAN, ends \in BOOLEAN :
              /\ Flying(t) /\ Ends(t, entries, unusable, ends)
              /\ entries # <<>> /\ s \in Sessions /\ SentIn(turn, entries, s)
              /\ \/ TurnAnswered(t) /\ turn[t].phase = "posted"
                    /\ Answers(entries) = Answers(turn[t].before) \cup {t}
                 \/ TurnFails(t) /\ entries = turn[t].before
              /\ UNCHANGED <<user, requests, handoff, session, log, unlogged>>
              /\ chat' \in ChatRecords /\ stored' \in StoredRecords
    BY EndStep
  <1>2. /\ turn' \in TurnFunctions
        /\ \A u \in Turns \ {t} :
              /\ turn'[u].phase = turn[u].phase /\ turn'[u].sid = turn[u].sid
              /\ turn'[u].before = turn[u].before /\ turn'[u].waiters = turn[u].waiters
              /\ turn'[u].saves = (turn[u].saves /\ ~ends)
        /\ turn'[t].phase = "over" /\ turn'[t].sid = s /\ turn'[t].waiters = {}
    BY <1>1 DEF Ends
  <1> HIDE DEF s
  <1>3. /\ EndStores(t, s, entries, ends) /\ EndShows(s, entries)
        /\ session[s].user \in Users
    BY <1>1, EndStored DEF s, Inv, Owned, TurnsOwned, Sessions
  <1>4. /\ \A u \in Turns : turn'[u].sid = turn[u].sid
        /\ \A u \in Turns : Flying(u)' <=> (Flying(u) /\ u # t)
        /\ \A u \in Turns : turn'[u].phase = "none" <=> turn[u].phase = "none"
        /\ \A u \in Turns \ {t} : Flying(u) => turn[u].sid # s
    BY <1>1, <1>2 DEF Flying, Inv, Counted, s
  <1>5. /\ work' \subseteq work
        /\ \A o \in work' : o.what = "turn" /\ o.turn = t => s \in past'.abandoned \/ ~OneWorkAt(s)
        /\ past' = [past EXCEPT !.abandoned = past'.abandoned]
        /\ past'.abandoned \in {past.abandoned, past.abandoned \cup {s}}
        /\ TurnAnswered(t) => \E o \in work : o.what = "turn" /\ o.turn = t /\ o.stage = "answered"
    <2>1. past \in [mounts : 0 .. MaxMounts, reloads : 0 .. MaxReloads,
                    abandoned : SUBSET Sessions, leaving : BOOLEAN, opened : BOOLEAN]
      BY DEF Inv, Typed
    <2>2. \A o \in TurnWork(t) : o \in work /\ o.what = "turn" /\ o.turn = t /\ o.sid = s
      BY DEF TurnWork, Inv, Owned, WorkOwned, s
    <2>3. CASE TurnAnswered(t)
      <3>1. PICK o \in TurnWork(t) : o.stage = "answered" /\ work' = work \ {o}
        BY <2>3 DEF TurnAnswered
      <3>2. past' = past
        BY <2>3 DEF TurnAnswered
      <3>3. \A p \in work' : p.what = "turn" /\ p.turn = t => ~OneWorkAt(s)
        BY <2>2, <3>1 DEF OneWorkAt, TurnWork
      <3> QED BY <2>1, <2>2, <3>1, <3>2, <3>3
    <2>4. CASE TurnFails(t)
      <3>1. /\ past' = IF TurnWork(t) = {} THEN past
                       ELSE [past EXCEPT !.abandoned = past.abandoned \cup {s}]
            /\ work' \subseteq work
        BY <2>4 DEF TurnFails, s
      <3>2. ~TurnAnswered(t) \/ \E o \in work : o.what = "turn" /\ o.turn = t /\ o.stage = "answered"
        BY DEF TurnAnswered, TurnWork
      <3>3. \A o \in work' : o.what = "turn" /\ o.turn = t => s \in past'.abandoned
        BY <2>1, <3>1 DEF TurnWork
      <3> QED BY <2>1, <3>1, <3>2, <3>3
    <2> QED BY <2>3, <2>4
  <1>6. /\ past' \in [mounts : 0 .. MaxMounts, reloads : 0 .. MaxReloads,
                      abandoned : SUBSET Sessions, leaving : BOOLEAN, opened : BOOLEAN]
        /\ past'.opened = past.opened /\ past'.reloads = past.reloads
        /\ past'.leaving = past.leaving /\ past.abandoned \subseteq past'.abandoned
    BY <1>1, <1>5 DEF Inv, Typed
  <1>7. NothingStored' = NothingStored /\ NoChat' = NoChat /\ NothingStored.pending = 0
    BY DEF NothingStored, NoChat
  <1>8. Typed'
    BY <1>1, <1>2, <1>5, <1>6 DEF Inv, Typed, TurnFunctions
  <1>9. Later
    BY <1>1, <1>4 DEF Later
  <1>10. Counted'
    <2>1. Created' = Created /\ Sent' = Sent
      BY <1>1, <1>4 DEF Created, Sent
    <2> QED BY <1>4, <2>1 DEF Inv, Counted
  <1>11. OneAwaited'
    <2>1. chat' # chat => \A r \in requests : ~(r.mine /\ r.current)
      BY <1>3 DEF Inv, OneAwaited, EndShows
    <2> QED BY <1>1, <1>3, <1>6, <1>7, <2>1 DEF Inv, OneAwaited, EndShows
  <1>12. WaitersSend'
    <2>1. SUFFICES ASSUME NEW u \in Turns \ {t}, NEW w \in turn[u].waiters
                   PROVE  /\ Flying(u)'
                          /\ w.mine /\ (w.current \/ ~w.resume) =>
                                chat'.sending /\ chat'.sid = turn'[u].sid
      BY <1>2 DEF WaitersSend
    <2>2. /\ Flying(u)
          /\ w.mine /\ (w.current \/ ~w.resume) => chat.sending /\ chat.sid = turn[u].sid
      BY DEF Inv, WaitersSend
    <2> QED BY <1>3, <1>4, <2>2 DEF EndShows
  <1>13. SentIn(turn', entries, s)
    BY <1>1, <1>9, SentLater
  <1>14. Owned'
    <2>1. ChatOwned'
      <3>1. CASE chat' = chat
        BY <1>1, <1>9, <3>1, ChatOwnedLater
      <3>2. CASE chat' # chat
        BY <1>1, <1>3, <1>13, <3>2 DEF ChatOwned, EndShows
      <3> QED BY <3>1, <3>2
    <2>2. StoredOwned'
      <3>1. CASE stored' \in {stored, NothingStored}
        BY <1>9, <3>1, StoredOwnedLater
      <3>2. CASE stored' \notin {stored, NothingStored}
        BY <1>1, <1>3, <1>13, <3>2 DEF StoredOwned, EndStores
      <3> QED BY <3>1, <3>2
    <2>3. RequestsOwned' /\ LogOwned' /\ WorkOwned'
      BY <1>1, <1>5, <1>9, RequestsOwnedLater, LogOwnedLater, WorkOwnedLater
    <2>4. TurnsOwned'
      <3>1. \A u \in Turns : turn'[u].phase \in {"waiting", "posted"} =>
               Flying(u) /\ turn'[u].before = turn[u].before
        BY <1>2 DEF Flying
      <3> QED BY <1>4, <1>9, <3>1, TurnsOwnedLater
    <2> QED BY <2>1, <2>2, <2>3, <2>4 DEF Owned
  <1>15. Pending'
    <2>1. SUFFICES ASSUME stored'.pending # 0 PROVE Pending'
      BY DEF Pending
    <2>2. /\ stored' = stored /\ ~ends
          /\ turn[t].saves => session[s].user # user \/ ~Replaceable(stored, s)
      BY <1>3, <1>7, <2>1 DEF EndStores
    <2>3. /\ stored.pending \in Turns /\ stored.user = user /\ ~past.leaving
          /\ Len(stored.entries) > 1 /\ Asked(stored.pending) \in ToSet(stored.entries)
          /\ Flying(stored.pending) /\ turn[stored.pending].saves
          /\ turn[stored.pending].sid = stored.sid /\ session[stored.sid].user = user
          /\ (chat.status = "ready" /\ chat.sid = stored.sid) => chat.sending
      BY <1>1, <1>7, <2>1, <2>2 DEF Inv, Pending, Typed, StoredRecords, Owned, StoredOwned
    <2>4. stored.pending # t
      BY <2>2, <2>3 DEF Replaceable, s
    <2>5. Flying(stored.pending)' /\ turn'[stored.pending].saves
          /\ turn'[stored.pending].sid = stored.sid
      BY <1>2, <1>4, <2>2, <2>3, <2>4
    <2>6. (chat'.status = "ready" /\ chat'.sid = stored.sid) => chat'.sending
      BY <1>3, <1>4, <2>3, <2>4 DEF EndShows
    <2> QED BY <1>1, <1>6, <2>2, <2>3, <2>5, <2>6 DEF Pending
  <1>16. Following'
    <2>1. SUFFICES ASSUME ~past.opened PROVE Following'
      BY <1>6 DEF Following
    <2>2. stored # NothingStored =>
             /\ stored.user = user /\ ~past.leaving
             /\ chat.mounted => chat.sid = stored.sid /\ chat.status = "ready"
      BY <2>1 DEF Inv, Following
    <2>3. \A u \in Turns : Flying(u) /\ turn[u].saves =>
             /\ stored.pending = u /\ stored.sid = turn[u].sid /\ stored # NothingStored
             /\ Answer(u) \notin ToSet(stored.entries)
      <3>1. \A u \in Turns : u # 0
        BY DEF Turns
      <3> QED BY <1>7, <2>1, <3>1 DEF Inv, Following
    <2>4. turn[t].saves => stored.pending = t /\ stored.sid = s /\ stored # NothingStored
      BY <1>1, <2>3 DEF s
    <2>5. chat.sending => chat.mounted /\ chat.status = "ready" /\ ~past.leaving
      BY DEF Inv, OneAwaited, NoChat
    <2>6. /\ chat'.sid = chat.sid /\ chat'.status = chat.status /\ chat'.mounted = chat.mounted
      BY <1>3 DEF EndShows
    <2>7. \A u \in Turns : Flying(u)' /\ turn'[u].saves =>
             /\ Flying(u) /\ turn[u].saves /\ u # t /\ ~ends /\ turn[u].sid # s
      BY <1>2, <1>4
    <2>8. stored' # NothingStored =>
             /\ stored'.user = user /\ ~past.leaving
             /\ chat'.mounted => chat'.sid = stored'.sid /\ chat'.status = "ready"
      <3>1. CASE stored' = stored \/ stored' = NothingStored
        BY <2>2, <2>6, <3>1
      <3>2. CASE /\ stored'.sid = s /\ stored'.user = user
                 /\ turn[t].saves \/ (chat.sending /\ chat.sid = s)
        BY <2>2, <2>4, <2>5, <2>6, <3>2
      <3> QED BY <1>3, <3>1, <3>2 DEF EndStores
    <2>9. ASSUME NEW u \in Turns, Flying(u)', turn'[u].saves
          PROVE  /\ stored'.pending = u /\ stored'.sid = turn'[u].sid
                 /\ Answer(u) \notin ToSet(stored'.entries)
      <3>1. /\ Flying(u) /\ turn[u].saves /\ u # t /\ ~ends /\ turn[u].sid # s
            /\ stored.pending = u /\ stored.sid = turn[u].sid /\ stored # NothingStored
            /\ Answer(u) \notin ToSet(stored.entries)
        BY <2>3, <2>7, <2>9
      <3>2. ~turn[t].saves /\ ~(chat.sending /\ chat.sid = s)
        BY <2>2, <2>4, <2>5, <3>1
      <3>3. stored' = stored
        BY <1>3, <3>1, <3>2 DEF EndStores
      <3> QED BY <1>4, <3>1, <3>3
    <2>10. ASSUME chat'.status = "ready", chat'.view = "live", ~chat'.sending, chat'.persist
           PROVE  \/ stored' = NothingStored
                  \/ stored'.sid = chat'.sid /\ stored'.entries = chat'.entries
      <3>1. CASE chat' = chat
        <4>1. stored = NothingStored \/ (stored.sid = chat.sid /\ stored.entries = chat.entries)
          BY <2>1, <2>10, <3>1 DEF Inv, Following
        <4>2. ~turn[t].saves
          <5>1. chat.mounted
            BY <2>10, <3>1 DEF Inv, OneAwaited, NoChat
          <5>2. t # 0
            BY DEF Turns
          <5>3. turn[t].saves => stored.pending # 0 /\ chat.sid = stored.sid
            BY <2>2, <2>4, <5>1, <5>2
          <5> QED BY <2>10, <3>1, <5>3 DEF Inv, Pending
        <4> QED BY <1>3, <2>10, <3>1, <4>1, <4>2 DEF EndStores
      <3>2. CASE chat' # chat
        <4>1. /\ chat'.sid = s /\ chat'.entries = entries /\ chat.sid = s /\ chat.mounted
          BY <1>3, <3>2 DEF EndShows
        <4>2. Replaceable(stored, s)
          BY <2>2, <4>1 DEF Replaceable
        <4> QED BY <1>3, <2>10, <3>2, <4>1, <4>2 DEF EndStores
      <3> QED BY <3>1, <3>2
    <2>11. \A r \in requests' : r.what # "open"
      BY <1>1, <2>1 DEF Inv, Following
    <2> QED BY <1>1, <1>6, <1>7, <2>8, <2>9, <2>10, <2>11 DEF Following
  <1>17. FreshAwaited'
    BY <1>1, <1>4, <1>5 DEF Inv, FreshAwaited, NoTurnsOf
  <1>18. Kept'
    <2> SUFFICES ASSUME NEW x \in Sessions \ past'.abandoned
                 PROVE  OneWorkAt(x)' /\ WorkInOrder(x)' /\ AnswersLogged(x)'
      BY DEF Kept
    <2>1. OneWorkAt(x) /\ WorkInOrder(x) /\ AnswersLogged(x)
      BY <1>6 DEF Inv, Kept
    <2>2. OneWorkAt(x)'
      BY <1>5, <2>1 DEF OneWorkAt
    <2>3. WorkInOrder(x)'
      <3>1. NoTurnsOf(x)' <=> NoTurnsOf(x)
        BY <1>4 DEF NoTurnsOf
      <3>2. ASSUME NEW o \in work', o.sid = x, o.what = "turn"
            PROVE  o.turn \in Turns \ {t}
        <4>1. o \in work /\ o.turn \in Turns /\ turn[o.turn].sid = x
          BY <1>5, <3>2 DEF Inv, Owned, WorkOwned
        <4>2. o.turn # t
          <5>1. o.turn = t => x = s
            BY <4>1 DEF s
          <5> QED BY <1>5, <2>1, <3>2, <5>1
        <4> QED BY <4>1, <4>2
      <3> QED BY <1>1, <1>2, <1>5, <2>1, <3>1, <3>2 DEF WorkInOrder
    <2>4. x = s => Answers(entries) \subseteq Answers(log[x]) \cup unlogged
      <3>1. x = s => Answers(turn[t].before) \subseteq Answers(log[x]) \cup unlogged
        BY <1>1, <2>1 DEF AnswersLogged, s
      <3>2. x = s /\ TurnAnswered(t) => t \in Answers(log[x]) \cup unlogged
        BY <1>5, <2>1 DEF WorkInOrder, Inv, Owned, WorkOwned, s
      <3> QED BY <1>1, <3>1, <3>2
    <2>5. AnswersLogged(x)'
      <3>1. chat'.sid = x => Answers(chat'.entries) \subseteq Answers(log[x]) \cup unlogged
        BY <1>3, <2>1, <2>4 DEF AnswersLogged, EndShows
      <3>2. stored'.sid = x => Answers(stored'.entries) \subseteq Answers(log[x]) \cup unlogged
        <4>1. NothingStored.sid # x
          BY DEF NothingStored, Sessions
        <4> QED BY <1>3, <2>1, <2>4, <4>1 DEF AnswersLogged, EndStores
      <3>3. \A u \in Turns : Flying(u)' /\ turn'[u].sid = x =>
               Answers(turn'[u].before) \subseteq Answers(log[x]) \cup unlogged
        BY <1>2, <1>4, <2>1 DEF AnswersLogged
      <3> QED BY <1>1, <3>1, <3>2, <3>3 DEF AnswersLogged
    <2> QED BY <2>2, <2>3, <2>5
  <1> QED BY <1>8, <1>10, <1>11, <1>12, <1>14, <1>15, <1>16, <1>17, <1>18 DEF Inv

-----------------------------------------------------------------------------
(* Connecting.                                                             *)

\* What holds whichever way a connection goes.
LEMMA ConnectCommon ==
    ASSUME Inv, NEW c, NEW st, NEW turns, NEW kind,
           ConnectContext(c, st, turns, kind), Connect(c, st, turns, kind)
    PROVE  /\ Typed' /\ Counted' /\ Later /\ FreshAwaited' /\ RequestsOwned' /\ TurnsOwned'
           /\ LogOwned' /\ WorkOwned' /\ SameTurns(turn, turn')
           /\ ~past.leaving /\ user \in Users /\ UNCHANGED <<user, session, log, unlogged, work>>
           /\ \A t \in Turns : Flying(t)' <=> Flying(t)
           /\ past'.abandoned = past.abandoned /\ past'.opened = past.opened
           /\ past'.leaving = past.leaving /\ past'.reloads = past.reloads
           /\ \A q \in requests' : q.mine =>
                 /\ q.user = user
                 /\ q.current => q.what = "create" /\ (kind # "none" \/ st = NothingStored)
           /\ \A p, q \in requests' : p.mine /\ p.current /\ q.mine /\ q.current => p = q
           /\ ~past.opened => \A q \in requests' : q.what # "open"
           /\ \A r \in requests : ~(r.what = "sync" /\ r.mine /\ r.current)
           /\ c \in ChatRecords /\ st \in StoredRecords /\ turns \in TurnFunctions
           /\ SameTurns(turn, turns)
  <1> DEFINE q == Connecting(kind)
  <1>1. /\ ConnectInputs(c, st, turns, kind) /\ SameTurns(turn, turns) /\ ~past.leaving
        /\ \A r \in requests : r.mine /\ r.current => r.what # "sync"
        /\ UNCHANGED <<user, session, log, unlogged, work>>
        /\ past' = [past EXCEPT !.mounts = past'.mounts] /\ past'.mounts \in 0 .. MaxMounts
        /\ handoff' \in {handoff, "none"}
    BY DEF ConnectContext
  <1>2. /\ user \in Users /\ c \in ChatRecords /\ st \in StoredRecords /\ turns \in TurnFunctions
        /\ kind \in Kinds \cup {"none"}
    BY <1>1 DEF ConnectInputs
  <1>3. /\ requests' \subseteq RequestRecords /\ chat' \in ChatRecords
        /\ stored' \in StoredRecords /\ turn' \in TurnFunctions /\ SameTurns(turns, turn')
    <2>1. Typed
      BY DEF Inv
    <2> QED BY <1>1, <2>1, ConnectTyped
  <1>4. SameTurns(turn, turn')
    BY <1>1, <1>3 DEF SameTurns
  <1>5. /\ past' \in [mounts : 0 .. MaxMounts, reloads : 0 .. MaxReloads,
                      abandoned : SUBSET Sessions, leaving : BOOLEAN, opened : BOOLEAN]
        /\ past'.abandoned = past.abandoned /\ past'.opened = past.opened
        /\ past'.leaving = past.leaving /\ past'.reloads = past.reloads
    <2> DEFINE n == past'.mounts
    <2>1. n \in 0 .. MaxMounts /\ past' = [past EXCEPT !.mounts = n]
      BY <1>1
    <2> HIDE DEF n
    <2> QED BY <2>1 DEF Inv, Typed
  <1>6. Typed'
    BY <1>1, <1>3, <1>5 DEF Inv, Typed, TurnFunctions
  <1>7. Counted' /\ Later
    BY <1>1, <1>4, SameIsLater DEF Inv
  <1>8. /\ q.what = "create" /\ q.user = user /\ q.mine /\ q.current
    BY DEF Connecting
  <1> HIDE DEF q
  <1>9. /\ requests' \subseteq Stale(requests) \cup {q}
        /\ ~(kind # "none" \/ st = NothingStored) => requests' = Stale(requests)
    BY DEF Connect, q
  <1>10. /\ \A p \in Stale(requests) :
              /\ ~(p.mine /\ p.current) /\ (p.mine => p.user = user)
              /\ ~past.opened => p.what # "open"
              /\ \E r \in requests : p.what = r.what /\ p.sid = r.sid /\ p.user = r.user
         /\ \A p, v \in Stale(requests) :
              p.what = "created" /\ v.what = "created" /\ p.sid = v.sid => p = v
    BY <1>2, StaleRequests
  <1>11. FreshAwaited'
    BY <1>8, <1>9, <1>10 DEF FreshAwaited
  <1>12. RequestsOwned'
    <2>1. \A p \in requests' : p.what # "create" =>
             \E r \in requests : r.what # "create" /\ p.sid = r.sid /\ p.user = r.user
      BY <1>8, <1>9, <1>10
    <2> QED BY <1>7, <2>1, RequestsOwnedLater
  <1>13. TurnsOwned' /\ LogOwned' /\ WorkOwned'
    <2>1. TurnsOwned'
      BY <1>4, <1>7, TurnsOwnedLater DEF SameTurns, Flying
    <2> QED BY <1>1, <1>7, <2>1, LogOwnedLater, WorkOwnedLater
  <1>14. /\ \A p \in requests' : p.mine =>
               /\ p.user = user
               /\ p.current => p.what = "create" /\ (kind # "none" \/ st = NothingStored)
         /\ \A p, v \in requests' : p.mine /\ p.current /\ v.mine /\ v.current => p = v
         /\ ~past.opened => \A p \in requests' : p.what # "open"
    BY <1>8, <1>9, <1>10
  <1>15. \A t \in Turns : Flying(t)' <=> Flying(t)
    BY <1>4 DEF SameTurns, Flying
  <1> QED BY <1>1, <1>2, <1>4, <1>5, <1>6, <1>7, <1>11, <1>12, <1>13, <1>14, <1>15

\* The connection starts a session: nothing is shown or stored yet.
LEMMA ConnectStarts ==
    ASSUME Inv, NEW c, NEW st, NEW turns, NEW kind,
           ConnectContext(c, st, turns, kind), Connect(c, st, turns, kind),
           kind # "none" \/ st = NothingStored
    PROVE  Inv'
  <1>1. /\ Typed' /\ Counted' /\ Later /\ FreshAwaited' /\ RequestsOwned' /\ TurnsOwned'
        /\ LogOwned' /\ WorkOwned' /\ SameTurns(turn, turn')
        /\ ~past.leaving /\ user \in Users /\ UNCHANGED <<user, session, log, unlogged, work>>
        /\ \A t \in Turns : Flying(t)' <=> Flying(t)
        /\ past'.abandoned = past.abandoned /\ past'.opened = past.opened
        /\ past'.leaving = past.leaving /\ past'.reloads = past.reloads
        /\ \A q \in requests' : q.mine =>
              /\ q.user = user
              /\ q.current => q.what = "create" /\ (kind # "none" \/ st = NothingStored)
        /\ \A p, q \in requests' : p.mine /\ p.current /\ q.mine /\ q.current => p = q
        /\ ~past.opened => \A q \in requests' : q.what # "open"
        /\ \A r \in requests : ~(r.what = "sync" /\ r.mine /\ r.current)
        /\ c \in ChatRecords /\ st \in StoredRecords /\ turns \in TurnFunctions
        /\ SameTurns(turn, turns)
    BY ConnectCommon
  <1>2. /\ c.mounted /\ c.status = "loading" /\ c.view = "none" /\ ~c.history /\ ~c.sending
        /\ c.sid = 0 \/ (c.sid = chat.sid /\ c.entries = chat.entries)
        /\ NobodyShows(turns) /\ \A t \in Turns : turns[t].saves => turn[t].saves
        /\ kind = "none" => ConnectsFrom(st, turns)
    BY DEF ConnectContext
  <1>3. /\ chat' = c /\ stored' = NothingStored
        /\ turn' = IF kind # "none" THEN ClearedTurns(turns) ELSE turns
    BY DEF Connect
  <1>4. /\ \A t \in Turns : turn'[t].waiters = turns[t].waiters
        /\ kind # "none" => \A t \in Turns : ~turn'[t].saves
        /\ kind = "none" => turn' = turns
    BY <1>1, <1>3, ClearedFacts
  <1>5. NothingStored' = NothingStored /\ NothingStored.pending = 0 /\ NothingStored.sid = 0
        /\ NothingStored.user = Nobody /\ Nobody \notin Users /\ \A t \in Turns : t # 0
    BY AgentChatConstants DEF NothingStored, Turns
  <1>6. OneAwaited'
    BY <1>1, <1>2, <1>3 DEF OneAwaited
  <1>7. WaitersSend'
    BY <1>1, <1>2, <1>4 DEF NobodyShows, WaitersSend
  <1>8. Owned'
    <2>1. ChatOwned'
      BY <1>1, <1>2, <1>3, ChatOwnedLater
    <2>2. StoredOwned'
      BY <1>3, <1>5 DEF StoredOwned
    <2> QED BY <1>1, <2>1, <2>2 DEF Owned
  <1>9. Pending'
    BY <1>3, <1>5 DEF Pending
  <1>10. Following'
    <2>1. SUFFICES ASSUME ~past.opened PROVE Following'
      BY <1>1 DEF Following
    <2>2. stored # NothingStored => stored.user = user
      BY <2>1 DEF Inv, Following
    <2>3. \A t \in Turns : Flying(t) /\ turn[t].saves => stored.pending = t
      BY <2>1 DEF Inv, Following
    <2>4. ASSUME NEW t \in Turns, Flying(t), turn'[t].saves PROVE FALSE
      <3>1. kind = "none" /\ turn' = turns /\ st = NothingStored
        BY <1>4, <2>4
      <3>2. turns[t].saves /\ turn[t].saves
        BY <1>2, <2>4, <3>1
      <3>3. stored.pending = t /\ stored # NothingStored /\ stored.user = user
        BY <1>5, <2>2, <2>3, <2>4, <3>2
      <3>4. ConnectsFrom(NothingStored, turns)
        BY <1>2, <3>1
      <3>5. stored \in StoredRecords
        BY DEF Inv, Typed
      <3>6. [stored EXCEPT !.pending = 0] # NothingStored
        BY <1>1, <1>5, <3>3, <3>5 DEF StoredRecords
      <3> QED BY <2>4, <3>2, <3>3, <3>4, <3>6 DEF ConnectsFrom
    <2> QED BY <1>1, <1>2, <1>3, <1>5, <2>1, <2>4 DEF Following
  <1>11. Kept'
    <2>1. chat'.sid \notin Sessions \/ (chat'.sid = chat.sid /\ chat'.entries = chat.entries)
      BY <1>2, <1>3 DEF Sessions
    <2> QED BY <1>1, <1>3, <2>1, KeptLater
  <1> QED BY <1>1, <1>6, <1>7, <1>8, <1>9, <1>10, <1>11 DEF Inv

\* The connection goes on with the stored conversation.
LEMMA ConnectShows ==
    ASSUME Inv, NEW c, NEW st, NEW turns, NEW kind,
           ConnectContext(c, st, turns, kind), Connect(c, st, turns, kind),
           ~(kind # "none" \/ st = NothingStored)
    PROVE  /\ stored # NothingStored /\ stored.user = user /\ stored.sid \in Sessions
           /\ \/ st = stored /\ \A t \in Turns : turns[t].saves = turn[t].saves
              \/ st.pending = 0 /\ Answer(stored.pending) \in ToSet(stored.entries)
           /\ chat'.mounted /\ chat'.status = "ready" /\ ~chat'.history
           /\ chat'.sid = stored.sid /\ chat'.view = "live"
           /\ stored'.sid = stored.sid /\ stored'.user = user
           /\ chat'.entries = stored'.entries /\ stored'.entries # <<>>
           /\ ToSet(stored'.entries) \subseteq ToSet(stored.entries)
           /\ \/ /\ st.pending = 0 \/ InFlight(stored.sid) = {}
                 /\ stored'.pending = 0 /\ chat'.sending = FALSE /\ turn' = turns
              \/ /\ st = stored /\ stored' = stored /\ stored.pending # 0
                 /\ InFlight(stored.sid) # {} /\ chat'.sending = TRUE
                 /\ turn' = Joined(turns, InFlight(stored.sid), Resumer)
  <1>1. /\ c.mounted /\ ~c.history /\ ~c.sending /\ ConnectsFrom(st, turns) /\ st # NothingStored
        /\ kind = "none" /\ ConnectInputs(c, st, turns, kind)
    BY DEF ConnectContext
  <1>2. /\ user \in Users /\ c \in ChatRecords /\ st \in StoredRecords /\ stored \in StoredRecords
        /\ Nobody \notin Users /\ NothingStored.user = Nobody
        /\ st.pending # 0 => Len(st.entries) > 1 /\ Asked(st.pending) \in ToSet(st.entries)
    BY <1>1, AgentChatConstants DEF ConnectInputs, Inv, Typed, NothingStored
  <1>3. /\ stored.user = user /\ st.user = user /\ st.sid = stored.sid /\ st.entries = stored.entries
        /\ \/ st = stored /\ \A t \in Turns : turns[t].saves = turn[t].saves
           \/ st.pending = 0 /\ Answer(stored.pending) \in ToSet(stored.entries)
    BY <1>1, <1>2 DEF ConnectsFrom, StoredRecords
  <1>4. /\ stored # NothingStored /\ stored.sid \in Sessions /\ stored.entries # <<>>
        /\ stored.sid # 0
    BY <1>2, <1>3 DEF Inv, Owned, StoredOwned, Sessions
  <1> DEFINE d == Resumed(c, st)
             e == [d EXCEPT !.entries = Dropped(st)]
             f == [d EXCEPT !.sending = TRUE]
  <1>5. /\ d \in ChatRecords /\ d.mounted /\ d.status = "ready" /\ ~d.history /\ d.sid = stored.sid
        /\ d.view = "live" /\ d.entries = stored.entries /\ d.sending = FALSE /\ d.persist = TRUE
    BY <1>1, <1>2, <1>3 DEF Resumed, Freed, ChatRecords, StoredRecords
  <1> HIDE DEF d
  <1>6. f.mounted /\ f.status = "ready" /\ ~f.history /\ f.sid = stored.sid
        /\ f.view = "live" /\ f.entries = stored.entries /\ f.sending = TRUE
    BY <1>5 DEF ChatRecords
  <1>7. /\ e.mounted /\ e.status = "ready" /\ ~e.history /\ e.sid = stored.sid
        /\ e.view = "live" /\ e.entries = Dropped(st) /\ e.sending = FALSE /\ e.persist = TRUE
    BY <1>5 DEF ChatRecords
  <1> HIDE DEF e, f
  <1>8. \/ st.pending = 0 /\ Shows(d, st) /\ turn' = turns
        \/ /\ st.pending # 0 /\ InFlight(stored.sid) = {}
           /\ Shows(e, Saved(st, user, stored.sid, Dropped(st), 0)) /\ turn' = turns
        \/ /\ st.pending # 0 /\ InFlight(stored.sid) # {}
           /\ Shows(f, st) /\ turn' = Joined(turns, InFlight(stored.sid), Resumer)
    BY <1>1, <1>3 DEF Connect, Joined, d, e, f
  <1>9. CASE st.pending = 0 /\ Shows(d, st) /\ turn' = turns
    <2> DEFINE w == [user |-> user, sid |-> stored.sid, entries |-> stored.entries, pending |-> 0]
    <2>1. w.user = user /\ w.sid = stored.sid /\ w.entries = stored.entries /\ w.pending = 0
      OBVIOUS
    <2>2. Persisted(d, st) = w
      BY <1>3, <1>4, <1>5 DEF Persisted, Saved, CanWrite
    <2> HIDE DEF w
    <2> QED BY <1>3, <1>4, <1>5, <1>9, <2>1, <2>2 DEF Shows
  <1>10. CASE /\ st.pending # 0 /\ InFlight(stored.sid) = {}
              /\ Shows(e, Saved(st, user, stored.sid, Dropped(st), 0)) /\ turn' = turns
    <2> DEFINE w == [user |-> user, sid |-> stored.sid, entries |-> Dropped(st), pending |-> 0]
    <2>1. w.user = user /\ w.sid = stored.sid /\ w.entries = Dropped(st) /\ w.pending = 0
      OBVIOUS
    <2>2. /\ Dropped(st) # <<>> /\ ToSet(Dropped(st)) \subseteq ToSet(stored.entries)
      BY <1>2, <1>3, <1>10, DroppedFacts
    <2>3. Saved(st, user, stored.sid, Dropped(st), 0) = w
      BY <1>3, <2>2 DEF Saved, CanWrite
    <2> HIDE DEF w
    <2>4. Persisted(e, w) = [user |-> user, sid |-> stored.sid, entries |-> Dropped(st), pending |-> 0]
      BY <1>4, <1>7, <2>1, <2>2 DEF Persisted, Saved, CanWrite
    <2>5. chat' = e /\ stored' = w
      BY <1>10, <2>3, <2>4 DEF Shows, w
    <2> QED BY <1>3, <1>4, <1>7, <1>10, <2>1, <2>2, <2>5
  <1>11. CASE /\ st.pending # 0 /\ InFlight(stored.sid) # {}
              /\ Shows(f, st) /\ turn' = Joined(turns, InFlight(stored.sid), Resumer)
    <2>1. Persisted(f, st) = st
      BY <1>6 DEF Persisted
    <2> QED BY <1>3, <1>4, <1>6, <1>11, <2>1 DEF Shows
  <1> QED BY <1>8, <1>9, <1>10, <1>11

LEMMA ConnectResumes ==
    ASSUME Inv, NEW c, NEW st, NEW turns, NEW kind,
           ConnectContext(c, st, turns, kind), Connect(c, st, turns, kind),
           ~(kind # "none" \/ st = NothingStored)
    PROVE  Inv'
  <1> DEFINE s == stored.sid
             e == stored'.entries
  <1>1. /\ Typed' /\ Counted' /\ Later /\ FreshAwaited' /\ RequestsOwned' /\ TurnsOwned'
        /\ LogOwned' /\ WorkOwned' /\ SameTurns(turn, turn')
        /\ ~past.leaving /\ user \in Users /\ UNCHANGED <<user, session, log, unlogged, work>>
        /\ \A t \in Turns : Flying(t)' <=> Flying(t)
        /\ past'.abandoned = past.abandoned /\ past'.opened = past.opened
        /\ past'.leaving = past.leaving /\ past'.reloads = past.reloads
        /\ \A q \in requests' : q.mine => q.user = user /\ ~q.current
        /\ ~past.opened => \A q \in requests' : q.what # "open"
        /\ \A r \in requests : ~(r.what = "sync" /\ r.mine /\ r.current)
        /\ turns \in TurnFunctions /\ SameTurns(turn, turns)
    BY ConnectCommon
  <1>2. NobodyShows(turns) /\ \A t \in Turns : turns[t].saves => turn[t].saves
    BY DEF ConnectContext
  <1>3. /\ stored # NothingStored /\ stored.user = user /\ s \in Sessions
        /\ \/ st = stored /\ \A t \in Turns : turns[t].saves = turn[t].saves
           \/ st.pending = 0 /\ Answer(stored.pending) \in ToSet(stored.entries)
        /\ chat'.mounted /\ chat'.status = "ready" /\ ~chat'.history
        /\ chat'.sid = s /\ chat'.view = "live" /\ stored'.sid = s /\ stored'.user = user
        /\ chat'.entries = e /\ e # <<>> /\ ToSet(e) \subseteq ToSet(stored.entries)
    BY ConnectShows
  <1>4. \/ /\ st.pending = 0 \/ InFlight(s) = {}
           /\ stored'.pending = 0 /\ chat'.sending = FALSE /\ turn' = turns
        \/ /\ st = stored /\ stored' = stored /\ stored.pending # 0
           /\ InFlight(s) # {} /\ chat'.sending = TRUE
           /\ turn' = Joined(turns, InFlight(s), Resumer)
    BY ConnectShows
  <1>5. /\ \A t \in Turns : turn'[t].saves = turns[t].saves /\ turn'[t].sid = turn[t].sid
        /\ \A t \in Turns : \A w \in turn'[t].waiters :
              w \in turns[t].waiters \/ (t \in InFlight(s) /\ chat'.sending)
    <2>1. CASE turn' = turns
      BY <1>1, <2>1 DEF SameTurns
    <2>2. CASE chat'.sending /\ turn' = Joined(turns, InFlight(s), Resumer)
      <3>1. \A t \in Turns :
               /\ turn'[t].saves = turns[t].saves /\ turn'[t].sid = turns[t].sid
               /\ turn'[t].waiters = IF t \in InFlight(s) THEN turns[t].waiters \cup {Resumer}
                                     ELSE turns[t].waiters
        BY <1>1, <2>2, JoinedFacts, TheWaiters, SMTT(40) DEF SameTurns
      <3> QED BY <1>1, <2>2, <3>1 DEF SameTurns
    <2> QED BY <1>4, <2>1, <2>2
  <1>6. /\ session[s].user = user /\ SentIn(turn, stored.entries, s)
        /\ TurnsIn(e) \subseteq TurnsIn(stored.entries) /\ Answers(e) \subseteq Answers(stored.entries)
    BY <1>3, FewerTurns DEF Inv, Owned, StoredOwned
  <1>7. SentIn(turn', e, s)
    <2>1. SentIn(turn, e, s)
      BY <1>6 DEF SentIn
    <2> QED BY <1>1, <1>3, <2>1, SentLater
  <1> HIDE DEF s, e
  <1>8. NothingStored' = NothingStored /\ s # 0 /\ \A t \in Turns : t # 0
    BY <1>3 DEF NothingStored, Sessions, Turns
  <1>9. OneAwaited'
    BY <1>1, <1>3, <1>8 DEF OneAwaited
  <1>10. WaitersSend'
    <2>1. SUFFICES ASSUME NEW t \in Turns, NEW w \in turn'[t].waiters
                   PROVE  /\ Flying(t)
                          /\ w.mine /\ (w.current \/ ~w.resume) => chat'.sending /\ s = turn[t].sid
      BY <1>1, <1>3, <1>5 DEF WaitersSend
    <2>2. CASE w \in turns[t].waiters
      BY <1>2, <2>2 DEF NobodyShows
    <2>3. CASE t \in InFlight(s) /\ chat'.sending
      BY <2>3 DEF InFlight, Flying
    <2> QED BY <1>5, <2>2, <2>3
  <1>11. Owned'
    <2>1. ChatOwned'
      BY <1>1, <1>3, <1>6, <1>7 DEF ChatOwned
    <2>2. StoredOwned'
      <3>1. stored'.entries = e
        BY DEF e
      <3> QED BY <1>1, <1>3, <1>6, <1>7, <3>1 DEF StoredOwned
    <2> QED BY <1>1, <2>1, <2>2 DEF Owned
  <1>12. Pending'
    <2>1. SUFFICES ASSUME stored'.pending # 0 PROVE Pending'
      BY DEF Pending
    <2>2. /\ st = stored /\ stored' = stored /\ stored.pending # 0
          /\ InFlight(s) # {} /\ chat'.sending = TRUE
      BY <1>4, <2>1
    <2>3. stored.pending \in Turns
      BY <2>2 DEF Inv, Typed, StoredRecords
    <2>4. /\ Flying(stored.pending) /\ turn[stored.pending].saves
          /\ turn[stored.pending].sid = stored.sid
          /\ Len(stored.entries) > 1 /\ Asked(stored.pending) \in ToSet(stored.entries)
      BY <2>2 DEF Inv, Pending, InFlight, Flying
    <2>5. turn'[stored.pending].saves /\ turn'[stored.pending].sid = stored.sid
      <3>1. turns[stored.pending].saves
        BY <1>3, <2>2, <2>3, <2>4
      <3> QED BY <1>5, <2>3, <2>4, <3>1
    <2> QED BY <1>1, <1>3, <2>2, <2>3, <2>4, <2>5 DEF Pending
  <1>13. Following'
    <2>1. SUFFICES ASSUME ~past.opened PROVE Following'
      BY <1>1 DEF Following
    <2>2. ASSUME NEW t \in Turns, Flying(t), turn'[t].saves
          PROVE  stored'.pending = t /\ stored'.sid = turn[t].sid /\ Answer(t) \notin ToSet(stored'.entries)
      <3>1. turn[t].saves
        BY <1>2, <1>5, <2>2
      <3>2. stored.pending = t /\ stored.sid = turn[t].sid /\ Answer(t) \notin ToSet(stored.entries)
        BY <2>1, <2>2, <3>1 DEF Inv, Following
      <3>3. t \in InFlight(s)
        BY <2>2, <3>2 DEF InFlight, Flying, s
      <3>4. st = stored /\ st.pending # 0
        BY <1>3, <1>8, <3>2
      <3> QED BY <1>4, <3>2, <3>3, <3>4
    <2>3. chat'.sid = stored'.sid /\ stored'.user = user /\ chat'.entries = stored'.entries
      BY <1>3 DEF e
    <2> QED BY <1>1, <1>3, <1>5, <2>1, <2>2, <2>3 DEF Following
  <1>14. Kept'
    <2>1. ASSUME NEW x \in Sessions \ past'.abandoned
          PROVE  /\ chat'.sid = x => Answers(chat'.entries) \subseteq Answers(log[x]) \cup unlogged
                 /\ stored'.sid = x => Answers(stored'.entries) \subseteq Answers(log[x]) \cup unlogged
      <3>1. s = x => Answers(stored.entries) \subseteq Answers(log[x]) \cup unlogged
        BY <1>1 DEF Inv, Kept, AnswersLogged, s
      <3> QED BY <1>3, <1>6, <3>1 DEF e
    <2> QED BY <1>1, <2>1, KeptKnown
  <1> QED BY <1>1, <1>9, <1>10, <1>11, <1>12, <1>13, <1>14 DEF Inv

LEMMA ConnectKeeps ==
    ASSUME Inv, Mount \/ Retry \/ NewConsultation PROVE Inv'
  <1>1. PICK c, st, turns, kind : ConnectContext(c, st, turns, kind) /\ Connect(c, st, turns, kind)
    BY ConnectStep
  <1> QED BY <1>1, ConnectStarts, ConnectResumes

-----------------------------------------------------------------------------
(* The theorems.                                                           *)

LEMMA InitInv == Init => Inv
  <1> SUFFICES ASSUME Init PROVE Inv
    OBVIOUS
  <1>1. /\ user = Nobody /\ chat = NoChat /\ requests = {} /\ work = {}
        /\ turn = [t \in Turns |-> NoTurn] /\ stored = NothingStored /\ handoff = "none"
        /\ session = [s \in Sessions |-> [user |-> Nobody, alive |-> FALSE]]
        /\ log = [s \in Sessions |-> <<>>] /\ unlogged = {}
        /\ past = [mounts |-> 0, reloads |-> 0, abandoned |-> {}, leaving |-> FALSE,
                   opened |-> FALSE]
    BY DEF Init
  <1>2. /\ NothingStored.pending = 0 /\ NothingStored.sid = 0
        /\ NoChat.sid = 0 /\ ~NoChat.mounted /\ ~NoChat.sending /\ ~NoChat.history
        /\ NoChat.status = "loading"
        /\ NoTurn.phase = "none" /\ NoTurn.sid = 0 /\ NoTurn.waiters = {}
    BY DEF NothingStored, NoChat, NoTurn
  <1>3. \A t \in Turns : turn[t] = NoTurn /\ ~Flying(t)
    BY <1>1, <1>2 DEF Flying
  <1>4. MaxSessions \in Nat /\ MaxTurns \in Nat /\ MaxMounts \in Nat /\ MaxReloads \in Nat
    BY AgentChatConstants
  <1>5. Typed
    <2>1. <<>> \in Seq(Entries)
      OBVIOUS
    <2>2. past \in [mounts : 0 .. MaxMounts, reloads : 0 .. MaxReloads,
                    abandoned : SUBSET Sessions, leaving : BOOLEAN, opened : BOOLEAN]
      BY <1>1, <1>4
    <2> QED BY <1>1, <2>1, <2>2, EmptyTyped DEF Typed
  <1>6. Counted
    <2>1. Created = 1 .. 0 /\ Sent = 1 .. 0
      BY <1>1, <1>2 DEF Created, Sent
    <2> QED BY <1>2, <1>3, <1>4, <2>1 DEF Counted
  <1>7. OneAwaited /\ WaitersSend
    BY <1>1, <1>2, <1>3 DEF OneAwaited, WaitersSend
  <1>8. Owned
    <2>1. \A e, s : TurnsIn(<<>>) = {} /\ SentIn(turn, <<>>, s)
      BY DEF TurnsIn, SentIn, ToSet
    <2> QED BY <1>1, <1>2, <1>3, <2>1 DEF Owned, ChatOwned, StoredOwned, RequestsOwned, TurnsOwned,
               LogOwned, WorkOwned
  <1>9. Pending /\ Following /\ FreshAwaited
    BY <1>1, <1>2, <1>3 DEF Pending, Following, FreshAwaited
  <1>10. Kept
    <2>1. \A s \in Sessions : chat.sid # s /\ stored.sid # s
      BY <1>1, <1>2 DEF Sessions
    <2> QED BY <1>1, <1>3, <2>1 DEF Kept, OneWorkAt, WorkInOrder, AnswersLogged
  <1> QED BY <1>5, <1>6, <1>7, <1>8, <1>9, <1>10 DEF Inv

LEMMA StutterKeeps == Inv /\ UNCHANGED vars => Inv'
  <1> SUFFICES ASSUME Inv, UNCHANGED vars PROVE Inv'
    OBVIOUS
  <1>1. UNCHANGED <<user, chat, requests, turn, stored, handoff, session, log, unlogged, work, past>>
    BY DEF vars
  <1>2. Typed'
    BY <1>1 DEF Inv, Typed
  <1>3. UNCHANGED <<Counted, OneAwaited, WaitersSend, Owned, Pending, Following, FreshAwaited, Kept>>
    BY <1>1 DEF Counted, Created, Sent, Flying, OneAwaited, WaitersSend, Owned, ChatOwned, StoredOwned,
        RequestsOwned, TurnsOwned, LogOwned, WorkOwned, Pending, Following, FreshAwaited, Kept,
        OneWorkAt, WorkInOrder, AnswersLogged, NoTurnsOf
  <1> QED BY <1>2, <1>3 DEF Inv

LEMMA NextKeeps == Inv /\ Next => Inv'
  <1> SUFFICES ASSUME Inv, Next PROVE Inv'
    OBVIOUS
  <1>1. CASE Screen
    BY <1>1, ConnectKeeps, HistoryKeeps, SendKeeps, LeaveKeeps, ReloadKeeps, SignOutKeeps,
       OpenConsultationKeeps, StashKeeps, SignInKeeps DEF Screen
  <1>2. CASE Server
    BY <1>2, CreateSessionKeeps, WorkFailsKeeps, ReadLogKeeps, WriteLogKeeps,
       AppendFailsKeeps DEF Server
  <1>3. ASSUME NEW r \in requests, Await(r) PROVE Inv'
    BY <1>3, SessionStartsKeeps, SessionReadyKeeps, OpensKeeps, OpensUnseenKeeps, FailureKeeps
       DEF Await
  <1>4. ASSUME NEW t \in Turns, Post(t) \/ TurnAnswered(t) \/ TurnFails(t) PROVE Inv'
    BY <1>4, PostKeeps, EndKeeps
  <1> QED BY <1>1, <1>2, <1>3, <1>4 DEF Next

\* The invariant the theorems rest on is inductive: every step of the screen, the
\* storage, the turns in flight and the server keeps it.
THEOREM ChatInvariant == Spec => []Inv
  BY InitInv, NextKeeps, StutterKeeps, PTL DEF Spec

\* The values the variables take; whatever the tab stores is a conversation of an
\* account (session-storage.ts), and send-turn.ts has one turn of a session in
\* flight at most.
THEOREM ChatTypes == Spec => []TypeOK
  <1>1. Inv => TypeOK
    <2> SUFFICES ASSUME Inv PROVE TypeOK
      OBVIOUS
    <2>1. Typed
      BY DEF Inv
    <2>2. \/ stored = NothingStored
          \/ stored.user \in Users /\ stored.sid \in Sessions /\ Len(stored.entries) > 0
      <3>1. stored \in StoredRecords
        BY DEF Inv, Typed
      <3>2. stored.entries \in Seq(Entries)
        BY <3>1 DEF StoredRecords
      <3>3. stored.entries # <<>> => Len(stored.entries) > 0
        BY <3>2
      <3> QED BY <3>3 DEF Inv, Owned, StoredOwned
    <2>3. ASSUME NEW s \in Sessions PROVE Cardinality(InFlight(s)) <= 1
      <3>1. \A t, u \in InFlight(s) : t = u
        BY DEF Inv, Counted, Flying, InFlight
      <3>2. CASE InFlight(s) = {}
        BY <3>2, FS_EmptySet
      <3>3. CASE InFlight(s) # {}
        <4>1. PICK t : InFlight(s) = {t}
          BY <3>1, <3>3
        <4>2. Cardinality({t}) = 1
          BY FS_Singleton
        <4> QED BY <4>1, <4>2
      <3> QED BY <3>2, <3>3
    <2> QED BY <2>1, <2>2, <2>3 DEF TypeOK
  <1> QED BY <1>1, ChatInvariant, PTL

\* The chat never shows, in a session it can send to, a turn of another session,
\* nor sends to another account's: whatever connections, loads of the history,
\* turns, sign-outs and reloads ended in between (the generation counters of
\* use-agent-session.ts and the waiters of send-turn.ts).
THEOREM ShownIsOwn == Spec => []ShownBelongs
  <1>1. Inv => ShownBelongs
    BY DEF Inv, Owned, ChatOwned, ShownBelongs, SentIn
  <1> QED BY <1>1, ChatInvariant, PTL

\* As long as the history is not used, an idle chat that may be stored is stored
\* as shown, or nothing is: no late turn of an earlier conversation takes its
\* place (session-storage.ts's epoch and its check of the stored session).
THEOREM StorageFollows == Spec => []StorageFollowsChat
  <1>1. Inv => StorageFollowsChat
    BY DEF Inv, Following, StorageFollowsChat
  <1> QED BY <1>1, ChatInvariant, PTL

\* A turn the tab's storage waits for is in flight, unless the page was reloaded
\* since, and a chat that shows its session waits for it as well
\* (use-agent-session.ts resumes it).
THEOREM PendingAwaited == Spec => []PendingIsAwaited
  <1>1. Inv => PendingIsAwaited
    BY DEF Inv, Pending, PendingIsAwaited, Flying
  <1> QED BY <1>1, ChatInvariant, PTL

\* An answer the chat shows is in the server's history of its session, unless its
\* own append failed, which the server swallows (persistAgentTurn), as long as no
\* request of that session was given up: the greeting's snapshot, the turns'
\* read-then-write appends (message-client.ts, agent-consultations.ts), failed or
\* not, and the wait for the greeting to be stored leave no other out.
THEOREM HistoryKeepsAnswers == Spec => []HistoryComplete
  <1>1. Inv => HistoryComplete
    <2> SUFFICES ASSUME Inv, NEW s \in Sessions \ past.abandoned, NEW t \in Turns,
                        chat.sid = s, Answer(t) \in ToSet(chat.entries)
                 PROVE  Answer(t) \in ToSet(log[s]) \/ t \in unlogged
      BY DEF HistoryComplete
    <2>1. Answers(chat.entries) \subseteq Answers(log[s]) \cup unlogged
      BY DEF Inv, Kept, AnswersLogged
    <2> QED BY <2>1 DEF Answers
  <1> QED BY <1>1, ChatInvariant, PTL
=============================================================================
