------------------------------ MODULE Session ------------------------------
(***************************************************************************)
(* One tab of apps/web from the entrance to the protected pages:           *)
(* AuthProvider, the pages login, signup and onboarding, the gates of      *)
(* (protected)/layout, the profile and the badges that are loaded inside   *)
(* of them, what the browser keeps per user, and the routes that create    *)
(* accounts.                                                               *)
(*                                                                         *)
(* Firebase is external: it signs users in, keeps the signed-in user over  *)
(* a reload, and tells every tab.  The protected pages are two: home,      *)
(* which marks the feed as read when it goes, and my page, which has the   *)
(* button that signs out.                                                  *)
(***************************************************************************)
EXTENDS Naturals, FiniteSets

CONSTANTS Users, Nobody, Pending

SessionConstants == Nobody \notin Users /\ Pending \notin Users \cup {Nobody}

VARIABLES
    account,    \* row of users: absent, without a profile, complete
    given,      \* whether a user was given the first collection
    session,    \* the user Firebase keeps in the browser
    user,       \* useAuth: Pending until Firebase has told
    view,       \* the page and its state
    me,         \* whose profile MeProvider holds
    badges,     \* whose badges MeBadgesProvider holds
    stored,     \* whose data each key of the browser's storage holds
    asks,       \* requests the tab awaits
    strayed     \* a user was signed out or replaced by another tab, or this tab moved
                \* or kept something while a sign-out was awaited

vars == <<account, given, session, user, view, me, badges, stored, asks, strayed>>

Entrances == {"login", "signup"}
Protected == {"home", "mypage"}
Pages == Entrances \cup Protected \cup {"onboarding"}
Accounts == {"none", "bare", "complete"}

IsOnboardingComplete(answer) == answer = "complete"

\* (loading, failed: of OnboardingGate and of the onboarding page; busy: of a form.)
Fresh(page, next) ==
    [page |-> page, next |-> next, loading |-> TRUE, failed |-> FALSE, busy |-> FALSE]

\* (own: the component that asked still hears the answer.)
Ask(kind, who, next) ==
    [kind |-> kind, by |-> who, next |-> next, own |-> TRUE, at |-> "sent", answer |-> "none"]
Nothing == [readAt |-> Nobody, recommendation |-> Nobody, collection |-> Nobody]

Init ==
    /\ account \in [Users -> Accounts]
    /\ given = [u \in Users |-> account[u] = "complete"]
    /\ session \in Users \cup {Nobody} /\ user = Pending
    /\ view \in {Fresh(page, "home") : page \in Pages}
    /\ me = Nobody /\ badges = Nobody /\ stored = Nothing /\ asks = {} /\ strayed = FALSE

-----------------------------------------------------------------------------
(***************************************************************************)
(* Pages.  A change of the page or of the user unmounts what it replaces,  *)
(* reruns the effects that depend on it, and may redirect.                 *)
(***************************************************************************)
Inside == view.page \in Protected /\ user \in Users
Ready == Inside /\ ~view.loading /\ ~view.failed

\* AuthGate and the onboarding page send those who are not signed in to login; login
\* and signup send those who are to home, unless they are signing them in.
Landing(page, who) ==
    IF who = Nobody /\ page \notin Entrances THEN "login"
    ELSE IF who \in Users /\ page \in Entrances /\ ~(page = view.page /\ view.busy) THEN "home"
    ELSE page

\* What no longer hears its answer.
Deaf(same, land, who) ==
    {"form", "badges"} \cup
    (IF same THEN {} ELSE {"signin", "provision", "create", "target"}) \cup
    (IF Inside /\ land \in Protected /\ who = user THEN {} ELSE {"me"}) \cup
    (IF Inside /\ same THEN {} ELSE {"gate"})

\* What is loaded: MeProvider asks when it is mounted and for another user,
\* OnboardingGate when it is mounted and for another page.
Loads(same, land, next, who) ==
    IF who \notin Users \/ land \in Entrances THEN {}
    ELSE IF land = "onboarding" THEN {Ask("form", who, next)}
    ELSE {Ask("badges", who, land)} \cup
            (IF Inside /\ who = user THEN {} ELSE {Ask("me", who, land)}) \cup
            (IF Inside /\ same THEN {} ELSE {Ask("gate", who, land)})

\* To a page as a user, with rest still awaited.
MoveTo(rest, page, next, who) ==
    LET land == Landing(page, who)
        same == land = view.page /\ page = view.page
    IN  /\ user' = who
        /\ IF same /\ who = user /\ (land = "onboarding" => next = view.next)
           THEN asks' = rest /\ UNCHANGED <<view, me, badges, stored>>
           ELSE /\ view' = IF ~same THEN Fresh(land, next)
                           ELSE IF land = "onboarding"
                           THEN [view EXCEPT !.next = next, !.loading = TRUE, !.failed = FALSE]
                           ELSE view
                /\ me' = IF Inside /\ land \in Protected /\ who \in Users THEN me ELSE Nobody
                /\ badges' = IF {land, view.page} \subseteq Protected THEN badges ELSE Nobody
                /\ asks' = {[a EXCEPT !.own = @ /\ a.kind \notin Deaf(same, land, who)] : a \in rest}
                              \cup Loads(same, land, next, who)
                /\ stored' \in {stored} \cup
                      (IF Ready /\ view.page = "home" /\ ~same
                       THEN {[stored EXCEPT !.readAt = user]} ELSE {})

SigningOut == \E a \in asks : a.kind = "signout"

\* A redirect or a link, which does not wait for a sign-out that is under way.
Goes(rest, page, next) ==
    /\ MoveTo(rest, page, next, user)
    /\ strayed' = (strayed \/ SigningOut)
    /\ UNCHANGED <<account, given, session>>

\* An answer, unless what asked for it is gone.
Heard(a, v) ==
    /\ view' = IF a.own THEN v ELSE view
    /\ asks' = asks \ {a}
    /\ UNCHANGED <<account, given, session, user, me, badges, stored, strayed>>

\* A link, the tab bar, the address of another page while the gates are open.
Browse(page) ==
    /\ page # view.page
    /\ \/ page \in Protected /\ Ready
       \/ page \in Entrances /\ view.page \in Entrances /\ user = Nobody
    /\ Goes(asks, page, view.next)

\* What was awaited has been done by now, or never is.
Reload ==
    /\ user' = Pending /\ view' = Fresh(view.page, view.next)
    /\ me' = Nobody /\ badges' = Nobody /\ asks' = {}
    /\ UNCHANGED <<account, given, session, stored, strayed>>

-----------------------------------------------------------------------------
(***************************************************************************)
(* Signing in and out.                                                     *)
(***************************************************************************)
\* onIdTokenChanged, first after a load of the page.
AuthStateReady ==
    /\ user = Pending
    /\ MoveTo(asks, view.page, view.next, session)
    /\ UNCHANGED <<account, given, session, strayed>>

\* Another tab signs in or out, or the session expires.
Elsewhere(who) ==
    /\ user # Pending /\ who # session
    /\ session' = who
    /\ MoveTo(asks, view.page, view.next, who)
    /\ strayed' = (strayed \/ session \in Users)
    /\ UNCHANGED <<account, given>>

LoginReached == view.page = "login" /\ user = Nobody /\ ~view.busy
SignupReached == view.page = "signup" /\ user = Nobody /\ ~view.busy
Submits ==
    /\ view' = [view EXCEPT !.busy = TRUE]
    /\ asks' = asks \cup {Ask("signin", Nobody, view.next)}
    /\ UNCHANGED <<account, given, session, user, me, badges, stored, strayed>>
HandleSignIn == LoginReached /\ Submits
HandleSignUp == SignupReached /\ Submits

\* Firebase has signed u in: AuthProvider hears it, and the account is provided.
SignedIn(a, u) ==
    /\ a.kind = "signin"
    /\ session' = u
    /\ MoveTo((asks \ {a}) \cup {[Ask("provision", u, "home") EXCEPT !.own = a.own]},
              view.page, view.next, u)
    /\ strayed' = (strayed \/ session \in Users)
    /\ UNCHANGED <<account, given>>

\* The account is there: to the onboarding page, from wherever the tab is by now.
Provisioned(a) ==
    /\ a.kind = "provision" /\ a.at = "answered"
    /\ Goes(asks \ {a}, "onboarding", "home")

\* The form is offered again, unless Firebase has signed the user in.
SignInFails(a) ==
    /\ a.kind \in {"signin", "provision"}
    /\ IF a.own /\ user \in Users THEN Goes(asks \ {a}, "home", "home")
       ELSE Heard(a, [view EXCEPT !.busy = FALSE])

\* What is kept per user is removed first.
Logout ==
    /\ Ready /\ view.page = "mypage" /\ ~SigningOut
    /\ stored' = Nothing
    /\ asks' = asks \cup {Ask("signout", user, "login")}
    /\ UNCHANGED <<account, given, session, user, view, me, badges, strayed>>

SignedOut(a) ==
    /\ a.kind = "signout"
    /\ session' = Nobody
    /\ MoveTo(asks \ {a}, "login", "home", Nobody)
    /\ UNCHANGED <<account, given, strayed>>

-----------------------------------------------------------------------------
(***************************************************************************)
(* The gate, the onboarding page, the providers.                           *)
(***************************************************************************)
Failed == [view EXCEPT !.loading = FALSE, !.failed = TRUE, !.busy = FALSE]

\* OnboardingGate opens for a complete account; for another one it leaves for the
\* onboarding page, whatever page is shown by now.
GateLoads(a) ==
    /\ a.kind = "gate" /\ a.at = "answered"
    /\ IF IsOnboardingComplete(a.answer) THEN Heard(a, [view EXCEPT !.loading = FALSE])
       ELSE Goes(asks \ {a}, "onboarding", a.next)
RetryGate ==
    /\ Inside /\ view.failed
    /\ view' = [view EXCEPT !.loading = TRUE, !.failed = FALSE]
    /\ asks' = asks \cup {Ask("gate", user, view.page)}
    /\ UNCHANGED <<account, given, session, user, me, badges, stored, strayed>>

\* The onboarding page is left at once by who needs it no more.
FormLoads(a) ==
    /\ a.kind = "form" /\ a.at = "answered"
    /\ IF IsOnboardingComplete(a.answer)
       THEN Goes(asks \ {a}, a.next, "home")
       ELSE Heard(a, [view EXCEPT !.loading = FALSE])

FormReached == view.page = "onboarding" /\ user \in Users /\ ~view.loading
HandleSubmit ==
    /\ FormReached /\ ~view.busy
    /\ view' = [view EXCEPT !.busy = TRUE, !.failed = FALSE]
    /\ asks' = asks \cup {Ask("create", user, view.next)}
    /\ UNCHANGED <<account, given, session, user, me, badges, stored, strayed>>

\* The collections are listed for the save button's first target, and then, whether
\* that worked or not, the page is left.
Created(a) ==
    /\ a.kind = "create" /\ a.at = "answered"
    /\ asks' = (asks \ {a}) \cup {[a EXCEPT !.kind = "target", !.at = "sent"]}
    /\ UNCHANGED <<account, given, session, user, view, me, badges, stored, strayed>>
TargetEnds(a) ==
    /\ a.kind = "target"
    /\ Goes(asks \ {a}, a.next, "home")

LoadFails(a) == a.kind \in {"gate", "form", "create"} /\ Heard(a, Failed)

\* MeProvider keeps what it has without an answer; MeBadgesProvider does not.
MeArrives(a, ok) ==
    /\ a.kind = "me" /\ (ok => a.at = "answered" /\ a.answer # "none")
    /\ me' = IF a.own /\ ok THEN a.by ELSE me
    /\ asks' = asks \ {a}
    /\ UNCHANGED <<account, given, session, user, view, badges, stored, strayed>>
BadgesArrive(a, ok) ==
    /\ a.kind = "badges" /\ (ok => a.at = "answered")
    /\ badges' = IF ~a.own THEN badges ELSE IF ok THEN a.by ELSE Nobody
    /\ asks' = asks \ {a}
    /\ UNCHANGED <<account, given, session, user, view, me, stored, strayed>>

\* A recommendation or a collection to ask the agent about: the later one only.
Stashed(key) ==
    /\ Ready
    /\ stored' = [stored EXCEPT !.recommendation = Nobody, !.collection = Nobody, ![key] = user]
    /\ strayed' = (strayed \/ SigningOut)
    /\ UNCHANGED <<account, given, session, user, view, me, badges, asks>>
StashPendingRecommendation == Stashed("recommendation")
StashPendingCollectionConsult == Stashed("collection")
CommitPending ==
    /\ Ready /\ stored' = [Nothing EXCEPT !.readAt = stored.readAt]
    /\ UNCHANGED <<account, given, session, user, view, me, badges, asks, strayed>>

-----------------------------------------------------------------------------
(***************************************************************************)
(* The server, as the user of the request's token.                         *)
(***************************************************************************)
Answered(a, stage) ==
    /\ asks' = (asks \ {a}) \cup {[a EXCEPT !.at = stage, !.answer = account[a.by]]}
    /\ UNCHANGED <<session, user, view, me, badges, stored, strayed>>
GetMe(a) ==
    /\ a.kind \in {"gate", "form", "me", "badges"} /\ a.at = "sent"
    /\ Answered(a, "answered") /\ UNCHANGED <<account, given>>

ProvisionUser(a) ==
    /\ a.kind = "provision" /\ a.at = "sent"
    /\ account' = [account EXCEPT ![a.by] = IF @ = "none" THEN "bare" ELSE @]
    /\ Answered(a, "answered") /\ UNCHANGED given

UpsertOnboardingUser(a) ==
    /\ a.kind = "create" /\ a.at = "sent"
    /\ account' = [account EXCEPT ![a.by] = "complete"]
    /\ Answered(a, "saved") /\ UNCHANGED given
EnsureDefaultCollection(a) ==
    /\ a.kind = "create" /\ a.at = "saved"
    /\ given' = [given EXCEPT ![a.by] = TRUE]
    /\ Answered(a, "answered") /\ UNCHANGED account

Next ==
    \/ Reload \/ AuthStateReady \/ HandleSignIn \/ HandleSignUp \/ Logout \/ RetryGate \/ HandleSubmit
    \/ StashPendingRecommendation \/ StashPendingCollectionConsult \/ CommitPending
    \/ \E page \in Pages : Browse(page)
    \/ \E who \in Users \cup {Nobody} : Elsewhere(who)
    \/ \E a \in asks :
          \/ Provisioned(a) \/ SignInFails(a) \/ SignedOut(a) \/ GateLoads(a) \/ FormLoads(a)
          \/ Created(a) \/ TargetEnds(a) \/ LoadFails(a)
          \/ GetMe(a) \/ ProvisionUser(a) \/ UpsertOnboardingUser(a) \/ EnsureDefaultCollection(a)
          \/ \E u \in Users : SignedIn(a, u)
          \/ \E ok \in BOOLEAN : MeArrives(a, ok) \/ BadgesArrive(a, ok)

Spec == Init /\ [][Next]_vars

-----------------------------------------------------------------------------
\* The values the variables take.
TypeOK ==
    /\ account \in [Users -> Accounts] /\ given \in [Users -> BOOLEAN]
    /\ {session, me, badges} \cup {stored[key] : key \in DOMAIN stored} \subseteq Users \cup {Nobody}
    /\ user \in Users \cup {Nobody, Pending}
    /\ view \in [page : Pages, next : Protected, loading : BOOLEAN, failed : BOOLEAN, busy : BOOLEAN]
    /\ {a.by : a \in asks} \subseteq Users \cup {Nobody} /\ strayed \in BOOLEAN

\* However redirects, answers and other tabs overlap: when nothing is awaited, every
\* page offers a form, content or another try, never a skeleton for ever.
NeverStuck ==
    (asks = {} /\ user # Pending) =>
        \/ LoginReached \/ SignupReached
        \/ FormReached /\ ~view.busy
        \/ Inside /\ ~view.loading

\* lib/auth, the sign-out: "Per-user client state must not leak to the next account on a
\* shared device (stashed recommendation, feed read marker)".  It can: what is kept per
\* user is removed before the sign-out is awaited, and home, which can be opened while
\* it is, keeps the mark of the feed when the sign-out ends.
SignOutLeavesNothing == [][\A a \in asks : SignedOut(a) => stored'.readAt = Nobody]_vars

\* As long as the tab signs its users in and out itself, and nobody uses it while a
\* sign-out is awaited (SignOutLeavesNothing is about that): the gates are open for a
\* complete account only, what is shown and kept of a user is of the one who is signed
\* in, and nothing of anybody is left for the next user of the device.
OnlyTheirOwn ==
    ~strayed =>
        /\ Ready => account[user] = "complete"
        /\ {me, badges} \subseteq {Nobody, user}
        /\ {stored[key] : key \in DOMAIN stored} \subseteq {Nobody, session}
        /\ Nobody \in {stored.recommendation, stored.collection}
=============================================================================
