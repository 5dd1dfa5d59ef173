------------------------------- MODULE Identity -------------------------------
(***************************************************************************)
(* Browser sign-in: the identity broker, its one-time codes, the global    *)
(* identity families with their rotating secrets, the handoffs that turn a *)
(* global identity into a session of one application, and the live         *)
(* connections those sessions hold.                                        *)
(*                                                                         *)
(* A request carries the cookies its browser had when it was sent.  Every  *)
(* database transaction is one step; the steps of one handler interleave   *)
(* with those of other tabs, and the cookies of a reply arrive later or    *)
(* never.                                                                  *)
(***************************************************************************)
EXTENDS Integers, FiniteSets

CONSTANTS
    Browsers, Tabs,      \* browsers, and requests in flight at once
    Apps, Emails,
    Roles,               \* emails of active operators and deployers
    Families, Handoffs, Challenges, Sids, Bindings,   \* numbers standing for
                         \* the random identifiers, drawn in order
    BindingAtStart,      \* binding cookie a browser has from an earlier visit
    MaxTime,             \* bound: the clock
    HandoffLife, ChallengeLife, IdentityLife, RotateAfter, Overlap,
    MaxAttempts,
    Events,              \* bound: lost replies, failures, forgotten cookies,
                         \* crashes and changes of an access policy
    Requests,            \* bound: requests of all browsers
    Platform, Keep, None

ASSUME LifetimesArePositive ==
    /\ {HandoffLife, ChallengeLife, IdentityLife, RotateAfter, Overlap} \subseteq Nat \ {0}
    /\ MaxAttempts \in Nat \ {0} /\ {MaxTime, Requests, Events} \subseteq Nat /\ Roles \subseteq Emails
ASSUME IdentifiersAreNumbers ==
    UNION {Families, Handoffs, Challenges, Sids, Bindings} \subseteq Nat
ASSUME BindingsAtStartDiffer ==
    /\ BindingAtStart \in [Browsers -> Bindings \cup {None}]
    /\ \A b, c \in Browsers : BindingAtStart[b] = BindingAtStart[c] =>
                              b = c \/ BindingAtStart[b] = None
ASSUME MarksAreFresh ==
    /\ None \notin Families \cup Bindings \cup Handoffs \cup Apps \cup Emails
    /\ Platform \notin Apps \cup {None}
    /\ {None, Keep} \cap [f : Families, n : Nat] = {} /\ None # Keep

VARIABLES
    clock,
    fam,      \* identity_sessions: one row per family
    handoff,  \* identity_handoffs
    chal,     \* otp_challenges (viewer) and platform_identity_challenges
    sess,     \* sessions with scope 'app'
    allowed,  \* emails the current policy of each active application allows
    jar,      \* cookies of each browser: global identity, binding, app states
    tab,      \* request in flight in each tab
    open,     \* app sessions with an upgraded live connection
    drawn,    \* browser bindings handed out
    replayed, \* families revoked because a rotated-out secret came back (history)
    spent     \* requests and events so far

\* The next identifier of those not yet drawn.
Fresh(S) == {x \in S : \A y \in S : x <= y}
UnusedHandoff == Fresh({h \in Handoffs : handoff[h].st = "none"})
UnusedChallenge == Fresh({c \in Challenges : chal[c].st = "none"})
UnusedSession == Fresh({s \in Sids : sess[s].st = "none"})
UnusedFamily == Fresh({f \in Families : fam[f].st = "none"})

rows == <<fam, handoff, chal, sess>>
vars == <<clock, rows, allowed, jar, tab, open, drawn, replayed, spent>>

Token == [f : Families, n : Nat]

FamilyRow == [st : {"none", "live", "revoked"}, email : Emails \cup {None},
              bind : Bindings \cup {None}, n : Nat, until : Nat, rotated : Nat,
              created : Nat, of : Challenges \cup {None}]
HandoffRow == [st : {"none", "open", "consumed", "revoked", "gone"},
               app : Apps \cup {None}, force : BOOLEAN, created : Nat,
               fam : Families \cup {None}, bind : Bindings \cup {None}]
ChallengeRow == [st : {"none", "open", "consumed", "invalid"},
                 app : Apps \cup {Platform, None}, email : Emails \cup {None},
                 bind : Bindings \cup {None}, created : Nat, attempts : Nat,
                 mailed : BOOLEAN]
SessionRow == [st : {"none", "live", "revoked"}, app : Apps \cup {None},
               fam : Families \cup {None}, h : Handoffs \cup {None}]
Request == [pc : {"idle", "open", "authorize", "dashboard", "challenge",
                  "signout", "fallback", "reply"},
            b : Browsers \cup {None}, gid : Token \cup {None},
            bind : Bindings \cup {None}, raw : Token \cup {None},
            set : Token \cup {None, Keep}, newBind : Bindings \cup {None},
            refs : SUBSET Sids, app : Apps \cup {None},
            email : Emails \cup {None}, ok : BOOLEAN, seen : SUBSET Families,
            late : BOOLEAN]

NoRequest == [pc |-> "idle", b |-> None, gid |-> None, bind |-> None,
              raw |-> None, set |-> Keep, newBind |-> None, refs |-> {},
              app |-> None, email |-> None, ok |-> FALSE, seen |-> {},
              late |-> FALSE]

TypeOK ==
    /\ clock \in Nat
    /\ fam \in [Families -> FamilyRow]
    /\ handoff \in [Handoffs -> HandoffRow]
    /\ chal \in [Challenges -> ChallengeRow]
    /\ sess \in [Sids -> SessionRow]
    /\ allowed \in [Apps -> SUBSET Emails]
    /\ jar \in [Browsers -> [gid : Token \cup {None}, bind : Bindings \cup {None},
                             state : [Apps -> Handoffs \cup {None}]]]
    /\ tab \in [Tabs -> Request]
    /\ open \subseteq Sids
    /\ drawn \subseteq Bindings
    /\ replayed \subseteq Families
    /\ spent \in [requests : Nat, events : Nat]

Init ==
    /\ clock = 0
    /\ fam = [f \in Families |-> [st |-> "none", email |-> None, bind |-> None,
                 n |-> 0, until |-> 0, rotated |-> 0, created |-> 0, of |-> None]]
    /\ handoff = [h \in Handoffs |-> [st |-> "none", app |-> None, force |-> FALSE,
                     created |-> 0, fam |-> None, bind |-> None]]
    /\ chal = [c \in Challenges |-> [st |-> "none", app |-> None, email |-> None,
                  bind |-> None, created |-> 0, attempts |-> 0, mailed |-> FALSE]]
    /\ sess = [s \in Sids |-> [st |-> "none", app |-> None, fam |-> None, h |-> None]]
    /\ allowed = [a \in Apps |-> Emails]
    /\ jar = [b \in Browsers |-> [gid |-> None, bind |-> BindingAtStart[b],
                                  state |-> [a \in Apps |-> None]]]
    /\ drawn = {BindingAtStart[b] : b \in Browsers} \ {None}
    /\ tab = [t \in Tabs |-> NoRequest]
    /\ open = {} /\ replayed = {}
    /\ spent = [requests |-> 0, events |-> 0]

-----------------------------------------------------------------------------
(***************************************************************************)
(* Secrets.  A family row holds the hash of its current secret, number n,  *)
(* and after a rotation that of the previous one, number n-1.              *)
(***************************************************************************)
Matches(tok) ==
    /\ tok # None
    /\ fam[tok.f].st # "none"
    /\ tok.n \in {fam[tok.f].n, fam[tok.f].n - 1}

\* The row behind a presented secret is unrevoked and unexpired.
Recognised(tok) ==
    /\ Matches(tok)
    /\ fam[tok.f].st = "live"
    /\ clock < fam[tok.f].created + IdentityLife

IsPrior(tok) == tok.n # fam[tok.f].n

\* identitySessionTx returns errRotatedIdentityReplay.
Replay(tok) == Recognised(tok) /\ IsPrior(tok) /\ clock >= fam[tok.f].until
\* identitySessionTx returns a session.
Valid(tok) == Recognised(tok) /\ ~Replay(tok)
DueRotation(tok) == ~IsPrior(tok) /\ clock - fam[tok.f].rotated >= RotateAfter
Rotated(tok) == [f |-> tok.f, n |-> tok.n + 1]

RotateRow(tok) == [fam EXCEPT ![tok.f].n = tok.n + 1,
                              ![tok.f].until = clock + Overlap,
                              ![tok.f].rotated = clock]

-----------------------------------------------------------------------------
(***************************************************************************)
(* Revocation of families: rows, child sessions and pending handoffs go in *)
(* one transaction, which also returns the sessions to close.              *)
(***************************************************************************)
Children(F) == {s \in Sids : sess[s].st = "live" /\ sess[s].fam \in F}

RevokedFams(F) ==
    [f \in Families |-> IF f \in F THEN [fam[f] EXCEPT !.st = "revoked"] ELSE fam[f]]
RevokedSessions(F) ==
    [s \in Sids |-> IF s \in Children(F) THEN [sess[s] EXCEPT !.st = "revoked"] ELSE sess[s]]
\* Mutant: pending handoffs survive the revocation of their family.
KeptHandoffs(F) == handoff

RevokedHandoffs(F) ==
    [h \in Handoffs |-> IF handoff[h].st = "open" /\ handoff[h].fam \in F
                        THEN [handoff[h] EXCEPT !.st = "revoked"] ELSE handoff[h]]

revokeIdentityFamilyTx(F) ==
    /\ fam' = RevokedFams(F)
    /\ sess' = RevokedSessions(F)
    /\ handoff' = RevokedHandoffs(F)

\* The unrevoked family of a browser binding, expired or not.
Bound(k) == {f \in Families : fam[f].st = "live" /\ fam[f].bind = k}
\* The unrevoked family of a presented secret, expired or not.
Presented(tok) == {f \in Families : Matches(tok) /\ f = tok.f /\ fam[f].st = "live"}

Live(h) == handoff[h].st = "open" /\ clock < handoff[h].created + HandoffLife
Authorized(h) == handoff[h].fam # None
policyAllows(a, e) == e \in allowed[a]

-----------------------------------------------------------------------------
(***************************************************************************)
(* Requests and replies.                                                   *)
(***************************************************************************)
Event ==
    /\ spent.events < Events
    /\ spent' = [spent EXCEPT !.events = @ + 1]

\* `seen' is history: the unrevoked families the browser holds a cookie of.
Send(t, b) ==
    /\ tab[t].pc = "idle" /\ spent.requests < Requests
    /\ spent' = [spent EXCEPT !.requests = @ + 1]
    /\ tab' = [tab EXCEPT ![t] = [NoRequest EXCEPT !.pc = "open", !.b = b,
                                  !.gid = jar[b].gid, !.bind = jar[b].bind,
                                  !.seen = Bound(jar[b].bind) \cup Presented(jar[b].gid)]]
    /\ UNCHANGED <<clock, rows, allowed, jar, open, drawn, replayed>>

\* The handler of t goes on to pc with the fields of r.
Goto(t, r) == tab' = [tab EXCEPT ![t] = r]
Done(t) == Goto(t, NoRequest)
\* A reply that sets no cookie and closes nothing leaves no trace.
Reply(t, set, refs) ==
    Goto(t, IF set = Keep /\ refs = {} THEN NoRequest
            ELSE [tab[t] EXCEPT !.pc = "reply", !.set = set, !.refs = refs])

\* Reply that shows a sign-in form: a browser without a binding gets one.
ReplyWithForm(t, set, refs) ==
    \/ /\ tab[t].bind # None
       /\ Reply(t, set, refs)
       /\ UNCHANGED drawn
    \/ /\ tab[t].bind = None
       /\ \E k \in Fresh(Bindings \ drawn) :
            /\ drawn' = drawn \cup {k}
            /\ Goto(t, [tab[t] EXCEPT !.pc = "reply", !.set = set, !.refs = refs,
                                      !.newBind = k])

\* RevokeChildren closes the live connections of sessions a committed
\* transaction revoked, before the reply is written.
RevokeChildren(t) ==
    /\ tab[t].pc = "reply" /\ tab[t].refs # {}
    /\ open' = open \ tab[t].refs
    /\ tab' = [tab EXCEPT ![t].refs = {}]
    /\ UNCHANGED <<clock, rows, allowed, jar, drawn, replayed, spent>>

Deliver(t) ==
    /\ tab[t].pc = "reply" /\ tab[t].refs = {}
    /\ LET b == tab[t].b IN
         jar' = [jar EXCEPT
                   ![b].gid = IF tab[t].set = Keep THEN @ ELSE tab[t].set,
                   ![b].bind = IF tab[t].newBind = None THEN @ ELSE tab[t].newBind]
    /\ Done(t)
    /\ UNCHANGED <<clock, rows, allowed, open, drawn, replayed, spent>>

\* A request is denied without effect, fails, or its reply is lost.
Fail(t) ==
    /\ tab[t].pc # "idle" /\ tab[t].refs = {}
    /\ Done(t)
    /\ IF tab[t].pc \in {"open", "challenge"} THEN UNCHANGED spent ELSE Event
    /\ UNCHANGED <<clock, rows, allowed, jar, open, drawn, replayed>>

-----------------------------------------------------------------------------
(***************************************************************************)
(* Handoffs, on the application's host.                                    *)
(***************************************************************************)
\* Handoffs that are over are deleted with every new one.
Collectable(h) ==
    handoff[h].st \in {"consumed", "revoked"} \/ (handoff[h].st = "open" /\ ~Live(h))

CreateIdentityHandoff(a, h) ==
    /\ allowed[a] # {}     \* an active application allows at least its owner
    /\ handoff' = [g \in Handoffs |->
         IF g = h THEN [st |-> "open", app |-> a, force |-> FALSE, created |-> clock,
                        fam |-> None, bind |-> None]
         ELSE IF Collectable(g) THEN [handoff[g] EXCEPT !.st = "gone"]
         ELSE handoff[g]]

AppLogin(b, a) ==
    /\ \E h \in UnusedHandoff :
         /\ CreateIdentityHandoff(a, h)
         /\ \/ jar' = [jar EXCEPT ![b].state[a] = h] /\ UNCHANGED spent
            \/ UNCHANGED jar /\ Event
    /\ UNCHANGED <<clock, fam, chal, sess, allowed, tab, open, drawn, replayed>>

issueChildAppSessionTx(s, a, h) ==
    sess' = [sess EXCEPT ![s] = [st |-> "live", app |-> a, fam |-> handoff[h].fam,
                                 h |-> h]]

ConsumeIdentityHandoff(a, h) ==
    /\ Live(h) /\ Authorized(h) /\ handoff[h].app = a
    /\ fam[handoff[h].fam].st = "live"
    /\ clock < fam[handoff[h].fam].created + IdentityLife
    /\ policyAllows(a, fam[handoff[h].fam].email)
    /\ handoff' = [handoff EXCEPT ![h].st = "consumed"]
    /\ \E s \in UnusedSession : issueChildAppSessionTx(s, a, h)

\* The handoff is redeemed with the state cookie of the application's host.
AppCallback(b, a, h) ==
    /\ jar[b].state[a] = h
    /\ ConsumeIdentityHandoff(a, h)
    /\ \/ jar' = [jar EXCEPT ![b].state[a] = None] /\ UNCHANGED spent
       \/ UNCHANGED jar /\ Event
    /\ UNCHANGED <<clock, fam, chal, allowed, tab, open, drawn, replayed>>

\* Sign-out of one application: the session row, then its connection.
RevokeSession(s) ==
    /\ sess[s].st = "live"
    /\ sess' = [sess EXCEPT ![s].st = "revoked"]
    /\ open' = open \ {s}
    /\ UNCHANGED <<clock, fam, handoff, chal, allowed, jar, tab, drawn, replayed, spent>>

\* An app session opens a live connection; Live models the upgrade itself.
\* The session's own expiry only takes behaviours away and is left out.
Connect(s) ==
    /\ s \notin open
    /\ sess[s].st = "live" /\ fam[sess[s].fam].st = "live"
    /\ clock < fam[sess[s].fam].created + IdentityLife
    /\ policyAllows(sess[s].app, fam[sess[s].fam].email)
    /\ open' = open \cup {s}
    /\ UNCHANGED <<clock, rows, allowed, jar, tab, drawn, replayed, spent>>

-----------------------------------------------------------------------------
(***************************************************************************)
(* Requests that present the global identity cookie.                       *)
(***************************************************************************)

\* identitySessionTx and what its callers commit: a replayed secret revokes
\* its family, an unknown one changes nothing, a valid one is rotated when due.
CommitReplay(tok) ==
    /\ Replay(tok)
    /\ revokeIdentityFamilyTx({tok.f})
    /\ replayed' = replayed \cup {tok.f}

CommitUnknown(tok) ==
    /\ ~Recognised(tok)
    /\ UNCHANGED <<fam, sess, handoff, replayed>>

CommitValid(tok) ==
    /\ Valid(tok)
    /\ fam' = IF DueRotation(tok) THEN RotateRow(tok) ELSE fam
    /\ UNCHANGED <<sess, handoff, replayed>>

\* ReplacementToken, and the secret to go on with.
Replacement(tok) == IF DueRotation(tok) THEN Rotated(tok) ELSE Keep
Latest(tok) == IF DueRotation(tok) THEN Rotated(tok) ELSE tok

\* A sign-in form for a browser that presents no identity.
LoginForm(t) ==
    /\ tab[t].pc = "open" /\ tab[t].gid = None
    /\ ReplyWithForm(t, Keep, {})
    /\ UNCHANGED <<clock, rows, allowed, jar, open, replayed, spent>>

\* GET /_tinker/identity: ValidateIdentitySession, then the handoff.
identityPage(t) ==
    /\ tab[t].pc = "open" /\ tab[t].gid # None
    /\ LET tok == tab[t].gid IN
       \/ CommitReplay(tok) /\ ReplyWithForm(t, None, Children({tok.f}))
       \/ CommitUnknown(tok) /\ ReplyWithForm(t, None, {})
       \/ /\ CommitValid(tok)
          /\ Goto(t, [tab[t] EXCEPT !.pc = "authorize", !.raw = Latest(tok),
                                    !.set = Replacement(tok)])
          /\ UNCHANGED drawn
    /\ UNCHANGED <<clock, chal, allowed, jar, open, spent>>

AuthorizeIdentityHandoff(t, h) ==
    /\ tab[t].pc = "authorize"
    /\ \/ /\ Valid(tab[t].raw)
          /\ Live(h) /\ ~handoff[h].force /\ ~Authorized(h)
          /\ policyAllows(handoff[h].app, fam[tab[t].raw.f].email)
          /\ handoff' = [handoff EXCEPT ![h].fam = tab[t].raw.f]
       \/ UNCHANGED handoff
    /\ Reply(t, tab[t].set, {})
    /\ UNCHANGED <<clock, fam, chal, sess, allowed, jar, open, drawn, replayed, spent>>

\* A request to the catalog: AuthenticateViewer sends the replacement back.
AuthenticateViewer(t) ==
    /\ tab[t].pc = "open" /\ tab[t].gid # None
    /\ LET tok == tab[t].gid IN
       \/ CommitReplay(tok) /\ Reply(t, None, Children({tok.f}))
       \/ CommitUnknown(tok) /\ Reply(t, None, {})
       \/ CommitValid(tok) /\ Reply(t, Replacement(tok), {})
    /\ UNCHANGED <<clock, chal, allowed, jar, open, drawn, spent>>

\* AuthenticateDashboardIdentity looks the role up in the same transaction;
\* without one it is rolled back.
HasRole(tok) == fam[tok.f].email \in Roles
CommitNoRole(tok) ==
    /\ Valid(tok) /\ ~HasRole(tok)
    /\ UNCHANGED <<fam, sess, handoff, replayed>>

\* A dashboard request.  AuthenticatePlatform returns on every error before
\* the call that closes the sessions a replay revoked.
AuthenticatePlatform(t) ==
    /\ tab[t].pc = "open" /\ tab[t].gid # None
    /\ LET tok == tab[t].gid IN
       \/ (CommitReplay(tok) \/ CommitUnknown(tok)) /\ Reply(t, None, {})
       \/ CommitNoRole(tok) /\ Reply(t, Keep, {})
       \/ CommitValid(tok) /\ HasRole(tok) /\ Reply(t, Replacement(tok), {})
    /\ UNCHANGED <<clock, chal, allowed, jar, open, drawn, spent>>

\* GET /login with an identity: it is validated, and then authenticated again
\* for the dashboard with the secret the request presented.
platformLoginPage(t) ==
    /\ tab[t].pc = "open" /\ tab[t].gid # None
    /\ LET tok == tab[t].gid IN
       \/ CommitReplay(tok) /\ ReplyWithForm(t, None, Children({tok.f}))
       \/ CommitUnknown(tok) /\ ReplyWithForm(t, None, {})
       \/ /\ CommitValid(tok)
          /\ Goto(t, [tab[t] EXCEPT !.pc = "dashboard"])
          /\ UNCHANGED drawn
    /\ UNCHANGED <<clock, chal, allowed, jar, open, spent>>

platformDashboard(t) ==
    /\ tab[t].pc = "dashboard"
    /\ LET tok == tab[t].gid IN
       \/ /\ CommitReplay(tok) \/ CommitUnknown(tok) \/ CommitNoRole(tok)
          /\ Reply(t, Keep, {})
       \/ CommitValid(tok) /\ HasRole(tok) /\ Reply(t, Replacement(tok), {})
    /\ UNCHANGED <<clock, chal, allowed, jar, open, drawn, spent>>

-----------------------------------------------------------------------------
(***************************************************************************)
(* One-time codes.                                                         *)
(***************************************************************************)
\* A new code supersedes the open ones for the same application (or, on the
\* platform, browser) and email.
NewChallenge(c, a, e, k, mailed) ==
    chal' = [d \in Challenges |->
        IF d = c THEN [st |-> "open", app |-> a, email |-> e, bind |-> k,
                       created |-> clock, attempts |-> 0, mailed |-> mailed]
        ELSE IF chal[d].st = "open" /\ chal[d].app = a /\ chal[d].email = e
                /\ chal[d].bind = k
             THEN [chal[d] EXCEPT !.st = "invalid"]
             ELSE chal[d]]

\* A form is processed only for a browser that has its binding.
Form(t) == tab[t].pc = "open" /\ tab[t].bind # None

\* requestOTP, first transaction: the handoff is bound to this browser.
RequestIdentityOTP(t, h, e) ==
    /\ Live(h) /\ ~Authorized(h)
    /\ handoff[h].bind \in {None, tab[t].bind}
    /\ handoff' = [handoff EXCEPT ![h].bind = tab[t].bind]
    /\ Goto(t, [tab[t] EXCEPT !.pc = "challenge", !.app = handoff[h].app, !.email = e,
                              !.ok = policyAllows(handoff[h].app, e)])
    /\ UNCHANGED <<clock, fam, chal, sess, allowed, jar, open, drawn, replayed, spent>>

requestOTP(t, h, e) == Form(t) /\ RequestIdentityOTP(t, h, e)

\* requestOTP, second transaction: the code, mailed only to an eligible email.
CreateChallenge(t) ==
    /\ tab[t].pc = "challenge"
    /\ \E c \in UnusedChallenge :
            NewChallenge(c, tab[t].app, tab[t].email, None, tab[t].ok)
    /\ Done(t)
    /\ UNCHANGED <<clock, fam, handoff, sess, allowed, jar, open, drawn, replayed, spent>>

RequestPlatformIdentityOTP(t, e) ==
    /\ \E c \in UnusedChallenge :
            NewChallenge(c, Platform, e, tab[t].bind, TRUE)
    /\ Done(t)
    /\ UNCHANGED <<clock, fam, handoff, sess, allowed, jar, open, drawn, replayed, spent>>

\* Mutant: a consumed challenge is accepted again.
CheckableAgain(c) ==
    /\ chal[c].st \in {"open", "consumed"}
    /\ clock < chal[c].created + ChallengeLife
    /\ chal[c].attempts < MaxAttempts

platformRequestOTP(t, e) == Form(t) /\ RequestPlatformIdentityOTP(t, e)

\* A code is looked at only while its challenge is open, fresh and below the
\* limit of attempts.
Checkable(c) ==
    /\ chal[c].st = "open"
    /\ clock < chal[c].created + ChallengeLife
    /\ chal[c].attempts < MaxAttempts

WrongCode(t, c) ==
    /\ Form(t)
    /\ Checkable(c) /\ (chal[c].app = Platform => chal[c].bind = tab[t].bind)
    /\ chal' = [chal EXCEPT ![c].attempts = @ + 1]
    /\ Done(t)
    /\ UNCHANGED <<clock, fam, handoff, sess, allowed, jar, open, drawn, replayed, spent>>

\* Mutant: a login of the same instant does not count as newer.
SupersededStrictly(k, c) ==
    \E f \in Bound(k) : /\ clock < fam[f].created + IdentityLife
                        /\ fam[f].created > chal[c].created

\* A login of this browser completed at or after the challenge was created.
Superseded(k, c) ==
    \E f \in Bound(k) : /\ clock < fam[f].created + IdentityLife
                        /\ fam[f].created >= chal[c].created

NewFamily(f, c, k) ==
    [st |-> "live", email |-> chal[c].email, bind |-> k, n |-> 0, until |-> 0,
     rotated |-> clock, created |-> clock, of |-> c]

\* Families a completed login replaces.
Replaced(t, force) ==
    Bound(tab[t].bind) \cup (IF force THEN Presented(tab[t].gid) ELSE {})

\* What both verifications share: the families replaced are revoked, a new
\* one is created for the browser binding and the challenge is consumed.
IssueIdentity(t, c, f, force) ==
    /\ ~Superseded(tab[t].bind, c)
    /\ force \/ ~Recognised(tab[t].gid)
    /\ fam' = [RevokedFams(Replaced(t, force)) EXCEPT ![f] = NewFamily(f, c, tab[t].bind)]
    /\ sess' = RevokedSessions(Replaced(t, force))
    /\ chal' = [chal EXCEPT ![c].st = "consumed"]
    /\ Reply(t, [f |-> f, n |-> 0], Children(Replaced(t, force)))

VerifyIdentityOTP(t, h, c) ==
    /\ Checkable(c) /\ chal[c].mailed /\ chal[c].app = handoff[h].app
    /\ Live(h) /\ policyAllows(handoff[h].app, chal[c].email)
    /\ handoff[h].bind = tab[t].bind
    /\ ~Authorized(h)
    /\ \E f \in UnusedFamily :
         /\ IssueIdentity(t, c, f, handoff[h].force)
         /\ handoff' = [RevokedHandoffs(Replaced(t, handoff[h].force)) EXCEPT ![h].fam = f]
    /\ UNCHANGED <<clock, allowed, jar, open, drawn, replayed, spent>>

verifyOTP(t, h, c) == Form(t) /\ VerifyIdentityOTP(t, h, c)

VerifyPlatformIdentityOTP(t, c, force) ==
    /\ Checkable(c) /\ chal[c].mailed
    /\ chal[c].app = Platform /\ chal[c].bind = tab[t].bind
    /\ \E f \in UnusedFamily : IssueIdentity(t, c, f, force)
    /\ handoff' = RevokedHandoffs(Replaced(t, force))
    /\ UNCHANGED <<clock, allowed, jar, open, drawn, replayed, spent>>

platformVerifyOTP(t, c, force) == Form(t) /\ VerifyPlatformIdentityOTP(t, c, force)

-----------------------------------------------------------------------------
(***************************************************************************)
(* Account switch and sign-out.                                            *)
(***************************************************************************)
useAnother(t, h) ==
    /\ tab[t].pc = "open"
    /\ Live(h)
    /\ handoff' = [handoff EXCEPT ![h].force = TRUE, ![h].fam = None]
    /\ ReplyWithForm(t, Keep, {})
    /\ UNCHANGED <<clock, fam, chal, sess, allowed, jar, open, replayed, spent>>

\* platformLogout checks its CSRF token, bound to the session, with a
\* validation that may rotate the secret or revoke the family.
platformLogout(t) ==
    /\ tab[t].pc = "open" /\ tab[t].gid # None
    /\ LET tok == tab[t].gid IN
       \/ CommitReplay(tok) /\ Done(t)
       \/ CommitValid(tok) /\ (Done(t) \/ Goto(t, [tab[t] EXCEPT !.pc = "signout"]))
    /\ UNCHANGED <<clock, chal, allowed, jar, open, drawn, spent>>

\* Mutant: the sessions a sign-out revoked are not closed.
SignedOutOpen(t, refs) ==
    Goto(t, [tab[t] EXCEPT !.pc = "reply", !.set = None, !.refs = {}, !.ok = TRUE])

\* The reply that reports a completed sign-out and clears the identity cookie.
SignedOut(t, refs) ==
    Goto(t, [tab[t] EXCEPT !.pc = "reply", !.set = None, !.refs = refs, !.ok = TRUE])

\* Mutant: a sign-out without a usable secret does not try the binding.
logoutWithoutFallback(t) ==
    /\ tab[t].pc \in {"open", "signout"}
    /\ tab[t].gid # None \/ tab[t].bind # None
    /\ LET F == Presented(tab[t].gid) IN
         revokeIdentityFamilyTx(F) /\ SignedOut(t, Children(F))
    /\ UNCHANGED <<clock, chal, allowed, jar, open, drawn, replayed, spent>>

\* logoutTo: the presented secret first; if it is missing or names no
\* unrevoked family, the browser binding.
logoutTo(t) ==
    /\ tab[t].pc \in {"open", "signout"}
    /\ tab[t].gid # None \/ tab[t].bind # None
    /\ LET F == Presented(tab[t].gid) IN
       \/ /\ F # {}
          /\ revokeIdentityFamilyTx(F)
          /\ SignedOut(t, Children(F))
       \/ /\ F = {}
          /\ IF tab[t].bind = None
             THEN SignedOut(t, {})
             ELSE Goto(t, [tab[t] EXCEPT !.pc = "fallback"])
          /\ UNCHANGED <<fam, sess, handoff>>
    /\ UNCHANGED <<clock, chal, allowed, jar, open, drawn, replayed, spent>>

RevokeIdentityBrowserBinding(t) ==
    /\ tab[t].pc = "fallback"
    /\ LET F == Bound(tab[t].bind) IN
       \/ /\ F # {}
          /\ revokeIdentityFamilyTx(F)
          /\ SignedOut(t, Children(F))
       \/ /\ F = {}
          /\ Done(t)
          /\ UNCHANGED <<fam, sess, handoff>>
    /\ UNCHANGED <<clock, chal, allowed, jar, open, drawn, replayed, spent>>

-----------------------------------------------------------------------------
(***************************************************************************)
(* Surroundings: time, policies, forgotten cookies, crashes.               *)
(***************************************************************************)
\* One tick is the write timeout of the server, thirty seconds: a request may
\* see the clock move, but not twice.
Tick ==
    /\ clock < MaxTime
    /\ \A t \in Tabs : ~tab[t].late
    /\ clock' = clock + 1
    /\ tab' = [t \in Tabs |-> [tab[t] EXCEPT !.late = tab[t].pc # "idle"]]
    /\ UNCHANGED <<rows, allowed, jar, open, drawn, replayed, spent>>

SetPolicy(a, S) ==
    /\ Event
    /\ allowed' = [allowed EXCEPT ![a] = S]
    /\ UNCHANGED <<clock, rows, jar, tab, open, drawn, replayed>>

Forget(b) ==
    /\ Event
    /\ \/ jar' = [jar EXCEPT ![b].gid = None]
       \/ jar' = [jar EXCEPT ![b].bind = None]
    /\ UNCHANGED <<clock, rows, allowed, tab, open, drawn, replayed>>

Crash ==
    /\ Event
    /\ open' = {}
    /\ tab' = [t \in Tabs |-> NoRequest]
    /\ UNCHANGED <<clock, rows, allowed, jar, drawn, replayed>>

HandlerStep(t) ==
    \/ RevokeChildren(t) \/ Deliver(t) \/ Fail(t)
    \/ LoginForm(t) \/ identityPage(t) \/ AuthenticateViewer(t) \/ AuthenticatePlatform(t)
    \/ platformLoginPage(t) \/ platformDashboard(t)
    \/ CreateChallenge(t) \/ platformLogout(t) \/ logoutTo(t)
    \/ RevokeIdentityBrowserBinding(t)
    \/ \E h \in Handoffs : AuthorizeIdentityHandoff(t, h) \/ useAnother(t, h)
    \/ \E h \in Handoffs, e \in Emails : requestOTP(t, h, e)
    \/ \E e \in Emails : platformRequestOTP(t, e)
    \/ \E c \in Challenges :
          \/ WrongCode(t, c)
          \/ \E h \in Handoffs : verifyOTP(t, h, c)
          \/ \E force \in BOOLEAN : platformVerifyOTP(t, c, force)

Next ==
    \/ \E t \in Tabs : (\E b \in Browsers : Send(t, b)) \/ HandlerStep(t)
    \/ \E b \in Browsers, a \in Apps : AppLogin(b, a)
    \/ \E b \in Browsers, a \in Apps, h \in Handoffs : AppCallback(b, a, h)
    \/ \E s \in Sids : RevokeSession(s) \/ Connect(s)
    \/ \E a \in Apps, S \in SUBSET Emails : SetPolicy(a, S)
    \/ \E b \in Browsers : Forget(b)
    \/ Tick \/ Crash

Spec == Init /\ [][Next]_vars

-----------------------------------------------------------------------------
(***************************************************************************)
(* Properties.                                                             *)
(***************************************************************************)

\* A browser has one login: whatever forms its tabs submit at once, a binding
\* has at most one unrevoked family, and revoking one is terminal for all it
\* granted.  No unrevoked app session and no handoff that could still become
\* one is left behind, even when a request validated before the revocation goes
\* on after it.
OneLoginPerBrowser ==
    /\ \A f, g \in Families :
          fam[f].st = "live" /\ fam[g].st = "live" /\ fam[f].bind = fam[g].bind => f = g
    /\ \A s \in Sids : sess[s].st = "live" => fam[sess[s].fam].st = "live"
    /\ \A h \in Handoffs : handoff[h].st = "open" /\ Authorized(h) =>
                            fam[handoff[h].fam].st = "live"

\* Nothing is redeemed twice: two app sessions never come from one handoff,
\* and two families never from one mailed code.
RedeemedOnce ==
    /\ \A r, s \in Sids : sess[r].st # "none" /\ sess[s].st # "none"
                            /\ sess[r].h = sess[s].h => r = s
    /\ \A f, g \in Families : fam[f].st # "none" /\ fam[g].st # "none"
                            /\ fam[f].of = fam[g].of => f = g

\* A sign-out that reports success has ended every login the browser held a
\* cookie of when it sent the request, the login of its binding as well as the
\* one its identity cookie names, however often others rotated or replaced
\* them meanwhile.  When the two cookies belong to different bindings, the
\* identity cookie decides: only its login is ended, and not even that one if
\* its secret was rotated out before the request was handled.
SignOutIsComplete ==
    \A t \in Tabs : tab[t].pc = "reply" /\ tab[t].ok =>
        \A f \in tab[t].seen :
            \/ fam[f].st = "revoked"
            \/ /\ tab[t].gid # None /\ fam[tab[t].gid.f].bind # tab[t].bind
               /\ f = tab[t].gid.f => ~Matches(tab[t].gid)

\* An older form never takes over a newer login: a family that replaces an
\* unexpired one of the same browser comes from a code requested after that
\* one was created.
NewerLoginWins ==
    [][\A f, g \in Families :
         /\ fam[f].st = "live" /\ clock < fam[f].created + IdentityLife
         /\ fam[g].st = "none" /\ fam'[g].st = "live"
         /\ fam'[g].bind = fam[f].bind
         => fam[f].created < chal[fam'[g].of].created]_vars

\* The live connections of a revoked session are closed, or about to be closed
\* by the request that revoked it before that request is answered: two tabs
\* that revoke at once, a sign-out and a reconnection leave none behind.  The
\* families revoked by a replay are the exception: AuthenticatePlatform drops
\* the sessions it should close.
RevokedIsClosed ==
    \A s \in open :
        sess[s].st = "revoked" =>
            sess[s].fam \in replayed \/ \E t \in Tabs : s \in tab[t].refs
=============================================================================
