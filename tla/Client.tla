------------------------------- MODULE Client -------------------------------
(***************************************************************************)
(* The tinker CLI against the control API.  Several commands of one person *)
(* run at once (terminals, a CI job); they share the credential file and   *)
(* the server.  A command is a sequence of requests.  A request that       *)
(* writes is admitted (AuthenticateControl) and handled in two             *)
(* transactions, with other steps between them; its answer may be lost.    *)
(*                                                                         *)
(* Kinds: login, logout, deploy, tokens create, tokens revoke.  Commands   *)
(* that only read, the remembered server URL and the client's JSON checks  *)
(* are left out.  A read is admitted and answered in one step.  A command  *)
(* that is interrupted is one whose answer is lost.                        *)
(***************************************************************************)
EXTENDS ControlAuth

CONSTANTS
    Commands,      \* processes of the CLI
    Kinds,         \* the kinds of command that are run
    MaxRuns,       \* bound on the commands ever started
    ProbeAttempts, \* publicProbeMaxAttempts
    AuthFaults     \* may admitting a request fail in the database?

ASSUME ClientAssumption ==
    /\ Kinds \subseteq {"login", "logout", "deploy", "mint", "unmint"}
    /\ MaxRuns \in Nat /\ ProbeAttempts \in Nat \ {0}
    /\ AuthFaults \in BOOLEAN
    /\ {None, Earlier} \cap Commands = {}

VARIABLES
    store,   \* the credential file: a token, or 0 when there is none
    cmd,     \* the state of each command
    release, \* what became of the upload of each command
    runs     \* commands that may still be started

clientVars == <<store, cmd, release, runs>>
vars == <<users, tokens, challenges, app, page, budget,
          store, cmd, release, runs>>

\* Where a command is: a request that was sent, or a step of its own.
Reads == {"check", "whoami", "list", "relist", "access"}
Writes == {"logout", "create", "upload", "activate", "mint", "unmint"}
Requests == Reads \cup Writes \cup {"otp", "verify"}
Steps == {"idle", "get", "put", "delete", "confirm", "probe"}

\* actor: who a write was admitted for; None before.
Idle == [kind |-> "none", at |-> "idle", actor |-> None, human |-> TRUE,
         force |-> FALSE, public |-> FALSE, flag |-> FALSE, token |-> 0,
         code |-> 0, ack |-> FALSE, confirmed |-> FALSE, tries |-> 0,
         exit |-> "none"]

Init ==
    /\ ControlInit
    /\ store \in {0, 1}
    /\ cmd = [p \in Commands |-> Idle]
    /\ release = [p \in Commands |-> "none"]
    /\ runs = MaxRuns

-----------------------------------------------------------------------------
(***************************************************************************)
(* The commands: how command c goes on when its request is answered r.     *)
(***************************************************************************)

To(c, s) == [c EXCEPT !.at = s, !.actor = None]

\* The command exits.  Only what a deploy reported is remembered.
Exit(c, report) == IF c.kind = "deploy"
                   THEN [Idle EXCEPT !.kind = "deploy", !.exit = report]
                   ELSE Idle

\* A token that works: login is done, deploy goes on.
SignedIn(c) == IF c.kind = "login" THEN Exit(c, "ok") ELSE To(c, "list")

\* login with a saved token: only a definite refusal leads to a new code.
AfterCheck(c, r) ==
    CASE r = "ok" -> SignedIn(c)
      [] r = "unauthorized" -> [To(c, "otp") EXCEPT !.token = 0]
      [] OTHER -> Exit(c, "failed")

\* LoginWithClient: code, token, and the proof of the token's identity.
AfterLogin(c, r) ==
    IF r # "ok" THEN Exit(c, "failed")
    ELSE To(c, CASE c.at = "otp" -> "verify"
                 [] c.at = "verify" -> "whoami"
                 [] c.at = "whoami" -> "put")

\* logout: the file follows the server.
AfterLogout(c, r) ==
    IF r \in {"ok", "unauthorized"} THEN To(c, "delete") ELSE Exit(c, "failed")

\* EnsureApp: the caller's list, then a create, then the list again.
AfterEnsure(c, r) ==
    CASE r = "ok" -> To(c, IF c.public THEN "access" ELSE "upload")
      [] c.at = "list" /\ r = "absent" -> To(c, "create")
      [] c.at = "create" /\ r # "ok" -> To(c, "relist")
      [] OTHER -> Exit(c, "failed")

\* The policy read decides whether this deploy broadens access; anything but
\* a public policy does.  ack holds that until the person is asked.
AfterAccess(c, r) == [To(c, "confirm") EXCEPT !.ack = r # "public"]

\* Mutant: any failure of the activation request is reported as a refusal.
ActivationReportAny(r) == "activation_failed"

\* activationFailure: only the server's own refusal says "not activated".
ActivationReport(r) ==
    IF r = "conflict" THEN "activation_failed" ELSE "failed"

\* Deploy: upload, activate, then probe as anybody would.
AfterDeploy(c, r) ==
    CASE r = "ok" -> To(c, IF c.at = "upload" THEN "activate" ELSE "probe")
      [] c.at = "activate" /\ r # "ok" -> Exit(c, ActivationReport(r))
      [] OTHER -> Exit(c, "failed")

After(c, r) ==
    CASE c.at = "check" -> AfterCheck(c, r)
      [] c.at \in {"otp", "verify", "whoami"} -> AfterLogin(c, r)
      [] c.at = "logout" -> AfterLogout(c, r)
      [] c.at \in {"list", "create", "relist"} -> AfterEnsure(c, r)
      [] c.at = "access" -> AfterAccess(c, r)
      [] c.at \in {"upload", "activate"} -> AfterDeploy(c, r)
      [] c.at \in {"mint", "unmint"} -> Exit(c, r)

Becomes(p, c) == cmd' = [cmd EXCEPT ![p] = c]

\* client.Do: the answer arrives, or the transport fails.
Answer(p, c, r) == \E got \in {r, "lost"} : Becomes(p, After(c, got))

-----------------------------------------------------------------------------
(***************************************************************************)
(* Requests: Dispatcher.ServeHTTP.                                         *)
(***************************************************************************)

At(p, s) == cmd[p].at = s
Admitted(p, s) == At(p, s) /\ cmd[p].actor # None

\* AuthenticateControl and AuthenticateToken: a write is admitted, or answered
\* 401.  An error of the database is answered 401 as well.
Admit(p) ==
    /\ cmd[p].at \in Writes /\ cmd[p].actor = None
    /\ \/ /\ Authentic(cmd[p].token)
          /\ Becomes(p, [cmd[p] EXCEPT !.actor = tokens[cmd[p].token].email])
       \/ /\ ~Authentic(cmd[p].token) \/ AuthFaults
          /\ Answer(p, cmd[p], "unauthorized")
    /\ UNCHANGED <<controlVars, store, release, runs>>

\* The request does not arrive.
Lose(p) ==
    /\ cmd[p].at \in Requests /\ cmd[p].actor = None
    /\ Becomes(p, After(cmd[p], "lost"))
    /\ UNCHANGED <<controlVars, store, release, runs>>

\* whoami, the caller's applications, the access policy.
Read(p) ==
    LET owns == OwnsActiveApp(tokens[cmd[p].token].email) IN
    /\ cmd[p].at \in Reads
    /\ \/ /\ Authentic(cmd[p].token)
          /\ Answer(p, cmd[p],
                    CASE cmd[p].at \in {"check", "whoami"} -> "ok"
                      [] cmd[p].at \in {"list", "relist"} ->
                           IF owns THEN "ok" ELSE "absent"
                      [] cmd[p].at = "access" ->
                           IF owns THEN app.mode ELSE "unauthorized")
       \/ /\ ~Authentic(cmd[p].token) \/ AuthFaults
          /\ Answer(p, cmd[p], "unauthorized")
    /\ UNCHANGED <<controlVars, store, release, runs>>

\* POST auth/otp, for the address the person typed.
HandleOTP(p) ==
    /\ At(p, "otp")
    /\ \E e \in Deployers : RequestOTP(e)
    /\ Answer(p, [cmd[p] EXCEPT !.code = Len(challenges')], "ok")
    /\ UNCHANGED <<users, tokens, app, page, budget, store, release, runs>>

\* POST auth/verify.  The person types the code that was mailed, or a wrong
\* one.
HandleVerify(p) ==
    /\ At(p, "verify")
    /\ \E right \in BOOLEAN :
          /\ right => challenges[cmd[p].code].mailed
          /\ \/ /\ VerifyAccepted(cmd[p].code, right)
                /\ Answer(p, [cmd[p] EXCEPT !.token = Len(tokens')], "ok")
             \/ /\ VerifyDenied(cmd[p].code, right)
                /\ Answer(p, cmd[p], "unauthorized")
    /\ UNCHANGED <<users, app, page, budget, store, release, runs>>

\* POST auth/logout: 204, or 503 when the row was revoked meanwhile.
HandleLogout(p) ==
    LET t == cmd[p].token IN
    /\ Admitted(p, "logout")
    /\ \/ RevokeCurrentBearer(t) /\ Answer(p, cmd[p], "ok")
       \/ /\ tokens[t].revoked /\ UNCHANGED tokens
          /\ Answer(p, cmd[p], "unavailable")
    /\ UNCHANGED <<users, challenges, app, page, budget, store, release, runs>>

\* POST tokens: a token for the actor that was admitted.
HandleCreateToken(p) ==
    /\ Admitted(p, "mint")
    /\ \/ CreateToken(cmd[p].actor)
       \/ ~MayMint(cmd[p].actor) /\ UNCHANGED tokens
    /\ Becomes(p, Exit(cmd[p], "ok"))
    /\ UNCHANGED <<users, challenges, app, page, budget, store, release, runs>>

\* DELETE tokens: a token of the application, or a name that is none.
HandleRevokeToken(p) ==
    /\ Admitted(p, "unmint")
    /\ \/ \E t \in DOMAIN tokens : RevokeToken(cmd[p].actor, t)
       \/ UNCHANGED tokens
    /\ Becomes(p, Exit(cmd[p], "ok"))
    /\ UNCHANGED <<users, challenges, app, page, budget, store, release, runs>>

\* POST apps.  Quotas and the write gate may refuse as well: 409.
HandleCreateApp(p) ==
    /\ Admitted(p, "create")
    /\ \/ CreateApp(cmd[p].actor) /\ Answer(p, cmd[p], "ok")
       \/ UNCHANGED app /\ Answer(p, cmd[p], "conflict")
    /\ UNCHANGED <<users, tokens, challenges, page, budget, store, release,
                   runs>>

\* POST deployments: the archive is verified, or the upload refused.
HandleUpload(p) ==
    /\ Admitted(p, "upload")
    /\ \/ /\ OwnsActiveApp(cmd[p].actor)
          /\ release' = [release EXCEPT ![p] = "verified"]
          /\ Answer(p, cmd[p], "ok")
       \/ UNCHANGED release /\ Answer(p, cmd[p], "conflict")
    /\ UNCHANGED <<controlVars, store, runs>>

\* POST activate: committed, or 409 with the gate that refused.
HandleActivate(p) ==
    LET c == cmd[p] IN
    /\ Admitted(p, "activate")
    /\ \/ /\ CommitActivation(c.actor, p, c.public, c.ack, c.confirmed)
          /\ release' = [q \in Commands |->
                           IF q = p THEN "active"
                           ELSE IF release[q] = "active" THEN "superseded"
                           ELSE release[q]]
          /\ Answer(p, c, "ok")
       \/ UNCHANGED <<app, release>> /\ Answer(p, c, "conflict")
    /\ UNCHANGED <<users, tokens, challenges, page, budget, store, runs>>

-----------------------------------------------------------------------------
(***************************************************************************)
(* The steps of a command on its own machine.                              *)
(***************************************************************************)

\* runWith: a command starts with its flags; with --json nobody is asked.
Start(p, k) ==
    /\ cmd[p] = Idle /\ runs > 0
    /\ runs' = runs - 1
    /\ \E human, force, public, flag \in BOOLEAN :
          /\ ~human \/ public => k = "deploy"
          /\ force => k = "login"
          /\ flag => public
          /\ Becomes(p, [Idle EXCEPT !.kind = k, !.at = "get",
                                     !.human = human, !.force = force,
                                     !.public = public, !.flag = flag])
    /\ UNCHANGED <<controlVars, store, release>>

SignsIn(c) == c.kind = "login" \/ (c.kind = "deploy" /\ c.human)

\* FileStore.Get, and what the command does with the answer: login and a
\* person's deploy check a saved token, and ask for a code without one; the
\* other commands need it.
Get(p) ==
    LET c == cmd[p]
        first == IF c.kind = "deploy" THEN "list" ELSE c.kind
    IN
    /\ At(p, "get")
    /\ \/ /\ SignsIn(c) /\ (c.force \/ store = 0)
          /\ Becomes(p, To(c, "otp"))
       \/ /\ SignsIn(c) /\ ~c.force /\ store # 0
          /\ Becomes(p, [To(c, "check") EXCEPT !.token = store])
       \/ /\ ~SignsIn(c) /\ store # 0
          /\ Becomes(p, [To(c, first) EXCEPT !.token = store])
       \/ ~SignsIn(c) /\ store = 0 /\ Becomes(p, Exit(c, "failed"))
    /\ UNCHANGED <<controlVars, store, release, runs>>

\* FileStore.Put: the file is replaced atomically, or not at all.
Put(p) ==
    /\ At(p, "put")
    /\ \/ store' = cmd[p].token /\ Becomes(p, SignedIn(cmd[p]))
       \/ UNCHANGED store /\ Becomes(p, Exit(cmd[p], "failed"))
    /\ UNCHANGED <<controlVars, release, runs>>

\* FileStore.Delete removes the file of the server, whatever is in it.
Delete(p) ==
    /\ At(p, "delete")
    /\ store' \in {0, store}
    /\ Becomes(p, Exit(cmd[p], "ok"))
    /\ UNCHANGED <<controlVars, release, runs>>

\* Mutant: without a terminal to ask at, the deploy goes on unasked.
ConfirmUnattended(p) ==
    LET c == cmd[p] IN
    /\ At(p, "confirm")
    /\ Becomes(p, [To(c, "upload") EXCEPT !.ack = c.flag \/ c.ack,
                                          !.confirmed = c.flag \/ (c.ack /\ c.human)])
    /\ UNCHANGED <<controlVars, store, release, runs>>

\* deployer.PublicAcknowledged is the flag, or a broadening just confirmed.  A
\* broadening is confirmed by the flag or by a phrase the person types; without
\* either the deploy ends.
Confirm(p) ==
    LET c == cmd[p] IN
    /\ At(p, "confirm")
    /\ \/ /\ c.flag \/ ~c.ack \/ c.human
          /\ Becomes(p, [To(c, "upload") EXCEPT !.ack = c.flag \/ c.ack,
                                                !.confirmed = c.flag \/ c.ack])
       \/ c.ack /\ ~c.flag /\ Becomes(p, Exit(c, "failed"))
    /\ UNCHANGED <<controlVars, store, release, runs>>

\* probePublicStaticOnce: anybody is served the bytes of this release.
SeenPublic(p) == app.mode = "public" /\ app.current = p

\* probePublicDeploymentOnce: anybody is refused.  Which release stands behind
\* the refusal cannot be seen.
SeenPrivate(p) == app.mode = "private"

SeenAsExpected(p) ==
    /\ app.status = "active"
    /\ IF cmd[p].public THEN SeenPublic(p) ELSE SeenPrivate(p)

\* verifyPublicDeployment: transport errors and an origin that is not ready
\* are tried again, up to the limit; a wrong answer is final.
Probe(p) ==
    /\ At(p, "probe")
    /\ \/ SeenAsExpected(p) /\ Becomes(p, Exit(cmd[p], "ok"))
       \/ /\ cmd[p].tries < ProbeAttempts - 1
          /\ Becomes(p, [cmd[p] EXCEPT !.tries = @ + 1])
       \/ /\ cmd[p].tries = ProbeAttempts - 1 \/ ~SeenAsExpected(p)
          /\ Becomes(p, Exit(cmd[p], "unverified"))
    /\ UNCHANGED <<controlVars, store, release, runs>>

-----------------------------------------------------------------------------

Handle(p) ==
    \/ Admit(p) \/ Lose(p) \/ Read(p) \/ HandleOTP(p) \/ HandleVerify(p)
    \/ HandleLogout(p) \/ HandleCreateToken(p) \/ HandleRevokeToken(p)
    \/ HandleCreateApp(p) \/ HandleUpload(p) \/ HandleActivate(p)

Proceed(p) == Get(p) \/ Put(p) \/ Delete(p) \/ Confirm(p) \/ Probe(p)

Next ==
    \/ \E p \in Commands :
          \/ \E k \in Kinds : Start(p, k)
          \/ Handle(p) \/ Proceed(p)
    \/ Administer /\ UNCHANGED clientVars

Spec == Init /\ [][Next]_vars

-----------------------------------------------------------------------------

TypeOK ==
    /\ ControlTypeOK
    /\ store \in 0..MaxTokens
    /\ cmd \in [Commands ->
         [kind : {"none", "login", "logout", "deploy", "mint", "unmint"},
          at : Requests \cup Steps, actor : Deployers \cup {None},
          human : BOOLEAN, force : BOOLEAN, public : BOOLEAN, flag : BOOLEAN,
          token : 0..MaxTokens, code : 0..MaxChallenges, ack : BOOLEAN,
          confirmed : BOOLEAN, tries : 0..(ProbeAttempts - 1),
          exit : {"none", "ok", "failed", "activation_failed", "unverified"}]]
    /\ release \in [Commands -> {"none", "verified", "active", "superseded"}]
    /\ runs \in 0..MaxRuns

\* The application became public only through a deploy whose person confirmed
\* it, by flag or by phrase: a policy read that is stale when the upload
\* arrives never stands for a confirmation (runWith deploy, CommitActivation).
BroadeningIsConfirmed == app.mode = "public" => app.confirmed

\* What deploy reports is true of the server: success and "active but
\* unverified" mean that the activation was committed, "activation failed"
\* that it was not, whichever answers were lost (Deploy, activationFailure).
ReportsAreTruthful ==
    \A p \in Commands :
        /\ cmd[p].exit \in {"ok", "unverified"}
               => release[p] \in {"active", "superseded"}
        /\ cmd[p].exit = "activation_failed" => release[p] = "verified"
=============================================================================
