---------------------------- MODULE ControlAuth ----------------------------
(***************************************************************************)
(* The authority of the control plane: the accounts, the one-time codes of *)
(* `tinker login`, the bearer tokens, and one application with its access  *)
(* mode and release.  Every operator below is one transaction of the       *)
(* server; module Client composes them with the commands of the tinker CLI.*)
(*                                                                         *)
(* Data kept: who an account is and whether it is active, whether a code   *)
(* can still be redeemed, whom a token speaks for, and which command's     *)
(* upload is live.  Scopes are left out: a CLI bearer has all of them, and *)
(* a token bound to the application is used by nobody here.                *)
(***************************************************************************)
EXTENDS Naturals, Sequences, FiniteSets

CONSTANTS
    Deployers,      \* addresses that deployers and operators use
    None,           \* no account, no release
    Earlier,        \* the release that was live before the commands ran
    MaxTokens,      \* bound on the bearer tokens ever issued
    MaxChallenges,  \* bound on the codes ever requested
    MaxAttempts,    \* config otp.max_attempts: wrong guesses a code survives
    Changes         \* bound on the steps of operator and host administrator

ASSUME ControlAssumption ==
    /\ MaxTokens \in Nat \ {0} /\ MaxChallenges \in Nat
    /\ MaxAttempts \in Nat \ {0} /\ Changes \in Nat
    /\ None \notin Deployers /\ Earlier # None

VARIABLES
    users,       \* table users: the account of each address
    tokens,      \* table api_tokens, in the order of their issue
    challenges,  \* table otp_challenges with purpose control, channel cli
    app,         \* the application's row, its policy mode and live release
    page,        \* allowlist shown to the operator, or {None}: no page open
    budget       \* administrative steps left

controlVars == <<users, tokens, challenges, app, page, budget>>

Roles == {"deployer", "operator"}
\* Suspended and revoked differ in the word only.
Statuses == {"active", "revoked"}

\* epoch is a history field: how often the operator took the address off the
\* allowlist.
Account == [role : Roles, status : Statuses, epoch : Nat]

Active(e) == users[e].status = "active"
ActiveDeployers == {e \in Deployers : Active(e) /\ users[e].role = "deployer"}

\* An installation in use: one operator, the deployers authorized, one of them
\* with a live CLI bearer, and the application absent or released.
ControlInit ==
    /\ \E o \in Deployers :
          users = [e \in Deployers |->
                     [role |-> IF e = o THEN "operator" ELSE "deployer",
                      status |-> "active", epoch |-> 0]]
    /\ \E e \in ActiveDeployers :
          /\ tokens = <<[email |-> e, bound |-> FALSE, revoked |-> FALSE,
                         epoch |-> 0]>>
          /\ app \in {[owner |-> None, status |-> "active", mode |-> "private",
                       current |-> None, confirmed |-> TRUE],
                      [owner |-> e, status |-> "active", mode |-> "private",
                       current |-> Earlier, confirmed |-> TRUE],
                      [owner |-> e, status |-> "active", mode |-> "public",
                       current |-> Earlier, confirmed |-> TRUE]}
    /\ challenges = <<>>
    /\ page = {None}
    /\ budget = Changes

-----------------------------------------------------------------------------
(***************************************************************************)
(* Signing in: one code at a time for an address, redeemed once.           *)
(***************************************************************************)

\* Closed: consumed, invalidated or expired.
Open(c) == c.state = "open"

\* Codes of an address that can still be redeemed are withdrawn.
Withdrawn(S) == [i \in DOMAIN challenges |->
                   IF challenges[i].email \in S /\ Open(challenges[i])
                   THEN [challenges[i] EXCEPT !.state = "closed"]
                   ELSE challenges[i]]

\* A new request withdraws the codes before it.
WithdrawEarlier(e) == Withdrawn({e})

\* ControlLogin.RequestOTP.  The code is mailed only to an active account, and
\* the caller cannot tell.
RequestOTP(e) ==
    /\ Len(challenges) < MaxChallenges
    /\ challenges' = Append(WithdrawEarlier(e),
                            [email |-> e, attempts |-> 0, state |-> "open",
                             mailed |-> Active(e), epoch |-> users[e].epoch])

\* Codes expire ten minutes after their issue.
ExpireChallenge ==
    /\ \E i \in DOMAIN challenges :
          /\ Open(challenges[i])
          /\ challenges' = [challenges EXCEPT ![i].state = "closed"]
    /\ UNCHANGED <<users, tokens, app, page, budget>>

\* ControlLogin.VerifyOTP: what the transaction decides for code i.
Redeemable(i) == Open(challenges[i]) /\ challenges[i].attempts < MaxAttempts

VerifyDenied(i, right) ==
    /\ ~(Redeemable(i) /\ right /\ Active(challenges[i].email))
    /\ challenges' = IF Redeemable(i) /\ ~right
                     THEN [challenges EXCEPT ![i].attempts = @ + 1]
                     ELSE challenges
    /\ UNCHANGED tokens

VerifyAccepted(i, right) ==
    /\ Redeemable(i) /\ right /\ Active(challenges[i].email)
    /\ Len(tokens) < MaxTokens
    /\ tokens' = Append(tokens, [email |-> challenges[i].email,
                                 bound |-> FALSE, revoked |-> FALSE,
                                 epoch |-> challenges[i].epoch])
    /\ challenges' = [challenges EXCEPT ![i].state = "closed"]

-----------------------------------------------------------------------------
(***************************************************************************)
(* Bearer tokens.                                                          *)
(***************************************************************************)

\* AuthenticateToken: the conditional update that admits a request.
Authentic(t) == ~tokens[t].revoked /\ Active(tokens[t].email)

\* The tokens for which P holds, revoked.
Revoked(P) == [t \in DOMAIN tokens |-> IF t \in P
                                       THEN [tokens[t] EXCEPT !.revoked = TRUE]
                                       ELSE tokens[t]]

TokensOf(S) == {t \in DOMAIN tokens : tokens[t].email \in S}
AppTokens == {t \in DOMAIN tokens : tokens[t].bound}

\* RevokeCurrentBearer: exactly the global token the request came with.
RevokeCurrentBearer(t) ==
    /\ ~tokens[t].bound /\ ~tokens[t].revoked
    /\ tokens' = Revoked({t})

OwnsActiveApp(a) == app.owner = a /\ app.status = "active"

\* Mutant: the status of the application is not looked at.
MayMintAnyStatus(a) == app.owner = a

MayMint(a) == OwnsActiveApp(a)

\* CreateToken: a token bound to the application, for the actor that was
\* authenticated earlier.
CreateToken(a) ==
    /\ MayMint(a)
    /\ Len(tokens) < MaxTokens
    /\ tokens' = Append(tokens, [email |-> a, bound |-> TRUE,
                                 revoked |-> FALSE, epoch |-> users[a].epoch])

\* RevokeToken: one live token of the application.
RevokeToken(a, t) ==
    /\ OwnsActiveApp(a)
    /\ t \in AppTokens \cap TokensOf({a}) /\ ~tokens[t].revoked
    /\ tokens' = Revoked({t})

-----------------------------------------------------------------------------
(***************************************************************************)
(* The application: one row, created once, released by activation.         *)
(***************************************************************************)

\* CreateApp: the account is looked up again, and the slug is unique.
CreateApp(a) ==
    /\ Active(a)
    /\ app.owner = None
    /\ app' = [app EXCEPT !.owner = a, !.status = "active", !.mode = "private"]

\* CommitActivation, as module ReleasePointer has it: release and policy mode
\* change together.  Making the application public takes an acknowledged
\* upload; confirmed is a history field: a person confirmed the step.
CommitActivation(a, release, public, ack, confirmed) ==
    /\ OwnsActiveApp(a)
    /\ public => ack \/ app.mode = "public"
    /\ app' = [app EXCEPT !.current = release,
                          !.mode = IF public THEN "public" ELSE "private",
                          !.confirmed = ~public \/ (app.mode = "public" /\ @)
                                                \/ confirmed]

-----------------------------------------------------------------------------
(***************************************************************************)
(* Administration: the host's deployers and operators commands, and the    *)
(* operator's allowlist and suspension in the dashboard.                   *)
(***************************************************************************)

Change == budget > 0 /\ budget' = budget - 1

\* SetDeployerStatus: an operator's account keeps its status, but loses its
\* tokens; codes are left alone.
SetDeployerStatus(e, status) ==
    /\ Change
    /\ users' = IF users[e].role = "operator" THEN users
                ELSE [users EXCEPT ![e].status = status]
    /\ tokens' = IF status = "active" THEN tokens ELSE Revoked(TokensOf({e}))
    /\ UNCHANGED <<challenges, app, page>>

\* RecoverOperator: the tokens of every operator are revoked, the operators
\* replaced by the account of e.
RecoverOperator(e) ==
    LET operators == {o \in Deployers : users[o].role = "operator"} IN
    /\ Change
    /\ tokens' = Revoked(TokensOf(operators))
    /\ users' = [o \in Deployers |->
                   IF o = e THEN [users[o] EXCEPT !.role = "operator",
                                                  !.status = "active"]
                   ELSE IF o \in operators /\ Active(o)
                        THEN [users[o] EXCEPT !.status = "revoked"]
                        ELSE users[o]]
    /\ UNCHANGED <<challenges, app, page>>

\* The operator opens the allowlist; its revision is the digest of the set.
ShowDeployers ==
    /\ Change
    /\ page' = ActiveDeployers
    /\ UNCHANGED <<users, tokens, challenges, app>>

\* Mutant: the codes of a removed deployer stay open.
LoseCodesWhenAdded(added, removed) == added

\* Whoever comes off the allowlist, or back on it, loses open codes.
LoseCodes(added, removed) == added \cup removed

\* ReplaceActiveDeployers: refused when the allowlist is no longer the one
\* that was shown.
ReplaceActiveDeployers(S) ==
    LET added == S \ ActiveDeployers
        removed == ActiveDeployers \ S
    IN  /\ page = ActiveDeployers
        /\ \A e \in S : users[e].role = "deployer"
        /\ users' = [e \in Deployers |->
             IF e \in added THEN [users[e] EXCEPT !.status = "active"]
             ELSE IF e \in removed
                  THEN [users[e] EXCEPT !.status = "revoked", !.epoch = @ + 1]
                  ELSE users[e]]
        /\ tokens' = Revoked(TokensOf(removed))
        /\ challenges' = Withdrawn(LoseCodes(added, removed))
        /\ page' = {None}
        /\ UNCHANGED <<app, budget>>

\* SetAppStatus: suspension revokes the application's tokens.
SetAppStatus(status) ==
    /\ Change
    /\ app.owner # None /\ app.status # status
    /\ app' = [app EXCEPT !.status = status]
    /\ tokens' = IF status = "suspended" THEN Revoked(AppTokens) ELSE tokens
    /\ UNCHANGED <<users, challenges, page>>

Administer ==
    \/ \E e \in Deployers, s \in Statuses : SetDeployerStatus(e, s)
    \/ \E e \in Deployers : RecoverOperator(e)
    \/ ShowDeployers
    \/ \E S \in SUBSET Deployers : ReplaceActiveDeployers(S)
    \/ \E s \in {"active", "suspended"} : SetAppStatus(s)
    \/ ExpireChallenge

-----------------------------------------------------------------------------

Tokens == 1..MaxTokens
Codes == 1..MaxChallenges

ControlTypeOK ==
    /\ users \in [Deployers -> Account]
    /\ tokens \in Seq([email : Deployers, bound : BOOLEAN, revoked : BOOLEAN,
                       epoch : Nat])
    /\ Len(tokens) <= MaxTokens
    /\ challenges \in Seq([email : Deployers, attempts : 0..MaxAttempts,
                           state : {"open", "closed"},
                           mailed : BOOLEAN, epoch : Nat])
    /\ Len(challenges) <= MaxChallenges
    /\ app.owner \in Deployers \cup {None}
    /\ app.status \in {"active", "suspended"}
    /\ app.mode \in {"private", "public"}
    /\ app.confirmed \in BOOLEAN
    /\ page = {None} \/ page \in SUBSET Deployers
    /\ budget \in 0..Changes

\* A CLI bearer that is not revoked was signed in for after its address last
\* came off the operator's allowlist: neither a token nor a code from before
\* a removal is good again once the address is re-admitted
\* (ReplaceActiveDeployers, VerifyOTP, SetDeployerStatus).
RemovalIsFinal ==
    \A t \in DOMAIN tokens :
        ~tokens[t].bound /\ ~tokens[t].revoked
            => tokens[t].epoch = users[tokens[t].email].epoch

\* A suspended application has no live token of its own, whatever requests
\* were admitted before the suspension (SetAppStatus, CreateToken).
SuspendedHasNoTokens ==
    app.status = "suspended" => \A t \in AppTokens : tokens[t].revoked
=============================================================================
