--------------------------------- MODULE Llm ---------------------------------
(***************************************************************************)
(* The chat capability of one application: the rate table in memory, the   *)
(* monthly usage and the reservations in the database, the profiles,       *)
(* connections and policies that operators edit, and the provider.         *)
(*                                                                         *)
(* A chat reads the limits in force, takes a permit in the rate table,     *)
(* reserves its estimated largest use in one transaction, calls the        *)
(* provider and settles the reservation in another transaction.  Tokens    *)
(* are counted in small numbers; a month is MonthLength ticks.             *)
(* No name of its own is one of RateLimits', so that LimitsProofs can      *)
(* extend both.                                                            *)
(***************************************************************************)
EXTENDS Integers, FiniteSets, Functions

CONSTANTS
    Chats,        \* chat requests
    ViewerOf,     \* the viewer of each
    InputOf,      \* estimated input tokens of each
    WantsOf,      \* the output limit each asks for, 0 for none
    Profiles, Connections,
    LimitsSet,    \* the limits a profile may have
    Quotas,       \* token quotas an operator may set, Unset for unlimited
    MonthLength, LastTick, MaxRateKeys,
    MaxReported,   \* bound: the input tokens a provider reports
    Edits, Faults, \* bounds
    Unset

ASSUME ChatsType == /\ InputOf \in [Chats -> Nat \ {0}] /\ WantsOf \in [Chats -> Nat]
                    /\ IsFiniteSet(Chats)
ASSUME BoundsType == /\ {LastTick, MaxRateKeys, MaxReported, Edits, Faults} \subseteq Nat
                     /\ MonthLength \in Nat \ {0}
ASSUME QuotasType == Quotas \subseteq (Nat \ {0}) \cup {Unset}
ASSUME LimitsType == LimitsSet \subseteq
    [output : Nat \ {0}, viewer : Nat \ {0}, app : Nat \ {0}, window : Nat \ {0}, calls : Nat \ {0}]

App == "app"
RateKeys == {App} \cup {ViewerOf[c] : c \in Chats}

VARIABLES
    time,
    status,   \* applications.status
    host,     \* llm_host_policy
    policy,   \* app_llm_policies, Unset without a row
    conn,     \* provider_connections.status
    prof,     \* llm_chat_profiles: connection and limits, Unset without a row
    default,  \* the default profile
    usage,    \* llm_usage of every month
    res,      \* llm_reservations
    rates,    \* the rate table: marks by key
    chat,     \* the requests
    lost,     \* history: chats whose settlement was prevented
    edits, faults

config == <<status, host, policy, conn, prof, default>>
ledger == <<usage, res>>
chatVars == <<time, config, ledger, rates, chat, lost, edits, faults>>

Month(t) == t \div MonthLength
Months == 0..Month(LastTick)

NoReservation == [st |-> "none", month |-> 0, tokens |-> 0, used |-> 0]
Fresh == [pc |-> "new", now |-> 0, lim |-> Unset, usage |-> 0, outcome |-> Unset]

Counters == [used : Nat, reserved : Nat, flying : Nat]

LlmTypeOK ==
    /\ time \in 0..LastTick /\ status \in {"active", "suspended", "deleted"}
    /\ host \in [on : BOOLEAN, quota : Quotas]
    /\ policy \in [on : BOOLEAN, mode : {"inherit", "unlimited", "specific"},
                   quota : Quotas \cup {Unset}] \cup {Unset}
    /\ conn \in [Connections -> {"none", "active", "disabled"}]
    /\ prof \in [Profiles -> [conn : Connections, lim : LimitsSet] \cup {Unset}]
    /\ default \in Profiles
    /\ usage \in [Months -> Counters]
    /\ res \in [Chats -> [st : {"none", "calling", "succeeded", "failed", "ambiguous", "deleted"},
                          month : Months, tokens : Nat, used : Nat]]
    /\ rates \in [RateKeys -> SUBSET [id : Chats, at : 0..LastTick]]
    /\ chat \in [Chats -> [pc : {"new", "rate", "admit", "call", "settle", "done", "denied"},
                           now : 0..LastTick, lim : LimitsSet \cup {Unset}, usage : Nat,
                           outcome : {Unset, "succeeded", "failed", "ambiguous"}]]
    /\ lost \subseteq Chats
    /\ edits \in 0..Edits /\ faults \in 0..Faults

ChatInit ==
    /\ time = 0 /\ status = "active"
    /\ host \in [on : {TRUE}, quota : Quotas] /\ policy = Unset
    /\ \E p \in Profiles, k \in Connections, l \in LimitsSet :
         /\ conn = [j \in Connections |-> IF j = k THEN "active" ELSE "none"]
         /\ prof = [q \in Profiles |-> IF q = p THEN [conn |-> k, lim |-> l] ELSE Unset]
         /\ default = p
    /\ usage = [m \in Months |-> [used |-> 0, reserved |-> 0, flying |-> 0]]
    /\ res = [c \in Chats |-> NoReservation]
    /\ rates = [k \in RateKeys |-> {}]
    /\ chat = [c \in Chats |-> Fresh]
    /\ lost = {}
    /\ edits = Edits /\ faults = Faults

Fault == faults > 0 /\ faults' = faults - 1
NoFault == UNCHANGED faults
Edit == edits > 0 /\ edits' = edits - 1

-----------------------------------------------------------------------------
(***************************************************************************)
(* Admission.                                                              *)
(***************************************************************************)
\* The active application, default profile, connection and policies.
Enabled ==
    /\ status = "active" /\ host.on
    /\ prof[default] # Unset /\ conn[prof[default].conn] = "active"
    /\ policy # Unset => policy.on

\* The quota in force: the application's own, or the host's when it inherits.
effectiveQuota ==
    IF policy = Unset \/ policy.mode = "inherit" THEN host.quota
    ELSE IF policy.mode = "unlimited" THEN Unset
    ELSE policy.quota

Committed(m) == usage[m].used + usage[m].reserved

\* The request asks for no more output than the profile allows.
validateRequest(c, lim) == WantsOf[c] <= lim.output

Deny(c) == chat' = [chat EXCEPT ![c].pc = "denied"]

AdmissionLimits(c) ==
    /\ chat[c].pc = "new"
    /\ IF /\ Enabled /\ validateRequest(c, prof[default].lim)
          /\ effectiveQuota # Unset => Committed(Month(time)) < effectiveQuota
         THEN chat' = [chat EXCEPT ![c].pc = "rate", ![c].now = time,
                                   ![c].lim = prof[default].lim]
         ELSE Deny(c)
    /\ UNCHANGED <<time, config, ledger, rates, lost, edits, faults>>

\* Marks the request's window has not outlived.
recent(key, c) == {m \in rates[key] : m.at > chat[c].now - chat[c].lim.window}

\* pruneRatesLocked drops what no profile's window can reach; the keys of the
\* request are in the table from here on, empty or not.
Table(c) == {k \in RateKeys : rates[k] # {}} \cup {App, ViewerOf[c]}

Admissible(c) ==
    LET own == {App, ViewerOf[c]} IN
    /\ Cardinality(recent(ViewerOf[c], c)) < chat[c].lim.viewer
    /\ Cardinality(recent(App, c)) < chat[c].lim.app
    /\ Cardinality(Table(c)) + Cardinality({k \in own : recent(k, c) = {}}) <= MaxRateKeys

reserveRate(c) ==
    /\ chat[c].pc = "rate"
    /\ LET mark == IF Admissible(c) THEN {[id |-> c, at |-> chat[c].now]} ELSE {} IN
         rates' = [k \in RateKeys |-> IF k \in {App, ViewerOf[c]} THEN recent(k, c) \cup mark
                                  ELSE rates[k]]
    /\ IF Admissible(c) THEN chat' = [chat EXCEPT ![c].pc = "admit"] ELSE Deny(c)
    /\ UNCHANGED <<time, config, ledger, lost, edits, faults>>

\* The permit of a request that does not reach the provider is given back.
Release(c) == rates' = [k \in RateKeys |-> {m \in rates[k] : m.id # c}]

\* Input estimate and the output allowed: what the chat should use at most.
Reserve(c) ==
    LET lim == prof[default].lim IN
    InputOf[c] + (IF WantsOf[c] > 0 /\ WantsOf[c] < lim.output THEN WantsOf[c] ELSE lim.output)

\* Mutant: reservations of calls under way are not counted.
AffordableByUse(c) ==
    LET u == usage[Month(chat[c].now)] IN
    /\ effectiveQuota # Unset => u.used + Reserve(c) <= effectiveQuota
    /\ u.flying < prof[default].lim.calls

Affordable(c) ==
    LET u == usage[Month(chat[c].now)] IN
    /\ effectiveQuota # Unset => u.used + u.reserved + Reserve(c) <= effectiveQuota
    /\ u.flying < prof[default].lim.calls

\* Settlement with an outcome and the tokens the provider reported.
Settle(c, outcome, tokens) ==
    chat' = [chat EXCEPT ![c].pc = "settle", ![c].outcome = outcome, ![c].usage = tokens]

\* The concurrency limit is not part of the limits that are compared.
sameLimits(a, b) == \A f \in DOMAIN a \ {"calls"} : a[f] = b[f]

\* Limits that changed since they were read end the chat.
Admitted(c) ==
    IF sameLimits(prof[default].lim, chat[c].lim)
      THEN chat' = [chat EXCEPT ![c].pc = "call"] /\ UNCHANGED rates
      ELSE Settle(c, "failed", 0) /\ Release(c)

\* The transaction: every condition is checked again, then tokens and a place
\* are taken.
Admit(c) ==
    /\ chat[c].pc = "admit"
    /\ \/ /\ Enabled /\ Affordable(c) /\ NoFault
          /\ LET m == Month(chat[c].now) IN
               /\ usage' = [usage EXCEPT ![m].reserved = @ + Reserve(c), ![m].flying = @ + 1]
               /\ res' = [res EXCEPT ![c] = [st |-> "calling", month |-> m,
                                             tokens |-> Reserve(c), used |-> 0]]
          /\ Admitted(c)
       \/ /\ IF Enabled /\ Affordable(c) THEN Fault ELSE NoFault
          /\ Deny(c) /\ Release(c) /\ UNCHANGED ledger
    /\ UNCHANGED <<time, config, lost, edits>>

\* The credential cannot be opened: the reservation is settled as failed.
EnvelopeFails(c) ==
    /\ chat[c].pc = "call" /\ Fault
    /\ Settle(c, "failed", 0) /\ Release(c)
    /\ UNCHANGED <<time, config, ledger, lost, edits>>

-----------------------------------------------------------------------------
(***************************************************************************)
(* The provider and the settlement.                                        *)
(***************************************************************************)
\* The reported output is held to the profile's maximum, whatever the request
\* asked for; the reported input, which the reservation estimates, to nothing.
Answered(c) ==
    /\ chat[c].pc = "call"
    /\ \E input \in 0..MaxReported, output \in 0..chat[c].lim.output :
         Settle(c, "succeeded", input + output)
    /\ UNCHANGED <<time, config, ledger, rates, lost, edits, faults>>

\* The call never reached the provider, came back with an error status, ran
\* into the deadline or with a response the adapter cannot decode: one error
\* for all, although the provider may have counted tokens.
Refused(c) ==
    /\ chat[c].pc = "call"
    /\ Settle(c, "failed", 0)
    /\ UNCHANGED <<time, config, ledger, rates, lost, edits, faults>>

\* The viewer goes away, or the decoded answer fails the checks of Complete.
Ambiguous(c) ==
    /\ chat[c].pc = "call"
    /\ Settle(c, "ambiguous", 0)
    /\ UNCHANGED <<time, config, ledger, rates, lost, edits, faults>>

\* A success counts what was used, a failure gives all back, an ambiguous end
\* keeps the tokens and gives back the place.
Settled(u, c) ==
    [used |-> u.used + (IF chat[c].outcome = "succeeded" THEN chat[c].usage ELSE 0),
     reserved |-> u.reserved - (IF chat[c].outcome = "ambiguous" THEN 0 ELSE res[c].tokens),
     flying |-> u.flying - 1]

\* Mutant: the settlement goes to the month in which it happens.
ReconcileThisMonth(c) ==
    /\ chat[c].pc = "settle" /\ res[c].st = "calling"
    /\ usage' = [usage EXCEPT ![Month(time)] = Settled(@, c)]
    /\ res' = [res EXCEPT ![c].st = chat[c].outcome, ![c].used = chat[c].usage]
    /\ chat' = [chat EXCEPT ![c].pc = "done"]
    /\ UNCHANGED <<time, config, rates, lost, edits, faults>>

Reconcile(c) ==
    /\ chat[c].pc = "settle"
    /\ \/ /\ res[c].st = "calling" /\ NoFault
          /\ usage' = [usage EXCEPT ![res[c].month] = Settled(@, c)]
          /\ res' = [res EXCEPT ![c].st = chat[c].outcome, ![c].used = chat[c].usage]
          /\ UNCHANGED lost
       \/ /\ IF res[c].st = "calling" THEN Fault /\ lost' = lost \cup {c}
                                      ELSE NoFault /\ UNCHANGED lost
          /\ UNCHANGED ledger
    /\ chat' = [chat EXCEPT ![c].pc = "done"]
    /\ UNCHANGED <<time, config, rates, edits>>

-----------------------------------------------------------------------------
(***************************************************************************)
(* Operators.  An edit names the revision it was made from; one made from  *)
(* an older revision changes nothing.                                      *)
(***************************************************************************)
Unchanged == UNCHANGED <<time, ledger, rates, chat, lost, faults>>

UpdateHostPolicy ==
    /\ Edit /\ host' \in [on : BOOLEAN, quota : Quotas]
    /\ UNCHANGED <<status, policy, conn, prof, default>> /\ Unchanged

UpdateAppPolicy ==
    /\ Edit /\ status # "deleted"
    /\ policy' \in [on : BOOLEAN, mode : {"inherit", "unlimited"}, quota : {Unset}]
               \cup [on : BOOLEAN, mode : {"specific"}, quota : Quotas \ {Unset}]
    /\ UNCHANGED <<status, host, conn, prof, default>> /\ Unchanged

\* The credential has been validated with the provider and sealed.
CreateConnection(k) ==
    /\ Edit /\ conn[k] = "none" /\ conn' = [conn EXCEPT ![k] = "active"]
    /\ UNCHANGED <<status, host, policy, prof, default>> /\ Unchanged

DisableConnection(k) ==
    /\ Edit /\ conn[k] = "active" /\ conn' = [conn EXCEPT ![k] = "disabled"]
    /\ UNCHANGED <<status, host, policy, prof, default>> /\ Unchanged

\* A new, validated credential makes the connection active again.
RotateConnection(k) ==
    /\ Edit /\ conn[k] # "none" /\ conn' = [conn EXCEPT ![k] = "active"]
    /\ UNCHANGED <<status, host, policy, prof, default>> /\ Unchanged

\* The first profile is the default one; the model starts with it.
CreateProfile(p, k, lim) ==
    /\ Edit /\ prof[p] = Unset /\ conn[k] = "active"
    /\ prof' = [prof EXCEPT ![p] = [conn |-> k, lim |-> lim]]
    /\ UNCHANGED <<status, host, policy, conn, default>> /\ Unchanged

UpdateProfile(p, k, lim) ==
    /\ Edit /\ prof[p] # Unset /\ conn[k] = "active"
    /\ prof' = [prof EXCEPT ![p] = [conn |-> k, lim |-> lim]]
    /\ UNCHANGED <<status, host, policy, conn, default>> /\ Unchanged

SetDefaultProfile(p) ==
    /\ Edit /\ prof[p] # Unset /\ conn[prof[p].conn] = "active"
    /\ default' = p
    /\ UNCHANGED <<status, host, policy, conn, prof>> /\ Unchanged

\* Suspension, reactivation, and the deletion of the application with its rows.
SetStatus(s) ==
    /\ Edit /\ status # "deleted" /\ status' = s
    /\ IF s = "deleted"
         THEN /\ usage' = [m \in Months |-> [used |-> 0, reserved |-> 0, flying |-> 0]]
              /\ res' = [c \in Chats |-> IF res[c].st = "none" THEN NoReservation
                                         ELSE [NoReservation EXCEPT !.st = "deleted"]]
              /\ policy' = Unset
         ELSE UNCHANGED <<ledger, policy>>
    /\ UNCHANGED <<time, host, conn, prof, default, rates, chat, lost, faults>>

-----------------------------------------------------------------------------
TimePasses ==
    /\ time < LastTick /\ time' = time + 1
    /\ UNCHANGED <<config, ledger, rates, chat, lost, edits, faults>>

\* The process dies: the rate table and the requests are gone, and nothing at
\* startup looks at the reservations.
Crash ==
    /\ Fault
    /\ rates' = [k \in RateKeys |-> {}]
    /\ lost' = lost \cup {c \in Chats : res[c].st = "calling"}
    /\ chat' = [c \in Chats |-> IF chat[c].pc = "new" THEN chat[c]
                                ELSE [chat[c] EXCEPT !.pc = "done"]]
    /\ UNCHANGED <<time, config, ledger, edits>>

ChatStep(c) ==
    \/ AdmissionLimits(c) \/ reserveRate(c) \/ Admit(c) \/ EnvelopeFails(c)
    \/ Answered(c) \/ Refused(c) \/ Ambiguous(c) \/ Reconcile(c)

Operator ==
    \/ UpdateHostPolicy \/ UpdateAppPolicy
    \/ \E k \in Connections : CreateConnection(k) \/ DisableConnection(k) \/ RotateConnection(k)
    \/ \E p \in Profiles, k \in Connections, lim \in LimitsSet :
         CreateProfile(p, k, lim) \/ UpdateProfile(p, k, lim)
    \/ \E p \in Profiles : SetDefaultProfile(p)
    \/ \E s \in {"active", "suspended", "deleted"} : SetStatus(s)

ChatNext == (\E c \in Chats : ChatStep(c)) \/ Operator \/ TimePasses \/ Crash

ChatSpec == ChatInit /\ [][ChatNext]_chatVars

-----------------------------------------------------------------------------
(***************************************************************************)
(* Properties.                                                             *)
(***************************************************************************)
Of(st, m) == {c \in Chats : res[c].st \in st /\ res[c].month = m}

\* Every call under way holds a place of its month, and nothing else does.
PlacesCounted == \A m \in Months : usage[m].flying = Cardinality(Of({"calling"}, m))

\* A reservation outlives its request only when a crash or a database error
\* prevented the settlement: every other way out of Complete settles it.
ReservationsEnd ==
    \A c \in Chats : res[c].st = "calling" => c \in lost \/ chat[c].pc \in {"call", "settle"}

TokensOf == [c \in Chats |-> res[c].tokens]
UsedOf == [c \in Chats |-> res[c].used]

\* Tokens are held by calls under way and by ambiguous ends, and used by
\* successes.
TokensCounted ==
    \A m \in Months :
        /\ usage[m].reserved = SumFunctionOnSet(TokensOf, Of({"calling", "ambiguous"}, m))
        /\ usage[m].used = SumFunctionOnSet(UsedOf, Of({"succeeded"}, m))

\* The counters of every month agree with its reservations, and a place is held
\* by every call under way, however admissions, settlements, the turn of the
\* month and crashes interleave (Admit, Reconcile); and reservations end.
LedgerBalances == TokensCounted /\ PlacesCounted /\ ReservationsEnd

\* The settlement of a call that used more than it had reserved, which adds the
\* difference to its month.
Overrun(m) ==
    \E c \in Chats :
        /\ res[c].st = "calling" /\ res[c].month = m /\ res'[c].st = "succeeded"
        /\ Committed(m)' = Committed(m) + (res'[c].used - res[c].tokens)

WithinQuota(m) ==
    effectiveQuota = Unset \/ Committed(m)' <= effectiveQuota \/ Overrun(m)

\* What a month has used and reserved never grows past the quota in force,
\* because concurrent admissions see each other; only a settlement may take it
\* further, by what the provider reported beyond the reservation (Reconcile).
QuotaHolds ==
    [][\A m \in Months : Committed(m)' > Committed(m) => WithinQuota(m)]_chatVars
=============================================================================
