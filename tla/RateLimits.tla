----------------------------- MODULE RateLimits -----------------------------
(***************************************************************************)
(* The sliding windows in memory that limit anonymous and viewer requests: *)
(* the Limiter in front of one-time codes and handoffs, with one table of  *)
(* buckets for its three kinds of request, and the table of kv.Service.    *)
(*                                                                         *)
(* A request reads the clock, waits for the mutex of its table and then,   *)
(* in one step, drops what has outlived its window and is admitted in all  *)
(* of its buckets or in none.  While it waits, requests that read the      *)
(* clock later may overtake it.  Nothing survives the process; the module  *)
(* is about one run of it.                                                 *)
(***************************************************************************)
EXTENDS Integers, FiniteSets

CONSTANTS
    Procs,      \* requests handled at once
    Clients,    \* browsers, as their fingerprints tell them apart
    IPOf,       \* the address of each
    Emails,     \* addresses of viewers
    Apps,       \* applications, or the part of the platform that is signed in to
    Txs,        \* transactions of sign-ins
    Window,     \* length of the window of each kind of request
    Limit,      \* admissions in a window, by kind and dimension
    MaxKeys,    \* buckets of the Limiter, and its bindings of transactions
    MaxRateScopes, \* viewers and applications in the table of kv.Service
    MaxTime, Grants, \* bounds: the clock, and admissions after which no request begins
    None

OTP == {"otp_request", "otp_verify", "identity_handoff"}
Kinds == OTP \cup {"kv"}
Dims == {"ip", "fingerprint", "email", "viewer", "app", "global"}

ASSUME ConfigType == /\ Window \in [Kinds -> Nat \ {0}]
                     /\ Limit \in [Kinds \X Dims -> Nat \ {0}]
                     /\ MaxKeys \in Nat \ {0} /\ MaxRateScopes \in Nat \ {0}
                     /\ MaxTime \in Nat /\ Grants \in Nat
ASSUME ClientsType == DOMAIN IPOf = Clients
ASSUME NoneIsNew == None \notin Emails \cup Clients \cup Txs

\* Digests are their arguments.  A transaction without binding stands for
\* itself, as an address and as a fingerprint.
Unbound(t) == <<"transaction", t>>
Mails == Emails \cup {Unbound(t) : t \in Txs}
Prints == Clients \cup {Unbound(t) : t \in Txs}
IPs == {IPOf[c] : c \in Clients}
Scopes == Apps \X Emails

Keys == ((OTP \X {"ip"}) \X IPs) \cup ((OTP \X {"fingerprint"}) \X Prints)
          \cup ((OTP \X {"email"}) \X Mails) \cup ((Kinds \X {"app"}) \X Apps)
          \cup (({"kv"} \X {"viewer"}) \X Scopes) \cup ((Kinds \X {"global"}) \X {"all"})

KindOf(k) == k[1][1]
LimitOf(k) == Limit[k[1]]
SameTable(i, j) == (i = "kv") = (j = "kv")

VARIABLES
    clock,
    buckets,    \* admissions by key, empty for a key that is not in the table
    bound,      \* Limiter.transactions, None for one that is not in it
    call,       \* the requests
    issued,     \* transactions that exist
    granted,    \* history: every admission, by key
    seq         \* history: how many there were

vars == <<clock, buckets, bound, call, issued, granted, seq>>

Event == [n : Nat, at : Nat]
Binding == [mail : Emails, print : Clients, expires : Nat]
Idle == [pc |-> "idle", kind |-> None, keys |-> {}, now |-> 0,
         mail |-> None, who |-> None, app |-> None, tx |-> None]

TypeOK ==
    /\ clock \in Nat /\ seq \in Nat
    /\ buckets \in [Keys -> SUBSET Event] /\ granted \in [Keys -> SUBSET Event]
    /\ bound \in [Txs -> Binding \cup {None}] /\ issued \subseteq Txs
    /\ call \in [Procs -> [pc : {"idle", "lookup", "clock", "allow", "issue", "bind"},
                           kind : Kinds \cup {None}, keys : SUBSET Keys, now : Nat,
                           mail : Emails \cup {None}, who : Clients \cup {None},
                           app : Apps \cup {None}, tx : Txs \cup {None}]]

Init ==
    /\ clock = 0 /\ seq = 0 /\ issued = {}
    /\ buckets = [k \in Keys |-> {}] /\ granted = [k \in Keys |-> {}]
    /\ bound = [t \in Txs |-> None]
    /\ call = [p \in Procs |-> Idle]

Tables == <<buckets, bound, issued, granted, seq>>

-----------------------------------------------------------------------------
(***************************************************************************)
(* Requests.                                                               *)
(***************************************************************************)
RequestFingerprint(c) == c

policyKeys(kind, ip, print, mail, app) ==
    {<<<<kind, "ip">>, ip>>, <<<<kind, "fingerprint">>, print>>, <<<<kind, "email">>, mail>>,
     <<<<kind, "app">>, app>>, <<<<kind, "global">>, "all">>}

\* Login navigation happens before an address is known.
handoffKeys(ip, print, app) ==
    {<<<<"identity_handoff", "ip">>, ip>>, <<<<"identity_handoff", "fingerprint">>, print>>,
     <<<<"identity_handoff", "app">>, app>>, <<<<"identity_handoff", "global">>, "all">>}

\* A viewer's bucket belongs to one application.
kvKeys(app, viewer) ==
    {<<<<"kv", "viewer">>, <<app, viewer>>>>, <<<<"kv", "app">>, app>>, <<<<"kv", "global">>, "all">>}

Begin(p, c) ==
    /\ call[p].pc = "idle" /\ seq < Grants
    /\ call' = [call EXCEPT ![p] = c]
    /\ UNCHANGED <<clock, Tables>>

\* A code is asked for: address, browser and purpose.
AllowRequest(p, c, e, a) ==
    Begin(p, [Idle EXCEPT !.pc = "allow", !.kind = "otp_request", !.now = clock,
                          !.mail = e, !.who = c, !.app = a,
                          !.keys = policyKeys("otp_request", IPOf[c], RequestFingerprint(c), e, a)])

AllowHandoffRequest(p, c, a) ==
    Begin(p, [Idle EXCEPT !.pc = "allow", !.kind = "identity_handoff", !.now = clock,
                          !.keys = handoffKeys(IPOf[c], RequestFingerprint(c), a)])

\* Get, Set, Delete and List of kv.Service, once their arguments are valid.
AllowKV(p, a, e) ==
    Begin(p, [Idle EXCEPT !.pc = "allow", !.kind = "kv", !.now = clock, !.keys = kvKeys(a, e)])

\* A code is entered, for a transaction that exists or not.
AllowTransactionRequest(p, c, t, a) ==
    Begin(p, [Idle EXCEPT !.pc = "lookup", !.kind = "otp_verify", !.now = clock,
                          !.who = c, !.app = a, !.tx = t])

Alive(t, now) == bound[t] # None /\ bound[t].expires > now

\* The binding is looked up under the mutex, which is given back before the
\* clock is read again.
AllowTransactionFingerprint(p) ==
    /\ call[p].pc = "lookup"
    /\ LET t == call[p].tx
           known == Alive(t, call[p].now)
           print == IF known THEN bound[t].print ELSE Unbound(t)
           mail == IF known THEN bound[t].mail ELSE Unbound(t)
       IN /\ bound' = [bound EXCEPT ![t] = IF known THEN @ ELSE None]
          /\ call' = [call EXCEPT ![p].pc = "clock",
                                  ![p].keys = policyKeys("otp_verify", IPOf[call[p].who], print,
                                                         mail, call[p].app)]
    /\ UNCHANGED <<clock, buckets, issued, granted, seq>>

ReadClock(p) ==
    /\ call[p].pc = "clock"
    /\ call' = [call EXCEPT ![p].pc = "allow", ![p].now = clock]
    /\ UNCHANGED <<clock, Tables>>

-----------------------------------------------------------------------------
(***************************************************************************)
(* Under the mutex.                                                        *)
(***************************************************************************)
\* Mutant: the events are taken to be in order of time, and the last one that
\* is outlived takes all before it along.
retainSorted(E, cutoff) == {e \in E : \A f \in E : f.n >= e.n => f.at > cutoff}

\* Events leave in the order in which they were appended: an outlived event
\* behind one that is not stays.
retainRecent(E, cutoff) == {e \in E : \E f \in E : f.n <= e.n /\ f.at > cutoff}

\* The Limiter prunes the buckets of all its kinds with the window of one.
pruneLocked(p) ==
    LET c == call[p]
        cutoff == c.now - Window[c.kind]
    IN [k \in Keys |-> IF SameTable(c.kind, KindOf(k)) THEN retainRecent(buckets[k], cutoff)
                       ELSE buckets[k]]

pruneTransactionsLocked(now) == [t \in Txs |-> IF Alive(t, now) THEN bound[t] ELSE None]

\* The keys in the Limiter's table; those of kv.Service without its global one.
Occupied(b) == {k \in Keys : KindOf(k) # "kv" /\ b[k] # {}}
OccupiedScopes(b) == {k \in Keys : KindOf(k) = "kv" /\ k[1] # <<"kv", "global">> /\ b[k] # {}}

WithinLimits(b, keys) == \A k \in keys : Cardinality(b[k]) < LimitOf(k)

\* Mutant: the bound is not looked at.
AnyRoom(b, keys) == TRUE

\* A new key needs room in the table, each on its own.
HasRoom(b, keys) == \A k \in keys : b[k] = {} => Cardinality(Occupied(b)) < MaxKeys

\* New keys need room together.
HasScopeRoom(b, keys) ==
    Cardinality(OccupiedScopes(b) \cup (keys \ {<<<<"kv", "global">>, "all">>})) <= MaxRateScopes

\* All buckets of the request get the event, or none; an admitted request goes
\* on at pc.
Decide(p, fits, pc) ==
    LET b == pruneLocked(p)
        e == [n |-> seq, at |-> call[p].now]
        Add(f) == [k \in Keys |-> IF k \in call[p].keys THEN f[k] \cup {e} ELSE f[k]]
    IN /\ buckets' = IF fits THEN Add(b) ELSE b
       /\ granted' = IF fits THEN Add(granted) ELSE granted
       /\ seq' = IF fits THEN seq + 1 ELSE seq
       /\ call' = [call EXCEPT ![p] = IF fits /\ pc # "idle" THEN [@ EXCEPT !.pc = pc] ELSE Idle]

Fits(p) == LET b == pruneLocked(p)
           IN WithinLimits(b, call[p].keys) /\ HasRoom(b, call[p].keys)

FitsKV(p) == LET b == pruneLocked(p)
             IN WithinLimits(b, call[p].keys) /\ HasScopeRoom(b, call[p].keys)

allow(p) ==
    /\ call[p].pc = "allow" /\ call[p].kind \in {"otp_request", "otp_verify"}
    /\ Decide(p, Fits(p), IF call[p].kind = "otp_request" THEN "issue" ELSE "idle")
    /\ bound' = pruneTransactionsLocked(call[p].now)
    /\ UNCHANGED <<clock, issued>>

allowHandoff(p) ==
    /\ call[p].pc = "allow" /\ call[p].kind = "identity_handoff"
    /\ Decide(p, Fits(p), "idle")
    /\ bound' = pruneTransactionsLocked(call[p].now)
    /\ UNCHANGED <<clock, issued>>

allowKV(p) ==
    /\ call[p].pc = "allow" /\ call[p].kind = "kv"
    /\ Decide(p, FitsKV(p), "idle")
    /\ UNCHANGED <<clock, bound, issued>>

-----------------------------------------------------------------------------
(***************************************************************************)
(* The handler of an admitted request for a code.                          *)
(***************************************************************************)
\* No challenge is created: the address is not admitted, or storage fails.
IssueFails(p) ==
    /\ call[p].pc = "issue"
    /\ call' = [call EXCEPT ![p] = Idle]
    /\ UNCHANGED <<clock, Tables>>

Issue(p, t) ==
    /\ call[p].pc = "issue" /\ t \notin issued
    /\ issued' = issued \cup {t}
    /\ call' = [call EXCEPT ![p].pc = "bind", ![p].tx = t, ![p].now = clock]
    /\ UNCHANGED <<clock, buckets, bound, granted, seq>>

\* A full table keeps its bindings; the transaction stays unbound.
BindTransactionFingerprint(p) ==
    /\ call[p].pc = "bind"
    /\ LET b == pruneTransactionsLocked(call[p].now)
           new == [mail |-> call[p].mail, print |-> RequestFingerprint(call[p].who),
                   expires |-> call[p].now + Window["otp_request"]]
           full == b[call[p].tx] = None /\ Cardinality({t \in Txs : b[t] # None}) >= MaxKeys
       IN bound' = IF full THEN b ELSE [b EXCEPT ![call[p].tx] = new]
    /\ call' = [call EXCEPT ![p] = Idle]
    /\ UNCHANGED <<clock, buckets, issued, granted, seq>>

-----------------------------------------------------------------------------
Tick ==
    /\ clock < MaxTime /\ clock' = clock + 1
    /\ UNCHANGED <<call, Tables>>

Start(p) ==
    \/ \E c \in Clients, e \in Emails, a \in Apps : AllowRequest(p, c, e, a)
    \/ \E c \in Clients, a \in Apps : AllowHandoffRequest(p, c, a)
    \/ \E c \in Clients, t \in Txs, a \in Apps : AllowTransactionRequest(p, c, t, a)
    \/ \E a \in Apps, e \in Emails : AllowKV(p, a, e)

Step(p) ==
    \/ AllowTransactionFingerprint(p) \/ ReadClock(p)
    \/ allow(p) \/ allowHandoff(p) \/ allowKV(p)
    \/ IssueFails(p) \/ (\E t \in Txs : Issue(p, t)) \/ BindTransactionFingerprint(p)

Next == (\E p \in Procs : Start(p) \/ Step(p)) \/ Tick

Spec == Init /\ [][Next]_vars

-----------------------------------------------------------------------------
(***************************************************************************)
(* Properties.                                                             *)
(***************************************************************************)
\* "All five dimensions must allow a request", and a full table denies "rather
\* than evicting an active key": at no moment has a key had more admissions
\* within the last window than its limit, although requests take the mutex in
\* another order than they read the clock and prune each other's buckets.  The
\* window is the shortest one of the kinds that share the table; by default
\* they are equal.
BudgetsHold ==
    \A k \in Keys, w \in {Window[i] : i \in Kinds} :
        (\A i \in Kinds : SameTable(i, KindOf(k)) => w <= Window[i])
            => Cardinality({e \in granted[k] : e.at > clock - w}) <= LimitOf(k)

\* The tables stay bounded whatever is asked: the Limiter's exceeds MaxKeys by
\* at most four, since a request with five new keys is admitted when there is
\* room for one, and that of kv.Service never exceeds its bound.
TablesBounded ==
    /\ Cardinality(Occupied(buckets)) <= MaxKeys + 4
    /\ Cardinality(OccupiedScopes(buckets)) <= MaxRateScopes
    /\ Cardinality({t \in Txs : bound[t] # None}) <= MaxKeys
=============================================================================
