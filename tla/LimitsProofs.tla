---------------------------- MODULE LimitsProofs ----------------------------
(***************************************************************************)
(* Proofs about the limits of the host: the windows of RateLimits and the  *)
(* quota and the ledger of Llm.  Whatever was admitted within the last     *)
(* window is still in its bucket, because nobody prunes with a clock that  *)
(* is ahead, and a bucket never holds more than its limit; a chat reserves *)
(* once, counting all reservations, and settles into the month it is in.   *)
(***************************************************************************)
EXTENDS RateLimits, Llm, FiniteSetTheorems, TLAPS

\* The actions of Next, one by one.
LEMMA NextCases ==
    ASSUME Next
    PROVE  \/ \E p \in Procs :
                \/ \E c \in Clients, e \in Emails, a \in Apps : AllowRequest(p, c, e, a)
                \/ \E c \in Clients, a \in Apps : AllowHandoffRequest(p, c, a)
                \/ \E c \in Clients, t \in Txs, a \in Apps : AllowTransactionRequest(p, c, t, a)
                \/ \E a \in Apps, e \in Emails : AllowKV(p, a, e)
                \/ AllowTransactionFingerprint(p) \/ ReadClock(p)
                \/ allow(p) \/ allowHandoff(p) \/ allowKV(p)
                \/ IssueFails(p) \/ (\E t \in Txs : Issue(p, t)) \/ BindTransactionFingerprint(p)
           \/ Tick
BY DEF Next, Start, Step

-----------------------------------------------------------------------------
(***************************************************************************)
(* The keys of a request.                                                  *)
(***************************************************************************)
LEMMA AtMostFive ==
    ASSUME NEW a, NEW b, NEW c, NEW d, NEW e
    PROVE  IsFiniteSet({a, b, c, d, e}) /\ Cardinality({a, b, c, d, e}) <= 5
<1>1. IsFiniteSet({a}) /\ Cardinality({a}) = 1
  BY FS_Singleton
<1>2. IsFiniteSet({a} \cup {b}) /\ Cardinality({a} \cup {b}) \in 1..2
  BY <1>1, FS_AddElement
<1>3. IsFiniteSet(({a} \cup {b}) \cup {c}) /\ Cardinality(({a} \cup {b}) \cup {c}) \in 1..3
  BY <1>2, FS_AddElement
<1>4. /\ IsFiniteSet((({a} \cup {b}) \cup {c}) \cup {d})
      /\ Cardinality((({a} \cup {b}) \cup {c}) \cup {d}) \in 1..4
  BY <1>3, FS_AddElement
<1>5. /\ IsFiniteSet(((({a} \cup {b}) \cup {c}) \cup {d}) \cup {e})
      /\ Cardinality(((({a} \cup {b}) \cup {c}) \cup {d}) \cup {e}) \in 1..5
  BY <1>4, FS_AddElement
<1>6. ((({a} \cup {b}) \cup {c}) \cup {d}) \cup {e} = {a, b, c, d, e}
  OBVIOUS
<1> QED BY <1>5, <1>6

LEMMA AtMostFour ==
    ASSUME NEW a, NEW b, NEW c, NEW d
    PROVE  IsFiniteSet({a, b, c, d}) /\ Cardinality({a, b, c, d}) <= 5
<1>1. IsFiniteSet({a, a, b, c, d}) /\ Cardinality({a, a, b, c, d}) <= 5
  BY AtMostFive
<1>2. {a, a, b, c, d} = {a, b, c, d}
  OBVIOUS
<1> QED BY <1>1, <1>2

LEMMA FiniteThree ==
    ASSUME NEW a, NEW b, NEW c
    PROVE  IsFiniteSet({a, b, c})
<1>1. IsFiniteSet({a, a, b, c})
  BY AtMostFour
<1>2. {a, a, b, c} = {a, b, c}
  OBVIOUS
<1> QED BY <1>1, <1>2

\* A set of keys as the Limiter, or kv.Service, makes them.
LimiterKeys(keys) ==
    /\ keys \subseteq Keys /\ IsFiniteSet(keys) /\ Cardinality(keys) <= 5
    /\ \A k \in keys : KindOf(k) # "kv"

ScopeKeys(keys) ==
    /\ keys \subseteq Keys /\ IsFiniteSet(keys)
    /\ \A k \in keys : KindOf(k) = "kv"

LEMMA PolicyKeysShape ==
    ASSUME NEW kind \in {"otp_request", "otp_verify"}, NEW ip \in IPs, NEW print \in Prints,
           NEW mail \in Mails, NEW app \in Apps
    PROVE  LimiterKeys(policyKeys(kind, ip, print, mail, app))
<1>1. policyKeys(kind, ip, print, mail, app) \subseteq Keys
  BY DEF policyKeys, Keys, OTP, Kinds
<1>2. \A k \in policyKeys(kind, ip, print, mail, app) : KindOf(k) # "kv"
  BY DEF policyKeys, KindOf
<1> QED BY <1>1, <1>2, AtMostFive DEF LimiterKeys, policyKeys

LEMMA HandoffKeysShape ==
    ASSUME NEW ip \in IPs, NEW print \in Prints, NEW app \in Apps
    PROVE  LimiterKeys(handoffKeys(ip, print, app))
<1> DEFINE H == handoffKeys(ip, print, app)
<1>1. H \subseteq Keys
  BY DEF handoffKeys, Keys, OTP, Kinds
<1>2. \A k \in H : KindOf(k) # "kv"
  BY DEF handoffKeys, KindOf
<1>3. IsFiniteSet(H) /\ Cardinality(H) <= 5
  BY AtMostFour DEF handoffKeys
<1> QED BY <1>1, <1>2, <1>3 DEF LimiterKeys

LEMMA KVKeysShape ==
    ASSUME NEW app \in Apps, NEW viewer \in Emails
    PROVE  ScopeKeys(kvKeys(app, viewer))
<1> DEFINE H == kvKeys(app, viewer)
<1>1. H \subseteq Keys
  BY DEF kvKeys, Keys, Kinds, Scopes
<1>2. \A k \in H : KindOf(k) = "kv"
  BY DEF kvKeys, KindOf
<1>3. IsFiniteSet(H)
  BY FiniteThree DEF kvKeys
<1> QED BY <1>1, <1>2, <1>3 DEF ScopeKeys

-----------------------------------------------------------------------------
(***************************************************************************)
(* Type correctness, and what a request knows at each of its steps.        *)
(***************************************************************************)
CallType == [pc : {"idle", "lookup", "clock", "allow", "issue", "bind"},
             kind : Kinds \cup {None}, keys : SUBSET Keys, now : Nat,
             mail : Emails \cup {None}, who : Clients \cup {None},
             app : Apps \cup {None}, tx : Txs \cup {None}]

\* No request is ahead of the clock, and each has what its next step needs.
CallOK(c, now) ==
    /\ c.now <= now
    /\ c.pc = "lookup" => c.who \in Clients /\ c.app \in Apps /\ c.tx \in Txs
                          /\ c.kind = "otp_verify"
    /\ c.pc = "clock" => c.kind = "otp_verify" /\ LimiterKeys(c.keys)
    /\ c.pc = "allow" => /\ c.kind \in Kinds
                         /\ IF c.kind = "kv" THEN ScopeKeys(c.keys) ELSE LimiterKeys(c.keys)
                         /\ c.kind = "otp_request" => c.mail \in Emails /\ c.who \in Clients
    /\ c.pc \in {"issue", "bind"} => c.mail \in Emails /\ c.who \in Clients
    /\ c.pc = "bind" => c.tx \in Txs

CallsOK == \A p \in Procs : CallOK(call[p], clock)

TypeInv == TypeOK /\ CallsOK

LEMMA IdleOK == Idle \in CallType /\ \A now \in Nat : CallOK(Idle, now)
BY DEF Idle, CallType, CallOK

LEMMA TypeInit == Init => TypeInv
<1> SUFFICES ASSUME Init PROVE TypeInv
  OBVIOUS
<1>1. CallsOK
  BY IdleOK DEF Init, CallsOK
<1>2. TypeOK
  BY IdleOK DEF Init, TypeOK, CallType
<1> QED BY <1>1, <1>2 DEF TypeInv

\* One request changes.
LEMMA CallChanges ==
    ASSUME TypeInv, NEW p \in Procs, NEW c \in CallType, CallOK(c, clock),
           call' = [call EXCEPT ![p] = c], clock' = clock
    PROVE  call' \in [Procs -> CallType] /\ CallsOK'
<1>1. call \in [Procs -> CallType]
  BY DEF TypeInv, TypeOK, CallType
<1>2. call' \in [Procs -> CallType]
  BY <1>1
<1>3. \A q \in Procs : call'[q] = IF q = p THEN c ELSE call[q]
  BY <1>1
<1>4. \A q \in Procs : CallOK(call'[q], clock)
  BY <1>3 DEF TypeInv, CallsOK
<1>5. CallsOK'
  BY <1>4 DEF CallsOK
<1> QED BY <1>2, <1>5

LEMMA TypeBegin ==
    ASSUME TypeInv, NEW p \in Procs,
           \/ \E c \in Clients, e \in Emails, a \in Apps : AllowRequest(p, c, e, a)
           \/ \E c \in Clients, a \in Apps : AllowHandoffRequest(p, c, a)
           \/ \E c \in Clients, t \in Txs, a \in Apps : AllowTransactionRequest(p, c, t, a)
           \/ \E a \in Apps, e \in Emails : AllowKV(p, a, e)
    PROVE  TypeInv'
<1>0. clock \in Nat
  BY DEF TypeInv, TypeOK
<1>1. SUFFICES \E c \in CallType : CallOK(c, clock) /\ Begin(p, c)
  <2>1. PICK c \in CallType : CallOK(c, clock) /\ Begin(p, c)
    BY <1>1
  <2>2. call' \in [Procs -> CallType] /\ CallsOK'
    BY <2>1, CallChanges DEF Begin
  <2> QED BY <2>1, <2>2 DEF Begin, Tables, TypeInv, TypeOK, CallType
<1>2. CASE \E c \in Clients, e \in Emails, a \in Apps : AllowRequest(p, c, e, a)
  <2>1. PICK c \in Clients, e \in Emails, a \in Apps : AllowRequest(p, c, e, a)
    BY <1>2
  <2> DEFINE ks == policyKeys("otp_request", IPOf[c], RequestFingerprint(c), e, a)
             n == [Idle EXCEPT !.pc = "allow", !.kind = "otp_request", !.now = clock,
                               !.mail = e, !.who = c, !.app = a, !.keys = ks]
  <2>2. LimiterKeys(ks)
    BY PolicyKeysShape DEF IPs, Prints, Mails, RequestFingerprint
  <2> HIDE DEF ks
  <2>3. n \in CallType
    BY <1>0, <2>2 DEF CallType, Idle, Kinds, OTP, LimiterKeys
  <2>4. CallOK(n, clock)
    BY <1>0, <2>2 DEF CallOK, Idle, Kinds, OTP
  <2>5. Begin(p, n)
    BY <2>1 DEF AllowRequest, ks
  <2> QED BY <2>3, <2>4, <2>5
<1>3. CASE \E c \in Clients, a \in Apps : AllowHandoffRequest(p, c, a)
  <2>1. PICK c \in Clients, a \in Apps : AllowHandoffRequest(p, c, a)
    BY <1>3
  <2> DEFINE ks == handoffKeys(IPOf[c], RequestFingerprint(c), a)
             n == [Idle EXCEPT !.pc = "allow", !.kind = "identity_handoff", !.now = clock,
                               !.keys = ks]
  <2>2. LimiterKeys(ks)
    BY HandoffKeysShape DEF IPs, Prints, RequestFingerprint
  <2> HIDE DEF ks
  <2>3. n \in CallType
    BY <1>0, <2>2 DEF CallType, Idle, Kinds, OTP, LimiterKeys
  <2>4. CallOK(n, clock)
    BY <1>0, <2>2 DEF CallOK, Idle, Kinds, OTP
  <2>5. Begin(p, n)
    BY <2>1 DEF AllowHandoffRequest, ks
  <2> QED BY <2>3, <2>4, <2>5
<1>4. CASE \E c \in Clients, t \in Txs, a \in Apps : AllowTransactionRequest(p, c, t, a)
  <2>1. PICK c \in Clients, t \in Txs, a \in Apps : AllowTransactionRequest(p, c, t, a)
    BY <1>4
  <2> DEFINE n == [Idle EXCEPT !.pc = "lookup", !.kind = "otp_verify", !.now = clock,
                               !.who = c, !.app = a, !.tx = t]
  <2>3. n \in CallType
    BY <1>0 DEF CallType, Idle, Kinds, OTP
  <2>4. CallOK(n, clock)
    BY <1>0 DEF CallOK, Idle
  <2>5. Begin(p, n)
    BY <2>1 DEF AllowTransactionRequest
  <2> QED BY <2>3, <2>4, <2>5
<1>5. CASE \E a \in Apps, e \in Emails : AllowKV(p, a, e)
  <2>1. PICK a \in Apps, e \in Emails : AllowKV(p, a, e)
    BY <1>5
  <2> DEFINE ks == kvKeys(a, e)
             n == [Idle EXCEPT !.pc = "allow", !.kind = "kv", !.now = clock, !.keys = ks]
  <2>2. ScopeKeys(ks)
    BY KVKeysShape
  <2> HIDE DEF ks
  <2>3. n \in CallType
    BY <1>0, <2>2 DEF CallType, Idle, Kinds, OTP, ScopeKeys
  <2>4. CallOK(n, clock)
    BY <1>0, <2>2 DEF CallOK, Idle, Kinds, OTP
  <2>5. Begin(p, n)
    BY <2>1 DEF AllowKV, ks
  <2> QED BY <2>3, <2>4, <2>5
<1> QED BY <1>2, <1>3, <1>4, <1>5

LEMMA TypeLookup ==
    ASSUME TypeInv, NEW p \in Procs, AllowTransactionFingerprint(p)
    PROVE  TypeInv'
<1> DEFINE t == call[p].tx
           known == Alive(t, call[p].now)
           print == IF known THEN bound[t].print ELSE Unbound(t)
           mail == IF known THEN bound[t].mail ELSE Unbound(t)
           ks == policyKeys("otp_verify", IPOf[call[p].who], print, mail, call[p].app)
           c == [call[p] EXCEPT !.pc = "clock", !.keys = ks]
<1>1. /\ call[p] \in CallType /\ CallOK(call[p], clock) /\ call[p].pc = "lookup"
      /\ bound \in [Txs -> Binding \cup {None}] /\ t \in Txs
  BY DEF AllowTransactionFingerprint, TypeInv, TypeOK, CallType, CallsOK, CallOK
<1>2. known => bound[t].print \in Clients /\ bound[t].mail \in Emails
  BY <1>1 DEF Alive, Binding
<1>3. LimiterKeys(ks)
  BY <1>1, <1>2, PolicyKeysShape DEF CallOK, IPs, Prints, Mails
<1> HIDE DEF ks
<1>4. c \in CallType
  BY <1>1, <1>3 DEF CallType, LimiterKeys
<1>5. CallOK(c, clock)
  BY <1>1, <1>3 DEF CallType, CallOK
<1>6. call' = [call EXCEPT ![p] = c] /\ clock' = clock
  BY DEF AllowTransactionFingerprint, ks
<1>7. call' \in [Procs -> CallType] /\ CallsOK'
  BY <1>4, <1>5, <1>6, CallChanges
<1>8. bound' \in [Txs -> Binding \cup {None}]
  BY <1>1 DEF AllowTransactionFingerprint
<1> QED BY <1>7, <1>8 DEF AllowTransactionFingerprint, TypeInv, TypeOK, CallType

LEMMA TypeHandler ==
    ASSUME TypeInv, NEW p \in Procs,
           ReadClock(p) \/ IssueFails(p) \/ \E t \in Txs : Issue(p, t)
    PROVE  TypeInv'
<1>1. call[p] \in CallType /\ CallOK(call[p], clock) /\ clock \in Nat
  BY DEF TypeInv, TypeOK, CallType, CallsOK
<1>2. SUFFICES ASSUME NEW c \in CallType, CallOK(c, clock), call' = [call EXCEPT ![p] = c],
                      UNCHANGED <<clock, buckets, bound, granted, seq>>, issued' \subseteq Txs
               PROVE  TypeInv'
  <2>1. CASE ReadClock(p)
    <3> DEFINE c == [call[p] EXCEPT !.pc = "allow", !.now = clock]
    <3>a. call[p].pc = "clock"
      BY <2>1 DEF ReadClock
    <3>b. c \in CallType
      BY <1>1 DEF CallType
    <3>c. CallOK(c, clock)
      BY <1>1, <3>a DEF CallType, CallOK, Kinds, OTP
    <3>1. c \in CallType /\ CallOK(c, clock)
      BY <3>b, <3>c
    <3>2. call' = [call EXCEPT ![p] = c]
      BY <2>1 DEF ReadClock
    <3> QED BY <1>2, <2>1, <3>1, <3>2 DEF ReadClock, Tables, TypeInv, TypeOK
  <2>2. CASE IssueFails(p)
    <3>1. Idle \in CallType /\ CallOK(Idle, clock)
      BY <1>1, IdleOK
    <3> QED BY <1>2, <2>2, <3>1 DEF IssueFails, Tables, TypeInv, TypeOK
  <2>3. CASE \E t \in Txs : Issue(p, t)
    <3>0. PICK t \in Txs : Issue(p, t)
      BY <2>3
    <3> DEFINE c == [call[p] EXCEPT !.pc = "bind", !.tx = t, !.now = clock]
    <3>a. call[p].pc = "issue"
      BY <3>0 DEF Issue
    <3>b. c \in CallType
      BY <1>1 DEF CallType
    <3>c. CallOK(c, clock)
      BY <1>1, <3>a DEF CallType, CallOK
    <3>1. c \in CallType /\ CallOK(c, clock)
      BY <3>b, <3>c
    <3>2. call' = [call EXCEPT ![p] = c]
      BY <3>0 DEF Issue
    <3> QED BY <1>2, <3>0, <3>1, <3>2 DEF Issue, TypeInv, TypeOK
  <2> QED BY <2>1, <2>2, <2>3
<1>3. call' \in [Procs -> CallType] /\ CallsOK'
  BY <1>2, CallChanges
<1> QED BY <1>2, <1>3 DEF TypeInv, TypeOK, CallType

LEMMA PruneTransactionsType ==
    ASSUME TypeInv, NEW now \in Nat
    PROVE  pruneTransactionsLocked(now) \in [Txs -> Binding \cup {None}]
BY DEF TypeInv, TypeOK, pruneTransactionsLocked

LEMMA TypeBind ==
    ASSUME TypeInv, NEW p \in Procs, BindTransactionFingerprint(p)
    PROVE  TypeInv'
<1>1. call[p] \in CallType /\ CallOK(call[p], clock) /\ clock \in Nat /\ call[p].pc = "bind"
  BY DEF TypeInv, TypeOK, CallType, CallsOK, BindTransactionFingerprint
<1>2. call' \in [Procs -> CallType] /\ CallsOK'
  BY <1>1, IdleOK, CallChanges DEF BindTransactionFingerprint
<1>3. bound' \in [Txs -> Binding \cup {None}]
  <2> DEFINE b == pruneTransactionsLocked(call[p].now)
             new == [mail |-> call[p].mail, print |-> RequestFingerprint(call[p].who),
                     expires |-> call[p].now + Window["otp_request"]]
  <2>1. b \in [Txs -> Binding \cup {None}]
    BY <1>1, PruneTransactionsType DEF CallType
  <2>2. new \in Binding
    BY <1>1, ConfigType DEF CallType, CallOK, Binding, RequestFingerprint, Kinds, OTP
  <2> HIDE DEF b, new
  <2>3. bound' \in {b, [b EXCEPT ![call[p].tx] = new]}
    BY DEF BindTransactionFingerprint, b, new
  <2> QED BY <1>1, <2>1, <2>2, <2>3
<1> QED BY <1>2, <1>3 DEF BindTransactionFingerprint, TypeInv, TypeOK, CallType

-----------------------------------------------------------------------------
(***************************************************************************)
(* The step under the mutex.                                               *)
(***************************************************************************)
LEMMA PruneType ==
    ASSUME TypeInv, NEW p \in Procs
    PROVE  /\ pruneLocked(p) \in [Keys -> SUBSET Event]
           /\ \A k \in Keys : pruneLocked(p)[k] \subseteq buckets[k]
BY DEF TypeInv, TypeOK, pruneLocked, retainRecent

LEMMA TypeDecide ==
    ASSUME TypeInv, NEW p \in Procs, NEW fits \in BOOLEAN, NEW pc \in {"idle", "issue"},
           call[p].pc = "allow", pc = "issue" => call[p].kind = "otp_request",
           Decide(p, fits, pc), clock' = clock, UNCHANGED issued,
           bound' \in {bound, pruneTransactionsLocked(call[p].now)}
    PROVE  TypeInv'
<1>1. call[p] \in CallType /\ CallOK(call[p], clock) /\ clock \in Nat /\ seq \in Nat
  BY DEF TypeInv, TypeOK, CallType, CallsOK
<1> DEFINE e == [n |-> seq, at |-> call[p].now]
           c == IF fits /\ pc # "idle" THEN [call[p] EXCEPT !.pc = pc] ELSE Idle
<1>2. e \in Event
  BY <1>1 DEF Event, CallType
<1>3. c \in CallType /\ CallOK(c, clock)
  BY <1>1, IdleOK DEF CallType, CallOK
<1>4. call' = [call EXCEPT ![p] = c]
  BY DEF Decide
<1>5. call' \in [Procs -> CallType] /\ CallsOK'
  BY <1>3, <1>4, CallChanges
<1>6. bound' \in [Txs -> Binding \cup {None}]
  BY <1>1, PruneTransactionsType DEF TypeInv, TypeOK, CallType
<1>7. buckets' \in [Keys -> SUBSET Event] /\ granted' \in [Keys -> SUBSET Event]
  BY <1>2, PruneType DEF Decide, TypeInv, TypeOK
<1>8. seq' \in Nat
  BY <1>1 DEF Decide
<1> QED BY <1>5, <1>6, <1>7, <1>8 DEF TypeInv, TypeOK, CallType

LEMMA TypeAllow ==
    ASSUME TypeInv, NEW p \in Procs, allow(p) \/ allowHandoff(p) \/ allowKV(p)
    PROVE  TypeInv'
<1>1. Fits(p) \in BOOLEAN /\ FitsKV(p) \in BOOLEAN
  BY DEF Fits, FitsKV, WithinLimits, HasRoom, HasScopeRoom
<1>2. CASE allow(p)
  <2> DEFINE pc == IF call[p].kind = "otp_request" THEN "issue" ELSE "idle"
  <2>1. Decide(p, Fits(p), pc)
    BY <1>2 DEF allow
  <2>2. pc \in {"idle", "issue"} /\ (pc = "issue" => call[p].kind = "otp_request")
    OBVIOUS
  <2> HIDE DEF pc
  <2> QED BY <1>1, <1>2, <2>1, <2>2, TypeDecide DEF allow
<1>3. CASE allowHandoff(p)
  BY <1>1, <1>3, TypeDecide DEF allowHandoff
<1>4. CASE allowKV(p)
  BY <1>1, <1>4, TypeDecide DEF allowKV
<1> QED BY <1>2, <1>3, <1>4

LEMMA TypeTick ==
    ASSUME TypeInv, Tick
    PROVE  TypeInv'
<1>1. clock \in Nat /\ clock' = clock + 1 /\ call' = call /\ call \in [Procs -> CallType]
  BY DEF TypeInv, TypeOK, Tick, CallType
<1>2. \A p \in Procs : CallOK(call[p], clock')
  <2> SUFFICES ASSUME NEW p \in Procs PROVE CallOK(call[p], clock')
    OBVIOUS
  <2>1. CallOK(call[p], clock) /\ call[p].now \in Nat
    BY <1>1 DEF TypeInv, CallsOK, CallType
  <2>2. call[p].now <= clock'
    BY <1>1, <2>1 DEF CallOK
  <2> QED BY <2>1, <2>2 DEF CallOK
<1>3. CallsOK'
  BY <1>1, <1>2 DEF CallsOK
<1> QED BY <1>1, <1>3 DEF TypeInv, TypeOK, Tick, Tables

LEMMA TypeNext ==
    ASSUME TypeInv, [Next]_vars
    PROVE  TypeInv'
<1>1. CASE UNCHANGED vars
  BY <1>1 DEF vars, TypeInv, TypeOK, CallsOK
<1>2. CASE Next
  BY <1>2, NextCases, TypeBegin, TypeLookup, TypeHandler, TypeAllow, TypeBind, TypeTick
<1> QED BY <1>1, <1>2

\* The tables, the bindings and the requests keep their types, and no request is
\* ahead of the clock it has read.
THEOREM TypeCorrect == Spec => []TypeOK
<1>1. Init => TypeInv
  BY TypeInit
<1>2. TypeInv /\ [Next]_vars => TypeInv'
  BY TypeNext
<1>3. TypeInv => TypeOK
  BY DEF TypeInv
<1> QED BY <1>1, <1>2, <1>3, PTL DEF Spec

-----------------------------------------------------------------------------
(***************************************************************************)
(* Budgets.                                                                *)
(***************************************************************************)
LEMMA LimitType == \A k \in Keys : LimitOf(k) \in Nat /\ KindOf(k) \in Kinds
<1> SUFFICES ASSUME NEW k \in Keys PROVE LimitOf(k) \in Nat /\ KindOf(k) \in Kinds
  OBVIOUS
<1>1. k[1] \in Kinds \X Dims
  BY DEF Keys, Kinds, OTP, Dims
<1> QED BY <1>1, ConfigType DEF LimitOf, KindOf

\* A bucket is within its limit.
BucketsBounded ==
    \A k \in Keys : IsFiniteSet(buckets[k]) /\ Cardinality(buckets[k]) <= LimitOf(k)

Shared(k, w) == \A i \in Kinds : SameTable(i, KindOf(k)) => w <= Window[i]

\* What the window still covers has not been pruned.
Remembered ==
    \A k \in Keys, w \in {Window[i] : i \in Kinds} : Shared(k, w) =>
        \A e \in granted[k] : e.at > clock - w => e \in buckets[k]

BudgetInv == TypeInv /\ BucketsBounded /\ Remembered

LEMMA BudgetInit == Init => BudgetInv
<1> SUFFICES ASSUME Init PROVE BudgetInv
  OBVIOUS
<1>1. BucketsBounded
  BY FS_EmptySet, LimitType DEF Init, BucketsBounded
<1>2. Remembered
  BY DEF Init, Remembered
<1> QED BY <1>1, <1>2, TypeInit DEF BudgetInv

LEMMA DecideKeepsBudgets ==
    ASSUME BudgetInv, NEW p \in Procs, call[p].pc = "allow", NEW fits \in BOOLEAN, NEW pc,
           fits => WithinLimits(pruneLocked(p), call[p].keys),
           Decide(p, fits, pc), clock' = clock
    PROVE  BucketsBounded' /\ Remembered'
<1> DEFINE b == pruneLocked(p)
           ks == call[p].keys
           e0 == [n |-> seq, at |-> call[p].now]
<1>1. /\ call[p] \in CallType /\ call[p].now <= clock /\ call[p].kind \in Kinds
      /\ clock \in Nat /\ call[p].now \in Nat
      /\ granted \in [Keys -> SUBSET Event] /\ buckets \in [Keys -> SUBSET Event]
  BY DEF BudgetInv, TypeInv, TypeOK, CallType, CallsOK, CallOK
<1>2. b \in [Keys -> SUBSET Event] /\ \A k \in Keys : b[k] \subseteq buckets[k]
  BY PruneType DEF BudgetInv
<1>3. \A k \in Keys : IsFiniteSet(b[k]) /\ Cardinality(b[k]) \in Nat
                       /\ Cardinality(b[k]) <= LimitOf(k)
  <2> SUFFICES ASSUME NEW k \in Keys
               PROVE  IsFiniteSet(b[k]) /\ Cardinality(b[k]) \in Nat
                      /\ Cardinality(b[k]) <= LimitOf(k)
    OBVIOUS
  <2>1. IsFiniteSet(buckets[k]) /\ Cardinality(buckets[k]) <= LimitOf(k)
    BY DEF BudgetInv, BucketsBounded
  <2>2. IsFiniteSet(b[k]) /\ Cardinality(b[k]) <= Cardinality(buckets[k])
    BY <1>2, <2>1, FS_Subset
  <2>3. Cardinality(b[k]) \in Nat /\ Cardinality(buckets[k]) \in Nat /\ LimitOf(k) \in Nat
    BY <2>1, <2>2, FS_CardinalityType, LimitType
  <2> QED BY <2>1, <2>2, <2>3
<1>4. \A k \in Keys :
        /\ buckets'[k] = IF fits /\ k \in ks THEN b[k] \cup {e0} ELSE b[k]
        /\ granted'[k] = IF fits /\ k \in ks THEN granted[k] \cup {e0} ELSE granted[k]
  BY <1>1, <1>2 DEF Decide
<1>5. ASSUME NEW k \in Keys
      PROVE  IsFiniteSet(buckets'[k]) /\ Cardinality(buckets'[k]) <= LimitOf(k)
  <2>1. CASE fits /\ k \in ks
    <3>1. Cardinality(b[k]) < LimitOf(k)
      BY <2>1 DEF WithinLimits
    <3>2. /\ IsFiniteSet(b[k] \cup {e0})
          /\ Cardinality(b[k] \cup {e0}) \in {Cardinality(b[k]), Cardinality(b[k]) + 1}
      BY <1>3, FS_AddElement
    <3>3. buckets'[k] = b[k] \cup {e0}
      BY <1>4, <2>1
    <3>4. Cardinality(b[k]) \in Nat /\ LimitOf(k) \in Nat
      BY <1>3, LimitType
    <3> HIDE DEF b, e0
    <3> QED BY <3>1, <3>2, <3>3, <3>4
  <2>2. CASE ~(fits /\ k \in ks)
    BY <1>3, <1>4, <2>2
  <2> QED BY <2>1, <2>2
<1>6. BucketsBounded'
  BY <1>5 DEF BucketsBounded
<1>7. ASSUME NEW k \in Keys, NEW w \in {Window[i] : i \in Kinds}, Shared(k, w),
             NEW e \in granted'[k], e.at > clock - w
      PROVE  e \in buckets'[k]
  <2>1. CASE fits /\ k \in ks /\ e = e0
    BY <1>4, <2>1
  <2>2. CASE ~(fits /\ k \in ks /\ e = e0)
    <3>1. e \in granted[k] /\ e \in Event
      BY <1>1, <1>4, <1>7, <2>2
    <3>2. e \in buckets[k]
      BY <1>7, <3>1 DEF BudgetInv, Remembered
    <3>3. e \in b[k]
      <4>1. CASE SameTable(call[p].kind, KindOf(k))
        <5>1. w <= Window[call[p].kind]
          BY <1>1, <1>7, <4>1 DEF Shared
        <5>2. w \in Nat /\ Window[call[p].kind] \in Nat /\ e.at \in Nat
          BY <1>1, <3>1, ConfigType DEF Event
        <5>3. e.at > call[p].now - Window[call[p].kind]
          BY <1>1, <1>7, <5>1, <5>2
        <5>4. e.n \in Nat
          BY <3>1 DEF Event
        <5>5. e \in retainRecent(buckets[k], call[p].now - Window[call[p].kind])
          BY <3>2, <5>3, <5>4 DEF retainRecent
        <5> QED BY <4>1, <5>5 DEF pruneLocked
      <4>2. CASE ~SameTable(call[p].kind, KindOf(k))
        BY <3>2, <4>2 DEF pruneLocked
      <4> QED BY <4>1, <4>2
    <3> QED BY <1>4, <3>3
  <2> QED BY <2>1, <2>2
<1>8. Remembered'
  BY <1>7 DEF Remembered, Shared
<1> QED BY <1>6, <1>8

\* Every step but those under the mutex leaves the buckets and the clock alone,
\* or only lets time pass.
LEMMA OtherSteps ==
    ASSUME Next
    PROVE  \/ \E p \in Procs : allow(p) \/ allowHandoff(p) \/ allowKV(p)
           \/ UNCHANGED <<clock, buckets, granted>>
           \/ Tick
BY NextCases DEF AllowRequest, AllowHandoffRequest, AllowTransactionRequest, AllowKV, Begin,
       AllowTransactionFingerprint, ReadClock, IssueFails, Issue, BindTransactionFingerprint, Tables

LEMMA BudgetNext ==
    ASSUME BudgetInv, [Next]_vars
    PROVE  BudgetInv'
<1>0. TypeInv'
  BY TypeNext DEF BudgetInv
<1>1. CASE UNCHANGED <<clock, buckets, granted>>
  BY <1>0, <1>1 DEF BudgetInv, BucketsBounded, Remembered
<1>2. ASSUME NEW p \in Procs, allow(p) \/ allowHandoff(p) \/ allowKV(p)
      PROVE  BudgetInv'
  <2>1. /\ Fits(p) \in BOOLEAN /\ FitsKV(p) \in BOOLEAN
        /\ Fits(p) => WithinLimits(pruneLocked(p), call[p].keys)
        /\ FitsKV(p) => WithinLimits(pruneLocked(p), call[p].keys)
    BY DEF Fits, FitsKV, WithinLimits, HasRoom, HasScopeRoom
  <2>2. \E fits \in {Fits(p), FitsKV(p)}, pc \in {"idle", "issue"} : Decide(p, fits, pc)
    BY <1>2 DEF allow, allowHandoff, allowKV
  <2>3. PICK fits \in {Fits(p), FitsKV(p)}, pc \in {"idle", "issue"} : Decide(p, fits, pc)
    BY <2>2
  <2>4. call[p].pc = "allow" /\ clock' = clock
    BY <1>2 DEF allow, allowHandoff, allowKV
  <2>5. fits \in BOOLEAN /\ (fits => WithinLimits(pruneLocked(p), call[p].keys))
    BY <2>1
  <2>6. BucketsBounded' /\ Remembered'
    BY <2>3, <2>4, <2>5, DecideKeepsBudgets
  <2> QED BY <1>0, <2>6 DEF BudgetInv
<1>3. CASE Tick
  <2>1. clock \in Nat /\ clock' = clock + 1 /\ UNCHANGED <<buckets, granted>>
        /\ granted \in [Keys -> SUBSET Event]
    BY <1>3 DEF Tick, Tables, BudgetInv, TypeInv, TypeOK
  <2>2. BucketsBounded'
    BY <2>1 DEF BudgetInv, BucketsBounded
  <2>3. ASSUME NEW k \in Keys, NEW w \in {Window[i] : i \in Kinds}, Shared(k, w),
               NEW e \in granted'[k], e.at > clock' - w
        PROVE  e \in buckets'[k]
    <3>1. w \in Nat /\ e \in granted[k] /\ e.at \in Nat
      BY <2>1, <2>3, ConfigType DEF Event
    <3>2. e.at > clock - w
      BY <2>1, <2>3, <3>1
    <3>3. e \in buckets[k]
      BY <2>3, <3>1, <3>2 DEF BudgetInv, Remembered
    <3> QED BY <2>1, <3>3
  <2>4. Remembered'
    BY <2>3 DEF Remembered, Shared
  <2> QED BY <1>0, <2>2, <2>4 DEF BudgetInv
<1>4. CASE UNCHANGED vars
  BY <1>1, <1>4 DEF vars
<1> QED BY <1>1, <1>2, <1>3, <1>4, OtherSteps

LEMMA BudgetImplies == BudgetInv => BudgetsHold
<1> SUFFICES ASSUME BudgetInv, NEW k \in Keys, NEW w \in {Window[i] : i \in Kinds}, Shared(k, w)
             PROVE  Cardinality({e \in granted[k] : e.at > clock - w}) <= LimitOf(k)
  BY DEF BudgetsHold, Shared
<1> DEFINE R == {e \in granted[k] : e.at > clock - w}
<1>1. R \subseteq buckets[k]
  BY DEF BudgetInv, Remembered
<1>2. IsFiniteSet(buckets[k]) /\ Cardinality(buckets[k]) <= LimitOf(k)
  BY DEF BudgetInv, BucketsBounded
<1>3. IsFiniteSet(R) /\ Cardinality(R) <= Cardinality(buckets[k])
  BY <1>1, <1>2, FS_Subset
<1>4. Cardinality(R) \in Nat /\ Cardinality(buckets[k]) \in Nat /\ LimitOf(k) \in Nat
  BY <1>2, <1>3, FS_CardinalityType, LimitType
<1> HIDE DEF R
<1>5. Cardinality(R) <= LimitOf(k)
  BY <1>2, <1>3, <1>4
<1> QED BY <1>5 DEF R

\* For any number of requests at once, any limits and any windows: no key has
\* more admissions within the shortest window of its table than its limit.
THEOREM BudgetsAlwaysHold == Spec => []BudgetsHold
<1>1. Init => BudgetInv
  BY BudgetInit
<1>2. BudgetInv /\ [Next]_vars => BudgetInv'
  BY BudgetNext
<1>3. BudgetInv => BudgetsHold
  BY BudgetImplies
<1> QED BY <1>1, <1>2, <1>3, PTL DEF Spec

-----------------------------------------------------------------------------
(***************************************************************************)
(* The size of the tables.                                                 *)
(***************************************************************************)
LEMMA SmallerSet ==
    ASSUME NEW S, NEW T, IsFiniteSet(S), T \subseteq S, NEW n \in Nat, Cardinality(S) <= n
    PROVE  IsFiniteSet(T) /\ Cardinality(T) <= n
<1>1. IsFiniteSet(T) /\ Cardinality(T) <= Cardinality(S)
  BY FS_Subset
<1>2. Cardinality(T) \in Nat /\ Cardinality(S) \in Nat
  BY <1>1, FS_CardinalityType
<1> QED BY <1>1, <1>2

Held == {t \in Txs : bound[t] # None}

\* The tables are finite, and within their bounds.
SizesBounded ==
    /\ IsFiniteSet(Occupied(buckets)) /\ Cardinality(Occupied(buckets)) <= MaxKeys + 4
    /\ IsFiniteSet(OccupiedScopes(buckets)) /\ Cardinality(OccupiedScopes(buckets)) <= MaxRateScopes
    /\ IsFiniteSet(Held) /\ Cardinality(Held) <= MaxKeys

SizeInv == TypeInv /\ SizesBounded

LEMMA SizeInit == Init => SizeInv
<1> SUFFICES ASSUME Init PROVE SizeInv
  OBVIOUS
<1>1. Occupied(buckets) = {} /\ OccupiedScopes(buckets) = {} /\ Held = {}
  BY DEF Init, Occupied, OccupiedScopes, Held
<1> QED BY <1>1, FS_EmptySet, TypeInit, ConfigType DEF SizeInv, SizesBounded

\* Pruning makes no table larger.
LEMMA PruneSizes ==
    ASSUME SizeInv, NEW p \in Procs
    PROVE  LET b == pruneLocked(p)
           IN /\ IsFiniteSet(Occupied(b)) /\ Cardinality(Occupied(b)) <= MaxKeys + 4
              /\ IsFiniteSet(OccupiedScopes(b)) /\ Cardinality(OccupiedScopes(b)) <= MaxRateScopes
<1> DEFINE b == pruneLocked(p)
<1>1. \A k \in Keys : b[k] \subseteq buckets[k]
  BY PruneType DEF SizeInv
<1> HIDE DEF b
<1>2. Occupied(b) \subseteq Occupied(buckets) /\ OccupiedScopes(b) \subseteq OccupiedScopes(buckets)
  BY <1>1 DEF Occupied, OccupiedScopes
<1>3. MaxKeys + 4 \in Nat /\ MaxRateScopes \in Nat
  BY ConfigType
<1>4. IsFiniteSet(Occupied(b)) /\ Cardinality(Occupied(b)) <= MaxKeys + 4
  BY <1>2, <1>3, SmallerSet DEF SizeInv, SizesBounded
<1>5. IsFiniteSet(OccupiedScopes(b)) /\ Cardinality(OccupiedScopes(b)) <= MaxRateScopes
  BY <1>2, <1>3, SmallerSet DEF SizeInv, SizesBounded
<1> QED BY <1>4, <1>5 DEF b

LEMMA DecideSizes ==
    ASSUME SizeInv, NEW p \in Procs, NEW fits \in BOOLEAN, NEW pc, Decide(p, fits, pc)
    PROVE  \A k \in Keys : buckets'[k] # {} =>
               pruneLocked(p)[k] # {} \/ (fits /\ k \in call[p].keys)
BY PruneType DEF SizeInv, Decide

\* A request of the Limiter: five new keys, where there was room for one.
LEMMA LimiterSizes ==
    ASSUME SizeInv, NEW p \in Procs, LimiterKeys(call[p].keys), NEW pc,
           Decide(p, Fits(p), pc)
    PROVE  /\ IsFiniteSet(Occupied(buckets')) /\ Cardinality(Occupied(buckets')) <= MaxKeys + 4
           /\ IsFiniteSet(OccupiedScopes(buckets'))
           /\ Cardinality(OccupiedScopes(buckets')) <= MaxRateScopes
<1> DEFINE b == pruneLocked(p)
           ks == call[p].keys
<1>0. Fits(p) \in BOOLEAN /\ MaxKeys \in Nat /\ MaxKeys + 4 \in Nat /\ MaxRateScopes \in Nat
  BY ConfigType DEF Fits, WithinLimits, HasRoom
<1>1. /\ IsFiniteSet(Occupied(b)) /\ Cardinality(Occupied(b)) <= MaxKeys + 4
      /\ IsFiniteSet(OccupiedScopes(b)) /\ Cardinality(OccupiedScopes(b)) <= MaxRateScopes
  BY PruneSizes
<1>2. \A k \in Keys : buckets'[k] # {} => b[k] # {} \/ (Fits(p) /\ k \in ks)
  BY <1>0, DecideSizes
<1>3. OccupiedScopes(buckets') \subseteq OccupiedScopes(b)
  BY <1>2 DEF OccupiedScopes, LimiterKeys
<1>4. IsFiniteSet(OccupiedScopes(buckets')) /\ Cardinality(OccupiedScopes(buckets')) <= MaxRateScopes
  BY <1>0, <1>1, <1>3, SmallerSet
<1>5. CASE Fits(p) /\ \E k \in ks : b[k] = {}
  <2>1. Cardinality(Occupied(b)) < MaxKeys
    BY <1>5 DEF Fits, HasRoom
  <2>2. Occupied(buckets') \subseteq Occupied(b) \cup ks
    BY <1>2 DEF Occupied
  <2>3. IsFiniteSet(ks) /\ Cardinality(ks) <= 5
    BY DEF LimiterKeys
  <2>4. /\ IsFiniteSet(Occupied(b) \cup ks)
        /\ Cardinality(Occupied(b) \cup ks) =
             Cardinality(Occupied(b)) + Cardinality(ks) - Cardinality(Occupied(b) \cap ks)
    BY <1>1, <2>3, FS_Union
  <2>5. IsFiniteSet(Occupied(b) \cap ks)
    BY <1>1, FS_Subset
  <2>6. /\ Cardinality(Occupied(b)) \in Nat /\ Cardinality(ks) \in Nat
        /\ Cardinality(Occupied(b) \cap ks) \in Nat
    BY <1>1, <2>3, <2>5, FS_CardinalityType
  <2> HIDE DEF b, ks
  <2>7. Cardinality(Occupied(b) \cup ks) <= MaxKeys + 4
    BY <1>0, <2>1, <2>3, <2>4, <2>6
  <2>8. IsFiniteSet(Occupied(buckets')) /\ Cardinality(Occupied(buckets')) <= MaxKeys + 4
    BY <1>0, <2>2, <2>4, <2>7, SmallerSet
  <2> QED BY <1>4, <2>8
<1>6. CASE ~(Fits(p) /\ \E k \in ks : b[k] = {})
  <2>1. Occupied(buckets') \subseteq Occupied(b)
    BY <1>2, <1>6 DEF Occupied
  <2>2. IsFiniteSet(Occupied(buckets')) /\ Cardinality(Occupied(buckets')) <= MaxKeys + 4
    BY <1>0, <1>1, <2>1, SmallerSet
  <2> QED BY <1>4, <2>2
<1> QED BY <1>5, <1>6

\* A request of kv.Service: its new keys fit together.
LEMMA ScopeSizes ==
    ASSUME SizeInv, NEW p \in Procs, ScopeKeys(call[p].keys), NEW pc,
           Decide(p, FitsKV(p), pc)
    PROVE  /\ IsFiniteSet(Occupied(buckets')) /\ Cardinality(Occupied(buckets')) <= MaxKeys + 4
           /\ IsFiniteSet(OccupiedScopes(buckets'))
           /\ Cardinality(OccupiedScopes(buckets')) <= MaxRateScopes
<1> DEFINE b == pruneLocked(p)
           ks == call[p].keys
           new == ks \ {<<<<"kv", "global">>, "all">>}
<1>0. FitsKV(p) \in BOOLEAN /\ MaxKeys + 4 \in Nat /\ MaxRateScopes \in Nat
  BY ConfigType DEF FitsKV, WithinLimits, HasScopeRoom
<1>1. /\ IsFiniteSet(Occupied(b)) /\ Cardinality(Occupied(b)) <= MaxKeys + 4
      /\ IsFiniteSet(OccupiedScopes(b)) /\ Cardinality(OccupiedScopes(b)) <= MaxRateScopes
  BY PruneSizes
<1>2. \A k \in Keys : buckets'[k] # {} => b[k] # {} \/ (FitsKV(p) /\ k \in ks)
  BY <1>0, DecideSizes
<1>3. Occupied(buckets') \subseteq Occupied(b)
  BY <1>2 DEF Occupied, ScopeKeys
<1>4. IsFiniteSet(Occupied(buckets')) /\ Cardinality(Occupied(buckets')) <= MaxKeys + 4
  BY <1>0, <1>1, <1>3, SmallerSet
<1>5. CASE FitsKV(p)
  <2>1. Cardinality(OccupiedScopes(b) \cup new) <= MaxRateScopes
    BY <1>5 DEF FitsKV, HasScopeRoom
  <2>2. OccupiedScopes(buckets') \subseteq OccupiedScopes(b) \cup new
    BY <1>2 DEF OccupiedScopes
  <2>3. IsFiniteSet(new)
    BY FS_Subset DEF ScopeKeys
  <2>4. IsFiniteSet(OccupiedScopes(b) \cup new)
    BY <1>1, <2>3, FS_Union
  <2> HIDE DEF b, new
  <2>5. IsFiniteSet(OccupiedScopes(buckets')) /\ Cardinality(OccupiedScopes(buckets')) <= MaxRateScopes
    BY <1>0, <2>1, <2>2, <2>4, SmallerSet
  <2> QED BY <1>4, <2>5
<1>6. CASE ~FitsKV(p)
  <2>1. OccupiedScopes(buckets') \subseteq OccupiedScopes(b)
    BY <1>2, <1>6 DEF OccupiedScopes
  <2>2. IsFiniteSet(OccupiedScopes(buckets')) /\ Cardinality(OccupiedScopes(buckets')) <= MaxRateScopes
    BY <1>0, <1>1, <2>1, SmallerSet
  <2> QED BY <1>4, <2>2
<1> QED BY <1>5, <1>6

\* Bindings only go, unless one is made where there is room for it.
LEMMA HeldShrinks ==
    ASSUME SizeInv, bound' \in [Txs -> Binding \cup {None}],
           \A t \in Txs : bound'[t] # None => bound[t] # None
    PROVE  IsFiniteSet(Held') /\ Cardinality(Held') <= MaxKeys
<1>1. Held' \subseteq Held
  BY DEF Held
<1>2. IsFiniteSet(Held) /\ Cardinality(Held) <= MaxKeys /\ MaxKeys \in Nat
  BY ConfigType DEF SizeInv, SizesBounded
<1> QED BY <1>1, <1>2, SmallerSet

LEMMA BindSizes ==
    ASSUME SizeInv, NEW p \in Procs, BindTransactionFingerprint(p)
    PROVE  IsFiniteSet(Held') /\ Cardinality(Held') <= MaxKeys
<1> DEFINE b == pruneTransactionsLocked(call[p].now)
           t == call[p].tx
           H == {u \in Txs : b[u] # None}
           full == b[t] = None /\ Cardinality(H) >= MaxKeys
           new == [mail |-> call[p].mail, print |-> RequestFingerprint(call[p].who),
                   expires |-> call[p].now + Window["otp_request"]]
<1>1. t \in Txs /\ b \in [Txs -> Binding \cup {None}] /\ MaxKeys \in Nat
  BY PruneTransactionsType, ConfigType
     DEF SizeInv, TypeInv, TypeOK, CallsOK, CallOK, BindTransactionFingerprint
<1>2. bound' = IF full THEN b ELSE [b EXCEPT ![t] = new]
  BY DEF BindTransactionFingerprint
<1>3. H \subseteq Held
  BY DEF Held, pruneTransactionsLocked, Alive
<1>4. IsFiniteSet(H) /\ Cardinality(H) <= MaxKeys
  <2>1. IsFiniteSet(Held) /\ Cardinality(Held) <= MaxKeys
    BY DEF SizeInv, SizesBounded
  <2> QED BY <1>1, <1>3, <2>1, SmallerSet
<1>5. Cardinality(H) \in Nat
  BY <1>4, FS_CardinalityType
<1> HIDE DEF b, new
<1>6. CASE full
  <2>1. Held' = H
    BY <1>2, <1>6 DEF Held
  <2> QED BY <1>4, <2>1
<1>7. CASE ~full
  <2>1. Held' \subseteq H \cup {t}
    BY <1>1, <1>2, <1>7 DEF Held
  <2>2. /\ IsFiniteSet(H \cup {t})
        /\ Cardinality(H \cup {t}) = IF t \in H THEN Cardinality(H) ELSE Cardinality(H) + 1
    BY <1>4, FS_AddElement
  <2>3. t \notin H => Cardinality(H) < MaxKeys
    BY <1>1, <1>5, <1>7
  <2>4. Cardinality(H \cup {t}) <= MaxKeys
    BY <1>1, <1>4, <1>5, <2>2, <2>3
  <2> QED BY <1>1, <2>1, <2>2, <2>4, SmallerSet
<1> QED BY <1>6, <1>7

LEMMA SizeNext ==
    ASSUME SizeInv, [Next]_vars
    PROVE  SizeInv'
<1>0. TypeInv' /\ bound' \in [Txs -> Binding \cup {None}]
  BY TypeNext DEF SizeInv, TypeInv, TypeOK
<1>1. CASE UNCHANGED <<buckets, bound>>
  BY <1>0, <1>1 DEF SizeInv, SizesBounded, Held, Occupied, OccupiedScopes
<1>2. ASSUME NEW p \in Procs, allow(p) \/ allowHandoff(p) \/ allowKV(p)
      PROVE  SizeInv'
  <2>1. CallOK(call[p], clock) /\ call[p].pc = "allow"
    BY <1>2 DEF SizeInv, TypeInv, CallsOK, allow, allowHandoff, allowKV
  <2>2. \A t \in Txs : bound'[t] # None => bound[t] # None
    BY <1>2 DEF allow, allowHandoff, allowKV, pruneTransactionsLocked, Alive
  <2>3. IsFiniteSet(Held') /\ Cardinality(Held') <= MaxKeys
    BY <1>0, <2>2, HeldShrinks
  <2>4. /\ IsFiniteSet(Occupied(buckets')) /\ Cardinality(Occupied(buckets')) <= MaxKeys + 4
        /\ IsFiniteSet(OccupiedScopes(buckets'))
        /\ Cardinality(OccupiedScopes(buckets')) <= MaxRateScopes
    <3>1. CASE allow(p) \/ allowHandoff(p)
      <4>1. LimiterKeys(call[p].keys)
        BY <2>1, <3>1 DEF CallOK, allow, allowHandoff
      <4>2. \E pc \in {"idle", "issue"} : Decide(p, Fits(p), pc)
        BY <3>1 DEF allow, allowHandoff
      <4> QED BY <4>1, <4>2, LimiterSizes
    <3>2. CASE allowKV(p)
      <4>1. ScopeKeys(call[p].keys) /\ Decide(p, FitsKV(p), "idle")
        BY <2>1, <3>2 DEF CallOK, allowKV
      <4> QED BY <4>1, ScopeSizes
    <3> QED BY <1>2, <3>1, <3>2
  <2>5. SizesBounded'
    BY <2>3, <2>4 DEF SizesBounded, Occupied, OccupiedScopes
  <2> QED BY <1>0, <2>5 DEF SizeInv
<1>3. ASSUME NEW p \in Procs, AllowTransactionFingerprint(p)
      PROVE  SizeInv'
  <2>1. \A t \in Txs : bound'[t] # None => bound[t] # None
    BY <1>3 DEF AllowTransactionFingerprint, SizeInv, TypeInv, TypeOK
  <2>2. IsFiniteSet(Held') /\ Cardinality(Held') <= MaxKeys
    BY <1>0, <2>1, HeldShrinks
  <2>3. UNCHANGED buckets
    BY <1>3 DEF AllowTransactionFingerprint
  <2> QED BY <1>0, <2>2, <2>3 DEF SizeInv, SizesBounded, Occupied, OccupiedScopes
<1>4. ASSUME NEW p \in Procs, BindTransactionFingerprint(p)
      PROVE  SizeInv'
  <2>1. IsFiniteSet(Held') /\ Cardinality(Held') <= MaxKeys
    BY <1>4, BindSizes
  <2>2. UNCHANGED buckets
    BY <1>4 DEF BindTransactionFingerprint
  <2> QED BY <1>0, <2>1, <2>2 DEF SizeInv, SizesBounded, Occupied, OccupiedScopes
<1>5. CASE UNCHANGED vars
  BY <1>1, <1>5 DEF vars
<1>6. CASE Next
  <2>1. \/ UNCHANGED <<buckets, bound>>
        \/ \E p \in Procs : \/ allow(p) \/ allowHandoff(p) \/ allowKV(p)
                             \/ AllowTransactionFingerprint(p) \/ BindTransactionFingerprint(p)
    BY <1>6, NextCases DEF AllowRequest, AllowHandoffRequest, AllowTransactionRequest, AllowKV,
         Begin, ReadClock, IssueFails, Issue, Tick, Tables
  <2> QED BY <1>1, <1>2, <1>3, <1>4, <2>1
<1> QED BY <1>5, <1>6

\* For every configuration the tables are bounded; the Limiter's by four keys
\* more than MaxKeys says.
THEOREM TablesAlwaysBounded == Spec => []TablesBounded
<1>1. Init => SizeInv
  BY SizeInit
<1>2. SizeInv /\ [Next]_vars => SizeInv'
  BY SizeNext
<1>3. SizeInv => TablesBounded
  BY DEF SizeInv, SizesBounded, TablesBounded, Held
<1> QED BY <1>1, <1>2, <1>3, PTL DEF Spec

-----------------------------------------------------------------------------
(***************************************************************************)
(* Sums over finite sets.  The library states induction for an operator,   *)
(* which the provers do not instantiate; that a nonempty set of naturals   *)
(* has a smallest member, and so a nonempty set of finite subsets a        *)
(* smallest one, is first-order and does as well.                          *)
(***************************************************************************)
\* The well-founded order of the naturals, in first-order form.
LEMMA SmallestMember ==
    ASSUME NEW T \in SUBSET Nat, T # {}
    PROVE  \E n \in T : \A m \in T : n <= m
<1>1. \E x \in T : \A y \in T : ~ (<<y, x>> \in OpToRel(<,Nat))
  <2>1. T \subseteq Nat
    OBVIOUS
  <2>2. IsWellFoundedOn(OpToRel(<,Nat), Nat)
    BY NatLessThanWellFounded
  <2> HIDE DEF OpToRel
  <2> QED BY ONLY <2>1, <2>2, T # {}, WFMin, ZenonT(20)
<1>2. PICK x \in T : \A y \in T : ~ (<<y, x>> \in OpToRel(<,Nat))
  BY <1>1
<1>3. \A y \in T : ~ (y < x)
  BY <1>2 DEF OpToRel
<1> QED BY <1>3

\* Induction over a finite set: a nonempty set of subsets has a member from
\* which no element can be taken without leaving it.
LEMMA SmallestSubset ==
    ASSUME NEW S, IsFiniteSet(S), NEW B \in SUBSET SUBSET S, B # {}
    PROVE  \E s \in B : \A x \in s : s \ {x} \notin B
<1> DEFINE T == {Cardinality(s) : s \in B}
<1>1. \A s \in SUBSET S : IsFiniteSet(s) /\ Cardinality(s) \in Nat
  BY FS_Subset, FS_CardinalityType
<1>2. T \in SUBSET Nat /\ T # {}
  BY <1>1
<1>3. PICK n \in T : \A m \in T : n <= m
  <2> HIDE DEF T
  <2> QED BY <1>2, SmallestMember
<1>4. PICK s \in B : Cardinality(s) = n
  BY <1>3
<1>5. ASSUME NEW x \in s, s \ {x} \in B
      PROVE  FALSE
  <2>1. Cardinality(s \ {x}) = Cardinality(s) - 1
    BY <1>1, FS_RemoveElement
  <2>2. Cardinality(s \ {x}) \in T
    BY <1>5
  <2>3. Cardinality(s) <= Cardinality(s) - 1 /\ Cardinality(s) \in Nat
    BY <2>1, <2>2, <1>1, <1>3, <1>4
  <2> QED BY <2>3
<1> QED BY <1>4, <1>5

\* The recursive function behind SumFunctionOnSet, which takes the members of a
\* set in the order of CHOOSE.
Pick(s) == CHOOSE x \in s : TRUE

Plus(it, w, s) == IF s = {} THEN 0 ELSE w[Pick(s)] + it[s \ {Pick(s)}]

IsFold(it, w, S) == it = [s \in SUBSET S |-> Plus(it, w, s)]

Total(w, S) == SumFunctionOnSet(w, S)

LEMMA SumIsFold ==
    ASSUME NEW w, NEW S
    PROVE  Total(w, S) = (CHOOSE it : IsFold(it, w, S))[S]
BY DEF Total, SumFunctionOnSet, FoldFunctionOnSet, MapThenFoldSet, IsFold, Plus, Pick

LEMMA PickMember ==
    ASSUME NEW s, s # {}
    PROVE  Pick(s) \in s
BY DEF Pick

\* The recursion has a solution on the subsets of a finite set.
LEMMA FoldExists ==
    ASSUME NEW w, NEW S, IsFiniteSet(S)
    PROVE  \E it : IsFold(it, w, S)
<1> DEFINE Level(n) == {s \in SUBSET S : Cardinality(s) <= n}
           Upto(g, n) == g = [s \in Level(n) |-> Plus(g, w, s)]
           T == {n \in Nat : ~ \E g : Upto(g, n)}
<1>1. \A s \in SUBSET S : /\ IsFiniteSet(s) /\ Cardinality(s) \in Nat
                          /\ \A x \in s : Cardinality(s \ {x}) = Cardinality(s) - 1
  BY FS_Subset, FS_CardinalityType, FS_RemoveElement
<1>2. T = {}
  <2> SUFFICES ASSUME T # {} PROVE FALSE
    OBVIOUS
  <2>1. T \in SUBSET Nat
    OBVIOUS
  <2>2. PICK n \in T : \A m \in T : n <= m
    <3> HIDE DEF T
    <3> QED BY <2>1, SmallestMember
  <2>3. PICK h : n > 0 => Upto(h, n - 1)
    <3>1. CASE n > 0
      <4>1. n - 1 \in Nat /\ n - 1 \notin T
        <5>1. n \in Nat
          OBVIOUS
        <5> HIDE DEF T
        <5> QED BY <5>1, <2>2, <3>1
      <4>2. \E h : Upto(h, n - 1)
        BY <4>1
      <4> QED BY <4>2
    <3>2. CASE ~(n > 0)
      BY <3>2
    <3> QED BY <3>1, <3>2
  <2> DEFINE g == [s \in Level(n) |-> Plus(h, w, s)]
  <2>4. ASSUME NEW s \in Level(n)
        PROVE  Plus(h, w, s) = Plus(g, w, s)
    <3>1. CASE s = {}
      BY <3>1 DEF Plus
    <3>2. CASE s # {}
      <4>1. Pick(s) \in s
        BY <3>2, PickMember
      <4> DEFINE r == s \ {Pick(s)}
      <4>2. r \in SUBSET S /\ Cardinality(r) = Cardinality(s) - 1
            /\ Cardinality(s) \in Nat /\ Cardinality(r) \in Nat /\ Cardinality(s) <= n
        BY <1>1, <4>1
      <4>3. n > 0 /\ r \in Level(n - 1) /\ r \in Level(n)
        BY <4>2, <2>1
      <4>4. h[r] = Plus(h, w, r)
        BY <4>3, <2>3
      <4>5. g[r] = Plus(h, w, r)
        BY <4>3
      <4>6. h[r] = g[r]
        BY <4>4, <4>5
      <4> HIDE DEF g
      <4> QED BY <3>2, <4>6 DEF Plus
    <3> QED BY <3>1, <3>2
  <2>5. Upto(g, n)
    BY <2>4
  <2> QED BY <2>5, <2>2
<1>3. PICK g : Upto(g, Cardinality(S))
  BY <1>2, <1>1
<1>4. Level(Cardinality(S)) = SUBSET S
  BY FS_Subset, <1>1
<1>5. g = [s \in SUBSET S |-> Plus(g, w, s)]
  BY <1>3, <1>4
<1> QED BY <1>5 DEF IsFold

\* Two folds of the same values agree where both are defined.
LEMMA FoldsAgree ==
    ASSUME NEW w, NEW v, NEW S, NEW R, IsFiniteSet(S), S \subseteq R, NEW a, NEW b,
           IsFold(a, w, S), IsFold(b, v, R), \A x \in S : w[x] = v[x]
    PROVE  a[S] = b[S]
<1> DEFINE B == {s \in SUBSET S : a[s] # b[s]}
<1>1. \A s \in SUBSET S : a[s] = Plus(a, w, s) /\ b[s] = Plus(b, v, s)
  BY DEF IsFold
<1>2. B = {}
  <2> SUFFICES ASSUME B # {} PROVE FALSE
    OBVIOUS
  <2>1. B \in SUBSET SUBSET S
    OBVIOUS
  <2>2. PICK s \in B : \A x \in s : s \ {x} \notin B
    <3> HIDE DEF B
    <3> QED BY <2>1, SmallestSubset
  <2>3. s # {} /\ s \subseteq S
    BY <2>2, <1>1 DEF Plus
  <2>4. Pick(s) \in s
    BY <2>3, PickMember
  <2>5. a[s \ {Pick(s)}] = b[s \ {Pick(s)}]
    BY <2>2, <2>3, <2>4
  <2>6. a[s] = b[s]
    BY <2>3, <2>4, <2>5, <1>1 DEF Plus
  <2> QED BY <2>6, <2>2
<1> QED BY <1>2

\* The sum depends on the values alone.
LEMMA SumAgree ==
    ASSUME NEW w, NEW v, NEW S, IsFiniteSet(S), \A x \in S : w[x] = v[x]
    PROVE  Total(w, S) = Total(v, S)
<1> DEFINE a == CHOOSE it : IsFold(it, w, S)
           b == CHOOSE it : IsFold(it, v, S)
<1>1. IsFold(a, w, S) /\ IsFold(b, v, S)
  BY FoldExists
<1>2. Total(w, S) = a[S] /\ Total(v, S) = b[S]
  BY SumIsFold
<1> HIDE DEF a, b
<1> QED BY <1>1, <1>2, FoldsAgree

LEMMA SumEmpty ==
    ASSUME NEW w
    PROVE  Total(w, {}) = 0
<1> DEFINE a == CHOOSE it : IsFold(it, w, {})
<1>1. IsFold(a, w, {})
  BY FoldExists, FS_EmptySet
<1>2. Total(w, {}) = a[{}]
  BY SumIsFold
<1> HIDE DEF a
<1> QED BY <1>1, <1>2 DEF IsFold, Plus

LEMMA SumPick ==
    ASSUME NEW w, NEW S, IsFiniteSet(S), S # {}
    PROVE  Total(w, S) = w[Pick(S)] + Total(w, S \ {Pick(S)})
<1> DEFINE R == S \ {Pick(S)}
           a == CHOOSE it : IsFold(it, w, S)
           b == CHOOSE it : IsFold(it, w, R)
<1>1. IsFiniteSet(R) /\ R \subseteq S
  BY FS_Subset
<1>2. IsFold(a, w, S) /\ IsFold(b, w, R)
  BY <1>1, FoldExists
<1>3. Total(w, S) = a[S] /\ Total(w, R) = b[R]
  BY SumIsFold
<1> HIDE DEF a, b
<1>4. b[R] = a[R]
  BY <1>1, <1>2, FoldsAgree
<1>5. a[S] = w[Pick(S)] + a[R]
  BY <1>2 DEF IsFold, Plus
<1> QED BY <1>3, <1>4, <1>5

\* Sums of naturals are naturals.
LEMMA SumType ==
    ASSUME NEW S, IsFiniteSet(S), NEW w, \A x \in S : w[x] \in Nat
    PROVE  Total(w, S) \in Nat
<1> DEFINE B == {s \in SUBSET S : Total(w, s) \notin Nat}
<1>1. B = {}
  <2> SUFFICES ASSUME B # {} PROVE FALSE
    OBVIOUS
  <2>1. B \in SUBSET SUBSET S
    OBVIOUS
  <2>2. PICK s \in B : \A x \in s : s \ {x} \notin B
    <3> HIDE DEF B
    <3> QED BY <2>1, SmallestSubset
  <2>3. s # {} /\ s \subseteq S
    BY <2>2, SumEmpty
  <2>4. Pick(s) \in s /\ IsFiniteSet(s)
    BY <2>3, PickMember, FS_Subset
  <2>5. Total(w, s \ {Pick(s)}) \in Nat /\ w[Pick(s)] \in Nat
    BY <2>2, <2>3, <2>4
  <2>6. Total(w, s) = w[Pick(s)] + Total(w, s \ {Pick(s)})
    BY <2>3, <2>4, SumPick
  <2>7. Total(w, s) \in Nat
    BY <2>5, <2>6
  <2> QED BY <2>2, <2>7
<1> QED BY <1>1

\* Any member can be taken out first.
LEMMA SumRemove ==
    ASSUME NEW S, IsFiniteSet(S), NEW w, \A x \in S : w[x] \in Nat, NEW e \in S
    PROVE  Total(w, S) = w[e] + Total(w, S \ {e})
<1> DEFINE B == {s \in SUBSET S : \E x \in s : Total(w, s) # w[x] + Total(w, s \ {x})}
<1>1. B = {}
  <2> SUFFICES ASSUME B # {} PROVE FALSE
    OBVIOUS
  <2>1. B \in SUBSET SUBSET S
    OBVIOUS
  <2>2. PICK s \in B : \A x \in s : s \ {x} \notin B
    <3> HIDE DEF B
    <3> QED BY <2>1, SmallestSubset
  <2>3. PICK x \in s : Total(w, s) # w[x] + Total(w, s \ {x})
    BY <2>2
  <2> DEFINE p == Pick(s)
  <2>4. p \in s /\ s \subseteq S /\ IsFiniteSet(s)
    BY <2>2, <2>3, PickMember, FS_Subset
  <2>5. Total(w, s) = w[p] + Total(w, s \ {p})
    BY <2>3, <2>4, SumPick
  <2> HIDE DEF p
  <2>6. p # x
    BY <2>3, <2>5
  <2>7. Total(w, s \ {p}) = w[x] + Total(w, (s \ {p}) \ {x})
    BY <2>2, <2>4, <2>6, <2>3
  <2>8. Total(w, s \ {x}) = w[p] + Total(w, (s \ {x}) \ {p})
    BY <2>2, <2>4, <2>6, <2>3
  <2>9. (s \ {p}) \ {x} = (s \ {x}) \ {p}
    OBVIOUS
  <2>10. IsFiniteSet((s \ {x}) \ {p}) /\ (s \ {x}) \ {p} \subseteq S
    BY <2>4, FS_Subset
  <2>11. Total(w, (s \ {x}) \ {p}) \in Nat
    BY <2>10, SumType
  <2>12. w[p] \in Nat /\ w[x] \in Nat
    BY <2>3, <2>4
  <2>13. Total(w, s) = w[x] + Total(w, s \ {x})
    <3> DEFINE n == Total(w, (s \ {x}) \ {p})
    <3>1. Total(w, (s \ {p}) \ {x}) = n
      BY <2>9
    <3>2. Total(w, s) = w[p] + (w[x] + n) /\ Total(w, s \ {x}) = w[p] + n
      BY <3>1, <2>5, <2>7, <2>8
    <3> HIDE DEF n
    <3>3. n \in Nat /\ w[p] \in Nat /\ w[x] \in Nat
      BY <2>11, <2>12 DEF n
    <3>4. w[p] + (w[x] + n) = w[x] + (w[p] + n)
      BY <3>3
    <3> QED BY <3>2, <3>4
  <2> QED BY <2>3, <2>13
<1> QED BY <1>1

-----------------------------------------------------------------------------
(***************************************************************************)
(* The quota of chats (Llm).  A settlement adds what the provider reported *)
(* beyond the reservation, and nothing else; that the counters are sums of *)
(* reservations is not needed here.                                        *)
(***************************************************************************)
Config ==
    /\ status \in {"active", "suspended", "deleted"}
    /\ host \in [on : BOOLEAN, quota : Quotas]
    /\ policy \in [on : BOOLEAN, mode : {"inherit", "unlimited", "specific"},
                   quota : Quotas \cup {Unset}] \cup {Unset}
    /\ prof \in [Profiles -> [conn : Connections, lim : LimitsSet] \cup {Unset}]
    /\ default \in Profiles
    /\ conn \in [Connections -> {"none", "active", "disabled"}]

Outcomes == {Unset, "succeeded", "failed", "ambiguous"}
Reservation == [st : {"none", "calling", "deleted"} \cup Outcomes,
                month : Int, tokens : Nat, used : Nat]
Chat == [pc : {"new", "rate", "admit", "call", "settle", "done", "denied"},
         now : 0..LastTick, lim : LimitsSet \cup {Unset}, usage : Nat, outcome : Outcomes]

Ledger ==
    /\ time \in 0..LastTick
    /\ usage \in [Months -> [used : Int, reserved : Int, flying : Int]]
    /\ res \in [Chats -> Reservation]
    /\ chat \in [Chats -> Chat]

\* A chat that settles has an outcome, and used tokens only in a success.
SettlesAnOutcome(c) ==
    chat[c].pc = "settle" =>
        /\ chat[c].outcome \in {"succeeded", "failed", "ambiguous"}
        /\ chat[c].outcome # "succeeded" => chat[c].usage = 0

QuotaInv == Config /\ Ledger /\ \A c \in Chats : SettlesAnOutcome(c)

LEMMA ChatInitOK ==
    ASSUME ChatInit
    PROVE  QuotaInv
<1>1. Config
  <2>1. PICK p \in Profiles, k \in Connections, l \in LimitsSet :
           /\ conn = [j \in Connections |-> IF j = k THEN "active" ELSE "none"]
           /\ prof = [q \in Profiles |-> IF q = p THEN [conn |-> k, lim |-> l] ELSE Unset]
           /\ default = p
    BY DEF ChatInit
  <2>2. /\ conn \in [Connections -> {"none", "active", "disabled"}]
        /\ prof \in [Profiles -> [conn : Connections, lim : LimitsSet] \cup {Unset}]
        /\ default \in Profiles
    BY <2>1
  <2>3. host \in [on : BOOLEAN, quota : Quotas]
    BY DEF ChatInit
  <2> QED BY <2>2, <2>3 DEF ChatInit, Config
<1>2. Ledger
  <2>1. [used |-> 0, reserved |-> 0, flying |-> 0] \in [used : Int, reserved : Int, flying : Int]
    OBVIOUS
  <2>2. NoReservation \in Reservation
    BY DEF NoReservation, Reservation
  <2>3. Fresh \in Chat
    BY BoundsType DEF Fresh, Chat, Outcomes
  <2>4. time \in 0..LastTick
    BY BoundsType DEF ChatInit
  <2> QED BY <2>1, <2>2, <2>3, <2>4 DEF ChatInit, Ledger
<1>3. \A c \in Chats : SettlesAnOutcome(c)
  BY DEF ChatInit, Fresh, SettlesAnOutcome
<1> QED BY <1>1, <1>2, <1>3 DEF QuotaInv

LEMMA ConfigKept ==
    ASSUME Config, UNCHANGED config
    PROVE  Config'
BY DEF Config, config

LEMMA LedgerKept ==
    ASSUME QuotaInv, UNCHANGED <<time, usage, res, chat>>
    PROVE  Ledger' /\ \A c \in Chats : SettlesAnOutcome(c)'
BY DEF QuotaInv, Ledger, SettlesAnOutcome

\* A step of a chat changes the row of that chat and nothing of the others.
LEMMA OneChat ==
    ASSUME QuotaInv, NEW c \in Chats, NEW v \in Chat, chat' = [chat EXCEPT ![c] = v],
           NEW u \in Reservation, res' = [res EXCEPT ![c] = u], UNCHANGED <<time>>,
           usage' \in [Months -> [used : Int, reserved : Int, flying : Int]],
           v.pc = "settle" =>
              /\ v.outcome \in {"succeeded", "failed", "ambiguous"}
              /\ v.outcome # "succeeded" => v.usage = 0
    PROVE  Ledger' /\ \A d \in Chats : SettlesAnOutcome(d)'
<1>1. Ledger'
  BY DEF QuotaInv, Ledger
<1>2. /\ chat'[c] = v /\ res'[c] = u
      /\ \A d \in Chats : d # c => chat'[d] = chat[d] /\ res'[d] = res[d]
  BY DEF QuotaInv, Ledger
<1>3. \A d \in Chats : SettlesAnOutcome(d)'
  BY <1>2 DEF QuotaInv, SettlesAnOutcome
<1> QED BY <1>1, <1>3

\* Only a row of a chat changes: what it becomes.
LEMMA ChatRow ==
    ASSUME QuotaInv, NEW c \in Chats
    PROVE  /\ chat[c] \in Chat /\ res[c] \in Reservation
           /\ res = [res EXCEPT ![c] = res[c]]
           /\ \A p \in {"new", "rate", "admit", "call", "settle", "done", "denied"} :
                [chat[c] EXCEPT !.pc = p] \in Chat
           /\ \A o \in {"succeeded", "failed", "ambiguous"}, n \in Nat :
                [chat[c] EXCEPT !.pc = "settle", !.outcome = o, !.usage = n] \in Chat
BY DEF QuotaInv, Ledger, Chat, Outcomes

\* The limits of a chat that may go on are those of the default profile.
LEMMA DefaultLimits ==
    ASSUME Config, prof[default] # Unset
    PROVE  /\ prof[default].lim \in LimitsSet
           /\ prof[default].lim.output \in Nat
BY LimitsType DEF Config

LEMMA ReserveIsNat ==
    ASSUME Config, prof[default] # Unset, NEW c \in Chats
    PROVE  Reserve(c) \in Nat
<1>1. InputOf[c] \in Nat /\ WantsOf[c] \in Nat
  BY ChatsType
<1> QED BY <1>1, DefaultLimits DEF Reserve

LEMMA AdmissionLimitsOK ==
    ASSUME QuotaInv, NEW c \in Chats, AdmissionLimits(c)
    PROVE  QuotaInv'
<1>1. UNCHANGED <<time, config, usage, res>>
  BY DEF AdmissionLimits, ledger
<1>2. Config'
  BY <1>1, ConfigKept DEF QuotaInv
<1>3. PICK v \in Chat : chat' = [chat EXCEPT ![c] = v] /\ v.pc # "settle"
  <2>1. CASE chat' = [chat EXCEPT ![c].pc = "denied"]
    <3>1. [chat[c] EXCEPT !.pc = "denied"] \in Chat
      BY ChatRow
    <3>2. chat[c] \in Chat
      BY ChatRow
    <3>3. [chat[c] EXCEPT !.pc = "denied"].pc # "settle"
      BY <3>2 DEF Chat
    <3> QED BY <2>1, <3>1, <3>3
  <2>2. CASE Enabled /\ chat' = [chat EXCEPT ![c].pc = "rate", ![c].now = time,
                                        ![c].lim = prof[default].lim]
    <3> DEFINE v == [chat[c] EXCEPT !.pc = "rate", !.now = time, !.lim = prof[default].lim]
    <3>1. chat[c] \in Chat /\ time \in 0..LastTick
      BY ChatRow DEF QuotaInv, Ledger
    <3>2. prof[default].lim \in LimitsSet
      BY <2>2, DefaultLimits DEF Enabled, QuotaInv
    <3>3. v \in Chat /\ v.pc # "settle"
      BY <3>1, <3>2 DEF Chat
    <3>4. chat' = [chat EXCEPT ![c] = v]
      BY <2>2
    <3> QED BY <3>3, <3>4
  <2> QED BY <2>1, <2>2 DEF AdmissionLimits, Deny
<1>4. /\ res' = [res EXCEPT ![c] = res[c]] /\ res[c] \in Reservation
      /\ usage' \in [Months -> [used : Int, reserved : Int, flying : Int]]
  BY <1>1, ChatRow DEF QuotaInv, Ledger
<1>5. Ledger' /\ \A d \in Chats : SettlesAnOutcome(d)'
  BY <1>1, <1>3, <1>4, OneChat
<1> QED BY <1>2, <1>5 DEF QuotaInv

LEMMA reserveRateOK ==
    ASSUME QuotaInv, NEW c \in Chats, reserveRate(c)
    PROVE  QuotaInv'
<1>1. UNCHANGED <<time, config, usage, res>>
  BY DEF reserveRate, ledger
<1>2. Config'
  BY <1>1, ConfigKept DEF QuotaInv
<1>3. PICK p \in {"admit", "denied"} : chat' = [chat EXCEPT ![c].pc = p]
  BY DEF reserveRate, Deny
<1> DEFINE v == [chat[c] EXCEPT !.pc = p]
<1>4. v \in Chat /\ v.pc # "settle" /\ chat' = [chat EXCEPT ![c] = v]
  <2>1. chat[c] \in Chat
    BY ChatRow
  <2> QED BY <2>1, <1>3 DEF Chat
<1>5. /\ res' = [res EXCEPT ![c] = res[c]] /\ res[c] \in Reservation
      /\ usage' \in [Months -> [used : Int, reserved : Int, flying : Int]]
  BY <1>1, ChatRow DEF QuotaInv, Ledger
<1>6. Ledger' /\ \A d \in Chats : SettlesAnOutcome(d)'
  <2> HIDE DEF v
  <2> QED BY <1>1, <1>4, <1>5, OneChat
<1> QED BY <1>2, <1>6 DEF QuotaInv

\* A chat that leaves its call changes no row but its own.
LEMMA LeavesCallOK ==
    ASSUME QuotaInv, NEW c \in Chats, UNCHANGED <<time, config, usage, res>>,
           NEW o \in {"succeeded", "failed", "ambiguous"}, NEW n \in Nat, Settle(c, o, n),
           o # "succeeded" => n = 0
    PROVE  QuotaInv'
<1>1. Config'
  BY ConfigKept DEF QuotaInv
<1> DEFINE v == [chat[c] EXCEPT !.pc = "settle", !.outcome = o, !.usage = n]
<1>2. v \in Chat /\ v.outcome = o /\ v.usage = n /\ chat' = [chat EXCEPT ![c] = v]
  <2>1. chat[c] \in Chat
    BY ChatRow
  <2> QED BY <2>1 DEF Settle, Chat, Outcomes
<1>3. /\ res' = [res EXCEPT ![c] = res[c]] /\ res[c] \in Reservation
      /\ usage' \in [Months -> [used : Int, reserved : Int, flying : Int]]
  BY ChatRow DEF QuotaInv, Ledger
<1>4. Ledger' /\ \A d \in Chats : SettlesAnOutcome(d)'
  <2> HIDE DEF v
  <2> QED BY <1>2, <1>3, OneChat
<1> QED BY <1>1, <1>4 DEF QuotaInv

LEMMA ProviderOK ==
    ASSUME QuotaInv, NEW c \in Chats,
           EnvelopeFails(c) \/ Answered(c) \/ Refused(c) \/ Ambiguous(c)
    PROVE  QuotaInv'
<1>1. UNCHANGED <<time, config, usage, res>>
  BY DEF EnvelopeFails, Answered, Refused, Ambiguous, ledger
<1>2. CASE EnvelopeFails(c) \/ Refused(c) \/ Ambiguous(c)
  <2>1. PICK o \in {"failed", "ambiguous"} : Settle(c, o, 0)
    BY <1>2 DEF EnvelopeFails, Refused, Ambiguous
  <2> QED BY <2>1, <1>1, LeavesCallOK
<1>3. CASE Answered(c)
  <2>1. PICK input \in 0..MaxReported, output \in 0..chat[c].lim.output :
           Settle(c, "succeeded", input + output)
    BY <1>3 DEF Answered
  <2>2. input \in Nat /\ output \in Nat
    BY <2>1, BoundsType
  <2>3. input + output \in Nat
    BY <2>2
  <2> QED BY <2>1, <2>3, <1>1, LeavesCallOK
<1> QED BY <1>2, <1>3

Rows == [used : Int, reserved : Int, flying : Int]

\* Months, and with them what a month has committed, in integers.
LEMMA CommittedIsInt ==
    ASSUME QuotaInv, NEW m \in Months
    PROVE  usage[m] \in Rows /\ Committed(m) \in Int
<1>1. usage[m] \in Rows
  BY DEF QuotaInv, Ledger, Rows
<1> QED BY <1>1 DEF Committed, Rows

LEMMA AdmitOK ==
    ASSUME QuotaInv, NEW c \in Chats, Admit(c)
    PROVE  /\ QuotaInv'
           /\ \A m \in Months : Committed(m)' > Committed(m) => WithinQuota(m)
<1>1. UNCHANGED <<time, config>>
  BY DEF Admit
<1>2. Config'
  BY <1>1, ConfigKept DEF QuotaInv
<1>3. chat[c] \in Chat /\ res[c] \in Reservation
  BY ChatRow
<1>4. CASE /\ Deny(c) /\ UNCHANGED ledger
  <2> DEFINE v == [chat[c] EXCEPT !.pc = "denied"]
  <2>1. v \in Chat /\ v.pc # "settle" /\ chat' = [chat EXCEPT ![c] = v]
    BY <1>3, <1>4 DEF Deny, Chat
  <2>2. /\ res' = [res EXCEPT ![c] = res[c]]
        /\ usage' \in [Months -> [used : Int, reserved : Int, flying : Int]]
        /\ usage' = usage
    BY <1>4, ChatRow DEF QuotaInv, Ledger, ledger
  <2>3. Ledger' /\ \A d \in Chats : SettlesAnOutcome(d)'
    <3> HIDE DEF v
    <3> QED BY <1>1, <1>3, <2>1, <2>2, OneChat
  <2>4. \A m \in Months : Committed(m)' = Committed(m) /\ Committed(m) \in Int
    BY <2>2, CommittedIsInt DEF Committed
  <2> QED BY <1>2, <2>3, <2>4 DEF QuotaInv
<1>5. CASE \E k \in {Month(chat[c].now)} :
             /\ Enabled /\ Affordable(c)
             /\ usage' = [usage EXCEPT ![k].reserved = @ + Reserve(c), ![k].flying = @ + 1]
             /\ res' = [res EXCEPT ![c] = [st |-> "calling", month |-> k,
                                           tokens |-> Reserve(c), used |-> 0]]
             /\ Admitted(c)
  <2>1. PICK k : /\ k = Month(chat[c].now) /\ Enabled /\ Affordable(c)
                 /\ usage' = [usage EXCEPT ![k].reserved = @ + Reserve(c), ![k].flying = @ + 1]
                 /\ res' = [res EXCEPT ![c] = [st |-> "calling", month |-> k,
                                               tokens |-> Reserve(c), used |-> 0]]
                 /\ Admitted(c)
    BY <1>5
  <2>2. Reserve(c) \in Nat
    BY <2>1, ReserveIsNat DEF QuotaInv, Enabled
  <2> DEFINE n == Reserve(c)
             u == [st |-> "calling", month |-> k, tokens |-> n, used |-> 0]
  <2>3. k \in Int
    <3>1. chat[c].now \in Int /\ MonthLength \in Nat \ {0}
      BY <1>3, BoundsType DEF Chat
    <3> QED BY <3>1, <2>1 DEF Month
  <2>4. u \in Reservation
    BY <2>2, <2>3 DEF Reservation
  <2>5. PICK v \in Chat : /\ chat' = [chat EXCEPT ![c] = v]
                          /\ v.pc = "settle" => v.outcome = "failed" /\ v.usage = 0
    <3>1. CASE chat' = [chat EXCEPT ![c].pc = "call"]
      <4>1. [chat[c] EXCEPT !.pc = "call"] \in Chat /\ [chat[c] EXCEPT !.pc = "call"].pc # "settle"
        BY <1>3 DEF Chat
      <4> QED BY <3>1, <4>1
    <3>2. CASE Settle(c, "failed", 0)
      <4> DEFINE w == [chat[c] EXCEPT !.pc = "settle", !.outcome = "failed", !.usage = 0]
      <4>1. w \in Chat /\ w.outcome = "failed" /\ w.usage = 0
        BY <1>3 DEF Chat, Outcomes
      <4>2. chat' = [chat EXCEPT ![c] = w]
        BY <3>2 DEF Settle
      <4> HIDE DEF w
      <4> QED BY <4>1, <4>2
    <3> QED BY <3>1, <3>2, <2>1 DEF Admitted
  <2>6. usage \in [Months -> Rows]
    BY DEF QuotaInv, Ledger, Rows
  <2>7. \A m \in Months : /\ m # k => usage'[m] = usage[m]
                          /\ m = k => usage'[m] = [usage[m] EXCEPT !.reserved = @ + n, !.flying = @ + 1]
    BY <2>1, <2>6
  <2>8. \A m \in Months : usage[m] \in Rows
    BY <2>6
  <2>9. \A m \in Months : usage'[m] \in Rows
    <3>1. \A r \in Rows : [r EXCEPT !.reserved = @ + n, !.flying = @ + 1] \in Rows
      <4> SUFFICES ASSUME NEW r \in Rows, NEW i \in Nat
                   PROVE  [r EXCEPT !.reserved = @ + i, !.flying = @ + 1] \in Rows
        BY <2>2
      <4>1. r.used \in Int /\ r.reserved \in Int /\ r.flying \in Int
        BY DEF Rows
      <4>2. r.reserved + i \in Int /\ r.flying + 1 \in Int
        BY <4>1
      <4> QED BY <4>2 DEF Rows
    <3> QED BY <3>1, <2>7, <2>8
  <2>10. usage' \in [Months -> [used : Int, reserved : Int, flying : Int]]
    BY <2>1, <2>6, <2>9 DEF Rows
  <2>11. Ledger' /\ \A d \in Chats : SettlesAnOutcome(d)'
    <3>1. res' = [res EXCEPT ![c] = u]
      BY <2>1
    <3> HIDE DEF u
    <3> QED BY <1>1, <2>4, <2>5, <2>10, <3>1, OneChat
  <2>12. ASSUME NEW m \in Months, Committed(m)' > Committed(m)
         PROVE  WithinQuota(m)
    <3>1. CASE m # k
      <4>1. Committed(m)' = Committed(m) /\ Committed(m) \in Int
        BY <2>7, <3>1, CommittedIsInt DEF Committed
      <4> QED BY <4>1, <2>12
    <3>2. CASE m = k
      <4>1. usage'[m].used = usage[m].used /\ usage'[m].reserved = usage[m].reserved + n
        BY <2>7, <2>8, <3>2 DEF Rows
      <4>2. effectiveQuota # Unset => usage[m].used + usage[m].reserved + n <= effectiveQuota
        BY <2>1, <3>2 DEF Affordable
      <4>3. usage[m].used \in Int /\ usage[m].reserved \in Int
        BY <2>8 DEF Rows
      <4>4. Committed(m)' = usage[m].used + usage[m].reserved + n
        BY <4>1, <4>3, <2>2 DEF Committed
      <4> QED BY <4>2, <4>4 DEF WithinQuota
    <3> QED BY <3>1, <3>2
  <2> QED BY <1>2, <2>11, <2>12 DEF QuotaInv
<1> QED BY <1>4, <1>5 DEF Admit

\* What the settlement of a chat adds to a row of a month.
Excess(r, c) == (Settled(r, c).used + Settled(r, c).reserved) - (r.used + r.reserved)

\* A settlement leaves what a month has used and reserved where it is or lower,
\* unless it is a success of more than it had reserved.
LEMMA ReconcileOK ==
    ASSUME QuotaInv, NEW c \in Chats, Reconcile(c)
    PROVE  /\ QuotaInv'
           /\ \A m \in Months : Committed(m)' <= Committed(m) \/ Overrun(m)
<1>1. UNCHANGED <<time, config>> /\ chat[c].pc = "settle"
      /\ chat' = [chat EXCEPT ![c].pc = "done"]
  BY DEF Reconcile
<1>2. Config'
  BY <1>1, ConfigKept DEF QuotaInv
<1>3. chat[c] \in Chat /\ res[c] \in Reservation
  BY ChatRow
<1> DEFINE v == [chat[c] EXCEPT !.pc = "done"]
<1>4. v \in Chat /\ v.pc # "settle" /\ chat' = [chat EXCEPT ![c] = v]
  BY <1>1, <1>3 DEF Chat
<1>5. usage \in [Months -> Rows]
  BY DEF QuotaInv, Ledger, Rows
<1>6. CASE UNCHANGED ledger
  <2>1. /\ res' = [res EXCEPT ![c] = res[c]]
        /\ usage' \in [Months -> [used : Int, reserved : Int, flying : Int]]
        /\ usage' = usage
    BY <1>5, <1>6, ChatRow DEF Rows, ledger
  <2>2. Ledger' /\ \A d \in Chats : SettlesAnOutcome(d)'
    <3> HIDE DEF v
    <3> QED BY <1>1, <1>3, <1>4, <2>1, OneChat
  <2>3. \A m \in Months : Committed(m)' = Committed(m) /\ Committed(m) \in Int
    BY <2>1, CommittedIsInt DEF Committed
  <2> QED BY <1>2, <2>2, <2>3 DEF QuotaInv
<1>7. CASE /\ res[c].st = "calling"
           /\ usage' = [usage EXCEPT ![res[c].month] = Settled(@, c)]
           /\ res' = [res EXCEPT ![c].st = chat[c].outcome, ![c].used = chat[c].usage]
  <2>1. /\ chat[c].outcome \in {"succeeded", "failed", "ambiguous"}
        /\ chat[c].outcome # "succeeded" => chat[c].usage = 0
        /\ chat[c].usage \in Nat /\ res[c].tokens \in Nat
    BY <1>1, <1>3, <1>7 DEF QuotaInv, SettlesAnOutcome, Chat, Reservation
  <2> DEFINE k == res[c].month
             u == [res[c] EXCEPT !.st = chat[c].outcome, !.used = chat[c].usage]
  <2>2. u \in Reservation /\ res' = [res EXCEPT ![c] = u]
    BY <1>3, <1>7, <2>1 DEF Reservation, Outcomes
  <2>3. \A m \in Months : /\ m # k => usage'[m] = usage[m]
                          /\ m = k => usage'[m] = Settled(usage[m], c)
    BY <1>5, <1>7
  <2>4. \A r \in Rows : /\ Settled(r, c) \in Rows
                        /\ Excess(r, c) <= 0 \/ (/\ chat[c].outcome = "succeeded"
                                                  /\ Excess(r, c) = chat[c].usage - res[c].tokens)
    <3> SUFFICES ASSUME NEW r \in Rows
                 PROVE  /\ Settled(r, c) \in Rows
                        /\ Excess(r, c) <= 0 \/ (/\ chat[c].outcome = "succeeded"
                                                  /\ Excess(r, c) = chat[c].usage - res[c].tokens)
      OBVIOUS
    <3>1. r.used \in Int /\ r.reserved \in Int /\ r.flying \in Int
      BY DEF Rows
    <3>2. /\ Settled(r, c).used
               = r.used + (IF chat[c].outcome = "succeeded" THEN chat[c].usage ELSE 0)
          /\ Settled(r, c).reserved
               = r.reserved - (IF chat[c].outcome = "ambiguous" THEN 0 ELSE res[c].tokens)
          /\ Settled(r, c).flying = r.flying - 1
      BY DEF Settled
    <3>3. Settled(r, c) \in Rows
      BY <3>1, <2>1 DEF Settled, Rows
    <3> QED BY <3>1, <3>2, <3>3, <2>1 DEF Excess
  <2>5. \A m \in Months : usage'[m] \in Rows /\ usage[m] \in Rows
    BY <1>5, <2>3, <2>4
  <2>6. usage' \in [Months -> [used : Int, reserved : Int, flying : Int]]
    BY <1>5, <1>7, <2>5 DEF Rows
  <2>7. Ledger' /\ \A d \in Chats : SettlesAnOutcome(d)'
    <3> HIDE DEF v, u
    <3> QED BY <1>1, <1>4, <2>2, <2>6, OneChat
  <2>8. ASSUME NEW m \in Months
        PROVE  Committed(m)' <= Committed(m) \/ Overrun(m)
    <3>1. usage[m].used \in Int /\ usage[m].reserved \in Int
      BY <2>5 DEF Rows
    <3>2. CASE m # k
      BY <2>3, <3>1, <3>2 DEF Committed
    <3>3. CASE m = k
      <4>1. Committed(m)' = Committed(m) + Excess(usage[m], c) /\ Excess(usage[m], c) \in Int
        <5>1. usage'[m] = Settled(usage[m], c) /\ usage'[m] \in Rows
          BY <2>3, <2>5, <3>3
        <5>2. usage'[m].used \in Int /\ usage'[m].reserved \in Int
          BY <5>1 DEF Rows
        <5> QED BY <3>1, <5>1, <5>2 DEF Committed, Excess
      <4>2. CASE Excess(usage[m], c) <= 0
        BY <3>1, <4>1, <4>2 DEF Committed
      <4>3. CASE /\ chat[c].outcome = "succeeded"
                 /\ Excess(usage[m], c) = chat[c].usage - res[c].tokens
        <5>1. res'[c].st = "succeeded" /\ res'[c].used = chat[c].usage
          <6>1. res'[c] = u
            BY <2>2 DEF QuotaInv, Ledger
          <6> QED BY <1>3, <4>3, <6>1 DEF Reservation
        <5> QED BY <1>7, <3>3, <4>1, <4>3, <5>1 DEF Overrun
      <4> QED BY <2>4, <2>5, <4>2, <4>3
    <3> QED BY <3>2, <3>3
  <2> QED BY <1>2, <2>7, <2>8 DEF QuotaInv
<1> QED BY <1>6, <1>7 DEF Reconcile

\* Operators change the configuration, and a deletion empties the counters.
LEMMA EditOK ==
    ASSUME QuotaInv, Config', UNCHANGED <<time, usage, res, chat>>
    PROVE  /\ QuotaInv'
           /\ \A m \in Months : Committed(m)' <= Committed(m)
<1>1. Ledger' /\ \A c \in Chats : SettlesAnOutcome(c)'
  BY LedgerKept
<1>2. \A m \in Months : Committed(m)' = Committed(m) /\ Committed(m) \in Int
  BY CommittedIsInt DEF Committed
<1> QED BY <1>1, <1>2 DEF QuotaInv

LEMMA ConfigurationOK ==
    ASSUME QuotaInv,
           \/ UpdateHostPolicy \/ UpdateAppPolicy
           \/ \E k \in Connections : CreateConnection(k) \/ DisableConnection(k) \/ RotateConnection(k)
           \/ \E p \in Profiles, k \in Connections, lim \in LimitsSet :
                CreateProfile(p, k, lim) \/ UpdateProfile(p, k, lim)
           \/ \E p \in Profiles : SetDefaultProfile(p)
    PROVE  /\ QuotaInv'
           /\ \A m \in Months : Committed(m)' <= Committed(m)
<1>1. UNCHANGED <<time, usage, res, chat>>
  BY DEF UpdateHostPolicy, UpdateAppPolicy, CreateConnection, DisableConnection,
         RotateConnection, CreateProfile, UpdateProfile, SetDefaultProfile, Unchanged, ledger
<1>2. Config
  BY DEF QuotaInv
<1>3. Config'
  <2>1. CASE UpdateHostPolicy
    BY <2>1, <1>2 DEF UpdateHostPolicy, Config
  <2>2. CASE UpdateAppPolicy
    BY <2>2, <1>2 DEF UpdateAppPolicy, Config
  <2>3. CASE \E k \in Connections : CreateConnection(k) \/ DisableConnection(k) \/ RotateConnection(k)
    BY <2>3, <1>2 DEF CreateConnection, DisableConnection, RotateConnection, Config
  <2>4. CASE \E p \in Profiles, k \in Connections, lim \in LimitsSet :
               CreateProfile(p, k, lim) \/ UpdateProfile(p, k, lim)
    BY <2>4, <1>2 DEF CreateProfile, UpdateProfile, Config
  <2>5. CASE \E p \in Profiles : SetDefaultProfile(p)
    BY <2>5, <1>2 DEF SetDefaultProfile, Config
  <2> QED BY <2>1, <2>2, <2>3, <2>4, <2>5
<1> QED BY <1>1, <1>3, EditOK

LEMMA SetStatusOK ==
    ASSUME QuotaInv, NEW s \in {"active", "suspended", "deleted"}, SetStatus(s)
    PROVE  /\ QuotaInv'
           /\ \A m \in Months : Committed(m)' > Committed(m) => Committed(m)' = 0
<1>1. UNCHANGED <<time, chat, host, conn, prof, default>> /\ status' = s
  BY DEF SetStatus
<1>2. CASE s # "deleted"
  <2>1. UNCHANGED <<usage, res, policy>>
    BY <1>2 DEF SetStatus, ledger
  <2>2. Config'
    BY <1>1, <2>1 DEF QuotaInv, Config
  <2>3. QuotaInv' /\ \A m \in Months : Committed(m)' <= Committed(m)
    BY <1>1, <2>1, <2>2, EditOK
  <2>4. \A m \in Months : Committed(m)' = Committed(m) /\ Committed(m) \in Int
    BY <2>1, CommittedIsInt DEF Committed
  <2> QED BY <2>3, <2>4
<1>3. CASE s = "deleted"
  <2>1. /\ usage' = [m \in Months |-> [used |-> 0, reserved |-> 0, flying |-> 0]]
        /\ res' = [c \in Chats |-> IF res[c].st = "none" THEN NoReservation
                                   ELSE [NoReservation EXCEPT !.st = "deleted"]]
        /\ policy' = Unset
    BY <1>3 DEF SetStatus
  <2>2. Config'
    BY <1>1, <2>1 DEF QuotaInv, Config
  <2>3. usage' \in [Months -> [used : Int, reserved : Int, flying : Int]]
    BY <2>1
  <2>4. NoReservation \in Reservation /\ [NoReservation EXCEPT !.st = "deleted"] \in Reservation
    BY DEF NoReservation, Reservation
  <2>5. res' \in [Chats -> Reservation] /\ \A c \in Chats : res'[c].st # "calling"
    BY <2>1, <2>4 DEF NoReservation
  <2>6. Ledger' /\ \A c \in Chats : SettlesAnOutcome(c)'
    BY <1>1, <2>3, <2>5 DEF QuotaInv, Ledger, SettlesAnOutcome
  <2>7. \A m \in Months : Committed(m)' = 0
    BY <2>1 DEF Committed
  <2> QED BY <2>2, <2>6, <2>7 DEF QuotaInv
<1> QED BY <1>2, <1>3

LEMMA TimePassesOK ==
    ASSUME QuotaInv, TimePasses
    PROVE  QuotaInv' /\ UNCHANGED usage
<1>1. UNCHANGED <<config, usage, res, chat>> /\ time' \in 0..LastTick
  BY BoundsType DEF TimePasses, ledger, QuotaInv, Ledger
<1>2. Config'
  BY <1>1, ConfigKept DEF QuotaInv
<1>3. Ledger' /\ \A c \in Chats : SettlesAnOutcome(c)'
  BY <1>1 DEF QuotaInv, Ledger, SettlesAnOutcome
<1> QED BY <1>1, <1>2, <1>3 DEF QuotaInv

LEMMA CrashOK ==
    ASSUME QuotaInv, Crash
    PROVE  QuotaInv' /\ UNCHANGED usage
<1>1. /\ UNCHANGED <<time, config, usage, res>>
      /\ chat' = [c \in Chats |-> IF chat[c].pc = "new" THEN chat[c]
                                  ELSE [chat[c] EXCEPT !.pc = "done"]]
  BY DEF Crash, ledger
<1>2. Config'
  BY <1>1, ConfigKept DEF QuotaInv
<1>3. \A c \in Chats : chat'[c] \in Chat /\ chat'[c].pc # "settle"
  <2> SUFFICES ASSUME NEW c \in Chats
               PROVE  chat'[c] \in Chat /\ chat'[c].pc # "settle"
    OBVIOUS
  <2>1. chat[c] \in Chat
    BY ChatRow
  <2>2. [chat[c] EXCEPT !.pc = "done"] \in Chat /\ [chat[c] EXCEPT !.pc = "done"].pc = "done"
    BY <2>1 DEF Chat
  <2> QED BY <1>1, <2>1, <2>2
<1>4. Ledger' /\ \A c \in Chats : SettlesAnOutcome(c)'
  BY <1>1, <1>3 DEF QuotaInv, Ledger, SettlesAnOutcome
<1> QED BY <1>1, <1>2, <1>4 DEF QuotaInv

\* A quota is positive, so that an emptied month is within it.
LEMMA QuotaIsPositive ==
    ASSUME Config
    PROVE  effectiveQuota = Unset \/ effectiveQuota \in Nat \ {0}
BY QuotasType DEF Config, effectiveQuota

LEMMA ChatNextOK ==
    ASSUME QuotaInv, [ChatNext]_chatVars
    PROVE  /\ QuotaInv'
           /\ \A m \in Months : Committed(m)' > Committed(m) => WithinQuota(m)
<1>1. \A m \in Months : Committed(m) \in Int
  BY CommittedIsInt
<1>2. ASSUME QuotaInv', UNCHANGED usage
      PROVE  \A m \in Months : ~(Committed(m)' > Committed(m))
  <2>1. \A m \in Months : Committed(m)' = Committed(m)
    BY <1>2 DEF Committed
  <2> QED BY <1>1, <2>1
<1>3. ASSUME QuotaInv', \A m \in Months : Committed(m)' <= Committed(m)
      PROVE  \A m \in Months : ~(Committed(m)' > Committed(m))
  <2>1. \A m \in Months : Committed(m)' \in Int
    <3>1. \A m \in Months : usage'[m] \in Rows
      BY <1>3 DEF QuotaInv, Ledger, Rows
    <3> QED BY <3>1 DEF Committed, Rows
  <2> QED BY <1>1, <1>3, <2>1
<1>4. ASSUME NEW c \in Chats, ChatStep(c)
      PROVE  /\ QuotaInv'
             /\ \A m \in Months : Committed(m)' > Committed(m) => WithinQuota(m)
  <2>1. CASE AdmissionLimits(c) \/ reserveRate(c)
    <3>1. QuotaInv' /\ UNCHANGED usage
      BY <2>1, AdmissionLimitsOK, reserveRateOK DEF AdmissionLimits, reserveRate, ledger
    <3> QED BY <3>1, <1>2
  <2>2. CASE Admit(c)
    BY <2>2, AdmitOK
  <2>3. CASE EnvelopeFails(c) \/ Answered(c) \/ Refused(c) \/ Ambiguous(c)
    <3>1. QuotaInv' /\ UNCHANGED usage
      BY <2>3, ProviderOK DEF EnvelopeFails, Answered, Refused, Ambiguous, ledger
    <3> QED BY <3>1, <1>2
  <2>4. CASE Reconcile(c)
    <3>1. QuotaInv' /\ \A m \in Months : Committed(m)' <= Committed(m) \/ Overrun(m)
      BY <2>4, ReconcileOK
    <3>2. \A m \in Months : Committed(m)' \in Int
      <4>1. \A m \in Months : usage'[m] \in Rows
        BY <3>1 DEF QuotaInv, Ledger, Rows
      <4> QED BY <4>1 DEF Committed, Rows
    <3> QED BY <1>1, <3>1, <3>2 DEF WithinQuota
  <2> QED BY <1>4, <2>1, <2>2, <2>3, <2>4 DEF ChatStep
<1>5. ASSUME NEW s \in {"active", "suspended", "deleted"}, SetStatus(s)
      PROVE  /\ QuotaInv'
             /\ \A m \in Months : Committed(m)' > Committed(m) => WithinQuota(m)
  <2>1. QuotaInv' /\ \A m \in Months : Committed(m)' > Committed(m) => Committed(m)' = 0
    BY <1>5, SetStatusOK
  <2>2. effectiveQuota = Unset \/ effectiveQuota \in Nat \ {0}
    BY QuotaIsPositive DEF QuotaInv
  <2>3. effectiveQuota = Unset \/ 0 <= effectiveQuota
    BY <2>2
  <2> QED BY <2>1, <2>3 DEF WithinQuota
<1>6. CASE UNCHANGED chatVars
  <2>1. UNCHANGED <<time, config, usage, res, chat>>
    BY <1>6 DEF chatVars, ledger
  <2>2. Config'
    BY <2>1, ConfigKept DEF QuotaInv
  <2>3. QuotaInv'
    BY <2>1, <2>2, EditOK
  <2> QED BY <2>1, <2>3, <1>2
<1>7. CASE TimePasses \/ Crash
  <2>1. QuotaInv' /\ UNCHANGED usage
    BY <1>7, TimePassesOK, CrashOK
  <2> QED BY <2>1, <1>2
<1>8. CASE \/ UpdateHostPolicy \/ UpdateAppPolicy
           \/ \E k \in Connections : CreateConnection(k) \/ DisableConnection(k) \/ RotateConnection(k)
           \/ \E p \in Profiles, k \in Connections, lim \in LimitsSet :
                CreateProfile(p, k, lim) \/ UpdateProfile(p, k, lim)
           \/ \E p \in Profiles : SetDefaultProfile(p)
  <2>1. QuotaInv' /\ \A m \in Months : Committed(m)' <= Committed(m)
    BY <1>8, ConfigurationOK
  <2> QED BY <2>1, <1>3
<1> QED BY <1>4, <1>5, <1>6, <1>7, <1>8 DEF ChatNext, Operator

\* What a month has used and reserved never grows past the quota in force, but
\* by what a provider reported beyond a reservation, for any number of chats that
\* are admitted, called and settled at once, over changes of policy, turns of the
\* month and crashes (LLMRepository.Admit, Reconcile).
THEOREM QuotaIsKept == ChatSpec => QuotaHolds
<1>1. ChatInit => QuotaInv
  BY ChatInitOK
<1>2. QuotaInv /\ [ChatNext]_chatVars => QuotaInv'
  BY ChatNextOK
<1>3. QuotaInv /\ [ChatNext]_chatVars =>
        [\A m \in Months : Committed(m)' > Committed(m) => WithinQuota(m)]_chatVars
  BY ChatNextOK
<1> QED BY <1>1, <1>2, <1>3, PTL DEF ChatSpec, QuotaHolds

-----------------------------------------------------------------------------
(***************************************************************************)
(* The places of calls under way.  A chat reserves once, so that a new     *)
(* reservation is never counted already.                                   *)
(***************************************************************************)
Early == {"new", "rate", "admit"}
Underway == {"call", "settle"}

ReservesOnce == \A c \in Chats : chat[c].pc \in Early => res[c].st = "none"

PlacesInv == QuotaInv /\ ReservesOnce /\ PlacesCounted /\ ReservationsEnd

\* No counter and no reservation changes, and a request that leaves its call
\* has no place or is lost.
LEMMA QuietOK ==
    ASSUME PlacesInv, UNCHANGED <<usage, res>>, lost \subseteq lost',
           \A c \in Chats :
              /\ chat'[c].pc \in Early => chat[c].pc \in Early
              /\ res[c].st = "calling" /\ chat[c].pc \in Underway =>
                    c \in lost' \/ chat'[c].pc \in Underway
    PROVE  ReservesOnce' /\ PlacesCounted' /\ ReservationsEnd'
<1>1. ReservesOnce'
  BY DEF PlacesInv, ReservesOnce
<1>2. PlacesCounted'
  BY DEF PlacesInv, PlacesCounted, Of
<1>3. ReservationsEnd'
  BY DEF PlacesInv, ReservationsEnd, Underway
<1> QED BY <1>1, <1>2, <1>3

\* The request of one chat moves on.
LEMMA OneMovesOn ==
    ASSUME PlacesInv, UNCHANGED <<usage, res>>, lost \subseteq lost', NEW c \in Chats,
           \A d \in Chats : d # c => chat'[d] = chat[d],
           chat'[c].pc \in Early => chat[c].pc \in Early,
           res[c].st = "calling" /\ chat[c].pc \in Underway => c \in lost' \/ chat'[c].pc \in Underway
    PROVE  ReservesOnce' /\ PlacesCounted' /\ ReservationsEnd'
<1>1. \A d \in Chats :
              /\ chat'[d].pc \in Early => chat[d].pc \in Early
              /\ res[d].st = "calling" /\ chat[d].pc \in Underway =>
                    d \in lost' \/ chat'[d].pc \in Underway
  OBVIOUS
<1> QED BY <1>1, QuietOK

LEMMA CallsFinite ==
    ASSUME NEW m
    PROVE  IsFiniteSet(Of({"calling"}, m))
BY ChatsType, FS_Subset DEF Of

LEMMA AdmitPlaces ==
    ASSUME PlacesInv, NEW c \in Chats, Admit(c)
    PROVE  ReservesOnce' /\ PlacesCounted' /\ ReservationsEnd'
<1>1. chat[c].pc = "admit" /\ UNCHANGED lost /\ res[c].st = "none"
  BY DEF Admit, PlacesInv, ReservesOnce, Early
<1>2. chat \in [Chats -> Chat] /\ res \in [Chats -> Reservation] /\ usage \in [Months -> Rows]
  BY DEF PlacesInv, QuotaInv, Ledger, Rows
<1>3. chat[c] \in Chat
  BY <1>2
<1>4. CASE Deny(c) /\ UNCHANGED ledger
  <2>1. UNCHANGED <<usage, res>> /\ \A d \in Chats : d # c => chat'[d] = chat[d]
    BY <1>2, <1>4 DEF Deny, ledger
  <2>2. chat[c].pc \notin Underway /\ chat[c].pc \in Early
    BY <1>1 DEF Underway, Early
  <2> QED BY <1>1, <2>1, <2>2, OneMovesOn
<1>5. CASE \E k \in {Month(chat[c].now)} :
             /\ usage' = [usage EXCEPT ![k].reserved = @ + Reserve(c), ![k].flying = @ + 1]
             /\ res' = [res EXCEPT ![c] = [st |-> "calling", month |-> k,
                                           tokens |-> Reserve(c), used |-> 0]]
             /\ Admitted(c)
  <2>1. PICK k : /\ k = Month(chat[c].now)
                 /\ usage' = [usage EXCEPT ![k].reserved = @ + Reserve(c), ![k].flying = @ + 1]
                 /\ res' = [res EXCEPT ![c] = [st |-> "calling", month |-> k,
                                               tokens |-> Reserve(c), used |-> 0]]
                 /\ Admitted(c)
    BY <1>5
  <2>2. chat'[c].pc \in Underway /\ \A d \in Chats : d # c => chat'[d] = chat[d]
    <3>1. CASE chat' = [chat EXCEPT ![c].pc = "call"]
      BY <1>2, <1>3, <3>1 DEF Underway, Chat
    <3>2. CASE Settle(c, "failed", 0)
      BY <1>2, <1>3, <3>2 DEF Settle, Underway, Chat
    <3> QED BY <2>1, <3>1, <3>2 DEF Admitted
  <2>3. /\ res'[c].st = "calling" /\ res'[c].month = k
        /\ \A d \in Chats : d # c => res'[d] = res[d]
    BY <1>2, <2>1
  <2>4. ReservesOnce'
    BY <2>2, <2>3 DEF PlacesInv, ReservesOnce, Early, Underway
  <2>5. ReservationsEnd'
    BY <1>1, <2>2, <2>3 DEF PlacesInv, ReservationsEnd, Underway
  <2>6. PlacesCounted'
    <3> SUFFICES ASSUME NEW m \in Months
                 PROVE  usage'[m].flying = Cardinality(Of({"calling"}, m)')
      BY DEF PlacesCounted
    <3>1. usage[m].flying = Cardinality(Of({"calling"}, m)) /\ usage[m] \in Rows
      BY <1>2 DEF PlacesInv, PlacesCounted
    <3>2. CASE m # k
      <4>1. usage'[m] = usage[m]
        BY <1>2, <2>1, <3>2
      <4>2. Of({"calling"}, m)' = Of({"calling"}, m)
        BY <1>1, <2>3, <3>2 DEF Of
      <4> QED BY <3>1, <4>1, <4>2
    <3>3. CASE m = k
      <4>1. usage'[m] = [usage[m] EXCEPT !.reserved = @ + Reserve(c), !.flying = @ + 1]
        BY <1>2, <2>1, <3>3
      <4>2. usage'[m].flying = usage[m].flying + 1
        BY <4>1, <3>1 DEF Rows
      <4>3. Of({"calling"}, m)' = Of({"calling"}, m) \cup {c} /\ c \notin Of({"calling"}, m)
        BY <1>1, <2>3, <3>3 DEF Of
      <4>4. Cardinality(Of({"calling"}, m) \cup {c}) = Cardinality(Of({"calling"}, m)) + 1
        BY <4>3, CallsFinite, FS_AddElement
      <4> QED BY <3>1, <4>2, <4>3, <4>4
    <3> QED BY <3>2, <3>3
  <2> QED BY <2>4, <2>5, <2>6
<1> QED BY <1>4, <1>5 DEF Admit

LEMMA ReconcilePlaces ==
    ASSUME PlacesInv, NEW c \in Chats, Reconcile(c)
    PROVE  ReservesOnce' /\ PlacesCounted' /\ ReservationsEnd'
<1>1. chat[c].pc = "settle" /\ chat' = [chat EXCEPT ![c].pc = "done"]
  BY DEF Reconcile
<1>2. chat \in [Chats -> Chat] /\ res \in [Chats -> Reservation] /\ usage \in [Months -> Rows]
  BY DEF PlacesInv, QuotaInv, Ledger, Rows
<1>3. chat'[c].pc = "done" /\ \A d \in Chats : d # c => chat'[d] = chat[d]
  BY <1>1, <1>2 DEF Chat
<1>4. CASE UNCHANGED ledger /\ (IF res[c].st = "calling" THEN Fault /\ lost' = lost \cup {c}
                                                         ELSE NoFault /\ UNCHANGED lost)
  <2>1. UNCHANGED <<usage, res>> /\ lost \subseteq lost' /\ (res[c].st = "calling" => c \in lost')
    BY <1>4 DEF ledger
  <2>2. chat'[c].pc \notin Early
    BY <1>3 DEF Early
  <2> QED BY <1>3, <2>1, <2>2, OneMovesOn
<1>5. CASE /\ res[c].st = "calling" /\ UNCHANGED lost
           /\ usage' = [usage EXCEPT ![res[c].month] = Settled(@, c)]
           /\ res' = [res EXCEPT ![c].st = chat[c].outcome, ![c].used = chat[c].usage]
  <2>1. chat[c].outcome \in {"succeeded", "failed", "ambiguous"}
    BY <1>1 DEF PlacesInv, QuotaInv, SettlesAnOutcome
  <2>2. /\ res'[c].st # "calling"
        /\ \A d \in Chats : d # c => res'[d] = res[d]
    <3>1. res[c] \in Reservation
      BY <1>2
    <3> QED BY <1>2, <1>5, <2>1, <3>1 DEF Reservation
  <2>3. ReservesOnce'
    BY <1>3, <2>2 DEF PlacesInv, ReservesOnce, Early
  <2>4. ReservationsEnd'
    BY <1>3, <1>5, <2>2 DEF PlacesInv, ReservationsEnd
  <2>5. PlacesCounted'
    <3> SUFFICES ASSUME NEW m \in Months
                 PROVE  usage'[m].flying = Cardinality(Of({"calling"}, m)')
      BY DEF PlacesCounted
    <3>1. usage[m].flying = Cardinality(Of({"calling"}, m)) /\ usage[m] \in Rows
      BY <1>2 DEF PlacesInv, PlacesCounted
    <3>2. CASE m # res[c].month
      <4>1. usage'[m] = usage[m]
        BY <1>2, <1>5, <3>2
      <4>2. Of({"calling"}, m)' = Of({"calling"}, m)
        BY <2>2, <3>2 DEF Of
      <4> QED BY <3>1, <4>1, <4>2
    <3>3. CASE m = res[c].month
      <4>1. usage'[m].flying = usage[m].flying - 1
        BY <1>2, <1>5, <3>3 DEF Settled
      <4>2. Of({"calling"}, m)' = Of({"calling"}, m) \ {c} /\ c \in Of({"calling"}, m)
        BY <1>5, <2>2, <3>3 DEF Of
      <4>3. Cardinality(Of({"calling"}, m) \ {c}) = Cardinality(Of({"calling"}, m)) - 1
        BY <4>2, CallsFinite, FS_RemoveElement
      <4> QED BY <3>1, <4>1, <4>2, <4>3
    <3> QED BY <3>2, <3>3
  <2> QED BY <2>3, <2>4, <2>5
<1> QED BY <1>4, <1>5 DEF Reconcile

LEMMA SetStatusPlaces ==
    ASSUME PlacesInv, NEW s \in {"active", "suspended", "deleted"}, SetStatus(s)
    PROVE  ReservesOnce' /\ PlacesCounted' /\ ReservationsEnd'
<1>1. UNCHANGED <<chat, lost>>
  BY DEF SetStatus
<1>2. CASE s # "deleted"
  <2>1. UNCHANGED <<usage, res>>
    BY <1>2 DEF SetStatus, ledger
  <2> QED BY <1>1, <2>1, QuietOK
<1>3. CASE s = "deleted"
  <2>1. /\ usage' = [m \in Months |-> [used |-> 0, reserved |-> 0, flying |-> 0]]
        /\ res' = [c \in Chats |-> IF res[c].st = "none" THEN NoReservation
                                   ELSE [NoReservation EXCEPT !.st = "deleted"]]
    BY <1>3 DEF SetStatus
  <2>2. \A c \in Chats : /\ res'[c].st # "calling"
                         /\ res[c].st = "none" => res'[c].st = "none"
    BY <2>1 DEF NoReservation
  <2>3. ReservesOnce'
    BY <1>1, <2>2 DEF PlacesInv, ReservesOnce
  <2>4. ReservationsEnd'
    BY <2>2 DEF ReservationsEnd
  <2>5. ASSUME NEW m \in Months
        PROVE  usage'[m].flying = Cardinality(Of({"calling"}, m)')
    <3>1. Of({"calling"}, m)' = {}
      BY <2>2 DEF Of
    <3>2. usage'[m].flying = 0
      BY <2>1
    <3> QED BY <3>1, <3>2, FS_EmptySet
  <2> QED BY <2>3, <2>4, <2>5 DEF PlacesCounted
<1> QED BY <1>2, <1>3

LEMMA PlacesNextOK ==
    ASSUME PlacesInv, [ChatNext]_chatVars
    PROVE  PlacesInv'
<1>1. QuotaInv'
  BY ChatNextOK DEF PlacesInv
<1>2. chat \in [Chats -> Chat]
  BY DEF PlacesInv, QuotaInv, Ledger
<1> SUFFICES ReservesOnce' /\ PlacesCounted' /\ ReservationsEnd'
  BY <1>1 DEF PlacesInv
<1>3. ASSUME NEW c \in Chats, AdmissionLimits(c) \/ reserveRate(c)
      PROVE  ReservesOnce' /\ PlacesCounted' /\ ReservationsEnd'
  <2>1. /\ UNCHANGED <<usage, res, lost>> /\ chat[c].pc \in Early /\ chat[c].pc \notin Underway
    BY <1>3 DEF AdmissionLimits, reserveRate, ledger, Early, Underway
  <2>2. \A d \in Chats : d # c => chat'[d] = chat[d]
    BY <1>2, <1>3 DEF AdmissionLimits, reserveRate, Deny
  <2> QED BY <2>1, <2>2, OneMovesOn
<1>4. ASSUME NEW c \in Chats, EnvelopeFails(c) \/ Answered(c) \/ Refused(c) \/ Ambiguous(c)
      PROVE  ReservesOnce' /\ PlacesCounted' /\ ReservationsEnd'
  <2>1. UNCHANGED <<usage, res, lost>>
    BY <1>4 DEF EnvelopeFails, Answered, Refused, Ambiguous, ledger
  <2>2. PICK o, n : Settle(c, o, n)
    BY <1>4 DEF EnvelopeFails, Answered, Refused, Ambiguous
  <2>3. chat[c] \in Chat
    BY <1>2
  <2>4. chat'[c].pc = "settle" /\ \A d \in Chats : d # c => chat'[d] = chat[d]
    BY <1>2, <2>2, <2>3 DEF Settle, Chat
  <2>5. chat'[c].pc \in Underway /\ chat'[c].pc \notin Early
    BY <2>4 DEF Underway, Early
  <2> QED BY <2>1, <2>4, <2>5, OneMovesOn
<1>5. CASE Crash
  <2>1. /\ UNCHANGED <<usage, res>>
        /\ lost' = lost \cup {c \in Chats : res[c].st = "calling"}
        /\ chat' = [c \in Chats |-> IF chat[c].pc = "new" THEN chat[c]
                                    ELSE [chat[c] EXCEPT !.pc = "done"]]
    BY <1>5 DEF Crash, ledger
  <2>2. ASSUME NEW c \in Chats
        PROVE  chat'[c].pc \in Early => chat[c].pc \in Early
    <3>1. chat[c] \in Chat
      BY <1>2
    <3>2. chat[c].pc # "new" => chat'[c].pc = "done"
      BY <2>1, <3>1 DEF Chat
    <3>3. chat[c].pc = "new" => chat'[c] = chat[c]
      BY <2>1
    <3> QED BY <3>2, <3>3 DEF Early
  <2>3. lost \subseteq lost' /\ \A c \in Chats : res[c].st = "calling" => c \in lost'
    BY <2>1
  <2> QED BY <2>1, <2>2, <2>3, QuietOK
<1>6. CASE UNCHANGED <<usage, res, chat, lost>>
  BY <1>6, QuietOK
<1>7. CASE TimePasses \/ UNCHANGED chatVars
  <2>1. UNCHANGED <<usage, res, chat, lost>>
    BY <1>7 DEF TimePasses, chatVars, ledger
  <2> QED BY <2>1, <1>6
<1>8. CASE \/ UpdateHostPolicy \/ UpdateAppPolicy
           \/ \E k \in Connections : CreateConnection(k) \/ DisableConnection(k) \/ RotateConnection(k)
           \/ \E p \in Profiles, k \in Connections, lim \in LimitsSet :
                CreateProfile(p, k, lim) \/ UpdateProfile(p, k, lim)
           \/ \E p \in Profiles : SetDefaultProfile(p)
  <2>1. UNCHANGED <<usage, res, chat, lost>>
    BY <1>8 DEF UpdateHostPolicy, UpdateAppPolicy, CreateConnection, DisableConnection,
         RotateConnection, CreateProfile, UpdateProfile, SetDefaultProfile, Unchanged, ledger
  <2> QED BY <2>1, <1>6
<1> QED
  BY <1>3, <1>4, <1>5, <1>7, <1>8, AdmitPlaces, ReconcilePlaces, SetStatusPlaces
     DEF ChatNext, ChatStep, Operator

LEMMA PlacesInvariance == ChatSpec => []PlacesInv
<1>1. ASSUME ChatInit
      PROVE  PlacesInv
  <2>1. /\ res = [c \in Chats |-> NoReservation] /\ chat = [c \in Chats |-> Fresh]
        /\ usage = [m \in Months |-> [used |-> 0, reserved |-> 0, flying |-> 0]]
    BY <1>1 DEF ChatInit
  <2>2. ReservesOnce /\ ReservationsEnd
    BY <2>1 DEF ReservesOnce, ReservationsEnd, NoReservation
  <2>3. \A m \in Months : Of({"calling"}, m) = {}
    BY <2>1 DEF Of, NoReservation
  <2>4. PlacesCounted
    BY <2>1, <2>3, FS_EmptySet DEF PlacesCounted
  <2> QED BY <1>1, <2>2, <2>4, ChatInitOK DEF PlacesInv
<1>2. PlacesInv /\ [ChatNext]_chatVars => PlacesInv'
  BY PlacesNextOK
<1> QED BY <1>1, <1>2, PTL DEF ChatSpec

-----------------------------------------------------------------------------
(***************************************************************************)
(* The tokens of the ledger.                                               *)
(***************************************************************************)

Agree(v, w, S) == \A x \in S : v[x] = w[x]
Naturals(w, S) == \A x \in S : w[x] \in Nat

\* The others keep their values.
LEMMA TotalStays ==
    ASSUME NEW S, IsFiniteSet(S), NEW w, NEW v, Agree(v, w, S)
    PROVE  Total(v, S) = Total(w, S)
BY SumAgree DEF Agree

\* One member more.
LEMMA TotalGrows ==
    ASSUME NEW S, IsFiniteSet(S), NEW w, NEW v, NEW e, e \notin S,
           Agree(v, w, S), Naturals(v, S \cup {e})
    PROVE  Total(v, S \cup {e}) = Total(w, S) + v[e]
<1>1. IsFiniteSet(S \cup {e}) /\ (S \cup {e}) \ {e} = S
  BY FS_AddElement
<1>2. Total(v, S \cup {e}) = v[e] + Total(v, (S \cup {e}) \ {e})
  BY <1>1, SumRemove DEF Naturals
<1>3. Total(v, (S \cup {e}) \ {e}) = Total(v, S)
  BY <1>1
<1>4. Total(v, S) = Total(w, S)
  BY TotalStays
<1>5. Total(v, S) \in Nat /\ v[e] \in Nat
  BY SumType DEF Naturals
<1> QED BY <1>2, <1>3, <1>4, <1>5

\* One member less.
LEMMA TotalShrinks ==
    ASSUME NEW S, IsFiniteSet(S), NEW w, NEW v, NEW e \in S,
           Agree(v, w, S \ {e}), Naturals(w, S)
    PROVE  Total(v, S \ {e}) = Total(w, S) - w[e]
<1>1. IsFiniteSet(S \ {e})
  BY FS_Subset
<1>2. Total(w, S) = w[e] + Total(w, S \ {e})
  BY SumRemove DEF Naturals
<1>3. Total(v, S \ {e}) = Total(w, S \ {e})
  BY <1>1, TotalStays
<1>4. Total(w, S \ {e}) \in Nat /\ w[e] \in Nat
  BY <1>1, SumType DEF Naturals
<1> QED BY <1>2, <1>3, <1>4

LedgerInv == PlacesInv /\ TokensCounted

Owing(m) == Of({"calling", "ambiguous"}, m)
Spent(m) == Of({"succeeded"}, m)

LEMMA TokensOfMonth ==
    TokensCounted <=>
      \A m \in Months : /\ usage[m].reserved = Total(TokensOf, Owing(m))
                        /\ usage[m].used = Total(UsedOf, Spent(m))
BY DEF TokensCounted, Total, Owing, Spent

LEMMA TokensOfMonthPrime ==
    TokensCounted' <=>
      \A m \in Months : /\ usage'[m].reserved = Total(TokensOf', Owing(m)')
                        /\ usage'[m].used = Total(UsedOf', Spent(m)')
BY DEF TokensCounted, Total, Owing, Spent

\* The rows and counters in question have their types.
LEMMA LedgerTypes ==
    ASSUME PlacesInv
    PROVE  /\ res \in [Chats -> Reservation] /\ usage \in [Months -> Rows]
           /\ chat \in [Chats -> Chat]
           /\ \A c \in Chats : /\ TokensOf[c] = res[c].tokens /\ UsedOf[c] = res[c].used
                               /\ TokensOf[c] \in Nat /\ UsedOf[c] \in Nat
           /\ \A m : /\ IsFiniteSet(Owing(m)) /\ Owing(m) \subseteq Chats
                     /\ IsFiniteSet(Spent(m)) /\ Spent(m) \subseteq Chats
<1>1. res \in [Chats -> Reservation] /\ usage \in [Months -> Rows] /\ chat \in [Chats -> Chat]
  BY DEF PlacesInv, QuotaInv, Ledger, Rows
<1>2. \A c \in Chats : res[c].tokens \in Nat /\ res[c].used \in Nat
  BY <1>1 DEF Reservation
<1>3. \A m : /\ IsFiniteSet(Owing(m)) /\ Owing(m) \subseteq Chats
             /\ IsFiniteSet(Spent(m)) /\ Spent(m) \subseteq Chats
  BY ChatsType, FS_Subset DEF Owing, Spent, Of
<1> QED BY <1>1, <1>2, <1>3 DEF TokensOf, UsedOf

LEMMA TokensKept ==
    ASSUME TokensCounted, UNCHANGED <<usage, res>>
    PROVE  TokensCounted'
BY DEF TokensCounted, TokensOf, UsedOf, Of

\* Of the rows only that of chat c changes.
LEMMA OneReservation ==
    ASSUME PlacesInv, PlacesInv', NEW c \in Chats, \A d \in Chats : d # c => res'[d] = res[d]
    PROVE  /\ \A d \in Chats : d # c => TokensOf'[d] = TokensOf[d] /\ UsedOf'[d] = UsedOf[d]
           /\ \A d \in Chats : TokensOf'[d] \in Nat /\ UsedOf'[d] \in Nat
           /\ TokensOf'[c] = res'[c].tokens /\ UsedOf'[c] = res'[c].used
           /\ \A m : Owing(m)' = IF res'[c].st \in {"calling", "ambiguous"} /\ res'[c].month = m
                                  THEN Owing(m) \cup {c} ELSE Owing(m) \ {c}
           /\ \A m : Spent(m)' = IF res'[c].st = "succeeded" /\ res'[c].month = m
                                   THEN Spent(m) \cup {c} ELSE Spent(m) \ {c}
<1>1. res' \in [Chats -> Reservation]
  BY DEF PlacesInv, QuotaInv, Ledger
<1>2. \A d \in Chats : res'[d].tokens \in Nat /\ res'[d].used \in Nat
  BY <1>1 DEF Reservation
<1>3. \A m : Owing(m)' = IF res'[c].st \in {"calling", "ambiguous"} /\ res'[c].month = m
                          THEN Owing(m) \cup {c} ELSE Owing(m) \ {c}
  BY DEF Owing, Of
<1>4. \A m : Spent(m)' = IF res'[c].st = "succeeded" /\ res'[c].month = m
                           THEN Spent(m) \cup {c} ELSE Spent(m) \ {c}
  BY DEF Spent, Of
<1> QED BY <1>2, <1>3, <1>4 DEF TokensOf, UsedOf

LEMMA AdmitTokens ==
    ASSUME LedgerInv, PlacesInv', NEW c \in Chats, Admit(c)
    PROVE  TokensCounted'
<1>1. chat[c].pc = "admit" /\ res[c].st = "none"
  BY DEF Admit, LedgerInv, PlacesInv, ReservesOnce, Early
<1>2. CASE UNCHANGED ledger
  BY <1>2, TokensKept DEF ledger, LedgerInv
<1>3. CASE \E k \in {Month(chat[c].now)} :
             /\ usage' = [usage EXCEPT ![k].reserved = @ + Reserve(c), ![k].flying = @ + 1]
             /\ res' = [res EXCEPT ![c] = [st |-> "calling", month |-> k,
                                           tokens |-> Reserve(c), used |-> 0]]
  <2>1. PICK k : /\ usage' = [usage EXCEPT ![k].reserved = @ + Reserve(c), ![k].flying = @ + 1]
                 /\ res' = [res EXCEPT ![c] = [st |-> "calling", month |-> k,
                                               tokens |-> Reserve(c), used |-> 0]]
    BY <1>3
  <2>2. /\ res \in [Chats -> Reservation] /\ usage \in [Months -> Rows]
        /\ \A m : IsFiniteSet(Owing(m)) /\ Owing(m) \subseteq Chats
        /\ \A m : IsFiniteSet(Spent(m)) /\ Spent(m) \subseteq Chats
    BY LedgerTypes DEF LedgerInv
  <2>3. /\ res'[c].st = "calling" /\ res'[c].month = k /\ res'[c].tokens = Reserve(c)
        /\ \A d \in Chats : d # c => res'[d] = res[d]
    BY <2>1, <2>2
  <2>4. \A m : c \notin Owing(m) /\ c \notin Spent(m)
    BY <1>1 DEF Owing, Spent, Of
  <2>5. /\ \A d \in Chats : d # c => TokensOf'[d] = TokensOf[d] /\ UsedOf'[d] = UsedOf[d]
        /\ \A d \in Chats : TokensOf'[d] \in Nat /\ UsedOf'[d] \in Nat
        /\ TokensOf'[c] = Reserve(c)
        /\ \A m : Owing(m)' = IF m = k THEN Owing(m) \cup {c} ELSE Owing(m)
        /\ \A m : Spent(m)' = Spent(m)
    <3>1. /\ \A d \in Chats : d # c => TokensOf'[d] = TokensOf[d] /\ UsedOf'[d] = UsedOf[d]
          /\ \A d \in Chats : TokensOf'[d] \in Nat /\ UsedOf'[d] \in Nat
          /\ TokensOf'[c] = res'[c].tokens
          /\ \A m : Owing(m)' = IF res'[c].st \in {"calling", "ambiguous"} /\ res'[c].month = m
                                   THEN Owing(m) \cup {c} ELSE Owing(m) \ {c}
          /\ \A m : Spent(m)' = IF res'[c].st = "succeeded" /\ res'[c].month = m
                                   THEN Spent(m) \cup {c} ELSE Spent(m) \ {c}
      BY <2>3, OneReservation DEF LedgerInv
    <3>2. \A m : Owing(m) \ {c} = Owing(m) /\ Spent(m) \ {c} = Spent(m)
      BY <2>4
    <3>3. ASSUME NEW m
          PROVE  /\ Owing(m)' = IF m = k THEN Owing(m) \cup {c} ELSE Owing(m)
                 /\ Spent(m)' = Spent(m)
      BY <2>3, <3>1, <3>2
    <3> QED BY <2>3, <3>1, <3>3
  <2> SUFFICES ASSUME NEW m \in Months
               PROVE  /\ usage'[m].reserved = Total(TokensOf', Owing(m)')
                      /\ usage'[m].used = Total(UsedOf', Spent(m)')
    BY TokensOfMonthPrime
  <2>6. /\ usage[m].reserved = Total(TokensOf, Owing(m))
        /\ usage[m].used = Total(UsedOf, Spent(m))
        /\ usage[m] \in Rows
    BY <2>2, TokensOfMonth DEF LedgerInv
  <2>7. /\ usage'[m].used = usage[m].used
        /\ usage'[m].reserved = usage[m].reserved + (IF m = k THEN Reserve(c) ELSE 0)
    <3>1. CASE m = k
      BY <2>1, <2>2, <2>6, <3>1 DEF Rows
    <3>2. CASE m # k
      BY <2>1, <2>2, <2>6, <3>2 DEF Rows
    <3> QED BY <3>1, <3>2
  <2>8. Total(UsedOf', Spent(m)) = Total(UsedOf, Spent(m))
    <3>1. Agree(UsedOf', UsedOf, Spent(m))
      BY <2>2, <2>4, <2>5 DEF Agree
    <3> QED BY <2>2, <3>1, TotalStays
  <2>9. Total(UsedOf', Spent(m)') = Total(UsedOf', Spent(m))
    BY <2>5
  <2>10. Agree(TokensOf', TokensOf, Owing(m))
    BY <2>2, <2>4, <2>5 DEF Agree
  <2>11. usage'[m].reserved = Total(TokensOf', Owing(m)')
    <3>1. CASE m = k
      <4>1. Owing(m)' = Owing(m) \cup {c}
        BY <2>5, <3>1
      <4>2. Total(TokensOf', Owing(m) \cup {c}) = Total(TokensOf, Owing(m)) + TokensOf'[c]
        <5>1. /\ IsFiniteSet(Owing(m)) /\ c \notin Owing(m)
              /\ Naturals(TokensOf', Owing(m) \cup {c})
          BY <2>2, <2>4, <2>5 DEF Naturals
        <5> QED BY <5>1, <2>10, TotalGrows
      <4>3. usage'[m].reserved = usage[m].reserved + Reserve(c)
        BY <2>7, <3>1
      <4>4. TokensOf'[c] = Reserve(c)
        BY <2>5
      <4> QED BY <2>6, <4>1, <4>2, <4>3, <4>4
    <3>2. CASE m # k
      <4>1. Owing(m)' = Owing(m)
        BY <2>5, <3>2
      <4>2. Total(TokensOf', Owing(m)) = Total(TokensOf, Owing(m))
        BY <2>2, <2>10, TotalStays
      <4>3. usage'[m].reserved = usage[m].reserved
        BY <2>6, <2>7, <3>2 DEF Rows
      <4> QED BY <2>6, <4>1, <4>2, <4>3
    <3> QED BY <3>1, <3>2
  <2> QED BY <2>6, <2>7, <2>8, <2>9, <2>11
<1> QED BY <1>2, <1>3 DEF Admit

LEMMA ReconcileTokens ==
    ASSUME LedgerInv, PlacesInv', NEW c \in Chats, Reconcile(c)
    PROVE  TokensCounted'
<1>1. CASE UNCHANGED ledger
  BY <1>1, TokensKept DEF ledger, LedgerInv
<1>2. CASE /\ chat[c].pc = "settle" /\ res[c].st = "calling"
           /\ usage' = [usage EXCEPT ![res[c].month] = Settled(@, c)]
           /\ res' = [res EXCEPT ![c].st = chat[c].outcome, ![c].used = chat[c].usage]
  <2>1. /\ res \in [Chats -> Reservation] /\ usage \in [Months -> Rows]
        /\ res[c] \in Reservation
        /\ \A m : IsFiniteSet(Owing(m)) /\ Owing(m) \subseteq Chats
        /\ \A m : IsFiniteSet(Spent(m)) /\ Spent(m) \subseteq Chats
        /\ \A d \in Chats : TokensOf[d] = res[d].tokens /\ TokensOf[d] \in Nat
    BY LedgerTypes DEF LedgerInv
  <2>2. chat[c].outcome \in {"succeeded", "failed", "ambiguous"}
    BY <1>2 DEF LedgerInv, PlacesInv, QuotaInv, SettlesAnOutcome
  <2> DEFINE o == chat[c].outcome
             k == res[c].month
  <2>3. /\ res'[c].st = o /\ res'[c].month = k
        /\ res'[c].tokens = res[c].tokens /\ res'[c].used = chat[c].usage
        /\ \A d \in Chats : d # c => res'[d] = res[d]
    BY <1>2, <2>1 DEF Reservation
  <2>4. /\ \A d \in Chats : d # c => TokensOf'[d] = TokensOf[d] /\ UsedOf'[d] = UsedOf[d]
        /\ \A d \in Chats : TokensOf'[d] \in Nat /\ UsedOf'[d] \in Nat
        /\ TokensOf'[c] = TokensOf[c] /\ UsedOf'[c] = chat[c].usage
    BY <2>1, <2>3, OneReservation DEF LedgerInv
  <2>5. \A d \in Chats : TokensOf'[d] = TokensOf[d]
    BY <2>4
  <2> SUFFICES ASSUME NEW m \in Months
               PROVE  /\ usage'[m].reserved = Total(TokensOf', Owing(m)')
                      /\ usage'[m].used = Total(UsedOf', Spent(m)')
    BY TokensOfMonthPrime
  <2>6. /\ usage[m].reserved = Total(TokensOf, Owing(m))
        /\ usage[m].used = Total(UsedOf, Spent(m))
        /\ usage[m].reserved \in Int /\ usage[m].used \in Int
    BY <2>1, TokensOfMonth DEF LedgerInv, Rows
  <2>7. c \notin Spent(m) /\ (c \in Owing(m) <=> m = k)
    BY <1>2 DEF Spent, Owing, Of
  <2>8. /\ Owing(m)' = IF o \in {"calling", "ambiguous"} /\ m = k
                         THEN Owing(m) \cup {c} ELSE Owing(m) \ {c}
        /\ Spent(m)' = IF o = "succeeded" /\ m = k
                         THEN Spent(m) \cup {c} ELSE Spent(m) \ {c}
    BY <2>3, OneReservation DEF LedgerInv
  <2>9. Agree(TokensOf', TokensOf, Owing(m)) /\ Agree(UsedOf', UsedOf, Spent(m))
    BY <2>1, <2>4, <2>5, <2>7 DEF Agree
  <2>10. CASE m # k
    <3>1. usage'[m] = usage[m]
      BY <1>2, <2>1, <2>10
    <3>2. Owing(m)' = Owing(m) /\ Spent(m)' = Spent(m)
      BY <2>7, <2>8, <2>10
    <3>3. /\ Total(TokensOf', Owing(m)) = Total(TokensOf, Owing(m))
          /\ Total(UsedOf', Spent(m)) = Total(UsedOf, Spent(m))
      BY <2>1, <2>9, TotalStays
    <3> QED BY <2>6, <3>1, <3>2, <3>3
  <2>11. CASE m = k
    <3>1. usage'[m] = Settled(usage[m], c)
      BY <1>2, <2>1, <2>11
    <3>2. /\ usage'[m].used = usage[m].used + (IF o = "succeeded" THEN chat[c].usage ELSE 0)
          /\ usage'[m].reserved = usage[m].reserved - (IF o = "ambiguous" THEN 0 ELSE res[c].tokens)
      BY <3>1 DEF Settled
    <3>3. usage'[m].reserved = Total(TokensOf', Owing(m)')
      <4>1. CASE o = "ambiguous"
        <5>1. Owing(m)' = Owing(m)
          BY <2>7, <2>8, <2>11, <4>1
        <5>2. Total(TokensOf', Owing(m)) = Total(TokensOf, Owing(m))
          BY <2>1, <2>9, TotalStays
        <5>3. usage'[m].reserved = usage[m].reserved
          BY <2>6, <3>2, <4>1
        <5> QED BY <2>6, <5>1, <5>2, <5>3
      <4>2. CASE o # "ambiguous"
        <5>1. Owing(m)' = Owing(m) \ {c} /\ c \in Owing(m)
          BY <2>2, <2>7, <2>8, <2>11, <4>2
        <5>2. /\ IsFiniteSet(Owing(m)) /\ c \in Owing(m)
              /\ Agree(TokensOf', TokensOf, Owing(m) \ {c}) /\ Naturals(TokensOf, Owing(m))
          BY <2>1, <2>5, <5>1 DEF Agree, Naturals
        <5>3. Total(TokensOf', Owing(m) \ {c}) = Total(TokensOf, Owing(m)) - TokensOf[c]
          BY <5>2, TotalShrinks
        <5>4. usage'[m].reserved = usage[m].reserved - res[c].tokens
          BY <3>2, <4>2
        <5>5. res[c].tokens = TokensOf[c]
          BY <2>1
        <5> QED BY <2>6, <5>1, <5>3, <5>4, <5>5
      <4> QED BY <4>1, <4>2
    <3>4. usage'[m].used = Total(UsedOf', Spent(m)')
      <4>1. CASE o # "succeeded"
        <5>1. Spent(m)' = Spent(m)
          BY <2>7, <2>8, <4>1
        <5>2. Total(UsedOf', Spent(m)) = Total(UsedOf, Spent(m))
          BY <2>1, <2>9, TotalStays
        <5>3. usage'[m].used = usage[m].used
          BY <2>6, <3>2, <4>1
        <5> QED BY <2>6, <5>1, <5>2, <5>3
      <4>2. CASE o = "succeeded"
        <5>1. Spent(m)' = Spent(m) \cup {c}
          BY <2>8, <2>11, <4>2
        <5>2. /\ IsFiniteSet(Spent(m)) /\ c \notin Spent(m)
              /\ Agree(UsedOf', UsedOf, Spent(m)) /\ Naturals(UsedOf', Spent(m) \cup {c})
          BY <2>1, <2>4, <2>7, <2>9 DEF Naturals
        <5>3. Total(UsedOf', Spent(m) \cup {c}) = Total(UsedOf, Spent(m)) + UsedOf'[c]
          BY <5>2, TotalGrows
        <5>4. usage'[m].used = usage[m].used + chat[c].usage
          BY <3>2, <4>2
        <5>5. UsedOf'[c] = chat[c].usage
          BY <2>4
        <5> QED BY <2>6, <5>1, <5>3, <5>4, <5>5
      <4> QED BY <4>1, <4>2
    <3> QED BY <3>3, <3>4
  <2> QED BY <2>10, <2>11
<1> QED BY <1>1, <1>2 DEF Reconcile

LEMMA SetStatusTokens ==
    ASSUME LedgerInv, NEW s \in {"active", "suspended", "deleted"}, SetStatus(s)
    PROVE  TokensCounted'
<1>1. CASE s # "deleted"
  BY <1>1, TokensKept DEF SetStatus, ledger, LedgerInv
<1>2. CASE s = "deleted"
  <2>1. /\ usage' = [m \in Months |-> [used |-> 0, reserved |-> 0, flying |-> 0]]
        /\ res' = [c \in Chats |-> IF res[c].st = "none" THEN NoReservation
                                   ELSE [NoReservation EXCEPT !.st = "deleted"]]
    BY <1>2 DEF SetStatus
  <2>2. \A c \in Chats : res'[c].st \notin {"calling", "ambiguous", "succeeded"}
    BY <2>1 DEF NoReservation
  <2>3. \A m : Owing(m)' = {} /\ Spent(m)' = {}
    BY <2>2 DEF Owing, Spent, Of
  <2>4. \A m \in Months : usage'[m].reserved = 0 /\ usage'[m].used = 0
    BY <2>1
  <2> QED BY <2>3, <2>4, SumEmpty, TokensOfMonthPrime
<1> QED BY <1>1, <1>2

LEMMA LedgerNextOK ==
    ASSUME LedgerInv, [ChatNext]_chatVars
    PROVE  LedgerInv'
<1>1. PlacesInv'
  BY PlacesNextOK DEF LedgerInv
<1>2. TokensCounted'
  <2>1. CASE UNCHANGED <<usage, res>>
    BY <2>1, TokensKept DEF LedgerInv
  <2>2. ASSUME NEW c \in Chats, ChatStep(c)
        PROVE  TokensCounted'
    <3>1. CASE Admit(c)
      BY <1>1, <3>1, AdmitTokens
    <3>2. CASE Reconcile(c)
      BY <1>1, <3>2, ReconcileTokens
    <3>3. CASE UNCHANGED <<usage, res>>
      BY <3>3, <2>1
    <3> QED BY <2>2, <3>1, <3>2, <3>3 DEF ChatStep, AdmissionLimits, reserveRate,
            EnvelopeFails, Answered, Refused, Ambiguous, ledger
  <2>3. CASE Operator
    <3>1. ASSUME NEW s \in {"active", "suspended", "deleted"}, SetStatus(s)
          PROVE  TokensCounted'
      BY <3>1, SetStatusTokens
    <3> QED BY <2>1, <2>3, <3>1 DEF Operator, UpdateHostPolicy, UpdateAppPolicy,
            CreateConnection, DisableConnection, RotateConnection, CreateProfile,
            UpdateProfile, SetDefaultProfile, Unchanged, ledger
  <2>4. CASE TimePasses \/ Crash \/ UNCHANGED chatVars
    BY <2>1, <2>4 DEF TimePasses, Crash, chatVars, ledger
  <2> QED BY <2>2, <2>3, <2>4 DEF ChatNext
<1> QED BY <1>1, <1>2 DEF LedgerInv

LEMMA LedgerInvariance == ChatSpec => []LedgerInv
<1>1. ASSUME ChatInit
      PROVE  TokensCounted
  <2>1. /\ res = [c \in Chats |-> NoReservation]
        /\ usage = [m \in Months |-> [used |-> 0, reserved |-> 0, flying |-> 0]]
    BY <1>1 DEF ChatInit
  <2>2. \A m : Owing(m) = {} /\ Spent(m) = {}
    BY <2>1 DEF Owing, Spent, Of, NoReservation
  <2>3. \A m \in Months : usage[m].reserved = 0 /\ usage[m].used = 0
    BY <2>1
  <2> QED BY <2>2, <2>3, SumEmpty, TokensOfMonth
<1>2. TokensCounted /\ PlacesInv => LedgerInv
  BY DEF LedgerInv
<1>3. LedgerInv /\ [ChatNext]_chatVars => LedgerInv'
  BY LedgerNextOK
<1> QED BY <1>1, <1>2, <1>3, PlacesInvariance, PTL DEF ChatSpec

\* The counters of every month are the sums of its reservations, for any number
\* of chats admitted, called and settled at once, over turns of the month,
\* deletion and crashes (LLMRepository.Admit, Reconcile).
THEOREM LedgerIsBalanced == ChatSpec => []LedgerBalances
<1>1. LedgerInv => LedgerBalances
  BY DEF LedgerInv, PlacesInv, LedgerBalances
<1> QED BY <1>1, LedgerInvariance, PTL

-----------------------------------------------------------------------------
(***************************************************************************)
(* Type correctness of Llm.  That the counters never become negative is a  *)
(* consequence of the ledger.                                              *)
(***************************************************************************)

LEMMA MonthInRange ==
    ASSUME NEW t \in 0..LastTick
    PROVE  Month(t) \in Months
<1>1. \A a, b \in Nat, n \in Nat \ {0} :
         a <= b => a \div n \in Nat /\ a \div n <= b \div n
  OBVIOUS
<1>2. t \in Nat /\ LastTick \in Nat /\ t <= LastTick /\ MonthLength \in Nat \ {0}
  BY BoundsType
<1>3. Month(t) \in Nat /\ Month(LastTick) \in Nat /\ Month(t) <= Month(LastTick)
  BY <1>1, <1>2 DEF Month
<1> QED BY <1>3 DEF Months

Marks == [id : Chats, at : 0..LastTick]

RowStates == {"none", "calling", "succeeded", "failed", "ambiguous", "deleted"}

RestTyped ==
    /\ rates \in [RateKeys -> SUBSET Marks]
    /\ \A c \in Chats : res[c].st \in RowStates /\ res[c].month \in Months
    /\ lost \subseteq Chats
    /\ edits \in 0..Edits /\ faults \in 0..Faults

LEMMA RestInit == ChatInit => RestTyped
<1>1. 0 \in Months
  <2>1. 0 \in 0..LastTick
    BY BoundsType
  <2>2. 0 \div MonthLength = 0
    BY BoundsType
  <2> QED BY <2>1, <2>2, MonthInRange DEF Month
<1>2. Edits \in 0..Edits /\ Faults \in 0..Faults
  BY BoundsType
<1> QED BY <1>1, <1>2 DEF ChatInit, RestTyped, NoReservation, RowStates

LEMMA RestChat ==
    ASSUME LedgerInv, RestTyped, NEW c \in Chats, ChatStep(c)
    PROVE  RestTyped'
<1>1. /\ res \in [Chats -> Reservation] /\ chat \in [Chats -> Chat]
      /\ chat[c] \in Chat /\ chat[c].now \in 0..LastTick
  BY LedgerTypes DEF LedgerInv, Chat
<1>2. UNCHANGED edits /\ faults' \in 0..Faults
  <2>1. UNCHANGED edits
    BY DEF ChatStep, AdmissionLimits, reserveRate, Admit, EnvelopeFails, Answered,
           Refused, Ambiguous, Reconcile
  <2>2. UNCHANGED faults \/ Fault
    BY DEF ChatStep, AdmissionLimits, reserveRate, Admit, EnvelopeFails, Answered,
           Refused, Ambiguous, Reconcile, NoFault
  <2> QED BY <2>1, <2>2, BoundsType DEF RestTyped, Fault
<1>3. lost' \subseteq Chats
  BY DEF ChatStep, AdmissionLimits, reserveRate, Admit, EnvelopeFails, Answered,
         Refused, Ambiguous, Reconcile, RestTyped
<1>4. rates' \in [RateKeys -> SUBSET Marks]
  <2>1. CASE reserveRate(c)
    <3>1. [id |-> c, at |-> chat[c].now] \in Marks
      BY <1>1 DEF Marks
    <3>2. \A k \in RateKeys : recent(k, c) \subseteq Marks
      BY DEF recent, RestTyped
    <3>3. PICK mark \in SUBSET Marks :
             rates' = [k \in RateKeys |-> IF k \in {App, ViewerOf[c]} THEN recent(k, c) \cup mark
                                          ELSE rates[k]]
      BY <2>1, <3>1 DEF reserveRate
    <3>4. \A k \in RateKeys : rates[k] \in SUBSET Marks
      BY DEF RestTyped
    <3> QED BY <3>2, <3>3, <3>4
  <2>2. CASE Release(c)
    <3>1. \A k \in RateKeys : {m \in rates[k] : m.id # c} \in SUBSET Marks
      BY DEF RestTyped
    <3> QED BY <2>2, <3>1 DEF Release
  <2>3. UNCHANGED rates \/ reserveRate(c) \/ Release(c)
    BY DEF ChatStep, AdmissionLimits, Admit, Admitted, EnvelopeFails, Answered,
           Refused, Ambiguous, Reconcile
  <2> QED BY <2>1, <2>2, <2>3 DEF RestTyped
<1>5. \A d \in Chats : res'[d].st \in RowStates /\ res'[d].month \in Months
  <2>1. CASE UNCHANGED res
    BY <2>1 DEF RestTyped
  <2>2. CASE \E k \in {Month(chat[c].now)} :
               res' = [res EXCEPT ![c] = [st |-> "calling", month |-> k,
                                          tokens |-> Reserve(c), used |-> 0]]
    <3>1. PICK k : /\ k = Month(chat[c].now)
                   /\ res' = [res EXCEPT ![c] = [st |-> "calling", month |-> k,
                                                 tokens |-> Reserve(c), used |-> 0]]
      BY <2>2
    <3>2. k \in Months
      BY <1>1, <3>1, MonthInRange
    <3>3. res'[c].st = "calling" /\ res'[c].month = k /\ \A d \in Chats : d # c => res'[d] = res[d]
      BY <1>1, <3>1
    <3> QED BY <3>2, <3>3 DEF RestTyped, RowStates
  <2>3. CASE /\ Reconcile(c)
             /\ res' = [res EXCEPT ![c].st = chat[c].outcome, ![c].used = chat[c].usage]
    <3>1. chat[c].outcome \in {"succeeded", "failed", "ambiguous"}
      BY <2>3 DEF Reconcile, LedgerInv, PlacesInv, QuotaInv, SettlesAnOutcome
    <3>2. /\ res'[c].st = chat[c].outcome /\ res'[c].month = res[c].month
          /\ \A d \in Chats : d # c => res'[d] = res[d]
      BY <1>1, <2>3 DEF Reservation
    <3> QED BY <3>1, <3>2 DEF RestTyped, RowStates
  <2>4. \/ UNCHANGED res
        \/ \E k \in {Month(chat[c].now)} :
               res' = [res EXCEPT ![c] = [st |-> "calling", month |-> k,
                                          tokens |-> Reserve(c), used |-> 0]]
        \/ /\ Reconcile(c)
           /\ res' = [res EXCEPT ![c].st = chat[c].outcome, ![c].used = chat[c].usage]
    BY DEF ChatStep, AdmissionLimits, reserveRate, Admit, EnvelopeFails, Answered,
           Refused, Ambiguous, Reconcile, ledger
  <2> QED BY <2>1, <2>2, <2>3, <2>4
<1> QED BY <1>2, <1>3, <1>4, <1>5 DEF RestTyped

LEMMA RestNext ==
    ASSUME LedgerInv, RestTyped, [ChatNext]_chatVars
    PROVE  RestTyped'
<1>1. CASE UNCHANGED chatVars \/ TimePasses
  BY <1>1 DEF chatVars, ledger, TimePasses, RestTyped
<1>2. CASE Crash
  <2>1. faults' \in 0..Faults
    BY <1>2, BoundsType DEF Crash, Fault, RestTyped
  <2>2. lost' \subseteq Chats /\ UNCHANGED <<res, edits>>
    BY <1>2 DEF Crash, RestTyped, ledger
  <2>3. rates' \in [RateKeys -> SUBSET Marks]
    BY <1>2 DEF Crash
  <2> QED BY <2>1, <2>2, <2>3 DEF RestTyped
<1>3. CASE Operator
  <2>1. UNCHANGED <<rates, lost, faults>> /\ Edit
    BY <1>3 DEF Operator, UpdateHostPolicy, UpdateAppPolicy,
       CreateConnection, DisableConnection, RotateConnection, CreateProfile,
       UpdateProfile, SetDefaultProfile, SetStatus, Unchanged
  <2>2. edits' \in 0..Edits
    BY <2>1, BoundsType DEF Edit, RestTyped
  <2>3. ASSUME NEW c \in Chats
        PROVE  res'[c].st \in RowStates /\ res'[c].month \in Months
    <3>1. CASE UNCHANGED res
      BY <3>1 DEF RestTyped
    <3>2. CASE res' = [d \in Chats |-> IF res[d].st = "none" THEN NoReservation
                                       ELSE [NoReservation EXCEPT !.st = "deleted"]]
      <4>1. 0 \in Months
        <5>1. 0 \in 0..LastTick /\ 0 \div MonthLength = 0
          BY BoundsType
        <5> QED BY <5>1, MonthInRange DEF Month
      <4> QED BY <3>2, <4>1 DEF NoReservation, RowStates
    <3>3. \/ UNCHANGED res
          \/ res' = [d \in Chats |-> IF res[d].st = "none" THEN NoReservation
                                     ELSE [NoReservation EXCEPT !.st = "deleted"]]
      BY <1>3 DEF Operator, UpdateHostPolicy, UpdateAppPolicy,
         CreateConnection, DisableConnection, RotateConnection, CreateProfile,
         UpdateProfile, SetDefaultProfile, SetStatus, Unchanged, ledger
    <3> QED BY <3>1, <3>2, <3>3
  <2> QED BY <2>1, <2>2, <2>3 DEF RestTyped
<1> QED BY <1>1, <1>2, <1>3, RestChat DEF ChatNext

\* The counters of the ledger are sums of naturals and cardinalities.
LEMMA CountersAreNaturals ==
    ASSUME LedgerInv, NEW m \in Months
    PROVE  usage[m] \in Counters
<1>1. /\ IsFiniteSet(Owing(m)) /\ Naturals(TokensOf, Owing(m))
      /\ IsFiniteSet(Spent(m)) /\ Naturals(UsedOf, Spent(m))
  BY LedgerTypes DEF LedgerInv, Naturals
<1>2. Total(TokensOf, Owing(m)) \in Nat /\ Total(UsedOf, Spent(m)) \in Nat
  BY <1>1, SumType DEF Naturals
<1>3. usage[m].reserved \in Nat /\ usage[m].used \in Nat
  BY <1>2, TokensOfMonth DEF LedgerInv
<1>4. usage[m].flying \in Nat
  BY CallsFinite, FS_CardinalityType DEF LedgerInv, PlacesInv, PlacesCounted
<1>5. usage[m] \in Rows
  BY LedgerTypes DEF LedgerInv
<1> QED BY <1>3, <1>4, <1>5 DEF Rows, Counters

LEMMA TypedRows ==
    ASSUME LedgerInv, RestTyped
    PROVE  LlmTypeOK
<1>1. /\ time \in 0..LastTick /\ Config /\ chat \in [Chats -> Chat]
      /\ res \in [Chats -> Reservation] /\ usage \in [Months -> Rows]
  BY LedgerTypes DEF LedgerInv, PlacesInv, QuotaInv, Ledger
<1>2. usage \in [Months -> Counters]
  BY <1>1, CountersAreNaturals
<1>3. res \in [Chats -> [st : RowStates, month : Months, tokens : Nat, used : Nat]]
  <2>1. ASSUME NEW c \in Chats
        PROVE  res[c] \in [st : RowStates, month : Months, tokens : Nat, used : Nat]
    <3>1. res[c] \in Reservation
      BY <1>1
    <3> QED BY <3>1 DEF Reservation, RestTyped
  <2> QED BY <2>1, <1>1
<1> QED BY <1>1, <1>2, <1>3 DEF LlmTypeOK, RestTyped, Config, Chat, Outcomes, RowStates, Marks

\* Every variable of the chat capability has its type; in particular no counter
\* of the ledger is ever negative, whatever settlements follow whatever
\* admissions and deletions (LLMRepository.Reconcile).
THEOREM ChatTypeCorrect == ChatSpec => []LlmTypeOK
<1>1. LedgerInv /\ RestTyped /\ [ChatNext]_chatVars => RestTyped'
  BY RestNext
<1>2. ChatSpec => []RestTyped
  BY <1>1, RestInit, LedgerInvariance, PTL DEF ChatSpec
<1>3. LedgerInv /\ RestTyped => LlmTypeOK
  BY TypedRows
<1> QED BY <1>2, <1>3, LedgerInvariance, PTL
=============================================================================
