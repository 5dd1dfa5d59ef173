------------------------------ MODULE LiveProofs ------------------------------
(***************************************************************************)
(* Theorems about Live for every set of connections, writers and           *)
(* administrators, every limit and every queue size.                       *)
(***************************************************************************)
EXTENDS Live, FiniteSetTheorems, TLAPS

\* The case split of the invariance proofs: a step of Next is a step of one
\* goroutine.
LEMMA NextCases ==
    ASSUME Next
    PROVE  \/ \E c \in Conns :
                \/ ResolveActive(c) \/ ValidateSession(c) \/ ReadPolicy(c)
                \/ Accept(c) \/ Attach(c) \/ ReadFrame(c) \/ Published(c)
                \/ Detach(c) \/ Return(c) \/ WriteLoop(c) \/ PeerSilent(c)
           \/ \E c \in Conns, t \in Topics :
                Subscribe(c, t) \/ Unsubscribe(c, t) \/ Publish(c, t)
           \/ \E w \in Writers, T \in SUBSET Topics : PublishChange(w, T)
           \/ \E p \in Procs : CloseDelete(p) \/ CloseTransport(p)
           \/ \E p \in Procs, c \in Conns : Send(p, c)
           \/ \E a \in Admins :
                \/ RevokeCollect(a) \/ RevokeDone(a)
                \/ ReplacePolicy(a) \/ Suspend(a)
           \/ \E a \in Admins, c \in Conns : RevokeOne(a, c)
           \/ \E a \in Admins, s \in Sessions : Logout(a, s)
           \/ Resume
<1>1. CASE \E c \in Conns : ResolveActive(c) \/ Handler(c) \/ WriteLoop(c) \/ PeerSilent(c)
  BY <1>1 DEF Handler, Topics
<1>2. CASE \E w \in Writers : \/ \E T \in SUBSET Prefixes : PublishKVChange(w, T)
                              \/ \E t \in Collections : PublishCollectionChange(w, t)
  BY <1>2 DEF PublishKVChange, PublishCollectionChange, Topics
<1>3. CASE \E p \in Procs : Closing(p) \/ Sending(p)
  BY <1>3 DEF Closing, Sending
<1>4. CASE \E a \in Admins : Revoking(a)
  BY <1>4 DEF Revoking
<1>5. CASE Authority
  BY <1>5 DEF Authority
<1> QED BY <1>1, <1>2, <1>3, <1>4, <1>5 DEF Next

-----------------------------------------------------------------------------
(***************************************************************************)
(* Type correctness.  A closing goroutine must know what it closes.        *)
(***************************************************************************)

ClosersHaveTargets ==
    \A p \in Procs : closer[p].at # "idle" => closer[p].c \in Conns

TypeInv == TypeOK /\ ClosersHaveTargets

LEMMA PCsAreNames ==
    {"resolved", "session", "granted", "upgraded", "reading", "frame", "publishing",
     "ending", "detached", "gone"} \subseteq ConnPCs
BY DEF ConnPCs

LEMMA GotoType ==
    ASSUME TypeInv, NEW c \in Conns, NEW pc \in ConnPCs, Goto(c, pc)
    PROVE  conn' \in [Conns -> [pc : ConnPCs, rev : Nat]]
BY DEF TypeInv, TypeOK, Goto

AdminRecord == [pc : {"idle", "revoke", "close"}, scope : Sessions \cup {None},
                todo : SUBSET Conns, must : SUBSET Conns]

\* The updates of a revocation in progress.
LEMMA AdminType ==
    ASSUME NEW ad \in [Admins -> AdminRecord], NEW a \in Admins, NEW T \in SUBSET Conns
    PROVE  /\ [ad EXCEPT ![a].pc = "close", ![a].todo = T] \in [Admins -> AdminRecord]
           /\ [ad EXCEPT ![a].todo = T] \in [Admins -> AdminRecord]
           /\ [ad EXCEPT ![a].pc = "idle"] \in [Admins -> AdminRecord]
BY DEF AdminRecord

LEMMA AdminFields ==
    ASSUME NEW ad \in [Admins -> AdminRecord], NEW a \in Admins, NEW T, NEW ad2,
           \/ ad2 = [ad EXCEPT ![a].pc = "close", ![a].todo = T]
           \/ ad2 = [ad EXCEPT ![a].todo = T]
           \/ ad2 = [ad EXCEPT ![a].pc = "idle"]
    PROVE  \A b \in Admins : ad2[b].must = ad[b].must /\ ad2[b].scope = ad[b].scope
BY DEF AdminRecord

\* A publication counts an event and fixes its targets.
LEMMA EmitType ==
    ASSUME TypeInv, NEW p \in Conns \cup Writers, NEW T, Emit,
           fan' = [fan EXCEPT ![p] = Subscribers(T)]
    PROVE  /\ spent' \in [changes : Nat, events : Nat]
           /\ fan' \in [Conns \cup Writers -> SUBSET Conns]
BY DEF TypeInv, TypeOK, Emit, Subscribers

LEMMA BeginCloseType ==
    ASSUME TypeInv, NEW p \in Procs, NEW c \in Conns, BeginClose(p, c)
    PROVE  /\ closer' \in [Procs -> [at : {"idle", "delete", "close"}, c : Conns \cup {None}]]
           /\ ClosersHaveTargets'
BY DEF TypeInv, TypeOK, ClosersHaveTargets, BeginClose

LEMMA ChangeType ==
    ASSUME TypeInv, NEW a \in Admins, NEW scope \in Sessions \cup {None},
           Change(a, scope), up' \in BOOLEAN, revision' \in Nat,
           allowed' \subseteq Viewers, valid' \subseteq Sessions
    PROVE  TypeInv'
BY DEF TypeInv, TypeOK, ClosersHaveTargets, Change, hubVars

LEMMA TypeInit == Init => TypeInv
BY DEF Init, TypeInv, TypeOK, ClosersHaveTargets, ConnPCs, NotClosing, IdleAdmin

LEMMA TypeHandler ==
    ASSUME TypeInv, NEW c \in Conns,
           \/ ResolveActive(c) \/ ValidateSession(c) \/ ReadPolicy(c)
           \/ Accept(c) \/ Attach(c) \/ ReadFrame(c) \/ Published(c)
           \/ Detach(c) \/ Return(c) \/ WriteLoop(c) \/ PeerSilent(c)
    PROVE  TypeInv'
<1> USE DEF TypeInv, TypeOK, ClosersHaveTargets, authVars, hubVars,
            GatewayUnchanged
<1> USE GotoType, PCsAreNames
<1>1. CASE ResolveActive(c)
  BY <1>1 DEF ResolveActive
<1>2. CASE ValidateSession(c)
  BY <1>2 DEF ValidateSession
<1>3. CASE ReadPolicy(c)
  BY <1>3 DEF ReadPolicy
<1>4. CASE Accept(c)
  BY <1>4 DEF Accept
<1>5. CASE Attach(c)
  BY <1>5 DEF Attach
<1>6. CASE ReadFrame(c)
  BY <1>6 DEF ReadFrame
<1>7. CASE Published(c)
  BY <1>7 DEF Published
<1>8. CASE Detach(c)
  BY <1>8, BeginCloseType DEF Detach, Procs
<1>9. CASE Return(c)
  BY <1>9 DEF Return
<1>10. CASE WriteLoop(c)
  BY <1>10 DEF WriteLoop
<1>11. CASE PeerSilent(c)
  BY <1>11 DEF PeerSilent
<1> QED BY <1>1, <1>2, <1>3, <1>4, <1>5, <1>6, <1>7, <1>8, <1>9, <1>10, <1>11

LEMMA TypeTraffic ==
    ASSUME TypeInv,
           \/ \E c \in Conns, t \in Topics :
                Subscribe(c, t) \/ Unsubscribe(c, t) \/ Publish(c, t)
           \/ \E w \in Writers, T \in SUBSET Topics : PublishChange(w, T)
           \/ \E p \in Procs : CloseDelete(p) \/ CloseTransport(p)
           \/ \E p \in Procs, c \in Conns : Send(p, c)
    PROVE  TypeInv'
<1> USE DEF TypeInv, TypeOK, ClosersHaveTargets, authVars, hubVars
<1> USE GotoType, PCsAreNames
<1>1. ASSUME NEW c \in Conns, NEW t \in Topics, Subscribe(c, t) PROVE TypeInv'
  BY <1>1 DEF Subscribe
<1>2. ASSUME NEW c \in Conns, NEW t \in Topics, Unsubscribe(c, t) PROVE TypeInv'
  <2>1. conn' \in [Conns -> [pc : ConnPCs, rev : Nat]]
    BY <1>2 DEF Unsubscribe
  <2>2. subs' \in [Conns -> SUBSET Topics]
    BY <1>2 DEF Unsubscribe
  <2> QED BY <1>2, <2>1, <2>2 DEF Unsubscribe
<1>3. ASSUME NEW c \in Conns, NEW t \in Topics, Publish(c, t) PROVE TypeInv'
  <2>1. conn' \in [Conns -> [pc : ConnPCs, rev : Nat]]
    BY <1>3 DEF Publish
  <2>2. /\ spent' \in [changes : Nat, events : Nat]
        /\ fan' \in [Conns \cup Writers -> SUBSET Conns]
    BY <1>3, EmitType DEF Publish
  <2> QED BY <1>3, <2>1, <2>2 DEF Publish
<1>4. ASSUME NEW w \in Writers, NEW T \in SUBSET Topics, PublishChange(w, T) PROVE TypeInv'
  BY <1>4, EmitType DEF PublishChange
<1>5. ASSUME NEW p \in Procs, CloseDelete(p) PROVE TypeInv'
  BY <1>5 DEF CloseDelete, NotClosing
<1>6. ASSUME NEW p \in Procs, CloseTransport(p) PROVE TypeInv'
  BY <1>6 DEF CloseTransport, NotClosing
<1>7. ASSUME NEW p \in Procs, NEW c \in Conns, Send(p, c) PROVE TypeInv'
  BY <1>7, BeginCloseType DEF Send
<1> QED BY <1>1, <1>2, <1>3, <1>4, <1>5, <1>6, <1>7

LEMMA TypeAuthority ==
    ASSUME TypeInv,
           \/ \E a \in Admins :
                \/ RevokeCollect(a) \/ RevokeDone(a)
                \/ ReplacePolicy(a) \/ Suspend(a)
           \/ \E a \in Admins, c \in Conns : RevokeOne(a, c)
           \/ \E a \in Admins, s \in Sessions : Logout(a, s)
           \/ Resume
    PROVE  TypeInv'
<1> USE DEF TypeInv, TypeOK, ClosersHaveTargets, authVars, hubVars
<1>1. ASSUME NEW a \in Admins, RevokeCollect(a) PROVE TypeInv'
  <2>1. Matching(a) \in SUBSET Conns
    BY DEF Matching
  <2>2. admin \in [Admins -> AdminRecord]
    BY DEF AdminRecord
  <2>3. admin' \in [Admins -> AdminRecord]
    BY <1>1, <2>1, <2>2, AdminType DEF RevokeCollect
  <2> QED BY <1>1, <2>3 DEF RevokeCollect, AdminRecord
<1>2. ASSUME NEW a \in Admins, RevokeDone(a) PROVE TypeInv'
  <2>1. admin \in [Admins -> AdminRecord]
    BY DEF AdminRecord
  <2>2. admin' \in [Admins -> AdminRecord]
    BY <1>2, <2>1, AdminType DEF RevokeDone
  <2> QED BY <1>2, <2>2 DEF RevokeDone, AdminRecord
<1>3. ASSUME NEW a \in Admins, ReplacePolicy(a) PROVE TypeInv'
  <2>1. /\ up' \in BOOLEAN /\ revision' \in Nat
        /\ allowed' \subseteq Viewers /\ valid' \subseteq Sessions
    BY <1>3 DEF ReplacePolicy
  <2>2. Change(a, None)
    BY <1>3 DEF ReplacePolicy
  <2> QED BY <2>1, <2>2, ChangeType
<1>4. ASSUME NEW a \in Admins, Suspend(a) PROVE TypeInv'
  BY <1>4, ChangeType DEF Suspend
<1>5. ASSUME NEW a \in Admins, NEW c \in Conns, RevokeOne(a, c) PROVE TypeInv'
  <2>1. a \in Procs /\ BeginClose(a, c)
    BY <1>5 DEF RevokeOne, Procs
  <2>2. admin \in [Admins -> AdminRecord] /\ admin[a].todo \ {c} \in SUBSET Conns
    BY DEF AdminRecord
  <2>3. admin' \in [Admins -> AdminRecord]
    BY <1>5, <2>2, AdminType DEF RevokeOne
  <2>4. /\ closer' \in [Procs -> [at : {"idle", "delete", "close"}, c : Conns \cup {None}]]
        /\ ClosersHaveTargets'
    BY <2>1, BeginCloseType
  <2> QED BY <1>5, <2>3, <2>4 DEF RevokeOne, AdminRecord
<1>6. ASSUME NEW a \in Admins, NEW s \in Sessions, Logout(a, s) PROVE TypeInv'
  BY <1>6, ChangeType DEF Logout
<1>7. CASE Resume
  BY <1>7 DEF Resume
<1> QED BY <1>1, <1>2, <1>3, <1>4, <1>5, <1>6, <1>7

LEMMA TypeStep == TypeInv /\ [Next]_vars => TypeInv'
<1> SUFFICES ASSUME TypeInv, [Next]_vars PROVE TypeInv'
  OBVIOUS
<1>1. CASE Next
  BY <1>1, NextCases, TypeHandler, TypeTraffic, TypeAuthority
<1>2. CASE UNCHANGED vars
  BY <1>2 DEF TypeInv, TypeOK, ClosersHaveTargets, vars, authVars, hubVars
<1> QED BY <1>1, <1>2

\* Connections, queues, fan-outs, closes and revocations keep their types in
\* every behaviour of the hub.
THEOREM TypeCorrect == Spec => []TypeOK
<1>1. TypeInv => TypeOK
  BY DEF TypeInv
<1> QED BY <1>1, TypeInit, TypeStep, PTL DEF Spec

-----------------------------------------------------------------------------
(***************************************************************************)
(* A connection enters the hub once.  Whatever the hub, a queue, a fan-out *)
(* or a revocation knows has been attached, and an attached connection     *)
(* never returns to the state from which it would attach.                  *)
(***************************************************************************)

AttachedPCs == {"reading", "frame", "publishing", "ending", "detached", "gone"}
Attached == {c \in Conns : conn[c].pc \in AttachedPCs}

KnownAreAttached ==
    /\ hub \subseteq Attached
    /\ lost \subseteq Attached
    /\ \A c \in Conns : queue[c] > 0 => c \in Attached
    /\ \A p \in Conns \cup Writers : fan[p] \subseteq Attached
    /\ \A a \in Admins : admin[a].must \subseteq Attached

LEMMA GotoAttached ==
    ASSUME TypeInv, NEW c \in Conns, NEW pc, Goto(c, pc),
           pc \in AttachedPCs \/ c \notin Attached
    PROVE  Attached \subseteq Attached'
BY DEF TypeInv, TypeOK, Goto, Attached

LEMMA SameConnAttached == conn' = conn => Attached' = Attached
BY DEF Attached

LEMMA StaysAttached == TypeInv /\ Next => Attached \subseteq Attached'
<1> SUFFICES ASSUME TypeInv, Next PROVE Attached \subseteq Attached'
  OBVIOUS
<1> USE GotoAttached, SameConnAttached DEF AttachedPCs
<1>1. ASSUME NEW c \in Conns,
             ResolveActive(c) \/ ValidateSession(c) \/ Accept(c)
      PROVE  Attached \subseteq Attached'
  <2>1. c \notin Attached
    BY <1>1 DEF Attached, ResolveActive, ValidateSession, Accept
  <2> QED BY <1>1, <2>1 DEF ResolveActive, ValidateSession, Accept
<1>2. ASSUME NEW c \in Conns, ReadPolicy(c) PROVE Attached \subseteq Attached'
  BY <1>2 DEF ReadPolicy, Attached, Goto, TypeInv, TypeOK
<1>3. ASSUME NEW c \in Conns,
             \/ Attach(c) \/ ReadFrame(c) \/ Published(c) \/ Detach(c) \/ Return(c)
      PROVE  Attached \subseteq Attached'
  BY <1>3 DEF Attach, ReadFrame, Published, Detach, Return
<1>4. ASSUME NEW c \in Conns, NEW t \in Topics,
             Subscribe(c, t) \/ Unsubscribe(c, t) \/ Publish(c, t)
      PROVE  Attached \subseteq Attached'
  BY <1>4 DEF Subscribe, Unsubscribe, Publish
<1>5. ASSUME \/ \E c \in Conns : WriteLoop(c) \/ PeerSilent(c)
             \/ \E w \in Writers, T \in SUBSET Topics : PublishChange(w, T)
             \/ \E p \in Procs : CloseDelete(p) \/ CloseTransport(p)
             \/ \E p \in Procs, c \in Conns : Send(p, c)
             \/ \E a \in Admins : RevokeCollect(a) \/ RevokeDone(a)
             \/ \E a \in Admins, c \in Conns : RevokeOne(a, c)
             \/ \E a \in Admins : ReplacePolicy(a) \/ Suspend(a)
             \/ \E a \in Admins, s \in Sessions : Logout(a, s)
             \/ Resume
      PROVE  Attached \subseteq Attached'
  BY <1>5 DEF WriteLoop, PeerSilent, PublishChange, CloseDelete, CloseTransport,
              Send, RevokeCollect, RevokeDone, RevokeOne, ReplacePolicy, Suspend,
              Logout, Resume, Change
<1> QED BY <1>1, <1>2, <1>3, <1>4, <1>5, NextCases

LEMMA KnownInit == Init => KnownAreAttached
<1> SUFFICES ASSUME Init PROVE KnownAreAttached
  OBVIOUS
<1>1. hub = {} /\ lost = {} /\ \A c \in Conns : ~(queue[c] > 0)
  BY DEF Init
<1>2. /\ \A p \in Conns \cup Writers : fan[p] = {}
      /\ \A a \in Admins : admin[a].must = {}
  BY DEF Init, IdleAdmin
<1> QED BY <1>1, <1>2 DEF KnownAreAttached

LEMMA KnownStep == TypeInv /\ KnownAreAttached /\ [Next]_vars => KnownAreAttached'
<1> SUFFICES ASSUME TypeInv, KnownAreAttached, Attached \subseteq Attached', Next
             PROVE  KnownAreAttached'
  BY StaysAttached, SameConnAttached DEF KnownAreAttached, vars, hubVars
<1> USE DEF KnownAreAttached, hubVars
<1>1. ASSUME NEW c \in Conns, Attach(c) PROVE KnownAreAttached'
  <2>1. hub' \subseteq hub \cup {c} /\ UNCHANGED <<lost, queue, fan, admin>>
    BY <1>1 DEF Attach
  <2>2. c \in Attached'
    BY <1>1 DEF Attach, Goto, Attached, AttachedPCs, TypeInv, TypeOK
  <2> QED BY <2>1, <2>2
<1>2. ASSUME NEW c \in Conns,
             \/ ResolveActive(c) \/ ValidateSession(c) \/ ReadPolicy(c) \/ Accept(c)
             \/ ReadFrame(c) \/ Published(c) \/ Detach(c) \/ Return(c) \/ PeerSilent(c)
      PROVE  KnownAreAttached'
  BY <1>2 DEF ResolveActive, ValidateSession, ReadPolicy, Accept, ReadFrame,
              Published, Detach, Return, PeerSilent, GatewayUnchanged
<1>3. ASSUME NEW c \in Conns, WriteLoop(c) PROVE KnownAreAttached'
  BY <1>3 DEF WriteLoop, TypeInv, TypeOK
<1>4. ASSUME NEW c \in Conns, NEW t \in Topics, Subscribe(c, t) \/ Unsubscribe(c, t)
      PROVE  KnownAreAttached'
  BY <1>4 DEF Subscribe, Unsubscribe
<1>5. ASSUME NEW p \in Conns \cup Writers, NEW T,
             fan' = fan \/ fan' = [fan EXCEPT ![p] = Subscribers(T)],
             UNCHANGED <<hub, lost, queue, admin>>
      PROVE  KnownAreAttached'
  <2>1. Subscribers(T) \subseteq hub
    BY DEF Subscribers
  <2> QED BY <1>5, <2>1 DEF TypeInv, TypeOK
<1>6. ASSUME NEW p \in Procs, CloseDelete(p) \/ CloseTransport(p)
      PROVE  KnownAreAttached'
  BY <1>6 DEF CloseDelete, CloseTransport
<1>7. ASSUME NEW p \in Procs, NEW c \in Conns, Send(p, c) PROVE KnownAreAttached'
  BY <1>7 DEF Send, TypeInv, TypeOK
<1>8. ASSUME NEW a \in Admins,
             RevokeCollect(a) \/ RevokeDone(a) \/ \E c \in Conns : RevokeOne(a, c)
      PROVE  KnownAreAttached'
  <2>1. admin \in [Admins -> AdminRecord]
    BY DEF TypeInv, TypeOK, AdminRecord
  <2>2. \/ admin' = [admin EXCEPT ![a].pc = "close", ![a].todo = Matching(a)]
        \/ \E c \in Conns : admin' = [admin EXCEPT ![a].todo = @ \ {c}]
        \/ admin' = [admin EXCEPT ![a].pc = "idle"]
    BY <1>8 DEF RevokeCollect, RevokeDone, RevokeOne
  <2>3. \A b \in Admins : admin'[b].must = admin[b].must
    BY <2>1, <2>2, AdminFields
  <2> QED BY <1>8, <2>3 DEF RevokeCollect, RevokeDone, RevokeOne
<1>9. ASSUME NEW a \in Admins, NEW scope, Change(a, scope) PROVE KnownAreAttached'
  <2>1. \A b \in Admins : admin'[b].must \subseteq admin[b].must \cup hub
    BY <1>9 DEF Change, TypeInv, TypeOK
  <2> QED BY <1>9, <2>1 DEF Change
<1>10. CASE Resume
  BY <1>10 DEF Resume
<1>11. ASSUME NEW c \in Conns, NEW t \in Topics, Publish(c, t) PROVE KnownAreAttached'
  BY <1>11, <1>5 DEF Publish
<1>12. ASSUME NEW w \in Writers, NEW T \in SUBSET Topics, PublishChange(w, T)
       PROVE  KnownAreAttached'
  BY <1>12, <1>5 DEF PublishChange
<1>13. ASSUME NEW a \in Admins,
              \/ ReplacePolicy(a) \/ Suspend(a) \/ \E s \in Sessions : Logout(a, s)
       PROVE  KnownAreAttached'
  BY <1>13, <1>9 DEF ReplacePolicy, Suspend, Logout
<1> QED BY <1>1, <1>2, <1>3, <1>4, <1>6, <1>7, <1>8, <1>10, <1>11, <1>12, <1>13, NextCases

-----------------------------------------------------------------------------
(***************************************************************************)
(* The limits.  Only Attach, Subscribe and an accepted Send add to what    *)
(* they bound, and each compares first.                                    *)
(***************************************************************************)

LEMMA GrowsByOne ==
    ASSUME NEW S, IsFiniteSet(S), NEW x, NEW n \in Nat, Cardinality(S) < n
    PROVE  Cardinality(S \cup {x}) <= n
<1>1. Cardinality(S) \in Nat
  BY FS_CardinalityType
<1>2. Cardinality(S \cup {x}) = IF x \in S THEN Cardinality(S) ELSE Cardinality(S) + 1
  BY FS_AddElement
<1> QED BY <1>1, <1>2

LEMMA Shrinks ==
    ASSUME NEW S, IsFiniteSet(S), NEW T \in SUBSET S, NEW n \in Nat, Cardinality(S) <= n
    PROVE  Cardinality(T) <= n
BY FS_Subset, FS_CardinalityType

LEMMA Finite ==
    ASSUME TypeInv
    PROVE  /\ IsFiniteSet(hub)
           /\ \A c \in Conns : IsFiniteSet(OfViewer(c)) /\ IsFiniteSet(subs[c])
           /\ PerApp \in Nat /\ PerViewer \in Nat /\ PerConnection \in Nat
           /\ QueueSize \in Nat
<1>1. IsFiniteSet(Conns) /\ IsFiniteSet(Topics)
  BY LimitsAreNaturals
<1>2. hub \in SUBSET Conns /\ \A c \in Conns : subs[c] \in SUBSET Topics
  BY DEF TypeInv, TypeOK
<1>3. \A c \in Conns : OfViewer(c) \in SUBSET Conns
  BY <1>2 DEF OfViewer
<1> QED BY <1>1, <1>2, <1>3, FS_Subset, LimitsAreNaturals

HubFits == /\ Cardinality(hub) <= PerApp
           /\ \A c \in Conns : Cardinality(OfViewer(c)) <= PerViewer
SubsFit == \A c \in Conns : Cardinality(subs[c]) <= PerConnection
QueuesFit == \A c \in Conns : queue[c] <= QueueSize

LEMMA LimitsParts == LimitsHold <=> HubFits /\ SubsFit /\ QueuesFit
BY DEF LimitsHold, HubFits, SubsFit, QueuesFit

LEMMA HubShrinks ==
    ASSUME TypeInv, HubFits, hub' \subseteq hub
    PROVE  HubFits'
<1>1. \A c \in Conns : OfViewer(c)' \in SUBSET OfViewer(c)
  BY DEF OfViewer
<1> QED BY <1>1, Finite, Shrinks DEF HubFits

LEMMA HubAttaches ==
    ASSUME TypeInv, HubFits, NEW c \in Conns, AttachFits(c), hub' = hub \cup {c}
    PROVE  HubFits'
<1>1. Cardinality(hub') <= PerApp
  BY Finite, GrowsByOne DEF AttachFits
<1>2. ASSUME NEW d \in Conns PROVE Cardinality(OfViewer(d)') <= PerViewer
  <2>1. CASE Viewer(d) = Viewer(c)
    <3>1. OfViewer(d)' = OfViewer(c) \cup {c}
      BY <2>1 DEF OfViewer
    <3> QED BY <3>1, Finite, GrowsByOne DEF AttachFits
  <2>2. CASE Viewer(d) # Viewer(c)
    <3>1. OfViewer(d)' = OfViewer(d)
      BY <2>2 DEF OfViewer
    <3> QED BY <3>1 DEF HubFits
  <2> QED BY <2>1, <2>2
<1> QED BY <1>1, <1>2 DEF HubFits

LEMMA SubscribeFitsLimit ==
    ASSUME TypeInv, SubsFit, NEW c \in Conns, NEW t \in Topics, SubscribeFits(c, t),
           subs' = [subs EXCEPT ![c] = @ \cup {t}]
    PROVE  SubsFit'
<1>1. Cardinality(subs[c] \cup {t}) <= PerConnection
  <2>1. CASE t \in subs[c]
    <3>1. subs[c] \cup {t} = subs[c]
      BY <2>1
    <3> QED BY <3>1 DEF SubsFit
  <2>2. CASE t \notin subs[c]
    BY <2>2, Finite, GrowsByOne DEF SubscribeFits
  <2> QED BY <2>1, <2>2
<1> QED BY <1>1 DEF SubsFit, TypeInv, TypeOK

LEMMA UnsubscribeFitsLimit ==
    ASSUME TypeInv, SubsFit, NEW c \in Conns, NEW t,
           subs' = [subs EXCEPT ![c] = @ \ {t}]
    PROVE  SubsFit'
<1>1. subs[c] \ {t} \in SUBSET subs[c]
  OBVIOUS
<1>2. Cardinality(subs[c] \ {t}) <= PerConnection
  BY <1>1, Finite, Shrinks DEF SubsFit
<1> QED BY <1>2 DEF SubsFit, TypeInv, TypeOK

LEMMA LimitsStep == TypeInv /\ LimitsHold /\ [Next]_vars => LimitsHold'
<1> SUFFICES ASSUME TypeInv, HubFits, SubsFit, QueuesFit, [Next]_vars
             PROVE  HubFits' /\ SubsFit' /\ QueuesFit'
  BY LimitsParts DEF LimitsHold, HubFits, SubsFit, QueuesFit, OfViewer
<1>same. /\ hub' = hub => HubFits'
         /\ subs' = subs => SubsFit'
         /\ queue' = queue => QueuesFit'
  BY HubShrinks DEF SubsFit, QueuesFit
<1> USE <1>same
<1>1. ASSUME NEW c \in Conns, Attach(c) PROVE HubFits' /\ SubsFit' /\ QueuesFit'
  BY <1>1, HubAttaches DEF Attach
<1>2. ASSUME NEW c \in Conns,
             \/ ResolveActive(c) \/ ValidateSession(c) \/ ReadPolicy(c) \/ Accept(c)
             \/ ReadFrame(c) \/ Published(c) \/ Detach(c) \/ Return(c) \/ PeerSilent(c)
      PROVE  HubFits' /\ SubsFit' /\ QueuesFit'
  BY <1>2 DEF ResolveActive, ValidateSession, ReadPolicy, Accept, ReadFrame,
              Published, Detach, Return, PeerSilent, GatewayUnchanged, hubVars
<1>3. ASSUME NEW c \in Conns, WriteLoop(c) PROVE HubFits' /\ SubsFit' /\ QueuesFit'
  <2>1. QueuesFit'
    BY <1>3, LimitsAreNaturals DEF WriteLoop, QueuesFit, TypeInv, TypeOK
  <2> QED BY <1>3, <2>1 DEF WriteLoop
<1>4. ASSUME NEW c \in Conns, NEW t \in Topics, Subscribe(c, t) \/ Unsubscribe(c, t)
      PROVE  HubFits' /\ SubsFit' /\ QueuesFit'
  BY <1>4, SubscribeFitsLimit, UnsubscribeFitsLimit DEF Subscribe, Unsubscribe
<1>5. ASSUME \/ \E c \in Conns, t \in Topics : Publish(c, t)
             \/ \E w \in Writers, T \in SUBSET Topics : PublishChange(w, T)
             \/ \E p \in Procs : CloseTransport(p)
             \/ \E a \in Admins : RevokeCollect(a) \/ RevokeDone(a)
             \/ \E a \in Admins, c \in Conns : RevokeOne(a, c)
             \/ \E a \in Admins : ReplacePolicy(a) \/ Suspend(a)
             \/ \E a \in Admins, s \in Sessions : Logout(a, s)
             \/ Resume
      PROVE  HubFits' /\ SubsFit' /\ QueuesFit'
  BY <1>5 DEF Publish, PublishChange, CloseTransport, RevokeCollect, RevokeDone,
              RevokeOne, ReplacePolicy, Suspend, Logout, Resume, Change, hubVars
<1>6. ASSUME NEW p \in Procs, CloseDelete(p) PROVE HubFits' /\ SubsFit' /\ QueuesFit'
  <2>1. hub' \subseteq hub
    BY <1>6 DEF CloseDelete
  <2> QED BY <1>6, <2>1, HubShrinks DEF CloseDelete
<1>7. ASSUME NEW p \in Procs, NEW c \in Conns, Send(p, c)
      PROVE  HubFits' /\ SubsFit' /\ QueuesFit'
  <2>1. QueuesFit'
    BY <1>7, LimitsAreNaturals DEF Send, SendAccepts, QueuesFit, TypeInv, TypeOK
  <2> QED BY <1>7, <2>1 DEF Send
<1>8. CASE UNCHANGED vars
  BY <1>8 DEF vars, hubVars
<1> QED BY <1>1, <1>2, <1>3, <1>4, <1>5, <1>6, <1>7, <1>8, NextCases

LEMMA LimitsInit == Init => LimitsHold
<1> SUFFICES ASSUME Init PROVE LimitsHold
  OBVIOUS
<1>1. /\ hub = {} /\ \A c \in Conns : OfViewer(c) = {} /\ subs[c] = {} /\ queue[c] = 0
  BY DEF Init, OfViewer
<1> QED BY <1>1, FS_EmptySet, LimitsAreNaturals DEF LimitsHold

\* However many upgrades, subscriptions and fan-outs run at once, the hub, the
\* viewers, the subscriptions and the queues stay within live.Limits.
THEOREM LimitsCorrect == Spec => []LimitsHold
BY TypeInit, TypeStep, LimitsInit, LimitsStep, PTL DEF Spec

-----------------------------------------------------------------------------
(***************************************************************************)
(* Revocation.  While Revoke runs, every connection it owes is still on    *)
(* its list or is the one it is about to delete; nobody else can put it    *)
(* back, because a connection attaches only once.                          *)
(***************************************************************************)

Owed(a) == admin[a].must \cap hub

ScopeMatches ==
    \A a \in Admins : \A c \in admin[a].must :
        admin[a].scope = None \/ SessionOf[c] = admin[a].scope

OwedIsListed ==
    \A a \in Admins :
        /\ admin[a].pc = "idle" => Owed(a) = {}
        /\ admin[a].pc = "close" =>
              \A c \in Owed(a) :
                  c \in admin[a].todo \/ closer[a] = [at |-> "delete", c |-> c]

RevocationInv == TypeInv /\ KnownAreAttached /\ ScopeMatches /\ OwedIsListed

LEMMA NotDeleting == \A d : NotClosing # [at |-> "delete", c |-> d]
<1> SUFFICES ASSUME NEW d PROVE NotClosing # [at |-> "delete", c |-> d]
  OBVIOUS
<1>1. NotClosing.at = "idle" /\ [at |-> "delete", c |-> d].at = "delete"
  BY DEF NotClosing
<1> QED BY <1>1

LEMMA RevocationInit == Init => RevocationInv
<1> SUFFICES ASSUME Init PROVE ScopeMatches /\ OwedIsListed
  BY TypeInit, KnownInit DEF RevocationInv
<1>1. \A a \in Admins : admin[a].pc = "idle" /\ admin[a].must = {}
  BY DEF Init, IdleAdmin
<1> QED BY <1>1 DEF ScopeMatches, OwedIsListed, Owed

\* What a step must do to leave every revocation as it is.
LEMMA OthersKeepOwed ==
    ASSUME RevocationInv, admin' = admin,
           \A a \in Admins : closer'[a] = closer[a] \/ Owed(a)' \subseteq Owed(a) \ {closer[a].c},
           \A a \in Admins : Owed(a)' \subseteq Owed(a)
    PROVE  ScopeMatches' /\ OwedIsListed'
<1>1. ScopeMatches'
  BY DEF RevocationInv, ScopeMatches
<1>2. ASSUME NEW a \in Admins, admin[a].pc = "idle" PROVE Owed(a)' = {}
  BY <1>2 DEF RevocationInv, OwedIsListed
<1>3. ASSUME NEW a \in Admins, admin[a].pc = "close", NEW c \in Owed(a)'
      PROVE  c \in admin[a].todo \/ closer'[a] = [at |-> "delete", c |-> c]
  BY <1>3 DEF RevocationInv, OwedIsListed
<1> QED BY <1>1, <1>2, <1>3 DEF OwedIsListed

LEMMA RevocationStep == RevocationInv /\ [Next]_vars => RevocationInv'
<1> SUFFICES ASSUME RevocationInv, [Next]_vars PROVE ScopeMatches' /\ OwedIsListed'
  BY TypeStep, KnownStep DEF RevocationInv
<1> USE DEF hubVars
<1>same. hub' \subseteq hub /\ admin' = admin => \A a \in Admins : Owed(a)' \subseteq Owed(a)
  BY DEF Owed
<1>0. ASSUME hub' \subseteq hub, admin' = admin, closer' = closer
      PROVE  ScopeMatches' /\ OwedIsListed'
  BY <1>0, <1>same, OthersKeepOwed
<1>1. ASSUME NEW c \in Conns, Attach(c) PROVE ScopeMatches' /\ OwedIsListed'
  <2>1. c \notin Attached
    BY <1>1 DEF Attach, Attached, AttachedPCs
  <2>2. \A a \in Admins : c \notin admin[a].must
    BY <2>1 DEF RevocationInv, KnownAreAttached
  <2>3. hub' \subseteq hub \cup {c} /\ admin' = admin /\ closer' = closer
    BY <1>1 DEF Attach
  <2>4. \A a \in Admins : Owed(a)' \subseteq Owed(a)
    BY <2>2, <2>3 DEF Owed
  <2> QED BY <2>3, <2>4, OthersKeepOwed
<1>2. ASSUME NEW c \in Conns,
             \/ ResolveActive(c) \/ ValidateSession(c) \/ ReadPolicy(c) \/ Accept(c)
             \/ ReadFrame(c) \/ Published(c) \/ Return(c) \/ PeerSilent(c) \/ WriteLoop(c)
      PROVE  ScopeMatches' /\ OwedIsListed'
  BY <1>2, <1>0 DEF ResolveActive, ValidateSession, ReadPolicy, Accept, ReadFrame,
                    Published, Return, PeerSilent, WriteLoop, GatewayUnchanged
<1>3. ASSUME \/ \E c \in Conns, t \in Topics :
                  Subscribe(c, t) \/ Unsubscribe(c, t) \/ Publish(c, t)
             \/ \E w \in Writers, T \in SUBSET Topics : PublishChange(w, T)
             \/ Resume
      PROVE  ScopeMatches' /\ OwedIsListed'
  BY <1>3, <1>0 DEF Subscribe, Unsubscribe, Publish, PublishChange, Resume
<1>4. ASSUME NEW p \in Procs \ Admins, NEW c, BeginClose(p, c), hub' = hub, admin' = admin
      PROVE  ScopeMatches' /\ OwedIsListed'
  <2>1. \A a \in Admins : closer'[a] = closer[a]
    BY <1>4 DEF BeginClose, RevocationInv, TypeInv, TypeOK, Procs
  <2> QED BY <1>4, <1>same, <2>1, OthersKeepOwed
<1>5. ASSUME NEW c \in Conns, Detach(c) PROVE ScopeMatches' /\ OwedIsListed'
  <2>1. c \in Procs \ Admins
    BY GoroutinesAreDistinct DEF Procs
  <2> QED BY <1>5, <1>4, <2>1 DEF Detach
<1>6. ASSUME NEW p \in Procs, NEW c \in Conns, Send(p, c) PROVE ScopeMatches' /\ OwedIsListed'
  <2>1. p \in Procs \ Admins
    BY <1>6, GoroutinesAreDistinct DEF Procs, Send
  <2> QED BY <1>6, <1>0, <1>4, <2>1 DEF Send
<1>7. ASSUME NEW p \in Procs, CloseDelete(p) \/ CloseTransport(p)
      PROVE  ScopeMatches' /\ OwedIsListed'
  <2>1. hub' \subseteq hub /\ admin' = admin
    BY <1>7 DEF CloseDelete, CloseTransport
  <2>2. CASE p \notin Admins
    <3>1. \A a \in Admins : closer'[a] = closer[a]
      BY <1>7, <2>2 DEF CloseDelete, CloseTransport, RevocationInv, TypeInv, TypeOK, Procs
    <3> QED BY <2>1, <3>1, <1>same, OthersKeepOwed
  <2>3. CASE p \in Admins /\ CloseDelete(p)
    <3>1. \A a \in Admins \ {p} : closer'[a] = closer[a]
      BY <2>3 DEF CloseDelete, RevocationInv, TypeInv, TypeOK, Procs
    <3>2. Owed(p)' \subseteq Owed(p) \ {closer[p].c}
      BY <2>3 DEF CloseDelete, Owed
    <3> QED BY <2>1, <3>1, <3>2, <1>same, OthersKeepOwed
  <2>4. CASE p \in Admins /\ CloseTransport(p)
    <3>1. \A a \in Admins \ {p} : closer'[a] = closer[a]
      BY <2>4 DEF CloseTransport, RevocationInv, TypeInv, TypeOK, Procs
    <3>2. closer[p].at = "close" /\ hub' = hub
      BY <2>4 DEF CloseTransport
    <3>3. ASSUME NEW c \in Owed(p), admin[p].pc = "close" PROVE c \in admin[p].todo
      <4>1. closer[p] # [at |-> "delete", c |-> c]
        BY <3>2
      <4> QED BY <2>4, <3>3, <4>1 DEF RevocationInv, OwedIsListed
    <3>4. \A a \in Admins : Owed(a)' = Owed(a)
      BY <2>1, <3>2 DEF Owed
    <3> QED BY <2>1, <2>4, <3>1, <3>3, <3>4 DEF RevocationInv, ScopeMatches, OwedIsListed
  <2> QED BY <1>7, <2>2, <2>3, <2>4
<1>fields. admin \in [Admins -> AdminRecord]
  BY DEF RevocationInv, TypeInv, TypeOK, AdminRecord
<1>8. ASSUME NEW a \in Admins, RevokeCollect(a) PROVE ScopeMatches' /\ OwedIsListed'
  <2>1. admin' = [admin EXCEPT ![a].pc = "close", ![a].todo = Matching(a)] /\ hub' = hub
        /\ closer' = closer
    BY <1>8 DEF RevokeCollect
  <2>2. \A b \in Admins : admin'[b].must = admin[b].must /\ admin'[b].scope = admin[b].scope
    BY <2>1, <1>fields, AdminFields
  <2>3. admin'[a].pc = "close" /\ admin'[a].todo = Matching(a)
        /\ \A b \in Admins \ {a} : admin'[b] = admin[b]
    BY <2>1, <1>fields DEF AdminRecord
  <2>4. Owed(a) \subseteq Matching(a)
    BY <1>fields DEF Owed, Matching, RevocationInv, ScopeMatches
  <2>5. \A b \in Admins : Owed(b)' = Owed(b)
    BY <2>1, <2>2 DEF Owed
  <2>6. ScopeMatches'
    BY <2>2 DEF RevocationInv, ScopeMatches
  <2>7. /\ admin'[a].pc # "idle"
        /\ \A d \in Owed(a)' : d \in admin'[a].todo
    BY <2>3, <2>4, <2>5
  <2>8. \A b \in Admins \ {a} :
            /\ admin'[b].pc = "idle" => Owed(b)' = {}
            /\ admin'[b].pc = "close" =>
                 \A d \in Owed(b)' :
                    d \in admin'[b].todo \/ closer'[b] = [at |-> "delete", c |-> d]
    BY <2>1, <2>3, <2>5 DEF RevocationInv, OwedIsListed
  <2> QED BY <2>6, <2>7, <2>8 DEF OwedIsListed
<1>9. ASSUME NEW a \in Admins, NEW c \in Conns, RevokeOne(a, c)
      PROVE  ScopeMatches' /\ OwedIsListed'
  <2>1. /\ admin' = [admin EXCEPT ![a].todo = @ \ {c}] /\ hub' = hub
        /\ closer[a] = NotClosing /\ admin[a].pc = "close"
    BY <1>9 DEF RevokeOne
  <2>2. \A b \in Admins : admin'[b].must = admin[b].must /\ admin'[b].scope = admin[b].scope
    BY <2>1, <1>fields, AdminFields
  <2>3. admin'[a].pc = "close" /\ admin'[a].todo = admin[a].todo \ {c}
        /\ \A b \in Admins \ {a} : admin'[b] = admin[b]
    BY <2>1, <1>fields DEF AdminRecord
  <2>4. closer'[a] = [at |-> "delete", c |-> c]
        /\ \A b \in Admins \ {a} : closer'[b] = closer[b]
    BY <1>9 DEF RevokeOne, BeginClose, RevocationInv, TypeInv, TypeOK, Procs
  <2>5. \A b \in Admins : Owed(b)' = Owed(b)
    BY <2>1, <2>2 DEF Owed
  <2>6. ScopeMatches'
    BY <2>2 DEF RevocationInv, ScopeMatches
  <2>7. ASSUME NEW d \in Owed(a) PROVE d \in admin[a].todo
    BY <2>1, <2>7, NotDeleting DEF RevocationInv, OwedIsListed
  <2> QED BY <2>3, <2>4, <2>5, <2>6, <2>7 DEF RevocationInv, OwedIsListed
<1>10. ASSUME NEW a \in Admins, RevokeDone(a) PROVE ScopeMatches' /\ OwedIsListed'
  <2>1. /\ admin' = [admin EXCEPT ![a].pc = "idle"] /\ hub' = hub /\ closer' = closer
        /\ closer[a] = NotClosing /\ admin[a].pc = "close" /\ admin[a].todo = {}
    BY <1>10 DEF RevokeDone
  <2>2. \A b \in Admins : admin'[b].must = admin[b].must /\ admin'[b].scope = admin[b].scope
    BY <2>1, <1>fields, AdminFields
  <2>3. admin'[a].pc = "idle" /\ \A b \in Admins \ {a} : admin'[b] = admin[b]
    BY <2>1, <1>fields DEF AdminRecord
  <2>4. Owed(a) = {}
    BY <2>1, NotDeleting DEF RevocationInv, OwedIsListed
  <2>5. \A b \in Admins : Owed(b)' = Owed(b)
    BY <2>1, <2>2 DEF Owed
  <2>6. ScopeMatches'
    BY <2>2 DEF RevocationInv, ScopeMatches
  <2> QED BY <2>1, <2>3, <2>4, <2>5, <2>6 DEF RevocationInv, OwedIsListed
<1>11. ASSUME NEW a \in Admins, NEW scope, Change(a, scope) PROVE ScopeMatches' /\ OwedIsListed'
  <2>1. /\ admin'[a].pc = "revoke" /\ admin'[a].scope = scope
        /\ \A c \in admin'[a].must : scope = None \/ SessionOf[c] = scope
        /\ \A b \in Admins \ {a} : admin'[b] = admin[b]
        /\ hub' = hub /\ closer' = closer
    BY <1>11, <1>fields DEF Change
  <2>2. \A b \in Admins \ {a} : Owed(b)' = Owed(b)
    BY <2>1 DEF Owed
  <2> QED BY <2>1, <2>2 DEF RevocationInv, ScopeMatches, OwedIsListed
<1>12. ASSUME NEW a \in Admins,
              \/ ReplacePolicy(a) \/ Suspend(a) \/ \E s \in Sessions : Logout(a, s)
       PROVE  ScopeMatches' /\ OwedIsListed'
  BY <1>11, <1>12 DEF ReplacePolicy, Suspend, Logout
<1>13. CASE UNCHANGED vars
  BY <1>13, <1>0 DEF vars
<1> QED BY <1>1, <1>2, <1>3, <1>5, <1>6, <1>7, <1>8, <1>9, <1>10, <1>12, <1>13, NextCases

\* When ReplaceAccess, Activate, SetAppStatus or a logout has been answered, no
\* connection it concerned is in the hub.
THEOREM RevocationCorrect == Spec => []RevocationIsComplete
<1>1. RevocationInv => RevocationIsComplete
  BY DEF RevocationInv, OwedIsListed, Owed, RevocationIsComplete
<1> QED BY <1>1, RevocationInit, RevocationStep, PTL DEF Spec

\* A frame read before the revocation cannot publish after it: publishFrom
\* looks the sender up under the mutex that Revoke deletes it under.
THEOREM RevokedCannotPublish == Spec => RevokedNeverPublishes
<1>1. ASSUME RevocationInv, [Next]_vars, NEW c \in Conns, NEW a \in Admins,
             admin[a].pc = "idle", c \in admin[a].must,
             conn[c].pc = "frame", conn'[c].pc = "publishing"
      PROVE  FALSE
  <2>1. c \notin hub
    BY <1>1 DEF RevocationInv, OwedIsListed, Owed
  <2>2. conn[c] # conn'[c]
    BY <1>1
  <2> USE DEF RevocationInv, TypeInv, TypeOK
  <2>3. ASSUME NEW d \in Conns, NEW pc, Goto(d, pc) PROVE d = c /\ pc = "publishing"
    BY <1>1, <2>2, <2>3 DEF Goto
  <2>4. CASE \E d \in Conns :
               \/ ResolveActive(d) \/ ValidateSession(d) \/ Accept(d) \/ Attach(d)
               \/ ReadFrame(d) \/ Published(d) \/ Detach(d) \/ Return(d)
    BY <2>3, <2>4 DEF ResolveActive, ValidateSession, Accept, Attach, ReadFrame,
                      Published, Detach, Return
  <2>5. CASE \E d \in Conns : ReadPolicy(d)
    BY <1>1, <2>2, <2>5 DEF ReadPolicy, Goto
  <2>6. CASE \E d \in Conns, t \in Topics : Subscribe(d, t) \/ Unsubscribe(d, t)
    BY <2>3, <2>6 DEF Subscribe, Unsubscribe
  <2>7. CASE \E d \in Conns, t \in Topics : Publish(d, t)
    BY <2>1, <2>3, <2>7 DEF Publish
  <2>8. CASE conn' = conn
    BY <2>2, <2>8
  <2>9. CASE \/ \E d \in Conns : WriteLoop(d) \/ PeerSilent(d)
             \/ \E w \in Writers, T \in SUBSET Topics : PublishChange(w, T)
             \/ \E p \in Procs : CloseDelete(p) \/ CloseTransport(p)
             \/ \E p \in Procs, d \in Conns : Send(p, d)
             \/ \E b \in Admins : RevokeCollect(b) \/ RevokeDone(b)
             \/ \E b \in Admins, d \in Conns : RevokeOne(b, d)
             \/ \E b \in Admins : ReplacePolicy(b) \/ Suspend(b)
             \/ \E b \in Admins, s \in Sessions : Logout(b, s)
             \/ Resume
    BY <2>8, <2>9 DEF WriteLoop, PeerSilent, PublishChange, CloseDelete,
              CloseTransport, Send, RevokeCollect, RevokeDone, RevokeOne,
              ReplacePolicy, Suspend, Logout, Resume, Change
  <2>10. CASE UNCHANGED vars
    BY <2>8, <2>10 DEF vars
  <2> QED BY <1>1, <2>4, <2>5, <2>6, <2>7, <2>9, <2>10, NextCases
<1>2. RevocationInv /\ [Next]_vars =>
        [\A c \in Conns, a \in Admins :
            admin[a].pc = "idle" /\ c \in admin[a].must =>
               ~(conn[c].pc = "frame" /\ conn'[c].pc = "publishing")]_vars
  BY <1>1
<1> QED BY <1>2, RevocationInit, RevocationStep, PTL DEF Spec, RevokedNeverPublishes

-----------------------------------------------------------------------------
(***************************************************************************)
(* Fan-out.  A goroutine closes one connection at a time: a handler that   *)
(* is not publishing or returning closes nothing and has nothing to send,  *)
(* so that no pending close is overwritten.                                *)
(***************************************************************************)

QuietHandlers ==
    \A c \in Conns :
        /\ conn[c].pc # "publishing" => fan[c] = {}
        /\ conn[c].pc \notin {"publishing", "detached"} => closer[c] = NotClosing

LEMMA QuietInit == Init => QuietHandlers
BY DEF Init, QuietHandlers, Procs

\* Steps of a handler that leave its fan-out and its close alone.
LEMMA QuietGoto ==
    ASSUME TypeInv, QuietHandlers, NEW c \in Conns, NEW pc, Goto(c, pc),
           fan' = fan, closer' = closer,
           fan[c] = {} /\ closer[c] = NotClosing
    PROVE  QuietHandlers'
BY DEF TypeInv, TypeOK, QuietHandlers, Goto

LEMMA QuietStep == TypeInv /\ QuietHandlers /\ [Next]_vars => QuietHandlers'
<1> SUFFICES ASSUME TypeInv, QuietHandlers, [Next]_vars PROVE QuietHandlers'
  OBVIOUS
<1>0. ASSUME fan' = fan, closer' = closer, conn' = conn PROVE QuietHandlers'
  BY <1>0 DEF QuietHandlers
<1>1. ASSUME NEW c \in Conns,
             \/ ResolveActive(c) \/ ValidateSession(c) \/ Accept(c)
             \/ Attach(c) \/ ReadFrame(c)
      PROVE  QuietHandlers'
  <2>1. fan[c] = {} /\ closer[c] = NotClosing
    BY <1>1 DEF QuietHandlers, ResolveActive, ValidateSession, Accept, Attach, ReadFrame
  <2> QED BY <1>1, <2>1, QuietGoto DEF ResolveActive, ValidateSession, Accept, Attach,
             ReadFrame, GatewayUnchanged
<1>2. ASSUME NEW c \in Conns, ReadPolicy(c) PROVE QuietHandlers'
  BY <1>2 DEF ReadPolicy, GatewayUnchanged, Goto, QuietHandlers, TypeInv, TypeOK
<1>3. ASSUME NEW c \in Conns, Published(c) \/ Return(c) PROVE QuietHandlers'
  <2>1. fan[c] = {} /\ closer[c] = NotClosing
    BY <1>3 DEF QuietHandlers, Published, Return
  <2> QED BY <1>3, <2>1, QuietGoto DEF Published, Return, GatewayUnchanged
<1>4. ASSUME NEW c \in Conns, Detach(c) PROVE QuietHandlers'
  BY <1>4 DEF Detach, BeginClose, Goto, QuietHandlers, TypeInv, TypeOK, Procs
<1>5. ASSUME NEW c \in Conns, NEW t \in Topics, Subscribe(c, t) \/ Unsubscribe(c, t)
      PROVE  QuietHandlers'
  <2>1. fan[c] = {} /\ closer[c] = NotClosing
    BY <1>5 DEF QuietHandlers, Subscribe, Unsubscribe
  <2> QED BY <1>5, <2>1, QuietGoto DEF Subscribe, Unsubscribe
<1>6. ASSUME NEW c \in Conns, NEW t \in Topics, Publish(c, t) PROVE QuietHandlers'
  <2>1. fan[c] = {} /\ closer[c] = NotClosing
    BY <1>6 DEF QuietHandlers, Publish
  <2>2. CASE fan' = fan
    BY <1>6, <2>1, <2>2, QuietGoto DEF Publish
  <2>3. CASE Goto(c, "publishing") /\ fan' = [fan EXCEPT ![c] = Subscribers({t})]
    BY <1>6, <2>3 DEF Publish, Goto, QuietHandlers, TypeInv, TypeOK
  <2> QED BY <1>6, <2>2, <2>3 DEF Publish
<1>7. ASSUME NEW w \in Writers, NEW T \in SUBSET Topics, PublishChange(w, T)
      PROVE  QuietHandlers'
  <2>1. \A c \in Conns : fan'[c] = fan[c]
    BY <1>7, GoroutinesAreDistinct DEF PublishChange, TypeInv, TypeOK
  <2> QED BY <1>7, <2>1 DEF PublishChange, QuietHandlers
<1>8. ASSUME NEW p \in Procs, NEW c \in Conns, Send(p, c) PROVE QuietHandlers'
  <2>1. \A d \in Conns : d # p => fan'[d] = fan[d] /\ closer'[d] = closer[d]
    BY <1>8 DEF Send, BeginClose, TypeInv, TypeOK, Procs
  <2>2. p \in Conns => conn[p].pc = "publishing"
    BY <1>8 DEF Send, QuietHandlers
  <2>3. conn' = conn
    BY <1>8 DEF Send
  <2> QED BY <2>1, <2>2, <2>3 DEF QuietHandlers
<1>9. ASSUME NEW p \in Procs, CloseDelete(p) \/ CloseTransport(p) PROVE QuietHandlers'
  <2>1. closer[p] # NotClosing
    BY <1>9 DEF CloseDelete, CloseTransport, NotClosing
  <2>2. \A d \in Conns : d # p => closer'[d] = closer[d]
    BY <1>9 DEF CloseDelete, CloseTransport, TypeInv, TypeOK, Procs
  <2>3. conn' = conn /\ fan' = fan
    BY <1>9 DEF CloseDelete, CloseTransport
  <2> QED BY <2>1, <2>2, <2>3 DEF QuietHandlers
<1>10. ASSUME NEW a \in Admins, NEW c \in Conns, RevokeOne(a, c) PROVE QuietHandlers'
  <2>1. \A d \in Conns : closer'[d] = closer[d]
    BY <1>10, GoroutinesAreDistinct DEF RevokeOne, BeginClose, TypeInv, TypeOK, Procs
  <2> QED BY <1>10, <2>1 DEF RevokeOne, QuietHandlers
<1>11. CASE \/ \E c \in Conns : WriteLoop(c) \/ PeerSilent(c)
            \/ \E a \in Admins : RevokeCollect(a) \/ RevokeDone(a)
            \/ \E a \in Admins : ReplacePolicy(a) \/ Suspend(a)
            \/ \E a \in Admins, s \in Sessions : Logout(a, s)
            \/ Resume
  BY <1>0, <1>11 DEF WriteLoop, PeerSilent, RevokeCollect, RevokeDone, ReplacePolicy,
                     Suspend, Logout, Resume, Change
<1>12. CASE UNCHANGED vars
  BY <1>0, <1>12 DEF vars
<1> QED BY <1>1, <1>2, <1>3, <1>4, <1>5, <1>6, <1>7, <1>8, <1>9, <1>10, <1>11, <1>12,
           NextCases

BeingClosed(c) == \E p \in Procs : closer[p] = [at |-> "delete", c |-> c]

SilentInv == TypeInv /\ KnownAreAttached /\ QuietHandlers /\ NoSilentLoss

\* A step that refuses nothing new, reopens nothing and takes back no close.
LEMMA SilentKept ==
    ASSUME NoSilentLoss,
           \A c \in lost' \cap hub' :
              /\ c \in lost \cap hub
              /\ transport[c] = "closed" => transport'[c] = "closed"
              /\ BeingClosed(c) => BeingClosed(c)'
    PROVE  NoSilentLoss'
BY DEF NoSilentLoss, BeingClosed

LEMMA SilentStep == SilentInv /\ [Next]_vars => SilentInv'
<1> SUFFICES ASSUME SilentInv, [Next]_vars PROVE NoSilentLoss'
  BY TypeStep, KnownStep, QuietStep DEF SilentInv
<1> USE DEF hubVars
<1>same. closer' = closer => \A c : BeingClosed(c)' = BeingClosed(c)
  BY DEF BeingClosed
<1>0. ASSUME hub' \subseteq hub, lost' = lost, transport' = transport, closer' = closer
      PROVE  NoSilentLoss'
  BY <1>0, <1>same, SilentKept DEF SilentInv
<1>1. CASE \/ \E c \in Conns :
                  \/ ResolveActive(c) \/ ValidateSession(c) \/ ReadPolicy(c)
                  \/ ReadFrame(c) \/ Published(c)
           \/ \E c \in Conns, t \in Topics :
                  Subscribe(c, t) \/ Unsubscribe(c, t) \/ Publish(c, t)
           \/ \E w \in Writers, T \in SUBSET Topics : PublishChange(w, T)
           \/ \E a \in Admins : RevokeCollect(a) \/ RevokeDone(a)
           \/ \E a \in Admins : ReplacePolicy(a) \/ Suspend(a)
           \/ \E a \in Admins, s \in Sessions : Logout(a, s)
           \/ Resume
  BY <1>0, <1>1 DEF ResolveActive, ValidateSession, ReadPolicy, ReadFrame, Published,
        Subscribe, Unsubscribe, Publish, PublishChange, RevokeCollect, RevokeDone,
        ReplacePolicy, Suspend, Logout, Resume, Change, GatewayUnchanged
<1>2. ASSUME NEW c \in Conns, Accept(c) PROVE NoSilentLoss'
  <2>1. c \notin hub
    BY <1>2 DEF Accept, SilentInv, KnownAreAttached, Attached, AttachedPCs
  <2>2. \A d \in hub : transport'[d] = transport[d]
    BY <1>2, <2>1 DEF Accept, SilentInv, TypeInv, TypeOK
  <2>3. hub' = hub /\ lost' = lost /\ closer' = closer
    BY <1>2 DEF Accept
  <2> QED BY <2>2, <2>3, <1>same, SilentKept DEF SilentInv
<1>3. ASSUME NEW c \in Conns, Attach(c) PROVE NoSilentLoss'
  <2>1. c \notin lost
    BY <1>3 DEF Attach, SilentInv, KnownAreAttached, Attached, AttachedPCs
  <2>2. hub' \subseteq hub \cup {c} /\ lost' = lost /\ closer' = closer /\ transport' = transport
    BY <1>3 DEF Attach
  <2> QED BY <2>1, <2>2, <1>same, SilentKept DEF SilentInv
<1>4. ASSUME NEW p \in Procs, NEW c, BeginClose(p, c), closer[p] = NotClosing
      PROVE  BeingClosed(c)' /\ \A d : BeingClosed(d) => BeingClosed(d)'
  <2>1. closer'[p] = [at |-> "delete", c |-> c]
        /\ \A q \in Procs \ {p} : closer'[q] = closer[q]
    BY <1>4 DEF BeginClose, SilentInv, TypeInv, TypeOK
  <2> QED BY <1>4, <2>1, NotDeleting DEF BeingClosed
<1>5. ASSUME NEW c \in Conns, Detach(c) PROVE NoSilentLoss'
  <2>1. closer[c] = NotClosing /\ c \in Procs
    BY <1>5 DEF Detach, SilentInv, QuietHandlers, Procs
  <2> QED BY <1>4, <1>5, <2>1, SilentKept DEF Detach, SilentInv
<1>6. ASSUME NEW a \in Admins, NEW c \in Conns, RevokeOne(a, c) PROVE NoSilentLoss'
  <2>1. a \in Procs
    BY DEF Procs
  <2> QED BY <1>4, <1>6, <2>1, SilentKept DEF RevokeOne, SilentInv
<1>7. ASSUME NEW p \in Procs, NEW c \in Conns, Send(p, c) PROVE NoSilentLoss'
  <2>1. CASE lost' = lost /\ closer' = closer
    BY <1>0, <1>7, <2>1 DEF Send
  <2>2. CASE lost' = lost \cup {c} /\ BeginClose(p, c)
    <3>1. BeingClosed(c)' /\ \A d : BeingClosed(d) => BeingClosed(d)'
      BY <1>4, <1>7, <2>2 DEF Send
    <3>2. hub' = hub /\ transport' = transport
      BY <1>7 DEF Send
    <3> QED BY <2>2, <3>1, <3>2 DEF SilentInv, NoSilentLoss, BeingClosed
  <2> QED BY <1>7, <2>1, <2>2 DEF Send
<1>8. ASSUME NEW p \in Procs, CloseDelete(p) PROVE NoSilentLoss'
  <2>1. /\ hub' = hub \ {closer[p].c} /\ lost' = lost /\ transport' = transport
        /\ \A q \in Procs \ {p} : closer'[q] = closer[q]
    BY <1>8 DEF CloseDelete, SilentInv, TypeInv, TypeOK
  <2>2. ASSUME NEW d \in hub', BeingClosed(d) PROVE BeingClosed(d)'
    <3>1. PICK q \in Procs : closer[q] = [at |-> "delete", c |-> d]
      BY <2>2 DEF BeingClosed
    <3>2. q # p
      BY <2>1, <2>2, <3>1
    <3> QED BY <2>1, <3>1, <3>2 DEF BeingClosed
  <2> QED BY <2>1, <2>2, SilentKept DEF SilentInv
<1>9. ASSUME NEW p \in Procs, CloseTransport(p) PROVE NoSilentLoss'
  <2>1. /\ hub' = hub /\ lost' = lost
        /\ \A d \in Conns : transport[d] = "closed" => transport'[d] = "closed"
        /\ \A q \in Procs \ {p} : closer'[q] = closer[q]
        /\ hub \subseteq Conns
    BY <1>9 DEF CloseTransport, SilentInv, TypeInv, TypeOK
  <2>2. ASSUME NEW d, BeingClosed(d) PROVE BeingClosed(d)'
    <3>1. PICK q \in Procs : closer[q] = [at |-> "delete", c |-> d]
      BY <2>2 DEF BeingClosed
    <3>2. q # p
      BY <1>9, <3>1 DEF CloseTransport
    <3> QED BY <2>1, <3>1, <3>2 DEF BeingClosed
  <2> QED BY <2>1, <2>2, SilentKept DEF SilentInv
<1>10. ASSUME NEW c \in Conns, WriteLoop(c) \/ PeerSilent(c) \/ Return(c) PROVE NoSilentLoss'
  <2>1. /\ hub' = hub /\ closer' = closer /\ hub \subseteq Conns
        /\ lost' \subseteq lost \cup {c}
        /\ \A d \in Conns : transport[d] = "closed" => transport'[d] = "closed"
        /\ lost' = lost \/ transport'[c] = "closed"
    BY <1>10 DEF WriteLoop, PeerSilent, Return, SilentInv, TypeInv, TypeOK
  <2>2. CASE lost' = lost
    BY <2>1, <2>2, <1>same, SilentKept DEF SilentInv
  <2>3. CASE transport'[c] = "closed"
    BY <2>1, <2>3, <1>same DEF SilentInv, NoSilentLoss, BeingClosed
  <2> QED BY <2>1, <2>2, <2>3
<1>11. CASE UNCHANGED vars
  BY <1>0, <1>11 DEF vars
<1> QED BY <1>1, <1>2, <1>3, <1>5, <1>6, <1>7, <1>8, <1>9, <1>10, <1>11, NextCases

\* A subscriber that was refused a message is out of the hub, has a closed
\* transport or is about to be deleted: nobody misses a message and stays.
THEOREM LossIsNeverSilent == Spec => []NoSilentLoss
<1>1. Init => SilentInv
  <2>1. Init => NoSilentLoss
    BY DEF Init, NoSilentLoss
  <2> QED BY <2>1, TypeInit, KnownInit, QuietInit DEF SilentInv
<1>2. SilentInv => NoSilentLoss
  BY DEF SilentInv
<1> QED BY <1>1, <1>2, SilentStep, PTL DEF Spec
=============================================================================
