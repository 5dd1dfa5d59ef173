----------------------------- MODULE AppDataProofs -----------------------------
(***************************************************************************)
(* Proofs about AppData, for every number of callers, owner calls, keys,   *)
(* documents and releases, and for every budget of external events.        *)
(***************************************************************************)
EXTENDS AppData, TLAPS

-----------------------------------------------------------------------------
(***************************************************************************)
(* The inductive invariant: one part for each promise.                     *)
(***************************************************************************)

\* What a request has found by the time it is at this point, and that only a
\* granted one is public.
Found(r) ==
    CASE r.pc \in {"resolved", "private"} -> {"up"}
      [] r.pc = "gate" -> {"up", "public"}
      [] r.pc = "session" -> {"up", "session"}
      [] r.pc \in {"granted", "served"} /\ r.kind # "auth" -> Needs(r)
      [] OTHER -> {}

GrantInv ==
    /\ \A c \in Callers : Found(req[c]) \subseteq held[c]
    /\ \A c \in Callers :
          req[c].public => req[c].pc \in {"idle", "granted", "served", "denied"}
    /\ \A c \in Callers : data[c].pc # "none" => Granted(c)

\* Nobody is left who could open the database.
Quiet ==
    /\ \A c \in Callers : req[c].pc \in {"idle", "denied"}
    /\ \A a \in Attempts : att[a].pc = "idle"

Leaving == status \in {"deleting", "removed"}

RemovalInv ==
    /\ purge # "none" => Leaving
    /\ purge = "removing" => removed
    /\ gone => ~file /\ Leaving /\ (removed \/ Quiet)

\* A hint never runs ahead of the database, and a snapshot that nobody has
\* marked dirty was read after every hint that was received.
HintInv ==
    /\ ~Leaving => /\ sub.heard <= db.rev[Watched]
                   /\ \A h \in sub.hints : h <= db.rev[Watched]
    /\ sub.snap = "docs" /\ ~sub.dirty => sub.heard <= sub.read
    /\ HintsAreSeen

\* The calls of a key that are at one of these points.
CallsAt(k, pcs) == {a \in Attempts : att[a].key = k /\ att[a].pc \in pcs}

\* One call of a key at most may still commit its mutation, one at most may
\* still announce it, and none once it was committed or announced.
KeyInv ==
    \A k \in Requests :
        /\ applied[k] <= 1 /\ hinted[k] <= 1
        /\ audit[k] = None /\ status # "removed" =>
             /\ applied[k] = 0 /\ hinted[k] = 0
             /\ \A a \in Attempts :
                   att[a].key = k => att[a].pc \in {"idle", "scoped"}
        /\ audit[k] # None /\ audit[k].outcome = "attempted" =>
             hinted[k] = 0 /\ CallsAt(k, {"publish"}) = {}
        /\ \A a \in CallsAt(k, {"fresh", "holding"}) :
              applied[k] = 0 /\ \A b \in CallsAt(k, {"fresh", "holding"}) : a = b
        /\ \A a \in CallsAt(k, {"publish"}) :
              hinted[k] = 0 /\ \A b \in CallsAt(k, {"publish"}) : a = b

\* Who is going to create document i.
Creators(i) ==
    {c \in Callers : /\ data[c].pc \in {"admitted", "holding"}
                     /\ data[c].op.kind = "create" /\ data[c].op.name = i}
OwnerCreators(i) ==
    {a \in Attempts : /\ att[a].pc \in {"fresh", "holding"}
                      /\ att[a].m.kind = "create" /\ att[a].m.name = i}

Seen(c, i) == data[c].seen.name = i /\ data[c].seen.entry # Absent

\* An id that was not drawn, or whose document is still to be created, was
\* never seen; what was seen is still there, was replaced by a newer version,
\* or is gone for good.
DocumentInv ==
    /\ \A i \in Ids :
          /\ i \notin drawn => Creators(i) = {} /\ OwnerCreators(i) = {}
          /\ i \notin drawn \/ Creators(i) # {} \/ OwnerCreators(i) # {} =>
               db.rec[i] = Absent /\ \A c \in Callers : ~Seen(c, i)
          /\ \A c, d \in Creators(i) : c = d
          /\ \A a, b \in OwnerCreators(i) : a = b
          /\ Creators(i) = {} \/ OwnerCreators(i) = {}
    /\ \A c \in Callers, i \in Ids :
          Seen(c, i) => \/ db.rec[i] = Absent
                        \/ db.rec[i] = data[c].seen.entry
                        \/ db.rec[i].ver > data[c].seen.entry.ver
    /\ \A c \in Callers :
          LET op == data[c].op
          IN data[c].pc \in {"admitted", "holding"} /\ op.name \in Ids
               /\ op.exp # NoVersion
             => /\ op.kind # "create" /\ Seen(c, op.name)
                /\ data[c].seen.entry.ver = op.exp

AppDataInv ==
    TypeOK /\ GrantInv /\ RemovalInv /\ HintInv /\ KeyInv /\ DocumentInv

-----------------------------------------------------------------------------
(***************************************************************************)
(* The transactions of AppStore.                                           *)
(***************************************************************************)

\* What a committed mutation does to a document: it creates one that does not
\* exist, or replaces the one it was sent for by its next version or by nothing.
Replaces(d, m, e) ==
    \/ m.kind = "create" /\ d.rec[m.name] = Absent
    \/ /\ m.kind # "create" /\ d.rec[m.name] # Absent
       /\ ~Stale(d, m.name, m.exp)
       /\ e # Absent => e.ver = d.rec[m.name].ver + 1

Committed(d, m, d2) ==
    \E e \in Entries \cup {Absent} :
        /\ d2.rec = [d.rec EXCEPT ![m.name] = e]
        /\ m.name \in Ids => Replaces(d, m, e)

StoreResult(d, m, res) ==
    /\ res.db \in Databases
    /\ \A co \in Collections : d.rev[co] <= res.db.rev[co]
    /\ IF res.out = "ok" THEN Committed(d, m, res.db) ELSE res.db = d

LEMMA DatabaseParts ==
    ASSUME NEW d \in Databases
    PROVE  /\ d.rec \in [Names -> Entries \cup {Absent}]
           /\ d.rev \in [Collections -> Nat]
           /\ d = [rec |-> d.rec, rev |-> d.rev]
  BY DEF Databases

LEMMA VersionIsNat ==
    ASSUME NEW d \in Databases, NEW n \in Names
    PROVE  VersionOf(d, n) \in Nat
  BY DatabaseParts, AbsentType DEF VersionOf, Entries

LEMMA RefusedResult ==
    ASSUME NEW d \in Databases, NEW m, NEW why \in {"conflict", "quota", "missing", "exists"}
    PROVE  StoreResult(d, m, Refused(d, why))
  BY DatabaseParts DEF StoreResult, Refused

LEMMA KVWrite ==
    ASSUME NEW d \in Databases, NEW m, m.name \in Keys, NEW ver,
           NEW e \in Entries \cup {Absent}
    PROVE  StoreResult(d, m, Done([d EXCEPT !.rec[m.name] = e], ver))
<1> DEFINE d2 == [d EXCEPT !.rec[m.name] = e]
<1>1. d2 = [rec |-> [d.rec EXCEPT ![m.name] = e], rev |-> d.rev]
  BY DatabaseParts
<1> HIDE DEF d2
<1>2. m.name \in Names /\ m.name \notin Ids
  BY NamesDiffer DEF Names
<1>3. [d.rec EXCEPT ![m.name] = e] \in [Names -> Entries \cup {Absent}]
  BY <1>2, DatabaseParts
<1>4. d2 \in Databases
  BY <1>1, <1>3, DatabaseParts DEF Databases
<1>5. Committed(d, m, d2)
  BY <1>1, <1>2 DEF Committed
<1>6. \A co \in Collections : d.rev[co] <= d2.rev[co]
  BY <1>1, DatabaseParts
<1>7. Done(d2, ver).out = "ok" /\ Done(d2, ver).db = d2
  BY DEF Done
<1> QED BY <1>4, <1>5, <1>6, <1>7 DEF StoreResult, d2

LEMMA DocumentWrite ==
    ASSUME NEW d \in Databases, NEW m, m.name \in Ids, NEW ver,
           NEW e \in Entries \cup {Absent}, Replaces(d, m, e)
    PROVE  StoreResult(d, m, Done(Put(d, m.name, e), ver))
<1> DEFINE d2 == Put(d, m.name, e)
<1>1. d2 = [rec |-> [d.rec EXCEPT ![m.name] = e],
            rev |-> incrementCollectionRevision(d.rev, CollectionOf[m.name])]
  BY DEF Put
<1> HIDE DEF d2
<1>2. CollectionOf[m.name] \in Collections /\ m.name \in Names
  BY CollectionType DEF Names
<1>3. incrementCollectionRevision(d.rev, CollectionOf[m.name]) \in [Collections -> Nat]
      /\ \A co \in Collections :
           d.rev[co] <= incrementCollectionRevision(d.rev, CollectionOf[m.name])[co]
  BY <1>2, DatabaseParts DEF incrementCollectionRevision
<1>4. [d.rec EXCEPT ![m.name] = e] \in [Names -> Entries \cup {Absent}]
  BY <1>2, DatabaseParts
<1>5. d2 \in Databases
  BY <1>1, <1>3, <1>4 DEF Databases
<1>6. Committed(d, m, d2)
  BY <1>1 DEF Committed
<1>7. Done(d2, ver).out = "ok" /\ Done(d2, ver).db = d2
  BY DEF Done
<1> QED BY <1>1, <1>3, <1>5, <1>6, <1>7 DEF StoreResult, d2

\* Whatever a mutation finds, the database keeps its shape, no revision goes
\* back, a refusal changes nothing, and a document is replaced by its next
\* version only.
LEMMA ApplyResult ==
    ASSUME NEW d \in Databases, NEW m \in Mutations
    PROVE  StoreResult(d, m, Apply(d, m))
<1> USE DEF NoVersion
<1>0. m.name \in Names /\ m.exp \in Nat /\ VersionOf(d, m.name) + 1 \in Nat
  BY VersionIsNat DEF Mutations, Names
<1>1. CASE m.kind = "set"
  <2>1. m.name \in Keys /\ m.val \in Values
    BY <1>1 DEF Mutations
  <2>2. [val |-> m.val, ver |-> VersionOf(d, m.name) + 1] \in Entries
    BY <2>1, <1>0 DEF Entries
  <2>3. Apply(d, m) = KVSet(d, m.name, m.val, m.exp)
    BY <1>1 DEF Apply
  <2>4. \/ Apply(d, m) \in {Refused(d, "conflict"), Refused(d, "quota")}
        \/ Apply(d, m) = Done([d EXCEPT !.rec[m.name] =
                                [val |-> m.val, ver |-> VersionOf(d, m.name) + 1]],
                              VersionOf(d, m.name) + 1)
    BY <2>3, Zenon DEF KVSet
  <2> QED BY <2>1, <2>2, <2>4, KVWrite, RefusedResult
<1>2. CASE m.kind = "create"
  <2>1. m.name \in Ids /\ m.val \in Values
    BY <1>2 DEF Mutations
  <2>2. [val |-> m.val, ver |-> 1] \in Entries
    BY <2>1 DEF Entries
  <2>3. Apply(d, m) = CreateDocument(d, m.name, m.val)
    BY <1>2 DEF Apply
  <2>4. \/ Apply(d, m) \in {Refused(d, "exists"), Refused(d, "quota")}
        \/ /\ d.rec[m.name] = Absent
           /\ Apply(d, m) = Done(Put(d, m.name, [val |-> m.val, ver |-> 1]), 1)
    BY <2>3, Zenon DEF CreateDocument
  <2>5. d.rec[m.name] = Absent => Replaces(d, m, [val |-> m.val, ver |-> 1])
    BY <1>2 DEF Replaces
  <2> QED BY <2>1, <2>2, <2>4, <2>5, DocumentWrite, RefusedResult
<1>3. CASE m.kind = "update"
  <2> DEFINE e == [val |-> m.val, ver |-> VersionOf(d, m.name) + 1]
  <2>1. m.name \in Ids /\ m.val \in Values
    BY <1>3 DEF Mutations
  <2>2. e \in Entries
    BY <2>1, <1>0 DEF Entries
  <2>3. Apply(d, m) = UpdateDocument(d, m.name, m.val, m.exp)
    BY <1>3 DEF Apply
  <2>4. \/ Apply(d, m) \in {Refused(d, "conflict"), Refused(d, "quota")}
        \/ /\ d.rec[m.name] # Absent /\ ~Stale(d, m.name, m.exp)
           /\ Apply(d, m) = Done(Put(d, m.name, e), VersionOf(d, m.name) + 1)
    BY <2>3, Zenon DEF UpdateDocument
  <2>5. d.rec[m.name] # Absent /\ ~Stale(d, m.name, m.exp) => Replaces(d, m, e)
    BY <1>3 DEF Replaces, VersionOf
  <2> HIDE DEF e
  <2> QED BY <2>1, <2>2, <2>4, <2>5, DocumentWrite, RefusedResult
<1>4. CASE m.kind = "delete" /\ m.name \in Keys
  <2>1. Apply(d, m) = KVDelete(d, m.name, m.exp)
    BY <1>4, NamesDiffer DEF Apply
  <2>2. \/ Apply(d, m) \in {Refused(d, "conflict"), Refused(d, "missing")}
        \/ Apply(d, m) = Done([d EXCEPT !.rec[m.name] = Absent], VersionOf(d, m.name) + 1)
    BY <2>1, Zenon DEF KVDelete
  <2> QED BY <1>4, <2>2, KVWrite, RefusedResult
<1>5. CASE m.kind = "delete" /\ m.name \in Ids
  <2>1. Apply(d, m) = DeleteDocument(d, m.name, m.exp)
    BY <1>5, NamesDiffer DEF Apply
  <2>2. \/ Apply(d, m) \in {Refused(d, "conflict"), Refused(d, "missing")}
        \/ /\ d.rec[m.name] # Absent /\ ~Stale(d, m.name, m.exp)
           /\ Apply(d, m) = Done(Put(d, m.name, Absent), VersionOf(d, m.name) + 1)
    BY <2>1, Zenon DEF DeleteDocument
  <2>3. d.rec[m.name] # Absent /\ ~Stale(d, m.name, m.exp) => Replaces(d, m, Absent)
    BY <1>5 DEF Replaces
  <2> QED BY <1>5, <2>2, <2>3, DocumentWrite, RefusedResult
<1> QED BY <1>1, <1>2, <1>3, <1>4, <1>5 DEF Mutations, Names

-----------------------------------------------------------------------------
(***************************************************************************)
(* The types, part by part.                                                *)
(***************************************************************************)

RequestRow == [pc : RequestPCs, kind : Kinds, token : BOOLEAN,
               release : Releases \cup {None}, public : BOOLEAN]

ControlTyped ==
    /\ status \in {"active", "suspended", "deleting", "removed"}
    /\ active \in Releases
    /\ mode \in {"private", "public"}
    /\ admits \in BOOLEAN /\ gate \in BOOLEAN /\ session \in BOOLEAN

RequestsTyped ==
    req \in [Callers -> RequestRow] /\ held \in [Callers -> SUBSET Conditions]

BudgetTyped == budget \in [Events -> Nat]

StoreTyped ==
    /\ db \in Databases
    /\ file \in BOOLEAN /\ handle \in BOOLEAN /\ removed \in BOOLEAN /\ gone \in BOOLEAN
    /\ conn \in {None, "list"}

DataTyped ==
    /\ data \in [Callers -> DataRequests]
    /\ \A c \in Callers : data[c].pc # "none" => data[c].op \in Mutations

OwnerTyped ==
    /\ att \in [Attempts -> Calls]
    /\ \A a \in Attempts :
          att[a].pc # "idle" => att[a].key \in Requests /\ att[a].m \in Mutations
    /\ audit \in [Requests -> Intents \cup {None}]
    /\ applied \in [Requests -> Nat] /\ hinted \in [Requests -> Nat]

RestTyped ==
    /\ purge \in {"none", "asked", "failed", "removing", "purged"}
    /\ sub \in Browsers
    /\ drawn \subseteq Ids

LEMMA TypeParts ==
    TypeOK <=> /\ ControlTyped /\ RequestsTyped /\ BudgetTyped
               /\ StoreTyped /\ DataTyped /\ OwnerTyped /\ RestTyped
  BY DEF TypeOK, GatewayTypeOK, ControlTyped, RequestsTyped, BudgetTyped, StoreTyped,
         DataTyped, OwnerTyped, RestTyped, RequestRow

LEMMA TypePartsNext ==
    TypeOK' <=> /\ ControlTyped' /\ RequestsTyped' /\ BudgetTyped'
                /\ StoreTyped' /\ DataTyped' /\ OwnerTyped' /\ RestTyped'
  BY DEF TypeOK, GatewayTypeOK, ControlTyped, RequestsTyped, BudgetTyped, StoreTyped,
         DataTyped, OwnerTyped, RestTyped, RequestRow

LEMMA SpendTyped ==
    ASSUME BudgetTyped, NEW e \in Events, Spend(e)
    PROVE  BudgetTyped'
  BY DEF BudgetTyped, Spend

-----------------------------------------------------------------------------
(***************************************************************************)
(* Requests.                                                               *)
(***************************************************************************)

\* What a request in progress has found stays found, and every step adds what
\* is true now.
LEMMA WitnessResult ==
    ASSUME held \in [Callers -> SUBSET Conditions], Witness
    PROVE  /\ held' \in [Callers -> SUBSET Conditions]
           /\ \A c \in Callers : req'[c].pc # "idle" =>
                /\ held[c] \subseteq held'[c]
                /\ status' = "active" => "up" \in held'[c]
                /\ mode' = "public" => "public" \in held'[c]
                /\ gate' => "gate" \in held'[c]
                /\ session' => "session" \in held'[c]
                /\ admits' => "admitted" \in held'[c]
<1>1. \A c \in Callers :
        held'[c] = IF req'[c].pc = "idle" THEN {}
                   ELSE held[c] \cup {k \in Conditions : Holds(k)'}
  BY DEF Witness
<1>2. \A c \in Callers : held'[c] \in SUBSET Conditions
  BY <1>1
<1>3. held' \in [Callers -> SUBSET Conditions]
  BY <1>2 DEF Witness
<1>4. /\ status' = "active" => Holds("up")'
      /\ mode' = "public" => Holds("public")'
      /\ gate' => Holds("gate")'
      /\ session' => Holds("session")'
      /\ admits' => Holds("admitted")'
  BY DEF Holds
<1> QED BY <1>1, <1>3, <1>4 DEF Conditions

\* One request takes a step, to r.
Answers(c, r) ==
    /\ r \in RequestRow
    /\ req' = [req EXCEPT ![c] = r]
    /\ Witness
    /\ Found(r) \subseteq held'[c]
    /\ r.public => r.pc \in {"idle", "granted", "served", "denied"}
    /\ Leaving /\ req[c].pc \in {"idle", "denied"} => r.pc \in {"idle", "denied"}

FoundInv ==
    /\ \A c \in Callers : Found(req[c]) \subseteq held[c]
    /\ \A c \in Callers :
          req[c].public => req[c].pc \in {"idle", "granted", "served", "denied"}

LEMMA AnswersResult ==
    ASSUME RequestsTyped, FoundInv, NEW c \in Callers, NEW r, Answers(c, r)
    PROVE  RequestsTyped' /\ FoundInv'
<1>1. /\ req' \in [Callers -> RequestRow] /\ req'[c] = r
      /\ \A d \in Callers : d # c => req'[d] = req[d]
  BY DEF Answers, RequestsTyped
<1>2. held' \in [Callers -> SUBSET Conditions]
      /\ \A d \in Callers : req'[d].pc # "idle" => held[d] \subseteq held'[d]
  BY WitnessResult DEF Answers, RequestsTyped
<1>3. ASSUME NEW d \in Callers
      PROVE  /\ Found(req'[d]) \subseteq held'[d]
             /\ req'[d].public => req'[d].pc \in {"idle", "granted", "served", "denied"}
  <2>1. CASE d = c
    BY <2>1, <1>1 DEF Answers
  <2>2. CASE d # c /\ req[d].pc = "idle"
    BY <2>2, <1>1 DEF Found, FoundInv
  <2>3. CASE d # c /\ req[d].pc # "idle"
    BY <2>3, <1>1, <1>2 DEF FoundInv
  <2> QED BY <2>1, <2>2, <2>3
<1>4. FoundInv'
  BY <1>3 DEF FoundInv, Found, Needs
<1> QED BY <1>1, <1>2, <1>4 DEF RequestsTyped

LEMMA MoveAnswers ==
    ASSUME RequestsTyped, NEW c \in Callers, NEW pc \in RequestPCs \ {"idle"},
           RequestTo(c, pc), Witness, req[c].pc \notin {"idle", "denied"},
           req[c].public => pc \in {"granted", "served", "denied"},
           pc \in {"resolved", "private"} => "up" \in held'[c],
           pc = "gate" => {"up", "public"} \subseteq held'[c],
           pc = "session" => {"up", "session"} \subseteq held'[c],
           pc \in {"granted", "served"} /\ req[c].kind # "auth" =>
               Needs(req[c]) \subseteq held'[c]
    PROVE  \E r : Answers(c, r)
<1> DEFINE r == [req[c] EXCEPT !.pc = pc]
<1>1. req[c] \in RequestRow
  BY DEF RequestsTyped
<1>2. r \in RequestRow /\ r.pc = pc /\ r.kind = req[c].kind /\ r.public = req[c].public
  BY <1>1 DEF RequestRow
<1>3. req' = [req EXCEPT ![c] = r]
  BY DEF RequestTo, RequestsTyped
<1> HIDE DEF r
<1>4. Needs(r) = Needs(req[c])
  BY <1>2 DEF Needs
<1>5. Found(r) \subseteq held'[c]
  BY <1>2, <1>4 DEF Found
<1>6. Answers(c, r)
  BY <1>2, <1>3, <1>5 DEF Answers
<1> QED BY <1>6

\* The parts of a request the lemmas below start from.
LEMMA RequestFacts ==
    ASSUME RequestsTyped, FoundInv, NEW c \in Callers
    PROVE  /\ req[c] \in RequestRow
           /\ req[c].pc \in {"resolved", "private"} => "up" \in held[c]
           /\ req[c].pc = "gate" => {"up", "public"} \subseteq held[c]
           /\ req[c].pc = "session" => {"up", "session"} \subseteq held[c]
           /\ req[c].pc \in {"granted", "served"} /\ req[c].kind # "auth" =>
                Needs(req[c]) \subseteq held[c]
           /\ req[c].public => req[c].pc \in {"idle", "granted", "served", "denied"}
<1>1. Found(req[c]) \subseteq held[c]
  BY DEF FoundInv
<1> QED BY <1>1 DEF Found, FoundInv, RequestsTyped

\* A step of a request that leaves the control plane alone keeps what was found
\* and has seen what is true.
LEMMA StepFinds ==
    ASSUME RequestsTyped, NEW c \in Callers, NEW pc \in RequestPCs \ {"idle"},
           RequestTo(c, pc), RequestStep
    PROVE  /\ held[c] \subseteq held'[c] /\ Witness
           /\ mode = "public" => "public" \in held'[c]
           /\ gate => "gate" \in held'[c]
           /\ session => "session" \in held'[c]
           /\ admits => "admitted" \in held'[c]
<1>1. req'[c].pc = pc
  BY DEF RequestsTyped, RequestRow, RequestTo
<1>2. Witness /\ UNCHANGED <<mode, gate, session, admits>>
  BY DEF RequestStep, control
<1> QED BY <1>1, <1>2, WitnessResult DEF RequestsTyped

LEMMA ReadModeAnswers ==
    ASSUME RequestsTyped, FoundInv, NEW c \in Callers, ReadMode(c)
    PROVE  \E r : Answers(c, r)
<1>1. PICK pc \in {"gate", "private"} :
        RequestTo(c, pc) /\ (pc = "gate" => mode = "public")
  <2>1. CASE req[c].release \notin StorageReleases /\ PolicyFound /\ mode = "public"
    BY <2>1 DEF ReadMode
  <2>2. CASE ~(req[c].release \notin StorageReleases /\ PolicyFound /\ mode = "public")
    BY <2>2 DEF ReadMode
  <2> QED BY <2>1, <2>2
<1>2. pc \in RequestPCs \ {"idle"}
  BY DEF RequestPCs
<1>3. RequestStep /\ req[c].pc = "resolved"
  BY DEF ReadMode
<1>4. held[c] \subseteq held'[c] /\ Witness /\ (mode = "public" => "public" \in held'[c])
  BY <1>1, <1>2, <1>3, StepFinds
<1>5. "up" \in held[c] /\ ~req[c].public
  BY <1>3, RequestFacts DEF RequestRow
<1> QED BY <1>1, <1>2, <1>3, <1>4, <1>5, MoveAnswers

LEMMA ReadPublicGateAnswers ==
    ASSUME RequestsTyped, FoundInv, NEW c \in Callers, ReadPublicGate(c)
    PROVE  \E r : Answers(c, r)
<1>1. RequestStep /\ req[c].pc = "gate"
  BY DEF ReadPublicGate
<1>2. {"up", "public"} \subseteq held[c] /\ ~req[c].public /\ req[c] \in RequestRow
  BY <1>1, RequestFacts DEF RequestRow
<1>3. CASE gate /\ req[c].kind = "static"
  <2> DEFINE r == [req[c] EXCEPT !.pc = "granted", !.public = TRUE]
  <2>1. req' = [req EXCEPT ![c].pc = "granted", ![c].public = TRUE]
    BY <1>3 DEF ReadPublicGate
  <2>2. r \in RequestRow /\ r.pc = "granted" /\ r.public /\ r.kind = "static"
    BY <1>2, <1>3 DEF RequestRow, RequestPCs
  <2>3. req' = [req EXCEPT ![c] = r]
    BY <2>1 DEF RequestsTyped
  <2> HIDE DEF r
  <2>4. req'[c].pc # "idle" /\ Witness /\ UNCHANGED gate
    BY <1>1, <2>2, <2>3 DEF RequestsTyped, RequestStep, control
  <2>5. held[c] \subseteq held'[c] /\ "gate" \in held'[c]
    BY <1>3, <2>4, WitnessResult DEF RequestsTyped
  <2>6. Found(r) \subseteq held'[c]
    BY <1>2, <2>2, <2>5 DEF Found, Needs
  <2>7. Answers(c, r)
    BY <1>1, <2>2, <2>3, <2>4, <2>6 DEF Answers
  <2> QED BY <2>7
<1>4. CASE ~(gate /\ req[c].kind = "static")
  <2>1. PICK pc \in {"private", "denied"} : RequestTo(c, pc)
    <3>1. CASE ~gate
      BY <3>1 DEF ReadPublicGate, RequestTo
    <3>2. CASE gate
      BY <1>4, <3>2 DEF ReadPublicGate, RequestTo
    <3> QED BY <3>1, <3>2
  <2>2. pc \in RequestPCs \ {"idle"}
    BY DEF RequestPCs
  <2>3. held[c] \subseteq held'[c] /\ Witness
    BY <1>1, <2>1, <2>2, StepFinds
  <2> QED BY <1>1, <1>2, <2>1, <2>2, <2>3, MoveAnswers
<1> QED BY <1>3, <1>4

LEMMA DispatchPreAuthAnswers ==
    ASSUME RequestsTyped, FoundInv, NEW c \in Callers, DispatchPreAuth(c)
    PROVE  \E r : Answers(c, r)
<1>1. RequestStep /\ req[c].pc = "private" /\ req[c].kind = "auth" /\ RequestTo(c, "served")
  BY DEF DispatchPreAuth
<1>2. "served" \in RequestPCs \ {"idle"} /\ ~req[c].public
  BY <1>1, RequestFacts DEF RequestPCs, RequestRow
<1>3. Witness
  BY <1>1 DEF RequestStep
<1> QED BY <1>1, <1>2, <1>3, MoveAnswers

LEMMA ValidateSessionAnswers ==
    ASSUME RequestsTyped, FoundInv, NEW c \in Callers, ValidateSession(c)
    PROVE  \E r : Answers(c, r)
<1>1. PICK pc \in {"session", "denied"} : RequestTo(c, pc) /\ (pc = "session" => session)
  <2>1. CASE session /\ req[c].token /\ status = "active"
    BY <2>1 DEF ValidateSession
  <2>2. CASE ~(session /\ req[c].token /\ status = "active")
    BY <2>2 DEF ValidateSession
  <2> QED BY <2>1, <2>2
<1>2. RequestStep /\ req[c].pc = "private"
  BY DEF ValidateSession
<1>3. pc \in RequestPCs \ {"idle"} /\ ~req[c].public /\ "up" \in held[c]
  BY <1>2, RequestFacts DEF RequestPCs, RequestRow
<1>4. held[c] \subseteq held'[c] /\ Witness /\ (session => "session" \in held'[c])
  BY <1>1, <1>2, <1>3, StepFinds
<1> QED BY <1>1, <1>2, <1>3, <1>4, MoveAnswers

LEMMA EvaluatePolicyAnswers ==
    ASSUME RequestsTyped, FoundInv, NEW c \in Callers, EvaluatePolicy(c)
    PROVE  \E r : Answers(c, r)
<1>1. PICK pc \in {"granted", "denied"} : RequestTo(c, pc) /\ (pc = "granted" => admits)
  <2>1. CASE PolicyFound /\ admits
    BY <2>1 DEF EvaluatePolicy
  <2>2. CASE ~(PolicyFound /\ admits)
    BY <2>2 DEF EvaluatePolicy
  <2> QED BY <2>1, <2>2
<1>2. RequestStep /\ req[c].pc = "session"
  BY DEF EvaluatePolicy
<1>3. pc \in RequestPCs \ {"idle"} /\ ~req[c].public /\ {"up", "session"} \subseteq held[c]
  BY <1>2, RequestFacts DEF RequestPCs, RequestRow
<1>4. held[c] \subseteq held'[c] /\ Witness /\ (admits => "admitted" \in held'[c])
  BY <1>1, <1>2, <1>3, StepFinds
<1> QED BY <1>1, <1>2, <1>3, <1>4, MoveAnswers DEF Needs

\* A granted request ends.
LEMMA EndAnswers ==
    ASSUME RequestsTyped, FoundInv, NEW c \in Callers, req[c].pc = "granted",
           NEW pc \in {"served", "denied"}, RequestTo(c, pc), RequestStep
    PROVE  \E r : Answers(c, r)
<1>1. pc \in RequestPCs \ {"idle"}
  BY DEF RequestPCs
<1>2. held[c] \subseteq held'[c] /\ Witness
  BY <1>1, StepFinds
<1>3. req[c].kind # "auth" => Needs(req[c]) \subseteq held[c]
  BY RequestFacts
<1> QED BY <1>1, <1>2, <1>3, MoveAnswers

LEMMA RespondAnswers ==
    ASSUME RequestsTyped, FoundInv, NEW c \in Callers, Respond(c)
    PROVE  \E r : Answers(c, r)
<1>1. IdleRequest \in RequestRow /\ IdleRequest.pc = "idle" /\ ~IdleRequest.public
  BY DEF IdleRequest, RequestRow, RequestPCs, Kinds
<1>2. Found(IdleRequest) = {}
  BY <1>1 DEF Found
<1>3. Answers(c, IdleRequest)
  BY <1>1, <1>2 DEF Answers, Respond, RequestStep
<1> QED BY <1>3

LEMMA ResolveActiveAnswers ==
    ASSUME ControlTyped, RequestsTyped, FoundInv, NEW c \in Callers, NEW kind \in Kinds,
           ResolveActive(c, kind)
    PROVE  \E r : Answers(c, r)
<1>1. Witness /\ UNCHANGED status
  BY DEF ResolveActive, control
<1>2. CASE status = "active"
  <2>1. PICK token \in BOOLEAN :
          req' = [req EXCEPT ![c] =
                    [pc |-> "resolved", kind |-> kind, token |-> token,
                     release |-> active, public |-> FALSE]]
    BY <1>2 DEF ResolveActive
  <2> DEFINE r == [pc |-> "resolved", kind |-> kind, token |-> token,
                   release |-> active, public |-> FALSE]
  <2>2. r \in RequestRow /\ r.pc = "resolved" /\ ~r.public
    BY DEF RequestRow, RequestPCs, ControlTyped
  <2>3. req' = [req EXCEPT ![c] = r]
    BY <2>1
  <2> HIDE DEF r
  <2>4. "up" \in held'[c]
    BY <1>1, <1>2, <2>2, <2>3, WitnessResult DEF RequestsTyped
  <2>5. Found(r) \subseteq held'[c] /\ ~Leaving
    BY <1>2, <2>2, <2>4 DEF Found, Leaving
  <2>6. Answers(c, r)
    BY <1>1, <2>2, <2>3, <2>5 DEF Answers
  <2> QED BY <2>6
<1>3. CASE status # "active"
  <2> DEFINE r == [IdleRequest EXCEPT !.pc = "denied"]
  <2>1. req' = [req EXCEPT ![c] = r]
    BY <1>3 DEF ResolveActive
  <2>2. r \in RequestRow /\ r.pc = "denied"
    BY DEF IdleRequest, RequestRow, RequestPCs, Kinds
  <2> HIDE DEF r
  <2>3. Found(r) = {}
    BY <2>2 DEF Found
  <2>4. Answers(c, r)
    BY <1>1, <2>1, <2>2, <2>3 DEF Answers
  <2> QED BY <2>4
<1> QED BY <1>2, <1>3

\* A step of the gateway is a step of one request, of which no API call is
\* under way.
LEMMA GatewayAnswers ==
    ASSUME ControlTyped, RequestsTyped, BudgetTyped, FoundInv,
           NEW c \in Callers, GatewayStep(c)
    PROVE  /\ \E r : Answers(c, r)
           /\ UNCHANGED control /\ BudgetTyped' /\ ~Granted(c)
<1> USE DEF GatewayStep, RequestStep, Granted
<1>1. CASE \E kind \in Kinds : ResolveActive(c, kind)
  BY <1>1, ResolveActiveAnswers, SpendTyped DEF ResolveActive, Kinds, Events
<1>2. CASE ReadMode(c)
  BY <1>2, ReadModeAnswers DEF ReadMode, BudgetTyped
<1>3. CASE ReadPublicGate(c)
  BY <1>3, ReadPublicGateAnswers DEF ReadPublicGate, BudgetTyped
<1>4. CASE DispatchPreAuth(c)
  BY <1>4, DispatchPreAuthAnswers DEF DispatchPreAuth, BudgetTyped
<1>5. CASE ValidateSession(c)
  BY <1>5, ValidateSessionAnswers DEF ValidateSession, BudgetTyped
<1>6. CASE EvaluatePolicy(c)
  BY <1>6, EvaluatePolicyAnswers DEF EvaluatePolicy, BudgetTyped
<1>7. CASE Serve(c)
  <2>1. PICK pc \in {"served", "denied"} : RequestTo(c, pc)
    BY <1>7 DEF Serve
  <2> QED BY <1>7, <2>1, EndAnswers DEF Serve, BudgetTyped
<1>8. CASE Respond(c)
  BY <1>8, RespondAnswers DEF Respond, BudgetTyped
<1> QED BY <1>1, <1>2, <1>3, <1>4, <1>5, <1>6, <1>7, <1>8

-----------------------------------------------------------------------------
(***************************************************************************)
(* The parts of the invariant, and what leaves each of them alone.         *)
(***************************************************************************)

DataGranted == \A c \in Callers : data[c].pc # "none" => Granted(c)

LEMMA InvParts ==
    AppDataInv <=> /\ ControlTyped /\ RequestsTyped /\ BudgetTyped
                   /\ StoreTyped /\ DataTyped /\ OwnerTyped /\ RestTyped
                   /\ FoundInv /\ DataGranted
                   /\ RemovalInv /\ HintInv /\ KeyInv /\ DocumentInv
  BY TypeParts DEF AppDataInv, GrantInv, FoundInv, DataGranted

LEMMA InvPartsNext ==
    AppDataInv' <=> /\ ControlTyped' /\ RequestsTyped' /\ BudgetTyped'
                    /\ StoreTyped' /\ DataTyped' /\ OwnerTyped' /\ RestTyped'
                    /\ FoundInv' /\ DataGranted'
                    /\ RemovalInv' /\ HintInv' /\ KeyInv' /\ DocumentInv'
  BY TypePartsNext DEF AppDataInv, GrantInv, FoundInv, DataGranted

\* The control plane is well formed, and the application neither starts nor
\* stops leaving.
StatusKept ==
    /\ ControlTyped'
    /\ Leaving' <=> Leaving
    /\ status' = "removed" <=> status = "removed"

LEMMA ControlFrame ==
    ASSUME ControlTyped, UNCHANGED control
    PROVE  StatusKept
  BY DEF StatusKept, ControlTyped, control, Leaving

LEMMA RequestsFrame ==
    ASSUME RequestsTyped, FoundInv, UNCHANGED <<req, held>>
    PROVE  RequestsTyped' /\ FoundInv'
  BY DEF RequestsTyped, FoundInv, Found, Needs

LEMMA BudgetFrame ==
    ASSUME BudgetTyped, UNCHANGED budget
    PROVE  BudgetTyped'
  BY DEF BudgetTyped

LEMMA StoreFrame ==
    ASSUME StoreTyped, UNCHANGED store, UNCHANGED gone
    PROVE  StoreTyped'
  BY DEF StoreTyped, store

LEMMA DataFrame ==
    ASSUME DataTyped, UNCHANGED data
    PROVE  DataTyped'
  BY DEF DataTyped

LEMMA OwnerFrame ==
    ASSUME OwnerTyped, UNCHANGED owner
    PROVE  OwnerTyped'
  BY DEF OwnerTyped, owner

LEMMA RestFrame ==
    ASSUME RestTyped, UNCHANGED <<purge, sub, drawn>>
    PROVE  RestTyped'
  BY DEF RestTyped

LEMMA GrantedFrame ==
    ASSUME DataGranted, UNCHANGED <<req, data>>
    PROVE  DataGranted'
  BY DEF DataGranted, Granted

LEMMA HintFrame ==
    ASSUME HintInv, StatusKept, UNCHANGED <<sub, db>>
    PROVE  HintInv'
  BY DEF HintInv, StatusKept, HintsAreSeen

LEMMA KeyFrame ==
    ASSUME KeyInv, StatusKept, UNCHANGED owner
    PROVE  KeyInv'
  BY DEF KeyInv, StatusKept, owner, CallsAt

LEMMA DocumentFrame ==
    ASSUME DocumentInv, UNCHANGED <<db, data, att, drawn>>
    PROVE  DocumentInv'
  BY DEF DocumentInv, Creators, OwnerCreators, Seen

LEMMA RemovalFrame ==
    ASSUME RemovalInv, StatusKept, UNCHANGED <<purge, removed, gone, file>>,
           gone => (Quiet => Quiet')
    PROVE  RemovalInv'
  BY DEF RemovalInv, StatusKept

LEMMA QuietFrame ==
    ASSUME UNCHANGED <<req, att>>
    PROVE  Quiet => Quiet'
  BY DEF Quiet

LEMMA AnswersQuiet ==
    ASSUME RequestsTyped, NEW c \in Callers, NEW r, Answers(c, r), UNCHANGED att, Leaving
    PROVE  Quiet => Quiet'
<1>1. req'[c] = r /\ \A d \in Callers : d # c => req'[d] = req[d]
  BY DEF Answers, RequestsTyped
<1> QED BY <1>1 DEF Quiet, Answers

\* A request other than the one that takes a step keeps its API call.
LEMMA AnswersGranted ==
    ASSUME RequestsTyped, DataGranted, NEW c \in Callers, NEW r, Answers(c, r),
           data'[c].pc = "none",
           \A d \in Callers : d # c => data'[d] = data[d]
    PROVE  DataGranted'
<1>1. \A d \in Callers : d # c => req'[d] = req[d]
  BY DEF Answers, RequestsTyped
<1> QED BY <1>1 DEF DataGranted, Granted

-----------------------------------------------------------------------------
(***************************************************************************)
(* The gateway and the control plane.                                      *)
(***************************************************************************)

LEMMA GatewayStepOK ==
    ASSUME AppDataInv, NEW c \in Callers, GatewayStep(c), DataLeaves
    PROVE  AppDataInv'
<1>1. PICK r : Answers(c, r)
  BY InvParts, GatewayAnswers
<1>2. UNCHANGED control /\ BudgetTyped' /\ ~Granted(c)
  BY InvParts, GatewayAnswers
<1>3. UNCHANGED <<db, file, handle, removed, conn, data, att, audit, applied, hinted,
                  purge, gone, sub, drawn, store, owner>>
  BY DEF DataLeaves, store, owner, deletion
<1>4. StatusKept /\ ControlTyped'
  BY <1>2, InvParts, ControlFrame DEF StatusKept
<1>5. RequestsTyped' /\ FoundInv'
  BY <1>1, InvParts, AnswersResult
<1>6. DataGranted'
  <2>1. data'[c].pc = "none"
    BY <1>2, <1>3, InvParts DEF DataGranted
  <2> QED BY <1>1, <1>3, <2>1, InvParts, AnswersGranted
<1>7. RemovalInv'
  <2>1. gone => Leaving
    BY InvParts DEF RemovalInv
  <2>2. gone => (Quiet => Quiet')
    BY <1>1, <1>3, <2>1, InvParts, AnswersQuiet
  <2> QED BY <1>3, <1>4, <2>2, InvParts, RemovalFrame
<1>8. StoreTyped' /\ DataTyped' /\ OwnerTyped' /\ RestTyped'
  BY <1>3, InvParts, StoreFrame, DataFrame, OwnerFrame, RestFrame
<1>9. HintInv' /\ KeyInv' /\ DocumentInv'
  BY <1>3, <1>4, InvParts, HintFrame, KeyFrame, DocumentFrame
<1> QED BY <1>2, <1>4, <1>5, <1>6, <1>7, <1>8, <1>9, InvPartsNext

\* A change of the control plane while requests wait.
LEMMA WitnessFrame ==
    ASSUME RequestsTyped, FoundInv, UNCHANGED req, Witness
    PROVE  RequestsTyped' /\ FoundInv'
<1>1. held' \in [Callers -> SUBSET Conditions]
      /\ \A d \in Callers : req[d].pc # "idle" => held[d] \subseteq held'[d]
  BY WitnessResult DEF RequestsTyped
<1>2. ASSUME NEW d \in Callers PROVE Found(req[d]) \subseteq held'[d]
  <2>1. CASE req[d].pc = "idle"
    BY <2>1 DEF Found
  <2>2. CASE req[d].pc # "idle"
    BY <2>2, <1>1 DEF FoundInv
  <2> QED BY <2>1, <2>2
<1>3. FoundInv'
  BY <1>2 DEF FoundInv, Found, Needs
<1> QED BY <1>1, <1>3 DEF RequestsTyped

LEMMA ControlChangeStatus ==
    ASSUME ControlTyped, ControlChange
    PROVE  StatusKept
<1> USE DEF StatusKept, ControlTyped, Leaving
<1>1. CASE \E r \in Releases : Activate(r)
  BY <1>1 DEF Activate, ModeOf
<1>2. CASE ReplacePolicy
  BY <1>2 DEF ReplacePolicy
<1>3. CASE SetPublicGate
  BY <1>3 DEF SetPublicGate
<1>4. CASE SetAppStatus
  BY <1>4 DEF SetAppStatus
<1>5. CASE SignIn
  BY <1>5 DEF SignIn
<1>6. CASE SignOut
  BY <1>6 DEF SignOut
<1> QED BY <1>1, <1>2, <1>3, <1>4, <1>5, <1>6 DEF ControlChange

LEMMA ControlChangeOK ==
    ASSUME AppDataInv, ControlChange, DataLeaves
    PROVE  AppDataInv'
<1>1. UNCHANGED req /\ Witness /\ Spend("change") /\ "change" \in Events
  BY DEF ControlChange, Events
<1>2. UNCHANGED <<db, file, handle, removed, conn, data, att, audit, applied, hinted,
                  purge, gone, sub, drawn, store, owner>>
  BY DEF DataLeaves, store, owner, deletion
<1>3. StatusKept /\ ControlTyped'
  BY InvParts, ControlChangeStatus DEF StatusKept
<1>4. RequestsTyped' /\ FoundInv' /\ BudgetTyped' /\ DataGranted'
  BY <1>1, <1>2, InvParts, WitnessFrame, SpendTyped, GrantedFrame
<1>5. RemovalInv'
  BY <1>1, <1>2, <1>3, InvParts, RemovalFrame, QuietFrame
<1>6. StoreTyped' /\ DataTyped' /\ OwnerTyped' /\ RestTyped'
  BY <1>2, InvParts, StoreFrame, DataFrame, OwnerFrame, RestFrame
<1>7. HintInv' /\ KeyInv' /\ DocumentInv'
  BY <1>2, <1>3, InvParts, HintFrame, KeyFrame, DocumentFrame
<1> QED BY <1>3, <1>4, <1>5, <1>6, <1>7, InvPartsNext

-----------------------------------------------------------------------------
(***************************************************************************)
(* What viewers do, effect by effect.                                      *)
(***************************************************************************)

\* The API request of c becomes r.
DataIs(c, r) ==
    /\ data' = [data EXCEPT ![c] = r]
    /\ r \in DataRequests
    /\ r.pc # "none" => r.op \in Mutations

LEMMA DataIsResult ==
    ASSUME DataTyped, NEW c \in Callers, NEW r, DataIs(c, r)
    PROVE  /\ DataTyped'
           /\ data'[c] = r /\ \A d \in Callers : d # c => data'[d] = data[d]
  BY DEF DataTyped, DataIs

LEMMA DataToIs ==
    ASSUME DataTyped, NEW c \in Callers, NEW pc \in {"holding", "committed"},
           data[c].pc # "none", DataTo(c, pc)
    PROVE  \E r : DataIs(c, r) /\ r.pc = pc /\ r.op = data[c].op /\ r.seen = data[c].seen
<1> DEFINE r == [data[c] EXCEPT !.pc = pc]
<1>1. data[c] \in DataRequests
  BY DEF DataTyped
<1>2. r \in DataRequests /\ r.pc = pc /\ r.op = data[c].op /\ r.seen = data[c].seen
  BY <1>1 DEF DataRequests
<1>3. data' = [data EXCEPT ![c] = r]
  BY DEF DataTo, DataTyped
<1> HIDE DEF r
<1>4. DataIs(c, r)
  BY <1>2, <1>3 DEF DataIs, DataTyped
<1> QED BY <1>2, <1>4

LEMMA DataDoneIs ==
    ASSUME DataTyped, NEW c \in Callers, DataDone(c)
    PROVE  \E r : DataIs(c, r) /\ r.pc = "none" /\ r.seen = data[c].seen
<1> DEFINE r == [data[c] EXCEPT !.pc = "none", !.op = NoMutation]
<1>1. data[c] \in DataRequests
  BY DEF DataTyped
<1>2. r \in DataRequests /\ r.pc = "none" /\ r.seen = data[c].seen
  BY <1>1 DEF DataRequests, AnyMutation
<1>3. data' = [data EXCEPT ![c] = r]
  BY DEF DataDone, DataTyped
<1> HIDE DEF r
<1>4. DataIs(c, r)
  BY <1>2, <1>3 DEF DataIs
<1> QED BY <1>2, <1>4

\* Creations under way only end, and nobody sees anything new.
PendingEnds ==
    /\ \A i \in Ids : /\ Creators(i)' \subseteq Creators(i)
                      /\ OwnerCreators(i)' \subseteq OwnerCreators(i)
    /\ \A c \in Callers :
          /\ data'[c].seen = data[c].seen
          /\ data'[c].pc \in {"admitted", "holding"} =>
               data[c].pc \in {"admitted", "holding"} /\ data'[c].op = data[c].op
    /\ UNCHANGED drawn

\* A document leaves the database, or nothing happens to it.
LEMMA DocumentsEnd ==
    ASSUME DocumentInv, PendingEnds,
           \A i \in Ids : db'.rec[i] = db.rec[i] \/ db'.rec[i] = Absent
    PROVE  DocumentInv'
<1>1. ASSUME NEW i \in Ids
      PROVE  /\ i \notin drawn' => Creators(i)' = {} /\ OwnerCreators(i)' = {}
             /\ i \notin drawn' \/ Creators(i)' # {} \/ OwnerCreators(i)' # {} =>
                  db'.rec[i] = Absent /\ \A c \in Callers : ~Seen(c, i)'
             /\ \A c, d \in Creators(i)' : c = d
             /\ \A a, b \in OwnerCreators(i)' : a = b
             /\ Creators(i)' = {} \/ OwnerCreators(i)' = {}
  <2>1. Creators(i)' \subseteq Creators(i) /\ OwnerCreators(i)' \subseteq OwnerCreators(i)
        /\ drawn' = drawn
    BY DEF PendingEnds
  <2>2. \A c \in Callers : Seen(c, i)' <=> Seen(c, i)
    BY DEF PendingEnds, Seen
  <2>3. /\ i \notin drawn => Creators(i) = {} /\ OwnerCreators(i) = {}
        /\ i \notin drawn \/ Creators(i) # {} \/ OwnerCreators(i) # {} =>
             db.rec[i] = Absent /\ \A c \in Callers : ~Seen(c, i)
        /\ \A c, d \in Creators(i) : c = d
        /\ \A a, b \in OwnerCreators(i) : a = b
        /\ Creators(i) = {} \/ OwnerCreators(i) = {}
    BY DEF DocumentInv
  <2> QED BY <2>1, <2>2, <2>3
<1>2. \A c \in Callers, i \in Ids :
        Seen(c, i)' => \/ db'.rec[i] = Absent
                       \/ db'.rec[i] = data'[c].seen.entry
                       \/ db'.rec[i].ver > data'[c].seen.entry.ver
  BY DEF DocumentInv, PendingEnds, Seen
<1>3. ASSUME NEW c \in Callers, data'[c].pc \in {"admitted", "holding"},
             data'[c].op.name \in Ids, data'[c].op.exp # NoVersion
      PROVE  /\ data'[c].op.kind # "create" /\ Seen(c, data[c].op.name)
             /\ data'[c].op.name = data[c].op.name
             /\ data'[c].seen = data[c].seen
             /\ data'[c].seen.entry.ver = data'[c].op.exp
  BY <1>3 DEF DocumentInv, PendingEnds
<1>4. \A c \in Callers :
        data'[c].pc \in {"admitted", "holding"} /\ data'[c].op.name \in Ids
          /\ data'[c].op.exp # NoVersion
        => /\ data'[c].op.kind # "create"
           /\ data'[c].seen.name = data'[c].op.name /\ data'[c].seen.entry # Absent
           /\ data'[c].seen.entry.ver = data'[c].op.exp
  BY <1>3 DEF Seen
<1> QED BY <1>1, <1>2, <1>4 DEF DocumentInv, Seen

\* A mutation is committed: a creation ends, or a document becomes its next
\* version.
LEMMA DocumentsCommit ==
    ASSUME DocumentInv, PendingEnds, StoreTyped, DataTyped,
           NEW m \in Mutations, Committed(db, m, db'),
           m.kind = "create" =>
             /\ Creators(m.name) # {} \/ OwnerCreators(m.name) # {}
             /\ Creators(m.name)' = {} /\ OwnerCreators(m.name)' = {}
    PROVE  DocumentInv'
<1>1. PICK e \in Entries \cup {Absent} :
        /\ db'.rec = [db.rec EXCEPT ![m.name] = e]
        /\ m.name \in Ids => Replaces(db, m, e)
  BY DEF Committed
<1>2. db.rec \in [Names -> Entries \cup {Absent}] /\ m.name \in Names
  BY DatabaseParts DEF StoreTyped, Mutations, Names
<1>3. \A n \in Names : db'.rec[n] = IF n = m.name THEN e ELSE db.rec[n]
  BY <1>1, <1>2
<1>4. Ids \subseteq Names
  BY DEF Names
<1>5. m.name \in Ids /\ m.kind # "create" =>
        db.rec[m.name] # Absent /\ (e # Absent => e.ver = db.rec[m.name].ver + 1)
  BY <1>1 DEF Replaces
<1>6. ASSUME NEW i \in Ids
      PROVE  /\ i \notin drawn' => Creators(i)' = {} /\ OwnerCreators(i)' = {}
             /\ i \notin drawn' \/ Creators(i)' # {} \/ OwnerCreators(i)' # {} =>
                  db'.rec[i] = Absent /\ \A c \in Callers : ~Seen(c, i)'
             /\ \A c, d \in Creators(i)' : c = d
             /\ \A a, b \in OwnerCreators(i)' : a = b
             /\ Creators(i)' = {} \/ OwnerCreators(i)' = {}
  <2>1. Creators(i)' \subseteq Creators(i) /\ OwnerCreators(i)' \subseteq OwnerCreators(i)
        /\ drawn' = drawn
    BY DEF PendingEnds
  <2>2. \A c \in Callers : Seen(c, i)' <=> Seen(c, i)
    BY DEF PendingEnds, Seen
  <2>3. /\ i \notin drawn => Creators(i) = {} /\ OwnerCreators(i) = {}
        /\ i \notin drawn \/ Creators(i) # {} \/ OwnerCreators(i) # {} =>
             db.rec[i] = Absent /\ \A c \in Callers : ~Seen(c, i)
        /\ \A c, d \in Creators(i) : c = d
        /\ \A a, b \in OwnerCreators(i) : a = b
        /\ Creators(i) = {} \/ OwnerCreators(i) = {}
    BY DEF DocumentInv
  <2>4. CASE i # m.name
    BY <2>1, <2>2, <2>3, <2>4, <1>3, <1>4
  <2>5. CASE i = m.name /\ m.kind = "create"
    BY <2>1, <2>2, <2>3, <2>5
  <2>6. CASE i = m.name /\ m.kind # "create"
    BY <2>1, <2>2, <2>3, <2>6, <1>5
  <2> QED BY <2>4, <2>5, <2>6
<1>7. ASSUME NEW c \in Callers, NEW i \in Ids, Seen(c, i)
      PROVE  \/ db'.rec[i] = Absent
             \/ db'.rec[i] = data[c].seen.entry
             \/ db'.rec[i].ver > data[c].seen.entry.ver
  <2>1. \/ db.rec[i] = Absent
        \/ db.rec[i] = data[c].seen.entry
        \/ db.rec[i].ver > data[c].seen.entry.ver
    BY <1>7 DEF DocumentInv
  <2>2. CASE i # m.name
    BY <2>1, <2>2, <1>3, <1>4
  <2>3. CASE i = m.name /\ m.kind = "create"
    BY <1>7, <2>3 DEF DocumentInv
  <2>4. CASE i = m.name /\ m.kind # "create" /\ e = Absent
    BY <2>4, <1>3, <1>4
  <2>5. CASE i = m.name /\ m.kind # "create" /\ e # Absent
    <3>1. db'.rec[i] = e /\ db.rec[i] # Absent /\ e.ver = db.rec[i].ver + 1
      BY <2>5, <1>3, <1>4, <1>5
    <3>2. db.rec[i] \in Entries /\ data[c].seen.entry \in Entries
      BY <3>1, <1>2, <1>4, <1>7 DEF DataTyped, DataRequests, Seen
    <3>3. db.rec[i].ver \in Nat /\ data[c].seen.entry.ver \in Nat
      BY <3>2 DEF Entries
    <3> QED BY <2>1, <3>1, <3>3
  <2> QED BY <2>2, <2>3, <2>4, <2>5
<1>8. \A c \in Callers, i \in Ids :
        Seen(c, i)' => \/ db'.rec[i] = Absent
                       \/ db'.rec[i] = data'[c].seen.entry
                       \/ db'.rec[i].ver > data'[c].seen.entry.ver
  BY <1>7 DEF PendingEnds, Seen
<1>9. ASSUME NEW c \in Callers, data'[c].pc \in {"admitted", "holding"},
             data'[c].op.name \in Ids, data'[c].op.exp # NoVersion
      PROVE  /\ data'[c].op.kind # "create" /\ Seen(c, data[c].op.name)
             /\ data'[c].op.name = data[c].op.name
             /\ data'[c].seen = data[c].seen
             /\ data'[c].seen.entry.ver = data'[c].op.exp
  BY <1>9 DEF DocumentInv, PendingEnds
<1>10. \A c \in Callers :
        data'[c].pc \in {"admitted", "holding"} /\ data'[c].op.name \in Ids
          /\ data'[c].op.exp # NoVersion
        => /\ data'[c].op.kind # "create"
           /\ data'[c].seen.name = data'[c].op.name /\ data'[c].seen.entry # Absent
           /\ data'[c].seen.entry.ver = data'[c].op.exp
  BY <1>9 DEF Seen
<1> QED BY <1>6, <1>8, <1>10 DEF DocumentInv, Seen

\* Opening the database while somebody is left who may.
LEMMA OpenedKeeps ==
    ASSUME RemovalInv, Opened, ~Quiet \/ ~Leaving, StatusKept, UNCHANGED <<purge, gone>>
    PROVE  RemovalInv'
<1>1. ~removed /\ removed' = removed
  BY DEF Opened, Acquire
<1>2. ~gone
  BY <1>1 DEF RemovalInv
<1> QED BY <1>1, <1>2 DEF RemovalInv, StatusKept

LEMMA OpenedTyped ==
    ASSUME StoreTyped, Opened, UNCHANGED <<db, gone>>, conn' \in {None, "list"}
    PROVE  StoreTyped'
  BY DEF StoreTyped, Opened, Acquire

LEMMA RevisionIsNat ==
    ASSUME NEW d \in Databases
    PROVE  d.rev[Watched] \in Nat
  BY DatabaseParts, WatchedType

LEMMA HintPublished ==
    ASSUME HintInv, StoreTyped, RestTyped, NEW m, PublishHint(m), UNCHANGED db, StatusKept,
           UNCHANGED <<purge, drawn>>
    PROVE  HintInv' /\ RestTyped'
<1>1. db.rev[Watched] \in Nat
  BY RevisionIsNat DEF StoreTyped
<1>2. CASE sub' = sub
  BY <1>2, HintFrame, RestFrame
<1>3. CASE sub' = [sub EXCEPT !.hints = @ \cup {db.rev[Watched]}]
  <2>1. sub \in Browsers
    BY DEF RestTyped
  <2>2. /\ sub' \in Browsers
        /\ sub'.hints = sub.hints \cup {db.rev[Watched]}
        /\ sub'.heard = sub.heard /\ sub'.snap = sub.snap /\ sub'.dirty = sub.dirty
        /\ sub'.read = sub.read /\ sub'.view = sub.view /\ sub'.failed = sub.failed
    BY <1>1, <1>3, <2>1 DEF Browsers
  <2>3. RestTyped'
    BY <2>2 DEF RestTyped
  <2>4. HintInv'
    BY <1>1, <2>2 DEF HintInv, HintsAreSeen, StatusKept
  <2> QED BY <2>3, <2>4
<1> QED BY <1>2, <1>3 DEF PublishHint

LEMMA HintCommitted ==
    ASSUME HintInv, RestTyped, StoreTyped, db' \in Databases,
           db.rev[Watched] <= db'.rev[Watched], UNCHANGED sub, StatusKept
    PROVE  HintInv'
<1>1. db.rev[Watched] \in Nat /\ db'.rev[Watched] \in Nat
  BY RevisionIsNat DEF StoreTyped
<1>2. sub.heard \in Nat /\ sub.hints \subseteq Nat
  BY DEF RestTyped, Browsers
<1> QED BY <1>1, <1>2 DEF HintInv, HintsAreSeen, StatusKept

LEMMA ViewerPendingEnds ==
    ASSUME DataTyped, NEW c \in Callers, NEW r, DataIs(c, r), UNCHANGED <<att, drawn>>,
           r.seen = data[c].seen,
           r.pc \in {"admitted", "holding"} =>
             data[c].pc \in {"admitted", "holding"} /\ r.op = data[c].op
    PROVE  PendingEnds
<1>1. data'[c] = r /\ \A d \in Callers : d # c => data'[d] = data[d]
  BY DataIsResult
<1> QED BY <1>1 DEF PendingEnds, Creators, OwnerCreators

-----------------------------------------------------------------------------
(***************************************************************************)
(* Viewers.                                                                *)
(***************************************************************************)

\* The end of a granted request.
LEMMA FinishResult ==
    ASSUME AppDataInv, NEW c \in Callers, Granted(c), NEW pc \in {"served", "denied"},
           Finish(c, pc), data'[c].pc = "none",
           \A d \in Callers : d # c => data'[d] = data[d]
    PROVE  /\ RequestsTyped' /\ FoundInv' /\ DataGranted' /\ BudgetTyped'
           /\ StatusKept /\ ControlTyped' /\ ~Quiet
<1>1. RequestTo(c, pc) /\ RequestStep /\ req[c].pc = "granted"
  BY DEF Finish, RequestStep, Granted
<1>2. PICK r : Answers(c, r)
  BY <1>1, InvParts, EndAnswers
<1>3. UNCHANGED control /\ UNCHANGED budget
  BY DEF Finish
<1>4. StatusKept /\ ControlTyped' /\ BudgetTyped'
  BY <1>3, InvParts, ControlFrame, BudgetFrame DEF StatusKept
<1> QED BY <1>1, <1>2, <1>4, InvParts, AnswersResult, AnswersGranted DEF Quiet

LEMMA RefuseOK ==
    ASSUME AppDataInv, NEW c \in Callers, Refuse(c)
    PROVE  AppDataInv'
<1>1. Granted(c) /\ Finish(c, "denied") /\ data[c].pc = "none" /\ UNCHANGED data
  BY DEF Refuse
<1>2. UNCHANGED <<db, file, handle, removed, conn, store, att, owner, purge, gone, sub, drawn>>
  BY DEF Refuse, Others, store, owner, deletion
<1>3. /\ RequestsTyped' /\ FoundInv' /\ DataGranted' /\ BudgetTyped'
      /\ StatusKept /\ ControlTyped' /\ ~Quiet
  BY <1>1, FinishResult
<1>4. StoreTyped' /\ DataTyped' /\ OwnerTyped' /\ RestTyped'
  BY <1>1, <1>2, InvParts, StoreFrame, DataFrame, OwnerFrame, RestFrame
<1>5. RemovalInv' /\ HintInv' /\ KeyInv' /\ DocumentInv'
  BY <1>1, <1>2, <1>3, InvParts, RemovalFrame, HintFrame, KeyFrame, DocumentFrame
<1> QED BY <1>3, <1>4, <1>5, InvPartsNext

\* What a viewer reads is what the database holds.
LEMMA ReadDocuments ==
    ASSUME DocumentInv, NEW c \in Callers, data[c].pc = "none", NEW n, NEW r,
           data'[c] = r, r.pc = "none", r.seen = [name |-> n, entry |-> db.rec[n]],
           \A d \in Callers : d # c => data'[d] = data[d],
           UNCHANGED <<db, att, drawn>>
    PROVE  DocumentInv'
<1>1. ASSUME NEW i \in Ids
      PROVE  Creators(i)' = Creators(i) /\ OwnerCreators(i)' = OwnerCreators(i)
  BY DEF Creators, OwnerCreators
<1>2. ASSUME NEW d \in Callers, NEW i \in Ids
      PROVE  /\ d # c => (Seen(d, i)' <=> Seen(d, i))
             /\ Seen(c, i)' => i = n /\ db.rec[i] # Absent /\ data'[c].seen.entry = db.rec[i]
  BY DEF Seen
<1>3. ASSUME NEW i \in Ids
      PROVE  /\ i \notin drawn' => Creators(i)' = {} /\ OwnerCreators(i)' = {}
             /\ i \notin drawn' \/ Creators(i)' # {} \/ OwnerCreators(i)' # {} =>
                  db'.rec[i] = Absent /\ \A d \in Callers : ~Seen(d, i)'
             /\ \A d, e \in Creators(i)' : d = e
             /\ \A a, b \in OwnerCreators(i)' : a = b
             /\ Creators(i)' = {} \/ OwnerCreators(i)' = {}
  <2>1. /\ i \notin drawn => Creators(i) = {} /\ OwnerCreators(i) = {}
        /\ i \notin drawn \/ Creators(i) # {} \/ OwnerCreators(i) # {} =>
             db.rec[i] = Absent /\ \A d \in Callers : ~Seen(d, i)
        /\ \A d, e \in Creators(i) : d = e
        /\ \A a, b \in OwnerCreators(i) : a = b
        /\ Creators(i) = {} \/ OwnerCreators(i) = {}
    BY DEF DocumentInv
  <2> QED BY <1>1, <1>2, <2>1
<1>4. ASSUME NEW d \in Callers, NEW i \in Ids, Seen(d, i)'
      PROVE  \/ db'.rec[i] = Absent
             \/ db'.rec[i] = data'[d].seen.entry
             \/ db'.rec[i].ver > data'[d].seen.entry.ver
  <2>1. CASE d = c
    BY <1>2, <1>4, <2>1
  <2>2. CASE d # c
    BY <1>2, <1>4, <2>2 DEF DocumentInv
  <2> QED BY <2>1, <2>2
<1>5. ASSUME NEW d \in Callers, data'[d].pc \in {"admitted", "holding"}
      PROVE  d # c
  BY <1>5
<1>6. \A d \in Callers :
        data'[d].pc \in {"admitted", "holding"} /\ data'[d].op.name \in Ids
          /\ data'[d].op.exp # NoVersion
        => /\ data'[d].op.kind # "create"
           /\ data'[d].seen.name = data'[d].op.name /\ data'[d].seen.entry # Absent
           /\ data'[d].seen.entry.ver = data'[d].op.exp
  BY <1>5 DEF DocumentInv, Seen
<1> QED BY <1>3, <1>4, <1>6 DEF DocumentInv, Seen

LEMMA ReadOK ==
    ASSUME AppDataInv, NEW c \in Callers, Read(c)
    PROVE  AppDataInv'
<1>1. /\ Granted(c) /\ Finish(c, "served") /\ data[c].pc = "none" /\ Opened
      /\ UNCHANGED <<db, conn, att, owner, purge, gone, sub, drawn>>
  BY DEF Read, Others, owner, deletion
<1>2. PICK n \in Names :
        data' = [data EXCEPT ![c].seen = [name |-> n, entry |-> db.rec[n]]]
  BY DEF Read, KVGet, GetDocument, Names
<1> DEFINE r == [data[c] EXCEPT !.seen = [name |-> n, entry |-> db.rec[n]]]
<1>3. db.rec[n] \in Entries \cup {Absent} /\ data[c] \in DataRequests
  BY InvParts, DatabaseParts DEF StoreTyped, DataTyped
<1>4. r \in DataRequests /\ r.pc = "none" /\ r.seen = [name |-> n, entry |-> db.rec[n]]
  BY <1>1, <1>3 DEF DataRequests
<1>5. data' = [data EXCEPT ![c] = r]
  BY <1>2, InvParts DEF DataTyped
<1> HIDE DEF r
<1>6. DataIs(c, r)
  BY <1>4, <1>5 DEF DataIs
<1>7. DataTyped' /\ data'[c] = r /\ \A d \in Callers : d # c => data'[d] = data[d]
  BY <1>6, InvParts, DataIsResult
<1>8. /\ RequestsTyped' /\ FoundInv' /\ DataGranted' /\ BudgetTyped'
      /\ StatusKept /\ ControlTyped' /\ ~Quiet
  BY <1>1, <1>4, <1>7, FinishResult
<1>9. DocumentInv'
  BY <1>1, <1>4, <1>7, InvParts, ReadDocuments
<1>10. StoreTyped' /\ OwnerTyped' /\ RestTyped'
  BY <1>1, InvParts, OpenedTyped, OwnerFrame, RestFrame DEF StoreTyped
<1>11. RemovalInv' /\ HintInv' /\ KeyInv'
  BY <1>1, <1>8, InvParts, OpenedKeeps, HintFrame, KeyFrame
<1> QED BY <1>7, <1>8, <1>9, <1>10, <1>11, InvPartsNext

\* What is admitted: the creation of a fresh document, or a change that expects
\* no version or the one that was read.
Admissible(c, op) ==
    /\ op \in Mutations
    /\ \/ /\ op.kind = "create" /\ op.exp = NoVersion
          /\ op.name \in Ids \ drawn /\ drawn' = drawn \cup {op.name}
       \/ /\ op.kind # "create" /\ drawn' = drawn
          /\ op.name \in Ids /\ op.exp # NoVersion =>
               Seen(c, op.name) /\ data[c].seen.entry.ver = op.exp

LEMMA ExpectedSeen ==
    ASSUME DataTyped, NEW c \in Callers, NEW n, NEW exp \in Expected(c, n)
    PROVE  exp \in Nat /\ (exp # NoVersion => Seen(c, n) /\ data[c].seen.entry.ver = exp)
<1>1. CASE exp = NoVersion
  BY <1>1 DEF NoVersion
<1>2. CASE exp # NoVersion
  <2>1. Seen(c, n) /\ exp = data[c].seen.entry.ver
    BY <1>2 DEF Expected, Seen
  <2>2. data[c].seen.entry \in Entries
    BY <2>1 DEF DataTyped, DataRequests, Seen
  <2> QED BY <2>1, <2>2 DEF Entries
<1> QED BY <1>1, <1>2

LEMMA AdmitOp ==
    ASSUME DataTyped, RestTyped, NEW c \in Callers, Admit(c)
    PROVE  \E op : /\ Admissible(c, op)
                   /\ data' = [data EXCEPT ![c].pc = "admitted", ![c].op = op]
<1>1. CASE KeyMutation(c)
  <2>1. PICK k \in Keys, exp \in UNION {Expected(c, n) : n \in Keys} :
          /\ exp \in Expected(c, k)
          /\ \/ \E v \in Values :
                  data' = [data EXCEPT ![c].pc = "admitted",
                             ![c].op = [kind |-> "set", name |-> k, val |-> v,
                                        exp |-> exp]]
             \/ data' = [data EXCEPT ![c].pc = "admitted",
                           ![c].op = [kind |-> "delete", name |-> k, val |-> 0,
                                      exp |-> exp]]
          /\ UNCHANGED drawn
    BY <1>1 DEF KeyMutation
  <2>2. exp \in Nat /\ k \notin Ids /\ k \in Names
    BY <2>1, ExpectedSeen, NamesDiffer DEF Names
  <2>3. ASSUME NEW v \in Values
        PROVE  Admissible(c, [kind |-> "set", name |-> k, val |-> v, exp |-> exp])
    BY <2>1, <2>2 DEF Admissible, Mutations
  <2>4. Admissible(c, [kind |-> "delete", name |-> k, val |-> 0, exp |-> exp])
    BY <2>1, <2>2 DEF Admissible, Mutations
  <2> QED BY <2>1, <2>3, <2>4
<1>2. CASE NewDocument(c)
  <2>1. PICK i \in Ids \ drawn, v \in Values :
          /\ data' = [data EXCEPT ![c].pc = "admitted",
                        ![c].op = [kind |-> "create", name |-> i, val |-> v,
                                   exp |-> NoVersion]]
          /\ drawn' = drawn \cup {i}
    BY <1>2 DEF NewDocument
  <2>2. Admissible(c, [kind |-> "create", name |-> i, val |-> v, exp |-> NoVersion])
    BY <2>1 DEF Admissible, Mutations, NoVersion
  <2> QED BY <2>1, <2>2
<1>3. CASE DocumentMutation(c)
  <2>1. PICK i \in drawn, exp \in UNION {Expected(c, n) : n \in drawn} :
          /\ exp \in Expected(c, i)
          /\ \/ \E v \in Values :
                  data' = [data EXCEPT ![c].pc = "admitted",
                             ![c].op = [kind |-> "update", name |-> i, val |-> v,
                                        exp |-> exp]]
             \/ data' = [data EXCEPT ![c].pc = "admitted",
                           ![c].op = [kind |-> "delete", name |-> i, val |-> 0,
                                      exp |-> exp]]
          /\ UNCHANGED drawn
    BY <1>3 DEF DocumentMutation
  <2>2. exp \in Nat /\ (exp # NoVersion => Seen(c, i) /\ data[c].seen.entry.ver = exp)
    BY <2>1, ExpectedSeen
  <2>3. i \in Ids /\ i \in Names
    BY DEF RestTyped, Names
  <2>4. ASSUME NEW v \in Values
        PROVE  Admissible(c, [kind |-> "update", name |-> i, val |-> v, exp |-> exp])
    BY <2>1, <2>2, <2>3 DEF Admissible, Mutations
  <2>5. Admissible(c, [kind |-> "delete", name |-> i, val |-> 0, exp |-> exp])
    BY <2>1, <2>2, <2>3 DEF Admissible, Mutations
  <2> QED BY <2>1, <2>4, <2>5
<1> QED BY <1>1, <1>2, <1>3 DEF Admit

LEMMA AdmitDocuments ==
    ASSUME DocumentInv, RestTyped, NEW c \in Callers, data[c].pc = "none", NEW op,
           Admissible(c, op), NEW r, data'[c] = r, r.pc = "admitted", r.op = op,
           r.seen = data[c].seen,
           \A d \in Callers : d # c => data'[d] = data[d],
           UNCHANGED <<db, att>>
    PROVE  DocumentInv'
<1>1. /\ \A d \in Callers, i \in Ids : Seen(d, i)' <=> Seen(d, i)
      /\ \A d \in Callers : data'[d].seen = data[d].seen
  BY DEF Seen
<1>2. ASSUME NEW i \in Ids
      PROVE  /\ OwnerCreators(i)' = OwnerCreators(i)
             /\ Creators(i)' = IF op.kind = "create" /\ op.name = i
                               THEN Creators(i) \cup {c} ELSE Creators(i)
  BY DEF Creators, OwnerCreators
<1>3. ASSUME NEW i \in Ids
      PROVE  /\ i \notin drawn' => Creators(i)' = {} /\ OwnerCreators(i)' = {}
             /\ i \notin drawn' \/ Creators(i)' # {} \/ OwnerCreators(i)' # {} =>
                  db'.rec[i] = Absent /\ \A d \in Callers : ~Seen(d, i)'
             /\ \A d, e \in Creators(i)' : d = e
             /\ \A a, b \in OwnerCreators(i)' : a = b
             /\ Creators(i)' = {} \/ OwnerCreators(i)' = {}
  <2>1. /\ i \notin drawn => Creators(i) = {} /\ OwnerCreators(i) = {}
        /\ i \notin drawn \/ Creators(i) # {} \/ OwnerCreators(i) # {} =>
             db.rec[i] = Absent /\ \A d \in Callers : ~Seen(d, i)
        /\ \A d, e \in Creators(i) : d = e
        /\ \A a, b \in OwnerCreators(i) : a = b
        /\ Creators(i) = {} \/ OwnerCreators(i) = {}
    BY DEF DocumentInv
  <2>2. CASE op.kind = "create" /\ op.name = i
    <3>1. i \notin drawn /\ i \in drawn'
      BY <2>2 DEF Admissible
    <3> QED BY <1>1, <1>2, <2>1, <2>2, <3>1
  <2>3. CASE ~(op.kind = "create" /\ op.name = i)
    <3>1. i \notin drawn' => i \notin drawn
      BY <2>3 DEF Admissible
    <3> QED BY <1>1, <1>2, <2>1, <2>3, <3>1
  <2> QED BY <2>2, <2>3
<1>4. \A d \in Callers, i \in Ids :
        Seen(d, i)' => \/ db'.rec[i] = Absent
                       \/ db'.rec[i] = data'[d].seen.entry
                       \/ db'.rec[i].ver > data'[d].seen.entry.ver
  BY <1>1 DEF DocumentInv
<1>5. ASSUME NEW d \in Callers, data'[d].pc \in {"admitted", "holding"},
             data'[d].op.name \in Ids, data'[d].op.exp # NoVersion
      PROVE  /\ data'[d].op.kind # "create"
             /\ Seen(d, data'[d].op.name) /\ data[d].seen.entry.ver = data'[d].op.exp
  <2>1. CASE d = c
    BY <1>5, <2>1 DEF Admissible
  <2>2. CASE d # c
    BY <1>5, <2>2 DEF DocumentInv
  <2> QED BY <2>1, <2>2
<1>6. \A d \in Callers :
        data'[d].pc \in {"admitted", "holding"} /\ data'[d].op.name \in Ids
          /\ data'[d].op.exp # NoVersion
        => /\ data'[d].op.kind # "create"
           /\ data'[d].seen.name = data'[d].op.name /\ data'[d].seen.entry # Absent
           /\ data'[d].seen.entry.ver = data'[d].op.exp
  BY <1>1, <1>5 DEF Seen
<1> QED BY <1>3, <1>4, <1>6 DEF DocumentInv, Seen

LEMMA AdmitOK ==
    ASSUME AppDataInv, NEW c \in Callers, Admit(c)
    PROVE  AppDataInv'
<1>1. /\ Granted(c) /\ data[c].pc = "none"
      /\ UNCHANGED <<control, req, held, budget, store, db, file, removed, att, owner,
                     purge, gone, sub>>
  BY DEF Admit, Others, owner, deletion, store
<1>2. PICK op : /\ Admissible(c, op)
                /\ data' = [data EXCEPT ![c].pc = "admitted", ![c].op = op]
  BY InvParts, AdmitOp
<1> DEFINE r == [data[c] EXCEPT !.pc = "admitted", !.op = op]
<1>3. op \in Mutations /\ data[c] \in DataRequests
  BY <1>2, InvParts DEF Admissible, DataTyped
<1>4. r \in DataRequests /\ r.pc = "admitted" /\ r.op = op /\ r.seen = data[c].seen
  BY <1>3 DEF DataRequests, AnyMutation
<1>5. data' = [data EXCEPT ![c] = r]
  BY <1>2, InvParts DEF DataTyped
<1> HIDE DEF r
<1>6. DataIs(c, r)
  BY <1>3, <1>4, <1>5 DEF DataIs
<1>7. DataTyped' /\ data'[c] = r /\ \A d \in Callers : d # c => data'[d] = data[d]
  BY <1>6, InvParts, DataIsResult
<1>8. StatusKept /\ ControlTyped' /\ BudgetTyped' /\ RequestsTyped' /\ FoundInv'
  BY <1>1, InvParts, ControlFrame, BudgetFrame, RequestsFrame DEF StatusKept
<1>9. DataGranted'
  BY <1>1, <1>7, InvParts DEF DataGranted, Granted
<1>10. DocumentInv'
  BY <1>1, <1>2, <1>4, <1>7, InvParts, AdmitDocuments
<1>11. drawn' \subseteq Ids
  BY <1>2, InvParts DEF Admissible, RestTyped
<1>12. StoreTyped' /\ OwnerTyped' /\ RestTyped'
  BY <1>1, <1>11, InvParts, StoreFrame, OwnerFrame DEF RestTyped
<1>13. RemovalInv' /\ HintInv' /\ KeyInv'
  BY <1>1, <1>8, InvParts, RemovalFrame, QuietFrame, HintFrame, KeyFrame
<1> QED BY <1>7, <1>8, <1>9, <1>10, <1>12, <1>13, InvPartsNext

LEMMA HoldOK ==
    ASSUME AppDataInv, NEW c \in Callers, Hold(c)
    PROVE  AppDataInv'
<1>1. /\ data[c].pc = "admitted"
      /\ UNCHANGED <<db, conn, sub, drawn, att, owner, purge, gone>>
  BY DEF Hold, Others, owner, deletion
<1>2. Granted(c)
  BY <1>1, InvParts DEF DataGranted
<1>3. CASE Opened /\ DataTo(c, "holding") /\ UNCHANGED <<control, req, held, budget>>
  <2>1. PICK r : DataIs(c, r) /\ r.pc = "holding" /\ r.op = data[c].op /\ r.seen = data[c].seen
    BY <1>1, <1>3, InvParts, DataToIs
  <2>2. DataTyped' /\ data'[c] = r /\ \A d \in Callers : d # c => data'[d] = data[d]
    BY <2>1, InvParts, DataIsResult
  <2>3. StatusKept /\ ControlTyped' /\ BudgetTyped' /\ RequestsTyped' /\ FoundInv'
    BY <1>3, InvParts, ControlFrame, BudgetFrame, RequestsFrame DEF StatusKept
  <2>4. DataGranted'
    BY <1>2, <1>3, <2>2, InvParts DEF DataGranted, Granted
  <2>5. PendingEnds
    BY <1>1, <2>1, InvParts, ViewerPendingEnds
  <2>6. DocumentInv'
    BY <1>1, <2>5, InvParts, DocumentsEnd
  <2>7. StoreTyped' /\ OwnerTyped' /\ RestTyped'
    BY <1>1, <1>3, InvParts, OpenedTyped, OwnerFrame, RestFrame DEF StoreTyped
  <2>8. ~Quiet
    BY <1>2 DEF Granted, Quiet
  <2>9. RemovalInv' /\ HintInv' /\ KeyInv'
    BY <1>1, <1>3, <2>3, <2>8, InvParts, OpenedKeeps, HintFrame, KeyFrame
  <2> QED BY <2>2, <2>3, <2>4, <2>6, <2>7, <2>9, InvPartsNext
<1>4. CASE UNCHANGED <<file, handle, removed>> /\ DataDone(c) /\ Finish(c, "denied")
  <2>1. PICK r : DataIs(c, r) /\ r.pc = "none" /\ r.seen = data[c].seen
    BY <1>4, InvParts, DataDoneIs
  <2>2. DataTyped' /\ data'[c] = r /\ \A d \in Callers : d # c => data'[d] = data[d]
    BY <2>1, InvParts, DataIsResult
  <2>3. /\ RequestsTyped' /\ FoundInv' /\ DataGranted' /\ BudgetTyped'
        /\ StatusKept /\ ControlTyped' /\ ~Quiet
    BY <1>2, <1>4, <2>1, <2>2, FinishResult
  <2>4. PendingEnds
    BY <1>1, <2>1, InvParts, ViewerPendingEnds
  <2>5. DocumentInv'
    BY <1>1, <2>4, InvParts, DocumentsEnd
  <2>6. StoreTyped' /\ OwnerTyped' /\ RestTyped'
    BY <1>1, <1>4, InvParts, StoreFrame, OwnerFrame, RestFrame DEF store
  <2>7. RemovalInv' /\ HintInv' /\ KeyInv'
    BY <1>1, <1>4, <2>3, InvParts, RemovalFrame, HintFrame, KeyFrame
  <2> QED BY <2>2, <2>3, <2>5, <2>6, <2>7, InvPartsNext
<1> QED BY <1>3, <1>4 DEF Hold

\* A transaction on the store keeps it well formed and its revisions grow.
LEMMA StoreCommits ==
    ASSUME StoreTyped, RestTyped, HintInv, NEW m \in Mutations, db' = Apply(db, m).db,
           UNCHANGED <<file, handle, removed, conn, gone, sub>>, StatusKept
    PROVE  /\ StoreTyped' /\ HintInv'
           /\ IF Apply(db, m).out = "ok" THEN Committed(db, m, db') ELSE db' = db
<1>1. StoreResult(db, m, Apply(db, m))
  BY ApplyResult DEF StoreTyped
<1>2. /\ db' \in Databases /\ db.rev[Watched] <= db'.rev[Watched]
      /\ IF Apply(db, m).out = "ok" THEN Committed(db, m, db') ELSE db' = db
  BY <1>1, WatchedType DEF StoreResult
<1>3. HintInv'
  BY <1>2, HintCommitted
<1> QED BY <1>2, <1>3 DEF StoreTyped

\* A creation ends with the call that creates.
LEMMA CreationEnds ==
    ASSUME DocumentInv, NEW c \in Callers, data[c].pc = "holding", NEW i \in Ids,
           data[c].op.kind = "create", data[c].op.name = i,
           data'[c].pc \notin {"admitted", "holding"}, PendingEnds
    PROVE  Creators(i) # {} /\ Creators(i)' = {} /\ OwnerCreators(i)' = {}
<1>1. c \in Creators(i) /\ c \notin Creators(i)'
  BY DEF Creators
<1>2. /\ \A d, e \in Creators(i) : d = e
      /\ Creators(i) = {} \/ OwnerCreators(i) = {}
      /\ Creators(i)' \subseteq Creators(i) /\ OwnerCreators(i)' \subseteq OwnerCreators(i)
  BY DEF DocumentInv, PendingEnds
<1> QED BY <1>1, <1>2

LEMMA CommitOK ==
    ASSUME AppDataInv, NEW c \in Callers, Commit(c)
    PROVE  AppDataInv'
<1>1. /\ data[c].pc = "holding"
      /\ UNCHANGED <<file, handle, removed, conn, att, owner, purge, gone, sub, drawn>>
  BY DEF Commit, Others, owner, deletion
<1>2. Granted(c)
  BY <1>1, InvParts DEF DataGranted
<1>3. PICK m \in Mutations : m = data[c].op
  BY <1>1, InvParts DEF DataTyped
<1> DEFINE res == Apply(db, m)
<1>4. /\ db' = res.db
      /\ \/ /\ res.out = "ok" /\ DataTo(c, "committed")
            /\ UNCHANGED <<control, req, held, budget>>
         \/ /\ res.out # "ok" /\ DataDone(c)
            /\ Finish(c, IF res.out = "missing" THEN "served" ELSE "denied")
  BY <1>3 DEF Commit
<1> HIDE DEF res
<1>5. ASSUME StatusKept
      PROVE  /\ StoreTyped' /\ HintInv'
             /\ IF res.out = "ok" THEN Committed(db, m, db') ELSE db' = db
  <2>1. UNCHANGED <<file, handle, removed, conn, gone, sub>> /\ db' = Apply(db, m).db
    BY <1>1, <1>4 DEF res
  <2>2. StoreTyped /\ RestTyped /\ HintInv
    BY InvParts
  <2> QED BY <1>5, <2>1, <2>2, StoreCommits DEF res
<1>6. OwnerTyped' /\ RestTyped'
  BY <1>1, InvParts, OwnerFrame, RestFrame
<1>7. ~Quiet
  BY <1>2 DEF Granted, Quiet
<1>8. CASE res.out = "ok" /\ DataTo(c, "committed") /\ UNCHANGED <<control, req, held, budget>>
  <2>1. PICK r : DataIs(c, r) /\ r.pc = "committed" /\ r.op = data[c].op /\ r.seen = data[c].seen
    BY <1>1, <1>8, InvParts, DataToIs
  <2>2. DataTyped' /\ data'[c] = r /\ \A d \in Callers : d # c => data'[d] = data[d]
    BY <2>1, InvParts, DataIsResult
  <2>3. StatusKept /\ ControlTyped' /\ BudgetTyped' /\ RequestsTyped' /\ FoundInv'
    BY <1>8, InvParts, ControlFrame, BudgetFrame, RequestsFrame DEF StatusKept
  <2>4. DataGranted'
    BY <1>2, <1>8, <2>2, InvParts DEF DataGranted, Granted
  <2>5. PendingEnds
    BY <1>1, <2>1, InvParts, ViewerPendingEnds
  <2>6. StoreTyped' /\ HintInv' /\ Committed(db, m, db')
    BY <1>5, <1>8, <2>3
  <2>7. m.kind = "create" =>
          Creators(m.name) # {} /\ Creators(m.name)' = {} /\ OwnerCreators(m.name)' = {}
    <3>1. data'[c].pc \notin {"admitted", "holding"}
      BY <2>1, <2>2
    <3>2. m.kind = "create" => m.name \in Ids
      BY DEF Mutations
    <3> QED BY <1>1, <1>3, <2>5, <3>1, <3>2, InvParts, CreationEnds
  <2>8. DocumentInv'
    BY <2>5, <2>6, <2>7, InvParts, DocumentsCommit
  <2>9. RemovalInv' /\ KeyInv'
    BY <1>1, <1>7, <2>3, InvParts, RemovalFrame, KeyFrame
  <2> QED BY <1>6, <2>2, <2>3, <2>4, <2>6, <2>8, <2>9, InvPartsNext
<1>9. CASE /\ res.out # "ok" /\ DataDone(c)
           /\ Finish(c, IF res.out = "missing" THEN "served" ELSE "denied")
  <2>1. PICK r : DataIs(c, r) /\ r.pc = "none" /\ r.seen = data[c].seen
    BY <1>9, InvParts, DataDoneIs
  <2>2. DataTyped' /\ data'[c] = r /\ \A d \in Callers : d # c => data'[d] = data[d]
    BY <2>1, InvParts, DataIsResult
  <2>3. PICK pc \in {"served", "denied"} : Finish(c, pc)
    BY <1>9
  <2>4. /\ RequestsTyped' /\ FoundInv' /\ DataGranted' /\ BudgetTyped'
        /\ StatusKept /\ ControlTyped'
    BY <1>2, <2>1, <2>2, <2>3, FinishResult
  <2>5. StoreTyped' /\ HintInv' /\ db' = db
    BY <1>5, <1>9, <2>4
  <2>6. PendingEnds
    BY <1>1, <2>1, InvParts, ViewerPendingEnds
  <2>7. DocumentInv'
    BY <2>5, <2>6, InvParts, DocumentsEnd
  <2>8. RemovalInv' /\ KeyInv'
    BY <1>1, <1>7, <2>4, InvParts, RemovalFrame, KeyFrame
  <2> QED BY <1>6, <2>2, <2>4, <2>5, <2>7, <2>8, InvPartsNext
<1> QED BY <1>4, <1>8, <1>9

LEMMA PublishOK ==
    ASSUME AppDataInv, NEW c \in Callers, Publish(c)
    PROVE  AppDataInv'
<1>1. /\ data[c].pc = "committed" /\ PublishHint(data[c].op) /\ DataDone(c)
      /\ Finish(c, "served")
      /\ UNCHANGED <<store, db, file, removed, att, owner, purge, gone, drawn>>
  BY DEF Publish, Others, owner, deletion, store
<1>2. Granted(c)
  BY <1>1, InvParts DEF DataGranted
<1>3. PICK r : DataIs(c, r) /\ r.pc = "none" /\ r.seen = data[c].seen
  BY <1>1, InvParts, DataDoneIs
<1>4. DataTyped' /\ data'[c] = r /\ \A d \in Callers : d # c => data'[d] = data[d]
  BY <1>3, InvParts, DataIsResult
<1>5. /\ RequestsTyped' /\ FoundInv' /\ DataGranted' /\ BudgetTyped'
      /\ StatusKept /\ ControlTyped' /\ ~Quiet
  BY <1>1, <1>2, <1>3, <1>4, FinishResult
<1>6. PendingEnds
  BY <1>1, <1>3, InvParts, ViewerPendingEnds
<1>7. DocumentInv'
  BY <1>1, <1>6, InvParts, DocumentsEnd
<1>8. HintInv' /\ RestTyped'
  BY <1>1, <1>5, InvParts, HintPublished
<1>9. StoreTyped' /\ OwnerTyped'
  BY <1>1, InvParts, StoreFrame, OwnerFrame
<1>10. RemovalInv' /\ KeyInv'
  BY <1>1, <1>5, InvParts, RemovalFrame, KeyFrame
<1> QED BY <1>4, <1>5, <1>7, <1>8, <1>9, <1>10, InvPartsNext

LEMMA ViewerStepOK ==
    ASSUME AppDataInv, NEW c \in Callers, ViewerStep(c)
    PROVE  AppDataInv'
  BY RefuseOK, ReadOK, AdmitOK, HoldOK, CommitOK, PublishOK DEF ViewerStep

-----------------------------------------------------------------------------
(***************************************************************************)
(* What the owner does, effect by effect.                                  *)
(***************************************************************************)

CallPCs == {"idle", "scoped", "fresh", "holding", "unproved", "completed",
            "applied", "publish"}

\* Call a goes to pc with the key and the mutation it has; other calls stay.
Moved(a, pc) ==
    /\ att' \in [Attempts -> Calls]
    /\ \A b \in Attempts :
          att'[b].pc # "idle" => att'[b].key \in Requests /\ att'[b].m \in Mutations
    /\ att'[a].pc = pc
    /\ pc # "idle" => att'[a].key = att[a].key /\ att'[a].m = att[a].m
    /\ \A b \in Attempts : b # a => att'[b] = att[b]

LEMMA AttemptToMoves ==
    ASSUME OwnerTyped, NEW a \in Attempts, att[a].pc # "idle",
           NEW pc \in CallPCs, AttemptTo(a, pc)
    PROVE  Moved(a, pc)
<1> DEFINE r == [att[a] EXCEPT !.pc = pc]
<1>1. att[a] \in Calls /\ att[a].key \in Requests /\ att[a].m \in Mutations
  BY DEF OwnerTyped
<1>2. r \in Calls /\ r.pc = pc /\ r.key = att[a].key /\ r.m = att[a].m
  BY <1>1 DEF Calls, CallPCs
<1>3. att' = [att EXCEPT ![a] = r]
  BY DEF AttemptTo, OwnerTyped
<1> HIDE DEF r
<1> QED BY <1>1, <1>2, <1>3 DEF Moved, OwnerTyped

LEMMA AttemptEndsMoves ==
    ASSUME OwnerTyped, NEW a \in Attempts, AttemptEnds(a)
    PROVE  Moved(a, "idle")
<1>1. IdleAttempt \in Calls /\ IdleAttempt.pc = "idle"
  BY DEF IdleAttempt, Calls, AnyMutation
<1>2. att' = [att EXCEPT ![a] = IdleAttempt]
  BY DEF AttemptEnds
<1> QED BY <1>1, <1>2 DEF Moved, OwnerTyped

\* Everything the owner leaves alone.
LEMMA OwnerLeavesResult ==
    ASSUME AppDataInv, OwnerLeaves
    PROVE  /\ StatusKept /\ ControlTyped' /\ RequestsTyped' /\ FoundInv'
           /\ DataTyped' /\ DataGranted'
           /\ UNCHANGED <<req, data, purge, gone>>
<1>1. UNCHANGED <<control, req, held, data, purge, gone>>
  BY DEF OwnerLeaves, deletion
<1> QED BY <1>1, InvParts, ControlFrame, RequestsFrame, DataFrame, GrantedFrame
        DEF StatusKept

LEMMA OwnerPendingEnds ==
    ASSUME NEW a \in Attempts, NEW pc, Moved(a, pc), UNCHANGED <<data, drawn>>,
           pc \in {"fresh", "holding"} => att[a].pc \in {"fresh", "holding"}
    PROVE  PendingEnds
  BY DEF PendingEnds, Moved, Creators, OwnerCreators

\* Nobody new is about to commit or to announce, or to have done either without
\* an intent.
LEMMA KeyShrinks ==
    ASSUME KeyInv, UNCHANGED <<audit, applied, hinted>>, StatusKept,
           \A k \in Requests :
             /\ CallsAt(k, {"publish"})' \subseteq CallsAt(k, {"publish"})
             /\ CallsAt(k, {"fresh", "holding"})' \subseteq CallsAt(k, {"fresh", "holding"})
             /\ audit[k] = None =>
                  \A b \in Attempts : att'[b].key = k /\ att'[b].pc \notin {"idle", "scoped"}
                     => att[b].key = k /\ att[b].pc \notin {"idle", "scoped"}
    PROVE  KeyInv'
<1>1. ASSUME NEW k \in Requests
      PROVE  /\ applied'[k] <= 1 /\ hinted'[k] <= 1
             /\ audit'[k] = None /\ status' # "removed" =>
                  /\ applied'[k] = 0 /\ hinted'[k] = 0
                  /\ \A b \in Attempts :
                        att'[b].key = k => att'[b].pc \in {"idle", "scoped"}
             /\ audit'[k] # None /\ audit'[k].outcome = "attempted" =>
                  hinted'[k] = 0 /\ CallsAt(k, {"publish"})' = {}
             /\ \A b \in CallsAt(k, {"fresh", "holding"})' :
                   applied'[k] = 0 /\ \A d \in CallsAt(k, {"fresh", "holding"})' : b = d
             /\ \A b \in CallsAt(k, {"publish"})' :
                   hinted'[k] = 0 /\ \A d \in CallsAt(k, {"publish"})' : b = d
  <2>1. /\ applied[k] <= 1 /\ hinted[k] <= 1
        /\ audit[k] = None /\ status # "removed" =>
             /\ applied[k] = 0 /\ hinted[k] = 0
             /\ \A b \in Attempts :
                   att[b].key = k => att[b].pc \in {"idle", "scoped"}
        /\ audit[k] # None /\ audit[k].outcome = "attempted" =>
             hinted[k] = 0 /\ CallsAt(k, {"publish"}) = {}
        /\ \A b \in CallsAt(k, {"fresh", "holding"}) :
              applied[k] = 0 /\ \A d \in CallsAt(k, {"fresh", "holding"}) : b = d
        /\ \A b \in CallsAt(k, {"publish"}) :
              hinted[k] = 0 /\ \A d \in CallsAt(k, {"publish"}) : b = d
    BY DEF KeyInv
  <2> QED BY <2>1 DEF StatusKept
<1> QED BY <1>1 DEF KeyInv

\* The moves of a call that neither commit nor announce nor answer anything.
LEMMA KeyMove ==
    ASSUME KeyInv, NEW a \in Attempts, NEW pc, Moved(a, pc),
           UNCHANGED <<audit, applied, hinted>>, StatusKept,
           \/ pc = "idle"
           \/ att[a].pc = "fresh" /\ pc = "holding"
           \/ att[a].pc = "unproved" /\ pc = "applied"
    PROVE  KeyInv'
<1>1. ASSUME NEW k \in Requests
      PROVE  /\ CallsAt(k, {"publish"})' \subseteq CallsAt(k, {"publish"})
             /\ CallsAt(k, {"fresh", "holding"})' \subseteq CallsAt(k, {"fresh", "holding"})
             /\ \A b \in Attempts :
                   att'[b].key = k /\ att'[b].pc \notin {"idle", "scoped"}
                   => att[b].key = k /\ att[b].pc \notin {"idle", "scoped"}
  BY DEF CallsAt, Moved
<1> QED BY <1>1, KeyShrinks

-----------------------------------------------------------------------------
(***************************************************************************)
(* The owner.                                                              *)
(***************************************************************************)

LEMMA MovedTyped ==
    ASSUME OwnerTyped, NEW a, NEW pc, Moved(a, pc), UNCHANGED <<audit, applied, hinted>>
    PROVE  OwnerTyped'
  BY DEF OwnerTyped, Moved

LEMMA NotQuiet ==
    ASSUME NEW a \in Attempts, att[a].pc # "idle"
    PROVE  ~Quiet
  BY DEF Quiet

LEMMA OwnerHoldOK ==
    ASSUME AppDataInv, NEW a \in Attempts, OwnerHold(a)
    PROVE  AppDataInv'
<1>1. /\ att[a].pc = "fresh" /\ Opened /\ AttemptTo(a, "holding") /\ OwnerLeaves
      /\ UNCHANGED <<db, conn, audit, applied, hinted, sub, drawn, budget>>
  BY DEF OwnerHold
<1>2. /\ StatusKept /\ ControlTyped' /\ RequestsTyped' /\ FoundInv'
      /\ DataTyped' /\ DataGranted' /\ UNCHANGED <<req, data, purge, gone>>
  BY <1>1, OwnerLeavesResult
<1>3. Moved(a, "holding") /\ ~Quiet
  BY <1>1, InvParts, AttemptToMoves, NotQuiet DEF CallPCs
<1>4. PendingEnds
  BY <1>1, <1>2, <1>3, OwnerPendingEnds
<1>5. DocumentInv'
  BY <1>1, <1>4, InvParts, DocumentsEnd
<1>6. KeyInv'
  BY <1>1, <1>2, <1>3, InvParts, KeyMove
<1>7. RemovalInv' /\ HintInv'
  BY <1>1, <1>2, <1>3, InvParts, OpenedKeeps, HintFrame
<1>8. BudgetTyped' /\ StoreTyped' /\ OwnerTyped' /\ RestTyped'
  BY <1>1, <1>2, <1>3, InvParts, BudgetFrame, OpenedTyped, MovedTyped, RestFrame
     DEF StoreTyped
<1> QED BY <1>2, <1>5, <1>6, <1>7, <1>8, InvPartsNext

LEMMA ReconcileOK ==
    ASSUME AppDataInv, NEW a \in Attempts, Reconcile(a)
    PROVE  AppDataInv'
<1>1. /\ att[a].pc = "unproved" /\ Opened /\ OwnerLeaves
      /\ UNCHANGED <<db, conn, audit, applied, hinted, sub, drawn, budget>>
  BY DEF Reconcile
<1>2. /\ StatusKept /\ ControlTyped' /\ RequestsTyped' /\ FoundInv'
      /\ DataTyped' /\ DataGranted' /\ UNCHANGED <<req, data, purge, gone>>
  BY <1>1, OwnerLeavesResult
<1>3. ~Quiet
  BY <1>1, NotQuiet
<1>4. PICK pc \in {"idle", "applied"} : Moved(a, pc)
  <2>1. CASE Proves(att[a].m)
    BY <1>1, <2>1, InvParts, AttemptToMoves DEF CallPCs, Reconcile
  <2>2. CASE ~Proves(att[a].m)
    BY <2>2, InvParts, AttemptEndsMoves DEF Reconcile
  <2> QED BY <2>1, <2>2
<1>5. PendingEnds
  BY <1>1, <1>2, <1>4, OwnerPendingEnds
<1>6. DocumentInv'
  BY <1>1, <1>5, InvParts, DocumentsEnd
<1>7. KeyInv'
  BY <1>1, <1>2, <1>4, InvParts, KeyMove
<1>8. RemovalInv' /\ HintInv'
  BY <1>1, <1>2, <1>3, InvParts, OpenedKeeps, HintFrame
<1>9. BudgetTyped' /\ StoreTyped' /\ OwnerTyped' /\ RestTyped'
  BY <1>1, <1>2, <1>4, InvParts, BudgetFrame, OpenedTyped, MovedTyped, RestFrame
     DEF StoreTyped
<1> QED BY <1>2, <1>6, <1>7, <1>8, <1>9, InvPartsNext

\* A call that ends without having changed anything.
LEMMA CallEndsOK ==
    ASSUME AppDataInv, NEW a \in Attempts, att[a].pc # "idle", AttemptEnds(a), OwnerLeaves,
           UNCHANGED <<store, audit, applied, hinted, sub, drawn, budget>>
    PROVE  AppDataInv'
<1>1. UNCHANGED <<db, file, handle, removed, conn>>
  BY DEF store
<1>2. /\ StatusKept /\ ControlTyped' /\ RequestsTyped' /\ FoundInv'
      /\ DataTyped' /\ DataGranted' /\ UNCHANGED <<req, data, purge, gone>>
  BY OwnerLeavesResult
<1>3. Moved(a, "idle") /\ ~Quiet
  BY InvParts, AttemptEndsMoves, NotQuiet
<1>4. PendingEnds
  BY <1>2, <1>3, OwnerPendingEnds
<1>5. DocumentInv'
  BY <1>1, <1>4, InvParts, DocumentsEnd
<1>6. KeyInv'
  BY <1>2, <1>3, InvParts, KeyMove
<1>7. RemovalInv' /\ HintInv'
  BY <1>1, <1>2, <1>3, InvParts, RemovalFrame, HintFrame
<1>8. BudgetTyped' /\ StoreTyped' /\ OwnerTyped' /\ RestTyped'
  BY <1>1, <1>2, <1>3, InvParts, BudgetFrame, StoreFrame, MovedTyped, RestFrame
<1> QED BY <1>2, <1>5, <1>6, <1>7, <1>8, InvPartsNext

LEMMA ReplayOK ==
    ASSUME AppDataInv, NEW a \in Attempts, Replay(a)
    PROVE  AppDataInv'
  BY CallEndsOK DEF Replay

LEMMA AttemptFailsOK ==
    ASSUME AppDataInv, NEW a \in Attempts, AttemptFails(a)
    PROVE  AppDataInv'
  BY CallEndsOK DEF AttemptFails

\* A first call and a retry, altered or not, are well formed.
LEMMA CallsAreMutations ==
    ASSUME StoreTyped, OwnerTyped, NEW k \in Requests,
           NEW m \in IF audit[k] = None THEN FirstCalls
                     ELSE {audit[k].m} \cup Altered(audit[k].m)
    PROVE  m \in Mutations
<1>1. CASE audit[k] = None
  <2>1. \A n \in Names : VersionOf(db, n) \in Nat
    BY VersionIsNat DEF StoreTyped
  <2>2. m \in FirstCalls
    BY <1>1
  <2> QED BY <2>1, <2>2 DEF FirstCalls, Mutations, Names, NoVersion
<1>2. CASE audit[k] # None
  <2>1. audit[k].m \in Mutations
    BY <1>2 DEF OwnerTyped, Intents
  <2>2. m = audit[k].m \/ \E v \in Values :
          m = [audit[k].m EXCEPT !.val = v] /\ audit[k].m.kind # "delete"
    BY <1>2 DEF Altered
  <2> QED BY <2>1, <2>2 DEF Mutations
<1> QED BY <1>1, <1>2

LEMMA dataScopeOK ==
    ASSUME AppDataInv, NEW a \in Attempts, NEW k \in Requests, dataScope(a, k)
    PROVE  AppDataInv'
<1>1. /\ att[a].pc = "idle" /\ Spend("attempt") /\ status = "active"
      /\ UNCHANGED <<control, req, held, data, purge, gone, store, db, file, removed, audit,
                     applied, hinted, sub, drawn>>
  BY DEF dataScope, deletion, store
<1>2. PICK m \in IF audit[k] = None THEN FirstCalls
                 ELSE {audit[k].m} \cup Altered(audit[k].m) :
        att' = [att EXCEPT ![a] = [pc |-> "scoped", key |-> k, m |-> m]]
  BY DEF dataScope
<1>3. m \in Mutations
  BY InvParts, CallsAreMutations
<1> DEFINE r == [pc |-> "scoped", key |-> k, m |-> m]
<1>4. r \in Calls /\ r.pc = "scoped" /\ r.key = k /\ r.m \in Mutations
  BY <1>3 DEF Calls, AnyMutation
<1>5. att' = [att EXCEPT ![a] = r]
  BY <1>2
<1> HIDE DEF r
<1>6. /\ att' \in [Attempts -> Calls] /\ att'[a] = r
      /\ \A b \in Attempts : b # a => att'[b] = att[b]
  BY <1>4, <1>5, InvParts DEF OwnerTyped
<1>7. /\ StatusKept /\ ControlTyped' /\ RequestsTyped' /\ FoundInv'
      /\ DataTyped' /\ DataGranted'
  BY <1>1, InvParts, ControlFrame, RequestsFrame, DataFrame, GrantedFrame DEF StatusKept
<1>8. OwnerTyped'
  BY <1>1, <1>4, <1>6, InvParts DEF OwnerTyped
<1>9. BudgetTyped'
  BY <1>1, InvParts, SpendTyped DEF Events
<1>10. StoreTyped' /\ RestTyped' /\ HintInv'
  BY <1>1, <1>7, InvParts, StoreFrame, RestFrame, HintFrame
<1>11. PendingEnds
  BY <1>1, <1>4, <1>6 DEF PendingEnds, Creators, OwnerCreators
<1>12. DocumentInv'
  BY <1>1, <1>11, InvParts, DocumentsEnd
<1>13. ASSUME NEW j \in Requests
       PROVE  /\ CallsAt(j, {"publish"})' \subseteq CallsAt(j, {"publish"})
              /\ CallsAt(j, {"fresh", "holding"})' \subseteq CallsAt(j, {"fresh", "holding"})
              /\ \A b \in Attempts :
                    att'[b].key = j /\ att'[b].pc \notin {"idle", "scoped"}
                    => att[b].key = j /\ att[b].pc \notin {"idle", "scoped"}
  BY <1>4, <1>6 DEF CallsAt
<1>14. KeyInv'
  BY <1>1, <1>7, <1>13, InvParts, KeyShrinks
<1>15. ~gone
  BY <1>1, InvParts DEF RemovalInv, Leaving
<1>16. RemovalInv'
  BY <1>1, <1>7, <1>15, InvParts, RemovalFrame
<1> QED BY <1>7, <1>8, <1>9, <1>10, <1>12, <1>14, <1>16, InvPartsNext

\* A new intent: this call alone may commit for its key.
LEMMA KeyFresh ==
    ASSUME KeyInv, StatusKept, NEW a \in Attempts, NEW k \in Requests,
           att[a].key = k, att[a].pc = "scoped", Moved(a, "fresh"),
           audit[k] = None, status # "removed", UNCHANGED <<applied, hinted>>,
           audit'[k] # None,
           \A j \in Requests : j # k => audit'[j] = audit[j]
    PROVE  KeyInv'
<1>1. ASSUME NEW j \in Requests
      PROVE  /\ applied'[j] <= 1 /\ hinted'[j] <= 1
             /\ audit'[j] = None /\ status' # "removed" =>
                  /\ applied'[j] = 0 /\ hinted'[j] = 0
                  /\ \A b \in Attempts :
                        att'[b].key = j => att'[b].pc \in {"idle", "scoped"}
             /\ audit'[j] # None /\ audit'[j].outcome = "attempted" =>
                  hinted'[j] = 0 /\ CallsAt(j, {"publish"})' = {}
             /\ \A b \in CallsAt(j, {"fresh", "holding"})' :
                   applied'[j] = 0 /\ \A d \in CallsAt(j, {"fresh", "holding"})' : b = d
             /\ \A b \in CallsAt(j, {"publish"})' :
                   hinted'[j] = 0 /\ \A d \in CallsAt(j, {"publish"})' : b = d
  <2>1. /\ applied[j] <= 1 /\ hinted[j] <= 1
        /\ audit[j] = None /\ status # "removed" =>
             /\ applied[j] = 0 /\ hinted[j] = 0
             /\ \A b \in Attempts :
                   att[b].key = j => att[b].pc \in {"idle", "scoped"}
        /\ audit[j] # None /\ audit[j].outcome = "attempted" =>
             hinted[j] = 0 /\ CallsAt(j, {"publish"}) = {}
        /\ \A b \in CallsAt(j, {"fresh", "holding"}) :
              applied[j] = 0 /\ \A d \in CallsAt(j, {"fresh", "holding"}) : b = d
        /\ \A b \in CallsAt(j, {"publish"}) :
              hinted[j] = 0 /\ \A d \in CallsAt(j, {"publish"}) : b = d
    BY DEF KeyInv
  <2>2. CASE j # k
    <3>1. CallsAt(j, {"publish"})' = CallsAt(j, {"publish"})
          /\ CallsAt(j, {"fresh", "holding"})' = CallsAt(j, {"fresh", "holding"})
          /\ \A b \in Attempts : att'[b].key = j => b # a /\ att[b] = att'[b]
      BY <2>2 DEF CallsAt, Moved
    <3> QED BY <2>1, <2>2, <3>1 DEF StatusKept
  <2>3. CASE j = k
    <3>1. CallsAt(j, {"publish"})' = {}
          /\ \A b \in CallsAt(j, {"fresh", "holding"})' : b = a
      BY <2>1, <2>3 DEF CallsAt, Moved
    <3> QED BY <2>1, <2>3, <3>1
  <2> QED BY <2>2, <2>3
<1> QED BY <1>1 DEF KeyInv

\* A new intent to create draws an id nobody has seen.
LEMMA FreshDocuments ==
    ASSUME DocumentInv, NEW a \in Attempts, att[a].pc = "scoped", Moved(a, "fresh"),
           NEW m \in Mutations, m = att[a].m, DrawId(m), UNCHANGED <<db, data>>
    PROVE  DocumentInv'
<1>1. ASSUME NEW i \in Ids
      PROVE  /\ Creators(i)' = Creators(i)
             /\ OwnerCreators(i)' = IF m.kind = "create" /\ m.name = i
                                    THEN OwnerCreators(i) \cup {a} ELSE OwnerCreators(i)
             /\ \A c \in Callers : Seen(c, i)' <=> Seen(c, i)
  BY DEF Creators, OwnerCreators, Seen, Moved
<1>2. ASSUME NEW i \in Ids
      PROVE  /\ i \notin drawn' => Creators(i)' = {} /\ OwnerCreators(i)' = {}
             /\ i \notin drawn' \/ Creators(i)' # {} \/ OwnerCreators(i)' # {} =>
                  db'.rec[i] = Absent /\ \A c \in Callers : ~Seen(c, i)'
             /\ \A c, d \in Creators(i)' : c = d
             /\ \A b, d \in OwnerCreators(i)' : b = d
             /\ Creators(i)' = {} \/ OwnerCreators(i)' = {}
  <2>1. /\ i \notin drawn => Creators(i) = {} /\ OwnerCreators(i) = {}
        /\ i \notin drawn \/ Creators(i) # {} \/ OwnerCreators(i) # {} =>
             db.rec[i] = Absent /\ \A c \in Callers : ~Seen(c, i)
        /\ \A c, d \in Creators(i) : c = d
        /\ \A b, d \in OwnerCreators(i) : b = d
        /\ Creators(i) = {} \/ OwnerCreators(i) = {}
    BY DEF DocumentInv
  <2>2. CASE m.kind = "create" /\ m.name = i
    <3>1. i \notin drawn /\ i \in drawn'
      BY <2>2 DEF DrawId
    <3> QED BY <1>1, <2>1, <2>2, <3>1
  <2>3. CASE ~(m.kind = "create" /\ m.name = i)
    <3>1. i \notin drawn' => i \notin drawn
      BY DEF DrawId
    <3> QED BY <1>1, <2>1, <2>3, <3>1
  <2> QED BY <2>2, <2>3
<1> QED BY <1>2 DEF DocumentInv, Seen

LEMMA IntentFreshOK ==
    ASSUME AppDataInv, NEW a \in Attempts, NEW k \in Requests, NEW m \in Mutations,
           att[a].pc = "scoped", att[a].key = k, att[a].m = m,
           audit[k] = None, status # "removed",
           audit' = [audit EXCEPT ![k] = [m |-> m, outcome |-> "attempted"]],
           AttemptTo(a, "fresh"), DrawId(m), OwnerLeaves,
           UNCHANGED <<store, applied, hinted, sub, budget>>
    PROVE  AppDataInv'
<1>1. UNCHANGED <<db, file, removed>>
  BY DEF store
<1>2. /\ StatusKept /\ ControlTyped' /\ RequestsTyped' /\ FoundInv'
      /\ DataTyped' /\ DataGranted' /\ UNCHANGED <<req, data, purge, gone>>
  BY OwnerLeavesResult
<1>3. Moved(a, "fresh") /\ ~Quiet
  BY InvParts, AttemptToMoves, NotQuiet DEF CallPCs
<1> DEFINE e == [m |-> m, outcome |-> "attempted"]
<1>4. e \in Intents /\ audit' = [audit EXCEPT ![k] = e]
  BY DEF Intents
<1> HIDE DEF e
<1>5. /\ audit' \in [Requests -> Intents \cup {None}] /\ audit'[k] # None
      /\ \A j \in Requests : j # k => audit'[j] = audit[j]
  BY <1>4, InvParts, NoneIsNoIntent DEF OwnerTyped
<1>6. OwnerTyped'
  BY <1>3, <1>5, InvParts DEF OwnerTyped, Moved
<1>7. KeyInv'
  BY <1>2, <1>3, <1>5, InvParts, KeyFresh
<1>8. DocumentInv'
  BY <1>1, <1>2, <1>3, InvParts, FreshDocuments
<1>9. drawn' \subseteq Ids
  BY InvParts DEF DrawId, Mutations, RestTyped
<1>10. RestTyped'
  BY <1>2, <1>9, InvParts DEF RestTyped
<1>11. BudgetTyped' /\ StoreTyped' /\ HintInv' /\ RemovalInv'
  BY <1>1, <1>2, <1>3, InvParts, BudgetFrame, StoreFrame, HintFrame, RemovalFrame
<1> QED BY <1>2, <1>6, <1>7, <1>8, <1>10, <1>11, InvPartsNext

\* A used key with the same digest: what was recorded is what is looked at.
LEMMA IntentKnownOK ==
    ASSUME AppDataInv, NEW a \in Attempts, NEW k \in Requests,
           att[a].pc = "scoped", att[a].key = k, audit[k] # None,
           NEW pc \in {"completed", "unproved"},
           att' = [att EXCEPT ![a].m = audit[k].m, ![a].pc = pc],
           OwnerLeaves, UNCHANGED <<store, audit, drawn, applied, hinted, sub, budget>>
    PROVE  AppDataInv'
<1>1. UNCHANGED <<db, file, removed>>
  BY DEF store
<1>2. /\ StatusKept /\ ControlTyped' /\ RequestsTyped' /\ FoundInv'
      /\ DataTyped' /\ DataGranted' /\ UNCHANGED <<req, data, purge, gone>>
  BY OwnerLeavesResult
<1>3. att[a] \in Calls /\ audit[k].m \in Mutations /\ att[a].key \in Requests
  BY InvParts DEF OwnerTyped, Intents
<1> DEFINE r == [att[a] EXCEPT !.m = audit[k].m, !.pc = pc]
<1>4. r \in Calls /\ r.pc = pc /\ r.key = k /\ r.m \in Mutations
  BY <1>3 DEF Calls, AnyMutation
<1>5. att' = [att EXCEPT ![a] = r]
  BY InvParts DEF OwnerTyped
<1> HIDE DEF r
<1>6. /\ att' \in [Attempts -> Calls] /\ att'[a] = r
      /\ \A b \in Attempts : b # a => att'[b] = att[b]
  BY <1>4, <1>5, InvParts DEF OwnerTyped
<1>7. OwnerTyped'
  BY <1>3, <1>4, <1>6, InvParts DEF OwnerTyped
<1>8. PendingEnds
  BY <1>2, <1>4, <1>6 DEF PendingEnds, Creators, OwnerCreators
<1>9. DocumentInv'
  BY <1>1, <1>8, InvParts, DocumentsEnd
<1>10. ASSUME NEW j \in Requests
       PROVE  /\ CallsAt(j, {"publish"})' \subseteq CallsAt(j, {"publish"})
              /\ CallsAt(j, {"fresh", "holding"})' \subseteq CallsAt(j, {"fresh", "holding"})
              /\ audit[j] = None => \A b \in Attempts :
                    att'[b].key = j /\ att'[b].pc \notin {"idle", "scoped"}
                    => att[b].key = j /\ att[b].pc \notin {"idle", "scoped"}
  BY <1>4, <1>6 DEF CallsAt
<1>11. KeyInv'
  BY <1>2, <1>10, InvParts, KeyShrinks
<1>12. ~Quiet
  BY NotQuiet
<1>13. /\ BudgetTyped' /\ StoreTyped' /\ RestTyped' /\ HintInv' /\ RemovalInv'
  BY <1>1, <1>2, <1>12, InvParts, BudgetFrame, StoreFrame, RestFrame, HintFrame, RemovalFrame
<1> QED BY <1>2, <1>7, <1>9, <1>11, <1>13, InvPartsNext

LEMMA dataMutationIntentOK ==
    ASSUME AppDataInv, NEW a \in Attempts, dataMutationIntent(a)
    PROVE  AppDataInv'
<1>1. /\ att[a].pc = "scoped" /\ OwnerLeaves
      /\ UNCHANGED <<store, applied, hinted, sub, budget>>
  BY DEF dataMutationIntent
<1>2. PICK k \in Requests, m \in Mutations : k = att[a].key /\ m = att[a].m
  BY <1>1, InvParts DEF OwnerTyped
<1>3. \/ /\ audit[k] = None /\ status # "removed"
         /\ audit' = [audit EXCEPT ![k] = [m |-> m, outcome |-> "attempted"]]
         /\ AttemptTo(a, "fresh")
         /\ DrawId(m)
      \/ /\ audit[k] = None /\ status = "removed"
         /\ AttemptEnds(a)
         /\ UNCHANGED <<audit, drawn>>
      \/ /\ audit[k] # None
         /\ IF Digest(audit[k].m) # Digest(m) THEN AttemptEnds(a)
            ELSE att' = [att EXCEPT ![a].m = audit[k].m,
                           ![a].pc = IF audit[k].outcome = "succeeded"
                                     THEN "completed" ELSE "unproved"]
         /\ UNCHANGED <<audit, drawn>>
  BY <1>2 DEF dataMutationIntent, Key
<1>4. CASE /\ audit[k] = None /\ status # "removed"
           /\ audit' = [audit EXCEPT ![k] = [m |-> m, outcome |-> "attempted"]]
           /\ AttemptTo(a, "fresh")
           /\ DrawId(m)
  BY <1>1, <1>2, <1>4, IntentFreshOK
<1>5. CASE AttemptEnds(a) /\ UNCHANGED <<audit, drawn>>
  BY <1>1, <1>5, CallEndsOK
<1>6. CASE /\ audit[k] # None
           /\ att' = [att EXCEPT ![a].m = audit[k].m,
                        ![a].pc = IF audit[k].outcome = "succeeded"
                                  THEN "completed" ELSE "unproved"]
           /\ UNCHANGED <<audit, drawn>>
  <2>1. PICK pc \in {"completed", "unproved"} :
          pc = IF audit[k].outcome = "succeeded" THEN "completed" ELSE "unproved"
    OBVIOUS
  <2>2. att' = [att EXCEPT ![a].m = audit[k].m, ![a].pc = pc]
    BY <1>6, <2>1
  <2> QED BY <1>1, <1>2, <1>6, <2>2, IntentKnownOK
<1> QED BY <1>3, <1>4, <1>5, <1>6

\* The mutation of a key is committed: no other call of it may commit.
LEMMA KeyCommits ==
    ASSUME KeyInv, StatusKept, NEW a \in Attempts, NEW k \in Requests,
           att[a].key = k, att[a].pc = "holding", Moved(a, "applied"),
           applied \in [Requests -> Nat], applied' = [applied EXCEPT ![k] = @ + 1],
           UNCHANGED <<audit, hinted>>
    PROVE  KeyInv'
<1>1. ASSUME NEW j \in Requests
      PROVE  /\ applied'[j] <= 1 /\ hinted'[j] <= 1
             /\ audit'[j] = None /\ status' # "removed" =>
                  /\ applied'[j] = 0 /\ hinted'[j] = 0
                  /\ \A b \in Attempts :
                        att'[b].key = j => att'[b].pc \in {"idle", "scoped"}
             /\ audit'[j] # None /\ audit'[j].outcome = "attempted" =>
                  hinted'[j] = 0 /\ CallsAt(j, {"publish"})' = {}
             /\ \A b \in CallsAt(j, {"fresh", "holding"})' :
                   applied'[j] = 0 /\ \A d \in CallsAt(j, {"fresh", "holding"})' : b = d
             /\ \A b \in CallsAt(j, {"publish"})' :
                   hinted'[j] = 0 /\ \A d \in CallsAt(j, {"publish"})' : b = d
  <2>1. /\ applied[j] <= 1 /\ hinted[j] <= 1
        /\ audit[j] = None /\ status # "removed" =>
             /\ applied[j] = 0 /\ hinted[j] = 0
             /\ \A b \in Attempts :
                   att[b].key = j => att[b].pc \in {"idle", "scoped"}
        /\ audit[j] # None /\ audit[j].outcome = "attempted" =>
             hinted[j] = 0 /\ CallsAt(j, {"publish"}) = {}
        /\ \A b \in CallsAt(j, {"fresh", "holding"}) :
              applied[j] = 0 /\ \A d \in CallsAt(j, {"fresh", "holding"}) : b = d
        /\ \A b \in CallsAt(j, {"publish"}) :
              hinted[j] = 0 /\ \A d \in CallsAt(j, {"publish"}) : b = d
    BY DEF KeyInv
  <2>2. CallsAt(j, {"publish"})' = CallsAt(j, {"publish"})
    BY DEF CallsAt, Moved
  <2>3. CASE j # k
    <3>1. CallsAt(j, {"fresh", "holding"})' = CallsAt(j, {"fresh", "holding"})
          /\ \A b \in Attempts : att'[b].key = j => b # a /\ att[b] = att'[b]
      BY <2>3 DEF CallsAt, Moved
    <3>2. applied'[j] = applied[j]
      BY <2>3
    <3> QED BY <2>1, <2>2, <3>1, <3>2 DEF StatusKept
  <2>4. CASE j = k
    <3>1. a \in CallsAt(j, {"fresh", "holding"})
      BY <2>4 DEF CallsAt
    <3>2. applied[j] = 0 /\ \A d \in CallsAt(j, {"fresh", "holding"}) : a = d
      BY <2>1, <3>1
    <3>3. CallsAt(j, {"fresh", "holding"})' = {}
      BY <3>2 DEF CallsAt, Moved
    <3>4. applied'[j] = 1
      BY <2>4, <3>2
    <3>5. ~(audit[j] = None /\ status # "removed")
      BY <2>1, <2>4
    <3> QED BY <2>1, <2>2, <3>3, <3>4, <3>5 DEF StatusKept
  <2> QED BY <2>3, <2>4
<1> QED BY <1>1 DEF KeyInv

LEMMA OwnerCreationEnds ==
    ASSUME DocumentInv, NEW a \in Attempts, att[a].pc = "holding", NEW i \in Ids,
           att[a].m.kind = "create", att[a].m.name = i,
           att'[a].pc \notin {"fresh", "holding"}, PendingEnds
    PROVE  OwnerCreators(i) # {} /\ Creators(i)' = {} /\ OwnerCreators(i)' = {}
<1>1. a \in OwnerCreators(i) /\ a \notin OwnerCreators(i)'
  BY DEF OwnerCreators
<1>2. /\ \A b, d \in OwnerCreators(i) : b = d
      /\ Creators(i) = {} \/ OwnerCreators(i) = {}
      /\ Creators(i)' \subseteq Creators(i) /\ OwnerCreators(i)' \subseteq OwnerCreators(i)
  BY DEF DocumentInv, PendingEnds
<1> QED BY <1>1, <1>2

LEMMA OwnerCommitOK ==
    ASSUME AppDataInv, NEW a \in Attempts, OwnerCommit(a)
    PROVE  AppDataInv'
<1>1. /\ att[a].pc = "holding" /\ OwnerLeaves
      /\ UNCHANGED <<file, handle, removed, conn, audit, hinted, sub, drawn, budget>>
  BY DEF OwnerCommit
<1>2. PICK k \in Requests, m \in Mutations : k = att[a].key /\ m = att[a].m
  BY <1>1, InvParts DEF OwnerTyped
<1> DEFINE res == Apply(db, m)
<1>3. /\ db' = res.db
      /\ \/ /\ res.out = "ok" /\ AttemptTo(a, "applied")
            /\ applied' = [applied EXCEPT ![k] = @ + 1]
         \/ res.out # "ok" /\ AttemptEnds(a) /\ UNCHANGED applied
  BY <1>2 DEF OwnerCommit, Key
<1> HIDE DEF res
<1>4. /\ StatusKept /\ ControlTyped' /\ RequestsTyped' /\ FoundInv'
      /\ DataTyped' /\ DataGranted' /\ UNCHANGED <<req, data, purge, gone>>
  BY <1>1, OwnerLeavesResult
<1>5. /\ StoreTyped' /\ HintInv'
      /\ IF res.out = "ok" THEN Committed(db, m, db') ELSE db' = db
  <2>1. db' = Apply(db, m).db
    BY <1>3 DEF res
  <2>2. StoreTyped /\ RestTyped /\ HintInv
    BY InvParts
  <2> QED BY <1>1, <1>4, <2>1, <2>2, StoreCommits DEF res
<1>6. ~Quiet
  BY <1>1, NotQuiet
<1>7. RemovalInv' /\ BudgetTyped' /\ RestTyped'
  BY <1>1, <1>4, <1>6, InvParts, RemovalFrame, BudgetFrame, RestFrame
<1>8. CASE /\ res.out = "ok" /\ AttemptTo(a, "applied")
           /\ applied' = [applied EXCEPT ![k] = @ + 1]
  <2>1. Moved(a, "applied")
    BY <1>1, <1>8, InvParts, AttemptToMoves DEF CallPCs
  <2>2. PendingEnds
    BY <1>1, <1>4, <2>1, OwnerPendingEnds
  <2>3. m.kind = "create" =>
          OwnerCreators(m.name) # {} /\ Creators(m.name)' = {} /\ OwnerCreators(m.name)' = {}
    <3>1. m.kind = "create" => m.name \in Ids
      BY DEF Mutations
    <3>2. att'[a].pc \notin {"fresh", "holding"}
      BY <2>1 DEF Moved
    <3> QED BY <1>1, <1>2, <2>2, <3>1, <3>2, InvParts, OwnerCreationEnds
  <2>4. DocumentInv'
    BY <1>5, <1>8, <2>2, <2>3, InvParts, DocumentsCommit
  <2>5. applied \in [Requests -> Nat]
    BY InvParts DEF OwnerTyped
  <2>6. KeyInv'
    BY <1>1, <1>2, <1>4, <1>8, <2>1, <2>5, InvParts, KeyCommits
  <2>7. applied' \in [Requests -> Nat]
    BY <1>8, <2>5
  <2>8. OwnerTyped'
    BY <1>1, <2>1, <2>7, InvParts DEF OwnerTyped, Moved
  <2> QED BY <1>4, <1>5, <1>7, <2>4, <2>6, <2>8, InvPartsNext
<1>9. CASE res.out # "ok" /\ AttemptEnds(a) /\ UNCHANGED applied
  <2>1. UNCHANGED <<store, audit, applied, hinted, sub, drawn, budget>>
    BY <1>1, <1>5, <1>9 DEF store
  <2> QED BY <1>1, <1>9, <2>1, CallEndsOK
<1> QED BY <1>3, <1>8, <1>9

\* The outcome of a key goes from attempted to succeeded once, so one call
\* announces it.
LEMMA KeyCompletes ==
    ASSUME KeyInv, StatusKept, NEW a \in Attempts, NEW k \in Requests,
           att[a].key = k, att[a].pc = "applied", Moved(a, "publish"),
           audit[k] # None, audit[k].outcome = "attempted",
           audit'[k] # None, audit'[k].outcome = "succeeded",
           \A j \in Requests : j # k => audit'[j] = audit[j],
           UNCHANGED <<applied, hinted>>
    PROVE  KeyInv'
<1>1. ASSUME NEW j \in Requests
      PROVE  /\ applied'[j] <= 1 /\ hinted'[j] <= 1
             /\ audit'[j] = None /\ status' # "removed" =>
                  /\ applied'[j] = 0 /\ hinted'[j] = 0
                  /\ \A b \in Attempts :
                        att'[b].key = j => att'[b].pc \in {"idle", "scoped"}
             /\ audit'[j] # None /\ audit'[j].outcome = "attempted" =>
                  hinted'[j] = 0 /\ CallsAt(j, {"publish"})' = {}
             /\ \A b \in CallsAt(j, {"fresh", "holding"})' :
                   applied'[j] = 0 /\ \A d \in CallsAt(j, {"fresh", "holding"})' : b = d
             /\ \A b \in CallsAt(j, {"publish"})' :
                   hinted'[j] = 0 /\ \A d \in CallsAt(j, {"publish"})' : b = d
  <2>1. /\ applied[j] <= 1 /\ hinted[j] <= 1
        /\ audit[j] = None /\ status # "removed" =>
             /\ applied[j] = 0 /\ hinted[j] = 0
             /\ \A b \in Attempts :
                   att[b].key = j => att[b].pc \in {"idle", "scoped"}
        /\ audit[j] # None /\ audit[j].outcome = "attempted" =>
             hinted[j] = 0 /\ CallsAt(j, {"publish"}) = {}
        /\ \A b \in CallsAt(j, {"fresh", "holding"}) :
              applied[j] = 0 /\ \A d \in CallsAt(j, {"fresh", "holding"}) : b = d
        /\ \A b \in CallsAt(j, {"publish"}) :
              hinted[j] = 0 /\ \A d \in CallsAt(j, {"publish"}) : b = d
    BY DEF KeyInv
  <2>2. CallsAt(j, {"fresh", "holding"})' = CallsAt(j, {"fresh", "holding"})
    BY DEF CallsAt, Moved
  <2>3. CASE j # k
    <3>1. CallsAt(j, {"publish"})' = CallsAt(j, {"publish"})
          /\ \A b \in Attempts : att'[b].key = j => b # a /\ att[b] = att'[b]
      BY <2>3 DEF CallsAt, Moved
    <3> QED BY <2>1, <2>2, <2>3, <3>1 DEF StatusKept
  <2>4. CASE j = k
    <3>1. hinted[j] = 0 /\ CallsAt(j, {"publish"}) = {}
      BY <2>1, <2>4
    <3>2. \A b \in CallsAt(j, {"publish"})' : b = a
      BY <3>1 DEF CallsAt, Moved
    <3> QED BY <2>1, <2>2, <2>4, <3>1, <3>2
  <2> QED BY <2>3, <2>4
<1> QED BY <1>1 DEF KeyInv

LEMMA dataMutationCompleteOK ==
    ASSUME AppDataInv, NEW a \in Attempts, dataMutationComplete(a)
    PROVE  AppDataInv'
<1>1. /\ att[a].pc = "applied" /\ OwnerLeaves
      /\ UNCHANGED <<store, applied, hinted, sub, drawn, budget>>
  BY DEF dataMutationComplete
<1>2. PICK k \in Requests : k = att[a].key
  BY <1>1, InvParts DEF OwnerTyped
<1>3. \/ /\ audit[k] # None /\ audit[k].outcome = "attempted"
         /\ audit' = [audit EXCEPT ![k].outcome = "succeeded"]
         /\ AttemptTo(a, "publish")
      \/ AttemptEnds(a) /\ UNCHANGED audit
  BY <1>2 DEF dataMutationComplete, Key
<1>4. CASE AttemptEnds(a) /\ UNCHANGED audit
  BY <1>1, <1>4, CallEndsOK
<1>5. CASE /\ audit[k] # None /\ audit[k].outcome = "attempted"
           /\ audit' = [audit EXCEPT ![k].outcome = "succeeded"]
           /\ AttemptTo(a, "publish")
  <2>1. Moved(a, "publish") /\ ~Quiet
    BY <1>1, <1>5, InvParts, AttemptToMoves, NotQuiet DEF CallPCs
  <2>2. /\ StatusKept /\ ControlTyped' /\ RequestsTyped' /\ FoundInv'
        /\ DataTyped' /\ DataGranted' /\ UNCHANGED <<req, data, purge, gone>>
    BY <1>1, OwnerLeavesResult
  <2> DEFINE e == [audit[k] EXCEPT !.outcome = "succeeded"]
  <2>3. audit[k] \in Intents
    BY <1>5, InvParts DEF OwnerTyped
  <2>4. e \in Intents /\ e.outcome = "succeeded"
    BY <2>3 DEF Intents
  <2>5. audit' = [audit EXCEPT ![k] = e]
    BY <1>5, InvParts DEF OwnerTyped
  <2> HIDE DEF e
  <2>6. /\ audit' \in [Requests -> Intents \cup {None}]
        /\ audit'[k] # None /\ audit'[k].outcome = "succeeded"
        /\ \A j \in Requests : j # k => audit'[j] = audit[j]
    BY <2>4, <2>5, InvParts, NoneIsNoIntent DEF OwnerTyped
  <2>7. KeyInv'
    BY <1>1, <1>2, <1>5, <2>1, <2>2, <2>6, InvParts, KeyCompletes
  <2>8. PendingEnds
    BY <1>1, <2>1, <2>2, OwnerPendingEnds
  <2>9. UNCHANGED <<db, file, removed>>
    BY <1>1 DEF store
  <2>10. DocumentInv'
    BY <2>8, <2>9, InvParts, DocumentsEnd
  <2>11. OwnerTyped'
    BY <1>1, <2>1, <2>6, InvParts DEF OwnerTyped, Moved
  <2>12. /\ BudgetTyped' /\ StoreTyped' /\ RestTyped' /\ HintInv' /\ RemovalInv'
    BY <1>1, <2>1, <2>2, <2>9, InvParts, BudgetFrame, StoreFrame, RestFrame, HintFrame,
       RemovalFrame
  <2> QED BY <2>2, <2>7, <2>10, <2>11, <2>12, InvPartsNext
<1> QED BY <1>3, <1>4, <1>5

LEMMA KeyPublishes ==
    ASSUME KeyInv, StatusKept, NEW a \in Attempts, NEW k \in Requests,
           att[a].key = k, att[a].pc = "publish", Moved(a, "idle"),
           hinted \in [Requests -> Nat], hinted' = [hinted EXCEPT ![k] = @ + 1],
           UNCHANGED <<audit, applied>>
    PROVE  KeyInv'
<1>1. ASSUME NEW j \in Requests
      PROVE  /\ applied'[j] <= 1 /\ hinted'[j] <= 1
             /\ audit'[j] = None /\ status' # "removed" =>
                  /\ applied'[j] = 0 /\ hinted'[j] = 0
                  /\ \A b \in Attempts :
                        att'[b].key = j => att'[b].pc \in {"idle", "scoped"}
             /\ audit'[j] # None /\ audit'[j].outcome = "attempted" =>
                  hinted'[j] = 0 /\ CallsAt(j, {"publish"})' = {}
             /\ \A b \in CallsAt(j, {"fresh", "holding"})' :
                   applied'[j] = 0 /\ \A d \in CallsAt(j, {"fresh", "holding"})' : b = d
             /\ \A b \in CallsAt(j, {"publish"})' :
                   hinted'[j] = 0 /\ \A d \in CallsAt(j, {"publish"})' : b = d
  <2>1. /\ applied[j] <= 1 /\ hinted[j] <= 1
        /\ audit[j] = None /\ status # "removed" =>
             /\ applied[j] = 0 /\ hinted[j] = 0
             /\ \A b \in Attempts :
                   att[b].key = j => att[b].pc \in {"idle", "scoped"}
        /\ audit[j] # None /\ audit[j].outcome = "attempted" =>
             hinted[j] = 0 /\ CallsAt(j, {"publish"}) = {}
        /\ \A b \in CallsAt(j, {"fresh", "holding"}) :
              applied[j] = 0 /\ \A d \in CallsAt(j, {"fresh", "holding"}) : b = d
        /\ \A b \in CallsAt(j, {"publish"}) :
              hinted[j] = 0 /\ \A d \in CallsAt(j, {"publish"}) : b = d
    BY DEF KeyInv
  <2>2. CallsAt(j, {"fresh", "holding"})' = CallsAt(j, {"fresh", "holding"})
        /\ CallsAt(j, {"publish"})' \subseteq CallsAt(j, {"publish"})
    BY DEF CallsAt, Moved
  <2>3. \A b \in Attempts :
          att'[b].key = j /\ att'[b].pc \notin {"idle", "scoped"} => b # a /\ att[b] = att'[b]
    BY DEF Moved
  <2>4. CASE j # k
    <3>1. hinted'[j] = hinted[j]
      BY <2>4
    <3> QED BY <2>1, <2>2, <2>3, <2>4, <3>1 DEF StatusKept
  <2>5. CASE j = k
    <3>1. a \in CallsAt(j, {"publish"})
      BY <2>5 DEF CallsAt
    <3>2. hinted[j] = 0 /\ \A d \in CallsAt(j, {"publish"}) : a = d
      BY <2>1, <3>1
    <3>3. CallsAt(j, {"publish"})' = {}
      BY <3>2 DEF CallsAt, Moved
    <3>4. hinted'[j] = 1
      BY <2>5, <3>2
    <3>5. ~(audit[j] = None /\ status # "removed")
      BY <2>1, <2>5
    <3>6. ~(audit[j] # None /\ audit[j].outcome = "attempted")
      BY <2>1, <3>1
    <3> QED BY <2>1, <2>2, <3>3, <3>4, <3>5, <3>6 DEF StatusKept
  <2> QED BY <2>4, <2>5
<1> QED BY <1>1 DEF KeyInv

LEMMA OwnerPublishOK ==
    ASSUME AppDataInv, NEW a \in Attempts, OwnerPublish(a)
    PROVE  AppDataInv'
<1>1. /\ att[a].pc = "publish" /\ PublishHint(att[a].m) /\ AttemptEnds(a) /\ OwnerLeaves
      /\ UNCHANGED <<store, db, file, removed, audit, applied, drawn, budget>>
  BY DEF OwnerPublish, store
<1>2. PICK k \in Requests : k = att[a].key
  BY <1>1, InvParts DEF OwnerTyped
<1>3. hinted' = [hinted EXCEPT ![k] = @ + 1]
  BY <1>2 DEF OwnerPublish, Key
<1>4. Moved(a, "idle") /\ ~Quiet
  BY <1>1, InvParts, AttemptEndsMoves, NotQuiet
<1>5. /\ StatusKept /\ ControlTyped' /\ RequestsTyped' /\ FoundInv'
      /\ DataTyped' /\ DataGranted' /\ UNCHANGED <<req, data, purge, gone>>
  BY <1>1, OwnerLeavesResult
<1>6. hinted \in [Requests -> Nat]
  BY InvParts DEF OwnerTyped
<1>7. KeyInv'
  BY <1>1, <1>2, <1>3, <1>4, <1>5, <1>6, InvParts, KeyPublishes
<1>8. hinted' \in [Requests -> Nat]
  BY <1>3, <1>6
<1>9. OwnerTyped'
  BY <1>1, <1>4, <1>8, InvParts DEF OwnerTyped, Moved
<1>10. PendingEnds
  BY <1>1, <1>4, <1>5, OwnerPendingEnds
<1>11. DocumentInv'
  BY <1>1, <1>10, InvParts, DocumentsEnd
<1>12. HintInv' /\ RestTyped'
  BY <1>1, <1>5, InvParts, HintPublished
<1>13. BudgetTyped' /\ StoreTyped' /\ RemovalInv'
  BY <1>1, <1>4, <1>5, InvParts, BudgetFrame, StoreFrame, RemovalFrame
<1> QED BY <1>5, <1>7, <1>9, <1>11, <1>12, <1>13, InvPartsNext

LEMMA OwnerStepOK ==
    ASSUME AppDataInv, NEW a \in Attempts, OwnerStep(a)
    PROVE  AppDataInv'
  BY dataScopeOK, dataMutationIntentOK, OwnerHoldOK, OwnerCommitOK, ReconcileOK,
     ReplayOK, dataMutationCompleteOK, OwnerPublishOK, AttemptFailsOK DEF OwnerStep

-----------------------------------------------------------------------------
(***************************************************************************)
(* The browser that follows a collection.                                  *)
(***************************************************************************)

LEMMA RefreshResult ==
    ASSUME NEW s \in Browsers
    PROVE  /\ refresh(s) \in Browsers
           /\ refresh(s).hints = s.hints /\ refresh(s).heard = s.heard
           /\ refresh(s).read = s.read /\ refresh(s).view = s.view
           /\ refresh(s).failed = s.failed
           /\ refresh(s).snap = IF s.snap = "idle" THEN "sent" ELSE s.snap
           /\ s.snap # "idle" => refresh(s).dirty
  BY DEF Browsers, refresh

LEMMA SettleResult ==
    ASSUME NEW s \in Browsers
    PROVE  /\ Settle(s) \in Browsers
           /\ Settle(s).hints = s.hints /\ Settle(s).heard = s.heard
           /\ Settle(s).read = s.read /\ Settle(s).view = s.view
           /\ Settle(s).failed = s.failed
           /\ Settle(s).snap \in {"idle", "sent"}
           /\ Settle(s).snap = "idle" => ~s.dirty
  BY DEF Browsers, Settle

\* What the browser leaves alone.
LEMMA SubLeavesResult ==
    ASSUME AppDataInv, SubLeaves
    PROVE  /\ StatusKept /\ ControlTyped' /\ RequestsTyped' /\ FoundInv'
           /\ DataTyped' /\ DataGranted' /\ OwnerTyped' /\ KeyInv' /\ (Quiet => Quiet')
           /\ UNCHANGED <<purge, gone, data, att, drawn>>
<1>1. UNCHANGED <<control, req, held, data, att, owner, purge, gone, drawn>>
  BY DEF SubLeaves, owner, deletion
<1>2. StatusKept
  BY <1>1, InvParts, ControlFrame
<1> QED BY <1>1, <1>2, InvParts, RequestsFrame, DataFrame, GrantedFrame, OwnerFrame,
           KeyFrame, QuietFrame DEF StatusKept

\* A step of the browser alone.
LEMMA BrowserStep ==
    ASSUME AppDataInv, SubLeaves, UNCHANGED <<db, file, handle, removed>>,
           conn' \in {None, "list"}, BudgetTyped', sub' \in Browsers, HintInv'
    PROVE  AppDataInv'
<1>1. /\ StatusKept /\ ControlTyped' /\ RequestsTyped' /\ FoundInv'
      /\ DataTyped' /\ DataGranted' /\ OwnerTyped' /\ KeyInv' /\ (Quiet => Quiet')
      /\ UNCHANGED <<purge, gone, data, att, drawn>>
  BY SubLeavesResult
<1>2. StoreTyped'
  BY <1>1, InvParts DEF StoreTyped
<1>3. RestTyped'
  BY <1>1, InvParts DEF RestTyped
<1>4. RemovalInv' /\ DocumentInv'
  BY <1>1, InvParts, RemovalFrame, DocumentFrame
<1> QED BY <1>1, <1>2, <1>3, <1>4, InvPartsNext

\* The parts of the hint invariant by the fields of the browser.
HintParts(s, leaving, rev) ==
    /\ ~leaving => s.heard <= rev /\ \A h \in s.hints : h <= rev
    /\ s.snap = "docs" /\ ~s.dirty => s.heard <= s.read
    /\ s.snap = "idle" /\ ~s.failed => s.view >= s.heard

LEMMA HintByParts ==
    /\ HintInv <=> HintParts(sub, Leaving, db.rev[Watched])
    /\ HintInv' <=> HintParts(sub', Leaving', db'.rev[Watched])
  BY DEF HintInv, HintParts, HintsAreSeen

LEMMA BrowserFacts ==
    ASSUME AppDataInv
    PROVE  /\ sub \in Browsers /\ conn \in {None, "list"}
           /\ HintParts(sub, Leaving, db.rev[Watched])
           /\ db.rev[Watched] \in Nat
  BY InvParts, HintByParts, RevisionIsNat DEF RestTyped, StoreTyped

LEMMA ConnectOK ==
    ASSUME AppDataInv, Connect
    PROVE  AppDataInv'
<1>1. /\ Spend("connect") /\ SubLeaves /\ UNCHANGED <<db, file, handle, removed, conn>>
      /\ sub' = refresh([sub EXCEPT !.on = TRUE])
  BY DEF Connect, store
<1> DEFINE s == [sub EXCEPT !.on = TRUE]
<1>2. /\ s \in Browsers /\ s.hints = sub.hints /\ s.heard = sub.heard /\ s.read = sub.read
      /\ s.view = sub.view /\ s.failed = sub.failed /\ s.snap = sub.snap
      /\ s.dirty = sub.dirty
  BY BrowserFacts DEF Browsers
<1>3. sub' = refresh(s)
  BY <1>1
<1> HIDE DEF s
<1>4. StatusKept
  BY <1>1, SubLeavesResult
<1>5. HintParts(sub', Leaving', db'.rev[Watched])
  BY <1>1, <1>2, <1>3, <1>4, BrowserFacts, RefreshResult DEF HintParts, StatusKept
<1>6. BudgetTyped'
  BY <1>1, InvParts, SpendTyped DEF Events
<1> QED BY <1>1, <1>2, <1>3, <1>5, <1>6, BrowserFacts, RefreshResult, HintByParts, BrowserStep

LEMMA ServerSubscribesOK ==
    ASSUME AppDataInv, ServerSubscribes
    PROVE  AppDataInv'
<1>1. /\ SubLeaves /\ UNCHANGED <<db, file, handle, removed, conn, budget>>
      /\ sub' = [sub EXCEPT !.srv = TRUE]
  BY DEF ServerSubscribes, store
<1>2. /\ sub' \in Browsers /\ sub'.hints = sub.hints /\ sub'.heard = sub.heard
      /\ sub'.read = sub.read /\ sub'.view = sub.view /\ sub'.failed = sub.failed
      /\ sub'.snap = sub.snap /\ sub'.dirty = sub.dirty
  BY <1>1, BrowserFacts DEF Browsers
<1>3. StatusKept
  BY <1>1, SubLeavesResult
<1>4. HintParts(sub', Leaving', db'.rev[Watched])
  BY <1>1, <1>2, <1>3, BrowserFacts DEF HintParts, StatusKept
<1> QED BY <1>1, <1>2, <1>4, InvParts, BudgetFrame, BrowserFacts, HintByParts, BrowserStep

LEMMA ReceiveHintOK ==
    ASSUME AppDataInv, ReceiveHint
    PROVE  AppDataInv'
<1>1. SubLeaves /\ UNCHANGED <<db, file, handle, removed, conn, budget>>
  BY DEF ReceiveHint, store
<1>2. PICK h \in sub.hints :
        sub' = refresh([sub EXCEPT !.hints = @ \ {h}, !.heard = IF h > @ THEN h ELSE @])
  BY DEF ReceiveHint
<1> DEFINE s == [sub EXCEPT !.hints = @ \ {h}, !.heard = IF h > @ THEN h ELSE @]
<1>3. sub \in Browsers /\ h \in Nat /\ sub.heard \in Nat
  BY BrowserFacts DEF Browsers
<1>4. /\ s \in Browsers /\ s.hints = sub.hints \ {h}
      /\ s.heard = (IF h > sub.heard THEN h ELSE sub.heard)
      /\ s.read = sub.read /\ s.view = sub.view /\ s.failed = sub.failed
      /\ s.snap = sub.snap /\ s.dirty = sub.dirty
  BY <1>3 DEF Browsers
<1>5. sub' = refresh(s)
  BY <1>2
<1> HIDE DEF s
<1>6. StatusKept
  BY <1>1, SubLeavesResult
<1>7. ~Leaving => s.heard <= db.rev[Watched] /\ \A g \in s.hints : g <= db.rev[Watched]
  BY <1>4, BrowserFacts DEF HintParts
<1>8. HintParts(sub', Leaving', db'.rev[Watched])
  BY <1>1, <1>4, <1>5, <1>6, <1>7, RefreshResult DEF HintParts, StatusKept
<1> QED BY <1>1, <1>4, <1>5, <1>8, InvParts, BudgetFrame, BrowserFacts, RefreshResult,
           HintByParts, BrowserStep

LEMMA DisconnectOK ==
    ASSUME AppDataInv, Disconnect
    PROVE  AppDataInv'
<1>1. /\ SubLeaves /\ UNCHANGED <<db, file, handle, removed, conn, budget>>
      /\ sub' = [sub EXCEPT !.on = FALSE, !.srv = FALSE, !.hints = {}]
  BY DEF Disconnect, store
<1>2. /\ sub' \in Browsers /\ sub'.hints = {} /\ sub'.heard = sub.heard
      /\ sub'.read = sub.read /\ sub'.view = sub.view /\ sub'.failed = sub.failed
      /\ sub'.snap = sub.snap /\ sub'.dirty = sub.dirty
  BY <1>1, BrowserFacts DEF Browsers
<1>3. StatusKept
  BY <1>1, SubLeavesResult
<1>4. HintParts(sub', Leaving', db'.rev[Watched])
  BY <1>1, <1>2, <1>3, BrowserFacts DEF HintParts, StatusKept
<1> QED BY <1>1, <1>2, <1>4, InvParts, BudgetFrame, BrowserFacts, HintByParts, BrowserStep

LEMMA ListDocumentsOK ==
    ASSUME AppDataInv, ListDocuments
    PROVE  AppDataInv'
<1>1. /\ status = "active" /\ Opened /\ SubLeaves /\ UNCHANGED <<db, budget>>
      /\ sub' = [sub EXCEPT !.snap = "docs", !.read = db.rev[Watched]]
      /\ conn' \in {None, "list"}
  BY DEF ListDocuments
<1>2. /\ StatusKept /\ ControlTyped' /\ RequestsTyped' /\ FoundInv'
      /\ DataTyped' /\ DataGranted' /\ OwnerTyped' /\ KeyInv' /\ (Quiet => Quiet')
      /\ UNCHANGED <<purge, gone, data, att, drawn>>
  BY <1>1, SubLeavesResult
<1>3. /\ sub' \in Browsers /\ sub'.hints = sub.hints /\ sub'.heard = sub.heard
      /\ sub'.read = db.rev[Watched] /\ sub'.snap = "docs"
  BY <1>1, BrowserFacts DEF Browsers
<1>4. ~Leaving
  BY <1>1 DEF Leaving
<1>5. HintParts(sub', Leaving', db'.rev[Watched])
  BY <1>1, <1>2, <1>3, <1>4, BrowserFacts DEF HintParts, StatusKept
<1>6. StoreTyped' /\ BudgetTyped' /\ RemovalInv' /\ DocumentInv'
  BY <1>1, <1>2, <1>4, InvParts, OpenedTyped, BudgetFrame, OpenedKeeps, DocumentFrame
<1>7. RestTyped'
  BY <1>2, <1>3, InvParts DEF RestTyped
<1> QED BY <1>2, <1>5, <1>6, <1>7, HintByParts, InvPartsNext

LEMMA ListRevisionOK ==
    ASSUME AppDataInv, ListRevision
    PROVE  AppDataInv'
<1>1. /\ SubLeaves /\ UNCHANGED <<db, file, handle, removed, conn, budget>>
      /\ sub.snap = "docs"
      /\ sub' = Settle([sub EXCEPT !.view = sub.read, !.failed = FALSE])
  BY DEF ListRevision, store
<1> DEFINE s == [sub EXCEPT !.view = sub.read, !.failed = FALSE]
<1>2. /\ s \in Browsers /\ s.hints = sub.hints /\ s.heard = sub.heard /\ s.read = sub.read
      /\ s.view = sub.read /\ s.dirty = sub.dirty /\ s.heard \in Nat /\ s.read \in Nat
  BY BrowserFacts DEF Browsers
<1>3. sub' = Settle(s)
  BY <1>1
<1> HIDE DEF s
<1>4. StatusKept
  BY <1>1, SubLeavesResult
<1>5. ~s.dirty => s.view >= s.heard
  BY <1>1, <1>2, BrowserFacts DEF HintParts
<1>6. HintParts(sub', Leaving', db'.rev[Watched])
  BY <1>1, <1>2, <1>3, <1>4, <1>5, BrowserFacts, SettleResult DEF HintParts, StatusKept
<1> QED BY <1>1, <1>2, <1>3, <1>6, InvParts, BudgetFrame, BrowserFacts, SettleResult,
           HintByParts, BrowserStep

LEMMA SnapshotFailsOK ==
    ASSUME AppDataInv, SnapshotFails
    PROVE  AppDataInv'
<1>1. /\ SubLeaves /\ UNCHANGED <<db, file, handle, removed, budget>> /\ conn' = None
      /\ sub' = Settle([sub EXCEPT !.failed = TRUE])
  BY DEF SnapshotFails
<1> DEFINE s == [sub EXCEPT !.failed = TRUE]
<1>2. s \in Browsers /\ s.hints = sub.hints /\ s.heard = sub.heard /\ s.failed = TRUE
  BY BrowserFacts DEF Browsers
<1>3. sub' = Settle(s)
  BY <1>1
<1> HIDE DEF s
<1>4. StatusKept
  BY <1>1, SubLeavesResult
<1>5. /\ sub'.hints = sub.hints /\ sub'.heard = sub.heard /\ sub'.snap # "docs"
      /\ sub'.failed = TRUE
  BY <1>2, <1>3, SettleResult
<1>6. HintParts(sub', Leaving', db'.rev[Watched])
  BY <1>1, <1>4, <1>5, BrowserFacts DEF HintParts, StatusKept
<1> QED BY <1>1, <1>2, <1>3, <1>6, InvParts, BudgetFrame, SettleResult,
           HintByParts, BrowserStep

LEMMA SubscriberStepOK ==
    ASSUME AppDataInv, SubscriberStep
    PROVE  AppDataInv'
  BY ConnectOK, ServerSubscribesOK, ReceiveHintOK, DisconnectOK, ListDocumentsOK,
     ListRevisionOK, SnapshotFailsOK DEF SubscriberStep

-----------------------------------------------------------------------------
(***************************************************************************)
(* Deletion and restart.                                                   *)
(***************************************************************************)

LEMMA EvictOK ==
    ASSUME AppDataInv, Evict
    PROVE  AppDataInv'
<1>1. UNCHANGED <<control, req, held, budget, db, file, removed, conn, data, att, owner,
                  purge, gone, sub, drawn>> /\ handle' = FALSE
  BY DEF Evict, owner, deletion
<1>2. StatusKept /\ ControlTyped' /\ RequestsTyped' /\ FoundInv'
  BY <1>1, InvParts, ControlFrame, RequestsFrame DEF StatusKept
<1>3. StoreTyped'
  BY <1>1, InvParts DEF StoreTyped
<1>4. BudgetTyped' /\ DataTyped' /\ DataGranted' /\ OwnerTyped' /\ RestTyped'
  BY <1>1, InvParts, BudgetFrame, DataFrame, GrantedFrame, OwnerFrame, RestFrame
<1>5. RemovalInv' /\ HintInv' /\ KeyInv' /\ DocumentInv'
  BY <1>1, <1>2, InvParts, RemovalFrame, QuietFrame, HintFrame, KeyFrame, DocumentFrame
<1> QED BY <1>2, <1>3, <1>4, <1>5, InvPartsNext

\* What the steps of a deletion leave alone.
LEMMA DeletionLeavesResult ==
    ASSUME AppDataInv, DeletionLeaves, UNCHANGED req
    PROVE  /\ DataTyped' /\ DataGranted' /\ (Quiet => Quiet')
           /\ UNCHANGED <<data, att, applied, hinted, sub, drawn, conn>>
<1>1. UNCHANGED <<data, att, applied, hinted, sub, drawn, conn>>
  BY DEF DeletionLeaves
<1> QED BY <1>1, InvParts, DataFrame, GrantedFrame, QuietFrame

LEMMA DeleteAppOK ==
    ASSUME AppDataInv, DeleteApp
    PROVE  AppDataInv'
<1>1. /\ status \in {"active", "suspended", "deleting"} /\ status' = "deleting"
      /\ purge' = "asked" /\ Spend("delete") /\ Witness /\ DeletionLeaves
      /\ UNCHANGED <<active, mode, admits, gate, session, req, file, handle,
                     removed, gone, db, audit>>
  BY DEF DeleteApp
<1>2. /\ DataTyped' /\ DataGranted' /\ (Quiet => Quiet')
      /\ UNCHANGED <<data, att, applied, hinted, sub, drawn, conn>>
  BY <1>1, DeletionLeavesResult
<1>3. ControlTyped' /\ Leaving' /\ (status' = "removed" <=> status = "removed")
  BY <1>1, InvParts DEF ControlTyped, Leaving
<1>4. RequestsTyped' /\ FoundInv' /\ BudgetTyped'
  BY <1>1, InvParts, WitnessFrame, SpendTyped DEF Events
<1>5. StoreTyped' /\ OwnerTyped' /\ RestTyped'
  BY <1>1, <1>2, InvParts DEF StoreTyped, OwnerTyped, RestTyped
<1>6. RemovalInv'
  BY <1>1, <1>2, <1>3, InvParts DEF RemovalInv
<1>7. HintInv'
  BY <1>2, <1>3, InvParts DEF HintInv, HintsAreSeen
<1>8. KeyInv'
  BY <1>1, <1>2, <1>3, InvParts DEF KeyInv, CallsAt
<1>9. DocumentInv'
  BY <1>1, <1>2, InvParts, DocumentFrame
<1> QED BY <1>2, <1>3, <1>4, <1>5, <1>6, <1>7, <1>8, <1>9, InvPartsNext

LEMMA RemoveMarkOK ==
    ASSUME AppDataInv, RemoveMark
    PROVE  AppDataInv'
<1>1. /\ purge = "asked" /\ removed' = TRUE /\ purge' \in {"failed", "removing"}
      /\ handle' \in {handle, FALSE} /\ DeletionLeaves
      /\ UNCHANGED <<control, req, held, budget, db, file, gone, audit>>
  BY DEF RemoveMark
<1>2. /\ DataTyped' /\ DataGranted' /\ (Quiet => Quiet')
      /\ UNCHANGED <<data, att, applied, hinted, sub, drawn, conn>>
  BY <1>1, DeletionLeavesResult
<1>3. StatusKept /\ ControlTyped' /\ RequestsTyped' /\ FoundInv' /\ BudgetTyped'
  BY <1>1, InvParts, ControlFrame, RequestsFrame, BudgetFrame DEF StatusKept
<1>4. StoreTyped' /\ OwnerTyped' /\ RestTyped'
  BY <1>1, <1>2, InvParts DEF StoreTyped, OwnerTyped, RestTyped
<1>5. RemovalInv'
  BY <1>1, <1>3, InvParts DEF RemovalInv, StatusKept
<1>6. UNCHANGED owner
  BY <1>1, <1>2 DEF owner
<1>7. HintInv' /\ KeyInv' /\ DocumentInv'
  BY <1>1, <1>2, <1>3, <1>6, InvParts, HintFrame, KeyFrame, DocumentFrame
<1> QED BY <1>2, <1>3, <1>4, <1>5, <1>7, InvPartsNext

LEMMA EmptyDatabaseTyped ==
    EmptyDatabase \in Databases /\ \A n \in Names : EmptyDatabase.rec[n] = Absent
  BY DEF EmptyDatabase, Databases

LEMMA RemoveAllOK ==
    ASSUME AppDataInv, RemoveAll
    PROVE  AppDataInv'
<1>1. /\ purge = "removing" /\ file' = FALSE /\ db' = EmptyDatabase
      /\ purge' = "purged" /\ gone' = TRUE /\ DeletionLeaves
      /\ UNCHANGED <<control, req, held, budget, handle, removed, audit>>
  BY DEF RemoveAll
<1>2. /\ DataTyped' /\ DataGranted' /\ (Quiet => Quiet')
      /\ UNCHANGED <<data, att, applied, hinted, sub, drawn, conn>>
  BY <1>1, DeletionLeavesResult
<1>3. StatusKept /\ ControlTyped' /\ RequestsTyped' /\ FoundInv' /\ BudgetTyped'
  BY <1>1, InvParts, ControlFrame, RequestsFrame, BudgetFrame DEF StatusKept
<1>4. StoreTyped' /\ OwnerTyped' /\ RestTyped'
  BY <1>1, <1>2, InvParts, EmptyDatabaseTyped DEF StoreTyped, OwnerTyped, RestTyped
<1>5. Leaving /\ Leaving' /\ removed
  BY <1>1, <1>3, InvParts DEF RemovalInv, StatusKept
<1>6. RemovalInv'
  BY <1>1, <1>5 DEF RemovalInv
<1>7. HintInv'
  BY <1>2, <1>5, InvParts DEF HintInv, HintsAreSeen
<1>8. UNCHANGED owner
  BY <1>1, <1>2 DEF owner
<1>9. KeyInv'
  BY <1>3, <1>8, InvParts, KeyFrame
<1>10. PendingEnds
  BY <1>2 DEF PendingEnds, Creators, OwnerCreators
<1>11. DocumentInv'
  BY <1>1, <1>10, InvParts, DocumentsEnd, EmptyDatabaseTyped DEF Names
<1> QED BY <1>2, <1>3, <1>4, <1>6, <1>7, <1>9, <1>11, InvPartsNext

LEMMA DeleteRowsOK ==
    ASSUME AppDataInv, DeleteRows
    PROVE  AppDataInv'
<1>1. /\ status = "deleting" /\ status' = "removed"
      /\ audit' = [k \in Requests |-> None] /\ Witness /\ DeletionLeaves
      /\ UNCHANGED <<active, mode, admits, gate, session, req, budget, db, file,
                     handle, removed, purge, gone>>
  BY DEF DeleteRows, deletion
<1>2. /\ DataTyped' /\ DataGranted' /\ (Quiet => Quiet')
      /\ UNCHANGED <<data, att, applied, hinted, sub, drawn, conn>>
  BY <1>1, DeletionLeavesResult
<1>3. ControlTyped' /\ Leaving' /\ Leaving
  BY <1>1, InvParts DEF ControlTyped, Leaving
<1>4. RequestsTyped' /\ FoundInv' /\ BudgetTyped'
  BY <1>1, InvParts, WitnessFrame, BudgetFrame
<1>5. StoreTyped' /\ OwnerTyped' /\ RestTyped'
  BY <1>1, <1>2, InvParts DEF StoreTyped, OwnerTyped, RestTyped
<1>6. RemovalInv'
  BY <1>1, <1>2, <1>3, InvParts DEF RemovalInv
<1>7. HintInv'
  BY <1>2, <1>3, InvParts DEF HintInv, HintsAreSeen
<1>8. KeyInv'
  BY <1>1, <1>2, InvParts DEF KeyInv, CallsAt
<1>9. DocumentInv'
  BY <1>1, <1>2, InvParts, DocumentFrame
<1> QED BY <1>2, <1>3, <1>4, <1>5, <1>6, <1>7, <1>8, <1>9, InvPartsNext

LEMMA CrashBrowser ==
    ASSUME sub \in Browsers, HintInv, StatusKept, UNCHANGED db,
           LET s == [sub EXCEPT !.on = FALSE, !.srv = FALSE, !.hints = {}]
           IN sub' = IF s.snap = "idle" THEN s ELSE Settle([s EXCEPT !.failed = TRUE])
    PROVE  sub' \in Browsers /\ HintInv'
<1> DEFINE s == [sub EXCEPT !.on = FALSE, !.srv = FALSE, !.hints = {}]
<1> DEFINE t == [s EXCEPT !.failed = TRUE]
<1>1. /\ s \in Browsers /\ s.hints = {} /\ s.heard = sub.heard /\ s.read = sub.read
      /\ s.view = sub.view /\ s.failed = sub.failed /\ s.snap = sub.snap
  BY DEF Browsers
<1>2. sub' = IF s.snap = "idle" THEN s ELSE Settle(t)
  OBVIOUS
<1> HIDE DEF s
<1>3. t \in Browsers /\ t.hints = {} /\ t.heard = sub.heard /\ t.failed = TRUE
  BY <1>1 DEF Browsers
<1> HIDE DEF t
<1>4. HintParts(sub, Leaving, db.rev[Watched])
  BY HintByParts
<1>5. CASE s.snap = "idle"
  <2>1. sub' = s
    BY <1>2, <1>5
  <2>2. HintParts(sub', Leaving', db'.rev[Watched])
    BY <1>1, <1>4, <1>5, <2>1 DEF HintParts, StatusKept
  <2> QED BY <1>1, <2>1, <2>2, HintByParts
<1>6. CASE s.snap # "idle"
  <2>1. sub' = Settle(t)
    BY <1>2, <1>6
  <2>2. /\ sub' \in Browsers /\ sub'.hints = {} /\ sub'.heard = sub.heard
        /\ sub'.snap # "docs" /\ sub'.failed = TRUE
    BY <1>3, <2>1, SettleResult
  <2>3. HintParts(sub', Leaving', db'.rev[Watched])
    BY <1>4, <2>2 DEF HintParts, StatusKept
  <2> QED BY <2>2, <2>3, HintByParts
<1> QED BY <1>5, <1>6

LEMMA CrashOK ==
    ASSUME AppDataInv, Crash
    PROVE  AppDataInv'
<1>1. /\ Spend("crash") /\ Witness
      /\ handle' = FALSE /\ removed' = FALSE /\ conn' = None /\ purge' = "none"
      /\ UNCHANGED <<control, db, file, audit, applied, hinted, gone, drawn>>
  BY DEF Crash
<1>2. req' = [c \in Callers |-> IdleRequest]
  BY DEF Crash
<1>3. data' = [c \in Callers |-> [data[c] EXCEPT !.pc = "none", !.op = NoMutation]]
  BY DEF Crash
<1>4. att' = [a \in Attempts |-> IdleAttempt]
  BY DEF Crash
<1>5. StatusKept /\ ControlTyped'
  BY <1>1, InvParts, ControlFrame DEF StatusKept
<1>6. BudgetTyped'
  BY <1>1, InvParts, SpendTyped DEF Events
<1>7. IdleRequest \in RequestRow /\ IdleRequest.pc = "idle" /\ ~IdleRequest.public
  BY DEF IdleRequest, RequestRow, RequestPCs, Kinds
<1>8. RequestsTyped' /\ FoundInv'
  <2>1. held' \in [Callers -> SUBSET Conditions]
    BY <1>1, InvParts, WitnessResult DEF RequestsTyped
  <2>2. Found(IdleRequest) = {}
    BY <1>7 DEF Found
  <2>3. FoundInv'
    BY <1>2, <1>7, <2>2 DEF FoundInv, Found, Needs
  <2> QED BY <1>2, <1>7, <2>1, <2>3 DEF RequestsTyped
<1>9. ASSUME NEW c \in Callers
      PROVE  data'[c] \in DataRequests /\ data'[c].pc = "none" /\ data'[c].seen = data[c].seen
  <2>1. data[c] \in DataRequests
    BY InvParts DEF DataTyped
  <2> QED BY <1>3, <2>1 DEF DataRequests, AnyMutation
<1>10. DataTyped' /\ DataGranted'
  BY <1>3, <1>9 DEF DataTyped, DataGranted
<1>11. IdleAttempt \in Calls /\ IdleAttempt.pc = "idle"
  BY DEF IdleAttempt, Calls, AnyMutation
<1>12. OwnerTyped'
  BY <1>1, <1>4, <1>11, InvParts DEF OwnerTyped
<1>13. StoreTyped'
  BY <1>1, InvParts DEF StoreTyped
<1>14. sub' \in Browsers /\ HintInv'
  <2>1. sub \in Browsers /\ HintInv
    BY InvParts DEF RestTyped
  <2>2. LET s == [sub EXCEPT !.on = FALSE, !.srv = FALSE, !.hints = {}]
        IN sub' = IF s.snap = "idle" THEN s ELSE Settle([s EXCEPT !.failed = TRUE])
    BY DEF Crash
  <2> QED BY <1>1, <1>5, <2>1, <2>2, CrashBrowser
<1>15. RestTyped'
  BY <1>1, <1>14, InvParts DEF RestTyped
<1>16. Quiet'
  BY <1>2, <1>4, <1>7, <1>11 DEF Quiet
<1>17. RemovalInv'
  BY <1>1, <1>5, <1>16, InvParts DEF RemovalInv, StatusKept
<1>18. KeyInv'
  <2>1. ASSUME NEW k \in Requests
        PROVE  /\ CallsAt(k, {"publish"})' \subseteq CallsAt(k, {"publish"})
               /\ CallsAt(k, {"fresh", "holding"})' \subseteq CallsAt(k, {"fresh", "holding"})
               /\ \A b \in Attempts : att'[b].pc = "idle"
    BY <1>4, <1>11 DEF CallsAt
  <2> QED BY <1>1, <1>5, <2>1, InvParts, KeyShrinks
<1>19. PendingEnds
  BY <1>1, <1>4, <1>9, <1>11 DEF PendingEnds, Creators, OwnerCreators
<1>20. DocumentInv'
  BY <1>1, <1>19, InvParts, DocumentsEnd
<1> QED BY <1>5, <1>6, <1>8, <1>10, <1>12, <1>13, <1>14, <1>15, <1>17, <1>18, <1>20,
           InvPartsNext

-----------------------------------------------------------------------------
(***************************************************************************)
(* The invariant holds, and what follows from it.                          *)
(***************************************************************************)

LEMMA InitOK == Init => AppDataInv
<1> SUFFICES ASSUME Init PROVE AppDataInv
  OBVIOUS
<1>1. ControlTyped
  BY DEF Init, GatewayInit, ControlTyped, ModeOf
<1>2. BudgetTyped
  BY BudgetsType DEF Init, GatewayInit, BudgetTyped
<1>3. IdleRequest \in RequestRow /\ IdleRequest.pc = "idle" /\ ~IdleRequest.public
  BY DEF IdleRequest, RequestRow, RequestPCs, Kinds
<1>4. RequestsTyped /\ FoundInv
  <2>1. Found(IdleRequest) = {}
    BY <1>3 DEF Found
  <2> QED BY <1>3, <2>1 DEF Init, GatewayInit, RequestsTyped, FoundInv
<1>5. IdleData \in DataRequests /\ IdleData.pc = "none" /\ IdleData.seen.entry = Absent
  BY DEF IdleData, DataRequests, AnyMutation, Nothing
<1>6. IdleAttempt \in Calls /\ IdleAttempt.pc = "idle"
  BY DEF IdleAttempt, Calls, AnyMutation
<1>7. DataTyped /\ DataGranted
  BY <1>5 DEF Init, DataTyped, DataGranted
<1>8. OwnerTyped
  BY <1>6 DEF Init, OwnerTyped
<1>9. StoreTyped
  BY EmptyDatabaseTyped DEF Init, StoreTyped
<1>10. NewBrowser \in Browsers /\ NewBrowser.hints = {} /\ NewBrowser.heard = 0
       /\ NewBrowser.snap = "idle" /\ NewBrowser.view = 0
  BY DEF NewBrowser, Browsers
<1>11. RestTyped
  BY <1>10 DEF Init, RestTyped
<1>12. RemovalInv
  BY DEF Init, RemovalInv
<1>13. HintInv
  <2>1. db.rev[Watched] \in Nat /\ sub = NewBrowser
    BY <1>9, RevisionIsNat DEF StoreTyped, Init
  <2> QED BY <1>10, <2>1 DEF HintInv, HintsAreSeen
<1>14. KeyInv
  <2>1. \A k \in Requests : /\ applied[k] = 0 /\ hinted[k] = 0 /\ audit[k] = None
                            /\ CallsAt(k, {"publish"}) = {}
                            /\ CallsAt(k, {"fresh", "holding"}) = {}
    BY <1>6 DEF Init, CallsAt
  <2>2. \A a \in Attempts : att[a].pc = "idle"
    BY <1>6 DEF Init
  <2> QED BY <2>1, <2>2 DEF KeyInv
<1>15. DocumentInv
  <2>1. \A c \in Callers : data[c].pc = "none" /\ data[c].seen.entry = Absent
    BY <1>5 DEF Init
  <2>2. \A i \in Ids : /\ Creators(i) = {} /\ OwnerCreators(i) = {}
                       /\ db.rec[i] = Absent /\ \A c \in Callers : ~Seen(c, i)
    BY <1>6, <2>1, EmptyDatabaseTyped DEF Init, Creators, OwnerCreators, Seen, Names
  <2> QED BY <2>1, <2>2 DEF DocumentInv
<1> QED BY <1>1, <1>2, <1>4, <1>7, <1>8, <1>9, <1>11, <1>12, <1>13, <1>14, <1>15, InvParts

LEMMA StutterOK ==
    ASSUME AppDataInv, UNCHANGED vars
    PROVE  AppDataInv'
<1>1. /\ UNCHANGED <<control, req, held, budget, store, data, owner, purge, gone, sub, drawn>>
      /\ UNCHANGED <<db, file, removed, att>>
  BY DEF vars, store, owner, deletion
<1>2. StatusKept /\ ControlTyped' /\ RequestsTyped' /\ FoundInv' /\ BudgetTyped'
  BY <1>1, InvParts, ControlFrame, RequestsFrame, BudgetFrame DEF StatusKept
<1>3. StoreTyped' /\ DataTyped' /\ DataGranted' /\ OwnerTyped' /\ RestTyped'
  BY <1>1, InvParts, StoreFrame, DataFrame, GrantedFrame, OwnerFrame, RestFrame
<1>4. RemovalInv' /\ HintInv' /\ KeyInv' /\ DocumentInv'
  BY <1>1, <1>2, InvParts, RemovalFrame, QuietFrame, HintFrame, KeyFrame, DocumentFrame
<1> QED BY <1>2, <1>3, <1>4, InvPartsNext

LEMMA NextOK == AppDataInv /\ [Next]_vars => AppDataInv'
  BY GatewayStepOK, ViewerStepOK, ControlChangeOK, OwnerStepOK, SubscriberStepOK, EvictOK,
     DeleteAppOK, RemoveMarkOK, RemoveAllOK, DeleteRowsOK, CrashOK, StutterOK DEF Next

LEMMA Invariance == Spec => []AppDataInv
  BY InitOK, NextOK, PTL DEF Spec

\* Requests, calls, the browser and both databases keep their types.
THEOREM TypeCorrect == Spec => []TypeOK
<1>1. AppDataInv => TypeOK
  BY DEF AppDataInv
<1> QED BY <1>1, Invariance, PTL

\* Whatever the control plane changes between the queries of Gateway.ServeHTTP,
\* a granted request was granted on what has been true since it began.
THEOREM GrantsAreCurrent == Spec => []NoStaleGrant
<1>1. AppDataInv => NoStaleGrant
  <2> SUFFICES ASSUME AppDataInv, NEW c \in Callers,
                      req[c].pc \in {"granted", "served"}, req[c].kind # "auth"
               PROVE  Needs(req[c]) \subseteq held[c]
    BY DEF NoStaleGrant
  <2> QED BY InvParts, RequestFacts
<1> QED BY <1>1, Invariance, PTL

\* Once AppDatabaseManager.Remove has removed the files of a deleted
\* application nobody creates them again, over failed deletions and restarts.
THEOREM DeletionIsFinal == Spec => []RemovedStaysRemoved
<1>1. AppDataInv => RemovedStaysRemoved
  BY DEF AppDataInv, RemovalInv, RemovedStaysRemoved
<1> QED BY <1>1, Invariance, PTL

\* A browser whose refreshes have come to rest has read the collection after
\* every hint it received: the dirty flag of the SDK's subscription suffices.
THEOREM RefreshesCatchUp == Spec => []HintsAreSeen
<1>1. AppDataInv => HintsAreSeen
  BY DEF AppDataInv, HintInv
<1> QED BY <1>1, Invariance, PTL

\* However many calls the owner makes under one key, and wherever the process
\* dies between the two databases, the mutation is committed and announced at
\* most once: the audit row decides who may commit and who may announce.
THEOREM RetriesAreHarmless == Spec => []OncePerKey
<1>1. AppDataInv => OncePerKey
  BY DEF AppDataInv, KeyInv, OncePerKey
<1> QED BY <1>1, Invariance, PTL

\* A conditional change that is committed replaces what its sender has read.
LEMMA CommitReplacesRead ==
    ASSUME AppDataInv, NEW c \in Callers, Commit(c), data'[c].pc = "committed",
           data[c].op.name \in Ids, data[c].op.exp # NoVersion
    PROVE  data[c].seen = [name |-> data[c].op.name, entry |-> db.rec[data[c].op.name]]
<1>1. data[c].pc = "holding"
  BY DEF Commit
<1>2. PICK m \in Mutations : m = data[c].op
  BY <1>1, InvParts DEF DataTyped
<1>3. Apply(db, m).out = "ok"
  <2>1. ASSUME Apply(db, m).out # "ok" PROVE FALSE
    <3>1. DataDone(c)
      BY <1>2, <2>1 DEF Commit
    <3>2. PICK r : DataIs(c, r) /\ r.pc = "none"
      BY <3>1, InvParts, DataDoneIs
    <3>3. data'[c].pc = "none"
      BY <3>2, InvParts, DataIsResult
    <3> QED BY <3>3
  <2> QED BY <2>1
<1>4. StoreResult(db, m, Apply(db, m))
  BY InvParts, ApplyResult DEF StoreTyped
<1>5. PICK e \in Entries \cup {Absent} : Replaces(db, m, e)
  BY <1>2, <1>3, <1>4 DEF StoreResult, Committed
<1>6. m.kind # "create" /\ Seen(c, m.name) /\ data[c].seen.entry.ver = m.exp
  BY <1>1, <1>2, InvParts DEF DocumentInv
<1>7. db.rec[m.name] # Absent /\ db.rec[m.name].ver = m.exp
  BY <1>2, <1>5, <1>6 DEF Replaces, Stale, VersionOf
<1>8. \/ db.rec[m.name] = data[c].seen.entry
      \/ db.rec[m.name].ver > data[c].seen.entry.ver
  BY <1>2, <1>6, <1>7, InvParts DEF DocumentInv
<1>9. m.exp \in Nat
  BY DEF Mutations
<1>10. db.rec[m.name] = data[c].seen.entry
  BY <1>6, <1>7, <1>8, <1>9
<1>11. data[c].seen \in [name : Names \cup {None}, entry : Entries \cup {Absent}]
  BY InvParts DEF DataTyped, DataRequests
<1>12. data[c].seen = [name |-> data[c].seen.name, entry |-> data[c].seen.entry]
  BY <1>11
<1> QED BY <1>2, <1>6, <1>10, <1>12 DEF Seen

\* Only the transaction of a request takes its call from held to committed.
LEMMA OnlyCommitCommits ==
    ASSUME AppDataInv, [Next]_vars, NEW c \in Callers,
           data[c].pc = "holding", data'[c].pc = "committed"
    PROVE  Commit(c)
<1>1. data' # data
  OBVIOUS
<1>2. ~Crash
  BY InvParts DEF Crash, DataTyped, DataRequests
<1>3. \A a \in Attempts : ~OwnerStep(a)
  BY <1>1 DEF OwnerStep, OwnerLeaves, dataScope, dataMutationIntent, OwnerHold, OwnerCommit,
              Reconcile, Replay, dataMutationComplete, OwnerPublish, AttemptFails
<1>4. ~SubscriberStep
  BY <1>1 DEF SubscriberStep, SubLeaves, Connect, ServerSubscribes, ReceiveHint, Disconnect,
              ListDocuments, ListRevision, SnapshotFails
<1>5. ~(Evict \/ DeleteApp \/ RemoveMark \/ RemoveAll \/ DeleteRows)
  BY <1>1 DEF Evict, DeletionLeaves, DeleteApp, RemoveMark, RemoveAll, DeleteRows
<1>6. ~DataLeaves /\ ~(UNCHANGED vars)
  BY <1>1 DEF DataLeaves, vars
<1>7. PICK d \in Callers : ViewerStep(d)
  BY <1>2, <1>3, <1>4, <1>5, <1>6, Zenon DEF Next
<1>8. DataTyped
  BY InvParts
<1>9. \A n \in Callers : n # d => data'[n] = data[n]
  BY <1>7, <1>8
     DEF ViewerStep, Refuse, Read, Admit, KeyMutation, NewDocument, DocumentMutation, Hold,
         Commit, Publish, DataTo, DataDone, DataTyped
<1>10. d = c
  BY <1>9
<1>11. ~Refuse(c) /\ ~Read(c) /\ ~Admit(c) /\ ~Publish(c)
  BY DEF Refuse, Read, Admit, Publish
<1>12. ~Hold(c)
  BY DEF Hold
<1> QED BY <1>7, <1>10, <1>11, <1>12 DEF ViewerStep

\* No update is lost: a conditional change of a document replaces exactly the
\* document its sender has read, although two databases, an owner and other
\* viewers write meanwhile; a version names one content for ever.
THEOREM NoUpdateIsLost == Spec => NoLostUpdate
<1>1. AppDataInv /\ [Next]_vars =>
        [\A c \in Callers :
           LET op == data[c].op
           IN (/\ data[c].pc = "holding" /\ data'[c].pc = "committed"
               /\ op.name \in Ids /\ op.exp # NoVersion)
              => data[c].seen = [name |-> op.name, entry |-> db.rec[op.name]]]_vars
  BY OnlyCommitCommits, CommitReplacesRead
<1> QED BY <1>1, Invariance, PTL DEF Spec, NoLostUpdate
=============================================================================
