-------------------------------- MODULE AppData --------------------------------
(***************************************************************************)
(* The data of one application in use: viewers through the gateway, its    *)
(* owner through the control API, a browser that follows a collection, and *)
(* the deletion of the application.  They share one handle of the          *)
(* application's database, which has a single connection.                  *)
(*                                                                         *)
(* An owner's mutation spans two databases: an intent in the control       *)
(* database, the mutation in the application's, then the outcome in the    *)
(* control database.  The process may die, and the owner may try again,    *)
(* between any two of them.                                                *)
(***************************************************************************)
EXTENDS Gateway, AppStore

CONSTANTS
    Attempts,     \* concurrent calls of the owner
    Requests,     \* idempotency keys, each with the operation it was sent for
    Watched,      \* the collection a browser follows
    SnapshotLimit

ASSUME WatchedType == Watched \in Collections /\ SnapshotLimit \in Nat

\* A row of audit_events, by its digest and outcome.
Intents == [m : Mutations, outcome : {"attempted", "succeeded"}]
ASSUME NoneIsNoIntent == None \notin Intents

VARIABLES
    db,        \* committed contents of the application's database
    file,      \* the database file exists
    handle,    \* AppDatabaseManager.apps: the file is open
    removed,   \* AppDatabaseManager.removed
    conn,      \* holder of the only connection, between two statements
    data,      \* the API requests of viewers
    att,       \* the calls of the owner
    audit,     \* the intent of each key in audit_events
    purge,     \* DeleteApp of this application
    sub,       \* the browser that follows a collection
    drawn,     \* document ids that have been drawn
    applied,   \* history: how often the mutation of a key was committed
    hinted,    \* history: how often a hint was published for it
    gone       \* history: the namespace of the application was removed

store == <<db, file, handle, removed, conn>>
owner == <<att, audit, applied, hinted>>
deletion == <<purge, gone>>
vars == <<control, req, held, budget, store, data, owner, deletion, sub, drawn>>

NoMutation == [kind |-> "none", name |-> None, val |-> 0, exp |-> 0]
Nothing == [name |-> None, entry |-> Absent]
IdleData == [pc |-> "none", op |-> NoMutation, seen |-> Nothing]
IdleAttempt == [pc |-> "idle", key |-> None, m |-> NoMutation]
NewBrowser == [on |-> FALSE, srv |-> FALSE, hints |-> {}, dirty |-> FALSE,
               snap |-> "idle", read |-> 0, view |-> 0, heard |-> 0,
               failed |-> FALSE]

Init ==
    /\ GatewayInit
    /\ db = EmptyDatabase
    /\ file = FALSE
    /\ handle = FALSE
    /\ removed = FALSE
    /\ conn = None
    /\ data = [c \in Callers |-> IdleData]
    /\ att = [a \in Attempts |-> IdleAttempt]
    /\ audit = [k \in Requests |-> None]
    /\ purge = "none"
    /\ sub = NewBrowser
    /\ drawn = {}
    /\ applied = [k \in Requests |-> 0]
    /\ hinted = [k \in Requests |-> 0]
    /\ gone = FALSE

-----------------------------------------------------------------------------
(***************************************************************************)
(* AppDatabaseManager.  Other applications compete for the open handles,   *)
(* so opening may fail and an unused handle may be closed at any time.     *)
(***************************************************************************)

InUse == \/ \E c \in Callers : data[c].pc = "holding"
         \/ \E a \in Attempts : att[a].pc = "holding"
         \/ sub.snap = "docs"

\* Mutant: the mark left by Remove is not looked at.
AcquireAnyway == handle' = TRUE /\ file' = TRUE

\* Acquire refuses an application that is being removed; a file that is not
\* open is opened, and created with its directory when it does not exist.
Acquire ==
    /\ ~removed
    /\ handle' = TRUE
    /\ file' = TRUE

Opened == Acquire /\ UNCHANGED removed

\* closeIdleLocked and makeRoomLocked.
Evict ==
    /\ handle /\ ~InUse
    /\ handle' = FALSE
    /\ UNCHANGED <<control, req, held, budget, db, file, removed, conn, data,
                   owner, deletion, sub, drawn>>

-----------------------------------------------------------------------------
(***************************************************************************)
(* Freshness hints: the hub forwards a change to the browser when the      *)
(* server has handled its subscription, and says what is committed by now. *)
(***************************************************************************)

PublishHint(m) ==
    sub' = IF m.name \in DocumentsOf(Watched) /\ sub.srv
           THEN [sub EXCEPT !.hints = @ \cup {db.rev[Watched]}]
           ELSE sub

-----------------------------------------------------------------------------
(***************************************************************************)
(* Viewers.  The gateway has granted the request.                          *)
(***************************************************************************)

Granted(c) == req[c].pc = "granted" /\ req[c].kind = "api"

Finish(c, pc) == RequestTo(c, pc) /\ UNCHANGED <<control, budget>> /\ Witness

DataTo(c, pc) == data' = [data EXCEPT ![c].pc = pc]
DataDone(c) == data' = [data EXCEPT ![c].pc = "none", ![c].op = NoMutation]

\* The owner's and the deletion's state.
Others == UNCHANGED <<owner, deletion>>

\* The release has no storage capability, the request is malformed or comes
\* from another origin, a rate bucket is exhausted, or the disk is too full
\* for writes.
Refuse(c) ==
    /\ Granted(c) /\ data[c].pc = "none"
    /\ Finish(c, "denied")
    /\ UNCHANGED <<store, data, sub, drawn>> /\ Others

\* Get of an entry or a document: one statement.
Read(c) ==
    /\ Granted(c) /\ data[c].pc = "none"
    /\ req[c].release \in StorageReleases
    /\ conn = None
    /\ Opened
    /\ \/ \E k \in Keys :
             data' = [data EXCEPT ![c].seen = [name |-> k, entry |-> KVGet(db, k)]]
       \/ \E i \in Ids :
             data' = [data EXCEPT ![c].seen = [name |-> i, entry |-> GetDocument(db, i)]]
    /\ Finish(c, "served")
    /\ UNCHANGED <<db, conn, sub, drawn>> /\ Others

\* The version a viewer may expect is the one it has read.
Expected(c, n) ==
    {NoVersion} \cup
      IF data[c].seen.name = n /\ data[c].seen.entry # Absent
      THEN {data[c].seen.entry.ver} ELSE {}

\* Dispatcher.key and KV.Set or KV.Delete: capability, key, value and rate.
KeyMutation(c) ==
    \E k \in Keys, exp \in UNION {Expected(c, n) : n \in Keys} :
        /\ exp \in Expected(c, k)
        /\ \/ \E v \in Values :
                data' = [data EXCEPT ![c].pc = "admitted",
                           ![c].op = [kind |-> "set", name |-> k, val |-> v,
                                      exp |-> exp]]
           \/ data' = [data EXCEPT ![c].pc = "admitted",
                         ![c].op = [kind |-> "delete", name |-> k, val |-> 0,
                                    exp |-> exp]]
        /\ UNCHANGED drawn

\* Dispatcher.collectionRoot and Create: the server draws the id.
NewDocument(c) ==
    \E i \in Ids \ drawn, v \in Values :
        /\ data' = [data EXCEPT ![c].pc = "admitted",
                      ![c].op = [kind |-> "create", name |-> i, val |-> v,
                                 exp |-> NoVersion]]
        /\ drawn' = drawn \cup {i}

\* Dispatcher.collectionDocument and Update or Delete.
DocumentMutation(c) ==
    \E i \in drawn, exp \in UNION {Expected(c, n) : n \in drawn} :
        /\ exp \in Expected(c, i)
        /\ \/ \E v \in Values :
                data' = [data EXCEPT ![c].pc = "admitted",
                           ![c].op = [kind |-> "update", name |-> i, val |-> v,
                                      exp |-> exp]]
           \/ data' = [data EXCEPT ![c].pc = "admitted",
                         ![c].op = [kind |-> "delete", name |-> i, val |-> 0,
                                    exp |-> exp]]
        /\ UNCHANGED drawn

Admit(c) ==
    /\ Granted(c) /\ data[c].pc = "none"
    /\ req[c].release \in StorageReleases
    /\ KeyMutation(c) \/ NewDocument(c) \/ DocumentMutation(c)
    /\ UNCHANGED <<control, req, held, budget, store, sub>> /\ Others

\* The repository takes the handle, or fails to.
Hold(c) ==
    /\ data[c].pc = "admitted"
    /\ \/ /\ Opened
          /\ DataTo(c, "holding")
          /\ UNCHANGED <<control, req, held, budget>>
       \/ /\ UNCHANGED <<file, handle, removed>>
          /\ DataDone(c)
          /\ Finish(c, "denied")
    /\ UNCHANGED <<db, conn, sub, drawn>> /\ Others

\* AppDatabase.Write: the transaction, and the handle is released.
Commit(c) ==
    /\ data[c].pc = "holding"
    /\ conn = None
    /\ LET res == Apply(db, data[c].op)
       IN /\ db' = res.db
          /\ IF res.out = "ok"
             THEN DataTo(c, "committed") /\ UNCHANGED <<control, req, held, budget>>
             ELSE DataDone(c) /\ Finish(c, IF res.out = "missing" THEN "served"
                                             ELSE "denied")
    /\ UNCHANGED <<file, handle, removed, conn, sub, drawn>> /\ Others

Publish(c) ==
    /\ data[c].pc = "committed"
    /\ PublishHint(data[c].op)
    /\ DataDone(c)
    /\ Finish(c, "served")
    /\ UNCHANGED <<store, drawn>> /\ Others

ViewerStep(c) == Refuse(c) \/ Read(c) \/ Admit(c) \/ Hold(c) \/ Commit(c) \/ Publish(c)

-----------------------------------------------------------------------------
(***************************************************************************)
(* The owner: ControlService.DataKVSet, DataKVDelete, DataDocumentCreate,  *)
(* DataDocumentUpdate and DataDocumentDelete.                              *)
(***************************************************************************)

OwnerLeaves == UNCHANGED <<control, req, held, data, deletion>>

AttemptTo(a, pc) == att' = [att EXCEPT ![a].pc = pc]
AttemptEnds(a) == att' = [att EXCEPT ![a] = IdleAttempt]
Key(a) == att[a].key

\* A first call, for the version of a name the owner has just read.  Updates
\* and deletions require one.  The id in a creation stands for its collection.
FirstCalls ==
    {m \in [kind : {"set"}, name : Keys, val : Values, exp : {NoVersion}]
             \cup [kind : {"create"}, name : Ids \ drawn, val : Values,
                   exp : {NoVersion}]
             \cup {[kind |-> "set", name |-> n, val |-> v,
                    exp |-> VersionOf(db, n)] : n \in Keys, v \in Values}
             \cup {[kind |-> "update", name |-> n, val |-> v,
                    exp |-> VersionOf(db, n)] : n \in Ids, v \in Values}
             \cup {[kind |-> "delete", name |-> n, val |-> 0,
                    exp |-> VersionOf(db, n)] : n \in Names} :
        m.kind \in {"update", "delete"} => m.exp # NoVersion}

\* dataDigest: the same operation on the same target with the same body.
Digest(m) ==
    IF m.kind = "create" THEN <<m.kind, CollectionOf[m.name], m.val, m.exp>>
    ELSE <<m.kind, m.name, m.val, m.exp>>

\* Another body under a key that was used.
Altered(m) == {[m EXCEPT !.val = v] :
                 v \in IF m.kind = "delete" THEN {} ELSE Values \ {m.val}}

\* dataScope: an owned, active application.  A retry repeats what it sent.
dataScope(a, k) ==
    /\ att[a].pc = "idle"
    /\ Spend("attempt")
    /\ status = "active"
    /\ \E m \in IF audit[k] = None THEN FirstCalls
                ELSE {audit[k].m} \cup Altered(audit[k].m) :
          att' = [att EXCEPT ![a] = [pc |-> "scoped", key |-> k, m |-> m]]
    /\ UNCHANGED <<control, req, held, data, deletion, store, audit, applied,
                   hinted, sub, drawn>>

\* Mutant: an intent without an outcome is taken for a new one.
dataMutationIntentAgain(a) ==
    /\ att[a].pc = "scoped"
    /\ LET k == Key(a) IN
       IF audit[k] = None \/ audit[k].outcome = "attempted"
       THEN /\ audit' = [audit EXCEPT ![k] = [m |-> att[a].m, outcome |-> "attempted"]]
            /\ AttemptTo(a, "fresh")
            /\ drawn' = IF att[a].m.kind = "create" THEN drawn \cup {att[a].m.name}
                        ELSE drawn
       ELSE AttemptTo(a, "completed") /\ UNCHANGED <<audit, drawn>>
    /\ UNCHANGED <<store, applied, hinted, sub, budget>> /\ OwnerLeaves

\* dataCreateIntent draws the id of the document with the intent.
DrawId(m) ==
    IF m.kind = "create" THEN m.name \notin drawn /\ drawn' = drawn \cup {m.name}
    ELSE UNCHANGED drawn

\* dataMutationIntent, one transaction of the control database: a new key
\* records its intent, a row that refers to the application's and is refused
\* when that is gone; a used key must carry the same digest.
dataMutationIntent(a) ==
    /\ att[a].pc = "scoped"
    /\ LET k == Key(a)
           m == att[a].m
       IN \/ /\ audit[k] = None /\ status # "removed"
             /\ audit' = [audit EXCEPT ![k] = [m |-> m, outcome |-> "attempted"]]
             /\ AttemptTo(a, "fresh")
             /\ DrawId(m)
          \/ /\ audit[k] = None /\ status = "removed"
             /\ AttemptEnds(a)
             /\ UNCHANGED <<audit, drawn>>
          \/ /\ audit[k] # None
             /\ IF Digest(audit[k].m) # Digest(m) THEN AttemptEnds(a)
                ELSE att' = [att EXCEPT ![a].m = audit[k].m,
                               ![a].pc = IF audit[k].outcome = "succeeded"
                                         THEN "completed" ELSE "unproved"]
             /\ UNCHANGED <<audit, drawn>>
    /\ UNCHANGED <<store, applied, hinted, sub, budget>> /\ OwnerLeaves

OwnerHold(a) ==
    /\ att[a].pc = "fresh"
    /\ Opened
    /\ AttemptTo(a, "holding")
    /\ UNCHANGED <<db, conn, audit, applied, hinted, sub, drawn, budget>>
    /\ OwnerLeaves

\* The mutation of a fresh intent.  A refusal leaves the intent attempted.
OwnerCommit(a) ==
    /\ att[a].pc = "holding"
    /\ conn = None
    /\ LET res == Apply(db, att[a].m)
       IN /\ db' = res.db
          /\ IF res.out = "ok"
             THEN /\ AttemptTo(a, "applied")
                  /\ applied' = [applied EXCEPT ![Key(a)] = @ + 1]
             ELSE AttemptEnds(a) /\ UNCHANGED applied
    /\ UNCHANGED <<file, handle, removed, conn, audit, hinted, sub, drawn, budget>>
    /\ OwnerLeaves

\* The state an interrupted mutation would have left, as each operation
\* recognises it: DataDocumentCreate, DataKVSet, DataDocumentUpdate and the two
\* deletions.
CreateProved(m, e) == m.kind = "create" /\ e # Absent /\ e.val = m.val

SetProved(m, e) ==
    /\ m.kind = "set"
    /\ m.exp # NoVersion /\ e = [val |-> m.val, ver |-> m.exp + 1]

UpdateProved(m, e) ==
    m.kind = "update" /\ e = [val |-> m.val, ver |-> m.exp + 1]

KVDeleteProved(m, e) == m.kind = "delete" /\ m.name \in Keys /\ e = Absent
DocumentDeleteProved(m, e) == m.kind = "delete" /\ m.name \in Ids /\ e = Absent

Proves(m) ==
    LET e == db.rec[m.name]
    IN \/ CreateProved(m, e) \/ SetProved(m, e) \/ UpdateProved(m, e)
       \/ KVDeleteProved(m, e) \/ DocumentDeleteProved(m, e)

\* An intent without an outcome is completed when the state proves it.
Reconcile(a) ==
    /\ att[a].pc = "unproved"
    /\ conn = None
    /\ Opened
    /\ IF Proves(att[a].m) THEN AttemptTo(a, "applied") ELSE AttemptEnds(a)
    /\ UNCHANGED <<db, conn, audit, applied, hinted, sub, drawn, budget>>
    /\ OwnerLeaves

\* The answer to a key that succeeded: the current record or, when it has
\* changed since, unavailable; no change and no hint.
Replay(a) ==
    /\ att[a].pc = "completed"
    /\ AttemptEnds(a)
    /\ UNCHANGED <<store, audit, applied, hinted, sub, drawn, budget>>
    /\ OwnerLeaves

\* One row must go from attempted to succeeded.
dataMutationComplete(a) ==
    /\ att[a].pc = "applied"
    /\ IF audit[Key(a)] # None /\ audit[Key(a)].outcome = "attempted"
       THEN /\ audit' = [audit EXCEPT ![Key(a)].outcome = "succeeded"]
            /\ AttemptTo(a, "publish")
       ELSE AttemptEnds(a) /\ UNCHANGED audit
    /\ UNCHANGED <<store, applied, hinted, sub, drawn, budget>> /\ OwnerLeaves

OwnerPublish(a) ==
    /\ att[a].pc = "publish"
    /\ PublishHint(att[a].m)
    /\ hinted' = [hinted EXCEPT ![Key(a)] = @ + 1]
    /\ AttemptEnds(a)
    /\ UNCHANGED <<store, audit, applied, drawn, budget>> /\ OwnerLeaves

\* The call is cancelled or a database refuses it, before or after its commit.
AttemptFails(a) ==
    /\ att[a].pc \in {"scoped", "fresh", "holding", "applied", "unproved"}
    /\ AttemptEnds(a)
    /\ UNCHANGED <<store, audit, applied, hinted, sub, drawn, budget>>
    /\ OwnerLeaves

OwnerStep(a) ==
    \/ \E k \in Requests : dataScope(a, k)
    \/ dataMutationIntent(a) \/ OwnerHold(a) \/ OwnerCommit(a) \/ Reconcile(a)
    \/ Replay(a) \/ dataMutationComplete(a) \/ OwnerPublish(a) \/ AttemptFails(a)

-----------------------------------------------------------------------------
(***************************************************************************)
(* The SDK's subscription to a collection.  The connection reports itself  *)
(* connected before it sends its subscriptions; a hint during a refresh    *)
(* asks for another one.                                                   *)
(***************************************************************************)

SubLeaves == UNCHANGED <<control, req, held, data, owner, deletion, drawn>>

\* Mutant: a hint that comes during a refresh is taken to be covered by it.
refreshOnce(s) ==
    IF s.snap = "idle" THEN [s EXCEPT !.snap = "sent", !.dirty = FALSE] ELSE s

refresh(s) ==
    IF s.snap = "idle" THEN [s EXCEPT !.snap = "sent", !.dirty = FALSE]
    ELSE [s EXCEPT !.dirty = TRUE]

\* The end of a snapshot request: go round again when something is dirty.
Settle(s) ==
    IF s.dirty THEN [s EXCEPT !.snap = "sent", !.dirty = FALSE]
    ELSE [s EXCEPT !.snap = "idle"]

\* LiveChannel.open, onopen.
Connect ==
    /\ ~sub.on
    /\ status = "active"
    /\ Spend("connect")
    /\ sub' = refresh([sub EXCEPT !.on = TRUE])
    /\ UNCHANGED store /\ SubLeaves

\* The server handles subscribe_collection.
ServerSubscribes ==
    /\ sub.on /\ ~sub.srv
    /\ sub' = [sub EXCEPT !.srv = TRUE]
    /\ UNCHANGED <<store, budget>> /\ SubLeaves

ReceiveHint ==
    /\ sub.on
    /\ \E h \in sub.hints :
          sub' = refresh([sub EXCEPT !.hints = @ \ {h},
                            !.heard = IF h > @ THEN h ELSE @])
    /\ UNCHANGED <<store, budget>> /\ SubLeaves

Disconnect ==
    /\ sub.on
    /\ sub' = [sub EXCEPT !.on = FALSE, !.srv = FALSE, !.hints = {}]
    /\ UNCHANGED <<store, budget>> /\ SubLeaves

\* CollectionRepository.List: the documents.  Reading the last row gives the
\* connection back; one row more than the page holds ends the loop early, with
\* the rows, and so the connection, still open.
ListDocuments ==
    /\ sub.snap = "sent"
    /\ status = "active"
    /\ conn = None
    /\ Opened
    /\ conn' = IF Cardinality(Present(db, DocumentsOf(Watched))) > SnapshotLimit
               THEN "list" ELSE None
    /\ sub' = [sub EXCEPT !.snap = "docs", !.read = db.rev[Watched]]
    /\ UNCHANGED <<db, budget>> /\ SubLeaves

\* The revision: a second statement, on whatever connection is free.
ListRevision ==
    /\ sub.snap = "docs"
    /\ conn = None
    /\ sub' = Settle([sub EXCEPT !.view = sub.read, !.failed = FALSE])
    /\ UNCHANGED <<store, budget>> /\ SubLeaves

\* The request fails or is given up; its context closes the rows.
SnapshotFails ==
    /\ sub.snap # "idle"
    /\ sub' = Settle([sub EXCEPT !.failed = TRUE])
    /\ conn' = None
    /\ UNCHANGED <<db, file, handle, removed, budget>> /\ SubLeaves

SubscriberStep ==
    \/ Connect \/ ServerSubscribes \/ ReceiveHint \/ Disconnect
    \/ ListDocuments \/ ListRevision \/ SnapshotFails

-----------------------------------------------------------------------------
(***************************************************************************)
(* Deletion and restart.                                                   *)
(***************************************************************************)

DeletionLeaves == UNCHANGED <<data, att, applied, hinted, sub, drawn, conn>>

\* ControlService.DeleteApp: the status; a failed deletion is asked for again.
DeleteApp ==
    /\ status \in {"active", "suspended", "deleting"}
    /\ purge \in {"none", "failed"}
    /\ Spend("delete")
    /\ status' = "deleting"
    /\ purge' = "asked"
    /\ UNCHANGED <<active, mode, admits, gate, session, req, file, handle,
                   removed, gone, db, audit>>
    /\ Witness
    /\ DeletionLeaves

\* AppDatabaseManager.Remove under the mutex: nobody opens the database any
\* more; a request that still uses it fails the deletion.
RemoveMark ==
    /\ purge = "asked"
    /\ removed' = TRUE
    /\ IF InUse THEN purge' = "failed" /\ UNCHANGED handle
       ELSE purge' = "removing" /\ handle' = FALSE
    /\ UNCHANGED <<control, req, held, budget, db, file, gone, audit>>
    /\ DeletionLeaves

\* ... and the directory, after it.
RemoveAll ==
    /\ purge = "removing"
    /\ file' = FALSE
    /\ db' = EmptyDatabase
    /\ purge' = "purged"
    /\ gone' = TRUE
    /\ UNCHANGED <<control, req, held, budget, handle, removed, audit>>
    /\ DeletionLeaves

\* The rows follow, those of the intents included.
DeleteRows ==
    /\ purge = "purged"
    /\ status = "deleting"
    /\ status' = "removed"
    /\ audit' = [k \in Requests |-> None]
    /\ UNCHANGED <<active, mode, admits, gate, session, req, budget, db, file,
                   handle, removed, deletion>>
    /\ Witness
    /\ DeletionLeaves

\* The process dies and starts again; the browser keeps what it has.
Crash ==
    /\ Spend("crash")
    /\ req' = [c \in Callers |-> IdleRequest]
    /\ data' = [c \in Callers |-> [data[c] EXCEPT !.pc = "none", !.op = NoMutation]]
    /\ att' = [a \in Attempts |-> IdleAttempt]
    /\ handle' = FALSE
    /\ removed' = FALSE
    /\ conn' = None
    /\ purge' = "none"
    /\ LET s == [sub EXCEPT !.on = FALSE, !.srv = FALSE, !.hints = {}]
       IN sub' = IF s.snap = "idle" THEN s ELSE Settle([s EXCEPT !.failed = TRUE])
    /\ UNCHANGED <<control, db, file, audit, applied, hinted, gone, drawn>>
    /\ Witness

-----------------------------------------------------------------------------
DataLeaves == UNCHANGED <<store, data, owner, deletion, sub, drawn>>

Next ==
    \/ \E c \in Callers :
          \/ GatewayStep(c) /\ DataLeaves
          \/ ViewerStep(c)
    \/ ControlChange /\ DataLeaves
    \/ \E a \in Attempts : OwnerStep(a)
    \/ SubscriberStep
    \/ Evict \/ DeleteApp \/ RemoveMark \/ RemoveAll \/ DeleteRows \/ Crash

Spec == Init /\ [][Next]_vars

-----------------------------------------------------------------------------
(***************************************************************************)
(* Properties.                                                             *)
(***************************************************************************)

AnyMutation == Mutations \cup {NoMutation}
DataRequests == [pc : {"none", "admitted", "holding", "committed"}, op : AnyMutation,
                 seen : [name : Names \cup {None}, entry : Entries \cup {Absent}]]
Calls == [pc : {"idle", "scoped", "fresh", "holding", "unproved", "completed",
                "applied", "publish"},
          key : Requests \cup {None}, m : AnyMutation]
Browsers == [on : BOOLEAN, srv : BOOLEAN, hints : SUBSET Nat, dirty : BOOLEAN,
             snap : {"idle", "sent", "docs"}, read : Nat, view : Nat, heard : Nat,
             failed : BOOLEAN]

\* Requests, calls, the browser and both databases keep their types.
TypeOK ==
    /\ GatewayTypeOK
    /\ db \in Databases
    /\ <<file, handle, removed, gone>> \in BOOLEAN \X BOOLEAN \X BOOLEAN \X BOOLEAN
    /\ conn \in {None, "list"}
    /\ data \in [Callers -> DataRequests]
    /\ \A c \in Callers : data[c].pc # "none" => data[c].op \in Mutations
    /\ att \in [Attempts -> Calls]
    /\ \A a \in Attempts :
          att[a].pc # "idle" => att[a].key \in Requests /\ att[a].m \in Mutations
    /\ audit \in [Requests -> Intents \cup {None}]
    /\ applied \in [Requests -> Nat] /\ hinted \in [Requests -> Nat]
    /\ purge \in {"none", "asked", "failed", "removing", "purged"}
    /\ sub \in Browsers
    /\ drawn \subseteq Ids

\* However often the owner repeats a call, at once or after a restart, its
\* mutation is committed at most once and announced at most once.
OncePerKey == \A k \in Requests : applied[k] <= 1 /\ hinted[k] <= 1

\* A conditional change of a document replaces exactly the document its sender
\* has read, whoever else writes, deletes or creates documents meanwhile.
NoLostUpdate ==
    [][\A c \in Callers :
         LET op == data[c].op
         IN (/\ data[c].pc = "holding" /\ data'[c].pc = "committed"
             /\ op.name \in Ids /\ op.exp # NoVersion)
            => data[c].seen = [name |-> op.name, entry |-> db.rec[op.name]]]_vars

\* Once the namespace of a deleted application has been removed, no request,
\* call or refresh that was under way brings its database back.
RemovedStaysRemoved == gone => ~file

\* A browser whose refreshes have come to rest shows everything that was
\* committed when the last hint it received was sent.
HintsAreSeen == sub.snap = "idle" /\ ~sub.failed => sub.view >= sub.heard
=============================================================================
