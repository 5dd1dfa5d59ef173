--------------------------------- MODULE Blobs ---------------------------------
(***************************************************************************)
(* The blobs of one application: catalog rows in the database, bytes in a  *)
(* private directory.  Uploads, deletions and reconciliations hold the     *)
(* application's lock of BlobRepository while they go from one to the      *)
(* other.  Reconcile runs at startup, and for every application whenever   *)
(* one of them is deleted.                                                 *)
(*                                                                         *)
(* Each statement or transaction of the database and each effect on the    *)
(* directory is one step.                                                  *)
(***************************************************************************)
EXTENDS Integers, FiniteSets

CONSTANTS
    Ids,          \* blob ids: the code draws a fresh random id per upload
    Cleaners,     \* goroutines that may run Reconcile
    BlobsPerApp,  \* limit of ready blobs
    Budgets,      \* bounds: how often each external event may happen
    None

Events == {"crash", "purge", "delete", "status", "damage", "fault"}

ASSUME LimitType == BlobsPerApp \in Nat /\ IsFiniteSet(Ids)
ASSUME BudgetsType == Budgets \subseteq [Events -> Nat]
ASSUME NamesAreDistinct == None \notin Ids \cup Cleaners \cup {"empty"}
                             /\ "empty" \notin Cleaners

VARIABLES
    serving,  \* startup is over and requests are accepted
    status,   \* applications.status; "removed" once the row is deleted
    row,      \* app_blobs.state of every id
    file,     \* installed bytes of every id: none, good or bad
    temp,     \* ids whose staging file exists
    up,       \* program counter of the upload of every id
    del,      \* program counter of the deletion of every id
    rec,      \* the reconciliations
    purge,    \* DeleteApp of this application: the cleaner that serves it
    lock,     \* holder of the application's lock
    kept,     \* history: acknowledged, not deleted and not damaged blobs
    selected, \* history: blobs the first phase of a reconciliation selected
    doubted,  \* history: blobs a reconciliation failed to open though they open
    unhidden, \* history: blobs whose hiding failed in the second phase
    budget    \* how many of each external event may still happen

rowVars == <<serving, status, purge>>
history == <<kept, selected, doubted, unhidden>>
fileVars == <<file, temp>>
vars == <<rowVars, row, fileVars, up, del, rec, lock, history, budget>>

Uploader(b) == <<"upload", b>>
Deleter(b) == <<"delete", b>>
Cleaner(r) == <<"reconcile", r>>
Purger == <<"purge", None>>
Free == <<"free", None>>
Holders == ({"upload", "delete"} \X Ids) \cup ({"reconcile"} \X Cleaners)
             \cup {Purger, Free}

UploadPCs == {"idle", "stage", "put", "rename", "commit", "unstage", "unput",
              "discard", "forget", "done"}
DeletePCs == {"idle", "mark", "bytes", "row"}
RecPCs == {"idle", "rows", "objects", "ready", "open", "lock", "mark", "bytes", "row"}
IdleRec == [pc |-> "idle", phase |-> "rows", todo |-> {}, b |-> None]

Spend(e) == /\ budget[e] > 0
            /\ budget' = [budget EXCEPT ![e] = @ - 1]

Acquire(p) == lock = Free /\ lock' = p

Init ==
    /\ serving = TRUE
    /\ status = "active"
    /\ row = [b \in Ids |-> "none"]
    /\ file = [b \in Ids |-> "none"]
    /\ temp = {}
    /\ up = [b \in Ids |-> "idle"]
    /\ del = [b \in Ids |-> "idle"]
    /\ rec = [r \in Cleaners |-> IdleRec]
    /\ purge = None
    /\ lock = Free
    /\ kept = {}
    /\ selected = {}
    /\ doubted = {}
    /\ unhidden = {}
    /\ budget \in Budgets

-----------------------------------------------------------------------------
(***************************************************************************)
(* BlobRepository.Upload, all of it under the lock.                        *)
(***************************************************************************)

UploadLeaves == UNCHANGED <<rowVars, del, rec, selected, doubted, unhidden, budget>>

\* Mutant: an error path returns before its unlock is deferred.
UploadEndsLocked(b) == up' = [up EXCEPT ![b] = "done"] /\ UNCHANGED lock

UploadTo(b, pc) == up' = [up EXCEPT ![b] = pc] /\ UNCHANGED lock
UploadEnds(b) == up' = [up EXCEPT ![b] = "done"] /\ lock' = Free

UploadBegin(b) ==
    /\ serving
    /\ up[b] = "idle"
    /\ Acquire(Uploader(b))
    /\ up' = [up EXCEPT ![b] = "stage"]
    /\ UNCHANGED <<row, fileVars, kept>>
    /\ UploadLeaves

\* Mutant: the authorization of the request is trusted.
InsertStagingUnchecked(b) ==
    /\ up[b] = "stage"
    /\ UploadTo(b, "put") /\ row' = [row EXCEPT ![b] = "staging"]
    /\ UNCHANGED <<fileVars, kept>>
    /\ UploadLeaves

\* The row is inserted only for an active application.
InsertStaging(b) ==
    /\ up[b] = "stage"
    /\ IF status = "active"
       THEN UploadTo(b, "put") /\ row' = [row EXCEPT ![b] = "staging"]
       ELSE UploadEnds(b) /\ UNCHANGED row
    /\ UNCHANGED <<fileVars, kept>>
    /\ UploadLeaves

\* LocalStore.Put streams into a staging file, syncs it ...
PutStaging(b) ==
    /\ up[b] = "put"
    /\ temp' = temp \cup {b}
    /\ UploadTo(b, "rename")
    /\ UNCHANGED <<row, file, kept>>
    /\ UploadLeaves

\* ... and renames it into place, unless somebody has removed it.
PutRename(b) ==
    /\ up[b] = "rename"
    /\ b \in temp
    /\ temp' = temp \ {b}
    /\ file' = [file EXCEPT ![b] = "good"]
    /\ UploadTo(b, "commit")
    /\ UNCHANGED <<row, kept>>
    /\ UploadLeaves

\* The source breaks off, is empty or too long, a sync or the rename fails;
\* the staging file, and an object that could not be synced, is removed.
PutFails(b) ==
    /\ up[b] \in {"put", "rename"}
    /\ temp' = temp \ {b}
    /\ UploadTo(b, "unstage")
    /\ UNCHANGED <<row, file, kept>>
    /\ UploadLeaves

Ready == {b \in Ids : row[b] = "ready"}

CommitAllowed(b) == /\ Cardinality(Ready) < BlobsPerApp
                    /\ row[b] = "staging"
                    /\ status = "active"

\* The transaction that makes the blob visible; the upload is acknowledged.
CommitReady(b) ==
    /\ up[b] = "commit"
    /\ CommitAllowed(b)
    /\ row' = [row EXCEPT ![b] = "ready"]
    /\ kept' = kept \cup {b}
    /\ UploadEnds(b)
    /\ UNCHANGED fileVars
    /\ UploadLeaves

\* The quota is used up, the application is not active any more, the context
\* has ended or the writer fails.
CommitFails(b) ==
    /\ up[b] = "commit"
    /\ UploadTo(b, "discard")
    /\ UNCHANGED <<row, fileVars, kept>>
    /\ UploadLeaves

\* Undoing a failed Put takes the staging row first, undoing a failed commit
\* the bytes first.  Errors of both are ignored.
ForgetRow(b, from, to) ==
    /\ up[b] = from
    /\ \/ /\ row' = [row EXCEPT ![b] = IF @ = "staging" THEN "none" ELSE @]
          /\ UNCHANGED budget
       \/ Spend("fault") /\ UNCHANGED row
    /\ IF to = "done" THEN UploadEnds(b) ELSE UploadTo(b, to)
    /\ UNCHANGED <<rowVars, fileVars, del, rec, history>>

DiscardBytes(b, from, to) ==
    /\ up[b] = from
    /\ \/ file' = [file EXCEPT ![b] = "none"] /\ UNCHANGED budget
       \/ Spend("fault") /\ UNCHANGED file
    /\ IF to = "done" THEN UploadEnds(b) ELSE UploadTo(b, to)
    /\ UNCHANGED <<rowVars, row, temp, del, rec, history>>

UndoPut(b) == ForgetRow(b, "unstage", "unput") \/ DiscardBytes(b, "unput", "done")
UndoCommit(b) == DiscardBytes(b, "discard", "forget") \/ ForgetRow(b, "forget", "done")

-----------------------------------------------------------------------------
(***************************************************************************)
(* BlobRepository.Delete, all of it under the lock.                        *)
(***************************************************************************)

DeleteEnds(b) == del' = [del EXCEPT ![b] = "idle"] /\ lock' = Free

DeleteBegin(b) ==
    /\ serving
    /\ del[b] = "idle"
    /\ row[b] # "none"
    /\ Acquire(Deleter(b))
    /\ del' = [del EXCEPT ![b] = "mark"]
    /\ UNCHANGED <<rowVars, row, fileVars, up, rec, history, budget>>

\* Only a ready blob is hidden; another one is reported as absent.
DeleteMark(b) ==
    /\ del[b] = "mark"
    /\ IF row[b] = "ready"
       THEN /\ row' = [row EXCEPT ![b] = "deleting"]
            /\ kept' = kept \ {b}
            /\ del' = [del EXCEPT ![b] = "bytes"]
            /\ UNCHANGED lock
       ELSE DeleteEnds(b) /\ UNCHANGED <<row, kept>>
    /\ UNCHANGED <<rowVars, fileVars, up, rec, selected, doubted, unhidden, budget>>

DeleteBytes(b) ==
    /\ del[b] = "bytes"
    /\ file' = [file EXCEPT ![b] = "none"]
    /\ del' = [del EXCEPT ![b] = "row"]
    /\ UNCHANGED <<rowVars, row, temp, up, rec, lock, history, budget>>

DeleteRow(b) ==
    /\ del[b] = "row"
    /\ row' = [row EXCEPT ![b] = "none"]
    /\ DeleteEnds(b)
    /\ UNCHANGED <<rowVars, fileVars, up, rec, history, budget>>

\* The bytes cannot be removed, or the last transaction fails.
DeleteFails(b) ==
    /\ del[b] \in {"bytes", "row"}
    /\ Spend("fault")
    /\ DeleteEnds(b)
    /\ UNCHANGED <<rowVars, row, fileVars, up, rec, history>>

-----------------------------------------------------------------------------
(***************************************************************************)
(* BlobRepository.Reconcile: first the rows that are not ready and the     *)
(* rows of applications being deleted, then the installed objects, then    *)
(* the ready rows.  Only the removal of one blob is under the lock.        *)
(***************************************************************************)

RecTo(r, pc, todo) == rec' = [rec EXCEPT ![r].pc = pc, ![r].todo = todo]
RecLeaves == UNCHANGED <<rowVars, up, del, history, budget>>

\* The rows the first phase selects.
Leftover == {b \in Ids : \/ row[b] \in {"staging", "deleting"}
                         \/ row[b] = "ready" /\ status = "deleting"}

\* Open: a ready row whose bytes have the recorded size and hash.
Opens(b) == row[b] = "ready" /\ file[b] = "good"

\* The first phase repeats until nothing is selected.
SelectRows(r) ==
    /\ rec[r].pc = "rows"
    /\ rec[r].todo = {}
    /\ IF Leftover # {}
       THEN RecTo(r, "rows", Leftover) /\ UNCHANGED temp
       ELSE \* Keys removes every staging file and lists the objects
            /\ RecTo(r, "objects", {b \in Ids : file[b] # "none"})
            /\ temp' = {}
    /\ selected' = selected \cup Leftover
    /\ UNCHANGED <<rowVars, row, file, up, del, lock, kept, doubted, unhidden, budget>>

\* Turn to the next blob of the page: to remove it, or to open it first.
Turn(r, b, pc) ==
    rec' = [rec EXCEPT ![r] = [pc |-> pc, phase |-> rec[r].pc,
                               todo |-> rec[r].todo \ {b}, b |-> b]]

NextRow(r, b) ==
    /\ rec[r].pc = "rows"
    /\ b \in rec[r].todo
    /\ Turn(r, b, "lock")
    /\ UNCHANGED <<row, fileVars, lock>>
    /\ RecLeaves

\* Mutant: an object without row is left alone.
NextObjectKept(r, b) ==
    /\ rec[r].pc = "objects"
    /\ b \in rec[r].todo
    /\ IF row[b] = "ready"
       THEN Turn(r, b, "open")
       ELSE RecTo(r, "objects", rec[r].todo \ {b})
    /\ UNCHANGED <<row, fileVars, lock>>
    /\ RecLeaves

\* The state of the row is read.  An object without row is deleted at once, a
\* ready row must open; a row in another state belongs to an upload or a
\* deletion that is under way.
NextObject(r, b) ==
    /\ rec[r].pc = "objects"
    /\ b \in rec[r].todo
    /\ IF row[b] = "ready"
       THEN Turn(r, b, "open") /\ UNCHANGED file
       ELSE /\ RecTo(r, "objects", rec[r].todo \ {b})
            /\ file' = IF row[b] = "none" THEN [file EXCEPT ![b] = "none"] ELSE file
    /\ UNCHANGED <<row, temp, lock>>
    /\ RecLeaves

ObjectsDone(r) ==
    /\ rec[r].pc = "objects"
    /\ rec[r].todo = {}
    /\ RecTo(r, "ready", Ready)
    /\ UNCHANGED <<row, fileVars, lock>>
    /\ RecLeaves

NextReady(r, b) ==
    /\ rec[r].pc = "ready"
    /\ b \in rec[r].todo
    /\ Turn(r, b, "open")
    /\ UNCHANGED <<row, fileVars, lock>>
    /\ RecLeaves

\* Back to the page.
RecResumes(r) == rec' = [rec EXCEPT ![r].pc = rec[r].phase, ![r].b = None]

\* Mutant: the result of Open is taken the wrong way round.
OpenBlobInverted(r) ==
    /\ rec[r].pc = "open"
    /\ IF ~Opens(rec[r].b)
       THEN RecResumes(r)
       ELSE rec' = [rec EXCEPT ![r].pc = "lock"]
    /\ UNCHANGED <<row, fileVars, lock>>
    /\ RecLeaves

OpenBlob(r) ==
    /\ rec[r].pc = "open"
    /\ IF Opens(rec[r].b)
       THEN RecResumes(r)
       ELSE rec' = [rec EXCEPT ![r].pc = "lock"]
    /\ UNCHANGED <<row, fileVars, lock>>
    /\ RecLeaves

\* Every error of Open counts as damage: a failed query, a context that has
\* ended, a file that cannot be opened just now.
OpenErrs(r) ==
    /\ rec[r].pc = "open"
    /\ Opens(rec[r].b)
    /\ Spend("fault")
    /\ doubted' = doubted \cup {rec[r].b}
    /\ rec' = [rec EXCEPT ![r].pc = "lock"]
    /\ UNCHANGED <<rowVars, row, fileVars, up, del, lock, kept, selected, unhidden>>

RecLock(r) ==
    /\ rec[r].pc = "lock"
    /\ Acquire(Cleaner(r))
    /\ rec' = [rec EXCEPT ![r].pc = "mark"]
    /\ UNCHANGED <<row, fileVars>>
    /\ RecLeaves

\* Mutant: the bytes are removed before the row is hidden.
HiddenLater(s, phase) == s

\* The first phase hides the row whatever its state is by now, the others
\* only a ready one.
Hidden(s, phase) ==
    IF s # "none" /\ (phase = "rows" \/ s = "ready") THEN "deleting" ELSE s

RecMark(r) ==
    /\ rec[r].pc = "mark"
    /\ row' = [row EXCEPT ![rec[r].b] = Hidden(@, rec[r].phase)]
    /\ rec' = [rec EXCEPT ![r].pc = "bytes"]
    /\ UNCHANGED <<fileVars, lock>>
    /\ RecLeaves

\* The second phase ignores that its update failed, and goes on to the bytes.
MarkErrs(r) ==
    /\ rec[r].pc = "mark"
    /\ rec[r].phase = "objects"
    /\ Spend("fault")
    /\ unhidden' = unhidden \cup {rec[r].b}
    /\ rec' = [rec EXCEPT ![r].pc = "bytes"]
    /\ UNCHANGED <<rowVars, row, fileVars, up, del, lock, kept, selected, doubted>>

RecBytes(r) ==
    /\ rec[r].pc = "bytes"
    /\ file' = [file EXCEPT ![rec[r].b] = "none"]
    /\ rec' = [rec EXCEPT ![r].pc = "row"]
    /\ UNCHANGED <<row, temp, lock>>
    /\ RecLeaves

RecRow(r) ==
    /\ rec[r].pc = "row"
    /\ row' = [row EXCEPT ![rec[r].b] = IF @ = "deleting" THEN "none" ELSE @]
    /\ RecResumes(r)
    /\ lock' = Free
    /\ UNCHANGED fileVars
    /\ RecLeaves

\* Any other statement or file operation of Reconcile may fail and end it.
RecFails(r) ==
    /\ rec[r].pc \notin {"idle", "open", "lock"}
    /\ rec[r].pc = "mark" => rec[r].phase # "objects"
    /\ Spend("fault")
    /\ rec' = [rec EXCEPT ![r] = IdleRec]
    /\ lock' = IF lock = Cleaner(r) THEN Free ELSE lock
    /\ purge' = IF purge = r THEN None ELSE purge
    /\ UNCHANGED <<serving, status, row, fileVars, up, del, history>>

RecFinished(r) == rec[r].pc = "ready" /\ rec[r].todo = {}

-----------------------------------------------------------------------------
(***************************************************************************)
(* Who runs Reconcile: startup, the deletion of another application, the   *)
(* deletion of this one.                                                   *)
(***************************************************************************)

Begin(r) == /\ rec[r] = IdleRec
            /\ rec' = [rec EXCEPT ![r].pc = "rows"]

StartReconcile(r) ==
    /\ ~serving
    /\ \A q \in Cleaners : rec[q] = IdleRec
    /\ Begin(r)
    /\ UNCHANGED <<rowVars, row, fileVars, up, del, lock, history, budget>>

\* Another application is deleted.
PurgeOther(r) ==
    /\ serving
    /\ Spend("purge")
    /\ Begin(r)
    /\ UNCHANGED <<rowVars, row, fileVars, up, del, lock, history>>

\* DeleteApp of this application up to its purge.
DeleteApp(r) ==
    /\ serving
    /\ purge = None
    /\ status \in {"active", "suspended", "deleting"}
    /\ Spend("delete")
    /\ status' = "deleting"
    /\ purge' = r
    /\ Begin(r)
    /\ UNCHANGED <<serving, row, fileVars, up, del, lock, history>>

\* Reconcile returns.  Startup goes on to serve; the purge of another
\* application is over.
RecReturns(r) ==
    /\ RecFinished(r)
    /\ purge # r
    /\ rec' = [rec EXCEPT ![r] = IdleRec]
    /\ serving' = TRUE
    /\ UNCHANGED <<status, purge, row, fileVars, up, del, lock, history, budget>>

\* RemoveAppNamespace, under the lock, wants an empty directory.
RemoveNamespace(r) ==
    /\ RecFinished(r)
    /\ purge = r
    /\ lock = Free
    /\ rec' = [rec EXCEPT ![r] = IdleRec]
    /\ purge' = IF temp = {} /\ \A b \in Ids : file[b] = "none"
                THEN "empty" ELSE None
    /\ UNCHANGED <<serving, status, row, fileVars, up, del, lock, history, budget>>

\* The last transaction of DeleteApp deletes the rows and the application.
DeleteRows ==
    /\ purge = "empty"
    /\ status = "deleting"
    /\ status' = "removed"
    /\ row' = [b \in Ids |-> "none"]
    /\ purge' = None
    /\ UNCHANGED <<serving, fileVars, up, del, rec, lock, history, budget>>

SetAppStatus ==
    /\ serving
    /\ status \in {"active", "suspended"}
    /\ status' = IF status = "active" THEN "suspended" ELSE "active"
    /\ Spend("status")
    /\ UNCHANGED <<serving, purge, row, fileVars, up, del, rec, lock, history>>

\* The process dies; staging files, objects and rows stay.
Crash ==
    /\ Spend("crash")
    /\ serving' = FALSE
    /\ up' = [b \in Ids |-> IF up[b] = "idle" THEN "idle" ELSE "done"]
    /\ del' = [b \in Ids |-> "idle"]
    /\ rec' = [r \in Cleaners |-> IdleRec]
    /\ purge' = None
    /\ lock' = Free
    /\ UNCHANGED <<status, row, fileVars, history>>

\* The medium alters the bytes of a ready blob (not during startup, whose
\* check of that blob may be over).
Damage(b) ==
    /\ serving
    /\ Opens(b)
    /\ Spend("damage")
    /\ file' = [file EXCEPT ![b] = "bad"]
    /\ kept' = kept \ {b}
    /\ UNCHANGED <<rowVars, row, temp, up, del, rec, lock, selected, doubted, unhidden>>

-----------------------------------------------------------------------------
UploadStep(b) ==
    \/ InsertStaging(b) \/ PutStaging(b) \/ PutRename(b) \/ PutFails(b)
    \/ CommitReady(b) \/ CommitFails(b) \/ UndoPut(b) \/ UndoCommit(b)

DeleteStep(b) == DeleteMark(b) \/ DeleteBytes(b) \/ DeleteRow(b)

RecStep(r) ==
    \/ SelectRows(r) \/ ObjectsDone(r) \/ OpenBlob(r) \/ RecLock(r) \/ RecMark(r)
    \/ RecBytes(r) \/ RecRow(r) \/ RecReturns(r) \/ RemoveNamespace(r)
    \/ \E b \in Ids : NextRow(r, b) \/ NextObject(r, b) \/ NextReady(r, b)

Next ==
    \/ \E b \in Ids :
          \/ UploadBegin(b) \/ UploadStep(b)
          \/ DeleteBegin(b) \/ DeleteStep(b) \/ DeleteFails(b)
          \/ Damage(b)
    \/ \E r \in Cleaners :
          \/ StartReconcile(r) \/ PurgeOther(r) \/ DeleteApp(r)
          \/ RecStep(r) \/ OpenErrs(r) \/ MarkErrs(r) \/ RecFails(r)
    \/ DeleteRows \/ SetAppStatus \/ Crash

Spec == Init /\ [][Next]_vars

\* Requests and reconciliations run; a waiting one gets Go's mutex in turn;
\* the service manager restarts a process that did not come up.
Fairness ==
    /\ \A b \in Ids : WF_vars(UploadStep(b)) /\ WF_vars(DeleteStep(b))
    /\ \A r \in Cleaners :
          /\ WF_vars(RecStep(r))
          /\ SF_vars(RecLock(r))
          /\ SF_vars(RemoveNamespace(r))
    /\ WF_vars(\E r \in Cleaners : StartReconcile(r))

FairSpec == Spec /\ Fairness

-----------------------------------------------------------------------------
(***************************************************************************)
(* Properties.                                                             *)
(***************************************************************************)

\* Rows, objects, goroutines and the lock keep their types.
TypeOK ==
    /\ serving \in BOOLEAN
    /\ status \in {"active", "suspended", "deleting", "removed"}
    /\ row \in [Ids -> {"none", "staging", "ready", "deleting"}]
    /\ file \in [Ids -> {"none", "good", "bad"}]
    /\ temp \subseteq Ids /\ kept \subseteq Ids /\ selected \subseteq Ids
    /\ doubted \subseteq Ids /\ unhidden \subseteq Ids
    /\ up \in [Ids -> UploadPCs]
    /\ del \in [Ids -> DeletePCs]
    /\ rec \in [Cleaners -> [pc : RecPCs, phase : {"rows", "objects", "ready"},
                             todo : SUBSET Ids, b : Ids \cup {None}]]
    /\ purge \in Cleaners \cup {None, "empty"}
    /\ lock \in Holders
    /\ budget \in [Events -> Nat]

\* What is listed can be read: whichever uploads, deletions, reconciliations
\* and crashes interleave, the server removes the bytes of a blob whose row is
\* ready only after a reconciliation that could not open it failed to hide it.
ReadyHasBytes ==
    \A b \in Ids : row[b] = "ready" /\ file[b] = "none" =>
        b \in unhidden /\ (b \in doubted \/ b \notin kept)

\* Between them, ready blobs stay within the quota although uploads stream
\* outside the transaction that counts.
QuotaHolds == Cardinality(Ready) <= BlobsPerApp

\* An acknowledged blob can be opened until somebody deletes it or the
\* application: no failed request, crash, restart or purge takes it away, unless
\* a reconciliation had selected its row before the upload committed, or failed
\* to open it.
LostOnlyIfSelected ==
    \A b \in kept \ (selected \cup doubted) :
        status \in {"active", "suspended"} => Opens(b)

\* After a restart catalog and directory agree exactly: every row is ready and
\* opens, every object has a row, and no staging file is left, whatever step
\* the crash and earlier failed cleanups had interrupted.
RestartIsClean ==
    [][~serving /\ serving' =>
         /\ temp = {}
         /\ \A b \in Ids : IF file[b] = "none" THEN row[b] = "none" ELSE Opens(b)]_vars

\* A deleted application leaves no row, object or staging file behind, even
\* with uploads and deletions under way when its deletion began.
DeletionLeavesNoBlob ==
    status = "removed" =>
        temp = {} /\ \A b \in Ids : row[b] = "none" /\ file[b] = "none"

\* Every reconciliation ends, and with it the deletion of an application: no
\* path of an upload or a deletion keeps the lock.
ReconcileEnds == \A r \in Cleaners : rec[r].pc # "idle" ~> rec[r].pc = "idle"
=============================================================================
