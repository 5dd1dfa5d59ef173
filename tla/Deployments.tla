----------------------------- MODULE Deployments -----------------------------
(***************************************************************************)
(* The life of one application's releases: upload, immutable finalization, *)
(* activation, retention cleanup, suspension, deletion, crash and startup  *)
(* recovery.                                                               *)
(*                                                                         *)
(* Every SQLite transaction of the code (SQLiteStore.Write) and every      *)
(* filesystem effect that others can observe is one step; reads made       *)
(* outside a transaction are separate steps whose results go stale.  The   *)
(* per-application mutex of deployments.Service is the variable lock.      *)
(***************************************************************************)
EXTENDS Releases

CONSTANTS
    Deps,        \* deployment ids: the code draws a fresh random id per upload
    Hashes,      \* content hashes an upload can have (naturals: they are ordered)
    ModeOf,      \* access mode in the tinker.yaml sealed into each content
    Acks,        \* public acknowledgements an upload can carry
    Keys,        \* idempotency keys of deployment creation
    RequestIDs,  \* idempotency keys of activation
    Requests,    \* concurrent activation requests (goroutines)
    Times,       \* values of created_at; the wall clock may step back
    Retention,   \* limits.release_retention
    Budgets,     \* bounds: how often each external event may happen
    None

Events == {"crash", "cleanup", "delete", "status", "amend", "gate"}
Modes == {"private", "public"}

ASSUME HashesAreOrdered == Hashes \subseteq Nat /\ Times \subseteq Nat
ASSUME ModeOfType == ModeOf \in [Hashes -> Modes]
ASSUME AcksType == Acks \subseteq BOOLEAN
ASSUME RetentionType == Retention \in Nat
ASSUME BudgetsType == Budgets \subseteq [Events -> Nat]
ASSUME NoneIsNew == None \notin Deps \cup Hashes \cup Requests \cup RequestIDs

VARIABLES
    serving,     \* the process accepts requests (recovery has finished)
    appStatus,   \* applications.status; "removed" once the row is deleted
    current,     \* applications.current_deployment_id
    policy,      \* the current access_policies row: revision, mode, installer
    publicGate,  \* public_static_settings.enabled
    state,       \* deployments.state of every id
    submission,  \* what the creating request of an id carried, and created_at
    audit,       \* the deployment.activated audit row of every request id
    dir,         \* releases/<app>/<hash>: absent, partial or complete
    upload,      \* program counter of the upload of every id
    act,         \* the activation requests
    lock,        \* holder of the application's activation mutex
    cleaner,     \* the retention cleanup run
    deleter,     \* program counter of DeleteApp
    editor,      \* an owner editing access rules: read, then compare-and-swap
    budget       \* how many of each external event may still happen

appVars == <<appStatus, current, policy>>
rowVars == <<state, submission, audit>>
procVars == <<upload, act, lock, cleaner, deleter>>
envVars == <<publicGate, editor, budget>>
vars == <<serving, appVars, publicGate, rowVars, dir, procVars, editor, budget>>

Submission == [hash : Hashes, ack : Acks, key : Keys, created : Times]
Policy == [rev : Nat, mode : Modes, origin : Deps \cup {None}]

UploadPCs == {"idle", "admitted", "copy", "mark", "extract", "finalize",
              "rename", "persist", "done"}
ActPCs == {"idle", "replay", "enter", "policy", "probe", "commit", "revoke",
           "receipt"}
Activation == [pc : ActPCs, d : Deps \cup {None}, rid : RequestIDs \cup {None},
               seen : Modes, st : States, old : Deps \cup {None}]
IdleAct == [pc |-> "idle", d |-> None, rid |-> None, seen |-> "private",
            st |-> "none", old |-> None]
IdleCleaner == [pc |-> "idle", todo |-> {}, removing |-> None]

HashOf(d) == submission[d].hash
Mode(d) == ModeOf[HashOf(d)]
Rows == {d \in Deps : state[d] # "none"}
Complete(d) == dir[HashOf(d)] = "complete"

\* An external event of kind e happens, within the budget of the behaviour.
Spend(e) == /\ budget[e] > 0
            /\ budget' = [budget EXCEPT ![e] = @ - 1]

Init ==
    /\ serving = TRUE
    /\ appStatus = "active"
    /\ current = None
    /\ policy = [rev |-> 1, mode |-> "private", origin |-> None]
    /\ publicGate \in BOOLEAN
    /\ state = [d \in Deps |-> "none"]
    /\ submission = [d \in Deps |-> None]
    /\ audit = [r \in RequestIDs |-> None]
    /\ dir = [h \in Hashes |-> "absent"]
    /\ upload = [d \in Deps |-> "idle"]
    /\ act = [q \in Requests |-> IdleAct]
    /\ lock = None
    /\ cleaner = IdleCleaner
    /\ deleter = "idle"
    /\ editor = [pc |-> "idle", seen |-> policy]
    /\ budget \in Budgets

-----------------------------------------------------------------------------
(***************************************************************************)
(* CreateDeployment: admission, the row, then Upload in the same request.  *)
(***************************************************************************)

\* CreateDeployment looks the application up before it creates anything.
AdmitUpload(d) ==
    /\ serving
    /\ upload[d] = "idle"
    /\ appStatus = "active"
    /\ upload' = [upload EXCEPT ![d] = "admitted"]
    /\ UNCHANGED <<serving, appVars, rowVars, dir, act, lock, cleaner, deleter,
                   envVars>>

KeyTaken(k) == \E e \in Rows : submission[e].key = k

\* Repository.Create of a new id: the idempotency key must be new for the
\* application, and the foreign key needs the application row.
InsertRow(d) ==
    /\ upload[d] = "admitted"
    /\ appStatus # "removed"
    /\ \E s \in Submission :
          /\ ~KeyTaken(s.key)
          /\ submission' = [submission EXCEPT ![d] = s]
    /\ state' = [state EXCEPT ![d] = "uploading"]
    /\ upload' = [upload EXCEPT ![d] = "copy"]
    /\ UNCHANGED <<serving, appVars, audit, dir, act, lock, cleaner, deleter,
                   envVars>>

\* The key belongs to another deployment, or the application is gone.
InsertRefused(d) ==
    /\ upload[d] = "admitted"
    /\ appStatus = "removed" \/ \E k \in Keys : KeyTaken(k)
    /\ upload' = [upload EXCEPT ![d] = "done"]
    /\ UNCHANGED <<serving, appVars, rowVars, dir, act, lock, cleaner, deleter,
                   envVars>>

\* Repository.Create of an existing id overwrites the row's state without
\* looking at it.  Once the application was deleted there is no row, and the
\* insertion it then tries violates the foreign key.
UploadWrites(d, from, to, s) ==
    /\ upload[d] = from
    /\ IF appStatus = "removed"
       THEN /\ upload' = [upload EXCEPT ![d] = "done"]
            /\ UNCHANGED state
       ELSE /\ upload' = [upload EXCEPT ![d] = to]
            /\ state' = [state EXCEPT ![d] = s]
    /\ UNCHANGED <<serving, appVars, submission, audit, dir, act, lock, cleaner,
                   deleter, envVars>>

CopyArchive(d) == UploadWrites(d, "copy", "mark", "uploaded")
MarkValidating(d) == UploadWrites(d, "mark", "extract", "validating")
ValidateArchive(d) == UploadWrites(d, "extract", "finalize", "staged")
RejectArchiveAsFailed(d) == UploadWrites(d, "extract", "done", "failed")
RejectArchive(d) == UploadWrites(d, "extract", "done", "rejected")
PersistVerified(d) == UploadWrites(d, "persist", "done", "verified")

\* releases.Finalize, first look at the destination: equal content is reused,
\* an absent one is installed by rename, a different one is an error.  While
\* files are being removed the walk can also report the path as absent.
FinalizeInspect(d) ==
    /\ upload[d] = "finalize"
    /\ upload' = [upload EXCEPT ![d] =
                    IF Complete(d) THEN "persist" ELSE "rename"]
    /\ UNCHANGED <<serving, appVars, rowVars, dir, act, lock, cleaner, deleter,
                   envVars>>

\* The rename succeeds onto an absent path; onto an existing one it fails and
\* the path is inspected again, equal content counting as success.
FinalizeRename(d) ==
    /\ upload[d] = "rename"
    /\ dir[HashOf(d)] # "partial"
    /\ dir' = [dir EXCEPT ![HashOf(d)] = "complete"]
    /\ upload' = [upload EXCEPT ![d] = "persist"]
    /\ UNCHANGED <<serving, appVars, rowVars, act, lock, cleaner, deleter,
                   envVars>>

\* Mutant: the failed upload also removes its destination, which another
\* deployment with the same content may be served from.
FailUploadRemoving(d) ==
    /\ upload[d] \in {"copy", "finalize", "rename"}
    /\ dir' = [dir EXCEPT ![HashOf(d)] = "absent"]
    /\ state' = [state EXCEPT ![d] = Fail(@)]
    /\ upload' = [upload EXCEPT ![d] = "done"]
    /\ UNCHANGED <<serving, appVars, submission, audit, act, lock, cleaner,
                   deleter, envVars>>

\* The upload ends with Repo.Fail: the copy broke off, or Finalize failed
\* before the rename or, leaving the directory in place, after it.
FailUpload(d) ==
    /\ upload[d] \in {"copy", "finalize", "rename"}
    /\ \/ UNCHANGED dir
       \/ /\ upload[d] = "rename"
          /\ dir[HashOf(d)] = "absent"
          /\ dir' = [dir EXCEPT ![HashOf(d)] = "complete"]
    /\ state' = [state EXCEPT ![d] = Fail(@)]
    /\ upload' = [upload EXCEPT ![d] = "done"]
    /\ UNCHANGED <<serving, appVars, submission, audit, act, lock, cleaner,
                   deleter, envVars>>

\* The request returns an error without recording it: its context is
\* cancelled, the writer is unavailable, or an error path has no Fail call.
AbandonUpload(d) ==
    /\ upload[d] \notin {"idle", "done"}
    /\ upload' = [upload EXCEPT ![d] = "done"]
    /\ UNCHANGED <<serving, appVars, rowVars, dir, act, lock, cleaner, deleter,
                   envVars>>

-----------------------------------------------------------------------------
(***************************************************************************)
(* ControlService.Activate and deployments.Service.Activate.               *)
(***************************************************************************)

\* The access mode the receipt will report.  It comes from the record read
\* first, whose manifest is only loaded in an evidenced state; an empty mode
\* is reported as private.
Posture(d) == IF state[d] \in Evidenced THEN Mode(d) ELSE "private"

\* Mutant: an early return forgets the unlock.
FinishLocked(q) ==
    /\ act' = [act EXCEPT ![q] = IdleAct]
    /\ UNCHANGED lock

\* Request q ends; the deferred unlock runs if it holds the mutex.
Finish(q) ==
    /\ act' = [act EXCEPT ![q] = IdleAct]
    /\ lock' = IF lock = q THEN None ELSE lock

Goto(q, pc) == /\ act' = [act EXCEPT ![q].pc = pc]
               /\ UNCHANGED lock

\* What the requests leave alone unless they commit.
ActUnchanged == UNCHANGED <<serving, appVars, rowVars, dir, upload, cleaner,
                            deleter, envVars>>

\* The control adapter checks the application and reads the record.
ActivateBegin(q) ==
    /\ serving
    /\ act[q].pc = "idle"
    /\ appStatus = "active"
    /\ \E d \in Rows, r \in RequestIDs :
          act' = [act EXCEPT ![q] = [IdleAct EXCEPT !.pc = "replay", !.d = d,
                                     !.rid = r, !.seen = Posture(d)]]
    /\ UNCHANGED lock
    /\ ActUnchanged

\* DeploymentRepository.ActivationReplay: no activation under this request id
\* is on record; or one of exactly this deployment, which is still live.
\* Anything else, a row that is gone included, is refused.
Fresh(q) == /\ state[act[q].d] # "none"
            /\ audit[act[q].rid] = None

\* Mutant: whatever is live already counts as a replay.
ReplayedByTarget(q) == /\ current = act[q].d
                       /\ state[act[q].d] = "active"

Replayed(q) == /\ audit[act[q].rid] = act[q].d
               /\ current = act[q].d
               /\ state[act[q].d] = "active"

\* Service.ActivationReplay, under the mutex: an exact committed retry goes
\* straight to its receipt.
CheckReplay(q) ==
    /\ act[q].pc = "replay"
    /\ lock = None
    /\ \/ Fresh(q) /\ Goto(q, "enter")
       \/ Replayed(q) /\ Goto(q, "receipt")
       \/ ~Fresh(q) /\ ~Replayed(q) /\ Finish(q)
    /\ ActUnchanged

\* Service.Activate takes the mutex, reads the record again, looks for a
\* replay again and plans against the current release, which must be active.
\* A replay found here returns success to the control adapter, as a commit does.
EnterActivation(q) ==
    LET plannable == Fresh(q) /\ (current # None => state[current] = "active")
    IN  /\ act[q].pc = "enter"
        /\ lock = None
        /\ \/ /\ plannable
              /\ lock' = q
              /\ act' = [act EXCEPT ![q] = [@ EXCEPT !.pc = "policy",
                                                    !.st = state[act[q].d],
                                                    !.old = current]]
           \/ Replayed(q) /\ Goto(q, "revoke")
           \/ ~plannable /\ ~Replayed(q) /\ Finish(q)
        /\ ActUnchanged

\* Mutant: the operator's gate alone admits a public release.
PublicAllowedByGate(d) == Mode(d) = "public" => publicGate

\* Public exposure needs the operator's gate, and either the uploader's
\* acknowledgement or an application that is public already.
PublicAllowed(d) ==
    Mode(d) = "public" =>
        publicGate /\ (submission[d].ack \/ policy.mode = "public")

\* CandidatePolicyReady on the record read under the mutex.
PolicyReady(q) ==
    /\ act[q].st \in Evidenced
    /\ appStatus = "active"
    /\ PublicAllowed(act[q].d)

CheckPolicy(q) ==
    /\ act[q].pc = "policy"
    /\ IF PolicyReady(q) THEN Goto(q, "probe") ELSE Finish(q)
    /\ ActUnchanged

\* ProbeCandidate re-inspects the directory; CanActivate wants verified.
ProbeCandidate(q) ==
    /\ act[q].pc = "probe"
    /\ IF Complete(act[q].d) /\ act[q].st = "verified"
       THEN Goto(q, "commit") ELSE Finish(q)
    /\ ActUnchanged

\* Mutant: the transaction trusts the check of the status made before it.
CommitAllowedInAnyStatus(q) ==
    LET d == act[q].d
    IN  /\ audit[act[q].rid] = None
        /\ current = act[q].old
        /\ PublicAllowed(d)
        /\ state[d] = "verified"
        /\ current # None => state[current] = "active"

\* Every condition CommitActivation re-checks inside its transaction.
CommitAllowed(q) ==
    LET d == act[q].d
    IN  /\ audit[act[q].rid] = None
        /\ appStatus = "active"
        /\ current = act[q].old
        /\ PublicAllowed(d)
        /\ state[d] = "verified"
        /\ current # None => state[current] = "active"

\* Mutant: the old row steps down and the new one is left as it is.
SupersedingOnly(d) == [e \in Deps |-> IF e = current THEN "superseded" ELSE state[e]]

\* The states after the candidate took over from the current release.
Superseding(d) ==
    [e \in Deps |-> CASE e = d -> "active"
                      [] e # d /\ e = current -> "superseded"
                      [] OTHER -> state[e]]

\* installManifestPolicy: a new revision with the candidate's mode.
InstalledPolicy(d) == [rev |-> policy.rev + 1, mode |-> Mode(d), origin |-> d]

\* The one transaction of an activation: states, pointer, policy and audit row.
CommitActivation(q) ==
    LET d == act[q].d
    IN  /\ act[q].pc = "commit"
        /\ CommitAllowed(q)
        /\ state' = Superseding(d)
        /\ current' = d
        /\ policy' = InstalledPolicy(d)
        /\ audit' = [audit EXCEPT ![act[q].rid] = d]
        /\ act' = [act EXCEPT ![q].pc = "revoke"]
        /\ lock' = None
        /\ UNCHANGED <<serving, appStatus, submission, dir, upload, cleaner,
                       deleter, envVars>>

\* The transaction rolls back, or finds its own request already committed.
CommitRefused(q) ==
    /\ act[q].pc = "commit"
    /\ ~CommitAllowed(q)
    /\ IF audit[act[q].rid] = act[q].d
       THEN /\ act' = [act EXCEPT ![q].pc = "revoke"]
            /\ lock' = None
       ELSE Finish(q)
    /\ ActUnchanged

\* Live.Revoke after a successful Service.Activate, then the receipt.
RevokeLive(q) ==
    /\ act[q].pc = "revoke"
    /\ Goto(q, "receipt")
    /\ ActUnchanged

ReturnReceipt(q) ==
    /\ act[q].pc = "receipt"
    /\ Finish(q)
    /\ ActUnchanged

\* The certificate is not ready, a probe is not answered as it must be, the
\* request's context is cancelled, or the store fails before the commit.
AbortActivation(q) ==
    /\ act[q].pc \in {"replay", "enter", "policy", "probe", "commit"}
    /\ Finish(q)
    /\ ActUnchanged

-----------------------------------------------------------------------------
(***************************************************************************)
(* Application status, access rules and the operator's public gate.        *)
(***************************************************************************)

\* SetAppStatus: suspend or resume.
SetAppStatus ==
    /\ serving
    /\ appStatus \in {"active", "suspended"}
    /\ appStatus' = IF appStatus = "active" THEN "suspended" ELSE "active"
    /\ Spend("status")
    /\ UNCHANGED <<serving, current, policy, rowVars, dir, procVars, publicGate,
                   editor>>

\* The owner reads the policy with its revision.
ReadAccess ==
    /\ serving
    /\ appStatus = "active"
    /\ editor.pc = "idle"
    /\ Spend("amend")
    /\ editor' = [pc |-> "editing", seen |-> policy]
    /\ UNCHANGED <<serving, appVars, rowVars, dir, procVars, publicGate>>

\* Mutant: the last writer wins.
EditAppliesUnchecked == appStatus = "active"

EditApplies == /\ appStatus = "active"
               /\ policy.rev = editor.seen.rev
               /\ policy.mode = editor.seen.mode

\* ReplaceAccess: compare-and-swap on the revision, in the mode that is set.
\* It is refused when stale and when it broadens access unconfirmed.
ReplaceAccess ==
    /\ serving
    /\ editor.pc = "editing"
    /\ editor' = [editor EXCEPT !.pc = "idle"]
    /\ \/ /\ EditApplies
          /\ policy' = [rev |-> policy.rev + 1, mode |-> policy.mode,
                        origin |-> None]
       \/ UNCHANGED policy
    /\ UNCHANGED <<serving, appStatus, current, rowVars, dir, procVars,
                   publicGate, budget>>

\* SetPublicGate runs in a root command of its own, also while not serving.
SetPublicGate ==
    /\ Spend("gate")
    /\ publicGate' = ~publicGate
    /\ UNCHANGED <<serving, appVars, rowVars, dir, procVars, editor>>

-----------------------------------------------------------------------------
(***************************************************************************)
(* Retention cleanup: selection from the database, then removal of one     *)
(* directory after another, without the activation mutex.                  *)
(***************************************************************************)

Newest(S) == CHOOSE t \in S : \A u \in S : u <= t

\* CleanupCandidates: the evidenced rows grouped by content hash.
CleanupCandidates ==
    LET rows == {d \in Deps : state[d] \in Evidenced}
        live == {d \in rows : current = d \/ state[d] = "active"}
        hashes(S) == {HashOf(d) : d \in S}
        created == [h \in hashes(rows) |->
                      Newest({submission[d].created :
                                d \in {e \in rows : HashOf(e) = h}})]
    IN  Surplus(hashes(rows), created, hashes(live), Retention)

\* ExecuteCleanup begins; the scheduler's lease admits one run at a time.
CleanupBegin ==
    /\ serving
    /\ cleaner.pc = "idle"
    /\ Spend("cleanup")
    /\ cleaner' = [pc |-> "run", todo |-> CleanupCandidates, removing |-> None]
    /\ UNCHANGED <<serving, appVars, rowVars, dir, upload, act, lock, deleter,
                   publicGate, editor>>

\* RemoveRelease starts on the next candidate: a missing directory is done,
\* otherwise RemoveAll has unlinked some of its files.
RemoveStart(h) ==
    /\ cleaner.pc = "run"
    /\ cleaner.removing = None
    /\ h \in cleaner.todo
    /\ IF dir[h] = "absent"
       THEN /\ cleaner' = [cleaner EXCEPT !.todo = @ \ {h}]
            /\ UNCHANGED dir
       ELSE /\ cleaner' = [cleaner EXCEPT !.removing = h]
            /\ dir' = [dir EXCEPT ![h] = "partial"]
    /\ UNCHANGED <<serving, appVars, rowVars, upload, act, lock, deleter, envVars>>

RemoveFinish ==
    /\ cleaner.pc = "run"
    /\ cleaner.removing # None
    /\ dir' = [dir EXCEPT ![cleaner.removing] = "absent"]
    /\ cleaner' = [cleaner EXCEPT !.todo = @ \ {cleaner.removing},
                                  !.removing = None]
    /\ UNCHANGED <<serving, appVars, rowVars, upload, act, lock, deleter, envVars>>

\* The run ends: every candidate is gone, or a filesystem error aborts it and
\* leaves the directory it was removing as it is.  No row changes.
CleanupEnd ==
    /\ cleaner.pc = "run"
    /\ cleaner' = IdleCleaner
    /\ UNCHANGED <<serving, appVars, rowVars, dir, upload, act, lock, deleter,
                   envVars>>

-----------------------------------------------------------------------------
(***************************************************************************)
(* DeleteApp: make the application inaccessible, purge its bytes, delete   *)
(* its rows.                                                               *)
(***************************************************************************)

DeleteBegin ==
    /\ serving
    /\ deleter = "idle"
    /\ appStatus \in {"active", "suspended", "deleting"}
    /\ Spend("delete")
    /\ appStatus' = "deleting"
    /\ deleter' = "purge"
    /\ UNCHANGED <<serving, current, policy, rowVars, dir, upload, act, lock,
                   cleaner, publicGate, editor>>

\* RemoveAppReleases works its way through the release directories.
PurgeRelease(h) ==
    /\ deleter = "purge"
    /\ dir[h] # "absent"
    /\ \E left \in {"partial", "absent"} \ {dir[h]} :
          dir' = [dir EXCEPT ![h] = left]
    /\ UNCHANGED <<serving, appVars, rowVars, procVars, envVars>>

PurgeDone ==
    /\ deleter = "purge"
    /\ \A h \in Hashes : dir[h] = "absent"
    /\ deleter' = "rows"
    /\ UNCHANGED <<serving, appVars, rowVars, dir, upload, act, lock, cleaner,
                   envVars>>

\* The purge or the second transaction fails: the request returns an error.
DeleteFails ==
    /\ deleter \in {"purge", "rows"}
    /\ deleter' = "idle"
    /\ UNCHANGED <<serving, appVars, rowVars, dir, upload, act, lock, cleaner,
                   envVars>>

\* The second transaction deletes every child row and then the application
\* row, which must still be marked as being deleted.
DeleteRows ==
    /\ deleter = "rows"
    /\ appStatus = "deleting"
    /\ appStatus' = "removed"
    /\ current' = None
    /\ state' = [d \in Deps |-> "none"]
    /\ audit' = [r \in RequestIDs |-> None]
    /\ deleter' = "idle"
    /\ UNCHANGED <<serving, policy, submission, dir, upload, act, lock, cleaner,
                   envVars>>

-----------------------------------------------------------------------------
(***************************************************************************)
(* A crash loses every goroutine and keeps the database and the release    *)
(* directories.  RecoverStartup classifies each row before serving again.  *)
(***************************************************************************)

Crash ==
    /\ serving
    /\ Spend("crash")
    /\ serving' = FALSE
    /\ upload' = [d \in Deps |-> IF upload[d] = "idle" THEN "idle" ELSE "done"]
    /\ act' = [q \in Requests |-> IdleAct]
    /\ lock' = None
    /\ cleaner' = IdleCleaner
    /\ deleter' = "idle"
    /\ UNCHANGED <<appVars, rowVars, dir, publicGate, editor>>

Recovered(d) == IF state[d] = "none" THEN "none" ELSE Recover(state[d], Complete(d))

\* ApplyRecovery: the row fails, and a pointer to it takes the app down.
RecoverRecord(d) ==
    /\ ~serving
    /\ Recovered(d) # state[d]
    /\ state' = [state EXCEPT ![d] = Recovered(d)]
    /\ IF current = d
       THEN /\ appStatus' = "failed"
            /\ current' = None
       ELSE UNCHANGED <<appStatus, current>>
    /\ UNCHANGED <<serving, policy, submission, audit, dir, procVars, envVars>>

StartServing ==
    /\ ~serving
    /\ \A d \in Deps : Recovered(d) = state[d]
    /\ serving' = TRUE
    /\ UNCHANGED <<appVars, rowVars, dir, procVars, envVars>>

-----------------------------------------------------------------------------
UploadStep(d) ==
    \/ AdmitUpload(d) \/ InsertRow(d) \/ InsertRefused(d)
    \/ CopyArchive(d) \/ MarkValidating(d) \/ ValidateArchive(d)
    \/ RejectArchive(d) \/ FinalizeInspect(d) \/ FinalizeRename(d)
    \/ PersistVerified(d) \/ FailUpload(d) \/ AbandonUpload(d)

ActivationStep(q) ==
    \/ CheckReplay(q) \/ EnterActivation(q) \/ CheckPolicy(q)
    \/ ProbeCandidate(q) \/ CommitActivation(q) \/ CommitRefused(q)
    \/ RevokeLive(q) \/ ReturnReceipt(q)

AppStep == SetAppStatus \/ ReadAccess \/ ReplaceAccess \/ SetPublicGate

CleanupStep ==
    \/ CleanupBegin \/ RemoveFinish \/ CleanupEnd
    \/ \E h \in Hashes : RemoveStart(h)

DeleteStep ==
    \/ DeleteBegin \/ PurgeDone \/ DeleteFails \/ DeleteRows
    \/ \E h \in Hashes : PurgeRelease(h)

StartupStep == StartServing \/ \E d \in Deps : RecoverRecord(d)

Next ==
    \/ \E d \in Deps : UploadStep(d)
    \/ \E q \in Requests :
          ActivateBegin(q) \/ ActivationStep(q) \/ AbortActivation(q)
    \/ AppStep
    \/ CleanupStep
    \/ DeleteStep
    \/ StartupStep
    \/ Crash

Spec == Init /\ [][Next]_vars

\* Requests run to their end, and startup runs to its end.  The mutex is
\* Go's sync.Mutex, whose starvation mode hands it to every waiter in turn:
\* strong fairness for the two steps that wait for it.
Fairness ==
    /\ \A q \in Requests :
          /\ WF_vars(ActivationStep(q))
          /\ SF_vars(CheckReplay(q))
          /\ SF_vars(EnterActivation(q))
    /\ WF_vars(StartupStep)

FairSpec == Spec /\ Fairness

-----------------------------------------------------------------------------
(***************************************************************************)
(* Properties.                                                             *)
(***************************************************************************)

\* The database columns, the release directories and the program counters
\* keep their declared types.
TypeOK ==
    /\ serving \in BOOLEAN
    /\ appStatus \in {"active", "suspended", "deleting", "failed", "removed"}
    /\ current \in Deps \cup {None}
    /\ policy \in Policy
    /\ publicGate \in BOOLEAN
    /\ state \in [Deps -> States]
    /\ submission \in [Deps -> Submission \cup {None}]
    /\ audit \in [RequestIDs -> Deps \cup {None}]
    /\ dir \in [Hashes -> {"absent", "partial", "complete"}]
    /\ upload \in [Deps -> UploadPCs]
    /\ act \in [Requests -> Activation]
    /\ lock \in Requests \cup {None}
    /\ cleaner \in [pc : {"idle", "run"}, todo : SUBSET Hashes,
                    removing : Hashes \cup {None}]
    /\ deleter \in {"idle", "purge", "rows"}
    /\ editor \in [pc : {"idle", "editing"}, seen : Policy]
    /\ budget \in [Events -> Nat]

\* The current pointer and the row states never disagree, whatever uploads,
\* activations, crashes and recoveries interleave: a row is active exactly
\* when it is the current deployment.  ResolveActive serves the join of both.
CurrentIsActive == {d \in Deps : state[d] = "active"} = {current} \ {None}

\* Rows move only along the table of releases.Transition although
\* Repository.Create writes the state blindly: other changes are the insertion
\* of a row, the startup classification and the deletion of the application.
TransitionsFollowTable ==
    [][\A d \in Deps :
          \/ state'[d] = state[d]
          \/ <<state[d], state'[d]>> \in Transition
          \/ state[d] = "none" /\ state'[d] = "uploading"
          \/ ~serving /\ state'[d] = "failed"
          \/ appStatus' = "removed" /\ state'[d] = "none"]_vars

\* The access policy in force carries the mode sealed into the release it
\* protects: CommitActivation installs both together, ReplaceAccess keeps it.
ModeMatchesRelease == current # None => policy.mode = Mode(current)

\* An application is public only if some committed activation of it was of a
\* public upload that its uploader had acknowledged, even though later public
\* releases need no acknowledgement of their own.
PublicWasAcknowledged ==
    policy.mode = "public" /\ appStatus # "removed" =>
        \E r \in RequestIDs :
            /\ audit[r] # None
            /\ submission[audit[r]].ack
            /\ Mode(audit[r]) = "public"

\* ReplaceAccess never overwrites a policy its caller has not seen, although
\* an activation may install one between the read and the write.
NoLostPolicyUpdate ==
    [][policy' # policy /\ policy'.origin = None => editor.seen = policy]_vars

\* A request that returns an activation receipt names a deployment whose
\* activation under exactly this request id is on record (until the
\* application, with its audit rows, is deleted).
ReceiptIsCommitted ==
    \A q \in Requests :
        act[q].pc \in {"revoke", "receipt"} =>
            audit[act[q].rid] = act[q].d \/ appStatus = "removed"

\* The immutable bytes of the release that is served are on disk: the
\* probe before the commit saw them and nothing takes them away.
ActiveReleasePresent ==
    current # None /\ appStatus \in {"active", "suspended"} /\ serving
        => Complete(current)

\* The application as owners and viewers see it behaves like ReleasePointer:
\* the versions that have been live are those with an activation on record.
Pointer == INSTANCE ReleasePointer
             WITH Versions <- Deps, phase <- appStatus, live <- current,
                  rev <- policy.rev, mode <- policy.mode,
                  published <- {audit[r] : r \in RequestIDs} \ {None}

\* No interleaving of uploads, activations, retries, edits, deletion, crash
\* and recovery shows anything ReleasePointer forbids: a release going live
\* twice, a change without a new revision, a publication after a takedown.
ImplementsReleasePointer == Pointer!Spec

\* Every accepted activation request is answered: none waits for ever for the
\* mutex, and no path leaves the mutex locked.
ActivationTerminates ==
    \A q \in Requests : act[q].pc # "idle" ~> act[q].pc = "idle"
=============================================================================
