-------------------------- MODULE DeploymentsProofs --------------------------
(***************************************************************************)
(* Theorems about Deployments for every set of deployments, contents and   *)
(* requests, every retention and every bound on the external events.       *)
(***************************************************************************)
EXTENDS Deployments, CleanupPlan, FiniteSetTheorems, TLAPS

\* The case split every invariance proof uses: a step of Next is a step of one
\* operation for one deployment, one request or one content.
LEMMA NextCases ==
    ASSUME Next
    PROVE  \/ \E d \in Deps :
                \/ AdmitUpload(d) \/ InsertRow(d) \/ InsertRefused(d)
                \/ CopyArchive(d) \/ MarkValidating(d) \/ ValidateArchive(d)
                \/ RejectArchive(d) \/ PersistVerified(d)
                \/ FinalizeInspect(d) \/ FinalizeRename(d)
                \/ FailUpload(d) \/ AbandonUpload(d) \/ RecoverRecord(d)
           \/ \E q \in Requests :
                \/ ActivateBegin(q) \/ CheckReplay(q) \/ EnterActivation(q)
                \/ CheckPolicy(q) \/ ProbeCandidate(q) \/ CommitActivation(q)
                \/ CommitRefused(q) \/ RevokeLive(q) \/ ReturnReceipt(q)
                \/ AbortActivation(q)
           \/ \E h \in Hashes : RemoveStart(h) \/ PurgeRelease(h)
           \/ SetAppStatus \/ ReadAccess \/ ReplaceAccess \/ SetPublicGate
           \/ CleanupBegin \/ RemoveFinish \/ CleanupEnd
           \/ DeleteBegin \/ PurgeDone \/ DeleteFails \/ DeleteRows
           \/ StartServing \/ Crash
BY DEF Next, UploadStep, ActivationStep, AppStep, CleanupStep, DeleteStep,
       StartupStep

USE ModeOfType, NoneIsNew

-----------------------------------------------------------------------------
(***************************************************************************)
(* Type correctness.  An evidenced row must have a submission and a busy   *)
(* request a target for the operators to make sense, so the invariant says *)
(* that too.                                                               *)
(***************************************************************************)

RowsAreSubmitted ==
    \A d \in Deps :
        state[d] # "none" \/ upload[d] \in UploadPCs \ {"idle", "admitted", "done"}
            => submission[d] \in Submission

BusyRequestsHaveTargets ==
    \A q \in Requests :
        act[q].pc # "idle" => act[q].d \in Deps /\ act[q].rid \in RequestIDs

CurrentHasRow == current # None => state[current] # "none"

TypeInv == /\ TypeOK /\ RowsAreSubmitted
           /\ BusyRequestsHaveTargets /\ CurrentHasRow

\* The updates of a request on its way to a commit.
LEMMA PlannedType ==
    ASSUME NEW a \in Activation, NEW s \in States, NEW o \in Deps \cup {None}
    PROVE  [a EXCEPT !.pc = "policy", !.st = s, !.old = o] \in Activation
<1>1. "policy" \in ActPCs
  BY DEF ActPCs
<1> QED BY <1>1 DEF Activation

LEMMA CommittedType ==
    ASSUME NEW a \in Activation
    PROVE  [a EXCEPT !.pc = "revoke"] \in Activation
<1>1. "revoke" \in ActPCs
  BY DEF ActPCs
<1> QED BY <1>1 DEF Activation

\* A request keeps its target while it moves on, and loses it when it ends.
LEMMA GotoType ==
    ASSUME TypeInv, NEW q \in Requests, NEW pc \in ActPCs,
           act[q].pc # "idle", Goto(q, pc)
    PROVE  /\ act' \in [Requests -> Activation]
           /\ lock' \in Requests \cup {None}
           /\ BusyRequestsHaveTargets'
BY DEF TypeInv, TypeOK, Goto, Activation, BusyRequestsHaveTargets

LEMMA FinishType ==
    ASSUME TypeInv, NEW q \in Requests, Finish(q)
    PROVE  /\ act' \in [Requests -> Activation]
           /\ lock' \in Requests \cup {None}
           /\ BusyRequestsHaveTargets'
BY DEF TypeInv, TypeOK, Finish, Activation, BusyRequestsHaveTargets, IdleAct,
       ActPCs, Modes, States

LEMMA TypeInit == Init => TypeInv
BY BudgetsType DEF Init, TypeInv, TypeOK, RowsAreSubmitted, BusyRequestsHaveTargets,
       CurrentHasRow, Policy,
       Modes, Activation, ActPCs, UploadPCs, States, IdleAct, IdleCleaner, Events

LEMMA TypeUpload ==
    ASSUME TypeInv, NEW d \in Deps,
           \/ AdmitUpload(d) \/ InsertRow(d) \/ InsertRefused(d)
           \/ FinalizeInspect(d) \/ FinalizeRename(d)
           \/ FailUpload(d) \/ AbandonUpload(d) \/ RecoverRecord(d)
    PROVE  TypeInv'
<1> USE DEF TypeInv, TypeOK, RowsAreSubmitted, BusyRequestsHaveTargets,
            CurrentHasRow, appVars, rowVars, procVars, envVars, UploadPCs
<1>1. CASE AdmitUpload(d)
  BY <1>1 DEF AdmitUpload
<1>2. CASE InsertRow(d)
  BY <1>2 DEF InsertRow, States
<1>3. CASE InsertRefused(d)
  BY <1>3 DEF InsertRefused
<1>4. CASE FinalizeInspect(d)
  BY <1>4 DEF FinalizeInspect
<1>5. CASE FinalizeRename(d)
  BY <1>5 DEF FinalizeRename, HashOf, Submission
<1>6. CASE FailUpload(d)
  BY <1>6 DEF FailUpload, Fail, States, HashOf, Submission
<1>7. CASE AbandonUpload(d)
  BY <1>7 DEF AbandonUpload
<1>8. CASE RecoverRecord(d)
  BY <1>8 DEF RecoverRecord, Recovered, Recover, States
<1> QED BY <1>1, <1>2, <1>3, <1>4, <1>5, <1>6, <1>7, <1>8

LEMMA TypeUploadWrites ==
    ASSUME TypeInv, NEW d \in Deps,
           \/ CopyArchive(d) \/ MarkValidating(d) \/ ValidateArchive(d)
           \/ RejectArchive(d) \/ PersistVerified(d)
    PROVE  TypeInv'
<1> USE DEF TypeInv, TypeOK, RowsAreSubmitted, BusyRequestsHaveTargets,
            CurrentHasRow, appVars, envVars, UploadPCs, UploadWrites, States
<1>1. CASE CopyArchive(d)
  BY <1>1 DEF CopyArchive
<1>2. CASE MarkValidating(d)
  BY <1>2 DEF MarkValidating
<1>3. CASE ValidateArchive(d)
  BY <1>3 DEF ValidateArchive
<1>4. CASE RejectArchive(d)
  BY <1>4 DEF RejectArchive
<1>5. CASE PersistVerified(d)
  BY <1>5 DEF PersistVerified
<1> QED BY <1>1, <1>2, <1>3, <1>4, <1>5

LEMMA TypeActivation ==
    ASSUME TypeInv, NEW q \in Requests,
           \/ ActivateBegin(q) \/ CheckReplay(q) \/ EnterActivation(q)
           \/ CheckPolicy(q) \/ ProbeCandidate(q) \/ CommitActivation(q)
           \/ CommitRefused(q) \/ RevokeLive(q) \/ ReturnReceipt(q)
           \/ AbortActivation(q)
    PROVE  TypeInv'
<1> USE DEF TypeInv, TypeOK, RowsAreSubmitted, CurrentHasRow, appVars, rowVars,
            envVars, ActUnchanged
<1>0. ASSUME ActUnchanged, BusyRequestsHaveTargets',
             act' \in [Requests -> Activation], lock' \in Requests \cup {None}
      PROVE  TypeInv'
  BY <1>0
<1>1. CASE ActivateBegin(q)
  <2>1. PICK d \in Rows, r \in RequestIDs :
          act' = [act EXCEPT ![q] = [IdleAct EXCEPT !.pc = "replay", !.d = d,
                                     !.rid = r, !.seen = Posture(d)]]
    BY <1>1 DEF ActivateBegin
  <2>2. d \in Deps /\ Posture(d) \in Modes
    BY DEF Rows, Posture, Mode, HashOf, Submission, Modes
  <2>3. act' \in [Requests -> Activation] /\ BusyRequestsHaveTargets'
    BY <2>1, <2>2 DEF Activation, IdleAct, ActPCs, States, BusyRequestsHaveTargets
  <2> QED BY <1>0, <1>1, <2>3 DEF ActivateBegin
<1>2. CASE CheckReplay(q)
  BY <1>0, <1>2, GotoType, FinishType DEF CheckReplay, ActPCs
<1>3. CASE EnterActivation(q)
  <2>1. CASE Finish(q) \/ Goto(q, "revoke")
    BY <1>0, <1>3, <2>1, GotoType, FinishType DEF EnterActivation, ActPCs
  <2>2. CASE /\ lock' = q
             /\ act' = [act EXCEPT ![q] = [@ EXCEPT !.pc = "policy",
                                                   !.st = state[act[q].d],
                                                   !.old = current]]
    <3>1. act[q].d \in Deps /\ act[q].rid \in RequestIDs
      BY <1>3 DEF EnterActivation, BusyRequestsHaveTargets
    <3>2. [act[q] EXCEPT !.pc = "policy", !.st = state[act[q].d], !.old = current]
            \in Activation
      BY <3>1, PlannedType
    <3>3. act' \in [Requests -> Activation] /\ BusyRequestsHaveTargets'
      BY <2>2, <3>1, <3>2 DEF Activation, BusyRequestsHaveTargets
    <3> QED BY <1>0, <1>3, <2>2, <3>3 DEF EnterActivation
  <2> QED BY <1>3, <2>1, <2>2 DEF EnterActivation
<1>4. CASE CheckPolicy(q)
  BY <1>0, <1>4, GotoType, FinishType DEF CheckPolicy, ActPCs
<1>5. CASE ProbeCandidate(q)
  BY <1>0, <1>5, GotoType, FinishType DEF ProbeCandidate, ActPCs
<1>6. CASE CommitActivation(q)
  <2> DEFINE d == act[q].d
  <2>1. d \in Deps /\ act[q].rid \in RequestIDs
    BY <1>6 DEF CommitActivation, BusyRequestsHaveTargets
  <2>2. submission[d] \in Submission /\ Mode(d) \in Modes
    BY <1>6, <2>1 DEF CommitActivation, CommitAllowed, Mode, HashOf, Submission
  <2>3. state' \in [Deps -> States] /\ RowsAreSubmitted' /\ CurrentHasRow'
    BY <1>6, <2>1, <2>2 DEF CommitActivation, CommitAllowed, Superseding, States
  <2>4. policy' \in Policy
    BY <1>6, <2>1, <2>2 DEF CommitActivation, InstalledPolicy, Policy
  <2>5. [act[q] EXCEPT !.pc = "revoke"] \in Activation
    BY CommittedType
  <2>6. act' \in [Requests -> Activation] /\ BusyRequestsHaveTargets'
    BY <1>6, <2>1, <2>5 DEF CommitActivation, Activation, BusyRequestsHaveTargets
  <2>7. audit' \in [RequestIDs -> Deps \cup {None}] /\ current' \in Deps
    BY <1>6, <2>1 DEF CommitActivation
  <2> QED BY <1>6, <2>3, <2>4, <2>6, <2>7 DEF CommitActivation
<1>7. CASE CommitRefused(q)
  <2>1. CASE Finish(q)
    BY <1>0, <1>7, <2>1, FinishType DEF CommitRefused
  <2>2. CASE act' = [act EXCEPT ![q].pc = "revoke"] /\ lock' = None
    <3>1. act' \in [Requests -> Activation] /\ BusyRequestsHaveTargets'
      BY <1>7, <2>2 DEF CommitRefused, Activation, ActPCs, BusyRequestsHaveTargets
    <3> QED BY <1>0, <1>7, <2>2, <3>1 DEF CommitRefused
  <2> QED BY <1>7, <2>1, <2>2 DEF CommitRefused
<1>8. CASE RevokeLive(q)
  BY <1>0, <1>8, GotoType DEF RevokeLive, ActPCs
<1>9. CASE ReturnReceipt(q)
  BY <1>0, <1>9, FinishType DEF ReturnReceipt
<1>10. CASE AbortActivation(q)
  BY <1>0, <1>10, FinishType DEF AbortActivation
<1> QED BY <1>1, <1>2, <1>3, <1>4, <1>5, <1>6, <1>7, <1>8, <1>9, <1>10

LEMMA TypeRemoval ==
    ASSUME TypeInv,
           \/ \E h \in Hashes : RemoveStart(h) \/ PurgeRelease(h)
           \/ CleanupBegin \/ RemoveFinish \/ CleanupEnd
           \/ DeleteBegin \/ PurgeDone \/ DeleteFails \/ DeleteRows
    PROVE  TypeInv'
<1> USE DEF TypeInv, TypeOK, RowsAreSubmitted, BusyRequestsHaveTargets,
            CurrentHasRow, appVars, rowVars, procVars, envVars, Spend, Events
<1>1. CASE \E h \in Hashes : RemoveStart(h)
  BY <1>1 DEF RemoveStart
<1>2. CASE \E h \in Hashes : PurgeRelease(h)
  BY <1>2 DEF PurgeRelease
<1>3. CASE CleanupBegin
  <2>1. CleanupCandidates \subseteq Hashes
    BY DEF CleanupCandidates, Surplus, HashOf, Submission, Evidenced
  <2>2. current # None => HashOf(current) \in Hashes
    BY DEF HashOf, Submission
  <2> QED BY <1>3, <2>1, <2>2 DEF CleanupBegin
<1>4. CASE RemoveFinish
  BY <1>4 DEF RemoveFinish
<1>5. CASE CleanupEnd
  BY <1>5 DEF CleanupEnd, IdleCleaner
<1>6. CASE DeleteBegin
  BY <1>6 DEF DeleteBegin
<1>7. CASE PurgeDone
  BY <1>7 DEF PurgeDone
<1>8. CASE DeleteFails
  BY <1>8 DEF DeleteFails
<1>9. CASE DeleteRows
  BY <1>9 DEF DeleteRows, States
<1> QED BY <1>1, <1>2, <1>3, <1>4, <1>5, <1>6, <1>7, <1>8, <1>9

LEMMA TypeEnvironment ==
    ASSUME TypeInv,
           \/ SetAppStatus \/ ReadAccess \/ ReplaceAccess \/ SetPublicGate
           \/ StartServing \/ Crash
    PROVE  TypeInv'
<1> USE DEF TypeInv, TypeOK, RowsAreSubmitted, BusyRequestsHaveTargets,
            CurrentHasRow, appVars, rowVars, procVars, envVars, Spend, Events
<1>1. CASE SetAppStatus
  BY <1>1 DEF SetAppStatus
<1>2. CASE ReadAccess
  BY <1>2 DEF ReadAccess
<1>3. CASE ReplaceAccess
  <2>1. policy' \in Policy
    BY <1>3 DEF ReplaceAccess, EditApplies, Policy
  <2>2. editor' \in [pc : {"idle", "editing"}, seen : Policy]
    BY <1>3 DEF ReplaceAccess
  <2> QED BY <1>3, <2>1, <2>2 DEF ReplaceAccess
<1>4. CASE SetPublicGate
  BY <1>4 DEF SetPublicGate
<1>5. CASE StartServing
  BY <1>5 DEF StartServing
<1>6. CASE Crash
  <2>1. IdleAct \in Activation
    BY DEF IdleAct, Activation, ActPCs, Modes, States
  <2>2. act' \in [Requests -> Activation] /\ BusyRequestsHaveTargets'
    BY <1>6, <2>1 DEF Crash, IdleAct
  <2>3. /\ upload' \in [Deps -> UploadPCs]
        /\ cleaner' \in [pc : {"idle", "run"}, todo : SUBSET Hashes,
                         removing : Hashes \cup {None}]
    BY <1>6 DEF Crash, UploadPCs, IdleCleaner
  <2>4. RowsAreSubmitted'
    BY <1>6 DEF Crash, UploadPCs
  <2>5. budget' \in [Events -> Nat]
    BY <1>6 DEF Crash
  <2> QED BY <1>6, <2>2, <2>3, <2>4, <2>5 DEF Crash
<1> QED BY <1>1, <1>2, <1>3, <1>4, <1>5, <1>6

LEMMA TypeStep ==
    ASSUME TypeInv, [Next]_vars
    PROVE  TypeInv'
<1>1. CASE Next
  BY <1>1, NextCases, TypeUpload, TypeUploadWrites, TypeActivation, TypeRemoval,
     TypeEnvironment
<1>2. CASE UNCHANGED vars
  BY <1>2 DEF TypeInv, TypeOK, RowsAreSubmitted, BusyRequestsHaveTargets,
              CurrentHasRow, vars, appVars, rowVars, procVars
<1> QED BY <1>1, <1>2

\* Every reachable state is well typed: no interleaving of uploads,
\* activations, cleanup, deletion and recovery reads a column of a row that
\* does not exist or leaves a request without a target.
THEOREM TypeCorrect == Spec => []TypeOK
<1>1. Spec => []TypeInv
  BY TypeInit, TypeStep, PTL DEF Spec
<1>2. TypeInv => TypeOK
  BY DEF TypeInv
<1> QED BY <1>1, <1>2, PTL

-----------------------------------------------------------------------------
(***************************************************************************)
(* The pointer and the row states.  CurrentIsActive alone is not           *)
(* inductive: Repository.Create overwrites states without looking, so it   *)
(* has to be known that an upload that still writes owns a row that has    *)
(* never been activated, and that recovery runs when no upload does.       *)
(***************************************************************************)

RowFollowsUpload ==
    \A d \in Deps : appStatus # "removed" =>
        /\ upload[d] \in {"idle", "admitted"} => state[d] = "none"
        /\ upload[d] = "copy" => state[d] = "uploading"
        /\ upload[d] = "mark" => state[d] = "uploaded"
        /\ upload[d] = "extract" => state[d] = "validating"
        /\ upload[d] \in {"finalize", "rename", "persist"} => state[d] = "staged"

NoUploadWhileStopped ==
    ~serving => \A d \in Deps : upload[d] \in {"idle", "done"}

RemovedIsEmpty ==
    appStatus = "removed" =>
        /\ \A d \in Deps : state[d] = "none"
        /\ \A r \in RequestIDs : audit[r] = None
        /\ current = None

\* Whatever has an activation on record has left the verified state for good.
AuditedRowsWereActive ==
    \A r \in RequestIDs :
        audit[r] # None => state[audit[r]] \in {"active", "superseded", "failed"}

StateInv == /\ RowFollowsUpload /\ NoUploadWhileStopped /\ RemovedIsEmpty
            /\ AuditedRowsWereActive /\ CurrentIsActive

\* StateInv reads nothing but these variables.
stateVars == <<serving, appStatus, current, state, audit, upload>>

LEMMA StateInit == Init => StateInv
BY DEF Init, StateInv, RowFollowsUpload, NoUploadWhileStopped, RemovedIsEmpty,
       AuditedRowsWereActive, CurrentIsActive

LEMMA StateUnchanged ==
    ASSUME StateInv, UNCHANGED stateVars
    PROVE  StateInv'
BY DEF StateInv, RowFollowsUpload, NoUploadWhileStopped, RemovedIsEmpty,
       AuditedRowsWereActive, CurrentIsActive, stateVars

\* A step that gives the row of one upload a state other than active, and
\* lets no other row change, keeps the pointer right if the row was not active.
LEMMA StateUpload ==
    ASSUME TypeInv, StateInv, NEW d \in Deps,
           \/ AdmitUpload(d) \/ InsertRow(d) \/ InsertRefused(d)
           \/ CopyArchive(d) \/ MarkValidating(d) \/ ValidateArchive(d)
           \/ RejectArchive(d) \/ PersistVerified(d)
           \/ FinalizeInspect(d) \/ FinalizeRename(d)
           \/ FailUpload(d) \/ AbandonUpload(d)
    PROVE  StateInv'
<1> USE DEF TypeInv, TypeOK, StateInv, RowFollowsUpload, NoUploadWhileStopped,
            RemovedIsEmpty, AuditedRowsWereActive, CurrentIsActive, appVars,
            rowVars
<1>1. CASE AdmitUpload(d)
  BY <1>1 DEF AdmitUpload
<1>2. CASE InsertRow(d)
  BY <1>2 DEF InsertRow
<1>3. CASE InsertRefused(d)
  BY <1>3 DEF InsertRefused
<1>4. CASE CopyArchive(d)
  BY <1>4 DEF CopyArchive, UploadWrites
<1>5. CASE MarkValidating(d)
  BY <1>5 DEF MarkValidating, UploadWrites
<1>6. CASE ValidateArchive(d)
  BY <1>6 DEF ValidateArchive, UploadWrites
<1>7. CASE RejectArchive(d)
  BY <1>7 DEF RejectArchive, UploadWrites
<1>8. CASE PersistVerified(d)
  BY <1>8 DEF PersistVerified, UploadWrites
<1>9. CASE FinalizeInspect(d)
  BY <1>9 DEF FinalizeInspect
<1>10. CASE FinalizeRename(d)
  BY <1>10 DEF FinalizeRename
<1>11. CASE FailUpload(d)
  BY <1>11 DEF FailUpload, Fail
<1>12. CASE AbandonUpload(d)
  BY <1>12 DEF AbandonUpload
<1> QED BY <1>1, <1>2, <1>3, <1>4, <1>5, <1>6, <1>7, <1>8, <1>9, <1>10, <1>11,
           <1>12

LEMMA StateCommit ==
    ASSUME TypeInv, StateInv, NEW q \in Requests, CommitActivation(q)
    PROVE  StateInv'
<1> USE DEF TypeInv, TypeOK, StateInv
<1> DEFINE d == act[q].d
<1>1. d \in Deps /\ act[q].rid \in RequestIDs /\ state[d] = "verified"
  BY DEF CommitActivation, CommitAllowed, BusyRequestsHaveTargets
<1>2. /\ current' = d /\ audit' = [audit EXCEPT ![act[q].rid] = d]
      /\ UNCHANGED <<serving, appStatus, upload>>
      /\ \A e \in Deps : state'[e] = IF e = d THEN "active"
                                     ELSE IF e = current THEN "superseded"
                                     ELSE state[e]
      /\ appStatus = "active"
  BY DEF CommitActivation, CommitAllowed, Superseding
<1>3. CurrentIsActive'
  BY <1>1, <1>2 DEF CurrentIsActive
<1>4. RowFollowsUpload'
  BY <1>1, <1>2 DEF RowFollowsUpload, CurrentIsActive, UploadPCs
<1>5. AuditedRowsWereActive'
  BY <1>1, <1>2 DEF AuditedRowsWereActive
<1> QED BY <1>2, <1>3, <1>4, <1>5 DEF NoUploadWhileStopped, RemovedIsEmpty

LEMMA StateRecovery ==
    ASSUME TypeInv, StateInv, NEW d \in Deps, RecoverRecord(d)
    PROVE  StateInv'
<1> USE DEF TypeInv, TypeOK, StateInv
<1>1. /\ ~serving /\ UNCHANGED <<serving, audit, upload>>
      /\ state[d] # "none"
      /\ state' = [state EXCEPT ![d] = "failed"]
      /\ IF current = d THEN appStatus' = "failed" /\ current' = None
                        ELSE UNCHANGED <<appStatus, current>>
  BY DEF RecoverRecord, Recovered, Recover, procVars
<1>2. CurrentIsActive'
  BY <1>1 DEF CurrentIsActive
<1>3. RowFollowsUpload' /\ NoUploadWhileStopped'
  BY <1>1 DEF RowFollowsUpload, NoUploadWhileStopped, RemovedIsEmpty
<1>4. AuditedRowsWereActive' /\ RemovedIsEmpty'
  BY <1>1 DEF AuditedRowsWereActive, RemovedIsEmpty
<1> QED BY <1>2, <1>3, <1>4

LEMMA StateOther ==
    ASSUME TypeInv, StateInv,
           SetAppStatus \/ DeleteBegin \/ DeleteRows \/ StartServing \/ Crash
    PROVE  StateInv'
<1> USE DEF TypeInv, TypeOK, StateInv, RowFollowsUpload, NoUploadWhileStopped,
            RemovedIsEmpty, AuditedRowsWereActive, CurrentIsActive, appVars,
            rowVars, procVars
<1>1. CASE SetAppStatus
  BY <1>1 DEF SetAppStatus
<1>2. CASE DeleteBegin
  BY <1>2 DEF DeleteBegin
<1>3. CASE DeleteRows
  BY <1>3 DEF DeleteRows
<1>4. CASE StartServing
  BY <1>4 DEF StartServing
<1>5. CASE Crash
  BY <1>5 DEF Crash
<1> QED BY <1>1, <1>2, <1>3, <1>4, <1>5

LEMMA StateStep ==
    ASSUME TypeInv, StateInv, [Next]_vars
    PROVE  StateInv'
<1>1. ASSUME NEW q \in Requests,
             \/ ActivateBegin(q) \/ CheckReplay(q) \/ EnterActivation(q)
             \/ CheckPolicy(q) \/ ProbeCandidate(q) \/ CommitRefused(q)
             \/ RevokeLive(q) \/ ReturnReceipt(q) \/ AbortActivation(q)
      PROVE  UNCHANGED stateVars
  BY <1>1 DEF ActivateBegin, CheckReplay, EnterActivation, CheckPolicy,
              ProbeCandidate, CommitRefused, RevokeLive, ReturnReceipt,
              AbortActivation, ActUnchanged, stateVars, appVars, rowVars
<1>2. ASSUME \/ \E h \in Hashes : RemoveStart(h) \/ PurgeRelease(h)
             \/ ReadAccess \/ ReplaceAccess \/ SetPublicGate
             \/ CleanupBegin \/ RemoveFinish \/ CleanupEnd
             \/ PurgeDone \/ DeleteFails \/ UNCHANGED vars
      PROVE  UNCHANGED stateVars
  BY <1>2 DEF RemoveStart, PurgeRelease, ReadAccess, ReplaceAccess,
              SetPublicGate, CleanupBegin, RemoveFinish, CleanupEnd, PurgeDone,
              DeleteFails, stateVars, vars, appVars, rowVars, procVars
<1> QED BY <1>1, <1>2, NextCases, StateUpload, StateCommit, StateRecovery,
           StateOther, StateUnchanged

\* For any number of deployments, requests and crashes the current pointer
\* and the active row are the same thing: what ResolveActive serves is never
\* a superseded, failed or missing release, and no second row is active.
THEOREM PointerCorrect == Spec => []CurrentIsActive
<1>1. Init => TypeInv /\ StateInv
  BY TypeInit, StateInit
<1>2. TypeInv /\ StateInv /\ [Next]_vars => TypeInv' /\ StateInv'
  BY TypeStep, StateStep
<1>3. StateInv => CurrentIsActive
  BY DEF StateInv
<1> QED BY <1>1, <1>2, <1>3, PTL DEF Spec

-----------------------------------------------------------------------------
(***************************************************************************)
(* The transition table.                                                   *)
(***************************************************************************)

\* Only an upload, a commit, the deletion and the recovery write states.
LEMMA StateWriters ==
    ASSUME [Next]_vars
    PROVE  \/ UNCHANGED <<state, submission, audit, current>>
           \/ \E d \in Deps :
                \/ InsertRow(d) \/ CopyArchive(d) \/ MarkValidating(d)
                \/ ValidateArchive(d) \/ RejectArchive(d) \/ PersistVerified(d)
                \/ FailUpload(d) \/ RecoverRecord(d)
           \/ \E q \in Requests : CommitActivation(q)
           \/ DeleteRows
<1> USE DEF vars, appVars, rowVars, procVars, envVars
<1>1. ASSUME NEW d \in Deps,
             \/ AdmitUpload(d) \/ InsertRefused(d) \/ FinalizeInspect(d)
             \/ FinalizeRename(d) \/ AbandonUpload(d)
      PROVE  UNCHANGED <<state, submission, audit, current>>
  BY <1>1 DEF AdmitUpload, InsertRefused, FinalizeInspect, FinalizeRename,
              AbandonUpload
<1>2. ASSUME NEW q \in Requests,
             \/ ActivateBegin(q) \/ CheckReplay(q) \/ EnterActivation(q)
             \/ CheckPolicy(q) \/ ProbeCandidate(q) \/ CommitRefused(q)
             \/ RevokeLive(q) \/ ReturnReceipt(q) \/ AbortActivation(q)
      PROVE  UNCHANGED <<state, submission, audit, current>>
  BY <1>2 DEF ActivateBegin, CheckReplay, EnterActivation, CheckPolicy,
              ProbeCandidate, CommitRefused, RevokeLive, ReturnReceipt,
              AbortActivation, ActUnchanged
<1>3. ASSUME \/ \E h \in Hashes : RemoveStart(h) \/ PurgeRelease(h)
             \/ SetAppStatus \/ ReadAccess \/ ReplaceAccess \/ SetPublicGate
             \/ CleanupBegin \/ RemoveFinish \/ CleanupEnd
             \/ DeleteBegin \/ PurgeDone \/ DeleteFails
             \/ StartServing \/ Crash \/ UNCHANGED vars
      PROVE  UNCHANGED <<state, submission, audit, current>>
  BY <1>3 DEF RemoveStart, PurgeRelease, SetAppStatus, ReadAccess, ReplaceAccess,
              SetPublicGate, CleanupBegin, RemoveFinish, CleanupEnd, DeleteBegin,
              PurgeDone, DeleteFails, StartServing, Crash
<1> QED BY <1>1, <1>2, <1>3, NextCases

\* Rows only move along releases.Transition, recovery and deletion apart: the
\* blind writes of Repository.Create never revive or skip a state.
THEOREM TransitionsCorrect == Spec => TransitionsFollowTable
<1> DEFINE Legal == \A d \in Deps :
          \/ state'[d] = state[d]
          \/ <<state[d], state'[d]>> \in Transition
          \/ state[d] = "none" /\ state'[d] = "uploading"
          \/ ~serving /\ state'[d] = "failed"
          \/ appStatus' = "removed" /\ state'[d] = "none"
<1>1. ASSUME TypeInv, StateInv, [Next]_vars PROVE Legal
  <2> USE DEF TypeInv, TypeOK, StateInv, Transition
  <2>1. ASSUME NEW d \in Deps,
               \/ InsertRow(d) \/ CopyArchive(d) \/ MarkValidating(d)
               \/ ValidateArchive(d) \/ RejectArchive(d) \/ PersistVerified(d)
        PROVE  Legal
    BY <1>1, <2>1 DEF InsertRow, CopyArchive, MarkValidating, ValidateArchive,
                      RejectArchive, PersistVerified, UploadWrites,
                      RowFollowsUpload
  <2>2. ASSUME NEW d \in Deps, FailUpload(d) PROVE Legal
    BY <1>1, <2>2 DEF FailUpload, Fail, RowFollowsUpload, RemovedIsEmpty
  <2>3. ASSUME NEW d \in Deps, RecoverRecord(d) PROVE Legal
    BY <1>1, <2>3 DEF RecoverRecord, Recovered, Recover
  <2>4. ASSUME NEW q \in Requests, CommitActivation(q) PROVE Legal
    <3>1. act[q].d \in Deps /\ state[act[q].d] = "verified"
          /\ state' = Superseding(act[q].d)
      BY <1>1, <2>4 DEF CommitActivation, CommitAllowed, BusyRequestsHaveTargets
    <3> QED BY <1>1, <3>1 DEF Superseding, CurrentIsActive
  <2>5. CASE DeleteRows
    BY <1>1, <2>5 DEF DeleteRows
  <2> QED BY <1>1, <2>1, <2>2, <2>3, <2>4, <2>5, StateWriters
<1>2. ASSUME TypeInv, StateInv, [Next]_vars PROVE [Legal]_vars
  BY <1>1, <1>2
<1>3. Spec => [](TypeInv /\ StateInv)
  BY TypeInit, StateInit, TypeStep, StateStep, PTL DEF Spec
<1> QED BY <1>2, <1>3, PTL DEF Spec, TransitionsFollowTable

-----------------------------------------------------------------------------
(***************************************************************************)
(* The access policy follows the release, and public exposure goes back to *)
(* an acknowledgement.  Both read submissions, which an insertion writes:  *)
(* StateInv says that it writes that of a row nothing refers to yet.       *)
(***************************************************************************)

PolicyInv == ModeMatchesRelease /\ PublicWasAcknowledged

LEMMA PolicyWriters ==
    ASSUME [Next]_vars
    PROVE  \/ UNCHANGED policy
           \/ ReplaceAccess
           \/ \E q \in Requests : CommitActivation(q)
<1> USE DEF vars, appVars, rowVars, procVars, envVars
<1>1. ASSUME NEW d \in Deps,
             \/ AdmitUpload(d) \/ InsertRow(d) \/ InsertRefused(d)
             \/ CopyArchive(d) \/ MarkValidating(d) \/ ValidateArchive(d)
             \/ RejectArchive(d) \/ PersistVerified(d)
             \/ FinalizeInspect(d) \/ FinalizeRename(d)
             \/ FailUpload(d) \/ AbandonUpload(d) \/ RecoverRecord(d)
      PROVE  UNCHANGED policy
  BY <1>1 DEF AdmitUpload, InsertRow, InsertRefused, CopyArchive, MarkValidating,
              ValidateArchive, RejectArchive, PersistVerified, UploadWrites,
              FinalizeInspect, FinalizeRename, FailUpload, AbandonUpload,
              RecoverRecord
<1>2. ASSUME NEW q \in Requests,
             \/ ActivateBegin(q) \/ CheckReplay(q) \/ EnterActivation(q)
             \/ CheckPolicy(q) \/ ProbeCandidate(q) \/ CommitRefused(q)
             \/ RevokeLive(q) \/ ReturnReceipt(q) \/ AbortActivation(q)
      PROVE  UNCHANGED policy
  BY <1>2 DEF ActivateBegin, CheckReplay, EnterActivation, CheckPolicy,
              ProbeCandidate, CommitRefused, RevokeLive, ReturnReceipt,
              AbortActivation, ActUnchanged
<1>3. ASSUME \/ \E h \in Hashes : RemoveStart(h) \/ PurgeRelease(h)
             \/ SetAppStatus \/ ReadAccess \/ SetPublicGate
             \/ CleanupBegin \/ RemoveFinish \/ CleanupEnd
             \/ DeleteBegin \/ PurgeDone \/ DeleteFails \/ DeleteRows
             \/ StartServing \/ Crash \/ UNCHANGED vars
      PROVE  UNCHANGED policy
  BY <1>3 DEF RemoveStart, PurgeRelease, SetAppStatus, ReadAccess, SetPublicGate,
              CleanupBegin, RemoveFinish, CleanupEnd, DeleteBegin, PurgeDone,
              DeleteFails, DeleteRows, StartServing, Crash
<1> QED BY <1>1, <1>2, <1>3, NextCases

LEMMA StatusWriters ==
    ASSUME [Next]_vars
    PROVE  \/ UNCHANGED appStatus
           \/ SetAppStatus \/ DeleteBegin \/ DeleteRows
           \/ \E d \in Deps : current = d /\ RecoverRecord(d)
<1> USE DEF vars, appVars, rowVars, procVars, envVars
<1>1. ASSUME NEW d \in Deps,
             \/ AdmitUpload(d) \/ InsertRow(d) \/ InsertRefused(d)
             \/ CopyArchive(d) \/ MarkValidating(d) \/ ValidateArchive(d)
             \/ RejectArchive(d) \/ PersistVerified(d)
             \/ FinalizeInspect(d) \/ FinalizeRename(d)
             \/ FailUpload(d) \/ AbandonUpload(d)
             \/ RecoverRecord(d) /\ current # d
      PROVE  UNCHANGED appStatus
  BY <1>1 DEF AdmitUpload, InsertRow, InsertRefused, CopyArchive, MarkValidating,
              ValidateArchive, RejectArchive, PersistVerified, UploadWrites,
              FinalizeInspect, FinalizeRename, FailUpload, AbandonUpload,
              RecoverRecord
<1>2. ASSUME NEW q \in Requests,
             \/ ActivateBegin(q) \/ CheckReplay(q) \/ EnterActivation(q)
             \/ CheckPolicy(q) \/ ProbeCandidate(q) \/ CommitActivation(q)
             \/ CommitRefused(q) \/ RevokeLive(q) \/ ReturnReceipt(q)
             \/ AbortActivation(q)
      PROVE  UNCHANGED appStatus
  BY <1>2 DEF ActivateBegin, CheckReplay, EnterActivation, CheckPolicy,
              ProbeCandidate, CommitActivation, CommitRefused, RevokeLive,
              ReturnReceipt, AbortActivation, ActUnchanged
<1>3. ASSUME \/ \E h \in Hashes : RemoveStart(h) \/ PurgeRelease(h)
             \/ ReadAccess \/ ReplaceAccess \/ SetPublicGate
             \/ CleanupBegin \/ RemoveFinish \/ CleanupEnd
             \/ PurgeDone \/ DeleteFails \/ StartServing \/ Crash
             \/ UNCHANGED vars
      PROVE  UNCHANGED appStatus
  BY <1>3 DEF RemoveStart, PurgeRelease, ReadAccess, ReplaceAccess, SetPublicGate,
              CleanupBegin, RemoveFinish, CleanupEnd, PurgeDone, DeleteFails,
              StartServing, Crash
<1> QED BY <1>1, <1>2, <1>3, NextCases

LEMMA PolicyInit == Init => PolicyInv
BY DEF Init, PolicyInv, ModeMatchesRelease, PublicWasAcknowledged

LEMMA PolicyStep ==
    ASSUME TypeInv, StateInv, PolicyInv, [Next]_vars
    PROVE  PolicyInv'
<1> USE DEF TypeInv, TypeOK, StateInv, PolicyInv, ModeMatchesRelease,
            PublicWasAcknowledged, Mode, HashOf
<1>1. ASSUME UNCHANGED <<policy, audit>>, current' \in {current, None},
             appStatus' = "removed" \/ appStatus # "removed",
             \A d \in Deps : state[d] # "none" => submission'[d] = submission[d]
      PROVE  PolicyInv'
  BY <1>1 DEF CurrentHasRow, AuditedRowsWereActive
<1>2. appStatus = "removed" => appStatus' = "removed"
  BY StatusWriters DEF RemovedIsEmpty, RecoverRecord, SetAppStatus, DeleteBegin,
                       DeleteRows
<1>3. ASSUME NEW q \in Requests, CommitActivation(q) PROVE PolicyInv'
  <2> DEFINE d == act[q].d
  <2>1. /\ d \in Deps /\ act[q].rid \in RequestIDs
        /\ audit[act[q].rid] = None /\ audit' = [audit EXCEPT ![act[q].rid] = d]
        /\ current' = d /\ policy'.mode = Mode(d)
        /\ UNCHANGED <<submission, appStatus>> /\ appStatus = "active"
    BY <1>3 DEF CommitActivation, InstalledPolicy, CommitAllowed, BusyRequestsHaveTargets
  <2>2. Mode(d) = "public" => submission[d].ack \/ policy.mode = "public"
    BY <1>3 DEF CommitActivation, InstalledPolicy, CommitAllowed, PublicAllowed
  <2>3. ModeMatchesRelease'
    BY <2>1
  <2>4. PublicWasAcknowledged'
    <3> SUFFICES ASSUME Mode(d) = "public"
                 PROVE  \E r \in RequestIDs :
                          /\ audit'[r] # None
                          /\ submission[audit'[r]].ack
                          /\ Mode(audit'[r]) = "public"
      BY <2>1
    <3>1. CASE submission[d].ack
      <4>1. act[q].rid \in RequestIDs /\ audit'[act[q].rid] = d /\ d # None
        BY <2>1
      <4> QED BY <3>1, <4>1
    <3>2. CASE policy.mode = "public"
      <4>1. PICK r \in RequestIDs :
              /\ audit[r] # None
              /\ submission[audit[r]].ack
              /\ Mode(audit[r]) = "public"
        BY <2>1, <3>2
      <4>2. audit'[r] = audit[r]
        BY <2>1, <4>1
      <4> QED BY <4>1, <4>2
    <3> QED BY <2>2, <3>1, <3>2
  <2> QED BY <2>3, <2>4
<1>4. CASE DeleteRows
  BY <1>4 DEF DeleteRows
<1>5. CASE ReplaceAccess
  BY <1>5 DEF ReplaceAccess, EditApplies, rowVars
<1>6. ASSUME NEW d \in Deps, InsertRow(d), UNCHANGED policy PROVE PolicyInv'
  BY <1>1, <1>2, <1>6 DEF InsertRow, RowFollowsUpload, appVars
<1>7. ASSUME NEW d \in Deps, UNCHANGED policy,
             \/ CopyArchive(d) \/ MarkValidating(d) \/ ValidateArchive(d)
             \/ RejectArchive(d) \/ PersistVerified(d)
             \/ FailUpload(d) \/ RecoverRecord(d)
      PROVE  PolicyInv'
  BY <1>1, <1>2, <1>7 DEF CopyArchive, MarkValidating, ValidateArchive,
       RejectArchive, PersistVerified, UploadWrites, FailUpload, RecoverRecord,
       appVars
<1> QED BY <1>1, <1>2, <1>3, <1>4, <1>5, <1>6, <1>7, StateWriters, PolicyWriters

\* The mode of the policy in force is the one sealed into the live release.
THEOREM ModeCorrect == Spec => []ModeMatchesRelease
<1>1. TypeInv /\ StateInv /\ PolicyInv /\ [Next]_vars
        => TypeInv' /\ StateInv' /\ PolicyInv'
  BY TypeStep, StateStep, PolicyStep
<1>2. PolicyInv => ModeMatchesRelease
  BY DEF PolicyInv
<1> QED BY TypeInit, StateInit, PolicyInit, <1>1, <1>2, PTL DEF Spec

\* No application is public without an acknowledged public activation on
\* record, however many unacknowledged releases followed it.
THEOREM PublicExposureAcknowledged == Spec => []PublicWasAcknowledged
<1>1. TypeInv /\ StateInv /\ PolicyInv /\ [Next]_vars
        => TypeInv' /\ StateInv' /\ PolicyInv'
  BY TypeStep, StateStep, PolicyStep
<1>2. PolicyInv => PublicWasAcknowledged
  BY DEF PolicyInv
<1> QED BY TypeInit, StateInit, PolicyInit, <1>1, <1>2, PTL DEF Spec

-----------------------------------------------------------------------------
(***************************************************************************)
(* Deployments implements ReleasePointer.                                  *)
(***************************************************************************)

LEMMA PointerInit == Init => Pointer!Init
BY DEF Init, Pointer!Init

LEMMA PointerStep ==
    ASSUME TypeInv, StateInv, [Next]_vars
    PROVE  [Pointer!Next]_(Pointer!pvars)
<1> USE DEF TypeInv, TypeOK, StateInv, Pointer!pvars, Pointer!Next
<1>1. ASSUME NEW q \in Requests, CommitActivation(q) PROVE Pointer!Next
  <2> DEFINE Published == {audit[r] : r \in RequestIDs} \ {None}
  <2>0. PICK d \in Deps : d = act[q].d
    BY <1>1 DEF CommitActivation, BusyRequestsHaveTargets
  <2>1. /\ act[q].rid \in RequestIDs
        /\ audit[act[q].rid] = None /\ audit' = [audit EXCEPT ![act[q].rid] = d]
        /\ current' = d /\ policy'.mode = Mode(d) /\ policy'.rev = policy.rev + 1
        /\ UNCHANGED appStatus /\ appStatus = "active" /\ state[d] = "verified"
    BY <1>1, <2>0 DEF CommitActivation, InstalledPolicy, CommitAllowed, BusyRequestsHaveTargets
  <2>2. Mode(d) \in {"private", "public"}
    BY <2>1 DEF Mode, HashOf, Submission, Modes, RowsAreSubmitted
  <2>3. d \notin Published
    BY <2>1 DEF AuditedRowsWereActive
  <2>4. Published' = Published \cup {d}
    <3>1. ASSUME NEW x \in Published' PROVE x \in Published \cup {d}
      BY <2>1, <3>1
    <3>2. ASSUME NEW x \in Published PROVE x \in Published'
      <4>1. PICK r \in RequestIDs : audit[r] = x /\ x # None
        BY <3>2
      <4>2. r # act[q].rid
        BY <2>1, <4>1
      <4>3. audit'[r] = x
        BY <2>1, <4>1, <4>2
      <4> QED BY <4>1, <4>3
    <3>3. d \in Published'
      BY <2>1
    <3> QED BY <3>1, <3>2, <3>3
  <2>5. Pointer!Publish(d)
    BY <2>1, <2>2, <2>3, <2>4 DEF Pointer!Publish
  <2> QED BY <2>5
<1>2. CASE ReplaceAccess
  BY <1>2 DEF ReplaceAccess, EditApplies, rowVars, Pointer!Amend
<1>3. CASE SetAppStatus
  BY <1>3 DEF SetAppStatus, rowVars, Pointer!SetStatus
<1>4. CASE DeleteBegin
  BY <1>4 DEF DeleteBegin, rowVars, Pointer!SetStatus
<1>5. CASE DeleteRows
  BY <1>5 DEF DeleteRows, Pointer!Remove
<1>6. ASSUME NEW d \in Deps, RecoverRecord(d)
      PROVE  Pointer!Next \/ UNCHANGED Pointer!pvars
  BY <1>6 DEF RecoverRecord, Pointer!TakeDown
<1>7. ASSUME NEW d \in Deps,
             \/ InsertRow(d) \/ CopyArchive(d) \/ MarkValidating(d)
             \/ ValidateArchive(d) \/ RejectArchive(d) \/ PersistVerified(d)
             \/ FailUpload(d)
      PROVE  UNCHANGED Pointer!pvars
  BY <1>7 DEF InsertRow, CopyArchive, MarkValidating, ValidateArchive,
              RejectArchive, PersistVerified, UploadWrites, FailUpload, appVars
<1>8. ASSUME UNCHANGED <<appStatus, current, policy, audit>>
      PROVE  UNCHANGED Pointer!pvars
  BY <1>8
<1> QED BY <1>1, <1>2, <1>3, <1>4, <1>5, <1>6, <1>7, <1>8, StateWriters,
           PolicyWriters, StatusWriters

\* Every behaviour of the detailed model, for all constants, is one of the
\* abstract release pointer: releases go live at most once, every change of
\* pointer or policy has its own revision, and nothing is published after a
\* takedown or a deletion.
THEOREM RefinesReleasePointer == Spec => ImplementsReleasePointer
<1>1. Spec => [](TypeInv /\ StateInv)
  BY TypeInit, StateInit, TypeStep, StateStep, PTL DEF Spec
<1> QED BY <1>1, PointerInit, PointerStep, PTL
        DEF Spec, ImplementsReleasePointer, Pointer!Spec

-----------------------------------------------------------------------------
(***************************************************************************)
(* Compare-and-swap on the policy revision.                                *)
(***************************************************************************)

\* A revision number names one policy: the editor's copy is at most as new as
\* the policy in force, and equal to it if it carries the same number.
EditorInv == /\ editor.seen.rev <= policy.rev
             /\ editor.seen.rev = policy.rev => editor.seen = policy

LEMMA EditorWriters ==
    ASSUME [Next]_vars
    PROVE  UNCHANGED editor \/ ReadAccess \/ ReplaceAccess
<1> USE DEF vars, appVars, rowVars, procVars, envVars
<1>1. ASSUME NEW d \in Deps,
             \/ AdmitUpload(d) \/ InsertRow(d) \/ InsertRefused(d)
             \/ CopyArchive(d) \/ MarkValidating(d) \/ ValidateArchive(d)
             \/ RejectArchive(d) \/ PersistVerified(d)
             \/ FinalizeInspect(d) \/ FinalizeRename(d)
             \/ FailUpload(d) \/ AbandonUpload(d) \/ RecoverRecord(d)
      PROVE  UNCHANGED editor
  BY <1>1 DEF AdmitUpload, InsertRow, InsertRefused, CopyArchive, MarkValidating,
              ValidateArchive, RejectArchive, PersistVerified, UploadWrites,
              FinalizeInspect, FinalizeRename, FailUpload, AbandonUpload,
              RecoverRecord
<1>2. ASSUME NEW q \in Requests,
             \/ ActivateBegin(q) \/ CheckReplay(q) \/ EnterActivation(q)
             \/ CheckPolicy(q) \/ ProbeCandidate(q) \/ CommitActivation(q)
             \/ CommitRefused(q) \/ RevokeLive(q) \/ ReturnReceipt(q)
             \/ AbortActivation(q)
      PROVE  UNCHANGED editor
  BY <1>2 DEF ActivateBegin, CheckReplay, EnterActivation, CheckPolicy,
              ProbeCandidate, CommitActivation, CommitRefused, RevokeLive,
              ReturnReceipt, AbortActivation, ActUnchanged
<1>3. ASSUME \/ \E h \in Hashes : RemoveStart(h) \/ PurgeRelease(h)
             \/ SetAppStatus \/ SetPublicGate
             \/ CleanupBegin \/ RemoveFinish \/ CleanupEnd
             \/ DeleteBegin \/ PurgeDone \/ DeleteFails \/ DeleteRows
             \/ StartServing \/ Crash \/ UNCHANGED vars
      PROVE  UNCHANGED editor
  BY <1>3 DEF RemoveStart, PurgeRelease, SetAppStatus, SetPublicGate,
              CleanupBegin, RemoveFinish, CleanupEnd, DeleteBegin, PurgeDone,
              DeleteFails, DeleteRows, StartServing, Crash
<1> QED BY <1>1, <1>2, <1>3, NextCases

LEMMA EditorStep ==
    ASSUME TypeInv, EditorInv, [Next]_vars
    PROVE  EditorInv'
<1> USE DEF TypeInv, TypeOK, EditorInv, Policy
<1>1. CASE UNCHANGED <<editor, policy>>
  BY <1>1
<1>2. CASE ReadAccess
  BY <1>2 DEF ReadAccess, appVars
<1>3. CASE ReplaceAccess
  BY <1>3 DEF ReplaceAccess, EditApplies
<1>4. ASSUME NEW q \in Requests, CommitActivation(q), UNCHANGED editor
      PROVE  EditorInv'
  BY <1>4 DEF CommitActivation, InstalledPolicy
<1> QED BY <1>1, <1>2, <1>3, <1>4, EditorWriters, PolicyWriters

\* An access edit never silently replaces a policy its author has not read,
\* whatever activations commit in between.
THEOREM NoPolicyUpdateIsLost == Spec => NoLostPolicyUpdate
<1>1. Init => EditorInv
  BY DEF Init, EditorInv
<1>2. TypeInv /\ EditorInv /\ [Next]_vars => TypeInv' /\ EditorInv'
  BY TypeStep, EditorStep
<1>3. ASSUME TypeInv, EditorInv, [Next]_vars
      PROVE  [policy' # policy /\ policy'.origin = None => editor.seen = policy]_vars
  <2>1. ASSUME NEW q \in Requests, CommitActivation(q) PROVE policy'.origin # None
    BY <1>3, <2>1 DEF CommitActivation, InstalledPolicy, TypeInv, BusyRequestsHaveTargets
  <2>2. CASE ReplaceAccess
    BY <1>3, <2>2 DEF ReplaceAccess, EditApplies, EditorInv
  <2> QED BY <1>3, <2>1, <2>2, PolicyWriters
<1> QED BY TypeInit, <1>1, <1>2, <1>3, PTL DEF Spec, NoLostPolicyUpdate

-----------------------------------------------------------------------------
(***************************************************************************)
(* Receipts.                                                               *)
(***************************************************************************)

\* What the requests change besides the commit: nothing on record, and they
\* reach a receipt only through a replay of their own activation.
LEMMA ReceiptByReplay ==
    ASSUME TypeInv, ReceiptIsCommitted, NEW q \in Requests,
           \/ ActivateBegin(q) \/ CheckReplay(q) \/ EnterActivation(q)
           \/ CheckPolicy(q) \/ ProbeCandidate(q) \/ CommitRefused(q)
           \/ RevokeLive(q) \/ ReturnReceipt(q) \/ AbortActivation(q)
    PROVE  ReceiptIsCommitted'
<1> USE DEF TypeInv, TypeOK, ReceiptIsCommitted, BusyRequestsHaveTargets,
            Activation, ActUnchanged, rowVars, appVars
<1>1. CASE ActivateBegin(q)
  <2>1. /\ \A p \in Requests : p # q => act'[p] = act[p]
        /\ act'[q].pc = "replay"
        /\ UNCHANGED <<audit, appStatus>>
    <3>1. PICK d \in Rows, r \in RequestIDs :
            act' = [act EXCEPT ![q] = [IdleAct EXCEPT !.pc = "replay", !.d = d,
                                       !.rid = r, !.seen = Posture(d)]]
      BY <1>1 DEF ActivateBegin
    <3>2. [IdleAct EXCEPT !.pc = "replay", !.d = d,
                          !.rid = r, !.seen = Posture(d)].pc = "replay"
      BY DEF IdleAct
    <3> QED BY <1>1, <3>1, <3>2 DEF ActivateBegin
  <2> QED BY <2>1
<1>2. ASSUME NEW pc \in ActPCs, Goto(q, pc), UNCHANGED <<audit, appStatus>>,
             pc \in {"revoke", "receipt"} => audit[act[q].rid] = act[q].d
                                            \/ appStatus = "removed"
      PROVE  ReceiptIsCommitted'
  BY <1>2 DEF Goto
<1>3. ASSUME Finish(q), UNCHANGED <<audit, appStatus>> PROVE ReceiptIsCommitted'
  BY <1>3 DEF Finish, IdleAct
<1>4. CASE CheckReplay(q)
  BY <1>2, <1>3, <1>4 DEF CheckReplay, Replayed, ActPCs
<1>5. CASE EnterActivation(q)
  <2>1. ASSUME act' = [act EXCEPT ![q] = [@ EXCEPT !.pc = "policy",
                          !.st = state[act[q].d], !.old = current]],
               UNCHANGED <<audit, appStatus>>
        PROVE  ReceiptIsCommitted'
    <3>1. act'[q].pc = "policy" /\ \A p \in Requests : p # q => act'[p] = act[p]
      BY <2>1
    <3> QED BY <2>1, <3>1
  <2> QED BY <1>2, <1>3, <1>5, <2>1 DEF EnterActivation, Replayed, ActPCs
<1>6. CASE CheckPolicy(q) \/ ProbeCandidate(q)
  BY <1>2, <1>3, <1>6 DEF CheckPolicy, ProbeCandidate, ActPCs
<1>7. CASE CommitRefused(q)
  BY <1>3, <1>7 DEF CommitRefused
<1>8. CASE RevokeLive(q)
  BY <1>2, <1>8 DEF RevokeLive, ActPCs
<1>9. CASE ReturnReceipt(q) \/ AbortActivation(q)
  BY <1>3, <1>9 DEF ReturnReceipt, AbortActivation
<1> QED BY <1>1, <1>4, <1>5, <1>6, <1>7, <1>8, <1>9

\* Outside the requests themselves only a crash and the deletion of the rows
\* touch a request or its record, and a removed application stays removed.
LEMMA ReceiptElsewhere ==
    ASSUME [Next]_vars
    PROVE  \/ UNCHANGED <<act, audit>>
           \/ DeleteRows \/ Crash
           \/ \E q \in Requests :
                \/ ActivateBegin(q) \/ CheckReplay(q) \/ EnterActivation(q)
                \/ CheckPolicy(q) \/ ProbeCandidate(q) \/ CommitActivation(q)
                \/ CommitRefused(q) \/ RevokeLive(q) \/ ReturnReceipt(q)
                \/ AbortActivation(q)
<1> USE DEF vars, appVars, rowVars, procVars, envVars
<1>1. ASSUME NEW d \in Deps,
             \/ AdmitUpload(d) \/ InsertRow(d) \/ InsertRefused(d)
             \/ CopyArchive(d) \/ MarkValidating(d) \/ ValidateArchive(d)
             \/ RejectArchive(d) \/ PersistVerified(d)
             \/ FinalizeInspect(d) \/ FinalizeRename(d)
             \/ FailUpload(d) \/ AbandonUpload(d) \/ RecoverRecord(d)
      PROVE  UNCHANGED <<act, audit>>
  BY <1>1 DEF AdmitUpload, InsertRow, InsertRefused, CopyArchive, MarkValidating,
              ValidateArchive, RejectArchive, PersistVerified, UploadWrites,
              FinalizeInspect, FinalizeRename, FailUpload, AbandonUpload,
              RecoverRecord
<1>2. ASSUME \/ \E h \in Hashes : RemoveStart(h) \/ PurgeRelease(h)
             \/ SetAppStatus \/ ReadAccess \/ ReplaceAccess \/ SetPublicGate
             \/ CleanupBegin \/ RemoveFinish \/ CleanupEnd
             \/ DeleteBegin \/ PurgeDone \/ DeleteFails
             \/ StartServing \/ UNCHANGED vars
      PROVE  UNCHANGED <<act, audit>>
  BY <1>2 DEF RemoveStart, PurgeRelease, SetAppStatus, ReadAccess, ReplaceAccess,
              SetPublicGate, CleanupBegin, RemoveFinish, CleanupEnd, DeleteBegin,
              PurgeDone, DeleteFails, StartServing
<1> QED BY <1>1, <1>2, NextCases

LEMMA RemovedIsFinal ==
    ASSUME TypeInv, StateInv, [Next]_vars, appStatus = "removed"
    PROVE  appStatus' = "removed"
<1>1. ASSUME NEW d \in Deps, current = d PROVE FALSE
  BY <1>1 DEF StateInv, RemovedIsEmpty
<1> QED BY <1>1, StatusWriters DEF SetAppStatus, DeleteBegin, DeleteRows

LEMMA ReceiptStep ==
    ASSUME TypeInv, StateInv, ReceiptIsCommitted, [Next]_vars
    PROVE  ReceiptIsCommitted'
<1> USE DEF TypeInv, TypeOK, ReceiptIsCommitted
<1>1. CASE UNCHANGED <<act, audit>>
  BY <1>1, RemovedIsFinal
<1>2. CASE DeleteRows
  BY <1>2 DEF DeleteRows
<1>3. CASE Crash
  BY <1>3 DEF Crash, IdleAct
<1>4. ASSUME NEW q \in Requests, CommitActivation(q)
      PROVE  ReceiptIsCommitted'
  <2>1. /\ act[q].d \in Deps /\ act[q].rid \in RequestIDs
        /\ audit[act[q].rid] = None
        /\ audit' = [audit EXCEPT ![act[q].rid] = act[q].d]
        /\ UNCHANGED appStatus
    BY <1>4 DEF CommitActivation, CommitAllowed, BusyRequestsHaveTargets
  <2>2. /\ \A p \in Requests : p # q => act'[p] = act[p]
        /\ act'[q].d = act[q].d /\ act'[q].rid = act[q].rid
    BY <1>4 DEF CommitActivation, Activation
  <2>3. ASSUME NEW p \in Requests, p # q, act[p].pc \in {"revoke", "receipt"},
               audit[act[p].rid] = act[p].d
        PROVE  audit'[act[p].rid] = act[p].d
    BY <2>1, <2>3 DEF BusyRequestsHaveTargets
  <2> QED BY <2>1, <2>2, <2>3
<1> QED BY <1>1, <1>2, <1>3, <1>4, ReceiptByReplay, ReceiptElsewhere

\* A request answers with a receipt only when exactly its own activation is
\* on record, however its retries interleave with other activations.
THEOREM ReceiptCorrect == Spec => []ReceiptIsCommitted
<1>1. Init => ReceiptIsCommitted
  BY DEF Init, ReceiptIsCommitted, IdleAct
<1>2. TypeInv /\ StateInv /\ ReceiptIsCommitted /\ [Next]_vars
        => TypeInv' /\ StateInv' /\ ReceiptIsCommitted'
  BY TypeStep, StateStep, ReceiptStep
<1> QED BY TypeInit, StateInit, <1>1, <1>2, PTL DEF Spec

-----------------------------------------------------------------------------
(***************************************************************************)
(* Bytes of the live release.  With retention cleanup in the picture the   *)
(* model checker refutes ActiveReleasePresent (MCCleanupRace); without it  *)
(* the property holds: cleanup is the only thing that can take the bytes   *)
(* of a live release away.  Inductively, every evidenced row, and every    *)
(* upload about to become one, has its directory.                          *)
(***************************************************************************)

Present == appStatus \in {"active", "suspended"}

EvidenceOnDisk ==
    \A d \in Deps : state[d] \in Evidenced \/ upload[d] = "persist" => Complete(d)

BytesInv == /\ cleaner.pc = "idle" /\ budget["cleanup"] = 0
            /\ Present => deleter = "idle" /\ EvidenceOnDisk

LEMMA BytesUpload ==
    ASSUME TypeInv, BytesInv, NEW d \in Deps,
           \/ AdmitUpload(d) \/ InsertRow(d) \/ InsertRefused(d)
           \/ CopyArchive(d) \/ MarkValidating(d) \/ ValidateArchive(d)
           \/ RejectArchive(d) \/ PersistVerified(d)
           \/ FinalizeInspect(d) \/ FinalizeRename(d)
           \/ FailUpload(d) \/ AbandonUpload(d) \/ RecoverRecord(d)
    PROVE  BytesInv'
<1> USE DEF TypeInv, TypeOK, BytesInv, EvidenceOnDisk, Complete, HashOf, Present,
            Evidenced, appVars, rowVars, envVars, procVars
<1>1. CASE AdmitUpload(d) \/ InsertRefused(d) \/ AbandonUpload(d)
  BY <1>1 DEF AdmitUpload, InsertRefused, AbandonUpload
<1>2. CASE InsertRow(d)
  BY <1>2 DEF InsertRow
<1>3. CASE CopyArchive(d)
  BY <1>3 DEF CopyArchive, UploadWrites
<1>4. CASE MarkValidating(d)
  BY <1>4 DEF MarkValidating, UploadWrites
<1>5. CASE ValidateArchive(d)
  BY <1>5 DEF ValidateArchive, UploadWrites
<1>6. CASE RejectArchive(d)
  BY <1>6 DEF RejectArchive, UploadWrites
<1>7. CASE PersistVerified(d)
  BY <1>7 DEF PersistVerified, UploadWrites
<1>8. CASE FinalizeInspect(d)
  BY <1>8 DEF FinalizeInspect
<1>9. CASE FinalizeRename(d)
  BY <1>9 DEF FinalizeRename, RowsAreSubmitted, UploadPCs, Submission
<1>10. CASE FailUpload(d)
  <2>1. \A h \in Hashes : dir[h] = "complete" => dir'[h] = "complete"
    BY <1>10 DEF FailUpload
  <2>2. \A e \in Deps : state'[e] \in Evidenced => state[e] \in Evidenced
    BY <1>10 DEF FailUpload, Fail
  <2>3. \A e \in Deps : upload'[e] = "persist" => upload[e] = "persist"
    BY <1>10 DEF FailUpload
  <2>4. \A e \in Deps : state[e] \in Evidenced \/ upload[e] = "persist"
                         => HashOf(e) \in Hashes
    BY DEF RowsAreSubmitted, UploadPCs, Submission
  <2> QED BY <1>10, <2>1, <2>2, <2>3, <2>4 DEF FailUpload
<1>11. CASE RecoverRecord(d)
  BY <1>11 DEF RecoverRecord, Recovered, Recover
<1> QED BY <1>1, <1>2, <1>3, <1>4, <1>5, <1>6, <1>7, <1>8, <1>9, <1>10, <1>11

LEMMA BytesStep ==
    ASSUME TypeInv, BytesInv, [Next]_vars
    PROVE  BytesInv'
<1> USE DEF TypeInv, TypeOK, BytesInv, EvidenceOnDisk, Complete, HashOf, Present,
            vars, appVars, rowVars, envVars, procVars
<1>1. ASSUME NEW q \in Requests, CommitActivation(q) PROVE BytesInv'
  BY <1>1 DEF CommitActivation, CommitAllowed, Superseding, Evidenced
<1>2. ASSUME NEW q \in Requests,
             \/ ActivateBegin(q) \/ CheckReplay(q) \/ EnterActivation(q)
             \/ CheckPolicy(q) \/ ProbeCandidate(q) \/ CommitRefused(q)
             \/ RevokeLive(q) \/ ReturnReceipt(q) \/ AbortActivation(q)
      PROVE  BytesInv'
  <2>1. UNCHANGED <<cleaner, deleter, appStatus, state, upload, submission, dir,
                  budget>>
    BY <1>2 DEF ActivateBegin, CheckReplay, EnterActivation, CheckPolicy,
                ProbeCandidate, CommitRefused, RevokeLive, ReturnReceipt,
                AbortActivation, ActUnchanged
  <2> QED BY <2>1
<1>3. CASE CleanupBegin
  BY <1>3 DEF CleanupBegin, Spend, Events
<1>4. CASE RemoveFinish \/ CleanupEnd \/ \E h \in Hashes : RemoveStart(h)
  BY <1>4 DEF RemoveFinish, CleanupEnd, RemoveStart
<1>5. CASE \/ SetAppStatus \/ ReadAccess \/ ReplaceAccess \/ SetPublicGate
           \/ StartServing \/ UNCHANGED vars
  BY <1>5 DEF SetAppStatus, ReadAccess, ReplaceAccess, SetPublicGate, StartServing,
              Spend, Events
<1>6. CASE \/ DeleteBegin \/ PurgeDone \/ DeleteFails \/ DeleteRows
           \/ \E h \in Hashes : PurgeRelease(h)
  BY <1>6 DEF DeleteBegin, PurgeDone, DeleteFails, DeleteRows, PurgeRelease,
              Spend, Events
<1>7. CASE Crash
  BY <1>7 DEF Crash, IdleCleaner, Spend, Events
<1> QED BY <1>1, <1>2, <1>3, <1>4, <1>5, <1>6, <1>7, BytesUpload, NextCases

\* Without retention cleanup the bytes of the release that is served are on
\* disk, through every upload, activation, crash, recovery and deletion.
THEOREM LiveBytesPresent ==
    ASSUME \A b \in Budgets : b["cleanup"] = 0
    PROVE  Spec => []ActiveReleasePresent
<1>1. Init => BytesInv
  BY DEF Init, BytesInv, IdleCleaner, EvidenceOnDisk, Evidenced
<1>2. TypeInv /\ BytesInv /\ [Next]_vars => TypeInv' /\ BytesInv'
  BY TypeStep, BytesStep
<1>3. TypeInv /\ StateInv /\ BytesInv => ActiveReleasePresent
  BY DEF TypeInv, TypeOK, StateInv, CurrentIsActive, BytesInv, EvidenceOnDisk,
         Evidenced, Present, ActiveReleasePresent
<1>4. TypeInv /\ StateInv /\ [Next]_vars => TypeInv' /\ StateInv'
  BY TypeStep, StateStep
<1> QED BY TypeInit, StateInit, <1>1, <1>2, <1>3, <1>4, PTL DEF Spec

-----------------------------------------------------------------------------
(***************************************************************************)
(* Retention (CleanupPlan).  While rows are read a group tells the newest  *)
(* row and whether a live one was among those read.  While groups are      *)
(* scanned, those passed are newer than those to come, the counter is the  *)
(* number of inactive groups passed and not selected, and a group was      *)
(* selected when at least Retained inactive ones are newer.                *)
(***************************************************************************)
Group == [created : Stamps, active : BOOLEAN]

PlanTyped ==
    /\ rows \in [RowIDs -> [hash : Contents, created : Stamps, live : BOOLEAN]]
    /\ keep \in Keeps
    /\ unread \subseteq RowIDs
    /\ grouped \in [Contents -> Group \cup {NoGroup}]
    /\ plan \subseteq Contents
    /\ kept \in Nat
    /\ out \subseteq Contents
    /\ stage \in {"group", "scan", "done"}

ReadOf(h) == {i \in RowIDs \ unread : rows[i].hash = h}

GroupedTruly ==
    \A h \in Contents :
       /\ grouped[h] = NoGroup <=> ReadOf(h) = {}
       /\ grouped[h] # NoGroup =>
            /\ \E i \in ReadOf(h) : rows[i].created = grouped[h].created
            /\ \A i \in ReadOf(h) : rows[i].created <= grouped[h].created
            /\ grouped[h].active = TRUE <=> \E i \in ReadOf(h) : rows[i].live = TRUE

Inactive == {h \in Groups : grouped[h].active = FALSE}
Before(h) == {g \in Inactive : NewerGroup(g, h)}

ScannedTruly ==
    /\ stage = "group" => out = {} /\ kept = 0
    /\ stage # "group" =>
         /\ unread = {}
         /\ plan \subseteq Groups
         /\ \A h \in plan, g \in Groups \ plan : NewerGroup(g, h)
         /\ kept <= Retained
         /\ kept < Retained => out = {}
         /\ out = {h \in Inactive \ plan : Cardinality(Before(h)) >= Retained}
         /\ Cardinality((Inactive \ plan) \ out) = kept
    /\ stage = "done" => plan = {}

PlanInv == PlanTyped /\ GroupedTruly /\ ScannedTruly

\* There are at most as many groups as rows.
LEMMA GroupsFinite ==
    ASSUME PlanTyped, GroupedTruly
    PROVE  IsFiniteSet(Groups) /\ IsFiniteSet(Inactive)
<1> DEFINE f == [i \in RowIDs |-> rows[i].hash]
<1>1. IsFiniteSet(RowIDs)
  BY RowsType
<1>2. f \in Surjection(RowIDs, {f[i] : i \in RowIDs})
  BY DEF Surjection
<1>3. IsFiniteSet({f[i] : i \in RowIDs})
  BY <1>1, <1>2, FS_Surjection
<1>4. Groups \subseteq {f[i] : i \in RowIDs}
  BY DEF Groups, GroupedTruly, ReadOf
<1>5. IsFiniteSet(Groups)
  BY <1>3, <1>4, FS_Subset
<1> QED BY <1>5, FS_Subset DEF Inactive

\* The order of the scan is a strict total order on the groups.
LEMMA NewerIsTotal ==
    ASSUME PlanTyped
    PROVE  /\ \A g, h \in Groups : NewerGroup(g, h) = TRUE
                 <=> \/ grouped[g].created > grouped[h].created
                     \/ grouped[g].created = grouped[h].created /\ g > h
           /\ \A g, h \in Groups : g # h => NewerGroup(g, h) \/ NewerGroup(h, g)
           /\ \A g \in Groups : ~NewerGroup(g, g)
           /\ \A g, h, k \in Groups : NewerGroup(g, h) /\ NewerGroup(h, k) => NewerGroup(g, k)
<1>1. \A g \in Groups : g \in Int /\ grouped[g].created \in Int
  BY RowsType DEF Groups, PlanTyped, Group
<1>2. \A g, h \in Groups : NewerGroup(g, h) = TRUE
                 <=> \/ grouped[g].created > grouped[h].created
                     \/ grouped[g].created = grouped[h].created /\ g > h
  BY DEF NewerGroup, Newer
<1> QED BY <1>1, <1>2

LEMMA PlanInitOK ==
    ASSUME PlanInit
    PROVE  PlanInv
<1>1. PlanTyped
  BY DEF PlanInit, PlanTyped
<1>2. GroupedTruly
  BY DEF PlanInit, GroupedTruly, ReadOf
<1>3. ScannedTruly
  BY DEF PlanInit, ScannedTruly
<1> QED BY <1>1, <1>2, <1>3 DEF PlanInv

\* Reading a row keeps the group of its content true: CleanupCandidates.
LEMMA GroupRowOK ==
    ASSUME PlanInv, NEW i \in RowIDs, GroupRow(i)
    PROVE  PlanInv'
<1> DEFINE r == rows[i]
           g == grouped[r.hash]
<1>1. /\ r \in [hash : Contents, created : Stamps, live : BOOLEAN]
      /\ g \in Group \cup {NoGroup}
  BY DEF PlanInv, PlanTyped
<1>2. r.hash \in Contents /\ r.created \in Int /\ r.live \in BOOLEAN
  BY <1>1, RowsType
<1>3. g # NoGroup => g.created \in Int /\ g.active \in BOOLEAN /\ g.created \in Stamps
  BY <1>1, RowsType DEF Group
<1>4. AddRow(g, r) \in Group
  BY <1>1, <1>3 DEF AddRow, Group
<1>5. /\ grouped' = [grouped EXCEPT ![r.hash] = AddRow(g, r)]
      /\ UNCHANGED <<rows, keep, plan, kept, out, stage>>
      /\ unread' = unread \ {i} /\ i \in unread /\ stage = "group"
  BY DEF GroupRow
<1>6. PlanTyped'
  BY <1>2, <1>4, <1>5 DEF PlanInv, PlanTyped
<1>7. /\ grouped'[r.hash] = AddRow(g, r)
      /\ \A h \in Contents : h # r.hash => grouped'[h] = grouped[h]
  BY <1>2, <1>5 DEF PlanInv, PlanTyped
<1>8. \A h \in Contents : h # r.hash => ReadOf(h)' = ReadOf(h)
  BY <1>5 DEF ReadOf, PlanInv, PlanTyped
<1>9. \A j \in RowIDs : rows[j].created \in Int
  BY RowsType DEF PlanInv, PlanTyped
<1>10. AddRow(g, r) # NoGroup
  BY <1>4, RowsType DEF Group
<1>11. GroupedTruly'
  <2> SUFFICES ASSUME NEW h \in Contents
               PROVE  /\ grouped'[h] = NoGroup <=> ReadOf(h)' = {}
                      /\ grouped'[h] # NoGroup =>
                           /\ \E j \in ReadOf(h)' : rows[j].created = grouped'[h].created
                           /\ \A j \in ReadOf(h)' : rows[j].created <= grouped'[h].created
                           /\ grouped'[h].active = TRUE <=> \E j \in ReadOf(h)' : rows[j].live = TRUE
    BY <1>5 DEF GroupedTruly
  <2>1. /\ grouped[h] = NoGroup <=> ReadOf(h) = {}
        /\ grouped[h] # NoGroup =>
             /\ \E j \in ReadOf(h) : rows[j].created = grouped[h].created
             /\ \A j \in ReadOf(h) : rows[j].created <= grouped[h].created
             /\ grouped[h].active = TRUE <=> \E j \in ReadOf(h) : rows[j].live = TRUE
    BY DEF PlanInv, GroupedTruly
  <2>2. CASE h # r.hash
    BY <2>1, <2>2, <1>7, <1>8
  <2>3. CASE h = r.hash
    <3>1. grouped'[h] = AddRow(g, r) /\ ReadOf(h)' = ReadOf(h) \cup {i}
      <4>1. h \in Contents /\ h = r.hash
        BY <2>3
      <4>2. ReadOf(h)' = ReadOf(h) \cup {i}
        BY <4>1, <1>5 DEF ReadOf, PlanInv, PlanTyped
      <4> QED BY <4>2, <2>3, <1>7
    <3>2. \A j \in ReadOf(h) : rows[j].created \in Int
      BY <1>9 DEF ReadOf
    <3>3. AddRow(g, r).active = TRUE <=> (r.live = TRUE \/ (g # NoGroup /\ g.active = TRUE))
      BY <1>2, <1>3 DEF AddRow
    <3>4. AddRow(g, r).created =
            IF g = NoGroup THEN r.created ELSE IF r.created > g.created THEN r.created ELSE g.created
      BY DEF AddRow
    <3>5. CASE g = NoGroup
      <4>1. ReadOf(h)' = {i}
        BY <2>1, <2>3, <3>1, <3>5
      <4>2. AddRow(g, r).created = r.created
        BY <3>4, <3>5
      <4>3. grouped'[h] # NoGroup /\ grouped'[h].created = r.created
        BY <3>1, <4>2, <1>10
      <4>4. grouped'[h].active = TRUE <=> r.live = TRUE
        BY <3>1, <3>3, <3>5
      <4> QED BY <4>1, <4>3, <4>4, <1>2
    <3>6. CASE g # NoGroup
      <4>1. /\ AddRow(g, r).created >= r.created /\ AddRow(g, r).created >= g.created
            /\ AddRow(g, r).created \in {r.created, g.created}
        BY <3>4, <3>6, <1>2, <1>3
      <4>2. \E j \in ReadOf(h) \cup {i} : rows[j].created = AddRow(g, r).created
        BY <4>1, <2>1, <2>3, <3>6
      <4>3. AddRow(g, r).created \in Int
        BY <4>1, <1>2, <1>3, <3>6
      <4>4. \A j \in ReadOf(h) \cup {i} : rows[j].created <= AddRow(g, r).created
        BY <4>1, <4>3, <2>1, <2>3, <3>2, <3>6, <1>2, <1>3
      <4> QED BY <4>2, <4>4, <2>1, <2>3, <3>1, <3>3, <3>6, <1>10
    <3> QED BY <3>5, <3>6
  <2> QED BY <2>2, <2>3
<1>12. ScannedTruly'
  BY <1>5 DEF PlanInv, ScannedTruly
<1> QED BY <1>6, <1>11, <1>12 DEF PlanInv

\* What depends on the groups alone stays while they are scanned.
LEMMA GroupsKept ==
    ASSUME PlanInv, UNCHANGED <<rows, keep, unread, grouped>>
    PROVE  /\ GroupedTruly' /\ UNCHANGED <<Groups, Inactive, Retained>>
           /\ \A g, h : NewerGroup(g, h)' = NewerGroup(g, h)
           /\ \A h : Before(h)' = Before(h)
<1>1. UNCHANGED <<Groups, Retained>> /\ GroupedTruly'
  BY DEF Groups, Retained, PlanInv, GroupedTruly, ReadOf
<1>2. UNCHANGED Inactive
  BY <1>1 DEF Inactive
<1>3. \A g, h : NewerGroup(g, h)' = NewerGroup(g, h)
  BY <1>1 DEF NewerGroup, Newer
<1> QED BY <1>1, <1>2, <1>3 DEF Before

LEMMA RetainedIsPositive ==
    ASSUME PlanTyped
    PROVE  Retained \in Nat /\ Retained >= 1
BY RowsType DEF PlanTyped, Retained

LEMMA SortGroupsOK ==
    ASSUME PlanInv, SortGroups
    PROVE  PlanInv'
<1>1. /\ UNCHANGED <<rows, keep, unread, grouped, kept, out>>
      /\ stage = "group" /\ stage' = "scan" /\ unread = {} /\ plan' = Groups
      /\ out = {} /\ kept = 0
  BY DEF SortGroups, PlanInv, ScannedTruly
<1>2. /\ GroupedTruly' /\ UNCHANGED <<Groups, Inactive, Retained>>
      /\ \A h : Before(h)' = Before(h)
  BY <1>1, GroupsKept
<1>3. PlanTyped'
  BY <1>1 DEF PlanInv, PlanTyped, Groups
<1>4. Retained >= 1 /\ Retained \in Nat
  BY RetainedIsPositive DEF PlanInv
<1>5. Inactive \ Groups = {}
  BY DEF Inactive
<1>6. Cardinality({}) = 0
  BY FS_EmptySet
<1>7. (Inactive \ plan)' = {}
  BY <1>1, <1>2, <1>5
<1>8. ((Inactive \ plan) \ out)' = {}
  BY <1>7
<1>9. out' = {} /\ kept' = 0 /\ Retained' >= 1 /\ Groups' \ plan' = {} /\ plan' \subseteq Groups'
  BY <1>1, <1>2, <1>4
<1>10. {h \in (Inactive \ plan)' : Cardinality(Before(h)') >= Retained'} = {}
  BY <1>7
<1>11. ScannedTruly'
  BY <1>1, <1>6, <1>7, <1>8, <1>9, <1>10, <1>2, <1>4 DEF ScannedTruly
<1> QED BY <1>2, <1>3, <1>11 DEF PlanInv

LEMMA ReturnOK ==
    ASSUME PlanInv, Return
    PROVE  PlanInv'
<1>1. /\ UNCHANGED <<rows, keep, unread, grouped, plan, kept, out>>
      /\ stage = "scan" /\ stage' = "done" /\ plan = {}
  BY DEF Return
<1>2. /\ GroupedTruly' /\ UNCHANGED <<Groups, Inactive, Retained>>
      /\ \A g, h : NewerGroup(g, h)' = NewerGroup(g, h)
      /\ \A h : Before(h)' = Before(h)
  BY <1>1, GroupsKept
<1>3. PlanTyped'
  BY <1>1 DEF PlanInv, PlanTyped
<1>4. ScannedTruly'
  BY <1>1, <1>2 DEF PlanInv, ScannedTruly
<1> QED BY <1>2, <1>3, <1>4 DEF PlanInv

\* A round of the scan: the inactive groups newer than the one it looks at are
\* exactly those it has passed.
LEMMA ScanGroupOK ==
    ASSUME PlanInv, NEW h \in Contents, ScanGroup(h)
    PROVE  PlanInv'
<1>1. /\ UNCHANGED <<rows, keep, unread, grouped, stage>>
      /\ stage = "scan" /\ h \in plan /\ plan' = plan \ {h}
      /\ \A g \in plan : ~NewerGroup(g, h)
  BY DEF ScanGroup
<1>2. /\ GroupedTruly' /\ UNCHANGED <<Groups, Inactive, Retained>>
      /\ \A g, k : NewerGroup(g, k)' = NewerGroup(g, k)
      /\ \A g : Before(g)' = Before(g)
  BY <1>1, GroupsKept
<1>3. /\ unread = {} /\ plan \subseteq Groups
      /\ \A k \in plan, g \in Groups \ plan : NewerGroup(g, k)
      /\ kept <= Retained
      /\ kept < Retained => out = {}
      /\ out = {k \in Inactive \ plan : Cardinality(Before(k)) >= Retained}
      /\ Cardinality((Inactive \ plan) \ out) = kept
  BY <1>1 DEF PlanInv, ScannedTruly
<1>4. PlanTyped /\ kept \in Nat /\ Retained \in Nat /\ Retained >= 1
  BY RetainedIsPositive DEF PlanInv, PlanTyped
<1>5. IsFiniteSet(Inactive \ plan)
  BY GroupsFinite, FS_Difference DEF PlanInv
<1>6. PlanTyped'
  BY <1>1, <1>4 DEF ScanGroup, PlanTyped
<1>7. h \in Groups
  BY <1>1, <1>3
<1>8. \A k \in plan' : \A g \in Groups \ plan' : NewerGroup(g, k)
  <2>1. \A k \in plan' : NewerGroup(h, k)
    BY <1>1, <1>3, <1>4, <1>7, NewerIsTotal
  <2> QED BY <2>1, <1>1, <1>3
<1>9. Before(h) = Inactive \ plan
  <2>1. Inactive \subseteq Groups
    BY DEF Inactive
  <2>2. \A g \in Inactive : NewerGroup(g, h) <=> g \notin plan
    BY <2>1, <1>1, <1>3
  <2> QED BY <2>2 DEF Before
<1>10. /\ kept' <= Retained
       /\ kept' < Retained => out' = {}
       /\ out' = {k \in Inactive \ plan' : Cardinality(Before(k)) >= Retained}
       /\ Cardinality((Inactive \ plan') \ out') = kept'
  <2>1. CASE grouped[h].active
    <3>1. kept' = kept /\ out' = out
      BY <2>1 DEF ScanGroup
    <3>2. h \notin Inactive
      <4>1. grouped[h] \in Group
        BY <1>4, <1>7 DEF PlanTyped, Groups
      <4> QED BY <2>1, <4>1 DEF Inactive, Group
    <3>3. Inactive \ plan' = Inactive \ plan
      BY <3>2, <1>1
    <3> QED BY <3>1, <3>3, <1>3
  <2>2. CASE ~grouped[h].active
    <3>1. h \in Inactive /\ h \notin Inactive \ plan
      <4>1. grouped[h] \in Group
        BY <1>4, <1>7 DEF PlanTyped, Groups
      <4> QED BY <2>2, <4>1, <1>1, <1>7 DEF Inactive, Group
    <3>2. Inactive \ plan' = (Inactive \ plan) \cup {h}
      BY <3>1, <1>1
    <3>3. CASE kept < Retained
      <4>1. kept' = kept + 1 /\ out' = out /\ out = {}
        BY <2>2, <3>3, <1>3, <1>4 DEF ScanGroup
      <4>2. Cardinality(Inactive \ plan) = kept
        <5>1. (Inactive \ plan) \ out = Inactive \ plan
          BY <4>1
        <5> QED BY <5>1, <1>3
      <4>3. Cardinality((Inactive \ plan) \cup {h}) = kept + 1
        BY <4>2, <1>5, <3>1, FS_AddElement
      <4>4. {k \in Inactive \ plan' : Cardinality(Before(k)) >= Retained} = {}
        <5>1. ~(Cardinality(Before(h)) >= Retained)
          BY <1>9, <4>2, <3>3, <1>4
        <5>2. \A k \in Inactive \ plan : ~(Cardinality(Before(k)) >= Retained)
          BY <4>1, <1>3
        <5> QED BY <5>1, <5>2, <3>2
      <4>5. (Inactive \ plan') \ out' = (Inactive \ plan) \cup {h}
        BY <4>1, <3>2
      <4>6. out' = {k \in Inactive \ plan' : Cardinality(Before(k)) >= Retained}
        BY <4>1, <4>4
      <4>7. Cardinality((Inactive \ plan') \ out') = kept'
        BY <4>1, <4>3, <4>5
      <4> QED BY <4>1, <4>6, <4>7, <3>3, <1>4
    <3>4. CASE ~(kept < Retained)
      <4>1. kept' = kept /\ out' = out \cup {h} /\ kept = Retained
        BY <2>2, <3>4, <1>3, <1>4 DEF ScanGroup
      <4>2. Cardinality(Before(h)) >= Retained
        <5>1. (Inactive \ plan) \ out \subseteq Inactive \ plan
          OBVIOUS
        <5>2. /\ Cardinality((Inactive \ plan) \ out) <= Cardinality(Inactive \ plan)
              /\ Cardinality(Inactive \ plan) \in Nat
          BY <5>1, <1>5, FS_Subset, FS_CardinalityType
        <5> QED BY <5>2, <4>1, <1>3, <1>4, <1>9
      <4>3. out' = {k \in Inactive \ plan' : Cardinality(Before(k)) >= Retained}
        BY <4>1, <4>2, <3>2, <1>3
      <4>4. (Inactive \ plan') \ out' = (Inactive \ plan) \ out
        BY <4>1, <3>1, <3>2
      <4> QED BY <4>1, <4>3, <4>4, <3>4, <1>3, <1>4
    <3> QED BY <3>3, <3>4
  <2> QED BY <2>1, <2>2
<1>11. plan' \subseteq Groups
  BY <1>1, <1>3
<1>12. ScannedTruly'
  BY <1>1, <1>2, <1>3, <1>8, <1>10, <1>11 DEF ScannedTruly
<1> QED BY <1>2, <1>6, <1>12 DEF PlanInv

LEMMA PlanNextOK ==
    ASSUME PlanInv, [PlanNext]_planVars
    PROVE  PlanInv'
<1>1. CASE UNCHANGED planVars
  <2>1. UNCHANGED <<rows, keep, unread, grouped, plan, kept, out, stage>>
    BY <1>1 DEF planVars
  <2>2. /\ GroupedTruly' /\ UNCHANGED <<Groups, Inactive, Retained>>
        /\ \A g, h : NewerGroup(g, h)' = NewerGroup(g, h)
        /\ \A h : Before(h)' = Before(h)
    BY <2>1, GroupsKept
  <2>3. PlanTyped'
    BY <2>1 DEF PlanInv, PlanTyped
  <2>4. ScannedTruly'
    BY <2>1, <2>2 DEF PlanInv, ScannedTruly
  <2> QED BY <2>2, <2>3, <2>4 DEF PlanInv
<1>2. CASE PlanNext
  BY <1>2, SortGroupsOK, ReturnOK, GroupRowOK, ScanGroupOK DEF PlanNext
<1> QED BY <1>1, <1>2

LEMMA PlanInvariance == PlanSpec => []PlanInv
  BY PlanInitOK, PlanNextOK, PTL DEF PlanSpec

\* At the end the groups are the contents of all rows, each with the creation
\* time of its newest row, active as soon as one of its rows is live.
LEMMA GroupsAreContents ==
    ASSUME PlanInv, stage = "done"
    PROVE  /\ Groups = RowHashes(RowIDs)
           /\ \A h \in Groups : NewestRow(h) = grouped[h].created
           /\ Inactive = RowHashes(RowIDs) \ RowHashes({i \in RowIDs : rows[i].live})
<1>1. unread = {} /\ PlanTyped /\ GroupedTruly
  BY DEF PlanInv, ScannedTruly
<1>2. \A h : ReadOf(h) = {i \in RowIDs : rows[i].hash = h}
  BY <1>1 DEF ReadOf
<1>3. \A i \in RowIDs : rows[i].hash \in Contents /\ rows[i].created \in Stamps
                        /\ rows[i].created \in Int /\ rows[i].live \in BOOLEAN
  BY <1>1, RowsType DEF PlanTyped
<1>4. Groups = RowHashes(RowIDs)
  BY <1>1, <1>2, <1>3 DEF Groups, RowHashes, GroupedTruly
<1>5. ASSUME NEW h \in Groups
      PROVE  NewestRow(h) = grouped[h].created
  <2>1. PICK i \in RowIDs : rows[i].hash = h /\ rows[i].created = grouped[h].created
    BY <1>1, <1>2 DEF Groups, GroupedTruly
  <2>2. \A j \in RowIDs : rows[j].hash = h => rows[j].created <= grouped[h].created
    BY <1>1, <1>2 DEF Groups, GroupedTruly
  <2> DEFINE P(t) == /\ \E j \in RowIDs : rows[j].hash = h /\ rows[j].created = t
                     /\ \A j \in RowIDs : rows[j].hash = h => rows[j].created <= t
  <2>3. grouped[h].created \in Stamps /\ P(grouped[h].created)
    BY <2>1, <2>2, <1>3
  <2>4. \A t \in Stamps : P(t) => t = grouped[h].created
    BY <2>1, <2>2, <1>3, RowsType
  <2>5. NewestRow(h) = CHOOSE t \in Stamps : P(t)
    BY DEF NewestRow
  <2> HIDE DEF P
  <2> QED BY <2>3, <2>4, <2>5
<1>6. \A h \in Groups : h \in Inactive <=> h \notin RowHashes({i \in RowIDs : rows[i].live})
  <2> SUFFICES ASSUME NEW h \in Groups
               PROVE  h \in Inactive <=> h \notin RowHashes({i \in RowIDs : rows[i].live})
    OBVIOUS
  <2>1. grouped[h] \in Group
    BY <1>1 DEF Groups, PlanTyped
  <2>2. grouped[h].active = TRUE <=> \E i \in RowIDs : rows[i].hash = h /\ rows[i].live = TRUE
    BY <1>1, <1>2 DEF Groups, GroupedTruly
  <2>3. h \in RowHashes({i \in RowIDs : rows[i].live})
          <=> \E i \in RowIDs : rows[i].hash = h /\ rows[i].live = TRUE
    BY <1>3 DEF RowHashes
  <2> QED BY <2>1, <2>2, <2>3 DEF Inactive, Group
<1> QED BY <1>4, <1>5, <1>6 DEF Inactive

\* For every set of rows, in whatever order the cursor returns them, the two
\* loops of cleanup select the surplus that Deployments removes
\* (CleanupCandidates, jobs.Cleanup).
THEOREM PlanSelectsSurplus == PlanSpec => []PlanIsSurplus
<1>1. ASSUME PlanInv, stage = "done"
      PROVE  out = Surplus(RowHashes(RowIDs),
                           [h \in RowHashes(RowIDs) |-> NewestRow(h)],
                           RowHashes({i \in RowIDs : rows[i].live}), keep)
  <2> DEFINE created == [h \in RowHashes(RowIDs) |-> NewestRow(h)]
  <2>1. /\ Groups = RowHashes(RowIDs)
        /\ \A h \in Groups : NewestRow(h) = grouped[h].created
        /\ Inactive = RowHashes(RowIDs) \ RowHashes({i \in RowIDs : rows[i].live})
    BY <1>1, GroupsAreContents
  <2>2. created = [h \in Groups |-> grouped[h].created]
    BY <2>1
  <2>3. \A g, h : NewerGroup(g, h) = Newer(created, g, h)
    BY <2>2 DEF NewerGroup
  <2>4. \A h : Before(h) = {g \in Inactive : Newer(created, g, h)}
    BY <2>3 DEF Before
  <2>5. out = {h \in Inactive : Cardinality(Before(h)) >= Retained}
    BY <1>1 DEF PlanInv, ScannedTruly
  <2> QED BY <2>1, <2>4, <2>5 DEF Surplus, Retained
<1>2. PlanInv => PlanIsSurplus
  BY <1>1 DEF PlanIsSurplus
<1> QED BY <1>2, PlanInvariance, PTL

\* No cleanup leaves an operator without a release to recover to, whatever
\* retention is configured, and it never keeps an older release in place of a
\* newer one (jobs.Cleanup).
THEOREM RecoveryReleaseKept == PlanSpec => []RecoveryReleaseRetained
<1>1. ASSUME PlanInv, stage = "done"
      PROVE  LET idle == RowHashes(RowIDs) \ RowHashes({i \in RowIDs : rows[i].live})
             IN  /\ Cardinality(idle \ out) >= Retained \/ out = {}
                 /\ idle # {} => idle \ out # {}
                 /\ \A h \in out, g \in idle \ out : NewestRow(g) >= NewestRow(h)
  <2>1. /\ \A h \in Groups : NewestRow(h) = grouped[h].created
        /\ Inactive = RowHashes(RowIDs) \ RowHashes({i \in RowIDs : rows[i].live})
    BY <1>1, GroupsAreContents
  <2>2. /\ plan = {} /\ kept <= Retained
        /\ kept < Retained => out = {}
        /\ out = {h \in Inactive : Cardinality(Before(h)) >= Retained}
        /\ Cardinality(Inactive \ out) = kept
    BY <1>1 DEF PlanInv, ScannedTruly
  <2>3. kept \in Nat /\ Retained \in Nat /\ Retained >= 1 /\ PlanTyped
    BY <1>1, RetainedIsPositive DEF PlanInv, PlanTyped
  <2>4. Cardinality(Inactive \ out) >= Retained \/ out = {}
    BY <2>2, <2>3
  <2>5. Inactive # {} => Inactive \ out # {}
    <3>1. Cardinality({}) = 0
      BY FS_EmptySet
    <3> QED BY <3>1, <2>2, <2>3
  <2>6. ASSUME NEW h \in out, NEW g \in Inactive \ out
        PROVE  NewestRow(g) >= NewestRow(h)
    <3>1. h \in Groups /\ g \in Groups /\ Inactive \subseteq Groups
      BY <2>2 DEF Inactive
    <3>2. grouped[h].created \in Int /\ grouped[g].created \in Int
      BY <3>1, <2>3, RowsType DEF Groups, PlanTyped, Group
    <3>3. ~(Cardinality(Before(g)) >= Retained) /\ Cardinality(Before(h)) >= Retained
      BY <2>2
    <3>4. IsFiniteSet(Before(g)) /\ IsFiniteSet(Before(h))
      BY <1>1, GroupsFinite, FS_Subset DEF PlanInv, Before
    <3>5. ASSUME grouped[h].created > grouped[g].created
          PROVE  FALSE
      <4>1. NewerGroup(h, g)
        BY <3>1, <3>5, <2>3, NewerIsTotal
      <4>2. Before(h) \subseteq Before(g)
        <5>1. \A k \in Inactive : NewerGroup(k, h) => NewerGroup(k, g)
          BY <4>1, <3>1, <2>3, NewerIsTotal
        <5> QED BY <5>1 DEF Before
      <4>3. Cardinality(Before(h)) <= Cardinality(Before(g))
        BY <4>2, <3>4, FS_Subset
      <4>4. Cardinality(Before(h)) \in Nat /\ Cardinality(Before(g)) \in Nat
        BY <3>4, FS_CardinalityType
      <4> QED BY <4>3, <4>4, <3>3, <2>3
    <3> QED BY <3>1, <3>2, <3>5, <2>1
  <2> QED BY <2>1, <2>4, <2>5, <2>6
<1>2. PlanInv => RecoveryReleaseRetained
  BY <1>1 DEF RecoveryReleaseRetained
<1> QED BY <1>2, PlanInvariance, PTL
=============================================================================
