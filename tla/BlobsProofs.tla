------------------------------ MODULE BlobsProofs ------------------------------
(***************************************************************************)
(* Proofs about Blobs.  The lock makes each upload, deletion and removal   *)
(* one after the other; what has to be carried along is which step of      *)
(* which of them allows which state of row and bytes.                      *)
(***************************************************************************)
EXTENDS Blobs, FiniteSetTheorems, TLAPS

\* The actions of Next, one by one.
LEMMA NextCases ==
    ASSUME Next
    PROVE  \/ \E b \in Ids :
                \/ UploadBegin(b) \/ InsertStaging(b) \/ PutStaging(b)
                \/ PutRename(b) \/ PutFails(b) \/ CommitReady(b)
                \/ CommitFails(b) \/ UndoPut(b) \/ UndoCommit(b)
                \/ DeleteBegin(b) \/ DeleteMark(b) \/ DeleteBytes(b)
                \/ DeleteRow(b) \/ DeleteFails(b) \/ Damage(b)
           \/ \E r \in Cleaners :
                \/ SelectRows(r) \/ ObjectsDone(r) \/ RecLock(r) \/ RecMark(r)
                \/ RecBytes(r) \/ RecRow(r) \/ RecReturns(r)
                \/ RemoveNamespace(r) \/ RecFails(r) \/ StartReconcile(r)
                \/ PurgeOther(r) \/ DeleteApp(r)
                \/ OpenBlob(r) \/ OpenErrs(r) \/ MarkErrs(r)
                \/ \E b \in Ids : NextRow(r, b) \/ NextObject(r, b) \/ NextReady(r, b)
           \/ DeleteRows \/ SetAppStatus \/ Crash
BY DEF Next, UploadStep, DeleteStep, RecStep

-----------------------------------------------------------------------------
(***************************************************************************)
(* Type correctness.                                                       *)
(***************************************************************************)

Rec == [pc : RecPCs, phase : {"rows", "objects", "ready"},
        todo : SUBSET Ids, b : Ids \cup {None}]

\* A reconciliation that opens or removes a blob knows which one.
RemovalsHaveTargets ==
    \A r \in Cleaners :
        rec[r].pc \in {"open", "lock", "mark", "bytes", "row"} => rec[r].b \in Ids

TypeInv == TypeOK /\ RemovalsHaveTargets

LEMMA TypeInit == Init => TypeInv
BY BudgetsType DEF Init, TypeInv, TypeOK, RemovalsHaveTargets, Holders, Free, IdleRec,
       RecPCs, UploadPCs, DeletePCs

LEMMA TypeUpload ==
    ASSUME TypeInv, NEW b \in Ids,
           \/ UploadBegin(b) \/ InsertStaging(b) \/ PutStaging(b)
           \/ PutRename(b) \/ PutFails(b) \/ CommitReady(b)
           \/ CommitFails(b) \/ UndoPut(b) \/ UndoCommit(b)
    PROVE  TypeInv'
<1> USE DEF TypeInv, TypeOK, RemovalsHaveTargets, UploadPCs, UploadLeaves,
            UploadTo, UploadEnds, rowVars, fileVars, history
<1>1. Free \in Holders /\ Uploader(b) \in Holders
  BY DEF Holders, Free, Uploader
<1>2. CASE UploadBegin(b)
  BY <1>1, <1>2 DEF UploadBegin, Acquire
<1>3. CASE InsertStaging(b)
  BY <1>1, <1>3 DEF InsertStaging
<1>4. CASE PutStaging(b) \/ PutRename(b) \/ PutFails(b)
  BY <1>4 DEF PutStaging, PutRename, PutFails
<1>5. CASE CommitReady(b) \/ CommitFails(b)
  BY <1>1, <1>5 DEF CommitReady, CommitFails
<1>6. CASE UndoPut(b) \/ UndoCommit(b)
  BY <1>1, <1>6 DEF UndoPut, UndoCommit, ForgetRow, DiscardBytes, Spend, Events
<1> QED BY <1>2, <1>3, <1>4, <1>5, <1>6

LEMMA TypeDelete ==
    ASSUME TypeInv, NEW b \in Ids,
           \/ DeleteBegin(b) \/ DeleteMark(b) \/ DeleteBytes(b)
           \/ DeleteRow(b) \/ DeleteFails(b) \/ Damage(b)
    PROVE  TypeInv'
<1> USE DEF TypeInv, TypeOK, RemovalsHaveTargets, DeletePCs, DeleteEnds,
            rowVars, fileVars, history
<1>1. Free \in Holders /\ Deleter(b) \in Holders
  BY DEF Holders, Free, Deleter
<1>2. CASE DeleteBegin(b)
  BY <1>1, <1>2 DEF DeleteBegin, Acquire
<1>3. CASE DeleteMark(b)
  BY <1>1, <1>3 DEF DeleteMark
<1>4. CASE DeleteBytes(b) \/ DeleteRow(b)
  BY <1>1, <1>4 DEF DeleteBytes, DeleteRow
<1>5. CASE DeleteFails(b)
  BY <1>1, <1>5 DEF DeleteFails, Spend, Events
<1>6. CASE Damage(b)
  BY <1>6 DEF Damage, Spend, Events
<1> QED BY <1>2, <1>3, <1>4, <1>5, <1>6

LEMMA TypeReconcile ==
    ASSUME TypeInv, NEW r \in Cleaners,
           \/ SelectRows(r) \/ ObjectsDone(r) \/ RecLock(r) \/ RecMark(r)
           \/ RecBytes(r) \/ RecRow(r) \/ RecReturns(r)
           \/ RemoveNamespace(r) \/ RecFails(r) \/ StartReconcile(r)
           \/ PurgeOther(r) \/ DeleteApp(r)
           \/ OpenBlob(r) \/ OpenErrs(r) \/ MarkErrs(r)
           \/ \E b \in Ids : NextRow(r, b) \/ NextObject(r, b) \/ NextReady(r, b)
    PROVE  TypeInv'
<1> USE DEF TypeInv, TypeOK, RemovalsHaveTargets, RecPCs, RecLeaves, RecResumes,
            rowVars, fileVars, history
<1>1. Free \in Holders /\ Cleaner(r) \in Holders
  BY DEF Holders, Free, Cleaner
<1>0. rec[r] \in Rec /\ rec \in [Cleaners -> Rec]
  BY DEF Rec
<1>2. CASE SelectRows(r) \/ ObjectsDone(r)
  <2>1. PICK pc \in {"rows", "objects", "ready"}, S \in SUBSET Ids :
          rec' = [rec EXCEPT ![r].pc = pc, ![r].todo = S]
    BY <1>2 DEF SelectRows, ObjectsDone, RecTo, Leftover, Ready
  <2>2. rec' \in [Cleaners -> Rec] /\ RemovalsHaveTargets'
    BY <1>0, <2>1 DEF Rec
  <2> QED BY <1>2, <2>2 DEF SelectRows, ObjectsDone, Leftover, Rec
<1>3. CASE RecLock(r) \/ RecMark(r) \/ RecBytes(r)
  <2>1. PICK pc \in {"mark", "bytes", "row"} : rec' = [rec EXCEPT ![r].pc = pc]
    BY <1>3 DEF RecLock, RecMark, RecBytes
  <2>2. rec[r].b \in Ids
    BY <1>3 DEF RecLock, RecMark, RecBytes
  <2>3. rec' \in [Cleaners -> Rec] /\ RemovalsHaveTargets'
    BY <1>0, <2>1, <2>2 DEF Rec
  <2>4. \A s \in {"none", "staging", "ready", "deleting"} : \A f :
          Hidden(s, f) \in {"none", "staging", "ready", "deleting"}
    BY DEF Hidden
  <2>5. row' \in [Ids -> {"none", "staging", "ready", "deleting"}]
    BY <1>3, <2>2, <2>4 DEF RecLock, RecMark, RecBytes
  <2>6. file' \in [Ids -> {"none", "good", "bad"}] /\ temp' = temp
    BY <1>3 DEF RecLock, RecMark, RecBytes
  <2>7. lock' \in Holders
    BY <1>1, <1>3 DEF RecLock, RecMark, RecBytes, Acquire
  <2>8. UNCHANGED <<rowVars, up, del, history, budget>>
    BY <1>3 DEF RecLock, RecMark, RecBytes
  <2> QED BY <2>3, <2>5, <2>6, <2>7, <2>8 DEF Rec
<1>4. CASE RecRow(r)
  <2>1. rec' \in [Cleaners -> Rec] /\ RemovalsHaveTargets'
    BY <1>0, <1>4 DEF RecRow, Rec
  <2> QED BY <1>1, <1>4, <2>1 DEF RecRow, Rec
<1>5. CASE RecReturns(r) \/ RemoveNamespace(r)
  <2>1. rec' \in [Cleaners -> Rec] /\ RemovalsHaveTargets'
    BY <1>0, <1>5 DEF RecReturns, RemoveNamespace, IdleRec, Rec
  <2>2. CASE RecReturns(r)
    BY <2>1, <2>2 DEF RecReturns, Rec
  <2>3. CASE RemoveNamespace(r)
    BY <2>1, <2>3 DEF RemoveNamespace, Rec
  <2> QED BY <1>5, <2>2, <2>3
<1>6. CASE RecFails(r)
  BY <1>1, <1>6 DEF RecFails, IdleRec, Spend, Events
<1>7. CASE StartReconcile(r) \/ PurgeOther(r) \/ DeleteApp(r)
  <2>1. rec' \in [Cleaners -> Rec] /\ RemovalsHaveTargets'
    BY <1>0, <1>7 DEF StartReconcile, PurgeOther, DeleteApp, Begin, IdleRec, Rec
  <2>2. /\ status' \in {"active", "suspended", "deleting", "removed"}
        /\ purge' \in Cleaners \cup {None, "empty"}
        /\ budget' \in [Events -> Nat]
    BY <1>7 DEF StartReconcile, PurgeOther, DeleteApp, Spend, Events
  <2>3. UNCHANGED <<serving, row, fileVars, up, del, lock, history>>
    BY <1>7 DEF StartReconcile, PurgeOther, DeleteApp
  <2> QED BY <2>1, <2>2, <2>3 DEF Rec
<1>8. CASE \E b \in Ids : NextRow(r, b) \/ NextObject(r, b) \/ NextReady(r, b)
  BY <1>8 DEF NextRow, NextObject, NextReady, Turn, RecTo
<1>9. CASE OpenBlob(r) \/ OpenErrs(r) \/ MarkErrs(r)
  <2>1. rec[r].b \in Ids
    BY <1>9 DEF OpenBlob, OpenErrs, MarkErrs
  <2>2. rec' \in [Cleaners -> Rec] /\ RemovalsHaveTargets'
    <3>1. CASE OpenBlob(r)
      BY <1>0, <2>1, <3>1 DEF OpenBlob, Rec
    <3>2. CASE OpenErrs(r)
      BY <1>0, <2>1, <3>2 DEF OpenErrs, Rec
    <3>3. CASE MarkErrs(r)
      BY <1>0, <2>1, <3>3 DEF MarkErrs, Rec
    <3> QED BY <1>9, <3>1, <3>2, <3>3
  <2>3. doubted' \subseteq Ids /\ unhidden' \subseteq Ids /\ budget' \in [Events -> Nat]
    BY <1>9, <2>1 DEF OpenBlob, OpenErrs, MarkErrs, Spend, Events
  <2>4. UNCHANGED <<rowVars, row, fileVars, up, del, lock, kept, selected>>
    BY <1>9 DEF OpenBlob, OpenErrs, MarkErrs
  <2> QED BY <2>2, <2>3, <2>4 DEF Rec
<1> QED BY <1>2, <1>3, <1>4, <1>5, <1>6, <1>7, <1>8, <1>9

LEMMA TypeStep ==
    ASSUME TypeInv, [Next]_vars
    PROVE  TypeInv'
<1>1. CASE DeleteRows \/ SetAppStatus
  BY <1>1 DEF TypeInv, TypeOK, RemovalsHaveTargets, DeleteRows, SetAppStatus,
              Spend, Events, rowVars, fileVars, history
<1>3. CASE Crash
  <2>1. Free \in Holders
    BY DEF Holders, Free
  <2>2. rec' \in [Cleaners -> Rec] /\ RemovalsHaveTargets'
    BY <1>3 DEF Crash, Rec, RemovalsHaveTargets, IdleRec, RecPCs
  <2>3. /\ up' \in [Ids -> UploadPCs] /\ del' \in [Ids -> DeletePCs]
        /\ budget' \in [Events -> Nat]
    BY <1>3 DEF TypeInv, TypeOK, Crash, Spend, Events, UploadPCs, DeletePCs
  <2> QED BY <1>3, <2>1, <2>2, <2>3 DEF TypeInv, TypeOK, Rec, Crash, fileVars, history
<1>2. CASE UNCHANGED vars
  BY <1>2 DEF TypeInv, TypeOK, RemovalsHaveTargets, vars, rowVars, fileVars, history
<1> QED BY <1>1, <1>2, <1>3, NextCases, TypeUpload, TypeDelete, TypeReconcile

\* Rows, objects, goroutines and the lock have their types in every state.
THEOREM TypeCorrect == Spec => []TypeOK
<1>1. Spec => []TypeInv
  BY TypeInit, TypeStep, PTL DEF Spec
<1>2. TypeInv => TypeOK
  BY DEF TypeInv
<1> QED BY <1>1, <1>2, PTL
-----------------------------------------------------------------------------
(***************************************************************************)
(* The inductive invariant.                                                *)
(***************************************************************************)

\* Whoever is between the steps of an upload, a deletion or a removal holds
\* the lock.
Busy(b) == up[b] \notin {"idle", "done"}
Removing(r) == rec[r].pc \in {"mark", "bytes", "row"}

Locking ==
    /\ \A b \in Ids : Busy(b) => lock = Uploader(b)
    /\ \A b \in Ids : del[b] # "idle" => lock = Deleter(b)
    /\ \A r \in Cleaners : Removing(r) => lock = Cleaner(r)

\* What each step of an upload has done; a row outlives its upload.
Uploading ==
    \A b \in Ids :
        /\ row[b] \in {"ready", "deleting"} => up[b] = "done"
        /\ row[b] = "staging" => up[b] \notin {"idle", "stage"}
        /\ up[b] \in {"put", "rename", "commit"} => row[b] = "staging"
        /\ up[b] = "commit" => file[b] = "good"

\* A row is hidden before its bytes go, and stays hidden under the lock, unless
\* the second phase of a reconciliation failed to hide it.
HiddenFirst ==
    /\ \A b \in Ids : del[b] \in {"bytes", "row"} =>
          row[b] # "ready" /\ up[b] = "done" /\ b \notin kept
    /\ \A r \in Cleaners : rec[r].pc \in {"bytes", "row"} =>
          \/ row[rec[r].b] # "ready"
          \/ rec[r].phase = "objects" /\ rec[r].b \in unhidden

\* DeleteApp has stopped new uploads, and once RemoveNamespace has found the
\* directory empty under the lock nothing writes into it any more.
Emptied ==
    /\ purge # None => status = "deleting"
    /\ purge = "empty" \/ status = "removed" =>
          /\ temp = {}
          /\ \A b \in Ids : file[b] = "none" /\ up[b] \in {"idle", "stage", "done"}
    /\ status = "removed" => \A b \in Ids : row[b] = "none"

\* A ready row without bytes is one that could not be hidden.
HiddenOrListed ==
    \A b \in Ids : row[b] = "ready" /\ file[b] = "none" => b \in unhidden

SafeInv == TypeInv /\ Locking /\ Uploading /\ HiddenFirst /\ Emptied /\ HiddenOrListed

\* The phase a reconciliation is in, also while it opens or removes a blob.
Aside == {"open", "lock", "mark", "bytes", "row"}
Phase(r) == IF rec[r].pc \in Aside THEN rec[r].phase ELSE rec[r].pc

\* Nobody counts on this blob any more, and nobody will.
Gone(b) == /\ up[b] = "done"
           /\ \/ b \notin kept
              \/ b \in doubted
              \/ /\ row[b] # "ready"
                 /\ b \in selected \/ status \notin {"active", "suspended"}

\* The pages a reconciliation holds may be stale, but only in one direction.
Pages ==
    \A r \in Cleaners :
        /\ rec[r].pc = "idle" => rec[r].todo = {}
        /\ Phase(r) = "rows" => rec[r].todo \subseteq selected
        /\ Phase(r) = "ready" => \A b \in rec[r].todo : up[b] = "done"
        /\ rec[r].pc = "open" => rec[r].phase # "rows" /\ up[rec[r].b] = "done"
        /\ rec[r].pc \in {"lock", "mark", "bytes", "row"} =>
              IF rec[r].phase = "rows" THEN rec[r].b \in selected ELSE Gone(rec[r].b)

\* What has been acknowledged is the work of a finished upload, and readable
\* while it is ready and no reconciliation failed to open it.
Kept ==
    \A b \in kept :
        /\ up[b] = "done"
        /\ row[b] = "ready" /\ b \notin doubted => file[b] = "good"

\* The row of an acknowledged blob stays ready.
Listed ==
    \A b \in kept \ (selected \cup doubted) :
        status \in {"active", "suspended"} => row[b] = "ready"

LossInv == SafeInv /\ Pages /\ Kept /\ Listed

\* The holders of the lock are different.
LEMMA HoldersDiffer ==
    /\ \A b, c \in Ids : /\ Uploader(b) = Uploader(c) => b = c
                         /\ Deleter(b) = Deleter(c) => b = c
                         /\ Uploader(b) # Deleter(c)
                         /\ Uploader(b) # Free /\ Deleter(b) # Free
    /\ \A b \in Ids, r \in Cleaners : Uploader(b) # Cleaner(r) /\ Deleter(b) # Cleaner(r)
    /\ \A r, q \in Cleaners : /\ Cleaner(r) = Cleaner(q) => r = q
                              /\ Cleaner(r) # Free
BY DEF Uploader, Deleter, Cleaner, Free

\* Only the holder of the lock moves.
LEMMA LockingStep ==
    ASSUME TypeInv, TypeInv', Locking, [Next]_vars
    PROVE  Locking'
<1> USE DEF Locking, Busy, Removing
<1>1. CASE \E b \in Ids : UploadBegin(b)
  BY <1>1, HoldersDiffer DEF TypeInv, TypeOK, UploadBegin, Acquire, UploadLeaves
<1>2. ASSUME NEW b \in Ids,
             \/ InsertStaging(b) \/ PutStaging(b) \/ PutRename(b) \/ PutFails(b)
             \/ CommitReady(b) \/ CommitFails(b) \/ UndoPut(b) \/ UndoCommit(b)
      PROVE  Locking'
  <2>1. Busy(b) /\ del' = del /\ rec' = rec
    BY <1>2 DEF InsertStaging, PutStaging, PutRename, PutFails, CommitReady,
                CommitFails, UndoPut, UndoCommit, ForgetRow, DiscardBytes, UploadLeaves
  <2>2. UploadEnds(b) \/ \E pc \in UploadPCs \ {"idle", "done"} : UploadTo(b, pc)
    BY <1>2 DEF InsertStaging, PutStaging, PutRename, PutFails, CommitReady,
                CommitFails, UndoPut, UndoCommit, ForgetRow, DiscardBytes, UploadPCs
  <2> QED BY <2>1, <2>2, HoldersDiffer DEF TypeInv, TypeOK, UploadEnds, UploadTo
<1>3. CASE \E b \in Ids : DeleteBegin(b)
  BY <1>3, HoldersDiffer DEF TypeInv, TypeOK, DeleteBegin, Acquire
<1>4. ASSUME NEW b \in Ids,
             DeleteMark(b) \/ DeleteBytes(b) \/ DeleteRow(b) \/ DeleteFails(b)
      PROVE  Locking'
  <2>1. del[b] # "idle" /\ up' = up /\ rec' = rec
    BY <1>4 DEF DeleteMark, DeleteBytes, DeleteRow, DeleteFails
  <2>2. DeleteEnds(b) \/ (lock' = lock /\ \E pc \in DeletePCs \ {"idle"} : del' = [del EXCEPT ![b] = pc])
    BY <1>4 DEF DeleteMark, DeleteBytes, DeleteRow, DeleteFails, DeletePCs
  <2> QED BY <2>1, <2>2, HoldersDiffer DEF TypeInv, TypeOK, DeleteEnds
<1>5. ASSUME NEW r \in Cleaners,
             RecLock(r) \/ RecMark(r) \/ MarkErrs(r) \/ RecBytes(r) \/ RecRow(r)
      PROVE  Locking'
  <2>1. up' = up /\ del' = del
    BY <1>5 DEF RecLock, RecMark, MarkErrs, RecBytes, RecRow, RecLeaves
  <2>2. \A q \in Cleaners : q # r => rec'[q] = rec[q]
    BY <1>5 DEF RecLock, RecMark, MarkErrs, RecBytes, RecRow, RecResumes, TypeInv, TypeOK
  <2>3. \/ lock = Free /\ lock' = Cleaner(r)
        \/ Removing(r) /\ lock' = lock
        \/ Removing(r) /\ lock' = Free /\ ~Removing(r)'
    <3>1. CASE RecLock(r)
      BY <3>1 DEF RecLock, Acquire
    <3>2. CASE RecMark(r) \/ MarkErrs(r) \/ RecBytes(r)
      BY <3>2 DEF RecMark, MarkErrs, RecBytes
    <3>3. CASE RecRow(r)
      <4>1. rec'[r].pc \in {"rows", "objects", "ready"}
        BY <3>3 DEF RecRow, RecResumes, TypeInv, TypeOK
      <4> QED BY <3>3, <4>1 DEF RecRow
    <3> QED BY <1>5, <3>1, <3>2, <3>3
  <2> QED BY <2>1, <2>2, <2>3, HoldersDiffer
<1>6. ASSUME NEW r \in Cleaners,
             \/ SelectRows(r) \/ ObjectsDone(r) \/ RecReturns(r)
             \/ RemoveNamespace(r) \/ StartReconcile(r)
             \/ PurgeOther(r) \/ DeleteApp(r)
             \/ OpenBlob(r) \/ OpenErrs(r)
             \/ \E b \in Ids : NextRow(r, b) \/ NextObject(r, b) \/ NextReady(r, b)
      PROVE  Locking'
  <2>1. up' = up /\ del' = del /\ lock' = lock
    BY <1>6 DEF SelectRows, ObjectsDone, RecReturns, RemoveNamespace, StartReconcile,
                PurgeOther, DeleteApp, OpenBlob, OpenErrs,
         NextRow, NextObject, NextReady, RecLeaves
  <2>2. \A q \in Cleaners : q # r => rec'[q] = rec[q]
    BY <1>6 DEF SelectRows, ObjectsDone, RecReturns, RemoveNamespace, StartReconcile,
                PurgeOther, DeleteApp, OpenBlob, OpenErrs,
         NextRow, NextObject, NextReady, Turn,
                RecTo, RecResumes, Begin, TypeInv, TypeOK
  <2>3. rec'[r].pc \in {"idle", "rows", "objects", "ready", "open", "lock"}
    BY <1>6 DEF SelectRows, ObjectsDone, RecReturns, RemoveNamespace, StartReconcile,
                PurgeOther, DeleteApp, OpenBlob, OpenErrs,
         NextRow, NextObject, NextReady, Turn,
                RecTo, RecResumes, Begin, IdleRec, TypeInv, TypeOK
  <2> QED BY <2>1, <2>2, <2>3
<1>7. CASE \E r \in Cleaners : RecFails(r)
  BY <1>7, HoldersDiffer DEF RecFails, IdleRec, TypeInv, TypeOK
<1>8. CASE Crash
  BY <1>8 DEF Crash, IdleRec
<1>9. CASE DeleteRows \/ SetAppStatus \/ (\E b \in Ids : Damage(b)) \/ UNCHANGED vars
  BY <1>9 DEF DeleteRows, SetAppStatus, Damage, vars
<1> QED BY <1>1, <1>2, <1>3, <1>4, <1>5, <1>6, <1>7, <1>8, <1>9, NextCases

\* The rest of the invariant; types and lock are settled by now.
Rest == Uploading /\ HiddenFirst /\ Emptied /\ HiddenOrListed

LEMMA SafeUpload ==
    ASSUME SafeInv, TypeInv', Locking', NEW b \in Ids,
           \/ UploadBegin(b) \/ InsertStaging(b) \/ PutStaging(b)
           \/ PutRename(b) \/ PutFails(b) \/ CommitReady(b)
           \/ CommitFails(b) \/ UndoPut(b) \/ UndoCommit(b)
    PROVE  Rest'
<1> USE DEF Rest, SafeInv, TypeInv, TypeOK, Uploading, HiddenFirst, Emptied, HiddenOrListed,
            UploadLeaves, UploadTo, UploadEnds, rowVars, fileVars, history
<1>1. CASE UploadBegin(b)
  BY <1>1 DEF UploadBegin
<1>0. \/ up[b] = "idle"
      \/ /\ \A c \in Ids : del[c] = "idle"
         /\ \A r \in Cleaners : ~Removing(r)
  BY HoldersDiffer, <1>1 DEF Locking, Busy, InsertStaging, PutStaging, PutRename,
     PutFails, CommitReady, CommitFails, UndoPut, UndoCommit, ForgetRow,
     DiscardBytes, UploadBegin
<1>2. CASE InsertStaging(b)
  <2>1. purge # "empty" \/ status # "active"
    BY NamesAreDistinct
  <2>2. CASE status = "active"
    BY <1>0, <1>2, <2>1, <2>2 DEF InsertStaging, Removing
  <2>3. CASE status # "active"
    BY <1>2, <2>3 DEF InsertStaging
  <2> QED BY <2>2, <2>3
<1>3. CASE PutStaging(b) \/ PutRename(b) \/ PutFails(b)
  BY <1>0, <1>3 DEF PutStaging, PutRename, PutFails, Removing
<1>4. CASE CommitReady(b)
  BY <1>0, <1>4 DEF CommitReady, CommitAllowed, Removing
<1>5. CASE CommitFails(b)
  BY <1>0, <1>5 DEF CommitFails, Removing
<1>6. CASE UndoPut(b)
  BY <1>0, <1>6 DEF UndoPut, ForgetRow, DiscardBytes, Removing
<1>7. CASE UndoCommit(b)
  BY <1>0, <1>7 DEF UndoCommit, ForgetRow, DiscardBytes, Removing
<1> QED BY <1>1, <1>2, <1>3, <1>4, <1>5, <1>6, <1>7

LEMMA SafeDelete ==
    ASSUME SafeInv, TypeInv', Locking', NEW b \in Ids,
           \/ DeleteBegin(b) \/ DeleteMark(b) \/ DeleteBytes(b)
           \/ DeleteRow(b) \/ DeleteFails(b) \/ Damage(b)
    PROVE  Rest'
<1> USE DEF Rest, SafeInv, TypeInv, TypeOK, Uploading, HiddenFirst, Emptied, HiddenOrListed,
            DeleteEnds, rowVars, fileVars, history
<1>1. CASE DeleteBegin(b)
  BY <1>1 DEF DeleteBegin
<1>2. CASE DeleteMark(b)
  <2>1. CASE row[b] = "ready"
    <3>1. Uploading'
      BY <1>2, <2>1 DEF DeleteMark
    <3>2. HiddenFirst'
      BY <1>2, <2>1 DEF DeleteMark, RemovalsHaveTargets
    <3>3. Emptied' /\ HiddenOrListed'
      BY <1>2, <2>1 DEF DeleteMark
    <3> QED BY <3>1, <3>2, <3>3
  <2>2. CASE row[b] # "ready"
    BY <1>2, <2>2 DEF DeleteMark
  <2> QED BY <2>1, <2>2
<1>3. CASE DeleteBytes(b)
  BY <1>3 DEF DeleteBytes
<1>4. CASE DeleteRow(b)
  BY <1>4 DEF DeleteRow
<1>5. CASE DeleteFails(b)
  BY <1>5 DEF DeleteFails
<1>6. CASE Damage(b)
  BY <1>6 DEF Damage, Opens
<1> QED BY <1>1, <1>2, <1>3, <1>4, <1>5, <1>6

LEMMA SafeReconcile ==
    ASSUME SafeInv, TypeInv', Locking', NEW r \in Cleaners,
           \/ SelectRows(r) \/ ObjectsDone(r) \/ RecLock(r) \/ RecMark(r)
           \/ RecBytes(r) \/ RecRow(r) \/ RecReturns(r)
           \/ RemoveNamespace(r) \/ RecFails(r) \/ StartReconcile(r)
           \/ PurgeOther(r) \/ DeleteApp(r)
           \/ OpenBlob(r) \/ OpenErrs(r) \/ MarkErrs(r)
           \/ \E b \in Ids : NextRow(r, b) \/ NextObject(r, b) \/ NextReady(r, b)
    PROVE  Rest'
<1> USE DEF Rest, SafeInv, TypeInv, TypeOK, Uploading, HiddenFirst, Emptied, HiddenOrListed,
            RecLeaves, rowVars, fileVars, history
<1>1. \A q \in Cleaners : q # r => rec'[q] = rec[q]
  BY DEF SelectRows, ObjectsDone, RecLock, RecMark, RecBytes, RecRow, RecFails,
         RecReturns, RemoveNamespace, StartReconcile, PurgeOther, DeleteApp,
         OpenBlob, OpenErrs, MarkErrs,
         NextRow, NextObject, NextReady, Turn, RecTo, RecResumes, Begin
<1>2. CASE SelectRows(r) \/ ObjectsDone(r)
  <2>1. rec'[r].pc \notin {"bytes", "row"}
    BY <1>2 DEF SelectRows, ObjectsDone, RecTo
  <2> QED BY <1>1, <1>2, <2>1 DEF SelectRows, ObjectsDone
<1>3. CASE RecLock(r)
  <2>1. rec'[r].pc \notin {"bytes", "row"}
    BY <1>3 DEF RecLock
  <2> QED BY <1>1, <1>3, <2>1 DEF RecLock
<1>4. CASE RecMark(r)
  <2> DEFINE t == rec[r].b
  <2>1. t \in Ids /\ rec[r].pc = "mark"
    BY <1>4 DEF RecMark, RemovalsHaveTargets
  <2>2. \A b \in Ids : up[b] \in {"idle", "done"}
    BY <2>1, HoldersDiffer DEF Locking, Removing, Busy
  <2>3. /\ \A b \in Ids : b # t => row'[b] = row[b]
        /\ row'[t] = row[t] \/ (row[t] # "none" /\ row'[t] = "deleting")
        /\ row'[t] # "ready"
    <3>1. row' = [row EXCEPT ![t] = Hidden(row[t], rec[r].phase)]
      BY <1>4 DEF RecMark
    <3> QED BY <2>1, <3>1 DEF Hidden
  <2>4. \A b \in Ids : row'[b] = row[b] \/ (row[b] # "none" /\ row'[b] = "deleting")
    BY <2>1, <2>3
  <2>5. /\ UNCHANGED <<file, temp, up, del, status, purge, kept, unhidden>>
        /\ rec'[r].b = t
    BY <1>4, <2>1 DEF RecMark
  <2>6. Uploading' /\ HiddenOrListed'
    BY <2>2, <2>4, <2>5
  <2>7. Emptied'
    BY <2>4, <2>5
  <2>8. \A q \in Cleaners : rec'[q].pc \in {"bytes", "row"} =>
          \/ row'[rec'[q].b] # "ready"
          \/ rec'[q].phase = "objects" /\ rec'[q].b \in unhidden'
    BY <1>1, <2>1, <2>3, <2>4, <2>5 DEF RemovalsHaveTargets
  <2>9. HiddenFirst'
    BY <2>4, <2>5, <2>8
  <2> QED BY <2>6, <2>7, <2>9
<1>5. CASE RecBytes(r)
  <2> DEFINE t == rec[r].b
  <2>1. t \in Ids /\ rec[r].pc = "bytes"
    BY <1>5 DEF RecBytes, RemovalsHaveTargets
  <2>2. \A b \in Ids : up[b] \in {"idle", "done"}
    BY <2>1, HoldersDiffer DEF Locking, Removing, Busy
  <2>3. /\ UNCHANGED <<row, temp, up, del, status, purge, kept, unhidden>>
        /\ rec'[r].b = t /\ rec'[r].phase = rec[r].phase
        /\ file' = [file EXCEPT ![t] = "none"]
    BY <1>5, <2>1 DEF RecBytes
  <2>4. Uploading' /\ HiddenOrListed'
    BY <2>1, <2>2, <2>3
  <2>5. Emptied'
    BY <2>1, <2>3
  <2>6. HiddenFirst'
    BY <1>1, <2>1, <2>3
  <2> QED BY <2>4, <2>5, <2>6
<1>6. CASE RecRow(r)
  <2>1. rec[r].phase \in {"rows", "objects", "ready"} /\ rec'[r].pc = rec[r].phase
    BY <1>6 DEF RecRow, RecResumes
  <2>2. UNCHANGED <<file, temp, up, del, status, purge, kept, unhidden>>
    BY <1>6 DEF RecRow
  <2>3. \A b \in Ids : row'[b] = row[b] \/ (row[b] = "deleting" /\ row'[b] = "none")
    BY <1>6 DEF RecRow
  <2>4. HiddenFirst'
    BY <1>1, <2>1, <2>2, <2>3 DEF RemovalsHaveTargets
  <2>5. Uploading' /\ Emptied' /\ HiddenOrListed'
    BY <2>2, <2>3
  <2> QED BY <2>4, <2>5
<1>7. CASE RecReturns(r) \/ RecFails(r) \/ StartReconcile(r) \/ PurgeOther(r)
  <2>1. /\ UNCHANGED <<row, file, temp, up, del, status, kept, unhidden>>
        /\ purge' = purge \/ purge' = None
    BY <1>7 DEF RecReturns, RecFails, StartReconcile, PurgeOther
  <2>2. rec'[r].pc \notin {"bytes", "row"}
    BY <1>7 DEF RecReturns, RecFails, StartReconcile, PurgeOther, Begin, IdleRec
  <2> QED BY <1>1, <2>1, <2>2, NamesAreDistinct
<1>8. CASE DeleteApp(r)
  <2>1. /\ UNCHANGED <<row, file, temp, up, del, kept, unhidden>>
        /\ status' = "deleting" /\ purge' \in Cleaners
    BY <1>8 DEF DeleteApp
  <2>2. rec'[r].pc \notin {"bytes", "row"}
    BY <1>8 DEF DeleteApp, Begin, IdleRec
  <2> QED BY <1>1, <2>1, <2>2, NamesAreDistinct
<1>9. CASE RemoveNamespace(r)
  <2>1. /\ UNCHANGED <<row, file, temp, up, del, status, kept, unhidden>>
        /\ status = "deleting"
        /\ purge' = "empty" => temp = {} /\ \A b \in Ids : file[b] = "none"
    BY <1>9, NamesAreDistinct DEF RemoveNamespace
  <2>2. rec'[r].pc \notin {"bytes", "row"}
    BY <1>9 DEF RemoveNamespace, IdleRec
  <2>3. \A b \in Ids : up[b] \in {"idle", "done"}
    BY <1>9, HoldersDiffer DEF RemoveNamespace, Locking, Busy
  <2> QED BY <1>1, <2>1, <2>2, <2>3
<1>10. CASE \E b \in Ids : NextRow(r, b) \/ NextObject(r, b) \/ NextReady(r, b)
  BY <1>1, <1>10 DEF NextRow, NextObject, NextReady, Turn, RecTo
<1>11. CASE OpenBlob(r) \/ OpenErrs(r)
  <2>1. /\ UNCHANGED <<row, file, temp, up, del, status, purge, kept, unhidden>>
        /\ rec'[r].pc \notin {"bytes", "row"}
    <3>1. rec[r].phase \in {"rows", "objects", "ready"}
      OBVIOUS
    <3> QED BY <1>11, <3>1 DEF OpenBlob, OpenErrs, RecResumes
  <2> QED BY <1>1, <2>1
<1>12. CASE MarkErrs(r)
  <2>1. /\ UNCHANGED <<row, file, temp, up, del, status, purge, kept>>
        /\ unhidden' = unhidden \cup {rec[r].b}
        /\ rec'[r].b = rec[r].b /\ rec'[r].phase = "objects"
    BY <1>12 DEF MarkErrs
  <2> QED BY <1>1, <2>1
<1> QED BY <1>2, <1>3, <1>4, <1>5, <1>6, <1>7, <1>8, <1>9, <1>10, <1>11, <1>12

LEMMA SafeStep ==
    ASSUME SafeInv, [Next]_vars
    PROVE  SafeInv'
<1>1. TypeInv' /\ Locking'
  BY TypeStep, LockingStep DEF SafeInv
<1>2. CASE DeleteRows
  BY <1>2, <1>1, NamesAreDistinct DEF SafeInv, TypeInv, TypeOK, RemovalsHaveTargets,
     Uploading, HiddenFirst, Emptied, HiddenOrListed, DeleteRows, fileVars, history
<1>3. CASE SetAppStatus
  BY <1>3, <1>1, NamesAreDistinct DEF SafeInv, Uploading, HiddenFirst, Emptied,
     HiddenOrListed, SetAppStatus, fileVars, history
<1>4. CASE Crash
  BY <1>4, <1>1, NamesAreDistinct DEF SafeInv, TypeInv, TypeOK, UploadPCs, Uploading,
     HiddenFirst, Emptied, HiddenOrListed, Crash, IdleRec, fileVars, history
<1>5. CASE UNCHANGED vars
  BY <1>5, <1>1 DEF SafeInv, Uploading, HiddenFirst, Emptied, HiddenOrListed,
     vars, rowVars, fileVars, history
<1> QED BY <1>1, <1>2, <1>3, <1>4, <1>5, NextCases, SafeUpload, SafeDelete,
           SafeReconcile DEF SafeInv, Rest

LEMMA SafeInit == Init => SafeInv
BY TypeInit DEF Init, SafeInv, Locking, Busy, Removing, Uploading, HiddenFirst,
   Emptied, HiddenOrListed, IdleRec

LEMMA SafeAlways == Spec => []SafeInv
BY SafeInit, SafeStep, PTL DEF Spec

\* A deleted application leaves no blob behind: DeleteApp turns uploads away
\* before the directory is found empty under the lock.
THEOREM DeletionComplete == Spec => []DeletionLeavesNoBlob
<1>1. SafeInv => DeletionLeavesNoBlob
  BY DEF SafeInv, Emptied, DeletionLeavesNoBlob
<1> QED BY <1>1, SafeAlways, PTL

-----------------------------------------------------------------------------
(***************************************************************************)
(* The quota.                                                              *)
(***************************************************************************)

\* Only the commit of an upload makes a blob ready.
LEMMA ReadyGrows ==
    ASSUME TypeInv, [Next]_vars
    PROVE  \/ Ready' \subseteq Ready
           \/ \E b \in Ids : CommitReady(b)
<1> SUFFICES ASSUME NEW c \in Ids, row'[c] = "ready", row[c] # "ready"
             PROVE  \E b \in Ids : CommitReady(b)
  BY DEF Ready
<1> USE DEF TypeInv, TypeOK
<1>1. CASE \E b \in Ids : UploadBegin(b) \/ InsertStaging(b) \/ PutStaging(b)
             \/ PutRename(b) \/ PutFails(b) \/ CommitFails(b)
  BY <1>1 DEF UploadBegin, InsertStaging, PutStaging, PutRename, PutFails, CommitFails
<1>2. CASE \E b \in Ids : UndoPut(b) \/ UndoCommit(b)
  BY <1>2 DEF UndoPut, UndoCommit, ForgetRow, DiscardBytes
<1>3. CASE \E b \in Ids : DeleteBegin(b) \/ DeleteMark(b) \/ DeleteBytes(b)
             \/ DeleteRow(b) \/ DeleteFails(b) \/ Damage(b)
  BY <1>3 DEF DeleteBegin, DeleteMark, DeleteBytes, DeleteRow, DeleteFails, Damage
<1>4. CASE \E r \in Cleaners : RecMark(r)
  BY <1>4 DEF RecMark, Hidden, RemovalsHaveTargets
<1>5. CASE \E r \in Cleaners : RecRow(r)
  BY <1>5 DEF RecRow, RemovalsHaveTargets
<1>6. CASE \E r \in Cleaners :
             \/ SelectRows(r) \/ ObjectsDone(r) \/ RecLock(r) \/ RecBytes(r)
             \/ RecReturns(r) \/ RemoveNamespace(r) \/ RecFails(r)
             \/ StartReconcile(r) \/ PurgeOther(r) \/ DeleteApp(r)
             \/ OpenBlob(r) \/ OpenErrs(r) \/ MarkErrs(r)
             \/ \E b \in Ids : NextRow(r, b) \/ NextObject(r, b) \/ NextReady(r, b)
  BY <1>6 DEF SelectRows, ObjectsDone, RecLock, RecBytes, RecReturns, RemoveNamespace,
     RecFails, StartReconcile, PurgeOther, DeleteApp, OpenBlob, OpenErrs, MarkErrs,
         NextRow, NextObject, NextReady
<1>7. CASE DeleteRows \/ SetAppStatus \/ Crash \/ UNCHANGED vars
  BY <1>7 DEF DeleteRows, SetAppStatus, Crash, vars
<1> QED BY <1>1, <1>2, <1>3, <1>4, <1>5, <1>6, <1>7, NextCases

\* The ready blobs stay within the quota, whatever number of uploads streams
\* at the same time.
THEOREM QuotaKept == Spec => []QuotaHolds
<1>1. Init => QuotaHolds
  <2>1. ASSUME Init PROVE Ready = {}
    BY <2>1 DEF Init, Ready
  <2> QED BY <2>1, FS_EmptySet, LimitType DEF QuotaHolds
<1>2. ASSUME TypeInv, QuotaHolds, [Next]_vars PROVE QuotaHolds'
  <2>1. IsFiniteSet(Ready) /\ Cardinality(Ready) \in Nat
    BY LimitType, FS_Subset, FS_CardinalityType DEF Ready
  <2>2. CASE Ready' \subseteq Ready
    <3>1. Cardinality(Ready') <= Cardinality(Ready) /\ Cardinality(Ready') \in Nat
      BY <2>1, <2>2, FS_Subset, FS_CardinalityType
    <3> QED BY <1>2, <2>1, <3>1, LimitType DEF QuotaHolds
  <2>3. ASSUME NEW b \in Ids, CommitReady(b) PROVE QuotaHolds'
    <3>1. Ready' = Ready \cup {b} /\ b \notin Ready /\ Cardinality(Ready) < BlobsPerApp
      BY <1>2, <2>3 DEF CommitReady, CommitAllowed, Ready, TypeInv, TypeOK
    <3>2. Cardinality(Ready') = Cardinality(Ready) + 1
      BY <2>1, <3>1, FS_AddElement
    <3> QED BY <2>1, <3>1, <3>2, LimitType DEF QuotaHolds
  <2> QED BY <1>2, <2>2, <2>3, ReadyGrows
<1>3. Spec => []TypeInv
  BY TypeInit, TypeStep, PTL DEF Spec
<1> QED BY <1>1, <1>2, <1>3, PTL DEF Spec

-----------------------------------------------------------------------------
(***************************************************************************)
(* Acknowledged blobs.                                                     *)
(***************************************************************************)

\* Uploads end once, selected blobs stay selected and an application that is
\* being deleted stays so: what is gone stays gone.
LEMMA GoneStays ==
    ASSUME LossInv, [Next]_vars
    PROVE  /\ \A b \in Ids : up[b] = "done" => up'[b] = "done"
           /\ selected \subseteq selected' /\ doubted \subseteq doubted'
           /\ \A b \in Ids : Gone(b) => Gone(b)'
<1> USE DEF LossInv, SafeInv, TypeInv, TypeOK
<1> DEFINE Live == {"active", "suspended"}
<1>1. \A b \in Ids : up[b] = "done" => up'[b] = "done" /\ (b \in kept' => b \in kept)
  <2>1. CASE \E b \in Ids :
               \/ UploadBegin(b) \/ InsertStaging(b) \/ PutStaging(b)
               \/ PutRename(b) \/ PutFails(b) \/ CommitReady(b)
               \/ CommitFails(b) \/ UndoPut(b) \/ UndoCommit(b)
    BY <2>1 DEF UploadBegin, InsertStaging, PutStaging, PutRename, PutFails,
       CommitReady, CommitFails, UndoPut, UndoCommit, ForgetRow, DiscardBytes,
       UploadTo, UploadEnds, history
  <2>2. CASE \E b \in Ids : DeleteBegin(b) \/ DeleteMark(b) \/ DeleteBytes(b)
               \/ DeleteRow(b) \/ DeleteFails(b) \/ Damage(b)
    BY <2>2 DEF DeleteBegin, DeleteMark, DeleteBytes, DeleteRow, DeleteFails, Damage,
       history
  <2>3. CASE \E r \in Cleaners :
               \/ SelectRows(r) \/ ObjectsDone(r) \/ RecLock(r) \/ RecMark(r)
               \/ RecBytes(r) \/ RecRow(r) \/ RecReturns(r)
               \/ RemoveNamespace(r) \/ RecFails(r) \/ StartReconcile(r)
               \/ PurgeOther(r) \/ DeleteApp(r)
               \/ OpenBlob(r) \/ OpenErrs(r) \/ MarkErrs(r)
               \/ \E b \in Ids : NextRow(r, b) \/ NextObject(r, b) \/ NextReady(r, b)
    BY <2>3 DEF SelectRows, ObjectsDone, RecLock, RecMark, RecBytes, RecRow, RecReturns,
       RemoveNamespace, RecFails, StartReconcile, PurgeOther, DeleteApp,
       OpenBlob, OpenErrs, MarkErrs,
         NextRow, NextObject, NextReady, RecLeaves, history
  <2>4. CASE DeleteRows \/ SetAppStatus \/ Crash \/ UNCHANGED vars
    BY <2>4 DEF DeleteRows, SetAppStatus, Crash, vars, history
  <2> QED BY <2>1, <2>2, <2>3, <2>4, NextCases
<1>2. selected \subseteq selected' /\ doubted \subseteq doubted' /\ (status \notin Live => status' \notin Live)
  <2>1. CASE \E b \in Ids :
               \/ UploadBegin(b) \/ InsertStaging(b) \/ PutStaging(b)
               \/ PutRename(b) \/ PutFails(b) \/ CommitReady(b)
               \/ CommitFails(b) \/ UndoPut(b) \/ UndoCommit(b)
    BY <2>1 DEF UploadBegin, InsertStaging, PutStaging, PutRename, PutFails,
       CommitReady, CommitFails, UndoPut, UndoCommit, ForgetRow, DiscardBytes,
       UploadLeaves, rowVars, history
  <2>2. CASE \E b \in Ids : DeleteBegin(b) \/ DeleteMark(b) \/ DeleteBytes(b)
               \/ DeleteRow(b) \/ DeleteFails(b) \/ Damage(b)
    BY <2>2 DEF DeleteBegin, DeleteMark, DeleteBytes, DeleteRow, DeleteFails, Damage,
       rowVars, history
  <2>3. CASE \E r \in Cleaners :
               \/ SelectRows(r) \/ ObjectsDone(r) \/ RecLock(r) \/ RecMark(r)
               \/ RecBytes(r) \/ RecRow(r) \/ RecReturns(r)
               \/ RemoveNamespace(r) \/ RecFails(r) \/ StartReconcile(r)
               \/ PurgeOther(r) \/ DeleteApp(r)
               \/ OpenBlob(r) \/ OpenErrs(r) \/ MarkErrs(r)
               \/ \E b \in Ids : NextRow(r, b) \/ NextObject(r, b) \/ NextReady(r, b)
    BY <2>3 DEF SelectRows, ObjectsDone, RecLock, RecMark, RecBytes, RecRow, RecReturns,
       RemoveNamespace, RecFails, StartReconcile, PurgeOther, DeleteApp,
       OpenBlob, OpenErrs, MarkErrs,
         NextRow, NextObject, NextReady, RecLeaves, rowVars, history
  <2>4. CASE DeleteRows \/ SetAppStatus \/ Crash \/ UNCHANGED vars
    BY <2>4 DEF DeleteRows, SetAppStatus, Crash, vars, rowVars, history
  <2> QED BY <2>1, <2>2, <2>3, <2>4, NextCases
<1>3. \A b \in Ids : up[b] = "done" /\ row'[b] = "ready" => row[b] = "ready"
  BY ReadyGrows DEF Ready, CommitReady
<1> QED BY <1>1, <1>2, <1>3 DEF Gone

\* A ready blob that does not open is damaged or on nobody's account.
LEMMA UnreadableIsGone ==
    ASSUME LossInv, NEW b \in Ids, up[b] = "done", ~Opens(b)
    PROVE  Gone(b)
BY DEF LossInv, Kept, Listed, Opens, Gone

\* The pages of a reconciliation stay what they are.
LEMMA PagesStep ==
    ASSUME LossInv, [Next]_vars, TypeInv'
    PROVE  Pages'
<1>1. /\ \A b \in Ids : up[b] = "done" => up'[b] = "done"
      /\ selected \subseteq selected'
      /\ \A b \in Ids : Gone(b) => Gone(b)'
  BY GoneStays
<1> DEFINE PageOK(r) ==
        /\ rec[r].pc = "idle" => rec[r].todo = {}
        /\ Phase(r) = "rows" => rec[r].todo \subseteq selected
        /\ Phase(r) = "ready" => \A b \in rec[r].todo : up[b] = "done"
        /\ rec[r].pc = "open" => rec[r].phase # "rows" /\ up[rec[r].b] = "done"
        /\ rec[r].pc \in {"lock", "mark", "bytes", "row"} =>
              IF rec[r].phase = "rows" THEN rec[r].b \in selected ELSE Gone(rec[r].b)
<1>2. ASSUME NEW r \in Cleaners PROVE PageOK(r)
  BY DEF LossInv, Pages
<1>3. ASSUME NEW r \in Cleaners, rec'[r] = rec[r] PROVE PageOK(r)'
  <2>1. rec[r].todo \subseteq Ids
    BY DEF LossInv, SafeInv, TypeInv, TypeOK
  <2>2. rec[r].pc \in {"open", "lock", "mark", "bytes", "row"} => rec[r].b \in Ids
    BY DEF LossInv, SafeInv, TypeInv, RemovalsHaveTargets
  <2> QED BY <1>1, <1>2, <1>3, <2>1, <2>2 DEF Phase, Aside
<1>4. ASSUME NEW r \in Cleaners,
             \/ SelectRows(r) \/ ObjectsDone(r) \/ RecLock(r) \/ RecMark(r)
             \/ RecBytes(r) \/ RecRow(r) \/ RecReturns(r)
             \/ RemoveNamespace(r) \/ RecFails(r) \/ StartReconcile(r)
             \/ PurgeOther(r) \/ DeleteApp(r)
             \/ OpenBlob(r) \/ OpenErrs(r) \/ MarkErrs(r)
             \/ \E b \in Ids : NextRow(r, b) \/ NextObject(r, b) \/ NextReady(r, b)
      PROVE  PageOK(r)' /\ \A q \in Cleaners : q # r => rec'[q] = rec[q]
  <2> USE DEF LossInv, SafeInv, TypeInv, TypeOK
  <2>1. \A q \in Cleaners : q # r => rec'[q] = rec[q]
    BY <1>4 DEF SelectRows, ObjectsDone, RecLock, RecMark, RecBytes, RecRow, RecFails,
         RecReturns, RemoveNamespace, StartReconcile, PurgeOther, DeleteApp,
         OpenBlob, OpenErrs, MarkErrs,
         NextRow, NextObject, NextReady, Turn, RecTo, RecResumes, Begin
  <2> SUFFICES PageOK(r)'
    BY <2>1
  <2>2. CASE SelectRows(r)
    BY <2>2 DEF SelectRows, RecTo, Phase, Aside
  <2>3. CASE ObjectsDone(r)
    <3>1. rec'[r].pc = "ready" /\ rec'[r].todo = Ready
      BY <2>3 DEF ObjectsDone, RecTo
    <3> QED BY <1>1, <3>1 DEF Phase, Aside, Ready, Uploading
  <2>4. CASE RecLock(r) \/ RecMark(r) \/ MarkErrs(r) \/ RecBytes(r)
    <3>1. /\ rec'[r].pc \in {"mark", "bytes", "row"}
          /\ rec[r].pc \in {"lock", "mark", "bytes"}
          /\ rec'[r].phase = rec[r].phase
          /\ rec'[r].todo = rec[r].todo
          /\ rec'[r].b = rec[r].b
      BY <2>4 DEF RecLock, RecMark, MarkErrs, RecBytes
    <3>2. rec[r].todo \subseteq Ids /\ rec[r].b \in Ids
      BY <3>1 DEF RemovalsHaveTargets
    <3> QED BY <1>1, <1>2, <3>1, <3>2 DEF Phase, Aside
  <2>5. CASE RecRow(r)
    <3>1. /\ rec'[r].pc = rec[r].phase
          /\ rec[r].phase \in {"rows", "objects", "ready"}
          /\ rec[r].pc = "row"
          /\ rec'[r].todo = rec[r].todo /\ rec[r].todo \subseteq Ids
      BY <2>5 DEF RecRow, RecResumes
    <3> QED BY <1>1, <1>2, <3>1 DEF Phase, Aside
  <2>6. CASE RecReturns(r) \/ RemoveNamespace(r) \/ RecFails(r)
    <3>1. rec'[r] = IdleRec
      BY <2>6 DEF RecReturns, RemoveNamespace, RecFails
    <3> QED BY <3>1 DEF IdleRec, Phase, Aside
  <2>7. CASE StartReconcile(r) \/ PurgeOther(r) \/ DeleteApp(r)
    <3>1. rec'[r].pc = "rows" /\ rec'[r].todo = {}
      BY <2>7 DEF StartReconcile, PurgeOther, DeleteApp, Begin, IdleRec
    <3> QED BY <3>1 DEF Phase, Aside
  <2>8. ASSUME NEW b \in Ids, NextRow(r, b) PROVE PageOK(r)'
    <3>1. /\ rec'[r].pc = "lock" /\ rec'[r].phase = "rows"
          /\ rec'[r].todo \subseteq rec[r].todo /\ rec'[r].b = b
          /\ rec[r].pc = "rows" /\ b \in rec[r].todo
      BY <2>8 DEF NextRow, Turn
    <3> QED BY <1>1, <1>2, <3>1 DEF Phase, Aside
  <2>9. ASSUME NEW b \in Ids, NextObject(r, b) PROVE PageOK(r)'
    <3>1. CASE row[b] = "ready"
      <4>1. /\ rec'[r].pc = "open" /\ rec'[r].phase = "objects" /\ rec'[r].b = b
        BY <2>9, <3>1 DEF NextObject, Turn
      <4>2. up[b] = "done"
        BY <3>1 DEF Uploading
      <4> QED BY <1>1, <4>1, <4>2 DEF Phase, Aside
    <3>2. CASE row[b] # "ready"
      <4>1. rec'[r].pc = "objects"
        BY <2>9, <3>2 DEF NextObject, RecTo
      <4> QED BY <4>1 DEF Phase, Aside
    <3> QED BY <3>1, <3>2
  <2>10. ASSUME NEW b \in Ids, NextReady(r, b) PROVE PageOK(r)'
    <3>1. rec[r].pc = "ready" /\ b \in rec[r].todo /\ up[b] = "done"
      BY <1>2, <2>10 DEF NextReady, Phase, Aside
    <3>2. /\ rec'[r].pc = "open" /\ rec'[r].phase = "ready" /\ rec'[r].b = b
          /\ rec'[r].todo \subseteq rec[r].todo /\ rec[r].todo \subseteq Ids
      BY <2>10, <3>1 DEF NextReady, Turn
    <3> QED BY <1>1, <1>2, <3>1, <3>2 DEF Phase, Aside
  <2>11. CASE OpenBlob(r) \/ OpenErrs(r)
    <3>0. PICK t \in Ids : t = rec[r].b
      BY <2>11 DEF OpenBlob, OpenErrs, RemovalsHaveTargets
    <3>1. /\ up[t] = "done" /\ rec[r].pc = "open"
          /\ rec[r].phase \in {"objects", "ready"}
          /\ rec'[r].todo = rec[r].todo /\ rec[r].todo \subseteq Ids
          /\ rec'[r].phase = rec[r].phase
      BY <1>2, <2>11, <3>0 DEF OpenBlob, OpenErrs, RecResumes
    <3>2. CASE OpenBlob(r) /\ Opens(t)
      <4>1. rec'[r].pc = rec[r].phase
        BY <3>0, <3>2 DEF OpenBlob, RecResumes
      <4> QED BY <1>1, <1>2, <3>1, <4>1 DEF Phase, Aside
    <3>3. CASE (OpenBlob(r) /\ ~Opens(t)) \/ OpenErrs(r)
      <4>1. rec'[r].pc = "lock" /\ rec'[r].b = t
        BY <3>0, <3>3 DEF OpenBlob, OpenErrs
      <4>2. Gone(t)'
        <5>1. CASE ~Opens(t)
          <6>1. Gone(t)
            BY <3>1, <5>1, UnreadableIsGone
          <6> QED BY <1>1, <3>1, <6>1
        <5>2. CASE OpenErrs(r)
          BY <1>1, <3>0, <3>1, <5>2 DEF OpenErrs, Gone
        <5> QED BY <3>3, <5>1, <5>2
      <4> QED BY <1>1, <1>2, <3>1, <4>1, <4>2 DEF Phase, Aside
    <3> QED BY <2>11, <3>0, <3>2, <3>3 DEF OpenErrs
  <2> QED BY <1>4, <2>2, <2>3, <2>4, <2>5, <2>6, <2>7, <2>8, <2>9, <2>10, <2>11
<1>5. CASE \E b \in Ids :
             \/ UploadBegin(b) \/ InsertStaging(b) \/ PutStaging(b)
             \/ PutRename(b) \/ PutFails(b) \/ CommitReady(b)
             \/ CommitFails(b) \/ UndoPut(b) \/ UndoCommit(b)
             \/ DeleteBegin(b) \/ DeleteMark(b) \/ DeleteBytes(b)
             \/ DeleteRow(b) \/ DeleteFails(b) \/ Damage(b)
  <2>1. rec' = rec
    BY <1>5 DEF UploadBegin, InsertStaging, PutStaging, PutRename, PutFails,
       CommitReady, CommitFails, UndoPut, UndoCommit, ForgetRow, DiscardBytes,
       UploadLeaves, DeleteBegin, DeleteMark, DeleteBytes, DeleteRow, DeleteFails, Damage
  <2> QED BY <1>3, <2>1 DEF Pages
<1>6. CASE DeleteRows \/ SetAppStatus \/ UNCHANGED vars
  <2>1. rec' = rec
    BY <1>6 DEF DeleteRows, SetAppStatus, vars
  <2> QED BY <1>3, <2>1 DEF Pages
<1>7. CASE Crash
  BY <1>7 DEF Crash, IdleRec, Pages, Phase, Aside
<1>8. CASE \E r \in Cleaners :
             \/ SelectRows(r) \/ ObjectsDone(r) \/ RecLock(r) \/ RecMark(r)
             \/ RecBytes(r) \/ RecRow(r) \/ RecReturns(r)
             \/ RemoveNamespace(r) \/ RecFails(r) \/ StartReconcile(r)
             \/ PurgeOther(r) \/ DeleteApp(r)
             \/ OpenBlob(r) \/ OpenErrs(r) \/ MarkErrs(r)
             \/ \E b \in Ids : NextRow(r, b) \/ NextObject(r, b) \/ NextReady(r, b)
  BY <1>3, <1>4, <1>8 DEF Pages
<1> QED BY <1>5, <1>6, <1>7, <1>8, NextCases

\* A blob that is acknowledged, not selected and not deleted keeps its row,
\* and as long as it is ready its bytes.
LEMMA KeptStep ==
    ASSUME LossInv, SafeInv', [Next]_vars
    PROVE  Kept' /\ Listed'
<1> USE DEF LossInv, SafeInv, TypeInv, TypeOK, Kept, Listed
<1>0. /\ \A b \in Ids : up[b] = "done" => up'[b] = "done"
      /\ selected \subseteq selected' /\ doubted \subseteq doubted'
  BY GoneStays
<1>1. ASSUME NEW b \in Ids,
             \/ UploadBegin(b) \/ InsertStaging(b) \/ PutStaging(b)
             \/ PutRename(b) \/ PutFails(b) \/ CommitFails(b)
             \/ UndoPut(b) \/ UndoCommit(b)
      PROVE  Kept' /\ Listed'
  <2>1. up[b] # "done" /\ UNCHANGED <<status, kept, selected, doubted>>
    BY <1>1 DEF UploadBegin, InsertStaging, PutStaging, PutRename, PutFails,
       CommitFails, UndoPut, UndoCommit, ForgetRow, DiscardBytes, UploadLeaves,
       rowVars, history
  <2>2. \A c \in Ids : c # b => row'[c] = row[c] /\ file'[c] = file[c]
    BY <1>1 DEF UploadBegin, InsertStaging, PutStaging, PutRename, PutFails,
       CommitFails, UndoPut, UndoCommit, ForgetRow, DiscardBytes, fileVars
  <2> QED BY <1>0, <2>1, <2>2
<1>2. ASSUME NEW b \in Ids, CommitReady(b)
      PROVE  Kept' /\ Listed'
  <2>1. file[b] = "good"
    BY <1>2 DEF CommitReady, Uploading
  <2> QED BY <1>2, <2>1 DEF CommitReady, UploadEnds, UploadLeaves, rowVars, fileVars
<1>3. CASE \E b \in Ids : DeleteBegin(b) \/ DeleteFails(b) \/ Damage(b)
  BY <1>3 DEF DeleteBegin, DeleteFails, Damage, rowVars, fileVars, history
<1>4. CASE \E b \in Ids : DeleteMark(b)
  BY <1>4 DEF DeleteMark, rowVars, fileVars
<1>5. CASE \E b \in Ids : DeleteBytes(b) \/ DeleteRow(b)
  BY <1>5 DEF DeleteBytes, DeleteRow, HiddenFirst, rowVars, fileVars, history
<1>6. ASSUME NEW r \in Cleaners, RecMark(r)
      PROVE  Kept' /\ Listed'
  <2> DEFINE t == rec[r].b
  <2>1. t \in Ids /\ rec[r].pc = "mark"
    BY <1>6 DEF RecMark, RemovalsHaveTargets
  <2>2. t \in selected \/ Gone(t)
    BY <2>1 DEF Pages
  <2>3. UNCHANGED <<status, file, up, kept, selected, doubted>>
    BY <1>6 DEF RecMark, RecLeaves, rowVars, fileVars, history
  <2>4. /\ \A b \in Ids : b # t => row'[b] = row[b]
        /\ row'[t] # "ready"
    BY <1>6, <2>1 DEF RecMark, Hidden
  <2> QED BY <2>1, <2>2, <2>3, <2>4 DEF Gone
<1>7. ASSUME NEW r \in Cleaners, RecBytes(r) \/ RecRow(r)
      PROVE  Kept' /\ Listed'
  <2> DEFINE t == rec[r].b
  <2>1. /\ t \in Ids /\ rec[r].pc \in {"bytes", "row"}
        /\ row[t] # "ready" \/ rec[r].phase = "objects"
    BY <1>7 DEF RecBytes, RecRow, RemovalsHaveTargets, HiddenFirst
  <2>2. UNCHANGED <<status, up, kept, selected, doubted>>
    BY <1>7 DEF RecBytes, RecRow, RecLeaves, rowVars, history
  <2>3. row[t] # "ready" \/ t \notin kept \/ t \in doubted
    BY <2>1 DEF Pages, Gone
  <2>4. /\ \A b \in Ids : b # t => row'[b] = row[b] /\ file'[b] = file[b]
        /\ row[t] = "ready" <=> row'[t] = "ready"
    BY <1>7, <2>1 DEF RecBytes, RecRow, fileVars
  <2> QED BY <2>1, <2>2, <2>3, <2>4
<1>8. ASSUME NEW r \in Cleaners,
             \/ SelectRows(r) \/ ObjectsDone(r) \/ RecLock(r) \/ RecReturns(r)
             \/ RemoveNamespace(r) \/ RecFails(r) \/ StartReconcile(r)
             \/ PurgeOther(r) \/ DeleteApp(r)
             \/ OpenBlob(r) \/ OpenErrs(r) \/ MarkErrs(r)
             \/ \E b \in Ids : NextRow(r, b) \/ NextObject(r, b) \/ NextReady(r, b)
      PROVE  Kept' /\ Listed'
  <2>1. UNCHANGED <<row, up, kept>>
    BY <1>8 DEF SelectRows, ObjectsDone, RecLock, RecReturns, RemoveNamespace, RecFails,
       StartReconcile, PurgeOther, DeleteApp, OpenBlob, OpenErrs, MarkErrs,
         NextRow, NextObject, NextReady,
       RecLeaves, history
  <2>2. status' = status \/ status' = "deleting"
    BY <1>8 DEF SelectRows, ObjectsDone, RecLock, RecReturns, RemoveNamespace, RecFails,
       StartReconcile, PurgeOther, DeleteApp, OpenBlob, OpenErrs, MarkErrs,
         NextRow, NextObject, NextReady,
       RecLeaves, rowVars
  <2>3. \A b \in Ids : row[b] = "ready" => file'[b] = file[b]
    <3>1. CASE \E b \in Ids : NextRow(r, b) \/ NextObject(r, b) \/ NextReady(r, b)
      BY <3>1 DEF NextRow, NextObject, NextReady, fileVars
    <3>2. CASE ~\E b \in Ids : NextRow(r, b) \/ NextObject(r, b) \/ NextReady(r, b)
      BY <1>8, <3>2 DEF SelectRows, ObjectsDone, RecLock, RecReturns, RemoveNamespace,
         RecFails, StartReconcile, PurgeOther, DeleteApp, OpenBlob, OpenErrs, MarkErrs,
         fileVars
    <3> QED BY <3>1, <3>2
  <2> QED BY <1>0, <2>1, <2>2, <2>3
<1>9. CASE DeleteRows \/ SetAppStatus \/ UNCHANGED vars
  BY <1>9 DEF DeleteRows, SetAppStatus, vars, rowVars, fileVars, history
<1>10. CASE Crash
  BY <1>0, <1>10 DEF Crash, fileVars, history
<1> QED BY <1>1, <1>2, <1>3, <1>4, <1>5, <1>6, <1>7, <1>8, <1>9, <1>10, NextCases

LEMMA LossAlways == Spec => []LossInv
<1>1. Init => LossInv
  BY SafeInit DEF Init, LossInv, Pages, Kept, Listed, Phase, Aside, IdleRec
<1>2. LossInv /\ [Next]_vars => LossInv'
  <2> SUFFICES ASSUME LossInv, [Next]_vars PROVE LossInv'
    OBVIOUS
  <2>1. SafeInv'
    BY SafeStep DEF LossInv
  <2>2. Pages'
    BY <2>1, PagesStep DEF SafeInv
  <2>3. Kept' /\ Listed'
    BY <2>1, KeptStep
  <2> QED BY <2>1, <2>2, <2>3 DEF LossInv
<1> QED BY <1>1, <1>2, PTL DEF Spec

\* What is listed can be read: Delete and Reconcile hide a row before they
\* remove its bytes, an upload commits it after they are installed, and a
\* blob whose row is ready belongs to no upload that could take them back.
\* The exception is the second phase of Reconcile, which ignores that it could
\* not hide the row of a blob that did not open.
THEOREM ListedIsReadable == Spec => []ReadyHasBytes
<1>1. LossInv => ReadyHasBytes
  BY DEF LossInv, SafeInv, HiddenOrListed, Kept, ReadyHasBytes
<1> QED BY <1>1, LossAlways, PTL

\* No failed request, crash, restart or purge takes an acknowledged blob away
\* that no reconciliation had selected before or failed to open: the pages of
\* Reconcile may be stale, but the second and third phase remove only finished
\* uploads that did not open, and an undamaged one that is still wanted opens
\* unless Open itself fails.
THEOREM AcknowledgedKept == Spec => []LostOnlyIfSelected
<1>1. LossInv => LostOnlyIfSelected
  BY DEF LossInv, Kept, Listed, Opens, LostOnlyIfSelected
<1> QED BY <1>1, LossAlways, PTL

-----------------------------------------------------------------------------
(***************************************************************************)
(* Startup.                                                                *)
(***************************************************************************)

\* The blob a reconciliation is opening or removing.
Target(r) == IF rec[r].pc \in Aside THEN {rec[r].b} ELSE {}

\* What the phases behind a reconciliation have achieved when nothing else runs.
Swept(r) ==
    /\ temp = {}
    /\ \A b \in Ids : /\ row[b] # "staging"
                      /\ row[b] = "deleting" => b \in Target(r)
    /\ \A b \in Ids \ Target(r) :
          /\ file[b] # "none" => Opens(b) \/ (Phase(r) = "objects" /\ b \in rec[r].todo)
          /\ row[b] # "none" => Opens(b) \/ Phase(r) = "objects" \/ b \in rec[r].todo
    /\ rec[r].pc = "row" => file[rec[r].b] = "none"

\* Before requests are accepted one reconciliation runs alone.
Startup ==
    ~serving =>
        /\ \A b \in Ids : ~Busy(b) /\ del[b] = "idle"
        /\ purge = None
        /\ \A r, q \in Cleaners : rec[r].pc # "idle" /\ rec[q].pc # "idle" => r = q
        /\ \A r \in Cleaners : rec[r].pc # "idle" /\ Phase(r) # "rows" => Swept(r)

\* During startup only the reconciliation moves.
LEMMA StartupActs ==
    ASSUME SafeInv, Startup, [Next]_vars, ~serving, ~serving'
    PROVE  \/ Crash
           \/ UNCHANGED vars
           \/ \E r \in Cleaners :
                \/ StartReconcile(r) \/ RecFails(r)
                \/ SelectRows(r) \/ ObjectsDone(r)
                \/ RecLock(r) \/ RecMark(r) \/ RecBytes(r) \/ RecRow(r)
                \/ OpenBlob(r) \/ OpenErrs(r) \/ MarkErrs(r)
                \/ \E b \in Ids : NextRow(r, b) \/ NextObject(r, b) \/ NextReady(r, b)
<1>1. ~\E b \in Ids :
         \/ UploadBegin(b) \/ InsertStaging(b) \/ PutStaging(b)
         \/ PutRename(b) \/ PutFails(b) \/ CommitReady(b)
         \/ CommitFails(b) \/ UndoPut(b) \/ UndoCommit(b)
  BY DEF Startup, Busy, UploadBegin, InsertStaging, PutStaging, PutRename, PutFails,
     CommitReady, CommitFails, UndoPut, UndoCommit, ForgetRow, DiscardBytes
<1>2. ~\E b \in Ids :
         \/ DeleteBegin(b) \/ DeleteMark(b) \/ DeleteBytes(b)
         \/ DeleteRow(b) \/ DeleteFails(b) \/ Damage(b)
  BY DEF Startup, DeleteBegin, DeleteMark, DeleteBytes, DeleteRow, DeleteFails, Damage
<1>3. ~\E r \in Cleaners :
         RecReturns(r) \/ RemoveNamespace(r) \/ PurgeOther(r) \/ DeleteApp(r)
  BY NamesAreDistinct DEF Startup, RecReturns, RemoveNamespace, PurgeOther, DeleteApp
<1>4. ~DeleteRows /\ ~SetAppStatus
  BY NamesAreDistinct DEF Startup, DeleteRows, SetAppStatus
<1> QED BY <1>1, <1>2, <1>3, <1>4, NextCases

\* The step of the reconciliation that runs alone.
LEMMA SweptStep ==
    ASSUME SafeInv, SafeInv', Startup, ~serving, NEW r \in Cleaners,
           \/ SelectRows(r) \/ ObjectsDone(r)
           \/ RecLock(r) \/ RecMark(r) \/ RecBytes(r) \/ RecRow(r)
           \/ OpenBlob(r) \/ OpenErrs(r) \/ MarkErrs(r)
           \/ \E b \in Ids : NextRow(r, b) \/ NextObject(r, b) \/ NextReady(r, b),
           Phase(r)' # "rows"
    PROVE  Swept(r)'
<1> USE DEF SafeInv, TypeInv, TypeOK, RecLeaves, fileVars
<1>0. rec[r].pc # "idle" /\ (Phase(r) # "rows" => Swept(r))
  BY DEF Startup, SelectRows, ObjectsDone, RecLock, RecMark, RecBytes, RecRow,
         OpenBlob, OpenErrs, MarkErrs,
         NextRow, NextObject, NextReady
<1>1. CASE SelectRows(r)
  <2>1. Leftover = {} /\ temp' = {} /\ UNCHANGED <<row, file>>
        /\ rec'[r].pc = "objects" /\ rec'[r].todo = {b \in Ids : file[b] # "none"}
    BY <1>1 DEF SelectRows, RecTo, Phase
  <2> QED BY <2>1 DEF Swept, Target, Phase, Aside, Leftover
<1>2. CASE ObjectsDone(r)
  <2>1. /\ rec'[r].pc = "ready" /\ rec'[r].todo = Ready /\ UNCHANGED <<row, file, temp>>
        /\ rec[r].pc = "objects" /\ rec[r].todo = {}
    BY <1>2 DEF ObjectsDone, RecTo
  <2>2. Target(r) = {} /\ Phase(r) = "objects" /\ Target(r)' = {} /\ Phase(r)' = "ready"
    BY <2>1 DEF Target, Phase, Aside
  <2> QED BY <1>0, <2>1, <2>2 DEF Swept, Ready, Opens
<1>3. CASE RecLock(r)
  <2>1. /\ rec'[r].pc = "mark" /\ rec[r].pc = "lock" /\ rec'[r].todo = rec[r].todo
        /\ rec'[r].b = rec[r].b /\ rec'[r].phase = rec[r].phase
        /\ UNCHANGED <<row, file, temp>>
    BY <1>3 DEF RecLock
  <2>2. Target(r)' = Target(r) /\ Phase(r)' = Phase(r)
    BY <2>1 DEF Target, Phase, Aside
  <2> QED BY <1>0, <2>1, <2>2 DEF Swept, Opens
<1>4. CASE RecMark(r)
  <2>1. /\ rec'[r].pc = "bytes" /\ rec[r].pc = "mark" /\ rec'[r].todo = rec[r].todo
        /\ rec'[r].b = rec[r].b /\ rec'[r].phase = rec[r].phase
        /\ UNCHANGED <<file, temp>>
    BY <1>4 DEF RecMark
  <2>2. Target(r)' = Target(r) /\ Phase(r)' = Phase(r) /\ Target(r) = {rec[r].b}
    BY <2>1 DEF Target, Phase, Aside
  <2>3. /\ \A b \in Ids : b # rec[r].b => row'[b] = row[b]
        /\ rec[r].b \in Ids
        /\ row'[rec[r].b] \in {row[rec[r].b], "deleting"}
    BY <1>4, <2>1 DEF RecMark, Hidden, RemovalsHaveTargets
  <2> QED BY <1>0, <2>1, <2>2, <2>3 DEF Swept, Opens
<1>5. CASE RecBytes(r)
  <2>1. /\ rec'[r].pc = "row" /\ rec[r].pc = "bytes" /\ rec'[r].todo = rec[r].todo
        /\ rec'[r].b = rec[r].b /\ rec'[r].phase = rec[r].phase
        /\ UNCHANGED <<row, temp>>
        /\ file' = [file EXCEPT ![rec[r].b] = "none"]
        /\ rec[r].b \in Ids
    BY <1>5 DEF RecBytes, RemovalsHaveTargets
  <2>2. Target(r)' = Target(r) /\ Phase(r)' = Phase(r) /\ Target(r) = {rec[r].b}
    BY <2>1 DEF Target, Phase, Aside
  <2> QED BY <1>0, <2>1, <2>2 DEF Swept, Opens
<1>6. CASE RecRow(r)
  <2> DEFINE t == rec[r].b
  <2>1. /\ rec'[r].pc = rec[r].phase /\ rec[r].pc = "row" /\ rec'[r].todo = rec[r].todo
        /\ UNCHANGED <<file, temp>>
        /\ t \in Ids /\ (row[t] # "ready" \/ rec[r].phase = "objects")
        /\ rec[r].phase \in {"rows", "objects", "ready"}
    BY <1>6 DEF RecRow, RecResumes, RemovalsHaveTargets, HiddenFirst
  <2>2. Target(r)' = {} /\ Phase(r)' = Phase(r) /\ Target(r) = {t} /\ Phase(r) = rec[r].phase
    BY <2>1 DEF Target, Phase, Aside
  <2>3. /\ \A b \in Ids : b # t => row'[b] = row[b]
        /\ row'[t] = IF row[t] = "deleting" THEN "none" ELSE row[t]
    BY <1>6, <2>1 DEF RecRow
  <2>4. file[t] = "none" /\ row'[t] \in {"none", "ready"}
    BY <1>0, <2>1, <2>2, <2>3 DEF Swept
  <2>5. row'[t] = "ready" => Phase(r)' = "objects"
    BY <2>1, <2>2, <2>3
  <2> QED BY <1>0, <2>1, <2>2, <2>3, <2>4, <2>5 DEF Swept, Opens
<1>7. ASSUME NEW b \in Ids, NextRow(r, b) PROVE FALSE
  <2>1. rec'[r].pc = "lock" /\ rec'[r].phase = "rows"
    BY <1>7 DEF NextRow, Turn
  <2> QED BY <2>1 DEF Phase, Aside
<1>8. ASSUME NEW b \in Ids, NextObject(r, b) PROVE Swept(r)'
  <2>0. rec[r].pc = "objects" /\ Target(r) = {} /\ Phase(r) = "objects"
    BY <1>8 DEF NextObject, Target, Phase, Aside
  <2>1. CASE row[b] = "ready"
    <3>1. /\ rec'[r].pc = "open" /\ rec'[r].phase = "objects" /\ rec'[r].b = b
          /\ rec'[r].todo = rec[r].todo \ {b} /\ UNCHANGED <<row, file, temp>>
      BY <1>8, <2>1 DEF NextObject, Turn
    <3>2. Target(r)' = {b} /\ Phase(r)' = "objects"
      BY <3>1 DEF Target, Phase, Aside
    <3> QED BY <1>0, <2>0, <3>1, <3>2 DEF Swept, Opens
  <2>2. CASE row[b] # "ready"
    <3>1. /\ rec'[r].pc = "objects"
          /\ rec'[r].todo = rec[r].todo \ {b} /\ UNCHANGED <<row, temp>>
          /\ \A c \in Ids : c # b => file'[c] = file[c]
          /\ file'[b] = IF row[b] = "none" THEN "none" ELSE file[b]
      BY <1>8, <2>2 DEF NextObject, RecTo
    <3>2. Target(r)' = {} /\ Phase(r)' = "objects"
      BY <3>1 DEF Target, Phase, Aside
    <3> QED BY <1>0, <2>0, <2>2, <3>1, <3>2 DEF Swept, Opens
  <2> QED BY <2>1, <2>2
<1>9. ASSUME NEW b \in Ids, NextReady(r, b) PROVE Swept(r)'
  <2>1. rec[r].pc = "ready" /\ Target(r) = {} /\ Phase(r) = "ready"
    BY <1>9 DEF NextReady, Target, Phase, Aside
  <2>2. /\ rec'[r].pc = "open" /\ rec'[r].phase = "ready" /\ rec'[r].b = b
        /\ rec'[r].todo = rec[r].todo \ {b} /\ UNCHANGED <<row, file, temp>>
    BY <1>9, <2>1 DEF NextReady, Turn
  <2>3. Target(r)' = {b} /\ Phase(r)' = "ready"
    BY <2>2 DEF Target, Phase, Aside
  <2> QED BY <1>0, <2>1, <2>2, <2>3 DEF Swept, Opens
<1>10. CASE OpenBlob(r) \/ OpenErrs(r)
  <2> DEFINE t == rec[r].b
  <2>1. /\ rec[r].pc = "open" /\ rec'[r].todo = rec[r].todo
        /\ UNCHANGED <<row, file, temp>> /\ t \in Ids
        /\ rec'[r].phase = rec[r].phase /\ rec[r].phase \in {"rows", "objects", "ready"}
    BY <1>10 DEF OpenBlob, OpenErrs, RecResumes, RemovalsHaveTargets
  <2>2. Target(r) = {t} /\ Phase(r) = rec[r].phase
    BY <2>1 DEF Target, Phase, Aside
  <2>3. CASE rec'[r].pc = "lock" /\ rec'[r].b = t
    <3>1. Target(r)' = {t} /\ Phase(r)' = Phase(r)
      BY <2>1, <2>2, <2>3 DEF Target, Phase, Aside
    <3> QED BY <1>0, <2>1, <2>2, <2>3, <3>1 DEF Swept, Opens
  <2>4. CASE rec'[r].pc = rec[r].phase /\ Opens(t)
    <3>1. Target(r)' = {} /\ Phase(r)' = Phase(r)
      BY <2>1, <2>2, <2>4 DEF Target, Phase, Aside
    <3> QED BY <1>0, <2>1, <2>2, <2>4, <3>1 DEF Swept, Opens
  <2> QED BY <1>10, <2>3, <2>4 DEF OpenBlob, OpenErrs, RecResumes
<1>11. CASE MarkErrs(r)
  <2>1. /\ rec'[r].pc = "bytes" /\ rec[r].pc = "mark" /\ rec'[r].todo = rec[r].todo
        /\ rec'[r].b = rec[r].b /\ rec'[r].phase = rec[r].phase
        /\ UNCHANGED <<row, file, temp>>
    BY <1>11 DEF MarkErrs
  <2>2. Target(r)' = Target(r) /\ Phase(r)' = Phase(r)
    BY <2>1 DEF Target, Phase, Aside
  <2> QED BY <1>0, <2>1, <2>2 DEF Swept, Opens
<1> QED BY <1>1, <1>2, <1>3, <1>4, <1>5, <1>6, <1>7, <1>8, <1>9, <1>10, <1>11

LEMMA StartupStep ==
    ASSUME SafeInv, SafeInv', Startup, [Next]_vars
    PROVE  Startup'
<1> SUFFICES ASSUME ~serving' PROVE Startup'
  BY DEF Startup
<1>1. CASE Crash
  BY <1>1 DEF Crash, Startup, Busy, IdleRec
<1>2. CASE UNCHANGED vars
  BY <1>2 DEF Startup, Swept, Target, Phase, Aside, Opens, Busy, vars, rowVars, fileVars
<1>3. CASE serving /\ ~Crash /\ ~UNCHANGED vars
  <2>1. serving' = TRUE
    BY <1>3, NextCases DEF UploadBegin, InsertStaging, PutStaging, PutRename, PutFails,
     CommitReady, CommitFails, UndoPut, UndoCommit, ForgetRow, DiscardBytes, UploadLeaves,
     DeleteBegin, DeleteMark, DeleteBytes, DeleteRow, DeleteFails, Damage,
     SelectRows, ObjectsDone, RecLock, RecMark, RecBytes, RecRow, RecReturns,
     RemoveNamespace, RecFails, StartReconcile, PurgeOther, DeleteApp, OpenBlob, OpenErrs, MarkErrs,
         NextRow, NextObject, NextReady, RecLeaves, DeleteRows, SetAppStatus, rowVars,
     SafeInv, TypeInv, TypeOK
  <2> QED BY <2>1
<1>4. ASSUME ~serving, NEW r \in Cleaners, StartReconcile(r) \/ RecFails(r)
      PROVE  Startup'
  <2>1. UNCHANGED <<up, del>> /\ purge' \in {purge, None}
    BY <1>4 DEF StartReconcile, RecFails, rowVars
  <2>2. \A q \in Cleaners : q # r => rec'[q] = rec[q] /\ rec[q].pc = "idle"
    BY <1>4 DEF StartReconcile, RecFails, Begin, IdleRec, Startup, SafeInv, TypeInv, TypeOK
  <2>3. rec'[r].pc \in {"idle", "rows"}
    BY <1>4 DEF StartReconcile, RecFails, Begin, IdleRec, SafeInv, TypeInv, TypeOK
  <2> QED BY <1>4, <2>1, <2>2, <2>3 DEF Startup, Busy, Phase, Aside
<1>5. ASSUME ~serving, NEW r \in Cleaners,
             \/ SelectRows(r) \/ ObjectsDone(r)
             \/ RecLock(r) \/ RecMark(r) \/ RecBytes(r) \/ RecRow(r)
             \/ OpenBlob(r) \/ OpenErrs(r) \/ MarkErrs(r)
             \/ \E b \in Ids : NextRow(r, b) \/ NextObject(r, b) \/ NextReady(r, b)
      PROVE  Startup'
  <2>1. UNCHANGED <<up, del, purge>> /\ rec[r].pc # "idle"
    BY <1>5 DEF SelectRows, ObjectsDone, RecLock, RecMark, RecBytes, RecRow,
                OpenBlob, OpenErrs, MarkErrs,
         NextRow, NextObject, NextReady, RecLeaves, rowVars
  <2>2. \A q \in Cleaners : q # r => rec'[q] = rec[q] /\ rec[q].pc = "idle"
    BY <1>5, <2>1 DEF SelectRows, ObjectsDone, RecLock, RecMark, RecBytes, RecRow,
                OpenBlob, OpenErrs, MarkErrs,
         NextRow, NextObject, NextReady, Turn, RecTo, RecResumes, Startup,
                SafeInv, TypeInv, TypeOK
  <2>3. Phase(r)' # "rows" => Swept(r)'
    BY <1>5, SweptStep
  <2> QED BY <1>5, <2>1, <2>2, <2>3 DEF Startup, Busy
<1> QED BY <1>1, <1>2, <1>3, <1>4, <1>5, StartupActs

\* Catalog and directory agree after a restart: the phases of the
\* reconciliation, which runs alone, leave exactly the blobs that open.
THEOREM RestartClean == Spec => RestartIsClean
<1>1. Init => Startup
  BY DEF Init, Startup
<1>2. SafeInv /\ SafeInv' /\ Startup /\ [Next]_vars => Startup'
  BY StartupStep
<1>3. SafeInv /\ Startup /\ [Next]_vars =>
        [~serving /\ serving' =>
           /\ temp = {}
           /\ \A b \in Ids : IF file[b] = "none" THEN row[b] = "none" ELSE Opens(b)]_vars
  <2> SUFFICES ASSUME SafeInv, Startup, [Next]_vars, ~serving, serving'
               PROVE  /\ temp = {}
                      /\ \A b \in Ids : IF file[b] = "none" THEN row[b] = "none" ELSE Opens(b)
    OBVIOUS
  <2>1. PICK r \in Cleaners : RecReturns(r)
    <3>1. ~\E b \in Ids :
             \/ UploadBegin(b) \/ InsertStaging(b) \/ PutStaging(b)
             \/ PutRename(b) \/ PutFails(b) \/ CommitReady(b)
             \/ CommitFails(b) \/ UndoPut(b) \/ UndoCommit(b)
      BY DEF UploadBegin, InsertStaging, PutStaging, PutRename, PutFails, CommitReady,
         CommitFails, UndoPut, UndoCommit, ForgetRow, DiscardBytes, UploadLeaves, rowVars
    <3>2. ~\E b \in Ids :
             \/ DeleteBegin(b) \/ DeleteMark(b) \/ DeleteBytes(b)
             \/ DeleteRow(b) \/ DeleteFails(b) \/ Damage(b)
      BY DEF DeleteBegin, DeleteMark, DeleteBytes, DeleteRow, DeleteFails, Damage, rowVars
    <3>3. ~\E r \in Cleaners :
             \/ SelectRows(r) \/ ObjectsDone(r) \/ RecLock(r) \/ RecMark(r)
             \/ RecBytes(r) \/ RecRow(r) \/ RemoveNamespace(r) \/ RecFails(r)
             \/ StartReconcile(r) \/ PurgeOther(r) \/ DeleteApp(r)
             \/ OpenBlob(r) \/ OpenErrs(r) \/ MarkErrs(r)
             \/ \E b \in Ids : NextRow(r, b) \/ NextObject(r, b) \/ NextReady(r, b)
      BY DEF SelectRows, ObjectsDone, RecLock, RecMark, RecBytes, RecRow,
         RemoveNamespace, RecFails, StartReconcile, PurgeOther, DeleteApp, OpenBlob, OpenErrs, MarkErrs,
         NextRow, NextObject, NextReady, RecLeaves, rowVars
    <3>4. ~DeleteRows /\ ~SetAppStatus /\ ~Crash /\ ~UNCHANGED vars
      BY DEF DeleteRows, SetAppStatus, Crash, vars, rowVars
    <3> QED BY <3>1, <3>2, <3>3, <3>4, NextCases
  <2>2. rec[r].pc = "ready" /\ rec[r].todo = {}
    BY <2>1 DEF RecReturns, RecFinished
  <2>3. Swept(r) /\ Phase(r) = "ready" /\ Target(r) = {}
    BY <2>2 DEF Startup, Phase, Aside, Target
  <2> QED BY <2>2, <2>3 DEF Swept, Opens
<1> QED BY <1>1, <1>2, <1>3, SafeAlways, PTL DEF Spec, RestartIsClean
=============================================================================
