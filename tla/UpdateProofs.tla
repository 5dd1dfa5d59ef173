----------------------------- MODULE UpdateProofs -----------------------------
(***************************************************************************)
(* Proofs about Update.  The lock makes the commands that touch the files  *)
(* run one after the other; what has to be carried along is which binary   *)
(* each step of a command may find on disk, and that a copy, as long as    *)
(* none was taken of an unproven binary, is a copy of a proven one.        *)
(***************************************************************************)
EXTENDS Update, TLAPS

\* The actions of Next, one by one.
LEMMA NextCases ==
    ASSUME Next
    PROVE  \/ \E p \in Procs :
                \/ \E v \in Versions : runUpdate(p, v)
                \/ runRollback(p)
                \/ \E channel \in Channels : updatesEnable(p, channel)
                \/ updatesDisable(p) \/ updatesRun(p)
                \/ Snapshot(p) \/ Apply(p) \/ updateServiceRestart(p)
                \/ CheckPasses(p) \/ CheckFails(p)
                \/ Restore(p) \/ RestartRestored(p) \/ Clear(p)
                \/ CommitUpdate(p) \/ CommitFails(p)
                \/ writeSchedule(p) \/ runDiscoveredUpdate(p) \/ recordInstalled(p)
                \/ Killed(p)
           \/ ServiceStarts
BY DEF Next, Step

-----------------------------------------------------------------------------
(***************************************************************************)
(* Type correctness.                                                       *)
(***************************************************************************)

Kinds == {None, "update", "scheduled", "rollback", "enable", "disable"}

Command == [pc : PCs, kind : Kinds, v : Versions \cup {None}, gate : 1..4,
            undo : BOOLEAN, saved : updateScheduleState \cup {None}]

\* The steps that handle the candidate of an update.
CandidatePCs == {"discovered", "snapshot", "apply", "restart", "commit", "record"}

\* A command that handles a candidate knows it, and one that will write
\* schedule.json has read or built the state it will write.
CommandWellFormed(p) ==
    /\ cmd[p].pc \in CandidatePCs \/ (cmd[p].pc = "check" /\ cmd[p].kind # "rollback")
         => cmd[p].v \in Versions /\ cmd[p].kind \in {"update", "scheduled"}
    /\ cmd[p].pc \in {"discovered", "record"} => cmd[p].kind = "scheduled"
    /\ cmd[p].kind = "scheduled" /\ cmd[p].pc # "idle"
         => cmd[p].saved \in updateScheduleState /\ cmd[p].saved.enabled
    /\ cmd[p].pc = "schedule" => cmd[p].saved \in updateScheduleState
    /\ cmd[p].pc = "idle" => cmd[p] = Idle

TypeInv == TypeOK /\ \A p \in Procs : CommandWellFormed(p)

LEMMA EndTypes ==
    ASSUME TypeInv, NEW p \in Procs, End(p)
    PROVE  /\ cmd' \in [Procs -> Command]
           /\ lock' \in Procs \cup {None}
           /\ \A q \in Procs : CommandWellFormed(q)'
<1>1. Idle \in Command
  BY DEF Idle, Command, Kinds, PCs
<1>2. cmd \in [Procs -> Command]
  BY DEF TypeInv, TypeOK, Command, Kinds
<1>3. cmd' = [cmd EXCEPT ![p] = Idle] /\ lock' \in Procs \cup {None}
  BY DEF End, TypeInv, TypeOK
<1>4. ASSUME NEW q \in Procs
      PROVE  CommandWellFormed(q)'
  <2>1. CASE q = p
    <3>1. cmd'[q] = Idle
      BY <1>2, <1>3, <2>1
    <3>2. Idle.pc = "idle"
      BY DEF Idle
    <3> QED BY <3>1, <3>2 DEF CommandWellFormed, CandidatePCs
  <2>2. CASE q # p
    BY <1>2, <1>3, <2>2 DEF CommandWellFormed, TypeInv
  <2> QED BY <2>1, <2>2
<1> QED BY <1>1, <1>2, <1>3, <1>4

\* A command that moves on to pc keeps the rest of its fields.
LEMMA ToTypes ==
    ASSUME TypeInv, NEW p \in Procs, NEW pc \in PCs, To(p, pc),
           cmd[p].pc \notin {"idle", "schedule"},
           pc \notin {"idle", "schedule", "discovered"},
           pc \in CandidatePCs \/ (pc = "check" /\ cmd[p].kind # "rollback")
             => cmd[p].v \in Versions /\ cmd[p].kind \in {"update", "scheduled"},
           pc = "record" => cmd[p].kind = "scheduled"
    PROVE  /\ cmd' \in [Procs -> Command]
           /\ \A q \in Procs : CommandWellFormed(q)'
<1>1. cmd \in [Procs -> Command]
  BY DEF TypeInv, TypeOK, Command, Kinds
<1>2. cmd' = [cmd EXCEPT ![p].pc = pc]
  BY DEF To
<1>3. cmd' \in [Procs -> Command]
  BY <1>1, <1>2 DEF Command
<1>4. /\ cmd'[p].pc = pc /\ cmd'[p].kind = cmd[p].kind
      /\ cmd'[p].v = cmd[p].v /\ cmd'[p].saved = cmd[p].saved
  BY <1>1, <1>2 DEF Command
<1>5. CommandWellFormed(p)'
  BY <1>4 DEF CommandWellFormed, TypeInv
<1>6. ASSUME NEW q \in Procs, q # p
      PROVE  CommandWellFormed(q)'
  <2>1. cmd'[q] = cmd[q]
    BY <1>1, <1>2, <1>6
  <2> QED BY <2>1 DEF CommandWellFormed, TypeInv
<1> QED BY <1>3, <1>5, <1>6

\* A command that is replaced by another record, well formed by itself.
LEMMA NewTypes ==
    ASSUME TypeInv, NEW p \in Procs, NEW r \in Command, cmd' = [cmd EXCEPT ![p] = r],
           r.pc # "idle",
           r.pc \in CandidatePCs \/ (r.pc = "check" /\ r.kind # "rollback")
             => r.v \in Versions /\ r.kind \in {"update", "scheduled"},
           r.pc \in {"discovered", "record"} => r.kind = "scheduled",
           r.kind = "scheduled" => r.saved \in updateScheduleState /\ r.saved.enabled,
           r.pc = "schedule" => r.saved \in updateScheduleState
    PROVE  /\ cmd' \in [Procs -> Command]
           /\ \A q \in Procs : CommandWellFormed(q)'
<1>1. cmd \in [Procs -> Command]
  BY DEF TypeInv, TypeOK, Command, Kinds
<1>2. cmd' \in [Procs -> Command] /\ cmd'[p] = r
  BY <1>1
<1>3. CommandWellFormed(p)'
  BY <1>2 DEF CommandWellFormed
<1>4. ASSUME NEW q \in Procs, q # p
      PROVE  CommandWellFormed(q)'
  <2>1. cmd'[q] = cmd[q]
    BY <1>1, <1>4
  <2> QED BY <2>1 DEF CommandWellFormed, TypeInv
<1> QED BY <1>2, <1>3, <1>4

LEMMA TypeInit == Init => TypeInv
<1> SUFFICES ASSUME Init PROVE TypeInv
  OBVIOUS
<1>1. Idle \in Command /\ Idle.pc = "idle"
  BY DEF Idle, Command, Kinds, PCs
<1>2. cmd = [p \in Procs |-> Idle]
  BY DEF Init
<1>3. cmd \in [Procs -> Command] /\ \A p \in Procs : cmd[p] = Idle
  BY <1>1, <1>2
<1>4. \A p \in Procs : CommandWellFormed(p)
  BY <1>1, <1>3 DEF CommandWellFormed, CandidatePCs
<1>5. sched \in updateScheduleState
  BY DEF Init, updateScheduleState
<1>6. /\ file \in Versions /\ prev \in Versions \cup {None} /\ run \in Versions \cup {None}
      /\ apps \in BOOLEAN /\ lock \in Procs \cup {None} /\ timer \in BOOLEAN
      /\ proven \subseteq Versions /\ overwritten \in BOOLEAN
  BY VersionsType DEF Init
<1>7. faults \in 0..Faults
  BY FaultsType DEF Init
<1> QED BY <1>3, <1>4, <1>5, <1>6, <1>7 DEF TypeInv, TypeOK, Command, Kinds

\* What a step establishes when it leaves the files, the service and the
\* schedule well typed.
LEMMA TypeParts ==
    ASSUME file' \in Versions, prev' \in Versions \cup {None}, run' \in Versions \cup {None},
           apps' \in BOOLEAN, lock' \in Procs \cup {None}, cmd' \in [Procs -> Command],
           sched' \in updateScheduleState, timer' \in BOOLEAN, proven' \subseteq Versions,
           overwritten' \in BOOLEAN, faults' \in 0..Faults,
           \A q \in Procs : CommandWellFormed(q)'
    PROVE  TypeInv'
BY DEF TypeInv, TypeOK, Command, Kinds

LEMMA TypeBegin ==
    ASSUME TypeInv, NEW p \in Procs,
           \/ \E v \in Versions : runUpdate(p, v)
           \/ runRollback(p)
           \/ \E channel \in Channels : updatesEnable(p, channel)
           \/ updatesDisable(p) \/ updatesRun(p) \/ runDiscoveredUpdate(p)
    PROVE  TypeInv'
<1> USE DEF disk, plan
<1>0. cmd[p] \in Command /\ CommandWellFormed(p) /\ Idle \in Command
  BY DEF TypeInv, TypeOK, Command, Kinds, Idle, PCs
<1>1. /\ file \in Versions /\ prev \in Versions \cup {None} /\ run \in Versions \cup {None}
      /\ apps \in BOOLEAN /\ lock \in Procs \cup {None} /\ sched \in updateScheduleState
      /\ timer \in BOOLEAN /\ proven \subseteq Versions /\ overwritten \in BOOLEAN
      /\ faults \in 0..Faults
  BY DEF TypeInv, TypeOK
<1>2. ASSUME NEW v \in Versions, runUpdate(p, v)
      PROVE  TypeInv'
  <2> DEFINE r == [cmd[p] EXCEPT !.pc = "snapshot", !.kind = "update", !.v = v]
  <2>1. r \in Command /\ r.pc = "snapshot" /\ r.kind = "update" /\ r.v = v
    BY <1>0 DEF Command, Kinds, PCs
  <2>2. cmd' = [cmd EXCEPT ![p] = r] /\ lock' = p
    BY <1>2 DEF runUpdate, Begin, acquireUpdateLock
  <2> HIDE DEF r
  <2>3. cmd' \in [Procs -> Command] /\ \A q \in Procs : CommandWellFormed(q)'
    BY <2>1, <2>2, NewTypes DEF CandidatePCs
  <2> QED BY <1>1, <1>2, <2>2, <2>3, TypeParts DEF runUpdate
<1>3. CASE runRollback(p)
  <2> DEFINE r == [Idle EXCEPT !.pc = "restore", !.kind = "rollback"]
  <2>1. r \in Command /\ r.pc = "restore" /\ r.kind = "rollback"
    BY <1>0 DEF Idle, Command, Kinds, PCs
  <2>2. cmd' = [cmd EXCEPT ![p] = r] /\ lock' = p
    BY <1>3 DEF runRollback, acquireUpdateLock
  <2> HIDE DEF r
  <2>3. cmd' \in [Procs -> Command] /\ \A q \in Procs : CommandWellFormed(q)'
    BY <2>1, <2>2, NewTypes DEF CandidatePCs
  <2> QED BY <1>1, <1>3, <2>2, <2>3, TypeParts DEF runRollback
<1>4. ASSUME NEW channel \in Channels, updatesEnable(p, channel)
      PROVE  TypeInv'
  <2> DEFINE s == [enabled |-> TRUE, channel |-> channel, installed |-> None]
             r == [Idle EXCEPT !.pc = "schedule", !.kind = "enable", !.saved = s]
  <2>1. s \in updateScheduleState
    BY DEF updateScheduleState
  <2>2. cmd' = [cmd EXCEPT ![p] = r] /\ timer' = TRUE
    BY <1>4 DEF updatesEnable
  <2> HIDE DEF s
  <2>3. r \in Command /\ r.pc = "schedule" /\ r.kind = "enable" /\ r.saved = s
    BY <1>0, <2>1 DEF Idle, Command, Kinds, PCs
  <2> HIDE DEF r
  <2>4. cmd' \in [Procs -> Command] /\ \A q \in Procs : CommandWellFormed(q)'
    BY <2>1, <2>2, <2>3, NewTypes DEF CandidatePCs
  <2> QED BY <1>1, <1>4, <2>2, <2>4, TypeParts DEF updatesEnable
<1>5. CASE updatesDisable(p)
  <2> DEFINE s == [enabled |-> FALSE, channel |-> None, installed |-> None]
             r == [Idle EXCEPT !.pc = "schedule", !.kind = "disable", !.saved = s]
  <2>1. s \in updateScheduleState
    BY DEF updateScheduleState
  <2>2. cmd' = [cmd EXCEPT ![p] = r] /\ timer' = FALSE
    BY <1>5 DEF updatesDisable
  <2> HIDE DEF s
  <2>3. r \in Command /\ r.pc = "schedule" /\ r.kind = "disable" /\ r.saved = s
    BY <1>0, <2>1 DEF Idle, Command, Kinds, PCs
  <2> HIDE DEF r
  <2>4. cmd' \in [Procs -> Command] /\ \A q \in Procs : CommandWellFormed(q)'
    BY <2>1, <2>2, <2>3, NewTypes DEF CandidatePCs
  <2> QED BY <1>1, <1>5, <2>2, <2>4, TypeParts DEF updatesDisable
<1>6. CASE updatesRun(p)
  <2>1. PICK v \in Versions :
          cmd' = [cmd EXCEPT ![p] = [Idle EXCEPT !.pc = "discovered", !.kind = "scheduled",
                                                 !.v = v, !.saved = sched]]
    BY <1>6 DEF updatesRun
  <2> DEFINE r == [Idle EXCEPT !.pc = "discovered", !.kind = "scheduled", !.v = v, !.saved = sched]
  <2>2. /\ r \in Command /\ r.pc = "discovered" /\ r.kind = "scheduled" /\ r.v = v
        /\ r.saved = sched
    BY <1>0, <1>1 DEF Idle, Command, Kinds, PCs
  <2>3. sched.enabled /\ cmd' = [cmd EXCEPT ![p] = r]
    BY <1>6, <2>1 DEF updatesRun
  <2> HIDE DEF r
  <2>4. cmd' \in [Procs -> Command] /\ \A q \in Procs : CommandWellFormed(q)'
    BY <1>1, <2>2, <2>3, NewTypes DEF CandidatePCs
  <2> QED BY <1>1, <1>6, <2>4, TypeParts DEF updatesRun
<1>7. CASE runDiscoveredUpdate(p)
  <2>1. CASE Begin(p, "scheduled", cmd[p].v)
    <3> DEFINE r == [cmd[p] EXCEPT !.pc = "snapshot", !.kind = "scheduled", !.v = cmd[p].v]
    <3>0. cmd[p].pc = "discovered" /\ cmd[p].v \in Versions /\ cmd[p].kind = "scheduled"
      BY <1>0, <1>7 DEF runDiscoveredUpdate, CommandWellFormed, CandidatePCs
    <3>1. /\ r \in Command /\ r.pc = "snapshot" /\ r.kind = "scheduled" /\ r.v \in Versions
          /\ r.saved = cmd[p].saved
      BY <1>0, <3>0 DEF Command, Kinds, PCs
    <3>2. cmd' = [cmd EXCEPT ![p] = r] /\ lock' = p
      BY <2>1 DEF Begin, acquireUpdateLock
    <3>3. r.saved \in updateScheduleState /\ r.saved.enabled
      BY <1>0, <3>0, <3>1 DEF CommandWellFormed
    <3> HIDE DEF r
    <3>4. cmd' \in [Procs -> Command] /\ \A q \in Procs : CommandWellFormed(q)'
      BY <3>1, <3>2, <3>3, NewTypes DEF CandidatePCs
    <3> QED BY <1>1, <1>7, <3>2, <3>4, TypeParts DEF runDiscoveredUpdate
  <2>2. CASE End(p)
    BY <1>1, <1>7, <2>2, EndTypes, TypeParts DEF runDiscoveredUpdate
  <2> QED BY <1>7, <2>1, <2>2 DEF runDiscoveredUpdate
<1> QED BY <1>2, <1>3, <1>4, <1>5, <1>6, <1>7

\* The steps of a command under way, and its end.
LEMMA TypeStep ==
    ASSUME TypeInv, NEW p \in Procs,
           \/ Snapshot(p) \/ Apply(p) \/ updateServiceRestart(p)
           \/ CheckPasses(p) \/ CheckFails(p)
           \/ Restore(p) \/ RestartRestored(p) \/ Clear(p)
           \/ CommitUpdate(p) \/ CommitFails(p)
           \/ writeSchedule(p) \/ recordInstalled(p) \/ Killed(p)
    PROVE  TypeInv'
<1> USE DEF disk, plan
<1>0. cmd[p] \in Command /\ CommandWellFormed(p)
  BY DEF TypeInv, TypeOK, Command, Kinds
<1>1. /\ file \in Versions /\ prev \in Versions \cup {None} /\ run \in Versions \cup {None}
      /\ apps \in BOOLEAN /\ lock \in Procs \cup {None} /\ sched \in updateScheduleState
      /\ timer \in BOOLEAN /\ proven \subseteq Versions /\ overwritten \in BOOLEAN
      /\ faults \in 0..Faults
  BY DEF TypeInv, TypeOK
<1>2. NoFault \/ Fault => faults' \in 0..Faults
  BY <1>1, FaultsType DEF NoFault, Fault
<1>3. faults' \in 0..Faults
  BY <1>1, <1>2 DEF Snapshot, Apply, updateServiceRestart, CheckPasses, CheckFails, Restore,
     RestartRestored, Clear, Commit, CommitUpdate, CommitFails, writeSchedule, recordInstalled,
     Killed
<1> DEFINE CmdOK == cmd' \in [Procs -> Command] /\ \A q \in Procs : CommandWellFormed(q)'
<1>4. End(p) => CmdOK /\ lock' \in Procs \cup {None}
  BY EndTypes
<1>5. ASSUME NEW pc \in PCs, To(p, pc), cmd[p].pc \notin {"idle", "schedule"},
             pc \notin {"idle", "schedule", "discovered"},
             pc \in CandidatePCs \/ (pc = "check" /\ cmd[p].kind # "rollback")
               => cmd[p].v \in Versions /\ cmd[p].kind \in {"update", "scheduled"},
             pc = "record" => cmd[p].kind = "scheduled"
      PROVE  CmdOK
  BY <1>5, ToTypes
<1>6. CASE Snapshot(p)
  <2>1. CmdOK /\ lock' \in Procs \cup {None}
    <3>1. To(p, "apply") => CmdOK
      BY <1>0, <1>5, <1>6 DEF Snapshot, CommandWellFormed, CandidatePCs, PCs
    <3> QED BY <1>1, <1>4, <1>6, <3>1 DEF Snapshot
  <2>2. overwritten' \in BOOLEAN
    BY <1>6 DEF Snapshot
  <2> QED BY <1>1, <1>3, <1>6, <2>1, <2>2, TypeParts DEF Snapshot
<1>7. CASE Apply(p)
  <2>1. CmdOK /\ cmd[p].v \in Versions
    <3>1. cmd[p].v \in Versions
      BY <1>0, <1>7 DEF Apply, CommandWellFormed, CandidatePCs
    <3>2. To(p, "restart") => CmdOK
      BY <1>0, <1>5, <1>7 DEF Apply, CommandWellFormed, CandidatePCs, PCs
    <3>3. To(p, "restore") => CmdOK
      BY <1>0, <1>5, <1>7 DEF Apply, CommandWellFormed, CandidatePCs, PCs
    <3> QED BY <1>7, <3>1, <3>2, <3>3 DEF Apply
  <2> QED BY <1>1, <1>3, <1>7, <2>1, TypeParts DEF Apply
<1>8. CASE updateServiceRestart(p)
  <2>1. To(p, "check") => CmdOK
    BY <1>0, <1>5, <1>8 DEF updateServiceRestart, CommandWellFormed, CandidatePCs, PCs
  <2>2. To(p, "restore") => CmdOK
    BY <1>0, <1>5, <1>8 DEF updateServiceRestart, CommandWellFormed, CandidatePCs, PCs
  <2> QED BY <1>1, <1>3, <1>8, <2>1, <2>2, TypeParts DEF updateServiceRestart
<1>9. CASE CheckPasses(p)
  <2>1. CmdOK
    <3>1. CASE cmd[p].gate < Len(Gates)
      <4> DEFINE r == [cmd[p] EXCEPT !.gate = @ + 1]
      <4>1. cmd' = [cmd EXCEPT ![p] = r] /\ Len(Gates) = 4
        BY <1>0, <1>9, <3>1 DEF CheckPasses, Gates
      <4>2. /\ r \in Command /\ r.pc = cmd[p].pc /\ r.kind = cmd[p].kind /\ r.v = cmd[p].v
            /\ r.saved = cmd[p].saved
        BY <1>0, <3>1, <4>1 DEF Command
      <4>3. cmd[p].pc = "check"
        BY <1>9 DEF CheckPasses
      <4> HIDE DEF r
      <4> QED BY <1>0, <4>1, <4>2, <4>3, NewTypes DEF CommandWellFormed, CandidatePCs
    <3>2. CASE ~(cmd[p].gate < Len(Gates))
      <4>1. To(p, "clear") => CmdOK
        BY <1>0, <1>5, <1>9 DEF CheckPasses, CandidatePCs, PCs
      <4>2. cmd[p].kind # "rollback" /\ To(p, "commit") => CmdOK
        BY <1>0, <1>5, <1>9 DEF CheckPasses, CommandWellFormed, CandidatePCs, PCs
      <4> QED BY <1>9, <3>2, <4>1, <4>2 DEF CheckPasses
    <3> QED BY <3>1, <3>2
  <2>2. proven' \subseteq Versions
    BY <1>1, <1>9 DEF CheckPasses
  <2> QED BY <1>1, <1>3, <1>9, <2>1, <2>2, TypeParts DEF CheckPasses
<1>10. CASE CheckFails(p)
  <2>1. To(p, "restore") => CmdOK
    BY <1>0, <1>5, <1>10 DEF CheckFails, CandidatePCs, PCs
  <2> QED BY <1>1, <1>3, <1>4, <1>10, <2>1, TypeParts DEF CheckFails
<1>11. CASE Restore(p)
  <2>1. To(p, "restarted") => CmdOK
    BY <1>0, <1>5, <1>11 DEF Restore, CandidatePCs, PCs
  <2>2. file' \in Versions
    BY <1>1, <1>11 DEF Restore
  <2>3. CmdOK /\ lock' \in Procs \cup {None}
    BY <1>1, <1>4, <1>11, <2>1 DEF Restore
  <2> QED BY <1>1, <1>3, <1>11, <2>2, <2>3, TypeParts DEF Restore
<1>12. CASE RestartRestored(p)
  <2>1. To(p, "clear") => CmdOK
    BY <1>0, <1>5, <1>12 DEF RestartRestored, CandidatePCs, PCs
  <2>2. cmd[p].kind = "rollback" /\ To(p, "check") => CmdOK
    BY <1>0, <1>5, <1>12 DEF RestartRestored, CandidatePCs, PCs
  <2>3. CmdOK /\ lock' \in Procs \cup {None}
    BY <1>1, <1>4, <1>12, <2>1, <2>2 DEF RestartRestored
  <2> QED BY <1>1, <1>3, <1>12, <2>3, TypeParts DEF RestartRestored
<1>13. CASE Clear(p)
  BY <1>1, <1>3, <1>4, <1>13, TypeParts DEF Clear, Commit
<1>14. CASE CommitUpdate(p)
  <2>1. cmd[p].kind = "scheduled" /\ To(p, "record") => CmdOK
    BY <1>0, <1>5, <1>14 DEF CommitUpdate, CommandWellFormed, CandidatePCs, PCs
  <2>2. CmdOK /\ lock' \in Procs \cup {None}
    BY <1>1, <1>4, <1>14, <2>1 DEF CommitUpdate
  <2> QED BY <1>1, <1>3, <1>14, <2>2, TypeParts DEF CommitUpdate
<1>15. CASE CommitFails(p)
  <2> DEFINE r == [cmd[p] EXCEPT !.pc = "restore", !.undo = TRUE]
  <2>1. cmd' = [cmd EXCEPT ![p] = r] /\ cmd[p].pc = "commit"
    BY <1>15 DEF CommitFails
  <2>2. /\ r \in Command /\ r.pc = "restore" /\ r.kind = cmd[p].kind /\ r.saved = cmd[p].saved
    BY <1>0 DEF Command, PCs
  <2> HIDE DEF r
  <2>3. CmdOK
    BY <1>0, <2>1, <2>2, NewTypes DEF CommandWellFormed, CandidatePCs
  <2> QED BY <1>1, <1>3, <1>15, <2>3, TypeParts DEF CommitFails
<1>16. CASE writeSchedule(p)
  <2>1. cmd[p].saved \in updateScheduleState
    BY <1>0, <1>16 DEF writeSchedule, CommandWellFormed
  <2>2. timer' \in BOOLEAN
    BY <1>1, <1>16 DEF writeSchedule
  <2> QED BY <1>1, <1>3, <1>4, <1>16, <2>1, <2>2, TypeParts DEF writeSchedule
<1>17. CASE recordInstalled(p)
  <2>1. /\ cmd[p].saved \in updateScheduleState /\ cmd[p].saved.enabled
        /\ cmd[p].v \in Versions
    BY <1>0, <1>17 DEF recordInstalled, CommandWellFormed, CandidatePCs
  <2>2. [cmd[p].saved EXCEPT !.installed = cmd[p].v] \in updateScheduleState
    BY <2>1 DEF updateScheduleState
  <2> QED BY <1>1, <1>3, <1>4, <1>17, <2>2, TypeParts DEF recordInstalled
<1>18. CASE Killed(p)
  BY <1>1, <1>3, <1>4, <1>18, TypeParts DEF Killed
<1> QED BY <1>6, <1>7, <1>8, <1>9, <1>10, <1>11, <1>12, <1>13, <1>14, <1>15, <1>16, <1>17, <1>18

LEMMA TypeNext == TypeInv /\ [Next]_vars => TypeInv'
<1> SUFFICES ASSUME TypeInv, [Next]_vars PROVE TypeInv'
  OBVIOUS
<1>1. CASE UNCHANGED vars
  BY <1>1 DEF TypeInv, TypeOK, CommandWellFormed, vars, disk, plan
<1>2. CASE ServiceStarts
  <2>1. faults' \in 0..Faults
    BY <1>2, FaultsType DEF ServiceStarts, Fault, TypeInv, TypeOK
  <2> QED BY <1>2, <2>1 DEF ServiceStarts, TypeInv, TypeOK, CommandWellFormed, disk, plan
<1> QED BY <1>1, <1>2, NextCases, TypeBegin, TypeStep

\* Every state is well typed, whatever commands run, fail or are killed
\* (internal/update, cmd/tinkercloud/update_command.go).
THEOREM TypeCorrect == Spec => []TypeOK
<1>1. TypeInv => TypeOK
  BY DEF TypeInv
<1> QED BY <1>1, TypeInit, TypeNext, PTL DEF Spec

-----------------------------------------------------------------------------
(***************************************************************************)
(* The files.                                                              *)
(***************************************************************************)

\* The steps of ApplyAfterRestart and of a rollback, all under the lock.
LockedPCs == {"snapshot", "apply", "restart", "check", "commit",
              "restore", "restarted", "clear"}

\* What each step of command p finds on disk: a copy exists from the snapshot
\* until the commit, the candidate is at the target path while it is judged;
\* outside the recovery after a failed commit (undo) the restarted binary is
\* the copy; and a copy is removed only once the binary has passed every gate
\* or is the copy itself.
Stage(p) ==
    /\ cmd[p].pc \in LockedPCs => lock = p
    /\ cmd[p].undo => cmd[p].pc \in {"restore", "restarted"}
    /\ cmd[p].pc = "apply" => prev # None
    /\ cmd[p].pc \in {"restart", "check", "commit"} /\ cmd[p].kind # "rollback"
         => file = cmd[p].v /\ prev # None
    /\ cmd[p].pc = "restarted" /\ ~cmd[p].undo => prev # None /\ file = prev
    /\ cmd[p].pc = "commit" => file \in proven
    /\ cmd[p].pc = "clear" /\ ~overwritten => file \in proven

\* A copy is a copy of a proven binary, and without one the binary is proven.
ProvenIsSafe ==
    ~overwritten => IF prev = None THEN file \in proven ELSE prev \in proven

FilesInv == TypeInv /\ ProvenIsSafe /\ \A p \in Procs : Stage(p)

LEMMA FilesInit == Init => FilesInv
<1> SUFFICES ASSUME Init PROVE FilesInv
  OBVIOUS
<1>1. TypeInv
  BY TypeInit
<1>2. ProvenIsSafe
  BY DEF Init, ProvenIsSafe
<1>3. ASSUME NEW p \in Procs PROVE Stage(p)
  <2>1. cmd[p] = Idle
    BY DEF Init
  <2>2. cmd[p].pc = "idle" /\ cmd[p].undo = FALSE
    BY <2>1 DEF Idle
  <2> QED BY <2>2 DEF Stage, LockedPCs
<1> QED BY <1>1, <1>2, <1>3 DEF FilesInv

\* A step of p that ends it, moves it on or replaces its record leaves the
\* records of the others alone.
LEMMA OthersKept ==
    ASSUME TypeInv, NEW p \in Procs, NEW r, cmd' = [cmd EXCEPT ![p] = r],
           NEW q \in Procs, q # p
    PROVE  cmd'[q] = cmd[q]
BY DEF TypeInv, TypeOK

\* While p holds the lock the others are at none of the steps that need it.
LEMMA OthersWait ==
    ASSUME FilesInv, NEW p \in Procs, cmd[p].pc \in LockedPCs, NEW q \in Procs, q # p
    PROVE  /\ cmd[q].pc \notin LockedPCs
           /\ ~cmd[q].undo
BY DEF FilesInv, Stage, LockedPCs

\* Whatever a step under the lock does to the files, the other commands do
\* not see it.
LEMMA OthersUndisturbed ==
    ASSUME FilesInv, NEW p \in Procs, cmd[p].pc \in LockedPCs,
           NEW r, cmd' = [cmd EXCEPT ![p] = r], NEW q \in Procs, q # p
    PROVE  Stage(q)'
<1>1. cmd'[q] = cmd[q]
  BY OthersKept DEF FilesInv
<1>2. cmd[q].pc \notin LockedPCs /\ ~cmd[q].undo
  BY OthersWait
<1> QED BY <1>1, <1>2 DEF Stage, LockedPCs

\* A command that has ended claims nothing of the files.
LEMMA EndedStage ==
    ASSUME TypeInv, NEW p \in Procs, End(p)
    PROVE  /\ Stage(p)'
           /\ cmd' = [cmd EXCEPT ![p] = Idle]
<1>1. cmd'[p] = Idle
  BY DEF End, TypeInv, TypeOK
<1>2. cmd'[p].pc = "idle" /\ ~cmd'[p].undo
  BY <1>1 DEF Idle
<1> QED BY <1>2 DEF Stage, LockedPCs, End

\* The record of a command that moves on.
LEMMA MovedFields ==
    ASSUME TypeInv, NEW p \in Procs, NEW pc, To(p, pc)
    PROVE  /\ cmd' = [cmd EXCEPT ![p] = [cmd[p] EXCEPT !.pc = pc]]
           /\ cmd'[p].pc = pc /\ cmd'[p].kind = cmd[p].kind /\ cmd'[p].v = cmd[p].v
           /\ cmd'[p].undo = cmd[p].undo
<1>1. cmd \in [Procs -> Command]
  BY DEF TypeInv, TypeOK, Command, Kinds
<1> QED BY <1>1 DEF To, Command

\* The steps under the lock: each is shown to keep what its own command relies
\* on and the link between the copy and the proven binaries.
LEMMA FilesLocked ==
    ASSUME FilesInv, NEW p \in Procs,
           \/ Snapshot(p) \/ Apply(p) \/ updateServiceRestart(p)
           \/ CheckPasses(p) \/ CheckFails(p)
           \/ Restore(p) \/ RestartRestored(p) \/ Clear(p)
           \/ CommitUpdate(p) \/ CommitFails(p)
    PROVE  ProvenIsSafe' /\ \A q \in Procs : Stage(q)'
<1> USE DEF disk, plan
<1>1. TypeInv /\ ProvenIsSafe /\ Stage(p) /\ CommandWellFormed(p) /\ cmd[p] \in Command
  BY DEF FilesInv, TypeInv, TypeOK, Command, Kinds
<1>2. cmd[p].pc \in LockedPCs
  BY DEF LockedPCs, Snapshot, Apply, updateServiceRestart, CheckPasses, CheckFails, Restore,
     RestartRestored, Clear, CommitUpdate, CommitFails
<1>3. /\ lock = p
      /\ file \in Versions /\ None \notin Versions /\ prev \in Versions \cup {None}
  BY <1>1, <1>2, NoneIsNew DEF Stage, TypeInv, TypeOK
<1>4. ASSUME NEW r, cmd' = [cmd EXCEPT ![p] = r], Stage(p)'
      PROVE  \A q \in Procs : Stage(q)'
  BY <1>2, <1>4, OthersUndisturbed
<1>5. End(p) => \A q \in Procs : Stage(q)'
  BY <1>1, <1>4, EndedStage
<1>6. ASSUME NEW pc, To(p, pc), Stage(p)'
      PROVE  \A q \in Procs : Stage(q)'
  BY <1>1, <1>4, <1>6, MovedFields
<1>7. ASSUME NEW pc, To(p, pc)
      PROVE  /\ cmd'[p].pc = pc /\ cmd'[p].kind = cmd[p].kind /\ cmd'[p].v = cmd[p].v
             /\ cmd'[p].undo = cmd[p].undo
  BY <1>1, <1>7, MovedFields
<1>8. CASE Snapshot(p)
  <2>1. ProvenIsSafe'
    BY <1>1, <1>3, <1>8 DEF Snapshot, ProvenIsSafe
  <2>2. ASSUME To(p, "apply"), prev' = file, UNCHANGED lock
        PROVE  \A q \in Procs : Stage(q)'
    <3>1. Stage(p)'
      BY <1>1, <1>3, <1>7, <1>8, <2>2 DEF Snapshot, Stage, LockedPCs
    <3> QED BY <1>6, <2>2, <3>1
  <2> QED BY <1>5, <1>8, <2>1, <2>2 DEF Snapshot
<1>9. CASE Apply(p)
  <2>1. ProvenIsSafe'
    BY <1>1, <1>3, <1>9 DEF Apply, ProvenIsSafe, Stage
  <2>2. ASSUME To(p, "restart"), file' = cmd[p].v
        PROVE  \A q \in Procs : Stage(q)'
    <3>1. Stage(p)'
      BY <1>1, <1>3, <1>7, <1>9, <2>2 DEF Apply, Stage, LockedPCs
    <3> QED BY <1>6, <2>2, <3>1
  <2>3. ASSUME To(p, "restore")
        PROVE  \A q \in Procs : Stage(q)'
    <3>1. Stage(p)'
      BY <1>1, <1>3, <1>7, <1>9, <2>3 DEF Apply, Stage, LockedPCs
    <3> QED BY <1>6, <2>3, <3>1
  <2> QED BY <1>9, <2>1, <2>2, <2>3 DEF Apply
<1>10. CASE updateServiceRestart(p)
  <2>1. ProvenIsSafe'
    BY <1>1, <1>10 DEF updateServiceRestart, ProvenIsSafe
  <2>2. ASSUME NEW pc \in {"check", "restore"}, To(p, pc)
        PROVE  \A q \in Procs : Stage(q)'
    <3>1. Stage(p)'
      BY <1>1, <1>3, <1>7, <1>10, <2>2 DEF updateServiceRestart, Stage, LockedPCs
    <3> QED BY <1>6, <2>2, <3>1
  <2> QED BY <1>10, <2>1, <2>2 DEF updateServiceRestart
<1>11. CASE CheckPasses(p)
  <2>1. ProvenIsSafe'
    BY <1>1, <1>11 DEF CheckPasses, ProvenIsSafe
  <2>2. CASE cmd[p].gate < Len(Gates)
    <3> DEFINE r == [cmd[p] EXCEPT !.gate = @ + 1]
    <3>1. cmd' = [cmd EXCEPT ![p] = r] /\ UNCHANGED proven
      BY <1>11, <2>2 DEF CheckPasses
    <3>2. cmd'[p] = r
      BY <1>1, <3>1 DEF TypeInv, TypeOK
    <3>3. /\ cmd'[p].pc = cmd[p].pc /\ cmd'[p].kind = cmd[p].kind
          /\ cmd'[p].v = cmd[p].v /\ cmd'[p].undo = cmd[p].undo
      BY <1>1, <3>2 DEF Command
    <3>4. Stage(p)'
      BY <1>1, <1>3, <1>11, <3>1, <3>3 DEF CheckPasses, Stage, LockedPCs
    <3> QED BY <1>4, <2>1, <3>1, <3>4
  <2>3. CASE ~(cmd[p].gate < Len(Gates))
    <3>1. /\ To(p, IF cmd[p].kind = "rollback" THEN "clear" ELSE "commit")
          /\ file \in proven'
      BY <1>11, <2>3 DEF CheckPasses
    <3>2. Stage(p)'
      BY <1>1, <1>3, <1>7, <1>11, <3>1 DEF CheckPasses, Stage, LockedPCs
    <3> QED BY <1>6, <2>1, <3>1, <3>2
  <2> QED BY <2>1, <2>2, <2>3
<1>12. CASE CheckFails(p)
  <2>1. ProvenIsSafe'
    BY <1>1, <1>12 DEF CheckFails, ProvenIsSafe
  <2>2. ASSUME To(p, "restore"), UNCHANGED lock
        PROVE  \A q \in Procs : Stage(q)'
    <3>1. Stage(p)'
      BY <1>1, <1>3, <1>7, <1>12, <2>2 DEF CheckFails, Stage, LockedPCs
    <3> QED BY <1>6, <2>2, <3>1
  <2> QED BY <1>5, <1>12, <2>1, <2>2 DEF CheckFails
<1>13. CASE Restore(p)
  <2>1. ProvenIsSafe'
    BY <1>1, <1>3, <1>13 DEF Restore, ProvenIsSafe
  <2>2. ASSUME To(p, "restarted"), UNCHANGED lock, cmd[p].undo \/ (prev # None /\ file' = prev)
        PROVE  \A q \in Procs : Stage(q)'
    <3>1. Stage(p)'
      BY <1>1, <1>3, <1>7, <1>13, <2>2 DEF Restore, Stage, LockedPCs
    <3> QED BY <1>6, <2>2, <3>1
  <2> QED BY <1>5, <1>13, <2>1, <2>2 DEF Restore
<1>14. CASE RestartRestored(p)
  <2>1. ProvenIsSafe'
    BY <1>1, <1>14 DEF RestartRestored, ProvenIsSafe
  <2>2. ASSUME ~cmd[p].undo, To(p, IF cmd[p].kind = "rollback" THEN "check" ELSE "clear"),
               UNCHANGED lock
        PROVE  \A q \in Procs : Stage(q)'
    <3>1. prev # None /\ file = prev
      BY <1>1, <1>14, <2>2 DEF RestartRestored, Stage
    <3>2. ~overwritten => file \in proven
      BY <1>1, <3>1 DEF ProvenIsSafe
    <3>3. Stage(p)'
      BY <1>1, <1>3, <1>7, <1>14, <2>2, <3>2 DEF RestartRestored, Stage, LockedPCs
    <3> QED BY <1>6, <2>2, <3>3
  <2> QED BY <1>5, <1>14, <2>1, <2>2 DEF RestartRestored
<1>15. CASE Clear(p)
  <2>1. ProvenIsSafe'
    BY <1>1, <1>3, <1>15 DEF Clear, Commit, ProvenIsSafe, Stage
  <2> QED BY <1>5, <1>15, <2>1 DEF Clear
<1>16. CASE CommitUpdate(p)
  <2>1. ProvenIsSafe'
    BY <1>1, <1>16 DEF CommitUpdate, ProvenIsSafe, Stage
  <2>2. ASSUME To(p, "record")
        PROVE  \A q \in Procs : Stage(q)'
    <3>1. Stage(p)'
      BY <1>1, <1>7, <1>16, <2>2 DEF CommitUpdate, Stage, LockedPCs
    <3> QED BY <1>6, <2>2, <3>1
  <2> QED BY <1>5, <1>16, <2>1, <2>2 DEF CommitUpdate
<1>17. CASE CommitFails(p)
  <2>1. ProvenIsSafe'
    BY <1>1, <1>3, <1>17 DEF CommitFails, ProvenIsSafe, Stage
  <2> DEFINE r == [cmd[p] EXCEPT !.pc = "restore", !.undo = TRUE]
  <2>2. cmd' = [cmd EXCEPT ![p] = r] /\ cmd'[p] = r
    BY <1>1, <1>17 DEF CommitFails, TypeInv, TypeOK
  <2>3. cmd'[p].pc = "restore"
    BY <1>1, <2>2 DEF Command
  <2>4. Stage(p)'
    BY <1>3, <1>17, <2>3 DEF CommitFails, Stage, LockedPCs
  <2> QED BY <1>4, <2>1, <2>2, <2>4
<1> QED BY <1>8, <1>9, <1>10, <1>11, <1>12, <1>13, <1>14, <1>15, <1>16, <1>17

\* The steps that leave the files alone: commands that begin, wait or end, and
\* the schedule.
LEMMA FilesUntouched ==
    ASSUME FilesInv, NEW p \in Procs,
           \/ \E v \in Versions : runUpdate(p, v)
           \/ runRollback(p)
           \/ \E channel \in Channels : updatesEnable(p, channel)
           \/ updatesDisable(p) \/ updatesRun(p)
           \/ writeSchedule(p) \/ runDiscoveredUpdate(p) \/ recordInstalled(p)
           \/ Killed(p)
    PROVE  ProvenIsSafe' /\ \A q \in Procs : Stage(q)'
<1> USE DEF disk, plan
<1>1. /\ TypeInv /\ ProvenIsSafe /\ CommandWellFormed(p) /\ cmd[p] \in Command
      /\ \A q \in Procs : Stage(q)
  BY DEF FilesInv, TypeInv, TypeOK, Command, Kinds
<1>2. UNCHANGED <<file, prev, proven, overwritten>>
  BY DEF runUpdate, runRollback, updatesEnable, updatesDisable, updatesRun, writeSchedule,
     runDiscoveredUpdate, recordInstalled, Killed
<1>3. ProvenIsSafe'
  BY <1>1, <1>2 DEF ProvenIsSafe
<1>4. ASSUME NEW r, cmd' = [cmd EXCEPT ![p] = r], Stage(p)',
             \A q \in Procs : q # p /\ lock = q => lock' = q
      PROVE  \A q \in Procs : Stage(q)'
  <2>1. ASSUME NEW q \in Procs, q # p
        PROVE  Stage(q)'
    <3>1. cmd'[q] = cmd[q]
      BY <1>1, <1>4, <2>1, OthersKept
    <3> QED BY <1>1, <1>2, <1>4, <2>1, <3>1 DEF Stage
  <2> QED BY <1>4, <2>1
<1>5. ASSUME End(p)
      PROVE  \A q \in Procs : Stage(q)'
  <2>1. cmd' = [cmd EXCEPT ![p] = Idle] /\ Stage(p)'
    BY <1>1, <1>5, EndedStage
  <2>2. \A q \in Procs : q # p /\ lock = q => lock' = q
    BY <1>5 DEF End
  <2> QED BY <1>4, <2>1, <2>2
<1>6. CASE writeSchedule(p) \/ recordInstalled(p) \/ Killed(p)
  BY <1>3, <1>5, <1>6 DEF writeSchedule, recordInstalled, Killed
<1>7. ASSUME NEW r \in Command, cmd' = [cmd EXCEPT ![p] = r], ~r.undo,
             \/ r.pc \in {"snapshot", "restore"} /\ lock = None /\ lock' = p
             \/ r.pc \in {"schedule", "discovered"} /\ UNCHANGED lock
      PROVE  \A q \in Procs : Stage(q)'
  <2>1. cmd'[p] = r
    BY <1>1, <1>7 DEF TypeInv, TypeOK
  <2>2. Stage(p)'
    BY <1>7, <2>1 DEF Stage, LockedPCs
  <2>3. \A q \in Procs : q # p /\ lock = q => lock' = q
    BY <1>7, NoneIsNew
  <2> QED BY <1>4, <1>7, <2>2, <2>3
<1>8. Idle \in Command /\ ~Idle.undo
  BY DEF Idle, Command, Kinds, PCs
<1>9. ASSUME NEW kind \in {"update", "scheduled"}, NEW v \in Versions, Begin(p, kind, v),
             ~cmd[p].undo
      PROVE  \A q \in Procs : Stage(q)'
  <2> DEFINE r == [cmd[p] EXCEPT !.pc = "snapshot", !.kind = kind, !.v = v]
  <2>1. r \in Command /\ r.pc = "snapshot" /\ r.undo = cmd[p].undo
    BY <1>1 DEF Command, Kinds, PCs
  <2>2. cmd' = [cmd EXCEPT ![p] = r] /\ lock = None /\ lock' = p
    BY <1>9 DEF Begin, acquireUpdateLock
  <2> HIDE DEF r
  <2> QED BY <1>7, <1>9, <2>1, <2>2
<1>10. ASSUME NEW v \in Versions, runUpdate(p, v)
       PROVE  \A q \in Procs : Stage(q)'
  <2>1. cmd[p] = Idle
    BY <1>1, <1>10 DEF runUpdate, CommandWellFormed
  <2> QED BY <1>8, <1>9, <1>10, <2>1 DEF runUpdate
<1>11. CASE runDiscoveredUpdate(p)
  <2>1. cmd[p].v \in Versions /\ ~cmd[p].undo
    BY <1>1, <1>11 DEF runDiscoveredUpdate, CommandWellFormed, CandidatePCs, Stage
  <2> QED BY <1>3, <1>5, <1>9, <1>11, <2>1 DEF runDiscoveredUpdate
<1>12. CASE runRollback(p)
  <2> DEFINE r == [Idle EXCEPT !.pc = "restore", !.kind = "rollback"]
  <2>1. r \in Command /\ r.pc = "restore" /\ ~r.undo
    BY <1>8 DEF Idle, Command, Kinds, PCs
  <2>2. cmd' = [cmd EXCEPT ![p] = r] /\ lock = None /\ lock' = p
    BY <1>12 DEF runRollback, acquireUpdateLock
  <2> HIDE DEF r
  <2> QED BY <1>3, <1>7, <2>1, <2>2
<1>13. ASSUME NEW kind \in Kinds, NEW s \in updateScheduleState, UNCHANGED lock,
              cmd' = [cmd EXCEPT ![p] = [Idle EXCEPT !.pc = "schedule", !.kind = kind,
                                                     !.saved = s]]
       PROVE  \A q \in Procs : Stage(q)'
  <2> DEFINE r == [Idle EXCEPT !.pc = "schedule", !.kind = kind, !.saved = s]
  <2>1. r \in Command /\ r.pc = "schedule" /\ ~r.undo
    BY <1>8 DEF Idle, Command, PCs
  <2> QED BY <1>7, <1>13, <2>1
<1>14. ASSUME NEW channel \in Channels, updatesEnable(p, channel)
       PROVE  \A q \in Procs : Stage(q)'
  <2>1. [enabled |-> TRUE, channel |-> channel, installed |-> None] \in updateScheduleState
    BY DEF updateScheduleState
  <2> QED BY <1>13, <1>14, <2>1 DEF updatesEnable, Kinds
<1>15. CASE updatesDisable(p)
  <2>1. [enabled |-> FALSE, channel |-> None, installed |-> None] \in updateScheduleState
    BY DEF updateScheduleState
  <2>2. \A q \in Procs : Stage(q)'
    BY <1>13, <1>15, <2>1 DEF updatesDisable, Kinds
  <2> QED BY <1>3, <2>2
<1>16. CASE updatesRun(p)
  <2>1. PICK v \in Versions :
          cmd' = [cmd EXCEPT ![p] = [Idle EXCEPT !.pc = "discovered", !.kind = "scheduled",
                                                 !.v = v, !.saved = sched]]
    BY <1>16 DEF updatesRun
  <2> DEFINE r == [Idle EXCEPT !.pc = "discovered", !.kind = "scheduled", !.v = v, !.saved = sched]
  <2>2. sched \in updateScheduleState /\ UNCHANGED lock
    BY <1>1, <1>16 DEF TypeInv, TypeOK, updatesRun
  <2>3. r \in Command /\ r.pc = "discovered" /\ ~r.undo
    BY <1>8, <2>2 DEF Idle, Command, Kinds, PCs
  <2>4. \A q \in Procs : Stage(q)'
    BY <1>7, <2>1, <2>2, <2>3
  <2> QED BY <1>3, <2>4
<1> QED BY <1>3, <1>6, <1>10, <1>11, <1>12, <1>14, <1>15, <1>16

LEMMA FilesNext == FilesInv /\ [Next]_vars => FilesInv'
<1> SUFFICES ASSUME FilesInv, [Next]_vars PROVE FilesInv'
  OBVIOUS
<1>1. TypeInv'
  BY TypeNext DEF FilesInv
<1>2. CASE UNCHANGED vars
  BY <1>1, <1>2 DEF FilesInv, ProvenIsSafe, Stage, vars, disk
<1>3. CASE ServiceStarts
  BY <1>1, <1>3 DEF ServiceStarts, FilesInv, ProvenIsSafe, Stage, disk
<1>4. CASE Next /\ ~ServiceStarts
  <2>1. ProvenIsSafe' /\ \A q \in Procs : Stage(q)'
    BY <1>4, NextCases, FilesLocked, FilesUntouched
  <2> QED BY <1>1, <2>1 DEF FilesInv
<1> QED BY <1>2, <1>3, <1>4

\* Two commands never replace each other's files, whatever fails, is killed or
\* runs at once: the candidate a command judges is the one at the target path
\* and the binary it replaced can be put back (acquireUpdateLock,
\* ApplyAfterRestart).
THEOREM CandidateIsJudgedInPlace == Spec => []JudgedIsInstalled
<1>1. FilesInv => JudgedIsInstalled
  BY DEF FilesInv, Stage, JudgedIsInstalled
<1> QED BY <1>1, FilesInit, FilesNext, PTL DEF Spec

\* No copy left behind means that the installed binary has passed every gate,
\* for any number of faults, kills and commands, as long as no copy was taken
\* of an unproven binary (restoreAndRestart, Commit).
THEOREM NoCopyMeansProven == Spec => []ClearIsTruthful
<1>1. FilesInv => ClearIsTruthful
  BY DEF FilesInv, ProvenIsSafe, ClearIsTruthful
<1> QED BY <1>1, FilesInit, FilesNext, PTL DEF Spec
=============================================================================
