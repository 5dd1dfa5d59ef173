-------------------------------- MODULE Update --------------------------------
(***************************************************************************)
(* `tinkercloud update`, `update --rollback` and the scheduled             *)
(* `updates enable | disable | run`: root commands that replace the binary *)
(* of the service, keep a copy of the one it replaces until every health   *)
(* gate has passed, and put it back when one of them fails.                *)
(*                                                                         *)
(* Every change of a file and every call of systemctl is a step; between   *)
(* two steps the command may be killed, and the service may be started     *)
(* anew from the file on disk.                                             *)
(***************************************************************************)
EXTENDS Integers, Sequences

CONSTANTS
    Versions,    \* versions of the server binary, ordered as numbers
    Installed,   \* the version at the beginning, healthy
    Procs,       \* root commands that may run at once
    Signed,      \* versions whose signature and digest match the pinned key
    Compatible,  \* versions whose API and schema the running server accepts
    Listed,      \* releases GitHub lists with the complete set of assets
    Prerelease,  \* versions of the beta channel
    Fails,       \* the gates each version fails once it runs
    Faults,      \* bound: calls that fail, kills and restarts of the service
    None

Gates == <<"listener", "doctor", "version", "deny">>
Channels == {"beta", "stable"}

ASSUME VersionsType == Versions \subseteq Nat /\ Installed \in Versions
ASSUME ReleasesType == /\ Signed \subseteq Versions /\ Compatible \subseteq Versions
                       /\ Listed \subseteq Versions /\ Prerelease \subseteq Versions
                       /\ Fails \in [Versions -> SUBSET {Gates[i] : i \in 1..4}]
ASSUME InstalledHealthy == Fails[Installed] = {}
ASSUME FaultsType == Faults \in Nat
ASSUME NoneIsNew == None \notin Versions /\ None \notin Procs /\ None \notin Channels

VARIABLES
    file,     \* version of the binary at the target path
    prev,     \* version in update-rollback/previous, None when there is no file
    run,      \* version the service runs, None when it is down
    apps,     \* whether the database has an active application
    lock,     \* the command that holds the update lock
    cmd,      \* the root commands
    sched,    \* schedule.json
    timer,    \* whether the systemd timer is enabled, which no command asks for
    proven,   \* history: versions that have passed every gate
    overwritten, \* history: a copy has been replaced by one of an unproven binary
    faults    \* faults still to come

disk == <<file, prev>>
plan == <<sched, timer>>
vars == <<disk, run, apps, lock, cmd, plan, proven, overwritten, faults>>

Idle == [pc |-> "idle", kind |-> None, v |-> None, gate |-> 1, undo |-> FALSE, saved |-> None]

updateScheduleState == [enabled : {TRUE}, channel : Channels, installed : Versions \cup {None}]
                  \cup [enabled : {FALSE}, channel : {None}, installed : {None}]

PCs == {"idle", "discovered", "snapshot", "apply", "restart", "check", "commit",
        "restore", "restarted", "clear", "record", "schedule"}

TypeOK ==
    /\ file \in Versions /\ prev \in Versions \cup {None} /\ run \in Versions \cup {None}
    /\ apps \in BOOLEAN /\ lock \in Procs \cup {None}
    /\ cmd \in [Procs -> [pc : PCs,
                          kind : {None, "update", "scheduled", "rollback", "enable", "disable"},
                          v : Versions \cup {None}, gate : 1..4, undo : BOOLEAN,
                          saved : updateScheduleState \cup {None}]]
    /\ sched \in updateScheduleState /\ timer \in BOOLEAN
    /\ proven \subseteq Versions /\ overwritten \in BOOLEAN /\ faults \in 0..Faults

Init ==
    /\ file = Installed /\ prev = None /\ run = Installed /\ apps \in BOOLEAN
    /\ lock = None /\ cmd = [p \in Procs |-> Idle]
    /\ sched = [enabled |-> FALSE, channel |-> None, installed |-> None] /\ timer = FALSE
    /\ proven = {Installed} /\ overwritten = FALSE /\ faults = Faults

Fault == faults > 0 /\ faults' = faults - 1
NoFault == UNCHANGED faults

To(p, pc) == cmd' = [cmd EXCEPT ![p].pc = pc]

\* The command ends; the deferred unlock gives the lock back.
End(p) ==
    /\ cmd' = [cmd EXCEPT ![p] = Idle]
    /\ lock' = IF lock = p THEN None ELSE lock

-----------------------------------------------------------------------------
(***************************************************************************)
(* Verification and the update lock.                                       *)
(***************************************************************************)
Verify(v) == v \in Signed

CompatibleArtifact(v) == v \in Compatible

VerifyReleaseManifest(v) == Verify(v) /\ CompatibleArtifact(v)

\* The artifact, its metadata and its manifest were read and accepted.
updateArtifact(v) == Verify(v) /\ CompatibleArtifact(v) /\ VerifyReleaseManifest(v)

\* Mutant: commands do not exclude each other.
acquireNoLock(p) == lock' = p

acquireUpdateLock(p) == lock = None /\ lock' = p

Begin(p, kind, v) ==
    /\ acquireUpdateLock(p)
    /\ updateArtifact(v)
    /\ cmd' = [cmd EXCEPT ![p] = [@ EXCEPT !.pc = "snapshot", !.kind = kind, !.v = v]]

\* `tinkercloud update`.
runUpdate(p, v) ==
    /\ cmd[p].pc = "idle"
    /\ Begin(p, "update", v)
    /\ UNCHANGED <<disk, run, apps, plan, proven, overwritten, faults>>

\* `tinkercloud update --rollback`: nothing is read before the binary is back.
runRollback(p) ==
    /\ cmd[p].pc = "idle"
    /\ acquireUpdateLock(p)
    /\ cmd' = [cmd EXCEPT ![p] = [Idle EXCEPT !.pc = "restore", !.kind = "rollback"]]
    /\ UNCHANGED <<disk, run, apps, plan, proven, overwritten, faults>>

-----------------------------------------------------------------------------
(***************************************************************************)
(* ApplyAfterRestart and the file installer.  A replacement that reports   *)
(* an error may have taken place: the directory is synced after the rename.*)
(***************************************************************************)
Snapshot(p) ==
    /\ cmd[p].pc = "snapshot"
    /\ \/ prev' = file /\ NoFault /\ To(p, "apply") /\ UNCHANGED lock
       \/ prev' \in {prev, file} /\ Fault /\ End(p)
    /\ overwritten' = (overwritten \/ (prev' = file /\ file \notin proven))
    /\ UNCHANGED <<file, run, apps, plan, proven>>

Apply(p) ==
    /\ cmd[p].pc = "apply"
    /\ \/ file' = cmd[p].v /\ NoFault /\ To(p, "restart")
       \/ file' \in {file, cmd[p].v} /\ Fault /\ To(p, "restore")
    /\ UNCHANGED <<prev, run, apps, lock, plan, proven, overwritten>>

\* systemctl restart; a start that fails leaves the service down.
updateServiceRestart(p) ==
    /\ cmd[p].pc = "restart"
    /\ \/ run' = file /\ NoFault /\ To(p, "check")
       \/ run' = None /\ Fault /\ To(p, "restore")
    /\ UNCHANGED <<disk, apps, lock, plan, proven, overwritten>>

ListenerHealth == run # None /\ "listener" \notin Fails[run]

\* The doctor of the binary on disk, which expects to find the copy.
ExecHealth == run # None /\ prev # None /\ "doctor" \notin Fails[file]

HTTPHealth == run # None /\ "version" \notin Fails[run]

\* An active application denies anonymous requests; without one, an unknown
\* host is denied.
AnonymousDenyHealth == run # None /\ "deny" \notin Fails[run]

Healthy(gate) ==
    CASE gate = "listener" -> ListenerHealth
      [] gate = "doctor" -> ExecHealth
      [] gate = "version" -> HTTPHealth
      [] gate = "deny" -> AnonymousDenyHealth

CheckPasses(p) ==
    /\ cmd[p].pc = "check" /\ Healthy(Gates[cmd[p].gate])
    /\ IF cmd[p].gate < Len(Gates)
         THEN cmd' = [cmd EXCEPT ![p].gate = @ + 1] /\ UNCHANGED proven
         ELSE /\ To(p, IF cmd[p].kind = "rollback" THEN "clear" ELSE "commit")
              /\ proven' = proven \cup {file}
    /\ UNCHANGED <<disk, run, apps, lock, plan, overwritten, faults>>

\* A gate that fails restores the copy; in a rollback it ends the command.
CheckFails(p) ==
    /\ cmd[p].pc = "check"
    /\ (~Healthy(Gates[cmd[p].gate]) /\ NoFault) \/ Fault
    /\ IF cmd[p].kind = "rollback" THEN End(p) ELSE To(p, "restore") /\ UNCHANGED lock
    /\ UNCHANGED <<disk, run, apps, plan, proven, overwritten>>

\* Mutant: an error of the installer does not stop the recovery.
RestoreRegardless(p) ==
    /\ cmd[p].pc = "restore"
    /\ \/ prev # None /\ file' = prev /\ NoFault
       \/ IF prev = None THEN UNCHANGED file /\ NoFault
                         ELSE file' \in {file, prev} /\ Fault
    /\ To(p, "restarted")
    /\ UNCHANGED <<prev, run, apps, lock, plan, proven, overwritten>>

Restore(p) ==
    /\ cmd[p].pc = "restore"
    /\ \/ /\ prev # None /\ file' = prev /\ NoFault
          /\ To(p, "restarted") /\ UNCHANGED lock
       \/ /\ IF prev = None THEN UNCHANGED file /\ NoFault
                            ELSE file' \in {file, prev} /\ Fault
          /\ IF cmd[p].undo THEN To(p, "restarted") /\ UNCHANGED lock ELSE End(p)
    /\ UNCHANGED <<prev, run, apps, plan, proven, overwritten>>

\* The service is started again from the binary that was put back.  A rollback
\* goes on to the gates, which need an active application to probe.
RestartRestored(p) ==
    /\ cmd[p].pc = "restarted"
    /\ \/ /\ run' = file /\ NoFault
          /\ IF cmd[p].undo \/ (cmd[p].kind = "rollback" /\ ~apps) THEN End(p)
             ELSE /\ To(p, IF cmd[p].kind = "rollback" THEN "check" ELSE "clear")
                  /\ UNCHANGED lock
       \/ run' = None /\ Fault /\ End(p)
    /\ UNCHANGED <<disk, apps, plan, proven, overwritten>>

\* The copy is removed, then its directory: an error may come after the first.
Commit ==
    \/ prev' = None /\ NoFault
    \/ prev' \in {prev, None} /\ Fault

Clear(p) ==
    /\ cmd[p].pc = "clear"
    /\ Commit /\ End(p)
    /\ UNCHANGED <<file, run, apps, plan, proven, overwritten>>

\* "update verified and healthy".
CommitUpdate(p) ==
    /\ cmd[p].pc = "commit"
    /\ prev' = None /\ NoFault
    /\ IF cmd[p].kind = "scheduled"
         THEN To(p, "record") /\ lock' = None
         ELSE End(p)
    /\ UNCHANGED <<file, run, apps, plan, proven, overwritten>>

\* A copy that cannot be removed: the update is taken back as far as possible.
CommitFails(p) ==
    /\ cmd[p].pc = "commit"
    /\ prev' \in {prev, None} /\ Fault
    /\ cmd' = [cmd EXCEPT ![p].pc = "restore", ![p].undo = TRUE]
    /\ UNCHANGED <<file, run, apps, lock, plan, proven, overwritten>>

-----------------------------------------------------------------------------
(***************************************************************************)
(* Scheduled updates.                                                      *)
(***************************************************************************)
updatesEnable(p, channel) ==
    /\ cmd[p].pc = "idle"
    /\ timer' = TRUE
    /\ cmd' = [cmd EXCEPT ![p] = [Idle EXCEPT !.pc = "schedule", !.kind = "enable",
         !.saved = [enabled |-> TRUE, channel |-> channel, installed |-> None]]]
    /\ UNCHANGED <<disk, run, apps, lock, sched, proven, overwritten, faults>>

updatesDisable(p) ==
    /\ cmd[p].pc = "idle"
    /\ timer' = FALSE
    /\ cmd' = [cmd EXCEPT ![p] = [Idle EXCEPT !.pc = "schedule", !.kind = "disable",
         !.saved = [enabled |-> FALSE, channel |-> None, installed |-> None]]]
    /\ UNCHANGED <<disk, run, apps, lock, sched, proven, overwritten, faults>>

\* schedule.json is replaced; when that fails the timer is set back if possible.
writeSchedule(p) ==
    /\ cmd[p].pc = "schedule"
    /\ \/ sched' = cmd[p].saved /\ NoFault /\ UNCHANGED timer
       \/ UNCHANGED sched /\ Fault /\ timer' \in {timer, cmd[p].kind = "disable"}
    /\ End(p)
    /\ UNCHANGED <<disk, run, apps, proven, overwritten>>

\* Newer releases of the channel; the newest of them is taken.
Candidates(channel, current) ==
    {v \in Listed : v > current /\ (v \in Prerelease) = (channel = "beta")}

discoverGitHubRelease(channel, current, v) ==
    v \in Candidates(channel, current) /\ \A w \in Candidates(channel, current) : w <= v

\* `updates run`, which looks at the schedule and not at the timer: current is the
\* version of the binary that executes the command.
updatesRun(p) ==
    /\ cmd[p].pc = "idle"
    /\ sched.enabled
    /\ sched.installed # None => sched.installed <= file
    /\ \E v \in Versions :
         /\ discoverGitHubRelease(sched.channel, file, v)
         /\ cmd' = [cmd EXCEPT ![p] = [Idle EXCEPT !.pc = "discovered", !.kind = "scheduled",
                                                   !.v = v, !.saved = sched]]
    /\ UNCHANGED <<disk, run, apps, lock, plan, proven, overwritten, faults>>

runDiscoveredUpdate(p) ==
    /\ cmd[p].pc = "discovered"
    /\ \/ Begin(p, "scheduled", cmd[p].v)
       \/ (lock # None \/ ~updateArtifact(cmd[p].v)) /\ End(p)
    /\ UNCHANGED <<disk, run, apps, plan, proven, overwritten, faults>>

\* The state read before the update is written back with the new version.
recordInstalled(p) ==
    /\ cmd[p].pc = "record"
    /\ \/ sched' = [cmd[p].saved EXCEPT !.installed = cmd[p].v] /\ NoFault
       \/ UNCHANGED sched /\ Fault
    /\ End(p)
    /\ UNCHANGED <<disk, run, apps, timer, proven, overwritten>>

-----------------------------------------------------------------------------
\* The command is killed: the kernel drops its lock, nothing else is undone.
Killed(p) ==
    /\ cmd[p].pc # "idle"
    /\ Fault /\ End(p)
    /\ UNCHANGED <<disk, run, apps, plan, proven, overwritten>>

\* systemd starts the service again, from whatever is on disk.
ServiceStarts ==
    /\ run # file
    /\ run' = file /\ Fault
    /\ UNCHANGED <<disk, apps, lock, cmd, plan, proven, overwritten>>

Step(p) ==
    \/ Snapshot(p) \/ Apply(p) \/ updateServiceRestart(p)
    \/ CheckPasses(p) \/ CheckFails(p)
    \/ Restore(p) \/ RestartRestored(p) \/ Clear(p)
    \/ CommitUpdate(p) \/ CommitFails(p)
    \/ writeSchedule(p) \/ runDiscoveredUpdate(p) \/ recordInstalled(p)

Next ==
    \/ \E p \in Procs :
         \/ \E v \in Versions : runUpdate(p, v)
         \/ runRollback(p)
         \/ \E channel \in Channels : updatesEnable(p, channel)
         \/ updatesDisable(p) \/ updatesRun(p)
         \/ Step(p) \/ Killed(p)
    \/ ServiceStarts

Spec == Init /\ [][Next]_vars

-----------------------------------------------------------------------------
(***************************************************************************)
(* Properties.                                                             *)
(***************************************************************************)
\* While a candidate is judged, and until its copy is removed, it is the binary
\* at the target path and the binary it replaced can be put back: two commands
\* never replace each other's files (acquireUpdateLock, ApplyAfterRestart).
JudgedIsInstalled ==
    \A p \in Procs : cmd[p].pc \in {"restart", "check", "commit"} /\ cmd[p].kind # "rollback"
                       => file = cmd[p].v /\ prev # None

\* No copy left behind means that the installed binary has passed every gate,
\* whatever failed or was killed on the way (restoreAndRestart, Commit), as
\* long as no copy was taken of a binary that had not passed them.
ClearIsTruthful ==
    lock = None /\ prev = None /\ ~overwritten => file \in proven
=============================================================================
