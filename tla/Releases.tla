------------------------------- MODULE Releases -------------------------------
(***************************************************************************)
(* The pure part of the release lifecycle: the state table of             *)
(* internal/releases/releases.go, the startup classification of           *)
(* internal/deployments/service.go and the retention rule of              *)
(* internal/jobs/cleanup.go.  No variables: the other modules extend it.  *)
(***************************************************************************)
EXTENDS Integers, FiniteSets

\* The states of a deployment row; "none" stands for the absence of a row.
States == {"none", "uploading", "uploaded", "validating", "staged",
           "verified", "active", "superseded", "rejected", "failed"}

\* The transitions releases.Transition accepts.
Transition ==
    {<<"uploading", "uploaded">>, <<"uploading", "failed">>,
     <<"uploaded", "validating">>, <<"uploaded", "rejected">>,
     <<"validating", "staged">>, <<"validating", "rejected">>,
     <<"staged", "verified">>, <<"staged", "failed">>,
     <<"verified", "active">>, <<"verified", "failed">>,
     <<"active", "superseded">>}

\* Rows whose manifest and file evidence the repository loads; the same three
\* states are the ones whose release_hash names an immutable directory.
Evidenced == {"verified", "active", "superseded"}

\* Rows of an upload that has not produced an immutable release yet.
Incomplete == {"uploading", "uploaded", "validating", "staged"}

\* deployments.Recover: what startup makes of a row in state s, valid telling
\* whether the directory still equals the file evidence of the row.
Recover(s, valid) ==
    IF s \in Incomplete \/ (s \in Evidenced /\ ~valid) THEN "failed" ELSE s

\* DeploymentRepository.Fail: the state a row is left in.  Settled rows are
\* refused (and a missing row is an error), so they keep their state.
Fail(s) ==
    IF s \in {"none", "active", "superseded", "rejected"} THEN s ELSE "failed"

-----------------------------------------------------------------------------
(***************************************************************************)
(* Retention.  A release group is one content hash with the newest         *)
(* creation time of its rows and whether any of its rows is live.          *)
(***************************************************************************)

\* The order jobs.Cleanup sorts by: newest first, ties broken by larger hash.
Newer(created, g, h) ==
    created[g] > created[h] \/ (created[g] = created[h] /\ g > h)

\* The hashes jobs.Cleanup returns: inactive, with at least keep (never less
\* than one) newer inactive hashes retained before them.
Surplus(groups, created, active, keep) ==
    LET inactive == groups \ active
        retained == IF keep < 1 THEN 1 ELSE keep
    IN  {h \in inactive :
            Cardinality({g \in inactive : Newer(created, g, h)}) >= retained}
=============================================================================
