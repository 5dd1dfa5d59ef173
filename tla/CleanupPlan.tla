----------------------------- MODULE CleanupPlan -----------------------------
(***************************************************************************)
(* How a cleanup run chooses what to remove: CleanupCandidates groups the  *)
(* rows of one application by content hash in whatever order the database  *)
(* returns them, and jobs.Cleanup sorts the groups and scans them with a   *)
(* counter.  Deployments uses the result (Surplus); this module shows that *)
(* the two loops compute it.  No name of its own is one of Deployments',   *)
(* so that DeploymentsProofs can extend both.                              *)
(***************************************************************************)
EXTENDS Releases

CONSTANTS
    RowIDs,     \* deployment rows of the application in an evidenced state
    Contents,   \* content hashes (ordered)
    Stamps,     \* creation times
    Keeps,      \* configured retentions, values below one included
    NoGroup

ASSUME RowsType ==
    /\ IsFiniteSet(RowIDs) /\ Contents \subseteq Int /\ Stamps \subseteq Int /\ Keeps \subseteq Int
    /\ NoGroup \notin [created : Stamps, active : BOOLEAN]

VARIABLES
    rows,       \* the rows: content, creation time, whether live
    keep,       \* the configured retention
    unread,     \* rows the cursor has not returned yet
    grouped,    \* the groups built so far, NoGroup where there is none
    plan,       \* groups still to be scanned
    kept,       \* inactive groups retained so far (inactiveKept)
    out,        \* hashes selected for removal
    stage

planVars == <<rows, keep, unread, grouped, plan, kept, out, stage>>

PlanInit ==
    /\ rows \in [RowIDs -> [hash : Contents, created : Stamps, live : BOOLEAN]]
    /\ keep \in Keeps
    /\ unread = RowIDs
    /\ grouped = [h \in Contents |-> NoGroup]
    /\ plan = {}
    /\ kept = 0
    /\ out = {}
    /\ stage = "group"

\* Mutant: the last row read decides whether the group is active.
AddRowForgetful(g, r) ==
    [created |-> IF g = NoGroup THEN r.created
                 ELSE IF r.created > g.created THEN r.created ELSE g.created,
     active  |-> r.live]

\* The group of row r after r has been added to group g: the newest row gives
\* the creation time, and a group once active stays active.
AddRow(g, r) ==
    [created |-> IF g = NoGroup THEN r.created
                 ELSE IF r.created > g.created THEN r.created ELSE g.created,
     active  |-> r.live \/ (g # NoGroup /\ g.active)]

GroupRow(i) ==
    /\ stage = "group"
    /\ i \in unread
    /\ unread' = unread \ {i}
    /\ grouped' = [grouped EXCEPT ![rows[i].hash] = AddRow(@, rows[i])]
    /\ UNCHANGED <<rows, keep, plan, kept, out, stage>>

Groups == {h \in Contents : grouped[h] # NoGroup}

\* All rows are read: the groups are sorted.
SortGroups ==
    /\ stage = "group"
    /\ unread = {}
    /\ plan' = Groups
    /\ stage' = "scan"
    /\ UNCHANGED <<rows, keep, unread, grouped, kept, out>>

\* The order of sort.Slice: newest first, ties by larger hash.
NewerGroup(g, h) == Newer([x \in Groups |-> grouped[x].created], g, h)

\* Mutant: a retention of zero keeps nothing.
RetainedAsConfigured == keep

Retained == IF keep < 1 THEN 1 ELSE keep

\* One round of the loop over the sorted groups: skip an active group, keep
\* the first ones, select the rest.
ScanGroup(h) ==
    /\ stage = "scan"
    /\ h \in plan /\ \A g \in plan : ~NewerGroup(g, h)
    /\ plan' = plan \ {h}
    /\ \/ grouped[h].active /\ UNCHANGED <<kept, out>>
       \/ ~grouped[h].active /\ kept < Retained /\ kept' = kept + 1 /\ UNCHANGED out
       \/ ~grouped[h].active /\ kept >= Retained /\ out' = out \cup {h} /\ UNCHANGED kept
    /\ UNCHANGED <<rows, keep, unread, grouped, stage>>

Return ==
    /\ stage = "scan"
    /\ plan = {}
    /\ stage' = "done"
    /\ UNCHANGED <<rows, keep, unread, grouped, plan, kept, out>>

PlanNext ==
    \/ SortGroups \/ Return
    \/ \E i \in RowIDs : GroupRow(i)
    \/ \E h \in Contents : ScanGroup(h)

PlanSpec == PlanInit /\ [][PlanNext]_planVars

-----------------------------------------------------------------------------
RowHashes(S) == {rows[i].hash : i \in S}
NewestRow(h) == CHOOSE t \in Stamps :
    /\ \E i \in RowIDs : rows[i].hash = h /\ rows[i].created = t
    /\ \A i \in RowIDs : rows[i].hash = h => rows[i].created <= t

\* Whatever order the cursor returns the rows in, CleanupCandidates selects
\* exactly the surplus of the contents: a content counts with its newest row,
\* and is live as soon as one of its rows is.
PlanIsSurplus ==
    stage = "done" =>
        out = Surplus(RowHashes(RowIDs),
                      [h \in RowHashes(RowIDs) |-> NewestRow(h)],
                      RowHashes({i \in RowIDs : rows[i].live}), keep)

\* A recovery release survives every cleanup: of the contents that are not
\* live at least the configured number, never less than one, is not selected,
\* and no selected content is newer than one that is retained.
RecoveryReleaseRetained ==
    LET idle == RowHashes(RowIDs) \ RowHashes({i \in RowIDs : rows[i].live})
    IN  stage = "done" =>
          /\ Cardinality(idle \ out) >= Retained \/ out = {}
          /\ idle # {} => idle \ out # {}
          /\ \A h \in out, g \in idle \ out : NewestRow(g) >= NewestRow(h)
=============================================================================
