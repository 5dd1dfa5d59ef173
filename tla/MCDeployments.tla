---------------------------- MODULE MCDeployments ----------------------------
(***************************************************************************)
(* Instances of Deployments for TLC.  Each configuration gives the external *)
(* events it is about a budget and switches the others off.                *)
(***************************************************************************)
EXTENDS Deployments, TLC

NoEvents == [e \in Events |-> 0]

\* Content 1 is a private application, content 2 a public one.
MCModeOf == [h \in Hashes |-> IF h = 2 THEN "public" ELSE "private"]

PrivateOnly == [h \in Hashes |-> "private"]

Budget(e, n) == [NoEvents EXCEPT ![e] = n]

\* One event among the uploads and activations: a crash, a change of the
\* public gate or a suspension.
ActivationBudgets == {Budget(e, 1) : e \in {"crash", "gate", "status"}}
\* Deletion with a retry, cleanup and a crash; or an edit of the rules and a
\* suspension.
DeletionBudgets == {[Budget("delete", 2) EXCEPT !["cleanup"] = 1, !["crash"] = 1],
                    [Budget("amend", 1) EXCEPT !["status"] = 1]}
ProgressBudgets == {[Budget("crash", 1) EXCEPT !["status"] = 1]}

Symmetry == Permutations(Deps) \cup Permutations(Requests)
              \cup Permutations(RequestIDs) \cup Permutations(Keys)
=============================================================================
