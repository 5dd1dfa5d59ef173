------------------------------ MODULE MCIdentity ------------------------------
(***************************************************************************)
(* Small instances of Identity.                                            *)
(***************************************************************************)
EXTENDS Identity, TLC

\* Every browser has been here before, or none has.
ReturningBrowsers == [b \in Browsers |-> 1]
Symmetry == Permutations(Tabs) \cup Permutations(Browsers) \cup Permutations(Apps)
=============================================================================
