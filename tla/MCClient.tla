----------------------------- MODULE MCClient -----------------------------
(***************************************************************************)
(* Two commands, at once or one after the other, on an installation with   *)
(* one operator and one deployer.                                          *)
(***************************************************************************)
EXTENDS Client, TLC

CONSTANTS d1, d2, p1, p2

\* The commands run the same program; each address may be the operator.
Symmetric == Permutations({p1, p2}) \cup Permutations({d1, d2})
=============================================================================
