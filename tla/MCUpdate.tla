------------------------------- MODULE MCUpdate -------------------------------
(***************************************************************************)
(* Model checking Update: version 2 is a good stable release and version 4 *)
(* a beta whose doctor fails, both listed on GitHub; version 3, given by   *)
(* hand, starts but does not deny anonymous requests, and version 5 has no *)
(* valid signature.                                                        *)
(***************************************************************************)
EXTENDS Update, TLC

GateFailures == (3 :> {"deny"}) @@ (4 :> {"doctor", "version"}) @@ [v \in {1, 2, 5} |-> {}]

Symmetry == Permutations(Procs)
=============================================================================
