---------------------------- MODULE MCRateLimits ----------------------------
(***************************************************************************)
(* Model checking RateLimits: two browsers behind one address.  Windows    *)
(* are equal, as by default.                                               *)
(***************************************************************************)
EXTENDS RateLimits, TLC

CONSTANTS i1

OneIP == [c \in Clients |-> i1]
EqualWindows == [k \in Kinds |-> 2]
SmallLimits == [d \in Kinds \X Dims |-> IF d[2] = "email" THEN 1 ELSE 2]

Symmetry == Permutations(Procs) \cup Permutations(Clients) \cup Permutations(Emails)
=============================================================================
