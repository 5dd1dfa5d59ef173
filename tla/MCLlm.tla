--------------------------------- MODULE MCLlm ---------------------------------
(***************************************************************************)
(* Model checking Llm: two chats of one viewer, which reserve two and      *)
(* three tokens under the first limits, against a quota of four or none;   *)
(* a provider reports up to two of input and the profile's two of output,  *)
(* together more than either reservation.                                  *)
(***************************************************************************)
EXTENDS Llm, TLC

CONSTANTS c1, c2

OneViewer == [c \in Chats |-> "v1"]
SmallInputs == [c \in Chats |-> 1]
OneAsksForLess == [c \in Chats |-> IF c = c1 THEN 1 ELSE 0]

TwoLimits == {[output |-> 2, viewer |-> 2, app |-> 2, window |-> 1, calls |-> 2],
              [output |-> 1, viewer |-> 1, app |-> 3, window |-> 2, calls |-> 1]}

Symmetry == Permutations(Profiles) \cup Permutations(Connections)
=============================================================================
