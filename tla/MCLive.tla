-------------------------------- MODULE MCLive --------------------------------
(***************************************************************************)
(* Small instances of Live.                                                *)
(***************************************************************************)
EXTENDS Live, TLC

CONSTANTS c1, c2, s1, s2, v1

\* Two sessions, from two browsers, of one viewer.
TwoSessions == (c1 :> s1) @@ (c2 :> s2)
OneViewer == (s1 :> v1) @@ (s2 :> v1)
=============================================================================
