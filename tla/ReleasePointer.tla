---------------------------- MODULE ReleasePointer ----------------------------
(***************************************************************************)
(* What an owner and a viewer may rely on, without uploads, directories,   *)
(* requests or processes: an application shows at most one version, a      *)
(* version goes live at most once (there is no way back to an older one),  *)
(* the revision of the access policy grows by one with every change of     *)
(* what is live or of who may see it, and an application that was taken    *)
(* down, or is being deleted, never publishes again.                       *)
(***************************************************************************)
EXTENDS Integers

CONSTANTS Versions, None

VARIABLES
    phase,      \* active, suspended, deleting, failed or removed
    live,       \* the version shown, or None
    rev,        \* revision of the access policy in force
    mode,       \* its access mode
    published   \* versions that have been live

pvars == <<phase, live, rev, mode, published>>

Init ==
    /\ phase = "active"
    /\ live = None
    /\ rev = 1
    /\ mode = "private"
    /\ published = {}

\* A version that never was live replaces the one that is.
Publish(v) ==
    /\ phase = "active"
    /\ v \notin published
    /\ live' = v
    /\ published' = published \cup {v}
    /\ rev' = rev + 1
    /\ mode' \in {"private", "public"}
    /\ UNCHANGED phase

\* New access rules for what is live, in the same mode.
Amend ==
    /\ phase = "active"
    /\ rev' = rev + 1
    /\ UNCHANGED <<phase, live, mode, published>>

SetStatus ==
    /\ phase \in {"active", "suspended"}
    /\ phase' \in {"active", "suspended", "deleting"}
    /\ UNCHANGED <<live, rev, mode, published>>

\* Startup finds the live version damaged.
TakeDown ==
    /\ live # None
    /\ phase' = "failed"
    /\ live' = None
    /\ UNCHANGED <<rev, mode, published>>

\* The application and everything recorded about it is deleted.
Remove ==
    /\ phase = "deleting"
    /\ phase' = "removed"
    /\ live' = None
    /\ published' = {}
    /\ UNCHANGED <<rev, mode>>

Next == (\E v \in Versions : Publish(v)) \/ Amend \/ SetStatus \/ TakeDown \/ Remove

Spec == Init /\ [][Next]_pvars
=============================================================================
