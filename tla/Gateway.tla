-------------------------------- MODULE Gateway --------------------------------
(***************************************************************************)
(* A request to an application host.  The gateway resolves the active      *)
(* release, asks whether the application is public, validates the app      *)
(* session and evaluates the access policy.  Each of these is a query of   *)
(* its own, and the control plane may change any of what they read in      *)
(* between.                                                                *)
(*                                                                         *)
(* The control plane is what ReleasePointer promises of it: one release is *)
(* live, and going live sets the mode of the policy in the same            *)
(* transaction.  AppData adds what a granted API request does.             *)
(***************************************************************************)
EXTENDS Integers

CONSTANTS
    Callers,          \* requests in flight
    Releases,         \* releases of the application
    PublicReleases,   \* those whose manifest says public
    StorageReleases,  \* those that use a browser capability
    Budgets,          \* bounds: how often each external event may happen
    None

Events == {"change", "static", "api", "auth", "attempt", "connect", "crash",
           "delete"}

ASSUME ReleaseTypes == PublicReleases \cup StorageReleases \subseteq Releases
\* ValidStoredManifest: a public release has no browser capability.
ASSUME PublicIsStatic == PublicReleases \cap StorageReleases = {}
ASSUME BudgetsType == Budgets \subseteq [Events -> Nat]
ASSUME NoneIsNoRelease == None \notin Releases

VARIABLES
    status,   \* applications.status; "removed" once the row is deleted
    active,   \* the release that is live
    mode,     \* mode of the current policy
    admits,   \* the current policy admits the viewer
    gate,     \* public_static_settings.enabled
    session,  \* the viewer's app session is valid
    req,      \* the requests
    held,     \* history: what has been true at some moment of each request
    budget    \* how many of each external event may still happen

control == <<status, active, mode, admits, gate, session>>

Kinds == {"static", "api", "auth"}
RequestPCs == {"idle", "resolved", "gate", "private", "session", "granted",
               "served", "denied"}
IdleRequest == [pc |-> "idle", kind |-> "static", token |-> FALSE,
                release |-> None, public |-> FALSE]

Spend(e) == /\ budget[e] > 0
            /\ budget' = [budget EXCEPT ![e] = @ - 1]

ModeOf(r) == IF r \in PublicReleases THEN "public" ELSE "private"

Conditions == {"up", "public", "gate", "session", "admitted"}
Holds(c) == CASE c = "up" -> status = "active"
              [] c = "public" -> mode = "public"
              [] c = "gate" -> gate
              [] c = "session" -> session
              [] c = "admitted" -> admits

\* Every step of a request and of the control plane adds what is true now.
Witness ==
    held' = [c \in Callers |->
               IF req'[c].pc = "idle" THEN {}
               ELSE held[c] \cup {k \in Conditions : Holds(k)'}]

GatewayInit ==
    /\ status = "active"
    /\ active \in Releases
    /\ mode = ModeOf(active)
    /\ admits = TRUE
    /\ gate = (mode = "public")   \* closed unless it was opened for a release
    /\ session = TRUE
    /\ req = [c \in Callers |-> IdleRequest]
    /\ held = [c \in Callers |-> {}]
    /\ budget \in Budgets

-----------------------------------------------------------------------------
(***************************************************************************)
(* The control plane.                                                      *)
(***************************************************************************)

\* An activation: the pointer and the mode of the new policy revision.  A
\* public release needs the gate.
Activate(r) ==
    /\ status = "active"
    /\ ModeOf(r) = "public" => gate
    /\ active' = r
    /\ mode' = ModeOf(r)
    /\ UNCHANGED <<status, admits, gate, session>>

\* The rules are replaced; the mode stays.
ReplacePolicy ==
    /\ status = "active"
    /\ admits' = ~admits
    /\ UNCHANGED <<status, active, mode, gate, session>>

SetPublicGate ==
    /\ gate' = ~gate
    /\ UNCHANGED <<status, active, mode, admits, session>>

SetAppStatus ==
    /\ status \in {"active", "suspended"}
    /\ status' = IF status = "active" THEN "suspended" ELSE "active"
    /\ UNCHANGED <<active, mode, admits, gate, session>>

\* The viewer's session begins, and is revoked.
SignIn ==
    /\ status = "active"
    /\ session' = TRUE
    /\ UNCHANGED <<status, active, mode, admits, gate>>

SignOut ==
    /\ session' = FALSE
    /\ UNCHANGED <<status, active, mode, admits, gate>>

ControlChange ==
    /\ Spend("change")
    /\ \/ \E r \in Releases : Activate(r)
       \/ ReplacePolicy \/ SetPublicGate \/ SetAppStatus \/ SignIn \/ SignOut
    /\ UNCHANGED req
    /\ Witness

-----------------------------------------------------------------------------
(***************************************************************************)
(* Gateway.ServeHTTP.                                                      *)
(***************************************************************************)

RequestTo(c, pc) == req' = [req EXCEPT ![c].pc = pc]

RequestStep == UNCHANGED <<control, budget>> /\ Witness

\* The host names an application, the route its kind: static content, the API
\* and the socket, or the sign-in pages.  A reserved route or an unknown host
\* is refused before anything is read.
ResolveActive(c, kind) ==
    /\ req[c].pc = "idle"
    /\ Spend(kind)
    /\ \E token \in BOOLEAN :
          req' = [req EXCEPT ![c] =
                    IF status = "active"
                    THEN [pc |-> "resolved", kind |-> kind, token |-> token,
                          release |-> active, public |-> FALSE]
                    ELSE [IdleRequest EXCEPT !.pc = "denied"]]
    /\ UNCHANGED control
    /\ Witness

\* SQLiteStore.Current finds the policy of an active application only.
PolicyFound == status = "active"

\* Gateway.isEffectivePublic and the first half of AuthorizeStatic read the
\* policy, for a release without browser capabilities.
ReadMode(c) ==
    /\ req[c].pc = "resolved"
    /\ RequestTo(c, IF /\ req[c].release \notin StorageReleases
                       /\ PolicyFound
                       /\ mode = "public"
                    THEN "gate" ELSE "private")
    /\ RequestStep

\* Mutant: the mode alone makes an application public.
ReadPublicGateOpen(c) ==
    /\ req[c].pc = "gate"
    /\ req' = IF req[c].kind = "static"
              THEN [req EXCEPT ![c].pc = "granted", ![c].public = TRUE]
              ELSE [req EXCEPT ![c].pc = "denied"]
    /\ RequestStep

\* CurrentPublicGate.  An anonymous static request to a public application is
\* granted; its API and sign-in pages do not exist.
ReadPublicGate(c) ==
    /\ req[c].pc = "gate"
    /\ req' = CASE ~gate -> [req EXCEPT ![c].pc = "private"]
                [] gate /\ req[c].kind = "static" ->
                     [req EXCEPT ![c].pc = "granted", ![c].public = TRUE]
                [] gate /\ req[c].kind # "static" ->
                     [req EXCEPT ![c].pc = "denied"]
    /\ RequestStep

\* Sign-in, sign-out and the broker's callback need no session.
DispatchPreAuth(c) ==
    /\ req[c].pc = "private"
    /\ req[c].kind = "auth"
    /\ RequestTo(c, "served")
    /\ RequestStep

\* Authorizer.Authorize: the session of this application ...
ValidateSession(c) ==
    /\ req[c].pc = "private"
    /\ req[c].kind # "auth"
    /\ RequestTo(c, IF session /\ req[c].token /\ status = "active"
                    THEN "session" ELSE "denied")
    /\ RequestStep

\* ... and the current policy, whatever its mode.
EvaluatePolicy(c) ==
    /\ req[c].pc = "session"
    /\ RequestTo(c, IF PolicyFound /\ admits THEN "granted" ELSE "denied")
    /\ RequestStep

\* staticruntime.Serve compares the release tree with its evidence and opens
\* the file; a damaged or missing tree or file is not found.
Serve(c) ==
    /\ req[c].pc = "granted"
    /\ req[c].kind = "static"
    /\ \E found \in BOOLEAN : RequestTo(c, IF found THEN "served" ELSE "denied")
    /\ RequestStep

Respond(c) ==
    /\ req[c].pc \in {"served", "denied"}
    /\ req' = [req EXCEPT ![c] = IdleRequest]
    /\ RequestStep

GatewayStep(c) ==
    \/ \E kind \in Kinds : ResolveActive(c, kind)
    \/ ReadMode(c) \/ ReadPublicGate(c) \/ DispatchPreAuth(c)
    \/ ValidateSession(c) \/ EvaluatePolicy(c)
    \/ Serve(c) \/ Respond(c)

-----------------------------------------------------------------------------
GatewayTypeOK ==
    /\ status \in {"active", "suspended", "deleting", "removed"}
    /\ active \in Releases
    /\ mode \in {"private", "public"}
    /\ <<admits, gate, session>> \in BOOLEAN \X BOOLEAN \X BOOLEAN
    /\ req \in [Callers -> [pc : RequestPCs, kind : Kinds, token : BOOLEAN,
                            release : Releases \cup {None}, public : BOOLEAN]]
    /\ held \in [Callers -> SUBSET Conditions]
    /\ budget \in [Events -> Nat]

\* What a request needs to have found.
Needs(r) == IF r.public THEN {"up", "public", "gate"}
            ELSE {"up", "session", "admitted"}

\* Suspension, a new policy, a closed gate and a sign-out deny the next
\* request: whatever a granted request was granted on has been true since it
\* began, so nothing it uses was read for an earlier one.
NoStaleGrant ==
    \A c \in Callers :
        (req[c].pc \in {"granted", "served"} /\ req[c].kind # "auth")
            => Needs(req[c]) \subseteq held[c]
=============================================================================
