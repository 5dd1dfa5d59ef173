--------------------------------- MODULE Live ---------------------------------
(***************************************************************************)
(* The live hub of one application: the gateway authorizes an upgrade with *)
(* separate database reads, the upgraded connection attaches to the hub,   *)
(* subscribes and publishes, fan-out never waits for a slow peer, and a    *)
(* change of authority closes the matching connections after its commit.   *)
(*                                                                         *)
(* What runs under Hub.mu is one step.  Sends, transport closes and the    *)
(* database transactions are steps of their own.                           *)
(***************************************************************************)
EXTENDS Integers, FiniteSets

CONSTANTS
    Conns,         \* upgrade requests: one handler goroutine each
    Writers,       \* requests that mutate data and publish the change
    Admins,        \* requests that change authority and then revoke
    SessionOf,     \* app session presented by each upgrade request
    ViewerOf,      \* viewer each session belongs to
    Channels, Prefixes, Collections,   \* what a connection may subscribe to
    PerApp, PerViewer, PerConnection,  \* live.Limits
    QueueSize,     \* outbound queue of a socket
    Changes,       \* bound: changes of authority
    Events,        \* bound: published events
    None

Sessions == {SessionOf[c] : c \in Conns}
Viewers == {ViewerOf[s] : s \in Sessions}
Viewer(c) == ViewerOf[SessionOf[c]]
Procs == Conns \cup Writers \cup Admins
Topics == Channels \cup Prefixes \cup Collections

ASSUME LimitsAreNaturals ==
    /\ {PerApp, PerViewer, PerConnection, QueueSize, Changes, Events} \subseteq Nat
    /\ IsFiniteSet(Conns) /\ IsFiniteSet(Topics)
ASSUME GoroutinesAreDistinct ==
    Conns \cap Writers = {} /\ Conns \cap Admins = {} /\ Writers \cap Admins = {}
ASSUME NoneIsNobody == None \notin Conns \cup Topics \cup Sessions

VARIABLES
    up,        \* applications.status = 'active'
    revision,  \* revision of the access policy in force
    allowed,   \* viewers it allows
    valid,     \* sessions that are neither revoked nor expired
    conn,      \* handler of each connection: where it is, policy it was granted
    transport, \* wsTransport of each connection: none, open or closed
    hub,       \* Hub.connections
    subs,      \* topics each connection is subscribed to
    queue,     \* messages in the outbound queue of each connection
    lost,      \* connections that were refused a message (history)
    fan,       \* fan-out of each publisher: connections still to be sent to
    closer,    \* Hub.close in progress, per goroutine
    admin,     \* changes of authority: what is left to revoke
    spent      \* changes and events so far

authVars == <<up, revision, allowed, valid>>
hubVars == <<transport, hub, subs, queue, lost>>
vars == <<authVars, conn, hubVars, fan, closer, admin, spent>>

ConnPCs == {"idle", "resolved", "session", "granted", "upgraded", "reading",
            "frame", "publishing", "ending", "detached", "gone"}
NotClosing == [at |-> "idle", c |-> None]
IdleAdmin == [pc |-> "idle", scope |-> None, todo |-> {}, must |-> {}]

Init ==
    /\ up = TRUE
    /\ revision = 1
    /\ allowed = Viewers
    /\ valid = Sessions
    /\ conn = [c \in Conns |-> [pc |-> "idle", rev |-> 0]]
    /\ transport = [c \in Conns |-> "none"]
    /\ hub = {}
    /\ subs = [c \in Conns |-> {}]
    /\ queue = [c \in Conns |-> 0]
    /\ lost = {}
    /\ fan = [p \in Conns \cup Writers |-> {}]
    /\ closer = [p \in Procs |-> NotClosing]
    /\ admin = [a \in Admins |-> IdleAdmin]
    /\ spent = [changes |-> 0, events |-> 0]

Goto(c, pc) == conn' = [conn EXCEPT ![c].pc = pc]

-----------------------------------------------------------------------------
(***************************************************************************)
(* Gateway.ServeHTTP and Authorizer.Authorize: resolve the application,    *)
(* validate the session, read the policy.  Three reads, no transaction.    *)
(* ResolveActive and the later reads each look at the status again.        *)
(***************************************************************************)

GatewayUnchanged ==
    UNCHANGED <<authVars, hubVars, fan, closer, admin, spent>>

ResolveActive(c) ==
    /\ conn[c].pc = "idle"
    /\ Goto(c, IF up THEN "resolved" ELSE "gone")
    /\ GatewayUnchanged

ValidateSession(c) ==
    /\ conn[c].pc = "resolved"
    /\ Goto(c, IF up /\ SessionOf[c] \in valid THEN "session" ELSE "gone")
    /\ GatewayUnchanged

ReadPolicy(c) ==
    /\ conn[c].pc = "session"
    /\ IF up /\ Viewer(c) \in allowed
       THEN conn' = [conn EXCEPT ![c] = [pc |-> "granted", rev |-> revision]]
       ELSE Goto(c, "gone")
    /\ GatewayUnchanged

-----------------------------------------------------------------------------
(***************************************************************************)
(* WebSocketAdapter.Upgrade and Hub.Attach.                                *)
(***************************************************************************)

\* The protocol switch succeeds and the transport exists before the hub knows
\* the connection, or the request is refused: a public application, a foreign
\* origin, an unknown subprotocol, a failed handshake.
Accept(c) ==
    /\ conn[c].pc = "granted"
    /\ \/ /\ transport' = [transport EXCEPT ![c] = "open"]
          /\ Goto(c, "upgraded")
       \/ /\ UNCHANGED transport
          /\ Goto(c, "gone")
    /\ UNCHANGED <<authVars, hub, subs, queue, lost, fan, closer, admin, spent>>

OfViewer(c) == {d \in hub : Viewer(d) = Viewer(c)}

AttachFits(c) == /\ Cardinality(hub) < PerApp
                 /\ Cardinality(OfViewer(c)) < PerViewer

\* Hub.Attach counts and inserts under the mutex.
Attach(c) ==
    /\ conn[c].pc = "upgraded"
    /\ IF AttachFits(c)
       THEN hub' = hub \cup {c} /\ Goto(c, "reading")
       ELSE UNCHANGED hub /\ Goto(c, "detached")
    /\ UNCHANGED <<authVars, transport, subs, queue, lost, fan, closer, admin,
                   spent>>

-----------------------------------------------------------------------------
(***************************************************************************)
(* The reader loop.  A frame that has been read is handled even when the   *)
(* connection is closed meanwhile; every operation looks for the           *)
(* connection in the hub first.                                            *)
(***************************************************************************)

\* Read returns a frame, or an error because the transport is closed, the peer
\* went away or the frame is invalid.
ReadFrame(c) ==
    /\ conn[c].pc = "reading"
    /\ \/ transport[c] = "open" /\ Goto(c, "frame")
       \/ Goto(c, "ending")
    /\ GatewayUnchanged

\* A collection may be subscribed twice; another topic counts again towards
\* the limit although the set does not grow.
SubscribeFits(c, t) ==
    \/ t \in Collections /\ t \in subs[c]
    \/ Cardinality(subs[c]) < PerConnection

Subscribe(c, t) ==
    /\ conn[c].pc = "frame"
    /\ IF c \in hub /\ SubscribeFits(c, t)
       THEN subs' = [subs EXCEPT ![c] = @ \cup {t}] /\ Goto(c, "reading")
       ELSE UNCHANGED subs /\ Goto(c, "ending")
    /\ UNCHANGED <<authVars, transport, hub, queue, lost, fan, closer, admin,
                   spent>>

Unsubscribe(c, t) ==
    /\ conn[c].pc = "frame"
    /\ IF c \in hub
       THEN subs' = [subs EXCEPT ![c] = @ \ {t}] /\ Goto(c, "reading")
       ELSE UNCHANGED subs /\ Goto(c, "ending")
    /\ UNCHANGED <<authVars, transport, hub, queue, lost, fan, closer, admin,
                   spent>>

Subscribers(T) == {d \in hub : subs[d] \cap T # {}}

Emit == /\ spent.events < Events
        /\ spent' = [spent EXCEPT !.events = @ + 1]

\* Mutant: the sender is not looked up in the hub.
PublishDetached(c, t) ==
    /\ conn[c].pc = "frame"
    /\ \/ /\ Emit
          /\ fan' = [fan EXCEPT ![c] = Subscribers({t})]
          /\ Goto(c, "publishing")
       \/ /\ Goto(c, "ending")
          /\ UNCHANGED <<fan, spent>>
    /\ UNCHANGED <<authVars, hubVars, closer, admin>>

\* publishFrom: the sender must be attached; the targets are fixed under the
\* mutex and sent to after it is released.  A detached sender, an invalid event
\* and too many publications in a second end the connection.
Publish(c, t) ==
    /\ conn[c].pc = "frame"
    /\ \/ /\ c \in hub
          /\ Emit
          /\ fan' = [fan EXCEPT ![c] = Subscribers({t})]
          /\ Goto(c, "publishing")
       \/ /\ Goto(c, "ending")
          /\ UNCHANGED <<fan, spent>>
    /\ UNCHANGED <<authVars, hubVars, closer, admin>>

Published(c) ==
    /\ conn[c].pc = "publishing"
    /\ fan[c] = {}
    /\ closer[c] = NotClosing
    /\ Goto(c, "reading")
    /\ GatewayUnchanged

\* A request that has committed its data transaction publishes the change to
\* the subscribers of one of T.
PublishChange(w, T) ==
    /\ fan[w] = {}
    /\ closer[w] = NotClosing
    /\ Emit
    /\ fan' = [fan EXCEPT ![w] = Subscribers(T)]
    /\ UNCHANGED <<authVars, conn, hubVars, closer, admin>>

\* The changed key begins with the prefixes in T.
PublishKVChange(w, T) == T # {} /\ PublishChange(w, T)

PublishCollectionChange(w, t) == PublishChange(w, {t})

-----------------------------------------------------------------------------
(***************************************************************************)
(* Fan-out and Hub.close.                                                  *)
(***************************************************************************)

\* Goroutine p calls Hub.close(c).
BeginClose(p, c) == closer' = [closer EXCEPT ![p] = [at |-> "delete", c |-> c]]

\* wsTransport.Send: a full queue and a closed transport are both refusals; a
\* closed transport with room in its queue may also accept (select is random).
SendAccepts(c) == queue[c] < QueueSize
SendRefuses(c) == queue[c] >= QueueSize \/ transport[c] = "closed"

\* Mutant: a full queue drops the message and reports success.
SendDropping(p, c) ==
    /\ p \in Conns \cup Writers
    /\ closer[p] = NotClosing
    /\ c \in fan[p]
    /\ fan' = [fan EXCEPT ![p] = @ \ {c}]
    /\ IF SendAccepts(c)
       THEN queue' = [queue EXCEPT ![c] = @ + 1] /\ UNCHANGED lost
       ELSE lost' = lost \cup {c} /\ UNCHANGED queue
    /\ UNCHANGED <<authVars, conn, transport, hub, subs, closer, admin, spent>>

Send(p, c) ==
    /\ p \in Conns \cup Writers
    /\ closer[p] = NotClosing
    /\ c \in fan[p]
    /\ fan' = [fan EXCEPT ![p] = @ \ {c}]
    /\ \/ /\ SendAccepts(c)
          /\ queue' = [queue EXCEPT ![c] = @ + 1]
          /\ UNCHANGED <<lost, closer>>
       \/ /\ SendRefuses(c)
          /\ lost' = lost \cup {c}
          /\ BeginClose(p, c)
          /\ UNCHANGED queue
    /\ UNCHANGED <<authVars, conn, transport, hub, subs, admin, spent>>

\* Mutant: the caller still holds Hub.mu, which does not nest.
CloseDeleteLocked(p) ==
    /\ p \notin Admins
    /\ closer[p].at = "delete"
    /\ hub' = hub \ {closer[p].c}
    /\ closer' = [closer EXCEPT ![p] = IF closer[p].c \in hub
                                      THEN [at |-> "close", c |-> closer[p].c]
                                      ELSE NotClosing]
    /\ UNCHANGED <<authVars, conn, transport, subs, queue, lost, fan, admin, spent>>

\* Hub.close under the mutex: only the goroutine that removes the connection
\* goes on to close its transport.
CloseDelete(p) ==
    /\ closer[p].at = "delete"
    /\ hub' = hub \ {closer[p].c}
    /\ closer' = [closer EXCEPT ![p] = IF closer[p].c \in hub
                                      THEN [at |-> "close", c |-> closer[p].c]
                                      ELSE NotClosing]
    /\ UNCHANGED <<authVars, conn, transport, subs, queue, lost, fan, admin, spent>>

CloseTransport(p) ==
    /\ closer[p].at = "close"
    /\ transport' = [transport EXCEPT ![closer[p].c] = "closed"]
    /\ closer' = [closer EXCEPT ![p] = NotClosing]
    /\ UNCHANGED <<authVars, conn, hub, subs, queue, lost, fan, admin, spent>>

\* writeLoop: a message is written within the write deadline, or the write
\* fails and the writer closes the transport, which the hub does not learn.
WriteLoop(c) ==
    /\ transport[c] = "open"
    /\ queue[c] > 0
    /\ queue' = [queue EXCEPT ![c] = @ - 1]
    /\ \/ UNCHANGED <<transport, lost>>
       \/ /\ transport' = [transport EXCEPT ![c] = "closed"]
          /\ lost' = lost \cup {c}
    /\ UNCHANGED <<authVars, conn, hub, subs, fan, closer, admin, spent>>

\* watchLiveness: the peer does not answer a ping in time.
PeerSilent(c) ==
    /\ transport[c] = "open"
    /\ transport' = [transport EXCEPT ![c] = "closed"]
    /\ UNCHANGED <<authVars, conn, hub, subs, queue, lost, fan, closer, admin,
                   spent>>

\* Mutant: the handler returns without its deferred Connection.Close.
DetachForgotten(c) ==
    /\ conn[c].pc = "ending"
    /\ Goto(c, "detached")
    /\ GatewayUnchanged

\* The handler returns.  The deferred Connection.Close detaches it from the
\* hub, unless somebody did; then the transport is closed in any case.
Detach(c) ==
    /\ conn[c].pc = "ending"
    /\ Goto(c, "detached")
    /\ BeginClose(c, c)
    /\ UNCHANGED <<authVars, hubVars, fan, admin, spent>>

Return(c) ==
    /\ conn[c].pc = "detached"
    /\ closer[c] = NotClosing
    /\ Goto(c, "gone")
    /\ transport' = [transport EXCEPT ![c] = "closed"]
    /\ UNCHANGED <<authVars, hub, subs, queue, lost, fan, closer, admin, spent>>

-----------------------------------------------------------------------------
(***************************************************************************)
(* Changes of authority.  Each commits its transaction and then calls      *)
(* Hub.Revoke, which collects the matching connections under the mutex and *)
(* closes one after another.  must is a history field: the connections     *)
(* that were attached when the change committed.                           *)
(***************************************************************************)

Change(a, scope) ==
    /\ admin[a].pc = "idle"
    /\ spent.changes < Changes
    /\ spent' = [spent EXCEPT !.changes = @ + 1]
    /\ admin' = [admin EXCEPT ![a] =
         [pc |-> "revoke", scope |-> scope, todo |-> {},
          must |-> {c \in hub : scope = None \/ SessionOf[c] = scope}]]
    /\ UNCHANGED <<conn, hubVars, fan, closer>>

\* ReplaceAccess, or an activation with its manifest policy.
ReplacePolicy(a) ==
    /\ up
    /\ revision' = revision + 1
    /\ allowed' \in SUBSET Viewers
    /\ Change(a, None)
    /\ UNCHANGED <<up, valid>>

\* SetAppStatus: suspension revokes every session of the application and then
\* every connection.
Suspend(a) ==
    /\ up
    /\ up' = FALSE
    /\ valid' = {}
    /\ Change(a, None)
    /\ UNCHANGED <<revision, allowed>>

\* SetAppStatus: resuming revokes nothing and restores nothing.
Resume ==
    /\ ~up
    /\ spent.changes < Changes
    /\ spent' = [spent EXCEPT !.changes = @ + 1]
    /\ up' = TRUE
    /\ UNCHANGED <<revision, allowed, valid, conn, hubVars, fan, closer, admin>>

\* LiveSessions.Revoke: logout of one session.
Logout(a, s) ==
    /\ s \in valid
    /\ valid' = valid \ {s}
    /\ Change(a, s)
    /\ UNCHANGED <<up, revision, allowed>>

\* Mutant: an empty session id is compared like any other.
MatchingExactly(a) == {c \in hub : SessionOf[c] = admin[a].scope}

Matching(a) == {c \in hub : admin[a].scope = None \/ SessionOf[c] = admin[a].scope}

RevokeCollect(a) ==
    /\ admin[a].pc = "revoke"
    /\ admin' = [admin EXCEPT ![a].pc = "close", ![a].todo = Matching(a)]
    /\ UNCHANGED <<authVars, conn, hubVars, fan, closer, spent>>

RevokeOne(a, c) ==
    /\ admin[a].pc = "close"
    /\ closer[a] = NotClosing
    /\ c \in admin[a].todo
    /\ admin' = [admin EXCEPT ![a].todo = @ \ {c}]
    /\ BeginClose(a, c)
    /\ UNCHANGED <<authVars, conn, hubVars, fan, spent>>

RevokeDone(a) ==
    /\ admin[a].pc = "close"
    /\ closer[a] = NotClosing
    /\ admin[a].todo = {}
    /\ admin' = [admin EXCEPT ![a].pc = "idle"]
    /\ UNCHANGED <<authVars, conn, hubVars, fan, closer, spent>>

-----------------------------------------------------------------------------
Handler(c) ==
    \/ ValidateSession(c) \/ ReadPolicy(c) \/ Accept(c) \/ Attach(c)
    \/ ReadFrame(c) \/ Published(c)
    \/ Detach(c) \/ Return(c)
    \/ \E t \in Topics : Subscribe(c, t) \/ Unsubscribe(c, t)
    \/ \E t \in Channels : Publish(c, t)

Closing(p) == CloseDelete(p) \/ CloseTransport(p)

Sending(p) == \E c \in Conns : Send(p, c)

Revoking(a) ==
    \/ RevokeCollect(a) \/ RevokeDone(a)
    \/ \E c \in Conns : RevokeOne(a, c)

Authority ==
    \/ \E a \in Admins :
          \/ ReplacePolicy(a) \/ Suspend(a)
          \/ \E s \in Sessions : Logout(a, s)
    \/ Resume

Next ==
    \/ \E c \in Conns :
          ResolveActive(c) \/ Handler(c) \/ WriteLoop(c) \/ PeerSilent(c)
    \/ \E w \in Writers :
          \/ \E T \in SUBSET Prefixes : PublishKVChange(w, T)
          \/ \E t \in Collections : PublishCollectionChange(w, t)
    \/ \E p \in Procs : Closing(p) \/ Sending(p)
    \/ \E a \in Admins : Revoking(a)
    \/ Authority

Spec == Init /\ [][Next]_vars

\* Goroutines run: handlers, fan-outs, closes and revocations make progress.
\* Peers owe nothing: no fairness for PeerSilent, and a read may go on
\* returning frames as long as the transport is open.
Fairness ==
    /\ \A c \in Conns : WF_vars(Handler(c))
    /\ \A p \in Procs : WF_vars(Closing(p)) /\ WF_vars(Sending(p))
    /\ \A a \in Admins : WF_vars(Revoking(a))

FairSpec == Spec /\ Fairness

-----------------------------------------------------------------------------
(***************************************************************************)
(* Properties.                                                             *)
(***************************************************************************)

\* Connections, queues, fan-outs, closes and revocations keep their types: in
\* particular writeLoop never takes from an empty queue.
TypeOK ==
    /\ up \in BOOLEAN /\ revision \in Nat
    /\ allowed \subseteq Viewers /\ valid \subseteq Sessions
    /\ conn \in [Conns -> [pc : ConnPCs, rev : Nat]]
    /\ transport \in [Conns -> {"none", "open", "closed"}]
    /\ hub \subseteq Conns /\ lost \subseteq Conns
    /\ subs \in [Conns -> SUBSET Topics]
    /\ queue \in [Conns -> Nat]
    /\ fan \in [Conns \cup Writers -> SUBSET Conns]
    /\ closer \in [Procs -> [at : {"idle", "delete", "close"}, c : Conns \cup {None}]]
    /\ admin \in [Admins -> [pc : {"idle", "revoke", "close"},
                             scope : Sessions \cup {None},
                             todo : SUBSET Conns, must : SUBSET Conns]]
    /\ spent \in [changes : Nat, events : Nat]

\* However many upgrades run at once, an application and each of its viewers
\* stay within their connections, a connection within its subscriptions, and
\* the hub within its queue bound.
LimitsHold ==
    /\ Cardinality(hub) <= PerApp
    /\ \A c \in Conns : /\ Cardinality(OfViewer(c)) <= PerViewer
                        /\ Cardinality(subs[c]) <= PerConnection
                        /\ queue[c] <= QueueSize

\* When a change of authority has been answered, no connection it concerns
\* that was attached at its commit is in the hub any more, whoever else was
\* closing or attaching connections meanwhile.
RevocationIsComplete ==
    \A a \in Admins : admin[a].pc = "idle" => admin[a].must \cap hub = {}

\* "A detached Connection object cannot use a buffered inbound frame to publish
\* after revocation" (publishFrom): once a change of authority is answered, no
\* connection it concerned starts another publication.
RevokedNeverPublishes ==
    [][\A c \in Conns, a \in Admins :
         admin[a].pc = "idle" /\ c \in admin[a].must =>
            ~(conn[c].pc = "frame" /\ conn'[c].pc = "publishing")]_vars

\* A subscriber never silently misses a message and stays connected: it is
\* closed, or about to be.
NoSilentLoss ==
    \A c \in lost \cap hub :
        transport[c] = "closed" \/ \E p \in Procs : closer[p] = [at |-> "delete", c |-> c]

\* Hub membership ends with the transport, however the transport was closed.
ClosedLeavesHub == \A c \in Conns : transport[c] = "closed" ~> c \notin hub

\* Every revocation is answered, whatever the peers do.
RevocationEnds == \A a \in Admins : admin[a].pc # "idle" ~> admin[a].pc = "idle"
=============================================================================
