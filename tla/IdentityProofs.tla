---------------------------- MODULE IdentityProofs ----------------------------
(***************************************************************************)
(* Proofs about Identity.  Every step has one of few effects on the rows   *)
(* of the database; the facts about logins, sessions and redeemed codes    *)
(* follow from these effects alone.  The facts about requests in flight    *)
(* follow from how a family may change while a request waits: it keeps its *)
(* binding, its secret only gets newer and its revocation is final.        *)
(***************************************************************************)
EXTENDS Identity, TLAPS

-----------------------------------------------------------------------------
(***************************************************************************)
(* What a step does to the rows.                                           *)
(***************************************************************************)

\* Somebody closes the sessions that end with the families F.
Closing(F) == F \subseteq replayed' \/ \E t \in Tabs : Children(F) \subseteq tab'[t].refs

\* Unrevoked families are revoked.
FamiliesEnd ==
    \E F \in SUBSET {f \in Families : fam[f].st = "live"} :
        revokeIdentityFamilyTx(F) /\ Closing(F) /\ UNCHANGED chal

\* A secret is rotated.
SecretRotates ==
    \E tok \in Token : /\ Valid(tok) /\ DueRotation(tok) /\ fam' = RotateRow(tok)
                       /\ UNCHANGED <<handoff, chal, sess>>

\* A handoff is drawn, and those that are over are deleted.
HandoffStarts ==
    \E a \in Apps, h \in UnusedHandoff :
        CreateIdentityHandoff(a, h) /\ UNCHANGED <<fam, chal, sess>>

\* A handoff is redeemed for a session.
HandoffEnds ==
    \E a \in Apps, h \in Handoffs : ConsumeIdentityHandoff(a, h) /\ UNCHANGED <<fam, chal>>

\* An open handoff is bound to a browser, or given an unrevoked family or none.
HandoffChanges ==
    \E h \in Handoffs, r \in HandoffRow :
        /\ handoff[h].st = "open" /\ r.st = "open"
        /\ r.fam = None \/ r.fam = handoff[h].fam \/ fam[r.fam].st = "live"
        /\ handoff' = [handoff EXCEPT ![h] = r]
        /\ UNCHANGED <<fam, chal, sess>>

\* The user signs out of one application.
SessionEnds ==
    \E s \in Sids : /\ sess' = [sess EXCEPT ![s].st = "revoked"] /\ s \notin open'
                    /\ sess[s].st = "live"
                    /\ UNCHANGED <<fam, handoff, chal>>

\* A code is mailed, superseded or guessed at.
CodesChange ==
    /\ chal' \in [Challenges -> ChallengeRow]
    /\ \A c \in Challenges : chal[c].st = "consumed" => chal'[c].st = "consumed"
    /\ UNCHANGED <<fam, handoff, sess>>

\* A login completes: a family replaces those of the browser, and the handoff
\* that asked for it, if any, is authorised.
LoginEnds ==
    \E k \in Bindings, c \in Challenges, f \in UnusedFamily,
       F \in SUBSET {g \in Families : fam[g].st = "live"} :
        /\ Bound(k) \subseteq F /\ ~Superseded(k, c) /\ chal[c].st = "open"
        /\ fam' = [RevokedFams(F) EXCEPT ![f] = NewFamily(f, c, k)]
        /\ sess' = RevokedSessions(F)
        /\ chal' = [chal EXCEPT ![c].st = "consumed"]
        /\ \/ handoff' = RevokedHandoffs(F)
           \/ \E h \in Handoffs : handoff' = [RevokedHandoffs(F) EXCEPT ![h].fam = f]
        /\ Closing(F)

RowStep ==
    \/ UNCHANGED rows \/ FamiliesEnd \/ SecretRotates
    \/ HandoffStarts \/ HandoffEnds \/ HandoffChanges
    \/ SessionEnds \/ CodesChange \/ LoginEnds

-----------------------------------------------------------------------------
(***************************************************************************)
(* The inductive invariants.                                               *)
(***************************************************************************)

RowTypes ==
    /\ fam \in [Families -> FamilyRow] /\ handoff \in [Handoffs -> HandoffRow]
    /\ chal \in [Challenges -> ChallengeRow] /\ sess \in [Sids -> SessionRow]

\* A family has a binding and comes from a code that is used up.
FamilyOrigin ==
    \A f \in Families : fam[f].st # "none" =>
        /\ fam[f].bind \in Bindings
        /\ fam[f].of \in Challenges /\ chal[fam[f].of].st = "consumed"

\* A session has a family and comes from a handoff that is used up.
SessionOrigin ==
    \A s \in Sids : sess[s].st # "none" =>
        /\ sess[s].fam \in Families
        /\ sess[s].h \in Handoffs /\ handoff[sess[s].h].st \in {"consumed", "gone"}

RowInv == /\ FamilyOrigin /\ SessionOrigin
          /\ OneLoginPerBrowser /\ RedeemedOnce

\* A secret somebody holds was issued: its family exists and the secret is
\* not newer than the row.
Issued(tok) ==
    tok \notin {None, Keep} => fam[tok.f].st # "none" /\ tok.n <= fam[tok.f].n

\* The login of the presented secret is over, or cannot be reached with it.
Unusable(tok) == tok # None => fam[tok.f].st = "revoked" \/ ~Matches(tok)

\* What SignOutIsComplete says of one tab.
SignedOutOf(t) ==
    \A f \in tab[t].seen :
        \/ fam[f].st = "revoked"
        \/ /\ tab[t].gid # None /\ fam[tab[t].gid.f].bind # tab[t].bind
           /\ f = tab[t].gid.f => ~Matches(tab[t].gid)

TabInv(t) ==
    /\ tab[t].refs # {} => tab[t].pc = "reply"
    /\ tab[t].ok => tab[t].pc \in {"challenge", "reply"}
    /\ Issued(tab[t].gid) /\ Issued(tab[t].set)
    /\ \A f \in tab[t].seen :
          /\ fam[f].st # "none"
          /\ fam[f].bind = tab[t].bind \/ (tab[t].gid # None /\ f = tab[t].gid.f)
    /\ tab[t].pc = "fallback" => Unusable(tab[t].gid)
    /\ tab[t].pc = "reply" /\ tab[t].ok => SignedOutOf(t)

HeldSecrets == \A b \in Browsers : Issued(jar[b].gid)

RequestInv == HeldSecrets /\ \A t \in Tabs : TabInv(t)

IdentityInv == TypeOK /\ RowInv /\ RequestInv /\ RevokedIsClosed

-----------------------------------------------------------------------------
(***************************************************************************)
(* What revoking families leaves alone.                                    *)
(***************************************************************************)

LEMMA RevokedFamsRows ==
    ASSUME RowTypes, NEW F
    PROVE  /\ RevokedFams(F) \in [Families -> FamilyRow]
           /\ \A f \in Families :
                /\ RevokedFams(F)[f].st = IF f \in F THEN "revoked" ELSE fam[f].st
                /\ RevokedFams(F)[f].bind = fam[f].bind /\ RevokedFams(F)[f].of = fam[f].of
                /\ RevokedFams(F)[f].n = fam[f].n
<1> SUFFICES ASSUME NEW f \in Families
             PROVE  /\ RevokedFams(F)[f] \in FamilyRow
                    /\ RevokedFams(F)[f].st = IF f \in F THEN "revoked" ELSE fam[f].st
                    /\ RevokedFams(F)[f].bind = fam[f].bind
                    /\ RevokedFams(F)[f].of = fam[f].of /\ RevokedFams(F)[f].n = fam[f].n
  BY DEF RevokedFams
<1>1. fam[f] \in FamilyRow
  BY DEF RowTypes
<1>2. CASE f \in F
  <2>1. RevokedFams(F)[f] = [fam[f] EXCEPT !.st = "revoked"]
    BY <1>2 DEF RevokedFams
  <2> QED BY <1>1, <1>2, <2>1 DEF FamilyRow
<1>3. CASE f \notin F
  <2>1. RevokedFams(F)[f] = fam[f]
    BY <1>3 DEF RevokedFams
  <2> QED BY <1>1, <1>3, <2>1
<1> QED BY <1>2, <1>3

LEMMA RevokedSessionsRows ==
    ASSUME RowTypes, NEW F
    PROVE  /\ RevokedSessions(F) \in [Sids -> SessionRow]
           /\ \A s \in Sids :
                /\ RevokedSessions(F)[s].st = IF s \in Children(F) THEN "revoked" ELSE sess[s].st
                /\ RevokedSessions(F)[s].fam = sess[s].fam
                /\ RevokedSessions(F)[s].h = sess[s].h
<1> SUFFICES ASSUME NEW s \in Sids
             PROVE  /\ RevokedSessions(F)[s] \in SessionRow
                    /\ RevokedSessions(F)[s].st = IF s \in Children(F) THEN "revoked" ELSE sess[s].st
                    /\ RevokedSessions(F)[s].fam = sess[s].fam
                    /\ RevokedSessions(F)[s].h = sess[s].h
  BY DEF RevokedSessions
<1>1. sess[s] \in SessionRow
  BY DEF RowTypes
<1>2. CASE s \in Children(F)
  <2>1. RevokedSessions(F)[s] = [sess[s] EXCEPT !.st = "revoked"]
    BY <1>2 DEF RevokedSessions
  <2> QED BY <1>1, <1>2, <2>1 DEF SessionRow
<1>3. CASE s \notin Children(F)
  <2>1. RevokedSessions(F)[s] = sess[s]
    BY <1>3 DEF RevokedSessions
  <2> QED BY <1>1, <1>3, <2>1
<1> QED BY <1>2, <1>3

LEMMA RevokedHandoffsRows ==
    ASSUME RowTypes, NEW F
    PROVE  /\ RevokedHandoffs(F) \in [Handoffs -> HandoffRow]
           /\ \A h \in Handoffs :
                /\ RevokedHandoffs(F)[h].st = IF handoff[h].st = "open" /\ handoff[h].fam \in F
                                              THEN "revoked" ELSE handoff[h].st
                /\ RevokedHandoffs(F)[h].fam = handoff[h].fam
<1> SUFFICES ASSUME NEW h \in Handoffs
             PROVE  /\ RevokedHandoffs(F)[h] \in HandoffRow
                    /\ RevokedHandoffs(F)[h].st = IF handoff[h].st = "open" /\ handoff[h].fam \in F
                                                  THEN "revoked" ELSE handoff[h].st
                    /\ RevokedHandoffs(F)[h].fam = handoff[h].fam
  BY DEF RevokedHandoffs
<1>1. handoff[h] \in HandoffRow
  BY DEF RowTypes
<1>2. CASE handoff[h].st = "open" /\ handoff[h].fam \in F
  <2>1. RevokedHandoffs(F)[h] = [handoff[h] EXCEPT !.st = "revoked"]
    BY <1>2 DEF RevokedHandoffs
  <2> QED BY <1>1, <1>2, <2>1 DEF HandoffRow
<1>3. CASE ~(handoff[h].st = "open" /\ handoff[h].fam \in F)
  <2>1. RevokedHandoffs(F)[h] = handoff[h]
    BY <1>3 DEF RevokedHandoffs
  <2> QED BY <1>1, <1>3, <2>1
<1> QED BY <1>2, <1>3

-----------------------------------------------------------------------------
(***************************************************************************)
(* Each effect on the rows: what becomes of families, and of RowInv.       *)
(***************************************************************************)

\* A family keeps its binding, its secret only gets newer, and its revocation
\* is final.
FamiliesGrow ==
    \A f \in Families : fam[f].st # "none" =>
        /\ fam'[f].st # "none" /\ fam'[f].bind = fam[f].bind /\ fam'[f].n >= fam[f].n
        /\ fam[f].st = "revoked" => fam'[f].st = "revoked"

\* Sessions that are newly revoked are closed by somebody.
RevokedAreClosed ==
    \A s \in Sids : /\ sess'[s].st = "revoked"
                    => \/ sess[s].st = "revoked" /\ sess'[s].fam = sess[s].fam
                       \/ s \notin open' \/ sess'[s].fam \in replayed'
                       \/ \E t \in Tabs : s \in tab'[t].refs

RowResult == RowTypes' /\ RowInv' /\ FamiliesGrow /\ RevokedAreClosed

LEMMA UnchangedFamiliesGrow ==
    ASSUME RowTypes, UNCHANGED fam
    PROVE  FamiliesGrow
BY DEF RowTypes, FamilyRow, FamiliesGrow

LEMMA FamiliesEndResult ==
    ASSUME RowTypes, RowInv, FamiliesEnd
    PROVE  RowResult
<1>1. PICK F \in SUBSET {f \in Families : fam[f].st = "live"} :
           revokeIdentityFamilyTx(F) /\ Closing(F) /\ UNCHANGED chal
  BY DEF FamiliesEnd
<1>2. /\ fam' \in [Families -> FamilyRow]
      /\ \A f \in Families :
           /\ fam'[f].st = IF f \in F THEN "revoked" ELSE fam[f].st
           /\ fam'[f].bind = fam[f].bind /\ fam'[f].of = fam[f].of /\ fam'[f].n = fam[f].n
  BY <1>1, RevokedFamsRows DEF revokeIdentityFamilyTx
<1>3. /\ sess' \in [Sids -> SessionRow]
      /\ \A s \in Sids :
           /\ sess'[s].st = IF s \in Children(F) THEN "revoked" ELSE sess[s].st
           /\ sess'[s].fam = sess[s].fam /\ sess'[s].h = sess[s].h
  BY <1>1, RevokedSessionsRows DEF revokeIdentityFamilyTx
<1>4. /\ handoff' \in [Handoffs -> HandoffRow]
      /\ \A h \in Handoffs :
           /\ handoff'[h].st = IF handoff[h].st = "open" /\ handoff[h].fam \in F
                               THEN "revoked" ELSE handoff[h].st
           /\ handoff'[h].fam = handoff[h].fam
  BY <1>1, RevokedHandoffsRows DEF revokeIdentityFamilyTx
<1>5. RowTypes'
  BY <1>1, <1>2, <1>3, <1>4 DEF RowTypes
<1>6. /\ \A f \in Families : fam'[f].st # "none" => fam[f].st # "none"
      /\ \A s \in Sids : /\ sess'[s].fam = sess[s].fam /\ sess'[s].h = sess[s].h
                         /\ sess'[s].st # "none" => sess[s].st # "none"
  BY <1>1, <1>2, <1>3 DEF Children
<1>7. FamilyOrigin' /\ SessionOrigin'
  <2>1. FamilyOrigin'
    BY <1>1, <1>2, <1>6 DEF RowInv, FamilyOrigin
  <2>2. \A h \in Handoffs : handoff[h].st \in {"consumed", "gone"} => handoff'[h].st = handoff[h].st
    BY <1>4
  <2>3. SessionOrigin'
    BY <1>6, <2>2 DEF RowInv, SessionOrigin
  <2> QED BY <2>1, <2>3
<1>8. OneLoginPerBrowser'
  <2>1. \A f, g \in Families :
            fam'[f].st = "live" /\ fam'[g].st = "live" /\ fam'[f].bind = fam'[g].bind => f = g
    BY <1>2 DEF RowInv, OneLoginPerBrowser
  <2>2. \A s \in Sids : sess'[s].st = "live" => fam'[sess'[s].fam].st = "live"
    BY <1>2, <1>3 DEF RowInv, OneLoginPerBrowser, SessionOrigin, Children
  <2>3. \A h \in Handoffs : handoff[h].fam \in Families \cup {None}
    BY DEF RowTypes, HandoffRow
  <2>4. \A h \in Handoffs : handoff'[h].st = "open" /\ handoff'[h].fam # None =>
                             fam'[handoff'[h].fam].st = "live"
    BY <1>2, <1>4, <2>3 DEF RowInv, OneLoginPerBrowser, Authorized
  <2> QED BY <2>1, <2>2, <2>4 DEF OneLoginPerBrowser, Authorized
<1>9. RedeemedOnce'
  <2>1. \A f \in Families : fam'[f].of = fam[f].of
    BY <1>2
  <2> QED BY <1>6, <2>1 DEF RowInv, RedeemedOnce
<1>10. FamiliesGrow
  <2>1. \A f \in Families : fam[f].n \in Nat
    BY DEF RowTypes, FamilyRow
  <2> QED BY <1>2, <2>1 DEF FamiliesGrow
<1>11. RevokedAreClosed
  BY <1>1, <1>3 DEF RevokedAreClosed, Closing, Children
<1> QED BY <1>5, <1>7, <1>8, <1>9, <1>10, <1>11 DEF RowInv, RowResult

LEMMA RotatedRow ==
    ASSUME NEW row \in FamilyRow, NEW n \in Nat, NEW u \in Nat, NEW d \in Nat
    PROVE  [row EXCEPT !.n = n, !.until = u, !.rotated = d] \in FamilyRow
<1>1. [row EXCEPT !.n = n] \in FamilyRow
  BY DEF FamilyRow
<1>2. ASSUME NEW r \in FamilyRow
      PROVE  [r EXCEPT !.until = u] \in FamilyRow /\ [r EXCEPT !.rotated = d] \in FamilyRow
  BY DEF FamilyRow
<1>3. [[[row EXCEPT !.n = n] EXCEPT !.until = u] EXCEPT !.rotated = d] \in FamilyRow
  BY <1>1, <1>2
<1> QED BY <1>3, Zenon

LEMMA SecretRotatesResult ==
    ASSUME RowTypes, RowInv, clock \in Nat, SecretRotates
    PROVE  RowResult
<1>1. PICK tok \in Token : /\ Valid(tok) /\ DueRotation(tok) /\ fam' = RotateRow(tok)
                           /\ UNCHANGED <<handoff, chal, sess>>
  BY DEF SecretRotates
<1>2. tok.f \in Families /\ tok.n \in Nat /\ tok.n = fam[tok.f].n
  BY <1>1 DEF Token, DueRotation, IsPrior
<1> DEFINE r == [fam[tok.f] EXCEPT !.n = tok.n + 1, !.until = clock + Overlap, !.rotated = clock]
<1>3. fam[tok.f] \in FamilyRow /\ clock + Overlap \in Nat
  BY <1>2, LifetimesArePositive DEF RowTypes
<1>4. /\ r \in FamilyRow /\ r.st = fam[tok.f].st /\ r.bind = fam[tok.f].bind
      /\ r.of = fam[tok.f].of /\ r.n = tok.n + 1
  <2>1. DOMAIN fam[tok.f] = {"st", "email", "bind", "n", "until", "rotated", "created", "of"}
    BY <1>3 DEF FamilyRow
  <2>2. /\ r.st = fam[tok.f].st /\ r.bind = fam[tok.f].bind
        /\ r.of = fam[tok.f].of /\ r.n = tok.n + 1
    BY <2>1
  <2>3. tok.n + 1 \in Nat
    BY <1>2
  <2>4. r \in FamilyRow
    BY <1>3, <2>3, RotatedRow, Zenon
  <2> QED BY <2>2, <2>4
<1>5. fam' = [fam EXCEPT ![tok.f] = r]
  BY <1>1, <1>2 DEF RotateRow, RowTypes
<1> HIDE DEF r
<1>6. /\ fam' \in [Families -> FamilyRow]
      /\ \A f \in Families : /\ fam'[f].st = fam[f].st /\ fam'[f].bind = fam[f].bind
                             /\ fam'[f].of = fam[f].of
      /\ \A f \in Families : f # tok.f => fam'[f] = fam[f]
      /\ fam'[tok.f].n = tok.n + 1
  BY <1>2, <1>4, <1>5 DEF RowTypes
<1>7. RowTypes'
  BY <1>1, <1>6 DEF RowTypes
<1>8. FamilyOrigin' /\ SessionOrigin' /\ RedeemedOnce'
  BY <1>1, <1>6 DEF RowInv, FamilyOrigin, SessionOrigin, RedeemedOnce
<1>9. OneLoginPerBrowser'
  <2>1. \A h \in Handoffs : handoff[h].fam \in Families \cup {None}
    BY DEF RowTypes, HandoffRow
  <2>2. \A s \in Sids : sess[s].st = "live" => sess[s].fam \in Families
    BY DEF RowInv, SessionOrigin
  <2> QED BY <1>1, <1>6, <2>1, <2>2 DEF RowInv, OneLoginPerBrowser, Authorized
<1>10. FamiliesGrow
  <2>1. \A f \in Families : fam[f].n \in Nat
    BY DEF RowTypes, FamilyRow
  <2> QED BY <1>2, <1>6, <2>1 DEF FamiliesGrow
<1>11. RevokedAreClosed
  BY <1>1 DEF RevokedAreClosed
<1> QED BY <1>7, <1>8, <1>9, <1>10, <1>11 DEF RowInv, RowResult

LEMMA HandoffStartsResult ==
    ASSUME RowTypes, RowInv, clock \in Nat, HandoffStarts
    PROVE  RowResult
<1>1. PICK a \in Apps, h \in UnusedHandoff :
           CreateIdentityHandoff(a, h) /\ UNCHANGED <<fam, chal, sess>>
  BY DEF HandoffStarts
<1>2. h \in Handoffs /\ handoff[h].st = "none"
  BY DEF UnusedHandoff, Fresh
<1> DEFINE r == [st |-> "open", app |-> a, force |-> FALSE, created |-> clock,
                 fam |-> None, bind |-> None]
<1>3. r \in HandoffRow /\ r.st = "open" /\ r.fam = None
  BY DEF HandoffRow
<1>4. handoff' = [g \in Handoffs |->
         IF g = h THEN r
         ELSE IF Collectable(g) THEN [handoff[g] EXCEPT !.st = "gone"] ELSE handoff[g]]
  BY <1>1 DEF CreateIdentityHandoff
<1> HIDE DEF r
<1>5. ASSUME NEW g \in Handoffs, g # h
      PROVE  /\ handoff'[g] \in HandoffRow /\ handoff'[g].fam = handoff[g].fam
             /\ handoff'[g].st = handoff[g].st \/ handoff'[g].st = "gone"
  <2>1. handoff[g] \in HandoffRow
    BY <1>5 DEF RowTypes
  <2>2. CASE Collectable(g)
    <3>1. handoff'[g] = [handoff[g] EXCEPT !.st = "gone"]
      BY <1>4, <1>5, <2>2
    <3> QED BY <2>1, <3>1 DEF HandoffRow
  <2>3. CASE ~Collectable(g)
    BY <1>4, <1>5, <2>1, <2>3
  <2> QED BY <2>2, <2>3
<1>6. handoff'[h] = r
  BY <1>2, <1>4
<1>7. RowTypes'
  <2>1. \A g \in Handoffs : handoff'[g] \in HandoffRow
    BY <1>3, <1>5, <1>6
  <2> QED BY <1>1, <1>4, <2>1 DEF RowTypes
<1>8. FamilyOrigin' /\ RedeemedOnce'
  BY <1>1 DEF RowInv, FamilyOrigin, RedeemedOnce
<1>9. SessionOrigin'
  BY <1>1, <1>2, <1>5 DEF RowInv, SessionOrigin
<1>10. OneLoginPerBrowser'
  BY <1>1, <1>3, <1>5, <1>6 DEF RowInv, OneLoginPerBrowser, Authorized
<1> QED BY <1>1, <1>7, <1>8, <1>9, <1>10, UnchangedFamiliesGrow
        DEF RowInv, RowResult, RevokedAreClosed

LEMMA HandoffEndsResult ==
    ASSUME RowTypes, RowInv, HandoffEnds
    PROVE  RowResult
<1>1. PICK a \in Apps, h \in Handoffs : ConsumeIdentityHandoff(a, h) /\ UNCHANGED <<fam, chal>>
  BY DEF HandoffEnds
<1>2. PICK s \in UnusedSession : issueChildAppSessionTx(s, a, h)
  BY <1>1 DEF ConsumeIdentityHandoff
<1>3. s \in Sids /\ sess[s].st = "none"
  BY DEF UnusedSession, Fresh
<1>4. /\ handoff[h].st = "open" /\ handoff[h].fam \in Families
      /\ fam[handoff[h].fam].st = "live" /\ handoff[h] \in HandoffRow
  BY <1>1 DEF ConsumeIdentityHandoff, Live, Authorized, RowTypes, HandoffRow
<1> DEFINE r == [st |-> "live", app |-> a, fam |-> handoff[h].fam, h |-> h]
           q == [handoff[h] EXCEPT !.st = "consumed"]
<1>5. r \in SessionRow /\ r.st = "live" /\ r.fam = handoff[h].fam /\ r.h = h
  BY <1>4 DEF SessionRow
<1>6. q \in HandoffRow /\ q.st = "consumed"
  BY <1>4 DEF HandoffRow
<1>7. sess' = [sess EXCEPT ![s] = r] /\ handoff' = [handoff EXCEPT ![h] = q]
  BY <1>1, <1>2 DEF issueChildAppSessionTx, ConsumeIdentityHandoff
<1> HIDE DEF r, q
<1>8. /\ sess' \in [Sids -> SessionRow] /\ handoff' \in [Handoffs -> HandoffRow]
      /\ sess'[s] = r /\ handoff'[h] = q
      /\ \A z \in Sids : z # s => sess'[z] = sess[z]
      /\ \A g \in Handoffs : g # h => handoff'[g] = handoff[g]
  BY <1>3, <1>5, <1>6, <1>7 DEF RowTypes
<1>9. RowTypes'
  BY <1>1, <1>8 DEF RowTypes
<1>10. FamilyOrigin'
  BY <1>1 DEF RowInv, FamilyOrigin
<1>11. SessionOrigin'
  BY <1>4, <1>5, <1>6, <1>8 DEF RowInv, SessionOrigin
<1>12. \A z \in Sids : sess[z].st # "none" => sess[z].h # h
  BY <1>4 DEF RowInv, SessionOrigin
<1>13. RedeemedOnce'
  <2>1. \A x, y \in Sids : sess'[x].st # "none" /\ sess'[y].st # "none"
                           /\ sess'[x].h = sess'[y].h => x = y
    BY <1>3, <1>5, <1>8, <1>12 DEF RowInv, RedeemedOnce
  <2> QED BY <1>1, <2>1 DEF RowInv, RedeemedOnce
<1>14. OneLoginPerBrowser'
  BY <1>1, <1>4, <1>5, <1>6, <1>8 DEF RowInv, OneLoginPerBrowser, Authorized
<1>15. RevokedAreClosed
  BY <1>5, <1>8 DEF RevokedAreClosed
<1> QED BY <1>1, <1>9, <1>10, <1>11, <1>13, <1>14, <1>15, UnchangedFamiliesGrow
        DEF RowInv, RowResult

LEMMA HandoffChangesResult ==
    ASSUME RowTypes, RowInv, HandoffChanges
    PROVE  RowResult
<1>1. PICK h \in Handoffs, r \in HandoffRow :
        /\ handoff[h].st = "open" /\ r.st = "open"
        /\ r.fam = None \/ r.fam = handoff[h].fam \/ fam[r.fam].st = "live"
        /\ handoff' = [handoff EXCEPT ![h] = r]
        /\ UNCHANGED <<fam, chal, sess>>
  BY DEF HandoffChanges
<1>2. /\ handoff' \in [Handoffs -> HandoffRow] /\ handoff'[h] = r
      /\ \A g \in Handoffs : g # h => handoff'[g] = handoff[g]
  BY <1>1 DEF RowTypes
<1>3. RowTypes'
  BY <1>1, <1>2 DEF RowTypes
<1>4. FamilyOrigin' /\ RedeemedOnce'
  BY <1>1 DEF RowInv, FamilyOrigin, RedeemedOnce
<1>5. SessionOrigin'
  BY <1>1, <1>2 DEF RowInv, SessionOrigin
<1>6. OneLoginPerBrowser'
  BY <1>1, <1>2 DEF RowInv, OneLoginPerBrowser, Authorized
<1>7. RevokedAreClosed
  BY <1>1 DEF RevokedAreClosed
<1> QED BY <1>1, <1>3, <1>4, <1>5, <1>6, <1>7, UnchangedFamiliesGrow DEF RowInv, RowResult

LEMMA SessionEndsResult ==
    ASSUME RowTypes, RowInv, SessionEnds
    PROVE  RowResult
<1>1. PICK s \in Sids : /\ sess' = [sess EXCEPT ![s].st = "revoked"] /\ s \notin open'
                        /\ sess[s].st = "live"
                        /\ UNCHANGED <<fam, handoff, chal>>
  BY DEF SessionEnds
<1> DEFINE r == [sess[s] EXCEPT !.st = "revoked"]
<1>2. /\ r \in SessionRow /\ r.st = "revoked" /\ r.fam = sess[s].fam /\ r.h = sess[s].h
  BY DEF RowTypes, SessionRow
<1>3. sess' = [sess EXCEPT ![s] = r]
  BY <1>1
<1> HIDE DEF r
<1>4. /\ sess' \in [Sids -> SessionRow] /\ sess'[s] = r
      /\ \A z \in Sids : z # s => sess'[z] = sess[z]
  BY <1>2, <1>3 DEF RowTypes
<1>5. RowTypes'
  BY <1>1, <1>4 DEF RowTypes
<1>6. FamilyOrigin' /\ SessionOrigin'
  BY <1>1, <1>2, <1>4 DEF RowInv, FamilyOrigin, SessionOrigin
<1>7. RedeemedOnce'
  <2>1. \A z \in Sids : sess'[z].h = sess[z].h /\ (sess'[z].st # "none" => sess[z].st # "none")
    BY <1>1, <1>2, <1>4
  <2> QED BY <1>1, <2>1 DEF RowInv, RedeemedOnce
<1>8. OneLoginPerBrowser'
  BY <1>1, <1>2, <1>4 DEF RowInv, OneLoginPerBrowser, Authorized
<1>9. RevokedAreClosed
  BY <1>1, <1>4 DEF RevokedAreClosed
<1> QED BY <1>1, <1>5, <1>6, <1>7, <1>8, <1>9, UnchangedFamiliesGrow DEF RowInv, RowResult

LEMMA CodesChangeResult ==
    ASSUME RowTypes, RowInv, CodesChange
    PROVE  RowResult
<1>1. RowTypes'
  BY DEF RowTypes, CodesChange
<1>2. FamilyOrigin'
  BY DEF CodesChange, RowInv, FamilyOrigin
<1>3. SessionOrigin' /\ OneLoginPerBrowser' /\ RedeemedOnce'
  BY DEF CodesChange, RowInv, SessionOrigin, OneLoginPerBrowser, RedeemedOnce, Authorized
<1>4. RevokedAreClosed
  BY DEF CodesChange, RevokedAreClosed
<1> QED BY <1>1, <1>2, <1>3, <1>4, UnchangedFamiliesGrow DEF CodesChange, RowInv, RowResult

LEMMA LoginEndsResult ==
    ASSUME RowTypes, RowInv, clock \in Nat, LoginEnds
    PROVE  RowResult
<1>1. PICK k \in Bindings, c \in Challenges, f \in UnusedFamily,
           F \in SUBSET {g \in Families : fam[g].st = "live"} :
        /\ Bound(k) \subseteq F /\ ~Superseded(k, c) /\ chal[c].st = "open"
        /\ fam' = [RevokedFams(F) EXCEPT ![f] = NewFamily(f, c, k)]
        /\ sess' = RevokedSessions(F)
        /\ chal' = [chal EXCEPT ![c].st = "consumed"]
        /\ \/ handoff' = RevokedHandoffs(F)
           \/ \E h \in Handoffs : handoff' = [RevokedHandoffs(F) EXCEPT ![h].fam = f]
        /\ Closing(F)
  BY DEF LoginEnds
<1>2. f \in Families /\ fam[f].st = "none" /\ f \notin F
  BY DEF UnusedFamily, Fresh
<1> DEFINE r == NewFamily(f, c, k)
<1>3. r \in FamilyRow /\ r.st = "live" /\ r.bind = k /\ r.of = c
  BY DEF NewFamily, RowTypes, FamilyRow, ChallengeRow
<1> HIDE DEF r
<1>4. /\ fam' \in [Families -> FamilyRow] /\ fam'[f] = r
      /\ \A g \in Families : g # f =>
           /\ fam'[g].st = IF g \in F THEN "revoked" ELSE fam[g].st
           /\ fam'[g].bind = fam[g].bind /\ fam'[g].of = fam[g].of /\ fam'[g].n = fam[g].n
  <2>1. fam' = [RevokedFams(F) EXCEPT ![f] = r]
    BY <1>1 DEF r
  <2> QED BY <1>2, <1>3, <2>1, RevokedFamsRows
<1>5. /\ sess' \in [Sids -> SessionRow]
      /\ \A s \in Sids :
           /\ sess'[s].st = IF s \in Children(F) THEN "revoked" ELSE sess[s].st
           /\ sess'[s].fam = sess[s].fam /\ sess'[s].h = sess[s].h
  BY <1>1, RevokedSessionsRows
<1>6. /\ chal' \in [Challenges -> ChallengeRow] /\ chal'[c].st = "consumed"
      /\ \A d \in Challenges : d # c => chal'[d] = chal[d]
  BY <1>1 DEF RowTypes, ChallengeRow
<1> DEFINE Pending == /\ handoff' \in [Handoffs -> HandoffRow]
                      /\ \A h \in Handoffs :
                           /\ handoff'[h].st = IF handoff[h].st = "open" /\ handoff[h].fam \in F
                                               THEN "revoked" ELSE handoff[h].st
                           /\ handoff'[h].fam \in {handoff[h].fam, f}
<1>7. Pending
  <2>1. CASE handoff' = RevokedHandoffs(F)
    BY <2>1, RevokedHandoffsRows
  <2>2. ASSUME NEW h \in Handoffs, handoff' = [RevokedHandoffs(F) EXCEPT ![h].fam = f]
        PROVE  Pending
    <3> DEFINE q == RevokedHandoffs(F)[h]
               p == [q EXCEPT !.fam = f]
    <3>1. q \in HandoffRow
      BY RevokedHandoffsRows
    <3> HIDE DEF q
    <3>2. p \in HandoffRow /\ p.fam = f /\ p.st = q.st
      BY <1>2, <3>1 DEF HandoffRow
    <3>3. handoff' = [RevokedHandoffs(F) EXCEPT ![h] = p]
      BY <2>2 DEF q
    <3> HIDE DEF p
    <3>4. handoff'[h] = p /\ handoff' \in [Handoffs -> HandoffRow]
          /\ \A g \in Handoffs : g # h => handoff'[g] = RevokedHandoffs(F)[g]
      BY <3>2, <3>3, RevokedHandoffsRows
    <3> QED BY <3>2, <3>4, RevokedHandoffsRows DEF q
  <2> QED BY <1>1, <2>1, <2>2
<1>8. RowTypes'
  BY <1>4, <1>5, <1>6, <1>7 DEF RowTypes
<1>9. \A g \in Families : fam'[g].st # "none" => fam[g].st # "none" \/ g = f
  BY <1>4
<1>10. \A g \in Families : fam[g].st # "none" => fam[g].of # c
  BY <1>1 DEF RowInv, FamilyOrigin
<1>11. FamilyOrigin'
  <2> SUFFICES ASSUME NEW g \in Families, fam'[g].st # "none"
               PROVE  /\ fam'[g].bind \in Bindings
                      /\ fam'[g].of \in Challenges /\ chal'[fam'[g].of].st = "consumed"
    BY DEF FamilyOrigin
  <2>1. CASE g = f
    BY <1>3, <1>4, <1>6, <2>1
  <2>2. CASE g # f
    BY <1>4, <1>6, <1>9, <1>10, <2>2 DEF RowInv, FamilyOrigin
  <2> QED BY <2>1, <2>2
<1>12. \A s \in Sids : /\ sess'[s].fam = sess[s].fam /\ sess'[s].h = sess[s].h
                       /\ sess'[s].st # "none" => sess[s].st # "none"
  BY <1>5 DEF Children
<1>13. SessionOrigin'
  <2>1. \A h \in Handoffs : handoff[h].st \in {"consumed", "gone"} => handoff'[h].st = handoff[h].st
    BY <1>7
  <2> QED BY <1>12, <2>1 DEF RowInv, SessionOrigin
<1>14. RedeemedOnce'
  <2>1. \A g, e \in Families : fam'[g].st # "none" /\ fam'[e].st # "none"
                               /\ fam'[g].of = fam'[e].of => g = e
    <3> SUFFICES ASSUME NEW g \in Families, NEW e \in Families, fam'[g].st # "none",
                        fam'[e].st # "none", fam'[g].of = fam'[e].of
                 PROVE  g = e
      OBVIOUS
    <3>1. CASE g # f /\ e # f
      BY <1>4, <1>9, <3>1 DEF RowInv, RedeemedOnce
    <3>2. CASE g = f \/ e = f
      BY <1>3, <1>4, <1>9, <1>10, <3>2
    <3> QED BY <3>1, <3>2
  <2> QED BY <1>12, <2>1 DEF RowInv, RedeemedOnce
<1>15. OneLoginPerBrowser'
  <2>1. \A g \in Families : fam[g].st = "live" /\ g \notin F => fam[g].bind # k
    BY <1>1 DEF Bound
  <2>2. \A g, e \in Families :
            fam'[g].st = "live" /\ fam'[e].st = "live" /\ fam'[g].bind = fam'[e].bind => g = e
    <3> SUFFICES ASSUME NEW g \in Families, NEW e \in Families, fam'[g].st = "live",
                        fam'[e].st = "live", fam'[g].bind = fam'[e].bind
                 PROVE  g = e
      OBVIOUS
    <3>1. CASE g # f /\ e # f
      BY <1>4, <3>1 DEF RowInv, OneLoginPerBrowser
    <3>2. CASE g = f \/ e = f
      BY <1>3, <1>4, <2>1, <3>2
    <3> QED BY <3>1, <3>2
  <2>3. \A s \in Sids : sess'[s].st = "live" => fam'[sess'[s].fam].st = "live"
    <3> SUFFICES ASSUME NEW s \in Sids, sess'[s].st = "live"
                 PROVE  fam'[sess[s].fam].st = "live"
      BY <1>12
    <3>1. sess[s].st = "live" /\ sess[s].fam \notin F
      BY <1>5 DEF Children
    <3>2. sess[s].fam \in Families /\ fam[sess[s].fam].st = "live"
      BY <3>1 DEF RowInv, OneLoginPerBrowser, SessionOrigin
    <3> QED BY <1>2, <1>4, <3>1, <3>2
  <2>4. ASSUME NEW h \in Handoffs, handoff'[h].st = "open", handoff'[h].fam # None
        PROVE  fam'[handoff'[h].fam].st = "live"
    <3>1. CASE handoff'[h].fam = f
      BY <1>3, <1>4, <3>1
    <3>2. CASE handoff'[h].fam # f
      <4>1. handoff'[h].fam = handoff[h].fam /\ handoff[h].fam \notin F /\ handoff[h].st = "open"
        BY <1>7, <2>4, <3>2
      <4>2. handoff[h].fam \in Families /\ fam[handoff[h].fam].st = "live"
        BY <2>4, <4>1 DEF RowInv, OneLoginPerBrowser, Authorized, RowTypes, HandoffRow
      <4> QED BY <1>4, <3>2, <4>1, <4>2
    <3> QED BY <3>1, <3>2
  <2> QED BY <2>2, <2>3, <2>4 DEF OneLoginPerBrowser, Authorized
<1>16. FamiliesGrow
  <2>1. \A g \in Families : fam[g].n \in Nat
    BY DEF RowTypes, FamilyRow
  <2> QED BY <1>1, <1>2, <1>4, <2>1 DEF FamiliesGrow
<1>17. RevokedAreClosed
  BY <1>1, <1>5 DEF RevokedAreClosed, Closing, Children
<1> QED BY <1>8, <1>11, <1>13, <1>14, <1>15, <1>16, <1>17 DEF RowInv, RowResult

\* Whatever a step does to the rows, RowInv stays, families only grow and
\* somebody closes what it revokes.
LEMMA RowStepResult ==
    ASSUME RowTypes, RowInv, clock \in Nat, RowStep
    PROVE  RowResult
<1>1. CASE UNCHANGED rows
  <2>1. RowTypes'
    BY <1>1 DEF rows, RowTypes
  <2>2. FamilyOrigin' /\ SessionOrigin' /\ RedeemedOnce'
    BY <1>1 DEF rows, RowInv, FamilyOrigin, SessionOrigin, RedeemedOnce
  <2>3. OneLoginPerBrowser'
    BY <1>1 DEF rows, RowInv, OneLoginPerBrowser, Authorized
  <2>4. FamiliesGrow /\ RevokedAreClosed
    BY <1>1, UnchangedFamiliesGrow DEF rows, RevokedAreClosed
  <2> QED BY <2>1, <2>2, <2>3, <2>4 DEF RowInv, RowResult
<1> QED BY <1>1, FamiliesEndResult, SecretRotatesResult, HandoffStartsResult, HandoffEndsResult,
           HandoffChangesResult, SessionEndsResult, CodesChangeResult, LoginEndsResult
        DEF RowStep

-----------------------------------------------------------------------------
(***************************************************************************)
(* Requests: how a handler moves on.                                       *)
(***************************************************************************)

PCs == {"idle", "open", "authorize", "dashboard", "challenge", "signout", "fallback", "reply"}

\* One field of a request is set.
LEMMA OneField ==
    ASSUME NEW q \in Request
    PROVE  /\ \A x \in PCs : [q EXCEPT !.pc = x] \in Request
           /\ \A x \in Browsers \cup {None} : [q EXCEPT !.b = x] \in Request
           /\ \A x \in Token \cup {None} : [q EXCEPT !.gid = x] \in Request
           /\ \A x \in Token \cup {None} : [q EXCEPT !.raw = x] \in Request
           /\ \A x \in Token \cup {None, Keep} : [q EXCEPT !.set = x] \in Request
           /\ \A x \in Bindings \cup {None} : [q EXCEPT !.bind = x] \in Request
           /\ \A x \in Bindings \cup {None} : [q EXCEPT !.newBind = x] \in Request
           /\ \A x \in SUBSET Sids : [q EXCEPT !.refs = x] \in Request
           /\ \A x \in Apps \cup {None} : [q EXCEPT !.app = x] \in Request
           /\ \A x \in Emails \cup {None} : [q EXCEPT !.email = x] \in Request
           /\ \A x \in BOOLEAN : [q EXCEPT !.ok = x] \in Request
           /\ \A x \in BOOLEAN : [q EXCEPT !.late = x] \in Request
           /\ \A x \in SUBSET Families : [q EXCEPT !.seen = x] \in Request
<1>1. \A x \in PCs : [q EXCEPT !.pc = x] \in Request
  BY DEF Request, PCs
<1>2. \A x \in Browsers \cup {None} : [q EXCEPT !.b = x] \in Request
  BY DEF Request
<1>3. \A x \in Token \cup {None} : [q EXCEPT !.gid = x] \in Request
  BY DEF Request
<1>4. \A x \in Token \cup {None} : [q EXCEPT !.raw = x] \in Request
  BY DEF Request
<1>5. \A x \in Token \cup {None, Keep} : [q EXCEPT !.set = x] \in Request
  BY DEF Request
<1>6. \A x \in Bindings \cup {None} : [q EXCEPT !.bind = x] \in Request
  BY DEF Request
<1>7. \A x \in Bindings \cup {None} : [q EXCEPT !.newBind = x] \in Request
  BY DEF Request
<1>8. \A x \in SUBSET Sids : [q EXCEPT !.refs = x] \in Request
  BY DEF Request
<1>9. \A x \in Apps \cup {None} : [q EXCEPT !.app = x] \in Request
  BY DEF Request
<1>10. \A x \in Emails \cup {None} : [q EXCEPT !.email = x] \in Request
  BY DEF Request
<1>11. \A x \in BOOLEAN : [q EXCEPT !.ok = x] \in Request
  BY DEF Request
<1>12. \A x \in BOOLEAN : [q EXCEPT !.late = x] \in Request
  BY DEF Request
<1>13. \A x \in SUBSET Families : [q EXCEPT !.seen = x] \in Request
  BY DEF Request
<1> QED BY <1>1, <1>2, <1>3, <1>4, <1>5, <1>6, <1>7, <1>8, <1>9, <1>10, <1>11, <1>12, <1>13

LEMMA RequestDomain ==
    ASSUME NEW q \in Request
    PROVE  DOMAIN q = {"pc", "b", "gid", "bind", "raw", "set", "newBind", "refs", "app",
                       "email", "ok", "seen", "late"}
BY DEF Request

LEMMA NoRequestType == NoRequest \in Request
BY DEF NoRequest, Request

\* The request q with another reply.
Replying(q, set, refs) == [q EXCEPT !.pc = "reply", !.set = set, !.refs = refs]

LEMMA ReplyFields ==
    ASSUME NEW q \in Request, NEW set \in Token \cup {None, Keep}, NEW refs \in SUBSET Sids
    PROVE  /\ Replying(q, set, refs) \in Request
           /\ Replying(q, set, refs).gid = q.gid /\ Replying(q, set, refs).bind = q.bind
           /\ Replying(q, set, refs).seen = q.seen /\ Replying(q, set, refs).ok = q.ok
           /\ Replying(q, set, refs).pc = "reply" /\ Replying(q, set, refs).set = set
           /\ Replying(q, set, refs).refs = refs
<1> DEFINE r == Replying(q, set, refs)
<1>1. [[[q EXCEPT !.pc = "reply"] EXCEPT !.set = set] EXCEPT !.refs = refs] \in Request
  <2>1. [q EXCEPT !.pc = "reply"] \in Request
    BY OneField DEF PCs
  <2>2. [[q EXCEPT !.pc = "reply"] EXCEPT !.set = set] \in Request
    BY <2>1, OneField
  <2> QED BY <2>2, OneField
<1>2. r \in Request
  BY <1>1, Zenon DEF Replying
<1>3. /\ r.gid = q.gid /\ r.bind = q.bind /\ r.seen = q.seen /\ r.ok = q.ok
      /\ r.pc = "reply" /\ r.set = set /\ r.refs = refs
  BY RequestDomain DEF Replying
<1> QED BY <1>2, <1>3

\* Only the request of t changes.
OnlyTab(t) == tab' \in [Tabs -> Request] /\ \A u \in Tabs : u # t => tab'[u] = tab[u]

\* The request of t is over.
Ends(t) == OnlyTab(t) /\ tab'[t] = NoRequest

\* The request of t goes on to pc with what it presented.
Moves(t, pc, set, refs, ok) ==
    /\ OnlyTab(t)
    /\ tab'[t].gid = tab[t].gid /\ tab'[t].bind = tab[t].bind /\ tab'[t].seen = tab[t].seen
    /\ tab'[t].pc = pc /\ tab'[t].set = set /\ tab'[t].refs = refs /\ tab'[t].ok = ok

LEMMA GotoOnly ==
    ASSUME tab \in [Tabs -> Request], NEW t \in Tabs, NEW r \in Request, Goto(t, r)
    PROVE  OnlyTab(t) /\ tab'[t] = r
BY DEF Goto, OnlyTab

LEMMA DoneEnds ==
    ASSUME tab \in [Tabs -> Request], NEW t \in Tabs, Done(t)
    PROVE  Ends(t)
BY GotoOnly, NoRequestType DEF Done, Ends

LEMMA ReplyMoves ==
    ASSUME tab \in [Tabs -> Request], NEW t \in Tabs, NEW set \in Token \cup {None, Keep},
           NEW refs \in SUBSET Sids, Reply(t, set, refs)
    PROVE  (Ends(t) /\ refs = {}) \/ Moves(t, "reply", set, refs, tab[t].ok)
<1>1. CASE set = Keep /\ refs = {}
  BY <1>1, DoneEnds DEF Reply, Done
<1>2. CASE ~(set = Keep /\ refs = {})
  <2> DEFINE r == Replying(tab[t], set, refs)
  <2>1. Goto(t, r) /\ tab[t] \in Request
    BY <1>2 DEF Reply, Replying
  <2>2. /\ r \in Request /\ r.gid = tab[t].gid /\ r.bind = tab[t].bind /\ r.seen = tab[t].seen
        /\ r.ok = tab[t].ok /\ r.pc = "reply" /\ r.set = set /\ r.refs = refs
    BY <2>1, ReplyFields
  <2> HIDE DEF r
  <2> QED BY <2>1, <2>2, GotoOnly DEF Moves
<1> QED BY <1>1, <1>2

LEMMA FormMoves ==
    ASSUME tab \in [Tabs -> Request], drawn \subseteq Bindings, NEW t \in Tabs,
           NEW set \in Token \cup {None, Keep}, NEW refs \in SUBSET Sids,
           ReplyWithForm(t, set, refs)
    PROVE  /\ (Ends(t) /\ refs = {}) \/ Moves(t, "reply", set, refs, tab[t].ok)
           /\ drawn' \subseteq Bindings
<1>1. CASE Reply(t, set, refs) /\ UNCHANGED drawn
  BY <1>1, ReplyMoves
<1>2. ASSUME NEW k \in Fresh(Bindings \ drawn), drawn' = drawn \cup {k},
             Goto(t, [tab[t] EXCEPT !.pc = "reply", !.set = set, !.refs = refs, !.newBind = k])
      PROVE  Moves(t, "reply", set, refs, tab[t].ok) /\ drawn' \subseteq Bindings
  <2> DEFINE q == Replying(tab[t], set, refs)
             r == [q EXCEPT !.newBind = k]
  <2>1. k \in Bindings /\ tab[t] \in Request
    BY DEF Fresh
  <2>3. Goto(t, r)
    BY <1>2, Zenon DEF Replying
  <2>2. /\ q \in Request /\ q.gid = tab[t].gid /\ q.bind = tab[t].bind /\ q.seen = tab[t].seen
        /\ q.ok = tab[t].ok /\ q.pc = "reply" /\ q.set = set /\ q.refs = refs
    BY <2>1, ReplyFields
  <2> HIDE DEF q
  <2>4. r \in Request
    BY <2>1, <2>2, OneField
  <2>5. /\ r.gid = q.gid /\ r.bind = q.bind /\ r.seen = q.seen
        /\ r.ok = q.ok /\ r.pc = q.pc /\ r.set = q.set /\ r.refs = q.refs
    BY <2>2, RequestDomain
  <2> HIDE DEF r
  <2> QED BY <1>2, <2>1, <2>2, <2>3, <2>4, <2>5, GotoOnly DEF Moves
<1> QED BY <1>1, <1>2 DEF ReplyWithForm

LEMMA PcMoves ==
    ASSUME tab \in [Tabs -> Request], NEW t \in Tabs, NEW pc \in PCs,
           Goto(t, [tab[t] EXCEPT !.pc = pc])
    PROVE  Moves(t, pc, tab[t].set, tab[t].refs, tab[t].ok)
<1> DEFINE r == [tab[t] EXCEPT !.pc = pc]
<1>1. tab[t] \in Request
  OBVIOUS
<1>2. r \in Request
  BY <1>1, OneField
<1>3. /\ r.gid = tab[t].gid /\ r.bind = tab[t].bind /\ r.seen = tab[t].seen
      /\ r.ok = tab[t].ok /\ r.pc = pc /\ r.set = tab[t].set /\ r.refs = tab[t].refs
  BY <1>1, RequestDomain
<1> HIDE DEF r
<1>4. Goto(t, r)
  BY DEF r
<1> QED BY <1>2, <1>3, <1>4, GotoOnly DEF Moves

LEMMA AuthorizeMoves ==
    ASSUME tab \in [Tabs -> Request], NEW t \in Tabs, NEW raw \in Token, NEW set \in Token \cup {Keep},
           Goto(t, [tab[t] EXCEPT !.pc = "authorize", !.raw = raw, !.set = set])
    PROVE  Moves(t, "authorize", set, tab[t].refs, tab[t].ok)
<1> DEFINE q == [[tab[t] EXCEPT !.pc = "authorize"] EXCEPT !.raw = raw]
           r == [q EXCEPT !.set = set]
<1>1. tab[t] \in Request
  OBVIOUS
<1>2. q \in Request
  <2>1. [tab[t] EXCEPT !.pc = "authorize"] \in Request
    BY <1>1, OneField DEF PCs
  <2> QED BY <2>1, OneField
<1>3. /\ q.gid = tab[t].gid /\ q.bind = tab[t].bind /\ q.seen = tab[t].seen
      /\ q.ok = tab[t].ok /\ q.pc = "authorize" /\ q.refs = tab[t].refs
  BY <1>1, RequestDomain
<1>4. Goto(t, r)
  BY Zenon
<1> HIDE DEF q
<1>5. r \in Request
  BY <1>2, OneField
<1>6. /\ r.gid = q.gid /\ r.bind = q.bind /\ r.seen = q.seen
      /\ r.ok = q.ok /\ r.pc = q.pc /\ r.set = set /\ r.refs = q.refs
  BY <1>2, RequestDomain
<1> HIDE DEF r
<1> QED BY <1>3, <1>4, <1>5, <1>6, GotoOnly DEF Moves

LEMMA ChallengeMoves ==
    ASSUME tab \in [Tabs -> Request], NEW t \in Tabs, NEW a \in Apps \cup {None}, NEW e \in Emails,
           NEW ok \in BOOLEAN,
           Goto(t, [tab[t] EXCEPT !.pc = "challenge", !.app = a, !.email = e, !.ok = ok])
    PROVE  Moves(t, "challenge", tab[t].set, tab[t].refs, ok)
<1> DEFINE q == [[tab[t] EXCEPT !.pc = "challenge"] EXCEPT !.app = a]
           p == [q EXCEPT !.email = e]
           r == [p EXCEPT !.ok = ok]
<1>1. tab[t] \in Request
  OBVIOUS
<1>2. q \in Request
  <2>1. [tab[t] EXCEPT !.pc = "challenge"] \in Request
    BY <1>1, OneField DEF PCs
  <2> QED BY <2>1, OneField
<1>3. /\ q.gid = tab[t].gid /\ q.bind = tab[t].bind /\ q.seen = tab[t].seen
      /\ q.pc = "challenge" /\ q.refs = tab[t].refs /\ q.set = tab[t].set
  BY <1>1, RequestDomain
<1>4. Goto(t, r)
  BY Zenon
<1> HIDE DEF q
<1>5. p \in Request
  BY <1>2, OneField
<1>6. r \in Request
  BY <1>5, OneField
<1>7. /\ r.gid = q.gid /\ r.bind = q.bind /\ r.seen = q.seen
      /\ r.ok = ok /\ r.pc = q.pc /\ r.set = q.set /\ r.refs = q.refs
  BY <1>2, RequestDomain
<1> HIDE DEF r
<1> QED BY <1>3, <1>4, <1>6, <1>7, GotoOnly DEF Moves

LEMMA SignedOutMoves ==
    ASSUME tab \in [Tabs -> Request], NEW t \in Tabs, NEW refs \in SUBSET Sids, SignedOut(t, refs)
    PROVE  Moves(t, "reply", None, refs, TRUE)
<1> DEFINE q == Replying(tab[t], None, refs)
           r == [q EXCEPT !.ok = TRUE]
<1>1. tab[t] \in Request
  OBVIOUS
<1>3. Goto(t, r)
  BY Zenon DEF SignedOut, Replying
<1>2. /\ q \in Request /\ q.gid = tab[t].gid /\ q.bind = tab[t].bind /\ q.seen = tab[t].seen
      /\ q.pc = "reply" /\ q.set = None /\ q.refs = refs
  BY <1>1, ReplyFields
<1> HIDE DEF q
<1>4. r \in Request
  BY <1>2, OneField
<1>5. /\ r.gid = q.gid /\ r.bind = q.bind /\ r.seen = q.seen
      /\ r.ok = TRUE /\ r.pc = q.pc /\ r.set = q.set /\ r.refs = q.refs
  BY <1>2, RequestDomain
<1> HIDE DEF r
<1> QED BY <1>2, <1>3, <1>4, <1>5, GotoOnly DEF Moves

-----------------------------------------------------------------------------
(***************************************************************************)
(* What a request may rely on while others change the rows.                *)
(***************************************************************************)

\* Issued and Matches of a given secret after the step.
IssuedNext(tok) ==
    tok \notin {None, Keep} => fam'[tok.f].st # "none" /\ tok.n <= fam'[tok.f].n
MatchesNext(tok) ==
    /\ tok # None
    /\ fam'[tok.f].st # "none"
    /\ tok.n \in {fam'[tok.f].n, fam'[tok.f].n - 1}

LEMMA FamilyNumbers ==
    ASSUME RowTypes, RowTypes'
    PROVE  \A f \in Families : fam[f].n \in Nat /\ fam'[f].n \in Nat
BY DEF RowTypes, FamilyRow

LEMMA TokenParts ==
    ASSUME NEW tok \in Token
    PROVE  tok.f \in Families /\ tok.n \in Nat /\ tok \notin {None, Keep}
<1>1. tok.f \in Families /\ tok.n \in Nat
  BY DEF Token
<1>2. tok \notin {None, Keep}
  BY MarksAreFresh DEF Token
<1> QED BY <1>1, <1>2

LEMMA IssuedGrows ==
    ASSUME RowTypes, RowTypes', FamiliesGrow, NEW tok \in Token \cup {None, Keep}, Issued(tok)
    PROVE  IssuedNext(tok)
<1>1. CASE tok \in Token
  <2>1. /\ tok.f \in Families /\ tok.n \in Nat /\ fam[tok.f].st # "none"
        /\ tok.n <= fam[tok.f].n
    BY <1>1, TokenParts DEF Issued
  <2>2. fam'[tok.f].st # "none" /\ fam'[tok.f].n >= fam[tok.f].n
    BY <2>1 DEF FamiliesGrow
  <2> QED BY <2>1, <2>2, FamilyNumbers DEF IssuedNext
<1>2. CASE tok \in {None, Keep}
  BY <1>2 DEF IssuedNext
<1> QED BY <1>1, <1>2

\* A secret rotated out for good stays so.
LEMMA RotatedOutGrows ==
    ASSUME RowTypes, RowTypes', FamiliesGrow, NEW tok \in Token, Issued(tok), ~Matches(tok)
    PROVE  ~MatchesNext(tok)
<1>1. /\ tok.f \in Families /\ tok.n \in Nat /\ fam[tok.f].st # "none"
      /\ tok.n <= fam[tok.f].n /\ tok # None
  BY TokenParts DEF Issued
<1>2. tok.n # fam[tok.f].n /\ tok.n # fam[tok.f].n - 1
  BY <1>1 DEF Matches
<1>3. fam'[tok.f].n >= fam[tok.f].n
  BY <1>1 DEF FamiliesGrow
<1> QED BY <1>1, <1>2, <1>3, FamilyNumbers DEF MatchesNext

LEMMA UnusableGrows ==
    ASSUME RowTypes, RowTypes', FamiliesGrow, NEW tok \in Token \cup {None}, Issued(tok), Unusable(tok)
    PROVE  tok # None => fam'[tok.f].st = "revoked" \/ ~MatchesNext(tok)
<1>1. CASE tok \in Token
  <2>1. tok.f \in Families /\ tok # None
    BY <1>1, TokenParts
  <2>2. CASE fam[tok.f].st = "revoked"
    BY <2>1, <2>2 DEF FamiliesGrow
  <2>3. CASE ~Matches(tok)
    BY <1>1, <2>3, RotatedOutGrows
  <2> QED BY <2>1, <2>2, <2>3 DEF Unusable
<1> QED BY <1>1

\* What a finished sign-out says stays true, whatever follows.
SignedOutNext(t) ==
    \A f \in tab[t].seen :
        \/ fam'[f].st = "revoked"
        \/ /\ tab[t].gid # None /\ fam'[tab[t].gid.f].bind # tab[t].bind
           /\ f = tab[t].gid.f => ~MatchesNext(tab[t].gid)

LEMMA SignedOutGrows ==
    ASSUME RowTypes, RowTypes', FamiliesGrow, tab \in [Tabs -> Request], NEW t \in Tabs,
           TabInv(t), SignedOutOf(t)
    PROVE  SignedOutNext(t)
<1> SUFFICES ASSUME NEW f \in tab[t].seen
             PROVE  \/ fam'[f].st = "revoked"
                    \/ /\ tab[t].gid # None /\ fam'[tab[t].gid.f].bind # tab[t].bind
                       /\ f = tab[t].gid.f => ~MatchesNext(tab[t].gid)
  BY DEF SignedOutNext
<1>1. f \in Families /\ tab[t].gid \in Token \cup {None}
  BY DEF Request
<1>2. CASE fam[f].st = "revoked"
  BY <1>1, <1>2 DEF FamiliesGrow
<1>3. CASE fam[f].st # "revoked"
  <2>1. /\ tab[t].gid # None /\ fam[tab[t].gid.f].bind # tab[t].bind
        /\ f = tab[t].gid.f => ~Matches(tab[t].gid)
    BY <1>3 DEF SignedOutOf
  <2>2. /\ tab[t].gid \in Token /\ Issued(tab[t].gid)
        /\ tab[t].gid.f \in Families /\ fam[tab[t].gid.f].st # "none"
    BY <1>1, <2>1, TokenParts DEF TabInv, Issued
  <2>3. fam'[tab[t].gid.f].bind # tab[t].bind
    BY <2>1, <2>2 DEF FamiliesGrow
  <2>4. f = tab[t].gid.f => ~MatchesNext(tab[t].gid)
    BY <2>1, <2>2, RotatedOutGrows
  <2> QED BY <2>1, <2>3, <2>4
<1> QED BY <1>2, <1>3

\* A request that moves on.
LEMMA MovesTab ==
    ASSUME RowTypes, RowTypes', FamiliesGrow, tab \in [Tabs -> Request], NEW t \in Tabs, TabInv(t),
           NEW pc, NEW set \in Token \cup {None, Keep}, NEW refs, NEW ok,
           tab'[t].gid = tab[t].gid, tab'[t].bind = tab[t].bind, tab'[t].seen = tab[t].seen,
           tab'[t].pc = pc, tab'[t].set = set, tab'[t].refs = refs, tab'[t].ok = ok,
           refs # {} => pc = "reply",
           ok => pc = "challenge" \/ (pc = "reply" /\ SignedOutNext(t)),
           IssuedNext(set),
           pc = "fallback" => Unusable(tab[t].gid)
    PROVE  TabInv(t)'
<1>1. /\ tab[t].gid \in Token \cup {None} /\ tab[t].seen \subseteq Families
  BY DEF Request
<1>2. IssuedNext(tab[t].gid)
  BY <1>1, IssuedGrows DEF TabInv
<1>3. Issued(tab[t].gid)' /\ Issued(tab[t].set)'
  BY <1>2 DEF Issued, IssuedNext
<1>4. \A f \in tab'[t].seen :
          /\ fam'[f].st # "none"
          /\ fam'[f].bind = tab'[t].bind \/ (tab'[t].gid # None /\ f = tab'[t].gid.f)
  BY <1>1 DEF TabInv, FamiliesGrow
<1>5. tab'[t].pc = "fallback" => Unusable(tab[t].gid)'
  <2>1. ASSUME pc = "fallback"
        PROVE  tab[t].gid # None => fam'[tab[t].gid.f].st = "revoked" \/ ~MatchesNext(tab[t].gid)
    BY <1>1, <2>1, UnusableGrows DEF TabInv
  <2> QED BY <2>1 DEF Unusable, MatchesNext, Matches
<1>6. tab'[t].pc = "reply" /\ tab'[t].ok => SignedOutOf(t)'
  BY DEF SignedOutOf, SignedOutNext, MatchesNext, Matches
<1>7. tab'[t].refs # {} => tab'[t].pc = "reply"
  OBVIOUS
<1>8. tab'[t].ok => tab'[t].pc \in {"challenge", "reply"}
  OBVIOUS
<1> QED BY <1>3, <1>4, <1>5, <1>6, <1>7, <1>8 DEF TabInv

\* A request that waits.
LEMMA WaitingTab ==
    ASSUME RowTypes, RowTypes', FamiliesGrow, tab \in [Tabs -> Request], NEW u \in Tabs, TabInv(u),
           tab'[u].gid = tab[u].gid, tab'[u].bind = tab[u].bind, tab'[u].seen = tab[u].seen,
           tab'[u].pc = tab[u].pc, tab'[u].set = tab[u].set, tab'[u].ok = tab[u].ok,
           tab'[u].refs \in {tab[u].refs, {}}
    PROVE  TabInv(u)'
<1>1. tab[u].set \in Token \cup {None, Keep}
  BY DEF Request
<1>2. IssuedNext(tab[u].set)
  BY <1>1, IssuedGrows DEF TabInv
<1>3. /\ tab'[u].refs # {} => tab[u].pc = "reply"
      /\ tab[u].ok => tab[u].pc = "challenge" \/ (tab[u].pc = "reply" /\ SignedOutNext(u))
      /\ tab[u].pc = "fallback" => Unusable(tab[u].gid)
  BY SignedOutGrows DEF TabInv
<1> QED BY <1>1, <1>2, <1>3, MovesTab

LEMMA NoRequestTab ==
    ASSUME NEW t \in Tabs, tab'[t] = NoRequest
    PROVE  TabInv(t)'
<1>1. /\ NoRequest.pc = "idle" /\ NoRequest.gid = None /\ NoRequest.set = Keep
      /\ NoRequest.refs = {} /\ NoRequest.ok = FALSE /\ NoRequest.seen = {}
  BY DEF NoRequest
<1> QED BY <1>1 DEF TabInv, Issued, SignedOutOf, Unusable

LEMMA EndsTabs ==
    ASSUME RowTypes, RowTypes', FamiliesGrow, tab \in [Tabs -> Request],
           \A u \in Tabs : TabInv(u), NEW t \in Tabs, Ends(t)
    PROVE  \A u \in Tabs : TabInv(u)'
BY NoRequestTab, WaitingTab DEF Ends, OnlyTab

LEMMA MovesTabs ==
    ASSUME RowTypes, RowTypes', FamiliesGrow, tab \in [Tabs -> Request],
           \A u \in Tabs : TabInv(u), NEW t \in Tabs,
           NEW pc, NEW set \in Token \cup {None, Keep}, NEW refs, NEW ok, Moves(t, pc, set, refs, ok),
           refs # {} => pc = "reply",
           ok => pc = "challenge" \/ (pc = "reply" /\ SignedOutNext(t)),
           IssuedNext(set),
           pc = "fallback" => Unusable(tab[t].gid)
    PROVE  \A u \in Tabs : TabInv(u)'
<1>1. TabInv(t)'
  BY MovesTab DEF Moves
<1>2. \A u \in Tabs : u # t => TabInv(u)'
  BY WaitingTab DEF Moves, OnlyTab
<1> QED BY <1>1, <1>2

-----------------------------------------------------------------------------
(***************************************************************************)
(* What every step has to show.                                            *)
(***************************************************************************)

RestTypes ==
    /\ clock \in Nat
    /\ allowed \in [Apps -> SUBSET Emails]
    /\ jar \in [Browsers -> [gid : Token \cup {None}, bind : Bindings \cup {None},
                             state : [Apps -> Handoffs \cup {None}]]]
    /\ open \subseteq Sids /\ drawn \subseteq Bindings /\ replayed \subseteq Families
    /\ spent \in [requests : Nat, events : Nat]

LEMMA TypeParts == TypeOK <=> RowTypes /\ RestTypes /\ tab \in [Tabs -> Request]
BY DEF TypeOK, RowTypes, RestTypes

LEMMA TypePartsNext == TypeOK' <=> RowTypes' /\ RestTypes' /\ tab' \in [Tabs -> Request]
BY DEF TypeOK, RowTypes, RestTypes

\* A connection opened by a step is of an unrevoked session, and nobody
\* forgets a session to close that is still open.
OpenStep ==
    /\ replayed \subseteq replayed'
    /\ \A s \in open' : s \in open \/ sess'[s].st = "live"
    /\ \A u \in Tabs, s \in open' : s \in tab[u].refs => s \in tab'[u].refs

StepOK ==
    /\ RowStep /\ OpenStep
    /\ RestTypes' /\ HeldSecrets'
    /\ tab' \in [Tabs -> Request] /\ \A u \in Tabs : TabInv(u)'

LEMMA InvParts ==
    ASSUME IdentityInv
    PROVE  /\ RowTypes /\ RestTypes /\ tab \in [Tabs -> Request] /\ RowInv /\ clock \in Nat
           /\ HeldSecrets /\ RevokedIsClosed /\ \A t \in Tabs : TabInv(t)
BY TypeParts DEF IdentityInv, RequestInv, RestTypes

LEMMA RowsGrow ==
    ASSUME IdentityInv, RowStep
    PROVE  RowTypes' /\ RowInv' /\ FamiliesGrow /\ RevokedAreClosed
BY InvParts, RowStepResult DEF RowResult

LEMMA StepKeeps ==
    ASSUME IdentityInv, StepOK
    PROVE  IdentityInv'
<1>1. /\ RowTypes' /\ RowInv' /\ FamiliesGrow /\ RevokedAreClosed
  BY RowsGrow DEF StepOK
<1>2. RevokedIsClosed'
  <2> SUFFICES ASSUME NEW s \in open', sess'[s].st = "revoked"
               PROVE  sess'[s].fam \in replayed' \/ \E t \in Tabs : s \in tab'[t].refs
    BY DEF RevokedIsClosed
  <2>1. s \in open /\ s \in Sids
    BY DEF StepOK, OpenStep, RestTypes
  <2>2. CASE sess[s].st = "revoked" /\ sess'[s].fam = sess[s].fam
    BY <2>1, <2>2, InvParts DEF RevokedIsClosed, StepOK, OpenStep
  <2>3. CASE ~(sess[s].st = "revoked" /\ sess'[s].fam = sess[s].fam)
    BY <1>1, <2>1, <2>3 DEF RevokedAreClosed
  <2> QED BY <2>2, <2>3
<1>3. TypeOK' /\ RequestInv'
  BY <1>1, TypePartsNext DEF StepOK, RequestInv
<1> QED BY <1>1, <1>2, <1>3 DEF IdentityInv

\* A handler that changes rows and its own request, and nothing else.
Quiet ==
    /\ UNCHANGED <<clock, allowed, jar, open, spent>>
    /\ drawn' \subseteq Bindings /\ replayed' \subseteq Families /\ replayed \subseteq replayed'

LEMMA HeldGrow ==
    ASSUME IdentityInv, RowTypes', FamiliesGrow, UNCHANGED jar
    PROVE  HeldSecrets'
<1> SUFFICES ASSUME NEW b \in Browsers
             PROVE  Issued(jar[b].gid)'
  BY DEF HeldSecrets
<1>1. jar[b].gid \in Token \cup {None, Keep}
  BY InvParts DEF RestTypes
<1>2. IssuedNext(jar[b].gid)
  BY <1>1, InvParts, IssuedGrows DEF HeldSecrets
<1> QED BY <1>2 DEF Issued, IssuedNext

LEMMA QuietRest ==
    ASSUME IdentityInv, RowStep, Quiet
    PROVE  RestTypes' /\ HeldSecrets'
BY InvParts, RowsGrow, HeldGrow DEF Quiet, RestTypes

LEMMA QuietEnds ==
    ASSUME IdentityInv, RowStep, Quiet, NEW t \in Tabs, tab[t].pc # "reply", Ends(t)
    PROVE  StepOK
<1>1. \A u \in Tabs : TabInv(u)'
  BY InvParts, RowsGrow, EndsTabs
<1>2. tab[t].refs = {}
  BY InvParts DEF TabInv
<1>3. OpenStep
  BY <1>2 DEF OpenStep, Quiet, Ends, OnlyTab
<1> QED BY <1>1, <1>3, QuietRest DEF StepOK, Ends, OnlyTab

LEMMA QuietMoves ==
    ASSUME IdentityInv, RowStep, Quiet, NEW t \in Tabs, tab[t].pc # "reply",
           NEW pc, NEW set \in Token \cup {None, Keep}, NEW refs, NEW ok, Moves(t, pc, set, refs, ok),
           refs # {} => pc = "reply",
           ok => pc = "challenge" \/ (pc = "reply" /\ SignedOutNext(t)),
           IssuedNext(set),
           pc = "fallback" => Unusable(tab[t].gid)
    PROVE  StepOK
<1>1. \A u \in Tabs : TabInv(u)'
  BY InvParts, RowsGrow, MovesTabs
<1>2. tab[t].refs = {}
  BY InvParts DEF TabInv
<1>3. OpenStep
  BY <1>2 DEF OpenStep, Quiet, Moves, OnlyTab
<1> QED BY <1>1, <1>3, QuietRest DEF StepOK, Moves, OnlyTab

\* The step of a handler that replies with a secret that was issued.
LEMMA QuietReply ==
    ASSUME IdentityInv, RowStep, Quiet, NEW t \in Tabs,
           tab[t].pc \in {"open", "authorize", "dashboard"},
           NEW set \in Token \cup {None, Keep}, IssuedNext(set), NEW refs,
           (Ends(t) /\ refs = {}) \/ Moves(t, "reply", set, refs, tab[t].ok)
    PROVE  StepOK
<1>1. CASE Ends(t)
  BY <1>1, QuietEnds
<1>2. CASE Moves(t, "reply", set, refs, tab[t].ok)
  <2>1. ~tab[t].ok
    BY InvParts DEF TabInv
  <2> QED BY <1>2, <2>1, QuietMoves
<1> QED BY <1>1, <1>2

LEMMA NoneIssued == IssuedNext(None) /\ IssuedNext(Keep)
BY DEF IssuedNext

-----------------------------------------------------------------------------
(***************************************************************************)
(* The steps of a handler that presents an identity.                       *)
(***************************************************************************)

\* The secret a request presents was issued.
LEMMA PresentedSecret ==
    ASSUME IdentityInv, NEW t \in Tabs
    PROVE  /\ tab[t] \in Request /\ tab[t].gid \in Token \cup {None} /\ Issued(tab[t].gid)
           /\ tab[t].set \in Token \cup {None, Keep} /\ Issued(tab[t].set)
BY InvParts DEF Request, TabInv

LEMMA ReplayRows ==
    ASSUME IdentityInv, NEW tok \in Token, CommitReplay(tok), UNCHANGED chal
    PROVE  RowStep /\ replayed \subseteq replayed' /\ replayed' \subseteq Families
<1>1. tok.f \in Families /\ fam[tok.f].st = "live"
  BY TokenParts DEF CommitReplay, Replay, Recognised
<1>2. replayed \subseteq replayed' /\ replayed' \subseteq Families /\ tok.f \in replayed'
  BY <1>1, InvParts DEF CommitReplay, RestTypes
<1>3. FamiliesEnd
  BY <1>1, <1>2 DEF CommitReplay, FamiliesEnd, Closing
<1> QED BY <1>2, <1>3 DEF RowStep

LEMMA ValidRows ==
    ASSUME IdentityInv, NEW tok \in Token, CommitValid(tok), UNCHANGED chal
    PROVE  /\ RowStep /\ UNCHANGED replayed
           /\ Replacement(tok) \in Token \cup {Keep} /\ IssuedNext(Replacement(tok))
           /\ Latest(tok) \in Token
<1>1. tok.f \in Families /\ tok.n \in Nat /\ fam[tok.f].st = "live"
  BY TokenParts DEF CommitValid, Valid, Recognised
<1>2. CASE DueRotation(tok)
  <2>1. SecretRotates
    BY <1>2 DEF CommitValid, SecretRotates
  <2>2. Rotated(tok) \in Token /\ Rotated(tok).f = tok.f /\ Rotated(tok).n = tok.n + 1
    BY <1>1 DEF Rotated, Token
  <2>3. fam' = RotateRow(tok) /\ fam[tok.f] \in FamilyRow
    BY <1>1, <1>2, InvParts DEF CommitValid, RowTypes
  <2>4. fam'[tok.f].n = tok.n + 1
    <3>1. DOMAIN fam[tok.f] = {"st", "email", "bind", "n", "until", "rotated", "created", "of"}
      BY <2>3 DEF FamilyRow
    <3>2. fam'[tok.f] = [fam[tok.f] EXCEPT !.n = tok.n + 1, !.until = clock + Overlap,
                                           !.rotated = clock]
      BY <1>1, <2>3, InvParts DEF RotateRow, RowTypes
    <3> QED BY <3>1, <3>2
  <2>5. fam'[tok.f].st # "none"
    BY <1>1, <2>1, RowsGrow DEF RowStep, FamiliesGrow
  <2> QED BY <1>1, <1>2, <2>1, <2>2, <2>4, <2>5
          DEF RowStep, CommitValid, Replacement, Latest, IssuedNext
<1>3. CASE ~DueRotation(tok)
  <2>1. UNCHANGED rows
    BY <1>3 DEF CommitValid, rows
  <2> QED BY <1>3, <2>1, NoneIssued DEF RowStep, CommitValid, Replacement, Latest
<1> QED BY <1>2, <1>3

LEMMA UnknownRows ==
    ASSUME IdentityInv, NEW tok, CommitUnknown(tok) \/ CommitNoRole(tok), UNCHANGED chal
    PROVE  RowStep /\ UNCHANGED replayed
BY DEF CommitUnknown, CommitNoRole, RowStep, rows

LEMMA QuietFrom ==
    ASSUME IdentityInv, UNCHANGED <<clock, allowed, jar, open, spent>>,
           drawn' = drawn \/ drawn' \subseteq Bindings,
           replayed' = replayed \/ (replayed \subseteq replayed' /\ replayed' \subseteq Families)
    PROVE  Quiet
BY InvParts DEF Quiet, RestTypes

LEMMA ChildrenAreSids == ASSUME NEW F PROVE Children(F) \in SUBSET Sids
BY DEF Children

LEMMA IdentityPageOK ==
    ASSUME IdentityInv, NEW t \in Tabs, identityPage(t)
    PROVE  StepOK
<1> DEFINE tok == tab[t].gid
<1>1. tok \in Token /\ tab[t].pc = "open" /\ tab \in [Tabs -> Request] /\ drawn \subseteq Bindings
  BY PresentedSecret, InvParts DEF identityPage, RestTypes
<1>2. UNCHANGED <<clock, allowed, jar, open, spent>> /\ UNCHANGED chal
  BY DEF identityPage
<1>3. CASE CommitReplay(tok) /\ ReplyWithForm(t, None, Children({tok.f}))
  <2>1. RowStep /\ Quiet
    BY <1>1, <1>2, <1>3, ReplayRows, QuietFrom, FormMoves, ChildrenAreSids
  <2>2. (Ends(t) /\ Children({tok.f}) = {}) \/ Moves(t, "reply", None, Children({tok.f}), tab[t].ok)
    BY <1>1, <1>3, FormMoves, ChildrenAreSids
  <2> QED BY <1>1, <2>1, <2>2, NoneIssued, QuietReply
<1>4. CASE CommitUnknown(tok) /\ ReplyWithForm(t, None, {})
  <2>1. RowStep /\ Quiet
    BY <1>1, <1>2, <1>4, UnknownRows, QuietFrom, FormMoves
  <2>2. (Ends(t) /\ {} = {}) \/ Moves(t, "reply", None, {}, tab[t].ok)
    BY <1>1, <1>4, FormMoves
  <2> QED BY <1>1, <2>1, <2>2, NoneIssued, QuietReply
<1>5. CASE /\ CommitValid(tok) /\ UNCHANGED drawn
           /\ Goto(t, [tab[t] EXCEPT !.pc = "authorize", !.raw = Latest(tok),
                                     !.set = Replacement(tok)])
  <2>1. /\ RowStep /\ Quiet /\ Latest(tok) \in Token
        /\ Replacement(tok) \in Token \cup {Keep} /\ IssuedNext(Replacement(tok))
    BY <1>1, <1>2, <1>5, ValidRows, QuietFrom
  <2>2. Moves(t, "authorize", Replacement(tok), tab[t].refs, tab[t].ok)
    BY <1>1, <1>5, <2>1, AuthorizeMoves
  <2>3. ~tab[t].ok /\ tab[t].refs = {}
    BY <1>1, InvParts DEF TabInv
  <2> QED BY <1>1, <2>1, <2>2, <2>3, QuietMoves
<1> QED BY <1>3, <1>4, <1>5 DEF identityPage

LEMMA LoginFormOK ==
    ASSUME IdentityInv, NEW t \in Tabs, LoginForm(t)
    PROVE  StepOK
<1>1. tab[t].pc = "open" /\ tab \in [Tabs -> Request] /\ drawn \subseteq Bindings
  BY InvParts DEF LoginForm, RestTypes
<1>2. /\ (Ends(t) /\ {} = {}) \/ Moves(t, "reply", Keep, {}, tab[t].ok)
      /\ drawn' \subseteq Bindings
  BY <1>1, FormMoves DEF LoginForm
<1>3. RowStep /\ Quiet
  BY <1>2, QuietFrom DEF LoginForm, RowStep
<1> QED BY <1>1, <1>2, <1>3, NoneIssued, QuietReply

LEMMA AuthorizeIdentityHandoffOK ==
    ASSUME IdentityInv, NEW t \in Tabs, NEW h \in Handoffs, AuthorizeIdentityHandoff(t, h)
    PROVE  StepOK
<1>1. /\ tab[t].pc = "authorize" /\ tab \in [Tabs -> Request] /\ tab[t] \in Request
      /\ tab[t].set \in Token \cup {None, Keep} /\ Issued(tab[t].set)
  BY InvParts, PresentedSecret DEF AuthorizeIdentityHandoff
<1>2. RowStep
  <2>1. CASE UNCHANGED handoff
    BY <2>1 DEF AuthorizeIdentityHandoff, RowStep, rows
  <2>2. CASE /\ Valid(tab[t].raw) /\ Live(h)
             /\ handoff' = [handoff EXCEPT ![h].fam = tab[t].raw.f]
    <3> DEFINE r == [handoff[h] EXCEPT !.fam = tab[t].raw.f]
    <3>1. tab[t].raw \in Token
      BY <1>1, <2>2 DEF Request, Valid, Recognised, Matches
    <3>2. tab[t].raw.f \in Families /\ fam[tab[t].raw.f].st = "live"
      BY <2>2, <3>1, TokenParts DEF Valid, Recognised
    <3>3. handoff[h] \in HandoffRow /\ handoff[h].st = "open"
      BY <2>2, InvParts DEF RowTypes, Live
    <3>4. r \in HandoffRow /\ r.st = "open" /\ r.fam = tab[t].raw.f
      BY <3>2, <3>3 DEF HandoffRow
    <3>5. handoff' = [handoff EXCEPT ![h] = r]
      BY <2>2
    <3> HIDE DEF r
    <3>6. HandoffChanges
      BY <3>2, <3>3, <3>4, <3>5 DEF HandoffChanges, AuthorizeIdentityHandoff
    <3> QED BY <3>6 DEF RowStep
  <2> QED BY <2>1, <2>2 DEF AuthorizeIdentityHandoff
<1>3. Quiet
  BY QuietFrom DEF AuthorizeIdentityHandoff
<1>4. (Ends(t) /\ {} = {}) \/ Moves(t, "reply", tab[t].set, {}, tab[t].ok)
  BY <1>1, ReplyMoves DEF AuthorizeIdentityHandoff
<1>5. IssuedNext(tab[t].set)
  BY <1>1, <1>2, InvParts, RowsGrow, IssuedGrows
<1> QED BY <1>1, <1>2, <1>3, <1>4, <1>5, QuietReply

\* A handler that validates the presented secret and replies.
LEMMA ValidatedReply ==
    ASSUME IdentityInv, NEW t \in Tabs, tab[t].pc \in {"open", "dashboard"}, NEW tok \in Token \cup {None},
           UNCHANGED <<clock, chal, allowed, jar, open, drawn, spent>>,
           NEW refs \in SUBSET Sids,
           \/ (CommitReplay(tok) \/ CommitUnknown(tok) \/ CommitNoRole(tok))
              /\ (Reply(t, None, refs) \/ Reply(t, Keep, refs))
           \/ CommitValid(tok) /\ Reply(t, Replacement(tok), refs)
    PROVE  StepOK
<1>1. tab \in [Tabs -> Request] /\ (CommitReplay(tok) \/ CommitValid(tok) => tok \in Token)
  BY InvParts DEF CommitReplay, CommitValid, Replay, Valid, Recognised, Matches
<1>2. ASSUME NEW set \in {None, Keep}, Reply(t, set, refs),
             CommitReplay(tok) \/ CommitUnknown(tok) \/ CommitNoRole(tok)
      PROVE  StepOK
  <2>1. RowStep /\ Quiet
    BY <1>1, <1>2, ReplayRows, UnknownRows, QuietFrom
  <2>2. (Ends(t) /\ refs = {}) \/ Moves(t, "reply", set, refs, tab[t].ok)
    BY <1>1, <1>2, ReplyMoves
  <2> QED BY <1>2, <2>1, <2>2, NoneIssued, QuietReply
<1>3. CASE CommitValid(tok) /\ Reply(t, Replacement(tok), refs)
  <2>1. /\ RowStep /\ Quiet
        /\ Replacement(tok) \in Token \cup {None, Keep} /\ IssuedNext(Replacement(tok))
    BY <1>1, <1>3, ValidRows, QuietFrom
  <2>2. (Ends(t) /\ refs = {}) \/ Moves(t, "reply", Replacement(tok), refs, tab[t].ok)
    BY <1>1, <1>3, <2>1, ReplyMoves
  <2> QED BY <2>1, <2>2, QuietReply
<1> QED BY <1>2, <1>3

LEMMA AuthenticateOK ==
    ASSUME IdentityInv, NEW t \in Tabs,
           AuthenticateViewer(t) \/ AuthenticatePlatform(t)
    PROVE  StepOK
<1> DEFINE tok == tab[t].gid
<1>1. tok \in Token /\ tab[t].pc = "open"
  BY PresentedSecret DEF AuthenticateViewer, AuthenticatePlatform
<1>2. UNCHANGED <<clock, chal, allowed, jar, open, drawn, spent>>
  BY DEF AuthenticateViewer, AuthenticatePlatform
<1>3. CASE CommitReplay(tok) /\ Reply(t, None, Children({tok.f}))
  BY <1>1, <1>2, <1>3, ValidatedReply, ChildrenAreSids
<1>4. CASE /\ CommitReplay(tok) \/ CommitUnknown(tok) \/ CommitNoRole(tok)
           /\ Reply(t, None, {}) \/ Reply(t, Keep, {})
  BY <1>1, <1>2, <1>4, ValidatedReply
<1>5. CASE CommitValid(tok) /\ Reply(t, Replacement(tok), {})
  BY <1>1, <1>2, <1>5, ValidatedReply
<1> QED BY <1>3, <1>4, <1>5 DEF AuthenticateViewer, AuthenticatePlatform

LEMMA PlatformLoginPageOK ==
    ASSUME IdentityInv, NEW t \in Tabs, platformLoginPage(t)
    PROVE  StepOK
<1> DEFINE tok == tab[t].gid
<1>1. /\ tok \in Token /\ tab[t].pc = "open" /\ tab \in [Tabs -> Request]
      /\ drawn \subseteq Bindings
      /\ tab[t].set \in Token \cup {None, Keep} /\ Issued(tab[t].set)
  BY PresentedSecret, InvParts DEF platformLoginPage, RestTypes
<1>2. UNCHANGED <<clock, allowed, jar, open, spent>> /\ UNCHANGED chal
  BY DEF platformLoginPage
<1>3. CASE CommitReplay(tok) /\ ReplyWithForm(t, None, Children({tok.f}))
  <2>1. RowStep /\ Quiet
    BY <1>1, <1>2, <1>3, ReplayRows, QuietFrom, FormMoves, ChildrenAreSids
  <2>2. (Ends(t) /\ Children({tok.f}) = {}) \/ Moves(t, "reply", None, Children({tok.f}), tab[t].ok)
    BY <1>1, <1>3, FormMoves, ChildrenAreSids
  <2> QED BY <1>1, <2>1, <2>2, NoneIssued, QuietReply
<1>4. CASE CommitUnknown(tok) /\ ReplyWithForm(t, None, {})
  <2>1. RowStep /\ Quiet
    BY <1>1, <1>2, <1>4, UnknownRows, QuietFrom, FormMoves
  <2>2. (Ends(t) /\ {} = {}) \/ Moves(t, "reply", None, {}, tab[t].ok)
    BY <1>1, <1>4, FormMoves
  <2> QED BY <1>1, <2>1, <2>2, NoneIssued, QuietReply
<1>5. CASE CommitValid(tok) /\ UNCHANGED drawn /\ Goto(t, [tab[t] EXCEPT !.pc = "dashboard"])
  <2>1. RowStep /\ Quiet
    BY <1>1, <1>2, <1>5, ValidRows, QuietFrom
  <2>2. Moves(t, "dashboard", tab[t].set, tab[t].refs, tab[t].ok)
    BY <1>1, <1>5, PcMoves DEF PCs
  <2>3. ~tab[t].ok /\ tab[t].refs = {}
    BY <1>1, InvParts DEF TabInv
  <2>4. IssuedNext(tab[t].set)
    BY <1>1, <2>1, InvParts, RowsGrow, IssuedGrows
  <2> QED BY <1>1, <2>1, <2>2, <2>3, <2>4, QuietMoves
<1> QED BY <1>3, <1>4, <1>5 DEF platformLoginPage

LEMMA PlatformDashboardOK ==
    ASSUME IdentityInv, NEW t \in Tabs, platformDashboard(t)
    PROVE  StepOK
<1> DEFINE tok == tab[t].gid
<1>1. tok \in Token \cup {None} /\ tab[t].pc = "dashboard"
  BY PresentedSecret DEF platformDashboard
<1>2. UNCHANGED <<clock, chal, allowed, jar, open, drawn, spent>>
  BY DEF platformDashboard
<1>3. CASE /\ CommitReplay(tok) \/ CommitUnknown(tok) \/ CommitNoRole(tok)
           /\ Reply(t, Keep, {})
  BY <1>1, <1>2, <1>3, ValidatedReply
<1>4. CASE CommitValid(tok) /\ Reply(t, Replacement(tok), {})
  BY <1>1, <1>2, <1>4, ValidatedReply
<1> QED BY <1>3, <1>4 DEF platformDashboard

-----------------------------------------------------------------------------
(***************************************************************************)
(* Replies.                                                                *)
(***************************************************************************)

LEMMA RevokeChildrenOK ==
    ASSUME IdentityInv, NEW t \in Tabs, RevokeChildren(t)
    PROVE  StepOK
<1> DEFINE r == [tab[t] EXCEPT !.refs = {}]
<1>1. tab \in [Tabs -> Request] /\ tab[t] \in Request
  BY InvParts
<1>2. r \in Request
  BY <1>1, OneField
<1>3. /\ r.gid = tab[t].gid /\ r.bind = tab[t].bind /\ r.seen = tab[t].seen
      /\ r.ok = tab[t].ok /\ r.pc = tab[t].pc /\ r.set = tab[t].set /\ r.refs = {}
  BY <1>1, RequestDomain
<1>4. tab' = [tab EXCEPT ![t] = r]
  BY DEF RevokeChildren
<1> HIDE DEF r
<1>5. tab' \in [Tabs -> Request] /\ tab'[t] = r /\ \A u \in Tabs : u # t => tab'[u] = tab[u]
  BY <1>1, <1>2, <1>4
<1>6. RowStep
  BY DEF RevokeChildren, RowStep
<1>7. \A u \in Tabs : TabInv(u)'
  <2>1. TabInv(t)'
    BY <1>3, <1>5, <1>6, InvParts, RowsGrow, WaitingTab
  <2>2. \A u \in Tabs : u # t => TabInv(u)'
    BY <1>5, <1>6, InvParts, RowsGrow, WaitingTab
  <2> QED BY <2>1, <2>2
<1>8. OpenStep
  BY <1>5 DEF RevokeChildren, OpenStep
<1>9. RestTypes' /\ HeldSecrets'
  BY <1>6, InvParts, RowsGrow, HeldGrow DEF RevokeChildren, RestTypes
<1> QED BY <1>5, <1>6, <1>7, <1>8, <1>9 DEF StepOK

LEMMA DeliverOK ==
    ASSUME IdentityInv, NEW t \in Tabs, Deliver(t)
    PROVE  StepOK
<1>1. /\ tab \in [Tabs -> Request] /\ tab[t] \in Request /\ tab[t].refs = {}
      /\ tab[t].set \in Token \cup {None, Keep} /\ Issued(tab[t].set)
      /\ tab[t].newBind \in Bindings \cup {None}
  BY InvParts, PresentedSecret DEF Deliver, Request
<1>2. RowStep /\ Ends(t)
  BY <1>1, DoneEnds DEF Deliver, RowStep
<1>3. \A u \in Tabs : TabInv(u)'
  BY <1>2, InvParts, RowsGrow, EndsTabs
<1>4. OpenStep
  BY <1>1, <1>2 DEF Deliver, OpenStep, Ends, OnlyTab
<1> DEFINE Jar == [gid : Token \cup {None}, bind : Bindings \cup {None},
                   state : [Apps -> Handoffs \cup {None}]]
           b == tab[t].b
           r == [jar[b] EXCEPT !.gid = IF tab[t].set = Keep THEN @ ELSE tab[t].set,
                               !.bind = IF tab[t].newBind = None THEN @ ELSE tab[t].newBind]
<1>5. jar \in [Browsers -> Jar]
  BY InvParts DEF RestTypes
<1>6. jar' = [jar EXCEPT ![b] = r]
  BY <1>5 DEF Deliver
<1>7. ASSUME b \in Browsers
      PROVE  r \in Jar /\ (r.gid = jar[b].gid \/ (tab[t].set # Keep /\ r.gid = tab[t].set))
  <2>1. jar[b] \in Jar
    BY <1>5, <1>7
  <2>2. r.gid = IF tab[t].set = Keep THEN jar[b].gid ELSE tab[t].set
    BY <2>1
  <2>3. r.bind = IF tab[t].newBind = None THEN jar[b].bind ELSE tab[t].newBind
    BY <2>1
  <2>4. r.state = jar[b].state
    BY <2>1
  <2> QED BY <1>1, <2>1, <2>2, <2>3, <2>4
<1> HIDE DEF r
<1>8. jar' \in [Browsers -> Jar] /\ \A c \in Browsers : c # b => jar'[c] = jar[c]
  BY <1>5, <1>6, <1>7
<1>9. b \in Browsers => jar'[b] = r
  BY <1>5, <1>6
<1>10. RestTypes'
  BY <1>8, InvParts DEF Deliver, RestTypes
<1>11. HeldSecrets'
  <2> SUFFICES ASSUME NEW c \in Browsers
               PROVE  Issued(jar[c].gid)'
    BY DEF HeldSecrets
  <2>1. jar[c].gid \in Token \cup {None, Keep} /\ Issued(jar[c].gid)
    BY <1>5, InvParts DEF HeldSecrets
  <2>2. IssuedNext(jar[c].gid) /\ IssuedNext(tab[t].set)
    BY <1>1, <1>2, <2>1, InvParts, RowsGrow, IssuedGrows
  <2>3. jar'[c].gid = jar[c].gid \/ jar'[c].gid = tab[t].set
    BY <1>7, <1>8, <1>9
  <2> QED BY <2>2, <2>3 DEF Issued, IssuedNext
<1> QED BY <1>2, <1>3, <1>4, <1>10, <1>11 DEF StepOK, Ends, OnlyTab

LEMMA EventType ==
    ASSUME spent \in [requests : Nat, events : Nat], UNCHANGED spent \/ Event
    PROVE  spent' \in [requests : Nat, events : Nat]
<1>1. spent.events \in Nat
  OBVIOUS
<1>2. CASE Event
  BY <1>1, <1>2 DEF Event
<1> QED BY <1>2

LEMMA FailOK ==
    ASSUME IdentityInv, NEW t \in Tabs, Fail(t)
    PROVE  StepOK
<1>1. tab \in [Tabs -> Request] /\ tab[t].refs = {}
  BY InvParts DEF Fail
<1>2. RowStep /\ Ends(t)
  BY <1>1, DoneEnds DEF Fail, RowStep
<1>3. \A u \in Tabs : TabInv(u)'
  BY <1>2, InvParts, RowsGrow, EndsTabs
<1>4. OpenStep
  BY <1>1, <1>2 DEF Fail, OpenStep, Ends, OnlyTab
<1>5. RestTypes'
  BY InvParts, EventType DEF Fail, RestTypes
<1>6. HeldSecrets'
  BY <1>2, InvParts, RowsGrow, HeldGrow DEF Fail
<1> QED BY <1>2, <1>3, <1>4, <1>5, <1>6 DEF StepOK, Ends, OnlyTab

LEMMA SendOK ==
    ASSUME IdentityInv, NEW t \in Tabs, NEW b \in Browsers, Send(t, b)
    PROVE  StepOK
<1> DEFINE seen == Bound(jar[b].bind) \cup Presented(jar[b].gid)
           q == [[[NoRequest EXCEPT !.pc = "open"] EXCEPT !.b = b] EXCEPT !.gid = jar[b].gid]
           p == [q EXCEPT !.bind = jar[b].bind]
           r == [p EXCEPT !.seen = seen]
<1>1. tab \in [Tabs -> Request] /\ tab[t].pc = "idle" /\ tab[t].refs = {}
  BY InvParts DEF Send, TabInv
<1>2. /\ jar[b].gid \in Token \cup {None} /\ jar[b].bind \in Bindings \cup {None}
      /\ seen \in SUBSET Families
  BY InvParts DEF RestTypes, Bound, Presented
<1>3. q \in Request
  <2>1. [NoRequest EXCEPT !.pc = "open"] \in Request
    BY NoRequestType, OneField DEF PCs
  <2>2. [[NoRequest EXCEPT !.pc = "open"] EXCEPT !.b = b] \in Request
    BY <2>1, OneField
  <2> QED BY <1>2, <2>2, OneField
<1>4. q.gid = jar[b].gid /\ q.pc = "open" /\ q.set = Keep /\ q.refs = {} /\ ~q.ok
  BY DEF NoRequest
<1>5. tab' = [tab EXCEPT ![t] = r]
  BY Zenon DEF Send
<1> HIDE DEF q, seen
<1>6. p \in Request /\ r \in Request
  <2>1. p \in Request
    BY <1>2, <1>3, OneField
  <2> QED BY <1>2, <2>1, OneField
<1>7. /\ r.gid = jar[b].gid /\ r.bind = jar[b].bind /\ r.seen = seen
      /\ r.pc = "open" /\ r.set = Keep /\ r.refs = {} /\ ~r.ok
  BY <1>3, <1>4, RequestDomain
<1> HIDE DEF r
<1>8. tab' \in [Tabs -> Request] /\ tab'[t] = r /\ \A u \in Tabs : u # t => tab'[u] = tab[u]
  BY <1>1, <1>5, <1>6
<1>9. RowStep /\ UNCHANGED fam
  BY DEF Send, RowStep, rows
<1>10. TabInv(t)'
  <2>1. Issued(tab[t].gid)' /\ Issued(tab[t].set)'
    BY <1>7, <1>8, <1>9, InvParts DEF HeldSecrets, Issued
  <2>2. \A f \in seen : /\ fam[f].st # "none"
                        /\ fam[f].bind = jar[b].bind \/ (jar[b].gid # None /\ f = jar[b].gid.f)
    BY DEF seen, Bound, Presented, Matches
  <2>3. \A f \in tab'[t].seen :
            /\ fam'[f].st # "none"
            /\ fam'[f].bind = tab'[t].bind \/ (tab'[t].gid # None /\ f = tab'[t].gid.f)
    BY <1>7, <1>8, <1>9, <2>2
  <2>4. tab'[t].pc = "open" /\ tab'[t].refs = {} /\ ~tab'[t].ok
    BY <1>7, <1>8
  <2> QED BY <2>1, <2>3, <2>4 DEF TabInv
<1>11. \A u \in Tabs : TabInv(u)'
  BY <1>8, <1>9, <1>10, InvParts, RowsGrow, WaitingTab
<1>12. OpenStep
  BY <1>1, <1>8 DEF Send, OpenStep
<1>13. spent' \in [requests : Nat, events : Nat]
  BY InvParts DEF Send, RestTypes
<1>14. RestTypes' /\ HeldSecrets'
  BY <1>9, <1>13, InvParts, RowsGrow, HeldGrow DEF Send, RestTypes
<1> QED BY <1>8, <1>9, <1>11, <1>12, <1>14 DEF StepOK

-----------------------------------------------------------------------------
(***************************************************************************)
(* Codes and logins.                                                       *)
(***************************************************************************)

LEMMA NewChallengeRows ==
    ASSUME RowTypes, clock \in Nat, NEW c \in UnusedChallenge, NEW a \in Apps \cup {Platform, None},
           NEW e \in Emails \cup {None}, NEW k \in Bindings \cup {None}, NEW mailed \in BOOLEAN,
           NewChallenge(c, a, e, k, mailed), UNCHANGED <<fam, handoff, sess>>
    PROVE  RowStep
<1> DEFINE r == [st |-> "open", app |-> a, email |-> e, bind |-> k,
                 created |-> clock, attempts |-> 0, mailed |-> mailed]
<1>1. c \in Challenges /\ chal[c].st = "none"
  BY DEF UnusedChallenge, Fresh
<1>2. r \in ChallengeRow
  BY DEF ChallengeRow
<1>3. chal' = [d \in Challenges |->
        IF d = c THEN r
        ELSE IF chal[d].st = "open" /\ chal[d].app = a /\ chal[d].email = e /\ chal[d].bind = k
             THEN [chal[d] EXCEPT !.st = "invalid"] ELSE chal[d]]
  BY DEF NewChallenge
<1> HIDE DEF r
<1>4. ASSUME NEW d \in Challenges
      PROVE  chal'[d] \in ChallengeRow /\ (chal[d].st = "consumed" => chal'[d].st = "consumed")
  <2>1. chal[d] \in ChallengeRow
    BY DEF RowTypes
  <2>2. [chal[d] EXCEPT !.st = "invalid"] \in ChallengeRow
    BY <2>1 DEF ChallengeRow
  <2> QED BY <1>1, <1>2, <1>3, <2>1, <2>2
<1>5. chal' \in [Challenges -> ChallengeRow]
  BY <1>3, <1>4
<1> QED BY <1>4, <1>5 DEF CodesChange, RowStep

LEMMA CreateChallengeOK ==
    ASSUME IdentityInv, NEW t \in Tabs, CreateChallenge(t)
    PROVE  StepOK
<1>1. /\ tab \in [Tabs -> Request] /\ tab[t].pc = "challenge"
      /\ tab[t].app \in Apps \cup {Platform, None} /\ tab[t].email \in Emails \cup {None}
      /\ tab[t].ok \in BOOLEAN /\ None \in Bindings \cup {None}
  BY InvParts DEF CreateChallenge, Request
<1>2. PICK c \in UnusedChallenge : NewChallenge(c, tab[t].app, tab[t].email, None, tab[t].ok)
  BY DEF CreateChallenge
<1>3. RowStep
  BY <1>1, <1>2, InvParts, NewChallengeRows DEF CreateChallenge
<1>4. Ends(t) /\ Quiet
  BY <1>1, DoneEnds, QuietFrom DEF CreateChallenge
<1> QED BY <1>1, <1>3, <1>4, QuietEnds

LEMMA PlatformRequestOTPOK ==
    ASSUME IdentityInv, NEW t \in Tabs, NEW e \in Emails, platformRequestOTP(t, e)
    PROVE  StepOK
<1>1. /\ tab \in [Tabs -> Request] /\ tab[t].pc = "open"
      /\ tab[t].bind \in Bindings \cup {None}
  BY InvParts DEF platformRequestOTP, Form, Request
<1>2. PICK c \in UnusedChallenge : NewChallenge(c, Platform, e, tab[t].bind, TRUE)
  BY DEF platformRequestOTP, RequestPlatformIdentityOTP
<1>3. RowStep
  BY <1>1, <1>2, InvParts, NewChallengeRows DEF platformRequestOTP, RequestPlatformIdentityOTP
<1>4. Ends(t) /\ Quiet
  BY <1>1, DoneEnds, QuietFrom DEF platformRequestOTP, RequestPlatformIdentityOTP
<1> QED BY <1>1, <1>3, <1>4, QuietEnds

LEMMA WrongCodeOK ==
    ASSUME IdentityInv, NEW t \in Tabs, NEW c \in Challenges, WrongCode(t, c)
    PROVE  StepOK
<1>1. tab \in [Tabs -> Request] /\ tab[t].pc = "open" /\ chal[c].st = "open"
  BY InvParts DEF WrongCode, Form, Checkable
<1> DEFINE r == [chal[c] EXCEPT !.attempts = @ + 1]
<1>2. chal \in [Challenges -> ChallengeRow] /\ chal[c] \in ChallengeRow
  BY InvParts DEF RowTypes
<1>3. r \in ChallengeRow
  BY <1>2 DEF ChallengeRow
<1>4. chal' = [chal EXCEPT ![c] = r]
  BY DEF WrongCode
<1> HIDE DEF r
<1>5. CodesChange
  BY <1>1, <1>2, <1>3, <1>4 DEF WrongCode, CodesChange
<1>6. Ends(t) /\ Quiet
  BY <1>1, DoneEnds, QuietFrom DEF WrongCode
<1> QED BY <1>1, <1>5, <1>6, QuietEnds DEF RowStep

LEMMA RequestOTPOK ==
    ASSUME IdentityInv, NEW t \in Tabs, NEW h \in Handoffs, NEW e \in Emails, requestOTP(t, h, e)
    PROVE  StepOK
<1>1. /\ tab \in [Tabs -> Request] /\ tab[t].pc = "open" /\ tab[t].bind \in Bindings \cup {None}
      /\ tab[t].set \in Token \cup {None, Keep} /\ Issued(tab[t].set)
      /\ ~tab[t].ok /\ tab[t].refs = {}
  BY InvParts, PresentedSecret DEF requestOTP, Form, Request, TabInv
<1>2. /\ handoff \in [Handoffs -> HandoffRow] /\ handoff[h] \in HandoffRow /\ handoff[h].st = "open"
      /\ handoff[h].app \in Apps \cup {None}
  BY InvParts DEF RowTypes, requestOTP, RequestIdentityOTP, Live, HandoffRow
<1> DEFINE r == [handoff[h] EXCEPT !.bind = tab[t].bind]
<1>3. r \in HandoffRow /\ r.st = "open" /\ r.fam = handoff[h].fam
  BY <1>1, <1>2 DEF HandoffRow
<1>4. handoff' = [handoff EXCEPT ![h] = r]
  BY DEF requestOTP, RequestIdentityOTP
<1> HIDE DEF r
<1>5. RowStep
  <2>1. HandoffChanges
    BY <1>2, <1>3, <1>4 DEF HandoffChanges, requestOTP, RequestIdentityOTP
  <2> QED BY <2>1 DEF RowStep
<1>6. Quiet
  BY QuietFrom DEF requestOTP, RequestIdentityOTP
<1>7. policyAllows(handoff[h].app, e) \in BOOLEAN
  BY DEF policyAllows
<1>8. Moves(t, "challenge", tab[t].set, tab[t].refs, policyAllows(handoff[h].app, e))
  BY <1>1, <1>2, <1>7, ChallengeMoves DEF requestOTP, RequestIdentityOTP
<1>9. IssuedNext(tab[t].set)
  BY <1>1, <1>5, InvParts, RowsGrow, IssuedGrows
<1> QED BY <1>1, <1>5, <1>6, <1>8, <1>9, QuietMoves

LEMMA UseAnotherOK ==
    ASSUME IdentityInv, NEW t \in Tabs, NEW h \in Handoffs, useAnother(t, h)
    PROVE  StepOK
<1>1. tab[t].pc = "open" /\ tab \in [Tabs -> Request] /\ drawn \subseteq Bindings
  BY InvParts DEF useAnother, RestTypes
<1>2. handoff \in [Handoffs -> HandoffRow] /\ handoff[h] \in HandoffRow /\ handoff[h].st = "open"
  BY InvParts DEF RowTypes, useAnother, Live
<1> DEFINE q == [handoff[h] EXCEPT !.force = TRUE]
           r == [q EXCEPT !.fam = None]
<1>3. q \in HandoffRow /\ q.st = "open"
  BY <1>2 DEF HandoffRow
<1>4. handoff' = [handoff EXCEPT ![h] = r]
  BY <1>2 DEF useAnother
<1> HIDE DEF q
<1>5. r \in HandoffRow /\ r.st = "open" /\ r.fam = None
  BY <1>3 DEF HandoffRow
<1> HIDE DEF r
<1>6. RowStep
  <2>1. HandoffChanges
    BY <1>2, <1>4, <1>5 DEF HandoffChanges, useAnother
  <2> QED BY <2>1 DEF RowStep
<1>7. /\ (Ends(t) /\ {} = {}) \/ Moves(t, "reply", Keep, {}, tab[t].ok)
      /\ drawn' \subseteq Bindings
  BY <1>1, FormMoves DEF useAnother
<1>8. Quiet
  BY <1>7, QuietFrom DEF useAnother
<1> QED BY <1>1, <1>6, <1>7, <1>8, NoneIssued, QuietReply

\* A completed login, with or without a handoff.
LEMMA IssueIdentityOK ==
    ASSUME IdentityInv, NEW t \in Tabs, Form(t), NEW c \in Challenges, Checkable(c),
           NEW f \in UnusedFamily, NEW force \in BOOLEAN, IssueIdentity(t, c, f, force),
           \/ handoff' = RevokedHandoffs(Replaced(t, force))
           \/ \E h \in Handoffs : handoff' = [RevokedHandoffs(Replaced(t, force)) EXCEPT ![h].fam = f],
           UNCHANGED <<clock, allowed, jar, open, drawn, replayed, spent>>
    PROVE  StepOK
<1> DEFINE F == Replaced(t, force)
           k == tab[t].bind
           set == [f |-> f, n |-> 0]
<1>1. /\ tab \in [Tabs -> Request] /\ tab[t].pc = "open" /\ k \in Bindings /\ chal[c].st = "open"
  BY InvParts DEF Form, Request, Checkable
<1>2. F \in SUBSET {g \in Families : fam[g].st = "live"} /\ Bound(k) \subseteq F
  BY DEF Replaced, Bound, Presented
<1>3. f \in Families
  BY DEF UnusedFamily, Fresh
<1>4. set \in Token /\ set.f = f /\ set.n = 0
  BY <1>3 DEF Token
<1>5. (Ends(t) /\ Children(F) = {}) \/ Moves(t, "reply", set, Children(F), tab[t].ok)
  BY <1>1, <1>4, ReplyMoves, ChildrenAreSids DEF IssueIdentity
<1>6. Closing(F)
  BY <1>5 DEF Closing, Moves
<1>7. RowStep
  <2>1. /\ ~Superseded(k, c)
        /\ fam' = [RevokedFams(F) EXCEPT ![f] = NewFamily(f, c, k)]
        /\ sess' = RevokedSessions(F)
        /\ chal' = [chal EXCEPT ![c].st = "consumed"]
    BY DEF IssueIdentity
  <2>2. \/ handoff' = RevokedHandoffs(F)
        \/ \E h \in Handoffs : handoff' = [RevokedHandoffs(F) EXCEPT ![h].fam = f]
    OBVIOUS
  <2> HIDE DEF F, k
  <2>3. LoginEnds
    BY <1>1, <1>2, <1>6, <2>1, <2>2 DEF LoginEnds
  <2> QED BY <2>3 DEF RowStep
<1>8. IssuedNext(set)
  <2>1. fam'[f] = NewFamily(f, c, k)
    BY <1>3, InvParts, RevokedFamsRows DEF IssueIdentity
  <2> QED BY <1>4, <2>1 DEF NewFamily, IssuedNext
<1>9. Quiet
  BY QuietFrom
<1> HIDE DEF set, F
<1> QED BY <1>1, <1>4, <1>5, <1>7, <1>8, <1>9, QuietReply

LEMMA VerifyOK ==
    ASSUME IdentityInv, NEW t \in Tabs, NEW c \in Challenges,
           \/ \E h \in Handoffs : verifyOTP(t, h, c)
           \/ \E force \in BOOLEAN : platformVerifyOTP(t, c, force)
    PROVE  StepOK
<1>1. ASSUME NEW h \in Handoffs, verifyOTP(t, h, c)
      PROVE  StepOK
  <2>1. handoff[h].force \in BOOLEAN /\ Form(t) /\ Checkable(c)
    BY <1>1, InvParts DEF verifyOTP, VerifyIdentityOTP, RowTypes, HandoffRow
  <2>2. PICK f \in UnusedFamily :
           /\ IssueIdentity(t, c, f, handoff[h].force)
           /\ handoff' = [RevokedHandoffs(Replaced(t, handoff[h].force)) EXCEPT ![h].fam = f]
    BY <1>1 DEF verifyOTP, VerifyIdentityOTP
  <2>3. UNCHANGED <<clock, allowed, jar, open, drawn, replayed, spent>>
    BY <1>1 DEF verifyOTP, VerifyIdentityOTP
  <2> QED BY <2>1, <2>2, <2>3, IssueIdentityOK
<1>2. ASSUME NEW force \in BOOLEAN, platformVerifyOTP(t, c, force)
      PROVE  StepOK
  <2>1. Form(t) /\ Checkable(c)
    BY <1>2 DEF platformVerifyOTP, VerifyPlatformIdentityOTP
  <2>2. PICK f \in UnusedFamily : IssueIdentity(t, c, f, force)
    BY <1>2 DEF platformVerifyOTP, VerifyPlatformIdentityOTP
  <2>3. /\ UNCHANGED <<clock, allowed, jar, open, drawn, replayed, spent>>
        /\ handoff' = RevokedHandoffs(Replaced(t, force))
    BY <1>2 DEF platformVerifyOTP, VerifyPlatformIdentityOTP
  <2> QED BY <2>1, <2>2, <2>3, IssueIdentityOK
<1> QED BY <1>1, <1>2

-----------------------------------------------------------------------------
(***************************************************************************)
(* Sign-out.                                                               *)
(***************************************************************************)

LEMMA PlatformLogoutOK ==
    ASSUME IdentityInv, NEW t \in Tabs, platformLogout(t)
    PROVE  StepOK
<1> DEFINE tok == tab[t].gid
<1>1. /\ tok \in Token /\ tab[t].pc = "open" /\ tab \in [Tabs -> Request]
      /\ tab[t].set \in Token \cup {None, Keep} /\ Issued(tab[t].set)
      /\ ~tab[t].ok /\ tab[t].refs = {}
  BY PresentedSecret, InvParts DEF platformLogout, TabInv
<1>2. UNCHANGED <<clock, allowed, jar, open, drawn, spent>> /\ UNCHANGED chal
  BY DEF platformLogout
<1>3. CASE (CommitReplay(tok) \/ CommitValid(tok)) /\ Done(t)
  <2>1. RowStep /\ Quiet
    BY <1>1, <1>2, <1>3, ReplayRows, ValidRows, QuietFrom
  <2>2. Ends(t)
    BY <1>1, <1>3, DoneEnds
  <2> QED BY <1>1, <2>1, <2>2, QuietEnds
<1>4. CASE CommitValid(tok) /\ Goto(t, [tab[t] EXCEPT !.pc = "signout"])
  <2>1. RowStep /\ Quiet
    BY <1>1, <1>2, <1>4, ValidRows, QuietFrom
  <2>2. Moves(t, "signout", tab[t].set, tab[t].refs, tab[t].ok)
    BY <1>1, <1>4, PcMoves DEF PCs
  <2>3. IssuedNext(tab[t].set)
    BY <1>1, <2>1, InvParts, RowsGrow, IssuedGrows
  <2> QED BY <1>1, <2>1, <2>2, <2>3, QuietMoves
<1> QED BY <1>3, <1>4 DEF platformLogout

\* A sign-out revokes the families F: the presented one or, when there is no
\* such, all of the binding.
LEMMA SignOutRevokes ==
    ASSUME IdentityInv, NEW t \in Tabs, tab[t].pc # "reply",
           NEW F \in SUBSET {f \in Families : fam[f].st = "live"},
           revokeIdentityFamilyTx(F), SignedOut(t, Children(F)),
           UNCHANGED <<clock, chal, allowed, jar, open, drawn, replayed, spent>>,
           \A f \in tab[t].seen \ F :
              \/ fam[f].st = "revoked"
              \/ /\ tab[t].gid # None /\ fam[tab[t].gid.f].bind # tab[t].bind
                 /\ f = tab[t].gid.f => ~Matches(tab[t].gid)
    PROVE  StepOK
<1>1. tab \in [Tabs -> Request] /\ tab[t].gid \in Token \cup {None} /\ Issued(tab[t].gid)
      /\ tab[t].seen \subseteq Families
  BY InvParts, PresentedSecret DEF Request
<1>2. Moves(t, "reply", None, Children(F), TRUE)
  BY <1>1, SignedOutMoves, ChildrenAreSids
<1>3. FamiliesEnd
  BY <1>2 DEF FamiliesEnd, Closing, Moves
<1>4. RowStep /\ Quiet
  BY <1>3, QuietFrom DEF RowStep
<1>5. RowTypes /\ RowTypes' /\ FamiliesGrow
  BY <1>4, InvParts, RowsGrow
<1>6. \A f \in F : fam'[f].st = "revoked"
  BY InvParts, RevokedFamsRows DEF revokeIdentityFamilyTx
<1>7. SignedOutNext(t)
  <2> SUFFICES ASSUME NEW f \in tab[t].seen, f \notin F
               PROVE  \/ fam'[f].st = "revoked"
                      \/ /\ tab[t].gid # None /\ fam'[tab[t].gid.f].bind # tab[t].bind
                         /\ f = tab[t].gid.f => ~MatchesNext(tab[t].gid)
    BY <1>6 DEF SignedOutNext
  <2>1. CASE fam[f].st = "revoked"
    BY <1>1, <1>5, <2>1 DEF FamiliesGrow
  <2>2. CASE /\ tab[t].gid # None /\ fam[tab[t].gid.f].bind # tab[t].bind
             /\ f = tab[t].gid.f => ~Matches(tab[t].gid)
    <3>1. /\ tab[t].gid \in Token /\ tab[t].gid.f \in Families
          /\ fam[tab[t].gid.f].st # "none"
      BY <1>1, <2>2, TokenParts DEF Issued
    <3>2. fam'[tab[t].gid.f].bind # tab[t].bind
      BY <1>5, <2>2, <3>1 DEF FamiliesGrow
    <3>3. f = tab[t].gid.f => ~MatchesNext(tab[t].gid)
      BY <1>1, <1>5, <2>2, <3>1, RotatedOutGrows
    <3> QED BY <2>2, <3>2, <3>3
  <2> QED BY <2>1, <2>2
<1> QED BY <1>2, <1>4, <1>7, NoneIssued, QuietMoves

\* A family a request has seen, and what is known of it.
LEMMA SeenFamily ==
    ASSUME IdentityInv, NEW t \in Tabs, NEW f \in tab[t].seen
    PROVE  /\ f \in Families /\ fam[f].st \in {"live", "revoked"} /\ fam[f].bind \in Bindings
           /\ fam[f].bind = tab[t].bind \/ (tab[t].gid # None /\ f = tab[t].gid.f)
<1>1. f \in Families
  BY PresentedSecret DEF Request
<1>2. fam[f].st \in {"none", "live", "revoked"}
  BY <1>1, InvParts DEF RowTypes, FamilyRow
<1>3. /\ fam[f].st # "none"
      /\ fam[f].bind = tab[t].bind \/ (tab[t].gid # None /\ f = tab[t].gid.f)
  BY InvParts DEF TabInv
<1> QED BY <1>1, <1>2, <1>3, InvParts DEF RowInv, FamilyOrigin

\* A secret that presents no family is unusable.
LEMMA NotPresented ==
    ASSUME IdentityInv, NEW t \in Tabs, Presented(tab[t].gid) = {}
    PROVE  Unusable(tab[t].gid)
<1> SUFFICES ASSUME tab[t].gid # None
             PROVE  fam[tab[t].gid.f].st = "revoked" \/ ~Matches(tab[t].gid)
  BY DEF Unusable
<1>1. tab[t].gid.f \in Families /\ fam[tab[t].gid.f].st # "none"
  BY PresentedSecret, TokenParts DEF Issued
<1>2. fam[tab[t].gid.f].st \in {"none", "live", "revoked"}
  BY <1>1, InvParts DEF RowTypes, FamilyRow
<1> QED BY <1>1, <1>2 DEF Presented

LEMMA RevokeNothing ==
    ASSUME IdentityInv, UNCHANGED <<fam, sess, handoff>>
    PROVE  revokeIdentityFamilyTx({}) /\ Children({}) = {}
<1>1. Children({}) = {}
  BY DEF Children
<1>2. RevokedFams({}) = [f \in Families |-> fam[f]]
  BY DEF RevokedFams
<1>3. RevokedSessions({}) = [s \in Sids |-> sess[s]]
  BY <1>1 DEF RevokedSessions
<1>4. RevokedHandoffs({}) = [h \in Handoffs |-> handoff[h]]
  BY DEF RevokedHandoffs
<1> QED BY <1>1, <1>2, <1>3, <1>4, InvParts DEF revokeIdentityFamilyTx, RowTypes

LEMMA LogoutToOK ==
    ASSUME IdentityInv, NEW t \in Tabs, logoutTo(t)
    PROVE  StepOK
<1> DEFINE F == Presented(tab[t].gid)
           gone(f) == \/ fam[f].st = "revoked"
                      \/ /\ tab[t].gid # None /\ fam[tab[t].gid.f].bind # tab[t].bind
                         /\ f = tab[t].gid.f => ~Matches(tab[t].gid)
<1>1. /\ tab \in [Tabs -> Request] /\ tab[t].pc \in {"open", "signout"}
      /\ tab[t].set \in Token \cup {None, Keep} /\ Issued(tab[t].set)
      /\ ~tab[t].ok /\ tab[t].refs = {}
  BY PresentedSecret, InvParts DEF logoutTo, TabInv
<1>2. UNCHANGED <<clock, chal, allowed, jar, open, drawn, replayed, spent>>
  BY DEF logoutTo
<1>3. CASE F # {} /\ revokeIdentityFamilyTx(F) /\ SignedOut(t, Children(F))
  <2>1. F \in SUBSET {f \in Families : fam[f].st = "live"}
    BY DEF Presented
  <2>2. /\ tab[t].gid # None /\ tab[t].gid.f \in F /\ tab[t].gid.f \in Families
        /\ fam[tab[t].gid.f].st = "live"
    BY <1>3 DEF Presented, Matches
  <2>3. ASSUME NEW f \in tab[t].seen \ F
        PROVE  gone(f)
    <3>1. /\ f \in Families /\ fam[f].st \in {"live", "revoked"} /\ f # tab[t].gid.f
          /\ fam[f].bind = tab[t].bind
      BY <2>2, <2>3, SeenFamily
    <3>2. CASE fam[tab[t].gid.f].bind = tab[t].bind
      <4>1. fam[f].st # "live"
        BY <2>2, <3>1, <3>2, InvParts DEF RowInv, OneLoginPerBrowser
      <4> QED BY <3>1, <4>1
    <3>3. CASE fam[tab[t].gid.f].bind # tab[t].bind
      BY <2>2, <3>1, <3>3
    <3> QED BY <3>2, <3>3
  <2> HIDE DEF F
  <2> QED BY <1>1, <1>2, <1>3, <2>1, <2>3, SignOutRevokes
<1>4. CASE F = {} /\ tab[t].bind = None /\ SignedOut(t, {}) /\ UNCHANGED <<fam, sess, handoff>>
  <2>1. ASSUME NEW f \in tab[t].seen
        PROVE  gone(f)
    <3>1. /\ f \in Families /\ fam[f].bind \in Bindings
          /\ tab[t].gid # None /\ f = tab[t].gid.f
      BY <1>4, <2>1, SeenFamily, MarksAreFresh
    <3>2. Unusable(tab[t].gid) /\ fam[f].bind # tab[t].bind
      BY <1>4, <3>1, NotPresented, MarksAreFresh
    <3> QED BY <3>1, <3>2 DEF Unusable
  <2> QED BY <1>1, <1>2, <1>4, <2>1, RevokeNothing, SignOutRevokes
<1>5. CASE F = {} /\ Goto(t, [tab[t] EXCEPT !.pc = "fallback"]) /\ UNCHANGED <<fam, sess, handoff>>
  <2>1. RowStep /\ Quiet
    BY <1>2, <1>5, QuietFrom DEF RowStep, rows
  <2>2. Moves(t, "fallback", tab[t].set, tab[t].refs, tab[t].ok)
    BY <1>1, <1>5, PcMoves DEF PCs
  <2>3. IssuedNext(tab[t].set)
    BY <1>1, <2>1, InvParts, RowsGrow, IssuedGrows
  <2> QED BY <1>1, <1>5, <2>1, <2>2, <2>3, NotPresented, QuietMoves
<1> QED BY <1>3, <1>4, <1>5 DEF logoutTo

LEMMA RevokeIdentityBrowserBindingOK ==
    ASSUME IdentityInv, NEW t \in Tabs, RevokeIdentityBrowserBinding(t)
    PROVE  StepOK
<1> DEFINE F == Bound(tab[t].bind)
           gone(f) == \/ fam[f].st = "revoked"
                      \/ /\ tab[t].gid # None /\ fam[tab[t].gid.f].bind # tab[t].bind
                         /\ f = tab[t].gid.f => ~Matches(tab[t].gid)
<1>1. tab \in [Tabs -> Request] /\ tab[t].pc = "fallback" /\ Unusable(tab[t].gid)
  BY InvParts DEF RevokeIdentityBrowserBinding, TabInv
<1>2. UNCHANGED <<clock, chal, allowed, jar, open, drawn, replayed, spent>>
  BY DEF RevokeIdentityBrowserBinding
<1>3. CASE revokeIdentityFamilyTx(F) /\ SignedOut(t, Children(F))
  <2>1. F \in SUBSET {f \in Families : fam[f].st = "live"}
    BY DEF Bound
  <2>2. ASSUME NEW f \in tab[t].seen \ F
        PROVE  gone(f)
    <3>1. /\ f \in Families /\ fam[f].st \in {"live", "revoked"}
          /\ fam[f].bind = tab[t].bind \/ (tab[t].gid # None /\ f = tab[t].gid.f)
      BY <2>2, SeenFamily
    <3>2. CASE fam[f].bind = tab[t].bind
      BY <2>2, <3>1, <3>2 DEF Bound
    <3>3. CASE fam[f].bind # tab[t].bind
      BY <1>1, <3>1, <3>3 DEF Unusable
    <3> QED BY <3>2, <3>3
  <2> HIDE DEF F
  <2> QED BY <1>1, <1>2, <1>3, <2>1, <2>2, SignOutRevokes
<1>4. CASE Done(t) /\ UNCHANGED <<fam, sess, handoff>>
  <2>1. RowStep /\ Quiet
    BY <1>2, <1>4, QuietFrom DEF RowStep, rows
  <2> QED BY <1>1, <1>4, <2>1, DoneEnds, QuietEnds
<1> QED BY <1>3, <1>4 DEF RevokeIdentityBrowserBinding

-----------------------------------------------------------------------------
(***************************************************************************)
(* Applications, sessions and surroundings.                                *)
(***************************************************************************)

\* A step that changes no request.
LEMMA TabsUnchanged ==
    ASSUME IdentityInv, RowStep, UNCHANGED tab
    PROVE  tab' \in [Tabs -> Request] /\ \A u \in Tabs : TabInv(u)'
BY InvParts, RowsGrow, WaitingTab

LEMMA HeldKept ==
    ASSUME IdentityInv, RowStep, \A b \in Browsers : jar'[b].gid \in {jar[b].gid, None}
    PROVE  HeldSecrets'
<1> SUFFICES ASSUME NEW b \in Browsers
             PROVE  Issued(jar[b].gid)'
  BY DEF HeldSecrets
<1>1. jar[b].gid \in Token \cup {None, Keep}
  BY InvParts DEF RestTypes
<1>2. IssuedNext(jar[b].gid)
  BY <1>1, InvParts, RowsGrow, IssuedGrows DEF HeldSecrets
<1> QED BY <1>2 DEF Issued, IssuedNext

Cookies == [gid : Token \cup {None}, bind : Bindings \cup {None},
            state : [Apps -> Handoffs \cup {None}]]

LEMMA StateCookie ==
    ASSUME jar \in [Browsers -> Cookies], NEW b \in Browsers, NEW a \in Apps,
           NEW h \in Handoffs \cup {None}, jar' = [jar EXCEPT ![b].state[a] = h]
    PROVE  jar' \in [Browsers -> Cookies] /\ \A c \in Browsers : jar'[c].gid = jar[c].gid
<1> DEFINE s == [jar[b].state EXCEPT ![a] = h]
           r == [jar[b] EXCEPT !.state = s]
<1>1. jar[b] \in Cookies /\ s \in [Apps -> Handoffs \cup {None}]
  BY DEF Cookies
<1>2. jar' = [jar EXCEPT ![b] = r]
  BY DEF Cookies
<1> HIDE DEF s
<1>3. r \in Cookies /\ r.gid = jar[b].gid
  BY <1>1 DEF Cookies
<1> HIDE DEF r
<1> QED BY <1>2, <1>3

LEMMA AppLoginOK ==
    ASSUME IdentityInv, NEW b \in Browsers, NEW a \in Apps, AppLogin(b, a)
    PROVE  StepOK
<1>1. PICK h \in UnusedHandoff :
         /\ CreateIdentityHandoff(a, h)
         /\ \/ jar' = [jar EXCEPT ![b].state[a] = h] /\ UNCHANGED spent
            \/ UNCHANGED jar /\ Event
  BY DEF AppLogin
<1>2. h \in Handoffs /\ jar \in [Browsers -> Cookies]
  BY InvParts DEF UnusedHandoff, Fresh, RestTypes, Cookies
<1>3. HandoffStarts
  BY <1>1 DEF AppLogin, HandoffStarts
<1>4. RowStep
  BY <1>3 DEF RowStep
<1>5. jar' \in [Browsers -> Cookies] /\ \A c \in Browsers : jar'[c].gid = jar[c].gid
  BY <1>1, <1>2, StateCookie
<1>6. RestTypes' /\ HeldSecrets'
  BY <1>1, <1>4, <1>5, InvParts, EventType, HeldKept DEF AppLogin, RestTypes, Cookies
<1>7. OpenStep
  BY DEF AppLogin, OpenStep
<1> QED BY <1>4, <1>6, <1>7, TabsUnchanged DEF AppLogin, StepOK

LEMMA AppCallbackOK ==
    ASSUME IdentityInv, NEW b \in Browsers, NEW a \in Apps, NEW h \in Handoffs, AppCallback(b, a, h)
    PROVE  StepOK
<1>1. jar \in [Browsers -> Cookies]
  BY InvParts DEF RestTypes, Cookies
<1>2. HandoffEnds
  BY DEF AppCallback, HandoffEnds
<1>3. RowStep
  BY <1>2 DEF RowStep
<1>4. jar' \in [Browsers -> Cookies] /\ \A c \in Browsers : jar'[c].gid = jar[c].gid
  BY <1>1, StateCookie DEF AppCallback
<1>5. RestTypes' /\ HeldSecrets'
  BY <1>3, <1>4, InvParts, EventType, HeldKept DEF AppCallback, RestTypes, Cookies
<1>6. OpenStep
  BY DEF AppCallback, OpenStep
<1> QED BY <1>3, <1>5, <1>6, TabsUnchanged DEF AppCallback, StepOK

LEMMA SessionOK ==
    ASSUME IdentityInv, NEW s \in Sids, RevokeSession(s) \/ Connect(s)
    PROVE  StepOK
<1>1. CASE RevokeSession(s)
  <2>1. RowStep
    <3>1. SessionEnds
      BY <1>1 DEF RevokeSession, SessionEnds
    <3> QED BY <3>1 DEF RowStep
  <2>2. RestTypes' /\ HeldSecrets'
    BY <1>1, <2>1, InvParts, HeldKept DEF RevokeSession, RestTypes
  <2>3. OpenStep
    BY <1>1 DEF RevokeSession, OpenStep
  <2> QED BY <1>1, <2>1, <2>2, <2>3, TabsUnchanged DEF RevokeSession, StepOK
<1>2. CASE Connect(s)
  <2>1. RowStep
    BY <1>2 DEF Connect, RowStep
  <2>2. RestTypes' /\ HeldSecrets'
    BY <1>2, <2>1, InvParts, HeldKept DEF Connect, RestTypes
  <2>3. OpenStep
    BY <1>2 DEF Connect, OpenStep, rows
  <2> QED BY <1>2, <2>1, <2>2, <2>3, TabsUnchanged DEF Connect, StepOK
<1> QED BY <1>1, <1>2

LEMMA SurroundingsOK ==
    ASSUME IdentityInv,
           \/ \E a \in Apps, S \in SUBSET Emails : SetPolicy(a, S)
           \/ \E b \in Browsers : Forget(b)
    PROVE  StepOK
<1>1. ASSUME NEW a \in Apps, NEW S \in SUBSET Emails, SetPolicy(a, S)
      PROVE  StepOK
  <2>1. RowStep
    BY <1>1 DEF SetPolicy, RowStep
  <2>2. RestTypes' /\ HeldSecrets'
    BY <1>1, <2>1, InvParts, EventType, HeldKept DEF SetPolicy, RestTypes
  <2>3. OpenStep
    BY <1>1 DEF SetPolicy, OpenStep
  <2> QED BY <1>1, <2>1, <2>2, <2>3, TabsUnchanged DEF SetPolicy, StepOK
<1>2. ASSUME NEW b \in Browsers, Forget(b)
      PROVE  StepOK
  <2>1. RowStep
    BY <1>2 DEF Forget, RowStep
  <2>2. jar \in [Browsers -> Cookies]
    BY InvParts DEF RestTypes, Cookies
  <2>3. jar' \in [Browsers -> Cookies] /\ \A c \in Browsers : jar'[c].gid \in {jar[c].gid, None}
    <3>1. CASE jar' = [jar EXCEPT ![b].gid = None]
      BY <2>2, <3>1 DEF Cookies
    <3>2. CASE jar' = [jar EXCEPT ![b].bind = None]
      BY <2>2, <3>2 DEF Cookies
    <3> QED BY <1>2, <3>1, <3>2 DEF Forget
  <2>4. RestTypes' /\ HeldSecrets'
    BY <1>2, <2>1, <2>3, InvParts, EventType, HeldKept DEF Forget, RestTypes, Cookies
  <2>5. OpenStep
    BY <1>2 DEF Forget, OpenStep
  <2> QED BY <1>2, <2>1, <2>4, <2>5, TabsUnchanged DEF Forget, StepOK
<1> QED BY <1>1, <1>2

LEMMA TickOK ==
    ASSUME IdentityInv, Tick
    PROVE  StepOK
<1>1. RowStep
  BY DEF Tick, RowStep
<1>2. ASSUME NEW u \in Tabs
      PROVE  /\ tab'[u] \in Request /\ tab'[u].refs = tab[u].refs
             /\ TabInv(u)'
  <2> DEFINE r == [tab[u] EXCEPT !.late = tab[u].pc # "idle"]
  <2>1. tab[u] \in Request /\ tab'[u] = r
    BY InvParts DEF Tick
  <2>2. r \in Request
    BY <2>1, OneField
  <2>3. /\ r.gid = tab[u].gid /\ r.bind = tab[u].bind /\ r.seen = tab[u].seen
        /\ r.ok = tab[u].ok /\ r.pc = tab[u].pc /\ r.set = tab[u].set /\ r.refs = tab[u].refs
    BY <2>1, RequestDomain
  <2> HIDE DEF r
  <2>4. TabInv(u)'
    BY <1>1, <2>1, <2>3, InvParts, RowsGrow, WaitingTab
  <2> QED BY <2>1, <2>2, <2>3, <2>4
<1>3. tab' \in [Tabs -> Request]
  BY <1>2 DEF Tick
<1>4. RestTypes' /\ HeldSecrets'
  BY <1>1, InvParts, HeldKept DEF Tick, RestTypes
<1>5. OpenStep
  BY <1>2 DEF Tick, OpenStep
<1> QED BY <1>1, <1>2, <1>3, <1>4, <1>5 DEF StepOK

LEMMA CrashOK ==
    ASSUME IdentityInv, Crash
    PROVE  StepOK
<1>1. RowStep
  BY DEF Crash, RowStep
<1>2. tab' \in [Tabs -> Request] /\ \A u \in Tabs : TabInv(u)'
  BY NoRequestType, NoRequestTab DEF Crash
<1>3. RestTypes' /\ HeldSecrets'
  BY <1>1, InvParts, EventType, HeldKept DEF Crash, RestTypes
<1>4. OpenStep
  BY DEF Crash, OpenStep
<1> QED BY <1>1, <1>2, <1>3, <1>4 DEF StepOK

LEMMA HandlerStepOK ==
    ASSUME IdentityInv, NEW t \in Tabs, HandlerStep(t)
    PROVE  StepOK
BY RevokeChildrenOK, DeliverOK, FailOK, LoginFormOK, IdentityPageOK, AuthenticateOK,
   PlatformLoginPageOK, PlatformDashboardOK, CreateChallengeOK, PlatformLogoutOK, LogoutToOK,
   RevokeIdentityBrowserBindingOK, AuthorizeIdentityHandoffOK, UseAnotherOK, RequestOTPOK,
   PlatformRequestOTPOK, WrongCodeOK, VerifyOK
   DEF HandlerStep

LEMMA NextOK ==
    ASSUME IdentityInv, Next
    PROVE  StepOK
<1>1. CASE \E t \in Tabs : (\E b \in Browsers : Send(t, b)) \/ HandlerStep(t)
  BY <1>1, SendOK, HandlerStepOK
<1>2. CASE \/ \E b \in Browsers, a \in Apps : AppLogin(b, a)
           \/ \E b \in Browsers, a \in Apps, h \in Handoffs : AppCallback(b, a, h)
  BY <1>2, AppLoginOK, AppCallbackOK
<1>3. CASE \E s \in Sids : RevokeSession(s) \/ Connect(s)
  BY <1>3, SessionOK
<1> QED BY <1>1, <1>2, <1>3, SurroundingsOK, TickOK, CrashOK DEF Next

LEMMA IdentityStarts == Init => IdentityInv
<1> SUFFICES ASSUME Init
             PROVE  IdentityInv
  OBVIOUS
<1>1. fam \in [Families -> FamilyRow] /\ \A f \in Families : fam[f].st = "none"
  BY DEF Init, FamilyRow
<1>2. handoff \in [Handoffs -> HandoffRow] /\ \A h \in Handoffs : handoff[h].st = "none"
  BY DEF Init, HandoffRow
<1>3. chal \in [Challenges -> ChallengeRow]
  BY DEF Init, ChallengeRow
<1>4. sess \in [Sids -> SessionRow] /\ \A s \in Sids : sess[s].st = "none"
  BY DEF Init, SessionRow
<1>5. RestTypes
  <2>1. \A b \in Browsers : BindingAtStart[b] \in Bindings \cup {None}
    BY BindingsAtStartDiffer
  <2>2. jar \in [Browsers -> [gid : Token \cup {None}, bind : Bindings \cup {None},
                              state : [Apps -> Handoffs \cup {None}]]]
    BY <2>1 DEF Init
  <2>3. drawn \subseteq Bindings
    BY <2>1 DEF Init
  <2> QED BY <2>2, <2>3 DEF Init, RestTypes
<1>6. tab \in [Tabs -> Request]
  BY NoRequestType DEF Init
<1>7. TypeOK
  BY <1>1, <1>2, <1>3, <1>4, <1>5, <1>6, TypeParts DEF RowTypes
<1>8. RowInv
  BY <1>1, <1>2, <1>4 DEF RowInv, FamilyOrigin, SessionOrigin, OneLoginPerBrowser, RedeemedOnce
<1>9. HeldSecrets
  BY DEF Init, HeldSecrets, Issued
<1>10. \A t \in Tabs : TabInv(t)
  <2>1. /\ NoRequest.pc = "idle" /\ NoRequest.gid = None /\ NoRequest.set = Keep
        /\ NoRequest.refs = {} /\ NoRequest.ok = FALSE /\ NoRequest.seen = {}
    BY DEF NoRequest
  <2>2. \A t \in Tabs : tab[t] = NoRequest
    BY DEF Init
  <2> QED BY <2>1, <2>2 DEF TabInv, Issued, SignedOutOf, Unusable
<1>11. RevokedIsClosed
  BY DEF Init, RevokedIsClosed
<1> QED BY <1>7, <1>8, <1>9, <1>10, <1>11 DEF IdentityInv, RequestInv

LEMMA IdentityNext == IdentityInv /\ [Next]_vars => IdentityInv'
<1>1. ASSUME IdentityInv, Next
      PROVE  IdentityInv'
  BY <1>1, NextOK, StepKeeps
<1>2. ASSUME IdentityInv, UNCHANGED vars
      PROVE  IdentityInv'
  <2>1. RowStep /\ UNCHANGED tab /\ UNCHANGED jar
    BY <1>2 DEF vars, rows, RowStep
  <2>2. RestTypes' /\ HeldSecrets'
    BY <1>2, <2>1, InvParts, HeldKept DEF vars, RestTypes
  <2>3. OpenStep
    BY <1>2 DEF vars, OpenStep
  <2>4. StepOK
    BY <1>2, <2>1, <2>2, <2>3, TabsUnchanged DEF StepOK
  <2> QED BY <1>2, <2>4, StepKeeps
<1> QED BY <1>1, <1>2

LEMMA Invariance == Spec => []IdentityInv
<1>1. Init => IdentityInv
  BY IdentityStarts
<1>2. IdentityInv /\ [Next]_vars => IdentityInv'
  BY IdentityNext
<1> QED BY <1>1, <1>2, PTL DEF Spec

-----------------------------------------------------------------------------
(***************************************************************************)
(* The results.                                                            *)
(***************************************************************************)

\* Every reachable state has the types of the schema: identifiers, secrets and
\* cookies name rows that can exist (global_identity.go, identity_broker.go).
THEOREM TypeCorrect == Spec => []TypeOK
<1>1. IdentityInv => TypeOK
  BY DEF IdentityInv
<1> QED BY <1>1, Invariance, PTL

\* For any number of browsers, tabs and logins, a binding has at most one
\* unrevoked family, and neither an app session nor a pending handoff outlives
\* its family: revokeIdentityFamilyTx is complete.
THEOREM OneLogin == Spec => []OneLoginPerBrowser
<1>1. IdentityInv => OneLoginPerBrowser
  BY DEF IdentityInv, RowInv
<1> QED BY <1>1, Invariance, PTL

\* No handoff becomes two sessions and no mailed code two families, whatever
\* requests race for them.
THEOREM NothingTwice == Spec => []RedeemedOnce
<1>1. IdentityInv => RedeemedOnce
  BY DEF IdentityInv, RowInv
<1> QED BY <1>1, Invariance, PTL

\* A sign-out that reports success has ended the logins the browser presented,
\* within the limits SignOutIsComplete states.
THEOREM SignOutEnds == Spec => []SignOutIsComplete
<1>1. IdentityInv => SignOutIsComplete
  BY DEF IdentityInv, RequestInv, TabInv, SignOutIsComplete, SignedOutOf
<1> QED BY <1>1, Invariance, PTL

\* A live connection of a revoked session is closed by the request that
\* revoked it, except after a replay.
THEOREM ConnectionsEnd == Spec => []RevokedIsClosed
<1>1. IdentityInv => RevokedIsClosed
  BY DEF IdentityInv
<1> QED BY <1>1, Invariance, PTL

\* A family that comes to be was created by a completed login.
LEMMA NewFamilyStep ==
    ASSUME IdentityInv, RowStep, NEW f \in Families, NEW g \in Families,
           fam[f].st = "live", clock < fam[f].created + IdentityLife,
           fam[g].st = "none", fam'[g].st = "live", fam'[g].bind = fam[f].bind
    PROVE  fam[f].created < chal[fam'[g].of].created
<1>1. CASE LoginEnds
  <2>1. PICK k \in Bindings, c \in Challenges, e \in UnusedFamily,
             F \in SUBSET {h \in Families : fam[h].st = "live"} :
          /\ Bound(k) \subseteq F /\ ~Superseded(k, c) /\ chal[c].st = "open"
          /\ fam' = [RevokedFams(F) EXCEPT ![e] = NewFamily(e, c, k)]
          /\ sess' = RevokedSessions(F)
          /\ chal' = [chal EXCEPT ![c].st = "consumed"]
          /\ \/ handoff' = RevokedHandoffs(F)
             \/ \E h \in Handoffs : handoff' = [RevokedHandoffs(F) EXCEPT ![h].fam = e]
          /\ Closing(F)
    BY <1>1 DEF LoginEnds
  <2>2. e \in Families
    BY DEF UnusedFamily, Fresh
  <2>3. RevokedFams(F) \in [Families -> FamilyRow] /\ (g # e => fam'[g] = RevokedFams(F)[g])
        /\ fam'[e] = NewFamily(e, c, k)
    BY <2>1, <2>2, InvParts, RevokedFamsRows
  <2>4. g = e
    BY <2>1, <2>3, InvParts, RevokedFamsRows
  <2>5. fam'[g].bind = k /\ fam'[g].of = c
    BY <2>3, <2>4 DEF NewFamily
  <2>6. ~(fam[f].created >= chal[c].created)
    BY <2>1, <2>5 DEF Superseded, Bound
  <2>7. fam[f].created \in Nat /\ chal[c].created \in Nat
    BY InvParts DEF RowTypes, FamilyRow, ChallengeRow
  <2> QED BY <2>5, <2>6, <2>7
<1>2. CASE FamiliesEnd
  <2>1. PICK F : revokeIdentityFamilyTx(F)
    BY <1>2 DEF FamiliesEnd
  <2> QED BY <2>1, InvParts, RevokedFamsRows DEF revokeIdentityFamilyTx
<1>3. CASE SecretRotates
  <2>1. PICK tok \in Token : Valid(tok) /\ fam' = RotateRow(tok)
    BY <1>3 DEF SecretRotates
  <2>2. tok.f \in Families /\ fam[tok.f].st = "live"
    BY <2>1, TokenParts DEF Valid, Recognised
  <2>3. g # tok.f => fam'[g] = fam[g]
    BY <2>1, <2>2, InvParts DEF RotateRow, RowTypes
  <2> QED BY <2>2, <2>3
<1>4. CASE UNCHANGED fam
  BY <1>4
<1> QED BY <1>1, <1>2, <1>3, <1>4
        DEF RowStep, rows, HandoffStarts, HandoffEnds, HandoffChanges, SessionEnds, CodesChange

\* A form submitted late never takes a browser over from a newer login: the
\* comparison of the login's creation with the challenge's in global_identity.go.
THEOREM LateFormsLose == Spec => NewerLoginWins
<1>1. IdentityInv /\ [Next]_vars =>
      [\A f, g \in Families :
         /\ fam[f].st = "live" /\ clock < fam[f].created + IdentityLife
         /\ fam[g].st = "none" /\ fam'[g].st = "live"
         /\ fam'[g].bind = fam[f].bind
         => fam[f].created < chal[fam'[g].of].created]_vars
  BY NextOK, NewFamilyStep DEF StepOK
<1> QED BY <1>1, Invariance, PTL DEF Spec, NewerLoginWins

\* Revocation is final and a family never changes browser: no step turns a
\* revoked family back, moves it to another binding or rolls its secret back.
THEOREM RevocationIsFinal == Spec => [][FamiliesGrow]_vars
<1>1. IdentityInv /\ [Next]_vars => [FamiliesGrow]_vars
  BY NextOK, RowsGrow DEF StepOK
<1> QED BY <1>1, Invariance, PTL DEF Spec
=============================================================================
