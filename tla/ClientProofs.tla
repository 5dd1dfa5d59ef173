----------------------------- MODULE ClientProofs -----------------------------
(***************************************************************************)
(* Proofs about Client and the transactions of ControlAuth it composes.    *)
(* The server's part of the invariant does not look at the commands: it is *)
(* shown transaction by transaction.  The commands' part says of every     *)
(* command what it may rely on at the place it has reached.                *)
(***************************************************************************)
EXTENDS Client, SequenceTheorems, TLAPS

TokenRow == [email : Deployers, bound : BOOLEAN, revoked : BOOLEAN, epoch : Nat]

CodeRow == [email : Deployers, attempts : 0..MaxAttempts, state : {"open", "closed"},
            mailed : BOOLEAN, epoch : Nat]

AppRow == [owner : Deployers \cup {None}, status : {"active", "suspended"},
           mode : {"private", "public"}, current : Commands \cup {Earlier, None},
           confirmed : BOOLEAN]

ControlTyped == ControlTypeOK /\ app \in AppRow

\* A code that can still be redeemed was requested after its address last came
\* off the allowlist.
CodesAreCurrent ==
    \A i \in DOMAIN challenges :
        Open(challenges[i]) => challenges[i].epoch = users[challenges[i].email].epoch

ControlInv == ControlTyped /\ RemovalIsFinal /\ SuspendedHasNoTokens /\ CodesAreCurrent

-----------------------------------------------------------------------------
(***************************************************************************)
(* Tables as sequences.                                                    *)
(***************************************************************************)

LEMMA SeqOfFunction ==
    ASSUME NEW S, NEW n \in Nat, NEW f \in [1..n -> S]
    PROVE  f \in Seq(S) /\ Len(f) = n
<1>1. f \in Seq(S)
  BY SeqDef
<1>2. Len(f) \in Nat /\ DOMAIN f = 1..Len(f) /\ DOMAIN f = 1..n
  BY <1>1, LenProperties
<1> QED BY <1>1, <1>2

LEMMA TableTypes ==
    ASSUME ControlTyped
    PROVE  /\ tokens \in Seq(TokenRow) /\ Len(tokens) \in Nat
           /\ DOMAIN tokens = 1..Len(tokens)
           /\ \A t \in DOMAIN tokens : tokens[t] \in TokenRow
           /\ challenges \in Seq(CodeRow) /\ Len(challenges) \in Nat
           /\ DOMAIN challenges = 1..Len(challenges)
           /\ \A i \in DOMAIN challenges : challenges[i] \in CodeRow
<1>1. tokens \in Seq(TokenRow) /\ challenges \in Seq(CodeRow)
  BY DEF ControlTyped, ControlTypeOK, TokenRow, CodeRow
<1> QED BY <1>1, LenProperties, ElementOfSeq

\* What a revocation leaves alone.
LEMMA RevokedRows ==
    ASSUME ControlTyped, NEW P
    PROVE  /\ Revoked(P) \in Seq(TokenRow) /\ Len(Revoked(P)) = Len(tokens)
           /\ DOMAIN Revoked(P) = DOMAIN tokens
           /\ \A t \in DOMAIN tokens :
                /\ Revoked(P)[t].email = tokens[t].email
                /\ Revoked(P)[t].bound = tokens[t].bound
                /\ Revoked(P)[t].epoch = tokens[t].epoch
                /\ Revoked(P)[t].revoked <=> (tokens[t].revoked \/ t \in P)
<1>1. \A t \in 1..Len(tokens) : [tokens[t] EXCEPT !.revoked = TRUE] \in TokenRow
  BY TableTypes DEF TokenRow
<1>2. Revoked(P) \in [1..Len(tokens) -> TokenRow]
  BY <1>1, TableTypes DEF Revoked
<1>3. Revoked(P) \in Seq(TokenRow) /\ Len(Revoked(P)) = Len(tokens)
  BY <1>2, SeqOfFunction, TableTypes
<1>4. ASSUME NEW t \in DOMAIN tokens
      PROVE  /\ Revoked(P)[t].email = tokens[t].email
             /\ Revoked(P)[t].bound = tokens[t].bound
             /\ Revoked(P)[t].epoch = tokens[t].epoch
             /\ Revoked(P)[t].revoked <=> (tokens[t].revoked \/ t \in P)
  <2>1. tokens[t] \in TokenRow
    BY <1>4, TableTypes
  <2>2. CASE t \in P
    <3>1. Revoked(P)[t] = [tokens[t] EXCEPT !.revoked = TRUE]
      BY <2>2 DEF Revoked
    <3> QED BY <2>1, <2>2, <3>1 DEF TokenRow
  <2>3. CASE t \notin P
    <3>1. Revoked(P)[t] = tokens[t]
      BY <2>3 DEF Revoked
    <3> QED BY <2>3, <3>1
  <2> QED BY <2>2, <2>3
<1> QED BY <1>2, <1>3, <1>4, TableTypes

LEMMA RevokedNone ==
    ASSUME ControlTyped
    PROVE  tokens = Revoked({})
<1>1. tokens \in [1..Len(tokens) -> TokenRow] /\ DOMAIN tokens = 1..Len(tokens)
  BY TableTypes, LenProperties
<1>2. Revoked({}) = [t \in DOMAIN tokens |-> tokens[t]]
  BY DEF Revoked
<1> QED BY <1>1, <1>2

\* What withdrawing codes leaves alone.
LEMMA WithdrawnRows ==
    ASSUME ControlTyped, NEW S
    PROVE  /\ Withdrawn(S) \in Seq(CodeRow) /\ Len(Withdrawn(S)) = Len(challenges)
           /\ DOMAIN Withdrawn(S) = DOMAIN challenges
           /\ \A i \in DOMAIN challenges :
                /\ Withdrawn(S)[i].email = challenges[i].email
                /\ Withdrawn(S)[i].epoch = challenges[i].epoch
                /\ Open(Withdrawn(S)[i]) <=> (Open(challenges[i]) /\ challenges[i].email \notin S)
<1>1. \A i \in 1..Len(challenges) : [challenges[i] EXCEPT !.state = "closed"] \in CodeRow
  BY TableTypes DEF CodeRow
<1>2. Withdrawn(S) \in [1..Len(challenges) -> CodeRow]
  BY <1>1, TableTypes DEF Withdrawn
<1>3. Withdrawn(S) \in Seq(CodeRow) /\ Len(Withdrawn(S)) = Len(challenges)
  BY <1>2, SeqOfFunction, TableTypes
<1>4. ASSUME NEW i \in DOMAIN challenges
      PROVE  /\ Withdrawn(S)[i].email = challenges[i].email
             /\ Withdrawn(S)[i].epoch = challenges[i].epoch
             /\ Open(Withdrawn(S)[i]) <=> (Open(challenges[i]) /\ challenges[i].email \notin S)
  <2>1. challenges[i] \in CodeRow
    BY <1>4, TableTypes
  <2>2. CASE challenges[i].email \in S /\ Open(challenges[i])
    <3>1. Withdrawn(S)[i] = [challenges[i] EXCEPT !.state = "closed"]
      BY <2>2 DEF Withdrawn
    <3> QED BY <2>1, <2>2, <3>1 DEF CodeRow, Open
  <2>3. CASE ~(challenges[i].email \in S /\ Open(challenges[i]))
    <3>1. Withdrawn(S)[i] = challenges[i]
      BY <2>3 DEF Withdrawn
    <3> QED BY <2>3, <3>1
  <2> QED BY <2>2, <2>3
<1> QED BY <1>2, <1>3, <1>4, TableTypes

-----------------------------------------------------------------------------
(***************************************************************************)
(* What becomes of the tokens and the codes in a transaction.              *)
(***************************************************************************)

TokensOK == /\ tokens \in Seq(TokenRow) /\ Len(tokens) <= MaxTokens
            /\ RemovalIsFinal /\ SuspendedHasNoTokens

CodesOK == /\ challenges \in Seq(CodeRow) /\ Len(challenges) <= MaxChallenges
           /\ CodesAreCurrent

RestOK == /\ users \in [Deployers -> Account] /\ app \in AppRow
          /\ page = {None} \/ page \in SUBSET Deployers
          /\ budget \in 0..Changes

LEMMA ControlParts == ControlInv <=> TokensOK /\ CodesOK /\ RestOK
<1>1. app \in AppRow => /\ app.owner \in Deployers \cup {None}
                       /\ app.status \in {"active", "suspended"}
                       /\ app.mode \in {"private", "public"}
                       /\ app.confirmed \in BOOLEAN
  BY DEF AppRow
<1> QED BY <1>1 DEF ControlInv, ControlTyped, ControlTypeOK, TokensOK, CodesOK, RestOK,
               TokenRow, CodeRow

LEMMA ControlPartsNext ==
    ASSUME TokensOK', CodesOK', RestOK'
    PROVE  ControlInv'
<1>1. /\ app'.owner \in Deployers \cup {None}
      /\ app'.status \in {"active", "suspended"}
      /\ app'.mode \in {"private", "public"}
      /\ app'.confirmed \in BOOLEAN
  BY DEF RestOK, AppRow
<1> QED BY <1>1 DEF ControlInv, ControlTyped, ControlTypeOK, TokensOK, CodesOK, RestOK,
               TokenRow, CodeRow

\* Revoking tokens is safe as long as whoever is removed loses all of them and
\* an application that is suspended all of its own.
LEMMA RevokeKeeps ==
    ASSUME ControlInv, NEW P, tokens' = Revoked(P),
           \A e \in Deployers : users'[e].epoch = users[e].epoch \/ TokensOf({e}) \subseteq P,
           app'.status = "suspended" => app.status = "suspended" \/ AppTokens \subseteq P
    PROVE  TokensOK' /\ Len(tokens') = Len(tokens)
<1>1. ControlTyped
  BY DEF ControlInv
<1>2. /\ tokens' \in Seq(TokenRow) /\ Len(tokens') = Len(tokens)
      /\ DOMAIN tokens' = DOMAIN tokens
  BY <1>1, RevokedRows
<1>3. \A t \in DOMAIN tokens :
          /\ tokens'[t].email = tokens[t].email /\ tokens'[t].bound = tokens[t].bound
          /\ tokens'[t].epoch = tokens[t].epoch
          /\ tokens'[t].revoked <=> (tokens[t].revoked \/ t \in P)
  BY <1>1, RevokedRows
<1>4. \A t \in DOMAIN tokens : tokens[t].email \in Deployers
  BY <1>1, TableTypes DEF TokenRow
<1>5. RemovalIsFinal'
  BY <1>2, <1>3, <1>4 DEF RemovalIsFinal, ControlInv, TokensOf
<1>6. SuspendedHasNoTokens'
  BY <1>2, <1>3 DEF SuspendedHasNoTokens, ControlInv, AppTokens
<1> QED BY <1>1, <1>2, <1>5, <1>6 DEF TokensOK, ControlTyped, ControlTypeOK

LEMMA TokensUnchanged ==
    ASSUME ControlInv, UNCHANGED tokens,
           \A e \in Deployers : users'[e].epoch = users[e].epoch,
           app'.status = "suspended" => app.status = "suspended"
    PROVE  TokensOK'
<1>1. tokens' = Revoked({})
  BY RevokedNone DEF ControlInv
<1> QED BY <1>1, RevokeKeeps

\* A new token is one its address is entitled to now, and one of the
\* application only while that is active.
LEMMA IssueKeeps ==
    ASSUME ControlInv, NEW r \in TokenRow, Len(tokens) < MaxTokens,
           tokens' = Append(tokens, r), UNCHANGED <<users, app>>,
           ~r.bound => r.epoch = users[r.email].epoch,
           r.bound => app.status # "suspended"
    PROVE  TokensOK' /\ Len(tokens') = Len(tokens) + 1
<1>1. ControlTyped
  BY DEF ControlInv
<1>2. /\ tokens' \in Seq(TokenRow) /\ Len(tokens') = Len(tokens) + 1
      /\ \A t \in 1..Len(tokens) : tokens'[t] = tokens[t]
      /\ tokens'[Len(tokens) + 1] = r
  BY <1>1, TableTypes, AppendProperties
<1>3. DOMAIN tokens' = 1..(Len(tokens) + 1) /\ DOMAIN tokens = 1..Len(tokens)
      /\ Len(tokens) \in Nat
  BY <1>1, <1>2, TableTypes, LenProperties
<1>4. RemovalIsFinal'
  <2> SUFFICES ASSUME NEW t \in DOMAIN tokens', ~tokens'[t].bound, ~tokens'[t].revoked
               PROVE  tokens'[t].epoch = users'[tokens'[t].email].epoch
    BY DEF RemovalIsFinal
  <2>1. CASE t \in 1..Len(tokens)
    BY <1>2, <1>3, <2>1 DEF ControlInv, RemovalIsFinal
  <2>2. CASE t = Len(tokens) + 1
    BY <1>2, <2>2
  <2> QED BY <1>3, <2>1, <2>2
<1>5. SuspendedHasNoTokens'
  <2> SUFFICES ASSUME app.status = "suspended", NEW t \in DOMAIN tokens', tokens'[t].bound
               PROVE  tokens'[t].revoked
    BY DEF SuspendedHasNoTokens, AppTokens
  <2>1. CASE t \in 1..Len(tokens)
    BY <1>2, <1>3, <2>1 DEF ControlInv, SuspendedHasNoTokens, AppTokens
  <2>2. CASE t = Len(tokens) + 1
    BY <1>2, <2>2
  <2> QED BY <1>3, <2>1, <2>2
<1>6. Len(tokens') <= MaxTokens
  BY <1>2, <1>3, ControlAssumption
<1> QED BY <1>2, <1>4, <1>5, <1>6 DEF TokensOK

\* Withdrawing codes is safe when whoever is removed loses all of them.
LEMMA WithdrawKeeps ==
    ASSUME ControlInv, NEW S, challenges' = Withdrawn(S),
           \A e \in Deployers : users'[e].epoch = users[e].epoch \/ e \in S
    PROVE  CodesOK' /\ Len(challenges') = Len(challenges)
<1>1. ControlTyped
  BY DEF ControlInv
<1>2. /\ challenges' \in Seq(CodeRow) /\ Len(challenges') = Len(challenges)
      /\ DOMAIN challenges' = DOMAIN challenges
  BY <1>1, WithdrawnRows
<1>3. \A i \in DOMAIN challenges :
          /\ challenges'[i].email = challenges[i].email
          /\ challenges'[i].epoch = challenges[i].epoch
          /\ Open(challenges'[i]) => Open(challenges[i]) /\ challenges[i].email \notin S
  BY <1>1, WithdrawnRows
<1>4. \A i \in DOMAIN challenges : challenges[i].email \in Deployers
  BY <1>1, TableTypes DEF CodeRow
<1>5. CodesAreCurrent'
  <2> SUFFICES ASSUME NEW i \in DOMAIN challenges', Open(challenges'[i])
               PROVE  challenges'[i].epoch = users'[challenges'[i].email].epoch
    BY DEF CodesAreCurrent, Open
  <2> QED BY <1>2, <1>3, <1>4 DEF CodesAreCurrent, ControlInv
<1> QED BY <1>1, <1>2, <1>5 DEF CodesOK, ControlTyped, ControlTypeOK

LEMMA CodesUnchanged ==
    ASSUME ControlInv, UNCHANGED challenges,
           \A e \in Deployers : users'[e].epoch = users[e].epoch
    PROVE  CodesOK'
<1>1. \A i \in DOMAIN challenges : challenges[i].email \in Deployers
  BY TableTypes DEF ControlInv, CodeRow
<1> QED BY <1>1 DEF ControlInv, ControlTyped, ControlTypeOK, CodesOK, CodesAreCurrent, CodeRow, Open

LEMMA RequestKeeps ==
    ASSUME ControlInv, NEW e \in Deployers, RequestOTP(e), UNCHANGED users
    PROVE  /\ CodesOK' /\ Len(challenges') = Len(challenges) + 1
           /\ Len(challenges') \in 1..MaxChallenges
<1> DEFINE w == Withdrawn({e})
           r == [email |-> e, attempts |-> 0, state |-> "open",
                 mailed |-> Active(e), epoch |-> users[e].epoch]
<1>1. ControlTyped
  BY DEF ControlInv
<1>2. r \in CodeRow
  BY <1>1, ControlAssumption DEF ControlTyped, ControlTypeOK, Account, CodeRow, Active
<1>3. /\ w \in Seq(CodeRow) /\ Len(w) = Len(challenges) /\ Len(w) \in Nat
      /\ DOMAIN w = 1..Len(w) /\ DOMAIN w = DOMAIN challenges
  BY <1>1, WithdrawnRows, TableTypes
<1>4. \A i \in DOMAIN w :
          /\ w[i].email = challenges[i].email /\ w[i].epoch = challenges[i].epoch
          /\ Open(w[i]) => Open(challenges[i])
  BY <1>1, WithdrawnRows
<1>5. challenges' = Append(w, r) /\ Len(challenges) < MaxChallenges
  BY DEF RequestOTP, WithdrawEarlier
<1> HIDE DEF w, r
<1>6. /\ challenges' \in Seq(CodeRow) /\ Len(challenges') = Len(w) + 1
      /\ \A i \in 1..Len(w) : challenges'[i] = w[i]
      /\ challenges'[Len(w) + 1] = r
  BY <1>2, <1>3, <1>5, AppendProperties
<1>7. DOMAIN challenges' = 1..(Len(w) + 1)
  BY <1>6, LenProperties
<1>8. r.email = e /\ r.epoch = users[e].epoch
  BY DEF r
<1>9. CodesAreCurrent'
  <2> SUFFICES ASSUME NEW i \in DOMAIN challenges', Open(challenges'[i])
               PROVE  challenges'[i].epoch = users'[challenges'[i].email].epoch
    BY DEF CodesAreCurrent, Open
  <2>1. CASE i \in 1..Len(w)
    <3>1. challenges'[i] = w[i] /\ i \in DOMAIN challenges /\ Open(challenges[i])
      BY <1>3, <1>4, <1>6, <2>1 DEF Open
    <3> QED BY <1>3, <1>4, <3>1 DEF ControlInv, CodesAreCurrent
  <2>2. CASE i = Len(w) + 1
    BY <1>6, <1>8, <2>2
  <2> QED BY <1>3, <1>7, <2>1, <2>2
<1>10. Len(challenges') \in 1..MaxChallenges
  BY <1>3, <1>5, <1>6, ControlAssumption
<1> QED BY <1>3, <1>6, <1>9, <1>10, ControlAssumption DEF CodesOK

\* One code is redeemed, expires or counts a wrong guess.
LEMMA OneCodeKeeps ==
    ASSUME ControlInv, NEW i \in DOMAIN challenges, NEW r \in CodeRow, UNCHANGED users,
           challenges' = [challenges EXCEPT ![i] = r],
           r.email = challenges[i].email, r.epoch = challenges[i].epoch,
           Open(r) => Open(challenges[i])
    PROVE  CodesOK' /\ Len(challenges') = Len(challenges)
<1>1. ControlTyped
  BY DEF ControlInv
<1>2. /\ challenges' \in Seq(CodeRow) /\ Len(challenges') = Len(challenges)
      /\ \A j \in 1..Len(challenges) : challenges'[j] = IF j = i THEN r ELSE challenges[j]
  BY <1>1, TableTypes, ExceptSeq
<1>3. DOMAIN challenges' = DOMAIN challenges /\ DOMAIN challenges = 1..Len(challenges)
  BY <1>1, <1>2, TableTypes, LenProperties
<1>4. CodesAreCurrent'
  <2> SUFFICES ASSUME NEW j \in DOMAIN challenges', Open(challenges'[j])
               PROVE  challenges'[j].epoch = users'[challenges'[j].email].epoch
    BY DEF CodesAreCurrent, Open
  <2>1. CASE j = i
    BY <1>2, <1>3, <2>1 DEF ControlInv, CodesAreCurrent
  <2>2. CASE j # i
    BY <1>2, <1>3, <2>2 DEF ControlInv, CodesAreCurrent
  <2> QED BY <2>1, <2>2
<1> QED BY <1>1, <1>2, <1>4 DEF CodesOK, ControlTyped, ControlTypeOK

-----------------------------------------------------------------------------
(***************************************************************************)
(* The transactions.                                                       *)
(***************************************************************************)

LEMMA ControlStarts == ControlInit => ControlInv
<1> SUFFICES ASSUME ControlInit PROVE ControlInv
  OBVIOUS
<1>1. users \in [Deployers -> Account] /\ \A e \in Deployers : users[e].epoch = 0
  BY DEF ControlInit, Account, Roles, Statuses
<1>2. PICK e \in ActiveDeployers :
        /\ tokens = <<[email |-> e, bound |-> FALSE, revoked |-> FALSE, epoch |-> 0]>>
        /\ app \in {[owner |-> None, status |-> "active", mode |-> "private",
                     current |-> None, confirmed |-> TRUE],
                    [owner |-> e, status |-> "active", mode |-> "private",
                     current |-> Earlier, confirmed |-> TRUE],
                    [owner |-> e, status |-> "active", mode |-> "public",
                     current |-> Earlier, confirmed |-> TRUE]}
  BY DEF ControlInit
<1> DEFINE r == [email |-> e, bound |-> FALSE, revoked |-> FALSE, epoch |-> 0]
<1>3. r \in TokenRow /\ e \in Deployers
  BY DEF TokenRow, ActiveDeployers
<1>4. app \in AppRow /\ app.status = "active"
  <2>1. \A o \in Deployers \cup {None}, m \in {"private", "public"}, c \in {Earlier, None} :
          /\ [owner |-> o, status |-> "active", mode |-> m, current |-> c, confirmed |-> TRUE]
               \in AppRow
          /\ [owner |-> o, status |-> "active", mode |-> m, current |-> c,
              confirmed |-> TRUE].status = "active"
    BY DEF AppRow
  <2> QED BY <1>2, <1>3, <2>1
<1>5. tokens = <<r>> /\ r.email = e /\ r.epoch = 0
  BY <1>2
<1> HIDE DEF r
<1>6. tokens \in Seq(TokenRow) /\ Len(tokens) = 1 /\ DOMAIN tokens = 1..1 /\ tokens[1] = r
  BY <1>3, <1>5
<1>7. RemovalIsFinal
  BY <1>1, <1>3, <1>5, <1>6 DEF RemovalIsFinal
<1>8. SuspendedHasNoTokens
  BY <1>4 DEF SuspendedHasNoTokens
<1>9. TokensOK
  BY <1>6, <1>7, <1>8, ControlAssumption DEF TokensOK
<1>10. CodesOK
  BY ControlAssumption DEF ControlInit, CodesOK, CodesAreCurrent
<1>11. RestOK
  BY <1>1, <1>4, ControlAssumption DEF ControlInit, RestOK
<1> QED BY <1>9, <1>10, <1>11, ControlParts

LEMMA BudgetSpent ==
    ASSUME ControlInv, Change
    PROVE  budget' \in 0..Changes
BY ControlAssumption DEF ControlInv, ControlTyped, ControlTypeOK, Change

LEMMA AdministerKeeps ==
    ASSUME ControlInv, Administer
    PROVE  /\ ControlInv'
           /\ Len(tokens') = Len(tokens) /\ Len(challenges') = Len(challenges)
           /\ app'.mode = app.mode /\ app'.confirmed = app.confirmed
<1>0. ControlTyped /\ TokensOK /\ CodesOK /\ RestOK
  BY ControlParts DEF ControlInv
<1> USE ControlPartsNext
<1>1. \A e \in Deployers : users[e] \in Account
  BY <1>0 DEF RestOK
<1>2. ASSUME NEW e \in Deployers, NEW status \in Statuses, SetDeployerStatus(e, status)
      PROVE  /\ ControlInv'
             /\ Len(tokens') = Len(tokens) /\ Len(challenges') = Len(challenges)
             /\ app'.mode = app.mode /\ app'.confirmed = app.confirmed
  <2>1. users' \in [Deployers -> Account] /\ \A d \in Deployers : users'[d].epoch = users[d].epoch
    BY <1>0, <1>2 DEF SetDeployerStatus, RestOK, Account, Statuses
  <2>2. \E P : tokens' = Revoked(P)
    BY <1>0, <1>2, RevokedNone DEF SetDeployerStatus
  <2>3. UNCHANGED <<challenges, app, page>>
    BY <1>2 DEF SetDeployerStatus
  <2>4. TokensOK' /\ Len(tokens') = Len(tokens)
    BY <2>1, <2>2, <2>3, RevokeKeeps
  <2>5. CodesOK'
    BY <2>1, <2>3, CodesUnchanged
  <2>6. budget' \in 0..Changes
    BY <1>2, BudgetSpent DEF SetDeployerStatus
  <2> QED BY <1>0, <2>1, <2>3, <2>4, <2>5, <2>6 DEF RestOK
<1>3. ASSUME NEW e \in Deployers, RecoverOperator(e)
      PROVE  /\ ControlInv'
             /\ Len(tokens') = Len(tokens) /\ Len(challenges') = Len(challenges)
             /\ app'.mode = app.mode /\ app'.confirmed = app.confirmed
  <2> DEFINE operators == {o \in Deployers : users[o].role = "operator"}
  <2>0. users' = [o \in Deployers |->
                   IF o = e THEN [users[o] EXCEPT !.role = "operator", !.status = "active"]
                   ELSE IF o \in operators /\ Active(o)
                        THEN [users[o] EXCEPT !.status = "revoked"]
                        ELSE users[o]]
    BY <1>3 DEF RecoverOperator
  <2> HIDE DEF operators
  <2>1. users' \in [Deployers -> Account] /\ \A d \in Deployers : users'[d].epoch = users[d].epoch
    BY <1>1, <2>0 DEF Account, Statuses, Roles
  <2>2. \E P : tokens' = Revoked(P)
    BY <1>3 DEF RecoverOperator
  <2>3. UNCHANGED <<challenges, app, page>>
    BY <1>3 DEF RecoverOperator
  <2>4. TokensOK' /\ Len(tokens') = Len(tokens)
    BY <2>1, <2>2, <2>3, RevokeKeeps
  <2>5. CodesOK'
    BY <2>1, <2>3, CodesUnchanged
  <2>6. budget' \in 0..Changes
    BY <1>3, BudgetSpent DEF RecoverOperator
  <2> QED BY <1>0, <2>1, <2>3, <2>4, <2>5, <2>6 DEF RestOK
<1>4. CASE ShowDeployers
  <2>1. UNCHANGED <<users, tokens, challenges, app>> /\ page' = ActiveDeployers
    BY <1>4 DEF ShowDeployers
  <2>2. TokensOK' /\ CodesOK'
    BY <2>1, TokensUnchanged, CodesUnchanged
  <2>3. budget' \in 0..Changes
    BY <1>4, BudgetSpent DEF ShowDeployers
  <2>4. page' \in SUBSET Deployers
    BY <2>1 DEF ActiveDeployers
  <2> QED BY <1>0, <2>1, <2>2, <2>3, <2>4 DEF RestOK
<1>5. ASSUME NEW S \in SUBSET Deployers, ReplaceActiveDeployers(S)
      PROVE  /\ ControlInv'
             /\ Len(tokens') = Len(tokens) /\ Len(challenges') = Len(challenges)
             /\ app'.mode = app.mode /\ app'.confirmed = app.confirmed
  <2> DEFINE added == S \ ActiveDeployers
             removed == ActiveDeployers \ S
  <2>0. /\ users' = [e \in Deployers |->
               IF e \in added THEN [users[e] EXCEPT !.status = "active"]
               ELSE IF e \in removed
                    THEN [users[e] EXCEPT !.status = "revoked", !.epoch = @ + 1]
                    ELSE users[e]]
        /\ tokens' = Revoked(TokensOf(removed))
        /\ challenges' = Withdrawn(LoseCodes(added, removed))
        /\ page' = {None} /\ UNCHANGED <<app, budget>>
    BY <1>5 DEF ReplaceActiveDeployers
  <2> HIDE DEF added, removed
  <2>1. /\ users' \in [Deployers -> Account]
        /\ \A d \in Deployers : users'[d].epoch = users[d].epoch \/ d \in removed
    <3>1. \A d \in Deployers :
            /\ [users[d] EXCEPT !.status = "active"] \in Account
            /\ [users[d] EXCEPT !.status = "active"].epoch = users[d].epoch
      BY <1>1 DEF Account, Statuses
    <3>2. \A d \in Deployers, n \in Nat :
            [users[d] EXCEPT !.status = "revoked", !.epoch = n] \in Account
      BY <1>1 DEF Account, Statuses
    <3>3. \A d \in Deployers : users[d].epoch + 1 \in Nat
      BY <1>1 DEF Account
    <3>4. \A d \in Deployers :
            [users[d] EXCEPT !.status = "revoked", !.epoch = users[d].epoch + 1] \in Account
      BY <3>2, <3>3
    <3> QED BY <1>1, <2>0, <3>1, <3>4
  <2>2. \A d \in removed : TokensOf({d}) \subseteq TokensOf(removed)
    BY DEF TokensOf
  <2>3. TokensOK' /\ Len(tokens') = Len(tokens)
    <3>1. \A d \in Deployers : users'[d].epoch = users[d].epoch \/ TokensOf({d}) \subseteq TokensOf(removed)
      BY <2>1, <2>2
    <3> QED BY <2>0, <3>1, RevokeKeeps
  <2>4. CodesOK' /\ Len(challenges') = Len(challenges)
    BY <2>0, <2>1, WithdrawKeeps DEF LoseCodes
  <2> QED BY <1>0, <2>0, <2>1, <2>3, <2>4 DEF RestOK
<1>6. ASSUME NEW status \in {"active", "suspended"}, SetAppStatus(status)
      PROVE  /\ ControlInv'
             /\ Len(tokens') = Len(tokens) /\ Len(challenges') = Len(challenges)
             /\ app'.mode = app.mode /\ app'.confirmed = app.confirmed
  <2>1. /\ UNCHANGED <<users, challenges, page>>
        /\ app' = [app EXCEPT !.status = status]
        /\ tokens' = IF status = "suspended" THEN Revoked(AppTokens) ELSE tokens
    BY <1>6 DEF SetAppStatus
  <2>2. /\ app' \in AppRow /\ app'.status = status /\ app'.mode = app.mode
        /\ app'.confirmed = app.confirmed
    BY <1>0, <2>1 DEF RestOK, AppRow
  <2>3. TokensOK' /\ Len(tokens') = Len(tokens)
    <3>1. CASE status = "suspended"
      BY <2>1, <3>1, RevokeKeeps
    <3>2. CASE status = "active"
      BY <2>1, <2>2, <3>2, TokensUnchanged
    <3> QED BY <3>1, <3>2
  <2>4. CodesOK'
    BY <2>1, CodesUnchanged
  <2>5. budget' \in 0..Changes
    BY <1>6, BudgetSpent DEF SetAppStatus
  <2> QED BY <1>0, <2>1, <2>2, <2>3, <2>4, <2>5 DEF RestOK
<1>7. CASE ExpireChallenge
  <2>1. PICK i \in DOMAIN challenges : challenges' = [challenges EXCEPT ![i].state = "closed"]
    BY <1>7 DEF ExpireChallenge
  <2> DEFINE r == [challenges[i] EXCEPT !.state = "closed"]
  <2>2. r \in CodeRow /\ r.email = challenges[i].email /\ r.epoch = challenges[i].epoch /\ ~Open(r)
    BY <1>0, TableTypes DEF CodeRow, Open
  <2>3. challenges' = [challenges EXCEPT ![i] = r]
    BY <2>1
  <2> HIDE DEF r
  <2>4. UNCHANGED <<users, tokens, app, page, budget>>
    BY <1>7 DEF ExpireChallenge
  <2>5. CodesOK' /\ Len(challenges') = Len(challenges)
    BY <2>2, <2>3, <2>4, OneCodeKeeps
  <2>6. TokensOK'
    BY <2>4, TokensUnchanged
  <2> QED BY <1>0, <2>4, <2>5, <2>6 DEF RestOK
<1> QED BY <1>2, <1>3, <1>4, <1>5, <1>6, <1>7 DEF Administer

-----------------------------------------------------------------------------
(***************************************************************************)
(* The commands.                                                           *)
(***************************************************************************)

Reports == {"none", "ok", "failed", "activation_failed", "unverified"}

Command == [kind : {"none", "login", "logout", "deploy", "mint", "unmint"},
            at : Requests \cup Steps, actor : Deployers \cup {None},
            human : BOOLEAN, force : BOOLEAN, public : BOOLEAN, flag : BOOLEAN,
            token : 0..MaxTokens, code : 0..MaxChallenges, ack : BOOLEAN,
            confirmed : BOOLEAN, tries : 0..(ProbeAttempts - 1), exit : Reports]

UploadStates == {"none", "verified", "active", "superseded"}

\* A command that has reached its place with nt tokens and nc codes issued: it
\* holds the token or the code the place needs, it is of a kind that gets
\* there, it has no report before it exits, and it claims an acknowledgement
\* only when a person gave it, or is about to be asked.
Fits(c, nt, nc) ==
    /\ c \in Command
    /\ c.at \in Reads \cup Writes \cup {"put", "confirm"} => c.token \in 1..nt
    /\ c.at = "verify" => c.code \in 1..nc
    /\ c.at \in {"list", "create", "relist", "access", "confirm", "upload", "activate", "probe"}
         => c.kind = "deploy"
    /\ c.at \in {"check", "otp", "verify", "whoami", "put"} => c.kind \in {"login", "deploy"}
    /\ c.at \in {"logout", "delete", "mint", "unmint"} => c.kind \in {"logout", "mint", "unmint"}
    /\ c.at = "get" => c.kind # "none"
    /\ c.exit # "none" => c.at = "idle"
    /\ c.ack => c.at = "confirm" \/ c.confirmed

\* What command c knows or says of its upload, which has become rel.
Knows(c, rel) ==
    /\ c.at = "activate" \/ c.exit = "activation_failed" => rel = "verified"
    /\ c.at = "probe" \/ c.exit \in {"ok", "unverified"} => rel \in {"active", "superseded"}

CommandsOK ==
    /\ cmd \in [Commands -> Command]
    /\ \A p \in Commands : /\ Fits(cmd[p], Len(tokens), Len(challenges))
                           /\ Knows(cmd[p], release[p])

ClientInv ==
    /\ ControlInv /\ BroadeningIsConfirmed /\ CommandsOK
    /\ store \in 0..Len(tokens)
    /\ release \in [Commands -> UploadStates]
    /\ runs \in 0..MaxRuns

\* A command that goes on keeps everything but its place and its admission.
LEMMA ToFields ==
    ASSUME NEW c \in Command, NEW s \in Requests \cup Steps
    PROVE  /\ To(c, s) \in Command /\ To(c, s).at = s /\ To(c, s).kind = c.kind
           /\ To(c, s).token = c.token /\ To(c, s).code = c.code /\ To(c, s).ack = c.ack
           /\ To(c, s).confirmed = c.confirmed /\ To(c, s).exit = c.exit
           /\ To(c, s).human = c.human /\ To(c, s).flag = c.flag /\ To(c, s).public = c.public
BY DEF To, Command

LEMMA ExitFields ==
    ASSUME NEW c, NEW report, c.kind = "deploy" => report \in Reports
    PROVE  /\ Exit(c, report) \in Command /\ Exit(c, report).at = "idle"
           /\ ~Exit(c, report).ack
           /\ Exit(c, report).exit = IF c.kind = "deploy" THEN report ELSE "none"
<1>1. 0 \in 0..MaxTokens /\ 0 \in 0..MaxChallenges /\ 0 \in 0..(ProbeAttempts - 1)
  BY ControlAssumption, ClientAssumption
<1>2. Idle \in Command
  BY <1>1 DEF Idle, Command, Steps, Reports
<1> QED BY <1>1, <1>2 DEF Exit, Idle, Command, Steps, Reports

\* Leaving is always possible; only a deploy's report says something.
LEMMA ExitFits ==
    ASSUME NEW c, NEW report, NEW nt, NEW nc, NEW rel,
           c.kind = "deploy" => /\ report \in Reports
                                /\ report = "activation_failed" => rel = "verified"
                                /\ report \in {"ok", "unverified"} => rel \in {"active", "superseded"}
    PROVE  Fits(Exit(c, report), nt, nc) /\ Knows(Exit(c, report), rel)
<1>1. /\ Exit(c, report) \in Command /\ Exit(c, report).at = "idle"
      /\ ~Exit(c, report).ack
      /\ Exit(c, report).exit = IF c.kind = "deploy" THEN report ELSE "none"
  BY ExitFields
<1> QED BY <1>1 DEF Fits, Knows, Reads, Writes

LEMMA ToFits ==
    ASSUME NEW c, NEW nt, NEW nc, NEW rel, NEW s \in Requests \cup Steps,
           Fits(c, nt, nc), c.at # "idle", c.at # "confirm",
           s \in Reads \cup Writes \cup {"put", "confirm"} => c.token \in 1..nt,
           s = "verify" => c.code \in 1..nc,
           s \in {"list", "create", "relist", "access", "confirm", "upload", "activate", "probe"}
             => c.kind = "deploy",
           s \in {"check", "otp", "verify", "whoami", "put"} => c.kind \in {"login", "deploy"},
           s \in {"logout", "delete", "mint", "unmint"} => c.kind \in {"logout", "mint", "unmint"},
           s # "get",
           s = "activate" => rel = "verified",
           s = "probe" => rel \in {"active", "superseded"}
    PROVE  Fits(To(c, s), nt, nc) /\ Knows(To(c, s), rel)
<1>1. c \in Command
  BY DEF Fits
<1>2. /\ To(c, s) \in Command /\ To(c, s).at = s /\ To(c, s).kind = c.kind
      /\ To(c, s).token = c.token /\ To(c, s).code = c.code /\ To(c, s).ack = c.ack
      /\ To(c, s).confirmed = c.confirmed /\ To(c, s).exit = c.exit
  BY <1>1, ToFields
<1> HIDE DEF To
<1>3. c.exit = "none" /\ (c.ack => c.confirmed)
  BY DEF Fits
<1> QED BY <1>2, <1>3 DEF Fits, Knows

Answers == {"ok", "lost", "unauthorized", "unavailable", "conflict", "absent", "public", "private"}

\* Whatever a request is answered, the command goes on to a place it fits: a
\* new code or token is there when the next step needs it, and a deploy moves
\* on or reports only what the answer entitles it to.
LEMMA AfterFits ==
    ASSUME NEW c, NEW nt \in Nat, NEW nc \in Nat, NEW rel, NEW r \in Answers,
           Fits(c, nt, nc), c.at \in Requests,
           c.at = "otp" /\ r = "ok" => c.code \in 1..nc,
           c.at = "verify" /\ r = "ok" => c.token \in 1..nt,
           c.at = "upload" /\ r = "ok" => rel = "verified",
           c.at = "activate" /\ r = "ok" => rel \in {"active", "superseded"},
           c.at = "activate" /\ r = "conflict" => rel = "verified"
    PROVE  Fits(After(c, r), nt, nc) /\ Knows(After(c, r), rel)
<1> USE DEF Reads, Writes, Requests, Steps
<1>0. /\ c \in Command /\ c.at \notin {"idle", "confirm"}
      /\ c.at \in Reads \cup Writes => c.token \in 1..nt
  BY DEF Fits
<1>1. Fits(Exit(c, "failed"), nt, nc) /\ Knows(Exit(c, "failed"), rel)
  BY ExitFits DEF Reports
<1>2. CASE c.at = "check"
  <2>1. After(c, r) = AfterCheck(c, r) /\ c.kind \in {"login", "deploy"}
    BY <1>2 DEF After, Fits
  <2>2. CASE r = "ok"
    <3>1. CASE c.kind = "login"
      <4>1. Fits(Exit(c, "ok"), nt, nc) /\ Knows(Exit(c, "ok"), rel)
        BY <3>1, ExitFits
      <4> QED BY <2>1, <2>2, <3>1, <4>1 DEF AfterCheck, SignedIn
    <3>2. CASE c.kind = "deploy"
      <4>1. Fits(To(c, "list"), nt, nc) /\ Knows(To(c, "list"), rel)
        BY <1>0, <1>2, <3>2, ToFits
      <4> QED BY <2>1, <2>2, <3>2, <4>1 DEF AfterCheck, SignedIn
    <3> QED BY <2>1, <3>1, <3>2
  <2>3. CASE r = "unauthorized"
    <3> DEFINE d == [To(c, "otp") EXCEPT !.token = 0]
    <3>1. Fits(To(c, "otp"), nt, nc) /\ Knows(To(c, "otp"), rel) /\ To(c, "otp").at = "otp"
      BY <1>0, <1>2, <2>1, ToFits, ToFields
    <3>2. /\ d \in Command /\ d.at = "otp" /\ d.kind = To(c, "otp").kind
          /\ d.exit = To(c, "otp").exit /\ d.ack = To(c, "otp").ack
          /\ d.confirmed = To(c, "otp").confirmed
      BY <3>1, ControlAssumption DEF Fits, Command
    <3>3. Fits(d, nt, nc) /\ Knows(d, rel)
      BY <3>1, <3>2 DEF Fits, Knows
    <3> QED BY <2>1, <2>3, <3>3 DEF AfterCheck
  <2>4. CASE r \notin {"ok", "unauthorized"}
    BY <1>1, <2>1, <2>4 DEF AfterCheck
  <2> QED BY <2>2, <2>3, <2>4
<1>3. CASE c.at \in {"otp", "verify", "whoami"}
  <2>1. After(c, r) = AfterLogin(c, r) /\ c.kind \in {"login", "deploy"}
    BY <1>3 DEF After, Fits
  <2>2. CASE r # "ok"
    BY <1>1, <2>1, <2>2 DEF AfterLogin
  <2>3. CASE r = "ok" /\ c.at = "otp"
    <3>1. Fits(To(c, "verify"), nt, nc) /\ Knows(To(c, "verify"), rel)
      BY <1>0, <2>1, <2>3, ToFits
    <3> QED BY <2>1, <2>3, <3>1 DEF AfterLogin
  <2>4. CASE r = "ok" /\ c.at = "verify"
    <3>1. Fits(To(c, "whoami"), nt, nc) /\ Knows(To(c, "whoami"), rel)
      BY <1>0, <2>1, <2>4, ToFits
    <3> QED BY <2>1, <2>4, <3>1 DEF AfterLogin
  <2>5. CASE r = "ok" /\ c.at = "whoami"
    <3>1. Fits(To(c, "put"), nt, nc) /\ Knows(To(c, "put"), rel)
      BY <1>0, <2>1, <2>5, ToFits
    <3> QED BY <2>1, <2>5, <3>1 DEF AfterLogin
  <2> QED BY <1>3, <2>2, <2>3, <2>4, <2>5
<1>4. CASE c.at = "logout"
  <2>1. After(c, r) = AfterLogout(c, r) /\ c.kind \in {"logout", "mint", "unmint"}
    BY <1>4 DEF After, Fits
  <2>2. Fits(To(c, "delete"), nt, nc) /\ Knows(To(c, "delete"), rel)
    BY <1>0, <2>1, ToFits
  <2> QED BY <1>1, <2>1, <2>2 DEF AfterLogout
<1>5. CASE c.at \in {"list", "create", "relist"}
  <2>1. After(c, r) = AfterEnsure(c, r) /\ c.kind = "deploy" /\ c.token \in 1..nt
    BY <1>0, <1>5 DEF After, Fits
  <2>2. ASSUME NEW s \in {"access", "upload", "create", "relist"}
        PROVE  Fits(To(c, s), nt, nc) /\ Knows(To(c, s), rel)
    BY <1>0, <2>1, ToFits
  <2> QED BY <1>1, <2>1, <2>2 DEF AfterEnsure
<1>6. CASE c.at = "access"
  <2>1. After(c, r) = AfterAccess(c, r) /\ c.kind = "deploy"
    BY <1>6 DEF After, Fits
  <2> DEFINE d == [To(c, "confirm") EXCEPT !.ack = r # "public"]
  <2>2. Fits(To(c, "confirm"), nt, nc) /\ Knows(To(c, "confirm"), rel)
        /\ To(c, "confirm").at = "confirm"
    BY <1>0, <1>6, <2>1, ToFits, ToFields
  <2>3. /\ d \in Command /\ d.at = "confirm" /\ d.kind = To(c, "confirm").kind
        /\ d.exit = To(c, "confirm").exit /\ d.token = To(c, "confirm").token
    BY <2>2 DEF Fits, Command
  <2>4. Fits(d, nt, nc) /\ Knows(d, rel)
    BY <2>2, <2>3 DEF Fits, Knows
  <2> QED BY <2>1, <2>4 DEF AfterAccess
<1>7. CASE c.at \in {"upload", "activate"}
  <2>1. After(c, r) = AfterDeploy(c, r) /\ c.kind = "deploy" /\ c.token \in 1..nt
    BY <1>0, <1>7 DEF After, Fits
  <2>2. CASE r = "ok" /\ c.at = "upload"
    <3>1. Fits(To(c, "activate"), nt, nc) /\ Knows(To(c, "activate"), rel)
      BY <1>0, <2>1, <2>2, ToFits
    <3> QED BY <2>1, <2>2, <3>1 DEF AfterDeploy
  <2>3. CASE r = "ok" /\ c.at = "activate"
    <3>1. Fits(To(c, "probe"), nt, nc) /\ Knows(To(c, "probe"), rel)
      BY <1>0, <2>1, <2>3, ToFits
    <3> QED BY <2>1, <2>3, <3>1 DEF AfterDeploy
  <2>4. CASE r # "ok" /\ c.at = "activate"
    <3>1. Fits(Exit(c, ActivationReport(r)), nt, nc) /\ Knows(Exit(c, ActivationReport(r)), rel)
      BY <2>4, ExitFits DEF ActivationReport, Reports
    <3> QED BY <2>1, <2>4, <3>1 DEF AfterDeploy
  <2>5. CASE r # "ok" /\ c.at = "upload"
    BY <1>1, <2>1, <2>5 DEF AfterDeploy
  <2> QED BY <1>7, <2>2, <2>3, <2>4, <2>5
<1>8. CASE c.at \in {"mint", "unmint"}
  <2>1. After(c, r) = Exit(c, r) /\ c.kind # "deploy"
    BY <1>8 DEF After, Fits
  <2> QED BY <2>1, ExitFits
<1> QED BY <1>2, <1>3, <1>4, <1>5, <1>6, <1>7, <1>8

\* Tokens and codes are never taken from the tables.
LEMMA FitsGrows ==
    ASSUME NEW c, NEW nt \in Nat, NEW nc \in Nat, NEW mt \in Nat, NEW mc \in Nat,
           nt <= mt, nc <= mc, Fits(c, nt, nc)
    PROVE  Fits(c, mt, mc)
BY DEF Fits

\* An upload that is live may be superseded by another; nothing else happens
\* to it.
Ages(rel, new) == new = rel \/ (rel = "active" /\ new = "superseded")

LEMMA OthersKeep ==
    ASSUME ClientInv, NEW q \in Commands, cmd'[q] = cmd[q], Ages(release[q], release'[q]),
           Len(tokens') \in Nat, Len(challenges') \in Nat,
           Len(tokens) <= Len(tokens'), Len(challenges) <= Len(challenges')
    PROVE  Fits(cmd'[q], Len(tokens'), Len(challenges')) /\ Knows(cmd'[q], release'[q])
<1>1. Len(tokens) \in Nat /\ Len(challenges) \in Nat
  BY TableTypes DEF ClientInv, ControlInv
<1>2. Fits(cmd[q], Len(tokens), Len(challenges)) /\ Knows(cmd[q], release[q])
  BY DEF ClientInv, CommandsOK
<1>3. Fits(cmd[q], Len(tokens'), Len(challenges'))
  BY <1>1, <1>2, FitsGrows
<1> QED BY <1>2, <1>3 DEF Knows, Ages

\* A step of one command leaves the others where they are.
LEMMA BecomesKeeps ==
    ASSUME ClientInv, NEW p \in Commands, NEW c, Becomes(p, c),
           Len(tokens') \in Nat, Len(challenges') \in Nat,
           Len(tokens) <= Len(tokens'), Len(challenges) <= Len(challenges'),
           Fits(c, Len(tokens'), Len(challenges')), Knows(c, release'[p]),
           \A q \in Commands : q # p => Ages(release[q], release'[q])
    PROVE  CommandsOK'
<1>1. cmd \in [Commands -> Command] /\ c \in Command
  BY DEF ClientInv, CommandsOK, Fits
<1>2. cmd' \in [Commands -> Command] /\ cmd'[p] = c
      /\ \A q \in Commands : q # p => cmd'[q] = cmd[q]
  BY <1>1 DEF Becomes
<1>3. ASSUME NEW q \in Commands
      PROVE  Fits(cmd'[q], Len(tokens'), Len(challenges')) /\ Knows(cmd'[q], release'[q])
  <2>1. CASE q = p
    BY <1>2, <2>1
  <2>2. CASE q # p
    BY <1>2, <2>2, OthersKeep
  <2> QED BY <2>1, <2>2
<1>4. \A q \in Commands : Fits(cmd[q], Len(tokens), Len(challenges))'
                       /\ Knows(cmd[q], release[q])'
  BY <1>3 DEF Fits, Knows
<1> QED BY <1>2, <1>4 DEF CommandsOK

\* A request is answered, or its answer lost.
LEMMA AnswerKeeps ==
    ASSUME ClientInv, NEW p \in Commands, NEW c, NEW r \in Answers, Answer(p, c, r),
           Len(tokens') \in Nat, Len(challenges') \in Nat,
           Len(tokens) <= Len(tokens'), Len(challenges) <= Len(challenges'),
           Fits(c, Len(tokens'), Len(challenges')), c.at \in Requests,
           c.at = "otp" /\ r = "ok" => c.code \in 1..Len(challenges'),
           c.at = "verify" /\ r = "ok" => c.token \in 1..Len(tokens'),
           c.at = "upload" /\ r = "ok" => release'[p] = "verified",
           c.at = "activate" /\ r = "ok" => release'[p] \in {"active", "superseded"},
           c.at = "activate" /\ r = "conflict" => release'[p] = "verified",
           \A q \in Commands : q # p => Ages(release[q], release'[q])
    PROVE  CommandsOK'
<1>1. PICK got \in {r, "lost"} : Becomes(p, After(c, got))
  BY DEF Answer
<1>2. got \in Answers
  BY DEF Answers
<1>3. Fits(After(c, got), Len(tokens'), Len(challenges')) /\ Knows(After(c, got), release'[p])
  BY <1>2, AfterFits
<1> QED BY <1>1, <1>3, BecomesKeeps

LEMMA ControlUnchanged ==
    ASSUME ClientInv, UNCHANGED controlVars
    PROVE  /\ ControlInv' /\ BroadeningIsConfirmed'
           /\ Len(tokens') = Len(tokens) /\ Len(challenges') = Len(challenges)
<1>1. ControlInv /\ RestOK /\ UNCHANGED <<users, tokens, challenges, app, page, budget>>
  BY ControlParts DEF ClientInv, controlVars
<1>2. TokensOK' /\ CodesOK'
  BY <1>1, TokensUnchanged, CodesUnchanged
<1>3. RestOK'
  BY <1>1 DEF RestOK
<1> QED BY <1>1, <1>2, <1>3, ControlPartsNext DEF ClientInv, BroadeningIsConfirmed

\* What a step that leaves the tables' rows in place has to show.
LEMMA ClientParts ==
    ASSUME ClientInv, ControlInv', BroadeningIsConfirmed', CommandsOK',
           Len(tokens) <= Len(tokens'), UNCHANGED <<release, runs>>,
           store' = store \/ store' \in 0..Len(tokens')
    PROVE  ClientInv'
<1>1. Len(tokens) \in Nat
  BY TableTypes DEF ClientInv, ControlInv
<1>2. Len(tokens') \in Nat
  <2>1. tokens' \in Seq(TokenRow)
    BY DEF ControlInv, ControlTyped, ControlTypeOK, TokenRow
  <2> QED BY <2>1, LenProperties
<1>3. store' \in 0..Len(tokens')
  BY <1>1, <1>2 DEF ClientInv
<1> QED BY <1>3 DEF ClientInv

-----------------------------------------------------------------------------
(***************************************************************************)
(* The steps.                                                              *)
(***************************************************************************)

\* Requests that change nothing at the server, and the requests that are lost.
LEMMA ReadsKeep ==
    ASSUME ClientInv, NEW p \in Commands, Admit(p) \/ Lose(p) \/ Read(p)
    PROVE  ClientInv'
<1>1. UNCHANGED <<controlVars, store, release, runs>>
  BY DEF Admit, Lose, Read
<1>2. /\ ControlInv' /\ BroadeningIsConfirmed'
      /\ Len(tokens') = Len(tokens) /\ Len(challenges') = Len(challenges)
  BY <1>1, ControlUnchanged
<1>3. /\ Fits(cmd[p], Len(tokens), Len(challenges)) /\ Knows(cmd[p], release[p])
      /\ cmd[p] \in Command /\ ControlTyped /\ app \in AppRow
  BY DEF ClientInv, CommandsOK, Fits, ControlInv, ControlTyped
<1>4. /\ Len(tokens) \in Nat /\ Len(challenges) \in Nat /\ DOMAIN tokens = 1..Len(tokens)
      /\ \A t \in DOMAIN tokens : tokens[t].email \in Deployers
  BY <1>3, TableTypes DEF TokenRow
<1>5. \A q \in Commands : Ages(release[q], release'[q])
  BY <1>1 DEF Ages
<1>6. ASSUME NEW r \in Answers, Answer(p, cmd[p], r), cmd[p].at \in Requests,
             r = "unauthorized" \/ cmd[p].at \in Reads
      PROVE  CommandsOK'
  BY <1>2, <1>3, <1>4, <1>5, <1>6, AnswerKeeps DEF Reads
<1>7. CASE Admit(p)
  <2>1. cmd[p].at \in Writes /\ cmd[p].at \in Requests
    BY <1>7 DEF Admit, Requests
  <2>2. CASE Becomes(p, [cmd[p] EXCEPT !.actor = tokens[cmd[p].token].email])
    <3> DEFINE c == [cmd[p] EXCEPT !.actor = tokens[cmd[p].token].email]
    <3>1. tokens[cmd[p].token].email \in Deployers
      BY <1>3, <1>4, <2>1 DEF Fits
    <3>2. /\ c \in Command /\ c.at = cmd[p].at /\ c.kind = cmd[p].kind /\ c.token = cmd[p].token
          /\ c.code = cmd[p].code /\ c.ack = cmd[p].ack /\ c.confirmed = cmd[p].confirmed
          /\ c.exit = cmd[p].exit
      BY <1>3, <3>1 DEF Command
    <3> HIDE DEF c
    <3>3. Fits(c, Len(tokens'), Len(challenges')) /\ Knows(c, release'[p])
      BY <1>1, <1>2, <1>3, <3>2 DEF Fits, Knows
    <3>4. Becomes(p, c)
      BY <2>2 DEF c
    <3>5. CommandsOK'
      BY <1>2, <1>4, <1>5, <3>3, <3>4, BecomesKeeps
    <3> QED BY <1>1, <1>2, <1>4, <3>5, ClientParts
  <2>3. CASE Answer(p, cmd[p], "unauthorized")
    <3>1. CommandsOK'
      BY <1>6, <2>1, <2>3 DEF Answers
    <3> QED BY <1>1, <1>2, <1>4, <3>1, ClientParts
  <2> QED BY <1>7, <2>2, <2>3 DEF Admit
<1>8. CASE Lose(p)
  <2>1. cmd[p].at \in Requests /\ Becomes(p, After(cmd[p], "lost"))
    BY <1>8 DEF Lose
  <2>2. Fits(After(cmd[p], "lost"), Len(tokens'), Len(challenges'))
        /\ Knows(After(cmd[p], "lost"), release'[p])
    BY <1>2, <1>3, <1>4, <2>1, AfterFits DEF Answers
  <2>3. CommandsOK'
    BY <1>2, <1>4, <1>5, <2>1, <2>2, BecomesKeeps
  <2> QED BY <1>1, <1>2, <1>4, <2>3, ClientParts
<1>9. CASE Read(p)
  <2>1. cmd[p].at \in Reads /\ cmd[p].at \in Requests
    BY <1>9 DEF Read, Requests
  <2>2. \E r \in Answers : Answer(p, cmd[p], r)
    <3>1. app.mode \in {"private", "public"}
      BY <1>3 DEF AppRow
    <3>2. CASE cmd[p].at \in {"check", "whoami"}
      BY <1>9, <3>2 DEF Read, Answers
    <3>3. CASE cmd[p].at \in {"list", "relist"}
      BY <1>9, <3>3 DEF Read, Answers
    <3>4. CASE cmd[p].at = "access"
      BY <1>9, <3>1, <3>4 DEF Read, Answers
    <3> QED BY <2>1, <3>2, <3>3, <3>4 DEF Reads
  <2>3. CommandsOK'
    BY <1>6, <2>1, <2>2
  <2> QED BY <1>1, <1>2, <1>4, <2>3, ClientParts
<1> QED BY <1>7, <1>8, <1>9

\* The steps on the command's own machine.
LEMMA LocalKeeps ==
    ASSUME ClientInv, NEW p \in Commands,
           Get(p) \/ Put(p) \/ Delete(p) \/ Confirm(p) \/ Probe(p)
    PROVE  ClientInv'
<1> USE DEF Steps, Requests, Reads, Writes
<1> DEFINE c == cmd[p]
<1>1. UNCHANGED <<controlVars, release, runs>>
  BY DEF Get, Put, Delete, Confirm, Probe
<1>2. /\ ControlInv' /\ BroadeningIsConfirmed'
      /\ Len(tokens') = Len(tokens) /\ Len(challenges') = Len(challenges)
  BY <1>1, ControlUnchanged
<1>3. /\ Fits(c, Len(tokens), Len(challenges)) /\ Knows(c, release[p]) /\ c \in Command
      /\ store \in 0..Len(tokens)
  BY DEF ClientInv, CommandsOK, Fits
<1>4. Len(tokens) \in Nat /\ Len(challenges) \in Nat
  BY TableTypes DEF ClientInv, ControlInv
<1>5. \A q \in Commands : Ages(release[q], release'[q])
  BY <1>1 DEF Ages
<1>6. ASSUME NEW d, Becomes(p, d), Fits(d, Len(tokens), Len(challenges)), Knows(d, release[p]),
             store' = store \/ store' \in 0..Len(tokens)
      PROVE  ClientInv'
  <2>1. CommandsOK'
    BY <1>1, <1>2, <1>4, <1>5, <1>6, BecomesKeeps
  <2> QED BY <1>1, <1>2, <1>4, <1>6, <2>1, ClientParts
<1>7. Fits(Exit(c, "failed"), Len(tokens), Len(challenges)) /\ Knows(Exit(c, "failed"), release[p])
  BY ExitFits DEF Reports
<1>8. CASE Get(p)
  <2>0. c.at = "get" /\ UNCHANGED store /\ c.kind # "none"
    BY <1>3, <1>8 DEF Get, At, Fits
  <2>1. ASSUME NEW s \in Requests, Becomes(p, [To(c, s) EXCEPT !.token = store]), store # 0,
               s = "check" => c.kind \in {"login", "deploy"},
               s # "check" => s = IF c.kind = "deploy" THEN "list" ELSE c.kind,
               c.kind # "login" \/ s = "check"
        PROVE  ClientInv'
    <3> DEFINE d == [To(c, s) EXCEPT !.token = store]
    <3>1. store \in 1..Len(tokens) /\ store \in 0..MaxTokens
      BY <1>3, <1>4, <2>1, ControlAssumption DEF ClientInv, ControlInv, ControlTyped, ControlTypeOK
    <3>2. /\ To(c, s) \in Command /\ To(c, s).at = s /\ To(c, s).kind = c.kind
          /\ To(c, s).ack = c.ack /\ To(c, s).confirmed = c.confirmed /\ To(c, s).exit = c.exit
          /\ To(c, s).code = c.code
      BY <1>3, ToFields
    <3>3. /\ d \in Command /\ d.at = s /\ d.kind = c.kind /\ d.token = store /\ d.ack = c.ack
          /\ d.confirmed = c.confirmed /\ d.exit = c.exit
      BY <3>1, <3>2 DEF Command
    <3>4. c.exit = "none" /\ (c.ack => c.confirmed)
      BY <1>3, <2>0 DEF Fits
    <3>5. c.kind \in {"login", "logout", "deploy", "mint", "unmint"}
      BY <1>3, <2>0 DEF Command
    <3> HIDE DEF d, c
    <3>6. Fits(d, Len(tokens), Len(challenges)) /\ Knows(d, release[p])
      BY <2>1, <3>1, <3>3, <3>4, <3>5 DEF Fits, Knows
    <3> QED BY <1>6, <2>0, <2>1, <3>6 DEF d
  <2>2. CASE SignsIn(c) /\ Becomes(p, To(c, "otp"))
    <3>1. Fits(To(c, "otp"), Len(tokens), Len(challenges)) /\ Knows(To(c, "otp"), release[p])
      BY <1>3, <2>0, <2>2, ToFits DEF SignsIn
    <3> QED BY <1>6, <2>0, <2>2, <3>1
  <2>3. CASE SignsIn(c) /\ store # 0 /\ Becomes(p, [To(c, "check") EXCEPT !.token = store])
    BY <2>1, <2>3 DEF SignsIn
  <2>4. CASE /\ ~SignsIn(c) /\ store # 0
             /\ Becomes(p, [To(c, IF c.kind = "deploy" THEN "list" ELSE c.kind) EXCEPT !.token = store])
    <3>1. c.kind \in {"logout", "deploy", "mint", "unmint"}
      BY <1>3, <2>0, <2>4 DEF Command, SignsIn
    <3> QED BY <2>1, <2>4, <3>1
  <2>5. CASE Becomes(p, Exit(c, "failed"))
    BY <1>6, <1>7, <2>0, <2>5
  <2> QED BY <1>8, <2>2, <2>3, <2>4, <2>5 DEF Get
<1>9. CASE Put(p)
  <2>1. c.at = "put" /\ c.kind \in {"login", "deploy"} /\ c.token \in 1..Len(tokens)
    BY <1>3, <1>9 DEF Put, At, Fits
  <2>2. Fits(SignedIn(c), Len(tokens), Len(challenges)) /\ Knows(SignedIn(c), release[p])
    <3>1. CASE c.kind = "login"
      <4>1. Fits(Exit(c, "ok"), Len(tokens), Len(challenges)) /\ Knows(Exit(c, "ok"), release[p])
        BY <3>1, ExitFits
      <4> QED BY <3>1, <4>1 DEF SignedIn
    <3>2. CASE c.kind = "deploy"
      <4>1. Fits(To(c, "list"), Len(tokens), Len(challenges)) /\ Knows(To(c, "list"), release[p])
        BY <1>3, <2>1, <3>2, ToFits
      <4> QED BY <3>2, <4>1 DEF SignedIn
    <3> QED BY <2>1, <3>1, <3>2
  <2>3. CASE store' = c.token /\ Becomes(p, SignedIn(c))
    <3>1. store' \in 0..Len(tokens)
      BY <1>4, <2>1, <2>3
    <3> QED BY <1>6, <2>2, <2>3, <3>1
  <2>4. CASE UNCHANGED store /\ Becomes(p, Exit(c, "failed"))
    BY <1>6, <1>7, <2>4
  <2> QED BY <1>9, <2>3, <2>4 DEF Put
<1>10. CASE Delete(p)
  <2>1. c.kind # "deploy" /\ Becomes(p, Exit(c, "ok")) /\ store' \in {0, store}
    BY <1>3, <1>10 DEF Delete, At, Fits
  <2>2. Fits(Exit(c, "ok"), Len(tokens), Len(challenges)) /\ Knows(Exit(c, "ok"), release[p])
    BY <2>1, ExitFits
  <2>3. store' = store \/ store' \in 0..Len(tokens)
    BY <1>4, <2>1
  <2> QED BY <1>6, <2>1, <2>2, <2>3
<1>11. CASE Confirm(p)
  <2>0. c.at = "confirm" /\ UNCHANGED store /\ c.kind = "deploy" /\ c.exit = "none"
    BY <1>3, <1>11 DEF Confirm, At, Fits
  <2> DEFINE d == [To(c, "upload") EXCEPT !.ack = c.flag \/ c.ack, !.confirmed = c.flag \/ c.ack]
  <2>1. CASE Becomes(p, d)
    <3>1. /\ To(c, "upload") \in Command /\ To(c, "upload").at = "upload"
          /\ To(c, "upload").kind = c.kind /\ To(c, "upload").exit = c.exit
          /\ To(c, "upload").token = c.token
      BY <1>3, ToFields
    <3>2. /\ d \in Command /\ d.at = "upload" /\ d.kind = c.kind /\ d.exit = c.exit
          /\ d.token = c.token /\ d.ack = d.confirmed
      BY <3>1 DEF Command
    <3>3. c.token \in 1..Len(tokens)
      BY <1>3, <2>0 DEF Fits
    <3> HIDE DEF d, c
    <3>4. Fits(d, Len(tokens), Len(challenges)) /\ Knows(d, release[p])
      BY <2>0, <3>2, <3>3 DEF Fits, Knows
    <3> QED BY <1>6, <2>0, <2>1, <3>4
  <2>2. CASE Becomes(p, Exit(c, "failed"))
    BY <1>6, <1>7, <2>0, <2>2
  <2> QED BY <1>11, <2>1, <2>2 DEF Confirm
<1>12. CASE Probe(p)
  <2>0. c.at = "probe" /\ UNCHANGED store /\ release[p] \in {"active", "superseded"}
    BY <1>3, <1>12 DEF Probe, At, Knows
  <2>1. ASSUME NEW report \in {"ok", "unverified"}, Becomes(p, Exit(c, report))
        PROVE  ClientInv'
    <3>1. Fits(Exit(c, report), Len(tokens), Len(challenges)) /\ Knows(Exit(c, report), release[p])
      BY <2>0, ExitFits DEF Reports
    <3> QED BY <1>6, <2>0, <2>1, <3>1
  <2>2. CASE c.tries < ProbeAttempts - 1 /\ Becomes(p, [c EXCEPT !.tries = @ + 1])
    <3> DEFINE d == [c EXCEPT !.tries = c.tries + 1]
    <3>1. c.tries + 1 \in 0..(ProbeAttempts - 1)
      BY <1>3, <2>2, ClientAssumption DEF Command
    <3>2. /\ d \in Command /\ d.at = c.at /\ d.kind = c.kind /\ d.token = c.token
          /\ d.code = c.code /\ d.ack = c.ack /\ d.confirmed = c.confirmed /\ d.exit = c.exit
      BY <1>3, <3>1 DEF Command
    <3>3. Becomes(p, d)
      BY <2>2
    <3> HIDE DEF d
    <3>4. Fits(d, Len(tokens), Len(challenges)) /\ Knows(d, release[p])
      BY <1>3, <3>2 DEF Fits, Knows
    <3> QED BY <1>6, <2>0, <3>3, <3>4
  <2> QED BY <1>12, <2>1, <2>2 DEF Probe
<1> QED BY <1>8, <1>9, <1>10, <1>11, <1>12

LEMMA StartKeeps ==
    ASSUME ClientInv, NEW p \in Commands, NEW k \in Kinds, Start(p, k)
    PROVE  ClientInv'
<1>1. UNCHANGED <<controlVars, store, release>> /\ runs > 0 /\ runs' = runs - 1
  BY DEF Start
<1>2. /\ ControlInv' /\ BroadeningIsConfirmed'
      /\ Len(tokens') = Len(tokens) /\ Len(challenges') = Len(challenges)
  BY <1>1, ControlUnchanged
<1>3. Len(tokens) \in Nat /\ Len(challenges) \in Nat
  BY TableTypes DEF ClientInv, ControlInv
<1>4. PICK human \in BOOLEAN, force \in BOOLEAN, public \in BOOLEAN, flag \in BOOLEAN :
        Becomes(p, [Idle EXCEPT !.kind = k, !.at = "get", !.human = human, !.force = force,
                                !.public = public, !.flag = flag])
  BY DEF Start
<1> DEFINE d == [Idle EXCEPT !.kind = k, !.at = "get", !.human = human, !.force = force,
                             !.public = public, !.flag = flag]
<1>5. 0 \in 0..MaxTokens /\ 0 \in 0..MaxChallenges /\ 0 \in 0..(ProbeAttempts - 1)
  BY ControlAssumption, ClientAssumption
<1>6. k \in {"login", "logout", "deploy", "mint", "unmint"}
  BY ClientAssumption
<1>7. d \in Command /\ d.at = "get" /\ d.kind = k /\ d.exit = "none" /\ ~d.ack
  <2>1. Idle \in Command /\ Idle.exit = "none" /\ Idle.ack = FALSE
    BY <1>5 DEF Idle, Command, Steps, Reports
  <2>2. d.at = "get" /\ d.kind = k /\ d.exit = "none" /\ d.ack = FALSE
    BY <2>1 DEF Command
  <2>3. "get" \in Requests \cup Steps
    BY DEF Steps
  <2>4. human \in BOOLEAN /\ force \in BOOLEAN /\ public \in BOOLEAN /\ flag \in BOOLEAN
    BY <1>4
  <2>5. d \in Command
    BY <1>6, <2>1, <2>3, <2>4 DEF Command
  <2> QED BY <2>2, <2>5
<1> HIDE DEF d
<1>8. Fits(d, Len(tokens'), Len(challenges')) /\ Knows(d, release'[p])
  BY <1>6, <1>7 DEF Fits, Knows, Reads, Writes
<1>9. CommandsOK'
  <2>1. \A q \in Commands : Ages(release[q], release'[q])
    BY <1>1 DEF Ages
  <2>2. Becomes(p, d)
    BY <1>4 DEF d
  <2> QED BY <1>2, <1>3, <1>8, <2>1, <2>2, BecomesKeeps
<1>10. runs' \in 0..MaxRuns
  BY <1>1, ClientAssumption DEF ClientInv
<1> QED BY <1>1, <1>2, <1>9, <1>10 DEF ClientInv

\* The requests that change the accounts' tokens and codes.
LEMMA SignInKeeps ==
    ASSUME ClientInv, NEW p \in Commands,
           \/ HandleOTP(p) \/ HandleVerify(p) \/ HandleLogout(p)
           \/ HandleCreateToken(p) \/ HandleRevokeToken(p)
    PROVE  ClientInv'
<1> USE DEF Requests, Reads, Writes
<1>1. UNCHANGED <<users, app, page, budget, store, release, runs>>
  BY DEF HandleOTP, HandleVerify, HandleLogout, HandleCreateToken, HandleRevokeToken
<1>2. /\ Fits(cmd[p], Len(tokens), Len(challenges)) /\ Knows(cmd[p], release[p])
      /\ cmd[p] \in Command /\ ControlInv /\ ControlTyped /\ RestOK
  BY ControlParts DEF ClientInv, CommandsOK, Fits, ControlInv
<1>3. /\ Len(tokens) \in Nat /\ Len(challenges) \in Nat /\ DOMAIN tokens = 1..Len(tokens)
      /\ DOMAIN challenges = 1..Len(challenges) /\ \A t \in DOMAIN tokens : tokens[t] \in TokenRow
      /\ \A i \in DOMAIN challenges : challenges[i] \in CodeRow
      /\ Len(tokens) <= MaxTokens /\ Len(challenges) <= MaxChallenges
  BY <1>2, TableTypes DEF ControlTyped, ControlTypeOK
<1>4. \A q \in Commands : Ages(release[q], release'[q])
  BY <1>1 DEF Ages
<1>5. RestOK' /\ BroadeningIsConfirmed'
  BY <1>1, <1>2 DEF RestOK, ClientInv, BroadeningIsConfirmed
<1>6. ASSUME TokensOK', CodesOK', CommandsOK', Len(tokens) <= Len(tokens')
      PROVE  ClientInv'
  BY <1>1, <1>5, <1>6, ControlPartsNext, ClientParts
<1>7. CASE HandleOTP(p)
  <2>0. cmd[p].at = "otp" /\ UNCHANGED tokens
    BY <1>7 DEF HandleOTP, At
  <2>1. PICK e \in Deployers : RequestOTP(e)
    BY <1>7 DEF HandleOTP
  <2>2. /\ CodesOK' /\ Len(challenges') = Len(challenges) + 1
        /\ Len(challenges') \in 1..MaxChallenges
    BY <1>1, <1>2, <2>1, RequestKeeps
  <2>3. TokensOK'
    BY <1>1, <1>2, <2>0, TokensUnchanged
  <2> DEFINE c == [cmd[p] EXCEPT !.code = Len(challenges')]
  <2>4. /\ c \in Command /\ c.at = "otp" /\ c.kind = cmd[p].kind /\ c.exit = cmd[p].exit
        /\ c.ack = cmd[p].ack /\ c.confirmed = cmd[p].confirmed /\ c.code = Len(challenges')
    BY <1>2, <2>0, <2>2 DEF Command
  <2>5. Answer(p, c, "ok")
    BY <1>7 DEF HandleOTP
  <2> HIDE DEF c
  <2>6. Fits(c, Len(tokens'), Len(challenges'))
    BY <1>2, <2>0, <2>4 DEF Fits
  <2>7. CommandsOK'
    BY <1>3, <1>4, <2>0, <2>2, <2>4, <2>5, <2>6, AnswerKeeps DEF Answers
  <2> QED BY <1>3, <1>6, <2>0, <2>2, <2>3, <2>7
<1>8. CASE HandleVerify(p)
  <2>0. /\ cmd[p].at = "verify" /\ cmd[p].code \in DOMAIN challenges
        /\ challenges[cmd[p].code] \in CodeRow
    BY <1>2, <1>3, <1>8 DEF HandleVerify, At, Fits
  <2> DEFINE i == cmd[p].code
  <2>1. PICK right \in BOOLEAN :
          \/ /\ VerifyAccepted(i, right)
             /\ Answer(p, [cmd[p] EXCEPT !.token = Len(tokens')], "ok")
          \/ /\ VerifyDenied(i, right)
             /\ Answer(p, cmd[p], "unauthorized")
    BY <1>8 DEF HandleVerify
  <2>2. CASE /\ VerifyAccepted(i, right)
             /\ Answer(p, [cmd[p] EXCEPT !.token = Len(tokens')], "ok")
    <3> DEFINE r == [email |-> challenges[i].email, bound |-> FALSE, revoked |-> FALSE,
                     epoch |-> challenges[i].epoch]
               k == [challenges[i] EXCEPT !.state = "closed"]
               c == [cmd[p] EXCEPT !.token = Len(tokens')]
    <3>1. /\ tokens' = Append(tokens, r) /\ Len(tokens) < MaxTokens /\ Open(challenges[i])
          /\ challenges' = [challenges EXCEPT ![i] = k]
      BY <2>2 DEF VerifyAccepted, Redeemable
    <3>2. /\ r \in TokenRow /\ r.email = challenges[i].email /\ r.epoch = challenges[i].epoch
          /\ ~r.bound
      BY <2>0 DEF TokenRow, CodeRow
    <3>3. k \in CodeRow /\ k.email = challenges[i].email /\ k.epoch = challenges[i].epoch /\ ~Open(k)
      BY <2>0 DEF CodeRow, Open
    <3>4. r.epoch = users[r.email].epoch
      BY <1>2, <2>0, <3>1, <3>2 DEF ControlInv, CodesAreCurrent
    <3> HIDE DEF r, k
    <3>5. TokensOK' /\ Len(tokens') = Len(tokens) + 1
      BY <1>1, <1>2, <3>1, <3>2, <3>4, IssueKeeps
    <3>6. CodesOK' /\ Len(challenges') = Len(challenges)
      BY <1>1, <1>2, <2>0, <3>1, <3>3, OneCodeKeeps
    <3>7. Len(tokens') \in 1..Len(tokens') /\ Len(tokens') \in 0..MaxTokens
      BY <1>3, <3>1, <3>5, ControlAssumption
    <3>8. /\ c \in Command /\ c.at = "verify" /\ c.kind = cmd[p].kind /\ c.exit = cmd[p].exit
          /\ c.ack = cmd[p].ack /\ c.confirmed = cmd[p].confirmed /\ c.code = cmd[p].code
          /\ c.token = Len(tokens')
      BY <1>2, <2>0, <3>7 DEF Command
    <3> HIDE DEF c
    <3>9. Fits(c, Len(tokens'), Len(challenges'))
      BY <1>2, <2>0, <3>6, <3>8 DEF Fits
    <3>10. Answer(p, c, "ok")
      BY <2>2 DEF c
    <3>11. CommandsOK'
      BY <1>3, <1>4, <3>5, <3>6, <3>7, <3>8, <3>9, <3>10, AnswerKeeps DEF Answers
    <3> QED BY <1>3, <1>6, <3>5, <3>6, <3>11
  <2>3. CASE VerifyDenied(i, right) /\ Answer(p, cmd[p], "unauthorized")
    <3>1. UNCHANGED tokens /\ TokensOK'
      BY <1>1, <1>2, <2>3, TokensUnchanged DEF VerifyDenied
    <3>2. CodesOK' /\ Len(challenges') = Len(challenges)
      <4>1. CASE challenges' = challenges
        BY <1>1, <1>2, <4>1, CodesUnchanged
      <4>2. CASE Redeemable(i) /\ challenges' = [challenges EXCEPT ![i].attempts = @ + 1]
        <5> DEFINE k == [challenges[i] EXCEPT !.attempts = challenges[i].attempts + 1]
        <5>1. challenges[i].attempts + 1 \in 0..MaxAttempts /\ Open(challenges[i])
          BY <2>0, <4>2, ControlAssumption DEF Redeemable, CodeRow
        <5>2. k \in CodeRow /\ k.email = challenges[i].email /\ k.epoch = challenges[i].epoch
          BY <2>0, <5>1 DEF CodeRow
        <5>3. challenges' = [challenges EXCEPT ![i] = k]
          BY <4>2
        <5> HIDE DEF k
        <5> QED BY <1>1, <1>2, <2>0, <5>1, <5>2, <5>3, OneCodeKeeps
      <4> QED BY <2>3, <4>1, <4>2 DEF VerifyDenied
    <3>3. CommandsOK'
      BY <1>2, <1>3, <1>4, <2>0, <2>3, <3>1, <3>2, AnswerKeeps DEF Answers
    <3> QED BY <1>3, <1>6, <3>1, <3>2, <3>3
  <2> QED BY <2>1, <2>2, <2>3
<1>9. ASSUME NEW P, tokens' = Revoked(P), UNCHANGED challenges
      PROVE  TokensOK' /\ CodesOK' /\ Len(tokens') = Len(tokens)
  BY <1>1, <1>2, <1>9, RevokeKeeps, CodesUnchanged
<1>10. ASSUME UNCHANGED <<tokens, challenges>>
       PROVE  TokensOK' /\ CodesOK' /\ Len(tokens') = Len(tokens)
  BY <1>1, <1>2, <1>10, TokensUnchanged, CodesUnchanged
<1>11. CASE HandleLogout(p)
  <2>0. cmd[p].at = "logout" /\ UNCHANGED challenges
    BY <1>11 DEF HandleLogout, Admitted, At
  <2>1. TokensOK' /\ CodesOK' /\ Len(tokens') = Len(tokens)
    BY <1>9, <1>10, <1>11, <2>0 DEF HandleLogout, RevokeCurrentBearer
  <2>2. \E r \in {"ok", "unavailable"} : Answer(p, cmd[p], r)
    BY <1>11 DEF HandleLogout
  <2>3. CommandsOK'
    BY <1>2, <1>3, <1>4, <2>0, <2>1, <2>2, AnswerKeeps DEF Answers
  <2> QED BY <1>3, <1>6, <2>1, <2>3
<1>12. ASSUME cmd[p].at \in {"mint", "unmint"}, Becomes(p, Exit(cmd[p], "ok")), UNCHANGED challenges,
              Len(tokens') \in Nat, Len(tokens) <= Len(tokens')
       PROVE  CommandsOK'
  <2>1. cmd[p].kind # "deploy"
    BY <1>2, <1>12 DEF Fits
  <2>2. Fits(Exit(cmd[p], "ok"), Len(tokens'), Len(challenges')) /\ Knows(Exit(cmd[p], "ok"), release'[p])
    BY <2>1, ExitFits
  <2> QED BY <1>3, <1>4, <1>12, <2>2, BecomesKeeps
<1>13. CASE HandleCreateToken(p)
  <2>0. /\ cmd[p].at = "mint" /\ UNCHANGED challenges /\ cmd[p].actor # None
        /\ Becomes(p, Exit(cmd[p], "ok"))
    BY <1>13 DEF HandleCreateToken, Admitted, At
  <2>1. CASE CreateToken(cmd[p].actor)
    <3> DEFINE r == [email |-> cmd[p].actor, bound |-> TRUE, revoked |-> FALSE,
                     epoch |-> users[cmd[p].actor].epoch]
    <3>1. cmd[p].actor \in Deployers
      BY <1>2, <2>0 DEF Command
    <3>2. r \in TokenRow /\ r.bound
      BY <1>2, <3>1 DEF RestOK, Account, TokenRow
    <3>3. tokens' = Append(tokens, r) /\ Len(tokens) < MaxTokens /\ app.status = "active"
      BY <2>1 DEF CreateToken, MayMint, OwnsActiveApp
    <3> HIDE DEF r
    <3>4. TokensOK' /\ Len(tokens') = Len(tokens) + 1
      BY <1>1, <1>2, <3>2, <3>3, IssueKeeps
    <3>5. CodesOK'
      BY <1>1, <1>2, <2>0, CodesUnchanged
    <3>6. CommandsOK'
      BY <1>3, <1>12, <2>0, <3>4
    <3> QED BY <1>3, <1>6, <3>4, <3>5, <3>6
  <2>2. CASE UNCHANGED tokens
    BY <1>3, <1>6, <1>10, <1>12, <2>0, <2>2
  <2> QED BY <1>13, <2>1, <2>2 DEF HandleCreateToken
<1>14. CASE HandleRevokeToken(p)
  <2>0. /\ cmd[p].at = "unmint" /\ UNCHANGED challenges /\ Becomes(p, Exit(cmd[p], "ok"))
    BY <1>14 DEF HandleRevokeToken, Admitted, At
  <2>1. TokensOK' /\ CodesOK' /\ Len(tokens') = Len(tokens)
    BY <1>9, <1>10, <1>14, <2>0 DEF HandleRevokeToken, RevokeToken
  <2>2. CommandsOK'
    BY <1>3, <1>12, <2>0, <2>1
  <2> QED BY <1>3, <1>6, <2>1, <2>2
<1> QED BY <1>7, <1>8, <1>11, <1>13, <1>14

\* The requests that change the application.
LEMMA AppKeeps ==
    ASSUME ClientInv, NEW p \in Commands,
           HandleCreateApp(p) \/ HandleUpload(p) \/ HandleActivate(p)
    PROVE  ClientInv'
<1> USE DEF Requests, Reads, Writes
<1>1. UNCHANGED <<users, tokens, challenges, page, budget, store, runs>>
  BY DEF HandleCreateApp, HandleUpload, HandleActivate, controlVars
<1>2. /\ Fits(cmd[p], Len(tokens), Len(challenges)) /\ Knows(cmd[p], release[p])
      /\ cmd[p] \in Command /\ ControlInv /\ RestOK /\ app \in AppRow
      /\ release \in [Commands -> UploadStates]
  BY ControlParts DEF ClientInv, CommandsOK, Fits, RestOK
<1>3. Len(tokens) \in Nat /\ Len(challenges) \in Nat
  BY <1>2, TableTypes DEF ControlInv
<1>4. CodesOK'
  BY <1>1, <1>2, CodesUnchanged
<1>5. cmd[p].actor # None => cmd[p].actor \in Deployers
  BY <1>2 DEF Command
<1>6. ASSUME app' \in AppRow, app'.status = "suspended" => app.status = "suspended",
             app'.mode = "public" => app'.confirmed, CommandsOK',
             release' \in [Commands -> UploadStates]
      PROVE  ClientInv'
  <2>1. TokensOK'
    BY <1>1, <1>2, <1>6, TokensUnchanged
  <2>2. RestOK'
    BY <1>1, <1>2, <1>6 DEF RestOK
  <2>3. ControlInv'
    BY <1>4, <2>1, <2>2, ControlPartsNext
  <2> QED BY <1>1, <1>6, <2>3 DEF ClientInv, BroadeningIsConfirmed
<1>7. CASE HandleCreateApp(p)
  <2>0. cmd[p].at = "create" /\ cmd[p].actor \in Deployers /\ UNCHANGED release
    BY <1>5, <1>7 DEF HandleCreateApp, Admitted, At
  <2>1. /\ app' \in AppRow
        /\ app'.status = "suspended" => app.status = "suspended"
        /\ app'.mode = "public" => app'.confirmed
    <3>1. CASE CreateApp(cmd[p].actor)
      <4>1. app' = [app EXCEPT !.owner = cmd[p].actor, !.status = "active", !.mode = "private"]
        BY <3>1 DEF CreateApp
      <4>2. app' \in AppRow /\ app'.status = "active" /\ app'.mode = "private"
        BY <1>2, <2>0, <4>1 DEF AppRow
      <4> QED BY <4>2
    <3>2. CASE UNCHANGED app
      BY <1>2, <3>2 DEF ClientInv, BroadeningIsConfirmed
    <3> QED BY <1>7, <3>1, <3>2 DEF HandleCreateApp
  <2>2. \E r \in {"ok", "conflict"} : Answer(p, cmd[p], r)
    BY <1>7 DEF HandleCreateApp
  <2>3. \A q \in Commands : Ages(release[q], release'[q])
    BY <2>0 DEF Ages
  <2>4. CommandsOK'
    BY <1>1, <1>2, <1>3, <2>0, <2>2, <2>3, AnswerKeeps DEF Answers
  <2> QED BY <1>2, <1>6, <2>0, <2>1, <2>4
<1>8. CASE HandleUpload(p)
  <2>0. cmd[p].at = "upload" /\ UNCHANGED app
    BY <1>8 DEF HandleUpload, Admitted, At, controlVars
  <2>1. CASE release' = [release EXCEPT ![p] = "verified"] /\ Answer(p, cmd[p], "ok")
    <3>1. /\ release' \in [Commands -> UploadStates] /\ release'[p] = "verified"
          /\ \A q \in Commands : q # p => Ages(release[q], release'[q])
      BY <1>2, <2>1 DEF UploadStates, Ages
    <3>2. CommandsOK'
      BY <1>1, <1>2, <1>3, <2>0, <2>1, <3>1, AnswerKeeps DEF Answers
    <3> QED BY <1>2, <1>6, <2>0, <3>1, <3>2 DEF ClientInv, BroadeningIsConfirmed
  <2>2. CASE UNCHANGED release /\ Answer(p, cmd[p], "conflict")
    <3>1. \A q \in Commands : Ages(release[q], release'[q])
      BY <2>2 DEF Ages
    <3>2. CommandsOK'
      BY <1>1, <1>2, <1>3, <2>0, <2>2, <3>1, AnswerKeeps DEF Answers
    <3> QED BY <1>2, <1>6, <2>0, <2>2, <3>2 DEF ClientInv, BroadeningIsConfirmed
  <2> QED BY <1>8, <2>1, <2>2 DEF HandleUpload
<1>9. CASE HandleActivate(p)
  <2> DEFINE c == cmd[p]
  <2>0. c.at = "activate" /\ release[p] = "verified" /\ (c.ack => c.confirmed)
    BY <1>2, <1>9 DEF HandleActivate, Admitted, At, Fits, Knows
  <2>1. CASE /\ CommitActivation(c.actor, p, c.public, c.ack, c.confirmed)
             /\ release' = [q \in Commands |->
                             IF q = p THEN "active"
                             ELSE IF release[q] = "active" THEN "superseded"
                             ELSE release[q]]
             /\ Answer(p, c, "ok")
    <3>1. /\ app' = [app EXCEPT !.current = p,
                               !.mode = IF c.public THEN "public" ELSE "private",
                               !.confirmed = ~c.public \/ (app.mode = "public" /\ @)
                                                       \/ c.confirmed]
          /\ c.public => c.ack \/ app.mode = "public"
      BY <2>1 DEF CommitActivation
    <3>2. /\ app' \in AppRow /\ app'.status = app.status
          /\ app'.mode = IF c.public THEN "public" ELSE "private"
          /\ app'.confirmed <=> (~c.public \/ (app.mode = "public" /\ app.confirmed) \/ c.confirmed)
      BY <1>2, <3>1 DEF AppRow
    <3>3. app'.mode = "public" => app'.confirmed
      BY <2>0, <3>1, <3>2 DEF ClientInv, BroadeningIsConfirmed
    <3>4. /\ release' \in [Commands -> UploadStates] /\ release'[p] = "active"
          /\ \A q \in Commands : q # p => Ages(release[q], release'[q])
      BY <1>2, <2>1 DEF UploadStates, Ages
    <3>5. CommandsOK'
      BY <1>1, <1>2, <1>3, <2>0, <2>1, <3>4, AnswerKeeps DEF Answers
    <3> QED BY <1>6, <3>2, <3>3, <3>4, <3>5
  <2>2. CASE UNCHANGED <<app, release>> /\ Answer(p, c, "conflict")
    <3>1. \A q \in Commands : Ages(release[q], release'[q])
      BY <2>2 DEF Ages
    <3>2. CommandsOK'
      BY <1>1, <1>2, <1>3, <2>0, <2>2, <3>1, AnswerKeeps DEF Answers
    <3> QED BY <1>2, <1>6, <2>2, <3>2 DEF ClientInv, BroadeningIsConfirmed
  <2> QED BY <1>9, <2>1, <2>2 DEF HandleActivate
<1> QED BY <1>7, <1>8, <1>9

LEMMA ClientInit == Init => ClientInv
<1> SUFFICES ASSUME Init PROVE ClientInv
  OBVIOUS
<1>1. ControlInv
  BY ControlStarts DEF Init
<1>2. BroadeningIsConfirmed
  <2>1. app.confirmed = TRUE
    BY DEF Init, ControlInit
  <2> QED BY <2>1 DEF BroadeningIsConfirmed
<1>3. Len(tokens) = 1
  BY DEF Init, ControlInit
<1>4. store \in 0..Len(tokens)
  BY <1>3 DEF Init
<1>5. release \in [Commands -> UploadStates] /\ runs \in 0..MaxRuns
  BY ClientAssumption DEF Init, UploadStates
<1>6. /\ Idle \in Command /\ Idle.at = "idle" /\ Idle.exit = "none" /\ Idle.ack = FALSE
  <2>1. 0 \in 0..MaxTokens /\ 0 \in 0..MaxChallenges /\ 0 \in 0..(ProbeAttempts - 1)
    BY ControlAssumption, ClientAssumption
  <2> QED BY <2>1 DEF Idle, Command, Steps, Reports
<1>7. cmd = [p \in Commands |-> Idle]
  BY DEF Init
<1>8. CommandsOK
  BY <1>6, <1>7 DEF CommandsOK, Fits, Knows, Reads, Writes
<1> QED BY <1>1, <1>2, <1>4, <1>5, <1>8 DEF ClientInv

LEMMA ClientNext == ClientInv /\ [Next]_vars => ClientInv'
<1> SUFFICES ASSUME ClientInv, [Next]_vars PROVE ClientInv'
  OBVIOUS
<1>1. /\ Len(tokens) \in Nat /\ Len(challenges) \in Nat
      /\ ControlInv
  BY TableTypes DEF ClientInv, ControlInv
<1>2. ASSUME UNCHANGED clientVars, ControlInv', BroadeningIsConfirmed',
             Len(tokens') = Len(tokens), Len(challenges') = Len(challenges)
      PROVE  ClientInv'
  <2>1. UNCHANGED <<store, cmd, release, runs>>
    BY <1>2 DEF clientVars
  <2>2. \A p \in Commands : /\ Fits(cmd[p], Len(tokens), Len(challenges))'
                            /\ Knows(cmd[p], release[p])'
    BY <1>2, <2>1 DEF ClientInv, CommandsOK, Fits, Knows
  <2>3. CommandsOK'
    BY <2>1, <2>2 DEF ClientInv, CommandsOK
  <2> QED BY <1>1, <1>2, <2>1, <2>3, ClientParts
<1>3. CASE UNCHANGED vars
  <2>1. UNCHANGED controlVars /\ UNCHANGED clientVars
    BY <1>3 DEF vars, controlVars, clientVars
  <2> QED BY <1>2, <2>1, ControlUnchanged
<1>4. CASE Administer /\ UNCHANGED clientVars
  <2>1. /\ ControlInv'
        /\ Len(tokens') = Len(tokens) /\ Len(challenges') = Len(challenges)
        /\ app'.mode = app.mode /\ app'.confirmed = app.confirmed
    BY <1>1, <1>4, AdministerKeeps
  <2>2. BroadeningIsConfirmed'
    BY <2>1 DEF ClientInv, BroadeningIsConfirmed
  <2> QED BY <1>2, <1>4, <2>1, <2>2
<1>5. ASSUME NEW p \in Commands, Handle(p) \/ Proceed(p)
      PROVE  ClientInv'
  BY <1>5, ReadsKeep, SignInKeeps, AppKeeps, LocalKeeps DEF Handle, Proceed
<1> QED BY <1>3, <1>4, <1>5, StartKeeps DEF Next

-----------------------------------------------------------------------------
(***************************************************************************)
(* The theorems.                                                           *)
(***************************************************************************)

\* Every state is well typed: a command never uses a token or a code that was
\* not issued (internal/client, internal/controlapi, internal/persistence).
THEOREM TypeCorrect == Spec => []TypeOK
<1>1. ClientInv => TypeOK
  <2> SUFFICES ASSUME ClientInv PROVE TypeOK
    OBVIOUS
  <2>1. ControlTypeOK /\ Len(tokens) \in Nat /\ Len(tokens) <= MaxTokens
    BY TableTypes DEF ClientInv, ControlInv, ControlTyped, ControlTypeOK
  <2>2. store \in 0..MaxTokens
    BY <2>1, ControlAssumption DEF ClientInv
  <2> QED BY <2>1, <2>2 DEF ClientInv, CommandsOK, TypeOK, Command, Reports, UploadStates
<1> QED BY <1>1, ClientInit, ClientNext, PTL DEF Spec

\* Neither a token nor a code from before a removal is good again once the
\* address is back on the allowlist, whatever logins and administrative steps
\* interleave (ReplaceActiveDeployers, VerifyOTP, SetDeployerStatus).
THEOREM RemovalStaysFinal == Spec => []RemovalIsFinal
<1>1. ClientInv => RemovalIsFinal
  BY DEF ClientInv, ControlInv
<1> QED BY <1>1, ClientInit, ClientNext, PTL DEF Spec

\* A suspended application has no live token of its own, also when the request
\* that creates one was admitted before the suspension (SetAppStatus,
\* CreateToken).
THEOREM SuspensionTakesTokens == Spec => []SuspendedHasNoTokens
<1>1. ClientInv => SuspendedHasNoTokens
  BY DEF ClientInv, ControlInv
<1> QED BY <1>1, ClientInit, ClientNext, PTL DEF Spec

\* The application becomes public only through a deploy whose person confirmed
\* it, however stale the policy that deploy read (runWith, CommitActivation).
THEOREM PublicIsConfirmed == Spec => []BroadeningIsConfirmed
<1>1. ClientInv => BroadeningIsConfirmed
  BY DEF ClientInv
<1> QED BY <1>1, ClientInit, ClientNext, PTL DEF Spec

\* What deploy reports is true of the server, whichever requests or answers
\* were lost and whoever deployed meanwhile (Deploy, activationFailure).
THEOREM DeployReportsTruth == Spec => []ReportsAreTruthful
<1>1. ClientInv => ReportsAreTruthful
  BY DEF ClientInv, CommandsOK, Knows, ReportsAreTruthful
<1> QED BY <1>1, ClientInit, ClientNext, PTL DEF Spec
=============================================================================
