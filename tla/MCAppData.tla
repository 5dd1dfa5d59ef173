------------------------------- MODULE MCAppData -------------------------------
(***************************************************************************)
(* Model checking AppData.  The scenarios are checked side by side: each   *)
(* grants its own number of external events, chosen in the initial state.  *)
(***************************************************************************)
EXTENDS AppData, TLC

CONSTANTS priv, plain, pub

OneCollection == [i \in Ids |-> CHOOSE c \in Collections : TRUE]

Allow(change, static, api, auth, attempt, connect, crash, delete) ==
    [e \in Events |->
        CASE e = "change" -> change [] e = "static" -> static
          [] e = "api" -> api [] e = "auth" -> auth
          [] e = "attempt" -> attempt [] e = "connect" -> connect
          [] e = "crash" -> crash [] e = "delete" -> delete]

Scenarios ==
    { Allow(2, 1, 0, 0, 0, 0, 0, 0)    \* a static request while things change
    , Allow(1, 0, 0, 1, 0, 0, 0, 0)    \* a sign-in page
    , Allow(2, 0, 1, 0, 0, 0, 0, 0)    \* an API request while things change
    , Allow(0, 0, 3, 0, 1, 0, 0, 0)    \* viewers and the owner against each other
    , Allow(0, 0, 1, 0, 2, 0, 1, 0)    \* the owner retries over a restart
    , Allow(0, 0, 1, 0, 1, 0, 1, 2)    \* deletion, a failed one and a restart
    , Allow(0, 0, 1, 0, 1, 1, 0, 0)    \* a browser follows two writers
    }

Symmetry == Permutations(Callers) \cup Permutations(Attempts)
              \cup Permutations(Ids)
=============================================================================
