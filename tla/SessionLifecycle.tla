-------------------------- MODULE SessionLifecycle --------------------------
(***************************************************************************)
(* What AuthService promises of refresh tokens, with no table, no request  *)
(* and no crash in sight.  A token is drawn by a sign-in, which begins a   *)
(* session, or by the rotation of a token of that session, and then the    *)
(* two things rotation does, the old token ends and the new one begins,    *)
(* are one step.  A revoked token stays revoked.  Authentication           *)
(* implements it whatever the interleaving; that a session has one live    *)
(* token is more than it promises (OneLiveTokenPerSession says when).      *)
(***************************************************************************)
CONSTANTS Tokens, None

VARIABLES
  state,    \* of each token: unissued, live or revoked
  session   \* the sign-in each issued token descends from, named by its first token

vars == <<state, session>>

Init ==
  /\ state = [t \in Tokens |-> "unissued"]
  /\ session = [t \in Tokens |-> None]

SignIn(t) ==
  /\ state[t] = "unissued"
  /\ state' = [state EXCEPT ![t] = "live"]
  /\ session' = [session EXCEPT ![t] = t]

Rotate(old, new) ==
  /\ state[old] # "unissued" /\ state[new] = "unissued"
  /\ state' = [state EXCEPT ![old] = "revoked", ![new] = "live"]
  /\ session' = [session EXCEPT ![new] = session[old]]

Revoke(gone) ==
  /\ \A t \in gone : state[t] # "unissued"
  /\ state' = [t \in Tokens |-> IF t \in gone THEN "revoked" ELSE state[t]]
  /\ UNCHANGED session

Next ==
  \/ \E t \in Tokens : SignIn(t)
  \/ \E old, new \in Tokens : Rotate(old, new)
  \/ \E gone \in SUBSET Tokens : Revoke(gone)

Spec == Init /\ [][Next]_vars

=============================================================================
