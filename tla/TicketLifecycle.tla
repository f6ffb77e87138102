--------------------------- MODULE TicketLifecycle ---------------------------
(***************************************************************************)
(* What the queue engine promises of tickets, with no request, no queue    *)
(* and no failure in sight: a user takes a ticket only when none of theirs *)
(* is active (rule "DECISION 1" that create_ticket enforces), and a ticket *)
(* moves only along ALLOWED_TRANSITIONS.  QueueEngine implements it as     *)
(* long as requests on one ticket, and one user's creations, do not        *)
(* overlap.                                                                *)
(***************************************************************************)
EXTENDS TicketStates

CONSTANTS Tickets, Users, None

VARIABLES status, owner

vars == <<status, owner>>

Init ==
  /\ status = [t \in Tickets |-> UNBORN]
  /\ owner = [t \in Tickets |-> None]

HasActive(u) == \E t \in Tickets : owner[t] = u /\ status[t] \in ACTIVE_STATUSES

Take(t, u) ==
  /\ status[t] = UNBORN
  /\ ~HasActive(u)
  /\ status' = [status EXCEPT ![t] = "WAITING"]
  /\ owner' = [owner EXCEPT ![t] = u]

Move(t, to) ==
  /\ MayMove(status[t], to)
  /\ status' = [status EXCEPT ![t] = to]
  /\ UNCHANGED owner

Next ==
  \E t \in Tickets : \/ \E u \in Users : Take(t, u)
                     \/ \E to \in TicketStatus : Move(t, to)

Spec == Init /\ [][Next]_vars

\* DECISION 1: no user ever holds two active tickets.
OneActivePerUser ==
  \A t1, t2 \in Tickets :
    /\ owner[t1] = owner[t2] /\ owner[t1] # None
    /\ status[t1] \in ACTIVE_STATUSES /\ status[t2] \in ACTIVE_STATUSES
    => t1 = t2

=============================================================================
