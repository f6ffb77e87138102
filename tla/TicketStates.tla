---------------------------- MODULE TicketStates ----------------------------
(***************************************************************************)
(* The vocabulary of a ticket, from app/models/ticket.py: its statuses,    *)
(* the transitions between them, the priorities and their scores, and the  *)
(* statuses that block a user from taking another ticket.                  *)
(***************************************************************************)
EXTENDS Naturals

\* A ticket that is not in the table yet.
UNBORN == "UNBORN"

TicketStatus == {"WAITING", "CALLED", "SERVING", "DONE",
                 "ABSENT", "TRANSFERRED", "CANCELLED", "INCOMPLETE"}

ALLOWED_TRANSITIONS ==
  [ WAITING     |-> {"CALLED", "CANCELLED"},
    CALLED      |-> {"SERVING", "ABSENT", "TRANSFERRED"},
    SERVING     |-> {"DONE", "INCOMPLETE"},
    ABSENT      |-> {"WAITING"},
    DONE        |-> {},
    TRANSFERRED |-> {},
    CANCELLED   |-> {},
    INCOMPLETE  |-> {} ]

\* _transition's test: `new_status in ALLOWED_TRANSITIONS.get(ticket.status, [])`.
MayMove(from, to) == from \in TicketStatus /\ to \in ALLOWED_TRANSITIONS[from]

\* The statuses create_ticket refuses a second ticket for.
ACTIVE_STATUSES == TicketStatus \ {"DONE", "CANCELLED"}

TicketPriority == {"STANDARD", "PRIORITY", "VIP", "EMERGENCY"}

PRIORITY_SCORES ==
  [ EMERGENCY |-> 9, VIP |-> 5, PRIORITY |-> 3, STANDARD |-> 0 ]

=============================================================================
