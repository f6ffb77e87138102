----------------------------- MODULE MCDayBook -----------------------------
(***************************************************************************)
(* TLC's instance of DayBook, in three scenes drawn at the start: numbers  *)
(* are given out at midnight and side by side; two tickets live for a day; *)
(* clients are notified.  The services share a prefix, which Catalogue     *)
(* shows to be possible.                                                   *)
(***************************************************************************)
EXTENDS DayBook

CONSTANT Prefix

VARIABLE scene

SamePrefix == [s \in Services |-> Prefix]

Quiet == [development |-> TRUE, firebase |-> FALSE, phone |-> FALSE, token |-> FALSE]

SomeSettings ==
  {Quiet} \cup [development : {TRUE}, firebase : {TRUE}, phone : {TRUE}, token : {TRUE}]
          \cup [development : {FALSE}, firebase : BOOLEAN, phone : BOOLEAN, token : {TRUE}]

MCInit ==
  /\ Init
  /\ scene \in IF settings = Quiet THEN {"numbers", "lives"} ELSE {"notices"}

MCNext == Next /\ UNCHANGED scene

MCSpec == MCInit /\ [][MCNext]_<<vars, scene>>

Begun == {t \in Tickets : tickets[t] # NoTicket \/ creating[t] # NotCreating}
InFlight == {t \in Tickets : creating[t] # NotCreating}

\* The states that are followed further.
Followed ==
  /\ scene = "numbers" => \A t \in Begun : creating[t].pc \in {"none", "insert", "log"}
  /\ scene = "lives"   => Cardinality(Begun) <= 2 /\ Cardinality(InFlight) <= 1 /\ unsaved = {}
                           /\ now < LastHour
  /\ scene = "notices" => Cardinality(Begun) <= 1 /\ now = 0

Symmetric == Permutations(Tickets) \cup Permutations(Services)

=============================================================================
