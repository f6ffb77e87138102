---------------------------- MODULE MCQueueEngine ----------------------------
(* Symmetry and view for the runs of QueueEngine that check no liveness.   *)
EXTENDS QueueEngine, TLC

Symmetry == Permutations(Tickets) \cup Permutations(Requests)

\* queue_logs is written and never read by the engine, so no step depends on the
\* order of its rows.  The invariants of the run read which rows there are and
\* where the last one led: the view keeps exactly that of `audit'.
AuditSeen(t) ==
  << {audit[t][i] : i \in DOMAIN audit[t]},
     IF audit[t] = <<>> THEN UNBORN ELSE audit[t][Len(audit[t])].to >>

AuditView ==
  << status, owner, service, created, [t \in Tickets |-> AuditSeen(t)],
     queueVars, open, req, crashes >>

=============================================================================
