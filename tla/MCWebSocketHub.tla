---------------------------- MODULE MCWebSocketHub ----------------------------
(* One agency, two tickets; the client of the first may reconnect once.     *)
EXTENDS WebSocketHub, TLC

CONSTANTS c1, c2, c3, t1, t2, a1

MCTicketOf == (c1 :> t1) @@ (c2 :> t1) @@ (c3 :> t2)
MCAgencyOf == (t1 :> a1) @@ (t2 :> a1)

=============================================================================
