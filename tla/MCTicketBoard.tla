--------------------------- MODULE MCTicketBoard ---------------------------
(***************************************************************************)
(* Instances of TicketBoard for TLC.                                        *)
(***************************************************************************)
EXTENDS TicketBoard, TLC

CONSTANTS w1, w2, hunt1, hunt2, ops1, ref1, j1, j2, j3, j4

MCLane == hunt1 :> "hunt" @@ hunt2 :> "hunt" @@ ops1 :> "ops"
MCBacklog == <<hunt1, ops1>>
NoEvents == [k \in Events |-> 0]

\* Two waves over two feature tickets, one of them filed tonight, and ops, with a
\* command of a session and an update of the operator in between.
WaveBound == [NoEvents EXCEPT !["command"] = 1, !["update"] = 1, !["create"] = 1,
                              !["mint"] = 2, !["error"] = 1, !["crash"] = 1, !["age"] = 1]

\* Three claims of one ticket, the first of which has gone stale.
ClaimBound == [NoEvents EXCEPT !["command"] = 3, !["age"] = 1]
=============================================================================
