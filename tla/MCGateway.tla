------------------------------ MODULE MCGateway ------------------------------
(***************************************************************************)
(* Instances of Gateway for TLC.                                           *)
(***************************************************************************)
EXTENDS Gateway, TLC

\* The replies of services that may be down, slow or in error.
CodeReplies == {"ok", "error", "none", "garbled"}

\* The same without the replies that leave a mutex locked.
CleanReplies == {"ok", "none", "garbled"}

\* Every kind of guarded call, in handlers with few calls.
LiveEndpoints == {"TicketGetPoint", "FlightsGetPoint", "BuyPoint"}

ReadEndpoints == {"TicketGetPoint", "MeGetPoint"}

OneTicket == {0, 1}

\* What an idle thread did last does not matter: its next request overwrites it.
Live == [w \in Workers |-> IF phase[w] = "idle" THEN NoAnswer ELSE <<endpoint[w], answer[w]>>]
LiveState == <<lock, breaker, phase, todo, Live>>

WorkerSymmetry == Permutations(Workers)
=============================================================================
