--------------------------- MODULE MCGatewayBooking ---------------------------
(***************************************************************************)
(* An instance of GatewayBooking for TLC.                                  *)
(***************************************************************************)
EXTENDS GatewayBooking, FiniteSets, TLC

Changing == {"BuyPoint", "ReturnPoint"}

SomeReplies == {"ok", "error", "none"}

OnePrice == {10}

NoNames == <<>>

\* The handlers that change something make no calls per ticket.
NoList == {0}

\* The bound: only the breaker of the Bonus Service opens.  It is the one that can
\* refuse a handler that has changed something.
OnlyBonusFails == breaker["flight"] = Fresh /\ breaker["ticket"] = Fresh

\* The bound: while the consumer has a message, at most one request is under way.
ConsumerNextToOne == consumer = B!Ready \/ Cardinality({w \in Workers : phase[w] # "idle"}) <= 1

\* The bound: one message waits at a time.
OneMessage == Len(queue) <= 1

\* accepted, which no action reads, and what idle threads did last do not matter.
Live == [w \in Workers |-> IF phase[w] = "idle" THEN NoAnswer ELSE <<endpoint[w], answer[w]>>]
LiveState == <<lock, breaker, phase, todo, Live, tables, messages, confirmed, request>>

WorkerSymmetry == Permutations(Workers)
=============================================================================
