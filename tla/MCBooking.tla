------------------------------ MODULE MCBooking ------------------------------
(***************************************************************************)
(* Instances of Booking for TLC.                                           *)
(***************************************************************************)
EXTENDS Booking, TLC

CONSTANTS u1, s1, s2, t0, t1, w1, w2, b1, b2

BothHandlers == {"BuyPoint", "ReturnPoint"}

OnePrice == {10}

\* Faults that the handlers and the queue are written for.
Expected == {<<"Purchase", "failed">>, <<"Refund", "failed">>, <<"Refund", "lost">>,
             <<"Retry", "failed">>, <<"Retry", "lost">>, <<"Consumer", "stop">>}

\* Those of returns, and a purchase that is booked without its caller knowing.  (A consumer
\* that stops leaves its request behind as <<"Retry", "lost">> does.)
RetryFaults == (Expected \ {<<"Purchase", "failed">>, <<"Consumer", "stop">>}) \cup {<<"Purchase", "lost">>}

\* Everything that may go wrong.
AllFaults == Expected \cup {<<"TicketPost", "lost">>, <<"Purchase", "garbled">>, <<"Purchase", "lost">>,
                            <<"TicketDelete", "failed">>, <<"TicketUpdate", "lost">>,
                            <<"Publish", "failed">>, <<"Gateway", "stop">>}

RefundFails == {<<"Refund", "failed">>}

\* A name with a comma is read as a return of the seed ticket by its user.
SeedAfterComma == (s1 :> [user |-> u1, ticket |-> t0])

NoNames == <<>>

BookingSymmetry == Permutations(Workers) \cup Permutations(Servers)

\* For properties that do not speak of accepted, which no action reads.
NotAccepted == <<ticket, bonus, job, file, queue, consumer, confirmed>>

\* The bound: one message is ready at a time, besides the one that the consumer has.
OneMessage == Len(queue) <= 1
=============================================================================
