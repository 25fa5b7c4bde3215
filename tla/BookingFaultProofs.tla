-------------------------- MODULE BookingFaultProofs --------------------------
(***************************************************************************)
(* Proofs about Booking: what the services promise each other as long as   *)
(* certain calls are not lost.                                             *)
(***************************************************************************)
EXTENDS BookingProofs

\* No purchase is given up or stays behind unnoticed: the two calls that create rows
\* get their answers, the compensation is executed, the gateway does not stop.
NoSilence ==
    Faults \cap {<<"TicketPost", "lost">>, <<"TicketPost", "garbled">>, <<"Purchase", "lost">>,
                 <<"TicketDelete", "failed">>, <<"Gateway", "stop">>} = {}

\* No account has a row of t, or will have one.
Apart(t) == \A u \in Users : ~Involved(u, t)

\* A ticket without a booking has a handler that books it or deletes it.
BookedOrBuying ==
    \A t \in Tickets : ticket[t].status = "PAID" /\ Unbooked(t) => \E w \in Workers : Buying(w) /\ job[w].ticket = t

\* Ticket t is deleted, or will be.
Dropped(t) == ticket[t].status = "deleted" \/ \E w \in Workers : job[w].step = "cancel" /\ job[w].ticket = t

Whole == BookedOrBuying /\ \A t \in Tickets : Dropped(t) => Apart(t)

\* Rows are only added, and only those that a thread is about to write.
NoNewRows ==
    \A u \in Users, t \in Tickets : Booked(u, t) \subseteq Booked(u, t)' /\ (Involved(u, t)' => Involved(u, t))

\* A step of the service that begins no purchase.
LEMMA NoPurchaseRead ==
    ASSUME Inv,
           \/ Progress
           \/ \E b \in Servers, u \in Users, t \in Tickets : Service!ReadForReturn(b, u, t)
    PROVE  NoNewRows
  <1>1. CASE Progress
    BY <1>1, ProgressKeeps DEF Inv, NoNewRows
  <1>2. ASSUME NEW b \in Servers, NEW u \in Users, NEW t \in Tickets, Service!ReadForReturn(b, u, t)
        PROVE  NoNewRows
    BY <1>2, ReadInvolves, ReadEffect DEF Inv, NoNewRows, Involved
  <1> QED
    BY <1>1, <1>2

\* Steps that neither begin nor end a purchase.
LEMMA PurchasesStay ==
    ASSUME Whole, NoNewRows,
           \A t \in Tickets : /\ ticket'[t].status = "PAID" => ticket[t].status = "PAID"
                              /\ ticket'[t].status = "deleted" => ticket[t].status = "deleted",
           \A w \in Workers : /\ Buying(w) => Buying(w)' /\ job'[w].ticket = job[w].ticket
                              /\ job'[w].step = "cancel" =>
                                    job[w].step = "cancel" /\ job'[w].ticket = job[w].ticket
    PROVE  Whole'
  <1>1. BookedOrBuying'
    <2> SUFFICES ASSUME NEW t \in Tickets, ticket'[t].status = "PAID", Unbooked(t)'
                 PROVE  \E w \in Workers : Buying(w)' /\ job'[w].ticket = t
      BY DEF BookedOrBuying
    <2>1. Unbooked(t)
      BY DEF NoNewRows, Unbooked
    <2> QED
      BY <2>1 DEF Whole, BookedOrBuying
  <1>2. ASSUME NEW t \in Tickets, Dropped(t)' PROVE Apart(t)'
    <2>1. Dropped(t)
      BY <1>2 DEF Dropped
    <2> QED
      BY <2>1 DEF Whole, Apart, NoNewRows
  <1> QED
    BY <1>1, <1>2 DEF Whole

\* Without silence a call that ends is answered or not executed.
LEMMA Answers ==
    ASSUME NoSilence
    PROVE  /\ Outcomes("TicketPost") \ {"failed"} = {"done"}
           /\ "lost" \notin Outcomes("Purchase")
           /\ "failed" \notin Outcomes("TicketDelete")
           /\ <<"Gateway", "stop">> \notin Faults
  BY DEF NoSilence, Outcomes

LEMMA WholePost ==
    ASSUME NoSilence, Inv, Whole, NEW w \in Workers, TicketPost(w)
    PROVE  Whole'
  <1>1. PICK u \in Clients, t \in Tickets :
          /\ ticket[t] = Absent
          /\ ticket' = Created(u, t)
          /\ job' = [job EXCEPT ![w] = [step |-> "purchase", user |-> u, ticket |-> t]]
    BY Answers DEF TicketPost
  <1>2. job[w] = NoJob /\ UNCHANGED bonus
    BY DEF TicketPost
  <1>3. /\ ticket'[t].status = "PAID"
        /\ \A x \in Tickets : x # t => ticket'[x] = ticket[x]
    BY <1>1 DEF Created, Row, Inv, Base, TypeOK
  <1>4. /\ job'[w].step = "purchase" /\ job'[w].ticket = t
        /\ \A v \in Workers : v # w => job'[v] = job[v]
    BY <1>1 DEF Inv, Base, TypeOK
  <1>5. BookedOrBuying'
    <2> SUFFICES ASSUME NEW x \in Tickets, ticket'[x].status = "PAID", Unbooked(x)', x # t
                 PROVE  \E v \in Workers : Buying(v)' /\ job'[v].ticket = x
      BY <1>4 DEF BookedOrBuying, Buying
    <2>0. Unbooked(x)
      BY <1>2, SameService DEF Unbooked
    <2>1. PICK v \in Workers : Buying(v) /\ job[v].ticket = x
      BY <1>3, <2>0 DEF Whole, BookedOrBuying
    <2>2. v # w
      BY <1>2, <2>1 DEF Buying, NoJob
    <2> QED
      BY <1>4, <2>1, <2>2 DEF Buying
  <1>6. ASSUME NEW x \in Tickets, Dropped(x)' PROVE Apart(x)'
    <2>1. Dropped(x)
      BY <1>3, <1>4, <1>6 DEF Dropped
    <2> QED
      BY <1>2, <2>1, SameService DEF Whole, Apart
  <1> QED
    BY <1>5, <1>6 DEF Whole

\* The thread that serves a purchase is about to book a ticket that is not dropped.
LEMMA WholeRead ==
    ASSUME Inv, Whole, NEW w \in Workers, PurchaseRead(w)
    PROVE  Whole'
  <1>1. PICK u \in Users, t \in Tickets : u = job[w].user /\ t = job[w].ticket
    BY JobKinds DEF PurchaseRead, AsksForPurchase, Inv, Base
  <1>2. PICK b \in Servers : Service!ReadForPurchase(b, u, t)
    BY <1>1 DEF PurchaseRead, AsksForPurchase
  <1>3. \A v \in Users, x \in Tickets : /\ Booked(v, x)' = Booked(v, x)
                                        /\ Involved(v, x)' => Involved(v, x) \/ x = t
    BY <1>2, ReadInvolves DEF Inv
  <1>4. UNCHANGED <<ticket, job>> /\ Buying(w)
    BY DEF PurchaseRead, Buying
  <1>5. ~Dropped(t)
    <2>1. ticket[t].status # "deleted"
      BY <1>1, <1>4 DEF Inv, Buyers
    <2>2. ASSUME NEW v \in Workers, job[v].step = "cancel", job[v].ticket = t PROVE FALSE
      <3>1. v = w
        BY <1>1, <1>4, <2>2 DEF Inv, Buyers, Buying
      <3> QED
        BY <2>2, <3>1 DEF PurchaseRead
    <2> QED
      BY <2>1, <2>2 DEF Dropped
  <1>6. BookedOrBuying'
    BY <1>3, <1>4 DEF Whole, BookedOrBuying, Unbooked, Buying
  <1>7. \A x \in Tickets : Dropped(x)' => Apart(x)'
    BY <1>3, <1>4, <1>5 DEF Whole, Dropped, Apart
  <1> QED
    BY <1>6, <1>7 DEF Whole

LEMMA WholePurchase ==
    ASSUME NoSilence, Inv, Whole, NEW w \in Workers, PurchaseCall(w)
    PROVE  Whole'
  <1>1. PICK u \in Clients, t \in Tickets : u = job[w].user /\ t = job[w].ticket
    BY JobKinds DEF PurchaseCall, Inv, Base
  <1>2. job[w].step = "purchase" /\ Buying(w) /\ ticket' = ticket
    BY DEF PurchaseCall, Buying
  <1>3. /\ ticket[t].status # "deleted" /\ Unbooked(t)
        /\ \A b \in Servers : Names(b, t) => caller[b] = w
    BY <1>1, <1>2 DEF Inv, Buyers, Fresh
  <1>4. \A v \in Workers : v # w /\ Buying(v) => job[v].ticket # t
    BY <1>1, <1>2 DEF Inv, Buyers
  <1>5. ~Dropped(t)
    BY <1>2, <1>3, <1>4 DEF Dropped, Buying
  <1>6. ASSUME \/ NotExecuted(w)
               \/ job[w].user \in Strangers /\ UNCHANGED bonus,
               GoTo(w, "cancel")
        PROVE  Whole'
    <2>1. /\ job'[w].step = "cancel" /\ job'[w].ticket = t
          /\ \A v \in Workers : v # w => job'[v] = job[v]
      BY <1>1, <1>2, <1>6, Moves DEF Steps, Inv, Base
    <2>2. NoNewRows
      <3>1. Progress
        BY <1>6 DEF NotExecuted, Progress, bonus
      <3> QED
        BY <3>1, NoPurchaseRead
    <2>3. Apart(t)'
      <3> SUFFICES ASSUME NEW y \in Users, Involved(y, t)' PROVE FALSE
        BY DEF Apart
      <3>1. history' = history
        BY <1>6 DEF NotExecuted, bonus, Service!WriteFails
      <3>2. PICK b \in Servers : Books(b, y, t)'
        BY <1>3, <3>1 DEF Involved, Unbooked, Booked
      <3>3. CASE UNCHANGED bonus /\ Unserved(w)
        <4>1. Names(b, t)
          BY <3>2, <3>3, SameService DEF Books
        <4> QED
          BY <1>3, <3>3, <4>1 DEF Unserved
      <3>4. CASE UNCHANGED bonus /\ job[w].user \in Strangers
        <4>1. Names(b, t)
          BY <3>2, <3>4, SameService DEF Books
        <4>2. caller[b] = w /\ pending[b].user \in Users
          BY <1>3, <4>1, PendingKinds DEF Inv, Names
        <4> QED
          BY <1>2, <3>4, <4>2, Constants DEF Inv, Callers, Books
      <3>5. ASSUME NEW d \in Servers, caller[d] = w, Service!WriteFails(d) PROVE FALSE
        <4>1. pending'[d] = Service!NoWrite /\ \A e \in Servers : e # d => pending'[e] = pending[e]
          BY <3>5 DEF Service!WriteFails, Service!Finish, Inv, Base, TypeOK
        <4>2. b # d
          BY <3>2, <4>1 DEF Books, Names, Service!Idle
        <4>3. Names(b, t)
          BY <3>2, <4>1, <4>2 DEF Books, Names, Service!Idle
        <4>4. caller[b] = w
          BY <1>3, <4>3
        <4>5. w # Nobody
          BY Constants
        <4> QED
          BY <3>5, <4>2, <4>4, <4>5 DEF Inv, Callers
      <3> QED
        BY <1>6, <3>3, <3>4, <3>5 DEF NotExecuted
    <2>4. BookedOrBuying'
      <3>1. \A v \in Workers : Buying(v) => Buying(v)' /\ job'[v].ticket = job[v].ticket
        BY <1>1, <2>1 DEF Buying
      <3>2. \A x \in Tickets : Unbooked(x)' => Unbooked(x)
        BY <2>2 DEF NoNewRows, Unbooked
      <3> QED
        BY <1>2, <3>1, <3>2 DEF Whole, BookedOrBuying
    <2>5. ASSUME NEW x \in Tickets, Dropped(x)', x # t PROVE Apart(x)'
      <3>1. Dropped(x)
        BY <1>2, <2>1, <2>5 DEF Dropped
      <3> QED
        BY <2>2, <3>1 DEF Whole, Apart, NoNewRows
    <2> QED
      BY <2>3, <2>4, <2>5 DEF Whole
  <1>7. ASSUME Answered(w), Leave(w) PROVE Whole'
    <2>1. job'[w] = NoJob /\ \A v \in Workers : v # w => job'[v] = job[v]
      BY <1>7, Leaves DEF Inv, Base
    <2>2. PICK b \in Servers : caller[b] = w /\ Service!Write(b)
      BY <1>7 DEF Answered
    <2>3. Books(b, u, t)
      BY <1>1, <1>2, <2>2 DEF Inv, Callers
    <2>4. u \in Users
      BY <2>3, PendingKinds DEF Inv, Books, Names
    <2>5. \A v \in Users, x \in Tickets : Books(b, v, x) =>
             \E n : n \notin Booked(v, x) /\ Booked(v, x)' = Booked(v, x) \cup {n}
      BY <2>2, WriteEffect DEF Inv
    <2>6. ~Unbooked(t)'
      <3>1. PICK n : n \notin Booked(u, t) /\ Booked(u, t)' = Booked(u, t) \cup {n}
        BY <2>3, <2>4, <2>5
      <3> QED
        BY <2>4, <3>1 DEF Unbooked
    <2>7. NoNewRows
      BY <2>2, NoPurchaseRead DEF Progress
    <2>8. BookedOrBuying'
      <3> SUFFICES ASSUME NEW x \in Tickets, ticket[x].status = "PAID", Unbooked(x)', x # t
                   PROVE  \E v \in Workers : Buying(v)' /\ job'[v].ticket = x
        BY <1>2, <2>6 DEF BookedOrBuying
      <3>1. Unbooked(x)
        BY <2>7 DEF NoNewRows, Unbooked
      <3>2. PICK v \in Workers : Buying(v) /\ job[v].ticket = x
        BY <3>1 DEF Whole, BookedOrBuying
      <3>3. v # w
        BY <1>1, <3>2
      <3> QED
        BY <2>1, <3>2, <3>3 DEF Buying
    <2>9. ASSUME NEW x \in Tickets, Dropped(x)' PROVE Apart(x)'
      <3>1. Dropped(x)
        BY <1>2, <2>1, <2>9 DEF Dropped, NoJob
      <3> QED
        BY <2>7, <3>1 DEF Whole, Apart, NoNewRows
    <2> QED
      BY <2>8, <2>9 DEF Whole
  <1> QED
    BY <1>6, <1>7, Answers DEF PurchaseCall, Fails, AfterPurchase

LEMMA WholeDelete ==
    ASSUME NoSilence, Inv, Whole, NEW w \in Workers, TicketDelete(w)
    PROVE  Whole'
  <1>1. PICK u \in Clients, t \in Tickets : u = job[w].user /\ t = job[w].ticket
    BY JobKinds DEF TicketDelete, Inv, Base
  <1>2. job[w].step = "cancel" /\ Buying(w) /\ UNCHANGED bonus
    BY DEF TicketDelete, Buying
  <1>3. /\ ticket[t] \in TicketRows /\ ticket[t].status # "deleted" /\ ticket[t].user = u
        /\ Dropped(t)
    BY <1>1, <1>2 DEF Inv, Buyers, Dropped
  <1>4. Owns(u, t)
    BY <1>3 DEF Owns, TicketRows
  <1>5. ticket' = IF Owns(u, t) THEN [ticket EXCEPT ![t].status = "deleted"] ELSE ticket
    BY <1>1, Answers DEF TicketDelete, RolledBack
  <1>6. /\ \A x \in Tickets : x # t => ticket'[x] = ticket[x]
        /\ ticket'[t].status = "deleted"
    BY <1>4, <1>5, TicketChanges DEF Inv, Base
  <1>7. job'[w] = NoJob /\ \A v \in Workers : v # w => job'[v] = job[v]
    BY Leaves DEF TicketDelete, Inv, Base
  <1>8. BookedOrBuying'
    <2> SUFFICES ASSUME NEW x \in Tickets, ticket'[x].status = "PAID", Unbooked(x)'
                 PROVE  \E v \in Workers : Buying(v)' /\ job'[v].ticket = x
      BY DEF BookedOrBuying
    <2>1. x # t /\ Unbooked(x)
      BY <1>2, <1>6, SameService DEF Unbooked
    <2>2. PICK v \in Workers : Buying(v) /\ job[v].ticket = x
      BY <1>6, <2>1 DEF Whole, BookedOrBuying
    <2> QED
      BY <1>1, <1>7, <2>1, <2>2 DEF Buying
  <1>9. ASSUME NEW x \in Tickets, Dropped(x)' PROVE Apart(x)'
    <2>1. Dropped(x)
      BY <1>3, <1>6, <1>7, <1>9 DEF Dropped, NoJob
    <2> QED
      BY <1>2, <2>1, SameService DEF Whole, Apart
  <1> QED
    BY <1>8, <1>9 DEF Whole

LEMMA WholeUpdate ==
    ASSUME Inv, Whole, NEW w \in Workers, TicketUpdate(w)
    PROVE  Whole'
  <1>1. PICK u \in Clients, t \in Tickets :
          /\ ticket' = Canceled(u, t)
          /\ job' = job \/ job' = [job EXCEPT ![w] = [step |-> "refund", user |-> u, ticket |-> t]]
    BY DEF TicketUpdate
  <1>2. job[w] = NoJob /\ UNCHANGED bonus
    BY DEF TicketUpdate
  <1>3. ticket' = IF Owns(u, t) THEN [ticket EXCEPT ![t].status = "CANCELED"] ELSE ticket
    BY <1>1 DEF Canceled
  <1>4. \A x \in Tickets : ticket'[x] = ticket[x] \/ ticket'[x].status = "CANCELED"
    BY <1>3, TicketChanges DEF Inv, Base
  <1>5. \A v \in Workers : job'[v] = job[v] \/ (v = w /\ job'[v].step = "refund")
    BY <1>1 DEF Inv, Base, TypeOK
  <1>6. \A v \in Workers : /\ Buying(v) => Buying(v)' /\ job'[v].ticket = job[v].ticket
                           /\ job'[v].step = "cancel" =>
                                 job[v].step = "cancel" /\ job'[v].ticket = job[v].ticket
    BY <1>2, <1>5 DEF Buying, NoJob
  <1>7. NoNewRows
    BY <1>2, NoPurchaseRead DEF bonus, Progress
  <1> QED
    BY <1>4, <1>6, <1>7, PurchasesStay

\* A handler of a return is not one that buys.
LEMMA WholeReturn ==
    ASSUME Inv, Whole, NEW w \in Workers,
           RefundRead(w) \/ RefundCall(w) \/ OpenFile(w) \/ CloseFile(w) \/ Publish(w)
    PROVE  Whole'
  <1>1. /\ job[w].step \in {"refund", "open", "close", "publish"} /\ ticket' = ticket
        /\ job' = job \/ Leave(w) \/ \E step \in {"open", "close", "publish"} : GoTo(w, step)
    BY DEF RefundRead, RefundCall, OpenFile, CloseFile, Publish
  <1>2. job'[w].step # "cancel" /\ \A v \in Workers : v # w => job'[v] = job[v]
    <2>1. CASE job' = job
      BY <1>1, <2>1
    <2>2. ASSUME NEW step \in {"open", "close", "publish"}, GoTo(w, step) \/ Leave(w)
          PROVE  job'[w].step # "cancel" /\ \A v \in Workers : v # w => job'[v] = job[v]
      BY <1>1, <2>2, HandlerMoves DEF Steps, NoJob
    <2> QED
      BY <1>1, <2>1, <2>2
  <1>3. \A v \in Workers : /\ Buying(v) => Buying(v)' /\ job'[v].ticket = job[v].ticket
                           /\ job'[v].step = "cancel" =>
                                 job[v].step = "cancel" /\ job'[v].ticket = job[v].ticket
    BY <1>1, <1>2 DEF Buying
  <1>4. NoNewRows
    <2>1. CASE RefundRead(w)
      <3>1. job[w].ticket \in Tickets
        BY <1>1, JobKinds DEF Inv, Base
      <3> QED
        BY <2>1, <3>1, NoPurchaseRead DEF RefundRead, AsksForRefund
    <2>2. CASE RefundCall(w)
      <3>1. Progress
        BY <2>2, CallEnds, CallFails DEF RefundCall, Inv
      <3> QED
        BY <3>1, NoPurchaseRead
    <2>3. CASE OpenFile(w) \/ CloseFile(w) \/ Publish(w)
      BY <2>3, NoPurchaseRead DEF OpenFile, CloseFile, Publish, bonus, Progress
    <2> QED
      BY <2>1, <2>2, <2>3
  <1> QED
    BY <1>1, <1>3, <1>4, PurchasesStay

LEMMA WholeOthers ==
    ASSUME Inv, Whole, Consume \/ ConsumerStops \/ \E b \in Servers : GoesOn(b)
    PROVE  Whole'
  <1>1. UNCHANGED <<ticket, job>>
    BY DEF Consume, RetryRead, Retry, Deliver, RetryRefused, RetryRaises, PublishAgain, Acknowledge,
           ConsumerStarts, ConsumerStops, GoesOn
  <1>2. NoNewRows
    <2>1. ASSUME NEW u \in Clients, NEW t \in Tickets, RetryRead(u, t) PROVE NoNewRows
      <3>1. Requested(Message(u, t)).ticket \in Tickets
        BY RequestedKinds
      <3> QED
        BY <2>1, <3>1, NoPurchaseRead DEF RetryRead, AsksForRefund
    <2>2. (\E b \in Servers : GoesOn(b)) \/ ConsumerStops => Progress
      BY DEF GoesOn, ConsumerStops, Abandoned, Progress
    <2>3. RetryRefused \/ (\E u \in Clients, t \in Tickets : Retry(u, t)) => Progress
      <3>1. UNCHANGED bonus => Progress
        BY DEF bonus, Progress
      <3> QED
        BY <3>1, CallEnds, CallFails DEF RetryRefused, Retry, Inv
    <2>4. Deliver \/ RetryRaises \/ PublishAgain \/ Acknowledge \/ ConsumerStarts => Progress
      BY DEF Deliver, RetryRaises, PublishAgain, Acknowledge, ConsumerStarts, bonus, Progress
    <2> QED
      BY <2>1, <2>2, <2>3, <2>4, NoPurchaseRead DEF Consume
  <1> QED
    BY <1>1, <1>2, PurchasesStay DEF Buying

LEMMA WholeStep ==
    ASSUME NoSilence, Inv, Whole, [Next]_vars
    PROVE  Whole'
  <1>1. CASE UNCHANGED vars
    <2>1. NoNewRows
      BY <1>1, NoPurchaseRead DEF vars, bonus, Progress
    <2> QED
      BY <1>1, <2>1, PurchasesStay DEF vars, Buying
  <1>2. ~GatewayStops
    BY Answers DEF GatewayStops
  <1> QED
    BY <1>1, <1>2, WholePost, WholeRead, WholePurchase, WholeDelete, WholeUpdate, WholeReturn, WholeOthers
       DEF Next, Handle

\* A purchase is booked in both services or in none, as long as no answer to the calls
\* that create its rows is lost and the compensation is executed.
THEOREM PurchaseIsAtomic ==
    ASSUME NoSilence
    PROVE  Spec => []AllOrNothing
  <1>1. Init => Whole
    <2> SUFFICES ASSUME Init PROVE Whole
      OBVIOUS
    <2>1. Booked(SeedUser, Seed) = {1}
      BY Constants DEF Init, Service!Init, Service!Ledger!Init, Booked, Service!Ledger!RowsOf, Service!Ledger!Row
    <2>2. ~Unbooked(Seed)
      BY <2>1, Constants DEF Unbooked
    <2>3. \A t \in Tickets : t # Seed => ticket[t].status = "absent"
      BY DEF Init, Absent
    <2>4. ticket[Seed].status = "PAID" /\ \A w \in Workers : job[w].step = "idle"
      BY Constants DEF Init, Row, NoJob
    <2> QED
      BY <2>2, <2>3, <2>4 DEF Whole, BookedOrBuying, Dropped
  <1>2. Whole /\ Inv => AllOrNothing
    <2> SUFFICES ASSUME Whole, Inv, NEW t \in Tickets, \A w \in Workers : job[w] # NoJob => job[w].ticket # t
                 PROVE  /\ ticket[t].status = "PAID" => RowsNaming(t) # {}
                        /\ ticket[t].status = "deleted" => RowsNaming(t) = {}
      BY DEF AllOrNothing
    <2>1. \A w \in Workers : Buying(w) => job[w].ticket # t
      BY DEF Buying, NoJob
    <2>2. Apart(t) => Unbooked(t)
      BY DEF Apart, Involved, Unbooked
    <2> QED
      BY <2>1, <2>2, NamedRows DEF Whole, BookedOrBuying, Dropped
  <1>3. Inv /\ Whole /\ [Next]_vars => Whole'
    BY WholeStep
  <1> QED
    BY <1>1, <1>2, <1>3, InvAlways, PTL DEF Spec

-----------------------------------------------------------------------------
(* Returns.                                                                *)

\* The broker takes what publish.py sends.
BrokerTakes == <<"Publish", "failed">> \notin Faults

\* A handler has opened message.txt, and has not published what it holds yet.
Publishing(w) == job[w].step \in {"close", "publish"}

\* No two handlers have it open, or are about to publish it, at the same time.
ReturnsApart == \A v, w \in Workers : Publishing(v) /\ Publishing(w) => v = w

\* The message that returns u's ticket t is in the queue, or will be again, or with the
\* consumer.
Waiting(u, t) ==
    \/ Held(queue, Message(u, t))
    \/ consumer.step \in {"call", "again"} /\ consumer.message = Message(u, t)

\* What a handler publishes is its own return.
OwnLine ==
    \A w \in Workers : /\ job[w].step = "close" => file = Nothing
                       /\ job[w].step = "publish" => file = Message(job[w].user, job[w].ticket)

AcceptedWaits ==
    \A u \in Users, t \in Tickets : <<u, t>> \in accepted => Refunded(u, t) \/ Waiting(u, t)

\* The consumer waits for a thread only while it asks for the refund of a user with an account.
ScriptAsks ==
    \A b \in Servers : caller[b] = Script =>
        \E u \in Clients, t \in Tickets : Calls(u, t) /\ Requested(Message(u, t)).user \in Users

\* Caller c asks for the refund of u's ticket t.
Asks(c, u, t) ==
    \/ c \in Workers /\ job[c].step = "refund" /\ job[c].user = u /\ job[c].ticket = t
    \/ c = Script /\ Calls(u, t)

\* The thread that serves it is about to refund just that.
RefundsServed ==
    \A b \in Servers, u \in Users, t \in Tickets :
        Asks(caller[b], u, t) => Books(b, u, t) /\ Booked(u, t) # {}

Kept == OwnLine /\ AcceptedWaits /\ ScriptAsks /\ RefundsServed

\* A user with an account has a name that can be sent, and that the consumer reads as it is.
LEMMA NamesOfUsers ==
    ASSUME NEW u \in Users, NEW t \in Tickets
    PROVE  /\ u \in Clients /\ u \notin Unsendable
           /\ Requested(Message(u, t)).user = u /\ Requested(Message(u, t)).ticket = t
  <1>1. u \in Clients /\ u \notin Unsendable /\ u \notin CommaNames
    BY BookingAssumption, Constants DEF BookingAssumption
  <1> QED
    BY <1>1, RequestedKinds

\* Rows are only added.
LEMMA RowsStay ==
    ASSUME Inv, [Next]_vars
    PROVE  \A u \in Users, t \in Tickets : Booked(u, t) \subseteq Booked(u, t)'
  <1>1. [Service!Next]_(Service!vars)
    BY ServiceStep
  <1>2. CASE Progress
    BY <1>2, ProgressKeeps DEF Inv
  <1>3. ASSUME NEW b \in Servers, NEW v \in Users, NEW x \in Tickets,
               Service!ReadForPurchase(b, v, x) \/ Service!ReadForReturn(b, v, x)
        PROVE  \A u \in Users, t \in Tickets : Booked(u, t) \subseteq Booked(u, t)'
    BY <1>3, ReadInvolves DEF Inv
  <1> QED
    BY <1>1, <1>2, <1>3 DEF Service!Next, Service!vars, Progress

LEMMA RefundedForEver ==
    ASSUME Inv, [Next]_vars
    PROVE  \A u \in Users, t \in Tickets : Refunded(u, t) => Refunded(u, t)'
  BY RowsStay DEF Refunded

\* Whoever is answered was asked for a refund: it is there.
LEMMA AnsweredRefund ==
    ASSUME Inv, Kept, NEW c, Answered(c), NEW u \in Users, NEW t \in Tickets, Asks(c, u, t)
    PROVE  Refunded(u, t)'
  <1>1. PICK b \in Servers : caller[b] = c /\ Service!Write(b)
    BY DEF Answered
  <1>2. Books(b, u, t) /\ Booked(u, t) # {}
    BY <1>1 DEF Kept, RefundsServed
  <1>3. \A v \in Users, x \in Tickets : Books(b, v, x) =>
           \E n : n \notin Booked(v, x) /\ Booked(v, x)' = Booked(v, x) \cup {n}
    BY <1>1, WriteEffect DEF Inv
  <1>4. PICK n : n \notin Booked(u, t) /\ Booked(u, t)' = Booked(u, t) \cup {n}
    BY <1>2, <1>3
  <1> QED
    BY <1>2, <1>4 DEF Refunded

-----------------------------------------------------------------------------
(* The calls of refunds.                                                   *)

\* No thread gets a caller, and what the callers that wait ask for stays.
CallsStay ==
    /\ NoNewCalls
    /\ \A b \in Servers : caller'[b] = Script => consumer' = consumer

LEMMA HandlerCallsStay ==
    ASSUME Inv, NEW w \in Workers, TicketPost(w) \/ TicketUpdate(w) \/ Handle(w),
           ~PurchaseRead(w), ~RefundRead(w)
    PROVE  CallsStay
  <1>1. consumer' = consumer
    BY DEF TicketPost, TicketUpdate, Handle, PurchaseCall, TicketDelete, RefundCall, OpenFile, CloseFile, Publish
  <1>2. ASSUME PurchaseCall(w) \/ RefundCall(w) PROVE NoNewCalls
    <2>1. Released(w)
      BY <1>2, PurchaseCallEnds, CallEnds, CallFails DEF RefundCall, Inv
    <2>2. /\ job[w].step # "idle"
          /\ Leave(w) \/ \E step \in {"cancel", "open"} : GoTo(w, step)
      BY <1>2 DEF PurchaseCall, AfterPurchase, RefundCall
    <2>3. job'[w].step # "purchase" /\ \A v \in Workers : v # w => job'[v] = job[v]
      BY <2>2, HandlerMoves DEF Steps
    <2> QED
      BY <2>1, <2>3, ReleasedCalls DEF Inv
  <1>3. ASSUME TicketPost(w) \/ TicketUpdate(w) PROVE NoNewCalls
    <2>1. PICK u \in Clients, t \in Tickets, step \in {"purchase", "refund"} :
             job' = job \/ job' = [job EXCEPT ![w] = [step |-> step, user |-> u, ticket |-> t]]
      BY <1>3 DEF TicketPost, TicketUpdate
    <2>2. job[w].step = "idle" /\ UNCHANGED bonus
      BY <1>3 DEF TicketPost, TicketUpdate, NoJob
    <2>3. \A v \in Workers : v # w => job'[v] = job[v]
      BY <2>1 DEF Inv, Base, TypeOK
    <2> QED
      BY <2>2, <2>3, UncalledSteps DEF Inv
  <1>4. ASSUME TicketDelete(w) \/ OpenFile(w) \/ CloseFile(w) \/ Publish(w) PROVE NoNewCalls
    <2>1. /\ job[w].step \in {"cancel", "open", "close", "publish"} /\ UNCHANGED bonus
          /\ Leave(w) \/ \E step \in {"close", "publish"} : GoTo(w, step)
      BY <1>4 DEF TicketDelete, OpenFile, CloseFile, Publish
    <2>2. \A v \in Workers : v # w => job'[v] = job[v]
      BY <2>1, HandlerMoves DEF Steps
    <2> QED
      BY <2>1, <2>2, UncalledSteps DEF Inv
  <1> QED
    BY <1>1, <1>2, <1>3, <1>4 DEF CallsStay, Handle

LEMMA OtherCallsStay ==
    ASSUME Inv, Kept,
           \/ Consume \/ ConsumerStops \/ GatewayStops
           \/ \E b \in Servers : GoesOn(b)
    PROVE  CallsStay \/ \E u \in Clients, t \in Tickets : RetryRead(u, t)
  <1>0. Script # Nobody /\ Script \notin Workers /\ Nobody \notin Workers
    BY Constants
  <1>1. ASSUME GatewayStops PROVE CallsStay
    <2>1. /\ consumer' = consumer /\ pending' = pending /\ \A w \in Workers : job'[w] = NoJob
          /\ \A b \in Servers : caller'[b] = IF caller[b] \in Workers THEN Nobody ELSE caller[b]
      BY <1>1 DEF GatewayStops, Abandoned
    <2> QED
      BY <1>0, <2>1 DEF CallsStay, NoNewCalls, NoJob
  <1>2. ASSUME NEW b \in Servers, GoesOn(b) PROVE CallsStay
    <2>1. /\ caller[b] = Nobody /\ UNCHANGED <<caller, job, consumer>>
          /\ \A d \in Servers : d # b => pending'[d] = pending[d]
      BY <1>2 DEF GoesOn, Service!Write, Service!WriteFails, Service!Finish, Inv, Base, TypeOK
    <2> QED
      BY <1>0, <2>1, OtherCalls DEF CallsStay
  <1>3. ASSUME Released(Script), UNCHANGED job PROVE CallsStay
    <2>1. \A b \in Servers : caller'[b] # Script
      BY <1>0, <1>3 DEF Released
    <2>2. NoNewCalls
      BY <1>0, <1>3, OtherCalls DEF Released
    <2> QED
      BY <2>1, <2>2 DEF CallsStay
  <1>4. ASSUME Unserved(Script), UNCHANGED <<job, bonus>> PROVE CallsStay
    <2>1. NoNewCalls /\ caller' = caller
      BY <1>0, <1>4, OtherCalls DEF bonus
    <2> QED
      BY <1>4, <2>1 DEF CallsStay, Unserved
  <1>5. ASSUME ~Unserved(Script)
        PROVE  \E u \in Clients, t \in Tickets : Calls(u, t) /\ Requested(Message(u, t)).user \in Users
    BY <1>5 DEF Kept, ScriptAsks, Unserved
  <1>6. ASSUME Deliver \/ PublishAgain \/ Acknowledge \/ ConsumerStarts PROVE CallsStay
    <2>1. UNCHANGED <<job, bonus>> /\ consumer.step # "call"
      BY <1>6 DEF Deliver, PublishAgain, Acknowledge, ConsumerStarts, Ready, Down
    <2>2. Unserved(Script)
      BY <1>5, <2>1 DEF Calls
    <2> QED
      BY <1>4, <2>1, <2>2
  <1>7. ASSUME RetryRaises PROVE CallsStay
    <2>1. Unserved(Script)
      <3> SUFFICES ASSUME NEW u \in Clients, NEW t \in Tickets, consumer.message = Message(u, t),
                          Requested(Message(u, t)).user \in Users
                   PROVE  FALSE
        BY <1>5 DEF Calls
      <3>1. /\ Message(u, t).kind = "return" /\ Message(u, t) # Nothing
            /\ Requested(Message(u, t)).user \notin Unsendable
        BY MessageKinds, BookingAssumption, Constants DEF Message, BookingAssumption
      <3> QED
        BY <1>7, <3>1 DEF RetryRaises
    <2> QED
      BY <1>4, <1>7, <2>1 DEF RetryRaises
  <1>8. ASSUME ConsumerStops PROVE CallsStay
    BY <1>3, <1>8 DEF ConsumerStops, Abandoned, Released
  <1>9. ASSUME NEW u \in Clients, NEW t \in Tickets, Retry(u, t) PROVE CallsStay
    BY <1>3, <1>9, CallEnds DEF Retry, Inv
  <1>10. ASSUME RetryRefused PROVE CallsStay
    <2>1. CASE consumer.message.kind = "mixed"
      <3>0. \A u \in Clients, t \in Tickets : ~Calls(u, t)
        BY <2>1 DEF Calls, Message
      <3>1. Unserved(Script)
        BY <1>5, <3>0
      <3>2. UNCHANGED <<job, bonus>>
        BY <1>10, <2>1 DEF RetryRefused
      <3> QED
        BY <1>4, <3>1, <3>2
    <2>2. CASE Fails(Script, "Retry")
      BY <1>3, <1>10, <2>2, CallFails DEF RetryRefused, Inv
    <2>3. CASE Unserved(Script) /\ UNCHANGED bonus
      BY <1>4, <1>10, <2>3 DEF RetryRefused
    <2> QED
      BY <1>10, <2>1, <2>2, <2>3 DEF RetryRefused
  <1> QED
    BY <1>1, <1>2, <1>6, <1>7, <1>8, <1>9, <1>10 DEF Consume

\* A thread reads for a caller.
LEMMA ServedRead ==
    ASSUME Inv, Kept, UNCHANGED <<job, consumer>>,
           NEW b \in Servers, NEW c \in Workers \cup {Script}, Serves(b, c),
           NEW u \in Users, NEW t \in Tickets,
           \/ Service!ReadForPurchase(b, u, t) /\ c \in Workers /\ job[c].step = "purchase"
           \/ Service!ReadForReturn(b, u, t) /\ \A v \in Users, x \in Tickets : Asks(c, v, x) => v = u /\ x = t,
           c = Script => \E v \in Clients, x \in Tickets : Calls(v, x) /\ Requested(Message(v, x)).user \in Users
    PROVE  ScriptAsks' /\ RefundsServed'
  <1>1. caller'[b] = c /\ \A d \in Servers : d # b => caller'[d] = caller[d]
    BY DEF Serves, Inv, Base, TypeOK
  <1>2. /\ \A d \in Servers : d # b => pending'[d] = pending[d]
        /\ Books(b, u, t)'
        /\ Service!ReadForReturn(b, u, t) => Booked(u, t) # {}
    BY ReadEffect DEF Inv
  <1>3. \A v \in Users, x \in Tickets : Booked(v, x)' = Booked(v, x)
    BY ReadInvolves DEF Inv
  <1>4. ScriptAsks'
    BY <1>1 DEF Kept, ScriptAsks, Calls, Requested, Message
  <1>5. RefundsServed'
    <2> SUFFICES ASSUME NEW d \in Servers, NEW v \in Users, NEW x \in Tickets, Asks(caller[d], v, x)'
                 PROVE  Books(d, v, x)' /\ Booked(v, x)' # {}
      BY DEF RefundsServed
    <2>0. PICK e : e = caller'[d]
      OBVIOUS
    <2>1. Asks(e, v, x)
      BY <2>0 DEF Asks, Calls, Message
    <2>2. CASE d = b
      <3>1. e = c /\ ~(c \in Workers /\ job[c].step = "purchase")
        BY <1>1, <2>0, <2>1, <2>2, Constants DEF Asks
      <3> QED
        BY <1>2, <1>3, <2>1, <2>2, <3>1
    <2>3. CASE d # b
      <3>1. Books(d, v, x) /\ Booked(v, x) # {}
        BY <1>1, <2>0, <2>1, <2>3 DEF Kept, RefundsServed
      <3> QED
        BY <1>2, <1>3, <2>3, <3>1 DEF Books, Names, Service!Idle
    <2> QED
      BY <2>2, <2>3
  <1> QED
    BY <1>4, <1>5

\* A thread whose caller waits keeps what it is about to write.
LEMMA ServedStay ==
    ASSUME Inv, Kept, [Next]_vars, CallsStay
    PROVE  ScriptAsks' /\ RefundsServed'
  <1>1. \A b \in Servers : caller'[b] = Script => caller[b] = Script /\ consumer' = consumer
    BY Constants DEF CallsStay, NoNewCalls
  <1>2. ScriptAsks'
    BY <1>1 DEF Kept, ScriptAsks, Calls, Requested, Message
  <1>3. RefundsServed'
    <2> SUFFICES ASSUME NEW b \in Servers, NEW u \in Users, NEW t \in Tickets, Asks(caller[b], u, t)'
                 PROVE  Books(b, u, t)' /\ Booked(u, t)' # {}
      BY DEF RefundsServed
    <2>1. PICK c : c = caller'[b]
      OBVIOUS
    <2>2. c = caller[b] /\ pending'[b] = pending[b]
      <3>1. c # Nobody
        BY <2>1, Constants DEF Asks
      <3> QED
        BY <2>1, <3>1 DEF CallsStay, NoNewCalls
    <2>3. Asks(c, u, t)
      <3>1. CASE c \in Workers
        <4>1. job'[c] = job[c] /\ c # Script
          BY <2>1, <3>1, Constants DEF CallsStay, NoNewCalls
        <4> QED
          BY <2>1, <3>1, <4>1 DEF Asks
      <3>2. CASE c = Script
        BY <1>1, <2>1, <3>2, Constants DEF Asks, Calls, Message
      <3> QED
        BY <2>1, <3>1, <3>2 DEF Asks
    <2>4. Books(b, u, t) /\ Booked(u, t) # {}
      BY <2>2, <2>3 DEF Kept, RefundsServed
    <2> QED
      BY <2>2, <2>4, RowsStay DEF Books, Names, Service!Idle
  <1> QED
    BY <1>2, <1>3

LEMMA ServedStep ==
    ASSUME Inv, Kept, [Next]_vars
    PROVE  ScriptAsks' /\ RefundsServed'
  <1>1. CASE CallsStay
    BY <1>1, ServedStay
  <1>2. ASSUME NEW w \in Workers, PurchaseRead(w) PROVE ScriptAsks' /\ RefundsServed'
    <2>1. PICK u \in Users, t \in Tickets : u = job[w].user /\ t = job[w].ticket
      BY <1>2, JobKinds DEF PurchaseRead, AsksForPurchase, Inv, Base
    <2>2. PICK b \in Servers : Service!ReadForPurchase(b, u, t) /\ Serves(b, w)
      BY <1>2, <2>1 DEF PurchaseRead, AsksForPurchase
    <2>3. w # Script
      BY Constants
    <2> QED
      BY <1>2, <2>2, <2>3, ServedRead DEF PurchaseRead
  <1>3. ASSUME NEW w \in Workers, RefundRead(w) PROVE ScriptAsks' /\ RefundsServed'
    <2>1. PICK u \in Users, t \in Tickets : u = job[w].user /\ t = job[w].ticket
      BY <1>3, JobKinds DEF RefundRead, AsksForRefund, Inv, Base
    <2>2. PICK b \in Servers : Service!ReadForReturn(b, u, t) /\ Serves(b, w)
      BY <1>3, <2>1 DEF RefundRead, AsksForRefund
    <2>3. w # Script
      BY Constants
    <2>4. \A v \in Users, x \in Tickets : Asks(w, v, x) => v = u /\ x = t
      BY <2>1, <2>3 DEF Asks
    <2> QED
      BY <1>3, <2>2, <2>3, <2>4, ServedRead DEF RefundRead
  <1>4. ASSUME NEW y \in Clients, NEW z \in Tickets, RetryRead(y, z) PROVE ScriptAsks' /\ RefundsServed'
    <2>1. PICK u \in Users, t \in Tickets : u = Requested(Message(y, z)).user /\ t = Requested(Message(y, z)).ticket
      BY <1>4, RequestedKinds DEF RetryRead, AsksForRefund
    <2>2. PICK b \in Servers : Service!ReadForReturn(b, u, t) /\ Serves(b, Script)
      BY <1>4, <2>1 DEF RetryRead, AsksForRefund
    <2>3. \A v \in Users, x \in Tickets : Asks(Script, v, x) => v = u /\ x = t
      <3> SUFFICES ASSUME NEW v \in Users, NEW x \in Tickets, Asks(Script, v, x) PROVE v = u /\ x = t
        OBVIOUS
      <3>1. consumer.message = Message(v, x)
        BY Constants DEF Asks, Calls
      <3>2. consumer.message = Message(y, z)
        BY <1>4 DEF RetryRead, Calls
      <3>3. v \in Clients /\ Message(v, x) = Message(y, z)
        BY <3>1, <3>2, Constants
      <3>4. v = y /\ x = z
        BY <3>3, MessageKinds
      <3> QED
        BY <2>1, <3>4, NamesOfUsers
    <2> QED
      BY <1>4, <2>1, <2>2, <2>3, ServedRead DEF RetryRead
  <1>5. CASE UNCHANGED vars
    <2>1. NoNewCalls
      BY <1>5, OtherCalls DEF vars, bonus
    <2> QED
      BY <1>1, <1>5, <2>1 DEF vars, CallsStay
  <1> QED
    BY <1>1, <1>2, <1>3, <1>4, <1>5, HandlerCallsStay, OtherCallsStay DEF Next

-----------------------------------------------------------------------------
(* The messages of returns.                                                *)

\* What a handler writes stays its own until it has published it, if no other one has the file.
LEMMA OwnLineKept ==
    ASSUME Kept, ReturnsApart', NEW w \in Workers,
           \A v \in Workers : v # w => job'[v] = job[v],
           \/ file' = file /\ ~Publishing(w)'
           \/ job'[w].step = "close" /\ file' = Nothing
           \/ job'[w].step = "publish" /\ file' = Message(job'[w].user, job'[w].ticket)
    PROVE  OwnLine'
  <1> SUFFICES ASSUME NEW v \in Workers
               PROVE  /\ job'[v].step = "close" => file' = Nothing
                      /\ job'[v].step = "publish" => file' = Message(job'[v].user, job'[v].ticket)
    BY DEF OwnLine, Message, Nothing
  <1>1. CASE v = w
    BY <1>1 DEF Publishing, Nothing
  <1>2. CASE v # w /\ Publishing(w)'
    <2>1. ~Publishing(v)'
      BY <1>2 DEF ReturnsApart
    <2> QED
      BY <2>1 DEF Publishing
  <1>3. CASE v # w /\ ~Publishing(w)'
    <2>1. file' = file /\ job'[v] = job[v]
      BY <1>3 DEF Publishing
    <2> QED
      BY <2>1 DEF Kept, OwnLine
  <1> QED
    BY <1>1, <1>2, <1>3

\* The message stays where it is, and what is accepted was.
LEMMA StillWaits ==
    ASSUME Kept, UNCHANGED <<queue, consumer>>,
           \A u \in Users, t \in Tickets : Refunded(u, t) => Refunded(u, t)',
           \A u \in Users, t \in Tickets : <<u, t>> \in accepted' => <<u, t>> \in accepted \/ Refunded(u, t)'
    PROVE  AcceptedWaits'
  <1>1. \A u \in Users, t \in Tickets : Waiting(u, t) => Waiting(u, t)'
    BY DEF Waiting, Held, Message
  <1> QED
    BY <1>1 DEF Kept, AcceptedWaits

\* The steps of the handlers.
LEMMA KeptHandlers ==
    ASSUME BrokerTakes, Inv, Kept, ReturnsApart',
           NEW w \in Workers, TicketPost(w) \/ TicketUpdate(w) \/ Handle(w),
           \A u \in Users, t \in Tickets : Refunded(u, t) => Refunded(u, t)'
    PROVE  OwnLine' /\ AcceptedWaits'
  <1>1. ASSUME TicketPost(w) \/ TicketUpdate(w) \/ PurchaseRead(w) \/ RefundRead(w) \/ PurchaseCall(w) \/ TicketDelete(w)
        PROVE  OwnLine' /\ AcceptedWaits'
    <2>1. UNCHANGED <<file, queue, consumer, accepted>>
      BY <1>1 DEF TicketPost, TicketUpdate, PurchaseRead, RefundRead, PurchaseCall, TicketDelete
    <2>2. ~Publishing(w)' /\ \A v \in Workers : v # w => job'[v] = job[v]
      <3>1. CASE TicketPost(w) \/ TicketUpdate(w)
        <4>1. job[w] = NoJob /\ job \in [Workers -> Jobs \cup {NoJob}]
          BY <3>1 DEF TicketPost, TicketUpdate, Inv, Base, TypeOK
        <4>2. PICK u \in Clients, t \in Tickets, step \in {"purchase", "refund"} :
                 job' = job \/ job' = [job EXCEPT ![w] = [step |-> step, user |-> u, ticket |-> t]]
          BY <3>1 DEF TicketPost, TicketUpdate
        <4> QED
          BY <4>1, <4>2 DEF NoJob, Publishing
      <3>2. CASE PurchaseCall(w) \/ TicketDelete(w)
        <4>1. job[w].step # "idle" /\ (GoTo(w, "cancel") \/ Leave(w))
          BY <3>2 DEF PurchaseCall, AfterPurchase, TicketDelete
        <4> QED
          BY <4>1, HandlerMoves DEF Steps, NoJob, Publishing
      <3>3. CASE PurchaseRead(w) \/ RefundRead(w)
        BY <3>3 DEF PurchaseRead, RefundRead, Publishing
      <3> QED
        BY <1>1, <3>1, <3>2, <3>3
    <2> QED
      BY <2>1, <2>2, OwnLineKept, StillWaits
  <1>2. ASSUME RefundCall(w) PROVE OwnLine' /\ AcceptedWaits'
    <2>1. /\ job[w].step = "refund" /\ UNCHANGED <<file, queue, consumer>>
          /\ GoTo(w, "open") \/ Leave(w)
      BY <1>2 DEF RefundCall
    <2>2. ~Publishing(w)' /\ \A v \in Workers : v # w => job'[v] = job[v]
      BY <2>1, HandlerMoves DEF Steps, NoJob, Publishing
    <2>3. ASSUME NEW u \in Users, NEW t \in Tickets, <<u, t>> \in accepted', <<u, t>> \notin accepted
          PROVE  Refunded(u, t)'
      <3>1. Answered(w) /\ u = job[w].user /\ t = job[w].ticket
        BY <1>2, <2>3 DEF RefundCall, Accept
      <3>2. Asks(w, u, t)
        BY <2>1, <3>1 DEF Asks
      <3> QED
        BY <3>1, <3>2, AnsweredRefund
    <2> QED
      BY <2>1, <2>2, <2>3, OwnLineKept, StillWaits
  <1>3. ASSUME OpenFile(w) PROVE OwnLine' /\ AcceptedWaits'
    <2>1. file' = Nothing /\ UNCHANGED <<queue, consumer, accepted>>
      BY <1>3 DEF OpenFile
    <2>2. job'[w].step = "close" /\ \A v \in Workers : v # w => job'[v] = job[v]
      BY <1>3, Moves DEF OpenFile, Steps, Inv, Base
    <2> QED
      BY <2>1, <2>2, OwnLineKept, StillWaits
  <1>4. ASSUME CloseFile(w) PROVE OwnLine' /\ AcceptedWaits'
    <2>1. /\ file' \in Overwritten(file, job[w].user, job[w].ticket) /\ file = Nothing
          /\ UNCHANGED <<queue, consumer, accepted>>
      BY <1>4 DEF CloseFile, Kept, OwnLine
    <2>2. file' = Message(job[w].user, job[w].ticket)
      BY <2>1 DEF Overwritten, IsLong, Nothing
    <2>3. /\ job'[w].step = "publish" /\ job'[w].user = job[w].user /\ job'[w].ticket = job[w].ticket
          /\ \A v \in Workers : v # w => job'[v] = job[v]
      BY <1>4, Moves DEF CloseFile, Steps, Inv, Base
    <2> QED
      BY <2>1, <2>2, <2>3, OwnLineKept, StillWaits
  <1>5. ASSUME Publish(w) PROVE OwnLine' /\ AcceptedWaits'
    <2>0. PICK u \in Clients, t \in Tickets : u = job[w].user /\ t = job[w].ticket
      BY <1>5, JobKinds DEF Publish, Inv, Base
    <2>1. /\ job[w].step = "publish" /\ Leave(w) /\ file = Message(u, t)
          /\ accepted' = accepted \cup {<<u, t>>} /\ UNCHANGED <<file, consumer>>
      BY <1>5, <2>0 DEF Publish, Accept, Kept, OwnLine
    <2>2. queue' = Enqueued(queue, Message(u, t))
      BY <1>5, <2>1 DEF Publish, BrokerTakes, Outcomes
    <2>3. Message(u, t) \in Messages /\ queue \in Seq(Messages)
      BY MessageKinds DEF Inv, Base, TypeOK
    <2>4. ~Publishing(w)' /\ \A v \in Workers : v # w => job'[v] = job[v]
      BY <2>1, Leaves DEF Inv, Base, NoJob, Publishing
    <2>5. OwnLine'
      BY <2>1, <2>4, OwnLineKept
    <2>6. \A n : Held(queue', n) <=> Held(queue, n) \/ n = Message(u, t)
      BY <2>2, <2>3, HeldEnqueued
    <2>7. AcceptedWaits'
      <3> SUFFICES ASSUME NEW v \in Users, NEW x \in Tickets, <<v, x>> \in accepted'
                   PROVE  Refunded(v, x)' \/ Waiting(v, x)'
        BY DEF AcceptedWaits
      <3>1. Held(queue, Message(v, x))' <=> Held(queue', Message(v, x))
        BY DEF Held, Message
      <3>2. CASE <<v, x>> \in accepted
        <4>1. Refunded(v, x) \/ Waiting(v, x)
          BY <3>2 DEF Kept, AcceptedWaits
        <4> QED
          BY <2>1, <2>6, <3>1, <4>1 DEF Waiting, Message
      <3>3. CASE v = u /\ x = t
        BY <2>6, <3>1, <3>3 DEF Waiting
      <3> QED
        BY <2>1, <3>2, <3>3
    <2> QED
      BY <2>5, <2>7
  <1> QED
    BY <1>1, <1>2, <1>3, <1>4, <1>5 DEF Handle

\* The steps of the consumer and of threads without a caller, and a stop of the gateway.
LEMMA KeptOthers ==
    ASSUME Inv, Kept,
           Consume \/ ConsumerStops \/ GatewayStops \/ \E b \in Servers : GoesOn(b),
           \A u \in Users, t \in Tickets : Refunded(u, t) => Refunded(u, t)'
    PROVE  OwnLine' /\ AcceptedWaits'
  <1>1. UNCHANGED <<file, accepted>> /\ (job' = job \/ \A w \in Workers : job'[w] = NoJob)
    BY DEF Consume, RetryRead, Retry, Deliver, RetryRefused, RetryRaises, PublishAgain, Acknowledge,
           ConsumerStarts, ConsumerStops, GatewayStops, GoesOn
  <1>2. OwnLine'
    BY <1>1 DEF Kept, OwnLine, NoJob, Message
  <1>3. queue \in Seq(Messages)
    BY DEF Inv, Base, TypeOK
  <1> DEFINE Before(m) == Held(queue, m) \/ (consumer.step \in {"call", "again"} /\ consumer.message = m)
             After(m) == Held(queue', m) \/ (consumer'.step \in {"call", "again"} /\ consumer'.message = m)
  <1>4. ASSUME NEW u \in Users, NEW t \in Tickets, Before(Message(u, t))
        PROVE  After(Message(u, t)) \/ Refunded(u, t)'
    <2>0. PICK m : m = Message(u, t)
      OBVIOUS
    <2>1. u \in Clients /\ m \in Messages /\ m # Nothing /\ m.kind = "return"
      BY <2>0, Constants, MessageKinds DEF Message
    <2>2. SUFFICES After(m) \/ Refunded(u, t)'
      BY <2>0
    <2>3. Before(m)
      BY <1>4, <2>0
    <2>4. CASE Deliver
      <3>1. queue # <<>> /\ consumer' = [step |-> "call", message |-> Head(queue)] /\ queue' = Tail(queue)
            /\ consumer.step = "idle"
        BY <2>4 DEF Deliver, Ready
      <3>2. Held(queue, m)
        BY <2>3, <3>1
      <3>3. m = Head(queue) \/ Held(Tail(queue), m)
        BY <1>3, <3>1, <3>2, HeldTail
      <3> QED
        BY <3>1, <3>3
    <2>5. CASE RetryRefused
      <3>1. consumer.step = "call" /\ queue' = queue /\ consumer' = [consumer EXCEPT !.step = "again"]
        BY <2>5 DEF RetryRefused, NextStep
      <3>2. consumer \in Busy
        BY <3>1, BusyKinds DEF Inv, Base
      <3>3. consumer'.message = consumer.message /\ consumer'.step = "again"
        BY <3>1, <3>2 DEF Busy
      <3> QED
        BY <2>3, <3>1, <3>3
    <2>6. CASE RetryRaises
      <3>1. Requested(m).user \notin Unsendable
        BY <2>0, NamesOfUsers
      <3>2. consumer.message # m /\ queue' = queue
        BY <2>1, <2>6, <3>1 DEF RetryRaises
      <3> QED
        BY <2>3, <3>2
    <2>7. CASE PublishAgain
      <3>1. consumer.step = "again" /\ queue' = Enqueued(queue, consumer.message)
        BY <2>7 DEF PublishAgain
      <3>2. consumer.message \in Messages
        BY <3>1, BusyKinds DEF Inv, Base
      <3>3. \A n : Held(queue', n) <=> Held(queue, n) \/ n = consumer.message
        BY <1>3, <3>1, <3>2, HeldEnqueued
      <3> QED
        BY <2>3, <3>3
    <2>8. CASE Acknowledge
      BY <2>3, <2>8 DEF Acknowledge
    <2>9. CASE ConsumerStarts
      BY <2>3, <2>9 DEF ConsumerStarts, Down
    <2>10. CASE ConsumerStops
      <3>1. /\ consumer.step \in {"call", "again", "ack"}
            /\ queue' = IF Copies(queue, consumer.message) < MaxCopies
                        THEN <<consumer.message>> \o queue ELSE queue
        BY <2>10 DEF ConsumerStops
      <3>2. consumer.message \in Messages
        BY <3>1, BusyKinds DEF Inv, Base
      <3>3. \A n : Held(queue', n) <=> Held(queue, n) \/ n = consumer.message
        BY <3>1, <3>2, HeldAgain DEF Inv, Base
      <3> QED
        BY <2>3, <3>3
    <2>11. CASE UNCHANGED <<queue, consumer>>
      BY <2>3, <2>11
    <2>12. ASSUME NEW v \in Clients, NEW x \in Tickets, Retry(v, x)
           PROVE  After(m) \/ Refunded(u, t)'
      <3>1. consumer.step = "call" /\ consumer.message = Message(v, x) /\ queue' = queue /\ Answered(Script)
        BY <2>12 DEF Retry, Calls
      <3>2. CASE Held(queue, m)
        BY <3>1, <3>2
      <3>3. CASE consumer.message = m
        <4>0. Message(u, t) = Message(v, x)
          BY <2>0, <3>1, <3>3
        <4>1. u = v /\ t = x
          BY <2>1, <4>0, MessageKinds
        <4>2. Asks(Script, u, t)
          BY <2>12, <4>1 DEF Asks, Retry
        <4> QED
          BY <3>1, <4>2, AnsweredRefund
      <3> QED
        BY <2>3, <3>2, <3>3
    <2>13. (\E v \in Clients, x \in Tickets : RetryRead(v, x)) \/ GatewayStops \/ (\E b \in Servers : GoesOn(b))
               => UNCHANGED <<queue, consumer>>
      BY DEF RetryRead, GatewayStops, GoesOn
    <2> QED
      BY <2>4, <2>5, <2>6, <2>7, <2>8, <2>9, <2>10, <2>11, <2>12, <2>13 DEF Consume
  <1>5. AcceptedWaits'
    <2> SUFFICES ASSUME NEW u \in Users, NEW t \in Tickets, <<u, t>> \in accepted, ~Refunded(u, t)'
                 PROVE  Waiting(u, t)'
      BY <1>1 DEF AcceptedWaits
    <2>1. Waiting(u, t)
      BY DEF Kept, AcceptedWaits
    <2>2. After(Message(u, t))
      BY <1>4, <2>1 DEF Waiting
    <2> QED
      BY <2>2 DEF Waiting, Held, Message
  <1> QED
    BY <1>2, <1>5

LEMMA KeptStep ==
    ASSUME BrokerTakes, Inv, Kept, ReturnsApart', [Next]_vars
    PROVE  Kept'
  <1>1. \A u \in Users, t \in Tickets : Refunded(u, t) => Refunded(u, t)'
    BY RefundedForEver
  <1>2. ScriptAsks' /\ RefundsServed'
    BY ServedStep
  <1>3. CASE UNCHANGED vars
    <2>1. OwnLine'
      BY <1>3 DEF vars, Kept, OwnLine, Message
    <2> QED
      BY <1>1, <1>2, <1>3, <2>1, StillWaits DEF vars, Kept
  <1>4. CASE Next
    BY <1>1, <1>2, <1>4, KeptHandlers, KeptOthers DEF Next, Kept
  <1> QED
    BY <1>3, <1>4

\* A return that was answered with success is refunded, or a message of it waits, as long as
\* the broker takes the messages and no handler opens message.txt before another one has
\* published it: overlapping there is all that can lose a return, whatever else fails or stops.
THEOREM ReturnsApartWait ==
    ASSUME BrokerTakes
    PROVE  Spec /\ []ReturnsApart => []ReturnsAreKept
  <1>1. Init => Kept
    <2> SUFFICES ASSUME Init PROVE Kept
      OBVIOUS
    <2>1. \A b \in Servers : caller[b] = Nobody
      BY DEF Init
    <2>2. ScriptAsks /\ RefundsServed
      BY <2>1, Constants DEF ScriptAsks, RefundsServed, Asks
    <2>3. OwnLine /\ AcceptedWaits
      BY DEF Init, OwnLine, AcceptedWaits, NoJob
    <2> QED
      BY <2>2, <2>3 DEF Kept
  <1>2. Inv /\ Kept => ReturnsAreKept
    <2> SUFFICES ASSUME Inv, Kept, NEW u \in Clients, NEW t \in Tickets, <<u, t>> \in accepted, Unrefunded(u, t)
                 PROVE  \/ Copies(queue, Message(u, t)) > 0
                        \/ /\ consumer.step # "idle" /\ consumer.step # "down"
                           /\ consumer.message = Message(u, t)
      BY DEF ReturnsAreKept
    <2>1. u \in Users /\ ~Refunded(u, t)
      BY DEF Unrefunded, Refunded, Booked, Service!Ledger!Refundable
    <2>2. Waiting(u, t)
      BY <2>1 DEF Kept, AcceptedWaits
    <2>3. ASSUME Held(queue, Message(u, t)) PROVE Copies(queue, Message(u, t)) > 0
      <3> DEFINE S == {i \in 1..Len(queue) : queue[i] = Message(u, t)}
      <3>1. Len(queue) \in Nat
        BY DEF Inv, Base, TypeOK
      <3>2. IsFiniteSet(1..Len(queue)) /\ S \subseteq 1..Len(queue)
        BY <3>1, FS_Interval
      <3>3. IsFiniteSet(S) /\ S # {}
        BY <2>3, <3>2, FS_Subset DEF Held
      <3> HIDE DEF S
      <3>4. Cardinality(S) \in Nat /\ Cardinality(S) # 0
        BY <3>3, FS_EmptySet, FS_CardinalityType
      <3> QED
        BY <3>4 DEF Copies, S
    <2> QED
      BY <2>2, <2>3 DEF Waiting
  <1>3. Inv /\ Kept /\ ReturnsApart' /\ [Next]_vars => Kept'
    BY KeptStep
  <1> QED
    BY <1>1, <1>2, <1>3, InvAlways, PTL DEF Spec

=============================================================================
