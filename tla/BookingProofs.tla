----------------------------- MODULE BookingProofs -----------------------------
(***************************************************************************)
(* Proofs about Booking: what holds of tickets, rows and messages for any  *)
(* number of users, tickets, handlers and threads of the Bonus Service,    *)
(* and whatever fails.                                                     *)
(***************************************************************************)
EXTENDS Booking, FiniteSetTheorems, TLAPS

Buying(w) == job[w].step \in {"purchase", "cancel"}

\* At most one handler buys a ticket, which exists, is the handler's user's, and was
\* not confirmed.
Buyers ==
    /\ \A w \in Workers : Buying(w) =>
          /\ ticket[job[w].ticket] \in TicketRows
          /\ ticket[job[w].ticket].status # "deleted"
          /\ ticket[job[w].ticket].user = job[w].user
          /\ job[w].ticket \notin confirmed
    /\ \A v, w \in Workers : Buying(v) /\ Buying(w) /\ job[v].ticket = job[w].ticket => v = w

\* Thread b of the Bonus Service is about to write a row of ticket t, or of u's ticket t.
Names(b, t) == ~Service!Idle(b) /\ pending[b].row.ticket = t
Books(b, u, t) == Names(b, t) /\ pending[b].user = u

\* A handler waits for one thread.  The one that serves a purchase books its ticket.
Callers ==
    /\ \A b, d \in Servers : caller[b] = caller[d] /\ caller[b] # Nobody => b = d
    /\ \A b \in Servers, w \in Workers : caller[b] = w =>
          /\ job[w].step \in {"purchase", "refund"}
          /\ job[w].step = "purchase" => Books(b, job[w].user, job[w].ticket)

Unbooked(t) == \A u \in Users : Booked(u, t) = {}

\* The account of u has a row of t, or will have one.
Involved(u, t) == Booked(u, t) # {} \/ \E b \in Servers : Books(b, u, t)

\* Until a purchase is booked no row names its ticket, and nobody but the thread that
\* serves it will write one.
Fresh ==
    /\ \A w \in Workers : job[w].step = "purchase" =>
          /\ Unbooked(job[w].ticket)
          /\ \A b \in Servers : Names(b, job[w].ticket) => caller[b] = w
    /\ \A t \in Tickets : ticket[t] = Absent => t \notin confirmed /\ \A u \in Users : ~Involved(u, t)

\* The test data opens every account with a row that names Seed, also those of users
\* that Seed does not belong to.
Opened(u, t) == t = Seed /\ u # SeedUser

\* Rows are in the account of the user who has the ticket.
Owners ==
    \A u \in Users, t \in Tickets :
        Involved(u, t) /\ ~Opened(u, t) => ticket[t] \in TicketRows /\ ticket[t].user = u

Held(q, m) == \E i \in 1..Len(q) : q[i] = m

\* A handler returns u's ticket t.
Handled(u, t) ==
    \E w \in Workers : /\ job[w].step \in {"refund", "open", "close", "publish"}
                       /\ job[w].user = u /\ job[w].ticket = t

\* A request to return u's ticket t is on its way to the Bonus Service.
Returning(u, t) ==
    \/ Handled(u, t)
    \/ file = Message(u, t)
    \/ Held(queue, Message(u, t))
    \/ consumer.step \in {"call", "again", "ack"} /\ consumer.message = Message(u, t)

\* u cannot use ticket t, and never will.
Useless(u, t) == ticket[t] \in TicketRows /\ (ticket[t].user = u => ticket[t].status # "PAID")

ReturnsCancel == \A u \in Clients, t \in Tickets : Returning(u, t) => Useless(u, t)

\* u's ticket t is refunded, or a thread is about to refund it.
Refunded(u, t) == \E i, j \in Booked(u, t) : i # j
Refunding(u, t) == Refunded(u, t) \/ (Booked(u, t) # {} /\ \E b \in Servers : Books(b, u, t))

RefundsCancel ==
    \A u \in Users, t \in Tickets :
        Refunding(u, t) /\ ~Opened(u, t) /\ t \notin Misread => ticket[t].status # "PAID"

\* A handler that publishes message.txt has opened it.
FileOpened == \A w \in Workers : job[w].step \in {"close", "publish"} => file # Missing

\* What each step keeps by itself, the service's own invariant among it.
Base == TypeOK /\ FileOpened /\ Service!Inv

\* The inductive invariant.
Inv == Base /\ Buyers /\ Callers /\ Fresh /\ Owners /\ ReturnsCancel /\ RefundsCancel /\ ConfirmedIsBooked

-----------------------------------------------------------------------------
(* Constants, records and sequences.                                       *)

LEMMA Constants ==
    /\ Service!BonusAssumption
    /\ Prices \subseteq Nat /\ Opening \in Nat /\ Seed \in Tickets
    /\ SeedUser \in Users /\ Users \subseteq Clients /\ MaxCopies \in Nat \ {0}
    /\ Users \cap Strangers = {}
    /\ Script \notin Workers /\ Nobody \notin Workers \cup {Script}
  BY BookingAssumption DEF BookingAssumption, Service!Ledger!LedgerAssumption, Service!BonusAssumption, Clients

\* What the consumer reads out of a line.
LEMMA RequestedKinds ==
    ASSUME NEW u \in Clients, NEW t \in Tickets
    PROVE  LET f == Requested(Message(u, t))
           IN  /\ f.user \in Clients /\ f.ticket \in Tickets
               /\ u \in CommaNames => f.ticket \in Misread
               /\ u \notin CommaNames => f.user = u /\ f.ticket = t
  <1>1. Message(u, t).user = u /\ Message(u, t).ticket = t
    BY DEF Message
  <1>2. CASE u \in CommaNames
    <2>1. ReadAs[u] \in [user : Clients \ CommaNames, ticket : Tickets]
      BY <1>2, BookingAssumption DEF BookingAssumption
    <2> QED
      BY <1>1, <1>2, <2>1 DEF Requested, Misread
  <1>3. CASE u \notin CommaNames
    BY <1>1, <1>3 DEF Requested
  <1> QED
    BY <1>2, <1>3

\* A thread has nothing to do, or is in a handler.
LEMMA JobKinds ==
    ASSUME TypeOK, NEW w \in Workers, job[w].step # "idle"
    PROVE  job[w] \in Jobs /\ job[w].user \in Clients /\ job[w].ticket \in Tickets
  BY DEF TypeOK, Jobs, NoJob

\* A ticket does not exist, or has a user.
LEMMA TicketKinds ==
    ASSUME TypeOK, NEW t \in Tickets
    PROVE  /\ ticket[t] = Absent <=> ticket[t] \notin TicketRows
           /\ ticket[t].status \in {"PAID", "CANCELED", "deleted"} => ticket[t] \in TicketRows
  BY DEF TypeOK, TicketRows, Absent

LEMMA MessageKinds ==
    ASSUME NEW u \in Clients, NEW t \in Tickets
    PROVE  /\ Message(u, t) \in Messages
           /\ Message(u, t) # Nothing /\ Message(u, t) # Missing
           /\ \A v \in Clients : Message(u, t) # Mixture(v)
           /\ \A v \in Clients, x \in Tickets : Message(u, t) = Message(v, x) => u = v /\ t = x
  <1>1. Message(u, t) \in Messages
    BY DEF Message, Messages
  <1>2. Message(u, t).kind = "return" /\ Message(u, t).user = u /\ Message(u, t).ticket = t
    BY DEF Message
  <1>3. Message(u, t) # Nothing /\ Message(u, t) # Missing
    BY <1>2 DEF Nothing, Missing
  <1>4. \A v \in Clients : Message(u, t) # Mixture(v)
    BY <1>2 DEF Mixture
  <1>5. \A v \in Clients, x \in Tickets : Message(u, t) = Message(v, x) => u = v /\ t = x
    BY DEF Message
  <1> QED
    BY <1>1, <1>3, <1>4, <1>5

\* Of a message that is not added because the queue has copies, it has one.
LEMMA ManyAreHeld ==
    ASSUME NEW q, NEW m, ~(Copies(q, m) < MaxCopies)
    PROVE  Held(q, m)
  <1> DEFINE S == {i \in 1..Len(q) : q[i] = m}
  <1>1. Cardinality(S) # 0
    BY Constants DEF Copies
  <1>2. S # {}
    BY <1>1, FS_EmptySet
  <1> QED
    BY <1>2 DEF Held

\* The queue after a message was added, and after one was taken.
LEMMA HeldEnqueued ==
    ASSUME NEW q \in Seq(Messages), NEW m \in Messages
    PROVE  /\ Enqueued(q, m) \in Seq(Messages)
           /\ \A n : Held(Enqueued(q, m), n) <=> Held(q, n) \/ n = m
  <1>1. CASE Copies(q, m) < MaxCopies
    <2>1. Enqueued(q, m) = Append(q, m)
      BY <1>1 DEF Enqueued
    <2>2. /\ Append(q, m) \in Seq(Messages) /\ Len(Append(q, m)) = Len(q) + 1 /\ Len(q) \in Nat
          /\ Append(q, m)[Len(q) + 1] = m
          /\ \A i \in 1..Len(q) : Append(q, m)[i] = q[i]
      OBVIOUS
    <2>3. \A n : Held(Append(q, m), n) => Held(q, n) \/ n = m
      <3> SUFFICES ASSUME NEW n, NEW i \in 1..Len(Append(q, m)), Append(q, m)[i] = n, n # m
                   PROVE  \E j \in 1..Len(q) : q[j] = n
        BY DEF Held
      <3>1. i \in 1..Len(q)
        BY <2>2
      <3> QED
        BY <2>2, <3>1
    <2>4. \A n : Held(q, n) \/ n = m => Held(Append(q, m), n)
      BY <2>2 DEF Held
    <2> QED
      BY <2>1, <2>2, <2>3, <2>4
  <1>2. CASE ~(Copies(q, m) < MaxCopies)
    <2>1. Enqueued(q, m) = q
      BY <1>2 DEF Enqueued
    <2>2. Held(q, m)
      BY <1>2, ManyAreHeld
    <2> QED
      BY <2>1, <2>2
  <1> QED
    BY <1>1, <1>2

LEMMA HeldTail ==
    ASSUME NEW q \in Seq(Messages), q # <<>>
    PROVE  /\ Head(q) \in Messages /\ Tail(q) \in Seq(Messages)
           /\ \A n : Held(q, n) <=> n = Head(q) \/ Held(Tail(q), n)
  <1>1. /\ Head(q) \in Messages /\ Tail(q) \in Seq(Messages) /\ Len(q) \in Nat \ {0}
        /\ Head(q) = q[1] /\ Len(Tail(q)) = Len(q) - 1
        /\ \A i \in 1..Len(Tail(q)) : Tail(q)[i] = q[i + 1]
    OBVIOUS
  <1>2. ASSUME NEW n, Held(q, n), n # Head(q) PROVE Held(Tail(q), n)
    <2>1. PICK i \in 1..Len(q) : q[i] = n
      BY <1>2 DEF Held
    <2>2. i - 1 \in 1..Len(Tail(q)) /\ Tail(q)[i - 1] = q[i]
      <3>1. i # 1
        BY <1>1, <1>2, <2>1
      <3>2. i - 1 \in 1..Len(Tail(q))
        BY <1>1, <3>1
      <3>3. (i - 1) + 1 = i
        OBVIOUS
      <3> QED
        BY <1>1, <3>2, <3>3
    <2> QED
      BY <2>1, <2>2 DEF Held
  <1>3. ASSUME NEW n, n = Head(q) \/ Held(Tail(q), n) PROVE Held(q, n)
    <2>1. CASE n = Head(q)
      BY <1>1, <2>1 DEF Held
    <2>2. CASE Held(Tail(q), n)
      <3>1. PICK i \in 1..Len(Tail(q)) : Tail(q)[i] = n
        BY <2>2 DEF Held
      <3>2. i + 1 \in 1..Len(q) /\ q[i + 1] = n
        BY <1>1, <3>1
      <3> QED
        BY <3>2 DEF Held
    <2> QED
      BY <1>3, <2>1, <2>2
  <1> QED
    BY <1>1, <1>2, <1>3

\* The message that a consumer did not acknowledge comes back to the queue's head.
LEMMA HeldFront ==
    ASSUME NEW q \in Seq(Messages), NEW m \in Messages
    PROVE  /\ <<m>> \o q \in Seq(Messages)
           /\ \A n : Held(<<m>> \o q, n) <=> n = m \/ Held(q, n)
  <1>1. /\ <<m>> \o q \in Seq(Messages) /\ <<m>> \o q # <<>>
        /\ Head(<<m>> \o q) = m /\ Len(Tail(<<m>> \o q)) = Len(q)
        /\ \A i \in 1..Len(q) : Tail(<<m>> \o q)[i] = q[i]
    OBVIOUS
  <1>2. \A n : Held(Tail(<<m>> \o q), n) <=> Held(q, n)
    BY <1>1 DEF Held
  <1> QED
    BY <1>1, <1>2, HeldTail

\* The queue after the consumer stopped.
LEMMA HeldAgain ==
    ASSUME TypeOK, NEW m \in Messages,
           queue' = IF Copies(queue, m) < MaxCopies THEN <<m>> \o queue ELSE queue
    PROVE  /\ queue' \in Seq(Messages)
           /\ \A n : Held(queue', n) <=> Held(queue, n) \/ n = m
  <1>1. queue \in Seq(Messages)
    BY DEF TypeOK
  <1>2. CASE Copies(queue, m) < MaxCopies
    BY <1>1, <1>2, HeldFront
  <1>3. CASE ~(Copies(queue, m) < MaxCopies)
    <2>1. Held(queue, m) /\ queue' = queue
      BY <1>3, ManyAreHeld
    <2> QED
      BY <1>1, <2>1
  <1> QED
    BY <1>2, <1>3

-----------------------------------------------------------------------------
(* The threads of the Bonus Service.                                       *)

\* What is about to be written.
LEMMA PendingKinds ==
    ASSUME Base, NEW b \in Servers, ~Service!Idle(b)
    PROVE  /\ pending[b].user \in Users
           /\ pending[b].row \in Service!Ledger!Rows /\ pending[b].row.ticket \in Tickets
  <1>1. pending[b] \in Service!Writes
    BY DEF Base, TypeOK, Service!Idle
  <1> QED
    BY <1>1 DEF Service!Writes, Service!Ledger!Rows

\* A thread commits: one row more, of its ticket.
LEMMA WriteEffect ==
    ASSUME Base, NEW b \in Servers, Service!Write(b)
    PROVE  /\ ~Service!Idle(b) /\ pending'[b] = Service!NoWrite
           /\ \A d \in Servers : d # b => pending'[d] = pending[d]
           /\ \A u \in Users, t \in Tickets : Books(b, u, t) =>
                 \E n : n \notin Booked(u, t) /\ Booked(u, t)' = Booked(u, t) \cup {n}
           /\ \A u \in Users, t \in Tickets : ~Books(b, u, t) => Booked(u, t)' = Booked(u, t)
  <1> DEFINE p == pending[b]
  <1>1. ~Service!Idle(b) /\ p.user \in Users /\ p.row \in Service!Ledger!Rows
    BY PendingKinds DEF Service!Write
  <1>2. /\ history' = [history EXCEPT ![p.user] = Append(history[p.user], p.row)]
        /\ pending' = [pending EXCEPT ![b] = Service!NoWrite]
    BY DEF Service!Write, Service!Finish
  <1>3. /\ pending'[b] = Service!NoWrite
        /\ \A d \in Servers : d # b => pending'[d] = pending[d]
    BY <1>2 DEF Base, TypeOK
  <1> HIDE DEF p
  <1>4. ASSUME NEW u \in Users, NEW t \in Tickets
        PROVE  Booked(u, t)' = IF u = p.user /\ t = p.row.ticket
                               THEN Booked(u, t) \cup {Len(history[u]) + 1} ELSE Booked(u, t)
    <2>1. history[u] \in Seq(Service!Ledger!Rows)
      BY DEF Base, TypeOK
    <2>2. history'[u] = IF u = p.user THEN Append(history[u], p.row) ELSE history[u]
      BY <1>2 DEF Base, TypeOK
    <2>3. CASE u = p.user
      <3>1. Service!Ledger!RowsOf(Append(history[u], p.row), t)
                = IF p.row.ticket = t THEN Service!Ledger!RowsOf(history[u], t) \cup {Len(history[u]) + 1}
                                      ELSE Service!Ledger!RowsOf(history[u], t)
        BY <1>1, <2>1, Service!Ledger!RowsOfAppend
      <3> QED
        BY <2>2, <2>3, <3>1 DEF Booked
    <2> QED
      BY <2>2, <2>3 DEF Booked
  <1>5. \A u \in Users : \A t : Len(history[u]) + 1 \notin Booked(u, t)
    <2> SUFFICES ASSUME NEW u \in Users, NEW t PROVE Len(history[u]) + 1 \notin Booked(u, t)
      OBVIOUS
    <2>1. Len(history[u]) \in Nat
      BY DEF Base, TypeOK
    <2>2. Len(history[u]) + 1 \notin 1..Len(history[u])
      BY <2>1
    <2> QED
      BY <2>2 DEF Booked, Service!Ledger!RowsOf
  <1>6. \A u, t : Books(b, u, t) <=> u = p.user /\ t = p.row.ticket
    BY <1>1 DEF Books, Names, p
  <1> QED
    BY <1>1, <1>3, <1>4, <1>5, <1>6

\* Nothing new is read: the threads do nothing, or one of them ends.
Progress ==
    \/ UNCHANGED <<balance, history, pending>>
    \/ \E b \in Servers : Service!Write(b) \/ Service!WriteFails(b)

\* What is about to be written is written or given up, and rows are only added.
LEMMA ProgressKeeps ==
    ASSUME Base, Progress
    PROVE  /\ \A b \in Servers : \/ pending'[b] = pending[b]
                                 \/ pending'[b] = Service!NoWrite /\ ~Service!Idle(b)
           /\ \A u \in Users, t \in Tickets : /\ Booked(u, t) \subseteq Booked(u, t)'
                                              /\ Involved(u, t)' => Involved(u, t)
                                              /\ Refunding(u, t)' => Refunding(u, t)
  <1>1. CASE UNCHANGED <<balance, history, pending>>
    BY <1>1 DEF Booked, Involved, Refunding, Refunded, Books, Names, Service!Idle
  <1>2. ASSUME NEW b \in Servers, Service!WriteFails(b)
        PROVE  /\ \A d \in Servers : \/ pending'[d] = pending[d]
                                     \/ pending'[d] = Service!NoWrite /\ ~Service!Idle(d)
               /\ \A u \in Users, t \in Tickets : /\ Booked(u, t) \subseteq Booked(u, t)'
                                                  /\ Involved(u, t)' => Involved(u, t)
                                                  /\ Refunding(u, t)' => Refunding(u, t)
    <2>1. /\ history' = history
          /\ ~Service!Idle(b)
          /\ pending'[b] = Service!NoWrite /\ \A d \in Servers : d # b => pending'[d] = pending[d]
      BY <1>2 DEF Service!WriteFails, Service!Finish, Base, TypeOK
    <2>2. \A u, t : Booked(u, t)' = Booked(u, t)
      BY <2>1 DEF Booked
    <2>3. \A d \in Servers : \A u, t : Books(d, u, t)' => Books(d, u, t)
      BY <2>1 DEF Books, Names, Service!Idle
    <2> QED
      BY <2>1, <2>2, <2>3 DEF Involved, Refunding, Refunded
  <1>3. ASSUME NEW b \in Servers, Service!Write(b)
        PROVE  /\ \A d \in Servers : \/ pending'[d] = pending[d]
                                     \/ pending'[d] = Service!NoWrite /\ ~Service!Idle(d)
               /\ \A u \in Users, t \in Tickets : /\ Booked(u, t) \subseteq Booked(u, t)'
                                                  /\ Involved(u, t)' => Involved(u, t)
                                                  /\ Refunding(u, t)' => Refunding(u, t)
    <2>1. /\ ~Service!Idle(b) /\ pending'[b] = Service!NoWrite
          /\ \A d \in Servers : d # b => pending'[d] = pending[d]
      BY <1>3, WriteEffect
    <2>2. \A d \in Servers : \A u, t : Books(d, u, t)' => Books(d, u, t) /\ d # b
      BY <2>1 DEF Books, Names, Service!Idle
    <2>3. ASSUME NEW u \in Users, NEW t \in Tickets
          PROVE  /\ Booked(u, t) \subseteq Booked(u, t)'
                 /\ Involved(u, t)' => Involved(u, t)
                 /\ Refunding(u, t)' => Refunding(u, t)
      <3>1. CASE ~Books(b, u, t)
        <4>1. Booked(u, t)' = Booked(u, t)
          BY <1>3, <3>1, WriteEffect
        <4>2. Refunded(u, t)' => Refunded(u, t)
          BY <4>1 DEF Refunded
        <4>3. (\E d \in Servers : Books(d, u, t)') => \E d \in Servers : Books(d, u, t)
          BY <2>2
        <4> QED
          BY <4>1, <4>2, <4>3 DEF Involved, Refunding
      <3>2. CASE Books(b, u, t)
        <4>0. \A v \in Users, x \in Tickets : Books(b, v, x) =>
                 \E n : n \notin Booked(v, x) /\ Booked(v, x)' = Booked(v, x) \cup {n}
          BY <1>3, WriteEffect
        <4>1. PICK n : n \notin Booked(u, t) /\ Booked(u, t)' = Booked(u, t) \cup {n}
          BY <3>2, <4>0
        <4>2. CASE Booked(u, t) # {}
          BY <3>2, <4>1, <4>2 DEF Involved, Refunding
        <4>3. CASE Booked(u, t) = {}
          <5>1. \A d \in Servers : Names(d, t) => d = b
            <6>1. Service!Purchasing(b) \/ Service!Refunding(b)
              BY <2>1 DEF Base, Service!Inv, Service!PendingSound
            <6>2. ~Service!Refunding(b)
              BY <3>2, <4>3 DEF Service!Refunding, Books, Names, Booked, Service!Ledger!RowsOf
            <6> QED
              BY <3>2, <6>1, <6>2 DEF Service!Purchasing, Books, Names
          <5>2. \A d \in Servers : ~Books(d, u, t)'
            BY <2>2, <5>1 DEF Books
          <5>3. ~Refunded(u, t)'
            BY <4>1, <4>3 DEF Refunded
          <5> QED
            BY <3>2, <4>1, <5>2, <5>3 DEF Involved, Refunding
        <4> QED
          BY <4>2, <4>3
      <3> QED
        BY <3>1, <3>2
    <2> QED
      BY <2>1, <2>3
  <1> QED
    BY <1>1, <1>2, <1>3 DEF Progress

\* A thread reads for a purchase or a return: it is about to write a row of that ticket.
LEMMA ReadEffect ==
    ASSUME Base, NEW b \in Servers, NEW u \in Users, NEW t \in Tickets,
           Service!ReadForPurchase(b, u, t) \/ Service!ReadForReturn(b, u, t)
    PROVE  /\ UNCHANGED <<balance, history>> /\ Service!Idle(b)
           /\ \A d \in Servers : d # b => pending'[d] = pending[d]
           /\ Books(b, u, t)'
           /\ \A v, x : Books(b, v, x)' => v = u /\ x = t
           /\ Service!ReadForReturn(b, u, t) => Booked(u, t) # {}
  <1>1. PICK row : Service!Plan(b, u, row) /\ row.ticket = t
    <2>1. CASE Service!ReadForPurchase(b, u, t)
      <3>1. \A bal, price, paid : Service!Ledger!PurchaseRow(bal, t, price, paid).ticket = t
        BY DEF Service!Ledger!PurchaseRow, Service!Ledger!Row
      <3> QED
        BY <2>1, <3>1 DEF Service!ReadForPurchase
    <2>2. CASE Service!ReadForReturn(b, u, t)
      <3>1. Service!Ledger!Refundable(history[u], t) /\ history[u] \in Seq(Service!Ledger!Rows)
        BY <2>2 DEF Service!ReadForReturn, Service!ActiveTicket, Base, TypeOK
      <3>2. history[u][Service!Ledger!PurchaseIndex(history[u], t)].ticket = t
        BY <3>1, Service!Ledger!PurchaseIndexSound
      <3>3. \A bal, r : Service!Ledger!RefundRow(bal, r).ticket = r.ticket
        BY DEF Service!Ledger!RefundRow, Service!Ledger!Row
      <3> QED
        BY <2>2, <3>2, <3>3 DEF Service!ReadForReturn
    <2> QED
      BY <2>1, <2>2
  <1> DEFINE p == [user |-> u, row |-> row, newBalance |-> Service!NewBalance(balance[u], row)]
  <1>2. pending' = [pending EXCEPT ![b] = p]
    BY <1>1 DEF Service!Plan
  <1>3. p # Service!NoWrite /\ p.user = u /\ p.row = row
    <2>1. "row" \in DOMAIN p /\ "row" \notin DOMAIN Service!NoWrite
      BY DEF Service!NoWrite
    <2> QED
      BY <2>1
  <1> HIDE DEF p
  <1>4. pending'[b] = p /\ \A d \in Servers : d # b => pending'[d] = pending[d]
    BY <1>2 DEF Base, TypeOK
  <1>5. Service!ReadForReturn(b, u, t) => Booked(u, t) # {}
    BY DEF Service!ReadForReturn, Service!ActiveTicket, Service!Ledger!Refundable, Booked
  <1> QED
    BY <1>1, <1>3, <1>4, <1>5 DEF Service!ReadForPurchase, Service!ReadForReturn, Books, Names, Service!Idle

\* What a read changes of the rows that will be.
LEMMA ReadInvolves ==
    ASSUME Base, NEW b \in Servers, NEW u \in Users, NEW t \in Tickets,
           Service!ReadForPurchase(b, u, t) \/ Service!ReadForReturn(b, u, t)
    PROVE  \A v \in Users, x \in Tickets :
              /\ Booked(v, x)' = Booked(v, x)
              /\ Involved(v, x)' => Involved(v, x) \/ (v = u /\ x = t)
              /\ Refunding(v, x)' => Refunding(v, x) \/ (v = u /\ x = t /\ Booked(u, t) # {})
  <1>1. /\ history' = history
        /\ \A d \in Servers : d # b => pending'[d] = pending[d]
        /\ \A v, x : Books(b, v, x)' => v = u /\ x = t
    BY ReadEffect
  <1>2. \A v, x : Booked(v, x)' = Booked(v, x)
    BY <1>1 DEF Booked
  <1>3. \A d \in Servers : \A v, x : d # b => (Books(d, v, x)' <=> Books(d, v, x))
    BY <1>1 DEF Books, Names, Service!Idle
  <1> QED
    BY <1>1, <1>2, <1>3 DEF Involved, Refunding, Refunded

-----------------------------------------------------------------------------
(* Callers.                                                                *)

\* Caller c is served no longer, and nobody else's thread has moved.
Released(c) ==
    \A b \in Servers : IF caller[b] = c THEN caller'[b] = Nobody
                       ELSE caller'[b] = caller[b] /\ pending'[b] = pending[b]

\* A call ends.
LEMMA CallEnds ==
    ASSUME Base, Callers, NEW c \in Workers \cup {Script},
           Answered(c) \/ NotExecuted(c) \/ GivenUp(c) \/ (Unserved(c) /\ UNCHANGED bonus)
    PROVE  Progress /\ Released(c)
  <1>0. c # Nobody
    BY Constants
  <1>1. CASE Unserved(c) /\ UNCHANGED bonus
    BY <1>1 DEF bonus, Progress, Released, Unserved
  <1>2. ASSUME NEW b \in Servers, caller[b] = c, Serves(b, Nobody),
               Service!Write(b) \/ Service!WriteFails(b) \/ UNCHANGED <<balance, history, pending>>
        PROVE  Progress /\ Released(c)
    <2>1. caller'[b] = Nobody /\ \A d \in Servers : d # b => caller'[d] = caller[d]
      BY <1>2 DEF Serves, Base, TypeOK
    <2>2. \A d \in Servers : d # b => pending'[d] = pending[d]
      BY <1>2 DEF Service!Write, Service!WriteFails, Service!Finish, Base, TypeOK
    <2>3. \A d \in Servers : d # b => caller[d] # c
      BY <1>0, <1>2 DEF Callers
    <2> QED
      BY <1>2, <2>1, <2>2, <2>3 DEF Progress, Released
  <1> QED
    BY <1>1, <1>2 DEF Answered, NotExecuted, GivenUp

LEMMA CallFails ==
    ASSUME Base, Callers, NEW c \in Workers \cup {Script}, NEW call, Fails(c, call)
    PROVE  Progress /\ Released(c)
  BY CallEnds DEF Fails

\* No thread gets a caller; who loses one buys no more.
NoNewCalls ==
    \A b \in Servers :
        /\ caller'[b] # caller[b] => caller'[b] = Nobody
        /\ caller'[b] # Nobody => pending'[b] = pending[b]
        /\ \A w \in Workers : caller'[b] = w => job'[w] = job[w]
        /\ \A w \in Workers : caller[b] = w /\ caller'[b] # w => job'[w].step # "purchase"

LEMMA CallersKept ==
    ASSUME Inv, NoNewCalls
    PROVE  Callers'
  <1>0. Nobody \notin Workers
    BY Constants
  <1>1. \A b, d \in Servers : caller'[b] = caller'[d] /\ caller'[b] # Nobody => b = d
    BY DEF NoNewCalls, Inv, Callers
  <1>2. ASSUME NEW b \in Servers, NEW w \in Workers, caller'[b] = w
        PROVE  /\ job'[w].step \in {"purchase", "refund"}
               /\ job'[w].step = "purchase" => Books(b, job[w].user, job[w].ticket)'
    <2>1. caller[b] = w /\ pending'[b] = pending[b] /\ job'[w] = job[w]
      BY <1>0, <1>2 DEF NoNewCalls
    <2> QED
      BY <2>1 DEF Inv, Callers, Books, Names, Service!Idle
  <1> QED
    BY <1>1, <1>2 DEF Callers, Books, Names, Service!Idle

\* The end of worker w's call, or a step that calls nobody.
LEMMA ReleasedCalls ==
    ASSUME Base, Callers, NEW w \in Workers, Released(w), job'[w].step # "purchase",
           \A v \in Workers : v # w => job'[v] = job[v]
    PROVE  NoNewCalls
  <1>0. Nobody \notin Workers
    BY Constants
  <1> QED
    BY <1>0 DEF NoNewCalls, Released

LEMMA UncalledSteps ==
    ASSUME Base, Callers, NEW w \in Workers, UNCHANGED bonus, job[w].step \notin {"purchase", "refund"},
           \A v \in Workers : v # w => job'[v] = job[v]
    PROVE  NoNewCalls
  <1>1. \A b \in Servers : caller[b] # w
    BY DEF Callers
  <1> QED
    BY <1>1 DEF NoNewCalls, bonus

-----------------------------------------------------------------------------
(* Types, and the service under its callers.                               *)

\* Only three actions read for a booking.
LEMMA Progresses ==
    ASSUME Next
    PROVE  \/ Progress
           \/ \E w \in Workers : PurchaseRead(w) \/ RefundRead(w)
           \/ \E u \in Clients, t \in Tickets : RetryRead(u, t)
  <1>1. \A c : Answered(c) \/ NotExecuted(c) \/ GivenUp(c) => Progress
    BY DEF Answered, NotExecuted, GivenUp, Progress, bonus
  <1>2. \A c, call : Fails(c, call) => Progress
    BY <1>1 DEF Fails
  <1>3. UNCHANGED bonus => Progress
    BY DEF bonus, Progress
  <1>4. \A C : Abandoned(C) => Progress
    BY DEF Abandoned, Progress
  <1>5. ASSUME NEW w \in Workers, TicketPost(w) \/ TicketUpdate(w) \/ Handle(w)
        PROVE  Progress \/ PurchaseRead(w) \/ RefundRead(w)
    <2>1. PurchaseCall(w) \/ RefundCall(w) => Progress
      BY <1>1, <1>2, <1>3 DEF PurchaseCall, RefundCall
    <2>2. TicketPost(w) \/ TicketUpdate(w) \/ TicketDelete(w) \/ OpenFile(w) \/ CloseFile(w) \/ Publish(w)
              => UNCHANGED bonus
      BY DEF TicketPost, TicketUpdate, TicketDelete, OpenFile, CloseFile, Publish
    <2> QED
      BY <1>3, <1>5, <2>1, <2>2 DEF Handle
  <1>6. ASSUME Consume, ~Progress PROVE \E u \in Clients, t \in Tickets : RetryRead(u, t)
    <2>1. RetryRefused => Progress
      BY <1>2, <1>3 DEF RetryRefused
    <2>2. \A u \in Clients, t \in Tickets : Retry(u, t) => Progress
      BY <1>1 DEF Retry
    <2>3. Deliver \/ RetryRaises \/ PublishAgain \/ Acknowledge \/ ConsumerStarts => UNCHANGED bonus
      BY DEF Deliver, RetryRaises, PublishAgain, Acknowledge, ConsumerStarts
    <2> QED
      BY <1>3, <1>6, <2>1, <2>2, <2>3 DEF Consume
  <1>7. \A b \in Servers : GoesOn(b) => Progress
    BY DEF GoesOn, Progress
  <1>8. GatewayStops \/ ConsumerStops => Progress
    BY <1>4 DEF GatewayStops, ConsumerStops
  <1> QED
    BY <1>5, <1>6, <1>7, <1>8 DEF Next

\* Handlers, retries and restarts use the service as it assumes.
LEMMA ServiceStep ==
    ASSUME Inv, [Next]_vars
    PROVE  [Service!Next]_(Service!vars) /\ Service!Inv'
  <1>1. Progress => [Service!Next]_(Service!vars)
    BY DEF Progress, Service!Next, Service!vars
  <1>2. ASSUME NEW w \in Workers, PurchaseRead(w) PROVE Service!Next
    <2>1. job[w].ticket \in Tickets
      BY <1>2, JobKinds DEF Inv, Base, PurchaseRead
    <2>2. job[w].user \in Users /\ Unserved(w)
          /\ \E b \in Servers : Service!ReadForPurchase(b, job[w].user, job[w].ticket)
      BY <1>2 DEF PurchaseRead, AsksForPurchase
    <2>3. Service!New(job[w].ticket)
      <3>1. job[w].step = "purchase"
        BY <1>2 DEF PurchaseRead
      <3>2. Unbooked(job[w].ticket) /\ \A b \in Servers : ~Names(b, job[w].ticket)
        BY <2>2, <3>1 DEF Inv, Fresh, Unserved
      <3> QED
        BY <3>2 DEF Unbooked, Booked, Names, Service!New
    <2> QED
      BY <2>1, <2>2, <2>3 DEF Service!Next
  <1>3. ASSUME NEW w \in Workers, RefundRead(w) PROVE Service!Next
    <2>1. job[w].ticket \in Tickets
      BY <1>3, JobKinds DEF Inv, Base, RefundRead
    <2> QED
      BY <1>3, <2>1 DEF RefundRead, AsksForRefund, Service!Next
  <1>4. ASSUME NEW u \in Clients, NEW t \in Tickets, RetryRead(u, t) PROVE Service!Next
    <2>1. Requested(Message(u, t)).ticket \in Tickets
      BY RequestedKinds
    <2> QED
      BY <1>4, <2>1 DEF RetryRead, AsksForRefund, Service!Next
  <1>5. UNCHANGED vars => Progress
    BY DEF vars, bonus, Progress
  <1>6. [Service!Next]_(Service!vars)
    BY <1>1, <1>2, <1>3, <1>4, <1>5, Progresses
  <1> QED
    BY <1>6, Constants, Service!InvStep DEF Inv, Base

BonusTyped ==
    /\ balance \in [Users -> Int]
    /\ history \in [Users -> Seq(Service!Ledger!Rows)]
    /\ pending \in [Servers -> Service!Writes \cup {Service!NoWrite}]
    /\ caller \in [Servers -> Workers \cup {Script, Nobody}]

LEMMA CallersTyped ==
    ASSUME TypeOK, Next
    PROVE  caller' \in [Servers -> Workers \cup {Script, Nobody}]
  <1>1. ASSUME NEW b \in Servers, NEW c \in Workers \cup {Script, Nobody}, Serves(b, c)
        PROVE  caller' \in [Servers -> Workers \cup {Script, Nobody}]
    BY <1>1 DEF Serves, TypeOK
  <1>2. ASSUME NEW C, Abandoned(C)
        PROVE  caller' \in [Servers -> Workers \cup {Script, Nobody}]
    BY <1>2 DEF Abandoned, TypeOK
  <1>3. caller' = caller => caller' \in [Servers -> Workers \cup {Script, Nobody}]
    BY DEF TypeOK
  <1>4. ASSUME NEW c \in Workers \cup {Script},
               \/ Answered(c) \/ NotExecuted(c) \/ GivenUp(c) \/ \E call : Fails(c, call)
               \/ \E u, t : AsksForPurchase(c, u, t) \/ AsksForRefund(c, u, t)
        PROVE  caller' \in [Servers -> Workers \cup {Script, Nobody}]
    <2>1. caller' = caller \/ \E b \in Servers : Serves(b, Nobody) \/ Serves(b, c)
      <3>1. Answered(c) \/ NotExecuted(c) \/ GivenUp(c) =>
                caller' = caller \/ \E b \in Servers : Serves(b, Nobody)
        BY DEF Answered, NotExecuted, GivenUp, bonus
      <3>2. \A call : Fails(c, call) => NotExecuted(c) \/ GivenUp(c)
        BY DEF Fails
      <3>3. \A u, t : AsksForPurchase(c, u, t) \/ AsksForRefund(c, u, t) =>
                \E b \in Servers : Serves(b, c)
        BY DEF AsksForPurchase, AsksForRefund
      <3> QED
        BY <1>4, <3>1, <3>2, <3>3
    <2> QED
      BY <1>1, <1>3, <2>1
  <1>5. ASSUME NEW w \in Workers, TicketPost(w) \/ TicketUpdate(w) \/ Handle(w)
        PROVE  caller' \in [Servers -> Workers \cup {Script, Nobody}]
    <2>1. CASE PurchaseRead(w) \/ RefundRead(w) \/ PurchaseCall(w) \/ RefundCall(w)
      BY <1>3, <1>4, <2>1 DEF PurchaseRead, RefundRead, PurchaseCall, RefundCall, bonus
    <2>2. CASE ~(PurchaseRead(w) \/ RefundRead(w) \/ PurchaseCall(w) \/ RefundCall(w))
      BY <1>3, <1>5, <2>2 DEF Handle, TicketPost, TicketUpdate, TicketDelete, OpenFile, CloseFile, Publish, bonus
    <2> QED
      BY <2>1, <2>2
  <1>6. ASSUME Consume
        PROVE  caller' \in [Servers -> Workers \cup {Script, Nobody}]
    <2>1. CASE RetryRefused \/ \E u \in Clients, t \in Tickets : RetryRead(u, t) \/ Retry(u, t)
      BY <1>3, <1>4, <2>1 DEF RetryRefused, RetryRead, Retry, bonus
    <2>2. CASE Deliver \/ RetryRaises \/ PublishAgain \/ Acknowledge \/ ConsumerStarts
      BY <1>3, <2>2 DEF Deliver, RetryRaises, PublishAgain, Acknowledge, ConsumerStarts, bonus
    <2> QED
      BY <1>6, <2>1, <2>2 DEF Consume
  <1>7. GatewayStops \/ ConsumerStops => \E C : Abandoned(C)
    BY DEF GatewayStops, ConsumerStops
  <1>8. \A b \in Servers : GoesOn(b) => caller' = caller
    BY DEF GoesOn
  <1> QED
    BY <1>2, <1>3, <1>5, <1>6, <1>7, <1>8 DEF Next

\* The next step of a handler.
LEMMA Moves ==
    ASSUME TypeOK, NEW w \in Workers, job[w].step # "idle", NEW step \in Steps, GoTo(w, step)
    PROVE  /\ job' \in [Workers -> Jobs \cup {NoJob}]
           /\ job'[w].step = step /\ job'[w].user = job[w].user /\ job'[w].ticket = job[w].ticket
           /\ \A v \in Workers : v # w => job'[v] = job[v]
  <1>1. job[w] \in Jobs /\ job \in [Workers -> Jobs \cup {NoJob}]
    BY JobKinds DEF TypeOK
  <1>2. job' = [job EXCEPT ![w] = [job[w] EXCEPT !.step = step]]
    BY DEF GoTo
  <1>3. /\ [job[w] EXCEPT !.step = step] \in Jobs
        /\ [job[w] EXCEPT !.step = step].step = step
        /\ [job[w] EXCEPT !.step = step].user = job[w].user
        /\ [job[w] EXCEPT !.step = step].ticket = job[w].ticket
    BY <1>1 DEF Jobs
  <1> QED
    BY <1>1, <1>2, <1>3

\* The end of a handler.
LEMMA Leaves ==
    ASSUME TypeOK, NEW w \in Workers, Leave(w)
    PROVE  /\ job' \in [Workers -> Jobs \cup {NoJob}] /\ job'[w] = NoJob
           /\ \A v \in Workers : v # w => job'[v] = job[v]
  BY DEF TypeOK, Leave

\* A return that was answered with 204.
LEMMA Accepts ==
    ASSUME TypeOK, NEW w \in Workers, job[w].step # "idle", Accept(w)
    PROVE  accepted' \subseteq Clients \X Tickets
  BY JobKinds DEF TypeOK, Accept

\* The message that the consumer has.
LEMMA BusyKinds ==
    ASSUME TypeOK, consumer.step \in {"call", "again", "ack"}
    PROVE  consumer \in Busy /\ consumer.message \in Messages
  BY DEF TypeOK, Busy, Ready, Down

LEMMA RowKinds ==
    ASSUME TypeOK, NEW u \in Clients, NEW t \in Tickets
    PROVE  /\ Created(u, t) \in [Tickets -> TicketRows \cup {Absent}]
           /\ RolledBack(u, t) \in [Tickets -> TicketRows \cup {Absent}]
           /\ Canceled(u, t) \in [Tickets -> TicketRows \cup {Absent}]
  <1>1. ticket \in [Tickets -> TicketRows \cup {Absent}]
    BY DEF TypeOK
  <1>2. Owns(u, t) => ticket[t] \in TicketRows
    BY TicketKinds DEF Owns
  <1>3. Created(u, t) \in [Tickets -> TicketRows \cup {Absent}]
    BY <1>1 DEF Created, Row, TicketRows
  <1>4. Owns(u, t) => /\ [ticket[t] EXCEPT !.status = "deleted"] \in TicketRows
                      /\ [ticket[t] EXCEPT !.status = "CANCELED"] \in TicketRows
    BY <1>2 DEF TicketRows
  <1>5. RolledBack(u, t) \in [Tickets -> TicketRows \cup {Absent}]
    BY <1>1, <1>4 DEF RolledBack
  <1>6. Canceled(u, t) \in [Tickets -> TicketRows \cup {Absent}]
    BY <1>1, <1>4 DEF Canceled
  <1> QED
    BY <1>3, <1>5, <1>6

LEMMA TypeInit == Init => TypeOK /\ Service!Inv
  <1> SUFFICES ASSUME Init PROVE TypeOK /\ Service!Inv
    OBVIOUS
  <1>1. Service!Inv
    BY Constants, Service!InvInit DEF Init
  <1>2. /\ balance \in [Users -> Int] /\ history \in [Users -> Seq(Service!Ledger!Rows)]
        /\ pending \in [Servers -> Service!Writes \cup {Service!NoWrite}]
    BY <1>1 DEF Service!Inv, Service!TypeOK
  <1>3. ticket \in [Tickets -> TicketRows \cup {Absent}]
    BY Constants DEF Init, Row, TicketRows
  <1>4. job \in [Workers -> Jobs \cup {NoJob}] /\ caller \in [Servers -> Workers \cup {Script, Nobody}]
    BY DEF Init
  <1>5. queue \in Seq(Messages) /\ consumer \in Busy \cup {Ready, Down} /\ file \in Messages \cup {Missing}
    BY DEF Init
  <1>6. confirmed \subseteq Tickets /\ accepted \subseteq Clients \X Tickets
    BY Constants DEF Init
  <1> QED
    BY <1>1, <1>2, <1>3, <1>4, <1>5, <1>6 DEF TypeOK

\* The steps of the handlers.
LEMMA TypeHandlers ==
    ASSUME TypeOK, FileOpened, BonusTyped', NEW w \in Workers, TicketPost(w) \/ TicketUpdate(w) \/ Handle(w)
    PROVE  TypeOK'
  <1>1. ASSUME TicketPost(w) PROVE TypeOK'
    <2>1. PICK u \in Clients, t \in Tickets :
            /\ ticket' = Created(u, t)
            /\ job' = job \/ job' = [job EXCEPT ![w] = [step |-> "purchase", user |-> u, ticket |-> t]]
      BY <1>1 DEF TicketPost
    <2>2. [step |-> "purchase", user |-> u, ticket |-> t] \in Jobs
      BY DEF Jobs, Steps
    <2>3. job' \in [Workers -> Jobs \cup {NoJob}]
      BY <2>1, <2>2 DEF TypeOK
    <2>4. ticket' \in [Tickets -> TicketRows \cup {Absent}]
      BY <2>1, RowKinds
    <2> QED
      BY <1>1, <2>3, <2>4 DEF TicketPost, TypeOK, BonusTyped
  <1>2. ASSUME PurchaseCall(w) PROVE TypeOK'
    <2>1. job[w].user \in Clients /\ job[w].ticket \in Tickets /\ job[w].step # "idle"
      BY <1>2, JobKinds DEF PurchaseCall
    <2>3. GoTo(w, "cancel") \/ Leave(w)
      BY <1>2 DEF PurchaseCall, AfterPurchase
    <2>4. job' \in [Workers -> Jobs \cup {NoJob}]
      BY <2>1, <2>3, Moves, Leaves DEF Steps
    <2>5. confirmed' \subseteq Tickets
      BY <1>2, <2>1 DEF PurchaseCall, TypeOK
    <2> QED
      BY <1>2, <2>4, <2>5 DEF PurchaseCall, TypeOK, BonusTyped
  <1>3. ASSUME TicketDelete(w) PROVE TypeOK'
    <2>1. job[w].user \in Clients /\ job[w].ticket \in Tickets
      BY <1>3, JobKinds DEF TicketDelete
    <2>2. ticket' \in [Tickets -> TicketRows \cup {Absent}]
      BY <1>3, <2>1, RowKinds DEF TicketDelete, TypeOK
    <2>3. job' \in [Workers -> Jobs \cup {NoJob}]
      BY <1>3, Leaves DEF TicketDelete
    <2> QED
      BY <1>3, <2>2, <2>3 DEF TicketDelete, TypeOK, BonusTyped
  <1>4. ASSUME TicketUpdate(w) PROVE TypeOK'
    <2>1. PICK u \in Clients, t \in Tickets :
            /\ ticket' = Canceled(u, t)
            /\ job' = job \/ job' = [job EXCEPT ![w] = [step |-> "refund", user |-> u, ticket |-> t]]
      BY <1>4 DEF TicketUpdate
    <2>2. [step |-> "refund", user |-> u, ticket |-> t] \in Jobs
      BY DEF Jobs, Steps
    <2>3. job' \in [Workers -> Jobs \cup {NoJob}]
      BY <2>1, <2>2 DEF TypeOK
    <2>4. ticket' \in [Tickets -> TicketRows \cup {Absent}]
      BY <2>1, RowKinds
    <2> QED
      BY <1>4, <2>3, <2>4 DEF TicketUpdate, TypeOK, BonusTyped
  <1>5. ASSUME RefundCall(w) PROVE TypeOK'
    <2>1. job[w].user \in Clients /\ job[w].ticket \in Tickets /\ job[w].step # "idle"
      BY <1>5, JobKinds DEF RefundCall
    <2>3. GoTo(w, "open") \/ Leave(w)
      BY <1>5 DEF RefundCall
    <2>4. job' \in [Workers -> Jobs \cup {NoJob}]
      BY <2>1, <2>3, Moves, Leaves DEF Steps
    <2>5. accepted' \subseteq Clients \X Tickets
      <3>1. accepted' = accepted \/ Accept(w)
        BY <1>5 DEF RefundCall
      <3> QED
        BY <2>1, <3>1, Accepts DEF TypeOK
    <2> QED
      BY <1>5, <2>4, <2>5 DEF RefundCall, TypeOK, BonusTyped
  <1>6. ASSUME OpenFile(w) PROVE TypeOK'
    <2>1. job' \in [Workers -> Jobs \cup {NoJob}]
      BY <1>6, Moves DEF OpenFile, Steps
    <2> QED
      BY <1>6, <2>1 DEF OpenFile, TypeOK, BonusTyped, Messages
  <1>7. ASSUME CloseFile(w) PROVE TypeOK'
    <2>1. job' \in [Workers -> Jobs \cup {NoJob}]
      BY <1>7, Moves DEF CloseFile, Steps
    <2>2. job[w].user \in Clients /\ job[w].ticket \in Tickets
      BY <1>7, JobKinds DEF CloseFile
    <2>4. file' \in Messages
      BY <1>7, <2>2 DEF CloseFile, Overwritten, Message, Mixture, Messages
    <2> QED
      BY <1>7, <2>1, <2>4 DEF CloseFile, TypeOK, BonusTyped
  <1>8. ASSUME Publish(w) PROVE TypeOK'
    <2>m. file \in Messages
      BY <1>8 DEF Publish, FileOpened, TypeOK
    <2>1. job' \in [Workers -> Jobs \cup {NoJob}] /\ accepted' \subseteq Clients \X Tickets
      BY <1>8, Leaves, Accepts DEF Publish
    <2>2. queue' \in Seq(Messages)
      BY <1>8, <2>m, HeldEnqueued DEF Publish, TypeOK
    <2> QED
      BY <1>8, <2>1, <2>2 DEF Publish, TypeOK, BonusTyped
  <1>9. ASSUME PurchaseRead(w) \/ RefundRead(w) PROVE TypeOK'
    BY <1>9 DEF PurchaseRead, RefundRead, TypeOK, BonusTyped
  <1> QED
    BY <1>1, <1>2, <1>3, <1>4, <1>5, <1>6, <1>7, <1>8, <1>9 DEF Handle

\* The steps of the consumer, and a stop of the gateway.
LEMMA TypeConsumer ==
    ASSUME TypeOK, BonusTyped', Consume \/ ConsumerStops \/ GatewayStops \/ \E b \in Servers : GoesOn(b)
    PROVE  TypeOK'
  <1>1. ASSUME GatewayStops PROVE TypeOK'
    BY <1>1 DEF GatewayStops, TypeOK, BonusTyped
  <1>2. ASSUME Deliver PROVE TypeOK'
    <2>1. Head(queue) \in Messages /\ queue' \in Seq(Messages)
      BY <1>2, HeldTail DEF Deliver, TypeOK
    <2>2. consumer' \in Busy
      BY <1>2, <2>1 DEF Deliver, Busy
    <2> QED
      BY <1>2, <2>1, <2>2 DEF Deliver, TypeOK, BonusTyped
  <1>3. ASSUME consumer.step \in {"call", "again", "ack"}, NEW step \in {"call", "again", "ack"}
        PROVE  [consumer EXCEPT !.step = step] \in Busy
    BY <1>3, BusyKinds DEF Busy
  <1>4. ASSUME NEW u \in Clients, NEW t \in Tickets, Retry(u, t) PROVE TypeOK'
    <2>2. consumer.step = "call"
      BY <1>4 DEF Retry, Calls
    <2>3. PICK step \in {"again", "ack"} : consumer' = [consumer EXCEPT !.step = step]
      BY <1>4 DEF Retry, NextStep
    <2>4. consumer' \in Busy
      BY <1>3, <2>2, <2>3
    <2> QED
      BY <1>4, <2>4 DEF Retry, TypeOK, BonusTyped
  <1>5. ASSUME RetryRefused PROVE TypeOK'
    <2>1. consumer' \in Busy
      BY <1>3, <1>5 DEF RetryRefused, NextStep
    <2> QED
      BY <1>5, <2>1 DEF RetryRefused, TypeOK, BonusTyped
  <1>6. ASSUME RetryRaises PROVE TypeOK'
    BY <1>6 DEF RetryRaises, TypeOK, BonusTyped
  <1>7. ASSUME PublishAgain PROVE TypeOK'
    <2>1. consumer' \in Busy /\ consumer.message \in Messages
      BY <1>3, <1>7, BusyKinds DEF PublishAgain
    <2>2. queue' \in Seq(Messages)
      BY <1>7, <2>1, HeldEnqueued DEF PublishAgain, TypeOK
    <2> QED
      BY <1>7, <2>1, <2>2 DEF PublishAgain, TypeOK, BonusTyped
  <1>8. ASSUME Acknowledge PROVE TypeOK'
    BY <1>8 DEF Acknowledge, TypeOK, BonusTyped
  <1>9. ASSUME ConsumerStops PROVE TypeOK'
    <2>1. consumer.message \in Messages
      BY <1>9, BusyKinds DEF ConsumerStops
    <2>2. queue' \in Seq(Messages)
      BY <1>9, <2>1, HeldAgain DEF ConsumerStops
    <2> QED
      BY <1>9, <2>2 DEF ConsumerStops, TypeOK, BonusTyped
  <1>10. ASSUME ConsumerStarts PROVE TypeOK'
    BY <1>10 DEF ConsumerStarts, TypeOK, BonusTyped
  <1>11. ASSUME NEW u \in Clients, NEW t \in Tickets, RetryRead(u, t) PROVE TypeOK'
    BY <1>11 DEF RetryRead, TypeOK, BonusTyped
  <1>12. ASSUME NEW b \in Servers, GoesOn(b) PROVE TypeOK'
    BY <1>12 DEF GoesOn, TypeOK, BonusTyped
  <1> QED
    BY <1>1, <1>2, <1>4, <1>5, <1>6, <1>7, <1>8, <1>9, <1>10, <1>11, <1>12 DEF Consume

LEMMA FileOpenedStep ==
    ASSUME TypeOK, FileOpened, Next, TypeOK'
    PROVE  FileOpened'
  <1> SUFFICES ASSUME NEW v \in Workers, job'[v].step \in {"close", "publish"}, file' = Missing
               PROVE  FALSE
    BY DEF FileOpened
  <1>0. Missing \notin Messages /\ job \in [Workers -> Jobs \cup {NoJob}]
    BY DEF Missing, Messages, Nothing, TypeOK
  <1>1. ASSUME NEW w \in Workers, TicketPost(w) \/ TicketUpdate(w) PROVE FALSE
    <2>1. PICK u \in Clients, t \in Tickets, step \in {"purchase", "refund"} :
             job' = job \/ job' = [job EXCEPT ![w] = [step |-> step, user |-> u, ticket |-> t]]
      BY <1>1 DEF TicketPost, TicketUpdate
    <2>2. job[v].step \in {"close", "publish"}
      BY <1>0, <2>1
    <2> QED
      BY <1>1, <2>2 DEF FileOpened, TicketPost, TicketUpdate
  <1>2. ASSUME NEW w \in Workers, PurchaseCall(w) \/ TicketDelete(w) \/ RefundCall(w) \/ Publish(w) PROVE FALSE
    <2>1. job[w].step # "idle" /\ (Leave(w) \/ \E step \in {"cancel", "open"} : GoTo(w, step))
      BY <1>2 DEF PurchaseCall, AfterPurchase, TicketDelete, RefundCall, Publish
    <2>2. job[v].step \in {"close", "publish"}
      BY <2>1, Moves, Leaves DEF Steps, NoJob
    <2> QED
      BY <1>2, <2>2 DEF FileOpened, PurchaseCall, TicketDelete, RefundCall, Publish
  <1>3. ASSUME NEW w \in Workers, OpenFile(w) PROVE FALSE
    BY <1>0, <1>3 DEF OpenFile, Messages
  <1>4. ASSUME NEW w \in Workers, CloseFile(w) PROVE FALSE
    BY <1>4 DEF CloseFile, Overwritten, Message, Mixture, Missing
  <1>5. ASSUME GatewayStops PROVE FALSE
    BY <1>5 DEF GatewayStops, NoJob
  <1>6. ASSUME Consume \/ ConsumerStops \/ \E b \in Servers : GoesOn(b) PROVE FALSE
    <2>1. UNCHANGED <<job, file>>
      BY <1>6 DEF Consume, ConsumerStops, Deliver, RetryRead, Retry, RetryRefused, RetryRaises,
                  PublishAgain, Acknowledge, ConsumerStarts, GoesOn
    <2> QED
      BY <2>1 DEF FileOpened
  <1>7. ASSUME NEW w \in Workers, PurchaseRead(w) \/ RefundRead(w) PROVE FALSE
    BY <1>7 DEF FileOpened, PurchaseRead, RefundRead
  <1> QED
    BY <1>1, <1>2, <1>3, <1>4, <1>5, <1>6, <1>7 DEF Next, Handle

\* What each step keeps by itself.
LEMMA BaseStep ==
    ASSUME Inv, [Next]_vars
    PROVE  Base'
  <1>1. Service!Inv'
    BY ServiceStep
  <1>2. CASE Next
    <2>1. BonusTyped'
      BY <1>1, <1>2, CallersTyped DEF Inv, Base, Service!Inv, Service!TypeOK, BonusTyped
    <2>2. TypeOK'
      BY <1>2, <2>1, TypeHandlers, TypeConsumer DEF Next, Inv, Base
    <2> QED
      BY <1>1, <1>2, <2>2, FileOpenedStep DEF Inv, Base
  <1>3. CASE UNCHANGED vars
    BY <1>1, <1>3 DEF vars, bonus, Inv, Base, TypeOK, FileOpened
  <1> QED
    BY <1>2, <1>3

-----------------------------------------------------------------------------
(* The inductive invariant.                                                *)

LEMMA InvInit == Init => Inv
  <1> SUFFICES ASSUME Init PROVE Inv
    OBVIOUS
  <1>1. Base
    BY TypeInit DEF Init, Base, FileOpened, NoJob
  <1>2. \A w \in Workers : job[w].step = "idle"
    BY DEF Init, NoJob
  <1>3. \A u \in Users, t \in Tickets : Booked(u, t) = IF t = Seed THEN {1} ELSE {}
    BY DEF Init, Service!Init, Service!Ledger!Init, Booked, Service!Ledger!RowsOf, Service!Ledger!Row
  <1>4. /\ ticket[Seed] = Row("PAID", SeedUser) /\ Row("PAID", SeedUser) \in TicketRows
        /\ ticket[Seed] # Absent /\ confirmed = {Seed}
    BY Constants DEF Init, Row, TicketRows, Absent
  <1>5. \A b \in Servers : Service!Idle(b) /\ caller[b] = Nobody
    BY DEF Init, Service!Init, Service!Idle
  <1>6. \A u \in Users, t \in Tickets : /\ Involved(u, t) => t = Seed
                                        /\ ~Refunding(u, t)
    BY <1>3, <1>5 DEF Involved, Refunding, Refunded, Books, Names
  <1>7. Buyers /\ Fresh
    BY <1>2, <1>4, <1>6 DEF Buyers, Buying, Fresh
  <1>8. Callers
    BY <1>5, Constants DEF Callers
  <1>9. Owners
    BY <1>4, <1>6 DEF Owners, Opened, Row
  <1>10. ReturnsCancel
    <2>1. \A u \in Clients, t \in Tickets : ~Returning(u, t)
      <3> SUFFICES ASSUME NEW u \in Clients, NEW t \in Tickets, Returning(u, t) PROVE FALSE
        OBVIOUS
      <3>1. file # Message(u, t)
        BY MessageKinds DEF Init
      <3>2. ~Held(queue, Message(u, t)) /\ consumer.step = "idle"
        BY DEF Init, Held, Ready
      <3> QED
        BY <1>2, <3>1, <3>2 DEF Returning, Handled
    <2> QED
      BY <2>1 DEF ReturnsCancel
  <1>11. RefundsCancel
    BY <1>6 DEF RefundsCancel
  <1>12. ConfirmedIsBooked
    <2>1. <<SeedUser, 1>> \in RowsNaming(Seed)
      BY <1>3, Constants DEF RowsNaming
    <2> QED
      BY <1>4, <2>1 DEF ConfirmedIsBooked, Row
  <1> QED
    BY <1>1, <1>7, <1>8, <1>9, <1>10, <1>11, <1>12 DEF Inv

-----------------------------------------------------------------------------
(* Steps that change no ticket, begin no purchase and no return, and read  *)
(* nothing for a booking.                                                  *)

\* No handler begins to buy.
BuysNoMore ==
    \A w \in Workers :
        /\ Buying(w)' => /\ Buying(w)
                         /\ job'[w].user = job[w].user /\ job'[w].ticket = job[w].ticket
        /\ job'[w].step = "purchase" => job[w].step = "purchase"

\* No return begins.
ReturnsNoMore == \A u \in Clients, t \in Tickets : Returning(u, t)' => Returning(u, t)

\* What is confirmed exists and is booked, and its handler is done.
ConfirmsBooked ==
    /\ confirmed \subseteq confirmed'
    /\ \A t \in confirmed' \ confirmed :
          /\ t \in Tickets /\ ticket[t].status \in {"PAID", "CANCELED"}
          /\ ~Unbooked(t)'
          /\ \A w \in Workers : Buying(w)' => job'[w].ticket # t

\* A ticket has a booking iff some account has a row of it.
LEMMA NamedRows ==
    ASSUME NEW t
    PROVE  (RowsNaming(t) = {} <=> Unbooked(t)) /\ (RowsNaming(t)' = {} <=> Unbooked(t)')
  <1>1. \A S : UNION {{u} \X S[u] : u \in Users} = {} <=> \A u \in Users : S[u] = {}
    <2> SUFFICES ASSUME NEW S
                 PROVE  UNION {{u} \X S[u] : u \in Users} = {} <=> \A u \in Users : S[u] = {}
      OBVIOUS
    <2>1. ASSUME NEW u \in Users, NEW i \in S[u] PROVE <<u, i>> \in UNION {{v} \X S[v] : v \in Users}
      OBVIOUS
    <2>2. ASSUME NEW p \in UNION {{u} \X S[u] : u \in Users} PROVE \E u \in Users : S[u] # {}
      OBVIOUS
    <2> QED
      BY <2>1, <2>2
  <1> DEFINE S == [u \in Users |-> Booked(u, t)]
             T == [u \in Users |-> Booked(u, t)']
  <1>2. /\ RowsNaming(t) = UNION {{u} \X S[u] : u \in Users}
        /\ Unbooked(t) <=> \A u \in Users : S[u] = {}
    BY DEF RowsNaming, Unbooked
  <1>3. /\ RowsNaming(t)' = UNION {{u} \X T[u] : u \in Users}
        /\ Unbooked(t)' <=> \A u \in Users : T[u] = {}
    BY DEF RowsNaming, Unbooked
  <1> HIDE DEF S, T
  <1> QED
    BY <1>1, <1>2, <1>3

\* Rows that are there stay.
LEMMA StaysBooked ==
    ASSUME Inv, Progress, NEW t \in Tickets, ~Unbooked(t)
    PROVE  ~Unbooked(t)'
  BY ProgressKeeps DEF Inv, Unbooked

\* While a handler waits for its purchase, nobody else books its ticket.
LEMMA PurchaseStaysFresh ==
    ASSUME Inv, Progress, NoNewCalls, BuysNoMore,
           NEW w \in Workers, job'[w].step = "purchase", NEW t, t = job'[w].ticket
    PROVE  /\ Unbooked(t)'
           /\ \A b \in Servers : Names(b, t)' => caller'[b] = w
  <1>1. job[w].step = "purchase" /\ job[w].ticket = t /\ t \in Tickets
    BY JobKinds DEF BuysNoMore, Buying, Inv, Base
  <1>2. Unbooked(t) /\ \A b \in Servers : Names(b, t) => caller[b] = w
    BY <1>1 DEF Inv, Fresh
  <1>3. \A b \in Servers : \/ pending'[b] = pending[b]
                           \/ pending'[b] = Service!NoWrite /\ ~Service!Idle(b)
    BY ProgressKeeps DEF Inv
  <1>4. ASSUME NEW b \in Servers, Names(b, t)' PROVE caller'[b] = w
    <2>1. Names(b, t)
      BY <1>3, <1>4 DEF Names, Service!Idle
    <2> QED
      BY <1>2, <2>1 DEF NoNewCalls
  <1>5. ASSUME NEW u \in Users, Booked(u, t)' # {} PROVE FALSE
    <2>0. Involved(u, t)' /\ Booked(u, t) = {}
      BY <1>2, <1>5 DEF Involved, Unbooked
    <2>1. Involved(u, t)
      BY <1>1, <2>0, ProgressKeeps DEF Inv
    <2>2. PICK b \in Servers : Books(b, u, t)
      BY <2>0, <2>1 DEF Involved
    <2>3. caller[b] = w
      BY <1>2, <2>2 DEF Books
    <2>4. CASE pending'[b] = pending[b]
      <3>1. Refunding(u, t)'
        BY <1>5, <2>2, <2>4 DEF Refunding, Books, Names, Service!Idle
      <3>2. Refunding(u, t)
        BY <1>1, <3>1, ProgressKeeps DEF Inv
      <3> QED
        BY <2>0, <3>2 DEF Refunding, Refunded
    <2>5. CASE pending'[b] # pending[b]
      <3>0. Nobody # w
        BY Constants
      <3>1. caller'[b] = Nobody
        BY <2>5 DEF NoNewCalls
      <3> QED
        BY <2>3, <3>0, <3>1 DEF NoNewCalls
    <2> QED
      BY <2>4, <2>5
  <1>6. Unbooked(t)'
    BY <1>5 DEF Unbooked
  <1> QED
    BY <1>4, <1>6

LEMMA QuietStep ==
    ASSUME Inv, Base', Progress, NoNewCalls, UNCHANGED ticket, BuysNoMore, ReturnsNoMore, ConfirmsBooked
    PROVE  Inv'
  <1>1. Buyers'
    BY DEF Inv, Buyers, BuysNoMore, Buying, ConfirmsBooked
  <1>2. Callers'
    BY CallersKept
  <1>3. Fresh'
    <2>1. ASSUME NEW t \in Tickets, ticket[t] = Absent
          PROVE  t \notin confirmed' /\ \A u \in Users : ~Involved(u, t)'
      <3>1. t \notin confirmed'
        BY <2>1 DEF Inv, Fresh, ConfirmsBooked, Absent
      <3> QED
        BY <2>1, <3>1, ProgressKeeps DEF Inv, Fresh
    <2>2. ASSUME NEW w \in Workers, job'[w].step = "purchase"
          PROVE  /\ \A u \in Users : Booked(u, job[w].ticket)' = {}
                 /\ \A b \in Servers : Names(b, job[w].ticket)' => caller'[b] = w
      <3>1. PICK t : t = job'[w].ticket
        OBVIOUS
      <3>2. Unbooked(t)' /\ \A b \in Servers : Names(b, t)' => caller'[b] = w
        BY <2>2, <3>1, PurchaseStaysFresh
      <3> QED
        BY <3>1, <3>2 DEF Unbooked, Booked, Names, Service!Idle
    <2> QED
      BY <2>1, <2>2 DEF Fresh, Unbooked
  <1>4. Owners'
    BY ProgressKeeps DEF Inv, Owners, Opened
  <1>5. RefundsCancel'
    BY ProgressKeeps DEF Inv, RefundsCancel, Opened, Misread
  <1>6. ReturnsCancel'
    BY DEF Inv, ReturnsCancel, ReturnsNoMore, Useless
  <1>7. ConfirmedIsBooked'
    <2> SUFFICES ASSUME NEW t \in confirmed'
                 PROVE  ticket[t].status \in {"PAID", "CANCELED"} /\ RowsNaming(t)' # {}
      BY DEF ConfirmedIsBooked
    <2>1. CASE t \in confirmed
      <3>1. t \in Tickets /\ ticket[t].status \in {"PAID", "CANCELED"} /\ ~Unbooked(t)
        BY <2>1, NamedRows DEF Inv, Base, TypeOK, ConfirmedIsBooked
      <3> QED
        BY <3>1, StaysBooked, NamedRows
    <2>2. CASE t \notin confirmed
      BY <2>2, NamedRows DEF ConfirmsBooked
    <2> QED
      BY <2>1, <2>2
  <1> QED
    BY <1>1, <1>2, <1>3, <1>4, <1>5, <1>6, <1>7 DEF Inv

-----------------------------------------------------------------------------
(* Steps that change tickets.                                              *)

\* The service does nothing.
LEMMA SameService ==
    ASSUME UNCHANGED bonus
    PROVE  /\ \A t : \A b \in Servers : Names(b, t)' <=> Names(b, t)
           /\ \A u, t : /\ Booked(u, t)' = Booked(u, t)
                        /\ Involved(u, t)' <=> Involved(u, t)
                        /\ Refunding(u, t)' <=> Refunding(u, t)
  <1>1. history' = history /\ pending' = pending
    BY DEF bonus
  <1>2. /\ \A t : \A b \in Servers : Names(b, t)' <=> Names(b, t)
        /\ \A u, t : \A b \in Servers : Books(b, u, t)' <=> Books(b, u, t)
    BY <1>1 DEF Books, Names, Service!Idle
  <1>3. \A u, t : Booked(u, t)' = Booked(u, t)
    BY <1>1 DEF Booked
  <1> QED
    BY <1>2, <1>3 DEF Involved, Refunding, Refunded

\* No ticket gets another user, or becomes PAID again; the confirmed ones stay.
TicketsAge ==
    \A t \in Tickets : ticket[t] \in TicketRows =>
        /\ ticket'[t] \in TicketRows /\ ticket'[t].user = ticket[t].user
        /\ ticket'[t].status = "PAID" => ticket[t].status = "PAID"
        /\ ticket'[t].status = "deleted" => ticket[t].status = "deleted" \/ t \notin confirmed

LEMMA TicketStep ==
    ASSUME Inv, Base', Buyers', Fresh', NoNewCalls, UNCHANGED <<bonus, confirmed>>, TicketsAge,
           \A u \in Clients, t \in Tickets : Returning(u, t)' => Returning(u, t) \/ Useless(u, t)'
    PROVE  Inv'
  <1>0. \A u, t : /\ Booked(u, t)' = Booked(u, t)
                  /\ Involved(u, t)' <=> Involved(u, t)
                  /\ Refunding(u, t)' <=> Refunding(u, t)
    BY SameService
  <1>1. Owners'
    BY <1>0 DEF Inv, Owners, TicketsAge, Opened
  <1>2. RefundsCancel'
    <2> SUFFICES ASSUME NEW u \in Users, NEW t \in Tickets \ Misread, Refunding(u, t), ~Opened(u, t)
                 PROVE  ticket'[t].status # "PAID"
      BY <1>0 DEF RefundsCancel, Opened, Misread
    <2>1. Involved(u, t)
      BY DEF Refunding, Refunded, Involved
    <2>2. ticket[t] \in TicketRows /\ ticket[t].status # "PAID"
      BY <2>1 DEF Inv, Owners, RefundsCancel
    <2> QED
      BY <2>2 DEF TicketsAge
  <1>3. ReturnsCancel'
    BY DEF Inv, ReturnsCancel, Useless, TicketsAge
  <1>4. ConfirmedIsBooked'
    <2> SUFFICES ASSUME NEW t \in confirmed
                 PROVE  ticket'[t].status \in {"PAID", "CANCELED"} /\ RowsNaming(t)' # {}
      BY DEF ConfirmedIsBooked
    <2>1. t \in Tickets /\ ticket[t].status \in {"PAID", "CANCELED"} /\ RowsNaming(t) # {}
      BY DEF Inv, Base, TypeOK, ConfirmedIsBooked
    <2>2. ticket[t] \in TicketRows
      BY <2>1, TicketKinds DEF Inv, Base
    <2>3. ticket'[t].status \in {"PAID", "CANCELED"}
      BY <2>1, <2>2 DEF TicketsAge, TicketRows
    <2>4. ~Unbooked(t)'
      BY <1>0, <2>1, NamedRows DEF Unbooked
    <2> QED
      BY <2>3, <2>4, NamedRows
  <1>5. Callers'
    BY CallersKept
  <1> QED
    BY <1>1, <1>2, <1>3, <1>4, <1>5 DEF Inv

\* A ticket with a job that buys, or with a row, exists.
LEMMA BoughtExist ==
    ASSUME Inv, NEW w \in Workers, Buying(w)
    PROVE  /\ job[w] \in Jobs /\ job[w].ticket \in Tickets /\ job[w].user \in Clients
           /\ ticket[job[w].ticket] \in TicketRows /\ ticket[job[w].ticket] # Absent
  <1>1. job[w] \in Jobs /\ job[w].ticket \in Tickets /\ job[w].user \in Clients
    BY JobKinds DEF Inv, Base, Buying
  <1>2. ticket[job[w].ticket] \in TicketRows
    BY DEF Inv, Buyers
  <1> QED
    BY <1>1, <1>2, TicketKinds DEF Inv, Base

\* Fresh of the tickets after a step of which the service has no part.
LEMMA FreshBefore ==
    ASSUME UNCHANGED <<bonus, confirmed>>,
           \A v \in Workers : job'[v].step = "purchase" =>
              /\ \A y \in Users : Booked(y, job'[v].ticket) = {}
              /\ \A b \in Servers : Names(b, job'[v].ticket) => caller[b] = v,
           \A x \in Tickets : ticket'[x] = Absent => x \notin confirmed /\ \A y \in Users : ~Involved(y, x)
    PROVE  Fresh'
  <1>1. history' = history /\ pending' = pending /\ caller' = caller
    BY DEF bonus
  <1>2. \A x \in Tickets : ticket'[x] = Absent => x \notin confirmed' /\ \A y \in Users : ~Involved(y, x)'
    BY SameService
  <1>3. ASSUME NEW v \in Workers, job'[v].step = "purchase"
        PROVE  /\ Unbooked(job[v].ticket)'
               /\ \A b \in Servers : Names(b, job[v].ticket)' => caller'[b] = v
    BY <1>1, <1>3 DEF Unbooked, Booked, Names, Service!Idle
  <1> QED
    BY <1>2, <1>3 DEF Fresh

LEMMA FreshStays ==
    ASSUME Inv, UNCHANGED <<bonus, confirmed>>,
           \A v \in Workers : job'[v].step = "purchase" => job'[v] = job[v],
           \A x \in Tickets : ticket'[x] = Absent => ticket[x] = Absent
    PROVE  Fresh'
  BY FreshBefore DEF Inv, Fresh, Unbooked

LEMMA TicketPostStep ==
    ASSUME Inv, Base', NEW w \in Workers, TicketPost(w)
    PROVE  Inv'
  <1>1. PICK u \in Clients, t \in Tickets :
          /\ ticket[t] = Absent
          /\ ticket' = Created(u, t)
          /\ job' = job \/ job' = [job EXCEPT ![w] = [step |-> "purchase", user |-> u, ticket |-> t]]
    BY DEF TicketPost
  <1>2. ticket \in [Tickets -> TicketRows \cup {Absent}] /\ job \in [Workers -> Jobs \cup {NoJob}]
    BY DEF Inv, Base, TypeOK
  <1>3. /\ ticket'[t] = Row("PAID", u) /\ Row("PAID", u) \in TicketRows
        /\ \A x \in Tickets : x # t => ticket'[x] = ticket[x]
    BY <1>1, <1>2 DEF Created, Row, TicketRows
  <1>4. ticket[t] \notin TicketRows /\ ticket'[t] # Absent
    BY <1>1, <1>3, TicketKinds DEF Inv, Base, Row, Absent
  <1>5. t \notin confirmed /\ \A y \in Users : ~Involved(y, t)
    BY <1>1 DEF Inv, Fresh
  <1>6. \A v \in Workers : Buying(v) => job[v].ticket # t /\ job[v].ticket \in Tickets
    BY <1>1, BoughtExist
  <1>7. \A v \in Workers : \/ job'[v] = job[v]
                           \/ v = w /\ job'[v] = [step |-> "purchase", user |-> u, ticket |-> t]
    BY <1>1, <1>2
  <1>8. UNCHANGED <<bonus, file, queue, consumer, confirmed>>
    BY DEF TicketPost
  <1>9. Buyers'
    <2>1. ASSUME NEW v \in Workers, Buying(v)'
          PROVE  /\ ticket'[job'[v].ticket] \in TicketRows
                 /\ ticket'[job'[v].ticket].status # "deleted"
                 /\ ticket'[job'[v].ticket].user = job'[v].user
                 /\ job'[v].ticket \notin confirmed
      <3>1. CASE job'[v] = job[v]
        <4>1. Buying(v)
          BY <2>1, <3>1 DEF Buying
        <4> QED
          BY <1>3, <1>6, <3>1, <4>1 DEF Inv, Buyers
      <3>2. CASE job'[v] = [step |-> "purchase", user |-> u, ticket |-> t]
        BY <1>3, <1>5, <3>2 DEF Row
      <3> QED
        BY <1>7, <3>1, <3>2
    <2>2. ASSUME NEW v1 \in Workers, NEW v2 \in Workers, Buying(v1)', Buying(v2)',
                 job'[v1].ticket = job'[v2].ticket, v1 # v2
          PROVE  FALSE
      <3>1. CASE job'[v1] = job[v1] /\ job'[v2] = job[v2]
        BY <2>2, <3>1 DEF Inv, Buyers, Buying
      <3>2. CASE v1 = w /\ job'[v1].ticket = t /\ job'[v2] = job[v2]
        BY <1>6, <2>2, <3>2 DEF Buying
      <3>3. CASE v2 = w /\ job'[v2].ticket = t /\ job'[v1] = job[v1]
        BY <1>6, <2>2, <3>3 DEF Buying
      <3> QED
        BY <1>7, <2>2, <3>1, <3>2, <3>3
    <2> QED
      BY <1>8, <2>1, <2>2 DEF Buyers
  <1>10. Fresh'
    <2>1. ASSUME NEW v \in Workers, job'[v].step = "purchase"
          PROVE  /\ \A y \in Users : Booked(y, job'[v].ticket) = {}
                 /\ \A b \in Servers : Names(b, job'[v].ticket) => caller[b] = v
      <3>1. CASE job'[v] = job[v]
        BY <2>1, <3>1 DEF Inv, Fresh, Unbooked
      <3>2. CASE job'[v] = [step |-> "purchase", user |-> u, ticket |-> t]
        <4>1. job'[v].ticket = t
          BY <3>2
        <4>2. \A b \in Servers : ~Names(b, t)
          <5> SUFFICES ASSUME NEW b \in Servers, Names(b, t) PROVE FALSE
            OBVIOUS
          <5>1. pending[b].user \in Users
            BY PendingKinds DEF Inv, Names
          <5> QED
            BY <1>5, <5>1 DEF Involved, Books
        <4> QED
          BY <1>5, <4>1, <4>2 DEF Involved
      <3> QED
        BY <1>7, <3>1, <3>2
    <2>2. \A x \in Tickets : ticket'[x] = Absent => x \notin confirmed /\ \A y \in Users : ~Involved(y, x)
      BY <1>3, <1>4 DEF Inv, Fresh
    <2> QED
      BY <1>8, <2>1, <2>2, FreshBefore
  <1>11. TicketsAge
    BY <1>3, <1>4 DEF TicketsAge
  <1>12. \A y \in Clients, x \in Tickets : Returning(y, x)' => Returning(y, x)
    BY <1>7, <1>8 DEF Returning, Handled
  <1>13. NoNewCalls
    <2>1. job[w].step = "idle" /\ \A v \in Workers : v # w => job'[v] = job[v]
      BY <1>7 DEF TicketPost, NoJob
    <2> QED
      BY <1>8, <2>1, UncalledSteps DEF Inv
  <1> QED
    BY <1>8, <1>9, <1>10, <1>11, <1>12, <1>13, TicketStep

\* What RolledBack and Canceled leave of the tickets.
LEMMA TicketChanges ==
    ASSUME TypeOK, NEW u \in Clients, NEW t \in Tickets, NEW status \in {"CANCELED", "deleted"},
           ticket' = IF Owns(u, t) THEN [ticket EXCEPT ![t].status = status] ELSE ticket
    PROVE  /\ \A x \in Tickets : x # t => ticket'[x] = ticket[x]
           /\ ticket[t] \in TicketRows => ticket'[t] \in TicketRows /\ ticket'[t].user = ticket[t].user
           /\ ticket[t] = Absent => ticket'[t] = Absent
           /\ Owns(u, t) => ticket'[t].status = status
           /\ ~Owns(u, t) => ticket'[t] = ticket[t]
  <1>1. ticket \in [Tickets -> TicketRows \cup {Absent}]
    BY DEF TypeOK
  <1>2. CASE ~Owns(u, t)
    BY <1>2
  <1>3. CASE Owns(u, t)
    <2>1. ticket[t] \in TicketRows
      BY <1>3, TicketKinds DEF Owns
    <2>2. ticket' = [ticket EXCEPT ![t] = [ticket[t] EXCEPT !.status = status]]
      BY <1>3
    <2>3. /\ [ticket[t] EXCEPT !.status = status] \in TicketRows
          /\ [ticket[t] EXCEPT !.status = status].user = ticket[t].user
          /\ [ticket[t] EXCEPT !.status = status].status = status
      BY <2>1 DEF TicketRows
    <2>4. ticket[t] # Absent
      BY <2>1, TicketKinds
    <2> QED
      BY <1>1, <1>3, <2>2, <2>3, <2>4
  <1> QED
    BY <1>2, <1>3

LEMMA TicketDeleteStep ==
    ASSUME Inv, Base', NEW w \in Workers, TicketDelete(w)
    PROVE  Inv'
  <1> DEFINE u == job[w].user
             t == job[w].ticket
  <1>1. Buying(w)
    BY DEF TicketDelete, Buying
  <1>2. /\ u \in Clients /\ t \in Tickets /\ ticket[t] \in TicketRows /\ ticket[t] # Absent
        /\ t \notin confirmed
    BY <1>1, BoughtExist DEF Inv, Buyers
  <1>3. /\ ticket' = ticket \/ ticket' = IF Owns(u, t) THEN [ticket EXCEPT ![t].status = "deleted"] ELSE ticket
        /\ UNCHANGED <<bonus, file, queue, consumer, confirmed>>
    BY DEF TicketDelete, RolledBack
  <1>4. /\ \A x \in Tickets : x # t => ticket'[x] = ticket[x]
        /\ ticket'[t] \in TicketRows /\ ticket'[t].user = ticket[t].user
        /\ ticket'[t] = ticket[t] \/ ticket'[t].status = "deleted"
    <2>1. CASE ticket' = ticket
      BY <1>2, <2>1
    <2>2. CASE ticket' = IF Owns(u, t) THEN [ticket EXCEPT ![t].status = "deleted"] ELSE ticket
      <3> HIDE DEF u, t
      <3> QED
        BY <1>2, <2>2, TicketChanges DEF Inv, Base
    <2> QED
      BY <1>3, <2>1, <2>2
  <1>5. ticket'[t] # Absent
    BY <1>4 DEF TicketRows, Absent
  <1>6. job'[w] = NoJob /\ \A v \in Workers : v # w => job'[v] = job[v]
    BY Leaves DEF TicketDelete, Inv, Base
  <1>7. \A v \in Workers : Buying(v)' => /\ v # w /\ Buying(v) /\ job'[v] = job[v]
                                         /\ job[v].ticket # t /\ job[v].ticket \in Tickets
    BY <1>1, <1>6, BoughtExist DEF Inv, Buyers, Buying, NoJob
  <1>8. Buyers'
    <2>1. ASSUME NEW v \in Workers, Buying(v)'
          PROVE  /\ ticket'[job'[v].ticket] \in TicketRows
                 /\ ticket'[job'[v].ticket].status # "deleted"
                 /\ ticket'[job'[v].ticket].user = job'[v].user
                 /\ job'[v].ticket \notin confirmed
      BY <1>4, <1>7, <2>1 DEF Inv, Buyers
    <2>2. \A v1, v2 \in Workers : Buying(v1)' /\ Buying(v2)' /\ job'[v1].ticket = job'[v2].ticket => v1 = v2
      BY <1>7 DEF Inv, Buyers
    <2> QED
      BY <1>3, <2>1, <2>2 DEF Buyers
  <1>9. Fresh'
    <2>1. \A v \in Workers : job'[v].step = "purchase" => job'[v] = job[v]
      BY <1>7 DEF Buying
    <2>2. \A x \in Tickets : ticket'[x] = Absent => ticket[x] = Absent
      BY <1>4, <1>5
    <2> QED
      BY <1>3, <2>1, <2>2, FreshStays
  <1>10. TicketsAge
    BY <1>2, <1>4 DEF TicketsAge
  <1>11. \A y \in Clients, x \in Tickets : Returning(y, x)' => Returning(y, x)
    BY <1>3, <1>6 DEF Returning, Handled, NoJob
  <1>12. NoNewCalls
    BY <1>3, <1>6, UncalledSteps DEF Inv, TicketDelete
  <1> QED
    BY <1>3, <1>8, <1>9, <1>10, <1>11, <1>12, TicketStep

LEMMA TicketUpdateStep ==
    ASSUME Inv, Base', NEW w \in Workers, TicketUpdate(w)
    PROVE  Inv'
  <1>1. PICK u \in Clients, t \in Tickets :
          /\ ticket[t] # Absent
          /\ ticket' = Canceled(u, t)
          /\ job' = job \/ job' = [job EXCEPT ![w] = [step |-> "refund", user |-> u, ticket |-> t]]
    BY DEF TicketUpdate
  <1>2. ticket[t] \in TicketRows /\ job \in [Workers -> Jobs \cup {NoJob}]
    BY <1>1, TicketKinds DEF Inv, Base, TypeOK
  <1>3. /\ \A x \in Tickets : x # t => ticket'[x] = ticket[x]
        /\ ticket'[t] \in TicketRows /\ ticket'[t].user = ticket[t].user
        /\ Owns(u, t) => ticket'[t].status = "CANCELED"
        /\ ~Owns(u, t) => ticket'[t] = ticket[t]
    <2>1. ticket' = IF Owns(u, t) THEN [ticket EXCEPT ![t].status = "CANCELED"] ELSE ticket
      BY <1>1 DEF Canceled
    <2> QED
      BY <1>2, <2>1, TicketChanges DEF Inv, Base
  <1>4. ticket'[t] # Absent
    BY <1>3 DEF TicketRows, Absent
  <1>5. \A v \in Workers : job'[v] = job[v] \/ job'[v] = [step |-> "refund", user |-> u, ticket |-> t]
    BY <1>1, <1>2
  <1>6. UNCHANGED <<bonus, file, queue, consumer, confirmed>>
    BY DEF TicketUpdate
  <1>7. \A v \in Workers : Buying(v)' => Buying(v) /\ job'[v] = job[v] /\ job[v].ticket \in Tickets
    BY <1>5, BoughtExist DEF Buying
  <1>8. Buyers'
    <2>1. ASSUME NEW v \in Workers, Buying(v)'
          PROVE  /\ ticket'[job'[v].ticket] \in TicketRows
                 /\ ticket'[job'[v].ticket].status # "deleted"
                 /\ ticket'[job'[v].ticket].user = job'[v].user
                 /\ job'[v].ticket \notin confirmed
      BY <1>3, <1>7, <2>1 DEF Inv, Buyers
    <2>2. \A v1, v2 \in Workers : Buying(v1)' /\ Buying(v2)' /\ job'[v1].ticket = job'[v2].ticket => v1 = v2
      BY <1>7 DEF Inv, Buyers
    <2> QED
      BY <1>6, <2>1, <2>2 DEF Buyers
  <1>9. Fresh'
    <2>1. \A v \in Workers : job'[v].step = "purchase" => job'[v] = job[v]
      BY <1>7 DEF Buying
    <2>2. \A x \in Tickets : ticket'[x] = Absent => ticket[x] = Absent
      BY <1>3, <1>4
    <2> QED
      BY <1>6, <2>1, <2>2, FreshStays
  <1>10. TicketsAge
    <2>1. Owns(u, t) => ticket[t].status # "deleted"
      BY DEF Owns
    <2> QED
      BY <1>3, <2>1 DEF TicketsAge
  <1>11. Useless(u, t)'
    <2>1. ~Owns(u, t) => ~(ticket[t].user = u /\ ticket[t].status = "PAID")
      BY DEF Owns
    <2> QED
      BY <1>3, <2>1 DEF Useless
  <1>12. \A y \in Clients, x \in Tickets : Returning(y, x)' => Returning(y, x) \/ Useless(y, x)'
    <2> SUFFICES ASSUME NEW y \in Clients, NEW x \in Tickets, Returning(y, x)', ~(y = u /\ x = t)
                 PROVE  Returning(y, x)
      BY <1>11
    <2> QED
      BY <1>5, <1>6 DEF Returning, Handled
  <1>13. NoNewCalls
    <2>1. job[w].step = "idle" /\ \A v \in Workers : v # w => job'[v] = job[v]
      BY <1>1, <1>2 DEF TicketUpdate, NoJob
    <2> QED
      BY <1>6, <2>1, UncalledSteps DEF Inv
  <1> QED
    BY <1>6, <1>8, <1>9, <1>10, <1>12, <1>13, TicketStep

-----------------------------------------------------------------------------
(* Steps that read for a booking.                                          *)

\* A thread reads for the purchase of a handler, or for a return that is no use to its user.
Asked(b, c, u, t) ==
    \/ /\ Service!ReadForPurchase(b, u, t)
       /\ c \in Workers /\ job[c].step = "purchase" /\ job[c].user = u /\ job[c].ticket = t
    \/ /\ Service!ReadForReturn(b, u, t)
       /\ c \in Workers => job[c].step = "refund"
       /\ Useless(u, t) \/ t \in Misread

LEMMA ReadStep ==
    ASSUME Inv, Base', UNCHANGED <<ticket, job, file, queue, consumer, confirmed>>,
           NEW b \in Servers, NEW c \in Workers \cup {Script}, NEW u \in Users, NEW t \in Tickets,
           Unserved(c), Serves(b, c), Asked(b, c, u, t)
    PROVE  Inv'
  <1>1. Service!ReadForPurchase(b, u, t) \/ Service!ReadForReturn(b, u, t)
    BY DEF Asked
  <1>2. /\ \A d \in Servers : d # b => pending'[d] = pending[d]
        /\ Books(b, u, t)' /\ \A v, x : Books(b, v, x)' => v = u /\ x = t
        /\ Service!ReadForReturn(b, u, t) => Booked(u, t) # {}
    BY <1>1, ReadEffect DEF Inv
  <1>3. \A v \in Users, x \in Tickets :
            /\ Booked(v, x)' = Booked(v, x)
            /\ Involved(v, x)' => Involved(v, x) \/ (v = u /\ x = t)
            /\ Refunding(v, x)' => Refunding(v, x) \/ (v = u /\ x = t /\ Booked(u, t) # {})
    BY <1>1, ReadInvolves DEF Inv
  <1>4. caller'[b] = c /\ \A d \in Servers : d # b => caller'[d] = caller[d]
    BY DEF Serves, Inv, Base, TypeOK
  <1>5. \A x : Names(b, x)' => x = t
    BY <1>2 DEF Books
  <1>6. \A d \in Servers : \A x : d # b => (Names(d, x)' <=> Names(d, x))
    BY <1>2 DEF Names, Service!Idle
  \* The row is the account's first of a ticket that its user buys, or it follows another.
  <1>7. /\ ticket[t] # Absent
        /\ ~Opened(u, t) => ticket[t] \in TicketRows /\ ticket[t].user = u
        /\ Booked(u, t) # {} => Useless(u, t) \/ t \in Misread
    <2>1. CASE Service!ReadForReturn(b, u, t) /\ (Useless(u, t) \/ t \in Misread)
      <3>1. Involved(u, t)
        BY <1>2, <2>1 DEF Involved
      <3> QED
        BY <2>1, <3>1 DEF Inv, Owners, Fresh
    <2>2. CASE c \in Workers /\ job[c].step = "purchase" /\ job[c].user = u /\ job[c].ticket = t
      <3>1. Booked(u, t) = {}
        BY <2>2 DEF Inv, Fresh, Unbooked
      <3>2. Buying(c)
        BY <2>2 DEF Buying
      <3> QED
        BY <2>2, <3>1, <3>2, BoughtExist DEF Inv, Buyers
    <2> QED
      BY <2>1, <2>2 DEF Asked
  <1>8. Buyers' /\ ReturnsCancel'
    BY DEF Inv, Buyers, Buying, ReturnsCancel, Returning, Handled, Held, Message, Useless
  <1>9. Callers'
    <2>1. \A d, e \in Servers : caller'[d] = caller'[e] /\ caller'[d] # Nobody => d = e
      BY <1>4 DEF Inv, Callers, Unserved
    <2>2. ASSUME NEW d \in Servers, NEW w \in Workers, caller'[d] = w
          PROVE  /\ job[w].step \in {"purchase", "refund"}
                 /\ job[w].step = "purchase" => Books(d, job[w].user, job[w].ticket)'
      <3>1. CASE d = b
        <4>1. w = c
          BY <1>4, <2>2, <3>1
        <4> QED
          BY <1>2, <3>1, <4>1 DEF Asked, Books, Names, Service!Idle
      <3>2. CASE d # b
        <4>1. caller[d] = w
          BY <1>4, <2>2, <3>2
        <4> QED
          BY <1>2, <3>2, <4>1 DEF Inv, Callers, Books, Names, Service!Idle
      <3> QED
        BY <3>1, <3>2
    <2> QED
      BY <2>1, <2>2 DEF Callers, Books, Names, Service!Idle
  <1>10. Fresh'
    <2>1. ASSUME NEW w \in Workers, job[w].step = "purchase"
          PROVE  /\ \A v \in Users : Booked(v, job[w].ticket)' = {}
                 /\ \A d \in Servers : Names(d, job[w].ticket)' => caller'[d] = w
      <3>1. PICK x \in Tickets : x = job[w].ticket
        BY <2>1, JobKinds DEF Inv, Base
      <3>2. Unbooked(x) /\ \A d \in Servers : Names(d, x) => caller[d] = w
        BY <2>1, <3>1 DEF Inv, Fresh
      <3>3. \A v \in Users : Booked(v, x)' = {}
        BY <1>3, <3>2 DEF Unbooked
      <3>4. ASSUME NEW d \in Servers, Names(d, x)' PROVE caller'[d] = w
        <4>1. CASE d # b
          BY <1>4, <1>6, <3>2, <3>4, <4>1
        <4>2. CASE d = b
          <5>1. x = t
            BY <1>5, <3>4, <4>2
          <5>2. ~Service!ReadForReturn(b, u, t)
            BY <1>2, <3>2, <5>1 DEF Unbooked
          <5>3. Buying(c) /\ Buying(w) /\ job[c].ticket = job[w].ticket /\ c \in Workers
            BY <2>1, <3>1, <5>1, <5>2 DEF Asked, Buying
          <5> QED
            BY <1>4, <4>2, <5>3 DEF Inv, Buyers
        <4> QED
          BY <4>1, <4>2
      <3> QED
        BY <3>1, <3>3, <3>4 DEF Booked, Names, Service!Idle
    <2>2. ASSUME NEW x \in Tickets, ticket[x] = Absent
          PROVE  x \notin confirmed' /\ \A v \in Users : ~Involved(v, x)'
      BY <1>3, <1>7, <2>2 DEF Inv, Fresh
    <2> QED
      BY <2>1, <2>2 DEF Fresh, Unbooked
  <1>11. Owners'
    BY <1>3, <1>7 DEF Inv, Owners, Opened
  <1>12. RefundsCancel'
    <2> SUFFICES ASSUME NEW v \in Users, NEW x \in Tickets \ Misread, Refunding(v, x)', ~Opened(v, x)
                 PROVE  ticket[x].status # "PAID"
      BY DEF RefundsCancel, Opened, Misread
    <2>1. CASE Refunding(v, x)
      BY <2>1 DEF Inv, RefundsCancel
    <2>2. CASE v = u /\ x = t /\ Booked(u, t) # {}
      BY <1>7, <2>2 DEF Useless
    <2> QED
      BY <1>3, <2>1, <2>2
  <1>13. ConfirmedIsBooked'
    <2> SUFFICES ASSUME NEW x \in confirmed
                 PROVE  ticket[x].status \in {"PAID", "CANCELED"} /\ RowsNaming(x)' # {}
      BY DEF ConfirmedIsBooked
    <2>1. x \in Tickets /\ ticket[x].status \in {"PAID", "CANCELED"} /\ ~Unbooked(x)
      BY NamedRows DEF Inv, Base, TypeOK, ConfirmedIsBooked
    <2>2. ~Unbooked(x)'
      BY <1>3, <2>1 DEF Unbooked
    <2> QED
      BY <2>1, <2>2, NamedRows
  <1> QED
    BY <1>8, <1>9, <1>10, <1>11, <1>12, <1>13 DEF Inv

LEMMA PurchaseReadStep ==
    ASSUME Inv, Base', NEW w \in Workers, PurchaseRead(w)
    PROVE  Inv'
  <1>1. PICK u \in Users, t \in Tickets : u = job[w].user /\ t = job[w].ticket
    BY JobKinds DEF PurchaseRead, AsksForPurchase, Inv, Base
  <1>2. PICK b \in Servers : Service!ReadForPurchase(b, u, t) /\ Serves(b, w)
    BY <1>1 DEF PurchaseRead, AsksForPurchase
  <1>3. Asked(b, w, u, t) /\ Unserved(w)
    BY <1>1, <1>2 DEF Asked, PurchaseRead, AsksForPurchase
  <1> QED
    BY <1>2, <1>3, ReadStep DEF PurchaseRead

LEMMA RefundReadStep ==
    ASSUME Inv, Base', NEW w \in Workers, RefundRead(w)
    PROVE  Inv'
  <1>1. PICK u \in Users, t \in Tickets : u = job[w].user /\ t = job[w].ticket
    BY JobKinds DEF RefundRead, AsksForRefund, Inv, Base
  <1>2. PICK b \in Servers : Service!ReadForReturn(b, u, t) /\ Serves(b, w)
    BY <1>1 DEF RefundRead, AsksForRefund
  <1>3. Useless(u, t)
    BY <1>1, Constants DEF RefundRead, Inv, ReturnsCancel, Returning, Handled
  <1>4. Asked(b, w, u, t) /\ Unserved(w)
    BY <1>1, <1>2, <1>3 DEF Asked, RefundRead, AsksForRefund
  <1> QED
    BY <1>2, <1>4, ReadStep DEF RefundRead

LEMMA RetryReadStep ==
    ASSUME Inv, Base', NEW u \in Clients, NEW t \in Tickets, RetryRead(u, t)
    PROVE  Inv'
  <1>1. PICK v \in Users, x \in Tickets : v = Requested(Message(u, t)).user /\ x = Requested(Message(u, t)).ticket
    BY RequestedKinds DEF RetryRead, AsksForRefund
  <1>2. PICK b \in Servers : Service!ReadForReturn(b, v, x) /\ Serves(b, Script)
    BY <1>1 DEF RetryRead, AsksForRefund
  <1>3. Useless(v, x) \/ x \in Misread
    <2>1. CASE u \in CommaNames
      BY <1>1, <2>1, RequestedKinds
    <2>2. CASE u \notin CommaNames
      <3>1. v = u /\ x = t
        BY <1>1, <2>2, RequestedKinds
      <3>2. Returning(u, t)
        BY DEF RetryRead, Calls, Returning
      <3> QED
        BY <3>1, <3>2 DEF Inv, ReturnsCancel
    <2> QED
      BY <2>1, <2>2
  <1>4. Asked(b, Script, v, x) /\ Unserved(Script)
    BY <1>2, <1>3, Constants DEF Asked, RetryRead, AsksForRefund
  <1> QED
    BY <1>2, <1>4, ReadStep DEF RetryRead

-----------------------------------------------------------------------------
(* Steps of handlers that change no ticket.                                *)

\* A handler goes on or ends.
LEMMA HandlerMoves ==
    ASSUME Inv, NEW w \in Workers, job[w].step # "idle",
           NEW step \in Steps \ {"purchase"}, GoTo(w, step) \/ Leave(w)
    PROVE  /\ job'[w].step # "purchase" /\ \A v \in Workers : v # w => job'[v] = job[v]
           /\ \/ job'[w] = NoJob
              \/ job'[w].step = step /\ job'[w].user = job[w].user /\ job'[w].ticket = job[w].ticket
  <1>1. CASE GoTo(w, step)
    BY <1>1, Moves DEF Inv, Base
  <1>2. CASE Leave(w)
    BY <1>2, Leaves DEF Inv, Base, NoJob
  <1> QED
    BY <1>1, <1>2

\* No thread serves the purchase of a user without an account.
LEMMA PurchaseCallEnds ==
    ASSUME Inv, NEW w \in Workers, PurchaseCall(w)
    PROVE  Progress /\ Released(w)
  <1>1. ASSUME job[w].user \in Strangers PROVE Unserved(w)
    <2> SUFFICES ASSUME NEW b \in Servers, caller[b] = w PROVE FALSE
      BY DEF Unserved
    <2>1. Books(b, job[w].user, job[w].ticket)
      BY DEF PurchaseCall, Inv, Callers
    <2>2. pending[b].user \in Users
      BY <2>1, PendingKinds DEF Inv, Books, Names
    <2> QED
      BY <1>1, <2>1, <2>2, Constants DEF Books
  <1> QED
    BY <1>1, CallEnds, CallFails DEF PurchaseCall, Inv

\* A call is over: the handler of a purchase goes on to cancel it, or ends and has it booked.
LEMMA PurchaseCallStep ==
    ASSUME Inv, Base', NEW w \in Workers, PurchaseCall(w)
    PROVE  Inv'
  <1>1. PICK u \in Clients, t \in Tickets : u = job[w].user /\ t = job[w].ticket
    BY JobKinds DEF PurchaseCall, Inv, Base
  <1>2. job[w].step = "purchase" /\ Buying(w) /\ UNCHANGED <<ticket, file, queue, consumer>>
    BY DEF PurchaseCall, Buying
  <1>3. GoTo(w, "cancel") \/ Leave(w)
    BY DEF PurchaseCall, AfterPurchase
  <1>4. /\ job'[w].step # "purchase" /\ \A v \in Workers : v # w => job'[v] = job[v]
        /\ \/ job'[w] = NoJob
           \/ job'[w].step = "cancel" /\ job'[w].user = job[w].user /\ job'[w].ticket = job[w].ticket
    BY <1>2, <1>3, HandlerMoves DEF Steps
  <1>5. Progress /\ Released(w)
    BY PurchaseCallEnds
  <1>6. NoNewCalls
    BY <1>4, <1>5, ReleasedCalls DEF Inv
  <1>7. BuysNoMore
    BY <1>2, <1>4 DEF BuysNoMore, Buying, NoJob
  <1>8. ReturnsNoMore
    BY <1>2, <1>4 DEF ReturnsNoMore, Returning, Handled, Held, Message, NoJob
  <1>9. ConfirmsBooked
    <2>1. CASE confirmed' = confirmed
      BY <2>1 DEF ConfirmsBooked
    <2>2. CASE Answered(w) /\ Leave(w) /\ confirmed' = confirmed \cup {job[w].ticket}
      <3>1. PICK b \in Servers : caller[b] = w /\ Service!Write(b)
        BY <2>2 DEF Answered
      <3>2. Books(b, u, t)
        BY <1>1, <1>2, <3>1 DEF Inv, Callers
      <3>3. u \in Users
        BY <3>2, PendingKinds DEF Inv, Books, Names
      <3>4. \A v \in Users, x \in Tickets : Books(b, v, x) =>
               \E n : n \notin Booked(v, x) /\ Booked(v, x)' = Booked(v, x) \cup {n}
        BY <3>1, WriteEffect DEF Inv
      <3>5. PICK n : n \notin Booked(u, t) /\ Booked(u, t)' = Booked(u, t) \cup {n}
        BY <3>2, <3>3, <3>4
      <3>6. ~Unbooked(t)'
        BY <3>3, <3>5 DEF Unbooked
      <3>7. ticket[t].status \in {"PAID", "CANCELED"}
        BY <1>1, <1>2 DEF Inv, Buyers, TicketRows
      <3>8. ASSUME NEW v \in Workers, Buying(v)' PROVE job'[v].ticket # t
        <4>1. v # w
          BY <2>2, <3>8, Leaves DEF Inv, Base, Buying, NoJob
        <4>2. job'[v] = job[v] /\ Buying(v)
          BY <1>4, <3>8, <4>1 DEF Buying
        <4> QED
          BY <1>1, <1>2, <4>1, <4>2 DEF Inv, Buyers
      <3> QED
        BY <1>1, <2>2, <3>6, <3>7, <3>8 DEF ConfirmsBooked
    <2> QED
      BY <2>1, <2>2 DEF PurchaseCall
  <1> QED
    BY <1>2, <1>5, <1>6, <1>7, <1>8, <1>9, QuietStep

\* A handler of a return goes on, or ends.
LEMMA ReturnGoesOn ==
    ASSUME Inv, NEW w \in Workers, job[w].step \in {"refund", "open", "close", "publish"},
           NEW step \in {"open", "close", "publish"}, GoTo(w, step) \/ Leave(w)
    PROVE  /\ BuysNoMore
           /\ \A u \in Clients, t \in Tickets : Handled(u, t)' => Handled(u, t)
           /\ job'[w].step # "purchase" /\ \A v \in Workers : v # w => job'[v] = job[v]
  <1>1. /\ job'[w].step # "purchase" /\ \A v \in Workers : v # w => job'[v] = job[v]
        /\ \/ job'[w] = NoJob
           \/ job'[w].step = step /\ job'[w].user = job[w].user /\ job'[w].ticket = job[w].ticket
    BY HandlerMoves DEF Steps
  <1>2. BuysNoMore
    BY <1>1 DEF BuysNoMore, Buying, NoJob
  <1>3. \A u \in Clients, t \in Tickets : Handled(u, t)' => Handled(u, t)
    BY <1>1 DEF Handled, NoJob
  <1> QED
    BY <1>1, <1>2, <1>3

LEMMA RefundCallStep ==
    ASSUME Inv, Base', NEW w \in Workers, RefundCall(w)
    PROVE  Inv'
  <1>1. /\ job[w].step = "refund" /\ (GoTo(w, "open") \/ Leave(w))
        /\ UNCHANGED <<ticket, file, queue, consumer, confirmed>>
    BY DEF RefundCall
  <1>2. /\ BuysNoMore
        /\ \A u \in Clients, t \in Tickets : Handled(u, t)' => Handled(u, t)
        /\ job'[w].step # "purchase" /\ \A v \in Workers : v # w => job'[v] = job[v]
    BY <1>1, ReturnGoesOn
  <1>3. Progress /\ Released(w)
    BY CallEnds, CallFails DEF RefundCall, Inv
  <1>4. NoNewCalls
    BY <1>2, <1>3, ReleasedCalls DEF Inv
  <1>5. ReturnsNoMore
    BY <1>1, <1>2 DEF ReturnsNoMore, Returning, Held, Message
  <1>6. ConfirmsBooked
    BY <1>1 DEF ConfirmsBooked
  <1> QED
    BY <1>1, <1>2, <1>3, <1>4, <1>5, <1>6, QuietStep

\* The steps of a return that call no service.
LEMMA LocalStep ==
    ASSUME Inv, Base', NEW w \in Workers, job[w].step \in {"open", "close", "publish"},
           NEW step \in {"close", "publish"}, GoTo(w, step) \/ Leave(w),
           UNCHANGED <<ticket, bonus, consumer, confirmed>>,
           \A u \in Clients, t \in Tickets :
              file' = Message(u, t) \/ Held(queue', Message(u, t)) => Returning(u, t)
    PROVE  Inv'
  <1>1. /\ BuysNoMore
        /\ \A u \in Clients, t \in Tickets : Handled(u, t)' => Handled(u, t)
        /\ job'[w].step # "purchase" /\ \A v \in Workers : v # w => job'[v] = job[v]
    BY ReturnGoesOn
  <1>2. NoNewCalls
    BY <1>1, UncalledSteps DEF Inv
  <1>3. ReturnsNoMore
    <2> SUFFICES ASSUME NEW u \in Clients, NEW t \in Tickets, Returning(u, t)' PROVE Returning(u, t)
      BY DEF ReturnsNoMore
    <2>1. \/ Handled(u, t)' \/ file' = Message(u, t) \/ Held(queue', Message(u, t))
          \/ consumer.step \in {"call", "again", "ack"} /\ consumer.message = Message(u, t)
      BY DEF Returning, Held, Message
    <2> QED
      BY <1>1, <2>1 DEF Returning
  <1>4. ConfirmsBooked /\ Progress
    BY DEF ConfirmsBooked, Progress, bonus
  <1> QED
    BY <1>1, <1>2, <1>3, <1>4, QuietStep

LEMMA OpenFileStep ==
    ASSUME Inv, Base', NEW w \in Workers, OpenFile(w)
    PROVE  Inv'
  <1>1. /\ job[w].step = "open" /\ GoTo(w, "close") /\ file' = Nothing
        /\ UNCHANGED <<ticket, bonus, queue, consumer, confirmed>>
    BY DEF OpenFile
  <1>2. \A u \in Clients, t \in Tickets : file' # Message(u, t)
    BY <1>1, MessageKinds
  <1>3. \A u \in Clients, t \in Tickets : Held(queue', Message(u, t)) => Returning(u, t)
    BY <1>1 DEF Returning
  <1> QED
    BY <1>1, <1>2, <1>3, LocalStep

LEMMA CloseFileStep ==
    ASSUME Inv, Base', NEW w \in Workers, CloseFile(w)
    PROVE  Inv'
  <1>1. PICK u \in Clients, t \in Tickets : u = job[w].user /\ t = job[w].ticket
    BY JobKinds DEF CloseFile, Inv, Base
  <1>2. /\ job[w].step = "close" /\ GoTo(w, "publish") /\ file' \in Overwritten(file, u, t)
        /\ UNCHANGED <<ticket, bonus, queue, consumer, confirmed>>
    BY <1>1 DEF CloseFile
  <1>3. Returning(u, t)
    BY <1>1, <1>2 DEF Returning, Handled
  <1>4. \A y \in Clients, x \in Tickets : file' = Message(y, x) => y = u /\ x = t
    <2>1. file' = Message(u, t) \/ file' = Mixture(u)
      BY <1>2 DEF Overwritten
    <2> QED
      BY <2>1, MessageKinds
  <1>5. \A y \in Clients, x \in Tickets : Held(queue', Message(y, x)) => Returning(y, x)
    BY <1>2 DEF Returning
  <1> QED
    BY <1>2, <1>3, <1>4, <1>5, LocalStep

LEMMA PublishStep ==
    ASSUME Inv, Base', NEW w \in Workers, Publish(w)
    PROVE  Inv'
  <1>1. /\ job[w].step = "publish" /\ Leave(w) /\ (queue' = Enqueued(queue, file) \/ queue' = queue)
        /\ UNCHANGED <<ticket, bonus, file, consumer, confirmed>>
    BY DEF Publish
  <1>2. file \in Messages /\ queue \in Seq(Messages)
    BY <1>1 DEF Inv, Base, FileOpened, TypeOK
  <1>3. \A n : Held(queue', n) => Held(queue, n) \/ n = file
    BY <1>1, <1>2, HeldEnqueued
  <1>4. \A u \in Clients, t \in Tickets :
            file' = Message(u, t) \/ Held(queue', Message(u, t)) => Returning(u, t)
    BY <1>1, <1>3 DEF Returning
  <1> QED
    BY <1>1, <1>4, LocalStep

LEMMA GatewayStopsStep ==
    ASSUME Inv, Base', GatewayStops
    PROVE  Inv'
  <1>1. /\ \A w \in Workers : job'[w] = NoJob
        /\ UNCHANGED <<ticket, file, queue, consumer, confirmed, balance, history, pending>>
        /\ \A b \in Servers : caller'[b] = IF caller[b] \in Workers THEN Nobody ELSE caller[b]
    BY DEF GatewayStops, Abandoned
  <1>2. BuysNoMore
    BY <1>1 DEF BuysNoMore, Buying, NoJob
  <1>3. ReturnsNoMore
    BY <1>1 DEF ReturnsNoMore, Returning, Handled, Held, Message, NoJob
  <1>4. NoNewCalls
    BY <1>1, Constants DEF NoNewCalls, NoJob
  <1>5. ConfirmsBooked /\ Progress
    BY <1>1 DEF ConfirmsBooked, Progress
  <1> QED
    BY <1>1, <1>2, <1>3, <1>4, <1>5, QuietStep

-----------------------------------------------------------------------------
(* Steps of the consumer, and of threads without a caller.                 *)

\* They change no handler's call.
LEMMA OtherCalls ==
    ASSUME UNCHANGED job,
           \A b \in Servers : caller[b] \in Workers => caller'[b] = caller[b] /\ pending'[b] = pending[b],
           \A b \in Servers : /\ caller'[b] # caller[b] => caller'[b] = Nobody
                              /\ caller'[b] # Nobody => pending'[b] = pending[b]
    PROVE  NoNewCalls /\ BuysNoMore
  BY DEF NoNewCalls, BuysNoMore, Buying

\* They bring no message.
LEMMA MessagesKept ==
    ASSUME Inv, Base', UNCHANGED <<ticket, job, file, confirmed>>, Progress,
           Released(Script) \/ UNCHANGED bonus,
           \A u \in Clients, t \in Tickets :
               \/ Held(queue', Message(u, t))
               \/ consumer'.step \in {"call", "again", "ack"} /\ consumer'.message = Message(u, t)
               => \/ Held(queue, Message(u, t))
                  \/ consumer.step \in {"call", "again", "ack"} /\ consumer.message = Message(u, t)
    PROVE  Inv'
  <1>1. NoNewCalls /\ BuysNoMore
    <2>1. UNCHANGED bonus => UNCHANGED <<pending, caller>>
      BY DEF bonus
    <2> QED
      BY <2>1, OtherCalls, Constants DEF Released
  <1>2. ReturnsNoMore
    <2> SUFFICES ASSUME NEW u \in Clients, NEW t \in Tickets, Returning(u, t)' PROVE Returning(u, t)
      BY DEF ReturnsNoMore
    <2>1. \/ Handled(u, t) \/ file = Message(u, t)
          \/ Held(queue', Message(u, t))
          \/ consumer'.step \in {"call", "again", "ack"} /\ consumer'.message = Message(u, t)
      BY DEF Returning, Handled, Held, Message
    <2> QED
      BY <2>1 DEF Returning
  <1>3. ConfirmsBooked
    BY DEF ConfirmsBooked
  <1> QED
    BY <1>1, <1>2, <1>3, QuietStep

LEMMA ConsumerStep ==
    ASSUME Inv, Base',
           \/ Deliver \/ RetryRefused \/ RetryRaises \/ PublishAgain \/ Acknowledge
           \/ ConsumerStarts \/ ConsumerStops \/ \E u \in Clients, t \in Tickets : Retry(u, t)
    PROVE  Inv'
  <1>1. UNCHANGED <<ticket, job, file, confirmed>>
    BY DEF Deliver, RetryRefused, RetryRaises, PublishAgain, Acknowledge, ConsumerStarts, ConsumerStops, Retry
  <1>2. queue \in Seq(Messages)
    BY DEF Inv, Base, TypeOK
  <1> DEFINE Before(m) == \/ Held(queue, m)
                          \/ consumer.step \in {"call", "again", "ack"} /\ consumer.message = m
             After(m) == \/ Held(queue', m)
                         \/ consumer'.step \in {"call", "again", "ack"} /\ consumer'.message = m
  <1>3. \A m : After(m) => Before(m)
    <2>1. ASSUME Deliver PROVE \A m : After(m) => Before(m)
      <3>1. queue # <<>> /\ consumer'.message = Head(queue) /\ queue' = Tail(queue)
        BY <2>1 DEF Deliver
      <3>2. \A n : Held(queue, n) <=> n = Head(queue) \/ Held(Tail(queue), n)
        BY <1>2, <3>1, HeldTail
      <3> QED
        BY <3>1, <3>2
    <2>2. ASSUME RetryRefused \/ \E u \in Clients, t \in Tickets : Retry(u, t)
          PROVE  \A m : After(m) => Before(m)
      <3>1. /\ consumer.step = "call" /\ queue' = queue
            /\ \/ consumer' = [consumer EXCEPT !.step = NextStep(FALSE)]
               \/ consumer' = [consumer EXCEPT !.step = NextStep(TRUE)]
        <4>1. CASE RetryRefused
          BY <4>1 DEF RetryRefused
        <4>2. ASSUME NEW u \in Clients, NEW t \in Tickets, Retry(u, t)
              PROVE  /\ consumer.step = "call" /\ queue' = queue
                     /\ consumer' = [consumer EXCEPT !.step = NextStep(TRUE)]
          BY <4>2 DEF Retry, Calls
        <4> QED
          BY <2>2, <4>1, <4>2
      <3>2. consumer \in Busy
        BY <3>1, BusyKinds DEF Inv, Base
      <3>3. consumer'.message = consumer.message
        BY <3>1, <3>2 DEF Busy
      <3> QED
        BY <3>1, <3>3
    <2>3. ASSUME PublishAgain PROVE \A m : After(m) => Before(m)
      <3>1. /\ consumer.step = "again" /\ queue' = Enqueued(queue, consumer.message)
            /\ consumer' = [consumer EXCEPT !.step = "ack"]
        BY <2>3 DEF PublishAgain
      <3>2. consumer \in Busy /\ consumer.message \in Messages
        BY <3>1, BusyKinds DEF Inv, Base
      <3>3. consumer'.message = consumer.message
        BY <3>1, <3>2 DEF Busy
      <3>4. \A n : Held(queue', n) <=> Held(queue, n) \/ n = consumer.message
        BY <1>2, <3>1, <3>2, HeldEnqueued
      <3> QED
        BY <3>1, <3>3, <3>4
    <2>4. ASSUME ConsumerStops PROVE \A m : After(m) => Before(m)
      <3>1. /\ consumer.step \in {"call", "again", "ack"} /\ consumer' = Down
            /\ queue' = IF Copies(queue, consumer.message) < MaxCopies
                        THEN <<consumer.message>> \o queue ELSE queue
        BY <2>4 DEF ConsumerStops
      <3>2. consumer.message \in Messages
        BY <3>1, BusyKinds DEF Inv, Base
      <3>3. \A n : Held(queue', n) <=> Held(queue, n) \/ n = consumer.message
        BY <3>1, <3>2, HeldAgain DEF Inv, Base
      <3> QED
        BY <3>1, <3>3 DEF Down
    <2>5. ASSUME RetryRaises \/ Acknowledge \/ ConsumerStarts PROVE \A m : After(m) => Before(m)
      <3>1. queue' = queue /\ consumer' \in {Ready, Down}
        BY <2>5 DEF RetryRaises, Acknowledge, ConsumerStarts
      <3> QED
        BY <3>1 DEF Ready, Down
    <2> QED
      BY <2>1, <2>2, <2>3, <2>4, <2>5
  <1>4. Progress /\ (Released(Script) \/ UNCHANGED bonus)
    <2>1. ASSUME RetryRefused \/ \E u \in Clients, t \in Tickets : Retry(u, t)
          PROVE  Progress /\ (Released(Script) \/ UNCHANGED bonus)
      <3>1. UNCHANGED bonus => Progress
        BY DEF bonus, Progress
      <3> QED
        BY <2>1, <3>1, CallEnds, CallFails DEF RetryRefused, Retry, Inv
    <2>2. ConsumerStops => Progress /\ Released(Script)
      BY DEF ConsumerStops, Abandoned, Progress, Released
    <2>3. Deliver \/ RetryRaises \/ PublishAgain \/ Acknowledge \/ ConsumerStarts => UNCHANGED bonus
      BY DEF Deliver, RetryRaises, PublishAgain, Acknowledge, ConsumerStarts
    <2>4. UNCHANGED bonus => Progress
      BY DEF bonus, Progress
    <2> QED
      BY <2>1, <2>2, <2>3, <2>4
  <1> QED
    BY <1>1, <1>3, <1>4, MessagesKept

LEMMA GoesOnStep ==
    ASSUME Inv, Base', NEW b \in Servers, GoesOn(b)
    PROVE  Inv'
  <1>1. /\ caller[b] = Nobody /\ (Service!Write(b) \/ Service!WriteFails(b))
        /\ UNCHANGED <<caller, ticket, job, file, queue, consumer, confirmed>>
    BY DEF GoesOn
  <1>2. \A d \in Servers : d # b => pending'[d] = pending[d]
    BY <1>1 DEF Service!Write, Service!WriteFails, Service!Finish, Inv, Base, TypeOK
  <1>3. NoNewCalls /\ BuysNoMore
    BY <1>1, <1>2, OtherCalls, Constants
  <1>4. ReturnsNoMore
    BY <1>1 DEF ReturnsNoMore, Returning, Handled, Held, Message
  <1>5. ConfirmsBooked /\ Progress
    BY <1>1 DEF ConfirmsBooked, Progress
  <1> QED
    BY <1>1, <1>3, <1>4, <1>5, QuietStep

-----------------------------------------------------------------------------
(* The theorems.                                                           *)

LEMMA InvStep ==
    ASSUME Inv, [Next]_vars
    PROVE  Inv'
  <1>0. Base'
    BY BaseStep
  <1>1. ASSUME NEW w \in Workers, TicketPost(w) \/ TicketUpdate(w) \/ Handle(w) PROVE Inv'
    BY <1>0, <1>1, TicketPostStep, TicketUpdateStep, PurchaseReadStep, PurchaseCallStep, TicketDeleteStep,
       RefundReadStep, RefundCallStep, OpenFileStep, CloseFileStep, PublishStep DEF Handle
  <1>2. ASSUME NEW b \in Servers, GoesOn(b) PROVE Inv'
    BY <1>0, <1>2, GoesOnStep
  <1>3. ASSUME GatewayStops PROVE Inv'
    BY <1>0, <1>3, GatewayStopsStep
  <1>4. ASSUME Consume \/ ConsumerStops PROVE Inv'
    BY <1>0, <1>4, ConsumerStep, RetryReadStep DEF Consume
  <1>5. ASSUME UNCHANGED vars PROVE Inv'
    <2>1. NoNewCalls /\ BuysNoMore
      BY <1>5, OtherCalls DEF vars, bonus
    <2>2. ReturnsNoMore
      BY <1>5 DEF vars, ReturnsNoMore, Returning, Handled, Held, Message
    <2>3. ConfirmsBooked /\ Progress
      BY <1>5 DEF vars, bonus, ConfirmsBooked, Progress
    <2> QED
      BY <1>0, <1>5, <2>1, <2>2, <2>3, QuietStep DEF vars
  <1> QED
    BY <1>1, <1>2, <1>3, <1>4, <1>5 DEF Next

LEMMA InvAlways == Spec => []Inv
  BY InvInit, InvStep, PTL DEF Spec

\* The state is well-formed, whatever fails; message.txt is there when it is published.
THEOREM TypeCorrect == Spec => []TypeOK
  <1>1. Inv => TypeOK
    BY DEF Inv, Base
  <1> QED
    BY <1>1, InvAlways, PTL

\* A purchase that was answered with success keeps its ticket and its booking.
THEOREM ConfirmedStaysBooked == Spec => []ConfirmedIsBooked
  <1>1. Inv => ConfirmedIsBooked
    BY DEF Inv
  <1> QED
    BY <1>1, InvAlways, PTL

\* However handlers, retries, duplicates and restarts interleave, they use the Bonus Service as
\* it assumes.
THEOREM ServiceKept == Spec => KeepsService
  <1>1. Init => Service!Init
    BY DEF Init
  <1>2. Inv /\ [Next]_vars => [Service!Next]_(Service!vars)
    BY ServiceStep
  <1> QED
    BY <1>1, <1>2, InvAlways, PTL DEF Spec, KeepsService, Service!Spec

\* So what holds of the service, whatever its threads interleave, holds under these callers: no
\* account is overdrawn, a ticket's later rows undo its purchase, and the threads that serve the
\* calls of one moment are the most that can refund it.
THEOREM AccountsUnderCallers ==
    ASSUME IsFiniteSet(Servers)
    PROVE  Spec => [](/\ Service!NonNegativeBalance
                      /\ Service!LaterRowsUndoPurchase
                      /\ Service!RefundsBoundedByWorkers)
  <1>1. Service!Spec => []Service!NonNegativeBalance
    BY Constants, Service!BalanceStaysNonNegative
  <1>2. Service!Spec => []Service!LaterRowsUndoPurchase
    BY Constants, Service!RefundsUndoPurchases
  <1>3. Service!Spec => []Service!RefundsBoundedByWorkers
    <2>1. Service!IsFiniteSet(Servers)
      BY DEF IsFiniteSet, Service!IsFiniteSet
    <2> QED
      BY <2>1, Constants, Service!RefundsBounded
  <1> QED
    BY <1>1, <1>2, <1>3, ServiceKept, PTL DEF KeepsService

\* And as long as no two calls for one account overlap, no ticket is refunded twice and each
\* balance is what its rows add up to.
THEOREM CallsApartKeepLedger == Spec /\ []Service!KeptApart => Service!KeepsLedger /\ []Service!Ledger!Promises
  <1>1. Service!Spec /\ []Service!KeptApart => Service!KeepsLedger
    BY Constants, Service!BookingsApartKeepLedger
  <1>2. Service!Spec /\ []Service!KeptApart => []Service!Ledger!Promises
    BY Constants, Service!PromisesInherited
  <1> QED
    BY <1>1, <1>2, ServiceKept, PTL DEF KeepsService

\* Two rows that name a ticket are in the account of one user, if there is one account.
LEMMA TwoRows ==
    ASSUME Users = {SeedUser}, NEW t \in Tickets, Cardinality(RowsNaming(t)) >= 2
    PROVE  Refunded(SeedUser, t)
  <1> DEFINE R == Booked(SeedUser, t)
  <1>1. RowsNaming(t) = {SeedUser} \X R
    BY DEF RowsNaming
  <1> HIDE DEF R
  <1>2. SUFFICES ASSUME \A i, j \in R : i = j PROVE FALSE
    BY DEF Refunded, R
  <1>3. CASE R = {}
    <2>1. RowsNaming(t) = {}
      BY <1>1, <1>3
    <2>2. Cardinality(RowsNaming(t)) = 0
      BY <2>1, FS_EmptySet
    <2> QED
      BY <2>2
  <1>4. CASE R # {}
    <2>1. PICK i \in R : R = {i}
      BY <1>2, <1>4
    <2>2. RowsNaming(t) = {<<SeedUser, i>>}
      BY <1>1, <2>1
    <2>3. Cardinality(RowsNaming(t)) = 1
      BY <2>2, FS_Singleton
    <2> QED
      BY <2>3
  <1> QED
    BY <1>3, <1>4

\* The bonuses of a ticket are given back only when the ticket cannot be used, unless the consumer
\* can read it out of a user's name.  As in the service, which creates no accounts, one user has
\* an account: that of the test data.
THEOREM RefundedNotPaid ==
    ASSUME Users = {SeedUser}
    PROVE  Spec => []RefundedIsNotPaid
  <1>1. Inv => RefundedIsNotPaid
    <2> SUFFICES ASSUME Inv, NEW t \in Tickets \ Misread, Cardinality(RowsNaming(t)) >= 2
                 PROVE  ticket[t].status # "PAID"
      BY DEF RefundedIsNotPaid
    <2>1. Refunding(SeedUser, t)
      BY TwoRows DEF Refunding
    <2> QED
      BY <2>1, Constants DEF Inv, RefundsCancel, Opened
  <1> QED
    BY <1>1, InvAlways, PTL

\* A ticket that is refunded, and that no thread is about to book, is never booked again.
THEOREM SettledStays == Spec => SettledForGood
  <1>1. ASSUME Inv, [Next]_vars, NEW u \in Users, NEW t \in Tickets, Settled(u, t)
        PROVE  Settled(u, t)' /\ Booked(u, t)' = Booked(u, t)
    <2>0. Base
      BY <1>1 DEF Inv
    <2>1. \A b \in Servers : ~Books(b, u, t)
      BY <1>1 DEF Settled, Books, Names
    <2>2. ~Service!Ledger!Refundable(history[u], t) /\ Booked(u, t) # {}
      <3>1. \A i : Booked(u, t) # {i}
        <4> SUFFICES ASSUME NEW i, Booked(u, t) = {i} PROVE FALSE
          OBVIOUS
        <4>1. Cardinality(Booked(u, t)) = 1
          BY FS_Singleton
        <4> QED
          BY <1>1, <4>1 DEF Settled
      <3>2. Booked(u, t) # {}
        <4>1. Booked(u, t) = {} => Cardinality(Booked(u, t)) = 0
          BY FS_EmptySet
        <4> QED
          BY <1>1, <4>1 DEF Settled
      <3> QED
        BY <3>1, <3>2 DEF Booked, Service!Ledger!Refundable
    <2>3. SUFFICES Booked(u, t)' = Booked(u, t) /\ \A b \in Servers : ~Books(b, u, t)'
      BY <1>1, <2>3 DEF Settled, Books, Names, Service!Idle
    <2>4. CASE Progress
      <3>1. Booked(u, t)' = Booked(u, t)
        BY <2>0, <2>1, <2>4, WriteEffect DEF Progress, Service!WriteFails, Booked
      <3>2. \A b \in Servers : ~Books(b, u, t)'
        BY <2>0, <2>1, <2>4, ProgressKeeps DEF Books, Names, Service!Idle
      <3> QED
        BY <3>1, <3>2
    <2>5. ASSUME NEW b \in Servers, NEW v \in Users, NEW x \in Tickets,
                 (Service!ReadForPurchase(b, v, x) /\ Service!New(x)) \/ Service!ReadForReturn(b, v, x)
          PROVE  Booked(u, t)' = Booked(u, t) /\ \A d \in Servers : ~Books(d, u, t)'
      <3>1. /\ Booked(u, t)' = Booked(u, t)
            /\ \A d \in Servers : d # b => pending'[d] = pending[d]
            /\ \A y, z : Books(b, y, z)' => y = v /\ z = x
        BY <2>0, <2>5, ReadInvolves, ReadEffect
      <3>2. ~(v = u /\ x = t)
        BY <2>2, <2>5 DEF Service!New, Booked, Service!ReadForReturn, Service!ActiveTicket
      <3>3. \A d \in Servers : d # b => ~Books(d, u, t)'
        BY <2>1, <3>1 DEF Books, Names, Service!Idle
      <3> QED
        BY <3>1, <3>2, <3>3
    <2>6. [Service!Next]_(Service!vars)
      BY <1>1, ServiceStep
    <2>7. Progress \/ \E b \in Servers, v \in Users, x \in Tickets :
              (Service!ReadForPurchase(b, v, x) /\ Service!New(x)) \/ Service!ReadForReturn(b, v, x)
      BY <2>6 DEF Service!Next, Service!vars, Progress
    <2> QED
      BY <2>4, <2>5, <2>7
  <1>2. Inv /\ [Next]_vars =>
            [\A u \in Users, t \in Tickets :
                Settled(u, t) => Settled(u, t)' /\ Booked(u, t)' = Booked(u, t)]_vars
    BY <1>1
  <1> QED
    BY <1>2, InvAlways, PTL DEF Spec, SettledForGood

=============================================================================
