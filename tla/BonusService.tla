----------------------------- MODULE BonusService -----------------------------
(***************************************************************************)
(* BonusService: worker threads run PurchasePoint and ReturnPoint, that is *)
(* PerfromBuyOperation and PerfromReturnOperation of PGBonusRepository.cpp. *)
(* Each reads the account with a SELECT, computes the new balance, and     *)
(* sends one string with an INSERT of a history row and an UPDATE that     *)
(* sets the balance; the database runs that string as one transaction.     *)
(* Nothing is locked between the two, so other workers may come between.   *)
(* BalanceGetPoint reads the balance and the history with two SELECTs.     *)
(*                                                                         *)
(* A request that ends without a write leaves nothing behind and is no     *)
(* step: one for a user without an account, for whom std::stoi("") throws; *)
(* a return that finds no active ticket; one whose SELECT fails.           *)
(***************************************************************************)
EXTENDS Integers, Sequences, FiniteSetsExt

CONSTANTS Users, Tickets, Prices, Opening, Seed,
          Workers,    \* threads of the executor that book,
          Readers     \* and those that serve BalanceGetPoint: as a thread keeps nothing
                      \* of its last request, one that does both is like one of each

VARIABLES
    balance,    \* privilege.balance of each user
    history,    \* privilege_history of each user, oldest row first
    pending,    \* what each worker is about to write, or NoWrite
    reading     \* what each reader's first SELECT returned, or NoRead

vars == <<balance, history, pending, reading>>

\* BonusLedger, with its theorems.
Ledger == INSTANCE BonusLedgerProofs

ASSUME BonusAssumption == Ledger!LedgerAssumption

NoWrite == [user |-> "none"]

Writes == [user : Users, row : Ledger!Rows, newBalance : Int]

NoRead == [user |-> "none"]

Reads == [user : Users, balance : Int]

TypeOK ==
    /\ balance \in [Users -> Int]
    /\ history \in [Users -> Seq(Ledger!Rows)]
    /\ pending \in [Workers -> Writes \cup {NoWrite}]
    /\ reading \in [Readers -> Reads \cup {NoRead}]

Init ==
    /\ Ledger!Init
    /\ pending = [w \in Workers |-> NoWrite]
    /\ reading = [r \in Readers |-> NoRead]

Idle(w) == pending[w] = NoWrite

\* Mutants of NewBalance: the difference is forgotten; it has the wrong sign.
NewBalanceStale(read, row) == read
NewBalanceSwapped(read, row) == read - row.diff

\* The balance a purchase or a refund sends to the database: what was read
\* plus the difference, not an increment.
NewBalance(read, row) == read + row.diff

Plan(w, u, row) ==
    pending' = [pending EXCEPT ![w] =
                   [user |-> u, row |-> row, newBalance |-> NewBalance(balance[u], row)]]

\* PerfromBuyOperation up to the string it sends.
ReadForPurchase(w, u, t) ==
    /\ Idle(w)
    /\ \E price \in Prices, paidFromBalance \in BOOLEAN :
          Plan(w, u, Ledger!PurchaseRow(balance[u], t, price, paidFromBalance))
    /\ UNCHANGED <<balance, history, reading>>

\* Mutant of ActiveTicket: refunded tickets count as well.
ActiveTicketAnyRow(h, t) == Ledger!RowsOf(h, t) # {}

\* The rows that ReturnPoint finds decide whether it refunds.
ActiveTicket(h, t) == Ledger!Refundable(h, t)

\* PerfromReturnOperation up to the string it sends.
ReadForReturn(w, u, t) ==
    /\ Idle(w)
    /\ ActiveTicket(history[u], t)
    /\ Plan(w, u, Ledger!RefundRow(balance[u], history[u][Ledger!PurchaseIndex(history[u], t)]))
    /\ UNCHANGED <<balance, history, reading>>

Finish(w) == pending' = [pending EXCEPT ![w] = NoWrite]

\* The transaction commits.  Its acknowledgement may still be lost with the
\* connection, and then the service answers 500 for what was done.
Write(w) ==
    /\ ~Idle(w)
    /\ LET p == pending[w]
       IN  /\ history' = [history EXCEPT ![p.user] = Append(@, p.row)]
           /\ balance' = [balance EXCEPT ![p.user] = p.newBalance]
    /\ Finish(w)
    /\ UNCHANGED reading

\* The transaction does not commit: the database or the connection failed, or
\* the service stopped and its caller sees an error.
WriteFails(w) ==
    /\ ~Idle(w)
    /\ Finish(w)
    /\ UNCHANGED <<balance, history, reading>>

\* GetBalanceByUsername up to its first result.
ReadBalance(r) ==
    /\ reading[r] = NoRead
    /\ \E u \in Users : reading' = [reading EXCEPT ![r] = [user |-> u, balance |-> balance[u]]]
    /\ UNCHANGED <<balance, history, pending>>

\* The second SELECT returns the history as it is now, or fails.
ReadHistory(r) ==
    /\ reading[r] # NoRead
    /\ reading' = [reading EXCEPT ![r] = NoRead]
    /\ UNCHANGED <<balance, history, pending>>

\* Callers ask for the purchase of a ticket once: the Ticket Service has made
\* its identifier for that purchase.
New(t) == /\ \A u \in Users : Ledger!RowsOf(history[u], t) = {}
          /\ \A w \in Workers : ~Idle(w) => pending[w].row.ticket # t

Next ==
    \/ \E w \in Workers :
          \/ \E u \in Users, t \in Tickets :
                \/ New(t) /\ ReadForPurchase(w, u, t)
                \/ ReadForReturn(w, u, t)
          \/ Write(w) \/ WriteFails(w)
    \/ \E r \in Readers : ReadBalance(r) \/ ReadHistory(r)

Spec == Init /\ [][Next]_vars
-----------------------------------------------------------------------------
\* No interleaving of the workers drives a balance below zero: every debit is
\* cut to the balance that was read together with it.
NonNegativeBalance == Ledger!NonNegativeBalance

\* Whatever the workers interleave, each later row of a ticket undoes its first
\* one: it goes in the other direction, gives a debit back in full and takes no
\* more than was credited.
LaterRowsUndoPurchase == Ledger!LaterRowsUndoPurchase

\* The balance is what the rows of the history add up to.
AccountsBalance == Ledger!AccountsBalance

\* A balance that is about to be answered with the history, whatever was booked since
\* it was read, is what the older rows of that history add up to: it may be behind the
\* history, and never ahead of it or beside it.
BalanceAnsweredIsPast ==
    \A r \in Readers : reading[r] # NoRead =>
        LET h == history[reading[r].user]
        IN  \E n \in 0..Len(h) : reading[r].balance = Ledger!Total(h, n)

\* Workers that read a ticket's purchase before any of them wrote its refund all
\* refund it; nobody who reads it later does.
RefundsBoundedByWorkers ==
    \A u \in Users, t \in Tickets :
        Cardinality(Ledger!RowsOf(history[u], t)) <= 1 + Cardinality(Workers)

\* A ticket is refunded at most once: "no such active ticket" the second time.
RefundedOnce == Ledger!RefundedOnce

\* The service does what its callers are promised.  True of one worker only.
KeepsLedger == Ledger!Spec
=============================================================================
