----------------------------- MODULE BonusLedger -----------------------------
(***************************************************************************)
(* What the Bonus Service promises its callers: a bonus account per user   *)
(* whose balance changes only together with a row of its history, by the   *)
(* amount that row states; every purchase is refunded at most once, and    *)
(* the refund undoes it as far as the balance allows.                      *)
(***************************************************************************)
EXTENDS Integers, Sequences, FiniteSetsExt

CONSTANTS Users,     \* the users with a row in table privilege
          Tickets,   \* ticket identifiers
          Prices,    \* prices of purchases
          Opening,   \* the balance of a new account
          Seed       \* the ticket that the first row of an account names

\* What the modules that use this one assume of the constants.
LedgerAssumption == /\ Prices \subseteq Nat
                    /\ Opening \in Nat
                    /\ Seed \in Tickets

Operations == {"FILL_IN_BALANCE", "DEBIT_THE_ACCOUNT"}

\* Mutant of Row: an operation that the table's CHECK does not list.
RowMisspelled(t, d, o) == [ticket |-> t, diff |-> d, operation |-> "FILL_BALANCE"]

\* A row of privilege_history, without its date.
Row(t, d, o) == [ticket |-> t, diff |-> d, operation |-> o]

Rows == [ticket : Tickets, diff : Int, operation : Operations]

\* Mutant of LessOf: the second amount, whatever the first covers.
LessOfIgnored(a, b) == b

LessOf(a, b) == IF a < b THEN a ELSE b

\* The row of a purchase: paying from the balance takes as much of the price
\* as there is; otherwise a tenth of the price is credited, rounded down.
PurchaseRow(bal, t, price, paidFromBalance) ==
    IF paidFromBalance
    THEN Row(t, -LessOf(bal, price), "DEBIT_THE_ACCOUNT")
    ELSE Row(t, price \div 10, "FILL_IN_BALANCE")

\* Mutant of RefundRow: the purchase is booked once more.
RefundRowRepeats(bal, r) == r

\* The row that undoes row r: a credit is taken back as far as there is balance.
RefundRow(bal, r) ==
    IF r.operation = "DEBIT_THE_ACCOUNT"
    THEN Row(r.ticket, -r.diff, "FILL_IN_BALANCE")
    ELSE Row(r.ticket, -LessOf(r.diff, bal), "DEBIT_THE_ACCOUNT")

\* The rows of history h that name ticket t.
RowsOf(h, t) == {i \in 1..Len(h) : h[i].ticket = t}

\* Exactly one row names t: the purchase is there and is not refunded.
Refundable(h, t) == \E i \in RowsOf(h, t) : RowsOf(h, t) = {i}

\* The first row found for t.
PurchaseIndex(h, t) == CHOOSE i \in RowsOf(h, t) : \A j \in RowsOf(h, t) : i <= j

VARIABLES balance,   \* privilege.balance of each user
          history    \* privilege_history of each user, oldest row first

vars == <<balance, history>>

Init == /\ balance = [u \in Users |-> Opening]
        /\ history = [u \in Users |-> <<Row(Seed, Opening, "FILL_IN_BALANCE")>>]

Book(u, row) == /\ history' = [history EXCEPT ![u] = Append(@, row)]
                /\ balance' = [balance EXCEPT ![u] = @ + row.diff]

Buy(u, t, price, paidFromBalance) ==
    /\ \A v \in Users : RowsOf(history[v], t) = {}
    /\ Book(u, PurchaseRow(balance[u], t, price, paidFromBalance))

Return(u, t) ==
    /\ Refundable(history[u], t)
    /\ Book(u, RefundRow(balance[u], history[u][PurchaseIndex(history[u], t)]))

Next == \E u \in Users, t \in Tickets :
            \/ \E price \in Prices, paidFromBalance \in BOOLEAN : Buy(u, t, price, paidFromBalance)
            \/ Return(u, t)

Spec == Init /\ [][Next]_vars
-----------------------------------------------------------------------------
(* What callers may count on.                                              *)

\* No purchase and no refund takes more than there is (LessOf in both operations).
NonNegativeBalance == \A u \in Users : balance[u] >= 0

\* Row r undoes row p: it goes in the other direction, gives a debit back in full and takes no
\* more than was credited.
Undoes(r, p) ==
    \/ /\ p.operation = "DEBIT_THE_ACCOUNT"
       /\ r.operation = "FILL_IN_BALANCE" /\ r.diff = -p.diff
    \/ /\ p.operation = "FILL_IN_BALANCE"
       /\ r.operation = "DEBIT_THE_ACCOUNT" /\ -r.diff \in 0..p.diff

IsPurchaseRow(h, i) == \A j \in RowsOf(h, h[i].ticket) : i <= j

\* Whatever follows the first row of a ticket in a history undoes that row.
LaterRowsUndoPurchase ==
    \A u \in Users : \A i, j \in 1..Len(history[u]) :
        (i < j /\ history[u][i].ticket = history[u][j].ticket /\ IsPurchaseRow(history[u], i))
            => Undoes(history[u][j], history[u][i])

\* What the first n rows of a history add up to.
Total(h, n) == MapThenSumSet(LAMBDA i : h[i].diff, 1..n)

\* balance is what the rows add up to: the two statements of a booking never part.
AccountsBalance == \A u \in Users : balance[u] = Total(history[u], Len(history[u]))

\* A ticket has its purchase and at most one refund.
RefundedOnce == \A u \in Users, t \in Tickets : Cardinality(RowsOf(history[u], t)) <= 2

\* All of it: what Booking takes from here for the tables of the Bonus Service.
Promises == NonNegativeBalance /\ LaterRowsUndoPurchase /\ AccountsBalance /\ RefundedOnce
=============================================================================
