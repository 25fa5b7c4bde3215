----------------------------- MODULE BonusProofs -----------------------------
(***************************************************************************)
(* Proofs about BonusService: what holds however its workers interleave,   *)
(* that it implements BonusLedger if bookings of one account do not        *)
(* overlap, and how often a ticket can be refunded if they do.             *)
(***************************************************************************)
EXTENDS BonusService, FiniteSetTheorems, TLAPS

\* Worker w is about to write the first row of a ticket, and nobody else is.
Purchasing(w) ==
    /\ \A u \in Users : Ledger!RowsOf(history[u], pending[w].row.ticket) = {}
    /\ \A v \in Workers : ~Idle(v) /\ pending[v].row.ticket = pending[w].row.ticket => v = w

\* Worker w is about to write a row that undoes a purchase.
Refunding(w) ==
    \E i \in 1..Len(history[pending[w].user]) :
        /\ history[pending[w].user][i].ticket = pending[w].row.ticket
        /\ Ledger!IsPurchaseRow(history[pending[w].user], i)
        /\ Ledger!Undoes(pending[w].row, history[pending[w].user][i])

PendingSound ==
    \A w \in Workers : ~Idle(w) => /\ Ledger!Signed(pending[w].row)
                                   /\ pending[w].newBalance >= 0
                                   /\ Purchasing(w) \/ Refunding(w)

Inv == /\ TypeOK
       /\ Ledger!NonNegativeBalance
       /\ Ledger!SignedRows
       /\ PendingSound
       /\ Ledger!LaterRowsUndoPurchase

-----------------------------------------------------------------------------
(* The rows that are computed, and appended.                               *)

LEMMA Constants == Prices \subseteq Nat /\ Opening \in Nat /\ Seed \in Tickets
  BY BonusAssumption DEF BonusAssumption, Ledger!LedgerAssumption

-----------------------------------------------------------------------------
(* The steps.                                                              *)

LEMMA InvInit == Init => Inv
  <1> SUFFICES ASSUME Init PROVE Inv
    OBVIOUS
  <1>1. Ledger!Row(Seed, Opening, "FILL_IN_BALANCE") \in Ledger!Rows
    BY Constants DEF Ledger!Row, Ledger!Rows, Ledger!Operations
  <1>2. TypeOK
    BY <1>1, Constants DEF Init, Ledger!Init, TypeOK, NoWrite
  <1>3. Ledger!NonNegativeBalance
    BY Constants DEF Init, Ledger!Init, Ledger!NonNegativeBalance
  <1>4. \A u \in Users : Len(history[u]) = 1 /\ history[u][1] = Ledger!Row(Seed, Opening, "FILL_IN_BALANCE")
    BY DEF Init, Ledger!Init
  <1>5. Ledger!SignedRows /\ Ledger!LaterRowsUndoPurchase
    BY <1>4, Constants DEF Init, Ledger!SignedRows, Ledger!Signed, Ledger!LaterRowsUndoPurchase, Ledger!Row
  <1>6. PendingSound
    BY DEF Init, PendingSound, Idle
  <1> QED
    BY <1>2, <1>3, <1>5, <1>6 DEF Inv

\* The accounts stay as they are.
Frozen == UNCHANGED <<balance, history>>

\* The parts of Inv that speak of the accounts only.
LEMMA AccountsFrozen ==
    ASSUME Inv, Frozen
    PROVE  Ledger!NonNegativeBalance' /\ Ledger!SignedRows' /\ Ledger!LaterRowsUndoPurchase'
  BY DEF Inv, Frozen, Ledger!NonNegativeBalance, Ledger!SignedRows, Ledger!Signed,
         Ledger!LaterRowsUndoPurchase, Ledger!IsPurchaseRow

\* A worker that has nothing pending plans a row.
LEMMA PlanStep ==
    ASSUME Inv, Frozen, NEW w \in Workers, NEW u \in Users, NEW row \in Ledger!Rows,
           Idle(w), Plan(w, u, row), Ledger!Signed(row), balance[u] + row.diff >= 0,
           reading' \in [Readers -> Reads \cup {NoRead}],
           \A v \in Workers : ~Idle(v) /\ Purchasing(v) => pending[v].row.ticket # row.ticket,
           \/ \E i \in 1..Len(history[u]) : /\ history[u][i].ticket = row.ticket
                                            /\ Ledger!IsPurchaseRow(history[u], i)
                                            /\ Ledger!Undoes(row, history[u][i])
           \/ New(row.ticket)
    PROVE  Inv'
  <1> DEFINE p == [user |-> u, row |-> row, newBalance |-> balance[u] + row.diff]
  <1>1. p \in Writes /\ p # NoWrite
    <2>1. balance[u] \in Int /\ row.diff \in Int
      BY DEF Inv, TypeOK, Ledger!Rows
    <2>2. p \in Writes
      BY <2>1 DEF Writes
    <2>3. p # NoWrite
      <3>1. "row" \in DOMAIN p
        OBVIOUS
      <3>2. "row" \notin DOMAIN NoWrite
        BY DEF NoWrite
      <3> QED
        BY <3>1, <3>2
    <2> QED
      BY <2>2, <2>3
  <1>2. pending' = [pending EXCEPT ![w] = p]
    BY DEF Plan, NewBalance
  <1>3. pending'[w] = p /\ \A v \in Workers \ {w} : pending'[v] = pending[v] /\ (Idle(v)' <=> Idle(v))
    BY <1>2 DEF Inv, TypeOK, Idle
  <1>r. pending'[w].row = row /\ pending'[w].user = u /\ pending'[w].newBalance = balance[u] + row.diff
    BY <1>3
  <1>4. TypeOK'
    BY <1>1, <1>2 DEF Inv, TypeOK, Frozen
  <1>6. PendingSound'
    <2> SUFFICES ASSUME NEW v \in Workers, ~Idle(v)'
                 PROVE  /\ Ledger!Signed(pending[v].row)' /\ (pending[v].newBalance >= 0)'
                        /\ (Purchasing(v) \/ Refunding(v))'
      BY DEF PendingSound
    <2>1. CASE v = w
      <3>1. Ledger!Signed(pending[v].row)' /\ (pending[v].newBalance >= 0)'
        BY <1>3, <2>1 DEF Ledger!Signed
      <3>2. CASE New(row.ticket)
        <4>1. \A x \in Users : Ledger!RowsOf(history[x], row.ticket) = {}
          BY <3>2 DEF New
        <4>2. \A x \in Workers \ {w} : ~Idle(x) => pending[x].row.ticket # row.ticket
          BY <3>2 DEF New
        <4>3. Purchasing(w)'
          <5>1. \A x \in Users : Ledger!RowsOf(history[x], row.ticket)' = {}
            BY <4>1 DEF Frozen
          <5>2. \A x \in Workers : ~Idle(x)' /\ pending'[x].row.ticket = row.ticket => x = w
            BY <1>3, <4>2
          <5> QED
            BY <1>r, <5>1, <5>2 DEF Purchasing, Frozen
        <4> QED
          BY <2>1, <3>1, <4>3
      <3>3. CASE ~New(row.ticket)
        BY <1>r, <2>1, <3>1, <3>3 DEF Refunding, Frozen
      <3> QED
        BY <3>2, <3>3
    <2>2. CASE v # w
      <3>1. ~Idle(v) /\ pending'[v] = pending[v]
        BY <1>3, <2>2
      <3>2. Ledger!Signed(pending[v].row)' /\ (pending[v].newBalance >= 0)'
        BY <3>1 DEF Inv, PendingSound, Ledger!Signed
      <3>3. Refunding(v) => Refunding(v)'
        BY <3>1 DEF Refunding, Frozen
      <3>4. ASSUME Purchasing(v) PROVE Purchasing(v)'
        <4>1. \A x \in Users : Ledger!RowsOf(history[x], pending[v].row.ticket)' = {}
          BY <3>1, <3>4 DEF Purchasing, Frozen
        <4>2. \A x \in Workers : ~Idle(x)' /\ pending'[x].row.ticket = pending[v].row.ticket => x = v
          <5> SUFFICES ASSUME NEW x \in Workers, ~Idle(x)',
                              pending'[x].row.ticket = pending[v].row.ticket, x # v
                       PROVE  FALSE
            OBVIOUS
          <5>1. CASE x = w
            BY <1>r, <3>1, <3>4, <5>1
          <5>2. CASE x # w
            BY <1>3, <3>1, <3>4, <5>2 DEF Purchasing
          <5> QED
            BY <5>1, <5>2
        <4> QED
          BY <3>1, <4>1, <4>2 DEF Purchasing
      <3> QED
        BY <3>1, <3>2, <3>3, <3>4 DEF Inv, PendingSound
    <2> QED
      BY <2>1, <2>2
  <1> QED
    BY <1>4, <1>6, AccountsFrozen DEF Inv

LEMMA PurchaseReadStep ==
    ASSUME Inv, NEW w \in Workers, NEW u \in Users, NEW t \in Tickets, New(t), ReadForPurchase(w, u, t)
    PROVE  Inv'
  <1>1. PICK price \in Prices, paid \in BOOLEAN :
            Plan(w, u, Ledger!PurchaseRow(balance[u], t, price, paid))
    BY DEF ReadForPurchase
  <1> DEFINE row == Ledger!PurchaseRow(balance[u], t, price, paid)
  <1>2. balance[u] \in Nat /\ price \in Nat
    BY Constants DEF Inv, TypeOK, Ledger!NonNegativeBalance
  <1>3. row \in Ledger!Rows /\ row.ticket = t /\ Ledger!Signed(row) /\ balance[u] + row.diff >= 0
    BY <1>2, Ledger!PurchaseRowSound
  <1>4. \A v \in Workers : ~Idle(v) => pending[v].row.ticket # t
    BY DEF New
  <1>5. Frozen /\ Idle(w) /\ reading' \in [Readers -> Reads \cup {NoRead}]
    BY DEF ReadForPurchase, Frozen, Inv, TypeOK
  <1> HIDE DEF row
  <1> QED
    BY <1>1, <1>3, <1>4, <1>5, PlanStep DEF row

LEMMA ReturnReadStep ==
    ASSUME Inv, NEW w \in Workers, NEW u \in Users, NEW t \in Tickets, ReadForReturn(w, u, t)
    PROVE  Inv'
  <1> DEFINE i == Ledger!PurchaseIndex(history[u], t)
             row == Ledger!RefundRow(balance[u], history[u][i])
  <1>1. Ledger!Refundable(history[u], t) /\ Plan(w, u, row)
    BY DEF ReadForReturn, ActiveTicket
  <1>2. history[u] \in Seq(Ledger!Rows) /\ balance[u] \in Nat
    BY DEF Inv, TypeOK, Ledger!NonNegativeBalance
  <1>3. i \in 1..Len(history[u]) /\ history[u][i].ticket = t /\ Ledger!IsPurchaseRow(history[u], i)
    BY <1>1, <1>2, Ledger!PurchaseIndexSound
  <1>4. history[u][i] \in Ledger!Rows /\ Ledger!Signed(history[u][i])
    BY <1>2, <1>3 DEF Inv, Ledger!SignedRows
  <1>5. /\ row \in Ledger!Rows /\ row.ticket = t /\ Ledger!Signed(row) /\ balance[u] + row.diff >= 0
        /\ Ledger!Undoes(row, history[u][i])
    BY <1>2, <1>3, <1>4, Ledger!RefundRowSound
  <1>6. \A v \in Workers : ~Idle(v) /\ Purchasing(v) => pending[v].row.ticket # t
    BY <1>3 DEF Purchasing, Ledger!RowsOf
  <1>7. Frozen /\ Idle(w) /\ reading' \in [Readers -> Reads \cup {NoRead}]
    BY DEF ReadForReturn, Frozen, Inv, TypeOK
  <1> HIDE DEF row, i
  <1> QED
    BY <1>1, <1>3, <1>5, <1>6, <1>7, PlanStep DEF row, i

\* Requests that end without writing: nothing new is pending.
LEMMA NoWriteStep ==
    ASSUME Inv, Frozen,
           reading' \in [Readers -> Reads \cup {NoRead}],
           pending' \in [Workers -> Writes \cup {NoWrite}],
           \A v \in Workers : pending'[v] \in {pending[v], NoWrite}
    PROVE  Inv'
  <1>1. TypeOK'
    BY DEF Inv, TypeOK, Frozen
  <1>2. \A v \in Workers : ~Idle(v)' => ~Idle(v) /\ pending'[v] = pending[v]
    BY DEF Idle
  <1>4. PendingSound'
    <2> SUFFICES ASSUME NEW v \in Workers, ~Idle(v)'
                 PROVE  /\ Ledger!Signed(pending[v].row)' /\ (pending[v].newBalance >= 0)'
                        /\ (Purchasing(v) \/ Refunding(v))'
      BY DEF PendingSound
    <2>1. ~Idle(v) /\ pending'[v] = pending[v]
      BY <1>2
    <2>2. Ledger!Signed(pending[v].row)' /\ (pending[v].newBalance >= 0)'
      BY <2>1 DEF Inv, PendingSound, Ledger!Signed
    <2>3. Refunding(v) => Refunding(v)'
      BY <2>1 DEF Refunding, Frozen
    <2>4. Purchasing(v) => Purchasing(v)'
      BY <1>2, <2>1 DEF Purchasing, Frozen
    <2> QED
      BY <2>1, <2>2, <2>3, <2>4 DEF Inv, PendingSound
  <1> QED
    BY <1>1, <1>4, AccountsFrozen DEF Inv

\* The transaction of worker w commits.
LEMMA WriteStep ==
    ASSUME Inv, NEW w \in Workers, Write(w)
    PROVE  Inv'
  <1> DEFINE p == pending[w]
             h == history[p.user]
             n == Len(h) + 1
  <1>1. ~Idle(w) /\ p \in Writes
    BY DEF Write, Inv, TypeOK, Idle
  <1>2. p.user \in Users /\ p.row \in Ledger!Rows /\ p.newBalance \in Int
    BY <1>1 DEF Writes
  <1>3. h \in Seq(Ledger!Rows) /\ Len(h) \in Nat
    BY <1>2 DEF Inv, TypeOK
  <1>4. /\ history' = [history EXCEPT ![p.user] = Append(h, p.row)]
        /\ balance' = [balance EXCEPT ![p.user] = p.newBalance]
        /\ pending' = [pending EXCEPT ![w] = NoWrite]
        /\ reading' \in [Readers -> Reads \cup {NoRead}]
    BY DEF Write, Finish, Inv, TypeOK
  <1>5. /\ history'[p.user] = Append(h, p.row)
        /\ \A u \in Users \ {p.user} : history'[u] = history[u]
    BY <1>2, <1>4 DEF Inv, TypeOK
  <1>6. /\ Append(h, p.row) \in Seq(Ledger!Rows)
        /\ Len(history'[p.user]) = n
        /\ history'[p.user][n] = p.row
        /\ \A i \in 1..Len(h) : history'[p.user][i] = h[i]
        /\ \A i \in 1..Len(h) : Ledger!IsPurchaseRow(history'[p.user], i) <=> Ledger!IsPurchaseRow(h, i)
    <2>1. LET g == Append(h, p.row)
          IN  /\ g \in Seq(Ledger!Rows)
              /\ Len(g) = n
              /\ g[n] = p.row
              /\ \A i \in 1..Len(h) : g[i] = h[i]
              /\ \A i \in 1..Len(h) : Ledger!IsPurchaseRow(g, i) <=> Ledger!IsPurchaseRow(h, i)
      <3> HIDE DEF p, h
      <3> QED
        BY <1>2, <1>3, Ledger!AppendRow
    <2> HIDE DEF p, h, n
    <2> QED
      BY <1>5, <2>1
  <1>7. Ledger!Signed(p.row) /\ p.newBalance >= 0 /\ (Purchasing(w) \/ Refunding(w))
    BY <1>1 DEF Inv, PendingSound
  <1>8. Idle(w)' /\ \A v \in Workers \ {w} : pending'[v] = pending[v] /\ (Idle(v)' <=> Idle(v))
    BY <1>4 DEF Inv, TypeOK, Idle
  <1> HIDE DEF p, h, n
  <1>9. TypeOK'
    BY <1>2, <1>4, <1>6 DEF Inv, TypeOK
  <1>10. Ledger!NonNegativeBalance'
    BY <1>2, <1>4, <1>7 DEF Inv, TypeOK, Ledger!NonNegativeBalance
  <1>11. Ledger!SignedRows'
    <2> SUFFICES ASSUME NEW u \in Users, NEW i \in 1..Len(history'[u]) PROVE Ledger!Signed(history'[u][i])
      BY DEF Ledger!SignedRows, Ledger!Signed
    <2>1. CASE u = p.user /\ i = n
      BY <1>6, <1>7, <2>1
    <2>2. CASE u = p.user /\ i # n
      <3>1. i \in 1..Len(h)
        BY <1>3, <1>6, <2>2 DEF n
      <3>2. Ledger!Signed(h[i])
        BY <1>2, <3>1 DEF Inv, Ledger!SignedRows, h
      <3> QED
        BY <1>6, <2>2, <3>1, <3>2
    <2>3. CASE u # p.user
      BY <1>5, <2>3 DEF Inv, Ledger!SignedRows
    <2> QED
      BY <2>1, <2>2, <2>3
  <1>13. Ledger!LaterRowsUndoPurchase'
    <2> SUFFICES ASSUME NEW u \in Users, NEW i \in 1..Len(history'[u]), NEW j \in 1..Len(history'[u]),
                        i < j, history'[u][i].ticket = history'[u][j].ticket,
                        Ledger!IsPurchaseRow(history'[u], i)
                 PROVE  Ledger!Undoes(history'[u][j], history'[u][i])
      BY DEF Ledger!LaterRowsUndoPurchase, Ledger!Undoes, Ledger!IsPurchaseRow
    <2>1. CASE u # p.user
      BY <1>5, <2>1 DEF Inv, Ledger!LaterRowsUndoPurchase
    <2>2. CASE u = p.user /\ j # n
      <3>1. i \in 1..Len(h) /\ j \in 1..Len(h)
        BY <1>3, <1>6, <2>2 DEF n
      <3>2. history'[u][i] = h[i] /\ history'[u][j] = h[j] /\ Ledger!IsPurchaseRow(h, i)
        BY <1>6, <2>2, <3>1
      <3> QED
        BY <1>2, <2>2, <3>1, <3>2 DEF Inv, Ledger!LaterRowsUndoPurchase, h
    <2>3. CASE u = p.user /\ j = n
      <3>1. i \in 1..Len(h) /\ history'[u][i] = h[i] /\ Ledger!IsPurchaseRow(h, i) /\ h[i].ticket = p.row.ticket
        BY <1>3, <1>6, <2>3 DEF n
      <3>2. ~Purchasing(w)
        BY <1>2, <3>1 DEF Purchasing, Ledger!RowsOf, h, p
      <3>3. PICK k \in 1..Len(h) : /\ h[k].ticket = p.row.ticket /\ Ledger!IsPurchaseRow(h, k)
                                   /\ Ledger!Undoes(p.row, h[k])
        BY <1>7, <3>2 DEF Refunding, h, p
      <3>4. i = k
        BY <1>3, <3>1, <3>3 DEF Ledger!IsPurchaseRow, Ledger!RowsOf
      <3> QED
        BY <1>6, <2>3, <3>1, <3>3, <3>4
    <2> QED
      BY <2>1, <2>2, <2>3
  <1>14. PendingSound'
    <2> SUFFICES ASSUME NEW v \in Workers, ~Idle(v)'
                 PROVE  /\ Ledger!Signed(pending[v].row)' /\ (pending[v].newBalance >= 0)'
                        /\ (Purchasing(v) \/ Refunding(v))'
      BY DEF PendingSound
    <2>1. v # w /\ ~Idle(v) /\ pending'[v] = pending[v]
      BY <1>8
    <2>2. Ledger!Signed(pending[v].row)' /\ (pending[v].newBalance >= 0)'
      BY <2>1 DEF Inv, PendingSound, Ledger!Signed
    <2>3. pending[v].user \in Users
      BY <2>1 DEF Inv, TypeOK, Idle, Writes
    <2>4. ASSUME Refunding(v) PROVE Refunding(v)'
      <3>1. PICK k \in 1..Len(history[pending[v].user]) :
                /\ history[pending[v].user][k].ticket = pending[v].row.ticket
                /\ Ledger!IsPurchaseRow(history[pending[v].user], k)
                /\ Ledger!Undoes(pending[v].row, history[pending[v].user][k])
        BY <2>4 DEF Refunding
      <3>2. /\ k \in 1..Len(history'[pending[v].user])
            /\ history'[pending[v].user][k] = history[pending[v].user][k]
            /\ Ledger!IsPurchaseRow(history'[pending[v].user], k)
        <4>1. CASE pending[v].user = p.user
          BY <1>3, <1>6, <3>1, <4>1 DEF h, n
        <4>2. CASE pending[v].user # p.user
          BY <1>5, <2>3, <3>1, <4>2
        <4> QED
          BY <4>1, <4>2
      <3> QED
        BY <2>1, <3>1, <3>2 DEF Refunding
    <2>5. ASSUME Purchasing(v) PROVE Purchasing(v)'
      <3>1. p.row.ticket # pending[v].row.ticket
        BY <1>1, <2>1, <2>5 DEF Purchasing, p
      <3>2. ASSUME NEW u \in Users PROVE Ledger!RowsOf(history'[u], pending[v].row.ticket) = {}
        <4>1. Ledger!RowsOf(history[u], pending[v].row.ticket) = {}
          BY <2>5 DEF Purchasing
        <4>2. CASE u # p.user
          BY <1>5, <4>1, <4>2
        <4>3. CASE u = p.user
          <5>1. \A k \in 1..Len(history'[u]) : k \in 1..Len(h) \/ k = n
            BY <1>3, <1>6, <4>3 DEF n
          <5>2. \A k \in 1..Len(h) : history'[u][k].ticket # pending[v].row.ticket
            BY <1>6, <4>1, <4>3 DEF Ledger!RowsOf, h
          <5> QED
            BY <1>6, <3>1, <4>3, <5>1, <5>2 DEF Ledger!RowsOf
        <4> QED
          BY <4>2, <4>3
      <3> QED
        BY <1>8, <2>1, <2>5, <3>2 DEF Purchasing, Ledger!RowsOf
    <2> QED
      BY <2>1, <2>2, <2>4, <2>5 DEF Inv, PendingSound
  <1> QED
    BY <1>9, <1>10, <1>11, <1>13, <1>14 DEF Inv

LEMMA InvStep == Inv /\ [Next]_vars => Inv'
  <1> SUFFICES ASSUME Inv, [Next]_vars PROVE Inv'
    OBVIOUS
  <1>1. ASSUME NEW w \in Workers, NEW u \in Users, NEW t \in Tickets,
               (New(t) /\ ReadForPurchase(w, u, t)) \/ ReadForReturn(w, u, t)
        PROVE  Inv'
    BY <1>1, PurchaseReadStep, ReturnReadStep
  <1>3. ASSUME NEW w \in Workers, Write(w) PROVE Inv'
    BY <1>3, WriteStep
  <1>5. ASSUME NEW w \in Workers, WriteFails(w) PROVE Inv'
    <2>1. Frozen /\ pending' = [pending EXCEPT ![w] = NoWrite]
      BY <1>5 DEF WriteFails, Finish, Frozen
    <2>2. reading' \in [Readers -> Reads \cup {NoRead}]
      BY <1>5 DEF WriteFails, Inv, TypeOK
    <2>4. /\ pending' \in [Workers -> Writes \cup {NoWrite}]
          /\ \A v \in Workers : pending'[v] \in {pending[v], NoWrite}
      BY <2>1 DEF Inv, TypeOK
    <2> QED
      BY <2>1, <2>2, <2>4, NoWriteStep
  <1>6. CASE UNCHANGED vars
    BY <1>6, NoWriteStep DEF vars, Frozen, Inv, TypeOK
  <1>7. ASSUME NEW r \in Readers, ReadBalance(r) \/ ReadHistory(r) PROVE Inv'
    <2>1. \A u \in Users : [user |-> u, balance |-> balance[u]] \in Reads
      BY DEF Inv, TypeOK, Reads
    <2>2. reading' \in [Readers -> Reads \cup {NoRead}]
      BY <1>7, <2>1 DEF ReadBalance, ReadHistory, Inv, TypeOK
    <2> QED
      BY <1>7, <2>2, NoWriteStep DEF ReadBalance, ReadHistory, Frozen, Inv, TypeOK
  <1> QED
    BY <1>1, <1>3, <1>5, <1>6, <1>7 DEF Next

LEMMA Invariant == Spec => []Inv
  BY InvInit, InvStep, PTL DEF Spec

\* Every variable of the service keeps its type.
THEOREM TypeCorrect == Spec => []TypeOK
  BY Invariant, PTL DEF Inv

\* No interleaving of any number of workers makes a balance negative.
THEOREM BalanceStaysNonNegative == Spec => []NonNegativeBalance
  BY Invariant, PTL DEF Inv, NonNegativeBalance

\* No interleaving of any number of workers writes a refund that goes the wrong
\* way or beyond its purchase.
THEOREM RefundsUndoPurchases == Spec => []LaterRowsUndoPurchase
  BY Invariant, PTL DEF Inv, LaterRowsUndoPurchase

-----------------------------------------------------------------------------
(* Bookings of one account kept apart: what is pending was computed from   *)
(* the accounts as they are.                                               *)

BooksPurchase(u, row) ==
    \E price \in Prices, paid \in BOOLEAN :
        /\ row = Ledger!PurchaseRow(balance[u], row.ticket, price, paid)
        /\ \A v \in Users : Ledger!RowsOf(history[v], row.ticket) = {}

BooksReturn(u, row) ==
    /\ Ledger!Refundable(history[u], row.ticket)
    /\ row = Ledger!RefundRow(balance[u], history[u][Ledger!PurchaseIndex(history[u], row.ticket)])

\* Worker w would write what is right now.
Current(w) ==
    /\ pending[w].newBalance = balance[pending[w].user] + pending[w].row.diff
    /\ BooksPurchase(pending[w].user, pending[w].row) \/ BooksReturn(pending[w].user, pending[w].row)

PendingCurrent == \A w \in Workers : ~Idle(w) => Current(w)

\* No two workers are between read and write in the same account: what a lock of the
\* account's row would give, and what the code leaves to its callers.
KeptApart ==
    \A v, w \in Workers : ~Idle(v) /\ ~Idle(w) /\ pending[v].user = pending[w].user => v = w

\* A planned row is current, and the others stay so.
LEMMA PlanCurrent ==
    ASSUME PendingCurrent, TypeOK, Frozen, NEW w \in Workers, NEW u \in Users, NEW row, Plan(w, u, row),
           BooksPurchase(u, row) \/ BooksReturn(u, row)
    PROVE  PendingCurrent'
  <1>1. pending'[w] = [user |-> u, row |-> row, newBalance |-> balance[u] + row.diff]
    BY DEF Plan, NewBalance, TypeOK
  <1>2. pending'[w].user = u /\ pending'[w].row = row /\ pending'[w].newBalance = balance[u] + row.diff
    BY <1>1
  <1>3. BooksPurchase(u, row) => BooksPurchase(pending[w].user, pending[w].row)'
    BY <1>2 DEF BooksPurchase, Frozen
  <1>4. BooksReturn(u, row) => BooksReturn(pending[w].user, pending[w].row)'
    BY <1>2 DEF BooksReturn, Frozen
  <1>5. Current(w)'
    BY <1>2, <1>3, <1>4 DEF Current, Frozen
  <1>6. ASSUME NEW v \in Workers, v # w, ~Idle(v)'
        PROVE  Current(v)'
    <2>1. pending'[v] = pending[v]
      BY <1>6 DEF Plan, TypeOK
    <2>2. Current(v)
      BY <1>6, <2>1 DEF Idle, PendingCurrent
    <2> QED
      BY <2>1, <2>2 DEF Current, BooksPurchase, BooksReturn, Frozen
  <1> QED
    BY <1>5, <1>6 DEF PendingCurrent

\* A row written to one account leaves what is pending for the others current.
LEMMA WriteCurrent ==
    ASSUME Inv, PendingCurrent, KeptApart, NEW w \in Workers, Write(w)
    PROVE  PendingCurrent'
  <1> DEFINE p == pending[w]
  <1>1. ~Idle(w) /\ p \in Writes
    BY DEF Write, Inv, TypeOK, Idle
  <1>2. p.user \in Users /\ p.row \in Ledger!Rows
    BY <1>1 DEF Writes
  <1>3. /\ \A u \in Users : u # p.user => history'[u] = history[u] /\ balance'[u] = balance[u]
        /\ history'[p.user] = Append(history[p.user], p.row)
    BY <1>2 DEF Write, Inv, TypeOK
  <1>4. SUFFICES ASSUME NEW v \in Workers, ~Idle(v)' PROVE Current(v)'
    BY DEF PendingCurrent
  <1>5. v # w /\ pending'[v] = pending[v] /\ ~Idle(v)
    BY <1>4 DEF Write, Finish, Idle, Inv, TypeOK
  <1> DEFINE u == pending[v].user
             row == pending[v].row
  <1>6. u \in Users /\ u # p.user
    BY <1>1, <1>5 DEF KeptApart, Writes, Inv, TypeOK, Idle
  <1>7. history'[u] = history[u] /\ balance'[u] = balance[u]
    BY <1>3, <1>6
  <1>8. Current(v)
    BY <1>5 DEF PendingCurrent
  <1>9. CASE BooksReturn(u, row)
    <2>1. BooksReturn(u, row)'
      BY <1>5, <1>7, <1>9 DEF BooksReturn
    <2> QED
      BY <1>5, <1>7, <1>8, <2>1 DEF Current
  <1>10. CASE BooksPurchase(u, row)
    <2>1. Purchasing(v)
      <3>1. Ledger!RowsOf(history[u], row.ticket) = {}
        BY <1>6, <1>10 DEF BooksPurchase
      <3>2. ~Refunding(v)
        BY <3>1 DEF Refunding, Ledger!RowsOf
      <3> QED
        BY <1>5, <3>2 DEF Inv, PendingSound
    <2>2. p.row.ticket # row.ticket
      BY <1>1, <1>5, <2>1 DEF Purchasing
    <2>3. ASSUME NEW x \in Users PROVE Ledger!RowsOf(history'[x], row.ticket) = {}
      <3>1. Ledger!RowsOf(history[x], row.ticket) = {}
        BY <1>10 DEF BooksPurchase
      <3>2. CASE x = p.user
        <4>1. history[x] \in Seq(Ledger!Rows) /\ history'[x] = Append(history[x], p.row)
          BY <1>3, <3>2 DEF Inv, TypeOK
        <4>2. /\ Len(history'[x]) = Len(history[x]) + 1 /\ history'[x][Len(history[x]) + 1] = p.row
              /\ \A i \in 1..Len(history[x]) : history'[x][i] = history[x][i]
          BY <1>2, <4>1, Ledger!AppendRow
        <4>3. Len(history[x]) \in Nat
          BY <4>1
        <4>4. ASSUME NEW i \in 1..Len(history'[x]) PROVE history'[x][i].ticket # row.ticket
          <5>1. CASE i \in 1..Len(history[x])
            BY <3>1, <4>2, <5>1 DEF Ledger!RowsOf
          <5>2. CASE i = Len(history[x]) + 1
            BY <2>2, <4>2, <5>2
          <5> QED
            BY <4>2, <4>3, <5>1, <5>2
        <4> QED
          BY <4>4 DEF Ledger!RowsOf
      <3> QED
        BY <1>3, <3>1, <3>2
    <2>4. BooksPurchase(u, row)'
      BY <1>5, <1>7, <1>10, <2>3 DEF BooksPurchase
    <2> QED
      BY <1>5, <1>7, <1>8, <2>4 DEF Current
  <1> QED
    BY <1>8, <1>9, <1>10 DEF Current

\* A committed row is a step of the ledger.
LEMMA WriteMaps ==
    ASSUME Inv, PendingCurrent, NEW w \in Workers, Write(w)
    PROVE  Ledger!Next
  <1> DEFINE p == pending[w]
  <1>1. ~Idle(w) /\ p \in Writes
    BY DEF Write, Inv, TypeOK, Idle
  <1>2. p.user \in Users /\ p.row \in Ledger!Rows
    BY <1>1 DEF Writes
  <1>3. p.row.ticket \in Tickets
    BY <1>2 DEF Ledger!Rows
  <1>4. p.newBalance = balance[p.user] + p.row.diff
    BY <1>1 DEF PendingCurrent, Current
  <1>5. Ledger!Book(p.user, p.row)
    BY <1>4 DEF Ledger!Book, Write, Inv, TypeOK
  <1>6. CASE BooksPurchase(p.user, p.row)
    <2>1. PICK price \in Prices, paid \in BOOLEAN :
              /\ p.row = Ledger!PurchaseRow(balance[p.user], p.row.ticket, price, paid)
              /\ \A v \in Users : Ledger!RowsOf(history[v], p.row.ticket) = {}
      BY <1>6 DEF BooksPurchase
    <2>2. Ledger!Buy(p.user, p.row.ticket, price, paid)
      BY <1>5, <2>1 DEF Ledger!Buy
    <2> QED
      BY <1>2, <1>3, <2>2 DEF Ledger!Next
  <1>7. CASE BooksReturn(p.user, p.row)
    <2>1. Ledger!Return(p.user, p.row.ticket)
      BY <1>5, <1>7 DEF Ledger!Return, BooksReturn
    <2> QED
      BY <1>2, <1>3, <2>1 DEF Ledger!Next
  <1> QED
    BY <1>1, <1>6, <1>7 DEF PendingCurrent, Current

LEMMA CurrentStep ==
    ASSUME KeptApart, Inv, PendingCurrent, [Next]_vars
    PROVE  PendingCurrent' /\ [Ledger!Next]_Ledger!vars
  <1>1. ASSUME NEW w \in Workers, NEW u \in Users, NEW t \in Tickets, New(t), ReadForPurchase(w, u, t)
        PROVE  PendingCurrent' /\ [Ledger!Next]_Ledger!vars
    <2>1. Frozen
      BY <1>1 DEF ReadForPurchase, Frozen
    <2>2. PICK price \in Prices, paid \in BOOLEAN :
              Plan(w, u, Ledger!PurchaseRow(balance[u], t, price, paid))
      BY <1>1 DEF ReadForPurchase
    <2> DEFINE row == Ledger!PurchaseRow(balance[u], t, price, paid)
    <2>3. row.ticket = t
      BY DEF Ledger!PurchaseRow, Ledger!Row
    <2>4. BooksPurchase(u, row)
      BY <1>1, <2>3 DEF BooksPurchase, New
    <2> HIDE DEF row
    <2>5. PendingCurrent'
      BY <2>1, <2>2, <2>4, PlanCurrent DEF Inv, row
    <2> QED
      BY <2>1, <2>5 DEF Frozen, Ledger!vars
  <1>2. ASSUME NEW w \in Workers, NEW u \in Users, NEW t \in Tickets, ReadForReturn(w, u, t)
        PROVE  PendingCurrent' /\ [Ledger!Next]_Ledger!vars
    <2> DEFINE i == Ledger!PurchaseIndex(history[u], t)
               row == Ledger!RefundRow(balance[u], history[u][i])
    <2>1. Frozen
      BY <1>2 DEF ReadForReturn, Frozen
    <2>2. Ledger!Refundable(history[u], t) /\ Plan(w, u, row)
      BY <1>2 DEF ReadForReturn, ActiveTicket
    <2>3. history[u] \in Seq(Ledger!Rows)
      BY DEF Inv, TypeOK
    <2>4. history[u][i].ticket = t
      BY <2>2, <2>3, Ledger!PurchaseIndexSound
    <2>5. row.ticket = t
      BY <2>4 DEF Ledger!RefundRow, Ledger!Row
    <2>6. BooksReturn(u, row)
      BY <2>2, <2>5 DEF BooksReturn
    <2> HIDE DEF row, i
    <2>7. PendingCurrent'
      BY <2>1, <2>2, <2>6, PlanCurrent DEF Inv, row, i
    <2> QED
      BY <2>1, <2>7 DEF Frozen, Ledger!vars
  <1>3. ASSUME NEW w \in Workers, Write(w)
        PROVE  PendingCurrent' /\ [Ledger!Next]_Ledger!vars
    BY <1>3, WriteCurrent, WriteMaps
  <1>4. ASSUME NEW w \in Workers, WriteFails(w)
        PROVE  PendingCurrent' /\ [Ledger!Next]_Ledger!vars
    <2>1. \A v \in Workers : ~Idle(v)' => ~Idle(v) /\ pending'[v] = pending[v]
      BY <1>4 DEF WriteFails, Finish, Idle, Inv, TypeOK
    <2>2. balance' = balance /\ history' = history
      BY <1>4 DEF WriteFails
    <2>3. ASSUME NEW v \in Workers, ~Idle(v)' PROVE Current(v)'
      <3>1. Current(v) /\ pending'[v] = pending[v]
        BY <2>1, <2>3 DEF PendingCurrent
      <3> QED
        BY <2>2, <3>1 DEF Current, BooksPurchase, BooksReturn
    <2> QED
      BY <2>2, <2>3 DEF PendingCurrent, Ledger!vars
  <1>5. CASE UNCHANGED <<balance, history, pending>>
    BY <1>5 DEF PendingCurrent, Current, Idle, BooksPurchase, BooksReturn, Ledger!vars
  <1> QED
    BY <1>1, <1>2, <1>3, <1>4, <1>5 DEF Next, vars, ReadBalance, ReadHistory

\* However many workers there are, the service implements the ledger as long as the bookings of
\* one account do not overlap: that is all that lies between the code and its promise.
THEOREM BookingsApartKeepLedger == Spec /\ []KeptApart => KeepsLedger
  <1>1. Init => PendingCurrent /\ Ledger!Init
    BY DEF Init, PendingCurrent, Idle
  <1>2. KeptApart /\ Inv /\ PendingCurrent /\ [Next]_vars => PendingCurrent' /\ [Ledger!Next]_Ledger!vars
    BY CurrentStep
  <1> QED
    BY <1>1, <1>2, Invariant, PTL DEF Spec, KeepsLedger, Ledger!Spec

-----------------------------------------------------------------------------
(* What the ledger promises, and what readers get.                         *)

LEMMA PromisesInherited == Spec /\ []KeptApart => []Ledger!Promises
  <1>1. Ledger!LedgerAssumption
    BY BonusAssumption DEF BonusAssumption
  <1>2. Ledger!Spec => []Ledger!Promises
    BY <1>1, Ledger!PromisesKept
  <1> QED
    BY <1>2, BookingsApartKeepLedger, PTL DEF KeepsLedger

\* The balance of every account is what the rows of its history add up to, as long as the
\* bookings of one account do not overlap.
THEOREM BookingsApartAddUp == Spec /\ []KeptApart => []AccountsBalance
  <1>1. Ledger!Promises => AccountsBalance
    BY DEF Ledger!Promises, AccountsBalance, Ledger!AccountsBalance
  <1> QED
    BY <1>1, PromisesInherited, PTL

\* Each ticket is refunded at most once, as long as the bookings of one account do not overlap.
THEOREM BookingsApartRefundOnce == Spec /\ []KeptApart => []RefundedOnce
  <1>1. Ledger!Promises => RefundedOnce
    BY DEF Ledger!Promises, RefundedOnce
  <1> QED
    BY <1>1, PromisesInherited, PTL

\* Rows are only appended.
LEMMA AppendsOnly ==
    ASSUME Inv, [Next]_vars, NEW u \in Users
    PROVE  \/ history'[u] = history[u]
           \/ \E row \in Ledger!Rows : history'[u] = Append(history[u], row)
  <1>1. ASSUME NEW w \in Workers, Write(w)
        PROVE  \/ history'[u] = history[u]
               \/ \E row \in Ledger!Rows : history'[u] = Append(history[u], row)
    <2>1. pending[w] \in Writes
      BY <1>1 DEF Write, Inv, TypeOK, Idle
    <2>2. pending[w].row \in Ledger!Rows
      BY <2>1 DEF Writes
    <2>3. history' = [history EXCEPT ![pending[w].user] = Append(history[pending[w].user], pending[w].row)]
      BY <1>1 DEF Write
    <2>4. history'[u] = IF u = pending[w].user THEN Append(history[u], pending[w].row) ELSE history[u]
      BY <2>3 DEF Inv, TypeOK
    <2> QED
      BY <2>2, <2>4
  <1>2. CASE UNCHANGED history
    BY <1>2
  <1> QED
    BY <1>1, <1>2 DEF Next, vars, ReadForPurchase, ReadForReturn,
                      WriteFails, ReadBalance, ReadHistory

\* What a reader holds: the balance of this moment, or of an earlier one.
LEMMA ReadsKeepTotal ==
    ASSUME Inv, Ledger!AccountsBalance, BalanceAnsweredIsPast, [Next]_vars
    PROVE  BalanceAnsweredIsPast'
  <1> SUFFICES ASSUME NEW r \in Readers, reading'[r] # NoRead
               PROVE  \E n \in 0..Len(history'[reading'[r].user]) :
                          reading'[r].balance = Ledger!Total(history'[reading'[r].user], n)
    BY DEF BalanceAnsweredIsPast, Ledger!Total, Ledger!MapThenSumSet, Ledger!MapThenFoldSet
  <1>1. CASE reading' = reading
    <2> DEFINE v == reading[r].user
    <2>1. v \in Users /\ history[v] \in Seq(Ledger!Rows)
      BY <1>1 DEF Inv, TypeOK, Reads
    <2>2. PICK n \in 0..Len(history[v]) : reading[r].balance = Ledger!Total(history[v], n)
      BY <1>1 DEF BalanceAnsweredIsPast
    <2>3. \/ history'[v] = history[v]
          \/ \E row \in Ledger!Rows : history'[v] = Append(history[v], row)
      BY <2>1, AppendsOnly
    <2> HIDE DEF v
    <2>4. CASE history'[v] = history[v]
      BY <1>1, <2>2, <2>4 DEF v
    <2>5. ASSUME NEW row \in Ledger!Rows, history'[v] = Append(history[v], row)
          PROVE  n \in 0..Len(history'[v]) /\ reading[r].balance = Ledger!Total(history'[v], n)
      BY <2>1, <2>2, <2>5, Ledger!AppendRow, Ledger!TotalOfAppend
    <2> QED
      BY <1>1, <2>3, <2>4, <2>5 DEF v
  <1>2. ASSUME NEW s \in Readers, ReadHistory(s)
        PROVE  \E n \in 0..Len(history'[reading'[r].user]) :
                   reading'[r].balance = Ledger!Total(history'[reading'[r].user], n)
    <2>1. s # r /\ reading'[r] = reading[r] /\ history' = history
      BY <1>2 DEF ReadHistory, Inv, TypeOK
    <2> QED
      BY <2>1 DEF BalanceAnsweredIsPast
  <1>3. ASSUME NEW s \in Readers, ReadBalance(s)
        PROVE  \E n \in 0..Len(history'[reading'[r].user]) :
                   reading'[r].balance = Ledger!Total(history'[reading'[r].user], n)
    <2>1. history' = history
      BY <1>3 DEF ReadBalance
    <2>2. CASE s # r
      <3>1. reading'[r] = reading[r]
        BY <1>3, <2>2 DEF ReadBalance, Inv, TypeOK
      <3> QED
        BY <2>1, <3>1 DEF BalanceAnsweredIsPast
    <2>3. CASE s = r
      <3>1. PICK u \in Users : reading'[r] = [user |-> u, balance |-> balance[u]]
        BY <1>3, <2>3 DEF ReadBalance, Inv, TypeOK
      <3>2. Len(history[u]) \in 0..Len(history[u])
        BY DEF Inv, TypeOK
      <3>3. balance[u] = Ledger!Total(history[u], Len(history[u]))
        BY DEF Ledger!AccountsBalance
      <3> QED
        BY <2>1, <3>1, <3>2, <3>3
    <2> QED
      BY <2>2, <2>3
  <1> QED
    BY <1>1, <1>2, <1>3 DEF Next, vars, ReadForPurchase, ReadForReturn, Write, WriteFails

\* As long as they do not, and whatever clients read meanwhile, the balance that BalanceGetPoint
\* answers is what some beginning of the history it answers adds up to.
THEOREM BookingsApartAnswerPast == Spec /\ []KeptApart => []BalanceAnsweredIsPast
  <1>1. Init => BalanceAnsweredIsPast
    BY DEF Init, BalanceAnsweredIsPast
  <1>2. Inv /\ Ledger!Promises /\ BalanceAnsweredIsPast /\ [Next]_vars => BalanceAnsweredIsPast'
    BY ReadsKeepTotal DEF Ledger!Promises
  <1> QED
    BY <1>1, <1>2, Invariant, PromisesInherited, PTL DEF Spec

-----------------------------------------------------------------------------
(* Many workers: who may still add a row to a ticket.                      *)

Count(u, t) == Cardinality(Ledger!RowsOf(history[u], t))

\* The workers that are about to write a row of u's ticket t.
Writers(u, t) == {w \in Workers : ~Idle(w) /\ pending[w].user = u /\ pending[w].row.ticket = t}

\* Once a ticket is refunded nobody new passes the check: who is not among its writers
\* is used up.
WritersRunOut ==
    \A u \in Users, t \in Tickets :
        Count(u, t) >= 2 => Count(u, t) + Cardinality(Writers(u, t)) <= 1 + Cardinality(Workers)

\* The ledger counts as this module does.
LEMMA SameCount ==
    ASSUME NEW S
    PROVE  Ledger!Cardinality(S) = Cardinality(S)
  BY Zenon DEF Ledger!Cardinality, Cardinality

LEMMA WritersFinite ==
    ASSUME IsFiniteSet(Workers), NEW u, NEW t
    PROVE  /\ IsFiniteSet(Writers(u, t))
           /\ Cardinality(Writers(u, t)) \in Nat /\ Cardinality(Workers) \in Nat
           /\ Cardinality(Writers(u, t)) <= Cardinality(Workers)
  <1>1. Writers(u, t) \in SUBSET Workers
    BY DEF Writers
  <1>2. IsFiniteSet(Writers(u, t)) /\ Cardinality(Writers(u, t)) <= Cardinality(Workers)
    BY <1>1, FS_Subset
  <1> QED
    BY <1>2, FS_CardinalityType

LEMMA CountNat ==
    ASSUME TypeOK, NEW u \in Users, NEW t
    PROVE  Count(u, t) \in Nat
  <1>1. history[u] \in Seq(Ledger!Rows)
    BY DEF TypeOK
  <1> QED
    BY <1>1, SameCount, Ledger!RowsFinite DEF Count

\* No account changes, and a ticket with two rows gets no new writer.
LEMMA NoNewWriter ==
    ASSUME IsFiniteSet(Workers), TypeOK, WritersRunOut, UNCHANGED history,
           \A u \in Users, t \in Tickets : Count(u, t) >= 2 => Writers(u, t)' \subseteq Writers(u, t)
    PROVE  WritersRunOut'
  <1> SUFFICES ASSUME NEW u \in Users, NEW t \in Tickets, Count(u, t)' >= 2
               PROVE  Count(u, t)' + Cardinality(Writers(u, t)') <= 1 + Cardinality(Workers)
    BY DEF WritersRunOut
  <1>1. Count(u, t)' = Count(u, t)
    BY DEF Count
  <1>2. Writers(u, t)' \in SUBSET Writers(u, t)
    BY <1>1
  <1>3. /\ Cardinality(Writers(u, t)') <= Cardinality(Writers(u, t))
        /\ IsFiniteSet(Writers(u, t)')
    BY <1>2, WritersFinite, FS_Subset
  <1>4. Cardinality(Writers(u, t)') \in Nat
    BY <1>3, FS_CardinalityType
  <1>5. Count(u, t) + Cardinality(Writers(u, t)) <= 1 + Cardinality(Workers)
    BY <1>1 DEF WritersRunOut
  <1> QED
    BY <1>1, <1>3, <1>4, <1>5, WritersFinite, CountNat

\* A worker that plans a row becomes a writer of that row's ticket only.
LEMMA PlannedWriter ==
    ASSUME TypeOK, NEW w \in Workers, NEW u, NEW row, Plan(w, u, row), NEW v, NEW t,
           v # u \/ t # row.ticket
    PROVE  Writers(v, t)' \subseteq Writers(v, t)
  <1>1. pending' = [pending EXCEPT ![w] = [user |-> u, row |-> row, newBalance |-> NewBalance(balance[u], row)]]
    BY DEF Plan
  <1>2. \A x \in Workers \ {w} : pending'[x] = pending[x]
    BY <1>1 DEF TypeOK
  <1>3. pending'[w].user = u /\ pending'[w].row = row
    BY <1>1 DEF TypeOK
  <1> QED
    BY <1>2, <1>3 DEF Writers, Idle

LEMMA WriteRunsOut ==
    ASSUME IsFiniteSet(Workers), Inv, WritersRunOut, NEW w \in Workers, Write(w)
    PROVE  WritersRunOut'
  <1> DEFINE p == pending[w]
             pu == p.user
             pt == p.row.ticket
  <1>1. ~Idle(w) /\ pu \in Users /\ p.row \in Ledger!Rows /\ pt \in Tickets
    BY DEF Write, Inv, TypeOK, Idle, Writes, Ledger!Rows
  <1>2. /\ history' = [history EXCEPT ![pu] = Append(history[pu], p.row)]
        /\ pending' = [pending EXCEPT ![w] = NoWrite]
    BY DEF Write, Finish
  <1>3. history[pu] \in Seq(Ledger!Rows)
    BY <1>1 DEF Inv, TypeOK
  <1>4. \A u \in Users, t \in Tickets :
            Count(u, t)' = IF u = pu /\ t = pt THEN Count(u, t) + 1 ELSE Count(u, t)
    <2> HIDE DEF p
    <2> SUFFICES ASSUME NEW u \in Users, NEW t \in Tickets
                 PROVE  Count(u, t)' = IF u = pu /\ t = pt THEN Count(u, t) + 1 ELSE Count(u, t)
      OBVIOUS
    <2>1. history'[pu] = Append(history[pu], p.row) /\ (u # pu => history'[u] = history[u])
      BY <1>1, <1>2 DEF Inv, TypeOK
    <2>2. Cardinality(Ledger!RowsOf(Append(history[pu], p.row), t))
              = IF pt = t THEN Cardinality(Ledger!RowsOf(history[pu], t)) + 1
                          ELSE Cardinality(Ledger!RowsOf(history[pu], t))
      BY <1>1, <1>3, SameCount, Ledger!RowsCounted
    <2> QED
      BY <2>1, <2>2 DEF Count
  <1>5. \A u, t : Writers(u, t)' = IF u = pu /\ t = pt THEN Writers(u, t) \ {w} ELSE Writers(u, t)
    <2>1. pending'[w] = NoWrite /\ \A x \in Workers \ {w} : pending'[x] = pending[x]
      BY <1>2 DEF Inv, TypeOK
    <2> QED
      BY <2>1 DEF Writers, Idle
  <1>6. w \in Writers(pu, pt)
    BY <1>1 DEF Writers
  <1> HIDE DEF p, pu, pt
  <1> SUFFICES ASSUME NEW u \in Users, NEW t \in Tickets, Count(u, t)' >= 2
               PROVE  Count(u, t)' + Cardinality(Writers(u, t)') <= 1 + Cardinality(Workers)
    BY DEF WritersRunOut
  <1>7. /\ Count(u, t) \in Nat /\ Cardinality(Writers(u, t)) \in Nat /\ Cardinality(Workers) \in Nat
        /\ Cardinality(Writers(u, t)) <= Cardinality(Workers)
    BY WritersFinite, CountNat DEF Inv
  <1>8. Count(u, t) >= 2 => Count(u, t) + Cardinality(Writers(u, t)) <= 1 + Cardinality(Workers)
    BY DEF WritersRunOut
  <1>9. CASE u = pu /\ t = pt
    <2>1. Cardinality(Writers(u, t)') = Cardinality(Writers(u, t)) - 1
      BY <1>5, <1>6, <1>9, WritersFinite, FS_RemoveElement
    <2>2. Count(u, t)' = Count(u, t) + 1
      BY <1>4, <1>9
    <2> QED
      BY <1>7, <1>8, <2>1, <2>2
  <1>10. CASE ~(u = pu /\ t = pt)
    <2>1. Writers(u, t)' = Writers(u, t) /\ Count(u, t)' = Count(u, t)
      BY <1>4, <1>5, <1>10
    <2> QED
      BY <1>8, <2>1
  <1> QED
    BY <1>9, <1>10

LEMMA WritersStep ==
    ASSUME IsFiniteSet(Workers), Inv, WritersRunOut, [Next]_vars
    PROVE  WritersRunOut'
  <1> USE DEF Inv
  <1>1. ASSUME NEW w \in Workers, NEW u \in Users, NEW t \in Tickets, New(t), ReadForPurchase(w, u, t)
        PROVE  WritersRunOut'
    <2>1. PICK price \in Prices, paid \in BOOLEAN :
              Plan(w, u, Ledger!PurchaseRow(balance[u], t, price, paid))
      BY <1>1 DEF ReadForPurchase
    <2> DEFINE row == Ledger!PurchaseRow(balance[u], t, price, paid)
    <2>2. row.ticket = t
      BY DEF Ledger!PurchaseRow, Ledger!Row
    <2>3. Count(u, t) = 0
      BY <1>1, FS_EmptySet DEF Count, New
    <2>4. history' = history
      BY <1>1 DEF ReadForPurchase
    <2> HIDE DEF row
    <2>5. \A v \in Users, x \in Tickets : Count(v, x) >= 2 => Writers(v, x)' \subseteq Writers(v, x)
      BY <2>1, <2>2, <2>3, PlannedWriter DEF row
    <2> QED
      BY <2>4, <2>5, NoNewWriter
  <1>2. ASSUME NEW w \in Workers, NEW u \in Users, NEW t \in Tickets, ReadForReturn(w, u, t)
        PROVE  WritersRunOut'
    <2> DEFINE row == Ledger!RefundRow(balance[u], history[u][Ledger!PurchaseIndex(history[u], t)])
    <2>1. Ledger!Refundable(history[u], t) /\ Plan(w, u, row)
      BY <1>2 DEF ReadForReturn, ActiveTicket
    <2>2. history[u] \in Seq(Ledger!Rows)
      BY DEF TypeOK
    <2>3. row.ticket = t
      BY <2>1, <2>2, Ledger!PurchaseIndexSound DEF Ledger!RefundRow, Ledger!Row
    <2>4. Count(u, t) = 1
      BY <2>1, <2>2, SameCount, Ledger!RefundableCount DEF Count
    <2>5. history' = history
      BY <1>2 DEF ReadForReturn
    <2> HIDE DEF row
    <2>6. \A v \in Users, x \in Tickets : Count(v, x) >= 2 => Writers(v, x)' \subseteq Writers(v, x)
      BY <2>1, <2>3, <2>4, PlannedWriter DEF row
    <2> QED
      BY <2>5, <2>6, NoNewWriter
  <1>3. ASSUME NEW w \in Workers, Write(w) PROVE WritersRunOut'
    BY <1>3, WriteRunsOut
  <1>4. ASSUME NEW w \in Workers, WriteFails(w) PROVE WritersRunOut'
    <2>1. history' = history /\ pending' = [pending EXCEPT ![w] = NoWrite]
      BY <1>4 DEF WriteFails, Finish
    <2>2. \A v \in Users, x \in Tickets : Writers(v, x)' \subseteq Writers(v, x)
      BY <2>1 DEF Writers, Idle, TypeOK
    <2> QED
      BY <2>1, <2>2, NoNewWriter
  <1>5. CASE UNCHANGED <<history, pending>>
    <2>1. \A v \in Users, x \in Tickets : Writers(v, x)' \subseteq Writers(v, x)
      BY <1>5 DEF Writers, Idle
    <2> QED
      BY <1>5, <2>1, NoNewWriter
  <1> QED
    BY <1>1, <1>2, <1>3, <1>4, <1>5 DEF Next, vars, ReadBalance, ReadHistory

LEMMA SeedCount == Init => \A u \in Users, t \in Tickets : Count(u, t) \in {0, 1}
  <1> SUFFICES ASSUME Init, NEW u \in Users, NEW t \in Tickets PROVE Count(u, t) \in {0, 1}
    OBVIOUS
  <1>1. Ledger!RowsOf(history[u], t) \in SUBSET {1}
    BY DEF Init, Ledger!Init, Ledger!RowsOf
  <1>2. IsFiniteSet({1}) /\ Cardinality({1}) = 1
    BY FS_Singleton
  <1>3. Count(u, t) <= 1 /\ IsFiniteSet(Ledger!RowsOf(history[u], t))
    BY <1>1, <1>2, FS_Subset DEF Count
  <1>4. Count(u, t) \in Nat
    BY <1>3, FS_CardinalityType DEF Count
  <1> QED
    BY <1>3, <1>4

\* However many workers interleave, a ticket is refunded at most once by each of them.
THEOREM RefundsBounded ==
    ASSUME IsFiniteSet(Workers)
    PROVE  Spec => []RefundsBoundedByWorkers
  <1>1. Init => WritersRunOut
    BY SeedCount DEF WritersRunOut
  <1>2. Inv /\ WritersRunOut /\ [Next]_vars => WritersRunOut'
    BY WritersStep
  <1>3. Inv /\ WritersRunOut => RefundsBoundedByWorkers
    <2> SUFFICES ASSUME Inv, WritersRunOut, NEW u \in Users, NEW t \in Tickets
                 PROVE  Count(u, t) <= 1 + Cardinality(Workers)
      BY DEF RefundsBoundedByWorkers, Count
    <2>1. Count(u, t) \in Nat /\ Cardinality(Writers(u, t)) \in Nat /\ Cardinality(Workers) \in Nat
      BY WritersFinite, CountNat DEF Inv
    <2>2. CASE Count(u, t) >= 2
      BY <2>1, <2>2 DEF WritersRunOut
    <2>3. CASE Count(u, t) < 2
      BY <2>1, <2>3
    <2> QED
      BY <2>1, <2>2, <2>3
  <1> QED
    BY <1>1, <1>2, <1>3, Invariant, PTL DEF Spec
=============================================================================
