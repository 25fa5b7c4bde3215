--------------------------- MODULE BonusLedgerProofs ---------------------------
(***************************************************************************)
(* BonusLedger with its theorems: what is known of its rows and of what    *)
(* they add up to, and that it keeps its promises.                         *)
(***************************************************************************)
EXTENDS BonusLedger, FiniteSetTheorems, WellFoundedInduction, TLAPS

\* The sign of a row follows its operation.
Signed(r) == IF r.operation = "FILL_IN_BALANCE" THEN r.diff >= 0 ELSE r.diff <= 0

-----------------------------------------------------------------------------
(* The rows that are computed, and appended.                               *)

\* A purchase's row is signed, and its amount does not overdraw the balance.
LEMMA PurchaseRowSound ==
    ASSUME NEW bal \in Nat, NEW t \in Tickets, NEW price \in Nat, NEW paid \in BOOLEAN
    PROVE  LET r == PurchaseRow(bal, t, price, paid)
           IN  r \in Rows /\ r.ticket = t /\ Signed(r) /\ bal + r.diff >= 0
  BY DEF PurchaseRow, Row, Rows, Operations, LessOf, Signed

\* So is a refund's, and it undoes the row it was computed from.
LEMMA RefundRowSound ==
    ASSUME NEW bal \in Nat, NEW r \in Rows, Signed(r)
    PROVE  LET q == RefundRow(bal, r)
           IN  q \in Rows /\ q.ticket = r.ticket /\ Signed(q) /\ bal + q.diff >= 0 /\ Undoes(q, r)
  BY DEF RefundRow, Row, Rows, Operations, LessOf, Signed, Undoes

\* The one row that makes a ticket refundable is its purchase.
LEMMA PurchaseIndexSound ==
    ASSUME NEW h \in Seq(Rows), NEW t \in Tickets, Refundable(h, t)
    PROVE  LET i == PurchaseIndex(h, t)
           IN  i \in 1..Len(h) /\ h[i].ticket = t /\ IsPurchaseRow(h, i)
  <1>1. PICK i \in RowsOf(h, t) : RowsOf(h, t) = {i}
    BY DEF Refundable
  <1>2. PurchaseIndex(h, t) = i
    <2>1. \A j \in RowsOf(h, t) : i <= j
      BY <1>1 DEF RowsOf
    <2>2. PurchaseIndex(h, t) \in RowsOf(h, t)
      BY <1>1, <2>1 DEF PurchaseIndex
    <2> QED
      BY <1>1, <2>2
  <1>3. i \in 1..Len(h) /\ h[i].ticket = t
    BY <1>1 DEF RowsOf
  <1>4. IsPurchaseRow(h, i)
    BY <1>1, <1>3 DEF IsPurchaseRow
  <1> QED
    BY <1>2, <1>3, <1>4

\* Appending a row adds its index, and changes no earlier row.
LEMMA AppendRow ==
    ASSUME NEW h \in Seq(Rows), NEW r \in Rows
    PROVE  LET g == Append(h, r)
           IN  /\ g \in Seq(Rows)
               /\ Len(g) = Len(h) + 1
               /\ g[Len(h) + 1] = r
               /\ \A i \in 1..Len(h) : g[i] = h[i]
               /\ \A i \in 1..Len(h) : IsPurchaseRow(g, i) <=> IsPurchaseRow(h, i)
  <1> DEFINE g == Append(h, r)
  <1>1. /\ g \in Seq(Rows)
        /\ Len(g) = Len(h) + 1
        /\ g[Len(h) + 1] = r
        /\ \A i \in 1..Len(h) : g[i] = h[i]
    OBVIOUS
  <1>2. Len(h) \in Nat
    OBVIOUS
  <1>3. \A i \in 1..Len(h) : IsPurchaseRow(g, i) <=> IsPurchaseRow(h, i)
    <2> SUFFICES ASSUME NEW i \in 1..Len(h) PROVE IsPurchaseRow(g, i) <=> IsPurchaseRow(h, i)
      OBVIOUS
    <2>1. \A j \in 1..Len(h) : j \in RowsOf(g, g[i].ticket) <=> j \in RowsOf(h, h[i].ticket)
      BY <1>1, <1>2 DEF RowsOf
    <2>2. \A j \in RowsOf(g, g[i].ticket) : j \in 1..Len(h) \/ j = Len(h) + 1
      BY <1>1, <1>2 DEF RowsOf
    <2>3. \A j \in RowsOf(h, h[i].ticket) : j \in 1..Len(h)
      BY DEF RowsOf
    <2> QED
      BY <1>2, <2>1, <2>2, <2>3 DEF IsPurchaseRow
  <1> QED
    BY <1>1, <1>3

-----------------------------------------------------------------------------
(* Rows of a ticket.                                                       *)

\* The rows of a ticket after a row was appended.
LEMMA RowsOfAppend ==
    ASSUME NEW h \in Seq(Rows), NEW r \in Rows, NEW t
    PROVE  RowsOf(Append(h, r), t)
               = IF r.ticket = t THEN RowsOf(h, t) \cup {Len(h) + 1} ELSE RowsOf(h, t)
  <1> DEFINE g == Append(h, r)
  <1>1. /\ Len(g) = Len(h) + 1 /\ Len(h) \in Nat
        /\ g[Len(h) + 1] = r
        /\ \A i \in 1..Len(h) : g[i] = h[i]
    BY AppendRow
  <1> HIDE DEF g
  <1>2. 1..Len(g) = 1..Len(h) \cup {Len(h) + 1}
    BY <1>1
  <1>3. ASSUME NEW i PROVE i \in RowsOf(g, t) <=> \/ i \in RowsOf(h, t)
                                                  \/ i = Len(h) + 1 /\ r.ticket = t
    BY <1>1, <1>2 DEF RowsOf
  <1> QED
    BY <1>3 DEF g

LEMMA RowsFinite ==
    ASSUME NEW h \in Seq(Rows), NEW t
    PROVE  IsFiniteSet(RowsOf(h, t)) /\ Cardinality(RowsOf(h, t)) \in Nat
  <1>1. IsFiniteSet(1..Len(h))
    BY FS_Interval
  <1>2. RowsOf(h, t) \in SUBSET (1..Len(h))
    BY DEF RowsOf
  <1>3. IsFiniteSet(RowsOf(h, t))
    BY <1>1, <1>2, FS_Subset
  <1> QED
    BY <1>3, FS_CardinalityType

\* A row adds one, to its own ticket.
LEMMA RowsCounted ==
    ASSUME NEW h \in Seq(Rows), NEW r \in Rows, NEW t
    PROVE  Cardinality(RowsOf(Append(h, r), t))
               = IF r.ticket = t THEN Cardinality(RowsOf(h, t)) + 1 ELSE Cardinality(RowsOf(h, t))
  <1>1. Len(h) + 1 \notin RowsOf(h, t)
    BY DEF RowsOf
  <1>2. Cardinality(RowsOf(h, t) \cup {Len(h) + 1}) = Cardinality(RowsOf(h, t)) + 1
    BY <1>1, RowsFinite, FS_AddElement
  <1> QED
    BY <1>2, RowsOfAppend

LEMMA RefundableCount ==
    ASSUME NEW h \in Seq(Rows), NEW t
    PROVE  /\ Refundable(h, t) => Cardinality(RowsOf(h, t)) = 1
           /\ RowsOf(h, t) = {} => Cardinality(RowsOf(h, t)) = 0
  BY FS_Singleton, FS_EmptySet DEF Refundable

-----------------------------------------------------------------------------
(* Sums of amounts, row by row.                                            *)

\* Induction up to n, for a set of numbers: the library states it of an operator.
LEMMA InductionUpTo ==
    ASSUME NEW n \in Nat, NEW S, 0 \in S, \A k \in 0..(n - 1) : k \in S => k + 1 \in S
    PROVE  \A k \in 0..n : k \in S
  <1> SUFFICES ASSUME 0..n \ S # {} PROVE FALSE
    OBVIOUS
  <1>1. PICK m \in 0..n \ S : \A k \in 0..n \ S : <<k, m>> \notin OpToRel(<, Nat)
    <2>1. 0..n \ S \subseteq Nat
      OBVIOUS
    <2> QED
      BY <2>1, NatLessThanWellFounded, WFMin
  <1>2. m \in Nat /\ m # 0 /\ m - 1 \in 0..(n - 1) /\ m - 1 \in 0..n
    OBVIOUS
  <1>3. <<m - 1, m>> \in OpToRel(<, Nat)
    BY <1>2 DEF OpToRel
  <1>4. m - 1 \in S
    BY <1>1, <1>2, <1>3
  <1> QED
    BY <1>2, <1>4

\* The first m rows of h have an amount.
Amounts(h, m) == \A i \in 1..m : h[i].diff \in Int

\* f[k] is what those of the first k rows of h add up to that are in s.
Sums(h, m, s, f) ==
    /\ f \in [0..m -> Int]
    /\ f[0] = 0
    /\ \A i \in 1..m : f[i] = f[i - 1] + (IF i \in s THEN h[i].diff ELSE 0)

LEMMA SumsExist ==
    ASSUME NEW h, NEW m \in Nat, NEW s, Amounts(h, m)
    PROVE  \E f : Sums(h, m, s, f)
  <1> DEFINE K == {k \in 0..m : \E f : Sums(h, k, s, f)}
  <1>1. 0 \in K
    <2>1. Sums(h, 0, s, [i \in 0..0 |-> 0])
      BY DEF Sums
    <2> QED
      BY <2>1
  <1>2. ASSUME NEW k \in 0..(m - 1), k \in K PROVE k + 1 \in K
    <2>1. PICK f : Sums(h, k, s, f)
      BY <1>2
    <2> DEFINE d == IF k + 1 \in s THEN h[k + 1].diff ELSE 0
               g == [i \in 0..(k + 1) |-> IF i = k + 1 THEN f[k] + d ELSE f[i]]
    <2>2. k \in Nat /\ d \in Int
      BY DEF Amounts
    <2>3. f \in [0..k -> Int] /\ f[0] = 0
          /\ \A i \in 1..k : f[i] = f[i - 1] + (IF i \in s THEN h[i].diff ELSE 0)
      BY <2>1 DEF Sums
    <2>d. d = IF k + 1 \in s THEN h[k + 1].diff ELSE 0
      OBVIOUS
    <2> HIDE DEF d
    <2>4. g \in [0..(k + 1) -> Int] /\ g[k + 1] = f[k] + d /\ \A i \in 0..k : g[i] = f[i]
      BY <2>2, <2>3
    <2> HIDE DEF g
    <2>5. ASSUME NEW i \in 1..(k + 1)
          PROVE  g[i] = g[i - 1] + (IF i \in s THEN h[i].diff ELSE 0)
      <3>1. i - 1 \in 0..k /\ g[i - 1] = f[i - 1]
        BY <2>2, <2>4
      <3>2. CASE i = k + 1
        <4>1. i - 1 = k
          BY <2>2, <3>2
        <4> QED
          BY <2>4, <2>d, <3>1, <3>2, <4>1
      <3>3. CASE i \in 1..k
        <4>1. g[i] = f[i]
          BY <2>4, <3>3
        <4> QED
          BY <2>3, <3>1, <3>3, <4>1
      <3> QED
        BY <2>2, <3>2, <3>3
    <2>6. g[0] = 0
      BY <2>2, <2>3, <2>4
    <2>7. Sums(h, k + 1, s, g)
      BY <2>4, <2>5, <2>6 DEF Sums
    <2> QED
      BY <2>2, <2>7
  <1> HIDE DEF K
  <1>3. m \in K
    BY <1>1, <1>2, InductionUpTo
  <1> QED
    BY <1>3 DEF K

\* A row that is not summed is missing from the sums that come after it.
LEMMA SumsWithout ==
    ASSUME NEW h, NEW m \in Nat, NEW s, NEW x \in Int, Amounts(h, m),
           NEW f, Sums(h, m, s, f), NEW g, Sums(h, m, s \ {x}, g)
    PROVE  f[m] = g[m] + (IF x \in s /\ x \in 1..m THEN h[x].diff ELSE 0)
  <1> DEFINE c(k) == IF x \in s /\ x \in 1..k THEN h[x].diff ELSE 0
             K == {k \in 0..m : f[k] = g[k] + c(k)}
  <1>1. /\ f \in [0..m -> Int] /\ f[0] = 0
        /\ g \in [0..m -> Int] /\ g[0] = 0
        /\ \A i \in 1..m : /\ f[i] = f[i - 1] + (IF i \in s THEN h[i].diff ELSE 0)
                           /\ g[i] = g[i - 1] + (IF i \in s \ {x} THEN h[i].diff ELSE 0)
    BY DEF Sums
  <1>2. 0 \in K
    BY <1>1
  <1>3. ASSUME NEW k \in 0..(m - 1), k \in K PROVE k + 1 \in K
    <2>1. k \in Nat /\ k + 1 \in 1..m /\ k + 1 \in 0..m /\ k \in 0..m /\ (k + 1) - 1 = k
      OBVIOUS
    <2>2. f[k] \in Int /\ g[k] \in Int /\ h[k + 1].diff \in Int /\ f[k] = g[k] + c(k)
      BY <1>1, <1>3, <2>1 DEF Amounts
    <2>3. /\ f[k + 1] = f[k] + (IF k + 1 \in s THEN h[k + 1].diff ELSE 0)
          /\ g[k + 1] = g[k] + (IF k + 1 \in s \ {x} THEN h[k + 1].diff ELSE 0)
      BY <1>1, <2>1
    <2>4. CASE x = k + 1
      <3>1. c(k) = 0 /\ c(k + 1) = IF k + 1 \in s THEN h[k + 1].diff ELSE 0
        BY <2>1, <2>4
      <3>2. g[k + 1] = g[k]
        BY <2>2, <2>3, <2>4
      <3>3. f[k + 1] = g[k + 1] + c(k + 1)
        BY <2>2, <2>3, <3>1, <3>2
      <3> QED
        BY <2>1, <3>3
    <2>5. CASE x # k + 1
      <3>1. x \in 1..(k + 1) <=> x \in 1..k
        BY <2>1, <2>5
      <3>2. c(k + 1) = c(k) /\ c(k) \in Int
        BY <3>1, <2>1 DEF Amounts
      <3> HIDE DEF c
      <3>3. f[k + 1] = g[k + 1] + c(k + 1)
        BY <2>2, <2>3, <2>5, <3>2
      <3> QED
        BY <2>1, <3>3
    <2> QED
      BY <2>4, <2>5
  <1> HIDE DEF K
  <1>4. m \in K
    BY <1>2, <1>3, InductionUpTo
  <1> QED
    BY <1>4 DEF K

LEMMA SumsUnique ==
    ASSUME NEW h, NEW m \in Nat, NEW s \in SUBSET (1..m), Amounts(h, m),
           NEW f, Sums(h, m, s, f), NEW g, Sums(h, m, s, g)
    PROVE  f[m] = g[m]
  <1>1. s \ {0} = s /\ 0 \notin s
    OBVIOUS
  <1>2. f[m] = g[m] + 0
    BY <1>1, SumsWithout
  <1> QED
    BY <1>2 DEF Sums

\* What the rows in s add up to.
SumOf(h, m, s) == (CHOOSE f : Sums(h, m, s, f))[m]

LEMMA SumOfIs ==
    ASSUME NEW h, NEW m \in Nat, NEW s \in SUBSET (1..m), Amounts(h, m), NEW f, Sums(h, m, s, f)
    PROVE  SumOf(h, m, s) = f[m] /\ f[m] \in Int
  <1>1. Sums(h, m, s, CHOOSE g : Sums(h, m, s, g))
    OBVIOUS
  <1>2. SumOf(h, m, s) = f[m]
    BY <1>1, SumsUnique DEF SumOf
  <1> QED
    BY <1>2 DEF Sums

\* In whatever order the rows are taken, each adds its amount.
LEMMA SumOfTakes ==
    ASSUME NEW h, NEW m \in Nat, NEW s \in SUBSET (1..m), Amounts(h, m), NEW x \in s
    PROVE  SumOf(h, m, s) = h[x].diff + SumOf(h, m, s \ {x})
  <1>1. PICK f : Sums(h, m, s, f)
    BY SumsExist
  <1>2. PICK g : Sums(h, m, s \ {x}, g)
    BY SumsExist
  <1>3. SumOf(h, m, s) = f[m] /\ SumOf(h, m, s \ {x}) = g[m] /\ g[m] \in Int /\ h[x].diff \in Int
    BY <1>1, <1>2, SumOfIs DEF Amounts
  <1>4. x \in Int /\ x \in 1..m /\ m \in 0..m
    OBVIOUS
  <1>5. f[m] = g[m] + (IF x \in s /\ x \in 1..m THEN h[x].diff ELSE 0)
    BY <1>1, <1>2, <1>4, SumsWithout
  <1>6. f[m] = g[m] + h[x].diff
    BY <1>4, <1>5
  <1> QED
    BY <1>3, <1>6

LEMMA SumOfNothing ==
    ASSUME NEW h, NEW m \in Nat, Amounts(h, m)
    PROVE  SumOf(h, m, {}) = 0
  <1>1. Sums(h, m, {}, [i \in 0..m |-> 0])
    BY DEF Sums
  <1> QED
    BY <1>1, SumOfIs

-----------------------------------------------------------------------------
(* MapThenSumSet takes the rows in an order of its own; its recursion has  *)
(* one solution, which is the sums above.                                  *)

Pick(s) == CHOOSE x \in s : TRUE

\* The recursion of MapThenSumSet, for the amounts of h.
Folds(h, S, g) ==
    g = [s \in SUBSET S |-> IF s = {} THEN 0 ELSE h[Pick(s)].diff + g[s \ {Pick(s)}]]

LEMMA TotalFolds ==
    ASSUME NEW h, NEW m
    PROVE  Total(h, m) = (CHOOSE g : Folds(h, 1..m, g))[1..m]
  BY DEF Total, MapThenSumSet, MapThenFoldSet, Folds, Pick

\* That recursion has one solution.
LEMMA FoldsUnique ==
    ASSUME NEW h, NEW S, IsFiniteSet(S), NEW f, Folds(h, S, f), NEW g, Folds(h, S, g)
    PROVE  \A s \in SUBSET S : f[s] = g[s]
  <1> DEFINE T == {s \in SUBSET S : f[s] # g[s]}
  <1> SUFFICES ASSUME T # {} PROVE FALSE
    OBVIOUS
  <1>1. IsWellFoundedOn(StrictSubsetOrdering(S), SUBSET S)
    BY FS_StrictSubsetOrderingWellFounded, FS_FiniteSubsetsOfFinite
  <1>2. PICK s \in T : \A r \in T : <<r, s>> \notin StrictSubsetOrdering(S)
    BY <1>1, WFMin
  <1>3. s \in SUBSET S /\ f[s] # g[s]
    OBVIOUS
  <1>4. /\ f[s] = IF s = {} THEN 0 ELSE h[Pick(s)].diff + f[s \ {Pick(s)}]
        /\ g[s] = IF s = {} THEN 0 ELSE h[Pick(s)].diff + g[s \ {Pick(s)}]
    BY <1>3 DEF Folds
  <1> DEFINE r == s \ {Pick(s)}
  <1>5. s # {} /\ Pick(s) \in s
    BY <1>3, <1>4 DEF Pick
  <1>6. r \in SUBSET S /\ r # s /\ r \subseteq s
    BY <1>3, <1>5
  <1>7. <<r, s>> \in StrictSubsetOrdering(S)
    BY <1>3, <1>6 DEF StrictSubsetOrdering
  <1>8. f[r] = g[r]
    BY <1>2, <1>6, <1>7
  <1> QED
    BY <1>3, <1>4, <1>5, <1>8

\* Total is the last of the partial sums.
LEMMA TotalIs ==
    ASSUME NEW h, NEW m \in Nat, Amounts(h, m), NEW f, Sums(h, m, 1..m, f)
    PROVE  Total(h, m) = f[m]
  <1> DEFINE G == [s \in SUBSET (1..m) |-> SumOf(h, m, s)]
  <1>1. ASSUME NEW s \in SUBSET (1..m)
        PROVE  G[s] = IF s = {} THEN 0 ELSE h[Pick(s)].diff + G[s \ {Pick(s)}]
    <2>1. CASE s = {}
      BY <2>1, SumOfNothing
    <2>2. CASE s # {}
      <3> DEFINE x == Pick(s)
      <3>1. x \in s /\ s \ {x} \in SUBSET (1..m)
        BY <2>2 DEF Pick
      <3> HIDE DEF x
      <3>2. SumOf(h, m, s) = h[x].diff + SumOf(h, m, s \ {x})
        BY <3>1, SumOfTakes
      <3>3. G[s] = h[x].diff + G[s \ {x}]
        BY <3>1, <3>2
      <3> QED
        BY <2>2, <3>3 DEF x
    <2> QED
      BY <2>1, <2>2
  <1>a. G[1..m] = SumOf(h, m, 1..m) /\ G = [s \in SUBSET (1..m) |-> G[s]]
    OBVIOUS
  <1> HIDE DEF G
  <1>2. Folds(h, 1..m, G)
    BY <1>1, <1>a DEF Folds
  <1>3. Folds(h, 1..m, CHOOSE g : Folds(h, 1..m, g))
    BY <1>2
  <1>4. IsFiniteSet(1..m)
    BY FS_Interval
  <1>5. (CHOOSE g : Folds(h, 1..m, g))[1..m] = G[1..m]
    BY <1>2, <1>3, <1>4, FoldsUnique
  <1> QED
    BY <1>5, <1>a, TotalFolds, SumOfIs

-----------------------------------------------------------------------------
(* What Total says of a history, and of one that a row was appended to.    *)

LEMMA RowAmounts ==
    ASSUME NEW h \in Seq(Rows), NEW m \in 0..Len(h)
    PROVE  Amounts(h, m)
  <1>1. \A i \in 1..m : h[i] \in Rows
    OBVIOUS
  <1>2. \A r \in Rows : r.diff \in Int
    BY DEF Rows
  <1> QED
    BY <1>1, <1>2 DEF Amounts

\* The first sums of a history depend on its first rows only.
LEMMA SumsOfPrefix ==
    ASSUME NEW h, NEW g, NEW m \in Nat, NEW n \in 0..m, NEW f, Sums(g, m, 1..m, f),
           \A i \in 1..n : h[i] = g[i]
    PROVE  Sums(h, n, 1..n, [k \in 0..n |-> f[k]])
  <1> DEFINE e == [k \in 0..n |-> f[k]]
  <1>1. /\ f \in [0..m -> Int] /\ f[0] = 0
        /\ \A i \in 1..m : f[i] = f[i - 1] + (IF i \in 1..m THEN g[i].diff ELSE 0)
    BY DEF Sums
  <1>2. e \in [0..n -> Int] /\ e[0] = 0
    BY <1>1
  <1>3. ASSUME NEW i \in 1..n
        PROVE  e[i] = e[i - 1] + (IF i \in 1..n THEN h[i].diff ELSE 0)
    <2>1. i \in 1..m /\ i \in 0..n /\ i - 1 \in 0..n
      OBVIOUS
    <2>2. e[i] = f[i] /\ e[i - 1] = f[i - 1] /\ h[i] = g[i]
      BY <2>1
    <2>3. f[i] = f[i - 1] + g[i].diff
      BY <1>1, <2>1
    <2> QED
      BY <2>2, <2>3
  <1> HIDE DEF e
  <1>4. Sums(h, n, 1..n, e)
    BY <1>2, <1>3 DEF Sums
  <1> QED
    BY <1>4 DEF e

LEMMA TotalOfNothing ==
    ASSUME NEW h
    PROVE  Total(h, 0) = 0
  <1>1. Sums(h, 0, 1..0, [i \in 0..0 |-> 0])
    BY DEF Sums
  <1> QED
    BY <1>1, TotalIs DEF Amounts

\* A row adds its amount to the total and leaves the earlier ones.
LEMMA TotalOfAppend ==
    ASSUME NEW h \in Seq(Rows), NEW row \in Rows
    PROVE  /\ Total(Append(h, row), Len(h) + 1) = Total(h, Len(h)) + row.diff
           /\ \A n \in 0..Len(h) : Total(Append(h, row), n) = Total(h, n)
  <1> DEFINE m == Len(h)
             g == Append(h, row)
  <1>1. /\ m \in Nat /\ g \in Seq(Rows) /\ Len(g) = m + 1
        /\ g[m + 1] = row /\ \A i \in 1..m : g[i] = h[i]
    BY AppendRow
  <1>2. Amounts(g, m + 1) /\ \A n \in 0..m : Amounts(g, n) /\ Amounts(h, n)
    <2>1. m + 1 \in 0..Len(g) /\ \A n \in 0..m : n \in 0..Len(g)
      BY <1>1
    <2> HIDE DEF g
    <2> QED
      BY <1>1, <2>1, RowAmounts
  <1> HIDE DEF m, g
  <1>a. m + 1 \in Nat /\ Amounts(g, m + 1)
    BY <1>1, <1>2
  <1>3. PICK f : Sums(g, m + 1, 1..(m + 1), f)
    BY <1>a, SumsExist
  <1>4. ASSUME NEW n \in 0..m
        PROVE  Total(g, n) = f[n] /\ Total(h, n) = f[n]
    <2> DEFINE e == [k \in 0..n |-> f[k]]
    <2>1. n \in Nat /\ n \in 0..(m + 1) /\ m + 1 \in Nat
      BY <1>1
    <2>a. (\A i \in 1..n : h[i] = g[i]) /\ (\A i \in 1..n : g[i] = g[i])
      BY <1>1, <2>1
    <2>b. Sums(g, n, 1..n, e)
      BY <1>3, <2>1, <2>a, SumsOfPrefix
    <2>c. Sums(h, n, 1..n, e)
      BY <1>3, <2>1, <2>a, SumsOfPrefix
    <2>2. Sums(g, n, 1..n, e) /\ Sums(h, n, 1..n, e)
      BY <2>b, <2>c
    <2>3. e[n] = f[n]
      BY <2>1
    <2> HIDE DEF e
    <2> QED
      BY <1>2, <2>1, <2>2, <2>3, TotalIs
  <1>5. Total(g, m + 1) = f[m + 1]
    BY <1>1, <1>2, <1>3, TotalIs
  <1>6. f[m + 1] = f[m] + row.diff
    BY <1>1, <1>3 DEF Sums
  <1>7. Total(h, m) = f[m]
    BY <1>1, <1>4
  <1> QED
    BY <1>4, <1>5, <1>6, <1>7 DEF m, g

-----------------------------------------------------------------------------
(* The promises.                                                           *)

SignedRows == \A u \in Users : \A i \in 1..Len(history[u]) : Signed(history[u][i])

\* The inductive invariant.
LedgerInv ==
    /\ balance \in [Users -> Int]
    /\ history \in [Users -> Seq(Rows)]
    /\ SignedRows
    /\ Promises

\* Stated of the next state, for the provers.
LEMMA AccountsPrimed ==
    AccountsBalance' <=> \A u \in Users : balance'[u] = Total(history'[u], Len(history'[u]))
  BY DEF AccountsBalance, Total, MapThenSumSet, MapThenFoldSet

LEMMA RefundsPrimed ==
    RefundedOnce' <=> \A u \in Users, t \in Tickets : Cardinality(RowsOf(history'[u], t)) <= 2
  BY DEF RefundedOnce, RowsOf, Cardinality

LEMMA BeginsSound ==
    ASSUME LedgerAssumption, Init
    PROVE  LedgerInv
  <1> DEFINE row == Row(Seed, Opening, "FILL_IN_BALANCE")
             f == [n \in 0..1 |-> IF n = 0 THEN 0 ELSE Opening]
  <1>1. row \in Rows /\ Signed(row) /\ row.diff = Opening /\ Opening \in Nat
    BY DEF LedgerAssumption, Row, Rows, Operations, Signed
  <1>2. balance = [u \in Users |-> Opening] /\ history = [u \in Users |-> <<row>>]
    BY DEF Init
  <1> HIDE DEF row
  <1>3. balance \in [Users -> Int] /\ history \in [Users -> Seq(Rows)]
    BY <1>1, <1>2
  <1>4. \A u \in Users : Len(history[u]) = 1 /\ history[u][1] = row /\ balance[u] = Opening
    BY <1>2
  <1>5. SignedRows /\ NonNegativeBalance /\ LaterRowsUndoPurchase
    BY <1>1, <1>4 DEF SignedRows, NonNegativeBalance, LaterRowsUndoPurchase
  <1>6. AccountsBalance
    <2>1. f \in [0..1 -> Int] /\ f[0] = 0 /\ f[1] = Opening
      BY <1>1
    <2> HIDE DEF f
    <2>2. ASSUME NEW u \in Users PROVE balance[u] = Total(history[u], Len(history[u]))
      <3>1. Sums(history[u], 1, 1..1, f) /\ Amounts(history[u], 1)
        BY <1>1, <1>4, <2>1 DEF Sums, Amounts
      <3>2. Total(history[u], 1) = f[1]
        BY <3>1, TotalIs
      <3> QED
        BY <1>4, <2>1, <3>2
    <2> QED
      BY <2>2 DEF AccountsBalance
  <1>7. RefundedOnce
    <2> SUFFICES ASSUME NEW u \in Users, NEW t \in Tickets
                 PROVE  Cardinality(RowsOf(history[u], t)) <= 2
      BY DEF RefundedOnce
    <2>1. RowsOf(history[u], t) \in SUBSET {1}
      BY <1>4 DEF RowsOf
    <2>2. IsFiniteSet({1}) /\ Cardinality({1}) = 1
      BY FS_Singleton
    <2>3. Cardinality(RowsOf(history[u], t)) <= 1 /\ Cardinality(RowsOf(history[u], t)) \in Nat
      BY <2>1, <2>2, FS_Subset, FS_CardinalityType
    <2> QED
      BY <2>3
  <1> QED
    BY <1>3, <1>5, <1>6, <1>7 DEF LedgerInv, Promises

\* A row may be booked: it does not overdraw the balance, and is the first of its ticket or
\* undoes the one there is.
MayBook(u, row) ==
    /\ Signed(row)
    /\ balance[u] + row.diff >= 0
    /\ \/ RowsOf(history[u], row.ticket) = {}
       \/ /\ Refundable(history[u], row.ticket)
          /\ Undoes(row, history[u][PurchaseIndex(history[u], row.ticket)])

\* The account that the row is booked to.
LEMMA BookedAccount ==
    ASSUME LedgerInv, NEW u \in Users, NEW row \in Rows, Book(u, row), MayBook(u, row)
    PROVE  /\ balance'[u] >= 0 /\ balance'[u] = Total(history'[u], Len(history'[u]))
           /\ \A i \in 1..Len(history'[u]) : Signed(history'[u][i])
           /\ \A t \in Tickets : Cardinality(RowsOf(history'[u], t)) <= 2
           /\ \A i, j \in 1..Len(history'[u]) :
                 i < j /\ history'[u][i].ticket = history'[u][j].ticket /\ IsPurchaseRow(history'[u], i)
                     => Undoes(history'[u][j], history'[u][i])
  <1> DEFINE h == history[u]
             g == Append(h, row)
             m == Len(h)
  <1>1. h \in Seq(Rows) /\ m \in Nat /\ balance[u] \in Int
    BY DEF LedgerInv
  <1>2. history'[u] = g /\ balance'[u] = balance[u] + row.diff
    BY DEF Book, LedgerInv
  <1>3. /\ g \in Seq(Rows) /\ Len(g) = m + 1 /\ g[m + 1] = row
        /\ \A i \in 1..m : g[i] = h[i]
        /\ \A i \in 1..m : IsPurchaseRow(g, i) <=> IsPurchaseRow(h, i)
    BY <1>1, AppendRow
  <1>4. balance[u] = Total(h, m) /\ Total(g, m + 1) = Total(h, m) + row.diff
    BY <1>1, TotalOfAppend DEF LedgerInv, Promises, AccountsBalance
  <1>5. \A t \in Tickets : Cardinality(RowsOf(g, t)) <= 2
    <2> SUFFICES ASSUME NEW t \in Tickets PROVE Cardinality(RowsOf(g, t)) <= 2
      OBVIOUS
    <2>1. Cardinality(RowsOf(g, t))
              = IF row.ticket = t THEN Cardinality(RowsOf(h, t)) + 1 ELSE Cardinality(RowsOf(h, t))
      BY <1>1, RowsCounted
    <2>2. CASE row.ticket = t
      <3>1. Cardinality(RowsOf(h, t)) \in {0, 1}
        BY <1>1, <2>2, RefundableCount DEF MayBook
      <3> QED
        BY <2>1, <2>2, <3>1
    <2>3. CASE row.ticket # t
      BY <2>1, <2>3 DEF LedgerInv, Promises, RefundedOnce
    <2> QED
      BY <2>2, <2>3
  <1>6. \A i \in 1..m : Signed(h[i])
    BY DEF LedgerInv, SignedRows
  <1>7. \A i, j \in 1..m :
            i < j /\ h[i].ticket = h[j].ticket /\ IsPurchaseRow(h, i) => Undoes(h[j], h[i])
    BY DEF LedgerInv, Promises, LaterRowsUndoPurchase
  <1>8. ASSUME NEW i \in 1..m, h[i].ticket = row.ticket, IsPurchaseRow(h, i)
        PROVE  Undoes(row, h[i])
    <2>1. i \in RowsOf(h, row.ticket)
      BY <1>8 DEF RowsOf
    <2>2. RowsOf(h, row.ticket) = {i} /\ Undoes(row, h[PurchaseIndex(h, row.ticket)])
      BY <2>1 DEF MayBook, Refundable
    <2>3. PurchaseIndex(h, row.ticket) = i
      BY <2>2 DEF PurchaseIndex
    <2> QED
      BY <2>2, <2>3
  <1> HIDE DEF g, m, h
  <1>9. \A i \in 1..(m + 1) : i \in 1..m \/ i = m + 1
    BY <1>1
  <1>10. \A i \in 1..(m + 1) : Signed(g[i])
    BY <1>3, <1>6, <1>9 DEF MayBook
  <1>11. ASSUME NEW i \in 1..(m + 1), NEW j \in 1..(m + 1),
                i < j, g[i].ticket = g[j].ticket, IsPurchaseRow(g, i)
         PROVE  Undoes(g[j], g[i])
    <2>1. i \in 1..m /\ g[i] = h[i] /\ IsPurchaseRow(h, i)
      BY <1>1, <1>3, <1>11
    <2>2. CASE j \in 1..m
      BY <1>3, <1>7, <1>11, <2>1, <2>2
    <2>3. CASE j = m + 1
      BY <1>3, <1>8, <1>11, <2>1, <2>3
    <2> QED
      BY <1>9, <2>2, <2>3
  <1>12. balance'[u] >= 0
    BY <1>1, <1>2 DEF MayBook
  <1>13. balance'[u] = Total(g, Len(g))
    BY <1>2, <1>3, <1>4
  <1> QED
    BY <1>2, <1>3, <1>5, <1>10, <1>11, <1>12, <1>13

\* The other accounts stay as they are.
LEMMA BookStep ==
    ASSUME LedgerInv, NEW u \in Users, NEW row \in Rows, Book(u, row), MayBook(u, row)
    PROVE  LedgerInv'
  <1>1. \A v \in Users : v # u => history'[v] = history[v] /\ balance'[v] = balance[v]
    BY DEF Book, LedgerInv
  <1>2. balance' \in [Users -> Int] /\ history' \in [Users -> Seq(Rows)]
    <2>1. balance[u] \in Int /\ row.diff \in Int
      BY DEF LedgerInv, Rows
    <2>2. balance[u] + row.diff \in Int
      BY <2>1
    <2>3. history[u] \in Seq(Rows)
      BY DEF LedgerInv
    <2>4. Append(history[u], row) \in Seq(Rows)
      BY <2>3
    <2> QED
      BY <2>2, <2>4 DEF Book, LedgerInv
  <1>3. NonNegativeBalance'
    BY <1>1, BookedAccount DEF NonNegativeBalance, LedgerInv, Promises
  <1>4. AccountsBalance'
    BY <1>1, BookedAccount, AccountsPrimed DEF AccountsBalance, LedgerInv, Promises
  <1>5. RefundedOnce'
    BY <1>1, BookedAccount, RefundsPrimed DEF RefundedOnce, LedgerInv, Promises
  <1>6. SignedRows'
    BY <1>1, BookedAccount DEF SignedRows, Signed, LedgerInv
  <1>7. LaterRowsUndoPurchase'
    <2> SUFFICES ASSUME NEW v \in Users, NEW i \in 1..Len(history'[v]), NEW j \in 1..Len(history'[v]),
                        i < j, history'[v][i].ticket = history'[v][j].ticket, IsPurchaseRow(history'[v], i)
                 PROVE  Undoes(history'[v][j], history'[v][i])
      BY DEF LaterRowsUndoPurchase, Undoes, IsPurchaseRow, RowsOf
    <2>1. CASE v = u
      BY <2>1, BookedAccount
    <2>2. CASE v # u
      BY <1>1, <2>2 DEF LaterRowsUndoPurchase, LedgerInv, Promises
    <2> QED
      BY <2>1, <2>2
  <1>8. Promises'
    BY <1>3, <1>4, <1>5, <1>7 DEF Promises
  <1> QED
    BY <1>2, <1>6, <1>8 DEF LedgerInv

LEMMA LedgerStep ==
    ASSUME LedgerAssumption, LedgerInv, [Next]_vars
    PROVE  LedgerInv'
  <1>1. ASSUME NEW u \in Users, NEW t \in Tickets, NEW price \in Prices, NEW paid \in BOOLEAN,
               Buy(u, t, price, paid)
        PROVE  LedgerInv'
    <2> DEFINE row == PurchaseRow(balance[u], t, price, paid)
    <2>1. balance[u] \in Nat /\ price \in Nat
      BY DEF LedgerInv, Promises, NonNegativeBalance, LedgerAssumption
    <2>2. row \in Rows /\ row.ticket = t /\ Signed(row) /\ balance[u] + row.diff >= 0
      BY <2>1, PurchaseRowSound
    <2>3. RowsOf(history[u], t) = {} /\ Book(u, row)
      BY <1>1 DEF Buy
    <2> HIDE DEF row
    <2>4. MayBook(u, row)
      BY <2>2, <2>3 DEF MayBook
    <2> QED
      BY <2>2, <2>3, <2>4, BookStep
  <1>2. ASSUME NEW u \in Users, NEW t \in Tickets, Return(u, t)
        PROVE  LedgerInv'
    <2> DEFINE i == PurchaseIndex(history[u], t)
               row == RefundRow(balance[u], history[u][i])
    <2>1. history[u] \in Seq(Rows) /\ balance[u] \in Nat /\ Refundable(history[u], t)
      BY <1>2 DEF Return, LedgerInv, Promises, NonNegativeBalance
    <2>2. i \in 1..Len(history[u]) /\ history[u][i].ticket = t
      BY <2>1, PurchaseIndexSound
    <2>3. Book(u, row)
      BY <1>2 DEF Return
    <2> HIDE DEF i
    <2>4. history[u][i] \in Rows /\ Signed(history[u][i])
      BY <2>1, <2>2 DEF LedgerInv, SignedRows
    <2>5. /\ row \in Rows /\ row.ticket = t /\ Signed(row) /\ balance[u] + row.diff >= 0
          /\ Undoes(row, history[u][i])
      BY <2>1, <2>2, <2>4, RefundRowSound
    <2> HIDE DEF row
    <2>6. MayBook(u, row)
      BY <2>1, <2>5 DEF MayBook, i
    <2> QED
      BY <2>3, <2>5, <2>6, BookStep
  <1>3. CASE UNCHANGED vars
    <2>1. UNCHANGED <<balance, history>>
      BY <1>3 DEF vars
    <2>2. AccountsBalance' /\ RefundedOnce'
      BY <2>1, AccountsPrimed, RefundsPrimed DEF LedgerInv, Promises, AccountsBalance, RefundedOnce
    <2>3. NonNegativeBalance' /\ SignedRows'
      BY <2>1 DEF LedgerInv, Promises, NonNegativeBalance, SignedRows, Signed
    <2>4. LaterRowsUndoPurchase'
      BY <2>1 DEF LedgerInv, Promises, LaterRowsUndoPurchase, IsPurchaseRow, Undoes, RowsOf
    <2> QED
      BY <2>1, <2>2, <2>3, <2>4 DEF LedgerInv, Promises
  <1> QED
    BY <1>1, <1>2, <1>3 DEF Next

\* A ledger keeps what it promises: no balance is negative, each is what its rows add up to, a
\* ticket is refunded once at most, and the refund undoes the purchase.
THEOREM PromisesKept ==
    ASSUME LedgerAssumption
    PROVE  Spec => []Promises
  <1>1. Init => LedgerInv
    BY BeginsSound
  <1>2. LedgerInv /\ [Next]_vars => LedgerInv'
    BY LedgerStep
  <1>3. LedgerInv => Promises
    BY DEF LedgerInv
  <1> QED
    BY <1>1, <1>2, <1>3, PTL DEF Spec
=============================================================================
