------------------------------- MODULE MCBonus -------------------------------
(***************************************************************************)
(* Instances of BonusService for TLC.                                      *)
(***************************************************************************)
EXTENDS BonusService, TLC

\* A price that no balance covers, one that a balance covers, and one whose
\* tenth is rounded down to nothing.
SomePrices == {30, 12, 1}

\* An opening balance between those prices.
SomeOpening == 14

\* ShortHistories: at most this many rows; each ticket has two rows and a third
\* only by a race.
ShortHistories == \A u \in Users : Len(history[u]) <= 5

WorkerSymmetry == Permutations(Workers)
=============================================================================
