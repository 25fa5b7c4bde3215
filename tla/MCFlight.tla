------------------------------- MODULE MCFlight -------------------------------
(***************************************************************************)
(* An instance of FlightService for TLC.                                   *)
(***************************************************************************)
EXTENDS FlightService

\* Lists that end with a full page, within one, and before it begins.
SomeTables == {<<>>, <<1>>, <<1, 2>>, <<1, 2, 3>>, <<1, 2, 3, 4>>}

\* Below, within and behind the pages of these lists.
SomePages == 0..5

\* No size, three valid ones, and one that is too large.
SomeSizes == 0..4

\* The last one is not in the tables.
SomeNumbers == 1..5
=============================================================================
