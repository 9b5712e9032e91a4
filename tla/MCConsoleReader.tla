--------------------------- MODULE MCConsoleReader ---------------------------
(***************************************************************************)
(* Three blocks for TLC: an empty one, one with a transaction and          *)
(* validator updates, and one with two transactions.                       *)
(***************************************************************************)
EXTENDS ConsoleReader

MCTxs == <<0, 1, 2>>

MCVsets == {2}

=============================================================================
