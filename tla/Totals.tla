--------------------------------- MODULE Totals --------------------------------
(***************************************************************************)
(* The total of a quantity over a set of rows, as the database adds it up. *)
(***************************************************************************)
EXTENDS FiniteSetsExt

Total(quantity, rows) == MapThenSumSet(LAMBDA row : quantity[row], rows)
=============================================================================
