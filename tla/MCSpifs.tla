------------------------------ MODULE MCSpifs -------------------------------
(* An instance of Spifs: ToCs of two pages, three data pages of two cells.  *)
EXTENDS Spifs, TLC

MCRanges == {<<1, 1>>, <<0, 3>>, <<1, 3>>}
MCSymmetry == Permutations(Names)
=============================================================================
