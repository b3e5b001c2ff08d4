-------------------------------- MODULE MCGelf --------------------------------
(* A small instance of Gelf for TLC.                                       *)
EXTENDS Gelf, TLC

\* Before the epoch, and on, before and past the end of a timeout of 1.
MCTime == {-1, 1, 2, 3}

Symmetry == Permutations(Ids)
=============================================================================
