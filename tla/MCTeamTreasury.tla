--------------------------- MODULE MCTeamTreasury ---------------------------
(***************************************************************************)
(* Model checking of TeamTreasury alone.                                   *)
(***************************************************************************)
EXTENDS TeamTreasury, TLC

Symmetry == Permutations(Treasuries \ {Default})
=============================================================================
