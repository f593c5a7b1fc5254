----------------------------- MODULE MCNetServer -----------------------------
(***************************************************************************)
(* NetServer for TLC.  No definition tells two connections apart, so       *)
(* permuting them is a symmetry of the safety runs.                        *)
(***************************************************************************)
EXTENDS NetServer, TLC

ConnSymmetry == Permutations(Conns)
=============================================================================
