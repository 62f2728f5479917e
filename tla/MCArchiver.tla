----------------------------- MODULE MCArchiver -----------------------------
(* The instance of Archiver for safety: what the clock shows is exchangeable. *)
EXTENDS Archiver, TLC

ClockSymmetry == Permutations(Moments)
=============================================================================
