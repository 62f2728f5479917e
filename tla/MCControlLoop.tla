--------------------------- MODULE MCControlLoop ---------------------------
(* Instances of ControlLoop for TLC. *)
EXTENDS ControlLoop

\* Cooling, nothing and heating; 1 of 3 seconds is shorter than the shortest pulse,
\* 2 of 3 is a pulse that ends.
BothWays == {-2, 0, 1, 3}
=============================================================================
