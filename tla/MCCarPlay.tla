----------------------------- MODULE MCCarPlay -----------------------------
(* CarPlay with small bounds (Pointers is a set of model values).          *)
EXTENDS CarPlay
CONSTANTS p1, p2
=============================================================================
