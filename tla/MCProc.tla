------------------------------- MODULE MCProc -------------------------------
(* Proc with two terminal windows as model values.                          *)
EXTENDS Proc
CONSTANTS w1, w2
=============================================================================
