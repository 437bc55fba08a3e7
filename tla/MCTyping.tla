------------------------------ MODULE MCTyping ------------------------------
(* Typing with two variables.                                               *)
EXTENDS Typing

CONSTANTS x, y
=============================================================================
