----------------------------- MODULE MCEngines -----------------------------
(***************************************************************************)
(* Instances of Engines: every program of a few lines.                     *)
(***************************************************************************)
EXTENDS Engines

ControlKinds ==
  {"say", "zero", "one", "ret", "sayCall", "if", "else", "catch",
   "while", "for", "fn"}

AllKinds == Headers \cup Leaves
=============================================================================
