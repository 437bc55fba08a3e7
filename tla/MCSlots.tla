------------------------------ MODULE MCSlots ------------------------------
(***************************************************************************)
(* Instances of Slots: every text of a few lines.                          *)
(***************************************************************************)
EXTENDS Slots

VariableKinds == {"expr", "say", "if", "else", "while", "for", "fn", "call"}
BranchKinds == {"expr", "say", "if", "else"}
GlobalKinds == {"expr", "say", "fn", "call"}
=============================================================================
