------------------------------ MODULE Program ------------------------------
(***************************************************************************)
(* Programs as far as control flow goes: lines with an indentation, as the *)
(* preprocessor reads them and the parser nests them (parser/ast.go).  A   *)
(* value is abstracted to the number of the line it comes from.            *)
(*                                                                         *)
(*   expr   an expression statement          say      >> a value           *)
(*   zero   the statement 0                  one      the statement 1      *)
(*   ret    return a value                   call     f(), as a statement  *)
(*   sayCall  >> f()                                                       *)
(*   if, else, catch, while, for, fn: headers of blocks                    *)
(***************************************************************************)
EXTENDS Naturals, Sequences, SequencesExt

CONSTANTS
  Kinds,       \* the kinds of line that programs are made of
  MaxLines,    \* bound: lines of a program
  MaxIndent    \* bound: depth of a line

Loops == {"while", "for"}
Choosers == {"if", "catch"}
Headers == Loops \cup Choosers \cup {"else", "fn"}
Calls == {"call", "sayCall"}
Leaves == {"expr", "say", "zero", "one", "ret"} \cup Calls

ASSUME KindsAssumption == Kinds \subseteq Headers \cup Leaves
ASSUME BoundsAssumption == MaxLines \in Nat /\ MaxIndent \in Nat

VARIABLE prog

Line == [kind : Kinds, indent : 0 .. MaxIndent]

Kind(i) == prog[i].kind
Indent(i) == prog[i].indent

\* The first line behind the block of line i, or behind the program.
End(i) ==
  CHOOSE j \in i + 1 .. Len(prog) + 1 :
    /\ j > Len(prog) \/ Indent(j) <= Indent(i)
    /\ \A k \in i + 1 .. j - 1 : Indent(k) > Indent(i)

\* The headers that line i is inside of, and the innermost one, or 0.
Enclosing(i) == {j \in 1 .. i - 1 : i < End(j)}

Owner(i) ==
  IF Enclosing(i) = {} THEN 0
  ELSE CHOOSE j \in Enclosing(i) : \A k \in Enclosing(i) : k <= j

HasElse(i) ==
  /\ Kind(i) = "if"
  /\ End(i) <= Len(prog) /\ Kind(End(i)) = "else"
  /\ Indent(End(i)) = Indent(i)

\* The first line behind statement i, which takes its else along.
After(i) == IF HasElse(i) THEN End(End(i)) ELSE End(i)

Functions == {i \in DOMAIN prog : Kind(i) = "fn"}

\* The function that line i is in the body of, or 0.
FunctionOf(i) ==
  IF Enclosing(i) \cap Functions = {} THEN 0
  ELSE CHOOSE j \in Enclosing(i) \cap Functions : TRUE

\* The loops of its own function that line i is inside of.
LoopsAround(i) ==
  {j \in Enclosing(i) : Kind(j) \in Loops /\ FunctionOf(j) = FunctionOf(i)}

\* Statement i is the last one of a function's body.
LastOfFunction(i) == Owner(i) \in Functions /\ After(i) = End(Owner(i))

-----------------------------------------------------------------------------
\* Which programs the parser and the analyzer accept, with at most one
\* function, which calls nothing, and which is called only where its definition
\* has been executed.

Indented ==
  \A i \in DOMAIN prog :
    IF i = 1 THEN Indent(i) = 0
    ELSE IF Kind(i - 1) \in Headers THEN Indent(i) = Indent(i - 1) + 1
    ELSE Indent(i) <= Indent(i - 1)

Parsed ==
  /\ \A i \in DOMAIN prog :
       /\ Kind(i) = "else" => \E j \in 1 .. i - 1 : HasElse(j) /\ End(j) = i
       /\ Kind(i) = "ret" => FunctionOf(i) # 0
       /\ Kind(i) \in Calls =>
            /\ FunctionOf(i) = 0
            /\ \E f \in Functions \cap 1 .. i - 1 :
                 Enclosing(f) \subseteq Enclosing(i)
       /\ Kind(i) = "fn" => Functions \cap 1 .. i - 1 = {}

\* 0 and 1 are used inside of a loop of their own function, functions are
\* defined at top level, and a function does not leave its result to an if or
\* a catch at its end.
Plain ==
  /\ \A i \in DOMAIN prog :
       /\ Kind(i) \in {"zero", "one"} => LoopsAround(i) # {}
       /\ Kind(i) = "fn" => Indent(i) = 0

EndsPlainly ==
  \A i \in DOMAIN prog :
    LastOfFunction(i) => Kind(i) \notin Choosers

Complete ==
  /\ prog # << >> /\ Kind(Len(prog)) \notin Headers

\* The next line is written; there is room for the body of a header.
Write(l) ==
  /\ Len(prog) < MaxLines
  /\ l.kind \in Headers => Len(prog) + 1 < MaxLines /\ l.indent < MaxIndent
  /\ prog' = Append(prog, l)
  /\ Indented' /\ Parsed'
=============================================================================
