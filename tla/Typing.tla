------------------------------- MODULE Typing -------------------------------
(***************************************************************************)
(* What the analyzer infers and what both engines compute.  A program is a *)
(* sequence of statements on a few variables at top level: each step is a  *)
(* statement that the analyzer accepts (analyzer.go), which is then        *)
(* executed by the interpreter and by the compiled program.  A runtime     *)
(* error ends the program.  Operands are variables; an expression that the *)
(* analyzer knows nothing of is the element of a list.                     *)
(***************************************************************************)
EXTENDS Values

CONSTANTS
  Names,        \* variables
  Declarable,   \* types a declaration can name
  Careless      \* programs use what the engines take differently

ASSUME DeclarableAssumption == Declarable \subseteq {"num", "str", "bool", "list"}
ASSUME CarelessAssumption == Careless \in BOOLEAN

VARIABLES
  types,      \* analyzer: the type of each variable; unknown or undefined
  declared,   \* interpreter: the types that it checks assignments against
  go, sx,     \* the values of the variables in both engines
  branch,     \* the way each has taken at the last condition
  failed      \* the engines that have ended with an error

vars == <<types, declared, go, sx, branch, failed>>

Missing == Of("missing", 0)
Engines == {"go", "sx"}
Signs == {"neg", "pos", "not"}
Choosing == {"and", "or"}
Compounds == {"+", "-", "*", "/"}

Expr ==
  [op : {"literal", "element"}, value : Value]
    \cup [op : Signs \cup {"name"}, left : Names]
    \cup [op : Choosing \cup Comparisons \cup Arithmetic, left : Names, right : Names]

Mentioned(e) == {e[f] : f \in DOMAIN e \cap {"left", "right"}}

Known == {x \in Names : types[x] # "undefined"}

-----------------------------------------------------------------------------
(* The analyzer.                                                           *)

\* Slip: the type of a comparison is that of its left side.
InferredFromLeft(e) ==
  CASE e.op = "literal" -> e.value.type
    [] e.op = "element" -> "unknown"
    [] e.op \in {"not"} \cup Choosing -> "bool"
    [] e.op \in {"neg", "pos"} -> "num"
    [] OTHER -> types[e.left]

\* inferExprType
Inferred(e) ==
  CASE e.op = "literal" -> e.value.type
    [] e.op = "element" -> "unknown"
    [] e.op \in {"not"} \cup Choosing \cup Comparisons -> "bool"
    [] e.op \in {"neg", "pos"} -> "num"
    [] e.op \in {"name"} \cup Arithmetic -> types[e.left]

\* Slip: only declared types bind.
AssignableUndeclared(x, e) == TRUE

\* checkAssignment
Assignable(x, e) ==
  x \in Known => "unknown" \in {types[x], Inferred(e)} \/ Inferred(e) = types[x]

\* checkTypedAssign
Declares(t, e) == Inferred(e) \in {"unknown", t}

-----------------------------------------------------------------------------
(* The value of an expression, and what a statement does with it.          *)

GoValue(e) ==
  CASE e.op \in {"literal", "element"} -> e.value
    [] e.op \in {"name", "pos"} -> go[e.left]
    [] e.op = "not" -> Bool(~GoTruthy(go[e.left]))
    [] e.op = "neg" -> GoNegated(go[e.left])
    [] e.op = "and" -> go[IF GoTruthy(go[e.left]) THEN e.right ELSE e.left]
    [] e.op = "or"  -> go[IF GoTruthy(go[e.left]) THEN e.left ELSE e.right]
    [] e.op \in Arithmetic  -> GoArith(e.op, go[e.left], go[e.right])
    [] e.op \in Comparisons -> GoCompare(e.op, go[e.left], go[e.right])

SxValue(e) ==
  CASE e.op \in {"literal", "element"} -> e.value
    [] e.op \in {"name", "pos"} -> sx[e.left]
    [] e.op = "not" -> Bool(~SxTruthy(sx[e.left]))
    [] e.op = "neg" -> SxNegated(sx[e.left])
    [] e.op = "and" -> sx[IF SxTruthy(sx[e.left]) THEN e.right ELSE e.left]
    [] e.op = "or"  -> sx[IF SxTruthy(sx[e.left]) THEN e.left ELSE e.right]
    [] e.op \in Arithmetic  -> SxArith(e.op, sx[e.left], sx[e.right])
    [] e.op \in Comparisons -> SxCompare(e.op, sx[e.left], sx[e.right])

\* Bound: only values in Value occur, and numbers that are integers.
Modelled(e) ==
  /\ Mentioned(e) \subseteq Known
  /\ e.op \in Arithmetic /\ Both(go[e.left], go[e.right], "num") =>
       Integral(e.op, go[e.left].n, go[e.right].n)
  /\ {GoValue(e), SxValue(e)} \subseteq Value \cup {Failure}

\* What both engines and the analyzer take alike.
Plain(e) ==
  LET a == go[e.left]
      b == go[e.right]
  IN
  /\ e.op \in Choosing => Both(a, b, "bool")
  /\ e.op \in {"==", "!="} =>
       \E t \in {"num", "str", "bool", "null"} : Both(a, b, t)
  /\ e.op = "*" => ~(a.type = "num" /\ b.type = "str")
  /\ e.op = "*" /\ a.type = "str" => b.n >= 0
  /\ e.op = "pos" => a.type = "num"
  /\ e.op = "not" => a.type # "error"

Allowed(e) == Modelled(e) /\ (Careless \/ Plain(e))

\* Where the analyzer does not know, the program keeps types by itself.
Kept(x, v) == Careless \/ v.type \in {go[x].type, "failure"}

\* The interpreter keeps v unless it fails, or has not the type t asked for.
GoKeeps(x, v, t) ==
  LET fits == v # Failure /\ t \in {"unknown", v.type} IN
  /\ go' = IF fits THEN [go EXCEPT ![x] = v] ELSE go
  /\ declared' = IF fits THEN [declared EXCEPT ![x] = t] ELSE declared
  /\ "go" \in failed' <=> ~fits

SxKeeps(x, v, t) ==
  LET fits == v # Failure /\ t \in {"unknown", v.type} IN
  /\ sx' = IF fits THEN [sx EXCEPT ![x] = v] ELSE sx
  /\ "sx" \in failed' <=> ~fits

\* The interpreter asks for the declared type of x again; compiled programs
\* do not.
Store(x, e) ==
  /\ failed' \in SUBSET Engines
  /\ GoKeeps(x, GoValue(e), declared[x])
  /\ SxKeeps(x, SxValue(e), "unknown")
  /\ UNCHANGED branch

Assign(x, e) ==
  /\ Allowed(e) /\ Assignable(x, e)
  /\ x \in Known /\ "unknown" \in {types[x], Inferred(e)} => Kept(x, GoValue(e))
  /\ types' = IF x \in Known THEN types ELSE [types EXCEPT ![x] = Inferred(e)]
  /\ Store(x, e)

Declare(x, t, e) ==
  /\ Allowed(e) /\ Declares(t, e)
  /\ types' = [types EXCEPT ![x] = t]
  /\ failed' \in SUBSET Engines
  /\ GoKeeps(x, GoValue(e), t)
  /\ SxKeeps(x, SxValue(e), t)
  /\ UNCHANGED branch

\* x += y and so on: the analyzer does not look at the types.
Compound(x, op, y) ==
  LET e == [op |-> op, left |-> x, right |-> y] IN
  /\ Allowed(e) /\ Kept(x, GoValue(e))
  /\ Store(x, e)
  /\ UNCHANGED types

If(x) ==
  /\ x \in Known
  /\ Careless \/ go[x].type # "error"
  /\ branch' = [go |-> GoTruthy(go[x]), sx |-> SxTruthy(sx[x])]
  /\ UNCHANGED <<types, declared, go, sx, failed>>

-----------------------------------------------------------------------------
Init ==
  /\ types = [x \in Names |-> "undefined"]
  /\ declared = [x \in Names |-> "unknown"]
  /\ go = [x \in Names |-> Missing] /\ sx = go
  /\ branch = [go |-> FALSE, sx |-> FALSE]
  /\ failed = {}

Next ==
  /\ failed = {}
  /\ \E x \in Names :
       \/ \E e \in Expr : Assign(x, e)
       \/ \E e \in Expr, t \in Declarable : Declare(x, t, e)
       \/ \E y \in Names, op \in Compounds : Compound(x, op, y)
       \/ If(x)

Spec == Init /\ [][Next]_vars

-----------------------------------------------------------------------------
(* Values, types and flags are what they can be.                           *)
TypeOK ==
  /\ types \in [Names -> Types \cup {"unknown", "undefined"}]
  /\ declared \in [Names -> Declarable \cup {"unknown"}]
  /\ go \in [Names -> Value \cup {Missing}] /\ sx \in [Names -> Value \cup {Missing}]
  /\ branch \in [go : BOOLEAN, sx : BOOLEAN]
  /\ failed \subseteq Engines

(* Both engines compute the same values and take the same branches, or fail *)
(* at the same statement: two implementations of every operator, and of the *)
(* checks of types at assignments.                                          *)
SameValues ==
  /\ failed \in {{}, Engines}
  /\ failed = {} => go = sx /\ branch.go = branch.sx

(* The type that the analyzer has for a variable, which it refuses programs *)
(* by, is the type of its value in both engines.                            *)
TypesInferred ==
  failed = {} =>
    \A x \in Known : types[x] # "unknown" => {go[x].type, sx[x].type} = {types[x]}

(* docs/variables.md: "Once a variable has a type, it cannot be reassigned  *)
(* to a different type."  Only a new declaration changes it.                *)
KeepsItsType ==
  [][\A x \in Known : types'[x] = types[x] => go'[x].type = go[x].type /\ sx'[x].type = sx[x].type]_vars
=============================================================================
