------------------------------- MODULE Slots -------------------------------
(***************************************************************************)
(* Where a variable lives in both engines.  A program is a text of Program *)
(* whose expression statements are assignments x = .. and whose prints are *)
(* >> x; a for loop binds x in every turn.  The text is that of the whole  *)
(* program or that of a function that is called once: then a function      *)
(* defined in it is a closure (compileNestedFuncDef).                      *)
(*                                                                         *)
(* The compiler gives x a place as it goes down the text, without regard   *)
(* to which lines will be executed: a stack slot, allocated by the line    *)
(* that assigns x first; a cell on the heap, made where a closure captures *)
(* x; the cell in a closure's environment; or none.  The interpreter looks *)
(* x up in its environments.  Interpreter walks the text; both engines do  *)
(* what a line says at once.                                               *)
(***************************************************************************)
EXTENDS Interpreter, FiniteSetsExt

VARIABLES
  stage,     \* write, run, failed (by a runtime error) or done
  nested,    \* the text is the body of a function
  env,       \* interpreter: x in the environment of the text and of the call
  sx,        \* compiled: pointers (0: never set) and the memory they point to
  wild,      \* a pointer was followed that was never set
  shown      \* the last value printed, by each engine

places == <<nested, env, sx, wild, shown>>
textVars == <<prog, interp, stage, places>>

Undefined == 0      \* no variable, null, or no address

Places == {"slot", "cell", "env", "none"}

-----------------------------------------------------------------------------
(* What the compiler makes of the text.                                    *)

Binders(f) == {i \in DOMAIN prog : Kind(i) \in {"expr", "for"} /\ FunctionOf(i) = f}

FirstBinder(f) == IF Binders(f) = {} THEN 0 ELSE Min(Binders(f))

\* collectIdents: the variable of a for statement is not among them.
Mentions(f) == {i \in DOMAIN prog : Kind(i) \in {"expr", "say"} /\ FunctionOf(i) = f}

\* findCaptures: x occurs in the body and is known where the function is.
Captures(f) ==
  /\ nested
  /\ Mentions(f) # {}
  /\ FirstBinder(0) \in 1 .. f - 1

\* Slip: the text around a closure goes on with its slot (no setVarPtr).
PlaceKept(i) ==
  IF FunctionOf(i) # 0 /\ Captures(FunctionOf(i)) THEN "env"
  ELSE IF FirstBinder(FunctionOf(i)) \in 1 .. i THEN "slot"
  ELSE "none"

\* resolveVar, where line i is compiled.
Place(i) ==
  IF FunctionOf(i) # 0 /\ Captures(FunctionOf(i)) THEN "env"
  ELSE IF \E f \in Functions \cap 1 .. i - 1 : f # FunctionOf(i) /\ Captures(f) THEN "cell"
  ELSE IF FirstBinder(FunctionOf(i)) \in 1 .. i THEN "slot"
  ELSE "none"

\* Slip: a for statement expects its variable to have a slot.
AllocatesAssigned(i) ==
  Place(i) = "slot" /\ i = FirstBinder(FunctionOf(i)) /\ Kind(i) = "expr"

\* setVar finds no place for x yet.
Allocates(i) == Place(i) = "slot" /\ i = FirstBinder(FunctionOf(i))

Address(i) ==
  CASE Place(i) = "slot" -> IF FunctionOf(i) = 0 THEN sx.slot ELSE sx.inner
    [] Place(i) = "cell" -> sx.cell
    [] Place(i) = "env"  -> sx.env
    [] OTHER             -> Undefined

-----------------------------------------------------------------------------
(* What a line does.                                                       *)

NextAddress == Len(sx.memory) + 1
Stored(v) == [sx EXCEPT !.memory = Append(@, v)]

GoBind(i) ==
  env' = IF FunctionOf(i) = 0 \/ (env.inner = Undefined /\ env.outer # Undefined)
         THEN [env EXCEPT !.outer = i]
         ELSE [env EXCEPT !.inner = i]

\* An alloca, or none, and a store.
SxBind(i) ==
  /\ sx' = IF Allocates(i)
           THEN IF FunctionOf(i) = 0
                THEN [Stored(i) EXCEPT !.slot = NextAddress]
                ELSE [Stored(i) EXCEPT !.inner = NextAddress]
           ELSE IF Address(i) # Undefined
           THEN [sx EXCEPT !.memory[Address(i)] = i]
           ELSE sx
  /\ wild' = (~Allocates(i) /\ Address(i) = Undefined)

Bind(i) == GoBind(i) /\ SxBind(i) /\ UNCHANGED <<nested, shown, stage>>

\* Slip: a call sees its own environment only.
LookedHere(i) == IF FunctionOf(i) # 0 THEN env.inner ELSE env.outer

Looked(i) ==
  IF FunctionOf(i) # 0 /\ env.inner # Undefined THEN env.inner ELSE env.outer

Loaded(i) == IF Address(i) = Undefined THEN Undefined ELSE sx.memory[Address(i)]

Show(i) ==
  /\ Looked(i) # Undefined
  /\ wild' = (Place(i) # "none" /\ Address(i) = Undefined)
  /\ shown' = IF wild' THEN shown ELSE [go |-> Looked(i), sx |-> Loaded(i)]
  /\ UNCHANGED <<nested, env, sx, stage>>

\* A new cell with the value that the slot has now.
Cell(f) ==
  [Stored(sx.memory[sx.slot]) EXCEPT !.cell = NextAddress, !.env = NextAddress]

Define(f) ==
  /\ sx' = IF Captures(f) /\ sx.slot # Undefined THEN Cell(f) ELSE sx
  /\ wild' = (Captures(f) /\ sx.slot = Undefined)
  /\ UNCHANGED <<nested, env, shown, stage>>

Enter ==
  /\ env' = [env EXCEPT !.inner = Undefined]
  /\ sx' = [sx EXCEPT !.inner = Undefined]
  /\ UNCHANGED <<nested, wild, shown, stage>>

-----------------------------------------------------------------------------
(* A text is written, and then run by both.                                *)

\* isDefined: some line above binds x, in a scope that is still open.
Checked ==
  \A i \in DOMAIN prog :
    Kind(i) = "say" =>
      \E j \in 1 .. i - 1 : j \in Binders(0) \cup Binders(FunctionOf(i))

\* Line i is executed before line j whenever j is.
Dominates(i, j) ==
  \/ i = j
  \/ /\ i < j
     /\ Enclosing(i) \subseteq Enclosing(j)
     /\ Kind(i) = "for" => i \in Enclosing(j)

\* Variables are bound first where all that use them come by.
BoundAbove ==
  \A i \in DOMAIN prog :
    /\ Kind(i) \in {"expr", "for", "say"} /\ Place(i) = "slot" =>
         Dominates(FirstBinder(FunctionOf(i)), i)
    /\ Kind(i) \in {"expr", "for", "say"} /\ Place(i) = "cell" =>
         \A f \in Functions : Dominates(f, i)
    /\ i \in Functions /\ Captures(i) => Dominates(FirstBinder(0), i)

\* Functions share variables with the text around them only by capturing them.
SharedByCapture ==
  \A f \in Functions :
    Mentions(f) \cup Binders(f) # {} /\ Binders(0) # {} => Captures(f)

\* A loop that makes closures binds what they capture in every turn.
CapturedAfresh ==
  \A f \in Functions :
    Captures(f) => LoopsAround(f) \subseteq Enclosing(FirstBinder(0))

Tidy == BoundAbove /\ SharedByCapture /\ CapturedAfresh

InitText ==
  /\ prog = << >>
  /\ InitInterpreter
  /\ stage = "write"
  /\ nested \in BOOLEAN
  /\ env = [outer |-> Undefined, inner |-> Undefined]
  /\ sx = [slot |-> Undefined, cell |-> Undefined, env |-> Undefined,
           inner |-> Undefined, memory |-> << >>]
  /\ wild = FALSE
  /\ shown = [go |-> Undefined, sx |-> Undefined]

WritingText(ok) ==
  /\ stage = "write"
  /\ \E l \in Line : Write(l)
  /\ UNCHANGED <<interp, stage, places>>
  /\ Checked'
  /\ ok

\* Texts that end otherwise are run as the beginning of one that ends so.
SubmitText ==
  /\ stage = "write" /\ Complete /\ Kind(Len(prog)) \in {"say", "call"}
  /\ stage' = "run"
  /\ frames' = <<Block(0, 0, 0)>>
  /\ UNCHANGED <<prog, result, out, choices, places>>

Running == stage = "run" /\ ~wild /\ UNCHANGED prog

Assign == Running /\ Simple /\ Kind(Top.at) = "expr" /\ Bind(Top.at)

Say == Running /\ Simple /\ Kind(Top.at) = "say" /\ Show(Top.at)

\* Undefined variable: a runtime error.
Fail ==
  /\ Running
  /\ At({"say"}) /\ Looked(Top.at) = Undefined
  /\ stage' = "failed"
  /\ UNCHANGED <<interp, places>>

DefineFunction == Running /\ FuncDefinition /\ Define(Top.at)

EnterFunction == Running /\ Call /\ Enter

StartFor ==
  /\ Running /\ For
  /\ IF Len(frames') > Len(frames) THEN Bind(Top.at) ELSE UNCHANGED <<stage, places>>

TurnFor ==
  /\ Running /\ ForAgain
  /\ IF Len(frames') = Len(frames) THEN Bind(Top.owner) ELSE UNCHANGED <<stage, places>>

GoOn ==
  /\ Running
  /\ If \/ While \/ BranchEnds \/ WhileAgain \/ CallEnds
  /\ UNCHANGED <<stage, places>>

Finish ==
  /\ Running /\ ProgramEnds
  /\ stage' = "done"
  /\ UNCHANGED places

RunText ==
  \/ Assign \/ Say \/ DefineFunction \/ EnterFunction
  \/ StartFor \/ TurnFor \/ GoOn \/ Finish

\* Tidy texts do not fail (NoneUndefined).
TidyNext == WritingText(Tidy') \/ SubmitText \/ RunText
TidySpec == InitText /\ [][TidyNext]_textVars

TextNext == WritingText(TRUE) \/ SubmitText \/ RunText \/ Fail
TextSpec == InitText /\ [][TextNext]_textVars

-----------------------------------------------------------------------------
(* No line of a compiled program reads or writes through a pointer that no  *)
(* executed line has set: setVar allocates in the block it happens to be    *)
(* in, and every later line uses that slot, whatever was executed.          *)
NoWildAccess == ~wild

(* Every print shows what the interpreter shows: an assignment reaches the  *)
(* same variable, from the text or from a closure, before or after the      *)
(* capture, in every turn of a loop.                                        *)
SameReads == shown.go = shown.sx

(* The interpreter finds every variable that a line prints: isDefined of the *)
(* analyzer asks for a binding above in the text, execution needs one that   *)
(* was executed, in an environment the line still sees.                      *)
NoneUndefined ==
  stage = "run" /\ At({"say"}) => Looked(Top.at) # Undefined
=============================================================================
