---------------------------- MODULE Interpreter ----------------------------
(***************************************************************************)
(* How the interpreter executes statements (evaluator/statements.go):      *)
(* evalStatements walks a block, and break, continue and return are values *)
(* that it hands up until a loop or a call takes them.  The Go stack is    *)
(* the sequence frames: a frame per running evalStatements, innermost      *)
(* first.  Conditions and list lengths are free; the choices are recorded. *)
(***************************************************************************)
EXTENDS Program

CONSTANTS
  MaxChoices,  \* bound: conditions and lists that are not empty or false
  MaxItems     \* bound: elements of a list

ASSUME ChoicesAssumption == MaxChoices \in Nat /\ MaxItems \in Nat

VARIABLES
  frames,    \* the blocks being executed
  result,    \* what the last statement has evaluated to
  out,       \* what was printed
  choices    \* how conditions and list lengths have come out

interp == <<frames, result, out, choices>>

\* owner is the header of the block (0: the program), at the next statement,
\* left the elements a for has still to come, call the line that called.
Frame == [owner : 0 .. MaxLines, at : 1 .. MaxLines + 1,
          left : 0 .. MaxItems, call : 0 .. MaxLines]

Signals == {"break", "continue", "return"}

\* A value is the number of the line it comes from; 0 is null.
Object == [is : Signals \cup {"value"}, value : 0 .. MaxLines]

Value(v) == [is |-> "value", value |-> v]
Null == Value(0)
Signal(s) == [is |-> s, value |-> 0]

Block(owner, left, call) ==
  [owner |-> owner, at |-> owner + 1, left |-> left, call |-> call]

InitInterpreter ==
  /\ frames = << >>
  /\ result = Null
  /\ out = << >>
  /\ choices = << >>

\* The outcome c of a condition or the length of a list, as long as there are
\* any left: then conditions are false and lists empty.
Choice(c, most) ==
  IF Len(choices) < MaxChoices
  THEN c \in 0 .. most /\ choices' = Append(choices, c)
  ELSE c = 0 /\ UNCHANGED choices

-----------------------------------------------------------------------------
Top == Head(frames)

\* evalStatements goes on: the block is not over, and there was no signal.
Executing ==
  /\ frames # << >>
  /\ result.is = "value"
  /\ Top.at <= Len(prog) /\ Owner(Top.at) = Top.owner

At(kinds) == Executing /\ Kind(Top.at) \in kinds

Advanced == [frames EXCEPT ![1].at = After(Top.at)]

\* Statements without a block.

Simple ==
  /\ At({"expr", "zero", "one", "ret", "say"})
  /\ LET i == Top.at IN
     /\ result' = CASE Kind(i) = "expr" -> Value(i)
                    [] Kind(i) = "zero" -> Signal("break")
                    [] Kind(i) = "one"  -> Signal("continue")
                    [] Kind(i) = "ret"  -> [is |-> "return", value |-> i]
                    [] Kind(i) = "say"  -> Null
     /\ out' = IF Kind(i) = "say" THEN Append(out, i) ELSE out
  /\ frames' = Advanced
  /\ UNCHANGED choices

FuncDefinition ==
  /\ At({"fn"})
  /\ result' = Value(Top.at)
  /\ frames' = Advanced
  /\ UNCHANGED <<out, choices>>

\* Statements with a block.  The frame above goes on behind the statement.

If ==
  /\ At(Choosers)
  /\ \E c \in 0 .. 1 :
       /\ Choice(c, 1)
       /\ frames' =
            IF c = 1 THEN <<Block(Top.at, 0, 0)>> \o Advanced
            ELSE IF HasElse(Top.at)
            THEN <<Block(End(Top.at), 0, 0)>> \o Advanced
            ELSE Advanced
  /\ result' = Null
  /\ UNCHANGED out

While ==
  /\ At({"while"})
  /\ \E c \in 0 .. 1 :
       /\ Choice(c, 1)
       /\ frames' = IF c = 1 THEN <<Block(Top.at, 0, 0)>> \o Advanced
                    ELSE Advanced
  /\ result' = Null
  /\ UNCHANGED out

For ==
  /\ At({"for"})
  /\ \E n \in 0 .. MaxItems :
       /\ Choice(n, MaxItems)
       /\ frames' = IF n > 0 THEN <<Block(Top.at, n - 1, 0)>> \o Advanced
                    ELSE Advanced
  /\ result' = Null
  /\ UNCHANGED out

Call ==
  /\ At(Calls)
  /\ frames' = <<Block(CHOOSE f \in Functions : TRUE, 0, Top.at)>> \o Advanced
  /\ result' = Null
  /\ UNCHANGED <<out, choices>>

-----------------------------------------------------------------------------
\* A block is over, at its end or with a signal: whose block is it?

Over(kinds) ==
  /\ frames # << >> /\ ~Executing
  /\ Top.owner # 0 /\ Kind(Top.owner) \in kinds

\* if, else and catch pass the result on.
BranchEnds ==
  /\ Over(Choosers \cup {"else"})
  /\ frames' = Tail(frames)
  /\ UNCHANGED <<result, out, choices>>

\* Slip: a break goes on to the loop around.
LeftByAll == result

\* What a loop that is left evaluates to: only a return goes further up.
Left == IF result.is = "return" THEN result ELSE Null

LoopEnds ==
  /\ Over(Loops)
  /\ result.is \in {"break", "return"}
  /\ frames' = Tail(frames)
  /\ result' = Left
  /\ UNCHANGED <<out, choices>>

WhileAgain ==
  /\ Over({"while"})
  /\ result.is \in {"value", "continue"}
  /\ \E c \in 0 .. 1 :
       /\ Choice(c, 1)
       /\ frames' = IF c = 1 THEN [frames EXCEPT ![1].at = Top.owner + 1]
                    ELSE Tail(frames)
  /\ result' = Null
  /\ UNCHANGED out

ForAgain ==
  /\ Over({"for"})
  /\ result.is \in {"value", "continue"}
  /\ frames' = IF Top.left > 0
               THEN [frames EXCEPT ![1].at = Top.owner + 1, ![1].left = @ - 1]
               ELSE Tail(frames)
  /\ result' = Null
  /\ UNCHANGED <<out, choices>>

\* What a call evaluates to: a return is unpacked, any other object is taken
\* as it is, signals too.
Returned == IF result.is = "return" THEN Value(result.value) ELSE result

CallEnds ==
  /\ Over({"fn"})
  /\ frames' = Tail(frames)
  /\ IF Kind(Top.call) = "sayCall"
     THEN out' = Append(out, Returned.value) /\ result' = Null
     ELSE result' = Returned /\ UNCHANGED out
  /\ UNCHANGED choices

ProgramEnds ==
  /\ frames # << >> /\ ~Executing /\ Top.owner = 0
  /\ frames' = << >>
  /\ UNCHANGED <<result, out, choices>>

Evaluate ==
  \/ Simple \/ FuncDefinition \/ If \/ While \/ For \/ Call
  \/ BranchEnds \/ LoopEnds \/ WhileAgain \/ ForAgain \/ CallEnds
  \/ ProgramEnds

InterpreterTypeOK ==
  /\ frames \in Seq(Frame)
  /\ result \in Object
  /\ out \in Seq(0 .. MaxLines)
  /\ choices \in Seq(0 .. (IF MaxItems > 1 THEN MaxItems ELSE 1))
=============================================================================
