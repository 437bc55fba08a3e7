------------------------------ MODULE Engines ------------------------------
(***************************************************************************)
(* A program is written, compiled and interpreted, and then the compiled   *)
(* code is run with the conditions and lists the interpreter met.  The two *)
(* engines are separate code (evaluator, codegen), and nothing in the      *)
(* repository compares them: they should print the same.  How basic blocks *)
(* run is LLVM's and the processor's.                                      *)
(***************************************************************************)
EXTENDS Interpreter, CodeGen

VARIABLES
  phase,     \* write, compile, evaluate, run or done
  at,        \* the block being run and how many of its instructions have been
  returns,   \* where the running calls were made
  remaining, \* elements that the for loop of a line has still to come
  used,      \* how many of the choices have been read
  said       \* what was printed by the compiled program

machine == <<at, returns, remaining, used, said>>
vars == <<prog, interp, codegen, phase, machine>>

Position == [block : Nat \ {0}, done : Nat]
Start(b) == [block |-> b, done |-> 0]

Init ==
  /\ prog = << >>
  /\ InitInterpreter
  /\ InitCodeGen
  /\ phase = "write"
  /\ at = Start(1) /\ returns = << >>
  /\ remaining = [i \in 1 .. MaxLines |-> 0]
  /\ used = 0 /\ said = << >>

-----------------------------------------------------------------------------
\* The phases.  sintax runs a program with one engine or the other: their
\* order here means nothing.

Writing(ok) ==
  /\ phase = "write"
  /\ \E l \in Line : Write(l)
  /\ ok
  /\ UNCHANGED <<interp, codegen, phase, machine>>

Submit(ok) ==
  /\ phase = "write" /\ Complete /\ ok
  /\ phase' = "compile"
  /\ UNCHANGED <<prog, interp, codegen, machine>>

Compiling1 ==
  /\ phase = "compile" /\ Compile
  /\ UNCHANGED <<prog, interp, phase, machine>>

StartEvaluation ==
  /\ phase = "compile" /\ Compiled /\ Terminated
  /\ phase' = "evaluate"
  /\ frames' = <<Block(0, 0, 0)>>
  /\ UNCHANGED <<prog, result, out, choices, codegen, machine>>

Evaluating ==
  /\ phase = "evaluate" /\ Evaluate
  /\ UNCHANGED <<prog, codegen, phase, machine>>

StartRun ==
  /\ phase = "evaluate" /\ frames = << >>
  /\ phase' = "run"
  /\ UNCHANGED <<prog, interp, codegen, machine>>

-----------------------------------------------------------------------------
\* Running compiled code, an instruction or a terminator at a time.

Code == blocks[at.block].code
Ending == blocks[at.block].term

Instruction == Code[at.done + 1]
Doing(op) == phase = "run" /\ at.done < Len(Code) /\ Instruction.op = op
Ends(op) == phase = "run" /\ at.done = Len(Code) /\ Ending.op = op

Stepped == [at EXCEPT !.done = @ + 1]

\* The next choice the interpreter made; beyond the last one, none.
Given == IF used < Len(choices) THEN choices[used + 1] ELSE 0
Use == used' = IF used < MaxChoices THEN used + 1 ELSE used

Run == UNCHANGED <<prog, interp, codegen>>

\* The effect of a line: it prints, it calls, or neither.
Do ==
  /\ Doing("do")
  /\ LET i == Instruction.line IN
     IF Kind(i) \in Calls
     THEN /\ at' = Start(CHOOSE b \in DOMAIN blocks : blocks[b].fn # 0)
          /\ returns' = <<Stepped>> \o returns
          /\ UNCHANGED said
     ELSE /\ at' = Stepped
          /\ said' = IF Kind(i) = "say" THEN Append(said, i) ELSE said
          /\ UNCHANGED returns
  /\ UNCHANGED <<phase, remaining, used>> /\ Run

StartLoop ==
  /\ Doing("start")
  /\ remaining' = [remaining EXCEPT ![Instruction.line] = Given]
  /\ Use
  /\ at' = Stepped
  /\ UNCHANGED <<phase, returns, said>> /\ Run

StepLoop ==
  /\ Doing("step")
  /\ remaining' = [remaining EXCEPT ![Instruction.line] = @ - 1]
  /\ at' = Stepped
  /\ UNCHANGED <<phase, returns, used, said>> /\ Run

Goto ==
  /\ Ends("br")
  /\ at' = Start(Ending.yes)
  /\ UNCHANGED <<phase, returns, remaining, used, said>> /\ Run

Branch ==
  /\ Ends("cond")
  /\ at' = Start(IF Given = 1 THEN Ending.yes ELSE Ending.no)
  /\ Use
  /\ UNCHANGED <<phase, returns, remaining, said>> /\ Run

BranchOnCount ==
  /\ Ends("count")
  /\ at' = Start(IF remaining[Ending.line] > 0 THEN Ending.yes
                 ELSE Ending.no)
  /\ UNCHANGED <<phase, returns, remaining, used, said>> /\ Run

\* Back behind the call, which is the last instruction that was run there.
ReturnTo ==
  /\ Ends("ret") /\ returns # << >>
  /\ at' = Head(returns)
  /\ returns' = Tail(returns)
  /\ LET call == blocks[at'.block].code[at'.done].line IN
     said' = IF Kind(call) = "sayCall" THEN Append(said, Ending.line) ELSE said
  /\ UNCHANGED <<phase, remaining, used>> /\ Run

Exit ==
  /\ Ends("ret") /\ returns = << >>
  /\ phase' = "done"
  /\ UNCHANGED machine /\ Run

Execute ==
  \/ Do \/ StartLoop \/ StepLoop \/ Goto \/ Branch \/ BranchOnCount
  \/ ReturnTo \/ Exit

Finished == phase = "done" /\ UNCHANGED vars

-----------------------------------------------------------------------------
Work ==
  \/ Compiling1 \/ StartEvaluation \/ Evaluating \/ StartRun \/ Execute
  \/ Finished

\* Programs that keep to the manual's uses of 0, 1 and the last line of a
\* function.
Next == Writing(Plain') \/ Submit(EndsPlainly) \/ Work

\* The engines' turns do not stop; programs may stay unwritten.
Fairness == WF_vars(Work)

Spec == Init /\ [][Next]_vars /\ Fairness

\* Every program the parser takes.
AnyNext == Writing(TRUE) \/ Submit(TRUE) \/ Work
AnySpec == Init /\ [][AnyNext]_vars /\ Fairness

-----------------------------------------------------------------------------
TypeOK ==
  /\ prog \in Seq(Line)
  /\ InterpreterTypeOK
  /\ CodeGenTypeOK
  /\ phase \in {"write", "compile", "evaluate", "run", "done"}
  /\ at \in Position /\ at.block \in DOMAIN blocks
  /\ returns \in Seq(Position)
  /\ remaining \in [1 .. MaxLines -> Nat]
  /\ used \in 0 .. MaxChoices
  /\ said \in Seq(0 .. MaxLines)

\* The compiled program prints what the interpreter printed, in that order, and
\* in the end all of it, having read the same conditions and lists (a break
\* that leaves the wrong loop in one engine, a continue that skips the counter,
\* a return that goes on).
SameOutput ==
  /\ phase \in {"run", "done"} => IsPrefix(said, out)
  /\ phase = "done" => said = out /\ used = Len(choices)

\* Every program that is submitted is compiled, interpreted and run to its end:
\* no compiled loop goes on when the interpreted one has stopped.
Stops == (phase = "compile") ~> (phase = "done")

\* The interpreter reaches the end of the program's text: no break, continue or
\* return gets past its loop or call and stops what is behind it silently
\* (evaluator.go: Eval drops the result of evalStatements).
RunsToTheEnd ==
  [][ProgramEnds => result.is = "value" /\ frames[1].at = Len(prog) + 1]_vars
=============================================================================
