------------------------------ MODULE CodeGen ------------------------------
(***************************************************************************)
(* How codegen turns statements into LLVM basic blocks                     *)
(* (codegen/statements.go), a statement or the end of a block per step.    *)
(* The Go recursion is the stack open.  What a block computes is abstracted *)
(* to the lines whose effect it has.                                       *)
(***************************************************************************)
EXTENDS Program

VARIABLES
  next,     \* the line to be compiled next
  fn,       \* cg.fn: the header line of the function, 0 for main
  block,    \* cg.block
  blocks,   \* every block made so far
  exits,    \* cg.loopExitBlocks
  conts,    \* cg.loopContinueBlocks
  open      \* the statements being compiled, innermost first

codegen == <<next, fn, block, blocks, exits, conts, open>>

\* An instruction has the effect of a line, or is the start or the increment
\* of the counter of a for loop.
Instr == [op : {"do", "start", "step"}, line : 1 .. MaxLines]

\* A terminator: none yet, a jump, a branch on the condition or on the counter
\* of a line, or a return of a line's value (0: null).
Term == [op : {"none", "br", "cond", "count", "ret"}, line : 0 .. MaxLines,
         yes : Nat, no : Nat]

NoTerm == [op |-> "none", line |-> 0, yes |-> 0, no |-> 0]
Br(b) == [op |-> "br", line |-> 0, yes |-> b, no |-> b]
CondBr(i, b, c) == [op |-> "cond", line |-> i, yes |-> b, no |-> c]
CountBr(i, b, c) == [op |-> "count", line |-> i, yes |-> b, no |-> c]
Ret(i) == [op |-> "ret", line |-> i, yes |-> 0, no |-> 0]

BasicBlock == [fn : 0 .. MaxLines, code : Seq(Instr), term : Term]

NewBlock(f, t) == [fn |-> f, code |-> << >>, term |-> t]

\* A statement being compiled: what comes after the block it is in now, and
\* the block, or the function and block, to go on with.
Open == [line : 1 .. MaxLines, else : Nat, merge : Nat, fn : 0 .. MaxLines]

Opened(i, e, m, f) == [line |-> i, else |-> e, merge |-> m, fn |-> f]

InitCodeGen ==
  /\ next = 1
  /\ fn = 0
  /\ block = 1
  /\ blocks = <<NewBlock(0, NoTerm)>>
  /\ exits = << >> /\ conts = << >>
  /\ open = << >>

-----------------------------------------------------------------------------
\* The block of the innermost open statement is over.
BodyOver ==
  /\ open # << >>
  /\ next <= Len(prog) => Indent(next) <= Indent(Head(open).line)

\* Line next is to be compiled; it is of one of these kinds.
Compiling(kinds) ==
  ~BodyOver /\ next <= Len(prog) /\ Kind(next) \in kinds

Terminated == blocks[block].term.op # "none"

\* blocks with the current one ended by t, unless it has a terminator.
EndedBy(t) ==
  IF Terminated THEN blocks ELSE [blocks EXCEPT ![block].term = t]

Emitted(op) ==
  [blocks EXCEPT ![block].code = Append(@, [op |-> op, line |-> next])]

\* compileStatement returns at once when the block has its terminator.
Skip ==
  /\ Compiling(Kinds) /\ Terminated
  /\ next' = After(next)
  /\ UNCHANGED <<fn, block, blocks, exits, conts, open>>

\* compileFuncBody returns the value of a last expression, 0 and 1 included.
Implicit == LastOfFunction(next)

\* The statements 0 and 1 jump when a loop is there.
Jumps == Kind(next) \in {"zero", "one"} /\ ~Implicit /\ exits # << >>

Effect ==
  /\ Compiling(Leaves \ {"ret"}) /\ ~Terminated /\ ~Jumps
  /\ blocks' = IF Implicit /\ Kind(next) # "say"
               THEN [Emitted("do") EXCEPT ![block].term = Ret(next)]
               ELSE Emitted("do")
  /\ next' = next + 1
  /\ UNCHANGED <<fn, block, exits, conts, open>>

\* Slip: the outermost loop is left.
JumpFromOutermost ==
  /\ Compiling({"zero", "one"}) /\ ~Terminated /\ Jumps
  /\ LET to == IF Kind(next) = "zero" THEN exits[1] ELSE conts[1] IN
     blocks' = Append(EndedBy(Br(to)), NewBlock(fn, NoTerm))
  /\ block' = Len(blocks) + 1
  /\ next' = next + 1
  /\ UNCHANGED <<fn, exits, conts, open>>

\* What follows a break or continue goes to a new block, which nothing enters.
Jump ==
  /\ Compiling({"zero", "one"}) /\ ~Terminated /\ Jumps
  /\ LET to == IF Kind(next) = "zero" THEN Last(exits) ELSE Last(conts) IN
     blocks' = Append(EndedBy(Br(to)), NewBlock(fn, NoTerm))
  /\ block' = Len(blocks) + 1
  /\ next' = next + 1
  /\ UNCHANGED <<fn, exits, conts, open>>

Return ==
  /\ Compiling({"ret"}) /\ ~Terminated
  /\ blocks' = EndedBy(Ret(next))
  /\ next' = next + 1
  /\ UNCHANGED <<fn, block, exits, conts, open>>

-----------------------------------------------------------------------------
\* if and catch.  A catch has no else block.

IfStmt ==
  /\ Compiling({"if"}) /\ ~Terminated
  /\ LET n == Len(blocks) IN
     /\ blocks' = EndedBy(CondBr(next, n + 1, n + 2))
                  \o [i \in 1 .. 3 |-> NewBlock(fn, NoTerm)]
     /\ block' = n + 1
     /\ open' = <<Opened(next, n + 2, n + 3, fn)>> \o open
  /\ next' = next + 1
  /\ UNCHANGED <<fn, exits, conts>>

CatchStmt ==
  /\ Compiling({"catch"}) /\ ~Terminated
  /\ LET n == Len(blocks) IN
     /\ blocks' = EndedBy(CondBr(next, n + 1, n + 2))
                  \o [i \in 1 .. 2 |-> NewBlock(fn, NoTerm)]
     /\ block' = n + 1
     /\ open' = <<Opened(next, 0, n + 2, fn)>> \o open
  /\ next' = next + 1
  /\ UNCHANGED <<fn, exits, conts>>

Closing(kinds) == BodyOver /\ Kind(Head(open).line) \in kinds

\* The then branch is over: the else branch is next, which may be empty (then
\* the statement stays open for the else block, without a line of its own).
ThenEnds ==
  /\ Closing({"if"}) /\ Head(open).else # 0
  /\ LET o == Head(open) IN
     /\ block' = o.else
     /\ blocks' = EndedBy(Br(o.merge))
     /\ IF HasElse(o.line)
        THEN /\ open' = <<[o EXCEPT !.line = End(o.line)]>> \o Tail(open)
             /\ next' = next + 1
        ELSE /\ open' = <<[o EXCEPT !.else = 0]>> \o Tail(open)
             /\ UNCHANGED next
  /\ UNCHANGED <<fn, exits, conts>>

\* A branch after which the statement is over.
BranchCloses ==
  /\ Closing({"if", "else", "catch"})
  /\ Kind(Head(open).line) = "if" => Head(open).else = 0
  /\ blocks' = EndedBy(Br(Head(open).merge))
  /\ block' = Head(open).merge
  /\ open' = Tail(open)
  /\ UNCHANGED <<next, fn, exits, conts>>

-----------------------------------------------------------------------------
\* Loops

WhileStmt ==
  /\ Compiling({"while"}) /\ ~Terminated
  /\ LET n == Len(blocks) IN
     /\ blocks' = EndedBy(Br(n + 1))
                  \o <<NewBlock(fn, CondBr(next, n + 2, n + 3)),
                       NewBlock(fn, NoTerm), NewBlock(fn, NoTerm)>>
     /\ block' = n + 2
     /\ conts' = Append(conts, n + 1)
     /\ exits' = Append(exits, n + 3)
     /\ open' = <<Opened(next, n + 1, n + 3, fn)>> \o open
  /\ next' = next + 1
  /\ UNCHANGED fn

\* Slip: continue goes to the condition and leaves the counter as it is.
ForStmtNoStep ==
  /\ Compiling({"for"}) /\ ~Terminated
  /\ LET n == Len(blocks)
         step == [NewBlock(fn, Br(n + 1)) EXCEPT
                    !.code = <<[op |-> "step", line |-> next]>>]
     IN
     /\ blocks' = [Emitted("start") EXCEPT ![block].term = Br(n + 1)]
                  \o <<NewBlock(fn, CountBr(next, n + 2, n + 4)),
                       NewBlock(fn, NoTerm), step, NewBlock(fn, NoTerm)>>
     /\ block' = n + 2
     /\ conts' = Append(conts, n + 1)
     /\ exits' = Append(exits, n + 4)
     /\ open' = <<Opened(next, n + 3, n + 4, fn)>> \o open
  /\ next' = next + 1
  /\ UNCHANGED fn

ForStmt ==
  /\ Compiling({"for"}) /\ ~Terminated
  /\ LET n == Len(blocks)
         step == [NewBlock(fn, Br(n + 1)) EXCEPT
                    !.code = <<[op |-> "step", line |-> next]>>]
     IN
     /\ blocks' = [Emitted("start") EXCEPT ![block].term = Br(n + 1)]
                  \o <<NewBlock(fn, CountBr(next, n + 2, n + 4)),
                       NewBlock(fn, NoTerm), step, NewBlock(fn, NoTerm)>>
     /\ block' = n + 2
     /\ conts' = Append(conts, n + 3)
     /\ exits' = Append(exits, n + 4)
     /\ open' = <<Opened(next, n + 3, n + 4, fn)>> \o open
  /\ next' = next + 1
  /\ UNCHANGED fn

\* The body goes back to the condition or to the increment, and the loop is
\* taken from the stacks.
LoopCloses ==
  /\ Closing(Loops)
  /\ blocks' = EndedBy(Br(Head(open).else))
  /\ block' = Head(open).merge
  /\ conts' = Front(conts)
  /\ exits' = Front(exits)
  /\ open' = Tail(open)
  /\ UNCHANGED <<next, fn>>

-----------------------------------------------------------------------------
\* Functions

\* The blocks of a function are its own; the stacks of the loops around its
\* definition stay as they are.
FuncDef ==
  /\ Compiling({"fn"}) /\ ~Terminated
  /\ blocks' = Append(blocks, NewBlock(next, NoTerm))
  /\ block' = Len(blocks) + 1
  /\ open' = <<Opened(next, 0, block, fn)>> \o open
  /\ fn' = next
  /\ next' = next + 1
  /\ UNCHANGED <<exits, conts>>

\* Slip: a function that ends without a value is left without a terminator.
FuncClosesOpen ==
  /\ Closing({"fn"})
  /\ blocks' = blocks
  /\ block' = Head(open).merge
  /\ fn' = Head(open).fn
  /\ open' = Tail(open)
  /\ UNCHANGED <<next, exits, conts>>

FuncCloses ==
  /\ Closing({"fn"})
  /\ blocks' = EndedBy(Ret(0))
  /\ block' = Head(open).merge
  /\ fn' = Head(open).fn
  /\ open' = Tail(open)
  /\ UNCHANGED <<next, exits, conts>>

\* Generate ends main.
Compiled == next > Len(prog) /\ open = << >>

MainEnds ==
  /\ Compiled /\ ~Terminated
  /\ blocks' = EndedBy(Ret(0))
  /\ UNCHANGED <<next, fn, block, exits, conts, open>>

Compile ==
  \/ Skip \/ Effect \/ Jump \/ Return
  \/ IfStmt \/ CatchStmt \/ ThenEnds \/ BranchCloses
  \/ WhileStmt \/ ForStmt \/ LoopCloses
  \/ FuncDef \/ FuncCloses \/ MainEnds

CodeGenTypeOK ==
  /\ next \in 1 .. MaxLines + 1
  /\ fn \in 0 .. MaxLines
  /\ blocks \in Seq(BasicBlock) /\ block \in DOMAIN blocks
  /\ {exits, conts} \subseteq Seq(DOMAIN blocks) /\ Len(exits) = Len(conts)
  /\ open \in Seq(Open)

\* LLVM accepts the module: every block has a terminator, and jumps only to
\* blocks of its own function.
ModuleIsValid ==
  Compiled /\ Terminated =>
    \A b \in DOMAIN blocks :
      LET t == blocks[b].term IN
      /\ t.op # "none"
      /\ t.op # "ret" =>
           {t.yes, t.no} \subseteq {c \in DOMAIN blocks :
                                      blocks[c].fn = blocks[b].fn}
=============================================================================
