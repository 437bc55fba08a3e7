---------------------------- MODULE Preprocessor ----------------------------
(***************************************************************************)
(* preprocessor.Process: the pass that turns indentation into braces, line *)
(* by line, before a program is parsed.  A line is abstracted to what the  *)
(* pass tells apart: its indentation and what kind of line it is once      *)
(* comments are cut off.  What it writes is abstracted to the last token   *)
(* of each line, "{", ";" or "}", with the entry of LineMap.               *)
(***************************************************************************)
EXTENDS Naturals, Sequences, FiniteSets

CONSTANTS
  Indents,   \* indentations that lines may have
  MaxLines   \* bound: lines of a source

ASSUME IndentsAssumption == Indents \subseteq Nat /\ 0 \in Indents
ASSUME MaxLinesAssumption == MaxLines \in Nat

VARIABLES
  read,            \* lines read so far: the last one has this number
  indentStack,     \* the indentations of the open blocks, and 0
  inBlockComment,
  out,             \* resultLines and lineMap, which are always extended together
  lastOrigLine,    \* the last line that was not skipped
  done,            \* Process has returned
  source           \* history: the lines that were not skipped

vars == <<read, indentStack, inBlockComment, out, lastOrigLine, done, source>>

Line == [indent : Indents, header : BOOLEAN]

Output == [token : {"{", ";", "}"}, line : Nat]

Init ==
  /\ read = 0
  /\ indentStack = <<0>>
  /\ inBlockComment = FALSE
  /\ out = << >>
  /\ lastOrigLine = 0
  /\ done = FALSE
  /\ source = << >>

Top(s) == s[Len(s)]

-----------------------------------------------------------------------------
\* Lines that leave no trace: blank ones and comments, "use", "--{" (even with
\* a "}--" behind it), and everything down to a line that ends with "}--".

Skip == UNCHANGED <<indentStack, out, lastOrigLine, done, source>>

SkipLine ==
  /\ ~done /\ read < MaxLines
  /\ read' = read + 1
  /\ UNCHANGED inBlockComment
  /\ Skip

OpenComment ==
  /\ ~done /\ ~inBlockComment /\ read < MaxLines
  /\ read' = read + 1
  /\ inBlockComment' = TRUE
  /\ Skip

CloseComment ==
  /\ ~done /\ inBlockComment /\ read < MaxLines
  /\ read' = read + 1
  /\ inBlockComment' = FALSE
  /\ Skip

-----------------------------------------------------------------------------
\* Lines of the program

\* Slip: a block that is left at its own indentation is closed too.
KeptNotDeeper(s, indent) == 1 + Cardinality({i \in 2 .. Len(s) : s[i] < indent})

\* How many entries stay when the entries deeper than indent are popped.  The
\* entries grow towards the top, so that the loop stops at the first that is
\* not deeper.
Kept(s, indent) == 1 + Cardinality({i \in 2 .. Len(s) : s[i] <= indent})

\* Slip: a block is closed at the line that opened it.
CloseAtLast(n, line) == [i \in 1 .. n |-> [token |-> "}", line |-> line - 1]]

Close(n, line) == [i \in 1 .. n |-> [token |-> "}", line |-> line]]

\* Pushed when the line is deeper than all that is open.
Push(s, l) == IF l.indent > Top(s) THEN Append(s, l.indent) ELSE s

CodeLine(l) ==
  /\ ~done /\ ~inBlockComment /\ read < MaxLines
  /\ read' = read + 1
  /\ LET kept == Kept(indentStack, l.indent) IN
     /\ indentStack' = Push(SubSeq(indentStack, 1, kept), l)
     /\ out' = out \o Close(Len(indentStack) - kept, read + 1)
                   \o <<[token |-> IF l.header THEN "{" ELSE ";",
                         line |-> read + 1]>>
  /\ lastOrigLine' = read + 1
  /\ source' = Append(source, l)
  /\ UNCHANGED <<inBlockComment, done>>

\* Slip: the outermost block is left open at the end.
FinishEarly ==
  /\ ~done
  /\ indentStack' = <<indentStack[1]>>
  /\ out' = out \o (IF Len(indentStack) > 2
                   THEN Close(Len(indentStack) - 2, lastOrigLine) ELSE << >>)
  /\ done' = TRUE
  /\ UNCHANGED <<read, inBlockComment, lastOrigLine, source>>

\* The end of the source closes what is open.
Finish ==
  /\ ~done
  /\ indentStack' = <<indentStack[1]>>
  /\ out' = out \o Close(Len(indentStack) - 1, lastOrigLine)
  /\ done' = TRUE
  /\ UNCHANGED <<read, inBlockComment, lastOrigLine, source>>

Next ==
  \/ SkipLine \/ OpenComment \/ CloseComment
  \/ \E l \in Line : CodeLine(l)
  \/ Finish

Spec == Init /\ [][Next]_vars

-----------------------------------------------------------------------------
\* What indentation means, said of the source alone

\* The lines that line i is inside of: earlier ones that are less indented
\* than everything after them up to i.
Enclosing(i) ==
  {j \in 1 .. i - 1 : \A k \in j + 1 .. i : source[k].indent > source[j].indent}

\* A line that may follow: deeper after a header, otherwise as deep as the
\* line before or as one that line is inside of.
WellIndented(l) ==
  LET m == Len(source) IN
  IF m = 0 THEN l.indent = 0
  ELSE IF source[m].header THEN l.indent > source[m].indent
  ELSE l.indent \in {source[j].indent : j \in Enclosing(m) \cup {m}}

\* Programs that are indented that way, and do not end with a header.
IndentedNext ==
  \/ SkipLine \/ OpenComment \/ CloseComment
  \/ \E l \in Line : WellIndented(l) /\ CodeLine(l)
  \/ (Len(source) > 0 => ~Top(source).header) /\ Finish

IndentedSpec == Init /\ [][IndentedNext]_vars

-----------------------------------------------------------------------------
\* Properties

Count(t, n) == Cardinality({i \in 1 .. n : out[i].token = t})

\* Blocks that are open before the n-th output line.
Depth(n) == Count("{", n - 1) - Count("}", n - 1)

\* The output lines that stand for source lines, in order.
Written == {n \in DOMAIN out : out[n].token # "}"}

\* Which source line the output line n stands for.
Ordinal(n) == Cardinality({i \in Written : i <= n})

TypeOK ==
  /\ read \in 0 .. MaxLines
  /\ indentStack \in Seq(Indents) /\ indentStack # << >>
  /\ inBlockComment \in BOOLEAN /\ done \in BOOLEAN
  /\ out \in Seq(Output)
  /\ lastOrigLine \in 0 .. read
  /\ source \in Seq(Line)

\* Every line of a well-indented program is, in the output, inside of as many
\* blocks as it is inside of in the source, so that the parser sees the
\* structure that the indentation shows.
DepthIsIndentation ==
  \A n \in Written : Depth(n) = Cardinality(Enclosing(Ordinal(n)))

\* The output of a well-indented program is balanced, and on the way to it no
\* block is closed that was not opened.
Balanced ==
  /\ \A n \in 1 .. Len(out) : Count("}", n) <= Count("{", n)
  /\ done => Count("{", Len(out)) = Count("}", Len(out))

\* LineMap never goes back, however many braces a line closes: an error is
\* reported at the line it is in or at the one that ended its block.
LinesInOrder ==
  /\ \A i, j \in DOMAIN out : i <= j => out[i].line <= out[j].line
  /\ \A i \in DOMAIN out : out[i].line \in 1 .. read
  /\ \A i, j \in Written : i # j => out[i].line # out[j].line
=============================================================================
