------------------------- MODULE Preprocessor_proofs -------------------------
(***************************************************************************)
(* Proofs about Preprocessor, for any indentations and any number of       *)
(* lines.                                                                  *)
(***************************************************************************)
EXTENDS Preprocessor, TLAPS, SequenceTheorems, FiniteSetTheorems,
        WellFoundedInduction

-----------------------------------------------------------------------------
(* The invariant of every source.                                          *)

\* The entries of the stack grow towards its top.
Rising(s) == \A i, j \in DOMAIN s : i < j => s[i] < s[j]

Shape ==
  /\ TypeOK
  /\ indentStack[1] = 0 /\ Rising(indentStack)
  /\ Len(indentStack) > 1 => lastOrigLine >= 1
  /\ \A i \in DOMAIN out : out[i].line \in 1 .. lastOrigLine
  /\ LinesInOrder

-----------------------------------------------------------------------------
(* Sets of numbers.                                                        *)

LEMMA Maximum ==
  ASSUME NEW k \in Nat, NEW S, S \subseteq 1 .. k, S # {}
  PROVE  \E d \in S : \A c \in S : c =< d
<1> DEFINE T == {k - d : d \in S}
           R == {ss \in Nat \X Nat : ss[1] < ss[2]}
<1>1. IsWellFoundedOn(R, Nat)
  BY NatLessThanWellFounded DEF OpToRel
<1>2. \A c \in S : c \in Nat /\ k - c \in Nat
  <2>1. \A c \in 1 .. k : c \in Nat /\ k - c \in Nat
    OBVIOUS
  <2>2. QED BY <2>1
<1>3. T \subseteq Nat /\ T # {}
  BY <1>2
<1>4. PICK x \in T : \A y \in T : ~ (<<y, x>> \in R)
  BY <1>1, <1>3, WFMin
<1>5. PICK d \in S : x = k - d
  OBVIOUS
<1>6. ASSUME NEW c \in S
      PROVE  c =< d
  <2>1. ~ (<<k - c, x>> \in R)
    BY <1>4
  <2>2. ~ (k - c < x)
    BY <1>2, <1>3, <2>1
  <2>3. QED BY <1>2, <1>5, <2>2
<1>7. QED BY <1>6

LEMMA FiniteBelow ==
  ASSUME NEW a \in Nat, NEW b \in Nat, NEW S, S \subseteq a .. b
  PROVE  IsFiniteSet(S) /\ Cardinality(S) \in Nat
<1>1. IsFiniteSet(a .. b)
  BY FS_Interval
<1>2. IsFiniteSet(S)
  BY <1>1, FS_Subset
<1>3. QED BY <1>2, FS_CardinalityType

\* As many entries stay as the line is not less indented than.
LEMMA KeptPrefix ==
  ASSUME NEW s \in Seq(Nat), s # << >>, Rising(s), NEW x \in Nat, s[1] =< x
  PROVE  /\ Kept(s, x) \in 1 .. Len(s)
         /\ \A i \in 1 .. Len(s) : s[i] =< x <=> i =< Kept(s, x)
<1> DEFINE S == {i \in 2 .. Len(s) : s[i] =< x}
           n == Len(s)
<1>1. /\ n \in Nat /\ n >= 1 /\ DOMAIN s = 1 .. n
      /\ \A i \in 1 .. n : s[i] \in Nat
  OBVIOUS
<1>2. PICK d \in S \cup {1} : \A c \in S \cup {1} : c =< d
  <2>1. S \cup {1} \subseteq 1 .. n
    BY <1>1
  <2>2. QED BY <1>1, <2>1, Maximum
<1>3. d \in 1 .. n /\ s[d] =< x
  BY <1>1
<1>4. \A i \in 1 .. n : s[i] =< x <=> i =< d
  <2>1. ASSUME NEW i \in 1 .. n, s[i] =< x
        PROVE  i =< d
    <3>1. i \in S \cup {1}
      BY <1>1, <2>1
    <3>2. QED BY <1>2, <3>1
  <2>2. ASSUME NEW i \in 1 .. n, i =< d
        PROVE  s[i] =< x
    <3>1. i = d \/ i < d
      BY <1>1, <1>3, <2>2
    <3>2. CASE i < d
      <4>1. s[i] < s[d]
        BY <1>1, <1>3, <3>2 DEF Rising
      <4>2. s[i] \in Nat /\ s[d] \in Nat
        BY <1>1, <1>3
      <4>3. QED BY <1>3, <4>1, <4>2
    <3>3. QED BY <1>3, <3>1, <3>2
  <2>3. QED BY <2>1, <2>2
<1>5. S = 2 .. d
  BY <1>1, <1>3, <1>4
<1>6. Cardinality(2 .. d) = d - 1
  BY <1>3, FS_Interval
<1>7. Kept(s, x) = d
  <2>1. Kept(s, x) = 1 + Cardinality(S)
    BY DEF Kept
  <2>2. d \in Nat
    BY <1>1, <1>3
  <2>3. Cardinality(S) = d - 1
    BY <1>5, <1>6
  <2> HIDE DEF S
  <2>4. QED BY <2>1, <2>2, <2>3
<1>8. QED BY <1>3, <1>4, <1>7

-----------------------------------------------------------------------------
(* What the steps write.                                                   *)

\* k braces, entered at line.
Closes(s, k, line) ==
  /\ Len(s) = Len(out) + k
  /\ \A i \in 1 .. Len(out) : s[i] = out[i]
  /\ \A i \in Len(out) + 1 .. Len(out) + k : s[i] = [token |-> "}", line |-> line]

\* Then the line itself.
Token(l) == [token |-> IF l.header THEN "{" ELSE ";", line |-> read + 1]

Writes(k, l) ==
  /\ Len(out') = Len(out) + k + 1
  /\ \A i \in 1 .. Len(out) : out'[i] = out[i]
  /\ \A i \in Len(out) + 1 .. Len(out) + k : out'[i] = [token |-> "}", line |-> read + 1]
  /\ out'[Len(out) + k + 1] = Token(l)

LEMMA Brace ==
  ASSUME NEW entry, NEW line, entry = [token |-> "}", line |-> line]
  PROVE  entry.token = "}" /\ entry.line = line
  OBVIOUS

LEMMA ClosesIs ==
  ASSUME out \in Seq(Output), NEW k \in Nat, NEW line \in Nat
  PROVE  /\ out \o Close(k, line) \in Seq(Output)
         /\ Closes(out \o Close(k, line), k, line)
<1>1. Close(k, line) \in Seq(Output)
  <2>1. [token |-> "}", line |-> line] \in Output
    BY DEF Output
  <2>2. Close(k, line) \in [1 .. k -> Output]
    BY <2>1 DEF Close
  <2>3. QED BY <2>2, SeqDef
<1>2. Len(Close(k, line)) = k /\ Len(out) \in Nat
  BY DEF Close
<1>3. /\ out \o Close(k, line) \in Seq(Output)
      /\ Len(out \o Close(k, line)) = Len(out) + k
      /\ \A i \in 1 .. Len(out) + k : (out \o Close(k, line))[i] =
           IF i <= Len(out) THEN out[i] ELSE Close(k, line)[i - Len(out)]
  BY <1>1, <1>2, ConcatProperties
<1>4. ASSUME NEW i \in Len(out) + 1 .. Len(out) + k
      PROVE  Close(k, line)[i - Len(out)] = [token |-> "}", line |-> line]
  <2>1. i - Len(out) \in 1 .. k
    BY <1>2
  <2>2. QED BY <2>1 DEF Close
<1>5. \A i \in 1 .. Len(out) : i \in 1 .. Len(out) + k /\ i <= Len(out)
  BY <1>2
<1>6. \A i \in Len(out) + 1 .. Len(out) + k : i \in 1 .. Len(out) + k /\ ~(i <= Len(out))
  BY <1>2
<1>7. QED BY <1>3, <1>4, <1>5, <1>6 DEF Closes

LEMMA WritesIs ==
  ASSUME out \in Seq(Output), NEW k \in Nat, read \in Nat, NEW l \in Line,
         out' = out \o Close(k, read + 1) \o <<Token(l)>>
  PROVE  out' \in Seq(Output) /\ Writes(k, l)
<1> DEFINE mid == out \o Close(k, read + 1)
<1>1. mid \in Seq(Output) /\ Closes(mid, k, read + 1)
  BY ClosesIs
<1>2. Token(l) \in Output
  <2>1. read + 1 \in Nat
    OBVIOUS
  <2>2. CASE l.header
    BY <2>1, <2>2 DEF Token, Output
  <2>3. CASE ~l.header
    BY <2>1, <2>3 DEF Token, Output
  <2>4. QED BY <2>2, <2>3
<1>3. out' = mid \o <<Token(l)>>
  OBVIOUS
<1> HIDE DEF mid
<1>4. /\ out' \in Seq(Output) /\ Len(out') = Len(mid) + 1
      /\ \A i \in 1 .. Len(mid) : out'[i] = mid[i]
      /\ out'[Len(mid) + 1] = Token(l)
  <2>1. Len(mid) \in Nat
    BY <1>1
  <2>2. <<Token(l)>> \in Seq(Output) /\ Len(<<Token(l)>>) = 1 /\ <<Token(l)>>[1] = Token(l)
    BY <1>2
  <2>3. /\ out' \in Seq(Output) /\ Len(out') = Len(mid) + 1
        /\ \A i \in 1 .. Len(mid) + 1 :
             out'[i] = IF i <= Len(mid) THEN mid[i] ELSE <<Token(l)>>[i - Len(mid)]
    <3>1. PICK one \in Seq(Output) : one = <<Token(l)>>
      BY <2>2
    <3>2. /\ mid \o one \in Seq(Output) /\ Len(mid \o one) = Len(mid) + Len(one)
          /\ \A i \in 1 .. Len(mid) + Len(one) :
               (mid \o one)[i] = IF i <= Len(mid) THEN mid[i] ELSE one[i - Len(mid)]
      BY <1>1, ConcatProperties
    <3>3. QED BY <1>3, <2>2, <3>1, <3>2
  <2>4. \A i \in 1 .. Len(mid) : i \in 1 .. Len(mid) + 1 /\ i <= Len(mid)
    BY <2>1
  <2>5. Len(mid) + 1 \in 1 .. Len(mid) + 1 /\ ~(Len(mid) + 1 <= Len(mid))
        /\ (Len(mid) + 1) - Len(mid) = 1
    BY <2>1
  <2>6. QED BY <2>2, <2>3, <2>4, <2>5
<1>5. Len(out) \in Nat
  OBVIOUS
<1>6. \A i \in 1 .. Len(out) : i \in 1 .. Len(out) + k
  BY <1>5
<1>7. \A i \in Len(out) + 1 .. Len(out) + k : i \in 1 .. Len(out) + k
  BY <1>5
<1>8. QED BY <1>1, <1>4, <1>6, <1>7 DEF Closes, Writes

-----------------------------------------------------------------------------
(* The stack.                                                              *)

\* What a line with code makes of the stack: kept entries, and one more if
\* the line is deeper than these.
Restacks(kept, l) ==
  /\ kept \in 1 .. Len(indentStack)
  /\ \A i \in 1 .. Len(indentStack) : indentStack[i] =< l.indent <=> i =< kept
  /\ \A i \in 1 .. kept : indentStack'[i] = indentStack[i]
  /\ \/ /\ indentStack[kept] < l.indent
        /\ Len(indentStack') = kept + 1 /\ indentStack'[kept + 1] = l.indent
     \/ /\ indentStack[kept] = l.indent
        /\ Len(indentStack') = kept

LEMMA StackFacts ==
  ASSUME Shape
  PROVE  /\ Len(indentStack) \in Nat /\ Len(indentStack) >= 1
         /\ DOMAIN indentStack = 1 .. Len(indentStack)
         /\ indentStack \in Seq(Indents) /\ indentStack \in Seq(Nat)
         /\ indentStack # << >>
         /\ \A i \in 1 .. Len(indentStack) : indentStack[i] \in Indents /\ indentStack[i] \in Nat
<1>1. indentStack \in Seq(Indents) /\ indentStack # << >>
  BY DEF Shape, TypeOK
<1>2. indentStack \in Seq(Nat)
  BY <1>1, IndentsAssumption, SeqMonotonic
<1>3. QED BY <1>1, <1>2

LEMMA RestacksIs ==
  ASSUME Shape, NEW l \in Line,
         indentStack' = Push(SubSeq(indentStack, 1, Kept(indentStack, l.indent)), l)
  PROVE  /\ indentStack' \in Seq(Indents) /\ indentStack' # << >>
         /\ Restacks(Kept(indentStack, l.indent), l)
<1> DEFINE s == indentStack
           kept == Kept(s, l.indent)
           sub == SubSeq(s, 1, kept)
<1>1. /\ Len(s) \in Nat /\ Len(s) >= 1 /\ s \in Seq(Indents) /\ s \in Seq(Nat) /\ s # << >>
      /\ \A i \in 1 .. Len(s) : s[i] \in Indents /\ s[i] \in Nat
      /\ s[1] = 0 /\ Rising(s)
  BY StackFacts DEF Shape
<1>2. l.indent \in Indents /\ l.indent \in Nat /\ 0 =< l.indent
  <2>1. l.indent \in Indents
    BY DEF Line
  <2>2. l.indent \in Nat
    BY <2>1, IndentsAssumption
  <2>3. QED BY <2>1, <2>2
<1>3. /\ kept \in 1 .. Len(s)
      /\ \A i \in 1 .. Len(s) : s[i] =< l.indent <=> i =< kept
  BY <1>1, <1>2, KeptPrefix
<1> HIDE DEF kept
<1>4. kept \in Nat /\ kept >= 1
  BY <1>1, <1>3
<1>5. /\ sub \in Seq(Indents) /\ Len(sub) = kept
      /\ \A i \in 1 .. kept : sub[i] = s[i]
  <2>1. \A i \in 1 .. kept : s[i] \in Indents
    BY <1>1, <1>3, <1>4
  <2>2. /\ sub \in Seq(Indents)
        /\ Len(sub) = IF 1 <= kept THEN kept - 1 + 1 ELSE 0
        /\ \A i \in 1 .. kept - 1 + 1 : sub[i] = s[1 + i - 1]
    BY <1>4, <2>1, SubSeqProperties
  <2>3. kept - 1 + 1 = kept /\ \A i \in 1 .. kept : 1 + i - 1 = i
    BY <1>4
  <2>4. QED BY <1>4, <2>2, <2>3
<1>6. Top(sub) = s[kept] /\ s[kept] \in Nat /\ s[kept] =< l.indent
  BY <1>1, <1>3, <1>4, <1>5 DEF Top
<1> HIDE DEF sub
<1>7. indentStack' = Push(sub, l)
  BY DEF sub, kept
<1>8. CASE s[kept] < l.indent
  <2>1. indentStack' = Append(sub, l.indent)
    BY <1>2, <1>6, <1>7, <1>8 DEF Push
  <2>2. /\ indentStack' \in Seq(Indents) /\ indentStack' # << >>
        /\ Len(indentStack') = kept + 1 /\ indentStack'[kept + 1] = l.indent
        /\ \A i \in 1 .. kept : indentStack'[i] = sub[i]
    <3>1. /\ Append(sub, l.indent) \in Seq(Indents) /\ Append(sub, l.indent) # << >>
          /\ Len(Append(sub, l.indent)) = Len(sub) + 1
          /\ Append(sub, l.indent)[Len(sub) + 1] = l.indent
          /\ \A i \in 1 .. Len(sub) : Append(sub, l.indent)[i] = sub[i]
      BY <1>2, <1>5, AppendProperties
    <3>2. QED BY <1>5, <2>1, <3>1, Zenon
  <2>3. QED BY <1>3, <1>5, <1>8, <2>2 DEF Restacks, kept
<1>9. CASE ~(s[kept] < l.indent)
  <2>1. s[kept] = l.indent
    BY <1>2, <1>6, <1>9
  <2>2. indentStack' = sub /\ indentStack' # << >>
    <3>1. ~(l.indent > Top(sub))
      BY <1>2, <1>6, <1>9
    <3>2. indentStack' = sub
      BY <1>7, <3>1 DEF Push
    <3>3. sub # << >>
      BY <1>4, <1>5
    <3>4. QED BY <3>2, <3>3
  <2>3. QED BY <1>3, <1>5, <2>1, <2>2 DEF Restacks, kept
<1>10. QED BY <1>8, <1>9

LEMMA RestackRises ==
  ASSUME Shape, NEW l \in Line, NEW kept, Restacks(kept, l),
         indentStack' \in Seq(Indents)
  PROVE  /\ Rising(indentStack') /\ indentStack'[1] = 0
         /\ Top(indentStack') = l.indent
         /\ kept \in Nat /\ Len(indentStack') \in {kept, kept + 1}
<1>1. /\ Len(indentStack) \in Nat /\ DOMAIN indentStack = 1 .. Len(indentStack)
      /\ \A i \in 1 .. Len(indentStack) : indentStack[i] \in Nat
      /\ indentStack[1] = 0 /\ Rising(indentStack)
  BY StackFacts DEF Shape
<1>2. l.indent \in Nat
  BY IndentsAssumption DEF Line
<1>3. /\ kept \in 1 .. Len(indentStack)
      /\ \A i \in 1 .. kept : indentStack'[i] = indentStack[i]
  BY DEF Restacks
<1>4. kept \in Nat /\ kept >= 1 /\ 1 \in 1 .. kept /\ kept \in 1 .. kept
      /\ \A i \in 1 .. kept : i \in 1 .. Len(indentStack)
  BY <1>1, <1>3
<1>5. DOMAIN indentStack' = 1 .. Len(indentStack') /\ Len(indentStack') \in Nat
  OBVIOUS
<1>6. ASSUME NEW i \in 1 .. kept, NEW j \in 1 .. kept, i < j
      PROVE  indentStack'[i] < indentStack'[j]
  BY <1>1, <1>3, <1>4, <1>6 DEF Rising
<1>7. CASE indentStack[kept] < l.indent /\ Len(indentStack') = kept + 1
           /\ indentStack'[kept + 1] = l.indent
  <2>1. ASSUME NEW i \in 1 .. kept
        PROVE  indentStack'[i] < l.indent
    <3>1. i = kept \/ i < kept
      BY <1>4
    <3>2. i < kept => indentStack[i] < indentStack[kept]
      BY <1>1, <1>4 DEF Rising
    <3>3. indentStack[i] \in Nat /\ indentStack[kept] \in Nat
      BY <1>1, <1>3, <1>4
    <3>4. QED BY <1>2, <1>3, <1>7, <3>1, <3>2, <3>3
  <2>2. \A i \in 1 .. kept + 1 : i \in 1 .. kept \/ i = kept + 1
    BY <1>4
  <2>3. ASSUME NEW i \in 1 .. kept + 1, NEW j \in 1 .. kept + 1, i < j
        PROVE  indentStack'[i] < indentStack'[j]
    <3>1. i \in 1 .. kept
      BY <1>4, <2>3
    <3>2. QED BY <1>6, <1>7, <2>1, <2>2, <2>3, <3>1
  <2>4. Rising(indentStack')
    BY <1>5, <1>7, <2>3 DEF Rising
  <2>5. QED BY <1>1, <1>3, <1>4, <1>7, <2>4 DEF Top
<1>8. CASE indentStack[kept] = l.indent /\ Len(indentStack') = kept
  BY <1>1, <1>3, <1>4, <1>5, <1>6, <1>8 DEF Rising, Top
<1>9. QED BY <1>7, <1>8 DEF Restacks

-----------------------------------------------------------------------------
(* Every source.                                                           *)

LEMMA CodeLineDoes ==
  ASSUME Shape, NEW l \in Line, CodeLine(l)
  PROVE  \E kept \in Nat :
           /\ Restacks(kept, l) /\ indentStack' \in Seq(Indents) /\ indentStack' # << >>
           /\ out' \in Seq(Output) /\ Writes(Len(indentStack) - kept, l)
           /\ Len(indentStack) - kept \in Nat
<1> DEFINE kept == Kept(indentStack, l.indent)
           k == Len(indentStack) - kept
<1>1. /\ indentStack' \in Seq(Indents) /\ indentStack' # << >>
      /\ Restacks(kept, l)
  BY RestacksIs DEF CodeLine
<1>2. kept \in Nat /\ k \in Nat
  <2>1. kept \in 1 .. Len(indentStack) /\ Len(indentStack) \in Nat
    BY <1>1, StackFacts DEF Restacks
  <2>2. QED BY <2>1
<1>3. out' = out \o Close(k, read + 1) \o <<Token(l)>>
  BY DEF CodeLine, Token
<1>4. out \in Seq(Output) /\ read \in Nat
  BY MaxLinesAssumption DEF Shape, TypeOK
<1> HIDE DEF kept, k
<1>5. out' \in Seq(Output) /\ Writes(k, l)
  BY <1>2, <1>3, <1>4, WritesIs
<1>6. QED BY <1>1, <1>2, <1>5 DEF k

\* Each line of the output is an old one, or one at the new line.
LEMMA CodeLineKeepsOrder ==
  ASSUME Shape, NEW l \in Line, CodeLine(l), NEW k \in Nat,
         out' \in Seq(Output), Writes(k, l)
  PROVE  /\ \A i \in DOMAIN out' : out'[i].line \in 1 .. lastOrigLine'
         /\ LinesInOrder'
<1> DEFINE N == Len(out)
<1>1. N \in Nat /\ DOMAIN out = 1 .. N
  BY DEF Shape, TypeOK
<1>2. read \in Nat /\ lastOrigLine \in 0 .. read
  BY MaxLinesAssumption DEF Shape, TypeOK
<1>3. LinesInOrder /\ \A i \in 1 .. N : out[i].line \in 1 .. lastOrigLine
  BY <1>1 DEF Shape
<1>4. DOMAIN out' = 1 .. N + k + 1
  <2>1. DOMAIN out' = 1 .. Len(out')
    OBVIOUS
  <2>2. Len(out') = N + k + 1
    BY DEF Writes
  <2>3. QED BY <2>1, <2>2
<1>5. /\ \A i \in 1 .. N : out'[i] = out[i]
      /\ \A i \in N + 1 .. N + k : out'[i] = [token |-> "}", line |-> read + 1]
      /\ out'[N + k + 1] = Token(l)
  BY DEF Writes
<1>6. read' = read + 1 /\ lastOrigLine' = read + 1
  BY DEF CodeLine
<1> HIDE DEF N
<1>7. ASSUME NEW i \in DOMAIN out'
      PROVE  \/ i \in 1 .. N /\ out'[i] = out[i]
             \/ i \notin 1 .. N /\ out'[i].line = read + 1
                /\ (out'[i].token # "}" => i = N + k + 1)
  <2>1. i \in 1 .. N \/ i \in N + 1 .. N + k \/ i = N + k + 1
    BY <1>1, <1>4
  <2>2. (i \in N + 1 .. N + k \/ i = N + k + 1) => i \notin 1 .. N
    BY <1>1
  <2>3. CASE i \in 1 .. N
    BY <1>5, <2>3
  <2>4. CASE i \in N + 1 .. N + k
    <3>1. out'[i] = [token |-> "}", line |-> read + 1]
      BY <1>5, <2>4
    <3>2. out'[i].token = "}" /\ out'[i].line = read + 1
      BY <3>1, Brace
    <3>3. QED BY <2>2, <2>4, <3>2
  <2>5. CASE i = N + k + 1
    <3>1. out'[i] = Token(l)
      BY <1>5, <2>5
    <3>2. Token(l).line = read + 1
      BY DEF Token
    <3>3. out'[i].line = read + 1
      BY <3>1, <3>2
    <3>4. QED BY <2>2, <2>5, <3>3
  <2>6. QED BY <2>1, <2>3, <2>4, <2>5
<1>8. ASSUME NEW i \in 1 .. N
      PROVE  out[i].line \in 1 .. read + 1 /\ out[i].line < read + 1
  <2>1. out[i].line \in 1 .. lastOrigLine
    BY <1>3
  <2>2. QED BY <1>2, <2>1
<1>9. ASSUME NEW i \in DOMAIN out'
      PROVE  out'[i].line \in 1 .. read + 1
  <2>1. read + 1 \in 1 .. read + 1
    BY <1>2
  <2>2. QED BY <1>7, <1>8, <2>1
<1>10. ASSUME NEW i \in DOMAIN out', NEW j \in DOMAIN out', i <= j
      PROVE  out'[i].line <= out'[j].line
  <2>1. CASE j \in 1 .. N
    <3>1. i \in 1 .. N
      BY <1>1, <1>4, <1>10, <2>1
    <3>2. out[i].line <= out[j].line
      BY <1>1, <1>3, <1>10, <2>1, <3>1 DEF LinesInOrder
    <3>3. QED BY <1>5, <2>1, <3>1, <3>2
  <2>2. CASE j \notin 1 .. N
    <3>1. out'[j].line = read + 1
      BY <1>7, <2>2
    <3>2. out'[i].line \in 1 .. read + 1
      BY <1>9
    <3>3. QED BY <1>2, <3>1, <3>2
  <2>3. QED BY <2>1, <2>2
<1>11. ASSUME NEW i \in Written', NEW j \in Written', i # j
      PROVE  out'[i].line # out'[j].line
  <2>1. i \in DOMAIN out' /\ out'[i].token # "}" /\ j \in DOMAIN out' /\ out'[j].token # "}"
    BY DEF Written
  <2>2. /\ i \in 1 .. N \/ (i = N + k + 1 /\ out'[i].line = read + 1)
        /\ j \in 1 .. N \/ (j = N + k + 1 /\ out'[j].line = read + 1)
    BY <1>7, <2>1
  <2>3. CASE i \in 1 .. N /\ j \in 1 .. N
    <3>1. i \in Written /\ j \in Written
      BY <1>1, <1>5, <2>1, <2>3 DEF Written
    <3>2. QED BY <1>3, <1>5, <1>11, <2>3, <3>1 DEF LinesInOrder
  <2>4. CASE i \notin 1 .. N /\ j \in 1 .. N
    <3>1. out'[j].line = out[j].line /\ out[j].line \in 1 .. read + 1 /\ out[j].line < read + 1
      BY <1>5, <1>8, <2>4
    <3>2. QED BY <1>2, <2>2, <2>4, <3>1
  <2>5. CASE i \in 1 .. N /\ j \notin 1 .. N
    <3>1. out'[i].line = out[i].line /\ out[i].line \in 1 .. read + 1 /\ out[i].line < read + 1
      BY <1>5, <1>8, <2>5
    <3>2. QED BY <1>2, <2>2, <2>5, <3>1
  <2>6. QED BY <1>11, <2>2, <2>3, <2>4, <2>5
<1>12. QED BY <1>6, <1>9, <1>10, <1>11 DEF LinesInOrder

LEMMA CodeLineKeepsShape ==
  ASSUME Shape, NEW l \in Line, CodeLine(l)
  PROVE  Shape'
<1>1. PICK kept \in Nat :
           /\ Restacks(kept, l) /\ indentStack' \in Seq(Indents) /\ indentStack' # << >>
           /\ out' \in Seq(Output) /\ Writes(Len(indentStack) - kept, l)
           /\ Len(indentStack) - kept \in Nat
  BY CodeLineDoes
<1>2. Rising(indentStack') /\ indentStack'[1] = 0
  BY <1>1, RestackRises
<1>3. /\ \A i \in DOMAIN out' : out'[i].line \in 1 .. lastOrigLine'
      /\ LinesInOrder'
  BY <1>1, CodeLineKeepsOrder
<1>4. /\ read \in Nat /\ read' = read + 1 /\ lastOrigLine' = read + 1 /\ read < MaxLines
      /\ source' = Append(source, l) /\ source \in Seq(Line)
      /\ UNCHANGED <<inBlockComment, done>>
      /\ inBlockComment \in BOOLEAN /\ done \in BOOLEAN
  <2>1. /\ read \in 0 .. MaxLines /\ source \in Seq(Line)
        /\ inBlockComment \in BOOLEAN /\ done \in BOOLEAN
    BY DEF Shape, TypeOK
  <2>2. /\ read' = read + 1 /\ lastOrigLine' = read + 1 /\ read < MaxLines
        /\ source' = Append(source, l)
        /\ UNCHANGED <<inBlockComment, done>>
    BY DEF CodeLine
  <2>3. QED BY <2>1, <2>2, MaxLinesAssumption
<1>5. TypeOK'
  <2>1. read' \in 0 .. MaxLines /\ lastOrigLine' \in 0 .. read'
    BY <1>4, MaxLinesAssumption
  <2>2. source' \in Seq(Line)
    BY <1>4
  <2>3. QED BY <1>1, <1>4, <2>1, <2>2 DEF TypeOK
<1>6. lastOrigLine' >= 1
  BY <1>4
<1>7. QED BY <1>2, <1>3, <1>5, <1>6 DEF Shape

LEMMA FinishDoes ==
  ASSUME Shape, Finish
  PROVE  /\ Len(indentStack) - 1 \in Nat /\ lastOrigLine \in Nat
         /\ out' \in Seq(Output) /\ Closes(out', Len(indentStack) - 1, lastOrigLine)
         /\ indentStack' = <<0>>
<1>1. Len(indentStack) - 1 \in Nat
  <2>1. Len(indentStack) \in Nat /\ Len(indentStack) >= 1
    BY StackFacts
  <2>2. QED BY <2>1
<1>2. out \in Seq(Output) /\ lastOrigLine \in Nat /\ indentStack[1] = 0
  BY MaxLinesAssumption DEF Shape, TypeOK
<1>3. out' = out \o Close(Len(indentStack) - 1, lastOrigLine)
  BY DEF Finish
<1>4. out' \in Seq(Output) /\ Closes(out', Len(indentStack) - 1, lastOrigLine)
  BY <1>1, <1>2, <1>3, ClosesIs
<1>5. QED BY <1>1, <1>2, <1>4 DEF Finish

LEMMA FinishKeepsShape ==
  ASSUME Shape, Finish
  PROVE  Shape'
<1> DEFINE N == Len(out)
           k == Len(indentStack) - 1
<1>1. N \in Nat /\ DOMAIN out = 1 .. N
  BY DEF Shape, TypeOK
<1>2. read \in Nat /\ lastOrigLine \in 0 .. read
  BY MaxLinesAssumption DEF Shape, TypeOK
<1>3. LinesInOrder /\ \A i \in 1 .. N : out[i].line \in 1 .. lastOrigLine
  BY <1>1 DEF Shape
<1>4. k \in Nat /\ out' \in Seq(Output) /\ Closes(out', k, lastOrigLine) /\ indentStack' = <<0>>
  BY FinishDoes
<1>5. k > 0 => lastOrigLine >= 1
  <2>1. Len(indentStack) \in Nat
    BY StackFacts
  <2>2. QED BY <2>1 DEF Shape
<1>6. DOMAIN out' = 1 .. N + k
  <2>1. DOMAIN out' = 1 .. Len(out')
    BY <1>4
  <2>2. Len(out') = N + k
    BY <1>4 DEF Closes
  <2>3. QED BY <2>1, <2>2
<1>7. /\ \A i \in 1 .. N : out'[i] = out[i]
      /\ \A i \in N + 1 .. N + k : out'[i] = [token |-> "}", line |-> lastOrigLine]
  BY <1>4 DEF Closes
<1>8. UNCHANGED <<read, inBlockComment, lastOrigLine, source>> /\ done' = TRUE
  BY DEF Finish
<1> HIDE DEF N, k
<1>9. ASSUME NEW i \in DOMAIN out'
      PROVE  \/ i \in 1 .. N /\ out'[i] = out[i]
             \/ i \notin 1 .. N /\ out'[i].line = lastOrigLine /\ out'[i].token = "}"
                /\ lastOrigLine \in 1 .. lastOrigLine
  <2>1. i \in 1 .. N \/ (i \in N + 1 .. N + k /\ i \notin 1 .. N)
    BY <1>1, <1>4, <1>6
  <2>2. CASE i \in 1 .. N
    BY <1>7, <2>2
  <2>3. CASE i \in N + 1 .. N + k /\ i \notin 1 .. N
    <3>1. k > 0
      BY <1>1, <1>4, <2>3
    <3>2. lastOrigLine \in 1 .. lastOrigLine
      BY <1>2, <1>5, <3>1
    <3>3. out'[i] = [token |-> "}", line |-> lastOrigLine]
      BY <1>7, <2>3
    <3>4. out'[i].token = "}" /\ out'[i].line = lastOrigLine
      BY <3>3, Brace
    <3>5. QED BY <2>3, <3>2, <3>4
  <2>4. QED BY <2>1, <2>2, <2>3
<1>10. ASSUME NEW i \in DOMAIN out'
      PROVE  out'[i].line \in 1 .. lastOrigLine
  BY <1>3, <1>9
<1>11. ASSUME NEW i \in DOMAIN out', NEW j \in DOMAIN out', i <= j
      PROVE  out'[i].line <= out'[j].line
  <2>1. CASE j \in 1 .. N
    <3>1. i \in 1 .. N
      BY <1>1, <1>4, <1>6, <1>11, <2>1
    <3>2. out[i].line <= out[j].line
      BY <1>1, <1>3, <1>11, <2>1, <3>1 DEF LinesInOrder
    <3>3. QED BY <1>7, <2>1, <3>1, <3>2
  <2>2. CASE j \notin 1 .. N
    <3>1. out'[j].line = lastOrigLine
      BY <1>9, <2>2
    <3>2. out'[i].line \in 1 .. lastOrigLine
      BY <1>10
    <3>3. QED BY <1>2, <3>1, <3>2
  <2>3. QED BY <2>1, <2>2
<1>12. ASSUME NEW i \in Written', NEW j \in Written', i # j
      PROVE  out'[i].line # out'[j].line
  <2>1. i \in DOMAIN out' /\ out'[i].token # "}" /\ j \in DOMAIN out' /\ out'[j].token # "}"
    BY DEF Written
  <2>2. i \in 1 .. N /\ out'[i] = out[i] /\ j \in 1 .. N /\ out'[j] = out[j]
    BY <1>9, <2>1
  <2>3. i \in Written /\ j \in Written
    BY <1>1, <2>1, <2>2 DEF Written
  <2>4. QED BY <1>3, <1>12, <2>2, <2>3 DEF LinesInOrder
<1>13. LinesInOrder'
  <2>1. \A i \in DOMAIN out' : out'[i].line \in 1 .. read
    BY <1>2, <1>10
  <2>2. QED BY <1>8, <1>11, <1>12, <2>1 DEF LinesInOrder
<1>14. indentStack' \in Seq(Indents) /\ indentStack' # << >> /\ Rising(indentStack')
       /\ indentStack'[1] = 0 /\ Len(indentStack') = 1
  BY <1>4, IndentsAssumption DEF Rising
<1>15. TypeOK'
  BY <1>4, <1>8, <1>14 DEF Shape, TypeOK
<1>16. QED BY <1>8, <1>10, <1>13, <1>14, <1>15 DEF Shape

LEMMA SkipKeepsShape ==
  ASSUME Shape, SkipLine \/ OpenComment \/ CloseComment
  PROVE  Shape'
<1>1. /\ UNCHANGED <<indentStack, out, lastOrigLine, done, source>>
      /\ read' = read + 1 /\ read < MaxLines /\ inBlockComment' \in BOOLEAN
  BY DEF SkipLine, OpenComment, CloseComment, Skip, Shape, TypeOK
<1>2. read \in Nat /\ lastOrigLine \in 0 .. read
  BY MaxLinesAssumption DEF Shape, TypeOK
<1>3. read' \in 0 .. MaxLines /\ lastOrigLine' \in 0 .. read'
      /\ \A i \in DOMAIN out : out[i].line \in 1 .. read => out[i].line \in 1 .. read'
  BY <1>1, <1>2, MaxLinesAssumption
<1>4. TypeOK'
  BY <1>1, <1>3 DEF Shape, TypeOK
<1>5. LinesInOrder'
  <2>1. LinesInOrder
    BY DEF Shape
  <2>2. Written' = Written
    BY <1>1 DEF Written
  <2>3. \A i \in DOMAIN out' : out'[i].line \in 1 .. read'
    BY <1>1, <1>3, <2>1 DEF LinesInOrder
  <2>4. QED BY <1>1, <2>1, <2>2, <2>3 DEF LinesInOrder
<1>6. QED BY <1>1, <1>4, <1>5 DEF Shape, Rising

LEMMA InitHasShape ==
  ASSUME Init
  PROVE  Shape
<1>1. indentStack = <<0>> /\ out = << >> /\ read = 0 /\ lastOrigLine = 0
      /\ inBlockComment = FALSE /\ done = FALSE /\ source = << >>
  BY DEF Init
<1>2. indentStack \in Seq(Indents) /\ indentStack # << >> /\ indentStack[1] = 0
      /\ Len(indentStack) = 1 /\ Rising(indentStack)
  BY <1>1, IndentsAssumption DEF Rising
<1>3. TypeOK
  <2>1. 0 \in 0 .. MaxLines /\ 0 \in 0 .. 0
    BY MaxLinesAssumption
  <2>2. << >> \in Seq(Output) /\ << >> \in Seq(Line)
    OBVIOUS
  <2>3. QED BY <1>1, <1>2, <2>1, <2>2 DEF TypeOK
<1>4. QED BY <1>1, <1>2, <1>3 DEF Shape, LinesInOrder, Written

LEMMA StutterKeepsShape ==
  ASSUME Shape, UNCHANGED vars
  PROVE  Shape'
<1>1. /\ read' = read /\ indentStack' = indentStack /\ out' = out
      /\ inBlockComment' = inBlockComment /\ lastOrigLine' = lastOrigLine
      /\ done' = done /\ source' = source
  BY DEF vars
<1>2. TypeOK'
  BY <1>1 DEF Shape, TypeOK
<1>3. Written' = Written
  BY <1>1 DEF Written
<1>4. LinesInOrder'
  BY <1>1, <1>3 DEF Shape, LinesInOrder
<1>5. QED BY <1>1, <1>2, <1>4 DEF Shape, Rising

THEOREM ShapeHolds == Spec => []Shape
<1>1. Init => Shape
  BY InitHasShape
<1>2. Shape /\ [Next]_vars => Shape'
  <2> SUFFICES ASSUME Shape, [Next]_vars
               PROVE  Shape'
    OBVIOUS
  <2>1. CASE SkipLine \/ OpenComment \/ CloseComment
    BY <2>1, SkipKeepsShape
  <2>2. ASSUME NEW l \in Line, CodeLine(l)
        PROVE  Shape'
    BY <2>2, CodeLineKeepsShape
  <2>3. CASE Finish
    BY <2>3, FinishKeepsShape
  <2>4. CASE UNCHANGED vars
    BY <2>4, StutterKeepsShape
  <2>5. QED BY <2>1, <2>2, <2>3, <2>4 DEF Next
<1>3. QED BY <1>1, <1>2, PTL DEF Spec

\* LineMap never goes back and no two lines of the source are written at one
\* line, whatever the source is indented like.
THEOREM LinesAreInOrder == Spec => []LinesInOrder
<1>1. Shape => LinesInOrder
  BY DEF Shape
<1>2. QED BY <1>1, ShapeHolds, PTL

-----------------------------------------------------------------------------
(* Counting tokens.                                                        *)

Tally(s, t, n) == Cardinality({i \in 1 .. n : s[i].token = t})

LEMMA TallyType ==
  ASSUME NEW s, NEW t, NEW n \in Nat
  PROVE  /\ IsFiniteSet({i \in 1 .. n : s[i].token = t})
         /\ Tally(s, t, n) \in Nat
<1>1. {i \in 1 .. n : s[i].token = t} \subseteq 1 .. n
  OBVIOUS
<1>2. QED BY <1>1, FiniteBelow DEF Tally

LEMMA TallySame ==
  ASSUME NEW s, NEW u, NEW t, NEW n \in Nat, \A i \in 1 .. n : s[i] = u[i]
  PROVE  Tally(s, t, n) = Tally(u, t, n)
<1>1. {i \in 1 .. n : s[i].token = t} = {i \in 1 .. n : u[i].token = t}
  OBVIOUS
<1>2. QED BY <1>1 DEF Tally

LEMMA TallyNext ==
  ASSUME NEW s, NEW t, NEW n \in Nat
  PROVE  Tally(s, t, n + 1) = Tally(s, t, n) + IF s[n + 1].token = t THEN 1 ELSE 0
<1> DEFINE S == {i \in 1 .. n : s[i].token = t}
           T == {i \in 1 .. n + 1 : s[i].token = t}
<1>1. IsFiniteSet(S) /\ Cardinality(S) \in Nat /\ n + 1 \notin S
  <2>1. n + 1 \notin 1 .. n
    OBVIOUS
  <2>2. QED BY <2>1, TallyType DEF Tally
<1>2. 1 .. n + 1 = (1 .. n) \cup {n + 1}
  OBVIOUS
<1>3. CASE s[n + 1].token = t
  <2>1. T = S \cup {n + 1}
    BY <1>2, <1>3
  <2> HIDE DEF S, T
  <2>2. Cardinality(T) = Cardinality(S) + 1
    BY <1>1, <2>1, FS_AddElement
  <2>3. QED BY <1>3, <2>2 DEF Tally, S, T
<1>4. CASE s[n + 1].token # t
  <2>1. T = S
    BY <1>2, <1>4
  <2>2. QED BY <1>1, <1>4, <2>1 DEF Tally
<1>5. QED BY <1>3, <1>4

LEMMA DisjointUnion ==
  ASSUME NEW S, NEW T, IsFiniteSet(S), IsFiniteSet(T), S \cap T = {}
  PROVE  Cardinality(S \cup T) = Cardinality(S) + Cardinality(T)
<1>1. Cardinality(S) \in Nat /\ Cardinality(T) \in Nat /\ Cardinality({}) = 0
  BY FS_CardinalityType, FS_EmptySet
<1>2. Cardinality(S \cup T) = Cardinality(S) + Cardinality(T) - Cardinality(S \cap T)
  BY FS_Union
<1>3. Cardinality(S \cap T) = 0
  BY <1>1
<1>4. QED BY <1>1, <1>2, <1>3

LEMMA Extended ==
  ASSUME NEW n \in Nat, NEW k \in Nat
  PROVE  /\ 1 .. n + k = (1 .. n) \cup (n + 1 .. n + k)
         /\ (1 .. n) \cap (n + 1 .. n + k) = {}
         /\ IsFiniteSet(n + 1 .. n + k) /\ Cardinality(n + 1 .. n + k) = k
<1>1. /\ 1 .. n + k = (1 .. n) \cup (n + 1 .. n + k)
      /\ (1 .. n) \cap (n + 1 .. n + k) = {}
  OBVIOUS
<1>2. /\ IsFiniteSet(n + 1 .. n + k)
      /\ Cardinality(n + 1 .. n + k) = IF n + 1 > n + k THEN 0 ELSE (n + k) - (n + 1) + 1
  <2>1. n + 1 \in Int /\ n + k \in Int
    OBVIOUS
  <2>2. QED BY <2>1, FS_Interval
<1>3. (IF n + 1 > n + k THEN 0 ELSE (n + k) - (n + 1) + 1) = k
  OBVIOUS
<1>4. QED BY <1>1, <1>2, <1>3

LEMMA TallyBraces ==
  ASSUME NEW s, NEW n \in Nat, NEW k \in Nat,
         \A i \in n + 1 .. n + k : s[i].token = "}"
  PROVE  /\ Tally(s, "}", n + k) = Tally(s, "}", n) + k
         /\ Tally(s, "{", n + k) = Tally(s, "{", n)
<1>1. /\ 1 .. n + k = (1 .. n) \cup (n + 1 .. n + k)
      /\ (1 .. n) \cap (n + 1 .. n + k) = {}
      /\ IsFiniteSet(n + 1 .. n + k) /\ Cardinality(n + 1 .. n + k) = k
  BY Extended
<1>2. Tally(s, "{", n + k) = Tally(s, "{", n)
  <2>1. {i \in 1 .. n + k : s[i].token = "{"} = {i \in 1 .. n : s[i].token = "{"}
    BY <1>1
  <2>2. QED BY <2>1 DEF Tally
<1> DEFINE S == {i \in 1 .. n : s[i].token = "}"}
           R == n + 1 .. n + k
           T == {i \in 1 .. n + k : s[i].token = "}"}
<1>3. T = S \cup R
  BY <1>1
<1>4. S \cap R = {}
  BY <1>1
<1>5. IsFiniteSet(S) /\ Cardinality(S) \in Nat
  BY TallyType DEF Tally
<1>6. IsFiniteSet(R) /\ Cardinality(R) = k
  BY <1>1
<1> HIDE DEF S, R, T
<1>7. Cardinality(T) = Cardinality(S) + Cardinality(R)
  BY <1>3, <1>4, <1>5, <1>6, DisjointUnion
<1>8. QED BY <1>2, <1>6, <1>7 DEF Tally, S, T

\* The braces among the first n entries.
Opened(s, n) == Tally(s, "{", n)
Closed(s, n) == Tally(s, "}", n)

LEMMA Counts ==
  ASSUME NEW n
  PROVE  /\ Count("{", n) = Opened(out, n) /\ Count("}", n) = Closed(out, n)
         /\ Depth(n) = Opened(out, n - 1) - Closed(out, n - 1)
         /\ Depth(n)' = Opened(out', n - 1) - Closed(out', n - 1)
BY Zenon DEF Count, Depth, Opened, Closed, Tally

-----------------------------------------------------------------------------
(* The stack holds the indentations of the lines around.                   *)

\* The lines that the last line is inside of, and the last line.
Around == Enclosing(Len(source)) \cup {Len(source)}

Tracks ==
  IF Len(source) = 0 THEN Len(indentStack) = 1
  ELSE /\ {source[j].indent : j \in Around} = {indentStack[i] : i \in DOMAIN indentStack}
       /\ Top(indentStack) = source[Len(source)].indent

LEMMA SourceFacts ==
  ASSUME Shape
  PROVE  /\ source \in Seq(Line) /\ Len(source) \in Nat /\ DOMAIN source = 1 .. Len(source)
         /\ \A i \in 1 .. Len(source) : /\ source[i] \in Line
                                        /\ source[i].indent \in Nat
                                        /\ source[i].header \in BOOLEAN
<1>1. source \in Seq(Line)
  BY DEF Shape, TypeOK
<1>2. Len(source) \in Nat /\ DOMAIN source = 1 .. Len(source)
      /\ \A i \in 1 .. Len(source) : source[i] \in Line
  BY <1>1
<1>3. \A l \in Line : l.indent \in Nat /\ l.header \in BOOLEAN
  BY IndentsAssumption DEF Line
<1>4. QED BY <1>1, <1>2, <1>3

\* A new line is inside of those of the lines around that it is deeper than.
LEMMA EnclosingNext ==
  ASSUME Shape, NEW l \in Line, source' = Append(source, l), NEW m, m = Len(source)
  PROVE  /\ \A i \in 0 .. m : Enclosing(i)' = Enclosing(i)
         /\ Len(source') = m + 1
         /\ source'[m + 1] = l
         /\ \A j \in 1 .. m : source'[j] = source[j]
         /\ m = 0 => Enclosing(1)' = {}
         /\ m > 0 => Enclosing(m + 1)' = {j \in Around : source[j].indent < l.indent}
<1>1. m \in Nat /\ source \in Seq(Line)
  BY SourceFacts
<1>2. /\ Len(source') = m + 1 /\ source'[m + 1] = l
      /\ \A j \in 1 .. m : source'[j] = source[j]
  BY <1>1, AppendProperties
<1>3. /\ \A j \in 1 .. m : source[j].indent \in Nat
      /\ l.indent \in Nat
  BY SourceFacts, IndentsAssumption DEF Line
<1>4. ASSUME NEW i \in 0 .. m
      PROVE  Enclosing(i)' = Enclosing(i)
  <2>1. ASSUME NEW j \in 1 .. i - 1, NEW k \in j + 1 .. i
        PROVE  source'[k] = source[k] /\ source'[j] = source[j]
    <3>1. k \in 1 .. m /\ j \in 1 .. m
      BY <1>1, <1>4, <2>1
    <3>2. QED BY <1>2, <3>1
  <2>2. Enclosing(i)' =
          {j \in 1 .. i - 1 : \A k \in j + 1 .. i : source'[k].indent > source'[j].indent}
    BY DEF Enclosing
  <2>3. Enclosing(i) =
          {j \in 1 .. i - 1 : \A k \in j + 1 .. i : source[k].indent > source[j].indent}
    BY DEF Enclosing
  <2>4. QED BY <2>1, <2>2, <2>3
<1>5. Enclosing(m + 1)' =
        {j \in 1 .. m : \A k \in j + 1 .. m + 1 : source'[k].indent > source'[j].indent}
  <2>1. (m + 1) - 1 = m
    BY <1>1
  <2>2. Enclosing(m + 1)' =
          {j \in 1 .. (m + 1) - 1 : \A k \in j + 1 .. m + 1 : source'[k].indent > source'[j].indent}
    BY DEF Enclosing
  <2>3. 1 .. (m + 1) - 1 = 1 .. m
    BY <2>1
  <2>4. QED BY <2>2, <2>3
<1>6. CASE m = 0
  <2>1. 1 .. m = {}
    BY <1>6
  <2>2. Enclosing(1)' = {}
    <3>1. Enclosing(1)' =
            {j \in 1 .. 1 - 1 : \A k \in j + 1 .. 1 : source'[k].indent > source'[j].indent}
      BY DEF Enclosing
    <3>2. 1 .. 1 - 1 = {}
      OBVIOUS
    <3>3. QED BY <3>1, <3>2
  <2>3. QED BY <1>2, <1>4, <1>6, <2>2
<1>7. CASE m > 0
  <2>1. ASSUME NEW j \in 1 .. m
        PROVE  (\A k \in j + 1 .. m + 1 : source'[k].indent > source'[j].indent)
               <=> (j \in Around /\ source[j].indent < l.indent)
    <3>1. /\ j + 1 .. m + 1 = (j + 1 .. m) \cup {m + 1}
          /\ \A k \in j + 1 .. m : k \in 1 .. m
      BY <1>1, <2>1
    <3>2. (\A k \in j + 1 .. m + 1 : source'[k].indent > source'[j].indent)
          <=> (/\ \A k \in j + 1 .. m : source[k].indent > source[j].indent
               /\ l.indent > source[j].indent)
      BY <1>2, <2>1, <3>1
    <3>3. j \in Around <=> (\A k \in j + 1 .. m : source[k].indent > source[j].indent)
      <4>1. CASE j = m
        <5>1. j + 1 .. m = {}
          BY <1>1, <4>1
        <5>2. QED BY <4>1, <5>1 DEF Around
      <4>2. CASE j # m
        <5>1. j \in 1 .. m - 1
          BY <1>1, <2>1, <4>2
        <5>2. QED BY <4>2, <5>1 DEF Around, Enclosing
      <4>3. QED BY <4>1, <4>2
    <3>4. l.indent > source[j].indent <=> source[j].indent < l.indent
      BY <1>3, <2>1
    <3>5. QED BY <3>2, <3>3, <3>4
  <2>2. Around \subseteq 1 .. m
    <3>1. m \in 1 .. m /\ \A j \in 1 .. m - 1 : j \in 1 .. m
      BY <1>1, <1>7
    <3>2. Enclosing(m) \subseteq 1 .. m - 1
      BY DEF Enclosing
    <3>3. QED BY <3>1, <3>2 DEF Around
  <2>3. Enclosing(m + 1)' = {j \in Around : source[j].indent < l.indent}
    BY <1>5, <2>1, <2>2
  <2>4. QED BY <1>2, <1>4, <1>7, <2>3
<1>8. QED BY <1>1, <1>6, <1>7

LEMMA AroundIsIn ==
  ASSUME Shape, Len(source) > 0
  PROVE  /\ Around \subseteq 1 .. Len(source)
         /\ Len(source) \in Around /\ Len(source) \notin Enclosing(Len(source))
         /\ IsFiniteSet(Enclosing(Len(source)))
<1> DEFINE m == Len(source)
<1>1. m \in Nat
  BY SourceFacts
<1>2. m \in 1 .. m /\ m \notin 1 .. m - 1 /\ m - 1 \in Nat /\ \A j \in 1 .. m - 1 : j \in 1 .. m
  BY <1>1
<1>3. Enclosing(m) \subseteq 1 .. m - 1
  BY DEF Enclosing
<1>4. IsFiniteSet(Enclosing(m))
  BY <1>2, <1>3, FiniteBelow
<1> HIDE DEF m
<1>5. QED BY <1>2, <1>3, <1>4 DEF Around, m

\* A line around is less indented than those around that come after it.
LEMMA AroundRises ==
  ASSUME Shape, Len(source) > 0, NEW i \in Around, NEW j \in Around,
         source[i].indent = source[j].indent
  PROVE  i = j
<1> DEFINE m == Len(source)
<1>1. m \in Nat /\ \A a \in 1 .. m : source[a].indent \in Nat
  BY SourceFacts
<1>2. i \in 1 .. m /\ j \in 1 .. m
  BY AroundIsIn
<1>3. ASSUME NEW a \in Around, NEW b \in Around, a < b
      PROVE  source[b].indent > source[a].indent
  <2>1. a \in 1 .. m /\ b \in 1 .. m
    BY AroundIsIn
  <2>2. a # m /\ b \in a + 1 .. m
    BY <1>1, <1>3, <2>1
  <2>3. a \in Enclosing(m)
    BY <2>2 DEF Around
  <2>4. QED BY <2>2, <2>3 DEF Enclosing
<1>4. i < j \/ j < i \/ i = j
  BY <1>1, <1>2
<1>5. ~(i < j) /\ ~(j < i)
  <2>1. i < j => source[j].indent > source[i].indent
    BY <1>3
  <2>2. j < i => source[i].indent > source[j].indent
    BY <1>3
  <2>3. source[i].indent \in Nat /\ source[j].indent \in Nat
    BY <1>1, <1>2
  <2>4. QED BY <2>1, <2>2, <2>3
<1>6. QED BY <1>4, <1>5

\* Each entry of the stack is the indentation of one line around.
LEMMA AroundSize ==
  ASSUME Shape, Len(source) > 0, Tracks
  PROVE  Cardinality(Enclosing(Len(source))) = Len(indentStack) - 1
<1> DEFINE n == Len(indentStack)
<1>1. /\ n \in Nat /\ DOMAIN indentStack = 1 .. n
      /\ \A i \in 1 .. n : indentStack[i] \in Nat
  BY StackFacts
<1>2. \A i, j \in 1 .. n : indentStack[i] = indentStack[j] => i = j
  <2>1. \A i, j \in 1 .. n : i < j => indentStack[i] < indentStack[j]
    BY <1>1 DEF Shape, Rising
  <2>2. \A i, j \in 1 .. n : i < j \/ j < i \/ i = j
    BY <1>1
  <2>3. QED BY <1>1, <2>1, <2>2
<1>3. {source[j].indent : j \in Around} = {indentStack[i] : i \in 1 .. n}
  <2>1. Len(source) # 0
    BY SourceFacts
  <2>2. QED BY <1>1, <2>1 DEF Tracks
<1>4. IsFiniteSet(1 .. n) /\ Cardinality(1 .. n) = n
  <2>1. IsFiniteSet(1 .. n) /\ Cardinality(1 .. n) = IF 1 > n THEN 0 ELSE n - 1 + 1
    <3>1. 1 \in Int /\ n \in Int
      BY <1>1
    <3>2. QED BY <3>1, FS_Interval
  <2>2. (IF 1 > n THEN 0 ELSE n - 1 + 1) = n
    BY <1>1
  <2>3. QED BY <2>1, <2>2
<1>5. IsFiniteSet(Around) /\ Cardinality(Around) = Cardinality(Enclosing(Len(source))) + 1
  BY AroundIsIn, FS_AddElement DEF Around
<1> DEFINE up == [j \in Around |-> CHOOSE i \in 1 .. n : indentStack[i] = source[j].indent]
           down == [i \in 1 .. n |-> CHOOSE j \in Around : indentStack[i] = source[j].indent]
<1>6. up \in Surjection(Around, 1 .. n)
  <2>1. ASSUME NEW j \in Around
        PROVE  up[j] \in 1 .. n /\ indentStack[up[j]] = source[j].indent
    <3>1. \E i \in 1 .. n : indentStack[i] = source[j].indent
      BY <1>3
    <3>2. QED BY <3>1
  <2>2. ASSUME NEW i \in 1 .. n
        PROVE  \E j \in Around : up[j] = i
    <3>1. PICK j \in Around : indentStack[i] = source[j].indent
      BY <1>3
    <3>2. up[j] \in 1 .. n /\ indentStack[up[j]] = source[j].indent
      BY <2>1
    <3> HIDE DEF up
    <3>3. up[j] = i
      BY <1>2, <3>1, <3>2
    <3>4. QED BY <3>3
  <2>3. up \in [Around -> 1 .. n]
    BY <2>1
  <2> HIDE DEF up
  <2>4. QED BY <2>2, <2>3 DEF Surjection
<1>7. down \in Surjection(1 .. n, Around)
  <2>1. ASSUME NEW i \in 1 .. n
        PROVE  down[i] \in Around /\ indentStack[i] = source[down[i]].indent
    <3>1. \E j \in Around : indentStack[i] = source[j].indent
      BY <1>3
    <3>2. QED BY <3>1
  <2>2. ASSUME NEW j \in Around
        PROVE  \E i \in 1 .. n : down[i] = j
    <3>1. PICK i \in 1 .. n : indentStack[i] = source[j].indent
      BY <1>3
    <3>2. down[i] \in Around /\ source[down[i]].indent = source[j].indent
      BY <2>1, <3>1
    <3> HIDE DEF down
    <3>3. down[i] = j
      BY <3>2, AroundRises
    <3>4. QED BY <3>3
  <2>3. down \in [1 .. n -> Around]
    BY <2>1
  <2> HIDE DEF down
  <2>4. QED BY <2>2, <2>3 DEF Surjection
<1> HIDE DEF up, down
<1>8. Cardinality(1 .. n) =< Cardinality(Around)
  BY <1>5, <1>6, FS_Surjection
<1>9. Cardinality(Around) =< Cardinality(1 .. n)
  BY <1>4, <1>7, FS_Surjection
<1>10. Cardinality(Enclosing(Len(source))) \in Nat
  BY AroundIsIn, FS_CardinalityType
<1> HIDE DEF n
<1>11. Cardinality(Enclosing(Len(source))) + 1 = n
  BY <1>1, <1>4, <1>5, <1>8, <1>9, <1>10
<1>12. QED BY <1>1, <1>10, <1>11 DEF n

LEMMA TracksNext ==
  ASSUME Shape, Tracks, NEW l \in Line, WellIndented(l), source' = Append(source, l),
         NEW kept, Restacks(kept, l), indentStack' \in Seq(Indents)
  PROVE  Tracks'
<1> DEFINE s == indentStack
           n == Len(indentStack)
<1>1. /\ n \in Nat /\ DOMAIN indentStack = 1 .. n
      /\ \A i \in 1 .. n : indentStack[i] \in Nat
  BY StackFacts
<1>2. l.indent \in Nat
  BY IndentsAssumption DEF Line
<1>3. PICK m \in Nat : m = Len(source)
  BY SourceFacts
<1>4. /\ Len(source') = m + 1 /\ source'[m + 1] = l
      /\ \A j \in 1 .. m : source'[j] = source[j]
      /\ m > 0 => Enclosing(m + 1)' = {j \in Around : source[j].indent < l.indent}
  BY <1>3, EnclosingNext
<1>5. /\ Top(indentStack') = l.indent /\ kept \in Nat
      /\ DOMAIN indentStack' = 1 .. Len(indentStack') /\ Len(indentStack') \in {kept, kept + 1}
  BY RestackRises
<1>6. /\ \A i \in 1 .. n : indentStack[i] =< l.indent <=> i =< kept
      /\ \A i \in 1 .. kept : i \in 1 .. n /\ indentStack'[i] = indentStack[i]
  BY <1>1 DEF Restacks
<1>7. Top(indentStack') = source'[Len(source')].indent /\ Len(source') # 0
  <2>1. m + 1 # 0
    OBVIOUS
  <2>2. QED BY <1>4, <1>5, <2>1
<1>8. CASE m = 0
  <2>1. n = 1 /\ l.indent = 0 /\ indentStack[1] = 0
    BY <1>3, <1>8 DEF Tracks, WellIndented, Shape
  <2>2. kept = 1 /\ Len(indentStack') = 1
    BY <1>1, <2>1 DEF Restacks
  <2>3. Around' = {1}
    <3>1. Len(source') = 1
      BY <1>4, <1>8
    <3>2. Enclosing(1)' = {}
      BY <1>3, <1>8, EnclosingNext
    <3>3. QED BY <3>1, <3>2 DEF Around, Enclosing
  <2>4. source'[1].indent = 0 /\ indentStack'[1] = 0
    <3>1. source'[1] = l
      BY <1>4, <1>8
    <3>2. QED BY <2>1, <3>1, RestackRises
  <2>5. DOMAIN indentStack' = {1}
    BY <1>5, <2>2
  <2>6. {source'[j].indent : j \in Around'} = {indentStack'[i] : i \in DOMAIN indentStack'}
    <3>1. {source'[j].indent : j \in Around'} = {0}
      <4>1. 1 \in Around' /\ \A j \in Around' : source'[j].indent = 0
        BY <2>3, <2>4, Zenon
      <4>2. QED BY <4>1, Zenon
    <3>2. {indentStack'[i] : i \in DOMAIN indentStack'} = {0}
      BY <2>4, <2>5
    <3>3. QED BY <3>1, <3>2
  <2>7. QED BY <1>7, <2>6 DEF Tracks
<1>9. CASE m > 0
  <2> DEFINE I == {source[j].indent : j \in Around}
             J == {x \in I : x < l.indent} \cup {l.indent}
  <2>1. I = {indentStack[i] : i \in 1 .. n} /\ Around \subseteq 1 .. m
    <3>1. Len(source) # 0 /\ Len(source) > 0
      BY <1>3, <1>9
    <3>2. QED BY <1>1, <1>3, <3>1, AroundIsIn DEF Tracks
  <2>2. Around' = {j \in Around : source[j].indent < l.indent} \cup {m + 1}
    <3>1. Around' = Enclosing(m + 1)' \cup {m + 1}
      BY <1>4 DEF Around, Enclosing
    <3>2. QED BY <1>4, <1>9, <3>1
  <2>3. /\ \A i \in 1 .. kept : i =< kept /\ i \in DOMAIN indentStack'
        /\ \A i \in DOMAIN indentStack' : i \notin 1 .. kept => i = Len(indentStack')
        /\ Len(indentStack') \in DOMAIN indentStack'
        /\ \A i \in 1 .. n : i =< kept => i \in 1 .. kept
    <3>1. kept \in Nat /\ kept >= 1
      <4>1. kept \in 1 .. n
        BY DEF Restacks
      <4>2. QED BY <1>1, <4>1
    <3>2. PICK L : L = Len(indentStack') /\ L \in {kept, kept + 1}
      BY <1>5
    <3>3. /\ \A i \in 1 .. kept : i =< kept /\ i \in 1 .. L
          /\ \A i \in 1 .. L : i \notin 1 .. kept => i = L
          /\ L \in 1 .. L
      BY <3>1, <3>2
    <3>4. \A i \in 1 .. n : i =< kept => i \in 1 .. kept
      BY <1>1, <3>1
    <3>5. QED BY <1>5, <3>2, <3>3, <3>4
  <2>4. {source'[j].indent : j \in Around'} = J
    <3>1. \A j \in Around : source'[j] = source[j]
      BY <1>4, <2>1
    <3>2. QED BY <1>4, <2>2, <3>1
  <2>5. {indentStack'[i] : i \in DOMAIN indentStack'} = J
    <3>1. ASSUME NEW i \in DOMAIN indentStack'
          PROVE  indentStack'[i] \in J
      <4>1. CASE i \in 1 .. kept
        <5>1. i \in 1 .. n /\ indentStack'[i] = indentStack[i] /\ i =< kept
          BY <1>6, <2>3, <4>1
        <5>2. indentStack[i] =< l.indent /\ indentStack[i] \in Nat /\ indentStack[i] \in I
          BY <1>1, <1>6, <2>1, <5>1
        <5>3. indentStack[i] < l.indent \/ indentStack[i] = l.indent
          BY <1>2, <5>2
        <5>4. QED BY <5>1, <5>2, <5>3
      <4>2. CASE i \notin 1 .. kept
        <5>1. i = Len(indentStack')
          BY <2>3, <4>2
        <5>2. QED BY <1>5, <5>1 DEF Top
      <4>3. QED BY <4>1, <4>2
    <3>2. ASSUME NEW x \in I, x < l.indent
          PROVE  \E i \in DOMAIN indentStack' : indentStack'[i] = x
      <4>1. PICK i \in 1 .. n : x = indentStack[i]
        BY <2>1
      <4>2. indentStack[i] =< l.indent
        BY <1>1, <1>2, <3>2, <4>1
      <4>3. i \in 1 .. kept
        BY <1>6, <2>3, <4>2
      <4>4. i \in DOMAIN indentStack' /\ indentStack'[i] = x
        BY <1>6, <2>3, <4>1, <4>3
      <4>5. QED BY <4>4
    <3>3. Len(indentStack') \in DOMAIN indentStack' /\ indentStack'[Len(indentStack')] = l.indent
      BY <1>5, <2>3 DEF Top
    <3>4. QED BY <3>1, <3>2, <3>3
  <2>6. QED BY <1>7, <2>4, <2>5 DEF Tracks
<1>10. QED BY <1>8, <1>9

-----------------------------------------------------------------------------
(* What the braces add up to.                                              *)

\* A header that no line has followed yet.
Opening == IF Len(source) > 0 /\ Top(source).header THEN 1 ELSE 0

\* The blocks that are open in the output are those on the stack, and the one
\* of such a header.
Excess ==
  Opened(out, Len(out)) - Closed(out, Len(out)) = Len(indentStack) - 1 + Opening

Prefixes == \A n \in 1 .. Len(out) : Closed(out, n) =< Opened(out, n)

Indented ==
  /\ Shape
  /\ Cardinality(Written) = Len(source)
  /\ DepthIsIndentation
  /\ Prefixes
  /\ IF done THEN Opened(out, Len(out)) = Closed(out, Len(out))
     ELSE Tracks /\ Excess

\* The stack has an entry for every line around; a header makes one more.
LEMMA StackNext ==
  ASSUME Shape, Tracks, NEW l \in Line, WellIndented(l), NEW kept \in Nat, Restacks(kept, l)
  PROVE  Len(indentStack') = kept + Opening
<1> DEFINE n == Len(indentStack)
           m == Len(source)
<1>1. /\ n \in Nat /\ DOMAIN indentStack = 1 .. n /\ n \in 1 .. n
      /\ \A i \in 1 .. n : indentStack[i] \in Nat
  BY StackFacts
<1>2. m \in Nat /\ l.indent \in Nat
  BY SourceFacts, IndentsAssumption DEF Line
<1>3. /\ kept \in 1 .. n /\ indentStack[kept] \in Nat
      /\ \A i \in 1 .. n : indentStack[i] =< l.indent <=> i =< kept
      /\ \/ indentStack[kept] < l.indent /\ Len(indentStack') = kept + 1
         \/ indentStack[kept] = l.indent /\ Len(indentStack') = kept
  BY <1>1 DEF Restacks
<1>4. CASE m = 0
  <2>1. n = 1 /\ l.indent = 0 /\ indentStack[1] = 0
    BY <1>4 DEF Tracks, WellIndented, Shape
  <2>2. kept = 1
    BY <1>1, <1>3, <2>1
  <2>3. Opening = 0
    BY <1>4 DEF Opening
  <2>4. Len(indentStack') = kept
    BY <1>3, <2>1, <2>2
  <2>5. QED BY <2>3, <2>4
<1>5. CASE m > 0 /\ source[m].header
  <2>1. m # 0 /\ m > 0
    BY <1>2, <1>5
  <2>2. l.indent > indentStack[n]
    BY <1>5, <2>1 DEF Tracks, WellIndented, Top
  <2>3. indentStack[n] =< l.indent
    BY <1>1, <1>2, <2>2
  <2>4. kept = n
    <3>1. n =< kept
      BY <1>1, <1>3, <2>3
    <3>2. kept \in 1 .. n
      BY <1>3
    <3>3. n \in Nat
      BY <1>1
    <3> HIDE DEF n
    <3>4. QED BY <3>1, <3>2, <3>3
  <2>5. Len(indentStack') = kept + 1
    BY <1>1, <1>2, <1>3, <2>2, <2>4
  <2>6. Opening = 1
    BY <1>5, <2>1 DEF Opening, Top
  <2>7. QED BY <2>5, <2>6
<1>6. CASE m > 0 /\ ~source[m].header
  <2>1. m # 0 /\ m > 0
    BY <1>2, <1>6
  <2>2. l.indent \in {source[j].indent : j \in Around}
    BY <1>6, <2>1 DEF WellIndented, Around
  <2>3. PICK i \in 1 .. n : indentStack[i] = l.indent
    BY <1>1, <2>1, <2>2 DEF Tracks
  <2>4. indentStack[i] =< l.indent
    BY <1>2, <2>3
  <2>5. i =< kept
    BY <1>3, <2>4
  <2>6. ~(indentStack[kept] < l.indent)
    <3>1. i = kept \/ i < kept
      BY <1>1, <1>3, <2>5
    <3>2. i < kept => indentStack[i] < indentStack[kept]
      BY <1>1, <1>3 DEF Shape, Rising
    <3>3. QED BY <1>2, <1>3, <2>3, <3>1, <3>2
  <2>7. Len(indentStack') = kept /\ Opening = 0
    BY <1>3, <1>6, <2>6 DEF Opening, Top
  <2>8. QED BY <2>7
<1>7. QED BY <1>2, <1>4, <1>5, <1>6

\* u is s with k braces behind the first n lines.
Braced(s, u, n, k) ==
  /\ \A i \in 1 .. n : u[i] = s[i]
  /\ \A i \in n + 1 .. n + k : u[i].token = "}"

\* The counts of braces show it.
Counted(s, u, n, k) == Opened(u, n + k) = Opened(s, n) /\ Closed(u, n + k) = Closed(s, n) + k

LEMMA BracesAdd ==
  ASSUME NEW s, NEW u, NEW N \in Nat, NEW k \in Nat, Braced(s, u, N, k)
  PROVE  Counted(s, u, N, k)
<1>1. ASSUME NEW t
      PROVE  Tally(u, t, N) = Tally(s, t, N)
  <2>1. \A i \in 1 .. N : u[i] = s[i]
    BY DEF Braced
  <2>2. QED BY <2>1, TallySame
<1>2. Opened(u, N) = Opened(s, N) /\ Closed(u, N) = Closed(s, N)
  BY <1>1, Zenon DEF Opened, Closed
<1>3. \A i \in N + 1 .. N + k : u[i].token = "}"
  BY Zenon DEF Braced
<1>4. Closed(u, N + k) = Closed(u, N) + k /\ Opened(u, N + k) = Opened(u, N)
  BY <1>3, TallyBraces, Zenon DEF Closed, Opened
<1>5. QED BY <1>2, <1>4 DEF Counted

\* Fewer lines, and fewer braces, are so as well.
LEMMA BracedLess ==
  ASSUME NEW s, NEW u, NEW N \in Nat, NEW k \in Nat, Braced(s, u, N, k),
         NEW n \in 0 .. N, NEW j \in 0 .. k
  PROVE  Braced(s, u, n, 0) /\ Braced(s, u, N, j)
<1>1. /\ \A i \in 1 .. n : i \in 1 .. N
      /\ \A i \in N + 1 .. N + j : i \in N + 1 .. N + k
      /\ \A i \in n + 1 .. n + 0 : FALSE
  OBVIOUS
<1>2. QED BY <1>1, Zenon DEF Braced

\* A place in the output is an old one, one of k new ones, or one behind them.
LEMMA Places ==
  ASSUME NEW N \in Nat, NEW k \in Nat
  PROVE  /\ \A n \in 1 .. N + k : n \in 1 .. N \/ \E j \in 0 .. k : n = N + j
         /\ \A n \in 1 .. N + k + 1 : n \in 1 .. N + k \/ n = N + k + 1
<1>1. ASSUME NEW n \in 1 .. N + k, n \notin 1 .. N
      PROVE  \E j \in 0 .. k : n = N + j
  <2>1. n - N \in 0 .. k /\ n = N + (n - N)
    BY <1>1
  <2>2. QED BY <2>1
<1>2. QED BY <1>1

LEMMA BracesType ==
  ASSUME NEW s, NEW n \in Nat
  PROVE  Opened(s, n) \in Nat /\ Closed(s, n) \in Nat
BY TallyType DEF Opened, Closed

LEMMA BracesNext ==
  ASSUME NEW s, NEW n \in Nat
  PROVE  /\ Opened(s, n + 1) = Opened(s, n) + IF s[n + 1].token = "{" THEN 1 ELSE 0
         /\ Closed(s, n + 1) = Closed(s, n) + IF s[n + 1].token = "}" THEN 1 ELSE 0
BY TallyNext, Zenon DEF Opened, Closed

\* What a line with code does to the counts.
LEMMA LineCounts ==
  ASSUME Shape, NEW l \in Line, NEW k \in Nat, Writes(k, l), NEW N \in Nat, N = Len(out)
  PROVE  /\ Braced(out, out', N, k)
         /\ Opened(out', N + k + 1) = Opened(out, N) + IF l.header THEN 1 ELSE 0
         /\ Closed(out', N + k + 1) = Closed(out, N) + k
<1>1. /\ \A i \in 1 .. N : out'[i] = out[i]
      /\ \A i \in N + 1 .. N + k : out'[i] = [token |-> "}", line |-> read + 1]
      /\ out'[N + k + 1] = Token(l)
  BY Zenon DEF Writes
<1>2. Braced(out, out', N, k)
  BY <1>1, Brace, Zenon DEF Braced
<1>3. N + k \in Nat /\ k \in 0 .. k
  OBVIOUS
<1>4. Opened(out', N + k) = Opened(out, N) /\ Closed(out', N + k) = Closed(out, N) + k
  <2>1. Counted(out, out', N, k)
    BY <1>2, BracesAdd
  <2>2. QED BY <2>1, Zenon DEF Counted
<1>5. Opened(out', N + k + 1) = Opened(out', N + k) + IF l.header THEN 1 ELSE 0
  <2>1. Opened(out', (N + k) + 1) =
          Opened(out', N + k) + IF out'[(N + k) + 1].token = "{" THEN 1 ELSE 0
    BY <1>3, BracesNext, Zenon
  <2>2. out'[(N + k) + 1].token = "{" <=> l.header
    <3>1. Token(l).token = IF l.header THEN "{" ELSE ";"
      BY Zenon DEF Token
    <3>2. "{" # ";"
      BY Zenon
    <3>3. QED BY <1>1, <3>1, <3>2, Zenon
  <2>3. QED BY <2>1, <2>2, Zenon
<1>6. Closed(out', N + k + 1) = Closed(out', N + k)
  <2>1. Closed(out', (N + k) + 1) =
          Closed(out', N + k) + IF out'[(N + k) + 1].token = "}" THEN 1 ELSE 0
    BY <1>3, BracesNext, Zenon
  <2>2. out'[(N + k) + 1].token # "}"
    <3>1. Token(l).token = IF l.header THEN "{" ELSE ";"
      BY Zenon DEF Token
    <3>2. "{" # "}" /\ ";" # "}"
      BY Zenon
    <3>3. QED BY <1>1, <3>1, <3>2, Zenon
  <2>3. Closed(out', (N + k) + 1) = Closed(out', N + k) + 0
    BY <2>1, <2>2, Zenon
  <2>4. Closed(out', N + k) \in Nat
    BY <1>3, BracesType
  <2>5. QED BY <2>3, <2>4
<1>7. QED BY <1>2, <1>4, <1>5, <1>6

\* The line is written once, behind all lines before it.
LEMMA LineIsWritten ==
  ASSUME Shape, NEW l \in Line, NEW k \in Nat, Writes(k, l), out' \in Seq(Output),
         NEW N \in Nat, N = Len(out), NEW p, p = N + k + 1
  PROVE  /\ Written' = Written \cup {p} /\ p \notin Written /\ Written \subseteq 1 .. N
         /\ Cardinality(Written') = Cardinality(Written) + 1
         /\ \A n \in Written : Ordinal(n)' = Ordinal(n)
         /\ Ordinal(p)' = Cardinality(Written) + 1
<1>1. /\ \A i \in 1 .. N : out'[i] = out[i]
      /\ \A i \in N + 1 .. N + k : out'[i] = [token |-> "}", line |-> read + 1]
      /\ out'[p] = Token(l)
      /\ Len(out') = p
  BY Zenon DEF Writes
<1>2. DOMAIN out = 1 .. N /\ DOMAIN out' = 1 .. p
  <2>1. DOMAIN out = 1 .. Len(out)
    BY DEF Shape, TypeOK
  <2>2. DOMAIN out' = 1 .. Len(out')
    OBVIOUS
  <2>3. QED BY <1>1, <2>1, <2>2
<1>3. /\ p \notin 1 .. N /\ p \in 1 .. p
      /\ \A n \in 1 .. N : n \in 1 .. p /\ n =< p /\ ~(p =< n)
      /\ \A n \in 1 .. p : n \in 1 .. N \/ n \in N + 1 .. N + k \/ n = p
  OBVIOUS
<1>4. out'[p].token # "}"
  <2>1. Token(l).token = IF l.header THEN "{" ELSE ";"
    BY Zenon DEF Token
  <2>2. "{" # "}" /\ ";" # "}"
    BY Zenon
  <2>3. QED BY <1>1, <2>1, <2>2, Zenon
<1>5. \A n \in N + 1 .. N + k : out'[n].token = "}"
  BY <1>1, Brace, Zenon
<1>6. Written \subseteq 1 .. N
  BY <1>2, Zenon DEF Written
<1>7. Written' = Written \cup {p}
  <2>1. Written = {n \in 1 .. N : out[n].token # "}"}
    BY <1>2, Zenon DEF Written
  <2>2. Written' = {n \in 1 .. p : out'[n].token # "}"}
    BY <1>2, Zenon DEF Written
  <2>3. \A n : n \in Written' <=> n \in Written \/ n = p
    BY <1>1, <1>3, <1>4, <1>5, <2>1, <2>2, Zenon
  <2>4. QED BY <2>3
<1>8. p \notin Written /\ IsFiniteSet(Written)
  BY <1>3, <1>6, FiniteBelow
<1>9. Cardinality(Written') = Cardinality(Written) + 1
  BY <1>7, <1>8, FS_AddElement
<1>10. ASSUME NEW n \in Written
       PROVE  Ordinal(n)' = Ordinal(n)
  <2>1. ~(p =< n)
    BY <1>3, <1>6
  <2>2. {i \in Written' : i =< n} = {i \in Written : i =< n}
    BY <1>7, <2>1
  <2>3. QED BY <2>2 DEF Ordinal
<1>11. Ordinal(p)' = Cardinality(Written) + 1
  <2>1. p =< p /\ \A i \in Written : i =< p
    BY <1>3, <1>6
  <2>2. {i \in Written' : i =< p} = Written'
    BY <1>7, <2>1
  <2>3. Ordinal(p)' = Cardinality(Written')
    BY <2>2 DEF Ordinal
  <2>4. QED BY <1>9, <2>3
<1>12. QED BY <1>6, <1>7, <1>8, <1>9, <1>10, <1>11

\* Lines are counted within the source.
LEMMA OrdinalIsIn ==
  ASSUME Shape, NEW n \in Written
  PROVE  Ordinal(n) \in 0 .. Cardinality(Written)
<1>1. DOMAIN out = 1 .. Len(out) /\ Len(out) \in Nat
  BY DEF Shape, TypeOK
<1>2. Written \subseteq 1 .. Len(out)
  BY <1>1, Zenon DEF Written
<1>3. IsFiniteSet(Written) /\ Cardinality(Written) \in Nat
  BY <1>1, <1>2, FiniteBelow
<1>4. {i \in Written : i =< n} \in SUBSET Written
  OBVIOUS
<1>5. /\ IsFiniteSet({i \in Written : i =< n})
      /\ Cardinality({i \in Written : i =< n}) =< Cardinality(Written)
  BY <1>3, <1>4, FS_Subset
<1>6. Ordinal(n) \in Nat /\ Ordinal(n) =< Cardinality(Written)
  BY <1>5, FS_CardinalityType DEF Ordinal
<1>7. QED BY <1>3, <1>6

LEMMA AroundSizeNext ==
  Shape' /\ Tracks' /\ (Len(source) > 0)' =>
    (Cardinality(Enclosing(Len(source))) = Len(indentStack) - 1)'
<1>1. Shape /\ Tracks /\ Len(source) > 0 =>
        Cardinality(Enclosing(Len(source))) = Len(indentStack) - 1
  BY AroundSize
<1>2. QED BY <1>1, PTL

-----------------------------------------------------------------------------
(* Every step of a well-indented source.                                   *)

LEMMA BracesSame ==
  ASSUME NEW s, NEW u, NEW N \in Nat, NEW k \in Nat, Braced(s, u, N, k), NEW n \in 0 .. N
  PROVE  Opened(u, n) = Opened(s, n) /\ Closed(u, n) = Closed(s, n)
<1>1. n \in Nat /\ 0 \in 0 .. k /\ n + 0 = n
  OBVIOUS
<1>2. Braced(s, u, n, 0)
  BY <1>1, BracedLess
<1>3. Counted(s, u, n, 0)
  BY <1>1, <1>2, BracesAdd
<1>4. Closed(s, n) + 0 = Closed(s, n)
  BY <1>1, BracesType
<1>5. QED BY <1>1, <1>3, <1>4, Zenon DEF Counted

\* No block is closed that is not open, if as many are open as are closed now.
LEMMA PrefixesNext ==
  ASSUME Prefixes, NEW N \in Nat, N = Len(out), NEW k \in Nat, Braced(out, out', N, k),
         Closed(out, N) + k =< Opened(out, N), NEW n \in 1 .. N + k
  PROVE  Closed(out', n) =< Opened(out', n)
<1>1. CASE n \in 1 .. N
  <2>1. n \in 0 .. N
    BY <1>1
  <2>2. Opened(out', n) = Opened(out, n) /\ Closed(out', n) = Closed(out, n)
    BY <2>1, BracesSame
  <2>3. Closed(out, n) =< Opened(out, n)
    BY <1>1 DEF Prefixes
  <2>4. QED BY <2>2, <2>3
<1>2. ASSUME NEW j \in 0 .. k, n = N + j
      PROVE  Closed(out', n) =< Opened(out', n)
  <2>1. Braced(out, out', N, j) /\ j \in Nat
    <3>1. N \in 0 .. N
      OBVIOUS
    <3>2. QED BY <3>1, BracedLess
  <2>2. Counted(out, out', N, j)
    BY <2>1, BracesAdd
  <2>3. Opened(out', n) = Opened(out, N) /\ Closed(out', n) = Closed(out, N) + j
    BY <1>2, <2>2, Zenon DEF Counted
  <2>4. Opened(out, N) \in Nat /\ Closed(out, N) \in Nat
    BY BracesType
  <2>5. QED BY <2>3, <2>4
<1>3. QED BY <1>1, <1>2, Places

\* A line that is written keeps its depth.
LEMMA DepthStays ==
  ASSUME Shape, DepthIsIndentation, Cardinality(Written) = Len(source),
         NEW N \in Nat, N = Len(out), NEW k \in Nat, Braced(out, out', N, k),
         \A i \in 0 .. Len(source) : Enclosing(i)' = Enclosing(i),
         NEW n \in Written, Ordinal(n)' = Ordinal(n)
  PROVE  Depth(n)' = Cardinality(Enclosing(Ordinal(n)))'
<1>1. PICK o : o = Ordinal(n)
  OBVIOUS
<1>2. o \in 0 .. Len(source)
  BY <1>1, OrdinalIsIn
<1>3. Enclosing(Ordinal(n))' = Enclosing(o)
  <2>1. Ordinal(n)' = o
    BY <1>1
  <2>2. Enclosing(Ordinal(n))' = Enclosing(o)'
    BY <2>1 DEF Enclosing
  <2>3. QED BY <1>2, <2>2
<1>4. Depth(n) = Cardinality(Enclosing(o))
  BY <1>1 DEF DepthIsIndentation
<1>5. n \in 1 .. N
  <2>1. DOMAIN out = 1 .. N
    BY DEF Shape, TypeOK
  <2>2. n \in DOMAIN out
    BY Zenon DEF Written
  <2>3. QED BY <2>1, <2>2
<1>6. n - 1 \in 0 .. N
  BY <1>5
<1>7. Opened(out', n - 1) = Opened(out, n - 1) /\ Closed(out', n - 1) = Closed(out, n - 1)
  BY <1>6, BracesSame
<1>8. Depth(n)' = Depth(n)
  BY <1>7, Counts, Zenon
<1>9. QED BY <1>3, <1>4, <1>8

\* A line with code closes what is deeper and stands inside of the rest.
LEMMA CodeLineKeepsIndented ==
  ASSUME Indented, NEW l \in Line, WellIndented(l), CodeLine(l)
  PROVE  Indented'
<1>1. Shape /\ ~done /\ Tracks /\ Excess /\ Prefixes /\ DepthIsIndentation
      /\ Cardinality(Written) = Len(source)
  BY DEF Indented, CodeLine
<1>2. PICK kept \in Nat :
           /\ Restacks(kept, l) /\ indentStack' \in Seq(Indents) /\ indentStack' # << >>
           /\ out' \in Seq(Output) /\ Writes(Len(indentStack) - kept, l)
           /\ Len(indentStack) - kept \in Nat
  BY <1>1, CodeLineDoes
<1>3. PICK k \in Nat, N \in Nat, m \in Nat, h \in Nat :
           k = Len(indentStack) - kept /\ N = Len(out) /\ m = Len(source) /\ h = Len(indentStack)
  <2>1. Len(out) \in Nat
    BY <1>1 DEF Shape, TypeOK
  <2>2. Len(source) \in Nat /\ Len(indentStack) \in Nat
    BY <1>1, SourceFacts, StackFacts
  <2>3. QED BY <1>2, <2>1, <2>2
<1>4. Writes(k, l)
  BY <1>2, <1>3
<1>5. done' = done /\ source' = Append(source, l)
  BY DEF CodeLine
<1>6. Shape'
  BY <1>1, CodeLineKeepsShape
<1>7. Tracks'
  BY <1>1, <1>2, <1>5, TracksNext
<1>8. Len(indentStack') = kept + Opening
  BY <1>1, <1>2, StackNext
<1>9. PICK p \in Nat : p = N + k + 1
  OBVIOUS
<1>10. /\ Written' = Written \cup {p} /\ Written \subseteq 1 .. N
       /\ Cardinality(Written') = m + 1
       /\ \A n \in Written : Ordinal(n)' = Ordinal(n)
       /\ Ordinal(p)' = m + 1
  BY <1>1, <1>2, <1>3, <1>4, <1>9, LineIsWritten
<1>11. /\ Braced(out, out', N, k)
       /\ Opened(out', N + k + 1) = Opened(out, N) + IF l.header THEN 1 ELSE 0
       /\ Closed(out', N + k + 1) = Closed(out, N) + k
  <2>1. Shape /\ N = Len(out)
    BY <1>1, <1>3
  <2>2. QED BY <1>4, <2>1, LineCounts
<1>12. /\ \A i \in 0 .. m : Enclosing(i)' = Enclosing(i)
       /\ Len(source') = m + 1 /\ source'[m + 1] = l
  BY <1>1, <1>3, <1>5, EnclosingNext
<1>13. Opened(out, N) \in Nat /\ Closed(out, N) \in Nat
  BY BracesType
<1>14. Opening \in {0, 1} /\ kept \in 1 .. h
  BY <1>2, <1>3 DEF Opening, Restacks
<1>15. Opened(out, N) - Closed(out, N) = h - 1 + Opening
  BY <1>1, <1>3, Zenon DEF Excess
<1>16. Opened(out, N) - (Closed(out, N) + k) = Len(indentStack') - 1
  BY <1>3, <1>8, <1>13, <1>14, <1>15
<1>17. Cardinality(Enclosing(m + 1))' = Len(indentStack') - 1
  <2>1. (Cardinality(Enclosing(Len(source))) = Len(indentStack) - 1)'
    <3>1. (Len(source) > 0)'
      BY <1>12
    <3>2. QED BY <1>6, <1>7, <3>1, AroundSizeNext
  <2>2. Enclosing(Len(source))' = Enclosing(m + 1)'
    BY <1>12 DEF Enclosing
  <2>3. QED BY <2>1, <2>2

<1>18. Depth(p)' = Cardinality(Enclosing(Ordinal(p)))'
  <2>1. p - 1 = N + k
    BY <1>9
  <2>2. Counted(out, out', N, k)
    BY <1>11, BracesAdd
  <2>3. Opened(out', p - 1) = Opened(out, N) /\ Closed(out', p - 1) = Closed(out, N) + k
    BY <2>1, <2>2, Zenon DEF Counted
  <2>4. Depth(p)' = Opened(out', p - 1) - Closed(out', p - 1)
    BY Counts, Zenon
  <2>5. Depth(p)' = Len(indentStack') - 1
    BY <1>16, <2>3, <2>4
  <2>6. Enclosing(Ordinal(p))' = Enclosing(m + 1)'
    BY <1>10 DEF Enclosing
  <2>7. QED BY <1>17, <2>5, <2>6
<1>19. DepthIsIndentation'
  <2>1. ASSUME NEW n \in Written'
        PROVE  Depth(n)' = Cardinality(Enclosing(Ordinal(n)))'
    <3>1. CASE n = p
      BY <1>18, <3>1
    <3>2. CASE n \in Written
      BY <1>1, <1>3, <1>10, <1>11, <1>12, <3>2, DepthStays
    <3>3. QED BY <1>10, <2>1, <3>1, <3>2
  <2>2. QED BY <2>1 DEF DepthIsIndentation
<1>20. Len(out') = N + k + 1
  BY <1>3, <1>4, Zenon DEF Writes
<1>21. Closed(out, N) + k =< Opened(out, N)
  <2>1. k = h - kept
    BY <1>3
  <2>2. QED BY <1>13, <1>14, <1>15, <2>1
<1>22. Prefixes'
  <2>1. ASSUME NEW n \in 1 .. N + k + 1
        PROVE  Closed(out', n) =< Opened(out', n)
    <3>1. CASE n \in 1 .. N + k
      BY <1>1, <1>3, <1>11, <1>21, <3>1, PrefixesNext
    <3>2. CASE n = N + k + 1
      BY <1>11, <1>13, <1>21, <3>2
    <3>3. QED BY <2>1, <3>1, <3>2, Places
  <2>2. QED BY <1>20, <2>1 DEF Prefixes
<1>23. Excess'
  <2>1. Opening' = IF l.header THEN 1 ELSE 0
    BY <1>12 DEF Opening, Top
  <2>2. Opened(out', N + k + 1) - Closed(out', N + k + 1) = Len(indentStack') - 1 + Opening'
    <3>1. Len(indentStack') \in Nat
      BY <1>8, <1>14
    <3>2. QED BY <1>11, <1>13, <1>16, <2>1, <3>1
  <2>3. QED BY <1>20, <2>2, Zenon DEF Excess
<1>24. Cardinality(Written)' = Len(source')
  BY <1>10, <1>12
<1>25. QED BY <1>1, <1>5, <1>6, <1>7, <1>19, <1>22, <1>23, <1>24, Zenon DEF Indented

\* The end of the source closes what is open.
LEMMA FinishKeepsIndented ==
  ASSUME Indented, Len(source) > 0 => ~Top(source).header, Finish
  PROVE  Indented'
<1>1. Shape /\ ~done /\ Excess /\ Prefixes /\ DepthIsIndentation
      /\ Cardinality(Written) = Len(source)
  BY DEF Indented, Finish
<1>2. /\ Len(indentStack) - 1 \in Nat
      /\ out' \in Seq(Output) /\ Closes(out', Len(indentStack) - 1, lastOrigLine)
  BY <1>1, FinishDoes
<1>3. PICK k \in Nat, N \in Nat : k = Len(indentStack) - 1 /\ N = Len(out)
  <2>1. Len(out) \in Nat
    BY <1>1 DEF Shape, TypeOK
  <2>2. QED BY <1>2, <2>1
<1>4. /\ \A i \in 1 .. N : out'[i] = out[i]
      /\ \A i \in N + 1 .. N + k : out'[i] = [token |-> "}", line |-> lastOrigLine]
      /\ Len(out') = N + k
  BY <1>2, <1>3, Zenon DEF Closes
<1>5. \A i \in N + 1 .. N + k : out'[i].token = "}"
  BY <1>4, Brace, Zenon
<1>6. Braced(out, out', N, k)
  BY <1>4, <1>5, Zenon DEF Braced
<1>7. source' = source /\ done' = TRUE
  BY DEF Finish
<1>8. Shape'
  BY <1>1, FinishKeepsShape
<1>9. Opened(out, N) \in Nat /\ Closed(out, N) \in Nat
  BY BracesType
<1>10. Opened(out, N) - Closed(out, N) = k
  <2>1. Opening = 0
    BY DEF Opening
  <2>2. Opened(out, N) - Closed(out, N) = Len(indentStack) - 1 + Opening
    BY <1>1, <1>3, Zenon DEF Excess
  <2>3. QED BY <1>3, <2>1, <2>2
<1>11. Closed(out, N) + k =< Opened(out, N) /\ Opened(out, N) = Closed(out, N) + k
  BY <1>9, <1>10
<1>12. Opened(out', N + k) = Closed(out', N + k)
  <2>1. Counted(out, out', N, k)
    BY <1>6, BracesAdd
  <2>2. Opened(out', N + k) = Opened(out, N) /\ Closed(out', N + k) = Closed(out, N) + k
    BY <2>1, Zenon DEF Counted
  <2>3. QED BY <1>11, <2>2
<1>13. Prefixes'
  <2>1. \A n \in 1 .. N + k : Closed(out', n) =< Opened(out', n)
    BY <1>1, <1>3, <1>6, <1>11, PrefixesNext
  <2>2. QED BY <1>4, <2>1 DEF Prefixes
<1>14. Written' = Written
  <2>1. DOMAIN out = 1 .. N /\ DOMAIN out' = 1 .. N + k
    <3>1. DOMAIN out = 1 .. N
      BY <1>1, <1>3 DEF Shape, TypeOK
    <3>2. DOMAIN out' = 1 .. Len(out')
      BY <1>2
    <3>3. QED BY <1>4, <3>1, <3>2
  <2>2. /\ \A i \in 1 .. N : i \in 1 .. N + k
        /\ \A i \in 1 .. N + k : i \in 1 .. N \/ i \in N + 1 .. N + k
    OBVIOUS
  <2>3. Written = {n \in 1 .. N : out[n].token # "}"}
    BY <2>1, Zenon DEF Written
  <2>4. Written' = {n \in 1 .. N + k : out'[n].token # "}"}
    BY <2>1, Zenon DEF Written
  <2>5. \A n : n \in Written' <=> n \in Written
    BY <1>4, <1>5, <2>2, <2>3, <2>4, Zenon
  <2>6. QED BY <2>5
<1>15. \A n : Ordinal(n)' = Ordinal(n)
  BY <1>14 DEF Ordinal
<1>16. \A i : Enclosing(i)' = Enclosing(i)
  BY <1>7 DEF Enclosing
<1>17. DepthIsIndentation'
  <2>1. ASSUME NEW n \in Written
        PROVE  Depth(n)' = Cardinality(Enclosing(Ordinal(n)))'
    BY <1>1, <1>3, <1>6, <1>15, <1>16, <2>1, DepthStays
  <2>2. QED BY <1>14, <2>1 DEF DepthIsIndentation
<1>18. Cardinality(Written)' = Len(source')
  BY <1>1, <1>7, <1>14
<1>19. Opened(out', Len(out')) = Closed(out', Len(out'))
  BY <1>4, <1>12
<1>20. QED BY <1>7, <1>8, <1>13, <1>17, <1>18, <1>19, Zenon DEF Indented

\* What the line counter and the comments do is not seen.
LEMMA UnseenKeepsIndented ==
  ASSUME Indented, Shape', UNCHANGED <<indentStack, out, done, source>>
  PROVE  Indented'
<1>1. indentStack' = indentStack /\ out' = out /\ done' = done /\ source' = source
  OBVIOUS
<1>2. Written' = Written /\ \A n : Ordinal(n)' = Ordinal(n)
  BY <1>1 DEF Written, Ordinal
<1>3. \A n : Enclosing(n)' = Enclosing(n) /\ Depth(n)' = Depth(n)
  BY <1>1 DEF Enclosing, Depth, Count
<1>4. Cardinality(Written)' = Len(source')
  BY <1>1, <1>2 DEF Indented
<1>5. DepthIsIndentation'
  <2>1. ASSUME NEW n \in Written
        PROVE  Depth(n)' = Cardinality(Enclosing(Ordinal(n)))'
    <3>1. Depth(n) = Cardinality(Enclosing(Ordinal(n)))
      BY DEF Indented, DepthIsIndentation
    <3>2. Enclosing(Ordinal(n))' = Enclosing(Ordinal(n))
      BY <1>1, <1>2 DEF Enclosing
    <3>3. QED BY <1>3, <3>1, <3>2
  <2>2. QED BY <1>2, <2>1 DEF DepthIsIndentation
<1>6. Prefixes'
  BY <1>1 DEF Indented, Prefixes
<1>7. /\ done' => Opened(out', Len(out')) = Closed(out', Len(out'))
      /\ ~done' => Tracks' /\ Excess'
  <2>1. Tracks => Tracks'
    BY <1>1 DEF Tracks, Around, Enclosing
  <2>2. Excess => Excess'
    BY <1>1 DEF Excess, Opening
  <2>3. /\ done => Opened(out, Len(out)) = Closed(out, Len(out))
        /\ ~done => Tracks /\ Excess
    BY Zenon DEF Indented
  <2>4. QED BY <1>1, <2>1, <2>2, <2>3
<1>8. Shape'
  OBVIOUS
<1>9. QED BY <1>4, <1>5, <1>6, <1>7, <1>8, Zenon DEF Indented

LEMMA InitIsIndented ==
  ASSUME Init
  PROVE  Indented
<1>1. Shape
  BY InitHasShape
<1>2. indentStack = <<0>> /\ out = << >> /\ done = FALSE /\ source = << >>
  BY DEF Init
<1>3. Len(out) = 0 /\ Len(source) = 0 /\ Len(indentStack) = 1 /\ DOMAIN out = {}
  BY <1>2
<1>4. Written = {}
  BY <1>3 DEF Written
<1>5. Cardinality(Written) = Len(source)
  BY <1>3, <1>4, FS_EmptySet
<1>6. DepthIsIndentation /\ Prefixes
  BY <1>3, <1>4 DEF DepthIsIndentation, Prefixes
<1>7. Tracks /\ Opening = 0
  BY <1>3 DEF Tracks, Opening
<1>8. \A s : Opened(s, 0) = 0 /\ Closed(s, 0) = 0
  <2>1. 1 .. 0 = {} /\ Cardinality({}) = 0
    BY FS_EmptySet
  <2>2. \A s, t : Tally(s, t, 0) = 0
    BY <2>1 DEF Tally
  <2>3. QED BY <2>2, Zenon DEF Opened, Closed
<1>9. Excess
  BY <1>3, <1>7, <1>8 DEF Excess
<1>10. QED BY <1>1, <1>2, <1>5, <1>6, <1>7, <1>9 DEF Indented

THEOREM IndentedHolds == IndentedSpec => []Indented
<1>1. Init => Indented
  BY InitIsIndented
<1>2. Indented /\ [IndentedNext]_vars => Indented'
  <2> SUFFICES ASSUME Indented, [IndentedNext]_vars
               PROVE  Indented'
    OBVIOUS
  <2>1. Shape
    BY DEF Indented
  <2>2. CASE SkipLine \/ OpenComment \/ CloseComment
    <3>1. Shape'
      BY <2>1, <2>2, SkipKeepsShape
    <3>2. UNCHANGED <<indentStack, out, done, source>>
      BY <2>2 DEF SkipLine, OpenComment, CloseComment, Skip
    <3>3. QED BY <3>1, <3>2, UnseenKeepsIndented
  <2>3. ASSUME NEW l \in Line, WellIndented(l), CodeLine(l)
        PROVE  Indented'
    BY <2>3, CodeLineKeepsIndented
  <2>4. CASE (Len(source) > 0 => ~Top(source).header) /\ Finish
    BY <2>4, FinishKeepsIndented
  <2>5. CASE UNCHANGED vars
    <3>1. Shape'
      BY <2>1, <2>5, StutterKeepsShape
    <3>2. UNCHANGED <<indentStack, out, done, source>>
      BY <2>5 DEF vars
    <3>3. QED BY <3>1, <3>2, UnseenKeepsIndented
  <2>6. QED BY <2>2, <2>3, <2>4, <2>5 DEF IndentedNext
<1>3. QED BY <1>1, <1>2, PTL DEF IndentedSpec

\* Every line of a well-indented program is inside of as many blocks in the
\* output as it is in the source.
THEOREM DepthHolds == IndentedSpec => []DepthIsIndentation
<1>1. Indented => DepthIsIndentation
  BY DEF Indented
<1>2. QED BY <1>1, IndentedHolds, PTL

\* The output of a well-indented program closes what it opens, and no block
\* before that.
THEOREM BalanceHolds == IndentedSpec => []Balanced
<1>1. Indented => Balanced
  <2> SUFFICES ASSUME Indented
               PROVE  Balanced
    OBVIOUS
  <2>1. \A n : Count("{", n) = Opened(out, n) /\ Count("}", n) = Closed(out, n)
    BY Counts, Zenon
  <2>2. Prefixes /\ (done => Opened(out, Len(out)) = Closed(out, Len(out)))
    BY Zenon DEF Indented
  <2>3. QED BY <2>1, <2>2, Zenon DEF Balanced, Prefixes
<1>2. QED BY <1>1, IndentedHolds, PTL
=============================================================================
