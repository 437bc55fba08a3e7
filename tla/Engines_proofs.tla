--------------------------- MODULE Engines_proofs ---------------------------
(***************************************************************************)
(* Proofs about Engines and Slots, for any bounds on programs, choices and *)
(* lists.  The first part is about the blocks that the code generator      *)
(* makes, whose stack of open statements mirrors the nesting of the        *)
(* program; the second about the frames of the interpreter, which are      *)
(* nested as the text is, and the signals they hand on; the third about    *)
(* the places of one variable in both engines: who is at a line has come   *)
(* by the lines that chose and set the place it uses.                      *)
(***************************************************************************)
EXTENDS Engines, Slots, TLAPS, SequenceTheorems, FiniteSetTheorems,
        WellFoundedInduction

-----------------------------------------------------------------------------
(* Stacks.                                                                 *)

LEMMA Pushed ==
  ASSUME NEW S, NEW s \in Seq(S), NEW x \in S
  PROVE  /\ <<x>> \o s \in Seq(S) /\ Len(<<x>> \o s) = Len(s) + 1
         /\ DOMAIN (<<x>> \o s) = 1 .. Len(s) + 1
         /\ (<<x>> \o s)[1] = x
         /\ \A i \in 1 .. Len(s) : (<<x>> \o s)[i + 1] = s[i]
         /\ \A i \in 2 .. Len(s) + 1 : (<<x>> \o s)[i] = s[i - 1]
<1>1. <<x>> \in Seq(S) /\ Len(<<x>>) = 1 /\ <<x>>[1] = x
  OBVIOUS
<1>2. /\ <<x>> \o s \in Seq(S)
      /\ Len(<<x>> \o s) = Len(<<x>>) + Len(s)
      /\ \A i \in 1 .. Len(<<x>>) + Len(s) : (<<x>> \o s)[i] =
                     IF i <= Len(<<x>>) THEN <<x>>[i] ELSE s[i - Len(<<x>>)]
  BY <1>1, ConcatProperties
<1>3. Len(s) \in Nat /\ DOMAIN (<<x>> \o s) = 1 .. Len(<<x>> \o s)
  BY <1>2, LenProperties
<1> DEFINE p == <<x>> \o s
<1>4. /\ p \in Seq(S) /\ Len(p) = Len(s) + 1 /\ DOMAIN p = 1 .. Len(s) + 1
      /\ \A i \in 1 .. Len(s) + 1 : p[i] = IF i <= 1 THEN x ELSE s[i - 1]
  <2>1. Len(<<x>>) + Len(s) = Len(s) + 1
    BY <1>1, <1>3
  <2> HIDE DEF p
  <2>2. ASSUME NEW i \in 1 .. Len(s) + 1 PROVE p[i] = IF i <= 1 THEN x ELSE s[i - 1]
    <3>1. p[i] = IF i <= 1 THEN <<x>>[i] ELSE s[i - 1]
      BY <1>1, <1>2, <2>1 DEF p
    <3>2. i <= 1 => i = 1
      BY <1>3
    <3>3. QED BY <1>1, <3>1, <3>2
  <2>3. QED BY <1>2, <1>3, <2>1, <2>2 DEF p
<1> HIDE DEF p
<1>5. p[1] = x
  BY <1>3, <1>4
<1>6. \A i \in 2 .. Len(s) + 1 : p[i] = s[i - 1]
  BY <1>3, <1>4
<1>7. ASSUME NEW i \in 1 .. Len(s) PROVE p[i + 1] = s[i]
  <2>1. i + 1 \in 1 .. Len(s) + 1 /\ ~(i + 1 <= 1) /\ i + 1 - 1 = i
    BY <1>3
  <2>2. QED BY <1>4, <2>1
<1>8. QED BY <1>4, <1>5, <1>6, <1>7 DEF p

LEMMA Popped ==
  ASSUME NEW S, NEW s \in Seq(S), s # << >>
  PROVE  /\ Head(s) = s[1] /\ s[1] \in S /\ 1 \in DOMAIN s /\ Len(s) \in Nat /\ Len(s) >= 1
         /\ Tail(s) \in Seq(S) /\ Len(Tail(s)) = Len(s) - 1
         /\ DOMAIN Tail(s) = 1 .. Len(s) - 1
         /\ \A i \in 1 .. Len(s) - 1 : Tail(s)[i] = s[i + 1] /\ i + 1 \in DOMAIN s
<1>1. Len(s) \in Nat /\ DOMAIN s = 1 .. Len(s) /\ Len(s) >= 1
  BY LenProperties, EmptySeq
<1>2. Head(s) = s[1] /\ s[1] \in S
  BY <1>1
<1>3. /\ Tail(s) \in Seq(S) /\ Len(Tail(s)) = Len(s) - 1
      /\ \A i \in 1 .. Len(Tail(s)) : Tail(s)[i] = s[i + 1]
  BY HeadTailProperties
<1>4. DOMAIN Tail(s) = 1 .. Len(s) - 1
  BY <1>3, LenProperties
<1>5. \A i \in 1 .. Len(s) - 1 : i + 1 \in DOMAIN s
  BY <1>1
<1>6. QED BY <1>1, <1>2, <1>3, <1>4, <1>5

LEMMA Replaced ==
  ASSUME NEW S, NEW s \in Seq(S), s # << >>, NEW x \in S
  PROVE  /\ <<x>> \o Tail(s) \in Seq(S) /\ Len(<<x>> \o Tail(s)) = Len(s)
         /\ DOMAIN (<<x>> \o Tail(s)) = DOMAIN s /\ DOMAIN s = 1 .. Len(s)
         /\ (<<x>> \o Tail(s))[1] = x
         /\ \A i \in 2 .. Len(s) : (<<x>> \o Tail(s))[i] = s[i]
<1> DEFINE t == Tail(s)
<1>1. /\ t \in Seq(S) /\ Len(t) = Len(s) - 1 /\ Len(s) \in Nat /\ Len(s) >= 1
      /\ \A i \in 1 .. Len(s) - 1 : t[i] = s[i + 1]
      /\ DOMAIN s = 1 .. Len(s)
  BY Popped, LenProperties
<1> HIDE DEF t
<1>2. /\ <<x>> \o t \in Seq(S) /\ Len(<<x>> \o t) = Len(t) + 1
      /\ DOMAIN (<<x>> \o t) = 1 .. Len(t) + 1
      /\ (<<x>> \o t)[1] = x
      /\ \A i \in 2 .. Len(t) + 1 : (<<x>> \o t)[i] = t[i - 1]
  BY <1>1, Pushed
<1>3. Len(t) + 1 = Len(s)
  BY <1>1
<1>4. ASSUME NEW i \in 2 .. Len(s) PROVE (<<x>> \o t)[i] = s[i]
  <2>1. i - 1 \in 1 .. Len(s) - 1 /\ i - 1 + 1 = i /\ i \in 2 .. Len(t) + 1
    BY <1>1
  <2>2. QED BY <1>1, <1>2, <2>1
<1>5. QED BY <1>1, <1>2, <1>3, <1>4 DEF t

-----------------------------------------------------------------------------
(* Where the block of a line ends.                                         *)

LEMMA Least ==
  ASSUME NEW S, S \subseteq Nat, S # {}
  PROVE  \E d \in S : \A c \in S : d <= c
<1> DEFINE R == {ss \in Nat \X Nat : ss[1] < ss[2]}
<1>1. IsWellFoundedOn(R, Nat)
  BY NatLessThanWellFounded DEF OpToRel
<1>2. PICK d \in S : \A c \in S : ~ (<<c, d>> \in R)
  BY <1>1, WFMin
<1>3. ASSUME NEW c \in S PROVE d <= c
  <2>1. c \in Nat /\ d \in Nat /\ ~ (<<c, d>> \in R)
    BY <1>2
  <2>2. ~ (c < d)
    BY <2>1
  <2>3. QED BY <2>1, <2>2
<1>4. QED BY <1>3

LEMMA Lines ==
  ASSUME prog \in Seq(Line)
  PROVE  /\ Len(prog) \in Nat /\ DOMAIN prog = 1 .. Len(prog)
         /\ \A i \in DOMAIN prog : /\ Kind(i) \in Kinds /\ Kind(i) \in Headers \cup Leaves
                                   /\ Indent(i) \in Nat
<1>1. Len(prog) \in Nat /\ DOMAIN prog = 1 .. Len(prog) /\ \A i \in DOMAIN prog : prog[i] \in Line
  BY LenProperties
<1>2. \A l \in Line : l.kind \in Kinds /\ l.indent \in Nat
  BY BoundsAssumption DEF Line
<1>3. QED BY <1>1, <1>2, KindsAssumption DEF Kind, Indent

LEMMA EndIs ==
  ASSUME prog \in Seq(Line), NEW i \in DOMAIN prog
  PROVE  /\ End(i) \in i + 1 .. Len(prog) + 1
         /\ End(i) \in Nat /\ i < End(i) /\ End(i) <= Len(prog) + 1
         /\ End(i) <= Len(prog) => End(i) \in DOMAIN prog /\ Indent(End(i)) <= Indent(i)
         /\ \A k \in i + 1 .. End(i) - 1 : k \in DOMAIN prog /\ Indent(k) > Indent(i)
<1> DEFINE IsEnd(j) == /\ j > Len(prog) \/ Indent(j) <= Indent(i)
                       /\ \A k \in i + 1 .. j - 1 : Indent(k) > Indent(i)
           S == {j \in i + 1 .. Len(prog) + 1 : j > Len(prog) \/ Indent(j) <= Indent(i)}
<1>1. /\ Len(prog) \in Nat /\ DOMAIN prog = 1 .. Len(prog) /\ i \in Nat /\ i <= Len(prog) /\ 1 <= i
      /\ \A k \in DOMAIN prog : Indent(k) \in Nat
  BY Lines
<1>2. S \subseteq Nat /\ Len(prog) + 1 \in S
  BY <1>1
<1>3. PICK d \in S : \A c \in S : d <= c
  BY <1>2, Least, Zenon
<1>4. d \in i + 1 .. Len(prog) + 1 /\ (d > Len(prog) \/ Indent(d) <= Indent(i))
  OBVIOUS
<1>5. ASSUME NEW k \in i + 1 .. d - 1 PROVE Indent(k) > Indent(i)
  <2>1. k \in i + 1 .. Len(prog) + 1 /\ ~(d <= k) /\ k <= Len(prog) /\ k \in DOMAIN prog
    BY <1>1, <1>4
  <2>2. k \notin S
    BY <1>3, <2>1
  <2>3. ~(Indent(k) <= Indent(i))
    BY <2>1, <2>2
  <2>4. Indent(k) \in Nat /\ Indent(i) \in Nat
    BY <1>1, <2>1
  <2>5. QED BY <2>3, <2>4
<1>6. IsEnd(d)
  BY <1>4, <1>5
<1>7. PICK e \in i + 1 .. Len(prog) + 1 : e = End(i) /\ IsEnd(e)
  <2>1. End(i) = CHOOSE j \in i + 1 .. Len(prog) + 1 : IsEnd(j)
    BY DEF End
  <2> HIDE DEF IsEnd
  <2>2. QED BY <1>4, <1>6, <2>1
<1>8. e \in Nat /\ i < e /\ e <= Len(prog) + 1
  BY <1>1, <1>7
<1>9. e <= Len(prog) => e \in DOMAIN prog /\ Indent(e) <= Indent(i)
  BY <1>1, <1>7, <1>8
<1>10. \A k \in i + 1 .. e - 1 : k \in DOMAIN prog /\ Indent(k) > Indent(i)
  BY <1>1, <1>7, <1>8
<1>11. QED BY <1>7, <1>8, <1>9, <1>10

\* The first line that is no deeper.
LEMMA EndIsFirst ==
  ASSUME prog \in Seq(Line), NEW i \in DOMAIN prog, NEW j \in Nat, i < j,
         j <= Len(prog) => Indent(j) <= Indent(i)
  PROVE  End(i) <= j
<1>1. /\ End(i) \in Nat /\ i < End(i) /\ End(i) <= Len(prog) + 1 /\ Len(prog) \in Nat
      /\ \A k \in i + 1 .. End(i) - 1 : k \in DOMAIN prog /\ Indent(k) > Indent(i)
      /\ DOMAIN prog = 1 .. Len(prog)
      /\ \A k \in DOMAIN prog : Indent(k) \in Nat
  BY EndIs, Lines
<1>2. SUFFICES ASSUME ~(End(i) <= j) PROVE FALSE
  OBVIOUS
<1>3. j \in i + 1 .. End(i) - 1 /\ j \in DOMAIN prog
  BY <1>1, <1>2
<1>4. Indent(j) > Indent(i) /\ Indent(j) <= Indent(i) /\ Indent(i) \in Nat /\ Indent(j) \in Nat
  BY <1>1, <1>3
<1>5. QED BY <1>4

LEMMA AfterIs ==
  ASSUME prog \in Seq(Line), NEW i \in DOMAIN prog
  PROVE  After(i) \in Nat /\ i < After(i) /\ End(i) <= After(i) /\ After(i) <= Len(prog) + 1
<1>1. End(i) \in Nat /\ i < End(i) /\ End(i) <= Len(prog) + 1 /\ i \in Nat
  BY EndIs, Lines
<1>2. CASE HasElse(i)
  <2>1. End(i) \in DOMAIN prog
    BY <1>2, EndIs DEF HasElse
  <2>2. End(End(i)) \in Nat /\ End(i) < End(End(i)) /\ End(End(i)) <= Len(prog) + 1
    BY <2>1, EndIs
  <2>3. QED BY <1>1, <1>2, <2>2 DEF After
<1>3. CASE ~HasElse(i)
  BY <1>1, <1>3 DEF After
<1>4. QED BY <1>2, <1>3

-----------------------------------------------------------------------------
(* What a step does to the blocks.                                         *)

\* base is blocks, with the current one ended by t unless it was ended before.
Shape(base, t) ==
  /\ base \in Seq(BasicBlock) /\ Len(base) = Len(blocks)
  /\ \A b \in 1 .. Len(blocks) :
       /\ base[b].fn = blocks[b].fn
       /\ b = block /\ ~Terminated => base[b].term = t
       /\ b # block \/ Terminated => base[b].term = blocks[b].term

BlocksOK == blocks \in Seq(BasicBlock) /\ block \in DOMAIN blocks

LEMMA BlockFacts ==
  ASSUME BlocksOK
  PROVE  /\ Len(blocks) \in Nat /\ DOMAIN blocks = 1 .. Len(blocks)
         /\ block \in 1 .. Len(blocks)
         /\ \A b \in 1 .. Len(blocks) :
              /\ blocks[b] \in BasicBlock /\ blocks[b].fn \in 0 .. MaxLines
              /\ blocks[b].code \in Seq(Instr) /\ blocks[b].term \in Term
<1>1. Len(blocks) \in Nat /\ DOMAIN blocks = 1 .. Len(blocks)
      /\ \A b \in 1 .. Len(blocks) : blocks[b] \in BasicBlock
  BY LenProperties DEF BlocksOK
<1>2. \A x \in BasicBlock : x.fn \in 0 .. MaxLines /\ x.code \in Seq(Instr) /\ x.term \in Term
  BY DEF BasicBlock
<1>3. QED BY <1>1, <1>2 DEF BlocksOK

\* One block is replaced.
LEMMA Rewritten ==
  ASSUME BlocksOK, NEW x \in BasicBlock, x.fn = blocks[block].fn,
         NEW t, IF Terminated THEN x.term = blocks[block].term ELSE x.term = t
  PROVE  Shape([blocks EXCEPT ![block] = x], t)
<1> DEFINE base == [blocks EXCEPT ![block] = x]
<1>1. /\ Len(blocks) \in Nat /\ DOMAIN blocks = 1 .. Len(blocks) /\ block \in 1 .. Len(blocks)
      /\ blocks \in Seq(BasicBlock)
  BY BlockFacts DEF BlocksOK
<1>2. /\ base \in Seq(BasicBlock) /\ Len(base) = Len(blocks)
      /\ \A b \in 1 .. Len(blocks) : base[b] = IF b = block THEN x ELSE blocks[b]
  BY <1>1, ExceptSeq
<1> HIDE DEF base
<1>3. QED BY <1>1, <1>2 DEF Shape, base

LEMMA EndedIs ==
  ASSUME BlocksOK, NEW t \in Term
  PROVE  Shape(EndedBy(t), t)
<1>1. /\ blocks[block] \in BasicBlock /\ block \in 1 .. Len(blocks) /\ DOMAIN blocks = 1 .. Len(blocks)
  BY BlockFacts
<1>2. CASE Terminated
  BY <1>2 DEF EndedBy, Shape, BlocksOK
<1>3. CASE ~Terminated
  <2> DEFINE x == [blocks[block] EXCEPT !.term = t]
  <2>1. x \in BasicBlock /\ x.fn = blocks[block].fn /\ x.term = t
    BY <1>1 DEF BasicBlock
  <2>2. EndedBy(t) = [blocks EXCEPT ![block] = x]
    BY <1>3 DEF EndedBy
  <2> HIDE DEF x
  <2>3. QED BY <1>3, <2>1, <2>2, Rewritten
<1>4. QED BY <1>2, <1>3

\* An instruction of the current line is added.
LEMMA CodeAdded ==
  ASSUME BlocksOK, prog \in Seq(Line), Len(prog) <= MaxLines, next \in DOMAIN prog,
         NEW op \in {"do", "start", "step"}, NEW t \in Term
  PROVE  /\ ~Terminated => Shape([Emitted(op) EXCEPT ![block].term = t], t)
         /\ Shape(Emitted(op), blocks[block].term)
<1>1. /\ blocks[block] \in BasicBlock /\ block \in 1 .. Len(blocks) /\ DOMAIN blocks = 1 .. Len(blocks)
      /\ blocks[block].code \in Seq(Instr)
  BY BlockFacts
<1>2. [op |-> op, line |-> next] \in Instr
  <2>1. next \in 1 .. MaxLines
    BY Lines, BoundsAssumption
  <2>2. QED BY <2>1 DEF Instr
<1>3. Append(blocks[block].code, [op |-> op, line |-> next]) \in Seq(Instr)
  BY <1>1, <1>2, AppendProperties
<1> DEFINE c == Append(blocks[block].code, [op |-> op, line |-> next])
           x == [blocks[block] EXCEPT !.code = c]
           y == [blocks[block] EXCEPT !.code = c, !.term = t]
<1> HIDE DEF c
<1>4. x \in BasicBlock /\ x.fn = blocks[block].fn /\ x.term = blocks[block].term
  BY <1>1, <1>3 DEF BasicBlock, c
<1>5. y \in BasicBlock /\ y.fn = blocks[block].fn /\ y.term = t
  BY <1>1, <1>3 DEF BasicBlock, c
<1>6. Emitted(op) = [blocks EXCEPT ![block] = x]
  BY DEF Emitted, c
<1>7. [Emitted(op) EXCEPT ![block].term = t] = [blocks EXCEPT ![block] = y]
  <2>1. Emitted(op) = [blocks EXCEPT ![block].code = c]
    BY DEF Emitted, c
  <2>2. PICK base : base = Emitted(op)
    OBVIOUS
  <2>3. DOMAIN base = DOMAIN blocks /\ base[block] = x /\ \A b \in DOMAIN blocks : b # block => base[b] = blocks[b]
    BY <1>1, <1>6, <2>2
  <2>4. [base[block] EXCEPT !.term = t] = y
    BY <2>3
  <2>5. [base EXCEPT ![block].term = t] = [base EXCEPT ![block] = y]
    BY <2>4
  <2> HIDE DEF y
  <2>6. [base EXCEPT ![block] = y] = [blocks EXCEPT ![block] = y]
    BY <2>3
  <2>7. QED BY <2>2, <2>5, <2>6
<1> HIDE DEF x, y
<1>8. ~Terminated => Shape([blocks EXCEPT ![block] = y], t)
  BY <1>5, Rewritten
<1>9. Shape([blocks EXCEPT ![block] = x], blocks[block].term)
  BY <1>4, Rewritten
<1>10. QED BY <1>6, <1>7, <1>8, <1>9

LEMMA Terms ==
  ASSUME NEW b \in Nat, NEW c \in Nat, NEW i \in 0 .. MaxLines
  PROVE  /\ NoTerm \in Term /\ Br(b) \in Term /\ CondBr(i, b, c) \in Term
         /\ CountBr(i, b, c) \in Term /\ Ret(i) \in Term
<1>1. 0 \in 0 .. MaxLines
  BY BoundsAssumption
<1>2. QED BY <1>1 DEF Term, NoTerm, Br, CondBr, CountBr, Ret

LEMMA NewBlocks ==
  ASSUME NEW f \in 0 .. MaxLines, NEW t \in Term
  PROVE  /\ NewBlock(f, t) \in BasicBlock
         /\ NewBlock(f, t).fn = f /\ NewBlock(f, t).term = t
<1>1. << >> \in Seq(Instr)
  OBVIOUS
<1>2. QED BY <1>1 DEF NewBlock, BasicBlock

\* The blocks after a step: the old ones, and behind them new ones.
LEMMA Lengthened ==
  ASSUME BlocksOK, NEW t, NEW base, Shape(base, t), NEW new \in Seq(BasicBlock)
  PROVE  /\ base \o new \in Seq(BasicBlock) /\ Len(base \o new) = Len(blocks) + Len(new)
         /\ DOMAIN (base \o new) = 1 .. Len(blocks) + Len(new)
         /\ \A b \in 1 .. Len(blocks) :
              /\ b \in DOMAIN (base \o new)
              /\ (base \o new)[b].fn = blocks[b].fn
              /\ b = block /\ ~Terminated => (base \o new)[b].term = t
              /\ b # block \/ Terminated => (base \o new)[b].term = blocks[b].term
         /\ \A i \in 1 .. Len(new) : (base \o new)[Len(blocks) + i] = new[i]
<1>1. /\ base \in Seq(BasicBlock) /\ Len(base) = Len(blocks) /\ Len(blocks) \in Nat /\ Len(new) \in Nat
  BY LenProperties DEF Shape, BlocksOK
<1> DEFINE bs == base \o new
<1>2. /\ bs \in Seq(BasicBlock) /\ Len(bs) = Len(base) + Len(new)
      /\ \A i \in 1 .. Len(base) + Len(new) :
           bs[i] = IF i <= Len(base) THEN base[i] ELSE new[i - Len(base)]
  BY <1>1, ConcatProperties
<1> HIDE DEF bs
<1>3. Len(bs) = Len(blocks) + Len(new) /\ DOMAIN bs = 1 .. Len(blocks) + Len(new)
  BY <1>1, <1>2, LenProperties
<1>4. \A b \in 1 .. Len(blocks) : b \in DOMAIN bs /\ bs[b] = base[b]
  BY <1>1, <1>2, <1>3
<1>5. ASSUME NEW i \in 1 .. Len(new) PROVE bs[Len(blocks) + i] = new[i]
  <2>1. /\ Len(blocks) + i \in 1 .. Len(base) + Len(new) /\ ~(Len(blocks) + i <= Len(base))
        /\ Len(blocks) + i - Len(base) = i
    BY <1>1
  <2>2. QED BY <1>2, <2>1
<1>6. QED BY <1>2, <1>3, <1>4, <1>5 DEF bs, Shape

Longer(bs, t, new) ==
  /\ DOMAIN bs = 1 .. Len(blocks) + Len(new)
  /\ \A b \in 1 .. Len(blocks) :
       /\ bs[b].fn = blocks[b].fn
       /\ b = block /\ ~Terminated => bs[b].term = t
       /\ b # block \/ Terminated => bs[b].term = blocks[b].term
  /\ \A i \in 1 .. Len(new) : bs[Len(blocks) + i] = new[i]

LEMMA LengthenedBy ==
  ASSUME BlocksOK, NEW t, NEW base, Shape(base, t), NEW new \in Seq(BasicBlock),
         NEW bs, bs = base \o new
  PROVE  Longer(bs, t, new)
<1>1. DOMAIN bs = 1 .. Len(blocks) + Len(new)
  BY Lengthened
<1>2. ASSUME NEW b \in 1 .. Len(blocks)
      PROVE  /\ bs[b].fn = blocks[b].fn
             /\ b = block /\ ~Terminated => bs[b].term = t
             /\ b # block \/ Terminated => bs[b].term = blocks[b].term
  BY Lengthened
<1>3. ASSUME NEW i \in 1 .. Len(new) PROVE bs[Len(blocks) + i] = new[i]
  BY Lengthened
<1>4. QED BY <1>1, <1>2, <1>3 DEF Longer

-----------------------------------------------------------------------------
(* The invariant of the code generator.  Every block without a terminator  *)
(* is the current one or one that an open statement still owes; jumps,     *)
(* open statements and the stacks of loops name blocks of the current      *)
(* function, because a function is only opened when nothing else is open.  *)

Own(b) == b \in DOMAIN blocks /\ blocks[b].fn = fn

ProgramOK == prog \in Seq(Line) /\ Len(prog) <= MaxLines /\ Plain

Owes(o, b) == b = o.merge \/ (Kind(o.line) = "if" /\ b = o.else)

Owing(b) == \E m \in DOMAIN open : Owes(open[m], b)

OwedOrEnded ==
  \A b \in DOMAIN blocks : blocks[b].term.op = "none" => b = block \/ Owing(b)

\* A terminator that jumps, jumps to blocks of function f.
JumpsWithin(bs, t, f) ==
  t.op \notin {"none", "ret"} =>
    \A c \in {t.yes, t.no} : c \in DOMAIN bs /\ bs[c].fn = f

TargetsOwn ==
  \A b \in DOMAIN blocks : JumpsWithin(blocks, blocks[b].term, blocks[b].fn)

OpenStatement(m, o) ==
  /\ o.line \in DOMAIN prog /\ o.line < next
  /\ \A n \in DOMAIN open : m < n => open[n].line < o.line
  /\ Kind(o.line) # "fn" => Own(o.merge)
  /\ Kind(o.line) \in Loops => Own(o.else)
  /\ Kind(o.line) = "if" /\ o.else # 0 => Own(o.else)
  /\ Kind(o.line) = "fn" =>
       m = Len(open) /\ o.merge \in DOMAIN blocks /\ blocks[o.merge].fn = o.fn

OpenOK == \A m \in DOMAIN open : OpenStatement(m, open[m])

OpenLoops ==
  {i \in DOMAIN prog : Kind(i) \in Loops /\ \E m \in DOMAIN open : open[m].line = i}

LoopStacks ==
  /\ exits \in Seq(Nat) /\ conts \in Seq(Nat)
  /\ Len(exits) = Cardinality(OpenLoops) /\ Len(conts) = Len(exits)
  /\ \A j \in DOMAIN exits : Own(exits[j])
  /\ \A j \in DOMAIN conts : Own(conts[j])

CompilerOK ==
  /\ next \in Nat \ {0} /\ fn \in 0 .. MaxLines
  /\ BlocksOK /\ Own(block)
  /\ open \in Seq(Open)
  /\ OwedOrEnded /\ TargetsOwn /\ OpenOK /\ LoopStacks

CInv ==
  /\ ProgramOK
  /\ CompilerOK
  /\ phase = "write" => InitCodeGen

LEMMA OpenFacts ==
  ASSUME CompilerOK, open # << >>
  PROVE  /\ Head(open) = open[1] /\ open[1] \in Open /\ 1 \in DOMAIN open
         /\ Len(open) \in Nat /\ Len(open) >= 1 /\ DOMAIN open = 1 .. Len(open)
         /\ open[1].line \in DOMAIN prog /\ open[1].line < next
         /\ open[1].else \in Nat /\ open[1].merge \in Nat /\ open[1].fn \in 0 .. MaxLines
         /\ open[1].line \in 1 .. MaxLines
<1>1. open \in Seq(Open)
  BY DEF CompilerOK
<1>2. /\ Head(open) = open[1] /\ open[1] \in Open /\ 1 \in DOMAIN open
      /\ Len(open) \in Nat /\ Len(open) >= 1 /\ DOMAIN open = 1 .. Len(open)
  BY <1>1, Popped, LenProperties
<1>3. open[1].line \in DOMAIN prog /\ open[1].line < next
  BY <1>2 DEF CompilerOK, OpenOK, OpenStatement
<1>4. \A o \in Open : o.else \in Nat /\ o.merge \in Nat /\ o.fn \in 0 .. MaxLines /\ o.line \in 1 .. MaxLines
  BY DEF Open
<1>5. QED BY <1>2, <1>3, <1>4

\* No block is lost, or given to another function.
BlocksKept ==
  \A b \in DOMAIN blocks : b \in DOMAIN blocks' /\ blocks'[b].fn = blocks[b].fn

LEMMA OwnKept ==
  ASSUME BlocksKept, fn' = fn
  PROVE  \A b : Own(b) => Own(b)'
BY DEF BlocksKept, Own

\* Blocks are added, and jumps stay within functions.
LEMMA BlocksGrow ==
  ASSUME CompilerOK, NEW t, NEW base, Shape(base, t), NEW new \in Seq(BasicBlock),
         blocks' = base \o new,
         ~Terminated => JumpsWithin(blocks', t, fn),
         \A i \in 1 .. Len(new) : JumpsWithin(blocks', new[i].term, new[i].fn)
  PROVE  TargetsOwn' /\ blocks' \in Seq(BasicBlock) /\ BlocksKept
<1>1. BlocksOK /\ Own(block)
  BY DEF CompilerOK
<1>2. /\ blocks' \in Seq(BasicBlock)
      /\ DOMAIN blocks' = 1 .. Len(blocks) + Len(new)
      /\ \A b \in 1 .. Len(blocks) :
              /\ b \in DOMAIN blocks'
              /\ blocks'[b].fn = blocks[b].fn
              /\ b = block /\ ~Terminated => blocks'[b].term = t
              /\ b # block \/ Terminated => blocks'[b].term = blocks[b].term
      /\ \A i \in 1 .. Len(new) : blocks'[Len(blocks) + i] = new[i]
  BY <1>1, Lengthened
<1>3. Len(blocks) \in Nat /\ DOMAIN blocks = 1 .. Len(blocks) /\ Len(new) \in Nat
  BY <1>1, BlockFacts, LenProperties
<1>4. BlocksKept
  BY <1>2, <1>3 DEF BlocksKept
<1>5. ASSUME NEW b \in DOMAIN blocks'
      PROVE  JumpsWithin(blocks', blocks'[b].term, blocks'[b].fn)
  <2>1. CASE b \in 1 .. Len(blocks) /\ b = block /\ ~Terminated
    <3>1. blocks'[b].term = t /\ blocks'[b].fn = fn
      BY <1>1, <1>2, <2>1 DEF Own
    <3>2. QED BY <2>1, <3>1
  <2>2. CASE b \in 1 .. Len(blocks) /\ ~(b = block /\ ~Terminated)
    <3>1. blocks'[b].term = blocks[b].term /\ blocks'[b].fn = blocks[b].fn /\ b \in DOMAIN blocks
      BY <1>2, <1>3, <2>2
    <3>2. JumpsWithin(blocks, blocks[b].term, blocks[b].fn)
      BY <3>1 DEF CompilerOK, TargetsOwn
    <3>3. JumpsWithin(blocks', blocks[b].term, blocks[b].fn)
      BY <1>4, <3>2 DEF JumpsWithin, BlocksKept
    <3>4. QED BY <3>1, <3>3
  <2>3. CASE b \notin 1 .. Len(blocks)
    <3>1. PICK i \in 1 .. Len(new) : b = Len(blocks) + i
      <4>1. b - Len(blocks) \in 1 .. Len(new) /\ b = Len(blocks) + (b - Len(blocks))
        BY <1>2, <1>3, <2>3
      <4>2. QED BY <4>1
    <3>2. blocks'[b] = new[i]
      BY <1>2, <3>1
    <3>3. QED BY <3>2
  <2>4. QED BY <2>1, <2>2, <2>3
<1>6. TargetsOwn'
  BY <1>5 DEF TargetsOwn
<1>7. QED BY <1>2, <1>4, <1>6

\* A statement is opened.
LEMMA OpenPushed ==
  ASSUME ProgramOK, CompilerOK, UNCHANGED prog, next \in DOMAIN prog,
         NEW o \in Open, o.line = next, open' = <<o>> \o open, next' = next + 1,
         BlocksKept, fn' = fn,
         Kind(next) # "fn", Own(o.merge)', Kind(next) \in Loops => Own(o.else)',
         Kind(next) = "if" => Own(o.else)'
  PROVE  OpenOK' /\ open' \in Seq(Open) /\ next' \in Nat \ {0}
<1>1. /\ open \in Seq(Open) /\ Len(open) \in Nat /\ DOMAIN open = 1 .. Len(open) /\ OpenOK
      /\ next \in Nat \ {0}
  BY LenProperties DEF CompilerOK
<1>2. /\ open' \in Seq(Open) /\ Len(open') = Len(open) + 1
      /\ DOMAIN open' = 1 .. Len(open) + 1
      /\ open'[1] = o
      /\ \A i \in 2 .. Len(open) + 1 : open'[i] = open[i - 1]
  BY <1>1, Pushed
<1>3. \A i \in DOMAIN open' : i = 1 \/ (i \in 2 .. Len(open) + 1 /\ i - 1 \in DOMAIN open)
  BY <1>1, <1>2
<1>4. /\ \A i \in DOMAIN prog : Kind(i)' = Kind(i)
      /\ \A b : Own(b) => Own(b)'
  BY OwnKept DEF Kind
<1>5. ASSUME NEW m \in DOMAIN open', NEW x, x = open'[m]
      PROVE  OpenStatement(m, x)'
  <2>1. CASE m = 1
    <3>1. \A n \in DOMAIN open' : 1 < n => open'[n].line < next
      <4>1. TAKE n \in DOMAIN open'
      <4>2. HAVE 1 < n
      <4>3. n \in 2 .. Len(open) + 1 /\ n - 1 \in DOMAIN open
        BY <1>3, <4>2
      <4>4. open'[n] = open[n - 1] /\ open[n - 1].line < next
        BY <1>1, <1>2, <4>3 DEF OpenOK, OpenStatement
      <4>5. QED BY <4>4
    <3>2. next < next + 1
      BY <1>1
    <3>3. QED BY <1>2, <1>4, <1>5, <2>1, <3>1, <3>2 DEF OpenStatement
  <2>2. CASE m # 1
    <3>1. m \in 2 .. Len(open) + 1 /\ m - 1 \in DOMAIN open /\ open'[m] = open[m - 1]
      BY <1>2, <1>3, <2>2
    <3>2. x = open[m - 1]
      BY <1>5, <3>1
    <3>3. /\ x.line \in DOMAIN prog /\ x.line < next
          /\ \A n \in DOMAIN open : m - 1 < n => open[n].line < x.line
          /\ Kind(x.line) # "fn" => Own(x.merge)
          /\ Kind(x.line) \in Loops => Own(x.else)
          /\ Kind(x.line) = "if" /\ x.else # 0 => Own(x.else)
          /\ Kind(x.line) = "fn" =>
              m - 1 = Len(open) /\ x.merge \in DOMAIN blocks /\ blocks[x.merge].fn = x.fn
      BY <1>1, <3>1, <3>2 DEF OpenOK, OpenStatement
    <3>4. x.line < next'
      BY <1>1, <3>3, Lines DEF ProgramOK
    <3>5. \A n \in DOMAIN open' : m < n => open'[n].line < x.line
      <4>1. TAKE n \in DOMAIN open'
      <4>2. HAVE m < n
      <4>3. n \in 2 .. Len(open) + 1 /\ n - 1 \in DOMAIN open /\ m - 1 < n - 1
        BY <1>1, <1>2, <1>3, <3>1, <4>2
      <4>4. PICK k \in DOMAIN open : k = n - 1 /\ m - 1 < k
        BY <4>3
      <4>5. open[k].line < x.line
        BY <3>3, <4>4
      <4>6. open'[n] = open[k]
        BY <1>2, <1>3, <4>3, <4>4
      <4>7. QED BY <4>5, <4>6
    <3>6. Kind(x.line) = "fn" => m = Len(open)' /\ x.merge \in DOMAIN blocks' /\ blocks'[x.merge].fn = x.fn
      <4>1. HAVE Kind(x.line) = "fn"
      <4>2. m = Len(open)'
        BY <1>1, <1>2, <3>1, <3>3, <4>1
      <4>3. x.merge \in DOMAIN blocks' /\ blocks'[x.merge].fn = x.fn
        BY <3>3, <4>1 DEF BlocksKept
      <4>4. QED BY <4>2, <4>3
    <3>7. QED BY <1>4, <3>3, <3>4, <3>5, <3>6 DEF OpenStatement
  <2>3. QED BY <2>1, <2>2
<1>6. OpenOK'
  BY <1>5, Zenon DEF OpenOK
<1>7. QED BY <1>1, <1>2, <1>6

\* The open statements are the same, further on in the program.
LEMMA OpenKept ==
  ASSUME CompilerOK, UNCHANGED <<prog, open, fn>>, next' \in Nat, next' >= next, BlocksKept
  PROVE  OpenOK' /\ open' \in Seq(Open)
<1>1. /\ \A i : Kind(i)' = Kind(i)
      /\ \A b : Own(b) => Own(b)'
      /\ next \in Nat /\ open \in Seq(Open) /\ OpenOK
  BY OwnKept DEF Kind, CompilerOK
<1>2. ASSUME NEW m \in DOMAIN open, NEW x, x = open[m] PROVE OpenStatement(m, x)'
  <2>1. OpenStatement(m, x)
    BY <1>1, <1>2 DEF OpenOK
  <2>2. x \in Open
    BY <1>1, <1>2, ElementOfSeq, LenProperties
  <2>3. x.line \in Nat
    BY <2>2, BoundsAssumption DEF Open
  <2>4. x.line < next'
    BY <1>1, <2>1, <2>3 DEF OpenStatement
  <2>5. QED BY <1>1, <2>1, <2>4 DEF OpenStatement, BlocksKept
<1>3. OpenOK'
  BY <1>2 DEF OpenOK
<1>4. QED BY <1>1, <1>3

\* The innermost statement is closed.
LEMMA OpenPopped ==
  ASSUME CompilerOK, open # << >>, UNCHANGED <<prog, next, fn>>, open' = Tail(open), BlocksKept
  PROVE  OpenOK' /\ open' \in Seq(Open)
<1>1. /\ \A i : Kind(i)' = Kind(i)
      /\ \A b : Own(b) => Own(b)'
      /\ open \in Seq(Open) /\ OpenOK
  BY OwnKept DEF Kind, CompilerOK
<1>2. /\ open' \in Seq(Open) /\ Len(open') = Len(open) - 1 /\ Len(open) \in Nat
      /\ DOMAIN open' = 1 .. Len(open) - 1
      /\ \A i \in 1 .. Len(open) - 1 : open'[i] = open[i + 1] /\ i + 1 \in DOMAIN open
  BY <1>1, Popped
<1>3. ASSUME NEW m \in DOMAIN open', NEW x, x = open'[m] PROVE OpenStatement(m, x)'
  <2>1. OpenStatement(m + 1, x)
    BY <1>1, <1>2, <1>3 DEF OpenOK
  <2>2. \A n \in DOMAIN open' : m < n => open'[n].line < x.line
    <3>1. TAKE n \in DOMAIN open'
    <3>2. HAVE m < n
    <3>3. n + 1 \in DOMAIN open /\ open'[n] = open[n + 1] /\ m + 1 < n + 1
      BY <1>2, <3>2
    <3>4. QED BY <2>1, <3>3 DEF OpenStatement
  <2>3. m + 1 = Len(open) => m = Len(open)'
    BY <1>2
  <2>4. QED BY <1>1, <2>1, <2>2, <2>3 DEF OpenStatement, BlocksKept
<1>4. OpenOK'
  BY <1>3 DEF OpenOK
<1>5. QED BY <1>2, <1>4

\* The innermost statement goes on with its other branch.
LEMMA OpenTurned ==
  ASSUME CompilerOK, open # << >>, UNCHANGED <<prog, fn>>, next' \in Nat, next' >= next,
         NEW o \in Open, open' = <<o>> \o Tail(open), BlocksKept,
         o.line \in DOMAIN prog, o.line < next', open[1].line <= o.line,
         Kind(open[1].line) = "if", o.merge = open[1].merge,
         Kind(o.line) \in {"if", "else"}, o.else = 0 \/ Kind(o.line) = "else"
  PROVE  OpenOK' /\ open' \in Seq(Open)
<1>1. /\ \A i : Kind(i)' = Kind(i)
      /\ \A b : Own(b) => Own(b)'
      /\ open \in Seq(Open) /\ OpenOK /\ Len(open) \in Nat /\ DOMAIN open = 1 .. Len(open)
      /\ Len(open) >= 1 /\ next \in Nat
  BY OwnKept, OpenFacts DEF Kind, CompilerOK
<1>2. /\ open' \in Seq(Open) /\ Len(open') = Len(open)
      /\ DOMAIN open' = DOMAIN open /\ open'[1] = o
      /\ \A i \in 2 .. Len(open) : open'[i] = open[i]
  BY <1>1, Replaced
<1>3. \A m \in DOMAIN open : open[m].line \in Nat /\ o.line \in Nat
  <2>1. \A x \in Open : x.line \in Nat
    BY BoundsAssumption DEF Open
  <2>2. QED BY <1>1, <2>1, ElementOfSeq
<1>4. ASSUME NEW m \in DOMAIN open', NEW x, x = open'[m] PROVE OpenStatement(m, x)'
  <2>1. CASE m = 1
    <3>1. x = o /\ OpenStatement(1, open[1])
      BY <1>1, <1>2, <1>4, <2>1 DEF OpenOK
    <3>2. \A n \in DOMAIN open' : 1 < n => open'[n].line < o.line
      <4>1. TAKE n \in DOMAIN open'
      <4>2. HAVE 1 < n
      <4>3. n \in 2 .. Len(open) /\ n \in DOMAIN open /\ 1 \in DOMAIN open /\ open'[n] = open[n]
        BY <1>1, <1>2, <4>2
      <4>4. open[n].line < open[1].line
        BY <3>1, <4>2, <4>3 DEF OpenStatement
      <4>5. open[n].line \in Nat /\ open[1].line \in Nat /\ o.line \in Nat
        BY <1>3, <4>3
      <4>6. QED BY <4>3, <4>4, <4>5
    <3>3. Own(o.merge)'
      BY <1>1, <3>1 DEF OpenStatement
    <3>4. Kind(o.line) \notin Loops /\ Kind(o.line) # "fn"
      BY DEF Loops
    <3>5. QED BY <1>1, <2>1, <3>1, <3>2, <3>3, <3>4 DEF OpenStatement
  <2>2. CASE m # 1
    <3>1. m \in 2 .. Len(open) /\ m \in DOMAIN open /\ x = open[m]
      BY <1>1, <1>2, <1>4, <2>2
    <3>2. OpenStatement(m, x)
      BY <1>1, <3>1 DEF OpenOK
    <3>3. \A n \in DOMAIN open' : m < n => open'[n].line < x.line
      BY <1>1, <1>2, <3>1, <3>2 DEF OpenStatement
    <3>4. x.line < next'
      BY <1>1, <1>3, <3>1, <3>2 DEF OpenStatement
    <3>5. QED BY <1>1, <1>2, <3>2, <3>3, <3>4 DEF OpenStatement, BlocksKept
  <2>3. QED BY <2>1, <2>2
<1>5. OpenOK'
  BY <1>4 DEF OpenOK
<1>6. QED BY <1>2, <1>5

-----------------------------------------------------------------------------
(* The stacks of loops.                                                    *)

LEMMA LoopsFinite ==
  ASSUME prog \in Seq(Line)
  PROVE  IsFiniteSet(OpenLoops)
<1>1. Len(prog) \in Nat /\ DOMAIN prog = 1 .. Len(prog)
  BY LenProperties
<1>2. IsFiniteSet(1 .. Len(prog))
  BY <1>1, FS_Interval
<1>3. OpenLoops \subseteq 1 .. Len(prog)
  BY <1>1 DEF OpenLoops
<1>4. QED BY <1>2, <1>3, FS_Subset

LEMMA StacksKept ==
  ASSUME CompilerOK, OpenLoops' = OpenLoops, UNCHANGED <<exits, conts>>, BlocksKept, fn' = fn
  PROVE  LoopStacks'
BY OwnKept DEF CompilerOK, LoopStacks

LEMMA StacksPushed ==
  ASSUME ProgramOK, CompilerOK, NEW i, i \notin OpenLoops, OpenLoops' = OpenLoops \cup {i},
         NEW e \in Nat, NEW c \in Nat, exits' = Append(exits, e), conts' = Append(conts, c),
         BlocksKept, fn' = fn, Own(e)', Own(c)'
  PROVE  LoopStacks'
<1>1. LoopStacks
  BY DEF CompilerOK
<1>2. \A b : Own(b) => Own(b)'
  BY OwnKept
<1>3. Cardinality(OpenLoops') = Cardinality(OpenLoops) + 1
  BY LoopsFinite, FS_AddElement DEF ProgramOK
<1>4. /\ exits' \in Seq(Nat) /\ Len(exits') = Len(exits) + 1 /\ exits'[Len(exits) + 1] = e
      /\ \A j \in 1 .. Len(exits) : exits'[j] = exits[j]
      /\ conts' \in Seq(Nat) /\ Len(conts') = Len(conts) + 1 /\ conts'[Len(conts) + 1] = c
      /\ \A j \in 1 .. Len(conts) : conts'[j] = conts[j]
  BY <1>1, AppendProperties DEF LoopStacks
<1>5. /\ DOMAIN exits' = 1 .. Len(exits) + 1 /\ DOMAIN conts' = 1 .. Len(conts) + 1
      /\ DOMAIN exits = 1 .. Len(exits) /\ DOMAIN conts = 1 .. Len(conts)
      /\ Len(exits) \in Nat /\ Len(conts) \in Nat
  BY <1>1, <1>4, LenProperties DEF LoopStacks
<1>6. (\A j \in DOMAIN exits : Own(exits[j]))'
  <2>1. SUFFICES ASSUME NEW j \in DOMAIN exits'
                 PROVE  exits'[j] \in DOMAIN blocks' /\ blocks'[exits'[j]].fn = fn'
    BY DEF Own
  <2>2. PICK b : b = exits'[j]
    OBVIOUS
  <2>3. b = e \/ Own(b)
    BY <1>1, <1>4, <1>5, <2>2 DEF LoopStacks
  <2>4. Own(b)'
    BY <1>2, <2>3
  <2>5. QED BY <2>2, <2>4 DEF Own
<1>7. (\A j \in DOMAIN conts : Own(conts[j]))'
  <2>1. SUFFICES ASSUME NEW j \in DOMAIN conts'
                 PROVE  conts'[j] \in DOMAIN blocks' /\ blocks'[conts'[j]].fn = fn'
    BY DEF Own
  <2>2. PICK b : b = conts'[j]
    OBVIOUS
  <2>3. b = c \/ Own(b)
    BY <1>1, <1>4, <1>5, <2>2 DEF LoopStacks
  <2>4. Own(b)'
    BY <1>2, <2>3
  <2>5. QED BY <2>2, <2>4 DEF Own
<1>8. QED BY <1>1, <1>3, <1>4, <1>6, <1>7 DEF LoopStacks

LEMMA StacksPopped ==
  ASSUME ProgramOK, CompilerOK, NEW i \in OpenLoops, OpenLoops' = OpenLoops \ {i},
         exits' = Front(exits), conts' = Front(conts), BlocksKept, fn' = fn
  PROVE  LoopStacks'
<1>1. LoopStacks
  BY DEF CompilerOK
<1>2. \A b : Own(b) => Own(b)'
  BY OwnKept
<1>3. Cardinality(OpenLoops') = Cardinality(OpenLoops) - 1
  BY LoopsFinite, FS_RemoveElement DEF ProgramOK
<1>4. Len(exits) \in Nat /\ Len(exits) >= 1 /\ Len(conts) = Len(exits)
  <2>1. Cardinality(OpenLoops) # 0
    BY LoopsFinite, FS_EmptySet DEF ProgramOK
  <2>2. QED BY <1>1, <2>1, LenProperties DEF LoopStacks
<1>5. ASSUME NEW s \in Seq(Nat), Len(s) = Len(exits)
      PROVE  /\ Front(s) \in Seq(Nat) /\ Len(Front(s)) = Len(exits) - 1
             /\ DOMAIN Front(s) = 1 .. Len(exits) - 1
             /\ \A j \in 1 .. Len(exits) - 1 : Front(s)[j] = s[j] /\ j \in DOMAIN s
  <2>1. /\ SubSeq(s, 1, Len(s) - 1) \in Seq(Nat)
        /\ Len(SubSeq(s, 1, Len(s) - 1)) = IF 1 <= Len(s) - 1 THEN Len(s) - 1 - 1 + 1 ELSE 0
        /\ \A j \in 1 .. Len(s) - 1 - 1 + 1 : SubSeq(s, 1, Len(s) - 1)[j] = s[1 + j - 1]
    <3>1. /\ 1 \in 1 .. Len(s) + 1 /\ Len(s) - 1 \in 1 - 1 .. Len(s)
          /\ \A j \in 1 .. Len(s) : s[j] \in Nat
      BY <1>4, <1>5
    <3>2. QED BY <3>1, SubSeqProperties
  <2>2. Len(Front(s)) = Len(exits) - 1 /\ Front(s) \in Seq(Nat)
    BY <1>4, <1>5, <2>1 DEF Front
  <2>3. ASSUME NEW j \in 1 .. Len(exits) - 1 PROVE Front(s)[j] = s[j] /\ j \in DOMAIN s
    <3>1. j \in 1 .. Len(s) - 1 - 1 + 1 /\ 1 + j - 1 = j
      BY <1>4, <1>5
    <3>2. Front(s)[j] = s[j]
      BY <2>1, <3>1 DEF Front
    <3>3. QED BY <1>4, <1>5, <3>2
  <2>4. QED BY <2>2, <2>3, LenProperties
<1>6. /\ exits' \in Seq(Nat) /\ Len(exits') = Len(exits) - 1
      /\ DOMAIN exits' = 1 .. Len(exits) - 1
      /\ \A j \in 1 .. Len(exits) - 1 : exits'[j] = exits[j] /\ j \in DOMAIN exits
      /\ conts' \in Seq(Nat) /\ Len(conts') = Len(exits) - 1
      /\ DOMAIN conts' = 1 .. Len(exits) - 1
      /\ \A j \in 1 .. Len(exits) - 1 : conts'[j] = conts[j] /\ j \in DOMAIN conts
  BY <1>1, <1>4, <1>5 DEF LoopStacks
<1>7. (\A j \in DOMAIN exits : Own(exits[j]))'
  <2>1. SUFFICES ASSUME NEW j \in DOMAIN exits'
                 PROVE  exits'[j] \in DOMAIN blocks' /\ blocks'[exits'[j]].fn = fn'
    BY DEF Own
  <2>2. Own(exits[j]) /\ exits'[j] = exits[j]
    BY <1>1, <1>6 DEF LoopStacks
  <2>3. Own(exits[j])'
    BY <1>6, <2>2 DEF BlocksKept, Own
  <2>4. QED BY <2>2, <1>6 DEF Own, BlocksKept
<1>8. (\A j \in DOMAIN conts : Own(conts[j]))'
  <2>1. SUFFICES ASSUME NEW j \in DOMAIN conts'
                 PROVE  conts'[j] \in DOMAIN blocks' /\ blocks'[conts'[j]].fn = fn'
    BY DEF Own
  <2>2. Own(conts[j]) /\ conts'[j] = conts[j]
    BY <1>1, <1>6 DEF LoopStacks
  <2>3. QED BY <2>2, <1>6 DEF Own, BlocksKept
<1>9. QED BY <1>1, <1>3, <1>6, <1>7, <1>8 DEF LoopStacks

LEMMA LoopsPushed ==
  ASSUME ProgramOK, CompilerOK, UNCHANGED prog, next \in DOMAIN prog,
         NEW o \in Open, o.line = next, open' = <<o>> \o open
  PROVE  /\ next \notin OpenLoops
         /\ Kind(next) \in Loops => OpenLoops' = OpenLoops \cup {next}
         /\ Kind(next) \notin Loops => OpenLoops' = OpenLoops
<1>1. /\ open \in Seq(Open) /\ Len(open) \in Nat /\ DOMAIN open = 1 .. Len(open) /\ OpenOK
      /\ next \in Nat
  BY LenProperties DEF CompilerOK
<1>2. /\ DOMAIN open' = 1 .. Len(open) + 1
      /\ open'[1] = o
      /\ \A i \in 1 .. Len(open) : open'[i + 1] = open[i]
      /\ \A i \in 2 .. Len(open) + 1 : open'[i] = open[i - 1]
  BY <1>1, Pushed
<1>3. \A i \in DOMAIN prog : Kind(i)' = Kind(i)
  BY DEF Kind
<1>4. next \notin OpenLoops
  <2>1. SUFFICES ASSUME NEW m \in DOMAIN open, open[m].line = next PROVE FALSE
    BY DEF OpenLoops
  <2>2. open[m].line < next
    BY <2>1, <1>1 DEF OpenOK, OpenStatement
  <2>3. QED BY <2>1, <2>2, <1>1
<1>5. ASSUME NEW i \in DOMAIN prog
      PROVE  (\E m \in DOMAIN open' : open'[m].line = i) <=>
               i = next \/ \E m \in DOMAIN open : open[m].line = i
  <2>1. ASSUME NEW m \in DOMAIN open', open'[m].line = i
        PROVE  i = next \/ \E n \in DOMAIN open : open[n].line = i
    <3>1. CASE m = 1
      BY <1>2, <2>1, <3>1
    <3>2. CASE m # 1
      <4>1. m \in 2 .. Len(open) + 1 /\ m - 1 \in DOMAIN open
        BY <1>1, <1>2, <3>2
      <4>2. QED BY <1>2, <2>1, <4>1
    <3>3. QED BY <3>1, <3>2
  <2>2. ASSUME NEW m \in DOMAIN open, open[m].line = i
        PROVE  \E n \in DOMAIN open' : open'[n].line = i
    <3>1. m + 1 \in DOMAIN open' /\ open'[m + 1] = open[m]
      BY <1>1, <1>2
    <3>2. QED BY <2>2, <3>1
  <2>3. 1 \in DOMAIN open'
    BY <1>1, <1>2
  <2>4. QED BY <1>2, <2>1, <2>2, <2>3
<1>6. ASSUME NEW i \in DOMAIN prog
      PROVE  i \in OpenLoops' <=> i \in OpenLoops \/ (i = next /\ Kind(next) \in Loops)
  <2>1. prog' = prog
    OBVIOUS
  <2>2. i \in OpenLoops' <=> Kind(i) \in Loops /\ \E m \in DOMAIN open' : open'[m].line = i
    BY <1>3, <2>1 DEF OpenLoops
  <2>3. i \in OpenLoops <=> Kind(i) \in Loops /\ \E m \in DOMAIN open : open[m].line = i
    BY DEF OpenLoops
  <2>4. QED BY <1>5, <2>2, <2>3
<1>7. OpenLoops' \subseteq DOMAIN prog /\ OpenLoops \subseteq DOMAIN prog
  <2>1. prog' = prog
    OBVIOUS
  <2>2. QED BY <2>1 DEF OpenLoops
<1>8. QED BY <1>4, <1>6, <1>7

LEMMA LoopsPopped ==
  ASSUME ProgramOK, CompilerOK, open # << >>, UNCHANGED prog, open' = Tail(open)
  PROVE  /\ Kind(open[1].line) \in Loops =>
              open[1].line \in OpenLoops /\ OpenLoops' = OpenLoops \ {open[1].line}
         /\ Kind(open[1].line) \notin Loops => OpenLoops' = OpenLoops
<1>1. /\ open \in Seq(Open) /\ Len(open) \in Nat /\ DOMAIN open = 1 .. Len(open) /\ OpenOK
      /\ 1 \in DOMAIN open /\ open[1].line \in DOMAIN prog /\ DOMAIN prog = 1 .. Len(prog)
  BY OpenFacts, Lines DEF CompilerOK, ProgramOK
<1>2. /\ DOMAIN open' = 1 .. Len(open) - 1
      /\ \A i \in 1 .. Len(open) - 1 : open'[i] = open[i + 1] /\ i + 1 \in DOMAIN open
  BY <1>1, Popped
<1>3. \A i \in DOMAIN prog : Kind(i)' = Kind(i)
  BY DEF Kind
<1>5. ASSUME NEW i \in DOMAIN prog
      PROVE  (\E m \in DOMAIN open' : open'[m].line = i) <=>
               i # open[1].line /\ \E m \in DOMAIN open : open[m].line = i
  <2>1. ASSUME NEW m \in DOMAIN open', open'[m].line = i
        PROVE  i # open[1].line /\ \E n \in DOMAIN open : open[n].line = i
    <3>1. m + 1 \in DOMAIN open /\ open[m + 1].line = i /\ 1 < m + 1
      BY <1>2, <2>1
    <3>2. open[m + 1].line < open[1].line
      BY <1>1, <3>1 DEF OpenOK, OpenStatement
    <3>3. i # open[1].line
      BY <1>1, <3>1, <3>2
    <3>4. QED BY <3>1, <3>3
  <2>2. ASSUME NEW m \in DOMAIN open, open[m].line = i, i # open[1].line
        PROVE  \E n \in DOMAIN open' : open'[n].line = i
    <3>1. m # 1
      BY <2>2
    <3>2. m - 1 \in 1 .. Len(open) - 1 /\ m - 1 + 1 = m
      BY <1>1, <3>1
    <3>3. m - 1 \in DOMAIN open' /\ open'[m - 1] = open[m]
      BY <1>2, <3>2
    <3>4. QED BY <2>2, <3>3
  <2>3. QED BY <2>1, <2>2
<1>6. ASSUME NEW i \in DOMAIN prog
      PROVE  i \in OpenLoops' <=> i # open[1].line /\ i \in OpenLoops
  <2>1. i \in DOMAIN prog'
    OBVIOUS
  <2>2. i \in OpenLoops' <=> Kind(i)' \in Loops /\ \E m \in DOMAIN open' : open'[m].line = i
    BY <2>1 DEF OpenLoops
  <2>3. i \in OpenLoops <=> Kind(i) \in Loops /\ \E m \in DOMAIN open : open[m].line = i
    BY DEF OpenLoops
  <2>4. QED BY <1>3, <1>5, <2>2, <2>3
<1>7. OpenLoops' \subseteq DOMAIN prog /\ OpenLoops \subseteq DOMAIN prog
  BY DEF OpenLoops
<1>8. open[1].line \in OpenLoops <=> Kind(open[1].line) \in Loops
  BY <1>1 DEF OpenLoops
<1>9. QED BY <1>6, <1>7, <1>8, Zenon

LEMMA LoopsTurned ==
  ASSUME CompilerOK, open # << >>, UNCHANGED prog, NEW o \in Open, open' = <<o>> \o Tail(open),
         Kind(open[1].line) \notin Loops, Kind(o.line) \notin Loops
  PROVE  OpenLoops' = OpenLoops
<1>1. /\ open \in Seq(Open) /\ Len(open) \in Nat /\ DOMAIN open = 1 .. Len(open)
  BY OpenFacts DEF CompilerOK
<1>2. /\ DOMAIN open' = DOMAIN open /\ open'[1] = o
      /\ \A i \in 2 .. Len(open) : open'[i] = open[i]
  BY <1>1, Replaced
<1>3. \A i \in DOMAIN prog : Kind(i)' = Kind(i)
  BY DEF Kind
<1>4. ASSUME NEW i \in DOMAIN prog, Kind(i) \in Loops, NEW m \in DOMAIN open
      PROVE  open'[m].line = i <=> open[m].line = i
  <2>1. CASE m = 1
    BY <1>2, <1>4, <2>1
  <2>2. CASE m # 1
    <3>1. m \in 2 .. Len(open)
      BY <1>1, <2>2
    <3>2. QED BY <1>2, <3>1
  <2>3. QED BY <2>1, <2>2, Zenon
<1>5. ASSUME NEW i \in DOMAIN prog PROVE i \in OpenLoops' <=> i \in OpenLoops
  <2>1. prog' = prog
    OBVIOUS
  <2>2. i \in OpenLoops' <=> Kind(i) \in Loops /\ \E m \in DOMAIN open : open'[m].line = i
    BY <1>2, <1>3, <2>1 DEF OpenLoops
  <2>3. i \in OpenLoops <=> Kind(i) \in Loops /\ \E m \in DOMAIN open : open[m].line = i
    BY DEF OpenLoops
  <2>4. QED BY <1>4, <2>2, <2>3
<1>6. OpenLoops' \subseteq DOMAIN prog /\ OpenLoops \subseteq DOMAIN prog
  <2>1. prog' = prog
    OBVIOUS
  <2>2. QED BY <2>1 DEF OpenLoops
<1>7. QED BY <1>5, <1>6

-----------------------------------------------------------------------------
(* What is owed.                                                           *)

LEMMA OwingPushed ==
  ASSUME CompilerOK, UNCHANGED prog, NEW o \in Open, open' = <<o>> \o open, NEW b,
         Owing(b) \/ Owes(o, b)
  PROVE  Owing(b)'
<1>1. /\ open \in Seq(Open) /\ Len(open) \in Nat /\ DOMAIN open = 1 .. Len(open)
  BY LenProperties DEF CompilerOK
<1>2. /\ DOMAIN open' = 1 .. Len(open) + 1 /\ open'[1] = o
      /\ \A i \in 1 .. Len(open) : open'[i + 1] = open[i]
  BY <1>1, Pushed
<1>3. 1 \in DOMAIN open' /\ \A i \in DOMAIN open : i + 1 \in DOMAIN open'
  BY <1>1, <1>2
<1>4. CASE Owes(o, b)
  BY <1>2, <1>3, <1>4 DEF Owing, Owes, Kind
<1>5. CASE Owing(b)
  <2>1. PICK m \in DOMAIN open : Owes(open[m], b)
    BY <1>5 DEF Owing
  <2>2. m + 1 \in DOMAIN open' /\ open'[m + 1] = open[m]
    BY <1>1, <1>2, <1>3
  <2>3. QED BY <2>1, <2>2 DEF Owing, Owes, Kind
<1>6. QED BY <1>4, <1>5

LEMMA OwingPopped ==
  ASSUME CompilerOK, open # << >>, UNCHANGED prog, open' = Tail(open), NEW b, Owing(b)
  PROVE  Owes(open[1], b) \/ Owing(b)'
<1>1. /\ open \in Seq(Open) /\ Len(open) \in Nat /\ DOMAIN open = 1 .. Len(open)
  BY LenProperties DEF CompilerOK
<1>2. /\ DOMAIN open' = 1 .. Len(open) - 1
      /\ \A i \in 1 .. Len(open) - 1 : open'[i] = open[i + 1]
  BY <1>1, Popped
<1>3. PICK m \in DOMAIN open : Owes(open[m], b)
  BY DEF Owing
<1>4. CASE m = 1
  BY <1>3, <1>4
<1>5. CASE m # 1
  <2>1. m - 1 \in 1 .. Len(open) - 1 /\ m - 1 + 1 = m
    BY <1>1, <1>5
  <2>2. m - 1 \in DOMAIN open' /\ open'[m - 1] = open[m]
    BY <1>2, <2>1
  <2>3. QED BY <1>3, <2>2 DEF Owing, Owes, Kind
<1>6. QED BY <1>4, <1>5

LEMMA OwingTurned ==
  ASSUME CompilerOK, open # << >>, UNCHANGED prog, NEW o \in Open, open' = <<o>> \o Tail(open),
         NEW b
  PROVE  /\ Owing(b) => Owes(open[1], b) \/ Owing(b)'
         /\ Owes(o, b) => Owing(b)'
<1>1. /\ open \in Seq(Open) /\ Len(open) \in Nat /\ DOMAIN open = 1 .. Len(open) /\ Len(open) >= 1
  BY OpenFacts DEF CompilerOK
<1>2. /\ DOMAIN open' = DOMAIN open /\ open'[1] = o
      /\ \A i \in 2 .. Len(open) : open'[i] = open[i]
  BY <1>1, Replaced
<1>3. ASSUME Owing(b) PROVE Owes(open[1], b) \/ Owing(b)'
  <2>1. PICK m \in DOMAIN open : Owes(open[m], b)
    BY <1>3 DEF Owing
  <2>2. CASE m = 1
    BY <2>1, <2>2
  <2>3. CASE m # 1
    <3>1. m \in 2 .. Len(open)
      BY <1>1, <2>3
    <3>2. m \in DOMAIN open' /\ open'[m] = open[m]
      BY <1>2, <3>1
    <3>3. QED BY <2>1, <3>2 DEF Owing, Owes, Kind
  <2>4. QED BY <2>2, <2>3
<1>4. ASSUME Owes(o, b) PROVE Owing(b)'
  <2>1. 1 \in DOMAIN open' /\ open'[1] = o
    BY <1>1, <1>2
  <2>2. QED BY <1>4, <2>1 DEF Owing, Owes, Kind
<1>5. QED BY <1>3, <1>4

\* When the current block is ended, what has no end is owed.
LEMMA OwedLeft ==
  ASSUME CompilerOK, NEW t, t.op # "none", NEW base, Shape(base, t), NEW new \in Seq(BasicBlock),
         blocks' = base \o new
  PROVE  /\ \A b \in 1 .. Len(blocks) : blocks'[b].term.op = "none" => Owing(b)
         /\ DOMAIN blocks' = 1 .. Len(blocks) + Len(new)
         /\ Len(blocks) \in Nat /\ Len(new) \in Nat
         /\ \A i \in 1 .. Len(new) : blocks'[Len(blocks) + i] = new[i]
         /\ \A b \in DOMAIN blocks' :
              b \in 1 .. Len(blocks) \/ \E i \in 1 .. Len(new) : b = Len(blocks) + i
<1>1. BlocksOK /\ OwedOrEnded
  BY DEF CompilerOK
<1>2. /\ DOMAIN blocks' = 1 .. Len(blocks) + Len(new)
      /\ \A b \in 1 .. Len(blocks) :
              /\ b = block /\ ~Terminated => blocks'[b].term = t
              /\ b # block \/ Terminated => blocks'[b].term = blocks[b].term
      /\ \A i \in 1 .. Len(new) : blocks'[Len(blocks) + i] = new[i]
  BY <1>1, Lengthened
<1>3. Len(blocks) \in Nat /\ DOMAIN blocks = 1 .. Len(blocks) /\ Len(new) \in Nat
  BY <1>1, BlockFacts, LenProperties
<1>4. ASSUME NEW b \in 1 .. Len(blocks), blocks'[b].term.op = "none" PROVE Owing(b)
  <2>1. blocks'[b].term = blocks[b].term
    BY <1>2, <1>4
  <2>2. b = block \/ Owing(b)
    BY <1>1, <1>3, <1>4, <2>1 DEF OwedOrEnded
  <2>3. b # block
    BY <1>2, <1>4, <2>1 DEF Terminated
  <2>4. QED BY <2>2, <2>3
<1>5. ASSUME NEW b \in DOMAIN blocks', b \notin 1 .. Len(blocks)
      PROVE  \E i \in 1 .. Len(new) : b = Len(blocks) + i
  <2>1. b - Len(blocks) \in 1 .. Len(new) /\ b = Len(blocks) + (b - Len(blocks))
    BY <1>2, <1>3, <1>5
  <2>2. QED BY <2>1
<1>6. QED BY <1>2, <1>3, <1>4, <1>5

-----------------------------------------------------------------------------
(* The steps of the compiler.                                              *)

LEMMA CompilingIs ==
  ASSUME ProgramOK, CompilerOK, NEW kinds, Compiling(kinds)
  PROVE  /\ next \in DOMAIN prog /\ next \in 1 .. MaxLines /\ next + 1 \in Nat \ {0} /\ next + 1 >= next
         /\ next \in Nat /\ fn \in 0 .. MaxLines
         /\ Kind(next) \in kinds /\ prog \in Seq(Line) /\ BlocksOK /\ Own(block)
         /\ open # << >> => Indent(next) > Indent(open[1].line)
<1>1. /\ prog \in Seq(Line) /\ Len(prog) \in Nat /\ DOMAIN prog = 1 .. Len(prog)
      /\ \A i \in DOMAIN prog : Indent(i) \in Nat
      /\ next \in Nat \ {0} /\ next <= Len(prog) /\ Len(prog) <= MaxLines
  BY Lines DEF ProgramOK, CompilerOK, Compiling
<1>2. next \in DOMAIN prog /\ next \in 1 .. MaxLines
  BY <1>1, BoundsAssumption
<1>3. ASSUME open # << >> PROVE Indent(next) > Indent(open[1].line)
  <2>1. Head(open) = open[1] /\ open[1].line \in DOMAIN prog
    BY <1>3, OpenFacts
  <2>2. ~(Indent(next) <= Indent(open[1].line))
    BY <1>1, <1>3, <2>1 DEF Compiling, BodyOver
  <2>3. Indent(next) \in Nat /\ Indent(open[1].line) \in Nat
    BY <1>1, <1>2, <2>1
  <2>4. QED BY <2>2, <2>3
<1>4. QED BY <1>1, <1>2, <1>3 DEF CompilerOK, Compiling

\* Nothing is opened or closed.
LEMMA Resting ==
  ASSUME CompilerOK, UNCHANGED <<prog, fn, open, exits, conts>>,
         next' \in Nat, next' >= next, BlocksKept
  PROVE  OpenOK' /\ open' \in Seq(Open) /\ LoopStacks' /\ \A b : Owing(b) => Owing(b)'
<1>1. OpenLoops' = OpenLoops /\ \A b : Owing(b) => Owing(b)'
  BY DEF OpenLoops, Kind, Owing, Owes
<1>2. QED BY <1>1, OpenKept, StacksKept

LEMMA SkipKeeps ==
  ASSUME ProgramOK, CompilerOK, UNCHANGED prog, Skip
  PROVE  CompilerOK'
<1>1. /\ next \in DOMAIN prog /\ prog \in Seq(Line) /\ next \in Nat
      /\ UNCHANGED <<fn, block, blocks, exits, conts, open>> /\ next' = After(next)
  BY CompilingIs DEF Skip
<1>2. After(next) \in Nat /\ next < After(next)
  BY <1>1, AfterIs
<1>3. next' \in Nat \ {0} /\ next' >= next
  BY <1>1, <1>2
<1>4. BlocksKept
  BY <1>1 DEF BlocksKept
<1>5. OpenOK' /\ open' \in Seq(Open) /\ LoopStacks' /\ \A b : Owing(b) => Owing(b)'
  BY <1>1, <1>3, <1>4, Resting
<1>6. OwedOrEnded' /\ TargetsOwn' /\ BlocksOK' /\ Own(block)'
  BY <1>1, <1>5 DEF CompilerOK, OwedOrEnded, TargetsOwn, JumpsWithin, BlocksOK, Own
<1>7. QED BY <1>1, <1>3, <1>5, <1>6 DEF CompilerOK

\* The current block is changed, and stays the current one.
LEMMA SameBlock ==
  ASSUME ProgramOK, CompilerOK, UNCHANGED <<prog, fn, block, open, exits, conts>>,
         next' \in Nat \ {0}, next' >= next, NEW t \in Term, Shape(blocks', t),
         ~Terminated => t.op \in {"none", "ret"}
  PROVE  CompilerOK'
<1>1. BlocksOK /\ Own(block) /\ OwedOrEnded
  BY DEF CompilerOK
<1>2. blocks' \in Seq(BasicBlock)
  BY DEF Shape
<1>3. PICK none \in Seq(BasicBlock) : blocks' = blocks' \o none /\ \A i : i \notin 1 .. Len(none)
  <2>1. << >> \in Seq(BasicBlock) /\ \A i : i \notin 1 .. Len(<< >>)
    OBVIOUS
  <2>2. blocks' = blocks' \o << >>
    BY <1>2, ConcatEmptySeq
  <2>3. QED BY <2>1, <2>2
<1>4. ~Terminated => JumpsWithin(blocks', t, fn)
  BY DEF JumpsWithin
<1>5. TargetsOwn' /\ BlocksKept
  BY <1>3, <1>4, BlocksGrow
<1>6. OpenOK' /\ open' \in Seq(Open) /\ LoopStacks' /\ \A b : Owing(b) => Owing(b)'
  BY <1>5, Resting
<1>7. BlocksOK' /\ Own(block)'
  BY <1>1, <1>2, <1>5 DEF BlocksOK, Own, BlocksKept
<1>8. OwedOrEnded'
  <2>1. SUFFICES ASSUME NEW b \in DOMAIN blocks', blocks'[b].term.op = "none", b # block
                 PROVE  Owing(b)'
    BY DEF OwedOrEnded
  <2>2. b \in DOMAIN blocks /\ blocks'[b].term = blocks[b].term
    BY <1>1, <2>1, BlockFacts, LenProperties DEF Shape
  <2>3. QED BY <1>1, <1>6, <2>1, <2>2 DEF OwedOrEnded
<1>9. QED BY <1>5, <1>6, <1>7, <1>8 DEF CompilerOK

LEMMA EffectKeeps ==
  ASSUME ProgramOK, CompilerOK, UNCHANGED prog, Effect
  PROVE  CompilerOK'
<1>1. /\ next \in DOMAIN prog /\ prog \in Seq(Line) /\ Len(prog) <= MaxLines /\ BlocksOK
      /\ next \in 1 .. MaxLines /\ next + 1 \in Nat \ {0} /\ next + 1 >= next
  BY CompilingIs DEF Effect, ProgramOK
<1>2. /\ UNCHANGED <<fn, block, exits, conts, open>> /\ next' = next + 1 /\ ~Terminated
  BY DEF Effect
<1>3. /\ blocks[block].term \in Term /\ blocks[block].term.op = "none"
  BY <1>1, <1>2, BlockFacts DEF Terminated
<1>4. Ret(next) \in Term /\ Ret(next).op = "ret"
  <2>1. next \in 0 .. MaxLines /\ 0 \in Nat
    BY <1>1, BoundsAssumption
  <2>2. QED BY <2>1, Terms DEF Ret
<1>5. CASE Implicit /\ Kind(next) # "say"
  <2>1. blocks' = [Emitted("do") EXCEPT ![block].term = Ret(next)]
    BY <1>5 DEF Effect
  <2>2. Shape(blocks', Ret(next))
    BY <1>1, <1>2, <1>4, <2>1, CodeAdded
  <2>3. QED BY <1>1, <1>2, <1>4, <2>2, SameBlock
<1>6. CASE ~(Implicit /\ Kind(next) # "say")
  <2>1. blocks' = Emitted("do")
    BY <1>6 DEF Effect
  <2>2. Shape(blocks', blocks[block].term)
    BY <1>1, <1>4, <2>1, CodeAdded
  <2>3. QED BY <1>1, <1>2, <1>3, <2>2, SameBlock
<1>7. QED BY <1>5, <1>6

LEMMA ReturnKeeps ==
  ASSUME ProgramOK, CompilerOK, UNCHANGED prog, Return
  PROVE  CompilerOK'
<1>1. /\ BlocksOK /\ next \in 1 .. MaxLines /\ next + 1 \in Nat \ {0} /\ next + 1 >= next
  BY CompilingIs DEF Return
<1>2. /\ UNCHANGED <<fn, block, exits, conts, open>> /\ next' = next + 1
      /\ blocks' = EndedBy(Ret(next))
  BY DEF Return
<1>3. Ret(next) \in Term /\ Ret(next).op = "ret"
  <2>1. next \in 0 .. MaxLines /\ 0 \in Nat
    BY <1>1, BoundsAssumption
  <2>2. QED BY <2>1, Terms DEF Ret
<1>4. Shape(blocks', Ret(next))
  BY <1>1, <1>2, <1>3, EndedIs
<1>5. QED BY <1>1, <1>2, <1>3, <1>4, SameBlock

LEMMA MainEndsKeeps ==
  ASSUME ProgramOK, CompilerOK, UNCHANGED prog, MainEnds
  PROVE  CompilerOK'
<1>1. BlocksOK /\ next \in Nat \ {0} /\ next >= next
  BY DEF CompilerOK
<1>2. UNCHANGED <<next, fn, block, exits, conts, open>> /\ blocks' = EndedBy(Ret(0))
  BY DEF MainEnds
<1>3. Ret(0) \in Term /\ Ret(0).op = "ret"
  <2>1. 0 \in 0 .. MaxLines /\ 0 \in Nat
    BY BoundsAssumption
  <2>2. QED BY <2>1, Terms DEF Ret
<1>4. Shape(blocks', Ret(0))
  BY <1>1, <1>2, <1>3, EndedIs
<1>5. QED BY <1>1, <1>2, <1>3, <1>4, SameBlock

\* The new blocks of a step that stays in its function.
LEMMA NewOnes ==
  ASSUME CompilerOK, fn' = fn, NEW t, NEW base, Shape(base, t), NEW new \in Seq(BasicBlock),
         blocks' = base \o new, \A i \in 1 .. Len(new) : new[i].fn = fn
  PROVE  /\ \A i \in 1 .. Len(new) :
              Len(blocks) + i \in DOMAIN blocks' /\ blocks'[Len(blocks) + i].fn = fn
         /\ \A b : Own(b) => b \in DOMAIN blocks' /\ blocks'[b].fn = fn
         /\ Len(blocks) \in Nat /\ DOMAIN blocks = 1 .. Len(blocks)
<1>1. BlocksOK
  BY DEF CompilerOK
<1>2. /\ DOMAIN blocks' = 1 .. Len(blocks) + Len(new)
      /\ \A i \in 1 .. Len(new) : blocks'[Len(blocks) + i] = new[i]
      /\ \A b \in 1 .. Len(blocks) : b \in DOMAIN blocks' /\ blocks'[b].fn = blocks[b].fn
  BY <1>1, Lengthened
<1>3. Len(blocks) \in Nat /\ Len(new) \in Nat /\ DOMAIN blocks = 1 .. Len(blocks)
  BY <1>1, BlockFacts, LenProperties
<1>4. \A i \in 1 .. Len(new) : Len(blocks) + i \in DOMAIN blocks'
  BY <1>2, <1>3
<1>5. ASSUME NEW b, Own(b) PROVE b \in DOMAIN blocks' /\ blocks'[b].fn = fn
  <2>1. b \in 1 .. Len(blocks) /\ blocks[b].fn = fn
    BY <1>3, <1>5 DEF Own
  <2>2. QED BY <1>2, <2>1
<1>6. \A i \in 1 .. Len(new) :
        Len(blocks) + i \in DOMAIN blocks' /\ blocks'[Len(blocks) + i].fn = fn
  BY <1>2, <1>4
<1>7. QED BY <1>3, <1>5, <1>6

\* Statements with a block.
LEMMA OpeningKeeps ==
  ASSUME ProgramOK, CompilerOK, UNCHANGED <<prog, fn>>, next \in DOMAIN prog, next' = next + 1,
         NEW o \in Open, o.line = next, open' = <<o>> \o open,
         NEW t, t.op # "none", NEW base, Shape(base, t), NEW new \in Seq(BasicBlock),
         blocks' = base \o new, JumpsWithin(blocks', t, fn),
         \A i \in 1 .. Len(new) :
           /\ new[i].fn = fn /\ JumpsWithin(blocks', new[i].term, fn)
           /\ new[i].term.op = "none" =>
                Len(blocks) + i = block' \/ Owes(o, Len(blocks) + i),
         Kind(next) # "fn", Own(block)', Own(o.merge)',
         Kind(next) \in Loops \cup {"if"} => Own(o.else)',
         Kind(next) \notin Loops => UNCHANGED <<exits, conts>>,
         Kind(next) \in Loops =>
           \E e, c \in Nat : /\ exits' = Append(exits, e) /\ conts' = Append(conts, c)
                             /\ Own(e)' /\ Own(c)'
  PROVE  CompilerOK'
<1>1. TargetsOwn' /\ blocks' \in Seq(BasicBlock) /\ BlocksKept
  BY BlocksGrow
<1>2. OpenOK' /\ open' \in Seq(Open) /\ next' \in Nat \ {0}
  BY <1>1, OpenPushed
<1>3. LoopStacks'
  <2>1. CASE Kind(next) \in Loops
    <3>1. PICK e \in Nat, c \in Nat : /\ exits' = Append(exits, e) /\ conts' = Append(conts, c)
                                      /\ Own(e)' /\ Own(c)'
      BY <2>1
    <3>2. next \notin OpenLoops /\ OpenLoops' = OpenLoops \cup {next}
      BY <2>1, LoopsPushed
    <3>3. QED BY <1>1, <3>1, <3>2, StacksPushed
  <2>2. CASE Kind(next) \notin Loops
    <3>1. OpenLoops' = OpenLoops /\ UNCHANGED <<exits, conts>>
      BY <2>2, LoopsPushed
    <3>2. QED BY <1>1, <3>1, StacksKept
  <2>3. QED BY <2>1, <2>2
<1>4. OwedOrEnded'
  <2>1. SUFFICES ASSUME NEW b \in DOMAIN blocks', blocks'[b].term.op = "none", b # block'
                 PROVE  Owing(b)'
    BY DEF OwedOrEnded
  <2>2. /\ \A c \in 1 .. Len(blocks) : blocks'[c].term.op = "none" => Owing(c)
        /\ \A i \in 1 .. Len(new) : blocks'[Len(blocks) + i] = new[i]
        /\ b \in 1 .. Len(blocks) \/ \E i \in 1 .. Len(new) : b = Len(blocks) + i
    BY OwedLeft
  <2>3. Owing(b) \/ Owes(o, b)
    BY <2>1, <2>2
  <2>4. QED BY <2>3, OwingPushed
<1>5. BlocksOK' /\ Own(block)'
  BY <1>1 DEF BlocksOK, Own
<1>6. QED BY <1>1, <1>2, <1>3, <1>4, <1>5 DEF CompilerOK

LEMMA OpenedIs ==
  ASSUME NEW i \in 1 .. MaxLines, NEW e \in Nat, NEW m \in Nat, NEW f \in 0 .. MaxLines
  PROVE  /\ Opened(i, e, m, f) \in Open
         /\ Opened(i, e, m, f).line = i /\ Opened(i, e, m, f).else = e
         /\ Opened(i, e, m, f).merge = m /\ Opened(i, e, m, f).fn = f
BY DEF Opened, Open

LEMMA IfKeeps ==
  ASSUME ProgramOK, CompilerOK, UNCHANGED prog, IfStmt
  PROVE  CompilerOK'
<1>1. /\ next \in DOMAIN prog /\ next \in 1 .. MaxLines /\ fn \in 0 .. MaxLines /\ BlocksOK
      /\ Kind(next) = "if"
  BY CompilingIs DEF IfStmt
<1>2. PICK n \in Nat : n = Len(blocks)
  BY <1>1, BlockFacts
<1>3. PICK new : new = [i \in 1 .. 3 |-> NewBlock(fn, NoTerm)]
  OBVIOUS
<1>4. PICK o : o = Opened(next, n + 2, n + 3, fn)
  OBVIOUS
<1>5. PICK t : t = CondBr(next, n + 1, n + 2)
  OBVIOUS
<1>6. /\ blocks' = EndedBy(t) \o new /\ block' = n + 1 /\ open' = <<o>> \o open
      /\ next' = next + 1 /\ UNCHANGED <<fn, exits, conts>>
  BY <1>2, <1>3, <1>4, <1>5 DEF IfStmt
<1>7. /\ t \in Term /\ NoTerm \in Term /\ t.op = "cond" /\ t.yes = n + 1 /\ t.no = n + 2
      /\ NoTerm.op = "none"
  <2>1. next \in 0 .. MaxLines /\ n + 1 \in Nat /\ n + 2 \in Nat
    BY <1>1
  <2>2. QED BY <1>5, <2>1, Terms DEF CondBr, NoTerm
<1>8. /\ new \in Seq(BasicBlock) /\ Len(new) = 3
      /\ \A i \in 1 .. 3 : new[i].fn = fn /\ new[i].term = NoTerm
  <2>1. NewBlock(fn, NoTerm) \in BasicBlock /\ NewBlock(fn, NoTerm).fn = fn /\ NewBlock(fn, NoTerm).term = NoTerm
    BY <1>1, <1>7, NewBlocks
  <2>2. PICK x \in BasicBlock : x = NewBlock(fn, NoTerm)
    BY <2>1
  <2>3. new = [i \in 1 .. 3 |-> x]
    BY <1>3, <2>2
  <2>4. new \in Seq(BasicBlock) /\ Len(new) = 3 /\ \A i \in 1 .. 3 : new[i] = x
    BY <2>3
  <2>5. QED BY <2>1, <2>2, <2>4
<1>9. /\ o \in Open /\ o.line = next /\ o.else = n + 2 /\ o.merge = n + 3
  BY <1>1, <1>2, <1>4, OpenedIs
<1>10. Shape(EndedBy(t), t)
  BY <1>1, <1>7, EndedIs
<1>11. \A i \in 1 .. 3 : n + i \in DOMAIN blocks' /\ blocks'[n + i].fn = fn
  <2>1. \A i \in 1 .. Len(new) : new[i].fn = fn
    BY <1>8
  <2>2. \A i \in 1 .. Len(new) :
          Len(blocks) + i \in DOMAIN blocks' /\ blocks'[Len(blocks) + i].fn = fn
    BY <1>6, <1>8, <1>10, <2>1, NewOnes
  <2>3. QED BY <1>2, <1>8, <2>2
<1>12. Own(n + 1)' /\ Own(n + 2)' /\ Own(n + 3)'
  BY <1>6, <1>11 DEF Own
<1>13. JumpsWithin(blocks', t, fn) /\ JumpsWithin(blocks', NoTerm, fn)
  BY <1>7, <1>11 DEF JumpsWithin
<1>14. \A i \in 1 .. 3 : n + i = block' \/ Owes(o, n + i)
  BY <1>1, <1>6, <1>9 DEF Owes
<1>15. Own(block)' /\ Own(o.merge)' /\ Own(o.else)'
  BY <1>6, <1>9, <1>12
<1>16. Kind(next) \notin Loops
  BY <1>1 DEF Loops
<1>17. QED
  BY <1>1, <1>2, <1>6, <1>7, <1>8, <1>9, <1>10, <1>13, <1>14, <1>15, <1>16, OpeningKeeps

LEMMA CatchKeeps ==
  ASSUME ProgramOK, CompilerOK, UNCHANGED prog, CatchStmt
  PROVE  CompilerOK'
<1>1. /\ next \in DOMAIN prog /\ next \in 1 .. MaxLines /\ fn \in 0 .. MaxLines /\ BlocksOK
      /\ Kind(next) = "catch"
  BY CompilingIs DEF CatchStmt
<1>2. PICK n \in Nat : n = Len(blocks)
  BY <1>1, BlockFacts
<1>3. PICK new : new = [i \in 1 .. 2 |-> NewBlock(fn, NoTerm)]
  OBVIOUS
<1>4. PICK o : o = Opened(next, 0, n + 2, fn)
  OBVIOUS
<1>5. PICK t : t = CondBr(next, n + 1, n + 2)
  OBVIOUS
<1>6. /\ blocks' = EndedBy(t) \o new /\ block' = n + 1 /\ open' = <<o>> \o open
      /\ next' = next + 1 /\ UNCHANGED <<fn, exits, conts>>
  BY <1>2, <1>3, <1>4, <1>5 DEF CatchStmt
<1>7. /\ t \in Term /\ NoTerm \in Term /\ t.op = "cond" /\ t.yes = n + 1 /\ t.no = n + 2
      /\ NoTerm.op = "none"
  <2>1. next \in 0 .. MaxLines /\ n + 1 \in Nat /\ n + 2 \in Nat
    BY <1>1
  <2>2. QED BY <1>5, <2>1, Terms DEF CondBr, NoTerm
<1>8. /\ new \in Seq(BasicBlock) /\ Len(new) = 2
      /\ \A i \in 1 .. 2 : new[i].fn = fn /\ new[i].term = NoTerm
  <2>1. NewBlock(fn, NoTerm) \in BasicBlock /\ NewBlock(fn, NoTerm).fn = fn /\ NewBlock(fn, NoTerm).term = NoTerm
    BY <1>1, <1>7, NewBlocks
  <2>2. PICK x \in BasicBlock : x = NewBlock(fn, NoTerm)
    BY <2>1
  <2>3. new = [i \in 1 .. 2 |-> x]
    BY <1>3, <2>2
  <2>4. new \in Seq(BasicBlock) /\ Len(new) = 2 /\ \A i \in 1 .. 2 : new[i] = x
    BY <2>3
  <2>5. QED BY <2>1, <2>2, <2>4
<1>9. /\ o \in Open /\ o.line = next /\ o.merge = n + 2
  BY <1>1, <1>2, <1>4, OpenedIs
<1>10. Shape(EndedBy(t), t)
  BY <1>1, <1>7, EndedIs
<1>11. \A i \in 1 .. 2 : n + i \in DOMAIN blocks' /\ blocks'[n + i].fn = fn
  <2>1. \A i \in 1 .. Len(new) : new[i].fn = fn
    BY <1>8
  <2>2. \A i \in 1 .. Len(new) :
          Len(blocks) + i \in DOMAIN blocks' /\ blocks'[Len(blocks) + i].fn = fn
    BY <1>6, <1>8, <1>10, <2>1, NewOnes
  <2>3. QED BY <1>2, <1>8, <2>2
<1>12. Own(n + 1)' /\ Own(n + 2)'
  BY <1>6, <1>11 DEF Own
<1>13. JumpsWithin(blocks', t, fn) /\ JumpsWithin(blocks', NoTerm, fn)
  BY <1>7, <1>11 DEF JumpsWithin
<1>14. \A i \in 1 .. 2 : n + i = block' \/ Owes(o, n + i)
  BY <1>1, <1>6, <1>9 DEF Owes
<1>15. Own(block)' /\ Own(o.merge)'
  BY <1>6, <1>9, <1>12
<1>16. Kind(next) \notin Loops \cup {"if"}
  BY <1>1 DEF Loops
<1>17. QED
  BY <1>1, <1>2, <1>6, <1>7, <1>8, <1>9, <1>10, <1>13, <1>14, <1>15, <1>16, OpeningKeeps

LEMMA WhileKeeps ==
  ASSUME ProgramOK, CompilerOK, UNCHANGED prog, WhileStmt
  PROVE  CompilerOK'
<1>1. /\ next \in DOMAIN prog /\ next \in 1 .. MaxLines /\ fn \in 0 .. MaxLines /\ BlocksOK
      /\ Kind(next) = "while"
  BY CompilingIs DEF WhileStmt
<1>2. PICK n \in Nat : n = Len(blocks)
  BY <1>1, BlockFacts
<1>3. PICK t : t = Br(n + 1)
  OBVIOUS
<1>4. PICK o : o = Opened(next, n + 1, n + 3, fn)
  OBVIOUS
<1>5. PICK u : u = CondBr(next, n + 2, n + 3)
  OBVIOUS
<1>6. /\ t \in Term /\ NoTerm \in Term /\ t.op = "br" /\ t.yes = n + 1 /\ t.no = n + 1
      /\ NoTerm.op = "none"
      /\ u \in Term /\ u.op = "cond" /\ u.yes = n + 2 /\ u.no = n + 3
  <2>1. next \in 0 .. MaxLines /\ n + 1 \in Nat /\ n + 2 \in Nat /\ n + 3 \in Nat
    BY <1>1
  <2>2. QED BY <1>3, <1>5, <2>1, Terms DEF Br, CondBr, NoTerm
<1>7. PICK x \in BasicBlock : x = NewBlock(fn, NoTerm) /\ x.fn = fn /\ x.term = NoTerm
  BY <1>1, <1>6, NewBlocks
<1>8. PICK y \in BasicBlock : y = NewBlock(fn, u) /\ y.fn = fn /\ y.term = u
  BY <1>1, <1>6, NewBlocks
<1>9. PICK new : new = <<y, x, x>>
  OBVIOUS
<1>10. /\ blocks' = EndedBy(t) \o new /\ block' = n + 2 /\ open' = <<o>> \o open
       /\ exits' = Append(exits, n + 3) /\ conts' = Append(conts, n + 1)
       /\ next' = next + 1 /\ UNCHANGED fn
  BY <1>2, <1>3, <1>4, <1>5, <1>7, <1>8, <1>9 DEF WhileStmt
<1>11. /\ new \in Seq(BasicBlock) /\ Len(new) = 3
       /\ new[1] = y /\ new[2] = x /\ new[3] = x
  BY <1>9
<1>12. o \in Open /\ o.line = next /\ o.else = n + 1 /\ o.merge = n + 3
  BY <1>1, <1>2, <1>4, OpenedIs
<1>13. Shape(EndedBy(t), t)
  BY <1>1, <1>6, EndedIs
<1>14. \A i \in 1 .. 3 : n + i \in DOMAIN blocks' /\ blocks'[n + i].fn = fn
  <2>1. \A i \in 1 .. Len(new) : new[i].fn = fn
    BY <1>7, <1>8, <1>11
  <2>2. \A i \in 1 .. Len(new) :
          Len(blocks) + i \in DOMAIN blocks' /\ blocks'[Len(blocks) + i].fn = fn
    BY <1>10, <1>11, <1>13, <2>1, NewOnes
  <2>3. QED BY <1>2, <1>11, <2>2
<1>15. Own(n + 1)' /\ Own(n + 2)' /\ Own(n + 3)'
  BY <1>10, <1>14 DEF Own
<1>16. JumpsWithin(blocks', t, fn) /\ JumpsWithin(blocks', NoTerm, fn) /\ JumpsWithin(blocks', u, fn)
  BY <1>6, <1>14 DEF JumpsWithin
<1>17. \A i \in 1 .. Len(new) :
         /\ new[i].fn = fn /\ JumpsWithin(blocks', new[i].term, fn)
         /\ new[i].term.op = "none" => Len(blocks) + i = block' \/ Owes(o, Len(blocks) + i)
  <2>1. \A i \in 1 .. Len(new) : i = 1 \/ i = 2 \/ i = 3
    BY <1>11
  <2>2. /\ n + 2 = block' /\ Owes(o, n + 3)
        /\ new[1].term.op # "none"
    BY <1>6, <1>8, <1>10, <1>11, <1>12 DEF Owes
  <2>3. QED BY <1>2, <1>7, <1>8, <1>11, <1>16, <2>1, <2>2
<1>18. Own(block)' /\ Own(o.merge)' /\ Own(o.else)'
  BY <1>10, <1>12, <1>15
<1>19. Kind(next) \in Loops /\ Kind(next) # "fn"
  BY <1>1 DEF Loops
<1>20. \E e, c \in Nat : /\ exits' = Append(exits, e) /\ conts' = Append(conts, c)
                         /\ Own(e)' /\ Own(c)'
  <2>1. n + 3 \in Nat /\ n + 1 \in Nat
    BY <1>2
  <2>2. QED BY <1>10, <1>15, <2>1
<1>21. t.op # "none"
  BY <1>6
<1>22. QED
  BY <1>1, <1>10, <1>11, <1>12, <1>13, <1>16, <1>17, <1>18, <1>19, <1>20, <1>21, OpeningKeeps

LEMMA ForKeeps ==
  ASSUME ProgramOK, CompilerOK, UNCHANGED prog, ForStmt
  PROVE  CompilerOK'
<1>1. /\ next \in DOMAIN prog /\ next \in 1 .. MaxLines /\ fn \in 0 .. MaxLines /\ BlocksOK
      /\ Kind(next) = "for" /\ ~Terminated /\ prog \in Seq(Line) /\ Len(prog) <= MaxLines
  BY CompilingIs DEF ForStmt, ProgramOK
<1>2. PICK n \in Nat : n = Len(blocks)
  BY <1>1, BlockFacts
<1>3. PICK t : t = Br(n + 1)
  OBVIOUS
<1>4. PICK o : o = Opened(next, n + 3, n + 4, fn)
  OBVIOUS
<1>5. PICK u : u = CountBr(next, n + 2, n + 4)
  OBVIOUS
<1>6. /\ t \in Term /\ NoTerm \in Term /\ t.op = "br" /\ t.yes = n + 1 /\ t.no = n + 1
      /\ NoTerm.op = "none"
      /\ u \in Term /\ u.op = "count" /\ u.yes = n + 2 /\ u.no = n + 4
  <2>1. next \in 0 .. MaxLines /\ n + 1 \in Nat /\ n + 2 \in Nat /\ n + 4 \in Nat
    BY <1>1
  <2>2. QED BY <1>3, <1>5, <2>1, Terms DEF Br, CountBr, NoTerm
<1>7. PICK x \in BasicBlock : x = NewBlock(fn, NoTerm) /\ x.fn = fn /\ x.term = NoTerm
  BY <1>1, <1>6, NewBlocks
<1>8. PICK y \in BasicBlock : y = NewBlock(fn, u) /\ y.fn = fn /\ y.term = u
  BY <1>1, <1>6, NewBlocks
<1>9. PICK z \in BasicBlock :
        /\ z = [NewBlock(fn, Br(n + 1)) EXCEPT !.code = <<[op |-> "step", line |-> next]>>]
        /\ z.fn = fn /\ z.term = t
  <2>1. NewBlock(fn, t) \in BasicBlock /\ NewBlock(fn, t).fn = fn /\ NewBlock(fn, t).term = t
    BY <1>1, <1>6, NewBlocks
  <2>2. PICK c : c = <<[op |-> "step", line |-> next]>>
    OBVIOUS
  <2>3. c \in Seq(Instr)
    <3>1. [op |-> "step", line |-> next] \in Instr
      BY <1>1 DEF Instr
    <3>2. QED BY <2>2, <3>1
  <2>4. PICK w \in BasicBlock : w = NewBlock(fn, t)
    BY <2>1
  <2>5. [w EXCEPT !.code = c] \in BasicBlock /\ [w EXCEPT !.code = c].fn = w.fn
        /\ [w EXCEPT !.code = c].term = w.term
    BY <2>3 DEF BasicBlock
  <2>6. QED BY <1>3, <2>1, <2>2, <2>4, <2>5
<1>10. PICK new : new = <<y, x, z, x>>
  OBVIOUS
<1>11. PICK base : base = [Emitted("start") EXCEPT ![block].term = t]
  OBVIOUS
<1>12. /\ blocks' = base \o new /\ block' = n + 2 /\ open' = <<o>> \o open
       /\ exits' = Append(exits, n + 4) /\ conts' = Append(conts, n + 3)
       /\ next' = next + 1 /\ UNCHANGED fn
  <2>1. blocks' = base \o new
    BY <1>2, <1>3, <1>5, <1>7, <1>8, <1>9, <1>10, <1>11, Zenon DEF ForStmt
  <2>2. block' = n + 2 /\ open' = <<o>> \o open
    BY <1>2, <1>4, Zenon DEF ForStmt
  <2>3. exits' = Append(exits, n + 4) /\ conts' = Append(conts, n + 3)
    BY <1>2, Zenon DEF ForStmt
  <2>4. next' = next + 1 /\ UNCHANGED fn
    BY Zenon DEF ForStmt
  <2>5. QED BY <2>1, <2>2, <2>3, <2>4
<1>13. /\ new \in Seq(BasicBlock) /\ Len(new) = 4
       /\ new[1] = y /\ new[2] = x /\ new[3] = z /\ new[4] = x
  BY <1>10
<1>14. o \in Open /\ o.line = next /\ o.else = n + 3 /\ o.merge = n + 4
  <2>1. n + 3 \in Nat /\ n + 4 \in Nat
    BY <1>2
  <2>2. QED BY <1>1, <1>4, <2>1, OpenedIs
<1>15. Shape(base, t)
  <2>1. \A op \in {"do", "start", "step"} : Shape([Emitted(op) EXCEPT ![block].term = t], t)
    BY <1>1, <1>6, CodeAdded
  <2>2. Shape([Emitted("start") EXCEPT ![block].term = t], t)
    BY <2>1
  <2>3. QED BY <1>11, <2>2
<1>16. \A i \in 1 .. 4 : n + i \in DOMAIN blocks' /\ blocks'[n + i].fn = fn
  <2>1. \A i \in 1 .. Len(new) : new[i].fn = fn
    <3>1. x.fn = fn /\ y.fn = fn /\ z.fn = fn
      BY <1>7, <1>8, <1>9
    <3>2. \A i \in 1 .. Len(new) : i = 1 \/ i = 2 \/ i = 3 \/ i = 4
      BY <1>13
    <3>3. QED BY <1>13, <3>1, <3>2
  <2>2. \A i \in 1 .. Len(new) :
          Len(blocks) + i \in DOMAIN blocks' /\ blocks'[Len(blocks) + i].fn = fn
    BY <1>12, <1>13, <1>15, <2>1, NewOnes
  <2>3. QED BY <1>2, <1>13, <2>2
<1>17. Own(n + 2)' /\ Own(n + 3)' /\ Own(n + 4)'
  BY <1>12, <1>16 DEF Own
<1>18. JumpsWithin(blocks', t, fn) /\ JumpsWithin(blocks', NoTerm, fn) /\ JumpsWithin(blocks', u, fn)
  BY <1>6, <1>16 DEF JumpsWithin
<1>19. \A i \in 1 .. Len(new) :
         /\ new[i].fn = fn /\ JumpsWithin(blocks', new[i].term, fn)
         /\ new[i].term.op = "none" => Len(blocks) + i = block' \/ Owes(o, Len(blocks) + i)
  <2>1. \A i \in 1 .. Len(new) : i = 1 \/ i = 2 \/ i = 3 \/ i = 4
    BY <1>13
  <2>2. /\ n + 2 = block' /\ Owes(o, n + 4)
        /\ new[1].term.op # "none" /\ new[3].term.op # "none"
    BY <1>6, <1>8, <1>9, <1>12, <1>13, <1>14 DEF Owes
  <2>3. QED BY <1>2, <1>7, <1>8, <1>9, <1>13, <1>18, <2>1, <2>2
<1>20. Own(block)' /\ Own(o.merge)' /\ Own(o.else)'
  BY <1>12, <1>14, <1>17
<1>21. Kind(next) \in Loops /\ Kind(next) # "fn"
  BY <1>1 DEF Loops
<1>22. \E e, c \in Nat : /\ exits' = Append(exits, e) /\ conts' = Append(conts, c)
                         /\ Own(e)' /\ Own(c)'
  <2>1. n + 3 \in Nat /\ n + 4 \in Nat
    BY <1>2
  <2>2. QED BY <1>12, <1>17, <2>1
<1>23. t.op # "none"
  BY <1>6
<1>24. QED
  BY <1>1, <1>12, <1>13, <1>14, <1>15, <1>18, <1>19, <1>20, <1>21, <1>22, <1>23, OpeningKeeps

LEMMA JumpKeeps ==
  ASSUME ProgramOK, CompilerOK, UNCHANGED prog, Jump
  PROVE  CompilerOK'
<1>1. /\ next \in DOMAIN prog /\ fn \in 0 .. MaxLines /\ BlocksOK /\ LoopStacks
      /\ next + 1 \in Nat \ {0} /\ next + 1 >= next /\ exits # << >>
  BY CompilingIs DEF Jump, CompilerOK, Jumps
<1>2. PICK b : b = IF Kind(next) = "zero" THEN Last(exits) ELSE Last(conts)
  OBVIOUS
<1>3. b \in Nat /\ Own(b)
  <2>1. /\ Len(exits) \in Nat /\ Len(exits) >= 1 /\ Len(conts) = Len(exits)
        /\ DOMAIN exits = 1 .. Len(exits) /\ DOMAIN conts = 1 .. Len(conts)
    BY <1>1, Popped, LenProperties DEF LoopStacks
  <2>2. Len(exits) \in DOMAIN exits /\ Len(conts) \in DOMAIN conts
    BY <2>1
  <2>3. Own(Last(exits)) /\ Own(Last(conts))
    BY <1>1, <2>2 DEF LoopStacks, Last
  <2>4. Own(b)
    BY <1>2, <2>3
  <2>5. QED BY <1>1, <2>4, BlockFacts DEF Own
<1>4. PICK t : t = Br(b)
  OBVIOUS
<1>5. /\ t \in Term /\ t.op = "br" /\ t.yes = b /\ t.no = b /\ NoTerm \in Term /\ NoTerm.op = "none"
  <2>1. 0 \in 0 .. MaxLines
    BY BoundsAssumption
  <2>2. QED BY <1>3, <1>4, <2>1, Terms DEF Br, NoTerm
<1>6. PICK x \in BasicBlock : x = NewBlock(fn, NoTerm) /\ x.fn = fn /\ x.term = NoTerm
  BY <1>1, <1>5, NewBlocks
<1>7. PICK new : new = <<x>>
  OBVIOUS
<1>8. new \in Seq(BasicBlock) /\ Len(new) = 1 /\ new[1] = x
  BY <1>7
<1>9. Shape(EndedBy(t), t)
  BY <1>1, <1>5, EndedIs
<1>10. /\ blocks' = EndedBy(t) \o new /\ block' = Len(blocks) + 1 /\ next' = next + 1
       /\ UNCHANGED <<fn, exits, conts, open>> /\ ~Terminated
  <2>1. blocks' = Append(EndedBy(t), x)
    BY <1>2, <1>4, <1>6 DEF Jump
  <2>2. PICK base : base = EndedBy(t)
    OBVIOUS
  <2>3. base \in Seq(BasicBlock)
    BY <1>9, <2>2 DEF Shape
  <2>4. Append(base, x) = base \o <<x>>
    BY <1>6, <2>3, AppendIsConcat
  <2>5. QED BY <1>7, <2>1, <2>2, <2>4 DEF Jump
<1>11. /\ Len(blocks) + 1 \in DOMAIN blocks' /\ blocks'[Len(blocks) + 1].fn = fn
       /\ b \in DOMAIN blocks' /\ blocks'[b].fn = fn
  <2>1. \A i \in 1 .. Len(new) : new[i].fn = fn
    BY <1>6, <1>8
  <2>2. /\ \A i \in 1 .. Len(new) :
             Len(blocks) + i \in DOMAIN blocks' /\ blocks'[Len(blocks) + i].fn = fn
        /\ \A c : Own(c) => c \in DOMAIN blocks' /\ blocks'[c].fn = fn
    BY <1>8, <1>9, <1>10, <2>1, NewOnes
  <2>3. QED BY <1>3, <1>8, <2>2
<1>12. JumpsWithin(blocks', t, fn) /\ JumpsWithin(blocks', NoTerm, fn)
  BY <1>5, <1>11 DEF JumpsWithin
<1>13. TargetsOwn' /\ blocks' \in Seq(BasicBlock) /\ BlocksKept
  <2>1. \A i \in 1 .. Len(new) : JumpsWithin(blocks', new[i].term, new[i].fn)
    BY <1>6, <1>8, <1>12
  <2>2. QED BY <1>8, <1>9, <1>10, <1>12, <2>1, BlocksGrow
<1>14. OpenOK' /\ open' \in Seq(Open) /\ LoopStacks' /\ \A c : Owing(c) => Owing(c)'
  <2>1. next' \in Nat /\ next' >= next
    BY <1>1, <1>10
  <2>2. QED BY <1>10, <1>13, <2>1, Resting
<1>15. OwedOrEnded'
  <2>1. SUFFICES ASSUME NEW c \in DOMAIN blocks', blocks'[c].term.op = "none", c # block'
                 PROVE  Owing(c)'
    BY DEF OwedOrEnded
  <2>2. /\ \A d \in 1 .. Len(blocks) : blocks'[d].term.op = "none" => Owing(d)
        /\ c \in 1 .. Len(blocks) \/ \E i \in 1 .. Len(new) : c = Len(blocks) + i
    BY <1>5, <1>8, <1>9, <1>10, OwedLeft
  <2>3. c \in 1 .. Len(blocks)
    BY <1>8, <1>10, <2>1, <2>2
  <2>4. QED BY <1>14, <2>1, <2>2, <2>3
<1>16. BlocksOK' /\ Own(block)'
  BY <1>10, <1>11, <1>13 DEF BlocksOK, Own
<1>17. QED BY <1>1, <1>10, <1>13, <1>14, <1>15, <1>16 DEF CompilerOK

\* The innermost block is over: what is next is no deeper than its statement.
LEMMA OverIs ==
  ASSUME ProgramOK, CompilerOK, BodyOver
  PROVE  /\ open # << >> /\ Head(open) = open[1] /\ open[1] \in Open
         /\ open[1].line \in DOMAIN prog /\ open[1].line < next /\ OpenStatement(1, open[1])
         /\ End(open[1].line) <= next /\ next \in Nat \ {0}
<1>1. open # << >> /\ (next <= Len(prog) => Indent(next) <= Indent(Head(open).line))
  BY DEF BodyOver
<1>2. /\ Head(open) = open[1] /\ open[1] \in Open /\ 1 \in DOMAIN open
      /\ open[1].line \in DOMAIN prog /\ open[1].line < next
  BY <1>1, OpenFacts
<1>3. next \in Nat \ {0} /\ prog \in Seq(Line) /\ OpenStatement(1, open[1])
  BY <1>2 DEF CompilerOK, ProgramOK, OpenOK
<1>4. End(open[1].line) <= next
  BY <1>1, <1>2, <1>3, EndIsFirst
<1>5. QED BY <1>1, <1>2, <1>3, <1>4

\* The current block jumps to one of its function.
LEMMA Closed ==
  ASSUME CompilerOK, NEW b, Own(b), blocks' = EndedBy(Br(b))
  PROVE  /\ TargetsOwn' /\ blocks' \in Seq(BasicBlock) /\ BlocksKept
         /\ DOMAIN blocks' = DOMAIN blocks
         /\ \A c \in DOMAIN blocks' : blocks'[c].term.op = "none" => Owing(c)
<1>1. BlocksOK
  BY DEF CompilerOK
<1>2. b \in Nat /\ DOMAIN blocks = 1 .. Len(blocks) /\ Len(blocks) \in Nat
  BY <1>1, BlockFacts DEF Own
<1>3. Br(b) \in Term /\ Br(b).op = "br" /\ Br(b).yes = b /\ Br(b).no = b
  <2>1. 0 \in 0 .. MaxLines
    BY BoundsAssumption
  <2>2. QED BY <1>2, <2>1, Terms DEF Br
<1>4. PICK t \in Term : t = Br(b)
  BY <1>3
<1>5. Shape(blocks', t)
  BY <1>1, <1>4, EndedIs
<1>6. PICK none \in Seq(BasicBlock) : blocks' = blocks' \o none /\ Len(none) = 0
  <2>1. << >> \in Seq(BasicBlock) /\ Len(<< >>) = 0
    OBVIOUS
  <2>2. blocks' = blocks' \o << >>
    BY <1>5, ConcatEmptySeq DEF Shape
  <2>3. QED BY <2>1, <2>2
<1>7. /\ DOMAIN blocks' = 1 .. Len(blocks) + Len(none)
      /\ \A c \in 1 .. Len(blocks) : blocks'[c].term.op = "none" => Owing(c)
  BY <1>3, <1>4, <1>5, <1>6, OwedLeft
<1>8. DOMAIN blocks' = DOMAIN blocks
  BY <1>2, <1>6, <1>7
<1>9. \A c \in DOMAIN blocks : blocks'[c].fn = blocks[c].fn
  BY <1>2, <1>5 DEF Shape
<1>10. JumpsWithin(blocks', t, fn)
  BY <1>3, <1>4, <1>8, <1>9 DEF JumpsWithin, Own
<1>11. \A i \in 1 .. Len(none) : JumpsWithin(blocks', none[i].term, none[i].fn)
  BY <1>6
<1>12. TargetsOwn' /\ blocks' \in Seq(BasicBlock) /\ BlocksKept
  BY <1>5, <1>6, <1>10, <1>11, BlocksGrow
<1>13. QED BY <1>2, <1>7, <1>8, <1>12

LEMMA ThenEndsKeeps ==
  ASSUME ProgramOK, CompilerOK, UNCHANGED prog, ThenEnds
  PROVE  CompilerOK'
<1>1. /\ open # << >> /\ Head(open) = open[1] /\ open[1] \in Open
      /\ open[1].line \in DOMAIN prog /\ open[1].line < next /\ OpenStatement(1, open[1])
      /\ End(open[1].line) <= next /\ next \in Nat \ {0}
  BY OverIs DEF ThenEnds, Closing
<1>2. /\ Kind(open[1].line) = "if" /\ open[1].else # 0
      /\ block' = open[1].else /\ blocks' = EndedBy(Br(open[1].merge))
      /\ UNCHANGED <<fn, exits, conts>>
  BY <1>1 DEF ThenEnds, Closing
<1>3. Own(open[1].merge) /\ Own(open[1].else)
  BY <1>1, <1>2 DEF OpenStatement
<1>4. PICK o : o = IF HasElse(open[1].line) THEN [open[1] EXCEPT !.line = End(open[1].line)]
                   ELSE [open[1] EXCEPT !.else = 0]
  OBVIOUS
<1>5. /\ open' = <<o>> \o Tail(open)
      /\ HasElse(open[1].line) => next' = next + 1
      /\ ~HasElse(open[1].line) => next' = next
  BY <1>1, <1>4 DEF ThenEnds
<1>6. next' \in Nat \ {0} /\ next' >= next
  BY <1>1, <1>5
<1>7. /\ o \in Open /\ o.merge = open[1].merge /\ o.line \in DOMAIN prog /\ o.line < next'
      /\ open[1].line <= o.line /\ Kind(o.line) \in {"if", "else"}
      /\ o.else = 0 \/ Kind(o.line) = "else"
  <2>1. PICK p \in Open : p = open[1]
    BY <1>1
  <2>2. /\ Len(prog) \in Nat /\ DOMAIN prog = 1 .. Len(prog) /\ Len(prog) <= MaxLines
        /\ MaxLines \in Nat /\ p.line \in DOMAIN prog /\ prog \in Seq(Line)
    BY <1>1, <2>1, Lines, BoundsAssumption DEF ProgramOK
  <2>3. CASE HasElse(p.line)
    <3>1. /\ End(p.line) \in Nat /\ p.line < End(p.line) /\ End(p.line) <= Len(prog)
          /\ Kind(End(p.line)) = "else"
      BY <2>2, <2>3, EndIs DEF HasElse
    <3>2. o = [p EXCEPT !.line = End(p.line)]
      BY <1>4, <2>1, <2>3
    <3>3. PICK e \in 1 .. MaxLines : e = End(p.line)
      BY <2>2, <3>1
    <3>4. o \in Open /\ o.merge = p.merge /\ o.line = e
      BY <3>2, <3>3 DEF Open
    <3>5. e \in DOMAIN prog /\ p.line <= e
      BY <2>2, <3>1, <3>3
    <3>6. e < next'
      BY <1>1, <1>5, <2>1, <2>3, <3>3
    <3>7. QED BY <2>1, <3>1, <3>3, <3>4, <3>5, <3>6
  <2>4. CASE ~HasElse(p.line)
    <3>1. o = [p EXCEPT !.else = 0]
      BY <1>4, <2>1, <2>4
    <3>2. o \in Open /\ o.merge = p.merge /\ o.line = p.line /\ o.else = 0
      BY <3>1 DEF Open
    <3>3. p.line <= p.line
      BY <2>2
    <3>4. QED BY <1>1, <1>2, <1>5, <2>1, <2>2, <2>4, <3>2, <3>3
  <2>5. QED BY <2>3, <2>4
<1>8. /\ TargetsOwn' /\ blocks' \in Seq(BasicBlock) /\ BlocksKept
      /\ DOMAIN blocks' = DOMAIN blocks
      /\ \A c \in DOMAIN blocks' : blocks'[c].term.op = "none" => Owing(c)
  BY <1>2, <1>3, Closed
<1>9. OpenOK' /\ open' \in Seq(Open)
  BY <1>1, <1>2, <1>5, <1>6, <1>7, <1>8, OpenTurned
<1>10. LoopStacks'
  <2>1. Kind(open[1].line) \notin Loops /\ Kind(o.line) \notin Loops
    BY <1>2, <1>7 DEF Loops
  <2>2. OpenLoops' = OpenLoops
    BY <1>1, <1>5, <1>7, <2>1, LoopsTurned
  <2>3. QED BY <1>2, <1>8, <2>2, StacksKept
<1>11. OwedOrEnded'
  <2>1. SUFFICES ASSUME NEW c \in DOMAIN blocks', blocks'[c].term.op = "none", c # block'
                 PROVE  Owing(c)'
    BY DEF OwedOrEnded
  <2>2. Owes(open[1], c) \/ Owing(c)'
    BY <1>1, <1>5, <1>7, <1>8, <2>1, OwingTurned
  <2>3. Owes(open[1], c) => c = open[1].merge
    BY <1>2, <2>1 DEF Owes
  <2>4. Owes(open[1], c) => Owes(o, c)
    BY <1>7, <2>3 DEF Owes
  <2>5. QED BY <1>1, <1>5, <1>7, <2>2, <2>4, OwingTurned
<1>12. BlocksOK' /\ Own(block)'
  BY <1>2, <1>3, <1>8 DEF BlocksOK, Own, BlocksKept
<1>13. fn' \in 0 .. MaxLines
  BY <1>2 DEF CompilerOK
<1>14. QED BY <1>6, <1>8, <1>9, <1>10, <1>11, <1>12, <1>13 DEF CompilerOK

\* A statement, but no function, is over.
LEMMA ClosingKeeps ==
  ASSUME ProgramOK, CompilerOK, UNCHANGED <<prog, next, fn>>, BodyOver,
         Kind(open[1].line) # "fn", Kind(open[1].line) = "if" => open[1].else = 0,
         NEW b, Own(b), blocks' = EndedBy(Br(b)),
         block' = open[1].merge, open' = Tail(open),
         Kind(open[1].line) \in Loops => exits' = Front(exits) /\ conts' = Front(conts),
         Kind(open[1].line) \notin Loops => UNCHANGED <<exits, conts>>
  PROVE  CompilerOK'
<1>1. /\ open # << >> /\ open[1] \in Open /\ OpenStatement(1, open[1]) /\ next \in Nat \ {0}
  BY OverIs
<1>2. Own(open[1].merge)
  BY <1>1 DEF OpenStatement
<1>3. /\ TargetsOwn' /\ blocks' \in Seq(BasicBlock) /\ BlocksKept
      /\ DOMAIN blocks' = DOMAIN blocks
      /\ \A c \in DOMAIN blocks' : blocks'[c].term.op = "none" => Owing(c)
  BY Closed
<1>4. OpenOK' /\ open' \in Seq(Open)
  BY <1>1, <1>3, OpenPopped
<1>5. LoopStacks'
  <2>1. CASE Kind(open[1].line) \in Loops
    <3>1. open[1].line \in OpenLoops /\ OpenLoops' = OpenLoops \ {open[1].line}
      BY <1>1, <2>1, LoopsPopped
    <3>2. QED BY <1>3, <2>1, <3>1, StacksPopped
  <2>2. CASE Kind(open[1].line) \notin Loops
    <3>1. OpenLoops' = OpenLoops
      BY <1>1, <2>2, LoopsPopped
    <3>2. QED BY <1>3, <2>2, <3>1, StacksKept
  <2>3. QED BY <2>1, <2>2
<1>6. OwedOrEnded'
  <2>1. SUFFICES ASSUME NEW c \in DOMAIN blocks', blocks'[c].term.op = "none", c # block'
                 PROVE  Owing(c)'
    BY DEF OwedOrEnded
  <2>2. Owes(open[1], c) \/ Owing(c)'
    BY <1>1, <1>3, <2>1, OwingPopped
  <2>3. c # 0
    <3>1. BlocksOK
      BY DEF CompilerOK
    <3>2. QED BY <1>3, <2>1, <3>1, BlockFacts
  <2>4. QED BY <2>1, <2>2, <2>3 DEF Owes
<1>7. BlocksOK' /\ Own(block)'
  BY <1>2, <1>3 DEF BlocksOK, Own, BlocksKept
<1>8. QED BY <1>1, <1>3, <1>4, <1>5, <1>6, <1>7 DEF CompilerOK

LEMMA BranchClosesKeeps ==
  ASSUME ProgramOK, CompilerOK, UNCHANGED prog, BranchCloses
  PROVE  CompilerOK'
<1>1. BodyOver /\ Head(open) = open[1] /\ OpenStatement(1, open[1])
  BY OverIs DEF BranchCloses, Closing
<1>2. /\ Kind(open[1].line) \in {"if", "else", "catch"}
      /\ Kind(open[1].line) = "if" => open[1].else = 0
      /\ blocks' = EndedBy(Br(open[1].merge)) /\ block' = open[1].merge
      /\ open' = Tail(open) /\ UNCHANGED <<next, fn, exits, conts>>
  BY <1>1 DEF BranchCloses, Closing
<1>3. Kind(open[1].line) \notin Loops /\ Kind(open[1].line) # "fn"
  BY <1>2 DEF Loops
<1>4. Own(open[1].merge)
  BY <1>1, <1>3 DEF OpenStatement
<1>5. QED BY <1>1, <1>2, <1>3, <1>4, ClosingKeeps

LEMMA LoopClosesKeeps ==
  ASSUME ProgramOK, CompilerOK, UNCHANGED prog, LoopCloses
  PROVE  CompilerOK'
<1>1. BodyOver /\ Head(open) = open[1] /\ OpenStatement(1, open[1])
  BY OverIs DEF LoopCloses, Closing
<1>2. /\ Kind(open[1].line) \in Loops
      /\ blocks' = EndedBy(Br(open[1].else)) /\ block' = open[1].merge
      /\ open' = Tail(open) /\ UNCHANGED <<next, fn>>
      /\ exits' = Front(exits) /\ conts' = Front(conts)
  BY <1>1 DEF LoopCloses, Closing
<1>3. Kind(open[1].line) \notin {"if", "fn"}
  BY <1>2 DEF Loops
<1>4. Own(open[1].else)
  BY <1>1, <1>2 DEF OpenStatement
<1>5. QED BY <1>1, <1>2, <1>3, <1>4, ClosingKeeps

\* Functions are defined at top level (Plain): nothing is open.
LEMMA FuncDefKeeps ==
  ASSUME ProgramOK, CompilerOK, UNCHANGED prog, FuncDef
  PROVE  CompilerOK'
<1>1. /\ next \in DOMAIN prog /\ next \in 1 .. MaxLines /\ fn \in 0 .. MaxLines /\ BlocksOK
      /\ Kind(next) = "fn" /\ prog \in Seq(Line) /\ Own(block) /\ next + 1 \in Nat \ {0}
      /\ open # << >> => Indent(next) > Indent(open[1].line)
  BY CompilingIs DEF FuncDef
<1>2. open = << >> /\ DOMAIN open = {} /\ open \in Seq(Open)
  <2>1. Indent(next) = 0
    BY <1>1 DEF ProgramOK, Plain
  <2>2. SUFFICES open = << >>
    OBVIOUS
  <2>3. SUFFICES ASSUME open # << >> PROVE FALSE
    OBVIOUS
  <2>4. Indent(next) > Indent(open[1].line) /\ open[1].line \in DOMAIN prog
    BY <1>1, <2>3, OpenFacts
  <2>5. Indent(open[1].line) \in Nat
    BY <1>1, <2>4, Lines
  <2>6. QED BY <2>1, <2>4, <2>5
<1>3. PICK n \in Nat : n = Len(blocks) /\ DOMAIN blocks = 1 .. n
  BY <1>1, BlockFacts
<1>4. PICK x \in BasicBlock : /\ x = NewBlock(next, NoTerm) /\ x.fn = next /\ x.term = NoTerm
                              /\ NoTerm.op = "none"
  <2>1. next \in 0 .. MaxLines /\ 0 \in 0 .. MaxLines /\ 0 \in Nat
    BY <1>1, BoundsAssumption
  <2>2. NoTerm \in Term /\ NoTerm.op = "none"
    BY <2>1, Terms DEF NoTerm
  <2>3. QED BY <2>1, <2>2, NewBlocks
<1>5. PICK new : new = <<x>>
  OBVIOUS
<1>6. new \in Seq(BasicBlock) /\ Len(new) = 1 /\ new[1] = x
  BY <1>5
<1>7. PICK o : o = Opened(next, 0, block, fn)
  OBVIOUS
<1>8. o \in Open /\ o.line = next /\ o.merge = block /\ o.fn = fn
  <2>1. block \in Nat
    BY <1>1, <1>3 DEF BlocksOK
  <2>2. QED BY <1>1, <1>7, <2>1, OpenedIs
<1>9. /\ blocks' = blocks \o new /\ block' = n + 1 /\ open' = <<o>> \o open /\ fn' = next
      /\ next' = next + 1 /\ UNCHANGED <<exits, conts>> /\ ~Terminated
  <2>1. blocks' = Append(blocks, x)
    BY <1>4 DEF FuncDef
  <2>2. Append(blocks, x) = blocks \o <<x>>
    BY <1>1, <1>4, AppendIsConcat DEF BlocksOK
  <2>3. QED BY <1>3, <1>5, <1>7, <2>1, <2>2 DEF FuncDef
<1>10. PICK t : t = blocks[block].term
  OBVIOUS
<1>11. Shape(blocks, t) /\ t.op = "none"
  BY <1>1, <1>9, <1>10 DEF Shape, BlocksOK, Terminated
<1>12. TargetsOwn' /\ blocks' \in Seq(BasicBlock) /\ BlocksKept
  <2>1. /\ JumpsWithin(blocks', t, fn)
        /\ \A i \in 1 .. Len(new) : JumpsWithin(blocks', new[i].term, new[i].fn)
    BY <1>4, <1>6, <1>11 DEF JumpsWithin
  <2>2. QED BY <1>6, <1>9, <1>11, <2>1, BlocksGrow
<1>13. /\ DOMAIN blocks' = 1 .. n + 1 /\ blocks'[n + 1] = x
       /\ \A b \in 1 .. n : blocks'[b].fn = blocks[b].fn /\ blocks'[b].term = blocks[b].term
  <2>1. BlocksOK /\ new \in Seq(BasicBlock)
    BY <1>1, <1>6
  <2>2. PICK bs : bs = blocks \o new
    OBVIOUS
  <2>3. Longer(bs, t, new)
    BY <1>11, <2>1, <2>2, LengthenedBy
  <2>4. Len(blocks) = n /\ Len(new) = 1 /\ new[1] = x
    BY <1>3, <1>6
  <2>5. DOMAIN bs = 1 .. n + 1 /\ bs[n + 1] = x
    BY <2>3, <2>4 DEF Longer
  <2>6. ASSUME NEW b \in 1 .. n
        PROVE  bs[b].fn = blocks[b].fn /\ bs[b].term = blocks[b].term
    <3>1. /\ bs[b].fn = blocks[b].fn
          /\ b = block /\ ~Terminated => bs[b].term = t
          /\ b # block \/ Terminated => bs[b].term = blocks[b].term
      BY <2>3, <2>4 DEF Longer
    <3>2. QED BY <1>10, <3>1
  <2>7. blocks' = bs
    BY <1>9, <2>2
  <2>8. QED BY <2>5, <2>6, <2>7
<1>14. open' \in Seq(Open) /\ DOMAIN open' = {1} /\ open'[1] = o /\ Len(open)' = 1
  <2>1. open' = <<o>>
    BY <1>2, <1>9
  <2>2. QED BY <1>8, <2>1
<1>15. OpenOK'
  <2>1. SUFFICES ASSUME NEW m, m = 1 PROVE OpenStatement(m, o)'
    BY <1>14 DEF OpenOK
  <2> PICK i : i = next
    OBVIOUS
  <2>2. Kind(i)' = "fn" /\ i < i + 1 /\ o.line = i /\ next' = i + 1 /\ i \in DOMAIN prog'
    BY <1>1, <1>8, <1>9 DEF Kind
  <2>3. block \in DOMAIN blocks' /\ blocks'[block].fn = fn
    BY <1>1, <1>12 DEF Own, BlocksKept
  <2>4. \A j \in DOMAIN open' : ~(m < j)
    BY <1>14, <2>1
  <2>5. Kind(i)' \notin Loops /\ Kind(i)' # "if"
    BY <2>2 DEF Loops
  <2>6. QED BY <1>8, <1>14, <2>1, <2>2, <2>3, <2>4, <2>5 DEF OpenStatement
<1>16. LoopStacks'
  <2>1. OpenLoops = {}
    BY <1>2 DEF OpenLoops
  <2>2. OpenLoops' = OpenLoops
    <3>1. Kind(next) \notin Loops
      BY <1>1 DEF Loops
    <3>2. QED BY <1>1, <1>8, <1>9, <3>1, LoopsPushed
  <2>3. LoopStacks /\ Cardinality(OpenLoops) = 0
    BY <2>1, FS_EmptySet DEF CompilerOK
  <2>4. DOMAIN exits = {} /\ DOMAIN conts = {}
    BY <2>3, LenProperties DEF LoopStacks
  <2>5. QED BY <1>9, <2>2, <2>3, <2>4 DEF LoopStacks
<1>17. OwedOrEnded'
  <2>1. SUFFICES ASSUME NEW c \in DOMAIN blocks', blocks'[c].term.op = "none", c # block'
                 PROVE  Owing(c)'
    BY DEF OwedOrEnded
  <2>2. c \in 1 .. n /\ blocks[c].term.op = "none"
    <3>1. c \in 1 .. n
      BY <1>9, <1>13, <2>1
    <3>2. blocks'[c].term = blocks[c].term
      BY <1>13, <3>1
    <3>3. QED BY <2>1, <3>1, <3>2
  <2>3. c = block \/ Owing(c)
    BY <1>3, <2>2 DEF CompilerOK, OwedOrEnded
  <2>4. ~Owing(c)
    BY <1>2 DEF Owing
  <2>5. Owes(o, c)
    BY <1>8, <2>3, <2>4 DEF Owes
  <2>6. QED BY <1>8, <1>9, <2>5, OwingPushed
<1>18. BlocksOK' /\ Own(block)' /\ fn' \in 0 .. MaxLines
  <2>1. n + 1 \in DOMAIN blocks' /\ blocks'[n + 1].fn = next
    BY <1>4, <1>13
  <2>2. next \in 0 .. MaxLines
    BY <1>1
  <2>3. QED BY <1>9, <1>12, <2>1, <2>2 DEF BlocksOK, Own
<1>19. QED BY <1>1, <1>9, <1>12, <1>14, <1>15, <1>16, <1>17, <1>18 DEF CompilerOK

LEMMA FuncClosesKeeps ==
  ASSUME ProgramOK, CompilerOK, UNCHANGED prog, FuncCloses
  PROVE  CompilerOK'
<1>1. /\ open # << >> /\ Head(open) = open[1] /\ open[1] \in Open
      /\ open[1].line \in DOMAIN prog /\ OpenStatement(1, open[1]) /\ next \in Nat \ {0}
  BY OverIs DEF FuncCloses, Closing
<1>2. /\ Kind(open[1].line) = "fn" /\ blocks' = EndedBy(Ret(0)) /\ block' = open[1].merge
      /\ fn' = open[1].fn /\ open' = Tail(open) /\ UNCHANGED <<next, exits, conts>>
  BY <1>1 DEF FuncCloses, Closing
<1>3. 1 = Len(open) /\ open[1].merge \in DOMAIN blocks /\ blocks[open[1].merge].fn = open[1].fn
  BY <1>1, <1>2 DEF OpenStatement
<1>4. open' \in Seq(Open) /\ DOMAIN open' = {} /\ DOMAIN open = {1}
  <2>1. open \in Seq(Open)
    BY DEF CompilerOK
  <2>2. open' \in Seq(Open) /\ DOMAIN open' = 1 .. Len(open) - 1 /\ DOMAIN open = 1 .. Len(open)
    BY <1>1, <1>2, <2>1, Popped, LenProperties
  <2>3. 1 .. 1 - 1 = {} /\ 1 .. 1 = {1}
    OBVIOUS
  <2>4. QED BY <1>3, <2>2, <2>3
<1>5. PICK t \in Term : t = Ret(0) /\ t.op = "ret"
  <2>1. 0 \in 0 .. MaxLines /\ 0 \in Nat
    BY BoundsAssumption
  <2>2. QED BY <2>1, Terms DEF Ret
<1>6. BlocksOK /\ Shape(blocks', t)
  BY <1>2, <1>5, EndedIs DEF CompilerOK
<1>7. PICK none \in Seq(BasicBlock) : blocks' = blocks' \o none /\ Len(none) = 0
  <2>1. << >> \in Seq(BasicBlock) /\ Len(<< >>) = 0
    OBVIOUS
  <2>2. blocks' = blocks' \o << >>
    BY <1>6, ConcatEmptySeq DEF Shape
  <2>3. QED BY <2>1, <2>2
<1>8. TargetsOwn' /\ blocks' \in Seq(BasicBlock) /\ BlocksKept
  <2>1. JumpsWithin(blocks', t, fn) /\ \A i \in 1 .. Len(none) : JumpsWithin(blocks', none[i].term, none[i].fn)
    BY <1>5, <1>7 DEF JumpsWithin
  <2>2. QED BY <1>6, <1>7, <2>1, BlocksGrow
<1>9. \A c \in DOMAIN blocks' : blocks'[c].term.op = "none" => Owing(c)
  <2>1. /\ DOMAIN blocks' = 1 .. Len(blocks) + Len(none)
        /\ \A c \in 1 .. Len(blocks) : blocks'[c].term.op = "none" => Owing(c)
        /\ Len(blocks) \in Nat
    BY <1>5, <1>6, <1>7, OwedLeft
  <2>2. QED BY <1>7, <2>1
<1>10. OpenOK'
  BY <1>4 DEF OpenOK
<1>11. LoopStacks'
  <2>1. Kind(open[1].line) \notin Loops
    BY <1>2 DEF Loops
  <2>2. OpenLoops = {} /\ OpenLoops' = OpenLoops
    <3>1. OpenLoops = {}
      BY <1>4, <2>1 DEF OpenLoops
    <3>2. QED BY <1>1, <1>2, <2>1, <3>1, LoopsPopped
  <2>3. LoopStacks /\ Cardinality(OpenLoops) = 0
    BY <2>2, FS_EmptySet DEF CompilerOK
  <2>4. DOMAIN exits = {} /\ DOMAIN conts = {}
    BY <2>3, LenProperties DEF LoopStacks
  <2>5. QED BY <1>2, <2>2, <2>3, <2>4 DEF LoopStacks
<1>12. OwedOrEnded'
  <2>1. SUFFICES ASSUME NEW c \in DOMAIN blocks', blocks'[c].term.op = "none" PROVE c = block'
    BY DEF OwedOrEnded
  <2>2. Owing(c)
    BY <1>9, <2>1
  <2>3. Owes(open[1], c)
    BY <1>4, <2>2 DEF Owing
  <2>4. QED BY <1>2, <2>3 DEF Owes
<1>13. BlocksOK' /\ Own(block)' /\ fn' \in 0 .. MaxLines
  <2>1. open[1].fn \in 0 .. MaxLines
    BY <1>1 DEF Open
  <2>2. QED BY <1>2, <1>3, <1>8, <2>1 DEF BlocksOK, Own, BlocksKept
<1>14. QED BY <1>1, <1>2, <1>4, <1>8, <1>10, <1>11, <1>12, <1>13 DEF CompilerOK

LEMMA CompileKeeps ==
  ASSUME ProgramOK, CompilerOK, UNCHANGED prog, Compile
  PROVE  CompilerOK'
BY SkipKeeps, EffectKeeps, JumpKeeps, ReturnKeeps, IfKeeps, CatchKeeps, ThenEndsKeeps,
   BranchClosesKeeps, WhileKeeps, ForKeeps, LoopClosesKeeps, FuncDefKeeps, FuncClosesKeeps,
   MainEndsKeeps DEF Compile

LEMMA CompilerStarts ==
  ASSUME InitCodeGen
  PROVE  CompilerOK
<1>1. /\ next = 1 /\ fn = 0 /\ block = 1 /\ blocks = <<NewBlock(0, NoTerm)>>
      /\ exits = << >> /\ conts = << >> /\ open = << >>
  BY DEF InitCodeGen
<1>2. 0 \in 0 .. MaxLines /\ next \in Nat \ {0}
  BY <1>1, BoundsAssumption
<1>3. PICK x \in BasicBlock : x = NewBlock(0, NoTerm) /\ x.fn = 0 /\ x.term.op = "none"
  BY <1>2, Terms, NewBlocks DEF NoTerm
<1>4. blocks \in Seq(BasicBlock) /\ DOMAIN blocks = {1} /\ blocks[1] = x
  <2>1. blocks = <<x>>
    BY <1>1, <1>3
  <2>2. QED BY <2>1
<1>5. open \in Seq(Open) /\ DOMAIN open = {} /\ exits \in Seq(Nat) /\ conts \in Seq(Nat)
      /\ Len(exits) = 0 /\ Len(conts) = 0 /\ DOMAIN exits = {} /\ DOMAIN conts = {}
  BY <1>1
<1>6. Own(block) /\ BlocksOK
  BY <1>1, <1>3, <1>4 DEF Own, BlocksOK
<1>7. OwedOrEnded /\ TargetsOwn
  BY <1>1, <1>3, <1>4 DEF OwedOrEnded, TargetsOwn, JumpsWithin
<1>8. OpenOK
  BY <1>5 DEF OpenOK
<1>9. LoopStacks
  <2>1. OpenLoops = {}
    BY <1>5 DEF OpenLoops
  <2>2. QED BY <1>5, <2>1, FS_EmptySet DEF LoopStacks
<1>10. QED BY <1>1, <1>2, <1>5, <1>6, <1>7, <1>8, <1>9 DEF CompilerOK

\* A program that stays as it is.
LEMMA ProgramSame ==
  ASSUME UNCHANGED prog
  PROVE  /\ \A i : /\ Kind(i)' = Kind(i) /\ Indent(i)' = Indent(i) /\ End(i)' = End(i)
                   /\ Enclosing(i)' = Enclosing(i) /\ FunctionOf(i)' = FunctionOf(i)
                   /\ LoopsAround(i)' = LoopsAround(i)
         /\ Functions' = Functions
         /\ ProgramOK' <=> ProgramOK
<1>1. prog' = prog
  OBVIOUS
<1>2. \A i : Kind(i)' = Kind(i) /\ Indent(i)' = Indent(i)
  BY DEF Kind, Indent
<1>3. \A i : End(i)' = End(i)
  BY <1>1 DEF End, Indent
<1>4. \A i : Enclosing(i)' = Enclosing(i)
  BY <1>3 DEF Enclosing
<1>5. Functions' = Functions
  BY <1>1, <1>2 DEF Functions
<1>6. \A i : FunctionOf(i)' = FunctionOf(i)
  BY <1>1 DEF FunctionOf, Functions, Enclosing, End, Kind, Indent
<1>7. \A i : LoopsAround(i)' = LoopsAround(i)
  BY <1>2, <1>4, <1>6 DEF LoopsAround
<1>8. ProgramOK' <=> ProgramOK
  BY <1>1, <1>2, <1>7 DEF ProgramOK, Plain
<1>9. QED BY <1>2, <1>3, <1>4, <1>5, <1>6, <1>7, <1>8

LEMMA CompilerSame ==
  ASSUME CompilerOK, UNCHANGED codegen, UNCHANGED prog \/ open = << >>
  PROVE  CompilerOK'
<1>1. UNCHANGED <<next, fn, block, blocks, exits, conts, open>>
  BY DEF codegen
<1>2. \A b : (Own(b)' <=> Own(b)) /\ (Owing(b)' <=> Owing(b))
  BY <1>1 DEF Own, Owing, Owes, Kind
<1>3. OpenLoops' = OpenLoops
  BY <1>1 DEF OpenLoops, Kind
<1>4. LoopStacks'
  BY <1>1, <1>3 DEF CompilerOK, LoopStacks, Own
<1>5. OpenOK'
  BY <1>1, <1>2 DEF CompilerOK, OpenOK, OpenStatement, Kind
<1>6. OwedOrEnded' /\ TargetsOwn' /\ BlocksOK' /\ Own(block)'
  BY <1>1, <1>2 DEF CompilerOK, OwedOrEnded, TargetsOwn, BlocksOK, Own, JumpsWithin
<1>7. QED BY <1>1, <1>4, <1>5, <1>6 DEF CompilerOK

LEMMA CInvInit == Init => CInv
<1>1. SUFFICES ASSUME Init PROVE CInv
  OBVIOUS
<1>2. CompilerOK
  BY <1>1, CompilerStarts DEF Init
<1>3. prog \in Seq(Line) /\ Len(prog) <= MaxLines /\ DOMAIN prog = {}
  BY <1>1, BoundsAssumption DEF Init
<1>4. QED BY <1>1, <1>2, <1>3 DEF CInv, ProgramOK, Plain, Init

LEMMA CInvStep == CInv /\ [Next]_vars => CInv'
<1>1. SUFFICES ASSUME CInv, [Next]_vars PROVE CInv'
  OBVIOUS
<1>2. ProgramOK /\ CompilerOK /\ (phase = "write" => InitCodeGen)
  BY <1>1 DEF CInv
<1>3. ASSUME UNCHANGED <<prog, codegen>>, phase' = "write" => phase = "write"
      PROVE  CInv'
  <2>1. ProgramOK' /\ CompilerOK' /\ (InitCodeGen => InitCodeGen')
    BY <1>2, <1>3, ProgramSame, CompilerSame DEF codegen, InitCodeGen
  <2>2. QED BY <1>2, <1>3, <2>1 DEF CInv
<1>4. CASE Writing(Plain')
  <2>1. /\ phase = "write" /\ UNCHANGED <<codegen, phase>> /\ Plain'
        /\ \E l \in Line : prog' = Append(prog, l) /\ Len(prog) < MaxLines
    BY <1>4 DEF Writing, Write
  <2>2. prog' \in Seq(Line) /\ Len(prog') = Len(prog) + 1
    BY <1>2, <2>1, AppendProperties DEF ProgramOK
  <2>3. ProgramOK'
    BY <1>2, <2>1, <2>2, LenProperties, BoundsAssumption DEF ProgramOK
  <2>4. InitCodeGen'
    BY <1>2, <2>1 DEF InitCodeGen, codegen
  <2>5. CompilerOK'
    BY <1>2, <2>1, CompilerSame DEF InitCodeGen
  <2>6. QED BY <2>1, <2>3, <2>4, <2>5 DEF CInv
<1>5. CASE Submit(EndsPlainly)
  <2>1. UNCHANGED <<prog, codegen>> /\ phase' # "write"
    BY <1>5 DEF Submit
  <2>2. QED BY <1>3, <2>1
<1>6. CASE Compiling1
  <2>1. UNCHANGED <<prog, phase>> /\ Compile /\ phase # "write"
    BY <1>6 DEF Compiling1
  <2>2. CompilerOK'
    BY <1>2, <2>1, CompileKeeps
  <2>3. ProgramOK'
    BY <1>2, <2>1, ProgramSame
  <2>4. QED BY <2>1, <2>2, <2>3 DEF CInv
<1>7. CASE StartEvaluation \/ Evaluating \/ StartRun \/ Execute \/ Finished
  <2>1. UNCHANGED <<prog, codegen>> /\ (phase' = "write" => phase = "write")
    BY <1>7 DEF StartEvaluation, Evaluating, StartRun, Execute, Finished, vars, Run,
       Do, StartLoop, StepLoop, Goto, Branch, BranchOnCount, ReturnTo, Exit
  <2>2. QED BY <1>3, <2>1
<1>8. CASE UNCHANGED vars
  BY <1>3, <1>8 DEF vars
<1>9. QED BY <1>1, <1>4, <1>5, <1>6, <1>7, <1>8 DEF Next, Work

\* The code that is generated is a module that LLVM accepts: every block ends, and
\* jumps within its function, whatever statements are nested in each other and
\* wherever break, continue and return end a block early.
THEOREM CodeGenModuleIsValid == Spec => []ModuleIsValid
<1>1. ASSUME CInv PROVE ModuleIsValid
  <2>1. SUFFICES ASSUME Compiled, Terminated, NEW b \in DOMAIN blocks
                 PROVE  /\ blocks[b].term.op # "none"
                        /\ blocks[b].term.op # "ret" =>
                             {blocks[b].term.yes, blocks[b].term.no} \subseteq
                               {c \in DOMAIN blocks : blocks[c].fn = blocks[b].fn}
    BY DEF ModuleIsValid
  <2>2. open = << >> /\ OwedOrEnded /\ TargetsOwn
    BY <1>1, <2>1 DEF Compiled, CInv, CompilerOK
  <2>3. blocks[b].term.op # "none"
    <3>1. SUFFICES ASSUME blocks[b].term.op = "none" PROVE FALSE
      OBVIOUS
    <3>2. b = block \/ Owing(b)
      BY <2>2, <3>1 DEF OwedOrEnded
    <3>3. ~Owing(b)
      BY <2>2 DEF Owing
    <3>4. QED BY <2>1, <3>1, <3>2, <3>3 DEF Terminated
  <2>4. JumpsWithin(blocks, blocks[b].term, blocks[b].fn)
    BY <2>2 DEF TargetsOwn
  <2>5. QED BY <2>3, <2>4 DEF JumpsWithin
<1>2. QED BY <1>1, CInvInit, CInvStep, PTL DEF Spec

-----------------------------------------------------------------------------
(* How the lines of a program are nested.                                  *)

\* The headers that the lines of o's block are inside of, and where the block
\* ends; the program is the block of 0.
Inside(o) == IF o = 0 THEN {} ELSE {o} \cup Enclosing(o)
Limit(o) == IF o = 0 THEN Len(prog) + 1 ELSE End(o)

LEMMA EnclosingIs ==
  ASSUME prog \in Seq(Line), NEW i \in DOMAIN prog, NEW j
  PROVE  /\ j \in Enclosing(i) <=> j \in DOMAIN prog /\ j < i /\ i < End(j)
         /\ i \notin Enclosing(i) /\ i \in Nat
<1>1. Len(prog) \in Nat /\ DOMAIN prog = 1 .. Len(prog)
  BY Lines
<1>2. QED BY <1>1 DEF Enclosing

LEMMA Nested ==
  ASSUME prog \in Seq(Line), NEW i \in DOMAIN prog, NEW j \in Enclosing(i)
  PROVE  End(i) <= End(j) /\ Indent(i) > Indent(j)
<1>1. j \in DOMAIN prog /\ j < i /\ i < End(j) /\ i \in Nat /\ j \in Nat
  BY EnclosingIs, Lines
<1>2. /\ End(j) \in Nat
      /\ End(j) <= Len(prog) => End(j) \in DOMAIN prog /\ Indent(End(j)) <= Indent(j)
      /\ \A k \in j + 1 .. End(j) - 1 : Indent(k) > Indent(j)
  BY <1>1, EndIs
<1>3. Indent(i) > Indent(j)
  <2>1. i \in j + 1 .. End(j) - 1
    BY <1>1, <1>2
  <2>2. QED BY <1>2, <2>1
<1>4. End(j) <= Len(prog) => Indent(End(j)) <= Indent(i)
  <2>1. HAVE End(j) <= Len(prog)
  <2>2. Indent(End(j)) \in Nat /\ Indent(j) \in Nat /\ Indent(i) \in Nat /\ Indent(End(j)) <= Indent(j)
    BY <1>1, <1>2, <2>1, Lines
  <2>3. QED BY <1>3, <2>2
<1>5. QED BY <1>1, <1>2, <1>3, <1>4, EndIsFirst

\* The first line of a block.
LEMMA FirstInside ==
  ASSUME prog \in Seq(Line), NEW o \in DOMAIN prog, o + 1 < End(o)
  PROVE  o + 1 \in DOMAIN prog /\ Enclosing(o + 1) = Inside(o)
<1>1. /\ Len(prog) \in Nat /\ DOMAIN prog = 1 .. Len(prog) /\ o \in Nat /\ o # 0
      /\ End(o) \in Nat /\ End(o) <= Len(prog) + 1
  BY Lines, EndIs
<1>2. PICK n \in DOMAIN prog : n = o + 1
  BY <1>1
<1>3. o \in Enclosing(n)
  BY <1>1, <1>2, EnclosingIs
<1>4. ASSUME NEW j \in Enclosing(n) PROVE j \in Inside(o)
  <2>1. j \in DOMAIN prog /\ j < n /\ n < End(j) /\ j \in Nat /\ End(j) \in Nat
    BY <1>1, <1>2, EnclosingIs, EndIs
  <2>2. j = o \/ (j < o /\ o < End(j))
    BY <1>1, <1>2, <2>1
  <2>3. QED BY <1>1, <2>1, <2>2, EnclosingIs DEF Inside
<1>5. ASSUME NEW j \in Enclosing(o) PROVE j \in Enclosing(n)
  <2>1. j \in DOMAIN prog /\ j < o /\ o < End(j) /\ j \in Nat /\ End(j) \in Nat
    BY <1>1, EnclosingIs, EndIs
  <2>2. End(o) <= End(j)
    BY Nested
  <2>3. j < n /\ n < End(j)
    BY <1>1, <1>2, <2>1, <2>2
  <2>4. QED BY <1>2, <2>1, <2>3, EnclosingIs
<1>6. QED BY <1>1, <1>2, <1>3, <1>4, <1>5 DEF Inside

\* What follows the block of a line is in the same block as the line.
LEMMA EndInside ==
  ASSUME prog \in Seq(Line), NEW i \in DOMAIN prog, NEW o, o = 0 \/ o \in DOMAIN prog,
         Enclosing(i) = Inside(o)
  PROVE  /\ i < Limit(o) /\ End(i) <= Limit(o)
         /\ End(i) < Limit(o) => End(i) \in DOMAIN prog /\ Enclosing(End(i)) = Inside(o)
<1>1. /\ Len(prog) \in Nat /\ DOMAIN prog = 1 .. Len(prog) /\ i \in Nat
      /\ End(i) \in Nat /\ i < End(i) /\ End(i) <= Len(prog) + 1
  BY Lines, EndIs
<1>2. \A j \in Enclosing(i) : j \in DOMAIN prog /\ j < i /\ i < End(j) /\ End(i) <= End(j)
  BY EnclosingIs, Nested
<1>3. o # 0 => o \in Enclosing(i)
  BY DEF Inside
<1>4. i < Limit(o) /\ End(i) <= Limit(o) /\ Limit(o) \in Nat
  <2>1. CASE o = 0
    BY <1>1, <2>1 DEF Limit
  <2>2. CASE o # 0
    BY <1>2, <1>3, <2>2, EndIs DEF Limit
  <2>3. QED BY <2>1, <2>2
<1>5. ASSUME End(i) < Limit(o) PROVE End(i) \in DOMAIN prog /\ Enclosing(End(i)) = Inside(o)
  <2>1. Limit(o) <= Len(prog) + 1
    <3>1. o # 0 => o \in DOMAIN prog
      OBVIOUS
    <3>2. QED BY <1>1, <3>1, EndIs DEF Limit
  <2>2. PICK e \in DOMAIN prog : e = End(i)
    BY <1>1, <1>4, <1>5, <2>1
  <2>3. ASSUME NEW j \in Enclosing(e) PROVE j \in Enclosing(i)
    <3>1. j \in DOMAIN prog /\ j < e /\ e < End(j) /\ j \in Nat /\ End(j) \in Nat
      BY <1>1, EnclosingIs, EndIs
    <3>2. j # i
      BY <1>1, <2>2, <3>1
    <3>3. ~(i < j)
      <4>1. SUFFICES ASSUME i < j PROVE FALSE
        OBVIOUS
      <4>2. i \in Enclosing(j)
        BY <2>2, <3>1, <4>1, EnclosingIs
      <4>3. End(j) <= End(i)
        BY <3>1, <4>2, Nested
      <4>4. QED BY <1>1, <2>2, <3>1, <4>3
    <3>4. j < i /\ i < End(j)
      BY <1>1, <2>2, <3>1, <3>2, <3>3
    <3>5. QED BY <3>1, <3>4, EnclosingIs
  <2>4. ASSUME NEW j \in Enclosing(i) PROVE j \in Enclosing(e)
    <3>1. j \in DOMAIN prog /\ j < i /\ End(i) <= End(j) /\ j \in Nat /\ End(j) \in Nat
      BY <1>1, <1>2, EndIs
    <3>2. e < End(j)
      <4>1. CASE j = o
        BY <1>1, <1>5, <2>2, <3>1, <4>1 DEF Limit
      <4>2. CASE j # o
        <5>1. o \in DOMAIN prog /\ j \in Enclosing(o) /\ o # 0
          BY <4>2, <1>1 DEF Inside
        <5>2. End(o) <= End(j) /\ End(o) \in Nat
          BY <5>1, Nested, EndIs
        <5>3. End(i) < End(o)
          BY <1>5, <5>1 DEF Limit
        <5>4. QED BY <1>1, <2>2, <3>1, <5>2, <5>3
      <4>3. QED BY <4>1, <4>2
    <3>3. j < e
      BY <1>1, <2>2, <3>1
    <3>4. QED BY <3>1, <3>2, <3>3, EnclosingIs
  <2>5. QED BY <2>2, <2>3, <2>4
<1>6. QED BY <1>4, <1>5

\* An else is in the block of its if, and so is what follows the statement.
LEMMA AfterInside ==
  ASSUME prog \in Seq(Line), NEW i \in DOMAIN prog, NEW o, o = 0 \/ o \in DOMAIN prog,
         Enclosing(i) = Inside(o)
  PROVE  /\ i < Limit(o) /\ After(i) <= Limit(o)
         /\ After(i) < Limit(o) => After(i) \in DOMAIN prog /\ Enclosing(After(i)) = Inside(o)
         /\ HasElse(i) => /\ End(i) \in DOMAIN prog /\ Enclosing(End(i)) = Inside(o)
                          /\ Kind(End(i)) = "else" /\ After(i) = End(End(i))
<1>1. /\ Len(prog) \in Nat /\ DOMAIN prog = 1 .. Len(prog) /\ i \in Nat
      /\ End(i) \in Nat /\ i < End(i) /\ End(i) <= Len(prog) + 1
      /\ End(i) <= Len(prog) => End(i) \in DOMAIN prog
  BY Lines, EndIs
<1>2. /\ i < Limit(o) /\ End(i) <= Limit(o)
      /\ End(i) < Limit(o) => End(i) \in DOMAIN prog /\ Enclosing(End(i)) = Inside(o)
  BY EndInside
<1>3. CASE ~HasElse(i)
  BY <1>2, <1>3 DEF After
<1>4. CASE HasElse(i)
  <2>1. /\ End(i) \in DOMAIN prog /\ Kind(End(i)) = "else" /\ Indent(End(i)) = Indent(i)
        /\ After(i) = End(End(i))
    BY <1>1, <1>4 DEF HasElse, After
  <2>2. End(i) < Limit(o)
    <3>1. CASE o = 0
      BY <1>1, <2>1, <3>1 DEF Limit
    <3>2. CASE o # 0
      <4>1. o \in Enclosing(i) /\ o \in DOMAIN prog /\ Limit(o) = End(o)
        BY <3>2 DEF Inside, Limit
      <4>2. End(o) \in Nat /\ Indent(i) > Indent(o) /\ Indent(i) \in Nat /\ Indent(o) \in Nat
        BY <4>1, Nested, EndIs, Lines
      <4>3. End(i) # End(o)
        <5>1. SUFFICES ASSUME End(i) = End(o) PROVE FALSE
          OBVIOUS
        <5>2. End(o) <= Len(prog)
          BY <1>1, <2>1, <5>1
        <5>3. Indent(End(o)) <= Indent(o)
          BY <4>1, <5>2, EndIs
        <5>4. QED BY <2>1, <4>2, <5>1, <5>3
      <4>4. QED BY <1>1, <1>2, <4>1, <4>2, <4>3
    <3>3. QED BY <3>1, <3>2
  <2>3. PICK e \in DOMAIN prog : e = End(i)
    BY <2>1
  <2>4. Enclosing(e) = Inside(o)
    BY <1>2, <2>2, <2>3
  <2>5. /\ End(e) <= Limit(o)
        /\ End(e) < Limit(o) => End(e) \in DOMAIN prog /\ Enclosing(End(e)) = Inside(o)
    BY <2>4, EndInside
  <2>6. QED BY <1>2, <2>1, <2>3, <2>4, <2>5
<1>5. QED BY <1>3, <1>4

LEMMA OwnerIs ==
  ASSUME prog \in Seq(Line), NEW i \in DOMAIN prog, NEW o, o = 0 \/ o \in DOMAIN prog,
         Enclosing(i) = Inside(o)
  PROVE  Owner(i) = o
<1>1. CASE o = 0
  BY <1>1 DEF Owner, Inside
<1>2. CASE o # 0
  <2>1. o \in DOMAIN prog /\ Enclosing(i) = {o} \cup Enclosing(o) /\ DOMAIN prog \subseteq Nat
    BY <1>2, Lines DEF Inside
  <2>2. \A j \in Enclosing(o) : j < o /\ j \in Nat
    BY <2>1, EnclosingIs
  <2>3. o \in Enclosing(i) /\ \A k \in Enclosing(i) : k <= o /\ k \in Nat
    BY <2>1, <2>2
  <2>4. Enclosing(i) # {}
    BY <2>3
  <2>5. PICK w \in Enclosing(i) : w = Owner(i) /\ \A k \in Enclosing(i) : k <= w
    BY <2>3, <2>4 DEF Owner
  <2>6. w <= o /\ o <= w /\ w \in Nat /\ o \in Nat
    BY <2>1, <2>3, <2>5
  <2>7. QED BY <2>5, <2>6
<1>3. QED BY <1>1, <1>2

\* The lines of a statement are deeper than it, up to its else.
LEMMA OnlyInside ==
  ASSUME prog \in Seq(Line), NEW i \in DOMAIN prog, NEW j \in DOMAIN prog,
         i < j, j < After(i), Kind(j) # "else"
  PROVE  ~(Enclosing(j) \subseteq Enclosing(i))
<1>1. End(i) \in Nat /\ i \in Nat /\ j \in Nat /\ i \notin Enclosing(i) /\ i < End(i)
  BY EndIs, EnclosingIs
<1>2. CASE j < End(i)
  BY <1>1, <1>2, EnclosingIs
<1>3. CASE ~(j < End(i))
  <2>1. HasElse(i) /\ After(i) = End(End(i))
    BY <1>1, <1>3 DEF After
  <2>2. PICK e \in DOMAIN prog : e = End(i) /\ Kind(e) = "else"
    BY <2>1, EndIs DEF HasElse
  <2>3. e # j /\ e < j
    BY <1>1, <1>3, <2>2
  <2>4. e \in Enclosing(j)
    BY <2>1, <2>2, <2>3, EnclosingIs
  <2>5. e \notin Enclosing(i)
    BY <1>1, <2>2, EnclosingIs
  <2>6. QED BY <2>4, <2>5
<1>4. QED BY <1>2, <1>3

-----------------------------------------------------------------------------
(* The frames of the interpreter.  A frame's next statement is in its       *)
(* block, or it is at the end of it; the statement whose block a frame      *)
(* executes is in the block of the frame below, which goes on behind it.    *)

FrameSet == [owner : Nat, at : Nat, left : Nat, call : Nat]

\* The next statement of a frame.
AtOK(fr) ==
  /\ fr.owner < fr.at /\ fr.at <= Limit(fr.owner)
  /\ fr.at < Limit(fr.owner) => Enclosing(fr.at) = Inside(fr.owner)

\* Frame fr is that of a block of a statement of frame below.
InBlock(fr, below) ==
  /\ Enclosing(fr.owner) = Inside(below.owner)
  /\ End(fr.owner) <= below.at
  /\ Kind(fr.owner) \in Loops => below.at = End(fr.owner)

FrameOK(fs, k) ==
  /\ fs[k].owner = 0 <=> k = Len(fs)
  /\ fs[k].owner # 0 => fs[k].owner \in DOMAIN prog
  /\ AtOK(fs[k])
  /\ fs[k].owner # 0 /\ Kind(fs[k].owner) # "fn" => InBlock(fs[k], fs[k + 1])

FramesOK(fs) == fs \in Seq(FrameSet) /\ \A k \in DOMAIN fs : FrameOK(fs, k)

LEMMA FrameFields ==
  ASSUME NEW fr \in FrameSet
  PROVE  fr.owner \in Nat /\ fr.at \in Nat /\ fr.left \in Nat /\ fr.call \in Nat
BY DEF FrameSet

LEMMA FrameFacts ==
  ASSUME NEW fs, FramesOK(fs)
  PROVE  /\ fs \in Seq(FrameSet) /\ Len(fs) \in Nat /\ DOMAIN fs = 1 .. Len(fs)
         /\ \A k \in DOMAIN fs : fs[k] \in FrameSet /\ fs[k].owner \in Nat /\ fs[k].at \in Nat
                                 /\ (fs[k].owner = 0 \/ fs[k].owner \in DOMAIN prog)
                                 /\ AtOK(fs[k])
         /\ fs # << >> => Len(fs) >= 1 /\ 1 \in DOMAIN fs /\ Head(fs) = fs[1]
<1>1. fs \in Seq(FrameSet) /\ Len(fs) \in Nat /\ DOMAIN fs = 1 .. Len(fs)
      /\ \A k \in DOMAIN fs : fs[k] \in FrameSet
  BY LenProperties, ElementOfSeq DEF FramesOK
<1>2. fs # << >> => Len(fs) >= 1 /\ 1 \in DOMAIN fs /\ Head(fs) = fs[1]
  BY <1>1, Popped
<1>3. QED BY <1>1, <1>2, FrameFields DEF FramesOK, FrameOK

\* gs is fs with x for its first frame, or with x before it.
FirstIs(x, fs, gs) ==
  /\ FramesOK(gs) /\ Len(gs) = Len(fs) /\ gs[1] = x /\ gs # << >>
  /\ \A k \in 2 .. Len(fs) : gs[k] = fs[k]

Before(x, fs, gs) ==
  /\ FramesOK(gs) /\ Len(gs) = Len(fs) + 1 /\ gs[1] = x
  /\ \A k \in 1 .. Len(fs) : gs[k + 1] = fs[k]
  /\ \A k \in 2 .. Len(gs) : k - 1 \in DOMAIN fs /\ gs[k] = fs[k - 1]

\* The innermost frame goes on in its block.
LEMMA FrameMoved ==
  ASSUME NEW fs, FramesOK(fs), fs # << >>, NEW x \in FrameSet, x.owner = fs[1].owner, AtOK(x)
  PROVE  FirstIs(x, fs, [fs EXCEPT ![1] = x])
<1> PICK gs : gs = [fs EXCEPT ![1] = x]
  OBVIOUS
<1>1. fs \in Seq(FrameSet) /\ Len(fs) \in Nat /\ DOMAIN fs = 1 .. Len(fs) /\ Len(fs) >= 1
  BY FrameFacts
<1>2. /\ gs \in Seq(FrameSet) /\ Len(gs) = Len(fs)
      /\ \A k \in 1 .. Len(fs) : gs[k] = IF k = 1 THEN x ELSE fs[k]
  <2>1. 1 \in 1 .. Len(fs)
    BY <1>1
  <2>2. QED BY <1>1, <2>1, ExceptSeq
<1>3. gs[1] = x /\ \A k \in 2 .. Len(fs) : gs[k] = fs[k]
  BY <1>1, <1>2
<1>4. DOMAIN gs = 1 .. Len(fs)
  BY <1>2, LenProperties
<1>5. ASSUME NEW k \in DOMAIN gs PROVE FrameOK(gs, k)
  <2>1. k \in 1 .. Len(fs) /\ FrameOK(fs, k)
    BY <1>1, <1>4 DEF FramesOK
  <2>2. CASE k = 1
    <3>1. gs[k] = x /\ (k + 1 \in 2 .. Len(fs) => gs[k + 1] = fs[k + 1])
      BY <1>3, <2>2
    <3>2. x.owner # 0 => k + 1 \in 2 .. Len(fs)
      BY <1>1, <2>1, <2>2 DEF FrameOK
    <3>3. QED BY <1>2, <2>1, <2>2, <3>1, <3>2 DEF FrameOK, InBlock
  <2>3. CASE k # 1
    <3>1. k \in 2 .. Len(fs) /\ gs[k] = fs[k] /\ (k + 1 \in 2 .. Len(fs) => gs[k + 1] = fs[k + 1])
      BY <1>1, <1>3, <2>1, <2>3
    <3>2. fs[k].owner # 0 => k + 1 \in 2 .. Len(fs)
      BY <1>1, <2>1, <3>1 DEF FrameOK
    <3>3. QED BY <1>2, <2>1, <3>1, <3>2 DEF FrameOK
  <2>4. QED BY <2>2, <2>3
<1>6. gs # << >>
  BY <1>1, <1>4
<1>7. QED BY <1>2, <1>3, <1>5, <1>6 DEF FramesOK, FirstIs

\* A block is entered.
LEMMA FramePushed ==
  ASSUME NEW fs, FramesOK(fs), fs # << >>, NEW x \in FrameSet, x.owner \in DOMAIN prog,
         prog \in Seq(Line), AtOK(x), Kind(x.owner) # "fn" => InBlock(x, fs[1])
  PROVE  Before(x, fs, <<x>> \o fs)
<1> PICK gs : gs = <<x>> \o fs
  OBVIOUS
<1>1. fs \in Seq(FrameSet) /\ Len(fs) \in Nat /\ DOMAIN fs = 1 .. Len(fs) /\ Len(fs) >= 1
  BY FrameFacts
<1>2. /\ gs \in Seq(FrameSet) /\ Len(gs) = Len(fs) + 1 /\ DOMAIN gs = 1 .. Len(fs) + 1
      /\ gs[1] = x
      /\ \A k \in 1 .. Len(fs) : gs[k + 1] = fs[k]
      /\ \A k \in 2 .. Len(fs) + 1 : gs[k] = fs[k - 1]
  BY <1>1, Pushed
<1>3. \A k \in 2 .. Len(gs) : k - 1 \in DOMAIN fs /\ gs[k] = fs[k - 1]
  BY <1>1, <1>2
<1>4. ASSUME NEW k \in DOMAIN gs PROVE FrameOK(gs, k)
  <2>1. CASE k = 1
    <3>1. gs[k] = x /\ gs[k + 1] = fs[1] /\ k # Len(gs) /\ x.owner # 0
      <4>1. gs[1 + 1] = fs[1]
        BY <1>1, <1>2
      <4>2. x.owner # 0
        BY Lines
      <4>3. QED BY <1>1, <1>2, <2>1, <4>1, <4>2
    <3>2. QED BY <3>1 DEF FrameOK
  <2>2. CASE k # 1
    <3>1. k \in 2 .. Len(gs)
      BY <1>1, <1>2, <2>2
    <3>2. PICK j \in DOMAIN fs : j = k - 1 /\ gs[k] = fs[j] /\ FrameOK(fs, j)
      BY <1>3, <3>1 DEF FramesOK
    <3>3. j + 1 = k /\ (j = Len(fs) <=> k = Len(gs))
      BY <1>1, <1>2, <3>2
    <3>4. j # Len(fs) => gs[k + 1] = fs[j + 1]
      <4>1. HAVE j # Len(fs)
      <4>2. k + 1 \in 2 .. Len(gs) /\ k + 1 - 1 = j + 1
        BY <1>1, <1>2, <3>1, <3>2, <4>1
      <4>3. QED BY <1>3, <4>2
    <3>5. QED BY <3>2, <3>3, <3>4 DEF FrameOK
  <2>3. QED BY <2>1, <2>2
<1>5. QED BY <1>2, <1>3, <1>4 DEF FramesOK, Before

\* A block is left.
LEMMA FramePopped ==
  ASSUME NEW fs, FramesOK(fs), fs # << >>, NEW gs, gs = Tail(fs)
  PROVE  /\ FramesOK(gs) /\ Len(gs) = Len(fs) - 1
         /\ \A k \in DOMAIN gs : k + 1 \in DOMAIN fs /\ gs[k] = fs[k + 1]
<1>1. fs \in Seq(FrameSet) /\ Len(fs) \in Nat /\ DOMAIN fs = 1 .. Len(fs) /\ Len(fs) >= 1
  BY FrameFacts
<1>2. /\ gs \in Seq(FrameSet) /\ Len(gs) = Len(fs) - 1 /\ DOMAIN gs = 1 .. Len(fs) - 1
      /\ \A k \in 1 .. Len(fs) - 1 : gs[k] = fs[k + 1] /\ k + 1 \in DOMAIN fs
  BY <1>1, Popped
<1>3. ASSUME NEW k \in DOMAIN gs PROVE FrameOK(gs, k)
  <2>1. PICK j \in DOMAIN fs : j = k + 1 /\ gs[k] = fs[j] /\ FrameOK(fs, j)
    BY <1>2 DEF FramesOK
  <2>2. k = Len(gs) <=> j = Len(fs)
    BY <1>1, <1>2, <2>1
  <2>3. j # Len(fs) => gs[k + 1] = fs[j + 1]
    <3>1. HAVE j # Len(fs)
    <3>2. k + 1 \in 1 .. Len(fs) - 1 /\ k + 1 + 1 = j + 1
      BY <1>1, <1>2, <2>1, <3>1
    <3>3. QED BY <1>2, <3>2
  <2>4. QED BY <2>1, <2>2, <2>3 DEF FrameOK
<1>4. QED BY <1>2, <1>3 DEF FramesOK

-----------------------------------------------------------------------------
(* What the interpreter is about to do.                                    *)

LEMMA Greatest ==
  ASSUME NEW n \in Nat, NEW S, S \subseteq 1 .. n, S # {}
  PROVE  \E d \in S : \A c \in S : c <= d
<1> DEFINE T == {n - c : c \in S}
<1>1. T \subseteq Nat /\ T # {}
  OBVIOUS
<1>2. PICK d \in T : \A c \in T : d <= c
  BY <1>1, Least, Zenon
<1>3. PICK e \in S : d = n - e
  OBVIOUS
<1>4. ASSUME NEW c \in S PROVE c <= e
  <2>1. d <= n - c /\ c \in Nat /\ e \in Nat
    BY <1>2
  <2>2. QED BY <1>3, <2>1
<1>5. QED BY <1>4

LEMMA ExecutingIs ==
  ASSUME prog \in Seq(Line), FramesOK(frames), Executing
  PROVE  /\ frames # << >> /\ Top = frames[1] /\ 1 \in DOMAIN frames /\ frames[1] \in FrameSet
         /\ frames[1].at \in DOMAIN prog /\ frames[1].at \in Nat
         /\ frames[1].owner \in Nat /\ (frames[1].owner = 0 \/ frames[1].owner \in DOMAIN prog)
         /\ Enclosing(frames[1].at) = Inside(frames[1].owner)
         /\ frames[1].owner < frames[1].at /\ frames[1].at < Limit(frames[1].owner)
         /\ result.is = "value"
<1>1. /\ frames # << >> /\ Top = frames[1] /\ 1 \in DOMAIN frames /\ frames[1] \in FrameSet
      /\ frames[1].at \in Nat /\ frames[1].owner \in Nat
      /\ (frames[1].owner = 0 \/ frames[1].owner \in DOMAIN prog) /\ AtOK(frames[1])
  BY FrameFacts DEF Executing, Top
<1>2. result.is = "value" /\ frames[1].at <= Len(prog) /\ Owner(frames[1].at) = frames[1].owner
  BY <1>1 DEF Executing
<1>3. PICK i \in Nat : i = frames[1].at
  BY <1>1
<1>4. PICK o \in Nat : o = frames[1].owner
  BY <1>1
<1>5. /\ i \in DOMAIN prog /\ o < i /\ i <= Limit(o) /\ (i < Limit(o) => Enclosing(i) = Inside(o))
      /\ Len(prog) \in Nat /\ DOMAIN prog = 1 .. Len(prog)
  BY <1>1, <1>2, <1>3, <1>4, Lines DEF AtOK
<1>6. i < Limit(o)
  <2>1. CASE o = 0
    BY <1>2, <1>3, <1>5, <2>1 DEF Limit
  <2>2. CASE o # 0
    <3>1. Limit(o) = End(o) /\ o \in DOMAIN prog /\ End(o) \in Nat
      BY <1>1, <1>4, <2>2, EndIs DEF Limit
    <3>2. Enclosing(i) # {} /\ Enclosing(i) \subseteq 1 .. i
      <4>1. Owner(i) # 0
        BY <1>2, <1>3, <1>4, <2>2
      <4>2. QED BY <4>1, <1>5 DEF Owner, Enclosing
    <3>3. \E d \in Enclosing(i) : \A c \in Enclosing(i) : c <= d
      BY <3>2, Greatest
    <3>4. Owner(i) \in Enclosing(i)
      BY <3>2, <3>3 DEF Owner
    <3>5. i < End(o)
      BY <1>2, <1>3, <1>4, <1>5, <3>4, EnclosingIs
    <3>6. QED BY <3>1, <3>5
  <2>3. QED BY <2>1, <2>2
<1>7. QED BY <1>1, <1>2, <1>3, <1>4, <1>5, <1>6

LEMMA EndOfBlock ==
  ASSUME prog \in Seq(Line), FramesOK(frames), frames # << >>, ~Executing, result.is = "value"
  PROVE  frames[1].at = Limit(frames[1].owner)
<1>1. /\ Top = frames[1] /\ frames[1].at \in Nat /\ frames[1].owner \in Nat
      /\ (frames[1].owner = 0 \/ frames[1].owner \in DOMAIN prog) /\ AtOK(frames[1])
  BY FrameFacts DEF Top
<1>2. SUFFICES ASSUME frames[1].at # Limit(frames[1].owner) PROVE FALSE
  OBVIOUS
<1>3. PICK i \in Nat : i = frames[1].at
  BY <1>1
<1>4. PICK o \in Nat : o = frames[1].owner
  BY <1>1
<1>5. /\ o < i /\ i <= Limit(o) /\ (i < Limit(o) => Enclosing(i) = Inside(o))
      /\ Len(prog) \in Nat /\ DOMAIN prog = 1 .. Len(prog)
  BY <1>1, <1>3, <1>4, Lines DEF AtOK
<1>6. Limit(o) \in Nat /\ Limit(o) <= Len(prog) + 1
  <2>1. o # 0 => o \in DOMAIN prog
    BY <1>1, <1>4
  <2>2. QED BY <1>5, <2>1, EndIs DEF Limit
<1>7. i < Limit(o) /\ i \in DOMAIN prog
  BY <1>2, <1>3, <1>4, <1>5, <1>6
<1>8. Owner(i) = o
  BY <1>1, <1>4, <1>5, <1>7, OwnerIs
<1>9. Executing
  BY <1>1, <1>3, <1>4, <1>5, <1>7, <1>8 DEF Executing
<1>10. QED BY <1>9

\* What becomes of the frames: gs is frames with its first frame in another
\* place, or with one more, or with one less.
Replaces(gs, o, a) ==
  /\ FramesOK(gs) /\ gs # << >> /\ Len(gs) = Len(frames)
  /\ gs[1].owner = o /\ gs[1].at = a
  /\ \A k \in 2 .. Len(frames) : gs[k] = frames[k]

GoesOn(gs) == Replaces(gs, frames[1].owner, After(frames[1].at))

TurnsBack(gs) ==
  /\ frames[1].owner \in DOMAIN prog /\ Kind(frames[1].owner) \in Loops
  /\ Replaces(gs, frames[1].owner, frames[1].owner + 1)

Enters(gs, h) ==
  /\ FramesOK(gs) /\ Len(gs) = Len(frames) + 1
  /\ h \in DOMAIN prog /\ gs[1].owner = h /\ gs[1].at = h + 1
  /\ gs[2].owner = frames[1].owner /\ gs[2].at = After(frames[1].at)
  /\ \A k \in 3 .. Len(frames) + 1 : k - 1 \in DOMAIN frames /\ gs[k] = frames[k - 1]

\* Line h is the statement that is executed, or its else.
EntersBlock(gs, h) ==
  /\ Enters(gs, h) /\ Kind(h) # "fn"
  /\ \/ h = frames[1].at
     \/ HasElse(frames[1].at) /\ h = End(frames[1].at) /\ Kind(h) = "else"

Pops(gs) ==
  /\ FramesOK(gs) /\ Len(gs) = Len(frames) - 1
  /\ \A k \in DOMAIN gs : k + 1 \in DOMAIN frames /\ gs[k] = frames[k + 1]

LEMMA AdvancedGoesOn ==
  ASSUME prog \in Seq(Line), FramesOK(frames), Executing
  PROVE  GoesOn(Advanced)
<1>1. /\ frames # << >> /\ Top = frames[1] /\ 1 \in DOMAIN frames /\ frames[1] \in FrameSet
      /\ frames[1].at \in DOMAIN prog /\ frames[1].at \in Nat
      /\ frames[1].owner \in Nat /\ (frames[1].owner = 0 \/ frames[1].owner \in DOMAIN prog)
      /\ Enclosing(frames[1].at) = Inside(frames[1].owner)
      /\ frames[1].owner < frames[1].at
  BY ExecutingIs
<1>2. PICK y \in FrameSet : y = frames[1]
  BY <1>1
<1>3. /\ After(y.at) \in Nat /\ y.at < After(y.at) /\ After(y.at) <= Limit(y.owner)
      /\ After(y.at) < Limit(y.owner) => Enclosing(After(y.at)) = Inside(y.owner)
  BY <1>1, <1>2, AfterIs, AfterInside
<1>4. PICK a \in Nat : a = After(y.at)
  BY <1>3
<1>5. PICK x : x = [y EXCEPT !.at = a]
  OBVIOUS
<1>6. x \in FrameSet /\ x.owner = y.owner /\ x.at = a
  BY <1>5 DEF FrameSet
<1>7. AtOK(x)
  BY <1>1, <1>2, <1>3, <1>4, <1>6 DEF AtOK
<1>8. Advanced = [frames EXCEPT ![1] = x]
  BY <1>1, <1>2, <1>4, <1>5 DEF Advanced
<1>9. FirstIs(x, frames, [frames EXCEPT ![1] = x])
  <2>1. x.owner = frames[1].owner
    BY <1>2, <1>6
  <2>2. QED BY <1>1, <1>6, <1>7, <2>1, FrameMoved
<1>10. PICK gs : gs = Advanced /\ FirstIs(x, frames, gs)
  BY <1>8, <1>9
<1>11. QED BY <1>2, <1>4, <1>6, <1>10 DEF GoesOn, Replaces, FirstIs

LEMMA BlockEnters ==
  ASSUME prog \in Seq(Line), FramesOK(frames), Executing,
         NEW h \in DOMAIN prog, NEW l \in Nat, NEW c \in Nat,
         Kind(h) # "fn" =>
           \/ h = frames[1].at
           \/ HasElse(frames[1].at) /\ h = End(frames[1].at)
  PROVE  /\ Enters(<<Block(h, l, c)>> \o Advanced, h)
         /\ Kind(h) # "fn" => EntersBlock(<<Block(h, l, c)>> \o Advanced, h)
<1>1. /\ frames # << >> /\ Top = frames[1] /\ 1 \in DOMAIN frames
      /\ frames[1].at \in DOMAIN prog /\ (frames[1].owner = 0 \/ frames[1].owner \in DOMAIN prog)
      /\ Enclosing(frames[1].at) = Inside(frames[1].owner)
  BY ExecutingIs
<1>2. PICK fs : fs = Advanced
  OBVIOUS
<1>3. GoesOn(fs)
  BY <1>2, AdvancedGoesOn
<1>4. /\ FramesOK(fs) /\ fs # << >> /\ Len(fs) = Len(frames) /\ Len(frames) \in Nat
      /\ fs[1].owner = frames[1].owner /\ fs[1].at = After(frames[1].at)
      /\ \A k \in 2 .. Len(frames) : fs[k] = frames[k]
      /\ Len(frames) >= 1 /\ DOMAIN frames = 1 .. Len(frames)
  BY <1>1, <1>3, FrameFacts DEF GoesOn, Replaces
<1>5. PICK x : x = Block(h, l, c)
  OBVIOUS
<1>6. h \in Nat /\ h # 0 /\ End(h) \in Nat /\ h < End(h)
  BY Lines, EndIs
<1>7. x \in FrameSet /\ x.owner = h /\ x.at = h + 1
  BY <1>5, <1>6 DEF Block, FrameSet
<1>8. AtOK(x)
  BY <1>6, <1>7, FirstInside DEF AtOK, Limit
<1>9. ASSUME Kind(h) # "fn" PROVE InBlock(x, fs[1])
  <2>1. PICK i \in DOMAIN prog : i = frames[1].at
    BY <1>1
  <2>2. End(i) \in Nat /\ End(i) <= After(i) /\ After(i) \in Nat
    BY EndIs, AfterIs
  <2>3. CASE h = i
    <3>1. Kind(h) \in Loops => After(i) = End(h)
      BY <2>3 DEF After, HasElse, Loops
    <3>2. QED BY <1>1, <1>4, <1>7, <2>1, <2>2, <2>3, <3>1 DEF InBlock
  <2>4. CASE HasElse(i) /\ h = End(i)
    <3>1. Enclosing(h) = Inside(frames[1].owner) /\ Kind(h) = "else" /\ After(i) = End(h)
      BY <1>1, <2>1, <2>4, AfterInside
    <3>2. QED BY <1>4, <1>6, <1>7, <2>1, <3>1 DEF InBlock, Loops
  <2>5. QED BY <1>9, <2>1, <2>3, <2>4
<1>10. Before(x, fs, <<x>> \o fs)
  <2>1. x.owner \in DOMAIN prog /\ (Kind(x.owner) # "fn" => InBlock(x, fs[1]))
    BY <1>7, <1>9
  <2>2. QED BY <1>4, <1>7, <1>8, <2>1, FramePushed
<1>11. PICK gs :
         /\ gs = <<x>> \o fs
         /\ FramesOK(gs) /\ Len(gs) = Len(fs) + 1 /\ gs[1] = x
         /\ \A k \in 1 .. Len(fs) : gs[k + 1] = fs[k]
         /\ \A k \in 2 .. Len(gs) : k - 1 \in DOMAIN fs /\ gs[k] = fs[k - 1]
  BY <1>10 DEF Before
<1>12. gs[2] = fs[1]
  BY <1>4, <1>11
<1>13. ASSUME NEW k \in 3 .. Len(frames) + 1 PROVE k - 1 \in DOMAIN frames /\ gs[k] = frames[k - 1]
  <2>1. k \in 2 .. Len(gs) /\ k - 1 \in 2 .. Len(frames)
    BY <1>4, <1>11
  <2>2. QED BY <1>4, <1>11, <2>1
<1>14. Enters(gs, h)
  BY <1>4, <1>7, <1>11, <1>12, <1>13 DEF Enters
<1>15. ASSUME Kind(h) # "fn" PROVE EntersBlock(gs, h)
  <2>1. HasElse(frames[1].at) => Kind(End(frames[1].at)) = "else"
    BY DEF HasElse
  <2>2. QED BY <1>14, <1>15, <2>1 DEF EntersBlock
<1>16. QED BY <1>2, <1>5, <1>11, <1>14, <1>15

LEMMA LoopTurns ==
  ASSUME prog \in Seq(Line), FramesOK(frames), frames # << >>,
         frames[1].owner # 0, Kind(frames[1].owner) \in Loops,
         NEW x \in FrameSet, x.owner = frames[1].owner, x.at = x.owner + 1
  PROVE  TurnsBack([frames EXCEPT ![1] = x])
<1>1. frames[1].owner \in DOMAIN prog
  BY FrameFacts
<1>2. PICK o \in DOMAIN prog : o = frames[1].owner
  BY <1>1
<1>3. o \in Nat /\ End(o) \in Nat /\ o < End(o)
  BY Lines, EndIs
<1>4. AtOK(x)
  BY <1>2, <1>3, FirstInside DEF AtOK, Limit
<1>5. PICK gs : gs = [frames EXCEPT ![1] = x] /\ FirstIs(x, frames, gs)
  BY <1>4, FrameMoved
<1>6. QED BY <1>1, <1>5 DEF TurnsBack, Replaces, FirstIs

LEMMA TailPops ==
  ASSUME FramesOK(frames), frames # << >>
  PROVE  Pops(Tail(frames))
BY FramePopped DEF Pops

-----------------------------------------------------------------------------
(* The interpreter's actions.                                              *)

LEMMA IfGoes ==
  ASSUME prog \in Seq(Line), FramesOK(frames), If
  PROVE  /\ Executing /\ Kind(frames[1].at) \in Choosers
         /\ GoesOn(frames') \/ \E h \in DOMAIN prog : EntersBlock(frames', h)
<1>1. Executing /\ Kind(Top.at) \in Choosers
  BY DEF If, At
<1>2. Top = frames[1] /\ frames[1].at \in DOMAIN prog
  BY <1>1, ExecutingIs
<1>3. PICK i \in DOMAIN prog : i = frames[1].at
  BY <1>2
<1>4. \/ frames' = <<Block(i, 0, 0)>> \o Advanced
      \/ HasElse(i) /\ frames' = <<Block(End(i), 0, 0)>> \o Advanced
      \/ frames' = Advanced
  BY <1>2, <1>3 DEF If
<1>5. Kind(i) # "fn" /\ (HasElse(i) => End(i) \in DOMAIN prog /\ Kind(End(i)) = "else")
  BY <1>1, <1>2, <1>3, EndIs DEF Choosers, HasElse
<1>6. CASE frames' = <<Block(i, 0, 0)>> \o Advanced
  BY <1>1, <1>2, <1>3, <1>5, <1>6, BlockEnters
<1>7. CASE HasElse(i) /\ frames' = <<Block(End(i), 0, 0)>> \o Advanced
  BY <1>1, <1>2, <1>3, <1>5, <1>7, BlockEnters
<1>8. CASE frames' = Advanced
  BY <1>1, <1>2, <1>8, AdvancedGoesOn
<1>9. QED BY <1>1, <1>2, <1>4, <1>6, <1>7, <1>8

LEMMA WhileGoes ==
  ASSUME prog \in Seq(Line), FramesOK(frames), While
  PROVE  /\ Executing /\ Kind(frames[1].at) = "while"
         /\ GoesOn(frames') \/ EntersBlock(frames', frames[1].at)
<1>1. Executing /\ Kind(Top.at) = "while"
  BY DEF While, At
<1>2. Top = frames[1] /\ frames[1].at \in DOMAIN prog
  BY <1>1, ExecutingIs
<1>3. PICK i \in DOMAIN prog : i = frames[1].at
  BY <1>2
<1>4. frames' = <<Block(i, 0, 0)>> \o Advanced \/ frames' = Advanced
  BY <1>2, <1>3 DEF While
<1>5. CASE frames' = <<Block(i, 0, 0)>> \o Advanced
  BY <1>1, <1>2, <1>3, <1>5, BlockEnters
<1>6. CASE frames' = Advanced
  BY <1>1, <1>2, <1>6, AdvancedGoesOn
<1>7. QED BY <1>1, <1>2, <1>4, <1>5, <1>6

LEMMA ForGoes ==
  ASSUME prog \in Seq(Line), FramesOK(frames), For
  PROVE  /\ Executing /\ Kind(frames[1].at) = "for"
         /\ GoesOn(frames') \/ EntersBlock(frames', frames[1].at)
<1>1. Executing /\ Kind(Top.at) = "for"
  BY DEF For, At
<1>2. Top = frames[1] /\ frames[1].at \in DOMAIN prog
  BY <1>1, ExecutingIs
<1>3. PICK i \in DOMAIN prog : i = frames[1].at
  BY <1>2
<1>4. PICK n \in Nat : frames' = IF n > 0 THEN <<Block(i, n - 1, 0)>> \o Advanced ELSE Advanced
  BY <1>2, <1>3, ChoicesAssumption DEF For
<1>5. CASE n > 0
  <2>1. n - 1 \in Nat
    BY <1>5
  <2>2. QED BY <1>1, <1>2, <1>3, <1>4, <1>5, <2>1, BlockEnters
<1>6. CASE ~(n > 0)
  BY <1>1, <1>2, <1>4, <1>6, AdvancedGoesOn
<1>7. QED BY <1>5, <1>6

LEMMA CallGoes ==
  ASSUME prog \in Seq(Line), FramesOK(frames), Call, Functions # {}
  PROVE  /\ Executing /\ Kind(frames[1].at) \in Calls
         /\ \E f \in Functions : Enters(frames', f)
<1>1. Executing /\ Kind(Top.at) \in Calls
  BY DEF Call, At
<1>2. Top = frames[1] /\ frames[1].at \in DOMAIN prog /\ frames[1].at \in Nat
  BY <1>1, ExecutingIs
<1>3. PICK f \in Functions : f = CHOOSE g \in Functions : TRUE
  OBVIOUS
<1>4. frames' = <<Block(f, 0, frames[1].at)>> \o Advanced
  BY <1>2, <1>3 DEF Call
<1>5. f \in DOMAIN prog /\ Kind(f) = "fn"
  BY DEF Functions
<1>6. QED BY <1>1, <1>2, <1>4, <1>5, BlockEnters

LEMMA OverBlock ==
  ASSUME FramesOK(frames), NEW kinds, Over(kinds)
  PROVE  /\ frames # << >> /\ ~Executing /\ frames[1].owner # 0 /\ frames[1].owner \in DOMAIN prog
         /\ Kind(frames[1].owner) \in kinds /\ Top = frames[1] /\ frames[1] \in FrameSet
         /\ Pops(Tail(frames))
BY FrameFacts, TailPops DEF Over, Top

LEMMA WhileAgainGoes ==
  ASSUME prog \in Seq(Line), FramesOK(frames), WhileAgain
  PROVE  /\ Over({"while"})
         /\ TurnsBack(frames') \/ Pops(frames')
<1>1. Over({"while"})
  BY DEF WhileAgain
<1>2. /\ frames # << >> /\ frames[1].owner # 0 /\ Kind(frames[1].owner) = "while"
      /\ Top = frames[1] /\ frames[1] \in FrameSet /\ Pops(Tail(frames))
  BY <1>1, OverBlock
<1>3. frames' = [frames EXCEPT ![1].at = frames[1].owner + 1] \/ frames' = Tail(frames)
  BY <1>2 DEF WhileAgain
<1>4. PICK y \in FrameSet : y = frames[1]
  BY <1>2
<1>5. PICK x : x = [y EXCEPT !.at = y.owner + 1]
  OBVIOUS
<1>6. x \in FrameSet /\ x.owner = y.owner /\ x.at = x.owner + 1
  BY <1>5 DEF FrameSet
<1>7. [frames EXCEPT ![1].at = frames[1].owner + 1] = [frames EXCEPT ![1] = x]
  BY <1>4, <1>5
<1>8. TurnsBack([frames EXCEPT ![1] = x])
  BY <1>2, <1>4, <1>6, LoopTurns DEF Loops
<1>9. QED BY <1>1, <1>2, <1>3, <1>7, <1>8

LEMMA ForAgainGoes ==
  ASSUME prog \in Seq(Line), FramesOK(frames), ForAgain
  PROVE  /\ Over({"for"})
         /\ (TurnsBack(frames') \/ Pops(frames'))
<1>1. Over({"for"})
  BY DEF ForAgain
<1>2. /\ frames # << >> /\ frames[1].owner # 0 /\ Kind(frames[1].owner) = "for"
      /\ Top = frames[1] /\ frames[1] \in FrameSet /\ Pops(Tail(frames))
  BY <1>1, OverBlock
<1>3. \/ /\ frames[1].left > 0
         /\ frames' = [frames EXCEPT ![1].at = frames[1].owner + 1, ![1].left = @ - 1]
      \/ frames' = Tail(frames)
  BY <1>2 DEF ForAgain
<1>4. PICK y \in FrameSet : y = frames[1]
  BY <1>2
<1>5. PICK x : x = [y EXCEPT !.at = y.owner + 1, !.left = @ - 1]
  OBVIOUS
<1>6. ASSUME y.left > 0 PROVE x \in FrameSet /\ x.owner = y.owner /\ x.at = x.owner + 1
  <2>1. y.left \in Nat /\ y.owner \in Nat
    BY DEF FrameSet
  <2>2. PICK l \in Nat : l = y.left - 1
    BY <1>6, <2>1
  <2>3. PICK a \in Nat : a = y.owner + 1
    BY <2>1
  <2>4. x = [y EXCEPT !.at = a, !.left = l]
    BY <1>5, <2>2, <2>3
  <2>5. QED BY <2>3, <2>4 DEF FrameSet
<1>7. [frames EXCEPT ![1].at = frames[1].owner + 1, ![1].left = @ - 1] = [frames EXCEPT ![1] = x]
  BY <1>4, <1>5
<1>8. y.left > 0 => TurnsBack([frames EXCEPT ![1] = x])
  BY <1>2, <1>4, <1>6, LoopTurns DEF Loops
<1>9. QED BY <1>1, <1>2, <1>3, <1>4, <1>7, <1>8

-----------------------------------------------------------------------------
(* break, continue and return have a loop or a call to go to.  Each line    *)
(* around the block of a frame is the owner of that frame or of one below   *)
(* it, and no call is in between.                                           *)

Found(fs, m, j) ==
  \E n \in DOMAIN fs :
    /\ m <= n /\ fs[n].owner = j
    /\ \A k \in m .. n - 1 : fs[k].owner # 0 /\ Kind(fs[k].owner) # "fn"

AllFound(fs) == \A m \in DOMAIN fs : \A j \in Inside(fs[m].owner) : Found(fs, m, j)

Handled(fs, r) ==
  /\ r \in Signals \cup {"value"}
  /\ r \in {"break", "continue"} =>
       \E n \in DOMAIN fs :
         /\ fs[n].owner # 0 /\ Kind(fs[n].owner) \in Loops
         /\ \A k \in 1 .. n - 1 : fs[k].owner # 0 /\ Kind(fs[k].owner) # "fn"
  /\ r = "return" =>
       \E n \in DOMAIN fs : fs[n].owner # 0 /\ Kind(fs[n].owner) = "fn"

FramesInv == FramesOK(frames) /\ AllFound(frames) /\ Handled(frames, result.is)

RInv ==
  /\ Parsed
  /\ FramesInv
  /\ phase \in {"write", "compile"} => frames = << >>

\* The program does not change while it is executed.
LEMMA FramesOKSame ==
  ASSUME UNCHANGED prog, NEW gs, FramesOK(gs)
  PROVE  FramesOK(gs)'
<1>1. \A i : /\ Kind(i)' = Kind(i) /\ End(i)' = End(i) /\ Enclosing(i)' = Enclosing(i)
             /\ Inside(i)' = Inside(i) /\ Limit(i)' = Limit(i)
  BY ProgramSame DEF Inside, Limit
<1>2. ASSUME NEW x PROVE AtOK(x) => AtOK(x)'
  BY <1>1 DEF AtOK
<1>3. ASSUME NEW x, NEW y PROVE InBlock(x, y) => InBlock(x, y)'
  BY <1>1 DEF InBlock
<1>4. ASSUME NEW k \in DOMAIN gs PROVE FrameOK(gs, k)'
  <2>1. PICK x : x = gs[k]
    OBVIOUS
  <2>2. PICK y : y = gs[k + 1]
    OBVIOUS
  <2>3. /\ gs[k].owner = 0 <=> k = Len(gs)
        /\ x.owner # 0 => x.owner \in DOMAIN prog
        /\ AtOK(x) /\ (x.owner # 0 /\ Kind(x.owner) # "fn" => InBlock(x, y))
    BY <2>1, <2>2 DEF FramesOK, FrameOK
  <2>4. /\ AtOK(gs[k])' /\ (gs[k].owner # 0 /\ Kind(x.owner)' # "fn" => InBlock(gs[k], gs[k + 1])')
        /\ gs[k].owner # 0 => gs[k].owner \in DOMAIN prog'
    BY <1>1, <1>2, <1>3, <2>1, <2>2, <2>3
  <2>5. Kind(gs[k].owner)' = Kind(x.owner)'
    BY <2>1
  <2>6. QED BY <2>3, <2>4, <2>5 DEF FrameOK
<1>5. QED BY <1>4 DEF FramesOK

LEMMA FramesSame ==
  ASSUME UNCHANGED prog, NEW gs, gs = frames',
         FramesOK(gs), AllFound(gs), Handled(gs, result'.is)
  PROVE  FramesInv'
<1>1. \A i : Kind(i)' = Kind(i) /\ Enclosing(i)' = Enclosing(i) /\ Inside(i)' = Inside(i)
  BY ProgramSame DEF Inside
<1>2. FramesOK(gs)'
  BY FramesOKSame
<1>3. AllFound(gs)'
  <2>1. ASSUME NEW m, NEW j PROVE Found(gs, m, j) => Found(gs, m, j)'
    BY <1>1 DEF Found
  <2>2. ASSUME NEW m \in DOMAIN gs, NEW j \in Inside(gs[m].owner)' PROVE Found(gs, m, j)'
    BY <1>1, <2>1 DEF AllFound
  <2>3. QED BY <2>2 DEF AllFound
<1>4. \A r : Handled(gs, r) => Handled(gs, r)'
  BY <1>1 DEF Handled
<1>5. PICK r : r = result'.is
  OBVIOUS
<1>6. Handled(gs, r)'
  BY <1>4, <1>5
<1>7. FramesOK(frames)' /\ AllFound(frames)'
  BY <1>2, <1>3
<1>8. Handled(frames, result.is)'
  BY <1>5, <1>6
<1>9. QED BY <1>7, <1>8 DEF FramesInv

\* A frame that stays in its block, a block that is entered, and one that is
\* left, change nothing about where the owners are found.
LEMMA FoundReplaced ==
  ASSUME FramesOK(frames), AllFound(frames), frames # << >>,
         NEW gs, NEW a, Replaces(gs, frames[1].owner, a)
  PROVE  AllFound(gs)
<1>1. /\ FramesOK(gs) /\ DOMAIN gs = 1 .. Len(gs) /\ DOMAIN frames = 1 .. Len(frames)
      /\ Len(gs) = Len(frames) /\ Len(frames) \in Nat
      /\ gs[1].owner = frames[1].owner /\ \A k \in 2 .. Len(frames) : gs[k] = frames[k]
  BY FrameFacts DEF Replaces
<1>2. DOMAIN gs = DOMAIN frames /\ \A k \in DOMAIN frames : gs[k].owner = frames[k].owner
  <2>1. ASSUME NEW k \in DOMAIN frames PROVE gs[k].owner = frames[k].owner
    <3>1. k = 1 \/ k \in 2 .. Len(frames)
      BY <1>1
    <3>2. QED BY <1>1, <3>1
  <2>2. QED BY <1>1, <2>1
<1>3. ASSUME NEW m \in DOMAIN gs, NEW j \in Inside(gs[m].owner) PROVE Found(gs, m, j)
  <2>1. PICK n \in DOMAIN frames : /\ m <= n /\ frames[n].owner = j
                                   /\ \A k \in m .. n - 1 : frames[k].owner # 0 /\ Kind(frames[k].owner) # "fn"
    BY <1>2, <1>3 DEF AllFound, Found
  <2>2. \A k \in m .. n - 1 : k \in DOMAIN frames
    BY <1>1
  <2>3. QED BY <1>2, <2>1, <2>2 DEF Found
<1>4. QED BY <1>3 DEF AllFound

LEMMA FoundEntered ==
  ASSUME prog \in Seq(Line), FramesOK(frames), AllFound(frames), frames # << >>,
         NEW gs, NEW h, Enters(gs, h),
         (Kind(h) # "fn" /\ Enclosing(h) = Inside(frames[1].owner)) \/ Enclosing(h) = {}
  PROVE  AllFound(gs)
<1>1. /\ FramesOK(gs) /\ DOMAIN gs = 1 .. Len(frames) + 1 /\ DOMAIN frames = 1 .. Len(frames)
      /\ Len(frames) \in Nat /\ Len(frames) >= 1
      /\ gs[1].owner = h /\ h \in DOMAIN prog /\ h # 0
      /\ gs[2].owner = frames[1].owner
      /\ \A k \in 3 .. Len(frames) + 1 : gs[k] = frames[k - 1]
  BY FrameFacts, Lines DEF Enters
<1>2. \A k \in DOMAIN frames : k + 1 \in DOMAIN gs /\ gs[k + 1].owner = frames[k].owner
  <2>1. ASSUME NEW k \in DOMAIN frames PROVE k + 1 \in DOMAIN gs /\ gs[k + 1].owner = frames[k].owner
    <3>1. k = 1 \/ (k + 1 \in 3 .. Len(frames) + 1 /\ k + 1 - 1 = k)
      BY <1>1
    <3>2. QED BY <1>1, <3>1
  <2>2. QED BY <2>1
<1>3. ASSUME NEW m \in DOMAIN frames, NEW j, Found(frames, m, j) PROVE Found(gs, m + 1, j)
  <2>1. PICK n \in DOMAIN frames : /\ m <= n /\ frames[n].owner = j
                                   /\ \A k \in m .. n - 1 : frames[k].owner # 0 /\ Kind(frames[k].owner) # "fn"
    BY <1>3 DEF Found
  <2>2. PICK q \in DOMAIN gs : q = n + 1
    BY <1>2
  <2>3. m + 1 <= q /\ gs[q].owner = j
    BY <1>1, <1>2, <2>1, <2>2
  <2>4. ASSUME NEW k \in m + 1 .. q - 1 PROVE gs[k].owner # 0 /\ Kind(gs[k].owner) # "fn"
    <3>1. k - 1 \in DOMAIN frames /\ k - 1 \in m .. n - 1 /\ k - 1 + 1 = k
      BY <1>1, <2>2
    <3>2. gs[k].owner = frames[k - 1].owner
      BY <1>2, <3>1
    <3>3. QED BY <2>1, <3>1, <3>2
  <2>5. QED BY <2>3, <2>4 DEF Found
<1>4. ASSUME NEW j \in Inside(h) PROVE Found(gs, 1, j)
  <2>1. CASE j = h
    <3>1. 1 \in DOMAIN gs /\ gs[1].owner = j /\ 1 <= 1 /\ 1 .. 1 - 1 = {}
      BY <1>1, <2>1
    <3>2. QED BY <3>1 DEF Found
  <2>2. CASE j # h
    <3>1. j \in Enclosing(h) /\ Kind(h) # "fn" /\ j \in Inside(frames[1].owner)
      BY <1>1, <2>2 DEF Inside
    <3>2. 1 \in DOMAIN frames
      BY <1>1
    <3>3. Found(gs, 2, j)
      <4>1. Found(gs, 1 + 1, j)
        BY <1>3, <3>1, <3>2 DEF AllFound
      <4>2. QED BY <4>1
    <3>4. PICK n \in DOMAIN gs : /\ 2 <= n /\ gs[n].owner = j
                                 /\ \A k \in 2 .. n - 1 : gs[k].owner # 0 /\ Kind(gs[k].owner) # "fn"
      BY <3>3 DEF Found
    <3>5. \A k \in 1 .. n - 1 : gs[k].owner # 0 /\ Kind(gs[k].owner) # "fn"
      <4>1. ASSUME NEW k \in 1 .. n - 1 PROVE gs[k].owner # 0 /\ Kind(gs[k].owner) # "fn"
        <5>1. k = 1 \/ k \in 2 .. n - 1
          BY <1>1
        <5>2. QED BY <1>1, <3>1, <3>4, <5>1
      <4>2. QED BY <4>1
    <3>6. 1 <= n
      BY <1>1, <3>4
    <3>7. QED BY <3>4, <3>5, <3>6 DEF Found
  <2>3. QED BY <2>1, <2>2
<1>5. ASSUME NEW m \in DOMAIN gs, NEW j \in Inside(gs[m].owner) PROVE Found(gs, m, j)
  <2>1. CASE m = 1
    BY <1>1, <1>4, <1>5, <2>1
  <2>2. CASE m # 1
    <3>1. PICK l \in DOMAIN frames : m = l + 1
      <4>1. m - 1 \in DOMAIN frames /\ m = m - 1 + 1
        BY <1>1, <2>2
      <4>2. QED BY <4>1
    <3>2. Found(frames, l, j)
      BY <1>2, <1>5, <3>1 DEF AllFound
    <3>3. QED BY <1>3, <3>1, <3>2
  <2>3. QED BY <2>1, <2>2
<1>6. QED BY <1>5 DEF AllFound

LEMMA FoundPopped ==
  ASSUME FramesOK(frames), AllFound(frames), NEW gs, Pops(gs)
  PROVE  AllFound(gs)
<1>1. /\ FramesOK(gs) /\ DOMAIN gs = 1 .. Len(frames) - 1 /\ DOMAIN frames = 1 .. Len(frames)
      /\ Len(frames) \in Nat
      /\ \A k \in DOMAIN gs : k + 1 \in DOMAIN frames /\ gs[k] = frames[k + 1]
  BY FrameFacts DEF Pops
<1>2. ASSUME NEW m \in DOMAIN gs, NEW j \in Inside(gs[m].owner) PROVE Found(gs, m, j)
  <2>1. PICK n \in DOMAIN frames :
          /\ m + 1 <= n /\ frames[n].owner = j
          /\ \A k \in m + 1 .. n - 1 : frames[k].owner # 0 /\ Kind(frames[k].owner) # "fn"
    <3>1. PICK l \in DOMAIN frames : l = m + 1 /\ gs[m] = frames[l]
      BY <1>1
    <3>2. Found(frames, l, j)
      BY <1>2, <3>1 DEF AllFound
    <3>3. QED BY <3>1, <3>2 DEF Found
  <2>2. PICK q \in DOMAIN gs : n = q + 1
    <3>1. n - 1 \in DOMAIN gs /\ n = n - 1 + 1
      BY <1>1, <1>2, <2>1
    <3>2. QED BY <3>1
  <2>3. m <= q /\ gs[q].owner = j
    BY <1>1, <1>2, <2>1, <2>2
  <2>4. ASSUME NEW k \in m .. q - 1 PROVE gs[k].owner # 0 /\ Kind(gs[k].owner) # "fn"
    <3>1. k \in DOMAIN gs /\ k + 1 \in m + 1 .. n - 1
      BY <1>1, <1>2, <2>2
    <3>2. QED BY <1>1, <2>1, <3>1
  <2>5. QED BY <2>3, <2>4 DEF Found
<1>3. QED BY <1>2 DEF AllFound

\* A signal goes up through the blocks that do not take it.
LEMMA HandledPopped ==
  ASSUME FramesOK(frames), frames # << >>, NEW gs, Pops(gs), NEW r, Handled(frames, r),
         r \in {"break", "continue"} => Kind(frames[1].owner) \notin Loops,
         r = "return" => Kind(frames[1].owner) # "fn"
  PROVE  Handled(gs, r)
<1>1. /\ FramesOK(gs) /\ DOMAIN gs = 1 .. Len(frames) - 1 /\ DOMAIN frames = 1 .. Len(frames)
      /\ Len(frames) \in Nat
      /\ \A k \in DOMAIN gs : k + 1 \in DOMAIN frames /\ gs[k] = frames[k + 1]
  BY FrameFacts DEF Pops
<1>2. ASSUME NEW n \in DOMAIN frames, n # 1 PROVE \E q \in DOMAIN gs : n = q + 1
  <2>1. n - 1 \in DOMAIN gs /\ n = n - 1 + 1
    BY <1>1, <1>2
  <2>2. QED BY <2>1
<1>3. CASE r \in {"break", "continue"}
  <2>1. PICK n \in DOMAIN frames :
          /\ frames[n].owner # 0 /\ Kind(frames[n].owner) \in Loops
          /\ \A k \in 1 .. n - 1 : frames[k].owner # 0 /\ Kind(frames[k].owner) # "fn"
    BY <1>3 DEF Handled
  <2>2. PICK q \in DOMAIN gs : n = q + 1
    BY <1>2, <1>3, <2>1
  <2>3. ASSUME NEW k \in 1 .. q - 1 PROVE gs[k].owner # 0 /\ Kind(gs[k].owner) # "fn"
    <3>1. k \in DOMAIN gs /\ k + 1 \in 1 .. n - 1
      BY <1>1, <2>2
    <3>2. QED BY <1>1, <2>1, <3>1
  <2>4. gs[q].owner # 0 /\ Kind(gs[q].owner) \in Loops
    BY <1>1, <2>1, <2>2
  <2>5. QED BY <1>3, <2>3, <2>4 DEF Handled
<1>4. CASE r = "return"
  <2>1. PICK n \in DOMAIN frames : frames[n].owner # 0 /\ Kind(frames[n].owner) = "fn"
    BY <1>4 DEF Handled
  <2>2. PICK q \in DOMAIN gs : n = q + 1
    BY <1>2, <1>4, <2>1
  <2>3. gs[q].owner # 0 /\ Kind(gs[q].owner) = "fn"
    BY <1>1, <2>1, <2>2
  <2>4. QED BY <1>4, <2>3 DEF Handled
<1>5. CASE r \notin {"break", "continue", "return"}
  BY <1>5 DEF Handled
<1>6. QED BY <1>3, <1>4, <1>5

LEMMA ParsedSame ==
  ASSUME UNCHANGED prog
  PROVE  /\ Parsed' <=> Parsed
         /\ \A i : (HasElse(i)' <=> HasElse(i)) /\ After(i)' = After(i)
<1>1. /\ prog' = prog /\ Functions' = Functions
      /\ \A i : /\ Kind(i)' = Kind(i) /\ Indent(i)' = Indent(i) /\ End(i)' = End(i)
                /\ Enclosing(i)' = Enclosing(i) /\ FunctionOf(i)' = FunctionOf(i)
  BY ProgramSame
<1>2. \A i : HasElse(i)' <=> HasElse(i)
  BY DEF HasElse, End, Kind, Indent
<1>3. \A i : After(i)' = After(i)
  BY DEF After, HasElse, End, Kind, Indent
<1>4. Parsed' <=> Parsed
  BY <1>1, <1>2 DEF Parsed
<1>5. QED BY <1>2, <1>3, <1>4

\* A function is not in the block of another line when it is not indented.
LEMMA FlatFunctions ==
  ASSUME prog \in Seq(Line), Plain, NEW f \in Functions
  PROVE  Enclosing(f) = {}
<1>1. f \in DOMAIN prog /\ Indent(f) = 0
  BY DEF Functions, Plain
<1>2. SUFFICES ASSUME NEW j \in Enclosing(f) PROVE FALSE
  OBVIOUS
<1>3. Indent(f) > Indent(j) /\ j \in DOMAIN prog
  BY <1>1, <1>2, Nested, EnclosingIs
<1>4. Indent(j) \in Nat
  BY <1>3, Lines
<1>5. QED BY <1>1, <1>3, <1>4

\* A value needs no loop and no call to take it.
LEMMA ValueHandled ==
  ASSUME NEW fs
  PROVE  Handled(fs, "value")
BY DEF Handled

\* What a statement without a block evaluates to, is taken by a loop or by the
\* call of the function that it is in.
LEMMA SimpleHandled ==
  ASSUME prog \in Seq(Line), Plain, Parsed, FramesOK(frames), AllFound(frames), Simple
  PROVE  Handled(frames, result'.is)
<1>1. Executing /\ Kind(Top.at) \in {"expr", "zero", "one", "ret", "say"}
  BY DEF Simple, At
<1>2. /\ Top = frames[1] /\ 1 \in DOMAIN frames /\ frames[1].at \in DOMAIN prog
      /\ Enclosing(frames[1].at) = Inside(frames[1].owner)
  BY <1>1, ExecutingIs
<1>3. PICK i \in DOMAIN prog : i = frames[1].at
  BY <1>2
<1>4. /\ Kind(i) \in {"expr", "zero", "one", "ret", "say"}
      /\ result' = CASE Kind(i) = "expr" -> Value(i)
                     [] Kind(i) = "zero" -> Signal("break")
                     [] Kind(i) = "one"  -> Signal("continue")
                     [] Kind(i) = "ret"  -> [is |-> "return", value |-> i]
                     [] Kind(i) = "say"  -> Null
  BY <1>1, <1>2, <1>3 DEF Simple
<1>5. \A j \in Enclosing(i) : Found(frames, 1, j) /\ j # 0
  <2>1. \A j \in Enclosing(i) : j \in DOMAIN prog
    BY EnclosingIs
  <2>2. QED BY <1>2, <1>3, <2>1, Lines DEF AllFound
<1>6. CASE Kind(i) \in {"zero", "one"}
  <2>1. result'.is \in {"break", "continue"}
    BY <1>4, <1>6 DEF Signal
  <2>2. PICK j \in Enclosing(i) : Kind(j) \in Loops
    BY <1>6 DEF Plain, LoopsAround
  <2>3. PICK n \in DOMAIN frames : /\ frames[n].owner = j
                                   /\ \A k \in 1 .. n - 1 : frames[k].owner # 0 /\ Kind(frames[k].owner) # "fn"
    BY <1>5 DEF Found
  <2>4. frames[n].owner # 0 /\ Kind(frames[n].owner) \in Loops
    BY <1>5, <2>2, <2>3
  <2>5. result'.is \in Signals /\ result'.is # "return"
    BY <2>1 DEF Signals
  <2>6. QED BY <2>3, <2>4, <2>5 DEF Handled
<1>7. CASE Kind(i) = "ret"
  <2>1. result'.is = "return"
    BY <1>4, <1>7
  <2>2. PICK j \in Enclosing(i) : Kind(j) = "fn"
    BY <1>7 DEF Parsed, FunctionOf, Functions
  <2>3. PICK n \in DOMAIN frames : frames[n].owner = j
    BY <1>5 DEF Found
  <2>4. frames[n].owner # 0 /\ Kind(frames[n].owner) = "fn"
    BY <1>5, <2>2, <2>3
  <2>5. QED BY <2>1, <2>4 DEF Handled, Signals
<1>8. CASE Kind(i) \in {"expr", "say"}
  <2>1. result'.is = "value"
    BY <1>4, <1>8 DEF Value, Null
  <2>2. QED BY <2>1, ValueHandled
<1>9. QED BY <1>4, <1>6, <1>7, <1>8

LEMMA HandledReplaced ==
  ASSUME FramesOK(frames), frames # << >>, NEW gs, NEW a, Replaces(gs, frames[1].owner, a),
         NEW r, Handled(frames, r)
  PROVE  Handled(gs, r)
<1>1. /\ DOMAIN gs = 1 .. Len(gs) /\ DOMAIN frames = 1 .. Len(frames)
      /\ Len(gs) = Len(frames) /\ Len(frames) \in Nat
      /\ gs[1].owner = frames[1].owner /\ \A k \in 2 .. Len(frames) : gs[k] = frames[k]
  BY FrameFacts DEF Replaces
<1>2. DOMAIN gs = DOMAIN frames /\ \A k \in DOMAIN frames : gs[k].owner = frames[k].owner
  <2>1. ASSUME NEW k \in DOMAIN frames PROVE gs[k].owner = frames[k].owner
    <3>1. k = 1 \/ k \in 2 .. Len(frames)
      BY <1>1
    <3>2. QED BY <1>1, <3>1
  <2>2. QED BY <1>1, <2>1
<1>3. \A n \in DOMAIN frames : \A k \in 1 .. n - 1 : k \in DOMAIN frames
  BY <1>1
<1>4. QED BY <1>2, <1>3 DEF Handled

\* No signal gets past the block of the program.
LEMMA OutermostValue ==
  ASSUME FramesOK(frames), frames # << >>, frames[1].owner = 0, Handled(frames, result.is)
  PROVE  result.is = "value"
<1>1. 1 \in DOMAIN frames /\ DOMAIN frames = 1 .. Len(frames) /\ Len(frames) \in Nat
  BY FrameFacts
<1>2. Len(frames) = 1
  BY <1>1 DEF FramesOK, FrameOK
<1>3. \A n \in DOMAIN frames : frames[n].owner = 0
  <2>1. ASSUME NEW n \in DOMAIN frames PROVE frames[n].owner = 0
    <3>1. n = 1
      BY <1>1, <1>2
    <3>2. QED BY <3>1
  <2>2. QED BY <2>1
<1>4. QED BY <1>3 DEF Handled, Signals

LEMMA EnteredIs ==
  ASSUME prog \in Seq(Line), FramesOK(frames), Executing, NEW gs, NEW h, EntersBlock(gs, h)
  PROVE  /\ Kind(h) # "fn" /\ h \in DOMAIN prog /\ Enclosing(h) = Inside(frames[1].owner)
         /\ Enters(gs, h)
<1>1. /\ frames[1].at \in DOMAIN prog /\ Enclosing(frames[1].at) = Inside(frames[1].owner)
      /\ frames[1].owner = 0 \/ frames[1].owner \in DOMAIN prog
  BY ExecutingIs
<1>2. PICK i \in DOMAIN prog : i = frames[1].at
  BY <1>1
<1>3. HasElse(i) => Enclosing(End(i)) = Inside(frames[1].owner)
  BY <1>1, <1>2, AfterInside
<1>4. QED BY <1>1, <1>2, <1>3 DEF EntersBlock, Enters

\* The statement goes on behind its line, or its block is entered.
LEMMA StatementKeeps ==
  ASSUME prog \in Seq(Line), FramesInv, UNCHANGED prog, Executing,
         GoesOn(frames') \/ \E h \in DOMAIN prog : EntersBlock(frames', h),
         result'.is = "value"
  PROVE  FramesInv'
<1>1. FramesOK(frames) /\ AllFound(frames) /\ frames # << >>
  BY ExecutingIs DEF FramesInv
<1>2. PICK gs : gs = frames'
  OBVIOUS
<1>3. Handled(gs, result'.is)
  BY ValueHandled
<1>4. CASE GoesOn(gs)
  <2>1. FramesOK(gs) /\ AllFound(gs)
    BY <1>1, <1>4, FoundReplaced DEF GoesOn, Replaces
  <2>2. QED BY <1>2, <1>3, <2>1, FramesSame
<1>5. CASE \E h \in DOMAIN prog : EntersBlock(gs, h)
  <2>1. PICK h \in DOMAIN prog : EntersBlock(gs, h)
    BY <1>5
  <2>2. Kind(h) # "fn" /\ Enclosing(h) = Inside(frames[1].owner) /\ Enters(gs, h)
    BY <1>1, <2>1, EnteredIs
  <2>3. FramesOK(gs) /\ AllFound(gs)
    BY <1>1, <2>2, FoundEntered DEF Enters
  <2>4. QED BY <1>2, <1>3, <2>3, FramesSame
<1>6. QED BY <1>2, <1>4, <1>5

LEMMA PopKeeps ==
  ASSUME FramesInv, UNCHANGED prog, Pops(frames'), NEW gs, gs = frames',
         Handled(gs, result'.is)
  PROVE  FramesInv'
<1>1. FramesOK(gs) /\ AllFound(gs)
  BY FoundPopped DEF FramesInv, Pops
<1>2. QED BY <1>1, FramesSame

LEMMA TurnKeeps ==
  ASSUME FramesInv, UNCHANGED prog, frames # << >>,
         TurnsBack(frames') \/ Pops(frames'), result'.is = "value"
  PROVE  FramesInv'
<1>1. PICK gs : gs = frames'
  OBVIOUS
<1>2. Handled(gs, result'.is)
  BY ValueHandled
<1>3. CASE TurnsBack(gs)
  <2>1. FramesOK(gs) /\ AllFound(gs)
    BY <1>3, FoundReplaced DEF FramesInv, TurnsBack, Replaces
  <2>2. QED BY <1>1, <1>2, <2>1, FramesSame
<1>4. CASE Pops(gs)
  BY <1>1, <1>2, <1>4, PopKeeps
<1>5. QED BY <1>1, <1>3, <1>4

LEMMA EvaluateKeeps ==
  ASSUME prog \in Seq(Line), Plain, Parsed, FramesInv, UNCHANGED prog, Evaluate
  PROVE  FramesInv'
<1>1. FramesOK(frames) /\ AllFound(frames) /\ Handled(frames, result.is)
  BY DEF FramesInv
<1>2. PICK gs : gs = frames'
  OBVIOUS
<1>3. PICK r : r = result.is
  OBVIOUS
<1>4. CASE Simple
  <2>1. Executing /\ gs = Advanced
    BY <1>2, <1>4 DEF Simple, At
  <2>2. GoesOn(gs) /\ frames # << >>
    BY <1>1, <2>1, AdvancedGoesOn, ExecutingIs
  <2>3. FramesOK(gs) /\ AllFound(gs)
    BY <1>1, <2>2, FoundReplaced DEF GoesOn, Replaces
  <2>4. PICK s : s = result'.is
    OBVIOUS
  <2>5. Handled(frames, s)
    BY <1>1, <1>4, <2>4, SimpleHandled
  <2>6. Handled(gs, s)
    BY <1>1, <2>2, <2>5, HandledReplaced DEF GoesOn
  <2>7. QED BY <1>2, <2>3, <2>4, <2>6, FramesSame
<1>5. CASE FuncDefinition
  <2>1. Executing /\ frames' = Advanced /\ result'.is = "value"
    BY <1>5 DEF FuncDefinition, At, Value
  <2>2. GoesOn(frames')
    BY <1>1, <2>1, AdvancedGoesOn
  <2>3. QED BY <2>1, <2>2, StatementKeeps
<1>6. CASE If
  <2>1. result'.is = "value"
    BY <1>6 DEF If, Null, Value
  <2>2. QED BY <1>1, <1>6, <2>1, IfGoes, StatementKeeps
<1>7. CASE While
  <2>1. result'.is = "value"
    BY <1>7 DEF While, Null, Value
  <2>2. Executing /\ (GoesOn(frames') \/ EntersBlock(frames', frames[1].at)) /\ frames[1].at \in DOMAIN prog
    BY <1>1, <1>7, WhileGoes, ExecutingIs
  <2>3. QED BY <2>1, <2>2, StatementKeeps
<1>8. CASE For
  <2>1. result'.is = "value"
    BY <1>8 DEF For, Null, Value
  <2>2. Executing /\ (GoesOn(frames') \/ EntersBlock(frames', frames[1].at)) /\ frames[1].at \in DOMAIN prog
    BY <1>1, <1>8, ForGoes, ExecutingIs
  <2>3. QED BY <2>1, <2>2, StatementKeeps
<1>9. CASE Call
  <2>1. Executing /\ Kind(Top.at) \in Calls /\ result'.is = "value"
    BY <1>9 DEF Call, At, Null, Value
  <2>2. Top = frames[1] /\ frames[1].at \in DOMAIN prog /\ frames # << >>
    BY <1>1, <2>1, ExecutingIs
  <2>3. Functions # {}
    BY <2>1, <2>2 DEF Parsed
  <2>4. PICK f \in Functions : Enters(gs, f)
    BY <1>1, <1>2, <1>9, <2>3, CallGoes
  <2>5. Enclosing(f) = {}
    BY FlatFunctions
  <2>6. FramesOK(gs) /\ AllFound(gs)
    BY <1>1, <2>2, <2>4, <2>5, FoundEntered DEF Enters
  <2>7. QED BY <1>2, <2>1, <2>6, FramesSame, ValueHandled
<1>10. CASE BranchEnds
  <2>1. Over(Choosers \cup {"else"}) /\ gs = Tail(frames) /\ result' = result
    BY <1>2, <1>10 DEF BranchEnds
  <2>2. frames # << >> /\ Kind(frames[1].owner) \in Choosers \cup {"else"} /\ Pops(gs)
    BY <1>1, <2>1, OverBlock
  <2>3. Handled(gs, r)
    BY <1>1, <1>3, <2>2, HandledPopped DEF Choosers, Loops
  <2>4. QED BY <1>2, <1>3, <2>1, <2>2, <2>3, PopKeeps
<1>11. CASE LoopEnds
  <2>1. /\ Over(Loops) /\ gs = Tail(frames) /\ result' = Left
    BY <1>2, <1>11 DEF LoopEnds
  <2>2. frames # << >> /\ Kind(frames[1].owner) \in Loops /\ Pops(gs)
    BY <1>1, <2>1, OverBlock
  <2>3. Handled(gs, "return") \/ r # "return"
    BY <1>1, <1>3, <2>2, HandledPopped DEF Loops
  <2>4. result'.is = IF r = "return" THEN "return" ELSE "value"
    BY <1>3, <2>1 DEF Left, Null, Value
  <2>5. Handled(gs, result'.is)
    BY <2>3, <2>4, ValueHandled
  <2>6. QED BY <1>2, <2>2, <2>5, PopKeeps
<1>12. CASE WhileAgain
  <2>1. result'.is = "value"
    BY <1>12 DEF WhileAgain, Null, Value
  <2>2. frames # << >> /\ (TurnsBack(frames') \/ Pops(frames'))
    BY <1>1, <1>12, WhileAgainGoes, OverBlock
  <2>3. QED BY <2>1, <2>2, TurnKeeps
<1>13. CASE ForAgain
  <2>1. result'.is = "value"
    BY <1>13 DEF ForAgain, Null, Value
  <2>2. frames # << >> /\ (TurnsBack(frames') \/ Pops(frames'))
    BY <1>1, <1>13, ForAgainGoes, OverBlock
  <2>3. QED BY <2>1, <2>2, TurnKeeps
<1>14. CASE CallEnds
  <2>1. /\ Over({"fn"}) /\ gs = Tail(frames)
        /\ result' = Null \/ result' = Returned
    BY <1>2, <1>14 DEF CallEnds
  <2>2. frames # << >> /\ Kind(frames[1].owner) = "fn" /\ Pops(gs) /\ 1 \in DOMAIN frames
    BY <1>1, <2>1, OverBlock, FrameFacts
  <2>3. r \notin {"break", "continue"}
    <3>1. SUFFICES ASSUME r \in {"break", "continue"} PROVE FALSE
      OBVIOUS
    <3>2. PICK n \in DOMAIN frames :
            /\ Kind(frames[n].owner) \in Loops
            /\ \A k \in 1 .. n - 1 : Kind(frames[k].owner) # "fn"
      BY <1>1, <1>3, <3>1 DEF Handled
    <3>3. n # 1
      BY <2>2, <3>2 DEF Loops
    <3>4. n \in 1 .. Len(frames) /\ Len(frames) \in Nat
      BY <1>1, FrameFacts
    <3>5. 1 \in 1 .. n - 1
      BY <3>3, <3>4
    <3>6. QED BY <2>2, <3>2, <3>5
  <2>4. result'.is = "value"
    <3>1. r = "return" \/ r = "value"
      BY <1>1, <1>3, <2>3 DEF Handled, Signals
    <3>2. QED BY <1>3, <2>1, <3>1 DEF Returned, Null, Value
  <2>5. QED BY <1>2, <2>2, <2>4, PopKeeps, ValueHandled
<1>15. CASE ProgramEnds
  <2>1. gs = << >> /\ result' = result /\ frames[1].owner = 0 /\ frames # << >>
    BY <1>1, <1>2, <1>15, FrameFacts DEF ProgramEnds, Top
  <2>2. FramesOK(gs) /\ AllFound(gs)
    BY <2>1 DEF FramesOK, AllFound
  <2>3. r = "value"
    BY <1>1, <1>3, <2>1, OutermostValue
  <2>4. QED BY <1>2, <1>3, <2>1, <2>2, <2>3, FramesSame, ValueHandled
<1>16. QED BY <1>4, <1>5, <1>6, <1>7, <1>8, <1>9, <1>10, <1>11, <1>12, <1>13, <1>14, <1>15 DEF Evaluate

LEMMA StartFrames ==
  ASSUME prog \in Seq(Line), NEW gs, gs = <<Block(0, 0, 0)>>
  PROVE  FramesOK(gs) /\ AllFound(gs) /\ Len(gs) = 1 /\ gs[1].owner = 0 /\ gs[1].at = 1
<1>1. PICK x : x = Block(0, 0, 0)
  OBVIOUS
<1>2. x \in FrameSet /\ x.owner = 0 /\ x.at = 1
  BY <1>1 DEF Block, FrameSet
<1>3. Len(prog) \in Nat /\ Enclosing(1) = {}
  BY Lines DEF Enclosing
<1>4. AtOK(x)
  BY <1>2, <1>3 DEF AtOK, Limit, Inside
<1>5. gs \in Seq(FrameSet) /\ Len(gs) = 1 /\ gs[1] = x /\ DOMAIN gs = {1}
  BY <1>1, <1>2
<1>6. FramesOK(gs)
  BY <1>2, <1>4, <1>5 DEF FramesOK, FrameOK
<1>7. AllFound(gs)
  BY <1>2, <1>5 DEF AllFound, Inside
<1>8. QED BY <1>2, <1>5, <1>6, <1>7

LEMMA NoFrames ==
  ASSUME frames = << >>, result.is = "value"
  PROVE  FramesInv
BY DEF FramesInv, FramesOK, AllFound, Handled

LEMMA NoFramesNext ==
  ASSUME frames' = << >>, result'.is = "value"
  PROVE  FramesInv'
BY DEF FramesInv, FramesOK, AllFound, Handled

LEMMA FramesStay ==
  ASSUME FramesInv, UNCHANGED <<prog, frames, result>>
  PROVE  FramesInv'
<1>1. PICK gs : gs = frames'
  OBVIOUS
<1>2. FramesOK(gs) /\ AllFound(gs)
  BY <1>1 DEF FramesInv
<1>3. PICK r : r = result.is
  OBVIOUS
<1>4. Handled(gs, r)
  BY <1>1, <1>3 DEF FramesInv
<1>5. Handled(gs, result'.is)
  BY <1>3, <1>4
<1>6. QED BY <1>1, <1>2, <1>5, FramesSame

LEMMA RInvInit == Init => RInv
<1>1. SUFFICES ASSUME Init PROVE RInv
  OBVIOUS
<1>2. prog = << >> /\ frames = << >> /\ result.is = "value"
  BY <1>1 DEF Init, InitInterpreter, Null, Value
<1>3. Parsed
  BY <1>2 DEF Parsed
<1>4. QED BY <1>2, <1>3, NoFrames DEF RInv

LEMMA RInvStep == CInv /\ RInv /\ [Next]_vars => RInv'
<1>1. SUFFICES ASSUME CInv, RInv, [Next]_vars PROVE RInv'
  OBVIOUS
<1>2. prog \in Seq(Line) /\ Plain /\ Parsed /\ FramesInv
  BY <1>1 DEF CInv, ProgramOK, RInv
<1>3. phase \in {"write", "compile"} => frames = << >> /\ result.is = "value"
  BY <1>1 DEF RInv, FramesInv, Handled, Signals
<1>4. ASSUME UNCHANGED <<prog, frames, result>>,
             phase' \in {"write", "compile"} => phase \in {"write", "compile"}
      PROVE  RInv'
  <2>1. Parsed' /\ FramesInv'
    BY <1>2, <1>4, ParsedSame, FramesStay
  <2>2. QED BY <1>3, <1>4, <2>1 DEF RInv
<1>5. CASE Writing(Plain')
  <2>1. Parsed' /\ phase = "write" /\ UNCHANGED <<frames, result, phase>>
    BY <1>5 DEF Writing, Write, interp
  <2>2. FramesInv'
    BY <1>3, <2>1, NoFramesNext
  <2>3. QED BY <1>3, <2>1, <2>2 DEF RInv
<1>6. CASE Submit(EndsPlainly) \/ Compiling1 \/ StartRun \/ Execute \/ Finished \/ UNCHANGED vars
  <2>1. UNCHANGED <<prog, frames, result>>
    BY <1>6 DEF Submit, Compiling1, StartRun, Execute, Finished, vars, interp, Run,
       Do, StartLoop, StepLoop, Goto, Branch, BranchOnCount, ReturnTo, Exit
  <2>2. phase' \in {"write", "compile"} => phase \in {"write", "compile"}
    BY <1>6 DEF Submit, Compiling1, StartRun, Execute, Finished, vars, Run,
       Do, StartLoop, StepLoop, Goto, Branch, BranchOnCount, ReturnTo, Exit
  <2>3. QED BY <1>4, <2>1, <2>2
<1>7. CASE StartEvaluation
  <2>1. /\ phase = "compile" /\ phase' = "evaluate" /\ frames' = <<Block(0, 0, 0)>>
        /\ UNCHANGED <<prog, result>>
    BY <1>7 DEF StartEvaluation
  <2>2. PICK gs : gs = frames'
    OBVIOUS
  <2>3. FramesOK(gs) /\ AllFound(gs)
    BY <1>2, <2>1, <2>2, StartFrames
  <2>4. Handled(gs, result'.is)
    BY <1>3, <2>1, ValueHandled
  <2>5. FramesInv'
    BY <2>1, <2>2, <2>3, <2>4, FramesSame
  <2>6. QED BY <1>2, <2>1, <2>5, ParsedSame DEF RInv
<1>8. CASE Evaluating
  <2>1. Evaluate /\ phase = "evaluate" /\ UNCHANGED <<prog, phase>>
    BY <1>8 DEF Evaluating
  <2>2. FramesInv'
    BY <1>2, <2>1, EvaluateKeeps
  <2>3. QED BY <1>2, <2>1, <2>2, ParsedSame DEF RInv
<1>9. QED BY <1>1, <1>5, <1>6, <1>7, <1>8 DEF Next, Work

\* The interpreter leaves the program at its end and nowhere else: each break,
\* continue and return is taken by a loop or a call of its own function, on
\* whatever way the blocks in between were entered.
THEOREM EnginesRunsToTheEnd == Spec => RunsToTheEnd
<1>1. ASSUME CInv, RInv, ProgramEnds
      PROVE  result.is = "value" /\ frames[1].at = Len(prog) + 1
  <2>1. prog \in Seq(Line) /\ FramesOK(frames) /\ Handled(frames, result.is)
    BY <1>1 DEF CInv, ProgramOK, RInv, FramesInv
  <2>2. frames # << >> /\ ~Executing /\ frames[1].owner = 0
    BY <1>1, <2>1, FrameFacts DEF ProgramEnds, Top
  <2>3. result.is = "value"
    BY <2>1, <2>2, OutermostValue
  <2>4. frames[1].at = Limit(0)
    BY <2>1, <2>2, <2>3, EndOfBlock
  <2>5. QED BY <2>3, <2>4 DEF Limit
<1>2. QED BY <1>1, CInvInit, CInvStep, RInvInit, RInvStep, PTL DEF Spec, RunsToTheEnd

-----------------------------------------------------------------------------
(* Where a variable lives (Slots).  What the compiler makes of a text, which *)
(* has at most one function.                                               *)

TextOK == prog \in Seq(Line) /\ Parsed /\ Checked /\ Tidy

Outer == FirstBinder(0)

LEMMA OneFunction ==
  ASSUME prog \in Seq(Line), Parsed, NEW f \in Functions, NEW g \in Functions
  PROVE  f = g
<1>1. DOMAIN prog = 1 .. Len(prog) /\ Len(prog) \in Nat /\ f \in DOMAIN prog /\ g \in DOMAIN prog
      /\ Kind(f) = "fn" /\ Kind(g) = "fn"
  BY Lines DEF Functions
<1>2. Functions \cap 1 .. f - 1 = {} /\ Functions \cap 1 .. g - 1 = {}
  BY <1>1 DEF Parsed
<1>3. ~(g < f) /\ ~(f < g)
  BY <1>1, <1>2
<1>4. QED BY <1>1, <1>3

\* A function is defined in the text, and the lines of its body are its own.
LEMMA FunctionOfIs ==
  ASSUME prog \in Seq(Line), Parsed, NEW i \in DOMAIN prog
  PROVE  /\ FunctionOf(i) = 0 <=> Enclosing(i) \cap Functions = {}
         /\ FunctionOf(i) # 0 => FunctionOf(i) \in Enclosing(i) \cap Functions
         /\ \A f \in Enclosing(i) \cap Functions : FunctionOf(i) = f
         /\ Kind(i) = "fn" => FunctionOf(i) = 0 /\ i \in Functions
<1>1. \A f \in Enclosing(i) : f \in DOMAIN prog /\ f # 0 /\ f < i /\ f \in Nat /\ i \in Nat
  BY EnclosingIs, Lines
<1>2. Enclosing(i) \cap Functions # {} => FunctionOf(i) \in Enclosing(i) \cap Functions
  BY DEF FunctionOf
<1>3. Enclosing(i) \cap Functions = {} => FunctionOf(i) = 0
  BY DEF FunctionOf
<1>4. Kind(i) = "fn" => Enclosing(i) \cap Functions = {} /\ i \in Functions
  <2>1. HAVE Kind(i) = "fn"
  <2>2. i \in Functions
    BY <2>1 DEF Functions
  <2>3. \A f \in Functions : f = i
    BY <2>2, OneFunction
  <2>4. QED BY <1>1, <2>2, <2>3
<1>5. \A f \in Enclosing(i) \cap Functions : FunctionOf(i) = f
  BY <1>2, OneFunction
<1>6. QED BY <1>1, <1>2, <1>3, <1>4, <1>5

LEMMA FirstBinderIs ==
  ASSUME prog \in Seq(Line), NEW f
  PROVE  /\ Binders(f) = {} <=> FirstBinder(f) = 0
         /\ Binders(f) # {} => /\ FirstBinder(f) \in Binders(f)
                               /\ \A i \in Binders(f) : FirstBinder(f) <= i
         /\ FirstBinder(f) \in Nat
         /\ \A i \in Binders(f) : /\ i \in DOMAIN prog /\ i \in Nat /\ i # 0
                                  /\ Kind(i) \in {"expr", "for"} /\ FunctionOf(i) = f
<1>1. DOMAIN prog \subseteq Nat /\ 0 \notin DOMAIN prog
  BY Lines
<1>2. \A i \in Binders(f) : /\ i \in DOMAIN prog /\ i \in Nat /\ i # 0
                            /\ Kind(i) \in {"expr", "for"} /\ FunctionOf(i) = f
  BY <1>1 DEF Binders
<1>3. ASSUME Binders(f) # {}
      PROVE  FirstBinder(f) \in Binders(f) /\ \A i \in Binders(f) : FirstBinder(f) <= i
  <2>1. \E d \in Binders(f) : \A c \in Binders(f) : d <= c
    BY <1>2, <1>3, Least
  <2>2. FirstBinder(f) = Min(Binders(f))
    BY <1>3 DEF FirstBinder
  <2>3. QED BY <2>1, <2>2 DEF Min
<1>4. Binders(f) = {} => FirstBinder(f) = 0
  BY DEF FirstBinder
<1>5. QED BY <1>2, <1>3, <1>4

LEMMA CapturesIs ==
  ASSUME prog \in Seq(Line), NEW f \in Functions, Captures(f)
  PROVE  /\ Outer \in DOMAIN prog /\ Outer \in Nat /\ f \in Nat /\ f \in DOMAIN prog
         /\ Outer < f /\ Outer # 0 /\ Binders(0) # {} /\ FunctionOf(Outer) = 0
         /\ Kind(Outer) \in {"expr", "for"}
<1>1. f \in DOMAIN prog /\ f \in Nat
  BY Lines DEF Functions
<1>2. FirstBinder(0) \in 1 .. f - 1
  BY DEF Captures
<1>3. Binders(0) # {} /\ FirstBinder(0) \in Binders(0)
  BY <1>2, FirstBinderIs
<1>4. QED BY <1>1, <1>2, <1>3, FirstBinderIs DEF Outer

\* The text does not change while it is run.
LEMMA TextSame ==
  ASSUME UNCHANGED <<prog, nested>>
  PROVE  /\ \A f : Binders(f)' = Binders(f) /\ FirstBinder(f)' = FirstBinder(f)
                   /\ Mentions(f)' = Mentions(f) /\ (Captures(f)' <=> Captures(f))
         /\ \A i : Place(i)' = Place(i)
         /\ \A i, j : Dominates(i, j)' <=> Dominates(i, j)
         /\ TextOK' <=> TextOK
<1>1. /\ prog' = prog /\ nested' = nested /\ Functions' = Functions
      /\ \A i : /\ Kind(i)' = Kind(i) /\ Enclosing(i)' = Enclosing(i)
                /\ FunctionOf(i)' = FunctionOf(i) /\ LoopsAround(i)' = LoopsAround(i)
  BY ProgramSame
<1>2. \A f : Binders(f)' = Binders(f) /\ Mentions(f)' = Mentions(f)
  BY <1>1 DEF Binders, Mentions
<1>3. \A f : FirstBinder(f)' = FirstBinder(f)
  BY <1>2 DEF FirstBinder
<1>4. \A f : Captures(f)' <=> Captures(f)
  BY <1>1, <1>2, <1>3 DEF Captures
<1>5. \A i, j : Dominates(i, j)' <=> Dominates(i, j)
  BY <1>1 DEF Dominates
<1>6. \A i : Place(i)' = Place(i)
  <2>1. ASSUME NEW i PROVE Place(i)' = Place(i)
    <3>1. PICK f : f = FunctionOf(i)
      OBVIOUS
    <3>2. f = FunctionOf(i)'
      BY <1>1, <3>1
    <3>3. /\ Captures(FunctionOf(i))' <=> Captures(FunctionOf(i))
          /\ FirstBinder(FunctionOf(i))' = FirstBinder(FunctionOf(i))
      BY <1>3, <1>4, <3>1, <3>2
    <3>4. QED BY <1>1, <1>4, <3>3 DEF Place
  <2>2. QED BY <2>1
<1>7. Parsed' <=> Parsed
  BY ParsedSame
<1>8. Checked' <=> Checked
  <2>1. ASSUME NEW i PROVE Binders(FunctionOf(i))' = Binders(FunctionOf(i))
    BY <1>1, <1>2
  <2>2. QED BY <1>1, <1>2, <2>1 DEF Checked
<1>9. BoundAbove' <=> BoundAbove
  <2>1. ASSUME NEW i, NEW j
        PROVE  Dominates(FirstBinder(FunctionOf(i)), j)' <=> Dominates(FirstBinder(FunctionOf(i)), j)
    BY <1>1, <1>3, <1>5
  <2>2. ASSUME NEW j PROVE Dominates(FirstBinder(0), j)' <=> Dominates(FirstBinder(0), j)
    BY <1>3, <1>5
  <2>3. QED BY <1>1, <1>4, <1>5, <1>6, <2>1, <2>2 DEF BoundAbove
<1>10. SharedByCapture' <=> SharedByCapture
  BY <1>1, <1>2, <1>4 DEF SharedByCapture
<1>11. CapturedAfresh' <=> CapturedAfresh
  <2>1. Enclosing(FirstBinder(0))' = Enclosing(FirstBinder(0))
    BY <1>1, <1>3
  <2>2. QED BY <1>1, <1>4, <2>1 DEF CapturedAfresh
<1>12. TextOK' <=> TextOK
  BY <1>1, <1>7, <1>8, <1>9, <1>10, <1>11 DEF TextOK, Tidy
<1>13. QED BY <1>2, <1>3, <1>4, <1>5, <1>6, <1>12

-----------------------------------------------------------------------------
(* Where the frames are in the text.                                       *)

\* A frame executes lines of the text, and not of the function.
InText(fr) == Inside(fr.owner) \cap Functions = {}

\* Above a frame of the function all frames are of the function.
Leveled(fs) ==
  \A k, m \in DOMAIN fs : k < m /\ ~InText(fs[m]) => ~InText(fs[k])

\* The frames below are behind the statement whose block a frame executes, at
\* or right behind the whole statement.
Behind(o, fr) ==
  /\ End(o) <= fr.at
  /\ \A j \in DOMAIN prog :
       o < j /\ j < fr.at /\ Kind(j) # "else" =>
         ~(Enclosing(j) \subseteq Inside(fr.owner))

Gaps(fs) ==
  \A k, m \in DOMAIN fs : k < m /\ InText(fs[k]) => Behind(fs[k].owner, fs[m])

WalkOK(fs) == FramesOK(fs) /\ Leveled(fs) /\ Gaps(fs)

\* Frame fr has come by line j, whatever choices were made.
Reached(j, fr) ==
  /\ j < fr.at
  /\ Enclosing(j) \subseteq Inside(fr.owner)
  /\ Kind(j) = "for" => j \in Inside(fr.owner)

\* Frame gr of the block of fr is behind statement i, at which fr is.
LEMMA OnReached ==
  ASSUME prog \in Seq(Line), NEW i \in DOMAIN prog, NEW fr, NEW gr,
         fr.at = i, gr.owner = fr.owner, gr.at = After(i), Enclosing(i) = Inside(fr.owner),
         NEW j \in DOMAIN prog, Kind(j) # "else", Reached(j, gr)
  PROVE  Reached(j, fr) \/ (j = i /\ Kind(i) # "for")
<1>1. i \in Nat /\ j \in Nat /\ After(i) \in Nat
  BY Lines, AfterIs
<1>2. j < After(i) /\ Enclosing(j) \subseteq Inside(fr.owner)
      /\ (Kind(j) = "for" => j \in Inside(fr.owner))
  BY DEF Reached
<1>3. ~(i < j)
  BY <1>2, OnlyInside
<1>4. i \notin Enclosing(i)
  BY EnclosingIs
<1>5. CASE j < i
  BY <1>2, <1>5 DEF Reached
<1>6. CASE j = i
  BY <1>2, <1>4, <1>6
<1>7. QED BY <1>1, <1>3, <1>5, <1>6

\* Frame gr is at the start of the block of h, a statement at fr or its else.
LEMMA IntoReached ==
  ASSUME prog \in Seq(Line), NEW i \in DOMAIN prog, NEW h \in DOMAIN prog, NEW fr, NEW gr,
         fr.at = i, gr.owner = h, gr.at = h + 1, Enclosing(i) = Inside(fr.owner),
         Enclosing(h) = Inside(fr.owner),
         h = i \/ (HasElse(i) /\ h = End(i) /\ Kind(h) = "else"),
         NEW j \in DOMAIN prog, Kind(j) # "else", Reached(j, gr)
  PROVE  Reached(j, fr) \/ j = i
<1>1. i \in Nat /\ j \in Nat /\ h \in Nat /\ h # 0 /\ h < End(h) /\ End(h) \in Nat
  BY Lines, EndIs
<1>2. j < h + 1 /\ Enclosing(j) \subseteq Inside(h) /\ (Kind(j) = "for" => j \in Inside(h))
  BY DEF Reached
<1>3. h \notin Enclosing(j) /\ Inside(h) = {h} \cup Enclosing(h)
  BY <1>1, <1>2, EnclosingIs DEF Inside
<1>4. Enclosing(j) \subseteq Inside(fr.owner)
  BY <1>2, <1>3
<1>5. CASE j = h
  BY <1>5
<1>6. CASE j # h
  <2>1. Kind(j) = "for" => j \in Inside(fr.owner)
    BY <1>2, <1>3, <1>6
  <2>2. j < h
    BY <1>1, <1>2, <1>6
  <2>3. ~(i < j)
    <3>1. SUFFICES ASSUME i < j PROVE FALSE
      OBVIOUS
    <3>2. h # i /\ After(i) = End(End(i)) /\ h = End(i)
      BY <1>1, <2>2, <3>1 DEF After
    <3>3. j < After(i)
      BY <1>1, <2>2, <3>2
    <3>4. QED BY <1>4, <3>1, <3>3, OnlyInside
  <2>4. CASE j < i
    BY <1>4, <2>1, <2>4 DEF Reached
  <2>5. QED BY <1>1, <2>3, <2>4
<1>7. QED BY <1>5, <1>6

\* Frame gr is back at the start of the loop whose block fr executes.
LEMMA BackReached ==
  ASSUME prog \in Seq(Line), NEW o \in DOMAIN prog, NEW fr, NEW gr,
         fr.owner = o, gr.owner = o, gr.at = o + 1, fr.at \in Nat, o < fr.at,
         NEW j \in DOMAIN prog, Reached(j, gr)
  PROVE  j = o \/ (j < o /\ Reached(j, fr))
<1>1. j \in Nat /\ o \in Nat
  BY Lines
<1>2. j < o + 1 /\ Enclosing(j) \subseteq Inside(o) /\ (Kind(j) = "for" => j \in Inside(o))
  BY DEF Reached
<1>3. CASE j < o
  BY <1>1, <1>2, <1>3 DEF Reached
<1>4. QED BY <1>1, <1>2, <1>3

LEMMA WalkReplaced ==
  ASSUME WalkOK(frames), frames # << >>, NEW gs, NEW a, Replaces(gs, frames[1].owner, a)
  PROVE  WalkOK(gs)
<1>1. /\ FramesOK(gs) /\ DOMAIN gs = 1 .. Len(frames) /\ DOMAIN frames = 1 .. Len(frames)
      /\ Len(frames) \in Nat
      /\ gs[1].owner = frames[1].owner /\ \A k \in 2 .. Len(frames) : gs[k] = frames[k]
  BY FrameFacts DEF Replaces, WalkOK
<1>2. \A k \in DOMAIN gs : gs[k].owner = frames[k].owner /\ (k # 1 => gs[k] = frames[k])
  <2>1. ASSUME NEW k \in DOMAIN gs PROVE gs[k].owner = frames[k].owner /\ (k # 1 => gs[k] = frames[k])
    <3>1. k = 1 \/ k \in 2 .. Len(frames)
      BY <1>1
    <3>2. QED BY <1>1, <3>1
  <2>2. QED BY <2>1
<1>3. \A k \in DOMAIN gs : InText(gs[k]) <=> InText(frames[k])
  BY <1>2 DEF InText
<1>4. Leveled(gs)
  BY <1>1, <1>3 DEF WalkOK, Leveled
<1>5. ASSUME NEW k \in DOMAIN gs, NEW m \in DOMAIN gs, k < m, InText(gs[k])
      PROVE  Behind(gs[k].owner, gs[m])
  <2>1. m # 1
    BY <1>1, <1>5
  <2>2. Behind(frames[k].owner, frames[m])
    BY <1>1, <1>3, <1>5 DEF WalkOK, Gaps
  <2>3. QED BY <1>2, <2>1, <2>2
<1>6. QED BY <1>1, <1>4, <1>5 DEF WalkOK, Gaps

LEMMA WalkPopped ==
  ASSUME WalkOK(frames), NEW gs, Pops(gs)
  PROVE  WalkOK(gs)
<1>1. /\ FramesOK(gs) /\ DOMAIN frames = 1 .. Len(frames) /\ Len(frames) \in Nat
      /\ \A k \in DOMAIN gs : k \in Nat /\ k + 1 \in DOMAIN frames /\ gs[k] = frames[k + 1]
  BY FrameFacts DEF Pops, WalkOK
<1>2. ASSUME NEW k \in DOMAIN gs, NEW m \in DOMAIN gs, k < m
      PROVE  /\ ~InText(gs[m]) => ~InText(gs[k])
             /\ InText(gs[k]) => Behind(gs[k].owner, gs[m])
  <2>1. PICK p \in DOMAIN frames : p = k + 1 /\ gs[k] = frames[p]
    BY <1>1
  <2>2. PICK q \in DOMAIN frames : q = m + 1 /\ gs[m] = frames[q]
    BY <1>1
  <2>3. p < q
    BY <1>1, <1>2, <2>1, <2>2
  <2>4. QED BY <2>1, <2>2, <2>3 DEF WalkOK, Leveled, Gaps
<1>3. QED BY <1>1, <1>2 DEF WalkOK, Leveled, Gaps

\* A new first frame x, where the frame below it has gone on.
LEMMA WalkPushed ==
  ASSUME WalkOK(frames), frames # << >>, NEW gs, NEW h, Enters(gs, h),
         InText(gs[1]) => InText(frames[1]),
         ~InText(frames[1]) => ~InText(gs[1]),
         InText(gs[1]) => \A m \in DOMAIN gs : 1 < m => Behind(h, gs[m])
  PROVE  WalkOK(gs)
<1>1. /\ FramesOK(gs) /\ DOMAIN gs = 1 .. Len(frames) + 1 /\ DOMAIN frames = 1 .. Len(frames)
      /\ Len(frames) \in Nat /\ Len(frames) >= 1
      /\ gs[1].owner = h /\ gs[2].owner = frames[1].owner
      /\ \A k \in 3 .. Len(frames) + 1 : k - 1 \in DOMAIN frames /\ gs[k] = frames[k - 1]
  BY FrameFacts DEF Enters, WalkOK
<1>2. ASSUME NEW k \in DOMAIN gs, k # 1
      PROVE  \E n \in DOMAIN frames : /\ k = n + 1 /\ gs[k].owner = frames[n].owner
                                      /\ n # 1 => gs[k] = frames[n]
  <2>1. k = 2 \/ k \in 3 .. Len(frames) + 1
    BY <1>1, <1>2
  <2>2. CASE k = 2
    <3>1. 1 \in DOMAIN frames /\ k = 1 + 1
      BY <1>1, <2>2
    <3>2. QED BY <1>1, <2>2, <3>1
  <2>3. CASE k \in 3 .. Len(frames) + 1
    <3>1. k - 1 \in DOMAIN frames /\ k = k - 1 + 1 /\ gs[k] = frames[k - 1]
      BY <1>1, <2>3
    <3>2. QED BY <3>1
  <2>4. QED BY <2>1, <2>2, <2>3
<1>3. ASSUME NEW k \in DOMAIN gs, NEW m \in DOMAIN gs, k < m
      PROVE  /\ ~InText(gs[m]) => ~InText(gs[k])
             /\ InText(gs[k]) => Behind(gs[k].owner, gs[m])
  <2>1. m # 1
    BY <1>1, <1>3
  <2>2. PICK q \in DOMAIN frames : /\ m = q + 1 /\ gs[m].owner = frames[q].owner
                                   /\ q # 1 => gs[m] = frames[q]
    BY <1>2, <2>1
  <2>3. CASE k = 1
    <3>1. ~InText(frames[q]) => ~InText(frames[1])
      <4>1. 1 \in DOMAIN frames /\ (q = 1 \/ 1 < q)
        BY <1>1
      <4>2. QED BY <4>1 DEF WalkOK, Leveled
    <3>2. InText(gs[m]) <=> InText(frames[q])
      BY <2>2 DEF InText
    <3>3. QED BY <1>1, <1>3, <2>3, <3>1, <3>2
  <2>4. CASE k # 1
    <3>1. PICK p \in DOMAIN frames : k = p + 1 /\ gs[k].owner = frames[p].owner
      BY <1>2, <2>4
    <3>2. p < q /\ q # 1
      BY <1>1, <1>3, <2>2, <3>1
    <3>3. (InText(gs[k]) <=> InText(frames[p])) /\ gs[m] = frames[q]
      BY <2>2, <3>1, <3>2 DEF InText
    <3>4. QED BY <3>1, <3>2, <3>3 DEF WalkOK, Leveled, Gaps
  <2>5. QED BY <2>3, <2>4
<1>4. QED BY <1>1, <1>3 DEF WalkOK, Leveled, Gaps

LEMMA WalkCalled ==
  ASSUME prog \in Seq(Line), WalkOK(frames), frames # << >>,
         NEW gs, NEW f \in Functions, Enters(gs, f)
  PROVE  WalkOK(gs)
<1>1. f \in DOMAIN prog /\ gs[1].owner = f /\ f # 0
  BY Lines DEF Enters
<1>2. ~InText(gs[1])
  BY <1>1 DEF InText, Inside
<1>3. QED BY <1>2, WalkPushed

LEMMA WalkEntered ==
  ASSUME prog \in Seq(Line), WalkOK(frames), Executing, NEW gs, NEW h, EntersBlock(gs, h)
  PROVE  WalkOK(gs) /\ (InText(gs[1]) <=> InText(frames[1]))
<1>1. /\ frames # << >> /\ frames[1].at \in DOMAIN prog
      /\ Enclosing(frames[1].at) = Inside(frames[1].owner)
      /\ frames[1].owner \in Nat /\ (frames[1].owner = 0 \/ frames[1].owner \in DOMAIN prog)
      /\ frames[1].owner < frames[1].at
      /\ Kind(h) # "fn" /\ h \in DOMAIN prog /\ Enclosing(h) = Inside(frames[1].owner)
      /\ Enters(gs, h)
  BY ExecutingIs, EnteredIs DEF WalkOK
<1>2. PICK i \in DOMAIN prog : i = frames[1].at
  BY <1>1
<1>3. PICK o \in Nat : o = frames[1].owner
  BY <1>1
<1>4. /\ FramesOK(gs) /\ DOMAIN gs = 1 .. Len(frames) + 1 /\ DOMAIN frames = 1 .. Len(frames)
      /\ Len(frames) \in Nat /\ Len(frames) >= 1
      /\ gs[1].owner = h /\ gs[2].owner = o /\ gs[2].at = After(i)
      /\ \A k \in 3 .. Len(frames) + 1 : k - 1 \in DOMAIN frames /\ gs[k] = frames[k - 1]
      /\ h = i \/ (HasElse(i) /\ h = End(i))
  BY <1>1, <1>2, <1>3, FrameFacts DEF Enters, EntersBlock, WalkOK
<1>5. /\ i \in Nat /\ h \in Nat /\ h # 0 /\ i <= h /\ o < i
      /\ End(h) \in Nat /\ After(i) \in Nat /\ End(h) <= After(i)
  <2>1. /\ i \in Nat /\ h \in Nat /\ h # 0 /\ o < i /\ End(h) \in Nat /\ After(i) \in Nat
        /\ i < End(i) /\ End(i) \in Nat
    <3>1. i \in Nat /\ h \in Nat /\ h # 0 /\ o < i
      BY <1>1, <1>2, <1>3, Lines
    <3>2. End(h) \in Nat /\ End(i) \in Nat /\ i < End(i)
      BY <1>1, EndIs
    <3>3. After(i) \in Nat
      BY AfterIs
    <3>4. QED BY <3>1, <3>2, <3>3
  <2>2. CASE h = i
    <3>1. End(i) <= After(i)
      BY AfterIs
    <3>2. QED BY <2>1, <2>2, <3>1
  <2>3. CASE HasElse(i) /\ h = End(i)
    <3>1. After(i) = End(h)
      BY <2>3 DEF After
    <3>2. QED BY <2>1, <2>3, <3>1
  <2>4. QED BY <1>4, <2>2, <2>3
<1>6. Inside(h) = {h} \cup Inside(o)
  BY <1>1, <1>3, <1>5 DEF Inside
<1>7. InText(gs[1]) <=> InText(frames[1])
  BY <1>1, <1>3, <1>4, <1>6 DEF InText, Functions
<1>8. Behind(h, gs[2])
  <2>1. ASSUME NEW j \in DOMAIN prog, h < j, j < After(i), Kind(j) # "else"
        PROVE  ~(Enclosing(j) \subseteq Inside(o))
    <3>1. i < j
      BY <1>5, <2>1, Lines
    <3>2. QED BY <1>1, <1>2, <1>3, <2>1, <3>1, OnlyInside
  <2>2. QED BY <1>4, <1>5, <2>1 DEF Behind
<1>9. ASSUME NEW m \in DOMAIN gs, m # 1, m # 2, InText(gs[1]) PROVE Behind(h, gs[m])
  <2>1. m \in 3 .. Len(frames) + 1
    BY <1>4, <1>9
  <2>2. PICK n \in DOMAIN frames : n = m - 1 /\ gs[m] = frames[n] /\ 1 < n /\ 1 \in DOMAIN frames
    BY <1>4, <2>1
  <2>3. Behind(o, frames[n])
    BY <1>3, <1>7, <1>9, <2>2 DEF WalkOK, Gaps
  <2>4. o # 0 /\ o \in DOMAIN prog
    <3>1. 1 # Len(frames)
      BY <1>4, <2>2
    <3>2. o # 0
      BY <1>3, <2>2, <3>1 DEF WalkOK, FramesOK, FrameOK
    <3>3. QED BY <1>1, <1>3, <3>2
  <2>5. End(h) <= End(o) /\ End(o) \in Nat
    <3>1. o \in Enclosing(h)
      BY <1>1, <1>3, <2>4 DEF Inside
    <3>2. QED BY <1>1, <2>4, <3>1, Nested, EndIs
  <2>6. frames[n].at \in Nat
    BY FrameFacts DEF WalkOK
  <2>7. End(h) <= frames[n].at
    BY <1>5, <2>3, <2>5, <2>6 DEF Behind
  <2>8. \A j \in DOMAIN prog : h < j => o < j
    BY <1>5, Lines
  <2>9. QED BY <2>2, <2>3, <2>7, <2>8 DEF Behind
<1>10. InText(gs[1]) => \A m \in DOMAIN gs : 1 < m => Behind(h, gs[m])
  <2>1. \A m \in DOMAIN gs : 1 < m => m # 1
    BY <1>4
  <2>2. QED BY <1>8, <1>9, <2>1
<1>11. WalkOK(gs)
  BY <1>1, <1>7, <1>10, WalkPushed
<1>12. QED BY <1>7, <1>11

-----------------------------------------------------------------------------
(* A step of the walk takes a frame past no line that matters, but for the  *)
(* line e that is executed by the step.                                    *)

Matters(j) == j \in DOMAIN prog /\ Kind(j) \in {"expr", "for", "fn"}

\* What frame gr has come by, a frame before the step had come by already.
Came(gr, e) ==
  \A j : Matters(j) /\ j # e /\ Reached(j, gr) /\ (InText(gr) <=> FunctionOf(j) = 0) =>
    \E n \in DOMAIN frames :
      /\ Reached(j, frames[n]) /\ (InText(frames[n]) <=> InText(gr))
      /\ j = Outer => \A f \in Functions : Captures(f) /\ gr.at <= f => frames[n].at <= f

Moved(gs, e) == \A k \in DOMAIN gs : Came(gs[k], e)

SameLevels(gs) ==
  \A k \in DOMAIN gs : \E n \in DOMAIN frames : InText(frames[n]) <=> InText(gs[k])

LEMMA CameSame ==
  ASSUME NEW n \in DOMAIN frames, NEW e
  PROVE  Came(frames[n], e)
BY DEF Came

LEMMA CameOn ==
  ASSUME prog \in Seq(Line), FramesOK(frames), Executing, NEW gr, NEW e,
         gr.owner = frames[1].owner, gr.at = After(frames[1].at),
         e = frames[1].at \/ Kind(frames[1].at) \notin {"expr", "fn"}
  PROVE  Came(gr, e) /\ (InText(gr) <=> InText(frames[1]))
<1>1. /\ 1 \in DOMAIN frames /\ frames[1].at \in DOMAIN prog
      /\ Enclosing(frames[1].at) = Inside(frames[1].owner)
  BY ExecutingIs
<1>2. PICK i \in DOMAIN prog : i = frames[1].at
  BY <1>1
<1>3. i \in Nat /\ After(i) \in Nat /\ i < After(i)
  BY Lines, AfterIs
<1>4. InText(gr) <=> InText(frames[1])
  BY DEF InText
<1>5. ASSUME NEW j, Matters(j), j # e, Reached(j, gr) PROVE Reached(j, frames[1])
  <2>1. j \in DOMAIN prog /\ Kind(j) \in {"expr", "for", "fn"}
    BY <1>5 DEF Matters
  <2>2. Reached(j, frames[1]) \/ (j = i /\ Kind(i) # "for")
    <3>1. Kind(j) # "else"
      BY <2>1
    <3>2. PICK fr : fr = frames[1]
      OBVIOUS
    <3>3. fr.at = i /\ gr.owner = fr.owner /\ gr.at = After(i) /\ Enclosing(i) = Inside(fr.owner)
      BY <1>1, <1>2, <3>2
    <3>4. Reached(j, fr) \/ (j = i /\ Kind(i) # "for")
      BY <1>5, <2>1, <3>1, <3>3, OnReached
    <3>5. QED BY <3>2, <3>4
  <2>3. QED BY <1>2, <1>5, <2>1, <2>2
<1>6. \A f \in Functions : gr.at <= f => frames[1].at <= f
  <2>1. \A f \in Functions : f \in Nat
    BY Lines DEF Functions
  <2>2. QED BY <1>2, <1>3, <2>1
<1>7. QED BY <1>1, <1>4, <1>5, <1>6 DEF Came

LEMMA MovedOn ==
  ASSUME prog \in Seq(Line), FramesOK(frames), Executing, NEW gs, GoesOn(gs), NEW e,
         e = frames[1].at \/ Kind(frames[1].at) \notin {"expr", "fn"}
  PROVE  Moved(gs, e) /\ SameLevels(gs)
<1>1. /\ DOMAIN gs = 1 .. Len(frames) /\ DOMAIN frames = 1 .. Len(frames) /\ Len(frames) \in Nat
      /\ gs[1].owner = frames[1].owner /\ gs[1].at = After(frames[1].at)
      /\ \A k \in 2 .. Len(frames) : gs[k] = frames[k]
  BY FrameFacts DEF GoesOn, Replaces
<1>2. Came(gs[1], e) /\ (InText(gs[1]) <=> InText(frames[1])) /\ 1 \in DOMAIN frames
  BY <1>1, CameOn, ExecutingIs
<1>3. ASSUME NEW k \in DOMAIN gs
      PROVE  Came(gs[k], e) /\ \E n \in DOMAIN frames : InText(frames[n]) <=> InText(gs[k])
  <2>1. k = 1 \/ k \in 2 .. Len(frames)
    BY <1>1
  <2>2. k \in 2 .. Len(frames) => k \in DOMAIN frames /\ gs[k] = frames[k]
    BY <1>1
  <2>3. QED BY <1>2, <2>1, <2>2, CameSame
<1>4. QED BY <1>3 DEF Moved, SameLevels

LEMMA MovedInto ==
  ASSUME prog \in Seq(Line), WalkOK(frames), Executing, NEW gs, NEW h, EntersBlock(gs, h), NEW e,
         e = frames[1].at \/ Kind(frames[1].at) \notin {"expr", "for", "fn"}
  PROVE  Moved(gs, e) /\ SameLevels(gs)
<1>1. /\ 1 \in DOMAIN frames /\ frames[1].at \in DOMAIN prog /\ FramesOK(frames)
      /\ Enclosing(frames[1].at) = Inside(frames[1].owner)
      /\ h \in DOMAIN prog /\ Enclosing(h) = Inside(frames[1].owner)
      /\ Enters(gs, h) /\ (InText(gs[1]) <=> InText(frames[1]))
  BY ExecutingIs, EnteredIs, WalkEntered DEF WalkOK
<1>2. PICK i \in DOMAIN prog : i = frames[1].at
  BY <1>1
<1>3. /\ DOMAIN gs = 1 .. Len(frames) + 1 /\ DOMAIN frames = 1 .. Len(frames) /\ Len(frames) \in Nat
      /\ gs[1].owner = h /\ gs[1].at = h + 1
      /\ gs[2].owner = frames[1].owner /\ gs[2].at = After(frames[1].at)
      /\ \A k \in 3 .. Len(frames) + 1 : k - 1 \in DOMAIN frames /\ gs[k] = frames[k - 1]
      /\ h = i \/ (HasElse(i) /\ h = End(i) /\ Kind(h) = "else")
  BY <1>1, <1>2, FrameFacts DEF Enters, EntersBlock
<1>4. Came(gs[2], e) /\ (InText(gs[2]) <=> InText(frames[1]))
  BY <1>1, <1>3, CameOn
<1>5. ASSUME NEW j, Matters(j), j # e, Reached(j, gs[1]) PROVE Reached(j, frames[1])
  <2>1. j \in DOMAIN prog /\ Kind(j) \in {"expr", "for", "fn"} /\ Kind(j) # "else"
    BY <1>5 DEF Matters
  <2>2. PICK fr : fr = frames[1]
    OBVIOUS
  <2>3. PICK gr : gr = gs[1]
    OBVIOUS
  <2>4. Reached(j, fr) \/ j = i
    <3>1. fr.at = i /\ gr.owner = h /\ gr.at = h + 1 /\ Enclosing(i) = Inside(fr.owner)
          /\ Enclosing(h) = Inside(fr.owner) /\ Reached(j, gr)
      BY <1>1, <1>2, <1>3, <1>5, <2>2, <2>3
    <3>2. QED BY <1>1, <1>3, <2>1, <3>1, IntoReached
  <2>5. QED BY <1>2, <1>5, <2>1, <2>2, <2>4
<1>6. \A f \in Functions : gs[1].at <= f => frames[1].at <= f
  <2>1. \A f \in Functions : f \in Nat
    BY Lines DEF Functions
  <2>2. i \in Nat /\ h \in Nat /\ i <= h
    <3>1. i \in Nat /\ h \in Nat /\ i < End(i) /\ End(i) \in Nat
      BY <1>1, Lines, EndIs
    <3>2. QED BY <1>3, <3>1
  <2>3. QED BY <1>2, <1>3, <2>1, <2>2
<1>7. Came(gs[1], e)
  BY <1>1, <1>5, <1>6 DEF Came
<1>8. ASSUME NEW k \in DOMAIN gs
      PROVE  Came(gs[k], e) /\ \E n \in DOMAIN frames : InText(frames[n]) <=> InText(gs[k])
  <2>1. k = 1 \/ k = 2 \/ k \in 3 .. Len(frames) + 1
    BY <1>3
  <2>2. CASE k \in 3 .. Len(frames) + 1
    BY <1>3, <2>2, CameSame
  <2>3. QED BY <1>1, <1>4, <1>7, <2>1, <2>2
<1>9. QED BY <1>8 DEF Moved, SameLevels

LEMMA MovedOut ==
  ASSUME FramesOK(frames), NEW gs, Pops(gs), NEW e
  PROVE  Moved(gs, e) /\ SameLevels(gs)
<1>1. \A k \in DOMAIN gs : k + 1 \in DOMAIN frames /\ gs[k] = frames[k + 1]
  BY DEF Pops
<1>2. \A k \in DOMAIN gs : \E n \in DOMAIN frames : gs[k] = frames[n]
  BY <1>1
<1>3. ASSUME NEW k \in DOMAIN gs
      PROVE  Came(gs[k], e) /\ \E n \in DOMAIN frames : InText(frames[n]) <=> InText(gs[k])
  BY <1>2, CameSame
<1>4. QED BY <1>3 DEF Moved, SameLevels

\* A function behind the header of a loop that turns is behind its block: what
\* it captures is not bound before the block.
LEMMA CapturedLater ==
  ASSUME TextOK, NEW o \in DOMAIN prog, Kind(o) \in Loops, Inside(o) \cap Functions = {},
         Outer <= o, NEW f \in Functions, Captures(f), o < f
  PROVE  End(o) <= f
<1>1. /\ prog \in Seq(Line) /\ Parsed
      /\ LoopsAround(f) \subseteq Enclosing(Outer)
      /\ Outer \in DOMAIN prog /\ f \in DOMAIN prog /\ f \in Nat
  BY CapturesIs DEF TextOK, Tidy, CapturedAfresh, Outer
<1>2. o \in Nat /\ o # 0 /\ End(o) \in Nat /\ Outer \in Nat
  BY <1>1, Lines, EndIs
<1>3. SUFFICES ASSUME f < End(o) PROVE FALSE
  BY <1>1, <1>2
<1>4. o \in Enclosing(f)
  BY <1>1, <1>3, EnclosingIs
<1>5. FunctionOf(f) = 0 /\ FunctionOf(o) = 0
  <2>1. Kind(f) = "fn"
    BY DEF Functions
  <2>2. Enclosing(o) \cap Functions = {}
    BY <1>2 DEF Inside
  <2>3. QED BY <1>1, <2>1, <2>2, FunctionOfIs
<1>6. o \in Enclosing(Outer)
  BY <1>1, <1>4, <1>5 DEF LoopsAround
<1>7. o < Outer
  BY <1>1, <1>6, EnclosingIs
<1>8. QED BY <1>2, <1>7

LEMMA MovedBack ==
  ASSUME TextOK, FramesOK(frames), frames # << >>, NEW gs, TurnsBack(gs), NEW e,
         e = frames[1].owner \/ Kind(frames[1].owner) = "while",
         frames[1].at = Limit(frames[1].owner)
  PROVE  Moved(gs, e) /\ SameLevels(gs)
<1>1. /\ prog \in Seq(Line) /\ 1 \in DOMAIN frames
      /\ DOMAIN gs = 1 .. Len(frames) /\ DOMAIN frames = 1 .. Len(frames) /\ Len(frames) \in Nat
      /\ frames[1].owner \in DOMAIN prog /\ Kind(frames[1].owner) \in Loops
      /\ gs[1].owner = frames[1].owner /\ gs[1].at = frames[1].owner + 1
      /\ \A k \in 2 .. Len(frames) : gs[k] = frames[k]
  BY FrameFacts DEF TurnsBack, Replaces, TextOK
<1>2. PICK o \in DOMAIN prog : o = frames[1].owner
  BY <1>1
<1>3. o \in Nat /\ o # 0 /\ End(o) \in Nat /\ o < End(o) /\ frames[1].at = End(o)
  BY <1>1, <1>2, Lines, EndIs DEF Limit
<1>4. InText(gs[1]) <=> InText(frames[1])
  BY <1>1 DEF InText
<1>5. ASSUME NEW j, Matters(j), j # e, Reached(j, gs[1])
      PROVE  j < o /\ Reached(j, frames[1])
  <2>1. j \in DOMAIN prog /\ Kind(j) \in {"expr", "for", "fn"}
    BY <1>5 DEF Matters
  <2>2. PICK fr : fr = frames[1]
    OBVIOUS
  <2>3. PICK gr : gr = gs[1]
    OBVIOUS
  <2>4. /\ fr.owner = o /\ gr.owner = o /\ gr.at = o + 1 /\ fr.at \in Nat /\ o < fr.at
        /\ Reached(j, gr)
    BY <1>1, <1>2, <1>3, <1>5, <2>2, <2>3
  <2>5. j = o \/ (j < o /\ Reached(j, fr))
    BY <1>1, <2>1, <2>4, BackReached
  <2>6. j # o
    BY <1>2, <1>5, <2>1
  <2>7. QED BY <2>2, <2>5, <2>6
<1>6. ASSUME NEW j, j = Outer, Matters(j), j < o, InText(gs[1]) <=> FunctionOf(j) = 0,
             NEW f \in Functions, Captures(f), gs[1].at <= f
      PROVE  frames[1].at <= f
  <2>1. FunctionOf(Outer) = 0 /\ f \in Nat /\ Outer \in Nat
    BY <1>1, <1>6, CapturesIs
  <2>2. Inside(o) \cap Functions = {}
    BY <1>1, <1>2, <1>6, <2>1 DEF InText
  <2>3. o < f /\ Outer <= o
    BY <1>1, <1>2, <1>3, <1>6, <2>1
  <2>4. End(o) <= f
    BY <1>1, <1>2, <1>6, <2>2, <2>3, CapturedLater
  <2>5. QED BY <1>3, <2>4
<1>7. Came(gs[1], e)
  BY <1>1, <1>4, <1>5, <1>6 DEF Came
<1>8. ASSUME NEW k \in DOMAIN gs
      PROVE  Came(gs[k], e) /\ \E n \in DOMAIN frames : InText(frames[n]) <=> InText(gs[k])
  <2>1. k = 1 \/ k \in 2 .. Len(frames)
    BY <1>1
  <2>2. k \in 2 .. Len(frames) => k \in DOMAIN frames /\ gs[k] = frames[k]
    BY <1>1
  <2>3. QED BY <1>1, <1>4, <1>7, <2>1, <2>2, CameSame
<1>9. QED BY <1>8 DEF Moved, SameLevels

\* The function's frame has come by nothing yet, and the lines that the frame
\* below goes past are not executed by the call.
LEMMA MovedCall ==
  ASSUME prog \in Seq(Line), Parsed, FramesOK(frames), Executing, Kind(frames[1].at) \in Calls,
         NEW gs, NEW f \in Functions, Enters(gs, f), NEW e
  PROVE  Moved(gs, e)
<1>1. /\ DOMAIN gs = 1 .. Len(frames) + 1 /\ DOMAIN frames = 1 .. Len(frames) /\ Len(frames) \in Nat
      /\ gs[1].owner = f /\ gs[1].at = f + 1 /\ f \in DOMAIN prog
      /\ gs[2].owner = frames[1].owner /\ gs[2].at = After(frames[1].at)
      /\ \A k \in 3 .. Len(frames) + 1 : k - 1 \in DOMAIN frames /\ gs[k] = frames[k - 1]
  BY FrameFacts DEF Enters
<1>2. Came(gs[2], e)
  BY <1>1, CameOn DEF Calls
<1>3. f \in Nat /\ f # 0 /\ ~InText(gs[1])
  BY <1>1, Lines DEF InText, Inside
<1>4. ASSUME NEW j, Matters(j), Reached(j, gs[1]), FunctionOf(j) # 0 PROVE FALSE
  <2>1. j \in DOMAIN prog /\ FunctionOf(j) \in Enclosing(j) \cap Functions
    BY <1>4, FunctionOfIs DEF Matters
  <2>2. f \in Enclosing(j)
    BY <2>1, OneFunction
  <2>3. f < j /\ j \in Nat
    BY <2>1, <2>2, EnclosingIs, Lines
  <2>4. QED BY <1>1, <1>3, <1>4, <2>3 DEF Reached
<1>5. Came(gs[1], e)
  BY <1>3, <1>4 DEF Came
<1>6. ASSUME NEW k \in DOMAIN gs PROVE Came(gs[k], e)
  <2>1. k = 1 \/ k = 2 \/ k \in 3 .. Len(frames) + 1
    BY <1>1
  <2>2. CASE k \in 3 .. Len(frames) + 1
    BY <1>1, <2>2, CameSame
  <2>3. QED BY <1>2, <1>5, <2>1, <2>2
<1>7. QED BY <1>6 DEF Moved

-----------------------------------------------------------------------------
(* Which place a frame can count on, by the lines it has come by.          *)

\* x has been bound before frame fr, and no closure has been made of it there.
SlotSure(fr) ==
  /\ Outer # 0 /\ Reached(Outer, fr)
  /\ \A f \in Functions : Captures(f) => fr.at <= f

\* The closure that captures x has been made, when fr is in the text.
CellSure(fr) == \E f \in Functions : Captures(f) /\ (InText(fr) => Reached(f, fr))

\* A function with a variable of its own has bound it.
InnerSure(fr) ==
  \E f \in Functions : ~Captures(f) /\ FirstBinder(f) # 0 /\ Reached(FirstBinder(f), fr)

\* The slot, or the cell, is the newest place of the text's x.
SlotsFor(fr, s) ==
  /\ InText(fr) /\ SlotSure(fr) => s.slot > s.cell
  /\ CellSure(fr) => s.cell > s.slot
  /\ ~InText(fr) /\ InnerSure(fr) => s.inner # 0

SlotsOK(fs, s) == \A k \in DOMAIN fs : SlotsFor(fs[k], s)

\* The lines that make a place for x.
Makes(e) ==
  /\ e # 0
  /\ \/ e = Outer
     \/ e \in Functions /\ Captures(e)
     \/ \E f \in Functions : ~Captures(f) /\ e = FirstBinder(f)

LEMMA MakersMatter ==
  ASSUME TextOK
  PROVE  /\ Outer # 0 => Matters(Outer) /\ FunctionOf(Outer) = 0
         /\ \A f \in Functions : /\ Matters(f) /\ FunctionOf(f) = 0 /\ f # 0
                                 /\ FirstBinder(f) # 0 => /\ Matters(FirstBinder(f))
                                                          /\ FunctionOf(FirstBinder(f)) = f
<1>1. prog \in Seq(Line) /\ Parsed
  BY DEF TextOK
<1>2. Outer # 0 => Matters(Outer) /\ FunctionOf(Outer) = 0
  <2>1. Outer # 0 => Outer \in Binders(0)
    BY <1>1, FirstBinderIs DEF Outer
  <2>2. QED BY <1>1, <2>1, FirstBinderIs DEF Matters
<1>3. ASSUME NEW f \in Functions
      PROVE  /\ Matters(f) /\ FunctionOf(f) = 0 /\ f # 0
             /\ FirstBinder(f) # 0 => Matters(FirstBinder(f)) /\ FunctionOf(FirstBinder(f)) = f
  <2>1. f \in DOMAIN prog /\ Kind(f) = "fn" /\ f # 0
    BY <1>1, Lines DEF Functions
  <2>2. Matters(f) /\ FunctionOf(f) = 0
    BY <1>1, <2>1, FunctionOfIs DEF Matters
  <2>3. FirstBinder(f) # 0 => FirstBinder(f) \in Binders(f)
    BY <1>1, FirstBinderIs
  <2>4. QED BY <1>1, <2>1, <2>2, <2>3, FirstBinderIs DEF Matters
<1>4. QED BY <1>2, <1>3

\* A step that makes no place keeps what the frames can count on.
LEMMA SlotsMoved ==
  ASSUME TextOK, NEW s, SlotsOK(frames, s), NEW gs, NEW e, Moved(gs, e), SameLevels(gs),
         ~Makes(e)
  PROVE  SlotsOK(gs, s)
<1>1. SUFFICES ASSUME NEW k \in DOMAIN gs PROVE SlotsFor(gs[k], s)
  BY DEF SlotsOK
<1>2. PICK gr : gr = gs[k]
  OBVIOUS
<1>3. Came(gr, e) /\ \E n \in DOMAIN frames : InText(frames[n]) <=> InText(gr)
  BY <1>2 DEF Moved, SameLevels
<1>4. ASSUME InText(gr), SlotSure(gr) PROVE s.slot > s.cell
  <2>1. Outer # 0 /\ Matters(Outer) /\ FunctionOf(Outer) = 0 /\ Outer # e /\ Reached(Outer, gr)
    BY <1>4, MakersMatter DEF SlotSure, Makes
  <2>2. PICK n \in DOMAIN frames :
          /\ Reached(Outer, frames[n]) /\ InText(frames[n])
          /\ \A f \in Functions : Captures(f) /\ gr.at <= f => frames[n].at <= f
    BY <1>3, <1>4, <2>1 DEF Came
  <2>3. SlotSure(frames[n])
    BY <1>4, <2>1, <2>2 DEF SlotSure
  <2>4. QED BY <2>2, <2>3 DEF SlotsOK, SlotsFor
<1>5. ASSUME CellSure(gr) PROVE s.cell > s.slot
  <2>1. PICK f \in Functions : Captures(f) /\ (InText(gr) => Reached(f, gr))
    BY <1>5 DEF CellSure
  <2>2. CASE InText(gr)
    <3>1. Matters(f) /\ FunctionOf(f) = 0 /\ f # e
      BY <2>1, MakersMatter DEF Makes
    <3>2. PICK n \in DOMAIN frames : Reached(f, frames[n])
      BY <1>3, <2>1, <2>2, <3>1 DEF Came
    <3>3. CellSure(frames[n])
      BY <2>1, <3>2 DEF CellSure
    <3>4. QED BY <3>3 DEF SlotsOK, SlotsFor
  <2>3. CASE ~InText(gr)
    <3>1. PICK n \in DOMAIN frames : ~InText(frames[n])
      BY <1>3, <2>3
    <3>2. CellSure(frames[n])
      BY <2>1, <3>1 DEF CellSure
    <3>3. QED BY <3>2 DEF SlotsOK, SlotsFor
  <2>4. QED BY <2>2, <2>3
<1>6. ASSUME ~InText(gr), InnerSure(gr) PROVE s.inner # 0
  <2>1. PICK f \in Functions : ~Captures(f) /\ FirstBinder(f) # 0 /\ Reached(FirstBinder(f), gr)
    BY <1>6 DEF InnerSure
  <2>2. Matters(FirstBinder(f)) /\ FunctionOf(FirstBinder(f)) # 0 /\ FirstBinder(f) # e
    BY <2>1, MakersMatter DEF Makes
  <2>3. PICK n \in DOMAIN frames : Reached(FirstBinder(f), frames[n]) /\ ~InText(frames[n])
    BY <1>3, <1>6, <2>1, <2>2 DEF Came
  <2>4. InnerSure(frames[n])
    BY <2>1, <2>3 DEF InnerSure
  <2>5. QED BY <2>3, <2>4 DEF SlotsOK, SlotsFor
<1>7. QED BY <1>2, <1>4, <1>5, <1>6 DEF SlotsFor

\* x is bound where no frame has come by a closure that captures it.
LEMMA SlotsBound ==
  ASSUME NEW s, s.slot > s.cell, NEW gs,
         \A k \in DOMAIN gs : InText(gs[k]) /\ \A f \in Functions : Captures(f) => ~Reached(f, gs[k])
  PROVE  SlotsOK(gs, s)
BY DEF SlotsOK, SlotsFor, CellSure

\* A function binds its own x.
LEMMA SlotsInner ==
  ASSUME NEW s, s.inner # 0, NEW gs, Outer = 0, \A f \in Functions : ~Captures(f)
  PROVE  SlotsOK(gs, s)
BY DEF SlotsOK, SlotsFor, SlotSure, CellSure

\* A closure is made behind which all frames are.
LEMMA SlotsDefined ==
  ASSUME NEW s, s.cell > s.slot, NEW f \in Functions, Captures(f), f \in Nat, NEW gs,
         \A k \in DOMAIN gs : InText(gs[k]) /\ f < gs[k].at /\ gs[k].at \in Nat
  PROVE  SlotsOK(gs, s)
<1>1. ASSUME NEW k \in DOMAIN gs PROVE SlotsFor(gs[k], s)
  <2>1. ~(gs[k].at <= f) /\ InText(gs[k])
    OBVIOUS
  <2>2. ~SlotSure(gs[k])
    BY <2>1 DEF SlotSure
  <2>3. QED BY <2>1, <2>2 DEF SlotsFor
<1>2. QED BY <1>1 DEF SlotsOK

\* The function is called where the closure has been made; its own x is not
\* bound yet.
LEMMA SlotsCalled ==
  ASSUME TextOK, WalkOK(frames), Executing, Kind(frames[1].at) \in Calls,
         NEW f \in Functions, NEW gs, Enters(gs, f),
         NEW s, SlotsOK(frames, s), NEW t, t.slot = s.slot, t.cell = s.cell
  PROVE  SlotsOK(gs, t)
<1>1. /\ prog \in Seq(Line) /\ Parsed /\ FramesOK(frames)
      /\ 1 \in DOMAIN frames /\ frames[1].at \in DOMAIN prog
      /\ Enclosing(frames[1].at) = Inside(frames[1].owner)
  BY ExecutingIs DEF TextOK, WalkOK
<1>2. PICK i \in DOMAIN prog : i = frames[1].at
  BY <1>1
<1>3. /\ FunctionOf(i) = 0 /\ f \in 1 .. i - 1 /\ Enclosing(f) \subseteq Enclosing(i)
  <2>1. /\ FunctionOf(i) = 0
        /\ \E g \in Functions \cap 1 .. i - 1 : Enclosing(g) \subseteq Enclosing(i)
    BY <1>1, <1>2 DEF Parsed
  <2>2. QED BY <1>1, <2>1, OneFunction
<1>4. InText(frames[1])
  BY <1>1, <1>2, <1>3, FunctionOfIs DEF InText
<1>5. \A n \in DOMAIN frames : InText(frames[n])
  <2>1. ASSUME NEW n \in DOMAIN frames PROVE n = 1 \/ 1 < n
    BY <1>1, FrameFacts
  <2>2. QED BY <1>1, <1>4, <2>1 DEF WalkOK, Leveled
<1>6. Captures(f) => s.cell > s.slot
  <2>1. Kind(f) = "fn" /\ f < i
    BY <1>3, Lines, <1>1 DEF Functions
  <2>2. Reached(f, frames[1])
    BY <1>1, <1>2, <1>3, <2>1 DEF Reached
  <2>3. Captures(f) => CellSure(frames[1])
    BY <2>2 DEF CellSure
  <2>4. QED BY <1>1, <2>3 DEF SlotsOK, SlotsFor
<1>7. Moved(gs, 0)
  BY <1>1, MovedCall
<1>8. ASSUME NEW k \in DOMAIN gs PROVE SlotsFor(gs[k], t)
  <2>1. PICK gr : gr = gs[k]
    OBVIOUS
  <2>2. Came(gr, 0)
    BY <1>7, <2>1 DEF Moved
  <2>3. ASSUME InText(gr), SlotSure(gr) PROVE t.slot > t.cell
    <3>1. Outer # 0 /\ Matters(Outer) /\ FunctionOf(Outer) = 0 /\ Reached(Outer, gr)
      BY <2>3, MakersMatter DEF SlotSure
    <3>2. PICK n \in DOMAIN frames :
            /\ Reached(Outer, frames[n]) /\ InText(frames[n])
            /\ \A g \in Functions : Captures(g) /\ gr.at <= g => frames[n].at <= g
      BY <2>2, <2>3, <3>1 DEF Came
    <3>3. SlotSure(frames[n])
      BY <2>3, <3>1, <3>2 DEF SlotSure
    <3>4. QED BY <3>2, <3>3 DEF SlotsOK, SlotsFor
  <2>4. ASSUME CellSure(gr) PROVE t.cell > t.slot
    <3>1. Captures(f)
      BY <1>1, <2>4, OneFunction DEF CellSure
    <3>2. QED BY <1>6, <3>1
  <2>5. ASSUME ~InText(gr), InnerSure(gr) PROVE FALSE
    <3>1. PICK g \in Functions : FirstBinder(g) # 0 /\ Reached(FirstBinder(g), gr)
      BY <2>5 DEF InnerSure
    <3>2. Matters(FirstBinder(g)) /\ FunctionOf(FirstBinder(g)) # 0
      BY <3>1, MakersMatter
    <3>3. \E n \in DOMAIN frames : ~InText(frames[n])
      BY <2>2, <2>5, <3>1, <3>2 DEF Came
    <3>4. QED BY <1>5, <3>3
  <2>6. QED BY <2>1, <2>3, <2>4, <2>5 DEF SlotsFor
<1>9. QED BY <1>8 DEF SlotsOK

-----------------------------------------------------------------------------
(* Both engines find x in the same place.                                  *)

PointerSet == [slot : Nat, cell : Nat, env : Nat, inner : Nat, memory : Seq(Nat)]
ScopeSet == [outer : Nat, inner : Nat]

\* The place of the text's x that was made last.
Newest(s) == IF s.slot > s.cell THEN s.slot ELSE s.cell

\* The newest place holds what the interpreter's environment does.
ValuesOK(s, e) ==
  /\ s \in PointerSet /\ e \in ScopeSet
  /\ s.slot <= Len(s.memory) /\ s.cell <= Len(s.memory) /\ s.inner <= Len(s.memory)
  /\ s.env = s.cell
  /\ s.slot # 0 => e.outer # 0 /\ s.memory[Newest(s)] = e.outer
  /\ s.slot = 0 => e.outer = 0 /\ s.cell = 0
  /\ s.inner # 0 => e.inner # 0 /\ s.memory[s.inner] = e.inner /\ Outer = 0
  /\ s.inner = 0 => e.inner = 0
  /\ Outer = 0 => s.slot = 0

\* Frame fr executes line i: it is at i, or back at it from the end of i's block.
AtLine(i, fr) ==
  /\ i \in DOMAIN prog /\ Kind(i) \in {"expr", "for", "say"}
  /\ fr.at \in Nat /\ fr.owner \in Nat /\ fr.owner <= i /\ i <= fr.at
  /\ Enclosing(i) \subseteq Inside(fr.owner)
  /\ InText(fr) <=> FunctionOf(i) = 0
  /\ InText(fr) /\ Outer <= i =>
       \A f \in Functions : Captures(f) /\ i <= f => fr.at <= f

\* Line i needs no new place: its place is the newest one, of the text or of
\* the call, and has been made.
Finds(i) ==
  /\ Place(i) # "none" /\ ~Allocates(i)
  /\ \/ /\ Address(i) = Newest(sx) /\ Newest(sx) # 0 /\ sx.slot # 0
        /\ FunctionOf(i) # 0 => sx.inner = 0
     \/ Address(i) = sx.inner /\ sx.inner # 0 /\ FunctionOf(i) # 0

LEMMA LineExecuted ==
  ASSUME TextOK, FramesOK(frames), At({"expr", "for", "say"})
  PROVE  AtLine(frames[1].at, frames[1])
<1>1. /\ prog \in Seq(Line) /\ Parsed /\ Executing
      /\ Top = frames[1] /\ frames[1].at \in DOMAIN prog /\ frames[1].at \in Nat
      /\ frames[1].owner \in Nat /\ frames[1].owner < frames[1].at
      /\ Enclosing(frames[1].at) = Inside(frames[1].owner)
  BY ExecutingIs DEF TextOK, At
<1>2. Kind(frames[1].at) \in {"expr", "for", "say"}
  BY <1>1 DEF At
<1>3. PICK i \in DOMAIN prog : i = frames[1].at
  BY <1>1
<1>4. InText(frames[1]) <=> FunctionOf(i) = 0
  BY <1>1, <1>3, FunctionOfIs DEF InText
<1>5. QED BY <1>1, <1>2, <1>3, <1>4 DEF AtLine

LEMMA LoopExecuted ==
  ASSUME TextOK, FramesOK(frames), frames # << >>, frames[1].owner \in DOMAIN prog,
         Kind(frames[1].owner) = "for", frames[1].at = Limit(frames[1].owner)
  PROVE  AtLine(frames[1].owner, frames[1])
<1>1. prog \in Seq(Line) /\ Parsed
  BY DEF TextOK
<1>2. PICK o \in DOMAIN prog : o = frames[1].owner
  OBVIOUS
<1>3. /\ o \in Nat /\ o # 0 /\ End(o) \in Nat /\ o < End(o) /\ frames[1].at = End(o)
      /\ Kind(o) = "for" /\ Inside(o) = {o} \cup Enclosing(o) /\ o \notin Functions
  BY <1>1, <1>2, Lines, EndIs DEF Limit, Inside, Functions
<1>4. InText(frames[1]) <=> FunctionOf(o) = 0
  BY <1>1, <1>2, <1>3, FunctionOfIs DEF InText
<1>5. ASSUME InText(frames[1]), Outer <= o, NEW f \in Functions, Captures(f), o <= f
      PROVE  End(o) <= f
  <2>1. Inside(o) \cap Functions = {} /\ Kind(o) \in Loops
    BY <1>2, <1>3, <1>5 DEF InText, Loops
  <2>2. f \in Nat
    BY <1>1, Lines DEF Functions
  <2>3. o < f
    BY <1>3, <1>5, <2>2
  <2>4. QED BY <1>5, <2>1, <2>3, CapturedLater
<1>6. QED BY <1>2, <1>3, <1>4, <1>5 DEF AtLine

\* A line that dominates line i has been come by.
LEMMA DominatorReached ==
  ASSUME prog \in Seq(Line), NEW fr, NEW i, AtLine(i, fr), NEW j \in DOMAIN prog,
         Dominates(j, i), j # i
  PROVE  Reached(j, fr)
<1>1. /\ j \in Nat /\ i \in Nat /\ fr.at \in Nat /\ i <= fr.at
      /\ Enclosing(i) \subseteq Inside(fr.owner)
  BY Lines DEF AtLine
<1>2. /\ j < i /\ Enclosing(j) \subseteq Enclosing(i)
      /\ Kind(j) = "for" => j \in Enclosing(i)
  BY DEF Dominates
<1>3. QED BY <1>1, <1>2 DEF Reached

\* x is looked for in the text itself.
LEMMA TextFinds ==
  ASSUME TextOK, ValuesOK(sx, env), NEW fr, SlotsFor(fr, sx), NEW i, AtLine(i, fr),
         InText(fr), Outer # 0, Outer <= i, i # Outer
  PROVE  Finds(i)
<1>1. /\ prog \in Seq(Line) /\ BoundAbove /\ i \in DOMAIN prog /\ i \in Nat
      /\ Kind(i) \in {"expr", "for", "say"} /\ FunctionOf(i) = 0
  BY Lines DEF TextOK, Tidy, AtLine
<1>2. Outer \in Nat /\ Outer \in DOMAIN prog /\ FirstBinder(FunctionOf(i)) = Outer
  BY <1>1, FirstBinderIs DEF Outer
<1>3. sx.slot \in Nat /\ sx.cell \in Nat /\ (sx.slot = 0 => sx.cell = 0)
  BY DEF ValuesOK, PointerSet
<1>4. ~Allocates(i)
  BY <1>1, <1>2 DEF Allocates
<1>5. \A f \in Functions : f \in DOMAIN prog /\ f \in Nat /\ f # 0 /\ Kind(f) = "fn"
  BY <1>1, Lines DEF Functions
<1>6. CASE \E f \in Functions \cap 1 .. i - 1 : Captures(f)
  <2>1. PICK f \in Functions \cap 1 .. i - 1 : Captures(f)
    BY <1>6
  <2>2. Place(i) = "cell"
    BY <1>1, <1>5, <2>1 DEF Place
  <2>3. Dominates(f, i) /\ f # i
    BY <1>1, <2>1, <2>2 DEF BoundAbove
  <2>4. Reached(f, fr)
    BY <1>1, <1>5, <2>1, <2>3, DominatorReached
  <2>5. CellSure(fr)
    BY <2>1, <2>4 DEF CellSure
  <2>6. sx.cell > sx.slot
    BY <2>5 DEF SlotsFor
  <2>7. Address(i) = sx.cell /\ Newest(sx) = sx.cell /\ sx.slot # 0 /\ sx.cell # 0
    BY <1>3, <2>2, <2>6 DEF Address, Newest
  <2>8. QED BY <1>1, <1>4, <2>2, <2>7 DEF Finds
<1>7. CASE ~\E f \in Functions \cap 1 .. i - 1 : Captures(f)
  <2>1. Place(i) = "slot"
    <3>1. FirstBinder(FunctionOf(i)) \in 1 .. i
      BY <1>1, <1>2
    <3>2. QED BY <1>1, <1>7, <3>1 DEF Place
  <2>2. Dominates(Outer, i)
    BY <1>1, <1>2, <2>1 DEF BoundAbove
  <2>3. Reached(Outer, fr)
    BY <1>1, <1>2, <2>2, DominatorReached
  <2>4. ASSUME NEW f \in Functions, Captures(f) PROVE fr.at <= f
    <3>1. i <= f
      BY <1>1, <1>5, <1>7, <2>4
    <3>2. QED BY <2>4, <3>1 DEF AtLine
  <2>5. SlotSure(fr)
    BY <2>3, <2>4 DEF SlotSure
  <2>6. sx.slot > sx.cell
    BY <2>5 DEF SlotsFor
  <2>7. Address(i) = sx.slot /\ Newest(sx) = sx.slot /\ sx.slot # 0
    BY <1>1, <1>3, <2>1, <2>6 DEF Address, Newest
  <2>8. QED BY <1>1, <1>4, <2>1, <2>7 DEF Finds
<1>8. QED BY <1>6, <1>7

\* x is looked for in a function: it is captured, or the function's own.
LEMMA CallFinds ==
  ASSUME TextOK, ValuesOK(sx, env), NEW fr, SlotsFor(fr, sx), NEW i, AtLine(i, fr),
         ~InText(fr),
         Captures(FunctionOf(i)) \/ (FirstBinder(FunctionOf(i)) \in 1 .. i /\ i # FirstBinder(FunctionOf(i)))
  PROVE  Finds(i)
<1>1. /\ prog \in Seq(Line) /\ Parsed /\ BoundAbove /\ SharedByCapture
      /\ i \in DOMAIN prog /\ i \in Nat
      /\ Kind(i) \in {"expr", "for", "say"} /\ FunctionOf(i) # 0
  BY Lines DEF TextOK, Tidy, AtLine
<1>2. PICK f \in Functions : f = FunctionOf(i)
  BY <1>1, FunctionOfIs
<1>3. sx.slot \in Nat /\ sx.cell \in Nat /\ sx.env = sx.cell /\ (sx.slot = 0 => sx.cell = 0)
      /\ (sx.inner # 0 => Outer = 0) /\ (Outer = 0 => sx.slot = 0)
  BY DEF ValuesOK, PointerSet
<1>4. CASE Captures(f)
  <2>1. Place(i) = "env"
    BY <1>1, <1>2, <1>4 DEF Place
  <2>2. CellSure(fr)
    BY <1>4 DEF CellSure
  <2>3. sx.cell > sx.slot
    BY <2>2 DEF SlotsFor
  <2>4. Address(i) = sx.cell /\ Newest(sx) = sx.cell /\ sx.slot # 0 /\ sx.cell # 0 /\ sx.inner = 0
    BY <1>3, <2>1, <2>3 DEF Address, Newest
  <2>5. QED BY <2>1, <2>4 DEF Finds, Allocates
<1>5. CASE ~Captures(f)
  <2>1. FirstBinder(f) \in 1 .. i /\ i # FirstBinder(f)
    BY <1>2, <1>5
  <2>2. Outer = 0
    <3>1. i \in Mentions(f) \cup Binders(f)
      BY <1>1, <1>2 DEF Mentions, Binders
    <3>2. Binders(0) = {}
      BY <1>1, <1>5, <3>1 DEF SharedByCapture
    <3>3. QED BY <1>1, <3>2, FirstBinderIs DEF Outer
  <2>3. \A g \in Functions : ~Captures(g)
    BY <1>1, <2>2, CapturesIs
  <2>4. Place(i) = "slot"
    BY <1>1, <1>2, <2>1, <2>3 DEF Place
  <2>5. Dominates(FirstBinder(f), i) /\ FirstBinder(f) \in DOMAIN prog
    <3>1. Dominates(FirstBinder(f), i)
      BY <1>1, <1>2, <2>4 DEF BoundAbove
    <3>2. FirstBinder(f) # 0
      BY <1>1, <2>1
    <3>3. QED BY <1>1, <3>1, <3>2, FirstBinderIs
  <2>6. Reached(FirstBinder(f), fr)
    BY <1>1, <2>1, <2>5, DominatorReached
  <2>7. InnerSure(fr)
    <3>1. FirstBinder(f) # 0
      BY <1>1, <2>1
    <3>2. QED BY <1>5, <2>6, <3>1 DEF InnerSure
  <2>8. sx.inner # 0
    BY <2>7 DEF SlotsFor
  <2>9. Address(i) = sx.inner /\ ~Allocates(i)
    BY <1>1, <1>2, <2>1, <2>4 DEF Address, Allocates
  <2>10. QED BY <1>1, <2>4, <2>8, <2>9 DEF Finds
<1>6. QED BY <1>4, <1>5

\* What a line finds, both engines find with the same value.
LEMMA FindsSame ==
  ASSUME ValuesOK(sx, env), NEW i, Finds(i)
  PROVE  /\ Place(i) # "none" /\ Address(i) # Undefined
         /\ Looked(i) # Undefined /\ Loaded(i) = Looked(i)
<1>1. CASE /\ Address(i) = Newest(sx) /\ Newest(sx) # 0 /\ sx.slot # 0
           /\ FunctionOf(i) # 0 => sx.inner = 0
  <2>1. env.outer # 0 /\ sx.memory[Newest(sx)] = env.outer /\ (FunctionOf(i) # 0 => env.inner = 0)
    BY <1>1 DEF ValuesOK
  <2>2. Looked(i) = env.outer /\ Loaded(i) = sx.memory[Newest(sx)]
    BY <1>1, <2>1 DEF Looked, Loaded, Undefined
  <2>3. QED BY <1>1, <2>1, <2>2 DEF Finds, Undefined
<1>2. CASE Address(i) = sx.inner /\ sx.inner # 0 /\ FunctionOf(i) # 0
  <2>1. env.inner # 0 /\ sx.memory[sx.inner] = env.inner
    BY <1>2 DEF ValuesOK
  <2>2. Looked(i) = env.inner /\ Loaded(i) = sx.memory[sx.inner]
    BY <1>2, <2>1 DEF Looked, Loaded, Undefined
  <2>3. QED BY <1>2, <2>1, <2>2 DEF Finds, Undefined
<1>3. QED BY <1>1, <1>2 DEF Finds

\* A line that binds x finds its place or makes it: the first line of the text
\* to bind x, or the first one of a function that captures nothing.
LEMMA FindsOrMakes ==
  ASSUME TextOK, ValuesOK(sx, env), NEW fr, SlotsFor(fr, sx), NEW i, AtLine(i, fr),
         Kind(i) \in {"expr", "for"}
  PROVE  \/ Finds(i) /\ ~Makes(i)
         \/ Allocates(i) /\ i = Outer /\ FunctionOf(i) = 0 /\ InText(fr)
         \/ /\ Allocates(i) /\ FunctionOf(i) \in Functions /\ Outer = 0
            /\ \A f \in Functions : ~Captures(f)
<1>1. prog \in Seq(Line) /\ Parsed /\ SharedByCapture /\ i \in DOMAIN prog /\ i \in Nat /\ i # 0
  BY Lines DEF TextOK, Tidy, AtLine
<1>2. PICK f : f = FunctionOf(i)
  OBVIOUS
<1>3. i \in Binders(f)
  BY <1>1, <1>2 DEF Binders
<1>4. /\ FirstBinder(f) \in Nat /\ FirstBinder(f) # 0 /\ FirstBinder(f) <= i
      /\ FirstBinder(f) \in 1 .. i
  BY <1>1, <1>3, FirstBinderIs
<1>5. InText(fr) <=> f = 0
  BY <1>2 DEF AtLine
<1>6. Makes(i) => (i = Outer /\ f = 0) \/ (i = FirstBinder(f) /\ f # 0 /\ ~Captures(f))
  <2>1. i \notin Functions
    BY DEF Functions
  <2>2. HAVE Makes(i)
  <2>3. ASSUME i = Outer PROVE f = 0
    <3>1. FunctionOf(Outer) = 0
      BY <1>1, <2>3, MakersMatter
    <3>2. QED BY <1>2, <2>3, <3>1
  <2>4. ASSUME NEW g \in Functions, ~Captures(g), i = FirstBinder(g)
        PROVE  i = FirstBinder(f) /\ f # 0 /\ ~Captures(f)
    <3>1. FunctionOf(FirstBinder(g)) = g /\ g # 0
      BY <1>1, <2>4, MakersMatter
    <3>2. f = g
      BY <1>2, <2>4, <3>1
    <3>3. QED BY <2>4, <3>1, <3>2
  <2>5. QED BY <2>1, <2>2, <2>3, <2>4 DEF Makes
<1>7. CASE f = 0
  <2>1. Outer = FirstBinder(f)
    BY <1>7 DEF Outer
  <2>2. CASE i # Outer
    BY <1>4, <1>5, <1>6, <1>7, <2>1, <2>2, TextFinds
  <2>3. CASE i = Outer
    <3>1. ~\E g \in Functions \cap 1 .. i - 1 : Captures(g)
      BY <1>1, <2>3, CapturesIs
    <3>2. Place(i) = "slot"
      BY <1>2, <1>4, <1>7, <3>1 DEF Place
    <3>3. QED BY <1>2, <1>5, <1>7, <2>1, <2>3, <3>2 DEF Allocates
  <2>4. QED BY <2>2, <2>3
<1>8. CASE f # 0
  <2>1. f \in Functions
    BY <1>1, <1>2, <1>8, FunctionOfIs
  <2>2. CASE Captures(f) \/ i # FirstBinder(f)
    BY <1>2, <1>4, <1>5, <1>6, <1>8, <2>2, CallFinds
  <2>3. CASE ~Captures(f) /\ i = FirstBinder(f)
    <3>1. Outer = 0
      <4>1. Mentions(f) \cup Binders(f) # {}
        BY <1>3
      <4>2. Binders(0) = {}
        BY <1>1, <2>1, <2>3, <4>1 DEF SharedByCapture
      <4>3. QED BY <1>1, <4>2, FirstBinderIs DEF Outer
    <3>2. \A g \in Functions : ~Captures(g)
      BY <1>1, <3>1, CapturesIs
    <3>3. Place(i) = "slot"
      BY <1>2, <1>4, <2>3, <3>2 DEF Place
    <3>4. QED BY <1>2, <2>1, <2>3, <3>1, <3>2, <3>3 DEF Allocates
  <2>4. QED BY <2>2, <2>3
<1>9. QED BY <1>7, <1>8

\* Where the text binds x first, no frame has come by a closure.
LEMMA BoundBeforeCapture ==
  ASSUME TextOK, WalkOK(frames), frames # << >>, Outer # 0, AtLine(Outer, frames[1]),
         NEW gs, Moved(gs, Outer), SameLevels(gs), NEW k \in DOMAIN gs
  PROVE  InText(gs[k]) /\ \A f \in Functions : Captures(f) => ~Reached(f, gs[k])
<1>1. /\ prog \in Seq(Line) /\ FunctionOf(Outer) = 0 /\ Outer \in Nat
      /\ InText(frames[1]) /\ frames[1].owner \in Nat /\ frames[1].owner <= Outer
      /\ frames[1].at \in Nat
      /\ 1 \in DOMAIN frames /\ DOMAIN frames = 1 .. Len(frames) /\ Len(frames) \in Nat
  BY MakersMatter, FrameFacts, FirstBinderIs DEF TextOK, WalkOK, AtLine, Outer
<1>2. ASSUME NEW n \in DOMAIN frames
      PROVE  InText(frames[n]) /\ \A f \in Functions : Captures(f) => ~Reached(f, frames[n])
  <2>1. n = 1 \/ 1 < n
    BY <1>1
  <2>2. InText(frames[n])
    BY <1>1, <2>1 DEF WalkOK, Leveled
  <2>3. ASSUME NEW f \in Functions, Captures(f), Reached(f, frames[n]) PROVE FALSE
    <3>1. f \in DOMAIN prog /\ f \in Nat /\ Kind(f) = "fn" /\ Outer < f
      BY <1>1, <2>3, CapturesIs DEF Functions
    <3>2. f < frames[n].at /\ Enclosing(f) \subseteq Inside(frames[n].owner)
      BY <2>3 DEF Reached
    <3>3. CASE n = 1
      <4>1. frames[1].at <= f
        BY <1>1, <2>3, <3>1 DEF AtLine
      <4>2. QED BY <1>1, <3>1, <3>2, <3>3, <4>1
    <3>4. CASE 1 < n
      <4>1. Behind(frames[1].owner, frames[n])
        BY <1>1, <3>4 DEF WalkOK, Gaps
      <4>2. frames[1].owner < f
        BY <1>1, <3>1
      <4>3. QED BY <3>1, <3>2, <4>1, <4>2 DEF Behind
    <3>5. QED BY <2>1, <3>3, <3>4
  <2>4. QED BY <2>2, <2>3
<1>3. InText(gs[k])
  BY <1>2 DEF SameLevels
<1>4. ASSUME NEW f \in Functions, Captures(f), Reached(f, gs[k]) PROVE FALSE
  <2>1. Matters(f) /\ FunctionOf(f) = 0 /\ f # Outer /\ Came(gs[k], Outer)
    BY <1>1, <1>4, MakersMatter, CapturesIs DEF Moved
  <2>2. \E n \in DOMAIN frames : Reached(f, frames[n])
    BY <1>3, <1>4, <2>1 DEF Came
  <2>3. QED BY <1>2, <1>4, <2>2
<1>5. QED BY <1>3, <1>4

LEMMA SameSlots ==
  ASSUME NEW s, NEW t, s.slot = t.slot, s.cell = t.cell, s.inner = t.inner,
         NEW gs, SlotsOK(gs, s)
  PROVE  SlotsOK(gs, t)
BY DEF SlotsOK, SlotsFor

\* What a store and a new place do to the memory.
LEMMA MemoryStored ==
  ASSUME sx \in PointerSet, NEW v \in Nat
  PROVE  /\ Stored(v) \in PointerSet
         /\ Stored(v).slot = sx.slot /\ Stored(v).cell = sx.cell
         /\ Stored(v).env = sx.env /\ Stored(v).inner = sx.inner
         /\ Len(Stored(v).memory) = NextAddress /\ Len(sx.memory) \in Nat
         /\ \A a \in 1 .. Len(sx.memory) : Stored(v).memory[a] = sx.memory[a]
         /\ Stored(v).memory[NextAddress] = v
<1>1. sx.memory \in Seq(Nat) /\ Len(sx.memory) \in Nat
  BY LenProperties DEF PointerSet
<1>2. PICK m : m = Append(sx.memory, v)
  OBVIOUS
<1>3. /\ m \in Seq(Nat) /\ Len(m) = NextAddress /\ m[NextAddress] = v
      /\ \A a \in 1 .. Len(sx.memory) : m[a] = sx.memory[a]
  BY <1>1, <1>2, AppendProperties DEF NextAddress
<1>4. PICK t : t = Stored(v)
  OBVIOUS
<1>5. /\ t \in PointerSet /\ t.slot = sx.slot /\ t.cell = sx.cell /\ t.env = sx.env
      /\ t.inner = sx.inner /\ t.memory = m
  BY <1>2, <1>3, <1>4 DEF Stored, PointerSet
<1>6. QED BY <1>1, <1>3, <1>4, <1>5

LEMMA MemoryWritten ==
  ASSUME sx \in PointerSet, NEW v \in Nat, NEW a \in 1 .. Len(sx.memory),
         NEW s, s = [sx EXCEPT !.memory[a] = v]
  PROVE  /\ s \in PointerSet
         /\ s.slot = sx.slot /\ s.cell = sx.cell /\ s.env = sx.env /\ s.inner = sx.inner
         /\ Len(s.memory) = Len(sx.memory) /\ Len(sx.memory) \in Nat /\ s.memory[a] = v
<1>1. sx.memory \in Seq(Nat) /\ Len(sx.memory) \in Nat /\ DOMAIN sx.memory = 1 .. Len(sx.memory)
  BY LenProperties DEF PointerSet
<1>2. PICK m : m = [sx.memory EXCEPT ![a] = v]
  OBVIOUS
<1>3. m \in Seq(Nat) /\ Len(m) = Len(sx.memory) /\ m[a] = v
  BY <1>1, <1>2, ExceptSeq
<1>4. s = [sx EXCEPT !.memory = m]
  BY <1>2
<1>5. /\ s \in PointerSet /\ s.slot = sx.slot /\ s.cell = sx.cell /\ s.env = sx.env
      /\ s.inner = sx.inner /\ s.memory = m
  BY <1>3, <1>4 DEF PointerSet
<1>6. QED BY <1>1, <1>3, <1>5

-----------------------------------------------------------------------------
(* What lines do to the places.                                            *)

\* A new place is the newest one.
LEMMA PlaceMade ==
  ASSUME ValuesOK(sx, env), NEW i \in Nat, i # 0, FunctionOf(i) = 0, Allocates(i), Outer # 0,
         Bind(i), NEW s, s = sx', NEW e, e = env'
  PROVE  ValuesOK(s, e) /\ s.slot > s.cell
<1>1. /\ sx \in PointerSet /\ env \in ScopeSet /\ sx.env = sx.cell /\ sx.inner = 0 /\ env.inner = 0
      /\ sx.cell \in Nat /\ sx.inner \in Nat /\ sx.cell <= Len(sx.memory)
  BY DEF ValuesOK, PointerSet
<1>2. PICK t : t = Stored(i)
  OBVIOUS
<1>3. PICK n : n = NextAddress
  OBVIOUS
<1>4. /\ t \in PointerSet /\ t.slot = sx.slot /\ t.cell = sx.cell /\ t.env = sx.env
      /\ t.inner = sx.inner /\ Len(t.memory) = n /\ Len(sx.memory) \in Nat /\ t.memory[n] = i
  BY <1>1, <1>2, <1>3, MemoryStored
<1>5. n \in Nat /\ n = Len(sx.memory) + 1
  BY <1>3, <1>4 DEF NextAddress
<1>6. s = [t EXCEPT !.slot = n]
  BY <1>2, <1>3 DEF Bind, SxBind
<1>7. /\ s \in PointerSet /\ s.slot = n /\ s.cell = sx.cell /\ s.env = sx.env
      /\ s.inner = sx.inner /\ s.memory = t.memory
  BY <1>4, <1>5, <1>6 DEF PointerSet
<1>8. e = [env EXCEPT !.outer = i]
  BY DEF Bind, GoBind
<1>9. e \in ScopeSet /\ e.outer = i /\ e.inner = env.inner
  BY <1>1, <1>8 DEF ScopeSet
<1>10. s.slot > s.cell /\ Newest(s) = n /\ s.slot # 0
  BY <1>1, <1>4, <1>5, <1>7 DEF Newest
<1>11. QED BY <1>1, <1>4, <1>5, <1>7, <1>9, <1>10 DEF ValuesOK

\* The same for a function's own x.
LEMMA InnerMade ==
  ASSUME ValuesOK(sx, env), NEW i \in Nat, i # 0, FunctionOf(i) # 0, Allocates(i), Outer = 0,
         Bind(i), NEW s, s = sx', NEW e, e = env'
  PROVE  ValuesOK(s, e) /\ s.inner # 0
<1>1. /\ sx \in PointerSet /\ env \in ScopeSet /\ sx.env = sx.cell
      /\ sx.slot = 0 /\ sx.cell = 0 /\ env.outer = 0
  BY DEF ValuesOK
<1>2. PICK t : t = Stored(i)
  OBVIOUS
<1>3. PICK n : n = NextAddress
  OBVIOUS
<1>4. /\ t \in PointerSet /\ t.slot = sx.slot /\ t.cell = sx.cell /\ t.env = sx.env
      /\ t.inner = sx.inner /\ Len(t.memory) = n /\ Len(sx.memory) \in Nat /\ t.memory[n] = i
  BY <1>1, <1>2, <1>3, MemoryStored
<1>5. n \in Nat /\ n = Len(sx.memory) + 1
  BY <1>3, <1>4 DEF NextAddress
<1>6. s = [t EXCEPT !.inner = n]
  BY <1>2, <1>3 DEF Bind, SxBind
<1>7. /\ s \in PointerSet /\ s.slot = sx.slot /\ s.cell = sx.cell /\ s.env = sx.env
      /\ s.inner = n /\ s.memory = t.memory
  BY <1>4, <1>5, <1>6 DEF PointerSet
<1>8. e = [env EXCEPT !.inner = i]
  BY <1>1 DEF Bind, GoBind, Undefined
<1>9. e \in ScopeSet /\ e.outer = env.outer /\ e.inner = i
  BY <1>1, <1>8 DEF ScopeSet
<1>10. QED BY <1>1, <1>4, <1>5, <1>7, <1>9 DEF ValuesOK

\* A store reaches the place where both engines look for x.
LEMMA PlaceWritten ==
  ASSUME ValuesOK(sx, env), NEW i \in Nat, i # 0, Finds(i),
         Bind(i), NEW s, s = sx', NEW e, e = env'
  PROVE  ValuesOK(s, e) /\ s.slot = sx.slot /\ s.cell = sx.cell /\ s.inner = sx.inner
<1>1. /\ sx \in PointerSet /\ env \in ScopeSet /\ sx.env = sx.cell
      /\ sx.slot \in Nat /\ sx.cell \in Nat /\ sx.inner \in Nat
      /\ sx.slot <= Len(sx.memory) /\ sx.cell <= Len(sx.memory) /\ sx.inner <= Len(sx.memory)
      /\ Len(sx.memory) \in Nat
  BY LenProperties DEF ValuesOK, PointerSet
<1>2. ~Allocates(i) /\ Address(i) # Undefined
  BY FindsSame DEF Finds
<1>3. PICK a : a = Address(i)
  OBVIOUS
<1>4. a \in 1 .. Len(sx.memory)
  <2>1. a # 0 /\ (a = Newest(sx) \/ a = sx.inner)
    BY <1>2, <1>3 DEF Finds, Undefined
  <2>2. QED BY <1>1, <2>1 DEF Newest
<1>5. s = [sx EXCEPT !.memory[a] = i]
  BY <1>2, <1>3 DEF Bind, SxBind
<1>6. /\ s \in PointerSet
      /\ s.slot = sx.slot /\ s.cell = sx.cell /\ s.env = sx.env /\ s.inner = sx.inner
      /\ Len(s.memory) = Len(sx.memory) /\ s.memory[a] = i
  BY <1>1, <1>4, <1>5, MemoryWritten
<1>7. Newest(s) = Newest(sx)
  BY <1>6 DEF Newest
<1>8. CASE /\ a = Newest(sx) /\ Newest(sx) # 0 /\ sx.slot # 0
           /\ FunctionOf(i) # 0 => sx.inner = 0
  <2>1. sx.inner = 0 /\ env.inner = 0 /\ env.outer # 0
    BY <1>8 DEF ValuesOK
  <2>2. e = [env EXCEPT !.outer = i]
    BY <2>1 DEF Bind, GoBind, Undefined
  <2>3. e \in ScopeSet /\ e.outer = i /\ e.inner = env.inner
    BY <1>1, <2>2 DEF ScopeSet
  <2>4. Outer # 0
    BY <1>8 DEF ValuesOK
  <2>5. QED BY <1>1, <1>6, <1>7, <1>8, <2>1, <2>3, <2>4 DEF ValuesOK
<1>9. CASE a = sx.inner /\ sx.inner # 0 /\ FunctionOf(i) # 0
  <2>1. env.inner # 0 /\ Outer = 0 /\ sx.slot = 0 /\ sx.cell = 0 /\ env.outer = 0
    BY <1>9 DEF ValuesOK
  <2>2. e = [env EXCEPT !.inner = i]
    BY <1>9, <2>1 DEF Bind, GoBind, Undefined
  <2>3. e \in ScopeSet /\ e.outer = env.outer /\ e.inner = i
    BY <1>1, <2>2 DEF ScopeSet
  <2>4. QED BY <1>1, <1>6, <1>9, <2>1, <2>3 DEF ValuesOK
<1>10. QED BY <1>3, <1>6, <1>8, <1>9 DEF Finds

\* Line i binds x, and the walk goes on to gs.
LEMMA BindKeeps ==
  ASSUME TextOK, WalkOK(frames), frames # << >>, SlotsOK(frames, sx), ValuesOK(sx, env),
         NEW i, Kind(i) \in {"expr", "for"}, AtLine(i, frames[1]), Bind(i),
         NEW gs, Moved(gs, i), SameLevels(gs), NEW s, s = sx', NEW e, e = env'
  PROVE  SlotsOK(gs, s) /\ ValuesOK(s, e) /\ ~wild'
<1>1. /\ prog \in Seq(Line) /\ i \in DOMAIN prog /\ i \in Nat /\ i # 0
      /\ 1 \in DOMAIN frames /\ SlotsFor(frames[1], sx)
  BY Lines, FrameFacts DEF TextOK, AtLine, WalkOK, SlotsOK
<1>2. PICK fr : fr = frames[1]
  OBVIOUS
<1>3. \/ Finds(i) /\ ~Makes(i)
      \/ Allocates(i) /\ i = Outer /\ FunctionOf(i) = 0 /\ InText(fr)
      \/ /\ Allocates(i) /\ FunctionOf(i) \in Functions /\ Outer = 0
         /\ \A f \in Functions : ~Captures(f)
  BY <1>1, <1>2, FindsOrMakes
<1>4. CASE Finds(i) /\ ~Makes(i)
  <2>1. ValuesOK(s, e) /\ s.slot = sx.slot /\ s.cell = sx.cell /\ s.inner = sx.inner
    BY <1>1, <1>4, PlaceWritten
  <2>2. SlotsOK(gs, sx)
    BY <1>4, SlotsMoved
  <2>3. SlotsOK(gs, s)
    BY <2>1, <2>2, SameSlots
  <2>4. Address(i) # Undefined
    BY <1>4, FindsSame
  <2>5. QED BY <1>4, <2>1, <2>3, <2>4 DEF Bind, SxBind
<1>5. CASE Allocates(i) /\ i = Outer /\ FunctionOf(i) = 0
  <2>1. ValuesOK(s, e) /\ s.slot > s.cell
    BY <1>1, <1>5, PlaceMade
  <2>2. \A k \in DOMAIN gs :
          InText(gs[k]) /\ \A f \in Functions : Captures(f) => ~Reached(f, gs[k])
    BY <1>1, <1>5, BoundBeforeCapture
  <2>3. SlotsOK(gs, s)
    BY <2>1, <2>2, SlotsBound
  <2>4. QED BY <1>5, <2>1, <2>3 DEF Bind, SxBind
<1>6. CASE /\ Allocates(i) /\ FunctionOf(i) \in Functions /\ Outer = 0
           /\ \A f \in Functions : ~Captures(f)
  <2>1. FunctionOf(i) # 0
    BY <1>1, <1>6, Lines DEF Functions
  <2>2. ValuesOK(s, e) /\ s.inner # 0
    BY <1>1, <1>6, <2>1, InnerMade
  <2>3. SlotsOK(gs, s)
    BY <1>6, <2>2, SlotsInner
  <2>4. QED BY <1>6, <2>2, <2>3 DEF Bind, SxBind
<1>7. QED BY <1>3, <1>4, <1>5, <1>6

\* A closure is made: the value is copied to the cell it shares.
LEMMA CellMade ==
  ASSUME ValuesOK(sx, env), NEW f, Captures(f), sx.slot > sx.cell, Outer # 0,
         Define(f), NEW s, s = sx'
  PROVE  ValuesOK(s, env) /\ s.cell > s.slot /\ ~wild'
<1>1. /\ sx \in PointerSet /\ sx.slot \in Nat /\ sx.cell \in Nat /\ sx.inner \in Nat
      /\ sx.memory \in Seq(Nat) /\ Len(sx.memory) \in Nat
      /\ sx.slot <= Len(sx.memory) /\ sx.inner <= Len(sx.memory) /\ sx.slot # 0
  BY LenProperties DEF ValuesOK, PointerSet
<1>2. /\ sx.inner = 0 /\ env.inner = 0 /\ env \in ScopeSet
      /\ env.outer # 0 /\ sx.memory[Newest(sx)] = env.outer /\ Newest(sx) = sx.slot
  BY <1>1 DEF ValuesOK, Newest
<1>3. sx.slot \in 1 .. Len(sx.memory)
  BY <1>1
<1>4. PICK v \in Nat : v = sx.memory[sx.slot]
  BY <1>1, <1>3, ElementOfSeq
<1>5. PICK t : t = Stored(v)
  OBVIOUS
<1>6. PICK n : n = NextAddress
  OBVIOUS
<1>7. /\ t \in PointerSet /\ t.slot = sx.slot /\ t.inner = sx.inner
      /\ Len(t.memory) = n /\ t.memory[n] = v
  BY <1>1, <1>5, <1>6, MemoryStored
<1>8. n \in Nat /\ n = Len(sx.memory) + 1
  BY <1>1, <1>6 DEF NextAddress
<1>9. s = [t EXCEPT !.cell = n, !.env = n] /\ ~wild'
  <2>1. sx.slot # Undefined /\ Cell(f) = [t EXCEPT !.cell = n, !.env = n]
    BY <1>1, <1>4, <1>5, <1>6 DEF Cell, Undefined
  <2>2. QED BY <2>1 DEF Define
<1>10. /\ s \in PointerSet /\ s.slot = sx.slot /\ s.cell = n /\ s.env = n
       /\ s.inner = sx.inner /\ s.memory = t.memory
  BY <1>7, <1>8, <1>9 DEF PointerSet
<1>11. s.cell > s.slot /\ Newest(s) = n /\ s.slot # 0
  BY <1>1, <1>8, <1>10 DEF Newest
<1>12. s.memory[n] = env.outer /\ Len(s.memory) = n
  BY <1>2, <1>4, <1>7, <1>10
<1>13. QED BY <1>1, <1>2, <1>8, <1>9, <1>10, <1>11, <1>12 DEF ValuesOK

LEMMA DefineKeeps ==
  ASSUME TextOK, WalkOK(frames), SlotsOK(frames, sx), ValuesOK(sx, env),
         Executing, NEW f, f = frames[1].at, Kind(f) = "fn", Define(f),
         NEW gs, GoesOn(gs), NEW s, s = sx'
  PROVE  SlotsOK(gs, s) /\ ValuesOK(s, env) /\ ~wild'
<1>1. /\ prog \in Seq(Line) /\ Parsed /\ BoundAbove /\ FramesOK(frames)
      /\ 1 \in DOMAIN frames /\ f \in DOMAIN prog /\ f \in Nat
      /\ Enclosing(f) = Inside(frames[1].owner)
      /\ SlotsFor(frames[1], sx)
  BY ExecutingIs DEF TextOK, Tidy, WalkOK, SlotsOK
<1>2. f \in Functions /\ FunctionOf(f) = 0 /\ InText(frames[1])
  BY <1>1, FunctionOfIs DEF InText
<1>3. Moved(gs, f) /\ SameLevels(gs)
  BY <1>1, MovedOn
<1>4. CASE ~Captures(f)
  <2>1. s = sx /\ ~wild'
    BY <1>4 DEF Define
  <2>2. f # Outer
    <3>1. Outer # 0 => Kind(Outer) \in {"expr", "for"}
      BY <1>1, FirstBinderIs DEF Outer
    <3>2. f # 0
      BY <1>1, Lines
    <3>3. QED BY <3>1, <3>2
  <2>3. \A g \in Functions : f # FirstBinder(g)
    <3>1. ASSUME NEW g \in Functions, f = FirstBinder(g) PROVE FALSE
      <4>1. f # 0
        BY <1>1, Lines
      <4>2. f \in Binders(g)
        BY <1>1, <3>1, <4>1, FirstBinderIs
      <4>3. Kind(f) \in {"expr", "for"}
        BY <1>1, <4>2, FirstBinderIs
      <4>4. QED BY <4>3
    <3>2. QED BY <3>1
  <2>4. ~Makes(f)
    BY <1>4, <2>2, <2>3 DEF Makes
  <2>5. QED BY <1>3, <2>1, <2>4, SlotsMoved
<1>5. CASE Captures(f)
  <2>1. /\ Outer \in DOMAIN prog /\ Outer \in Nat /\ Outer < f /\ Outer # 0
    BY <1>1, <1>2, <1>5, CapturesIs
  <2>2. Dominates(Outer, f)
    BY <1>1, <1>2, <1>5 DEF BoundAbove, Outer
  <2>3. Reached(Outer, frames[1])
    BY <1>1, <2>1, <2>2 DEF Dominates, Reached
  <2>4. \A g \in Functions : frames[1].at <= g
    <3>1. \A g \in Functions : g = f
      BY <1>1, <1>2, OneFunction
    <3>2. QED BY <1>1, <3>1
  <2>5. SlotSure(frames[1])
    BY <2>1, <2>3, <2>4 DEF SlotSure
  <2>6. sx.slot > sx.cell
    BY <1>1, <1>2, <2>5 DEF SlotsFor
  <2>7. ValuesOK(s, env) /\ s.cell > s.slot /\ ~wild'
    BY <1>5, <2>1, <2>6, CellMade
  <2>8. /\ FramesOK(gs) /\ DOMAIN gs = 1 .. Len(frames) /\ Len(frames) \in Nat
        /\ DOMAIN frames = 1 .. Len(frames) /\ gs[1].at = After(f)
        /\ \A k \in 2 .. Len(frames) : gs[k] = frames[k]
    BY <1>1, FrameFacts DEF GoesOn, Replaces
  <2>9. ASSUME NEW k \in DOMAIN gs
        PROVE  InText(gs[k]) /\ f < gs[k].at /\ gs[k].at \in Nat
    <3>1. \A n \in DOMAIN frames : InText(frames[n])
      <4>1. ASSUME NEW n \in DOMAIN frames PROVE n = 1 \/ 1 < n
        BY <2>8
      <4>2. QED BY <1>1, <1>2, <4>1 DEF WalkOK, Leveled
    <3>2. InText(gs[k])
      BY <1>3, <3>1 DEF SameLevels
    <3>3. gs[k].at \in Nat
      BY <2>8, FrameFacts
    <3>4. k = 1 \/ k \in 2 .. Len(frames)
      BY <2>8
    <3>5. CASE k = 1
      BY <1>1, <2>8, <3>2, <3>3, <3>5, AfterIs
    <3>6. CASE k \in 2 .. Len(frames)
      <4>1. gs[k] = frames[k] /\ k \in DOMAIN frames /\ 1 < k
        BY <2>8, <3>6
      <4>2. Behind(frames[1].owner, frames[k])
        BY <1>1, <1>2, <4>1 DEF WalkOK, Gaps
      <4>3. PICK o : o = frames[1].owner
        OBVIOUS
      <4>4. o \in DOMAIN prog /\ f < Limit(o) /\ o # 0
        <5>1. 1 # Len(frames)
          BY <2>8, <3>6
        <5>2. FrameOK(frames, 1)
          BY <1>1 DEF FramesOK
        <5>3. frames[1].owner # 0
          BY <5>1, <5>2 DEF FrameOK
        <5>4. QED BY <1>1, <4>3, <5>3, ExecutingIs
      <4>5. f < End(o) /\ End(o) <= gs[k].at /\ End(o) \in Nat
        BY <1>1, <4>1, <4>2, <4>3, <4>4, EndIs DEF Limit, Behind
      <4>6. QED BY <1>1, <3>2, <3>3, <4>5
    <3>7. QED BY <3>4, <3>5, <3>6
  <2>10. SlotsOK(gs, s)
    BY <1>1, <1>2, <1>5, <2>7, <2>9, SlotsDefined
  <2>11. QED BY <2>7, <2>10
<1>6. QED BY <1>4, <1>5

\* The function is called: its own x is not bound yet.
LEMMA EnterKeeps ==
  ASSUME TextOK, WalkOK(frames), SlotsOK(frames, sx), ValuesOK(sx, env),
         Executing, Kind(frames[1].at) \in Calls, Enter,
         NEW f \in Functions, NEW gs, Enters(gs, f), NEW s, s = sx', NEW e, e = env'
  PROVE  SlotsOK(gs, s) /\ ValuesOK(s, e)
<1>1. sx \in PointerSet /\ env \in ScopeSet /\ Len(sx.memory) \in Nat
  BY LenProperties DEF ValuesOK, PointerSet
<1>2. /\ s \in PointerSet /\ s.slot = sx.slot /\ s.cell = sx.cell /\ s.env = sx.env
      /\ s.inner = 0 /\ s.memory = sx.memory
  <2>1. s = [sx EXCEPT !.inner = 0]
    BY DEF Enter, Undefined
  <2>2. \A q \in PointerSet :
          LET c == [q EXCEPT !.inner = 0] IN
          /\ c \in PointerSet /\ c.slot = q.slot /\ c.cell = q.cell /\ c.env = q.env
          /\ c.inner = 0 /\ c.memory = q.memory
    BY DEF PointerSet
  <2>3. QED BY <1>1, <2>1, <2>2
<1>3. e \in ScopeSet /\ e.outer = env.outer /\ e.inner = 0
  <2>1. e = [env EXCEPT !.inner = 0]
    BY DEF Enter, Undefined
  <2>2. QED BY <1>1, <2>1 DEF ScopeSet
<1>4. Newest(s) = Newest(sx)
  BY <1>2 DEF Newest
<1>5. ValuesOK(s, e)
  BY <1>1, <1>2, <1>3, <1>4 DEF ValuesOK
<1>6. SlotsOK(gs, s)
  BY <1>2, SlotsCalled
<1>7. QED BY <1>5, <1>6

\* isDefined has asked for a line above that binds x.
LEMMA PrintFinds ==
  ASSUME TextOK, WalkOK(frames), SlotsOK(frames, sx), ValuesOK(sx, env), At({"say"})
  PROVE  Finds(frames[1].at)
<1>1. /\ prog \in Seq(Line) /\ Checked /\ SharedByCapture /\ Parsed
      /\ Executing /\ FramesOK(frames) /\ Kind(Top.at) = "say"
      /\ 1 \in DOMAIN frames /\ Top = frames[1]
      /\ frames[1].at \in DOMAIN prog /\ frames[1].at \in Nat
      /\ AtLine(frames[1].at, frames[1]) /\ SlotsFor(frames[1], sx)
  BY ExecutingIs, LineExecuted DEF TextOK, Tidy, WalkOK, At, SlotsOK
<1>2. PICK fr : fr = frames[1]
  OBVIOUS
<1>3. PICK i \in DOMAIN prog : i = frames[1].at
  BY <1>1
<1>4. PICK f : f = FunctionOf(i)
  OBVIOUS
<1>5. Kind(i) = "say" /\ i \in Nat /\ AtLine(i, fr) /\ SlotsFor(fr, sx) /\ (InText(fr) <=> f = 0)
  BY <1>1, <1>2, <1>3, <1>4 DEF AtLine
<1>6. PICK j \in 1 .. i - 1 : j \in Binders(0) \cup Binders(f)
  BY <1>1, <1>4, <1>5 DEF Checked
<1>7. CASE f = 0
  <2>1. j \in Binders(0) /\ Outer \in Nat /\ Outer # 0 /\ Outer <= j
    BY <1>1, <1>6, <1>7, FirstBinderIs DEF Outer
  <2>2. Outer <= i /\ Outer # i
    BY <1>5, <2>1
  <2>3. QED BY <1>3, <1>5, <1>7, <2>1, <2>2, TextFinds
<1>8. CASE f # 0
  <2>1. f \in Functions /\ i \in Mentions(f)
    BY <1>1, <1>4, <1>5, <1>8, FunctionOfIs DEF Mentions
  <2>2. CASE Captures(f)
    BY <1>3, <1>4, <1>5, <1>8, <2>2, CallFinds
  <2>3. CASE ~Captures(f)
    <3>1. Binders(0) = {}
      BY <1>1, <2>1, <2>3 DEF SharedByCapture
    <3>2. j \in Binders(f)
      BY <1>6, <3>1
    <3>3. FirstBinder(f) \in Nat /\ FirstBinder(f) # 0 /\ FirstBinder(f) <= j
      BY <1>1, <3>2, FirstBinderIs
    <3>4. FirstBinder(f) \in 1 .. i /\ i # FirstBinder(f)
      BY <1>5, <3>3
    <3>5. QED BY <1>3, <1>4, <1>5, <1>8, <3>4, CallFinds
  <2>4. QED BY <2>2, <2>3
<1>9. QED BY <1>7, <1>8

-----------------------------------------------------------------------------
(* The invariant of tidy texts.                                            *)

TInv ==
  /\ TextOK /\ WalkOK(frames) /\ result.is = "value"
  /\ SlotsOK(frames, sx) /\ ValuesOK(sx, env)
  /\ ~wild /\ shown.go = shown.sx
  /\ stage = "write" => frames = << >> /\ sx.slot = 0 /\ sx.inner = 0

\* The text does not change while it is run.
LEMMA WalkSame ==
  ASSUME UNCHANGED prog, NEW gs, WalkOK(gs)
  PROVE  WalkOK(gs)' /\ \A x : InText(x)' <=> InText(x)
<1>1. /\ Functions' = Functions /\ prog' = prog
      /\ \A i : /\ Kind(i)' = Kind(i) /\ End(i)' = End(i) /\ Enclosing(i)' = Enclosing(i)
                /\ Inside(i)' = Inside(i)
  BY ProgramSame DEF Inside
<1>2. FramesOK(gs)'
  BY FramesOKSame DEF WalkOK
<1>3. \A x : InText(x)' <=> InText(x)
  BY <1>1 DEF InText
<1>4. Leveled(gs)'
  BY <1>3 DEF WalkOK, Leveled
<1>5. ASSUME NEW o, NEW x PROVE Behind(o, x)' <=> Behind(o, x)
  BY <1>1 DEF Behind
<1>6. Gaps(gs)'
  BY <1>3, <1>5 DEF WalkOK, Gaps
<1>7. QED BY <1>2, <1>3, <1>4, <1>6 DEF WalkOK

LEMMA SlotsSame ==
  ASSUME UNCHANGED <<prog, nested>>, NEW gs, WalkOK(gs), NEW s, SlotsOK(gs, s)
  PROVE  SlotsOK(gs, s)'
<1>1. /\ Functions' = Functions /\ prog' = prog
      /\ \A i : /\ Kind(i)' = Kind(i) /\ Enclosing(i)' = Enclosing(i) /\ Inside(i)' = Inside(i)
  BY ProgramSame DEF Inside
<1>2. /\ \A f : FirstBinder(f)' = FirstBinder(f) /\ (Captures(f)' <=> Captures(f))
      /\ \A x : InText(x)' <=> InText(x)
  BY TextSame, WalkSame
<1>3. Outer' = Outer
  BY <1>2 DEF Outer
<1>4. ASSUME NEW j, NEW x PROVE Reached(j, x)' <=> Reached(j, x)
  BY <1>1 DEF Reached
<1>5. ASSUME NEW x PROVE SlotSure(x)' <=> SlotSure(x)
  <2>1. PICK o : o = Outer
    OBVIOUS
  <2>2. Reached(Outer, x)' <=> Reached(o, x)'
    BY <1>3, <2>1
  <2>3. QED BY <1>1, <1>2, <1>3, <1>4, <2>1, <2>2 DEF SlotSure
<1>6. ASSUME NEW x PROVE CellSure(x)' <=> CellSure(x)
  BY <1>1, <1>2, <1>4 DEF CellSure
<1>7. ASSUME NEW x PROVE InnerSure(x)' <=> InnerSure(x)
  <2>1. ASSUME NEW f PROVE Reached(FirstBinder(f), x)' <=> Reached(FirstBinder(f), x)
    <3>1. PICK o : o = FirstBinder(f)
      OBVIOUS
    <3>2. Reached(FirstBinder(f), x)' <=> Reached(o, x)'
      BY <1>2, <3>1
    <3>3. QED BY <1>4, <3>1, <3>2
  <2>2. QED BY <1>1, <1>2, <2>1 DEF InnerSure
<1>8. ASSUME NEW x PROVE SlotsFor(x, s) => SlotsFor(x, s)'
  BY <1>2, <1>5, <1>6, <1>7 DEF SlotsFor
<1>9. ASSUME NEW k \in DOMAIN gs PROVE SlotsFor(gs[k], s)'
  BY <1>8 DEF SlotsOK
<1>10. QED BY <1>9 DEF SlotsOK

LEMMA ValuesSame ==
  ASSUME NEW s, NEW e, ValuesOK(s, e),
         Outer' = Outer \/ (s.slot = 0 /\ s.inner = 0)
  PROVE  ValuesOK(s, e)'
BY DEF ValuesOK, Newest

\* A step that runs the text.
LEMMA RunKeeps ==
  ASSUME TextOK, UNCHANGED <<prog, nested>>, stage' # "write", result'.is = "value",
         NEW gs, gs = frames', WalkOK(gs),
         NEW s, s = sx', SlotsOK(gs, s), NEW e, e = env', ValuesOK(s, e),
         ~wild', shown'.go = shown'.sx
  PROVE  TInv'
<1>1. TextOK' /\ Outer' = Outer
  BY TextSame DEF Outer
<1>2. WalkOK(gs)' /\ SlotsOK(gs, s)' /\ ValuesOK(s, e)'
  BY <1>1, WalkSame, SlotsSame, ValuesSame
<1>3. WalkOK(frames)'
  BY <1>2
<1>4. SlotsOK(frames, sx)'
  BY <1>2
<1>5. ValuesOK(sx, env)'
  BY <1>2
<1>6. QED BY <1>1, <1>3, <1>4, <1>5 DEF TInv

\* A step that executes no line.
LEMMA WalkKeeps ==
  ASSUME TInv, stage # "write", UNCHANGED <<prog, stage, places>>, result'.is = "value",
         NEW gs, gs = frames', WalkOK(gs), Moved(gs, 0), SameLevels(gs)
  PROVE  TInv'
<1>1. PICK s : s = sx
  OBVIOUS
<1>2. PICK e : e = env
  OBVIOUS
<1>3. ~Makes(0)
  BY DEF Makes
<1>4. SlotsOK(gs, s) /\ ValuesOK(s, e)
  BY <1>1, <1>2, <1>3, SlotsMoved DEF TInv
<1>5. /\ s = sx' /\ e = env' /\ UNCHANGED <<prog, nested>> /\ stage' # "write"
      /\ ~wild' /\ shown'.go = shown'.sx /\ TextOK
  BY <1>1, <1>2 DEF TInv, places
<1>6. QED BY <1>4, <1>5, RunKeeps

\* A statement that is no line to execute, a loop that goes back, and a block
\* that is left.
LEMMA StatementWalks ==
  ASSUME TInv, Executing, Kind(frames[1].at) \notin {"expr", "for", "fn"},
         NEW gs, GoesOn(gs) \/ \E h \in DOMAIN prog : EntersBlock(gs, h)
  PROVE  WalkOK(gs) /\ Moved(gs, 0) /\ SameLevels(gs)
<1>1. prog \in Seq(Line) /\ WalkOK(frames) /\ FramesOK(frames) /\ frames # << >>
  BY DEF TInv, TextOK, WalkOK, Executing
<1>2. CASE GoesOn(gs)
  BY <1>1, <1>2, MovedOn, WalkReplaced DEF GoesOn
<1>3. ASSUME NEW h, EntersBlock(gs, h) PROVE WalkOK(gs) /\ Moved(gs, 0) /\ SameLevels(gs)
  BY <1>1, <1>3, MovedInto, WalkEntered
<1>4. QED BY <1>2, <1>3

LEMMA PopWalks ==
  ASSUME TInv, NEW gs, Pops(gs)
  PROVE  WalkOK(gs) /\ Moved(gs, 0) /\ SameLevels(gs)
BY WalkPopped, MovedOut DEF TInv, WalkOK

\* A line that binds x is executed, and the walk goes on.
LEMMA BinderKeeps ==
  ASSUME TInv, stage # "write", UNCHANGED prog, frames # << >>, result'.is = "value",
         NEW i, Kind(i) \in {"expr", "for"}, AtLine(i, frames[1]), Bind(i),
         NEW gs, gs = frames', WalkOK(gs), Moved(gs, i), SameLevels(gs)
  PROVE  TInv'
<1>1. PICK s : s = sx'
  OBVIOUS
<1>2. PICK e : e = env'
  OBVIOUS
<1>3. SlotsOK(gs, s) /\ ValuesOK(s, e) /\ ~wild'
  BY <1>1, <1>2, BindKeeps DEF TInv
<1>4. nested' = nested /\ stage' # "write" /\ shown'.go = shown'.sx /\ TextOK
  BY DEF TInv, Bind
<1>5. QED BY <1>1, <1>2, <1>3, <1>4, RunKeeps

LEMMA AssignKeeps ==
  ASSUME TInv, Assign
  PROVE  TInv'
<1>1. /\ prog \in Seq(Line) /\ TextOK /\ WalkOK(frames) /\ FramesOK(frames) /\ stage # "write"
      /\ UNCHANGED prog /\ Executing /\ Kind(Top.at) = "expr"
  BY DEF TInv, TextOK, WalkOK, Assign, Running, Simple, At
<1>2. Top = frames[1] /\ frames # << >>
  BY <1>1, ExecutingIs
<1>3. PICK i : i = frames[1].at
  OBVIOUS
<1>4. PICK gs : gs = frames'
  OBVIOUS
<1>5. GoesOn(gs)
  <2>1. frames' = Advanced
    BY DEF Assign, Simple
  <2>2. QED BY <1>1, <1>4, <2>1, AdvancedGoesOn
<1>6. WalkOK(gs) /\ Moved(gs, i) /\ SameLevels(gs)
  BY <1>1, <1>2, <1>3, <1>5, MovedOn, WalkReplaced DEF GoesOn
<1>7. AtLine(i, frames[1])
  BY <1>1, <1>3, LineExecuted DEF At
<1>8. Kind(i) = "expr" /\ Bind(i) /\ result'.is = "value"
  <2>1. Bind(Top.at) /\ result' = Value(Top.at)
    BY <1>1 DEF Assign, Simple
  <2>2. QED BY <1>1, <1>2, <1>3, <2>1 DEF Value
<1>9. QED BY <1>1, <1>2, <1>4, <1>6, <1>7, <1>8, BinderKeeps

\* A print shows what both engines find.
LEMMA SayKeeps ==
  ASSUME TInv, Say
  PROVE  TInv'
<1>1. /\ prog \in Seq(Line) /\ TextOK /\ WalkOK(frames) /\ FramesOK(frames) /\ stage # "write"
      /\ SlotsOK(frames, sx) /\ ValuesOK(sx, env)
      /\ UNCHANGED prog /\ Executing /\ Kind(Top.at) = "say"
  BY DEF TInv, TextOK, WalkOK, Say, Running, Simple, At
<1>2. Top = frames[1] /\ frames # << >>
  BY <1>1, ExecutingIs
<1>3. PICK i : i = frames[1].at
  OBVIOUS
<1>4. PICK gs : gs = frames'
  OBVIOUS
<1>5. GoesOn(gs)
  <2>1. frames' = Advanced
    BY DEF Say, Simple
  <2>2. QED BY <1>1, <1>4, <2>1, AdvancedGoesOn
<1>6. WalkOK(gs) /\ Moved(gs, 0) /\ SameLevels(gs)
  BY <1>1, <1>2, <1>5, StatementWalks
<1>7. Finds(i)
  BY <1>1, <1>3, PrintFinds DEF At
<1>8. /\ Address(i) # Undefined /\ Loaded(i) = Looked(i)
  BY <1>1, <1>7, FindsSame
<1>9. Show(i) /\ result'.is = "value"
  <2>1. Show(Top.at) /\ result' = Null
    BY <1>1 DEF Say, Simple
  <2>2. QED BY <1>2, <1>3, <2>1 DEF Null, Value
<1>10. ~wild' /\ shown' = [go |-> Looked(i), sx |-> Loaded(i)]
  BY <1>8, <1>9 DEF Show
<1>11. shown'.go = shown'.sx /\ UNCHANGED <<nested, env, sx, stage>>
  BY <1>8, <1>9, <1>10 DEF Show
<1>12. PICK s : s = sx
  OBVIOUS
<1>13. PICK e : e = env
  OBVIOUS
<1>14. SlotsOK(gs, s) /\ ValuesOK(s, e)
  <2>1. ~Makes(0)
    BY DEF Makes
  <2>2. QED BY <1>1, <1>6, <1>12, <1>13, <2>1, SlotsMoved
<1>15. s = sx' /\ e = env' /\ stage' # "write"
  BY <1>1, <1>11, <1>12, <1>13
<1>16. QED BY <1>1, <1>4, <1>6, <1>9, <1>10, <1>11, <1>14, <1>15, RunKeeps

LEMMA DefinitionKeeps ==
  ASSUME TInv, DefineFunction
  PROVE  TInv'
<1>1. /\ prog \in Seq(Line) /\ TextOK /\ WalkOK(frames) /\ FramesOK(frames) /\ stage # "write"
      /\ SlotsOK(frames, sx) /\ ValuesOK(sx, env) /\ shown.go = shown.sx
      /\ UNCHANGED prog /\ Executing /\ Kind(Top.at) = "fn"
  BY DEF TInv, TextOK, WalkOK, DefineFunction, Running, FuncDefinition, At
<1>2. Top = frames[1] /\ frames # << >>
  BY <1>1, ExecutingIs
<1>3. PICK f : f = frames[1].at
  OBVIOUS
<1>4. PICK gs : gs = frames'
  OBVIOUS
<1>5. GoesOn(gs)
  <2>1. frames' = Advanced
    BY DEF DefineFunction, FuncDefinition
  <2>2. QED BY <1>1, <1>4, <2>1, AdvancedGoesOn
<1>6. WalkOK(gs)
  BY <1>1, <1>2, <1>5, WalkReplaced DEF GoesOn
<1>7. Define(f) /\ result'.is = "value" /\ Kind(f) = "fn"
  <2>1. Define(Top.at) /\ result' = Value(Top.at)
    BY DEF DefineFunction, FuncDefinition
  <2>2. QED BY <1>1, <1>2, <1>3, <2>1 DEF Value
<1>8. PICK s : s = sx'
  OBVIOUS
<1>9. PICK e : e = env
  OBVIOUS
<1>10. SlotsOK(gs, s) /\ ValuesOK(s, e) /\ ~wild'
  BY <1>1, <1>3, <1>5, <1>7, <1>8, <1>9, DefineKeeps
<1>11. e = env' /\ UNCHANGED <<nested, shown, stage>>
  BY <1>7, <1>9 DEF Define
<1>12. QED BY <1>1, <1>4, <1>6, <1>7, <1>8, <1>10, <1>11, RunKeeps

LEMMA CallKeeps ==
  ASSUME TInv, EnterFunction
  PROVE  TInv'
<1>1. /\ prog \in Seq(Line) /\ TextOK /\ WalkOK(frames) /\ FramesOK(frames) /\ stage # "write"
      /\ SlotsOK(frames, sx) /\ ValuesOK(sx, env) /\ ~wild /\ shown.go = shown.sx
      /\ Parsed /\ UNCHANGED prog /\ Executing /\ Kind(Top.at) \in Calls /\ Call /\ Enter
  BY DEF TInv, TextOK, WalkOK, EnterFunction, Running, Call, At
<1>2. Top = frames[1] /\ frames # << >> /\ frames[1].at \in DOMAIN prog
  BY <1>1, ExecutingIs
<1>3. PICK gs : gs = frames'
  OBVIOUS
<1>4. Functions # {}
  BY <1>1, <1>2 DEF Parsed
<1>5. PICK f \in Functions : Enters(gs, f)
  BY <1>1, <1>3, <1>4, CallGoes
<1>6. WalkOK(gs)
  BY <1>1, <1>2, <1>5, WalkCalled
<1>7. PICK s : s = sx'
  OBVIOUS
<1>8. PICK e : e = env'
  OBVIOUS
<1>9. SlotsOK(gs, s) /\ ValuesOK(s, e)
  BY <1>1, <1>2, <1>5, <1>7, <1>8, EnterKeeps
<1>10. UNCHANGED <<nested, wild, shown, stage>> /\ result'.is = "value"
  BY <1>1 DEF Enter, Call, Null, Value
<1>11. QED BY <1>1, <1>3, <1>6, <1>7, <1>8, <1>9, <1>10, RunKeeps

\* A loop binds x before each turn, the first one and the others.
LEMMA StartForKeeps ==
  ASSUME TInv, StartFor
  PROVE  TInv'
<1>1. /\ prog \in Seq(Line) /\ TextOK /\ WalkOK(frames) /\ FramesOK(frames) /\ stage # "write"
      /\ UNCHANGED prog /\ Executing /\ Kind(Top.at) = "for" /\ For /\ result'.is = "value"
  BY DEF TInv, TextOK, WalkOK, StartFor, Running, For, At, Null, Value
<1>2. Top = frames[1] /\ frames # << >>
  BY <1>1, ExecutingIs
<1>3. PICK i : i = frames[1].at
  OBVIOUS
<1>4. PICK gs : gs = frames'
  OBVIOUS
<1>5. Kind(i) = "for" /\ AtLine(i, frames[1])
  BY <1>1, <1>2, <1>3, LineExecuted DEF At
<1>6. Len(frames) \in Nat
  BY <1>1, FrameFacts
<1>7. CASE GoesOn(gs)
  <2>1. ~(Len(gs) > Len(frames))
    BY <1>6, <1>7 DEF GoesOn, Replaces
  <2>2. UNCHANGED <<stage, places>>
    BY <1>4, <2>1 DEF StartFor
  <2>3. WalkOK(gs) /\ Moved(gs, 0) /\ SameLevels(gs)
    BY <1>1, <1>2, <1>7, MovedOn, WalkReplaced DEF GoesOn
  <2>4. QED BY <1>1, <1>4, <2>2, <2>3, WalkKeeps
<1>8. CASE EntersBlock(gs, i)
  <2>1. Len(gs) > Len(frames)
    BY <1>6, <1>8 DEF EntersBlock, Enters
  <2>2. Bind(i)
    BY <1>2, <1>3, <1>4, <2>1 DEF StartFor
  <2>3. WalkOK(gs) /\ Moved(gs, i) /\ SameLevels(gs)
    BY <1>1, <1>3, <1>8, MovedInto, WalkEntered
  <2>4. QED BY <1>1, <1>2, <1>4, <1>5, <2>2, <2>3, BinderKeeps
<1>9. QED BY <1>1, <1>3, <1>4, <1>7, <1>8, ForGoes

LEMMA TurnForKeeps ==
  ASSUME TInv, TurnFor
  PROVE  TInv'
<1>1. /\ prog \in Seq(Line) /\ TextOK /\ WalkOK(frames) /\ FramesOK(frames) /\ stage # "write"
      /\ result.is = "value"
      /\ UNCHANGED prog /\ ForAgain /\ Over({"for"}) /\ result'.is = "value"
  BY DEF TInv, TextOK, WalkOK, TurnFor, Running, ForAgain, Null, Value
<1>2. /\ frames # << >> /\ Top = frames[1] /\ frames[1].owner \in DOMAIN prog
      /\ Kind(frames[1].owner) = "for" /\ ~Executing
  BY <1>1, OverBlock
<1>3. PICK o : o = frames[1].owner
  OBVIOUS
<1>4. PICK gs : gs = frames'
  OBVIOUS
<1>5. frames[1].at = Limit(frames[1].owner)
  BY <1>1, <1>2, EndOfBlock
<1>6. Kind(o) = "for" /\ AtLine(o, frames[1])
  BY <1>1, <1>2, <1>3, <1>5, LoopExecuted
<1>7. Len(frames) \in Nat
  BY <1>1, FrameFacts
<1>8. CASE TurnsBack(gs)
  <2>1. Len(gs) = Len(frames)
    BY <1>8 DEF TurnsBack, Replaces
  <2>2. Bind(o)
    BY <1>2, <1>3, <1>4, <2>1 DEF TurnFor
  <2>3. WalkOK(gs) /\ Moved(gs, o) /\ SameLevels(gs)
    BY <1>1, <1>2, <1>3, <1>5, <1>8, MovedBack, WalkReplaced DEF TurnsBack
  <2>4. QED BY <1>1, <1>2, <1>4, <1>6, <2>2, <2>3, BinderKeeps
<1>9. CASE Pops(gs)
  <2>1. Len(gs) # Len(frames)
    BY <1>7, <1>9 DEF Pops
  <2>2. UNCHANGED <<stage, places>>
    BY <1>4, <2>1 DEF TurnFor
  <2>3. QED BY <1>1, <1>4, <1>9, <2>2, PopWalks, WalkKeeps
<1>10. QED BY <1>1, <1>4, <1>8, <1>9, ForAgainGoes

LEMMA GoOnKeeps ==
  ASSUME TInv, GoOn
  PROVE  TInv'
<1>1. /\ prog \in Seq(Line) /\ TextOK /\ FramesOK(frames) /\ stage # "write"
      /\ result.is = "value" /\ UNCHANGED <<prog, stage, places>>
  BY DEF TInv, TextOK, WalkOK, GoOn, Running
<1>2. PICK gs : gs = frames'
  OBVIOUS
<1>3. CASE If
  <2>1. /\ Executing /\ Kind(frames[1].at) \in Choosers
        /\ GoesOn(gs) \/ \E h \in DOMAIN prog : EntersBlock(gs, h)
    BY <1>1, <1>2, <1>3, IfGoes
  <2>2. WalkOK(gs) /\ Moved(gs, 0) /\ SameLevels(gs)
    BY <2>1, StatementWalks DEF Choosers
  <2>3. result'.is = "value"
    BY <1>3 DEF If, Null, Value
  <2>4. QED BY <1>1, <1>2, <2>2, <2>3, WalkKeeps
<1>4. CASE While
  <2>1. /\ Executing /\ Kind(frames[1].at) = "while"
        /\ GoesOn(gs) \/ EntersBlock(gs, frames[1].at)
    BY <1>1, <1>2, <1>4, WhileGoes
  <2>2. frames[1].at \in DOMAIN prog
    BY <1>1, <2>1, ExecutingIs
  <2>3. WalkOK(gs) /\ Moved(gs, 0) /\ SameLevels(gs)
    BY <2>1, <2>2, StatementWalks
  <2>4. result'.is = "value"
    BY <1>4 DEF While, Null, Value
  <2>5. QED BY <1>1, <1>2, <2>3, <2>4, WalkKeeps
<1>5. CASE BranchEnds
  <2>1. Over(Choosers \cup {"else"}) /\ gs = Tail(frames) /\ result'.is = "value"
    BY <1>1, <1>2, <1>5 DEF BranchEnds
  <2>2. Pops(gs)
    BY <1>1, <2>1, OverBlock
  <2>3. QED BY <1>1, <1>2, <2>1, <2>2, PopWalks, WalkKeeps
<1>6. CASE WhileAgain
  <2>1. Over({"while"}) /\ (TurnsBack(gs) \/ Pops(gs))
    BY <1>1, <1>2, <1>6, WhileAgainGoes
  <2>2. result'.is = "value"
    BY <1>6 DEF WhileAgain, Null, Value
  <2>3. /\ frames # << >> /\ ~Executing /\ Kind(frames[1].owner) = "while"
    BY <1>1, <2>1, OverBlock
  <2>4. ASSUME TurnsBack(gs) PROVE WalkOK(gs) /\ Moved(gs, 0) /\ SameLevels(gs)
    <3>1. frames[1].at = Limit(frames[1].owner)
      BY <1>1, <2>3, EndOfBlock
    <3>2. Moved(gs, 0) /\ SameLevels(gs)
      BY <1>1, <2>3, <2>4, <3>1, MovedBack
    <3>3. WalkOK(gs)
      BY <2>3, <2>4, WalkReplaced DEF TInv, TurnsBack
    <3>4. QED BY <3>2, <3>3
  <2>5. WalkOK(gs) /\ Moved(gs, 0) /\ SameLevels(gs)
    BY <2>1, <2>4, PopWalks
  <2>6. QED BY <1>1, <1>2, <2>2, <2>5, WalkKeeps
<1>7. CASE CallEnds
  <2>1. Over({"fn"}) /\ gs = Tail(frames) /\ (result' = Null \/ result' = Returned)
    BY <1>2, <1>7 DEF CallEnds
  <2>2. result'.is = "value"
    BY <1>1, <2>1 DEF Returned, Null, Value
  <2>3. Pops(gs)
    BY <1>1, <2>1, OverBlock
  <2>4. QED BY <1>1, <1>2, <2>2, <2>3, PopWalks, WalkKeeps
<1>8. QED BY <1>3, <1>4, <1>5, <1>6, <1>7 DEF GoOn

\* Without frames there is nothing that a place could be counted on for.
LEMMA NoWalk ==
  ASSUME NEW gs, gs = << >>, NEW s
  PROVE  WalkOK(gs) /\ SlotsOK(gs, s)
BY DEF WalkOK, FramesOK, Leveled, Gaps, SlotsOK

LEMMA FinishKeeps ==
  ASSUME TInv, Finish
  PROVE  TInv'
<1>1. PICK s : s = sx
  OBVIOUS
<1>2. PICK e : e = env
  OBVIOUS
<1>3. PICK gs : gs = frames'
  OBVIOUS
<1>4. /\ gs = << >> /\ stage' # "write" /\ result'.is = "value"
      /\ UNCHANGED <<prog, nested>> /\ s = sx' /\ e = env'
      /\ TextOK /\ ValuesOK(s, e) /\ ~wild' /\ shown'.go = shown'.sx
  BY <1>1, <1>2, <1>3 DEF TInv, Finish, Running, ProgramEnds, places
<1>5. QED BY <1>3, <1>4, NoWalk, RunKeeps

\* A text is started at its first line.
LEMMA SubmitKeeps ==
  ASSUME TInv, SubmitText
  PROVE  TInv'
<1>1. /\ prog \in Seq(Line) /\ TextOK /\ ValuesOK(sx, env) /\ ~wild /\ shown.go = shown.sx
      /\ result.is = "value"
  BY DEF TInv, TextOK
<1>2. PICK s : s = sx
  OBVIOUS
<1>3. PICK e : e = env
  OBVIOUS
<1>4. PICK gs : gs = frames'
  OBVIOUS
<1>5. /\ gs = <<Block(0, 0, 0)>> /\ stage' # "write"
      /\ UNCHANGED <<prog, nested>> /\ s = sx' /\ e = env'
      /\ ValuesOK(s, e) /\ ~wild' /\ shown'.go = shown'.sx /\ result'.is = "value"
  BY <1>1, <1>2, <1>3, <1>4 DEF SubmitText, places
<1>6. /\ FramesOK(gs) /\ Len(gs) = 1 /\ gs[1].owner = 0 /\ gs[1].at = 1
      /\ DOMAIN gs = 1 .. Len(gs)
  BY <1>1, <1>5, StartFrames, FrameFacts
<1>7. DOMAIN gs = {1}
  BY <1>6
<1>8. WalkOK(gs)
  BY <1>6, <1>7 DEF WalkOK, Leveled, Gaps
<1>9. InText(gs[1])
  BY <1>6 DEF InText, Inside
<1>10. ~SlotSure(gs[1])
  <2>1. Outer \in Nat
    BY <1>1, FirstBinderIs DEF Outer
  <2>2. QED BY <1>6, <2>1 DEF SlotSure, Reached
<1>11. ~CellSure(gs[1])
  <2>1. \A f \in Functions : f \in Nat /\ f # 0
    BY <1>1, Lines DEF Functions
  <2>2. QED BY <1>6, <1>9, <2>1 DEF CellSure, Reached
<1>12. SlotsOK(gs, s)
  BY <1>7, <1>9, <1>10, <1>11 DEF SlotsOK, SlotsFor
<1>13. QED BY <1>1, <1>4, <1>5, <1>8, <1>12, RunKeeps

\* A text is written before it has places.
LEMMA WritingKeeps ==
  ASSUME TInv, WritingText(Tidy')
  PROVE  TInv'
<1>1. /\ stage = "write" /\ frames = << >> /\ sx.slot = 0 /\ sx.inner = 0
      /\ prog \in Seq(Line) /\ ValuesOK(sx, env) /\ ~wild /\ shown.go = shown.sx
      /\ result.is = "value"
  BY DEF TInv, TextOK, WritingText
<1>2. /\ UNCHANGED <<frames, result, stage, nested, env, sx, wild, shown>>
      /\ Checked' /\ Tidy' /\ Parsed'
  BY DEF WritingText, Write, interp, places
<1>3. prog' \in Seq(Line)
  <2>1. PICK l \in Line : prog' = Append(prog, l)
    BY DEF WritingText, Write
  <2>2. QED BY <1>1, <2>1, AppendProperties
<1>4. TextOK'
  BY <1>2, <1>3 DEF TextOK
<1>5. PICK s : s = sx
  OBVIOUS
<1>6. PICK e : e = env
  OBVIOUS
<1>7. ValuesOK(s, e)'
  BY <1>1, <1>5, <1>6, ValuesSame
<1>8. ValuesOK(sx, env)'
  BY <1>2, <1>5, <1>6, <1>7
<1>9. WalkOK(frames)' /\ SlotsOK(frames, sx)'
  BY <1>1, <1>2 DEF WalkOK, FramesOK, Leveled, Gaps, SlotsOK
<1>10. QED BY <1>1, <1>2, <1>4, <1>8, <1>9 DEF TInv

LEMMA StayKeeps ==
  ASSUME TInv, UNCHANGED textVars
  PROVE  TInv'
<1>1. UNCHANGED <<prog, nested, frames, result, stage, env, sx, wild, shown>>
  BY DEF textVars, interp, places
<1>2. PICK gs : gs = frames
  OBVIOUS
<1>3. PICK s : s = sx
  OBVIOUS
<1>4. PICK e : e = env
  OBVIOUS
<1>5. WalkOK(gs) /\ SlotsOK(gs, s) /\ ValuesOK(s, e)
  BY <1>2, <1>3, <1>4 DEF TInv
<1>6. TextOK' /\ Outer' = Outer
  BY <1>1, TextSame DEF TInv, Outer
<1>7. WalkOK(gs)' /\ SlotsOK(gs, s)' /\ ValuesOK(s, e)'
  BY <1>1, <1>5, <1>6, WalkSame, SlotsSame, ValuesSame
<1>8. WalkOK(frames)'
  BY <1>1, <1>2, <1>7
<1>9. SlotsOK(frames, sx)'
  BY <1>1, <1>2, <1>3, <1>7
<1>10. ValuesOK(sx, env)'
  BY <1>1, <1>3, <1>4, <1>7
<1>11. QED BY <1>1, <1>6, <1>8, <1>9, <1>10 DEF TInv

LEMMA TInvInit == InitText => TInv
<1>1. SUFFICES ASSUME InitText PROVE TInv
  OBVIOUS
<1>2. /\ prog = << >> /\ frames = << >> /\ result.is = "value" /\ ~wild /\ shown.go = shown.sx
      /\ env = [outer |-> 0, inner |-> 0]
      /\ sx = [slot |-> 0, cell |-> 0, env |-> 0, inner |-> 0, memory |-> << >>]
  BY <1>1 DEF InitText, InitInterpreter, Null, Value, Undefined
<1>3. Functions = {} /\ DOMAIN prog = {} /\ prog \in Seq(Line)
  BY <1>2 DEF Functions
<1>4. TextOK
  <2>1. Parsed /\ Checked
    BY <1>3 DEF Parsed, Checked
  <2>2. BoundAbove
    BY <1>3 DEF BoundAbove
  <2>3. SharedByCapture /\ CapturedAfresh
    BY <1>3 DEF SharedByCapture, CapturedAfresh
  <2>4. QED BY <1>3, <2>1, <2>2, <2>3 DEF TextOK, Tidy
<1>5. ValuesOK(sx, env)
  <2>1. << >> \in Seq(Nat) /\ Len(<< >>) = 0
    OBVIOUS
  <2>2. QED BY <1>2, <2>1 DEF ValuesOK, PointerSet, ScopeSet
<1>6. QED BY <1>2, <1>4, <1>5, NoWalk DEF TInv

LEMMA TInvStep == TInv /\ [TidyNext]_textVars => TInv'
<1>1. SUFFICES ASSUME TInv, [TidyNext]_textVars PROVE TInv'
  OBVIOUS
<1>2. RunText => TInv'
  BY <1>1, AssignKeeps, SayKeeps, DefinitionKeeps, CallKeeps, StartForKeeps, TurnForKeeps,
     GoOnKeeps, FinishKeeps DEF RunText
<1>3. QED BY <1>1, <1>2, WritingKeeps, SubmitKeeps, StayKeeps DEF TidyNext

\* No line of a tidy text uses a slot that has not been allocated, whatever was
\* executed before it.
THEOREM SlotsNoWildAccess == TidySpec => []NoWildAccess
<1>1. TInv => NoWildAccess
  BY DEF TInv, NoWildAccess
<1>2. QED BY <1>1, TInvInit, TInvStep, PTL DEF TidySpec

\* In a tidy text an assignment reaches the variable that both engines read:
\* the slot before the capture, the cell behind it, and one of them in a call.
THEOREM SlotsSameReads == TidySpec => []SameReads
<1>1. TInv => SameReads
  BY DEF TInv, SameReads
<1>2. QED BY <1>1, TInvInit, TInvStep, PTL DEF TidySpec

\* The interpreter finds every variable that a tidy text prints.
THEOREM SlotsNoneUndefined == TidySpec => []NoneUndefined
<1>1. ASSUME TInv, At({"say"}) PROVE Looked(Top.at) # Undefined
  <2>1. Finds(frames[1].at) /\ ValuesOK(sx, env)
    BY <1>1, PrintFinds DEF TInv
  <2>2. Looked(frames[1].at) # Undefined
    BY <2>1, FindsSame
  <2>3. Top = frames[1]
    BY <1>1, ExecutingIs DEF TInv, TextOK, WalkOK, At
  <2>4. QED BY <2>2, <2>3
<1>2. TInv => NoneUndefined
  BY <1>1 DEF NoneUndefined
<1>3. QED BY <1>2, TInvInit, TInvStep, PTL DEF TidySpec
=============================================================================
