-------------------------- MODULE BuildCache_proofs --------------------------
(***************************************************************************)
(* The cache of binaries, for any number of commands, texts and instants,  *)
(* with files saved and commands killed at any time.                       *)
(*                                                                         *)
(* The first invariant follows the text through a command: what was hashed *)
(* is what is parsed, written, read by clang and linked, because each file *)
(* is named after the hash and every command that writes it agrees on it,  *)
(* but for the names whose commands have met two texts (torn).  The second *)
(* says what a command that is alone finds in the files it shares, with    *)
(* whatever the others have left there.                                    *)
(***************************************************************************)
EXTENDS BuildCache, TLAPS

\* How far command p has got, and what it holds then.
CommandInv(p) ==
  LET c == proc[p] IN
  /\ c.at # "idle" => c.hash \in Texts
  /\ c.at \in {"imports", "openIR", "writeIR"} =>
       c.main \in Texts /\ (c.hash \notin torn => c.main = c.hash)
  /\ c.at \in {"openIR", "writeIR"} => c.imports \in Imports
  /\ c.at = "link" =>
       c.object \in Code /\ (c.hash \notin torn => c.object.main = c.hash)
  /\ c.at \in {"statSource", "linked", "exec"} => binary[c.hash] # None

IRInv(h) ==
  ir[h] # None =>
    /\ ir[h].whole => ir[h].code # None
    /\ ir[h].code # None /\ h \notin torn => ir[h].code.main = h

FilesInv == BinaryHasItsText /\ \A h \in Texts : IRInv(h)

Inv == TypeOK /\ FilesInv /\ \A p \in Procs : CommandInv(p)

LEMMA InitInv == Init => Inv
<1>1. SUFFICES ASSUME Init PROVE Inv
  OBVIOUS
<1>2. TypeOK
  BY <1>1, MaxTimeAssumption DEF Init, TypeOK, Idle, Command, Steps
<1>3. FilesInv
  BY <1>1 DEF Init, FilesInv, BinaryHasItsText, IRInv
<1>4. \A p \in Procs : CommandInv(p)
  BY <1>1 DEF Init, CommandInv, Idle
<1>5. QED
  BY <1>2, <1>3, <1>4 DEF Inv

\* A step of command p keeps the invariant if its new record and the files it
\* leaves are right: of the others nothing is taken away.
LEMMA StepKeepsInv ==
  ASSUME Inv, NEW p \in Procs, NEW c \in Command,
         proc' = [proc EXCEPT ![p] = c], UNCHANGED files,
         torn \subseteq torn', torn' \subseteq Texts, cut' \subseteq Texts,
         binary' \in [Texts -> Binary \cup {None}],
         ir' \in [Texts -> IR \cup {None}],
         \A h \in Texts : binary[h] # None => binary'[h] # None,
         FilesInv', CommandInv(p)'
  PROVE  Inv'
<1>1. TypeOK'
  BY DEF Inv, TypeOK, files
<1>2. ASSUME NEW q \in Procs, q # p PROVE CommandInv(q)'
  <2>1. proc'[q] = proc[q] /\ CommandInv(q)
    BY <1>2 DEF Inv, TypeOK
  <2>2. QED
    BY <2>1 DEF CommandInv
<1>3. QED
  BY <1>1, <1>2 DEF Inv

\* The same for a step that leaves the files alone.
LEMMA QuietStep ==
  ASSUME Inv, NEW p \in Procs, NEW c \in Command,
         proc' = [proc EXCEPT ![p] = c], UNCHANGED <<files, cache>>,
         torn \subseteq torn', torn' \subseteq Texts, cut' \subseteq Texts,
         CommandInv(p)'
  PROVE  Inv'
<1>1. binary' = binary /\ ir' = ir /\ UNCHANGED files
  BY DEF cache
<1>2. binary \in [Texts -> Binary \cup {None}] /\ ir \in [Texts -> IR \cup {None}]
  BY DEF Inv, TypeOK
<1>3. FilesInv'
  BY <1>1 DEF Inv, FilesInv, BinaryHasItsText, IRInv
<1>4. QED
  BY <1>1, <1>2, <1>3, StepKeepsInv

\* What the proofs below need of a command and its files.
LEMMA Facts ==
  ASSUME Inv, NEW p \in Procs
  PROVE  /\ proc \in [Procs -> Command] /\ proc[p] \in Command /\ CommandInv(p)
         /\ binary \in [Texts -> Binary \cup {None}]
         /\ ir \in [Texts -> IR \cup {None}]
         /\ torn \subseteq Texts /\ cut \subseteq Texts
BY DEF Inv, TypeOK

LEMMA StartInv == ASSUME Inv, NEW p \in Procs, Start(p) PROVE Inv'
<1> DEFINE c == [Idle EXCEPT !.at = "statBinary", !.hash = source.text,
                             !.alone = (Running = {})]
           Beside(q) == [proc[q] EXCEPT !.alone = FALSE]
<1>1. source.text \in Texts /\ 0 \in 0 .. MaxTime
  BY MaxTimeAssumption DEF Inv, TypeOK
<1>2. c \in Command /\ c.at = "statBinary" /\ c.hash = source.text
  <2>1. PICK e \in BOOLEAN : e = (Running = {})
    OBVIOUS
  <2>2. c = [Idle EXCEPT !.at = "statBinary", !.hash = source.text, !.alone = e]
    BY <2>1
  <2>3. QED
    BY <1>1, <2>2 DEF Idle, Command, Steps
<1>3. \A q \in Procs : Beside(q) \in Command
  BY DEF Inv, TypeOK, Command
<1>4. \A q \in Procs : proc'[q] = IF q = p THEN c ELSE Beside(q)
  BY DEF Start
<1>5. proc' \in [Procs -> Command]
  BY <1>2, <1>3 DEF Start
<1>6. TypeOK' /\ FilesInv'
  BY <1>5 DEF Inv, TypeOK, FilesInv, BinaryHasItsText, IRInv, Start, files, cache, history
<1>7. ASSUME NEW q \in Procs PROVE CommandInv(q)'
  <2>1. CASE q = p
    BY <1>1, <1>2, <1>4, <2>1 DEF CommandInv
  <2>2. CASE q # p
    <3>1. proc'[q] = Beside(q) /\ CommandInv(q) /\ proc[q] \in Command
      BY <1>4, <2>2 DEF Inv, TypeOK
    <3>2. Beside(q).at = proc[q].at /\ Beside(q).hash = proc[q].hash /\ Beside(q).main = proc[q].main
          /\ Beside(q).imports = proc[q].imports /\ Beside(q).object = proc[q].object
      BY <3>1 DEF Command
    <3>3. torn' = torn /\ binary' = binary
      BY DEF Start, cache, history
    <3> HIDE DEF Beside
    <3>4. QED
      BY <3>1, <3>2, <3>3 DEF CommandInv
  <2>3. QED
    BY <2>1, <2>2
<1>8. QED
  BY <1>6, <1>7 DEF Inv

LEMMA StatBinaryInv == ASSUME Inv, NEW p \in Procs, StatBinary(p) PROVE Inv'
<1>1. /\ proc \in [Procs -> Command] /\ proc[p] \in Command /\ CommandInv(p)
      /\ binary \in [Texts -> Binary \cup {None}]
      /\ torn \subseteq Texts /\ cut \subseteq Texts
  BY Facts
<1>2. proc[p].hash \in Texts
  BY <1>1 DEF CommandInv, StatBinary
<1>3. CASE binary[proc[p].hash] = None
  <2> DEFINE c == [proc[p] EXCEPT !.at = "parse"]
  <2>1. c \in Command /\ c.at = "parse" /\ c.hash = proc[p].hash
    BY <1>1 DEF Command, Steps
  <2>2. proc' = [proc EXCEPT ![p] = c]
    BY <1>1, <1>3 DEF StatBinary, Goes, BinaryName
  <2>3. CommandInv(p)'
    BY <1>1, <1>2, <2>1, <2>2 DEF CommandInv
  <2>4. QED
    BY <1>1, <2>1, <2>2, <2>3, QuietStep DEF StatBinary, history
<1>4. CASE binary[proc[p].hash] # None
  <2> DEFINE c == [proc[p] EXCEPT !.at = "statSource", !.mtime = binary[proc[p].hash].mtime]
  <2>1. binary[proc[p].hash].mtime \in 0 .. MaxTime
    BY <1>1, <1>2, <1>4 DEF Binary
  <2>2. c \in Command /\ c.at = "statSource" /\ c.hash = proc[p].hash
    BY <1>1, <2>1 DEF Command, Steps
  <2>3. proc' = [proc EXCEPT ![p] = c]
    BY <1>1, <1>4 DEF StatBinary, Goes, BinaryName
  <2>4. CommandInv(p)'
    BY <1>1, <1>2, <1>4, <2>2, <2>3 DEF CommandInv, StatBinary, cache
  <2>5. QED
    BY <1>1, <2>2, <2>3, <2>4, QuietStep DEF StatBinary, history
<1>5. QED
  BY <1>3, <1>4

LEMMA StatSourceInv == ASSUME Inv, NEW p \in Procs, StatSource(p) PROVE Inv'
<1>1. /\ proc \in [Procs -> Command] /\ proc[p] \in Command /\ CommandInv(p)
      /\ torn \subseteq Texts /\ cut \subseteq Texts
  BY Facts
<1> DEFINE s == IF Newer(p) THEN "exec" ELSE "parse"
           c == [proc[p] EXCEPT !.at = s, !.mtime = 0]
<1>2. s \in {"exec", "parse"}
  OBVIOUS
<1> HIDE DEF s
<1>3. c \in Command /\ c.at = s /\ c.hash = proc[p].hash
  <2>1. 0 \in 0 .. MaxTime
    BY MaxTimeAssumption
  <2>2. QED
    BY <1>1, <1>2, <2>1 DEF Command, Steps
<1>4. proc' = [proc EXCEPT ![p] = c]
  BY <1>1 DEF StatSource, s
<1>5. CommandInv(p)'
  BY <1>1, <1>2, <1>3, <1>4 DEF CommandInv, StatSource, cache
<1>6. QED
  BY <1>1, <1>3, <1>4, <1>5, QuietStep DEF StatSource, history

LEMMA ParseInv == ASSUME Inv, NEW p \in Procs, Parse(p) PROVE Inv'
<1>1. /\ proc \in [Procs -> Command] /\ proc[p] \in Command /\ CommandInv(p)
      /\ torn \subseteq Texts /\ cut \subseteq Texts /\ source.text \in Texts
  BY Facts DEF Inv, TypeOK
<1>2. proc[p].hash \in Texts
  BY <1>1 DEF CommandInv, Parse
<1>3. cut' = cut /\ UNCHANGED <<files, cache>>
  BY DEF Parse
<1>4. CASE proc[p].at = "parse" /\ Goes(p, "refused") /\ torn' = torn
  <2> DEFINE c == [proc[p] EXCEPT !.at = "refused"]
  <2>1. c \in Command /\ c.at = "refused" /\ c.hash = proc[p].hash
    BY <1>1 DEF Command, Steps
  <2>2. proc' = [proc EXCEPT ![p] = c]
    BY <1>1, <1>4 DEF Goes
  <2>3. CommandInv(p)'
    BY <1>1, <1>2, <2>1, <2>2 DEF CommandInv
  <2>4. QED
    BY <1>1, <1>3, <1>4, <2>1, <2>2, <2>3, QuietStep
<1>5. CASE /\ proc' = [proc EXCEPT ![p].at = "imports", ![p].main = source.text]
           /\ torn' = IF source.text = proc[p].hash THEN torn
                      ELSE torn \cup {proc[p].hash}
  <2> DEFINE c == [proc[p] EXCEPT !.at = "imports", !.main = source.text]
  <2>1. c \in Command /\ c.at = "imports" /\ c.hash = proc[p].hash /\ c.main = source.text
    BY <1>1 DEF Command, Steps
  <2>2. proc' = [proc EXCEPT ![p] = c]
    BY <1>1, <1>5
  <2>3. /\ torn \subseteq torn' /\ torn' \subseteq Texts
        /\ proc[p].hash \notin torn' => source.text = proc[p].hash
    BY <1>1, <1>2, <1>5
  <2>4. CommandInv(p)'
    BY <1>1, <1>2, <2>1, <2>2, <2>3 DEF CommandInv
  <2>5. QED
    BY <1>1, <1>3, <2>1, <2>2, <2>3, <2>4, QuietStep
<1>6. QED
  BY <1>4, <1>5 DEF Parse

LEMMA CompileImportsInv == ASSUME Inv, NEW p \in Procs, CompileImports(p) PROVE Inv'
<1>1. /\ proc \in [Procs -> Command] /\ proc[p] \in Command /\ CommandInv(p)
      /\ torn \subseteq Texts /\ cut \subseteq Texts /\ imports \in Imports
  BY Facts DEF Inv, TypeOK
<1> DEFINE c == [proc[p] EXCEPT !.at = "openIR", !.imports = imports]
<1>2. /\ c \in Command /\ c.at = "openIR" /\ c.hash = proc[p].hash
      /\ c.main = proc[p].main /\ c.imports = imports
  BY <1>1 DEF Command, Steps
<1>3. proc' = [proc EXCEPT ![p] = c]
  BY <1>1 DEF CompileImports
<1>4. CommandInv(p)'
  BY <1>1, <1>2, <1>3 DEF CommandInv, CompileImports, history
<1>5. QED
  BY <1>1, <1>2, <1>3, <1>4, QuietStep DEF CompileImports, history

LEMMA OpenIRInv == ASSUME Inv, NEW p \in Procs, OpenIR(p) PROVE Inv'
<1>1. /\ proc \in [Procs -> Command] /\ proc[p] \in Command /\ CommandInv(p)
      /\ binary \in [Texts -> Binary \cup {None}] /\ ir \in [Texts -> IR \cup {None}]
      /\ torn \subseteq Texts /\ cut \subseteq Texts
  BY Facts
<1> DEFINE h == proc[p].hash
           c == [proc[p] EXCEPT !.at = "writeIR"]
           f == [code |-> None, whole |-> FALSE,
                 open |-> {p} \cup (IF ir[h] = None THEN {} ELSE ir[h].open)]
<1>2. h \in Texts
  BY <1>1 DEF CommandInv, OpenIR
<1>3. /\ c \in Command /\ c.at = "writeIR" /\ c.hash = h
      /\ c.main = proc[p].main /\ c.imports = proc[p].imports
  BY <1>1 DEF Command, Steps
<1>4. proc' = [proc EXCEPT ![p] = c] /\ ir' = [ir EXCEPT ![h] = f]
  BY <1>1 DEF OpenIR, Goes, IRName, BinaryName
<1>5. f \in IR /\ f.code = None /\ ~f.whole
  <2>1. ir[h] # None => ir[h].open \in SUBSET Procs
    BY <1>1, <1>2 DEF IR
  <2>2. QED
    BY <2>1 DEF IR
<1> HIDE DEF f
<1>6. ir' \in [Texts -> IR \cup {None}]
  BY <1>1, <1>4, <1>5
<1>7. binary' = binary /\ torn' = torn /\ cut' = cut /\ UNCHANGED files
  BY DEF OpenIR, history
<1>8. FilesInv'
  <2>1. ASSUME NEW g \in Texts PROVE IRInv(g)'
    <3>1. CASE g = h
      <4>1. ir'[g] = f
        BY <1>1, <1>2, <1>4, <3>1
      <4>2. QED
        BY <1>5, <4>1 DEF IRInv
    <3>2. CASE g # h
      <4>1. ir'[g] = ir[g] /\ IRInv(g)
        BY <1>1, <1>4, <3>2 DEF Inv, FilesInv
      <4>2. QED
        BY <1>7, <4>1 DEF IRInv
    <3>3. QED
      BY <3>1, <3>2
  <2>2. BinaryHasItsText'
    BY <1>7 DEF Inv, FilesInv, BinaryHasItsText
  <2>3. QED
    BY <2>1, <2>2 DEF FilesInv
<1>9. CommandInv(p)'
  <2>1. proc'[p] = c
    BY <1>1, <1>4
  <2>2. QED
    BY <1>1, <1>2, <1>3, <1>7, <2>1 DEF CommandInv, OpenIR
<1>10. QED
  BY <1>1, <1>3, <1>4, <1>6, <1>7, <1>8, <1>9, StepKeepsInv

\* What a write of p leaves is p's, whole or not.
LEMMA WrittenIs ==
  ASSUME NEW p, NEW f \in IR, Compiled(p) \in Code, NEW g \in Written(p, f)
  PROVE  g \in IR /\ g.code = Compiled(p)
<1>1. PICK w \in BOOLEAN : g = [code |-> Compiled(p), whole |-> w, open |-> f.open \ {p}]
  BY DEF Written
<1>2. f.open \ {p} \in SUBSET Procs
  BY DEF IR
<1>3. QED
  BY <1>1, <1>2 DEF IR

LEMMA WriteIRInv == ASSUME Inv, NEW p \in Procs, WriteIR(p) PROVE Inv'
<1>1. /\ proc \in [Procs -> Command] /\ proc[p] \in Command /\ CommandInv(p)
      /\ binary \in [Texts -> Binary \cup {None}] /\ ir \in [Texts -> IR \cup {None}]
      /\ torn \subseteq Texts /\ cut \subseteq Texts
  BY Facts
<1> DEFINE h == proc[p].hash
           c == [proc[p] EXCEPT !.at = "clang"]
<1>2. /\ h \in Texts /\ Compiled(p) \in Code
      /\ h \notin torn => Compiled(p).main = h
  BY <1>1 DEF CommandInv, WriteIR, Compiled, Code
<1>3. Compiled(p) # None
  BY <1>2, NoneAssumption
<1>4. c \in Command /\ c.at = "clang" /\ c.hash = h
  BY <1>1 DEF Command, Steps
<1>5. proc' = [proc EXCEPT ![p] = c]
  BY <1>1 DEF WriteIR, Goes
<1>6. binary' = binary /\ torn' = torn /\ cut' = cut /\ UNCHANGED files
  BY DEF WriteIR, history
<1>7. CommandInv(p)'
  <2>1. proc'[p] = c
    BY <1>1, <1>5
  <2>2. QED
    BY <1>2, <1>4, <2>1 DEF CommandInv
<1>8. BinaryHasItsText'
  BY <1>6 DEF Inv, FilesInv, BinaryHasItsText
<1>9. CASE ir' = ir
  <2>1. FilesInv'
    BY <1>6, <1>8, <1>9 DEF Inv, FilesInv, IRInv
  <2>2. QED
    BY <1>1, <1>4, <1>5, <1>6, <1>7, <1>9, <2>1, StepKeepsInv
<1>10. ASSUME ir[h] # None, NEW g \in Written(p, ir[h]), ir' = [ir EXCEPT ![h] = g]
       PROVE  Inv'
  <2>1. g \in IR /\ g.code = Compiled(p)
    BY <1>1, <1>2, <1>10, WrittenIs
  <2>2. ir' \in [Texts -> IR \cup {None}]
    BY <1>1, <1>10, <2>1
  <2>3. ASSUME NEW i \in Texts PROVE IRInv(i)'
    <3>1. CASE i = h
      <4>1. ir'[i] = g
        BY <1>1, <1>2, <1>10, <3>1
      <4>2. QED
        BY <1>2, <1>3, <1>6, <2>1, <3>1, <4>1 DEF IRInv
    <3>2. CASE i # h
      <4>1. ir'[i] = ir[i] /\ IRInv(i)
        BY <1>1, <1>10, <3>2 DEF Inv, FilesInv
      <4>2. QED
        BY <1>6, <4>1 DEF IRInv
    <3>3. QED
      BY <3>1, <3>2
  <2>4. FilesInv'
    BY <1>8, <2>3 DEF FilesInv
  <2>5. QED
    BY <1>1, <1>4, <1>5, <1>6, <1>7, <2>2, <2>4, StepKeepsInv
<1>11. QED
  BY <1>9, <1>10 DEF WriteIR, IRName, BinaryName

LEMMA ClangReadsInv == ASSUME Inv, NEW p \in Procs, ClangReads(p) PROVE Inv'
<1>1. /\ proc \in [Procs -> Command] /\ proc[p] \in Command /\ CommandInv(p)
      /\ ir \in [Texts -> IR \cup {None}] /\ torn \subseteq Texts /\ cut \subseteq Texts
  BY Facts
<1> DEFINE h == proc[p].hash
<1>2. h \in Texts
  BY <1>1 DEF CommandInv, ClangReads
<1>3. CASE ir[h] # None /\ ir[h].whole
  <2> DEFINE c == [proc[p] EXCEPT !.at = "link", !.object = ir[h].code]
  <2>1. ir[h].code \in Code /\ (h \notin torn => ir[h].code.main = h)
    BY <1>1, <1>2, <1>3 DEF Inv, FilesInv, IRInv, IR
  <2>2. c \in Command /\ c.at = "link" /\ c.hash = h /\ c.object = ir[h].code
    BY <1>1, <2>1 DEF Command, Steps
  <2>3. proc' = [proc EXCEPT ![p] = c]
    BY <1>1, <1>3 DEF ClangReads, IRName, BinaryName
  <2>4. CommandInv(p)'
    <3>1. proc'[p] = c /\ torn' = torn
      BY <1>1, <2>3 DEF ClangReads, history
    <3>2. QED
      BY <1>2, <2>1, <2>2, <3>1 DEF CommandInv
  <2>5. QED
    BY <1>1, <2>2, <2>3, <2>4, QuietStep DEF ClangReads, history
<1>4. CASE ~(ir[h] # None /\ ir[h].whole)
  <2> DEFINE c == [proc[p] EXCEPT !.at = "failed"]
  <2>1. c \in Command /\ c.at = "failed" /\ c.hash = h
    BY <1>1 DEF Command, Steps
  <2>2. proc' = [proc EXCEPT ![p] = c]
    BY <1>1, <1>4 DEF ClangReads, Goes, IRName, BinaryName
  <2>3. CommandInv(p)'
    BY <1>1, <1>2, <2>1, <2>2 DEF CommandInv
  <2>4. QED
    BY <1>1, <2>1, <2>2, <2>3, QuietStep DEF ClangReads, history
<1>5. QED
  BY <1>3, <1>4

LEMMA ExecBinaryInv == ASSUME Inv, NEW p \in Procs, ExecBinary(p) PROVE Inv'
<1>1. /\ proc \in [Procs -> Command] /\ proc[p] \in Command /\ CommandInv(p)
      /\ torn \subseteq Texts /\ cut \subseteq Texts
  BY Facts
<1> DEFINE s == IF binary[BinaryName(p)].whole THEN "running" ELSE "failed"
           c == [proc[p] EXCEPT !.at = s, !.main = None, !.imports = None]
<1>2. s \in {"running", "failed"}
  OBVIOUS
<1> HIDE DEF s
<1>3. c \in Command /\ c.at = s /\ c.hash = proc[p].hash
  BY <1>1, <1>2 DEF Command, Steps
<1>4. proc' = [proc EXCEPT ![p] = c]
  BY <1>1 DEF ExecBinary, s
<1>5. proc[p].hash \in Texts
  BY <1>1 DEF CommandInv, ExecBinary
<1>6. CommandInv(p)'
  BY <1>1, <1>2, <1>3, <1>4, <1>5 DEF CommandInv
<1>7. QED
  BY <1>1, <1>3, <1>4, <1>6, QuietStep DEF ExecBinary, history

LEMMA LinkBeginsInv == ASSUME Inv, NEW p \in Procs, LinkBegins(p) PROVE Inv'
<1>1. /\ proc \in [Procs -> Command] /\ proc[p] \in Command /\ CommandInv(p)
      /\ binary \in [Texts -> Binary \cup {None}] /\ ir \in [Texts -> IR \cup {None}]
      /\ torn \subseteq Texts /\ cut \subseteq Texts /\ clock \in 0 .. MaxTime
  BY Facts DEF Inv, TypeOK
<1> DEFINE h == proc[p].hash
           c == [proc[p] EXCEPT !.at = "linked", !.object = None]
           b == [code |-> proc[p].object, whole |-> FALSE, by |-> p, mtime |-> clock]
<1>2. /\ h \in Texts /\ proc[p].object \in Code
      /\ h \notin torn => proc[p].object.main = h
  BY <1>1 DEF CommandInv, LinkBegins
<1>3. c \in Command /\ c.at = "linked" /\ c.hash = h
  BY <1>1 DEF Command, Steps
<1>4. proc' = [proc EXCEPT ![p] = c] /\ binary' = [binary EXCEPT ![h] = b]
  BY <1>1 DEF LinkBegins, BinaryName
<1>5. b \in Binary /\ b # None /\ b.code = proc[p].object
  <2>1. b \in Binary
    BY <1>1, <1>2 DEF Binary
  <2>2. QED
    BY <2>1, NoneAssumption
<1> HIDE DEF b
<1>6. /\ ir' = ir /\ torn' = torn /\ cut' \subseteq Texts /\ UNCHANGED files
      /\ binary' \in [Texts -> Binary \cup {None}]
  <2>1. ir' = ir /\ torn' = torn /\ UNCHANGED files
    BY DEF LinkBegins
  <2>2. cut' = cut \ {BinaryName(p)}
    BY DEF LinkBegins
  <2>3. cut' \subseteq Texts
    BY <1>1, <2>2
  <2>4. binary' \in [Texts -> Binary \cup {None}]
    BY <1>1, <1>4, <1>5
  <2>5. QED
    BY <2>1, <2>3, <2>4
<1>7. binary'[h] = b /\ \A g \in Texts : g # h => binary'[g] = binary[g]
  BY <1>1, <1>2, <1>4
<1>8. FilesInv'
  <2>1. BinaryHasItsText'
    BY <1>2, <1>5, <1>6, <1>7 DEF Inv, FilesInv, BinaryHasItsText
  <2>2. \A g \in Texts : IRInv(g)'
    BY <1>6 DEF Inv, FilesInv, IRInv
  <2>3. QED
    BY <2>1, <2>2 DEF FilesInv
<1>9. CommandInv(p)'
  <2>1. proc'[p] = c
    BY <1>1, <1>4
  <2>2. QED
    BY <1>2, <1>3, <1>5, <1>7, <2>1 DEF CommandInv
<1>10. \A g \in Texts : binary[g] # None => binary'[g] # None
  BY <1>5, <1>7
<1>11. QED
  BY <1>1, <1>3, <1>4, <1>6, <1>8, <1>9, <1>10, StepKeepsInv

\* The end of a link changes of a binary only whether it is whole.
LEMMA LinkedIs ==
  ASSUME NEW b \in Binary, clock \in 0 .. MaxTime,
         NEW d, d = [b EXCEPT !.whole = TRUE, !.by = None, !.mtime = clock]
  PROVE  d \in Binary /\ d.code = b.code /\ d.whole /\ d # None
<1>1. d \in Binary /\ d.code = b.code /\ d.whole
  BY DEF Binary
<1>2. QED
  BY <1>1, NoneAssumption

LEMMA LinkEndsInv == ASSUME Inv, NEW p \in Procs, LinkEnds(p) PROVE Inv'
<1>1. /\ proc \in [Procs -> Command] /\ proc[p] \in Command /\ CommandInv(p)
      /\ binary \in [Texts -> Binary \cup {None}] /\ ir \in [Texts -> IR \cup {None}]
      /\ torn \subseteq Texts /\ cut \subseteq Texts /\ clock \in 0 .. MaxTime
  BY Facts DEF Inv, TypeOK
<1> DEFINE h == proc[p].hash
           c == [proc[p] EXCEPT !.at = "exec", !.made = TRUE]
           d == [binary[h] EXCEPT !.whole = TRUE, !.by = None, !.mtime = clock]
<1>2. h \in Texts /\ binary[h] # None /\ binary[h] \in Binary
  BY <1>1 DEF CommandInv, LinkEnds
<1>3. c \in Command /\ c.at = "exec" /\ c.hash = h
  BY <1>1 DEF Command, Steps
<1>4. proc' = [proc EXCEPT ![p] = c]
  BY <1>1 DEF LinkEnds
<1>5. binary' = binary \/ binary' = [binary EXCEPT ![h] = d]
  BY <1>1, <1>2 DEF LinkEnds, BinaryName
<1>6. d \in Binary /\ d.code = binary[h].code /\ d # None
  BY <1>1, <1>2, LinkedIs
<1> HIDE DEF d
<1>7. /\ ir' = ir /\ torn' = torn /\ cut' = cut /\ UNCHANGED files
      /\ binary' \in [Texts -> Binary \cup {None}]
  <2>1. ir' = ir /\ torn' = torn /\ cut' = cut /\ UNCHANGED files
    BY DEF LinkEnds, history
  <2>2. binary' \in [Texts -> Binary \cup {None}]
    BY <1>1, <1>5, <1>6
  <2>3. QED
    BY <2>1, <2>2
<1>8. \A g \in Texts : binary[g] # None =>
        binary'[g] # None /\ binary'[g].code = binary[g].code
  BY <1>1, <1>5, <1>6
<1>9. \A g \in Texts : binary[g] = None => binary'[g] = None
  BY <1>1, <1>2, <1>5
<1>10. FilesInv'
  <2>1. BinaryHasItsText'
    BY <1>7, <1>8, <1>9 DEF Inv, FilesInv, BinaryHasItsText
  <2>2. \A g \in Texts : IRInv(g)'
    BY <1>7 DEF Inv, FilesInv, IRInv
  <2>3. QED
    BY <2>1, <2>2 DEF FilesInv
<1>11. CommandInv(p)'
  <2>1. proc'[p] = c
    BY <1>1, <1>4
  <2>2. QED
    BY <1>2, <1>3, <1>8, <2>1 DEF CommandInv
<1>12. QED
  BY <1>1, <1>3, <1>4, <1>7, <1>8, <1>10, <1>11, StepKeepsInv

LEMMA IdleIs == Idle \in Command /\ Idle.at = "idle" /\ ~Idle.alone
<1>1. 0 \in 0 .. MaxTime
  BY MaxTimeAssumption
<1>2. QED
  BY <1>1 DEF Idle, Command, Steps

\* A .ll file that is removed, or closed by a command that is no more.
LEMMA ClosedIs ==
  ASSUME Inv, torn' = torn, NEW h \in Texts, NEW p \in Procs,
         \/ ir'[h] = ir[h] \/ ir'[h] = None
         \/ ir[h] # None /\ ir'[h] = [ir[h] EXCEPT !.open = @ \ {p}]
  PROVE  ir'[h] \in IR \cup {None} /\ IRInv(h)'
<1>1. ir[h] \in IR \cup {None} /\ IRInv(h)
  BY DEF Inv, TypeOK, FilesInv
<1>2. CASE ir'[h] = ir[h]
  BY <1>1, <1>2 DEF IRInv
<1>3. CASE ir'[h] = None
  BY <1>3 DEF IRInv
<1>4. CASE ir[h] # None /\ ir'[h] = [ir[h] EXCEPT !.open = @ \ {p}]
  <2>1. /\ ir'[h] \in IR /\ ir'[h].whole = ir[h].whole
        /\ ir'[h].code = ir[h].code
    BY <1>1, <1>4 DEF IR
  <2>2. QED
    BY <1>1, <1>4, <2>1 DEF IRInv
<1>5. QED
  BY <1>2, <1>3, <1>4

LEMMA ExitInv == ASSUME Inv, NEW p \in Procs, Exit(p) PROVE Inv'
<1>1. /\ proc \in [Procs -> Command] /\ proc[p] \in Command
      /\ binary \in [Texts -> Binary \cup {None}] /\ ir \in [Texts -> IR \cup {None}]
      /\ torn \subseteq Texts /\ cut \subseteq Texts
  BY Facts
<1>2. /\ proc' = [proc EXCEPT ![p] = Idle] /\ UNCHANGED files
      /\ binary' = binary /\ torn' = torn /\ cut' = cut
      /\ ir' = ir \/ ir' = [ir EXCEPT ![IRName(p)] = None]
  BY DEF Exit, history
<1>3. \A h \in Texts : ir'[h] = ir[h] \/ ir'[h] = None
  BY <1>1, <1>2
<1>4. ASSUME NEW h \in Texts PROVE IRInv(h)'
  <2>1. ir'[h] = ir[h] \/ ir'[h] = None
    BY <1>3
  <2>2. QED
    BY <1>2, <2>1, ClosedIs
<1>5. FilesInv'
  BY <1>2, <1>4 DEF Inv, FilesInv, BinaryHasItsText
<1>6. ir' \in [Texts -> IR \cup {None}]
  BY <1>1, <1>2
<1>7. CommandInv(p)'
  <2>1. proc'[p].at = "idle"
    BY <1>1, <1>2, IdleIs
  <2>2. QED
    BY <2>1 DEF CommandInv
<1>8. QED
  BY <1>1, <1>2, <1>5, <1>6, <1>7, IdleIs, StepKeepsInv

LEMMA KillInv == ASSUME Inv, NEW p \in Procs, Kill(p) PROVE Inv'
<1>1. /\ proc \in [Procs -> Command] /\ proc[p] \in Command
      /\ binary \in [Texts -> Binary \cup {None}] /\ ir \in [Texts -> IR \cup {None}]
      /\ torn \subseteq Texts /\ cut \subseteq Texts
  BY Facts
<1>2. /\ proc' = [proc EXCEPT ![p] = Idle] /\ UNCHANGED files
      /\ binary' = binary /\ torn' = torn /\ cut' \subseteq Texts
  BY <1>1 DEF Kill
<1>3. ir' = [h \in Texts |-> IF ir[h] = None THEN None
                            ELSE [ir[h] EXCEPT !.open = @ \ {p}]]
  BY DEF Kill
<1>4. ASSUME NEW h \in Texts PROVE ir'[h] \in IR \cup {None} /\ IRInv(h)'
  <2>1. \/ ir'[h] = None
        \/ ir[h] # None /\ ir'[h] = [ir[h] EXCEPT !.open = @ \ {p}]
    BY <1>3
  <2>2. QED
    BY <1>2, <2>1, ClosedIs
<1>5. FilesInv'
  BY <1>2, <1>4 DEF Inv, FilesInv, BinaryHasItsText
<1>6. ir' \in [Texts -> IR \cup {None}]
  BY <1>3, <1>4
<1>7. CommandInv(p)'
  <2>1. proc'[p].at = "idle"
    BY <1>1, <1>2, IdleIs
  <2>2. QED
    BY <2>1 DEF CommandInv
<1>8. QED
  BY <1>1, <1>2, <1>5, <1>6, <1>7, IdleIs, StepKeepsInv

\* What happens around the commands touches nothing of theirs.
LEMMA AroundInv ==
  ASSUME Inv, Tick \/ Saves
  PROVE  Inv'
<1>1. UNCHANGED <<cache, proc, history>>
  BY DEF Tick, Saves, EditSource, EditImports
<1>2. /\ source' \in [text : Texts, mtime : 0 .. MaxTime] /\ imports' \in Imports
      /\ clock' \in 0 .. MaxTime
  <2>1. CASE Tick
    BY <2>1, MaxTimeAssumption DEF Inv, TypeOK, Tick
  <2>2. CASE Saves
    BY <2>2 DEF Inv, TypeOK, Saves, EditSource, EditImports
  <2>3. QED
    BY <2>1, <2>2
<1>3. TypeOK'
  BY <1>1, <1>2 DEF Inv, TypeOK, cache, history
<1>4. FilesInv' /\ \A p \in Procs : CommandInv(p)'
  BY <1>1 DEF Inv, FilesInv, BinaryHasItsText, IRInv, CommandInv, cache, history
<1>5. QED
  BY <1>3, <1>4 DEF Inv

LEMMA NextInv == ASSUME Inv, [Next]_vars PROVE Inv'
<1>1. ASSUME NEW p \in Procs, Step(p) PROVE Inv'
  BY <1>1, StartInv, StatBinaryInv, StatSourceInv, ParseInv, CompileImportsInv,
     OpenIRInv, WriteIRInv, ClangReadsInv, LinkBeginsInv, LinkEndsInv,
     ExecBinaryInv, ExitInv
  DEF Step
<1>2. CASE UNCHANGED vars
  BY <1>2 DEF Inv, TypeOK, FilesInv, BinaryHasItsText, IRInv, CommandInv, vars
<1>3. CASE Tick \/ Saves
  BY <1>3, AroundInv
<1>4. CASE Kills
  BY <1>4, KillInv DEF Kills
<1>5. QED
  BY <1>1, <1>2, <1>3, <1>4 DEF Next, Commands

\* The invariant holds in every reachable state.
THEOREM CacheInvariant == Spec => []Inv
<1>1. QED
  BY InitInv, NextInv, PTL DEF Spec

\* The variables keep their types.
THEOREM CacheTypeCorrect == Spec => []TypeOK
<1>1. Inv => TypeOK
  BY DEF Inv
<1>2. QED
  BY <1>1, CacheInvariant, PTL

\* A binary was compiled from the text whose hash is its name, whoever wrote
\* it and whatever was saved and killed meanwhile, unless a command of that
\* name has read two texts.
THEOREM CacheNamesAreRight == Spec => []BinaryHasItsText
<1>1. Inv => BinaryHasItsText
  BY DEF Inv, FilesInv
<1>2. QED
  BY <1>1, CacheInvariant, PTL
-----------------------------------------------------------------------------
\* What command p, that had the directory to itself so far, finds in the files
\* at its step: those it is to use itself are as it has left them.
AloneFiles(p) ==
  LET c == proc[p] IN
  /\ c.made => c.at \in {"exec", "running", "failed"}
  /\ c.at \in {"writeIR", "clang"} => ir[c.hash] # None
  /\ c.at = "writeIR" => p \in ir[c.hash].open /\ ir[c.hash].code = None
  /\ c.at = "clang" => ir[c.hash].whole /\ ir[c.hash].code = Compiled(p)
  /\ c.at = "link" => c.object = Compiled(p)
  /\ c.at = "linked" =>
       binary[c.hash].by = p /\ binary[c.hash].code = Compiled(p)
  /\ c.at = "exec" /\ c.made =>
       binary[c.hash].whole /\ binary[c.hash].code = Compiled(p)
  /\ c.at = "failed" => ~c.made /\ c.hash \in cut

AloneInv(p) ==
  proc[p].alone =>
    /\ proc[p].at # "idle"
    /\ \A q \in Procs : q # p => proc[q].at = "idle"
    /\ AloneFiles(p)

\* A binary that is not whole is being written, or its linker was killed.
PartInv ==
  \A h \in Texts :
    binary[h] # None /\ ~binary[h].whole /\ h \notin cut =>
      \E q \in Procs :
        binary[h].by = q /\ proc[q].at = "linked" /\ proc[q].hash = h

SharedInv == Inv /\ PartInv /\ \A p \in Procs : AloneInv(p)

LEMMA InitShared == Init => SharedInv
<1>1. SUFFICES ASSUME Init PROVE SharedInv
  OBVIOUS
<1>2. PartInv /\ \A p \in Procs : AloneInv(p)
  BY <1>1 DEF Init, PartInv, AloneInv, Idle
<1>3. QED
  BY <1>1, <1>2, InitInv DEF SharedInv

\* Neither a binary nor who writes it changes.
LEMMA PartKept ==
  ASSUME PartInv, UNCHANGED <<binary, cut>>,
         \A q \in Procs : proc[q].at = "linked" =>
           proc'[q].at = "linked" /\ proc'[q].hash = proc[q].hash
  PROVE  PartInv'
BY DEF PartInv

LEMMA StepKeepsPart ==
  ASSUME Inv, PartInv, NEW p \in Procs, Step(p)
  PROVE  PartInv'
<1>1. /\ proc \in [Procs -> Command] /\ proc[p] \in Command /\ CommandInv(p)
      /\ binary \in [Texts -> Binary \cup {None}]
  BY Facts
<1>2. CASE Start(p)
  <2>1. ASSUME NEW q \in Procs, proc[q].at = "linked"
        PROVE  proc'[q].at = "linked" /\ proc'[q].hash = proc[q].hash
    <3>1. q # p /\ proc[q] \in Command
      BY <1>1, <1>2, <2>1 DEF Start
    <3>2. proc'[q] = [proc[q] EXCEPT !.alone = FALSE]
      BY <1>2, <3>1 DEF Start
    <3>3. QED
      BY <2>1, <3>1, <3>2 DEF Command
  <2>2. QED
    BY <1>2, <2>1, PartKept DEF Start, cache, history
<1>3. CASE \/ StatBinary(p) \/ StatSource(p) \/ Parse(p) \/ CompileImports(p)
           \/ OpenIR(p) \/ WriteIR(p) \/ ClangReads(p) \/ ExecBinary(p) \/ Exit(p)
  <2>1. binary' = binary /\ cut' = cut
    BY <1>3 DEF StatBinary, StatSource, Parse, CompileImports, OpenIR, WriteIR,
         ClangReads, ExecBinary, Exit, cache, history
  <2>2. proc[p].at # "linked"
    BY <1>3 DEF StatBinary, StatSource, Parse, CompileImports, OpenIR, WriteIR,
         ClangReads, ExecBinary, Exit
  <2>3. \A q \in Procs : q # p => proc'[q] = proc[q]
    BY <1>1, <1>3 DEF StatBinary, StatSource, Parse, CompileImports, OpenIR, WriteIR,
         ClangReads, ExecBinary, Exit, Goes
  <2>4. QED
    BY <2>1, <2>2, <2>3, PartKept
<1>4. CASE LinkBegins(p)
  <2> DEFINE h == proc[p].hash
  <2>1. /\ proc[p].at = "link" /\ cut' = cut \ {h} /\ h \in Texts
        /\ proc' = [proc EXCEPT ![p].at = "linked", ![p].object = None]
    BY <1>1, <1>4 DEF LinkBegins, BinaryName, CommandInv
  <2>2. \A g \in Texts : g # h => binary'[g] = binary[g]
    BY <1>1, <1>4 DEF LinkBegins, BinaryName
  <2>3. binary'[h].by = p
    BY <1>1, <1>4, <2>1 DEF LinkBegins, BinaryName
  <2>4. proc'[p].at = "linked" /\ proc'[p].hash = h
    BY <1>1, <2>1 DEF Command
  <2>5. \A q \in Procs : q # p => proc'[q] = proc[q]
    BY <1>1, <2>1
  <2>6. ASSUME NEW g \in Texts, (binary[g] # None /\ ~binary[g].whole /\ g \notin cut)'
        PROVE  \E q \in Procs :
                 (binary[g].by = q /\ proc[q].at = "linked" /\ proc[q].hash = g)'
    <3>1. CASE g = h
      BY <2>3, <2>4, <3>1
    <3>2. CASE g # h
      <4>1. binary'[g] = binary[g] /\ g \notin cut
        BY <2>1, <2>2, <2>6, <3>2
      <4>2. PICK q \in Procs :
              binary[g].by = q /\ proc[q].at = "linked" /\ proc[q].hash = g
        BY <2>6, <4>1 DEF PartInv
      <4>3. proc'[q] = proc[q]
        BY <2>1, <2>5, <4>2
      <4>4. QED
        BY <4>1, <4>2, <4>3
    <3>3. QED
      BY <3>1, <3>2
  <2>7. QED
    BY <2>6 DEF PartInv
<1>5. CASE LinkEnds(p)
  <2> DEFINE h == proc[p].hash
  <2>1. proc[p].at = "linked" /\ h \in Texts /\ cut' = cut /\ binary[h] # None
    BY <1>1, <1>5 DEF LinkEnds, CommandInv, history
  <2>2. \A g \in Texts : g # h => binary'[g] = binary[g]
    BY <1>1, <1>5 DEF LinkEnds, BinaryName
  <2>3. \A q \in Procs : q # p => proc'[q] = proc[q]
    BY <1>1, <1>5 DEF LinkEnds
  <2>4. CASE binary[h].by = p
    <3>1. binary'[h].whole
      BY <1>1, <1>5, <2>1, <2>4 DEF LinkEnds, BinaryName, Binary
    <3>2. QED
      BY <2>1, <2>2, <2>3, <3>1 DEF PartInv
  <2>5. CASE binary[h].by # p
    <3>1. binary' = binary
      BY <1>5, <2>5 DEF LinkEnds, BinaryName
    <3>2. QED
      BY <2>1, <2>3, <2>5, <3>1 DEF PartInv
  <2>6. QED
    BY <2>4, <2>5
<1>6. QED
  BY <1>2, <1>3, <1>4, <1>5 DEF Step

LEMMA KillKeepsPart ==
  ASSUME Inv, PartInv, NEW p \in Procs, Kill(p)
  PROVE  PartInv'
<1>1. proc \in [Procs -> Command]
  BY Facts
<1>2. /\ binary' = binary /\ cut \subseteq cut'
      /\ \A h \in Texts : proc[p].at = "linked" /\ h = proc[p].hash
                          /\ binary[h].by = p => h \in cut'
  BY DEF Kill, BinaryName
<1>3. \A q \in Procs : q # p => proc'[q] = proc[q]
  BY <1>1 DEF Kill
<1>4. QED
  BY <1>2, <1>3 DEF PartInv

\* While p is alone another command can only begin, and then p is alone no more.
LEMMA OthersStep ==
  ASSUME Inv, NEW p \in Procs, AloneInv(p), NEW q \in Procs, q # p,
         Step(q) \/ Kill(q)
  PROVE  AloneInv(p)'
<1>1. proc \in [Procs -> Command] /\ proc[p] \in Command
  BY Facts
<1>2. CASE proc[q].at = "idle"
  <2>1. Start(q)
    BY <1>2 DEF Step, StatBinary, StatSource, Parse, CompileImports, OpenIR,
         WriteIR, ClangReads, LinkBegins, LinkEnds, ExecBinary, Exit, Kill, Running
  <2>2. proc'[p] = [proc[p] EXCEPT !.alone = FALSE]
    BY <2>1 DEF Start
  <2>3. ~proc'[p].alone
    BY <1>1, <2>2 DEF Command
  <2>4. QED
    BY <2>3 DEF AloneInv
<1>3. CASE proc[q].at # "idle"
  <2>1. ~proc[p].alone
    BY <1>3 DEF AloneInv
  <2>2. proc'[p] = proc[p]
    BY <1>1, <1>3 DEF Step, Start, StatBinary, StatSource, Parse, CompileImports,
         OpenIR, WriteIR, ClangReads, LinkBegins, LinkEnds, ExecBinary, Exit, Kill, Goes
  <2>3. QED
    BY <2>1, <2>2 DEF AloneInv
<1>4. QED
  BY <1>2, <1>3

\* A step of p itself: what is left to show is what it finds at the next one.
LEMMA OwnStep ==
  ASSUME Inv, NEW p \in Procs, AloneInv(p), NEW c \in Command,
         proc' = [proc EXCEPT ![p] = c], c.alone = proc[p].alone, c.at # "idle",
         proc[p].alone => AloneFiles(p)'
  PROVE  AloneInv(p)'
<1>1. proc'[p] = c /\ \A q \in Procs : q # p => proc'[q] = proc[q]
  BY DEF Inv, TypeOK
<1>2. QED
  BY <1>1 DEF AloneInv

\* The same where p neither writes a file nor comes to use one it has written.
LEMMA OwnQuietStep ==
  ASSUME Inv, NEW p \in Procs, AloneInv(p), NEW c \in Command,
         proc' = [proc EXCEPT ![p] = c], c.alone = proc[p].alone,
         c.made = proc[p].made,
         proc[p].at \in {"statBinary", "statSource", "parse", "imports"},
         c.at \in {"statSource", "parse", "imports", "openIR", "exec", "refused"}
  PROVE  AloneInv(p)'
<1>1. proc'[p] = c
  BY DEF Inv, TypeOK
<1>2. proc[p].alone => ~c.made
  BY DEF AloneInv, AloneFiles
<1>3. proc[p].alone => AloneFiles(p)'
  BY <1>1, <1>2 DEF AloneFiles
<1>4. QED
  BY <1>3, OwnStep

LEMMA StartAlone ==
  ASSUME Inv, NEW p \in Procs, Start(p)
  PROVE  AloneInv(p)'
<1> DEFINE c == [Idle EXCEPT !.at = "statBinary", !.hash = source.text,
                             !.alone = (Running = {})]
<1>1. c.at = "statBinary" /\ ~c.made /\ (c.alone => Running = {})
  BY DEF Idle
<1>2. proc'[p] = c
  BY DEF Start
<1>3. ASSUME Running = {}, NEW q \in Procs, q # p PROVE proc'[q].at = "idle"
  <2>1. proc[q].at = "idle" /\ proc[q] \in Command
    BY <1>3 DEF Running, Inv, TypeOK
  <2>2. proc'[q] = [proc[q] EXCEPT !.alone = FALSE]
    BY <1>3 DEF Start
  <2>3. QED
    BY <2>1, <2>2 DEF Command
<1> HIDE DEF c
<1>4. QED
  BY <1>1, <1>2, <1>3 DEF AloneInv, AloneFiles

LEMMA ReadsAlone ==
  ASSUME Inv, NEW p \in Procs, AloneInv(p),
         StatBinary(p) \/ StatSource(p) \/ Parse(p) \/ CompileImports(p)
  PROVE  AloneInv(p)'
<1> DEFINE Reads == {"statBinary", "statSource", "parse", "imports"}
           b == binary[proc[p].hash]
<1>1. proc \in [Procs -> Command] /\ proc[p] \in Command /\ CommandInv(p)
  BY Facts
<1>2. source.text \in Texts /\ imports \in Imports /\ 0 \in 0 .. MaxTime
  BY MaxTimeAssumption DEF Inv, TypeOK
<1>3. CASE StatBinary(p) /\ b # None
  <2> DEFINE c == [proc[p] EXCEPT !.at = "statSource", !.mtime = b.mtime]
  <2>1. b.mtime \in 0 .. MaxTime
    BY <1>1, <1>3 DEF StatBinary, CommandInv, Inv, TypeOK, Binary
  <2>2. /\ c \in Command /\ c.at = "statSource"
        /\ c.alone = proc[p].alone /\ c.made = proc[p].made
    BY <1>1, <2>1 DEF Command, Steps
  <2>3. proc' = [proc EXCEPT ![p] = c] /\ proc[p].at \in Reads
    BY <1>1, <1>3 DEF StatBinary, BinaryName
  <2>4. QED
    BY <2>2, <2>3, OwnQuietStep
<1>4. CASE StatBinary(p) /\ b = None
  <2> DEFINE c == [proc[p] EXCEPT !.at = "parse"]
  <2>1. /\ c \in Command /\ c.at = "parse"
        /\ c.alone = proc[p].alone /\ c.made = proc[p].made
    BY <1>1, <1>2 DEF Command, Steps
  <2>2. proc' = [proc EXCEPT ![p] = c] /\ proc[p].at \in Reads
    BY <1>1, <1>4 DEF StatBinary, BinaryName, Goes
  <2>3. QED
    BY <2>1, <2>2, OwnQuietStep
<1>5. CASE StatSource(p)
  <2> DEFINE s == IF Newer(p) THEN "exec" ELSE "parse"
             c == [proc[p] EXCEPT !.at = s, !.mtime = 0]
  <2>1. s \in {"exec", "parse"}
    OBVIOUS
  <2>2. proc' = [proc EXCEPT ![p] = c] /\ proc[p].at \in Reads
    BY <1>1, <1>5 DEF StatSource
  <2> HIDE DEF s
  <2>3. /\ c \in Command /\ c.at = s
        /\ c.alone = proc[p].alone /\ c.made = proc[p].made
    BY <1>1, <1>2, <2>1 DEF Command, Steps
  <2>4. QED
    BY <2>1, <2>2, <2>3, OwnQuietStep
<1>6. CASE Parse(p) /\ Goes(p, "refused")
  <2> DEFINE c == [proc[p] EXCEPT !.at = "refused"]
  <2>1. /\ c \in Command /\ c.at = "refused"
        /\ c.alone = proc[p].alone /\ c.made = proc[p].made
    BY <1>1, <1>2 DEF Command, Steps
  <2>2. proc' = [proc EXCEPT ![p] = c] /\ proc[p].at \in Reads
    BY <1>1, <1>6 DEF Parse, Goes
  <2>3. QED
    BY <2>1, <2>2, OwnQuietStep
<1>7. CASE Parse(p) /\ ~Goes(p, "refused")
  <2> DEFINE c == [proc[p] EXCEPT !.at = "imports", !.main = source.text]
  <2>1. /\ c \in Command /\ c.at = "imports"
        /\ c.alone = proc[p].alone /\ c.made = proc[p].made
    BY <1>1, <1>2 DEF Command, Steps
  <2>2. proc' = [proc EXCEPT ![p] = c] /\ proc[p].at \in Reads
    BY <1>1, <1>7 DEF Parse
  <2>3. QED
    BY <2>1, <2>2, OwnQuietStep
<1>8. CASE CompileImports(p)
  <2> DEFINE c == [proc[p] EXCEPT !.at = "openIR", !.imports = imports]
  <2>1. /\ c \in Command /\ c.at = "openIR"
        /\ c.alone = proc[p].alone /\ c.made = proc[p].made
    BY <1>1, <1>2 DEF Command, Steps
  <2>2. proc' = [proc EXCEPT ![p] = c] /\ proc[p].at \in Reads
    BY <1>1, <1>8 DEF CompileImports
  <2>3. QED
    BY <2>1, <2>2, OwnQuietStep
<1>9. QED
  BY <1>3, <1>4, <1>5, <1>6, <1>7, <1>8
LEMMA OpenIRAlone ==
  ASSUME Inv, NEW p \in Procs, AloneInv(p), OpenIR(p)
  PROVE  AloneInv(p)'
<1> DEFINE h == proc[p].hash
           c == [proc[p] EXCEPT !.at = "writeIR"]
           f == [code |-> None, whole |-> FALSE,
                 open |-> {p} \cup (IF ir[h] = None THEN {} ELSE ir[h].open)]
<1>1. /\ proc \in [Procs -> Command] /\ proc[p] \in Command /\ h \in Texts
      /\ ir \in [Texts -> IR \cup {None}]
  BY Facts DEF CommandInv, OpenIR
<1>2. /\ c \in Command /\ c.at = "writeIR" /\ c.hash = h
      /\ c.alone = proc[p].alone /\ c.made = proc[p].made
  BY <1>1 DEF Command, Steps
<1>3. proc' = [proc EXCEPT ![p] = c] /\ ir' = [ir EXCEPT ![h] = f]
  BY <1>1 DEF OpenIR, Goes, IRName, BinaryName
<1>4. f \in IR /\ p \in f.open /\ f.code = None
  <2>1. ir[h] # None => ir[h].open \in SUBSET Procs
    BY <1>1 DEF IR
  <2>2. QED
    BY <2>1 DEF IR
<1> HIDE DEF f
<1>5. proc'[p] = c /\ ir'[h] = f /\ f # None
  BY <1>1, <1>3, <1>4, NoneAssumption
<1>6. proc[p].alone => ~c.made
  BY <1>2 DEF OpenIR, AloneInv, AloneFiles
<1>7. proc[p].alone => AloneFiles(p)'
  BY <1>2, <1>4, <1>5, <1>6 DEF AloneFiles
<1>8. QED
  BY <1>2, <1>3, <1>7, OwnStep

LEMMA WriteIRAlone ==
  ASSUME Inv, NEW p \in Procs, AloneInv(p), WriteIR(p)
  PROVE  AloneInv(p)'
<1> DEFINE h == proc[p].hash
           c == [proc[p] EXCEPT !.at = "clang"]
<1>1. /\ proc \in [Procs -> Command] /\ proc[p] \in Command /\ h \in Texts
      /\ ir \in [Texts -> IR \cup {None}] /\ Compiled(p) \in Code
  BY Facts DEF CommandInv, WriteIR, Compiled, Code
<1>2. /\ c \in Command /\ c.at = "clang" /\ c.hash = h /\ c.alone = proc[p].alone
      /\ c.made = proc[p].made /\ c.main = proc[p].main /\ c.imports = proc[p].imports
  BY <1>1 DEF Command, Steps
<1>3. proc' = [proc EXCEPT ![p] = c] /\ proc[p].at = "writeIR"
  BY <1>1 DEF WriteIR, Goes
<1>4. proc'[p] = c
  BY <1>1, <1>3
<1>5. Compiled(p)' = Compiled(p)
  BY <1>2, <1>4 DEF Compiled
<1>6. ASSUME proc[p].alone PROVE AloneFiles(p)'
  <2>1. /\ ~c.made /\ ir[h] # None /\ p \in ir[h].open /\ ir[h].code = None
    BY <1>2, <1>3, <1>6 DEF AloneInv, AloneFiles
  <2>2. PICK g \in Written(p, ir[h]) : ir' = [ir EXCEPT ![h] = g]
    BY <2>1 DEF WriteIR, IRName, BinaryName
  <2>3. g \in IR /\ g.code = Compiled(p)
    BY <1>1, <2>1, WrittenIs
  <2>4. g.whole
    BY <2>1, <2>2 DEF Written
  <2>5. ir'[h] = g /\ g # None
    BY <1>1, <2>2, <2>3, NoneAssumption
  <2>6. QED
    BY <1>2, <1>4, <1>5, <2>1, <2>3, <2>4, <2>5 DEF AloneFiles
<1>7. QED
  BY <1>2, <1>3, <1>6, OwnStep

LEMMA ClangReadsAlone ==
  ASSUME Inv, NEW p \in Procs, AloneInv(p), ClangReads(p)
  PROVE  AloneInv(p)'
<1> DEFINE h == proc[p].hash
<1>1. /\ proc \in [Procs -> Command] /\ proc[p] \in Command /\ h \in Texts
      /\ ir \in [Texts -> IR \cup {None}]
  BY Facts DEF CommandInv, ClangReads
<1>2. CASE ir[h] # None /\ ir[h].whole
  <2> DEFINE c == [proc[p] EXCEPT !.at = "link", !.object = ir[h].code]
  <2>1. ir[h].code \in Code
    BY <1>1, <1>2 DEF Inv, FilesInv, IRInv, IR
  <2>2. /\ c \in Command /\ c.at = "link" /\ c.object = ir[h].code
        /\ c.alone = proc[p].alone /\ c.made = proc[p].made
        /\ c.main = proc[p].main /\ c.imports = proc[p].imports
    BY <1>1, <2>1 DEF Command, Steps
  <2>3. proc' = [proc EXCEPT ![p] = c]
    BY <1>1, <1>2 DEF ClangReads, IRName, BinaryName
  <2>4. proc'[p] = c
    BY <1>1, <2>3
  <2>5. Compiled(p)' = Compiled(p)
    BY <2>2, <2>4 DEF Compiled
  <2>6. proc[p].alone => ~c.made /\ ir[h].code = Compiled(p)
    BY <2>2 DEF AloneInv, AloneFiles, ClangReads
  <2>7. proc[p].alone => AloneFiles(p)'
    BY <2>2, <2>4, <2>5, <2>6 DEF AloneFiles
  <2>8. QED
    BY <2>2, <2>3, <2>7, OwnStep
<1>3. CASE ~(ir[h] # None /\ ir[h].whole)
  <2> DEFINE c == [proc[p] EXCEPT !.at = "failed"]
  <2>1. c \in Command /\ c.at = "failed" /\ c.alone = proc[p].alone
    BY <1>1 DEF Command, Steps
  <2>2. proc' = [proc EXCEPT ![p] = c]
    BY <1>1, <1>3 DEF ClangReads, Goes, IRName, BinaryName
  <2>3. ~proc[p].alone
    BY <1>3 DEF AloneInv, AloneFiles, ClangReads
  <2>4. QED
    BY <2>1, <2>2, <2>3, OwnStep
<1>4. QED
  BY <1>2, <1>3

LEMMA LinkBeginsAlone ==
  ASSUME Inv, NEW p \in Procs, AloneInv(p), LinkBegins(p)
  PROVE  AloneInv(p)'
<1> DEFINE h == proc[p].hash
           c == [proc[p] EXCEPT !.at = "linked", !.object = None]
           b == [code |-> proc[p].object, whole |-> FALSE, by |-> p, mtime |-> clock]
<1>1. /\ proc \in [Procs -> Command] /\ proc[p] \in Command /\ h \in Texts
      /\ binary \in [Texts -> Binary \cup {None}]
  BY Facts DEF CommandInv, LinkBegins
<1>2. /\ c \in Command /\ c.at = "linked" /\ c.hash = h
      /\ c.alone = proc[p].alone /\ c.made = proc[p].made
      /\ c.main = proc[p].main /\ c.imports = proc[p].imports
  BY <1>1 DEF Command, Steps
<1>3. proc' = [proc EXCEPT ![p] = c] /\ binary' = [binary EXCEPT ![h] = b]
  BY <1>1 DEF LinkBegins, BinaryName
<1>4. proc'[p] = c /\ binary'[h] = b
  BY <1>1, <1>3
<1>5. Compiled(p)' = Compiled(p)
  BY <1>2, <1>4 DEF Compiled
<1>6. proc[p].alone => ~c.made /\ proc[p].object = Compiled(p)
  BY <1>2 DEF AloneInv, AloneFiles, LinkBegins
<1>7. proc[p].alone => AloneFiles(p)'
  BY <1>2, <1>4, <1>5, <1>6 DEF AloneFiles
<1>8. QED
  BY <1>2, <1>3, <1>7, OwnStep

LEMMA LinkEndsAlone ==
  ASSUME Inv, NEW p \in Procs, AloneInv(p), LinkEnds(p)
  PROVE  AloneInv(p)'
<1> DEFINE h == proc[p].hash
           c == [proc[p] EXCEPT !.at = "exec", !.made = TRUE]
           d == [binary[h] EXCEPT !.whole = TRUE, !.by = None, !.mtime = clock]
<1>1. /\ proc \in [Procs -> Command] /\ proc[p] \in Command /\ h \in Texts
      /\ binary \in [Texts -> Binary \cup {None}] /\ binary[h] \in Binary
      /\ clock \in 0 .. MaxTime
  BY Facts DEF CommandInv, LinkEnds, Inv, TypeOK
<1>2. /\ c \in Command /\ c.at = "exec" /\ c.hash = h /\ c.alone = proc[p].alone
      /\ c.main = proc[p].main /\ c.imports = proc[p].imports
  BY <1>1 DEF Command, Steps
<1>3. proc' = [proc EXCEPT ![p] = c] /\ proc[p].at = "linked"
  BY <1>1 DEF LinkEnds
<1>4. proc'[p] = c
  BY <1>1, <1>3
<1>5. Compiled(p)' = Compiled(p)
  BY <1>2, <1>4 DEF Compiled
<1>6. ASSUME proc[p].alone PROVE AloneFiles(p)'
  <2>1. binary[h].by = p /\ binary[h].code = Compiled(p)
    BY <1>3, <1>6 DEF AloneInv, AloneFiles
  <2>2. binary' = [binary EXCEPT ![h] = d]
    BY <1>1, <2>1 DEF LinkEnds, BinaryName
  <2>3. d.code = binary[h].code /\ d.whole
    BY <1>1, LinkedIs
  <2> HIDE DEF d
  <2>4. binary'[h] = d
    BY <1>1, <2>2
  <2>5. QED
    BY <1>2, <1>4, <1>5, <2>1, <2>3, <2>4 DEF AloneFiles
<1>7. QED
  BY <1>2, <1>3, <1>6, OwnStep

LEMMA ExecBinaryAlone ==
  ASSUME Inv, PartInv, NEW p \in Procs, AloneInv(p), ExecBinary(p)
  PROVE  AloneInv(p)'
<1> DEFINE h == proc[p].hash
           s == IF binary[h].whole THEN "running" ELSE "failed"
           c == [proc[p] EXCEPT !.at = s, !.main = None, !.imports = None]
<1>1. /\ proc \in [Procs -> Command] /\ proc[p] \in Command /\ h \in Texts
      /\ binary[h] # None
  BY Facts DEF CommandInv, ExecBinary
<1>2. s \in {"running", "failed"} /\ (s = "failed" => ~binary[h].whole)
  OBVIOUS
<1>3. proc' = [proc EXCEPT ![p] = c] /\ proc[p].at = "exec" /\ cut' = cut
  BY <1>1 DEF ExecBinary, BinaryName, history
<1> HIDE DEF s
<1>4. /\ c \in Command /\ c.at = s /\ c.hash = h
      /\ c.alone = proc[p].alone /\ c.made = proc[p].made
  BY <1>1, <1>2 DEF Command, Steps
<1>5. proc'[p] = c
  BY <1>1, <1>3
<1>6. ASSUME proc[p].alone, ~binary[h].whole PROVE ~c.made /\ h \in cut
  <2>1. ~c.made
    BY <1>3, <1>4, <1>6 DEF AloneInv, AloneFiles
  <2>2. \A q \in Procs : proc[q].at # "linked"
    BY <1>3, <1>6 DEF AloneInv
  <2>3. QED
    BY <1>1, <1>6, <2>1, <2>2 DEF PartInv
<1>7. ASSUME proc[p].alone PROVE AloneFiles(p)'
  <2>1. proc'[p].at \in {"running", "failed"} /\ proc'[p].hash = h
    BY <1>2, <1>4, <1>5
  <2>2. proc'[p].at = "failed" => ~proc'[p].made /\ proc'[p].hash \in cut'
    BY <1>2, <1>3, <1>4, <1>5, <1>6, <1>7
  <2>3. QED
    BY <2>1, <2>2 DEF AloneFiles
<1>8. QED
  BY <1>2, <1>3, <1>4, <1>7, OwnStep

LEMMA OverAlone ==
  ASSUME Inv, NEW p \in Procs, Exit(p) \/ Kill(p)
  PROVE  AloneInv(p)'
<1>1. proc'[p] = Idle
  BY DEF Exit, Kill, Inv, TypeOK
<1>2. QED
  BY <1>1, IdleIs DEF AloneInv

\* No step around the commands, and none of another one, disturbs what p finds.
LEMMA SharedKept == ASSUME SharedInv, [Next]_vars PROVE SharedInv'
<1>1. Inv'
  BY NextInv DEF SharedInv
<1>2. ASSUME NEW q \in Procs, Step(q) \/ Kill(q)
      PROVE  PartInv' /\ \A p \in Procs : AloneInv(p)'
  <2>1. PartInv'
    BY <1>2, StepKeepsPart, KillKeepsPart DEF SharedInv
  <2>2. AloneInv(q)'
    BY <1>2, StartAlone, ReadsAlone, OpenIRAlone, WriteIRAlone, ClangReadsAlone,
       LinkBeginsAlone, LinkEndsAlone, ExecBinaryAlone, OverAlone
    DEF Step, SharedInv
  <2>3. \A p \in Procs : p # q => AloneInv(p)'
    BY <1>2, OthersStep DEF SharedInv
  <2>4. QED
    BY <2>1, <2>2, <2>3
<1>3. ASSUME UNCHANGED <<binary, ir, proc, cut>>
      PROVE  PartInv' /\ \A p \in Procs : AloneInv(p)'
  BY <1>3 DEF SharedInv, PartInv, AloneInv, AloneFiles, Compiled
<1>4. CASE Commands \/ Kills
  BY <1>1, <1>2, <1>4 DEF Commands, Kills, SharedInv
<1>5. CASE Tick \/ Saves \/ UNCHANGED vars
  <2>1. UNCHANGED <<binary, ir, proc, cut>>
    BY <1>5 DEF Tick, Saves, EditSource, EditImports, vars, cache, history
  <2>2. QED
    BY <1>1, <1>3, <2>1 DEF SharedInv
<1>6. QED
  BY <1>4, <1>5 DEF Next

LEMMA SharedInvariant == Spec => []SharedInv
<1>1. QED
  BY InitShared, SharedKept, PTL DEF Spec

\* A command that had the directory to itself and compiled executes just what
\* it has read, source and imports, whatever was saved meanwhile and whatever
\* other commands, ended or killed, had left; and any command executes the text
\* it has hashed if no command of that name has read two texts.
THEOREM CacheRunsYourCode == Spec => RunsYourCode
<1> DEFINE Runs(p) ==
      proc[p].at = "exec" /\ proc'[p].at = "running" =>
        LET ran == binary[BinaryName(p)].code IN
        /\ proc[p].alone /\ proc[p].made => ran = Compiled(p)
        /\ proc[p].hash \notin torn => ran.main = proc[p].hash
<1>1. ASSUME SharedInv, NEW p \in Procs PROVE Runs(p)
  <2>1. SUFFICES ASSUME proc[p].at = "exec"
                 PROVE  /\ proc[p].alone /\ proc[p].made =>
                             binary[proc[p].hash].code = Compiled(p)
                        /\ proc[p].hash \notin torn =>
                             binary[proc[p].hash].code.main = proc[p].hash
    BY DEF BinaryName
  <2>2. CommandInv(p) /\ BinaryHasItsText
    BY <1>1 DEF SharedInv, Inv, FilesInv
  <2>3. proc[p].hash \in Texts /\ binary[proc[p].hash] # None
    BY <2>1, <2>2 DEF CommandInv
  <2>4. AloneInv(p)
    BY <1>1 DEF SharedInv
  <2>5. QED
    BY <2>1, <2>2, <2>3, <2>4 DEF AloneInv, AloneFiles, BinaryHasItsText
<1>2. SharedInv => \A p \in Procs : Runs(p)
  BY <1>1
<1>3. SharedInv /\ [Next]_vars => [\A p \in Procs : Runs(p)]_vars
  BY <1>2
<1>4. QED
  BY <1>3, SharedInvariant, PTL DEF Spec, RunsYourCode

\* A command that has the directory to itself fails over none of its files, as
\* long as no linker was killed while it wrote the binary of that name.
THEOREM CacheServesGoodCode == Spec => []GoodCodeRuns
<1>1. SharedInv => GoodCodeRuns
  BY DEF SharedInv, AloneInv, AloneFiles, GoodCodeRuns
<1>2. QED
  BY <1>1, SharedInvariant, PTL
=============================================================================
