----------------------------- MODULE BuildCache -----------------------------
(***************************************************************************)
(* "sintax file.sx": compile a program into .sintax/ and execute the       *)
(* binary, or execute the one an earlier run has left there (run.go,       *)
(* build.go).  Several such commands, of one or more terminals, share the  *)
(* source file, the directory and the clock; an editor writes the source   *)
(* and the modules it imports.                                             *)
(***************************************************************************)
EXTENDS Naturals

CONSTANTS
  Procs,    \* places where commands run, one after the other
  Texts,    \* what the source file may contain
  Imports,  \* what everything else a binary is made of may contain: the
            \* imported modules, the standard library, the C runtime
  MaxTime,  \* bound of the clock
  None      \* no file, no value

ASSUME MaxTimeAssumption == MaxTime \in Nat

VARIABLES
  source,   \* the source file: text and modification time
  imports,  \* the text of the imports
  clock,
  binary,   \* binary[h]: the file .sintax/<name>_<h>
  ir,       \* ir[h]: the file .sintax/<name>_<h>.ll
  proc,     \* the commands
  torn,     \* history: names under which a command has parsed another text
            \* than the one it had hashed
  cut       \* history: names whose binary a killed linker has left behind

vars == <<source, imports, clock, binary, ir, proc, torn, cut>>

\* What code is compiled from.
Code == [main : Texts, imports : Imports]

\* A binary has the text it was compiled from, whether the linker has written
\* all of it, who is writing it, and its modification time.
Binary == [code : Code, whole : BOOLEAN, by : Procs \cup {None},
           mtime : 0 .. MaxTime]

\* A .ll file has the code that was written last, None while it is empty.  It
\* is whole unless it is empty or two writers have mixed it up; open holds the
\* commands that have it open for writing.
IR == [code : Code \cup {None}, whole : BOOLEAN, open : SUBSET Procs]

ASSUME NoneAssumption ==
  None \notin Procs \cup Texts \cup Imports \cup Code \cup Binary \cup IR

\* at names the next step.  hash stands for the hash of the text that was read
\* first; mtime is the binary's from os.Stat; main and imports are what the
\* compiler has read, object what clang has; made tells a compilation from a
\* use of the cache; alone is history: no other command has run at any time
\* since this one began.
Steps == {"idle", "statBinary", "statSource", "parse", "imports", "openIR",
          "writeIR", "clang", "link", "linked", "exec", "running", "failed", "refused"}

Command == [at : Steps, hash : Texts \cup {None}, mtime : 0 .. MaxTime,
            main : Texts \cup {None}, imports : Imports \cup {None},
            object : Code \cup {None}, made : BOOLEAN, alone : BOOLEAN]

Idle == [at |-> "idle", hash |-> None, mtime |-> 0, main |-> None,
         imports |-> None, object |-> None, made |-> FALSE, alone |-> FALSE]

Init ==
  /\ source \in [text : Texts, mtime : {0}]
  /\ imports \in Imports
  /\ clock = 0
  /\ binary = [h \in Texts |-> None]
  /\ ir = [h \in Texts |-> None]
  /\ proc = [p \in Procs |-> Idle]
  /\ torn = {}
  /\ cut = {}

\* Command p goes on at the step s.
Goes(p, s) == proc' = [proc EXCEPT ![p].at = s]

files == <<source, imports, clock>>
cache == <<binary, ir>>
history == <<torn, cut>>

-----------------------------------------------------------------------------
\* The steps of a command

\* Slip: the files are named after the program only, not after its text.
OneName(p) == CHOOSE h \in Texts : TRUE

\* The names of the files in .sintax/, as far as they differ.
BinaryName(p) == proc[p].hash

IRName(p) == BinaryName(p)

Running == {p \in Procs : proc[p].at # "idle"}

\* compileAndRun reads the source and names the binary after its hash.
Start(p) ==
  /\ proc[p].at = "idle"
  /\ proc' = [q \in Procs |->
                IF q = p
                THEN [Idle EXCEPT !.at = "statBinary", !.hash = source.text,
                                  !.alone = (Running = {})]
                ELSE [proc[q] EXCEPT !.alone = FALSE]]
  /\ UNCHANGED <<files, cache, history>>

StatBinary(p) ==
  /\ proc[p].at = "statBinary"
  /\ LET b == binary[BinaryName(p)] IN
     \/ b = None /\ Goes(p, "parse")
     \/ /\ b # None
        /\ proc' = [proc EXCEPT ![p].at = "statSource", ![p].mtime = b.mtime]
  /\ UNCHANGED <<files, cache, history>>

Newer(p) == proc[p].mtime > source.mtime

StatSource(p) ==
  /\ proc[p].at = "statSource"
  /\ proc' = [proc EXCEPT ![p].at = IF Newer(p) THEN "exec" ELSE "parse",
                          ![p].mtime = 0]
  /\ UNCHANGED <<files, cache, history>>

\* parseFile reads the source once more; parser and analyzer may refuse what it
\* says, together with the standard library.
Parse(p) ==
  /\ proc[p].at = "parse"
  /\ \/ /\ proc' = [proc EXCEPT ![p].at = "imports", ![p].main = source.text]
        /\ torn' = IF source.text = proc[p].hash THEN torn
                   ELSE torn \cup {proc[p].hash}
     \/ Goes(p, "refused") /\ torn' = torn
  /\ UNCHANGED <<files, cache, cut>>

CompileImports(p) ==
  /\ proc[p].at = "imports"
  /\ proc' = [proc EXCEPT ![p].at = "openIR", ![p].imports = imports]
  /\ UNCHANGED <<files, cache, history>>

\* os.WriteFile opens the .ll file, an old one without its content, ...
OpenIR(p) ==
  /\ proc[p].at = "openIR"
  /\ LET old == ir[IRName(p)] IN
     ir' = [ir EXCEPT ![IRName(p)] =
              [code |-> None, whole |-> FALSE,
               open |-> {p} \cup (IF old = None THEN {} ELSE old.open)]]
  /\ Goes(p, "writeIR")
  /\ UNCHANGED <<files, binary, history>>

\* What the compiler has made of the texts it has read.
Compiled(p) == [main |-> proc[p].main, imports |-> proc[p].imports]

\* What p's write leaves of the .ll file f: over another command's longer text
\* the end of that one stays.
Written(p, f) ==
  {[code |-> Compiled(p), whole |-> w, open |-> f.open \ {p}] :
     w \in IF f.code = None \/ (f.code = Compiled(p) /\ f.whole) THEN {TRUE}
          ELSE BOOLEAN}

\* Slip: the .ll file is removed at once and not when the command ends.
WriteIRAndRemove(p) ==
  /\ proc[p].at = "writeIR"
  /\ ir' = [ir EXCEPT ![IRName(p)] = None]
  /\ Goes(p, "clang")
  /\ UNCHANGED <<files, binary, history>>

\* ... and writes it.  A file that another command has removed in between, be
\* there a new one of that name or not, takes the text with it.
WriteIR(p) ==
  /\ proc[p].at = "writeIR"
  /\ LET f == ir[IRName(p)] IN
     IF f # None /\ p \in f.open
     THEN \E g \in Written(p, f) : ir' = [ir EXCEPT ![IRName(p)] = g]
     ELSE ir' = ir
  /\ Goes(p, "clang")
  /\ UNCHANGED <<files, binary, history>>

\* clang reads the .ll file.  One that is gone, empty or mixed up it refuses.
ClangReads(p) ==
  /\ proc[p].at = "clang"
  /\ LET f == ir[IRName(p)] IN
     IF f # None /\ f.whole
     THEN proc' = [proc EXCEPT ![p].at = "link", ![p].object = f.code]
     ELSE Goes(p, "failed")
  /\ UNCHANGED <<files, cache, history>>

\* The linker replaces an old binary and writes the new one in place.
LinkBegins(p) ==
  /\ proc[p].at = "link"
  /\ binary' = [binary EXCEPT ![BinaryName(p)] =
       [code |-> proc[p].object, whole |-> FALSE, by |-> p, mtime |-> clock]]
  /\ cut' = cut \ {BinaryName(p)}
  /\ proc' = [proc EXCEPT ![p].at = "linked", ![p].object = None]
  /\ UNCHANGED <<files, ir, torn>>

\* What it writes to a file that another linker has replaced is lost.
LinkEnds(p) ==
  /\ proc[p].at = "linked"
  /\ LET h == BinaryName(p) IN
     binary' = IF binary[h].by = p
               THEN [binary EXCEPT ![h].whole = TRUE, ![h].by = None,
                                   ![h].mtime = clock]
               ELSE binary
  /\ proc' = [proc EXCEPT ![p].at = "exec", ![p].made = TRUE]
  /\ UNCHANGED <<files, ir, history>>

ExecBinary(p) ==
  /\ proc[p].at = "exec"
  /\ proc' = [proc EXCEPT
       ![p].at = IF binary[BinaryName(p)].whole THEN "running" ELSE "failed",
       ![p].main = None, ![p].imports = None]
  /\ UNCHANGED <<files, cache, history>>

\* The command is over.  A command that compiled removes its .ll file when the
\* program exits with 0; os.Exit skips the deferred removal.
Exit(p) ==
  /\ proc[p].at \in {"running", "failed", "refused"}
  /\ \/ ir' = ir
     \/ /\ proc[p].at = "running" /\ proc[p].made
        /\ ir' = [ir EXCEPT ![IRName(p)] = None]
  /\ proc' = [proc EXCEPT ![p] = Idle]
  /\ UNCHANGED <<files, binary, history>>

Step(p) ==
  \/ Start(p) \/ StatBinary(p) \/ StatSource(p) \/ Parse(p)
  \/ CompileImports(p) \/ OpenIR(p) \/ WriteIR(p) \/ ClangReads(p)
  \/ LinkBegins(p) \/ LinkEnds(p) \/ ExecBinary(p) \/ Exit(p)

-----------------------------------------------------------------------------
\* What happens around the commands

Tick ==
  /\ clock < MaxTime
  /\ clock' = clock + 1
  /\ UNCHANGED <<source, imports, cache, proc, history>>

EditSource(t) ==
  /\ source' = [text |-> t, mtime |-> clock]
  /\ UNCHANGED <<imports, clock, cache, proc, history>>

EditImports(i) ==
  /\ imports' = i
  /\ UNCHANGED <<source, clock, cache, proc, history>>

\* The command is killed: no deferred call runs, files are closed and stay as
\* they are.
Kill(p) ==
  /\ p \in Running
  /\ proc' = [proc EXCEPT ![p] = Idle]
  /\ ir' = [h \in Texts |-> IF ir[h] = None THEN None
                            ELSE [ir[h] EXCEPT !.open = @ \ {p}]]
  /\ cut' = cut \cup {h \in Texts : /\ proc[p].at = "linked" /\ h = BinaryName(p)
                                    /\ binary[h].by = p}
  /\ UNCHANGED <<files, binary, torn>>

Commands == \E p \in Procs : Step(p)

Saves == (\E t \in Texts : EditSource(t)) \/ (\E i \in Imports : EditImports(i))

Kills == \E p \in Procs : Kill(p)

\* Anything is saved and any command killed, at any time.
Next == Commands \/ Tick \/ Saves \/ Kills

Spec == Init /\ [][Next]_vars

-----------------------------------------------------------------------------
\* Properties

TypeOK ==
  /\ source \in [text : Texts, mtime : 0 .. MaxTime]
  /\ imports \in Imports
  /\ clock \in 0 .. MaxTime
  /\ binary \in [Texts -> Binary \cup {None}]
  /\ ir \in [Texts -> IR \cup {None}]
  /\ proc \in [Procs -> Command]
  /\ torn \subseteq Texts
  /\ cut \subseteq Texts

\* What is executed is the program that was asked for ("the compiler compiles
\* your code and executes it", docs/getting-started.md:26).  A command that had
\* the directory to itself and compiled executes just what it has read, source
\* and imports, whatever is saved meanwhile and whatever other commands and
\* killed ones have left.  Any command, from the cache or beside others,
\* executes the text it has hashed, unless a command of that name has met two
\* texts at its two looks at the source (run.go:17 and 37).
RunsYourCode ==
  [][\A p \in Procs : proc[p].at = "exec" /\ proc'[p].at = "running" =>
       LET ran == binary[BinaryName(p)].code IN
       /\ proc[p].alone /\ proc[p].made => ran = Compiled(p)
       /\ proc[p].hash \notin torn => ran.main = proc[p].hash]_vars

\* The text in a binary, of whichever command and however far the linker is,
\* is the text it is named after: the name is all that isCached goes by.  The
\* one way to a wrong one is a save between the two looks of one command.
BinaryHasItsText ==
  \A h \in Texts : binary[h] # None /\ h \notin torn => binary[h].code.main = h

\* A command that has the directory to itself fails over no file in it: not
\* over a .ll or a binary that others have left, written at the same time or
\* were killed over, with one exception: from a binary whose linker was killed
\* it does not recover, and takes it for a cached one.
GoodCodeRuns ==
  \A p \in Procs : proc[p].at = "failed" /\ proc[p].alone =>
    proc[p].hash \in cut /\ ~proc[p].made

\* Without that exception, which is what the code does not keep.
AloneNeverFails == \A p \in Procs : proc[p].alone => proc[p].at # "failed"

\* What is executed has the imports of today: not kept, because the name of a
\* binary and isCached know the source file only.
CacheIsFresh ==
  [][\A p \in Procs : proc[p].at = "exec" /\ proc'[p].at = "running" =>
       binary[BinaryName(p)].code.imports = imports]_vars
=============================================================================
