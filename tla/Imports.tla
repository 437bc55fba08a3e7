------------------------------ MODULE Imports ------------------------------
(***************************************************************************)
(* Imports and visibility.  A program has use lines, functions of its own  *)
(* and statements that call functions by name.  Two engines and the        *)
(* analyzer each give those names a meaning, by tables of their own:       *)
(*                                                                         *)
(*   - the interpreter loads every module before it starts, into a table   *)
(*     it searches at each call (evaluator/imports.go);                    *)
(*   - the compiler declares the functions of modules and program under    *)
(*     flat names, and resolves a call when it compiles it (CompileModule);*)
(*   - the analyzer looks at the program only, never inside a user module. *)
(*                                                                         *)
(* A function returns a value of its own, or what the one call of its body *)
(* returns.  Modules hold function definitions only; their base names      *)
(* differ, and no name holds "__".  A module's calls m/f(...) are written  *)
(* where its own use lines make the preprocessor rewrite them to m__f.     *)
(***************************************************************************)
EXTENDS Naturals, Sequences, Functions

CONSTANTS
  Modules,      \* the files that can be imported
  Std,          \* those of the standard library
  Names,        \* names of functions
  Contents,     \* what a module can hold
  OwnContents,  \* the functions a program can have
  MaxArgs,      \* bound: arguments of a statement's call
  MaxUses,      \* bound: use lines of a program
  None          \* no module, no function, no text

\* f(...) with module None, or m/f(...).
Call == [module : Modules \cup {None}, name : Names, args : Nat]

\* A definition: parameters, those without a default, and the call it makes.
Text == [pub : BOOLEAN, params : Nat, required : Nat, calls : Call \cup {None}]

\* use "m", or use "m/f".
Use == [module : Modules, function : Names \cup {None}]

\* The function of a module, or of the program; also its name in compiled code.
Function == [module : Modules \cup {None}, name : Names]

ASSUME NoneAssumption == None \notin Modules \cup Names \cup Text \cup Call
                                      \cup Function
ASSUME StdAssumption == Std \subseteq Modules
ASSUME ContentsAssumption ==
  Contents \cup OwnContents \subseteq [Names -> Text \cup {None}]
ASSUME BoundsAssumption == MaxArgs \in Nat /\ MaxUses \in Nat

VARIABLES
  files,     \* what each module holds; None: it cannot be read or parsed
  uses,      \* the program's use lines
  own,       \* the program's functions
  envs,      \* importedUserEnvs: the use lines whose module was evaluated
  defined,   \* own functions whose fn statement the interpreter has reached
  interp,    \* the interpreter, and the function it is in or comes from
  declared,  \* userFuncs: which definition declared each compiled name
  bodies,    \* the bodies compiled into each name, and what they call
  compiled,  \* use lines that compileImports is done with
  native     \* the compiler, then the compiled program

vars == <<files, uses, own, envs, defined, interp, declared, bodies, compiled,
          native>>

program == <<files, uses, own>>
evaluator == <<envs, defined, interp>>
codegen == <<declared, bodies, compiled, native>>

Fn(m, n) == [module |-> m, name |-> n]

TextOf(g) == IF g.module = None THEN own[g.name] ELSE files[g.module][g.name]

Defs(m) == {n \in Names : files[m][n] # None}

UseSet == {uses[i] : i \in DOMAIN uses}

\* What an engine does: it prepares, rests between statements, runs a
\* function, has its value, or failed.  fn is the function it runs or comes
\* from, or the name it has not found.
Outcome == [st : {"prepare", "rest", "run", "value", "error"},
            fn : Function \cup {None},
            why : {"", "module", "private", "arity", "undefined", "null",
                   "invalid", "panic"}]

ASSUME OutcomeAssumption == None \notin Outcome

Being(st, g) == [st |-> st, fn |-> g, why |-> ""]
Runs(g) == Being("run", g)
Failed(why) == [st |-> "error", fn |-> None, why |-> why]
Undefined(c) ==
  [st |-> "error", fn |-> Fn(c.module, c.name), why |-> "undefined"]

-----------------------------------------------------------------------------
\* The interpreter.  None is the ok = FALSE of its lookups.

\* Slip: pub is not asked for.
CallFromEnvOfAll(g, named, args) ==
  LET text == TextOf(g) IN
  IF text = None THEN None
  ELSE IF text.params # args THEN Failed("arity")
  ELSE Runs(g)

CallFromEnv(g, named, args) ==
  LET text == TextOf(g) IN
  IF text = None \/ (~named /\ text # None /\ ~text.pub) THEN None
  ELSE IF ~text.pub THEN Failed("private")
  ELSE IF text.params # args THEN Failed("arity")
  ELSE Runs(g)

CallUserModule(c) ==
  IF c.module # None /\ [module |-> c.module, function |-> None] \in envs
  THEN CallFromEnv(Fn(c.module, c.name), TRUE, c.args)
  ELSE None

\* Slip: the name is not compared.
SpecificImportsOfAll(c) == {u \in envs : c.module = None /\ u.function # None}

\* The table's entries for a specifically imported name, in any order.
SpecificImports(c) == {u \in envs : c.module = None /\ u.function = c.name}

\* Slip: only modules imported whole are searched.
CallNoSpecificImport(c) == {None}

CallSpecificImport(c) ==
  LET keys == SpecificImports(c) IN
  IF keys = {} THEN {None}
  ELSE {CallFromEnv(Fn(u.module, c.name), FALSE, c.args) : u \in keys}

\* env.Get, from a function of a module or of the program.
InScope(c, from) ==
  /\ c.module = None
  /\ IF from = None THEN c.name \in defined ELSE c.name \in Defs(from)

CallInScope(c, from) ==
  LET text == TextOf(Fn(from, c.name)) IN
  IF ~InScope(c, from) THEN Undefined(c)
  ELSE IF c.args < text.required \/ c.args > text.params THEN Failed("arity")
  ELSE Runs(Fn(from, c.name))

\* evalFuncCall: what a call may come to.
EvalCalls(c, from) ==
  IF CallUserModule(c) # None THEN {CallUserModule(c)}
  ELSE (CallSpecificImport(c) \ {None}) \cup
       {o \in {CallInScope(c, from)} : None \in CallSpecificImport(c)}

\* RegisterImports, one use line: the first module that cannot be loaded ends
\* the program.
LoadModule ==
  /\ interp.st = "prepare"
  /\ \E i \in DOMAIN uses :
       /\ uses[i] \notin envs
       /\ \A j \in 1 .. i - 1 : uses[j] \in envs
       /\ IF files[uses[i].module] = None
          THEN interp' = Failed("module") /\ UNCHANGED envs
          ELSE envs' = envs \cup {uses[i]} /\ UNCHANGED interp
  /\ UNCHANGED <<program, defined, codegen>>

StartEval ==
  /\ interp.st = "prepare"
  /\ UseSet \subseteq envs
  /\ interp' = Being("rest", None)
  /\ UNCHANGED <<program, envs, defined, codegen>>

\* The fn statement of one of the program's functions.
DefineOwn(n) ==
  /\ interp.st \in {"rest", "value"} /\ native.st \notin {"prepare", "run"}
  /\ own[n] # None /\ n \notin defined
  /\ defined' = defined \cup {n}
  /\ UNCHANGED <<program, envs, interp, codegen>>

EvalReturn ==
  /\ interp.st = "run" /\ TextOf(interp.fn).calls = None
  /\ interp' = Being("value", interp.fn)
  /\ UNCHANGED <<program, envs, defined, codegen>>

EvalBody ==
  /\ interp.st = "run" /\ TextOf(interp.fn).calls # None
  /\ interp' \in EvalCalls(TextOf(interp.fn).calls, interp.fn.module)
  /\ UNCHANGED <<program, envs, defined, codegen>>

-----------------------------------------------------------------------------
\* The compiler.

\* cg.userFuncs[name], while decl is what is declared.
Resolved(c, decl) ==
  IF c = None THEN None
  ELSE IF decl[Fn(c.module, c.name)] = None THEN None
  ELSE Fn(c.module, c.name)

\* forwardDeclare keeps the first definition of a name.
Declares(new) == [s \in Function |->
                    IF declared[s] = None THEN new[s] ELSE declared[s]]

\* Slip: the imported function is declared under its own name, not compiled.
CompilesPrefixed(new) ==
  [s \in Function |->
     IF new[s] = None \/ s # new[s] THEN bodies[s]
     ELSE Append(bodies[s], [of |-> new[s],
                             callee |-> Resolved(TextOf(new[s]).calls, Declares(new))])]

\* compileFuncDef appends a body to the function declared, of which it takes
\* as many parameters as the new definition has.
Compiles(new) ==
  LET decl == Declares(new) IN
  [s \in Function |->
     IF new[s] = None THEN bodies[s]
     ELSE Append(bodies[s],
                 [of |-> new[s], callee |-> Resolved(TextOf(new[s]).calls, decl)])]

Overruns(new) ==
  \E s \in Function : /\ new[s] # None
                      /\ TextOf(Declares(new)[s]).params < TextOf(new[s]).params

\* Slip: a specific import declares every function of the module.
ModuleNamesTwice(u) ==
  [s \in Function |->
     IF s.module \in {u.module, None} /\ s.name \in Defs(u.module) /\
        (s.module = None => u.function # None)
     THEN Fn(u.module, s.name) ELSE None]

\* CompileModule: all of m under m__f, and the imported function under f too.
ModuleNames(u) ==
  [s \in Function |->
     IF s.module = u.module /\ s.name \in Defs(u.module) THEN s
     ELSE IF s.module = None /\ s.name = u.function /\ s.name \in Defs(u.module)
     THEN Fn(u.module, s.name)
     ELSE None]

OwnNames == [s \in Function |->
               IF s.module = None /\ own[s.name] # None THEN s ELSE None]

Building == native.st = "prepare"

\* compileImports, one use line; it skips a module that cannot be read.
CompileImport ==
  /\ Building /\ compiled < Len(uses)
  /\ compiled' = compiled + 1
  /\ LET u == uses[compiled + 1] IN
     IF files[u.module] = None THEN UNCHANGED <<declared, bodies, native>>
     ELSE /\ declared' = Declares(ModuleNames(u))
          /\ bodies' = Compiles(ModuleNames(u))
          /\ native' = IF Overruns(ModuleNames(u)) THEN Failed("panic")
                       ELSE native
  /\ UNCHANGED <<program, evaluator>>

\* Generate, and clang: a function with two bodies has two blocks named entry.
Generate ==
  /\ Building /\ compiled = Len(uses)
  /\ declared' = Declares(OwnNames)
  /\ bodies' = Compiles(OwnNames)
  /\ native' = IF Overruns(OwnNames) THEN Failed("panic")
               ELSE IF \E s \in Function : Len(bodies'[s]) > 1
               THEN Failed("invalid")
               ELSE Being("rest", None)
  /\ UNCHANGED <<program, evaluator, compiled>>

\* Without a function of that name, null is called.
Jump(callee) == IF callee = None THEN Failed("null") ELSE Runs(callee)

NativeReturn ==
  /\ native.st = "run" /\ TextOf(bodies[native.fn][1].of).calls = None
  /\ native' = Being("value", native.fn)
  /\ UNCHANGED <<program, evaluator, declared, bodies, compiled>>

NativeBody ==
  /\ native.st = "run" /\ TextOf(bodies[native.fn][1].of).calls # None
  /\ native' = Jump(bodies[native.fn][1].callee)
  /\ UNCHANGED <<program, evaluator, declared, bodies, compiled>>

-----------------------------------------------------------------------------
\* The analyzer, and the program's statements.

\* checkStdlibCallTypes: nothing is said of a function the module has not.
CheckStdlibCall(c) ==
  c.name \in Defs(c.module) =>
    /\ files[c.module][c.name].pub
    /\ files[c.module][c.name].params = c.args

\* checkFuncCall.  m/f(...) is a call only after use "m".
CheckCall(c) ==
  IF c.module # None
  THEN /\ [module |-> c.module, function |-> None] \in UseSet
       /\ c.module \in Std => CheckStdlibCall(c)
  ELSE IF own[c.name] # None
  THEN c.args \in own[c.name].required .. own[c.name].params
  ELSE \E u \in UseSet : u.function = c.name

\* registerImports, and the bodies of the program's own functions.
Accepted ==
  /\ \A u \in UseSet : u.module \in Std => files[u.module] # None
  /\ \A n \in Names : own[n] # None /\ own[n].calls # None =>
                        CheckCall(own[n].calls)

StatementCalls == [module : Modules \cup {None}, name : Names,
                   args : 0 .. MaxArgs]

\* A statement that calls a function, in the runs of both engines that have
\* come this far.
Statement(c) ==
  /\ interp.st \in {"rest", "value", "error"}
  /\ native.st \in {"rest", "value", "error"}
  /\ ~ (interp.st = "error" /\ native.st = "error")
  /\ CheckCall(c)
  /\ IF interp.st = "error" THEN UNCHANGED interp
     ELSE interp' \in EvalCalls(c, None)
  /\ native' = IF native.st = "error" THEN native
               ELSE Jump(Resolved(c, declared))
  /\ UNCHANGED <<program, envs, defined, declared, bodies, compiled>>

-----------------------------------------------------------------------------
Init ==
  /\ files \in [Modules -> Contents \cup {None}]
  /\ uses \in UNION {[1 .. n -> Use] : n \in 0 .. MaxUses}
  /\ own \in OwnContents
  /\ Accepted
  /\ envs = {} /\ defined = {}
  /\ interp = Being("prepare", None)
  /\ declared = [s \in Function |-> None]
  /\ bodies = [s \in Function |-> << >>]
  /\ compiled = 0
  /\ native = Being("prepare", None)

Next ==
  \/ LoadModule
  \/ StartEval
  \/ \E n \in Names : DefineOwn(n)
  \/ EvalReturn
  \/ EvalBody
  \/ CompileImport
  \/ Generate
  \/ NativeReturn
  \/ NativeBody
  \/ \E c \in StatementCalls : Statement(c)

Spec == Init /\ [][Next]_vars
-----------------------------------------------------------------------------
\* What holds of them

\* The state of both engines has its shape; the functions of a compiled name
\* are never taken back.
TypeOK ==
  /\ files \in [Modules -> Contents \cup {None}]
  /\ uses \in Seq(Use) /\ Len(uses) <= MaxUses
  /\ own \in OwnContents
  /\ envs \subseteq UseSet
  /\ defined \subseteq {n \in Names : own[n] # None}
  /\ interp \in Outcome /\ native \in Outcome
  /\ declared \in [Function -> Function \cup {None}]
  /\ compiled \in 0 .. Len(uses)
  /\ \A s \in Function :
       \A i \in DOMAIN bodies[s] : /\ bodies[s][i].of \in Function
                                  /\ bodies[s][i].callee \in Function \cup {None}

\* The interpreter enters a function that is not pub only from a function of
\* the same module: not from the program, not from another module, and not by
\* a specific import (callFromEnv).
PrivateStaysPrivate ==
  [][\A g \in Function :
       /\ interp' = Runs(g) /\ interp' # interp
       /\ g.module # None /\ ~TextOf(g).pub
       => interp.st = "run" /\ interp.fn.module = g.module]_vars

\* No name that is imported on its own is a name of anything else.
ClearNames ==
  \A u \in UseSet : u.function # None =>
    /\ own[u.function] = None
    /\ \A v \in UseSet : v.module # u.module /\ files[v.module] # None =>
                           u.function \notin Defs(v.module)

\* A specific import names no pub function of its module.
HiddenImport ==
  \E u \in UseSet : /\ u.function # None /\ files[u.module] # None
                   /\ ~ (/\ u.function \in Defs(u.module)
                         /\ files[u.module][u.function].pub)

\* With clear names, or when all that is imported on its own can be, a call of
\* the program that returns in both engines has come to the same function,
\* whatever the modules' functions call on the way and in whatever order the use
\* lines stand.
SameCallee ==
  /\ ClearNames \/ ~HiddenImport
  /\ interp.st = "value" /\ native.st = "value"
  => bodies[native.fn][1].of = interp.fn

\* With clear names, a call of the interpreter means one thing, in whatever
\* order Go walks the table (callSpecificImport).
OneMeaning ==
  ClearNames /\ interp.st \in {"rest", "run"} =>
    \A c \in StatementCalls, from \in {m \in Modules : files[m] # None} \cup {None} :
      \A o, other \in EvalCalls(c, from) : o = other

OneUse == \A i, j \in DOMAIN uses : uses[i].module = uses[j].module => i = j

\* With clear names, a program that names every module in one use line gets
\* one body for each function that is declared, so that it builds.
Builds ==
  ClearNames /\ OneUse =>
    /\ native.why \notin {"invalid", "panic"}
    /\ native.st # "prepare" =>
         \A s \in Function : Len(bodies[s]) = IF declared[s] = None THEN 0 ELSE 1

\* g is a function of the program that its fn statements have not defined yet.
EarlyCall(g) == g.module = None /\ own[g.name] # None /\ g.name \notin defined

\* g belongs to a module that the program does not import whole: another
\* module calls it.
BorrowedModule(g) ==
  g.module # None /\ [module |-> g.module, function |-> None] \notin UseSet

\* When compiled code gets past a call, the interpreter does not miss the
\* function, unless imports hide what they name or the very function it misses
\* is one the program defines later or one of a borrowed module: then the
\* engines differ.
FoundAlike ==
  native.st = "value" /\ interp.why = "undefined" =>
    HiddenImport \/ EarlyCall(interp.fn) \/ BorrowedModule(interp.fn)

\* docs/functions.md:179: "Functions can be called before they are defined".
\* Not kept by the interpreter, which misses the program's own functions.
EarlyCallsAreFound ==
  interp.why = "undefined" /\ interp.fn.module = None => own[interp.fn.name] = None

\* docs/modules.md:39 of a module's private functions: "only usable inside
\* mylib.sx", where double calls helper.  A function's call of a function of
\* its own module is compiled as one.
HelpersAreFound ==
  \A s \in Function : \A i \in DOMAIN bodies[s] :
    LET g == bodies[s][i].of
        c == TextOf(g).calls
    IN  g.module # None /\ c # None =>
          (c.module = None /\ c.name \in Defs(g.module) =>
             bodies[s][i].callee # None)
=============================================================================
