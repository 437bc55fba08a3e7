--------------------------- MODULE Imports_proofs ---------------------------
(***************************************************************************)
(* What holds of imports for every set of modules, names and contents.     *)
(***************************************************************************)
EXTENDS Imports, SequenceTheorems, TLAPS

-----------------------------------------------------------------------------
\* Which function a lookup enters.

LEMMA Entered ==
  ASSUME NEW g, NEW k, Runs(g) = Runs(k)
  PROVE  g = k
  BY DEF Runs, Being

LEMMA NotRunning ==
  ASSUME NEW g
  PROVE  /\ \A why : Runs(g) # Failed(why)
         /\ \A k : Runs(g) # Being("rest", k) /\ Runs(g) # Being("value", k)
         /\ \A c : Runs(g) # Undefined(c)
         /\ Runs(g).st = "run"
  BY DEF Runs, Being, Failed, Undefined

\* An outcome is not the None of a lookup.
LEMMA OutcomeIsNotNone ==
  ASSUME NEW g \in Function
  PROVE  Runs(g) # None
  <1>1. Runs(g) \in Outcome
    BY DEF Runs, Being, Outcome
  <1> QED BY <1>1, OutcomeAssumption

\* callFromEnv enters the function it was asked for, and only if it is pub.
LEMMA FromEnvIsPub ==
  ASSUME NEW k, NEW args, NEW g \in Function,
         \/ CallFromEnv(k, TRUE, args) = Runs(g)
         \/ CallFromEnv(k, FALSE, args) = Runs(g)
  PROVE  g = k /\ TextOf(g).pub
  <1>1. Runs(g) = Runs(k) /\ TextOf(k).pub
    BY NotRunning, OutcomeIsNotNone DEF CallFromEnv
  <1> QED BY <1>1, Entered

\* A function that is in scope belongs to the module, or to the program.
LEMMA InScopeIsOwn ==
  ASSUME NEW c, NEW from, NEW g \in Function, CallInScope(c, from) = Runs(g)
  PROVE  g.module = from
  <1>1. Runs(g) = Runs(Fn(from, c.name))
    BY NotRunning DEF CallInScope
  <1>2. g = Fn(from, c.name)
    BY <1>1, Entered
  <1> QED BY <1>2 DEF Fn

\* A call enters pub functions and functions of its own module.
LEMMA EnteredIsPubOrOwn ==
  ASSUME NEW c, NEW from, NEW g \in Function, Runs(g) \in EvalCalls(c, from)
  PROVE  TextOf(g).pub \/ g.module = from
  <1>1. CASE CallUserModule(c) # None
    <2>1. CallUserModule(c) = Runs(g)
      BY <1>1 DEF EvalCalls
    <2>2. CallFromEnv(Fn(c.module, c.name), TRUE, c.args) = Runs(g)
      BY <1>1, <2>1 DEF CallUserModule
    <2> DEFINE k == Fn(c.module, c.name)
    <2>3. CallFromEnv(k, TRUE, c.args) = Runs(g)
      BY <2>2
    <2> HIDE DEF k
    <2> QED BY <2>3, FromEnvIsPub
  <1>2. CASE CallUserModule(c) = None /\ Runs(g) \in CallSpecificImport(c)
    <2>1. PICK u : CallFromEnv(Fn(u.module, c.name), FALSE, c.args) = Runs(g)
      BY <1>2, OutcomeIsNotNone DEF CallSpecificImport
    <2> DEFINE k == Fn(u.module, c.name)
    <2>2. CallFromEnv(k, FALSE, c.args) = Runs(g)
      BY <2>1
    <2> HIDE DEF k
    <2> QED BY <2>2, FromEnvIsPub
  <1>3. CASE CallUserModule(c) = None /\ Runs(g) \notin CallSpecificImport(c)
    <2>1. CallInScope(c, from) = Runs(g)
      BY <1>3 DEF EvalCalls
    <2> QED BY <2>1, InScopeIsOwn
  <1> QED BY <1>1, <1>2, <1>3

-----------------------------------------------------------------------------
\* For all modules, programs and use lines, the interpreter enters a private
\* function only from the module that holds it.
THEOREM PrivateHolds == Spec => PrivateStaysPrivate
  <1> DEFINE Guarded ==
        \A g \in Function :
          /\ interp' = Runs(g) /\ interp' # interp
          /\ g.module # None /\ ~TextOf(g).pub
          => interp.st = "run" /\ interp.fn.module = g.module
  <1>1. Next => Guarded
    <2> SUFFICES ASSUME Next, NEW g \in Function,
                        interp' = Runs(g), interp' # interp,
                        g.module # None, ~TextOf(g).pub
                 PROVE  interp.st = "run" /\ interp.fn.module = g.module
      OBVIOUS
    <2>1. CASE EvalBody
      BY <2>1, EnteredIsPubOrOwn DEF EvalBody
    <2>2. ASSUME NEW c \in StatementCalls, Statement(c)
          PROVE  FALSE
      <3>1. Runs(g) \in EvalCalls(c, None)
        BY <2>2 DEF Statement
      <3> QED BY <3>1, EnteredIsPubOrOwn
    <2>3. CASE LoadModule
      BY <2>3, NotRunning DEF LoadModule
    <2>4. CASE StartEval
      BY <2>4, NotRunning DEF StartEval
    <2>5. CASE EvalReturn
      BY <2>5, NotRunning DEF EvalReturn
    <2>6. CASE \E n \in Names : DefineOwn(n)
      BY <2>6 DEF DefineOwn
    <2>7. CASE CompileImport \/ Generate \/ NativeReturn \/ NativeBody
      BY <2>7 DEF CompileImport, Generate, NativeReturn, NativeBody, evaluator
    <2> QED BY <2>1, <2>2, <2>3, <2>4, <2>5, <2>6, <2>7 DEF Next
  <1>2. [Next]_vars => [Guarded]_vars
    BY <1>1
  <1> QED BY <1>2, PTL DEF Spec, PrivateStaysPrivate

-----------------------------------------------------------------------------
\* The program's text never changes, and the table holds modules of its use
\* lines that could be loaded.

ProgramOK ==
  /\ files \in [Modules -> Contents \cup {None}]
  /\ own \in OwnContents
  /\ uses \in Seq(Use)

Loaded ==
  /\ envs \subseteq UseSet
  /\ \A u \in envs : files[u.module] # None

TInv == ProgramOK /\ Loaded

LEMMA InitTInv == Init => TInv
  <1> SUFFICES ASSUME Init PROVE TInv
    OBVIOUS
  <1>1. PICK n \in 0 .. MaxUses : uses \in [1 .. n -> Use]
    BY DEF Init
  <1>2. n \in Nat
    BY BoundsAssumption
  <1>3. uses \in Seq(Use)
    BY <1>1, <1>2, SeqDef
  <1> QED BY <1>3 DEF Init, TInv, ProgramOK, Loaded

LEMMA NextTInv == TInv /\ [Next]_vars => TInv'
  <1> SUFFICES ASSUME TInv, [Next]_vars PROVE TInv'
    OBVIOUS
  <1>1. CASE LoadModule
    <2>1. PICK i \in DOMAIN uses :
            IF files[uses[i].module] = None
            THEN UNCHANGED envs ELSE envs' = envs \cup {uses[i]}
      BY <1>1 DEF LoadModule
    <2>2. uses[i] \in UseSet
      BY <2>1 DEF UseSet
    <2>3. UNCHANGED program
      BY <1>1 DEF LoadModule
    <2> QED BY <2>1, <2>2, <2>3 DEF TInv, ProgramOK, Loaded, UseSet, program
  <1>2. CASE UNCHANGED <<program, envs>>
    BY <1>2 DEF TInv, ProgramOK, Loaded, UseSet, program
  <1>3. CASE ~LoadModule
    <2>1. UNCHANGED <<program, envs>>
      BY <1>3 DEF Next, StartEval, DefineOwn, EvalReturn, EvalBody, CompileImport,
                  Generate, NativeReturn, NativeBody, Statement, evaluator, vars,
                  program
    <2> QED BY <2>1, <1>2
  <1> QED BY <1>1, <1>3

LEMMA UsesAreUses ==
  ASSUME ProgramOK, NEW u \in UseSet
  PROVE  u \in Use /\ u.module \in Modules /\ u.module # None
  <1>1. u \in Use
    BY DEF ProgramOK, UseSet
  <1> QED BY <1>1, NoneAssumption DEF Use

\* What a module that could be read, or the program, has under a name.
LEMMA TextIsText ==
  ASSUME ProgramOK, NEW m \in Modules \cup {None}, NEW n \in Names,
         m # None => files[m] # None
  PROVE  /\ TextOf(Fn(m, n)) \in Text \cup {None}
         /\ m = None => TextOf(Fn(m, n)) = own[n]
         /\ m # None => TextOf(Fn(m, n)) = files[m][n]
         /\ m # None => (n \in Defs(m) <=> TextOf(Fn(m, n)) # None)
  <1>1. CASE m = None
    <2>1. own \in [Names -> Text \cup {None}]
      BY ContentsAssumption DEF ProgramOK
    <2> QED BY <1>1, <2>1 DEF TextOf, Fn
  <1>2. CASE m # None
    <2>1. files[m] \in [Names -> Text \cup {None}]
      BY <1>2, ContentsAssumption DEF ProgramOK
    <2> QED BY <1>2, <2>1 DEF TextOf, Fn, Defs
  <1> QED BY <1>1, <1>2

-----------------------------------------------------------------------------
\* A name that two specific imports share is a name of neither module.
LEMMA SharedIsNone ==
  ASSUME TInv, ClearNames, NEW c \in StatementCalls,
         NEW u \in SpecificImports(c), NEW v \in SpecificImports(c),
         u.module # v.module
  PROVE  CallFromEnv(Fn(v.module, c.name), FALSE, c.args) = None
  <1>1. /\ u \in UseSet /\ v \in UseSet /\ u.function = c.name
        /\ files[v.module] # None
    BY DEF TInv, Loaded, SpecificImports
  <1>2. c.name \in Names /\ c.name # None
    BY NoneAssumption DEF StatementCalls
  <1>3. c.name \notin Defs(v.module)
    BY <1>1, <1>2 DEF ClearNames
  <1>4. v.module \in Modules /\ v.module # None
    BY <1>1, UsesAreUses DEF TInv
  <1>5. TextOf(Fn(v.module, c.name)) = None
    BY <1>1, <1>2, <1>3, <1>4, TextIsText DEF TInv
  <1> QED BY <1>5 DEF CallFromEnv

\* So all its imports agree.
LEMMA OneImport ==
  ASSUME TInv, ClearNames, NEW c \in StatementCalls
  PROVE  \E x : CallSpecificImport(c) = {x}
  <1>1. CASE SpecificImports(c) = {}
    BY <1>1 DEF CallSpecificImport
  <1>2. CASE SpecificImports(c) # {}
    <2> DEFINE At(u) == CallFromEnv(Fn(u.module, c.name), FALSE, c.args)
    <2>1. PICK u : u \in SpecificImports(c)
      BY <1>2
    <2>2. \A v \in SpecificImports(c) : At(v) = At(u)
      <3> TAKE v \in SpecificImports(c)
      <3>1. CASE v.module = u.module
        BY <3>1
      <3>2. CASE v.module # u.module
        BY <3>2, <2>1, SharedIsNone
      <3> QED BY <3>1, <3>2
    <2>3. CallSpecificImport(c) = {At(v) : v \in SpecificImports(c)}
      BY <1>2 DEF CallSpecificImport
    <2> HIDE DEF At
    <2>4. CallSpecificImport(c) = {At(u)}
      BY <2>1, <2>2, <2>3
    <2> QED BY <2>4
  <1> QED BY <1>1, <1>2

\* For all modules and use lines, the order in which Go walks the table does
\* not matter to a program whose imported names are clear.
THEOREM OneMeaningHolds == Spec => []OneMeaning
  <1>1. TInv => OneMeaning
    <2> SUFFICES ASSUME TInv, ClearNames, NEW c \in StatementCalls, NEW from,
                        NEW o \in EvalCalls(c, from),
                        NEW other \in EvalCalls(c, from)
                 PROVE  o = other
      BY DEF OneMeaning
    <2>1. PICK x : CallSpecificImport(c) = {x}
      BY OneImport
    <2>2. CASE CallUserModule(c) # None
      BY <2>2 DEF EvalCalls
    <2>3. CASE CallUserModule(c) = None /\ x = None
      <3>1. EvalCalls(c, from) = {CallInScope(c, from)}
        BY <2>1, <2>3 DEF EvalCalls
      <3> QED BY <3>1
    <2>4. CASE CallUserModule(c) = None /\ x # None
      <3>1. EvalCalls(c, from) = {x}
        BY <2>1, <2>4 DEF EvalCalls
      <3> QED BY <3>1
    <2> QED BY <2>2, <2>3, <2>4
  <1> QED BY <1>1, InitTInv, NextTInv, PTL DEF Spec

-----------------------------------------------------------------------------
\* What the compiler has declared and compiled, line by line.

Body == [of : Function, callee : Function \cup {None}]

\* New definitions: what each name is to mean, where it is new.
Definitions(new) ==
  /\ new \in [Function -> Function \cup {None}]
  /\ \A s \in Function : new[s] # None => TextOf(new[s]) \in Text

\* The use line u declared the name s.
FromUse(s, u) ==
  /\ files[u.module] # None /\ s.name \in Defs(u.module)
  /\ declared[s] = Fn(u.module, s.name)
  /\ s.module = u.module \/ (s.module = None /\ s.name = u.function)

FromProgram(s) ==
  native.st # "prepare" /\ s.module = None /\ declared[s] = s /\ own[s.name] # None

\* The compiled call of the first body of s.
CalleeOK(s) ==
  LET c == TextOf(declared[s]).calls
      k == bodies[s][1].callee
  IN k # None => /\ c # None /\ k = Fn(c.module, c.name) /\ declared[k] # None
                 /\ declared[s].module # None => declared[k].module # None

CInv ==
  /\ declared \in [Function -> Function \cup {None}]
  /\ bodies \in [Function -> Seq(Body)]
  /\ compiled \in 0 .. Len(uses)
  /\ native.st = "prepare" => native = Being("prepare", None)
  /\ \A s \in Function : declared[s] # None =>
       FromProgram(s) \/ \E j \in 1 .. compiled : FromUse(s, uses[j])
  /\ \A s \in Function :
       IF declared[s] = None THEN bodies[s] = << >>
       ELSE Len(bodies[s]) >= 1 /\ bodies[s][1].of = declared[s] /\ CalleeOK(s)

LEMMA FunctionIsNotNone ==
  ASSUME NEW g \in Function
  PROVE  g # None /\ g = Fn(g.module, g.name) /\ g.name \in Names
         /\ g.module \in Modules \cup {None}
  BY NoneAssumption DEF Function, Fn

LEMMA FnIsFunction ==
  ASSUME NEW m \in Modules \cup {None}, NEW n \in Names
  PROVE  Fn(m, n) \in Function /\ Fn(m, n).module = m /\ Fn(m, n).name = n
  BY DEF Function, Fn

LEMMA ModuleNamesAreDefinitions ==
  ASSUME ProgramOK, NEW u \in UseSet, files[u.module] # None
  PROVE  /\ Definitions(ModuleNames(u))
         /\ \A s \in Function : ModuleNames(u)[s] # None =>
              /\ ModuleNames(u)[s] = Fn(u.module, s.name)
              /\ s.name \in Defs(u.module)
              /\ s.module = u.module \/ (s.module = None /\ s.name = u.function)
  <1>1. u.module \in Modules /\ u.module # None
    BY UsesAreUses
  <1>2. \A s \in Function : ModuleNames(u)[s] # None =>
              /\ ModuleNames(u)[s] = Fn(u.module, s.name)
              /\ s.name \in Defs(u.module)
              /\ s.module = u.module \/ (s.module = None /\ s.name = u.function)
    BY FunctionIsNotNone DEF ModuleNames
  <1>3. \A s \in Function : ModuleNames(u)[s] \in Function \cup {None}
    BY <1>1, <1>2, FnIsFunction, FunctionIsNotNone
  <1>4. \A s \in Function : ModuleNames(u)[s] # None =>
          TextOf(ModuleNames(u)[s]) \in Text
    BY <1>1, <1>2, TextIsText, FunctionIsNotNone
  <1> QED BY <1>2, <1>3, <1>4 DEF Definitions, ModuleNames

LEMMA OwnNamesAreDefinitions ==
  ASSUME ProgramOK
  PROVE  /\ Definitions(OwnNames)
         /\ \A s \in Function : OwnNames[s] # None =>
              OwnNames[s] = s /\ s.module = None /\ own[s.name] # None
  <1>1. \A s \in Function : OwnNames[s] # None =>
              OwnNames[s] = s /\ s.module = None /\ own[s.name] # None
    BY DEF OwnNames
  <1>2. \A s \in Function : OwnNames[s] # None => TextOf(OwnNames[s]) \in Text
    BY <1>1, TextIsText, FunctionIsNotNone
  <1> QED BY <1>1, <1>2 DEF Definitions, OwnNames

LEMMA ResolvedIsDeclared ==
  ASSUME NEW decl \in [Function -> Function \cup {None}],
         NEW c \in Call \cup {None}
  PROVE  /\ Resolved(c, decl) \in Function \cup {None}
         /\ Resolved(c, decl) # None =>
              /\ c # None /\ Resolved(c, decl) = Fn(c.module, c.name)
              /\ decl[Resolved(c, decl)] # None
  <1>1. CASE c = None
    BY <1>1 DEF Resolved
  <1>2. CASE c # None
    <2>1. Fn(c.module, c.name) \in Function
      BY <1>2, FnIsFunction DEF Call
    <2> QED BY <1>2, <2>1 DEF Resolved
  <1> QED BY <1>1, <1>2

\* Declaring and compiling definitions: names keep what they have, and get
\* one body more.
LEMMA CompilesDefinitions ==
  ASSUME ProgramOK, CInv, NEW new, Definitions(new)
  PROVE  /\ Declares(new) \in [Function -> Function \cup {None}]
         /\ Compiles(new) \in [Function -> Seq(Body)]
         /\ \A s \in Function :
              /\ declared[s] # None => Declares(new)[s] = declared[s]
              /\ declared[s] = None => Declares(new)[s] = new[s]
              /\ new[s] = None => Compiles(new)[s] = bodies[s]
              /\ new[s] # None =>
                   Compiles(new)[s] =
                     Append(bodies[s], [of |-> new[s],
                       callee |-> Resolved(TextOf(new[s]).calls, Declares(new))])
         /\ \A s \in Function : new[s] # None =>
              TextOf(new[s]).calls \in Call \cup {None}
  <1>1. Declares(new) \in [Function -> Function \cup {None}]
    BY DEF Declares, Definitions, CInv
  <1>2. \A s \in Function : new[s] # None => TextOf(new[s]).calls \in Call \cup {None}
    BY DEF Definitions, Text
  <1>3. \A s \in Function : new[s] # None =>
          [of |-> new[s], callee |-> Resolved(TextOf(new[s]).calls, Declares(new))] \in Body
    BY <1>1, <1>2, ResolvedIsDeclared DEF Definitions, Body
  <1>4. \A s \in Function : bodies[s] \in Seq(Body)
    BY DEF CInv
  <1>5. \A s \in Function :
              /\ new[s] = None => Compiles(new)[s] = bodies[s]
              /\ new[s] # None =>
                   Compiles(new)[s] =
                     Append(bodies[s], [of |-> new[s],
                       callee |-> Resolved(TextOf(new[s]).calls, Declares(new))])
    BY DEF Compiles
  <1>6. \A s \in Function : Compiles(new)[s] \in Seq(Body)
    <2> TAKE s \in Function
    <2>1. CASE new[s] = None
      BY <2>1, <1>4, <1>5
    <2>2. CASE new[s] # None
      <3> DEFINE b == [of |-> new[s],
                       callee |-> Resolved(TextOf(new[s]).calls, Declares(new))]
      <3>1. b \in Body /\ bodies[s] \in Seq(Body)
        BY <2>2, <1>3, <1>4
      <3>2. Compiles(new)[s] = Append(bodies[s], b)
        BY <2>2, <1>5
      <3> HIDE DEF b
      <3>3. Append(bodies[s], b) \in Seq(Body)
        BY <3>1, AppendProperties
      <3> QED BY <3>2, <3>3
    <2> QED BY <2>1, <2>2
  <1>7. Compiles(new) \in [Function -> Seq(Body)]
    BY <1>6 DEF Compiles
  <1>8. \A s \in Function :
              /\ declared[s] # None => Declares(new)[s] = declared[s]
              /\ declared[s] = None => Declares(new)[s] = new[s]
    BY DEF Declares
  <1> QED BY <1>1, <1>2, <1>5, <1>7, <1>8

\* New definitions leave the first body of every name what it was, or are it.
LEMMA FirstBodies ==
  ASSUME ProgramOK, CInv, NEW new, Definitions(new), UNCHANGED program,
         declared' = Declares(new), bodies' = Compiles(new),
         \A s, k \in Function :
           new[s] # None /\ new[s].module # None /\ declared'[k] # None
             => declared'[k].module # None
  PROVE  \A s \in Function :
           IF declared'[s] = None THEN bodies'[s] = << >>
           ELSE Len(bodies'[s]) >= 1 /\ bodies'[s][1].of = declared'[s] /\ CalleeOK(s)'
  <1> SUFFICES ASSUME NEW s \in Function
               PROVE  IF declared'[s] = None THEN bodies'[s] = << >>
                      ELSE /\ Len(bodies'[s]) >= 1
                           /\ bodies'[s][1].of = declared'[s]
                           /\ CalleeOK(s)'
    OBVIOUS
  <1> DEFINE b == [of |-> new[s],
                   callee |-> Resolved(TextOf(new[s]).calls, Declares(new))]
  <1>1. /\ declared[s] # None => declared'[s] = declared[s]
        /\ declared[s] = None => declared'[s] = new[s]
        /\ new[s] = None => bodies'[s] = bodies[s]
        /\ new[s] # None => bodies'[s] = Append(bodies[s], b)
        /\ \A k \in Function : declared[k] # None => declared'[k] = declared[k]
        /\ declared' \in [Function -> Function \cup {None}]
    BY CompilesDefinitions
  <1>2. \A g : TextOf(g)' = TextOf(g)
    BY DEF TextOf, program
  <1>3. bodies[s] \in Seq(Body)
    BY DEF CInv
  <1>4. new[s] # None => b \in Body
    BY CompilesDefinitions, ResolvedIsDeclared DEF Definitions, Body
  <1>5. CASE declared[s] # None
    <2>1. Len(bodies[s]) >= 1 /\ bodies[s][1].of = declared[s] /\ CalleeOK(s)
      BY <1>5 DEF CInv
    <2>2. Len(bodies'[s]) >= 1 /\ bodies'[s][1] = bodies[s][1]
      <3> HIDE DEF b
      <3>1. CASE new[s] = None
        BY <3>1, <1>1, <2>1
      <3>2. CASE new[s] # None
        BY <3>2, <1>1, <1>3, <1>4, <2>1, AppendProperties
      <3> QED BY <3>1, <3>2
    <2>3. bodies[s][1].callee \in Function \cup {None}
      <3>1. 1 \in 1 .. Len(bodies[s])
        BY <1>3, <2>1
      <3>2. bodies[s][1] \in Body
        BY <1>3, <3>1, ElementOfSeq
      <3> QED BY <3>2 DEF Body
    <2>4. CalleeOK(s)'
      BY <1>1, <1>2, <1>5, <2>1, <2>2, <2>3 DEF CalleeOK
    <2>5. declared'[s] = declared[s] /\ declared'[s] # None
      BY <1>1, <1>5
    <2> QED BY <2>1, <2>2, <2>4, <2>5
  <1>6. CASE declared[s] = None /\ new[s] = None
    BY <1>1, <1>6 DEF CInv
  <1>7. CASE declared[s] = None /\ new[s] # None
    <2>1. bodies[s] = << >>
      BY <1>7 DEF CInv
    <2>2. Len(bodies'[s]) = 1 /\ bodies'[s][1] = b
      <3> HIDE DEF b
      <3>1. Append(bodies[s], b)[1] = b /\ Len(Append(bodies[s], b)) = 1
        BY <1>3, <1>4, <1>7, <2>1, AppendProperties
      <3> QED BY <3>1, <1>1, <1>7
    <2>3. declared'[s] = new[s] /\ declared'[s] # None
      BY <1>1, <1>7
    <2>4. bodies'[s][1].of = new[s] /\ bodies'[s][1].callee
            = Resolved(TextOf(new[s]).calls, declared')
      BY <2>2
    <2>5. TextOf(new[s]).calls \in Call \cup {None}
      BY <1>7, CompilesDefinitions
    <2> DEFINE k == Resolved(TextOf(new[s]).calls, declared')
    <2>6. k \in Function \cup {None} /\
          (k # None => /\ TextOf(new[s]).calls # None
                       /\ k = Fn(TextOf(new[s]).calls.module, TextOf(new[s]).calls.name)
                       /\ declared'[k] # None)
      BY <1>1, <2>5, ResolvedIsDeclared
    <2>7. k # None /\ new[s].module # None => declared'[k].module # None
      BY <1>7, <2>6
    <2>8. CalleeOK(s)'
      BY <1>2, <2>3, <2>4, <2>6, <2>7 DEF CalleeOK
    <2> QED BY <2>2, <2>3, <2>4, <2>8
  <1> QED BY <1>5, <1>6, <1>7

LEMMA InitCInv == Init => CInv
  <1> SUFFICES ASSUME Init PROVE CInv
    OBVIOUS
  <1>1. uses \in Seq(Use)
    BY InitTInv DEF TInv, ProgramOK
  <1>2. Len(uses) \in Nat
    BY <1>1
  <1>3. \A s \in Function : declared[s] = None /\ bodies[s] = << >>
    BY DEF Init
  <1>4. bodies \in [Function -> Seq(Body)] /\ declared \in [Function -> Function \cup {None}]
    BY DEF Init
  <1>5. compiled \in 0 .. Len(uses) /\ native = Being("prepare", None)
    BY <1>2 DEF Init
  <1> QED BY <1>3, <1>4, <1>5 DEF CInv

\* A compiler step declares and compiles new definitions, or leaves it alone.
LEMMA KeepsFromUse ==
  ASSUME CInv, UNCHANGED program, NEW s \in Function, declared[s] # None,
         declared'[s] = declared[s], compiled' \in {compiled, compiled + 1},
         native'.st = "prepare" => native.st = "prepare"
  PROVE  FromProgram(s)' \/ \E j \in 1 .. compiled' : FromUse(s, uses[j])'
  <1>1. FromProgram(s) \/ \E j \in 1 .. compiled : FromUse(s, uses[j])
    BY DEF CInv
  <1>2. CASE FromProgram(s)
    BY <1>2 DEF FromProgram, program
  <1>3. CASE \E j \in 1 .. compiled : FromUse(s, uses[j])
    <2>1. PICK j \in 1 .. compiled : FromUse(s, uses[j])
      BY <1>3
    <2>2. compiled \in Nat
      BY DEF CInv
    <2>3. j \in 1 .. compiled'
      BY <2>1, <2>2
    <2>4. FromUse(s, uses[j])'
      BY <2>1 DEF FromUse, Defs, program
    <2> QED BY <2>3, <2>4
  <1> QED BY <1>1, <1>2, <1>3

\* While modules are compiled, all that is declared is a module's.
LEMMA PreparingIsModules ==
  ASSUME TInv, CInv, native.st = "prepare", NEW s \in Function, declared[s] # None
  PROVE  declared[s].module # None
  <1>1. PICK j \in 1 .. compiled : FromUse(s, uses[j])
    BY DEF CInv, FromProgram
  <1>2. j \in DOMAIN uses
    BY DEF CInv, TInv, ProgramOK
  <1>3. uses[j] \in UseSet
    BY <1>2 DEF UseSet
  <1>4. uses[j].module # None
    BY <1>3, UsesAreUses DEF TInv
  <1> QED BY <1>1, <1>4 DEF FromUse, Fn

LEMMA CompileImportCInv ==
  ASSUME TInv, CInv, CompileImport
  PROVE  CInv'
  <1> DEFINE u == uses[compiled + 1]
             new == ModuleNames(u)
  <1>1. /\ native.st = "prepare" /\ compiled < Len(uses) /\ compiled' = compiled + 1
        /\ UNCHANGED program
    BY DEF CompileImport, Building
  <1>2. compiled \in Nat /\ Len(uses) \in Nat /\ compiled + 1 \in DOMAIN uses
        /\ compiled' \in 0 .. Len(uses) /\ uses' = uses
    BY <1>1 DEF CInv, TInv, ProgramOK, program
  <1>3. u \in UseSet /\ native = Being("prepare", None)
    BY <1>1, <1>2 DEF UseSet, CInv
  <1>4. \A why : Failed(why).st # "prepare"
    BY DEF Failed
  <1>5. CASE files[u.module] = None
    <2>1. UNCHANGED <<declared, bodies, native>>
      BY <1>5 DEF CompileImport
    <2>2. \A s \in Function : declared'[s] # None =>
            FromProgram(s)' \/ \E j \in 1 .. compiled' : FromUse(s, uses[j])'
      BY <1>1, <2>1, KeepsFromUse
    <2>3. \A s \in Function : CalleeOK(s) => CalleeOK(s)'
      BY <1>1, <2>1 DEF CalleeOK, TextOf, program
    <2> QED BY <1>2, <1>3, <2>1, <2>2, <2>3 DEF CInv
  <1>6. CASE files[u.module] # None
    <2>1. declared' = Declares(new) /\ bodies' = Compiles(new)
      BY <1>6 DEF CompileImport
    <2>2. native' \in {native, Failed("panic")}
      BY <1>6 DEF CompileImport
    <2>3. /\ Definitions(new)
          /\ \A s \in Function : new[s] # None =>
               /\ new[s] = Fn(u.module, s.name)
               /\ s.name \in Defs(u.module)
               /\ s.module = u.module \/ (s.module = None /\ s.name = u.function)
      BY <1>3, <1>6, ModuleNamesAreDefinitions DEF TInv
    <2> HIDE DEF u, new
    <2>4. /\ declared' \in [Function -> Function \cup {None}]
          /\ bodies' \in [Function -> Seq(Body)]
          /\ \A s \in Function : /\ declared[s] # None => declared'[s] = declared[s]
                                 /\ declared[s] = None => declared'[s] = new[s]
      BY <2>1, <2>3, CompilesDefinitions DEF TInv
    <2>5. \A s \in Function : declared'[s] # None =>
            FromProgram(s)' \/ \E j \in 1 .. compiled' : FromUse(s, uses[j])'
      <3> SUFFICES ASSUME NEW s \in Function, declared'[s] # None
                   PROVE  FromProgram(s)' \/ \E j \in 1 .. compiled' : FromUse(s, uses[j])'
        OBVIOUS
      <3>1. CASE declared[s] # None
        BY <3>1, <1>1, <2>4, KeepsFromUse
      <3>2. CASE declared[s] = None
        <4>1. new[s] # None /\ declared'[s] = new[s]
          BY <3>2, <2>4
        <4>2. PICK w : w = u
          OBVIOUS
        <4>3. /\ declared'[s] = Fn(w.module, s.name) /\ s.name \in Defs(w.module)
              /\ s.module = w.module \/ (s.module = None /\ s.name = w.function)
              /\ files[w.module] # None
          BY <4>1, <4>2, <2>3, <1>6
        <4>4. FromUse(s, w)'
          BY <4>3, <1>1 DEF FromUse, Defs, program
        <4>5. compiled + 1 \in 1 .. compiled' /\ uses'[compiled + 1] = w
          BY <1>1, <1>2, <4>2 DEF u
        <4> QED BY <4>4, <4>5
      <3> QED BY <3>1, <3>2
    <2>6. \A k \in Function : declared'[k] # None => declared'[k].module # None
      <3> TAKE k \in Function
      <3>1. CASE declared[k] # None
        BY <3>1, <1>1, <2>4, PreparingIsModules
      <3>2. CASE declared[k] = None /\ new[k] # None
        <4>1. declared'[k] = Fn(u.module, k.name)
          BY <3>2, <2>3, <2>4
        <4>2. u.module # None
          BY <1>3, UsesAreUses DEF TInv
        <4> QED BY <4>1, <4>2 DEF Fn
      <3>3. CASE declared[k] = None /\ new[k] = None
        BY <3>3, <2>4
      <3> QED BY <3>1, <3>2, <3>3
    <2>7. \A s \in Function :
            IF declared'[s] = None THEN bodies'[s] = << >>
            ELSE Len(bodies'[s]) >= 1 /\ bodies'[s][1].of = declared'[s] /\ CalleeOK(s)'
      BY <1>1, <2>1, <2>3, <2>6, FirstBodies DEF TInv
    <2>8. native'.st = "prepare" => native' = Being("prepare", None)
      BY <1>3, <1>4, <2>2
    <2> QED BY <1>2, <2>4, <2>5, <2>7, <2>8 DEF CInv
  <1> QED BY <1>5, <1>6

LEMMA GenerateCInv ==
  ASSUME TInv, CInv, Generate
  PROVE  CInv'
  <1> DEFINE new == OwnNames
  <1>1. /\ declared' = Declares(new) /\ bodies' = Compiles(new)
        /\ UNCHANGED <<program, compiled>>
    BY DEF Generate
  <1>2. native'.st # "prepare"
    BY DEF Generate, Failed, Being
  <1>3. /\ Definitions(new)
        /\ \A s \in Function : new[s] # None =>
             new[s] = s /\ s.module = None /\ own[s.name] # None
    BY OwnNamesAreDefinitions DEF TInv
  <1> HIDE DEF new
  <1>4. /\ declared' \in [Function -> Function \cup {None}]
        /\ bodies' \in [Function -> Seq(Body)]
        /\ \A s \in Function : /\ declared[s] # None => declared'[s] = declared[s]
                               /\ declared[s] = None => declared'[s] = new[s]
    BY <1>1, <1>3, CompilesDefinitions DEF TInv
  <1>5. \A s \in Function : declared'[s] # None =>
          FromProgram(s)' \/ \E j \in 1 .. compiled' : FromUse(s, uses[j])'
    <2> SUFFICES ASSUME NEW s \in Function, declared'[s] # None
                 PROVE  FromProgram(s)' \/ \E j \in 1 .. compiled' : FromUse(s, uses[j])'
      OBVIOUS
    <2>1. CASE declared[s] # None
      BY <2>1, <1>1, <1>2, <1>4, KeepsFromUse
    <2>2. CASE declared[s] = None
      BY <2>2, <1>1, <1>2, <1>3, <1>4 DEF FromProgram, program
    <2> QED BY <2>1, <2>2
  <1>6. \A s \in Function :
          IF declared'[s] = None THEN bodies'[s] = << >>
          ELSE Len(bodies'[s]) >= 1 /\ bodies'[s][1].of = declared'[s] /\ CalleeOK(s)'
    BY <1>1, <1>3, FirstBodies DEF TInv
  <1> QED BY <1>1, <1>2, <1>4, <1>5, <1>6 DEF CInv, program

LEMMA NextCInv == TInv /\ CInv /\ [Next]_vars => CInv'
  <1> SUFFICES ASSUME TInv, CInv, [Next]_vars PROVE CInv'
    OBVIOUS
  <1>1. CASE CompileImport
    BY <1>1, CompileImportCInv
  <1>2. CASE Generate
    BY <1>2, GenerateCInv
  <1>3. CASE ~CompileImport /\ ~Generate
    <2>1. UNCHANGED <<program, declared, bodies, compiled>>
      BY <1>3 DEF Next, LoadModule, StartEval, DefineOwn, EvalReturn, EvalBody,
                  NativeReturn, NativeBody, Statement, codegen, vars, program
    <2>2. native' = native \/ (native.st # "prepare" /\ native'.st # "prepare")
      <3>1. CASE NativeReturn
        BY <3>1 DEF NativeReturn, Being
      <3>2. CASE NativeBody
        BY <3>2 DEF NativeBody, Jump, Runs, Being, Failed
      <3>3. ASSUME NEW c \in StatementCalls, Statement(c)
            PROVE  native.st # "prepare" /\ (native' = native \/ native'.st # "prepare")
        <4>1. native.st \in {"rest", "value", "error"}
          BY <3>3 DEF Statement
        <4>2. \A k : Jump(k).st # "prepare"
          BY DEF Jump, Runs, Being, Failed
        <4>3. native' = native \/ native' = Jump(Resolved(c, declared))
          BY <3>3 DEF Statement
        <4> QED BY <4>1, <4>2, <4>3
      <3>4. CASE LoadModule \/ StartEval \/ (\E n \in Names : DefineOwn(n))
                 \/ EvalReturn \/ EvalBody \/ UNCHANGED vars
        BY <3>4 DEF LoadModule, StartEval, DefineOwn, EvalReturn, EvalBody, codegen,
                    vars
      <3> QED BY <1>3, <3>1, <3>2, <3>3, <3>4 DEF Next
    <2>3. \A s \in Function : CalleeOK(s) => CalleeOK(s)'
      BY <2>1 DEF CalleeOK, TextOf, program
    <2>4. \A s \in Function : declared'[s] # None =>
            FromProgram(s)' \/ \E j \in 1 .. compiled' : FromUse(s, uses[j])'
      BY <2>1, <2>2, KeepsFromUse
    <2>5. native'.st = "prepare" => native' = Being("prepare", None)
      BY <2>2 DEF CInv
    <2>6. compiled' \in 0 .. Len(uses')
      BY <2>1 DEF CInv, program
    <2> QED BY <2>1, <2>3, <2>4, <2>5, <2>6 DEF CInv
  <1> QED BY <1>1, <1>2, <1>3

-----------------------------------------------------------------------------
\* Builds: no name is declared twice.

OneBody == \A s \in Function : Len(bodies[s]) = IF declared[s] = None THEN 0 ELSE 1

BInv == ClearNames /\ OneUse => OneBody /\ native.why \notin {"invalid", "panic"}

LEMMA FreshNames ==
  ASSUME ProgramOK, CInv, OneBody, NEW new, Definitions(new),
         \A s \in Function : new[s] # None => declared[s] = None
  PROVE  /\ ~Overruns(new)
         /\ \A s \in Function :
              Len(Compiles(new)[s]) = IF Declares(new)[s] = None THEN 0 ELSE 1
  <1>1. \A s \in Function :
              /\ declared[s] # None => Declares(new)[s] = declared[s]
              /\ declared[s] = None => Declares(new)[s] = new[s]
              /\ new[s] = None => Compiles(new)[s] = bodies[s]
              /\ new[s] # None =>
                   Compiles(new)[s] =
                     Append(bodies[s], [of |-> new[s],
                       callee |-> Resolved(TextOf(new[s]).calls, Declares(new))])
    BY CompilesDefinitions
  <1>2. \A s \in Function : new[s] # None => TextOf(new[s]).params \in Nat
    BY DEF Definitions, Text
  <1>3. ~Overruns(new)
    <2> SUFFICES ASSUME NEW s \in Function, new[s] # None
                 PROVE  ~ (TextOf(Declares(new)[s]).params < TextOf(new[s]).params)
      BY DEF Overruns
    <2>1. Declares(new)[s] = new[s]
      BY <1>1
    <2>2. TextOf(new[s]).params \in Nat
      BY <1>2
    <2> QED BY <2>1, <2>2
  <1>4. \A s \in Function :
              Len(Compiles(new)[s]) = IF Declares(new)[s] = None THEN 0 ELSE 1
    <2> TAKE s \in Function
    <2>1. CASE new[s] = None
      BY <2>1, <1>1 DEF OneBody
    <2>2. CASE new[s] # None
      <3>1. declared[s] = None /\ bodies[s] = << >> /\ Declares(new)[s] # None
        BY <2>2, <1>1 DEF CInv
      <3>2. \A b : Len(Append(<< >>, b)) = 1
        OBVIOUS
      <3> QED BY <3>1, <3>2, <2>2, <1>1
    <2> QED BY <2>1, <2>2
  <1> QED BY <1>3, <1>4

LEMMA FreshModule ==
  ASSUME TInv, CInv, ClearNames, OneUse, native.st = "prepare",
         compiled < Len(uses), files[uses[compiled + 1].module] # None,
         NEW s \in Function, ModuleNames(uses[compiled + 1])[s] # None
  PROVE  declared[s] = None
  <1> DEFINE u == uses[compiled + 1]
  <1>1. compiled + 1 \in DOMAIN uses /\ compiled \in Nat
    BY DEF CInv, TInv, ProgramOK
  <1>2. u \in UseSet
    BY <1>1 DEF UseSet
  <1>3. s.name \in Defs(u.module) /\
        (s.module = u.module \/ (s.module = None /\ s.name = u.function))
    BY <1>2, ModuleNamesAreDefinitions DEF TInv
  <1> SUFFICES ASSUME declared[s] # None PROVE FALSE
    OBVIOUS
  <1>4. PICK j \in 1 .. compiled : FromUse(s, uses[j])
    BY DEF CInv, FromProgram
  <1>5. j \in DOMAIN uses /\ j # compiled + 1
    BY <1>1, <1>4 DEF CInv, TInv, ProgramOK
  <1>6. uses[j] \in UseSet /\ uses[j].module # u.module
    BY <1>1, <1>5 DEF OneUse, UseSet
  <1> DEFINE v == uses[j]
  <1>7. /\ files[v.module] # None /\ s.name \in Defs(v.module)
        /\ s.module = v.module \/ (s.module = None /\ s.name = v.function)
    BY <1>4 DEF FromUse
  <1>8. u.module # None /\ v.module # None
    BY <1>2, <1>6, UsesAreUses DEF TInv
  <1>9. s.name # None
    BY NoneAssumption DEF Function
  <1> HIDE DEF u, v
  <1>10. s.module = None /\ s.name = u.function
    BY <1>3, <1>6, <1>7, <1>8 DEF v
  <1>11. u.function \notin Defs(v.module)
    BY <1>2, <1>6, <1>7, <1>9, <1>10 DEF ClearNames, v
  <1> QED BY <1>7, <1>10, <1>11

LEMMA FreshOwn ==
  ASSUME TInv, CInv, ClearNames, native.st = "prepare",
         NEW s \in Function, OwnNames[s] # None
  PROVE  declared[s] = None
  <1>1. s.module = None /\ own[s.name] # None
    BY OwnNamesAreDefinitions DEF TInv
  <1> SUFFICES ASSUME declared[s] # None PROVE FALSE
    OBVIOUS
  <1>2. PICK j \in 1 .. compiled : FromUse(s, uses[j])
    BY DEF CInv, FromProgram
  <1>3. j \in DOMAIN uses
    BY DEF CInv, TInv, ProgramOK
  <1>4. uses[j] \in UseSet
    BY <1>3 DEF UseSet
  <1>5. s.name = uses[j].function /\ s.name # None
    BY <1>1, <1>2, <1>4, UsesAreUses, NoneAssumption DEF FromUse, TInv, Function
  <1> QED BY <1>1, <1>4, <1>5 DEF ClearNames

LEMMA NextBInv == TInv /\ CInv /\ BInv /\ [Next]_vars => BInv'
  <1> SUFFICES ASSUME TInv, CInv, BInv, [Next]_vars, (ClearNames /\ OneUse)'
               PROVE  OneBody' /\ native'.why \notin {"invalid", "panic"}
    BY DEF BInv
  <1>1. UNCHANGED program
    BY DEF Next, LoadModule, StartEval, DefineOwn, EvalReturn, EvalBody, CompileImport,
           Generate, NativeReturn, NativeBody, Statement, vars, program
  <1>2. ClearNames /\ OneUse
    BY <1>1 DEF ClearNames, OneUse, UseSet, Defs, program
  <1>3. OneBody /\ native.why \notin {"invalid", "panic"}
    BY <1>2 DEF BInv
  <1>4. CASE CompileImport
    <2> DEFINE u == uses[compiled + 1]
               new == ModuleNames(u)
    <2>1. native.st = "prepare" /\ compiled < Len(uses)
      BY <1>4 DEF CompileImport, Building
    <2>2. CASE files[u.module] = None
      BY <1>3, <1>4, <2>2 DEF CompileImport, OneBody
    <2>3. CASE files[u.module] # None
      <3>1. /\ declared' = Declares(new) /\ bodies' = Compiles(new)
            /\ native' = IF Overruns(new) THEN Failed("panic") ELSE native
        BY <1>4, <2>3 DEF CompileImport
      <3>2. compiled + 1 \in DOMAIN uses
        BY <2>1 DEF CInv, TInv, ProgramOK
      <3>3. u \in UseSet
        BY <3>2 DEF UseSet
      <3>4. Definitions(new)
        BY <2>3, <3>3, ModuleNamesAreDefinitions DEF TInv
      <3>5. \A s \in Function : new[s] # None => declared[s] = None
        BY <1>2, <2>1, <2>3, FreshModule
      <3> HIDE DEF u, new
      <3>6. ~Overruns(new) /\ OneBody'
        BY <1>3, <3>1, <3>4, <3>5, FreshNames DEF TInv, OneBody
      <3> QED BY <1>3, <3>1, <3>6
    <2> QED BY <2>2, <2>3
  <1>5. CASE Generate
    <2> DEFINE new == OwnNames
    <2>1. native.st = "prepare" /\ declared' = Declares(new) /\ bodies' = Compiles(new)
      BY <1>5 DEF Generate, Building
    <2>2. Definitions(new)
      BY OwnNamesAreDefinitions DEF TInv
    <2>3. \A s \in Function : new[s] # None => declared[s] = None
      BY <1>2, <2>1, FreshOwn
    <2> HIDE DEF new
    <2>4. ~Overruns(new) /\ OneBody'
      BY <1>3, <2>1, <2>2, <2>3, FreshNames DEF TInv, OneBody
    <2>5. ~ \E s \in Function : Len(bodies'[s]) > 1
      BY <2>4 DEF OneBody
    <2>6. native' = Being("rest", None)
      BY <1>5, <2>4, <2>5 DEF Generate, new
    <2> QED BY <2>4, <2>6 DEF Being
  <1>6. CASE ~CompileImport /\ ~Generate
    <2>1. UNCHANGED <<declared, bodies>>
      BY <1>6 DEF Next, LoadModule, StartEval, DefineOwn, EvalReturn, EvalBody,
                  NativeReturn, NativeBody, Statement, codegen, vars
    <2>2. \A k : Jump(k).why \notin {"invalid", "panic"}
      BY DEF Jump, Runs, Being, Failed
    <2>3. native' = native \/ native'.why = "" \/ \E k : native' = Jump(k)
      <3>1. CASE NativeReturn
        BY <3>1 DEF NativeReturn, Being
      <3>2. CASE NativeBody
        BY <3>2 DEF NativeBody
      <3>3. CASE \E c \in StatementCalls : Statement(c)
        BY <3>3 DEF Statement
      <3>4. CASE LoadModule \/ StartEval \/ (\E n \in Names : DefineOwn(n))
                 \/ EvalReturn \/ EvalBody \/ UNCHANGED vars
        BY <3>4 DEF LoadModule, StartEval, DefineOwn, EvalReturn, EvalBody, codegen,
                    vars
      <3> QED BY <1>6, <3>1, <3>2, <3>3, <3>4 DEF Next
    <2> QED BY <1>3, <2>1, <2>2, <2>3 DEF OneBody
  <1> QED BY <1>4, <1>5, <1>6

\* For all modules and programs: with clear names, and each module in one use
\* line, what the compiler makes is a module with one body for each function.
THEOREM BuildsHolds == Spec => []Builds
  <1>1. Init => BInv
    <2> SUFFICES ASSUME Init PROVE OneBody /\ native.why = ""
      BY DEF BInv
    <2>1. \A s \in Function : declared[s] = None /\ bodies[s] = << >>
      BY DEF Init
    <2> QED BY <2>1 DEF Init, OneBody, Being
  <1>2. BInv => Builds
    BY DEF BInv, Builds, OneBody
  <1> QED BY <1>1, <1>2, InitTInv, NextTInv, InitCInv, NextCInv, NextBInv, PTL DEF Spec

-----------------------------------------------------------------------------
\* Where a call leads, as far as the program's text says.

Imported(u, n) ==
  u.function = n /\ files[u.module] # None /\ n \in Defs(u.module)

IsTarget(c, from, h) ==
  /\ h.name = c.name
  /\ IF c.module # None THEN h.module = c.module
     ELSE IF \E u \in UseSet : Imported(u, c.name)
     THEN \E u \in UseSet : Imported(u, c.name) /\ h.module = u.module
     ELSE h.module = from

Leads(g, h) == /\ TextOf(g) \in Text /\ TextOf(g).calls # None
               /\ IsTarget(TextOf(g).calls, g.module, h)

\* Where compiled code goes.
Jumps(g, h) ==
  \E s \in Function : /\ declared[s] = g /\ bodies[s][1].callee # None
                      /\ h = declared[bodies[s][1].callee]

\* g is on the way from x: every set that holds x and what its functions lead
\* to holds g.
Reaches(x, g) ==
  \A S \in SUBSET Function :
    x \in S /\ (\A a \in S, b \in Function : Leads(a, b) => b \in S) => g \in S

Jumped(x, g) ==
  \A S \in SUBSET Function :
    x \in S /\ (\A a \in S, b \in Function : Jumps(a, b) => b \in S) => g \in S

\* A bare name is imported from one module, or defined by the program.
SoleSource ==
  \A n \in Names, u \in UseSet : Imported(u, n) =>
    /\ own[n] = None
    /\ \A v \in UseSet : Imported(v, n) => v.module = u.module

LEMMA LeadsToOne ==
  ASSUME SoleSource, NEW g, NEW h \in Function, NEW k \in Function,
         Leads(g, h), Leads(g, k)
  PROVE  h = k
  <1> DEFINE c == TextOf(g).calls
  <1>1. c \in Call
    BY DEF Leads, Text
  <1>2. c.name \in Names
    BY <1>1 DEF Call
  <1>3. IsTarget(c, g.module, h) /\ IsTarget(c, g.module, k)
    BY DEF Leads
  <1> HIDE DEF c
  <1>4. h.name = k.name /\ h.module = k.module
    BY <1>2, <1>3 DEF IsTarget, SoleSource
  <1> QED BY <1>4, FunctionIsNotNone

LEMMA ReachesOn ==
  ASSUME NEW x, NEW g, NEW h \in Function, Reaches(x, g), Leads(g, h)
  PROVE  Reaches(x, h)
  <1> SUFFICES ASSUME NEW S \in SUBSET Function, x \in S,
                      \A a \in S, b \in Function : Leads(a, b) => b \in S
               PROVE  h \in S
    BY DEF Reaches
  <1>1. g \in S
    BY DEF Reaches
  <1> QED BY <1>1

LEMMA JumpedOn ==
  ASSUME NEW x, NEW g, NEW h \in Function, Jumped(x, g), Jumps(g, h)
  PROVE  Jumped(x, h)
  <1> SUFFICES ASSUME NEW S \in SUBSET Function, x \in S,
                      \A a \in S, b \in Function : Jumps(a, b) => b \in S
               PROVE  h \in S
    BY DEF Jumped
  <1>1. g \in S
    BY DEF Jumped
  <1> QED BY <1>1

\* What leads to g by way of one function leads there from the function before.
LEMMA ReachesBack ==
  ASSUME SoleSource, NEW h \in Function, NEW k \in Function, NEW g,
         Reaches(h, g), h # g, Leads(h, k)
  PROVE  Reaches(k, g)
  <1> SUFFICES ASSUME NEW S \in SUBSET Function, k \in S,
                      \A a \in S, b \in Function : Leads(a, b) => b \in S
               PROVE  g \in S
    BY DEF Reaches
  <1> DEFINE T == S \cup {h}
  <1>1. T \in SUBSET Function /\ h \in T
    OBVIOUS
  <1>2. \A a \in T, b \in Function : Leads(a, b) => b \in T
    BY LeadsToOne
  <1> HIDE DEF T
  <1>3. g \in T
    BY <1>1, <1>2 DEF Reaches
  <1> QED BY <1>3 DEF T

\* Two functions that call nothing, on the way from one, are one.
LEMMA LeafIsOne ==
  ASSUME SoleSource, NEW x \in Function, NEW g \in Function, NEW h \in Function,
         Reaches(x, g), Reaches(x, h), TextOf(g).calls = None, TextOf(h).calls = None
  PROVE  g = h
  <1> DEFINE T == {a \in Function : Reaches(a, g)}
  <1>1. T \in SUBSET Function /\ x \in T
    OBVIOUS
  <1>2. \A a \in T, b \in Function : Leads(a, b) => b \in T
    <2> SUFFICES ASSUME NEW a \in Function, Reaches(a, g), NEW b \in Function, Leads(a, b)
                 PROVE  Reaches(b, g)
      OBVIOUS
    <2>1. a # g
      BY DEF Leads
    <2> QED BY <2>1, ReachesBack
  <1> HIDE DEF T
  <1>3. h \in T
    BY <1>1, <1>2 DEF Reaches
  <1>4. Reaches(h, g)
    BY <1>3 DEF T
  <1>5. \A a \in {h}, b \in Function : Leads(a, b) => b \in {h}
    BY DEF Leads
  <1>6. g \in {h}
    <2>1. {h} \in SUBSET Function /\ h \in {h}
      OBVIOUS
    <2> QED BY <2>1, <1>4, <1>5 DEF Reaches
  <1> QED BY <1>6

\* Compiled code has not passed a function that it cannot leave.
LEMMA StuckIsAhead ==
  ASSUME SoleSource, NEW x \in Function, NEW d \in Function, NEW g \in Function,
         \A a, b \in Function : Jumps(a, b) => Leads(a, b),
         Jumped(x, d), Reaches(x, g), \A b \in Function : ~Jumps(g, b)
  PROVE  Reaches(d, g)
  <1> DEFINE T == {a \in Function : Reaches(a, g)}
  <1>1. T \in SUBSET Function /\ x \in T
    OBVIOUS
  <1>2. \A a \in T, b \in Function : Jumps(a, b) => b \in T
    <2> SUFFICES ASSUME NEW a \in Function, Reaches(a, g), NEW b \in Function, Jumps(a, b)
                 PROVE  Reaches(b, g)
      OBVIOUS
    <2>1. a # g /\ Leads(a, b)
      OBVIOUS
    <2> QED BY <2>1, ReachesBack
  <1> HIDE DEF T
  <1>3. d \in T
    BY <1>1, <1>2 DEF Jumped
  <1> QED BY <1>3 DEF T

LEMMA JumpedIsReached ==
  ASSUME NEW x, NEW g, Jumped(x, g),
         \A a, b \in Function : Jumps(a, b) => Leads(a, b)
  PROVE  Reaches(x, g)
  BY DEF Jumped, Reaches

\* A function of a module that is used and could be read, or of the program.
Readable(m) == m # None => files[m] # None /\ \E v \in UseSet : v.module = m

Here(g) == TextOf(g) \in Text /\ Readable(g.module)

LEMMA DeclaredIsHere ==
  ASSUME TInv, CInv, NEW s \in Function, declared[s] # None
  PROVE  declared[s] \in Function /\ Here(declared[s])
  <1>1. s = Fn(s.module, s.name) /\ s.name \in Names /\ s.module \in Modules \cup {None}
    BY FunctionIsNotNone
  <1>2. declared[s] \in Function
    BY DEF CInv
  <1>3. CASE FromProgram(s)
    <2>1. declared[s] = s /\ s.module = None /\ own[s.name] # None
      BY <1>3 DEF FromProgram
    <2>2. TextOf(s) \in Text
      BY <1>1, <2>1, TextIsText DEF TInv
    <2> QED BY <1>2, <2>1, <2>2 DEF Here, Readable
  <1>4. CASE ~FromProgram(s)
    <2>1. PICK j \in 1 .. compiled : FromUse(s, uses[j])
      BY <1>4 DEF CInv
    <2>2. j \in DOMAIN uses
      BY DEF CInv, TInv, ProgramOK
    <2> DEFINE u == uses[j]
    <2>3. u \in UseSet
      BY <2>2 DEF UseSet
    <2>4. u.module \in Modules /\ u.module # None
      BY <2>3, UsesAreUses DEF TInv
    <2>5. files[u.module] # None /\ s.name \in Defs(u.module)
          /\ declared[s] = Fn(u.module, s.name)
      BY <2>1 DEF FromUse
    <2> HIDE DEF u
    <2>6. TextOf(declared[s]) \in Text
      BY <1>1, <2>4, <2>5, TextIsText DEF TInv
    <2>7. Readable(declared[s].module)
      BY <2>3, <2>5 DEF Readable, Fn
    <2> QED BY <1>2, <2>6, <2>7 DEF Here
  <1> QED BY <1>3, <1>4

LEMMA DeclaredIsTarget ==
  ASSUME TInv, CInv, SoleSource, NEW c \in Call, NEW from,
         declared[Fn(c.module, c.name)] # None,
         from # None => declared[Fn(c.module, c.name)].module # None
  PROVE  IsTarget(c, from, declared[Fn(c.module, c.name)])
  <1> DEFINE k == Fn(c.module, c.name)
  <1>1. k \in Function /\ k.module = c.module /\ k.name = c.name /\ c.name \in Names
    BY FnIsFunction DEF Call
  <1>2. declared[k] # None /\ (from # None => declared[k].module # None)
    OBVIOUS
  <1> HIDE DEF k
  <1>3. CASE FromProgram(k)
    <2>1. declared[k] = k /\ k.module = None /\ own[k.name] # None
      BY <1>3 DEF FromProgram
    <2>2. ~ \E u \in UseSet : Imported(u, c.name)
      BY <1>1, <2>1 DEF SoleSource
    <2> QED BY <1>1, <1>2, <2>1, <2>2 DEF IsTarget, k
  <1>4. CASE ~FromProgram(k)
    <2>1. PICK j \in 1 .. compiled : FromUse(k, uses[j])
      BY <1>1, <1>2, <1>4 DEF CInv
    <2>2. j \in DOMAIN uses
      BY DEF CInv, TInv, ProgramOK
    <2> DEFINE u == uses[j]
    <2>3. u \in UseSet
      BY <2>2 DEF UseSet
    <2>4. u.module # None
      BY <2>3, UsesAreUses DEF TInv
    <2>5. /\ files[u.module] # None /\ k.name \in Defs(u.module)
          /\ declared[k].module = u.module /\ declared[k].name = k.name
          /\ k.module = u.module \/ (k.module = None /\ k.name = u.function)
      BY <2>1 DEF FromUse, Fn
    <2> HIDE DEF u
    <2>6. CASE k.module = u.module
      BY <1>1, <2>4, <2>5, <2>6 DEF IsTarget, k
    <2>7. CASE k.module = None /\ k.name = u.function
      <3>1. Imported(u, c.name)
        BY <1>1, <2>5, <2>7 DEF Imported
      <3> QED BY <1>1, <2>3, <2>5, <2>7, <3>1 DEF IsTarget, k
    <2> QED BY <2>5, <2>6, <2>7
  <1> QED BY <1>3, <1>4

\* The compiled call of a body.
LEMMA CalleeIsDeclared ==
  ASSUME TInv, CInv, NEW s \in Function, declared[s] # None,
         bodies[s][1].callee # None
  PROVE  LET c == TextOf(declared[s]).calls
             k == bodies[s][1].callee
         IN  /\ c \in Call /\ k \in Function /\ k = Fn(c.module, c.name)
             /\ declared[k] # None
             /\ declared[s].module # None => declared[k].module # None
  <1> DEFINE c == TextOf(declared[s]).calls
             k == bodies[s][1].callee
  <1>1. bodies[s] \in Seq(Body) /\ Len(bodies[s]) >= 1 /\ CalleeOK(s)
    BY DEF CInv
  <1>2. 1 \in 1 .. Len(bodies[s])
    BY <1>1
  <1>3. bodies[s][1] \in Body
    BY <1>1, <1>2, ElementOfSeq
  <1>4. TextOf(declared[s]) \in Text
    BY DeclaredIsHere DEF Here
  <1>5. c \in Call \cup {None}
    BY <1>4 DEF Text
  <1> QED BY <1>1, <1>3, <1>5 DEF CalleeOK, Body

LEMMA JumpsLead ==
  ASSUME TInv, CInv, SoleSource, NEW g \in Function, NEW h \in Function, Jumps(g, h)
  PROVE  Leads(g, h)
  <1>1. PICK s \in Function : /\ declared[s] = g /\ bodies[s][1].callee # None
                              /\ h = declared[bodies[s][1].callee]
    BY DEF Jumps
  <1>2. declared[s] # None
    BY <1>1, FunctionIsNotNone
  <1> DEFINE c == TextOf(g).calls
             k == bodies[s][1].callee
  <1>3. /\ c \in Call /\ k = Fn(c.module, c.name) /\ declared[k] # None
        /\ g.module # None => declared[k].module # None
    BY <1>1, <1>2, CalleeIsDeclared
  <1>4. TextOf(g) \in Text
    BY <1>1, <1>2, DeclaredIsHere DEF Here
  <1>5. h = declared[k]
    BY <1>1
  <1> HIDE DEF c, k
  <1>6. IsTarget(c, g.module, h)
    BY <1>3, <1>5, DeclaredIsTarget
  <1>7. c # None
    BY <1>3, NoneAssumption
  <1> QED BY <1>4, <1>6, <1>7 DEF Leads, c

-----------------------------------------------------------------------------
\* What a call of the interpreter comes to.

LEMMA EnvOutcome ==
  ASSUME NEW k, NEW named \in BOOLEAN, NEW args,
         CallFromEnv(k, named, args) # None
  PROVE  /\ TextOf(k) # None
         /\ \/ CallFromEnv(k, named, args) = Runs(k)
            \/ \E why \in {"arity", "private"} : CallFromEnv(k, named, args) = Failed(why)
  BY DEF CallFromEnv

LEMMA CallCases ==
  ASSUME NEW c, NEW from, NEW o \in EvalCalls(c, from)
  PROVE  \/ /\ c.module # None /\ [module |-> c.module, function |-> None] \in envs
            /\ o # None /\ o = CallFromEnv(Fn(c.module, c.name), TRUE, c.args)
         \/ /\ CallUserModule(c) = None /\ o # None
            /\ \E u \in envs : /\ c.module = None /\ u.function = c.name
                               /\ o = CallFromEnv(Fn(u.module, c.name), FALSE, c.args)
         \/ /\ CallUserModule(c) = None /\ None \in CallSpecificImport(c)
            /\ o = CallInScope(c, from)
  <1>1. CASE CallUserModule(c) # None
    <2>1. o = CallUserModule(c)
      BY <1>1 DEF EvalCalls
    <2> QED BY <1>1, <2>1 DEF CallUserModule
  <1>2. CASE CallUserModule(c) = None /\ o \in CallSpecificImport(c) \ {None}
    <2>1. \E u \in SpecificImports(c) : o = CallFromEnv(Fn(u.module, c.name), FALSE, c.args)
      BY <1>2 DEF CallSpecificImport
    <2> QED BY <1>2, <2>1 DEF SpecificImports
  <1>3. CASE CallUserModule(c) = None /\ o \notin CallSpecificImport(c) \ {None}
    BY <1>3 DEF EvalCalls
  <1> QED BY <1>1, <1>2, <1>3

\* How a call enters h.
Enters(c, from, h) ==
  \/ c.module # None /\ h = Fn(c.module, c.name)
  \/ c.module = None /\ \E u \in UseSet : Imported(u, c.name) /\ h = Fn(u.module, c.name)
  \/ /\ c.module = None /\ None \in CallSpecificImport(c) /\ h = Fn(from, c.name)
     /\ IF from = None THEN own[c.name] # None ELSE c.name \in Defs(from)

NotFound(c, from) ==
  CallUserModule(c) = None /\ None \in CallSpecificImport(c) /\ ~InScope(c, from)

OwnDefined == defined \subseteq {n \in Names : own[n] # None}

LEMMA CallOutcome ==
  ASSUME TInv, OwnDefined, NEW c \in Call, NEW from \in Modules \cup {None},
         Readable(from), NEW o \in EvalCalls(c, from)
  PROVE  \/ \E h \in Function : o = Runs(h) /\ Here(h) /\ Enters(c, from, h)
         \/ o = Failed("arity") \/ o = Failed("private")
         \/ o = Undefined(c) /\ NotFound(c, from)
  <1>1. c.name \in Names /\ c.module \in Modules \cup {None}
    BY DEF Call
  <1>2. CASE /\ c.module # None /\ [module |-> c.module, function |-> None] \in envs
             /\ o # None /\ o = CallFromEnv(Fn(c.module, c.name), TRUE, c.args)
    <2> DEFINE h == Fn(c.module, c.name)
               u == [module |-> c.module, function |-> None]
    <2>1. u \in UseSet /\ files[u.module] # None
      BY <1>2 DEF TInv, Loaded
    <2>2. Readable(c.module) /\ files[c.module] # None
      BY <2>1 DEF Readable
    <2>3. h \in Function /\ h.module = c.module
      BY <1>1, FnIsFunction
    <2>4. TextOf(h) \in Text \cup {None}
      BY <1>1, <2>2, TextIsText DEF TInv
    <2> HIDE DEF h
    <2>5. /\ TextOf(h) # None
          /\ o = Runs(h) \/ o = Failed("arity") \/ o = Failed("private")
      BY <1>2, EnvOutcome DEF h
    <2>6. Here(h) /\ Enters(c, from, h)
      BY <1>2, <2>2, <2>3, <2>4, <2>5 DEF Here, Enters, h
    <2> QED BY <2>3, <2>5, <2>6
  <1>3. CASE /\ CallUserModule(c) = None /\ o # None
             /\ \E u \in envs : /\ c.module = None /\ u.function = c.name
                                /\ o = CallFromEnv(Fn(u.module, c.name), FALSE, c.args)
    <2>1. PICK u \in envs : /\ c.module = None /\ u.function = c.name
                            /\ o = CallFromEnv(Fn(u.module, c.name), FALSE, c.args)
      BY <1>3
    <2> DEFINE h == Fn(u.module, c.name)
    <2>2. u \in UseSet /\ files[u.module] # None
      BY DEF TInv, Loaded
    <2>3. u.module \in Modules /\ u.module # None
      BY <2>2, UsesAreUses DEF TInv
    <2>4. Readable(u.module)
      BY <2>2 DEF Readable
    <2>5. h \in Function /\ h.module = u.module
      BY <1>1, <2>3, FnIsFunction
    <2>6. /\ TextOf(h) \in Text \cup {None}
          /\ c.name \in Defs(u.module) <=> TextOf(h) # None
      BY <1>1, <2>2, <2>3, TextIsText DEF TInv
    <2> HIDE DEF h
    <2>7. /\ TextOf(h) # None
          /\ o = Runs(h) \/ o = Failed("arity") \/ o = Failed("private")
      <3>1. o = CallFromEnv(h, FALSE, c.args) /\ o # None
        BY <1>3, <2>1 DEF h
      <3>2. TextOf(h) # None /\ (o = Runs(h) \/
              \E why \in {"arity", "private"} : o = Failed(why))
        BY <3>1, EnvOutcome
      <3> QED BY <3>2
    <2>8. Imported(u, c.name)
      BY <2>1, <2>2, <2>6, <2>7 DEF Imported
    <2>9. Here(h) /\ Enters(c, from, h)
      BY <2>1, <2>2, <2>4, <2>5, <2>6, <2>7, <2>8 DEF Here, Enters, h
    <2> QED BY <2>5, <2>7, <2>9
  <1>4. CASE /\ CallUserModule(c) = None /\ None \in CallSpecificImport(c)
             /\ o = CallInScope(c, from)
    <2> DEFINE h == Fn(from, c.name)
    <2>1. CASE ~InScope(c, from)
      BY <1>4, <2>1 DEF CallInScope, NotFound
    <2>2. CASE InScope(c, from)
      <3>1. h \in Function /\ h.module = from
        BY <1>1, FnIsFunction
      <3>2. TextOf(h) \in Text /\
            (IF from = None THEN own[c.name] # None ELSE c.name \in Defs(from))
        BY <1>1, <2>2, TextIsText DEF InScope, OwnDefined, Readable, TInv
      <3>3. Here(h) /\ Enters(c, from, h)
        BY <1>4, <2>2, <3>1, <3>2 DEF Here, Enters, InScope
      <3>4. o = Runs(h) \/ o = Failed("arity")
        BY <1>4, <2>2 DEF CallInScope
      <3> QED BY <3>1, <3>3, <3>4
    <2> QED BY <2>1, <2>2
  <1> QED BY <1>2, <1>3, <1>4, CallCases

\* All use lines were loaded, and each specific import finds a pub function:
\* then no call gets past it.
LEMMA ImportedIsTaken ==
  ASSUME TInv, UseSet \subseteq envs, ~HiddenImport, NEW c \in Call, c.module = None,
         NEW u \in UseSet, u.function = c.name
  PROVE  None \notin CallSpecificImport(c)
  <1>1. c.name \in Names /\ c.name # None
    BY NoneAssumption DEF Call
  <1>2. SpecificImports(c) # {}
    BY DEF SpecificImports
  <1>3. \A v \in SpecificImports(c) :
          CallFromEnv(Fn(v.module, c.name), FALSE, c.args) # None
    <2> SUFFICES ASSUME NEW v \in SpecificImports(c)
                 PROVE  CallFromEnv(Fn(v.module, c.name), FALSE, c.args) # None
      OBVIOUS
    <2>1. v \in UseSet /\ files[v.module] # None /\ v.function = c.name
      BY DEF SpecificImports, TInv, Loaded
    <2>2. v.module \in Modules /\ v.module # None
      BY <2>1, UsesAreUses DEF TInv
    <2>3. c.name \in Defs(v.module) /\ files[v.module][c.name].pub
      BY <1>1, <2>1 DEF HiddenImport
    <2> DEFINE h == Fn(v.module, c.name)
    <2>4. h \in Function
      BY <1>1, <2>2, FnIsFunction
    <2>5. TextOf(h) # None /\ TextOf(h).pub
      BY <1>1, <2>1, <2>2, <2>3, TextIsText DEF TInv
    <2> HIDE DEF h
    <2>6. Failed("arity") # None
      <3>1. Failed("arity") \in Outcome
        BY DEF Failed, Outcome
      <3> QED BY <3>1, OutcomeAssumption
    <2> QED BY <2>4, <2>5, <2>6, OutcomeIsNotNone DEF CallFromEnv, h
  <1> QED BY <1>2, <1>3 DEF CallSpecificImport

LEMMA EnteredIsTarget ==
  ASSUME TInv, SoleSource, UseSet \subseteq envs, ClearNames \/ ~HiddenImport,
         NEW c \in Call, NEW from \in Modules \cup {None}, Readable(from),
         NEW h \in Function, Enters(c, from, h)
  PROVE  IsTarget(c, from, h)
  <1>1. c.name \in Names /\ c.name # None
    BY NoneAssumption DEF Call
  <1>2. CASE c.module # None
    BY <1>2 DEF Enters, IsTarget, Fn
  <1>3. CASE c.module = None /\ \E u \in UseSet :
               Imported(u, c.name) /\ h = Fn(u.module, c.name)
    BY <1>3 DEF IsTarget, Fn
  <1>4. CASE /\ c.module = None /\ None \in CallSpecificImport(c) /\ h = Fn(from, c.name)
             /\ IF from = None THEN own[c.name] # None ELSE c.name \in Defs(from)
    <2>1. \A u \in UseSet : Imported(u, c.name) => u.module = from
      <3> SUFFICES ASSUME NEW u \in UseSet, Imported(u, c.name) PROVE u.module = from
        OBVIOUS
      <3>1. u.function = c.name
        BY DEF Imported
      <3>2. HiddenImport
        BY <1>4, <3>1, ImportedIsTaken
      <3>3. from # None
        BY <1>1, <1>4 DEF SoleSource
      <3>4. PICK v \in UseSet : v.module = from /\ files[v.module] # None
        BY <3>3 DEF Readable
      <3> QED BY <1>1, <1>4, <3>1, <3>2, <3>3, <3>4 DEF ClearNames
    <2>2. h.name = c.name /\ h.module = from
      BY <1>4 DEF Fn
    <2> QED BY <1>4, <2>1, <2>2 DEF IsTarget
  <1> QED BY <1>2, <1>3, <1>4 DEF Enters

\* The three cases in which compiled code finds g and the interpreter does not.
Excused(g) == HiddenImport \/ EarlyCall(g) \/ BorrowedModule(g)

\* What compiled code finds and the interpreter does not.
LEMMA NotFoundCases ==
  ASSUME TInv, CInv, UseSet \subseteq envs,
         NEW c \in Call, NEW from \in Modules \cup {None}, Readable(from),
         NotFound(c, from), declared[Fn(c.module, c.name)] # None,
         from # None => declared[Fn(c.module, c.name)].module # None,
         from = None /\ c.module # None =>
           [module |-> c.module, function |-> None] \in UseSet,
         from # None => \E n \in Defs(from) : files[from][n].calls = c
  PROVE  Excused(Fn(c.module, c.name))
  <1> DEFINE k == Fn(c.module, c.name)
  <1>1. k \in Function /\ k.module = c.module /\ k.name = c.name /\ c.name \in Names
    BY FnIsFunction DEF Call
  <1>2. declared[k] # None /\ (from # None => declared[k].module # None)
    OBVIOUS
  <1>3. CASE FromProgram(k)
    <2> HIDE DEF k
    <2>1. declared[k] = k /\ k.module = None /\ own[k.name] # None
      BY <1>3 DEF FromProgram
    <2>2. from = None /\ c.name \notin defined
      BY <1>1, <1>2, <2>1 DEF NotFound, InScope
    <2> QED BY <1>1, <2>1, <2>2 DEF EarlyCall, Excused, k
  <1>4. CASE ~FromProgram(k)
    <2>1. PICK j \in 1 .. compiled : FromUse(k, uses[j])
      BY <1>1, <1>2, <1>4 DEF CInv
    <2>2. j \in DOMAIN uses
      BY DEF CInv, TInv, ProgramOK
    <2> DEFINE u == uses[j]
    <2>3. u \in UseSet
      BY <2>2 DEF UseSet
    <2>4. u.module \in Modules /\ u.module # None
      BY <2>3, UsesAreUses DEF TInv
    <2>5. /\ files[u.module] # None /\ k.name \in Defs(u.module)
          /\ k.module = u.module \/ (k.module = None /\ k.name = u.function)
      BY <2>1 DEF FromUse
    <2> HIDE DEF u
    <2>6. CASE k.module = u.module
      <3> DEFINE w == [module |-> c.module, function |-> None]
      <3>1. c.module = u.module /\ c.module # None
        BY <1>1, <2>4, <2>6
      <3>2. TextOf(k) # None
        BY <1>1, <2>4, <2>5, <3>1, TextIsText DEF TInv
      <3> HIDE DEF k
      <3>3. k = Fn(c.module, c.name)
        BY DEF k
      <3>4. CallFromEnv(k, TRUE, c.args) # None
        <4>1. Failed("arity") \in Outcome /\ Failed("private") \in Outcome
          BY DEF Failed, Outcome
        <4>2. Failed("arity") # None /\ Failed("private") # None
          BY <4>1, OutcomeAssumption
        <4> QED BY <1>1, <3>2, <4>2, OutcomeIsNotNone DEF CallFromEnv
      <3>5. w \notin envs
        BY <3>1, <3>3, <3>4 DEF NotFound, CallUserModule
      <3>6. w \notin UseSet
        BY <3>5
      <3> QED BY <1>1, <3>1, <3>3, <3>6 DEF BorrowedModule, Excused
    <2>7. CASE k.module = None /\ k.name = u.function
      <3>1. c.module = None /\ u.function = c.name
        BY <1>1, <2>7
      <3>2. None \in CallSpecificImport(c)
        BY DEF NotFound
      <3>3. HiddenImport
        BY <2>3, <3>1, <3>2, ImportedIsTaken
      <3> QED BY <3>3 DEF Excused
    <2> QED BY <2>5, <2>6, <2>7
  <1> QED BY <1>3, <1>4

-----------------------------------------------------------------------------
\* Everything that was to be declared under a bare name has a body there.  A
\* program that builds has one for each name.

HasBody(n, g) ==
  \E i \in DOMAIN bodies[Fn(None, n)] : bodies[Fn(None, n)][i].of = g

Up == native.st \in {"rest", "run", "value"}

DInv ==
  /\ \A j \in 1 .. compiled, n \in Names :
       Imported(uses[j], n) => HasBody(n, Fn(uses[j].module, n))
  /\ Up => /\ compiled = Len(uses)
           /\ \A n \in Names : own[n] # None => HasBody(n, Fn(None, n))
           /\ \A s \in Function : Len(bodies[s]) <= 1

LEMMA OneBodyIsSole ==
  ASSUME CInv, DInv, Up, NEW n \in Names, NEW g, NEW h, HasBody(n, g), HasBody(n, h)
  PROVE  g = h
  <1> DEFINE s == Fn(None, n)
  <1>1. s \in Function
    BY FnIsFunction
  <1>2. bodies[s] \in Seq(Body) /\ Len(bodies[s]) <= 1
    BY <1>1 DEF CInv, DInv
  <1>3. DOMAIN bodies[s] \subseteq {1}
    BY <1>2
  <1> QED BY <1>3 DEF HasBody

LEMMA UpIsSole ==
  ASSUME TInv, CInv, DInv, Up
  PROVE  SoleSource
  <1> SUFFICES ASSUME NEW n \in Names, NEW u \in UseSet, Imported(u, n)
               PROVE  /\ own[n] = None
                      /\ \A v \in UseSet : Imported(v, n) => v.module = u.module
    BY DEF SoleSource
  <1>1. \A v \in UseSet : Imported(v, n) => HasBody(n, Fn(v.module, n))
    <2> SUFFICES ASSUME NEW v \in UseSet, Imported(v, n) PROVE HasBody(n, Fn(v.module, n))
      OBVIOUS
    <2>1. PICK j \in DOMAIN uses : v = uses[j]
      BY DEF UseSet
    <2>2. j \in 1 .. compiled
      BY DEF DInv, TInv, ProgramOK
    <2> QED BY <2>1, <2>2 DEF DInv
  <1>2. own[n] = None
    <2> SUFFICES ASSUME own[n] # None PROVE FALSE
      OBVIOUS
    <2>1. HasBody(n, Fn(None, n))
      BY DEF DInv
    <2>2. Fn(None, n) = Fn(u.module, n)
      BY <1>1, <2>1, OneBodyIsSole
    <2> QED BY <2>2, UsesAreUses DEF TInv, Fn
  <1>3. \A v \in UseSet : Imported(v, n) => v.module = u.module
    <2> SUFFICES ASSUME NEW v \in UseSet, Imported(v, n) PROVE v.module = u.module
      OBVIOUS
    <2>1. Fn(v.module, n) = Fn(u.module, n)
      BY <1>1, OneBodyIsSole
    <2> QED BY <2>1 DEF Fn
  <1> QED BY <1>2, <1>3

LEMMA ProgramStays == [Next]_vars => UNCHANGED program
  BY DEF Next, LoadModule, StartEval, DefineOwn, EvalReturn, EvalBody, CompileImport,
         Generate, NativeReturn, NativeBody, Statement, vars, program

\* What depends on the program's text alone stays.
LEMMA TextStays ==
  ASSUME UNCHANGED program
  PROVE  /\ UseSet' = UseSet
         /\ \A g : TextOf(g)' = TextOf(g) /\ (Here(g)' <=> Here(g))
         /\ \A m : Defs(m)' = Defs(m)
         /\ \A u, n : Imported(u, n)' <=> Imported(u, n)
         /\ \A g, h : Leads(g, h)' <=> Leads(g, h)
         /\ \A g, h : Reaches(g, h)' <=> Reaches(g, h)
         /\ ClearNames' <=> ClearNames
         /\ HiddenImport' <=> HiddenImport
  <1>1. UseSet' = UseSet /\ (\A g : TextOf(g)' = TextOf(g)) /\ (\A m : Defs(m)' = Defs(m))
        /\ files' = files /\ own' = own
    BY DEF UseSet, TextOf, Defs, program
  <1>2. \A g : Here(g)' <=> Here(g)
    BY <1>1 DEF Here, Readable
  <1>3. \A u, n : Imported(u, n)' <=> Imported(u, n)
    BY <1>1 DEF Imported
  <1>4. \A g, h : Leads(g, h)' <=> Leads(g, h)
    BY <1>1, <1>3 DEF Leads, IsTarget
  <1>5. \A g, h : Reaches(g, h)' <=> Reaches(g, h)
    BY <1>4 DEF Reaches
  <1>6. ClearNames' <=> ClearNames
    BY <1>1 DEF ClearNames
  <1>7. HiddenImport' <=> HiddenImport
    BY <1>1 DEF HiddenImport
  <1> QED BY <1>1, <1>2, <1>3, <1>4, <1>5, <1>6, <1>7

\* A compiler step keeps the bodies there are and adds those of its definitions.
LEMMA BodiesStay ==
  ASSUME TInv, CInv, NEW new, Definitions(new), bodies' = Compiles(new), NEW n \in Names
  PROVE  /\ \A g : HasBody(n, g) => HasBody(n, g)'
         /\ new[Fn(None, n)] # None => HasBody(n, new[Fn(None, n)])'
  <1> DEFINE s == Fn(None, n)
             b == [of |-> new[s],
                   callee |-> Resolved(TextOf(new[s]).calls, Declares(new))]
  <1>1. s \in Function /\ bodies[s] \in Seq(Body)
    BY FnIsFunction DEF CInv
  <1>2. /\ new[s] = None => bodies'[s] = bodies[s]
        /\ new[s] # None => bodies'[s] = Append(bodies[s], b)
    BY <1>1, CompilesDefinitions DEF TInv
  <1>3. CASE new[s] = None
    BY <1>2, <1>3 DEF HasBody
  <1>4. CASE new[s] # None
    <2>1. b.of = new[s]
      OBVIOUS
    <2> HIDE DEF s, b
    <2>2. bodies'[s] = Append(bodies[s], b)
      BY <1>2, <1>4
    <2>3. /\ DOMAIN bodies'[s] = 1 .. Len(bodies[s]) + 1
          /\ \A i \in DOMAIN bodies[s] : bodies'[s][i] = bodies[s][i]
          /\ bodies'[s][Len(bodies[s]) + 1] = b
          /\ DOMAIN bodies[s] = 1 .. Len(bodies[s]) /\ Len(bodies[s]) \in Nat
      BY <1>1, <2>2
    <2>4. \A g : HasBody(n, g) => HasBody(n, g)'
      BY <2>3 DEF HasBody, s
    <2>5. HasBody(n, new[s])'
      BY <2>1, <2>3 DEF HasBody, s
    <2> QED BY <2>4, <2>5 DEF s
  <1> QED BY <1>3, <1>4

LEMMA InitDInv == Init => DInv
  <1> SUFFICES ASSUME Init PROVE DInv
    OBVIOUS
  <1>1. ~Up /\ compiled = 0
    BY DEF Init, Up, Being
  <1> QED BY <1>1 DEF DInv

LEMMA CompileImportDInv ==
  ASSUME TInv, CInv, DInv, CompileImport
  PROVE  DInv'
  <1> DEFINE u == uses[compiled + 1]
             new == ModuleNames(u)
  <1>1. /\ native.st = "prepare" /\ compiled < Len(uses) /\ compiled' = compiled + 1
        /\ UNCHANGED program
    BY DEF CompileImport, Building
  <1>2. compiled \in Nat /\ compiled + 1 \in DOMAIN uses /\ uses' = uses
    BY <1>1 DEF CInv, TInv, ProgramOK, program
  <1>3. u \in UseSet
    BY <1>2 DEF UseSet
  <1>4. ~Up'
    BY <1>1 DEF CompileImport, Up, Failed
  <1>5. \A v, n : Imported(v, n)' <=> Imported(v, n)
    BY <1>1, TextStays
  <1>6. CASE files[u.module] = None
    <2>1. UNCHANGED bodies
      BY <1>6 DEF CompileImport
    <2>2. \A n : ~Imported(u, n)
      BY <1>6 DEF Imported
    <2> HIDE DEF u
    <2>3. ASSUME NEW j \in 1 .. compiled', NEW n \in Names, Imported(uses[j], n)
          PROVE  HasBody(n, Fn(uses[j].module, n))'
      <3>1. j # compiled + 1
        BY <2>2, <2>3 DEF u
      <3>2. j \in 1 .. compiled
        BY <1>1, <1>2, <3>1
      <3>3. HasBody(n, Fn(uses[j].module, n))
        BY <2>3, <3>2 DEF DInv
      <3> QED BY <1>2, <2>1, <3>3 DEF HasBody
    <2> QED BY <1>2, <1>4, <1>5, <2>3 DEF DInv
  <1>7. CASE files[u.module] # None
    <2>1. bodies' = Compiles(new) /\ Definitions(new)
      BY <1>3, <1>7, ModuleNamesAreDefinitions DEF CompileImport, TInv
    <2>2. \A n \in Names : Imported(u, n) => new[Fn(None, n)] = Fn(u.module, n)
      BY <1>7, FnIsFunction DEF ModuleNames, Imported
    <2>3. \A n \in Names : Fn(u.module, n) # None
      BY <1>3, UsesAreUses, FnIsFunction, FunctionIsNotNone DEF TInv
    <2> HIDE DEF u, new
    <2>4. ASSUME NEW j \in 1 .. compiled', NEW n \in Names, Imported(uses[j], n)
          PROVE  HasBody(n, Fn(uses[j].module, n))'
      <3>1. CASE j = compiled + 1
        BY <2>1, <2>2, <2>3, <2>4, <3>1, <1>2, BodiesStay DEF u
      <3>2. CASE j # compiled + 1
        <4>1. j \in 1 .. compiled
          BY <1>1, <1>2, <3>2
        <4>2. HasBody(n, Fn(uses[j].module, n))
          BY <2>4, <4>1 DEF DInv
        <4> DEFINE g == Fn(uses[j].module, n)
        <4>3. g' = g
          BY <1>2 DEF Fn
        <4> HIDE DEF g
        <4>4. HasBody(n, g)'
          <5>1. HasBody(n, g)
            BY <4>2 DEF g
          <5> QED BY <2>1, <4>3, <5>1, BodiesStay DEF HasBody
        <4> QED BY <4>4 DEF g
      <3> QED BY <3>1, <3>2
    <2> QED BY <1>2, <1>4, <1>5, <2>4 DEF DInv
  <1> QED BY <1>6, <1>7

LEMMA GenerateDInv ==
  ASSUME TInv, CInv, DInv, Generate
  PROVE  DInv'
  <1> DEFINE new == OwnNames
  <1>1. /\ compiled = Len(uses) /\ bodies' = Compiles(new)
        /\ UNCHANGED <<program, compiled>>
    BY DEF Generate
  <1>2. Definitions(new)
    BY OwnNamesAreDefinitions DEF TInv
  <1>3. \A n \in Names : own[n] # None => new[Fn(None, n)] = Fn(None, n)
    BY FnIsFunction DEF OwnNames
  <1>4. \A n \in Names : Fn(None, n) # None
    BY FnIsFunction, FunctionIsNotNone
  <1> HIDE DEF new
  <1>5. uses' = uses /\ own' = own /\ compiled' = compiled
    BY <1>1 DEF program
  <1>6. \A v, n : Imported(v, n)' <=> Imported(v, n)
    BY <1>1, TextStays
  <1>7. ASSUME NEW j \in 1 .. compiled', NEW n \in Names, Imported(uses[j], n)
        PROVE  HasBody(n, Fn(uses[j].module, n))'
    <2> DEFINE g == Fn(uses[j].module, n)
    <2>1. g' = g
      BY <1>5 DEF Fn
    <2>2. HasBody(n, g)
      BY <1>5, <1>7 DEF DInv
    <2> HIDE DEF g
    <2>3. HasBody(n, g)'
      BY <1>1, <1>2, <2>1, <2>2, BodiesStay DEF HasBody
    <2> QED BY <2>3 DEF g
  <1>8. \A n \in Names : own[n] # None => HasBody(n, Fn(None, n))'
    BY <1>1, <1>2, <1>3, <1>4, BodiesStay
  <1>9. Up' => \A s \in Function : Len(bodies'[s]) <= 1
    <2> SUFFICES ASSUME Up', NEW s \in Function PROVE Len(bodies'[s]) <= 1
      OBVIOUS
    <2>1. ~ \E k \in Function : Len(bodies'[k]) > 1
      BY DEF Generate, Up, Failed
    <2>2. Len(bodies'[s]) \in Nat
      BY GenerateCInv DEF CInv
    <2> QED BY <2>1, <2>2
  <1> QED BY <1>1, <1>5, <1>6, <1>7, <1>8, <1>9 DEF DInv

\* Once it runs, the compiled program stays as it is.
LEMMA OthersKeepCode ==
  ASSUME [Next]_vars, ~CompileImport, ~Generate
  PROVE  UNCHANGED <<program, declared, bodies, compiled>> /\ (Up' => Up)
  <1>1. UNCHANGED <<program, declared, bodies, compiled>>
    BY DEF Next, LoadModule, StartEval, DefineOwn, EvalReturn, EvalBody,
           NativeReturn, NativeBody, Statement, codegen, vars, program
  <1>2. CASE NativeReturn
    BY <1>1, <1>2 DEF NativeReturn, Up
  <1>3. CASE NativeBody
    BY <1>1, <1>3 DEF NativeBody, Up
  <1>4. CASE \E c \in StatementCalls : Statement(c)
    BY <1>1, <1>4 DEF Statement, Up
  <1>5. CASE LoadModule \/ StartEval \/ (\E n \in Names : DefineOwn(n))
                 \/ EvalReturn \/ EvalBody \/ UNCHANGED vars
    BY <1>1, <1>5 DEF LoadModule, StartEval, DefineOwn, EvalReturn, EvalBody, codegen,
                      vars, Up
  <1> QED BY <1>2, <1>3, <1>4, <1>5 DEF Next

LEMMA NextDInv == TInv /\ CInv /\ DInv /\ [Next]_vars => DInv'
  <1> SUFFICES ASSUME TInv, CInv, DInv, [Next]_vars PROVE DInv'
    OBVIOUS
  <1>1. CASE CompileImport
    BY <1>1, CompileImportDInv
  <1>2. CASE Generate
    BY <1>2, GenerateDInv
  <1>3. CASE ~CompileImport /\ ~Generate
    <2>1. UNCHANGED <<program, declared, bodies, compiled>> /\ (Up' => Up)
      BY <1>3, OthersKeepCode
    <2>2. \A u, n : Imported(u, n)' <=> Imported(u, n)
      BY <2>1, TextStays
    <2>3. \A n, g : HasBody(n, g)' <=> HasBody(n, g)
      BY <2>1 DEF HasBody
    <2> QED BY <2>1, <2>2, <2>3 DEF DInv, program
  <1> QED BY <1>1, <1>2, <1>3

-----------------------------------------------------------------------------
\* What the engines are in.

Running == {"run", "value"}

JInv ==
  /\ OwnDefined
  /\ interp.st \in {"rest", "run", "value"} => UseSet \subseteq envs
  /\ interp.st \in Running => interp.fn \in Function /\ Here(interp.fn)
  /\ interp.st = "value" => TextOf(interp.fn).calls = None
  /\ interp.why = "undefined" => interp.st = "error"
  /\ native.st \in Running => native.fn \in Function /\ declared[native.fn] # None
  /\ native.st = "value" => TextOf(declared[native.fn]).calls = None

LEMMA InitJInv == Init => JInv
  <1> SUFFICES ASSUME Init PROVE JInv
    OBVIOUS
  <1>1. interp.st = "prepare" /\ interp.why = "" /\ native.st = "prepare" /\ defined = {}
    BY DEF Init, Being
  <1> QED BY <1>1 DEF JInv, OwnDefined, Running

\* The call in the body the interpreter is in, and in a statement.
LEMMA BodyCall ==
  ASSUME TInv, JInv, EvalBody
  PROVE  LET c == TextOf(interp.fn).calls
             from == interp.fn.module
         IN  /\ c \in Call /\ from \in Modules \cup {None} /\ Readable(from)
             /\ UseSet \subseteq envs /\ interp' \in EvalCalls(c, from)
             /\ interp.fn \in Function /\ TextOf(interp.fn) \in Text
             /\ from # None => \E n \in Defs(from) : files[from][n].calls = c
  <1> DEFINE c == TextOf(interp.fn).calls
             from == interp.fn.module
             n == interp.fn.name
  <1>1. /\ interp.fn \in Function /\ TextOf(interp.fn) \in Text /\ Readable(from)
        /\ UseSet \subseteq envs
    BY DEF JInv, EvalBody, Running, Here
  <1>2. c \in Call
    BY <1>1 DEF EvalBody, Text
  <1>3. interp.fn = Fn(from, n) /\ n \in Names /\ from \in Modules \cup {None}
    BY <1>1, FunctionIsNotNone
  <1>4. from # None => n \in Defs(from) /\ files[from][n].calls = c
    BY <1>1, <1>3, TextIsText, NoneAssumption DEF Readable, TInv
  <1>5. interp' \in EvalCalls(c, from)
    BY DEF EvalBody
  <1> QED BY <1>1, <1>2, <1>3, <1>4, <1>5

LEMMA StatementCall ==
  ASSUME NEW c \in StatementCalls
  PROVE  c \in Call /\ Readable(None)
  BY BoundsAssumption DEF StatementCalls, Call, Readable

\* What a call leaves the interpreter in.
LEMMA AfterCall ==
  ASSUME TInv, OwnDefined, NEW c \in Call, NEW from \in Modules \cup {None},
         Readable(from), NEW o \in EvalCalls(c, from)
  PROVE  \/ /\ o.st = "run" /\ o.why = "" /\ o.fn \in Function /\ Here(o.fn)
            /\ Enters(c, from, o.fn)
         \/ /\ o.st = "error"
            /\ o.why = "undefined" =>
                 NotFound(c, from) /\ o.fn = Fn(c.module, c.name)
  <1>1. CASE \E h \in Function : o = Runs(h) /\ Here(h) /\ Enters(c, from, h)
    <2>1. PICK h \in Function : o = Runs(h) /\ Here(h) /\ Enters(c, from, h)
      BY <1>1
    <2>2. o.st = "run" /\ o.why = "" /\ o.fn = h
      BY <2>1 DEF Runs, Being
    <2> QED BY <2>1, <2>2
  <1>2. CASE o = Failed("arity") \/ o = Failed("private")
    <2>1. o.st = "error" /\ o.why # "undefined"
      BY <1>2 DEF Failed
    <2> QED BY <2>1
  <1>3. CASE o = Undefined(c) /\ NotFound(c, from)
    <2>1. o.st = "error" /\ NotFound(c, from) /\ o.fn = Fn(c.module, c.name)
      BY <1>3 DEF Undefined
    <2> QED BY <2>1
  <1> QED BY <1>1, <1>2, <1>3, CallOutcome

\* What JInv says of each engine.
InterpJ ==
  /\ OwnDefined
  /\ interp.st \in {"rest", "run", "value"} => UseSet \subseteq envs
  /\ interp.st \in Running => interp.fn \in Function /\ Here(interp.fn)
  /\ interp.st = "value" => TextOf(interp.fn).calls = None
  /\ interp.why = "undefined" => interp.st = "error"

NativeJ ==
  /\ native.st \in Running => native.fn \in Function /\ declared[native.fn] # None
  /\ native.st = "value" => TextOf(declared[native.fn]).calls = None

LEMMA NextInterpJ == TInv /\ JInv /\ [Next]_vars => InterpJ'
  <1> SUFFICES ASSUME TInv, JInv, [Next]_vars PROVE InterpJ'
    OBVIOUS
  <1>1. UNCHANGED program
    BY ProgramStays
  <1>2. UseSet' = UseSet /\ \A g : TextOf(g)' = TextOf(g) /\ (Here(g)' <=> Here(g))
    BY <1>1, TextStays
  <1>3. own' = own
    BY <1>1 DEF program
  <1>4. InterpJ
    BY DEF JInv, InterpJ
  <1>5. CASE UNCHANGED evaluator
    BY <1>2, <1>3, <1>4, <1>5 DEF InterpJ, OwnDefined, evaluator
  <1>6. CASE LoadModule
    <2>1. UNCHANGED defined /\ interp.st = "prepare"
          /\ (interp' = interp \/ interp' = Failed("module"))
      BY <1>6 DEF LoadModule
    <2>2. interp'.st \in {"prepare", "error"} /\ interp'.why # "undefined"
      BY <2>1, <1>4 DEF InterpJ, Failed
    <2> QED BY <1>3, <1>4, <2>1, <2>2 DEF InterpJ, OwnDefined, Running
  <1>7. CASE StartEval
    <2>1. UNCHANGED <<envs, defined>> /\ UseSet \subseteq envs
          /\ interp'.st = "rest" /\ interp'.why = ""
      BY <1>7 DEF StartEval, Being
    <2> QED BY <1>2, <1>3, <1>4, <2>1 DEF InterpJ, OwnDefined, Running
  <1>8. ASSUME NEW n \in Names, DefineOwn(n)
        PROVE  InterpJ'
    BY <1>2, <1>3, <1>4, <1>8 DEF DefineOwn, InterpJ, OwnDefined
  <1>9. CASE EvalReturn
    <2>1. UNCHANGED <<envs, defined>> /\ interp.st = "run"
          /\ TextOf(interp.fn).calls = None
          /\ interp'.st = "value" /\ interp'.why = "" /\ interp'.fn = interp.fn
      BY <1>9 DEF EvalReturn, Being
    <2>2. UseSet \subseteq envs /\ interp.fn \in Function /\ Here(interp.fn)
      BY <1>4, <2>1 DEF InterpJ, Running
    <2>3. TextOf(interp.fn)' = TextOf(interp.fn)
      BY <1>2, <2>1 DEF TextOf
    <2>4. Here(interp.fn)'
      BY <1>2, <2>1, <2>2 DEF Here
    <2> QED BY <1>2, <1>3, <1>4, <2>1, <2>2, <2>3, <2>4 DEF InterpJ, OwnDefined, Running
  <1>10. ASSUME NEW c \in Call, NEW from \in Modules \cup {None}, Readable(from),
                UseSet \subseteq envs, interp' \in EvalCalls(c, from),
                UNCHANGED <<envs, defined>>
         PROVE  InterpJ'
    <2>1. \/ /\ interp'.st = "run" /\ interp'.why = "" /\ interp'.fn \in Function
             /\ Here(interp'.fn)
          \/ interp'.st = "error"
      BY <1>4, <1>10, AfterCall DEF InterpJ
    <2>2. ASSUME Here(interp'.fn)
          PROVE  Here(interp.fn)'
      BY <1>2, <2>2
    <2> QED BY <1>2, <1>3, <1>4, <1>10, <2>1, <2>2 DEF InterpJ, OwnDefined, Running
  <1>11. CASE EvalBody
    <2>1. UNCHANGED <<envs, defined>>
      BY <1>11 DEF EvalBody
    <2> QED BY <1>10, <1>11, <2>1, BodyCall
  <1>12. ASSUME NEW c \in StatementCalls, Statement(c), ~UNCHANGED evaluator
         PROVE  InterpJ'
    <2>1. UNCHANGED <<envs, defined>> /\ interp.st # "error"
          /\ interp' \in EvalCalls(c, None)
      BY <1>12 DEF Statement, evaluator
    <2>2. UseSet \subseteq envs
      BY <1>4, <1>12, <2>1 DEF InterpJ, Statement
    <2> QED BY <1>10, <2>1, <2>2, StatementCall
  <1>13. CASE CompileImport \/ Generate \/ NativeReturn \/ NativeBody \/ UNCHANGED vars
    BY <1>5, <1>13 DEF CompileImport, Generate, NativeReturn, NativeBody, evaluator, vars
  <1> QED BY <1>5, <1>6, <1>7, <1>8, <1>9, <1>11, <1>12, <1>13 DEF Next

LEMMA AfterJump ==
  ASSUME NEW k
  PROVE  \/ k = None /\ Jump(k).st = "error"
         \/ k # None /\ Jump(k).st = "run" /\ Jump(k).fn = k
  BY DEF Jump, Runs, Being, Failed

\* Where the compiled program is after a jump.
LEMMA BodyJump ==
  ASSUME TInv, CInv, NativeJ, NativeBody
  PROVE  LET k == bodies[native.fn][1].callee
         IN  /\ native' = Jump(k) /\ native.fn \in Function /\ declared[native.fn] # None
             /\ k # None => k \in Function /\ declared[k] \in Function
                            /\ Jumps(declared[native.fn], declared[k])
  <1> DEFINE k == bodies[native.fn][1].callee
  <1>1. native.fn \in Function /\ declared[native.fn] # None /\ native' = Jump(k)
    BY DEF NativeBody, NativeJ, Running
  <1>2. CASE k # None
    <2>1. k \in Function /\ declared[k] # None
      BY <1>1, <1>2, CalleeIsDeclared
    <2>2. declared[k] \in Function
      BY <2>1, DeclaredIsHere
    <2>3. Jumps(declared[native.fn], declared[k])
      BY <1>1, <1>2 DEF Jumps
    <2> QED BY <1>1, <2>1, <2>2, <2>3
  <1> QED BY <1>1, <1>2

LEMMA StatementJump ==
  ASSUME TInv, CInv, NEW c \in StatementCalls, Statement(c), native.st # "error"
  PROVE  LET k == Resolved(c, declared)
         IN  /\ native' = Jump(k)
             /\ k # None => /\ k \in Function /\ k = Fn(c.module, c.name)
                            /\ declared[k] # None /\ declared[k] \in Function
  <1> DEFINE k == Resolved(c, declared)
  <1>1. native' = Jump(k)
    BY DEF Statement
  <1>2. c \in Call
    BY StatementCall
  <1>3. k \in Function \cup {None} /\
        (k # None => k = Fn(c.module, c.name) /\ declared[k] # None)
    BY <1>2, ResolvedIsDeclared DEF CInv
  <1>4. k # None => declared[k] \in Function
    BY <1>3, DeclaredIsHere
  <1> QED BY <1>1, <1>3, <1>4

LEMMA NextNativeJ == TInv /\ CInv /\ JInv /\ [Next]_vars => NativeJ'
  <1> SUFFICES ASSUME TInv, CInv, JInv, [Next]_vars PROVE NativeJ'
    OBVIOUS
  <1>1. UNCHANGED program
    BY ProgramStays
  <1>2. \A g : TextOf(g)' = TextOf(g)
    BY <1>1, TextStays
  <1>3. NativeJ
    BY DEF JInv, NativeJ
  <1>4. CASE UNCHANGED <<declared, native>>
    BY <1>2, <1>3, <1>4 DEF NativeJ
  <1>5. CASE CompileImport \/ Generate
    <2>1. native'.st \notin Running
      <3>1. CASE CompileImport
        <4>1. native.st = "prepare" /\ (native' = native \/ native' = Failed("panic"))
          BY <3>1 DEF CompileImport, Building
        <4> QED BY <4>1 DEF Failed, Running
      <3>2. CASE Generate
        <4>1. \/ native' = Failed("panic") \/ native' = Failed("invalid")
              \/ native' = Being("rest", None)
          BY <3>2 DEF Generate
        <4>2. /\ Failed("panic").st = "error" /\ Failed("invalid").st = "error"
              /\ Being("rest", None).st = "rest"
          BY DEF Failed, Being
        <4> QED BY <4>1, <4>2 DEF Running
      <3> QED BY <1>5, <3>1, <3>2
    <2> QED BY <2>1 DEF NativeJ, Running
  <1>6. CASE NativeReturn
    <2>1. UNCHANGED declared /\ native.st = "run" /\ native'.st = "value"
          /\ native'.fn = native.fn /\ TextOf(bodies[native.fn][1].of).calls = None
      BY <1>6 DEF NativeReturn, Being
    <2>2. native.fn \in Function /\ declared[native.fn] # None
      BY <1>3, <2>1 DEF NativeJ, Running
    <2>3. bodies[native.fn][1].of = declared[native.fn]
      BY <2>2 DEF CInv
    <2>4. TextOf(declared[native.fn])' = TextOf(declared[native.fn])
      BY <1>2, <2>1 DEF TextOf
    <2> QED BY <2>1, <2>2, <2>3, <2>4 DEF NativeJ
  <1>7. CASE NativeBody
    <2>1. UNCHANGED declared
      BY <1>7 DEF NativeBody
    <2> DEFINE k == bodies[native.fn][1].callee
    <2>2. native' = Jump(k) /\ (k # None => k \in Function)
      BY <1>3, <1>7, BodyJump
    <2>3. k # None => declared[k] # None
      BY <1>3, <1>7, BodyJump, FunctionIsNotNone
    <2> HIDE DEF k
    <2> QED BY <2>1, <2>2, <2>3, AfterJump DEF NativeJ, Running
  <1>8. ASSUME NEW c \in StatementCalls, Statement(c)
        PROVE  NativeJ'
    <2>1. UNCHANGED declared
      BY <1>8 DEF Statement
    <2>2. CASE native.st = "error"
      BY <1>4, <1>8, <2>1, <2>2 DEF Statement
    <2>3. CASE native.st # "error"
      <3> DEFINE k == Resolved(c, declared)
      <3>1. native' = Jump(k) /\ (k # None => k \in Function /\ declared[k] # None)
        BY <1>8, <2>3, StatementJump
      <3> HIDE DEF k
      <3> QED BY <2>1, <3>1, AfterJump DEF NativeJ, Running
    <2> QED BY <2>2, <2>3
  <1>9. CASE LoadModule \/ StartEval \/ (\E n \in Names : DefineOwn(n))
                 \/ EvalReturn \/ EvalBody \/ UNCHANGED vars
    BY <1>4, <1>9 DEF LoadModule, StartEval, DefineOwn, EvalReturn, EvalBody, codegen, vars
  <1> QED BY <1>5, <1>6, <1>7, <1>8, <1>9 DEF Next

LEMMA NextJInv == TInv /\ CInv /\ JInv /\ [Next]_vars => JInv'
  BY NextInterpJ, NextNativeJ DEF JInv, InterpJ, NativeJ

-----------------------------------------------------------------------------
\* Both engines are on the way from one function.

Alike == ClearNames \/ ~HiddenImport

SInv ==
  Alike /\ interp.st \in Running /\ native.st \in Running =>
    \E x \in Function : Reaches(x, interp.fn) /\ Jumped(x, declared[native.fn])

\* Compiled code does not get past the call of g.
Stuck(g) ==
  /\ TextOf(g).calls # None
  /\ \A s \in Function : declared[s] = g => bodies[s][1].callee = None

\* A function the interpreter misses is one of the three cases, or compiled code
\* cannot get past it either.
FInv ==
  interp.why = "undefined" =>
    \/ Excused(interp.fn)
    \/ native.st = "error"
    \/ native.st = "run" /\ \E g \in Function : Stuck(g) /\ Reaches(declared[native.fn], g)

Known == TInv /\ CInv /\ DInv /\ JInv

LEMMA FromItself ==
  ASSUME NEW x
  PROVE  Reaches(x, x) /\ Jumped(x, x)
  BY DEF Reaches, Jumped

\* Code and text stay while neither is compiled.
LEMMA CodeStays ==
  ASSUME UNCHANGED <<program, declared, bodies>>
  PROVE  /\ \A g, h : Reaches(g, h)' <=> Reaches(g, h)
         /\ \A g, h : Jumped(g, h)' <=> Jumped(g, h)
         /\ \A g : Stuck(g)' <=> Stuck(g)
         /\ Alike' <=> Alike
  <1>1. \A g, h : Jumps(g, h)' <=> Jumps(g, h)
    BY DEF Jumps
  <1>2. \A g, h : Jumped(g, h)' <=> Jumped(g, h)
    BY <1>1 DEF Jumped
  <1>3. \A g : Stuck(g)' <=> Stuck(g)
    BY TextStays DEF Stuck
  <1>4. Alike' <=> Alike
    BY TextStays DEF Alike
  <1> QED BY <1>2, <1>3, <1>4, TextStays

LEMMA RunningIsUp ==
  ASSUME Known, native.st \in Running
  PROVE  /\ Up /\ SoleSource
         /\ \A g, h \in Function : Jumps(g, h) => Leads(g, h)
         /\ native.fn \in Function /\ declared[native.fn] \in Function
  <1>1. Up /\ SoleSource
    BY UpIsSole DEF Known, Up, Running
  <1>2. native.fn \in Function /\ declared[native.fn] # None
    BY DEF Known, JInv
  <1> QED BY <1>1, <1>2, JumpsLead, DeclaredIsHere DEF Known

\* A step of the interpreter within a call.
LEMMA BodyLeads ==
  ASSUME Known, Alike, SoleSource, EvalBody, interp'.st = "run"
  PROVE  interp'.fn \in Function /\ Leads(interp.fn, interp'.fn)
  <1> DEFINE c == TextOf(interp.fn).calls
             from == interp.fn.module
             h == interp'.fn
  <1>1. /\ c \in Call /\ from \in Modules \cup {None} /\ Readable(from)
        /\ UseSet \subseteq envs /\ interp' \in EvalCalls(c, from)
        /\ TextOf(interp.fn) \in Text
    BY BodyCall DEF Known
  <1>2. OwnDefined
    BY DEF Known, JInv
  <1>3. h \in Function /\ Enters(c, from, h)
    <2> HIDE DEF c, from
    <2> QED BY <1>1, <1>2, AfterCall DEF Known
  <1>4. IsTarget(c, from, h)
    <2> HIDE DEF c, from, h
    <2> QED BY <1>1, <1>3, EnteredIsTarget DEF Known, Alike
  <1>5. c # None
    BY DEF EvalBody
  <1> QED BY <1>1, <1>3, <1>4, <1>5 DEF Leads

\* A statement's call, in both engines.
LEMMA StatementLeads ==
  ASSUME Known, Alike, NEW c \in StatementCalls, Statement(c),
         interp'.st \in Running, native'.st \in Running
  PROVE  interp'.fn \in Function /\ interp'.fn = declared[native'.fn]
  <1> DEFINE k == Resolved(c, declared)
             h == interp'.fn
  <1>1. interp.st # "error" /\ native.st # "error"
    BY DEF Statement, Running
  <1>2. interp' \in EvalCalls(c, None) /\ native.st \in {"rest", "value"}
        /\ interp.st \in {"rest", "value"}
    BY <1>1 DEF Statement
  <1>3. c \in Call /\ Readable(None) /\ UseSet \subseteq envs /\ OwnDefined
    BY <1>2, StatementCall DEF Known, JInv
  <1>4. Up /\ SoleSource
    BY <1>2, UpIsSole DEF Known, Up
  <1>5. h \in Function /\ Enters(c, None, h)
    BY <1>2, <1>3, AfterCall DEF Known, Running
  <1>6. IsTarget(c, None, h)
    <2> HIDE DEF h
    <2> QED BY <1>3, <1>4, <1>5, EnteredIsTarget DEF Known, Alike
  <1>7. /\ native' = Jump(k)
        /\ k # None => /\ k \in Function /\ k = Fn(c.module, c.name)
                       /\ declared[k] # None /\ declared[k] \in Function
    BY <1>1, StatementJump DEF Known
  <1>8. k # None /\ native'.fn = k
    <2> HIDE DEF k
    <2> QED BY <1>7, AfterJump DEF Running
  <1>9. IsTarget(c, None, declared[k])
    <2> HIDE DEF k
    <2> QED BY <1>3, <1>4, <1>7, <1>8, DeclaredIsTarget DEF Known
  <1>10. c.name \in Names
    BY <1>3 DEF Call
  <1>11. h.name = declared[k].name /\ h.module = declared[k].module
    <2> HIDE DEF h, k
    <2> QED BY <1>4, <1>6, <1>9, <1>10 DEF IsTarget, SoleSource
  <1> QED BY <1>5, <1>7, <1>8, <1>11, FunctionIsNotNone

LEMMA NextSInv == Known /\ SInv /\ [Next]_vars => SInv'
  <1> SUFFICES ASSUME Known, SInv, [Next]_vars,
                      Alike', interp'.st \in Running, native'.st \in Running
               PROVE  \E x \in Function :
                        Reaches(x, interp.fn)' /\ Jumped(x, declared[native.fn])'
    BY DEF SInv
  <1>1. CASE CompileImport \/ Generate
    <2>1. native'.st \notin Running
      <3>1. CASE CompileImport
        <4>1. native.st = "prepare" /\ (native' = native \/ native' = Failed("panic"))
          BY <3>1 DEF CompileImport, Building
        <4> QED BY <4>1 DEF Failed, Running
      <3>2. CASE Generate
        <4>1. \/ native' = Failed("panic") \/ native' = Failed("invalid")
              \/ native' = Being("rest", None)
          BY <3>2 DEF Generate
        <4>2. /\ Failed("panic").st = "error" /\ Failed("invalid").st = "error"
              /\ Being("rest", None).st = "rest"
          BY DEF Failed, Being
        <4> QED BY <4>1, <4>2 DEF Running
      <3> QED BY <1>1, <3>1, <3>2
    <2> QED BY <2>1
  <1>2. CASE ~CompileImport /\ ~Generate
    <2>1. UNCHANGED <<program, declared, bodies>>
      BY <1>2, OthersKeepCode
    <2>2. /\ Alike
          /\ \A g, h : Reaches(g, h)' <=> Reaches(g, h)
          /\ \A g, h : Jumped(g, h)' <=> Jumped(g, h)
      BY <2>1, CodeStays
    <2>3. SUFFICES \E x \in Function : /\ Reaches(x, interp'.fn)
                                       /\ Jumped(x, declared[native'.fn])
      <3>1. declared' = declared
        BY <2>1
      <3>2. ASSUME NEW x \in Function, Reaches(x, interp'.fn), Jumped(x, declared[native'.fn])
            PROVE  Reaches(x, interp.fn)' /\ Jumped(x, declared[native.fn])'
        BY <2>2, <3>1, <3>2
      <3> QED BY <2>3, <3>2
    <2>4. ASSUME interp.st \in Running, native.st \in Running
          PROVE  \E x \in Function : Reaches(x, interp.fn) /\ Jumped(x, declared[native.fn])
      BY <2>2, <2>4 DEF SInv
    <2>5. CASE UNCHANGED <<interp, native>>
      BY <2>4, <2>5
    <2>6. CASE LoadModule \/ StartEval
      <3>1. Failed("module").st = "error" /\ Being("rest", None).st = "rest"
        BY DEF Failed, Being
      <3>2. CASE LoadModule
        <4>1. interp.st = "prepare" /\ (interp' = interp \/ interp' = Failed("module"))
          BY <3>2 DEF LoadModule
        <4> QED BY <3>1, <4>1 DEF Running
      <3>3. CASE StartEval
        <4>1. interp' = Being("rest", None)
          BY <3>3 DEF StartEval
        <4> QED BY <3>1, <4>1 DEF Running
      <3> QED BY <2>6, <3>2, <3>3
    <2>7. CASE EvalReturn
      <3>1. interp.st = "run" /\ interp'.fn = interp.fn /\ native' = native
        BY <2>7 DEF EvalReturn, Being, codegen
      <3> QED BY <2>4, <3>1 DEF Running
    <2>8. CASE EvalBody
      <3>1. interp.st = "run" /\ native' = native
        BY <2>8 DEF EvalBody, codegen
      <3>2. interp'.st = "run"
        <4> DEFINE c == TextOf(interp.fn).calls
                   from == interp.fn.module
        <4>1. /\ c \in Call /\ from \in Modules \cup {None} /\ Readable(from)
              /\ interp' \in EvalCalls(c, from)
          BY <2>8, BodyCall DEF Known
        <4> HIDE DEF c, from
        <4> QED BY <4>1, AfterCall DEF Known, JInv, Running
      <3>3. SoleSource
        BY <3>1, RunningIsUp
      <3>4. interp'.fn \in Function /\ Leads(interp.fn, interp'.fn)
        BY <2>2, <2>8, <3>2, <3>3, BodyLeads
      <3> QED BY <2>4, <3>1, <3>4, ReachesOn DEF Running
    <2>9. CASE NativeReturn
      <3>1. native.st = "run" /\ native'.fn = native.fn /\ interp' = interp
        BY <2>9 DEF NativeReturn, Being, evaluator
      <3> QED BY <2>4, <3>1 DEF Running
    <2>10. CASE NativeBody
      <3>1. native.st = "run" /\ interp' = interp
        BY <2>10 DEF NativeBody, evaluator
      <3> DEFINE k == bodies[native.fn][1].callee
      <3>2. /\ native' = Jump(k)
            /\ k # None => declared[k] \in Function
                           /\ Jumps(declared[native.fn], declared[k])
        BY <2>10, BodyJump DEF Known, JInv, NativeJ
      <3> HIDE DEF k
      <3>3. k # None /\ native'.fn = k
        BY <3>2, AfterJump DEF Running
      <3> QED BY <2>4, <3>1, <3>2, <3>3, JumpedOn DEF Running
    <2>11. ASSUME NEW c \in StatementCalls, Statement(c)
           PROVE  \E x \in Function : /\ Reaches(x, interp'.fn)
                                      /\ Jumped(x, declared[native'.fn])
      BY <2>2, <2>11, StatementLeads, FromItself
    <2>12. CASE (\E n \in Names : DefineOwn(n)) \/ UNCHANGED vars
      BY <2>5, <2>12 DEF DefineOwn, codegen, vars
    <2> QED BY <1>2, <2>6, <2>7, <2>8, <2>9, <2>10, <2>11, <2>12 DEF Next
  <1> QED BY <1>1, <1>2

\* With clear names, or no hidden imports, a call that returns in both engines
\* has come to one function, for all modules and programs.
THEOREM SameCalleeHolds == Spec => []SameCallee
  <1>1. Init => SInv
    <2> SUFFICES ASSUME Init PROVE interp.st \notin Running
      BY DEF SInv
    <2>1. interp.st = "prepare"
      BY DEF Init, Being
    <2> QED BY <2>1 DEF Running
  <1>2. Known /\ SInv => SameCallee
    <2> SUFFICES ASSUME Known, SInv, Alike, interp.st = "value", native.st = "value"
                 PROVE  bodies[native.fn][1].of = interp.fn
      BY DEF SameCallee, Alike
    <2>1. interp.st \in Running /\ native.st \in Running
      BY DEF Running
    <2>2. PICK x \in Function : Reaches(x, interp.fn) /\ Jumped(x, declared[native.fn])
      BY <2>1 DEF SInv
    <2>3. /\ SoleSource /\ \A g, h \in Function : Jumps(g, h) => Leads(g, h)
          /\ native.fn \in Function /\ declared[native.fn] \in Function
      BY <2>1, RunningIsUp
    <2>4. Reaches(x, declared[native.fn])
      BY <2>2, <2>3, JumpedIsReached
    <2>5. /\ interp.fn \in Function /\ TextOf(interp.fn).calls = None
          /\ TextOf(declared[native.fn]).calls = None
      BY <2>1 DEF Known, JInv
    <2>6. interp.fn = declared[native.fn]
      BY <2>2, <2>3, <2>4, <2>5, LeafIsOne
    <2>7. bodies[native.fn][1].of = declared[native.fn]
      BY <2>3, FunctionIsNotNone DEF Known, CInv
    <2> QED BY <2>6, <2>7
  <1>3. Known /\ SInv /\ [Next]_vars => Known' /\ SInv'
    BY NextTInv, NextCInv, NextDInv, NextJInv, NextSInv DEF Known
  <1>4. Init => Known
    BY InitTInv, InitCInv, InitDInv, InitJInv DEF Known
  <1> QED BY <1>1, <1>2, <1>3, <1>4, PTL DEF Spec

-----------------------------------------------------------------------------
\* What the interpreter misses, and where compiled code is then.

\* The analyzer has accepted the program's functions; the interpreter is within
\* a call only while the compiled program is, or after it.
KInv ==
  /\ \A n \in Names :
       LET c == own[n].calls IN
       own[n] # None /\ c # None /\ c.module # None =>
         [module |-> c.module, function |-> None] \in UseSet
  /\ interp.st \in Running => native.st \in {"run", "value", "error"}

LEMMA InitKInv == Init => KInv
  <1> SUFFICES ASSUME Init PROVE KInv
    OBVIOUS
  <1>1. interp.st \notin Running
    BY DEF Init, Being, Running
  <1> QED BY <1>1 DEF KInv, Init, Accepted, CheckCall

LEMMA NextKInv == KInv /\ [Next]_vars => KInv'
  <1> SUFFICES ASSUME KInv, [Next]_vars PROVE KInv'
    OBVIOUS
  <1>1. UNCHANGED program
    BY ProgramStays
  <1>2. UseSet' = UseSet /\ own' = own
    BY <1>1, TextStays DEF program
  <1>3. SUFFICES ASSUME interp'.st \in Running
                 PROVE  native'.st \in {"run", "value", "error"}
    BY <1>2 DEF KInv
  <1>4. ASSUME interp.st \in Running
        PROVE  native.st \in {"run", "value", "error"}
    BY <1>4 DEF KInv
  <1>5. CASE UNCHANGED <<interp, native>>
    BY <1>3, <1>4, <1>5
  <1>6. CASE LoadModule \/ StartEval
    <2>1. Failed("module").st = "error" /\ Being("rest", None).st = "rest"
      BY DEF Failed, Being
    <2>2. CASE LoadModule
      <3>1. interp.st = "prepare" /\ (interp' = interp \/ interp' = Failed("module"))
        BY <2>2 DEF LoadModule
      <3> QED BY <1>3, <2>1, <3>1 DEF Running
    <2>3. CASE StartEval
      <3>1. interp' = Being("rest", None)
        BY <2>3 DEF StartEval
      <3> QED BY <1>3, <2>1, <3>1 DEF Running
    <2> QED BY <1>6, <2>2, <2>3
  <1>7. CASE EvalReturn \/ EvalBody
    <2>1. interp.st = "run" /\ native' = native
      BY <1>7 DEF EvalReturn, EvalBody, codegen
    <2> QED BY <1>4, <2>1 DEF Running
  <1>8. CASE CompileImport \/ Generate
    <2>1. native.st = "prepare" /\ interp' = interp
      BY <1>8 DEF CompileImport, Generate, Building, evaluator
    <2> QED BY <1>3, <1>4, <2>1
  <1>9. CASE NativeReturn
    BY <1>9 DEF NativeReturn, Being
  <1>10. CASE NativeBody
    <2> DEFINE k == bodies[native.fn][1].callee
    <2>1. native' = Jump(k)
      BY <1>10 DEF NativeBody
    <2> HIDE DEF k
    <2> QED BY <2>1, AfterJump
  <1>11. ASSUME NEW c \in StatementCalls, Statement(c)
         PROVE  native'.st \in {"run", "value", "error"}
    <2> DEFINE k == Resolved(c, declared)
    <2>1. native'.st = "error" \/ native' = Jump(k)
      BY <1>11 DEF Statement
    <2> HIDE DEF k
    <2> QED BY <2>1, AfterJump
  <1>12. CASE (\E n \in Names : DefineOwn(n)) \/ UNCHANGED vars
    BY <1>5, <1>12 DEF DefineOwn, codegen, vars
  <1> QED BY <1>6, <1>7, <1>8, <1>9, <1>10, <1>11, <1>12 DEF Next

LEMMA ExcusedStays ==
  ASSUME UNCHANGED program, UNCHANGED defined, NEW g
  PROVE  Excused(g)' <=> Excused(g)
  <1>1. EarlyCall(g)' <=> EarlyCall(g)
    BY DEF EarlyCall, program
  <1>2. BorrowedModule(g)' <=> BorrowedModule(g)
    BY TextStays DEF BorrowedModule
  <1> QED BY <1>1, <1>2, TextStays DEF Excused

LEMMA ExcuseStays ==
  ASSUME UNCHANGED program, UNCHANGED defined, interp' = interp
  PROVE  Excused(interp.fn)' <=> Excused(interp.fn)
  <1>1. PICK g : g = interp.fn
    OBVIOUS
  <1>2. Excused(g)' <=> Excused(g)
    BY ExcusedStays
  <1>3. Excused(interp.fn)' <=> Excused(g)'
    BY <1>1 DEF Excused, EarlyCall, BorrowedModule
  <1> QED BY <1>1, <1>2, <1>3

LEMMA LeafReachesItself ==
  ASSUME NEW d \in Function, NEW g, Reaches(d, g), TextOf(d).calls = None
  PROVE  g = d
  <1>1. {d} \in SUBSET Function /\ d \in {d}
    OBVIOUS
  <1>2. \A a \in {d}, b \in Function : Leads(a, b) => b \in {d}
    BY DEF Leads
  <1>3. g \in {d}
    BY <1>1, <1>2 DEF Reaches
  <1> QED BY <1>3

\* Where the interpreter finds no function, there is none in compiled code.
LEMMA NotFoundIsStuck ==
  ASSUME Known, KInv, EvalBody, interp'.why = "undefined",
         ~Excused(interp.fn)'
  PROVE  Stuck(interp.fn) /\ ~HiddenImport
  <1> DEFINE g == interp.fn
             c == TextOf(g).calls
             from == g.module
  <1>1. /\ c \in Call /\ from \in Modules \cup {None} /\ Readable(from)
        /\ UseSet \subseteq envs /\ interp' \in EvalCalls(c, from)
        /\ g \in Function /\ TextOf(g) \in Text
        /\ from # None => \E n \in Defs(from) : files[from][n].calls = c
    BY BodyCall DEF Known
  <1>2. OwnDefined
    BY DEF Known, JInv
  <1>3. NotFound(c, from) /\ interp'.fn = Fn(c.module, c.name)
    <2> HIDE DEF c, from
    <2> QED BY <1>1, <1>2, AfterCall DEF Known
  <1>0. ~Excused(Fn(c.module, c.name))
    <2> HIDE DEF c
    <2>1. PICK m : m = Fn(c.module, c.name)
      OBVIOUS
    <2>2. ~Excused(m)'
      BY <1>3, <2>1 DEF Excused, EarlyCall, BorrowedModule
    <2> QED BY <2>1, <2>2, ExcusedStays DEF EvalBody
  <1>4. from = None /\ c.module # None => [module |-> c.module, function |-> None] \in UseSet
    <2> SUFFICES ASSUME from = None, c.module # None
                 PROVE  [module |-> c.module, function |-> None] \in UseSet
      OBVIOUS
    <2>1. TextOf(g) = own[g.name] /\ g.name \in Names
      BY <1>1, FunctionIsNotNone DEF TextOf
    <2>2. own[g.name] # None /\ own[g.name].calls # None
      BY <1>1, <2>1, NoneAssumption
    <2> QED BY <2>1, <2>2 DEF KInv
  <1>5. c # None
    BY <1>1, NoneAssumption
  <1>6. ASSUME NEW s \in Function, declared[s] = g, bodies[s][1].callee # None
        PROVE  FALSE
    <2> DEFINE k == Fn(c.module, c.name)
    <2>1. declared[s] # None
      BY <1>1, <1>6, FunctionIsNotNone
    <2>2. declared[k] # None /\ (from # None => declared[k].module # None)
      BY <1>6, <2>1, CalleeIsDeclared DEF Known
    <2> HIDE DEF c, from
    <2> QED BY <1>0, <1>1, <1>3, <1>4, <2>2, NotFoundCases DEF Known
  <1>7. ~HiddenImport
    BY <1>0 DEF Excused
  <1> QED BY <1>5, <1>6, <1>7 DEF Stuck

LEMMA BodyFInv == Known /\ SInv /\ KInv /\ FInv /\ EvalBody => FInv'
  <1> SUFFICES ASSUME Known, SInv, KInv, FInv, EvalBody, interp'.why = "undefined",
                      ~Excused(interp.fn)', native'.st # "error"
               PROVE  /\ native'.st = "run"
                      /\ \E g \in Function : Stuck(g)' /\ Reaches(declared[native.fn], g)'
    BY DEF FInv
  <1> DEFINE g == interp.fn
             d == declared[native.fn]
  <1>1. UNCHANGED <<program, declared, bodies>> /\ UNCHANGED defined /\ native' = native
        /\ interp.st = "run"
    BY DEF EvalBody, codegen
  <1>3. Stuck(g) /\ ~HiddenImport
    BY NotFoundIsStuck
  <1>4. native.st \in Running /\ interp.st \in Running
    BY <1>1 DEF KInv, Running
  <1>5. g \in Function
    BY <1>4 DEF Known, JInv
  <1>6. /\ SoleSource /\ \A a, b \in Function : Jumps(a, b) => Leads(a, b)
        /\ d \in Function
    BY <1>4, RunningIsUp
  <1>7. PICK x \in Function : Reaches(x, g) /\ Jumped(x, d)
    BY <1>3, <1>4 DEF SInv, Alike
  <1>8. \A b \in Function : ~Jumps(g, b)
    BY <1>3 DEF Stuck, Jumps
  <1>9. Reaches(d, g)
    <2> HIDE DEF d, g
    <2> QED BY <1>5, <1>6, <1>7, <1>8, StuckIsAhead
  <1>10. native.st # "value"
    <2> SUFFICES ASSUME native.st = "value" PROVE FALSE
      OBVIOUS
    <2>1. TextOf(d).calls = None
      BY DEF Known, JInv
    <2>2. g = d
      BY <1>6, <1>9, <2>1, LeafReachesItself
    <2> QED BY <1>3, <2>1, <2>2 DEF Stuck
  <1>11. native'.st = "run"
    BY <1>1, <1>4, <1>10 DEF Running
  <1>12. PICK e \in Function, h \in Function :
            e = d /\ h = g
    BY <1>5, <1>6
  <1>13. Stuck(h) /\ Reaches(e, h)
    BY <1>3, <1>9, <1>12
  <1>14. declared'[native'.fn] = e
    BY <1>1, <1>12
  <1>15. Stuck(h)' /\ Reaches(e, h)'
    BY <1>1, <1>13, CodeStays
  <1> QED BY <1>11, <1>12, <1>14, <1>15

\* Compiled code that the interpreter has left goes on, short of where it stops.
LEMMA AheadFInv ==
  ASSUME Known, FInv, ~Excused(interp.fn), interp.why = "undefined", NativeBody \/ NativeReturn
  PROVE  FInv'
  <1> DEFINE d == declared[native.fn]
             k == bodies[native.fn][1].callee
  <1>1. native.st = "run" /\ UNCHANGED <<program, declared, bodies>>
    BY DEF NativeBody, NativeReturn
  <1>2. PICK g \in Function : Stuck(g) /\ Reaches(d, g)
    BY <1>1 DEF FInv
  <1>3. native.st \in Running
    BY <1>1 DEF Running
  <1>4. /\ SoleSource /\ \A a, b \in Function : Jumps(a, b) => Leads(a, b)
        /\ native.fn \in Function /\ d \in Function
    BY <1>3, RunningIsUp
  <1>5. d # None /\ bodies[native.fn][1].of = d
    BY <1>4, FunctionIsNotNone DEF Known, CInv
  <1>6. CASE NativeReturn
    <2>1. TextOf(d).calls = None
      BY <1>5, <1>6 DEF NativeReturn
    <2>2. g = d
      BY <1>2, <1>4, <2>1, LeafReachesItself
    <2> QED BY <1>2, <2>1, <2>2 DEF Stuck
  <1>7. CASE NativeBody
    <2>1. native' = Jump(k)
      BY <1>7 DEF NativeBody
    <2>2. CASE k = None
      <3> HIDE DEF k
      <3>1. native'.st = "error"
        BY <2>1, <2>2, AfterJump
      <3> QED BY <3>1 DEF FInv
    <2>3. CASE k # None
      <3>1. d # g
        BY <1>2, <1>4, <2>3 DEF Stuck
      <3>2. k \in Function /\ declared[k] \in Function /\ Jumps(d, declared[k])
        BY <1>7, <2>3, BodyJump DEF Known, JInv, NativeJ
      <3>3. Leads(d, declared[k])
        BY <1>4, <3>2
      <3>4. Reaches(declared[k], g)
        <4> HIDE DEF d, k
        <4> QED BY <1>2, <1>4, <3>1, <3>2, <3>3, ReachesBack
      <3>5. native'.st = "run" /\ native'.fn = k
        <4> HIDE DEF k
        <4> QED BY <2>1, <2>3, AfterJump
      <3>6. PICK e \in Function : e = declared[k]
        BY <3>2
      <3>7. declared'[native'.fn] = e
        BY <1>1, <3>5, <3>6
      <3>8. Stuck(g)' /\ Reaches(e, g)'
        BY <1>1, <1>2, <3>4, <3>6, CodeStays
      <3> QED BY <3>5, <3>7, <3>8 DEF FInv
    <2> QED BY <2>2, <2>3
  <1> QED BY <1>6, <1>7

LEMMA StatementFInv ==
  ASSUME Known, KInv, FInv, NEW c \in StatementCalls, Statement(c)
  PROVE  FInv'
  <1> SUFFICES ASSUME interp'.why = "undefined", ~Excused(interp.fn)',
                      native'.st # "error"
               PROVE  FALSE
    BY DEF FInv
  <1> DEFINE k == Resolved(c, declared)
  <1>1. UNCHANGED program /\ UNCHANGED defined
    BY DEF Statement
  <1>3. native.st \in {"rest", "value"} /\ native' = Jump(k)
    BY DEF Statement
  <1>4. interp.st # "error"
    <2> SUFFICES ASSUME interp.st = "error" PROVE FALSE
      OBVIOUS
    <2>1. interp' = interp
      BY DEF Statement
    <2>2. interp.why = "undefined" /\ ~Excused(interp.fn)
      BY <1>1, <2>1, ExcuseStays
    <2> QED BY <1>3, <2>2 DEF FInv
  <1>5. interp' \in EvalCalls(c, None) /\ interp.st \in {"rest", "value"} /\ CheckCall(c)
    BY <1>4 DEF Statement
  <1>6. c \in Call /\ Readable(None) /\ UseSet \subseteq envs /\ OwnDefined
    BY <1>5, StatementCall DEF Known, JInv
  <1>7. NotFound(c, None) /\ interp'.fn = Fn(c.module, c.name)
    BY <1>5, <1>6, AfterCall DEF Known
  <1>2. ~Excused(Fn(c.module, c.name))
    <2>1. PICK m : m = Fn(c.module, c.name)
      OBVIOUS
    <2>2. ~Excused(m)'
      BY <1>7, <2>1 DEF Excused, EarlyCall, BorrowedModule
    <2> QED BY <1>1, <2>1, <2>2, ExcusedStays
  <1>8. k # None
    <2> HIDE DEF k
    <2> QED BY <1>3, AfterJump
  <1>9. declared[Fn(c.module, c.name)] # None
    BY <1>3, <1>8, StatementJump DEF Known
  <1>10. c.module # None => [module |-> c.module, function |-> None] \in UseSet
    BY <1>5 DEF CheckCall
  <1> QED BY <1>2, <1>6, <1>7, <1>9, <1>10, NotFoundCases DEF Known

LEMMA NextFInv == Known /\ SInv /\ KInv /\ FInv /\ [Next]_vars => FInv'
  <1> SUFFICES ASSUME Known, SInv, KInv, FInv, [Next]_vars PROVE FInv'
    OBVIOUS
  <1>1. UNCHANGED program
    BY ProgramStays
  <1>2. interp.why = "undefined" => interp.st = "error"
    BY DEF Known, JInv
  <1>3. ASSUME UNCHANGED <<interp, native, declared, bodies>>, UNCHANGED defined
        PROVE  FInv'
    <2>1. Excused(interp.fn)' <=> Excused(interp.fn)
      BY <1>1, <1>3, ExcuseStays
    <2>2. CASE interp.why = "undefined" /\ native.st = "run"
               /\ \E g \in Function : Stuck(g) /\ Reaches(declared[native.fn], g)
      <3>1. PICK g \in Function : Stuck(g) /\ Reaches(declared[native.fn], g)
        BY <2>2
      <3>2. native.st \in Running
        BY <2>2 DEF Running
      <3>3. PICK e \in Function : e = declared[native.fn]
        BY <3>2, RunningIsUp
      <3>4. Stuck(g)' /\ Reaches(e, g)'
        BY <1>1, <1>3, <3>1, <3>3, CodeStays
      <3>5. declared'[native'.fn] = e
        BY <1>3, <3>3
      <3> QED BY <1>3, <2>2, <3>4, <3>5 DEF FInv
    <2> QED BY <1>3, <2>1, <2>2 DEF FInv
  <1>4. ASSUME Excused(interp.fn), UNCHANGED defined, interp' = interp
        PROVE  FInv'
    <2>1. Excused(interp.fn)'
      BY <1>1, <1>4, ExcuseStays
    <2> QED BY <2>1 DEF FInv
  <1>5. CASE LoadModule \/ StartEval \/ EvalReturn
    <2>1. interp.why # "undefined"
      BY <1>2, <1>5 DEF LoadModule, StartEval, EvalReturn
    <2>2. interp'.why # "undefined"
      <3>1. Failed("module").why # "undefined" /\ \A st, g : Being(st, g).why # "undefined"
        BY DEF Failed, Being
      <3>2. CASE LoadModule
        <4>1. interp' = interp \/ interp' = Failed("module")
          BY <3>2 DEF LoadModule
        <4> QED BY <2>1, <3>1, <4>1
      <3>3. CASE StartEval
        BY <3>1, <3>3 DEF StartEval
      <3>4. CASE EvalReturn
        <4>1. \E g : interp' = Being("value", g)
          BY <3>4 DEF EvalReturn
        <4> QED BY <3>1, <4>1
      <3> QED BY <1>5, <3>2, <3>3, <3>4
    <2> QED BY <2>2 DEF FInv
  <1>6. ASSUME NEW n \in Names, DefineOwn(n)
        PROVE  FInv'
    <2>1. interp.st # "error" /\ interp' = interp
      BY <1>6 DEF DefineOwn
    <2> QED BY <1>2, <2>1 DEF FInv
  <1>7. CASE EvalBody
    BY <1>7, BodyFInv
  <1>8. CASE CompileImport \/ Generate
    <2>1. native.st = "prepare" /\ interp' = interp /\ UNCHANGED defined
      BY <1>8 DEF CompileImport, Generate, Building, evaluator
    <2>2. CASE interp.why = "undefined"
      BY <1>4, <2>1, <2>2 DEF FInv
    <2>3. CASE interp.why # "undefined"
      BY <2>1, <2>3 DEF FInv
    <2> QED BY <2>2, <2>3
  <1>9. CASE NativeBody \/ NativeReturn
    <2>1. interp' = interp /\ UNCHANGED defined
      BY <1>9 DEF NativeBody, NativeReturn, evaluator
    <2>2. CASE interp.why = "undefined" /\ ~Excused(interp.fn)
      BY <1>9, <2>2, AheadFInv
    <2>3. CASE interp.why # "undefined"
      BY <2>1, <2>3 DEF FInv
    <2> QED BY <1>4, <2>1, <2>2, <2>3
  <1>10. CASE \E c \in StatementCalls : Statement(c)
    BY <1>10, StatementFInv
  <1>11. CASE UNCHANGED vars
    BY <1>3, <1>11 DEF vars
  <1> QED BY <1>5, <1>6, <1>7, <1>8, <1>9, <1>10, <1>11 DEF Next

\* What runs compiled and is an undefined function in the interpreter is one of
\* three cases, for all modules and programs: a hidden import, a call before the
\* fn statement, a module only a module uses.
THEOREM FoundAlikeHolds == Spec => []FoundAlike
  <1>1. Init => Known /\ SInv /\ KInv /\ FInv
    <2> SUFFICES ASSUME Init PROVE Known /\ SInv /\ KInv /\ FInv
      OBVIOUS
    <2>1. interp.st \notin Running /\ interp.why # "undefined"
      BY DEF Init, Being, Running
    <2> QED BY <2>1, InitTInv, InitCInv, InitDInv, InitJInv, InitKInv
            DEF Known, SInv, FInv
  <1>2. FInv => FoundAlike
    BY DEF FInv, FoundAlike, Excused
  <1>3. Known /\ SInv /\ KInv /\ FInv /\ [Next]_vars
        => Known' /\ SInv' /\ KInv' /\ FInv'
    BY NextTInv, NextCInv, NextDInv, NextJInv, NextSInv, NextKInv, NextFInv DEF Known
  <1> QED BY <1>1, <1>2, <1>3, PTL DEF Spec

-----------------------------------------------------------------------------
\* The shape of the state.

OInv == Len(uses) <= MaxUses /\ interp \in Outcome /\ native \in Outcome

LEMMA Outcomes ==
  /\ \A why \in {"module", "private", "arity", "undefined", "null", "invalid",
                 "panic"} : Failed(why) \in Outcome
  /\ \A st \in {"prepare", "rest", "run", "value"}, g \in Function \cup {None} :
       Being(st, g) \in Outcome
  BY DEF Failed, Being, Outcome

LEMMA CallsAreOutcomes ==
  ASSUME TInv, OwnDefined, NEW c \in Call, NEW from \in Modules \cup {None},
         Readable(from), NEW o \in EvalCalls(c, from)
  PROVE  o \in Outcome
  <1>1. CASE \E h \in Function : o = Runs(h)
    BY <1>1, Outcomes DEF Runs
  <1>2. CASE o = Failed("arity") \/ o = Failed("private")
    BY <1>2, Outcomes
  <1>3. CASE o = Undefined(c)
    <2>1. Fn(c.module, c.name) \in Function
      BY FnIsFunction DEF Call
    <2> QED BY <1>3, <2>1 DEF Undefined, Outcome
  <1> QED BY <1>1, <1>2, <1>3, CallOutcome

LEMMA JumpsAreOutcomes ==
  ASSUME NEW k \in Function \cup {None}
  PROVE  Jump(k) \in Outcome
  BY Outcomes DEF Jump, Runs

LEMMA NextOInv == Known /\ OInv /\ [Next]_vars => OInv'
  <1> SUFFICES ASSUME Known, OInv, [Next]_vars
               PROVE  interp' \in Outcome /\ native' \in Outcome
    BY ProgramStays DEF OInv, program
  <1>1. interp \in Outcome /\ native \in Outcome
    BY DEF OInv
  <1>2. CASE LoadModule
    <2>1. native' = native /\ (interp' = interp \/ interp' = Failed("module"))
      BY <1>2 DEF LoadModule, codegen
    <2> QED BY <1>1, <2>1, Outcomes
  <1>3. CASE StartEval
    <2>1. native' = native /\ interp' = Being("rest", None)
      BY <1>3 DEF StartEval, codegen
    <2> QED BY <1>1, <2>1, Outcomes
  <1>4. CASE EvalReturn
    <2>1. native' = native /\ interp' = Being("value", interp.fn)
      BY <1>4 DEF EvalReturn, codegen
    <2>2. interp.fn \in Function \cup {None}
      BY <1>1 DEF Outcome
    <2> QED BY <1>1, <2>1, <2>2, Outcomes
  <1>5. CASE EvalBody
    <2> DEFINE c == TextOf(interp.fn).calls
               from == interp.fn.module
    <2>1. /\ c \in Call /\ from \in Modules \cup {None} /\ Readable(from)
          /\ interp' \in EvalCalls(c, from)
      BY <1>5, BodyCall DEF Known
    <2>2. native' = native
      BY <1>5 DEF EvalBody, codegen
    <2> HIDE DEF c, from
    <2>3. interp' \in Outcome
      BY <2>1, CallsAreOutcomes DEF Known, JInv
    <2> QED BY <1>1, <2>2, <2>3
  <1>6. CASE CompileImport
    <2>1. interp' = interp /\ (native' = native \/ native' = Failed("panic"))
      BY <1>6 DEF CompileImport, evaluator
    <2> QED BY <1>1, <2>1, Outcomes
  <1>7. CASE Generate
    <2>1. interp' = interp /\ native' \in {Failed("panic"), Failed("invalid"), Being("rest", None)}
      BY <1>7 DEF Generate, evaluator
    <2> QED BY <1>1, <2>1, Outcomes
  <1>8. CASE NativeReturn
    <2>1. interp' = interp /\ native' = Being("value", native.fn)
      BY <1>8 DEF NativeReturn, evaluator
    <2>2. native.fn \in Function \cup {None}
      BY <1>1 DEF Outcome
    <2> QED BY <1>1, <2>1, <2>2, Outcomes
  <1>9. CASE NativeBody
    <2> DEFINE k == bodies[native.fn][1].callee
    <2>1. interp' = interp /\ native' = Jump(k)
      BY <1>9 DEF NativeBody, evaluator
    <2>2. k \in Function \cup {None}
      BY <1>9, BodyJump DEF Known, JInv, NativeJ
    <2> QED BY <1>1, <2>1, <2>2, JumpsAreOutcomes
  <1>10. ASSUME NEW c \in StatementCalls, Statement(c)
         PROVE  interp' \in Outcome /\ native' \in Outcome
    <2>1. interp' \in Outcome
      <3>1. CASE interp.st = "error"
        BY <1>1, <1>10, <3>1 DEF Statement
      <3>2. CASE interp.st # "error"
        <4>1. interp' \in EvalCalls(c, None)
          BY <1>10, <3>2 DEF Statement
        <4> QED BY <4>1, StatementCall, CallsAreOutcomes DEF Known, JInv
      <3> QED BY <3>1, <3>2
    <2>2. native' \in Outcome
      <3>1. CASE native.st = "error"
        BY <1>1, <1>10, <3>1 DEF Statement
      <3>2. CASE native.st # "error"
        <4>1. native' = Jump(Resolved(c, declared))
              /\ Resolved(c, declared) \in Function \cup {None}
          BY <1>10, <3>2, StatementJump DEF Known
        <4> QED BY <4>1, JumpsAreOutcomes
      <3> QED BY <3>1, <3>2
    <2> QED BY <2>1, <2>2
  <1>11. CASE (\E n \in Names : DefineOwn(n)) \/ UNCHANGED vars
    BY <1>1, <1>11 DEF DefineOwn, codegen, vars
  <1> QED BY <1>2, <1>3, <1>4, <1>5, <1>6, <1>7, <1>8, <1>9, <1>10, <1>11 DEF Next

\* The tables and both engines always have their shape.
THEOREM TypesHold == Spec => []TypeOK
  <1>1. Init => Known /\ OInv
    <2> SUFFICES ASSUME Init PROVE Known /\ OInv
      OBVIOUS
    <2>1. PICK n \in 0 .. MaxUses : uses \in [1 .. n -> Use]
      BY DEF Init
    <2>2. Len(uses) <= MaxUses
      BY <2>1, BoundsAssumption
    <2>3. interp \in Outcome /\ native \in Outcome
      BY Outcomes DEF Init
    <2> QED BY <2>2, <2>3, InitTInv, InitCInv, InitDInv, InitJInv DEF Known, OInv
  <1>2. Known /\ OInv => TypeOK
    <2> SUFFICES ASSUME Known, OInv PROVE TypeOK
      OBVIOUS
    <2>1. ASSUME NEW s \in Function, NEW i \in DOMAIN bodies[s]
          PROVE  bodies[s][i] \in Body
      BY <2>1, ElementOfSeq DEF Known, CInv
    <2>2. \A s \in Function : \A i \in DOMAIN bodies[s] :
            /\ bodies[s][i].of \in Function
            /\ bodies[s][i].callee \in Function \cup {None}
      BY <2>1 DEF Body
    <2> QED BY <2>2 DEF Known, OInv, TInv, ProgramOK, Loaded, CInv, JInv, OwnDefined, TypeOK
  <1>3. Known /\ OInv /\ [Next]_vars => Known' /\ OInv'
    BY NextTInv, NextCInv, NextDInv, NextJInv, NextOInv DEF Known
  <1> QED BY <1>1, <1>2, <1>3, PTL DEF Spec
=============================================================================
