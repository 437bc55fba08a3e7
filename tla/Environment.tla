---------------------------- MODULE Environment ----------------------------
(***************************************************************************)
(* Variables, scopes and calls of the interpreter (evaluator/), as the     *)
(* REPL runs it: one global environment that outlives every statement and  *)
(* every runtime error, an environment per call, enclosed in the one the   *)
(* function was defined in, and closures that keep theirs alive.           *)
(*                                                                         *)
(* A statement is evaluated in the environment of the innermost call.  Its *)
(* value is at hand (a literal, a name, a lambda), or a call returns it:   *)
(* then the checks made before the value and those made after it are two   *)
(* steps, with the whole call between them.                                *)
(***************************************************************************)
EXTENDS Naturals, Sequences, Functions

CONSTANTS
  VarNames,    \* names that programs assign and declare
  BoundNames,  \* names of for variables and catch variables
  FuncNames,   \* names of fn definitions
  ParamNames,  \* names of parameters
  Data,        \* the values that are not functions
  Kind,        \* Kind[v] is the type of v \in Data
  Declared,    \* the types that the program's declarations use
  Signatures,  \* what an fn definition says: parameters and return types
  Lambdas,     \* what a lambda says
  MaxEnvs,     \* bound: environments ever created
  MaxDepth,    \* bound: calls in progress, plus one for the program itself
  None         \* no value, no type, no name

Types == {"num", "str", "bool", "list", "dict"}

Names == VarNames \cup BoundNames \cup FuncNames \cup ParamNames

Param == [name : ParamNames, type : Types \cup {None},
          default : Data \cup {None}]

Signature == [params : Seq(Param), returns : SUBSET Types]

ASSUME DataAssumption == Kind \in [Data -> Types]
ASSUME DeclaredAssumption == Declared \subseteq Types
ASSUME NoneAssumption == None \notin Names \cup Data \cup Types
ASSUME SignatureAssumption == Signatures \cup Lambdas \subseteq Signature
ASSUME BoundsAssumption == MaxEnvs \in Nat \ {0} /\ MaxDepth \in Nat

VARIABLES
  envs,    \* the environments, in the order of their creation
  frames   \* the calls in progress, innermost first; the last is the program

vars == <<envs, frames>>

-----------------------------------------------------------------------------
\* Values, targets of values, frames

Closure == [env : 1 .. MaxEnvs, says : Signatures \cup Lambdas]

ASSUME ClosureAssumption == None \notin Closure

Value == Data \cup Closure

\* object.TypeName
TypeOf(v) == IF v \in Data THEN Kind[v] ELSE "fn"

\* What becomes of a value: x = v, x op= v, num x = v, const num x = v, the
\* variable of a for or a catch, or nothing.  left is what x op= v has read.
Target == [kind : {"assign", "compound", "typed", "const", "bind", "drop"},
           name : Names \cup {None}, type : Types \cup {None},
           left : Value \cup {None}]

To(kind, n, ty) == [kind |-> kind, name |-> n, type |-> ty, left |-> None]

Targets ==
  {To(k, n, None) : k \in {"assign", "compound"}, n \in VarNames} \cup
  {To(k, n, ty) : k \in {"typed", "const"}, n \in VarNames, ty \in Declared} \cup
  {To("bind", n, None) : n \in BoundNames} \cup
  {To("drop", None, None)}

\* A parameter of a call that is still to be bound: type is None where the
\* call does not check it.
Binding == [name : ParamNames, type : Types \cup {None}, value : Value]

\* A call: its environment, the parameters still to be bound, the types it
\* may return ({} means any), and where the caller puts the result.
Frame == [env : 1 .. MaxEnvs, todo : Seq(Binding),
          returns : SUBSET Types, goes : Target]

Env == [store : [Names -> Value \cup {None}],
        types : [Names -> Types \cup {None}],
        consts : SUBSET Names,
        scope : SUBSET (1 .. MaxEnvs)]

NewEnv(scope) == [store |-> [n \in Names |-> None],
                  types |-> [n \in Names |-> None],
                  consts |-> {}, scope |-> scope]

Global == 1

\* The frame of the REPL.
Program == [env |-> Global, todo |-> << >>, returns |-> {},
            goes |-> To("drop", None, None)]

Init ==
  /\ envs = <<NewEnv({Global})>>
  /\ frames = <<Program>>

-----------------------------------------------------------------------------
\* Looking names up.  scope holds an environment and all that enclose it, and
\* each of those was created before it: the chain from inside to outside is
\* the scope in descending order.

Innermost(S) == CHOOSE d \in S : \A c \in S : c =< d

Holders(e, n) == {d \in envs[e].scope : envs[d].store[n] # None}

Visible(e, n) == Holders(e, n) # {}

\* Where Set writes: the innermost environment that has the name, or e.
Home(e, n) == IF Visible(e, n) THEN Innermost(Holders(e, n)) ELSE e

Get(e, n) == envs[Home(e, n)].store[n]

Typers(e, n) == {d \in envs[e].scope : envs[d].types[n] # None}

\* Slip: the declaration of an enclosing environment is not looked for.
OwnType(e, n) == envs[e].types[n]

GetType(e, n) ==
  IF Typers(e, n) = {} THEN None ELSE envs[Innermost(Typers(e, n))].types[n]

IsConst(e, n) == \E d \in envs[e].scope : n \in envs[d].consts

\* Slip: a variable of an enclosing environment is shadowed, not written.
SetHere(e, n, v) == [envs EXCEPT ![e].store[n] = v]

Set(e, n, v) == [envs EXCEPT ![Home(e, n)].store[n] = v]

SetTyped(e, n, ty, v) ==
  [envs EXCEPT ![e].store[n] = v, ![e].types[n] = ty]

SetConst(e, n, ty, v) ==
  [envs EXCEPT ![e].store[n] = v, ![e].types[n] = ty,
               ![e].consts = @ \cup {n}]

-----------------------------------------------------------------------------
\* Statements.  e is the environment a statement is evaluated in.

Here == Head(frames).env

\* The statements of a body are evaluated once its parameters are bound.
InBody == Head(frames).todo = << >>

\* What an expression that calls nothing may give.
Values(e) ==
  Data \cup {Get(e, n) : n \in {m \in Names : Visible(e, m)}}
       \cup {[env |-> e, says |-> l] : l \in Lambdas}

\* Slip: a compound assignment may write a const.
RefusedUnlessCompound(e, t) ==
  \/ t.kind = "assign" /\ IsConst(e, t.name)
  \/ t.kind = "compound" /\ ~Visible(e, t.name)

\* Checks made before the value is evaluated.
Refused(e, t) ==
  \/ t.kind \in {"assign", "compound"} /\ IsConst(e, t.name)
  \/ t.kind = "compound" /\ ~Visible(e, t.name)

\* Slip: only declarations check the type of the value.
FitsAtDeclaration(e, t, v) ==
  t.kind \in {"typed", "const"} => TypeOf(v) = t.type

\* Checks made once the value is there.
Fits(e, t, v) ==
  /\ t.kind \in {"assign", "compound"} =>
       GetType(e, t.name) \in {None, TypeOf(v)}
  /\ t.kind \in {"typed", "const"} => TypeOf(v) = t.type

\* evalArithOp, for +=, -=, *= and /=: two numbers make a number, a string
\* and a string or number make a string, and some of each are an error.
Results(left, right) ==
  LET kinds == {TypeOf(left), TypeOf(right)} IN
  {v \in Data : \/ kinds = {"num"} /\ Kind[v] = "num"
                \/ kinds \in {{"str"}, {"num", "str"}} /\ Kind[v] = "str"}

Outcomes(t, v) == IF t.kind = "compound" THEN Results(t.left, v) ELSE {v}

\* The value v arrives at its target.
Stored(e, t, v) ==
  CASE t.kind \in {"assign", "compound", "bind"} -> Set(e, t.name, v)
    [] t.kind = "typed" -> SetTyped(e, t.name, t.type, v)
    [] t.kind = "const" -> SetConst(e, t.name, t.type, v)
    [] t.kind = "drop" -> envs

\* The target of a statement that begins, with what it reads at once.
Begun(e, t) ==
  IF t.kind = "compound" THEN [t EXCEPT !.left = Get(e, t.name)] ELSE t

\* A statement whose value takes no call.
Store(t, v) ==
  /\ ~Refused(Here, t)
  /\ \E w \in Outcomes(Begun(Here, t), v) :
       Fits(Here, t, w) /\ envs' = Stored(Here, t, w)
  /\ UNCHANGED frames

\* A fn definition: the closure is stored like an assigned value, unchecked.
FuncDef(n, s) ==
  /\ envs' = Set(Here, n, [env |-> Here, says |-> s])
  /\ UNCHANGED frames


\* The parameters of a call of s with these arguments, checked.
Checked(s, args) ==
  [i \in 1 .. Len(s.params) |->
     [name |-> s.params[i].name, type |-> s.params[i].type,
      value |-> IF i =< Len(args) THEN args[i] ELSE s.params[i].default]]

\* The parameters a callback gets from a builtin: unchecked, and those for
\* which there is no argument stay unbound.
Unchecked(s, args) ==
  [i \in 1 .. (IF Len(args) < Len(s.params) THEN Len(args) ELSE Len(s.params))
     |-> [name |-> s.params[i].name, type |-> None, value |-> args[i]]]

ArityFits(s, args) ==
  /\ Len(args) =< Len(s.params)
  /\ \A i \in Len(args) + 1 .. Len(s.params) : s.params[i].default # None

\* Slip: a call sees the variables of its caller.
EnclosedInCaller(f) == Here

Enclosing(f) == f.env

\* A new environment, enclosed in the one the function was defined in.
Enter(f, todo, returns, t) ==
  /\ Len(frames) < MaxDepth /\ Len(envs) < MaxEnvs
  /\ envs' = Append(envs,
       NewEnv(envs[Enclosing(f)].scope \cup {Len(envs) + 1}))
  /\ frames' = <<[env |-> Len(envs) + 1, todo |-> todo,
                  returns |-> returns, goes |-> t]>> \o frames

\* A statement whose value is a call of the function that n names.
Call(n, args, t) ==
  /\ ~Refused(Here, t)
  /\ LET f == Get(Here, n) IN
     Enter(f, Checked(f.says, args), f.says.returns, Begun(Here, t))

\* map, filter, reduce, each and the list methods call a function they got as
\* an argument.
CallBack(f, args) ==
  Enter(f, Unchecked(f.says, args), {}, To("drop", None, None))

Accepts(b) == b.type \in {None, TypeOf(b.value)}

\* The loop over the parameters binds the next one.
BindParam ==
  /\ ~InBody
  /\ LET b == Head(Head(frames).todo) IN
     Accepts(b) /\ envs' = Set(Here, b.name, b.value)
  /\ frames' = [frames EXCEPT ![1].todo = Tail(@)]

\* The innermost call ends with v, which goes where its caller wanted it.
Return(v) ==
  /\ Len(frames) > 1
  /\ Head(frames).returns # {} => TypeOf(v) \in Head(frames).returns
  /\ LET t == Head(frames).goes
         e == frames[2].env
     IN \E w \in Outcomes(t, v) : Fits(e, t, w) /\ envs' = Stored(e, t, w)
  /\ frames' = Tail(frames)

\* Every runtime error (a refused assignment, an undefined name, a parameter
\* or result of the wrong type, ...) ends all calls; the REPL goes on with
\* what the environments hold then.
RuntimeError ==
  /\ Len(frames) > 1
  /\ ~InBody => ~Accepts(Head(Head(frames).todo))
  /\ frames' = <<Program>>
  /\ UNCHANGED envs

Callable(e) == {n \in Names : Visible(e, n) /\ Get(e, n) \notin Data}

\* What a call, and what a builtin, may pass to a function of signature s.  A
\* builtin passes one value (map, filter, each) or two (reduce), whatever the
\* function expects.
Arguments(e, s) ==
  {args \in UNION {[1 .. k -> Values(e)] : k \in 0 .. Len(s.params)} :
     ArityFits(s, args)}

BuiltinArguments(e, s) ==
  UNION {[1 .. k -> Values(e)] : k \in 1 .. (IF Len(s.params) > 1 THEN 2 ELSE 1)}

Next ==
  \/ /\ InBody
     /\ \/ \E t \in Targets : \E v \in Values(Here) : Store(t, v)
        \/ \E n \in FuncNames, s \in Signatures : FuncDef(n, s)
        \/ \E n \in Callable(Here) :
             \E args \in Arguments(Here, Get(Here, n).says), t \in Targets :
               Call(n, args, t)
        \/ \E f \in Values(Here) \ Data :
             \E args \in BuiltinArguments(Here, f.says) : CallBack(f, args)
        \/ \E v \in Values(Here) : Return(v)
  \/ BindParam
  \/ RuntimeError

Spec == Init /\ [][Next]_vars

-----------------------------------------------------------------------------
\* Programs that use every name for one thing: variables, loop variables,
\* functions and parameters have different names; a function has no parameter
\* with the name of one visible where it is defined; and a variable that is
\* declared with a type has no other declaration that an environment sees.

NamesDisjoint ==
  /\ VarNames \cap (BoundNames \cup FuncNames \cup ParamNames) = {}
  /\ ParamNames \cap (BoundNames \cup FuncNames) = {}

ParamsOf(s) == {b.name : b \in Range(s.params)}

FreshParams(e, s) == \A n \in ParamsOf(s) : ~Visible(e, n)

TidyValue(v) == v \notin Data => FreshParams(v.env, v.says)

\* d and e are on one chain.
Related(d, e) == d \in envs[e].scope \/ e \in envs[d].scope

TidyTarget(e, t) ==
  t.kind \in {"typed", "const"} =>
    \A d \in DOMAIN envs : Related(d, e) => envs[d].store[t.name] = None

TidyNext ==
  \/ /\ InBody
     /\ \/ \E t \in Targets : \E v \in Values(Here) :
             TidyTarget(Here, t) /\ TidyValue(v) /\ Store(t, v)
        \/ \E n \in FuncNames, s \in Signatures :
             FreshParams(Here, s) /\ FuncDef(n, s)
        \/ \E n \in Callable(Here) :
             \E args \in Arguments(Here, Get(Here, n).says), t \in Targets :
               (\A v \in Range(args) : TidyValue(v)) /\ Call(n, args, t)
        \/ \E f \in Values(Here) \ Data :
             \E args \in BuiltinArguments(Here, f.says) :
               /\ \A v \in Range(args) \cup {f} : TidyValue(v)
               /\ CallBack(f, args)
        \/ \E v \in Values(Here) :
             /\ Len(frames) > 1 =>
                  TidyTarget(frames[2].env, Head(frames).goes)
             /\ TidyValue(v) /\ Return(v)
  \/ BindParam
  \/ RuntimeError

TidySpec == Init /\ NamesDisjoint /\ [][TidyNext]_vars

-----------------------------------------------------------------------------
\* Properties

\* The variables have their types, scopes are chains upwards to the global
\* environment, and the innermost call is the newest environment in progress.
TypeOK ==
  /\ envs \in Seq(Env) /\ Len(envs) \in 1 .. MaxEnvs
  /\ \A e \in DOMAIN envs : {Global, e} \subseteq envs[e].scope
                            /\ envs[e].scope \subseteq 1 .. e
  /\ frames \in Seq(Frame) /\ frames # << >>
  /\ \A i \in DOMAIN frames : frames[i].env \in DOMAIN envs

\* A variable declared with a type holds a value of that type
\* (docs/variables.md: "Once a variable has a type, it cannot be reassigned
\* to a different type"), whichever call, loop or catch writes it.
TypedKeepsType ==
  \A e \in DOMAIN envs : \A n \in Names :
    envs[e].types[n] # None => TypeOf(envs[e].store[n]) = envs[e].types[n]

\* The type and the const flag that an assignment is checked against are
\* those of the variable that it writes, not of another one with that name
\* further out (docs/variables.md: "Variables defined inside a function are
\* local to that function").
ChecksFollowBinding ==
  \A e \in DOMAIN envs : \A n \in {m \in Names : Visible(e, m)} :
    /\ GetType(e, n) = envs[Home(e, n)].types[n]
    /\ IsConst(e, n) <=> n \in envs[Home(e, n)].consts

\* Binding the parameters of a call writes no variable that was there before
\* the call (docs/variables.md: "local to that function").
ParamsAreLocal ==
  [][~InBody => \A d \in 1 .. Len(envs) - 1 : envs'[d] = envs[d]]_vars

\* What an evaluated const declaration stored stays, whatever is declared,
\* assigned, looped over or called later, in any scope.
ConstNeverChanges ==
  [][\A d \in DOMAIN envs : \A n \in envs[d].consts :
       envs'[d].store[n] = envs[d].store[n]]_vars

\* Once a name stands for a variable in an environment it stands for that
\* variable for ever: an assignment to a captured or global variable writes
\* it and never makes a second one nearer by (environment.go: "updates a
\* variable in the scope where it was defined, enabling mutable closures").
NamesStayBound ==
  [][\A e \in DOMAIN envs : \A n \in Names :
       Visible(e, n) => Home(e, n)' = Home(e, n)]_vars
=============================================================================
