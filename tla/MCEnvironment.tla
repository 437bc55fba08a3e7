--------------------------- MODULE MCEnvironment ---------------------------
(* Environment with a few names, values and kinds of functions.             *)
EXTENDS Environment, TLC

CONSTANTS var, item, fun, par, n1, n2, s1

KindOf == [v \in Data |-> IF v = s1 THEN "str" ELSE "num"]

\* fn (num p) f, fn () num f, fn(p) -> ..., and fn (x) f.
OneParam == [params |-> <<[name |-> par, type |-> "num", default |-> None]>>,
             returns |-> {}]
NoParam == [params |-> << >>, returns |-> {"num"}]
Untyped == [params |-> <<[name |-> par, type |-> None, default |-> None]>>,
            returns |-> {}]
ParamX == [params |-> <<[name |-> var, type |-> None, default |-> None]>>,
           returns |-> {}]

CounterSignatures == {OneParam, NoParam}
ParamSignatures == {OneParam}
XSignatures == {ParamX}
UntypedLambdas == {Untyped}
NoLambdas == {}
=============================================================================
