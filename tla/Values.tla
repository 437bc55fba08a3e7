------------------------------- MODULE Values -------------------------------
(***************************************************************************)
(* The operators of the language, as both engines evaluate them: truth,    *)
(* and, or, not, signs, arithmetic, comparison and membership              *)
(* (evaluator/expressions.go and object.go; runtime.c).  A value is its    *)
(* type and a number: that of a num; the length of a str, whose characters *)
(* are all alike; the length of a list, whose elements are all 1; 0 or 1   *)
(* for a bool.  A runtime error, and a panic, is the value Failure.        *)
(***************************************************************************)
EXTENDS Integers

CONSTANT Most     \* bound: the magnitude of numbers, and lengths

ASSUME MostAssumption == Most \in Nat

Of(t, n) == [type |-> t, n |-> n]
Num(n) == Of("num", n)
Str(n) == Of("str", n)
Bool(b) == Of("bool", IF b THEN 1 ELSE 0)
Failure == Of("failure", 0)

Value ==
  [type : {"num"}, n : -Most .. Most] \cup [type : {"str", "list"}, n : 0 .. Most]
    \cup [type : {"bool"}, n : 0 .. 1] \cup {Of("null", 0), Of("error", 1)}

Types == {"num", "str", "list", "bool", "null", "error"}

Comparisons == {"==", "!=", "<", ">", "<=", ">=", "in"}
Arithmetic == {"+", "-", "*", "/", "%", "**"}

Both(a, b, t) == a.type = t /\ b.type = t

-----------------------------------------------------------------------------
(* Numbers, the same in both engines.  Quotients are modelled where they   *)
(* are integers, powers where the exponent is not negative.                *)

Magnitude(n) == IF n < 0 THEN -n ELSE n

\* The remainder has the sign of the dividend.
Remainder(m, n) ==
  IF m < 0 THEN -(Magnitude(m) % Magnitude(n)) ELSE m % Magnitude(n)

Integral(op, m, n) ==
  /\ op = "/" /\ n # 0 => Magnitude(m) % Magnitude(n) = 0
  /\ op = "**" => n >= 0

Calculated(op, m, n) ==
  CASE op = "+"  -> Num(m + n)
    [] op = "-"  -> Num(m - n)
    [] op = "*"  -> Num(m * n)
    [] op = "/"  -> IF n = 0 THEN Failure
                    ELSE Num(CHOOSE q \in -Magnitude(m) .. Magnitude(m) : q * n = m)
    [] op = "%"  -> IF n = 0 THEN Failure ELSE Num(Remainder(m, n))
    [] op = "**" -> Num(IF n = 0 THEN 1 ELSE m ^ n)

Ordered(op, m, n) ==
  Bool(CASE op = "==" -> m = n
         [] op = "!=" -> m # n
         [] op = "<"  -> m < n
         [] op = ">"  -> m > n
         [] op = "<=" -> m <= n
         [] op = ">=" -> m >= n)

-----------------------------------------------------------------------------
(* The interpreter.                                                        *)

\* An error is true, by default.
GoTruthy(v) == v.type = "error" \/ v.n # 0

\* A str is repeated from either side; strings.Repeat panics below zero.
GoArith(op, a, b) ==
  IF op = "+" /\ Both(a, b, "str") THEN Str(a.n + b.n)
  ELSE IF op = "*" /\ {a.type, b.type} = {"num", "str"}
  THEN IF a.n < 0 \/ b.n < 0 THEN Failure ELSE Str(a.n * b.n)
  ELSE IF Both(a, b, "num") THEN Calculated(op, a.n, b.n)
  ELSE Failure

GoMember(a, b) ==
  CASE b.type = "list" -> Bool(b.n > 0 /\ a = Num(1))
    [] Both(a, b, "str") -> Bool(a.n <= b.n)
    [] OTHER -> Failure

\* Equality is defined for two values of one type, and not for lists.
GoCompare(op, a, b) ==
  CASE op = "in" -> GoMember(a, b)
    [] op # "in" /\ Both(a, b, "num") -> Ordered(op, a.n, b.n)
    [] /\ op \in {"==", "!="}
       /\ \E t \in {"str", "bool", "null"} : Both(a, b, t) -> Ordered(op, a.n, b.n)
    [] OTHER -> Failure

GoNegated(v) == IF v.type = "num" THEN Num(-v.n) ELSE Failure

-----------------------------------------------------------------------------
(* Compiled programs.                                                      *)

SxTruthy(v) == v.type # "error" /\ v.n # 0

\* sx_mul repeats a str no times for a count below zero, and swaps its
\* operands for a str on the right.
SxArith(op, a, b) ==
  IF op = "+" /\ Both(a, b, "str") THEN Str(a.n + b.n)
  ELSE IF op = "*" /\ {a.type, b.type} = {"num", "str"}
  THEN Str(IF a.n < 0 \/ b.n < 0 THEN 0 ELSE a.n * b.n)
  ELSE IF Both(a, b, "num") THEN Calculated(op, a.n, b.n)
  ELSE Failure

\* Equality is defined for all values; no list equals any.
SxEqual(a, b) == a = b /\ a.type \notin {"list", "error"}

SxMember(a, b) ==
  CASE b.type = "list" -> Bool(b.n > 0 /\ SxEqual(a, Num(1)))
    [] Both(a, b, "str") -> Bool(a.n <= b.n)
    [] OTHER -> Failure

SxCompare(op, a, b) ==
  CASE op = "in" -> SxMember(a, b)
    [] op = "==" -> Bool(SxEqual(a, b))
    [] op = "!=" -> Bool(~SxEqual(a, b))
    [] op \notin {"in", "==", "!="} /\ Both(a, b, "num") -> Ordered(op, a.n, b.n)
    [] OTHER -> Failure

\* Slip: the operands are the wrong way round.
SxNegatedBack(v) == SxArith("-", v, Num(0))

\* sx_sub, from 0.
SxNegated(v) == SxArith("-", Num(0), v)
=============================================================================
