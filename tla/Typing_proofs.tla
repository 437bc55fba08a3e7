---------------------------- MODULE Typing_proofs ----------------------------
(***************************************************************************)
(* Proofs about Typing, for any variables, any types that can be declared  *)
(* and numbers of any size: of programs that keep to what the engines take *)
(* alike.  The two lemmas on expressions carry the weight: both engines    *)
(* give an expression one value, and that value has the inferred type.     *)
(***************************************************************************)
EXTENDS Typing, TLAPS

\* What is checked at run time is what the analyzer has, and a variable that
\* the analyzer knows has a value.
ChecksAgree ==
  failed = {} =>
    \A x \in Names :
      /\ x \in Known => go[x] \in Value
      /\ declared[x] # "unknown" => types[x] = declared[x]

IInv == TypeOK /\ SameValues /\ TypesInferred /\ ChecksAgree

\* The states a statement starts from.
Ready == IInv /\ failed = {} /\ Careless = FALSE

-----------------------------------------------------------------------------
(* Values.                                                                 *)

LEMMA ValueParts ==
  ASSUME NEW v \in Value
  PROVE  /\ v = [type |-> v.type, n |-> v.n]
         /\ v.type \in Types
         /\ v.n \in Int
         /\ v.type \in {"str", "list"} => v.n >= 0
         /\ v # Failure
  BY MostAssumption DEF Value, Types, Of, Failure

LEMMA BothTruths ==
  ASSUME NEW v \in Value, v.type # "error"
  PROVE  GoTruthy(v) = SxTruthy(v)
  BY DEF GoTruthy, SxTruthy

LEMMA BothNegations ==
  ASSUME NEW v \in Value
  PROVE  GoNegated(v) = SxNegated(v)
<1>1. v.n \in Int
  BY ValueParts
<1>2. 0 - v.n = -v.n
  BY <1>1
<1>3. QED BY <1>2 DEF GoNegated, SxNegated, SxArith, Calculated, Both, Num, Of

LEMMA BothSums ==
  ASSUME NEW op \in Arithmetic, NEW a \in Value, NEW b \in Value,
         op = "*" => ~(a.type = "num" /\ b.type = "str"),
         op = "*" /\ a.type = "str" => b.n >= 0
  PROVE  GoArith(op, a, b) = SxArith(op, a, b)
<1>1. CASE op = "*" /\ {a.type, b.type} = {"num", "str"}
  <2>1. a.type = "str" /\ a.n >= 0 /\ b.n >= 0 /\ a.n \in Int /\ b.n \in Int
    BY <1>1, ValueParts
  <2>2. ~(a.n < 0 \/ b.n < 0)
    BY <2>1
  <2>3. QED BY <1>1, <2>2 DEF GoArith, SxArith, Both
<1>2. CASE ~(op = "*" /\ {a.type, b.type} = {"num", "str"})
  BY <1>2 DEF GoArith, SxArith
<1>3. QED BY <1>1, <1>2

LEMMA BothComparisons ==
  ASSUME NEW op \in Comparisons, NEW a \in Value, NEW b \in Value,
         op \in {"==", "!="} => \E t \in {"num", "str", "bool", "null"} : Both(a, b, t)
  PROVE  GoCompare(op, a, b) = SxCompare(op, a, b)
<1>1. SxEqual(a, Num(1)) <=> a = Num(1)
  BY DEF SxEqual, Num, Of
<1>2. CASE op = "in"
  <2>1. GoMember(a, b) = SxMember(a, b)
    BY <1>1 DEF GoMember, SxMember, Bool
  <2>2. QED BY <1>2, <2>1 DEF GoCompare, SxCompare
<1>3. CASE op \in {"==", "!="}
  <2>1. PICK t \in {"num", "str", "bool", "null"} : a.type = t /\ b.type = t
    BY <1>3 DEF Both
  <2>2. a = b <=> a.n = b.n
    BY <2>1, ValueParts
  <2>3. SxEqual(a, b) <=> a.n = b.n
    BY <2>1, <2>2 DEF SxEqual
  <2>4. GoCompare(op, a, b) = Ordered(op, a.n, b.n)
    BY <1>3, <2>1 DEF GoCompare, Both
  <2>5. SxCompare(op, a, b) = Ordered(op, a.n, b.n)
    <3>1. CASE op = "=="
      <4>1. Bool(SxEqual(a, b)) = Bool(a.n = b.n)
        BY <2>3 DEF Bool
      <4>2. QED BY <3>1, <4>1 DEF SxCompare, Ordered
    <3>2. CASE op = "!="
      <4>1. Bool(~SxEqual(a, b)) = Bool(a.n # b.n)
        BY <2>3 DEF Bool
      <4>2. QED BY <3>2, <4>1 DEF SxCompare, Ordered
    <3>3. QED BY <1>3, <3>1, <3>2
  <2>6. QED BY <2>4, <2>5
<1>4. CASE op \notin {"in", "==", "!="}
  BY <1>4 DEF GoCompare, SxCompare
<1>5. QED BY <1>2, <1>3, <1>4

-----------------------------------------------------------------------------
(* Expressions.                                                            *)

Unary == Signs \cup {"name"}
Binary == Choosing \cup Comparisons \cup Arithmetic

LEMMA Operands ==
  ASSUME NEW e \in Expr
  PROVE  \/ e.op \in {"literal", "element"} /\ e.value \in Value
         \/ e.op \in Unary /\ e.left \in Mentioned(e)
         \/ e.op \in Binary /\ e.left \in Mentioned(e) /\ e.right \in Mentioned(e)
<1>1. CASE e \in [op : {"literal", "element"}, value : Value]
  BY <1>1
<1>2. CASE e \in [op : Unary, left : Names]
  <2>1. "left" \in DOMAIN e /\ e["left"] = e.left
    BY <1>2
  <2>2. e.left \in Mentioned(e)
    BY <2>1 DEF Mentioned
  <2>3. QED BY <1>2, <2>2
<1>3. CASE e \in [op : Binary, left : Names, right : Names]
  <2>1. /\ "left" \in DOMAIN e /\ e["left"] = e.left
        /\ "right" \in DOMAIN e /\ e["right"] = e.right
    BY <1>3
  <2>2. e.left \in Mentioned(e) /\ e.right \in Mentioned(e)
    BY <2>1 DEF Mentioned
  <2>3. QED BY <1>3, <2>2
<1>4. QED BY <1>1, <1>2, <1>3 DEF Expr, Unary, Binary

LEMMA KnownValues ==
  ASSUME Ready, NEW x \in Known
  PROVE  /\ x \in Names
         /\ go[x] \in Value /\ sx = go
         /\ types[x] # "unknown" => go[x].type = types[x]
         /\ types[x] \in Types \cup {"unknown"}
BY DEF Ready, IInv, SameValues, TypesInferred, ChecksAgree, Known, TypeOK

LEMMA BothValues ==
  ASSUME Ready, NEW e \in Expr, Allowed(e)
  PROVE  GoValue(e) = SxValue(e)
<1>1. Mentioned(e) \subseteq Known /\ Plain(e)
  BY DEF Ready, Allowed, Modelled
<1>2. sx = go
  BY DEF Ready, IInv, SameValues
<1>3. CASE e.op \in {"literal", "element", "name", "pos"}
  BY <1>2, <1>3 DEF GoValue, SxValue
<1>4. CASE e.op \in Unary
  <2>1. go[e.left] \in Value
    BY <1>1, <1>4, Operands, KnownValues DEF Unary, Signs, Binary, Choosing, Comparisons, Arithmetic
  <2>2. CASE e.op \in {"name", "pos"}
    BY <1>3, <2>2
  <2>3. CASE e.op = "not"
    <3>1. GoTruthy(go[e.left]) = SxTruthy(go[e.left])
      BY <1>1, <2>1, <2>3, BothTruths DEF Plain
    <3>2. QED BY <1>2, <2>3, <3>1 DEF GoValue, SxValue
  <2>4. CASE e.op = "neg"
    <3>1. GoNegated(go[e.left]) = SxNegated(go[e.left])
      BY <2>1, BothNegations
    <3>2. QED BY <1>2, <2>4, <3>1 DEF GoValue, SxValue
  <2>5. QED BY <1>4, <2>2, <2>3, <2>4 DEF Unary, Signs
<1>5. CASE e.op \in Binary
  <2>1. go[e.left] \in Value /\ go[e.right] \in Value
    BY <1>1, <1>5, Operands, KnownValues DEF Unary, Signs, Binary, Choosing, Comparisons, Arithmetic
  <2>2. CASE e.op \in Choosing
    <3>1. go[e.left].type = "bool"
      BY <1>1, <2>2 DEF Plain, Both
    <3>2. GoTruthy(go[e.left]) = SxTruthy(go[e.left])
      BY <2>1, <3>1, BothTruths
    <3>3. QED BY <1>2, <2>2, <3>2 DEF GoValue, SxValue, Choosing
  <2>3. CASE e.op \in Arithmetic
    <3>1. GoArith(e.op, go[e.left], go[e.right]) = SxArith(e.op, go[e.left], go[e.right])
      BY <1>1, <2>1, <2>3, BothSums DEF Plain
    <3>2. QED BY <1>2, <2>3, <3>1 DEF GoValue, SxValue, Arithmetic
  <2>4. CASE e.op \in Comparisons
    <3>1. GoCompare(e.op, go[e.left], go[e.right]) = SxCompare(e.op, go[e.left], go[e.right])
      BY <1>1, <2>1, <2>4, BothComparisons DEF Plain
    <3>2. QED BY <1>2, <2>4, <3>1 DEF GoValue, SxValue, Comparisons, Arithmetic
  <2>5. QED BY <1>5, <2>2, <2>3, <2>4 DEF Binary
<1>6. QED BY <1>3, <1>4, <1>5, Operands

\* The types of what the operators make.
LEMMA SumTypes ==
  ASSUME NEW op \in Arithmetic, NEW a, NEW b,
         op = "*" => ~(a.type = "num" /\ b.type = "str"),
         GoArith(op, a, b) # Failure
  PROVE  GoArith(op, a, b).type = a.type
<1>1. CASE op = "+" /\ Both(a, b, "str")
  BY <1>1 DEF GoArith, Both, Str, Of
<1>2. CASE op = "*" /\ {a.type, b.type} = {"num", "str"}
  <2>1. a.type = "str"
    BY <1>2
  <2>2. QED BY <1>2, <2>1 DEF GoArith, Both, Str, Of
<1>3. CASE ~(op = "*" /\ {a.type, b.type} = {"num", "str"}) /\ ~(op = "+" /\ Both(a, b, "str"))
  <2>1. Both(a, b, "num") /\ GoArith(op, a, b) = Calculated(op, a.n, b.n)
    BY <1>3 DEF GoArith
  <2>2. Calculated(op, a.n, b.n) \in {Failure} \cup {Num(n) : n \in {Calculated(op, a.n, b.n).n}}
    BY DEF Calculated, Arithmetic, Num, Of
  <2>3. QED BY <2>1, <2>2 DEF Num, Of, Both
<1>4. QED BY <1>1, <1>2, <1>3

LEMMA ComparisonTypes ==
  ASSUME NEW op \in Comparisons, NEW a, NEW b, GoCompare(op, a, b) # Failure
  PROVE  GoCompare(op, a, b).type = "bool"
<1>1. ASSUME NEW m, NEW n
      PROVE  Ordered(op, m, n).type = "bool"
  BY DEF Ordered, Bool, Of
<1>2. CASE op = "in"
  <2>1. GoMember(a, b) = Failure \/ GoMember(a, b).type = "bool"
    BY DEF GoMember, Bool, Of
  <2>2. QED BY <1>2, <2>1 DEF GoCompare
<1>3. CASE op # "in"
  BY <1>1, <1>3 DEF GoCompare
<1>4. QED BY <1>2, <1>3

LEMMA InferredIsRight ==
  ASSUME Ready, NEW e \in Expr, Allowed(e),
         Inferred(e) # "unknown", GoValue(e) # Failure
  PROVE  GoValue(e).type = Inferred(e)
<1>1. Mentioned(e) \subseteq Known /\ Plain(e)
  BY DEF Ready, Allowed, Modelled
<1>2. CASE e.op \in {"literal", "element"}
  BY <1>2 DEF GoValue, Inferred, Choosing, Comparisons, Arithmetic
<1>3. CASE e.op \in Unary
  <2>1. e.left \in Known
    BY <1>1, <1>3, Operands DEF Unary, Signs, Binary, Choosing, Comparisons, Arithmetic
  <2>2. CASE e.op = "name"
    BY <2>1, <2>2, KnownValues DEF GoValue, Inferred, Choosing, Comparisons, Arithmetic
  <2>3. CASE e.op = "pos"
    BY <1>1, <2>3 DEF GoValue, Inferred, Plain, Choosing, Comparisons, Arithmetic
  <2>4. CASE e.op = "not"
    BY <2>4 DEF GoValue, Inferred, Bool, Of, Choosing, Comparisons, Arithmetic
  <2>5. CASE e.op = "neg"
    BY <2>5 DEF GoValue, Inferred, GoNegated, Num, Of, Choosing, Comparisons, Arithmetic
  <2>6. QED BY <1>3, <2>2, <2>3, <2>4, <2>5 DEF Unary, Signs
<1>4. CASE e.op \in Binary
  <2>1. e.left \in Known /\ e.right \in Known
    BY <1>1, <1>4, Operands DEF Unary, Signs, Binary, Choosing, Comparisons, Arithmetic
  <2>2. CASE e.op \in Choosing
    <3>1. go[e.left].type = "bool" /\ go[e.right].type = "bool"
      BY <1>1, <2>2 DEF Plain, Both
    <3>2. QED BY <2>2, <3>1 DEF GoValue, Inferred, Choosing, Comparisons, Arithmetic
  <2>3. CASE e.op \in Arithmetic
    <3>1. GoValue(e) = GoArith(e.op, go[e.left], go[e.right])
      BY <2>3 DEF GoValue, Choosing, Comparisons, Arithmetic
    <3>2. Inferred(e) = types[e.left]
      BY <2>3 DEF Inferred, Arithmetic, Choosing, Comparisons
    <3>3. GoValue(e).type = go[e.left].type
      BY <1>1, <2>3, <3>1, SumTypes DEF Plain
    <3>4. QED BY <2>1, <3>2, <3>3, KnownValues
  <2>4. CASE e.op \in Comparisons
    <3>1. GoValue(e) = GoCompare(e.op, go[e.left], go[e.right])
      BY <2>4 DEF GoValue, Choosing, Comparisons, Arithmetic
    <3>2. Inferred(e) = "bool"
      BY <2>4 DEF Inferred, Choosing, Comparisons, Arithmetic
    <3>3. QED BY <2>4, <3>1, <3>2, ComparisonTypes
  <2>5. QED BY <1>4, <2>2, <2>3, <2>4 DEF Binary
<1>5. QED BY <1>2, <1>3, <1>4, Operands

LEMMA InferredIsAType ==
  ASSUME Ready, NEW e \in Expr, Allowed(e)
  PROVE  Inferred(e) \in Types \cup {"unknown"}
<1>1. Mentioned(e) \subseteq Known
  BY DEF Allowed, Modelled
<1>2. CASE e.op \in {"literal", "element"}
  <2>1. e.value \in Value
    BY <1>2, Operands DEF Unary, Signs, Binary, Choosing, Comparisons, Arithmetic
  <2>2. e.value.type \in Types
    BY <2>1, ValueParts
  <2>3. QED BY <1>2, <2>2 DEF Inferred, Choosing, Comparisons, Arithmetic
<1>3. CASE e.op \in Unary
  <2>1. e.left \in Known
    BY <1>1, <1>3, Operands DEF Unary, Signs, Binary, Choosing, Comparisons, Arithmetic
  <2>2. types[e.left] \in Types \cup {"unknown"}
    BY <2>1, KnownValues
  <2>3. QED BY <1>3, <2>2
      DEF Inferred, Types, Unary, Signs, Choosing, Comparisons, Arithmetic
<1>4. CASE e.op \in Binary
  <2>1. e.left \in Known
    BY <1>1, <1>4, Operands DEF Unary, Signs, Binary, Choosing, Comparisons, Arithmetic
  <2>2. types[e.left] \in Types \cup {"unknown"}
    BY <2>1, KnownValues
  <2>3. QED BY <1>4, <2>2
      DEF Inferred, Types, Binary, Choosing, Comparisons, Arithmetic
<1>5. QED BY <1>2, <1>3, <1>4, Operands

-----------------------------------------------------------------------------
(* Statements.                                                             *)

\* A statement that gives x the value v, of the type the analyzer then has
\* for x, if any, and that both engines check against t, or one against
\* nothing where the other's check cannot fail.
LEMMA Stores ==
  ASSUME Ready, NEW x \in Names, NEW v \in Value \cup {Failure},
         NEW t \in Declarable \cup {"unknown"}, NEW u \in {t, "unknown"},
         v # Failure => u = t \/ t \in {"unknown", v.type},
         GoKeeps(x, v, t), SxKeeps(x, v, u), failed' \in SUBSET Engines,
         NEW s \in Types \cup {"unknown"},
         types' = [types EXCEPT ![x] = s],
         v # Failure /\ t \in {"unknown", v.type} /\ s # "unknown" => v.type = s,
         t # "unknown" => s = t,
         UNCHANGED branch
  PROVE  IInv'
<1> DEFINE fits == v # Failure /\ t \in {"unknown", v.type}
<1>1. /\ TypeOK /\ failed = {} /\ sx = go /\ branch.go = branch.sx
      /\ TypesInferred /\ ChecksAgree
  BY DEF Ready, IInv, SameValues
<1>2. fits <=> v # Failure /\ u \in {"unknown", v.type}
  OBVIOUS
<1>3. CASE fits
  <2>1. /\ v \in Value
        /\ go' = [go EXCEPT ![x] = v] /\ sx' = [sx EXCEPT ![x] = v]
        /\ declared' = [declared EXCEPT ![x] = t]
    BY <1>2, <1>3 DEF GoKeeps, SxKeeps
  <2>2. "go" \notin failed' /\ "sx" \notin failed'
    BY <1>2, <1>3 DEF GoKeeps, SxKeeps
  <2>3. failed' = {}
    BY <2>2 DEF Engines
  <2>4. TypeOK'
    BY <1>1, <2>1, <2>3 DEF TypeOK
  <2>5. SameValues'
    BY <1>1, <2>1, <2>3 DEF SameValues
  <2>6. Known' = Known \cup {x}
    BY <1>1 DEF Known, TypeOK, Types
  <2>7. TypesInferred'
    <3>1. ASSUME NEW y \in Known', types'[y] # "unknown"
          PROVE  {go'[y].type, sx'[y].type} = {types'[y]}
      <4>1. y \in Names
        BY DEF Known
      <4>2. CASE y = x
        BY <1>1, <1>3, <2>1, <3>1, <4>2 DEF TypeOK
      <4>3. CASE y # x
        <5>1. y \in Known /\ types[y] = types'[y] /\ go'[y] = go[y] /\ sx'[y] = sx[y]
          BY <1>1, <2>1, <2>6, <4>1, <4>3 DEF TypeOK
        <5>2. QED BY <1>1, <3>1, <5>1 DEF TypesInferred
      <4>4. QED BY <4>2, <4>3
    <3>2. QED BY <3>1 DEF TypesInferred
  <2>8. ChecksAgree'
    <3>1. ASSUME NEW y \in Names
          PROVE  /\ y \in Known' => go'[y] \in Value
                 /\ declared'[y] # "unknown" => types'[y] = declared'[y]
      <4>1. CASE y = x
        BY <1>1, <2>1, <4>1 DEF TypeOK
      <4>2. CASE y # x
        <5>1. /\ y \in Known' <=> y \in Known
              /\ types[y] = types'[y] /\ go'[y] = go[y] /\ declared'[y] = declared[y]
          BY <1>1, <2>1, <2>6, <4>2 DEF TypeOK
        <5>2. QED BY <1>1, <5>1 DEF ChecksAgree
      <4>3. QED BY <4>1, <4>2
    <3>2. QED BY <3>1 DEF ChecksAgree
  <2>9. QED BY <2>4, <2>5, <2>7, <2>8 DEF IInv
<1>4. CASE ~fits
  <2>1. /\ go' = go /\ sx' = sx /\ declared' = declared
        /\ "go" \in failed' /\ "sx" \in failed'
    BY <1>2, <1>4 DEF GoKeeps, SxKeeps
  <2>2. failed' = Engines /\ failed' # {}
    BY <2>1 DEF Engines
  <2>3. TypeOK'
    BY <1>1, <2>1, <2>2 DEF TypeOK
  <2>4. QED BY <2>2, <2>3 DEF IInv, SameValues, TypesInferred, ChecksAgree
<1>5. QED BY <1>3, <1>4

LEMMA AssignInIInv ==
  ASSUME Ready, NEW x \in Names, NEW e \in Expr, Assign(x, e)
  PROVE  IInv'
<1> DEFINE v == GoValue(e)
           s == IF x \in Known THEN types[x] ELSE Inferred(e)
<1>1. /\ Allowed(e) /\ Assignable(x, e) /\ Store(x, e)
      /\ x \in Known /\ "unknown" \in {types[x], Inferred(e)} => Kept(x, v)
  BY DEF Assign
<1>2. v \in Value \cup {Failure} /\ SxValue(e) = v
  BY <1>1, BothValues DEF Allowed, Modelled
<1>3. /\ TypeOK /\ failed = {}
      /\ \A y \in Names : declared[y] # "unknown" => types[y] = declared[y]
  BY DEF Ready, IInv, ChecksAgree
<1>4. declared[x] \in Declarable \cup {"unknown"} /\ types[x] \in Types \cup {"unknown", "undefined"}
  BY <1>3 DEF TypeOK
<1>5. s \in Types \cup {"unknown"}
  BY <1>1, <1>4, InferredIsAType DEF Known
<1>6. types' = [types EXCEPT ![x] = s]
  BY <1>3 DEF Assign, TypeOK
<1>7. ASSUME v # Failure, s # "unknown"
      PROVE  v.type = s
  <2>1. CASE Inferred(e) # "unknown" /\ Inferred(e) = s
    BY <1>1, <1>7, <2>1, InferredIsRight
  <2>2. CASE x \in Known /\ Inferred(e) = "unknown"
    <3>1. v.type \in {go[x].type, "failure"}
      BY <1>1, <2>2 DEF Kept, Ready
    <3>2. v.type \in Types /\ go[x].type = types[x]
      BY <1>2, <1>7, <2>2, ValueParts, KnownValues
    <3>3. QED BY <2>2, <3>1, <3>2 DEF Types
  <2>3. QED BY <1>1, <1>7, <2>1, <2>2 DEF Assignable
<1>8. declared[x] # "unknown" => s = declared[x]
  BY <1>3, <1>4, DeclarableAssumption DEF Known
<1>9. v # Failure => declared[x] \in {"unknown", v.type}
  BY <1>4, <1>7, <1>8
<1>10. /\ GoKeeps(x, v, declared[x]) /\ SxKeeps(x, v, "unknown")
       /\ failed' \in SUBSET Engines /\ UNCHANGED branch
  BY <1>1, <1>2 DEF Store
<1>11. QED
  BY <1>2, <1>4, <1>5, <1>6, <1>7, <1>8, <1>9, <1>10, Stores

LEMMA DeclareInIInv ==
  ASSUME Ready, NEW x \in Names, NEW t \in Declarable, NEW e \in Expr, Declare(x, t, e)
  PROVE  IInv'
<1> DEFINE v == GoValue(e)
<1>1. v \in Value \cup {Failure} /\ SxValue(e) = v
  BY BothValues DEF Allowed, Modelled, Declare
<1>2. t \in Types /\ t # "unknown"
  BY DeclarableAssumption DEF Types
<1>3. /\ GoKeeps(x, v, t) /\ SxKeeps(x, v, t)
      /\ failed' \in SUBSET Engines /\ UNCHANGED branch
      /\ types' = [types EXCEPT ![x] = t]
  BY <1>1 DEF Declare
<1>4. v # Failure /\ t \in {"unknown", v.type} => v.type = t
  BY <1>2
<1>5. QED BY <1>1, <1>2, <1>3, <1>4, Stores

LEMMA CompoundInIInv ==
  ASSUME Ready, NEW x \in Names, NEW y \in Names, NEW op \in Compounds, Compound(x, op, y)
  PROVE  IInv'
<1> DEFINE e == [op |-> op, left |-> x, right |-> y]
           v == GoValue(e)
<1>1. Allowed(e) /\ Kept(x, v) /\ Store(x, e) /\ types' = types
  BY DEF Compound
<1>2. e \in Expr
  BY DEF Expr, Compounds, Arithmetic
<1>3. x \in Known
  <2>1. x \in Mentioned(e)
    BY DEF Mentioned
  <2>2. QED BY <1>1, <2>1 DEF Allowed, Modelled
<1>4. v \in Value \cup {Failure} /\ SxValue(e) = v
  BY <1>1, <1>2, BothValues DEF Allowed, Modelled
<1>5. /\ TypeOK /\ failed = {}
      /\ declared[x] # "unknown" => types[x] = declared[x]
  BY DEF Ready, IInv, ChecksAgree
<1>6. /\ declared[x] \in Declarable \cup {"unknown"}
      /\ types[x] \in Types \cup {"unknown"}
      /\ types' = [types EXCEPT ![x] = types[x]]
  BY <1>1, <1>3, <1>5, KnownValues DEF TypeOK
<1>7. ASSUME v # Failure, types[x] # "unknown"
      PROVE  v.type = types[x]
  <2>1. v.type \in {go[x].type, "failure"}
    BY <1>1 DEF Kept, Ready
  <2>2. v.type \in Types /\ go[x].type = types[x]
    BY <1>3, <1>4, <1>7, ValueParts, KnownValues
  <2>3. QED BY <2>1, <2>2 DEF Types
<1>8. v # Failure => declared[x] \in {"unknown", v.type}
  BY <1>5, <1>6, <1>7, DeclarableAssumption
<1>9. /\ GoKeeps(x, v, declared[x]) /\ SxKeeps(x, v, "unknown")
      /\ failed' \in SUBSET Engines /\ UNCHANGED branch
  BY <1>1, <1>4 DEF Store
<1>10. QED BY <1>4, <1>5, <1>6, <1>7, <1>8, <1>9, Stores

LEMMA IfInIInv ==
  ASSUME Ready, NEW x \in Names, If(x)
  PROVE  IInv'
<1>1. x \in Known /\ go[x].type # "error"
  BY DEF If, Ready
<1>2. GoTruthy(go[x]) = SxTruthy(sx[x])
  BY <1>1, KnownValues, BothTruths
<1>3. UNCHANGED <<types, declared, go, sx, failed>>
  BY DEF If
<1>4. branch' \in [go : BOOLEAN, sx : BOOLEAN] /\ branch'.go = branch'.sx
  BY <1>2 DEF If, Engines, GoTruthy, SxTruthy
<1>5. QED BY <1>3, <1>4
    DEF Ready, IInv, TypeOK, SameValues, TypesInferred, ChecksAgree, Known

LEMMA InitIInv ==
  ASSUME Init
  PROVE  IInv
<1>1. Known = {}
  BY DEF Init, Known
<1>2. TypeOK
  BY DEF Init, TypeOK, Engines
<1>3. QED BY <1>1, <1>2 DEF Init, IInv, SameValues, TypesInferred, ChecksAgree

LEMMA NextIInv ==
  ASSUME Careless = FALSE, IInv, [Next]_vars
  PROVE  IInv'
<1>1. CASE Next
  <2>1. Ready
    BY <1>1 DEF Next, Ready
  <2>2. QED
    BY <1>1, <2>1, AssignInIInv, DeclareInIInv, CompoundInIInv, IfInIInv DEF Next
<1>2. CASE UNCHANGED vars
  BY <1>2 DEF vars, IInv, TypeOK, SameValues, TypesInferred, ChecksAgree, Known
<1>3. QED BY <1>1, <1>2

THEOREM InvariantHolds ==
  ASSUME Careless = FALSE
  PROVE  Spec => []IInv
<1>1. Init => IInv
  BY InitIInv
<1>2. IInv /\ [Next]_vars => IInv'
  BY NextIInv
<1>3. QED BY <1>1, <1>2, PTL DEF Spec

(* Both engines compute the same values, take the same branches and fail at *)
(* the same statements, in programs that use what they take alike.          *)
THEOREM EnginesAgree ==
  ASSUME Careless = FALSE
  PROVE  Spec => []SameValues
<1>1. IInv => SameValues
  BY DEF IInv
<1>2. QED BY <1>1, InvariantHolds, PTL

(* The type that the analyzer has inferred is that of the value, in both    *)
(* engines, in such programs.                                               *)
THEOREM InferenceIsSound ==
  ASSUME Careless = FALSE
  PROVE  Spec => []TypesInferred
<1>1. IInv => TypesInferred
  BY DEF IInv
<1>2. QED BY <1>1, InvariantHolds, PTL

-----------------------------------------------------------------------------
(* Types that stay.                                                        *)

TypesStay ==
  \A x \in Known :
    types'[x] = types[x] => go'[x].type = go[x].type /\ sx'[x].type = sx[x].type

\* A statement that changes x at most, to a value of the type that x had.
LEMMA StoresOfSameType ==
  ASSUME Ready, NEW x \in Names, NEW v, NEW t, NEW u,
         GoKeeps(x, v, t), SxKeeps(x, v, u),
         x \in Known /\ v # Failure /\ types'[x] = types[x]
           /\ (t \in {"unknown", v.type} \/ u \in {"unknown", v.type}) =>
             v.type = go[x].type
  PROVE  TypesStay
<1>1. /\ go \in [Names -> Value \cup {Missing}] /\ sx = go
  BY DEF Ready, IInv, SameValues, TypeOK
<1>2. ASSUME NEW y \in Known, types'[y] = types[y]
      PROVE  go'[y].type = go[y].type /\ sx'[y].type = sx[y].type
  <2>1. y \in Names
    BY DEF Known
  <2>2. CASE y # x
    BY <1>1, <2>1, <2>2 DEF GoKeeps, SxKeeps
  <2>3. CASE y = x
    <3>1. \/ go'[x] = go[x]
          \/ go'[x] = v /\ v # Failure /\ t \in {"unknown", v.type}
      BY <1>1 DEF GoKeeps
    <3>2. \/ sx'[x] = sx[x]
          \/ sx'[x] = v /\ v # Failure /\ u \in {"unknown", v.type}
      BY <1>1 DEF SxKeeps
    <3>3. QED BY <1>1, <1>2, <2>3, <3>1, <3>2
  <2>4. QED BY <2>2, <2>3
<1>3. QED BY <1>2 DEF TypesStay

LEMMA StepsKeepTypes ==
  ASSUME Careless = FALSE, IInv, [Next]_vars
  PROVE  TypesStay
<1>1. CASE UNCHANGED vars
  BY <1>1 DEF vars, TypesStay
<1>2. CASE Next
  <2>1. Ready
    BY <1>2 DEF Next, Ready
  <2>2. ASSUME NEW x \in Names, NEW e \in Expr, Assign(x, e)
        PROVE  TypesStay
    <3> DEFINE v == GoValue(e)
    <3>1. /\ Allowed(e) /\ Assignable(x, e)
          /\ x \in Known /\ "unknown" \in {types[x], Inferred(e)} => Kept(x, v)
      BY <2>2 DEF Assign
    <3>2. v \in Value \cup {Failure} /\ SxValue(e) = v
      BY <2>1, <3>1, BothValues DEF Allowed, Modelled
    <3>3. GoKeeps(x, v, declared[x]) /\ SxKeeps(x, v, "unknown")
      BY <2>2, <3>2 DEF Assign, Store
    <3>4. ASSUME x \in Known, v # Failure
          PROVE  v.type = go[x].type
      <4>1. CASE "unknown" \in {types[x], Inferred(e)}
        <5>1. v.type \in {go[x].type, "failure"}
          BY <2>1, <3>1, <3>4, <4>1 DEF Kept, Ready
        <5>2. v.type \in Types
          BY <3>2, <3>4, ValueParts
        <5>3. QED BY <5>1, <5>2 DEF Types
      <4>2. CASE "unknown" \notin {types[x], Inferred(e)}
        <5>1. Inferred(e) = types[x] /\ types[x] # "unknown"
          BY <3>1, <3>4, <4>2 DEF Assignable
        <5>2. v.type = Inferred(e)
          BY <2>1, <3>1, <3>4, <4>2, InferredIsRight
        <5>3. QED BY <2>1, <3>4, <5>1, <5>2, KnownValues
      <4>3. QED BY <4>1, <4>2
    <3>5. QED BY <2>1, <3>3, <3>4, StoresOfSameType
  <2>3. ASSUME NEW x \in Names, NEW t \in Declarable, NEW e \in Expr, Declare(x, t, e)
        PROVE  TypesStay
    <3> DEFINE v == GoValue(e)
    <3>1. SxValue(e) = v
      BY <2>1, <2>3, BothValues DEF Declare
    <3>2. GoKeeps(x, v, t) /\ SxKeeps(x, v, t)
      BY <2>3, <3>1 DEF Declare
    <3>3. t # "unknown"
      BY DeclarableAssumption
    <3>4. x \in Known /\ types'[x] = types[x] => go[x].type = t
      <4>1. types' = [types EXCEPT ![x] = t] /\ types \in [Names -> Types \cup {"unknown", "undefined"}]
        BY <2>1, <2>3 DEF Declare, Ready, IInv, TypeOK
      <4>2. QED BY <2>1, <3>3, <4>1, KnownValues
    <3>5. QED BY <2>1, <3>2, <3>3, <3>4, StoresOfSameType
  <2>4. ASSUME NEW x \in Names, NEW y \in Names, NEW op \in Compounds, Compound(x, op, y)
        PROVE  TypesStay
    <3> DEFINE e == [op |-> op, left |-> x, right |-> y]
               v == GoValue(e)
    <3>1. Allowed(e) /\ Kept(x, v) /\ Store(x, e)
      BY <2>4 DEF Compound
    <3>2. e \in Expr
      BY DEF Expr, Compounds, Arithmetic
    <3>3. v \in Value \cup {Failure} /\ SxValue(e) = v
      BY <2>1, <3>1, <3>2, BothValues DEF Allowed, Modelled
    <3>4. GoKeeps(x, v, declared[x]) /\ SxKeeps(x, v, "unknown")
      BY <3>1, <3>3 DEF Store
    <3>5. ASSUME v # Failure
          PROVE  v.type = go[x].type
      <4>1. v.type \in Types
        BY <3>3, <3>5, ValueParts
      <4>2. v.type \in {go[x].type, "failure"}
        BY <2>1, <3>1 DEF Kept, Ready
      <4>3. QED BY <4>1, <4>2 DEF Types
    <3>6. QED BY <2>1, <3>4, <3>5, StoresOfSameType
  <2>5. ASSUME NEW x \in Names, If(x)
        PROVE  TypesStay
    BY <2>5 DEF If, TypesStay
  <2>6. QED BY <1>2, <2>2, <2>3, <2>4, <2>5 DEF Next
<1>3. QED BY <1>1, <1>2

(* Only a new declaration changes the type of a variable, in such programs. *)
THEOREM TypesAreKept ==
  ASSUME Careless = FALSE
  PROVE  Spec => KeepsItsType
<1>1. IInv /\ [Next]_vars => [TypesStay]_vars
  BY StepsKeepTypes
<1>2. QED BY <1>1, InvariantHolds, PTL DEF Spec, KeepsItsType, TypesStay
=============================================================================
