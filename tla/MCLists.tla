------------------------------ MODULE MCLists ------------------------------
(* Lists with small programs.                                               *)
EXTENDS Lists

CONSTANT junk

Num(n) == [type |-> "num", size |-> n]
Str(n) == [type |-> "str", size |-> n]

\* bool < dict < error < fn < list < null < num < str
TypeNames == [bool |-> 1, dict |-> 2, error |-> 3, fn |-> 4,
              list |-> 5, null |-> 6, num |-> 7, str |-> 8]

SmallItems == {Num(2), Str(1)}
OddItems == {Str(1)}

SomeLiterals == {<< >>, <<Str(1), Num(2)>>, <<Num(2), Str(1), Num(2)>>}

Op(do) == Operation(do, 0, 0, Num(2))

\* What the two engines agree on outside loops.
PlainOperations ==
  {Op(do) : do \in {"reverse", "sort", "reversed", "concat", "index_of"}}
    \cup {Operation("push", 0, 0, x) : x \in SmallItems}
    \cup {Operation("get", i, 0, Num(2)) : i \in {-2, 3}}
    \cup {Operation("pop", i, 0, Num(2)) : i \in {0, 1}}
    \cup {Operation("set", i, 0, Str(1)) : i \in {-1, 1}}
    \cup {Operation("insert", i, 0, Num(2)) : i \in {-1, 3}}
    \cup {Operation("slice", i, j, Num(2)) : i \in {-2, 1}, j \in {0, 2}}

\* Bodies that leave the length alone, and for statements that only push.
PlainLoops ==
  {LoopOf(kind, {Num(2)}, body) :
     kind \in {"for", "filter", "reduce"},
     body \in {Op("reverse"), Op("sort"), Operation("set", -1, 0, Num(2))}}
    \cup {LoopOf("for", when, Operation("push", 0, 0, Num(2))) :
            when \in {SmallItems, {Num(2)}}}

\* Loops that the two engines run differently, one kind after the other, as
\* values of Loops; PlainProgram refuses both.
PushingLoops == {LoopOf("map", {Num(2)}, Operation("push", 0, 0, Num(2)))}
PoppingLoops == {LoopOf("for", {Num(2)}, Operation("pop", 0, 0, Num(2)))}

\* The promises are about this program.
ASSUME PlainProgram == NoneRunsAway /\ NoneFails /\ AlikeProgram
=============================================================================
