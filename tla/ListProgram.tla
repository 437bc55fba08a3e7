---------------------------- MODULE ListProgram ----------------------------
(***************************************************************************)
(* The program that the list models run: operations on one list, and loops *)
(* over it whose body is one such operation.  What a statement answers is  *)
(* a record, so that the answers of the two engines can be compared.       *)
(***************************************************************************)
EXTENDS Integers, Sequences

CONSTANTS
  Items,     \* the values a program keeps in its list: [type, size] records;
             \* of a list, dict, fn or error the size tells which object it is
  Junk,      \* what a place of an array holds before it is first written
  MaxLen,    \* the longest list there is memory for
  Kept       \* the items the function given to filter answers true for

\* SxType
TypeTags == [null |-> 0, num |-> 1, str |-> 2, bool |-> 3,
             list |-> 4, dict |-> 5, fn |-> 6, error |-> 7]

ASSUME ItemsAssumption ==
  /\ Items \subseteq [type : DOMAIN TypeTags, size : Int]
  /\ Junk \notin Items
  /\ MaxLen \in Nat
  /\ Kept \subseteq Items

\* n cells of memory that nobody has written.
Unwritten(n) == [i \in 1 .. n |-> Junk]

\* An operation: do[at] = item, or do(at, to), whatever of it do needs.
Operation(do, at, to, item) == [do |-> do, at |-> at, to |-> to, item |-> item]

OperationSet ==
  [do : {"push", "get", "set", "pop", "insert", "reverse", "sort", "slice",
         "reversed", "concat", "index_of"},
   at : Int, to : Int, item : Items]

\* A loop that runs the operation body at the items of when.
LoopOf(kind, when, body) == [kind |-> kind, when |-> when, body |-> body]

LoopKinds == {"for", "map", "filter", "reduce", "each"}
LoopSet == [kind : LoopKinds, when : SUBSET Items, body : OperationSet]

\* The loop a program is in: the place it goes to next, the length it asked
\* for at the start, the items it has met, and those it has put into the list
\* that map and filter build.
Entered(l, len) ==
  [kind |-> l.kind, when |-> l.when, body |-> l.body,
   next |-> 0, limit |-> len, seen |-> << >>, built |-> << >>]

EnteredSet ==
  [kind : LoopKinds, when : SUBSET Items, body : OperationSet,
   next : Nat, limit : Nat, seen : Seq(Items), built : Seq(Items)]

\* The loop after its turn at an item.
Passed(l, item) ==
  [l EXCEPT !.next = @ + 1, !.seen = Append(@, item),
            !.built = IF l.kind = "filter" /\ item \notin Kept THEN @
                      ELSE Append(@, item)]

Answer(kind, items, at) == [kind |-> kind, items |-> items, at |-> at]
Nothing == Answer("none", << >>, 0)
Failed == Answer("error", << >>, 0)
Panicked == Answer("panic", << >>, 0)

\* What a loop leaves behind: the list that filter and map built; of the
\* others the items they met, in their order, which decide what reduce returns.
LoopAnswer(l) == Answer(l.kind, l.built, 0)
=============================================================================
