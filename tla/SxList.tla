------------------------------- MODULE SxList -------------------------------
(***************************************************************************)
(* The list of compiled programs (SxList of runtime.h and the code of      *)
(* runtime.c and native.c that works on one): an array that is replaced by *)
(* a longer one when it is full, and the number of its places in use.      *)
(* Loops keep no copy of either: every turn reads the list as it is.       *)
(***************************************************************************)
EXTENDS ListProgram, SequencesExt

VARIABLES
  slist,     \* the list: [items, len]; the length of items is its capacity
  sloop,     \* << >>, or the loop the program is in, as a sequence of one
  sret       \* what the last statement answered: [kind, items, at]

sxVars == <<slist, sloop, sret>>

SxShown(l) == SubSeq(l.items, 1, l.len)

\* sx_compare: numbers and strings among themselves, else by type tag.
SxCompare(a, b) ==
  IF a.type = b.type /\ a.type \in {"num", "str"}
  THEN a.size - b.size
  ELSE TypeTags[a.type] - TypeTags[b.type]

\* sx_eq: two values of other types than these are never equal.
SxEqual(a, b) ==
  /\ a.type = b.type
  /\ \/ a.type \in {"num", "str", "bool"} /\ a.size = b.size
     \/ a.type = "null"

-----------------------------------------------------------------------------
(* The array.                                                              *)

SxNew == [items |-> << >>, len |-> 0]

\* if (len >= cap) { cap = cap == 0 ? 4 : cap * 2; items = realloc(...) }
Grown(l) ==
  LET more == IF Len(l.items) = 0 THEN 4 ELSE Len(l.items)
  IN  IF l.len >= Len(l.items)
      THEN l.items \o Unwritten(more)
      ELSE l.items

SxAppended(l, x) ==
  [items |-> [Grown(l) EXCEPT ![l.len + 1] = x], len |-> l.len + 1]

\* One sx_list_append for each element of a literal.
SxBuilt(lit) ==
  LET built[n \in 0 .. Len(lit)] ==
        IF n = 0 THEN SxNew ELSE SxAppended(built[n - 1], lit[n])
  IN  built[Len(lit)]

\* Slip: a negative index counts from one past the last element.
PlaceOffByOne(l, i) == IF i < 0 THEN i + l.len + 1 ELSE i

\* if (i < 0) i += len
Place(l, i) == IF i < 0 THEN i + l.len ELSE i
InRange(l, i) == Place(l, i) \in 0 .. l.len - 1

\* clamp_idx
Clamped(i, len) == Max({0, Min({len, IF i < 0 THEN i + len ELSE i})})

\* Slip: the shift stops one element early.
RemovedShort(l, p) ==
  [items |-> [k \in DOMAIN l.items |->
                IF k - 1 \in p .. l.len - 3 THEN l.items[k + 1] ELSE l.items[k]],
   len   |-> l.len - 1]

\* Everything after place p moves down by one; the last place keeps its item.
Removed(l, p) ==
  [items |-> [k \in DOMAIN l.items |->
                IF k - 1 \in p .. l.len - 2 THEN l.items[k + 1] ELSE l.items[k]],
   len   |-> l.len - 1]

\* Everything from place p on moves up by one.
Inserted(l, p, x) ==
  LET items == Grown(l)
  IN  [items |-> [k \in DOMAIN items |->
                    IF k - 1 = p THEN x
                    ELSE IF k - 1 \in p + 1 .. l.len THEN items[k - 1]
                    ELSE items[k]],
       len   |-> l.len + 1]

Reversed(l) ==
  [l EXCEPT !.items = [k \in DOMAIN l.items |->
                         IF k <= l.len THEN l.items[l.len + 1 - k]
                         ELSE l.items[k]]]

Rearranged(l, p) ==
  [l EXCEPT !.items = [k \in DOMAIN l.items |->
                         IF k <= l.len THEN l.items[p[k]] ELSE l.items[k]]]

\* qsort leaves items that compare equal in any order.
Sortings(l) ==
  {s \in {Rearranged(l, p) : p \in Bijection(1 .. l.len, 1 .. l.len)} :
     \A k \in 1 .. l.len - 1 : SxCompare(s.items[k], s.items[k + 1]) <= 0}

FirstOf(l, x) ==
  LET found == {k \in 1 .. l.len : SxEqual(l.items[k], x)}
  IN  IF found = {} THEN -1 ELSE Min(found) - 1

-----------------------------------------------------------------------------
(* The operations of a program on its list.                                *)

SxLists(lit) ==
  /\ slist = SxBuilt(lit)
  /\ sloop = << >>
  /\ sret = Nothing

SxFails == sret' = Failed /\ UNCHANGED slist

\* sx_list_append; sx_safe_realloc ends the program when memory is exhausted.
SxPush(x) ==
  IF slist.len = MaxLen
  THEN SxFails
  ELSE /\ slist' = SxAppended(slist, x)
       /\ sret' = Answer("list", SxShown(slist'), 0)

SxGet(i) ==
  IF InRange(slist, i)
  THEN sret' = Answer("item", <<slist.items[Place(slist, i) + 1]>>, 0) /\ UNCHANGED slist
  ELSE SxFails

SxSet(i, x) ==
  IF InRange(slist, i)
  THEN /\ slist' = [slist EXCEPT !.items[Place(slist, i) + 1] = x]
       /\ sret' = Answer("item", <<x>>, 0)
  ELSE SxFails

SxPop(i) ==
  IF InRange(slist, i)
  THEN /\ slist' = Removed(slist, Place(slist, i))
       /\ sret' = Answer("item", <<slist.items[Place(slist, i) + 1]>>, 0)
  ELSE SxFails

SxInsert(i, x) ==
  IF slist.len = MaxLen
  THEN SxFails
  ELSE /\ slist' = Inserted(slist, Clamped(i, slist.len), x)
       /\ sret' = Answer("list", SxShown(slist'), 0)

SxReverse ==
  /\ slist' = Reversed(slist)
  /\ sret' = Answer("list", SxShown(slist'), 0)

SxSort ==
  \E s \in Sortings(slist) :
     /\ slist' = s
     /\ sret' = Answer("list", SxShown(slist'), 0)

\* slice, list.reverse() and list_concat build a list of their own.
SxSlice(i, j) ==
  /\ sret' = Answer("list", SubSeq(slist.items, Clamped(i, slist.len) + 1,
                                   Clamped(j, slist.len)), 0)
  /\ UNCHANGED slist

SxReversedCopy ==
  /\ sret' = Answer("list", SxShown(Reversed(slist)), 0)
  /\ UNCHANGED slist

SxConcat ==
  /\ sret' = Answer("list", SxShown(slist) \o SxShown(slist), 0)
  /\ UNCHANGED slist

\* index_of, contains and in.
SxIndexOf(x) ==
  /\ sret' = Answer("num", << >>, FirstOf(slist, x))
  /\ UNCHANGED slist

SxDo(op) ==
  \/ op.do = "push" /\ SxPush(op.item)
  \/ op.do = "get" /\ SxGet(op.at)
  \/ op.do = "set" /\ SxSet(op.at, op.item)
  \/ op.do = "pop" /\ SxPop(op.at)
  \/ op.do = "insert" /\ SxInsert(op.at, op.item)
  \/ op.do = "reverse" /\ SxReverse
  \/ op.do = "sort" /\ SxSort
  \/ op.do = "slice" /\ SxSlice(op.at, op.to)
  \/ op.do = "reversed" /\ SxReversedCopy
  \/ op.do = "concat" /\ SxConcat
  \/ op.do = "index_of" /\ SxIndexOf(op.item)

-----------------------------------------------------------------------------
(* Loops: the statement for, whose compiled form asks for the length once, *)
(* and map, filter, reduce and each, which read it again in every turn.    *)
(* The body runs the operation "body" at the items of "when".              *)

SxLoop == sloop[1]

SxStart(l) ==
  /\ sloop' = <<Entered(l, slist.len)>>
  /\ sret' = Nothing
  /\ UNCHANGED slist

\* Slip: the loop goes up to the length it asked for, included.
GoesOnPastEnd == SxLoop.next <= SxLoop.limit

\* Slip: a for statement, too, goes on while there are elements.
GoesOnWhileAny == SxLoop.next < slist.len

SxGoesOn ==
  SxLoop.next < IF SxLoop.kind = "for" THEN SxLoop.limit ELSE slist.len

\* Slip: the step to the next place is left out.
PassedInPlace(l, item) == [l EXCEPT !.seen = <<item>>]

SxPassed(l, item) == Passed(l, item)

SxTurn ==
  /\ sloop /= << >>
  /\ SxGoesOn
  /\ IF SxLoop.next < slist.len
     THEN LET item == slist.items[SxLoop.next + 1]
          IN  /\ IF item \in SxLoop.when
                 THEN SxDo(SxLoop.body)
                 ELSE UNCHANGED <<slist, sret>>
              /\ sloop' = IF sret' = Failed THEN << >>
                          ELSE <<SxPassed(SxLoop, item)>>
     ELSE SxFails /\ sloop' = << >>

SxLoopEnd ==
  /\ sloop /= << >>
  /\ ~ SxGoesOn
  /\ sret' = LoopAnswer(SxLoop)
  /\ sloop' = << >>
  /\ UNCHANGED slist
=============================================================================
