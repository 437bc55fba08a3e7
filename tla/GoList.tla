------------------------------- MODULE GoList -------------------------------
(***************************************************************************)
(* The list of the interpreter (object.ListObj and the code of evaluator/  *)
(* that works on one): a Go slice, that is an array and the number of its  *)
(* elements in use.  A loop goes over a copy of the slice header: it has   *)
(* the length the list had, and shares its array until an append that      *)
(* finds no room gives the list another one.                               *)
(***************************************************************************)
EXTENDS ListProgram, SequencesExt

CONSTANTS GoOrder    \* the order of the type names as strings

ASSUME GoOrderAssumption ==
  /\ GoOrder \in [DOMAIN TypeTags -> Int]
  /\ \A s, t \in DOMAIN TypeTags : GoOrder[s] = GoOrder[t] => s = t

VARIABLES
  glist,     \* Elements: [items, len]
  gview,     \* the array of the running loop's header: [shared, items]
  gloop,     \* << >>, or the loop the program is in
  gret       \* what the last statement answered

goVars == <<glist, gview, gloop, gret>>

Shared == [shared |-> TRUE, items |-> << >>]

GoShown(l) == SubSeq(l.items, 1, l.len)

\* compareObjects: numbers and strings among themselves, else by type name.
GoCompare(a, b) ==
  IF a.type = b.type /\ a.type \in {"num", "str"}
  THEN a.size - b.size
  ELSE GoOrder[a.type] - GoOrder[b.type]

\* objectsEqual: objects of other types than num, str, bool and null are equal
\* to themselves.
GoEqual(a, b) == a.type = b.type /\ (a.type = "null" \/ a.size = b.size)

\* append's growth of a short slice.
GoGrown(items) == items \o Unwritten(Max({1, Len(items)}))

\* append: a full array is left to whoever still looks at it.
Reallocated ==
  gview' = IF glist.len = Len(glist.items) /\ gview.shared
           THEN [shared |-> FALSE, items |-> glist.items]
           ELSE gview

GoAppended(l, x) ==
  LET items == IF l.len = Len(l.items) THEN GoGrown(l.items) ELSE l.items
  IN  [items |-> [items EXCEPT ![l.len + 1] = x], len |-> l.len + 1]

GoPlace(l, i) == IF i < 0 THEN i + l.len ELSE i

\* clampSlice
ClampedFrom(i, len) == Max({0, IF i < 0 THEN i + len ELSE i})
ClampedTo(j, len) == Min({len, IF j < 0 THEN j + len ELSE j})

\* append(Elements[:p], Elements[p+1:]...)
GoRemoved(l, p) ==
  [items |-> [k \in DOMAIN l.items |->
                IF k \in p + 1 .. l.len - 1 THEN l.items[k + 1] ELSE l.items[k]],
   len   |-> l.len - 1]

\* copy(Elements[p+1:], Elements[p:])
GoInserted(l, p, x) ==
  LET grown == GoAppended(l, x)
  IN  [grown EXCEPT !.items = [k \in DOMAIN grown.items |->
                                 IF k = p + 1 THEN x
                                 ELSE IF k \in p + 2 .. grown.len
                                 THEN grown.items[k - 1] ELSE grown.items[k]]]

GoReversed(l) ==
  [l EXCEPT !.items = [k \in DOMAIN l.items |->
                         IF k <= l.len THEN l.items[l.len + 1 - k]
                         ELSE l.items[k]]]

\* sortList is an insertion sort: the place of an item is the number of items
\* below it, and of those equal to it that do not come after it.
Rank(l, k) ==
  Cardinality({j \in 1 .. l.len :
                 \/ GoCompare(l.items[j], l.items[k]) < 0
                 \/ GoCompare(l.items[j], l.items[k]) = 0 /\ j <= k})

GoSorted(l) ==
  [l EXCEPT !.items =
     [i \in DOMAIN l.items |->
        IF i <= l.len
        THEN l.items[CHOOSE k \in 1 .. l.len : Rank(l, k) = i]
        ELSE l.items[i]]]

GoFirstOf(l, x) ==
  LET found == {k \in 1 .. l.len : GoEqual(l.items[k], x)}
  IN  IF found = {} THEN -1 ELSE Min(found) - 1

-----------------------------------------------------------------------------
(* The operations of a program on its list.                                *)

GoLists(lit) ==
  /\ glist = [items |-> lit, len |-> Len(lit)]
  /\ gview = Shared
  /\ gloop = << >>
  /\ gret = Nothing

GoFails == gret' = Failed /\ UNCHANGED <<glist, gview>>

GoPush(x) ==
  IF glist.len = MaxLen
  THEN GoFails
  ELSE /\ glist' = GoAppended(glist, x)
       /\ Reallocated
       /\ gret' = Answer("list", GoShown(glist'), 0)

GoGet(i) ==
  IF GoPlace(glist, i) \in 0 .. glist.len - 1
  THEN /\ gret' = Answer("item", <<glist.items[GoPlace(glist, i) + 1]>>, 0)
       /\ UNCHANGED <<glist, gview>>
  ELSE GoFails

GoSet(i, x) ==
  IF GoPlace(glist, i) \in 0 .. glist.len - 1
  THEN /\ glist' = [glist EXCEPT !.items[GoPlace(glist, i) + 1] = x]
       /\ gret' = Answer("item", <<x>>, 0)
       /\ UNCHANGED gview
  ELSE GoFails

\* pop takes no negative index.
GoPop(i) ==
  IF i \in 0 .. glist.len - 1
  THEN /\ glist' = GoRemoved(glist, i)
       /\ gret' = Answer("item", <<glist.items[i + 1]>>, 0)
       /\ UNCHANGED gview
  ELSE GoFails

GoInsert(i, x) ==
  IF glist.len = MaxLen
  THEN GoFails
  ELSE /\ glist' = GoInserted(glist, ClampedTo(ClampedFrom(i, glist.len), glist.len), x)
       /\ Reallocated
       /\ gret' = Answer("list", GoShown(glist'), 0)

GoReverse ==
  /\ glist' = GoReversed(glist)
  /\ gret' = Answer("list", GoShown(glist'), 0)
  /\ UNCHANGED gview

GoSort ==
  /\ glist' = GoSorted(glist)
  /\ gret' = Answer("list", GoShown(glist'), 0)
  /\ UNCHANGED gview

\* An end that is still negative makes the slice expression panic.
GoSlice(i, j) ==
  LET to   == ClampedTo(j, glist.len)
      from == Min({to, ClampedFrom(i, glist.len)})
  IN  /\ gret' = IF to < 0 THEN Panicked
                 ELSE Answer("list", SubSeq(glist.items, from + 1, to), 0)
      /\ UNCHANGED <<glist, gview>>

GoReversedCopy ==
  /\ gret' = Answer("list", GoShown(GoReversed(glist)), 0)
  /\ UNCHANGED <<glist, gview>>

GoConcat ==
  /\ gret' = Answer("list", GoShown(glist) \o GoShown(glist), 0)
  /\ UNCHANGED <<glist, gview>>

GoIndexOf(x) ==
  /\ gret' = Answer("num", << >>, GoFirstOf(glist, x))
  /\ UNCHANGED <<glist, gview>>

GoDo(op) ==
  \/ op.do = "push" /\ GoPush(op.item)
  \/ op.do = "get" /\ GoGet(op.at)
  \/ op.do = "set" /\ GoSet(op.at, op.item)
  \/ op.do = "pop" /\ GoPop(op.at)
  \/ op.do = "insert" /\ GoInsert(op.at, op.item)
  \/ op.do = "reverse" /\ GoReverse
  \/ op.do = "sort" /\ GoSort
  \/ op.do = "slice" /\ GoSlice(op.at, op.to)
  \/ op.do = "reversed" /\ GoReversedCopy
  \/ op.do = "concat" /\ GoConcat
  \/ op.do = "index_of" /\ GoIndexOf(op.item)

-----------------------------------------------------------------------------
(* for, map, filter, reduce and each: all range over the header.           *)

GoLoop == gloop[1]
Viewed == IF gview.shared THEN glist.items ELSE gview.items

GoStart(l) ==
  /\ gloop' = <<Entered(l, glist.len)>>
  /\ gview' = Shared
  /\ gret' = Nothing
  /\ UNCHANGED glist

GoTurn ==
  /\ gloop /= << >>
  /\ GoLoop.next < GoLoop.limit
  /\ LET item == Viewed[GoLoop.next + 1]
     IN  /\ IF item \in GoLoop.when
            THEN GoDo(GoLoop.body)
            ELSE UNCHANGED <<glist, gview, gret>>
         /\ gloop' = IF gret' \in {Failed, Panicked} THEN << >>
                     ELSE <<Passed(GoLoop, item)>>

GoLoopEnd ==
  /\ gloop /= << >>
  /\ GoLoop.next >= GoLoop.limit
  /\ gret' = LoopAnswer(GoLoop)
  /\ gloop' = << >>
  /\ gview' = Shared
  /\ UNCHANGED glist
=============================================================================
