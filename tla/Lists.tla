------------------------------- MODULE Lists -------------------------------
(***************************************************************************)
(* One program with a list, run by both engines.  They start every         *)
(* statement together; inside a loop each goes its own way, and they meet  *)
(* again when both have left it.  They share nothing, so that it does not  *)
(* matter whose turns come first: the compiled program has its before the  *)
(* interpreter.                                                            *)
(***************************************************************************)
EXTENDS SxList, GoList

CONSTANTS
  Literals,   \* the lists a program starts with
  Operations, \* the operations it may contain
  Loops       \* the loops it may contain

vars == <<slist, sloop, sret, glist, gview, gloop, gret>>

ASSUME ProgramAssumption ==
  /\ Literals \subseteq Seq(Items)
  /\ \A lit \in Literals : Len(lit) <= MaxLen
  /\ Operations \subseteq OperationSet
  /\ Loops \subseteq LoopSet

Init == \E lit \in Literals : SxLists(lit) /\ GoLists(lit)

Idle == sloop = << >> /\ gloop = << >>
Running == sret /= Failed /\ gret \notin {Failed, Panicked}

Growing == {"push", "insert"}

\* Every statement is small enough for the memory there is.
Fits(op, times) == op.do \in Growing => slist.len + times <= MaxLen

Operate(op) ==
  /\ Idle /\ Running
  /\ Fits(op, 1)
  /\ SxDo(op)
  /\ GoDo(op)
  /\ UNCHANGED <<sloop, gloop>>

Enter(l) ==
  /\ Idle /\ Running
  /\ Fits(l.body, slist.len)
  /\ SxStart(l)
  /\ GoStart(l)

SxStep == (SxTurn \/ SxLoopEnd) /\ UNCHANGED goVars
GoStep == sloop = << >> /\ (GoTurn \/ GoLoopEnd) /\ UNCHANGED sxVars

Next ==
  \/ \E op \in Operations : Operate(op)
  \/ \E l \in Loops : Enter(l)
  \/ SxStep
  \/ GoStep

Spec == Init /\ [][Next]_vars /\ WF_vars(SxStep) /\ WF_vars(GoStep)

-----------------------------------------------------------------------------
(* Which programs the promises are about.                                  *)

\* Loops that cannot run away: of those that read the length again in every
\* turn, none whose body makes the list longer.
NoneRunsAway == \A l \in Loops : l.kind = "for" \/ l.body.do \notin Growing

\* The first and the last element are there as long as any is; a for statement
\* has an index for every element it found at the start; and Enter says that
\* there is memory for one more element in each of its turns.
CannotFail(l) ==
  \/ l.body.do \in {"reverse", "sort", "slice", "reversed", "concat", "index_of"}
  \/ l.body.do \in {"get", "set"} /\ l.body.at \in {-1, 0}
  \/ l.body.do = "pop" /\ l.body.at \in {-1, 0} /\ l.kind # "for"
  \/ l.body.do \in Growing /\ l.kind = "for"

NoneFails == \A l \in Loops : CannotFail(l)

\* Both engines compare the items alike, and no two compare as equal.
OrdersAgree == \A a, b \in Items : SxCompare(a, b) <= 0 <=> GoCompare(a, b) <= 0
NoTies == \A a, b \in Items : SxCompare(a, b) = 0 => a = b

\* Where the engines agree: pop and slice with ends that do not count from the
\* back, sort of items that both compare alike, and index_of of a value that is
\* no object (sx_eq finds no object equal to itself).
AgreeOn(op) ==
  /\ op.do = "pop" => op.at >= 0
  /\ op.do = "slice" => op.to >= 0
  /\ op.do = "sort" => OrdersAgree
  /\ op.do = "index_of" => op.item.type \in {"null", "num", "str", "bool"}

\* What sort gives is settled where no two items compare as equal.
Settled(op) == op.do = "sort" => NoTies

\* A program that both engines run alike: its operations are ones they agree
\* on, and so are the bodies of its loops; these leave the length alone, or
\* belong to a for statement and only push.
AlikeOp(op) == AgreeOn(op) /\ Settled(op)

AlikeLoop(l) ==
  /\ AlikeOp(l.body)
  /\ \/ l.body.do \notin Growing \cup {"pop"}
     \/ l.kind = "for" /\ l.body.do = "push"

AlikeProgram == (\A op \in Operations : AlikeOp(op)) /\ (\A l \in Loops : AlikeLoop(l))

-----------------------------------------------------------------------------
(* What the lists promise.                                                 *)

(* No place of either array is read before it was written, and the places  *)
(* in use never outnumber those allocated: sx_list_append and list_insert  *)
(* grow the array in time, and no loop reads past the list's end.          *)
TypeOK ==
  /\ slist.items \in Seq(Items \cup {Junk}) /\ glist.items \in Seq(Items \cup {Junk})
  /\ slist.len \in 0 .. Len(slist.items) /\ glist.len \in 0 .. Len(glist.items)
  /\ SxShown(slist) \in Seq(Items) /\ GoShown(glist) \in Seq(Items)
  /\ sret.items \in Seq(Items) /\ gret.items \in Seq(Items)
  /\ \A i \in DOMAIN sloop : sloop[i] \in EnteredSet
  /\ \A i \in DOMAIN gloop : gloop[i] \in EnteredSet

(* A statement answers the same in both engines and leaves the same list   *)
(* behind, a loop included: the two ways of going over a list that changes *)
(* meanwhile meet the same items.                                          *)
SameOutcome ==
  Idle => sret = gret /\ (Running => SxShown(slist) = GoShown(glist))

(* A loop has no more turns than the list had elements when it began.      *)
TurnsAreBounded ==
  \A i \in DOMAIN sloop : Len(sloop[i].seen) <= sloop[i].limit

(* Every loop comes to its end, or ends the program with an error.         *)
LoopsEnd == (sloop /= << >> ~> sloop = << >>) /\ (gloop /= << >> ~> gloop = << >>)

(* A for statement never fails on an index of its own making.              *)
LoopsSucceed ==
  [][\A i \in DOMAIN sloop : sloop' = << >> => sret' /= Failed]_vars

Abstract == INSTANCE OrderedList WITH list <- SxShown(slist)

(* The array of the C runtime is an ordered list of the program's values.  *)
ImplementsOrderedList == Abstract!Spec
=============================================================================
