---------------------------- MODULE OrderedList ----------------------------
(***************************************************************************)
(* What a Sintax list promises, whichever engine runs the program: an      *)
(* ordered, mutable sequence of values (docs/collections.md).  An          *)
(* operation writes one place, makes or closes one gap, or puts the values *)
(* in another order; it never loses or duplicates a value otherwise.       *)
(***************************************************************************)
EXTENDS Naturals, Sequences, Functions

CONSTANT Items

VARIABLE list

\* A list starts as its literal says.
Init == list \in Seq(Items)

Write(i, x) == list' = [list EXCEPT ![i] = x]

Widened(i, x) ==
  [j \in 1 .. Len(list) + 1 |->
     IF j < i THEN list[j] ELSE IF j = i THEN x ELSE list[j - 1]]

Insert(i, x) == list' = Widened(i, x)

Remove(i) ==
  list' = [j \in 1 .. Len(list) - 1 |->
             IF j < i THEN list[j] ELSE list[j + 1]]

\* sort and reverse
Rearrange ==
  \E p \in Bijection(DOMAIN list, DOMAIN list) : list' = [i \in DOMAIN list |-> list[p[i]]]

Next ==
  \/ \E i \in DOMAIN list, x \in Items : Write(i, x)
  \/ \E i \in 1 .. Len(list) + 1, x \in Items : Insert(i, x)
  \/ \E i \in DOMAIN list : Remove(i)
  \/ Rearrange

Spec == Init /\ [][Next]_list
=============================================================================
