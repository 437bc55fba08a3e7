----------------------------- MODULE OrderedMap -----------------------------
(***************************************************************************)
(* What a Sintax dictionary promises, whichever engine runs the program: a *)
(* map from keys to values that remembers the order in which its keys were *)
(* first inserted (docs/collections.md).  Writing a key that is present    *)
(* keeps its place; deleting it and writing it again moves it to the end.  *)
(* SxDict (the hash table of the C runtime) and DictObj (the map and key   *)
(* slice of the Go interpreter) are shown to implement it.                 *)
(***************************************************************************)
EXTENDS Naturals, Sequences

CONSTANTS Keys, Vals

VARIABLE entries    \* the pairs of the map, in insertion order

Entry == [key : Keys, value : Vals]

TypeOK == entries \in Seq(Entry)

\* The positions holding key k: none or one.
PositionsOf(k) == {i \in DOMAIN entries : entries[i].key = k}

Without(i) ==
  [j \in 1 .. Len(entries) - 1 |->
     IF j < i THEN entries[j] ELSE entries[j + 1]]

\* A map: no key has two places.
KeysDistinct ==
  \A i, j \in DOMAIN entries : entries[i].key = entries[j].key => i = j

\* A dictionary starts as its literal says, {} included.
Init == TypeOK /\ KeysDistinct

\* d[k] = v
Put(k, v) ==
  \/ /\ PositionsOf(k) = {}
     /\ entries' = Append(entries, [key |-> k, value |-> v])
  \/ \E i \in PositionsOf(k) :
        entries' = [entries EXCEPT ![i].value = v]

\* delete(d, k)
Remove(k) == \E i \in PositionsOf(k) : entries' = Without(i)

Next ==
  \/ \E k \in Keys, v \in Vals : Put(k, v)
  \/ \E k \in Keys : Remove(k)

Spec == Init /\ [][Next]_entries
=============================================================================
