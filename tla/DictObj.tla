------------------------------ MODULE DictObj ------------------------------
(***************************************************************************)
(* The dictionary of the interpreter (object.DictObj and the code of       *)
(* evaluator/ that changes one): a Go map Pairs and a slice Keys that      *)
(* remembers the insertion order.  Nothing but the code that writes them   *)
(* keeps the two in step.                                                  *)
(***************************************************************************)
EXTENDS Naturals, Sequences

CONSTANTS
  Keys,      \* the strings a program uses as keys
  Vals,      \* the values it stores
  Literals   \* the entry lists of the literals it contains

Entry == [key : Keys, value : Vals]

ASSUME LiteralsAssumption == Literals \subseteq Seq(Entry)

VARIABLES
  pairs,     \* DictObj.Pairs: a function whose domain is the keys present
  keys,      \* DictObj.Keys
  todo,      \* the keys of db.Keys that a running dict_merge has still to copy
  from       \* db.Pairs of that merge

dictVars == <<pairs, keys, todo, from>>

NoPairs == [k \in {} |-> k]

KeysOf(lit) == {lit[i].key : i \in DOMAIN lit}

\* evalDictLit and jsonDecodeObject: the last entry of a key wins in Pairs ...
PairsOf(lit) ==
  [k \in KeysOf(lit) |->
     LET last == CHOOSE i \in DOMAIN lit :
                   /\ lit[i].key = k
                   /\ \A j \in DOMAIN lit : lit[j].key = k => j <= i
     IN  lit[last].value]

\* ... and every entry's key is appended to Keys.
KeyListOf(lit) == [i \in DOMAIN lit |-> lit[i].key]

WithPair(p, k, v) == [j \in DOMAIN p \cup {k} |-> IF j = k THEN v ELSE p[j]]

\* Slip: the key is appended without the membership test.
RememberedAlways(k) == Append(keys, k)

\* if _, exists := o.Pairs[k]; !exists { o.Keys = append(o.Keys, k) }
Remembered(k) == IF k \in DOMAIN pairs THEN keys ELSE Append(keys, k)

\* Slip: the last key fills the gap.
KeysSwapped(i) ==
  [j \in 1 .. Len(keys) - 1 |-> IF j = i THEN keys[Len(keys)] ELSE keys[j]]

KeysWithout(i) ==
  [j \in 1 .. Len(keys) - 1 |-> IF j < i THEN keys[j] ELSE keys[j + 1]]

-----------------------------------------------------------------------------
InitDict ==
  /\ \E lit \in Literals : pairs = PairsOf(lit) /\ keys = KeyListOf(lit)
  /\ todo = << >>
  /\ from = NoPairs

\* d[k] = v
IndexAssign(k, v) ==
  /\ todo = << >>
  /\ keys' = Remembered(k)
  /\ pairs' = WithPair(pairs, k, v)
  /\ UNCHANGED <<todo, from>>

\* dict_delete(d, k): the key leaves Pairs, its first occurrence leaves Keys.
Delete(k) ==
  /\ todo = << >>
  /\ k \in DOMAIN pairs
  /\ pairs' = [j \in DOMAIN pairs \ {k} |-> pairs[j]]
  /\ \E i \in DOMAIN keys :
        /\ keys[i] = k
        /\ \A j \in 1 .. i - 1 : keys[j] # k
        /\ keys' = KeysWithout(i)
  /\ UNCHANGED <<todo, from>>

\* dict_merge(d, db), where db is what a literal made ...
Merge(lit) ==
  /\ todo = << >>
  /\ todo' = KeyListOf(lit)
  /\ from' = PairsOf(lit)
  /\ UNCHANGED <<pairs, keys>>

\* ... one turn of its loop.
MergeKey ==
  /\ todo # << >>
  /\ keys' = Remembered(Head(todo))
  /\ pairs' = WithPair(pairs, Head(todo), from[Head(todo)])
  /\ todo' = Tail(todo)
  /\ from' = IF Len(todo) = 1 THEN NoPairs ELSE from

DictNext ==
  \/ \E k \in Keys, v \in Vals : IndexAssign(k, v)
  \/ \E k \in Keys : Delete(k)
  \/ \E lit \in Literals : Merge(lit)
  \/ MergeKey

DictSpec == InitDict /\ [][DictNext]_dictVars

-----------------------------------------------------------------------------
(* Properties.                                                             *)

DictTypeOK ==
  /\ DOMAIN pairs \subseteq Keys
  /\ \A k \in DOMAIN pairs : pairs[k] \in Vals
  /\ keys \in Seq(Keys)
  /\ todo \in Seq(Keys)
  /\ \A i \in DOMAIN todo : todo[i] \in DOMAIN from

\* keys(), values() and a for loop go over Keys, len() counts Pairs and has()
\* looks into Pairs: they agree exactly when Keys lists each key of Pairs once.
\* (docs/collections.md:112, "Dicts are ordered key-value maps.")
KeysAreThePairs ==
  /\ \A k \in Keys : k \in DOMAIN pairs <=> \E i \in DOMAIN keys : keys[i] = k
  /\ \A i, j \in DOMAIN keys : keys[i] = keys[j] => i = j

EntriesSeen == [i \in DOMAIN keys |-> [key |-> keys[i], value |-> pairs[keys[i]]]]

Promise == INSTANCE OrderedMap WITH entries <- EntriesSeen

\* The interpreter's dictionary is an insertion-ordered map.
ImplementsOrderedMap == Promise!Spec
=============================================================================
