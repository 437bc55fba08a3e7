------------------------------- MODULE SxDict -------------------------------
(***************************************************************************)
(* The dictionary of the compiled programs' runtime (runtime/runtime.c,    *)
(* runtime/native.c): an open-addressing hash table with linear probing, a *)
(* tombstone state for deleted buckets, and an array of keys in insertion  *)
(* order.  A call of sx_dict_set is several steps here (the lookup, one    *)
(* step per bucket of a resize, the placement), because the questions are  *)
(* whether the call comes back at all and what the table looks like when   *)
(* it stops on the way.  Reads change nothing; they are operators.         *)
(***************************************************************************)
EXTENDS Naturals, Sequences

CONSTANTS
  Keys,      \* the strings a program uses as keys
  Vals,      \* the values it stores
  Hash,      \* sx_hash: Hash[k] is the djb2 hash of k
  InitCap,   \* SX_DICT_INIT_CAP, 8 in the runtime
  Sources,   \* the entry sequences that dict_merge may be given
  NULL       \* a null pointer

Entry == [key : Keys, value : Vals]

ASSUME HashAssumption == Hash \in [Keys -> Nat]
ASSUME InitCapAssumption == InitCap \in Nat \ {0}
ASSUME SourcesAssumption == Sources \subseteq Seq(Entry) \ {<< >>}
ASSUME NullAssumption == NULL \notin Keys \cup Vals

VARIABLES
  buckets,   \* SxDict.buckets, indexed 0 .. capacity - 1
  capacity,  \* SxDict.capacity
  order,     \* SxDict.keys[0 .. len - 1]; its length is SxDict.len
  keysCap,   \* SxDict.keys_cap, the slots allocated for keys
  pc,        \* "idle", or where the running call is
  todo,      \* the entries the running call has still to store
  fresh,     \* new_buckets of a running resize
  scan       \* the loop index of a running resize

table == <<buckets, capacity, order, keysCap>>
vars == <<table, pc, todo, fresh, scan>>

\* SxDictBucket.used
Empty == 0
Occupied == 1
Tombstone == 2

Bucket == [used : {Empty, Occupied, Tombstone},
           key : Keys \cup {NULL}, value : Vals \cup {NULL}]

FreeBucket == [used |-> Empty, key |-> NULL, value |-> NULL]

\* Slip: a deleted bucket is made empty again, which cuts probe chains.
DeletedAsEmpty == FreeBucket

DeletedBucket == [used |-> Tombstone, key |-> NULL, value |-> NULL]

\* Slip: the key of a new bucket is not copied.
BucketWithoutKey(k, v) == [used |-> Occupied, key |-> NULL, value |-> v]

\* Slip: the value of a new bucket is not stored.
BucketWithoutValue(k, v) == [used |-> Occupied, key |-> k, value |-> NULL]

BucketOf(k, v) == [used |-> Occupied, key |-> k, value |-> v]

\* memset(buckets, 0, ...) over n buckets.
NoBuckets(n) == [s \in 0 .. n - 1 |-> FreeBucket]

-----------------------------------------------------------------------------
(* Probing.  The d-th slot a probe for k looks at in n buckets.            *)
Slot(k, d, n) == (Hash[k] + d) % n

\* The probe for k passes over the d slots before its d-th one.
Passes(bs, k, d, n) == \A e \in 0 .. d - 1 : bs[Slot(k, e, n)].used # Empty

Holds(b, k) == b.used = Occupied /\ b.key = k

\* sx_dict_find: the slot it returns a pointer to, as the set of candidates
\* (empty for a NULL result, never more than one).
Find(bs, k, n) ==
  {s \in 0 .. n - 1 :
     /\ Holds(bs[s], k)
     /\ \E d \in 0 .. n - 1 : s = Slot(k, d, n) /\ Passes(bs, k, d, n)}

\* Where `while (buckets[h].used) h = (h + 1) & (cap - 1)` stops; the empty
\* set when it never does.
FreeSlot(bs, k, n) ==
  {s \in 0 .. n - 1 :
     /\ bs[s].used = Empty
     /\ \E d \in 0 .. n - 1 : s = Slot(k, d, n) /\ Passes(bs, k, d, n)}

-----------------------------------------------------------------------------
(* Reads: has, get, keys and values of a program.                          *)
Has(k) == Find(buckets, k, capacity) # {}

Get(k) ==
  LET found == Find(buckets, k, capacity) IN
  IF found = {} THEN NULL ELSE buckets[CHOOSE s \in found : TRUE].value

\* sx_dict_values appends only the keys sx_dict_find finds.
ValuesList == [i \in DOMAIN order |-> Get(order[i])]

-----------------------------------------------------------------------------
Init ==
  /\ buckets = NoBuckets(InitCap)
  /\ capacity = InitCap
  /\ order = << >>
  /\ keysCap = 0
  /\ pc = "idle"
  /\ todo = << >>
  /\ fresh = << >>
  /\ scan = 0

\* d[k] = v: one call of sx_dict_set.
CallSet(k, v) ==
  /\ pc = "idle"
  /\ todo' = <<[key |-> k, value |-> v]>>
  /\ pc' = "lookup"
  /\ UNCHANGED <<table, fresh, scan>>

\* dict_merge(a, b): a call of sx_dict_set for every entry of b, in b's order.
CallMerge(src) ==
  /\ pc = "idle"
  /\ todo' = src
  /\ pc' = "lookup"
  /\ UNCHANGED <<table, fresh, scan>>

\* sx_dict_set of the first entry is over: the next one, or back to the caller.
EntryStored ==
  /\ todo' = Tail(todo)
  /\ pc' = IF Len(todo) = 1 THEN "idle" ELSE "lookup"

\* The key is present: its value is replaced.
Overwrite ==
  /\ pc = "lookup"
  /\ \E s \in Find(buckets, Head(todo).key, capacity) :
        buckets' = [buckets EXCEPT ![s].value = Head(todo).value]
  /\ EntryStored
  /\ UNCHANGED <<capacity, order, keysCap, fresh, scan>>

\* Slip: the table grows only when it is full.
LoadReachedLate == Len(order) > capacity

\* len / capacity >= SX_DICT_LOAD_FACTOR
LoadReached == 4 * Len(order) >= 3 * capacity

StartResize ==
  /\ pc = "lookup"
  /\ Find(buckets, Head(todo).key, capacity) = {}
  /\ LoadReached
  /\ fresh' = NoBuckets(2 * capacity)
  /\ scan' = 0
  /\ pc' = "rehash"
  /\ UNCHANGED <<table, todo>>

NoResize ==
  /\ pc = "lookup"
  /\ Find(buckets, Head(todo).key, capacity) = {}
  /\ ~LoadReached
  /\ pc' = "place"
  /\ UNCHANGED <<table, todo, fresh, scan>>

\* One turn of the loop of sx_dict_resize.  Any bucket with used # 0 is hashed
\* again: for a tombstone that is sx_hash(NULL), and the process dies.
RehashEmpty ==
  /\ pc = "rehash" /\ scan < capacity
  /\ buckets[scan].used = Empty
  /\ scan' = scan + 1
  /\ UNCHANGED <<table, pc, todo, fresh>>

\* Slip: a moved bucket's chain starts at the old mask's slot.
RehashOldMask ==
  /\ pc = "rehash" /\ scan < capacity
  /\ buckets[scan].used # Empty
  /\ buckets[scan].key # NULL
  /\ \E s \in FreeSlot(fresh, buckets[scan].key, capacity) :
        fresh' = [fresh EXCEPT ![s] = buckets[scan]]
  /\ scan' = scan + 1
  /\ UNCHANGED <<table, pc, todo>>

RehashBucket ==
  /\ pc = "rehash" /\ scan < capacity
  /\ buckets[scan].used # Empty
  /\ buckets[scan].key # NULL
  /\ \E s \in FreeSlot(fresh, buckets[scan].key, 2 * capacity) :
        fresh' = [fresh EXCEPT ![s] = buckets[scan]]
  /\ scan' = scan + 1
  /\ UNCHANGED <<table, pc, todo>>

RehashNull ==
  /\ pc = "rehash" /\ scan < capacity
  /\ buckets[scan].used # Empty
  /\ buckets[scan].key = NULL
  /\ pc' = "crashed"
  /\ UNCHANGED <<table, todo, fresh, scan>>

FinishResize ==
  /\ pc = "rehash" /\ scan = capacity
  /\ buckets' = fresh
  /\ capacity' = 2 * capacity
  /\ fresh' = << >>
  /\ scan' = 0
  /\ pc' = "place"
  /\ UNCHANGED <<order, keysCap, todo>>

\* Slip: the array is thought to have room for one key more.
GrownKeysCapLate ==
  IF Len(order) <= keysCap THEN keysCap
  ELSE IF keysCap = 0 THEN 4 ELSE 2 * keysCap

\* sx_dict_add_key grows the key array 0, 4, 8, 16, ...
GrownKeysCap ==
  IF Len(order) < keysCap THEN keysCap
  ELSE IF keysCap = 0 THEN 4 ELSE 2 * keysCap

\* The new key goes to the first bucket on its probe path that was never used.
\* The loop is unbounded: with no such bucket this action is never enabled.
Place ==
  /\ pc = "place"
  /\ \E s \in FreeSlot(buckets, Head(todo).key, capacity) :
        buckets' = [buckets EXCEPT
                      ![s] = BucketOf(Head(todo).key, Head(todo).value)]
  /\ keysCap' = GrownKeysCap
  /\ order' = Append(order, Head(todo).key)
  /\ EntryStored
  /\ UNCHANGED <<capacity, fresh, scan>>

\* Slip: the last key fills the gap, which is faster and loses the order.
OrderSwapped(i) ==
  [j \in 1 .. Len(order) - 1 |-> IF j = i THEN order[Len(order)] ELSE order[j]]

\* keys[j] = keys[j + 1] for j >= i, then len--
OrderWithout(i) ==
  [j \in 1 .. Len(order) - 1 |-> IF j < i THEN order[j] ELSE order[j + 1]]

\* The loop of dict_delete stops at the first i with keys[i] = k, if any.
FirstAt(k, i) == order[i] = k /\ \A j \in 1 .. i - 1 : order[j] # k

OrderAfterDelete(k) ==
  IF \E i \in DOMAIN order : order[i] = k
  THEN OrderWithout(CHOOSE i \in DOMAIN order : FirstAt(k, i))
  ELSE order

\* dict_delete(d, k): a tombstone, and the key leaves the order.
Delete(k) ==
  /\ pc = "idle"
  /\ \E s \in Find(buckets, k, capacity) :
        buckets' = [buckets EXCEPT ![s] = DeletedBucket]
  /\ order' = OrderAfterDelete(k)
  /\ UNCHANGED <<capacity, keysCap, pc, todo, fresh, scan>>

\* What the caller may ask for, and what a running call does.
Call ==
  \/ \E k \in Keys, v \in Vals : CallSet(k, v)
  \/ \E src \in Sources : CallMerge(src)

Step ==
  \/ Overwrite \/ StartResize \/ NoResize
  \/ RehashEmpty \/ RehashBucket \/ RehashNull \/ FinishResize
  \/ Place

Next ==
  \/ Call
  \/ \E k \in Keys : Delete(k)
  \/ Step

Spec == Init /\ [][Next]_vars

\* A call that can take its next step takes it: the process is scheduled.
FairSpec == Spec /\ WF_vars(Step)

-----------------------------------------------------------------------------
(* Properties.                                                             *)

TypeOK ==
  /\ capacity \in Nat \ {0}
  /\ buckets \in [0 .. capacity - 1 -> Bucket]
  /\ order \in Seq(Keys)
  /\ keysCap \in Nat
  /\ pc \in {"idle", "lookup", "rehash", "place", "crashed"}
  /\ todo \in Seq(Entry)
  /\ pc # "idle" => todo # << >>
  /\ scan \in Nat
  /\ pc \in {"rehash", "crashed"} =>
        /\ scan \in 0 .. capacity
        /\ fresh \in [0 .. 2 * capacity - 1 -> Bucket]

\* Every key of the insertion order is found by a probe and nothing else is:
\* linear probing (sx_dict_find) with the tombstones that dict_delete leaves
\* never loses a key that keys() lists, nor finds one it does not list.
LookupAgrees ==
  \A k \in Keys : Has(k) <=> \E i \in DOMAIN order : order[i] = k

\* No key is listed twice by keys(), and each is in one bucket: a key is never
\* stored a second time behind a chain that a delete or a resize has broken.
NoDuplicateKeys ==
  /\ \A i, j \in DOMAIN order : order[i] = order[j] => i = j
  /\ \A s, t \in DOMAIN buckets :
        /\ buckets[s].used = Occupied /\ buckets[t].used = Occupied
        /\ buckets[s].key = buckets[t].key
        => s = t

\* sx_dict_add_key writes keys[len] inside the array it allocated.
KeysFit == Len(order) <= keysCap

\* The entries of the table in the order of keys(): what the program sees.
EntriesSeen ==
  [i \in DOMAIN order |-> [key |-> order[i], value |-> ValuesList[i]]]

Promise == INSTANCE OrderedMap WITH entries <- EntriesSeen

\* The hash table with its key array is an insertion-ordered map: each call of
\* set, merge or delete is one Put or Remove, seen at once, or not yet at all.
ImplementsOrderedMap == Promise!Spec

\* When a call is done with an entry, the program reads the value of that entry
\* under its key, whether it was overwritten, placed, or placed after a resize.
SetTakesEffect ==
  [][\A k \in Keys, v \in Vals :
       /\ todo # << >> /\ Head(todo) = [key |-> k, value |-> v]
       /\ todo' # todo
       => Get(k)' = v]_vars

\* native.c:701 marks a deleted bucket "so probing continues past it": nothing
\* that goes over the table afterwards may die of it.  The code does not keep
\* this: a resize reads the key of every bucket that is not empty.
NeverCrashes == pc # "crashed"

\* What it does keep: a resize that dies does so over a deleted bucket, and over
\* no other, however the keys were set, moved by earlier resizes and deleted.
CrashesOverDeleted ==
  pc = "crashed" => scan < capacity /\ buckets[scan].used = Tombstone

\* A call of set or merge comes back to its caller, unless a deleted bucket is
\* in its way: at a resize, or because deleted buckets have used up the empty
\* ones, without which a probe for a new key does not end.  Here the last (or
\* only) key of the call is there already, or there are a few keys only and an
\* empty bucket; or nothing has been deleted since the table last grew.
Unhindered ==
  \/ \A s \in DOMAIN buckets : buckets[s].used # Tombstone
  \/ /\ Len(todo) = 1
     /\ \/ Has(Head(todo).key)
        \/ /\ 4 * Len(order) < 3 * capacity
           /\ \E s \in DOMAIN buckets : buckets[s].used = Empty

CallsReturn == (pc = "lookup" /\ Unhindered) ~> (pc = "idle")

\* Without the exception, which the code does not keep.
EveryCallReturns == (pc = "lookup") ~> (pc = "idle")

-----------------------------------------------------------------------------
(* The inductive invariant behind the safety properties.                   *)

\* Key k is stored in one of the n buckets bs, wherever that is.
Present(bs, n, k) == \E s \in 0 .. n - 1 : Holds(bs[s], k)

\* A bucket holds a key and a value exactly when it is occupied.
Clean(b) ==
  IF b.used = Occupied THEN b.key \in Keys /\ b.value \in Vals
                       ELSE b.key = NULL /\ b.value = NULL

\* No empty bucket lies between the start of a key's probe path and the key.
Chained(bs, n) ==
  \A s \in 0 .. n - 1 :
    bs[s].used = Occupied =>
      \E d \in 0 .. n - 1 :
         s = Slot(bs[s].key, d, n) /\ Passes(bs, bs[s].key, d, n)

OneBucketPerKey(bs, n) ==
  \A s, t \in 0 .. n - 1 :
    /\ bs[s].used = Occupied /\ bs[t].used = Occupied
    /\ bs[s].key = bs[t].key
    => s = t

WellFormed(bs, n) ==
  /\ bs \in [0 .. n - 1 -> Bucket]
  /\ \A s \in 0 .. n - 1 : Clean(bs[s])
  /\ Chained(bs, n)
  /\ OneBucketPerKey(bs, n)

Listed(k) == \E i \in DOMAIN order : order[i] = k

OrderMatches ==
  /\ \A i, j \in DOMAIN order : order[i] = order[j] => i = j
  /\ \A k \in Keys : Listed(k) <=> Present(buckets, capacity, k)

\* So far the resize has moved the keys of the buckets before scan.
Moved(k) == \E s \in 0 .. scan - 1 : Holds(buckets[s], k)

ResizeInv ==
  pc = "rehash" =>
    /\ WellFormed(fresh, 2 * capacity)
    /\ \A k \in Keys : Present(fresh, 2 * capacity, k) <=> Moved(k)

\* The invariant of every step, of which the safety properties above are
\* consequences: probe chains are unbroken in both tables, the key array lists
\* the stored keys once each, and the key being stored is not there yet.
IInv ==
  /\ TypeOK
  /\ WellFormed(buckets, capacity)
  /\ OrderMatches
  /\ KeysFit
  /\ ResizeInv
  /\ pc \in {"rehash", "place"} =>
       ~ Present(buckets, capacity, Head(todo).key)
=============================================================================
