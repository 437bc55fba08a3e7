---------------------------- MODULE SxDict_proofs -----------------------------
(***************************************************************************)
(* Proofs about SxDict, for every set of keys and values, every hash       *)
(* function and every initial capacity.                                    *)
(*                                                                         *)
(* The argument: a probe chain is only ever lengthened (a bucket that was  *)
(* used stays used until the next resize, which builds new chains from     *)
(* nothing), so a stored key stays reachable; hence a failed lookup means  *)
(* the key is nowhere, and a placement never duplicates it.  A resize      *)
(* copies buckets whole, so that a key reads the same in the table it      *)
(* fills; with that, every call does to the entries what OrderedMap says.  *)
(***************************************************************************)
EXTENDS SxDict, TLAPS, SequenceTheorems

(* Slots.                                                                  *)

LEMMA SlotType ==
  ASSUME NEW k \in Keys, NEW d \in Nat, NEW n \in Nat \ {0}
  PROVE  Slot(k, d, n) \in 0 .. n - 1
<1>1. Hash[k] + d \in Nat
  BY HashAssumption
<1>2. QED
  BY <1>1, SMT DEF Slot

\* Using a bucket up never breaks the part of a probe that passed already.
LEMMA PassesMonotone ==
  ASSUME NEW n \in Nat \ {0}, NEW bs, NEW cs,
         \A s \in 0 .. n - 1 : bs[s].used # Empty => cs[s].used # Empty,
         NEW k \in Keys, NEW d \in 0 .. n - 1, Passes(bs, k, d, n)
  PROVE  Passes(cs, k, d, n)
<1> SUFFICES ASSUME NEW e \in 0 .. d - 1
             PROVE  cs[Slot(k, e, n)].used # Empty
  BY DEF Passes
<1>1. Slot(k, e, n) \in 0 .. n - 1
  BY SlotType
<1>2. QED
  BY <1>1 DEF Passes

\* sx_dict_find finds a key exactly when some bucket holds it.
LEMMA FindComplete ==
  ASSUME NEW n \in Nat \ {0}, NEW bs, WellFormed(bs, n), NEW k \in Keys
  PROVE  Find(bs, k, n) # {} <=> Present(bs, n, k)
<1>1. Find(bs, k, n) # {} => Present(bs, n, k)
  BY DEF Find, Present
<1>2. ASSUME Present(bs, n, k) PROVE Find(bs, k, n) # {}
  <2>1. PICK s \in 0 .. n - 1 : Holds(bs[s], k)
    BY <1>2 DEF Present
  <2>2. s \in Find(bs, k, n)
    BY <2>1 DEF Find, WellFormed, Chained, Holds
  <2>3. QED BY <2>2
<1>3. QED BY <1>1, <1>2

-----------------------------------------------------------------------------
(* The four ways a table changes.                                          *)

LEMMA EmptyTable ==
  ASSUME NEW n \in Nat \ {0}
  PROVE  /\ WellFormed(NoBuckets(n), n)
         /\ \A k \in Keys : ~ Present(NoBuckets(n), n, k)
BY NullAssumption
   DEF WellFormed, NoBuckets, FreeBucket, Bucket, Clean, Chained,
       OneBucketPerKey, Present, Holds, Empty, Occupied, Tombstone

\* Place and RehashBucket: an empty bucket at the end of the probe path.
LEMMA StoreInFreeSlot ==
  ASSUME NEW n \in Nat \ {0}, NEW bs, WellFormed(bs, n),
         NEW k \in Keys, ~ Present(bs, n, k),
         NEW b \in Bucket, Clean(b), Holds(b, k),
         NEW s \in FreeSlot(bs, k, n)
  PROVE  /\ WellFormed([bs EXCEPT ![s] = b], n)
         /\ \A j \in Keys :
              Present([bs EXCEPT ![s] = b], n, j) <=> Present(bs, n, j) \/ j = k
<1> DEFINE cs == [bs EXCEPT ![s] = b]
<1>1. /\ s \in 0 .. n - 1
      /\ bs[s].used = Empty
      /\ \E d \in 0 .. n - 1 : s = Slot(k, d, n) /\ Passes(bs, k, d, n)
  BY DEF FreeSlot
<1>2. /\ bs \in [0 .. n - 1 -> Bucket]
      /\ \A t \in 0 .. n - 1 : Clean(bs[t])
      /\ Chained(bs, n)
      /\ OneBucketPerKey(bs, n)
  BY DEF WellFormed
<1>3. /\ cs[s] = b
      /\ \A t \in 0 .. n - 1 : t # s => cs[t] = bs[t]
      /\ cs \in [0 .. n - 1 -> Bucket]
  BY <1>1, <1>2
<1>4. \A t \in 0 .. n - 1 : bs[t].used # Empty => cs[t].used # Empty
  BY <1>1, <1>3
<1>5. b.used = Occupied /\ b.key = k
  BY DEF Holds
<1>6. \A t \in 0 .. n - 1 : Clean(cs[t])
  BY <1>2, <1>3
<1>7. Chained(cs, n)
  <2> SUFFICES ASSUME NEW t \in 0 .. n - 1, cs[t].used = Occupied
               PROVE  \E d \in 0 .. n - 1 :
                         t = Slot(cs[t].key, d, n) /\ Passes(cs, cs[t].key, d, n)
    BY DEF Chained
  <2>1. cs[t].key \in Keys
    BY <1>6 DEF Clean
  <2>2. PICK d \in 0 .. n - 1 :
          t = Slot(cs[t].key, d, n) /\ Passes(bs, cs[t].key, d, n)
    BY <1>1, <1>2, <1>3, <1>5 DEF Chained
  <2>3. Passes(cs, cs[t].key, d, n)
    BY <1>4, <2>1, <2>2, PassesMonotone
  <2>4. QED BY <2>2, <2>3
<1>8. OneBucketPerKey(cs, n)
  BY <1>2, <1>3, <1>5 DEF OneBucketPerKey, Present, Holds
<1>9. \A j \in Keys : Present(cs, n, j) <=> Present(bs, n, j) \/ j = k
  BY <1>1, <1>3, <1>5 DEF Present, Holds, Empty, Occupied
<1>10. QED
  BY <1>3, <1>6, <1>7, <1>8, <1>9 DEF WellFormed

\* Overwrite: another value in the bucket that holds the key.
LEMMA OverwriteInPlace ==
  ASSUME NEW n \in Nat \ {0}, NEW bs, WellFormed(bs, n),
         NEW k \in Keys, NEW s \in Find(bs, k, n), NEW v \in Vals
  PROVE  /\ WellFormed([bs EXCEPT ![s].value = v], n)
         /\ \A j \in Keys :
              Present([bs EXCEPT ![s].value = v], n, j) <=> Present(bs, n, j)
<1> DEFINE cs == [bs EXCEPT ![s].value = v]
<1>1. s \in 0 .. n - 1 /\ bs[s].used = Occupied
  BY DEF Find, Holds
<1>2. /\ bs \in [0 .. n - 1 -> Bucket]
      /\ \A t \in 0 .. n - 1 : Clean(bs[t])
      /\ Chained(bs, n)
      /\ OneBucketPerKey(bs, n)
  BY DEF WellFormed
<1>3. /\ cs \in [0 .. n - 1 -> Bucket]
      /\ \A t \in 0 .. n - 1 : /\ cs[t].used = bs[t].used
                               /\ cs[t].key = bs[t].key
                               /\ t # s => cs[t].value = bs[t].value
      /\ cs[s].value = v
  BY <1>1, <1>2 DEF Bucket
<1>4. \A t \in 0 .. n - 1 : Clean(cs[t])
  BY <1>1, <1>2, <1>3 DEF Clean
<1> HIDE DEF cs
<1>5. Chained(cs, n)
  <2> SUFFICES ASSUME NEW t \in 0 .. n - 1, cs[t].used = Occupied
               PROVE  \E d \in 0 .. n - 1 :
                         t = Slot(cs[t].key, d, n) /\ Passes(cs, cs[t].key, d, n)
    BY DEF Chained
  <2>1. cs[t].key \in Keys
    BY <1>4 DEF Clean
  <2>2. PICK d \in 0 .. n - 1 :
          t = Slot(cs[t].key, d, n) /\ Passes(bs, cs[t].key, d, n)
    <3>1. bs[t].used = Occupied /\ bs[t].key = cs[t].key
      BY <1>3
    <3>2. QED BY <1>2, <3>1 DEF Chained
  <2>3. \A r \in 0 .. n - 1 : bs[r].used # Empty => cs[r].used # Empty
    BY <1>3
  <2>4. Passes(cs, cs[t].key, d, n)
    BY <2>1, <2>2, <2>3, PassesMonotone
  <2>5. QED BY <2>2, <2>4
<1>6. OneBucketPerKey(cs, n)
  BY <1>2, <1>3 DEF OneBucketPerKey
<1>7. \A j \in Keys : Present(cs, n, j) <=> Present(bs, n, j)
  BY <1>3 DEF Present, Holds
<1>8. QED
  BY <1>3, <1>4, <1>5, <1>6, <1>7 DEF WellFormed, cs

\* Delete: a tombstone is used, so every chain through it stays whole.
LEMMA LeaveTombstone ==
  ASSUME NEW n \in Nat \ {0}, NEW bs, WellFormed(bs, n),
         NEW k \in Keys, NEW s \in Find(bs, k, n)
  PROVE  /\ WellFormed([bs EXCEPT ![s] = DeletedBucket], n)
         /\ \A j \in Keys :
              Present([bs EXCEPT ![s] = DeletedBucket], n, j)
                <=> Present(bs, n, j) /\ j # k
<1> DEFINE cs == [bs EXCEPT ![s] = DeletedBucket]
<1>1. s \in 0 .. n - 1 /\ bs[s].used = Occupied /\ bs[s].key = k
  BY DEF Find, Holds
<1>2. /\ bs \in [0 .. n - 1 -> Bucket]
      /\ \A t \in 0 .. n - 1 : Clean(bs[t])
      /\ Chained(bs, n)
      /\ OneBucketPerKey(bs, n)
  BY DEF WellFormed
<1>3. /\ DeletedBucket \in Bucket
      /\ DeletedBucket.used = Tombstone
      /\ Clean(DeletedBucket)
  BY DEF DeletedBucket, Bucket, Clean, Tombstone, Occupied
<1>4. /\ cs \in [0 .. n - 1 -> Bucket]
      /\ cs[s] = DeletedBucket
      /\ \A t \in 0 .. n - 1 : t # s => cs[t] = bs[t]
  BY <1>1, <1>2, <1>3
<1>5. \A t \in 0 .. n - 1 : bs[t].used # Empty => cs[t].used # Empty
  BY <1>3, <1>4 DEF Tombstone, Empty
<1>6. \A t \in 0 .. n - 1 : Clean(cs[t])
  BY <1>2, <1>3, <1>4
<1>7. \A t \in 0 .. n - 1 : cs[t].used = Occupied => t # s /\ cs[t] = bs[t]
  BY <1>3, <1>4 DEF Tombstone, Occupied
<1>8. Chained(cs, n)
  <2> SUFFICES ASSUME NEW t \in 0 .. n - 1, cs[t].used = Occupied
               PROVE  \E d \in 0 .. n - 1 :
                         t = Slot(cs[t].key, d, n) /\ Passes(cs, cs[t].key, d, n)
    BY DEF Chained
  <2>1. cs[t].key \in Keys
    BY <1>6 DEF Clean
  <2>2. PICK d \in 0 .. n - 1 :
          t = Slot(cs[t].key, d, n) /\ Passes(bs, cs[t].key, d, n)
    BY <1>2, <1>7 DEF Chained
  <2>3. Passes(cs, cs[t].key, d, n)
    BY <1>5, <2>1, <2>2, PassesMonotone
  <2>4. QED BY <2>2, <2>3
<1>9. OneBucketPerKey(cs, n)
  BY <1>2, <1>7 DEF OneBucketPerKey
<1>10. \A j \in Keys : Present(cs, n, j) <=> Present(bs, n, j) /\ j # k
  BY <1>1, <1>2, <1>3, <1>4, <1>7 DEF Present, Holds, OneBucketPerKey
<1>11. QED
  BY <1>4, <1>6, <1>8, <1>9, <1>10 DEF WellFormed

-----------------------------------------------------------------------------
(* The key array.                                                          *)

LEMMA AppendKey ==
  ASSUME NEW o \in Seq(Keys), NEW k \in Keys,
         \A i, j \in DOMAIN o : o[i] = o[j] => i = j,
         \A i \in DOMAIN o : o[i] # k
  PROVE  /\ Append(o, k) \in Seq(Keys)
         /\ Len(Append(o, k)) = Len(o) + 1
         /\ \A i, j \in DOMAIN Append(o, k) :
              Append(o, k)[i] = Append(o, k)[j] => i = j
         /\ \A l \in Keys : (\E i \in DOMAIN Append(o, k) : Append(o, k)[i] = l)
              <=> (\E i \in DOMAIN o : o[i] = l) \/ l = k
<1> DEFINE p == Append(o, k)
<1>1. /\ p \in Seq(Keys)
      /\ Len(p) = Len(o) + 1
      /\ DOMAIN p = 1 .. Len(o) + 1
      /\ DOMAIN o = 1 .. Len(o)
      /\ Len(o) \in Nat
      /\ \A i \in 1 .. Len(o) : p[i] = o[i]
      /\ p[Len(o) + 1] = k
  OBVIOUS
<1>2. \A i, j \in DOMAIN p : p[i] = p[j] => i = j
  BY <1>1
<1>3. \A l \in Keys : (\E i \in DOMAIN p : p[i] = l)
              <=> (\E i \in DOMAIN o : o[i] = l) \/ l = k
  BY <1>1
<1>4. QED
  BY <1>1, <1>2, <1>3

\* The loop of dict_delete finds the key at one place, and leaves the others.
LEMMA RemoveKey ==
  ASSUME order \in Seq(Keys), NEW k \in Keys, Listed(k),
         \A i, j \in DOMAIN order : order[i] = order[j] => i = j
  PROVE  /\ OrderAfterDelete(k) \in Seq(Keys)
         /\ Len(OrderAfterDelete(k)) = Len(order) - 1
         /\ \A i, j \in DOMAIN OrderAfterDelete(k) :
              OrderAfterDelete(k)[i] = OrderAfterDelete(k)[j] => i = j
         /\ \A l \in Keys :
              (\E i \in DOMAIN OrderAfterDelete(k) : OrderAfterDelete(k)[i] = l)
                <=> Listed(l) /\ l # k
<1> DEFINE at == CHOOSE i \in DOMAIN order : FirstAt(k, i)
           q == OrderAfterDelete(k)
<1>1. DOMAIN order = 1 .. Len(order) /\ Len(order) \in Nat
  OBVIOUS
<1>2. \E i \in DOMAIN order : FirstAt(k, i)
  <2>1. PICK i \in DOMAIN order : order[i] = k
    BY DEF Listed
  <2>2. \A j \in 1 .. i - 1 : order[j] # k
    BY <1>1, <2>1
  <2>3. QED BY <2>1, <2>2 DEF FirstAt
<1>3. at \in 1 .. Len(order) /\ order[at] = k
  BY <1>1, <1>2 DEF FirstAt
<1>4. q = OrderWithout(at)
  BY DEF OrderAfterDelete, Listed
<1> DEFINE n == Len(order) - 1
           r == [j \in 1 .. n |-> IF j < at THEN order[j] ELSE order[j + 1]]
<1>5. q = r
  BY <1>4 DEF OrderWithout
<1> HIDE DEF at, q
<1>6. n \in Nat
  BY <1>1, <1>3
<1>7. \A j \in 1 .. n : r[j] \in Keys
  BY <1>1, <1>3
<1>8. r \in Seq(Keys) /\ Len(r) = n /\ DOMAIN r = 1 .. n
  BY <1>6, <1>7
<1>9. \A i, j \in 1 .. n : r[i] = r[j] => i = j
  BY <1>1, <1>3, <1>6
<1>10. ASSUME NEW l \in Keys
       PROVE  (\E i \in 1 .. n : r[i] = l) <=> Listed(l) /\ l # k
  <2>1. ASSUME NEW i \in 1 .. n, r[i] = l PROVE Listed(l) /\ l # k
    BY <1>1, <1>3, <1>6, <2>1 DEF Listed
  <2>2. ASSUME Listed(l), l # k PROVE \E i \in 1 .. n : r[i] = l
    <3>1. PICK i \in 1 .. Len(order) : order[i] = l
      BY <1>1, <2>2 DEF Listed
    <3>2. CASE i < at
      BY <1>3, <1>6, <3>1, <3>2
    <3>3. CASE i > at
      <4>1. i - 1 \in 1 .. n /\ r[i - 1] = l
        BY <1>3, <1>6, <3>1, <3>3
      <4>2. QED BY <4>1
    <3>4. QED BY <1>3, <2>2, <3>1, <3>2, <3>3
  <2>3. QED BY <2>1, <2>2
<1> HIDE DEF r
<1>11. /\ q \in Seq(Keys)
       /\ Len(q) = n
       /\ \A i, j \in DOMAIN q : q[i] = q[j] => i = j
       /\ \A l \in Keys : (\E i \in DOMAIN q : q[i] = l) <=> Listed(l) /\ l # k
  BY <1>5, <1>8, <1>9, <1>10
<1>12. QED
  BY <1>11 DEF q

-----------------------------------------------------------------------------
(* The invariant.                                                          *)

LEMMA RunningEntry ==
  ASSUME TypeOK, pc # "idle"
  PROVE  /\ Head(todo) \in Entry
         /\ Head(todo).key \in Keys
         /\ Head(todo).value \in Vals
<1>1. todo \in Seq(Entry) /\ todo # << >>
  BY DEF TypeOK
<1>2. Head(todo) \in Entry
  BY <1>1, HeadTailProperties
<1>3. QED
  BY <1>2 DEF Entry

LEMMA EntryStoredType ==
  ASSUME TypeOK, pc # "idle", EntryStored
  PROVE  /\ todo' \in Seq(Entry)
         /\ pc' \in {"idle", "lookup"}
         /\ pc' # "idle" => todo' # << >>
<1>1. /\ todo \in Seq(Entry) /\ todo # << >>
      /\ todo' = Tail(todo)
      /\ pc' = IF Len(todo) = 1 THEN "idle" ELSE "lookup"
  BY DEF TypeOK, EntryStored
<1>2. Tail(todo) \in Seq(Entry) /\ Len(Tail(todo)) = Len(todo) - 1
  BY <1>1, HeadTailProperties
<1>3. Len(todo) # 1 => Tail(todo) # << >>
  BY <1>1, <1>2
<1>4. QED
  BY <1>1, <1>2, <1>3

LEMMA InitIInv == Init => IInv
<1> SUFFICES ASSUME Init PROVE IInv
  OBVIOUS
<1> USE InitCapAssumption
<1>1. WellFormed(buckets, capacity)
  BY EmptyTable DEF Init
<1>2. TypeOK
  <2>1. buckets \in [0 .. capacity - 1 -> Bucket]
    BY <1>1 DEF WellFormed
  <2>2. QED
    BY <2>1 DEF Init, TypeOK
<1>3. OrderMatches
  BY EmptyTable DEF Init, OrderMatches, Listed
<1>4. KeysFit /\ ResizeInv
  BY DEF Init, KeysFit, ResizeInv
<1>5. QED
  BY <1>1, <1>2, <1>3, <1>4 DEF Init, IInv

LEMMA NextIInv == IInv /\ [Next]_vars => IInv'
<1> SUFFICES ASSUME IInv, [Next]_vars PROVE IInv'
  OBVIOUS
<1>t. /\ TypeOK
      /\ capacity \in Nat \ {0}
      /\ WellFormed(buckets, capacity)
      /\ OrderMatches
      /\ KeysFit
      /\ ResizeInv
      /\ pc \in {"rehash", "place"} => ~ Present(buckets, capacity, Head(todo).key)
  BY DEF IInv, TypeOK
<1>1. ASSUME NEW k \in Keys, NEW v \in Vals, CallSet(k, v) PROVE IInv'
  <2>1. todo' \in Seq(Entry) /\ todo' # << >>
    BY <1>1 DEF CallSet, Entry
  <2>2. QED
    BY <1>1, <1>t, <2>1
       DEF CallSet, IInv, table, TypeOK, OrderMatches, Listed, KeysFit, ResizeInv
<1>2. ASSUME NEW src \in Sources, CallMerge(src) PROVE IInv'
  <2>1. todo' \in Seq(Entry) /\ todo' # << >>
    BY <1>2, SourcesAssumption DEF CallMerge
  <2>2. QED
    BY <1>2, <1>t, <2>1
       DEF CallMerge, IInv, table, TypeOK, OrderMatches, Listed, KeysFit, ResizeInv
<1>3. CASE Overwrite
  <2> DEFINE e == Head(todo)
  <2>1. pc = "lookup" /\ EntryStored
        /\ UNCHANGED <<capacity, order, keysCap, fresh, scan>>
    BY <1>3 DEF Overwrite
  <2>2. PICK s \in Find(buckets, e.key, capacity) :
          buckets' = [buckets EXCEPT ![s].value = e.value]
    BY <1>3 DEF Overwrite
  <2>3. e.key \in Keys /\ e.value \in Vals
    BY <1>t, <2>1, RunningEntry
  <2>4. /\ WellFormed(buckets', capacity)
        /\ \A j \in Keys : Present(buckets', capacity, j)
                            <=> Present(buckets, capacity, j)
    BY <1>t, <2>2, <2>3, OverwriteInPlace
  <2>5. /\ todo' \in Seq(Entry)
        /\ pc' \in {"idle", "lookup"}
        /\ pc' # "idle" => todo' # << >>
    BY <1>t, <2>1, EntryStoredType
  <2>6. TypeOK'
    BY <1>t, <2>1, <2>4, <2>5 DEF TypeOK, WellFormed
  <2>7. OrderMatches'
    BY <1>t, <2>1, <2>4 DEF OrderMatches, Listed
  <2>8. QED
    BY <1>t, <2>1, <2>4, <2>5, <2>6, <2>7 DEF IInv, KeysFit, ResizeInv
<1>4. CASE StartResize
  <2>1. /\ pc = "lookup" /\ pc' = "rehash"
        /\ Find(buckets, Head(todo).key, capacity) = {}
        /\ fresh' = NoBuckets(2 * capacity) /\ scan' = 0
        /\ UNCHANGED <<buckets, capacity, order, keysCap, todo>>
    BY <1>4 DEF StartResize, table
  <2>2. Head(todo).key \in Keys
    BY <1>t, <2>1, RunningEntry
  <2>3. ~ Present(buckets, capacity, Head(todo).key)
    BY <1>t, <2>1, <2>2, FindComplete
  <2>4. 2 * capacity \in Nat \ {0}
    BY <1>t
  <2>5. /\ WellFormed(fresh', 2 * capacity)
        /\ \A k \in Keys : ~ Present(fresh', 2 * capacity, k)
    BY <2>1, <2>4, EmptyTable
  <2>6. TypeOK'
    BY <1>t, <2>1, <2>5 DEF TypeOK, WellFormed
  <2>7. ResizeInv'
    BY <2>1, <2>5 DEF ResizeInv, Moved
  <2>8. QED
    BY <1>t, <2>1, <2>3, <2>6, <2>7 DEF IInv, OrderMatches, Listed, KeysFit
<1>5. CASE NoResize
  <2>1. /\ pc = "lookup" /\ pc' = "place"
        /\ Find(buckets, Head(todo).key, capacity) = {}
        /\ UNCHANGED <<buckets, capacity, order, keysCap, todo, fresh, scan>>
    BY <1>5 DEF NoResize, table
  <2>2. Head(todo).key \in Keys
    BY <1>t, <2>1, RunningEntry
  <2>3. ~ Present(buckets, capacity, Head(todo).key)
    BY <1>t, <2>1, <2>2, FindComplete
  <2>4. QED
    BY <1>t, <2>1, <2>3
       DEF IInv, TypeOK, OrderMatches, Listed, KeysFit, ResizeInv
<1>6. CASE RehashEmpty
  <2>1. /\ pc = "rehash" /\ scan < capacity /\ scan' = scan + 1
        /\ buckets[scan].used = Empty
        /\ UNCHANGED <<buckets, capacity, order, keysCap, pc, todo, fresh>>
    BY <1>6 DEF RehashEmpty, table
  <2>2. TypeOK'
    BY <1>t, <2>1 DEF TypeOK
  <2>3. \A k : Moved(k)' <=> Moved(k)
    BY <1>t, <2>1 DEF Moved, Holds, TypeOK, Empty, Occupied
  <2>4. ResizeInv'
    BY <1>t, <2>1, <2>3 DEF ResizeInv
  <2>5. QED
    BY <1>t, <2>1, <2>2, <2>4 DEF IInv, OrderMatches, Listed, KeysFit
<1>7. CASE RehashBucket
  <2> DEFINE b == buckets[scan]
  <2>1. /\ pc = "rehash" /\ scan < capacity /\ scan' = scan + 1
        /\ b.used # Empty /\ b.key # NULL
        /\ UNCHANGED <<buckets, capacity, order, keysCap, pc, todo>>
    BY <1>7 DEF RehashBucket, table
  <2>2. PICK s \in FreeSlot(fresh, b.key, 2 * capacity) :
          fresh' = [fresh EXCEPT ![s] = b]
    BY <1>7 DEF RehashBucket
  <2>3. 2 * capacity \in Nat \ {0} /\ scan \in 0 .. capacity - 1
    BY <1>t, <2>1 DEF TypeOK
  <2>4. b \in Bucket /\ Clean(b) /\ b.key \in Keys /\ Holds(b, b.key)
    BY <1>t, <2>1, <2>3 DEF WellFormed, Clean, Holds
  <2>5. ~ Moved(b.key)
    BY <1>t, <2>3, <2>4 DEF Moved, Holds, WellFormed, OneBucketPerKey
  <2>6. /\ WellFormed(fresh, 2 * capacity)
        /\ \A k \in Keys : Present(fresh, 2 * capacity, k) <=> Moved(k)
    BY <1>t, <2>1 DEF ResizeInv
  <2>7. /\ WellFormed(fresh', 2 * capacity)
        /\ \A j \in Keys : Present(fresh', 2 * capacity, j)
                            <=> Present(fresh, 2 * capacity, j) \/ j = b.key
    <3> HIDE DEF b
    <3>1. ~ Present(fresh, 2 * capacity, b.key)
      BY <2>4, <2>5, <2>6
    <3>2. QED
      BY <2>2, <2>3, <2>4, <2>6, <3>1, StoreInFreeSlot
  <2>8. \A k \in Keys : Moved(k)' <=> Moved(k) \/ k = b.key
    <3>1. ASSUME NEW k \in Keys PROVE Moved(k)' <=> Moved(k) \/ k = b.key
      <4>1. 0 .. scan' - 1 = (0 .. scan - 1) \cup {scan}
        BY <2>1, <2>3
      <4>2. Moved(k)' <=> \E t \in (0 .. scan - 1) \cup {scan} : Holds(buckets[t], k)
        BY <2>1, <4>1 DEF Moved
      <4>3. Holds(buckets[scan], k) <=> k = b.key
        BY <2>4 DEF Holds
      <4>4. QED BY <4>2, <4>3 DEF Moved
    <3>2. QED BY <3>1
  <2>9. ResizeInv'
    BY <2>1, <2>6, <2>7, <2>8 DEF ResizeInv
  <2>10. TypeOK'
    <3>1. fresh' \in [0 .. 2 * capacity - 1 -> Bucket]
      BY <2>7 DEF WellFormed
    <3>2. QED BY <1>t, <2>1, <2>3, <3>1 DEF TypeOK
  <2>11. QED
    BY <1>t, <2>1, <2>9, <2>10 DEF IInv, OrderMatches, Listed, KeysFit
<1>8. CASE RehashNull
  <2>1. /\ pc = "rehash" /\ pc' = "crashed"
        /\ UNCHANGED <<buckets, capacity, order, keysCap, todo, fresh, scan>>
    BY <1>8 DEF RehashNull, table
  <2>2. QED
    BY <1>t, <2>1 DEF IInv, TypeOK, OrderMatches, Listed, KeysFit, ResizeInv
<1>9. CASE FinishResize
  <2>1. /\ pc = "rehash" /\ scan = capacity /\ pc' = "place"
        /\ buckets' = fresh /\ capacity' = 2 * capacity
        /\ fresh' = << >> /\ scan' = 0
        /\ UNCHANGED <<order, keysCap, todo>>
    BY <1>9 DEF FinishResize
  <2>2. /\ WellFormed(fresh, 2 * capacity)
        /\ \A k \in Keys : Present(fresh, 2 * capacity, k) <=> Moved(k)
    BY <1>t, <2>1 DEF ResizeInv
  <2>3. \A k : Moved(k) <=> Present(buckets, capacity, k)
    BY <2>1 DEF Moved, Present
  <2>4. \A k \in Keys : Present(buckets', capacity', k)
                        <=> Present(buckets, capacity, k)
    BY <2>1, <2>2, <2>3
  <2>5. Head(todo).key \in Keys
    BY <1>t, <2>1, RunningEntry
  <2>6. WellFormed(buckets', capacity')
    BY <2>1, <2>2
  <2>7. TypeOK'
    <3>1. buckets' \in [0 .. capacity' - 1 -> Bucket]
      BY <2>6 DEF WellFormed
    <3>2. capacity' \in Nat \ {0}
      BY <1>t, <2>1
    <3>3. QED BY <1>t, <2>1, <3>1, <3>2 DEF TypeOK
  <2>8. OrderMatches'
    BY <1>t, <2>1, <2>4 DEF OrderMatches, Listed
  <2>9. ~ Present(buckets', capacity', Head(todo').key)
    BY <1>t, <2>1, <2>4, <2>5
  <2>10. QED
    BY <1>t, <2>1, <2>6, <2>7, <2>8, <2>9 DEF IInv, KeysFit, ResizeInv
<1>10. CASE Place
  <2> DEFINE e == Head(todo)
             b == BucketOf(e.key, e.value)
  <2>1. /\ pc = "place" /\ EntryStored
        /\ keysCap' = GrownKeysCap /\ order' = Append(order, e.key)
        /\ UNCHANGED <<capacity, fresh, scan>>
    BY <1>10 DEF Place
  <2>2. PICK s \in FreeSlot(buckets, e.key, capacity) :
          buckets' = [buckets EXCEPT ![s] = b]
    BY <1>10 DEF Place
  <2>3. e.key \in Keys /\ e.value \in Vals
    BY <1>t, <2>1, RunningEntry
  <2>4. b \in Bucket /\ Clean(b) /\ Holds(b, e.key)
    BY <2>3 DEF BucketOf, Bucket, Clean, Holds, Occupied
  <2>5. ~ Present(buckets, capacity, e.key)
    BY <1>t, <2>1
  <2> HIDE DEF b, e
  <2>6. /\ WellFormed(buckets', capacity)
        /\ \A j \in Keys : Present(buckets', capacity, j)
                            <=> Present(buckets, capacity, j) \/ j = e.key
    BY <1>t, <2>2, <2>3, <2>4, <2>5, StoreInFreeSlot
  <2>7. /\ order \in Seq(Keys)
        /\ \A i, j \in DOMAIN order : order[i] = order[j] => i = j
        /\ \A i \in DOMAIN order : order[i] # e.key
    BY <1>t, <2>3, <2>5 DEF TypeOK, OrderMatches, Listed
  <2>8. /\ order' \in Seq(Keys)
        /\ Len(order') = Len(order) + 1
        /\ \A i, j \in DOMAIN order' : order'[i] = order'[j] => i = j
        /\ \A l \in Keys : Listed(l)' <=> Listed(l) \/ l = e.key
    BY <2>1, <2>3, <2>7, AppendKey DEF Listed
  <2>9. OrderMatches'
    BY <1>t, <2>1, <2>6, <2>8 DEF OrderMatches
  <2>10. keysCap' \in Nat /\ KeysFit'
    BY <1>t, <2>1, <2>8 DEF KeysFit, GrownKeysCap, TypeOK
  <2>11. /\ todo' \in Seq(Entry)
         /\ pc' \in {"idle", "lookup"}
         /\ pc' # "idle" => todo' # << >>
    BY <1>t, <2>1, EntryStoredType
  <2>12. TypeOK'
    BY <1>t, <2>1, <2>6, <2>8, <2>10, <2>11 DEF TypeOK, WellFormed
  <2>13. QED
    BY <2>1, <2>6, <2>9, <2>10, <2>11, <2>12 DEF IInv, ResizeInv
<1>11. ASSUME NEW k \in Keys, Delete(k) PROVE IInv'
  <2>1. /\ pc = "idle" /\ order' = OrderAfterDelete(k)
        /\ UNCHANGED <<capacity, keysCap, pc, todo, fresh, scan>>
    BY <1>11 DEF Delete
  <2>2. PICK s \in Find(buckets, k, capacity) :
          buckets' = [buckets EXCEPT ![s] = DeletedBucket]
    BY <1>11 DEF Delete
  <2>3. /\ WellFormed(buckets', capacity)
        /\ \A j \in Keys : Present(buckets', capacity, j)
                            <=> Present(buckets, capacity, j) /\ j # k
    BY <1>t, <2>2, LeaveTombstone
  <2>4. Listed(k)
    BY <1>t, <2>2, FindComplete DEF OrderMatches
  <2>5. /\ order' \in Seq(Keys)
        /\ Len(order') = Len(order) - 1
        /\ \A i, j \in DOMAIN order' : order'[i] = order'[j] => i = j
        /\ \A l \in Keys : Listed(l)' <=> Listed(l) /\ l # k
    BY <1>t, <2>1, <2>4, RemoveKey DEF TypeOK, OrderMatches, Listed
  <2>6. OrderMatches'
    BY <1>t, <2>1, <2>3, <2>5 DEF OrderMatches
  <2>7. KeysFit'
    BY <1>t, <2>1, <2>5 DEF KeysFit, TypeOK
  <2>8. TypeOK'
    BY <1>t, <2>1, <2>3, <2>5 DEF TypeOK, WellFormed
  <2>9. QED
    BY <1>t, <2>1, <2>3, <2>6, <2>7, <2>8 DEF IInv, ResizeInv
<1>12. CASE UNCHANGED vars
  BY <1>12, <1>t
     DEF vars, table, IInv, TypeOK, OrderMatches, Listed, KeysFit, ResizeInv, Moved
<1>13. QED
  BY <1>1, <1>2, <1>3, <1>4, <1>5, <1>6, <1>7, <1>8, <1>9, <1>10, <1>11, <1>12
     DEF Next, Call, Step

\* Every reachable state of a dictionary satisfies the invariant.
THEOREM InvariantHolds == Spec => []IInv
BY InitIInv, NextIInv, PTL DEF Spec

\* The variables of a dictionary have their types in every reachable state.
THEOREM TypeCorrect == Spec => []TypeOK
<1>1. IInv => TypeOK
  BY DEF IInv
<1>2. QED BY <1>1, InvariantHolds, PTL

\* sx_dict_find finds exactly the keys that keys() lists, whatever has been
\* deleted, overwritten or rehashed before.
THEOREM LookupCorrect == Spec => []LookupAgrees
<1>1. IInv => LookupAgrees
  <2> SUFFICES ASSUME IInv, NEW k \in Keys PROVE Has(k) <=> Listed(k)
    BY DEF LookupAgrees, Listed
  <2>1. Has(k) <=> Present(buckets, capacity, k)
    BY FindComplete DEF IInv, TypeOK, Has
  <2>2. QED BY <2>1 DEF IInv, OrderMatches
<1>2. QED BY <1>1, InvariantHolds, PTL

\* No key is listed or stored twice.
THEOREM KeysUnique == Spec => []NoDuplicateKeys
<1>1. IInv => NoDuplicateKeys
  BY DEF IInv, TypeOK, OrderMatches, WellFormed, OneBucketPerKey, NoDuplicateKeys
<1>2. QED BY <1>1, InvariantHolds, PTL

\* sx_dict_add_key never writes past the array it allocated.
THEOREM KeyArrayBound == Spec => []KeysFit
<1>1. IInv => KeysFit
  BY DEF IInv
<1>2. QED BY <1>1, InvariantHolds, PTL

-----------------------------------------------------------------------------
(* A resize that dies.                                                     *)

\* A resize dies over a deleted bucket and over no other, whatever was set,
\* moved and deleted before.
THEOREM OnlyDeletedBucketsCrash == Spec => []CrashesOverDeleted
<1> DEFINE J == IInv /\ CrashesOverDeleted
<1>1. Init => J
  BY InitIInv DEF Init, CrashesOverDeleted
<1>2. ASSUME J, [Next]_vars PROVE CrashesOverDeleted'
  <2>1. CASE RehashNull
    <3>1. /\ pc = "rehash" /\ scan < capacity /\ buckets[scan].used # Empty
          /\ buckets[scan].key = NULL /\ UNCHANGED <<buckets, capacity, scan>>
      BY <2>1 DEF RehashNull, table
    <3>2. scan \in 0 .. capacity - 1
      BY <1>2, <3>1 DEF IInv, TypeOK
    <3>3. buckets[scan].used \in {Empty, Occupied, Tombstone} /\ Clean(buckets[scan])
      BY <1>2, <3>2 DEF IInv, TypeOK, WellFormed, Bucket
    <3>4. buckets[scan].used = Tombstone
      BY <3>1, <3>3, NullAssumption DEF Clean
    <3>5. QED
      BY <3>1, <3>4 DEF CrashesOverDeleted
  <2>2. CASE UNCHANGED vars
    BY <1>2, <2>2 DEF CrashesOverDeleted, vars, table
  <2>3. CASE Next /\ ~RehashNull
    <3>1. pc # "crashed" /\ (pc' # "crashed" \/ pc' = pc)
      BY <2>3 DEF Next, Call, CallSet, CallMerge, Delete, Step, Overwrite,
           StartResize, NoResize, RehashEmpty, RehashBucket, FinishResize, Place,
           EntryStored
    <3>2. QED
      BY <3>1 DEF CrashesOverDeleted
  <2>4. QED
    BY <1>2, <2>1, <2>2, <2>3
<1>3. J /\ [Next]_vars => J'
  BY <1>2, NextIInv
<1>4. J => CrashesOverDeleted
  OBVIOUS
<1> HIDE DEF J
<1>5. QED
  BY <1>1, <1>3, <1>4, PTL DEF Spec

-----------------------------------------------------------------------------
(* What a program reads.                                                   *)

Lookup(bs, n, k) ==
  IF Find(bs, k, n) # {} THEN LET s == CHOOSE s \in Find(bs, k, n) : TRUE IN bs[s].value
  ELSE NULL

\* The entries of the keys o in the table bs.
Pairs(o, bs, n) ==
  [i \in DOMAIN o |-> [key |-> o[i], value |-> Lookup(bs, n, o[i])]]

LEMMA SeenIs ==
  /\ EntriesSeen = Pairs(order, buckets, capacity)
  /\ EntriesSeen' = Pairs(order', buckets', capacity')
  /\ \A k : Get(k) = Lookup(buckets, capacity, k)
  /\ \A k : Get(k)' = Lookup(buckets', capacity', k)
BY DEF EntriesSeen, Pairs, ValuesList, Get, Has, Lookup

\* The key's one bucket is the one that is read.
LEMMA LookupIs ==
  ASSUME NEW n \in Nat \ {0}, NEW bs, WellFormed(bs, n), NEW k \in Keys,
         NEW s \in 0 .. n - 1, Holds(bs[s], k)
  PROVE  Lookup(bs, n, k) = bs[s].value /\ Lookup(bs, n, k) \in Vals
<1>1. Find(bs, k, n) # {}
  BY FindComplete DEF Present
<1>2. \A t \in Find(bs, k, n) : t = s
  BY DEF WellFormed, OneBucketPerKey, Find, Holds
<1>3. (CHOOSE t \in Find(bs, k, n) : TRUE) = s
  BY <1>1, <1>2
<1>4. Lookup(bs, n, k) = bs[s].value
  BY <1>1, <1>3 DEF Lookup
<1>5. bs[s].value \in Vals
  BY DEF WellFormed, Clean, Holds
<1>6. QED BY <1>4, <1>5

\* A key that stays in its bucket is read as before.
LEMMA LookupSame ==
  ASSUME NEW n \in Nat \ {0}, NEW bs, WellFormed(bs, n), NEW cs, WellFormed(cs, n),
         NEW k \in Keys, Present(bs, n, k),
         \A s \in 0 .. n - 1 : Holds(bs[s], k) =>
            Holds(cs[s], k) /\ cs[s].value = bs[s].value
  PROVE  Lookup(cs, n, k) = Lookup(bs, n, k)
<1>1. PICK s \in 0 .. n - 1 : Holds(bs[s], k)
  BY DEF Present
<1>2. Holds(cs[s], k) /\ cs[s].value = bs[s].value
  BY <1>1
<1>3. Lookup(cs, n, k) = cs[s].value /\ Lookup(bs, n, k) = bs[s].value
  BY <1>1, <1>2, LookupIs
<1>4. QED BY <1>2, <1>3

-----------------------------------------------------------------------------
(* A resize keeps the values.                                              *)

\* A key that is in both tables has one value.
SameInBoth ==
  \A k \in Keys : \A s \in 0 .. 2 * capacity - 1, t \in 0 .. capacity - 1 :
    Holds(fresh[s], k) /\ Holds(buckets[t], k) => fresh[s].value = buckets[t].value

RInv ==
  /\ IInv
  /\ pc = "rehash" => SameInBoth
  /\ pc = "idle" => todo = << >>

LEMMA RehashKeepsValues ==
  ASSUME IInv, SameInBoth, RehashBucket
  PROVE  SameInBoth'
<1>1. /\ pc = "rehash" /\ scan < capacity /\ scan \in Nat /\ capacity \in Nat \ {0}
      /\ WellFormed(buckets, capacity) /\ fresh \in [0 .. 2 * capacity - 1 -> Bucket]
      /\ UNCHANGED <<buckets, capacity>>
  BY DEF IInv, TypeOK, RehashBucket, table
<1>2. PICK r \in FreeSlot(fresh, buckets[scan].key, 2 * capacity) :
          fresh' = [fresh EXCEPT ![r] = buckets[scan]]
  BY DEF RehashBucket
<1>3. scan \in 0 .. capacity - 1
  BY <1>1
<1>4. ASSUME NEW k \in Keys, NEW s \in 0 .. 2 * capacity - 1, NEW t \in 0 .. capacity - 1,
             Holds(fresh'[s], k), Holds(buckets[t], k)
      PROVE  fresh'[s].value = buckets[t].value
  <2>1. CASE s = r
    <3>1. fresh'[s] = buckets[scan]
      BY <1>1, <1>2, <2>1
    <3>2. t = scan
      BY <1>1, <1>3, <1>4, <3>1 DEF WellFormed, OneBucketPerKey, Holds
    <3>3. QED BY <3>1, <3>2
  <2>2. CASE s # r
    <3>1. fresh'[s] = fresh[s]
      BY <1>1, <1>2, <2>2
    <3>2. QED BY <1>4, <3>1 DEF SameInBoth
  <2>3. QED BY <2>1, <2>2
<1>5. QED BY <1>1, <1>4 DEF SameInBoth

LEMMA StoredLeavesIdle ==
  ASSUME TypeOK, pc # "idle", EntryStored
  PROVE  pc' \in {"idle", "lookup"} /\ (pc' = "idle" => todo' = << >>)
<1>1. todo \in Seq(Entry) /\ todo # << >>
  BY DEF TypeOK
<1>2. /\ todo' = Tail(todo)
      /\ pc' = IF Len(todo) = 1 THEN "idle" ELSE "lookup"
  BY DEF EntryStored
<1>3. Tail(todo) \in Seq(Entry) /\ Len(Tail(todo)) = Len(todo) - 1
  BY <1>1, HeadTailProperties
<1>4. Len(todo) = 1 => Tail(todo) = << >>
  <2>1. ASSUME NEW s \in Seq(Entry), Len(s) = 0
        PROVE  s = << >>
    BY <2>1
  <2>2. Len(todo) = 1 => Len(Tail(todo)) = 0
    BY <1>3
  <2>3. QED BY <1>3, <2>1, <2>2
<1>5. QED BY <1>2, <1>4

LEMMA StepKeepsRInv ==
  ASSUME RInv, [Next]_vars
  PROVE  RInv'
<1>1. IInv /\ IInv' /\ TypeOK /\ TypeOK'
  <2>1. IInv'
    BY NextIInv DEF RInv
  <2>2. QED BY <2>1 DEF RInv, IInv
<1>2. ASSUME NEW k \in Keys, NEW v \in Vals, CallSet(k, v) PROVE RInv'
  BY <1>1, <1>2 DEF CallSet, RInv
<1>3. ASSUME NEW src \in Sources, CallMerge(src) PROVE RInv'
  BY <1>1, <1>3 DEF CallMerge, RInv
<1>4. CASE Overwrite \/ Place
  <2>1. pc # "idle" /\ EntryStored
    BY <1>4 DEF Overwrite, Place
  <2>2. pc' \in {"idle", "lookup"} /\ (pc' = "idle" => todo' = << >>)
    BY <1>1, <2>1, StoredLeavesIdle
  <2>3. QED BY <1>1, <2>2 DEF RInv
<1>5. CASE StartResize
  <2>1. pc' = "rehash" /\ fresh' = NoBuckets(2 * capacity) /\ capacity' = capacity
    BY <1>5 DEF StartResize, table
  <2>2. \A k, s : s \in 0 .. 2 * capacity - 1 => ~ Holds(fresh'[s], k)
    BY <2>1 DEF NoBuckets, FreeBucket, Holds, Empty, Occupied
  <2>3. QED BY <1>1, <2>1, <2>2 DEF RInv, SameInBoth
<1>6. CASE NoResize \/ RehashNull \/ FinishResize
  <2>1. pc' \in {"place", "crashed"}
    BY <1>6 DEF NoResize, RehashNull, FinishResize
  <2>2. QED BY <1>1, <2>1 DEF RInv
<1>7. CASE RehashEmpty
  <2>1. pc = "rehash" /\ UNCHANGED <<buckets, capacity, fresh, pc>>
    BY <1>7 DEF RehashEmpty, table
  <2>2. QED BY <1>1, <2>1 DEF RInv, SameInBoth
<1>8. CASE RehashBucket
  <2>1. pc = "rehash" /\ pc' = pc
    BY <1>8 DEF RehashBucket
  <2>2. SameInBoth'
    BY <1>1, <1>8, <2>1, RehashKeepsValues DEF RInv
  <2>3. QED BY <1>1, <2>1, <2>2 DEF RInv
<1>9. ASSUME NEW k \in Keys, Delete(k) PROVE RInv'
  BY <1>1, <1>9 DEF Delete, RInv
<1>10. CASE UNCHANGED vars
  BY <1>1, <1>10 DEF vars, table, RInv, SameInBoth
<1>11. QED
  BY <1>2, <1>3, <1>4, <1>5, <1>6, <1>7, <1>8, <1>9, <1>10 DEF Next, Call, Step

-----------------------------------------------------------------------------
(* What a step does to what is read.                                       *)

Before(k) == Lookup(buckets, capacity, k)
After(k) == Lookup(buckets', capacity', k)

LEMMA Tables ==
  ASSUME IInv
  PROVE  /\ capacity \in Nat \ {0} /\ WellFormed(buckets, capacity)
         /\ order \in Seq(Keys) /\ DOMAIN order = 1 .. Len(order) /\ Len(order) \in Nat
         /\ \A k \in Keys : Listed(k) <=> Present(buckets, capacity, k)
         /\ \A i, j \in DOMAIN order : order[i] = order[j] => i = j
         /\ \A i \in DOMAIN order : order[i] \in Keys /\ Listed(order[i])
<1>1. /\ order \in Seq(Keys)
      /\ capacity \in Nat \ {0} /\ WellFormed(buckets, capacity)
      /\ \A k \in Keys : Listed(k) <=> Present(buckets, capacity, k)
      /\ \A i, j \in DOMAIN order : order[i] = order[j] => i = j
  BY DEF IInv, TypeOK, OrderMatches
<1>2. DOMAIN order = 1 .. Len(order) /\ Len(order) \in Nat
      /\ \A i \in DOMAIN order : order[i] \in Keys
  BY <1>1
<1>3. QED BY <1>1, <1>2 DEF Listed

LEMMA OverwriteReads ==
  ASSUME IInv, IInv', Overwrite
  PROVE  /\ order' = order /\ Listed(Head(todo).key)
         /\ After(Head(todo).key) = Head(todo).value
         /\ \A k \in Keys : Listed(k) /\ k # Head(todo).key => After(k) = Before(k)
<1>1. PICK s \in Find(buckets, Head(todo).key, capacity) :
        buckets' = [buckets EXCEPT ![s].value = Head(todo).value]
  BY DEF Overwrite
<1>2. /\ pc = "lookup" /\ order' = order /\ capacity' = capacity
      /\ capacity \in Nat \ {0} /\ WellFormed(buckets, capacity)
      /\ WellFormed(buckets', capacity) /\ TypeOK
  BY DEF Overwrite, IInv, TypeOK
<1>3. PICK e : e = Head(todo)
  OBVIOUS
<1>4. e.key \in Keys /\ e.value \in Vals
  BY <1>2, <1>3, RunningEntry
<1>5. s \in 0 .. capacity - 1 /\ Holds(buckets[s], e.key)
  BY <1>1, <1>3 DEF Find
<1>6. Listed(e.key)
  BY <1>4, <1>5, Tables DEF Present
<1>7. /\ \A t \in 0 .. capacity - 1 : /\ buckets'[t].used = buckets[t].used
                                      /\ buckets'[t].key = buckets[t].key
                                      /\ t # s => buckets'[t].value = buckets[t].value
      /\ buckets'[s].value = e.value
  BY <1>1, <1>2, <1>3, <1>5 DEF WellFormed, Bucket
<1>8. After(e.key) = e.value
  <2>1. Holds(buckets'[s], e.key)
    BY <1>5, <1>7 DEF Holds
  <2>2. QED BY <1>2, <1>4, <1>5, <1>7, <2>1, LookupIs DEF After
<1>9. ASSUME NEW k \in Keys, Listed(k), k # e.key
      PROVE  After(k) = Before(k)
  <2>1. ASSUME NEW t \in 0 .. capacity - 1, Holds(buckets[t], k)
        PROVE  Holds(buckets'[t], k) /\ buckets'[t].value = buckets[t].value
    <3>1. t # s
      BY <1>5, <1>9, <2>1 DEF Holds
    <3>2. QED BY <1>7, <2>1, <3>1 DEF Holds
  <2>2. Present(buckets, capacity, k)
    BY <1>9, Tables
  <2>3. QED BY <1>2, <2>1, <2>2, LookupSame DEF After, Before
<1>10. QED BY <1>2, <1>3, <1>6, <1>8, <1>9

LEMMA PlaceReads ==
  ASSUME IInv, IInv', Place
  PROVE  /\ order' = Append(order, Head(todo).key) /\ ~ Listed(Head(todo).key)
         /\ After(Head(todo).key) = Head(todo).value
         /\ \A k \in Keys : Listed(k) => After(k) = Before(k)
<1>1. PICK s \in FreeSlot(buckets, Head(todo).key, capacity) :
        buckets' = [buckets EXCEPT ![s] = BucketOf(Head(todo).key, Head(todo).value)]
  BY DEF Place
<1>2. /\ pc = "place" /\ order' = Append(order, Head(todo).key) /\ capacity' = capacity
      /\ capacity \in Nat \ {0} /\ WellFormed(buckets, capacity)
      /\ WellFormed(buckets', capacity) /\ TypeOK
      /\ ~ Present(buckets, capacity, Head(todo).key)
  BY DEF Place, IInv, TypeOK
<1>3. PICK e : e = Head(todo)
  OBVIOUS
<1>4. e.key \in Keys /\ e.value \in Vals
  BY <1>2, <1>3, RunningEntry
<1>5. s \in 0 .. capacity - 1 /\ buckets[s].used = Empty
  BY <1>1 DEF FreeSlot
<1>6. ~ Listed(e.key)
  BY <1>2, <1>3, <1>4, Tables
<1>7. /\ \A t \in 0 .. capacity - 1 : t # s => buckets'[t] = buckets[t]
      /\ buckets'[s] = BucketOf(e.key, e.value)
  BY <1>1, <1>2, <1>3, <1>5 DEF WellFormed
<1>8. After(e.key) = e.value
  <2>1. Holds(buckets'[s], e.key) /\ buckets'[s].value = e.value
    BY <1>7 DEF Holds, BucketOf
  <2>2. QED BY <1>2, <1>4, <1>5, <2>1, LookupIs DEF After
<1>9. ASSUME NEW k \in Keys, Listed(k)
      PROVE  After(k) = Before(k)
  <2>1. ASSUME NEW t \in 0 .. capacity - 1, Holds(buckets[t], k)
        PROVE  Holds(buckets'[t], k) /\ buckets'[t].value = buckets[t].value
    <3>1. t # s
      BY <1>5, <2>1 DEF Holds, Empty, Occupied
    <3>2. QED BY <1>7, <2>1, <3>1
  <2>2. Present(buckets, capacity, k)
    BY <1>9, Tables
  <2>3. QED BY <1>2, <2>1, <2>2, LookupSame DEF After, Before
<1>10. QED BY <1>2, <1>3, <1>6, <1>8, <1>9

LEMMA DeleteReads ==
  ASSUME IInv, IInv', NEW d \in Keys, Delete(d)
  PROVE  /\ order' = OrderAfterDelete(d) /\ Listed(d)
         /\ \A k \in Keys : Listed(k) /\ k # d => After(k) = Before(k)
<1>1. PICK s \in Find(buckets, d, capacity) :
        buckets' = [buckets EXCEPT ![s] = DeletedBucket]
  BY DEF Delete
<1>2. /\ order' = OrderAfterDelete(d) /\ capacity' = capacity
      /\ capacity \in Nat \ {0} /\ WellFormed(buckets, capacity)
      /\ WellFormed(buckets', capacity)
  BY DEF Delete, IInv, TypeOK
<1>3. s \in 0 .. capacity - 1 /\ Holds(buckets[s], d)
  BY <1>1 DEF Find
<1>4. Listed(d)
  BY <1>3, Tables DEF Present
<1>5. \A t \in 0 .. capacity - 1 : t # s => buckets'[t] = buckets[t]
  BY <1>1, <1>2, <1>3 DEF WellFormed
<1>6. ASSUME NEW k \in Keys, Listed(k), k # d
      PROVE  After(k) = Before(k)
  <2>1. ASSUME NEW t \in 0 .. capacity - 1, Holds(buckets[t], k)
        PROVE  Holds(buckets'[t], k) /\ buckets'[t].value = buckets[t].value
    <3>1. t # s
      BY <1>3, <1>6, <2>1 DEF Holds
    <3>2. QED BY <1>5, <2>1, <3>1
  <2>2. Present(buckets, capacity, k)
    BY <1>6, Tables
  <2>3. QED BY <1>2, <2>1, <2>2, LookupSame DEF After, Before
<1>7. QED BY <1>2, <1>4, <1>6

LEMMA FinishResizeReads ==
  ASSUME IInv, IInv', SameInBoth, FinishResize
  PROVE  order' = order /\ \A k \in Keys : Listed(k) => After(k) = Before(k)
<1>1. /\ order' = order /\ buckets' = fresh /\ capacity' = 2 * capacity
      /\ pc = "rehash" /\ scan = capacity
  BY DEF FinishResize
<1>2. /\ capacity \in Nat \ {0} /\ 2 * capacity \in Nat \ {0}
      /\ WellFormed(buckets, capacity) /\ WellFormed(fresh, 2 * capacity)
      /\ \A k \in Keys : Present(fresh, 2 * capacity, k) <=> Moved(k)
  <2>1. capacity \in Nat \ {0}
    BY DEF IInv, TypeOK
  <2>2. 2 * capacity \in Nat \ {0}
    BY <2>1
  <2>3. QED BY <1>1, <2>1, <2>2 DEF IInv, ResizeInv
<1>3. ASSUME NEW k \in Keys, Listed(k)
      PROVE  After(k) = Before(k)
  <2>1. PICK t \in 0 .. capacity - 1 : Holds(buckets[t], k)
    BY <1>3, Tables DEF Present
  <2>2. Moved(k)
    BY <1>1, <2>1 DEF Moved
  <2>3. PICK s \in 0 .. 2 * capacity - 1 : Holds(fresh[s], k)
    BY <1>2, <2>2 DEF Present
  <2>4. fresh[s].value = buckets[t].value
    BY <2>1, <2>3 DEF SameInBoth
  <2>5. Lookup(buckets, capacity, k) = buckets[t].value
    BY <1>2, <2>1, LookupIs
  <2>6. Lookup(fresh, 2 * capacity, k) = fresh[s].value
    BY <1>2, <2>3, LookupIs
  <2>7. QED BY <1>1, <2>4, <2>5, <2>6 DEF After, Before
<1>4. QED BY <1>1, <1>3

-----------------------------------------------------------------------------
(* The hash table is an ordered map.                                       *)

LEMMA SeenType ==
  ASSUME IInv
  PROVE  /\ EntriesSeen \in Seq(Entry) /\ Len(EntriesSeen) = Len(order)
         /\ DOMAIN EntriesSeen = 1 .. Len(order)
         /\ \A i \in 1 .. Len(order) :
              EntriesSeen[i] = [key |-> order[i], value |-> Before(order[i])]
         /\ EntriesSeen' =
              [i \in DOMAIN order' |-> [key |-> order'[i], value |-> After(order'[i])]]
<1>1. DOMAIN order = 1 .. Len(order) /\ Len(order) \in Nat
  BY Tables
<1>2. EntriesSeen = [i \in 1 .. Len(order) |-> [key |-> order[i], value |-> Before(order[i])]]
  BY <1>1, SeenIs DEF Pairs, Before
<1>3. \A i \in 1 .. Len(order) : [key |-> order[i], value |-> Before(order[i])] \in Entry
  <2>1. ASSUME NEW k \in Keys, Listed(k)
        PROVE  Before(k) \in Vals
    <3>1. PICK s \in 0 .. capacity - 1 : Holds(buckets[s], k)
      BY <2>1, Tables DEF Present
    <3>2. QED BY <3>1, Tables, LookupIs DEF Before
  <2>2. QED BY <1>1, <2>1, Tables DEF Entry
<1>4. EntriesSeen \in Seq(Entry) /\ Len(EntriesSeen) = Len(order)
  BY <1>1, <1>2, <1>3, IsASeq
<1>5. EntriesSeen' =
        [i \in DOMAIN order' |-> [key |-> order'[i], value |-> After(order'[i])]]
  BY SeenIs DEF Pairs, After
<1>6. QED BY <1>2, <1>4, <1>5

\* Nothing is seen of a step that changes neither the keys nor what they read.
LEMMA UnseenStep ==
  ASSUME IInv, order' = order, \A k \in Keys : Listed(k) => After(k) = Before(k)
  PROVE  UNCHANGED EntriesSeen
<1>1. \A i \in DOMAIN order : After(order[i]) = Before(order[i])
  BY Tables
<1>2. EntriesSeen = [i \in DOMAIN order |-> [key |-> order[i], value |-> Before(order[i])]]
  BY SeenIs DEF Pairs, Before
<1>3. EntriesSeen' = [i \in DOMAIN order |-> [key |-> order[i], value |-> After(order[i])]]
  BY SeenType
<1>4. QED BY <1>1, <1>2, <1>3

LEMMA OverwriteIsPut ==
  ASSUME IInv, NEW k \in Keys, NEW v \in Vals, order' = order, Listed(k), After(k) = v,
         \A j \in Keys : Listed(j) /\ j # k => After(j) = Before(j)
  PROVE  Promise!Put(k, v)
<1> DEFINE E == EntriesSeen
           N == Len(order)
<1>1. /\ E \in Seq(Entry) /\ DOMAIN E = 1 .. N
      /\ \A i \in 1 .. N : E[i] = [key |-> order[i], value |-> Before(order[i])]
      /\ E' = [i \in 1 .. N |-> [key |-> order[i], value |-> After(order[i])]]
      /\ DOMAIN order = 1 .. N
  BY SeenType, Tables
<1>2. PICK i \in 1 .. N : order[i] = k
  BY <1>1 DEF Listed
<1> HIDE DEF E, N
<1>3. \A j \in 1 .. N : j # i => After(order[j]) = Before(order[j])
  BY <1>1, <1>2, Tables
<1>4. \A j \in 1 .. N : E'[j] = IF j = i THEN [key |-> k, value |-> v] ELSE E[j]
  BY <1>1, <1>2, <1>3
<1>5. [E[i] EXCEPT !.value = v] = [key |-> k, value |-> v]
  BY <1>1, <1>2
<1>6. E' = [E EXCEPT ![i].value = v]
  BY <1>1, <1>4, <1>5
<1>7. i \in Promise!PositionsOf(k)
  BY <1>1, <1>2 DEF Promise!PositionsOf, E
<1>8. QED BY <1>6, <1>7 DEF Promise!Put, E

LEMMA PlaceIsPut ==
  ASSUME IInv, NEW k \in Keys, NEW v \in Vals, order' = Append(order, k), ~ Listed(k),
         After(k) = v, \A j \in Keys : Listed(j) => After(j) = Before(j)
  PROVE  Promise!Put(k, v)
<1> DEFINE E == EntriesSeen
           N == Len(order)
           new == [key |-> k, value |-> v]
           A == Append(E, new)
<1>1. /\ E \in Seq(Entry) /\ DOMAIN E = 1 .. N /\ Len(E) = N /\ N \in Nat
      /\ \A i \in 1 .. N : E[i] = [key |-> order[i], value |-> Before(order[i])]
      /\ E' = [i \in DOMAIN order' |-> [key |-> order'[i], value |-> After(order'[i])]]
      /\ DOMAIN order = 1 .. N
  BY SeenType, Tables
<1>2. /\ DOMAIN order' = 1 .. N + 1
      /\ \A i \in 1 .. N : order'[i] = order[i]
      /\ order'[N + 1] = k
  BY <1>1, Tables
<1>3. new \in Entry
  BY DEF Entry
<1>4. /\ A = [i \in 1 .. N + 1 |-> A[i]]
      /\ \A i \in 1 .. N : A[i] = E[i]
      /\ A[N + 1] = new
  BY <1>1, <1>3
<1> HIDE DEF A, N
<1>5. \A i \in 1 .. N : After(order[i]) = Before(order[i]) /\ order[i] # k
  BY <1>1, Tables
<1>6. E' = [i \in 1 .. N + 1 |-> [key |-> order'[i], value |-> After(order'[i])]]
  BY <1>1, <1>2
<1>7. \A i \in 1 .. N + 1 : [key |-> order'[i], value |-> After(order'[i])] = A[i]
  <2>1. N + 1 \in Nat /\ \A i \in 1 .. N + 1 : i \in 1 .. N \/ i = N + 1
    BY <1>1
  <2>2. ASSUME NEW i \in 1 .. N
        PROVE  [key |-> order'[i], value |-> After(order'[i])] = A[i]
    <3>1. order'[i] = order[i] /\ After(order[i]) = Before(order[i])
      BY <1>2, <1>5
    <3>2. A[i] = [key |-> order[i], value |-> Before(order[i])]
      BY <1>1, <1>4
    <3>3. QED BY <3>1, <3>2
  <2>3. [key |-> order'[N + 1], value |-> After(order'[N + 1])] = A[N + 1]
    BY <1>2, <1>4
  <2>4. QED BY <2>1, <2>2, <2>3
<1>8. E' = A
  BY <1>4, <1>6, <1>7
<1>9. Promise!PositionsOf(k) = {}
  BY <1>1, <1>5 DEF Promise!PositionsOf, E
<1>10. QED BY <1>8, <1>9 DEF Promise!Put, A

LEMMA DeleteIsRemove ==
  ASSUME IInv, NEW d \in Keys, order' = OrderAfterDelete(d), Listed(d),
         \A k \in Keys : Listed(k) /\ k # d => After(k) = Before(k)
  PROVE  Promise!Remove(d)
<1> DEFINE E == EntriesSeen
           N == Len(order)
<1>1. /\ DOMAIN E = 1 .. N /\ Len(E) = N /\ N \in Nat
      /\ \A i \in 1 .. N : E[i] = [key |-> order[i], value |-> Before(order[i])]
      /\ E' = [i \in DOMAIN order' |-> [key |-> order'[i], value |-> After(order'[i])]]
      /\ DOMAIN order = 1 .. N
      /\ \A i, j \in 1 .. N : order[i] = order[j] => i = j
  BY SeenType, Tables
<1>2. PICK at \in 1 .. N : order[at] = d /\ order' = OrderWithout(at)
  <2>1. \E i \in DOMAIN order : FirstAt(d, i)
    <3>1. PICK i \in DOMAIN order : order[i] = d
      BY DEF Listed
    <3>2. \A j \in 1 .. i - 1 : order[j] # d
      BY <1>1, <3>1
    <3>3. QED BY <3>1, <3>2 DEF FirstAt
  <2>2. PICK i \in DOMAIN order : i = CHOOSE j \in DOMAIN order : FirstAt(d, j)
    BY <2>1
  <2>3. order[i] = d
    BY <2>1, <2>2 DEF FirstAt
  <2>4. order' = OrderWithout(i)
    BY <2>2 DEF OrderAfterDelete, Listed
  <2>5. QED BY <1>1, <2>3, <2>4
<1>3. order' = [j \in 1 .. N - 1 |-> IF j < at THEN order[j] ELSE order[j + 1]]
  BY <1>2 DEF OrderWithout
<1> HIDE DEF E, N
<1>4. E' = [j \in 1 .. N - 1 |-> [key |-> order'[j], value |-> After(order'[j])]]
  BY <1>1, <1>3
<1>5. \A j \in 1 .. N : j # at => order[j] # d /\ After(order[j]) = Before(order[j])
  BY <1>1, <1>2, Tables
<1>6. ASSUME NEW j \in 1 .. N - 1
      PROVE  [key |-> order'[j], value |-> After(order'[j])] = IF j < at THEN E[j] ELSE E[j + 1]
  <2>1. CASE j < at
    <3>1. j \in 1 .. N /\ j # at
      BY <1>1, <2>1
    <3>2. order'[j] = order[j]
      BY <1>3, <2>1
    <3>3. QED BY <1>1, <1>5, <2>1, <3>1, <3>2
  <2>2. CASE ~(j < at)
    <3>1. j + 1 \in 1 .. N /\ j + 1 # at
      BY <1>1, <2>2
    <3>2. order'[j] = order[j + 1]
      BY <1>3, <2>2
    <3>3. QED BY <1>1, <1>5, <2>2, <3>1, <3>2
  <2>3. QED BY <2>1, <2>2
<1>7. E' = Promise!Without(at)
  BY <1>1, <1>4, <1>6 DEF Promise!Without, E
<1>8. at \in Promise!PositionsOf(d)
  BY <1>1, <1>2 DEF Promise!PositionsOf, E
<1>9. QED BY <1>7, <1>8 DEF Promise!Remove, E

LEMMA RefinesInit ==
  ASSUME Init
  PROVE  Promise!Init
<1>1. EntriesSeen \in Seq(Entry) /\ DOMAIN EntriesSeen = {}
  <2>1. IInv /\ Len(order) = 0
    BY InitIInv DEF Init
  <2>2. QED BY <2>1, SeenType
<1>2. QED
  BY <1>1 DEF Promise!Init, Promise!TypeOK, Promise!Entry, Promise!KeysDistinct, Entry

LEMMA RefinesStep ==
  ASSUME RInv, RInv', [Next]_vars
  PROVE  [Promise!Next]_EntriesSeen
<1>1. IInv /\ IInv' /\ TypeOK
  BY DEF RInv, IInv
<1>2. CASE Overwrite \/ Place
  <2>1. PICK e : e = Head(todo)
    OBVIOUS
  <2>2. e.key \in Keys /\ e.value \in Vals
    <3>1. pc # "idle"
      BY <1>2 DEF Overwrite, Place
    <3>2. QED BY <1>1, <2>1, <3>1, RunningEntry
  <2>3. CASE Overwrite
    <3>1. /\ order' = order /\ Listed(e.key) /\ After(e.key) = e.value
          /\ \A k \in Keys : Listed(k) /\ k # e.key => After(k) = Before(k)
      BY <1>1, <2>1, <2>3, OverwriteReads
    <3>2. Promise!Put(e.key, e.value)
      BY <1>1, <2>2, <3>1, OverwriteIsPut
    <3>3. QED BY <2>2, <3>2 DEF Promise!Next
  <2>4. CASE Place
    <3>1. /\ order' = Append(order, e.key) /\ ~ Listed(e.key) /\ After(e.key) = e.value
          /\ \A k \in Keys : Listed(k) => After(k) = Before(k)
      BY <1>1, <2>1, <2>4, PlaceReads
    <3>2. Promise!Put(e.key, e.value)
      BY <1>1, <2>2, <3>1, PlaceIsPut
    <3>3. QED BY <2>2, <3>2 DEF Promise!Next
  <2>5. QED BY <1>2, <2>3, <2>4
<1>3. ASSUME NEW d \in Keys, Delete(d) PROVE Promise!Next
  <2>1. Promise!Remove(d)
    BY <1>1, <1>3, DeleteReads, DeleteIsRemove
  <2>2. QED BY <2>1 DEF Promise!Next
<1>4. CASE FinishResize
  <2>1. SameInBoth
    BY <1>4 DEF FinishResize, RInv
  <2>2. UNCHANGED EntriesSeen
    BY <1>1, <1>4, <2>1, FinishResizeReads, UnseenStep
  <2>3. QED BY <2>2
<1>5. ASSUME UNCHANGED <<buckets, capacity, order>>
      PROVE  UNCHANGED EntriesSeen
  BY <1>5 DEF EntriesSeen, ValuesList, Get, Has
<1>6. CASE Call \/ StartResize \/ NoResize \/ RehashEmpty \/ RehashBucket \/ RehashNull
           \/ UNCHANGED vars
  <2>1. UNCHANGED <<buckets, capacity, order>>
    BY <1>6 DEF Call, CallSet, CallMerge, StartResize, NoResize, RehashEmpty,
                RehashBucket, RehashNull, vars, table
  <2>2. QED BY <1>5, <2>1
<1>7. QED BY <1>2, <1>3, <1>4, <1>6 DEF Next, Step

LEMMA ValuesHold == Spec => []RInv
<1>1. Init => RInv
  BY InitIInv DEF Init, RInv
<1>2. QED BY <1>1, StepKeepsRInv, PTL DEF Spec

\* The hash table of compiled programs is an insertion-ordered map, for every
\* hash function, whatever is deleted: an overwrite or a placement is one Put, a
\* deletion one Remove, and nothing is seen of a resize.
THEOREM Refinement == Spec => ImplementsOrderedMap
<1>1. Init => Promise!Init
  BY RefinesInit
<1>2. RInv /\ RInv' /\ [Next]_vars => [Promise!Next]_EntriesSeen
  BY RefinesStep
<1>3. QED BY <1>1, <1>2, ValuesHold, PTL DEF Spec, ImplementsOrderedMap, Promise!Spec

\* What was stored is what is read when the call is over, also behind tombstones
\* and after a resize.
THEOREM StoredIsRead == Spec => SetTakesEffect
<1> DEFINE Effect == \A k \in Keys, v \in Vals :
                       /\ todo # << >> /\ Head(todo) = [key |-> k, value |-> v]
                       /\ todo' # todo
                       => Get(k)' = v
<1>1. RInv /\ RInv' /\ [Next]_vars => Effect
  <2> SUFFICES ASSUME RInv, RInv', [Next]_vars, NEW k \in Keys, NEW v \in Vals,
                      todo # << >>, Head(todo) = [key |-> k, value |-> v], todo' # todo
               PROVE  Get(k)' = v
    OBVIOUS
  <2>1. pc # "idle"
    BY DEF RInv
  <2>2. Overwrite \/ Place
    BY <2>1 DEF Next, Step, Call, CallSet, CallMerge, Delete, StartResize, NoResize,
                RehashEmpty, RehashBucket, RehashNull, FinishResize, vars, table
  <2>3. Head(todo).key = k /\ Head(todo).value = v
    OBVIOUS
  <2>4. After(Head(todo).key) = Head(todo).value
    BY <2>2, OverwriteReads, PlaceReads DEF RInv
  <2>5. Get(k)' = After(k)
    BY SeenIs DEF After
  <2>6. QED BY <2>3, <2>4, <2>5
<1>2. RInv /\ RInv' /\ [Next]_vars => [Effect]_vars
  BY <1>1
<1>3. Spec => [][Effect]_vars
  BY <1>2, ValuesHold, PTL DEF Spec
<1>4. QED BY <1>3 DEF SetTakesEffect
=============================================================================
