---------------------------- MODULE Lists_proofs ----------------------------
(***************************************************************************)
(* Proofs about Lists, for any values, literals, operations and loops.     *)
(*                                                                         *)
(* Each operation of each engine is first shown to do to its array what    *)
(* one relation (Does) says of the list the program sees; what follows is  *)
(* about that relation alone.                                              *)
(***************************************************************************)
EXTENDS Lists, TLAPS, SequenceTheorems, FiniteSetTheorems,
        WellFoundedInduction

-----------------------------------------------------------------------------
(* Arrays and the lists they show.                                         *)

Cells == Items \cup {Junk}
ArrayType == [items : Seq(Cells), len : Nat]

\* The first n places of an array have been written.
Written(items, n) == n <= Len(items) /\ \A i \in 1 .. n : items[i] \in Items

ArrayOK(l) == l \in ArrayType /\ Written(l.items, l.len)

LEMMA ArrayFacts ==
  ASSUME NEW l, ArrayOK(l)
  PROVE  /\ l \in ArrayType /\ l.items \in Seq(Cells) /\ Len(l.items) \in Nat
         /\ DOMAIN l.items = 1 .. Len(l.items)
         /\ l.len \in Nat /\ l.len <= Len(l.items)
         /\ \A i \in 1 .. Len(l.items) : l.items[i] \in Cells
         /\ \A i \in 1 .. l.len : l.items[i] \in Items
         /\ l = [items |-> l.items, len |-> l.len]
BY DEF ArrayOK, ArrayType, Written

\* An array from its cells and its length.
LEMMA ArrayIs ==
  ASSUME NEW n \in Nat, NEW f \in [1 .. n -> Cells], NEW len \in Nat, len <= n,
         \A i \in 1 .. len : f[i] \in Items
  PROVE  ArrayOK([items |-> f, len |-> len]) /\ Len(f) = n
<1>1. f \in Seq(Cells) /\ Len(f) = n
  OBVIOUS
<1>2. PICK l : l = [items |-> f, len |-> len]
  OBVIOUS
<1>3. l \in ArrayType
  BY <1>1, <1>2 DEF ArrayType
<1>4. l.items = f /\ l.len = len
  BY <1>2
<1>5. Written(f, len)
  BY <1>1 DEF Written
<1>6. QED BY <1>1, <1>2, <1>3, <1>4, <1>5 DEF ArrayOK

LEMMA ShownIs ==
  ASSUME NEW l, ArrayOK(l)
  PROVE  /\ SxShown(l) \in Seq(Items) /\ Len(SxShown(l)) = l.len
         /\ DOMAIN SxShown(l) = 1 .. l.len
         /\ \A i \in 1 .. l.len : SxShown(l)[i] = l.items[i]
         /\ GoShown(l) = SxShown(l)
<1>1. l.len \in Nat /\ \A i \in 1 .. l.len : l.items[i] \in Items
  BY ArrayFacts
<1>2. /\ SubSeq(l.items, 1, l.len) \in Seq(Items)
      /\ Len(SubSeq(l.items, 1, l.len)) = IF 1 <= l.len THEN l.len - 1 + 1 ELSE 0
      /\ \A i \in 1 .. l.len - 1 + 1 : SubSeq(l.items, 1, l.len)[i] = l.items[1 + i - 1]
  BY <1>1, SubSeqProperties
<1>3. Len(SubSeq(l.items, 1, l.len)) = l.len
  BY <1>1, <1>2
<1>4. ASSUME NEW i \in 1 .. l.len PROVE SubSeq(l.items, 1, l.len)[i] = l.items[i]
  <2>1. i \in 1 .. l.len - 1 + 1 /\ 1 + i - 1 = i
    BY <1>1
  <2>2. QED BY <1>2, <2>1
<1>5. QED BY <1>2, <1>3, <1>4, LenProperties DEF SxShown, GoShown

LEMMA Shows ==
  ASSUME NEW l, ArrayOK(l), NEW s \in Seq(Items), Len(s) = l.len,
         \A i \in 1 .. l.len : s[i] = l.items[i]
  PROVE  SxShown(l) = s
<1>1. /\ SxShown(l) \in Seq(Items) /\ Len(SxShown(l)) = l.len
      /\ \A i \in 1 .. l.len : SxShown(l)[i] = l.items[i]
  BY ShownIs
<1>2. QED BY <1>1, SeqEqual


\* An array that was given more cells.
Longer(items, more) ==
  /\ more \in Seq(Cells) /\ Len(more) \in Nat /\ Len(more) >= Len(items)
  /\ \A i \in 1 .. Len(items) : more[i] = items[i]

LEMMA JunkAdded ==
  ASSUME NEW items \in Seq(Cells), NEW n \in Nat
  PROVE  /\ Longer(items, items \o Unwritten(n))
         /\ Len(items \o Unwritten(n)) = Len(items) + n
<1> DEFINE junk == [i \in 1 .. n |-> Junk]
<1>1. junk \in [1 .. n -> Cells]
  BY DEF Cells
<1>2. junk \in Seq(Cells) /\ Len(junk) = n
  BY <1>1
<1> HIDE DEF junk
<1>3. /\ items \o junk \in Seq(Cells)
      /\ Len(items \o junk) = Len(items) + Len(junk)
      /\ \A i \in 1 .. Len(items) + Len(junk) : (items \o junk)[i] =
                     IF i <= Len(items) THEN items[i] ELSE junk[i - Len(items)]
  BY <1>2, ConcatProperties
<1>4. Len(items) \in Nat
  BY LenProperties
<1>5. Longer(items, items \o junk) /\ Len(items \o junk) = Len(items) + n
  BY <1>2, <1>3, <1>4 DEF Longer
<1>6. QED BY <1>5 DEF junk, Unwritten

LEMMA GrownIs ==
  ASSUME NEW l, ArrayOK(l)
  PROVE  Longer(l.items, Grown(l)) /\ Len(Grown(l)) >= l.len + 1
<1>1. l.items \in Seq(Cells) /\ Len(l.items) \in Nat /\ l.len \in Nat /\ l.len <= Len(l.items)
  BY ArrayFacts
<1>2. CASE l.len >= Len(l.items)
  <2>1. PICK n \in Nat : n >= 1 /\ Grown(l) = l.items \o Unwritten(n)
    <3>1. Grown(l) = l.items \o Unwritten(IF Len(l.items) = 0 THEN 4 ELSE Len(l.items))
      BY <1>2, Zenon DEF Grown
    <3>2. PICK n \in Nat : n = IF Len(l.items) = 0 THEN 4 ELSE Len(l.items)
      BY <1>1
    <3>3. n >= 1
      BY <1>1, <3>2
    <3>4. QED BY <3>1, <3>2, <3>3, Zenon
  <2>2. Longer(l.items, l.items \o Unwritten(n)) /\ Len(l.items \o Unwritten(n)) = Len(l.items) + n
    BY <1>1, JunkAdded
  <2>3. Len(l.items) + n >= l.len + 1
    BY <1>1, <2>1
  <2>4. QED BY <2>1, <2>2, <2>3
<1>3. CASE ~(l.len >= Len(l.items))
  BY <1>1, <1>3 DEF Grown, Longer
<1>4. QED BY <1>2, <1>3

LEMMA GoGrownIs ==
  ASSUME NEW l, ArrayOK(l)
  PROVE  Longer(l.items, GoGrown(l.items)) /\ Len(GoGrown(l.items)) >= l.len + 1
<1>1. l.items \in Seq(Cells) /\ Len(l.items) \in Nat /\ l.len \in Nat /\ l.len <= Len(l.items)
  BY ArrayFacts
<1>2. PICK n \in Nat : n >= 1 /\ GoGrown(l.items) = l.items \o Unwritten(n)
  <2>1. Max({1, Len(l.items)}) \in Nat /\ Max({1, Len(l.items)}) >= 1
    BY <1>1 DEF Max
  <2>2. QED BY <2>1 DEF GoGrown
<1>3. Longer(l.items, l.items \o Unwritten(n)) /\ Len(l.items \o Unwritten(n)) = Len(l.items) + n
  BY <1>1, JunkAdded
<1>4. Len(l.items) + n >= l.len + 1
  BY <1>1, <1>2
<1>5. QED BY <1>2, <1>3, <1>4

\* What is put behind the last element, in an array with a cell for it.
LEMMA Added ==
  ASSUME NEW l, ArrayOK(l), NEW x \in Items, NEW more, Longer(l.items, more),
         Len(more) >= l.len + 1,
         NEW m, m = [items |-> [more EXCEPT ![l.len + 1] = x], len |-> l.len + 1]
  PROVE  /\ ArrayOK(m) /\ m.len = l.len + 1 /\ SxShown(m) = Append(SxShown(l), x)
         /\ DOMAIN m.items = 1 .. Len(more)
         /\ \A i \in 1 .. Len(more) : m.items[i] = IF i = l.len + 1 THEN x ELSE more[i]
<1>1. /\ l.len \in Nat /\ more \in Seq(Cells) /\ Len(more) \in Nat /\ l.len <= Len(l.items)
      /\ Len(l.items) \in Nat
      /\ \A i \in 1 .. l.len : more[i] = l.items[i] /\ l.items[i] \in Items
  BY ArrayFacts DEF Longer
<1>2. more \in [1 .. Len(more) -> Cells]
  BY <1>1, LenProperties
<1>3. PICK f : f = [more EXCEPT ![l.len + 1] = x]
  OBVIOUS
<1>4. /\ f \in [1 .. Len(more) -> Cells]
      /\ \A i \in 1 .. Len(more) : f[i] = IF i = l.len + 1 THEN x ELSE more[i]
  BY <1>2, <1>3 DEF Cells
<1>5. l.len + 1 \in Nat /\ l.len + 1 <= Len(more)
  BY <1>1
<1>6. ASSUME NEW i \in 1 .. l.len + 1
      PROVE  f[i] \in Items
  <2>1. f[i] = IF i = l.len + 1 THEN x ELSE more[i]
    BY <1>1, <1>4, <1>5
  <2>2. CASE i = l.len + 1
    BY <2>1, <2>2
  <2>3. CASE i # l.len + 1
    <3>1. i \in 1 .. l.len
      BY <1>1, <2>3
    <3>2. QED BY <1>1, <2>1, <2>3, <3>1
  <2>4. QED BY <2>2, <2>3
<1>7. ArrayOK(m)
  <2>1. PICK n \in Nat : n = Len(more)
    BY <1>1
  <2>2. PICK len \in Nat : len = l.len + 1
    BY <1>1
  <2>3. /\ f \in [1 .. n -> Cells]
        /\ len <= n
        /\ \A i \in 1 .. len : f[i] \in Items
    <3>1. f \in [1 .. n -> Cells]
      BY <1>4, <2>1
    <3>2. len <= n
      BY <1>5, <2>1, <2>2
    <3>3. \A i \in 1 .. len : f[i] \in Items
      BY <1>6, <2>2
    <3>4. QED BY <3>1, <3>2, <3>3
  <2>4. ArrayOK([items |-> f, len |-> len])
    BY <2>3, ArrayIs
  <2>5. QED BY <1>3, <2>2, <2>4
<1>8. m.items = f /\ m.len = l.len + 1
  BY <1>3
<1>9. SxShown(m) = Append(SxShown(l), x)
  <2>1. /\ SxShown(l) \in Seq(Items) /\ Len(SxShown(l)) = l.len
        /\ \A i \in 1 .. l.len : SxShown(l)[i] = l.items[i]
    BY ShownIs
  <2> DEFINE s == Append(SxShown(l), x)
  <2>2. /\ s \in Seq(Items) /\ Len(s) = l.len + 1 /\ s[l.len + 1] = x
        /\ \A i \in 1 .. l.len : s[i] = SxShown(l)[i]
    BY <2>1, AppendProperties
  <2> HIDE DEF s
  <2>3. ASSUME NEW i \in 1 .. l.len + 1 PROVE s[i] = f[i]
    <3>1. CASE i = l.len + 1
      BY <1>1, <1>4, <1>5, <2>2, <3>1
    <3>2. CASE i # l.len + 1
      <4>1. i \in 1 .. l.len /\ i \in 1 .. Len(more)
        BY <1>1, <1>5, <3>2
      <4>2. QED BY <1>1, <1>4, <2>1, <2>2, <3>2, <4>1
    <3>3. QED BY <3>1, <3>2
  <2>4. SxShown(m) = s
    BY <1>7, <1>8, <2>2, <2>3, Shows
  <2>5. QED BY <2>4 DEF s
<1>10. DOMAIN m.items = 1 .. Len(more)
  BY <1>4, <1>8
<1>11. \A i \in 1 .. Len(more) : m.items[i] = IF i = l.len + 1 THEN x ELSE more[i]
  BY <1>4, <1>8
<1>12. QED BY <1>7, <1>8, <1>9, <1>10, <1>11

LEMMA SxAppendedIs ==
  ASSUME NEW l, ArrayOK(l), NEW x \in Items
  PROVE  /\ ArrayOK(SxAppended(l, x)) /\ SxAppended(l, x).len = l.len + 1
         /\ SxShown(SxAppended(l, x)) = Append(SxShown(l), x)
<1>1. PICK m : m = SxAppended(l, x)
  OBVIOUS
<1>2. m = [items |-> [Grown(l) EXCEPT ![l.len + 1] = x], len |-> l.len + 1]
  BY <1>1 DEF SxAppended
<1>3. ArrayOK(m) /\ m.len = l.len + 1 /\ SxShown(m) = Append(SxShown(l), x)
  BY <1>2, GrownIs, Added
<1>4. QED BY <1>1, <1>3

\* What was written stays written.
KeepsWritten(items, new) == \A n \in Nat : Written(items, n) => Written(new, n)

LEMMA GoAppendedIs ==
  ASSUME NEW l, ArrayOK(l), NEW x \in Items
  PROVE  /\ ArrayOK(GoAppended(l, x)) /\ GoAppended(l, x).len = l.len + 1
         /\ SxShown(GoAppended(l, x)) = Append(SxShown(l), x)
         /\ KeepsWritten(l.items, GoAppended(l, x).items)
         /\ DOMAIN GoAppended(l, x).items = 1 .. Len(GoAppended(l, x).items)
<1>1. PICK m : m = GoAppended(l, x)
  OBVIOUS
<1>2. PICK more : more = IF l.len = Len(l.items) THEN GoGrown(l.items) ELSE l.items
  OBVIOUS
<1>3. m = [items |-> [more EXCEPT ![l.len + 1] = x], len |-> l.len + 1]
  BY <1>1, <1>2 DEF GoAppended
<1>4. /\ l.len \in Nat /\ Len(l.items) \in Nat /\ l.len <= Len(l.items)
      /\ l.items \in Seq(Cells)
  BY ArrayFacts
<1>5. Longer(l.items, more) /\ Len(more) >= l.len + 1
  <2>1. CASE l.len = Len(l.items)
    BY <1>2, <2>1, GoGrownIs
  <2>2. CASE l.len # Len(l.items)
    BY <1>2, <1>4, <2>2 DEF Longer
  <2>3. QED BY <2>1, <2>2
<1>6. /\ ArrayOK(m) /\ m.len = l.len + 1 /\ SxShown(m) = Append(SxShown(l), x)
      /\ DOMAIN m.items = 1 .. Len(more)
      /\ \A i \in 1 .. Len(more) : m.items[i] = IF i = l.len + 1 THEN x ELSE more[i]
  BY <1>3, <1>5, Added
<1>7. DOMAIN m.items = 1 .. Len(m.items) /\ Len(m.items) \in Nat
  BY <1>6, ArrayFacts
<1>8. Len(m.items) = Len(more)
  BY <1>6, <1>7, <1>5 DEF Longer
<1>9. KeepsWritten(l.items, m.items)
  <2>1. SUFFICES ASSUME NEW n \in Nat, Written(l.items, n) PROVE Written(m.items, n)
    BY DEF KeepsWritten
  <2>2. /\ n <= Len(l.items) /\ Len(l.items) <= Len(more) /\ Len(more) \in Nat
        /\ \A i \in 1 .. n : l.items[i] \in Items /\ more[i] = l.items[i]
    BY <1>4, <1>5, <2>1 DEF Written, Longer
  <2>3. n <= Len(m.items)
    BY <1>4, <1>8, <2>2
  <2>4. ASSUME NEW i \in 1 .. n PROVE m.items[i] \in Items
    <3>1. i \in 1 .. Len(more)
      BY <1>4, <2>2
    <3>2. m.items[i] = IF i = l.len + 1 THEN x ELSE l.items[i]
      BY <1>6, <2>2, <3>1
    <3>3. QED BY <2>2, <3>2
  <2>5. QED BY <2>3, <2>4 DEF Written
<1>10. QED BY <1>1, <1>6, <1>7, <1>9

-----------------------------------------------------------------------------
(* What an operation makes of a list as the program sees it.               *)

Without(s, i) == [j \in 1 .. Len(s) - 1 |-> IF j < i THEN s[j] ELSE s[j + 1]]

With(s, i, x) ==
  [j \in 1 .. Len(s) + 1 |->
     IF j < i THEN s[j] ELSE IF j = i THEN x ELSE s[j - 1]]

Backwards(s) == [j \in 1 .. Len(s) |-> s[Len(s) + 1 - j]]

Permuted(s, p) == [j \in 1 .. Len(s) |-> s[p[j]]]

LEMMA WithoutIs ==
  ASSUME NEW s \in Seq(Items), NEW i \in 1 .. Len(s)
  PROVE  /\ Without(s, i) \in Seq(Items) /\ Len(Without(s, i)) = Len(s) - 1
         /\ \A j \in 1 .. Len(s) - 1 :
              Without(s, i)[j] = IF j < i THEN s[j] ELSE s[j + 1]
<1>1. Len(s) \in Nat /\ Len(s) - 1 \in Nat /\ \A j \in 1 .. Len(s) : s[j] \in Items
  BY LenProperties
<1>2. Without(s, i) \in [1 .. Len(s) - 1 -> Items]
  <2>1. ASSUME NEW j \in 1 .. Len(s) - 1
        PROVE  (IF j < i THEN s[j] ELSE s[j + 1]) \in Items
    <3>1. j \in 1 .. Len(s) /\ j + 1 \in 1 .. Len(s)
      BY <1>1
    <3>2. QED BY <1>1, <3>1
  <2>2. QED BY <2>1 DEF Without
<1>3. Without(s, i) \in Seq(Items) /\ Len(Without(s, i)) = Len(s) - 1
  BY <1>1, <1>2
<1>4. QED BY <1>3 DEF Without

LEMMA WithIs ==
  ASSUME NEW s \in Seq(Items), NEW i \in 1 .. Len(s) + 1, NEW x \in Items
  PROVE  /\ With(s, i, x) \in Seq(Items) /\ Len(With(s, i, x)) = Len(s) + 1
         /\ \A j \in 1 .. Len(s) + 1 :
              With(s, i, x)[j] = IF j < i THEN s[j] ELSE IF j = i THEN x ELSE s[j - 1]
<1>1. Len(s) \in Nat /\ Len(s) + 1 \in Nat /\ \A j \in 1 .. Len(s) : s[j] \in Items
  BY LenProperties
<1>2. With(s, i, x) \in [1 .. Len(s) + 1 -> Items]
  <2>1. ASSUME NEW j \in 1 .. Len(s) + 1
        PROVE  (IF j < i THEN s[j] ELSE IF j = i THEN x ELSE s[j - 1]) \in Items
    <3>1. j < i => j \in 1 .. Len(s)
      BY <1>1
    <3>2. ~(j < i) /\ j # i => j - 1 \in 1 .. Len(s)
      BY <1>1
    <3>3. QED BY <1>1, <3>1, <3>2
  <2>2. QED BY <2>1 DEF With
<1>3. With(s, i, x) \in Seq(Items) /\ Len(With(s, i, x)) = Len(s) + 1
  BY <1>1, <1>2
<1>4. QED BY <1>3 DEF With

LEMMA PermutedIs ==
  ASSUME NEW s \in Seq(Items), NEW p \in [1 .. Len(s) -> 1 .. Len(s)]
  PROVE  /\ Permuted(s, p) \in Seq(Items) /\ Len(Permuted(s, p)) = Len(s)
         /\ \A j \in 1 .. Len(s) : Permuted(s, p)[j] = s[p[j]]
<1>1. Len(s) \in Nat /\ \A j \in 1 .. Len(s) : s[j] \in Items
  BY LenProperties
<1>2. Permuted(s, p) \in [1 .. Len(s) -> Items]
  BY <1>1 DEF Permuted
<1>3. Permuted(s, p) \in Seq(Items) /\ Len(Permuted(s, p)) = Len(s)
  BY <1>1, <1>2
<1>4. QED BY <1>3 DEF Permuted

LEMMA BackwardsIs ==
  ASSUME NEW s \in Seq(Items)
  PROVE  /\ Backwards(s) \in Seq(Items) /\ Len(Backwards(s)) = Len(s)
         /\ \A j \in 1 .. Len(s) : Backwards(s)[j] = s[Len(s) + 1 - j]
<1>1. Len(s) \in Nat /\ \A j \in 1 .. Len(s) : s[j] \in Items
  BY LenProperties
<1>2. \A j \in 1 .. Len(s) : Len(s) + 1 - j \in 1 .. Len(s)
  BY <1>1
<1>3. Backwards(s) \in [1 .. Len(s) -> Items]
  BY <1>1, <1>2 DEF Backwards
<1>4. Backwards(s) \in Seq(Items) /\ Len(Backwards(s)) = Len(s)
  BY <1>1, <1>3
<1>5. QED BY <1>4 DEF Backwards

-----------------------------------------------------------------------------
(* What the operations do to an array.                                     *)

\* Cells that change places: the array shows s if its first cells are s.
LEMMA Reshaped ==
  ASSUME NEW l, ArrayOK(l), NEW f \in [1 .. Len(l.items) -> Cells],
         NEW s \in Seq(Items), Len(s) <= Len(l.items), \A i \in 1 .. Len(s) : f[i] = s[i],
         NEW m, m = [items |-> f, len |-> Len(s)]
  PROVE  ArrayOK(m) /\ m.len = Len(s) /\ SxShown(m) = s
<1>1. Len(s) \in Nat /\ Len(l.items) \in Nat /\ \A i \in 1 .. Len(s) : s[i] \in Items
  BY ArrayFacts, LenProperties
<1>2. ArrayOK(m)
  BY <1>1, ArrayIs
<1>3. m.items = f /\ m.len = Len(s)
  OBVIOUS
<1>4. QED BY <1>2, <1>3, Shows

LEMMA KeepsIf ==
  ASSUME NEW l, ArrayOK(l), NEW f \in [1 .. Len(l.items) -> Cells],
         \A i \in 1 .. Len(l.items) : l.items[i] \in Items => f[i] \in Items
  PROVE  KeepsWritten(l.items, f)
<1>1. Len(l.items) \in Nat
  BY ArrayFacts
<1>2. Len(f) = Len(l.items)
  BY <1>1
<1>3. SUFFICES ASSUME NEW n \in Nat, Written(l.items, n) PROVE Written(f, n)
  BY DEF KeepsWritten
<1>4. \A i \in 1 .. n : i \in 1 .. Len(l.items) /\ l.items[i] \in Items
  BY <1>1, <1>3 DEF Written
<1>5. QED BY <1>2, <1>3, <1>4 DEF Written

LEMMA RemovedIs ==
  ASSUME NEW l, ArrayOK(l), NEW p \in 0 .. l.len - 1
  PROVE  /\ ArrayOK(Removed(l, p)) /\ Removed(l, p).len = l.len - 1
         /\ SxShown(Removed(l, p)) = Without(SxShown(l), p + 1)
         /\ KeepsWritten(l.items, Removed(l, p).items)
<1> DEFINE f == [k \in DOMAIN l.items |->
                   IF k - 1 \in p .. l.len - 2 THEN l.items[k + 1] ELSE l.items[k]]
           s == Without(SxShown(l), p + 1)
<1>1. /\ l.len \in Nat /\ Len(l.items) \in Nat /\ l.len <= Len(l.items)
      /\ DOMAIN l.items = 1 .. Len(l.items)
      /\ \A i \in 1 .. Len(l.items) : l.items[i] \in Cells
      /\ \A i \in 1 .. l.len : l.items[i] \in Items
  BY ArrayFacts
<1>2. f \in [1 .. Len(l.items) -> Cells]
  <2>1. ASSUME NEW k \in 1 .. Len(l.items)
        PROVE  (IF k - 1 \in p .. l.len - 2 THEN l.items[k + 1] ELSE l.items[k]) \in Cells
    <3>1. k - 1 \in p .. l.len - 2 => k + 1 \in 1 .. Len(l.items)
      BY <1>1
    <3>2. QED BY <1>1, <3>1
  <2>2. QED BY <1>1, <2>1
<1>3. \A k \in 1 .. Len(l.items) :
        f[k] = IF k - 1 \in p .. l.len - 2 THEN l.items[k + 1] ELSE l.items[k]
  BY <1>1
<1>4. Removed(l, p) = [items |-> f, len |-> l.len - 1]
  BY DEF Removed
<1> HIDE DEF f
<1>5. /\ SxShown(l) \in Seq(Items) /\ Len(SxShown(l)) = l.len /\ p + 1 \in 1 .. l.len
      /\ \A i \in 1 .. l.len : SxShown(l)[i] = l.items[i]
  BY <1>1, ShownIs
<1>6. /\ s \in Seq(Items) /\ Len(s) = l.len - 1
      /\ \A j \in 1 .. l.len - 1 :
           s[j] = IF j < p + 1 THEN SxShown(l)[j] ELSE SxShown(l)[j + 1]
  BY <1>5, WithoutIs
<1> HIDE DEF s
<1>7. ASSUME NEW j \in 1 .. l.len - 1 PROVE f[j] = s[j]
  <2>1. j \in 1 .. Len(l.items) /\ j \in 1 .. l.len /\ j + 1 \in 1 .. l.len
    BY <1>1
  <2>2. j - 1 \in p .. l.len - 2 <=> ~(j < p + 1)
    BY <1>1
  <2>3. QED BY <1>3, <1>5, <1>6, <2>1, <2>2
<1>8. Len(s) <= Len(l.items)
  BY <1>1, <1>6
<1>9. ArrayOK(Removed(l, p)) /\ Removed(l, p).len = Len(s) /\ SxShown(Removed(l, p)) = s
  BY <1>2, <1>4, <1>6, <1>7, <1>8, Reshaped
<1>10. KeepsWritten(l.items, f)
  <2>1. ASSUME NEW k \in 1 .. Len(l.items), l.items[k] \in Items PROVE f[k] \in Items
    <3>1. k - 1 \in p .. l.len - 2 => k + 1 \in 1 .. l.len
      BY <1>1
    <3>2. QED BY <1>1, <1>3, <2>1, <3>1
  <2>2. QED BY <1>2, <2>1, KeepsIf
<1>11. Removed(l, p).items = f
  BY <1>4
<1>12. QED BY <1>6, <1>9, <1>10, <1>11 DEF s

LEMMA GoRemovedIs ==
  ASSUME NEW l, ArrayOK(l), NEW p \in 0 .. l.len - 1
  PROVE  GoRemoved(l, p) = Removed(l, p)
<1>1. l.len \in Nat /\ Len(l.items) \in Nat /\ DOMAIN l.items = 1 .. Len(l.items)
  BY ArrayFacts
<1>2. \A k \in DOMAIN l.items : k \in p + 1 .. l.len - 1 <=> k - 1 \in p .. l.len - 2
  BY <1>1
<1>3. QED BY <1>2 DEF GoRemoved, Removed

LEMMA ReversedIs ==
  ASSUME NEW l, ArrayOK(l)
  PROVE  /\ ArrayOK(Reversed(l)) /\ Reversed(l).len = l.len
         /\ SxShown(Reversed(l)) = Backwards(SxShown(l))
         /\ KeepsWritten(l.items, Reversed(l).items)
         /\ GoReversed(l) = Reversed(l)
<1> DEFINE f == [k \in DOMAIN l.items |->
                   IF k <= l.len THEN l.items[l.len + 1 - k] ELSE l.items[k]]
           s == Backwards(SxShown(l))
<1>1. /\ l.len \in Nat /\ Len(l.items) \in Nat /\ l.len <= Len(l.items)
      /\ DOMAIN l.items = 1 .. Len(l.items)
      /\ \A i \in 1 .. Len(l.items) : l.items[i] \in Cells
      /\ \A i \in 1 .. l.len : l.items[i] \in Items
      /\ l = [items |-> l.items, len |-> l.len]
  BY ArrayFacts
<1>2. \A k \in 1 .. l.len : l.len + 1 - k \in 1 .. l.len
  BY <1>1
<1>3. f \in [1 .. Len(l.items) -> Cells]
  <2>1. ASSUME NEW k \in 1 .. Len(l.items)
        PROVE  (IF k <= l.len THEN l.items[l.len + 1 - k] ELSE l.items[k]) \in Cells
    <3>1. k <= l.len => l.len + 1 - k \in 1 .. Len(l.items)
      BY <1>1
    <3>2. QED BY <1>1, <3>1
  <2>2. QED BY <1>1, <2>1
<1>4. \A k \in 1 .. Len(l.items) :
        f[k] = IF k <= l.len THEN l.items[l.len + 1 - k] ELSE l.items[k]
  BY <1>1
<1>5. Reversed(l) = [items |-> f, len |-> l.len]
  <2>1. \A g : [l EXCEPT !.items = g] = [items |-> g, len |-> l.len]
    BY <1>1
  <2>2. QED BY <2>1 DEF Reversed
<1> HIDE DEF f
<1>6. /\ SxShown(l) \in Seq(Items) /\ Len(SxShown(l)) = l.len
      /\ \A i \in 1 .. l.len : SxShown(l)[i] = l.items[i]
  BY ShownIs
<1>7. /\ s \in Seq(Items) /\ Len(s) = l.len
      /\ \A j \in 1 .. l.len : s[j] = SxShown(l)[l.len + 1 - j]
  BY <1>6, BackwardsIs
<1> HIDE DEF s
<1>8. ASSUME NEW j \in 1 .. l.len PROVE f[j] = s[j]
  <2>1. j \in 1 .. Len(l.items) /\ j <= l.len
    BY <1>1
  <2>2. PICK k \in 1 .. l.len : k = l.len + 1 - j
    BY <1>2
  <2>3. f[j] = l.items[k]
    BY <1>4, <2>1, <2>2
  <2>4. s[j] = SxShown(l)[k] /\ SxShown(l)[k] = l.items[k]
    BY <1>6, <1>7, <2>2
  <2>5. QED BY <2>3, <2>4
<1>9. ArrayOK(Reversed(l)) /\ Reversed(l).len = Len(s) /\ SxShown(Reversed(l)) = s
  BY <1>1, <1>3, <1>5, <1>7, <1>8, Reshaped
<1>10. KeepsWritten(l.items, f)
  <2>1. ASSUME NEW k \in 1 .. Len(l.items), l.items[k] \in Items PROVE f[k] \in Items
    <3>1. k <= l.len => l.len + 1 - k \in 1 .. l.len
      BY <1>1
    <3>2. QED BY <1>1, <1>4, <2>1, <3>1
  <2>2. QED BY <1>3, <2>1, KeepsIf
<1>11. Reversed(l).items = f /\ GoReversed(l) = Reversed(l)
  BY <1>5 DEF GoReversed, Reversed
<1>12. QED BY <1>7, <1>9, <1>10, <1>11 DEF s

\* An array with room for one more, in which everything from place p on has
\* moved up by one and x stands at p.
LEMMA Widened ==
  ASSUME NEW l, ArrayOK(l), NEW x \in Items, NEW p \in 0 .. l.len,
         NEW more, Longer(l.items, more), Len(more) >= l.len + 1,
         NEW f \in [1 .. Len(more) -> Cells],
         \A k \in 1 .. l.len + 1 :
           f[k] = IF k = p + 1 THEN x ELSE IF k > p + 1 THEN more[k - 1] ELSE more[k],
         NEW m, m = [items |-> f, len |-> l.len + 1]
  PROVE  ArrayOK(m) /\ m.len = l.len + 1 /\ SxShown(m) = With(SxShown(l), p + 1, x)
<1> DEFINE s == With(SxShown(l), p + 1, x)
<1>1. /\ l.len \in Nat /\ Len(l.items) \in Nat /\ l.len <= Len(l.items)
      /\ \A i \in 1 .. l.len : l.items[i] \in Items
  BY ArrayFacts
<1>2. /\ Len(more) \in Nat /\ \A i \in 1 .. l.len : more[i] = l.items[i]
  BY <1>1 DEF Longer
<1>3. /\ SxShown(l) \in Seq(Items) /\ Len(SxShown(l)) = l.len /\ p + 1 \in 1 .. l.len + 1
      /\ \A i \in 1 .. l.len : SxShown(l)[i] = l.items[i]
  BY <1>1, ShownIs
<1>4. /\ s \in Seq(Items) /\ Len(s) = l.len + 1
      /\ \A j \in 1 .. l.len + 1 :
           s[j] = IF j < p + 1 THEN SxShown(l)[j]
                  ELSE IF j = p + 1 THEN x ELSE SxShown(l)[j - 1]
  BY <1>3, WithIs
<1> HIDE DEF s
<1>5. ASSUME NEW j \in 1 .. l.len + 1 PROVE f[j] = s[j]
  <2>1. CASE j = p + 1
    BY <1>4, <2>1
  <2>2. CASE j < p + 1
    <3>1. j \in 1 .. l.len
      BY <1>1, <2>2
    <3>2. f[j] = more[j] /\ s[j] = SxShown(l)[j]
      BY <1>4, <2>2
    <3>3. QED BY <1>2, <1>3, <3>1, <3>2
  <2>3. CASE j > p + 1
    <3>1. PICK k \in 1 .. l.len : k = j - 1
      BY <1>1, <2>3
    <3>2. f[j] = more[k] /\ s[j] = SxShown(l)[k]
      BY <1>4, <2>3, <3>1
    <3>3. QED BY <1>2, <1>3, <3>1, <3>2
  <2>4. QED BY <1>1, <2>1, <2>2, <2>3
<1>6. \A i \in 1 .. l.len + 1 : f[i] \in Items
  BY <1>4, <1>5, LenProperties
<1>7. ArrayOK(m)
  <2>1. PICK n \in Nat : n = Len(more)
    BY <1>2
  <2>2. PICK len \in Nat : len = l.len + 1
    BY <1>1
  <2>3. f \in [1 .. n -> Cells] /\ len <= n /\ \A i \in 1 .. len : f[i] \in Items
    BY <1>6, <2>1, <2>2
  <2>4. ArrayOK([items |-> f, len |-> len])
    BY <2>3, ArrayIs
  <2>5. QED BY <2>2, <2>4
<1>8. m.items = f /\ m.len = l.len + 1
  OBVIOUS
<1>9. SxShown(m) = s
  BY <1>4, <1>5, <1>7, <1>8, Shows
<1>10. QED BY <1>7, <1>8, <1>9 DEF s

LEMMA InsertedIs ==
  ASSUME NEW l, ArrayOK(l), NEW x \in Items, NEW p \in 0 .. l.len
  PROVE  /\ ArrayOK(Inserted(l, p, x)) /\ Inserted(l, p, x).len = l.len + 1
         /\ SxShown(Inserted(l, p, x)) = With(SxShown(l), p + 1, x)
<1>1. PICK more : more = Grown(l)
  OBVIOUS
<1> DEFINE f == [k \in DOMAIN more |->
                   IF k - 1 = p THEN x
                   ELSE IF k - 1 \in p + 1 .. l.len THEN more[k - 1] ELSE more[k]]
<1>2. Longer(l.items, more) /\ Len(more) >= l.len + 1
  BY <1>1, GrownIs
<1>3. /\ l.len \in Nat /\ more \in Seq(Cells) /\ Len(more) \in Nat
      /\ DOMAIN more = 1 .. Len(more) /\ \A k \in 1 .. Len(more) : more[k] \in Cells
  BY <1>2, ArrayFacts, LenProperties DEF Longer
<1>4. f \in [1 .. Len(more) -> Cells]
  <2>1. ASSUME NEW k \in 1 .. Len(more)
        PROVE  (IF k - 1 = p THEN x
                ELSE IF k - 1 \in p + 1 .. l.len THEN more[k - 1] ELSE more[k]) \in Cells
    <3>1. k - 1 \in p + 1 .. l.len => k - 1 \in 1 .. Len(more)
      BY <1>3
    <3>2. QED BY <1>3, <3>1 DEF Cells
  <2>2. QED BY <1>3, <2>1
<1>5. Inserted(l, p, x) = [items |-> f, len |-> l.len + 1]
  BY <1>1 DEF Inserted
<1>6. ASSUME NEW k \in 1 .. l.len + 1
      PROVE  f[k] = IF k = p + 1 THEN x ELSE IF k > p + 1 THEN more[k - 1] ELSE more[k]
  <2>1. k \in 1 .. Len(more)
    BY <1>2, <1>3
  <2>2. (k - 1 = p <=> k = p + 1) /\ (k # p + 1 => (k - 1 \in p + 1 .. l.len <=> k > p + 1))
    BY <1>3
  <2>3. QED BY <1>3, <2>1, <2>2
<1> HIDE DEF f
<1>7. QED BY <1>2, <1>4, <1>5, <1>6, Widened

LEMMA GoInsertedIs ==
  ASSUME NEW l, ArrayOK(l), NEW x \in Items, NEW p \in 0 .. l.len
  PROVE  /\ ArrayOK(GoInserted(l, p, x)) /\ GoInserted(l, p, x).len = l.len + 1
         /\ SxShown(GoInserted(l, p, x)) = With(SxShown(l), p + 1, x)
         /\ KeepsWritten(l.items, GoInserted(l, p, x).items)
<1>1. PICK g : g = GoAppended(l, x)
  OBVIOUS
<1> DEFINE f == [k \in DOMAIN g.items |->
                   IF k = p + 1 THEN x
                   ELSE IF k \in p + 2 .. g.len THEN g.items[k - 1] ELSE g.items[k]]
<1>2. /\ ArrayOK(g) /\ g.len = l.len + 1 /\ SxShown(g) = Append(SxShown(l), x)
      /\ KeepsWritten(l.items, g.items)
  BY <1>1, GoAppendedIs
<1>3. /\ l.len \in Nat /\ Len(g.items) \in Nat /\ g.len <= Len(g.items)
      /\ DOMAIN g.items = 1 .. Len(g.items) /\ g = [items |-> g.items, len |-> g.len]
      /\ \A k \in 1 .. Len(g.items) : g.items[k] \in Cells
      /\ \A k \in 1 .. l.len + 1 : g.items[k] \in Items
  BY <1>2, ArrayFacts
<1>4. f \in [1 .. Len(g.items) -> Cells]
  <2>1. ASSUME NEW k \in 1 .. Len(g.items)
        PROVE  (IF k = p + 1 THEN x
                ELSE IF k \in p + 2 .. g.len THEN g.items[k - 1] ELSE g.items[k]) \in Cells
    <3>1. k \in p + 2 .. g.len => k - 1 \in 1 .. Len(g.items)
      BY <1>2, <1>3
    <3>2. QED BY <1>3, <3>1 DEF Cells
  <2>2. QED BY <1>3, <2>1
<1>5. GoInserted(l, p, x) = [items |-> f, len |-> l.len + 1]
  <2>1. \A h : [g EXCEPT !.items = h] = [items |-> h, len |-> l.len + 1]
    BY <1>2, <1>3
  <2>2. QED BY <1>1, <2>1 DEF GoInserted
<1>6. \A k \in 1 .. Len(g.items) :
        f[k] = IF k = p + 1 THEN x
               ELSE IF k \in p + 2 .. g.len THEN g.items[k - 1] ELSE g.items[k]
  BY <1>3
<1> HIDE DEF f
<1>7. ASSUME NEW k \in 1 .. Len(g.items), g.items[k] \in Items PROVE f[k] \in Items
  <2>1. k \in p + 2 .. g.len => k - 1 \in 1 .. l.len + 1
    BY <1>2, <1>3
  <2>2. QED BY <1>3, <1>6, <1>7, <2>1
<1>8. KeepsWritten(g.items, f)
  BY <1>2, <1>4, <1>7, KeepsIf
<1>9. KeepsWritten(l.items, f)
  BY <1>2, <1>8 DEF KeepsWritten
<1> DEFINE s == With(SxShown(l), p + 1, x)
<1>10. /\ SxShown(l) \in Seq(Items) /\ Len(SxShown(l)) = l.len /\ p + 1 \in 1 .. l.len + 1
  BY <1>3, ShownIs
<1>11. /\ s \in Seq(Items) /\ Len(s) = l.len + 1
       /\ \A j \in 1 .. l.len + 1 :
            s[j] = IF j < p + 1 THEN SxShown(l)[j]
                   ELSE IF j = p + 1 THEN x ELSE SxShown(l)[j - 1]
  <2>1. With(SxShown(l), p + 1, x) \in Seq(Items)
    BY <1>10, WithIs
  <2>2. Len(With(SxShown(l), p + 1, x)) = Len(SxShown(l)) + 1
    BY <1>10, WithIs
  <2>3. ASSUME NEW j \in 1 .. Len(SxShown(l)) + 1
        PROVE  With(SxShown(l), p + 1, x)[j] =
                 IF j < p + 1 THEN SxShown(l)[j]
                 ELSE IF j = p + 1 THEN x ELSE SxShown(l)[j - 1]
    BY DEF With
  <2>4. QED BY <1>10, <2>1, <2>2, <2>3
<1> HIDE DEF s
<1>12. \A i \in 1 .. l.len : g.items[i] = SxShown(l)[i]
  <2>1. \A i \in 1 .. l.len + 1 : SxShown(g)[i] = g.items[i]
    BY <1>2, ShownIs
  <2>2. \A i \in 1 .. l.len : Append(SxShown(l), x)[i] = SxShown(l)[i]
    BY <1>10, AppendProperties
  <2>3. ASSUME NEW i \in 1 .. l.len PROVE g.items[i] = SxShown(l)[i]
    <3>1. i \in 1 .. l.len + 1
      BY <1>3
    <3>2. QED BY <1>2, <2>1, <2>2, <3>1
  <2>4. QED BY <2>3
<1>13. ASSUME NEW j \in 1 .. l.len + 1 PROVE f[j] = s[j]
  <2>1. j \in 1 .. Len(g.items)
    BY <1>2, <1>3
  <2>2. CASE j = p + 1
    BY <1>6, <1>11, <2>1, <2>2
  <2>3. CASE j < p + 1
    <3>1. j \in 1 .. l.len /\ j \notin p + 2 .. g.len
      BY <1>3, <2>3
    <3>2. f[j] = g.items[j] /\ s[j] = SxShown(l)[j]
      BY <1>6, <1>11, <2>1, <2>3, <3>1
    <3>3. QED BY <1>12, <3>1, <3>2
  <2>4. CASE j > p + 1
    <3>1. PICK k \in 1 .. l.len : k = j - 1
      BY <1>3, <2>4
    <3>2. j \in p + 2 .. g.len
      BY <1>2, <1>3, <2>4
    <3>3. f[j] = g.items[k]
      BY <1>6, <2>1, <2>4, <3>1, <3>2
    <3>4. s[j] = SxShown(l)[k]
      BY <1>11, <2>4, <3>1
    <3>5. QED BY <1>12, <3>1, <3>3, <3>4
  <2>5. QED BY <1>3, <2>2, <2>3, <2>4
<1>14. /\ ArrayOK(GoInserted(l, p, x)) /\ GoInserted(l, p, x).len = Len(s)
       /\ SxShown(GoInserted(l, p, x)) = s
  <2>1. Len(s) <= Len(g.items)
    BY <1>2, <1>3, <1>11
  <2>2. GoInserted(l, p, x) = [items |-> f, len |-> Len(s)]
    BY <1>5, <1>11
  <2>3. QED BY <1>2, <1>4, <1>11, <1>13, <2>1, <2>2, Reshaped
<1>15. GoInserted(l, p, x).items = f
  BY <1>5
<1>16. QED BY <1>9, <1>11, <1>14, <1>15 DEF s

LEMMA Least ==
  ASSUME NEW S, S \subseteq Nat, S # {}
  PROVE  \E d \in S : \A c \in S : d <= c
<1> DEFINE R == {ss \in Nat \X Nat : ss[1] < ss[2]}
<1>1. IsWellFoundedOn(R, Nat)
  BY NatLessThanWellFounded DEF OpToRel
<1>2. PICK d \in S : \A c \in S : ~ (<<c, d>> \in R)
  BY <1>1, WFMin
<1>3. ASSUME NEW c \in S PROVE d <= c
  <2>1. c \in Nat /\ d \in Nat /\ ~ (<<c, d>> \in R)
    BY <1>2
  <2>2. ~ (c < d)
    BY <2>1
  <2>3. QED BY <2>1, <2>2
<1>4. QED BY <1>3

\* An assignment of one element: l.items[k] = x.
LEMMA SetIs ==
  ASSUME NEW l, ArrayOK(l), NEW k \in 1 .. l.len, NEW x \in Items
  PROVE  LET m == [l EXCEPT !.items[k] = x]
         IN  /\ ArrayOK(m) /\ m.len = l.len
             /\ SxShown(m) = [SxShown(l) EXCEPT ![k] = x]
             /\ KeepsWritten(l.items, m.items)
<1> DEFINE m == [l EXCEPT !.items[k] = x]
           f == [l.items EXCEPT ![k] = x]
           s == [SxShown(l) EXCEPT ![k] = x]
<1>1. /\ l.len \in Nat /\ Len(l.items) \in Nat /\ l.len <= Len(l.items)
      /\ DOMAIN l.items = 1 .. Len(l.items) /\ l.items \in Seq(Cells)
      /\ \A i \in 1 .. Len(l.items) : l.items[i] \in Cells
      /\ l = [items |-> l.items, len |-> l.len]
  BY ArrayFacts
<1>2. /\ f \in [1 .. Len(l.items) -> Cells]
      /\ \A i \in 1 .. Len(l.items) : f[i] = IF i = k THEN x ELSE l.items[i]
  <2>1. l.items \in [1 .. Len(l.items) -> Cells]
    BY <1>1, LenProperties
  <2>2. QED BY <2>1 DEF Cells
<1>3. /\ SxShown(l) \in Seq(Items) /\ Len(SxShown(l)) = l.len
      /\ \A i \in 1 .. l.len : SxShown(l)[i] = l.items[i]
  BY ShownIs
<1>4. /\ s \in Seq(Items) /\ Len(s) = l.len
      /\ \A i \in 1 .. l.len : s[i] = IF i = k THEN x ELSE SxShown(l)[i]
  BY <1>3, ExceptSeq
<1>5. m = [items |-> f, len |-> l.len]
  <2>1. \A g : [l EXCEPT !.items = g] = [items |-> g, len |-> l.len]
    BY <1>1
  <2>2. QED BY <2>1
<1> HIDE DEF f, s
<1>6. ASSUME NEW j \in 1 .. l.len PROVE f[j] = s[j]
  <2>1. j \in 1 .. Len(l.items)
    BY <1>1
  <2>2. QED BY <1>2, <1>3, <1>4, <2>1
<1>7. m = [items |-> f, len |-> Len(s)] /\ m.items = f
  BY <1>4, <1>5
<1> HIDE DEF m
<1>8. ArrayOK(m) /\ m.len = Len(s) /\ SxShown(m) = s
  <2>1. Len(s) <= Len(l.items) /\ \A i \in 1 .. Len(s) : f[i] = s[i]
    BY <1>1, <1>4, <1>6
  <2>2. QED BY <1>2, <1>4, <1>7, <2>1, Reshaped
<1>9. KeepsWritten(l.items, m.items)
  <2>1. \A i \in 1 .. Len(l.items) : l.items[i] \in Items => f[i] \in Items
    BY <1>2
  <2>2. KeepsWritten(l.items, f)
    BY <1>2, <2>1, KeepsIf
  <2>3. QED BY <1>7, <2>2
<1>10. QED BY <1>4, <1>8, <1>9 DEF m, s

LEMMA RearrangedIs ==
  ASSUME NEW l, ArrayOK(l), NEW p \in [1 .. l.len -> 1 .. l.len]
  PROVE  /\ ArrayOK(Rearranged(l, p)) /\ Rearranged(l, p).len = l.len
         /\ SxShown(Rearranged(l, p)) = Permuted(SxShown(l), p)
         /\ KeepsWritten(l.items, Rearranged(l, p).items)
         /\ \A i \in 1 .. l.len : Rearranged(l, p).items[i] = l.items[p[i]]
<1> DEFINE f == [k \in DOMAIN l.items |->
                   IF k <= l.len THEN l.items[p[k]] ELSE l.items[k]]
           s == Permuted(SxShown(l), p)
<1>1. /\ l.len \in Nat /\ Len(l.items) \in Nat /\ l.len <= Len(l.items)
      /\ DOMAIN l.items = 1 .. Len(l.items)
      /\ \A i \in 1 .. Len(l.items) : l.items[i] \in Cells
      /\ \A i \in 1 .. l.len : l.items[i] \in Items
      /\ l = [items |-> l.items, len |-> l.len]
  BY ArrayFacts
<1>2. f \in [1 .. Len(l.items) -> Cells]
  <2>1. ASSUME NEW k \in 1 .. Len(l.items)
        PROVE  (IF k <= l.len THEN l.items[p[k]] ELSE l.items[k]) \in Cells
    <3>1. k <= l.len => p[k] \in 1 .. Len(l.items)
      BY <1>1
    <3>2. QED BY <1>1, <3>1
  <2>2. QED BY <1>1, <2>1
<1>3. \A k \in 1 .. Len(l.items) :
        f[k] = IF k <= l.len THEN l.items[p[k]] ELSE l.items[k]
  BY <1>1
<1>4. Rearranged(l, p) = [items |-> f, len |-> l.len]
  <2>1. \A g : [l EXCEPT !.items = g] = [items |-> g, len |-> l.len]
    BY <1>1
  <2>2. QED BY <2>1 DEF Rearranged
<1> HIDE DEF f
<1>5. /\ SxShown(l) \in Seq(Items) /\ Len(SxShown(l)) = l.len
      /\ \A i \in 1 .. l.len : SxShown(l)[i] = l.items[i]
  BY ShownIs
<1>6. /\ s \in Seq(Items) /\ Len(s) = l.len
      /\ \A j \in 1 .. l.len : s[j] = SxShown(l)[p[j]]
  BY <1>5, PermutedIs
<1> HIDE DEF s
<1>7. ASSUME NEW j \in 1 .. l.len PROVE f[j] = s[j] /\ f[j] = l.items[p[j]]
  <2>1. j \in 1 .. Len(l.items) /\ j <= l.len /\ p[j] \in 1 .. l.len
    BY <1>1
  <2>2. QED BY <1>3, <1>5, <1>6, <2>1
<1>8. ArrayOK(Rearranged(l, p)) /\ Rearranged(l, p).len = Len(s) /\ SxShown(Rearranged(l, p)) = s
  <2>1. Len(s) <= Len(l.items) /\ \A i \in 1 .. Len(s) : f[i] = s[i]
    BY <1>1, <1>6, <1>7
  <2>2. Rearranged(l, p) = [items |-> f, len |-> Len(s)]
    BY <1>4, <1>6
  <2>3. QED BY <1>2, <1>6, <2>1, <2>2, Reshaped
<1>9. KeepsWritten(l.items, f)
  <2>1. ASSUME NEW k \in 1 .. Len(l.items), l.items[k] \in Items PROVE f[k] \in Items
    <3>1. k <= l.len => p[k] \in 1 .. l.len
      BY <1>1
    <3>2. QED BY <1>1, <1>3, <2>1, <3>1
  <2>2. QED BY <1>2, <2>1, KeepsIf
<1>10. Rearranged(l, p).items = f
  BY <1>4
<1>11. QED BY <1>6, <1>7, <1>8, <1>9, <1>10 DEF s

-----------------------------------------------------------------------------
(* Sorting.                                                                *)

\* An injection of a stretch of places into itself reaches all of them.
LEMMA InjectionCovers ==
  ASSUME NEW n \in Nat, NEW f \in [1 .. n -> 1 .. n],
         \A i, j \in 1 .. n : f[i] = f[j] => i = j
  PROVE  f \in Bijection(1 .. n, 1 .. n)
<1>1. IsFiniteSet(1 .. n) /\ Cardinality(1 .. n) = n
  BY FS_Interval
<1>2. ASSUME NEW t \in 1 .. n PROVE \E i \in 1 .. n : f[i] = t
  <2>1. SUFFICES ASSUME \A i \in 1 .. n : f[i] # t PROVE FALSE
    OBVIOUS
  <2> DEFINE T == (1 .. n) \ {t}
  <2>2. IsFiniteSet(T) /\ Cardinality(T) = n - 1
    BY <1>1, FS_RemoveElement
  <2>3. f \in [1 .. n -> T]
    BY <2>1
  <2>4. f \in Injection(1 .. n, T)
    BY <2>3 DEF Injection, IsInjective
  <2>5. Cardinality(1 .. n) <= Cardinality(T)
    BY <2>2, <2>4, FS_Injection
  <2>6. QED BY <1>1, <2>2, <2>5
<1>3. QED BY <1>2 DEF Bijection, Injection, IsInjective, Surjection

LEMMA BijectionFacts ==
  ASSUME NEW S, NEW p \in Bijection(S, S)
  PROVE  /\ p \in [S -> S] /\ \A i, j \in S : p[i] = p[j] => i = j
         /\ \A t \in S : \E i \in S : p[i] = t
BY DEF Bijection, Injection, IsInjective, Surjection

\* Both comparisons order the items, if not always the same way.
LEMMA SxCompares ==
  ASSUME NEW a \in Items, NEW b \in Items
  PROVE  SxCompare(a, b) \in Int /\ SxCompare(b, a) = 0 - SxCompare(a, b)
<1>1. /\ a.type \in DOMAIN TypeTags /\ b.type \in DOMAIN TypeTags
      /\ a.size \in Int /\ b.size \in Int
  BY ItemsAssumption
<1>2. TypeTags[a.type] \in Int /\ TypeTags[b.type] \in Int
  BY <1>1 DEF TypeTags
<1>3. QED BY <1>1, <1>2 DEF SxCompare

LEMMA SxOrders ==
  ASSUME NEW a \in Items, NEW b \in Items, NEW c \in Items,
         SxCompare(a, b) <= 0, SxCompare(b, c) <= 0
  PROVE  SxCompare(a, c) <= 0
<1>1. /\ a.type \in DOMAIN TypeTags /\ b.type \in DOMAIN TypeTags /\ c.type \in DOMAIN TypeTags
      /\ a.size \in Int /\ b.size \in Int /\ c.size \in Int
  BY ItemsAssumption
<1>2. /\ TypeTags[a.type] \in Int /\ TypeTags[b.type] \in Int /\ TypeTags[c.type] \in Int
      /\ (TypeTags[a.type] = TypeTags[b.type] <=> a.type = b.type)
      /\ (TypeTags[b.type] = TypeTags[c.type] <=> b.type = c.type)
      /\ (TypeTags[a.type] = TypeTags[c.type] <=> a.type = c.type)
  BY <1>1 DEF TypeTags
<1>3. QED BY <1>1, <1>2 DEF SxCompare

LEMMA GoCompares ==
  ASSUME NEW a \in Items, NEW b \in Items
  PROVE  GoCompare(a, b) \in Int /\ GoCompare(b, a) = 0 - GoCompare(a, b)
<1>1. /\ a.type \in DOMAIN TypeTags /\ b.type \in DOMAIN TypeTags
      /\ a.size \in Int /\ b.size \in Int
  BY ItemsAssumption
<1>2. GoOrder[a.type] \in Int /\ GoOrder[b.type] \in Int
  BY <1>1, GoOrderAssumption
<1>3. QED BY <1>1, <1>2 DEF GoCompare

LEMMA GoOrders ==
  ASSUME NEW a \in Items, NEW b \in Items, NEW c \in Items,
         GoCompare(a, b) <= 0, GoCompare(b, c) <= 0
  PROVE  /\ GoCompare(a, c) <= 0
         /\ GoCompare(a, c) = 0 => GoCompare(a, b) = 0 /\ GoCompare(b, c) = 0
<1>1. /\ a.type \in DOMAIN TypeTags /\ b.type \in DOMAIN TypeTags /\ c.type \in DOMAIN TypeTags
      /\ a.size \in Int /\ b.size \in Int /\ c.size \in Int
  BY ItemsAssumption
<1>2. /\ GoOrder[a.type] \in Int /\ GoOrder[b.type] \in Int /\ GoOrder[c.type] \in Int
      /\ (GoOrder[a.type] = GoOrder[b.type] <=> a.type = b.type)
      /\ (GoOrder[b.type] = GoOrder[c.type] <=> b.type = c.type)
      /\ (GoOrder[a.type] = GoOrder[c.type] <=> a.type = c.type)
  BY <1>1, GoOrderAssumption
<1>3. QED BY <1>1, <1>2 DEF GoCompare

Sorted(t) == \A i, j \in 1 .. Len(t) : i < j => SxCompare(t[i], t[j]) <= 0

\* t holds the elements of s, in the order of SxCompare.
SortedFrom(s, t) ==
  \E p \in Bijection(1 .. Len(s), 1 .. Len(s)) : t = Permuted(s, p) /\ Sorted(t)

\* What is in order next to each other is in order.
LEMMA NeighboursSort ==
  ASSUME NEW t \in Seq(Items),
         \A k \in 1 .. Len(t) - 1 : SxCompare(t[k], t[k + 1]) <= 0
  PROVE  Sorted(t)
<1>1. Len(t) \in Nat /\ \A i \in 1 .. Len(t) : t[i] \in Items
  BY LenProperties
<1>2. SUFFICES ASSUME NEW i \in 1 .. Len(t), NEW j \in 1 .. Len(t), i < j,
                      ~(SxCompare(t[i], t[j]) <= 0)
               PROVE  FALSE
  BY DEF Sorted
<1> DEFINE S == {c \in 1 .. Len(t) : i < c /\ ~(SxCompare(t[i], t[c]) <= 0)}
<1>3. S \subseteq Nat /\ S # {}
  BY <1>2
<1>4. PICK d \in S : \A c \in S : d <= c
  BY <1>3, Least
<1>5. PICK e : e = d - 1
  OBVIOUS
<1>6. /\ d \in 1 .. Len(t) /\ i < d /\ ~(SxCompare(t[i], t[d]) <= 0)
      /\ e \in 1 .. Len(t) - 1 /\ e \in 1 .. Len(t) /\ e + 1 = d /\ i <= e /\ ~(d <= e)
  BY <1>1, <1>5
<1>7. e \notin S
  BY <1>4, <1>6
<1>8. SxCompare(t[e], t[d]) <= 0
  BY <1>6
<1>9. CASE e = i
  BY <1>6, <1>8, <1>9
<1>10. CASE e # i
  <2>1. SxCompare(t[i], t[e]) <= 0
    BY <1>6, <1>7, <1>10
  <2>2. t[i] \in Items /\ t[e] \in Items /\ t[d] \in Items
    BY <1>1, <1>6
  <2>3. SxCompare(t[i], t[d]) <= 0
    BY <1>8, <2>1, <2>2, SxOrders
  <2>4. QED BY <1>6, <2>3
<1>11. QED BY <1>9, <1>10

LEMMA SortingsAre ==
  ASSUME NEW l, ArrayOK(l), NEW m \in Sortings(l)
  PROVE  ArrayOK(m) /\ m.len = l.len /\ SortedFrom(SxShown(l), SxShown(m))
<1>1. l.len \in Nat
  BY ArrayFacts
<1>2. PICK p \in Bijection(1 .. l.len, 1 .. l.len) :
        /\ m = Rearranged(l, p)
        /\ \A k \in 1 .. l.len - 1 : SxCompare(m.items[k], m.items[k + 1]) <= 0
  BY DEF Sortings
<1>3. p \in [1 .. l.len -> 1 .. l.len]
  BY BijectionFacts
<1>4. /\ ArrayOK(m) /\ m.len = l.len
      /\ SxShown(m) = Permuted(SxShown(l), p)
  BY <1>2, <1>3, RearrangedIs
<1>5. Len(SxShown(l)) = l.len
  BY ShownIs
<1>6. /\ SxShown(m) \in Seq(Items) /\ Len(SxShown(m)) = l.len
      /\ \A i \in 1 .. l.len : SxShown(m)[i] = m.items[i]
  BY <1>4, ShownIs
<1>7. ASSUME NEW k \in 1 .. l.len - 1
      PROVE  SxCompare(SxShown(m)[k], SxShown(m)[k + 1]) <= 0
  <2>1. k \in 1 .. l.len /\ k + 1 \in 1 .. l.len
    BY <1>1
  <2>2. SxShown(m)[k] = m.items[k] /\ SxShown(m)[k + 1] = m.items[k + 1]
    BY <1>6, <2>1
  <2>3. QED BY <1>2, <2>2
<1>8. Sorted(SxShown(m))
  BY <1>6, <1>7, NeighboursSort
<1>9. QED BY <1>4, <1>5, <1>8 DEF SortedFrom

\* Items that compare equal are equal: a list can be sorted in one way only.
LEMMA SortedNoLess ==
  ASSUME NEW n \in Nat, NEW t \in Seq(Items), NEW u \in Seq(Items),
         Len(t) = n, Len(u) = n, Sorted(t), Sorted(u),
         NEW r \in Bijection(1 .. n, 1 .. n), \A j \in 1 .. n : t[j] = u[r[j]],
         NEW i \in 1 .. n
  PROVE  ~(SxCompare(t[i], u[i]) < 0)
<1>1. SUFFICES ASSUME SxCompare(t[i], u[i]) < 0 PROVE FALSE
  OBVIOUS
<1>2. r \in [1 .. n -> 1 .. n] /\ \A j, k \in 1 .. n : r[j] = r[k] => j = k
  BY DEF Bijection, Injection, IsInjective
<1>3. \A j \in 1 .. n : t[j] \in Items /\ u[j] \in Items
  BY LenProperties
<1>4. ASSUME NEW j \in 1 .. i PROVE r[j] \in 1 .. i - 1
  <2>1. j \in 1 .. n /\ r[j] \in 1 .. n
    BY <1>2
  <2>2. SxCompare(t[j], t[i]) <= 0 \/ j = i
    BY <2>1 DEF Sorted
  <2>3. CASE r[j] < i
    BY <2>1, <2>3
  <2>4. CASE ~(r[j] < i)
    <3>1. r[j] = i \/ SxCompare(u[i], u[r[j]]) <= 0
      BY <2>1, <2>4 DEF Sorted
    <3>2. /\ t[i] \in Items /\ u[i] \in Items /\ t[j] \in Items /\ u[r[j]] \in Items
          /\ t[j] = u[r[j]]
      BY <1>3, <2>1
    <3>3. SxCompare(u[i], t[j]) <= 0
      <4>1. CASE r[j] = i
        <5>1. SxCompare(u[i], u[i]) = 0 - SxCompare(u[i], u[i]) /\ SxCompare(u[i], u[i]) \in Int
          BY <3>2, SxCompares
        <5>2. SxCompare(u[i], u[i]) <= 0
          BY <5>1
        <5>3. QED BY <3>2, <4>1, <5>2
      <4>2. CASE r[j] # i
        BY <3>1, <3>2, <4>2
      <4>3. QED BY <4>1, <4>2
    <3>4. SxCompare(u[i], t[i]) <= 0
      <4>1. CASE j = i
        BY <3>3, <4>1
      <4>2. CASE j # i
        BY <2>2, <3>2, <3>3, <4>2, SxOrders
      <4>3. QED BY <4>1, <4>2
    <3>5. SxCompare(u[i], t[i]) = 0 - SxCompare(t[i], u[i]) /\ SxCompare(t[i], u[i]) \in Int
      BY <3>2, SxCompares
    <3>6. QED BY <1>1, <3>4, <3>5
  <2>5. QED BY <2>3, <2>4
<1> DEFINE g == [j \in 1 .. i |-> r[j]]
<1>5. g \in Injection(1 .. i, 1 .. i - 1)
  <2>1. g \in [1 .. i -> 1 .. i - 1]
    BY <1>4
  <2>2. ASSUME NEW j \in 1 .. i, NEW k \in 1 .. i, g[j] = g[k] PROVE j = k
    <3>1. j \in 1 .. n /\ k \in 1 .. n /\ r[j] = r[k]
      BY <2>2
    <3>2. QED BY <1>2, <3>1
  <2>3. DOMAIN g = 1 .. i
    OBVIOUS
  <2> HIDE DEF g
  <2>4. IsInjective(g)
    BY <2>2, <2>3 DEF IsInjective
  <2>5. QED BY <2>1, <2>4 DEF Injection
<1>6. /\ Cardinality(1 .. i) = i /\ Cardinality(1 .. i - 1) = i - 1
      /\ IsFiniteSet(1 .. i - 1)
  BY FS_Interval
<1>7. Cardinality(1 .. i) <= Cardinality(1 .. i - 1)
  BY <1>5, <1>6, FS_Injection
<1>8. QED BY <1>6, <1>7

LEMMA Matching ==
  ASSUME NEW n \in Nat, NEW p \in Bijection(1 .. n, 1 .. n), NEW q \in Bijection(1 .. n, 1 .. n)
  PROVE  \E r \in Bijection(1 .. n, 1 .. n) : \A j \in 1 .. n : q[r[j]] = p[j]
<1> DEFINE r == [j \in 1 .. n |-> CHOOSE k \in 1 .. n : q[k] = p[j]]
<1>1. p \in [1 .. n -> 1 .. n] /\ \A i, j \in 1 .. n : p[i] = p[j] => i = j
  BY DEF Bijection, Injection, IsInjective
<1>2. \A j \in 1 .. n : \E k \in 1 .. n : q[k] = p[j]
  BY <1>1 DEF Bijection, Surjection
<1>3. \A j \in 1 .. n : r[j] \in 1 .. n /\ q[r[j]] = p[j]
  BY <1>2
<1>4. r \in [1 .. n -> 1 .. n]
  BY <1>2
<1> HIDE DEF r
<1>5. ASSUME NEW i \in 1 .. n, NEW j \in 1 .. n, r[i] = r[j] PROVE i = j
  <2>1. q[r[i]] = p[i] /\ q[r[j]] = p[j]
    BY <1>3
  <2>2. p[i] = p[j]
    BY <1>5, <2>1
  <2>3. QED BY <1>1, <2>2
<1>6. r \in Bijection(1 .. n, 1 .. n)
  BY <1>4, <1>5, InjectionCovers
<1>7. QED BY <1>3, <1>6

LEMMA SortedOnce ==
  ASSUME NoTies, NEW s \in Seq(Items), NEW t, NEW u, SortedFrom(s, t), SortedFrom(s, u)
  PROVE  t = u
<1>1. PICK n : n = Len(s)
  OBVIOUS
<1>2. n \in Nat
  BY <1>1, LenProperties
<1>3. PICK p \in Bijection(1 .. n, 1 .. n) : t = Permuted(s, p) /\ Sorted(t)
  BY <1>1 DEF SortedFrom
<1>4. PICK q \in Bijection(1 .. n, 1 .. n) : u = Permuted(s, q) /\ Sorted(u)
  BY <1>1 DEF SortedFrom
<1>5. p \in [1 .. n -> 1 .. n] /\ q \in [1 .. n -> 1 .. n]
  BY DEF Bijection, Injection
<1>6. t \in Seq(Items) /\ Len(t) = n /\ \A j \in 1 .. n : t[j] = s[p[j]]
  BY <1>1, <1>3, <1>5, PermutedIs
<1>7. u \in Seq(Items) /\ Len(u) = n /\ \A j \in 1 .. n : u[j] = s[q[j]]
  BY <1>1, <1>4, <1>5, PermutedIs
<1>8. PICK r \in Bijection(1 .. n, 1 .. n) : \A j \in 1 .. n : q[r[j]] = p[j]
  BY <1>2, Matching
<1>9. PICK z \in Bijection(1 .. n, 1 .. n) : \A j \in 1 .. n : p[z[j]] = q[j]
  BY <1>2, Matching
<1>10. r \in [1 .. n -> 1 .. n] /\ z \in [1 .. n -> 1 .. n]
  BY DEF Bijection, Injection
<1>11. ASSUME NEW j \in 1 .. n PROVE t[j] = u[r[j]] /\ u[j] = t[z[j]]
  <2>1. PICK k \in 1 .. n : k = r[j]
    BY <1>10
  <2>2. PICK m \in 1 .. n : m = z[j]
    BY <1>10
  <2>3. q[k] = p[j] /\ p[m] = q[j]
    BY <1>8, <1>9, <2>1, <2>2
  <2>4. t[j] = s[p[j]] /\ u[k] = s[q[k]] /\ u[j] = s[q[j]] /\ t[m] = s[p[m]]
    BY <1>6, <1>7
  <2>5. QED BY <2>1, <2>2, <2>3, <2>4
<1>12. ASSUME NEW i \in 1 .. n PROVE t[i] = u[i]
  <2> DEFINE From(a, b, m) == \A j \in 1 .. n : a[j] = b[m[j]]
  <2>0. /\ t \in Seq(Items) /\ Len(t) = n /\ Sorted(t) /\ From(t, u, r)
        /\ u \in Seq(Items) /\ Len(u) = n /\ Sorted(u) /\ From(u, t, z)
    BY <1>3, <1>4, <1>6, <1>7, <1>11
  <2>1. ~(SxCompare(t[i], u[i]) < 0)
    BY <1>2, <2>0, SortedNoLess
  <2>2. ~(SxCompare(u[i], t[i]) < 0)
    BY <1>2, <2>0, SortedNoLess
  <2>3. t[i] \in Items /\ u[i] \in Items
    BY <1>6, <1>7, LenProperties
  <2>4. SxCompare(t[i], u[i]) \in Int /\ SxCompare(u[i], t[i]) = 0 - SxCompare(t[i], u[i])
    BY <2>3, SxCompares
  <2>5. SxCompare(t[i], u[i]) = 0
    BY <2>1, <2>2, <2>4
  <2>6. QED BY <2>3, <2>5 DEF NoTies
<1>13. QED BY <1>6, <1>7, <1>12, SeqEqual

\* The place that the insertion sort gives an item: no two have the same, and
\* the one of an item that comes before another is lower.
LEMMA RankIs ==
  ASSUME NEW l, ArrayOK(l)
  PROVE  /\ \A k \in 1 .. l.len : Rank(l, k) \in 1 .. l.len
         /\ \A j, k \in 1 .. l.len :
              /\ Rank(l, j) < Rank(l, k) => GoCompare(l.items[j], l.items[k]) <= 0
              /\ Rank(l, j) = Rank(l, k) => j = k
<1> DEFINE Below(j, k) == \/ GoCompare(l.items[j], l.items[k]) < 0
                          \/ GoCompare(l.items[j], l.items[k]) = 0 /\ j <= k
           B(k) == {j \in 1 .. l.len : Below(j, k)}
<1>1. l.len \in Nat /\ \A i \in 1 .. l.len : l.items[i] \in Items
  BY ArrayFacts
<1>2. ASSUME NEW j \in 1 .. l.len, NEW k \in 1 .. l.len
      PROVE  /\ GoCompare(l.items[j], l.items[k]) \in Int
             /\ GoCompare(l.items[k], l.items[j]) = 0 - GoCompare(l.items[j], l.items[k])
  BY <1>1, GoCompares
<1>3. IsFiniteSet(1 .. l.len) /\ Cardinality(1 .. l.len) = l.len
  <2>1. PICK n \in Nat : n = l.len
    BY <1>1
  <2>2. IsFiniteSet(1 .. n) /\ Cardinality(1 .. n) = n
    BY FS_Interval
  <2>3. QED BY <2>1, <2>2
<1>4. ASSUME NEW k \in 1 .. l.len
      PROVE  /\ Rank(l, k) = Cardinality(B(k)) /\ IsFiniteSet(B(k))
             /\ Cardinality(B(k)) \in 1 .. l.len /\ k \in B(k)
  <2>1. Rank(l, k) = Cardinality(B(k))
    BY DEF Rank
  <2>2. B(k) \subseteq 1 .. l.len
    OBVIOUS
  <2>3. GoCompare(l.items[k], l.items[k]) = 0
    BY <1>2
  <2>4. k \in B(k)
    BY <1>1, <2>3
  <2> HIDE DEF B
  <2>5. IsFiniteSet(B(k)) /\ Cardinality(B(k)) <= l.len
    <3>1. PICK S : S = 1 .. l.len
      OBVIOUS
    <3>2. IsFiniteSet(S) /\ B(k) \in SUBSET S
      BY <1>3, <2>2, <3>1
    <3>3. IsFiniteSet(B(k)) /\ Cardinality(B(k)) <= Cardinality(S)
      BY <3>2, FS_Subset
    <3>4. QED BY <1>3, <3>1, <3>3
  <2>6. Cardinality(B(k)) \in Nat /\ Cardinality(B(k)) # 0
    BY <2>4, <2>5, FS_CardinalityType, FS_EmptySet
  <2>7. Cardinality(B(k)) \in 1 .. l.len
    BY <1>1, <2>5, <2>6
  <2>8. QED BY <2>1, <2>4, <2>5, <2>7
<1>5. ASSUME NEW j \in 1 .. l.len, NEW k \in 1 .. l.len, j # k, Below(j, k)
      PROVE  Rank(l, j) < Rank(l, k)
  <2>1. B(j) \subseteq B(k)
    <3>1. SUFFICES ASSUME NEW i \in 1 .. l.len, Below(i, j) PROVE Below(i, k)
      OBVIOUS
    <3>2. /\ GoCompare(l.items[i], l.items[j]) <= 0 /\ GoCompare(l.items[j], l.items[k]) <= 0
          /\ GoCompare(l.items[i], l.items[k]) \in Int
      <4>1. /\ GoCompare(l.items[i], l.items[j]) \in Int
            /\ GoCompare(l.items[j], l.items[k]) \in Int
            /\ GoCompare(l.items[i], l.items[k]) \in Int
        BY <1>2
      <4>2. QED BY <1>5, <3>1, <4>1
    <3>3. /\ GoCompare(l.items[i], l.items[k]) <= 0
          /\ GoCompare(l.items[i], l.items[k]) = 0 =>
               GoCompare(l.items[i], l.items[j]) = 0 /\ GoCompare(l.items[j], l.items[k]) = 0
      BY <1>1, <3>2, GoOrders
    <3>4. CASE GoCompare(l.items[i], l.items[k]) = 0
      <4>1. i <= j /\ j <= k
        BY <1>5, <3>1, <3>3, <3>4
      <4>2. QED BY <1>1, <3>4, <4>1
    <3>5. CASE GoCompare(l.items[i], l.items[k]) # 0
      BY <3>2, <3>3, <3>5
    <3>6. QED BY <3>4, <3>5
  <2>2. k \notin B(j)
    <3>1. /\ GoCompare(l.items[j], l.items[k]) \in Int
          /\ GoCompare(l.items[k], l.items[j]) = 0 - GoCompare(l.items[j], l.items[k])
      BY <1>2
    <3>2. ~Below(k, j)
      BY <1>1, <1>5, <3>1
    <3>3. QED BY <3>2
  <2>3. k \in B(k)
    BY <1>4
  <2>4. IsFiniteSet(B(k)) /\ IsFiniteSet(B(j))
    BY <1>4
  <2>5. Rank(l, j) = Cardinality(B(j)) /\ Rank(l, k) = Cardinality(B(k))
    BY <1>4
  <2>6. Cardinality(B(j)) \in Nat /\ Cardinality(B(k)) \in Nat
    BY <2>4, FS_CardinalityType
  <2> HIDE DEF B
  <2>7. /\ IsFiniteSet(B(k) \ {k}) /\ Cardinality(B(k) \ {k}) = Cardinality(B(k)) - 1
    BY <2>3, <2>4, FS_RemoveElement
  <2>8. B(j) \subseteq B(k) \ {k}
    BY <2>1, <2>2
  <2>9. Cardinality(B(j)) <= Cardinality(B(k) \ {k})
    BY <2>7, <2>8, FS_Subset
  <2>10. QED BY <2>5, <2>6, <2>7, <2>9
<1>6. ASSUME NEW j \in 1 .. l.len, NEW k \in 1 .. l.len, j # k
      PROVE  Below(j, k) \/ Below(k, j)
  BY <1>1, <1>2, <1>6
<1>7. \A k \in 1 .. l.len : Rank(l, k) \in 1 .. l.len
  BY <1>4
<1> HIDE DEF B
<1>8. ASSUME NEW j \in 1 .. l.len, NEW k \in 1 .. l.len
      PROVE  /\ Rank(l, j) < Rank(l, k) => GoCompare(l.items[j], l.items[k]) <= 0
             /\ Rank(l, j) = Rank(l, k) => j = k
  <2>1. Rank(l, j) \in Nat /\ Rank(l, k) \in Nat
    BY <1>1, <1>7
  <2>2. CASE j = k
    BY <2>1, <2>2
  <2>3. CASE j # k /\ Below(j, k)
    <3>1. Rank(l, j) < Rank(l, k)
      BY <1>5, <2>3
    <3>2. GoCompare(l.items[j], l.items[k]) <= 0
      BY <1>2, <2>3
    <3>3. QED BY <2>1, <3>1, <3>2
  <2>4. CASE j # k /\ Below(k, j)
    <3>1. Rank(l, k) < Rank(l, j)
      BY <1>5, <2>4
    <3>2. QED BY <2>1, <3>1
  <2>5. QED BY <1>6, <2>2, <2>3, <2>4
<1>9. QED BY <1>7, <1>8

LEMMA GoSortedIs ==
  ASSUME NEW l, ArrayOK(l)
  PROVE  \E q \in Bijection(1 .. l.len, 1 .. l.len) :
           /\ GoSorted(l) = Rearranged(l, q)
           /\ \A i, j \in 1 .. l.len :
                i < j => GoCompare(l.items[q[i]], l.items[q[j]]) <= 0
<1> DEFINE r == [k \in 1 .. l.len |-> Rank(l, k)]
           q == [i \in 1 .. l.len |-> CHOOSE k \in 1 .. l.len : Rank(l, k) = i]
<1>1. PICK n \in Nat : n = l.len
  BY ArrayFacts
<1>2. /\ r \in [1 .. n -> 1 .. n]
      /\ \A j, k \in 1 .. n : r[j] = r[k] => j = k
      /\ \A k \in 1 .. n : r[k] = Rank(l, k)
  BY <1>1, RankIs
<1> HIDE DEF r
<1>3. r \in Bijection(1 .. n, 1 .. n)
  BY <1>2, InjectionCovers
<1>4. \A i \in 1 .. n : \E k \in 1 .. n : Rank(l, k) = i
  BY <1>2, <1>3 DEF Bijection, Surjection
<1>5. \A i \in 1 .. n : q[i] \in 1 .. n /\ Rank(l, q[i]) = i
  BY <1>1, <1>4
<1>6. q \in [1 .. n -> 1 .. n]
  BY <1>1, <1>4
<1>7. GoSorted(l) = Rearranged(l, q)
  <2>1. \A i \in 1 .. n : q[i] = CHOOSE k \in 1 .. l.len : Rank(l, k) = i
    BY <1>1
  <2> HIDE DEF q
  <2>2. ASSUME NEW i \in DOMAIN l.items
        PROVE  (IF i <= l.len
                THEN l.items[CHOOSE k \in 1 .. l.len : Rank(l, k) = i] ELSE l.items[i])
               = (IF i <= l.len THEN l.items[q[i]] ELSE l.items[i])
    <3>1. i \in Nat /\ i >= 1
      BY ArrayFacts
    <3>2. i <= l.len => i \in 1 .. n
      BY <1>1, <3>1
    <3>3. PICK c : c = CHOOSE k \in 1 .. l.len : Rank(l, k) = i
      OBVIOUS
    <3>4. i <= l.len => q[i] = c
      BY <2>1, <3>2, <3>3
    <3>5. (IF i <= l.len THEN l.items[c] ELSE l.items[i])
          = (IF i <= l.len THEN l.items[q[i]] ELSE l.items[i])
      BY <3>4
    <3>6. QED BY <3>3, <3>5
  <2>3. QED BY <2>2 DEF GoSorted, Rearranged
<1> HIDE DEF q
<1>8. \A i, j \in 1 .. n : q[i] = q[j] => i = j
  BY <1>5
<1>9. q \in Bijection(1 .. n, 1 .. n)
  BY <1>6, <1>8, InjectionCovers
<1>10. ASSUME NEW i \in 1 .. n, NEW j \in 1 .. n, i < j
       PROVE  GoCompare(l.items[q[i]], l.items[q[j]]) <= 0
  <2>1. PICK a \in 1 .. n : a = q[i]
    BY <1>6
  <2>2. PICK b \in 1 .. n : b = q[j]
    BY <1>6
  <2>3. Rank(l, a) < Rank(l, b)
    BY <1>5, <1>10, <2>1, <2>2
  <2>4. QED BY <1>1, <2>1, <2>2, <2>3, RankIs
<1>11. QED BY <1>1, <1>7, <1>9, <1>10

LEMMA GoSortedFrom ==
  ASSUME NEW l, ArrayOK(l)
  PROVE  /\ ArrayOK(GoSorted(l)) /\ GoSorted(l).len = l.len
         /\ KeepsWritten(l.items, GoSorted(l).items)
         /\ OrdersAgree => SortedFrom(SxShown(l), SxShown(GoSorted(l)))
<1>1. PICK n \in Nat : n = l.len
  BY ArrayFacts
<1>2. PICK q \in Bijection(1 .. n, 1 .. n) :
        /\ GoSorted(l) = Rearranged(l, q)
        /\ \A i, j \in 1 .. n : i < j => GoCompare(l.items[q[i]], l.items[q[j]]) <= 0
  BY <1>1, GoSortedIs
<1>3. PICK m : m = GoSorted(l)
  OBVIOUS
<1>4. q \in [1 .. n -> 1 .. n]
  BY DEF Bijection, Injection
<1>5. /\ ArrayOK(m) /\ m.len = n /\ SxShown(m) = Permuted(SxShown(l), q)
      /\ KeepsWritten(l.items, m.items)
      /\ \A i \in 1 .. n : m.items[i] = l.items[q[i]]
  BY <1>1, <1>2, <1>3, <1>4, RearrangedIs
<1>6. ASSUME OrdersAgree PROVE SortedFrom(SxShown(l), SxShown(m))
  <2>1. Len(SxShown(l)) = n
    BY <1>1, ShownIs
  <2>2. Len(SxShown(m)) = n /\ \A i \in 1 .. n : SxShown(m)[i] = m.items[i]
    BY <1>5, ShownIs
  <2>3. \A i \in 1 .. n : l.items[i] \in Items
    BY <1>1, ArrayFacts
  <2>4. ASSUME NEW i \in 1 .. n, NEW j \in 1 .. n, i < j
        PROVE  SxCompare(SxShown(m)[i], SxShown(m)[j]) <= 0
    <3>1. SxShown(m)[i] = l.items[q[i]] /\ SxShown(m)[j] = l.items[q[j]]
      BY <1>5, <2>2
    <3>2. q[i] \in 1 .. n /\ q[j] \in 1 .. n
      BY <1>4
    <3>3. l.items[q[i]] \in Items /\ l.items[q[j]] \in Items
      BY <2>3, <3>2
    <3>4. GoCompare(l.items[q[i]], l.items[q[j]]) <= 0
      BY <1>2, <2>4
    <3>5. QED BY <1>6, <3>1, <3>3, <3>4 DEF OrdersAgree
  <2>5. Sorted(SxShown(m))
    BY <2>2, <2>4 DEF Sorted
  <2>6. QED BY <1>5, <2>1, <2>5 DEF SortedFrom
<1>7. QED BY <1>1, <1>3, <1>5, <1>6

-----------------------------------------------------------------------------
(* The operations as relations: what op makes of the list s that a program *)
(* sees is t, and its answer a.                                            *)

At(i, n) == IF i < 0 THEN i + n ELSE i
Within(i, n) == IF At(i, n) < 0 THEN 0 ELSE IF At(i, n) > n THEN n ELSE At(i, n)

IndexIn(s, x) ==
  LET found == {k \in 1 .. Len(s) : SxEqual(s[k], x)}
  IN  IF found = {} THEN -1 ELSE Min(found) - 1

Fails(s, t, a) == t = s /\ a = Failed
AnswersList(t, a) == a = Answer("list", t, 0)
AnswersItem(x, a) == a = Answer("item", <<x>>, 0)

DoPush(x, s, t, a) ==
  IF Len(s) = MaxLen THEN Fails(s, t, a) ELSE t = Append(s, x) /\ AnswersList(t, a)

DoInsert(i, x, s, t, a) ==
  IF Len(s) = MaxLen THEN Fails(s, t, a)
  ELSE t = With(s, Within(i, Len(s)) + 1, x) /\ AnswersList(t, a)

DoGet(i, s, t, a) ==
  IF At(i, Len(s)) \in 0 .. Len(s) - 1
  THEN t = s /\ AnswersItem(s[At(i, Len(s)) + 1], a) ELSE Fails(s, t, a)

DoSet(i, x, s, t, a) ==
  IF At(i, Len(s)) \in 0 .. Len(s) - 1
  THEN t = [s EXCEPT ![At(i, Len(s)) + 1] = x] /\ AnswersItem(x, a) ELSE Fails(s, t, a)

DoPop(i, s, t, a) ==
  IF At(i, Len(s)) \in 0 .. Len(s) - 1
  THEN t = Without(s, At(i, Len(s)) + 1) /\ AnswersItem(s[At(i, Len(s)) + 1], a)
  ELSE Fails(s, t, a)

DoReverse(s, t, a) == t = Backwards(s) /\ AnswersList(t, a)
DoSort(s, t, a) == SortedFrom(s, t) /\ AnswersList(t, a)
DoSlice(i, j, s, t, a) ==
  t = s /\ AnswersList(SubSeq(s, Within(i, Len(s)) + 1, Within(j, Len(s))), a)
DoReversed(s, t, a) == t = s /\ AnswersList(Backwards(s), a)
DoConcat(s, t, a) == t = s /\ AnswersList(s \o s, a)
DoIndexOf(x, s, t, a) == t = s /\ a = Answer("num", << >>, IndexIn(s, x))

Does(op, s, t, a) ==
  \/ op.do = "push" /\ DoPush(op.item, s, t, a)
  \/ op.do = "get" /\ DoGet(op.at, s, t, a)
  \/ op.do = "set" /\ DoSet(op.at, op.item, s, t, a)
  \/ op.do = "pop" /\ DoPop(op.at, s, t, a)
  \/ op.do = "insert" /\ DoInsert(op.at, op.item, s, t, a)
  \/ op.do = "reverse" /\ DoReverse(s, t, a)
  \/ op.do = "sort" /\ DoSort(s, t, a)
  \/ op.do = "slice" /\ DoSlice(op.at, op.to, s, t, a)
  \/ op.do = "reversed" /\ DoReversed(s, t, a)
  \/ op.do = "concat" /\ DoConcat(s, t, a)
  \/ op.do = "index_of" /\ DoIndexOf(op.item, s, t, a)

\* The conversions of an index.
LEMMA ClampedIs ==
  ASSUME NEW i \in Int, NEW n \in Nat
  PROVE  /\ Clamped(i, n) = Within(i, n) /\ Within(i, n) \in 0 .. n
         /\ ClampedTo(ClampedFrom(i, n), n) = Within(i, n)
         /\ ClampedFrom(i, n) \in Nat /\ ClampedTo(i, n) \in Int
         /\ Min({n, ClampedFrom(i, n)}) = Within(i, n)
         /\ i >= 0 => ClampedTo(i, n) = Within(i, n)
<1>1. ASSUME NEW a \in Int, NEW b \in Int
      PROVE  /\ Min({a, b}) = IF a <= b THEN a ELSE b
             /\ Max({a, b}) = IF a <= b THEN b ELSE a
  BY DEF Min, Max
<1>2. At(i, n) \in Int
  BY DEF At
<1>3. Clamped(i, n) = Within(i, n)
  <2>1. Clamped(i, n) = Max({0, Min({n, At(i, n)})})
    BY DEF Clamped, At
  <2>2. Min({n, At(i, n)}) = IF n <= At(i, n) THEN n ELSE At(i, n)
    BY <1>1, <1>2
  <2>3. Min({n, At(i, n)}) \in Int
    BY <1>2, <2>2
  <2>4. Max({0, Min({n, At(i, n)})}) = IF 0 <= Min({n, At(i, n)}) THEN Min({n, At(i, n)}) ELSE 0
    BY <1>1, <2>3
  <2>5. QED BY <1>2, <2>1, <2>2, <2>4 DEF Within
<1>4. Within(i, n) \in 0 .. n
  BY <1>2 DEF Within
<1>5. ClampedFrom(i, n) = IF 0 <= At(i, n) THEN At(i, n) ELSE 0
  <2>1. ClampedFrom(i, n) = Max({0, At(i, n)})
    BY DEF ClampedFrom, At
  <2>2. PICK c \in Int : c = At(i, n)
    BY <1>2
  <2>3. Max({0, c}) = IF 0 <= c THEN c ELSE 0
    BY <1>1
  <2>4. QED BY <2>1, <2>2, <2>3
<1>6. ClampedFrom(i, n) \in Nat
  BY <1>2, <1>5
<1>7. ClampedTo(i, n) = IF n <= At(i, n) THEN n ELSE At(i, n)
  <2>1. ClampedTo(i, n) = Min({n, At(i, n)})
    BY DEF ClampedTo, At
  <2>2. QED BY <1>1, <1>2, <2>1
<1>8. Min({n, ClampedFrom(i, n)}) = Within(i, n)
  <2>1. Min({n, ClampedFrom(i, n)}) = IF n <= ClampedFrom(i, n) THEN n ELSE ClampedFrom(i, n)
    BY <1>1, <1>6
  <2>2. QED BY <1>2, <1>5, <2>1 DEF Within
<1>9. ClampedTo(ClampedFrom(i, n), n) = Within(i, n)
  <2>1. ClampedTo(ClampedFrom(i, n), n) = Min({n, ClampedFrom(i, n)})
    BY <1>6 DEF ClampedTo
  <2>2. QED BY <1>8, <2>1
<1>10. QED BY <1>2, <1>3, <1>4, <1>6, <1>7, <1>8, <1>9 DEF Within, At

LEMMA SliceIs ==
  ASSUME NEW l, ArrayOK(l), NEW a \in Nat, NEW b \in Int, b <= l.len
  PROVE  /\ SubSeq(l.items, a + 1, b) = SubSeq(SxShown(l), a + 1, b)
         /\ SubSeq(SxShown(l), a + 1, b) \in Seq(Items)
<1>1. /\ l.len \in Nat /\ \A i \in 1 .. l.len : l.items[i] \in Items
  BY ArrayFacts
<1>2. \A i \in 1 .. l.len : SxShown(l)[i] = l.items[i]
  BY ShownIs
<1>3. ASSUME NEW i \in a + 1 .. b
      PROVE  SxShown(l)[i] = l.items[i] /\ l.items[i] \in Items
  <2>1. i \in 1 .. l.len
    BY <1>1
  <2>2. QED BY <1>1, <1>2, <2>1
<1>4. PICK m \in Int : m = a + 1
  OBVIOUS
<1>5. PICK n \in Nat : n = IF m <= b THEN b - m + 1 ELSE 0
  <2>1. CASE m <= b
    BY <2>1
  <2>2. CASE ~(m <= b)
    BY <2>2
  <2>3. QED BY <2>1, <2>2
<1>6. ASSUME NEW s, \A i \in m .. b : s[i] \in Items
      PROVE  /\ SubSeq(s, m, b) \in Seq(Items) /\ Len(SubSeq(s, m, b)) = n
             /\ \A i \in 1 .. n : SubSeq(s, m, b)[i] = s[m + i - 1]
  <2>1. /\ SubSeq(s, m, b) \in Seq(Items)
        /\ Len(SubSeq(s, m, b)) = IF m <= b THEN b - m + 1 ELSE 0
        /\ \A i \in 1 .. b - m + 1 : SubSeq(s, m, b)[i] = s[m + i - 1]
    BY <1>6, SubSeqProperties
  <2>2. \A i \in 1 .. n : i \in 1 .. b - m + 1
    BY <1>5
  <2>3. QED BY <1>5, <2>1, <2>2
<1>7. \A i \in m .. b : SxShown(l)[i] \in Items /\ l.items[i] \in Items
  BY <1>3, <1>4
<1>8. /\ SubSeq(l.items, m, b) \in Seq(Items) /\ Len(SubSeq(l.items, m, b)) = n
      /\ \A i \in 1 .. n : SubSeq(l.items, m, b)[i] = l.items[m + i - 1]
  BY <1>6, <1>7
<1>9. /\ SubSeq(SxShown(l), m, b) \in Seq(Items) /\ Len(SubSeq(SxShown(l), m, b)) = n
      /\ \A i \in 1 .. n : SubSeq(SxShown(l), m, b)[i] = SxShown(l)[m + i - 1]
  BY <1>6, <1>7
<1>10. ASSUME NEW i \in 1 .. n
       PROVE  SubSeq(l.items, m, b)[i] = SubSeq(SxShown(l), m, b)[i]
  <2>1. PICK k \in a + 1 .. b : k = m + i - 1
    BY <1>4, <1>5
  <2>2. QED BY <1>3, <1>8, <1>9, <2>1
<1>11. SubSeq(l.items, m, b) = SubSeq(SxShown(l), m, b)
  BY <1>8, <1>9, <1>10, SeqEqual
<1>12. QED BY <1>4, <1>9, <1>11

LEMMA FirstIs ==
  ASSUME NEW l, ArrayOK(l), NEW x \in Items
  PROVE  /\ FirstOf(l, x) = IndexIn(SxShown(l), x)
         /\ x.type \in {"null", "num", "str", "bool"} =>
              GoFirstOf(l, x) = IndexIn(SxShown(l), x)
<1>1. /\ Len(SxShown(l)) = l.len /\ \A i \in 1 .. l.len : SxShown(l)[i] = l.items[i]
  BY ShownIs
<1>2. x.type \in {"null", "num", "str", "bool"} => \A a : GoEqual(a, x) <=> SxEqual(a, x)
  BY DEF GoEqual, SxEqual
<1>3. {k \in 1 .. l.len : SxEqual(l.items[k], x)}
        = {k \in 1 .. Len(SxShown(l)) : SxEqual(SxShown(l)[k], x)}
  BY <1>1
<1>4. x.type \in {"null", "num", "str", "bool"} =>
        {k \in 1 .. l.len : GoEqual(l.items[k], x)} = {k \in 1 .. l.len : SxEqual(l.items[k], x)}
  BY <1>2
<1>5. QED BY <1>3, <1>4 DEF FirstOf, GoFirstOf, IndexIn

-----------------------------------------------------------------------------
(* What each engine does with an operation.                                *)

OpFacts(op) ==
  /\ op.at \in Int /\ op.to \in Int /\ op.item \in Items
  /\ op.do \in {"push", "get", "set", "pop", "insert", "reverse", "sort", "slice",
                "reversed", "concat", "index_of"}

\* The element that an index in range names.
LEMMA InPlace ==
  ASSUME NEW l, ArrayOK(l), NEW i \in Int
  PROVE  /\ Place(l, i) = At(i, l.len) /\ GoPlace(l, i) = At(i, l.len)
         /\ InRange(l, i) <=> At(i, l.len) \in 0 .. l.len - 1
         /\ Len(SxShown(l)) = l.len /\ l.len \in Nat
         /\ At(i, l.len) \in 0 .. l.len - 1 =>
              /\ At(i, l.len) + 1 \in 1 .. l.len
              /\ SxShown(l)[At(i, l.len) + 1] = l.items[At(i, l.len) + 1]
              /\ l.items[At(i, l.len) + 1] \in Items
<1>1. /\ l.len \in Nat /\ \A j \in 1 .. l.len : l.items[j] \in Items
  BY ArrayFacts
<1>2. Len(SxShown(l)) = l.len /\ \A j \in 1 .. l.len : SxShown(l)[j] = l.items[j]
  BY ShownIs
<1>3. Place(l, i) = At(i, l.len) /\ GoPlace(l, i) = At(i, l.len)
  BY DEF Place, GoPlace, At
<1>4. ASSUME At(i, l.len) \in 0 .. l.len - 1
      PROVE  /\ At(i, l.len) + 1 \in 1 .. l.len
             /\ SxShown(l)[At(i, l.len) + 1] = l.items[At(i, l.len) + 1]
             /\ l.items[At(i, l.len) + 1] \in Items
  <2>1. PICK j \in 1 .. l.len : j = At(i, l.len) + 1
    BY <1>1, <1>4
  <2>2. QED BY <1>1, <1>2, <2>1
<1>5. QED BY <1>1, <1>2, <1>3, <1>4 DEF InRange

LEMMA SxPushes ==
  ASSUME ArrayOK(slist), NEW x \in Items, SxPush(x)
  PROVE  ArrayOK(slist') /\ DoPush(x, SxShown(slist), SxShown(slist'), sret')
<1>1. Len(SxShown(slist)) = slist.len
  BY ShownIs
<1>2. CASE slist.len = MaxLen
  BY <1>1, <1>2 DEF SxPush, SxFails, DoPush, Fails
<1>3. CASE slist.len # MaxLen
  <2>1. slist' = SxAppended(slist, x) /\ sret' = Answer("list", SxShown(slist'), 0)
    BY <1>3 DEF SxPush
  <2>2. ArrayOK(slist') /\ SxShown(slist') = Append(SxShown(slist), x)
    BY <2>1, SxAppendedIs
  <2>3. QED BY <1>1, <1>3, <2>1, <2>2 DEF DoPush, AnswersList
<1>4. QED BY <1>2, <1>3

LEMMA SxInserts ==
  ASSUME ArrayOK(slist), NEW i \in Int, NEW x \in Items, SxInsert(i, x)
  PROVE  ArrayOK(slist') /\ DoInsert(i, x, SxShown(slist), SxShown(slist'), sret')
<1>1. Len(SxShown(slist)) = slist.len /\ slist.len \in Nat
  BY ShownIs, ArrayFacts
<1>2. CASE slist.len = MaxLen
  BY <1>1, <1>2 DEF SxInsert, SxFails, DoInsert, Fails
<1>3. CASE slist.len # MaxLen
  <2>1. PICK p \in 0 .. slist.len : p = Within(i, slist.len) /\ p = Clamped(i, slist.len)
    BY <1>1, ClampedIs
  <2>2. slist' = Inserted(slist, p, x) /\ sret' = Answer("list", SxShown(slist'), 0)
    BY <1>3, <2>1 DEF SxInsert
  <2>3. ArrayOK(slist') /\ SxShown(slist') = With(SxShown(slist), p + 1, x)
    BY <2>2, InsertedIs
  <2>4. QED BY <1>1, <1>3, <2>1, <2>2, <2>3 DEF DoInsert, AnswersList
<1>4. QED BY <1>2, <1>3

LEMMA SxGets ==
  ASSUME ArrayOK(slist), NEW i \in Int, SxGet(i)
  PROVE  ArrayOK(slist') /\ DoGet(i, SxShown(slist), SxShown(slist'), sret')
<1>1. CASE At(i, slist.len) \in 0 .. slist.len - 1
  <2>1. slist' = slist /\ sret' = Answer("item", <<slist.items[At(i, slist.len) + 1]>>, 0)
    BY <1>1, InPlace DEF SxGet
  <2>2. QED BY <1>1, <2>1, InPlace DEF DoGet, AnswersItem
<1>2. CASE ~(At(i, slist.len) \in 0 .. slist.len - 1)
  <2>1. slist' = slist /\ sret' = Failed
    BY <1>2, InPlace DEF SxGet, SxFails
  <2>2. QED BY <1>2, <2>1, InPlace DEF DoGet, Fails
<1>3. QED BY <1>1, <1>2

LEMMA SxSets ==
  ASSUME ArrayOK(slist), NEW i \in Int, NEW x \in Items, SxSet(i, x)
  PROVE  ArrayOK(slist') /\ DoSet(i, x, SxShown(slist), SxShown(slist'), sret')
<1>1. CASE At(i, slist.len) \in 0 .. slist.len - 1
  <2>1. PICK k \in 1 .. slist.len : k = At(i, slist.len) + 1
    BY <1>1, InPlace
  <2>2. slist' = [slist EXCEPT !.items[k] = x] /\ sret' = Answer("item", <<x>>, 0)
    BY <1>1, <2>1, InPlace DEF SxSet
  <2>3. ArrayOK(slist') /\ SxShown(slist') = [SxShown(slist) EXCEPT ![k] = x]
    BY <2>2, SetIs
  <2>4. Len(SxShown(slist)) = slist.len
    BY InPlace
  <2>5. QED BY <1>1, <2>1, <2>2, <2>3, <2>4 DEF DoSet, AnswersItem
<1>2. CASE ~(At(i, slist.len) \in 0 .. slist.len - 1)
  <2>1. slist' = slist /\ sret' = Failed
    BY <1>2, InPlace DEF SxSet, SxFails
  <2>2. QED BY <1>2, <2>1, InPlace DEF DoSet, Fails
<1>3. QED BY <1>1, <1>2

LEMMA SxPops ==
  ASSUME ArrayOK(slist), NEW i \in Int, SxPop(i)
  PROVE  ArrayOK(slist') /\ DoPop(i, SxShown(slist), SxShown(slist'), sret')
<1>1. CASE At(i, slist.len) \in 0 .. slist.len - 1
  <2>1. PICK p \in 0 .. slist.len - 1 : p = At(i, slist.len)
    BY <1>1
  <2>2. /\ slist' = Removed(slist, p)
        /\ sret' = Answer("item", <<slist.items[p + 1]>>, 0)
    BY <1>1, <2>1, InPlace DEF SxPop
  <2>3. ArrayOK(slist') /\ SxShown(slist') = Without(SxShown(slist), p + 1)
    BY <2>2, RemovedIs
  <2>4. Len(SxShown(slist)) = slist.len /\ SxShown(slist)[p + 1] = slist.items[p + 1]
    BY <1>1, <2>1, InPlace
  <2>5. QED BY <1>1, <2>1, <2>2, <2>3, <2>4 DEF DoPop, AnswersItem
<1>2. CASE ~(At(i, slist.len) \in 0 .. slist.len - 1)
  <2>1. slist' = slist /\ sret' = Failed
    BY <1>2, InPlace DEF SxPop, SxFails
  <2>2. QED BY <1>2, <2>1, InPlace DEF DoPop, Fails
<1>3. QED BY <1>1, <1>2

\* Every operation of the C runtime keeps the array in order, and is what the
\* relation says.
LEMMA SxDoes ==
  ASSUME ArrayOK(slist), NEW op, OpFacts(op), SxDo(op)
  PROVE  ArrayOK(slist') /\ Does(op, SxShown(slist), SxShown(slist'), sret')
<1>1. op.at \in Int /\ op.to \in Int /\ op.item \in Items
  BY DEF OpFacts
<1>2. CASE op.do = "push" /\ SxPush(op.item)
  BY <1>1, <1>2, SxPushes DEF Does
<1>3. CASE op.do = "get" /\ SxGet(op.at)
  BY <1>1, <1>3, SxGets DEF Does
<1>4. CASE op.do = "set" /\ SxSet(op.at, op.item)
  BY <1>1, <1>4, SxSets DEF Does
<1>5. CASE op.do = "pop" /\ SxPop(op.at)
  BY <1>1, <1>5, SxPops DEF Does
<1>6. CASE op.do = "insert" /\ SxInsert(op.at, op.item)
  BY <1>1, <1>6, SxInserts DEF Does
<1>7. CASE op.do = "reverse" /\ SxReverse
  <2>1. slist' = Reversed(slist) /\ sret' = Answer("list", SxShown(slist'), 0)
    BY <1>7 DEF SxReverse
  <2>2. ArrayOK(slist') /\ SxShown(slist') = Backwards(SxShown(slist))
    BY <2>1, ReversedIs
  <2>3. QED BY <1>7, <2>1, <2>2 DEF Does, DoReverse, AnswersList
<1>8. CASE op.do = "sort" /\ SxSort
  <2>1. slist' \in Sortings(slist) /\ sret' = Answer("list", SxShown(slist'), 0)
    BY <1>8 DEF SxSort
  <2>2. ArrayOK(slist') /\ SortedFrom(SxShown(slist), SxShown(slist'))
    BY <2>1, SortingsAre
  <2>3. QED BY <1>8, <2>1, <2>2 DEF Does, DoSort, AnswersList
<1>9. CASE op.do = "slice" /\ SxSlice(op.at, op.to)
  <2>1. /\ slist.len \in Nat /\ Len(SxShown(slist)) = slist.len
    BY ArrayFacts, ShownIs
  <2>2. PICK a \in 0 .. slist.len : a = Clamped(op.at, slist.len) /\ a = Within(op.at, slist.len)
    BY <1>1, <2>1, ClampedIs
  <2>3. PICK b \in 0 .. slist.len : b = Clamped(op.to, slist.len) /\ b = Within(op.to, slist.len)
    BY <1>1, <2>1, ClampedIs
  <2>4. slist' = slist /\ sret' = Answer("list", SubSeq(slist.items, a + 1, b), 0)
    BY <1>9, <2>2, <2>3 DEF SxSlice
  <2>5. a \in Nat /\ b \in Int /\ b <= slist.len
    BY <2>1
  <2>6. SubSeq(slist.items, a + 1, b) = SubSeq(SxShown(slist), a + 1, b)
    BY <2>5, SliceIs
  <2>7. DoSlice(op.at, op.to, SxShown(slist), SxShown(slist'), sret')
    BY <2>1, <2>2, <2>3, <2>4, <2>6 DEF DoSlice, AnswersList
  <2>8. QED BY <1>9, <2>4, <2>7 DEF Does
<1>10. CASE op.do = "reversed" /\ SxReversedCopy
  BY <1>10, ReversedIs DEF SxReversedCopy, Does, DoReversed, AnswersList
<1>11. CASE op.do = "concat" /\ SxConcat
  BY <1>11 DEF SxConcat, Does, DoConcat, AnswersList
<1>12. CASE op.do = "index_of" /\ SxIndexOf(op.item)
  BY <1>1, <1>12, FirstIs DEF SxIndexOf, Does, DoIndexOf
<1>13. QED BY <1>2, <1>3, <1>4, <1>5, <1>6, <1>7, <1>8, <1>9, <1>10, <1>11, <1>12 DEF SxDo

\* A list of items becomes a list of items, and the answer holds items.
LEMMA DoesKeepsItems ==
  ASSUME NEW s \in Seq(Items), NEW t, NEW a, NEW op, OpFacts(op), Does(op, s, t, a)
  PROVE  t \in Seq(Items) /\ a.items \in Seq(Items)
<1>1. op.at \in Int /\ op.to \in Int /\ op.item \in Items
  BY DEF OpFacts
<1>2. Len(s) \in Nat /\ \A i \in 1 .. Len(s) : s[i] \in Items
  BY LenProperties
<1>3. ASSUME Fails(s, t, a) PROVE t \in Seq(Items) /\ a.items \in Seq(Items)
  BY <1>3 DEF Fails, Failed, Answer
<1>4. ASSUME NEW u \in Seq(Items), AnswersList(u, a) PROVE a.items \in Seq(Items)
  BY <1>4 DEF AnswersList, Answer
<1>5. ASSUME NEW x \in Items, AnswersItem(x, a) PROVE a.items \in Seq(Items)
  BY <1>5 DEF AnswersItem, Answer
<1>6. PICK p : p = At(op.at, Len(s)) + 1
  OBVIOUS
<1>7. At(op.at, Len(s)) \in 0 .. Len(s) - 1 => p \in 1 .. Len(s)
  BY <1>2, <1>6
<1>8. CASE op.do = "push" /\ DoPush(op.item, s, t, a)
  <2>1. Append(s, op.item) \in Seq(Items)
    BY <1>1, AppendProperties
  <2>2. QED BY <1>3, <1>4, <1>8, <2>1 DEF DoPush
<1>9. CASE op.do = "get" /\ DoGet(op.at, s, t, a)
  BY <1>2, <1>3, <1>5, <1>6, <1>7, <1>9 DEF DoGet
<1>10. CASE op.do = "set" /\ DoSet(op.at, op.item, s, t, a)
  <2>1. p \in 1 .. Len(s) => [s EXCEPT ![p] = op.item] \in Seq(Items)
    BY <1>1, ExceptSeq
  <2>2. QED BY <1>1, <1>3, <1>5, <1>6, <1>7, <1>10, <2>1 DEF DoSet
<1>11. CASE op.do = "pop" /\ DoPop(op.at, s, t, a)
  <2>1. p \in 1 .. Len(s) => Without(s, p) \in Seq(Items)
    BY WithoutIs
  <2>2. QED BY <1>2, <1>3, <1>5, <1>6, <1>7, <1>11, <2>1 DEF DoPop
<1>12. CASE op.do = "insert" /\ DoInsert(op.at, op.item, s, t, a)
  <2>1. PICK q : q = Within(op.at, Len(s)) + 1
    OBVIOUS
  <2>2. Within(op.at, Len(s)) \in 0 .. Len(s)
    BY <1>1, <1>2, ClampedIs
  <2>3. q \in 1 .. Len(s) + 1
    BY <1>2, <2>1, <2>2
  <2>4. With(s, q, op.item) \in Seq(Items)
    BY <1>1, <2>3, WithIs
  <2>5. QED BY <1>3, <1>4, <1>12, <2>1, <2>4 DEF DoInsert
<1>13. CASE op.do = "reverse" /\ DoReverse(s, t, a)
  BY <1>4, <1>13, BackwardsIs DEF DoReverse
<1>14. CASE op.do = "sort" /\ DoSort(s, t, a)
  <2>1. PICK q \in Bijection(1 .. Len(s), 1 .. Len(s)) : t = Permuted(s, q)
    BY <1>14 DEF DoSort, SortedFrom
  <2>2. q \in [1 .. Len(s) -> 1 .. Len(s)]
    BY DEF Bijection, Injection
  <2>3. t \in Seq(Items)
    BY <2>1, <2>2, PermutedIs
  <2>4. QED BY <1>4, <1>14, <2>3 DEF DoSort
<1>15. CASE op.do = "slice" /\ DoSlice(op.at, op.to, s, t, a)
  <2>1. PICK m : m = Within(op.at, Len(s)) + 1
    OBVIOUS
  <2>2. PICK n : n = Within(op.to, Len(s))
    OBVIOUS
  <2>3. Within(op.at, Len(s)) \in 0 .. Len(s) /\ n \in 0 .. Len(s)
    BY <1>1, <1>2, <2>2, ClampedIs
  <2>4. m \in Int /\ n \in Int /\ \A i \in m .. n : s[i] \in Items
    BY <1>2, <2>1, <2>3
  <2>5. SubSeq(s, m, n) \in Seq(Items)
    BY <2>4, SubSeqProperties
  <2>6. QED BY <1>4, <1>15, <2>1, <2>2, <2>5 DEF DoSlice
<1>16. CASE op.do = "reversed" /\ DoReversed(s, t, a)
  BY <1>4, <1>16, BackwardsIs DEF DoReversed
<1>17. CASE op.do = "concat" /\ DoConcat(s, t, a)
  BY <1>4, <1>17, ConcatProperties DEF DoConcat
<1>18. CASE op.do = "index_of" /\ DoIndexOf(op.item, s, t, a)
  BY <1>18 DEF DoIndexOf, Answer
<1>19. QED
  BY <1>8, <1>9, <1>10, <1>11, <1>12, <1>13, <1>14, <1>15, <1>16, <1>17, <1>18 DEF Does

\* What the interpreter does to its array: nothing that was written is lost,
\* and the array that the header of a loop shows stays where it is, or is left
\* to the loop when the list has to move.
GoKeeps ==
  /\ ArrayOK(glist') /\ KeepsWritten(glist.items, glist'.items)
  /\ gret'.items \in Seq(Items)

GoLeft == [shared |-> FALSE, items |-> glist.items]

LetsGo == gview' = gview \/ (gview.shared /\ gview' = GoLeft)

GoLeaves(op) == IF op.do \in Growing THEN LetsGo ELSE gview' = gview

LEMMA KeepsItself == ASSUME NEW items PROVE KeepsWritten(items, items)
BY DEF KeepsWritten

LEMMA GoPushes ==
  ASSUME ArrayOK(glist), NEW x \in Items, GoPush(x)
  PROVE  /\ ArrayOK(glist') /\ KeepsWritten(glist.items, glist'.items)
         /\ DoPush(x, SxShown(glist), SxShown(glist'), gret')
         /\ LetsGo
<1>1. Len(SxShown(glist)) = glist.len
  BY ShownIs
<1>2. CASE glist.len = MaxLen
  <2>1. glist' = glist /\ gview' = gview /\ gret' = Failed
    BY <1>2 DEF GoPush, GoFails
  <2>2. LetsGo
    BY <2>1 DEF LetsGo
  <2>3. QED BY <1>1, <1>2, <2>1, <2>2, KeepsItself DEF DoPush, Fails
<1>3. CASE glist.len # MaxLen
  <2>1. /\ glist' = GoAppended(glist, x) /\ gret' = Answer("list", GoShown(glist'), 0)
        /\ Reallocated
    BY <1>3 DEF GoPush
  <2>2. /\ ArrayOK(glist') /\ SxShown(glist') = Append(SxShown(glist), x)
        /\ KeepsWritten(glist.items, glist'.items)
    BY <2>1, GoAppendedIs
  <2>3. GoShown(glist') = SxShown(glist')
    BY <2>2, ShownIs
  <2>4. LetsGo
    BY <2>1 DEF Reallocated, LetsGo, GoLeft
  <2>5. QED BY <1>1, <1>3, <2>1, <2>2, <2>3, <2>4 DEF DoPush, AnswersList
<1>4. QED BY <1>2, <1>3

LEMMA GoInserts ==
  ASSUME ArrayOK(glist), NEW i \in Int, NEW x \in Items, GoInsert(i, x)
  PROVE  /\ ArrayOK(glist') /\ KeepsWritten(glist.items, glist'.items)
         /\ DoInsert(i, x, SxShown(glist), SxShown(glist'), gret')
         /\ LetsGo
<1>1. Len(SxShown(glist)) = glist.len /\ glist.len \in Nat
  BY ShownIs, ArrayFacts
<1>2. CASE glist.len = MaxLen
  <2>1. glist' = glist /\ gview' = gview /\ gret' = Failed
    BY <1>2 DEF GoInsert, GoFails
  <2>2. LetsGo
    BY <2>1 DEF LetsGo
  <2>3. QED BY <1>1, <1>2, <2>1, <2>2, KeepsItself DEF DoInsert, Fails
<1>3. CASE glist.len # MaxLen
  <2>1. PICK p \in 0 .. glist.len :
          p = Within(i, glist.len) /\ p = ClampedTo(ClampedFrom(i, glist.len), glist.len)
    BY <1>1, ClampedIs
  <2>2. /\ glist' = GoInserted(glist, p, x) /\ gret' = Answer("list", GoShown(glist'), 0)
        /\ Reallocated
    BY <1>3, <2>1 DEF GoInsert
  <2>3. /\ ArrayOK(glist') /\ SxShown(glist') = With(SxShown(glist), p + 1, x)
        /\ KeepsWritten(glist.items, glist'.items)
    BY <2>2, GoInsertedIs
  <2>4. GoShown(glist') = SxShown(glist')
    BY <2>3, ShownIs
  <2>5. LetsGo
    BY <2>2 DEF Reallocated, LetsGo, GoLeft
  <2>6. QED BY <1>1, <1>3, <2>1, <2>2, <2>3, <2>4, <2>5 DEF DoInsert, AnswersList
<1>4. QED BY <1>2, <1>3

LEMMA GoGets ==
  ASSUME ArrayOK(glist), NEW i \in Int, GoGet(i)
  PROVE  /\ glist' = glist /\ gview' = gview
         /\ DoGet(i, SxShown(glist), SxShown(glist'), gret')
<1>1. CASE At(i, glist.len) \in 0 .. glist.len - 1
  <2>1. /\ glist' = glist /\ gview' = gview
        /\ gret' = Answer("item", <<glist.items[At(i, glist.len) + 1]>>, 0)
    BY <1>1, InPlace DEF GoGet
  <2>2. QED BY <1>1, <2>1, InPlace DEF DoGet, AnswersItem
<1>2. CASE ~(At(i, glist.len) \in 0 .. glist.len - 1)
  <2>1. glist' = glist /\ gview' = gview /\ gret' = Failed
    BY <1>2, InPlace DEF GoGet, GoFails
  <2>2. QED BY <1>2, <2>1, InPlace DEF DoGet, Fails
<1>3. QED BY <1>1, <1>2

LEMMA GoSets ==
  ASSUME ArrayOK(glist), NEW i \in Int, NEW x \in Items, GoSet(i, x)
  PROVE  /\ ArrayOK(glist') /\ KeepsWritten(glist.items, glist'.items) /\ gview' = gview
         /\ DoSet(i, x, SxShown(glist), SxShown(glist'), gret')
<1>1. CASE At(i, glist.len) \in 0 .. glist.len - 1
  <2>1. PICK k \in 1 .. glist.len : k = At(i, glist.len) + 1
    BY <1>1, InPlace
  <2>2. /\ glist' = [glist EXCEPT !.items[k] = x] /\ gret' = Answer("item", <<x>>, 0)
        /\ gview' = gview
    BY <1>1, <2>1, InPlace DEF GoSet
  <2>3. /\ ArrayOK(glist') /\ SxShown(glist') = [SxShown(glist) EXCEPT ![k] = x]
        /\ KeepsWritten(glist.items, glist'.items)
    BY <2>2, SetIs
  <2>4. Len(SxShown(glist)) = glist.len
    BY InPlace
  <2>5. QED BY <1>1, <2>1, <2>2, <2>3, <2>4 DEF DoSet, AnswersItem
<1>2. CASE ~(At(i, glist.len) \in 0 .. glist.len - 1)
  <2>1. glist' = glist /\ gview' = gview /\ gret' = Failed
    BY <1>2, InPlace DEF GoSet, GoFails
  <2>2. QED BY <1>2, <2>1, InPlace, KeepsItself DEF DoSet, Fails
<1>3. QED BY <1>1, <1>2

LEMMA GoPops ==
  ASSUME ArrayOK(glist), NEW i \in Int, GoPop(i)
  PROVE  /\ ArrayOK(glist') /\ KeepsWritten(glist.items, glist'.items) /\ gview' = gview
         /\ i >= 0 => DoPop(i, SxShown(glist), SxShown(glist'), gret')
         /\ i < 0 => Fails(SxShown(glist), SxShown(glist'), gret')
<1>1. CASE i \in 0 .. glist.len - 1
  <2>1. /\ glist' = GoRemoved(glist, i) /\ gview' = gview
        /\ gret' = Answer("item", <<glist.items[i + 1]>>, 0)
    BY <1>1 DEF GoPop
  <2>2. At(i, glist.len) = i
    BY <1>1, InPlace DEF At
  <2>3. /\ ArrayOK(glist') /\ SxShown(glist') = Without(SxShown(glist), i + 1)
        /\ KeepsWritten(glist.items, glist'.items)
    BY <1>1, <2>1, GoRemovedIs, RemovedIs
  <2>4. Len(SxShown(glist)) = glist.len /\ SxShown(glist)[i + 1] = glist.items[i + 1]
    BY <1>1, <2>2, InPlace
  <2>5. ~(i < 0)
    BY <1>1, InPlace
  <2>6. QED BY <1>1, <2>1, <2>2, <2>3, <2>4, <2>5 DEF DoPop, AnswersItem
<1>2. CASE ~(i \in 0 .. glist.len - 1)
  <2>1. glist' = glist /\ gview' = gview /\ gret' = Failed
    BY <1>2 DEF GoPop, GoFails
  <2>2. i >= 0 => At(i, glist.len) = i
    BY InPlace DEF At
  <2>3. QED BY <1>2, <2>1, <2>2, InPlace, KeepsItself DEF DoPop, Fails
<1>3. QED BY <1>1, <1>2

LEMMA NeverPanics ==
  ASSUME NEW s, NEW t, NEW a, NEW op, Does(op, s, t, a)
  PROVE  a # Panicked
<1>1. Fails(s, t, a) => a.kind = "error"
  BY DEF Fails, Failed, Answer
<1>2. \A u : AnswersList(u, a) => a.kind = "list"
  BY DEF AnswersList, Answer
<1>3. \A x : AnswersItem(x, a) => a.kind = "item"
  BY DEF AnswersItem, Answer
<1>4. \A x : DoIndexOf(x, s, t, a) => a.kind = "num"
  BY DEF DoIndexOf, Answer
<1>5. a.kind \in {"error", "list", "item", "num"}
  BY <1>1, <1>2, <1>3, <1>4 DEF Does, DoPush, DoGet, DoSet, DoPop, DoInsert, DoReverse, DoSort,
     DoSlice, DoReversed, DoConcat
<1>6. QED BY <1>5 DEF Panicked, Answer

LEMMA GoSlices ==
  ASSUME ArrayOK(glist), NEW i \in Int, NEW j \in Int, GoSlice(i, j)
  PROVE  /\ glist' = glist /\ gview' = gview /\ gret'.items \in Seq(Items)
         /\ j >= 0 => DoSlice(i, j, SxShown(glist), SxShown(glist'), gret')
<1>1. PICK n \in Nat : n = glist.len
  BY ArrayFacts
<1>2. Len(SxShown(glist)) = n
  BY <1>1, ShownIs
<1>3. PICK to \in Int : to = ClampedTo(j, n)
  BY ClampedIs
<1>4. PICK c \in Nat : c = ClampedFrom(i, n)
  BY ClampedIs
<1>5. PICK from \in Int : from = Min({to, c}) /\ from = IF to <= c THEN to ELSE c
  BY DEF Min
<1>6. /\ glist' = glist /\ gview' = gview
      /\ gret' = IF to < 0 THEN Panicked
                 ELSE Answer("list", SubSeq(glist.items, from + 1, to), 0)
  BY <1>1, <1>3, <1>4, <1>5 DEF GoSlice
<1>7. to <= n
  <2>1. PICK b \in Int : b = IF j < 0 THEN j + n ELSE j
    OBVIOUS
  <2>2. Min({n, b}) <= n
    BY DEF Min
  <2>3. QED BY <1>3, <2>1, <2>2 DEF ClampedTo
<1>8. CASE to < 0
  <2>1. ~(j >= 0)
    <3>1. Within(j, n) \in 0 .. n /\ (j >= 0 => ClampedTo(j, n) = Within(j, n))
      BY ClampedIs
    <3>2. QED BY <1>3, <1>8, <3>1
  <2>2. QED BY <1>6, <1>8, <2>1 DEF Panicked, Answer
<1>9. CASE ~(to < 0)
  <2>1. from \in Nat /\ gret' = Answer("list", SubSeq(glist.items, from + 1, to), 0)
    BY <1>5, <1>6, <1>9
  <2>2. /\ SubSeq(glist.items, from + 1, to) = SubSeq(SxShown(glist), from + 1, to)
        /\ SubSeq(SxShown(glist), from + 1, to) \in Seq(Items)
    BY <1>1, <1>7, <2>1, SliceIs
  <2>3. ASSUME j >= 0
        PROVE  SubSeq(SxShown(glist), from + 1, to)
                 = SubSeq(SxShown(glist), Within(i, n) + 1, Within(j, n))
    <3>1. to = Within(j, n)
      BY <1>3, <2>3, ClampedIs
    <3>2. PICK w \in 0 .. n : w = Within(i, n) /\ w = Min({n, c})
      BY <1>4, ClampedIs
    <3>3. w = IF n <= c THEN n ELSE c
      BY <3>2 DEF Min
    <3>4. CASE c < to
      <4>1. w = from
        BY <1>5, <1>7, <3>3, <3>4
      <4>2. QED BY <3>1, <3>2, <4>1
    <3>5. CASE ~(c < to)
      <4>1. to < from + 1 /\ to < w + 1
        BY <1>5, <1>7, <3>3, <3>5
      <4>2. SubSeq(SxShown(glist), from + 1, to) = << >>
        BY <4>1, SubSeqEmpty
      <4>3. w \in Int /\ w + 1 \in Int
        OBVIOUS
      <4>4. SubSeq(SxShown(glist), w + 1, to) = << >>
        BY <4>1, <4>3, SubSeqEmpty
      <4>5. QED BY <3>1, <3>2, <4>2, <4>4
    <3>6. QED BY <3>4, <3>5
  <2>4. gret'.items = SubSeq(glist.items, from + 1, to)
    BY <2>1 DEF Answer
  <2>5. ASSUME j >= 0 PROVE DoSlice(i, j, SxShown(glist), SxShown(glist'), gret')
    <3>1. gret' = Answer("list", SubSeq(SxShown(glist), Within(i, n) + 1, Within(j, n)), 0)
      BY <2>1, <2>2, <2>3, <2>5
    <3>2. QED BY <1>2, <1>6, <3>1 DEF DoSlice, AnswersList
  <2>6. QED BY <1>6, <2>2, <2>4, <2>5
<1>10. QED BY <1>8, <1>9

LEMMA Unmoved ==
  ASSUME ArrayOK(glist), NEW op, OpFacts(op), op.do \notin Growing,
         glist' = glist, gview' = gview,
         gret'.items \in Seq(Items)
  PROVE  GoKeeps /\ GoLeaves(op)
BY KeepsItself DEF GoKeeps, GoLeaves

LEMMA GoDoes ==
  ASSUME ArrayOK(glist), NEW op, OpFacts(op), GoDo(op)
  PROVE  /\ GoKeeps /\ GoLeaves(op)
         /\ AgreeOn(op) => Does(op, SxShown(glist), SxShown(glist'), gret')
<1>1. op.at \in Int /\ op.to \in Int /\ op.item \in Items
  BY DEF OpFacts
<1>2. SxShown(glist) \in Seq(Items)
  BY ShownIs
<1>3. Does(op, SxShown(glist), SxShown(glist'), gret') => gret'.items \in Seq(Items)
  BY <1>2, DoesKeepsItems
<1>4. CASE op.do = "push" /\ GoPush(op.item)
  <2>1. Does(op, SxShown(glist), SxShown(glist'), gret')
    BY <1>1, <1>4, GoPushes DEF Does
  <2>2. QED BY <1>1, <1>3, <1>4, <2>1, GoPushes DEF GoKeeps, GoLeaves, Growing
<1>5. CASE op.do = "insert" /\ GoInsert(op.at, op.item)
  <2>1. Does(op, SxShown(glist), SxShown(glist'), gret')
    BY <1>1, <1>5, GoInserts DEF Does
  <2>2. QED BY <1>1, <1>3, <1>5, <2>1, GoInserts DEF GoKeeps, GoLeaves, Growing
<1>6. CASE op.do = "get" /\ GoGet(op.at)
  <2>1. Does(op, SxShown(glist), SxShown(glist'), gret') /\ glist' = glist /\ gview' = gview
    BY <1>1, <1>6, GoGets DEF Does
  <2>2. QED BY <1>3, <1>6, <2>1, Unmoved DEF Growing
<1>7. CASE op.do = "set" /\ GoSet(op.at, op.item)
  <2>1. Does(op, SxShown(glist), SxShown(glist'), gret')
    BY <1>1, <1>7, GoSets DEF Does
  <2>2. QED BY <1>1, <1>3, <1>7, <2>1, GoSets DEF GoKeeps, GoLeaves, Growing
<1>8. CASE op.do = "pop" /\ GoPop(op.at)
  <2>1. op.at >= 0 => Does(op, SxShown(glist), SxShown(glist'), gret')
    BY <1>1, <1>8, GoPops DEF Does
  <2>2. op.at < 0 => gret'.items \in Seq(Items)
    <3>1. op.at < 0 => gret' = Failed
      BY <1>1, <1>8, GoPops DEF Fails
    <3>2. Failed.items = << >>
      BY DEF Failed, Answer
    <3>3. << >> \in Seq(Items)
      OBVIOUS
    <3>4. QED BY <3>1, <3>2, <3>3
  <2>3. gret'.items \in Seq(Items)
    BY <1>1, <1>3, <2>1, <2>2
  <2>4. QED BY <1>1, <1>8, <2>1, <2>3, GoPops DEF GoKeeps, GoLeaves, Growing, AgreeOn
<1>9. CASE op.do = "reverse" /\ GoReverse
  <2>1. /\ glist' = Reversed(glist) /\ gret' = Answer("list", GoShown(glist'), 0)
        /\ gview' = gview
    BY <1>9, ReversedIs DEF GoReverse
  <2>2. /\ ArrayOK(glist') /\ SxShown(glist') = Backwards(SxShown(glist))
        /\ KeepsWritten(glist.items, glist'.items)
    BY <2>1, ReversedIs
  <2>3. gret' = Answer("list", SxShown(glist'), 0)
    BY <2>1, <2>2, ShownIs
  <2>4. Does(op, SxShown(glist), SxShown(glist'), gret')
    BY <1>9, <2>2, <2>3 DEF Does, DoReverse, AnswersList
  <2>5. QED BY <1>3, <1>9, <2>1, <2>2, <2>4 DEF GoKeeps, GoLeaves, Growing
<1>10. CASE op.do = "sort" /\ GoSort
  <2>1. /\ glist' = GoSorted(glist) /\ gret' = Answer("list", GoShown(glist'), 0)
        /\ gview' = gview
    BY <1>10 DEF GoSort
  <2>2. /\ ArrayOK(glist') /\ KeepsWritten(glist.items, glist'.items)
        /\ OrdersAgree => SortedFrom(SxShown(glist), SxShown(glist'))
    BY <2>1, GoSortedFrom
  <2>3. gret' = Answer("list", SxShown(glist'), 0) /\ SxShown(glist') \in Seq(Items)
    BY <2>1, <2>2, ShownIs
  <2>4. OrdersAgree => Does(op, SxShown(glist), SxShown(glist'), gret')
    BY <1>10, <2>2, <2>3 DEF Does, DoSort, AnswersList
  <2>5. gret'.items \in Seq(Items)
    BY <2>3 DEF Answer
  <2>6. QED BY <1>10, <2>1, <2>2, <2>4, <2>5 DEF GoKeeps, GoLeaves, Growing, AgreeOn
<1>11. CASE op.do = "slice" /\ GoSlice(op.at, op.to)
  <2>1. op.to >= 0 => Does(op, SxShown(glist), SxShown(glist'), gret')
    BY <1>1, <1>11, GoSlices DEF Does
  <2>2. glist' = glist /\ gview' = gview /\ gret'.items \in Seq(Items)
    BY <1>1, <1>11, GoSlices
  <2>3. GoKeeps /\ GoLeaves(op)
    BY <1>11, <2>2, Unmoved DEF Growing
  <2>4. QED BY <1>11, <2>1, <2>3 DEF AgreeOn
<1>12. CASE op.do = "reversed" /\ GoReversedCopy
  <2>1. /\ glist' = glist /\ gview' = gview
        /\ gret' = Answer("list", GoShown(Reversed(glist)), 0)
    BY <1>12, ReversedIs DEF GoReversedCopy
  <2>2. GoShown(Reversed(glist)) = Backwards(SxShown(glist))
    BY ReversedIs, ShownIs
  <2>3. Does(op, SxShown(glist), SxShown(glist'), gret')
    BY <1>12, <2>1, <2>2 DEF Does, DoReversed, AnswersList
  <2>4. QED BY <1>3, <1>12, <2>1, <2>3, Unmoved DEF Growing
<1>13. CASE op.do = "concat" /\ GoConcat
  <2>1. /\ glist' = glist /\ gview' = gview
        /\ gret' = Answer("list", SxShown(glist) \o SxShown(glist), 0)
    BY <1>13, ShownIs DEF GoConcat
  <2>2. Does(op, SxShown(glist), SxShown(glist'), gret')
    BY <1>13, <2>1 DEF Does, DoConcat, AnswersList
  <2>3. QED BY <1>3, <1>13, <2>1, <2>2, Unmoved DEF Growing
<1>14. CASE op.do = "index_of" /\ GoIndexOf(op.item)
  <2>1. /\ glist' = glist /\ gview' = gview
        /\ gret' = Answer("num", << >>, GoFirstOf(glist, op.item))
    BY <1>14 DEF GoIndexOf
  <2>2. gret'.items \in Seq(Items)
    BY <2>1 DEF Answer
  <2>3. ASSUME AgreeOn(op)
        PROVE  Does(op, SxShown(glist), SxShown(glist'), gret')
    <3>1. GoFirstOf(glist, op.item) = IndexIn(SxShown(glist), op.item)
      BY <1>1, <1>14, <2>3, FirstIs DEF AgreeOn
    <3>2. QED BY <1>14, <2>1, <3>1 DEF Does, DoIndexOf
  <2>4. QED BY <1>14, <2>1, <2>2, <2>3, Unmoved DEF Growing
<1>15. QED BY <1>4, <1>5, <1>6, <1>7, <1>8, <1>9, <1>10, <1>11, <1>12, <1>13, <1>14 DEF GoDo

-----------------------------------------------------------------------------
(* The list of a literal.                                                  *)

Building(lit, b, m) ==
  b = [n \in 0 .. m |-> IF n = 0 THEN SxNew ELSE SxAppended(b[n - 1], lit[n])]

LEMMA BuildingExists ==
  ASSUME NEW lit, NEW N \in Nat
  PROVE  \E b : Building(lit, b, N)
<1> DEFINE P(m) == \E b : Building(lit, b, m)
           S == {m \in Nat : ~P(m)}
<1>1. SUFFICES ASSUME S # {} PROVE FALSE
  OBVIOUS
<1>2. PICK d \in S : \A c \in S : d <= c
  BY <1>1, Least
<1>3. d \in Nat /\ ~P(d)
  OBVIOUS
<1>4. CASE d = 0
  <2>1. Building(lit, [n \in 0 .. 0 |-> SxNew], 0)
    BY DEF Building
  <2>2. QED BY <1>3, <1>4, <2>1
<1>5. CASE d # 0
  <2>1. PICK e \in Nat : d = e + 1
    BY <1>3, <1>5
  <2>2. ~(d <= e)
    BY <2>1
  <2>3. P(e)
    BY <1>2, <2>2
  <2>4. PICK b : Building(lit, b, e)
    BY <2>3
  <2>5. \A n \in 0 .. e : b[n] = IF n = 0 THEN SxNew ELSE SxAppended(b[n - 1], lit[n])
    BY <2>4 DEF Building
  <2>6. PICK c : c = [n \in 0 .. d |-> IF n = d THEN SxAppended(b[e], lit[d]) ELSE b[n]]
    OBVIOUS
  <2>7. \A n \in 0 .. e : n \in 0 .. d /\ n # d
    BY <2>1
  <2>8. c[d] = SxAppended(b[e], lit[d]) /\ \A n \in 0 .. e : c[n] = b[n]
    BY <1>3, <2>6, <2>7
  <2>9. ASSUME NEW n \in 0 .. d
        PROVE  (IF n = d THEN SxAppended(b[e], lit[d]) ELSE b[n])
               = (IF n = 0 THEN SxNew ELSE SxAppended(c[n - 1], lit[n]))
    <3>1. CASE n = d
      <4>1. n - 1 = e /\ e \in 0 .. e /\ n # 0
        BY <2>1, <3>1
      <4>2. c[n - 1] = b[e]
        BY <2>8, <4>1
      <4>3. QED BY <3>1, <4>1, <4>2
    <3>2. CASE n # d
      <4>1. n \in 0 .. e
        BY <2>1, <3>2
      <4>2. n # 0 => c[n - 1] = b[n - 1]
        <5>1. n # 0 => n - 1 \in 0 .. e
          BY <4>1
        <5>2. QED BY <2>8, <5>1
      <4>3. QED BY <2>5, <3>2, <4>1, <4>2
    <3>3. QED BY <3>1, <3>2
  <2>10. Building(lit, c, d)
    BY <2>6, <2>9 DEF Building
  <2>11. QED BY <1>3, <2>10
<1>6. QED BY <1>4, <1>5

LEMMA NewIs == ArrayOK(SxNew) /\ SxNew.len = 0 /\ SxShown(SxNew) \in Seq(Items)
<1>1. SxNew.items = << >> /\ SxNew.len = 0 /\ SxNew = [items |-> << >>, len |-> 0]
  BY DEF SxNew
<1>2. << >> \in Seq(Cells) /\ Len(<< >>) = 0
  OBVIOUS
<1>3. SxNew \in ArrayType
  BY <1>1, <1>2 DEF ArrayType
<1>4. Written(SxNew.items, SxNew.len)
  BY <1>1, <1>2 DEF Written
<1>5. QED BY <1>1, <1>3, <1>4, ShownIs DEF ArrayOK

LEMMA BuiltIs ==
  ASSUME NEW lit \in Seq(Items)
  PROVE  ArrayOK(SxBuilt(lit)) /\ SxShown(SxBuilt(lit)) = lit
<1>1. PICK N \in Nat : N = Len(lit)
  BY LenProperties
<1>2. PICK b : b = CHOOSE c : Building(lit, c, N)
  OBVIOUS
<1>3. Building(lit, b, N)
  BY <1>2, BuildingExists
<1>4. SxBuilt(lit) = b[N]
  BY <1>1, <1>2, Zenon DEF SxBuilt, Building
<1>5. \A n \in 0 .. N : b[n] = IF n = 0 THEN SxNew ELSE SxAppended(b[n - 1], lit[n])
  BY <1>3 DEF Building
<1>6. \A n \in 1 .. N : lit[n] \in Items
  BY <1>1, LenProperties
<1> DEFINE Q(n) == /\ ArrayOK(b[n]) /\ b[n].len = n
                   /\ \A i \in 1 .. n : SxShown(b[n])[i] = lit[i]
           S == {n \in 0 .. N : ~Q(n)}
<1>7. S = {}
  <2>1. SUFFICES ASSUME S # {} PROVE FALSE
    OBVIOUS
  <2>2. S \subseteq Nat
    OBVIOUS
  <2>3. PICK d \in S : \A c \in S : d <= c
    BY <2>1, <2>2, Least
  <2>4. d \in 0 .. N /\ ~Q(d)
    OBVIOUS
  <2>5. CASE d = 0
    <3>1. b[0] = SxNew
      BY <1>5
    <3>2. QED BY <2>4, <2>5, <3>1, NewIs
  <2>6. CASE d # 0
    <3>1. PICK e \in 0 .. N : d = e + 1
      BY <2>4, <2>6
    <3>2. ~(d <= e)
      BY <3>1
    <3>3. Q(e)
      BY <2>3, <3>2
    <3> HIDE DEF S
    <3>4. b[d] = SxAppended(b[e], lit[d]) /\ lit[d] \in Items
      <4>1. d - 1 = e /\ d \in 1 .. N
        BY <2>4, <2>6, <3>1
      <4>2. QED BY <1>5, <1>6, <2>4, <2>6, <4>1
    <3>5. /\ ArrayOK(b[d]) /\ b[d].len = d
          /\ SxShown(b[d]) = Append(SxShown(b[e]), lit[d])
      <4>1. PICK x \in Items : x = lit[d]
        BY <3>4
      <4>2. PICK l : l = b[e] /\ ArrayOK(l) /\ l.len + 1 = d
        BY <3>1, <3>3
      <4>3. /\ ArrayOK(SxAppended(l, x)) /\ SxAppended(l, x).len = l.len + 1
            /\ SxShown(SxAppended(l, x)) = Append(SxShown(l), x)
        BY <4>2, SxAppendedIs
      <4>4. QED BY <3>4, <4>1, <4>2, <4>3
    <3>6. SxShown(b[e]) \in Seq(Items) /\ Len(SxShown(b[e])) = e
      BY <3>3, ShownIs
    <3>7. ASSUME NEW i \in 1 .. d PROVE SxShown(b[d])[i] = lit[i]
      <4>1. PICK t \in Seq(Items) : t = SxShown(b[e]) /\ Len(t) = e
        BY <3>6
      <4>2. /\ \A k \in 1 .. e : Append(t, lit[d])[k] = t[k]
            /\ Append(t, lit[d])[e + 1] = lit[d]
        BY <3>4, <4>1, AppendProperties
      <4>3. CASE i = d
        BY <3>1, <3>5, <4>1, <4>2, <4>3
      <4>4. CASE i # d
        <5>1. i \in 1 .. e
          BY <2>4, <3>1, <4>4
        <5>2. QED BY <3>3, <3>5, <4>1, <4>2, <5>1
      <4>5. QED BY <4>3, <4>4
    <3>8. QED BY <2>4, <3>5, <3>7
  <2>7. QED BY <2>5, <2>6
<1>8. Q(N)
  BY <1>7
<1>9. ArrayOK(b[N]) /\ b[N].len = Len(lit)
  BY <1>1, <1>8
<1>10. \A i \in 1 .. b[N].len : lit[i] = b[N].items[i]
  BY <1>1, <1>8, <1>9, ShownIs
<1>11. QED BY <1>4, <1>9, <1>10, Shows

-----------------------------------------------------------------------------
(* Turns of a loop.                                                        *)

LEMMA EnteredFacts ==
  ASSUME NEW L \in EnteredSet
  PROVE  /\ L.kind \in LoopKinds /\ L.when \in SUBSET Items /\ L.body \in OperationSet
         /\ L.next \in Nat /\ L.limit \in Nat /\ L.seen \in Seq(Items) /\ L.built \in Seq(Items)
         /\ OpFacts(L.body)
BY DEF EnteredSet, OperationSet, OpFacts

LEMMA EnteredIs ==
  ASSUME NEW l \in LoopSet, NEW n \in Nat
  PROVE  /\ Entered(l, n) \in EnteredSet /\ Entered(l, n).next = 0
         /\ Entered(l, n).limit = n /\ Entered(l, n).kind = l.kind
         /\ Entered(l, n).when = l.when /\ Entered(l, n).body = l.body
         /\ Entered(l, n).seen = << >> /\ OpFacts(l.body)
<1>1. << >> \in Seq(Items)
  OBVIOUS
<1>2. Entered(l, n) \in EnteredSet
  BY <1>1 DEF LoopSet, Entered, EnteredSet
<1>3. QED BY <1>2 DEF Entered, LoopSet, OperationSet, OpFacts

LEMMA PassedIs ==
  ASSUME NEW L \in EnteredSet, NEW x \in Items
  PROVE  /\ Passed(L, x) \in EnteredSet /\ Passed(L, x).next = L.next + 1
         /\ Passed(L, x).limit = L.limit /\ Passed(L, x).kind = L.kind
         /\ Passed(L, x).when = L.when /\ Passed(L, x).body = L.body
         /\ Passed(L, x).seen = Append(L.seen, x)
<1>1. PICK t \in Seq(Items) : t = Append(L.seen, x)
  BY EnteredFacts, AppendProperties
<1>2. PICK u \in Seq(Items) :
        u = IF L.kind = "filter" /\ x \notin Kept THEN L.built ELSE Append(L.built, x)
  <2>1. L.built \in Seq(Items) /\ Append(L.built, x) \in Seq(Items)
    BY EnteredFacts, AppendProperties
  <2>2. QED BY <2>1
<1>3. Passed(L, x) = [L EXCEPT !.next = L.next + 1, !.seen = t, !.built = u]
  BY <1>1, <1>2 DEF Passed
<1>4. PICK n \in Nat : n = L.next + 1
  BY EnteredFacts
<1>5. [L EXCEPT !.next = n, !.seen = t, !.built = u] \in EnteredSet
  BY <1>1, <1>2, <1>4 DEF EnteredSet
<1>6. QED BY <1>1, <1>3, <1>4, <1>5 DEF EnteredSet

\* What a turn makes of the list s and of the last answer r.
Meets(L, s, t, r, a) ==
  IF s[L.next + 1] \in L.when THEN Does(L.body, s, t, a) ELSE t = s /\ a = r

LoopOK(loop) == loop = << >> \/ \E L \in EnteredSet : loop = <<L>>

LEMMA SxTurnIs ==
  ASSUME ArrayOK(slist), NEW L \in EnteredSet, sloop = <<L>>, SxTurn
  PROVE  /\ L.next < IF L.kind = "for" THEN L.limit ELSE slist.len
         /\ L.next < slist.len =>
              /\ ArrayOK(slist') /\ SxShown(slist)[L.next + 1] \in Items
              /\ Meets(L, SxShown(slist), SxShown(slist'), sret, sret')
              /\ sloop' = IF sret' = Failed THEN << >>
                          ELSE <<Passed(L, SxShown(slist)[L.next + 1])>>
         /\ ~(L.next < slist.len) => slist' = slist /\ sret' = Failed /\ sloop' = << >>
<1>1. SxLoop = L
  BY DEF SxLoop
<1>2. L.next < IF L.kind = "for" THEN L.limit ELSE slist.len
  BY <1>1 DEF SxTurn, SxGoesOn
<1>3. ASSUME L.next < slist.len
      PROVE  /\ ArrayOK(slist') /\ SxShown(slist)[L.next + 1] \in Items
             /\ Meets(L, SxShown(slist), SxShown(slist'), sret, sret')
             /\ sloop' = IF sret' = Failed THEN << >>
                         ELSE <<Passed(L, SxShown(slist)[L.next + 1])>>
  <2>1. PICK i \in 1 .. slist.len : i = L.next + 1
    BY <1>3, ArrayFacts, EnteredFacts
  <2>2. PICK x \in Items : x = slist.items[i] /\ x = SxShown(slist)[i]
    BY ArrayFacts, ShownIs
  <2>3. /\ IF x \in L.when THEN SxDo(L.body) ELSE UNCHANGED <<slist, sret>>
        /\ sloop' = IF sret' = Failed THEN << >> ELSE <<Passed(L, x)>>
    BY <1>1, <1>3, <2>1, <2>2 DEF SxTurn, SxPassed
  <2>4. CASE x \in L.when
    <3>1. ArrayOK(slist') /\ Does(L.body, SxShown(slist), SxShown(slist'), sret')
      BY <2>3, <2>4, EnteredFacts, SxDoes
    <3>2. QED BY <2>1, <2>2, <2>3, <2>4, <3>1 DEF Meets
  <2>5. CASE x \notin L.when
    BY <2>1, <2>2, <2>3, <2>5 DEF Meets
  <2>6. QED BY <2>4, <2>5
<1>4. ASSUME ~(L.next < slist.len) PROVE slist' = slist /\ sret' = Failed /\ sloop' = << >>
  BY <1>1, <1>4 DEF SxTurn, SxFails
<1>5. QED BY <1>2, <1>3, <1>4

LEMMA GoTurnIs ==
  ASSUME ArrayOK(glist), gret.items \in Seq(Items), NEW L \in EnteredSet, gloop = <<L>>,
         Written(Viewed, L.limit), GoTurn
  PROVE  /\ L.next < L.limit /\ Viewed[L.next + 1] \in Items
         /\ GoKeeps /\ Written(Viewed', L.limit)
         /\ GoLeaves(L.body) \/ gview' = gview
         /\ gloop' = IF gret' \in {Failed, Panicked} THEN << >>
                     ELSE <<Passed(L, Viewed[L.next + 1])>>
         /\ IF Viewed[L.next + 1] \in L.when
            THEN AgreeOn(L.body) => Does(L.body, SxShown(glist), SxShown(glist'), gret')
            ELSE glist' = glist /\ gret' = gret
<1>1. GoLoop = L
  BY DEF GoLoop
<1>2. PICK x \in Items : x = Viewed[L.next + 1]
  BY <1>1, EnteredFacts DEF GoTurn, Written
<1>3. /\ L.next < L.limit
      /\ IF x \in L.when THEN GoDo(L.body) ELSE UNCHANGED <<glist, gview, gret>>
      /\ gloop' = IF gret' \in {Failed, Panicked} THEN << >> ELSE <<Passed(L, x)>>
  BY <1>1, <1>2 DEF GoTurn
<1>4. /\ GoKeeps /\ (GoLeaves(L.body) \/ gview' = gview)
      /\ IF x \in L.when
         THEN AgreeOn(L.body) => Does(L.body, SxShown(glist), SxShown(glist'), gret')
         ELSE glist' = glist /\ gret' = gret
  <2>1. CASE x \in L.when
    BY <1>3, <2>1, EnteredFacts, GoDoes
  <2>2. CASE x \notin L.when
    BY <1>3, <2>2, KeepsItself DEF GoKeeps
  <2>3. QED BY <2>1, <2>2
<1>5. Written(Viewed', L.limit)
  <2>1. gview' = gview \/ (gview.shared /\ gview' = GoLeft)
    BY <1>4 DEF GoLeaves, LetsGo
  <2>2. L.limit \in Nat /\ KeepsWritten(glist.items, glist'.items)
    BY <1>4, EnteredFacts DEF GoKeeps
  <2>3. CASE gview' = gview
    <3>1. CASE gview.shared
      BY <2>2, <2>3, <3>1 DEF Viewed, KeepsWritten
    <3>2. CASE ~gview.shared
      BY <2>3, <3>2 DEF Viewed
    <3>3. QED BY <3>1, <3>2
  <2>4. CASE gview.shared /\ gview' = GoLeft
    BY <2>4 DEF Viewed, GoLeft
  <2>5. QED BY <2>1, <2>3, <2>4
<1>6. QED BY <1>2, <1>3, <1>4, <1>5

LEMMA LoopAnswered ==
  ASSUME NEW L \in EnteredSet
  PROVE  LoopAnswer(L).items \in Seq(Items) /\ LoopAnswer(L) \notin {Failed, Panicked}
BY EnteredFacts DEF LoopAnswer, Answer, Failed, Panicked, LoopKinds

-----------------------------------------------------------------------------
(* The arrays are never read where they were not written.                  *)

SxOK == ArrayOK(slist) /\ sret.items \in Seq(Items) /\ LoopOK(sloop)

GoOK ==
  /\ ArrayOK(glist) /\ gret.items \in Seq(Items)
  /\ gloop = << >> \/ \E L \in EnteredSet : gloop = <<L>> /\ Written(Viewed, L.limit)

Safe == Init /\ [][Next]_vars

LEMMA SpecIsSafe == Spec => Safe
BY PTL DEF Spec, Safe

\* The last answer of a loop that goes on is kept, or comes of an operation.
LEMMA MeetsKeepsItems ==
  ASSUME NEW L \in EnteredSet, NEW s \in Seq(Items), NEW t, NEW r, NEW a,
         r.items \in Seq(Items), Meets(L, s, t, r, a)
  PROVE  t \in Seq(Items) /\ a.items \in Seq(Items)
BY EnteredFacts, DoesKeepsItems DEF Meets

LEMMA NothingIs ==
  /\ Nothing.items = << >> /\ Failed.items = << >>
  /\ Nothing # Failed /\ Nothing # Panicked /\ << >> \in Seq(Items)
BY DEF Nothing, Failed, Panicked, Answer

LEMMA SxTurnOK ==
  ASSUME SxOK, NEW L \in EnteredSet, sloop = <<L>>, SxTurn
  PROVE  SxOK'
<1>1. ArrayOK(slist) /\ sret.items \in Seq(Items) /\ SxShown(slist) \in Seq(Items)
  BY ShownIs DEF SxOK
<1>2. CASE L.next < slist.len
  <2>1. /\ ArrayOK(slist') /\ SxShown(slist)[L.next + 1] \in Items
        /\ Meets(L, SxShown(slist), SxShown(slist'), sret, sret')
        /\ sloop' = IF sret' = Failed THEN << >>
                    ELSE <<Passed(L, SxShown(slist)[L.next + 1])>>
    BY <1>1, <1>2, SxTurnIs
  <2>2. sret'.items \in Seq(Items)
    BY <1>1, <2>1, MeetsKeepsItems
  <2>3. LoopOK(sloop')
    BY <2>1, PassedIs DEF LoopOK
  <2>4. QED BY <2>1, <2>2, <2>3 DEF SxOK
<1>3. CASE ~(L.next < slist.len)
  <2>1. slist' = slist /\ sret' = Failed /\ sloop' = << >>
    BY <1>1, <1>3, SxTurnIs
  <2>2. QED BY <1>1, <2>1, NothingIs DEF SxOK, LoopOK
<1>4. QED BY <1>2, <1>3

LEMMA SxStepOK ==
  ASSUME SxOK, SxStep
  PROVE  SxOK'
<1>1. PICK L \in EnteredSet : sloop = <<L>>
  BY DEF SxOK, LoopOK, SxStep, SxTurn, SxLoopEnd
<1>2. CASE SxTurn
  BY <1>1, <1>2, SxTurnOK
<1>3. CASE SxLoopEnd
  <2>1. sret' = LoopAnswer(L) /\ sloop' = << >> /\ slist' = slist
    BY <1>1, <1>3 DEF SxLoopEnd, SxLoop
  <2>2. QED BY <2>1, LoopAnswered DEF SxOK, LoopOK
<1>4. QED BY <1>2, <1>3 DEF SxStep

LEMMA GoStepOK ==
  ASSUME GoOK, GoStep
  PROVE  GoOK'
<1>1. PICK L \in EnteredSet : gloop = <<L>> /\ Written(Viewed, L.limit)
  BY DEF GoOK, GoStep, GoTurn, GoLoopEnd
<1>2. CASE GoTurn
  <2>1. /\ Viewed[L.next + 1] \in Items /\ GoKeeps /\ Written(Viewed', L.limit)
        /\ gloop' = IF gret' \in {Failed, Panicked} THEN << >>
                    ELSE <<Passed(L, Viewed[L.next + 1])>>
    BY <1>1, <1>2, GoTurnIs DEF GoOK
  <2>2. CASE gret' \in {Failed, Panicked}
    BY <2>1, <2>2 DEF GoOK, GoKeeps
  <2>3. CASE gret' \notin {Failed, Panicked}
    <3>1. PICK M \in EnteredSet : M = Passed(L, Viewed[L.next + 1]) /\ M.limit = L.limit
      BY <2>1, PassedIs
    <3>2. gloop' = <<M>>
      BY <2>1, <2>3, <3>1
    <3>3. QED BY <2>1, <3>1, <3>2 DEF GoOK, GoKeeps
  <2>4. QED BY <2>2, <2>3
<1>3. CASE GoLoopEnd
  <2>1. gret' = LoopAnswer(L) /\ gloop' = << >> /\ glist' = glist
    BY <1>1, <1>3 DEF GoLoopEnd, GoLoop
  <2>2. QED BY <2>1, LoopAnswered DEF GoOK
<1>4. QED BY <1>2, <1>3 DEF GoStep

LEMMA InitOK ==
  ASSUME NEW lit \in Literals, SxLists(lit), GoLists(lit)
  PROVE  /\ SxOK /\ GoOK /\ SxShown(slist) = lit /\ SxShown(glist) = lit
         /\ sloop = << >> /\ gloop = << >> /\ sret = Nothing /\ gret = Nothing
<1>1. lit \in Seq(Items)
  BY ProgramAssumption
<1>2. /\ slist = SxBuilt(lit) /\ sloop = << >> /\ sret = Nothing
      /\ glist = [items |-> lit, len |-> Len(lit)] /\ gloop = << >> /\ gret = Nothing
  BY DEF SxLists, GoLists
<1>3. ArrayOK(slist) /\ SxShown(slist) = lit
  BY <1>1, <1>2, BuiltIs
<1>4. ArrayOK(glist) /\ glist.len = Len(lit) /\ glist.items = lit
  <2>1. PICK n \in Nat : n = Len(lit) /\ lit \in [1 .. n -> Items]
    BY <1>1, LenProperties
  <2>2. lit \in [1 .. n -> Cells] /\ \A i \in 1 .. n : lit[i] \in Items
    BY <2>1 DEF Cells
  <2>3. ArrayOK([items |-> lit, len |-> n])
    BY <2>2, ArrayIs
  <2>4. QED BY <1>2, <2>1, <2>3
<1>5. SxShown(glist) = lit
  BY <1>1, <1>4, Shows
<1>6. QED BY <1>2, <1>3, <1>4, <1>5, NothingIs DEF SxOK, GoOK, LoopOK

LEMMA OperateOK ==
  ASSUME SxOK, GoOK, NEW op \in Operations, Operate(op)
  PROVE  /\ SxOK' /\ GoOK'
         /\ Does(op, SxShown(slist), SxShown(slist'), sret')
         /\ AgreeOn(op) => Does(op, SxShown(glist), SxShown(glist'), gret')
<1>1. OpFacts(op)
  BY ProgramAssumption DEF OperationSet, OpFacts
<1>2. /\ SxDo(op) /\ GoDo(op) /\ sloop' = sloop /\ gloop' = gloop
      /\ sloop = << >> /\ gloop = << >>
  BY DEF Operate, Idle
<1>3. ArrayOK(slist') /\ Does(op, SxShown(slist), SxShown(slist'), sret')
  BY <1>1, <1>2, SxDoes DEF SxOK
<1>4. SxShown(slist) \in Seq(Items)
  BY ShownIs DEF SxOK
<1>5. sret'.items \in Seq(Items)
  BY <1>1, <1>3, <1>4, DoesKeepsItems
<1>6. GoKeeps /\ (AgreeOn(op) => Does(op, SxShown(glist), SxShown(glist'), gret'))
  BY <1>1, <1>2, GoDoes DEF GoOK
<1>7. QED BY <1>2, <1>3, <1>5, <1>6 DEF SxOK, GoOK, LoopOK, GoKeeps

LEMMA EnterOK ==
  ASSUME SxOK, GoOK, NEW l \in Loops, Enter(l)
  PROVE  /\ SxOK' /\ GoOK' /\ slist' = slist /\ glist' = glist
         /\ sloop = << >> /\ gloop = << >>
         /\ sloop' = <<Entered(l, slist.len)>> /\ gloop' = <<Entered(l, glist.len)>>
         /\ sret' = Nothing /\ gret' = Nothing /\ gview' = Shared
<1>1. l \in LoopSet
  BY ProgramAssumption
<1>2. /\ sloop' = <<Entered(l, slist.len)>> /\ sret' = Nothing /\ slist' = slist
      /\ gloop' = <<Entered(l, glist.len)>> /\ gret' = Nothing /\ glist' = glist
      /\ gview' = Shared /\ sloop = << >> /\ gloop = << >>
  BY DEF Enter, SxStart, GoStart, Idle
<1>3. slist.len \in Nat /\ glist.len \in Nat
  BY ArrayFacts DEF SxOK, GoOK
<1>4. SxOK'
  BY <1>1, <1>2, <1>3, EnteredIs, NothingIs DEF SxOK, LoopOK
<1>5. Written(Viewed', glist.len)
  BY <1>2 DEF GoOK, ArrayOK, Viewed, Shared
<1>6. PICK M \in EnteredSet : M = Entered(l, glist.len) /\ M.limit = glist.len
  BY <1>1, <1>3, EnteredIs
<1>7. GoOK'
  BY <1>2, <1>5, <1>6, NothingIs DEF GoOK
<1>8. QED BY <1>2, <1>4, <1>7

LEMMA BothOK == Safe => [](SxOK /\ GoOK)
<1>1. ASSUME Init PROVE SxOK /\ GoOK
  BY <1>1, InitOK DEF Init
<1>2. ASSUME SxOK, GoOK, [Next]_vars
      PROVE  SxOK' /\ GoOK'
  <2>1. CASE \E op \in Operations : Operate(op)
    BY <1>2, <2>1, OperateOK
  <2>2. CASE \E l \in Loops : Enter(l)
    BY <1>2, <2>2, EnterOK
  <2>3. CASE SxStep
    <3>1. SxOK'
      BY <1>2, <2>3, SxStepOK
    <3>2. GoOK'
      BY <1>2, <2>3 DEF SxStep, goVars, GoOK, Viewed
    <3>3. QED BY <3>1, <3>2
  <2>4. CASE GoStep
    <3>1. GoOK'
      BY <1>2, <2>4, GoStepOK
    <3>2. SxOK'
      BY <1>2, <2>4 DEF GoStep, sxVars, SxOK
    <3>3. QED BY <3>1, <3>2
  <2>5. CASE UNCHANGED vars
    BY <1>2, <2>5 DEF vars, SxOK, GoOK, Viewed
  <2>6. QED BY <1>2, <2>1, <2>2, <2>3, <2>4, <2>5 DEF Next
<1>3. QED BY <1>1, <1>2, PTL DEF Safe

\* No place of either array is read before it was written, whatever a program
\* does to its list inside a loop or outside one: sx_list_append grows in time,
\* and the header that a loop of the interpreter goes over still holds what it
\* held when the list moves to another array.
THEOREM ArraysAreWritten == Spec => []TypeOK
<1>1. ASSUME SxOK, GoOK PROVE TypeOK
  <2>1. /\ slist.items \in Seq(Items \cup {Junk}) /\ slist.len \in 0 .. Len(slist.items)
        /\ SxShown(slist) \in Seq(Items) /\ sret.items \in Seq(Items)
    BY <1>1, ArrayFacts, ShownIs DEF SxOK, Cells
  <2>2. /\ glist.items \in Seq(Items \cup {Junk}) /\ glist.len \in 0 .. Len(glist.items)
        /\ GoShown(glist) \in Seq(Items) /\ gret.items \in Seq(Items)
    BY <1>1, ArrayFacts, ShownIs DEF GoOK, Cells
  <2>3. /\ \A i \in DOMAIN sloop : sloop[i] \in EnteredSet
        /\ \A i \in DOMAIN gloop : gloop[i] \in EnteredSet
    BY <1>1 DEF SxOK, GoOK, LoopOK
  <2>4. QED BY <2>1, <2>2, <2>3 DEF TypeOK
<1>2. QED BY <1>1, SpecIsSafe, BothOK, PTL

-----------------------------------------------------------------------------
(* The turns of the compiled program's loops.                              *)

LEMMA Lengths ==
  ASSUME NEW s \in Seq(Items), NEW t, NEW a, NEW op, OpFacts(op), Does(op, s, t, a)
  PROVE  /\ Len(t) \in Nat /\ Len(s) \in Nat
         /\ op.do \in Growing => Len(t) <= Len(s) + 1 /\ Len(t) >= Len(s)
         /\ op.do = "pop" => Len(t) <= Len(s)
         /\ op.do \notin Growing \cup {"pop"} => Len(t) = Len(s)
<1>1. op.at \in Int /\ op.to \in Int /\ op.item \in Items
  BY DEF OpFacts
<1>2. Len(s) \in Nat
  BY LenProperties
<1>3. ASSUME Fails(s, t, a) PROVE t = s
  BY <1>3 DEF Fails
<1>4. PICK p : p = At(op.at, Len(s)) + 1
  OBVIOUS
<1>5. At(op.at, Len(s)) \in 0 .. Len(s) - 1 => p \in 1 .. Len(s)
  BY <1>2, <1>4
<1>6. CASE op.do = "push" /\ DoPush(op.item, s, t, a)
  <2>1. Len(Append(s, op.item)) = Len(s) + 1
    BY <1>1, AppendProperties
  <2>2. t = s \/ t = Append(s, op.item)
    BY <1>3, <1>6 DEF DoPush
  <2>3. QED BY <1>2, <1>6, <2>1, <2>2 DEF Growing
<1>7. CASE op.do = "get" /\ DoGet(op.at, s, t, a)
  BY <1>2, <1>3, <1>7 DEF DoGet, Growing
<1>8. CASE op.do = "set" /\ DoSet(op.at, op.item, s, t, a)
  <2>1. p \in 1 .. Len(s) => Len([s EXCEPT ![p] = op.item]) = Len(s)
    BY <1>1, ExceptSeq
  <2>2. t = s \/ Len(t) = Len(s)
    BY <1>3, <1>4, <1>5, <1>8, <2>1 DEF DoSet
  <2>3. QED BY <1>2, <1>8, <2>2 DEF Growing
<1>9. CASE op.do = "pop" /\ DoPop(op.at, s, t, a)
  <2>1. p \in 1 .. Len(s) => Len(Without(s, p)) = Len(s) - 1
    BY WithoutIs
  <2>2. t = s \/ (Len(t) = Len(s) - 1 /\ p \in 1 .. Len(s))
    BY <1>3, <1>4, <1>5, <1>9, <2>1 DEF DoPop
  <2>3. QED BY <1>2, <1>9, <2>2 DEF Growing
<1>10. CASE op.do = "insert" /\ DoInsert(op.at, op.item, s, t, a)
  <2>1. PICK q \in 1 .. Len(s) + 1 : q = Within(op.at, Len(s)) + 1
    <3>1. Within(op.at, Len(s)) \in 0 .. Len(s)
      BY <1>1, <1>2, ClampedIs
    <3>2. QED BY <1>2, <3>1
  <2>2. Len(With(s, q, op.item)) = Len(s) + 1
    BY <1>1, WithIs
  <2>3. t = s \/ t = With(s, q, op.item)
    BY <1>3, <1>10, <2>1 DEF DoInsert
  <2>4. QED BY <1>2, <1>10, <2>2, <2>3 DEF Growing
<1>11. CASE op.do = "reverse" /\ DoReverse(s, t, a)
  BY <1>2, <1>11, BackwardsIs DEF DoReverse, Growing
<1>12. CASE op.do = "sort" /\ DoSort(s, t, a)
  <2>1. PICK q \in Bijection(1 .. Len(s), 1 .. Len(s)) : t = Permuted(s, q)
    BY <1>12 DEF DoSort, SortedFrom
  <2>2. q \in [1 .. Len(s) -> 1 .. Len(s)]
    BY DEF Bijection, Injection
  <2>3. QED BY <1>2, <1>12, <2>1, <2>2, PermutedIs DEF Growing
<1>13. CASE op.do = "slice" /\ DoSlice(op.at, op.to, s, t, a)
  BY <1>2, <1>13 DEF DoSlice, Growing
<1>14. CASE op.do = "reversed" /\ DoReversed(s, t, a)
  BY <1>2, <1>14 DEF DoReversed, Growing
<1>15. CASE op.do = "concat" /\ DoConcat(s, t, a)
  BY <1>2, <1>15 DEF DoConcat, Growing
<1>16. CASE op.do = "index_of" /\ DoIndexOf(op.item, s, t, a)
  BY <1>2, <1>16 DEF DoIndexOf, Growing
<1>17. QED
  BY <1>6, <1>7, <1>8, <1>9, <1>10, <1>11, <1>12, <1>13, <1>14, <1>15, <1>16 DEF Does

Counted(L) ==
  /\ Len(L.seen) = L.next /\ L.next <= L.limit
  /\ L.kind = "for" \/ (L.body.do \notin Growing /\ slist.len <= L.limit)

Counting == \A L \in EnteredSet : sloop = <<L>> => Counted(L)

LEMMA TurnIsCounted ==
  ASSUME SxOK, Counting, SxStep
  PROVE  Counting'
<1>1. PICK L \in EnteredSet : sloop = <<L>>
  BY DEF SxOK, LoopOK, SxStep, SxTurn, SxLoopEnd
<1>2. SxLoopEnd => sloop' = << >>
  BY DEF SxLoopEnd
<1>3. CASE sloop' = << >>
  BY <1>3 DEF Counting
<1>4. CASE sloop' # << >>
  <2>1. SxTurn
    BY <1>2, <1>4 DEF SxStep
  <2>2. ArrayOK(slist) /\ SxShown(slist) \in Seq(Items) /\ Len(SxShown(slist)) = slist.len
    BY ShownIs DEF SxOK
  <2>3. L.next < slist.len
    BY <1>1, <1>4, <2>1, <2>2, SxTurnIs
  <2>4. PICK x \in Items : x = SxShown(slist)[L.next + 1]
    BY <1>1, <2>1, <2>2, <2>3, SxTurnIs
  <2>5. /\ L.next < IF L.kind = "for" THEN L.limit ELSE slist.len
        /\ ArrayOK(slist') /\ sloop' = <<Passed(L, x)>>
        /\ Meets(L, SxShown(slist), SxShown(slist'), sret, sret')
    BY <1>1, <1>4, <2>1, <2>2, <2>3, <2>4, SxTurnIs
  <2>6. Counted(L)
    BY <1>1 DEF Counting
  <2>7. PICK M \in EnteredSet : M = Passed(L, x)
    BY <2>4, PassedIs
  <2>8. /\ M.next = L.next + 1 /\ M.limit = L.limit /\ M.kind = L.kind /\ M.body = L.body
        /\ M.seen = Append(L.seen, x)
    BY <2>7, PassedIs
  <2>9. L.next \in Nat /\ L.limit \in Nat /\ L.seen \in Seq(Items) /\ OpFacts(L.body)
    BY EnteredFacts
  <2>10. Len(M.seen) = Len(L.seen) + 1
    BY <2>8, <2>9, AppendProperties
  <2>11. slist.len \in Nat /\ slist'.len \in Nat /\ Len(SxShown(slist')) = slist'.len
    BY <2>2, <2>5, ArrayFacts, ShownIs
  <2>12. L.body.do \notin Growing => slist'.len <= slist.len
    <3>1. CASE x \in L.when
      <4>1. Does(L.body, SxShown(slist), SxShown(slist'), sret')
        BY <2>4, <2>5, <3>1 DEF Meets
      <4>2. QED BY <2>2, <2>9, <2>11, <4>1, Lengths
    <3>2. CASE x \notin L.when
      BY <2>2, <2>4, <2>5, <2>11, <3>2 DEF Meets
    <3>3. QED BY <3>1, <3>2
  <2>13. Len(M.seen) = M.next /\ M.next <= M.limit
    BY <2>5, <2>6, <2>8, <2>9, <2>10, <2>11 DEF Counted
  <2>14. M.kind = "for" \/ (M.body.do \notin Growing /\ slist'.len <= M.limit)
    BY <2>6, <2>8, <2>9, <2>11, <2>12 DEF Counted
  <2>15. sloop' = <<M>>
    BY <2>5, <2>7
  <2>16. QED BY <2>13, <2>14, <2>15 DEF Counting, Counted
<1>5. QED BY <1>3, <1>4

\* A loop of the compiled program has no more turns than the list had elements
\* when it began, unless it is one that reads the length again in every turn
\* and its body makes the list longer.
THEOREM LoopsAreBounded ==
  ASSUME NoneRunsAway
  PROVE  Spec => []TurnsAreBounded
<1>1. Init => Counting
  BY InitOK DEF Init, Counting
<1>2. ASSUME SxOK, GoOK, Counting, [Next]_vars
      PROVE  Counting'
  <2>1. CASE \E op \in Operations : Operate(op)
    BY <1>2, <2>1 DEF Operate, Idle, Counting
  <2>2. CASE \E l \in Loops : Enter(l)
    <3>1. PICK l \in Loops : Enter(l)
      BY <2>2
    <3>2. sloop' = <<Entered(l, slist.len)>> /\ slist' = slist
      BY <1>2, <3>1, EnterOK
    <3>3. l \in LoopSet /\ slist.len \in Nat
      BY <1>2, ProgramAssumption, ArrayFacts DEF SxOK
    <3>4. PICK M \in EnteredSet :
            /\ M = Entered(l, slist.len) /\ M.next = 0 /\ M.limit = slist.len
            /\ M.kind = l.kind /\ M.body = l.body /\ M.seen = << >>
      BY <3>3, EnteredIs
    <3>5. Len(M.seen) = 0
      BY <3>4
    <3>6. QED BY <3>2, <3>3, <3>4, <3>5 DEF Counting, Counted, NoneRunsAway
  <2>3. CASE SxStep
    BY <1>2, <2>3, TurnIsCounted
  <2>4. CASE GoStep
    BY <2>4 DEF GoStep, sxVars, Counting
  <2>5. CASE UNCHANGED vars
    BY <1>2, <2>5 DEF vars, Counting, Counted
  <2>6. QED BY <1>2, <2>1, <2>2, <2>3, <2>4, <2>5 DEF Next
<1>3. ASSUME SxOK, Counting PROVE TurnsAreBounded
  BY <1>3 DEF SxOK, LoopOK, Counting, Counted, TurnsAreBounded
<1>4. QED BY <1>1, <1>2, <1>3, SpecIsSafe, BothOK, PTL DEF Safe

-----------------------------------------------------------------------------
(* Loops whose bodies cannot fail.                                         *)

LEMMA BodySucceeds ==
  ASSUME NEW s \in Seq(Items), NEW t, NEW a, NEW L \in EnteredSet, CannotFail(L),
         Does(L.body, s, t, a), Len(s) >= 1,
         L.body.do \in Growing => Len(s) # MaxLen
  PROVE  a # Failed
<1>1. PICK op : op = L.body
  OBVIOUS
<1>2. OpFacts(op) /\ Does(op, s, t, a)
  BY <1>1, EnteredFacts
<1>3. Len(s) \in Nat
  BY LenProperties
<1>4. /\ \A u : AnswersList(u, a) => a # Failed
      /\ \A x : AnswersItem(x, a) => a # Failed
      /\ \A x : DoIndexOf(x, s, t, a) => a # Failed
  BY DEF AnswersList, AnswersItem, DoIndexOf, Failed, Answer
<1>5. op.at \in {-1, 0} => At(op.at, Len(s)) \in 0 .. Len(s) - 1
  BY <1>3 DEF At
<1>6. CASE op.do \in Growing
  BY <1>1, <1>2, <1>4, <1>6 DEF Growing, Does, DoPush, DoInsert
<1>7. CASE op.do \in {"get", "set", "pop"}
  <2>1. At(op.at, Len(s)) \in 0 .. Len(s) - 1
    BY <1>1, <1>5, <1>7 DEF CannotFail, Growing
  <2>2. QED BY <1>2, <1>4, <1>7, <2>1 DEF Does, DoGet, DoSet, DoPop
<1>8. CASE op.do \notin Growing \cup {"get", "set", "pop"}
  BY <1>2, <1>4, <1>8 DEF Growing, Does, DoReverse, DoSort, DoSlice, DoReversed, DoConcat
<1>9. QED BY <1>6, <1>7, <1>8

\* A for statement finds at every index that it goes to an element, and there
\* is room for what its body adds.
HasRoom(L) ==
  /\ CannotFail(L)
  /\ L.kind = "for" => L.limit <= slist.len
  /\ L.body.do \in Growing =>
       slist.len <= L.limit + L.next /\ L.limit + L.limit <= MaxLen

Succeeding ==
  \A L \in EnteredSet : sloop = <<L>> => HasRoom(L) /\ sret # Failed

\* What a turn of such a loop does.
LEMMA TurnSucceeds ==
  ASSUME SxOK, NEW L \in EnteredSet, sloop = <<L>>, HasRoom(L), sret # Failed, SxTurn
  PROVE  /\ sret' # Failed
         /\ \E M \in EnteredSet :
              sloop' = <<M>> /\ HasRoom(M)'
<1>1. ArrayOK(slist) /\ SxShown(slist) \in Seq(Items) /\ Len(SxShown(slist)) = slist.len
  BY ShownIs DEF SxOK
<1>2. slist.len \in Nat /\ L.next \in Nat /\ L.limit \in Nat /\ OpFacts(L.body) /\ MaxLen \in Nat
  BY <1>1, ArrayFacts, EnteredFacts, ItemsAssumption
<1>3. L.next < IF L.kind = "for" THEN L.limit ELSE slist.len
  BY <1>1, SxTurnIs
<1>4. L.next < slist.len
  BY <1>2, <1>3 DEF HasRoom
<1>5. PICK x \in Items : x = SxShown(slist)[L.next + 1]
  BY <1>1, <1>4, SxTurnIs
<1>6. /\ ArrayOK(slist')
      /\ Meets(L, SxShown(slist), SxShown(slist'), sret, sret')
      /\ sloop' = IF sret' = Failed THEN << >> ELSE <<Passed(L, x)>>
  BY <1>1, <1>4, <1>5, SxTurnIs
<1>7. L.body.do \in Growing => L.kind = "for" /\ L.next < L.limit /\ slist.len # MaxLen
  <2>1. L.body.do \in Growing => L.kind = "for"
    BY DEF HasRoom, CannotFail, Growing
  <2>2. QED BY <1>2, <1>3, <2>1 DEF HasRoom
<1>8. sret' # Failed
  <2>1. CASE x \in L.when
    <3>1. Does(L.body, SxShown(slist), SxShown(slist'), sret')
      BY <1>5, <1>6, <2>1 DEF Meets
    <3>2. Len(SxShown(slist)) >= 1
      BY <1>1, <1>2, <1>4
    <3>3. CannotFail(L)
      BY DEF HasRoom
    <3>4. QED BY <1>1, <1>7, <3>1, <3>2, <3>3, BodySucceeds
  <2>2. CASE x \notin L.when
    BY <1>5, <1>6, <2>2 DEF Meets
  <2>3. QED BY <2>1, <2>2
<1>9. Len(SxShown(slist')) = slist'.len /\ slist'.len \in Nat
  BY <1>6, ShownIs, ArrayFacts
<1>10. /\ L.body.do \in Growing => slist'.len <= slist.len + 1
       /\ L.kind = "for" => slist'.len >= slist.len
  <2>1. CASE x \in L.when
    <3>1. Does(L.body, SxShown(slist), SxShown(slist'), sret')
      BY <1>5, <1>6, <2>1 DEF Meets
    <3>2. /\ L.body.do \in Growing => slist'.len <= slist.len + 1 /\ slist'.len >= slist.len
          /\ L.body.do \notin Growing \cup {"pop"} => slist'.len = slist.len
      BY <1>1, <1>2, <1>9, <3>1, Lengths
    <3>3. L.kind = "for" => L.body.do # "pop"
      BY DEF HasRoom, CannotFail, Growing
    <3>4. QED BY <1>2, <1>9, <3>2, <3>3
  <2>2. CASE x \notin L.when
    <3>1. slist'.len = slist.len
      BY <1>1, <1>5, <1>6, <1>9, <2>2 DEF Meets
    <3>2. QED BY <1>2, <3>1
  <2>3. QED BY <2>1, <2>2
<1>11. PICK M \in EnteredSet :
         /\ M = Passed(L, x) /\ M.next = L.next + 1 /\ M.limit = L.limit
         /\ M.kind = L.kind /\ M.body = L.body
  BY PassedIs
<1>12. sloop' = <<M>>
  BY <1>6, <1>8, <1>11
<1>13. CannotFail(M)
  BY <1>11 DEF HasRoom, CannotFail
<1>14. M.kind = "for" => M.limit <= slist'.len
  BY <1>2, <1>9, <1>10, <1>11 DEF HasRoom
<1>15. M.body.do \in Growing =>
         slist'.len <= M.limit + M.next /\ M.limit + M.limit <= MaxLen
  BY <1>2, <1>9, <1>10, <1>11 DEF HasRoom
<1>16. QED BY <1>8, <1>12, <1>13, <1>14, <1>15 DEF HasRoom

LEMMA SucceedingInd ==
  ASSUME NoneFails, SxOK, GoOK, Succeeding, [Next]_vars
  PROVE  /\ Succeeding'
         /\ \A i \in DOMAIN sloop : sloop' = << >> => sret' # Failed
<1>1. CASE sloop = << >> /\ (\E op \in Operations : Operate(op))
  BY <1>1 DEF Operate, Succeeding
<1>2. CASE sloop = << >> /\ (\E l \in Loops : Enter(l))
  <2>1. PICK l \in Loops : Enter(l)
    BY <1>2
  <2>2. sloop' = <<Entered(l, slist.len)>> /\ slist' = slist /\ sret' = Nothing
    BY <2>1, EnterOK
  <2>3. l \in LoopSet /\ slist.len \in Nat /\ MaxLen \in Nat
    BY ProgramAssumption, ArrayFacts, ItemsAssumption DEF SxOK
  <2>4. PICK M \in EnteredSet :
          /\ M = Entered(l, slist.len) /\ M.next = 0 /\ M.limit = slist.len
          /\ M.kind = l.kind /\ M.body = l.body
    BY <2>3, EnteredIs
  <2>5. CannotFail(l) /\ Fits(l.body, slist.len)
    BY <2>1 DEF NoneFails, Enter
  <2>6. CannotFail(M)
    BY <2>4, <2>5 DEF CannotFail
  <2>7. HasRoom(M)'
    BY <2>2, <2>3, <2>4, <2>5, <2>6 DEF HasRoom, Fits
  <2>8. QED BY <1>2, <2>2, <2>4, <2>7, NothingIs DEF Succeeding
<1>3. CASE SxStep
  <2>1. PICK L \in EnteredSet : sloop = <<L>>
    BY <1>3 DEF SxOK, LoopOK, SxStep, SxTurn, SxLoopEnd
  <2>2. HasRoom(L) /\ sret # Failed
    BY <2>1 DEF Succeeding
  <2>3. CASE SxTurn
    <3>1. sret' # Failed /\ \E M \in EnteredSet : sloop' = <<M>> /\ HasRoom(M)'
      BY <2>1, <2>2, <2>3, TurnSucceeds
    <3>2. QED BY <3>1 DEF Succeeding
  <2>4. CASE SxLoopEnd
    <3>1. sret' = LoopAnswer(L) /\ sloop' = << >>
      BY <2>1, <2>4 DEF SxLoopEnd, SxLoop
    <3>2. QED BY <3>1, LoopAnswered DEF Succeeding
  <2>5. QED BY <1>3, <2>3, <2>4 DEF SxStep
<1>4. CASE sloop = << >> /\ GoStep
  BY <1>4 DEF GoStep, sxVars, Succeeding
<1>5. CASE UNCHANGED vars
  BY <1>5 DEF vars, Succeeding, HasRoom
<1>6. QED BY <1>1, <1>2, <1>3, <1>4, <1>5 DEF Next, Operate, Enter, Idle, GoStep

\* A loop of the compiled program whose body cannot fail does not fail either:
\* it meets no element that is not there any more, and no full memory.
THEOREM LoopsGoThrough ==
  ASSUME NoneFails
  PROVE  Spec => LoopsSucceed
<1>1. Init => Succeeding
  BY InitOK DEF Init, Succeeding
<1>2. SxOK /\ GoOK /\ Succeeding /\ [Next]_vars => Succeeding'
  BY SucceedingInd
<1>3. SxOK /\ GoOK /\ Succeeding /\ [Next]_vars =>
        [\A i \in DOMAIN sloop : sloop' = << >> => sret' # Failed]_vars
  BY SucceedingInd
<1>4. QED BY <1>1, <1>2, <1>3, SpecIsSafe, BothOK, PTL DEF Safe, LoopsSucceed

-----------------------------------------------------------------------------
(* The array of the C runtime is an ordered list.                          *)

\* What an operation does, as the ordered list names it.
Wrote(s, t) == \E i \in DOMAIN s, x \in Items : t = [s EXCEPT ![i] = x]
Widens(s, t) == \E i \in 1 .. Len(s) + 1, x \in Items : t = With(s, i, x)
Narrows(s, t) == \E i \in DOMAIN s : t = Without(s, i)
Moves(s, t) ==
  \E p \in Bijection(DOMAIN s, DOMAIN s) : t = [i \in DOMAIN s |-> s[p[i]]]

LEMMA AppendWidens ==
  ASSUME NEW s \in Seq(Items), NEW x \in Items
  PROVE  Widens(s, Append(s, x))
<1>1. PICK n \in Nat : n = Len(s)
  BY LenProperties
<1>2. PICK m \in 1 .. Len(s) + 1 : m = n + 1
  BY <1>1
<1>3. /\ With(s, m, x) \in Seq(Items) /\ Len(With(s, m, x)) = n + 1
      /\ \A j \in 1 .. n + 1 :
           With(s, m, x)[j] = IF j < m THEN s[j] ELSE IF j = m THEN x ELSE s[j - 1]
  <2>1. /\ With(s, m, x) \in Seq(Items) /\ Len(With(s, m, x)) = Len(s) + 1
        /\ \A j \in 1 .. Len(s) + 1 :
             With(s, m, x)[j] = IF j < m THEN s[j] ELSE IF j = m THEN x ELSE s[j - 1]
    BY WithIs
  <2>2. QED BY <1>1, <2>1
<1>4. /\ Append(s, x) \in Seq(Items) /\ Len(Append(s, x)) = n + 1
      /\ \A j \in 1 .. n : Append(s, x)[j] = s[j]
      /\ Append(s, x)[n + 1] = x
  BY <1>1, AppendProperties
<1>5. ASSUME NEW j \in 1 .. n + 1 PROVE Append(s, x)[j] = With(s, m, x)[j]
  <2>1. CASE j = n + 1
    BY <1>2, <1>3, <1>4, <2>1
  <2>2. CASE j # n + 1
    <3>1. j \in 1 .. n /\ j < m
      BY <1>2, <2>2
    <3>2. QED BY <1>3, <1>4, <3>1
  <2>3. QED BY <2>1, <2>2
<1>6. Append(s, x) = With(s, m, x)
  BY <1>3, <1>4, <1>5, SeqEqual
<1>7. QED BY <1>6 DEF Widens

LEMMA PermutedMoves ==
  ASSUME NEW s \in Seq(Items), NEW p \in Bijection(1 .. Len(s), 1 .. Len(s))
  PROVE  Moves(s, Permuted(s, p))
<1>1. DOMAIN s = 1 .. Len(s)
  BY LenProperties
<1>2. Permuted(s, p) = [i \in DOMAIN s |-> s[p[i]]]
  BY <1>1 DEF Permuted
<1>3. QED BY <1>1, <1>2 DEF Moves

LEMMA BackwardsMoves ==
  ASSUME NEW s \in Seq(Items)
  PROVE  Moves(s, Backwards(s))
<1>1. PICK n \in Nat : n = Len(s)
  BY LenProperties
<1>2. PICK p : p = [j \in 1 .. n |-> n + 1 - j]
  OBVIOUS
<1>3. p \in [1 .. n -> 1 .. n] /\ \A j \in 1 .. n : p[j] = n + 1 - j
  BY <1>2
<1>4. \A i, j \in 1 .. n : p[i] = p[j] => i = j
  BY <1>3
<1>5. p \in Bijection(1 .. n, 1 .. n)
  BY <1>3, <1>4, InjectionCovers
<1>6. Backwards(s) = Permuted(s, p)
  BY <1>1, <1>3 DEF Backwards, Permuted
<1>7. QED BY <1>1, <1>5, <1>6, PermutedMoves

LEMMA DoesOneThing ==
  ASSUME NEW s \in Seq(Items), NEW t, NEW a, NEW op, OpFacts(op), Does(op, s, t, a)
  PROVE  t = s \/ Wrote(s, t) \/ Widens(s, t) \/ Narrows(s, t) \/ Moves(s, t)
<1>1. op.at \in Int /\ op.to \in Int /\ op.item \in Items
  BY DEF OpFacts
<1>2. Len(s) \in Nat /\ DOMAIN s = 1 .. Len(s)
  BY LenProperties
<1>3. ASSUME Fails(s, t, a) PROVE t = s
  BY <1>3 DEF Fails
<1>4. PICK p : p = At(op.at, Len(s)) + 1
  OBVIOUS
<1>5. At(op.at, Len(s)) \in 0 .. Len(s) - 1 => p \in DOMAIN s
  BY <1>2, <1>4
<1>6. CASE op.do = "push" /\ DoPush(op.item, s, t, a)
  BY <1>1, <1>3, <1>6, AppendWidens DEF DoPush
<1>7. CASE op.do = "set" /\ DoSet(op.at, op.item, s, t, a)
  <2>1. t = s \/ (p \in DOMAIN s /\ t = [s EXCEPT ![p] = op.item])
    BY <1>3, <1>4, <1>5, <1>7 DEF DoSet
  <2>2. QED BY <1>1, <2>1 DEF Wrote
<1>8. CASE op.do = "pop" /\ DoPop(op.at, s, t, a)
  <2>1. t = s \/ (p \in DOMAIN s /\ t = Without(s, p))
    BY <1>3, <1>4, <1>5, <1>8 DEF DoPop
  <2>2. QED BY <2>1 DEF Narrows
<1>9. CASE op.do = "insert" /\ DoInsert(op.at, op.item, s, t, a)
  <2>1. PICK q \in 1 .. Len(s) + 1 : q = Within(op.at, Len(s)) + 1
    <3>1. Within(op.at, Len(s)) \in 0 .. Len(s)
      BY <1>1, <1>2, ClampedIs
    <3>2. QED BY <1>2, <3>1
  <2>2. t = s \/ t = With(s, q, op.item)
    BY <1>3, <1>9, <2>1 DEF DoInsert
  <2>3. QED BY <1>1, <2>2 DEF Widens
<1>10. CASE op.do = "reverse" /\ DoReverse(s, t, a)
  BY <1>10, BackwardsMoves DEF DoReverse
<1>11. CASE op.do = "sort" /\ DoSort(s, t, a)
  BY <1>11, PermutedMoves DEF DoSort, SortedFrom
<1>12. CASE op.do \notin Growing \cup {"set", "pop", "reverse", "sort"}
  BY <1>3, <1>12 DEF Growing, Does, DoGet, DoSlice, DoReversed, DoConcat, DoIndexOf
<1>13. QED
  BY <1>6, <1>7, <1>8, <1>9, <1>10, <1>11, <1>12 DEF Does, Growing

LEMMA MeetsOneThing ==
  ASSUME NEW L \in EnteredSet, NEW s \in Seq(Items), NEW t, NEW r, NEW a,
         Meets(L, s, t, r, a)
  PROVE  t = s \/ Wrote(s, t) \/ Widens(s, t) \/ Narrows(s, t) \/ Moves(s, t)
BY EnteredFacts, DoesOneThing DEF Meets

\* A step of the ordered list from what the program saw to what it sees.
LEMMA AbstractStep ==
  ASSUME LET s == SxShown(slist)
             t == SxShown(slist)'
         IN  t = s \/ Wrote(s, t) \/ Widens(s, t) \/ Narrows(s, t) \/ Moves(s, t)
  PROVE  [Abstract!Next]_(SxShown(slist))
<1>1. CASE Wrote(SxShown(slist), SxShown(slist)')
  BY <1>1 DEF Wrote, Abstract!Next, Abstract!Write
<1>2. CASE Widens(SxShown(slist), SxShown(slist)')
  BY <1>2 DEF Widens, With, Abstract!Next, Abstract!Insert, Abstract!Widened
<1>3. CASE Narrows(SxShown(slist), SxShown(slist)')
  BY <1>3 DEF Narrows, Without, Abstract!Next, Abstract!Remove
<1>4. CASE Moves(SxShown(slist), SxShown(slist)')
  BY <1>4 DEF Moves, Abstract!Next, Abstract!Rearrange, Bijection, Injection, Surjection,
     IsInjective, Abstract!Bijection, Abstract!Injection, Abstract!Surjection, Abstract!IsInjective
<1>5. QED BY <1>1, <1>2, <1>3, <1>4

\* Growing, shifting, reversing and sorting the array of the C runtime writes
\* one place of an ordered list, makes or closes one gap of it, or puts its
\* values in another order: none is lost, and none comes up twice.
THEOREM ArrayIsOrderedList == Spec => ImplementsOrderedList
<1>1. Init => Abstract!Init
  BY InitOK, ProgramAssumption DEF Init, Abstract!Init
<1>2. ASSUME SxOK, GoOK, [Next]_vars
      PROVE  [Abstract!Next]_(SxShown(slist))
  <2>1. SxShown(slist) \in Seq(Items)
    BY <1>2, ShownIs DEF SxOK
  <2>2. CASE \E op \in Operations : Operate(op)
    <3>1. PICK op \in Operations : Operate(op)
      BY <2>2
    <3>2. OpFacts(op) /\ Does(op, SxShown(slist), SxShown(slist'), sret')
      BY <1>2, <3>1, OperateOK, ProgramAssumption DEF OperationSet, OpFacts
    <3>3. QED BY <2>1, <3>2, DoesOneThing, AbstractStep
  <2>3. CASE SxTurn
    <3>1. PICK L \in EnteredSet : sloop = <<L>>
      BY <1>2, <2>3 DEF SxOK, LoopOK, SxTurn
    <3>2. slist' = slist \/ Meets(L, SxShown(slist), SxShown(slist'), sret, sret')
      BY <1>2, <2>3, <3>1, SxTurnIs DEF SxOK
    <3>3. QED BY <2>1, <3>2, MeetsOneThing, AbstractStep
  <2>4. CASE slist' = slist
    BY <2>4, AbstractStep
  <2>5. QED BY <1>2, <2>2, <2>3, <2>4 DEF Next, Enter, SxStart, SxStep, SxLoopEnd,
         GoStep, sxVars, vars
<1>3. QED BY <1>1, <1>2, SpecIsSafe, BothOK, PTL DEF Safe, ImplementsOrderedList, Abstract!Spec

-----------------------------------------------------------------------------
(* Both engines do the same.                                               *)

LEMMA DoesOneWay ==
  ASSUME NEW s \in Seq(Items), NEW t, NEW a, NEW u, NEW b, NEW op,
         Settled(op), Does(op, s, t, a), Does(op, s, u, b)
  PROVE  t = u /\ a = b
<1>1. ASSUME Fails(s, t, a), Fails(s, u, b) PROVE t = u /\ a = b
  BY <1>1 DEF Fails
<1>2. ASSUME NEW v, AnswersList(v, a), AnswersList(v, b) PROVE a = b
  BY <1>2 DEF AnswersList
<1>3. ASSUME NEW x, AnswersItem(x, a), AnswersItem(x, b) PROVE a = b
  BY <1>3 DEF AnswersItem
<1>4. CASE op.do = "push"
  BY <1>1, <1>2, <1>4 DEF Does, DoPush
<1>5. CASE op.do = "get"
  BY <1>1, <1>3, <1>5 DEF Does, DoGet
<1>6. CASE op.do = "set"
  BY <1>1, <1>3, <1>6 DEF Does, DoSet
<1>7. CASE op.do = "pop"
  BY <1>1, <1>3, <1>7 DEF Does, DoPop
<1>8. CASE op.do = "insert"
  BY <1>1, <1>2, <1>8 DEF Does, DoInsert
<1>9. CASE op.do = "reverse"
  BY <1>2, <1>9 DEF Does, DoReverse
<1>10. CASE op.do = "sort"
  <2>1. NoTies /\ SortedFrom(s, t) /\ SortedFrom(s, u)
    BY <1>10 DEF Does, DoSort, Settled
  <2>2. t = u
    BY <2>1, SortedOnce
  <2>3. AnswersList(t, a) /\ AnswersList(u, b)
    BY <1>10 DEF Does, DoSort
  <2>4. QED BY <1>2, <2>2, <2>3
<1>11. CASE op.do = "slice"
  BY <1>2, <1>11 DEF Does, DoSlice
<1>12. CASE op.do = "reversed"
  BY <1>2, <1>12 DEF Does, DoReversed
<1>13. CASE op.do = "concat"
  BY <1>2, <1>13 DEF Does, DoConcat
<1>14. CASE op.do = "index_of"
  BY <1>14 DEF Does, DoIndexOf
<1>15. QED
  BY <1>4, <1>5, <1>6, <1>7, <1>8, <1>9, <1>10, <1>11, <1>12, <1>13, <1>14 DEF Does

\* Where an engine is in a loop, a turn from one such place to the next, and
\* how a loop ends.
Conf(s, r, L) == [list |-> s, ret |-> r, loop |-> L]

Turn(c, d) ==
  /\ c.loop.next < c.loop.limit /\ d = Conf(d.list, d.ret, d.loop)
  /\ Meets(c.loop, c.list, d.list, c.ret, d.ret) /\ d.ret # Failed
  /\ d.loop = Passed(c.loop, c.list[c.loop.next + 1])

Final(c, s, r) ==
  \/ /\ c.loop.next < c.loop.limit
     /\ Meets(c.loop, c.list, s, c.ret, r) /\ r = Failed
  \/ ~(c.loop.next < c.loop.limit) /\ s = c.list /\ r = LoopAnswer(c.loop)

\* Some turns lead from c to d.
Leads(c, d) ==
  \E n \in Nat : \E T :
    T[1] = c /\ T[n + 1] = d /\ \A k \in 1 .. n : Turn(T[k], T[k + 1])

LEMMA LeadsToItself == ASSUME NEW c PROVE Leads(c, c)
<1>1. PICK T : T = [k \in 1 .. 1 |-> c]
  OBVIOUS
<1>2. T[1] = c /\ T[0 + 1] = c
  BY <1>1
<1>3. \A k \in 1 .. 0 : Turn(T[k], T[k + 1])
  OBVIOUS
<1>4. QED BY <1>2, <1>3 DEF Leads

LEMMA LeadsOn ==
  ASSUME NEW c, NEW d, NEW e, Leads(c, d), Turn(d, e)
  PROVE  Leads(c, e)
<1>0. PICK n \in Nat :
        \E T : T[1] = c /\ T[n + 1] = d /\ \A k \in 1 .. n : Turn(T[k], T[k + 1])
  BY DEF Leads
<1>1. PICK T :
        T[1] = c /\ T[n + 1] = d /\ \A k \in 1 .. n : Turn(T[k], T[k + 1])
  BY <1>0
<1>2. PICK U : U = [k \in 1 .. n + 2 |-> IF k = n + 2 THEN e ELSE T[k]]
  OBVIOUS
<1>3. U[n + 2] = e /\ \A k \in 1 .. n + 1 : U[k] = T[k]
  BY <1>2
<1>4. ASSUME NEW k \in 1 .. n + 1 PROVE Turn(U[k], U[k + 1])
  <2>1. CASE k = n + 1
    <3>1. U[k] = d /\ k + 1 = n + 2
      BY <1>1, <1>3, <2>1
    <3>2. QED BY <1>3, <3>1
  <2>2. CASE k # n + 1
    <3>1. k \in 1 .. n /\ k + 1 \in 1 .. n + 1
      BY <2>2
    <3>2. U[k] = T[k] /\ U[k + 1] = T[k + 1]
      BY <1>3, <3>1
    <3>3. QED BY <1>1, <3>1, <3>2
  <2>3. QED BY <2>1, <2>2
<1>5. U[1] = c /\ n + 1 \in Nat /\ U[(n + 1) + 1] = e
  <2>1. 1 \in 1 .. n + 1 /\ (n + 1) + 1 = n + 2
    OBVIOUS
  <2>2. QED BY <1>1, <1>3, <2>1
<1>6. QED BY <1>4, <1>5 DEF Leads

LEMMA LeadsFirst ==
  ASSUME NEW c, NEW d, Leads(c, d)
  PROVE  c = d \/ \E e : Turn(c, e) /\ Leads(e, d)
<1>0. PICK n \in Nat :
        \E T : T[1] = c /\ T[n + 1] = d /\ \A k \in 1 .. n : Turn(T[k], T[k + 1])
  BY DEF Leads
<1>1. PICK T :
        T[1] = c /\ T[n + 1] = d /\ \A k \in 1 .. n : Turn(T[k], T[k + 1])
  BY <1>0
<1>2. CASE n = 0
  BY <1>1, <1>2
<1>3. CASE n # 0
  <2>1. PICK m \in Nat : n = m + 1
    BY <1>3
  <2>2. PICK U : U = [k \in 1 .. n |-> T[k + 1]]
    OBVIOUS
  <2>3. \A k \in 1 .. n : U[k] = T[k + 1]
    BY <2>2
  <2>4. ASSUME NEW k \in 1 .. m PROVE Turn(U[k], U[k + 1])
    <3>1. PICK j : j = k + 1
      OBVIOUS
    <3>2. k \in 1 .. n /\ j \in 1 .. n
      BY <2>1, <3>1
    <3>3. U[k] = T[j] /\ U[j] = T[j + 1]
      BY <2>3, <3>1, <3>2
    <3>4. QED BY <1>1, <3>1, <3>2, <3>3
  <2>5. 1 \in 1 .. n /\ n \in 1 .. n /\ 1 + 1 = 2
    BY <1>3
  <2>6. U[1] = T[2] /\ U[m + 1] = d /\ Turn(c, T[2])
    BY <1>1, <2>1, <2>3, <2>5
  <2>7. Leads(T[2], d)
    BY <2>4, <2>6 DEF Leads
  <2>8. QED BY <2>6, <2>7
<1>4. QED BY <1>2, <1>3

SxConf(L) == Conf(SxShown(slist), sret, L)
GoConf(G) == Conf(SxShown(glist), gret, G)

\* A loop has an element for each of its turns; all loops but for count them
\* anew, and come to as many.
SxGood(L) ==
  /\ AlikeLoop(L) /\ sret # Failed
  /\ L.limit <= slist.len /\ (L.kind # "for" => slist.len = L.limit)

\* What a header shows is still in the list at the same place.
GoGood(G) ==
  /\ AlikeLoop(G) /\ gret \notin {Failed, Panicked}
  /\ G.limit <= glist.len
  /\ \A i \in 1 .. G.limit : Viewed[i] = glist.items[i]
  /\ gview.shared \/ G.body.do = "push"

\* Together: the engines agree between two statements.  Inside a loop the
\* compiled program is some turns ahead of the interpreter; when it is done,
\* these turns still lead the interpreter to where the compiled program ended.
Together ==
  /\ sloop = << >> /\ gloop = << >>
  /\ sret = gret /\ SxShown(slist) = SxShown(glist)

Ahead ==
  \E L \in EnteredSet, G \in EnteredSet :
    /\ sloop = <<L>> /\ gloop = <<G>> /\ SxGood(L) /\ GoGood(G)
    /\ Leads(GoConf(G), SxConf(L))

Done ==
  \E G \in EnteredSet :
    /\ sloop = << >> /\ gloop = <<G>> /\ GoGood(G)
    /\ \E d : Leads(GoConf(G), d) /\ Final(d, SxShown(slist), sret)

Alike == Together \/ Ahead \/ Done

LEMMA SxTurnAlike ==
  ASSUME SxOK, NEW L \in EnteredSet, sloop = <<L>>, SxGood(L), SxTurn
  PROVE  \/ \E M \in EnteredSet : sloop' = <<M>> /\ SxGood(M)' /\ Turn(SxConf(L), SxConf(M)')
         \/ sloop' = << >> /\ Final(SxConf(L), SxShown(slist'), sret')
<1>1. ArrayOK(slist) /\ SxShown(slist) \in Seq(Items) /\ Len(SxShown(slist)) = slist.len
  BY ShownIs DEF SxOK
<1>2. slist.len \in Nat /\ L.next \in Nat /\ L.limit \in Nat /\ OpFacts(L.body)
  BY <1>1, ArrayFacts, EnteredFacts
<1>3. L.next < IF L.kind = "for" THEN L.limit ELSE slist.len
  BY <1>1, SxTurnIs
<1>4. L.next < L.limit /\ L.next < slist.len
  BY <1>2, <1>3 DEF SxGood
<1>5. PICK x \in Items : x = SxShown(slist)[L.next + 1]
  BY <1>1, <1>4, SxTurnIs
<1>6. /\ ArrayOK(slist')
      /\ Meets(L, SxShown(slist), SxShown(slist'), sret, sret')
      /\ sloop' = IF sret' = Failed THEN << >> ELSE <<Passed(L, x)>>
  BY <1>1, <1>4, <1>5, SxTurnIs
<1>7. CASE sret' = Failed
  BY <1>4, <1>6, <1>7 DEF Final, SxConf, Conf
<1>8. CASE sret' # Failed
  <2>1. PICK M \in EnteredSet :
          /\ M = Passed(L, x) /\ M.limit = L.limit /\ M.kind = L.kind /\ M.body = L.body
    BY PassedIs
  <2>2. Len(SxShown(slist')) = slist'.len /\ slist'.len \in Nat
    BY <1>6, ShownIs, ArrayFacts
  <2>3. /\ slist'.len >= slist.len
        /\ L.kind # "for" => slist'.len = slist.len
    <3>1. CASE x \in L.when
      <4>1. Does(L.body, SxShown(slist), SxShown(slist'), sret')
        BY <1>5, <1>6, <3>1 DEF Meets
      <4>2. /\ L.body.do \in Growing => slist'.len >= slist.len
            /\ L.body.do \notin Growing \cup {"pop"} => slist'.len = slist.len
        BY <1>1, <1>2, <2>2, <4>1, Lengths
      <4>3. \/ L.body.do \notin Growing \cup {"pop"}
            \/ L.kind = "for" /\ L.body.do \in Growing
        BY DEF SxGood, AlikeLoop, Growing
      <4>4. QED BY <1>2, <2>2, <4>2, <4>3
    <3>2. CASE x \notin L.when
      <4>1. slist'.len = slist.len
        BY <1>1, <1>5, <1>6, <2>2, <3>2 DEF Meets
      <4>2. QED BY <1>2, <4>1
    <3>3. QED BY <3>1, <3>2
  <2>4. AlikeLoop(M)
    BY <2>1 DEF SxGood, AlikeLoop
  <2>5. M.limit <= slist'.len /\ (M.kind # "for" => slist'.len = M.limit)
    BY <1>2, <2>1, <2>2, <2>3 DEF SxGood
  <2>6. SxGood(M)'
    BY <1>8, <2>4, <2>5 DEF SxGood
  <2>7. Turn(SxConf(L), SxConf(M)')
    BY <1>4, <1>5, <1>6, <1>8, <2>1 DEF Turn, SxConf, Conf
  <2>8. sloop' = <<M>>
    BY <1>6, <1>8, <2>1
  <2>9. QED BY <2>6, <2>7, <2>8
<1>9. QED BY <1>7, <1>8

LEMMA SxEndAlike ==
  ASSUME SxOK, NEW L \in EnteredSet, sloop = <<L>>, SxGood(L), SxLoopEnd
  PROVE  sloop' = << >> /\ Final(SxConf(L), SxShown(slist'), sret')
<1>1. slist.len \in Nat /\ L.next \in Nat /\ L.limit \in Nat
  BY ArrayFacts, EnteredFacts DEF SxOK
<1>2. /\ ~(L.next < IF L.kind = "for" THEN L.limit ELSE slist.len)
      /\ sret' = LoopAnswer(L) /\ sloop' = << >> /\ slist' = slist
  BY DEF SxLoopEnd, SxGoesOn, SxLoop
<1>3. ~(L.next < L.limit)
  BY <1>1, <1>2 DEF SxGood
<1>4. QED BY <1>2, <1>3 DEF Final, SxConf, Conf

LEMMA MeetsOneWay ==
  ASSUME NEW L \in EnteredSet, AlikeLoop(L), NEW s \in Seq(Items), NEW r,
         NEW t, NEW a, NEW u, NEW b, Meets(L, s, t, r, a), Meets(L, s, u, r, b)
  PROVE  t = u /\ a = b
BY DoesOneWay DEF Meets, AlikeLoop, AlikeOp

LEMMA GoTurnAlike ==
  ASSUME GoOK, NEW G \in EnteredSet, gloop = <<G>>, GoGood(G), GoTurn
  PROVE  /\ G.next < G.limit
         /\ Meets(G, SxShown(glist), SxShown(glist'), gret, gret') /\ gret' # Panicked
         /\ gret' = Failed => gloop' = << >>
         /\ gret' # Failed =>
              \E M \in EnteredSet :
                /\ M = Passed(G, SxShown(glist)[G.next + 1])
                /\ gloop' = <<M>> /\ GoGood(M)'
<1>1. ArrayOK(glist) /\ gret.items \in Seq(Items) /\ Written(Viewed, G.limit)
  BY DEF GoOK
<1>2. /\ SxShown(glist) \in Seq(Items) /\ Len(SxShown(glist)) = glist.len
      /\ \A i \in 1 .. glist.len : SxShown(glist)[i] = glist.items[i]
      /\ glist.len \in Nat /\ G.next \in Nat /\ G.limit \in Nat /\ OpFacts(G.body)
  BY <1>1, ShownIs, ArrayFacts, EnteredFacts
<1>3. PICK x \in Items : x = Viewed[G.next + 1]
  BY <1>1, GoTurnIs
<1>4. /\ G.next < G.limit /\ GoKeeps /\ (GoLeaves(G.body) \/ gview' = gview)
      /\ gloop' = IF gret' \in {Failed, Panicked} THEN << >> ELSE <<Passed(G, x)>>
      /\ IF x \in G.when
         THEN AgreeOn(G.body) => Does(G.body, SxShown(glist), SxShown(glist'), gret')
         ELSE glist' = glist /\ gret' = gret
  BY <1>1, <1>3, GoTurnIs
<1>5. x = SxShown(glist)[G.next + 1]
  <2>1. PICK i \in 1 .. G.limit : i = G.next + 1
    BY <1>2, <1>4
  <2>2. i \in 1 .. glist.len
    BY <1>2 DEF GoGood
  <2>3. QED BY <1>2, <1>3, <2>1, <2>2 DEF GoGood
<1>6. AgreeOn(G.body)
  BY DEF GoGood, AlikeLoop, AlikeOp
<1>7. Meets(G, SxShown(glist), SxShown(glist'), gret, gret')
  BY <1>4, <1>5, <1>6 DEF Meets
<1>8. gret' # Panicked
  BY <1>4, <1>6, NeverPanics DEF GoGood
<1>9. ArrayOK(glist')
  BY <1>4 DEF GoKeeps
<1>10. /\ Len(SxShown(glist')) = glist'.len /\ glist'.len \in Nat
       /\ \A i \in 1 .. glist'.len : SxShown(glist')[i] = glist'.items[i]
  BY <1>9, ShownIs, ArrayFacts
<1>11. glist'.len >= glist.len
  <2>1. CASE x \in G.when
    <3>1. Does(G.body, SxShown(glist), SxShown(glist'), gret')
      BY <1>4, <1>6, <2>1
    <3>2. /\ G.body.do \in Growing => glist'.len >= glist.len
          /\ G.body.do \notin Growing \cup {"pop"} => glist'.len = glist.len
      BY <1>2, <1>10, <3>1, Lengths
    <3>3. G.body.do \notin Growing \cup {"pop"} \/ G.body.do \in Growing
      BY DEF GoGood, AlikeLoop, Growing
    <3>4. QED BY <1>2, <1>10, <3>2, <3>3
  <2>2. CASE x \notin G.when
    BY <1>2, <1>4, <2>2
  <2>3. QED BY <2>1, <2>2
<1>12. /\ \A i \in 1 .. G.limit : Viewed'[i] = glist'.items[i]
       /\ gview'.shared \/ G.body.do = "push"
  <2>1. CASE G.body.do # "push"
    <3>1. G.body.do \notin Growing /\ gview.shared
      BY <2>1 DEF GoGood, AlikeLoop
    <3>2. gview' = gview
      BY <1>4, <3>1 DEF GoLeaves
    <3>3. Viewed' = glist'.items /\ gview'.shared
      BY <3>1, <3>2 DEF Viewed
    <3>4. QED BY <3>3
  <2>2. CASE G.body.do = "push"
    <3>1. ASSUME NEW i \in 1 .. G.limit PROVE glist'.items[i] = glist.items[i]
      <4>1. i \in 1 .. glist.len /\ i \in 1 .. glist'.len
        BY <1>2, <1>10, <1>11 DEF GoGood
      <4>2. CASE x \in G.when
        <5>1. DoPush(G.body.item, SxShown(glist), SxShown(glist'), gret')
          BY <1>4, <1>6, <2>2, <4>2 DEF Does
        <5>2. \/ SxShown(glist') = SxShown(glist)
              \/ SxShown(glist') = Append(SxShown(glist), G.body.item)
          BY <5>1 DEF DoPush, Fails
        <5>3. G.body.item \in Items
          BY <1>2 DEF OpFacts
        <5>4. PICK t \in Seq(Items) : t = SxShown(glist) /\ Len(t) = glist.len
          BY <1>2
        <5>5. \A k \in 1 .. glist.len : Append(t, G.body.item)[k] = t[k]
          BY <5>3, <5>4, AppendProperties
        <5>6. SxShown(glist')[i] = SxShown(glist)[i]
          BY <4>1, <5>2, <5>4, <5>5
        <5>7. QED BY <1>2, <1>10, <4>1, <5>6
      <4>3. CASE x \notin G.when
        BY <1>4, <4>3
      <4>4. QED BY <4>2, <4>3
    <3>2. gview' = gview \/ (gview.shared /\ gview' = GoLeft)
      BY <1>4 DEF GoLeaves, LetsGo
    <3>3. CASE gview' = gview
      <4>1. CASE gview.shared
        BY <2>2, <3>3, <4>1 DEF Viewed
      <4>2. CASE ~gview.shared
        BY <2>2, <3>1, <3>3, <4>2 DEF Viewed, GoGood
      <4>3. QED BY <4>1, <4>2
    <3>4. CASE gview.shared /\ gview' = GoLeft
      <4>1. Viewed' = glist.items
        BY <3>4 DEF Viewed, GoLeft
      <4>2. QED BY <2>2, <3>1, <4>1
    <3>5. QED BY <3>2, <3>3, <3>4
  <2>3. QED BY <2>1, <2>2
<1>13. ASSUME gret' # Failed
       PROVE  \E M \in EnteredSet :
                /\ M = Passed(G, SxShown(glist)[G.next + 1])
                /\ gloop' = <<M>> /\ GoGood(M)'
  <2>1. PICK M \in EnteredSet :
          /\ M = Passed(G, x) /\ M.limit = G.limit /\ M.kind = G.kind /\ M.body = G.body
    BY PassedIs
  <2>2. gloop' = <<M>> /\ gret' \notin {Failed, Panicked}
    BY <1>4, <1>8, <1>13, <2>1
  <2>3. AlikeLoop(M)
    BY <2>1 DEF GoGood, AlikeLoop
  <2>4. M.limit <= glist'.len
    BY <1>2, <1>10, <1>11, <2>1 DEF GoGood
  <2>5. GoGood(M)'
    BY <1>12, <2>1, <2>2, <2>3, <2>4 DEF GoGood
  <2>6. QED BY <1>5, <2>1, <2>2, <2>5
<1>14. QED BY <1>4, <1>7, <1>8, <1>13

LEMMA OperateAlike ==
  ASSUME AlikeProgram, SxOK, GoOK, Together, NEW op \in Operations, Operate(op)
  PROVE  Together'
<1>1. AlikeOp(op)
  BY DEF AlikeProgram
<1>2. /\ Does(op, SxShown(slist), SxShown(slist'), sret')
      /\ Does(op, SxShown(glist), SxShown(glist'), gret')
  BY <1>1, OperateOK DEF AlikeOp
<1>3. SxShown(slist) \in Seq(Items) /\ SxShown(glist) = SxShown(slist)
  BY ShownIs DEF SxOK, Together
<1>4. SxShown(slist') = SxShown(glist') /\ sret' = gret'
  BY <1>1, <1>2, <1>3, DoesOneWay DEF AlikeOp
<1>5. sloop' = << >> /\ gloop' = << >>
  BY DEF Operate, Together
<1>6. QED BY <1>4, <1>5 DEF Together

LEMMA EnterAlike ==
  ASSUME AlikeProgram, SxOK, GoOK, Together, NEW l \in Loops, Enter(l)
  PROVE  Ahead'
<1>1. /\ slist' = slist /\ glist' = glist
      /\ sloop' = <<Entered(l, slist.len)>> /\ gloop' = <<Entered(l, glist.len)>>
      /\ sret' = Nothing /\ gret' = Nothing /\ gview' = Shared
  BY EnterOK
<1>2. /\ SxShown(slist) = SxShown(glist)
      /\ Len(SxShown(slist)) = slist.len /\ Len(SxShown(glist)) = glist.len
  BY ShownIs DEF SxOK, GoOK, Together
<1>3. PICK n \in Nat : n = slist.len /\ n = glist.len
  BY <1>2, ArrayFacts DEF SxOK
<1>4. l \in LoopSet /\ AlikeLoop(l)
  BY ProgramAssumption DEF AlikeProgram
<1>5. PICK M \in EnteredSet :
        M = Entered(l, n) /\ M.limit = n /\ M.kind = l.kind /\ M.body = l.body
  BY <1>4, EnteredIs
<1>6. AlikeLoop(M)
  BY <1>4, <1>5 DEF AlikeLoop
<1>7. sloop' = <<M>> /\ gloop' = <<M>>
  BY <1>1, <1>3, <1>5
<1>8. SxGood(M)'
  BY <1>1, <1>3, <1>5, <1>6, NothingIs DEF SxGood
<1>9. GoGood(M)'
  <2>1. Viewed' = glist.items /\ gview'.shared
    BY <1>1 DEF Viewed, Shared
  <2>2. M.limit <= glist'.len
    BY <1>1, <1>3, <1>5
  <2>3. QED BY <1>1, <1>6, <2>1, <2>2, NothingIs DEF GoGood
<1>10. GoConf(M)' = SxConf(M)'
  BY <1>1, <1>2 DEF GoConf, SxConf
<1>11. Leads(GoConf(M)', SxConf(M)')
  BY <1>10, LeadsToItself
<1>12. QED BY <1>7, <1>8, <1>9, <1>11 DEF Ahead

\* A step of the compiled program adds a turn to those that it is ahead.
LEMMA SxStepAlike ==
  ASSUME SxOK, GoOK, Alike, SxStep
  PROVE  Ahead' \/ Done'
<1>1. Ahead
  BY DEF Alike, Together, Done, SxStep, SxTurn, SxLoopEnd
<1>2. PICK L \in EnteredSet, G \in EnteredSet :
        /\ sloop = <<L>> /\ gloop = <<G>> /\ SxGood(L) /\ GoGood(G)
        /\ Leads(GoConf(G), SxConf(L))
  BY <1>1 DEF Ahead
<1>3. UNCHANGED <<glist, gview, gloop, gret>>
  BY DEF SxStep, goVars
<1>4. gloop' = <<G>> /\ GoGood(G)' /\ GoConf(G)' = GoConf(G)
  BY <1>2, <1>3 DEF GoGood, GoConf, Viewed
<1>5. \/ \E M \in EnteredSet : sloop' = <<M>> /\ SxGood(M)' /\ Turn(SxConf(L), SxConf(M)')
      \/ sloop' = << >> /\ Final(SxConf(L), SxShown(slist'), sret')
  BY <1>2, SxTurnAlike, SxEndAlike DEF SxStep
<1>6. CASE \E M \in EnteredSet : sloop' = <<M>> /\ SxGood(M)' /\ Turn(SxConf(L), SxConf(M)')
  <2>1. PICK M \in EnteredSet : sloop' = <<M>> /\ SxGood(M)' /\ Turn(SxConf(L), SxConf(M)')
    BY <1>6
  <2>2. Leads(GoConf(G), SxConf(M)')
    BY <1>2, <2>1, LeadsOn
  <2>3. Leads(GoConf(G)', SxConf(M)')
    BY <1>4, <2>2
  <2>4. QED BY <1>4, <2>1, <2>3 DEF Ahead
<1>7. CASE sloop' = << >> /\ Final(SxConf(L), SxShown(slist'), sret')
  <2>1. \E d : Leads(GoConf(G)', d) /\ Final(d, SxShown(slist'), sret')
    BY <1>2, <1>4, <1>7
  <2>2. QED BY <1>4, <1>7, <2>1 DEF Done
<1>8. QED BY <1>5, <1>6, <1>7

\* A step of the interpreter takes the first of the turns that are left, or
\* ends the loop where the compiled program ended it.
LEMMA GoStepAlike ==
  ASSUME SxOK, GoOK, Alike, GoStep
  PROVE  Done' \/ Together'
<1>1. Done
  BY DEF Alike, Together, Ahead, GoStep, GoTurn, GoLoopEnd
<1>2. PICK G \in EnteredSet :
        /\ sloop = << >> /\ gloop = <<G>> /\ GoGood(G)
        /\ \E d : Leads(GoConf(G), d) /\ Final(d, SxShown(slist), sret)
  BY <1>1 DEF Done
<1>3. PICK d : Leads(GoConf(G), d) /\ Final(d, SxShown(slist), sret)
  BY <1>2
<1>4. slist' = slist /\ sloop' = << >> /\ sret' = sret
  BY <1>2 DEF GoStep, sxVars
<1>5. PICK s \in Seq(Items) : s = SxShown(glist)
  BY ShownIs DEF GoOK
<1>6. GoConf(G) = Conf(s, gret, G) /\ AlikeLoop(G)
  BY <1>2, <1>5 DEF GoConf, GoGood
<1>7. CASE GoTurn
  <2>1. /\ G.next < G.limit
        /\ Meets(G, s, SxShown(glist'), gret, gret')
        /\ gret' = Failed => gloop' = << >>
        /\ gret' # Failed =>
             \E M \in EnteredSet :
               M = Passed(G, s[G.next + 1]) /\ gloop' = <<M>> /\ GoGood(M)'
    BY <1>2, <1>5, <1>7, GoTurnAlike
  <2>2. CASE GoConf(G) = d
    <3>1. Meets(G, s, SxShown(slist), gret, sret) /\ sret = Failed
      BY <1>3, <1>6, <2>1, <2>2 DEF Final, Conf
    <3>2. SxShown(glist') = SxShown(slist) /\ gret' = sret
      BY <1>6, <2>1, <3>1, MeetsOneWay
    <3>3. gloop' = << >>
      BY <2>1, <3>1, <3>2
    <3>4. QED BY <1>4, <3>2, <3>3 DEF Together
  <2>3. CASE \E e : Turn(GoConf(G), e) /\ Leads(e, d)
    <3>1. PICK e : Turn(GoConf(G), e) /\ Leads(e, d)
      BY <2>3
    <3>2. /\ Meets(G, s, e.list, gret, e.ret) /\ e.ret # Failed
          /\ e.loop = Passed(G, s[G.next + 1]) /\ e = Conf(e.list, e.ret, e.loop)
      BY <1>6, <3>1 DEF Turn, Conf
    <3>3. SxShown(glist') = e.list /\ gret' = e.ret
      BY <1>6, <2>1, <3>2, MeetsOneWay
    <3>4. PICK M \in EnteredSet : M = e.loop /\ gloop' = <<M>> /\ GoGood(M)'
      BY <2>1, <3>2, <3>3
    <3>5. GoConf(M)' = e
      BY <3>2, <3>3, <3>4 DEF GoConf
    <3>6. \E f : Leads(GoConf(M)', f) /\ Final(f, SxShown(slist'), sret')
      BY <1>3, <1>4, <3>1, <3>5
    <3>7. QED BY <1>4, <3>4, <3>6 DEF Done
  <2>4. QED BY <1>3, <2>2, <2>3, LeadsFirst
<1>8. CASE GoLoopEnd
  <2>1. ~(G.next < G.limit)
    BY <1>2, <1>8, EnteredFacts DEF GoLoopEnd, GoLoop
  <2>2. gret' = LoopAnswer(G) /\ gloop' = << >> /\ glist' = glist
    BY <1>2, <1>8 DEF GoLoopEnd, GoLoop
  <2>3. ~ \E e : Turn(GoConf(G), e)
    BY <1>6, <2>1 DEF Turn, Conf
  <2>4. GoConf(G) = d
    BY <1>3, <2>3, LeadsFirst
  <2>5. SxShown(slist) = s /\ sret = LoopAnswer(G)
    BY <1>3, <1>6, <2>1, <2>4 DEF Final, Conf
  <2>6. QED BY <1>4, <1>5, <2>2, <2>5 DEF Together
<1>9. QED BY <1>7, <1>8 DEF GoStep

\* Both engines answer the same and leave the same list behind, after every
\* operation and every loop of a program they run alike: one that pops and
\* slices at ends that do not count from the back, sorts items that both
\* compare in the same order and without ties, and whose loops leave the length
\* of the list alone, or are for statements that only push.  The compiled
\* program reads the list anew in every turn, the interpreter a header it took
\* at the start, over an array that the list may have left in the meantime.
THEOREM EnginesAgree == ASSUME AlikeProgram PROVE Spec => []SameOutcome
<1>1. ASSUME Init PROVE Alike
  BY <1>1, InitOK DEF Init, Alike, Together
<1>2. ASSUME SxOK, GoOK, Alike, [Next]_vars PROVE Alike'
  <2>1. CASE \E op \in Operations : Operate(op)
    <3>1. Together
      BY <1>2, <2>1 DEF Operate, Idle, Alike, Ahead, Done
    <3>2. QED BY <1>2, <2>1, <3>1, OperateAlike DEF Alike
  <2>2. CASE \E l \in Loops : Enter(l)
    <3>1. Together
      BY <1>2, <2>2 DEF Enter, Idle, Alike, Ahead, Done
    <3>2. QED BY <1>2, <2>2, <3>1, EnterAlike DEF Alike
  <2>3. CASE SxStep
    BY <1>2, <2>3, SxStepAlike DEF Alike
  <2>4. CASE GoStep
    BY <1>2, <2>4, GoStepAlike DEF Alike
  <2>5. CASE UNCHANGED vars
    BY <1>2, <2>5 DEF vars, Alike, Together, Ahead, Done, SxGood, GoGood, SxConf,
       GoConf, Viewed
  <2>6. QED BY <1>2, <2>1, <2>2, <2>3, <2>4, <2>5 DEF Next
<1>3. ASSUME SxOK, GoOK, Alike PROVE SameOutcome
  <2>1. ASSUME Idle PROVE Together
    BY <1>3, <2>1 DEF Idle, Alike, Ahead, Done
  <2>2. GoShown(glist) = SxShown(glist)
    BY <1>3, ShownIs DEF GoOK
  <2>3. QED BY <2>1, <2>2 DEF SameOutcome, Together
<1>4. QED BY <1>1, <1>2, <1>3, SpecIsSafe, BothOK, PTL DEF Safe
=============================================================================
