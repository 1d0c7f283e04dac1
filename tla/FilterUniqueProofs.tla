------------------------- MODULE FilterUniqueProofs -------------------------
(***************************************************************************)
(* Proofs about FilterUnique: wifi_manager_filter_unique() is correct for  *)
(* lists of any length, names, authentication modes and signals.           *)
(***************************************************************************)
EXTENDS FilterUnique, Counting

\* The record at place n when the first k have been merged.
Merged(k, n) ==
  IF scan[n].ssid = Hidden THEN scan[n]
  ELSE IF \E m \in 1..k : m < n /\ Same(scan[m], scan[n]) THEN Zero
  ELSE IF n <= k THEN Strongest(n) ELSE scan[n]

\* The first loop.
MergeInv ==
  phase = "merge" =>
    /\ firstFree = 0 /\ total = Len(scan)
    /\ i = 1 \/ i <= Len(scan)
    /\ \A n \in 1..Len(scan) : list[n] = Merged(i - 1, n)

\* The second loop, when k records have been dealt with: the networks found in
\* them stand in a row, free places follow, and the rest is as the first loop left it.
Packed(k) ==
  /\ total + k = Len(scan) + Place(k)
  /\ firstFree = IF Place(k) = k THEN 0 ELSE Place(k) + 1
  /\ \A n \in 1..k : IsFirst(n) => list[Place(n)] = Strongest(n)
  /\ \A j \in 1..Place(k) : list[j].ssid # Hidden
  /\ \A j \in (Place(k) + 1)..k : list[j].ssid = Hidden

Unpacked(k) ==
  \A n \in (k + 1)..Len(scan) :
    IF IsFirst(n) THEN list[n] = Strongest(n) ELSE list[n].ssid = Hidden

CompactInv ==
  /\ phase # "merge" => Packed(i - 1) /\ Unpacked(i - 1)
  /\ phase = "done" => i = Len(scan) + 1

IInv == TypeOK /\ MergeInv /\ CompactInv

-----------------------------------------------------------------------------
(* Operators.                                                              *)

Firsts == {m \in 1..Len(scan) : IsFirst(m)}

\* Place() counts the networks found so far.
LEMMA PlaceCounts ==
  ASSUME TypeOK, NEW n \in 0..Len(scan)
  PROVE  Place(n) = Count(Firsts, n)
<1>1. Len(scan) \in Nat
  BY DEF TypeOK
<1>2. {m \in 1..n : IsFirst(m)} = Firsts \cap (1..n)
  BY <1>1 DEF Firsts
<1> QED
  BY <1>2 DEF Place, Count

LEMMA PlaceType ==
  ASSUME TypeOK, NEW n \in 0..Len(scan)
  PROVE  Place(n) \in 0..n
<1>1. n \in Nat
  BY DEF TypeOK
<1> QED
  BY <1>1, PlaceCounts, CountType

LEMMA PlaceStep ==
  ASSUME TypeOK, NEW n \in 1..Len(scan)
  PROVE  Place(n) = Place(n - 1) + (IF IsFirst(n) THEN 1 ELSE 0)
<1>1. n - 1 \in Nat /\ (n - 1) + 1 = n /\ n - 1 \in 0..Len(scan) /\ n \in 0..Len(scan)
  BY DEF TypeOK
<1>2. Count(Firsts, (n - 1) + 1) = Count(Firsts, n - 1) + (IF (n - 1) + 1 \in Firsts THEN 1 ELSE 0)
  BY <1>1, CountStep
<1>3. n \in Firsts <=> IsFirst(n)
  BY DEF Firsts
<1> QED
  BY <1>1, <1>2, <1>3, PlaceCounts

LEMMA PlaceMonotone ==
  ASSUME TypeOK, NEW n \in 0..Len(scan), NEW m \in 0..n
  PROVE  Place(m) <= Place(n)
<1>1. n \in Nat /\ m \in 0..Len(scan)
  BY DEF TypeOK
<1> QED
  BY <1>1, PlaceCounts, CountMonotone

\* The strongest signal is one of the signals, so that the record is a record.
LEMMA StrongestType ==
  ASSUME TypeOK, NEW n \in 1..Len(scan)
  PROVE  Strongest(n) \in Record /\ Strongest(n).ssid = scan[n].ssid
<1> DEFINE T == {m \in 1..Len(scan) : Same(scan[m], scan[n])}
           f == [m \in 1..Len(scan) |-> scan[m].rssi]
           R == {f[m] : m \in T}
<1>1. /\ Len(scan) \in Nat /\ \A m \in 1..Len(scan) : scan[m] \in Record
  BY DEF TypeOK
<1>2. n \in T
  BY DEF Same
<1>3. IsFiniteSet(R)
  <2>1. T \in SUBSET (1..Len(scan))
    OBVIOUS
  <2> HIDE DEF T, f
  <2> QED
    BY <1>1, <2>1, FiniteImage
<1>4. R \subseteq Rssi /\ R \subseteq Nat /\ R # {}
  <2>1. \A m \in T : f[m] \in Rssi
    BY <1>1 DEF Record
  <2> HIDE DEF T, f
  <2> QED
    BY <1>2, <2>1, ApAssumption
<1>5. R = {scan[m].rssi : m \in T}
  OBVIOUS
<1>6. Max(R) \in Rssi
  <2> HIDE DEF R
  <2> QED
    BY <1>3, <1>4, MaxIsGreatest
<1>7. Strongest(n) = [scan[n] EXCEPT !.rssi = Max(R)]
  BY <1>5 DEF Strongest
<1> HIDE DEF R
<1> QED
  BY <1>1, <1>6, <1>7 DEF Record

LEMMA ZeroType == Zero \in Record /\ Zero.ssid = Hidden
  BY ApAssumption DEF Zero, Record

-----------------------------------------------------------------------------
(* The first loop.                                                         *)

\* Two records are the same network when they are the same as a third.
LEMMA SameIsEquivalence ==
  ASSUME NEW a, NEW b, NEW c
  PROVE  /\ Same(a, a) /\ (Same(a, b) <=> Same(b, a))
         /\ Same(a, b) /\ Same(b, c) => Same(a, c)
  BY DEF Same

LEMMA MergedType ==
  ASSUME TypeOK, NEW k \in Nat, NEW n \in 1..Len(scan)
  PROVE  Merged(k, n) \in Record
<1>1. scan[n] \in Record
  BY DEF TypeOK
<1> QED
  BY <1>1, StrongestType, ZeroType DEF Merged

\* A step of the first loop makes the list the one with a record more merged.
LEMMA MergeStep ==
  ASSUME TypeOK, MergeInv, Merge
  PROVE  \A n \in 1..Len(scan) : list'[n] = Merged(i, n)
<1>1. /\ Len(scan) \in Nat /\ Len(list) = Len(scan) /\ i \in 1..Len(scan) /\ i - 1 \in Nat
      /\ \A n \in 1..Len(scan) : list[n] = Merged(i - 1, n) /\ scan[n] \in Record
  BY DEF TypeOK, MergeInv, Merge
<1> SUFFICES ASSUME NEW n \in 1..Len(scan) PROVE list'[n] = Merged(i, n)
  OBVIOUS
<1>2. ASSUME NEW j \in 1..Len(scan)
      PROVE  /\ \A m \in 1..i : m = i \/ m \in 1..(i - 1)
             /\ \A m \in 1..(i - 1) : m \in 1..i /\ m < i
             /\ j <= i <=> j <= i - 1 \/ j = i
  BY <1>1
<1>3. CASE list[i].ssid = Hidden
  <2>1. list'[n] = Merged(i - 1, n)
    BY <1>1, <1>3 DEF Merge
  <2>2. scan[i].ssid = Hidden \/ \E m \in 1..(i - 1) : Same(scan[m], scan[i])
    <3>1. list[i] = Merged(i - 1, i)
      BY <1>1
    <3> QED
      BY <1>1, <1>3, <3>1 DEF Merged
  <2>3. CASE scan[n].ssid = Hidden
    BY <2>1, <2>3 DEF Merged
  <2>4. CASE scan[n].ssid # Hidden
    <3>1. (\E m \in 1..i : m < n /\ Same(scan[m], scan[n]))
            <=> (\E m \in 1..(i - 1) : m < n /\ Same(scan[m], scan[n]))
      <4>1. ASSUME i < n, Same(scan[i], scan[n])
            PROVE  \E m \in 1..(i - 1) : m < n /\ Same(scan[m], scan[n])
        <5>1. PICK m \in 1..(i - 1) : Same(scan[m], scan[i])
          BY <2>2, <2>4, <4>1 DEF Same
        <5> QED
          BY <1>1, <4>1, <5>1, SameIsEquivalence
      <4> QED
        BY <1>2, <4>1
    <3>2. n = i => \E m \in 1..(i - 1) : m < n /\ Same(scan[m], scan[n])
      BY <1>2, <2>2, <2>4
    <3> QED
      BY <1>2, <2>1, <3>1, <3>2 DEF Merged
  <2> QED
    BY <2>3, <2>4
<1>4. CASE list[i].ssid # Hidden
  <2> DEFINE later == {j \in (i + 1)..Len(list) : Same(list[i], list[j])}
             best  == Max({list[i].rssi} \cup {list[j].rssi : j \in later})
  <2>1. list[i] = scan[i] /\ IsFirst(i)
    <3>1. list[i] = Merged(i - 1, i)
      BY <1>1
    <3>2. Zero.ssid = Hidden
      BY ZeroType
    <3>3. scan[i].ssid # Hidden /\ ~ \E m \in 1..(i - 1) : m < i /\ Same(scan[m], scan[i])
      BY <1>4, <3>1, <3>2 DEF Merged
    <3>4. ~(i <= i - 1)
      BY <1>1
    <3> QED
      BY <1>2, <3>1, <3>3, <3>4 DEF Merged, IsFirst
  <2>2. ASSUME NEW j \in (i + 1)..Len(scan)
        PROVE  /\ Same(list[i], list[j]) <=> Same(scan[i], scan[j])
               /\ Same(list[i], list[j]) => list[j] = scan[j]
    <3>1. j \in 1..Len(scan) /\ ~(j <= i - 1)
      BY <1>1
    <3>2. list[j] = Merged(i - 1, j)
      BY <1>1, <3>1
    <3>3. CASE \E m \in 1..(i - 1) : m < j /\ Same(scan[m], scan[j])
      <4>1. ~Same(scan[i], scan[j])
        BY <2>1, <3>3, SameIsEquivalence DEF IsFirst
      <4>2. scan[j].ssid = Hidden => list[j] = scan[j]
        BY <3>2 DEF Merged
      <4>3. scan[j].ssid # Hidden => list[j] = Zero
        BY <3>2, <3>3 DEF Merged
      <4> QED
        BY <1>4, <4>1, <4>2, <4>3, <2>1, ZeroType DEF Same
    <3>4. CASE ~ \E m \in 1..(i - 1) : m < j /\ Same(scan[m], scan[j])
      <4>1. list[j] = scan[j]
        BY <3>1, <3>2, <3>4 DEF Merged
      <4> QED
        BY <2>1, <4>1
    <3> QED
      BY <3>3, <3>4
  <2>3. later = {j \in (i + 1)..Len(scan) : Same(scan[j], scan[i])}
    BY <1>1, <2>2, SameIsEquivalence
  <2>4. {list[i].rssi} \cup {list[j].rssi : j \in later}
          = {scan[m].rssi : m \in {m \in 1..Len(scan) : Same(scan[m], scan[i])}}
    <3>1. {m \in 1..Len(scan) : Same(scan[m], scan[i])} = {i} \cup later
      <4>1. \A m \in 1..(i - 1) : ~Same(scan[m], scan[i])
        BY <2>1 DEF IsFirst
      <4>2. \A m \in 1..Len(scan) : m \in 1..(i - 1) \/ m = i \/ m \in (i + 1)..Len(scan)
        BY <1>1
      <4>3. (i + 1)..Len(scan) \subseteq 1..Len(scan)
        BY <1>1
      <4>4. Same(scan[i], scan[i])
        BY SameIsEquivalence
      <4> HIDE DEF later
      <4> QED
        BY <1>1, <2>3, <4>1, <4>2, <4>3, <4>4
    <3>2. \A j \in later : list[j] = scan[j]
      BY <1>1, <2>2
    <3> HIDE DEF later
    <3> QED
      BY <2>1, <3>1, <3>2
  <2>5. [list[i] EXCEPT !.rssi = best] = Strongest(i)
    BY <2>1, <2>4 DEF Strongest
  <2>6. list'[n] = CASE n = i -> [list[i] EXCEPT !.rssi = best]
                     [] n \in later -> Zero
                     [] OTHER -> list[n]
    BY <1>1, <1>4 DEF Merge
  <2> HIDE DEF best
  <2>7. CASE n = i
    <3>1. ~ \E m \in 1..i : m < n /\ Same(scan[m], scan[n])
      BY <1>1, <2>1, <2>7 DEF IsFirst
    <3>2. scan[n].ssid # Hidden /\ n <= i
      BY <1>1, <2>1, <2>7 DEF IsFirst
    <3> QED
      BY <2>5, <2>6, <2>7, <3>1, <3>2 DEF Merged
  <2>8. CASE n \in later
    <3>1. i \in 1..i /\ i < n /\ n # i
      BY <1>1, <2>8
    <3>2. Same(scan[i], scan[n]) /\ scan[n].ssid # Hidden
      BY <1>4, <2>1, <2>3, <2>8, SameIsEquivalence DEF Same
    <3>3. list'[n] = Zero
      BY <2>6, <2>8, <3>1
    <3> QED
      BY <3>1, <3>2, <3>3 DEF Merged
  <2>9. CASE n # i /\ n \notin later
    <3>1. list'[n] = Merged(i - 1, n)
      BY <1>1, <2>6, <2>9
    <3>2. ~(i < n /\ Same(scan[i], scan[n]))
      BY <1>1, <2>3, <2>9, SameIsEquivalence
    <3>3. (\E m \in 1..i : m < n /\ Same(scan[m], scan[n]))
            <=> (\E m \in 1..(i - 1) : m < n /\ Same(scan[m], scan[n]))
      BY <1>2, <3>2
    <3>4. n <= i <=> n <= i - 1
      BY <1>2, <2>9
    <3> QED
      BY <3>1, <3>3, <3>4 DEF Merged
  <2> QED
    BY <2>7, <2>8, <2>9
<1> QED
  BY <1>3, <1>4

\* When the first loop ends, one place before the last, the last is merged too.
LEMMA MergeLeaves ==
  ASSUME TypeOK, MergeInv, phase = "merge", i >= Len(list)
  PROVE  Packed(0) /\ Unpacked(0)
<1>1. /\ Len(scan) \in Nat /\ (i = Len(scan) \/ Len(scan) = 0)
      /\ \A n \in 1..Len(scan) : list[n] = Merged(i - 1, n) /\ scan[n] \in Record
  BY DEF TypeOK, MergeInv
<1>2. Packed(0)
  <2>1. Place(0) = 0
    BY <1>1, PlaceType
  <2>2. 0 + 1 = 1 /\ 1..0 = {}
    OBVIOUS
  <2> QED
    BY <1>1, <2>1, <2>2 DEF Packed, MergeInv
<1>3. ASSUME NEW n \in 1..Len(scan)
      PROVE  IF IsFirst(n) THEN list[n] = Strongest(n) ELSE list[n].ssid = Hidden
  <2>1. /\ i = Len(scan) /\ i - 1 \in Nat /\ list[n] = Merged(i - 1, n)
        /\ \A m \in 1..(n - 1) : m \in 1..(i - 1) /\ m < n
        /\ \A m \in 1..(i - 1) : m < n => m \in 1..(n - 1)
    BY <1>1
  <2>2. CASE ~IsFirst(n)
    BY <2>1, <2>2, ZeroType DEF Merged, IsFirst
  <2>3. CASE IsFirst(n)
    <3>1. list[n] = IF n <= i - 1 THEN Strongest(n) ELSE scan[n]
      BY <2>1, <2>3 DEF Merged, IsFirst
    <3>2. CASE n <= i - 1
      BY <2>3, <3>1, <3>2
    <3>3. CASE ~(n <= i - 1)
      <4>1. {m \in 1..Len(scan) : Same(scan[m], scan[n])} = {n}
        <5>1. n = Len(scan)
          BY <1>1, <2>1, <3>3
        <5>2. \A m \in 1..Len(scan) : m = n \/ m \in 1..(n - 1)
          BY <1>1, <5>1
        <5> QED
          BY <2>3, <5>2, SameIsEquivalence DEF IsFirst
      <4>2. {scan[m].rssi : m \in {m \in 1..Len(scan) : Same(scan[m], scan[n])}} = {scan[n].rssi}
        BY <4>1
      <4>3. scan[n].rssi \in Nat
        BY <1>1, ApAssumption DEF Record
      <4>4. Max({scan[n].rssi}) = scan[n].rssi
        BY <4>3 DEF Max
      <4>5. Strongest(n) = [scan[n] EXCEPT !.rssi = scan[n].rssi]
        BY <4>2, <4>4 DEF Strongest
      <4>6. Strongest(n) = scan[n]
        BY <1>1, <4>5 DEF Record
      <4> QED
        BY <2>3, <3>1, <3>3, <4>6
    <3> QED
      BY <3>2, <3>3
  <2> QED
    BY <2>2, <2>3
<1> QED
  BY <1>2, <1>3 DEF Unpacked

-----------------------------------------------------------------------------
(* The second loop.                                                        *)

\* A record of the second loop is empty exactly when it is no first appearance.
LEMMA FullIsFirst ==
  ASSUME TypeOK, Unpacked(i - 1), i \in 1..Len(scan)
  PROVE  /\ list[i].ssid # Hidden <=> IsFirst(i)
         /\ IsFirst(i) => list[i] = Strongest(i)
<1>1. i \in ((i - 1) + 1)..Len(scan)
  BY DEF TypeOK
<1>2. IF IsFirst(i) THEN list[i] = Strongest(i) ELSE list[i].ssid = Hidden
  BY <1>1 DEF Unpacked
<1>3. IsFirst(i) => Strongest(i).ssid # Hidden
  BY StrongestType DEF IsFirst
<1> QED
  BY <1>2, <1>3

\* The second loop packs one record more.
LEMMA CompactStep ==
  ASSUME TypeOK, Packed(i - 1), Unpacked(i - 1), Compact
  PROVE  Packed(i - 1)' /\ Unpacked(i - 1)' /\ list' \in Seq(Record) /\ Len(list') = Len(list)
<1> DEFINE k == i - 1
           p == Place(i - 1)
<1>1. /\ Len(scan) \in Nat /\ Len(list) = Len(scan) /\ i \in 1..Len(scan)
      /\ k \in 0..Len(scan) /\ k + 1 = i /\ list \in Seq(Record)
      /\ \A n \in 1..i : n \in 1..k \/ n = i
      /\ scan' = scan /\ firstFree \in Nat /\ total \in Nat /\ i' = i + 1 /\ i' - 1 = i
  BY DEF TypeOK, Compact
<1>2. p \in 0..k /\ Place(i) = p + (IF IsFirst(i) THEN 1 ELSE 0)
  BY <1>1, PlaceType, PlaceStep
<1>3. /\ total + k = Len(scan) + p
      /\ firstFree = IF p = k THEN 0 ELSE p + 1
      /\ \A n \in 1..k : IsFirst(n) => list[Place(n)] = Strongest(n)
      /\ \A j \in 1..p : list[j].ssid # Hidden
      /\ \A j \in (p + 1)..k : list[j].ssid = Hidden
      /\ \A n \in i..Len(scan) :
           IF IsFirst(n) THEN list[n] = Strongest(n) ELSE list[n].ssid = Hidden
  BY <1>1 DEF Packed, Unpacked
<1>3a. /\ i \in Nat /\ k \in Nat /\ p \in Nat /\ total \in Nat /\ Len(scan) \in Nat
       /\ k + 1 = i /\ p <= k /\ total + k = Len(scan) + p
  <2>1. i \in Nat /\ k \in Nat /\ total \in Nat /\ Len(scan) \in Nat /\ k + 1 = i
    BY <1>1
  <2>2. p \in Nat /\ p <= k
    BY <1>2, <2>1
  <2>3. total + k = Len(scan) + p
    BY <1>3
  <2> QED
    BY <2>1, <2>2, <2>3
<1>4. /\ list[i].ssid # Hidden <=> IsFirst(i)
      /\ IsFirst(i) => list[i] = Strongest(i)
  BY <1>1, FullIsFirst
<1>5. ASSUME NEW n \in 1..k, IsFirst(n) PROVE Place(n) \in 1..p
  <2>1. Place(n) = Place(n - 1) + 1 /\ Place(n - 1) \in 0..(n - 1)
    <3>1. n \in 1..Len(scan) /\ n - 1 \in 0..Len(scan)
      BY <1>3a, <1>1
    <3>2. Place(n) = Place(n - 1) + 1
      BY <1>5, <3>1, PlaceStep
    <3> QED
      BY <3>1, <3>2, PlaceType
  <2>2. Place(n) <= p
    BY <1>1, PlaceMonotone
  <2> QED
    BY <1>1, <2>1, <2>2
<1>6. /\ \A n \in 0..Len(scan) : (IsFirst(n) <=> IsFirst(n)') /\ Place(n)' = Place(n)
      /\ \A n \in 1..Len(scan) : Strongest(n)' = Strongest(n)
  BY <1>1 DEF IsFirst, Place, Strongest, Same
<1> HIDE DEF p, k
<1> SUFFICES /\ total' + i = Len(scan) + Place(i)
             /\ firstFree' = IF Place(i) = i THEN 0 ELSE Place(i) + 1
             /\ \A n \in 1..i : IsFirst(n) => list'[Place(n)] = Strongest(n)
             /\ \A j \in 1..Place(i) : list'[j].ssid # Hidden
             /\ \A j \in (Place(i) + 1)..i : list'[j].ssid = Hidden
             /\ \A n \in (i + 1)..Len(scan) :
                  IF IsFirst(n) THEN list'[n] = Strongest(n) ELSE list'[n].ssid = Hidden
             /\ list' \in Seq(Record) /\ Len(list') = Len(list)
  <2>1. \A n \in 1..i : n \in 0..Len(scan) /\ n \in 1..Len(scan)
    BY <1>1
  <2>2. \A n \in (i + 1)..Len(scan) : n \in 0..Len(scan) /\ n \in 1..Len(scan)
    BY <1>1
  <2>3. i \in 0..Len(scan)
    BY <1>1
  <2> QED
    BY <1>1, <1>6, <2>1, <2>2, <2>3 DEF Packed, Unpacked
<1>7. CASE list[i].ssid = Hidden
  <2>1. /\ total' = total - 1 /\ list' = list
        /\ firstFree' = IF firstFree = 0 THEN i ELSE firstFree
    BY <1>7 DEF Compact
  <2>2. ~IsFirst(i) /\ Place(i) = p
    BY <1>2, <1>4, <1>7
  <2>3. total' + i = Len(scan) + Place(i)
    BY <1>3a, <2>1, <2>2
  <2>4. firstFree' = IF Place(i) = i THEN 0 ELSE Place(i) + 1
    <3>1. firstFree = IF p = k THEN 0 ELSE p + 1
      BY <1>3
    <3> QED
      BY <1>3a, <2>1, <2>2, <3>1
  <2>5. \A n \in 1..i : IsFirst(n) => list'[Place(n)] = Strongest(n)
    BY <1>1, <1>3, <2>1, <2>2
  <2>6. \A j \in (Place(i) + 1)..i : list'[j].ssid = Hidden
    BY <1>1, <1>2, <1>3, <1>7, <2>1, <2>2
  <2>7. \A n \in (i + 1)..Len(scan) : n \in i..Len(scan)
    BY <1>1
  <2> QED
    BY <1>1, <1>3, <2>1, <2>2, <2>3, <2>4, <2>5, <2>6, <2>7
<1>8. CASE list[i].ssid # Hidden /\ firstFree = 0
  <2>1. total' = total /\ list' = list /\ firstFree' = 0
    BY <1>8 DEF Compact
  <2>2. IsFirst(i) /\ Place(i) = i /\ p = k
    BY <1>1, <1>2, <1>3, <1>4, <1>8
  <2>3. \A n \in 1..i : IsFirst(n) => list'[Place(n)] = Strongest(n)
    BY <1>1, <1>3, <1>4, <2>1, <2>2
  <2>4. \A j \in 1..i : list'[j].ssid # Hidden
    BY <1>1, <1>3, <1>8, <2>1, <2>2
  <2>5. (i + 1)..i = {} /\ \A n \in (i + 1)..Len(scan) : n \in i..Len(scan)
    BY <1>1
  <2> QED
    BY <1>1, <1>2, <1>3, <2>1, <2>2, <2>3, <2>4, <2>5
<1>9. CASE list[i].ssid # Hidden /\ firstFree # 0
  <2> DEFINE moved == [list EXCEPT ![firstFree] = list[i], ![i] = Zero]
  <2>1. /\ total' = total /\ list' = moved
        /\ firstFree' = Min({j \in 1..Len(list) : moved[j].ssid = Hidden})
    BY <1>9 DEF Compact
  <2>2. IsFirst(i) /\ Place(i) = p + 1 /\ p < k /\ firstFree = p + 1
    BY <1>1, <1>2, <1>3, <1>4, <1>9
  <2>3. /\ moved \in Seq(Record) /\ Len(moved) = Len(list)
        /\ moved[p + 1] = list[i] /\ moved[i] = Zero
        /\ \A j \in 1..Len(scan) : j # p + 1 /\ j # i => moved[j] = list[j]
    BY <1>1, <1>2, <2>2, ZeroType
  <2> HIDE DEF moved
  <2>4. \A n \in 1..i : IsFirst(n) => moved[Place(n)] = Strongest(n)
    <3>1. ASSUME NEW n \in 1..k, IsFirst(n) PROVE moved[Place(n)] = Strongest(n)
      <4>1. /\ Place(n) \in 1..p /\ Place(n) # p + 1 /\ Place(n) # i
            /\ Place(n) \in 1..Len(scan)
        BY <1>1, <1>2, <1>5, <2>2, <3>1
      <4> QED
        BY <1>3, <2>3, <3>1, <4>1
    <3>2. moved[Place(i)] = Strongest(i)
      BY <1>4, <2>2, <2>3
    <3> QED
      BY <1>1, <3>1, <3>2
  <2>5. \A j \in 1..(p + 1) : moved[j].ssid # Hidden
    <3>1. \A j \in 1..p : j # p + 1 /\ j # i /\ j \in 1..Len(scan)
      BY <1>1, <1>2
    <3>2. \A j \in 1..(p + 1) : j \in 1..p \/ j = p + 1
      BY <1>2
    <3> QED
      BY <1>3, <1>9, <2>3, <3>1, <3>2
  <2>6. \A j \in (p + 2)..i : moved[j].ssid = Hidden
    <3>1. \A j \in (p + 2)..i : j = i \/ (j # p + 1 /\ j # i /\ j \in 1..Len(scan) /\ j \in (p + 1)..k)
      BY <1>1, <1>2
    <3> QED
      BY <1>3, <2>3, <3>1, ZeroType
  <2>7. \A n \in (i + 1)..Len(scan) : n \in i..Len(scan) /\ moved[n] = list[n]
    <3>1. \A n \in (i + 1)..Len(scan) : n \in i..Len(scan) /\ n \in 1..Len(scan) /\ n # p + 1 /\ n # i
      BY <1>1, <1>2
    <3> QED
      BY <2>3, <3>1
  <2>8. firstFree' = p + 2 /\ p + 2 <= i
    <3> DEFINE free == {j \in 1..Len(list) : moved[j].ssid = Hidden}
    <3>1. p + 2 \in free /\ p + 2 <= i
      BY <1>1, <1>2, <2>2, <2>6
    <3>2. \A j \in free : j \in Nat /\ p + 2 <= j
      BY <1>1, <1>2, <2>5
    <3>3. firstFree' = Min(free)
      BY <2>1
    <3> HIDE DEF free
    <3>4. Min(free) \in free /\ \A j \in free : Min(free) <= j
      BY <3>1, <3>2 DEF Min
    <3>5. Min(free) <= p + 2 /\ p + 2 <= Min(free) /\ Min(free) \in Nat /\ p \in Nat
      BY <1>1, <1>2, <3>1, <3>2, <3>4
    <3>6. Min(free) = p + 2
      BY <3>5
    <3> QED
      BY <3>1, <3>3, <3>6
  <2>9. total' + i = Len(scan) + Place(i)
    BY <1>3a, <2>1, <2>2
  <2>10. firstFree' = IF Place(i) = i THEN 0 ELSE Place(i) + 1
    BY <1>3a, <2>2, <2>8
  <2>11. Place(i) + 1 = p + 2
    BY <1>3a, <2>2
  <2> QED
    BY <1>3, <2>1, <2>2, <2>3, <2>4, <2>5, <2>6, <2>7, <2>9, <2>10, <2>11
<1> QED
  BY <1>7, <1>8, <1>9

-----------------------------------------------------------------------------
(* The invariant.                                                          *)

\* The reference depends on the scan alone.
LEMMA ReferenceKept ==
  ASSUME scan' = scan, NEW n
  PROVE  (IsFirst(n)' <=> IsFirst(n)) /\ Place(n)' = Place(n) /\ Strongest(n)' = Strongest(n)
  BY DEF IsFirst, Place, Strongest, Same

LEMMA InitEstablishes == Init => IInv
<1> SUFFICES ASSUME Init PROVE IInv
  OBVIOUS
<1>1. PICK n \in 0..MaxAps : scan \in [1..n -> Record]
  BY DEF Init
<1>2. n \in Nat /\ scan \in Seq(Record) /\ Len(scan) = n
  BY <1>1, ApAssumption
<1>3. TypeOK
  BY <1>2 DEF Init, TypeOK
<1>4. \A m \in 1..Len(scan) : scan[m] = Merged(0, m)
  <2>1. 1..0 = {} /\ \A m \in 1..Len(scan) : ~(m <= 0)
    OBVIOUS
  <2> QED
    BY <2>1 DEF Merged
<1>5. i - 1 = 0 /\ list = scan
  BY DEF Init
<1>6. MergeInv
  BY <1>4, <1>5 DEF Init, MergeInv
<1> QED
  BY <1>3, <1>6 DEF IInv, CompactInv, Init

\* One step per action.
LEMMA StepKeeps == IInv /\ [Next]_vars => IInv'
<1> SUFFICES ASSUME IInv, [Next]_vars PROVE IInv'
  OBVIOUS
<1>1. TypeOK /\ MergeInv /\ CompactInv /\ Len(scan) \in Nat /\ Len(list) = Len(scan)
  BY DEF IInv, TypeOK
<1>2. CASE Merge
  <2>1. /\ i' = i + 1 /\ i' - 1 = i /\ i < Len(scan) /\ scan' = scan /\ phase = "merge" /\ phase' = phase
        /\ firstFree' = firstFree /\ total' = total /\ i \in Nat
    BY <1>1, <1>2 DEF Merge, TypeOK
  <2>2. \A n \in 1..Len(scan) : list'[n] = Merged(i, n)
    BY <1>1, <1>2, MergeStep
  <2>3. list' \in Seq(Record) /\ Len(list') = Len(list)
    <3> DEFINE later == {j \in (i + 1)..Len(list) : Same(list[i], list[j])}
               best == Max({list[i].rssi} \cup {list[j].rssi : j \in later})
               merged == [j \in 1..Len(list) |-> CASE j = i -> [list[i] EXCEPT !.rssi = best]
                                                  [] j \in later -> Zero
                                                  [] OTHER -> list[j]]
    <3>1. list' = list \/ list' = [n \in 1..Len(list) |-> list'[n]]
      <4>1. list' = list \/ list' = merged
        BY <1>2 DEF Merge
      <4>2. merged = [n \in 1..Len(list) |-> merged[n]]
        OBVIOUS
      <4> QED
        BY <4>1, <4>2
    <3>2. ASSUME NEW n \in 1..Len(list) PROVE list'[n] \in Record
      <4>1. n \in 1..Len(scan) /\ list'[n] = Merged(i, n)
        BY <1>1, <2>2
      <4> QED
        BY <1>1, <2>1, <4>1, MergedType
    <3> QED
      BY <1>1, <3>1, <3>2 DEF TypeOK
  <2>4. TypeOK'
    BY <1>1, <2>1, <2>3 DEF TypeOK
  <2>5. \A n \in 1..Len(scan) : Merged(i - 1, n)' = Merged(i, n)
    BY <2>1 DEF Merged, Strongest, Same
  <2>6. MergeInv'
    BY <1>1, <2>1, <2>2, <2>5 DEF MergeInv
  <2>7. CompactInv'
    BY <2>1 DEF CompactInv
  <2> QED
    BY <2>4, <2>6, <2>7 DEF IInv
<1>3. CASE MergeEnds
  <2>1. /\ phase = "merge" /\ i >= Len(list) /\ phase' = "compact" /\ i' = 1 /\ i' - 1 = 0
        /\ scan' = scan /\ list' = list /\ firstFree' = firstFree /\ total' = total
    BY <1>3 DEF MergeEnds
  <2>2. Packed(0) /\ Unpacked(0)
    BY <1>1, <2>1, MergeLeaves
  <2>3. Packed(i - 1)' /\ Unpacked(i - 1)'
    <3>1. Place(i - 1)' = Place(0)
      BY <2>1 DEF Place, IsFirst, Same
    <3> QED
      BY <2>1, <2>2, <3>1, ReferenceKept DEF Packed, Unpacked
  <2>4. TypeOK'
    BY <1>1, <2>1 DEF TypeOK
  <2> QED
    BY <2>1, <2>3, <2>4 DEF IInv, MergeInv, CompactInv
<1>4. CASE Compact
  <2>1. /\ phase = "compact" /\ phase' = phase /\ scan' = scan /\ i' = i + 1 /\ i \in 1..Len(scan)
        /\ i' - 1 = i
    BY <1>1, <1>4 DEF Compact, TypeOK
  <2>2. Packed(i - 1) /\ Unpacked(i - 1)
    BY <1>1, <2>1 DEF CompactInv
  <2>3. Packed(i - 1)' /\ Unpacked(i - 1)' /\ list' \in Seq(Record) /\ Len(list') = Len(list)
    BY <1>1, <1>4, <2>2, CompactStep
  <2>4. Place(i) \in 0..i
    BY <1>1, <2>1, PlaceType
  <2>5. /\ total' + i = Len(scan) + Place(i)
        /\ firstFree' = IF Place(i) = i THEN 0 ELSE Place(i) + 1
    <3>1. Place(i - 1)' = Place(i)
      BY <2>1 DEF Place, IsFirst, Same
    <3> QED
      BY <2>1, <2>3, <3>1 DEF Packed
  <2>6. total' \in 0..Len(list) /\ firstFree' \in 0..Len(list)
    <3>1. total' \in Int
      BY <1>1, <1>4 DEF TypeOK, Compact
    <3> QED
      BY <1>1, <2>1, <2>4, <2>5, <3>1
  <2>7. TypeOK'
    BY <1>1, <2>1, <2>3, <2>6 DEF TypeOK
  <2> QED
    BY <2>1, <2>3, <2>7 DEF IInv, MergeInv, CompactInv
<1>5. CASE CompactEnds
  <2>1. /\ phase = "compact" /\ i > Len(list) /\ phase' = "done" /\ i' = i
        /\ scan' = scan /\ list' = list /\ firstFree' = firstFree /\ total' = total
    BY <1>5 DEF CompactEnds
  <2>2. Packed(i - 1) /\ Unpacked(i - 1) /\ i = Len(scan) + 1
    BY <1>1, <2>1 DEF CompactInv, TypeOK
  <2>3. Packed(i - 1)' /\ Unpacked(i - 1)'
    <3>1. Place(i - 1)' = Place(i - 1)
      BY <2>1 DEF Place, IsFirst, Same
    <3> QED
      BY <2>1, <2>2, <3>1, ReferenceKept DEF Packed, Unpacked
  <2>4. TypeOK'
    BY <1>1, <2>1 DEF TypeOK
  <2> QED
    BY <2>1, <2>2, <2>3, <2>4 DEF IInv, MergeInv, CompactInv
<1>6. CASE UNCHANGED vars
  <2>1. /\ scan' = scan /\ list' = list /\ phase' = phase /\ i' = i
        /\ firstFree' = firstFree /\ total' = total
    BY <1>6 DEF vars
  <2>2. TypeOK'
    BY <1>1, <2>1 DEF TypeOK
  <2>3. \A n : Merged(i - 1, n)' = Merged(i - 1, n)
    BY <2>1 DEF Merged, Strongest, Same
  <2>4. MergeInv'
    BY <1>1, <2>1, <2>3 DEF MergeInv
  <2>5. Place(i - 1)' = Place(i - 1)
    BY <2>1 DEF Place, IsFirst, Same
  <2>6. CompactInv'
    BY <1>1, <2>1, <2>5, ReferenceKept DEF CompactInv, Packed, Unpacked
  <2> QED
    BY <2>2, <2>4, <2>6 DEF IInv
<1> QED
  BY <1>2, <1>3, <1>4, <1>5, <1>6 DEF Next

\* The counters and the places the two loops use stay within the list.
THEOREM FilterTypeCorrect == Spec => []TypeOK
<1>1. IInv => TypeOK
  BY DEF IInv
<1> QED
  BY <1>1, InitEstablishes, StepKeeps, PTL DEF Spec

\* For a scan of any length: while records move, first_free is a free place before
\* the counter, and every place before it is taken.
THEOREM FreePlaceIsAlwaysFirst == Spec => []FreePlaceIsFirst
<1>1. IInv => FreePlaceIsFirst
  <2> SUFFICES ASSUME IInv, phase = "compact", firstFree # 0
               PROVE  /\ firstFree < i /\ list[firstFree].ssid = Hidden
                      /\ \A j \in 1..(firstFree - 1) : list[j].ssid # Hidden
    BY DEF FreePlaceIsFirst
  <2>1. TypeOK /\ Packed(i - 1) /\ i \in Nat /\ i >= 1 /\ i - 1 \in 0..Len(scan)
    BY DEF IInv, CompactInv, TypeOK
  <2>2. Place(i - 1) \in 0..(i - 1)
    BY <2>1, PlaceType
  <2>3. firstFree = Place(i - 1) + 1 /\ Place(i - 1) # i - 1
    BY <2>1 DEF Packed
  <2>4. firstFree \in (Place(i - 1) + 1)..(i - 1) /\ firstFree - 1 = Place(i - 1)
    BY <2>1, <2>2, <2>3
  <2> QED
    BY <2>1, <2>4 DEF Packed
<1> QED
  BY <1>1, InitEstablishes, StepKeeps, PTL DEF Spec

\* For a scan of any length, any names, modes and signals: what
\* wifi_manager_filter_unique() returns is the networks of the scan, each once, in
\* order, with its strongest signal.
THEOREM FilterIsCorrect == Spec => []FilterCorrect
<1>1. IInv => FilterCorrect
  <2> SUFFICES ASSUME IInv, phase = "done"
               PROVE  /\ total = Place(Len(scan))
                      /\ \A n \in 1..Len(scan) : IsFirst(n) => list[Place(n)] = Strongest(n)
    BY DEF FilterCorrect
  <2>1. TypeOK /\ Packed(i - 1) /\ i - 1 = Len(scan) /\ Len(scan) \in Nat /\ total \in Nat
    BY DEF IInv, CompactInv, TypeOK
  <2>2. Place(Len(scan)) \in Nat
    BY <2>1, PlaceType
  <2> QED
    BY <2>1, <2>2 DEF Packed
<1> QED
  BY <1>1, InitEstablishes, StepKeeps, PTL DEF Spec

=============================================================================
