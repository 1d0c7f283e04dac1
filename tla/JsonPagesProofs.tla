-------------------------- MODULE JsonPagesProofs ---------------------------
(***************************************************************************)
(* Proofs about JsonBuffer and JsonPages: the buffers stay exclusive for   *)
(* any set of pages, and every page that is sent can be read back, for any *)
(* names.                                                                  *)
(***************************************************************************)
EXTENDS JsonPages, Counting

Letter == Plain \cup Short \cup Control

-----------------------------------------------------------------------------
(* json_print_string(): what it counts and where it writes.                *)

ShortIn(name)   == {i \in 1..Len(name) : name[i] \in Short}
ControlIn(name) == {i \in 1..Len(name) : name[i] \in Control}

LEMMA ExtraCounts ==
  ASSUME NEW name \in Seq(Letter), NEW n \in 0..Len(name)
  PROVE  Extra(name, n) = Count(ShortIn(name), n) + 5 * Count(ControlIn(name), n)
<1>1. /\ {i \in 1..n : name[i] \in Short} = ShortIn(name) \cap (1..n)
      /\ {i \in 1..n : name[i] \in Control} = ControlIn(name) \cap (1..n)
  BY DEF ShortIn, ControlIn
<1> QED
  BY <1>1 DEF Extra, Count

LEMMA ExtraType ==
  ASSUME NEW name \in Seq(Letter), NEW n \in 0..Len(name)
  PROVE  Extra(name, n) \in Nat
<1>1. /\ n \in Nat /\ Count(ShortIn(name), n) \in 0..n /\ Count(ControlIn(name), n) \in 0..n
  BY CountType
<1> QED
  BY <1>1, ExtraCounts

\* A character becomes one of the pieces a reader knows, and stands for itself.
LEMMA EscapedIsPiece ==
  ASSUME NEW c \in Letter
  PROVE  /\ [text |-> Escaped(c), char |-> c] \in Piece
         /\ Len(Escaped(c)) = 1 + (IF c \in Short THEN 1 ELSE 0) + (IF c \in Control THEN 5 ELSE 0)
         /\ Len(Escaped(c)) \in Nat /\ Len(Escaped(c)) >= 1
  BY DEF Letter, Plain, Short, Control, Escaped, Piece

\* The first pass counts what the second adds, character by character.
LEMMA ExtraStep ==
  ASSUME NEW name \in Seq(Letter), NEW n \in 1..Len(name)
  PROVE  Extra(name, n) = Extra(name, n - 1) + Len(Escaped(name[n])) - 1
<1>1. /\ n - 1 \in Nat /\ (n - 1) + 1 = n /\ n - 1 \in 0..Len(name) /\ n \in 0..Len(name)
      /\ name[n] \in Letter
  OBVIOUS
<1>2. /\ Count(ShortIn(name), n) = Count(ShortIn(name), n - 1) + (IF n \in ShortIn(name) THEN 1 ELSE 0)
      /\ Count(ControlIn(name), n) = Count(ControlIn(name), n - 1) + (IF n \in ControlIn(name) THEN 1 ELSE 0)
  BY <1>1, CountStep
<1>3. (n \in ShortIn(name) <=> name[n] \in Short) /\ (n \in ControlIn(name) <=> name[n] \in Control)
  BY DEF ShortIn, ControlIn
<1>4. Count(ShortIn(name), n - 1) \in Nat /\ Count(ControlIn(name), n - 1) \in Nat
  BY <1>1, CountType
<1>5. /\ Extra(name, n) = Count(ShortIn(name), n) + 5 * Count(ControlIn(name), n)
      /\ Extra(name, n - 1) = Count(ShortIn(name), n - 1) + 5 * Count(ControlIn(name), n - 1)
  BY <1>1, ExtraCounts
<1>6. Len(Escaped(name[n]))
        = 1 + (IF name[n] \in Short THEN 1 ELSE 0) + (IF name[n] \in Control THEN 5 ELSE 0)
  BY <1>1, EscapedIsPiece
<1> QED
  BY <1>2, <1>3, <1>4, <1>5, <1>6

LEMMA ExtraNone == ASSUME NEW name \in Seq(Letter) PROVE Extra(name, 0) = 0
<1>1. 0 \in 0..Len(name) /\ Count(ShortIn(name), 0) = 0 /\ Count(ControlIn(name), 0) = 0
  BY CountNone
<1> QED
  BY <1>1, ExtraCounts

LEMMA ExtraMonotone ==
  ASSUME NEW name \in Seq(Letter), NEW n \in 0..Len(name), NEW m \in 0..n
  PROVE  Extra(name, m) <= Extra(name, n)
<1>1. n \in Nat /\ m \in Nat /\ m \in 0..Len(name)
  OBVIOUS
<1>2. /\ Count(ShortIn(name), m) <= Count(ShortIn(name), n)
      /\ Count(ControlIn(name), m) <= Count(ControlIn(name), n)
  BY <1>1, CountMonotone
<1>3. /\ Count(ShortIn(name), m) \in Nat /\ Count(ShortIn(name), n) \in Nat
      /\ Count(ControlIn(name), m) \in Nat /\ Count(ControlIn(name), n) \in Nat
  BY <1>1, CountType
<1> QED
  BY <1>1, <1>2, <1>3, ExtraCounts

LEMMA PointerFacts ==
  ASSUME NEW name \in Seq(Letter)
  PROVE  /\ Pointer(name, 1) = 1
         /\ \A i \in 1..(Len(name) + 1) : Pointer(name, i) \in Nat /\ Pointer(name, i) >= 1
         /\ \A i \in 1..Len(name) : Pointer(name, i + 1) = Pointer(name, i) + Len(Escaped(name[i]))
         /\ \A i \in 1..(Len(name) + 1) : \A j \in 1..i : Pointer(name, j) <= Pointer(name, i)
         /\ Pointer(name, Len(name) + 1) = Len(name) + Extra(name, Len(name)) + 1
<1>1. Pointer(name, 1) = 1
  BY ExtraNone DEF Pointer
<1>2. ASSUME NEW i \in 1..(Len(name) + 1) PROVE Pointer(name, i) \in Nat /\ Pointer(name, i) >= 1
  <2>1. i - 1 \in 0..Len(name)
    OBVIOUS
  <2> QED
    BY <2>1, ExtraType DEF Pointer
<1>3. ASSUME NEW i \in 1..Len(name)
      PROVE  Pointer(name, i + 1) = Pointer(name, i) + Len(Escaped(name[i]))
  <2>1. /\ (i + 1) - 1 = i /\ i - 1 \in 0..Len(name) /\ name[i] \in Letter
        /\ i \in Nat
    OBVIOUS
  <2>2. Extra(name, i - 1) \in Nat /\ Len(Escaped(name[i])) \in Nat
    BY <2>1, ExtraType, EscapedIsPiece
  <2> QED
    BY <2>1, <2>2, ExtraStep DEF Pointer
<1>4. ASSUME NEW i \in 1..(Len(name) + 1), NEW j \in 1..i
      PROVE  Pointer(name, j) <= Pointer(name, i)
  <2>1. i - 1 \in 0..Len(name) /\ j - 1 \in 0..(i - 1) /\ j - 1 \in 0..Len(name) /\ j <= i
    OBVIOUS
  <2>2. Extra(name, j - 1) <= Extra(name, i - 1) /\ Extra(name, j - 1) \in Nat /\ Extra(name, i - 1) \in Nat
    BY <2>1, ExtraMonotone, ExtraType
  <2> QED
    BY <2>1, <2>2 DEF Pointer
<1>5. Pointer(name, Len(name) + 1) = Len(name) + Extra(name, Len(name)) + 1
  <2>1. (Len(name) + 1) - 1 = Len(name) /\ Len(name) \in 0..Len(name)
    OBVIOUS
  <2>2. Extra(name, Len(name)) \in Nat
    BY <2>1, ExtraType
  <2> QED
    BY <2>1, <2>2 DEF Pointer
<1> QED
  BY <1>1, <1>2, <1>3, <1>4, <1>5

\* The second pass puts each character where the count says.
LEMMA CopiedAt ==
  ASSUME NEW name \in Seq(Letter), NEW i \in 1..Len(name), NEW k \in 1..Len(Escaped(name[i]))
  PROVE  /\ Pointer(name, i) + k - 1 \in 1..(Len(name) + Extra(name, Len(name)))
         /\ Copied(name)[Pointer(name, i) + k - 1] = Escaped(name[i])[k]
<1> DEFINE at(j) == Pointer(name, j)
           q == at(i) + k - 1
           Holds(j) == at(j) <= q /\ q < at(j + 1)
<1>1. /\ Len(name) \in Nat /\ i \in Nat /\ name[i] \in Letter
      /\ Len(Escaped(name[i])) \in Nat /\ k \in Nat /\ k >= 1 /\ k <= Len(Escaped(name[i]))
  BY EscapedIsPiece
<1>2. /\ at(i) \in Nat /\ at(i) >= 1 /\ at(i + 1) = at(i) + Len(Escaped(name[i]))
      /\ at(i + 1) <= at(Len(name) + 1) /\ at(Len(name) + 1) \in Nat
      /\ at(Len(name) + 1) = Len(name) + Extra(name, Len(name)) + 1
  BY <1>1, PointerFacts
<1>3. Extra(name, Len(name)) \in Nat
  BY <1>1, ExtraType
<1>4. q \in 1..(Len(name) + Extra(name, Len(name))) /\ Holds(i)
  BY <1>1, <1>2, <1>3
<1>5. ASSUME NEW j \in 1..Len(name), Holds(j) PROVE j = i
  <2>1. at(j) \in Nat /\ at(j + 1) \in Nat /\ at(i) \in Nat /\ at(i + 1) \in Nat
    BY <1>1, PointerFacts
  <2>2. CASE j < i
    <3>1. at(j + 1) <= at(i)
      <4>1. j + 1 \in 1..i /\ i \in 1..(Len(name) + 1)
        BY <1>1, <2>2
      <4> QED
        BY <4>1, PointerFacts
    <3> QED
      BY <1>4, <1>5, <2>1, <3>1
  <2>3. CASE i < j
    <3>1. at(i + 1) <= at(j)
      <4>1. i + 1 \in 1..j /\ j \in 1..(Len(name) + 1)
        BY <1>1, <2>3
      <4> QED
        BY <4>1, PointerFacts
    <3> QED
      BY <1>4, <1>5, <2>1, <3>1
  <2> QED
    BY <1>1, <2>2, <2>3
<1>6. (CHOOSE j \in 1..Len(name) : at(j) <= q /\ q < at(j + 1)) = i
  BY <1>4, <1>5
<1>7. Copied(name)[q] = Escaped(name[i])[q - at(i) + 1]
  BY <1>4, <1>6 DEF Copied
<1>8. q - at(i) + 1 = k
  BY <1>1, <1>2
<1> QED
  BY <1>4, <1>7, <1>8

\* What both passes print of one name is read back as that name.
LEMMA PrintedIsRead ==
  ASSUME NEW name \in Seq(Letter)
  PROVE  ReadAs(SecondPass(name, FirstPass(name)), name)
<1> DEFINE e == Extra(name, Len(name))
           length == Len(name) + e
           copy == IF e = 0 THEN name ELSE Copied(name)
           s == SecondPass(name, FirstPass(name))
           at == [i \in 1..(Len(name) + 1) |-> Pointer(name, i) + 1]
<1>1. Len(name) \in Nat /\ e \in Nat /\ length \in Nat
  BY ExtraType
<1>2. Len(copy) = length
  <2>1. CASE e = 0
    BY <1>1, <2>1
  <2>2. CASE e # 0
    BY <1>1, <2>2 DEF Copied
  <2> QED
    BY <2>1, <2>2
<1>3. s = [k \in 1..(length + 2) |-> IF k \in {1, length + 2} THEN "quote" ELSE copy[k - 1]]
  BY <1>1, <1>2 DEF SecondPass, FirstPass
<1>4. ASSUME NEW i \in 1..Len(name), NEW k \in 1..Len(Escaped(name[i]))
      PROVE  /\ Pointer(name, i) + k - 1 \in 1..length
             /\ copy[Pointer(name, i) + k - 1] = Escaped(name[i])[k]
  <2>1. Pointer(name, i) + k - 1 \in 1..length
    BY CopiedAt
  <2>2. CASE e # 0
    BY <2>1, <2>2, CopiedAt
  <2>3. CASE e = 0
    <3>1. i \in 0..Len(name) /\ i - 1 \in 0..Len(name) /\ name[i] \in Letter /\ i \in 1..Len(name)
      OBVIOUS
    <3>2. Extra(name, i) = 0 /\ Extra(name, i - 1) = 0
      <4>1. Extra(name, i) <= e /\ Extra(name, i - 1) <= e
        BY <3>1, ExtraMonotone
      <4> QED
        BY <2>3, <3>1, <4>1, ExtraType
    <3>3. Len(Escaped(name[i])) = 1
      <4> DEFINE n == Len(Escaped(name[i]))
      <4>1. Extra(name, i) = Extra(name, i - 1) + n - 1
        BY ExtraStep
      <4>2. n \in Nat
        BY <3>1, EscapedIsPiece
      <4> HIDE DEF n
      <4>3. 0 = 0 + n - 1
        BY <3>2, <4>1
      <4>4. n = 1
        BY <4>2, <4>3
      <4> QED
        BY <4>4 DEF n
    <3>4. Escaped(name[i]) = <<name[i]>>
      BY <3>1, <3>3 DEF Escaped, Letter, Plain, Short, Control
    <3>5. k = 1 /\ Pointer(name, i) = i
      BY <3>2, <3>3 DEF Pointer
    <3> QED
      BY <2>1, <2>3, <3>1, <3>4, <3>5
  <2> QED
    BY <2>2, <2>3
<1> HIDE DEF copy
<1>5. Len(s) = length + 2 /\ s[1] = "quote" /\ s[Len(s)] = "quote"
  BY <1>1, <1>3
<1>6. at \in [1..(Len(name) + 1) -> 1..Len(s)] /\ at[1] = 2 /\ at[Len(name) + 1] = Len(s)
  <2>1. Pointer(name, Len(name) + 1) = length + 1 /\ Pointer(name, 1) = 1
    BY PointerFacts
  <2>2. \A i \in 1..(Len(name) + 1) :
          Pointer(name, i) \in Nat /\ Pointer(name, i) <= Pointer(name, Len(name) + 1)
    <3>1. Len(name) + 1 \in 1..(Len(name) + 1)
      BY <1>1
    <3> QED
      BY <3>1, PointerFacts
  <2>3. \A i \in 1..(Len(name) + 1) : Pointer(name, i) + 1 \in 1..Len(s)
    BY <1>1, <1>5, <2>1, <2>2
  <2> QED
    BY <1>1, <1>5, <2>1, <2>3
<1>7. ASSUME NEW i \in 1..Len(name)
      PROVE  \E p \in Piece :
               /\ p.char = name[i] /\ at[i + 1] = at[i] + Len(p.text)
               /\ \A k \in 1..Len(p.text) : s[at[i] + k - 1] = p.text[k]
  <2> DEFINE p == [text |-> Escaped(name[i]), char |-> name[i]]
  <2>1. name[i] \in Letter /\ i \in 1..(Len(name) + 1) /\ i + 1 \in 1..(Len(name) + 1)
    OBVIOUS
  <2>2. p \in Piece /\ Len(Escaped(name[i])) \in Nat
    BY <2>1, EscapedIsPiece
  <2>3. Pointer(name, i) \in Nat /\ Pointer(name, i + 1) = Pointer(name, i) + Len(Escaped(name[i]))
    BY <2>1, PointerFacts
  <2>4. at[i + 1] = at[i] + Len(Escaped(name[i]))
    BY <2>1, <2>2, <2>3
  <2>5. ASSUME NEW k \in 1..Len(Escaped(name[i])) PROVE s[at[i] + k - 1] = Escaped(name[i])[k]
    <3>1. /\ Pointer(name, i) + k - 1 \in 1..length
          /\ copy[Pointer(name, i) + k - 1] = Escaped(name[i])[k]
      BY <1>4
    <3>2. /\ at[i] + k - 1 \in 2..(length + 1)
          /\ (at[i] + k - 1) - 1 = Pointer(name, i) + k - 1
      <4>1. at[i] = Pointer(name, i) + 1
        BY <2>1
      <4> HIDE DEF at, length
      <4> QED
        BY <1>1, <2>2, <2>3, <3>1, <4>1
    <3>3. s[at[i] + k - 1] = copy[(at[i] + k - 1) - 1]
      <4> HIDE DEF at, length, s
      <4>1. at[i] + k - 1 \in 1..(length + 2) /\ at[i] + k - 1 \notin {1, length + 2}
        BY <1>1, <3>2
      <4> QED
        BY <1>3, <4>1
    <3> QED
      BY <3>1, <3>2, <3>3
  <2> QED
    BY <2>2, <2>4, <2>5
<1> QED
  BY <1>5, <1>6, <1>7 DEF ReadAs, ReadBy

-----------------------------------------------------------------------------
(* The reference reader is deterministic.                                  *)

LEMMA PieceCases ==
  ASSUME NEW p \in Piece
  PROVE  \/ p = [text |-> <<"t">>, char |-> "t"]
         \/ p = [text |-> <<"backslash", "quote">>, char |-> "quote"]
         \/ p = [text |-> <<"backslash", "backslash">>, char |-> "backslash"]
         \/ p = [text |-> <<"backslash", "t">>, char |-> "tab"]
         \/ p = [text |-> <<"backslash", "u", "0", "0", "0", "0">>, char |-> "control"]
  BY DEF Piece, Plain

LEMMA PieceType ==
  ASSUME NEW p \in Piece
  PROVE  Len(p.text) \in {1, 2, 6}
<1>1. CASE p = [text |-> <<"t">>, char |-> "t"]
  BY <1>1
<1>2. CASE p = [text |-> <<"backslash", "quote">>, char |-> "quote"]
  BY <1>2
<1>3. CASE p = [text |-> <<"backslash", "backslash">>, char |-> "backslash"]
  BY <1>3
<1>4. CASE p = [text |-> <<"backslash", "t">>, char |-> "tab"]
  BY <1>4
<1>5. CASE p = [text |-> <<"backslash", "u", "0", "0", "0", "0">>, char |-> "control"]
  BY <1>5
<1> QED
  BY <1>1, <1>2, <1>3, <1>4, <1>5, PieceCases

\* No piece begins like another.
LEMMA PiecesDiffer ==
  ASSUME NEW p \in Piece, NEW q \in Piece, p # q
  PROVE  \E k \in 1..Len(p.text) : k \in 1..Len(q.text) /\ p.text[k] # q.text[k]
<1> DEFINE Second(r) == CASE r.char = "quote" -> "quote" [] r.char = "backslash" -> "backslash"
                          [] r.char = "tab" -> "t" [] r.char = "control" -> "u"
<1>1. ASSUME NEW r \in Piece
      PROVE  \/ r = [text |-> <<"t">>, char |-> "t"] /\ Len(r.text) = 1 /\ r.text[1] = "t"
             \/ /\ r.char # "t" /\ Len(r.text) >= 2 /\ Len(r.text) \in Nat
                /\ r.text[1] = "backslash" /\ r.text[2] = Second(r)
  <2>1. CASE r = [text |-> <<"t">>, char |-> "t"]
    BY <2>1
  <2>2. CASE r = [text |-> <<"backslash", "quote">>, char |-> "quote"]
    BY <2>2
  <2>3. CASE r = [text |-> <<"backslash", "backslash">>, char |-> "backslash"]
    BY <2>3
  <2>4. CASE r = [text |-> <<"backslash", "t">>, char |-> "tab"]
    BY <2>4
  <2>5. CASE r = [text |-> <<"backslash", "u", "0", "0", "0", "0">>, char |-> "control"]
    BY <2>5
  <2> QED
    BY <2>1, <2>2, <2>3, <2>4, <2>5, PieceCases
<1>2. CASE p.char = "t" \/ q.char = "t"
  <2>1. p.text[1] # q.text[1] /\ 1 \in 1..Len(p.text) /\ 1 \in 1..Len(q.text)
    BY <1>1, <1>2
  <2> QED
    BY <2>1
<1>3. CASE p.char # "t" /\ q.char # "t"
  <2>1. p.char # q.char
    BY <1>3, PieceCases
  <2>2. Second(p) # Second(q)
    BY <1>3, <2>1, PieceCases
  <2> HIDE DEF Second
  <2>3. Len(p.text) >= 2 /\ Len(p.text) \in Nat /\ p.text[2] = Second(p)
    BY <1>1, <1>3
  <2>4. Len(q.text) >= 2 /\ Len(q.text) \in Nat /\ q.text[2] = Second(q)
    BY <1>1, <1>3
  <2> QED
    BY <2>2, <2>3, <2>4
<1> QED
  BY <1>2, <1>3

\* Two readings of one string agree as far as the first of them goes.
LEMMA ReadingsAgree ==
  ASSUME NEW s, Len(s) \in Nat, NEW a \in Seq(Letter), NEW b \in Seq(Letter),
         NEW f \in [1..(Len(a) + 1) -> 1..Len(s)], ReadBy(s, a, f),
         NEW g \in [1..(Len(b) + 1) -> 1..Len(s)], ReadBy(s, b, g)
  PROVE  Len(a) <= Len(b) /\ \A i \in 1..Len(a) : a[i] = b[i]
<1> DEFINE Agree(n) == n <= Len(b) /\ f[n + 1] = g[n + 1] /\ \A i \in 1..n : a[i] = b[i]
           P == {n \in Nat : n <= Len(a) => Agree(n)}
<1>1. 0 \in P
  BY DEF ReadBy
<1>2. ASSUME NEW n \in P PROVE n + 1 \in P
  <2> SUFFICES ASSUME n + 1 <= Len(a) PROVE Agree(n + 1)
    OBVIOUS
  <2>1. n \in Nat /\ Agree(n) /\ n + 1 \in 1..Len(a)
    OBVIOUS
  <2>2. PICK p \in Piece :
          /\ p.char = a[n + 1] /\ f[(n + 1) + 1] = f[n + 1] + Len(p.text)
          /\ \A k \in 1..Len(p.text) : s[f[n + 1] + k - 1] = p.text[k]
    BY <2>1 DEF ReadBy
  <2>3. n + 1 <= Len(b)
    <3> SUFFICES ASSUME n = Len(b) PROVE FALSE
      BY <2>1
    <3>1. f[n + 1] = Len(s)
      BY <2>1 DEF ReadBy
    <3>2. f[(n + 1) + 1] \in 1..Len(s)
      BY <2>1
    <3> DEFINE m == Len(p.text)
    <3>3. m \in {1, 2, 6} /\ f[(n + 1) + 1] = Len(s) + m
      BY <2>2, <3>1, PieceType
    <3> HIDE DEF m
    <3> QED
      BY <3>2, <3>3
  <2>4. PICK q \in Piece :
          /\ q.char = b[n + 1] /\ g[(n + 1) + 1] = g[n + 1] + Len(q.text)
          /\ \A k \in 1..Len(q.text) : s[g[n + 1] + k - 1] = q.text[k]
    <3>1. n + 1 \in 1..Len(b)
      BY <2>1, <2>3
    <3> QED
      BY <3>1 DEF ReadBy
  <2>5. p = q
    BY <2>1, <2>2, <2>4, PiecesDiffer
  <2>6. \A i \in 1..(n + 1) : i \in 1..n \/ i = n + 1
    BY <2>1
  <2> QED
    BY <2>1, <2>2, <2>3, <2>4, <2>5, <2>6
<1>3. Nat \subseteq P
  <2> HIDE DEF P
  <2>1. P \in SUBSET Nat
    BY DEF P
  <2> QED
    BY <1>1, <1>2, <2>1, SetInduction
<1>4. Agree(Len(a))
  BY <1>3
<1> QED
  BY <1>4

\* A string is read as at most one name: a page that ReadAs() relates to the names
\* it was printed from cannot be taken for another.
THEOREM ReaderIsDeterministic ==
  ASSUME NEW s, Len(s) \in Nat, NEW a \in Seq(Letter), NEW b \in Seq(Letter),
         ReadAs(s, a), ReadAs(s, b)
  PROVE  a = b
<1>1. PICK f \in [1..(Len(a) + 1) -> 1..Len(s)] : ReadBy(s, a, f)
  BY DEF ReadAs
<1>2. PICK g \in [1..(Len(b) + 1) -> 1..Len(s)] : ReadBy(s, b, g)
  BY DEF ReadAs
<1>3. Len(a) <= Len(b) /\ \A i \in 1..Len(a) : a[i] = b[i]
  BY <1>1, <1>2, ReadingsAgree
<1>4. Len(b) <= Len(a)
  BY <1>1, <1>2, ReadingsAgree
<1> QED
  BY <1>3, <1>4

-----------------------------------------------------------------------------
(* The mutex.                                                              *)

\* The inductive invariant: a task that uses a buffer is the holder of the mutex.
UserHolds == \A t \in Task : pc[t] = "using" => holder = t

BufferInv == TypeOK /\ UserHolds

\* What a task may start is a job.
LEMMA JobsAreJobs == \A t \in Task : Jobs(t) \subseteq Job
  BY RouteAssumption DEF Task, Jobs, Job, ManagerJob, HttpJob

\* Init and every step of JsonBuffer keep the types.
LEMMA TypeStep == TypeOK /\ [Next]_vars => TypeOK'
<1> SUFFICES ASSUME TypeOK, [Next]_vars PROVE TypeOK'
  OBVIOUS
<1> USE DEF TypeOK
<1>1. ASSUME NEW t \in Task, Begin(t) PROVE TypeOK'
  BY <1>1, JobsAreJobs DEF Begin, Moves
<1>2. ASSUME NEW t \in Task, Lock(t) PROVE TypeOK'
  BY <1>2 DEF Lock, Moves
<1>3. ASSUME NEW t \in Task, LockTimesOut(t) PROVE TypeOK'
  BY <1>3 DEF LockTimesOut, Moves
<1>4. ASSUME NEW t \in Task, Unlock(t) \/ UnlockAgain(t) PROVE TypeOK'
  BY <1>4 DEF Unlock, UnlockAgain, Moves, Give
<1>5. CASE Restart
  BY <1>5 DEF Restart
<1>6. CASE UNCHANGED vars
  BY <1>6 DEF vars
<1> QED
  BY <1>1, <1>2, <1>3, <1>4, <1>5, <1>6 DEF Next, Proceeds

\* Only the holder uses a buffer: a mutex is given back by its holder, or the
\* firmware aborts.
LEMMA HolderStep == BufferInv /\ [Next]_vars => UserHolds'
<1> SUFFICES ASSUME BufferInv, [Next]_vars PROVE UserHolds'
  OBVIOUS
<1> USE DEF BufferInv, TypeOK, UserHolds
<1>1. ASSUME NEW t \in Task, Begin(t) PROVE UserHolds'
  BY <1>1 DEF Begin, Moves
<1>2. ASSUME NEW t \in Task, Lock(t) PROVE UserHolds'
  BY <1>2, NobodyAssumption DEF Lock, Moves
<1>3. ASSUME NEW t \in Task, LockTimesOut(t) PROVE UserHolds'
  BY <1>3 DEF LockTimesOut, Moves
<1>4. ASSUME NEW t \in Task, Unlock(t) \/ UnlockAgain(t) PROVE UserHolds'
  BY <1>4, NobodyAssumption DEF Unlock, UnlockAgain, Moves, Give
<1>5. CASE Restart
  BY <1>5 DEF Restart
<1>6. CASE UNCHANGED vars
  BY <1>6 DEF vars
<1> QED
  BY <1>1, <1>2, <1>3, <1>4, <1>5, <1>6 DEF Next, Proceeds

\* For every set of pages requested, no json buffer is used by a task while
\* another task is rewriting it.
THEOREM BuffersAreExclusive == Spec => []NobodySeesPartial
<1>1. Init => BufferInv
  BY DEF Init, BufferInv, TypeOK, UserHolds, Task, Job, ManagerJob, HttpJob
<1>2. BufferInv /\ [Next]_vars => BufferInv'
  BY TypeStep, HolderStep DEF BufferInv
<1>3. BufferInv => NobodySeesPartial
  BY DEF BufferInv, UserHolds, NobodySeesPartial
<1> QED
  BY <1>1, <1>2, <1>3, PTL DEF Spec

\* The mutex is held only by a task in the middle of a job, which gives it back: the
\* safety half of MutexObtained.
MutexInUse == holder # Nobody => pc[holder] = "using"

LEMMA MutexStep == BufferInv /\ MutexInUse /\ [Next]_vars => MutexInUse'
<1> SUFFICES ASSUME BufferInv, MutexInUse, [Next]_vars PROVE MutexInUse'
  OBVIOUS
<1> USE NobodyAssumption DEF BufferInv, TypeOK, UserHolds, MutexInUse
<1>1. ASSUME NEW t \in Task, Begin(t) PROVE MutexInUse'
  BY <1>1 DEF Begin, Moves
<1>2. ASSUME NEW t \in Task, Lock(t) PROVE MutexInUse'
  BY <1>2 DEF Lock, Moves
<1>3. ASSUME NEW t \in Task, LockTimesOut(t) PROVE MutexInUse'
  BY <1>3 DEF LockTimesOut, Moves
<1>4. ASSUME NEW t \in Task, Unlock(t) \/ UnlockAgain(t) PROVE MutexInUse'
  BY <1>4 DEF Unlock, UnlockAgain, Moves, Give
<1>5. CASE Restart
  BY <1>5 DEF Restart
<1>6. CASE UNCHANGED vars
  BY <1>6 DEF vars
<1> QED
  BY <1>1, <1>2, <1>3, <1>4, <1>5, <1>6 DEF Next, Proceeds

\* For every set of pages requested: no path through a lock, a timeout or the second
\* unlock of GET /register.json leaves the mutex taken with nobody to give it back.
THEOREM MutexNotOrphaned == Spec => []MutexInUse
<1>1. Init => BufferInv /\ MutexInUse
  BY DEF Init, BufferInv, TypeOK, UserHolds, MutexInUse, Task, Job, ManagerJob, HttpJob
<1>2. BufferInv /\ [Next]_vars => BufferInv'
  BY TypeStep, HolderStep DEF BufferInv
<1> QED
  BY <1>1, <1>2, MutexStep, PTL DEF Spec

\* The pages are JsonBuffer with more state: every step of JsonPages is a step of
\* JsonBuffer or leaves its state alone.
LEMMA PagesStepRefines == [PagesNext]_allVars => [Next]_vars
<1> SUFFICES ASSUME [PagesNext]_allVars PROVE [Next]_vars
  OBVIOUS
<1>1. ASSUME NEW t \in Task, PageBegin(t) \/ PageLock(t) \/ PageTimesOut(t) PROVE Next
  BY <1>1 DEF PageBegin, PageLock, PageTimesOut, Next
<1>2. ASSUME NEW t \in Task, PageUnlock(t) \/ UnlockAgain(t) PROVE Next
  BY <1>2 DEF PageUnlock, Next, Proceeds
<1>3. ASSUME NEW t \in Task, Generate(t) PROVE UNCHANGED vars
  BY <1>3 DEF Generate, Clear, StatusCount, StatusCopy, ListBegin, ListPrint, Using
<1>4. CASE PostConfig \/ ManagerConfig
  BY <1>4 DEF PostConfig, ManagerConfig
<1>5. CASE PageRestart
  BY <1>5 DEF PageRestart, Next
<1>6. CASE UNCHANGED allVars
  BY <1>6 DEF allVars
<1> QED
  BY <1>1, <1>2, <1>3, <1>4, <1>5, <1>6 DEF PagesNext, PageProceeds

\* JsonPages implements JsonBuffer.
THEOREM PagesImplementBuffer == PagesSpec => Spec
<1>1. PagesInit => Init
  BY DEF PagesInit
<1> QED
  BY <1>1, PagesStepRefines, PTL DEF PagesSpec, Spec

-----------------------------------------------------------------------------
(* The pages.                                                              *)

\* A buffer cannot be read while the manager is between the two halves of its
\* generation, or while POST /connect.json, which may have torn it, is on its way to
\* clearing it.
ListWriting   == pc["manager"] = "using" /\ job["manager"] = "scan" /\ stage["manager"] = "counted"
StatusWriting == pc["manager"] = "using" /\ job["manager"] = "status_update" /\ stage["manager"] = "counted"

PostUnderway ==
  /\ job["http"] = "connect.json"
  /\ \/ pc["http"] = "lock" /\ posting # "none"
     \/ pc["http"] = "using" /\ stage["http"] = "start"

PagesTypeOK ==
  /\ text = [b \in {"ap", "ip"} |-> text[b]]
  /\ ssid \in Name \cup {<<>>}
  /\ stage \in [Task -> {"start", "counted", "done"}]

ListInv == ListWriting \/ Readable(text["ap"])

StatusInv ==
  /\ StatusWriting \/ PostUnderway \/ Readable(text["ip"])
  /\ StatusWriting => counted = FirstPass(ssid) \/ PostUnderway

PagesInv == BufferInv /\ PagesTypeOK /\ ListInv /\ StatusInv

LEMMA ClearedIsReadable == Readable(Cleared)
  BY DEF Readable, Cleared

LEMMA NamesAreLetters == ASSUME NEW name \in Name \cup {<<>>} PROVE name \in Seq(Letter)
<1>1. <<>> \in Seq(Letter)
  OBVIOUS
<1>2. Name \subseteq Seq(Letter)
  BY NameAssumption DEF Letter
<1> QED
  BY <1>1, <1>2

\* A page on which every name was counted and copied in one state can be read.
LEMMA PrintedIsReadable ==
  ASSUME NEW n \in Nat, NEW list \in [1..n -> Name \cup {<<>>}],
         NEW end, end = "closed" \/ (end = "missing" /\ n = 0)
  PROVE  Readable([names |-> [i \in 1..n |-> Printed(list[i], FirstPass(list[i]))], end |-> end])
<1> DEFINE names == [i \in 1..n |-> Printed(list[i], FirstPass(list[i]))]
<1>1. Len(names) = n /\ (n = 0 => names = <<>>)
  OBVIOUS
<1>2. ASSUME NEW i \in 1..n PROVE ReadAs(names[i].as, names[i].name)
  <2>1. ReadAs(SecondPass(list[i], FirstPass(list[i])), list[i])
    BY NamesAreLetters, PrintedIsRead
  <2>2. names[i] = [name |-> list[i], as |-> SecondPass(list[i], FirstPass(list[i]))]
    BY DEF Printed
  <2> QED
    BY <2>1, <2>2
<1> HIDE DEF names
<1> DEFINE page == [names |-> names, end |-> end]
<1>3. page.names = names /\ page.end = end
  OBVIOUS
<1> HIDE DEF page
<1>4. Readable(page)
  BY <1>1, <1>2, <1>3 DEF Readable
<1> QED
  BY <1>4 DEF page, names

LEMMA PagesInitEstablishes == PagesInit => PagesInv
<1> SUFFICES ASSUME PagesInit PROVE PagesInv
  OBVIOUS
<1>1. BufferInv
  BY DEF PagesInit, Init, BufferInv, TypeOK, UserHolds, Task, Job, ManagerJob, HttpJob
<1>2. PagesTypeOK
  BY DEF PagesInit, PagesTypeOK
<1>3. text["ap"] = Cleared /\ text["ip"] = Cleared /\ pc["manager"] # "using"
  BY DEF PagesInit, Init, Task
<1> QED
  BY <1>1, <1>2, <1>3, ClearedIsReadable DEF PagesInv, ListInv, StatusInv, StatusWriting

LEMMA PagesTypeStep == PagesInv /\ [PagesNext]_allVars => PagesTypeOK'
<1> SUFFICES ASSUME PagesInv, [PagesNext]_allVars PROVE PagesTypeOK'
  OBVIOUS
<1> USE DEF PagesInv, PagesTypeOK
<1>1. ASSUME NEW t \in Task, PageBegin(t) \/ PageLock(t) \/ PageTimesOut(t) \/ PageUnlock(t)
      PROVE  PagesTypeOK'
  BY <1>1 DEF PageBegin, PageLock, PageTimesOut, PageUnlock
<1>2. ASSUME NEW t \in Task, UnlockAgain(t) /\ UNCHANGED pageVars PROVE PagesTypeOK'
  BY <1>2 DEF pageVars
<1>3. ASSUME NEW t \in Task, Generate(t) PROVE PagesTypeOK'
  BY <1>3 DEF Generate, Clear, StatusCount, StatusCopy, ListBegin, ListPrint, Using
<1>4. CASE PostConfig \/ ManagerConfig
  BY <1>4 DEF PostConfig, ManagerConfig
<1>5. CASE PageRestart
  BY <1>5 DEF PageRestart
<1>6. CASE UNCHANGED allVars
  BY <1>6 DEF allVars, pageVars
<1> QED
  BY <1>1, <1>2, <1>3, <1>4, <1>5, <1>6 DEF PagesNext, PageProceeds

\* A step that leaves the pages, the ssid and the count alone.
LEMMA PagesKept ==
  ASSUME PagesInv, UNCHANGED <<text, ssid, counted>>,
         ListWriting => ListWriting', StatusWriting <=> StatusWriting',
         PostUnderway => PostUnderway'
  PROVE  ListInv' /\ StatusInv'
  BY DEF PagesInv, ListInv, StatusInv

\* The steps of JsonBuffer.
LEMMA BufferStepKeeps ==
  ASSUME PagesInv, NEW t \in Task,
         \/ PageBegin(t) \/ PageLock(t) \/ PageTimesOut(t) \/ PageUnlock(t)
         \/ UnlockAgain(t) /\ UNCHANGED pageVars
  PROVE  ListInv' /\ StatusInv'
<1> USE DEF PagesInv, PagesTypeOK, BufferInv, TypeOK, Moves, ListWriting, StatusWriting, PostUnderway
<1>1. CASE PageBegin(t)
  <2>1. /\ UNCHANGED <<text, ssid, counted>> /\ (ListWriting => ListWriting')
        /\ (StatusWriting <=> StatusWriting') /\ (PostUnderway => PostUnderway')
    BY <1>1 DEF PageBegin, Begin, Task
  <2> QED
    BY <2>1, PagesKept
<1>2. CASE PageLock(t)
  <2>1. /\ UNCHANGED <<text, ssid, counted>> /\ (ListWriting => ListWriting')
        /\ (StatusWriting <=> StatusWriting') /\ (PostUnderway => PostUnderway')
    BY <1>2 DEF PageLock, Lock, Task
  <2> QED
    BY <2>1, PagesKept
<1>3. CASE PageTimesOut(t)
  <2>1. /\ UNCHANGED <<text, ssid, counted>> /\ (ListWriting => ListWriting')
        /\ (StatusWriting <=> StatusWriting') /\ (PostUnderway => PostUnderway')
    BY <1>3 DEF PageTimesOut, LockTimesOut, Bounded, Task
  <2> QED
    BY <2>1, PagesKept
<1>4. CASE PageUnlock(t)
  <2>1. /\ UNCHANGED <<text, ssid, counted>> /\ (ListWriting => ListWriting')
        /\ (StatusWriting <=> StatusWriting') /\ (PostUnderway => PostUnderway')
    BY <1>4 DEF PageUnlock, Unlock, ManagerJob, Task
  <2> QED
    BY <2>1, PagesKept
<1>5. CASE UnlockAgain(t) /\ UNCHANGED pageVars
  <2>1. /\ UNCHANGED <<text, ssid, counted>> /\ (ListWriting => ListWriting')
        /\ (StatusWriting <=> StatusWriting') /\ (PostUnderway => PostUnderway')
    BY <1>5 DEF UnlockAgain, pageVars, Task
  <2> QED
    BY <2>1, PagesKept
<1> QED
  BY <1>1, <1>2, <1>3, <1>4, <1>5

\* The steps between the lock and the unlock.
LEMMA GenerateKeeps ==
  ASSUME PagesInv, NEW t \in Task, Generate(t)
  PROVE  ListInv' /\ StatusInv'
<1>0. /\ text = [b \in {"ap", "ip"} |-> text[b]] /\ stage \in [Task -> {"start", "counted", "done"}]
      /\ UserHolds /\ ListInv /\ StatusInv /\ ssid \in Name \cup {<<>>} /\ TypeOK
  BY DEF PagesInv, PagesTypeOK, BufferInv
<1>1. CASE Clear(t)
  <2>1. /\ text'["ip"] = Cleared /\ text'["ap"] = text["ap"]
    BY <1>0, <1>1 DEF Clear
  <2>2. ListWriting => ListWriting'
    BY <1>0, <1>1 DEF Clear, Using, ListWriting, vars, Task
  <2>3. ~StatusWriting'
    BY <1>0, <1>1 DEF Clear, Using, StatusWriting, vars, UserHolds, Task
  <2> QED
    BY <1>0, <2>1, <2>2, <2>3, ClearedIsReadable DEF ListInv, StatusInv
<1>2. CASE t = "manager" /\ StatusCount
  <2>1. text'["ap"] = text["ap"] /\ StatusWriting' /\ ~ListWriting
    BY <1>0, <1>2 DEF StatusCount, Using, StatusWriting, ListWriting, vars, Task
  <2>2. counted' = FirstPass(ssid') /\ ssid' = ssid
    BY <1>2 DEF StatusCount, Using
  <2> QED
    BY <1>0, <2>1, <2>2 DEF ListInv, StatusInv
<1>3. CASE t = "manager" /\ StatusCopy
  <2>1. /\ text'["ap"] = text["ap"] /\ ~StatusWriting' /\ StatusWriting /\ ~ListWriting
        /\ text'["ip"] = [names |-> <<Printed(ssid, counted)>>, end |-> "closed"]
    BY <1>0, <1>3 DEF StatusCopy, Using, StatusWriting, ListWriting, vars, Task
  <2>2. PostUnderway => PostUnderway'
    BY <1>0, <1>3 DEF StatusCopy, Using, PostUnderway, vars, Task
  <2>3. counted = FirstPass(ssid) => Readable(text'["ip"])
    <3> SUFFICES ASSUME counted = FirstPass(ssid) PROVE Readable(text'["ip"])
      OBVIOUS
    <3> DEFINE list == [i \in 1..1 |-> ssid]
    <3>1. Readable([names |-> [i \in 1..1 |-> Printed(list[i], FirstPass(list[i]))], end |-> "closed"])
      <4>1. list \in [1..1 -> Name \cup {<<>>}]
        BY <1>0
      <4> HIDE DEF list
      <4> QED
        BY <4>1, PrintedIsReadable
    <3>2. [i \in 1..1 |-> Printed(list[i], FirstPass(list[i]))] = <<Printed(ssid, counted)>>
      OBVIOUS
    <3> QED
      BY <2>1, <3>1, <3>2
  <2> QED
    BY <1>0, <2>1, <2>2, <2>3 DEF ListInv, StatusInv
<1>4. CASE t = "manager" /\ ListBegin
  <2>1. text'["ip"] = text["ip"] /\ ListWriting' /\ ~StatusWriting /\ ~StatusWriting'
    BY <1>0, <1>4 DEF ListBegin, Using, StatusWriting, ListWriting, vars, Task
  <2>2. PostUnderway => PostUnderway'
    BY <1>0, <1>4 DEF ListBegin, Using, PostUnderway, vars, Task
  <2> QED
    BY <1>0, <2>1, <2>2 DEF ListInv, StatusInv
<1>5. CASE t = "manager" /\ ListPrint
  <2>1. /\ text'["ip"] = text["ip"] /\ ~StatusWriting /\ ~StatusWriting'
    BY <1>0, <1>5 DEF ListPrint, Using, StatusWriting, vars, Task
  <2>2. PostUnderway => PostUnderway'
    BY <1>0, <1>5 DEF ListPrint, Using, PostUnderway, vars, Task
  <2> DEFINE Page(n, list) == [names |-> [i \in 1..n |-> Printed(list[i], FirstPass(list[i]))],
                               end   |-> IF n = 0 THEN "missing" ELSE "closed"]
  <2>a. PICK n \in 0..MaxList : \E list \in [1..n -> Name] :
          text' = [text EXCEPT !["ap"] = Page(n, list)]
    BY <1>5 DEF ListPrint
  <2>3. PICK list \in [1..n -> Name] : text' = [text EXCEPT !["ap"] = Page(n, list)]
    BY <2>a
  <2>4. Readable(Page(n, list))
    <3>1. n \in Nat /\ list \in [1..n -> Name \cup {<<>>}]
      BY NameAssumption
    <3> QED
      BY <3>1, PrintedIsReadable
  <2>5. text'["ap"] = Page(n, list)
    BY <1>0, <2>3
  <2> QED
    BY <1>0, <2>1, <2>2, <2>4, <2>5 DEF ListInv, StatusInv
<1> QED
  BY <1>1, <1>2, <1>3, <1>4, <1>5 DEF Generate

\* The configuration is replaced without the mutex.
LEMMA ConfigKeeps ==
  ASSUME PagesInv, PostConfig \/ ManagerConfig \/ PageRestart \/ UNCHANGED allVars
  PROVE  ListInv' /\ StatusInv'
<1>0. ListInv /\ StatusInv
  BY DEF PagesInv
<1>1. CASE PostConfig
  <2>1. UNCHANGED <<vars, text, stage, counted>> /\ PostUnderway'
    BY <1>1 DEF PostConfig, PostUnderway, vars
  <2>2. (ListWriting <=> ListWriting') /\ (StatusWriting <=> StatusWriting')
    BY <2>1 DEF ListWriting, StatusWriting, vars
  <2> QED
    BY <1>0, <2>1, <2>2 DEF ListInv, StatusInv
<1>2. CASE ManagerConfig
  <2>1. UNCHANGED <<vars, text, posting, stage, counted>> /\ ~StatusWriting /\ ~StatusWriting'
    BY <1>2 DEF ManagerConfig, StatusWriting, vars
  <2>2. (ListWriting <=> ListWriting') /\ (PostUnderway <=> PostUnderway')
    BY <2>1 DEF ListWriting, PostUnderway, vars
  <2> QED
    BY <1>0, <2>1, <2>2 DEF ListInv, StatusInv
<1>3. CASE PageRestart
  <2>1. text'["ap"] = Cleared /\ text'["ip"] = Cleared /\ ~StatusWriting'
    BY <1>3 DEF PageRestart, Restart, StatusWriting, Task
  <2> QED
    BY <2>1, ClearedIsReadable DEF ListInv, StatusInv
<1>4. CASE UNCHANGED allVars
  BY <1>0, <1>4 DEF allVars, pageVars, vars, ListInv, StatusInv, ListWriting, StatusWriting, PostUnderway
<1> QED
  BY <1>1, <1>2, <1>3, <1>4

LEMMA PagesStepKeeps == PagesInv /\ [PagesNext]_allVars => PagesInv'
<1> SUFFICES ASSUME PagesInv, [PagesNext]_allVars PROVE PagesInv'
  OBVIOUS
<1>1. BufferInv'
  BY PagesStepRefines, TypeStep, HolderStep DEF PagesInv, BufferInv
<1>2. PagesTypeOK'
  BY PagesTypeStep
<1>3. ListInv' /\ StatusInv'
  BY BufferStepKeeps, GenerateKeeps, ConfigKeeps DEF PagesNext, PageProceeds
<1> QED
  BY <1>1, <1>2, <1>3 DEF PagesInv

\* For any names of any length, and however POST /connect.json, the Wi-Fi manager and
\* the ping thread interleave: every status page and list of networks that is sent
\* can be read back as the names it was printed from.
THEOREM PagesAreReadable == PagesSpec => []PageReadable
<1>1. PagesInv => PageReadable
  <2> SUFFICES ASSUME PagesInv, pc["http"] = "using", job["http"] \in {"ap.json", "status.json"}
               PROVE  Readable(text[BufferOf(job["http"])])
    BY DEF PageReadable
  <2>1. ~ListWriting /\ ~StatusWriting
    BY DEF PagesInv, BufferInv, UserHolds, Task, ListWriting, StatusWriting
  <2>2. ~PostUnderway
    BY DEF PostUnderway
  <2> QED
    BY <2>1, <2>2 DEF PagesInv, ListInv, StatusInv, BufferOf
<1> QED
  BY <1>1, PagesInitEstablishes, PagesStepKeeps, PTL DEF PagesSpec

\* The same for the steps of JsonPages: no page is sent and no buffer rewritten in
\* the middle of a rewriting.
THEOREM PagesAreExclusive == PagesSpec => []NobodySeesPartial
  BY PagesImplementBuffer, BuffersAreExclusive, PTL

=============================================================================
