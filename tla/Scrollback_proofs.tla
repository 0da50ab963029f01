-------------------------- MODULE Scrollback_proofs --------------------------
(***************************************************************************)
(* Proofs about Scrollback, for every size of the ring and of the screen:  *)
(* no row that is looked at is NULL; what is selected stays the same text; *)
(* the prompt keys move the view; and the ring implements ScreenLog, step  *)
(* by step.                                                                *)
(***************************************************************************)
EXTENDS Scrollback, SequenceTheorems, WellFoundedInduction, TLAPS

(***************************************************************************)
(* Numbers                                                                 *)
(***************************************************************************)

\* A set of natural numbers that is not empty has a least element.
LEMMA LeastExists ==
    ASSUME NEW S, S \subseteq Nat, S # {}
    PROVE  \E x \in S : \A y \in S : x <= y
<1>. DEFINE Less == {ss \in Nat \X Nat : ss[1] < ss[2]}
<1>1. IsWellFoundedOn(Less, Nat)
  BY NatLessThanWellFounded DEF OpToRel
<1>2. \A x, y \in Nat : x < y => <<x, y>> \in Less
  OBVIOUS
<1>. HIDE DEF Less
<1>3. \E x \in S : \A y \in S : <<y, x>> \notin Less
  BY <1>1, WFMin, Zenon
<1>4. PICK x \in S : \A y \in S : <<y, x>> \notin Less
  BY <1>3
<1>5. \A y \in S : ~(y < x)
  BY <1>2, <1>4
<1>. QED
  BY <1>5

\* Mathematical induction up to n, for the set of the numbers that something holds for
LEMMA InductiveUpTo ==
    ASSUME NEW n \in Nat, NEW S, 0 \in S, \A k \in 0 .. n - 1 : k \in S => k + 1 \in S
    PROVE  0 .. n \subseteq S
<1>. DEFINE Rest == (0 .. n) \ S
<1>. SUFFICES ASSUME Rest # {} PROVE FALSE
  OBVIOUS
<1>1. PICK x \in Rest : \A y \in Rest : x <= y
  <2>1. Rest \subseteq Nat
    OBVIOUS
  <2>. HIDE DEF Rest
  <2>. QED
    BY <2>1, LeastExists
<1>2. x \in 1 .. n /\ x - 1 \in 0 .. n - 1 /\ x - 1 \in 0 .. n /\ x - 1 < x /\ (x - 1) + 1 = x
  BY <1>1
<1>3. x - 1 \in S
  BY <1>1, <1>2
<1>. QED
  BY <1>1, <1>2, <1>3

\* The least of some rows is one of them, and the greatest.
LEMMA MinIs ==
    ASSUME NEW S, S \subseteq Rows, S # {}
    PROVE  Min(S) \in S /\ \A y \in S : Min(S) <= y
<1>1. S \subseteq Nat
  BY GridAssumption DEF Rows
<1>2. \E x \in S : \A y \in S : x <= y
  BY <1>1, LeastExists
<1>. QED
  BY <1>2 DEF Min

LEMMA MaxIs ==
    ASSUME NEW S, S \subseteq Rows, S # {}
    PROVE  Max(S) \in S /\ \A y \in S : Max(S) >= y
<1>. DEFINE T == {NumRows - x : x \in S}
<1>1. T \subseteq Nat /\ T # {} /\ \A x \in S : NumRows - x \in T /\ x \in Int
  <2>1. \A x \in S : x \in Int /\ NumRows - x \in Nat
    BY GridAssumption DEF Rows
  <2>2. T \subseteq Nat
    BY <2>1
  <2>3. T # {}
    OBVIOUS
  <2>. QED
    BY <2>1, <2>2, <2>3
<1>2. \A t \in T : \E x \in S : t = NumRows - x
  OBVIOUS
<1>. HIDE DEF T
<1>3. PICK a \in T : \A b \in T : a <= b
  BY <1>1, LeastExists
<1>4. PICK x \in S : a = NumRows - x
  BY <1>2
<1>5. ASSUME NEW y \in S PROVE x >= y
  BY <1>1, <1>3, <1>4, GridAssumption
<1>6. \E m \in S : \A y \in S : m >= y
  BY <1>5
<1>. QED
  BY <1>6 DEF Max

LEMMA LeastIs ==
    ASSUME NEW a \in Int, NEW b \in Int
    PROVE  /\ Least(a, b) \in {a, b} /\ Least(a, b) <= a /\ Least(a, b) <= b
           /\ Greatest(a, b) \in {a, b} /\ Greatest(a, b) >= a /\ Greatest(a, b) >= b
  BY DEF Least, Greatest

(***************************************************************************)
(* Places in the ring                                                      *)
(***************************************************************************)

LEMMA WrapIs ==
    ASSUME NEW a \in Int
    PROVE  Wrap(a) \in Rows /\ \E q \in Int : a = NumRows * q + Wrap(a)
<1>1. a % NumRows \in 0 .. NumRows - 1 /\ (a \div NumRows) \in Int
        /\ a = NumRows * (a \div NumRows) + (a % NumRows)
  BY GridAssumption, SMT
<1>. QED
  BY <1>1 DEF Wrap, Rows

\* A row's number is the only one in the ring that differs by laps.
LEMMA WrapUnique ==
    ASSUME NEW q \in Int, NEW r \in Rows
    PROVE  Wrap(NumRows * q + r) = r
<1>1. NumRows \in Nat /\ NumRows > 0 /\ NumRows * q + r \in Int
  BY GridAssumption, SMT DEF Rows
<1>. DEFINE x == Wrap(NumRows * q + r)
<1>2. x \in Rows /\ \E p \in Int : NumRows * q + r = NumRows * p + x
  BY <1>1, WrapIs
<1>. HIDE DEF x
<1>3. PICK p \in Int : NumRows * q + r = NumRows * p + x
  BY <1>2
<1>4. x \in 0 .. NumRows - 1 /\ r \in 0 .. NumRows - 1
  BY <1>2 DEF Rows
<1>5. NumRows * (q - p) = x - r
  BY <1>1, <1>3, <1>4, SMT
<1>6. CASE q = p
  BY <1>3, <1>4, <1>6, <1>1 DEF x
<1>7. CASE q - p >= 1
  <2>1. NumRows * (q - p) >= NumRows
    BY <1>1, <1>7, SMT
  <2>. QED
    BY <1>1, <1>4, <1>5, <2>1, SMT
<1>8. CASE q - p <= -1
  <2>1. NumRows * (q - p) <= -NumRows
    BY <1>1, <1>8, SMT
  <2>. QED
    BY <1>1, <1>4, <1>5, <2>1, SMT
<1>. QED
  BY <1>6, <1>7, <1>8

\* Laps make no difference.
LEMMA WrapLaps ==
    ASSUME NEW a \in Int, NEW q \in Int
    PROVE  Wrap(NumRows * q + a) = Wrap(a)
<1>1. Wrap(a) \in Rows
  BY WrapIs
<1>2. PICK p \in Int : a = NumRows * p + Wrap(a)
  BY WrapIs
<1>. DEFINE r == Wrap(a)
<1>3. r \in Int /\ a = NumRows * p + r /\ r \in Rows
  BY <1>1, <1>2 DEF Rows
<1>. HIDE DEF r
<1>4. NumRows * q + a = NumRows * (q + p) + r
  BY <1>3, GridAssumption, SMT
<1>5. Wrap(NumRows * (q + p) + r) = r
  BY <1>3, WrapUnique
<1>. QED
  BY <1>4, <1>5 DEF r

\* Wrapping before or after adding or subtracting comes to the same.
LEMMA WrapAdd ==
    ASSUME NEW a \in Int, NEW b \in Int
    PROVE  /\ Wrap(Wrap(a) + b) = Wrap(a + b)
           /\ Wrap(b - Wrap(a)) = Wrap(b - a)
<1>. DEFINE r == Wrap(a)
<1>1. r \in Int
  BY WrapIs DEF Rows
<1>2. PICK p \in Int : a = NumRows * p + r
  BY WrapIs
<1>. HIDE DEF r
<1>3. /\ r + b \in Int /\ b - a \in Int
      /\ a + b = NumRows * p + (r + b) /\ b - r = NumRows * p + (b - a)
  BY <1>1, <1>2, GridAssumption, SMT
<1>4. Wrap(NumRows * p + (r + b)) = Wrap(r + b) /\ Wrap(NumRows * p + (b - a)) = Wrap(b - a)
  BY <1>3, WrapLaps
<1>. QED
  BY <1>3, <1>4 DEF r

\* Less than a lap off the ring
LEMMA WrapNear ==
    ASSUME NEW a \in Int
    PROVE  /\ a \in Rows => Wrap(a) = a
           /\ a + NumRows \in Rows => Wrap(a) = a + NumRows
           /\ a - NumRows \in Rows => Wrap(a) = a - NumRows
<1>1. NumRows \in Int /\ a = NumRows * 0 + a
  BY GridAssumption, SMT
<1>2. a = NumRows * (-1) + (a + NumRows) /\ a = NumRows * 1 + (a - NumRows)
  BY <1>1, SMT
<1>3. 0 \in Int /\ -1 \in Int /\ 1 \in Int
  OBVIOUS
<1>. QED
  BY <1>1, <1>2, <1>3, WrapUnique

\* The rows of the history, and with them the place of the screen's first row
H == NumRows - ScreenRows

LEMMA Sizes ==
    /\ NumRows \in Nat /\ NumRows > 0
    /\ ScreenRows \in Nat /\ ScreenRows > 0 /\ ScreenRows <= NumRows
    /\ H \in Nat /\ H + ScreenRows = NumRows /\ H < NumRows
    /\ H \in Rows
  BY GridAssumption DEF H, Rows

\* A row's place, counted from the scrollback's start, moves with the row and
\* against the offset.
LEMMA PlaceIs ==
    ASSUME NEW off \in Int, NEW r \in Int, NEW j \in Int
    PROVE  /\ AbsToSb(off, r) \in Rows
           /\ AbsToSb(off, Wrap(r)) = AbsToSb(off, r)
           /\ AbsToSb(off, r + j) = Wrap(AbsToSb(off, r) + j)
           /\ AbsToSb(Wrap(off + j), r) = Wrap(AbsToSb(off, r) - j)
           /\ AbsToSb(off, off + j) = Wrap(H + j)
<1>. DEFINE a == r - (off + ScreenRows)
<1>1. a \in Int /\ ScreenRows \in Int /\ NumRows \in Int /\ off + j \in Int /\ H \in Int
  BY Sizes
<1>2. AbsToSb(off, r) = Wrap(a)
  BY DEF AbsToSb
<1>3. Wrap(a) \in Rows
  BY <1>1, WrapIs
<1>4. AbsToSb(off, Wrap(r)) = AbsToSb(off, r)
  <2>1. AbsToSb(off, Wrap(r)) = Wrap(Wrap(r) + (0 - (off + ScreenRows)))
    <3>1. Wrap(r) \in Int
      BY WrapIs DEF Rows
    <3>2. Wrap(r) - (off + ScreenRows) = Wrap(r) + (0 - (off + ScreenRows))
      BY <3>1, <1>1
    <3>. QED
      BY <3>2 DEF AbsToSb
  <2>2. 0 - (off + ScreenRows) \in Int /\ r + (0 - (off + ScreenRows)) = a
    BY <1>1
  <2>. QED
    BY <1>2, <2>1, <2>2, WrapAdd
<1>5. AbsToSb(off, r + j) = Wrap(AbsToSb(off, r) + j)
  <2>1. r + j - (off + ScreenRows) = a + j
    BY <1>1
  <2>2. AbsToSb(off, r + j) = Wrap(a + j)
    <3>1. AbsToSb(off, r + j) = Wrap((r + j) - (off + ScreenRows))
      BY DEF AbsToSb
    <3>2. (r + j) - (off + ScreenRows) = a + j
      BY <1>1
    <3>. HIDE DEF a
    <3>. QED
      BY <3>1, <3>2
  <2>. QED
    BY <1>1, <1>2, <2>2, WrapAdd
<1>6. AbsToSb(Wrap(off + j), r) = Wrap(AbsToSb(off, r) - j)
  <2>1. Wrap(off + j) \in Int
    BY <1>1, WrapIs DEF Rows
  <2>2. r - (Wrap(off + j) + ScreenRows) = (r - ScreenRows) - Wrap(off + j)
    BY <1>1, <2>1
  <2>3. AbsToSb(Wrap(off + j), r) = Wrap((r - ScreenRows) - Wrap(off + j))
    BY <2>2 DEF AbsToSb
  <2>4. r - ScreenRows \in Int /\ (r - ScreenRows) - (off + j) = a + (0 - j) /\ 0 - j \in Int
    BY <1>1
  <2>5. AbsToSb(Wrap(off + j), r) = Wrap(a + (0 - j))
    BY <1>1, <2>3, <2>4, WrapAdd
  <2>6. Wrap(a) + (0 - j) = Wrap(a) - j
    BY <1>3 DEF Rows
  <2>. QED
    BY <1>1, <1>2, <2>4, <2>5, <2>6, WrapAdd
<1>7. AbsToSb(off, off + j) = Wrap(H + j)
  <2>1. off + j - (off + ScreenRows) = j - ScreenRows /\ j - ScreenRows \in Int
    BY <1>1
  <2>2. AbsToSb(off, off + j) = Wrap(j - ScreenRows)
    <3>1. AbsToSb(off, off + j) = Wrap((off + j) - (off + ScreenRows))
      BY DEF AbsToSb
    <3>2. (off + j) - (off + ScreenRows) = j - ScreenRows
      BY <1>1
    <3>. QED
      BY <3>1, <3>2
  <2>3. H + j = NumRows * 1 + (j - ScreenRows)
    BY <1>1, SMT DEF H
  <2>. QED
    BY <2>1, <2>2, <2>3, WrapLaps
<1>. QED
  BY <1>2, <1>3, <1>4, <1>5, <1>6, <1>7

\* A place is of one row, SbToAbs() of it.
LEMMA RowAt ==
    ASSUME NEW off \in Int, NEW k \in Rows
    PROVE  SbToAbs(off, k) \in Rows /\ AbsToSb(off, SbToAbs(off, k)) = k
<1>1. k \in Int /\ ScreenRows \in Int /\ k + off + ScreenRows \in Int
  BY Sizes DEF Rows
<1>2. SbToAbs(off, k) = Wrap(k + off + ScreenRows)
  BY DEF SbToAbs
<1>3. AbsToSb(off, SbToAbs(off, k)) = AbsToSb(off, k + off + ScreenRows)
  BY <1>1, <1>2, PlaceIs
<1>4. (k + off + ScreenRows) - (off + ScreenRows) = k
  BY <1>1
<1>5. AbsToSb(off, SbToAbs(off, k)) = Wrap(k)
  BY <1>3, <1>4 DEF AbsToSb
<1>. QED
  BY <1>1, <1>2, <1>5, WrapIs, WrapNear

LEMMA PlaceOfOne ==
    ASSUME NEW off \in Int, NEW r \in Rows
    PROVE  /\ SbToAbs(off, AbsToSb(off, r)) = r
           /\ \A s \in Rows : AbsToSb(off, s) = AbsToSb(off, r) => s = r
<1>1. ASSUME NEW s \in Rows PROVE SbToAbs(off, AbsToSb(off, s)) = s
  <2>1. s \in Int /\ ScreenRows \in Int
    BY Sizes DEF Rows
  <2>. DEFINE a == s - (off + ScreenRows)
  <2>2. a \in Int /\ off + ScreenRows \in Int /\ Wrap(a) \in Int
    BY <2>1, WrapIs DEF Rows
  <2>3. Wrap(a) + off + ScreenRows = Wrap(a) + (off + ScreenRows) /\ a + (off + ScreenRows) = s
    BY <2>1, <2>2
  <2>4. SbToAbs(off, AbsToSb(off, s)) = Wrap(Wrap(a) + (off + ScreenRows))
    BY <2>3 DEF SbToAbs, AbsToSb
  <2>5. Wrap(Wrap(a) + (off + ScreenRows)) = Wrap(s)
    BY <2>2, <2>3, WrapAdd
  <2>. QED
    BY <2>1, <2>4, <2>5, WrapNear
<1>. QED
  BY <1>1

(***************************************************************************)
(* Swapping rows                                                           *)
(***************************************************************************)

Contents == {"none", "plain", "prompt"}
Rings == [Rows -> Contents]

LEMMA SwapIs ==
    ASSUME NEW ring \in Rings, NEW a \in Rows, NEW b \in Rows
    PROVE  /\ RowsSwapped(ring, <<a, b>>) \in Rings
           /\ RowsSwapped(ring, <<a, b>>)[a] = ring[b]
           /\ RowsSwapped(ring, <<a, b>>)[b] = ring[a]
           /\ \A r \in Rows \ {a, b} : RowsSwapped(ring, <<a, b>>)[r] = ring[r]
<1>. DEFINE swapped == [ring EXCEPT ![a] = ring[b], ![b] = ring[a]]
<1>1. RowsSwapped(ring, <<a, b>>) = swapped
  BY DEF RowsSwapped
<1>2. swapped \in Rings
  BY DEF Rings
<1>3. /\ swapped[a] = ring[b] /\ swapped[b] = ring[a]
      /\ \A r \in Rows \ {a, b} : swapped[r] = ring[r]
  BY DEF Rings
<1>. QED
  BY <1>1, <1>2, <1>3

Swaps(ring, pairs, n, f) ==
    f = [k \in 0 .. n |-> IF k = 0 THEN ring ELSE RowsSwapped(f[k - 1], pairs[k])]

LEMMA SwapsExist ==
    ASSUME NEW ring, NEW pairs, NEW n \in Nat
    PROVE  \E f : Swaps(ring, pairs, n, f)
<1>. DEFINE Have == {m \in Nat : \E f : Swaps(ring, pairs, m, f)}
            G(f, k) == IF k = 0 THEN ring ELSE RowsSwapped(f[k - 1], pairs[k])
<1>1. 0 \in Have
  <2>. DEFINE f == [k \in 0 .. 0 |-> ring]
  <2>1. \A k \in 0 .. 0 : k = 0
    OBVIOUS
  <2>2. f = [k \in 0 .. 0 |-> G(f, k)]
    BY <2>1
  <2>. QED
    BY <2>2 DEF Swaps
<1>2. ASSUME NEW m \in Have PROVE m + 1 \in Have
  <2>1. m \in Nat /\ m + 1 \in Nat /\ m \in 0 .. m
    OBVIOUS
  <2>2. PICK f : f = [k \in 0 .. m |-> G(f, k)]
    BY DEF Swaps
  <2>. DEFINE last == RowsSwapped(f[m], pairs[m + 1])
              g == [k \in 0 .. m + 1 |-> IF k = m + 1 THEN last ELSE f[k]]
  <2>. HIDE DEF last
  <2>3. \A k \in 0 .. m : g[k] = f[k]
    BY <2>1
  <2>4. g[m + 1] = last
    BY <2>1
  <2>5. ASSUME NEW k \in 0 .. m + 1 PROVE g[k] = G(g, k)
    <3>1. CASE k = 0
      BY <2>1, <2>2, <2>3, <3>1
    <3>2. CASE k # 0 /\ k \in 0 .. m
      <4>1. k - 1 \in 0 .. m
        BY <2>1, <3>2
      <4>2. g[k] = f[k] /\ g[k - 1] = f[k - 1]
        BY <2>3, <3>2, <4>1
      <4>3. f[k] = G(f, k)
        BY <2>2, <3>2
      <4>. QED
        BY <3>2, <4>2, <4>3
    <3>3. CASE k = m + 1
      <4>1. k # 0 /\ k - 1 = m
        BY <2>1, <3>3
      <4>. QED
        BY <2>1, <2>3, <2>4, <3>3, <4>1 DEF last
    <3>. QED
      BY <2>1, <3>1, <3>2, <3>3
  <2>6. g = [k \in 0 .. m + 1 |-> G(g, k)]
    BY <2>5
  <2>. HIDE DEF g
  <2>. QED
    BY <2>1, <2>6 DEF Swaps
<1>. HIDE DEF Have
<1>3. 0 .. n \subseteq Have
  <2>1. \A k \in 0 .. n - 1 : k \in Have => k + 1 \in Have
    BY <1>2
  <2>. QED
    BY <1>1, <2>1, InductiveUpTo
<1>. QED
  BY <1>3 DEF Have

\* What is so of the ring after no swap, and stays so from each swap to the next, is so
\* after all of them.
LEMMA SwappedBy ==
    ASSUME NEW n \in Nat, NEW pairs \in [1 .. n -> Rows \X Rows], NEW ring, NEW Good,
           <<0, ring>> \in Good,
           \A k \in 0 .. n - 1 : \A r : <<k, r>> \in Good =>
               <<k + 1, RowsSwapped(r, pairs[k + 1])>> \in Good
    PROVE  <<n, Swapped(ring, pairs)>> \in Good
<1>1. pairs \in Seq(Rows \X Rows) /\ Len(pairs) = n
  <2>1. pairs \in Seq(Rows \X Rows)
    BY SeqDef
  <2>2. DOMAIN pairs = 1 .. Len(pairs) /\ Len(pairs) \in Nat
    BY <2>1, LenProperties
  <2>. QED
    BY <2>1, <2>2
<1>. DEFINE after[k \in 0 .. n] == IF k = 0 THEN ring ELSE RowsSwapped(after[k - 1], pairs[k])
<1>2. Swapped(ring, pairs) = after[n]
  BY <1>1 DEF Swapped
<1>3. after = [k \in 0 .. n |-> IF k = 0 THEN ring ELSE RowsSwapped(after[k - 1], pairs[k])]
  <2>1. \E f : f = [k \in 0 .. n |-> IF k = 0 THEN ring ELSE RowsSwapped(f[k - 1], pairs[k])]
    <3>1. \E f : Swaps(ring, pairs, n, f)
      BY SwapsExist
    <3>. QED
      BY <3>1 DEF Swaps
  <2>. QED
    BY <2>1
<1>. HIDE DEF after
<1>. DEFINE Have == {k \in 0 .. n : <<k, after[k]>> \in Good}
<1>4. 0 \in Have
  BY <1>3
<1>5. ASSUME NEW k \in 0 .. n - 1, k \in Have PROVE k + 1 \in Have
  <2>1. k + 1 \in 0 .. n /\ k + 1 # 0 /\ (k + 1) - 1 = k
    OBVIOUS
  <2>2. after[k + 1] = RowsSwapped(after[k], pairs[k + 1])
    BY <1>3, <2>1
  <2>. QED
    BY <1>5, <2>1, <2>2
<1>. HIDE DEF Have
<1>6. n \in Have
  <2>1. 0 .. n \subseteq Have
    BY <1>4, <1>5, InductiveUpTo
  <2>. QED
    BY <2>1
<1>. QED
  BY <1>2, <1>6 DEF Have

(***************************************************************************)
(* Scrolling the ring                                                      *)
(***************************************************************************)

\* The allocated rows are those from place first on.
Allocated(ring, off, first) == \A r \in Rows : ring[r] # "none" <=> AbsToSb(off, r) >= first

Regions(from, to, n) ==
    from \in Screen /\ to \in 1 .. ScreenRows /\ n \in 1 .. ScreenRows /\ from + n <= to

LEMMA RegionIs ==
    ASSUME NEW from, NEW to, NEW n, Regions(from, to, n)
    PROVE  /\ from \in Nat /\ to \in Nat /\ n \in Nat /\ n > 0 /\ from + n <= to /\ to <= ScreenRows
           /\ ScreenRows - to \in Nat /\ n <= ScreenRows
  BY Sizes DEF Regions, Screen

\* Where rows of the screen are before and after it scrolls by n, up or (n < 0) down
LEMMA PlacesMove ==
    ASSUME NEW off \in Rows, NEW n \in Int
    PROVE  /\ Wrap(off + n) \in Rows
           /\ \A i \in Int : /\ Wrap(Wrap(off + n) + i) \in Rows
                             /\ AbsToSb(Wrap(off + n), Wrap(Wrap(off + n) + i)) = Wrap(H + i)
                             /\ AbsToSb(off, Wrap(Wrap(off + n) + i)) = Wrap(H + i + n)
           /\ \A r \in Rows : /\ AbsToSb(Wrap(off + n), r) \in Rows
                              /\ AbsToSb(off, r) \in Rows
                              /\ AbsToSb(off, r) = Wrap(AbsToSb(Wrap(off + n), r) + n)
                              /\ AbsToSb(Wrap(off + n), r) = Wrap(AbsToSb(off, r) - n)
<1>. DEFINE new == Wrap(off + n)
<1>1. off \in Int /\ off + n \in Int /\ H \in Int /\ Rows \subseteq Int
  BY Sizes DEF Rows
<1>2. new \in Rows /\ new \in Int
  BY <1>1, WrapIs
<1>3. ASSUME NEW i \in Int
      PROVE  /\ Wrap(new + i) \in Rows
             /\ AbsToSb(new, Wrap(new + i)) = Wrap(H + i)
             /\ AbsToSb(off, Wrap(new + i)) = Wrap(H + i + n)
  <2>1. new + i \in Int /\ Wrap(new + i) \in Rows
    BY <1>2, WrapIs
  <2>2. AbsToSb(new, new + i) = Wrap(H + i) /\ AbsToSb(new, Wrap(new + i)) = AbsToSb(new, new + i)
    BY <1>2, <2>1, PlaceIs
  <2>3. Wrap(new + i) = Wrap((off + n) + i)
    BY <1>1, WrapAdd
  <2>4. (off + n) + i = off + (n + i) /\ n + i \in Int /\ H + (n + i) = H + i + n /\ off + (n + i) \in Int
    BY <1>1
  <2>5. AbsToSb(off, Wrap(off + (n + i))) = AbsToSb(off, off + (n + i))
    BY <1>1, <2>4, PlaceIs
  <2>6. AbsToSb(off, off + (n + i)) = Wrap(H + (n + i))
    BY <1>1, <2>4, PlaceIs
  <2>. HIDE DEF new
  <2>. QED
    BY <2>1, <2>2, <2>3, <2>4, <2>5, <2>6
<1>4. ASSUME NEW r \in Rows
      PROVE  /\ AbsToSb(new, r) \in Rows
             /\ AbsToSb(off, r) \in Rows
             /\ AbsToSb(off, r) = Wrap(AbsToSb(new, r) + n)
             /\ AbsToSb(new, r) = Wrap(AbsToSb(off, r) - n)
  <2>1. r \in Int /\ AbsToSb(new, r) \in Rows /\ AbsToSb(off, r) \in Rows
    BY <1>1, <1>2, PlaceIs
  <2>2. AbsToSb(new, r) = Wrap(AbsToSb(off, r) - n)
    BY <1>1, <2>1, PlaceIs
  <2>. DEFINE d == AbsToSb(off, r)
  <2>3. d \in Int /\ d - n \in Int /\ (d - n) + n = d /\ d \in Rows
    <3>1. d \in Rows /\ d \in Int
      BY <1>1, <2>1
    <3>. HIDE DEF d
    <3>. QED
      BY <3>1
  <2>4. Wrap(Wrap(d - n) + n) = Wrap((d - n) + n)
    BY <2>3, WrapAdd
  <2>5. Wrap(d) = d
    BY <2>3, WrapNear
  <2>. HIDE DEF d
  <2>6. Wrap(Wrap(d - n) + n) = d
    BY <2>3, <2>4, <2>5
  <2>. QED
    BY <2>1, <2>2, <2>6 DEF d
<1>. QED
  BY <1>2, <1>3, <1>4

\* erase_line() allocates the rows it erases.
LEMMA ErasedIs ==
    ASSUME NEW ring \in Rings, NEW S
    PROVE  /\ Erased(ring, S) \in Rings
           /\ \A r \in Rows : Erased(ring, S)[r] = IF r \in S THEN "plain" ELSE ring[r]
  BY DEF Erased, Rings, Contents

\* Scrolled up, the ring keeps the rows after the first n places, and the screen is whole:
\* the fixed rows above the region change places with allocated rows, those below it are
\* swapped down from the last one on, and the region's last n rows are erased.
LEMMA RingUp ==
    ASSUME rows \in Rings, offset \in Rows, NEW f \in 0 .. H, Allocated(rows, offset, f),
           NEW from, NEW to, NEW n, Regions(from, to, n), TermScrollPartial(from, to, n)
    PROVE  /\ rows' \in Rings /\ offset' \in Rows /\ offset' = Wrap(offset + n)
           /\ Allocated(rows', offset', Greatest(f - n, 0))
<1>. DEFINE off == Wrap(offset + n)
            Abs(i) == Wrap(off + i)
            above == [k \in 1 .. from |-> <<Abs(from - k - n), Abs(from - k)>>]
            below == [k \in 1 .. ScreenRows - to |-> <<Abs(ScreenRows - k - n), Abs(ScreenRows - k)>>]
            ring == Swapped(rows, above)
            last == Swapped(ring, below)
            erased == {Abs(i) : i \in to - n .. to - 1}
<1>1. offset' = off /\ rows' = Erased(last, erased)
  BY DEF TermScrollPartial
<1>2. /\ from \in Nat /\ to \in Nat /\ n \in Nat /\ n > 0 /\ from + n <= to /\ to <= ScreenRows
      /\ ScreenRows - to \in Nat /\ n <= ScreenRows
  BY RegionIs
<1>3. /\ NumRows \in Nat /\ NumRows > 0 /\ ScreenRows \in Nat /\ ScreenRows > 0 /\ ScreenRows <= NumRows
      /\ H \in Nat /\ H + ScreenRows = NumRows /\ H < NumRows /\ Rows = 0 .. NumRows - 1
      /\ Rows \subseteq Int
  BY Sizes DEF Rows
<1>4. /\ off \in Rows
      /\ \A i \in Int : /\ Abs(i) \in Rows
                        /\ AbsToSb(off, Abs(i)) = Wrap(H + i)
                        /\ AbsToSb(offset, Abs(i)) = Wrap(H + i + n)
      /\ \A r \in Rows : /\ AbsToSb(off, r) \in Rows /\ AbsToSb(offset, r) \in Rows
                         /\ AbsToSb(offset, r) = Wrap(AbsToSb(off, r) + n)
  <2>1. n \in Int
    BY <1>2
  <2>. QED
    BY <2>1, PlacesMove
<1>5. /\ above \in [1 .. from -> Rows \X Rows] /\ below \in [1 .. ScreenRows - to -> Rows \X Rows]
      /\ \A k \in 0 .. from - 1 :
            above[k + 1] = <<Abs((from - (k + 1)) - n), Abs(from - (k + 1))>>
      /\ \A k \in 0 .. ScreenRows - to - 1 :
            below[k + 1] = <<Abs((ScreenRows - (k + 1)) - n), Abs(ScreenRows - (k + 1))>>
  <2>1. \A k \in 1 .. from : from - k \in Int /\ (from - k) - n \in Int
    BY <1>2
  <2>2. \A k \in 1 .. ScreenRows - to : ScreenRows - k \in Int /\ (ScreenRows - k) - n \in Int
    BY <1>2, <1>3
  <2>3. /\ above \in [1 .. from -> Rows \X Rows]
        /\ below \in [1 .. ScreenRows - to -> Rows \X Rows]
    BY <1>4, <2>1, <2>2
  <2>4. /\ \A k \in 0 .. from - 1 : k + 1 \in 1 .. from
        /\ \A k \in 0 .. ScreenRows - to - 1 : k + 1 \in 1 .. ScreenRows - to
    BY <1>2
  <2>. QED
    BY <2>3, <2>4
<1>6. \A r \in Rows : rows[r] # "none" <=> AbsToSb(offset, r) >= f
  BY DEF Allocated
<1>. HIDE DEF off, Abs, above, below
\* The rows above the region
<1>7. ring \in Rings /\ \A r \in Rows : ring[r] # "none" <=> rows[r] # "none"
  <2>. DEFINE Same(x) == \A r \in Rows : x[r] # "none" <=> rows[r] # "none"
              Good == {g \in (0 .. from) \X Rings : Same(g[2])}
  <2>1. <<0, rows>> \in Good
    BY <1>2
  <2>2. ASSUME NEW k \in 0 .. from - 1, NEW x, <<k, x>> \in Good
        PROVE  <<k + 1, RowsSwapped(x, above[k + 1])>> \in Good
    <3>. DEFINE i == from - (k + 1)
                a == Abs(i - n)
                b == Abs(i)
    <3>1. i \in 0 .. from - 1 /\ i \in Int /\ i - n \in Int /\ k + 1 \in 0 .. from
      BY <1>2
    <3>2. x \in Rings /\ Same(x)
      BY <2>2
    <3>3. a \in Rows /\ b \in Rows /\ above[k + 1] = <<a, b>>
      BY <1>4, <1>5, <3>1
    <3>4. rows[a] # "none"
      <4>1. AbsToSb(offset, a) = Wrap(H + (i - n) + n)
        BY <1>4, <3>1
      <4>. HIDE DEF i, a
      <4>2. H + (i - n) + n = H + i /\ H + i \in Rows /\ H + i >= f /\ H + i \in Int
        BY <1>2, <1>3, <3>1
      <4>. QED
        BY <1>6, <3>3, <4>1, <4>2, WrapNear DEF a
    <3>5. rows[b] # "none"
      <4>1. AbsToSb(offset, b) = Wrap(H + i + n)
        BY <1>4, <3>1
      <4>. HIDE DEF i, b
      <4>2. H + i + n \in Rows /\ H + i + n >= f /\ H + i + n \in Int
        BY <1>2, <1>3, <3>1
      <4>. QED
        BY <1>6, <3>3, <4>1, <4>2, WrapNear DEF b
    <3>. DEFINE y == RowsSwapped(x, <<a, b>>)
    <3>. HIDE DEF a, b, i
    <3>6. y \in Rings /\ y[a] = x[b] /\ y[b] = x[a] /\ \A r \in Rows \ {a, b} : y[r] = x[r]
      BY <3>2, <3>3, SwapIs
    <3>. HIDE DEF y
    <3>7. Same(y)
      BY <3>2, <3>3, <3>4, <3>5, <3>6
    <3>. QED
      BY <3>1, <3>3, <3>6, <3>7 DEF y
  <2>. HIDE DEF Good
  <2>3. <<from, Swapped(rows, above)>> \in Good
    BY <1>2, <1>5, <2>1, <2>2, SwappedBy
  <2>. QED
    BY <2>3 DEF Good
<1>. HIDE DEF ring
\* The rows below the region
<1>8. /\ last \in Rings
      /\ \A r \in Rows : /\ AbsToSb(off, r) < H => (last[r] # "none" <=> rows[r] # "none")
                         /\ AbsToSb(off, r) >= H /\ AbsToSb(off, r) < H + to - n => last[r] # "none"
                         /\ AbsToSb(off, r) >= H + to => last[r] # "none"
  <2>. DEFINE Whole(k, x) ==
                \A r \in Rows :
                  /\ AbsToSb(off, r) < H => (x[r] # "none" <=> rows[r] # "none")
                  /\ AbsToSb(off, r) >= H /\ AbsToSb(off, r) < H + ScreenRows - k - n => x[r] # "none"
                  /\ AbsToSb(off, r) >= H + ScreenRows - k => x[r] # "none"
              Good == {g \in (0 .. ScreenRows - to) \X Rings : Whole(g[1], g[2])}
  <2>1. <<0, ring>> \in Good
    <3>1. ASSUME NEW r \in Rows, AbsToSb(off, r) >= H, AbsToSb(off, r) < H + ScreenRows - n
          PROVE  ring[r] # "none"
      <4>. DEFINE p == AbsToSb(off, r)
      <4>1. p \in Rows /\ AbsToSb(offset, r) = Wrap(p + n)
        BY <1>4
      <4>2. p >= H /\ p < H + ScreenRows - n
        BY <3>1
      <4>. HIDE DEF p
      <4>3. p + n \in Rows /\ p + n >= f /\ p + n \in Int
        BY <1>2, <1>3, <4>1, <4>2
      <4>. QED
        BY <1>6, <1>7, <4>1, <4>3, WrapNear
    <3>2. \A r \in Rows : ~(AbsToSb(off, r) >= H + ScreenRows)
      <4>1. \A p \in Rows : ~(p >= H + ScreenRows)
        BY <1>3
      <4>. QED
        BY <1>4, <4>1
    <3>3. H + ScreenRows - 0 - n = H + ScreenRows - n /\ H + ScreenRows - 0 = H + ScreenRows
          /\ 0 \in 0 .. ScreenRows - to
      BY <1>2, <1>3
    <3>. QED
      BY <1>7, <3>1, <3>2, <3>3
  <2>2. ASSUME NEW k \in 0 .. ScreenRows - to - 1, NEW x, <<k, x>> \in Good
        PROVE  <<k + 1, RowsSwapped(x, below[k + 1])>> \in Good
    <3>. DEFINE i == ScreenRows - (k + 1)
                a == Abs(i - n)
                b == Abs(i)
    <3>1. i \in to .. ScreenRows - 1 /\ i \in Int /\ i - n \in Int /\ k + 1 \in 0 .. ScreenRows - to
          /\ i = ScreenRows - (k + 1) /\ k \in Int
      BY <1>2, <1>3
    <3>2. x \in Rings /\ Whole(k, x)
      BY <2>2
    <3>3. a \in Rows /\ b \in Rows /\ below[k + 1] = <<a, b>>
      BY <1>4, <1>5, <3>1
    <3>4. AbsToSb(off, a) = Wrap(H + (i - n)) /\ AbsToSb(off, b) = Wrap(H + i)
      BY <1>4, <3>1
    <3>. HIDE DEF i, a, b
    <3>5. H + (i - n) \in Rows /\ H + i \in Rows /\ H + (i - n) \in Int /\ H + i \in Int
      BY <1>2, <1>3, <3>1
    <3>6. AbsToSb(off, a) = H + (i - n) /\ AbsToSb(off, b) = H + i
      BY <3>4, <3>5, WrapNear
    <3>7. x[a] # "none"
      <4>1. AbsToSb(off, a) >= H /\ AbsToSb(off, a) < H + ScreenRows - k - n
        BY <1>2, <1>3, <3>1, <3>6
      <4>. QED
        BY <3>2, <3>3, <4>1
    <3>. DEFINE y == RowsSwapped(x, <<a, b>>)
    <3>8. y \in Rings /\ y[a] = x[b] /\ y[b] = x[a] /\ \A r \in Rows \ {a, b} : y[r] = x[r]
      BY <3>2, <3>3, SwapIs
    <3>. HIDE DEF y
    <3>9. ASSUME NEW r \in Rows
          PROVE  /\ AbsToSb(off, r) < H => (y[r] # "none" <=> rows[r] # "none")
                 /\ AbsToSb(off, r) >= H /\ AbsToSb(off, r) < H + ScreenRows - (k + 1) - n => y[r] # "none"
                 /\ AbsToSb(off, r) >= H + ScreenRows - (k + 1) => y[r] # "none"
      <4>. DEFINE p == AbsToSb(off, r)
      <4>1. p \in Rows /\ p \in Int
        <5>1. p \in Rows
          BY <1>4
        <5>. QED
          BY <1>3, <5>1
      <4>2. /\ p < H => (x[r] # "none" <=> rows[r] # "none")
            /\ p >= H /\ p < H + ScreenRows - k - n => x[r] # "none"
            /\ p >= H + ScreenRows - k => x[r] # "none"
        BY <3>2
      <4>3. r = a => p = H + (i - n)
        BY <3>6
      <4>4. r = b => p = H + i
        BY <3>6
      <4>5. p = H + i => r = b
        <5>1. off \in Int
          BY <1>3, <1>4
        <5>. QED
          BY <3>3, <3>6, <5>1, PlaceOfOne
      <4>6. r # a /\ r # b => y[r] = x[r]
        BY <3>8
      <4>. HIDE DEF p
      <4>7. /\ p < H => (y[r] # "none" <=> rows[r] # "none")
            /\ p >= H /\ p < H + ScreenRows - (k + 1) - n => y[r] # "none"
            /\ p >= H + ScreenRows - (k + 1) => y[r] # "none"
        <5>1. CASE r = a
          BY <1>2, <1>3, <3>1, <4>3, <5>1
        <5>2. CASE r = b
          BY <1>2, <1>3, <3>1, <3>7, <3>8, <4>4, <5>2
        <5>3. CASE r # a /\ r # b
          <6>1. y[r] = x[r] /\ p # H + i
            BY <4>5, <4>6, <5>3
          <6>2. /\ p < H + ScreenRows - (k + 1) - n => p < H + ScreenRows - k - n
                /\ p >= H + ScreenRows - (k + 1) => p >= H + ScreenRows - k
            <7>1. /\ H + ScreenRows - (k + 1) = H + i /\ H + ScreenRows - k = (H + i) + 1
                  /\ H + ScreenRows - (k + 1) - n = (H + i) - n
                  /\ H + ScreenRows - k - n = (H + i) + 1 - n
              BY <1>2, <1>3, <3>1
            <7>. QED
              BY <1>2, <3>5, <4>1, <6>1, <7>1
          <6>. QED
            BY <4>2, <6>1, <6>2
        <5>. QED
          BY <5>1, <5>2, <5>3
      <4>. QED
        BY <4>7 DEF p
    <3>. QED
      BY <3>1, <3>3, <3>8, <3>9 DEF y
  <2>. HIDE DEF Good
  <2>3. <<ScreenRows - to, Swapped(ring, below)>> \in Good
    BY <1>2, <1>5, <2>1, <2>2, SwappedBy
  <2>4. last \in Rings /\ Whole(ScreenRows - to, last)
    BY <2>3 DEF Good
  <2>5. H + ScreenRows - (ScreenRows - to) - n = H + to - n /\ H + ScreenRows - (ScreenRows - to) = H + to
    BY <1>2, <1>3
  <2>. QED
    BY <2>4, <2>5
<1>. HIDE DEF last, erased
\* The region's last rows, and all of them together
<1>9. /\ Erased(last, erased) \in Rings
      /\ \A r \in Rows : Erased(last, erased)[r] = IF r \in erased THEN "plain" ELSE last[r]
  BY <1>8, ErasedIs
<1>10. ASSUME NEW r \in Rows
       PROVE  Erased(last, erased)[r] # "none" <=> AbsToSb(off, r) >= Greatest(f - n, 0)
  <2>. DEFINE p == AbsToSb(off, r)
  <2>1. p \in Rows /\ p \in Int /\ AbsToSb(offset, r) = Wrap(p + n)
    <3>1. p \in Rows /\ AbsToSb(offset, r) = Wrap(p + n)
      BY <1>4
    <3>. QED
      BY <1>3, <3>1
  <2>2. r \in erased <=> p \in H + to - n .. H + to - 1
    <3>1. ASSUME NEW i \in to - n .. to - 1 PROVE AbsToSb(off, Abs(i)) = H + i /\ H + i \in H + to - n .. H + to - 1
      <4>1. i \in Int /\ H + i \in Rows /\ H + i \in Int /\ H + i \in H + to - n .. H + to - 1
        BY <1>2, <1>3
      <4>. QED
        BY <1>4, <4>1, WrapNear
    <3>2. ASSUME p \in H + to - n .. H + to - 1 PROVE r \in erased
      <4>. DEFINE i == p - H
      <4>1. i \in to - n .. to - 1 /\ H + i = p /\ i \in Int
        BY <1>2, <1>3, <2>1, <3>2
      <4>2. AbsToSb(off, Abs(i)) = AbsToSb(off, r) /\ Abs(i) \in Rows
        BY <1>4, <3>1, <4>1
      <4>3. off \in Int
        BY <1>3, <1>4
      <4>. HIDE DEF i
      <4>4. Abs(i) = r
        BY <4>2, <4>3, PlaceOfOne
      <4>. QED
        BY <4>1, <4>4 DEF erased
    <3>. HIDE DEF p
    <3>3. ASSUME r \in erased PROVE p \in H + to - n .. H + to - 1
      BY <3>1, <3>3 DEF erased, p
    <3>. QED
      BY <3>2, <3>3
  <2>3. /\ p < H => (last[r] # "none" <=> rows[r] # "none")
        /\ p >= H /\ p < H + to - n => last[r] # "none"
        /\ p >= H + to => last[r] # "none"
    BY <1>8
  <2>4. rows[r] # "none" <=> Wrap(p + n) >= f
    BY <1>6, <2>1
  <2>5. Erased(last, erased)[r] = IF p \in H + to - n .. H + to - 1 THEN "plain" ELSE last[r]
    BY <1>9, <2>2
  <2>. HIDE DEF p
  <2>6. /\ Greatest(f - n, 0) \in 0 .. H
        /\ \A x \in Int : x >= Greatest(f - n, 0) <=> x >= 0 /\ x + n >= f
    BY <1>2, <1>3 DEF Greatest
  <2>7. CASE p < H
    <3>1. p + n \in Rows /\ p + n \in Int /\ p >= 0
      BY <1>2, <1>3, <2>1, <2>7
    <3>2. Wrap(p + n) = p + n
      BY <3>1, WrapNear
    <3>3. p \notin H + to - n .. H + to - 1
      BY <1>2, <1>3, <2>1, <2>7
    <3>. QED
      BY <2>1, <2>3, <2>4, <2>5, <2>6, <2>7, <3>1, <3>2, <3>3 DEF p
  <2>8. CASE p >= H
    <3>1. p >= Greatest(f - n, 0)
      BY <1>3, <2>1, <2>6, <2>8
    <3>2. CASE p \in H + to - n .. H + to - 1
      BY <2>5, <3>1, <3>2 DEF p
    <3>3. CASE p \notin H + to - n .. H + to - 1
      <4>1. p < H + to - n \/ p >= H + to
        BY <1>2, <1>3, <2>1, <3>3
      <4>. QED
        BY <2>3, <2>5, <2>8, <3>1, <3>3, <4>1 DEF p
    <3>. QED
      BY <3>2, <3>3
  <2>. QED
    BY <1>3, <2>1, <2>7, <2>8
<1>. QED
  BY <1>1, <1>4, <1>9, <1>10 DEF Allocated, off

\* Scrolled down, the ring loses the history's first rows to the screen's top and the
\* region's last rows are freed: swapped up from the first row below the region on, they
\* end up before the history, and the rows above the region change places from the first on.
LEMMA RingDown ==
    ASSUME rows \in Rings, offset \in Rows, NEW f \in 0 .. H, Allocated(rows, offset, f),
           NEW from, NEW to, NEW n, Regions(from, to, n), TermScrollReversePartial(from, to, n)
    PROVE  /\ rows' \in Rings /\ offset' \in Rows /\ offset' = Wrap(offset - n)
           /\ Allocated(rows', offset', Least(f + n, H))
<1>. DEFINE off == Wrap(offset - n)
            Abs(i) == Wrap(off + i)
            freed == [r \in Rows |-> IF \E i \in to - n..to - 1 : r = Wrap(offset + i)
                                     THEN "none" ELSE rows[r]]
            below == [k \in 1 .. ScreenRows - to |-> <<Abs(to + n + k - 1), Abs(to + k - 1)>>]
            above == [k \in 1 .. from |-> <<Abs(n + k - 1), Abs(k - 1)>>]
            ring == Swapped(freed, below)
            last == Swapped(ring, above)
            erased == {Abs(i) : i \in from .. from + n - 1}
<1>1. offset' = off /\ rows' = Erased(last, erased)
  BY DEF TermScrollReversePartial
<1>2. /\ from \in Nat /\ to \in Nat /\ n \in Nat /\ n > 0 /\ from + n <= to /\ to <= ScreenRows
      /\ ScreenRows - to \in Nat /\ n <= ScreenRows
  BY RegionIs
<1>3. /\ NumRows \in Nat /\ NumRows > 0 /\ ScreenRows \in Nat /\ ScreenRows > 0 /\ ScreenRows <= NumRows
      /\ H \in Nat /\ H + ScreenRows = NumRows /\ H < NumRows /\ Rows = 0 .. NumRows - 1
      /\ Rows \subseteq Int
  BY Sizes DEF Rows
<1>4. /\ off \in Rows
      /\ \A i \in Int : /\ Abs(i) \in Rows
                        /\ AbsToSb(off, Abs(i)) = Wrap(H + i)
                        /\ AbsToSb(offset, Abs(i)) = Wrap(H + i - n)
      /\ \A r \in Rows : /\ AbsToSb(off, r) \in Rows /\ AbsToSb(offset, r) \in Rows
                         /\ AbsToSb(offset, r) = Wrap(AbsToSb(off, r) - n)
  <2>. DEFINE m == -n
  <2>1. m \in Int /\ offset + m = offset - n /\ \A i \in Int : i + m = i - n
    BY <1>2, <1>3
  <2>2. \A i \in Int : H + i + m = H + i - n
    BY <1>2, <1>3
  <2>. HIDE DEF m
  <2>3. /\ Wrap(offset + m) \in Rows
        /\ \A i \in Int : /\ Wrap(Wrap(offset + m) + i) \in Rows
                          /\ AbsToSb(Wrap(offset + m), Wrap(Wrap(offset + m) + i)) = Wrap(H + i)
                          /\ AbsToSb(offset, Wrap(Wrap(offset + m) + i)) = Wrap(H + i + m)
        /\ \A r \in Rows : /\ AbsToSb(Wrap(offset + m), r) \in Rows
                           /\ AbsToSb(offset, r) \in Rows
                           /\ AbsToSb(offset, r) = Wrap(AbsToSb(Wrap(offset + m), r) + m)
    BY <2>1, PlacesMove
  <2>4. Wrap(offset + m) = off
    BY <2>1
  <2>5. \A r \in Rows : AbsToSb(off, r) + m = AbsToSb(off, r) - n
    BY <1>3, <2>1, <2>3, <2>4
  <2>. HIDE DEF off
  <2>. QED
    BY <2>2, <2>3, <2>4, <2>5
<1>5. /\ above \in [1 .. from -> Rows \X Rows] /\ below \in [1 .. ScreenRows - to -> Rows \X Rows]
      /\ \A k \in 0 .. from - 1 : above[k + 1] = <<Abs(k + n), Abs(k)>>
      /\ \A k \in 0 .. ScreenRows - to - 1 : below[k + 1] = <<Abs((to + k) + n), Abs(to + k)>>
  <2>1. /\ \A k \in 1 .. from : k - 1 \in Int /\ n + k - 1 \in Int
        /\ \A k \in 1 .. ScreenRows - to : to + k - 1 \in Int /\ to + n + k - 1 \in Int
    BY <1>2, <1>3
  <2>2. /\ above \in [1 .. from -> Rows \X Rows]
        /\ below \in [1 .. ScreenRows - to -> Rows \X Rows]
    BY <1>4, <2>1
  <2>3. /\ \A k \in 0 .. from - 1 : k + 1 \in 1 .. from /\ n + (k + 1) - 1 = k + n /\ (k + 1) - 1 = k
        /\ \A k \in 0 .. ScreenRows - to - 1 : /\ k + 1 \in 1 .. ScreenRows - to
                                               /\ to + n + (k + 1) - 1 = (to + k) + n
                                               /\ to + (k + 1) - 1 = to + k
    BY <1>2, <1>3
  <2>. HIDE DEF Abs
  <2>. QED
    BY <2>2, <2>3
<1>6. \A r \in Rows : rows[r] # "none" <=> AbsToSb(offset, r) >= f
  BY DEF Allocated
\* The freed rows
<1>7. /\ freed \in Rings
      /\ \A r \in Rows : freed[r] # "none" <=>
            /\ AbsToSb(offset, r) >= f
            /\ ~(AbsToSb(offset, r) >= H + to - n /\ AbsToSb(offset, r) < H + to)
  <2>1. freed \in Rings
    BY DEF Rings, Contents
  <2>2. ASSUME NEW i \in to - n .. to - 1
        PROVE  /\ AbsToSb(offset, Wrap(offset + i)) = H + i
               /\ H + i >= H + to - n /\ H + i < H + to
    <3>1. i \in Int /\ H + i \in Int /\ H + i \in Rows /\ offset \in Int /\ offset + i \in Int
          /\ H + i >= H + to - n /\ H + i < H + to
      BY <1>2, <1>3
    <3>2. AbsToSb(offset, Wrap(offset + i)) = AbsToSb(offset, offset + i)
      BY <3>1, PlaceIs
    <3>3. AbsToSb(offset, offset + i) = Wrap(H + i)
      BY <3>1, PlaceIs
    <3>. QED
      BY <3>1, <3>2, <3>3, WrapNear
  <2>3. ASSUME NEW r \in Rows, AbsToSb(offset, r) >= H + to - n, AbsToSb(offset, r) < H + to
        PROVE  \E i \in to - n .. to - 1 : r = Wrap(offset + i)
    <3>. DEFINE p == AbsToSb(offset, r)
                i == p - H
    <3>1. p \in Int
      BY <1>3, <1>4
    <3>2. p >= H + to - n /\ p < H + to
      BY <2>3
    <3>. HIDE DEF p
    <3>3. i \in to - n .. to - 1 /\ i \in Int /\ H + i = p /\ offset + i \in Int /\ offset \in Int
      BY <1>2, <1>3, <3>1, <3>2
    <3>4. AbsToSb(offset, Wrap(offset + i)) = AbsToSb(offset, r)
      BY <2>2, <3>3 DEF p
    <3>. HIDE DEF i
    <3>5. Wrap(offset + i) \in Rows
      BY <3>3, WrapIs
    <3>6. Wrap(offset + i) = r
      BY <3>3, <3>4, <3>5, PlaceOfOne
    <3>. QED
      BY <3>3, <3>6
  <2>4. ASSUME NEW r \in Rows
        PROVE  (\E i \in to - n .. to - 1 : r = Wrap(offset + i)) <=>
                 AbsToSb(offset, r) >= H + to - n /\ AbsToSb(offset, r) < H + to
    BY <2>2, <2>3
  <2>. QED
    BY <1>6, <2>1, <2>4
<1>. HIDE DEF off, Abs, above, below, freed
\* The rows below the region
<1>8. /\ ring \in Rings
      /\ \A r \in Rows : ring[r] # "none" <=> AbsToSb(offset, r) >= f /\ AbsToSb(offset, r) < NumRows - n
  <2>. DEFINE Hole(k, x) ==
                \A r \in Rows : x[r] # "none" <=>
                    /\ AbsToSb(offset, r) >= f
                    /\ ~(AbsToSb(offset, r) >= H + (to + k) - n /\ AbsToSb(offset, r) < H + (to + k))
              Good == {g \in (0 .. ScreenRows - to) \X Rings : Hole(g[1], g[2])}
  <2>1. <<0, freed>> \in Good
    <3>1. to + 0 = to /\ 0 \in 0 .. ScreenRows - to
      BY <1>2
    <3>. QED
      BY <1>7, <3>1
  <2>2. ASSUME NEW k \in 0 .. ScreenRows - to - 1, NEW x, <<k, x>> \in Good
        PROVE  <<k + 1, RowsSwapped(x, below[k + 1])>> \in Good
    <3>. DEFINE i == to + k
                a == Abs(i + n)
                b == Abs(i)
    <3>1. i \in to .. ScreenRows - 1 /\ i \in Int /\ i + n \in Int /\ k + 1 \in 0 .. ScreenRows - to
          /\ i = to + k /\ k \in Int
      BY <1>2, <1>3
    <3>2. x \in Rings /\ Hole(k, x)
      BY <2>2
    <3>3. a \in Rows /\ b \in Rows /\ below[k + 1] = <<a, b>>
      BY <1>4, <1>5, <3>1
    <3>4. AbsToSb(offset, a) = Wrap(H + (i + n) - n) /\ AbsToSb(offset, b) = Wrap(H + i - n)
      BY <1>4, <3>1
    <3>. HIDE DEF i, a, b
    <3>5. /\ H + (i + n) - n = H + i /\ H + i \in Rows /\ H + i - n \in Rows
          /\ H + i \in Int /\ H + i - n \in Int
      BY <1>2, <1>3, <3>1
    <3>6. AbsToSb(offset, a) = H + i /\ AbsToSb(offset, b) = H + i - n
      BY <3>4, <3>5, WrapNear
    <3>. DEFINE y == RowsSwapped(x, <<a, b>>)
    <3>7. y \in Rings /\ y[a] = x[b] /\ y[b] = x[a] /\ \A r \in Rows \ {a, b} : y[r] = x[r]
      BY <3>2, <3>3, SwapIs
    <3>. HIDE DEF y
    <3>8. ASSUME NEW r \in Rows
          PROVE  y[r] # "none" <=>
                    /\ AbsToSb(offset, r) >= f
                    /\ ~(AbsToSb(offset, r) >= H + (to + (k + 1)) - n
                           /\ AbsToSb(offset, r) < H + (to + (k + 1)))
      <4>. DEFINE p == AbsToSb(offset, r)
      <4>1. p \in Int
        <5>1. p \in Rows
          BY <1>4
        <5>. QED
          BY <1>3, <5>1
      <4>2. /\ x[r] # "none" <=> p >= f /\ ~(p >= H + i - n /\ p < H + i)
            /\ x[a] # "none"
            /\ x[b] = "none"
        <5>1. /\ x[r] # "none" <=> p >= f /\ ~(p >= H + (to + k) - n /\ p < H + (to + k))
              /\ x[a] # "none" <=> H + i >= f /\ ~(H + i >= H + (to + k) - n /\ H + i < H + (to + k))
              /\ x[b] # "none" <=> H + i - n >= f /\ ~(H + i - n >= H + (to + k) - n /\ H + i - n < H + (to + k))
          BY <3>2, <3>3, <3>6
        <5>2. /\ H + i >= f /\ ~(H + i < H + i)
              /\ H + i - n >= H + i - n /\ H + i - n < H + i
          BY <1>2, <1>3, <3>1
        <5>. QED
          BY <3>1, <5>1, <5>2
      <4>3. (r = a => p = H + i) /\ (r = b => p = H + i - n)
        BY <3>6
      <4>4. (p = H + i => r = a) /\ (p = H + i - n => r = b)
        <5>1. offset \in Int
          BY <1>3
        <5>. QED
          BY <3>3, <3>6, <5>1, PlaceOfOne
      <4>5. r # a /\ r # b => y[r] = x[r]
        BY <3>7
      <4>6. H + (to + (k + 1)) = (H + i) + 1 /\ H + (to + (k + 1)) - n = (H + i) + 1 - n
        BY <1>2, <1>3, <3>1
      <4>. HIDE DEF p
      <4>7. y[r] # "none" <=> p >= f /\ ~(p >= (H + i) + 1 - n /\ p < (H + i) + 1)
        <5>1. CASE r = a
          BY <1>2, <3>5, <3>7, <4>2, <4>3, <5>1
        <5>2. CASE r = b
          <6>1. y[r] # "none" /\ p >= f /\ p < (H + i) + 1 - n
            <7>1. H + i - n >= f
              BY <1>2, <1>3, <3>1
            <7>. QED
              BY <1>2, <1>3, <3>1, <3>5, <3>7, <4>2, <4>3, <5>2, <7>1
          <6>. QED
            BY <1>2, <3>5, <4>1, <6>1
        <5>3. CASE r # a /\ r # b
          <6>1. y[r] = x[r]
            BY <4>5, <5>3
          <6>2. p # H + i /\ p # H + i - n
            BY <4>4, <5>3
          <6>3. (p >= (H + i) + 1 - n /\ p < (H + i) + 1) <=> (p >= H + i - n /\ p < H + i)
            <7>. DEFINE z == H + i
            <7>1. z \in Int /\ p # z /\ p # z - n
              BY <1>2, <1>3, <3>1, <3>5, <6>2
            <7>. HIDE DEF z
            <7>2. (p >= z + 1 - n /\ p < z + 1) <=> (p >= z - n /\ p < z)
              BY <1>2, <4>1, <7>1
            <7>. QED
              BY <1>2, <1>3, <3>1, <3>5, <4>1, <7>2 DEF z
          <6>. QED
            BY <4>2, <6>1, <6>3
        <5>. QED
          BY <5>1, <5>2, <5>3
      <4>. QED
        BY <4>6, <4>7 DEF p
    <3>. QED
      BY <3>1, <3>3, <3>7, <3>8 DEF y
  <2>. HIDE DEF Good
  <2>3. <<ScreenRows - to, Swapped(freed, below)>> \in Good
    BY <1>2, <1>5, <2>1, <2>2, SwappedBy
  <2>4. ring \in Rings /\ Hole(ScreenRows - to, ring)
    BY <2>3 DEF Good
  <2>5. H + (to + (ScreenRows - to)) - n = NumRows - n /\ H + (to + (ScreenRows - to)) = NumRows
    BY <1>2, <1>3
  <2>6. \A p \in Rows : p < NumRows
    BY <1>3
  <2>7. \A p \in Rows : ~(p >= NumRows - n) <=> p < NumRows - n
    BY <1>2, <1>3
  <2>. QED
    BY <1>4, <2>4, <2>5, <2>6, <2>7
<1>. HIDE DEF ring
<1>9. \A r \in Rows : ring[r] # "none" <=> AbsToSb(off, r) >= f + n
  <2>. SUFFICES ASSUME NEW r \in Rows PROVE ring[r] # "none" <=> AbsToSb(off, r) >= f + n
    OBVIOUS
  <2>. DEFINE p == AbsToSb(off, r)
              d == AbsToSb(offset, r)
  <2>1. p \in Rows /\ d = Wrap(p - n) /\ (ring[r] # "none" <=> d >= f /\ d < NumRows - n)
    BY <1>4, <1>8
  <2>. HIDE DEF p, d
  <2>2. p \in Int /\ p - n \in Int /\ p >= 0 /\ p < NumRows
    BY <1>2, <1>3, <2>1
  <2>3. CASE p >= n
    <3>1. p - n \in Rows
      BY <1>2, <1>3, <2>2, <2>3
    <3>2. d = p - n
      BY <2>1, <2>2, <3>1, WrapNear
    <3>3. d < NumRows - n /\ (d >= f <=> p >= f + n)
      BY <1>2, <1>3, <2>2, <3>2
    <3>. QED
      BY <2>1, <3>3 DEF p
  <2>4. CASE p < n
    <3>1. p - n + NumRows \in Rows
      BY <1>2, <1>3, <2>2, <2>4
    <3>2. d = p - n + NumRows
      BY <2>1, <2>2, <3>1, WrapNear
    <3>3. ~(d < NumRows - n) /\ ~(p >= f + n)
      BY <1>2, <1>3, <2>2, <2>4, <3>2
    <3>. QED
      BY <2>1, <3>3 DEF p
  <2>. QED
    BY <1>2, <2>2, <2>3, <2>4
\* The rows above the region
<1>10. /\ last \in Rings
       /\ \A r \in Rows : /\ AbsToSb(off, r) < H => (last[r] # "none" <=> ring[r] # "none")
                          /\ AbsToSb(off, r) >= H /\ AbsToSb(off, r) < H + from => last[r] # "none"
                          /\ AbsToSb(off, r) >= H + from + n => last[r] # "none"
  <2>. DEFINE Whole(k, x) ==
                \A r \in Rows :
                  /\ AbsToSb(off, r) < H => (x[r] # "none" <=> ring[r] # "none")
                  /\ AbsToSb(off, r) >= H /\ AbsToSb(off, r) < H + k => x[r] # "none"
                  /\ AbsToSb(off, r) >= H + k + n => x[r] # "none"
              Good == {g \in (0 .. from) \X Rings : Whole(g[1], g[2])}
  <2>1. <<0, ring>> \in Good
    <3>1. \A p \in Rows : ~(p >= H /\ p < H + 0) /\ (p >= H + 0 + n => p >= f + n)
      BY <1>2, <1>3
    <3>2. 0 \in 0 .. from
      BY <1>2
    <3>. QED
      BY <1>4, <1>8, <1>9, <3>1, <3>2
  <2>2. ASSUME NEW k \in 0 .. from - 1, NEW x, <<k, x>> \in Good
        PROVE  <<k + 1, RowsSwapped(x, above[k + 1])>> \in Good
    <3>. DEFINE a == Abs(k + n)
                b == Abs(k)
    <3>1. k \in Int /\ k + n \in Int /\ k + 1 \in 0 .. from /\ k >= 0
      BY <1>2
    <3>2. x \in Rings /\ Whole(k, x)
      BY <2>2
    <3>3. a \in Rows /\ b \in Rows /\ above[k + 1] = <<a, b>>
      BY <1>4, <1>5, <3>1
    <3>4. AbsToSb(off, a) = Wrap(H + (k + n)) /\ AbsToSb(off, b) = Wrap(H + k)
      BY <1>4, <3>1
    <3>. HIDE DEF a, b
    <3>5. H + (k + n) \in Rows /\ H + k \in Rows /\ H + (k + n) \in Int /\ H + k \in Int
      BY <1>2, <1>3, <3>1
    <3>6. AbsToSb(off, a) = H + (k + n) /\ AbsToSb(off, b) = H + k
      BY <3>4, <3>5, WrapNear
    <3>7. x[a] # "none"
      <4>1. H + (k + n) >= H + k + n
        BY <1>2, <1>3, <3>1
      <4>. QED
        BY <3>2, <3>3, <3>6, <4>1
    <3>. DEFINE y == RowsSwapped(x, <<a, b>>)
    <3>8. y \in Rings /\ y[a] = x[b] /\ y[b] = x[a] /\ \A r \in Rows \ {a, b} : y[r] = x[r]
      BY <3>2, <3>3, SwapIs
    <3>. HIDE DEF y
    <3>9. ASSUME NEW r \in Rows
          PROVE  /\ AbsToSb(off, r) < H => (y[r] # "none" <=> ring[r] # "none")
                 /\ AbsToSb(off, r) >= H /\ AbsToSb(off, r) < H + (k + 1) => y[r] # "none"
                 /\ AbsToSb(off, r) >= H + (k + 1) + n => y[r] # "none"
      <4>. DEFINE p == AbsToSb(off, r)
      <4>1. p \in Int
        <5>1. p \in Rows
          BY <1>4
        <5>. QED
          BY <1>3, <5>1
      <4>2. /\ p < H => (x[r] # "none" <=> ring[r] # "none")
            /\ p >= H /\ p < H + k => x[r] # "none"
            /\ p >= H + k + n => x[r] # "none"
        BY <3>2
      <4>3. (r = a => p = H + (k + n)) /\ (r = b => p = H + k)
        BY <3>6
      <4>4. p = H + k => r = b
        <5>1. off \in Int
          BY <1>3, <1>4
        <5>. QED
          BY <3>3, <3>6, <5>1, PlaceOfOne
      <4>5. r # a /\ r # b => y[r] = x[r]
        BY <3>8
      <4>. HIDE DEF p
      <4>6. /\ p < H => (y[r] # "none" <=> ring[r] # "none")
            /\ p >= H /\ p < H + (k + 1) => y[r] # "none"
            /\ p >= H + (k + 1) + n => y[r] # "none"
        <5>1. CASE r = b
          BY <1>2, <1>3, <3>1, <3>7, <3>8, <4>3, <5>1
        <5>2. CASE r = a /\ r # b
          BY <1>2, <1>3, <3>1, <4>3, <5>2
        <5>3. CASE r # a /\ r # b
          <6>1. y[r] = x[r] /\ p # H + k
            BY <4>4, <4>5, <5>3
          <6>2. /\ p < H + (k + 1) => p < H + k
                /\ p >= H + (k + 1) + n => p >= H + k + n
            BY <1>2, <1>3, <3>1, <4>1, <6>1
          <6>. QED
            BY <4>2, <6>1, <6>2
        <5>. QED
          BY <5>1, <5>2, <5>3
      <4>. QED
        BY <4>6 DEF p
    <3>. QED
      BY <3>1, <3>3, <3>8, <3>9 DEF y
  <2>. HIDE DEF Good
  <2>3. <<from, Swapped(ring, above)>> \in Good
    BY <1>2, <1>5, <2>1, <2>2, SwappedBy
  <2>. QED
    BY <2>3 DEF Good
<1>. HIDE DEF last, erased
\* The region's first rows, and all of them together
<1>11. /\ Erased(last, erased) \in Rings
       /\ \A r \in Rows : Erased(last, erased)[r] = IF r \in erased THEN "plain" ELSE last[r]
  BY <1>10, ErasedIs
<1>12. ASSUME NEW r \in Rows
       PROVE  Erased(last, erased)[r] # "none" <=> AbsToSb(off, r) >= Least(f + n, H)
  <2>. DEFINE p == AbsToSb(off, r)
  <2>1. p \in Rows /\ p \in Int
    <3>1. p \in Rows
      BY <1>4
    <3>. QED
      BY <1>3, <3>1
  <2>2. r \in erased <=> p \in H + from .. H + from + n - 1
    <3>1. ASSUME NEW i \in from .. from + n - 1
          PROVE  AbsToSb(off, Abs(i)) = H + i /\ H + i \in H + from .. H + from + n - 1
      <4>1. i \in Int /\ H + i \in Rows /\ H + i \in Int /\ H + i \in H + from .. H + from + n - 1
        BY <1>2, <1>3
      <4>. QED
        BY <1>4, <4>1, WrapNear
    <3>2. ASSUME p \in H + from .. H + from + n - 1 PROVE r \in erased
      <4>. DEFINE i == p - H
      <4>1. i \in from .. from + n - 1 /\ H + i = p /\ i \in Int
        BY <1>2, <1>3, <2>1, <3>2
      <4>2. AbsToSb(off, Abs(i)) = AbsToSb(off, r) /\ Abs(i) \in Rows
        BY <1>4, <3>1, <4>1
      <4>3. off \in Int
        BY <1>3, <1>4
      <4>. HIDE DEF i
      <4>4. Abs(i) = r
        BY <4>2, <4>3, PlaceOfOne
      <4>. QED
        BY <4>1, <4>4 DEF erased
    <3>. HIDE DEF p
    <3>3. ASSUME r \in erased PROVE p \in H + from .. H + from + n - 1
      BY <3>1, <3>3 DEF erased, p
    <3>. QED
      BY <3>2, <3>3
  <2>3. /\ p < H => (last[r] # "none" <=> p >= f + n)
        /\ p >= H /\ p < H + from => last[r] # "none"
        /\ p >= H + from + n => last[r] # "none"
    BY <1>9, <1>10
  <2>4. Erased(last, erased)[r] = IF p \in H + from .. H + from + n - 1 THEN "plain" ELSE last[r]
    BY <1>11, <2>2
  <2>. HIDE DEF p
  <2>5. \A x \in Int : x >= Least(f + n, H) <=> x >= H \/ x >= f + n
    BY <1>2, <1>3 DEF Least
  <2>6. CASE p < H
    <3>1. p \notin H + from .. H + from + n - 1
      BY <1>2, <1>3, <2>1, <2>6
    <3>2. ~(p >= H)
      BY <1>3, <2>1, <2>6
    <3>. QED
      BY <2>1, <2>3, <2>4, <2>5, <2>6, <3>1, <3>2 DEF p
  <2>7. CASE p >= H
    <3>1. p >= Least(f + n, H)
      BY <2>1, <2>5, <2>7
    <3>2. CASE p \in H + from .. H + from + n - 1
      BY <2>4, <3>1, <3>2 DEF p
    <3>3. CASE p \notin H + from .. H + from + n - 1
      <4>1. p < H + from \/ p >= H + from + n
        BY <1>2, <1>3, <2>1, <3>3
      <4>. QED
        BY <2>3, <2>4, <2>7, <3>1, <3>3, <4>1 DEF p
    <3>. QED
      BY <3>2, <3>3
  <2>. QED
    BY <1>3, <2>1, <2>6, <2>7
<1>. QED
  BY <1>1, <1>4, <1>11, <1>12 DEF Allocated, off

(***************************************************************************)
(* Scrolling the selection                                                 *)
(***************************************************************************)

\* The known defects that make a row go that is still looked at
WithoutDefects == "dangling start" \notin Admitted /\ "stale view" \notin Admitted

Selections == [start : Int, end : Int, ongoing : BOOLEAN]

\* The ends that s has are on rows from place first on.
SelectedFrom(s, off, first) ==
    s.end >= 0 \/ s.ongoing =>
        /\ s.start >= 0 /\ AbsToSb(off, s.start) >= first
        /\ s.end >= 0 => AbsToSb(off, s.end) >= first

LEMMA NothingSelected ==
    /\ NoSelection \in Selections
    /\ \A off, f : SelectedFrom(NoSelection, off, f)
<1>1. NoSelection \in Selections
  BY DEF NoSelection, Selections
<1>2. ~(NoSelection.end >= 0) /\ ~NoSelection.ongoing
  BY DEF NoSelection
<1>. QED
  BY <1>1, <1>2 DEF SelectedFrom

\* Moving the view, or ending the selection, changes only the laps of its ends.
LEMMA LapsChange ==
    ASSUME NEW off \in Int, NEW f, NEW s \in Selections, SelectedFrom(s, off, f), NEW new, NEW old
    PROVE  /\ ViewDown(s, new, old) \in Selections /\ SelectedFrom(ViewDown(s, new, old), off, f)
           /\ ViewUp(s, new, old) \in Selections /\ SelectedFrom(ViewUp(s, new, old), off, f)
           /\ Finalized(s) \in Selections /\ SelectedFrom(Finalized(s), off, f)
<1>1. /\ s.start \in Int /\ s.end \in Int /\ s.ongoing \in BOOLEAN
      /\ s = [start |-> s.start, end |-> s.end, ongoing |-> s.ongoing]
  BY DEF Selections
<1>2. ASSUME NEW x \in Int
      PROVE  /\ Wrap(x) \in Int /\ Wrap(x) >= 0 /\ AbsToSb(off, Wrap(x)) = AbsToSb(off, x)
             /\ x + NumRows \in Int /\ AbsToSb(off, x + NumRows) = AbsToSb(off, x)
             /\ x >= 0 => x + NumRows >= 0
  <2>1. Wrap(x) \in Int /\ Wrap(x) >= 0
    <3>1. Wrap(x) \in Rows
      BY WrapIs
    <3>. QED
      BY <3>1, Sizes DEF Rows
  <2>2. x + NumRows \in Int /\ (x >= 0 => x + NumRows >= 0) /\ NumRows \in Int
    BY Sizes
  <2>3. Wrap(x + NumRows) = Wrap(x)
    <3>1. x + NumRows = NumRows * 1 + x
      BY Sizes, SMT
    <3>. QED
      BY <3>1, WrapLaps
  <2>4. AbsToSb(off, x + NumRows) = AbsToSb(off, Wrap(x + NumRows)) /\ AbsToSb(off, Wrap(x)) = AbsToSb(off, x)
    BY <2>2, PlaceIs
  <2>. QED
    BY <2>1, <2>2, <2>3, <2>4
<1>3. ViewDown(s, new, old) \in Selections /\ SelectedFrom(ViewDown(s, new, old), off, f)
  <2>1. CASE s.start < 0 \/ new > old
    BY <2>1 DEF ViewDown
  <2>2. CASE ~(s.start < 0 \/ new > old)
    <3>. DEFINE e == IF s.end >= 0 THEN Wrap(s.end) ELSE s.end
                v == [start |-> Wrap(s.start), end |-> e, ongoing |-> s.ongoing]
    <3>1. ViewDown(s, new, old) = v
      BY <1>1, <2>2 DEF ViewDown
    <3>2. e \in Int /\ (e >= 0 <=> s.end >= 0) /\ (e >= 0 => AbsToSb(off, e) = AbsToSb(off, s.end))
      BY <1>1, <1>2
    <3>. HIDE DEF e
    <3>3. v \in Selections
      BY <1>1, <1>2, <3>2 DEF Selections
    <3>4. SelectedFrom(v, off, f)
      BY <1>1, <1>2, <3>2 DEF SelectedFrom
    <3>. QED
      BY <3>1, <3>3, <3>4
  <2>. QED
    BY <2>1, <2>2
<1>4. ViewUp(s, new, old) \in Selections /\ SelectedFrom(ViewUp(s, new, old), off, f)
  <2>1. CASE s.start < 0 \/ new < old
    BY <2>1 DEF ViewUp
  <2>2. CASE ~(s.start < 0 \/ new < old)
    <3>. DEFINE e == IF s.end >= 0 THEN s.end + NumRows ELSE s.end
                v == [start |-> s.start + NumRows, end |-> e, ongoing |-> s.ongoing]
    <3>1. ViewUp(s, new, old) = v
      BY <1>1, <2>2 DEF ViewUp
    <3>2. e \in Int /\ (e >= 0 <=> s.end >= 0) /\ (e >= 0 => AbsToSb(off, e) = AbsToSb(off, s.end))
      BY <1>1, <1>2
    <3>. HIDE DEF e
    <3>3. v \in Selections
      BY <1>1, <1>2, <3>2 DEF Selections
    <3>4. SelectedFrom(v, off, f)
      BY <1>1, <1>2, <3>2 DEF SelectedFrom
    <3>. QED
      BY <3>1, <3>3, <3>4
  <2>. QED
    BY <2>1, <2>2
<1>5. Finalized(s) \in Selections /\ SelectedFrom(Finalized(s), off, f)
  <2>1. CASE ~s.ongoing
    BY <2>1 DEF Finalized
  <2>2. CASE s.ongoing /\ s.end < 0
    <3>1. Finalized(s) = [start |-> s.start, end |-> s.end, ongoing |-> FALSE]
      BY <1>1, <2>2 DEF Finalized
    <3>. QED
      BY <1>1, <2>2, <3>1 DEF Selections, SelectedFrom
  <2>3. CASE s.ongoing /\ ~(s.end < 0)
    <3>. DEFINE v == [start |-> Wrap(s.start), end |-> Wrap(s.end), ongoing |-> FALSE]
    <3>1. Finalized(s) = v
      BY <2>3 DEF Finalized
    <3>2. v \in Selections
      BY <1>1, <1>2 DEF Selections
    <3>3. s.end >= 0
      BY <1>1, <2>3
    <3>4. SelectedFrom(v, off, f)
      BY <1>1, <1>2, <3>3 DEF SelectedFrom
    <3>. QED
      BY <3>1, <3>2, <3>4
  <2>. QED
    BY <1>1, <2>1, <2>2, <2>3
<1>. QED
  BY <1>3, <1>4, <1>5

\* The ends of what is selected, or of what is held
LEMMA EndsAre ==
    ASSUME offset \in Rows, NEW s \in Selections
    PROVE  /\ AbsToSb(offset, s.start) \in Rows /\ AbsToSb(offset, s.end) \in Rows
           /\ Top(s) <= AbsToSb(offset, s.start) /\ Top(s) <= AbsToSb(offset, s.end)
           /\ Bottom(s) >= AbsToSb(offset, s.start) /\ Bottom(s) >= AbsToSb(offset, s.end)
           /\ Top(s) \in Rows /\ Bottom(s) \in Rows
           /\ Top(s) \in {AbsToSb(offset, s.start), AbsToSb(offset, s.end)}
           /\ Bottom(s) \in {AbsToSb(offset, s.start), AbsToSb(offset, s.end)}
<1>1. offset \in Int /\ s.start \in Int /\ s.end \in Int /\ Rows \subseteq Int
  BY Sizes DEF Rows, Selections
<1>2. AbsToSb(offset, s.start) \in Rows /\ AbsToSb(offset, s.end) \in Rows
  BY <1>1, PlaceIs
<1>3. AbsToSb(offset, s.start) \in Int /\ AbsToSb(offset, s.end) \in Int
  BY <1>1, <1>2
<1>. QED
  BY <1>2, <1>3 DEF Top, Bottom, Least, Greatest

LEMMA HeldIs ==
    ASSUME sel \in Selections
    PROVE  /\ Held \in Selections /\ Held.start = sel.start
           /\ sel.end >= 0 => Held = sel
           /\ sel.end < 0 => Held.end = sel.start
           /\ sel.start >= 0 => Held.end >= 0
  BY DEF Held, Selections

\* When an end of what is selected or held has places in S, each end has: also the one
\* of a selection that has only a start, as long as held selections are cancelled like others.
LEMMA HeldToo ==
    ASSUME sel \in Selections, NEW f, SelectedFrom(sel, offset, f),
           WithoutDefects, NEW kept, Spares(kept), NEW S,
           sel.end >= 0 => AbsToSb(offset, sel.start) \in S /\ AbsToSb(offset, sel.end) \in S,
           Held.end >= 0 /\ kept # NoSelection => AbsToSb(offset, Held.start) \in S
    PROVE  sel.end >= 0 \/ sel.ongoing =>
               AbsToSb(offset, sel.start) \in S /\ (sel.end >= 0 => AbsToSb(offset, sel.end) \in S)
<1>. SUFFICES ASSUME sel.end >= 0 \/ sel.ongoing
              PROVE  AbsToSb(offset, sel.start) \in S /\ (sel.end >= 0 => AbsToSb(offset, sel.end) \in S)
  OBVIOUS
<1>1. sel.start \in Int /\ sel.end \in Int /\ sel.start >= 0
  BY DEF Selections, SelectedFrom
<1>2. CASE sel.end >= 0
  BY <1>2
<1>3. CASE ~(sel.end >= 0)
  <2>1. kept # NoSelection
    BY <1>3 DEF Spares, WithoutDefects
  <2>. QED
    BY <1>1, <1>3, <2>1, HeldIs
<1>. QED
  BY <1>2, <1>3

\* Scrolling up by n lines takes the places before n.
LEMMA SelectionUp ==
    ASSUME offset \in Rows, sel \in Selections, NEW f \in 0 .. H, SelectedFrom(sel, offset, f),
           WithoutDefects,
           NEW from, NEW to, NEW n \in Nat, Spares(KeptUp(Held, from, to, n))
    PROVE  /\ KeptUp(sel, from, to, n) \in Selections
           /\ SelectedFrom(KeptUp(sel, from, to, n), Wrap(offset + n), Greatest(f - n, 0))
<1>1. ASSUME NEW s \in Selections, s.end >= 0, KeptUp(s, from, to, n) # NoSelection
      PROVE  AbsToSb(offset, s.start) \in n .. NumRows - 1 /\ AbsToSb(offset, s.end) \in n .. NumRows - 1
  <2>1. ~(Top(s) - n < 0)
    BY <1>1 DEF KeptUp
  <2>2. /\ AbsToSb(offset, s.start) \in Rows /\ AbsToSb(offset, s.end) \in Rows /\ Top(s) \in Rows
        /\ Top(s) <= AbsToSb(offset, s.start) /\ Top(s) <= AbsToSb(offset, s.end)
    BY EndsAre
  <2>. QED
    BY <2>1, <2>2, Sizes DEF Rows
<1>2. KeptUp(sel, from, to, n) \in {sel, NoSelection}
  BY DEF KeptUp
<1>3. CASE KeptUp(sel, from, to, n) = NoSelection
  BY <1>3, NothingSelected
<1>4. CASE KeptUp(sel, from, to, n) = sel /\ sel # NoSelection
  <2>1. sel.end >= 0 \/ sel.ongoing =>
           /\ AbsToSb(offset, sel.start) \in n .. NumRows - 1
           /\ sel.end >= 0 => AbsToSb(offset, sel.end) \in n .. NumRows - 1
    BY <1>1, <1>4, HeldIs, HeldToo
  <2>2. ASSUME NEW x \in Int, AbsToSb(offset, x) >= f, AbsToSb(offset, x) \in n .. NumRows - 1
        PROVE  AbsToSb(Wrap(offset + n), x) >= Greatest(f - n, 0)
    <3>. DEFINE d == AbsToSb(offset, x)
    <3>1. offset \in Int /\ n \in Int
      BY Sizes DEF Rows
    <3>2. AbsToSb(Wrap(offset + n), x) = Wrap(d - n)
      BY <3>1, PlaceIs
    <3>3. d >= f /\ d \in n .. NumRows - 1
      BY <2>2
    <3>. HIDE DEF d
    <3>4. d - n \in Rows /\ d - n \in Int /\ d - n >= Greatest(f - n, 0)
      BY <3>3, Sizes DEF Rows, Greatest
    <3>. QED
      BY <3>2, <3>4, WrapNear
  <2>3. sel.start \in Int /\ sel.end \in Int
    BY DEF Selections
  <2>. QED
    BY <1>4, <2>1, <2>2, <2>3 DEF SelectedFrom
<1>. QED
  BY <1>2, <1>3, <1>4

\* Scrolling down by n lines takes the screen's last n places.
LEMMA SelectionDown ==
    ASSUME offset \in Rows, sel \in Selections, NEW f \in 0 .. H, SelectedFrom(sel, offset, f),
           WithoutDefects,
           NEW from, NEW to, NEW n \in Nat, n <= ScreenRows, Spares(KeptDown(Held, from, to, n))
    PROVE  /\ KeptDown(sel, from, to, n) \in Selections
           /\ SelectedFrom(KeptDown(sel, from, to, n), Wrap(offset - n), Least(f + n, H))
<1>0. offset \in Int /\ n \in Int /\ NumRows \in Int /\ ScreenRows \in Int /\ -n \in Int
      /\ H + (ScreenRows - 1) = NumRows - 1 /\ NumRows - 1 \in Rows /\ ScreenRows - 1 \in Int
  BY Sizes DEF Rows
<1>1. ASSUME NEW s \in Selections, s.end >= 0, KeptDown(s, from, to, n) # NoSelection
      PROVE  AbsToSb(offset, s.start) \in 0 .. NumRows - 1 - n /\ AbsToSb(offset, s.end) \in 0 .. NumRows - 1 - n
  <2>1. ~(Bottom(s) > AbsToSb(offset, offset + ScreenRows - 1) - n)
    BY <1>1 DEF KeptDown
  <2>2. /\ AbsToSb(offset, s.start) \in Rows /\ AbsToSb(offset, s.end) \in Rows /\ Bottom(s) \in Rows
        /\ Bottom(s) >= AbsToSb(offset, s.start) /\ Bottom(s) >= AbsToSb(offset, s.end)
    BY EndsAre
  <2>3. AbsToSb(offset, offset + ScreenRows - 1) = NumRows - 1
    <3>1. offset + ScreenRows - 1 = offset + (ScreenRows - 1)
      BY <1>0
    <3>2. AbsToSb(offset, offset + (ScreenRows - 1)) = Wrap(H + (ScreenRows - 1))
      BY <1>0, PlaceIs
    <3>3. Wrap(NumRows - 1) = NumRows - 1
      BY <1>0, WrapNear
    <3>. QED
      BY <1>0, <3>1, <3>2, <3>3
  <2>. QED
    BY <1>0, <2>1, <2>2, <2>3 DEF Rows
<1>2. KeptDown(sel, from, to, n) \in {sel, NoSelection}
  BY DEF KeptDown
<1>3. CASE KeptDown(sel, from, to, n) = NoSelection
  BY <1>3, NothingSelected
<1>4. CASE KeptDown(sel, from, to, n) = sel /\ sel # NoSelection
  <2>1. sel.end >= 0 \/ sel.ongoing =>
           /\ AbsToSb(offset, sel.start) \in 0 .. NumRows - 1 - n
           /\ sel.end >= 0 => AbsToSb(offset, sel.end) \in 0 .. NumRows - 1 - n
    BY <1>1, <1>4, HeldIs, HeldToo
  <2>2. ASSUME NEW x \in Int, AbsToSb(offset, x) >= f, AbsToSb(offset, x) \in 0 .. NumRows - 1 - n
        PROVE  AbsToSb(Wrap(offset - n), x) >= Least(f + n, H)
    <3>. DEFINE d == AbsToSb(offset, x)
                m == -n
    <3>1. m \in Int /\ offset + m = offset - n
      BY <1>0
    <3>. HIDE DEF m
    <3>2. AbsToSb(Wrap(offset - n), x) = Wrap(d - m)
      BY <1>0, <3>1, PlaceIs
    <3>3. d >= f /\ d \in 0 .. NumRows - 1 - n
      BY <2>2
    <3>. HIDE DEF d
    <3>4. d - m = d + n
      BY <1>0, <3>3 DEF m
    <3>5. d + n \in Rows /\ d + n \in Int /\ d + n >= Least(f + n, H)
      BY <1>0, <3>3, Sizes DEF Rows, Least
    <3>. QED
      BY <3>2, <3>4, <3>5, WrapNear
  <2>3. sel.start \in Int /\ sel.end \in Int
    BY DEF Selections
  <2>. QED
    BY <1>4, <2>1, <2>2, <2>3 DEF SelectedFrom
<1>. QED
  BY <1>2, <1>3, <1>4

(***************************************************************************)
(* The inductive invariant                                                 *)
(***************************************************************************)

Types ==
    /\ rows \in Rings
    /\ offset \in Rows /\ view \in Rows
    /\ sel \in Selections
    /\ original \in Rows \cup {-1}

\* The scrollback starts at place first: the rows from there on are allocated and no
\* others, and the view and what is selected are at or after it.
StartsAt(first) ==
    /\ Allocated(rows, offset, first)
    /\ AbsToSb(offset, view) \in first .. H
    /\ SelectedFrom(sel, offset, first)

RInv == Types /\ \E first \in 0 .. H : StartsAt(first)

\* Steps from a row by row
LEMMA StepsFrom ==
    ASSUME NEW off \in Rows, NEW v \in Rows, NEW j \in Int
    PROVE  /\ Wrap(v + j) \in Rows /\ AbsToSb(off, Wrap(v + j)) = Wrap(AbsToSb(off, v) + j)
           /\ Wrap(v - j) \in Rows /\ AbsToSb(off, Wrap(v - j)) = Wrap(AbsToSb(off, v) - j)
           /\ AbsToSb(off, v) \in Rows /\ AbsToSb(off, off) = H
           /\ Wrap(off - v) = Wrap(H - AbsToSb(off, v))
<1>1. off \in Int /\ v \in Int /\ ScreenRows \in Int /\ NumRows \in Int /\ H \in Int /\ Rows \subseteq Int
  BY Sizes DEF Rows
<1>2. ASSUME NEW i \in Int
      PROVE  Wrap(v + i) \in Rows /\ AbsToSb(off, Wrap(v + i)) = Wrap(AbsToSb(off, v) + i)
  <2>1. v + i \in Int
    BY <1>1
  <2>2. AbsToSb(off, v + i) = Wrap(AbsToSb(off, v) + i)
    BY <1>1, PlaceIs
  <2>3. AbsToSb(off, Wrap(v + i)) = AbsToSb(off, v + i)
    BY <1>1, <2>1, PlaceIs
  <2>. QED
    BY <2>1, <2>2, <2>3, WrapIs
<1>3. AbsToSb(off, v) \in Rows /\ AbsToSb(off, v) \in Int
  BY <1>1, PlaceIs
<1>4. Wrap(v - j) \in Rows /\ AbsToSb(off, Wrap(v - j)) = Wrap(AbsToSb(off, v) - j)
  <2>. DEFINE i == -j
              d == AbsToSb(off, v)
  <2>. HIDE DEF d
  <2>1. i \in Int /\ v + i = v - j /\ d + i = d - j
    BY <1>1, <1>3 DEF d
  <2>. HIDE DEF i
  <2>2. Wrap(v + i) \in Rows /\ AbsToSb(off, Wrap(v + i)) = Wrap(d + i)
    BY <1>2, <2>1 DEF d
  <2>. QED
    BY <2>1, <2>2 DEF d
<1>5. AbsToSb(off, off) = H
  <2>1. off + 0 = off /\ H + 0 = H /\ 0 \in Int
    BY <1>1
  <2>2. AbsToSb(off, off + 0) = Wrap(H + 0)
    BY <1>1, <2>1, PlaceIs
  <2>. QED
    BY <2>1, <2>2, Sizes, WrapNear
<1>6. Wrap(off - v) = Wrap(H - AbsToSb(off, v))
  <2>. DEFINE a == v - (off + ScreenRows)
  <2>1. AbsToSb(off, v) = Wrap(a)
    BY DEF AbsToSb
  <2>2. a \in Int /\ H - a = NumRows * 1 + (off - v) /\ off - v \in Int
    BY <1>1, SMT DEF H
  <2>. HIDE DEF a
  <2>3. Wrap(H - Wrap(a)) = Wrap(H - a)
    BY <1>1, <2>2, WrapAdd
  <2>. QED
    BY <2>1, <2>2, <2>3, WrapLaps
<1>. QED
  BY <1>2, <1>3, <1>4, <1>5, <1>6

LEMMA PlacesAre ==
    ASSUME NEW off \in Rows, NEW v \in Rows
    PROVE  /\ AbsToSb(off, v) \in Rows /\ AbsToSb(off, off) = H
           /\ Wrap(off - v) = Wrap(H - AbsToSb(off, v))
<1>1. 0 \in Int
  OBVIOUS
<1>. QED
  BY <1>1, StepsFrom

\* grid_sb_start_ignore_uninitialized() finds where the scrollback starts.
LEMMA StartIs ==
    ASSUME Types, NEW f \in 0 .. H, Allocated(rows, offset, f)
    PROVE  /\ SbStart \in Rows /\ AbsToSb(offset, SbStart) = f
           /\ \A r \in Rows : FromSbStart(r) = Wrap(AbsToSb(offset, r) - f)
           /\ \A k \in Int : /\ Wrap(SbStart + k) \in Rows
                             /\ AbsToSb(offset, Wrap(SbStart + k)) = Wrap(f + k)
<1>1. offset \in Rows /\ offset \in Int /\ Rows \subseteq Int /\ ScreenRows \in Int /\ f \in Int /\ f \in Rows
  BY Sizes DEF Types, Rows
<1>. DEFINE K == {k \in Rows : rows[SbToAbs(offset, k)] # "none"}
<1>2. \A k \in Rows : k \in K <=> k >= f
  BY <1>1, RowAt DEF Allocated
<1>3. K \subseteq Rows /\ f \in K
  BY <1>1, <1>2
<1>. HIDE DEF K
<1>4. Min(K) \in K /\ Min(K) <= f
  BY <1>3, MinIs
<1>5. Min(K) = f
  <2>1. Min(K) \in Int /\ Min(K) >= f
    BY <1>1, <1>2, <1>3, <1>4
  <2>. QED
    BY <1>1, <1>4, <2>1
<1>6. SbStart = SbToAbs(offset, f)
  BY <1>5 DEF SbStart, K
<1>7. SbStart \in Rows /\ AbsToSb(offset, SbStart) = f
  BY <1>1, <1>6, RowAt
<1>8. ASSUME NEW r \in Rows PROVE FromSbStart(r) = Wrap(AbsToSb(offset, r) - f)
  <2>. DEFINE a == r - (offset + ScreenRows)
              s == SbStart - (offset + ScreenRows)
  <2>1. a \in Int /\ s \in Int /\ a - s = r - SbStart
    BY <1>1, <1>7
  <2>2. AbsToSb(offset, r) = Wrap(a) /\ f = Wrap(s)
    BY <1>7 DEF AbsToSb
  <2>. HIDE DEF a, s
  <2>3. Wrap(s) \in Int /\ Wrap(a) \in Int /\ Wrap(s) \in Rows
    BY <1>1, <2>1, WrapIs
  <2>4. Wrap(Wrap(a) - Wrap(s)) = Wrap(Wrap(a) - s)
    BY <2>1, <2>3, WrapAdd
  <2>5. Wrap(Wrap(a) - s) = Wrap(a - s)
    <3>. DEFINE m == -s
                w == Wrap(a)
    <3>. HIDE DEF w
    <3>1. m \in Int /\ w + m = w - s /\ a + m = a - s
      BY <2>1, <2>3 DEF w
    <3>. HIDE DEF m
    <3>2. Wrap(w + m) = Wrap(a + m)
      BY <2>1, <3>1, WrapAdd DEF w
    <3>. QED
      BY <3>1, <3>2 DEF w
  <2>. QED
    BY <2>1, <2>2, <2>4, <2>5 DEF FromSbStart
<1>9. ASSUME NEW k \in Int
      PROVE  Wrap(SbStart + k) \in Rows /\ AbsToSb(offset, Wrap(SbStart + k)) = Wrap(f + k)
  BY <1>1, <1>7, StepsFrom
<1>. QED
  BY <1>7, <1>8, <1>9

\* What moves only the view, to a place between the scrollback's start and the screen, and
\* the selection as it says
LEMMA LookedAt ==
    ASSUME Types, NEW f \in 0 .. H, StartsAt(f), UNCHANGED <<rows, offset>>,
           view' \in Rows, AbsToSb(offset, view') \in f .. H,
           sel' \in Selections, SelectedFrom(sel', offset, f), original' \in Rows \cup {-1}
    PROVE  RInv'
<1>1. Types'
  BY DEF Types
<1>2. StartsAt(f)'
  BY DEF StartsAt
<1>3. (0 .. H)' = 0 .. H
  BY DEF H
<1>. QED
  BY <1>1, <1>2, <1>3 DEF RInv

\* The ring as it is at first, and after term_reset()
Fresh ==
    /\ rows = [r \in Rows |-> IF r \in Screen THEN "plain" ELSE "none"]
    /\ offset = 0 /\ view = 0
    /\ sel = NoSelection
    /\ original \in Rows \cup {-1}

LEMMA FreshRing ==
    ASSUME Fresh
    PROVE  Types /\ Allocated(rows, offset, H) /\ AbsToSb(offset, view) = H
<1>1. /\ NumRows \in Nat /\ NumRows > 0 /\ ScreenRows \in Nat /\ ScreenRows > 0 /\ ScreenRows <= NumRows
      /\ H \in Nat /\ H + ScreenRows = NumRows /\ H \in Rows /\ 0 \in Rows /\ Rows = 0 .. NumRows - 1
  BY Sizes DEF Rows
<1>2. Types
  BY <1>1, NothingSelected DEF Fresh, Types, Rings, Contents
<1>3. Allocated(rows, offset, H)
  <2>. SUFFICES ASSUME NEW r \in Rows PROVE rows[r] # "none" <=> AbsToSb(offset, r) >= H
    BY DEF Allocated
  <2>1. rows[r] # "none" <=> r < ScreenRows
    BY <1>1 DEF Fresh, Screen
  <2>2. AbsToSb(offset, r) = Wrap(r - ScreenRows) /\ r \in Int /\ r - ScreenRows \in Int
    BY <1>1 DEF Fresh, AbsToSb
  <2>3. CASE r < ScreenRows
    <3>1. r - ScreenRows + NumRows \in Rows /\ r - ScreenRows + NumRows >= H
      BY <1>1, <2>3
    <3>. QED
      BY <2>1, <2>2, <2>3, <3>1, WrapNear
  <2>4. CASE ~(r < ScreenRows)
    <3>1. r - ScreenRows \in Rows /\ ~(r - ScreenRows >= H)
      BY <1>1, <2>4
    <3>. QED
      BY <2>1, <2>2, <2>4, <3>1, WrapNear
  <2>. QED
    BY <2>3, <2>4
<1>4. AbsToSb(offset, view) = H
  <2>1. offset \in Rows /\ view = offset
    BY <1>1 DEF Fresh
  <2>. QED
    BY <1>1, <2>1, PlacesAre
<1>. QED
  BY <1>2, <1>3, <1>4

LEMMA InvFresh == Fresh => RInv
<1>. SUFFICES ASSUME Fresh PROVE RInv
  OBVIOUS
<1>1. SelectedFrom(sel, offset, H)
  BY NothingSelected DEF Fresh
<1>2. H \in 0 .. H /\ H \in H .. H
  BY Sizes
<1>. QED
  BY <1>1, <1>2, FreshRing DEF RInv, StartsAt

LEMMA InvInit == Init => RInv
  BY InvFresh DEF Init, Fresh

(***************************************************************************)
(* Every step keeps the invariant                                          *)
(***************************************************************************)

LEMMA ScrollUpStep ==
    ASSUME Types, NEW f \in 0 .. H, StartsAt(f), WithoutDefects,
           NEW from, NEW to, NEW n, Regions(from, to, n), TermScrollPartial(from, to, n)
    PROVE  RInv'
<1>. DEFINE off == Wrap(offset + n)
            kept == KeptUp(sel, from, to, n)
            g == Greatest(f - n, 0)
            d == AbsToSb(offset, view)
<1>1. /\ n \in Nat /\ n > 0 /\ n <= ScreenRows /\ n \in Int
      /\ NumRows \in Nat /\ ScreenRows \in Nat /\ H + ScreenRows = NumRows /\ H \in Nat /\ H < NumRows
      /\ Rows = 0 .. NumRows - 1 /\ Rows \subseteq Int /\ f \in Int
  BY RegionIs, Sizes DEF Rows
<1>2. offset \in Rows /\ view \in Rows /\ rows \in Rings /\ sel \in Selections /\ original \in Rows \cup {-1}
  BY DEF Types
<1>3. Allocated(rows, offset, f) /\ d \in f .. H /\ SelectedFrom(sel, offset, f)
  BY DEF StartsAt
<1>4. rows' \in Rings /\ offset' = off /\ off \in Rows /\ Allocated(rows', off, g)
  BY <1>2, <1>3, RingUp
<1>5. kept \in Selections /\ SelectedFrom(kept, off, g)
  <2>1. Spares(KeptUp(Held, from, to, n))
    BY DEF TermScrollPartial
  <2>. QED
    BY <1>1, <1>2, <1>3, <2>1, SelectionUp
<1>6. g \in 0 .. H /\ g \in Int /\ (d >= n => d - n >= g) /\ (d < n => g = 0)
  BY <1>1, <1>3 DEF Greatest
<1>7. AbsToSb(off, view) = Wrap(d - n) /\ AbsToSb(off, off) = H /\ Wrap(off - view) = Wrap(H - AbsToSb(off, view))
  <2>1. offset \in Int /\ view \in Int
    BY <1>1, <1>2
  <2>2. AbsToSb(off, view) = Wrap(d - n)
    BY <1>1, <2>1, PlaceIs
  <2>. QED
    BY <1>2, <1>4, <2>2, PlacesAre, Sizes
\* The view
<1>8. view' \in Rows /\ AbsToSb(off, view') \in g .. H
  <2>1. CASE view = offset
    <3>1. view' = off
      BY <2>1 DEF TermScrollPartial
    <3>. QED
      BY <1>1, <1>4, <1>6, <1>7, <3>1
  <2>2. CASE view # offset /\ ~(n > d)
    <3>1. view' = view
      BY <2>2 DEF TermScrollPartial
    <3>. HIDE DEF g, d, off
    <3>2. d - n \in Rows /\ d - n \in Int /\ d - n >= g /\ d - n <= H
      BY <1>1, <1>3, <1>6, <2>2
    <3>3. AbsToSb(off, view) = d - n
      BY <1>7, <3>2, WrapNear
    <3>. QED
      BY <1>1, <1>2, <1>6, <3>1, <3>2, <3>3
  <2>3. CASE view # offset /\ n > d
    <3>. DEFINE m == n - d
    <3>1. view' = LoweredView(off, m) /\ mode # "urls"
      BY <2>3 DEF TermScrollPartial, WithoutDefects
    <3>2. view' = Wrap(view + Least(m, Wrap(off - view)))
      BY <3>1 DEF LoweredView
    <3>. HIDE DEF g, d, off
    <3>3. m \in 1 .. ScreenRows /\ d - n = -m /\ -m \in Int /\ g = 0
      BY <1>1, <1>3, <1>6, <2>3
    <3>. HIDE DEF m
    <3>4. AbsToSb(off, view) = NumRows - m
      <4>1. -m + NumRows \in Rows /\ -m + NumRows = NumRows - m
        BY <1>1, <3>3
      <4>. QED
        BY <1>7, <3>3, <4>1, WrapNear
    <3>5. Wrap(off - view) = Wrap(m - ScreenRows) /\ m - ScreenRows \in Int
      <4>1. H - (NumRows - m) = m - ScreenRows /\ m - ScreenRows \in Int
        BY <1>1, <3>3
      <4>. QED
        BY <1>7, <3>4, <4>1
    <3>6. CASE m = ScreenRows
      <4>1. m - ScreenRows \in Rows /\ m - ScreenRows = 0
        BY <1>1, <3>3, <3>6
      <4>2. Wrap(off - view) = 0
        BY <3>5, <4>1, WrapNear
      <4>3. Least(m, 0) = 0
        BY <3>3 DEF Least
      <4>4. view + 0 = view /\ view \in Int
        BY <1>1, <1>2
      <4>5. view' = view
        BY <1>2, <3>2, <4>2, <4>3, <4>4, WrapNear
      <4>. QED
        BY <1>1, <1>2, <3>3, <3>4, <3>6, <4>5
    <3>7. CASE m # ScreenRows
      <4>1. m - ScreenRows + NumRows \in Rows /\ m - ScreenRows + NumRows >= m
            /\ m - ScreenRows + NumRows \in Int
        BY <1>1, <3>3, <3>7
      <4>2. Wrap(off - view) = m - ScreenRows + NumRows
        BY <3>5, <4>1, WrapNear
      <4>3. Least(m, m - ScreenRows + NumRows) = m
        BY <3>3, <4>1 DEF Least
      <4>4. view' = Wrap(view + m) /\ m \in Int
        BY <3>2, <3>3, <4>2, <4>3
      <4>5. view' \in Rows /\ AbsToSb(off, view') = Wrap((NumRows - m) + m)
        BY <1>2, <1>4, <3>4, <4>4, StepsFrom
      <4>6. (NumRows - m) + m \in Int /\ (NumRows - m) + m - NumRows \in Rows /\ (NumRows - m) + m - NumRows = 0
        BY <1>1, <3>3
      <4>. QED
        BY <1>1, <3>3, <4>5, <4>6, WrapNear
    <3>. QED
      BY <3>6, <3>7
  <2>. QED
    BY <2>1, <2>2, <2>3
\* The selection
<1>9. sel' \in Selections /\ SelectedFrom(sel', off, g)
  <2>1. \/ sel' = ViewDown(kept, off, view)
        \/ sel' = ViewDown(kept, SbToAbs(off, 0), view)
        \/ sel' = kept
    BY DEF TermScrollPartial
  <2>2. off \in Int
    BY <1>1, <1>4
  <2>. QED
    BY <1>5, <2>1, <2>2, LapsChange
<1>10. original' = original
  BY DEF TermScrollPartial
<1>. HIDE DEF off, kept, g, d
<1>11. Types'
  BY <1>2, <1>4, <1>8, <1>9, <1>10 DEF Types
<1>12. StartsAt(g)'
  BY <1>4, <1>8, <1>9 DEF StartsAt, H, g
<1>. QED
  BY <1>6, <1>11, <1>12 DEF RInv, H, g

LEMMA ScrollDownStep ==
    ASSUME Types, NEW f \in 0 .. H, StartsAt(f), WithoutDefects,
           NEW from, NEW to, NEW n, Regions(from, to, n), TermScrollReversePartial(from, to, n)
    PROVE  RInv'
<1>. DEFINE off == Wrap(offset - n)
            kept == KeptDown(sel, from, to, n)
            g == Least(f + n, H)
            d == AbsToSb(offset, view)
<1>1. /\ n \in Nat /\ n > 0 /\ n <= ScreenRows /\ n \in Int
      /\ NumRows \in Nat /\ ScreenRows \in Nat /\ H + ScreenRows = NumRows /\ H \in Nat /\ H < NumRows
      /\ Rows = 0 .. NumRows - 1 /\ Rows \subseteq Int /\ f \in Int
  BY RegionIs, Sizes DEF Rows
<1>2. offset \in Rows /\ view \in Rows /\ rows \in Rings /\ sel \in Selections /\ original \in Rows \cup {-1}
  BY DEF Types
<1>3. Allocated(rows, offset, f) /\ d \in f .. H /\ SelectedFrom(sel, offset, f)
  BY DEF StartsAt
<1>4. rows' \in Rings /\ offset' = off /\ off \in Rows /\ Allocated(rows', off, g)
  BY <1>2, <1>3, RingDown
<1>5. kept \in Selections /\ SelectedFrom(kept, off, g)
  <2>1. Spares(KeptDown(Held, from, to, n))
    BY DEF TermScrollReversePartial
  <2>. QED
    BY <1>1, <1>2, <1>3, <2>1, SelectionDown
<1>6. g \in 0 .. H /\ g \in Int /\ g <= f + n
  BY <1>1 DEF Least
<1>7. AbsToSb(off, off) = H
  BY <1>4, PlacesAre, Sizes
\* The view
<1>8. view' \in Rows /\ AbsToSb(off, view') \in g .. H
  <2>1. CASE view = offset \/ AbsToSb(off, view) > AbsToSb(off, off)
    <3>1. view' = off
      BY <2>1 DEF TermScrollReversePartial
    <3>. QED
      BY <1>1, <1>4, <1>6, <1>7, <3>1
  <2>2. CASE ~(view = offset \/ AbsToSb(off, view) > AbsToSb(off, off))
    <3>1. view' = view
      BY <2>2 DEF TermScrollReversePartial
    <3>2. AbsToSb(off, view) = Wrap(d + n)
      <4>. DEFINE m == -n
      <4>1. m \in Int /\ offset + m = offset - n /\ offset \in Int /\ view \in Int
        BY <1>1, <1>2
      <4>2. AbsToSb(Wrap(offset + m), view) = Wrap(d - m)
        <5>. HIDE DEF m
        <5>. QED
          BY <4>1, PlaceIs
      <4>. HIDE DEF d
      <4>3. d - m = d + n
        BY <1>1, <1>3
      <4>. HIDE DEF m
      <4>. QED
        BY <4>1, <4>2, <4>3
    <3>3. d # H
      <4>1. offset \in Int /\ AbsToSb(offset, offset) = H
        BY <1>1, <1>2, PlacesAre, Sizes
      <4>. QED
        BY <1>2, <2>2, <4>1, PlaceOfOne
    <3>. HIDE DEF g, d, off
    <3>4. d + n \in Rows /\ d + n \in Int /\ d + n >= g
      BY <1>1, <1>3, <1>6, <3>3
    <3>5. AbsToSb(off, view) = d + n
      BY <3>2, <3>4, WrapNear
    <3>6. ~(d + n > H)
      BY <1>7, <2>2, <3>5
    <3>. QED
      BY <1>1, <1>2, <1>6, <3>1, <3>4, <3>5, <3>6
  <2>. QED
    BY <2>1, <2>2
\* The selection
<1>9. sel' \in Selections /\ SelectedFrom(sel', off, g)
  <2>1. sel' = ViewUp(kept, off, view) \/ sel' = kept
    BY DEF TermScrollReversePartial
  <2>2. off \in Int
    BY <1>1, <1>4
  <2>. QED
    BY <1>5, <2>1, <2>2, LapsChange
<1>10. original' = original
  BY DEF TermScrollReversePartial
<1>. HIDE DEF off, kept, g, d
<1>11. Types'
  BY <1>2, <1>4, <1>8, <1>9, <1>10 DEF Types
<1>12. StartsAt(g)'
  BY <1>4, <1>8, <1>9 DEF StartsAt, H, g
<1>. QED
  BY <1>6, <1>11, <1>12 DEF RInv, H, g

\* The rows of the history have the places before the screen's.
LEMMA HistoryIs ==
    ASSUME offset \in Rows
    PROVE  \A r \in Rows : r \in History <=> AbsToSb(offset, r) < H
<1>1. /\ NumRows \in Nat /\ NumRows > 0 /\ ScreenRows \in Nat /\ ScreenRows > 0 /\ ScreenRows <= NumRows
      /\ H \in Nat /\ H + ScreenRows = NumRows /\ H < NumRows
      /\ Rows = 0 .. NumRows - 1 /\ Rows \subseteq Int
  BY Sizes DEF Rows
<1>2. offset \in Rows /\ offset \in Int
  BY <1>1
<1>3. ASSUME NEW i \in ScreenRows .. NumRows - 1
      PROVE  AbsToSb(offset, Wrap(offset + i)) = i - ScreenRows /\ i - ScreenRows < H
  <2>1. i \in Int /\ H + i \in Int /\ H + i - NumRows = i - ScreenRows /\ i - ScreenRows \in Rows
        /\ i - ScreenRows < H
    BY <1>1
  <2>2. AbsToSb(offset, Wrap(offset + i)) = Wrap(H + i)
    BY <1>2, <2>1, StepsFrom
  <2>. QED
    BY <1>1, <2>1, <2>2, WrapNear
<1>4. ASSUME NEW r \in Rows, AbsToSb(offset, r) < H
      PROVE  \E i \in ScreenRows .. NumRows - 1 : r = Wrap(offset + i)
  <2>. DEFINE p == AbsToSb(offset, r)
  <2>1. p \in Rows /\ p < H
    BY <1>2, <1>4, PlacesAre, Sizes
  <2>. HIDE DEF p
  <2>. DEFINE i == p + ScreenRows
  <2>2. i \in ScreenRows .. NumRows - 1 /\ i - ScreenRows = p /\ i \in Int /\ offset + i \in Int
    BY <1>1, <1>2, <2>1
  <2>. HIDE DEF i
  <2>3. AbsToSb(offset, Wrap(offset + i)) = AbsToSb(offset, r) /\ Wrap(offset + i) \in Rows
    BY <1>3, <2>2, WrapIs DEF p
  <2>. QED
    BY <1>2, <2>2, <2>3, PlaceOfOne
<1>. QED
  BY <1>3, <1>4 DEF History

LEMMA ErasedRing ==
    ASSUME Types, NEW f \in 0 .. H, Allocated(rows, offset, f), TermEraseScrollback
    PROVE  /\ rows' \in Rings /\ Allocated(rows', offset, H)
           /\ \A r \in Rows : AbsToSb(offset, r) >= H => rows'[r] = rows[r]
<1>1. /\ H \in Nat /\ Rows = 0 .. NumRows - 1 /\ Rows \subseteq Int /\ f \in Int
  BY Sizes DEF Rows
<1>2. offset \in Rows /\ rows \in Rings
  BY DEF Types
<1>3. Allocated(rows, offset, f)
  OBVIOUS
<1>4. \A r \in Rows : r \in History <=> AbsToSb(offset, r) < H
  BY <1>2, HistoryIs
<1>5. rows' = [r \in Rows |-> IF r \in History THEN "none" ELSE rows[r]]
  BY DEF TermEraseScrollback
<1>6. rows' \in Rings
  BY <1>2, <1>5 DEF Rings, Contents
<1>7. Allocated(rows', offset, H)
  <2>1. \A r \in Rows : AbsToSb(offset, r) \in Int /\ (AbsToSb(offset, r) >= H => AbsToSb(offset, r) >= f)
    <3>1. \A r \in Rows : AbsToSb(offset, r) \in Rows
      BY <1>2, PlacesAre, Sizes
    <3>2. \A p \in Rows : p \in Int /\ (p >= H => p >= f)
      BY <1>1
    <3>. QED
      BY <3>1, <3>2
  <2>2. \A p \in Int : p < H <=> ~(p >= H)
    BY <1>1
  <2>. QED
    BY <1>3, <1>4, <1>5, <2>1, <2>2 DEF Allocated
<1>8. \A r \in Rows : AbsToSb(offset, r) >= H => rows'[r] = rows[r]
  <2>1. \A r \in Rows : AbsToSb(offset, r) \in Int
    BY <1>1, <1>2, PlacesAre
  <2>2. \A p \in Int : p < H <=> ~(p >= H)
    BY <1>1
  <2>. QED
    BY <1>4, <1>5, <2>1, <2>2
<1>. QED
  BY <1>6, <1>7, <1>8

LEMMA EraseStep ==
    ASSUME Types, NEW f \in 0 .. H, StartsAt(f), WithoutDefects, TermEraseScrollback
    PROVE  RInv'
<1>1. /\ NumRows \in Nat /\ NumRows > 0 /\ ScreenRows \in Nat /\ ScreenRows > 0 /\ ScreenRows <= NumRows
      /\ H \in Nat /\ H + ScreenRows = NumRows /\ H < NumRows
      /\ Rows = 0 .. NumRows - 1 /\ Rows \subseteq Int /\ f \in Int
  BY Sizes DEF Rows
<1>2. offset \in Rows /\ view \in Rows /\ rows \in Rings /\ sel \in Selections /\ original \in Rows \cup {-1}
      /\ offset \in Int
  BY <1>1 DEF Types
<1>3. Allocated(rows, offset, f) /\ SelectedFrom(sel, offset, f)
  BY DEF StartsAt
<1>5. /\ view' = offset /\ sel' = KeptErasing(sel) /\ offset' = offset /\ original' = original
      /\ NumRows > ScreenRows /\ Spares(KeptErasing(Held))
  BY DEF TermEraseScrollback
<1>6. rows' \in Rings
  BY <1>3, ErasedRing
<1>7. Allocated(rows', offset, H)
  BY <1>3, ErasedRing
<1>8. AbsToSb(offset, view') \in H .. H
  BY <1>1, <1>2, <1>5, PlacesAre, Sizes
<1>9. ASSUME NEW s \in Selections, s.end >= 0, KeptErasing(s) # NoSelection
      PROVE  AbsToSb(offset, s.start) \in H .. NumRows - 1 /\ AbsToSb(offset, s.end) \in H .. NumRows - 1
  <2>1. AbsToSb(offset, offset - 1) = H - 1
    <3>1. AbsToSb(offset, Wrap(offset - 1)) = Wrap(H - 1) /\ offset - 1 \in Int
      BY <1>2, StepsFrom
    <3>2. H - 1 \in Rows /\ H - 1 \in Int
      BY <1>1, <1>5
    <3>. QED
      BY <1>2, <3>1, <3>2, PlaceIs, WrapNear
  <2>2. AbsToSb(offset, s.start) \in Rows /\ AbsToSb(offset, s.end) \in Rows
    BY <1>2, EndsAre
  <2>3. ~((AbsToSb(offset, s.start) <= H - 1 /\ AbsToSb(offset, s.end) >= H - 1)
             \/ AbsToSb(offset, s.end) <= H - 1)
    BY <1>9, <2>1 DEF KeptErasing
  <2>. QED
    BY <1>1, <2>2, <2>3
<1>10. sel' \in Selections /\ SelectedFrom(sel', offset, H)
  <2>1. KeptErasing(sel) \in {sel, NoSelection}
    BY DEF KeptErasing
  <2>2. CASE KeptErasing(sel) = NoSelection
    BY <1>5, <2>2, NothingSelected
  <2>3. CASE KeptErasing(sel) = sel /\ sel # NoSelection
    <3>1. sel.end >= 0 \/ sel.ongoing =>
             /\ AbsToSb(offset, sel.start) \in H .. NumRows - 1
             /\ sel.end >= 0 => AbsToSb(offset, sel.end) \in H .. NumRows - 1
      BY <1>2, <1>3, <1>5, <1>9, <2>3, HeldIs, HeldToo
    <3>2. \A p \in H .. NumRows - 1 : p >= H
      BY <1>1
    <3>. QED
      BY <1>2, <1>3, <1>5, <2>3, <3>1, <3>2 DEF SelectedFrom
  <2>. QED
    BY <2>1, <2>2, <2>3
<1>11. Types'
  BY <1>2, <1>5, <1>6, <1>10 DEF Types
<1>12. StartsAt(H)'
  BY <1>5, <1>7, <1>8, <1>10 DEF StartsAt, H
<1>13. H \in 0 .. H
  BY <1>1
<1>. QED
  BY <1>11, <1>12, <1>13 DEF RInv, H

LEMMA MarkedRing ==
    ASSUME Types, NEW f \in 0 .. H, Allocated(rows, offset, f), NEW i \in Screen, MarkPrompt(i)
    PROVE  /\ rows' \in Rings /\ Allocated(rows', offset, f)
           /\ Wrap(offset + i) \in Rows
           /\ \A r \in Rows : rows'[r] = IF r = Wrap(offset + i) THEN "prompt" ELSE rows[r]
<1>1. /\ H \in Nat /\ Rows = 0 .. NumRows - 1 /\ f \in Int /\ i \in Int /\ i >= 0
      /\ H + i \in Rows /\ H + i \in Int /\ H + i >= f
  BY Sizes DEF Rows, Screen
<1>2. offset \in Rows /\ rows \in Rings
  BY DEF Types
<1>. DEFINE a == Wrap(offset + i)
<1>3. rows' = [rows EXCEPT ![a] = "prompt"]
  BY DEF MarkPrompt
<1>4. a \in Rows /\ AbsToSb(offset, a) = H + i
  BY <1>1, <1>2, StepsFrom, PlacesAre, WrapNear
<1>. HIDE DEF a
<1>5. rows' \in Rings
  BY <1>2, <1>3, <1>4 DEF Rings, Contents
<1>6. \A r \in Rows : rows'[r] = IF r = a THEN "prompt" ELSE rows[r]
  BY <1>2, <1>3, <1>4 DEF Rings
<1>7. Allocated(rows', offset, f)
  BY <1>1, <1>4, <1>6 DEF Allocated
<1>. QED
  BY <1>4, <1>5, <1>6, <1>7 DEF a

LEMMA MarkPromptStep ==
    ASSUME Types, NEW f \in 0 .. H, StartsAt(f), NEW i \in Screen, MarkPrompt(i)
    PROVE  RInv'
<1>1. offset \in Rows /\ view \in Rows /\ sel \in Selections /\ original \in Rows \cup {-1}
  BY DEF Types
<1>2. Allocated(rows, offset, f) /\ AbsToSb(offset, view) \in f .. H /\ SelectedFrom(sel, offset, f)
  BY DEF StartsAt
<1>3. offset' = offset /\ view' = view /\ sel' = sel /\ original' = original
  BY DEF MarkPrompt
<1>4. rows' \in Rings /\ Allocated(rows', offset, f)
  BY <1>2, MarkedRing
<1>5. Types'
  BY <1>1, <1>3, <1>4 DEF Types
<1>6. StartsAt(f)'
  BY <1>2, <1>3, <1>4 DEF StartsAt, H
<1>. QED
  BY <1>5, <1>6 DEF RInv, H

LEMMA ResetStep ==
    ASSUME Types, TermReset
    PROVE  RInv'
<1>1. Fresh'
  BY DEF TermReset, Fresh, Types, Rows, Screen
<1>. QED
  BY <1>1, InvFresh, PTL

\* Moving the view by rows
LEMMA ScrollbackUpStep ==
    ASSUME Types, NEW f \in 0 .. H, StartsAt(f), NEW n \in 1 .. NumRows, CmdScrollbackUp(n)
    PROVE  RInv'
<1>. DEFINE d == AbsToSb(offset, view)
            k == Least(n, FromSbStart(view))
<1>1. /\ NumRows \in Nat /\ H \in Nat /\ H < NumRows /\ Rows = 0 .. NumRows - 1 /\ f \in Int /\ n \in Int
  BY Sizes DEF Rows
<1>2. offset \in Rows /\ view \in Rows /\ rows \in Rings /\ sel \in Selections /\ original \in Rows \cup {-1}
      /\ offset \in Int
  BY <1>1 DEF Types
<1>3. Allocated(rows, offset, f) /\ d \in f .. H /\ SelectedFrom(sel, offset, f)
  BY DEF StartsAt
<1>4. FromSbStart(view) = Wrap(d - f)
  BY <1>2, <1>3, StartIs
<1>5. /\ view' = Wrap(view - k) /\ sel' = ViewUp(sel, view', view)
      /\ rows' = rows /\ offset' = offset /\ original' = original
  BY DEF CmdScrollbackUp
<1>. HIDE DEF d
<1>6. d - f \in Rows /\ d - f \in Int
  BY <1>1, <1>3
<1>7. k \in Int /\ d - k \in f .. H
  <2>1. k = Least(n, d - f)
    BY <1>4, <1>6, WrapNear
  <2>. QED
    BY <1>1, <1>3, <2>1, CmdScrollbackUp(n), WrapNear DEF CmdScrollbackUp, Least
<1>. HIDE DEF k
<1>8. view' \in Rows /\ AbsToSb(offset, view') = d - k
  <2>1. d - k \in Rows /\ d - k \in Int
    BY <1>1, <1>7
  <2>. QED
    BY <1>2, <1>5, <1>7, <2>1, StepsFrom, WrapNear DEF d
<1>9. sel' \in Selections /\ SelectedFrom(sel', offset, f)
  BY <1>2, <1>3, <1>5, LapsChange
<1>. QED
  BY <1>2, <1>5, <1>7, <1>8, <1>9, LookedAt

LEMMA ScrollbackDownStep ==
    ASSUME Types, NEW f \in 0 .. H, StartsAt(f), NEW n \in 1 .. NumRows, CmdScrollbackDown(n)
    PROVE  RInv'
<1>. DEFINE d == AbsToSb(offset, view)
            k == Least(n, Wrap(offset - view))
<1>1. /\ NumRows \in Nat /\ H \in Nat /\ H < NumRows /\ Rows = 0 .. NumRows - 1 /\ f \in Int /\ n \in Int /\ n >= 1
  BY Sizes DEF Rows
<1>2. offset \in Rows /\ view \in Rows /\ rows \in Rings /\ sel \in Selections /\ original \in Rows \cup {-1}
      /\ offset \in Int
  BY <1>1 DEF Types
<1>3. Allocated(rows, offset, f) /\ d \in f .. H /\ SelectedFrom(sel, offset, f)
  BY DEF StartsAt
<1>4. Wrap(offset - view) = Wrap(H - d)
  BY <1>2, PlacesAre
<1>5. /\ view' = LoweredView(offset, n) /\ mode # "urls" /\ sel' = ViewDown(sel, view', view)
      /\ rows' = rows /\ offset' = offset /\ original' = original
  BY DEF CmdScrollbackDown
<1>6. view' = Wrap(view + k)
  BY <1>5 DEF LoweredView
<1>. HIDE DEF d
<1>7. H - d \in Rows /\ H - d \in Int
  BY <1>1, <1>3
<1>8. k \in Int /\ d + k \in f .. H
  <2>1. k = Least(n, H - d)
    BY <1>4, <1>7, WrapNear
  <2>. HIDE DEF k
  <2>. QED
    BY <1>1, <1>3, <1>7, <2>1 DEF Least
<1>. HIDE DEF k
<1>9. view' \in Rows /\ AbsToSb(offset, view') = d + k
  <2>1. d + k \in Rows /\ d + k \in Int
    BY <1>1, <1>8
  <2>. QED
    BY <1>2, <1>6, <1>8, <2>1, StepsFrom, WrapNear DEF d
<1>10. sel' \in Selections /\ SelectedFrom(sel', offset, f)
  BY <1>2, <1>3, <1>5, LapsChange
<1>. QED
  BY <1>2, <1>5, <1>8, <1>9, <1>10, LookedAt

\* The view goes to place k of the scrollback, not below the screen.
LEMMA ViewAt ==
    ASSUME Types, NEW f \in 0 .. H, StartsAt(f), NEW k \in Nat, f + k <= H,
           view' = Wrap(SbStart + k), UNCHANGED <<rows, offset, sel, original>>
    PROVE  RInv'
<1>1. /\ NumRows \in Nat /\ H \in Nat /\ H < NumRows /\ Rows = 0 .. NumRows - 1 /\ f \in Int /\ k \in Int
      /\ f + k \in Rows /\ f + k \in Int /\ f + k \in f .. H
  BY Sizes DEF Rows
<1>2. sel \in Selections /\ original \in Rows \cup {-1} /\ Allocated(rows, offset, f) /\ SelectedFrom(sel, offset, f)
  BY DEF Types, StartsAt
<1>3. view' \in Rows /\ AbsToSb(offset, view') = f + k
  BY <1>1, <1>2, StartIs, WrapNear
<1>. QED
  BY <1>1, <1>2, <1>3, LookedAt

LEMMA PromptPrevStep ==
    ASSUME Types, NEW f \in 0 .. H, StartsAt(f), PromptPrev
    PROVE  RInv'
<1>. DEFINE d == AbsToSb(offset, view)
            above == {k \in Rows : k < FromSbStart(view) /\ rows[Wrap(SbStart + k)] = "prompt"}
<1>1. /\ NumRows \in Nat /\ H \in Nat /\ H < NumRows /\ Rows = 0 .. NumRows - 1 /\ f \in Int
  BY Sizes DEF Rows
<1>2. view \in Rows /\ Allocated(rows, offset, f) /\ d \in f .. H
  BY DEF Types, StartsAt
<1>3. FromSbStart(view) = Wrap(d - f)
  BY <1>2, StartIs
<1>. HIDE DEF d
<1>4. d - f \in Rows /\ d - f \in Int /\ d - f <= H - f
  BY <1>1, <1>2
<1>5. FromSbStart(view) = d - f
  BY <1>3, <1>4, WrapNear
<1>6. above \subseteq Rows /\ above # {} /\ view' = Wrap(SbStart + Max(above))
      /\ UNCHANGED <<rows, offset, sel, original>>
  BY DEF PromptPrev
<1>7. Max(above) \in above
  BY <1>6, MaxIs
<1>8. Max(above) \in Nat /\ f + Max(above) <= H
  <2>. DEFINE m == Max(above)
  <2>1. m \in Rows /\ m < d - f
    BY <1>5, <1>7
  <2>. HIDE DEF m
  <2>2. m \in Nat /\ f + m <= H
    BY <1>1, <1>4, <2>1
  <2>. QED
    BY <2>2 DEF m
<1>. QED
  BY <1>6, <1>8, ViewAt

LEMMA PromptNextStep ==
    ASSUME Types, NEW f \in 0 .. H, StartsAt(f), PromptNext
    PROVE  RInv'
<1>1. /\ NumRows \in Nat /\ NumRows > 0 /\ H \in Nat /\ H < NumRows /\ Rows = 0 .. NumRows - 1 /\ f \in Int
      /\ Rows \subseteq Int
  BY Sizes DEF Rows
<1>2. view \in Rows /\ offset \in Rows /\ Allocated(rows, offset, f)
  BY DEF Types, StartsAt
<1>. DEFINE stops == {k \in 1 .. NumRows : LET r == Wrap(view + k) IN
                        rows[r] = "prompt" \/ r = offset + ScreenRows - 1}
            row == Wrap(view + Min(stops))
<1>3. /\ stops # {} /\ rows[row] = "prompt"
      /\ view' = Wrap(SbStart + Least(FromSbStart(offset), FromSbStart(row)))
      /\ UNCHANGED <<rows, offset, sel, original>>
  BY DEF PromptNext
<1>4. row \in Rows
  <2>1. stops \subseteq Nat /\ stops # {}
    BY <1>1, <1>3
  <2>. HIDE DEF stops
  <2>2. \E x \in stops : \A y \in stops : x <= y
    BY <2>1, LeastExists
  <2>3. Min(stops) \in stops
    BY <2>2 DEF Min
  <2>4. view + Min(stops) \in Int
    <3>1. Min(stops) \in Int
      <4>1. Min(stops) \in Nat
        BY <2>1, <2>3, Zenon
      <4>. QED
        BY <4>1
    <3>2. view \in Int
      BY <1>1, <1>2
    <3>. QED
      BY <3>1, <3>2
  <2>. QED
    BY <2>4, WrapIs
<1>. HIDE DEF row
<1>5. ASSUME NEW r \in Rows, AbsToSb(offset, r) >= f
      PROVE  FromSbStart(r) = AbsToSb(offset, r) - f
  <2>. DEFINE p == AbsToSb(offset, r)
  <2>1. p \in Rows /\ p >= f
    BY <1>2, <1>5, PlacesAre
  <2>2. FromSbStart(r) = Wrap(p - f)
    BY <1>2, StartIs
  <2>. HIDE DEF p
  <2>3. p - f \in Rows /\ p - f \in Int
    BY <1>1, <2>1
  <2>. QED
    BY <2>2, <2>3, WrapNear DEF p
<1>6. AbsToSb(offset, row) \in Rows /\ AbsToSb(offset, row) >= f
  BY <1>2, <1>3, <1>4, PlacesAre DEF Allocated
<1>7. AbsToSb(offset, offset) = H /\ H >= f
  BY <1>1, <1>2, PlacesAre
<1>. DEFINE p == AbsToSb(offset, row)
            k == Least(H - f, p - f)
<1>8. view' = Wrap(SbStart + k)
  BY <1>2, <1>3, <1>4, <1>5, <1>6, <1>7
<1>9. k \in Nat /\ f + k <= H
  <2>1. p \in Rows /\ p >= f
    BY <1>6
  <2>. HIDE DEF p
  <2>. QED
    BY <1>1, <2>1 DEF Least
<1>. QED
  BY <1>3, <1>8, <1>9, ViewAt

\* A row of the view
LEMMA ShownRow ==
    ASSUME Types, NEW f \in 0 .. H, StartsAt(f), NEW i \in Screen
    PROVE  view + i \in Int /\ view + i >= 0 /\ AbsToSb(offset, view + i) >= f
<1>. DEFINE d == AbsToSb(offset, view)
<1>1. view \in Rows /\ offset \in Int /\ view \in Int /\ view >= 0 /\ i \in Int /\ i >= 0 /\ i < ScreenRows
  BY Sizes DEF Types, Rows, Screen
<1>2. d \in f .. H /\ AbsToSb(offset, view + i) = Wrap(d + i)
  BY <1>1, PlaceIs DEF StartsAt
<1>. HIDE DEF d
<1>3. d + i \in Rows /\ d + i \in Int /\ d + i >= f
  BY <1>1, <1>2, Sizes DEF Rows
<1>. QED
  BY <1>1, <1>2, <1>3, WrapNear

\* What changes only the selection, or what is remembered of the view
LEMMA SelectedAt ==
    ASSUME Types, NEW f \in 0 .. H, StartsAt(f), UNCHANGED <<rows, offset, view>>,
           sel' \in Selections, SelectedFrom(sel', offset, f), original' \in Rows \cup {-1}
    PROVE  RInv'
<1>1. view' \in Rows /\ AbsToSb(offset, view') \in f .. H
  BY DEF Types, StartsAt
<1>. QED
  BY <1>1, LookedAt

\* Looking at the screen again
LEMMA LooksAtScreen ==
    ASSUME Types, NEW f \in 0 .. H, StartsAt(f), UNCHANGED <<rows, offset>>, view' = offset,
           sel' \in {sel, NoSelection}, original' \in Rows \cup {-1}
    PROVE  RInv'
<1>1. offset \in Rows /\ sel \in Selections /\ SelectedFrom(sel, offset, f)
  BY DEF Types, StartsAt
<1>2. AbsToSb(offset, view') \in f .. H
  <2>1. AbsToSb(offset, offset) = H
    BY <1>1, PlacesAre
  <2>2. H \in f .. H
    BY Sizes
  <2>. QED
    BY <2>1, <2>2
<1>. QED
  BY <1>1, <1>2, NothingSelected, LookedAt

LEMMA SelectionSteps ==
    ASSUME Types, NEW f \in 0 .. H, StartsAt(f), NEW i \in Screen,
           SelectionStart(i) \/ SelectionUpdate(i) \/ SelectionExtend(i)
    PROVE  RInv'
<1>1. view + i \in Int /\ view + i >= 0 /\ AbsToSb(offset, view + i) >= f
  BY ShownRow
<1>2. sel \in Selections /\ original \in Rows \cup {-1} /\ SelectedFrom(sel, offset, f)
      /\ sel.start \in Int /\ sel.end \in Int
      /\ sel = [start |-> sel.start, end |-> sel.end, ongoing |-> sel.ongoing]
  BY DEF Types, StartsAt, Selections
<1>3. CASE SelectionStart(i)
  <2>1. /\ sel' = [start |-> view + i, end |-> -1, ongoing |-> TRUE]
        /\ original' = -1 /\ UNCHANGED <<rows, offset, view>>
    BY <1>3 DEF SelectionStart
  <2>2. sel' \in Selections /\ SelectedFrom(sel', offset, f)
    BY <1>1, <2>1 DEF Selections, SelectedFrom
  <2>. QED
    BY <2>1, <2>2, SelectedAt
<1>4. CASE SelectionUpdate(i)
  <2>1. /\ sel' = [sel EXCEPT !.end = view + i] /\ sel.start >= 0 /\ sel.ongoing
        /\ original' = original /\ UNCHANGED <<rows, offset, view>>
    BY <1>4 DEF SelectionUpdate
  <2>2. sel' \in Selections /\ SelectedFrom(sel', offset, f)
    BY <1>1, <1>2, <2>1 DEF Selections, SelectedFrom
  <2>. QED
    BY <1>2, <2>1, <2>2, SelectedAt
<1>5. CASE SelectionExtend(i)
  <2>1. original' = -1 /\ UNCHANGED <<rows, offset, view>> /\ sel.start >= 0 /\ sel.end >= 0
    BY <1>5 DEF SelectionExtend
  <2>2. AbsToSb(offset, sel.start) >= f /\ AbsToSb(offset, sel.end) >= f
    BY <1>2, <2>1 DEF SelectedFrom
  <2>3. \/ \E fixed \in {sel.start, sel.end} :
               sel' = [start |-> fixed, end |-> view + i, ongoing |-> TRUE]
        \/ sel' = [sel EXCEPT !.ongoing = TRUE]
    BY <1>5 DEF SelectionExtend
  <2>4. CASE \E fixed \in {sel.start, sel.end} :
                sel' = [start |-> fixed, end |-> view + i, ongoing |-> TRUE]
    <3>1. PICK fixed \in {sel.start, sel.end} :
                sel' = [start |-> fixed, end |-> view + i, ongoing |-> TRUE]
      BY <2>4
    <3>2. sel' \in Selections /\ SelectedFrom(sel', offset, f)
      BY <1>1, <1>2, <2>1, <2>2, <3>1 DEF Selections, SelectedFrom
    <3>. QED
      BY <2>1, <3>2, SelectedAt
  <2>5. CASE sel' = [sel EXCEPT !.ongoing = TRUE]
    <3>1. sel' \in Selections /\ SelectedFrom(sel', offset, f)
      BY <1>2, <2>1, <2>2, <2>5 DEF Selections, SelectedFrom
    <3>. QED
      BY <2>1, <3>1, SelectedAt
  <2>. QED
    BY <2>3, <2>4, <2>5
<1>. QED
  BY <1>3, <1>4, <1>5

\* A match is on an allocated row. The view goes there: half a screen above it, but not
\* above the scrollback nor below the screen.
LEMMA SearchUpdateStep ==
    ASSUME Types, NEW f \in 0 .. H, StartsAt(f), NEW r \in Rows, SearchUpdateSelection(r)
    PROVE  RInv'
<1>. DEFINE d == AbsToSb(offset, r)
            half == ScreenRows \div 2
            centred == Least(Greatest(d - half, 0), NumRows - ScreenRows)
            allocated == {k \in centred .. NumRows - 1 : rows[SbToAbs(offset, k)] # "none"}
            place == Min(allocated)
<1>1. /\ NumRows \in Nat /\ NumRows > 0 /\ H \in Nat /\ H < NumRows /\ Rows = 0 .. NumRows - 1 /\ f \in Int
      /\ Rows \subseteq Int /\ NumRows - ScreenRows = H /\ half \in Int /\ ScreenRows \in Int
  BY Sizes DEF Rows, H
<1>2. view \in Rows /\ offset \in Rows /\ offset \in Int /\ original \in Rows \cup {-1}
      /\ Allocated(rows, offset, f) /\ AbsToSb(offset, view) \in f .. H
  BY <1>1 DEF Types, StartsAt
<1>3. d \in Rows /\ d >= f
  <2>1. rows[r] # "none"
    BY DEF SearchUpdateSelection
  <2>. QED
    BY <1>2, <2>1, PlacesAre DEF Allocated
<1>4. /\ UNCHANGED <<rows, offset, original>>
      /\ view' \in {view, SbToAbs(offset, place)}
      /\ sel' = [start |-> view' + Wrap(r - view'), end |-> view' + Wrap(r - view'), ongoing |-> TRUE]
  BY DEF SearchUpdateSelection
<1>. HIDE DEF d
<1>5. centred \in 0 .. H
  <2>1. d - half \in Int
    BY <1>1, <1>3
  <2>2. Greatest(d - half, 0) \in Nat
    BY <2>1 DEF Greatest
  <2>. QED
    BY <1>1, <2>2 DEF Least
<1>. HIDE DEF centred
<1>6. \A k \in Rows : rows[SbToAbs(offset, k)] # "none" <=> k >= f
  BY <1>2, RowAt DEF Allocated
<1>7. allocated \subseteq Rows /\ H \in allocated
  <2>1. centred .. NumRows - 1 \subseteq Rows /\ H \in centred .. NumRows - 1 /\ H \in Rows /\ H >= f
    BY <1>1, <1>5
  <2>. QED
    BY <1>6, <2>1
<1>8. place \in f .. H
  <2>1. place \in allocated /\ place <= H
    BY <1>7, MinIs
  <2>2. place \in Rows /\ place >= f
    BY <1>6, <1>7, <2>1
  <2>. HIDE DEF place
  <2>. QED
    BY <1>1, <2>1, <2>2
<1>. HIDE DEF place
<1>9. view' \in Rows /\ AbsToSb(offset, view') \in f .. H
  <2>1. place \in Rows
    BY <1>1, <1>8
  <2>. QED
    BY <1>2, <1>4, <1>8, <2>1, RowAt
<1>10. sel' \in Selections /\ SelectedFrom(sel', offset, f)
  <2>. DEFINE w == Wrap(r - view')
              x == view' + w
  <2>1. view' \in Int /\ view' >= 0 /\ r \in Int /\ r - view' \in Int
    BY <1>1, <1>9
  <2>2. w \in Rows
    BY <2>1, WrapIs
  <2>3. Wrap(w + view') = Wrap((r - view') + view')
    BY <2>1, WrapAdd
  <2>. HIDE DEF w
  <2>4. x \in Int /\ x >= 0 /\ x = w + view' /\ (r - view') + view' = r
    <3>. DEFINE v == view'
    <3>1. w \in Int /\ w >= 0 /\ v \in Int /\ v >= 0 /\ r \in Int
      BY <1>1, <2>1, <2>2
    <3>. HIDE DEF v
    <3>2. v + w \in Int /\ v + w >= 0 /\ v + w = w + v /\ (r - v) + v = r
      BY <3>1
    <3>. QED
      BY <3>2 DEF v
  <2>5. Wrap(x) = r
    BY <2>1, <2>3, <2>4, WrapNear
  <2>. HIDE DEF x
  <2>6. AbsToSb(offset, x) = AbsToSb(offset, r)
    BY <1>2, <2>4, <2>5, PlaceIs
  <2>7. sel' = [start |-> x, end |-> x, ongoing |-> TRUE]
    BY <1>4 DEF w, x
  <2>8. AbsToSb(offset, x) >= f
    BY <1>3, <2>6 DEF d
  <2>. QED
    BY <2>4, <2>7, <2>8 DEF Selections, SelectedFrom
<1>. QED
  BY <1>2, <1>4, <1>9, <1>10, LookedAt

\* ensure_view_is_allocated() finds a row of the scrollback or of the screen.
LEMMA AllocatedViewIs ==
    ASSUME Types, NEW f \in 0 .. H, Allocated(rows, offset, f), NEW v \in Rows
    PROVE  AllocatedView(v) \in Rows /\ AbsToSb(offset, AllocatedView(v)) >= f
<1>. DEFINE d == AbsToSb(offset, v)
            forward == {k \in Rows : rows[Wrap(v + k)] # "none"}
            back == {k \in Rows : rows[Wrap(v + ScreenRows - 1 - k)] # "none"}
<1>1. /\ NumRows \in Nat /\ NumRows > 0 /\ H \in Nat /\ H < NumRows /\ Rows = 0 .. NumRows - 1 /\ f \in Int
      /\ Rows \subseteq Int /\ H + ScreenRows = NumRows /\ ScreenRows \in Nat /\ ScreenRows > 0
  BY Sizes DEF Rows
<1>2. offset \in Rows /\ v \in Int
  BY <1>1 DEF Types
<1>3. d \in Rows /\ d \in Int
  <2>1. d \in Rows
    BY <1>2, PlacesAre
  <2>. QED
    BY <1>1, <2>1
<1>4. \A r \in Rows : rows[r] # "none" <=> AbsToSb(offset, r) >= f
  BY DEF Allocated
<1>5. ASSUME rows[v] = "none"
      PROVE  AllocatedView(v) \in Rows /\ AbsToSb(offset, AllocatedView(v)) >= f
  <2>1. forward # {}
    <3>. DEFINE k == Wrap(offset - v)
    <3>1. offset - v \in Int /\ (offset - v) + v = offset
      BY <1>1, <1>2
    <3>2. k \in Rows /\ Wrap(k + v) = Wrap((offset - v) + v)
      BY <1>2, <3>1, WrapIs, WrapAdd
    <3>. HIDE DEF k
    <3>3. k + v = v + k
      BY <1>1, <1>2, <3>2
    <3>4. Wrap(offset) = offset /\ offset \in Int
      BY <1>1, <1>2, WrapNear
    <3>5. Wrap(v + k) = offset
      BY <3>1, <3>2, <3>3, <3>4
    <3>6. rows[offset] # "none"
      <4>1. AbsToSb(offset, offset) = H /\ H >= f
        BY <1>1, <1>2, PlacesAre
      <4>. QED
        BY <1>2, <1>4, <4>1
    <3>. QED
      BY <3>2, <3>5, <3>6
  <2>2. Min(forward) \in Rows /\ rows[Wrap(v + Min(forward))] # "none"
    BY <2>1, MinIs
  <2>3. AllocatedView(v) = Wrap(v + Min(forward))
    BY <1>5 DEF AllocatedView
  <2>. HIDE DEF forward
  <2>4. v + Min(forward) \in Int
    <3>1. Min(forward) \in Int
      BY <1>1, <2>2
    <3>. QED
      BY <1>2, <3>1
  <2>. QED
    BY <1>4, <2>2, <2>3, <2>4, WrapIs
<1>6. ASSUME rows[v] # "none"
      PROVE  AllocatedView(v) \in Rows /\ AbsToSb(offset, AllocatedView(v)) >= f
  <2>1. d >= f
    BY <1>4, <1>6
  <2>2. \A k \in Rows : /\ Wrap(v + ScreenRows - 1 - k) \in Rows
                         /\ AbsToSb(offset, Wrap(v + ScreenRows - 1 - k)) = Wrap(d + ScreenRows - 1 - k)
    <3>. SUFFICES ASSUME NEW k \in Rows
                  PROVE  /\ Wrap(v + ScreenRows - 1 - k) \in Rows
                         /\ AbsToSb(offset, Wrap(v + ScreenRows - 1 - k)) = Wrap(d + ScreenRows - 1 - k)
      OBVIOUS
    <3>. DEFINE j == ScreenRows - 1 - k
    <3>1. j \in Int /\ v + ScreenRows - 1 - k = v + j
      BY <1>1, <1>2
    <3>2. d + ScreenRows - 1 - k = d + j
      <4>. HIDE DEF d
      <4>. QED
        BY <1>1, <1>3
    <3>. HIDE DEF j
    <3>3. Wrap(v + j) \in Rows /\ AbsToSb(offset, Wrap(v + j)) = Wrap(d + j)
      BY <1>2, <3>1, StepsFrom
    <3>. QED
      BY <3>1, <3>2, <3>3
  <2>. HIDE DEF d
  <2>3. AllocatedView(v) = Wrap(v - Min(back))
    BY <1>6 DEF AllocatedView
  <2>4. CASE d <= H
    <3>1. 0 \in Rows /\ d + ScreenRows - 1 - 0 \in Rows /\ d + ScreenRows - 1 - 0 \in Int
          /\ d + ScreenRows - 1 - 0 >= f
      BY <1>1, <1>3, <2>1, <2>4
    <3>2. AbsToSb(offset, Wrap(v + ScreenRows - 1 - 0)) = d + ScreenRows - 1 - 0
      BY <2>2, <3>1, WrapNear
    <3>3. 0 \in back
      BY <1>4, <2>2, <3>1, <3>2
    <3>4. Min(back) \in Rows /\ Min(back) <= 0
      BY <3>3, MinIs
    <3>. HIDE DEF back
    <3>5. Min(back) = 0
      BY <1>1, <3>4
    <3>6. v - 0 = v /\ Wrap(v) = v
      BY <1>2, WrapNear
    <3>7. AllocatedView(v) = v
      BY <2>3, <3>5, <3>6
    <3>. QED
      BY <2>1, <3>7 DEF d
  <2>5. CASE d > H
    <3>. DEFINE k == d - H
    <3>1. k \in Rows /\ d + ScreenRows - 1 - k = NumRows - 1 /\ NumRows - 1 \in Rows /\ NumRows - 1 \in Int
          /\ NumRows - 1 >= f /\ k \in Int
      BY <1>1, <1>3, <2>5
    <3>. HIDE DEF k
    <3>2. AbsToSb(offset, Wrap(v + ScreenRows - 1 - k)) = NumRows - 1
      BY <2>2, <3>1, WrapNear
    <3>3. k \in back
      BY <1>4, <2>2, <3>1, <3>2
    <3>4. Min(back) \in Rows /\ Min(back) <= k
      BY <3>3, MinIs
    <3>. DEFINE m == Min(back)
    <3>. HIDE DEF m
    <3>5. m \in Int /\ d - m \in Rows /\ d - m \in Int /\ d - m >= f
      BY <1>1, <1>3, <2>1, <2>5, <3>1, <3>4 DEF k, m
    <3>6. Wrap(v - m) \in Rows /\ AbsToSb(offset, Wrap(v - m)) = Wrap(d - m)
      BY <1>2, <3>5, StepsFrom DEF d
    <3>. QED
      BY <2>3, <3>5, <3>6, WrapNear DEF m
  <2>. QED
    BY <1>1, <1>3, <2>4, <2>5
<1>. QED
  BY <1>5, <1>6

LEMMA SearchCancelStep ==
    ASSUME Types, NEW f \in 0 .. H, StartsAt(f), WithoutDefects, SearchCancel
    PROVE  RInv'
<1>. DEFINE new == IF original = -1 THEN offset ELSE AllocatedView(original)
            d == AbsToSb(offset, new)
<1>1. /\ NumRows \in Nat /\ NumRows > 0 /\ H \in Nat /\ H < NumRows /\ Rows = 0 .. NumRows - 1 /\ f \in Int
      /\ Rows \subseteq Int /\ NumRows - ScreenRows = H
  BY Sizes DEF Rows, H
<1>2. offset \in Rows /\ original \in Rows \cup {-1} /\ Allocated(rows, offset, f)
  BY DEF Types, StartsAt
<1>3. /\ view' = new /\ sel' = NoSelection /\ original' = -1 /\ UNCHANGED <<rows, offset>>
      /\ Wrap(offset - new) <= H
  BY <1>1 DEF SearchCancel, WithoutDefects
<1>4. new \in Rows /\ d >= f
  <2>1. CASE original = -1
    <3>1. AbsToSb(offset, offset) = H /\ H >= f
      BY <1>1, <1>2, PlacesAre
    <3>. QED
      BY <1>2, <2>1, <3>1
  <2>2. CASE original # -1
    BY <1>2, <2>2, AllocatedViewIs
  <2>. QED
    BY <2>1, <2>2
<1>. HIDE DEF new
<1>5. d \in Rows /\ Wrap(offset - new) = Wrap(H - d)
  BY <1>2, <1>4, PlacesAre
<1>. HIDE DEF d
<1>6. d <= H
  <2>. SUFFICES ASSUME d > H PROVE FALSE
    BY <1>1, <1>5
  <2>1. H - d + NumRows \in Rows /\ H - d \in Int /\ H - d + NumRows > H
    BY <1>1, <1>5
  <2>. QED
    BY <1>1, <1>3, <1>5, <2>1, WrapNear
<1>7. d \in f .. H
  BY <1>1, <1>4, <1>5, <1>6 DEF d
<1>. QED
  BY <1>3, <1>4, <1>7, NothingSelected, LookedAt DEF d

LEMMA OtherSteps ==
    ASSUME Types, NEW f \in 0 .. H, StartsAt(f),
           \/ ResetView \/ KeyPressed \/ ButtonPressed \/ SelectionFinalize
           \/ SearchBegin \/ SearchFindsNothing \/ SearchCommit
           \/ UrlsRender \/ UrlsReset \/ UNCHANGED vars
    PROVE  RInv'
<1>1. /\ original \in Rows \cup {-1} /\ view \in Rows /\ offset \in Int
      /\ sel \in Selections /\ SelectedFrom(sel, offset, f)
  BY Sizes DEF Types, StartsAt, Rows
<1>2. CASE ResetView \/ KeyPressed
  <2>1. /\ UNCHANGED <<rows, offset, original>> /\ view' = offset /\ sel' \in {sel, NoSelection}
    BY <1>2 DEF ResetView, KeyPressed
  <2>. QED
    BY <1>1, <2>1, LooksAtScreen
<1>3. CASE ButtonPressed \/ SelectionFinalize \/ SearchBegin \/ SearchFindsNothing \/ SearchCommit
             \/ UrlsRender \/ UrlsReset \/ UNCHANGED vars
  <2>1. /\ UNCHANGED <<rows, offset, view>> /\ original' \in {original, -1, view}
        /\ sel' \in {sel, NoSelection, Finalized(sel)}
    BY <1>3 DEF ButtonPressed, SelectionFinalize, SearchBegin, SearchFindsNothing, SearchCommit,
                UrlsRender, UrlsReset, vars
  <2>2. sel' \in Selections /\ SelectedFrom(sel', offset, f)
    BY <1>1, <2>1, NothingSelected, LapsChange
  <2>. QED
    BY <1>1, <2>1, <2>2, SelectedAt
<1>. QED
  BY <1>2, <1>3

LEMMA InvStep ==
    ASSUME RInv, WithoutDefects, [Next]_vars
    PROVE  RInv'
<1>. PICK f \in 0 .. H : StartsAt(f)
  BY DEF RInv
<1>1. Types
  BY DEF RInv
<1>2. CASE \E from \in Screen, to \in 1..ScreenRows, n \in 1..ScreenRows :
              from + n <= to /\ (TermScrollPartial(from, to, n) \/ TermScrollReversePartial(from, to, n))
  <2>1. PICK from \in Screen, to \in 1..ScreenRows, n \in 1..ScreenRows :
              from + n <= to /\ (TermScrollPartial(from, to, n) \/ TermScrollReversePartial(from, to, n))
    BY <1>2
  <2>2. Regions(from, to, n)
    BY <2>1 DEF Regions
  <2>. QED
    BY <1>1, <2>1, <2>2, ScrollUpStep, ScrollDownStep
<1>3. ASSUME NEW i \in Screen, MarkPrompt(i) PROVE RInv'
  BY <1>1, <1>3, MarkPromptStep
<1>4. ASSUME NEW i \in Screen, SelectionStart(i) \/ SelectionUpdate(i) \/ SelectionExtend(i) PROVE RInv'
  BY <1>1, <1>4, SelectionSteps
<1>5. ASSUME NEW n \in 1..NumRows, CmdScrollbackUp(n) \/ CmdScrollbackDown(n) PROVE RInv'
  BY <1>1, <1>5, ScrollbackUpStep, ScrollbackDownStep
<1>6. ASSUME NEW r \in Rows, SearchUpdateSelection(r) PROVE RInv'
  BY <1>1, <1>6, SearchUpdateStep
<1>7. CASE TermEraseScrollback
  BY <1>1, <1>7, EraseStep
<1>8. CASE TermReset
  BY <1>1, <1>8, ResetStep
<1>9. CASE PromptPrev
  BY <1>1, <1>9, PromptPrevStep
<1>10. CASE PromptNext
  BY <1>1, <1>10, PromptNextStep
<1>11. CASE SearchCancel
  BY <1>1, <1>11, SearchCancelStep
<1>12. CASE \/ ResetView \/ KeyPressed \/ ButtonPressed \/ SelectionFinalize
            \/ SearchBegin \/ SearchFindsNothing \/ SearchCommit
            \/ UrlsRender \/ UrlsReset \/ UNCHANGED vars
  BY <1>1, <1>12, OtherSteps
<1>. QED
  BY <1>2, <1>3, <1>4, <1>5, <1>6, <1>7, <1>8, <1>9, <1>10, <1>11, <1>12 DEF Next

(***************************************************************************)
(* The theorem                                                             *)
(***************************************************************************)

LEMMA InvAllocated == RInv => RowsAllocated
<1>. SUFFICES ASSUME RInv PROVE RowsAllocated
  OBVIOUS
<1>. PICK f \in 0 .. H : StartsAt(f)
  BY DEF RInv
<1>. DEFINE d == AbsToSb(offset, view)
<1>1. /\ NumRows \in Nat /\ H \in Nat /\ H < NumRows /\ Rows = 0 .. NumRows - 1 /\ f \in Int
      /\ Rows \subseteq Int /\ H + ScreenRows = NumRows /\ ScreenRows \in Nat /\ f \in Rows /\ H >= f
  BY Sizes DEF Rows
<1>2. Types /\ Allocated(rows, offset, f) /\ d \in f .. H /\ SelectedFrom(sel, offset, f)
      /\ offset \in Rows /\ view \in Rows /\ sel \in Selections
  BY DEF RInv, Types, StartsAt
<1>3. \A r \in Rows : rows[r] # "none" <=> AbsToSb(offset, r) >= f
  BY <1>2 DEF Allocated
<1>. HIDE DEF d
<1>4. ASSUME NEW v \in Rows, AbsToSb(offset, v) \in f .. H, NEW i \in Screen
      PROVE  rows[Wrap(v + i)] # "none"
  <2>. DEFINE p == AbsToSb(offset, v)
  <2>1. p \in f .. H /\ i \in Int /\ i >= 0 /\ i < ScreenRows
    BY <1>1, <1>4 DEF Screen
  <2>2. Wrap(v + i) \in Rows /\ AbsToSb(offset, Wrap(v + i)) = Wrap(p + i)
    BY <1>2, <2>1, StepsFrom
  <2>. HIDE DEF p
  <2>3. p + i \in Rows /\ p + i \in Int /\ p + i >= f
    BY <1>1, <2>1
  <2>. QED
    BY <1>3, <2>2, <2>3, WrapNear
<1>5. AbsToSb(offset, offset) = H /\ H \in f .. H
  BY <1>1, <1>2, PlacesAre
<1>6. \A i \in Screen : rows[Wrap(offset + i)] # "none" /\ rows[Wrap(view + i)] # "none"
  BY <1>2, <1>4, <1>5 DEF d
\* Places of the scrollback
<1>7. FromSbStart(SbStart) = 0 /\ FromSbStart(offset) = H - f /\ FromSbStart(view) = d - f
  <2>1. /\ FromSbStart(SbStart) = Wrap(f - f) /\ FromSbStart(offset) = Wrap(H - f)
        /\ FromSbStart(view) = Wrap(d - f)
    BY <1>2, <1>5, StartIs DEF d
  <2>2. /\ f - f = 0 /\ 0 \in Rows /\ H - f \in Rows /\ H - f \in Int
        /\ d - f \in Rows /\ d - f \in Int
    BY <1>1, <1>2
  <2>. QED
    BY <2>1, <2>2, WrapNear
<1>8. ASSUME NEW k \in FromSbStart(SbStart) .. FromSbStart(offset) PROVE rows[Wrap(SbStart + k)] # "none"
  <2>1. k \in Int /\ f + k \in Rows /\ f + k \in Int /\ f + k >= f
    BY <1>1, <1>7
  <2>2. Wrap(SbStart + k) \in Rows /\ AbsToSb(offset, Wrap(SbStart + k)) = Wrap(f + k)
    BY <1>2, <2>1, StartIs
  <2>. QED
    BY <1>3, <2>1, <2>2, WrapNear
<1>9. FromSbStart(view) <= FromSbStart(offset)
  BY <1>1, <1>2, <1>7
<1>10. SelectionAllocated
  <2>. SUFFICES ASSUME sel.end >= 0 \/ sel.ongoing, NEW k \in Top(Held) .. Bottom(Held)
                PROVE  rows[SbToAbs(offset, k)] # "none"
    BY DEF SelectionAllocated
  <2>1. Held \in Selections /\ Held.start = sel.start /\ (Held.end = sel.end \/ Held.end = sel.start)
    BY <1>2 DEF Held, Selections
  <2>2. AbsToSb(offset, Held.start) >= f /\ AbsToSb(offset, Held.end) >= f
    <3>1. AbsToSb(offset, sel.start) >= f /\ (sel.end >= 0 => AbsToSb(offset, sel.end) >= f)
      BY <1>2 DEF SelectedFrom
    <3>2. sel.end \in Int
      BY <1>2 DEF Selections
    <3>3. sel.end >= 0 => Held.end = sel.end
      BY <1>2, HeldIs
    <3>4. ~(sel.end >= 0) => Held.end = sel.start
      BY <1>2, <3>2, HeldIs
    <3>. QED
      BY <2>1, <3>1, <3>3, <3>4
  <2>3. /\ Top(Held) \in Rows /\ Bottom(Held) \in Rows
        /\ Top(Held) \in {AbsToSb(offset, Held.start), AbsToSb(offset, Held.end)}
    BY <1>2, <2>1, EndsAre
  <2>4. Top(Held) >= f
    BY <2>2, <2>3
  <2>. DEFINE t == Top(Held)
              b == Bottom(Held)
  <2>5. t \in Rows /\ b \in Rows /\ t >= f /\ k \in t .. b
    BY <2>3, <2>4
  <2>. HIDE DEF t, b
  <2>6. k \in Rows /\ k >= f
    BY <1>1, <2>5
  <2>. QED
    BY <1>1, <1>2, <1>3, <2>6, RowAt
<1>. QED
  BY <1>6, <1>8, <1>9, <1>10 DEF RowsAllocated

\* No row that is rendered, scrolled over or selected is NULL, and the view stays between
\* the start of the scrollback and the screen, whatever is scrolled, erased, searched and
\* selected (term_scroll_partial(), term_scroll_reverse_partial(), cmd_scrollback_up()).
THEOREM NoRowIsNull ==
  ASSUME {"dangling start", "stale view"} \cap Admitted = {}
  PROVE  Spec => []RowsAllocated
<1>1. WithoutDefects
  BY DEF WithoutDefects
<1>2. RInv /\ [Next]_vars => RInv'
  BY <1>1, InvStep
<1>. QED
  BY <1>2, InvInit, InvAllocated, PTL DEF Spec

(***************************************************************************)
(* What is selected stays                                                  *)
(***************************************************************************)

\* The known defect that moves other text under a selection
WithoutMoves == "moved selection" \notin Admitted

\* A row that no swap is about stays as it is.
LEMMA SwappedKeeps ==
    ASSUME NEW n \in Nat, NEW pairs \in [1 .. n -> Rows \X Rows], NEW ring \in Rings, NEW r \in Rows,
           \A k \in 1 .. n : r # pairs[k][1] /\ r # pairs[k][2]
    PROVE  Swapped(ring, pairs) \in Rings /\ Swapped(ring, pairs)[r] = ring[r]
<1>. DEFINE Good == {g \in (0 .. n) \X Rings : g[2][r] = ring[r]}
<1>1. <<0, ring>> \in Good
  OBVIOUS
<1>2. ASSUME NEW k \in 0 .. n - 1, NEW q, <<k, q>> \in Good
      PROVE  <<k + 1, RowsSwapped(q, pairs[k + 1])>> \in Good
  <2>1. k + 1 \in 1 .. n /\ k + 1 \in 0 .. n /\ q \in Rings /\ q[r] = ring[r]
    BY <1>2
  <2>. DEFINE a == pairs[k + 1][1]
              b == pairs[k + 1][2]
  <2>2. a \in Rows /\ b \in Rows /\ pairs[k + 1] = <<a, b>> /\ r \in Rows \ {a, b}
    BY <2>1
  <2>. HIDE DEF a, b
  <2>3. RowsSwapped(q, <<a, b>>) \in Rings /\ RowsSwapped(q, <<a, b>>)[r] = q[r]
    BY <2>1, <2>2, SwapIs
  <2>. QED
    BY <2>1, <2>2, <2>3
<1>. HIDE DEF Good
<1>3. <<n, Swapped(ring, pairs)>> \in Good
  BY <1>1, <1>2, SwappedBy
<1>. QED
  BY <1>3 DEF Good

\* The rows from place first to place last, a part of the scrollback and the screen, are
\* not selected, if selection_on_rows() says so.
LEMMA NotOn ==
    ASSUME offset \in Rows, NEW s \in Selections, NEW a \in -H .. ScreenRows - 1,
           NEW b \in a .. ScreenRows - 1, ~SelectionOn(s, a, b),
           NEW k \in Top(s) .. Bottom(s)
    PROVE  ~(H + a <= k /\ k <= H + b)
<1>1. /\ NumRows \in Nat /\ NumRows > 0 /\ ScreenRows \in Nat /\ ScreenRows > 0 /\ ScreenRows <= NumRows
      /\ H \in Nat /\ H + ScreenRows = NumRows /\ H < NumRows
      /\ Rows = 0 .. NumRows - 1 /\ Rows \subseteq Int
  BY Sizes DEF Rows
<1>2. a \in Int /\ b \in Int /\ H + a \in Rows /\ H + b \in Rows /\ H + a \in Int /\ H + b \in Int
  BY <1>1
<1>3. AbsToSb(offset, offset + a) = H + a /\ AbsToSb(offset, offset + b) = H + b
  <2>1. offset \in Int
    BY <1>1
  <2>2. AbsToSb(offset, offset + a) = Wrap(H + a) /\ AbsToSb(offset, offset + b) = Wrap(H + b)
    BY <1>2, <2>1, PlaceIs
  <2>. QED
    BY <1>2, <2>2, WrapNear
<1>4. Top(s) \in Rows /\ Bottom(s) \in Rows
  BY EndsAre
<1>. DEFINE t == Top(s)
            m == Bottom(s)
<1>5. ~(H + a <= t /\ t <= H + b) /\ ~(H + a <= m /\ m <= H + b) /\ ~(t <= H + a /\ H + b <= m)
  BY <1>3 DEF SelectionOn
<1>6. t \in Int /\ m \in Int /\ k \in t .. m
  BY <1>1, <1>4
<1>. HIDE DEF t, m
<1>. QED
  BY <1>1, <1>2, <1>5, <1>6

\* Scrolling up changes the fixed rows above the region and as many as they are swapped
\* with, what is below the region, and the scrollback's first n rows.
LEMMA ChangedUp ==
    ASSUME rows \in Rings, offset \in Rows,
           NEW from, NEW to, NEW n, Regions(from, to, n), TermScrollPartial(from, to, n),
           NEW r \in Rows, AbsToSb(offset, r) >= n, AbsToSb(offset, r) < H + to,
           from > 0 => AbsToSb(offset, r) < H \/ AbsToSb(offset, r) >= H + from + n
    PROVE  rows'[r] = rows[r]
<1>. DEFINE off == Wrap(offset + n)
            Abs(i) == Wrap(off + i)
            above == [k \in 1 .. from |-> <<Abs(from - k - n), Abs(from - k)>>]
            below == [k \in 1 .. ScreenRows - to |-> <<Abs(ScreenRows - k - n), Abs(ScreenRows - k)>>]
            ring == Swapped(rows, above)
            last == Swapped(ring, below)
            erased == {Abs(i) : i \in to - n .. to - 1}
            p == AbsToSb(offset, r)
<1>1. rows' = Erased(last, erased)
  BY DEF TermScrollPartial
<1>2. /\ from \in Nat /\ to \in Nat /\ n \in Nat /\ n > 0 /\ from + n <= to /\ to <= ScreenRows
      /\ ScreenRows - to \in Nat /\ n <= ScreenRows
  BY RegionIs
<1>3. /\ NumRows \in Nat /\ NumRows > 0 /\ ScreenRows \in Nat /\ ScreenRows > 0 /\ ScreenRows <= NumRows
      /\ H \in Nat /\ H + ScreenRows = NumRows /\ H < NumRows /\ Rows = 0 .. NumRows - 1
      /\ Rows \subseteq Int
  BY Sizes DEF Rows
<1>4. /\ off \in Rows /\ p \in Rows
      /\ \A i \in Int : Abs(i) \in Rows /\ AbsToSb(offset, Abs(i)) = Wrap(H + i + n)
  <2>1. n \in Int
    BY <1>2
  <2>. QED
    BY <2>1, PlacesMove
<1>5. /\ p \in Int /\ p >= n /\ p < H + to /\ (from > 0 => p < H \/ p >= H + from + n)
  BY <1>3, <1>4
<1>. HIDE DEF off, Abs, p
\* A row that was on the screen, or would be below it, and changes
<1>6. ASSUME NEW i \in Int, Abs(i) = r, i + n >= 0, i + n < ScreenRows
      PROVE  p = H + i + n
  <2>1. p = Wrap(H + i + n)
    BY <1>4, <1>6 DEF p
  <2>2. H + i + n \in Rows /\ H + i + n \in Int
    BY <1>2, <1>3, <1>6
  <2>. QED
    BY <2>1, <2>2, WrapNear
<1>7. ASSUME NEW i \in Int, Abs(i) = r, i + n >= ScreenRows, i < ScreenRows
      PROVE  p = i + n - ScreenRows
  <2>1. p = Wrap(H + i + n)
    BY <1>4, <1>7 DEF p
  <2>2. /\ H + i + n \in Int /\ (H + i + n) - NumRows \in Rows
        /\ (H + i + n) - NumRows = i + n - ScreenRows
    BY <1>2, <1>3, <1>7
  <2>3. Wrap(H + i + n) = (H + i + n) - NumRows
    BY <2>2, WrapNear
  <2>. QED
    BY <2>1, <2>2, <2>3
<1>8. ASSUME NEW i \in Int, i + n >= to, i < ScreenRows PROVE Abs(i) # r
  <2>. SUFFICES ASSUME Abs(i) = r PROVE FALSE
    OBVIOUS
  <2>1. CASE i + n < ScreenRows
    <3>1. p = H + i + n
      BY <1>2, <1>6, <1>8, <2>1
    <3>. QED
      BY <1>2, <1>3, <1>5, <1>8, <3>1
  <2>2. CASE i + n >= ScreenRows
    <3>1. p = i + n - ScreenRows
      BY <1>7, <1>8, <2>2
    <3>. QED
      BY <1>2, <1>3, <1>5, <1>8, <3>1
  <2>. QED
    BY <1>2, <1>3, <2>1, <2>2
<1>9. ASSUME NEW i \in Int, i + n >= 0, i < from, from > 0 PROVE Abs(i) # r
  <2>. SUFFICES ASSUME Abs(i) = r PROVE FALSE
    OBVIOUS
  <2>1. i + n < ScreenRows
    BY <1>2, <1>3, <1>9
  <2>2. p = H + i + n
    BY <1>6, <1>9, <2>1
  <2>. QED
    BY <1>2, <1>3, <1>5, <1>9, <2>2
<1>10. ring \in Rings /\ ring[r] = rows[r]
  <2>1. ASSUME NEW k \in 1 .. from
        PROVE  /\ from - k \in Int /\ (from - k) - n \in Int
               /\ Abs((from - k) - n) # r /\ Abs(from - k) # r
    <3>1. /\ from - k \in Int /\ (from - k) - n \in Int /\ from > 0
          /\ (from - k) + n >= 0 /\ from - k < from
          /\ ((from - k) - n) + n >= 0 /\ (from - k) - n < from
      BY <1>2
    <3>. QED
      BY <1>9, <3>1
  <2>2. above \in [1 .. from -> Rows \X Rows]
    BY <1>4, <2>1
  <2>3. \A k \in 1 .. from : r # above[k][1] /\ r # above[k][2]
    BY <2>1
  <2>. HIDE DEF above
  <2>. QED
    BY <1>2, <2>2, <2>3, SwappedKeeps
<1>. HIDE DEF ring
<1>11. last \in Rings /\ last[r] = rows[r]
  <2>1. ASSUME NEW k \in 1 .. ScreenRows - to
        PROVE  /\ ScreenRows - k \in Int /\ (ScreenRows - k) - n \in Int
               /\ Abs((ScreenRows - k) - n) # r /\ Abs(ScreenRows - k) # r
    <3>1. /\ ScreenRows - k \in Int /\ (ScreenRows - k) - n \in Int
          /\ (ScreenRows - k) + n >= to /\ ScreenRows - k < ScreenRows
          /\ ((ScreenRows - k) - n) + n >= to /\ (ScreenRows - k) - n < ScreenRows
      BY <1>2, <1>3
    <3>. QED
      BY <1>8, <3>1
  <2>2. below \in [1 .. ScreenRows - to -> Rows \X Rows]
    BY <1>4, <2>1
  <2>3. \A k \in 1 .. ScreenRows - to : r # below[k][1] /\ r # below[k][2]
    BY <2>1
  <2>. HIDE DEF below
  <2>4. last \in Rings /\ last[r] = ring[r]
    BY <1>2, <1>10, <2>2, <2>3, SwappedKeeps
  <2>. QED
    BY <1>10, <2>4
<1>. HIDE DEF last
<1>12. r \notin erased
  <2>1. ASSUME NEW i \in to - n .. to - 1 PROVE Abs(i) # r
    <3>1. i \in Int /\ i + n >= to /\ i < ScreenRows
      BY <1>2, <1>3
    <3>. QED
      BY <1>8, <3>1
  <2>. QED
    BY <2>1
<1>. QED
  BY <1>1, <1>11, <1>12, ErasedIs

\* Scrolling down changes what is above the region, with the scrollback's last n rows, and
\* the region's last n rows, with what is below it.
LEMMA ChangedDown ==
    ASSUME rows \in Rings, offset \in Rows,
           NEW from, NEW to, NEW n, Regions(from, to, n), TermScrollReversePartial(from, to, n),
           NEW r \in Rows, AbsToSb(offset, r) < H + to - n,
           AbsToSb(offset, r) < H - n \/ AbsToSb(offset, r) >= H + from
    PROVE  rows'[r] = rows[r]
<1>. DEFINE off == Wrap(offset - n)
            Abs(i) == Wrap(off + i)
            freed == [s \in Rows |-> IF \E i \in to - n .. to - 1 : s = Wrap(offset + i)
                                     THEN "none" ELSE rows[s]]
            below == [k \in 1 .. ScreenRows - to |-> <<Abs(to + n + k - 1), Abs(to + k - 1)>>]
            above == [k \in 1 .. from |-> <<Abs(n + k - 1), Abs(k - 1)>>]
            ring == Swapped(freed, below)
            last == Swapped(ring, above)
            erased == {Abs(i) : i \in from .. from + n - 1}
            p == AbsToSb(offset, r)
<1>1. rows' = Erased(last, erased)
  BY DEF TermScrollReversePartial
<1>2. /\ from \in Nat /\ to \in Nat /\ n \in Nat /\ n > 0 /\ from + n <= to /\ to <= ScreenRows
      /\ ScreenRows - to \in Nat /\ n <= ScreenRows
  BY RegionIs
<1>3. /\ NumRows \in Nat /\ NumRows > 0 /\ ScreenRows \in Nat /\ ScreenRows > 0 /\ ScreenRows <= NumRows
      /\ H \in Nat /\ H + ScreenRows = NumRows /\ H < NumRows /\ Rows = 0 .. NumRows - 1
      /\ Rows \subseteq Int
  BY Sizes DEF Rows
<1>4. /\ off \in Rows /\ p \in Rows
      /\ \A i \in Int : Abs(i) \in Rows /\ AbsToSb(offset, Abs(i)) = Wrap(H + i - n)
  <2>1. -n \in Int /\ offset + (-n) = offset - n /\ \A i \in Int : H + i + (-n) = H + i - n
    BY <1>2, <1>3
  <2>. QED
    BY <2>1, PlacesMove
<1>5. /\ p \in Int /\ p >= 0 /\ p < H + to - n /\ (p < H - n \/ p >= H + from)
  BY <1>3, <1>4
<1>. HIDE DEF off, Abs, p
\* A row that will be on the screen or is swapped with one that will be
<1>6. ASSUME NEW i \in Int, i >= 0, i < from + n \/ i >= to, i < ScreenRows + n PROVE Abs(i) # r
  <2>. SUFFICES ASSUME Abs(i) = r PROVE FALSE
    OBVIOUS
  <2>1. p = Wrap(H + i - n)
    BY <1>4 DEF p
  <2>2. CASE H + i - n >= 0
    <3>1. H + i - n \in Rows /\ H + i - n \in Int
      BY <1>2, <1>3, <1>6, <2>2
    <3>2. p = H + i - n
      BY <2>1, <3>1, WrapNear
    <3>. QED
      BY <1>2, <1>3, <1>5, <1>6, <3>2
  <2>3. CASE H + i - n < 0
    <3>1. H + i - n + NumRows \in Rows /\ H + i - n \in Int
      BY <1>2, <1>3, <1>6, <2>3
    <3>2. p = H + i - n + NumRows
      BY <2>1, <3>1, WrapNear
    <3>. QED
      BY <1>2, <1>3, <1>5, <1>6, <3>2
  <2>. QED
    BY <1>2, <1>3, <2>2, <2>3
<1>7. freed \in Rings /\ freed[r] = rows[r]
  <2>1. ASSUME NEW i \in to - n .. to - 1 PROVE r # Wrap(offset + i)
    <3>1. i \in Int /\ H + i \in Rows /\ H + i \in Int
      BY <1>2, <1>3
    <3>2. AbsToSb(offset, Wrap(offset + i)) = H + i
      BY <3>1, StepsFrom, WrapNear
    <3>. QED
      BY <1>2, <1>3, <1>5, <3>2 DEF p
  <2>. QED
    BY <2>1 DEF Rings, Contents
<1>. HIDE DEF freed
<1>8. ring \in Rings /\ ring[r] = rows[r]
  <2>1. ASSUME NEW k \in 1 .. ScreenRows - to
        PROVE  Abs(to + n + k - 1) # r /\ Abs(to + k - 1) # r
               /\ to + n + k - 1 \in Int /\ to + k - 1 \in Int
    <3>1. /\ to + n + k - 1 \in Int /\ to + k - 1 \in Int
          /\ to + n + k - 1 >= to /\ to + n + k - 1 < ScreenRows + n
          /\ to + k - 1 >= to /\ to + k - 1 < ScreenRows + n
          /\ to + n + k - 1 >= 0 /\ to + k - 1 >= 0
      BY <1>2, <1>3
    <3>. QED
      BY <1>6, <3>1
  <2>2. below \in [1 .. ScreenRows - to -> Rows \X Rows]
    BY <1>4, <2>1
  <2>3. \A k \in 1 .. ScreenRows - to : r # below[k][1] /\ r # below[k][2]
    BY <2>1
  <2>. HIDE DEF below
  <2>. QED
    BY <1>2, <1>7, <2>2, <2>3, SwappedKeeps
<1>. HIDE DEF ring
<1>9. last \in Rings /\ last[r] = rows[r]
  <2>1. ASSUME NEW k \in 1 .. from
        PROVE  Abs(n + k - 1) # r /\ Abs(k - 1) # r /\ n + k - 1 \in Int /\ k - 1 \in Int
    <3>1. /\ n + k - 1 \in Int /\ n + k - 1 >= 0 /\ n + k - 1 < from + n /\ n + k - 1 < ScreenRows + n
          /\ k - 1 \in Int /\ k - 1 >= 0 /\ k - 1 < from + n /\ k - 1 < ScreenRows + n
      BY <1>2, <1>3
    <3>. QED
      BY <1>6, <3>1
  <2>2. above \in [1 .. from -> Rows \X Rows]
    BY <1>4, <2>1
  <2>3. \A k \in 1 .. from : r # above[k][1] /\ r # above[k][2]
    BY <2>1
  <2>. HIDE DEF above
  <2>4. last \in Rings /\ last[r] = ring[r]
    BY <1>2, <1>8, <2>2, <2>3, SwappedKeeps
  <2>. QED
    BY <1>8, <2>4
<1>. HIDE DEF last
<1>10. r \notin erased
  <2>1. ASSUME NEW i \in from .. from + n - 1 PROVE Abs(i) # r
    <3>1. i \in Int /\ i >= 0 /\ i < from + n /\ i < ScreenRows + n
      BY <1>2, <1>3
    <3>. QED
      BY <1>6, <3>1
  <2>. QED
    BY <2>1
<1>. QED
  BY <1>1, <1>9, <1>10, ErasedIs

\* Of a selection that has both ends, every row lies between them.
LEMMA SelectedRowIs ==
    ASSUME offset \in Rows, sel \in Selections, NEW r \in SelectedRows(sel)
    PROVE  r \in Rows /\ AbsToSb(offset, r) \in Top(sel) .. Bottom(sel)
<1>1. PICK k \in Top(sel) .. Bottom(sel) : r = SbToAbs(offset, k)
  BY DEF SelectedRows
<1>2. Top(sel) \in Rows /\ Bottom(sel) \in Rows
  BY EndsAre
<1>3. Rows = 0 .. NumRows - 1 /\ NumRows \in Nat /\ offset \in Int
  BY Sizes DEF Rows
<1>. DEFINE t == Top(sel)
            m == Bottom(sel)
<1>4. t \in Rows /\ m \in Rows /\ k \in t .. m
  BY <1>1, <1>2
<1>. HIDE DEF t, m
<1>5. k \in Rows
  BY <1>3, <1>4
<1>. QED
  BY <1>1, <1>3, <1>5, RowAt

\* What the property says of one step
TextStays ==
    sel.end >= 0 /\ sel'.end >= 0 => \A r \in SelectedRows(sel) : rows'[r] = rows[r]

LEMMA UpKeepsText ==
    ASSUME Types, NEW f \in 0 .. H, StartsAt(f), WithoutMoves,
           NEW from, NEW to, NEW n, Regions(from, to, n), TermScrollPartial(from, to, n)
    PROVE  TextStays
<1>. SUFFICES ASSUME sel.end >= 0, sel'.end >= 0, NEW r \in SelectedRows(sel)
              PROVE  rows'[r] = rows[r]
  BY DEF TextStays
<1>1. /\ from \in Nat /\ to \in Nat /\ n \in Nat /\ n > 0 /\ from + n <= to /\ to <= ScreenRows
  BY RegionIs
<1>2. /\ NumRows \in Nat /\ NumRows > 0 /\ ScreenRows \in Nat /\ ScreenRows > 0 /\ ScreenRows <= NumRows
      /\ H \in Nat /\ H + ScreenRows = NumRows /\ H < NumRows /\ Rows = 0 .. NumRows - 1
      /\ Rows \subseteq Int
  BY Sizes DEF Rows
<1>3. rows \in Rings /\ offset \in Rows /\ sel \in Selections /\ sel.start >= 0
  BY DEF Types, StartsAt, SelectedFrom
<1>. DEFINE p == AbsToSb(offset, r)
            kept == KeptUp(sel, from, to, n)
<1>4. kept # NoSelection
  <2>. SUFFICES ASSUME kept = NoSelection PROVE FALSE
    OBVIOUS
  <2>1. NoSelection.start = -1 /\ NoSelection.end = -1
    BY DEF NoSelection
  <2>2. \A new, old : ViewDown(kept, new, old) = kept
    BY <2>1 DEF ViewDown
  <2>3. sel' = kept
    BY <2>2 DEF TermScrollPartial
  <2>. QED
    BY <2>1, <2>3
<1>5. ~OnFixedRows(sel, from, to) /\ Top(sel) - n >= 0
  <2>1. Top(sel) \in Int
    BY <1>2, <1>3, EndsAre
  <2>2. ~(OnFixedRows(sel, from, to) \/ Top(sel) - n < 0) /\ kept = sel
    BY <1>4 DEF KeptUp
  <2>. QED
    BY <1>1, <2>1, <2>2
<1>6. from = 0 \/ ~SelectionOn(sel, from, from + n - 1)
  <2>1. kept = sel
    BY <1>4 DEF KeptUp
  <2>2. ~(sel.start < 0)
    BY <1>3 DEF Selections
  <2>. QED
    BY <1>4, <2>1, <2>2 DEF TermScrollPartial, WithoutMoves
<1>7. r \in Rows /\ p \in Top(sel) .. Bottom(sel) /\ Top(sel) \in Int /\ Bottom(sel) \in Int
  BY <1>2, <1>3, EndsAre, SelectedRowIs
<1>. HIDE DEF p
<1>8. p >= n /\ p \in Int /\ p < NumRows
  <2>1. p \in Int /\ p >= Top(sel)
    BY <1>7
  <2>2. p < NumRows
    BY <1>2, <1>3, <1>7, PlacesAre DEF p
  <2>. QED
    BY <1>1, <1>5, <1>7, <2>1, <2>2
<1>9. p < H + to
  <2>1. CASE to = ScreenRows
    BY <1>2, <1>8, <2>1
  <2>2. CASE to < ScreenRows
    <3>1. ~SelectionOn(sel, to, ScreenRows - 1)
      BY <1>5, <2>2 DEF OnFixedRows
    <3>2. to \in -H .. ScreenRows - 1 /\ ScreenRows - 1 \in to .. ScreenRows - 1
      BY <1>1, <1>2, <2>2
    <3>3. ~(H + to <= p /\ p <= H + (ScreenRows - 1))
      BY <1>3, <1>7, <3>1, <3>2, NotOn
    <3>. QED
      BY <1>1, <1>2, <1>8, <3>3
  <2>. QED
    BY <1>1, <1>2, <2>1, <2>2
<1>10. ASSUME from > 0 PROVE p < H \/ p >= H + from + n
  <2>1. ~SelectionOn(sel, 0, from - 1) /\ ~SelectionOn(sel, from, from + n - 1)
    BY <1>5, <1>6, <1>10 DEF OnFixedRows
  <2>2. /\ 0 \in -H .. ScreenRows - 1 /\ from - 1 \in 0 .. ScreenRows - 1
        /\ from \in -H .. ScreenRows - 1 /\ from + n - 1 \in from .. ScreenRows - 1
    BY <1>1, <1>2, <1>10
  <2>3. ~(H + 0 <= p /\ p <= H + (from - 1)) /\ ~(H + from <= p /\ p <= H + (from + n - 1))
    BY <1>3, <1>7, <2>1, <2>2, NotOn
  <2>. QED
    BY <1>1, <1>2, <1>8, <2>3
<1>. QED
  BY <1>3, <1>7, <1>8, <1>9, <1>10, ChangedUp DEF p

LEMMA DownKeepsText ==
    ASSUME Types, NEW f \in 0 .. H, StartsAt(f), WithoutMoves,
           NEW from, NEW to, NEW n, Regions(from, to, n), TermScrollReversePartial(from, to, n)
    PROVE  TextStays
<1>. SUFFICES ASSUME sel.end >= 0, sel'.end >= 0, NEW r \in SelectedRows(sel)
              PROVE  rows'[r] = rows[r]
  BY DEF TextStays
<1>1. /\ from \in Nat /\ to \in Nat /\ n \in Nat /\ n > 0 /\ from + n <= to /\ to <= ScreenRows
  BY RegionIs
<1>2. /\ NumRows \in Nat /\ NumRows > 0 /\ ScreenRows \in Nat /\ ScreenRows > 0 /\ ScreenRows <= NumRows
      /\ H \in Nat /\ H + ScreenRows = NumRows /\ H < NumRows /\ Rows = 0 .. NumRows - 1
      /\ Rows \subseteq Int
  BY Sizes DEF Rows
<1>3. rows \in Rings /\ offset \in Rows /\ sel \in Selections /\ sel.start >= 0
  BY DEF Types, StartsAt, SelectedFrom
<1>. DEFINE p == AbsToSb(offset, r)
            kept == KeptDown(sel, from, to, n)
            lost == Least(n, NumRows - ScreenRows)
<1>4. kept # NoSelection
  <2>. SUFFICES ASSUME kept = NoSelection PROVE FALSE
    OBVIOUS
  <2>1. NoSelection.start = -1 /\ NoSelection.end = -1
    BY DEF NoSelection
  <2>2. \A new, old : ViewUp(kept, new, old) = kept
    BY <2>1 DEF ViewUp
  <2>3. sel' = kept
    BY <2>2 DEF TermScrollReversePartial
  <2>. QED
    BY <2>1, <2>3
<1>5. kept = sel /\ ~OnFixedRows(sel, from, to)
        /\ ~(Bottom(sel) > AbsToSb(offset, offset + ScreenRows - 1) - n)
  BY <1>4 DEF KeptDown
<1>6. ~SelectionOn(sel, to - n, to - 1) /\ (lost > 0 => ~SelectionOn(sel, -lost, -1))
  <2>1. ~(sel.start < 0)
    BY <1>3 DEF Selections
  <2>. QED
    BY <1>4, <1>5, <2>1 DEF TermScrollReversePartial, WithoutMoves
<1>7. r \in Rows /\ p \in Top(sel) .. Bottom(sel) /\ Top(sel) \in Int /\ Bottom(sel) \in Int
  BY <1>2, <1>3, EndsAre, SelectedRowIs
<1>8. lost \in Int /\ lost <= n /\ lost <= H /\ (lost = n \/ lost = H) /\ lost >= 0
  BY <1>1, <1>2, LeastIs DEF H
<1>. HIDE DEF p, lost
<1>9. p \in Int /\ p >= 0 /\ p < NumRows
  BY <1>2, <1>3, <1>7, PlacesAre DEF p
<1>10. p < H + to - n
  <2>1. to - n \in -H .. ScreenRows - 1 /\ to - 1 \in (to - n) .. ScreenRows - 1
    BY <1>1, <1>2
  <2>2. ~(H + (to - n) <= p /\ p <= H + (to - 1))
    BY <1>3, <1>6, <1>7, <2>1, NotOn
  <2>3. p < H + to
    <3>1. CASE to = ScreenRows
      BY <1>2, <1>9, <3>1
    <3>2. CASE to < ScreenRows
      <4>1. ~SelectionOn(sel, to, ScreenRows - 1)
        BY <1>5, <3>2 DEF OnFixedRows
      <4>2. to \in -H .. ScreenRows - 1 /\ ScreenRows - 1 \in to .. ScreenRows - 1
        BY <1>1, <1>2, <3>2
      <4>3. ~(H + to <= p /\ p <= H + (ScreenRows - 1))
        BY <1>3, <1>7, <4>1, <4>2, NotOn
      <4>. QED
        BY <1>1, <1>2, <1>9, <4>3
    <3>. QED
      BY <1>1, <1>2, <3>1, <3>2
  <2>. QED
    BY <1>1, <1>2, <1>9, <2>2, <2>3
<1>11. p < H - n \/ p >= H + from
  <2>1. p < H \/ p >= H + from
    <3>1. CASE from = 0
      BY <1>2, <1>9, <3>1
    <3>2. CASE from > 0
      <4>1. ~SelectionOn(sel, 0, from - 1)
        BY <1>5, <3>2 DEF OnFixedRows
      <4>2. 0 \in -H .. ScreenRows - 1 /\ from - 1 \in 0 .. ScreenRows - 1
        BY <1>1, <1>2, <3>2
      <4>3. ~(H + 0 <= p /\ p <= H + (from - 1))
        BY <1>3, <1>7, <4>1, <4>2, NotOn
      <4>. QED
        BY <1>1, <1>2, <1>9, <4>3
    <3>. QED
      BY <1>1, <3>1, <3>2
  <2>2. p < H - lost \/ p >= H
    <3>1. CASE lost > 0
      <4>1. -lost \in -H .. ScreenRows - 1 /\ -1 \in (-lost) .. ScreenRows - 1
        BY <1>2, <1>8, <3>1
      <4>2. ~(H + (-lost) <= p /\ p <= H + (-1))
        BY <1>3, <1>6, <1>7, <3>1, <4>1, NotOn
      <4>. QED
        BY <1>2, <1>8, <1>9, <4>2
    <3>2. CASE lost = 0
      BY <1>2, <1>9, <3>2
    <3>. QED
      BY <1>8, <3>1, <3>2
  <2>. QED
    BY <1>1, <1>2, <1>8, <1>9, <2>1, <2>2
<1>. QED
  BY <1>3, <1>7, <1>10, <1>11, ChangedDown DEF p

\* What is erased of the scrollback is not selected.
LEMMA EraseKeepsText ==
    ASSUME Types, NEW f \in 0 .. H, StartsAt(f), TermEraseScrollback
    PROVE  TextStays
<1>. SUFFICES ASSUME sel.end >= 0, sel'.end >= 0, NEW r \in SelectedRows(sel)
              PROVE  rows'[r] = rows[r]
  BY DEF TextStays
<1>1. /\ NumRows \in Nat /\ ScreenRows \in Nat /\ H \in Nat /\ H + ScreenRows = NumRows /\ H < NumRows
      /\ Rows = 0 .. NumRows - 1 /\ Rows \subseteq Int /\ NumRows > ScreenRows
  BY Sizes DEF Rows, TermEraseScrollback
<1>2. offset \in Rows /\ offset \in Int /\ sel \in Selections
  BY <1>1 DEF Types
<1>. DEFINE last == AbsToSb(offset, offset - 1)
            start == AbsToSb(offset, sel.start)
            end == AbsToSb(offset, sel.end)
            p == AbsToSb(offset, r)
<1>3. ~((start <= last /\ end >= last) \/ end <= last)
  <2>1. KeptErasing(sel).end >= 0
    BY DEF TermEraseScrollback
  <2>2. KeptErasing(sel) # NoSelection
    BY <2>1 DEF NoSelection
  <2>. QED
    BY <2>2 DEF KeptErasing
<1>4. last = H - 1
  <2>1. \A j \in Int : AbsToSb(offset, offset + j) = Wrap(H + j)
    BY <1>2, PlaceIs
  <2>2. -1 \in Int /\ offset + (-1) = offset - 1 /\ H + (-1) = H - 1 /\ H - 1 \in Rows /\ H - 1 \in Int
    BY <1>1, <1>2
  <2>. QED
    BY <2>1, <2>2, WrapNear
<1>5. /\ start \in Rows /\ end \in Rows /\ Top(sel) \in {start, end}
      /\ r \in Rows /\ p \in Top(sel) .. Bottom(sel) /\ p \in Rows
  BY <1>2, EndsAre, SelectedRowIs, PlacesAre
<1>6. ~(p < H)
  <2>. DEFINE t == Top(sel)
              m == Bottom(sel)
  <2>1. t \in {start, end} /\ p \in t .. m
    BY <1>5
  <2>. HIDE DEF start, end, last, t, m, p
  <2>2. start \in Int /\ end \in Int /\ p \in Int
    BY <1>1, <1>5
  <2>3. t > H - 1
    BY <1>1, <1>3, <1>4, <2>1, <2>2
  <2>. QED
    BY <1>1, <2>1, <2>2, <2>3
<1>7. r \notin History
  BY <1>2, <1>5, <1>6, HistoryIs
<1>. QED
  BY <1>5, <1>7 DEF TermEraseScrollback

\* Every other step leaves the ring as it is, or ends the selection.
LEMMA StepKeepsText ==
    ASSUME RInv, WithoutMoves, Next, ~\E i \in Screen : MarkPrompt(i)
    PROVE  TextStays
<1>. PICK f \in 0 .. H : StartsAt(f)
  BY DEF RInv
<1>1. Types
  BY DEF RInv
<1>2. ASSUME UNCHANGED rows PROVE TextStays
  BY <1>2 DEF TextStays
<1>3. CASE \E from \in Screen, to \in 1..ScreenRows, n \in 1..ScreenRows :
              from + n <= to /\ (TermScrollPartial(from, to, n) \/ TermScrollReversePartial(from, to, n))
  <2>1. PICK from \in Screen, to \in 1..ScreenRows, n \in 1..ScreenRows :
              from + n <= to /\ (TermScrollPartial(from, to, n) \/ TermScrollReversePartial(from, to, n))
    BY <1>3
  <2>2. Regions(from, to, n)
    BY <2>1 DEF Regions
  <2>. QED
    BY <1>1, <2>1, <2>2, UpKeepsText, DownKeepsText
<1>4. CASE TermEraseScrollback
  BY <1>1, <1>4, EraseKeepsText
<1>5. CASE TermReset
  <2>1. sel'.end = -1
    BY <1>5 DEF TermReset, NoSelection
  <2>2. ~(sel'.end >= 0)
    BY <2>1
  <2>. QED
    BY <2>2 DEF TextStays
<1>6. CASE \/ \E i \in Screen : SelectionStart(i) \/ SelectionUpdate(i) \/ SelectionExtend(i)
           \/ \E n \in 1..NumRows : CmdScrollbackUp(n) \/ CmdScrollbackDown(n)
           \/ \E r \in Rows : SearchUpdateSelection(r)
           \/ PromptPrev \/ PromptNext \/ ResetView \/ KeyPressed
           \/ ButtonPressed \/ SelectionFinalize
           \/ SearchBegin \/ SearchFindsNothing \/ SearchCancel \/ SearchCommit
           \/ UrlsRender \/ UrlsReset
  <2>1. UNCHANGED rows
    BY <1>6 DEF SelectionStart, SelectionUpdate, SelectionExtend, CmdScrollbackUp, CmdScrollbackDown,
                SearchUpdateSelection, PromptPrev, PromptNext, ResetView, KeyPressed, ButtonPressed,
                SelectionFinalize, SearchBegin, SearchFindsNothing, SearchCancel, SearchCommit,
                UrlsRender, UrlsReset
  <2>. QED
    BY <1>2, <2>1
<1>. QED
  BY <1>3, <1>4, <1>5, <1>6 DEF Next

\* As long as no text is moved under it by a scroll of a region that is selected, what is
\* selected stays the same text, or nothing is selected any more, whatever is scrolled and
\* erased (term_scroll_partial(), term_scroll_reverse_partial(), term_erase_scrollback()).
THEOREM SelectedTextStays ==
  ASSUME {"dangling start", "stale view", "moved selection"} \cap Admitted = {}
  PROVE  Spec => SelectionStays
<1>1. WithoutDefects /\ WithoutMoves
  BY DEF WithoutDefects, WithoutMoves
<1>2. RInv /\ [Next]_vars => RInv'
  BY <1>1, InvStep
<1>3. RInv /\ [Next]_vars =>
        [(sel.end >= 0 /\ sel'.end >= 0 /\ Wrap(sel.start) = Wrap(sel'.start)
            /\ Wrap(sel.end) = Wrap(sel'.end) /\ ~\E i \in Screen : MarkPrompt(i))
         => \A r \in SelectedRows(sel) : rows'[r] = rows[r]]_vars
  BY <1>1, StepKeepsText DEF TextStays
<1>. QED
  BY <1>2, <1>3, InvInit, PTL DEF Spec, SelectionStays

(***************************************************************************)
(* The prompt keys                                                         *)
(***************************************************************************)

\* The known defect that lets the key for the next prompt run past the screen
WithoutWrap == "wrapped prompt" \notin Admitted

LEMMA NextMoves ==
    ASSUME Types, NEW f \in 0 .. H, StartsAt(f), WithoutWrap, PromptNext
    PROVE  FromSbStart(view') > FromSbStart(view)
<1>1. /\ NumRows \in Nat /\ NumRows > 0 /\ ScreenRows \in Nat /\ ScreenRows > 0 /\ ScreenRows <= NumRows
      /\ H \in Nat /\ H + ScreenRows = NumRows /\ H < NumRows
      /\ Rows = 0 .. NumRows - 1 /\ Rows \subseteq Int /\ f \in Int /\ f >= 0 /\ f <= H
  BY Sizes DEF Rows
<1>2. view \in Rows /\ offset \in Rows /\ Allocated(rows, offset, f)
  BY DEF Types, StartsAt
<1>. DEFINE stops == {k \in 1 .. NumRows : LET r == Wrap(view + k) IN
                        rows[r] = "prompt" \/ r = offset + ScreenRows - 1}
            m == Min(stops)
            row == Wrap(view + m)
            d == AbsToSb(offset, view)
            p == AbsToSb(offset, row)
<1>3. /\ view # offset /\ stops # {}
      /\ m <= Wrap(offset - view) + ScreenRows - 1
      /\ view' = Wrap(SbStart + Least(FromSbStart(offset), FromSbStart(row)))
  BY DEF PromptNext, WithoutWrap
<1>4. m \in Int /\ m >= 1
  <2>1. stops \subseteq Nat /\ stops # {} /\ \A k \in stops : k \in Int /\ k >= 1
    BY <1>1, <1>3
  <2>. HIDE DEF stops
  <2>2. \E k \in stops : \A y \in stops : k <= y
    BY <2>1, LeastExists
  <2>3. Min(stops) \in stops
    BY <2>2 DEF Min
  <2>. QED
    BY <2>1, <2>3
<1>. HIDE DEF m
<1>5. d \in f .. H /\ d \in Rows /\ AbsToSb(offset, offset) = H /\ Wrap(offset - view) = Wrap(H - d)
  BY <1>2, PlacesAre DEF StartsAt
<1>6. d # H
  <2>1. offset \in Int
    BY <1>1, <1>2
  <2>2. \A s \in Rows : AbsToSb(offset, s) = AbsToSb(offset, offset) => s = offset
    BY <1>2, <2>1, PlaceOfOne
  <2>. QED
    BY <1>2, <1>3, <1>5, <2>2
<1>7. row \in Rows /\ p = Wrap(d + m)
  BY <1>2, <1>4, StepsFrom
<1>. HIDE DEF d, row, p
<1>8. d \in Int /\ d >= f /\ d < H
  BY <1>1, <1>5, <1>6
<1>9. p = d + m /\ d + m \in Rows
  <2>1. H - d \in Rows /\ H - d \in Int
    BY <1>1, <1>8
  <2>2. m <= (H - d) + ScreenRows - 1
    BY <1>3, <1>5, <2>1, WrapNear
  <2>3. d + m \in Rows /\ d + m \in Int
    BY <1>1, <1>4, <1>8, <2>2
  <2>. QED
    BY <1>7, <2>3, WrapNear
<1>10. /\ FromSbStart(view) = d - f /\ FromSbStart(offset) = H - f
       /\ FromSbStart(row) = (d + m) - f
  <2>1. \A r \in Rows : FromSbStart(r) = Wrap(AbsToSb(offset, r) - f)
    BY <1>2, StartIs
  <2>2. /\ FromSbStart(view) = Wrap(d - f) /\ FromSbStart(offset) = Wrap(H - f)
        /\ FromSbStart(row) = Wrap(p - f)
    BY <1>2, <1>5, <1>7, <2>1 DEF d, p
  <2>3. /\ d - f \in Rows /\ H - f \in Rows /\ (d + m) - f \in Rows
        /\ d - f \in Int /\ H - f \in Int /\ (d + m) - f \in Int
    BY <1>1, <1>4, <1>8, <1>9
  <2>. QED
    BY <1>9, <2>2, <2>3, WrapNear
<1>. DEFINE k == Least(H - f, (d + m) - f)
<1>11. k \in Int /\ k > d - f /\ k >= 0 /\ k <= H - f
  <2>1. H - f \in Int /\ (d + m) - f \in Int /\ H - f > d - f /\ (d + m) - f > d - f /\ d - f >= 0
    BY <1>1, <1>4, <1>8
  <2>. QED
    BY <1>1, <1>8, <2>1, LeastIs
<1>12. view' = Wrap(SbStart + k)
  BY <1>3, <1>10
<1>. HIDE DEF k
<1>13. FromSbStart(view') = k
  <2>1. /\ view' \in Rows /\ AbsToSb(offset, view') = Wrap(f + k)
        /\ FromSbStart(view') = Wrap(AbsToSb(offset, view') - f)
    BY <1>2, <1>11, <1>12, StartIs
  <2>2. f + k \in Rows /\ f + k \in Int /\ k \in Rows /\ (f + k) - f = k
    BY <1>1, <1>11
  <2>. QED
    BY <1>11, <2>1, <2>2, WrapNear
<1>. QED
  BY <1>10, <1>11, <1>13

LEMMA PrevMoves ==
    ASSUME Types, NEW f \in 0 .. H, StartsAt(f), PromptPrev
    PROVE  FromSbStart(view') < FromSbStart(view)
<1>1. /\ NumRows \in Nat /\ H \in Nat /\ H < NumRows /\ Rows = 0 .. NumRows - 1 /\ Rows \subseteq Int
      /\ f \in Int /\ f >= 0 /\ f <= H
  BY Sizes DEF Rows
<1>2. view \in Rows /\ offset \in Rows /\ Allocated(rows, offset, f)
  BY DEF Types, StartsAt
<1>. DEFINE above == {k \in Rows : k < FromSbStart(view) /\ rows[Wrap(SbStart + k)] = "prompt"}
            m == Max(above)
<1>3. m \in above /\ view' = Wrap(SbStart + m)
  BY MaxIs DEF PromptPrev
<1>4. m \in Rows /\ m < FromSbStart(view)
  BY <1>3
<1>. HIDE DEF above, m
<1>5. FromSbStart(view') = m
  <2>1. m \in Int
    BY <1>1, <1>4
  <2>2. /\ view' \in Rows /\ AbsToSb(offset, view') = Wrap(f + m)
        /\ FromSbStart(view') = Wrap(AbsToSb(offset, view') - f)
    BY <1>2, <1>3, <2>1, StartIs
  <2>3. Wrap(Wrap(f + m) - f) = Wrap((f + m) - f)
    <3>1. f + m \in Int /\ 0 - f \in Int /\ (f + m) + (0 - f) = (f + m) - f
      BY <1>1, <2>1
    <3>2. Wrap(f + m) \in Int
      BY <1>1, <3>1, WrapIs
    <3>3. Wrap(f + m) + (0 - f) = Wrap(f + m) - f
      BY <1>1, <3>2
    <3>. QED
      BY <3>1, <3>3, WrapAdd
  <2>4. (f + m) - f = m
    BY <1>1, <2>1
  <2>. QED
    BY <1>4, <2>1, <2>2, <2>3, <2>4, WrapNear
<1>. QED
  BY <1>4, <1>5

\* As long as the key for the next prompt does not run past the screen, it moves the view
\* down, and that for the previous one up, wherever in the ring the scrollback lies (the
\* prompt-prev and prompt-next keys of input.c).
THEOREM PromptKeysMoveIt ==
  ASSUME {"dangling start", "stale view", "wrapped prompt"} \cap Admitted = {}
  PROVE  Spec => [][PromptKeysMove]_vars
<1>1. WithoutDefects /\ WithoutWrap
  BY DEF WithoutDefects, WithoutWrap
<1>2. RInv /\ [Next]_vars => RInv'
  BY <1>1, InvStep
<1>3. RInv => PromptKeysMove
  BY <1>1, NextMoves, PrevMoves DEF RInv, PromptKeysMove
<1>. QED
  BY <1>2, <1>3, InvInit, PTL DEF Spec

(***************************************************************************)
(* The lines of the ring                                                   *)
(***************************************************************************)

\* Rows less than a lap apart are not the same.
LEMMA WrapApart ==
    ASSUME NEW a \in Int, NEW b \in Int, a < b, b < a + NumRows
    PROVE  Wrap(a) # Wrap(b)
<1>1. 0 - a \in Int /\ a + (0 - a) = 0 /\ b + (0 - a) = b - a /\ b - a \in Int /\ 0 \in Int
  OBVIOUS
<1>2. Wrap(Wrap(a) + (0 - a)) = Wrap(0) /\ Wrap(Wrap(b) + (0 - a)) = Wrap(b - a)
  BY <1>1, WrapAdd
<1>3. 0 \in Rows /\ b - a \in Rows /\ b - a # 0
  BY Sizes DEF Rows
<1>4. Wrap(0) = 0 /\ Wrap(b - a) = b - a
  BY <1>1, <1>3, WrapNear
<1>. QED
  BY <1>2, <1>3, <1>4

\* Of the rows within a lap, each is at one distance from the offset.
LEMMA LinesApart ==
    ASSUME NEW off \in Rows, NEW i \in Int, NEW j \in Int, i # j, i - j < NumRows, j - i < NumRows
    PROVE  /\ Wrap(off + i) \in Rows /\ Wrap(off + j) \in Rows
           /\ Wrap(off + i) # Wrap(off + j)
<1>1. off \in Int /\ off + i \in Int /\ off + j \in Int /\ NumRows \in Int
  BY Sizes DEF Rows
<1>2. CASE i < j
  <2>1. off + i < off + j /\ off + j < (off + i) + NumRows
    BY <1>1, <1>2
  <2>. QED
    BY <1>1, <2>1, WrapApart, WrapIs
<1>3. CASE j < i
  <2>1. off + j < off + i /\ off + i < (off + j) + NumRows
    BY <1>1, <1>3
  <2>. QED
    BY <1>1, <2>1, WrapApart, WrapIs
<1>. QED
  BY <1>2, <1>3

\* A row of the ring, by its distance from the offset
Line(ring, off, i) == ring[Wrap(off + i)]

LEMMA LineLaps ==
    ASSUME NEW ring, NEW off \in Rows, NEW i \in Int
    PROVE  /\ Line(ring, off, i + NumRows) = Line(ring, off, i)
           /\ Line(ring, off, i - NumRows) = Line(ring, off, i)
<1>1. /\ off + i \in Int /\ NumRows \in Int
      /\ off + (i + NumRows) = NumRows * 1 + (off + i)
      /\ off + (i - NumRows) = NumRows * (-1) + (off + i)
  BY Sizes, SMT DEF Rows
<1>2. 1 \in Int /\ -1 \in Int
  OBVIOUS
<1>. QED
  BY <1>1, <1>2, WrapLaps DEF Line

\* The same line by its distance from the offset before and after a scroll
LEMMA LineMoves ==
    ASSUME NEW ring, NEW off \in Rows, NEW n \in Int, NEW i \in Int
    PROVE  Line(ring, Wrap(off + n), i) = Line(ring, off, i + n)
<1>1. off + n \in Int /\ (off + n) + i = off + (i + n)
  BY Sizes DEF Rows
<1>. QED
  BY <1>1, WrapAdd DEF Line

\* Two lines change places.
LEMMA SwappedLines ==
    ASSUME NEW ring \in Rings, NEW off \in Rows, NEW a \in Int, NEW b \in Int, a # b,
           NEW first \in Int, a \in first .. first + NumRows - 1, b \in first .. first + NumRows - 1,
           NEW new, new = RowsSwapped(ring, <<Wrap(off + a), Wrap(off + b)>>)
    PROVE  /\ new \in Rings
           /\ \A i \in first .. first + NumRows - 1 :
                 Line(new, off, i) = IF i = a THEN Line(ring, off, b)
                                     ELSE IF i = b THEN Line(ring, off, a)
                                     ELSE Line(ring, off, i)
<1>1. Wrap(off + a) \in Rows /\ Wrap(off + b) \in Rows
  BY Sizes, WrapIs DEF Rows
<1>2. /\ new \in Rings /\ new[Wrap(off + a)] = ring[Wrap(off + b)] /\ new[Wrap(off + b)] = ring[Wrap(off + a)]
      /\ \A r \in Rows \ {Wrap(off + a), Wrap(off + b)} : new[r] = ring[r]
  BY <1>1, SwapIs
<1>3. ASSUME NEW i \in first .. first + NumRows - 1, i # a, i # b
      PROVE  Line(new, off, i) = Line(ring, off, i)
  <2>1. i \in Int /\ i - a < NumRows /\ a - i < NumRows /\ i - b < NumRows /\ b - i < NumRows
    BY Sizes
  <2>2. Wrap(off + i) \in Rows /\ Wrap(off + i) # Wrap(off + a) /\ Wrap(off + i) # Wrap(off + b)
    BY <1>3, <2>1, LinesApart
  <2>. QED
    BY <1>2, <2>2 DEF Line
<1>. QED
  BY <1>2, <1>3 DEF Line

\* What the loops of term_scroll_partial() do: from line end - 1 on up, each of count lines
\* changes places with the one n lines above it. Lifted says how far they are after k swaps:
\* the lines done are those that were n above, the n lines before them hold what there was
\* of the last n, each in its place modulo n, and others are as they were.
Lifts(off, end, n, count) ==
    [k \in 1 .. count |-> <<Wrap(off + (end - k - n)), Wrap(off + (end - k))>>]

Lifted(ring, new, off, end, n, k) ==
    /\ \A j \in end - k .. end - 1 : Line(new, off, j) = Line(ring, off, j - n)
    /\ \A j \in end - NumRows .. end - k - n - 1 : Line(new, off, j) = Line(ring, off, j)
    /\ \A j \in end - k - n .. end - k - 1 :
          \E x \in Int : j + n * x \in end - n .. end - 1 /\ Line(new, off, j) = Line(ring, off, j + n * x)

LEMMA LiftsOne ==
    ASSUME NEW ring \in Rings, NEW off \in Rows, NEW end \in Int, NEW n \in Nat, n > 0,
           NEW k \in Nat, (k + 1) + n <= NumRows, NEW old \in Rings, Lifted(ring, old, off, end, n, k)
    PROVE  LET new == RowsSwapped(old, <<Wrap(off + (end - (k + 1) - n)), Wrap(off + (end - (k + 1)))>>)
           IN  new \in Rings /\ Lifted(ring, new, off, end, n, k + 1)
<1>. DEFINE b == end - (k + 1)
            a == b - n
            first == end - NumRows
            new == RowsSwapped(old, <<Wrap(off + a), Wrap(off + b)>>)
<1>1. /\ NumRows \in Nat /\ a \in Int /\ b \in Int /\ first \in Int /\ a # b
      /\ a \in first .. first + NumRows - 1 /\ b \in first .. first + NumRows - 1
      /\ first + NumRows - 1 = end - 1 /\ b = end - k - 1 /\ a = end - k - n - 1
      /\ end - (k + 1) = b /\ end - (k + 1) - n = a
  BY Sizes
<1>. HIDE DEF a, b, first
<1>0. new = RowsSwapped(old, <<Wrap(off + a), Wrap(off + b)>>)
  OBVIOUS
<1>. HIDE DEF new
<1>2. /\ new \in Rings
      /\ Line(new, off, a) = Line(old, off, b) /\ Line(new, off, b) = Line(old, off, a)
      /\ \A i \in first .. end - 1 : i # a /\ i # b => Line(new, off, i) = Line(old, off, i)
  <2>1. first \in Int /\ a \in Int /\ b \in Int /\ a # b
        /\ a \in first .. first + NumRows - 1 /\ b \in first .. first + NumRows - 1
    BY <1>1
  <2>2. new \in Rings /\ \A i \in first .. first + NumRows - 1 :
              Line(new, off, i) = IF i = a THEN Line(old, off, b)
                                  ELSE IF i = b THEN Line(old, off, a)
                                  ELSE Line(old, off, i)
    BY <1>0, <2>1, SwappedLines
  <2>. QED
    BY <1>1, <2>1, <2>2
<1>3. /\ \A j \in end - k .. end - 1 : Line(old, off, j) = Line(ring, off, j - n)
      /\ \A j \in first .. a : Line(old, off, j) = Line(ring, off, j)
      /\ \A j \in a + 1 .. b :
          \E x \in Int : j + n * x \in end - n .. end - 1 /\ Line(old, off, j) = Line(ring, off, j + n * x)
  <2>1. end - k - n = a + 1 /\ end - k - 1 = b /\ end - k - n - 1 = a
    BY <1>1
  <2>. QED
    BY <2>1 DEF Lifted, first
<1>4. ASSUME NEW j \in b .. end - 1 PROVE Line(new, off, j) = Line(ring, off, j - n)
  <2>1. CASE j = b
    <3>1. j - n = a /\ a \in first .. a
      BY <1>1, <2>1 DEF a
    <3>. QED
      BY <1>2, <1>3, <2>1, <3>1
  <2>2. CASE j # b
    <3>1. j \in end - k .. end - 1 /\ j \in first .. end - 1 /\ j # a
      BY <1>1, <2>2 DEF a
    <3>. QED
      BY <1>2, <1>3, <2>2, <3>1
  <2>. QED
    BY <2>1, <2>2
<1>5. ASSUME NEW j \in first .. a - 1 PROVE Line(new, off, j) = Line(ring, off, j)
  <2>1. j \in first .. end - 1 /\ j # a /\ j # b /\ j \in first .. a
    BY <1>1 DEF a
  <2>. QED
    BY <1>2, <1>3, <2>1
<1>6. ASSUME NEW j \in a .. b - 1
      PROVE  \E x \in Int : j + n * x \in end - n .. end - 1 /\ Line(new, off, j) = Line(ring, off, j + n * x)
  <2>1. CASE j = a
    <3>1. b \in a + 1 .. b
      BY <1>1 DEF a
    <3>2. PICK x \in Int : b + n * x \in end - n .. end - 1 /\ Line(old, off, b) = Line(ring, off, b + n * x)
      BY <1>3, <3>1
    <3>3. a + n * (x + 1) = b + n * x /\ x + 1 \in Int
      BY <1>1, SMT DEF a
    <3>. QED
      BY <1>2, <2>1, <3>2, <3>3
  <2>2. CASE j # a
    <3>1. j \in a + 1 .. b /\ j \in first .. end - 1 /\ j # b
      BY <1>1, <2>2 DEF a
    <3>2. Line(new, off, j) = Line(old, off, j)
      BY <1>2, <2>2, <3>1
    <3>. QED
      BY <1>3, <3>1, <3>2
  <2>. QED
    BY <2>1, <2>2
<1>7. Lifted(ring, new, off, end, n, k + 1)
  <2>1. end - (k + 1) = b /\ end - (k + 1) - n - 1 = a - 1 /\ end - (k + 1) - n = a /\ end - (k + 1) - 1 = b - 1
    BY <1>1
  <2>. QED
    BY <1>4, <1>5, <1>6, <2>1 DEF Lifted, first
<1>. QED
  BY <1>1, <1>2, <1>7 DEF new

LEMMA LiftsAll ==
    ASSUME NEW ring \in Rings, NEW off \in Rows, NEW end \in Int, NEW n \in Nat, n > 0,
           NEW count \in Nat, count + n <= NumRows
    PROVE  LET new == Swapped(ring, Lifts(off, end, n, count))
           IN  new \in Rings /\ Lifted(ring, new, off, end, n, count)
<1>. DEFINE pairs == Lifts(off, end, n, count)
            Good == {g \in (0 .. count) \X Rings : Lifted(ring, g[2], off, end, n, g[1])}
<1>1. NumRows \in Nat /\ off \in Int
  BY Sizes DEF Rows
<1>2. pairs \in [1 .. count -> Rows \X Rows]
  <2>1. \A k \in 1 .. count : Wrap(off + (end - k - n)) \in Rows /\ Wrap(off + (end - k)) \in Rows
    <3>1. \A k \in 1 .. count : off + (end - k - n) \in Int /\ off + (end - k) \in Int
      BY <1>1
    <3>. QED
      BY <3>1, WrapIs
  <2>. QED
    BY <2>1 DEF Lifts
<1>3. \A k \in 0 .. count - 1 :
          pairs[k + 1] = <<Wrap(off + (end - (k + 1) - n)), Wrap(off + (end - (k + 1)))>>
  <2>1. \A k \in 0 .. count - 1 : k + 1 \in 1 .. count
    OBVIOUS
  <2>. QED
    BY <2>1 DEF Lifts
<1>. HIDE DEF pairs
<1>4. <<0, ring>> \in Good
  <2>1. \A j \in end - 0 .. end - 1 : Line(ring, off, j) = Line(ring, off, j - n)
    OBVIOUS
  <2>2. ASSUME NEW j \in end - 0 - n .. end - 0 - 1
        PROVE  \E x \in Int : j + n * x \in end - n .. end - 1 /\ Line(ring, off, j) = Line(ring, off, j + n * x)
    <3>1. j + n * 0 = j /\ 0 \in Int /\ j \in end - n .. end - 1
      BY SMT
    <3>. QED
      BY <3>1
  <2>3. Lifted(ring, ring, off, end, n, 0)
    BY <2>1, <2>2 DEF Lifted
  <2>4. 0 \in 0 .. count
    OBVIOUS
  <2>. QED
    BY <2>3, <2>4
<1>5. ASSUME NEW k \in 0 .. count - 1, NEW x, <<k, x>> \in Good
      PROVE  <<k + 1, RowsSwapped(x, pairs[k + 1])>> \in Good
  <2>1. k \in Nat /\ (k + 1) + n <= NumRows /\ k + 1 \in 0 .. count
    BY <1>1
  <2>2. x \in Rings /\ Lifted(ring, x, off, end, n, k)
    BY <1>5
  <2>3. /\ RowsSwapped(x, pairs[k + 1]) \in Rings
        /\ Lifted(ring, RowsSwapped(x, pairs[k + 1]), off, end, n, k + 1)
    BY <1>3, <2>1, <2>2, LiftsOne
  <2>. QED
    BY <2>1, <2>3
<1>. HIDE DEF Good
<1>6. <<count, Swapped(ring, pairs)>> \in Good
  BY <1>2, <1>4, <1>5, SwappedBy
<1>. QED
  BY <1>6 DEF Good, pairs

\* The loops of term_scroll_reverse_partial(): from line first on down, each of count lines
\* changes places with the one n lines below it.
Lowers(off, first, n, count) ==
    [k \in 1 .. count |-> <<Wrap(off + (first + n + k - 1)), Wrap(off + (first + k - 1))>>]

Lowered(ring, new, off, first, n, k) ==
    /\ \A j \in first .. first + k - 1 : Line(new, off, j) = Line(ring, off, j + n)
    /\ \A j \in first + k + n .. first + NumRows - 1 : Line(new, off, j) = Line(ring, off, j)

LEMMA LowersOne ==
    ASSUME NEW ring \in Rings, NEW off \in Rows, NEW first \in Int, NEW n \in Nat, n > 0,
           NEW k \in Nat, (k + 1) + n <= NumRows, NEW old \in Rings, Lowered(ring, old, off, first, n, k)
    PROVE  LET new == RowsSwapped(old, <<Wrap(off + (first + n + (k + 1) - 1)),
                                         Wrap(off + (first + (k + 1) - 1))>>)
           IN  new \in Rings /\ Lowered(ring, new, off, first, n, k + 1)
<1>. DEFINE b == first + k
            a == b + n
            new == RowsSwapped(old, <<Wrap(off + a), Wrap(off + b)>>)
<1>1. /\ NumRows \in Nat /\ a \in Int /\ b \in Int /\ a # b
      /\ a \in first .. first + NumRows - 1 /\ b \in first .. first + NumRows - 1
      /\ first + (k + 1) - 1 = b /\ first + n + (k + 1) - 1 = a
      /\ first + k + n = a /\ first + (k + 1) + n = a + 1
  BY Sizes
<1>. HIDE DEF a, b
<1>0. new = RowsSwapped(old, <<Wrap(off + a), Wrap(off + b)>>)
  OBVIOUS
<1>. HIDE DEF new
<1>2. /\ new \in Rings
      /\ Line(new, off, a) = Line(old, off, b) /\ Line(new, off, b) = Line(old, off, a)
      /\ \A i \in first .. first + NumRows - 1 : i # a /\ i # b => Line(new, off, i) = Line(old, off, i)
  <2>1. first \in Int /\ a \in Int /\ b \in Int /\ a # b
        /\ a \in first .. first + NumRows - 1 /\ b \in first .. first + NumRows - 1
    BY <1>1
  <2>2. new \in Rings /\ \A i \in first .. first + NumRows - 1 :
              Line(new, off, i) = IF i = a THEN Line(old, off, b)
                                  ELSE IF i = b THEN Line(old, off, a)
                                  ELSE Line(old, off, i)
    BY <1>0, <2>1, SwappedLines
  <2>. QED
    BY <1>1, <2>1, <2>2
<1>3. /\ \A j \in first .. b - 1 : Line(old, off, j) = Line(ring, off, j + n)
      /\ \A j \in a .. first + NumRows - 1 : Line(old, off, j) = Line(ring, off, j)
  BY <1>1 DEF Lowered, b
<1>4. ASSUME NEW j \in first .. b PROVE Line(new, off, j) = Line(ring, off, j + n)
  <2>1. CASE j = b
    <3>1. j + n = a /\ a \in a .. first + NumRows - 1
      BY <1>1, <2>1 DEF a
    <3>. QED
      BY <1>2, <1>3, <2>1, <3>1
  <2>2. CASE j # b
    <3>1. j \in first .. b - 1 /\ j \in first .. first + NumRows - 1 /\ j # a
      BY <1>1, <2>2 DEF a
    <3>. QED
      BY <1>2, <1>3, <2>2, <3>1
  <2>. QED
    BY <2>1, <2>2
<1>5. ASSUME NEW j \in a + 1 .. first + NumRows - 1 PROVE Line(new, off, j) = Line(ring, off, j)
  <2>1. j \in first .. first + NumRows - 1 /\ j # a /\ j # b /\ j \in a .. first + NumRows - 1
    BY <1>1 DEF a
  <2>. QED
    BY <1>2, <1>3, <2>1
<1>6. Lowered(ring, new, off, first, n, k + 1)
  BY <1>1, <1>4, <1>5 DEF Lowered
<1>. QED
  BY <1>1, <1>2, <1>6 DEF new

LEMMA LowersAll ==
    ASSUME NEW ring \in Rings, NEW off \in Rows, NEW first \in Int, NEW n \in Nat, n > 0,
           NEW count \in Nat, count + n <= NumRows
    PROVE  LET new == Swapped(ring, Lowers(off, first, n, count))
           IN  new \in Rings /\ Lowered(ring, new, off, first, n, count)
<1>. DEFINE pairs == Lowers(off, first, n, count)
            Good == {g \in (0 .. count) \X Rings : Lowered(ring, g[2], off, first, n, g[1])}
<1>1. NumRows \in Nat /\ off \in Int
  BY Sizes DEF Rows
<1>2. pairs \in [1 .. count -> Rows \X Rows]
  <2>1. \A k \in 1 .. count : Wrap(off + (first + n + k - 1)) \in Rows /\ Wrap(off + (first + k - 1)) \in Rows
    <3>1. \A k \in 1 .. count : off + (first + n + k - 1) \in Int /\ off + (first + k - 1) \in Int
      BY <1>1
    <3>. QED
      BY <3>1, WrapIs
  <2>. QED
    BY <2>1 DEF Lowers
<1>3. \A k \in 0 .. count - 1 :
          pairs[k + 1] = <<Wrap(off + (first + n + (k + 1) - 1)), Wrap(off + (first + (k + 1) - 1))>>
  <2>1. \A k \in 0 .. count - 1 : k + 1 \in 1 .. count
    OBVIOUS
  <2>. QED
    BY <2>1 DEF Lowers
<1>. HIDE DEF pairs
<1>4. <<0, ring>> \in Good
  <2>1. Lowered(ring, ring, off, first, n, 0)
    BY DEF Lowered
  <2>2. 0 \in 0 .. count
    OBVIOUS
  <2>. QED
    BY <2>1, <2>2
<1>5. ASSUME NEW k \in 0 .. count - 1, NEW x, <<k, x>> \in Good
      PROVE  <<k + 1, RowsSwapped(x, pairs[k + 1])>> \in Good
  <2>1. k \in Nat /\ (k + 1) + n <= NumRows /\ k + 1 \in 0 .. count
    BY <1>1
  <2>2. x \in Rings /\ Lowered(ring, x, off, first, n, k)
    BY <1>5
  <2>3. /\ RowsSwapped(x, pairs[k + 1]) \in Rings
        /\ Lowered(ring, RowsSwapped(x, pairs[k + 1]), off, first, n, k + 1)
    BY <1>3, <2>1, <2>2, LowersOne
  <2>. QED
    BY <2>1, <2>3
<1>. HIDE DEF Good
<1>6. <<count, Swapped(ring, pairs)>> \in Good
  BY <1>2, <1>4, <1>5, SwappedBy
<1>. QED
  BY <1>6 DEF Good, pairs

\* erase_line(), and freeing the rows that scroll out, by distances from the offset
LEMMA ErasedLines ==
    ASSUME NEW ring \in Rings, NEW off \in Rows, NEW first \in Int, NEW a \in Int, NEW b \in Int,
           first <= a, b < first + NumRows,
           NEW S, S = {Wrap(off + i) : i \in a .. b}
    PROVE  /\ Erased(ring, S) \in Rings
           /\ \A j \in first .. first + NumRows - 1 :
                 Line(Erased(ring, S), off, j) = IF j \in a .. b THEN "plain" ELSE Line(ring, off, j)
<1>1. /\ Erased(ring, S) \in Rings
      /\ \A r \in Rows : Erased(ring, S)[r] = IF r \in S THEN "plain" ELSE ring[r]
  BY ErasedIs
<1>2. ASSUME NEW j \in first .. first + NumRows - 1
      PROVE  Wrap(off + j) \in Rows /\ (Wrap(off + j) \in S <=> j \in a .. b)
  <2>1. NumRows \in Int /\ off + j \in Int
    BY Sizes DEF Rows
  <2>2. ASSUME NEW i \in a .. b, i # j PROVE Wrap(off + i) # Wrap(off + j)
    <3>1. i \in Int /\ j \in Int /\ i - j < NumRows /\ j - i < NumRows
      BY <2>1
    <3>. QED
      BY <2>2, <3>1, LinesApart
  <2>. QED
    BY <2>1, <2>2, WrapIs
<1>. QED
  BY <1>1, <1>2 DEF Line

LEMMA FreedLines ==
    ASSUME NEW ring \in Rings, NEW off \in Rows, NEW first \in Int, NEW a \in Int, NEW b \in Int,
           first <= a, b < first + NumRows,
           NEW new, new = [r \in Rows |-> IF \E i \in a .. b : r = Wrap(off + i) THEN "none" ELSE ring[r]]
    PROVE  /\ new \in Rings
           /\ \A j \in first .. first + NumRows - 1 :
                 j \notin a .. b => Line(new, off, j) = Line(ring, off, j)
<1>1. new \in Rings
  BY DEF Rings, Contents
<1>2. ASSUME NEW j \in first .. first + NumRows - 1, j \notin a .. b
      PROVE  Wrap(off + j) \in Rows /\ ~\E i \in a .. b : Wrap(off + j) = Wrap(off + i)
  <2>1. NumRows \in Int /\ off + j \in Int
    BY Sizes DEF Rows
  <2>2. ASSUME NEW i \in a .. b PROVE Wrap(off + i) # Wrap(off + j)
    <3>1. i \in Int /\ j \in Int /\ i - j < NumRows /\ j - i < NumRows /\ i # j
      BY <1>2, <2>1
    <3>. QED
      BY <3>1, LinesApart
  <2>. QED
    BY <2>1, <2>2, WrapIs
<1>. QED
  BY <1>1, <1>2 DEF Line

\* The last n lines of the rotated ones, when from is a multiple of n
LEMMA InTurn ==
    ASSUME NEW n \in Nat, n > 0, NEW from \in Nat, from % n = 0, NEW j \in -n .. -1,
           NEW x \in Int, j + n * x \in from - n .. from - 1
    PROVE  j + n * x = j + from
<1>1. PICK q \in Int : from = n * q
  <2>. DEFINE d == from \div n
  <2>1. d \in Int /\ from = n * d + (from % n) /\ n * d \in Int
    BY SMT
  <2>. HIDE DEF d
  <2>2. from = n * d
    BY <2>1, SMT
  <2>. QED
    BY <2>1, <2>2
<1>2. n * (x - q) = n * x - from
  BY <1>1, SMT
<1>3. n * (x - q) > -n /\ n * (x - q) < n
  <2>. DEFINE y == n * x
  <2>1. y \in Int
    BY SMT
  <2>. HIDE DEF y
  <2>2. y - from > -n /\ y - from < n
    BY <2>1 DEF y
  <2>. QED
    BY <1>2, <2>2 DEF y
<1>4. CASE x = q
  BY <1>1, <1>4
<1>5. CASE x - q >= 1
  <2>1. n * (x - q) >= n
    BY <1>5, SMT
  <2>. QED
    BY <1>3, <2>1, SMT
<1>6. CASE x - q <= -1
  <2>1. n * (x - q) <= -n
    BY <1>6, SMT
  <2>. QED
    BY <1>3, <2>1, SMT
<1>. QED
  BY <1>4, <1>5, <1>6

\* The known defects that lose or show lines where ScreenLog does not
WithoutLoss == "reordered" \notin Admitted /\ "overtaken view" \notin Admitted

\* term_scroll_partial() moves the lines of the region up by n and the first of them into the
\* history, and leaves the lines above and below the region where they are.
LEMMA LinesUp ==
    ASSUME rows \in Rings, offset \in Rows, WithoutLoss,
           NEW from, NEW to, NEW n, Regions(from, to, n), TermScrollPartial(from, to, n)
    PROVE  /\ \A j \in -H .. -1 :
                 Line(rows', offset', j) = Line(rows, offset, IF j < -n THEN j + n ELSE j + n + from)
           /\ \A j \in 0 .. ScreenRows - 1 :
                 Line(rows', offset', j) =
                    IF j < from \/ j >= to THEN Line(rows, offset, j)
                    ELSE IF j < to - n THEN Line(rows, offset, j + n) ELSE "plain"
<1>. DEFINE off == Wrap(offset + n)
            Abs(i) == Wrap(off + i)
            above == [k \in 1 .. from |-> <<Abs(from - k - n), Abs(from - k)>>]
            below == [k \in 1 .. ScreenRows - to |-> <<Abs(ScreenRows - k - n), Abs(ScreenRows - k)>>]
            erased == {Abs(i) : i \in to - n .. to - 1}
            ring == Swapped(rows, above)
            last == Swapped(ring, below)
<1>1. offset' = off /\ rows' = Erased(last, erased) /\ from % n = 0
  <2>1. offset' = off /\ rows' = Erased(last, erased)
    BY DEF TermScrollPartial
  <2>2. "reordered" \in Admitted \/ from % n = 0
    BY DEF TermScrollPartial
  <2>. QED
    BY <2>1, <2>2 DEF WithoutLoss
<1>2. /\ from \in Nat /\ to \in Nat /\ n \in Nat /\ n > 0 /\ from + n <= to /\ to <= ScreenRows
      /\ ScreenRows - to \in Nat
  BY RegionIs
<1>3. /\ NumRows \in Nat /\ ScreenRows \in Nat /\ H \in Nat /\ H + ScreenRows = NumRows
  BY Sizes
<1>4. off \in Rows
  <2>1. offset + n \in Int
    BY <1>2, Sizes DEF Rows
  <2>. QED
    BY <2>1, WrapIs
<1>5. above = Lifts(off, from, n, from) /\ below = Lifts(off, ScreenRows, n, ScreenRows - to)
  BY DEF Lifts
<1>. HIDE DEF off, above, below
<1>6. ring \in Rings /\ Lifted(rows, ring, off, from, n, from)
  <2>1. from + n <= NumRows
    BY <1>2, <1>3
  <2>. QED
    BY <1>2, <1>4, <1>5, <2>1, LiftsAll
<1>. HIDE DEF ring
<1>7. last \in Rings /\ Lifted(ring, last, off, ScreenRows, n, ScreenRows - to)
  <2>1. (ScreenRows - to) + n <= NumRows
    BY <1>2, <1>3
  <2>. QED
    BY <1>2, <1>3, <1>4, <1>5, <1>6, <2>1, LiftsAll
<1>. HIDE DEF last
<1>8. /\ \A j \in 0 .. from - 1 : Line(ring, off, j) = Line(rows, off, j - n)
      /\ \A j \in from - NumRows .. -n - 1 : Line(ring, off, j) = Line(rows, off, j)
      /\ \A j \in -n .. -1 : Line(ring, off, j) = Line(rows, off, j + from)
  <2>1. from - from = 0 /\ from - from - n - 1 = -n - 1 /\ from - from - n = -n /\ from - from - 1 = -1
    BY <1>2
  <2>2. \A j \in -n .. -1 : \E x \in Int : j + n * x \in from - n .. from - 1
                                  /\ Line(ring, off, j) = Line(rows, off, j + n * x)
    BY <1>6, <2>1 DEF Lifted
  <2>3. ASSUME NEW j \in -n .. -1 PROVE Line(ring, off, j) = Line(rows, off, j + from)
    <3>1. PICK x \in Int : j + n * x \in from - n .. from - 1
                            /\ Line(ring, off, j) = Line(rows, off, j + n * x)
      BY <2>2
    <3>2. j + n * x = j + from
      BY <1>1, <1>2, <3>1, InTurn
    <3>. QED
      BY <3>1, <3>2
  <2>4. /\ \A j \in 0 .. from - 1 : Line(ring, off, j) = Line(rows, off, j - n)
        /\ \A j \in from - NumRows .. -n - 1 : Line(ring, off, j) = Line(rows, off, j)
    BY <1>6, <2>1 DEF Lifted
  <2>. QED
    BY <2>3, <2>4
<1>9. \A j \in from .. NumRows - n - 1 : Line(ring, off, j) = Line(rows, off, j)
  <2>. SUFFICES ASSUME NEW j \in from .. NumRows - n - 1 PROVE Line(ring, off, j) = Line(rows, off, j)
    OBVIOUS
  <2>1. j \in Int /\ j - NumRows \in from - NumRows .. -n - 1
    BY <1>2, <1>3
  <2>. QED
    BY <1>4, <1>8, <2>1, LineLaps
<1>10. /\ \A j \in to .. ScreenRows - 1 : Line(last, off, j) = Line(ring, off, j - n)
       /\ \A j \in -H .. to - n - 1 : Line(last, off, j) = Line(ring, off, j)
  <2>1. ScreenRows - (ScreenRows - to) = to /\ ScreenRows - NumRows = -H
    BY <1>2, <1>3
  <2>. QED
    BY <1>7, <2>1 DEF Lifted
<1>11. \A j \in -H .. ScreenRows - 1 :
          Line(rows', off, j) = IF j \in to - n .. to - 1 THEN "plain" ELSE Line(last, off, j)
  <2>1. /\ -H \in Int /\ to - n \in Int /\ to - 1 \in Int /\ -H <= to - n /\ to - 1 < -H + NumRows
        /\ -H + NumRows - 1 = ScreenRows - 1
    BY <1>2, <1>3
  <2>. HIDE DEF Abs
  <2>2. erased = {Wrap(off + i) : i \in to - n .. to - 1}
    BY DEF Abs
  <2>. HIDE DEF erased
  <2>. QED
    BY <1>1, <1>4, <1>7, <2>1, <2>2, ErasedLines
<1>12. \A i \in Int : Line(rows, off, i) = Line(rows, offset, i + n)
  BY <1>2, LineMoves DEF off
<1>13. ASSUME NEW j \in -H .. -1
       PROVE  Line(rows', off, j) = Line(rows, offset, IF j < -n THEN j + n ELSE j + n + from)
  <2>1. j \in -H .. ScreenRows - 1 /\ j \notin to - n .. to - 1 /\ j \in -H .. to - n - 1 /\ j \in Int
    BY <1>2, <1>3
  <2>2. Line(rows', off, j) = Line(ring, off, j)
    BY <1>10, <1>11, <2>1
  <2>3. CASE j < -n
    <3>1. j \in from - NumRows .. -n - 1
      BY <1>2, <1>3, <2>1, <2>3
    <3>. QED
      BY <1>8, <1>12, <2>1, <2>2, <2>3, <3>1
  <2>4. CASE ~(j < -n)
    <3>1. j \in -n .. -1 /\ j + from \in Int /\ (j + from) + n = j + n + from
      BY <1>2, <2>1, <2>4
    <3>. QED
      BY <1>8, <1>12, <2>2, <2>4, <3>1
  <2>. QED
    BY <2>3, <2>4
<1>14. ASSUME NEW j \in 0 .. ScreenRows - 1
       PROVE  Line(rows', off, j) =
                IF j < from \/ j >= to THEN Line(rows, offset, j)
                ELSE IF j < to - n THEN Line(rows, offset, j + n) ELSE "plain"
  <2>1. j \in -H .. ScreenRows - 1 /\ j \in Int /\ j - n \in Int /\ (j - n) + n = j
    BY <1>2, <1>3
  <2>2. CASE j < from
    <3>1. j \notin to - n .. to - 1 /\ j \in -H .. to - n - 1 /\ j \in 0 .. from - 1
      BY <1>2, <1>3, <2>1, <2>2
    <3>2. Line(rows', off, j) = Line(rows, off, j - n)
      BY <1>8, <1>10, <1>11, <2>1, <3>1
    <3>. QED
      BY <1>12, <2>1, <2>2, <3>2
  <2>3. CASE ~(j < from) /\ j < to - n
    <3>1. j \notin to - n .. to - 1 /\ j \in -H .. to - n - 1 /\ j \in from .. NumRows - n - 1 /\ ~(j >= to)
      BY <1>2, <1>3, <2>1, <2>3
    <3>2. Line(rows', off, j) = Line(rows, off, j)
      BY <1>9, <1>10, <1>11, <2>1, <3>1
    <3>. QED
      BY <1>12, <2>1, <2>3, <3>1, <3>2
  <2>4. CASE ~(j < to - n) /\ j < to
    <3>1. j \in to - n .. to - 1 /\ ~(j < from) /\ ~(j >= to)
      BY <1>2, <2>1, <2>4
    <3>. QED
      BY <1>11, <2>1, <2>4, <3>1
  <2>5. CASE j >= to
    <3>1. j \notin to - n .. to - 1 /\ j \in to .. ScreenRows - 1 /\ j - n \in from .. NumRows - n - 1
      BY <1>2, <1>3, <2>1, <2>5
    <3>2. Line(rows', off, j) = Line(rows, off, j - n)
      BY <1>9, <1>10, <1>11, <2>1, <3>1
    <3>. QED
      BY <1>12, <2>1, <2>5, <3>2
  <2>. QED
    BY <1>2, <2>1, <2>2, <2>3, <2>4, <2>5
<1>. QED
  BY <1>1, <1>13, <1>14

\* term_scroll_reverse_partial() moves the lines of the region down by n, and the history by n.
LEMMA LinesDown ==
    ASSUME rows \in Rings, offset \in Rows,
           NEW from, NEW to, NEW n, Regions(from, to, n), TermScrollReversePartial(from, to, n)
    PROVE  /\ \A j \in n - H .. -1 : Line(rows', offset', j) = Line(rows, offset, j - n)
           /\ \A j \in 0 .. ScreenRows - 1 :
                 Line(rows', offset', j) =
                    IF j < from \/ j >= to THEN Line(rows, offset, j)
                    ELSE IF j < from + n THEN "plain" ELSE Line(rows, offset, j - n)
<1>. DEFINE m == -n
            off == Wrap(offset - n)
            Abs(i) == Wrap(off + i)
            freed == [r \in Rows |-> IF \E i \in to - n .. to - 1 : r = Wrap(offset + i)
                                     THEN "none" ELSE rows[r]]
            below == [k \in 1 .. ScreenRows - to |-> <<Abs(to + n + k - 1), Abs(to + k - 1)>>]
            above == [k \in 1 .. from |-> <<Abs(n + k - 1), Abs(k - 1)>>]
            erased == {Abs(i) : i \in from .. from + n - 1}
            ring == Swapped(freed, below)
            last == Swapped(ring, above)
<1>1. offset' = off /\ rows' = Erased(last, erased)
  BY DEF TermScrollReversePartial
<1>2. /\ from \in Nat /\ to \in Nat /\ n \in Nat /\ n > 0 /\ from + n <= to /\ to <= ScreenRows
      /\ ScreenRows - to \in Nat
  BY RegionIs
<1>3. /\ NumRows \in Nat /\ ScreenRows \in Nat /\ H \in Nat /\ H + ScreenRows = NumRows
  BY Sizes
<1>4. off \in Rows /\ m \in Int /\ off = Wrap(offset + m)
  <2>1. offset \in Int /\ offset - n \in Int /\ offset + m = offset - n /\ m \in Int
    BY <1>2, Sizes DEF Rows
  <2>. HIDE DEF m
  <2>. QED
    BY <2>1, WrapIs
<1>5. below = Lowers(off, to, n, ScreenRows - to) /\ above = Lowers(off, 0, n, from)
  <2>1. below = Lowers(off, to, n, ScreenRows - to)
    BY DEF Lowers
  <2>2. \A k \in 1 .. from : 0 + n + k - 1 = n + k - 1 /\ 0 + k - 1 = k - 1
    BY <1>2
  <2>3. above = Lowers(off, 0, n, from)
    BY <2>2 DEF Lowers
  <2>. QED
    BY <2>1, <2>3
<1>6. \A i \in Int : Line(rows, off, i) = Line(rows, offset, i - n)
                       /\ Line(freed, off, i) = Line(freed, offset, i - n)
  <2>. SUFFICES ASSUME NEW i \in Int PROVE Line(rows, off, i) = Line(rows, offset, i - n)
                       /\ Line(freed, off, i) = Line(freed, offset, i - n)
    OBVIOUS
  <2>1. i + m = i - n
    BY <1>2
  <2>. HIDE DEF m, off, freed
  <2>. QED
    BY <1>4, <2>1, LineMoves
<1>. HIDE DEF off, above, below
<1>7. /\ freed \in Rings
      /\ \A j \in n .. n + NumRows - 1 : j \notin to .. to + n - 1 => Line(freed, off, j) = Line(rows, off, j)
  <2>. DEFINE z == 0
  <2>1. /\ freed = [r \in Rows |-> IF \E i \in to - n .. to - 1 : r = Wrap(offset + i)
                                   THEN "none" ELSE rows[r]]
        /\ z \in Int /\ to - n \in Int /\ to - 1 \in Int /\ z <= to - n /\ to - 1 < z + NumRows
    BY <1>2, <1>3
  <2>. HIDE DEF freed, z
  <2>2. /\ freed \in Rings
        /\ \A j \in z .. z + NumRows - 1 : j \notin to - n .. to - 1 => Line(freed, offset, j) = Line(rows, offset, j)
    <3>. DEFINE a == to - n
                b == to - 1
    <3>1. /\ freed = [r \in Rows |-> IF \E i \in a .. b : r = Wrap(offset + i) THEN "none" ELSE rows[r]]
          /\ z \in Int /\ a \in Int /\ b \in Int /\ z <= a /\ b < z + NumRows
      BY <2>1
    <3>. HIDE DEF a, b
    <3>2. /\ freed \in Rings
          /\ \A j \in z .. z + NumRows - 1 : j \notin a .. b => Line(freed, offset, j) = Line(rows, offset, j)
      BY <3>1, FreedLines
    <3>. QED
      BY <3>2 DEF a, b
  <2>3. ASSUME NEW j \in n .. n + NumRows - 1, j \notin to .. to + n - 1
        PROVE  Line(freed, off, j) = Line(rows, off, j)
    <3>1. j \in Int /\ j - n \in z .. z + NumRows - 1 /\ j - n \notin to - n .. to - 1
      BY <1>2, <1>3, <2>3 DEF z
    <3>. QED
      BY <1>6, <2>2, <3>1
  <2>. QED
    BY <2>2, <2>3
<1>. HIDE DEF freed
<1>8. ring \in Rings /\ Lowered(freed, ring, off, to, n, ScreenRows - to)
  <2>1. (ScreenRows - to) + n <= NumRows /\ to \in Int
    BY <1>2, <1>3
  <2>. QED
    BY <1>2, <1>4, <1>5, <1>7, <2>1, LowersAll
<1>. HIDE DEF ring
<1>9. last \in Rings /\ Lowered(ring, last, off, 0, n, from)
  <2>1. from + n <= NumRows /\ 0 \in Int
    BY <1>2, <1>3
  <2>. QED
    BY <1>2, <1>4, <1>5, <1>8, <2>1, LowersAll
<1>. HIDE DEF last
<1>10. /\ \A j \in to .. ScreenRows - 1 : Line(ring, off, j) = Line(freed, off, j + n)
       /\ \A j \in ScreenRows + n .. to + NumRows - 1 : Line(ring, off, j) = Line(freed, off, j)
  <2>1. to + (ScreenRows - to) - 1 = ScreenRows - 1 /\ to + (ScreenRows - to) + n = ScreenRows + n
    BY <1>2, <1>3
  <2>. QED
    BY <1>8, <2>1 DEF Lowered
<1>11. /\ \A j \in 0 .. from - 1 : Line(last, off, j) = Line(ring, off, j + n)
       /\ \A j \in from + n .. NumRows - 1 : Line(last, off, j) = Line(ring, off, j)
  <2>1. 0 + from - 1 = from - 1 /\ 0 + from + n = from + n /\ 0 + NumRows - 1 = NumRows - 1
    BY <1>2, <1>3
  <2>. QED
    BY <1>9, <2>1 DEF Lowered
\* The lines of the region's upper part
<1>12. \A j \in n .. to - 1 : Line(ring, off, j) = Line(rows, off, j)
  <2>. SUFFICES ASSUME NEW j \in n .. to - 1 PROVE Line(ring, off, j) = Line(rows, off, j)
    OBVIOUS
  <2>1. /\ j \in Int /\ j + NumRows \in ScreenRows + n .. to + NumRows - 1
        /\ j \in n .. n + NumRows - 1 /\ j \notin to .. to + n - 1
    BY <1>2, <1>3
  <2>. QED
    BY <1>4, <1>7, <1>10, <2>1, LineLaps
<1>13. \A j \in 0 .. NumRows - 1 :
          Line(rows', off, j) = IF j \in from .. from + n - 1 THEN "plain" ELSE Line(last, off, j)
  <2>1. /\ 0 \in Int /\ from \in Int /\ from + n - 1 \in Int /\ 0 <= from /\ from + n - 1 < 0 + NumRows
        /\ 0 + NumRows - 1 = NumRows - 1
    BY <1>2, <1>3
  <2>. HIDE DEF Abs
  <2>2. erased = {Wrap(off + i) : i \in from .. from + n - 1}
    BY DEF Abs
  <2>. HIDE DEF erased
  <2>. QED
    BY <1>1, <1>4, <1>9, <2>1, <2>2, ErasedLines
<1>14. ASSUME NEW j \in n - H .. -1 PROVE Line(rows', off, j) = Line(rows, offset, j - n)
  <2>. DEFINE i == j + NumRows
  <2>1. /\ j \in Int /\ i \in Int
        /\ i \in 0 .. NumRows - 1 /\ i \notin from .. from + n - 1 /\ i \in from + n .. NumRows - 1
        /\ i \in ScreenRows + n .. to + NumRows - 1
        /\ i \in n .. n + NumRows - 1 /\ i \notin to .. to + n - 1
    BY <1>2, <1>3
  <2>. HIDE DEF i
  <2>2. Line(rows', off, i) = Line(rows, off, i)
    BY <1>7, <1>10, <1>11, <1>13, <2>1
  <2>3. Line(rows', off, i) = Line(rows', off, j) /\ Line(rows, off, i) = Line(rows, off, j)
    BY <1>4, <2>1, LineLaps DEF i
  <2>. QED
    BY <1>6, <2>1, <2>2, <2>3
<1>15. ASSUME NEW j \in 0 .. ScreenRows - 1
       PROVE  Line(rows', off, j) =
                IF j < from \/ j >= to THEN Line(rows, offset, j)
                ELSE IF j < from + n THEN "plain" ELSE Line(rows, offset, j - n)
  <2>1. j \in 0 .. NumRows - 1 /\ j \in Int /\ j + n \in Int /\ (j + n) - n = j
    BY <1>2, <1>3
  <2>2. CASE j < from
    <3>1. j \notin from .. from + n - 1 /\ j \in 0 .. from - 1 /\ j + n \in n .. to - 1
      BY <1>2, <2>1, <2>2
    <3>2. Line(rows', off, j) = Line(rows, off, j + n)
      BY <1>11, <1>12, <1>13, <2>1, <3>1
    <3>. QED
      BY <1>6, <2>1, <2>2, <3>2
  <2>3. CASE ~(j < from) /\ j < from + n
    <3>1. j \in from .. from + n - 1 /\ ~(j >= to)
      BY <1>2, <2>1, <2>3
    <3>. QED
      BY <1>13, <2>1, <2>3, <3>1
  <2>4. CASE ~(j < from + n) /\ j < to
    <3>1. /\ j \notin from .. from + n - 1 /\ j \in from + n .. NumRows - 1 /\ j \in n .. to - 1
          /\ ~(j < from) /\ ~(j >= to)
      BY <1>2, <1>3, <2>1, <2>4
    <3>2. Line(rows', off, j) = Line(rows, off, j)
      BY <1>11, <1>12, <1>13, <2>1, <3>1
    <3>. QED
      BY <1>6, <2>1, <2>4, <3>1, <3>2
  <2>5. CASE j >= to
    <3>1. /\ j \notin from .. from + n - 1 /\ j \in from + n .. NumRows - 1 /\ j \in to .. ScreenRows - 1
          /\ j + n \in n .. n + NumRows - 1 /\ j + n \notin to .. to + n - 1
      BY <1>2, <1>3, <2>1, <2>5
    <3>2. Line(rows', off, j) = Line(rows, off, j + n)
      BY <1>7, <1>10, <1>11, <1>13, <2>1, <3>1
    <3>. QED
      BY <1>6, <2>1, <2>5, <3>2
  <2>. QED
    BY <1>2, <2>1, <2>2, <2>3, <2>4, <2>5
<1>. QED
  BY <1>1, <1>14, <1>15

(***************************************************************************)
(* The ring as a history and a screen                                      *)
(***************************************************************************)

\* The history and the screen, as functions of the lines
Past(ring, off, count) == [k \in 1 .. count |-> Line(ring, off, k - 1 - count)]
Present(ring, off) == [i \in 1 .. ScreenRows |-> Line(ring, off, i - 1)]

LEMMA LinesAre ==
    ASSUME NEW ring \in Rings, NEW off \in Rows, NEW count \in Nat
    PROVE  /\ \A i \in Int : Line(ring, off, i) \in Contents
           /\ Past(ring, off, count) \in Seq(Contents) /\ Len(Past(ring, off, count)) = count
           /\ \A k \in 1 .. count : Past(ring, off, count)[k] = Line(ring, off, k - 1 - count)
           /\ Present(ring, off) \in Seq(Contents) /\ Len(Present(ring, off)) = ScreenRows
           /\ \A i \in 1 .. ScreenRows : Present(ring, off)[i] = Line(ring, off, i - 1)
<1>1. \A i \in Int : Line(ring, off, i) \in Contents
  <2>1. \A i \in Int : Wrap(off + i) \in Rows
    <3>1. \A i \in Int : off + i \in Int
      BY Sizes DEF Rows
    <3>. QED
      BY <3>1, WrapIs
  <2>. QED
    BY <2>1 DEF Line, Rings
<1>2. Past(ring, off, count) \in [1 .. count -> Contents]
  <2>1. \A k \in 1 .. count : k - 1 - count \in Int
    OBVIOUS
  <2>. QED
    BY <1>1, <2>1 DEF Past
<1>3. Present(ring, off) \in [1 .. ScreenRows -> Contents]
  <2>1. \A i \in 1 .. ScreenRows : i - 1 \in Int
    OBVIOUS
  <2>. QED
    BY <1>1, <2>1 DEF Present
<1>4. ASSUME NEW m \in Nat, NEW s \in [1 .. m -> Contents] PROVE s \in Seq(Contents) /\ Len(s) = m
  <2>1. s \in Seq(Contents)
    BY SeqDef
  <2>2. DOMAIN s = 1 .. Len(s) /\ Len(s) \in Nat
    BY <2>1, LenProperties
  <2>. QED
    BY <2>1, <2>2
<1>. QED
  BY <1>1, <1>2, <1>3, <1>4, Sizes DEF Past, Present

\* The rows from the scrollback's start on are the history's lines.
LEMMA PastIs ==
    ASSUME NEW ring \in Rings, NEW off \in Rows, NEW f \in 0 .. H, Allocated(ring, off, f),
           NEW s, s = SbToAbs(off, Min({k \in Rows : ring[SbToAbs(off, k)] # "none"}))
    PROVE  /\ Wrap(off - s) = H - f
           /\ \A k \in Int : ring[Wrap(s + k - 1)] = Line(ring, off, k - 1 - (H - f))
<1>1. /\ off \in Int /\ ScreenRows \in Int /\ NumRows \in Int /\ f \in Int /\ f \in Rows /\ H \in Nat
      /\ H - f \in Rows /\ H + ScreenRows = NumRows /\ Rows \subseteq Int
  BY Sizes DEF Rows
<1>. DEFINE K == {k \in Rows : ring[SbToAbs(off, k)] # "none"}
<1>2. \A k \in Rows : k \in K <=> k >= f
  BY <1>1, RowAt DEF Allocated
<1>3. K \subseteq Rows /\ f \in K
  BY <1>1, <1>2
<1>4. s = SbToAbs(off, Min(K))
  OBVIOUS
<1>. HIDE DEF K
<1>5. Min(K) = f
  <2>1. Min(K) \in K /\ Min(K) <= f
    BY <1>3, MinIs
  <2>2. Min(K) \in Int /\ Min(K) >= f
    BY <1>1, <1>2, <1>3, <2>1
  <2>. QED
    BY <1>1, <2>1, <2>2
<1>6. s = Wrap(f + off + ScreenRows) /\ f + off + ScreenRows \in Int
  BY <1>1, <1>4, <1>5 DEF SbToAbs
<1>. DEFINE a == f + off + ScreenRows
<1>7. Wrap(off - s) = H - f
  <2>1. Wrap(off - Wrap(a)) = Wrap(off - a)
    BY <1>1, <1>6, WrapAdd
  <2>2. off - a = NumRows * (-1) + (H - f) /\ -1 \in Int /\ H - f \in Int
    BY <1>1, SMT
  <2>. HIDE DEF a
  <2>3. Wrap(NumRows * (-1) + (H - f)) = H - f
    BY <1>1, <2>2, WrapUnique
  <2>. QED
    BY <1>6, <2>1, <2>2, <2>3 DEF a
<1>8. ASSUME NEW k \in Int PROVE Wrap(s + k - 1) = Wrap(off + (k - 1 - (H - f)))
  <2>. DEFINE b == off + (k - 1 - (H - f))
  <2>1. /\ k - 1 \in Int /\ b \in Int
        /\ a + (k - 1) = NumRows * 1 + b /\ 1 \in Int
    BY <1>1, SMT
  <2>2. Wrap(Wrap(a) + (k - 1)) = Wrap(a + (k - 1))
    BY <1>6, <2>1, WrapAdd
  <2>. HIDE DEF b
  <2>3. Wrap(a + (k - 1)) = Wrap(b)
    BY <2>1, WrapLaps
  <2>. HIDE DEF a
  <2>4. s + k - 1 = s + (k - 1)
    <3>1. s \in Int
      BY <1>1, <1>6, WrapIs
    <3>. QED
      BY <3>1
  <2>. QED
    BY <1>6, <2>2, <2>3, <2>4 DEF a, b
<1>. QED
  BY <1>7, <1>8 DEF Line

\* What the mapping is, before a step and after it
LEMMA MappingIs ==
    ASSUME rows \in Rings, offset \in Rows, NEW f \in 0 .. H, Allocated(rows, offset, f)
    PROVE  LogHistory = Past(rows, offset, H - f) /\ LogScreen = Present(rows, offset)
<1>1. SbStart = SbToAbs(offset, Min({k \in Rows : rows[SbToAbs(offset, k)] # "none"}))
  BY DEF SbStart
<1>. DEFINE s == SbStart
<1>2. s = SbToAbs(offset, Min({k \in Rows : rows[SbToAbs(offset, k)] # "none"}))
  BY <1>1
<1>. HIDE DEF s
<1>3. Wrap(offset - s) = H - f /\ \A k \in Int : rows[Wrap(s + k - 1)] = Line(rows, offset, k - 1 - (H - f))
  BY <1>2, PastIs
<1>4. \A i \in Int : offset + i - 1 = offset + (i - 1)
  BY Sizes DEF Rows
<1>5. LogHistory = [k \in 1 .. Wrap(offset - s) |-> rows[Wrap(s + k - 1)]]
  BY DEF LogHistory, FromSbStart, s
<1>. QED
  BY <1>3, <1>4, <1>5 DEF LogScreen, Past, Present, Line

LEMMA MappingBecomes ==
    ASSUME rows' \in Rings, offset' \in Rows, NEW f \in 0 .. H, Allocated(rows', offset', f)
    PROVE  LogHistory' = Past(rows', offset', H - f) /\ LogScreen' = Present(rows', offset')
<1>. DEFINE s == SbStart'
<1>1. s = SbToAbs(offset', Min({k \in Rows : rows'[SbToAbs(offset', k)] # "none"}))
  BY DEF SbStart, Rows, SbToAbs, Wrap
<1>. HIDE DEF s
<1>2. Wrap(offset' - s) = H - f /\ \A k \in Int : rows'[Wrap(s + k - 1)] = Line(rows', offset', k - 1 - (H - f))
  BY <1>1, PastIs
<1>3. \A i \in Int : offset' + i - 1 = offset' + (i - 1)
  BY Sizes DEF Rows
<1>4. LogHistory' = [k \in 1 .. Wrap(offset' - s) |-> rows'[Wrap(s + k - 1)]]
  BY DEF LogHistory, FromSbStart, Wrap, s
<1>5. LogScreen' = [i \in 1 .. ScreenRows |-> rows'[Wrap(offset' + i - 1)]]
  BY DEF LogScreen, Wrap
<1>. QED
  BY <1>2, <1>3, <1>4, <1>5 DEF Past, Present, Line

\* ScreenLog's operations on sequences, element by element
LEMMA PieceIs ==
    ASSUME NEW S, NEW s \in Seq(S), NEW a \in Int, NEW b \in Int, a >= 1, b <= Len(s), b >= a - 1
    PROVE  /\ SubSeq(s, a, b) \in Seq(S) /\ Len(SubSeq(s, a, b)) = b - a + 1
           /\ \A i \in 1 .. b - a + 1 : SubSeq(s, a, b)[i] = s[a + i - 1]
<1>1. Len(s) \in Nat
  BY LenProperties
<1>2. \A i \in a .. b : s[i] \in S
  <2>1. \A i \in a .. b : i \in 1 .. Len(s)
    BY <1>1
  <2>. QED
    BY <2>1, ElementOfSeq
<1>3. /\ SubSeq(s, a, b) \in Seq(S) /\ Len(SubSeq(s, a, b)) = IF a <= b THEN b - a + 1 ELSE 0
      /\ \A i \in 1 .. b - a + 1 : SubSeq(s, a, b)[i] = s[a + i - 1]
  BY <1>2, SubSeqProperties
<1>4. (IF a <= b THEN b - a + 1 ELSE 0) = b - a + 1
  OBVIOUS
<1>. QED
  BY <1>3, <1>4

LEMMA BlankIs ==
    ASSUME NEW n \in Nat
    PROVE  Log!Blank(n) \in Seq(Contents) /\ Len(Log!Blank(n)) = n /\ \A i \in 1 .. n : Log!Blank(n)[i] = "plain"
<1>1. Log!Blank(n) \in [1 .. n -> Contents] /\ \A i \in 1 .. n : Log!Blank(n)[i] = "plain"
  BY DEF Log!Blank, Contents
<1>2. Log!Blank(n) \in Seq(Contents)
  BY <1>1, SeqDef
<1>3. DOMAIN Log!Blank(n) = 1 .. Len(Log!Blank(n)) /\ Len(Log!Blank(n)) \in Nat
  BY <1>2, LenProperties
<1>. QED
  BY <1>1, <1>2, <1>3

\* Pieces of a sequence, and four sequences in a row
Piece(s, a, b) == SubSeq(s, a, b)
Joined(p, q, r, u) == p \o q \o r \o u

LEMMA PiecesAre ==
    ASSUME NEW s \in Seq(Contents), Len(s) = ScreenRows,
           NEW a \in Int, NEW b \in Int, a >= 1, b <= ScreenRows, b >= a - 1
    PROVE  /\ Piece(s, a, b) \in Seq(Contents) /\ Len(Piece(s, a, b)) = b - a + 1
           /\ \A i \in 1 .. b - a + 1 : Piece(s, a, b)[i] = s[a + i - 1]
  BY PieceIs DEF Piece

\* History h of count lines after n lines of screen s, and without its first e
Grown(t, h, s, count, from, n, e) ==
    \A k \in 1 .. count + n - e : t[k] = IF k + e <= count THEN h[k + e] ELSE s[from + k + e - count]

LEMMA HistoryGrows ==
    ASSUME NEW h \in Seq(Contents), NEW s \in Seq(Contents), Len(s) = ScreenRows,
           NEW count \in Nat, Len(h) = count, count <= H,
           NEW from, NEW to, NEW n, Regions(from, to, n),
           NEW e \in Nat, e = IF count + n > H THEN count + n - H ELSE 0,
           NEW t \in Seq(Contents), Len(t) = count + n - e, Grown(t, h, s, count, from, n, e),
           NEW a, a = from + 1
    PROVE  t = Log!LastLines(h \o Piece(s, a, a + n - 1))
<1>. DEFINE b == a + n - 1
            p == Piece(s, a, b)
            c == h \o p
            all == count + n
            d == e + 1
            r == SubSeq(c, d, all)
<1>1. /\ from \in Nat /\ to \in Nat /\ n \in Nat /\ n > 0 /\ from + n <= to /\ to <= ScreenRows
      /\ ScreenRows \in Nat /\ H \in Nat /\ count \in Nat /\ all \in Nat
  <2>1. /\ from \in Nat /\ to \in Nat /\ n \in Nat /\ n > 0 /\ from + n <= to /\ to <= ScreenRows
    BY RegionIs
  <2>2. ScreenRows \in Nat /\ H \in Nat
    BY Sizes
  <2>. QED
    BY <2>1, <2>2
<1>2. /\ a \in Int /\ b \in Int /\ a >= 1 /\ b <= ScreenRows /\ b >= a - 1
      /\ b - a + 1 = n /\ \A i \in 1 .. n : a + i - 1 = from + i
  BY <1>1
<1>3. /\ d \in Int /\ d >= 1 /\ all >= d - 1
      /\ all - d + 1 = count + n - e /\ \A i \in Int : d + i - 1 = i + e
  BY <1>1
<1>. HIDE DEF b, d
<1>4. p \in Seq(Contents) /\ Len(p) = n /\ \A i \in 1 .. n : p[i] = s[from + i]
  <2>1. /\ p \in Seq(Contents) /\ Len(p) = b - a + 1
        /\ \A i \in 1 .. b - a + 1 : p[i] = s[a + i - 1]
    BY <1>2, PiecesAre
  <2>. HIDE DEF p
  <2>. QED
    BY <1>2, <2>1
<1>. HIDE DEF p
<1>5. /\ c \in Seq(Contents) /\ Len(c) = all
      /\ \A i \in 1 .. all : c[i] = IF i <= count THEN h[i] ELSE p[i - count]
  <2>1. /\ c \in Seq(Contents) /\ Len(c) = Len(h) + Len(p)
        /\ \A i \in 1 .. Len(h) + Len(p) : c[i] = IF i <= Len(h) THEN h[i] ELSE p[i - Len(h)]
    BY <1>4, ConcatProperties
  <2>. HIDE DEF c
  <2>. QED
    BY <1>4, <2>1
<1>. HIDE DEF c
<1>6. /\ r \in Seq(Contents) /\ Len(r) = count + n - e
      /\ \A i \in 1 .. count + n - e : r[i] = c[i + e]
  <2>1. all \in Int /\ all <= all
    BY <1>1
  <2>. HIDE DEF all
  <2>0. c \in Seq(Contents) /\ d \in Int /\ all \in Int /\ d >= 1 /\ all <= Len(c) /\ all >= d - 1
    BY <1>3, <1>5, <2>1
  <2>2. /\ r \in Seq(Contents) /\ Len(r) = all - d + 1
        /\ \A i \in 1 .. all - d + 1 : r[i] = c[d + i - 1]
    BY <2>0, PieceIs
  <2>3. \A i \in 1 .. all - d + 1 : i \in Int
    OBVIOUS
  <2>. HIDE DEF r
  <2>. QED
    BY <1>3, <2>2, <2>3
<1>. HIDE DEF r
<1>7. Log!LastLines(c) = r
  <2>1. Log!Rest(all, HistoryRows) = e
    BY <1>1 DEF Log!Rest, HistoryRows, H
  <2>. QED
    BY <1>5, <2>1 DEF Log!LastLines, r, d
<1>8. ASSUME NEW k \in 1 .. count + n - e PROVE t[k] = r[k]
  <2>. DEFINE i == k + e
  <2>1. k \in Int /\ i \in 1 .. all /\ i \in Int /\ from + i - count = from + k + e - count
    BY <1>1
  <2>2. t[k] = IF i <= count THEN h[i] ELSE s[from + i - count]
    BY <2>1 DEF Grown
  <2>3. r[k] = c[i]
    BY <1>6
  <2>. HIDE DEF i
  <2>4. CASE i <= count
    BY <1>5, <2>1, <2>2, <2>3, <2>4
  <2>5. CASE ~(i <= count)
    <3>1. i - count \in 1 .. n /\ from + (i - count) = from + i - count
      BY <1>1, <2>1, <2>5
    <3>2. c[i] = p[i - count]
      BY <1>5, <2>1, <2>5
    <3>. QED
      BY <1>4, <2>2, <2>3, <2>5, <3>1, <3>2
  <2>. QED
    BY <2>4, <2>5
<1>9. t = r
  BY <1>6, <1>8, SeqEqual
<1>. QED
  BY <1>7, <1>9 DEF c, p, b

LEMMA HistoryShrinks ==
    ASSUME NEW h \in Seq(Contents), NEW count \in Nat, Len(h) = count, NEW n \in Nat,
           NEW rest \in Nat, rest = IF count > n THEN count - n ELSE 0,
           NEW t \in Seq(Contents), Len(t) = rest, \A k \in 1 .. rest : t[k] = h[k]
    PROVE  t = SubSeq(h, 1, Log!Rest(Len(h), n))
<1>1. Log!Rest(Len(h), n) = rest
  BY DEF Log!Rest
<1>. DEFINE one == 1
            r == SubSeq(h, one, rest)
<1>2. /\ one \in Int /\ rest \in Int /\ one >= 1 /\ rest <= Len(h) /\ rest >= one - 1
      /\ rest - one + 1 = rest /\ \A k \in 1 .. rest : one + k - 1 = k
  OBVIOUS
<1>. HIDE DEF one
<1>3. r \in Seq(Contents) /\ Len(r) = rest /\ \A k \in 1 .. rest : r[k] = h[k]
  BY <1>2, PieceIs
<1>. HIDE DEF r
<1>4. t = r
  BY <1>3, SeqEqual
<1>. QED
  BY <1>1, <1>4 DEF r, one

\* Sequence t has the elements of p after its first k.
Has(t, k, p) == \A i \in 1 .. Len(p) : t[k + i] = p[i]

LEMMA TwoAre ==
    ASSUME NEW S, NEW p \in Seq(S), NEW q \in Seq(S)
    PROVE  /\ p \o q \in Seq(S) /\ Len(p \o q) = Len(p) + Len(q)
           /\ Has(p \o q, 0, p) /\ Has(p \o q, Len(p), q)
<1>. DEFINE u == p \o q
            a == Len(p)
            b == Len(q)
<1>1. /\ u \in Seq(S) /\ Len(u) = a + b
      /\ \A i \in 1 .. a + b : u[i] = IF i <= a THEN p[i] ELSE q[i - a]
  BY ConcatProperties
<1>2. a \in Nat /\ b \in Nat
  BY LenProperties
<1>. HIDE DEF u, a, b
<1>3. /\ \A i \in 1 .. a : 0 + i = i /\ i \in 1 .. a + b /\ i <= a
      /\ \A i \in 1 .. b : a + i \in 1 .. a + b /\ ~(a + i <= a) /\ (a + i) - a = i
  BY <1>2
<1>4. \A i \in 1 .. a : u[0 + i] = p[i]
  BY <1>1, <1>3
<1>5. \A i \in 1 .. b : u[a + i] = q[i]
  BY <1>1, <1>3
<1>. QED
  BY <1>1, <1>4, <1>5 DEF u, a, b, Has

\* What has the elements of two sequences, one after the other, is the one and the other.
LEMMA JoinIs ==
    ASSUME NEW S, NEW p \in Seq(S), NEW q \in Seq(S), NEW t \in Seq(S), Len(t) = Len(p) + Len(q),
           Has(t, 0, p), Has(t, Len(p), q)
    PROVE  t = p \o q
<1>. DEFINE u == p \o q
            a == Len(p)
            b == Len(q)
<1>1. u \in Seq(S) /\ Len(u) = a + b /\ Has(u, 0, p) /\ Has(u, a, q)
  BY TwoAre
<1>2. a \in Nat /\ b \in Nat
  BY LenProperties
<1>. HIDE DEF u
<1>3. /\ \A i \in 1 .. a : u[0 + i] = t[0 + i]
      /\ \A i \in 1 .. b : u[a + i] = t[a + i]
  BY <1>1 DEF Has
<1>. HIDE DEF a, b
<1>4. ASSUME NEW i \in 1 .. a + b PROVE t[i] = u[i]
  <2>1. CASE i <= a
    <3>1. i \in 1 .. a /\ 0 + i = i
      BY <1>2, <2>1
    <3>. QED
      BY <1>3, <3>1
  <2>2. CASE ~(i <= a)
    <3>1. i - a \in 1 .. b /\ a + (i - a) = i
      BY <1>2, <2>2
    <3>. QED
      BY <1>3, <3>1
  <2>. QED
    BY <2>1, <2>2
<1>5. Len(t) = a + b
  BY DEF a, b
<1>6. t = u
  BY <1>1, <1>4, <1>5, SeqEqual
<1>. QED
  BY <1>6 DEF u

LEMMA HasTwo ==
    ASSUME NEW S, NEW p \in Seq(S), NEW q \in Seq(S), NEW t, NEW k \in Nat,
           Has(t, k, p), Has(t, k + Len(p), q)
    PROVE  Has(t, k, p \o q)
<1>. DEFINE u == p \o q
            a == Len(p)
            b == Len(q)
<1>1. u \in Seq(S) /\ Len(u) = a + b /\ Has(u, 0, p) /\ Has(u, a, q)
  BY TwoAre
<1>2. a \in Nat /\ b \in Nat
  BY LenProperties
<1>. HIDE DEF u
<1>3. /\ \A i \in 1 .. a : u[0 + i] = t[k + i]
      /\ \A i \in 1 .. b : u[a + i] = t[k + a + i]
  BY <1>1 DEF Has
<1>. HIDE DEF a, b
<1>4. ASSUME NEW i \in 1 .. a + b PROVE t[k + i] = u[i]
  <2>1. CASE i <= a
    <3>1. i \in 1 .. a /\ 0 + i = i
      BY <1>2, <2>1
    <3>. QED
      BY <1>3, <3>1
  <2>2. CASE ~(i <= a)
    <3>1. i - a \in 1 .. b /\ a + (i - a) = i /\ k + a + (i - a) = k + i
      BY <1>2, <2>2
    <3>. QED
      BY <1>3, <3>1
  <2>. QED
    BY <2>1, <2>2
<1>. QED
  BY <1>1, <1>4 DEF u, Has

LEMMA FourAre ==
    ASSUME NEW S, NEW p \in Seq(S), NEW q \in Seq(S), NEW r \in Seq(S), NEW s \in Seq(S),
           NEW t \in Seq(S), Len(t) = Len(p) + Len(q) + Len(r) + Len(s),
           Has(t, 0, p), Has(t, Len(p), q), Has(t, Len(p) + Len(q), r), Has(t, Len(p) + Len(q) + Len(r), s)
    PROVE  t = p \o q \o r \o s
<1>. DEFINE u == p \o q
            v == u \o r
            a == Len(p)
            b == Len(q)
            c == Len(r)
            d == Len(s)
<1>1. a \in Nat /\ b \in Nat /\ c \in Nat /\ d \in Nat
  BY LenProperties
<1>2. u \in Seq(S) /\ Len(u) = a + b
  BY TwoAre
<1>3. Has(t, 0, u)
  <2>1. 0 + a = a /\ 0 \in Nat
    BY <1>1
  <2>. QED
    BY <2>1, HasTwo
<1>. HIDE DEF u
<1>4. v \in Seq(S) /\ Len(v) = a + b + c
  <2>1. v \in Seq(S) /\ Len(v) = Len(u) + Len(r)
    BY <1>2, TwoAre
  <2>. HIDE DEF v
  <2>. QED
    BY <1>2, <2>1
<1>5. Has(t, 0, v)
  <2>1. 0 + (a + b) = a + b /\ 0 \in Nat
    BY <1>1
  <2>2. Has(t, 0 + Len(u), r)
    BY <1>2, <2>1
  <2>. QED
    BY <1>2, <1>3, <2>1, <2>2, HasTwo
<1>. HIDE DEF v
<1>6. Len(t) = Len(v) + Len(s) /\ Has(t, Len(v), s)
  BY <1>4
<1>7. t = v \o s
  BY <1>4, <1>5, <1>6, JoinIs
<1>. QED
  BY <1>7 DEF v, u

\* The screen after a region has scrolled up, and down
ScrolledUp(t, s, from, to, n) ==
    \A i \in 1 .. ScreenRows :
       t[i] = IF i <= from \/ i > to THEN s[i] ELSE IF i <= to - n THEN s[i + n] ELSE "plain"

ScrolledDown(t, s, from, to, n) ==
    \A i \in 1 .. ScreenRows :
       t[i] = IF i <= from \/ i > to THEN s[i] ELSE IF i <= from + n THEN "plain" ELSE s[i - n]

LEMMA ScreenUp ==
    ASSUME NEW s \in Seq(Contents), Len(s) = ScreenRows, NEW t \in Seq(Contents), Len(t) = ScreenRows,
           NEW from, NEW to, NEW n, Regions(from, to, n), ScrolledUp(t, s, from, to, n),
           NEW a, NEW b, a = from + 1, b = to + 1
    PROVE  t = Joined(Piece(s, 1, a - 1), Piece(s, a + n, b - 1), Log!Blank(n), Piece(s, b, ScreenRows))
<1>1. from \in Nat /\ to \in Nat /\ n \in Nat /\ n > 0 /\ from + n <= to /\ to <= ScreenRows
  BY RegionIs
<1>2. ScreenRows \in Nat
  BY Sizes
<1>. DEFINE a1 == 1
            b1 == a - 1
            a2 == a + n
            b2 == b - 1
            a4 == b
            p == Piece(s, a1, b1)
            q == Piece(s, a2, b2)
            r == Log!Blank(n)
            u == Piece(s, a4, ScreenRows)
            l2 == to - n - from
            l4 == ScreenRows - to
<1>3. /\ a1 \in Int /\ b1 \in Int /\ a1 >= 1 /\ b1 <= ScreenRows /\ b1 >= a1 - 1 /\ b1 - a1 + 1 = from
      /\ \A i \in 1 .. from : a1 + i - 1 = i
  BY <1>1, <1>2
<1>4. /\ a2 \in Int /\ b2 \in Int /\ a2 >= 1 /\ b2 <= ScreenRows /\ b2 >= a2 - 1 /\ b2 - a2 + 1 = l2
      /\ \A i \in 1 .. l2 : a2 + i - 1 = from + i + n
  BY <1>1, <1>2
<1>5. /\ a4 \in Int /\ ScreenRows \in Int /\ a4 >= 1 /\ ScreenRows <= ScreenRows /\ ScreenRows >= a4 - 1
      /\ ScreenRows - a4 + 1 = l4
      /\ \A i \in 1 .. l4 : a4 + i - 1 = to + i
  BY <1>1, <1>2
<1>6. l2 \in Nat /\ l4 \in Nat /\ from + l2 + n + l4 = ScreenRows
  BY <1>1, <1>2
<1>. HIDE DEF a1, b1, a2, b2, a4
<1>7. p \in Seq(Contents) /\ Len(p) = from /\ \A i \in 1 .. from : p[i] = s[i]
  <2>1. /\ p \in Seq(Contents) /\ Len(p) = b1 - a1 + 1
        /\ \A i \in 1 .. b1 - a1 + 1 : p[i] = s[a1 + i - 1]
    BY <1>3, PiecesAre
  <2>. HIDE DEF p
  <2>. QED
    BY <1>3, <2>1
<1>8. q \in Seq(Contents) /\ Len(q) = l2 /\ \A i \in 1 .. l2 : q[i] = s[from + i + n]
  <2>. HIDE DEF l2
  <2>. QED
    BY <1>4, PiecesAre
<1>9. u \in Seq(Contents) /\ Len(u) = l4 /\ \A i \in 1 .. l4 : u[i] = s[to + i]
  <2>. HIDE DEF l4
  <2>1. /\ u \in Seq(Contents) /\ Len(u) = ScreenRows - a4 + 1
        /\ \A i \in 1 .. ScreenRows - a4 + 1 : u[i] = s[a4 + i - 1]
    BY <1>5, PiecesAre
  <2>. HIDE DEF u
  <2>. QED
    BY <1>5, <2>1
<1>10. r \in Seq(Contents) /\ Len(r) = n /\ \A i \in 1 .. n : r[i] = "plain"
  BY <1>1, BlankIs
<1>. HIDE DEF p, q, r, u
<1>11. Has(t, 0, p)
  <2>1. \A i \in 1 .. from : 0 + i = i /\ i \in 1 .. ScreenRows /\ i <= from
    BY <1>1, <1>2
  <2>. QED
    BY <1>7, <2>1 DEF ScrolledUp, Has
<1>12. Has(t, from, q)
  <2>1. \A i \in 1 .. l2 : /\ from + i \in 1 .. ScreenRows /\ ~(from + i <= from) /\ ~(from + i > to)
                           /\ from + i <= to - n
    BY <1>1, <1>2
  <2>2. \A i \in 1 .. l2 : t[from + i] = s[from + i + n]
    BY <2>1 DEF ScrolledUp
  <2>. QED
    BY <1>8, <2>2 DEF Has
<1>13. Has(t, from + l2, r)
  <2>1. \A i \in 1 .. n : /\ from + l2 + i \in 1 .. ScreenRows /\ ~(from + l2 + i <= from)
                          /\ ~(from + l2 + i > to) /\ ~(from + l2 + i <= to - n)
    BY <1>1, <1>2
  <2>2. \A i \in 1 .. n : t[from + l2 + i] = "plain"
    BY <2>1 DEF ScrolledUp
  <2>. QED
    BY <1>10, <2>2 DEF Has
<1>14. Has(t, from + l2 + n, u)
  <2>1. \A i \in 1 .. l4 : /\ from + l2 + n + i \in 1 .. ScreenRows /\ from + l2 + n + i > to
                           /\ from + l2 + n + i = to + i
    BY <1>1, <1>2
  <2>2. \A i \in 1 .. l4 : t[from + l2 + n + i] = s[to + i]
    BY <2>1 DEF ScrolledUp
  <2>. QED
    BY <1>9, <2>2 DEF Has
<1>15. Len(t) = from + l2 + n + l4
  BY <1>6
<1>. HIDE DEF l2, l4
<1>16. t = p \o q \o r \o u
  BY <1>1, <1>6, <1>7, <1>8, <1>9, <1>10, <1>11, <1>12, <1>13, <1>14, <1>15, FourAre
<1>. QED
  BY <1>16 DEF Joined, p, q, r, u, a1, b1, a2, b2, a4

LEMMA ScreenDown ==
    ASSUME NEW s \in Seq(Contents), Len(s) = ScreenRows, NEW t \in Seq(Contents), Len(t) = ScreenRows,
           NEW from, NEW to, NEW n, Regions(from, to, n), ScrolledDown(t, s, from, to, n),
           NEW a, NEW b, a = from + 1, b = to + 1
    PROVE  t = Joined(Piece(s, 1, a - 1), Log!Blank(n), Piece(s, a, b - n - 1), Piece(s, b, ScreenRows))
<1>1. from \in Nat /\ to \in Nat /\ n \in Nat /\ n > 0 /\ from + n <= to /\ to <= ScreenRows
  BY RegionIs
<1>2. ScreenRows \in Nat
  BY Sizes
<1>. DEFINE a1 == 1
            b1 == a - 1
            a3 == a
            b3 == b - n - 1
            a4 == b
            p == Piece(s, a1, b1)
            q == Log!Blank(n)
            r == Piece(s, a3, b3)
            u == Piece(s, a4, ScreenRows)
            l3 == to - n - from
            l4 == ScreenRows - to
<1>3. /\ a1 \in Int /\ b1 \in Int /\ a1 >= 1 /\ b1 <= ScreenRows /\ b1 >= a1 - 1 /\ b1 - a1 + 1 = from
      /\ \A i \in 1 .. from : a1 + i - 1 = i
  BY <1>1, <1>2
<1>4. /\ a3 \in Int /\ b3 \in Int /\ a3 >= 1 /\ b3 <= ScreenRows /\ b3 >= a3 - 1 /\ b3 - a3 + 1 = l3
      /\ \A i \in 1 .. l3 : a3 + i - 1 = from + i
  BY <1>1, <1>2
<1>5. /\ a4 \in Int /\ ScreenRows \in Int /\ a4 >= 1 /\ ScreenRows <= ScreenRows /\ ScreenRows >= a4 - 1
      /\ ScreenRows - a4 + 1 = l4
      /\ \A i \in 1 .. l4 : a4 + i - 1 = to + i
  BY <1>1, <1>2
<1>6. l3 \in Nat /\ l4 \in Nat /\ from + n + l3 + l4 = ScreenRows
  BY <1>1, <1>2
<1>. HIDE DEF a1, b1, a3, b3, a4
<1>7. p \in Seq(Contents) /\ Len(p) = from /\ \A i \in 1 .. from : p[i] = s[i]
  <2>1. /\ p \in Seq(Contents) /\ Len(p) = b1 - a1 + 1
        /\ \A i \in 1 .. b1 - a1 + 1 : p[i] = s[a1 + i - 1]
    BY <1>3, PiecesAre
  <2>. HIDE DEF p
  <2>. QED
    BY <1>3, <2>1
<1>8. r \in Seq(Contents) /\ Len(r) = l3 /\ \A i \in 1 .. l3 : r[i] = s[from + i]
  <2>. HIDE DEF l3
  <2>1. /\ r \in Seq(Contents) /\ Len(r) = b3 - a3 + 1
        /\ \A i \in 1 .. b3 - a3 + 1 : r[i] = s[a3 + i - 1]
    BY <1>4, PiecesAre
  <2>. HIDE DEF r
  <2>. QED
    BY <1>4, <2>1
<1>9. u \in Seq(Contents) /\ Len(u) = l4 /\ \A i \in 1 .. l4 : u[i] = s[to + i]
  <2>. HIDE DEF l4
  <2>1. /\ u \in Seq(Contents) /\ Len(u) = ScreenRows - a4 + 1
        /\ \A i \in 1 .. ScreenRows - a4 + 1 : u[i] = s[a4 + i - 1]
    BY <1>5, PiecesAre
  <2>. HIDE DEF u
  <2>. QED
    BY <1>5, <2>1
<1>10. q \in Seq(Contents) /\ Len(q) = n /\ \A i \in 1 .. n : q[i] = "plain"
  BY <1>1, BlankIs
<1>. HIDE DEF p, q, r, u
<1>11. Has(t, 0, p)
  <2>1. \A i \in 1 .. from : 0 + i = i /\ i \in 1 .. ScreenRows /\ i <= from
    BY <1>1, <1>2
  <2>. QED
    BY <1>7, <2>1 DEF ScrolledDown, Has
<1>12. Has(t, from, q)
  <2>1. \A i \in 1 .. n : /\ from + i \in 1 .. ScreenRows /\ ~(from + i <= from) /\ ~(from + i > to)
                          /\ from + i <= from + n
    BY <1>1, <1>2
  <2>2. \A i \in 1 .. n : t[from + i] = "plain"
    BY <2>1 DEF ScrolledDown
  <2>. QED
    BY <1>10, <2>2 DEF Has
<1>13. Has(t, from + n, r)
  <2>1. \A i \in 1 .. l3 : /\ from + n + i \in 1 .. ScreenRows /\ ~(from + n + i <= from)
                           /\ ~(from + n + i > to) /\ ~(from + n + i <= from + n)
                           /\ from + n + i - n = from + i
    BY <1>1, <1>2
  <2>2. ASSUME NEW i \in 1 .. l3 PROVE t[from + n + i] = s[from + i]
    <3>. DEFINE j == from + n + i
    <3>1. j \in 1 .. ScreenRows /\ ~(j <= from) /\ ~(j > to) /\ ~(j <= from + n) /\ j - n = from + i
      BY <1>1, <1>2, <2>1
    <3>. HIDE DEF j
    <3>2. t[j] = s[j - n]
      BY <3>1 DEF ScrolledDown
    <3>. QED
      BY <3>1, <3>2 DEF j
  <2>. QED
    BY <1>8, <2>2 DEF Has
<1>14. Has(t, from + n + l3, u)
  <2>1. \A i \in 1 .. l4 : /\ from + n + l3 + i \in 1 .. ScreenRows /\ from + n + l3 + i > to
                           /\ from + n + l3 + i = to + i
    BY <1>1, <1>2
  <2>2. \A i \in 1 .. l4 : t[from + n + l3 + i] = s[to + i]
    BY <2>1 DEF ScrolledDown
  <2>. QED
    BY <1>9, <2>2 DEF Has
<1>15. Len(t) = from + n + l3 + l4
  BY <1>6
<1>. HIDE DEF l3, l4
<1>16. t = p \o q \o r \o u
  BY <1>1, <1>6, <1>7, <1>8, <1>9, <1>10, <1>11, <1>12, <1>13, <1>14, <1>15, FourAre
<1>. QED
  BY <1>16 DEF Joined, p, q, r, u, a1, b1, a3, b3, a4

(***************************************************************************)
(* Every step is one of ScreenLog                                          *)
(***************************************************************************)

\* How far the view is scrolled back
LEMMA BackIs ==
    ASSUME NEW off \in Rows, NEW v \in Rows, AbsToSb(off, v) \in 0 .. H
    PROVE  Wrap(off - v) = H - AbsToSb(off, v) /\ (v = off <=> AbsToSb(off, v) = H)
<1>. DEFINE d == AbsToSb(off, v)
<1>1. d \in 0 .. H /\ Wrap(off - v) = Wrap(H - d) /\ AbsToSb(off, off) = H
  BY PlacesAre
<1>2. off \in Int /\ (v = off <=> d = H)
  <2>1. off \in Int
    BY Sizes DEF Rows
  <2>. QED
    BY <1>1, <2>1, PlaceOfOne
<1>. HIDE DEF d
<1>3. H - d \in Rows /\ H - d \in Int
  BY <1>1, Sizes DEF Rows
<1>. QED
  BY <1>1, <1>2, <1>3, WrapNear DEF d

\* term_scroll_partial() leaves a view that is scrolled back where it is, unless that is
\* scrolled out, and one at the screen follows.
LEMMA BackUp ==
    ASSUME Types, NEW f \in 0 .. H, StartsAt(f), WithoutDefects, WithoutLoss,
           NEW from, NEW to, NEW n, Regions(from, to, n), TermScrollPartial(from, to, n),
           NEW back, back = Wrap(offset - view), NEW new, new = Wrap(offset' - view'),
           NEW count, count = H - Greatest(f - n, 0)
    PROVE  new = IF back = 0 THEN 0 ELSE IF back + n < count THEN back + n ELSE count
<1>. DEFINE off == Wrap(offset + n)
            g == Greatest(f - n, 0)
            d == AbsToSb(offset, view)
<1>1. /\ n \in Nat /\ n > 0 /\ n <= ScreenRows /\ n \in Int
      /\ NumRows \in Nat /\ ScreenRows \in Nat /\ H + ScreenRows = NumRows /\ H \in Nat /\ H < NumRows
      /\ Rows = 0 .. NumRows - 1 /\ Rows \subseteq Int /\ f \in Int
  BY RegionIs, Sizes DEF Rows
<1>2. offset \in Rows /\ view \in Rows
  BY DEF Types
<1>3. d \in f .. H /\ d \in 0 .. H
  BY <1>1 DEF StartsAt
<1>4. offset' = off /\ off \in Rows
  <2>1. offset + n \in Int
    BY <1>1, <1>2
  <2>. QED
    BY <2>1, WrapIs DEF TermScrollPartial
<1>5. back = H - d /\ (view = offset <=> d = H)
  BY <1>2, <1>3, BackIs
<1>6. g \in 0 .. H /\ g \in Int /\ (d >= n => d - n >= g) /\ (d < n => g = 0) /\ count = H - g
  BY <1>1, <1>3 DEF Greatest
<1>7. AbsToSb(off, view) = Wrap(d - n) /\ AbsToSb(off, off) = H
  <2>1. offset \in Int /\ view \in Int
    BY <1>1, <1>2
  <2>2. AbsToSb(off, view) = Wrap(d - n)
    BY <1>1, <2>1, PlaceIs
  <2>. QED
    BY <1>4, <2>2, PlacesAre, Sizes
<1>8. CASE view = offset
  <2>1. view' = off
    BY <1>8 DEF TermScrollPartial
  <2>2. AbsToSb(off, off) \in 0 .. H
    BY <1>1, <1>7
  <2>3. new = H - H
    BY <1>4, <1>7, <2>1, <2>2, BackIs
  <2>. QED
    BY <1>1, <1>5, <1>8, <2>3
<1>9. CASE view # offset /\ ~(n > d)
  <2>1. view' = view
    BY <1>9 DEF TermScrollPartial
  <2>. HIDE DEF g, d, off
  <2>2. d - n \in Rows /\ d - n \in Int /\ d - n >= g /\ d - n <= H /\ d - n \in 0 .. H
    BY <1>1, <1>3, <1>6, <1>9
  <2>3. AbsToSb(off, view) = d - n
    BY <1>7, <2>2, WrapNear
  <2>4. new = H - (d - n)
    BY <1>2, <1>4, <2>1, <2>2, <2>3, BackIs
  <2>5. d # H
    BY <1>5, <1>9
  <2>. QED
    BY <1>1, <1>3, <1>5, <1>6, <2>2, <2>4, <2>5
<1>10. CASE view # offset /\ n > d
  <2>. DEFINE m == n - d
  <2>1. view' = LoweredView(off, m) /\ mode # "urls" /\ off # view
    <3>1. view' = LoweredView(off, m) /\ mode # "urls"
      BY <1>10 DEF TermScrollPartial, WithoutDefects
    <3>2. off # view
      BY <1>10 DEF TermScrollPartial, WithoutLoss
    <3>. QED
      BY <3>1, <3>2
  <2>2. view' = Wrap(view + Least(m, Wrap(off - view)))
    BY <2>1 DEF LoweredView
  <2>3. AbsToSb(off, view) # H
    BY <1>1, <1>2, <1>4, <1>7, <2>1, PlaceOfOne
  <2>. HIDE DEF g, d, off
  <2>4. m \in 1 .. ScreenRows /\ d - n = -m /\ -m \in Int /\ g = 0
    BY <1>1, <1>3, <1>6, <1>10
  <2>. HIDE DEF m
  <2>5. AbsToSb(off, view) = NumRows - m
    <3>1. -m + NumRows \in Rows /\ -m + NumRows = NumRows - m
      BY <1>1, <2>4
    <3>. QED
      BY <1>7, <2>4, <3>1, WrapNear
  <2>6. m # ScreenRows
    BY <1>1, <2>3, <2>4, <2>5
  <2>7. Wrap(off - view) = m - ScreenRows + NumRows
    <3>1. H - (NumRows - m) = m - ScreenRows /\ m - ScreenRows \in Int
          /\ m - ScreenRows + NumRows \in Rows
      BY <1>1, <2>4, <2>6
    <3>2. Wrap(off - view) = Wrap(m - ScreenRows)
      BY <1>2, <1>4, <2>5, <3>1, PlacesAre
    <3>. QED
      BY <3>1, <3>2, WrapNear
  <2>8. view' = Wrap(view + m)
    <3>1. Least(m, m - ScreenRows + NumRows) = m
      BY <1>1, <2>4 DEF Least
    <3>. QED
      BY <2>2, <2>7, <3>1
  <2>9. view' \in Rows /\ AbsToSb(off, view') = 0
    <3>1. m \in Int /\ NumRows - m \in Int
      BY <1>1, <2>4
    <3>2. view' \in Rows /\ AbsToSb(off, view') = Wrap((NumRows - m) + m)
      BY <1>2, <1>4, <2>5, <2>8, <3>1, StepsFrom
    <3>. DEFINE z == (NumRows - m) + m
    <3>3. z \in Int /\ z - NumRows = 0 /\ 0 \in Rows
      BY <1>1, <2>4
    <3>4. AbsToSb(off, view') = Wrap(z)
      BY <3>2
    <3>. HIDE DEF z
    <3>. QED
      BY <3>2, <3>3, <3>4, WrapNear
  <2>10. new = H - 0
    <3>1. AbsToSb(off, view') \in 0 .. H
      BY <1>1, <2>9
    <3>. QED
      BY <1>4, <2>9, <3>1, BackIs
  <2>. QED
    BY <1>1, <1>3, <1>5, <1>6, <1>10, <2>4, <2>10
<1>. QED
  BY <1>8, <1>9, <1>10

\* term_scroll_reverse_partial() too, and the screen comes nearer to it.
LEMMA BackDown ==
    ASSUME Types, NEW f \in 0 .. H, StartsAt(f),
           NEW from, NEW to, NEW n, Regions(from, to, n), TermScrollReversePartial(from, to, n),
           NEW back, back = Wrap(offset - view), NEW new, new = Wrap(offset' - view')
    PROVE  new = IF back > n THEN back - n ELSE 0
<1>. DEFINE off == Wrap(offset - n)
            d == AbsToSb(offset, view)
<1>1. /\ n \in Nat /\ n > 0 /\ n <= ScreenRows /\ n \in Int
      /\ NumRows \in Nat /\ ScreenRows \in Nat /\ H + ScreenRows = NumRows /\ H \in Nat /\ H < NumRows
      /\ Rows = 0 .. NumRows - 1 /\ Rows \subseteq Int /\ f \in Int
  BY RegionIs, Sizes DEF Rows
<1>2. offset \in Rows /\ view \in Rows
  BY DEF Types
<1>3. d \in f .. H /\ d \in 0 .. H
  BY <1>1 DEF StartsAt
<1>4. offset' = off /\ off \in Rows
  <2>1. offset - n \in Int
    BY <1>1, <1>2
  <2>. QED
    BY <2>1, WrapIs DEF TermScrollReversePartial
<1>5. back = H - d /\ (view = offset <=> d = H)
  BY <1>2, <1>3, BackIs
<1>6. AbsToSb(off, off) = H
  BY <1>4, PlacesAre
<1>7. AbsToSb(off, view) = Wrap(d + n)
  <2>. DEFINE m == -n
  <2>1. m \in Int /\ offset + m = offset - n /\ offset \in Int /\ view \in Int
    BY <1>1, <1>2
  <2>2. AbsToSb(Wrap(offset + m), view) = Wrap(d - m)
    <3>. HIDE DEF m
    <3>. QED
      BY <2>1, PlaceIs
  <2>. HIDE DEF d
  <2>3. d - m = d + n
    BY <1>1, <1>3
  <2>. HIDE DEF m
  <2>. QED
    BY <2>1, <2>2, <2>3
<1>8. d # H => d + n \in Rows
  <2>. HIDE DEF d
  <2>. QED
    BY <1>1, <1>3
<1>9. CASE view = offset \/ AbsToSb(off, view) > AbsToSb(off, off)
  <2>1. view' = off
    BY <1>9 DEF TermScrollReversePartial
  <2>2. AbsToSb(off, off) \in 0 .. H
    BY <1>1, <1>6
  <2>3. new = H - H
    BY <1>4, <1>6, <2>1, <2>2, BackIs
  <2>4. H - d <= n
    <3>. HIDE DEF d, off
    <3>1. CASE d = H
      BY <1>1, <3>1
    <3>2. CASE d # H
      <4>1. AbsToSb(off, view) = d + n
        <5>1. d + n \in Int
          BY <1>1, <1>3
        <5>. QED
          BY <1>7, <1>8, <3>2, <5>1, WrapNear
      <4>. QED
        BY <1>1, <1>3, <1>5, <1>6, <1>9, <3>2, <4>1
    <3>. QED
      BY <3>1, <3>2
  <2>. HIDE DEF d
  <2>. QED
    BY <1>1, <1>3, <1>5, <2>3, <2>4
<1>10. CASE ~(view = offset \/ AbsToSb(off, view) > AbsToSb(off, off))
  <2>1. view' = view
    BY <1>10 DEF TermScrollReversePartial
  <2>. HIDE DEF d, off
  <2>2. d + n \in Int /\ d + n \in Rows
    BY <1>1, <1>3, <1>5, <1>8, <1>10
  <2>3. AbsToSb(off, view) = d + n
    BY <1>7, <2>2, WrapNear
  <2>4. d + n <= H /\ d + n \in 0 .. H
    BY <1>1, <1>3, <1>6, <1>10, <2>2, <2>3
  <2>5. new = H - (d + n)
    BY <1>2, <1>4, <2>1, <2>3, <2>4, BackIs
  <2>. QED
    BY <1>1, <1>3, <1>5, <2>4, <2>5
<1>. QED
  BY <1>9, <1>10

\* term_scroll_partial() is ScreenLog's Up.
LEMMA UpIs ==
    ASSUME Types, NEW f \in 0 .. H, StartsAt(f), WithoutDefects, WithoutLoss,
           NEW from, NEW to, NEW n, Regions(from, to, n), TermScrollPartial(from, to, n),
           NEW a, NEW b, a = from + 1, b = to + 1
    PROVE  Log!Up(a, b, n)
<1>. DEFINE g == Greatest(f - n, 0)
            count == H - f
            h == LogHistory
            s == LogScreen
            t == LogHistory'
            u == LogScreen'
            e == IF count + n > H THEN count + n - H ELSE 0
<1>1. /\ from \in Nat /\ to \in Nat /\ n \in Nat /\ n > 0 /\ from + n <= to /\ to <= ScreenRows
      /\ ScreenRows \in Nat /\ H \in Nat /\ f \in Int /\ f \in 0 .. H
      /\ NumRows \in Nat /\ H + ScreenRows = NumRows
  BY RegionIs, Sizes
<1>2. rows \in Rings /\ offset \in Rows /\ Allocated(rows, offset, f)
  BY DEF Types, StartsAt
<1>3. rows' \in Rings /\ offset' \in Rows /\ Allocated(rows', offset', g)
  BY <1>2, RingUp
<1>4. g \in 0 .. H /\ count \in Nat /\ count <= H /\ e \in Nat /\ count + n - e = H - g /\ H - g \in Nat
  BY <1>1 DEF Greatest
<1>. HIDE DEF g
<1>5. h = Past(rows, offset, count) /\ s = Present(rows, offset)
  BY <1>2, MappingIs
<1>6. t = Past(rows', offset', H - g) /\ u = Present(rows', offset')
  BY <1>3, <1>4, MappingBecomes
<1>7. /\ h \in Seq(Contents) /\ Len(h) = count /\ \A k \in 1 .. count : h[k] = Line(rows, offset, k - 1 - count)
      /\ s \in Seq(Contents) /\ Len(s) = ScreenRows
      /\ \A i \in 1 .. ScreenRows : s[i] = Line(rows, offset, i - 1)
  BY <1>2, <1>4, <1>5, LinesAre
<1>8. /\ t \in Seq(Contents) /\ Len(t) = H - g
      /\ \A k \in 1 .. H - g : t[k] = Line(rows', offset', k - 1 - (H - g))
      /\ u \in Seq(Contents) /\ Len(u) = ScreenRows
      /\ \A i \in 1 .. ScreenRows : u[i] = Line(rows', offset', i - 1)
  BY <1>3, <1>4, <1>6, LinesAre
<1>. HIDE DEF h, s, t, u
<1>9. /\ \A j \in -H .. -1 :
           Line(rows', offset', j) = Line(rows, offset, IF j < -n THEN j + n ELSE j + n + from)
      /\ \A j \in 0 .. ScreenRows - 1 :
           Line(rows', offset', j) =
              IF j < from \/ j >= to THEN Line(rows, offset, j)
              ELSE IF j < to - n THEN Line(rows, offset, j + n) ELSE "plain"
  BY <1>2, LinesUp
<1>. HIDE DEF count, e
<1>10. Grown(t, h, s, count, from, n, e)
  <2>. SUFFICES ASSUME NEW k \in 1 .. count + n - e
                PROVE  t[k] = IF k + e <= count THEN h[k + e] ELSE s[from + k + e - count]
    BY DEF Grown
  <2>. DEFINE j == k - 1 - (H - g)
  <2>1. /\ j \in -H .. -1 /\ k \in 1 .. H - g
        /\ j + n = k + e - 1 - count /\ j + n + from = (from + k + e - count) - 1
        /\ k + e \in Int /\ (k + e <= count => k + e \in 1 .. count)
        /\ (j < -n <=> k + e <= count)
        /\ (~(k + e <= count) => from + k + e - count \in 1 .. ScreenRows)
    BY <1>1, <1>4
  <2>2. t[k] = Line(rows', offset', j)
    BY <1>8, <2>1
  <2>. HIDE DEF j
  <2>3. t[k] = Line(rows, offset, IF j < -n THEN j + n ELSE j + n + from)
    BY <1>9, <2>1, <2>2
  <2>4. CASE k + e <= count
    <3>. DEFINE i == k + e
    <3>1. h[i] = Line(rows, offset, i - 1 - count)
      <4>1. i \in 1 .. count
        BY <2>1, <2>4
      <4>. HIDE DEF i
      <4>. QED
        BY <1>7, <4>1
    <3>2. t[k] = Line(rows, offset, j + n) /\ j + n = i - 1 - count
      <4>1. j < -n /\ j + n = i - 1 - count
        BY <1>1, <1>4, <2>1, <2>4
      <4>. HIDE DEF i
      <4>2. t[k] = Line(rows, offset, j + n)
        BY <2>3, <4>1
      <4>. QED
        BY <4>1, <4>2
    <3>. HIDE DEF i
    <3>3. t[k] = h[i]
      BY <3>1, <3>2
    <3>. QED
      BY <2>4, <3>3 DEF i
  <2>5. CASE ~(k + e <= count)
    BY <1>7, <2>1, <2>3, <2>5
  <2>. QED
    BY <2>4, <2>5
<1>11. t = Log!LastLines(h \o Piece(s, a, a + n - 1))
  <2>1. /\ h \in Seq(Contents) /\ Len(h) = count /\ s \in Seq(Contents) /\ Len(s) = ScreenRows
        /\ t \in Seq(Contents) /\ Len(t) = count + n - e
        /\ count \in Nat /\ count <= H /\ e \in Nat /\ e = IF count + n > H THEN count + n - H ELSE 0
    BY <1>4, <1>7, <1>8 DEF e
  <2>. QED
    BY <1>10, <2>1, HistoryGrows
<1>12. ScrolledUp(u, s, from, to, n)
  <2>. SUFFICES ASSUME NEW i \in 1 .. ScreenRows
                PROVE  u[i] = IF i <= from \/ i > to THEN s[i] ELSE IF i <= to - n THEN s[i + n] ELSE "plain"
    BY DEF ScrolledUp
  <2>. DEFINE j == i - 1
  <2>1. /\ j \in 0 .. ScreenRows - 1 /\ (j < from \/ j >= to <=> i <= from \/ i > to)
        /\ (j < to - n <=> i <= to - n) /\ j + n = (i + n) - 1
        /\ (i <= to - n => i + n \in 1 .. ScreenRows)
    BY <1>1
  <2>2. u[i] = Line(rows', offset', j) /\ s[i] = Line(rows, offset, j)
    BY <1>7, <1>8
  <2>. HIDE DEF j
  <2>3. i <= to - n => s[i + n] = Line(rows, offset, j + n)
    BY <1>7, <2>1
  <2>. QED
    BY <1>9, <2>1, <2>2, <2>3
<1>13. u = Joined(Piece(s, 1, a - 1), Piece(s, a + n, b - 1), Log!Blank(n), Piece(s, b, ScreenRows))
  <2>1. s \in Seq(Contents) /\ Len(s) = ScreenRows /\ u \in Seq(Contents) /\ Len(u) = ScreenRows
    BY <1>7, <1>8
  <2>. QED
    BY <1>12, <2>1, ScreenUp
<1>. DEFINE back == LogBack
            new == LogBack'
<1>14. back = Wrap(offset - view) /\ new = Wrap(offset' - view')
  BY DEF LogBack, Wrap
<1>. HIDE DEF back, new
<1>15. new = IF back = 0 THEN 0 ELSE IF back + n < Len(t) THEN back + n ELSE Len(t)
  <2>1. Len(t) = H - Greatest(f - n, 0)
    BY <1>8 DEF g
  <2>. QED
    BY <1>14, <2>1, BackUp
<1>. QED
  <2>1. LogHistory' = Log!LastLines(LogHistory \o SubSeq(LogScreen, a, a + n - 1))
    BY <1>11 DEF Piece, h, s, t
  <2>2. LogScreen' = SubSeq(LogScreen, 1, a - 1) \o SubSeq(LogScreen, a + n, b - 1)
                       \o Log!Blank(n) \o SubSeq(LogScreen, b, ScreenRows)
    BY <1>13 DEF Joined, Piece, s, u
  <2>3. LogBack' = IF LogBack = 0 THEN 0 ELSE Log!Least(LogBack + n, Len(LogHistory'))
    BY <1>15 DEF t, back, new, Log!Least
  <2>. QED
    BY <2>1, <2>2, <2>3 DEF Log!Up

\* term_scroll_reverse_partial() is ScreenLog's Down.
LEMMA DownIs ==
    ASSUME Types, NEW f \in 0 .. H, StartsAt(f),
           NEW from, NEW to, NEW n, Regions(from, to, n), TermScrollReversePartial(from, to, n),
           NEW a, NEW b, a = from + 1, b = to + 1
    PROVE  Log!Down(a, b, n)
<1>. DEFINE g == Least(f + n, H)
            count == H - f
            rest == H - g
            h == LogHistory
            s == LogScreen
            t == LogHistory'
            u == LogScreen'
<1>1. /\ from \in Nat /\ to \in Nat /\ n \in Nat /\ n > 0 /\ from + n <= to /\ to <= ScreenRows
      /\ ScreenRows \in Nat /\ H \in Nat /\ f \in Int /\ f \in 0 .. H
      /\ NumRows \in Nat /\ H + ScreenRows = NumRows
  BY RegionIs, Sizes
<1>2. rows \in Rings /\ offset \in Rows /\ Allocated(rows, offset, f)
  BY DEF Types, StartsAt
<1>3. rows' \in Rings /\ offset' \in Rows /\ Allocated(rows', offset', g)
  BY <1>2, RingDown
<1>4. g \in 0 .. H /\ count \in Nat /\ rest \in Nat
      /\ rest = IF count > n THEN count - n ELSE 0
  BY <1>1 DEF Least
<1>. HIDE DEF g
<1>5. h = Past(rows, offset, count) /\ s = Present(rows, offset)
  BY <1>2, MappingIs
<1>6. t = Past(rows', offset', rest) /\ u = Present(rows', offset')
  BY <1>3, <1>4, MappingBecomes
<1>7. /\ h \in Seq(Contents) /\ Len(h) = count /\ \A k \in 1 .. count : h[k] = Line(rows, offset, k - 1 - count)
      /\ s \in Seq(Contents) /\ Len(s) = ScreenRows
      /\ \A i \in 1 .. ScreenRows : s[i] = Line(rows, offset, i - 1)
  BY <1>2, <1>4, <1>5, LinesAre
<1>. HIDE DEF rest
<1>8. /\ t \in Seq(Contents) /\ Len(t) = rest
      /\ \A k \in 1 .. rest : t[k] = Line(rows', offset', k - 1 - rest)
      /\ u \in Seq(Contents) /\ Len(u) = ScreenRows
      /\ \A i \in 1 .. ScreenRows : u[i] = Line(rows', offset', i - 1)
  BY <1>3, <1>4, <1>6, LinesAre
<1>. HIDE DEF h, s, t, u
<1>9. /\ \A j \in n - H .. -1 : Line(rows', offset', j) = Line(rows, offset, j - n)
      /\ \A j \in 0 .. ScreenRows - 1 :
           Line(rows', offset', j) =
              IF j < from \/ j >= to THEN Line(rows, offset, j)
              ELSE IF j < from + n THEN "plain" ELSE Line(rows, offset, j - n)
  BY <1>2, LinesDown
<1>10. \A k \in 1 .. rest : t[k] = h[k]
  <2>. SUFFICES ASSUME NEW k \in 1 .. rest PROVE t[k] = h[k]
    OBVIOUS
  <2>. DEFINE j == k - 1 - rest
  <2>1. j \in n - H .. -1 /\ j - n = k - 1 - count /\ k \in 1 .. count
    BY <1>1, <1>4
  <2>2. t[k] = Line(rows', offset', j)
    BY <1>8
  <2>. HIDE DEF j, count
  <2>. QED
    BY <1>7, <1>9, <2>1, <2>2
<1>. HIDE DEF count
<1>11. t = SubSeq(h, 1, Log!Rest(Len(h), n))
  <2>1. h \in Seq(Contents) /\ Len(h) = count /\ t \in Seq(Contents) /\ Len(t) = rest
    BY <1>7, <1>8
  <2>. QED
    BY <1>1, <1>4, <1>10, <2>1, HistoryShrinks
<1>12. ScrolledDown(u, s, from, to, n)
  <2>. SUFFICES ASSUME NEW i \in 1 .. ScreenRows
                PROVE  u[i] = IF i <= from \/ i > to THEN s[i] ELSE IF i <= from + n THEN "plain" ELSE s[i - n]
    BY DEF ScrolledDown
  <2>. DEFINE j == i - 1
  <2>1. /\ j \in 0 .. ScreenRows - 1 /\ (j < from \/ j >= to <=> i <= from \/ i > to)
        /\ (j < from + n <=> i <= from + n) /\ j - n = (i - n) - 1
        /\ (~(i <= from + n) => i - n \in 1 .. ScreenRows)
    BY <1>1
  <2>2. u[i] = Line(rows', offset', j) /\ s[i] = Line(rows, offset, j)
    BY <1>7, <1>8
  <2>. HIDE DEF j
  <2>3. ~(i <= from + n) => s[i - n] = Line(rows, offset, j - n)
    BY <1>7, <2>1
  <2>. QED
    BY <1>9, <2>1, <2>2, <2>3
<1>13. u = Joined(Piece(s, 1, a - 1), Log!Blank(n), Piece(s, a, b - n - 1), Piece(s, b, ScreenRows))
  <2>1. s \in Seq(Contents) /\ Len(s) = ScreenRows /\ u \in Seq(Contents) /\ Len(u) = ScreenRows
    BY <1>7, <1>8
  <2>. QED
    BY <1>12, <2>1, ScreenDown
<1>. DEFINE back == LogBack
            new == LogBack'
<1>14. back = Wrap(offset - view) /\ new = Wrap(offset' - view')
  BY DEF LogBack, Wrap
<1>. HIDE DEF back, new
<1>15. new = IF back > n THEN back - n ELSE 0
  BY <1>14, BackDown
<1>. QED
  <2>1. LogHistory' = SubSeq(LogHistory, 1, Log!Rest(Len(LogHistory), n))
    BY <1>11 DEF h, t
  <2>2. LogScreen' = SubSeq(LogScreen, 1, a - 1) \o Log!Blank(n)
                       \o SubSeq(LogScreen, a, b - n - 1) \o SubSeq(LogScreen, b, ScreenRows)
    BY <1>13 DEF Joined, Piece, s, u
  <2>3. LogBack' = Log!Rest(LogBack, n)
    BY <1>15 DEF back, new, Log!Rest
  <2>. QED
    BY <2>1, <2>2, <2>3 DEF Log!Down

\* The mapping when the rows and the offset stay, and when there is no history
LEMMA LinesSame ==
    ASSUME NEW ring \in Rings, NEW next \in Rings, NEW off \in Rows, NEW count \in Nat, count <= H,
           \A r \in Rows : AbsToSb(off, r) >= H - count => next[r] = ring[r]
    PROVE  Past(next, off, count) = Past(ring, off, count) /\ Present(next, off) = Present(ring, off)
<1>1. /\ H \in Nat /\ ScreenRows \in Nat /\ NumRows \in Nat /\ H + ScreenRows = NumRows
      /\ Rows = 0 .. NumRows - 1 /\ off \in Int
  BY Sizes DEF Rows
<1>2. ASSUME NEW j \in Int, j >= -count, j < ScreenRows PROVE Line(next, off, j) = Line(ring, off, j)
  <2>1. H + j \in Rows /\ H + j \in Int /\ H + j >= H - count
    BY <1>1, <1>2
  <2>2. Wrap(off + j) \in Rows /\ AbsToSb(off, Wrap(off + j)) = Wrap(H + j)
    BY <1>1, StepsFrom
  <2>3. AbsToSb(off, Wrap(off + j)) >= H - count
    BY <2>1, <2>2, WrapNear
  <2>. QED
    BY <2>2, <2>3 DEF Line
<1>3. \A k \in 1 .. count : Line(next, off, k - 1 - count) = Line(ring, off, k - 1 - count)
  <2>1. \A k \in 1 .. count : k - 1 - count \in Int /\ k - 1 - count >= -count /\ k - 1 - count < ScreenRows
    BY <1>1
  <2>. QED
    BY <1>2, <2>1
<1>4. \A i \in 1 .. ScreenRows : Line(next, off, i - 1) = Line(ring, off, i - 1)
  <2>1. \A i \in 1 .. ScreenRows : i - 1 \in Int /\ i - 1 >= -count /\ i - 1 < ScreenRows
    BY <1>1
  <2>. QED
    BY <1>2, <2>1
<1>. QED
  BY <1>3, <1>4 DEF Past, Present

\* Without history
LEMMA NothingPast ==
    ASSUME NEW ring \in Rings, NEW off \in Rows
    PROVE  Past(ring, off, H - H) = << >>
<1>1. H - H = 0 /\ 0 \in Nat
  BY Sizes
<1>2. Past(ring, off, 0) \in Seq(Contents) /\ Len(Past(ring, off, 0)) = 0
  BY <1>1, LinesAre
<1>. QED
  BY <1>1, <1>2, EmptySeq

\* Moving the view is ScreenLog's Look.
LEMMA LookIs ==
    ASSUME RInv', UNCHANGED <<rows, offset>>
    PROVE  Log!Look(LogBack') /\ LogBack' \in 0 .. HistoryRows
<1>1. PICK f \in 0 .. H : StartsAt(f)'
  BY DEF RInv, H
<1>2. /\ rows' \in Rings /\ offset' \in Rows /\ view' \in Rows /\ Allocated(rows', offset', f)
      /\ AbsToSb(offset', view') \in f .. H
  BY <1>1 DEF RInv, Types, StartsAt, H
<1>3. LogHistory' = LogHistory /\ LogScreen' = LogScreen
  BY DEF LogHistory, LogScreen, FromSbStart, SbStart, SbToAbs, Wrap, Rows
<1>4. f \in Int /\ H - f \in Nat /\ H \in Nat /\ H = HistoryRows
  BY Sizes DEF H, HistoryRows
<1>5. Len(LogHistory') = H - f
  <2>1. LogHistory' = Past(rows', offset', H - f)
    BY <1>2, MappingBecomes
  <2>. QED
    BY <1>2, <1>4, <2>1, LinesAre
<1>6. LogBack' = H - AbsToSb(offset', view')
  <2>1. AbsToSb(offset', view') \in 0 .. H
    BY <1>2, <1>4
  <2>. QED
    BY <1>2, <2>1, BackIs DEF LogBack, Wrap
<1>7. LogBack' \in 0 .. H - f /\ LogBack' \in 0 .. H
  <2>. DEFINE d == AbsToSb(offset', view')
              back == LogBack'
  <2>1. d \in f .. H /\ back = H - d
    BY <1>2, <1>6
  <2>. HIDE DEF d, back
  <2>2. back \in 0 .. H - f /\ back \in 0 .. H
    BY <1>4, <2>1
  <2>. QED
    BY <2>2 DEF back
<1>8. LogBack' \in 0 .. Len(LogHistory)
  BY <1>3, <1>5, <1>7
<1>. QED
  BY <1>3, <1>4, <1>7, <1>8 DEF Log!Look

\* OSC 133;A is ScreenLog's Mark.
LEMMA MarkIs ==
    ASSUME Types, NEW f \in 0 .. H, StartsAt(f), NEW i \in Screen, MarkPrompt(i), NEW k, k = i + 1
    PROVE  k \in 1 .. ScreenRows /\ Log!Mark(k)
<1>1. /\ H \in Nat /\ ScreenRows \in Nat /\ NumRows \in Nat /\ H + ScreenRows = NumRows
      /\ i \in 0 .. ScreenRows - 1 /\ f \in Int /\ H - f \in Nat
  BY Sizes DEF Screen
<1>2. rows \in Rings /\ offset \in Rows /\ Allocated(rows, offset, f) /\ offset' = offset /\ view' = view
  BY DEF Types, StartsAt, MarkPrompt
<1>3. /\ rows' \in Rings /\ Allocated(rows', offset, f)
      /\ \A r \in Rows : rows'[r] = IF r = Wrap(offset + i) THEN "prompt" ELSE rows[r]
  BY <1>2, MarkedRing
<1>4. LogHistory = Past(rows, offset, H - f) /\ LogScreen = Present(rows, offset)
  BY <1>2, MappingIs
<1>5. LogHistory' = Past(rows', offset, H - f) /\ LogScreen' = Present(rows', offset)
  BY <1>2, <1>3, MappingBecomes
<1>6. ASSUME NEW j \in Int, j >= -H, j < ScreenRows
      PROVE  Line(rows', offset, j) = IF j = i THEN "prompt" ELSE Line(rows, offset, j)
  <2>1. i \in Int /\ i - j < NumRows /\ j - i < NumRows
    BY <1>1, <1>6
  <2>2. Wrap(offset + j) \in Rows /\ (Wrap(offset + j) = Wrap(offset + i) <=> j = i)
    <3>1. CASE j = i
      <4>1. offset + j \in Int
        BY <1>2, Sizes DEF Rows
      <4>. QED
        BY <3>1, <4>1, WrapIs
    <3>2. CASE j # i
      BY <1>2, <2>1, <3>2, LinesApart
    <3>. QED
      BY <3>1, <3>2
  <2>. QED
    BY <1>3, <2>2 DEF Line
<1>7. LogHistory' = LogHistory
  <2>. DEFINE count == H - f
  <2>1. \A m \in 1 .. count : m - 1 - count \in Int /\ m - 1 - count >= -H /\ m - 1 - count < ScreenRows
                              /\ m - 1 - count # i
    BY <1>1
  <2>. HIDE DEF count
  <2>2. \A m \in 1 .. count : Line(rows', offset, m - 1 - count) = Line(rows, offset, m - 1 - count)
    BY <1>6, <2>1
  <2>3. Past(rows', offset, count) = Past(rows, offset, count)
    BY <2>2 DEF Past
  <2>. QED
    BY <1>4, <1>5, <2>3 DEF count
<1>8. LogScreen' = [LogScreen EXCEPT ![k] = "prompt"]
  <2>1. \A m \in 1 .. ScreenRows : m - 1 \in Int /\ m - 1 >= -H /\ m - 1 < ScreenRows /\ (m - 1 = i <=> m = k)
    BY <1>1
  <2>2. \A m \in 1 .. ScreenRows : Line(rows', offset, m - 1) = IF m = k THEN "prompt" ELSE Line(rows, offset, m - 1)
    BY <1>6, <2>1
  <2>3. Present(rows', offset) = [Present(rows, offset) EXCEPT ![k] = "prompt"]
    BY <2>2 DEF Present
  <2>. QED
    BY <1>4, <1>5, <2>3
<1>9. LogBack' = LogBack
  BY <1>2 DEF LogBack, Wrap
<1>10. k \in 1 .. ScreenRows
  BY <1>1
<1>. QED
  BY <1>7, <1>8, <1>9, <1>10 DEF Log!Mark

\* term_erase_scrollback() is ScreenLog's EraseHistory.
LEMMA EraseIs ==
    ASSUME Types, NEW f \in 0 .. H, StartsAt(f), TermEraseScrollback
    PROVE  Log!EraseHistory
<1>1. /\ rows \in Rings /\ offset \in Rows /\ Allocated(rows, offset, f)
      /\ offset' = offset /\ view' = offset
  BY DEF Types, StartsAt, TermEraseScrollback
<1>2. /\ rows' \in Rings /\ Allocated(rows', offset, H)
      /\ \A r \in Rows : AbsToSb(offset, r) >= H => rows'[r] = rows[r]
  BY <1>1, ErasedRing
<1>3. H \in 0 .. H /\ 0 \in Nat /\ 0 <= H /\ H - 0 = H
  BY Sizes
<1>4. LogScreen = Present(rows, offset)
  BY <1>1, MappingIs
<1>5. LogHistory' = Past(rows', offset, H - H) /\ LogScreen' = Present(rows', offset)
  BY <1>1, <1>2, <1>3, MappingBecomes
<1>6. Present(rows', offset) = Present(rows, offset)
  BY <1>1, <1>2, <1>3, LinesSame
<1>7. LogHistory' = << >>
  BY <1>1, <1>2, <1>5, NothingPast
<1>8. LogBack' = 0
  <2>1. Wrap(offset - offset) = 0
    BY <1>1, <1>3, BackIs, PlacesAre, Sizes
  <2>. QED
    BY <1>1, <2>1 DEF LogBack, Wrap
<1>. QED
  BY <1>4, <1>5, <1>6, <1>7, <1>8 DEF Log!EraseHistory

\* The ring at first, and after term_reset(), is a blank screen without history.
LEMMA FreshIs == Fresh => LogHistory = << >> /\ LogScreen = Log!Blank(ScreenRows) /\ LogBack = 0
<1>. SUFFICES ASSUME Fresh PROVE LogHistory = << >> /\ LogScreen = Log!Blank(ScreenRows) /\ LogBack = 0
  OBVIOUS
<1>1. /\ H \in 0 .. H /\ H \in Nat /\ ScreenRows \in Nat /\ NumRows \in Nat /\ ScreenRows <= NumRows
      /\ Rows = 0 .. NumRows - 1
  BY Sizes DEF Rows
<1>2. rows \in Rings /\ offset \in Rows /\ view \in Rows /\ Allocated(rows, offset, H) /\ AbsToSb(offset, view) = H
  BY FreshRing DEF Types
<1>3. LogHistory = << >>
  BY <1>1, <1>2, MappingIs, NothingPast
<1>4. LogBack = 0
  <2>1. Wrap(offset - view) = H - H
    BY <1>1, <1>2, BackIs
  <2>. QED
    BY <1>1, <2>1 DEF LogBack
<1>5. LogScreen = Log!Blank(ScreenRows)
  <2>1. ASSUME NEW i \in 1 .. ScreenRows PROVE rows[Wrap(offset + i - 1)] = "plain"
    <3>1. offset + i - 1 = i - 1 /\ i - 1 \in Rows /\ i - 1 \in Int /\ i - 1 \in 0 .. ScreenRows - 1
      BY <1>1 DEF Fresh
    <3>2. Wrap(offset + i - 1) = i - 1
      BY <3>1, WrapNear
    <3>. QED
      BY <3>1, <3>2 DEF Fresh, Screen
  <2>. QED
    BY <2>1 DEF LogScreen, Log!Blank
<1>. QED
  BY <1>3, <1>4, <1>5

LEMMA ResetIs ==
    ASSUME Types, TermReset
    PROVE  Log!Reset
<1>1. Fresh'
  BY DEF TermReset, Fresh, Types, Rows, Screen
<1>2. (LogHistory = << >> /\ LogScreen = Log!Blank(ScreenRows) /\ LogBack = 0)'
  BY <1>1, FreshIs, PTL
<1>. QED
  BY <1>2 DEF Log!Reset

LEMMA LogInit == Init => Log!Init
<1>. SUFFICES ASSUME Init PROVE Log!Init
  OBVIOUS
<1>1. Fresh
  BY DEF Init, Fresh
<1>. QED
  BY <1>1, FreshIs DEF Log!Init

\* Every step is one of ScreenLog.
LEMMA LogStep ==
    ASSUME RInv, RInv', WithoutDefects, WithoutLoss, [Next]_vars
    PROVE  Log!Next
<1>. PICK f \in 0 .. H : StartsAt(f)
  BY DEF RInv
<1>1. Types
  BY DEF RInv
<1>2. CASE \E from \in Screen, to \in 1..ScreenRows, n \in 1..ScreenRows :
              from + n <= to /\ (TermScrollPartial(from, to, n) \/ TermScrollReversePartial(from, to, n))
  <2>1. PICK from \in Screen, to \in 1..ScreenRows, n \in 1..ScreenRows :
              from + n <= to /\ (TermScrollPartial(from, to, n) \/ TermScrollReversePartial(from, to, n))
    BY <1>2
  <2>2. Regions(from, to, n)
    BY <2>1 DEF Regions
  <2>. DEFINE a == from + 1
              b == to + 1
  <2>3. a = from + 1 /\ b = to + 1 /\ a \in 1 .. ScreenRows /\ b \in 2 .. ScreenRows + 1 /\ a + n <= b
    <3>1. from \in Nat /\ to \in Nat /\ n \in Nat /\ n > 0 /\ from + n <= to /\ to <= ScreenRows
      BY <2>2, RegionIs
    <3>2. ScreenRows \in Nat
      BY Sizes
    <3>. QED
      BY <3>1, <3>2
  <2>. HIDE DEF a, b
  <2>4. Log!Up(a, b, n) \/ Log!Down(a, b, n)
    BY <1>1, <2>1, <2>2, <2>3, UpIs, DownIs
  <2>. QED
    BY <2>1, <2>3, <2>4 DEF Log!Next
<1>3. ASSUME NEW i \in Screen, MarkPrompt(i) PROVE Log!Next
  <2>. DEFINE k == i + 1
  <2>1. k = i + 1
    OBVIOUS
  <2>. HIDE DEF k
  <2>2. k \in 1 .. ScreenRows /\ Log!Mark(k)
    BY <1>1, <1>3, <2>1, MarkIs
  <2>. QED
    BY <2>2 DEF Log!Next
<1>4. CASE TermEraseScrollback
  BY <1>1, <1>4, EraseIs DEF Log!Next
<1>5. CASE TermReset
  BY <1>1, <1>5, ResetIs DEF Log!Next
<1>6. CASE \/ \E i \in Screen : SelectionStart(i) \/ SelectionUpdate(i) \/ SelectionExtend(i)
           \/ \E n \in 1..NumRows : CmdScrollbackUp(n) \/ CmdScrollbackDown(n)
           \/ \E r \in Rows : SearchUpdateSelection(r)
           \/ PromptPrev \/ PromptNext \/ ResetView \/ KeyPressed
           \/ ButtonPressed \/ SelectionFinalize
           \/ SearchBegin \/ SearchFindsNothing \/ SearchCancel \/ SearchCommit
           \/ UrlsRender \/ UrlsReset \/ UNCHANGED vars
  <2>1. UNCHANGED <<rows, offset>>
    BY <1>6 DEF SelectionStart, SelectionUpdate, SelectionExtend, CmdScrollbackUp, CmdScrollbackDown,
                SearchUpdateSelection, PromptPrev, PromptNext, ResetView, KeyPressed, ButtonPressed,
                SelectionFinalize, SearchBegin, SearchFindsNothing, SearchCancel, SearchCommit,
                UrlsRender, UrlsReset, vars
  <2>2. Log!Look(LogBack') /\ LogBack' \in 0 .. HistoryRows
    BY <2>1, LookIs
  <2>. QED
    BY <2>2 DEF Log!Next
<1>. QED
  BY <1>2, <1>3, <1>4, <1>5, <1>6 DEF Next

\* Whatever is scrolled, erased, reset, searched and looked at, the ring is a history, a screen
\* and a view that do what a terminal with scrollback promises: no line is lost, kept too long,
\* moved or shown wrongly (term_scroll_partial(), term_scroll_reverse_partial(),
\* term_erase_scrollback(), term_reset(), cmd_scrollback_up(), search_update_selection()).
THEOREM NoLineIsLost ==
  ASSUME {"dangling start", "stale view", "reordered", "overtaken view"} \cap Admitted = {}
  PROVE  Spec => ImplementsScreenLog
<1>1. WithoutDefects /\ WithoutLoss
  BY DEF WithoutDefects, WithoutLoss
<1>2. RInv /\ [Next]_vars => RInv'
  BY <1>1, InvStep
<1>3. RInv /\ RInv' /\ [Next]_vars => [Log!Next]_Log!vars
  BY <1>1, LogStep
<1>. QED
  BY <1>2, <1>3, InvInit, LogInit, PTL DEF Spec, ImplementsScreenLog, Log!Spec
==============================================================================
