-------------------------- MODULE PtyWriter_proofs --------------------------
(***************************************************************************)
(* Proofs about PtyWriter, for any number of keys, pastes and chunks:      *)
(* nothing that is typed or pasted is lost, duplicated or reordered,       *)
(* however the PTY accepts it; it is polled when, and only when, something *)
(* waits for it; and pastes are received in turn, none inside another,     *)
(* each whole between its own delimiters or without any, and ended.        *)
(***************************************************************************)
EXTENDS PtyWriter, FiniteSetTheorems, SequenceTheorems, TLAPS

KeyByte   == {"key"} \X Nat \X {0}
PasteByte == ({"start", "end"} \X Nat \X {0}) \cup ({"chunk"} \X Nat \X Nat)
Byte      == KeyByte \cup PasteByte

TypeOK ==
    /\ open \in BOOLEAN /\ freed \in BOOLEAN /\ bracketed \in BOOLEAN
    /\ sending \in BOOLEAN /\ armed \in BOOLEAN /\ target \in BOOLEAN
    /\ normal \in Seq(KeyByte) /\ paste \in Seq(PasteByte)
    /\ out \in Seq(Byte) /\ pasted \in Seq(PasteByte)
    /\ keys \in Nat /\ pastes \in Nat
    /\ receiving \subseteq (1 .. pastes) \X Nat

(***************************************************************************)
(* Bytes of two kinds in one sequence                                      *)
(***************************************************************************)

LEMMA Kinds ==
  /\ \A b \in KeyByte : Kind(b) = "key"
  /\ \A b \in PasteByte : Kind(b) = "paste"
BY DEF KeyByte, PasteByte, Kind, IsKey

LEMMA CountType ==
  ASSUME NEW s, NEW kind, NEW n \in Nat
  PROVE  /\ IsFiniteSet(Places(s, kind, n))
         /\ Count(s, kind, n) \in 0 .. n
<1>1. IsFiniteSet(1 .. n) /\ Cardinality(1 .. n) = n
  BY FS_Interval
<1>2. Places(s, kind, n) \in SUBSET (1 .. n)
  BY DEF Places
<1>3. IsFiniteSet(Places(s, kind, n)) /\ Cardinality(Places(s, kind, n)) <= n
  BY <1>1, <1>2, FS_Subset
<1>4. Cardinality(Places(s, kind, n)) \in Nat
  BY <1>3, FS_CardinalityType
<1>. QED
  BY <1>3, <1>4 DEF Count

\* A byte of the kind is counted, and found among those counted.
LEMMA CountPositive ==
  ASSUME NEW s, NEW kind, NEW n \in Nat, NEW i \in 1 .. n, Kind(s[i]) = kind
  PROVE  Count(s, kind, i) \in 1 .. Count(s, kind, n)
<1>1. /\ IsFiniteSet(Places(s, kind, i)) /\ IsFiniteSet(Places(s, kind, n))
      /\ Count(s, kind, i) \in Nat /\ Count(s, kind, n) \in Nat
  BY CountType
<1>2. i \in Places(s, kind, i) /\ Places(s, kind, i) \in SUBSET Places(s, kind, n)
  BY DEF Places
<1>3. Cardinality(Places(s, kind, i)) # 0
  BY <1>1, <1>2, FS_EmptySet
<1>4. Cardinality(Places(s, kind, i)) <= Cardinality(Places(s, kind, n))
  BY <1>1, <1>2, FS_Subset
<1>. QED
  BY <1>1, <1>3, <1>4 DEF Count

LEMMA Interval ==
  ASSUME NEW a \in Nat, NEW m \in Nat
  PROVE  IsFiniteSet(a + 1 .. a + m) /\ Cardinality(a + 1 .. a + m) = m
<1>1. a + 1 \in Int /\ a + m \in Int /\ (a + 1 > a + m <=> m = 0)
  OBVIOUS
<1>. DEFINE lo == a + 1  hi == a + m
<1>2. IsFiniteSet(lo .. hi) /\ Cardinality(lo .. hi) = IF lo > hi THEN 0 ELSE hi - lo + 1
  <2>. HIDE DEF lo, hi
  <2>1. lo \in Int /\ hi \in Int
    BY <1>1 DEF lo, hi
  <2>. QED
    BY <2>1, FS_Interval
<1>3. hi - lo + 1 = m
  OBVIOUS
<1>. QED
  BY <1>1, <1>2, <1>3

\* What is appended does not change how many came before ...
LEMMA CountBefore ==
  ASSUME NEW s \in Seq(Byte), NEW x \in Seq(Byte), NEW kind, NEW n \in 0 .. Len(s)
  PROVE  Count(s \o x, kind, n) = Count(s, kind, n)
<1>1. \A i \in 1 .. n : (s \o x)[i] = s[i]
  BY ConcatProperties
<1>2. Places(s \o x, kind, n) = Places(s, kind, n)
  BY <1>1 DEF Places
<1>. QED
  BY <1>2 DEF Count

\* ... adds to the count of its own kind ...
LEMMA CountOwn ==
  ASSUME NEW s \in Seq(Byte), NEW x \in Seq(Byte), NEW kind,
         \A i \in 1 .. Len(x) : Kind(x[i]) = kind,
         NEW m \in 0 .. Len(x)
  PROVE  Count(s \o x, kind, Len(s) + m) = Count(s, kind, Len(s)) + m
<1>. DEFINE S == Places(s, kind, Len(s))
            M == Len(s) + 1 .. Len(s) + m
<1>0. Len(s) \in Nat /\ Len(x) \in Nat
  BY LenProperties
<1>1. Places(s \o x, kind, Len(s) + m) = S \cup M /\ S \cap M = {}
  <2>1. \A i \in 1 .. Len(s) : (s \o x)[i] = s[i]
    BY ConcatProperties
  <2>2. \A i \in M : (s \o x)[i] = x[i - Len(s)] /\ i - Len(s) \in 1 .. Len(x)
    BY ConcatProperties, <1>0
  <2>. QED
    BY <2>1, <2>2, <1>0 DEF Places
<1>2. IsFiniteSet(S) /\ Cardinality(S) \in Nat
  <2>1. IsFiniteSet(S)
    BY CountType, <1>0
  <2>. QED
    BY <2>1, FS_CardinalityType
<1>3. IsFiniteSet(M) /\ Cardinality(M) = m
  BY <1>0, Interval
<1>4. Cardinality(S \cap M) = 0
  BY <1>1, FS_EmptySet
<1>5. Cardinality(S \cup M) = Cardinality(S) + m
  <2>. HIDE DEF S, M
  <2>1. Cardinality(S \cup M) = Cardinality(S) + Cardinality(M) - Cardinality(S \cap M)
    BY <1>2, <1>3, FS_Union
  <2>. QED
    BY <2>1, <1>2, <1>3, <1>4
<1>. QED
  BY <1>1, <1>5 DEF Count

\* ... and not to that of the other.
LEMMA CountOther ==
  ASSUME NEW s \in Seq(Byte), NEW x \in Seq(Byte), NEW kind,
         \A i \in 1 .. Len(x) : Kind(x[i]) # kind
  PROVE  Count(s \o x, kind, Len(s \o x)) = Count(s, kind, Len(s))
<1>1. Len(s) \in Nat /\ Len(x) \in Nat /\ Len(s \o x) = Len(s) + Len(x)
  BY LenProperties, ConcatProperties
<1>2. \A i \in 1 .. Len(s \o x) :
        (s \o x)[i] = IF i <= Len(s) THEN s[i] ELSE x[i - Len(s)]
  BY ConcatProperties, <1>1
<1>3. Places(s \o x, kind, Len(s \o x)) = Places(s, kind, Len(s))
  BY <1>1, <1>2 DEF Places
<1>. QED
  BY <1>3 DEF Count

(***************************************************************************)
(* Keeping a kind of bytes in order                                        *)
(***************************************************************************)

\* What is written of the other kind changes nothing.
LEMMA OrderOther ==
  ASSUME NEW s \in Seq(Byte), NEW x \in Seq(Byte), NEW kind, NEW queue, NEW given,
         \A i \in 1 .. Len(x) : Kind(x[i]) # kind,
         InOrder(s, kind, queue, given)
  PROVE  InOrder(s \o x, kind, queue, given)
<1>1. Count(s \o x, kind, Len(s \o x)) = Count(s, kind, Len(s))
  BY CountOther
<1>2. Len(s) \in Nat /\ Len(x) \in Nat /\ Len(s \o x) = Len(s) + Len(x)
  BY LenProperties, ConcatProperties
<1>3. ASSUME NEW i \in 1 .. Len(s \o x), Kind((s \o x)[i]) = kind
      PROVE  (s \o x)[i] = given[Count(s \o x, kind, i)]
  <2>1. (s \o x)[i] = IF i <= Len(s) THEN s[i] ELSE x[i - Len(s)]
    BY ConcatProperties, <1>2
  <2>2. i <= Len(s)
    BY <1>2, <1>3, <2>1
  <2>3. Count(s \o x, kind, i) = Count(s, kind, i)
    BY <2>2, <1>2, CountBefore
  <2>. QED
    BY <2>1, <2>2, <2>3, <1>2, <1>3 DEF InOrder
<1>. QED
  BY <1>1, <1>3 DEF InOrder

\* What is written is the head of the queue.
LEMMA OrderOwn ==
  ASSUME NEW s \in Seq(Byte), NEW x \in Seq(Byte), NEW q \in Seq(Byte),
         NEW kind, NEW given \in Seq(Byte),
         \A i \in 1 .. Len(x) : Kind(x[i]) = kind,
         InOrder(s, kind, x \o q, given)
  PROVE  InOrder(s \o x, kind, q, given)
<1>. DEFINE n == Count(s, kind, Len(s))
<1>0. Len(s) \in Nat /\ Len(x) \in Nat /\ Len(q) \in Nat
  BY LenProperties
<1>1. /\ Len(s) \in Nat /\ Len(x) \in Nat /\ Len(q) \in Nat /\ n \in Nat
      /\ Len(s \o x) = Len(s) + Len(x) /\ Len(x \o q) = Len(x) + Len(q)
  <2>1. n \in Nat
    BY <1>0, CountType
  <2>2. Len(s \o x) = Len(s) + Len(x) /\ Len(x \o q) = Len(x) + Len(q)
    BY ConcatProperties
  <2>. QED
    BY <1>0, <2>1, <2>2
<1>2. \A m \in 0 .. Len(x) : Count(s \o x, kind, Len(s) + m) = n + m
  BY CountOwn
<1>3. Count(s \o x, kind, Len(s \o x)) = n + Len(x)
  BY <1>1, <1>2
<1>4. Len(given) = n + Len(x) + Len(q)
  BY <1>1 DEF InOrder
<1>5. ASSUME NEW i \in 1 .. Len(s \o x), Kind((s \o x)[i]) = kind
      PROVE  (s \o x)[i] = given[Count(s \o x, kind, i)]
  <2>1. (s \o x)[i] = IF i <= Len(s) THEN s[i] ELSE x[i - Len(s)]
    BY ConcatProperties, <1>1
  <2>2. CASE i <= Len(s)
    <3>1. Count(s \o x, kind, i) = Count(s, kind, i)
      BY <2>2, <1>1, CountBefore
    <3>. QED
      BY <2>1, <2>2, <3>1, <1>1, <1>5 DEF InOrder
  <2>3. CASE i > Len(s)
    <3>. DEFINE m == i - Len(s)
    <3>1. m \in 1 .. Len(x) /\ i = Len(s) + m
      BY <2>3, <1>1
    <3>2. Count(s \o x, kind, i) = n + m
      BY <3>1, <1>2
    <3>3. (x \o q)[m] = given[n + m]
      BY <3>1, <1>1 DEF InOrder
    <3>4. (x \o q)[m] = x[m]
      BY <3>1, <1>1, ConcatProperties
    <3>. QED
      BY <2>1, <2>3, <3>1, <3>2, <3>3, <3>4
  <2>. QED
    BY <2>2, <2>3, <1>1
<1>6. ASSUME NEW i \in 1 .. Len(q)
      PROVE  q[i] = given[n + Len(x) + i]
  <2>. DEFINE j == Len(x) + i
  <2>0. j \in 1 .. Len(x \o q) /\ j \in 1 .. Len(x) + Len(q)
        /\ ~(j <= Len(x)) /\ j - Len(x) = i
    BY <1>1
  <2>. HIDE DEF j, n
  <2>1. (x \o q)[j] = given[n + j]
    BY <2>0 DEF InOrder, n
  <2>2. (x \o q)[j] = q[i]
    BY <2>0, ConcatProperties
  <2>3. n + j = n + Len(x) + i
    BY <1>1 DEF j
  <2>. QED
    BY <2>1, <2>2, <2>3
<1>. QED
  BY <1>1, <1>3, <1>4, <1>5, <1>6 DEF InOrder

\* What is given is appended to the queue.
LEMMA OrderGiven ==
  ASSUME NEW s \in Seq(Byte), NEW x \in Seq(Byte), NEW q \in Seq(Byte),
         NEW kind, NEW given \in Seq(Byte),
         InOrder(s, kind, q, given)
  PROVE  InOrder(s, kind, q \o x, given \o x)
<1>. DEFINE n == Count(s, kind, Len(s))
<1>1. /\ Len(s) \in Nat /\ Len(x) \in Nat /\ Len(q) \in Nat /\ n \in Nat
      /\ Len(given) = n + Len(q)
      /\ Len(q \o x) = Len(q) + Len(x) /\ Len(given \o x) = n + Len(q) + Len(x)
  <2>1. Len(s) \in Nat /\ Len(x) \in Nat /\ Len(q) \in Nat
    BY LenProperties
  <2>2. n \in Nat
    BY <2>1, CountType
  <2>3. Len(q \o x) = Len(q) + Len(x) /\ Len(given \o x) = Len(given) + Len(x)
    BY ConcatProperties
  <2>. QED
    BY <2>1, <2>2, <2>3 DEF InOrder
<1>2. ASSUME NEW i \in 1 .. Len(s), Kind(s[i]) = kind
      PROVE  s[i] = (given \o x)[Count(s, kind, i)]
  <2>1. Count(s, kind, i) \in 1 .. n
    BY CountPositive, <1>1, <1>2
  <2>2. (given \o x)[Count(s, kind, i)] = given[Count(s, kind, i)]
    BY <2>1, <1>1, ConcatProperties
  <2>. QED
    BY <2>2, <1>2 DEF InOrder
<1>3. ASSUME NEW i \in 1 .. Len(q \o x)
      PROVE  (q \o x)[i] = (given \o x)[n + i]
  <2>. DEFINE j == n + i
  <2>0. /\ i \in 1 .. Len(q) + Len(x) /\ j \in 1 .. Len(given) + Len(x)
        /\ i <= Len(q) <=> j <= Len(given)
        /\ i - Len(q) = j - Len(given)
        /\ i <= Len(q) => i \in 1 .. Len(q)
    BY <1>1
  <2>1. (q \o x)[i] = IF i <= Len(q) THEN q[i] ELSE x[i - Len(q)]
    BY <2>0, ConcatProperties
  <2>2. (given \o x)[j] = IF j <= Len(given) THEN given[j] ELSE x[j - Len(given)]
    <3>. HIDE DEF j
    <3>. QED BY <2>0, ConcatProperties
  <2>3. i <= Len(q) => q[i] = given[j]
    BY <2>0 DEF InOrder
  <2>. HIDE DEF j
  <2>4. (q \o x)[i] = (given \o x)[j]
    BY <2>0, <2>1, <2>2, <2>3
  <2>. QED
    BY <2>4 DEF j
<1>4. Len(given \o x) = n + Len(q \o x)
  BY <1>1
<1>. QED
  BY <1>2, <1>3, <1>4 DEF InOrder

(***************************************************************************)
(* Writing in part                                                         *)
(***************************************************************************)

\* A sequence is what was cut from its head and what is left.
LEMMA Cut ==
  ASSUME NEW S, NEW s \in Seq(S), NEW m \in 0 .. Len(s)
  PROVE  /\ SubSeq(s, 1, m) \in Seq(S) /\ Len(SubSeq(s, 1, m)) = m
         /\ SubSeq(s, m + 1, Len(s)) \in Seq(S)
         /\ Len(SubSeq(s, m + 1, Len(s))) = Len(s) - m
         /\ SubSeq(s, 1, m) \o SubSeq(s, m + 1, Len(s)) = s
<1>1. Len(s) \in Nat /\ m \in Nat /\ m <= Len(s)
  BY LenProperties
<1>2. \A i \in 1 .. m : s[i] \in S
  BY <1>1, ElementOfSeq
<1>3. \A i \in m + 1 .. Len(s) : s[i] \in S
  BY <1>1, ElementOfSeq
<1>4. SubSeq(s, 1, m) \in Seq(S) /\ Len(SubSeq(s, 1, m)) = m
  BY <1>1, <1>2, SubSeqProperties
<1>5. /\ SubSeq(s, m + 1, Len(s)) \in Seq(S)
      /\ Len(SubSeq(s, m + 1, Len(s))) = Len(s) - m
  <2>. DEFINE lo == m + 1
  <2>1. lo \in Int /\ Len(s) \in Int /\ \A i \in lo .. Len(s) : s[i] \in S
    BY <1>1, <1>3
  <2>2. /\ SubSeq(s, lo, Len(s)) \in Seq(S)
        /\ Len(SubSeq(s, lo, Len(s))) = IF lo <= Len(s) THEN Len(s) - lo + 1 ELSE 0
    <3>. HIDE DEF lo
    <3>. QED BY <2>1, SubSeqProperties
  <2>. QED
    BY <1>1, <2>2
<1>6. SubSeq(s, 1, m) \o SubSeq(s, m + 1, Len(s)) = SubSeq(s, 1, Len(s))
  <2>1. 1 \in 1 .. Len(s) + 1 /\ m \in 1 - 1 .. Len(s) /\ Len(s) \in m .. Len(s)
    BY <1>1
  <2>. QED
    BY <2>1, ConcatAdjacentSubSeq
<1>7. SubSeq(s, 1, Len(s)) = s
  BY SubSeqFull
<1>. QED
  BY <1>4, <1>5, <1>6, <1>7

\* The head of two queues is a head of the first, or the first and a head of
\* the second.
LEMMA CutOfTwo ==
  ASSUME NEW S, NEW s \in Seq(S), NEW t \in Seq(S), NEW m \in 0 .. Len(s) + Len(t)
  PROVE  /\ m <= Len(s) => SubSeq(s \o t, 1, m) = SubSeq(s, 1, m)
         /\ m > Len(s) => SubSeq(s \o t, 1, m) = s \o SubSeq(t, 1, m - Len(s))
<1>1. Len(s) \in Nat /\ Len(t) \in Nat /\ m \in Nat
  BY LenProperties
<1>2. /\ s \o t \in Seq(S) /\ Len(s \o t) = Len(s) + Len(t)
      /\ \A i \in 1 .. Len(s) + Len(t) :
           (s \o t)[i] = IF i <= Len(s) THEN s[i] ELSE t[i - Len(s)]
  BY ConcatProperties
<1>3. /\ SubSeq(s \o t, 1, m) \in Seq(S) /\ Len(SubSeq(s \o t, 1, m)) = m
      /\ \A i \in 1 .. m : SubSeq(s \o t, 1, m)[i] = (s \o t)[i]
  <2>1. \A i \in 1 .. m : (s \o t)[i] \in S
    BY <1>1, <1>2, ElementOfSeq
  <2>. QED
    BY <2>1, <1>1, SubSeqProperties
<1>4. ASSUME m <= Len(s) PROVE SubSeq(s \o t, 1, m) = SubSeq(s, 1, m)
  <2>1. /\ SubSeq(s, 1, m) \in Seq(S) /\ Len(SubSeq(s, 1, m)) = m
        /\ \A i \in 1 .. m : SubSeq(s, 1, m)[i] = s[i]
    <3>1. \A i \in 1 .. m : s[i] \in S
      BY <1>1, <1>4, ElementOfSeq
    <3>. QED
      BY <3>1, <1>1, SubSeqProperties
  <2>2. \A i \in 1 .. m : SubSeq(s \o t, 1, m)[i] = SubSeq(s, 1, m)[i]
    BY <1>1, <1>2, <1>3, <1>4, <2>1
  <2>. QED
    BY <1>3, <2>1, <2>2, SeqEqual
<1>5. ASSUME m > Len(s) PROVE SubSeq(s \o t, 1, m) = s \o SubSeq(t, 1, m - Len(s))
  <2>. DEFINE n == m - Len(s)  u == SubSeq(t, 1, n)
  <2>1. n \in 1 .. Len(t) /\ m = Len(s) + n
    BY <1>1, <1>5
  <2>2. u \in Seq(S) /\ Len(u) = n /\ \A i \in 1 .. n : u[i] = t[i]
    <3>1. \A i \in 1 .. n : t[i] \in S
      BY <1>1, <2>1, ElementOfSeq
    <3>2. n \in Int
      BY <2>1
    <3>. HIDE DEF n
    <3>. QED
      BY <3>1, <3>2, <2>1, SubSeqProperties
  <2>. HIDE DEF n, u
  <2>3. /\ s \o u \in Seq(S) /\ Len(s \o u) = m
        /\ \A i \in 1 .. m : (s \o u)[i] = IF i <= Len(s) THEN s[i] ELSE u[i - Len(s)]
    BY <2>1, <2>2, ConcatProperties
  <2>4. \A i \in 1 .. m : SubSeq(s \o t, 1, m)[i] = (s \o u)[i]
    BY <1>1, <1>2, <1>3, <2>1, <2>2, <2>3
  <2>5. SubSeq(s \o t, 1, m) = s \o u
    BY <1>3, <2>3, <2>4, SeqEqual
  <2>. QED
    BY <2>5 DEF u, n
<1>. QED
  BY <1>4, <1>5

\* The two bytes of a buffer, of which k are written.
LEMMA Halves ==
  ASSUME NEW S, NEW b \in S, NEW k \in 0 .. 2
  PROVE  /\ Bytes(b) \in Seq(S) /\ Len(Bytes(b)) = 2
         /\ \A i \in 1 .. 2 : Bytes(b)[i] = b
         /\ SubSeq(Bytes(b), 1, k) \in Seq(S)
         /\ \A i \in 1 .. Len(SubSeq(Bytes(b), 1, k)) : SubSeq(Bytes(b), 1, k)[i] \in S
         /\ SubSeq(Bytes(b), k + 1, 2) \in Seq(S)
         /\ SubSeq(Bytes(b), 1, k) \o SubSeq(Bytes(b), k + 1, 2) = Bytes(b)
         /\ SubSeq(Bytes(b), k + 1, 2) = <<>> <=> k = 2
<1>1. Bytes(b) \in Seq(S) /\ Len(Bytes(b)) = 2 /\ \A i \in 1 .. 2 : Bytes(b)[i] = b
  BY DEF Bytes
<1>2. /\ SubSeq(Bytes(b), 1, k) \in Seq(S) /\ Len(SubSeq(Bytes(b), 1, k)) = k
      /\ SubSeq(Bytes(b), k + 1, 2) \in Seq(S) /\ Len(SubSeq(Bytes(b), k + 1, 2)) = 2 - k
      /\ SubSeq(Bytes(b), 1, k) \o SubSeq(Bytes(b), k + 1, 2) = Bytes(b)
  <2>. DEFINE s == Bytes(b)
  <2>1. s \in Seq(S) /\ k \in 0 .. Len(s) /\ Len(s) = 2
    BY <1>1
  <2>. HIDE DEF s
  <2>2. /\ SubSeq(s, 1, k) \in Seq(S) /\ Len(SubSeq(s, 1, k)) = k
        /\ SubSeq(s, k + 1, 2) \in Seq(S) /\ Len(SubSeq(s, k + 1, 2)) = 2 - k
        /\ SubSeq(s, 1, k) \o SubSeq(s, k + 1, 2) = s
    BY <2>1, Cut
  <2>. QED
    BY <2>2 DEF s
<1>3. \A i \in 1 .. Len(SubSeq(Bytes(b), 1, k)) : SubSeq(Bytes(b), 1, k)[i] \in S
  BY <1>2, ElementOfSeq
<1>4. SubSeq(Bytes(b), k + 1, 2) = <<>> <=> k = 2
  BY <1>2, EmptySeq
<1>. QED
  BY <1>1, <1>2, <1>3, <1>4

(***************************************************************************)
(* What term_to_slave() and term_paste_data_to_slave() do                  *)
(***************************************************************************)

LEMMA Seqs ==
  /\ \A s \in Seq(KeyByte) : s \in Seq(Byte) /\ \A i \in 1 .. Len(s) : Kind(s[i]) = "key"
  /\ \A s \in Seq(PasteByte) :
       s \in Seq(Byte) /\ \A i \in 1 .. Len(s) : Kind(s[i]) = "paste"
<1>1. KeyByte \subseteq Byte /\ PasteByte \subseteq Byte
  BY DEF Byte
<1>2. ASSUME NEW s \in Seq(KeyByte)
      PROVE  s \in Seq(Byte) /\ \A i \in 1 .. Len(s) : Kind(s[i]) = "key"
  BY <1>1, SeqMonotonic, ElementOfSeq, Kinds
<1>3. ASSUME NEW s \in Seq(PasteByte)
      PROVE  s \in Seq(Byte) /\ \A i \in 1 .. Len(s) : Kind(s[i]) = "paste"
  BY <1>1, SeqMonotonic, ElementOfSeq, Kinds
<1>. QED
  BY <1>2, <1>3

\* One more key: two more bytes.
LEMMA TypedNext ==
  ASSUME keys \in Nat
  PROVE  /\ Typed \in Seq(KeyByte) /\ Key(keys + 1) \in KeyByte
         /\ [i \in 1 .. 2 * (keys + 1) |-> Key((i + 1) \div 2)]
              = Typed \o Bytes(Key(keys + 1))
<1>. DEFINE T == [i \in 1 .. 2 * (keys + 1) |-> Key((i + 1) \div 2)]
            x == Bytes(Key(keys + 1))
<1>1. \A n \in Nat : Key(n) \in KeyByte
  BY DEF Key, KeyByte
<1>2. Typed \in Seq(KeyByte) /\ Len(Typed) = 2 * keys
  <2>1. \A i \in 1 .. 2 * keys : (i + 1) \div 2 \in Nat
    OBVIOUS
  <2>. QED
    BY <1>1, <2>1 DEF Typed
<1>3. T \in Seq(KeyByte) /\ Len(T) = 2 * keys + 2
  <2>1. \A i \in 1 .. 2 * (keys + 1) : (i + 1) \div 2 \in Nat
    OBVIOUS
  <2>. QED
    BY <1>1, <2>1
<1>4. x \in Seq(KeyByte) /\ Len(x) = 2 /\ \A i \in 1 .. 2 : x[i] = Key(keys + 1)
  <2>1. Key(keys + 1) \in KeyByte /\ 0 \in 0 .. 2
    BY <1>1
  <2>. QED
    BY <2>1, Halves
<1>5. /\ Typed \o x \in Seq(KeyByte) /\ Len(Typed \o x) = 2 * keys + 2
      /\ \A i \in 1 .. 2 * keys + 2 :
           (Typed \o x)[i] = IF i <= 2 * keys THEN Typed[i] ELSE x[i - 2 * keys]
  <2>. HIDE DEF x
  <2>1. /\ Typed \o x \in Seq(KeyByte) /\ Len(Typed \o x) = Len(Typed) + Len(x)
        /\ \A i \in 1 .. Len(Typed) + Len(x) :
             (Typed \o x)[i] = IF i <= Len(Typed) THEN Typed[i] ELSE x[i - Len(Typed)]
    BY <1>2, <1>4, ConcatProperties
  <2>. QED
    BY <1>2, <1>4, <2>1
<1>6. ASSUME NEW i \in 1 .. 2 * keys + 2 PROVE T[i] = (Typed \o x)[i]
  <2>1. CASE i <= 2 * keys
    BY <1>5, <2>1 DEF Typed
  <2>2. CASE i > 2 * keys
    <3>1. i - 2 * keys \in 1 .. 2 /\ (i + 1) \div 2 = keys + 1
      BY <2>2
    <3>2. i \in 1 .. 2 * (keys + 1)
      OBVIOUS
    <3>3. T[i] = Key((i + 1) \div 2)
      BY <3>2
    <3>4. (Typed \o x)[i] = x[i - 2 * keys] /\ x[i - 2 * keys] = Key(keys + 1)
      <4>. HIDE DEF T, x
      <4>. QED
        BY <1>4, <1>5, <2>2, <3>1
    <3>. HIDE DEF T, x
    <3>. QED
      BY <3>1, <3>3, <3>4
  <2>3. i <= 2 * keys \/ i > 2 * keys
    OBVIOUS
  <2>. HIDE DEF T, x
  <2>. QED
    BY <2>1, <2>2, <2>3
<1>7. T = Typed \o x
  <2>. HIDE DEF T, x
  <2>. QED
    BY <1>3, <1>5, <1>6, SeqEqual
<1>8. Key(keys + 1) \in KeyByte
  BY <1>1
<1>. HIDE DEF x
<1>. QED
  BY <1>2, <1>7, <1>8 DEF x

\* term_to_slave() keeps both kinds in order, and leaves nothing in the queue
\* that was not there before and that neither the PTY's polling nor a paste is
\* going to write.
LEMMA KeyStep ==
  ASSUME TypeOK, InOrder(out, "key", normal, Typed), InOrder(out, "paste", paste, pasted),
         NEW c \in TermToSlaveOutcomes(Channel, Key(keys + 1))
  PROVE  /\ c.out \in Seq(Byte) /\ c.normal \in Seq(KeyByte) /\ c.paste = paste
         /\ InOrder(c.out, "key", c.normal, Typed \o Bytes(Key(keys + 1)))
         /\ InOrder(c.out, "paste", paste, pasted)
         /\ c.armed \in BOOLEAN /\ (armed => c.armed)
         /\ normal # <<>> => c.normal # <<>>
         /\ c.armed => armed \/ c.normal # <<>>
         /\ c.normal # <<>> => c.armed \/ sending \/ normal # <<>>
<1>. DEFINE b == Key(keys + 1)
<1>1. b \in KeyByte /\ Typed \in Seq(KeyByte)
  BY TypedNext DEF TypeOK
<1>2. Bytes(b) \in Seq(KeyByte) /\ Len(Bytes(b)) = 2
  <2>1. 0 \in 0 .. 2
    OBVIOUS
  <2>. HIDE DEF b
  <2>. QED
    BY <1>1, <2>1, Halves
<1>. HIDE DEF b
<1>3. InOrder(out, "key", normal \o Bytes(b), Typed \o Bytes(b))
  BY <1>1, <1>2, Seqs, OrderGiven DEF TypeOK
<1>4. CASE normal # <<>> \/ sending
  <2>1. c = [Channel EXCEPT !.normal = normal \o Bytes(b)]
    BY <1>4 DEF TermToSlaveOutcomes, Channel, b
  <2>2. c.out = out /\ c.normal = normal \o Bytes(b) /\ c.paste = paste /\ c.armed = armed
    BY <2>1 DEF Channel
  <2>3. normal \o Bytes(b) \in Seq(KeyByte) /\ normal \o Bytes(b) # <<>>
    <3>1. normal \in Seq(KeyByte) /\ Len(normal) \in Nat
      BY LenProperties DEF TypeOK
    <3>2. /\ normal \o Bytes(b) \in Seq(KeyByte)
          /\ Len(normal \o Bytes(b)) = Len(normal) + Len(Bytes(b))
      BY <3>1, <1>2, ConcatProperties
    <3>3. Len(normal \o Bytes(b)) # 0
      BY <3>1, <3>2, <1>2
    <3>. QED
      BY <3>2, <3>3, EmptySeq
  <2>. QED
    BY <1>3, <1>4, <2>2, <2>3 DEF TypeOK, b
<1>5. CASE normal = <<>> /\ ~sending
  <2>1. PICK k \in 0 .. 2 :
          c = [Channel EXCEPT !.out = out \o SubSeq(Bytes(b), 1, k),
                              !.normal = normal \o SubSeq(Bytes(b), k + 1, 2),
                              !.armed = armed \/ k < 2]
    <3>0. /\ Channel.out = out /\ Channel.normal = normal /\ Channel.paste = paste
          /\ Channel.armed = armed
      BY DEF Channel
    <3>1. c \in DataToSlave(Channel, b, "normal")
      BY <1>5 DEF TermToSlaveOutcomes, Channel, b
    <3>2. PICK k \in Accepted(Channel) :
            c = [Channel EXCEPT !.out = @ \o SubSeq(Bytes(b), 1, k),
                                !["normal"] = @ \o SubSeq(Bytes(b), k + 1, 2),
                                !.armed = @ \/ k < 2]
      BY <3>1 DEF DataToSlave
    <3>3. k \in 0 .. 2
      BY DEF Accepted
    <3>. QED
      BY <3>0, <3>2, <3>3 DEF Channel
  <2>. DEFINE x == SubSeq(Bytes(b), 1, k)  y == SubSeq(Bytes(b), k + 1, 2)
  <2>2. /\ x \in Seq(KeyByte) /\ y \in Seq(KeyByte) /\ x \o y = Bytes(b)
        /\ y = <<>> <=> k = 2
    BY <1>1, Halves
  <2>. HIDE DEF x, y
  <2>3. c.out = out \o x /\ c.normal = y /\ c.paste = paste /\ c.armed = (armed \/ k < 2)
    <3>1. normal \o y = y
      BY <1>5, <2>2, ConcatEmptySeq
    <3>. QED
      BY <2>1, <3>1 DEF Channel, x, y
  <2>4. InOrder(out, "key", x \o y, Typed \o Bytes(b))
    <3>1. normal \o Bytes(b) = Bytes(b)
      BY <1>2, <1>5, ConcatEmptySeq
    <3>. QED
      BY <1>3, <2>2, <3>1
  <2>5. InOrder(out \o x, "key", y, Typed \o Bytes(b))
    <3>1. Typed \o Bytes(b) \in Seq(Byte)
      BY <1>1, <1>2, Seqs, ConcatProperties
    <3>. QED
      BY <2>2, <2>4, <3>1, Seqs, OrderOwn DEF TypeOK
  <2>6. InOrder(out \o x, "paste", paste, pasted)
    <3>1. \A i \in 1 .. Len(x) : Kind(x[i]) # "paste"
      BY <2>2, Seqs
    <3>. QED
      BY <2>2, <3>1, Seqs, OrderOther DEF TypeOK
  <2>7. out \o x \in Seq(Byte)
    BY <2>2, Seqs, ConcatProperties DEF TypeOK
  <2>8. /\ c.armed \in BOOLEAN /\ (armed => c.armed)
        /\ c.armed => armed \/ c.normal # <<>>
        /\ c.normal # <<>> => c.armed
    <3>1. k < 2 <=> k # 2
      OBVIOUS
    <3>2. c.armed <=> armed \/ k # 2
      BY <2>3, <3>1
    <3>3. c.armed \in BOOLEAN
      BY <2>3, <3>1 DEF TypeOK
    <3>. QED
      BY <2>2, <2>3, <3>2, <3>3
  <2>. QED
    BY <1>5, <2>2, <2>3, <2>5, <2>6, <2>7, <2>8 DEF b
<1>. QED
  BY <1>4, <1>5 DEF TypeOK

\* The same of term_paste_data_to_slave(), which polls the PTY whenever it
\* leaves something in the queue.
LEMMA PasteStep ==
  ASSUME TypeOK, open, InOrder(out, "key", normal, Typed), InOrder(out, "paste", paste, pasted),
         paste # <<>> => armed,
         NEW b \in PasteByte, NEW c \in PasteOutcomes(Channel, b)
  PROVE  /\ c.out \in Seq(Byte) /\ c.paste \in Seq(PasteByte) /\ c.normal = normal
         /\ pasted \o Bytes(b) \in Seq(PasteByte)
         /\ InOrder(c.out, "key", normal, Typed)
         /\ InOrder(c.out, "paste", c.paste, pasted \o Bytes(b))
         /\ c.armed \in BOOLEAN /\ (armed => c.armed)
         /\ paste # <<>> => c.paste # <<>>
         /\ c.armed => armed \/ c.paste # <<>>
         /\ c.paste # <<>> => c.armed
<1>2. Bytes(b) \in Seq(PasteByte) /\ Len(Bytes(b)) = 2
  <2>1. 0 \in 0 .. 2
    OBVIOUS
  <2>. QED
    BY <2>1, Halves
<1>3. InOrder(out, "paste", paste \o Bytes(b), pasted \o Bytes(b))
  BY <1>2, Seqs, OrderGiven DEF TypeOK
<1>0. pasted \o Bytes(b) \in Seq(PasteByte) /\ pasted \o Bytes(b) \in Seq(Byte)
  BY <1>2, Seqs, ConcatProperties DEF TypeOK
<1>4. CASE paste # <<>>
  <2>1. c = [Channel EXCEPT !.paste = paste \o Bytes(b)]
    BY <1>4 DEF PasteOutcomes, Channel
  <2>2. c.out = out /\ c.paste = paste \o Bytes(b) /\ c.normal = normal /\ c.armed = armed
    BY <2>1 DEF Channel
  <2>3. paste \o Bytes(b) \in Seq(PasteByte) /\ paste \o Bytes(b) # <<>>
    <3>1. paste \in Seq(PasteByte) /\ Len(paste) \in Nat
      BY LenProperties DEF TypeOK
    <3>2. /\ paste \o Bytes(b) \in Seq(PasteByte)
          /\ Len(paste \o Bytes(b)) = Len(paste) + Len(Bytes(b))
      BY <3>1, <1>2, ConcatProperties
    <3>3. Len(paste \o Bytes(b)) # 0
      BY <3>1, <3>2, <1>2
    <3>. QED
      BY <3>2, <3>3, EmptySeq
  <2>. QED
    BY <1>0, <1>3, <1>4, <2>2, <2>3 DEF TypeOK
<1>5. CASE paste = <<>>
  <2>1. PICK k \in 0 .. 2 :
          c = [Channel EXCEPT !.out = out \o SubSeq(Bytes(b), 1, k),
                              !.paste = paste \o SubSeq(Bytes(b), k + 1, 2),
                              !.armed = armed \/ k < 2]
    <3>0. /\ Channel.out = out /\ Channel.normal = normal /\ Channel.paste = paste
          /\ Channel.armed = armed
      BY DEF Channel
    <3>1. c \in DataToSlave(Channel, b, "paste")
      BY <1>5 DEF PasteOutcomes, Channel
    <3>2. PICK k \in Accepted(Channel) :
            c = [Channel EXCEPT !.out = @ \o SubSeq(Bytes(b), 1, k),
                                !["paste"] = @ \o SubSeq(Bytes(b), k + 1, 2),
                                !.armed = @ \/ k < 2]
      BY <3>1 DEF DataToSlave
    <3>3. k \in 0 .. 2
      BY DEF Accepted
    <3>. QED
      BY <3>0, <3>2, <3>3 DEF Channel
  <2>. DEFINE x == SubSeq(Bytes(b), 1, k)  y == SubSeq(Bytes(b), k + 1, 2)
  <2>2. /\ x \in Seq(PasteByte) /\ y \in Seq(PasteByte) /\ x \o y = Bytes(b)
        /\ y = <<>> <=> k = 2
    BY Halves
  <2>. HIDE DEF x, y
  <2>3. c.out = out \o x /\ c.paste = y /\ c.normal = normal /\ c.armed = (armed \/ k < 2)
    <3>1. paste \o y = y
      BY <1>5, <2>2, ConcatEmptySeq
    <3>. QED
      BY <2>1, <3>1 DEF Channel, x, y
  <2>4. InOrder(out, "paste", x \o y, pasted \o Bytes(b))
    <3>1. paste \o Bytes(b) = Bytes(b)
      BY <1>2, <1>5, ConcatEmptySeq
    <3>. QED
      BY <1>3, <2>2, <3>1
  <2>5. InOrder(out \o x, "paste", y, pasted \o Bytes(b))
    BY <1>0, <2>2, <2>4, Seqs, OrderOwn DEF TypeOK
  <2>6. InOrder(out \o x, "key", normal, Typed)
    <3>1. \A i \in 1 .. Len(x) : Kind(x[i]) # "key"
      BY <2>2, Seqs
    <3>. QED
      BY <2>2, <3>1, Seqs, OrderOther DEF TypeOK
  <2>7. out \o x \in Seq(Byte)
    BY <2>2, Seqs, ConcatProperties DEF TypeOK
  <2>8. /\ c.armed \in BOOLEAN /\ (armed => c.armed)
        /\ c.armed => armed \/ c.paste # <<>>
        /\ c.paste # <<>> => c.armed
    <3>1. k < 2 <=> k # 2
      OBVIOUS
    <3>2. c.armed <=> armed \/ k # 2
      BY <2>3, <3>1
    <3>3. c.armed \in BOOLEAN
      BY <2>3, <3>1 DEF TypeOK
    <3>. QED
      BY <2>2, <2>3, <3>2, <3>3
  <2>. QED
    BY <1>0, <1>5, <2>2, <2>3, <2>5, <2>6, <2>7, <2>8
<1>. QED
  BY <1>4, <1>5 DEF TypeOK

(***************************************************************************)
(* The inductive invariant                                                 *)
(***************************************************************************)

\* Only an open PTY is polled, and is_sending_paste_data is set only while
\* somebody is going to call receive_offer_done(), which polls for what waited.
SendingEnds == (armed => open) /\ (sending => receiving # {})

IInv == TypeOK /\ DataInOrder /\ PollsForData /\ SendingEnds

\* What a call of term_paste_data_to_slave() leaves, given what was pasted then.
Fits(c, given) ==
    /\ c.out \in Seq(Byte) /\ c.paste \in Seq(PasteByte) /\ c.normal = normal
    /\ given \in Seq(PasteByte)
    /\ open => InOrder(c.out, "key", normal, Typed) /\ InOrder(c.out, "paste", c.paste, given)
    /\ c.armed \in BOOLEAN /\ (armed => c.armed)
    /\ paste # <<>> => c.paste # <<>>
    /\ c.armed => armed \/ (open /\ c.paste # <<>>)
    /\ open /\ c.paste # <<>> => c.armed

LEMMA Idle ==
  ASSUME IInv
  PROVE  Fits(Channel, pasted)
<1>1. /\ Channel.out = out /\ Channel.normal = normal /\ Channel.paste = paste
      /\ Channel.armed = armed
  BY DEF Channel
<1>. QED
  BY <1>1 DEF IInv, TypeOK, DataInOrder, PollsForData, SendingEnds, Fits

LEMMA Offered ==
  ASSUME IInv, NEW b \in PasteByte, NEW c \in PasteOutcomes(Channel, b)
  PROVE  Fits(c, pasted \o Given(b))
<1>1. CASE open
  <2>1. Given(b) = Bytes(b)
    BY <1>1 DEF Given
  <2>2. paste # <<>> => armed
    BY <1>1 DEF IInv, PollsForData
  <2>. QED
    BY <1>1, <2>1, <2>2, PasteStep DEF IInv, DataInOrder, Fits
<1>2. CASE ~open
  <2>1. c = Channel
    BY <1>2 DEF PasteOutcomes
  <2>2. pasted \o Given(b) = pasted
    BY <1>2, ConcatEmptySeq DEF Given, IInv, TypeOK
  <2>. QED
    BY <2>1, <2>2, Idle
<1>. QED
  BY <1>1, <1>2

LEMMA Delimited ==
  ASSUME IInv, NEW b \in PasteByte, NEW c \in Delimiter(Channel, b)
  PROVE  Fits(c, IF bracketed THEN pasted \o Given(b) ELSE pasted)
BY Offered, Idle DEF Delimiter

LEMMA ChannelFields ==
  ASSUME NEW b, NEW c \in Delimiter(Channel, b)
  PROVE  DOMAIN c = {"out", "normal", "paste", "armed"}
BY DEF Delimiter, PasteOutcomes, DataToSlave, Channel

LEMMA Pastes ==
  ASSUME NEW p \in Nat, NEW n \in Nat
  PROVE  Start(p) \in PasteByte /\ Chunk(p, n) \in PasteByte /\ End(p) \in PasteByte
BY DEF Start, Chunk, End, PasteByte

LEMMA WriterInit == Init => IInv
<1>. SUFFICES ASSUME Init PROVE IInv
  OBVIOUS
<1>1. TypeOK
  BY EmptySeq DEF Init, TypeOK
<1>2. Typed = <<>>
  BY DEF Init, Typed
<1>3. Count(<<>>, "key", 0) = 0 /\ Count(<<>>, "paste", 0) = 0
  <2>1. 0 \in Nat
    OBVIOUS
  <2>. QED
    BY <2>1, CountType
<1>4. DataInOrder
  BY <1>2, <1>3 DEF Init, DataInOrder, InOrder
<1>5. PollsForData /\ SendingEnds
  BY DEF Init, PollsForData, SendingEnds
<1>. QED
  BY <1>1, <1>4, <1>5 DEF IInv

LEMMA KeyTyped ==
  ASSUME IInv, TermToSlave
  PROVE  IInv'
<1>1. PICK c \in TermToSlaveOutcomes(Channel, Key(keys + 1)) : SetChannel(c)
  BY DEF TermToSlave
<1>2. /\ open /\ open' = open /\ freed' = freed /\ bracketed' = bracketed
      /\ sending' = sending /\ receiving' = receiving /\ target' = target
      /\ pastes' = pastes /\ pasted' = pasted /\ keys' = keys + 1
  BY DEF TermToSlave
<1>3. InOrder(out, "key", normal, Typed) /\ InOrder(out, "paste", paste, pasted)
  BY <1>2 DEF IInv, DataInOrder
<1>4. /\ c.out \in Seq(Byte) /\ c.normal \in Seq(KeyByte) /\ c.paste = paste
      /\ InOrder(c.out, "key", c.normal, Typed \o Bytes(Key(keys + 1)))
      /\ InOrder(c.out, "paste", paste, pasted)
      /\ c.armed \in BOOLEAN /\ (armed => c.armed)
      /\ normal # <<>> => c.normal # <<>>
      /\ c.armed => armed \/ c.normal # <<>>
      /\ c.normal # <<>> => c.armed \/ sending \/ normal # <<>>
  BY <1>3, KeyStep DEF IInv
<1>5. out' = c.out /\ normal' = c.normal /\ paste' = c.paste /\ armed' = c.armed
  BY <1>1 DEF SetChannel
<1>6. Typed' = Typed \o Bytes(Key(keys + 1))
  BY <1>2, TypedNext DEF Typed, IInv, TypeOK
<1>7. TypeOK'
  BY <1>2, <1>4, <1>5 DEF IInv, TypeOK
<1>8. DataInOrder'
  BY <1>2, <1>4, <1>5, <1>6 DEF DataInOrder
<1>9. PollsForData' /\ SendingEnds'
  BY <1>2, <1>4, <1>5 DEF IInv, PollsForData, SendingEnds
<1>. QED
  BY <1>7, <1>8, <1>9 DEF IInv

\* A step that gives the PTY paste data, or none.
LEMMA Pasting ==
  ASSUME IInv, NEW c, Fits(c, pasted'),
         out' = c.out, normal' = c.normal, paste' = c.paste,
         open' = open, keys' = keys
  PROVE  DataInOrder' /\ out' \in Seq(Byte) /\ normal' \in Seq(KeyByte)
         /\ paste' \in Seq(PasteByte) /\ pasted' \in Seq(PasteByte)
<1>1. Typed' = Typed
  BY DEF Typed
<1>. QED
  BY <1>1 DEF IInv, TypeOK, DataInOrder, Fits

LEMMA PasteBegun ==
  ASSUME IInv, BeginReceive, target' \in BOOLEAN
  PROVE  IInv'
<1>1. PICK c \in Delimiter(Channel, Start(pastes + 1)) : SetChannel(c)
  BY DEF BeginReceive
<1>2. /\ open' = open /\ freed' = freed /\ bracketed' = bracketed /\ sending' = TRUE
      /\ receiving' = receiving \cup {<<pastes + 1, 0>>}
      /\ pastes' = pastes + 1 /\ keys' = keys
      /\ pasted' = IF bracketed THEN pasted \o Given(Start(pastes + 1)) ELSE pasted
  BY DEF BeginReceive
<1>3. Fits(c, pasted')
  <2>1. Start(pastes + 1) \in PasteByte
    BY Pastes DEF IInv, TypeOK
  <2>. QED
    BY <1>1, <1>2, <2>1, Delimited
<1>4. out' = c.out /\ normal' = c.normal /\ paste' = c.paste /\ armed' = c.armed
  BY <1>1 DEF SetChannel
<1>5. DataInOrder' /\ out' \in Seq(Byte) /\ normal' \in Seq(KeyByte)
      /\ paste' \in Seq(PasteByte) /\ pasted' \in Seq(PasteByte)
  BY <1>2, <1>3, <1>4, Pasting
<1>6. receiving' \subseteq (1 .. pastes') \X Nat
  BY <1>2 DEF IInv, TypeOK
<1>7. TypeOK'
  BY <1>2, <1>3, <1>4, <1>5, <1>6 DEF IInv, TypeOK, Fits
<1>8. PollsForData' /\ SendingEnds'
  BY <1>2, <1>3, <1>4 DEF IInv, PollsForData, SendingEnds, Fits
<1>. QED
  BY <1>5, <1>7, <1>8 DEF IInv

LEMMA PasteReceived ==
  ASSUME IInv, NEW r \in receiving, ReceiveOffer(r)
  PROVE  IInv'
<1>0. r \in (1 .. pastes) \X Nat
  BY DEF IInv, TypeOK
<1>1. PICK c \in PasteOutcomes(Channel, Chunk(r[1], r[2] + 1)) : SetChannel(c)
  BY DEF ReceiveOffer
<1>2. /\ open' = open /\ freed' = freed /\ bracketed' = bracketed /\ sending' = sending
      /\ receiving' = (receiving \ {r}) \cup {<<r[1], r[2] + 1>>}
      /\ pastes' = pastes /\ keys' = keys /\ target' = target
      /\ pasted' = pasted \o Given(Chunk(r[1], r[2] + 1))
  BY DEF ReceiveOffer
<1>3. Fits(c, pasted')
  <2>1. r[1] \in Nat /\ r[2] + 1 \in Nat
    BY <1>0 DEF IInv, TypeOK
  <2>2. Chunk(r[1], r[2] + 1) \in PasteByte
    BY <2>1, Pastes
  <2>. QED
    BY <1>1, <1>2, <2>2, Offered
<1>4. out' = c.out /\ normal' = c.normal /\ paste' = c.paste /\ armed' = c.armed
  BY <1>1 DEF SetChannel
<1>5. DataInOrder' /\ out' \in Seq(Byte) /\ normal' \in Seq(KeyByte)
      /\ paste' \in Seq(PasteByte) /\ pasted' \in Seq(PasteByte)
  BY <1>2, <1>3, <1>4, Pasting
<1>6. receiving' \subseteq (1 .. pastes') \X Nat /\ receiving' # {}
  <2>1. r[1] \in 1 .. pastes /\ r[2] + 1 \in Nat
    BY <1>0
  <2>2. <<r[1], r[2] + 1>> \in (1 .. pastes) \X Nat
    BY <2>1
  <2>. QED
    BY <1>2, <2>2 DEF IInv, TypeOK
<1>7. TypeOK'
  BY <1>2, <1>3, <1>4, <1>5, <1>6 DEF IInv, TypeOK, Fits
<1>8. PollsForData' /\ SendingEnds'
  BY <1>2, <1>3, <1>4, <1>6 DEF IInv, PollsForData, SendingEnds, Fits
<1>. QED
  BY <1>5, <1>7, <1>8 DEF IInv

LEMMA PasteDone ==
  ASSUME IInv, NEW r \in receiving, ReceiveOfferDone(r)
  PROVE  IInv'
<1>0. r \in (1 .. pastes) \X Nat
  BY DEF IInv, TypeOK
<1>1. PICK c \in Delimiter(Channel, End(r[1])) :
        SetChannel([c EXCEPT !.armed = @ \/ (open /\ c.normal # <<>>)])
  BY DEF ReceiveOfferDone
<1>2. /\ open' = open /\ freed' = freed /\ bracketed' = bracketed /\ sending' = FALSE
      /\ receiving' = receiving \ {r}
      /\ pastes' = pastes /\ keys' = keys /\ target' = target
      /\ pasted' = IF bracketed THEN pasted \o Given(End(r[1])) ELSE pasted
  BY DEF ReceiveOfferDone
<1>3. Fits(c, pasted')
  <2>1. r[1] \in Nat
    BY <1>0 DEF IInv, TypeOK
  <2>2. End(r[1]) \in PasteByte
    <3>1. 0 \in Nat
      OBVIOUS
    <3>. QED
      BY <2>1, <3>1, Pastes
  <2>. QED
    BY <1>1, <1>2, <2>2, Delimited
<1>4. /\ out' = c.out /\ normal' = c.normal /\ paste' = c.paste
      /\ armed' = (c.armed \/ (open /\ c.normal # <<>>))
  <2>1. DOMAIN c = {"out", "normal", "paste", "armed"}
    BY ChannelFields
  <2>. DEFINE d == [c EXCEPT !.armed = @ \/ (open /\ c.normal # <<>>)]
  <2>2. /\ d.out = c.out /\ d.normal = c.normal /\ d.paste = c.paste
        /\ d.armed = (c.armed \/ (open /\ c.normal # <<>>))
    BY <2>1
  <2>. HIDE DEF d
  <2>3. SetChannel(d)
    BY <1>1 DEF d
  <2>. QED
    BY <2>2, <2>3 DEF SetChannel
<1>5. DataInOrder' /\ out' \in Seq(Byte) /\ normal' \in Seq(KeyByte)
      /\ paste' \in Seq(PasteByte) /\ pasted' \in Seq(PasteByte)
  BY <1>2, <1>3, <1>4, Pasting
<1>6. receiving' \subseteq (1 .. pastes') \X Nat
  BY <1>0, <1>2 DEF IInv, TypeOK
<1>7. TypeOK'
  BY <1>2, <1>3, <1>4, <1>5, <1>6 DEF IInv, TypeOK, Fits
<1>8. PollsForData' /\ SendingEnds'
  BY <1>2, <1>3, <1>4, <1>6 DEF IInv, PollsForData, SendingEnds, Fits
<1>. QED
  BY <1>5, <1>7, <1>8 DEF IInv

LEMMA Written ==
  ASSUME IInv, FdmPtmxOut
  PROVE  IInv'
<1>. DEFINE waits == IF sending THEN <<>> ELSE normal
            queued == paste \o waits
<1>1. /\ open /\ open' = open /\ freed' = freed /\ bracketed' = bracketed
      /\ sending' = sending /\ receiving' = receiving /\ target' = target
      /\ pastes' = pastes /\ pasted' = pasted /\ keys' = keys
  BY DEF FdmPtmxOut
<1>2. /\ paste \in Seq(PasteByte) /\ normal \in Seq(KeyByte) /\ waits \in Seq(KeyByte)
      /\ Len(paste) \in Nat /\ Len(normal) \in Nat /\ Len(waits) \in Nat
      /\ paste \in Seq(Byte) /\ normal \in Seq(Byte) /\ waits \in Seq(Byte)
      /\ out \in Seq(Byte) /\ Len(queued) = Len(paste) + Len(waits)
  <2>1. paste \in Seq(PasteByte) /\ normal \in Seq(KeyByte) /\ out \in Seq(Byte)
    BY DEF IInv, TypeOK
  <2>2. waits \in Seq(KeyByte)
    BY <2>1, EmptySeq
  <2>. HIDE DEF waits
  <2>3. paste \in Seq(Byte) /\ normal \in Seq(Byte) /\ waits \in Seq(Byte)
    BY <2>1, <2>2, Seqs
  <2>. QED
    BY <2>1, <2>2, <2>3, LenProperties, ConcatProperties
<1>3. PICK m \in 0 .. Len(queued) :
        /\ out' = out \o SubSeq(queued, 1, m)
        /\ paste' = SubSeq(paste, m + 1, Len(paste))
        /\ normal' = IF m > Len(paste)
                     THEN SubSeq(normal, m - Len(paste) + 1, Len(normal)) ELSE normal
        /\ armed' = (m < Len(queued))
  BY DEF FdmPtmxOut
<1>4. InOrder(out, "key", normal, Typed) /\ InOrder(out, "paste", paste, pasted)
  BY <1>1 DEF IInv, DataInOrder
<1>5. Typed' = Typed
  BY <1>1 DEF Typed
<1>6. m \in 0 .. Len(paste) + Len(waits) /\ m \in Nat
  BY <1>2
<1>. HIDE DEF queued
<1>7. Typed \in Seq(Byte) /\ pasted \in Seq(Byte)
  <2>1. Typed \in Seq(KeyByte) /\ pasted \in Seq(PasteByte)
    BY TypedNext DEF IInv, TypeOK
  <2>. QED
    BY <2>1, Seqs
<1>8. CASE m <= Len(paste)
  <2>. DEFINE x == SubSeq(paste, 1, m)
  <2>1. m \in 0 .. Len(paste)
    BY <1>6, <1>8
  <2>2. x \in Seq(PasteByte) /\ paste' \in Seq(PasteByte) /\ x \o paste' = paste
        /\ Len(paste') = Len(paste) - m
    BY <1>2, <1>3, <2>1, Cut
  <2>3. out' = out \o x /\ normal' = normal
    <3>1. SubSeq(queued, 1, m) = x
      BY <1>2, <1>6, <1>8, CutOfTwo DEF queued
    <3>2. ~(m > Len(paste))
      BY <1>2, <1>6, <1>8
    <3>. QED
      BY <1>3, <3>1, <3>2
  <2>. HIDE DEF x
  <2>4. InOrder(out \o x, "paste", paste', pasted)
    <3>1. InOrder(out, "paste", x \o paste', pasted)
      BY <1>4, <2>2
    <3>2. x \in Seq(Byte) /\ paste' \in Seq(Byte) /\ \A i \in 1 .. Len(x) : Kind(x[i]) = "paste"
      BY <2>2, Seqs
    <3>. QED
      BY <1>2, <1>7, <3>1, <3>2, OrderOwn
  <2>5. InOrder(out \o x, "key", normal, Typed)
    <3>1. x \in Seq(Byte) /\ \A i \in 1 .. Len(x) : Kind(x[i]) # "key"
      BY <2>2, Seqs
    <3>. QED
      BY <1>2, <1>4, <3>1, OrderOther
  <2>6. out \o x \in Seq(Byte)
    BY <1>2, <2>2, Seqs, ConcatProperties
  <2>7. DataInOrder'
    BY <1>1, <1>5, <2>3, <2>4, <2>5 DEF DataInOrder
  <2>8. TypeOK'
    <3>1. armed' \in BOOLEAN
      BY <1>3
    <3>. QED
      BY <1>1, <2>2, <2>3, <2>6, <3>1 DEF IInv, TypeOK
  <2>9. /\ armed' => normal' # <<>> \/ paste' # <<>>
        /\ paste' # <<>> => armed'
        /\ normal' # <<>> /\ ~sending => armed'
    <3>1. paste' # <<>> <=> m < Len(paste)
      <4>1. paste' # <<>> <=> Len(paste') # 0
        BY <2>2, EmptySeq
      <4>. QED
        BY <4>1, <2>2, <1>2, <1>6, <1>8
    <3>2. armed' <=> m < Len(paste) + Len(waits)
      BY <1>2, <1>3
    <3>3. Len(waits) # 0 => normal # <<>>
      BY <1>2, EmptySeq
    <3>4. normal # <<>> /\ ~sending => Len(waits) # 0
      BY <1>2, EmptySeq
    <3>. HIDE DEF waits
    <3>5. armed' => m < Len(paste) \/ Len(waits) # 0
      BY <3>2, <1>2, <1>6
    <3>6. m < Len(paste) => armed'
      BY <3>2, <1>2, <1>6
    <3>7. Len(waits) # 0 => armed'
      BY <3>2, <1>2, <1>6, <1>8
    <3>. QED
      BY <2>3, <3>1, <3>3, <3>4, <3>5, <3>6, <3>7
  <2>10. PollsForData' /\ SendingEnds'
    BY <1>1, <2>9 DEF IInv, PollsForData, SendingEnds
  <2>. QED
    BY <2>7, <2>8, <2>10 DEF IInv
<1>9. CASE m > Len(paste)
  <2>. DEFINE n == m - Len(paste)  y == SubSeq(normal, 1, n)
  <2>1. ~sending /\ waits = normal
    <3>1. Len(waits) # 0
      BY <1>2, <1>6, <1>9
    <3>. QED
      BY <3>1, EmptySeq
  <2>2. n \in 0 .. Len(normal) /\ n \in Nat
    BY <1>2, <1>6, <1>9, <2>1
  <2>3. normal' = SubSeq(normal, n + 1, Len(normal))
    BY <1>3, <1>9
  <2>4. y \in Seq(KeyByte) /\ normal' \in Seq(KeyByte) /\ y \o normal' = normal
        /\ Len(normal') = Len(normal) - n
    <3>. HIDE DEF n
    <3>. QED
      BY <1>2, <2>2, <2>3, Cut
  <2>5. out' = out \o (paste \o y)
    <3>1. SubSeq(queued, 1, m) = paste \o y
      <4>1. SubSeq(paste \o normal, 1, m) = paste \o SubSeq(normal, 1, m - Len(paste))
        BY <1>2, <1>6, <1>9, <2>1, CutOfTwo
      <4>. QED
        BY <2>1, <4>1 DEF queued
    <3>. QED
      BY <1>3, <3>1
  <2>6. paste' = <<>>
    <3>. DEFINE lo == m + 1
    <3>1. lo \in Int /\ Len(paste) \in Int /\ Len(paste) < lo
      BY <1>2, <1>6, <1>9
    <3>2. paste' = SubSeq(paste, lo, Len(paste))
      BY <1>3
    <3>. HIDE DEF lo
    <3>. QED
      BY <3>1, <3>2, SubSeqEmpty
  <2>7. armed' <=> n < Len(normal)
    <3>1. armed' <=> m < Len(queued)
      BY <1>3
    <3>2. Len(queued) = Len(paste) + Len(normal)
      BY <1>2, <2>1
    <3>3. m < Len(paste) + Len(normal) <=> n < Len(normal)
      BY <1>2, <1>6
    <3>. QED
      BY <3>1, <3>2, <3>3
  <2>. HIDE DEF n, y
  <2>8. y \in Seq(Byte) /\ normal' \in Seq(Byte) /\ \A i \in 1 .. Len(y) : Kind(y[i]) = "key"
    BY <2>4, Seqs
  <2>9. \A i \in 1 .. Len(paste) : Kind(paste[i]) = "paste"
    BY <1>2, Seqs
  <2>10. (out \o paste) \o y = out \o (paste \o y) /\ out \o paste \in Seq(Byte)
         /\ (out \o paste) \o y \in Seq(Byte)
    <3>1. out \o paste \in Seq(Byte)
      BY <1>2, ConcatProperties
    <3>2. (out \o paste) \o y \in Seq(Byte)
      BY <3>1, <2>8, ConcatProperties
    <3>. QED
      <4>1. (out \o paste) \o y = out \o (paste \o y)
        BY <1>2, <2>8, ConcatAssociative
      <4>. QED
        BY <3>1, <3>2, <4>1
  <2>11. InOrder(out \o paste, "paste", <<>>, pasted)
    <3>1. InOrder(out, "paste", paste \o <<>>, pasted)
      BY <1>2, <1>4, ConcatEmptySeq
    <3>2. <<>> \in Seq(Byte)
      BY EmptySeq
    <3>. QED
      BY <1>2, <1>7, <2>9, <3>1, <3>2, OrderOwn
  <2>12. InOrder(out \o paste, "key", normal, Typed)
    <3>1. \A i \in 1 .. Len(paste) : Kind(paste[i]) # "key"
      BY <2>9
    <3>. QED
      BY <1>2, <1>4, <3>1, OrderOther
  <2>13. InOrder((out \o paste) \o y, "paste", <<>>, pasted)
    <3>1. \A i \in 1 .. Len(y) : Kind(y[i]) # "paste"
      BY <2>8
    <3>. QED
      BY <2>8, <2>10, <2>11, <3>1, OrderOther
  <2>14. InOrder((out \o paste) \o y, "key", normal', Typed)
    <3>1. InOrder(out \o paste, "key", y \o normal', Typed)
      BY <2>4, <2>12
    <3>. QED
      BY <1>7, <2>8, <2>10, <3>1, OrderOwn
  <2>15. DataInOrder'
    BY <1>1, <1>5, <2>5, <2>6, <2>10, <2>13, <2>14 DEF DataInOrder
  <2>16. TypeOK'
    <3>1. paste' \in Seq(PasteByte)
      BY <2>6, EmptySeq
    <3>2. armed' \in BOOLEAN
      BY <1>3
    <3>. QED
      BY <1>1, <2>4, <2>5, <2>10, <3>1, <3>2 DEF IInv, TypeOK
  <2>17. armed' <=> normal' # <<>>
    <3>1. normal' # <<>> <=> Len(normal') # 0
      BY <2>4, EmptySeq
    <3>. QED
      BY <1>2, <2>2, <2>4, <2>7, <3>1
  <2>18. PollsForData' /\ SendingEnds'
    BY <1>1, <2>6, <2>17 DEF IInv, PollsForData, SendingEnds
  <2>. QED
    BY <2>15, <2>16, <2>18 DEF IInv
<1>. QED
  BY <1>2, <1>6, <1>8, <1>9

\* What neither writes nor queues.
LEMMA Quiet ==
  ASSUME IInv, TypeOK', out' = out, normal' = normal, paste' = paste, pasted' = pasted,
         keys' = keys, receiving' = receiving, sending' = sending,
         (open' = open /\ armed' = armed) \/ (open' = FALSE /\ armed' = FALSE)
  PROVE  IInv'
<1>1. Typed' = Typed
  BY DEF Typed
<1>. QED
  BY <1>1 DEF IInv, TypeOK, DataInOrder, PollsForData, SendingEnds

LEMMA WriterStep ==
  ASSUME IInv, [Next]_vars
  PROVE  IInv'
<1>1. CASE TermToSlave
  BY <1>1, KeyTyped
<1>2. CASE SelectionFromClipboard
  <2>1. BeginReceive /\ target' \in BOOLEAN
    BY <1>2 DEF SelectionFromClipboard, IInv, TypeOK
  <2>. QED
    BY <2>1, PasteBegun
<1>3. CASE Drop
  <2>1. BeginReceive /\ target' \in BOOLEAN
    BY <1>3 DEF Drop
  <2>. QED
    BY <2>1, PasteBegun
<1>4. CASE DragEnter \/ DragLeave \/ SetBracketedPaste \/ ClosePty \/ UNCHANGED vars
  <2>1. TypeOK'
    BY <1>4 DEF DragEnter, DragLeave, SetBracketedPaste, ClosePty, vars, IInv, TypeOK
  <2>2. /\ out' = out /\ normal' = normal /\ paste' = paste /\ pasted' = pasted
        /\ keys' = keys /\ receiving' = receiving /\ sending' = sending
        /\ (open' = open /\ armed' = armed) \/ (open' = FALSE /\ armed' = FALSE)
    BY <1>4 DEF DragEnter, DragLeave, SetBracketedPaste, ClosePty, vars
  <2>. QED
    BY <2>1, <2>2, Quiet
<1>5. ASSUME NEW r \in receiving, ReceiveOffer(r) PROVE IInv'
  BY <1>5, PasteReceived
<1>6. ASSUME NEW r \in receiving, ReceiveOfferDone(r) PROVE IInv'
  BY <1>6, PasteDone
<1>7. CASE FdmPtmxOut
  BY <1>7, Written
<1>8. CASE TermDestroy
  <2>1. normal' = <<>> /\ paste' = <<>> /\ ~open /\ open' = open /\ armed' = armed
        /\ receiving' = receiving /\ sending' = sending
    BY <1>8 DEF TermDestroy
  <2>2. TypeOK'
    BY <1>8, EmptySeq DEF TermDestroy, IInv, TypeOK
  <2>3. DataInOrder' /\ PollsForData' /\ SendingEnds'
    BY <2>1 DEF IInv, DataInOrder, PollsForData, SendingEnds
  <2>. QED
    BY <2>2, <2>3 DEF IInv
<1>. QED
  BY <1>1, <1>2, <1>3, <1>4, <1>5, <1>6, <1>7, <1>8 DEF Next

(***************************************************************************)
(* Theorems                                                                *)
(***************************************************************************)

\* IInv is an invariant, whatever the slave reads and when, whoever pastes, and
\* whenever the terminal is closed.
THEOREM Invariance == Spec => []IInv
<1>1. Init => IInv
  BY WriterInit
<1>2. IInv /\ [Next]_vars => IInv'
  BY WriterStep
<1>. QED
  BY <1>1, <1>2, PTL DEF Spec

\* Nothing that is typed or pasted is lost, duplicated or reordered: of each of
\* the two kinds the PTY got, and its queue holds, just what term_to_slave(),
\* or term_paste_data_to_slave(), was given.
THEOREM Ordered == Spec => []DataInOrder
<1>1. IInv => DataInOrder
  BY DEF IInv
<1>. QED
  BY <1>1, Invariance, PTL

\* The PTY is polled only if something waits for it, as fdm_ptmx_out() asserts,
\* and what waits is polled for, or waits for a paste to end.
THEOREM Polled == Spec => []PollsForData
<1>1. IInv => PollsForData
  BY DEF IInv
<1>. QED
  BY <1>1, Invariance, PTL

(***************************************************************************)
(* One paste at a time                                                     *)
(***************************************************************************)

\* At most one paste is being received, the latest, and then the flag is set.
One ==
    /\ ReceivingIsSending
    /\ \A r \in receiving : r[1] = pastes
    /\ \A r, s \in receiving : r = s

LEMMA OneInit == Init => One
BY DEF Init, One, ReceivingIsSending

LEMMA OneStep ==
  ASSUME TypeOK, One, ~DropDuringPaste, [Next]_vars
  PROVE  One'
<1>1. CASE SelectionFromClipboard \/ Drop
  <2>1. receiving = {} /\ BeginReceive
    BY <1>1 DEF SelectionFromClipboard, Drop, One, ReceivingIsSending
  <2>. QED
    BY <2>1 DEF BeginReceive, One, ReceivingIsSending
<1>2. ASSUME NEW r \in receiving, ReceiveOffer(r) PROVE One'
  BY <1>2 DEF ReceiveOffer, One, ReceivingIsSending
<1>3. ASSUME NEW r \in receiving, ReceiveOfferDone(r) PROVE One'
  BY <1>3 DEF ReceiveOfferDone, One, ReceivingIsSending
<1>4. CASE \/ TermToSlave \/ DragEnter \/ DragLeave \/ FdmPtmxOut \/ SetBracketedPaste
           \/ ClosePty \/ TermDestroy \/ UNCHANGED vars
  BY <1>4 DEF TermToSlave, DragEnter, DragLeave, FdmPtmxOut, SetBracketedPaste,
              ClosePty, TermDestroy, vars, One, ReceivingIsSending
<1>. QED
  BY <1>1, <1>2, <1>3, <1>4 DEF Next

\* As long as nothing is dropped on a terminal that a paste is being sent to:
\* is_sending_paste_data is set while data is to come, as receive_offer() and
\* term_paste_data_to_slave() assert.
THEOREM Receiving == ~DropDuringPaste => (Spec => []ReceivingIsSending)
<1>. SUFFICES ASSUME ~DropDuringPaste PROVE Spec => []ReceivingIsSending
  OBVIOUS
<1>1. Init => One
  BY OneInit
<1>2. IInv /\ One /\ [Next]_vars => One'
  BY OneStep DEF IInv
<1>3. One => ReceivingIsSending
  BY DEF One
<1>. QED
  BY <1>1, <1>2, <1>3, Invariance, PTL DEF Spec

(***************************************************************************)
(* Pastes that begin and end                                               *)
(***************************************************************************)

\* Each paste has one receiver; a paste that has not begun gave nothing; and one
\* that is being received has given its start, if it is bracketed, and no end.
PastesFollow ==
    /\ \A r, s \in receiving : r[1] = s[1] => r = s
    /\ \A p \in Nat : p > pastes =>
         ~Contains(pasted, Start(p)) /\ ~Contains(pasted, End(p))
    /\ \A r \in receiving :
         /\ ~Contains(pasted, End(r[1]))
         /\ open => (Contains(pasted, Start(r[1])) <=> bracketed)

BInv == PastesFollow /\ PastesEnd

LEMMA Grown ==
  ASSUME TypeOK, NEW b \in PasteByte, NEW e
  PROVE  Contains(pasted \o Given(b), e) <=> Contains(pasted, e) \/ (open /\ e = b)
<1>1. CASE ~open
  BY <1>1, ConcatEmptySeq DEF Given, TypeOK
<1>2. CASE open
  <2>. DEFINE x == Bytes(b)
  <2>1. Given(b) = x
    BY <1>2 DEF Given
  <2>2. x \in Seq(PasteByte) /\ Len(x) = 2 /\ \A i \in 1 .. 2 : x[i] = b
    <3>1. 0 \in 0 .. 2
      OBVIOUS
    <3>. QED
      BY <3>1, Halves
  <2>. HIDE DEF x
  <2>3. /\ Len(pasted) \in Nat /\ Len(pasted \o x) = Len(pasted) + Len(x)
        /\ \A i \in 1 .. Len(pasted) + Len(x) :
             (pasted \o x)[i] = IF i <= Len(pasted) THEN pasted[i] ELSE x[i - Len(pasted)]
    <3>1. pasted \in Seq(PasteByte)
      BY DEF TypeOK
    <3>2. Len(pasted) \in Nat
      BY <3>1, LenProperties
    <3>. QED
      BY <2>2, <3>1, <3>2, ConcatProperties
  <2>4. ASSUME Contains(pasted \o x, e) PROVE Contains(pasted, e) \/ e = b
    <3>1. PICK i \in 1 .. Len(pasted) + 2 : (pasted \o x)[i] = e
      BY <2>2, <2>3, <2>4 DEF Contains
    <3>2. i <= Len(pasted) => i \in 1 .. Len(pasted) /\ pasted[i] = e
      BY <2>2, <2>3, <3>1
    <3>3. i > Len(pasted) => i - Len(pasted) \in 1 .. 2 /\ x[i - Len(pasted)] = e
      BY <2>2, <2>3, <3>1
    <3>4. i <= Len(pasted) \/ i > Len(pasted)
      BY <2>3
    <3>. QED
      BY <2>2, <3>2, <3>3, <3>4 DEF Contains
  <2>5. ASSUME Contains(pasted, e) PROVE Contains(pasted \o x, e)
    <3>1. PICK i \in 1 .. Len(pasted) : pasted[i] = e
      BY <2>5 DEF Contains
    <3>2. i \in 1 .. Len(pasted) + Len(x) /\ (pasted \o x)[i] = e
      BY <2>2, <2>3, <3>1
    <3>. QED
      BY <2>3, <3>2 DEF Contains
  <2>6. ASSUME e = b PROVE Contains(pasted \o x, e)
    <3>. DEFINE i == Len(pasted) + 1
    <3>1. i \in 1 .. Len(pasted) + Len(x) /\ ~(i <= Len(pasted)) /\ i - Len(pasted) = 1
      BY <2>2, <2>3
    <3>. HIDE DEF i
    <3>2. (pasted \o x)[i] = e
      BY <2>2, <2>3, <2>6, <3>1
    <3>. QED
      BY <2>3, <3>1, <3>2 DEF Contains
  <2>. QED
    BY <1>2, <2>1, <2>4, <2>5, <2>6
<1>. QED
  BY <1>1, <1>2

LEMMA Names ==
  \A p, q, n \in Nat :
     /\ Start(p) = Start(q) <=> p = q
     /\ End(p) = End(q) <=> p = q
     /\ Start(p) # End(q) /\ Start(p) # Chunk(q, n) /\ End(p) # Chunk(q, n)
BY DEF Start, End, Chunk

LEMMA EndsOnly ==
  ASSUME TypeOK, NEW i \in 1 .. Len(pasted), pasted[i][1] = "end"
  PROVE  pasted[i] = End(pasted[i][2])
BY ElementOfSeq DEF TypeOK, PasteByte, End

LEMMA BracketsInit == Init => BInv
BY DEF Init, BInv, PastesFollow, PastesEnd, Contains

LEMMA BracketsBegin ==
  ASSUME TypeOK, BInv, BeginReceive
  PROVE  BInv'
<1>. DEFINE p == pastes + 1
<1>1. /\ open' = open /\ bracketed' = bracketed /\ pastes' = p /\ p \in Nat /\ p > pastes
      /\ receiving' = receiving \cup {<<p, 0>>}
      /\ pasted' = IF bracketed THEN pasted \o Given(Start(p)) ELSE pasted
  BY DEF BeginReceive, TypeOK
<1>2. Start(p) \in PasteByte
  BY <1>1, Pastes
<1>3. \A r \in receiving : r \in Nat \X Nat /\ r[1] \in 1 .. pastes /\ r[1] # p
  BY <1>1 DEF TypeOK
<1>. HIDE DEF p
<1>4. \A e : Contains(pasted', e) <=> Contains(pasted, e) \/ (bracketed /\ open /\ e = Start(p))
  BY <1>1, <1>2, Grown
<1>5. ~Contains(pasted, Start(p)) /\ ~Contains(pasted, End(p))
  BY <1>1 DEF BInv, PastesFollow
<1>6. \A q \in Nat : /\ q # p => (Contains(pasted', Start(q)) <=> Contains(pasted, Start(q)))
                     /\ Contains(pasted', End(q)) <=> Contains(pasted, End(q))
  BY <1>1, <1>4, Names
<1>7. open => (Contains(pasted', Start(p)) <=> bracketed)
  BY <1>4, <1>5
<1>8. \A r, s \in receiving' : r[1] = s[1] => r = s
  BY <1>1, <1>3 DEF BInv, PastesFollow
<1>9. \A q \in Nat : q > pastes' => ~Contains(pasted', Start(q)) /\ ~Contains(pasted', End(q))
  <2>1. \A q \in Nat : q > p => q > pastes /\ q # p
    BY <1>1 DEF TypeOK
  <2>. QED
    BY <1>1, <1>6, <2>1 DEF BInv, PastesFollow
<1>10. \A r \in receiving' :
         /\ ~Contains(pasted', End(r[1]))
         /\ open' => (Contains(pasted', Start(r[1])) <=> bracketed')
  <2>1. ASSUME NEW r \in receiving
        PROVE  /\ ~Contains(pasted', End(r[1]))
               /\ open' => (Contains(pasted', Start(r[1])) <=> bracketed')
    BY <1>1, <1>3, <1>6 DEF BInv, PastesFollow
  <2>2. /\ ~Contains(pasted', End(p))
        /\ open' => (Contains(pasted', Start(p)) <=> bracketed')
    BY <1>1, <1>5, <1>6, <1>7
  <2>. QED
    BY <1>1, <2>1, <2>2
<1>11. PastesEnd'
  <2>. SUFFICES ASSUME NEW q \in 1 .. pastes', open', \A r \in receiving' : r[1] # q
                PROVE  Contains(pasted', Start(q)) <=> Contains(pasted', End(q))
    BY DEF PastesEnd
  <2>1. <<p, 0>> \in receiving'
    BY <1>1
  <2>2. q # p /\ q \in 1 .. pastes /\ \A r \in receiving : r[1] # q
    <3>1. q # p
      BY <2>1
    <3>2. q \in 1 .. pastes
      BY <1>1, <3>1 DEF p, TypeOK
    <3>. QED
      BY <1>1, <3>1, <3>2
  <2>. QED
    BY <1>1, <1>6, <2>2 DEF BInv, PastesEnd
<1>. QED
  BY <1>8, <1>9, <1>10, <1>11 DEF BInv, PastesFollow

LEMMA BracketsOffer ==
  ASSUME TypeOK, BInv, NEW r \in receiving, ReceiveOffer(r)
  PROVE  BInv'
<1>. DEFINE b == Chunk(r[1], r[2] + 1)  next == <<r[1], r[2] + 1>>
<1>1. /\ open' = open /\ bracketed' = bracketed /\ pastes' = pastes
      /\ receiving' = (receiving \ {r}) \cup {next}
      /\ pasted' = pasted \o Given(b)
  BY DEF ReceiveOffer
<1>2. r[1] \in Nat /\ r[2] + 1 \in Nat /\ next[1] = r[1]
  BY DEF TypeOK
<1>3. b \in PasteByte
  BY <1>2, Pastes
<1>4. \A e : Contains(pasted', e) <=> Contains(pasted, e) \/ (open /\ e = b)
  BY <1>1, <1>3, Grown
<1>5. \A q \in Nat : /\ Contains(pasted', Start(q)) <=> Contains(pasted, Start(q))
                     /\ Contains(pasted', End(q)) <=> Contains(pasted, End(q))
  BY <1>2, <1>4, Names
<1>6. \A s \in receiving : s[1] \in Nat
  BY DEF TypeOK
<1>. HIDE DEF b, next
<1>7. \A s \in receiving' : \E u \in receiving : s[1] = u[1]
  BY <1>1, <1>2
<1>8. \A s, u \in receiving' : s[1] = u[1] => s = u
  BY <1>1, <1>2 DEF BInv, PastesFollow
<1>9. PastesFollow'
  BY <1>1, <1>5, <1>6, <1>7, <1>8 DEF BInv, PastesFollow
<1>10. PastesEnd'
  <2>. SUFFICES ASSUME NEW q \in 1 .. pastes', open', \A s \in receiving' : s[1] # q
                PROVE  Contains(pasted', Start(q)) <=> Contains(pasted', End(q))
    BY DEF PastesEnd
  <2>1. \A s \in receiving : s[1] # q
    BY <1>1, <1>2
  <2>. QED
    BY <1>1, <1>5, <2>1 DEF BInv, PastesEnd, TypeOK
<1>. QED
  BY <1>9, <1>10 DEF BInv

LEMMA BracketsEnd ==
  ASSUME TypeOK, BInv, NEW r \in receiving, ReceiveOfferDone(r)
  PROVE  BInv'
<1>. DEFINE p == r[1]
<1>1. /\ open' = open /\ bracketed' = bracketed /\ pastes' = pastes
      /\ receiving' = receiving \ {r}
      /\ pasted' = IF bracketed THEN pasted \o Given(End(p)) ELSE pasted
  BY DEF ReceiveOfferDone
<1>2. p \in Nat /\ p \in 1 .. pastes
  BY DEF TypeOK
<1>3. \A s \in receiving' : s \in receiving /\ s[1] \in Nat /\ s[1] # p
  BY <1>1 DEF TypeOK, BInv, PastesFollow
<1>4. /\ ~Contains(pasted, End(p))
      /\ open => (Contains(pasted, Start(p)) <=> bracketed)
  BY DEF BInv, PastesFollow
<1>. HIDE DEF p
<1>5. End(p) \in PasteByte
  BY <1>2, Pastes
<1>6. \A e : Contains(pasted', e) <=> Contains(pasted, e) \/ (bracketed /\ open /\ e = End(p))
  BY <1>1, <1>5, Grown
<1>7. \A q \in Nat : /\ Contains(pasted', Start(q)) <=> Contains(pasted, Start(q))
                     /\ q # p => (Contains(pasted', End(q)) <=> Contains(pasted, End(q)))
  BY <1>2, <1>6, Names
<1>8. open => (Contains(pasted', Start(p)) <=> Contains(pasted', End(p)))
  BY <1>2, <1>4, <1>6, <1>7
<1>9. PastesFollow'
  <2>1. \A q \in Nat : q > pastes => q # p
    BY <1>2 DEF TypeOK
  <2>2. \A q \in Nat : q > pastes' => ~Contains(pasted', Start(q)) /\ ~Contains(pasted', End(q))
    BY <1>1, <1>7, <2>1 DEF BInv, PastesFollow
  <2>3. \A s \in receiving' :
         /\ ~Contains(pasted', End(s[1]))
         /\ open' => (Contains(pasted', Start(s[1])) <=> bracketed')
    BY <1>1, <1>3, <1>7 DEF BInv, PastesFollow
  <2>4. \A s, u \in receiving' : s[1] = u[1] => s = u
    BY <1>3 DEF BInv, PastesFollow
  <2>. QED
    BY <2>2, <2>3, <2>4 DEF PastesFollow
<1>10. PastesEnd'
  <2>. SUFFICES ASSUME NEW q \in 1 .. pastes', open', \A s \in receiving' : s[1] # q
                PROVE  Contains(pasted', Start(q)) <=> Contains(pasted', End(q))
    BY DEF PastesEnd
  <2>1. CASE q = p
    BY <1>1, <1>8, <2>1
  <2>2. CASE q # p
    <3>1. \A s \in receiving : s[1] # q
      BY <1>1, <2>2 DEF p
    <3>2. q \in 1 .. pastes /\ q \in Nat
      BY <1>1 DEF TypeOK
    <3>. QED
      BY <1>1, <1>7, <2>2, <3>1, <3>2 DEF BInv, PastesEnd
  <2>. QED
    BY <2>1, <2>2
<1>. QED
  BY <1>9, <1>10 DEF BInv

LEMMA BracketsStep ==
  ASSUME TypeOK, BInv, ~ModeSwitches, [Next]_vars
  PROVE  BInv'
<1>1. CASE SelectionFromClipboard \/ Drop
  <2>1. BeginReceive
    BY <1>1 DEF SelectionFromClipboard, Drop
  <2>. QED
    BY <2>1, BracketsBegin
<1>2. ASSUME NEW r \in receiving, ReceiveOffer(r) PROVE BInv'
  BY <1>2, BracketsOffer
<1>3. ASSUME NEW r \in receiving, ReceiveOfferDone(r) PROVE BInv'
  BY <1>3, BracketsEnd
<1>4. CASE SetBracketedPaste
  <2>1. /\ receiving = {} /\ receiving' = receiving /\ pasted' = pasted
        /\ pastes' = pastes /\ open' = open
    BY <1>4 DEF SetBracketedPaste
  <2>. QED
    BY <2>1 DEF BInv, PastesFollow, PastesEnd
<1>5. CASE ClosePty
  <2>1. /\ receiving' = receiving /\ pasted' = pasted /\ pastes' = pastes
        /\ open' = FALSE /\ bracketed' = bracketed
    BY <1>5 DEF ClosePty
  <2>. QED
    BY <2>1 DEF BInv, PastesFollow, PastesEnd
<1>6. CASE TermToSlave \/ DragEnter \/ DragLeave \/ FdmPtmxOut \/ TermDestroy \/ UNCHANGED vars
  <2>1. /\ receiving' = receiving /\ pasted' = pasted /\ pastes' = pastes
        /\ open' = open /\ bracketed' = bracketed
    BY <1>6 DEF TermToSlave, DragEnter, DragLeave, FdmPtmxOut, TermDestroy, vars
  <2>. QED
    BY <2>1 DEF BInv, PastesFollow, PastesEnd
<1>. QED
  BY <1>1, <1>2, <1>3, <1>4, <1>5, <1>6 DEF Next

(***************************************************************************)
(* Pastes in turn                                                          *)
(***************************************************************************)

TInv ==
    /\ PastesInTurn
    /\ \A i \in 1 .. Len(pasted) : pasted[i][2] <= pastes

LEMMA TurnsInit == Init => TInv
BY DEF Init, TInv, PastesInTurn

\* A buffer that is given in its turn leaves all in turn.
LEMMA TurnsGrow ==
  ASSUME TypeOK, TInv, NEW b \in PasteByte,
         \A i \in 1 .. Len(pasted) : InTurn(pasted[i], b),
         pasted' = pasted \o Given(b), pastes' \in Nat, pastes <= pastes', b[2] <= pastes'
  PROVE  TInv'
<1>1. CASE ~open
  <2>1. pasted' = pasted
    BY <1>1, ConcatEmptySeq DEF Given, TypeOK
  <2>2. \A i \in 1 .. Len(pasted) : pasted[i][2] \in Nat
    BY ElementOfSeq DEF TypeOK, PasteByte
  <2>. QED
    BY <2>1, <2>2 DEF TInv, PastesInTurn, TypeOK
<1>2. CASE open
  <2>. DEFINE x == Bytes(b)
  <2>1. pasted' = pasted \o x
    BY <1>2 DEF Given
  <2>2. x \in Seq(PasteByte) /\ Len(x) = 2 /\ \A i \in 1 .. 2 : x[i] = b
    <3>1. 0 \in 0 .. 2
      OBVIOUS
    <3>. QED
      BY <3>1, Halves
  <2>. HIDE DEF x
  <2>3. pasted \in Seq(PasteByte) /\ Len(pasted) \in Nat
    BY LenProperties DEF TypeOK
  <2>4. /\ Len(pasted \o x) = Len(pasted) + Len(x)
        /\ \A i \in 1 .. Len(pasted) + Len(x) :
             (pasted \o x)[i] = IF i <= Len(pasted) THEN pasted[i] ELSE x[i - Len(pasted)]
    BY <2>2, <2>3, ConcatProperties
  <2>5. \A i \in 1 .. Len(pasted) : pasted[i] \in PasteByte /\ pasted[i][2] \in Nat
    BY <2>3, ElementOfSeq DEF PasteByte
  <2>6. b[2] \in Nat /\ InTurn(b, b)
    BY DEF PasteByte, InTurn
  <2>. DEFINE n == Len(pasted)  s == pasted'
  <2>7. /\ n \in Nat /\ Len(s) = n + 2
        /\ \A i \in 1 .. n + 2 : /\ i <= n => s[i] = pasted[i]
                                 /\ i > n => s[i] = b
    <3>1. ASSUME NEW i \in 1 .. n + 2
          PROVE  /\ i <= n => s[i] = pasted[i]
                 /\ i > n => s[i] = b
      <4>1. s[i] = IF i <= n THEN pasted[i] ELSE x[i - n]
        BY <2>1, <2>2, <2>4
      <4>2. i > n => i - n \in 1 .. 2 /\ ~(i <= n)
        BY <2>3
      <4>. QED
        BY <2>2, <4>1, <4>2
    <3>. QED
      BY <2>1, <2>2, <2>3, <2>4, <3>1
  <2>8. /\ \A i, k \in 1 .. n : i < k => InTurn(pasted[i], pasted[k])
        /\ \A i \in 1 .. n : InTurn(pasted[i], b) /\ pasted[i][2] <= pastes /\ pasted[i][2] \in Nat
    BY <2>5 DEF TInv, PastesInTurn
  <2>. HIDE DEF n, s
  <2>9. pastes \in Nat
    BY DEF TypeOK
  <2>10. ASSUME NEW i \in 1 .. n + 2, NEW k \in 1 .. n + 2, i < k
         PROVE  InTurn(s[i], s[k])
    <3>1. CASE k <= n
      BY <2>7, <2>8, <2>10, <3>1
    <3>2. CASE i <= n /\ k > n
      BY <2>7, <2>8, <2>10, <3>2
    <3>3. CASE i > n
      BY <2>6, <2>7, <2>10, <3>3
    <3>. QED
      BY <2>7, <2>10, <3>1, <3>2, <3>3
  <2>11. ASSUME NEW i \in 1 .. n + 2 PROVE s[i][2] <= pastes'
    <3>1. CASE i <= n
      BY <2>7, <2>8, <2>9, <3>1
    <3>2. CASE i > n
      BY <2>7, <3>2
    <3>. QED
      BY <2>7, <3>1, <3>2
  <2>. QED
    BY <2>7, <2>10, <2>11 DEF TInv, PastesInTurn, s
<1>. QED
  BY <1>1, <1>2

LEMMA TurnsBegin ==
  ASSUME TypeOK, TInv, BeginReceive
  PROVE  TInv'
<1>. DEFINE b == Start(pastes + 1)
<1>1. /\ pastes' = pastes + 1 /\ pastes \in Nat
      /\ pasted' = IF bracketed THEN pasted \o Given(b) ELSE pasted
  BY DEF BeginReceive, TypeOK
<1>2. \A i \in 1 .. Len(pasted) : pasted[i][2] \in Nat /\ pasted[i][2] <= pastes
  BY ElementOfSeq DEF TypeOK, PasteByte, TInv
<1>3. b \in PasteByte /\ b[2] = pastes + 1
  BY <1>1, Pastes DEF Start
<1>. HIDE DEF b
<1>4. \A i \in 1 .. Len(pasted) : InTurn(pasted[i], b)
  BY <1>1, <1>2, <1>3 DEF InTurn
<1>5. CASE bracketed
  BY <1>1, <1>3, <1>4, <1>5, TurnsGrow
<1>6. CASE ~bracketed
  BY <1>1, <1>2, <1>6 DEF TInv, PastesInTurn
<1>. QED
  BY <1>5, <1>6

\* The data of the latest paste, which has not ended, is in its turn.
LEMMA TurnsOfLatest ==
  ASSUME TypeOK, TInv, BInv, One, NEW r \in receiving,
         NEW b \in PasteByte, b[2] = r[1], b[1] # "start"
  PROVE  \A i \in 1 .. Len(pasted) : InTurn(pasted[i], b)
<1>. SUFFICES ASSUME NEW i \in 1 .. Len(pasted) PROVE InTurn(pasted[i], b)
  OBVIOUS
<1>1. r[1] = pastes /\ ~Contains(pasted, End(r[1]))
  BY DEF One, BInv, PastesFollow
<1>2. pasted[i][2] <= pastes
  BY DEF TInv
<1>3. pasted[i] # End(r[1])
  BY <1>1 DEF Contains
<1>4. ~(pasted[i][1] = "end" /\ pasted[i][2] = b[2])
  BY <1>3, EndsOnly
<1>. QED
  BY <1>1, <1>2, <1>4 DEF InTurn

LEMMA TurnsOffer ==
  ASSUME TypeOK, TInv, BInv, One, NEW r \in receiving, ReceiveOffer(r)
  PROVE  TInv'
<1>. DEFINE b == Chunk(r[1], r[2] + 1)
<1>1. pastes' = pastes /\ pastes \in Nat /\ pasted' = pasted \o Given(b) /\ r[1] = pastes
  BY DEF ReceiveOffer, TypeOK, One
<1>2. r[1] \in Nat /\ r[2] + 1 \in Nat
  BY DEF TypeOK
<1>3. b \in PasteByte /\ b[2] = r[1] /\ b[1] # "start"
  BY <1>2, Pastes DEF Chunk
<1>. HIDE DEF b
<1>. QED
  BY <1>1, <1>3, TurnsOfLatest, TurnsGrow

LEMMA TurnsEnd ==
  ASSUME TypeOK, TInv, BInv, One, NEW r \in receiving, ReceiveOfferDone(r)
  PROVE  TInv'
<1>. DEFINE b == End(r[1])
<1>1. /\ pastes' = pastes /\ pastes \in Nat /\ r[1] = pastes
      /\ pasted' = IF bracketed THEN pasted \o Given(b) ELSE pasted
  BY DEF ReceiveOfferDone, TypeOK, One
<1>2. b \in PasteByte /\ b[2] = r[1] /\ b[1] # "start"
  BY <1>1, Pastes DEF End
<1>. HIDE DEF b
<1>3. CASE bracketed
  BY <1>1, <1>2, <1>3, TurnsOfLatest, TurnsGrow
<1>4. CASE ~bracketed
  BY <1>1, <1>4 DEF TInv, PastesInTurn
<1>. QED
  BY <1>3, <1>4

LEMMA TurnsStep ==
  ASSUME TypeOK, TInv, BInv, One, [Next]_vars
  PROVE  TInv'
<1>1. CASE SelectionFromClipboard \/ Drop
  <2>1. BeginReceive
    BY <1>1 DEF SelectionFromClipboard, Drop
  <2>. QED
    BY <2>1, TurnsBegin
<1>2. ASSUME NEW r \in receiving, ReceiveOffer(r) PROVE TInv'
  BY <1>2, TurnsOffer
<1>3. ASSUME NEW r \in receiving, ReceiveOfferDone(r) PROVE TInv'
  BY <1>3, TurnsEnd
<1>4. CASE \/ TermToSlave \/ DragEnter \/ DragLeave \/ FdmPtmxOut \/ SetBracketedPaste
           \/ ClosePty \/ TermDestroy \/ UNCHANGED vars
  <2>1. pasted' = pasted /\ pastes' = pastes
    BY <1>4 DEF TermToSlave, DragEnter, DragLeave, FdmPtmxOut, SetBracketedPaste,
                ClosePty, TermDestroy, vars
  <2>. QED
    BY <2>1 DEF TInv, PastesInTurn
<1>. QED
  BY <1>1, <1>2, <1>3, <1>4 DEF Next

\* As long as the slave does not switch mode 2004 in the middle of a paste, and
\* nothing is dropped on the terminal in the middle of one, bracketed pastes
\* neither nest nor mix, each holds all of its data between its delimiters, and
\* the slave is told the end of each paste that it was told the beginning of.
THEOREM Bracketed ==
  ~ModeSwitches /\ ~DropDuringPaste => (Spec => []BracketsMatch)
<1>. SUFFICES ASSUME ~ModeSwitches, ~DropDuringPaste PROVE Spec => []BracketsMatch
  OBVIOUS
<1>. DEFINE All == One /\ BInv /\ TInv
<1>1. Init => All
  BY OneInit, BracketsInit, TurnsInit
<1>2. IInv /\ All /\ [Next]_vars => All'
  BY OneStep, BracketsStep, TurnsStep DEF IInv
<1>3. All => BracketsMatch
  BY DEF BInv, TInv, BracketsMatch
<1>. QED
  BY <1>1, <1>2, <1>3, Invariance, PTL DEF Spec

=============================================================================
