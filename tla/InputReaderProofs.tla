--------------------------- MODULE InputReaderProofs ---------------------------
(***************************************************************************)
(* Whatever the input, the pieces in which it arrives, the bound on what   *)
(* is normalized at once and the bytes the tokenizer takes at a time, it   *)
(* reads the normal form of the input and is told the right positions.     *)
(***************************************************************************)
EXTENDS InputReader, FiniteSetTheorems, SequenceTheorems, TLAPS

-------------------------------------------------------------------------------
(* The invariant.                                                          *)

TypeOK ==
  /\ input \in Seq(Byte) /\ rest \in Seq(Byte)
  /\ avail \in 0..Len(rest) /\ clean \in 0..avail
  /\ normalized \in Seq(Byte) /\ pos \in 0..Len(normalized)
  /\ skipLf \in BOOLEAN /\ atStart \in BOOLEAN
  /\ pc \in {"fill", "bom", "join", "scan", "normalize", "filled", "end"}
  /\ taken \in 0..avail
  /\ fills \in Seq(Seq(Byte)) /\ out \in Seq(Byte) /\ scanned \in 0..Len(out)

(* Bytes of the input that are normalized or handed out.                   *)
Read == Len(input) - Len(rest) + taken

(* The reader beneath has the end of the input left.                       *)
RestIsLeft ==
  /\ Len(rest) <= Len(input)
  /\ \A i \in 1..Len(rest) : rest[i] = input[Len(input) - Len(rest) + i]

(* What was consumed and what is left of the internal buffer are the normal *)
(* form of what was read.                                                  *)
ReadIsNormal == out \o DropFirst(normalized, pos) = NormalTo(input, Read)

(* An LF that is to be dropped is remembered, and only such a one.         *)
SkipsAfterCr ==
  /\ skipLf => Read > 0 /\ input[Read] = "CR"
  /\ Read \in 1..Len(input) - 1 /\ input[Read] = "CR" /\ input[Read + 1] = "LF" => skipLf

CleanIsClean ==
  /\ \A i \in 1..clean : rest[i] # "CR"
  /\ clean > 0 => ~skipLf

(* Nothing has been read.                                                  *)
AtTheStart ==
  /\ out = <<>> /\ normalized = <<>> /\ pos = 0 /\ fills = <<>>
  /\ rest = input /\ avail = 0 /\ clean = 0 /\ ~skipLf

(* Where fill_buf is.                                                      *)
Phase ==
  /\ atStart => pc = "fill"
  /\ atStart \/ pc = "bom" => AtTheStart
  /\ pc = "join" =>
       /\ out = <<>> /\ pos = 0 /\ clean = 0 /\ ~skipLf /\ fills = <<>>
       /\ Len(normalized) < 3 /\ normalized = SubSeq(Bom, 1, Len(normalized))
       /\ Len(rest) = Len(input) - Len(normalized)
       /\ normalized = <<>> => avail > 0
  /\ pc = "scan" => clean = 0 /\ pos = Len(normalized)
  /\ pc = "normalize" =>
       /\ clean = 0 /\ pos = 0 /\ avail > 0
       /\ skipLf => taken = avail
       /\ taken = 0 => rest[1] = "CR"
       /\ taken > 0 => normalized # <<>>
  /\ pc # "normalize" => taken = 0
  /\ pc = "filled" => pos < Len(normalized) \/ clean > 0 \/ rest = <<>>
  /\ pc = "end" => pos = Len(normalized) /\ rest = <<>>

(* Until the first buffer is handed out, a byte order mark is in sight.    *)
BomInSight ==
  StartsWith(input, Bom) =>
    /\ fills # <<>> => StartsWith(fills[1], Bom)
    /\ fills = <<>> =>
         /\ pc = "fill" => atStart
         /\ pc # "normalize" /\ pc # "end"
         /\ pc = "scan" => rest = input /\ avail >= 3 /\ ~skipLf
         /\ pc = "filled" => StartsWith(Buffer, Bom)

IInv ==
  /\ TypeOK /\ RestIsLeft /\ ReadIsNormal /\ SkipsAfterCr /\ CleanIsClean
  /\ Phase /\ BomInSight /\ PositionsAgree

-------------------------------------------------------------------------------
(* The normal form, piece by piece.                                        *)

LEMMA RankIsNat ==
  ASSUME NEW s, NEW n \in Nat
  PROVE  IsFiniteSet(Kept(s) \cap 1..n) /\ Rank(s, n) \in Nat
<1>1. IsFiniteSet(1..n)
  BY FS_Interval
<1>2. IsFiniteSet(Kept(s) \cap 1..n)
  BY <1>1, FS_Intersection
<1> QED BY <1>2, FS_CardinalityType DEF Rank

(* Bytes that are all kept have consecutive ranks.                         *)
LEMMA RankRun ==
  ASSUME NEW s, NEW n \in Nat, NEW m \in Nat, n <= m, \A i \in n + 1 .. m : i \in Kept(s)
  PROVE  Rank(s, m) = Rank(s, n) + (m - n)
<1>1. Kept(s) \cap 1..m = (Kept(s) \cap 1..n) \cup (n + 1 .. m)
  OBVIOUS
<1>2. (Kept(s) \cap 1..n) \cap (n + 1 .. m) = {}
  OBVIOUS
<1>3. IsFiniteSet(n + 1 .. m) /\ Cardinality(n + 1 .. m) = m - n
  <2>1. n + 1 \in Int /\ m \in Int
    OBVIOUS
  <2>2. IsFiniteSet(n + 1 .. m) /\ Cardinality(n + 1 .. m) = IF n + 1 > m THEN 0 ELSE m - (n + 1) + 1
    BY <2>1, FS_Interval
  <2> QED BY <2>2
<1> DEFINE A == Kept(s) \cap 1..n
           B == n + 1 .. m
<1>4. IsFiniteSet(A) /\ Cardinality(A) \in Nat
  BY RankIsNat DEF Rank
<1> HIDE DEF A, B
<1>5. Cardinality(A \cup B) = Cardinality(A) + Cardinality(B) - Cardinality({})
  <2>1. A \cap B = {} /\ IsFiniteSet(B)
    BY <1>2, <1>3 DEF A, B
  <2>2. Cardinality(A \cup B) = Cardinality(A) + Cardinality(B) - Cardinality(A \cap B)
    BY <2>1, <1>4, FS_Union
  <2> QED BY <2>1, <2>2
<1>6. Cardinality(A \cup B) = Cardinality(A) + (m - n)
  BY <1>3, <1>4, <1>5, FS_EmptySet DEF B
<1>7. Rank(s, m) = Cardinality(A \cup B) /\ Rank(s, n) = Cardinality(A)
  BY <1>1 DEF Rank, A, B
<1> QED BY <1>6, <1>7

(* A byte that is dropped has none.                                        *)
LEMMA RankDropped ==
  ASSUME NEW s, NEW n \in Nat, n + 1 \notin Kept(s)
  PROVE  Rank(s, n + 1) = Rank(s, n)
<1>1. Kept(s) \cap 1 .. n + 1 = Kept(s) \cap 1..n
  OBVIOUS
<1> QED BY <1>1 DEF Rank

LEMMA RankMonotone ==
  ASSUME NEW s, NEW m \in Nat, NEW n \in Nat, m <= n
  PROVE  Rank(s, m) <= Rank(s, n)
<1>1. (Kept(s) \cap 1..m) \in SUBSET (Kept(s) \cap 1..n)
  OBVIOUS
<1> QED BY <1>1, RankIsNat, FS_Subset DEF Rank

(* No two kept bytes have the same rank, so that the rank finds the byte.  *)
LEMMA NthOfRank ==
  ASSUME NEW s \in Seq(Byte), NEW i \in Kept(s)
  PROVE  Nth(s, Rank(s, i)) = i
<1>1. \A j \in Kept(s) : j \in Nat /\ j >= 1
  BY DEF Kept
<1>2. ASSUME NEW j \in Kept(s), NEW k \in Kept(s), j < k
      PROVE  Rank(s, j) < Rank(s, k)
  <2>1. j \in Nat /\ k \in Nat /\ k - 1 \in Nat /\ j <= k - 1
    BY <1>1, <1>2
  <2>2. Rank(s, k) = Rank(s, k - 1) + 1
    <3>1. \A x \in (k - 1) + 1 .. k : x \in Kept(s)
      BY <2>1
    <3>2. Rank(s, k) = Rank(s, k - 1) + (k - (k - 1))
      BY <2>1, <3>1, RankRun
    <3> QED BY <2>1, <3>2, RankIsNat
  <2>3. Rank(s, j) <= Rank(s, k - 1)
    BY <2>1, RankMonotone
  <2>4. Rank(s, j) \in Nat /\ Rank(s, k - 1) \in Nat
    BY <2>1, RankIsNat
  <2> QED BY <2>2, <2>3, <2>4
<1>3. ASSUME NEW j \in Kept(s), Rank(s, j) = Rank(s, i)
      PROVE  j = i
  <2>1. j \in Nat /\ i \in Nat
    BY <1>1
  <2>2. Rank(s, j) \in Nat
    BY <2>1, RankIsNat
  <2>3. ~(Rank(s, j) < Rank(s, i)) /\ ~(Rank(s, i) < Rank(s, j))
    BY <2>2, <1>3
  <2>4. ~(j < i) /\ ~(i < j)
    BY <2>3, <1>2
  <2> QED BY <2>1, <2>4
<1> QED BY <1>3 DEF Nth

LEMMA ByteOfNormal == \A b \in Byte : NormalByte(b) \in Byte /\ NormalByte(b) # "CR"
BY DEF NormalByte, Byte

LEMMA NormalToDomain ==
  ASSUME NEW s, NEW n \in Nat
  PROVE  /\ Len(NormalTo(s, n)) = Rank(s, n)
         /\ DOMAIN NormalTo(s, n) = 1..Rank(s, n)
<1> DEFINE S == {NormalByte(s[Nth(s, k)]) : k \in 1..Rank(s, n)}
<1>1. NormalTo(s, n) \in [1..Rank(s, n) -> S]
  BY DEF NormalTo
<1> DEFINE r == Rank(s, n)
<1>2. r \in Nat
  BY RankIsNat
<1> HIDE DEF S, r
<1>3. \A f \in [1..r -> S] : f \in Seq(S) /\ Len(f) = r /\ DOMAIN f = 1..r
  BY <1>2
<1> QED BY <1>1, <1>3 DEF r

(* A sequence is the normal form if it has its length and its bytes.       *)
LEMMA NormalFormIs ==
  ASSUME NEW s, NEW n \in Nat, NEW t \in Seq(Byte), Len(t) = Rank(s, n),
         \A k \in 1..Rank(s, n) : t[k] = NormalByte(s[Nth(s, k)])
  PROVE  t = NormalTo(s, n)
<1>1. DOMAIN t = 1..Rank(s, n) /\ t = [k \in DOMAIN t |-> t[k]]
  OBVIOUS
<1> QED BY <1>1 DEF NormalTo

(* Kept bytes without a CR among them are read as they are.                *)
LEMMA NormalRun ==
  ASSUME NEW s \in Seq(Byte), NEW n \in Nat, NEW m \in Nat, n <= m, m <= Len(s),
         \A i \in n + 1 .. m : i \in Kept(s) /\ s[i] # "CR",
         NEW t \in Seq(Byte), t = NormalTo(s, n),
         NEW run \in Seq(Byte), Len(run) = m - n, \A k \in 1 .. m - n : run[k] = s[n + k]
  PROVE  t \o run = NormalTo(s, m)
<1>1. Len(t) = Rank(s, n) /\ Rank(s, n) \in Nat /\ Rank(s, m) = Rank(s, n) + (m - n)
  BY NormalToDomain, RankIsNat, RankRun
<1>2. t \o run \in Seq(Byte) /\ Len(t \o run) = Rank(s, m)
  BY <1>1
<1>3. ASSUME NEW k \in 1..Rank(s, m)
      PROVE  (t \o run)[k] = NormalByte(s[Nth(s, k)])
  <2>1. CASE k <= Rank(s, n)
    BY <2>1, <1>1 DEF NormalTo
  <2>2. CASE k > Rank(s, n)
    <3> DEFINE j == k - Rank(s, n)
    <3>1. j \in 1 .. m - n /\ n + j \in n + 1 .. m /\ n + j \in Nat
      BY <2>2, <1>1
    <3>2. n + j \in Kept(s) /\ s[n + j] # "CR"
      BY <3>1
    <3>3. Rank(s, n + j) = k
      <4>1. \A i \in n + 1 .. n + j : i \in Kept(s)
        BY <3>1
      <4>2. Rank(s, n + j) = Rank(s, n) + ((n + j) - n)
        BY <3>1, <4>1, RankRun
      <4> QED BY <4>2, <1>1, <3>1
    <3>4. Nth(s, k) = n + j
      BY <3>2, <3>3, NthOfRank
    <3>5. (t \o run)[k] = run[j] /\ run[j] = s[n + j]
      <4>1. k \in 1 .. Len(t) + Len(run) /\ ~(k <= Len(t)) /\ j = k - Len(t)
        BY <1>1, <2>2
      <4>2. (t \o run)[k] = IF k <= Len(t) THEN t[k] ELSE run[k - Len(t)]
        BY <4>1, ConcatProperties
      <4> QED BY <3>1, <4>1, <4>2
    <3> QED BY <3>2, <3>4, <3>5 DEF NormalByte
  <2> QED BY <2>1, <2>2, <1>1
<1> QED BY <1>2, <1>3, NormalFormIs

(* A CR is read as an LF.                                                  *)
LEMMA NormalCr ==
  ASSUME NEW s \in Seq(Byte), NEW n \in Nat, n < Len(s), s[n + 1] = "CR",
         NEW t \in Seq(Byte), t = NormalTo(s, n)
  PROVE  Append(t, "LF") = NormalTo(s, n + 1)
<1>1. n + 1 \in Kept(s)
  BY DEF Kept
<1>2. Rank(s, n) \in Nat /\ Rank(s, n + 1) = Rank(s, n) + 1
  <2>1. \A i \in n + 1 .. n + 1 : i \in Kept(s)
    BY <1>1
  <2>2. n + 1 \in Nat /\ n <= n + 1 /\ (n + 1) - n = 1
    OBVIOUS
  <2>3. Rank(s, n + 1) = Rank(s, n) + ((n + 1) - n)
    BY <2>1, <2>2, RankRun
  <2> QED BY <2>2, <2>3, RankIsNat
<1>3. Len(t) = Rank(s, n)
  BY NormalToDomain
<1>4. Append(t, "LF") \in Seq(Byte) /\ Len(Append(t, "LF")) = Rank(s, n + 1)
  BY <1>2, <1>3 DEF Byte
<1>5. ASSUME NEW k \in 1..Rank(s, n + 1)
      PROVE  Append(t, "LF")[k] = NormalByte(s[Nth(s, k)])
  <2>1. CASE k <= Rank(s, n)
    BY <2>1, <1>2, <1>3 DEF NormalTo
  <2>2. CASE k = Rank(s, n + 1)
    <3>1. Nth(s, k) = n + 1
      BY <2>2, <1>1, NthOfRank
    <3> QED BY <3>1, <2>2, <1>2, <1>3 DEF NormalByte
  <2>3. k <= Rank(s, n) \/ k = Rank(s, n + 1)
    BY <1>2
  <2> QED BY <2>1, <2>2, <2>3
<1>6. n + 1 \in Nat
  OBVIOUS
<1> QED BY <1>4, <1>5, <1>6, NormalFormIs

(* An LF after a CR is not read.                                           *)
LEMMA NormalDropped ==
  ASSUME NEW s \in Seq(Byte), NEW n \in Nat, n + 1 \notin Kept(s)
  PROVE  NormalTo(s, n + 1) = NormalTo(s, n)
BY RankDropped DEF NormalTo

(* What is read of a part is read of the whole.                            *)
LEMMA NormalPrefix ==
  ASSUME NEW s \in Seq(Byte), NEW n \in 0..Len(s), NEW t \in Seq(Byte), NEW u \in Seq(Byte),
         t \o u = NormalTo(s, n)
  PROVE  StartsWith(Normal(s), t)
<1>0. n \in Nat /\ Len(s) \in Nat /\ n <= Len(s) /\ Len(t) \in Nat /\ Len(u) \in Nat
  OBVIOUS
<1>1. Rank(s, n) <= Rank(s, Len(s)) /\ Rank(s, n) \in Nat /\ Rank(s, Len(s)) \in Nat
  BY <1>0, RankIsNat, RankMonotone
<1>2. Len(t) + Len(u) = Rank(s, n) /\ Len(t) \in Nat /\ Len(u) \in Nat
  <2>1. Len(NormalTo(s, n)) = Rank(s, n)
    BY <1>0, NormalToDomain
  <2>2. Len(t \o u) = Len(t) + Len(u)
    OBVIOUS
  <2> QED BY <2>1, <2>2, <1>0
<1>3. Len(t) <= Len(Normal(s))
  BY <1>1, <1>2, NormalToDomain DEF Normal
<1>4. \A k \in 1..Len(t) : Normal(s)[k] = t[k]
  <2> TAKE k \in 1..Len(t)
  <2>1. k \in 1..Rank(s, n) /\ k \in 1..Rank(s, Len(s))
    BY <1>1, <1>2
  <2>2. (t \o u)[k] = t[k]
    BY <1>2
  <2>3. NormalTo(s, n)[k] = NormalTo(s, Len(s))[k]
    BY <2>1 DEF NormalTo
  <2> QED BY <2>2, <2>3 DEF Normal
<1>5. \A k \in 1..Len(t) : Normal(s)[k] \in Byte
  BY <1>4
<1>6. /\ SubSeq(Normal(s), 1, Len(t)) \in Seq(Byte)
      /\ Len(SubSeq(Normal(s), 1, Len(t))) = Len(t)
      /\ \A k \in 1..Len(t) : SubSeq(Normal(s), 1, Len(t))[k] = Normal(s)[k]
  <2> DEFINE f == Normal(s)
  <2> HIDE DEF f
  <2>1. \A k \in 1..Len(t) : f[k] \in Byte
    BY <1>5 DEF f
  <2>2. /\ SubSeq(f, 1, Len(t)) \in Seq(Byte)
        /\ Len(SubSeq(f, 1, Len(t))) = IF 1 <= Len(t) THEN Len(t) - 1 + 1 ELSE 0
        /\ \A k \in 1 .. Len(t) - 1 + 1 : SubSeq(f, 1, Len(t))[k] = f[1 + k - 1]
    BY <2>1, <1>2, SubSeqProperties
  <2> QED BY <2>2, <1>2 DEF f
<1>7. SubSeq(Normal(s), 1, Len(t)) = t
  BY <1>4, <1>6, SeqEqual
<1> QED BY <1>3, <1>7 DEF StartsWith

-------------------------------------------------------------------------------
(* Positions: counting what is consumed piece by piece is counting all of  *)
(* it at once.                                                             *)

Shifted(S, n) == {i + n : i \in S}

LEMMA ShiftedCardinality ==
  ASSUME NEW S \in SUBSET Nat, IsFiniteSet(S), NEW n \in Nat
  PROVE  IsFiniteSet(Shifted(S, n)) /\ Cardinality(Shifted(S, n)) = Cardinality(S)
<1> DEFINE f == [i \in S |-> i + n]
<1>1. f \in Bijection(S, Shifted(S, n))
  <2>1. f \in [S -> Shifted(S, n)]
    BY DEF Shifted
  <2>2. \A i, j \in S : f[i] = f[j] => i = j
    OBVIOUS
  <2>3. \A k \in Shifted(S, n) : \E i \in S : f[i] = k
    BY DEF Shifted
  <2> QED BY <2>1, <2>2, <2>3 DEF Bijection, Injection, Surjection, IsInjective
<1>2. ExistsBijection(S, Shifted(S, n))
  BY <1>1 DEF ExistsBijection
<1> QED BY <1>2, FS_Bijection

LEMMA FiniteParts ==
  ASSUME NEW s \in Seq(Byte)
  PROVE  /\ IsFiniteSet(Breaks(s)) /\ Breaks(s) \in SUBSET Nat
         /\ IsFiniteSet(LastLine(s)) /\ LastLine(s) \in SUBSET Nat
         /\ Cardinality(Breaks(s)) \in Nat /\ Cardinality(LastLine(s)) \in Nat
<1>1. IsFiniteSet(1..Len(s))
  BY FS_Interval
<1>2. Breaks(s) \in SUBSET (1..Len(s)) /\ LastLine(s) \in SUBSET (1..Len(s))
  BY DEF Breaks, LastLine
<1>3. IsFiniteSet(Breaks(s)) /\ IsFiniteSet(LastLine(s))
  BY <1>1, <1>2, FS_Subset
<1> QED BY <1>2, <1>3, FS_CardinalityType

LEMMA ConcatParts ==
  ASSUME NEW s \in Seq(Byte), NEW b \in Seq(Byte)
  PROVE  /\ Breaks(s \o b) = Breaks(s) \cup Shifted(Breaks(b), Len(s))
         /\ LastLine(s \o b) = (IF Breaks(b) = {} THEN LastLine(s) ELSE {})
                               \cup Shifted(LastLine(b), Len(s))
<1> DEFINE n == Len(s)
<1>1. n \in Nat /\ Len(b) \in Nat /\ DOMAIN (s \o b) = 1 .. n + Len(b)
  OBVIOUS
<1>2. \A i \in 1..n : (s \o b)[i] = s[i]
  OBVIOUS
<1>3. \A i \in 1..Len(b) : (s \o b)[i + n] = b[i] /\ i + n \in n + 1 .. n + Len(b)
  OBVIOUS
<1>4. \A i \in n + 1 .. n + Len(b) : i - n \in 1..Len(b) /\ (i - n) + n = i
  OBVIOUS
<1>5. DOMAIN s = 1..n /\ DOMAIN b = 1..Len(b)
  OBVIOUS
<1> DEFINE t == s \o b
<1> HIDE DEF n, t
<1>6. \A i : i \in Breaks(t) <=> i \in Breaks(s) \/ i \in Shifted(Breaks(b), n)
  <2> TAKE i
  <2>1. i \in Breaks(t) => i \in Breaks(s) \/ i \in Shifted(Breaks(b), n)
    <3> HAVE i \in Breaks(t)
    <3>1. i \in 1 .. n + Len(b) /\ t[i] = "LF"
      BY <1>1 DEF Breaks, t
    <3>2. CASE i \in 1..n
      BY <3>1, <3>2, <1>2, <1>5 DEF Breaks, t
    <3>3. CASE i \in n + 1 .. n + Len(b)
      <4>1. i - n \in 1..Len(b) /\ t[i] = b[i - n] /\ i = (i - n) + n
        BY <3>3, <1>3, <1>4 DEF t
      <4>2. i - n \in Breaks(b)
        BY <4>1, <3>1, <1>5 DEF Breaks
      <4> QED BY <4>1, <4>2 DEF Shifted
    <3> QED BY <3>1, <3>2, <3>3, <1>1
  <2>2. i \in Breaks(s) => i \in Breaks(t)
    BY <1>1, <1>2, <1>5 DEF Breaks, t
  <2>3. i \in Shifted(Breaks(b), n) => i \in Breaks(t)
    BY <1>1, <1>3, <1>5 DEF Breaks, Shifted, t
  <2> QED BY <2>1, <2>2, <2>3
<1>7. Breaks(b) # {} => \E j \in Breaks(t) : j > n /\ j \in Nat
  <2> HAVE Breaks(b) # {}
  <2>1. PICK j : j \in Breaks(b)
    OBVIOUS
  <2>2. j \in 1..Len(b) /\ j + n \in Breaks(t)
    BY <2>1, <1>5, <1>6 DEF Breaks, Shifted
  <2>3. j + n > n /\ j + n \in Nat
    BY <2>2, <1>1
  <2> QED BY <2>2, <2>3
<1>8. \A i : i \in LastLine(t) <=> (Breaks(b) = {} /\ i \in LastLine(s)) \/ i \in Shifted(LastLine(b), n)
  <2> TAKE i
  <2>1. i \in LastLine(t) => (Breaks(b) = {} /\ i \in LastLine(s)) \/ i \in Shifted(LastLine(b), n)
    <3> HAVE i \in LastLine(t)
    <3>1. i \in 1 .. n + Len(b) /\ t[i] \notin Continuation /\ \A j \in Breaks(t) : j < i
      BY <1>1 DEF LastLine, t
    <3>2. CASE i \in 1..n
      <4>1. Breaks(b) = {}
        BY <3>1, <3>2, <1>1, <1>7
      <4>2. i \in LastLine(s)
        BY <3>1, <3>2, <1>2, <1>5, <1>6 DEF LastLine, t
      <4> QED BY <4>1, <4>2
    <3>3. CASE i \in n + 1 .. n + Len(b)
      <4>1. i - n \in 1..Len(b) /\ t[i] = b[i - n] /\ i = (i - n) + n
        BY <3>3, <1>3, <1>4 DEF t
      <4>2. \A j \in Breaks(b) : j < i - n
        <5> TAKE j \in Breaks(b)
        <5>1. j \in 1..Len(b) /\ j + n \in Breaks(t)
          BY <1>5, <1>6 DEF Breaks, Shifted
        <5> QED BY <5>1, <3>1, <4>1, <1>1
      <4>3. i - n \in LastLine(b)
        BY <4>1, <4>2, <3>1, <1>5 DEF LastLine
      <4> QED BY <4>1, <4>3 DEF Shifted
    <3> QED BY <3>1, <3>2, <3>3, <1>1
  <2>2. Breaks(b) = {} /\ i \in LastLine(s) => i \in LastLine(t)
    <3> HAVE Breaks(b) = {} /\ i \in LastLine(s)
    <3>1. i \in 1..n /\ s[i] \notin Continuation /\ \A j \in Breaks(s) : j < i
      BY <1>5 DEF LastLine
    <3>2. \A j \in Breaks(t) : j < i
      BY <3>1, <1>6 DEF Shifted
    <3> QED BY <3>1, <3>2, <1>1, <1>2 DEF LastLine, t
  <2>3. i \in Shifted(LastLine(b), n) => i \in LastLine(t)
    <3> HAVE i \in Shifted(LastLine(b), n)
    <3>1. PICK k \in LastLine(b) : i = k + n
      BY DEF Shifted
    <3>2. k \in 1..Len(b) /\ b[k] \notin Continuation /\ \A j \in Breaks(b) : j < k
      BY <1>5 DEF LastLine
    <3>3. i \in 1 .. n + Len(b) /\ t[i] \notin Continuation /\ i > n
      BY <3>1, <3>2, <1>1, <1>3 DEF t
    <3>4. \A j \in Breaks(t) : j < i
      <4> TAKE j \in Breaks(t)
      <4>1. CASE j \in Breaks(s)
        BY <4>1, <3>3, <1>1, <1>5 DEF Breaks
      <4>2. CASE j \in Shifted(Breaks(b), n)
        <5>1. PICK m \in Breaks(b) : j = m + n
          BY <4>2 DEF Shifted
        <5>2. m \in 1..Len(b) /\ m < k
          BY <3>2, <1>5 DEF Breaks
        <5> QED BY <5>1, <5>2, <3>1, <3>2, <1>1
      <4> QED BY <4>1, <4>2, <1>6
    <3> QED BY <3>3, <3>4, <1>1 DEF LastLine, t
  <2> QED BY <2>1, <2>2, <2>3
<1> QED BY <1>6, <1>8 DEF n, t

LEMMA TrackPosition ==
  ASSUME NEW s \in Seq(Byte), NEW b \in Seq(Byte)
  PROVE  Track(b, PositionAfter(s)) = PositionAfter(s \o b)
<1> DEFINE n == Len(s)
           old == IF Breaks(b) = {} THEN LastLine(s) ELSE {}
           B == Shifted(Breaks(b), n)
           L == Shifted(LastLine(b), n)
<1>1. /\ IsFiniteSet(B) /\ Cardinality(B) = Cardinality(Breaks(b)) /\ Cardinality(Breaks(b)) \in Nat
      /\ IsFiniteSet(L) /\ Cardinality(L) = Cardinality(LastLine(b)) /\ Cardinality(LastLine(b)) \in Nat
  BY FiniteParts, ShiftedCardinality
<1>2. IsFiniteSet(Breaks(s)) /\ IsFiniteSet(old) /\ Cardinality(Breaks(s)) \in Nat /\ Cardinality(old) \in Nat
  BY FiniteParts, FS_EmptySet
<1>3. Breaks(s) \cap B = {} /\ old \cap L = {}
  BY DEF Breaks, LastLine, Shifted
<1>4. Breaks(s \o b) = Breaks(s) \cup B /\ LastLine(s \o b) = old \cup L
  BY ConcatParts
<1> HIDE DEF n, old, B, L
<1>5. Cardinality(Breaks(s \o b)) = Cardinality(Breaks(s)) + Cardinality(B)
  <2>1. Cardinality(Breaks(s) \cup B) = Cardinality(Breaks(s)) + Cardinality(B) - Cardinality({})
    BY <1>1, <1>2, <1>3, FS_Union
  <2> QED BY <2>1, <1>1, <1>2, <1>4, FS_EmptySet
<1>6. Cardinality(LastLine(s \o b)) = Cardinality(old) + Cardinality(L)
  <2>1. Cardinality(old \cup L) = Cardinality(old) + Cardinality(L) - Cardinality({})
    BY <1>1, <1>2, <1>3, FS_Union
  <2> QED BY <2>1, <1>1, <1>2, <1>4, FS_EmptySet
<1>7. Cardinality(LastLine(s)) \in Nat
  BY FiniteParts
<1>8. Cardinality(old) = IF Breaks(b) = {} THEN Cardinality(LastLine(s)) ELSE 0
  BY FS_EmptySet DEF old
<1>9. PositionAfter(s \o b).column = Track(b, PositionAfter(s)).column
  BY <1>1, <1>6, <1>7, <1>8 DEF PositionAfter, Track
<1>10. PositionAfter(s \o b).line = Track(b, PositionAfter(s)).line
  BY <1>1, <1>2, <1>5 DEF PositionAfter, Track
<1> QED BY <1>9, <1>10 DEF PositionAfter, Track

-------------------------------------------------------------------------------
(* Parts of sequences.                                                     *)

LEMMA DropFirstOf ==
  ASSUME NEW s \in Seq(Byte), NEW k \in 0..Len(s)
  PROVE  /\ DropFirst(s, k) \in Seq(Byte)
         /\ Len(DropFirst(s, k)) = Len(s) - k
         /\ \A i \in 1 .. Len(s) - k : DropFirst(s, k)[i] = s[k + i]
<1>1. \A i \in k + 1 .. Len(s) : s[i] \in Byte
  OBVIOUS
<1>2. k + 1 \in Int /\ Len(s) \in Int
  OBVIOUS
<1>3. /\ SubSeq(s, k + 1, Len(s)) \in Seq(Byte)
      /\ Len(SubSeq(s, k + 1, Len(s))) = IF k + 1 <= Len(s) THEN Len(s) - (k + 1) + 1 ELSE 0
      /\ \A i \in 1 .. Len(s) - (k + 1) + 1 : SubSeq(s, k + 1, Len(s))[i] = s[(k + 1) + i - 1]
  BY <1>1, <1>2, SubSeqProperties
<1> QED BY <1>3 DEF DropFirst

LEMMA TakeFirstOf ==
  ASSUME NEW s \in Seq(Byte), NEW k \in 0..Len(s)
  PROVE  /\ SubSeq(s, 1, k) \in Seq(Byte)
         /\ Len(SubSeq(s, 1, k)) = k
         /\ \A i \in 1..k : SubSeq(s, 1, k)[i] = s[i]
<1>1. \A i \in 1..k : s[i] \in Byte
  OBVIOUS
<1>2. 1 \in Int /\ k \in Int
  OBVIOUS
<1>3. /\ SubSeq(s, 1, k) \in Seq(Byte)
      /\ Len(SubSeq(s, 1, k)) = IF 1 <= k THEN k - 1 + 1 ELSE 0
      /\ \A i \in 1 .. k - 1 + 1 : SubSeq(s, 1, k)[i] = s[1 + i - 1]
  BY <1>1, <1>2, SubSeqProperties
<1> QED BY <1>3

LEMMA TakeAndDrop ==
  ASSUME NEW s \in Seq(Byte), NEW k \in 0..Len(s)
  PROVE  SubSeq(s, 1, k) \o DropFirst(s, k) = s
<1> DEFINE a == SubSeq(s, 1, k)
           b == DropFirst(s, k)
<1>1. a \in Seq(Byte) /\ Len(a) = k /\ \A i \in 1..k : a[i] = s[i]
  BY TakeFirstOf
<1>2. b \in Seq(Byte) /\ Len(b) = Len(s) - k /\ \A i \in 1 .. Len(s) - k : b[i] = s[k + i]
  BY DropFirstOf
<1> HIDE DEF a, b
<1>3. a \o b \in Seq(Byte) /\ Len(a \o b) = Len(s)
  BY <1>1, <1>2
<1>4. ASSUME NEW i \in 1..Len(s)
      PROVE  (a \o b)[i] = s[i]
  <2>1. (a \o b)[i] = IF i <= Len(a) THEN a[i] ELSE b[i - Len(a)]
    <3>1. i \in 1 .. Len(a) + Len(b)
      BY <1>1, <1>2
    <3> QED BY <3>1, <1>1, <1>2, ConcatProperties
  <2>2. CASE i <= k
    BY <2>1, <2>2, <1>1
  <2>3. CASE i > k
    <3>1. i - k \in 1 .. Len(s) - k /\ k + (i - k) = i
      BY <2>3
    <3> QED BY <2>1, <2>3, <3>1, <1>1, <1>2
  <2>4. i <= k \/ i > k
    OBVIOUS
  <2> QED BY <2>2, <2>3, <2>4
<1>5. a \o b = s
  BY <1>3, <1>4, SeqEqual
<1> QED BY <1>5 DEF a, b

LEMMA DropTwice ==
  ASSUME NEW s \in Seq(Byte), NEW p \in 0..Len(s), NEW k \in 0 .. Len(s) - p
  PROVE  DropFirst(DropFirst(s, p), k) = DropFirst(s, p + k)
<1> DEFINE a == DropFirst(s, p)
           b == DropFirst(a, k)
           c == DropFirst(s, p + k)
<1>1. a \in Seq(Byte) /\ Len(a) = Len(s) - p /\ \A i \in 1 .. Len(s) - p : a[i] = s[p + i]
  BY DropFirstOf
<1> HIDE DEF a
<1>2. k \in 0..Len(a) /\ p + k \in 0..Len(s)
  BY <1>1
<1>3. b \in Seq(Byte) /\ Len(b) = Len(a) - k /\ \A i \in 1 .. Len(a) - k : b[i] = a[k + i]
  BY <1>1, <1>2, DropFirstOf
<1>4. c \in Seq(Byte) /\ Len(c) = Len(s) - (p + k) /\ \A i \in 1 .. Len(s) - (p + k) : c[i] = s[(p + k) + i]
  BY <1>2, DropFirstOf
<1> HIDE DEF b, c
<1>5. Len(b) = Len(c)
  BY <1>1, <1>3, <1>4
<1>6. ASSUME NEW i \in 1..Len(b)
      PROVE  b[i] = c[i]
  <2>1. i \in 1 .. Len(a) - k /\ k + i \in 1 .. Len(s) - p /\ i \in 1 .. Len(s) - (p + k)
    BY <1>1, <1>3
  <2>2. p + (k + i) = (p + k) + i
    BY <2>1
  <2> QED BY <2>1, <2>2, <1>1, <1>3, <1>4
<1>7. b = c
  BY <1>3, <1>4, <1>5, <1>6, SeqEqual
<1> QED BY <1>7 DEF a, b, c

LEMMA DropNone == ASSUME NEW s \in Seq(Byte) PROVE DropFirst(s, 0) = s
<1>1. SubSeq(s, 1, Len(s)) = s
  BY SubSeqFull
<1> QED BY <1>1 DEF DropFirst

LEMMA DropAll == ASSUME NEW s \in Seq(Byte) PROVE DropFirst(s, Len(s)) = <<>>
<1>1. DropFirst(s, Len(s)) \in Seq(Byte) /\ Len(DropFirst(s, Len(s))) = 0
  BY DropFirstOf
<1> QED BY <1>1

LEMMA AppendOf ==
  ASSUME NEW s \in Seq(Byte), NEW b \in Byte
  PROVE  /\ Append(s, b) \in Seq(Byte)
         /\ Len(Append(s, b)) = Len(s) + 1
         /\ \A j \in 1 .. Len(s) + 1 : Append(s, b)[j] = IF j = Len(s) + 1 THEN b ELSE s[j]
<1>1. Append(s, b) \in Seq(Byte) /\ Len(Append(s, b)) = Len(s) + 1
  OBVIOUS
<1>2. \A j \in 1 .. Len(s) + 1 : Append(s, b)[j] = IF j = Len(s) + 1 THEN b ELSE s[j]
  OBVIOUS
<1> QED BY <1>1, <1>2

LEMMA TailIsDrop ==
  ASSUME NEW s \in Seq(Byte), s # <<>>
  PROVE  Tail(s) = DropFirst(s, 1) /\ 1 \in 0..Len(s)
<1>1. Tail(s) = SubSeq(s, 2, Len(s))
  BY TailIsSubSeq
<1> QED BY <1>1 DEF DropFirst

-------------------------------------------------------------------------------
(* The byte order mark.                                                    *)

LEMMA BomBytes ==
  /\ Bom \in Seq(Byte) /\ Len(Bom) = 3
  /\ Bom[1] = "EF" /\ Bom[2] = "BB" /\ Bom[3] = "BF"
BY DEF Bom, Byte

LEMMA BomStart ==
  ASSUME NEW s \in Seq(Byte), NEW k \in 0..3
  PROVE  s = SubSeq(Bom, 1, k) <=> Len(s) = k /\ \A i \in 1..k : s[i] = Bom[i]
<1>1. SubSeq(Bom, 1, k) \in Seq(Byte) /\ Len(SubSeq(Bom, 1, k)) = k
      /\ \A i \in 1..k : SubSeq(Bom, 1, k)[i] = Bom[i]
  BY BomBytes, TakeFirstOf
<1>2. Len(s) = k /\ (\A i \in 1..k : s[i] = Bom[i]) => s = SubSeq(Bom, 1, k)
  <2> HAVE Len(s) = k /\ \A i \in 1..k : s[i] = Bom[i]
  <2>1. Len(s) = Len(SubSeq(Bom, 1, k)) /\ \A i \in 1..Len(s) : s[i] = SubSeq(Bom, 1, k)[i]
    BY <1>1
  <2> QED BY <2>1, <1>1, SeqEqual
<1> QED BY <1>1, <1>2

LEMMA BeginsMeans ==
  ASSUME NEW s \in Seq(Byte)
  PROVE  Begins(s) <=> Len(s) <= 3 /\ \A i \in 1..Len(s) : s[i] = Bom[i]
<1>1. \A k \in 0..3 : s = SubSeq(Bom, 1, k) <=> Len(s) = k /\ \A i \in 1..k : s[i] = Bom[i]
  BY BomStart
<1>2. ASSUME Len(s) <= 3, \A i \in 1..Len(s) : s[i] = Bom[i]
      PROVE  Begins(s)
  <2>1. Len(s) \in 0..3
    <3>1. \A n \in Nat : n <= 3 => n \in 0..3
      OBVIOUS
    <3>2. Len(s) \in Nat
      OBVIOUS
    <3> QED BY <3>1, <3>2, <1>2
  <2>2. s = SubSeq(Bom, 1, Len(s))
    BY <2>1, <1>1, <1>2
  <2> QED BY <2>1, <2>2 DEF Begins
<1>3. Begins(s) => Len(s) <= 3 /\ \A i \in 1..Len(s) : s[i] = Bom[i]
  <2> HAVE Begins(s)
  <2>1. PICK k \in 0..3 : s = SubSeq(Bom, 1, k)
    BY DEF Begins
  <2>2. Len(s) = k /\ \A i \in 1..k : s[i] = Bom[i]
    BY <2>1, <1>1
  <2> QED BY <2>2
<1> QED BY <1>2, <1>3

LEMMA StartsWithBom ==
  ASSUME NEW s \in Seq(Byte)
  PROVE  StartsWith(s, Bom) <=> Len(s) >= 3 /\ \A i \in 1..3 : s[i] = Bom[i]
<1>1. CASE Len(s) >= 3
  <2>1. SubSeq(s, 1, 3) \in Seq(Byte) /\ Len(SubSeq(s, 1, 3)) = 3 /\ \A i \in 1..3 : SubSeq(s, 1, 3)[i] = s[i]
    BY <1>1, TakeFirstOf
  <2>2. (\A i \in 1..3 : s[i] = Bom[i]) => SubSeq(s, 1, 3) = Bom
    BY <2>1, BomBytes, SeqEqual
  <2> QED BY <1>1, <2>1, <2>2, BomBytes DEF StartsWith
<1>2. CASE ~(Len(s) >= 3)
  BY <1>2, BomBytes DEF StartsWith
<1> QED BY <1>1, <1>2

(* The normal form begins with the mark if and only if the input does.     *)
LEMMA RankOfNone == ASSUME NEW s PROVE Rank(s, 0) = 0
<1>1. Kept(s) \cap 1..0 = {}
  OBVIOUS
<1> QED BY <1>1, FS_EmptySet DEF Rank

LEMMA NormalBom ==
  ASSUME NEW s \in Seq(Byte), StartsWith(Normal(s), Bom)
  PROVE  StartsWith(s, Bom)
<1> DEFINE f == Normal(s)
           r == Rank(s, Len(s))
<1>1. r \in Nat /\ Len(f) = r /\ DOMAIN f = 1..r
  BY RankIsNat, NormalToDomain DEF Normal
<1>2. 3 <= r /\ SubSeq(f, 1, 3) = Bom
  BY <1>1, BomBytes DEF StartsWith
<1>3. r <= Len(s)
  <2>1. IsFiniteSet(1..Len(s)) /\ Cardinality(1..Len(s)) = Len(s)
    <3>1. 1 \in Int /\ Len(s) \in Int /\ Len(s) >= 0
      OBVIOUS
    <3>2. IsFiniteSet(1..Len(s)) /\ Cardinality(1..Len(s)) = IF 1 > Len(s) THEN 0 ELSE Len(s) - 1 + 1
      BY <3>1, FS_Interval
    <3> QED BY <3>1, <3>2
  <2>2. (Kept(s) \cap 1..Len(s)) \in SUBSET (1..Len(s))
    OBVIOUS
  <2>3. Cardinality(Kept(s) \cap 1..Len(s)) <= Cardinality(1..Len(s))
    BY <2>1, <2>2, FS_Subset
  <2> QED BY <2>1, <2>3 DEF Rank
<1>4. \A i \in 1..3 : NormalByte(s[Nth(s, i)]) = Bom[i]
  <2>1. \A i \in 1..r : f[i] = NormalByte(s[Nth(s, i)])
    BY DEF Normal, NormalTo
  <2> DEFINE S == {f[i] : i \in 1..3}
  <2>2. \A i \in 1..3 : f[i] \in S
    OBVIOUS
  <2> HIDE DEF f, S
  <2>3. \A i \in 1 .. 3 - 1 + 1 : SubSeq(f, 1, 3)[i] = f[1 + i - 1]
    <3>1. 1 \in Int /\ 3 \in Int
      OBVIOUS
    <3> QED BY <2>2, <3>1, SubSeqProperties
  <2>4. \A i \in 1..3 : i \in 1 .. 3 - 1 + 1 /\ 1 + i - 1 = i /\ i \in 1..r
    BY <1>1, <1>2
  <2>5. \A i \in 1..3 : f[i] = Bom[i]
    BY <2>3, <2>4, <1>2
  <2> QED BY <2>1, <2>4, <2>5
<1> HIDE DEF f, r
<1>5. ASSUME NEW i \in 1..3, \A j \in 1..i : j \in Kept(s)
      PROVE  s[i] = Bom[i]
  <2>1. Rank(s, i) = i
    <3>1. \A j \in 0 + 1 .. i : j \in Kept(s)
      BY <1>5
    <3>2. Rank(s, i) = Rank(s, 0) + (i - 0)
      <4>1. 0 \in Nat /\ i \in Nat /\ 0 <= i
        OBVIOUS
      <4> QED BY <3>1, <4>1, RankRun
    <3> QED BY <3>2, RankOfNone
  <2>2. i \in Kept(s)
    BY <1>5
  <2>3. Nth(s, i) = i
    BY <2>1, <2>2, NthOfRank
  <2>4. NormalByte(s[i]) = Bom[i]
    BY <1>4, <2>3
  <2>5. Bom[i] # "LF"
    BY BomBytes
  <2> QED BY <2>4, <2>5 DEF NormalByte
<1>6. 1 \in DOMAIN s /\ 2 \in DOMAIN s /\ 3 \in DOMAIN s /\ Len(s) >= 3
  BY <1>1, <1>2, <1>3
<1>7. 1 \in Kept(s)
  BY <1>6 DEF Kept
<1>8. s[1] = "EF"
  BY <1>5, <1>7, BomBytes
<1>9. 2 \in Kept(s)
  BY <1>6, <1>8 DEF Kept
<1>10. s[2] = "BB"
  <2>1. \A j \in 1..2 : j \in Kept(s)
    BY <1>7, <1>9
  <2> QED BY <2>1, <1>5, BomBytes
<1>11. 3 \in Kept(s)
  BY <1>6, <1>10 DEF Kept
<1>12. s[3] = "BF"
  <2>1. \A j \in 1..3 : j \in Kept(s)
    BY <1>7, <1>9, <1>11
  <2> QED BY <2>1, <1>5, BomBytes
<1>13. \A i \in 1..3 : s[i] = Bom[i]
  BY <1>8, <1>10, <1>12, BomBytes
<1> QED BY <1>6, <1>13, StartsWithBom

-------------------------------------------------------------------------------
(* What the invariant says of the next bytes.                              *)

LEMMA WhereReadIs ==
  ASSUME TypeOK, RestIsLeft
  PROVE  /\ Read \in 0..Len(input) /\ Read - taken = Len(input) - Len(rest)
         /\ Read - taken \in Nat /\ taken \in Nat /\ Len(rest) \in Nat /\ Len(input) \in Nat
         /\ \A i \in 1..Len(rest) : rest[i] = input[(Read - taken) + i]
         /\ rest = <<>> => Read = Len(input)
<1>1. Len(rest) \in Nat /\ Len(input) \in Nat /\ taken \in Nat /\ taken <= Len(rest) /\ Len(rest) <= Len(input)
  BY DEF TypeOK, RestIsLeft
<1>2. Read - taken = Len(input) - Len(rest)
  BY <1>1 DEF Read
<1>3. Read \in 0..Len(input) /\ Read - taken \in Nat
  BY <1>1 DEF Read
<1>4. rest = <<>> => Read = Len(input)
  <2> HAVE rest = <<>>
  <2>1. Len(rest) = 0
    OBVIOUS
  <2> QED BY <2>1, <1>1 DEF Read
<1>5. \A i \in 1..Len(rest) : rest[i] = input[(Read - taken) + i]
  BY <1>2 DEF RestIsLeft
<1> QED BY <1>1, <1>2, <1>3, <1>4, <1>5

LEMMA PieceOf ==
  ASSUME TypeOK, NEW n \in Filled
  PROVE  n \in 0..Len(rest) /\ (n = 0 => rest = <<>>) /\ (avail > 0 => n = avail)
<1>1. avail \in Nat /\ avail <= Len(rest) /\ Len(rest) \in Nat
  BY DEF TypeOK
<1>2. CASE avail > 0
  BY <1>1, <1>2 DEF Filled
<1>3. CASE ~(avail > 0) /\ rest = <<>>
  BY <1>1, <1>3 DEF Filled
<1>4. CASE ~(avail > 0) /\ rest # <<>>
  BY <1>1, <1>4 DEF Filled
<1> QED BY <1>2, <1>3, <1>4

(* The next byte is kept, unless it is an LF that is to be dropped.        *)
LEMMA KeptNext ==
  ASSUME TypeOK, RestIsLeft, SkipsAfterCr, Read < Len(input), ~(skipLf /\ input[Read + 1] = "LF")
  PROVE  Read + 1 \in Kept(input)
<1>1. Read \in Nat /\ Len(input) \in Nat /\ Read + 1 \in DOMAIN input
  BY WhereReadIs DEF TypeOK
<1>2. (Read + 1) - 1 = Read /\ (Read + 1 > 1 => Read \in 1 .. Len(input) - 1)
  BY <1>1
<1> DEFINE next == Read + 1
<1> HIDE DEF next
<1>3. next \in DOMAIN input /\ next - 1 = Read
  BY <1>1, <1>2 DEF next
<1>4. ~(input[next] = "LF" /\ next > 1 /\ input[next - 1] = "CR")
  BY <1>2, <1>3 DEF next, SkipsAfterCr
<1> QED BY <1>3, <1>4 DEF Kept, next

(* Bytes of the piece without a CR, from the next one on.                  *)
LEMMA RunIsKept ==
  ASSUME TypeOK, RestIsLeft, SkipsAfterCr, NEW n \in taken..Len(rest), n > taken => ~(skipLf /\ rest[taken + 1] = "LF"),
         \A i \in taken + 1 .. n : rest[i] # "CR"
  PROVE  /\ Read + (n - taken) \in 0..Len(input)
         /\ \A i \in Read + 1 .. Read + (n - taken) : i \in Kept(input) /\ input[i] # "CR"
         /\ \A k \in 1 .. n - taken : rest[taken + k] = input[Read + k]
<1> DEFINE d == Read - taken
           m == Read + (n - taken)
<1>1. /\ Read \in Nat /\ taken \in Nat /\ n \in Nat /\ n >= taken /\ Len(rest) \in Nat /\ Len(input) \in Nat
      /\ d \in Nat /\ n <= Len(rest) /\ d + Len(rest) = Len(input)
      /\ \A i \in 1..Len(rest) : rest[i] = input[d + i]
  BY WhereReadIs
<1>2. Read = d + taken /\ m = d + n /\ m \in 0..Len(input)
  BY <1>1
<1> HIDE DEF d, m
<1>3. \A i \in Read + 1 .. m : /\ i - d \in taken + 1 .. n /\ i - d \in 1..Len(rest) /\ d + (i - d) = i
                               /\ i \in 1..Len(input)
  BY <1>1, <1>2
<1>4. \A i \in Read + 1 .. m : input[i] # "CR"
  <2> TAKE i \in Read + 1 .. m
  <2>1. rest[i - d] = input[d + (i - d)]
    BY <1>1, <1>3
  <2>2. rest[i - d] # "CR"
    BY <1>3
  <2> QED BY <2>1, <2>2, <1>3
<1>5. \A i \in Read + 1 .. m : i \in Kept(input)
  <2> TAKE i \in Read + 1 .. m
  <2>1. CASE i = Read + 1
    <3>1. n > taken /\ taken + 1 \in 1..Len(rest) /\ d + (taken + 1) = Read + 1 /\ Read < Len(input)
      BY <2>1, <1>1, <1>2, <1>3
    <3>2. rest[taken + 1] = input[Read + 1]
      <4>1. rest[taken + 1] = input[d + (taken + 1)]
        BY <3>1, <1>1
      <4> QED BY <4>1, <3>1
    <3>3. ~(skipLf /\ input[Read + 1] = "LF")
      BY <3>1, <3>2
    <3> QED BY <2>1, <3>1, <3>3, KeptNext
  <2>2. CASE i # Read + 1
    <3>1. i - 1 \in Read + 1 .. m
      BY <2>2, <1>1, <1>2
    <3>2. input[i - 1] # "CR"
      BY <3>1, <1>4
    <3>3. i \in DOMAIN input
      BY <1>3 DEF TypeOK
    <3> QED BY <3>2, <3>3 DEF Kept
  <2> QED BY <2>1, <2>2
<1>6. \A k \in 1 .. n - taken : rest[taken + k] = input[Read + k]
  <2> TAKE k \in 1 .. n - taken
  <2>1. taken + k \in 1..Len(rest) /\ d + (taken + k) = Read + k
    BY <1>1, <1>2
  <2>2. rest[taken + k] = input[d + (taken + k)]
    BY <2>1, <1>1
  <2> QED BY <2>1, <2>2
<1> QED BY <1>2, <1>4, <1>5, <1>6 DEF m

(* The inner buffer after k of its bytes have been consumed.               *)
LEMMA RestAfter ==
  ASSUME TypeOK, RestIsLeft, NEW k \in 0..Len(rest), rest' = DropFirst(rest, k), input' = input
  PROVE  /\ rest' \in Seq(Byte) /\ Len(rest') = Len(rest) - k /\ RestIsLeft'
         /\ \A i \in 1 .. Len(rest) - k : rest'[i] = rest[k + i]
<1>1. rest' \in Seq(Byte) /\ Len(rest') = Len(rest) - k /\ \A i \in 1 .. Len(rest) - k : rest'[i] = rest[k + i]
  BY DropFirstOf DEF TypeOK
<1>2. Len(rest) \in Nat /\ Len(input) \in Nat /\ Len(rest) <= Len(input) /\ k \in Nat /\ k <= Len(rest)
  BY DEF TypeOK, RestIsLeft
<1>3. Len(rest') <= Len(input') /\ Len(input') - Len(rest') = (Len(input) - Len(rest)) + k
  BY <1>1, <1>2
<1>4. ASSUME NEW i \in 1..Len(rest')
      PROVE  rest'[i] = input'[Len(input') - Len(rest') + i]
  <2>1. k + i \in 1..Len(rest) /\ i \in 1 .. Len(rest) - k
    BY <1>1, <1>2
  <2>2. rest'[i] = rest[k + i] /\ rest[k + i] = input[(Len(input) - Len(rest)) + (k + i)]
    BY <1>1, <2>1 DEF RestIsLeft
  <2>3. (Len(input) - Len(rest)) + (k + i) = (Len(input') - Len(rest')) + i
    BY <1>2, <1>3
  <2> QED BY <2>2, <2>3
<1> QED BY <1>1, <1>3, <1>4 DEF RestIsLeft

-------------------------------------------------------------------------------
(* The steps.                                                              *)

LEMMA InitHolds == ReaderInit => IInv
<1> SUFFICES ASSUME ReaderInit PROVE IInv
  OBVIOUS
<1>1. input \in Seq(Byte) /\ <<>> \in Seq(Byte) /\ Len(<<>>) = 0
  BY InputsAssumption DEF ReaderInit
<1>2. TypeOK
  <2>1. <<>> \in Seq(Seq(Byte)) /\ 0 \in 0..Len(input) /\ 0 \in 0..0
    BY <1>1
  <2>2. /\ avail \in 0..Len(rest) /\ clean \in 0..avail /\ taken \in 0..avail
        /\ pos \in 0..Len(normalized) /\ scanned \in 0..Len(out)
    BY <1>1, <2>1 DEF ReaderInit
  <2>3. /\ input \in Seq(Byte) /\ rest \in Seq(Byte) /\ normalized \in Seq(Byte) /\ out \in Seq(Byte)
        /\ fills \in Seq(Seq(Byte))
    BY <1>1, <2>1 DEF ReaderInit
  <2>4. /\ skipLf \in BOOLEAN /\ atStart \in BOOLEAN
        /\ pc \in {"fill", "bom", "join", "scan", "normalize", "filled", "end"}
    BY DEF ReaderInit
  <2> QED BY <2>2, <2>3, <2>4 DEF TypeOK
<1>3. RestIsLeft /\ Read = 0
  <2>1. Len(input) \in Nat
    BY <1>1
  <2> QED BY <2>1 DEF ReaderInit, RestIsLeft, Read
<1>4. ReadIsNormal
  <2>1. Len(NormalTo(input, 0)) = 0 /\ DOMAIN NormalTo(input, 0) = 1..0
    BY NormalToDomain, RankOfNone
  <2>2. <<>> = NormalTo(input, 0)
    <3>1. \A k \in 1..Rank(input, 0) : <<>>[k] = NormalByte(input[Nth(input, k)])
      BY RankOfNone
    <3> QED BY <1>1, <3>1, RankOfNone, NormalFormIs
  <2>3. DropFirst(normalized, pos) = <<>>
    BY <1>1, DropNone DEF ReaderInit
  <2>4. <<>> \o <<>> = <<>>
    OBVIOUS
  <2> QED BY <2>2, <2>3, <2>4, <1>3 DEF ReadIsNormal, ReaderInit
<1>5. SkipsAfterCr /\ CleanIsClean
  BY <1>3 DEF ReaderInit, SkipsAfterCr, CleanIsClean
<1>6. Phase
  BY DEF ReaderInit, Phase, AtTheStart
<1>7. BomInSight
  BY DEF ReaderInit, BomInSight
<1>8. PositionsAgree
  <2>1. Breaks(<<>>) = {} /\ LastLine(<<>>) = {}
    BY DEF Breaks, LastLine
  <2>2. PositionAfter(<<>>) = Start
    <3>1. Cardinality(Breaks(<<>>)) = 0 /\ Cardinality(LastLine(<<>>)) = 0
      BY <2>1, FS_EmptySet
    <3>2. 1 + 0 = 1
      OBVIOUS
    <3> QED BY <3>1, <3>2 DEF PositionAfter, Start
  <2>3. SubSeq(<<>>, 1, 0) = <<>>
    OBVIOUS
  <2> QED BY <2>2, <2>3 DEF ReaderInit, PositionsAgree
<1> QED BY <1>2, <1>3, <1>4, <1>5, <1>6, <1>7, <1>8 DEF IInv

(* Where fill_buf is sent: to bytes left over, to the first piece, to the  *)
(* next one.                                                               *)
LEMMA FillBufHolds == IInv /\ FillBuf => IInv'
<1> SUFFICES ASSUME IInv, FillBuf PROVE IInv'
  OBVIOUS
<1> USE DEF IInv
<1>1. UNCHANGED <<input, reader, clean, normalized, pos, skipLf, taken, fills, out, counts>>
  BY DEF FillBuf
<1>2. Read' = Read
  BY <1>1 DEF Read, reader
<1>3. pos \in Nat /\ Len(normalized) \in Nat /\ pos <= Len(normalized) /\ clean \in Nat
  BY DEF TypeOK
<1>4. pc = "fill" /\ taken = 0
  BY DEF FillBuf, Phase
<1>5. \/ pc' = "filled" /\ pos < Len(normalized)
      \/ pc' = "bom" /\ atStart
      \/ pc' = "scan" /\ clean = 0 /\ pos = Len(normalized) /\ ~atStart
      \/ pc' = "filled" /\ clean > 0 /\ ~atStart
  BY <1>3 DEF FillBuf
<1>6. atStart' = (IF pc' = "bom" THEN FALSE ELSE atStart)
  BY DEF FillBuf
<1>7. atStart => AtTheStart /\ ~(pos < Len(normalized))
  BY <1>3 DEF Phase, AtTheStart
<1>8. TypeOK'
  <2>1. atStart' \in BOOLEAN /\ pc' \in {"fill", "bom", "join", "scan", "normalize", "filled", "end"}
    BY <1>5, <1>6 DEF TypeOK
  <2> QED BY <2>1, <1>1 DEF TypeOK, reader, counts
<1>9. RestIsLeft' /\ ReadIsNormal' /\ SkipsAfterCr' /\ CleanIsClean' /\ PositionsAgree'
  BY <1>1, <1>2 DEF reader, counts, RestIsLeft, ReadIsNormal, SkipsAfterCr, CleanIsClean, PositionsAgree
<1>10. Phase'
  <2>1. AtTheStart => AtTheStart'
    BY <1>1 DEF AtTheStart, reader
  <2> QED BY <2>1, <1>1, <1>4, <1>5, <1>6, <1>7 DEF Phase, reader
<1>11. BomInSight'
  <2>1. StartsWith(input, Bom) /\ fills = <<>> => pc' = "bom"
    BY <1>4, <1>5, <1>7 DEF BomInSight
  <2> QED BY <2>1, <1>1 DEF BomInSight
<1> QED BY <1>8, <1>9, <1>10, <1>11

LEMMA JoinSplitBomHolds == IInv /\ JoinSplitBom => IInv'
<1> SUFFICES ASSUME IInv, JoinSplitBom PROVE IInv'
  OBVIOUS
<1> USE DEF IInv
<1>1. PICK n \in Filled :
        /\ avail' = n
        /\ IF n = 0 \/ n >= Len(Bom) \/ ~Begins(SubSeq(rest, 1, n))
           THEN pc' = (IF clean = 0 THEN "scan" ELSE "filled") /\ normalized' = normalized
           ELSE pc' = "join" /\ normalized' = <<>>
  BY DEF JoinSplitBom
<1>2. pc = "bom" /\ UNCHANGED <<input, rest, clean, pos, skipLf, atStart, taken, fills, out, counts>>
  BY DEF JoinSplitBom
<1>3. AtTheStart /\ ~atStart /\ taken = 0
  BY <1>2 DEF Phase
<1>4. n \in 0..Len(rest) /\ (n = 0 => rest = <<>>) /\ n \in Nat
  BY PieceOf
<1>5. normalized' = <<>> /\ normalized = <<>>
  BY <1>1, <1>3 DEF AtTheStart
<1>6. Len(normalized') = 0 /\ Len(normalized) = 0
  BY <1>5
<1>7. \/ pc' = "scan"
      \/ pc' = "join" /\ n > 0 /\ n < 3 /\ Begins(SubSeq(rest, 1, n))
  BY <1>1, <1>3, <1>4, BomBytes DEF AtTheStart
<1>8. Read' = Read
  BY <1>2 DEF Read
<1>9. TypeOK'
  <2>1. clean' = 0 /\ taken' = 0 /\ pos' = 0
    BY <1>2, <1>3 DEF AtTheStart
  <2>2. avail' \in 0..Len(rest') /\ clean' \in 0..avail' /\ taken' \in 0..avail' /\ pos' \in 0..Len(normalized')
    BY <2>1, <1>1, <1>2, <1>4, <1>6
  <2>3. pc' \in {"fill", "bom", "join", "scan", "normalize", "filled", "end"} /\ normalized' \in Seq(Byte)
    BY <1>7, <1>5
  <2> QED BY <2>2, <2>3, <1>2 DEF TypeOK, counts
<1>10. RestIsLeft' /\ ReadIsNormal' /\ SkipsAfterCr' /\ CleanIsClean' /\ PositionsAgree'
  BY <1>2, <1>5, <1>8 DEF counts, RestIsLeft, ReadIsNormal, SkipsAfterCr, CleanIsClean, PositionsAgree
<1>11. Phase'
  <2>1. <<>> = SubSeq(Bom, 1, 0)
    BY BomStart
  <2>2. Len(rest') = Len(input') - 0
    BY <1>2, <1>3 DEF AtTheStart, TypeOK
  <2>3. pc' = "join" => avail' > 0
    BY <1>1, <1>7
  <2> QED BY <2>1, <2>2, <2>3, <1>2, <1>3, <1>5, <1>6, <1>7 DEF Phase, AtTheStart
<1>12. BomInSight'
  <2>1. CASE StartsWith(input, Bom)
    <3>1. Len(rest) >= 3 /\ rest = input /\ \A i \in 1..3 : rest[i] = Bom[i]
      BY <2>1, <1>3, StartsWithBom DEF AtTheStart, TypeOK
    <3>2. n > 0 /\ n < 3 => Begins(SubSeq(rest, 1, n))
      <4> HAVE n > 0 /\ n < 3
      <4> DEFINE piece == SubSeq(rest, 1, n)
      <4>1. piece \in Seq(Byte) /\ Len(piece) = n /\ \A i \in 1..n : piece[i] = rest[i]
        BY <1>4, TakeFirstOf DEF TypeOK
      <4> HIDE DEF piece
      <4>2. \A i \in 1..Len(piece) : piece[i] = Bom[i]
        BY <4>1, <3>1, <1>4
      <4>3. Len(piece) <= 3
        BY <4>1, <1>4
      <4>4. Begins(piece)
        BY <4>1, <4>2, <4>3, BeginsMeans
      <4> QED BY <4>4 DEF piece
    <3>3. n > 0
      BY <3>1, <1>4
    <3>4. pc' = "scan" => avail' >= 3
      BY <3>2, <3>3, <1>1, <1>4, BomBytes
    <3> QED BY <3>1, <3>4, <1>2, <1>3, <1>7 DEF BomInSight, AtTheStart
  <2>2. CASE ~StartsWith(input, Bom)
    BY <2>2, <1>2 DEF BomInSight
  <2> QED BY <2>1, <2>2
<1> QED BY <1>2, <1>9, <1>10, <1>11, <1>12

(* One byte of what may be a mark: it is kept, as nothing is to be dropped *)
(* here and no byte of the mark is a CR.                                   *)
LEMMA JoinByteHolds == IInv /\ JoinByte => IInv'
<1> SUFFICES ASSUME IInv, JoinByte PROVE IInv'
  OBVIOUS
<1> USE DEF IInv
<1> DEFINE c == Len(normalized)
           Head1(n) == IF n = 0 \/ c >= Len(Bom) THEN normalized ELSE Append(normalized, rest[1])
           More(h) == h # normalized /\ Begins(h) /\ Len(h) < Len(Bom)
           Cr(h) == ~More(h) /\ h[Len(h)] = "CR"
<1>1. PICK n \in Filled :
        /\ IF Head1(n) = normalized THEN avail' = n /\ rest' = rest
           ELSE avail' = n - 1 /\ rest' = Tail(rest)
        /\ normalized' = (IF Cr(Head1(n)) THEN [Head1(n) EXCEPT ![Len(Head1(n))] = "LF"] ELSE Head1(n))
        /\ skipLf' = (skipLf \/ Cr(Head1(n)))
        /\ pos' = 0
        /\ pc' = IF More(Head1(n)) THEN "join" ELSE "filled"
  BY DEF JoinByte
<1>2. pc = "join" /\ UNCHANGED <<input, clean, atStart, taken, fills, out, counts>>
  BY DEF JoinByte
<1>3. /\ out = <<>> /\ pos = 0 /\ clean = 0 /\ ~skipLf /\ fills = <<>> /\ taken = 0 /\ ~atStart
      /\ c < 3 /\ c \in Nat /\ normalized = SubSeq(Bom, 1, c)
      /\ Len(rest) = Len(input) - c
      /\ normalized = <<>> => avail > 0
  BY <1>2 DEF Phase, TypeOK
<1>4. /\ n \in 0..Len(rest) /\ (n = 0 => rest = <<>>) /\ (avail > 0 => n = avail)
      /\ n \in Nat /\ Len(rest) \in Nat /\ Len(input) \in Nat
  <2>1. n \in 0..Len(rest) /\ (n = 0 => rest = <<>>) /\ (avail > 0 => n = avail)
    BY PieceOf
  <2> QED BY <2>1 DEF TypeOK
<1>5. \A i \in 1..c : normalized[i] = Bom[i] /\ Bom[i] # "CR"
  <2>1. \A k \in Nat : k < 3 => k \in 0..3
    OBVIOUS
  <2>2. c \in 0..3
    BY <2>1, <1>3
  <2>3. \A i \in 1..c : normalized[i] = Bom[i]
    BY <2>2, <1>3, BomStart DEF TypeOK
  <2>4. \A i \in 1..c : i = 1 \/ i = 2
    BY <1>3
  <2> QED BY <2>3, <2>4, BomBytes
<1>6. Read = c /\ out \o DropFirst(normalized, pos) = normalized /\ normalized = NormalTo(input, c)
  <2>1. Read = c
    BY <1>3, <1>4 DEF Read
  <2>2. DropFirst(normalized, 0) = normalized
    BY DropNone DEF TypeOK
  <2>3. <<>> \o normalized = normalized
    BY DEF TypeOK
  <2> QED BY <2>1, <2>2, <2>3, <1>3 DEF ReadIsNormal
<1>7. SubSeq(out', 1, scanned') = SubSeq(out, 1, scanned) /\ PositionsAgree'
  BY <1>2 DEF counts, PositionsAgree
<1>8. CASE n = 0
  <2>1. Head1(n) = normalized /\ avail' = 0 /\ rest' = rest /\ rest = <<>>
    BY <1>1, <1>4, <1>8
  <2>2. c > 0
    BY <1>3, <1>4, <1>8 DEF TypeOK
  <2>3. ~Cr(normalized) /\ ~More(normalized)
    <3>1. c \in 1..c
      BY <2>2, <1>3
    <3>2. normalized[c] # "CR"
      BY <3>1, <1>5
    <3> QED BY <3>2
  <2>4. normalized' = normalized /\ skipLf' = skipLf /\ pos' = pos /\ pc' = "filled"
    <3> HIDE DEF Cr, More, Head1
    <3>1. normalized' = normalized /\ pos' = pos /\ pc' = "filled"
      BY <1>1, <1>3, <2>1, <2>3
    <3>2. ~skipLf'
      BY <1>1, <1>3, <2>1, <2>3
    <3>3. skipLf' \in BOOLEAN /\ skipLf \in BOOLEAN
      BY <1>1, <1>3, <2>1, <2>3 DEF TypeOK
    <3> QED BY <3>1, <3>2, <3>3, <1>3
  <2>5. Read' = Read
    BY <1>2, <2>1 DEF Read
  <2>6. TypeOK'
    <3>1. avail' = 0 /\ clean' = 0 /\ taken' = 0
      BY <1>2, <1>3, <2>1
    <3>2. 0 \in 0..0
      OBVIOUS
    <3>3. 0 \in 0..Len(rest)
      BY <1>4
    <3>4. avail' \in 0..Len(rest') /\ clean' \in 0..avail' /\ taken' \in 0..avail'
      BY <3>1, <3>2, <3>3, <2>1
    <3> QED BY <3>4, <2>1, <2>4, <1>2 DEF TypeOK, counts
  <2>7. RestIsLeft' /\ ReadIsNormal' /\ SkipsAfterCr' /\ CleanIsClean'
    BY <1>2, <2>1, <2>4, <2>5 DEF RestIsLeft, ReadIsNormal, SkipsAfterCr, CleanIsClean
  <2>8. Phase'
    BY <1>2, <1>3, <2>1, <2>2, <2>4 DEF Phase
  <2>9. BomInSight'
    <3>1. Len(input) < 3
      <4>1. Len(rest) = 0
        BY <2>1
      <4> QED BY <4>1, <1>3, <1>4
    <3>2. ~StartsWith(input, Bom)
      BY <3>1, <1>4, StartsWithBom DEF TypeOK
    <3> QED BY <3>2, <1>2 DEF BomInSight
  <2> QED BY <1>2, <1>7, <2>6, <2>7, <2>8, <2>9
<1>9. CASE n # 0
  <2> DEFINE b == rest[1]
             head == Append(normalized, b)
  <2>1. /\ Len(rest) > 0 /\ 1 \in 1..Len(rest) /\ rest # <<>> /\ b \in Byte /\ b = input[c + 1]
        /\ c < Len(input)
    <3>1. Len(rest) > 0 /\ 1 \in 1..Len(rest) /\ rest # <<>>
      BY <1>4, <1>9
    <3>2. rest[1] = input[(Read - taken) + 1]
      BY <3>1, WhereReadIs
    <3>3. (Read - taken) + 1 = c + 1
      BY <1>3, <1>6
    <3>4. b \in Byte
      BY <3>1 DEF TypeOK
    <3> QED BY <3>1, <3>2, <3>3, <3>4, <1>3, <1>4
  <2>2. Head1(n) = head
    BY <1>9, <1>3, BomBytes
  <2>3. /\ head \in Seq(Byte) /\ Len(head) = c + 1 /\ head # normalized
        /\ (\A i \in 1..c : head[i] = normalized[i]) /\ head[c + 1] = b
    <3>1. normalized \in Seq(Byte) /\ Len(normalized) = c /\ c \in Nat
      BY <1>3 DEF TypeOK
    <3>2. head \in Seq(Byte) /\ Len(head) = c + 1 /\ head[c + 1] = b
      BY <2>1, <3>1
    <3>3. \A i \in 1..c : head[i] = normalized[i]
      BY <2>1, <3>1
    <3>4. Len(head) # c
      BY <3>1, <3>2
    <3> QED BY <3>2, <3>3, <3>4
  <2> HIDE DEF c, head, b, Head1
  <2>4. avail' = n - 1 /\ rest' = DropFirst(rest, 1)
    <3>1. Tail(rest) = DropFirst(rest, 1)
      BY <2>1, TailIsDrop DEF TypeOK
    <3> QED BY <3>1, <1>1, <2>2, <2>3
  <2>5. /\ rest' \in Seq(Byte) /\ Len(rest') = Len(rest) - 1 /\ RestIsLeft'
    <3>1. 1 \in 0..Len(rest)
      BY <2>1, <1>4
    <3> QED BY <3>1, <2>4, <1>2, RestAfter
  <2>6. Read' = c + 1 /\ Len(rest') = Len(input') - (c + 1)
    BY <2>5, <1>2, <1>3, <1>4 DEF Read
  <2>7. Begins(head) => b # "CR"
    <3> HAVE Begins(head)
    <3>1. c + 1 \in 1..Len(head) /\ head[c + 1] = Bom[c + 1] /\ c + 1 \in {1, 2, 3}
      BY <2>3, <1>3, BeginsMeans
    <3> QED BY <3>1, <2>3, BomBytes
  <2>8. Cr(head) <=> b = "CR"
    BY <2>3, <2>7
  <2> DEFINE next == IF b = "CR" THEN Append(normalized, "LF") ELSE head
  <2>9. normalized' = next /\ skipLf' = (b = "CR") /\ pos' = 0
    <3>1. b = "CR" => [head EXCEPT ![Len(head)] = "LF"] = Append(normalized, "LF")
      <4>1. [head EXCEPT ![c + 1] = "LF"] \in Seq(Byte) /\ Len([head EXCEPT ![c + 1] = "LF"]) = c + 1
            /\ \A j \in 1 .. c + 1 : [head EXCEPT ![c + 1] = "LF"][j] = IF j = c + 1 THEN "LF" ELSE head[j]
        <5>1. c + 1 \in 1..Len(head) /\ "LF" \in Byte
          BY <2>3, <1>3 DEF Byte
        <5> QED BY <5>1, <2>3, ExceptSeq
      <4>2. /\ Append(normalized, "LF") \in Seq(Byte) /\ Len(Append(normalized, "LF")) = c + 1
            /\ \A j \in 1 .. c + 1 : Append(normalized, "LF")[j] = IF j = c + 1 THEN "LF" ELSE normalized[j]
        <5>1. normalized \in Seq(Byte) /\ "LF" \in Byte
          BY DEF TypeOK, Byte
        <5> QED BY <5>1, AppendOf DEF c
      <4>3. \A j \in 1 .. c + 1 : [head EXCEPT ![c + 1] = "LF"][j] = Append(normalized, "LF")[j]
        BY <4>1, <4>2, <2>3, <1>3
      <4> QED BY <4>1, <4>2, <4>3, <2>3, SeqEqual
    <3> HIDE DEF More, Cr
    <3> QED BY <3>1, <1>1, <1>3, <2>2, <2>8
  <2>10. next \in Seq(Byte) /\ Len(next) = c + 1 /\ next = NormalTo(input, c + 1) /\ next # <<>>
    <3>1. CASE b = "CR"
      <4>1. Append(normalized, "LF") = NormalTo(input, c + 1)
        BY <3>1, <2>1, <1>3, <1>6, NormalCr DEF TypeOK
      <4>2. Append(normalized, "LF") \in Seq(Byte) /\ Len(Append(normalized, "LF")) = c + 1
        BY DEF TypeOK, Byte, c
      <4>3. c + 1 # 0
        BY <1>3
      <4> QED BY <3>1, <4>1, <4>2, <4>3
    <3>2. CASE b # "CR"
      <4>1. c + 1 \in Kept(input)
        BY <2>1, <1>3, <1>6, KeptNext
      <4>2. \A i \in c + 1 .. c + 1 : i \in Kept(input) /\ input[i] # "CR"
        BY <4>1, <3>2, <2>1
      <4> DEFINE m == c + 1
                 run == <<b>>
      <4>3. run \in Seq(Byte) /\ Len(run) = m - c /\ \A k \in 1 .. m - c : run[k] = input[c + k]
        BY <2>1, <1>3
      <4>4. m \in Nat /\ c <= m /\ m <= Len(input) /\ m # 0
        BY <1>3, <1>4, <2>1
      <4>5. normalized \o run = head
        BY DEF TypeOK, head
      <4> HIDE DEF m, run
      <4>6. \A i \in c + 1 .. m : i \in Kept(input) /\ input[i] # "CR"
        BY <4>2 DEF m
      <4>7. normalized \in Seq(Byte) /\ input \in Seq(Byte)
        BY DEF TypeOK
      <4>8. normalized \o run = NormalTo(input, m)
        BY <4>3, <4>4, <4>6, <4>7, <1>3, <1>6, NormalRun
      <4>9. head = NormalTo(input, c + 1) /\ c + 1 # 0
        BY <4>4, <4>5, <4>8 DEF m
      <4> QED BY <3>2, <4>9, <2>3
    <3> QED BY <3>1, <3>2
  <2> HIDE DEF next
  <2>11. /\ pc' = "filled" \/ (pc' = "join" /\ More(head))
         /\ pc' = "filled" => ~More(head)
    BY <1>1, <2>2
  <2>12. TypeOK'
    <3>1. avail' \in 0..Len(rest') /\ clean' \in 0..avail' /\ taken' \in 0..avail' /\ pos' \in 0..Len(normalized')
      BY <2>4, <2>5, <2>9, <2>10, <1>2, <1>3, <1>4, <1>9
    <3>2. skipLf' \in BOOLEAN /\ pc' \in {"fill", "bom", "join", "scan", "normalize", "filled", "end"}
      BY <2>9, <2>11
    <3> QED BY <3>1, <3>2, <2>5, <2>9, <2>10, <1>2 DEF TypeOK, counts
  <2>13. ReadIsNormal'
    <3>1. DropFirst(normalized', pos') = next
      BY <2>9, <2>10, DropNone
    <3>2. <<>> \o next = next
      BY <2>10
    <3> QED BY <3>1, <3>2, <2>6, <2>10, <1>2, <1>3 DEF ReadIsNormal
  <2>14. SkipsAfterCr'
    <3>1. skipLf' <=> b = "CR"
      BY <2>9
    <3>2. input'[Read'] = b /\ Read' > 0
      BY <2>1, <2>6, <1>2, <1>3
    <3> QED BY <3>1, <3>2 DEF SkipsAfterCr
  <2>15. CleanIsClean'
    BY <1>2, <1>3 DEF CleanIsClean
  <2>16. More(head) => b # "CR" /\ next = head /\ c + 1 < 3 /\ head = SubSeq(Bom, 1, c + 1)
    <3> HAVE More(head)
    <3>1. Begins(head) /\ Len(head) < 3
      BY BomBytes
    <3>2. c + 1 < 3 /\ \A k \in Nat : k < 3 => k \in 0..3
      BY <3>1, <2>3
    <3>3. c + 1 \in 0..3
      BY <3>2, <1>3
    <3>4. \A i \in 1 .. c + 1 : head[i] = Bom[i]
      BY <3>1, <2>3, BeginsMeans
    <3>5. head = SubSeq(Bom, 1, c + 1)
      BY <3>3, <3>4, <2>3, BomStart
    <3> QED BY <3>1, <3>2, <3>5, <2>7 DEF next
  <2>17. Phase'
    <3>1. Len(normalized') = c + 1 /\ normalized' # <<>>
      BY <2>9, <2>10
    <3>2. pos' < Len(normalized')
      BY <3>1, <2>9, <1>3
    <3>3. pc' = "join" => /\ ~skipLf' /\ Len(normalized') < 3 /\ normalized' = SubSeq(Bom, 1, Len(normalized'))
                          /\ Len(rest') = Len(input') - Len(normalized')
      BY <2>6, <2>9, <2>11, <2>16, <3>1
    <3> QED BY <3>1, <3>2, <3>3, <2>9, <2>11, <1>2, <1>3 DEF Phase
  <2>18. BomInSight'
    <3>1. CASE StartsWith(input, Bom)
      <4>1. Len(input) >= 3 /\ \A i \in 1..3 : input[i] = Bom[i]
        BY <3>1, StartsWithBom DEF TypeOK
      <4>2. c + 1 \in 1..3 /\ b = Bom[c + 1]
        BY <4>1, <2>1, <1>3
      <4>3. b # "CR"
        BY <4>2, BomBytes
      <4>4. \A i \in 1 .. c + 1 : head[i] = Bom[i]
        BY <4>2, <2>3, <1>3, <1>5 DEF c
      <4>5. Begins(head)
        BY <4>2, <4>4, <2>3, BeginsMeans
      <4>6. ~More(head) => c + 1 = 3
        BY <4>2, <4>5, <2>3, <1>3, BomBytes
      <4>7. c + 1 = 3 => StartsWith(head, Bom)
        BY <4>4, <2>3, StartsWithBom
      <4>8. pc' = "filled" => StartsWith(Buffer', Bom)
        <5> HAVE pc' = "filled"
        <5>1. StartsWith(head, Bom) /\ normalized' = head
          BY <4>3, <4>6, <4>7, <2>9, <2>11 DEF next
        <5>2. DropFirst(normalized', pos') = head
          BY <5>1, <2>3, <2>9, DropNone
        <5>3. pos' < Len(normalized')
          BY <5>1, <2>3, <2>9, <1>3
        <5> QED BY <5>1, <5>2, <5>3 DEF Buffer
      <4> QED BY <4>8, <2>11, <1>2, <1>3 DEF BomInSight
    <3>2. CASE ~StartsWith(input, Bom)
      BY <3>2, <1>2 DEF BomInSight
    <3> QED BY <3>1, <3>2
  <2> QED BY <1>2, <1>7, <2>5, <2>12, <2>13, <2>14, <2>15, <2>17, <2>18
<1> QED BY <1>8, <1>9

LEMMA InputEndsHolds == IInv /\ InputEnds => IInv'
<1> SUFFICES ASSUME IInv, InputEnds PROVE IInv'
  OBVIOUS
<1> USE DEF IInv
<1>1. pc = "scan" /\ pc' = "filled" /\ UNCHANGED <<input, reader, buffers, taken, fills, out, counts>>
  BY DEF InputEnds
<1>2. rest = <<>> /\ avail = 0
  <2>1. 0 \in Filled
    BY DEF InputEnds
  <2>2. rest = <<>>
    BY <2>1, PieceOf
  <2> QED BY <2>2 DEF TypeOK
<1>3. TypeOK'
  BY <1>1 DEF TypeOK, reader, buffers, counts
<1>4. RestIsLeft' /\ ReadIsNormal' /\ SkipsAfterCr' /\ CleanIsClean' /\ PositionsAgree'
  BY <1>1 DEF reader, buffers, counts, RestIsLeft, Read, ReadIsNormal, SkipsAfterCr, CleanIsClean, PositionsAgree
<1>5. Phase'
  BY <1>1, <1>2 DEF Phase, reader, buffers
<1>6. BomInSight'
  BY <1>1, <1>2 DEF BomInSight, buffers
<1> QED BY <1>1, <1>3, <1>4, <1>5, <1>6

(* An LF after a CR is not kept.                                           *)
LEMMA DropLfHolds == IInv /\ DropLf => IInv'
<1> SUFFICES ASSUME IInv, DropLf PROVE IInv'
  OBVIOUS
<1> USE DEF IInv
<1>1. PICK n \in Filled \ {0} : Swallows /\ avail' = n - 1 /\ rest' = Tail(rest)
  BY DEF DropLf
<1>2. pc = "scan" /\ ~skipLf' /\ skipLf' \in BOOLEAN
      /\ UNCHANGED <<input, clean, normalized, pos, atStart, pc, taken, fills, out, counts>>
  BY DEF DropLf
<1>3. skipLf /\ rest[1] = "LF" /\ clean = 0 /\ pos = Len(normalized) /\ taken = 0 /\ ~atStart
  BY <1>1, <1>2 DEF Swallows, Phase
<1>4. n \in 0..Len(rest) /\ n > 0 /\ Len(rest) \in Nat /\ Len(rest) > 0 /\ rest # <<>>
  <2>1. n \in 0..Len(rest) /\ n # 0
    BY <1>1, PieceOf
  <2>2. Len(rest) \in Nat
    BY DEF TypeOK
  <2>3. n > 0 /\ Len(rest) > 0
    BY <2>1, <2>2
  <2> QED BY <2>1, <2>2, <2>3
<1>5. 1 \in 0..Len(rest) /\ rest' = DropFirst(rest, 1)
  BY <1>1, <1>4, TailIsDrop DEF TypeOK
<1>6. rest' \in Seq(Byte) /\ Len(rest') = Len(rest) - 1 /\ RestIsLeft'
  BY <1>2, <1>5, RestAfter
<1>7. /\ Read \in Nat /\ Read < Len(input) /\ input[Read + 1] = "LF" /\ Len(input) \in Nat
      /\ Read > 0 /\ input[Read] = "CR"
  <2>1. Read - taken = Len(input) - Len(rest) /\ Read \in Nat /\ Len(input) \in Nat
    BY WhereReadIs
  <2>2. 1 \in 1..Len(rest)
    BY <1>4
  <2>3. rest[1] = input[(Read - taken) + 1]
    BY <2>2, WhereReadIs
  <2>4. Read - taken = Read
    BY <2>1, <1>3
  <2>5. Read < Len(input)
    <3>1. Read = Len(input) - Len(rest)
      BY <2>1, <2>4
    <3> HIDE DEF Read
    <3> QED BY <3>1, <2>1, <1>4
  <2>6. input[Read + 1] = "LF"
    BY <2>3, <2>4, <1>3
  <2>7. Read > 0 /\ input[Read] = "CR"
    BY <1>3 DEF SkipsAfterCr
  <2> QED BY <2>1, <2>5, <2>6, <2>7
<1>8. Read' = Read + 1
  <2>1. Len(input) \in Nat
    BY DEF TypeOK
  <2> QED BY <2>1, <1>2, <1>3, <1>4, <1>6 DEF Read
<1>9. TypeOK'
  <2>1. avail' \in 0..Len(rest') /\ clean' = 0 /\ taken' = 0
    BY <1>1, <1>2, <1>3, <1>4, <1>6
  <2>2. clean' \in 0..avail' /\ taken' \in 0..avail'
    BY <2>1, <1>6
  <2> QED BY <2>1, <2>2, <1>2, <1>6 DEF TypeOK, counts
<1>10. ReadIsNormal'
  <2>1. Read + 1 \notin Kept(input)
    <3>1. Read + 1 > 1 /\ (Read + 1) - 1 = Read
      BY <1>7
    <3> QED BY <3>1, <1>7 DEF Kept
  <2>2. NormalTo(input, Read + 1) = NormalTo(input, Read)
    BY <2>1, <1>7, NormalDropped DEF TypeOK
  <2> QED BY <2>2, <1>2, <1>8 DEF ReadIsNormal
<1>11. SkipsAfterCr' /\ CleanIsClean' /\ PositionsAgree'
  <2>1. input'[Read'] = "LF"
    BY <1>2, <1>7, <1>8
  <2> QED BY <2>1, <1>2, <1>3 DEF SkipsAfterCr, CleanIsClean, PositionsAgree, counts
<1>12. Phase'
  BY <1>2, <1>3 DEF Phase
<1>13. BomInSight'
  <2>1. StartsWith(input, Bom) => fills # <<>>
    BY <1>2, <1>3 DEF BomInSight
  <2> QED BY <2>1, <1>2 DEF BomInSight
<1> QED BY <1>2, <1>6, <1>9, <1>10, <1>11, <1>12, <1>13

(* The first byte after which a mark can no longer be in sight is a CR.    *)
LEMMA MarkHasNoCr ==
  ASSUME IInv, rest = input, StartsWith(input, Bom)
  PROVE  Len(rest) >= 3 /\ \A i \in 1..3 : rest[i] = Bom[i] /\ rest[i] # "CR"
<1>1. Len(rest) >= 3 /\ \A i \in 1..3 : rest[i] = Bom[i]
  BY StartsWithBom DEF IInv, TypeOK
<1>2. \A i \in 1..3 : Bom[i] # "CR"
  <2>1. \A i \in 1..3 : i = 1 \/ i = 2 \/ i = 3
    OBVIOUS
  <2> QED BY <2>1, BomBytes
<1> QED BY <1>1, <1>2

LEMMA BeginNormalizingHolds == IInv /\ BeginNormalizing => IInv'
<1> SUFFICES ASSUME IInv, BeginNormalizing PROVE IInv'
  OBVIOUS
<1> USE DEF IInv
<1>1. PICK n \in Filled \ {0} : ~Swallows /\ rest[1] = "CR" /\ avail' = n
  BY DEF BeginNormalizing
<1>2. /\ pc = "scan" /\ normalized' = <<>> /\ pos' = 0 /\ ~skipLf' /\ skipLf' \in BOOLEAN
      /\ pc' = "normalize" /\ taken' = 0
      /\ UNCHANGED <<input, rest, clean, atStart, fills, out, counts>>
  BY DEF BeginNormalizing
<1>3. clean = 0 /\ pos = Len(normalized) /\ taken = 0 /\ ~atStart
  BY <1>2 DEF Phase
<1>4. n \in 0..Len(rest) /\ n > 0 /\ Len(rest) \in Nat /\ 1 \in 1..Len(rest)
  <2>1. n \in 0..Len(rest) /\ n # 0
    BY <1>1, PieceOf
  <2>2. Len(rest) \in Nat
    BY DEF TypeOK
  <2>3. n > 0 /\ 1 \in 1..Len(rest)
    BY <2>1, <2>2
  <2> QED BY <2>1, <2>2, <2>3
<1>5. Read' = Read
  BY <1>2, <1>3 DEF Read
<1>6. Len(normalized') = 0 /\ normalized' \in Seq(Byte)
  BY <1>2
<1>7. TypeOK'
  <2>1. avail' \in 0..Len(rest') /\ 0 \in 0..0 /\ 0 \in 0..avail'
    BY <1>1, <1>2, <1>4
  <2>2. clean' \in 0..avail' /\ taken' \in 0..avail' /\ pos' \in 0..Len(normalized')
    BY <2>1, <1>2, <1>3, <1>6
  <2> QED BY <2>1, <2>2, <1>2, <1>6 DEF TypeOK, counts
<1>8. RestIsLeft' /\ CleanIsClean' /\ PositionsAgree'
  BY <1>2, <1>3 DEF RestIsLeft, CleanIsClean, PositionsAgree, counts
<1>9. ReadIsNormal'
  <2>1. DropFirst(normalized, pos) = <<>> /\ DropFirst(normalized', pos') = <<>>
    BY <1>2, <1>3, <1>6, DropAll, DropNone DEF TypeOK
  <2> QED BY <2>1, <1>2, <1>5 DEF ReadIsNormal
<1>10. SkipsAfterCr'
  <2>1. Read - taken = Read
    BY <1>3, WhereReadIs
  <2>2. rest[1] = input[(Read - taken) + 1]
    BY <1>4, WhereReadIs
  <2>3. input'[Read' + 1] = "CR"
    BY <2>1, <2>2, <1>1, <1>2, <1>5
  <2> QED BY <2>3, <1>2 DEF SkipsAfterCr
<1>11. Phase'
  BY <1>1, <1>2, <1>3, <1>4 DEF Phase
<1>12. BomInSight'
  <2>1. StartsWith(input, Bom) => fills # <<>>
    <3> SUFFICES ASSUME StartsWith(input, Bom), fills = <<>> PROVE FALSE
      OBVIOUS
    <3>1. rest = input
      BY <1>2 DEF BomInSight
    <3>2. 1 \in 1..3
      OBVIOUS
    <3> QED BY <3>1, <3>2, <1>1, MarkHasNoCr
  <2> QED BY <2>1, <1>2 DEF BomInSight
<1> QED BY <1>2, <1>7, <1>8, <1>9, <1>10, <1>11, <1>12

LEMMA PassThroughHolds == IInv /\ PassThrough => IInv'
<1> SUFFICES ASSUME IInv, PassThrough PROVE IInv'
  OBVIOUS
<1> USE DEF IInv
<1>1. PICK n \in Filled \ {0} :
        ~Swallows /\ rest[1] # "CR" /\ avail' = n /\ clean' \in 1..n /\ RunTo(0, clean', n)
  BY DEF PassThrough
<1>2. /\ pc = "scan" /\ ~skipLf' /\ skipLf' \in BOOLEAN /\ pc' = "filled"
      /\ UNCHANGED <<input, rest, normalized, pos, atStart, taken, fills, out, counts>>
  BY DEF PassThrough
<1>3. clean = 0 /\ pos = Len(normalized) /\ taken = 0 /\ ~atStart
  BY <1>2 DEF Phase
<1>4. n \in 0..Len(rest) /\ n > 0 /\ Len(rest) \in Nat /\ 1 \in 1..Len(rest) /\ (avail > 0 => n = avail)
  <2>1. n \in 0..Len(rest) /\ n # 0 /\ (avail > 0 => n = avail)
    BY <1>1, PieceOf
  <2>2. Len(rest) \in Nat
    BY DEF TypeOK
  <2>3. n > 0 /\ 1 \in 1..Len(rest)
    BY <2>1, <2>2
  <2> QED BY <2>1, <2>2, <2>3
<1>5. Read' = Read
  BY <1>2 DEF Read
<1>6. /\ clean' \in Nat /\ clean' > 0 /\ clean' <= n /\ \A i \in 1..clean' : rest[i] # "CR"
      /\ clean' < n => rest[clean' + 1] = "CR"
  <2>1. clean' \in Nat /\ clean' > 0 /\ clean' <= n
    BY <1>1, <1>4
  <2>2. \A i \in 0 + 1 .. clean' : rest[i] # "CR"
    BY <1>1 DEF RunTo
  <2>3. clean' < n => rest[clean' + 1] = "CR"
    BY <1>1 DEF RunTo
  <2>4. 0 + 1 = 1
    OBVIOUS
  <2> QED BY <2>1, <2>2, <2>3, <2>4
<1>7. TypeOK'
  <2>1. avail' \in 0..Len(rest') /\ clean' \in 0..avail' /\ taken' \in 0..avail'
    BY <1>1, <1>2, <1>3, <1>4, <1>6
  <2> QED BY <2>1, <1>2 DEF TypeOK, counts
<1>8. RestIsLeft' /\ CleanIsClean' /\ PositionsAgree' /\ ReadIsNormal'
  BY <1>2, <1>5, <1>6 DEF RestIsLeft, CleanIsClean, PositionsAgree, ReadIsNormal, counts
<1>9. SkipsAfterCr'
  <2>1. Read - taken = Read
    BY <1>3, WhereReadIs
  <2>2. rest[1] = input[(Read - taken) + 1]
    BY <1>4, WhereReadIs
  <2>3. ~(skipLf /\ input[Read + 1] = "LF")
    BY <2>1, <2>2, <1>1 DEF Swallows
  <2> QED BY <2>3, <1>2, <1>5 DEF SkipsAfterCr
<1>10. Phase'
  BY <1>2, <1>3, <1>6 DEF Phase
<1>11. BomInSight'
  <2>1. CASE StartsWith(input, Bom) /\ fills = <<>>
    <3>1. rest = input /\ avail >= 3
      BY <2>1, <1>2 DEF BomInSight
    <3>2. Len(rest) >= 3 /\ \A i \in 1..3 : rest[i] = Bom[i] /\ rest[i] # "CR"
      BY <2>1, <3>1, MarkHasNoCr
    <3>3. n >= 3
      BY <3>1, <1>4 DEF TypeOK
    <3>4. clean' >= 3
      <4> SUFFICES ASSUME clean' < 3 PROVE FALSE
        BY <1>6
      <4>1. \A k \in Nat : k < 3 => k + 1 \in 1..3
        OBVIOUS
      <4>2. clean' + 1 \in 1..3
        BY <4>1, <1>6
      <4>3. clean' < n
        BY <3>3, <1>4, <1>6
      <4> QED BY <4>2, <4>3, <3>2, <1>6
    <3>5. Buffer' = SubSeq(rest, 1, clean')
      <4>1. ~(pos' < Len(normalized')) /\ (clean' < avail' \/ clean' = avail')
        BY <1>1, <1>2, <1>3, <1>4, <1>6 DEF TypeOK
      <4> QED BY <4>1, <1>2 DEF Buffer
    <3>6. /\ SubSeq(rest, 1, clean') \in Seq(Byte) /\ Len(SubSeq(rest, 1, clean')) = clean'
          /\ \A i \in 1..clean' : SubSeq(rest, 1, clean')[i] = rest[i]
      <4>1. clean' \in 0..Len(rest)
        BY <1>4, <1>6
      <4> QED BY <4>1, TakeFirstOf DEF TypeOK
    <3>7. StartsWith(Buffer', Bom)
      <4> DEFINE piece == SubSeq(rest, 1, clean')
      <4> HIDE DEF piece
      <4>1. piece \in Seq(Byte) /\ Len(piece) = clean' /\ \A i \in 1..clean' : piece[i] = rest[i]
        BY <3>6 DEF piece
      <4>2. \A i \in 1..3 : i \in 1..clean'
        BY <3>4, <1>6
      <4>3. Len(piece) >= 3 /\ \A i \in 1..3 : piece[i] = Bom[i]
        BY <3>2, <3>4, <4>1, <4>2
      <4>4. StartsWith(piece, Bom)
        BY <4>1, <4>3, StartsWithBom
      <4> QED BY <4>4, <3>5 DEF piece
    <3> QED BY <2>1, <3>7, <1>2 DEF BomInSight
  <2>2. CASE ~(StartsWith(input, Bom) /\ fills = <<>>)
    BY <2>2, <1>2 DEF BomInSight
  <2> QED BY <2>1, <2>2
<1> QED BY <1>2, <1>7, <1>8, <1>9, <1>10, <1>11

LEMMA PieceBetween ==
  ASSUME NEW s \in Seq(Byte), NEW k \in 0..Len(s), NEW n \in k..Len(s)
  PROVE  /\ SubSeq(s, k + 1, n) \in Seq(Byte)
         /\ Len(SubSeq(s, k + 1, n)) = n - k
         /\ \A i \in 1 .. n - k : SubSeq(s, k + 1, n)[i] = s[k + i]
<1>1. \A i \in k + 1 .. n : s[i] \in Byte
  OBVIOUS
<1>2. k + 1 \in Int /\ n \in Int
  OBVIOUS
<1>3. /\ SubSeq(s, k + 1, n) \in Seq(Byte)
      /\ Len(SubSeq(s, k + 1, n)) = IF k + 1 <= n THEN n - (k + 1) + 1 ELSE 0
      /\ \A i \in 1 .. n - (k + 1) + 1 : SubSeq(s, k + 1, n)[i] = s[(k + 1) + i - 1]
  BY <1>1, <1>2, SubSeqProperties
<1> QED BY <1>3

LEMMA ConcatOfBytes ==
  ASSUME NEW s \in Seq(Byte), NEW t \in Seq(Byte)
  PROVE  s \o t \in Seq(Byte) /\ Len(s \o t) = Len(s) + Len(t)
OBVIOUS

LEMMA Regroup ==
  ASSUME NEW s \in Seq(Byte), NEW t \in Seq(Byte), NEW u \in Seq(Byte)
  PROVE  (s \o t) \o u = s \o (t \o u)
BY ConcatAssociative

LEMMA TakeOfConcat ==
  ASSUME NEW s \in Seq(Byte), NEW b \in Seq(Byte), NEW k \in 0..Len(s)
  PROVE  SubSeq(s \o b, 1, k) = SubSeq(s, 1, k)
<1> DEFINE t == s \o b
           x == SubSeq(t, 1, k)
           y == SubSeq(s, 1, k)
<1>1. t \in Seq(Byte) /\ Len(t) = Len(s) + Len(b) /\ \A i \in 1..Len(s) : t[i] = s[i]
  OBVIOUS
<1> HIDE DEF t
<1>2. k \in 0..Len(t) /\ \A i \in 1..k : i \in 1..Len(s)
  BY <1>1
<1>3. x \in Seq(Byte) /\ Len(x) = k /\ \A i \in 1..k : x[i] = t[i]
  BY <1>1, <1>2, TakeFirstOf
<1>4. y \in Seq(Byte) /\ Len(y) = k /\ \A i \in 1..k : y[i] = s[i]
  BY TakeFirstOf
<1> HIDE DEF x, y
<1>5. x = y
  BY <1>1, <1>2, <1>3, <1>4, SeqEqual
<1> QED BY <1>5 DEF t, x, y

(* Bytes without a CR, from the next one on, are read as they are.         *)
LEMMA RunIsNormal ==
  ASSUME TypeOK, RestIsLeft, SkipsAfterCr, NEW n \in taken..Len(rest), n > taken => ~(skipLf /\ rest[taken + 1] = "LF"),
         \A i \in taken + 1 .. n : rest[i] # "CR",
         NEW run \in Seq(Byte), Len(run) = n - taken, \A i \in 1 .. n - taken : run[i] = rest[taken + i],
         NEW t \in Seq(Byte), t = NormalTo(input, Read)
  PROVE  t \o run = NormalTo(input, Read + (n - taken))
<1> DEFINE r == Read
           m == Read + (n - taken)
<1>1. /\ m \in 0..Len(input)
      /\ \A i \in r + 1 .. m : i \in Kept(input) /\ input[i] # "CR"
      /\ \A k \in 1 .. n - taken : rest[taken + k] = input[r + k]
  BY RunIsKept
<1>2. r \in Nat /\ taken \in Nat /\ n \in Nat /\ n >= taken /\ Len(input) \in Nat /\ input \in Seq(Byte)
  BY WhereReadIs DEF TypeOK
<1>3. m \in Nat /\ r <= m /\ m <= Len(input) /\ m - r = n - taken
  BY <1>1, <1>2
<1>4. t = NormalTo(input, r)
  OBVIOUS
<1> HIDE DEF r, m
<1>5. Len(run) = m - r /\ \A k \in 1 .. m - r : run[k] = input[r + k]
  BY <1>1, <1>3
<1>6. t \o run = NormalTo(input, m)
  <2>1. r \in Nat /\ m \in Nat /\ r <= m /\ m <= Len(input) /\ input \in Seq(Byte)
    BY <1>2, <1>3
  <2>2. \A i \in r + 1 .. m : i \in Kept(input) /\ input[i] # "CR"
    BY <1>1
  <2>3. run \in Seq(Byte) /\ t \in Seq(Byte)
    OBVIOUS
  <2>4. Len(run) = m - r
    BY <1>5
  <2>5. \A k \in 1 .. m - r : run[k] = input[r + k]
    BY <1>5
  <2> QED BY <2>1, <2>2, <2>3, <2>4, <2>5, <1>4, NormalRun
<1> QED BY <1>6 DEF m

(* The run up to the next CR, or to the end of the window, and what is     *)
(* normalized with it.                                                     *)
LEMMA NormalizeRun ==
  ASSUME IInv, Normalize, NEW n \in taken..Window, RunTo(taken, n, Window),
         NEW run, run = SubSeq(rest, taken + 1, n), NEW m, m = Read + (n - taken)
  PROVE  /\ Window \in Nat /\ Window <= avail /\ taken < Window /\ taken \in Nat /\ n \in Nat
         /\ avail <= Len(rest) /\ avail \in Nat /\ Len(rest) \in Nat /\ ~skipLf
         /\ m \in 0..Len(input) /\ Len(input) - m = Len(rest) - n
         /\ n > taken => m > 0 /\ input[m] # "CR"
         /\ \A i \in 1 .. Len(rest) - n : rest[n + i] = input[m + i]
         /\ run \in Seq(Byte) /\ Len(run) = n - taken
         /\ normalized \o run \in Seq(Byte) /\ out \o (normalized \o run) = NormalTo(input, m)
<1> USE DEF IInv
<1>1. pc = "normalize" /\ taken < Window
  BY DEF Normalize
<1>2. avail \in Nat /\ Len(rest) \in Nat /\ avail <= Len(rest) /\ Chunk \in Nat /\ Chunk > 0 /\ taken \in Nat
  BY InputsAssumption DEF TypeOK
<1>3. Window \in Nat /\ Window <= avail
  BY <1>2 DEF Window
<1> HIDE DEF Window
<1>4. n \in Nat /\ n >= taken /\ n <= Window /\ n \in taken..Len(rest) /\ taken # avail
  BY <1>1, <1>2, <1>3
<1>5. ~skipLf /\ pos = 0
  BY <1>1, <1>4 DEF Phase
<1>6. \A i \in taken + 1 .. n : rest[i] # "CR"
  BY DEF RunTo
<1>7. /\ m \in 0..Len(input)
      /\ \A i \in Read + 1 .. m : i \in Kept(input) /\ input[i] # "CR"
      /\ \A k \in 1 .. n - taken : rest[taken + k] = input[Read + k]
  BY <1>4, <1>5, <1>6, RunIsKept
<1>8. /\ Read \in Nat /\ Len(input) \in Nat /\ Read - taken = Len(input) - Len(rest)
      /\ \A i \in 1..Len(rest) : rest[i] = input[(Read - taken) + i]
  BY WhereReadIs
<1> HIDE DEF Read
<1>9. Len(input) - m = Len(rest) - n
  BY <1>2, <1>4, <1>8
<1>10. n > taken => m > 0 /\ input[m] # "CR"
  <2> HAVE n > taken
  <2>1. m > 0 /\ m \in Read + 1 .. m
    BY <1>2, <1>4, <1>8
  <2> QED BY <2>1, <1>7
<1>11. \A i \in 1 .. Len(rest) - n : rest[n + i] = input[m + i]
  <2> TAKE i \in 1 .. Len(rest) - n
  <2>1. n + i \in 1..Len(rest) /\ (Read - taken) + (n + i) = m + i
    BY <1>2, <1>4, <1>8
  <2> QED BY <2>1, <1>8
<1>12. run \in Seq(Byte) /\ Len(run) = n - taken /\ \A i \in 1 .. n - taken : run[i] = rest[taken + i]
  <2>1. taken \in 0..Len(rest)
    BY <1>2, <1>4
  <2> QED BY <2>1, <1>4, PieceBetween DEF TypeOK
<1>13. out \in Seq(Byte) /\ normalized \in Seq(Byte) /\ out \o normalized = NormalTo(input, Read)
  <2>1. DropFirst(normalized, 0) = normalized
    BY DropNone DEF TypeOK
  <2> QED BY <2>1, <1>5 DEF TypeOK, ReadIsNormal
<1>14. (out \o normalized) \o run = NormalTo(input, m)
  <2> DEFINE t == out \o normalized
  <2>0. t \in Seq(Byte)
    <3>1. out \in Seq(Byte) /\ normalized \in Seq(Byte)
      BY <1>13
    <3> QED BY <3>1, ConcatProperties
  <2>1. t = NormalTo(input, Read)
    BY <1>13
  <2> HIDE DEF t
  <2>5. t \o run = NormalTo(input, m)
    BY <2>0, <2>1, <1>4, <1>5, <1>6, <1>12, RunIsNormal
  <2> QED BY <2>5 DEF t
<1>15. normalized \o run \in Seq(Byte) /\ out \o (normalized \o run) = NormalTo(input, m)
  <2>1. out \in Seq(Byte) /\ normalized \in Seq(Byte) /\ run \in Seq(Byte)
    BY <1>12, <1>13
  <2>2. normalized \o run \in Seq(Byte)
    BY <2>1, ConcatProperties
  <2>3. (out \o normalized) \o run = out \o (normalized \o run)
    BY <2>1, Regroup
  <2> QED BY <2>2, <2>3, <1>14
<1> QED BY <1>1, <1>2, <1>3, <1>4, <1>5, <1>7, <1>9, <1>10, <1>11, <1>12, <1>15

LEMMA NormalizeHolds == IInv /\ Normalize => IInv'
<1> SUFFICES ASSUME IInv, Normalize PROVE IInv'
  OBVIOUS
<1> USE DEF IInv
<1>1. PICK n \in taken..Window :
        /\ RunTo(taken, n, Window)
        /\ \/ /\ n = Window
              /\ normalized' = normalized \o SubSeq(rest, taken + 1, n)
              /\ taken' = n /\ skipLf' = skipLf
           \/ /\ n < Window
              /\ normalized' = normalized \o Append(SubSeq(rest, taken + 1, n), "LF")
              /\ taken' = IF n + 1 < avail /\ rest[n + 2] = "LF" THEN n + 2 ELSE n + 1
              /\ skipLf' = (n + 1 = avail)
  BY DEF Normalize
<1>2. /\ pc = "normalize"
      /\ UNCHANGED <<input, reader, clean, pos, atStart, pc, fills, out, counts>>
  BY DEF Normalize
<1> DEFINE run == SubSeq(rest, taken + 1, n)
           m == Read + (n - taken)
           filled == normalized \o run
<1>3. /\ Window \in Nat /\ Window <= avail /\ taken < Window /\ taken \in Nat /\ n \in Nat
      /\ avail <= Len(rest) /\ avail \in Nat /\ Len(rest) \in Nat /\ ~skipLf
      /\ m \in 0..Len(input) /\ Len(input) - m = Len(rest) - n
      /\ n > taken => m > 0 /\ input[m] # "CR"
      /\ \A i \in 1 .. Len(rest) - n : rest[n + i] = input[m + i]
      /\ run \in Seq(Byte) /\ Len(run) = n - taken
      /\ filled \in Seq(Byte) /\ out \o filled = NormalTo(input, m)
  BY <1>1, NormalizeRun
<1>4. clean = 0 /\ pos = 0 /\ ~atStart /\ avail > 0
  BY <1>2 DEF Phase
<1>5. Len(input) \in Nat /\ Read = (Len(input) - Len(rest)) + taken /\ m \in Nat
  BY WhereReadIs, <1>3 DEF Read
<1>6. Len(filled) = Len(normalized) + (n - taken) /\ Len(normalized) \in Nat
  <2>1. normalized \in Seq(Byte) /\ run \in Seq(Byte) /\ Len(run) = n - taken
    BY <1>3 DEF TypeOK
  <2> HIDE DEF run
  <2>2. Len(filled) = Len(normalized) + Len(run)
    BY <2>1, ConcatOfBytes
  <2>3. Len(normalized) \in Nat
    BY <2>1
  <2> QED BY <2>1, <2>2, <2>3
<1>7. Read' = m + (taken' - n)
  <2>1. Read' = (Len(input) - Len(rest)) + taken'
    BY <1>2 DEF Read, reader
  <2>2. m = (Len(input) - Len(rest)) + n
    BY <1>3, <1>5
  <2>3. CASE taken' = n
    BY <2>1, <2>2, <2>3, <1>3, <1>5
  <2>4. CASE taken' = n + 1
    BY <2>1, <2>2, <2>4, <1>3, <1>5
  <2>5. CASE taken' = n + 2
    BY <2>1, <2>2, <2>5, <1>3, <1>5
  <2> QED BY <2>3, <2>4, <2>5, <1>1
<1> HIDE DEF m, filled, run
<1>8. (* What is left to show, for each way the turn ends.                 *)
      ASSUME normalized' \in Seq(Byte), normalized' # <<>>, taken' \in 1..avail, skipLf' \in BOOLEAN,
             out \o normalized' = NormalTo(input, Read'),
             SkipsAfterCr', skipLf' => taken' = avail
      PROVE  IInv'
  <2>1. TypeOK'
    <3>1. pos' \in 0..Len(normalized') /\ taken' \in 0..avail'
      <4>1. 0 \in 0..Len(normalized')
        BY <1>8
      <4>2. taken' \in 0..avail
        BY <1>8, <1>3
      <4> QED BY <4>1, <4>2, <1>2, <1>4 DEF reader
    <3> QED BY <3>1, <1>2, <1>8 DEF TypeOK, reader, counts
  <2>2. ReadIsNormal'
    <3>1. DropFirst(normalized', 0) = normalized'
      BY <1>8, DropNone
    <3> QED BY <3>1, <1>2, <1>4, <1>8 DEF ReadIsNormal
  <2>3. RestIsLeft' /\ CleanIsClean' /\ PositionsAgree'
    BY <1>2, <1>4 DEF RestIsLeft, CleanIsClean, PositionsAgree, reader, counts
  <2>4. Phase'
    <3>1. taken' # 0
      BY <1>3, <1>8
    <3> QED BY <3>1, <1>2, <1>4, <1>8 DEF Phase, reader
  <2>5. BomInSight'
    BY <1>2 DEF BomInSight
  <2> QED BY <2>1, <2>2, <2>3, <2>4, <2>5, <1>2, <1>8
<1>9. CASE n = Window
  <2>0. ~(n < Window) /\ n > taken
    BY <1>3, <1>9
  <2>1. normalized' = filled /\ taken' = n
    BY <2>0, <1>1 DEF run, filled
  <2>6. skipLf' \in BOOLEAN /\ ~skipLf'
    <3>1. skipLf \in BOOLEAN /\ skipLf' = skipLf
      BY <2>0, <1>1 DEF TypeOK
    <3> QED BY <3>1, <1>3
  <2>2. Read' = m
    BY <2>1, <1>3, <1>5, <1>7
  <2>3. normalized' # <<>> /\ taken' \in 1..avail
    <3>1. Len(filled) # 0
      BY <2>0, <1>3, <1>6
    <3> QED BY <3>1, <2>0, <2>1, <1>3, <1>9
  <2>4. SkipsAfterCr'
    <3>1. ~skipLf' /\ input'[Read'] # "CR"
      BY <2>0, <2>2, <2>6, <1>2, <1>3
    <3> QED BY <3>1 DEF SkipsAfterCr
  <2>5. normalized' \in Seq(Byte) /\ out \o normalized' = NormalTo(input, Read')
    BY <2>1, <2>2, <1>3
  <2> QED BY <2>3, <2>4, <2>5, <2>6, <1>8
<1>10. CASE n < Window
  <2>1. /\ normalized' = normalized \o Append(run, "LF")
        /\ taken' = (IF n + 1 < avail /\ rest[n + 2] = "LF" THEN n + 2 ELSE n + 1)
        /\ skipLf' <=> n + 1 = avail
    <3>1. n # Window
      BY <1>3, <1>10
    <3> QED BY <3>1, <1>1 DEF run
  <2>2. n + 1 <= avail /\ 1 \in 1 .. Len(rest) - n /\ m < Len(input)
    BY <1>3, <1>5, <1>10
  <2>3. rest[n + 1] = "CR" /\ rest[n + 1] = input[m + 1]
    BY <2>2, <1>1, <1>3, <1>10 DEF RunTo
  <2>4. /\ normalized' \in Seq(Byte) /\ Len(normalized') = Len(filled) + 1
        /\ out \o normalized' = NormalTo(input, m + 1)
    <3> DEFINE lf == <<"LF">>
               t == out \o filled
    <3>0. run \in Seq(Byte) /\ filled \in Seq(Byte) /\ "LF" \in Byte
      BY <1>3 DEF Byte
    <3>1. lf \in Seq(Byte) /\ Len(lf) = 1 /\ Append(run, "LF") = run \o lf
      BY <3>0
    <3>2. out \in Seq(Byte) /\ normalized \in Seq(Byte) /\ input \in Seq(Byte)
      BY DEF TypeOK
    <3>9. t \in Seq(Byte)
      BY <3>0, <3>2, ConcatProperties
    <3>3. t \in Seq(Byte) /\ t = NormalTo(input, m)
      BY <3>9, <1>3
    <3> HIDE DEF t
    <3>4. Append(t, "LF") = NormalTo(input, m + 1)
      BY <2>2, <2>3, <3>2, <3>3, <1>5, NormalCr
    <3>5. Append(t, "LF") = t \o lf
      BY <3>3
    <3> HIDE DEF lf
    <3>6. normalized' = filled \o lf
      <4>1. normalized' = normalized \o (run \o lf)
        BY <2>1, <3>1
      <4>2. (normalized \o run) \o lf = normalized \o (run \o lf)
        BY <3>0, <3>1, <3>2, Regroup
      <4> QED BY <4>1, <4>2 DEF filled
    <3>7. out \o normalized' = t \o lf
      BY <3>0, <3>1, <3>2, <3>6, Regroup DEF t
    <3>8. filled \o lf \in Seq(Byte) /\ Len(filled \o lf) = Len(filled) + 1
      BY <3>0, <3>1, ConcatProperties
    <3> QED BY <3>4, <3>5, <3>6, <3>7, <3>8
  <2>5. normalized' # <<>> /\ skipLf' \in BOOLEAN
    <3>1. Len(normalized') # 0
      BY <2>4, <1>3, <1>6
    <3>2. skipLf' \in BOOLEAN
      <4>1. n # Window
        BY <1>3, <1>10
      <4> QED BY <4>1, <1>1
    <3> QED BY <3>1, <3>2
  <2>6. CASE n + 1 < avail /\ rest[n + 2] = "LF"
    <3>1. taken' = n + 2 /\ ~skipLf' /\ taken' \in 1..avail
      <4>1. taken' = n + 2 /\ ~(n + 1 = avail)
        BY <2>1, <2>6, <1>3
      <4>2. n + 2 \in 1..avail
        BY <2>6, <1>3
      <4> QED BY <4>1, <4>2, <2>1
    <3>2. Read' = (m + 1) + 1
      BY <3>1, <1>3, <1>5, <1>7
    <3>3. input[(m + 1) + 1] = "LF"
      <4>1. 2 \in 1 .. Len(rest) - n /\ m + 2 = (m + 1) + 1
        BY <2>6, <1>3, <1>5
      <4>2. rest[n + 2] = input[m + 2]
        BY <4>1, <1>3
      <4> QED BY <4>1, <4>2, <2>6
    <3>4. (m + 1) + 1 \notin Kept(input)
      <4>1. (m + 1) + 1 > 1 /\ ((m + 1) + 1) - 1 = m + 1
        BY <1>5
      <4> QED BY <4>1, <3>3, <2>3 DEF Kept
    <3>5. NormalTo(input, (m + 1) + 1) = NormalTo(input, m + 1)
      <4>1. m + 1 \in Nat
        BY <1>5
      <4> QED BY <4>1, <3>4, NormalDropped DEF TypeOK
    <3>6. SkipsAfterCr'
      <4>1. input'[Read'] = "LF"
        BY <3>2, <3>3, <1>2
      <4> QED BY <4>1, <3>1 DEF SkipsAfterCr
    <3>7. out \o normalized' = NormalTo(input, Read')
      BY <3>2, <3>5, <2>4
    <3> QED BY <3>1, <3>6, <3>7, <2>4, <2>5, <1>8
  <2>7. CASE ~(n + 1 < avail /\ rest[n + 2] = "LF")
    <3>1. taken' = n + 1 /\ taken' \in 1..avail /\ (skipLf' => taken' = avail)
      <4>1. taken' = n + 1
        BY <2>1, <2>7
      <4>2. n + 1 \in 1..avail
        BY <2>2, <1>3
      <4> QED BY <4>1, <4>2, <2>1
    <3>2. Read' = m + 1
      BY <3>1, <1>3, <1>5, <1>7
    <3>3. input'[Read'] = "CR" /\ Read' > 0
      BY <3>2, <2>3, <1>2, <1>5
    <3>4. ~skipLf' /\ Read' \in 1 .. Len(input') - 1 => input'[Read' + 1] # "LF"
      <4> HAVE ~skipLf' /\ Read' \in 1 .. Len(input') - 1
      <4>1. n + 1 < avail
        <5>1. n + 1 # avail
          BY <2>1
        <5> QED BY <5>1, <2>2, <1>3
      <4>2. 2 \in 1 .. Len(rest) - n /\ m + 2 = Read' + 1
        BY <4>1, <3>2, <1>3, <1>5
      <4>3. rest[n + 2] = input[m + 2]
        BY <4>2, <1>3
      <4> QED BY <4>1, <4>2, <4>3, <2>7, <1>2
    <3>5. SkipsAfterCr'
      BY <3>3, <3>4 DEF SkipsAfterCr
    <3>6. out \o normalized' = NormalTo(input, Read')
      BY <3>2, <2>4
    <3> QED BY <3>1, <3>5, <3>6, <2>4, <2>5, <1>8
  <2> QED BY <2>6, <2>7
<1>11. n = Window \/ n < Window
  BY <1>3
<1> QED BY <1>9, <1>10, <1>11

LEMMA EndNormalizingHolds == IInv /\ EndNormalizing => IInv'
<1> SUFFICES ASSUME IInv, EndNormalizing PROVE IInv'
  OBVIOUS
<1> USE DEF IInv
<1>1. /\ pc = "normalize" /\ taken >= Window
      /\ avail' = avail - taken /\ rest' = DropFirst(rest, taken)
      /\ taken' = 0 /\ pc' = "filled"
      /\ UNCHANGED <<input, buffers, fills, out, counts>>
  BY DEF EndNormalizing
<1>2. clean = 0 /\ pos = 0 /\ avail > 0 /\ ~atStart
  BY <1>1 DEF Phase
<1>3. /\ avail \in Nat /\ Len(rest) \in Nat /\ avail <= Len(rest) /\ Chunk \in Nat /\ Chunk > 0
      /\ taken \in Nat /\ taken <= avail /\ Len(normalized) \in Nat /\ Len(input) \in Nat
  BY InputsAssumption DEF TypeOK
<1>4. taken > 0
  <2>1. Window \in Nat /\ Window > 0
    BY <1>2, <1>3 DEF Window
  <2> HIDE DEF Window
  <2> QED BY <2>1, <1>1, <1>3
<1>5. Len(normalized) > 0
  <2>1. normalized # <<>>
    BY <1>1, <1>4 DEF Phase
  <2>2. Len(normalized) # 0
    BY <2>1 DEF TypeOK
  <2> QED BY <2>2, <1>3
<1>6. rest' \in Seq(Byte) /\ Len(rest') = Len(rest) - taken /\ RestIsLeft'
  <2>1. taken \in 0..Len(rest)
    BY <1>3
  <2> QED BY <2>1, <1>1, RestAfter
<1>7. Read' = Read
  BY <1>1, <1>3, <1>6 DEF Read
<1>8. TypeOK'
  <2>1. avail' \in 0..Len(rest')
    BY <1>1, <1>3, <1>6
  <2>2. 0 \in 0..avail'
    BY <2>1, <1>6
  <2>3. clean' \in 0..avail' /\ taken' \in 0..avail'
    BY <2>2, <1>1, <1>2 DEF buffers
  <2> QED BY <2>1, <2>3, <1>1, <1>6 DEF TypeOK, buffers, counts
<1>9. ReadIsNormal' /\ SkipsAfterCr' /\ PositionsAgree'
  BY <1>1, <1>7 DEF ReadIsNormal, SkipsAfterCr, PositionsAgree, buffers, counts
<1>10. CleanIsClean'
  BY <1>1, <1>2 DEF CleanIsClean, buffers
<1>11. Phase'
  BY <1>1, <1>2, <1>5 DEF Phase, buffers
<1>12. BomInSight'
  BY <1>1 DEF BomInSight
<1> QED BY <1>1, <1>6, <1>8, <1>9, <1>10, <1>11, <1>12

(* What fill_buf returns, once it returns.                                 *)
LEMMA BufferIs ==
  ASSUME TypeOK
  PROVE  /\ Buffer \in Seq(Byte) /\ Len(Buffer) \in Nat
         /\ pos < Len(normalized) => Buffer = DropFirst(normalized, pos) /\ Len(Buffer) = Len(normalized) - pos
         /\ ~(pos < Len(normalized)) => Buffer = SubSeq(rest, 1, clean) /\ Len(Buffer) = clean
<1>1. /\ pos \in 0..Len(normalized) /\ normalized \in Seq(Byte) /\ rest \in Seq(Byte)
      /\ clean \in Nat /\ avail \in Nat /\ clean <= avail /\ clean \in 0..Len(rest)
  BY DEF TypeOK
<1>2. CASE pos < Len(normalized)
  <2>1. Buffer = DropFirst(normalized, pos)
    BY <1>2 DEF Buffer
  <2>2. DropFirst(normalized, pos) \in Seq(Byte) /\ Len(DropFirst(normalized, pos)) = Len(normalized) - pos
    BY <1>1, DropFirstOf
  <2>3. Len(normalized) - pos \in Nat
    BY <1>1
  <2> QED BY <2>1, <2>2, <2>3, <1>2
<1>3. CASE ~(pos < Len(normalized))
  <2>1. Buffer = SubSeq(rest, 1, IF clean < avail THEN clean ELSE avail)
    BY <1>3 DEF Buffer
  <2>2. (IF clean < avail THEN clean ELSE avail) = clean
    BY <1>1
  <2>3. SubSeq(rest, 1, clean) \in Seq(Byte) /\ Len(SubSeq(rest, 1, clean)) = clean
    BY <1>1, TakeFirstOf
  <2> QED BY <2>1, <2>2, <2>3, <1>1, <1>3
<1> QED BY <1>2, <1>3

(* What is consumed is counted once by each of the two that count.         *)
LEMMA ConsumeCounts ==
  ASSUME TypeOK, PositionsAgree, NEW piece \in Seq(Byte),
         out' = out \o piece, tracked' = Track(piece, tracked), lazy' = lazy, scanned' = scanned
  PROVE  PositionsAgree' /\ out' \in Seq(Byte) /\ scanned' \in 0..Len(out')
<1>1. out \in Seq(Byte) /\ scanned \in 0..Len(out)
  BY DEF TypeOK
<1>2. tracked' = PositionAfter(out')
  BY <1>1, TrackPosition DEF PositionsAgree
<1>3. SubSeq(out', 1, scanned) = SubSeq(out, 1, scanned)
  BY <1>1, TakeOfConcat
<1>4. out' \in Seq(Byte) /\ Len(out') = Len(out) + Len(piece)
  BY <1>1, ConcatOfBytes
<1>5. scanned \in 0..Len(out')
  BY <1>1, <1>4
<1> QED BY <1>2, <1>3, <1>4, <1>5 DEF PositionsAgree

LEMMA ConsumeHolds == ASSUME IInv, NEW k, Consume(k) PROVE IInv'
<1> USE DEF IInv
<1> DEFINE piece == SubSeq(Buffer, 1, k)
<1>1. /\ pc = "filled" /\ k \in 0..Len(Buffer)
      /\ fills' = (IF fills = <<>> THEN <<Buffer>> ELSE fills)
      /\ out' = out \o piece /\ tracked' = Track(piece, tracked)
      /\ pc' = (IF Buffer = <<>> THEN "end" ELSE "fill")
      /\ UNCHANGED <<input, normalized, skipLf, atStart, taken, scanned, lazy>>
  BY DEF Consume
<1>2. taken = 0 /\ ~atStart /\ (pos < Len(normalized) \/ clean > 0 \/ rest = <<>>)
  BY <1>1 DEF Phase
<1>3. /\ Buffer \in Seq(Byte) /\ Len(Buffer) \in Nat
      /\ pos < Len(normalized) => Buffer = DropFirst(normalized, pos) /\ Len(Buffer) = Len(normalized) - pos
      /\ ~(pos < Len(normalized)) => Buffer = SubSeq(rest, 1, clean) /\ Len(Buffer) = clean
  BY BufferIs
<1>4. piece \in Seq(Byte) /\ Len(piece) = k /\ \A i \in 1..k : piece[i] = Buffer[i]
  BY <1>1, <1>3, TakeFirstOf
<1>5. piece \o DropFirst(Buffer, k) = Buffer
  BY <1>1, <1>3, TakeAndDrop
<1> HIDE DEF piece
<1>6. PositionsAgree' /\ out' \in Seq(Byte) /\ scanned' \in 0..Len(out')
  BY <1>1, <1>4, ConsumeCounts
<1>7. /\ k \in Nat /\ k <= Len(Buffer) /\ pos \in Nat /\ pos \in 0..Len(normalized) /\ Len(normalized) \in Nat
      /\ clean \in Nat /\ avail \in Nat /\ clean <= avail /\ Len(rest) \in Nat /\ avail <= Len(rest)
      /\ normalized \in Seq(Byte) /\ out \in Seq(Byte) /\ rest \in Seq(Byte) /\ input \in Seq(Byte)
  BY <1>1, <1>3 DEF TypeOK
<1>8. fills' \in Seq(Seq(Byte)) /\ BomInSight'
  <2>1. fills' \in Seq(Seq(Byte)) /\ fills' # <<>> /\ fills'[1] = (IF fills = <<>> THEN Buffer ELSE fills[1])
    <3>1. <<Buffer>> \in Seq(Seq(Byte)) /\ <<Buffer>> # <<>> /\ <<Buffer>>[1] = Buffer
      BY <1>3
    <3> QED BY <3>1, <1>1 DEF TypeOK
  <2>2. StartsWith(input, Bom) => StartsWith(fills'[1], Bom)
    BY <2>1, <1>1 DEF BomInSight
  <2> QED BY <2>1, <2>2, <1>1 DEF BomInSight
<1>9. pc' \in {"fill", "end"}
  BY <1>1
<1>10. CASE pos < Len(normalized)
  <2>1. pos' = pos + k /\ UNCHANGED <<clean, reader>>
    BY <1>1, <1>10 DEF Consume
  <2>2. Buffer = DropFirst(normalized, pos) /\ Len(Buffer) = Len(normalized) - pos
    BY <1>3, <1>10
  <2>3. pc' = "fill"
    <3>1. Len(Buffer) # 0
      BY <2>2, <1>7, <1>10
    <3>2. Buffer # <<>>
      BY <3>1
    <3> QED BY <3>2, <1>1
  <2>4. Read' = Read
    BY <2>1, <1>1 DEF Read, reader
  <2>5. TypeOK'
    <3>1. pos' \in 0..Len(normalized')
      BY <2>1, <2>2, <1>1, <1>7
    <3>2. pc' \in {"fill", "bom", "join", "scan", "normalize", "filled", "end"}
      BY <2>3
    <3> QED BY <3>1, <3>2, <2>1, <1>1, <1>6, <1>8 DEF TypeOK, reader
  <2>6. ReadIsNormal'
    <3> DEFINE left == DropFirst(Buffer, k)
    <3>1. left = DropFirst(normalized', pos')
      <4>1. k \in 0 .. Len(normalized) - pos
        BY <2>2, <1>7
      <4> QED BY <4>1, <2>1, <2>2, <1>1, <1>7, DropTwice
    <3>2. left \in Seq(Byte)
      BY <1>1, <1>3, DropFirstOf
    <3>3. piece \o left = Buffer
      BY <1>5
    <3> HIDE DEF left
    <3>4. (out \o piece) \o left = out \o (piece \o left)
      BY <3>2, <1>4, <1>7, Regroup
    <3>5. out \o Buffer = NormalTo(input, Read)
      BY <2>2 DEF ReadIsNormal
    <3>6. (out \o piece) \o left = NormalTo(input, Read)
      BY <3>3, <3>4, <3>5
    <3> QED BY <3>1, <3>6, <2>4, <1>1 DEF ReadIsNormal
  <2>7. RestIsLeft' /\ SkipsAfterCr' /\ CleanIsClean'
    BY <2>1, <2>4, <1>1 DEF RestIsLeft, SkipsAfterCr, CleanIsClean, reader
  <2>8. Phase'
    BY <2>3, <1>1, <1>2 DEF Phase
  <2> QED BY <2>5, <2>6, <2>7, <2>8, <1>1, <1>6, <1>8
<1>11. CASE ~(pos < Len(normalized))
  <2>1. clean' = clean - k /\ avail' = avail - k /\ rest' = DropFirst(rest, k) /\ pos' = pos
    BY <1>1, <1>11 DEF Consume
  <2>2. Buffer = SubSeq(rest, 1, clean) /\ Len(Buffer) = clean /\ k <= clean /\ pos = Len(normalized)
    BY <1>3, <1>7, <1>11
  <2>3. k \in 0..Len(rest)
    BY <2>2, <1>7
  <2>4. /\ rest' \in Seq(Byte) /\ Len(rest') = Len(rest) - k /\ RestIsLeft'
        /\ \A i \in 1 .. Len(rest) - k : rest'[i] = rest[k + i]
    BY <2>1, <2>3, <1>1, RestAfter
  <2>5. Read' = Read + k /\ Read \in Nat
    <3>1. Read \in Nat /\ Len(input) \in Nat
      BY WhereReadIs
    <3> QED BY <3>1, <2>4, <1>1, <1>2, <1>7 DEF Read
  <2>6. \A i \in 1..k : piece[i] = rest[i] /\ rest[i] # "CR"
    <3> TAKE i \in 1..k
    <3>1. i \in 1..clean /\ clean \in 0..Len(rest)
      BY <2>2, <1>7
    <3>2. SubSeq(rest, 1, clean)[i] = rest[i]
      BY <3>1, <1>7, TakeFirstOf
    <3> QED BY <3>1, <3>2, <2>2, <1>4 DEF CleanIsClean
  <2>7. k > 0 => ~skipLf
    BY <2>2, <1>7 DEF CleanIsClean
  <2>8. k \in taken..Len(rest) /\ k - taken = k /\ taken + 1 = 1 /\ (k > taken => ~skipLf)
    <3>1. k \in 0..Len(rest) /\ k - 0 = k /\ 0 + 1 = 1
      BY <2>3, <1>7
    <3> QED BY <3>1, <2>7, <1>2
  <2>9. \A i \in taken + 1 .. k : rest[i] # "CR"
    BY <2>6, <2>8
  <2>10. ReadIsNormal'
    <3>1. DropFirst(normalized, pos) = <<>> /\ DropFirst(normalized', pos') = <<>>
      BY <2>1, <2>2, <1>1, <1>7, DropAll
    <3>2. out = NormalTo(input, Read)
      <4>1. out \o <<>> = out
        BY <1>7
      <4> QED BY <4>1, <3>1 DEF ReadIsNormal
    <3>3. Len(piece) = k - taken /\ \A i \in 1 .. k - taken : piece[i] = rest[taken + i]
      <4>1. \A i \in 1..k : taken + i = i
        BY <1>2
      <4> QED BY <4>1, <2>6, <2>8, <1>4
    <3>4. out \o piece = NormalTo(input, Read + (k - taken))
      BY <3>2, <3>3, <2>8, <2>9, <1>4, <1>7, RunIsNormal
    <3>5. out' \o <<>> = out'
      BY <1>6
    <3> QED BY <3>1, <3>4, <3>5, <2>5, <2>8, <1>1 DEF ReadIsNormal
  <2>11. SkipsAfterCr'
    <3>1. CASE k = 0
      <4>1. Read' = Read
        BY <3>1, <2>5
      <4> QED BY <4>1, <1>1 DEF SkipsAfterCr
    <3>2. CASE k # 0
      <4>1. \A i \in Read + 1 .. Read + (k - taken) : i \in Kept(input) /\ input[i] # "CR"
        BY <2>8, <2>9, RunIsKept
      <4>2. Read + k \in Read + 1 .. Read + k
        BY <3>2, <2>5, <1>7
      <4>3. input[Read + k] # "CR"
        BY <4>1, <4>2, <2>8
      <4>4. ~skipLf
        BY <3>2, <2>7, <1>7
      <4> QED BY <4>3, <4>4, <2>5, <1>1 DEF SkipsAfterCr
    <3> QED BY <3>1, <3>2
  <2>12. CleanIsClean'
    <3>1. \A i \in 1 .. clean - k : rest'[i] # "CR"
      <4> TAKE i \in 1 .. clean - k
      <4>1. i \in 1 .. Len(rest) - k /\ k + i \in 1..clean
        BY <2>2, <1>7
      <4> QED BY <4>1, <2>4 DEF CleanIsClean
    <3>2. clean' > 0 => ~skipLf
      BY <2>1, <2>2, <1>7 DEF CleanIsClean
    <3> QED BY <3>1, <3>2, <2>1, <1>1 DEF CleanIsClean
  <2>13. TypeOK'
    <3>1. avail' \in 0..Len(rest') /\ clean' \in 0..avail'
      BY <2>1, <2>2, <2>4, <1>7
    <3>2. 0 \in 0..avail'
      BY <3>1, <2>4
    <3>3. taken' \in 0..avail'
      BY <3>2, <1>1, <1>2
    <3>4. pos' \in 0..Len(normalized')
      BY <2>1, <1>1, <1>7
    <3>5. pc' \in {"fill", "bom", "join", "scan", "normalize", "filled", "end"}
      BY <1>9
    <3> QED BY <3>1, <3>3, <3>4, <3>5, <2>4, <1>1, <1>6, <1>8 DEF TypeOK
  <2>14. Phase'
    <3>1. pc' = "end" => rest' = <<>>
      <4> HAVE pc' = "end"
      <4>1. Len(Buffer) = 0
        BY <1>1
      <4>2. clean = 0 /\ k = 0
        BY <4>1, <2>2, <1>7
      <4>3. rest = <<>>
        BY <4>2, <1>2, <1>11
      <4>4. Len(rest') = 0
        BY <4>2, <4>3, <2>4
      <4> QED BY <4>4, <2>4
    <3>2. pos' = Len(normalized')
      BY <2>1, <2>2, <1>1
    <3> QED BY <3>1, <3>2, <1>1, <1>2, <1>9 DEF Phase
  <2> QED BY <2>4, <2>10, <2>11, <2>12, <2>13, <2>14, <1>1, <1>6, <1>8
<1> QED BY <1>10, <1>11

LEMMA LineColumnHolds == IInv /\ LineColumn => IInv'
<1> SUFFICES ASSUME IInv, LineColumn PROVE IInv'
  OBVIOUS
<1> USE DEF IInv
<1>1. /\ lazy' = Track(DropFirst(out, scanned), lazy) /\ scanned' = Len(out)
      /\ UNCHANGED <<input, reader, buffers, pc, taken, fills, out, tracked>>
  BY DEF LineColumn
<1>2. out \in Seq(Byte) /\ scanned \in 0..Len(out)
  BY DEF TypeOK
<1>3. lazy' = PositionAfter(SubSeq(out, 1, Len(out)))
  <2> DEFINE a == SubSeq(out, 1, scanned)
             b == DropFirst(out, scanned)
  <2>1. a \in Seq(Byte) /\ b \in Seq(Byte) /\ a \o b = out
    BY <1>2, TakeFirstOf, DropFirstOf, TakeAndDrop
  <2>2. lazy' = Track(b, PositionAfter(a))
    BY <1>1 DEF PositionsAgree
  <2>3. SubSeq(out, 1, Len(out)) = out
    BY <1>2, SubSeqFull
  <2> HIDE DEF a, b
  <2>4. lazy' = PositionAfter(a \o b)
    BY <2>1, <2>2, TrackPosition
  <2> QED BY <2>1, <2>3, <2>4
<1>4. PositionsAgree'
  BY <1>1, <1>3 DEF PositionsAgree
<1>5. TypeOK'
  <2>1. scanned' \in 0..Len(out')
    BY <1>1, <1>2
  <2> QED BY <2>1, <1>1 DEF TypeOK, reader, buffers
<1>6. RestIsLeft' /\ ReadIsNormal' /\ SkipsAfterCr' /\ CleanIsClean'
  BY <1>1 DEF RestIsLeft, Read, ReadIsNormal, SkipsAfterCr, CleanIsClean, reader, buffers
<1>7. Phase'
  <2>1. AtTheStart => AtTheStart'
    BY <1>1 DEF AtTheStart, reader, buffers
  <2> QED BY <2>1, <1>1 DEF Phase, reader, buffers
<1>8. BomInSight'
  <2>1. Buffer' = Buffer
    BY <1>1 DEF Buffer, reader, buffers
  <2> QED BY <2>1, <1>1 DEF BomInSight, reader, buffers
<1> QED BY <1>1, <1>4, <1>5, <1>6, <1>7, <1>8

-------------------------------------------------------------------------------
(* The whole.                                                              *)

LEMMA NothingChanges == IInv /\ UNCHANGED readerVars => IInv'
<1> SUFFICES ASSUME IInv, UNCHANGED readerVars PROVE IInv'
  OBVIOUS
<1> USE DEF IInv
<1>1. UNCHANGED <<input, reader, buffers, pc, taken, fills, out, counts>>
  BY DEF readerVars
<1>2. TypeOK' /\ RestIsLeft' /\ ReadIsNormal' /\ SkipsAfterCr' /\ CleanIsClean' /\ PositionsAgree'
  BY <1>1 DEF TypeOK, RestIsLeft, Read, ReadIsNormal, SkipsAfterCr, CleanIsClean, PositionsAgree,
              reader, buffers, counts
<1>3. Phase' /\ BomInSight'
  <2>1. Buffer' = Buffer
    BY <1>1 DEF Buffer, reader, buffers
  <2>2. AtTheStart' <=> AtTheStart
    BY <1>1 DEF AtTheStart, reader, buffers
  <2>3. Phase'
    BY <2>2, <1>1 DEF Phase, reader, buffers
  <2>4. BomInSight'
    BY <2>1, <1>1 DEF BomInSight, reader, buffers
  <2> QED BY <2>3, <2>4
<1> QED BY <1>1, <1>2, <1>3

LEMMA StepHolds == IInv /\ [ReaderNext]_readerVars => IInv'
<1> SUFFICES ASSUME IInv, [ReaderNext]_readerVars PROVE IInv'
  OBVIOUS
<1>1. CASE FillBuf
  BY <1>1, FillBufHolds
<1>2. CASE JoinSplitBom
  BY <1>2, JoinSplitBomHolds
<1>3. CASE JoinByte
  BY <1>3, JoinByteHolds
<1>4. CASE InputEnds
  BY <1>4, InputEndsHolds
<1>5. CASE DropLf
  BY <1>5, DropLfHolds
<1>6. CASE BeginNormalizing
  BY <1>6, BeginNormalizingHolds
<1>7. CASE PassThrough
  BY <1>7, PassThroughHolds
<1>8. CASE Normalize
  BY <1>8, NormalizeHolds
<1>9. CASE EndNormalizing
  BY <1>9, EndNormalizingHolds
<1>10. CASE \E k \in 0..Len(Buffer) : Consume(k)
  BY <1>10, ConsumeHolds
<1>11. CASE LineColumn
  BY <1>11, LineColumnHolds
<1>12. CASE Finished \/ UNCHANGED readerVars
  BY <1>12, NothingChanges DEF Finished
<1> QED BY <1>1, <1>2, <1>3, <1>4, <1>5, <1>6, <1>7, <1>8, <1>9, <1>10, <1>11, <1>12 DEF ReaderNext

LEMMA InvariantReads == IInv => ReadsTheString
<1> SUFFICES ASSUME IInv PROVE ReadsTheString
  OBVIOUS
<1> USE DEF IInv
<1>1. /\ pos \in 0..Len(normalized) /\ normalized \in Seq(Byte) /\ out \in Seq(Byte) /\ input \in Seq(Byte)
  BY DEF TypeOK
<1>2. Read \in 0..Len(input) /\ (rest = <<>> => Read = Len(input))
  BY WhereReadIs
<1>3. DropFirst(normalized, pos) \in Seq(Byte)
  BY <1>1, DropFirstOf
<1>4. StartsWith(Normal(input), out)
  BY <1>1, <1>2, <1>3, NormalPrefix DEF ReadIsNormal
<1>5. BomInOnePiece
  BY <1>1, NormalBom DEF BomInOnePiece, BomInSight
<1>6. pc = "end" => out = Normal(input)
  <2> HAVE pc = "end"
  <2>1. Read = Len(input) /\ pos = Len(normalized)
    BY <1>2 DEF Phase
  <2>2. DropFirst(normalized, pos) = <<>> /\ out \o <<>> = out
    BY <2>1, <1>1, DropAll
  <2> QED BY <2>1, <2>2 DEF ReadIsNormal, Normal
<1> QED BY <1>4, <1>5, <1>6 DEF ReadsTheString, DeliversNormalized

(* However the reader beneath cuts the input into pieces, however much of  *)
(* one is normalized at a time and however many bytes the tokenizer takes, *)
(* EolNormalizer hands out the normal form of the input and nothing else,  *)
(* a byte order mark in one piece, and says that the input has ended only  *)
(* when all of it was read (eol.rs); and PositionTrackingReader and        *)
(* SliceSource name the line and column of the text that was read          *)
(* (position.rs, source.rs).                                               *)
THEOREM InputIsReadExactly == ReaderSpec => []ReadsTheString
<1>1. ReaderInit => IInv
  BY InitHolds
<1>2. IInv /\ [ReaderNext]_readerVars => IInv'
  BY StepHolds
<1>3. IInv => ReadsTheString
  BY InvariantReads
<1> QED BY <1>1, <1>2, <1>3, PTL DEF ReaderSpec

===============================================================================
