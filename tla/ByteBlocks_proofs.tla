------------------------- MODULE ByteBlocks_proofs -------------------------
(* How lengths fall on block boundaries, for every block size. *)
EXTENDS ByteBlocks, SequenceTheorems, TLAPS

\* Division with rest, for any divisor.
LEMMA QuotientAndRest ==
    ASSUME NEW n \in Nat, NEW D \in Nat \ {0}
    PROVE  /\ n \div D \in Nat
           /\ n % D \in 0..D - 1
           /\ n = D * (n \div D) + (n % D)
<1>1. n % D \in 0..D - 1 /\ n \div D \in Int
  OBVIOUS
<1>2. n = D * (n \div D) + (n % D)
  OBVIOUS
<1>3. n \div D \in Nat
  BY <1>1, <1>2
<1> QED
  BY <1>1, <1>2, <1>3

\* Only one quotient and rest make up a number.
LEMMA OnlyOneQuotient ==
    ASSUME NEW D \in Nat \ {0}, NEW q \in Nat, NEW r \in 0..D - 1
    PROVE  /\ (D * q + r) \div D = q
           /\ (D * q + r) % D = r
<1> DEFINE n == D * q + r
           a == n \div D
           b == n % D
<1>1. n \in Nat
  OBVIOUS
<1>2. a \in Nat /\ b \in 0..D - 1 /\ n = D * a + b
  BY <1>1, QuotientAndRest
<1> HIDE DEF a, b
<1>3. D * (a - q) = r - b
  BY <1>2
<1>4. a = q
  <2>1. CASE a - q >= 1
    <3>1. D * (a - q) >= D
      BY <2>1, <1>2
    <3> QED BY <3>1, <1>2, <1>3
  <2>2. CASE q - a >= 1
    <3>1. D * (q - a) >= D
      BY <2>2, <1>2
    <3>2. D * (q - a) = b - r
      BY <1>2, <1>3
    <3> QED BY <3>1, <3>2, <1>2
  <2> QED BY <2>1, <2>2, <1>2
<1>5. b = r
  BY <1>2, <1>4
<1> QED
  BY <1>4, <1>5 DEF a, b

\* What was reduced before an addition makes no difference after it.
LEMMA AddAfterRest ==
    ASSUME NEW n \in Nat, NEW k \in Nat, NEW D \in Nat \ {0}
    PROVE  ((n % D) + k) % D = (n + k) % D
<1> DEFINE a == n \div D
           b == n % D
           c == (b + k) \div D
           d == (b + k) % D
<1>1. a \in Nat /\ b \in Nat /\ n = D * a + b
  BY QuotientAndRest
<1>2. b + k \in Nat
  <2> HIDE DEF b
  <2> QED BY <1>1
<1>3. c \in Nat /\ d \in 0..D - 1 /\ b + k = D * c + d
  BY <1>2, QuotientAndRest
<1> HIDE DEF a, b, c, d
<1>4. n + k = D * (a + c) + d
  <2>1. n + k = D * a + (D * c + d)
    BY <1>1, <1>3
  <2> QED BY <2>1, <1>1, <1>3
<1>5. (n + k) % D = d
  <2>1. a + c \in Nat
    BY <1>1, <1>3
  <2> QED BY <1>3, <1>4, <2>1, OnlyOneQuotient
<1> QED
  BY <1>5 DEF b, d

\* A length is a number of whole blocks and a place in the open one.
LEMMA BlocksAndRest ==
    ASSUME NEW n \in Nat
    PROVE  /\ n \div BlockSize \in Nat
           /\ n % BlockSize \in 0..BlockSize - 1
           /\ n = BlockSize * (n \div BlockSize) + (n % BlockSize)
BY BlockConstants, QuotientAndRest

\* Only one pair of blocks and place makes up a length.
LEMMA OnlyOnePlace ==
    ASSUME NEW q \in Nat, NEW r \in 0..BlockSize - 1
    PROVE  /\ (BlockSize * q + r) \div BlockSize = q
           /\ (BlockSize * q + r) % BlockSize = r
BY BlockConstants, OnlyOneQuotient

\* What Take and Drop leave of a sequence.
LEMMA TakeDropLengths ==
    ASSUME NEW T, NEW s \in Seq(T), NEW k \in 0..Len(s)
    PROVE  /\ Take(s, k) \in Seq(T) /\ Len(Take(s, k)) = k
           /\ Drop(s, k) \in Seq(T) /\ Len(Drop(s, k)) = Len(s) - k
<1>1. Len(s) \in Nat /\ Lesser(k, Len(s)) = k
  BY DEF Lesser
<1>2. \A i \in 1..Len(s) : s[i] \in T
  BY ElementOfSeq
<1> QED
  BY <1>1, <1>2, SubSeqProperties DEF Take, Drop

\* A sequence of length 0 is empty, and the other way round.
LEMMA EmptyIffNoLength ==
    ASSUME NEW T, NEW s \in Seq(T)
    PROVE  s = <<>> <=> Len(s) = 0
BY EmptySeq

\* The same thing n times.
LEMMA Repeated ==
    ASSUME NEW T, NEW x \in T, NEW n \in Nat
    PROVE  [i \in 1..n |-> x] \in Seq(T) /\ Len([i \in 1..n |-> x]) = n
OBVIOUS

\* What a caller passes in one call is a sequence of bytes of that length.
LEMMA PieceLength ==
    ASSUME NEW kind, NEW id, NEW from, NEW n \in Nat
    PROVE  /\ Piece(kind, id, from, n) \in Seq({{<<kind, id, from + i>>} : i \in 1..n})
           /\ Len(Piece(kind, id, from, n)) = n
BY DEF Piece

-----------------------------------------------------------------------------
(* How a call cuts len bytes that follow n bytes: those that still belong   *)
(* to the open block, whole blocks, and the rest.                           *)

ToOpenBlock(n, len) ==
    IF n % BlockSize = 0 THEN 0 ELSE Lesser(len, BlockSize - (n % BlockSize))
WholeIn(n, len) == (len - ToOpenBlock(n, len)) \div BlockSize
RestOf(n, len)  == len - ToOpenBlock(n, len) - WholeIn(n, len) * BlockSize

\* The open block is left open only by a call that brings nothing else.
StaysOpen(n, len) == n % BlockSize # 0 /\ (n % BlockSize) + len < BlockSize

\* The three parts make up the call, and tell the place it ends at and the
\* number of blocks that are whole then.
LEMMA Cutting ==
    ASSUME NEW n \in Nat, NEW len \in Nat
    PROVE  /\ ToOpenBlock(n, len) \in 0..len
           /\ WholeIn(n, len) \in Nat
           /\ WholeIn(n, len) * BlockSize \in 0..len - ToOpenBlock(n, len)
           /\ RestOf(n, len) \in 0..BlockSize - 1
           /\ StaysOpen(n, len) =>
                /\ ToOpenBlock(n, len) = len
                /\ WholeIn(n, len) = 0 /\ RestOf(n, len) = 0
                /\ (n + len) % BlockSize = (n % BlockSize) + len
                /\ (n + len) \div BlockSize = n \div BlockSize
           /\ ~StaysOpen(n, len) =>
                /\ n % BlockSize # 0 => ToOpenBlock(n, len) = BlockSize - (n % BlockSize)
                /\ (n + len) % BlockSize = RestOf(n, len)
                /\ (n + len) \div BlockSize =
                      (n \div BlockSize) + WholeIn(n, len)
                         + (IF n % BlockSize = 0 THEN 0 ELSE 1)
<1> DEFINE B    == BlockSize
           a    == n \div B
           b    == n % B
           loc  == ToOpenBlock(n, len)
           q    == WholeIn(n, len)
           r    == RestOf(n, len)
<1>1. B \in Nat \ {0}
  BY BlockConstants
<1>2. a \in Nat /\ b \in 0..B - 1 /\ n = B * a + b
  BY BlocksAndRest
<1>3. loc = IF b = 0 THEN 0 ELSE IF len < B - b THEN len ELSE B - b
  BY DEF ToOpenBlock, Lesser
<1>4. StaysOpen(n, len) <=> b # 0 /\ b + len < B
  BY DEF StaysOpen
<1>5. loc \in 0..len
  <2> HIDE DEF B, b, loc
  <2> QED BY <1>1, <1>2, <1>3
<1>6. q = (len - loc) \div B /\ r = len - loc - q * B
  BY DEF WholeIn, RestOf
<1>7. /\ len - loc \in Nat
      /\ q \in Nat /\ (len - loc) % B \in 0..B - 1
      /\ len - loc = B * q + ((len - loc) % B)
  <2>1. len - loc \in Nat
    <3> HIDE DEF loc
    <3> QED BY <1>5
  <2> QED
    BY <2>1, <1>6, BlocksAndRest
<1> HIDE DEF B, a, b, loc, q, r
<1>8. r = (len - loc) % B /\ r \in 0..B - 1 /\ len - loc = B * q + r /\ q * B = B * q
  BY <1>1, <1>5, <1>6, <1>7
<1>9. q * B \in 0..len - loc
  <2>1. B * q \in Nat
    BY <1>1, <1>7
  <2> QED
    BY <1>8, <1>7, <2>1
<1>10. ASSUME b # 0, b + len < B
       PROVE  /\ loc = len /\ q = 0 /\ r = 0
              /\ (n + len) % B = b + len /\ (n + len) \div B = a
  <2>1. loc = len
    BY <1>1, <1>2, <1>3, <1>10
  <2>2. B * q + r = 0
    BY <2>1, <1>8
  <2>3. q = 0
    <3> SUFFICES ASSUME q >= 1 PROVE FALSE
      BY <1>7
    <3>1. B * q >= B
      BY <1>1, <1>7
    <3>2. B * q \in Nat /\ r \in Nat
      BY <1>1, <1>7, <1>8
    <3> QED BY <3>1, <3>2, <2>2, <1>1
  <2>4. r = 0
    BY <2>2, <2>3, <1>8, <1>1
  <2>5. n + len = B * a + (b + len) /\ b + len \in 0..B - 1
    BY <1>1, <1>2, <1>10
  <2> QED
    BY <2>1, <2>3, <2>4, <2>5, <1>2, OnlyOnePlace DEF B
<1>11. ASSUME ~(b # 0 /\ b + len < B)
       PROVE  /\ b # 0 => loc = B - b
              /\ (n + len) % B = r
              /\ (n + len) \div B = a + q + (IF b = 0 THEN 0 ELSE 1)
  <2>1. b # 0 => loc = B - b
    BY <1>1, <1>2, <1>3, <1>11
  <2>2. CASE b = 0
    <3>1. n + len = B * (a + q) + r
      <4>1. n + len = B * a + (B * q + r)
        BY <2>2, <1>1, <1>2, <1>3, <1>8
      <4> QED BY <4>1, <1>1, <1>2, <1>7, <1>8
    <3>2. a + q \in Nat
      BY <1>2, <1>7
    <3> QED
      BY <2>2, <3>1, <3>2, <1>2, <1>7, <1>8, OnlyOnePlace DEF B
  <2>3. CASE b # 0
    <3>1. n + len = B * (a + q + 1) + r
      <4>1. n + len = B * a + B + (B * q + r)
        BY <2>1, <2>3, <1>1, <1>2, <1>8
      <4>2. B * (a + q + 1) = B * a + B * q + B
        BY <1>1, <1>2, <1>7
      <4>3. B * a \in Nat /\ B * q \in Nat
        BY <1>1, <1>2, <1>7
      <4> QED BY <4>1, <4>2, <4>3, <1>1, <1>8
    <3>2. a + q + 1 \in Nat
      BY <1>2, <1>7
    <3> QED
      BY <2>3, <3>1, <3>2, <2>1, <1>8, OnlyOnePlace DEF B
  <2> QED
    BY <2>1, <2>2, <2>3
<1> QED
  BY <1>4, <1>5, <1>7, <1>8, <1>9, <1>10, <1>11 DEF B, a, b, loc, q, r
-----------------------------------------------------------------------------
(* A sequence cut into blocks, byte by byte. *)

Block(T) == [1..BlockSize -> T]

\* s ends at the end of a block.
Aligned(s) == Len(s) % BlockSize = 0

\* Where byte j of block i is in the sequence.
Place(i, j) == (i - 1) * BlockSize + j

\* Blocks are equal if their bytes are.
LEMMA SameBlock ==
    ASSUME NEW T, NEW a \in Block(T), NEW b \in Block(T),
           \A j \in 1..BlockSize : a[j] = b[j]
    PROVE  a = b
<1>1. a = [j \in 1..BlockSize |-> a[j]] /\ b = [j \in 1..BlockSize |-> b[j]]
  BY DEF Block
<1>2. [j \in 1..BlockSize |-> a[j]] = [j \in 1..BlockSize |-> b[j]]
  BY Zenon
<1> QED
  BY <1>1, <1>2

\* A block is a sequence of BlockSize bytes, and every such sequence is one.
LEMMA BlockIsSeq ==
    ASSUME NEW T
    PROVE  /\ \A b \in Block(T) : b \in Seq(T) /\ Len(b) = BlockSize
           /\ \A s \in Seq(T) : Len(s) = BlockSize => s \in Block(T)
BY BlockConstants DEF Block

\* Byte j of block i is a byte of the sequence.
LEMMA ByteOfBlock ==
    ASSUME NEW n \in Nat, NEW i \in 1..(n \div BlockSize), NEW j \in 1..BlockSize
    PROVE  /\ Place(i, j) \in 1..n
           /\ i * BlockSize \in 1..n
           /\ i * BlockSize - ((i - 1) * BlockSize + 1) + 1 = BlockSize
<1> DEFINE B == BlockSize
           q == n \div B
<1>1. B \in Nat \ {0}
  BY BlockConstants
<1>2. q \in Nat /\ n >= B * q
  <2> DEFINE r == n % B
  <2>1. q \in Nat /\ r \in Nat /\ n = B * q + r
    BY <1>1, BlocksAndRest
  <2>2. B * q \in Int
    BY <1>1, <2>1
  <2> HIDE DEF B, q, r
  <2> QED BY <2>1, <2>2
<1> HIDE DEF B, q
<1>3. i \in 1..q /\ j \in 1..B
  BY DEF q, B
<1>4. B * i <= B * q
  <2>1. B * (q - i) >= 0
    BY <1>1, <1>2, <1>3
  <2> QED BY <2>1, <1>1, <1>2, <1>3
<1>5. B * (i - 1) >= 0 /\ B * (i - 1) = B * i - B /\ B * i \in Int
  BY <1>1, <1>3
<1>6. (i - 1) * B = B * (i - 1) /\ i * B = B * i
  BY <1>1, <1>3
<1> QED
  BY <1>1, <1>2, <1>3, <1>4, <1>5, <1>6 DEF B, Place

\* WholeBlocks cuts bytes into blocks, each byte at its place, and leaves a
\* block begun aside.
LEMMA WholeBlocksBytes ==
    ASSUME NEW T, NEW s \in Seq(T)
    PROVE  /\ WholeBlocks(s) \in Seq(Block(T))
           /\ Len(WholeBlocks(s)) = Len(s) \div BlockSize
           /\ \A i \in 1..(Len(s) \div BlockSize), j \in 1..BlockSize :
                WholeBlocks(s)[i][j] = s[Place(i, j)]
<1> DEFINE q == Len(s) \div BlockSize
<1>1. q \in Nat /\ Len(s) \in Nat
  BY BlocksAndRest
<1>2. ASSUME NEW i \in 1..q
      PROVE  LET b == SubSeq(s, (i - 1) * BlockSize + 1, i * BlockSize)
             IN /\ b \in Block(T)
                /\ \A j \in 1..BlockSize : b[j] = s[Place(i, j)]
  <2> DEFINE lo == (i - 1) * BlockSize + 1
             hi == i * BlockSize
  <2>1. BlockSize \in Nat \ {0} /\ 1 \in 1..BlockSize
    BY BlockConstants
  <2>2. lo \in 1..Len(s) /\ hi \in 1..Len(s) /\ hi - lo + 1 = BlockSize
    BY <1>1, <2>1, ByteOfBlock
  <2>3. lo - 1 = (i - 1) * BlockSize /\ (i - 1) * BlockSize \in Int
    BY <2>1
  <2> HIDE DEF lo, hi
  <2>4. \A k \in lo..hi : s[k] \in T
    BY <2>2, ElementOfSeq
  <2>5. /\ SubSeq(s, lo, hi) \in Seq(T)
        /\ Len(SubSeq(s, lo, hi)) = BlockSize
        /\ \A j \in 1..BlockSize : SubSeq(s, lo, hi)[j] = s[lo + j - 1]
    BY <2>1, <2>2, <2>4, SubSeqProperties
  <2>6. SubSeq(s, lo, hi) \in Block(T)
    BY <2>5, BlockIsSeq
  <2>7. \A j \in 1..BlockSize : SubSeq(s, lo, hi)[j] = s[Place(i, j)]
    BY <2>1, <2>2, <2>3, <2>5 DEF Place
  <2> QED
    BY <2>6, <2>7 DEF lo, hi
<1>3. WholeBlocks(s) = [i \in 1..q |-> SubSeq(s, (i - 1) * BlockSize + 1, i * BlockSize)]
  BY DEF WholeBlocks
<1> HIDE DEF q
<1>4. WholeBlocks(s) \in [1..q -> Block(T)]
  BY <1>2, <1>3
<1>5. WholeBlocks(s) \in Seq(Block(T)) /\ Len(WholeBlocks(s)) = q
  BY <1>1, <1>4
<1>6. \A i \in 1..q, j \in 1..BlockSize :
         WholeBlocks(s)[i][j] = s[Place(i, j)]
  BY <1>2, <1>3
<1> QED
  BY <1>5, <1>6 DEF q

\* Sequences of blocks are equal if their bytes are.
LEMMA BlocksEqual ==
    ASSUME NEW T, NEW x \in Seq(Block(T)), NEW y \in Seq(Block(T)), Len(x) = Len(y),
           \A i \in 1..Len(x), j \in 1..BlockSize : x[i][j] = y[i][j]
    PROVE  x = y
<1>1. ASSUME NEW i \in 1..Len(x)
      PROVE  x[i] = y[i]
  <2> DEFINE a == x[i]
             b == y[i]
  <2>1. a \in Block(T) /\ b \in Block(T)
    BY ElementOfSeq
  <2>2. \A j \in 1..BlockSize : a[j] = b[j]
    OBVIOUS
  <2> HIDE DEF a, b
  <2>3. a = b
    BY <2>1, <2>2, SameBlock
  <2> QED
    BY <2>3 DEF a, b
<1> QED
  BY <1>1, SeqEqual

-----------------------------------------------------------------------------
(* Cutting and joining. *)

\* A number of whole blocks moves no later byte within its block.
LEMMA AfterWholeBlocks ==
    ASSUME NEW n \in Nat, n % BlockSize = 0, NEW k \in Nat
    PROVE  /\ n = (n \div BlockSize) * BlockSize
           /\ (n + k) \div BlockSize = (n \div BlockSize) + (k \div BlockSize)
           /\ (n + k) % BlockSize = k % BlockSize
<1> DEFINE B == BlockSize
           a == n \div B
           q == k \div B
           r == k % B
<1>1. B \in Nat \ {0}
  BY BlockConstants
<1>2. a \in Nat /\ n = B * a + (n % B)
  BY BlocksAndRest
<1>3. q \in Nat /\ r \in 0..B - 1 /\ k = B * q + r
  BY BlocksAndRest
<1>4. n % B = 0
  OBVIOUS
<1> HIDE DEF B, a, q, r
<1>5. n = B * a /\ B * a = a * B
  BY <1>1, <1>2, <1>4
<1>6. n + k = B * (a + q) + r /\ a + q \in Nat
  <2>1. B * (a + q) = B * a + B * q /\ B * a \in Nat /\ B * q \in Nat
    BY <1>1, <1>2, <1>3
  <2> QED BY <1>1, <1>2, <1>3, <1>5, <2>1
<1>7. (n + k) \div B = a + q /\ (n + k) % B = r
  BY <1>3, <1>6, OnlyOnePlace DEF B
<1> QED
  BY <1>5, <1>7 DEF B, a, q, r

\* Whole blocks and what follows them are cut apart.
LEMMA WholeBlocksJoin ==
    ASSUME NEW T, NEW m \in Seq(T), Aligned(m), NEW s \in Seq(T)
    PROVE  WholeBlocks(m \o s) = WholeBlocks(m) \o WholeBlocks(s)
<1> DEFINE a == Len(m) \div BlockSize
           q == Len(s) \div BlockSize
           x == WholeBlocks(m \o s)
           y == WholeBlocks(m)
           z == WholeBlocks(s)
<1>1. /\ m \o s \in Seq(T) /\ Len(m \o s) = Len(m) + Len(s)
      /\ \A i \in 1..Len(m) + Len(s) :
            (m \o s)[i] = IF i <= Len(m) THEN m[i] ELSE s[i - Len(m)]
  BY ConcatProperties
<1>2. Len(m) \in Nat /\ Len(s) \in Nat
  OBVIOUS
<1>3. a \in Nat /\ q \in Nat
  BY <1>2, BlocksAndRest
<1>4. Len(m) = a * BlockSize /\ (Len(m) + Len(s)) \div BlockSize = a + q
  BY <1>2, AfterWholeBlocks DEF Aligned
<1>5. /\ x \in Seq(Block(T)) /\ Len(x) = a + q
      /\ \A i \in 1..a + q, j \in 1..BlockSize : x[i][j] = (m \o s)[Place(i, j)]
  <2> DEFINE ms == m \o s
  <2>1. ms \in Seq(T) /\ Len(ms) \div BlockSize = a + q
    BY <1>1, <1>4
  <2> HIDE DEF a, q, ms
  <2>2. /\ WholeBlocks(ms) \in Seq(Block(T)) /\ Len(WholeBlocks(ms)) = a + q
        /\ \A i \in 1..a + q, j \in 1..BlockSize : WholeBlocks(ms)[i][j] = ms[Place(i, j)]
    BY <2>1, WholeBlocksBytes
  <2> QED BY <2>2 DEF ms, x
<1>6. /\ y \in Seq(Block(T)) /\ Len(y) = a
      /\ \A i \in 1..a, j \in 1..BlockSize : y[i][j] = m[Place(i, j)]
  BY WholeBlocksBytes
<1>7. /\ z \in Seq(Block(T)) /\ Len(z) = q
      /\ \A i \in 1..q, j \in 1..BlockSize : z[i][j] = s[Place(i, j)]
  BY WholeBlocksBytes
<1>8. /\ y \o z \in Seq(Block(T)) /\ Len(y \o z) = a + q
      /\ \A i \in 1..a + q : (y \o z)[i] = IF i <= a THEN y[i] ELSE z[i - a]
  <2> HIDE DEF a, q, y, z
  <2>1. y \in Seq(Block(T)) /\ z \in Seq(Block(T)) /\ Len(y) = a /\ Len(z) = q
    BY <1>6, <1>7
  <2> QED BY <2>1, <1>3, ConcatProperties
<1>9. ASSUME NEW i \in 1..a + q, NEW j \in 1..BlockSize
      PROVE  x[i][j] = (y \o z)[i][j]
  <2> DEFINE k == Place(i, j)
  <2>1. BlockSize \in Nat \ {0}
    BY BlockConstants
  <2>2. k \in 1..Len(m) + Len(s)
    <3>1. Len(m) + Len(s) \in Nat /\ i \in 1..((Len(m) + Len(s)) \div BlockSize)
      BY <1>2, <1>4
    <3> QED BY <3>1, ByteOfBlock
  <2>3. x[i][j] = IF k <= Len(m) THEN m[k] ELSE s[k - Len(m)]
    <3>1. x[i][j] = (m \o s)[k]
      <4> HIDE DEF x, a, q
      <4> QED BY <1>5
    <3> HIDE DEF x, a, q, k
    <3> QED BY <1>1, <2>2, <3>1
  <2>4. CASE i <= a
    <3>1. k \in 1..Len(m)
      <4>1. i \in 1..a
        BY <2>4, <1>3
      <4> QED BY <4>1, <1>2, ByteOfBlock
    <3>2. (y \o z)[i][j] = m[k]
      <4>1. (y \o z)[i] = y[i] /\ i \in 1..a
        <5> HIDE DEF y, z, a, q
        <5> QED BY <2>4, <1>3, <1>8
      <4> HIDE DEF y, z, a, q
      <4> QED BY <4>1, <1>6
    <3> HIDE DEF k
    <3> QED BY <2>3, <3>1, <3>2
  <2>5. CASE i > a
    <3> DEFINE h == i - a
    <3>1. h \in 1..q
      <4> HIDE DEF a, q
      <4> QED BY <2>5, <1>3
    <3>2. k - Len(m) = Place(h, j)
      <4> HIDE DEF a
      <4> QED BY <1>3, <1>4, <2>1 DEF Place
    <3>3. Place(h, j) \in 1..Len(s)
      <4> HIDE DEF h
      <4> QED BY <3>1, <1>2, ByteOfBlock
    <3>4. ~(k <= Len(m))
      <4> HIDE DEF h, k
      <4>1. k \in Int
        BY <2>2
      <4> QED BY <4>1, <3>2, <3>3, <1>2
    <3>5. (y \o z)[i][j] = s[Place(h, j)]
      <4>1. (y \o z)[i] = z[h]
        <5> HIDE DEF y, z, a, q, k
        <5>1. ~(i <= a)
          BY <2>5, <1>3
        <5> QED BY <5>1, <1>8
      <4> HIDE DEF y, z, a, q, h
      <4> QED BY <4>1, <3>1, <1>7
    <3> HIDE DEF k, h
    <3> QED BY <2>3, <3>2, <3>4, <3>5
  <2> HIDE DEF a, q, x, y, z, k
  <2>6. i <= a \/ i > a
    BY <1>3
  <2> QED
    BY <2>4, <2>5, <2>6
<1> HIDE DEF a, q, x, y, z
<1>10. x = y \o z
  BY <1>3, <1>5, <1>8, <1>9, BlocksEqual
<1> QED
  BY <1>10 DEF x, y, z

\* A sequence as long as a block is one block, a shorter one none.
LEMMA OneBlock ==
    ASSUME NEW T, NEW s \in Seq(T), Len(s) = BlockSize
    PROVE  WholeBlocks(s) = <<s>>
<1>1. BlockSize \in Nat \ {0} /\ s \in Block(T)
  BY BlockConstants, BlockIsSeq
<1>2. BlockSize \div BlockSize = 1
  <2>1. (BlockSize * 1 + 0) \div BlockSize = 1
    BY <1>1, OnlyOnePlace
  <2>2. BlockSize * 1 + 0 = BlockSize
    BY <1>1
  <2> QED BY <2>1, <2>2
<1>3. /\ WholeBlocks(s) \in Seq(Block(T)) /\ Len(WholeBlocks(s)) = 1
      /\ \A i \in 1..1, j \in 1..BlockSize : WholeBlocks(s)[i][j] = s[Place(i, j)]
  BY <1>2, WholeBlocksBytes
<1>4. <<s>> \in Seq(Block(T)) /\ Len(<<s>>) = 1
  BY <1>1
<1>5. \A i \in 1..1, j \in 1..BlockSize : WholeBlocks(s)[i][j] = <<s>>[i][j]
  <2>1. ASSUME NEW j \in 1..BlockSize
        PROVE  WholeBlocks(s)[1][j] = s[j]
    <3>1. Place(1, j) = j
      BY <1>1 DEF Place
    <3> QED BY <1>3, <3>1
  <2> QED BY <2>1
<1> HIDE DEF Block
<1> QED
  BY <1>3, <1>4, <1>5, BlocksEqual

\* Less than a block has no whole block.
LEMMA NoBlock ==
    ASSUME NEW T, NEW s \in Seq(T), Len(s) < BlockSize
    PROVE  WholeBlocks(s) = <<>>
<1>1. BlockSize \in Nat \ {0} /\ Len(s) \in 0..BlockSize - 1
  BY BlockConstants
<1>2. Len(s) \div BlockSize = 0
  <2>1. (BlockSize * 0 + Len(s)) \div BlockSize = 0
    BY <1>1, OnlyOnePlace
  <2>2. BlockSize * 0 + Len(s) = Len(s)
    BY <1>1
  <2> QED BY <2>1, <2>2
<1>3. WholeBlocks(s) \in Seq(Block(T)) /\ Len(WholeBlocks(s)) = 0
  BY <1>2, WholeBlocksBytes
<1> QED
  BY <1>3, EmptySeq

-----------------------------------------------------------------------------
(* Parts of a sequence, and a block that is filled in parts. *)

\* A sequence is what Take takes of it and then what Drop leaves.
LEMMA TakeDrop ==
    ASSUME NEW T, NEW s \in Seq(T), NEW k \in 0..Len(s)
    PROVE  /\ s = Take(s, k) \o Drop(s, k)
           /\ \A i \in 1..k : Take(s, k)[i] = s[i]
           /\ \A i \in 1..Len(s) - k : Drop(s, k)[i] = s[k + i]
<1>1. Len(s) \in Nat /\ k \in Nat /\ Lesser(k, Len(s)) = k
  BY DEF Lesser
<1>2. \A i \in 1..Len(s) : s[i] \in T
  BY ElementOfSeq
<1>3. Take(s, k) = SubSeq(s, 1, k) /\ Drop(s, k) = SubSeq(s, k + 1, Len(s))
  BY <1>1 DEF Take, Drop
<1>4. /\ SubSeq(s, 1, k) \in Seq(T) /\ Len(SubSeq(s, 1, k)) = k
      /\ \A i \in 1..k : SubSeq(s, 1, k)[i] = s[i]
  BY <1>1, <1>2, SubSeqProperties
<1>5. /\ SubSeq(s, k + 1, Len(s)) \in Seq(T)
      /\ Len(SubSeq(s, k + 1, Len(s))) = Len(s) - k
      /\ \A i \in 1..Len(s) - k : SubSeq(s, k + 1, Len(s))[i] = s[k + i]
  BY <1>1, <1>2, SubSeqProperties
<1>6. s = SubSeq(s, 1, k) \o SubSeq(s, k + 1, Len(s))
  <2> DEFINE a == SubSeq(s, 1, k)
             b == SubSeq(s, k + 1, Len(s))
  <2>1. /\ a \in Seq(T) /\ b \in Seq(T) /\ Len(a) = k /\ Len(b) = Len(s) - k
        /\ \A i \in 1..k : a[i] = s[i]
        /\ \A i \in 1..Len(s) - k : b[i] = s[k + i]
    BY <1>4, <1>5
  <2> HIDE DEF a, b
  <2>2. /\ a \o b \in Seq(T) /\ Len(a \o b) = Len(s)
        /\ \A i \in 1..Len(s) : (a \o b)[i] = IF i <= k THEN a[i] ELSE b[i - k]
    BY <1>1, <2>1, ConcatProperties
  <2>3. \A i \in 1..Len(s) : (a \o b)[i] = s[i]
    BY <1>1, <2>1, <2>2
  <2>4. a \o b = s
    BY <2>2, <2>3, SeqEqual
  <2> QED BY <2>4 DEF a, b
<1> QED
  BY <1>3, <1>4, <1>5, <1>6

\* Concatenation as an operator the provers do not expand.
Join(s, t) == s \o t

\* Three pieces are joined in any order of the two joins.
LEMMA JoinAssociative ==
    ASSUME NEW T, NEW s \in Seq(T), NEW t \in Seq(T), NEW u \in Seq(T)
    PROVE  Join(Join(s, t), u) = Join(s, Join(t, u))
BY ConcatAssociative, SMTT(60) DEF Join

\* What Take takes of two sequences is the first, if it takes its length.
LEMMA TakeOfJoined ==
    ASSUME NEW T, NEW s \in Seq(T), NEW t \in Seq(T)
    PROVE  Take(s \o t, Len(s)) = s
<1>1. /\ s \o t \in Seq(T) /\ Len(s \o t) = Len(s) + Len(t)
      /\ \A i \in 1..Len(s) + Len(t) : (s \o t)[i] = IF i <= Len(s) THEN s[i] ELSE t[i - Len(s)]
  BY ConcatProperties
<1>2. Len(s) \in Nat /\ Len(t) \in Nat
  OBVIOUS
<1> DEFINE u == s \o t
<1> HIDE DEF u
<1>3. u \in Seq(T) /\ Len(s) \in 0..Len(u) /\ \A i \in 1..Len(s) : u[i] = s[i]
  BY <1>1, <1>2 DEF u
<1>4. /\ Take(u, Len(s)) \in Seq(T) /\ Len(Take(u, Len(s))) = Len(s)
      /\ \A i \in 1..Len(s) : Take(u, Len(s))[i] = u[i]
  BY <1>3, TakeDrop, TakeDropLengths
<1>5. \A i \in 1..Len(s) : Take(u, Len(s))[i] = s[i]
  BY <1>3, <1>4
<1>6. Take(u, Len(s)) = s
  BY <1>4, <1>5, SeqEqual
<1> QED
  BY <1>6 DEF u

\* What is copied behind the first k bytes of a block follows them there.
LEMMA FilledBlock ==
    ASSUME NEW T, NEW b \in Block(T), NEW k \in 0..BlockSize, NEW s \in Seq(T),
           k + Len(s) <= BlockSize
    PROVE  /\ CopyAt(b, k, s) \in Block(T)
           /\ Take(CopyAt(b, k, s), k + Len(s)) = Take(b, k) \o s
<1> DEFINE c == CopyAt(b, k, s)
           n == k + Len(s)
<1>1. BlockSize \in Nat \ {0} /\ Len(s) \in Nat /\ k \in Nat /\ DOMAIN s = 1..Len(s)
  BY BlockConstants
<1>2. \A i \in 1..Len(s) : s[i] \in T
  BY ElementOfSeq
<1>3. b \in Seq(T) /\ Len(b) = BlockSize /\ DOMAIN b = 1..BlockSize
  BY BlockIsSeq DEF Block
<1>4. \A i \in 1..BlockSize : b[i] \in T
  BY DEF Block
<1>5. c = [i \in 1..BlockSize |-> IF i - k \in 1..Len(s) THEN s[i - k] ELSE b[i]]
  BY <1>1, <1>3 DEF CopyAt
<1>6. c \in Block(T)
  BY <1>2, <1>4, <1>5 DEF Block
<1>7. c \in Seq(T) /\ Len(c) = BlockSize
  BY <1>6, BlockIsSeq
<1>8. n \in 0..BlockSize
  BY <1>1
<1> HIDE DEF c
<1>9. /\ Take(c, n) \in Seq(T) /\ Len(Take(c, n)) = n
      /\ \A i \in 1..n : Take(c, n)[i] = c[i]
  <2> HIDE DEF n
  <2> QED BY <1>7, <1>8, TakeDrop, TakeDropLengths
<1>10. /\ Take(b, k) \in Seq(T) /\ Len(Take(b, k)) = k
       /\ \A i \in 1..k : Take(b, k)[i] = b[i]
  BY <1>3, TakeDrop, TakeDropLengths
<1>11. /\ Take(b, k) \o s \in Seq(T) /\ Len(Take(b, k) \o s) = n
       /\ \A i \in 1..n : (Take(b, k) \o s)[i] = IF i <= k THEN Take(b, k)[i] ELSE s[i - k]
  <2> DEFINE r == Take(b, k)
  <2>1. r \in Seq(T) /\ Len(r) = k
    BY <1>10
  <2> HIDE DEF r
  <2>2. /\ r \o s \in Seq(T) /\ Len(r \o s) = Len(r) + Len(s)
        /\ \A i \in 1..Len(r) + Len(s) : (r \o s)[i] = IF i <= Len(r) THEN r[i] ELSE s[i - Len(r)]
    BY <2>1, ConcatProperties
  <2> QED BY <2>1, <2>2 DEF r
<1>12. \A i \in 1..n : Take(c, n)[i] = (Take(b, k) \o s)[i]
  <2> TAKE i \in 1..n
  <2>1. i \in 1..BlockSize /\ (i <= k <=> ~(i - k \in 1..Len(s)))
    BY <1>1, <1>8
  <2>2. Take(c, n)[i] = IF i <= k THEN b[i] ELSE s[i - k]
    BY <1>5, <1>9, <2>1
  <2>3. (Take(b, k) \o s)[i] = IF i <= k THEN b[i] ELSE s[i - k]
    BY <1>1, <1>10, <1>11
  <2> QED BY <2>2, <2>3
<1>13. Take(c, n) = Take(b, k) \o s
  BY <1>9, <1>11, <1>12, SeqEqual
<1> QED
  BY <1>6, <1>13 DEF c

\* All of a block, and nothing of it.
LEMMA TakeAll ==
    ASSUME NEW T, NEW s \in Seq(T)
    PROVE  Take(s, Len(s)) = s /\ Take(s, 0) = <<>> /\ Drop(s, 0) = s
<1>1. Len(s) \in Nat
  OBVIOUS
<1>2. Take(s, Len(s)) = SubSeq(s, 1, Len(s)) /\ Take(s, 0) = SubSeq(s, 1, 0)
  BY <1>1 DEF Take, Lesser
<1>3. Drop(s, 0) = SubSeq(s, 1, Len(s))
  BY <1>1 DEF Drop
<1>4. SubSeq(s, 1, Len(s)) = s /\ SubSeq(s, 1, 0) = <<>>
  BY SubSeqFull, SubSeqEmpty
<1> QED
  BY <1>2, <1>3, <1>4

\* A block filled to its end is the bytes before and the bytes copied.
LEMMA FullBlock ==
    ASSUME NEW T, NEW b \in Block(T), NEW k \in 0..BlockSize, NEW s \in Seq(T),
           k + Len(s) = BlockSize
    PROVE  CopyAt(b, k, s) = Take(b, k) \o s
<1>1. Len(s) \in Nat /\ BlockSize \in Nat
  BY BlockConstants
<1> DEFINE c == CopyAt(b, k, s)
<1>2. c \in Block(T) /\ Take(c, k + Len(s)) = Take(b, k) \o s
  <2>1. k + Len(s) <= BlockSize
    BY <1>1
  <2> QED BY <2>1, FilledBlock
<1>3. c \in Seq(T) /\ Len(c) = BlockSize
  BY <1>2, BlockIsSeq
<1> HIDE DEF c
<1>4. Take(c, Len(c)) = c
  BY <1>3, TakeAll
<1> QED
  BY <1>2, <1>3, <1>4 DEF c

-----------------------------------------------------------------------------
(* A sequence cut into blocks, the last one padded with zeros. *)

Ceiling(n) == (n + BlockSize - 1) \div BlockSize

\* Every padded block begins within the sequence.
LEMMA PaddedBlockBegins ==
    ASSUME NEW n \in Nat, NEW i \in 1..Ceiling(n)
    PROVE  (i - 1) * BlockSize \in 0..n - 1
<1> DEFINE B == BlockSize
           l == n + B - 1
           q == l \div B
           r == l % B
<1>1. B \in Nat \ {0}
  BY BlockConstants
<1>2. l \in Nat
  BY <1>1
<1>3. q \in Nat /\ r \in Nat /\ l = B * q + r
  <2> HIDE DEF l
  <2> QED BY <1>1, <1>2, BlocksAndRest
<1>4. i \in 1..q
  BY DEF Ceiling
<1>5. l = n + B - 1
  OBVIOUS
<1> HIDE DEF B, l, q, r
<1>6. B * i <= B * q /\ B * i \in Int /\ B * q \in Int
  <2>1. B * (q - i) >= 0
    BY <1>1, <1>3, <1>4
  <2> QED BY <2>1, <1>1, <1>3, <1>4
<1>7. (i - 1) * B = B * i - B /\ (i - 1) * B >= 0
  BY <1>1, <1>4
<1>8. B * i - B <= n - 1
  BY <1>1, <1>3, <1>5, <1>6
<1>9. (i - 1) * B \in 0..n - 1
  BY <1>1, <1>6, <1>7, <1>8
<1> QED
  BY <1>9 DEF B

\* PaddedBlocks cuts bytes into blocks, each byte at its place, the last block
\* padded with zeros.
LEMMA PaddedBlocksBytes ==
    ASSUME NEW T, {} \in T, NEW s \in Seq(T)
    PROVE  /\ PaddedBlocks(s) \in Seq(Block(T))
           /\ Len(PaddedBlocks(s)) = Ceiling(Len(s))
           /\ \A i \in 1..Ceiling(Len(s)), j \in 1..BlockSize :
                PaddedBlocks(s)[i][j] = IF Place(i, j) <= Len(s) THEN s[Place(i, j)] ELSE {}
<1> DEFINE n == Len(s)
           p == Ceiling(n)
           Pad(i) == CopyAt(Zeros(BlockSize), 0, Take(Drop(s, (i - 1) * BlockSize), BlockSize))
<1>1. BlockSize \in Nat \ {0} /\ n \in Nat
  BY BlockConstants
<1>2. p \in Nat
  <2>1. n + BlockSize - 1 \in Nat
    BY <1>1
  <2> QED BY <2>1, BlocksAndRest DEF Ceiling
<1>3. ASSUME NEW i \in 1..p
      PROVE  /\ Pad(i) \in Block(T)
             /\ \A j \in 1..BlockSize :
                  Pad(i)[j] = IF Place(i, j) <= n THEN s[Place(i, j)] ELSE {}
  <2> DEFINE k == (i - 1) * BlockSize
             d == Drop(s, k)
             m == Lesser(BlockSize, Len(d))
             t == Take(d, BlockSize)
  <2>1. k \in 0..n - 1
    BY <1>1, PaddedBlockBegins
  <2>2. \A j \in 1..BlockSize : Place(i, j) = k + j
    BY DEF Place
  <2> HIDE DEF k
  <2>3. /\ d \in Seq(T) /\ Len(d) = n - k
        /\ \A j \in 1..n - k : d[j] = s[k + j]
    <3>1. k \in 0..Len(s)
      BY <1>1, <2>1
    <3> QED BY <3>1, TakeDrop, TakeDropLengths
  <2> HIDE DEF d
  <2>4. m \in 0..Len(d) /\ m <= BlockSize /\ (m = BlockSize \/ m = n - k)
    BY <1>1, <2>1, <2>3 DEF Lesser
  <2>5. t = Take(d, m)
    <3>1. Lesser(m, Len(d)) = m
      BY <1>1, <2>4 DEF Lesser
    <3> QED BY <3>1 DEF Take
  <2> HIDE DEF m, t
  <2>6. /\ t \in Seq(T) /\ Len(t) = m
        /\ \A j \in 1..m : t[j] = d[j]
    BY <2>3, <2>4, <2>5, TakeDrop, TakeDropLengths
  <2>7. DOMAIN t = 1..m /\ \A j \in 1..m : t[j] = s[k + j] /\ t[j] \in T
    <3>1. DOMAIN t = 1..m
      BY <2>6
    <3>2. \A j \in 1..m : j \in 1..n - k
      BY <1>1, <2>1, <2>3, <2>4
    <3>3. \A j \in 1..m : t[j] \in T
      BY <2>6, ElementOfSeq
    <3> QED BY <2>3, <2>6, <3>1, <3>2, <3>3
  <2>8. Pad(i) = [j \in 1..BlockSize |-> IF j - 0 \in DOMAIN t THEN t[j - 0] ELSE {}]
    BY DEF CopyAt, Zeros, t, d, k
  <2>9. \A j \in 1..BlockSize : j - 0 = j /\ (j \in DOMAIN t <=> k + j <= n)
    BY <1>1, <2>1, <2>3, <2>4, <2>7
  <2> HIDE DEF Pad
  <2>10. Pad(i) = [j \in 1..BlockSize |-> IF k + j <= n THEN s[k + j] ELSE {}]
    <3>1. \A j \in 1..BlockSize : (IF j - 0 \in DOMAIN t THEN t[j - 0] ELSE {})
                                   = (IF k + j <= n THEN s[k + j] ELSE {})
      BY <2>7, <2>9
    <3> QED BY <2>8, <3>1
  <2>11. \A j \in 1..BlockSize : k + j <= n => s[k + j] \in T
    <3> TAKE j \in 1..BlockSize
    <3> HAVE k + j <= n
    <3>1. k + j \in 1..Len(s)
      BY <1>1, <2>1
    <3> QED BY <3>1, ElementOfSeq
  <2>12. Pad(i) \in Block(T)
    BY <2>10, <2>11 DEF Block
  <2>13. \A j \in 1..BlockSize : Pad(i)[j] = IF k + j <= n THEN s[k + j] ELSE {}
    BY <2>10
  <2> QED
    BY <2>2, <2>12, <2>13
<1>4. PaddedBlocks(s) = [i \in 1..p |-> Pad(i)]
  BY DEF PaddedBlocks, Ceiling
<1> HIDE DEF Pad, p
<1>5. PaddedBlocks(s) \in [1..p -> Block(T)]
  BY <1>3, <1>4
<1>6. PaddedBlocks(s) \in Seq(Block(T)) /\ Len(PaddedBlocks(s)) = p
  BY <1>2, <1>5
<1>7. \A i \in 1..p, j \in 1..BlockSize :
         PaddedBlocks(s)[i][j] = IF Place(i, j) <= n THEN s[Place(i, j)] ELSE {}
  BY <1>3, <1>4
<1> QED
  BY <1>6, <1>7 DEF p

\* Whole blocks and what follows them are padded apart.
LEMMA PaddedBlocksJoin ==
    ASSUME NEW T, {} \in T, NEW m \in Seq(T), Aligned(m), NEW s \in Seq(T)
    PROVE  PaddedBlocks(m \o s) = WholeBlocks(m) \o PaddedBlocks(s)
<1> DEFINE a == Len(m) \div BlockSize
           p == Ceiling(Len(s))
           ms == m \o s
           x == PaddedBlocks(ms)
           y == WholeBlocks(m)
           z == PaddedBlocks(s)
<1>1. /\ ms \in Seq(T) /\ Len(ms) = Len(m) + Len(s)
      /\ \A i \in 1..Len(m) + Len(s) :
            ms[i] = IF i <= Len(m) THEN m[i] ELSE s[i - Len(m)]
  BY ConcatProperties
<1>2. Len(m) \in Nat /\ Len(s) \in Nat /\ BlockSize \in Nat \ {0}
  BY BlockConstants
<1>3. Len(s) + BlockSize - 1 \in Nat
  BY <1>2
<1>4. a \in Nat /\ p \in Nat
  BY <1>2, <1>3, BlocksAndRest DEF Ceiling
<1>5. Len(m) = a * BlockSize /\ Ceiling(Len(ms)) = a + p
  <2>1. Len(m) % BlockSize = 0
    BY DEF Aligned
  <2> DEFINE k == Len(s) + BlockSize - 1
             n == Len(m)
  <2>2. Len(ms) + BlockSize - 1 = n + k
    BY <1>1, <1>2
  <2>3. n \in Nat /\ k \in Nat /\ n % BlockSize = 0
    BY <1>2, <1>3, <2>1
  <2> HIDE DEF k, n
  <2>4. n = (n \div BlockSize) * BlockSize
        /\ (n + k) \div BlockSize = (n \div BlockSize) + (k \div BlockSize)
    BY <2>3, AfterWholeBlocks
  <2> QED BY <2>2, <2>4 DEF Ceiling, k, n
<1> HIDE DEF ms
<1>6. /\ x \in Seq(Block(T)) /\ Len(x) = a + p
      /\ \A i \in 1..a + p, j \in 1..BlockSize :
            x[i][j] = IF Place(i, j) <= Len(ms) THEN ms[Place(i, j)] ELSE {}
  <2> HIDE DEF a, p
  <2> QED BY <1>1, <1>5, PaddedBlocksBytes
<1>7. /\ y \in Seq(Block(T)) /\ Len(y) = a
      /\ \A i \in 1..a, j \in 1..BlockSize : y[i][j] = m[Place(i, j)]
  BY WholeBlocksBytes
<1>8. /\ z \in Seq(Block(T)) /\ Len(z) = p
      /\ \A i \in 1..p, j \in 1..BlockSize :
            z[i][j] = IF Place(i, j) <= Len(s) THEN s[Place(i, j)] ELSE {}
  BY PaddedBlocksBytes
<1>9. /\ y \o z \in Seq(Block(T)) /\ Len(y \o z) = a + p
      /\ \A i \in 1..a + p : (y \o z)[i] = IF i <= a THEN y[i] ELSE z[i - a]
  <2> HIDE DEF a, p, y, z
  <2>1. y \in Seq(Block(T)) /\ z \in Seq(Block(T)) /\ Len(y) = a /\ Len(z) = p
    BY <1>7, <1>8
  <2> QED BY <2>1, <1>4, ConcatProperties
<1>10. ASSUME NEW i \in 1..a + p, NEW j \in 1..BlockSize
       PROVE  x[i][j] = (y \o z)[i][j]
  <2> DEFINE k == Place(i, j)
  <2>1. k \in Int /\ k >= 1
    <3>1. (i - 1) * BlockSize \in Nat
      <4>1. i \in 1..Ceiling(Len(ms)) /\ Len(ms) \in Nat
        BY <1>1, <1>2, <1>5
      <4> QED BY <4>1, PaddedBlockBegins
    <3> QED BY <3>1 DEF Place
  <2>2. x[i][j] = IF k <= Len(ms) THEN ms[k] ELSE {}
    <3> HIDE DEF x, a, p
    <3> QED BY <1>6
  <2>3. CASE i <= a
    <3>1. i \in 1..a
      BY <2>3, <1>4
    <3>2. k \in 1..Len(m)
      BY <3>1, <1>2, ByteOfBlock
    <3>3. (y \o z)[i] = y[i]
      <4> HIDE DEF y, z, a, p, k
      <4> QED BY <2>3, <1>9
    <3>4. (y \o z)[i][j] = m[k]
      <4> HIDE DEF y, z, a, p
      <4> QED BY <3>1, <3>3, <1>7
    <3> HIDE DEF x, y, z, a, p, k
    <3>5. k <= Len(ms) /\ k \in 1..Len(m) + Len(s) /\ k <= Len(m)
      BY <3>2, <1>1, <1>2
    <3>6. x[i][j] = m[k]
      BY <2>2, <3>5, <1>1
    <3> QED BY <3>4, <3>6
  <2>4. CASE i > a
    <3> DEFINE h == i - a
    <3>1. h \in 1..p
      <4> HIDE DEF a, p
      <4> QED BY <2>4, <1>4
    <3>2. k - Len(m) = Place(h, j)
      <4> HIDE DEF a, p
      <4> QED BY <1>2, <1>4, <1>5 DEF Place
    <3>3. (y \o z)[i] = z[h]
      <4> HIDE DEF y, z, a, p, k
      <4>1. ~(i <= a)
        BY <2>4, <1>4
      <4> QED BY <4>1, <1>9
    <3>4. (y \o z)[i][j] = IF Place(h, j) <= Len(s) THEN s[Place(h, j)] ELSE {}
      <4> HIDE DEF y, z, a, p, h
      <4> QED BY <3>1, <3>3, <1>8
    <3>5. Place(h, j) >= 1 /\ Place(h, j) \in Int
      <4> HIDE DEF h
      <4>1. (h - 1) * BlockSize \in Nat
        BY <3>1, <1>2, PaddedBlockBegins
      <4> QED BY <4>1 DEF Place
    <3> DEFINE f == Place(h, j)
    <3>6. k - Len(m) = f /\ f >= 1 /\ f \in Int
      BY <3>2, <3>5
    <3> HIDE DEF x, y, z, a, p, k, h, f
    <3>7. k = Len(m) + f
      BY <3>6, <2>1, <1>2
    <3>8. x[i][j] = IF f <= Len(s) THEN s[f] ELSE {}
      <4>1. CASE f <= Len(s)
        <5>1. k <= Len(ms) /\ k \in 1..Len(m) + Len(s) /\ ~(k <= Len(m))
          BY <4>1, <3>6, <3>7, <1>1, <1>2
        <5>2. ms[k] = s[f]
          BY <5>1, <3>6, <1>1
        <5> QED BY <5>1, <5>2, <2>2, <4>1
      <4>2. CASE ~(f <= Len(s))
        <5>1. ~(k <= Len(ms))
          BY <4>2, <3>6, <3>7, <1>1, <1>2
        <5> QED BY <5>1, <2>2, <4>2
      <4> QED BY <4>1, <4>2
    <3> QED BY <3>4, <3>8 DEF f
  <2> HIDE DEF a, p, x, y, z, k
  <2>5. i <= a \/ i > a
    BY <1>4
  <2> QED
    BY <2>3, <2>4, <2>5
<1> HIDE DEF a, p, x, y, z
<1>11. x = y \o z
  BY <1>4, <1>6, <1>9, <1>10, BlocksEqual
<1> QED
  BY <1>11 DEF x, y, z, ms

\* At most a block is one block, unless it is nothing.
LEMMA PaddedOneBlock ==
    ASSUME NEW T, {} \in T, NEW s \in Seq(T), Len(s) \in 1..BlockSize
    PROVE  PaddedBlocks(s) = <<CopyAt(Zeros(BlockSize), 0, s)>>
<1> DEFINE c == CopyAt(Zeros(BlockSize), 0, s)
           x == PaddedBlocks(s)
<1>1. BlockSize \in Nat \ {0} /\ Len(s) \in Nat /\ DOMAIN s = 1..Len(s)
  BY BlockConstants
<1>2. Ceiling(Len(s)) = 1
  <2>1. Len(s) - 1 \in 0..BlockSize - 1
    BY <1>1
  <2>2. (BlockSize * 1 + (Len(s) - 1)) \div BlockSize = 1
    BY <2>1, OnlyOnePlace
  <2>3. BlockSize * 1 + (Len(s) - 1) = Len(s) + BlockSize - 1
    BY <1>1
  <2> QED BY <2>2, <2>3 DEF Ceiling
<1>3. /\ x \in Seq(Block(T)) /\ Len(x) = 1
      /\ \A i \in 1..1, j \in 1..BlockSize :
            x[i][j] = IF Place(i, j) <= Len(s) THEN s[Place(i, j)] ELSE {}
  BY <1>2, PaddedBlocksBytes
<1>4. /\ c \in Block(T)
      /\ \A j \in 1..BlockSize : c[j] = IF j <= Len(s) THEN s[j] ELSE {}
  <2>1. c = [j \in 1..BlockSize |-> IF j - 0 \in 1..Len(s) THEN s[j - 0] ELSE {}]
    BY <1>1 DEF CopyAt, Zeros
  <2>2. \A j \in 1..BlockSize : j - 0 = j /\ (j \in 1..Len(s) <=> j <= Len(s))
    BY <1>1
  <2>3. \A j \in 1..Len(s) : s[j] \in T
    BY ElementOfSeq
  <2> HIDE DEF c
  <2>4. \A j \in 1..BlockSize : c[j] = IF j <= Len(s) THEN s[j] ELSE {}
    BY <2>1, <2>2
  <2>5. \A j \in 1..BlockSize : c[j] \in T
    BY <2>2, <2>3, <2>4
  <2>6. c \in Block(T)
    BY <2>1, <2>5 DEF Block
  <2> QED BY <2>4, <2>6
<1>5. \A j \in 1..BlockSize : Place(1, j) = j
  BY <1>1 DEF Place
<1> HIDE DEF c, x
<1>6. <<c>> \in Seq(Block(T)) /\ Len(<<c>>) = 1
  BY <1>4
<1>7. \A i \in 1..1, j \in 1..BlockSize : x[i][j] = <<c>>[i][j]
  <2>1. \A j \in 1..BlockSize : x[1][j] = c[j]
    BY <1>3, <1>4, <1>5
  <2> QED BY <2>1
<1>8. x = <<c>>
  BY <1>3, <1>6, <1>7, BlocksEqual
<1> QED
  BY <1>8 DEF c, x

\* Nothing needs no padding.
LEMMA PaddedNoBlock == PaddedBlocks(<<>>) = <<>>
<1>1. BlockSize \in Nat \ {0}
  BY BlockConstants
<1>2. Ceiling(0) = 0
  <2>1. BlockSize - 1 \in 0..BlockSize - 1
    BY <1>1
  <2>2. (BlockSize * 0 + (BlockSize - 1)) \div BlockSize = 0
    BY <2>1, OnlyOnePlace
  <2>3. BlockSize * 0 + (BlockSize - 1) = 0 + BlockSize - 1
    BY <1>1
  <2> QED BY <2>2, <2>3 DEF Ceiling
<1>3. <<>> \in Seq({{}}) /\ {} \in {{}} /\ Len(<<>>) = 0
  BY EmptySeq
<1>4. PaddedBlocks(<<>>) \in Seq(Block({{}})) /\ Len(PaddedBlocks(<<>>)) = 0
  BY <1>2, <1>3, PaddedBlocksBytes
<1> QED
  BY <1>4, EmptySeq

\* Whole blocks need no padding.
LEMMA PaddedAligned ==
    ASSUME NEW T, {} \in T, NEW m \in Seq(T), Aligned(m)
    PROVE  PaddedBlocks(m) = WholeBlocks(m)
<1>1. <<>> \in Seq(T) /\ m \o <<>> = m
  BY EmptySeq, ConcatEmptySeq
<1>2. PaddedBlocks(m \o <<>>) = WholeBlocks(m) \o <<>>
  BY <1>1, PaddedBlocksJoin, PaddedNoBlock
<1>3. WholeBlocks(m) \in Seq(Block(T))
  BY WholeBlocksBytes
<1>4. WholeBlocks(m) \o <<>> = WholeBlocks(m)
  BY <1>3, ConcatEmptySeq
<1> QED
  BY <1>1, <1>2, <1>4

-----------------------------------------------------------------------------
(* A message taken in pieces: its first part m is processed block by block, *)
(* the rest r waits at the beginning of a buffer.                           *)

Holds(T, chain, buff, index, m, r) ==
    /\ m \in Seq(T) /\ Aligned(m) /\ chain = WholeBlocks(m)
    /\ r \in Seq(T) /\ index = Len(r) /\ index \in 0..BlockSize
    /\ buff \in Block(T) /\ Take(buff, index) = r

\* Whole blocks may follow whole blocks.
LEMMA AlignedJoin ==
    ASSUME NEW T, NEW m \in Seq(T), Aligned(m), NEW s \in Seq(T)
    PROVE  /\ m \o s \in Seq(T)
           /\ Aligned(m \o s) <=> Aligned(s)
<1>1. m \o s \in Seq(T) /\ Len(m \o s) = Len(m) + Len(s)
  BY ConcatProperties
<1>2. Len(m) \in Nat /\ Len(s) \in Nat
  OBVIOUS
<1>3. Len(m) % BlockSize = 0
  BY DEF Aligned
<1>4. (Len(m) + Len(s)) % BlockSize = Len(s) % BlockSize
  <2> DEFINE n == Len(m)
             k == Len(s)
  <2>1. n \in Nat /\ k \in Nat /\ n % BlockSize = 0
    BY <1>2, <1>3
  <2> HIDE DEF n, k
  <2>2. (n + k) % BlockSize = k % BlockSize
    BY <2>1, AfterWholeBlocks
  <2> QED BY <2>2 DEF n, k
<1> QED
  BY <1>1, <1>4 DEF Aligned

\* The empty sequence and a block are aligned, and so are whole blocks.
LEMMA AlignedLengths ==
    ASSUME NEW T, NEW s \in Seq(T)
    PROVE  /\ Len(s) = 0 => Aligned(s)
           /\ Len(s) = BlockSize => Aligned(s)
           /\ \A q \in Nat : Len(s) = q * BlockSize => Aligned(s)
           /\ Len(s) \in 1..BlockSize - 1 => ~Aligned(s)
<1>1. BlockSize \in Nat \ {0}
  BY BlockConstants
<1>2. ASSUME NEW q \in Nat
      PROVE  (q * BlockSize) % BlockSize = 0
  <2>1. (BlockSize * q + 0) % BlockSize = 0
    BY <1>1, OnlyOnePlace
  <2>2. BlockSize * q + 0 = q * BlockSize
    BY <1>1
  <2> QED BY <2>1, <2>2
<1>3. 0 * BlockSize = 0 /\ 1 * BlockSize = BlockSize
  BY <1>1
<1>4. 0 % BlockSize = 0 /\ BlockSize % BlockSize = 0
  BY <1>2, <1>3
<1>5. ASSUME Len(s) \in 1..BlockSize - 1
      PROVE  Len(s) % BlockSize # 0
  <2> DEFINE n == Len(s)
  <2>1. n \in 0..BlockSize - 1 /\ n # 0 /\ BlockSize * 0 + n = n
    BY <1>1, <1>5
  <2> HIDE DEF n
  <2>2. (BlockSize * 0 + n) % BlockSize = n
    BY <2>1, OnlyOnePlace
  <2> QED BY <2>1, <2>2 DEF n
<1> QED
  BY <1>2, <1>4, <1>5 DEF Aligned

\* Whole blocks processed after whole blocks.
LEMMA ProcessWhole ==
    ASSUME NEW T, NEW m \in Seq(T), Aligned(m), NEW s \in Seq(T), Aligned(s)
    PROVE  /\ m \o s \in Seq(T) /\ Aligned(m \o s)
           /\ WholeBlocks(m) \o WholeBlocks(s) = WholeBlocks(m \o s)
BY AlignedJoin, WholeBlocksJoin

\* Bytes that leave room, or just none, stay in the buffer.
LEMMA KeepInBuffer ==
    ASSUME NEW T, NEW chain, NEW buff, NEW index, NEW m, NEW r,
           Holds(T, chain, buff, index, m, r),
           NEW s \in Seq(T), index + Len(s) <= BlockSize
    PROVE  Holds(T, chain, CopyAt(buff, index, s), index + Len(s), m, r \o s)
<1>1. /\ buff \in Block(T) /\ index \in 0..BlockSize /\ Take(buff, index) = r
      /\ r \in Seq(T) /\ index = Len(r)
  BY DEF Holds
<1>2. /\ CopyAt(buff, index, s) \in Block(T)
      /\ Take(CopyAt(buff, index, s), index + Len(s)) = r \o s
  BY <1>1, FilledBlock
<1>3. r \o s \in Seq(T) /\ Len(r \o s) = index + Len(s)
  BY <1>1, ConcatProperties
<1>4. index + Len(s) \in 0..BlockSize
  <2>1. Len(s) \in Nat /\ BlockSize \in Nat
    BY BlockConstants
  <2> QED BY <1>1, <2>1
<1> QED
  BY <1>2, <1>3, <1>4 DEF Holds

\* A buffer that is full is one block more to process.
LEMMA ProcessBuffer ==
    ASSUME NEW T, NEW chain, NEW buff, NEW index, NEW m, NEW r,
           Holds(T, chain, buff, index, m, r), index = BlockSize
    PROVE  /\ m \o r \in Seq(T) /\ Aligned(m \o r) /\ Aligned(r) /\ buff = r
           /\ Append(chain, buff) = WholeBlocks(m \o r)
           /\ chain \o WholeBlocks(buff) = WholeBlocks(m \o r)
<1>1. /\ m \in Seq(T) /\ Aligned(m) /\ chain = WholeBlocks(m)
      /\ buff \in Block(T) /\ Take(buff, BlockSize) = r
      /\ r \in Seq(T) /\ Len(r) = BlockSize
  BY DEF Holds
<1>2. buff \in Seq(T) /\ Len(buff) = BlockSize
  BY <1>1, BlockIsSeq
<1>3. buff = r
  BY <1>1, <1>2, TakeAll
<1>4. Aligned(r) /\ WholeBlocks(r) = <<r>>
  BY <1>1, AlignedLengths, OneBlock
<1>5. /\ m \o r \in Seq(T) /\ Aligned(m \o r)
      /\ WholeBlocks(m \o r) = chain \o <<r>>
  BY <1>1, <1>4, ProcessWhole
<1>6. Append(chain, r) = chain \o <<r>>
  <2>1. chain \in Seq(Block(T)) /\ r \in Block(T)
    BY <1>1, <1>3, WholeBlocksBytes
  <2> QED BY <2>1, AppendIsConcat
<1> QED
  BY <1>3, <1>4, <1>5, <1>6

\* With nothing waiting, the buffer's bytes do not matter.
LEMMA NothingWaits ==
    ASSUME NEW T, NEW m \in Seq(T), Aligned(m), NEW buff \in Block(T)
    PROVE  Holds(T, WholeBlocks(m), buff, 0, m, <<>>)
<1>1. buff \in Seq(T) /\ <<>> \in Seq(T) /\ Len(<<>>) = 0 /\ 0 \in 0..BlockSize
  BY BlockIsSeq, EmptySeq, BlockConstants
<1>2. Take(buff, 0) = <<>>
  BY <1>1, TakeAll
<1> QED
  BY <1>1, <1>2 DEF Holds

\* Copied one after the other, or at once.
LEMMA CopyTwice ==
    ASSUME NEW T, NEW b, NEW r \in Seq(T), NEW s \in Seq(T),
           NEW n \in Nat, DOMAIN b = 1..n
    PROVE  CopyAt(CopyAt(b, 0, r), Len(r), s) = CopyAt(b, 0, r \o s)
<1>1. /\ r \o s \in Seq(T) /\ Len(r \o s) = Len(r) + Len(s)
      /\ \A i \in 1..Len(r) + Len(s) : (r \o s)[i] = IF i <= Len(r) THEN r[i] ELSE s[i - Len(r)]
  BY ConcatProperties
<1>2. Len(r) \in Nat /\ Len(s) \in Nat /\ DOMAIN r = 1..Len(r) /\ DOMAIN s = 1..Len(s)
      /\ DOMAIN (r \o s) = 1..Len(r) + Len(s)
  BY <1>1
<1> DEFINE k == Len(r)
           l == Len(s)
           rs == r \o s
           c == CopyAt(b, 0, r)
<1>3. c = [i \in 1..n |-> IF i - 0 \in 1..k THEN r[i - 0] ELSE b[i]]
  BY <1>2 DEF CopyAt
<1>4. CopyAt(c, k, s) = [i \in 1..n |-> IF i - k \in 1..l THEN s[i - k] ELSE c[i]]
  <2>1. DOMAIN c = 1..n
    BY <1>3
  <2> HIDE DEF c
  <2> QED BY <1>2, <2>1 DEF CopyAt
<1>5. CopyAt(b, 0, rs) = [i \in 1..n |-> IF i - 0 \in 1..k + l THEN rs[i - 0] ELSE b[i]]
  BY <1>2 DEF CopyAt
<1>6. k \in Nat /\ l \in Nat
      /\ \A i \in 1..k + l : rs[i] = IF i <= k THEN r[i] ELSE s[i - k]
  BY <1>1, <1>2
<1> HIDE DEF k, l, rs, c
<1>7. \A i \in 1..n : (IF i - k \in 1..l THEN s[i - k] ELSE c[i])
                        = (IF i - 0 \in 1..k + l THEN rs[i - 0] ELSE b[i])
  <2> TAKE i \in 1..n
  <2>1. i - 0 = i /\ i \in Nat
    OBVIOUS
  <2>2. c[i] = IF i \in 1..k THEN r[i] ELSE b[i]
    BY <1>3, <2>1
  <2>3. CASE i \in 1..k
    <3>1. ~(i - k \in 1..l) /\ i \in 1..k + l /\ i <= k
      BY <2>3, <1>6
    <3> QED BY <2>1, <2>2, <2>3, <3>1, <1>6
  <2>4. CASE i - k \in 1..l
    <3>1. i \in 1..k + l /\ ~(i <= k)
      BY <2>1, <2>4, <1>6
    <3> QED BY <2>1, <2>4, <3>1, <1>6
  <2>5. CASE ~(i \in 1..k) /\ ~(i - k \in 1..l)
    <3>1. ~(i \in 1..k + l)
      BY <2>1, <2>5, <1>6
    <3> QED BY <2>1, <2>2, <2>5, <3>1
  <2> QED BY <2>3, <2>4, <2>5
<1>8. CopyAt(c, k, s) = CopyAt(b, 0, rs)
  BY <1>4, <1>5, <1>7
<1> QED
  BY <1>8 DEF c, k, rs

\* Dropped one after the other, or at once.
LEMMA DropTwice ==
    ASSUME NEW T, NEW s \in Seq(T), NEW k \in 0..Len(s), NEW l \in 0..Len(s) - k
    PROVE  Drop(Drop(s, k), l) = Drop(s, k + l)
<1>1. Len(s) \in Nat /\ k \in Nat /\ l \in Nat /\ k + l \in 0..Len(s)
  OBVIOUS
<1> DEFINE d == Drop(s, k)
           e == Drop(d, l)
           f == Drop(s, k + l)
<1>2. d \in Seq(T) /\ Len(d) = Len(s) - k /\ \A i \in 1..Len(s) - k : d[i] = s[k + i]
  BY TakeDrop, TakeDropLengths
<1>3. f \in Seq(T) /\ Len(f) = Len(s) - (k + l) /\ \A i \in 1..Len(s) - (k + l) : f[i] = s[k + l + i]
  BY <1>1, TakeDrop, TakeDropLengths
<1> HIDE DEF d, f
<1>4. e \in Seq(T) /\ Len(e) = Len(d) - l /\ \A i \in 1..Len(d) - l : e[i] = d[l + i]
  <2>1. l \in 0..Len(d)
    BY <1>2
  <2> QED BY <1>2, <2>1, TakeDrop, TakeDropLengths
<1> HIDE DEF e
<1>5. Len(e) = Len(f) /\ \A i \in 1..Len(e) : e[i] = f[i]
  <2>1. Len(e) = Len(f) /\ Len(f) = Len(s) - (k + l)
    BY <1>1, <1>2, <1>3, <1>4
  <2>2. ASSUME NEW i \in 1..Len(e)
        PROVE  e[i] = f[i]
    <3>1. l + i \in 1..Len(s) - k /\ k + (l + i) = k + l + i /\ i \in 1..Len(d) - l
      BY <1>1, <1>2, <1>4, <2>1
    <3>2. e[i] = s[k + (l + i)]
      BY <3>1, <1>2, <1>4
    <3>3. f[i] = s[k + l + i]
      BY <2>1, <1>3
    <3> QED BY <3>1, <3>2, <3>3
  <2> QED BY <2>1, <2>2
<1>6. e = f
  BY <1>3, <1>4, <1>5, SeqEqual
<1> QED
  BY <1>6 DEF d, e, f

\* Changing the last of a sequence.
LEMMA ReplaceLast ==
    ASSUME NEW S, NEW s \in Seq(S), NEW x \in S, NEW y
    PROVE  LET t == s \o <<x>> IN [t EXCEPT ![Len(t)] = y] = Append(s, y)
<1> DEFINE R == S \cup {y}
           t == s \o <<x>>
           u == [t EXCEPT ![Len(t)] = y]
           v == Append(s, y)
<1>1. s \in Seq(R) /\ <<x>> \in Seq(R) /\ y \in R /\ Len(<<x>>) = 1 /\ Len(s) \in Nat
  <2>1. s \in Seq(R)
    BY SeqMonotonic
  <2> QED BY <2>1
<1> HIDE DEF R
<1>2. /\ t \in Seq(R) /\ Len(t) = Len(s) + 1
      /\ \A i \in 1..Len(s) + 1 : t[i] = IF i <= Len(s) THEN s[i] ELSE <<x>>[i - Len(s)]
  BY <1>1, ConcatProperties
<1> HIDE DEF t
<1>3. /\ u \in Seq(R) /\ Len(u) = Len(s) + 1
      /\ \A i \in 1..Len(s) + 1 : u[i] = IF i = Len(s) + 1 THEN y ELSE t[i]
  <2>1. Len(t) \in 1..Len(t)
    BY <1>1, <1>2
  <2> QED BY <1>1, <1>2, <2>1, ExceptSeq
<1>4. /\ v \in Seq(R) /\ Len(v) = Len(s) + 1
      /\ \A i \in 1..Len(s) : v[i] = s[i]
      /\ v[Len(s) + 1] = y
  BY <1>1, AppendProperties
<1> HIDE DEF u, v
<1>5. \A i \in 1..Len(u) : u[i] = v[i]
  <2> TAKE i \in 1..Len(u)
  <2>1. CASE i = Len(s) + 1
    BY <2>1, <1>3, <1>4
  <2>2. CASE i \in 1..Len(s)
    <3>1. u[i] = t[i] /\ t[i] = s[i]
      BY <2>2, <1>1, <1>2, <1>3
    <3> QED BY <3>1, <2>2, <1>4
  <2> QED BY <2>1, <2>2, <1>1, <1>3
<1>6. u = v
  BY <1>3, <1>4, <1>5, SeqEqual
<1> QED
  BY <1>6 DEF t, u, v

\* The beginning and the end of a block of zeros, or of two, overwritten.
LEMMA CopyEnds ==
    ASSUME NEW T, {} \in T, NEW e \in Seq(T), NEW l \in Seq(T), NEW size \in Nat,
           Len(e) + Len(l) <= size
    PROVE  /\ CopyAt(CopyAt(Zeros(size), 0, e), size - Len(l), l)
                = Join(e, Join(Zeros(size - Len(e) - Len(l)), l))
           /\ Zeros(size - Len(e) - Len(l)) \in Seq(T)
<1> DEFINE a == Len(e)
           b == Len(l)
           z == Zeros(size - a - b)
           zl == z \o l
           x == CopyAt(CopyAt(Zeros(size), 0, e), size - b, l)
           y == e \o zl
<1>1. a \in Nat /\ b \in Nat /\ a + b <= size /\ size - a - b \in Nat
  OBVIOUS
<1>2. z \in Seq(T) /\ Len(z) = size - a - b /\ \A i \in 1..size - a - b : z[i] = {}
  <2> HIDE DEF a, b
  <2> QED BY <1>1 DEF Zeros
<1> HIDE DEF z
<1>3. /\ zl \in Seq(T) /\ Len(zl) = size - a
      /\ \A i \in 1..size - a : zl[i] = IF i <= size - a - b THEN {} ELSE l[i - (size - a - b)]
  <2>1. /\ zl \in Seq(T) /\ Len(zl) = Len(z) + Len(l)
        /\ \A i \in 1..Len(z) + Len(l) : zl[i] = IF i <= Len(z) THEN z[i] ELSE l[i - Len(z)]
    BY <1>2, ConcatProperties
  <2> HIDE DEF zl, a, b
  <2>2. Len(z) + Len(l) = size - a /\ Len(z) = size - a - b
    BY <1>1, <1>2 DEF b
  <2>3. ASSUME NEW i \in 1..size - a
        PROVE  zl[i] = IF i <= size - a - b THEN {} ELSE l[i - (size - a - b)]
    <3>1. zl[i] = IF i <= size - a - b THEN z[i] ELSE l[i - (size - a - b)]
      BY <2>1, <2>2
    <3>2. i <= size - a - b => z[i] = {}
      BY <1>1, <1>2
    <3> QED BY <3>1, <3>2
  <2> QED BY <2>1, <2>2, <2>3
<1> HIDE DEF zl
<1>4. /\ y \in Seq(T) /\ Len(y) = size
      /\ \A i \in 1..size : y[i] = IF i <= a THEN e[i] ELSE zl[i - a]
  <2>1. /\ y \in Seq(T) /\ Len(y) = Len(e) + Len(zl)
        /\ \A i \in 1..Len(e) + Len(zl) : y[i] = IF i <= Len(e) THEN e[i] ELSE zl[i - Len(e)]
    BY <1>3, ConcatProperties
  <2> HIDE DEF y
  <2> QED BY <1>1, <1>3, <2>1
<1> HIDE DEF y
<1>5. x = [i \in 1..size |-> IF i - (size - b) \in 1..b THEN l[i - (size - b)]
                             ELSE IF i \in 1..a THEN e[i] ELSE {}]
  BY DEF CopyAt, Zeros
<1> HIDE DEF x
<1>6. ASSUME NEW i \in 1..size PROVE x[i] = y[i]
  <2>1. x[i] = IF i - (size - b) \in 1..b THEN l[i - (size - b)]
               ELSE IF i \in 1..a THEN e[i] ELSE {}
    BY <1>5
  <2> HIDE DEF a, b
  <2>2. CASE i <= a
    BY <1>1, <1>4, <2>1, <2>2
  <2>3. CASE i > a /\ i <= size - b
    <3>1. y[i] = zl[i - a] /\ i - a \in 1..size - a /\ i - a <= size - a - b
      BY <1>1, <1>4, <2>3
    <3>2. y[i] = {}
      BY <1>3, <3>1
    <3> QED BY <1>1, <2>1, <2>3, <3>2
  <2>4. CASE i > size - b
    <3>1. y[i] = zl[i - a] /\ i - a \in 1..size - a /\ ~(i - a <= size - a - b)
      BY <1>1, <1>4, <2>4
    <3>2. y[i] = l[(i - a) - (size - a - b)]
      BY <1>3, <3>1
    <3>3. (i - a) - (size - a - b) = i - (size - b) /\ i - (size - b) \in 1..b
      BY <1>1, <2>4
    <3> QED BY <2>1, <3>2, <3>3
  <2> QED BY <1>1, <2>2, <2>3, <2>4
<1>7. x \in Seq(T) /\ Len(x) = size
  <2>1. \A i \in 1..size : x[i] \in T
    BY <1>4, <1>6, ElementOfSeq
  <2>2. DOMAIN x = 1..size /\ x = [i \in 1..size |-> x[i]]
    BY <1>5
  <2> QED BY <2>1, <2>2
<1>8. x = y
  BY <1>4, <1>6, <1>7, SeqEqual
<1> QED
  BY <1>2, <1>8 DEF Join, x, y, zl, z, a, b

\* The last byte of what follows is the last byte of all.
LEMMA LastOfJoined ==
    ASSUME NEW T, NEW m \in Seq(T), NEW s \in Seq(T), Len(s) > 0
    PROVE  Join(m, s)[Len(Join(m, s))] = s[Len(s)]
<1> DEFINE j == m \o s
           a == Len(m)
           b == Len(s)
<1>1. /\ a \in Nat /\ b \in Nat /\ b > 0 /\ Len(j) = a + b
      /\ \A i \in 1..a + b : j[i] = IF i <= a THEN m[i] ELSE s[i - a]
  BY ConcatProperties
<1> HIDE DEF j
<1>2. j[a + b] = s[b]
  <2>1. ~(a + b <= a) /\ a + b \in 1..a + b /\ a + b - a = b
    BY <1>1
  <2> HIDE DEF a, b
  <2> QED BY <1>1, <2>1
<1> QED
  BY <1>1, <1>2 DEF Join, j

\* s with another last byte.
LastReplaced(s, y) == [s EXCEPT ![Len(s)] = y]

\* The last byte may be replaced in what follows, or in all.
LEMMA ReplaceLastOfJoined ==
    ASSUME NEW T, NEW m \in Seq(T), NEW s \in Seq(T), Len(s) > 0, NEW y \in T
    PROVE  LastReplaced(Join(m, s), y) = Join(m, LastReplaced(s, y))
<1> DEFINE j == m \o s
           a == Len(m)
           b == Len(s)
           t == [s EXCEPT ![Len(s)] = y]
           u == [j EXCEPT ![Len(j)] = y]
           v == m \o t
<1>1. /\ a \in Nat /\ b \in Nat /\ b > 0
      /\ j \in Seq(T) /\ Len(j) = a + b
      /\ \A i \in 1..a + b : j[i] = IF i <= a THEN m[i] ELSE s[i - a]
  BY ConcatProperties
<1> HIDE DEF j
<1>2. t \in Seq(T) /\ Len(t) = b /\ \A i \in 1..b : t[i] = IF i = b THEN y ELSE s[i]
  OBVIOUS
<1> HIDE DEF t
<1>3. /\ v \in Seq(T) /\ Len(v) = a + b
      /\ \A i \in 1..a + b : v[i] = IF i <= a THEN m[i] ELSE t[i - a]
  <2>1. /\ v \in Seq(T) /\ Len(v) = Len(m) + Len(t)
        /\ \A i \in 1..Len(m) + Len(t) : v[i] = IF i <= Len(m) THEN m[i] ELSE t[i - Len(m)]
    BY <1>2, ConcatProperties
  <2> HIDE DEF v
  <2> QED BY <1>2, <2>1
<1> HIDE DEF v
<1>4. u \in Seq(T) /\ Len(u) = a + b /\ \A i \in 1..a + b : u[i] = IF i = a + b THEN y ELSE j[i]
  BY <1>1
<1> HIDE DEF u
<1>5. ASSUME NEW i \in 1..a + b PROVE u[i] = v[i]
  <2> HIDE DEF a, b
  <2>1. CASE i <= a
    BY <1>1, <1>3, <1>4, <2>1
  <2>2. CASE i > a
    <3>1. i - a \in 1..b /\ (i - a = b <=> i = a + b)
      BY <1>1, <2>2
    <3>2. v[i] = t[i - a] /\ j[i] = s[i - a]
      BY <1>1, <1>3, <2>2
    <3> QED BY <1>2, <1>4, <3>1, <3>2
  <2> QED BY <1>1, <2>1, <2>2
<1>6. u = v
  BY <1>3, <1>4, <1>5, SeqEqual
<1> QED
  BY <1>1, <1>6 DEF LastReplaced, Join, j, u, v, t

\* The length of two sequences joined, and where the second begins.
LEMMA JoinLengths ==
    ASSUME NEW T, NEW s \in Seq(T), NEW t \in Seq(T)
    PROVE  /\ Join(s, t) \in Seq(T)
           /\ Len(Join(s, t)) = Len(s) + Len(t)
           /\ Len(t) > 0 => Join(s, t)[Len(s) + 1] = t[1]
<1> DEFINE j == s \o t
<1>1. /\ j \in Seq(T) /\ Len(j) = Len(s) + Len(t)
      /\ \A i \in 1..Len(s) + Len(t) : j[i] = IF i <= Len(s) THEN s[i] ELSE t[i - Len(s)]
  BY ConcatProperties
<1> HIDE DEF j
<1>2. ASSUME Len(t) > 0 PROVE j[Len(s) + 1] = t[1]
  <2>1. Len(s) + 1 \in 1..Len(s) + Len(t) /\ ~(Len(s) + 1 <= Len(s)) /\ Len(s) + 1 - Len(s) = 1
    BY <1>2
  <2> QED BY <1>1, <2>1
<1> QED
  BY <1>1, <1>2 DEF Join, j

\* What follows whole blocks and does not fill one is as long as the length's rest.
LEMMA OpenBlockLength ==
    ASSUME NEW T, NEW m \in Seq(T), Aligned(m), NEW r \in Seq(T), Len(r) < BlockSize
    PROVE  Len(Join(m, r)) \in Nat /\ Len(Join(m, r)) % BlockSize = Len(r)
<1> DEFINE n == Len(Join(m, r))
           a == Len(m)
           k == Len(r)
           B == BlockSize
<1>1. a \in Nat /\ a % B = 0 /\ n = a + k /\ k \in 0..B - 1 /\ B \in Nat \ {0}
  <2>1. n = a + k
    BY JoinLengths
  <2> HIDE DEF n
  <2> QED BY <2>1, BlockConstants DEF Aligned
<1> HIDE DEF n, a, k
<1>2. n \in Nat /\ k \in Nat
  BY <1>1
<1>3. n % B = k % B
  BY <1>1, <1>2, AfterWholeBlocks
<1>4. k % B = k
  <2>1. 0 \in Nat /\ B * 0 + k = k
    BY <1>1
  <2>2. (B * 0 + k) % B = k
    BY <1>1, <2>1, OnlyOnePlace
  <2> QED BY <2>1, <2>2
<1> QED
  BY <1>2, <1>3, <1>4 DEF n, k

\* A sequence over a set is one over a larger set.
LEMMA LargerSeq ==
    ASSUME NEW S, NEW U, S \subseteq U
    PROVE  Seq(S) \subseteq Seq(U)
OBVIOUS

\* One more block at the end.
LEMMA AppendJoined ==
    ASSUME NEW S, NEW x \in Seq(S), NEW w \in Seq(S), NEW b \in S
    PROVE  Append(Join(x, w), b) = Join(x, Join(w, <<b>>))
<1> DEFINE u == <<b>>
<1>1. Join(x, w) \in Seq(S) /\ u \in Seq(S)
  BY JoinLengths
<1>2. Append(Join(x, w), b) = Join(Join(x, w), u)
  BY <1>1, AppendIsConcat DEF Join
<1> HIDE DEF u
<1>3. Join(Join(x, w), u) = Join(x, Join(w, u))
  BY <1>1, JoinAssociative
<1> QED
  BY <1>2, <1>3 DEF u

\* The whole blocks of a sequence, and what follows them.
LEMMA WholePart ==
    ASSUME NEW T, NEW s \in Seq(T)
    PROVE  LET k == (Len(s) \div BlockSize) * BlockSize
           IN /\ k \in 0..Len(s)
              /\ Take(s, k) \in Seq(T) /\ Aligned(Take(s, k)) /\ Len(Take(s, k)) = k
              /\ Drop(s, k) \in Seq(T) /\ Len(Drop(s, k)) < BlockSize
              /\ Len(Drop(s, k)) = Len(s) - k
              /\ Join(Take(s, k), Drop(s, k)) = s
<1> DEFINE n == Len(s)
           q == n \div BlockSize
           k == q * BlockSize
<1>1. BlockSize \in Nat \ {0} /\ n \in Nat
  BY BlockConstants
<1>2. q \in Nat /\ n % BlockSize \in 0..BlockSize - 1 /\ n = BlockSize * q + (n % BlockSize)
  <2> HIDE DEF n
  <2> QED BY <1>1, BlocksAndRest
<1>3. k \in 0..n /\ n - k < BlockSize
  <2> DEFINE e == n % BlockSize
  <2>1. e \in 0..BlockSize - 1 /\ n = BlockSize * q + e /\ BlockSize * q = k /\ k \in Nat
    <3> HIDE DEF n
    <3> QED BY <1>1, <1>2
  <2> HIDE DEF e, k, q, n
  <2> QED BY <1>1, <2>1
<1> HIDE DEF k
<1>4. /\ Take(s, k) \in Seq(T) /\ Len(Take(s, k)) = k
      /\ Drop(s, k) \in Seq(T) /\ Len(Drop(s, k)) = n - k
      /\ s = Take(s, k) \o Drop(s, k)
  BY <1>3, TakeDrop, TakeDropLengths
<1>5. Aligned(Take(s, k))
  <2>1. Len(Take(s, k)) = q * BlockSize
    BY <1>4 DEF k
  <2> HIDE DEF q
  <2> QED BY <1>2, <1>4, <2>1, AlignedLengths
<1>6. Join(Take(s, k), Drop(s, k)) = s
  BY <1>4 DEF Join
<1> HIDE DEF n
<1> QED
  BY <1>3, <1>4, <1>5, <1>6 DEF k, n

\* A sequence made of two.
LEMMA MadeOfTwo ==
    ASSUME NEW T, NEW x \in Seq(T), NEW y \in Seq(T), NEW z \in Seq(T),
           Len(z) = Len(x) + Len(y),
           \A i \in 1..Len(x) : z[i] = x[i],
           \A i \in 1..Len(y) : z[Len(x) + i] = y[i]
    PROVE  z = x \o y
<1> DEFINE u == x \o y
<1>1. /\ u \in Seq(T) /\ Len(u) = Len(x) + Len(y) /\ Len(x) \in Nat /\ Len(y) \in Nat
      /\ \A i \in 1..Len(x) + Len(y) : u[i] = IF i <= Len(x) THEN x[i] ELSE y[i - Len(x)]
  BY ConcatProperties
<1> HIDE DEF u
<1>2. ASSUME NEW i \in 1..Len(x) + Len(y) PROVE z[i] = u[i]
  <2>1. CASE i <= Len(x)
    <3>1. i \in 1..Len(x)
      BY <1>1, <2>1
    <3> QED BY <1>1, <2>1, <3>1
  <2>2. CASE ~(i <= Len(x))
    <3>1. i - Len(x) \in 1..Len(y) /\ Len(x) + (i - Len(x)) = i
      BY <1>1, <2>2
    <3>2. z[Len(x) + (i - Len(x))] = y[i - Len(x)]
      BY <3>1
    <3> QED BY <1>1, <2>2, <3>1, <3>2
  <2> QED BY <2>1, <2>2
<1>3. z = u
  BY <1>1, <1>2, SeqEqual
<1> QED
  BY <1>3 DEF u

\* m is a blocks long.
Blocks(m, a) == a \in Nat /\ Len(m) = BlockSize * a

\* The place p of a text of which block a is open, and r is in it.
At(p, a, r) == p = BlockSize * a + Len(r)

\* One more block, or several.
LEMMA MoreBlocks ==
    ASSUME NEW T, NEW m \in Seq(T), NEW a, Blocks(m, a), NEW s \in Seq(T), NEW q \in Nat,
           Len(s) = q * BlockSize
    PROVE  Blocks(Join(m, s), a + q)
<1> DEFINE x == BlockSize * a
           y == BlockSize * q
<1>1. BlockSize \in Nat /\ a \in Nat /\ Len(m) = x
  BY BlockConstants DEF Blocks
<1>2. Len(s) = y /\ x + y = BlockSize * (a + q)
  BY <1>1
<1>3. Len(Join(m, s)) = Len(m) + Len(s)
  BY JoinLengths
<1> QED
  BY <1>1, <1>2, <1>3 DEF Blocks

\* The place of a text byte.
LEMMA PlaceOfText ==
    ASSUME NEW T, NEW m \in Seq(T), Aligned(m), NEW r \in Seq(T), Len(r) < BlockSize
    PROVE  LET a == Len(Join(m, r)) \div BlockSize
           IN /\ a \in Nat /\ Blocks(m, a) /\ At(Len(Join(m, r)), a, r)
<1> DEFINE n == Len(m)
           a == n \div BlockSize
<1>1. n \in Nat /\ Len(r) \in 0..BlockSize - 1 /\ n % BlockSize = 0
  BY BlockConstants DEF Aligned
<1>2. Len(Join(m, r)) = n + Len(r)
  BY JoinLengths
<1>3. a \in Nat /\ n = BlockSize * a
  <2> HIDE DEF n
  <2>1. a \in Nat /\ n = BlockSize * a + 0
    BY <1>1, BlocksAndRest
  <2> HIDE DEF a
  <2> QED BY <1>1, <2>1, BlockConstants
<1> HIDE DEF n, a
<1>4. (n + Len(r)) \div BlockSize = a
  BY <1>1, <1>3, OnlyOnePlace
<1> QED
  BY <1>2, <1>3, <1>4 DEF Blocks, At, n

\* A counter that moves by less than its modulus does not come round.
LEMMA NoComingRound ==
    ASSUME NEW D \in Nat \ {0}, NEW n \in 0..D - 1, NEW x \in 0..D - 1, NEW y \in 0..D - 1,
           (n + x) % D = (n + y) % D
    PROVE  x = y
<1>1. \A z \in 0..D - 1 : (n + z) % D = IF n + z < D THEN n + z ELSE n + z - D
  <2> TAKE z \in 0..D - 1
  <2>1. CASE n + z < D
    <3>1. n + z \in 0..D - 1 /\ D * 0 + (n + z) = n + z /\ 0 \in Nat
      BY <2>1
    <3>2. (D * 0 + (n + z)) % D = n + z
      BY <3>1, OnlyOneQuotient
    <3> QED BY <2>1, <3>1, <3>2
  <2>2. CASE ~(n + z < D)
    <3>1. n + z - D \in 0..D - 1 /\ D * 1 + (n + z - D) = n + z /\ 1 \in Nat
      BY <2>2
    <3>2. (D * 1 + (n + z - D)) % D = n + z - D
      BY <3>1, OnlyOneQuotient
    <3> QED BY <2>2, <3>1, <3>2
  <2> QED BY <2>1, <2>2
<1> DEFINE a == (n + x) % D
           b == (n + y) % D
<1>2. a = (IF n + x < D THEN n + x ELSE n + x - D)
  BY <1>1
<1>3. b = (IF n + y < D THEN n + y ELSE n + y - D)
  BY <1>1
<1>4. a = b
  OBVIOUS
<1> HIDE DEF a, b
<1> QED
  BY <1>2, <1>3, <1>4
=============================================================================
