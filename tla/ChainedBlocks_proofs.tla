------------------------ MODULE ChainedBlocks_proofs -------------------------
(* Proofs about the contexts that chain the blocks of a message: the hash and *)
(* HMAC contexts, which implement one call on the whole message, and the two  *)
(* modes whose MAC is a chain of cipher blocks, AES-CMAC and AES-CCM. They    *)
(* hold for every block size and every cutting of input and output.          *)
EXTENDS HMACStream, AESCMAC, AESCCM, ByteBlocks_proofs

-----------------------------------------------------------------------------
(* Hash and HMAC. *)

\* The operators on bytes and blocks are the same on both sides.
LEMMA HashSameOperators ==
    /\ \A s : HashOneCall!WholeBlocks(s) = WholeBlocks(s)
    /\ \A n : HashOneCall!Zeros(n) = Zeros(n)
    /\ \A a, b : HashOneCall!Xor(a, b) = Xor(a, b)
    /\ \A s, k : HashOneCall!Take(s, k) = Take(s, k)
<1>1. \A s, k : HashOneCall!Take(s, k) = Take(s, k)
  BY DEF Take, HashOneCall!Take, Lesser, HashOneCall!Lesser
<1>2. \A n : HashOneCall!Zeros(n) = Zeros(n)
  BY DEF Zeros, HashOneCall!Zeros
<1>3. \A a, b : HashOneCall!Xor(a, b) = Xor(a, b)
  BY DEF Xor, HashOneCall!Xor
<1>4. \A s : HashOneCall!WholeBlocks(s) = WholeBlocks(s)
  BY DEF WholeBlocks, HashOneCall!WholeBlocks
<1> QED
  BY <1>1, <1>2, <1>3, <1>4

-----------------------------------------------------------------------------
(* Squeezing. *)

\* Bytes from + 1 to from + n of the output for the blocks chain.
Output(chain, from, n) == [i \in 1..n |-> {<<"digest", chain, from + i>>}]

\* The blocks of output used up, and the bytes of the last one.
LEMMA SqueezedPlace ==
    ASSUME NEW p \in Nat, NEW q \in 0..BlockSize, NEW n \in Nat, n > BlockSize - q
    PROVE  LET k == n - (BlockSize - q)
           IN /\ k \in Nat \ {0}
              /\ (k + BlockSize - 1) \div BlockSize \in Nat
              /\ ((q + n - 1) % BlockSize) + 1 \in 1..BlockSize
              /\ (p + ((k + BlockSize - 1) \div BlockSize)) * BlockSize
                   + (((q + n - 1) % BlockSize) + 1) = p * BlockSize + q + n
<1> DEFINE B == BlockSize
           k == n - (B - q)
           a == (k - 1) \div B
           b == (k - 1) % B
<1>1. B \in Nat \ {0} /\ k \in Nat \ {0} /\ k - 1 \in Nat
  BY BlockConstants
<1>2. a \in Nat /\ b \in 0..B - 1 /\ k - 1 = B * a + b
  <2> HIDE DEF k
  <2> QED BY <1>1, BlocksAndRest
<1>3. q + n - 1 = (k - 1) + B /\ k + B - 1 = (k - 1) + B
  BY <1>1
<1> HIDE DEF a, b
<1>4. (k - 1) + B = B * (a + 1) + b
  <2> HIDE DEF k
  <2> QED BY <1>1, <1>2
<1>5. a + 1 \in Nat
  BY <1>2
<1>6. (B * (a + 1) + b) \div B = a + 1 /\ (B * (a + 1) + b) % B = b
  BY <1>2, <1>5, OnlyOnePlace
<1>7. (k + B - 1) \div B = a + 1 /\ (q + n - 1) % B = b
  BY <1>3, <1>4, <1>6
<1>8. (p + (a + 1)) * B + (b + 1) = p * B + q + n
  <2>1. n = (k - 1) + 1 + B - q
    BY <1>1
  <2> HIDE DEF k
  <2>2. n = B * a + b + 1 + B - q
    BY <1>1, <1>2, <2>1
  <2> QED BY <1>1, <1>2, <2>2
<1> QED
  BY <1>1, <1>2, <1>5, <1>7, <1>8

\* Where byte i of the blocks after the first is in the output.
LEMMA SqueezedByte ==
    ASSUME NEW p \in Nat, NEW i \in Nat \ {0}
    PROVE  /\ (i - 1) \div BlockSize \in Nat
           /\ (p + 1 + ((i - 1) \div BlockSize)) * BlockSize + ((i - 1) % BlockSize) + 1
                = p * BlockSize + BlockSize + i
<1> DEFINE B == BlockSize
           l == i - 1
           a == l \div B
           b == l % B
<1>1. B \in Nat \ {0} /\ l \in Nat /\ i = l + 1
  BY BlockConstants
<1>2. a \in Nat /\ b \in 0..B - 1 /\ l = B * a + b
  <2> HIDE DEF l
  <2> QED BY <1>1, BlocksAndRest
<1> HIDE DEF a, b, l
<1>3. (p + 1 + a) * B + b + 1 = p * B + B + i
  BY <1>1, <1>2
<1> QED
  BY <1>2, <1>3 DEF a, b, l

\* cpHashSqueeze returns the next n bytes of one output stream, and remembers
\* where it stopped.
LEMMA SqueezeIsOutput ==
    ASSUME NEW chain, NEW p \in Nat, NEW q \in 0..BlockSize, NEW n \in Nat
    PROVE  LET r == cpHashSqueeze([chain |-> chain, perms |-> p], q, n)
           IN /\ r.bytes = Output(chain, p * BlockSize + q, n)
              /\ r.value = [chain |-> chain, perms |-> r.value.perms]
              /\ r.value.perms \in Nat
              /\ n > 0 => /\ r.squeezed \in 1..BlockSize
                          /\ r.value.perms * BlockSize + r.squeezed = p * BlockSize + q + n
<1> DEFINE B == BlockSize
           v == [chain |-> chain, perms |-> p]
           first == Lesser(n, B - q)
           more == (n - first + B - 1) \div B
           x == hashOctStr(v, q, first)
           y == [i \in 1..n - first |->
                   hashOctStr([v EXCEPT !.perms = @ + 1 + ((i - 1) \div B)], (i - 1) % B, 1)[1]]
           r == cpHashSqueeze(v, q, n)
<1>1. B \in Nat \ {0} /\ q \in 0..B
  BY BlockConstants
<1>2. first \in 0..n /\ first = (IF n < B - q THEN n ELSE B - q)
  BY <1>1 DEF Lesser
<1>3. /\ r.bytes = x \o y /\ r.value = [v EXCEPT !.perms = @ + more]
      /\ r.squeezed = IF q + n = 0 THEN 0 ELSE ((q + n - 1) % B) + 1
  BY DEF cpHashSqueeze
<1> HIDE DEF first, r
<1>4. more \in Nat /\ (n > 0 => /\ r.squeezed \in 1..B
                                /\ (p + more) * B + r.squeezed = p * B + q + n)
  <2>1. CASE n > B - q
    <3>1. first = B - q
      BY <1>1, <1>2, <2>1
    <3>2. q + n # 0
      BY <1>1, <2>1
    <3> DEFINE k == n - (B - q)
               e == (k + B - 1) \div B
               g == ((q + n - 1) % B) + 1
    <3>3. e \in Nat /\ g \in 1..B /\ (p + e) * B + g = p * B + q + n
      BY <2>1, SqueezedPlace
    <3>4. more = e /\ r.squeezed = g
      BY <1>3, <3>1, <3>2
    <3> HIDE DEF more, e, g
    <3> QED BY <3>3, <3>4
  <2>2. CASE n <= B - q
    <3>1. first = n
      BY <1>1, <1>2, <2>2
    <3>2. n - first + B - 1 = B * 0 + (B - 1) /\ B - 1 \in 0..B - 1
      BY <1>1, <3>1
    <3>3. (B * 0 + (B - 1)) \div B = 0
      <4> DEFINE e == B - 1
      <4>1. e \in 0..B - 1 /\ 0 \in Nat
        BY <3>2
      <4> HIDE DEF e
      <4> QED BY <4>1, OnlyOnePlace DEF e
    <3>4. more = 0
      BY <3>2, <3>3
    <3>5. n > 0 => r.squeezed = q + n /\ q + n \in 1..B
      <4> SUFFICES ASSUME n > 0 PROVE r.squeezed = q + n /\ q + n \in 1..B
        OBVIOUS
      <4> DEFINE e == q + n - 1
      <4>1. e \in 0..B - 1 /\ 0 \in Nat /\ e = B * 0 + e /\ q + n # 0 /\ e + 1 = q + n
        BY <1>1, <2>2
      <4>2. r.squeezed = (e % B) + 1
        BY <1>3, <4>1
      <4> HIDE DEF e
      <4>3. (B * 0 + e) % B = e
        BY <4>1, OnlyOnePlace
      <4>4. r.squeezed = e + 1
        BY <4>1, <4>2, <4>3
      <4> QED BY <1>1, <2>2, <4>1, <4>4
    <3> HIDE DEF more
    <3> QED BY <1>1, <3>4, <3>5
  <2> HIDE DEF more
  <2> QED BY <1>1, <2>1, <2>2
<1>5. r.value = [chain |-> chain, perms |-> p + more]
  <2> HIDE DEF more
  <2> QED BY <1>3
<1>6. x \o y = Output(chain, p * B + q, n)
  <2> DEFINE byte(k) == {<<"digest", chain, k>>}
             T == {byte(k) : k \in Int}
             f == p * B + q
             o == Output(chain, f, n)
  <2>1. f \in Nat /\ p * B \in Nat
    BY <1>1
  <2>2. x = [i \in 1..first |-> byte(f + i)]
    <3>1. v.chain = chain /\ v.perms = p
      OBVIOUS
    <3> HIDE DEF v
    <3> QED BY <3>1 DEF hashOctStr
  <2>3. y = [i \in 1..n - first |-> byte(f + first + i)]
    <3>1. ASSUME NEW i \in 1..n - first
          PROVE  hashOctStr([v EXCEPT !.perms = @ + 1 + ((i - 1) \div B)], (i - 1) % B, 1)[1]
                   = byte(f + first + i)
      <4> DEFINE d == (i - 1) \div B
                 e == (i - 1) % B
                 w == [v EXCEPT !.perms = @ + 1 + d]
      <4>1. i \in Nat \ {0}
        BY <1>2
      <4>2. (p + 1 + d) * B + e + 1 = p * B + B + i
        BY <4>1, SqueezedByte
      <4>3. first = B - q
        BY <1>1, <1>2
      <4>4. p * B + B + i = f + first + i
        BY <1>1, <2>1, <4>1, <4>3
      <4>5. w.chain = chain /\ w.perms = p + 1 + d
        <5> HIDE DEF d
        <5> QED OBVIOUS
      <4> HIDE DEF d, e, w, f
      <4>6. hashOctStr(w, e, 1)[1] = byte((p + 1 + d) * B + e + 1)
        BY <4>5 DEF hashOctStr
      <4>7. hashOctStr(w, e, 1)[1] = byte(f + first + i)
        BY <4>2, <4>4, <4>6
      <4> QED BY <4>7 DEF w, d, e
    <3> HIDE DEF f
    <3> QED BY <3>1
  <2> HIDE DEF x, y, v
  <2>4. \A k \in Int : byte(k) \in T
    OBVIOUS
  <2> HIDE DEF T
  <2>5. /\ x \in Seq(T) /\ Len(x) = first /\ y \in Seq(T) /\ Len(y) = n - first
        /\ \A i \in 1..first : x[i] = byte(f + i)
        /\ \A i \in 1..n - first : y[i] = byte(f + first + i)
    <3>1. \A i \in 1..first : byte(f + i) \in T
      BY <1>2, <2>1, <2>4
    <3>2. \A i \in 1..n - first : byte(f + first + i) \in T
      BY <1>2, <2>1, <2>4
    <3>3. first \in Nat /\ n - first \in Nat
      BY <1>2
    <3> HIDE DEF byte, f
    <3> QED BY <2>2, <2>3, <3>1, <3>2, <3>3
  <2>6. o \in Seq(T) /\ Len(o) = n /\ \A i \in 1..n : o[i] = byte(f + i)
    <3>1. \A i \in 1..n : byte(f + i) \in T
      BY <2>1, <2>4
    <3> HIDE DEF f
    <3> QED BY <3>1 DEF Output
  <2> HIDE DEF byte, f, o
  <2>7. /\ Len(x \o y) = Len(x) + Len(y) /\ x \o y \in Seq(T)
        /\ \A i \in 1..Len(x) + Len(y) : (x \o y)[i] = IF i <= Len(x) THEN x[i] ELSE y[i - Len(x)]
    BY <2>5, ConcatProperties
  <2> DEFINE z == x \o y
  <2>8. Len(z) = n /\ z \in Seq(T)
    BY <1>2, <2>5, <2>7
  <2>9. ASSUME NEW i \in 1..n PROVE z[i] = o[i]
    <3>1. i \in 1..Len(x) + Len(y)
      BY <1>2, <2>5
    <3>2. z[i] = IF i <= Len(x) THEN x[i] ELSE y[i - Len(x)]
      BY <2>7, <3>1
    <3> HIDE DEF z
    <3>3. CASE i <= first
      BY <1>2, <2>5, <2>6, <3>2, <3>3
    <3>4. CASE i > first
      <4>1. i - first \in 1..n - first /\ f + first + (i - first) = f + i
        <5> USE DEF f
        <5> QED BY <1>2, <2>1, <3>4
      <4>2. z[i] = y[i - first]
        BY <1>2, <2>5, <3>2, <3>4
      <4> QED BY <2>5, <2>6, <4>1, <4>2
    <3> QED BY <1>2, <3>3, <3>4
  <2> HIDE DEF z
  <2>10. z = o
    BY <2>6, <2>8, <2>9, SeqEqual
  <2> QED BY <2>10 DEF z, o, f
<1> QED
  <2> HIDE DEF more, x, y
  <2>1. r.bytes = Output(chain, p * B + q, n)
    BY <1>3, <1>6
  <2>2. r.value.perms = p + more /\ p + more \in Nat
    BY <1>4, <1>5
  <2>3. r.value = [chain |-> chain, perms |-> r.value.perms]
    BY <1>5, <2>2
  <2> QED
    BY <1>4, <2>1, <2>2, <2>3 DEF r

-----------------------------------------------------------------------------
(* Padding. *)

\* How many zeros fill the last block, or the two last blocks.
LEMMA ZerosNeeded ==
    ASSUME NEW n \in Nat, NEW L \in 0..BlockSize - 1, NEW k, k = n % BlockSize,
           NEW size, size = IF k < BlockSize - L THEN BlockSize ELSE 2 * BlockSize
    PROVE  /\ k \in 0..BlockSize - 1 /\ k + 1 + L <= size
           /\ (BlockSize - ((n + 1 + L) % BlockSize)) % BlockSize = size - (k + 1) - L
<1> DEFINE B == BlockSize
           q == n \div B
           used == n + 1 + L
<1>1. B \in Nat \ {0} /\ L \in Nat
  BY BlockConstants
<1>2. q \in Nat /\ k \in 0..B - 1 /\ n = B * q + k
  BY BlocksAndRest
<1> HIDE DEF q
<1>3. 0 \in Nat /\ q + 1 \in Nat
  BY <1>2
<1>4. CASE k + 1 + L < B
  <2> DEFINE e == k + 1 + L
             d == B - e
  <2>1. e \in 0..B - 1 /\ d \in 0..B - 1 /\ used = B * q + e
    BY <1>1, <1>2, <1>4
  <2>2. size = B /\ e <= size /\ d = size - (k + 1) - L
    BY <1>1, <1>2, <1>4
  <2> HIDE DEF e, used
  <2>3. used % B = e
    BY <1>2, <2>1, OnlyOnePlace
  <2> HIDE DEF d
  <2>4. (B * 0 + d) % B = d
    BY <1>3, <2>1, OnlyOnePlace
  <2>5. B * 0 + d = d
    BY <1>1, <2>1
  <2>6. (B - (used % B)) % B = d
    BY <2>3, <2>4, <2>5 DEF d
  <2> QED BY <1>2, <2>2, <2>6 DEF e, used
<1>5. CASE k + 1 + L = B
  <2>1. used = B * (q + 1) + 0 /\ 0 \in 0..B - 1
    BY <1>1, <1>2, <1>5
  <2>2. size = B /\ 0 = size - (k + 1) - L /\ k + 1 + L <= size
    BY <1>1, <1>2, <1>5
  <2> HIDE DEF used
  <2>3. used % B = 0
    BY <1>3, <2>1, OnlyOnePlace
  <2>4. 1 \in Nat /\ (B * 1 + 0) % B = 0 /\ B * 1 + 0 = B - 0
    BY <1>1, <2>1, OnlyOnePlace
  <2>5. (B - (used % B)) % B = 0
    BY <2>3, <2>4
  <2> QED BY <1>2, <2>2, <2>5 DEF used
<1>6. CASE k + 1 + L > B
  <2> DEFINE e == k + 1 + L - B
             d == B - e
  <2>1. e \in 0..B - 1 /\ d \in 0..B - 1 /\ used = B * (q + 1) + e
    BY <1>1, <1>2, <1>6
  <2>2. size = 2 * B /\ k + 1 + L <= size /\ d = size - (k + 1) - L
    BY <1>1, <1>2, <1>6
  <2> HIDE DEF e, used
  <2>3. used % B = e
    BY <1>3, <2>1, OnlyOnePlace
  <2> HIDE DEF d
  <2>4. (B * 0 + d) % B = d
    BY <1>3, <2>1, OnlyOnePlace
  <2>5. B * 0 + d = d
    BY <1>1, <2>1
  <2>6. (B - (used % B)) % B = d
    BY <2>3, <2>4, <2>5 DEF d
  <2> QED BY <1>2, <2>2, <2>6 DEF used
<1> QED
  <2> HIDE DEF used
  <2> QED BY <1>1, <1>2, <1>4, <1>5, <1>6

\* The padding cpFinalize_rmf processes after the blocks of the context.
PadOf(h) ==
    LET mrl  == IF h.method = "shake" THEN 0 ELSE LenBytes
        size == IF h.idx < BlockSize - mrl THEN BlockSize ELSE 2 * BlockSize
        text == CopyAt(Zeros(size), 0, Take(h.buff, h.idx))
    IN IF h.method = "shake"
       THEN XorAt(XorAt(text, h.idx, <<{<<"0x1F">>}>>), BlockSize - 1, <<{<<"0x80">>}>>)
       ELSE CopyAt(CopyAt(text, h.idx, <<{<<"0x80">>}>>), size - mrl,
                   [i \in 1..mrl |-> {<<"len", h.lenHi, h.lenLo, i>>}])

\* The bytes it is made of.
PadBytes(hi, lo) ==
    {{}, {<<"0x80">>}, {<<"0x1F">>}, Xor({<<"0x1F">>}, {<<"0x80">>}), Xor({}, {<<"0x80">>})}
       \cup {{<<"len", hi, lo, i>>} : i \in 1..LenBytes}

\* SHA: what is left of the message, 0x80, zeros and the length of the message
\* fill one block or two.
LEMMA ShaPadding ==
    ASSUME NEW U, NEW h, PadBytes(h.lenHi, h.lenLo) \subseteq U, h.method = "sha",
           NEW m \in Seq(U), Aligned(m), NEW r \in Seq(U), Len(r) = h.idx, h.idx < BlockSize,
           Take(h.buff, h.idx) = r,
           h.lenHi = Len(Join(m, r)) \div LenWord, h.lenLo = Len(Join(m, r)) % LenWord
    PROVE  /\ PadOf(h) \in Seq(U)
           /\ HashOneCall!Padded("sha", Join(m, r)) = Join(m, PadOf(h))
<1> DEFINE B    == BlockSize
           L    == LenBytes
           k    == h.idx
           n    == Len(Join(m, r))
           size == IF k < B - L THEN B ELSE 2 * B
           z    == <<{<<"0x80">>}>>
           l    == [i \in 1..L |-> {<<"len", h.lenHi, h.lenLo, i>>}]
           e    == Join(r, z)
           zs   == Zeros(size - Len(e) - Len(l))
<1>1. B \in Nat \ {0} /\ L \in 0..B - 1 /\ L \in Nat /\ k \in Nat
  BY BlockConstants, HashConstants
<1>2. z \in Seq(U) /\ Len(z) = 1 /\ {} \in U
  BY DEF PadBytes
<1>3. l \in Seq(U) /\ Len(l) = L
  BY <1>1 DEF PadBytes
<1> HIDE DEF z, l
<1>4. e \in Seq(U) /\ Len(e) = k + 1
  <2>1. r \in Seq(U)
    OBVIOUS
  <2>2. e \in Seq(U) /\ Len(e) = Len(r) + Len(z)
    BY <1>2, <2>1, JoinLengths
  <2> QED BY <1>1, <1>2, <2>2
<1>5. n \in Nat /\ n % B = k /\ Join(m, r) \in Seq(U)
  BY <1>1, OpenBlockLength, JoinLengths
<1> HIDE DEF n
<1>6. /\ k + 1 + L <= size
      /\ (B - ((n + 1 + L) % B)) % B = size - (k + 1) - L
  <2>1. size = IF k < B - L THEN B ELSE 2 * B
    OBVIOUS
  <2>2. n \in Nat /\ L \in 0..B - 1 /\ k = n % B
    BY <1>1, <1>5
  <2> HIDE DEF size, k, L
  <2> QED BY <2>1, <2>2, ZerosNeeded, Zenon
<1>7. size \in Nat
  BY <1>1
<1> HIDE DEF size
<1>8. PadOf(h) = CopyAt(CopyAt(CopyAt(Zeros(size), 0, r), k, z), size - L, l)
  BY DEF PadOf, size, z, l
<1>9. CopyAt(CopyAt(Zeros(size), 0, r), k, z) = CopyAt(Zeros(size), 0, e)
  <2>1. DOMAIN Zeros(size) = 1..size
    BY DEF Zeros
  <2>2. CopyAt(CopyAt(Zeros(size), 0, r), Len(r), z) = CopyAt(Zeros(size), 0, r \o z)
    BY <1>2, <1>7, <2>1, CopyTwice
  <2> QED BY <2>2 DEF Join
<1> HIDE DEF e
<1>10. /\ CopyAt(CopyAt(Zeros(size), 0, e), size - Len(l), l) = Join(e, Join(zs, l))
       /\ zs \in Seq(U)
  <2>1. Len(e) + Len(l) <= size
    BY <1>1, <1>3, <1>4, <1>6, <1>7
  <2> QED BY <1>2, <1>3, <1>4, <1>7, <2>1, CopyEnds
<1>11. PadOf(h) = Join(e, Join(zs, l))
  BY <1>3, <1>8, <1>9, <1>10
<1>12. zs = Zeros(size - (k + 1) - L)
  BY <1>3, <1>4
<1> HIDE DEF zs
<1>13. HashOneCall!Padded("sha", Join(m, r)) = Join(Join(Join(Join(m, r), z), zs), l)
  <2>1. HashOneCall!Padded("sha", Join(m, r))
          = Join(m, r) \o z \o Zeros((B - ((n + 1 + L) % B)) % B) \o l
    BY HashSameOperators DEF HashOneCall!Padded, n, z, l
  <2> QED BY <1>6, <1>12, <2>1 DEF Join
<1>14. Join(Join(Join(Join(m, r), z), zs), l) = Join(m, Join(e, Join(zs, l)))
  <2>1. Join(r, z) = e
    BY DEF e
  <2>2. Join(Join(m, r), z) = Join(m, e)
    BY <1>2, <2>1, JoinAssociative
  <2>3. Join(m, e) \in Seq(U) /\ Join(zs, l) \in Seq(U)
    BY <1>3, <1>4, <1>10, ConcatProperties DEF Join
  <2>4. Join(Join(Join(m, e), zs), l) = Join(Join(m, e), Join(zs, l))
    BY <1>3, <1>10, <2>3, JoinAssociative
  <2>5. Join(Join(m, e), Join(zs, l)) = Join(m, Join(e, Join(zs, l)))
    BY <1>4, <2>3, JoinAssociative
  <2> QED BY <2>2, <2>4, <2>5
<1>15. Join(e, Join(zs, l)) \in Seq(U)
  <2>1. zs \o l \in Seq(U)
    BY <1>3, <1>10, ConcatProperties
  <2> DEFINE zl == zs \o l
  <2> HIDE DEF zl
  <2>2. e \o zl \in Seq(U)
    BY <1>4, <2>1, ConcatProperties DEF zl
  <2> QED BY <2>2 DEF Join, zl
<1> QED
  BY <1>11, <1>13, <1>14, <1>15

\* SHAKE: what is left of the message and 0x1F, zeros, and 0x80 XORed into the
\* last byte, which may be that of 0x1F.
LEMMA ShakePadding ==
    ASSUME NEW U, NEW h, PadBytes(h.lenHi, h.lenLo) \subseteq U, h.method = "shake",
           NEW m \in Seq(U), Aligned(m), NEW r \in Seq(U), Len(r) = h.idx, h.idx < BlockSize,
           Take(h.buff, h.idx) = r
    PROVE  /\ PadOf(h) \in Seq(U)
           /\ HashOneCall!Padded("shake", Join(m, r)) = Join(m, PadOf(h))
<1> DEFINE B    == BlockSize
           k    == h.idx
           n    == Len(Join(m, r))
           x80  == {<<"0x80">>}
           z    == <<{<<"0x1F">>}>>
           e    == Join(r, z)
           zs   == Zeros(B - (k + 1))
           f    == Join(e, zs)
           y    == Xor(f[B], x80)
<1>1. B \in Nat \ {0} /\ k \in 0..B - 1
  BY BlockConstants
<1>2. z \in Seq(U) /\ Len(z) = 1 /\ {} \in U /\ z[1] = {<<"0x1F">>}
  BY DEF PadBytes
<1>3. Xor({}, {<<"0x1F">>}) = {<<"0x1F">>}
  BY DEF Xor
<1>4. e \in Seq(U) /\ Len(e) = k + 1 /\ e[k + 1] = {<<"0x1F">>}
  <2>1. e \in Seq(U) /\ Len(e) = Len(r) + Len(z) /\ e[Len(r) + 1] = z[1]
    <3> HIDE DEF z
    <3>1. Len(z) > 0
      BY <1>2
    <3> QED BY <1>2, <3>1, JoinLengths
  <2> HIDE DEF e, z
  <2> QED BY <1>1, <1>2, <2>1
<1>5. n \in Nat /\ n % B = k /\ Join(m, r) \in Seq(U)
  BY <1>1, OpenBlockLength, JoinLengths
<1> HIDE DEF n
<1>6. (B - ((n + 1 + 0) % B)) % B = B - (k + 1)
  <2>1. 0 \in 0..B - 1 /\ (IF k < B - 0 THEN B ELSE 2 * B) = B
    BY <1>1
  <2> DEFINE w == (B - ((n + 1 + 0) % B)) % B
  <2>2. w = B - (k + 1) - 0
    BY <1>5, <2>1, ZerosNeeded
  <2> HIDE DEF w
  <2>3. w = B - (k + 1)
    BY <1>1, <2>2
  <2> QED BY <2>3 DEF w
<1> HIDE DEF z
<1>7. CopyAt(Zeros(B), 0, e) = f /\ zs \in Seq(U)
  <2> DEFINE d == <<>>
  <2>1. d \in Seq(U) /\ Len(d) = 0 /\ Len(e) + Len(d) <= B /\ B \in Nat
    BY <1>1, <1>4, EmptySeq
  <2>2. zs = Zeros(B - Len(e) - Len(d))
    BY <1>1, <1>4, <2>1
  <2>3. \A s \in Seq(U) : s \o d = s
    BY ConcatEmptySeq
  <2>4. \A b : CopyAt(b, B - Len(d), d) = [i \in DOMAIN b |-> b[i]]
    BY <2>1 DEF CopyAt
  <2> HIDE DEF d, e, zs
  <2>5. /\ CopyAt(CopyAt(Zeros(B), 0, e), B - Len(d), d) = Join(e, Join(zs, d))
        /\ zs \in Seq(U)
    <3>1. {} \in U /\ e \in Seq(U)
      BY <1>2, <1>4
    <3> QED BY <2>1, <2>2, <3>1, CopyEnds
  <2>6. Join(zs, d) = zs
    BY <2>3, <2>5 DEF Join
  <2>7. CopyAt(CopyAt(Zeros(B), 0, e), B - Len(d), d) = CopyAt(Zeros(B), 0, e)
    BY <2>4 DEF CopyAt
  <2> QED BY <2>5, <2>6, <2>7
<1>8. XorAt(CopyAt(Zeros(B), 0, r), k, z) = CopyAt(Zeros(B), 0, e)
  <2> DEFINE b == CopyAt(Zeros(B), 0, r)
  <2>1. DOMAIN b = 1..B /\ DOMAIN Zeros(B) = 1..B
    BY DEF CopyAt, Zeros
  <2>2. \A i \in 1..B : i - k \in DOMAIN z => i = k + 1 /\ i - k = 1
    BY <1>1, <1>2
  <2>3. b[k + 1] = {}
    <3>1. k + 1 \in 1..B /\ k + 1 - 0 \notin DOMAIN r
      BY <1>1
    <3>2. b[k + 1] = Zeros(B)[k + 1]
      BY <2>1, <3>1 DEF CopyAt
    <3> QED BY <3>1, <3>2 DEF Zeros
  <2> HIDE DEF b, z
  <2>4. XorAt(b, k, z) = CopyAt(b, k, z)
    BY <1>2, <1>3, <2>1, <2>2, <2>3 DEF XorAt, CopyAt
  <2>5. CopyAt(CopyAt(Zeros(B), 0, r), Len(r), z) = CopyAt(Zeros(B), 0, r \o z)
    BY <1>1, <1>2, <2>1, CopyTwice
  <2> QED BY <2>4, <2>5 DEF b, e, Join
<1> HIDE DEF e, zs
<1>9. f \in Seq(U) /\ Len(f) = B
  <2>1. Len(zs) = B - (k + 1)
    BY <1>1 DEF Zeros, zs
  <2>2. f \in Seq(U) /\ Len(f) = Len(e) + Len(zs)
    BY <1>4, <1>7, ConcatProperties DEF Join
  <2> HIDE DEF f
  <2> QED BY <1>1, <1>4, <2>1, <2>2
<1>10. y \in U
  <2>1. f[B] = {<<"0x1F">>} \/ f[B] = {}
    <3>1. f = CopyAt(Zeros(B), 0, e)
      BY <1>7
    <3>2. f[B] = IF B \in DOMAIN e THEN e[B] ELSE {}
      <4>1. B \in 1..B /\ B - 0 = B
        BY <1>1
      <4> QED BY <3>1, <4>1 DEF CopyAt, Zeros
    <3>3. B \in DOMAIN e => B = k + 1
      BY <1>1, <1>4
    <3> QED BY <1>4, <3>2, <3>3
  <2> HIDE DEF f
  <2> QED BY <2>1 DEF PadBytes
<1>11. PadOf(h) = XorAt(XorAt(CopyAt(Zeros(B), 0, r), k, z), B - 1, <<x80>>)
  <2>1. (IF h.idx < B - 0 THEN B ELSE 2 * B) = B
    BY <1>1
  <2> QED BY <2>1 DEF PadOf, z
<1>12. PadOf(h) = [f EXCEPT ![Len(f)] = y]
  <2>1. PadOf(h) = XorAt(f, B - 1, <<x80>>)
    BY <1>7, <1>8, <1>11
  <2>2. DOMAIN f = 1..B
    BY <1>9
  <2>3. \A i \in 1..B : (i - (B - 1) \in DOMAIN <<x80>> <=> i = B)
    BY <1>1
  <2>4. B - (B - 1) = 1 /\ <<x80>>[1] = x80
    BY <1>1
  <2> HIDE DEF f, x80
  <2>5. XorAt(f, B - 1, <<x80>>) = [i \in 1..B |-> IF i = B THEN y ELSE f[i]]
    BY <2>2, <2>3, <2>4 DEF XorAt
  <2> QED BY <1>9, <2>1, <2>2, <2>5
<1> DEFINE j == Join(m, f)
<1> HIDE DEF f
<1>13. /\ [j EXCEPT ![Len(j)] = y] = Join(m, [f EXCEPT ![Len(f)] = y])
       /\ j[Len(j)] = f[B]
  <2> HIDE DEF y, j
  <2>1. Len(f) > 0
    BY <1>1, <1>9
  <2>2. LastReplaced(Join(m, f), y) = Join(m, LastReplaced(f, y))
    BY <1>9, <1>10, <2>1, ReplaceLastOfJoined
  <2>3. Join(m, f)[Len(Join(m, f))] = f[Len(f)]
    BY <1>9, <2>1, LastOfJoined
  <2> QED BY <1>9, <2>2, <2>3 DEF j, LastReplaced
<1>14. Join(Join(Join(m, r), z), zs) = j
  <2>1. Join(r, z) = e
    BY DEF e
  <2>2. Join(Join(m, r), z) = Join(m, e)
    BY <1>2, <2>1, JoinAssociative
  <2>3. Join(Join(m, e), zs) = Join(m, Join(e, zs))
    BY <1>4, <1>7, JoinAssociative
  <2> QED BY <2>2, <2>3 DEF f
<1>15. HashOneCall!Padded("shake", Join(m, r)) = [j EXCEPT ![Len(j)] = Xor(@, x80)]
  <2> DEFINE body == Join(m, r) \o z \o Zeros((B - ((n + 1 + 0) % B)) % B)
  <2>1. HashOneCall!Padded("shake", Join(m, r)) = [body EXCEPT ![Len(body)] = Xor(@, x80)]
    BY HashSameOperators DEF HashOneCall!Padded, n, z
  <2>2. body = j
    BY <1>6, <1>14 DEF Join, zs
  <2> QED BY <2>1, <2>2
<1>16. [f EXCEPT ![Len(f)] = y] \in Seq(U)
  <2> HIDE DEF y
  <2> QED BY <1>9, <1>10
<1> QED
  BY <1>12, <1>13, <1>15, <1>16

-----------------------------------------------------------------------------
(* A context that takes in a message. *)

\* A context is a record of its fields.
IsHash(h) ==
    /\ h = [id |-> h.id, state |-> h.state, method |-> h.method, buff |-> h.buff, idx |-> h.idx,
            squeezed |-> h.squeezed, lenLo |-> h.lenLo, lenHi |-> h.lenHi, value |-> h.value]
    /\ h.value = [chain |-> h.value.chain, perms |-> h.value.perms]

\* Whole blocks of the message are processed, the rest is in the buffer, never
\* a whole block, and the length is counted; nothing was squeezed out.
Absorbs(h, msg) ==
    /\ \E T, m, r : /\ {} \in T
                    /\ Holds(T, h.value.chain, h.buff, h.idx, m, r)
                    /\ msg = Join(m, r)
    /\ h.idx < BlockSize
    /\ h.lenLo = Len(msg) % LenWord /\ h.lenHi = Len(msg) \div LenWord
    /\ h.value.perms = 0 /\ h.squeezed = 0

\* Sequences of bytes are sequences of more bytes.
LEMMA HoldsMore ==
    ASSUME NEW T, NEW U, T \subseteq U, NEW chain, NEW buff, NEW index, NEW m, NEW r,
           Holds(T, chain, buff, index, m, r)
    PROVE  Holds(U, chain, buff, index, m, r)
<1>1. m \in Seq(U) /\ r \in Seq(U)
  BY DEF Holds
<1>2. buff \in Block(U)
  BY DEF Holds, Block
<1> QED
  BY <1>1, <1>2 DEF Holds

\* The count of the message's bytes, in two words: the low word wraps at most
\* once in a call, and is then less than it was.
LEMMA LengthCounted ==
    ASSUME NEW n \in Nat, NEW l \in 0..LenWord - 1
    PROVE  LET lo == ((n % LenWord) + l) % LenWord
           IN /\ lo = (n + l) % LenWord
              /\ (n + l) \div LenWord
                   = IF lo < n % LenWord THEN (n \div LenWord) + 1 ELSE n \div LenWord
<1> DEFINE W == LenWord
           a == n \div W
           b == n % W
           lo == (b + l) % W
<1>1. W \in Nat \ {0} /\ l \in Nat
  BY HashConstants
<1>2. a \in Nat /\ b \in 0..W - 1 /\ n = W * a + b
  BY <1>1, QuotientAndRest
<1>3. lo = (n + l) % W
  BY <1>1, AddAfterRest
<1> HIDE DEF a, b, lo
<1>4. CASE b + l < W
  <2> DEFINE e == b + l
  <2>1. e \in 0..W - 1 /\ n + l = W * a + e /\ ~(e < b)
    BY <1>1, <1>2, <1>4
  <2> HIDE DEF e
  <2>2. (n + l) \div W = a /\ (n + l) % W = e
    BY <1>1, <1>2, <2>1, OnlyOneQuotient
  <2> QED BY <1>3, <2>1, <2>2 DEF a, b, lo
<1>5. CASE b + l >= W
  <2> DEFINE e == b + l - W
             c == a + 1
  <2>1. e \in 0..W - 1 /\ n + l = W * c + e /\ e < b /\ c \in Nat
    BY <1>1, <1>2, <1>5
  <2> HIDE DEF e, c
  <2>2. (n + l) \div W = c /\ (n + l) % W = e
    BY <1>1, <1>2, <2>1, OnlyOneQuotient
  <2> QED BY <1>3, <2>1, <2>2 DEF a, b, lo, c
<1> QED
  BY <1>1, <1>2, <1>4, <1>5

\* ippsHashInit_rmf.
LEMMA HashInitAbsorbs ==
    ASSUME NEW h, h.value = InitialValue, h.idx = 0, h.squeezed = 0, h.lenLo = 0, h.lenHi = 0,
           NEW T, {} \in T, h.buff \in Block(T)
    PROVE  Absorbs(h, <<>>)
<1>1. <<>> \in Seq(T) /\ Len(<<>>) = 0 /\ 0 < BlockSize
  BY BlockConstants, EmptySeq
<1>2. Aligned(<<>>) /\ WholeBlocks(<<>>) = <<>>
  BY <1>1, AlignedLengths, NoBlock
<1>3. Holds(T, <<>>, h.buff, 0, <<>>, <<>>)
  BY <1>1, <1>2, NothingWaits
<1>4. <<>> = Join(<<>>, <<>>)
  BY <1>1, ConcatEmptySeq DEF Join
<1>5. h.value.chain = <<>> /\ h.value.perms = 0
  BY DEF InitialValue
<1>6. 0 % LenWord = 0 /\ 0 \div LenWord = 0
  <2>1. LenWord \in Nat \ {0} /\ 0 \in Nat /\ 0 \in 0..LenWord - 1 /\ LenWord * 0 + 0 = 0
    BY HashConstants
  <2>2. (LenWord * 0 + 0) % LenWord = 0 /\ (LenWord * 0 + 0) \div LenWord = 0
    BY <2>1, OnlyOneQuotient
  <2> QED BY <2>1, <2>2
<1> QED
  BY <1>1, <1>3, <1>4, <1>5, <1>6 DEF Absorbs

\* ippsHashUpdate_rmf: whatever the piece, the context has taken it in.
LEMMA HashUpdateAbsorbs ==
    ASSUME NEW h, IsHash(h), NEW msg, Absorbs(h, msg), NEW W, NEW s \in Seq(W), Len(s) < LenWord
    PROVE  /\ IsHash(HashUpdateOf(h, s)) /\ Absorbs(HashUpdateOf(h, s), msg \o s)
           /\ HashUpdateOf(h, s).state = "HashProcess"
           /\ HashUpdateOf(h, s).id = h.id /\ HashUpdateOf(h, s).method = h.method
<1> PICK T0, m, r : /\ {} \in T0
                    /\ Holds(T0, h.value.chain, h.buff, h.idx, m, r)
                    /\ msg = Join(m, r)
  BY DEF Absorbs
<1> DEFINE B == BlockSize
           T == T0 \cup W
           len == Len(s)
           loc == IF h.idx = 0 THEN 0 ELSE Lesser(len, B - h.idx)
           s1 == Take(s, loc)
           buff == CopyAt(h.buff, h.idx, s1)
           full == h.idx + loc = B
           v1 == IF full THEN hashUpdate(h.value, buff) ELSE h.value
           w == B * ((len - loc) \div B)
           s2 == Take(Drop(s, loc), w)
           rest == Drop(s, loc + w)
           lo == (h.lenLo + len) % LenWord
           g == [h EXCEPT !.state = "HashProcess", !.value = hashUpdate(v1, s2),
                          !.buff = CopyAt(buff, 0, rest),
                          !.idx = (IF full THEN 0 ELSE h.idx + loc) + Len(rest),
                          !.lenLo = lo, !.lenHi = IF lo < h.lenLo THEN @ + 1 ELSE @]
           k == [h EXCEPT !.state = "HashProcess"]
           u == HashUpdateOf(h, s)
<1>1. u = IF s = <<>> THEN k ELSE g
  BY DEF HashUpdateOf
<1> HIDE DEF u
<1>2. B \in Nat \ {0} /\ len \in Nat
  BY BlockConstants
<1>3. {} \in T /\ Holds(T, h.value.chain, h.buff, h.idx, m, r) /\ s \in Seq(T)
  <2>1. T0 \subseteq T /\ W \subseteq T
    OBVIOUS
  <2> HIDE DEF T
  <2>2. s \in Seq(T)
    BY <2>1
  <2> QED BY <2>1, <2>2, HoldsMore
<1> HIDE DEF T
<1>4. /\ h.idx \in 0..B - 1 /\ h.buff \in Block(T) /\ h.value.chain = WholeBlocks(m)
      /\ m \in Seq(T) /\ Aligned(m) /\ r \in Seq(T) /\ Len(r) = h.idx
  BY <1>2, <1>3 DEF Holds, Absorbs
<1>5. /\ h.lenLo = Len(msg) % LenWord /\ h.lenHi = Len(msg) \div LenWord
      /\ h.value.perms = 0 /\ h.squeezed = 0 /\ msg \in Seq(T) /\ Len(msg) \in Nat
  BY <1>4, JoinLengths DEF Absorbs
<1>6. CASE s = <<>>
  <2>1. u = k
    BY <1>1, <1>6
  <2>2. /\ u.id = h.id /\ u.state = "HashProcess" /\ u.method = h.method /\ u.buff = h.buff
        /\ u.idx = h.idx /\ u.squeezed = h.squeezed /\ u.lenLo = h.lenLo /\ u.lenHi = h.lenHi
        /\ u.value = h.value /\ IsHash(u)
    BY <2>1 DEF IsHash
  <2>3. msg \o s = msg
    BY <1>5, <1>6, ConcatEmptySeq
  <2>4. Absorbs(u, msg)
    <3>1. Absorbs(h, msg)
      OBVIOUS
    <3> QED BY <2>2, <3>1 DEF Absorbs
  <2> QED BY <2>2, <2>3, <2>4 DEF u
<1>7. CASE s # <<>>
  <2>1. /\ loc \in 0..len /\ h.idx + loc \in 0..B
        /\ h.idx # 0 => (loc = len \/ h.idx + loc = B)
        /\ h.idx = 0 => loc = 0
    BY <1>2, <1>4 DEF Lesser
  <2> HIDE DEF loc
  <2>2. /\ (len - loc) \div B \in Nat /\ w \in 0..len - loc /\ len - loc - w \in 0..B - 1
    <3> DEFINE q == (len - loc) \div B
               e == (len - loc) % B
    <3>1. len - loc \in Nat
      BY <1>2, <2>1
    <3> HIDE DEF len
    <3>2. q \in Nat /\ e \in 0..B - 1 /\ len - loc = B * q + e
      BY <3>1, BlocksAndRest
    <3> HIDE DEF q, e
    <3>3. w = B * q /\ B * q \in Nat
      BY <1>2, <3>2 DEF q
    <3> HIDE DEF w
    <3>4. w \in 0..len - loc /\ len - loc - w \in 0..B - 1
      BY <1>2, <3>1, <3>2, <3>3
    <3> QED BY <3>2, <3>4 DEF q
  <2> DEFINE d == Drop(s, loc)
  <2>3. s1 \in Seq(T) /\ Len(s1) = loc /\ d \in Seq(T) /\ Len(d) = len - loc /\ s = Join(s1, d)
    BY <1>3, <2>1, TakeDrop, TakeDropLengths DEF Join
  <2>4. /\ s2 \in Seq(T) /\ Len(s2) = w /\ rest \in Seq(T) /\ Len(rest) = len - loc - w
        /\ d = Join(s2, rest)
    <3> HIDE DEF w, d
    <3>1. /\ Take(d, w) \in Seq(T) /\ Len(Take(d, w)) = w /\ Drop(d, w) \in Seq(T)
          /\ Len(Drop(d, w)) = len - loc - w /\ d = Join(Take(d, w), Drop(d, w))
      <4> HIDE DEF len
      <4>1. w \in 0..Len(d)
        BY <2>2, <2>3
      <4>2. /\ Take(d, w) \in Seq(T) /\ Len(Take(d, w)) = w /\ Drop(d, w) \in Seq(T)
            /\ Len(Drop(d, w)) = Len(d) - w
        BY <2>3, <4>1, TakeDropLengths
      <4>3. d = Join(Take(d, w), Drop(d, w))
        BY <2>3, <4>1, TakeDrop DEF Join
      <4> QED BY <2>3, <4>2, <4>3
    <3>2. Drop(d, w) = rest
      BY <1>3, <2>1, <2>2, DropTwice DEF d
    <3> QED BY <3>1, <3>2 DEF d
  <2>5. Aligned(s2)
    <3> DEFINE q == (len - loc) \div B
    <3>1. q \in Nat /\ w = q * B
      BY <1>2, <2>2
    <3> HIDE DEF s2, q, w
    <3> QED BY <2>4, <3>1, AlignedLengths
  <2> HIDE DEF s1, s2, d, w, rest
  <2>6. Holds(T, h.value.chain, buff, h.idx + loc, m, Join(r, s1))
    <3>1. h.idx + Len(s1) <= B
      BY <1>2, <2>1, <2>3
    <3>2. Holds(T, h.value.chain, buff, h.idx + Len(s1), m, r \o s1)
      BY <1>3, <2>3, <3>1, KeepInBuffer
    <3> QED BY <2>3, <3>2 DEF Join
  <2> DEFINE e == Join(r, s1)
             i == h.idx + loc
  <2>7. e \in Seq(T) /\ buff \in Block(T) /\ Len(e) = i /\ m \in Seq(T)
    BY <2>6 DEF Holds
  <2>8. /\ u.id = h.id /\ u.state = "HashProcess" /\ u.method = h.method
        /\ u.buff = CopyAt(buff, 0, rest)
        /\ u.idx = (IF full THEN 0 ELSE i) + Len(rest) /\ u.squeezed = h.squeezed
        /\ u.lenLo = lo /\ u.lenHi = (IF lo < h.lenLo THEN h.lenHi + 1 ELSE h.lenHi)
        /\ u.value = hashUpdate(v1, s2)
    <3>1. u = g
      BY <1>1, <1>7
    <3> HIDE DEF buff, full, v1, lo
    <3> QED BY <3>1 DEF IsHash
  <2>9. IsHash(u)
    <3>1. u = g
      BY <1>1, <1>7
    <3>2. v1 = [chain |-> v1.chain, perms |-> v1.perms]
      BY DEF hashUpdate, IsHash
    <3> HIDE DEF buff, full, v1, lo
    <3>3. u.value = [chain |-> u.value.chain, perms |-> u.value.perms]
      BY <2>8, <3>2 DEF hashUpdate
    <3>4. u = [id |-> u.id, state |-> u.state, method |-> u.method, buff |-> u.buff,
               idx |-> u.idx, squeezed |-> u.squeezed, lenLo |-> u.lenLo, lenHi |-> u.lenHi,
               value |-> u.value]
      BY <3>1 DEF IsHash
    <3> QED BY <3>3, <3>4 DEF IsHash
  <2>10. u.value.chain = v1.chain \o WholeBlocks(s2) /\ u.value.perms = 0
    <3>1. v1 = [chain |-> v1.chain, perms |-> 0]
      BY <1>5 DEF hashUpdate, IsHash
    <3> HIDE DEF v1
    <3> QED BY <2>8, <3>1 DEF hashUpdate
  <2> HIDE DEF e, i, buff
  <2>11. Absorbs(u, msg \o s)
    <3>1. \E m2, r2 : /\ Holds(T, u.value.chain, u.buff, u.idx, m2, r2)
                      /\ Join(msg, s) = Join(m2, r2)
      <4>1. CASE full \/ i = 0
        <5>1. /\ Join(m, e) \in Seq(T) /\ Aligned(Join(m, e))
              /\ v1.chain = WholeBlocks(Join(m, e)) /\ u.idx = Len(rest)
          <6>1. CASE full
            <7>1. i = B /\ Holds(T, h.value.chain, buff, i, m, e)
              BY <2>6, <6>1 DEF e, i
            <7>2. /\ m \o e \in Seq(T) /\ Aligned(m \o e)
                  /\ h.value.chain \o WholeBlocks(buff) = WholeBlocks(m \o e)
              BY <7>1, ProcessBuffer
            <7>3. v1.chain = h.value.chain \o WholeBlocks(buff)
              BY <6>1 DEF hashUpdate, IsHash
            <7>4. u.idx = 0 + Len(rest) /\ Len(rest) \in Nat
              BY <2>4, <2>8, <6>1
            <7> QED BY <7>2, <7>3, <7>4 DEF Join
          <6>2. CASE i = 0
            <7>1. ~full
              BY <1>2, <6>2 DEF i
            <7>2. e = <<>> /\ Join(m, e) = m
              <8>1. e = <<>>
                BY <2>7, <6>2, EmptySeq
              <8>2. m \o <<>> = m
                BY <1>4, ConcatEmptySeq
              <8> QED BY <8>1, <8>2 DEF Join
            <7>3. u.idx = 0 + Len(rest) /\ Len(rest) \in Nat
              BY <2>4, <2>8, <6>2, <7>1
            <7> QED BY <1>4, <7>1, <7>2, <7>3
          <6> QED BY <4>1, <6>1, <6>2
        <5> DEFINE me == Join(m, e)
        <5> HIDE DEF me
        <5>2. me \in Seq(T) /\ Aligned(me) /\ v1.chain = WholeBlocks(me) /\ u.idx = Len(rest)
          BY <5>1 DEF me
        <5>3. /\ me \o s2 \in Seq(T) /\ Aligned(me \o s2)
              /\ u.value.chain = WholeBlocks(me \o s2)
          <6> HIDE DEF v1
          <6> QED BY <2>4, <2>5, <2>10, <5>2, ProcessWhole
        <5>4. Holds(T, u.value.chain, u.buff, u.idx, me \o s2, rest)
          <6>1. Holds(T, WholeBlocks(me \o s2), buff, 0, me \o s2, <<>>)
            BY <2>7, <5>3, NothingWaits
          <6>2. 0 + Len(rest) <= B /\ 0 + Len(rest) = Len(rest)
            BY <1>2, <2>2, <2>4
          <6>3. <<>> \o rest = rest
            BY <2>4, ConcatEmptySeq
          <6>4. Holds(T, WholeBlocks(me \o s2), CopyAt(buff, 0, rest), 0 + Len(rest),
                      me \o s2, <<>> \o rest)
            BY <2>4, <6>1, <6>2, KeepInBuffer
          <6> QED BY <2>8, <5>2, <5>3, <6>2, <6>3, <6>4
        <5>5. Join(msg, s) = Join(Join(me, s2), rest)
          <6>1. Join(Join(msg, s1), d) = Join(msg, Join(s1, d))
            BY <1>5, <2>3, JoinAssociative
          <6>2. Join(Join(m, r), s1) = Join(m, Join(r, s1))
            BY <1>4, <2>3, JoinAssociative
          <6>3. Join(Join(me, s2), rest) = Join(me, Join(s2, rest))
            BY <2>4, <5>2, JoinAssociative
          <6> QED BY <2>3, <2>4, <6>1, <6>2, <6>3 DEF me, e
        <5> QED BY <5>4, <5>5 DEF Join
      <4>2. CASE ~full /\ i # 0
        <5>1. h.idx # 0 /\ loc = len
          BY <2>1, <4>2, <1>2 DEF i
        <5>2. w = 0 /\ Len(rest) = 0 /\ Len(s2) = 0 /\ Len(d) = 0
          BY <1>2, <2>2, <2>3, <2>4, <5>1
        <5>3. rest = <<>> /\ s2 = <<>> /\ d = <<>>
          BY <2>3, <2>4, <5>2, EmptySeq
        <5>4. s1 = s
          <6>1. s1 \o <<>> = s1
            BY <2>3, ConcatEmptySeq
          <6> QED BY <2>3, <5>3, <6>1 DEF Join
        <5>5. u.value.chain = h.value.chain
          <6>1. WholeBlocks(<<>>) = <<>>
            <7>1. <<>> \in Seq(T) /\ Len(<<>>) < B
              BY <1>2, <2>4, <5>2, <5>3
            <7> QED BY <7>1, NoBlock
          <6>2. WholeBlocks(m) \in Seq(Block(T))
            BY <1>4, WholeBlocksBytes
          <6>3. WholeBlocks(m) \o <<>> = WholeBlocks(m)
            BY <6>2, ConcatEmptySeq
          <6> QED BY <1>4, <2>10, <4>2, <5>3, <6>1, <6>3
        <5>6. u.buff = buff /\ u.idx = i
          <6>1. CopyAt(buff, 0, <<>>) = buff
            <7>1. buff = [j \in DOMAIN buff |-> buff[j]]
              BY <2>7 DEF Block
            <7> QED BY <7>1 DEF CopyAt
          <6>2. i + 0 = i
            BY <1>2, <2>7
          <6> QED BY <2>8, <4>2, <5>2, <5>3, <6>1, <6>2
        <5>7. Join(msg, s) = Join(m, e)
          <6>1. Join(Join(m, r), s1) = Join(m, Join(r, s1))
            BY <1>4, <2>3, JoinAssociative
          <6> QED BY <5>4, <6>1 DEF e
        <5> QED BY <2>6, <5>5, <5>6, <5>7 DEF e, i
      <4> QED BY <4>1, <4>2
    <3>2. u.idx < B
      <4>1. CASE full \/ i = 0
        BY <1>2, <2>2, <2>4, <2>8, <4>1
      <4>2. CASE ~full /\ i # 0
        <5>1. Len(rest) = 0 /\ i \in 0..B - 1
          BY <1>2, <2>1, <2>2, <2>4, <4>2 DEF i
        <5> QED BY <1>2, <2>8, <4>2, <5>1
      <4> QED BY <4>1, <4>2
    <3>3. u.lenLo = Len(Join(msg, s)) % LenWord /\ u.lenHi = Len(Join(msg, s)) \div LenWord
      <4>1. len \in 0..LenWord - 1 /\ Len(Join(msg, s)) = Len(msg) + len
        BY <1>2, <1>3, <1>5, JoinLengths, HashConstants
      <4> DEFINE n == Len(msg)
      <4>2. n \in Nat
        BY <1>5
      <4> HIDE DEF len, n
      <4>3. /\ lo = (n + len) % LenWord
            /\ (n + len) \div LenWord
                 = IF lo < n % LenWord THEN (n \div LenWord) + 1 ELSE n \div LenWord
        BY <1>5, <4>1, <4>2, LengthCounted DEF n
      <4> QED BY <1>5, <2>8, <4>1, <4>3 DEF n
    <3>4. u.squeezed = 0
      BY <1>5, <2>8
    <3> HIDE DEF v1, lo
    <3> QED BY <1>3, <2>10, <3>1, <3>2, <3>3, <3>4 DEF Absorbs, Join
  <2> QED BY <2>8, <2>9, <2>11 DEF u
<1> QED
  BY <1>6, <1>7

\* cpFinalize_rmf processes the whole padded message.
LEMMA FinalizeIsPadded ==
    ASSUME NEW h, IsHash(h), NEW msg, Absorbs(h, msg), h.method \in {"sha", "shake"}
    PROVE  cpFinalize(h)
             = [chain |-> WholeBlocks(HashOneCall!Padded(h.method, msg)), perms |-> 0]
<1> PICK T, m, r : /\ {} \in T
                   /\ Holds(T, h.value.chain, h.buff, h.idx, m, r)
                   /\ msg = Join(m, r)
  BY DEF Absorbs
<1> DEFINE U == T \cup PadBytes(h.lenHi, h.lenLo)
           pad == PadOf(h)
<1>1. Holds(U, h.value.chain, h.buff, h.idx, m, r) /\ PadBytes(h.lenHi, h.lenLo) \subseteq U
  <2>1. T \subseteq U
    OBVIOUS
  <2> QED BY <2>1, HoldsMore
<1> HIDE DEF U
<1>2. /\ m \in Seq(U) /\ Aligned(m) /\ r \in Seq(U) /\ Len(r) = h.idx /\ h.idx < BlockSize
      /\ Take(h.buff, h.idx) = r /\ h.value.chain = WholeBlocks(m)
      /\ h.lenHi = Len(Join(m, r)) \div LenWord /\ h.lenLo = Len(Join(m, r)) % LenWord
      /\ h.value = [chain |-> h.value.chain, perms |-> 0]
  BY <1>1 DEF Holds, Absorbs, IsHash
<1>3. pad \in Seq(U) /\ HashOneCall!Padded(h.method, Join(m, r)) = Join(m, pad)
  <2>1. CASE h.method = "sha"
    BY <1>1, <1>2, <2>1, ShaPadding
  <2>2. CASE h.method = "shake"
    BY <1>1, <1>2, <2>2, ShakePadding
  <2> QED BY <2>1, <2>2
<1>4. cpFinalize(h) = hashUpdate(h.value, pad)
  BY DEF cpFinalize, PadOf
<1> HIDE DEF pad
<1>5. WholeBlocks(m) \o WholeBlocks(pad) = WholeBlocks(m \o pad)
  BY <1>2, <1>3, WholeBlocksJoin
<1>6. hashUpdate(h.value, pad) = [chain |-> h.value.chain \o WholeBlocks(pad), perms |-> 0]
  <2> DEFINE x == h.value.chain
             y == x \o WholeBlocks(pad)
  <2>1. hashUpdate(h.value, pad) = [h.value EXCEPT !.chain = y] /\ h.value = [chain |-> x, perms |-> 0]
    BY <1>2 DEF hashUpdate
  <2> HIDE DEF x, y
  <2>2. hashUpdate(h.value, pad) = [chain |-> y, perms |-> 0]
    BY <2>1
  <2> QED BY <2>2 DEF x, y
<1> QED
  BY <1>2, <1>3, <1>4, <1>5, <1>6 DEF Join

\* ippsHashFinal_rmf and ippsHashGetTag_rmf: a digest of any length is the
\* beginning of the output for the whole message.
LEMMA DigestIsStream ==
    ASSUME NEW h, IsHash(h), NEW msg, Absorbs(h, msg), h.method \in {"sha", "shake"},
           NEW n \in Nat
    PROVE  Digest(h, n) = HashOneCall!Stream(h.method, msg, 0, n)
<1> DEFINE chain == WholeBlocks(HashOneCall!Padded(h.method, msg))
<1>1. cpFinalize(h) = [chain |-> chain, perms |-> 0]
  BY FinalizeIsPadded
<1>2. 0 \in Nat /\ 0 \in 0..BlockSize /\ 0 * BlockSize + 0 = 0
  BY BlockConstants
<1>3. HashOneCall!Stream(h.method, msg, 0, n) = Output(chain, 0, n)
  BY HashSameOperators DEF HashOneCall!Stream, Output
<1> HIDE DEF chain
<1>4. cpHashSqueeze([chain |-> chain, perms |-> 0], 0, n).bytes = Output(chain, 0 * BlockSize + 0, n)
  BY <1>2, SqueezeIsOutput
<1> QED
  BY <1>1, <1>2, <1>3, <1>4 DEF Digest

\* ippsHashFinal_rmf starts the next message.
LEMMA FinishedAbsorbs ==
    ASSUME NEW h, IsHash(h), NEW msg, Absorbs(h, msg)
    PROVE  /\ IsHash(HashFinished(h)) /\ Absorbs(HashFinished(h), <<>>)
           /\ HashFinished(h).state = "HashFinal" /\ HashFinished(h).buff = h.buff
           /\ HashFinished(h).id = h.id /\ HashFinished(h).method = h.method
<1> DEFINE u == HashFinished(h)
<1>1. u = [h EXCEPT !.idx = 0, !.lenLo = 0, !.lenHi = 0, !.squeezed = 0,
                    !.value = InitialValue, !.state = "HashFinal"]
  BY DEF HashFinished
<1> HIDE DEF u
<1>2. /\ u.idx = 0 /\ u.lenLo = 0 /\ u.lenHi = 0 /\ u.squeezed = 0 /\ u.value = InitialValue
      /\ u.state = "HashFinal" /\ u.id = h.id /\ u.method = h.method /\ u.buff = h.buff
  BY <1>1 DEF IsHash
<1>3. IsHash(u)
  <2>1. u = [id |-> u.id, state |-> u.state, method |-> u.method, buff |-> u.buff,
             idx |-> u.idx, squeezed |-> u.squeezed, lenLo |-> u.lenLo, lenHi |-> u.lenHi,
             value |-> u.value]
    BY <1>1 DEF IsHash
  <2> QED BY <1>2, <2>1 DEF IsHash, InitialValue
<1>4. PICK T : {} \in T /\ h.buff \in Block(T)
  BY DEF Absorbs, Holds
<1>5. Absorbs(u, <<>>)
  BY <1>2, <1>4, HashInitAbsorbs
<1> QED
  BY <1>2, <1>3, <1>5 DEF u

\* ippsHashInit_rmf.
LEMMA InitAbsorbs ==
    ASSUME NEW method
    PROVE  /\ IsHash(HashInitOf(method)) /\ Absorbs(HashInitOf(method), <<>>)
           /\ HashInitOf(method).state = "HashInit"
           /\ HashInitOf(method).id = "Hash" /\ HashInitOf(method).method = method
<1> DEFINE u == HashInitOf(method)
           T == {{}}
<1>1. /\ IsHash(u) /\ u.value = InitialValue /\ u.idx = 0 /\ u.squeezed = 0 /\ u.lenLo = 0
      /\ u.lenHi = 0 /\ u.buff = Zeros(BlockSize) /\ u.state = "HashInit"
      /\ u.id = "Hash" /\ u.method = method
  BY DEF HashInitOf, IsHash, InitialValue
<1>2. {} \in T /\ u.buff \in Block(T)
  BY <1>1 DEF Zeros, Block
<1> HIDE DEF u, T
<1>3. Absorbs(u, <<>>)
  BY <1>1, <1>2, HashInitAbsorbs
<1> QED
  BY <1>1, <1>3 DEF u

-----------------------------------------------------------------------------
(* The hash contexts: the invariant. *)

\* What a context was given is a record of its fields.
IsHashMessage(g) == g = [alg |-> g.alg, msg |-> g.msg, drawn |-> g.drawn, packed |-> g.packed]

\* What a context that squeezes has squeezed out of the output.
SqueezedOut(h, g) ==
    /\ h.value.chain = WholeBlocks(HashOneCall!Padded("shake", g.msg))
    /\ h.value.perms \in Nat /\ h.squeezed \in 1..BlockSize
    /\ g.drawn = h.value.perms * BlockSize + h.squeezed

\* A context holds what it was given: it takes in the message, or squeezes.
HashAgrees(h, g) ==
    /\ IsHash(h) /\ IsHashMessage(g)
    /\ h.method = g.alg /\ g.alg \in {"none", "sha", "shake"} /\ g.packed \in BOOLEAN
    /\ h.id = IF g.alg = "none" THEN "none" ELSE IF g.packed THEN "packed" ELSE "Hash"
    /\ h.state # "HashSqueeze" => g.drawn = 0 /\ Absorbs(h, g.msg)
    /\ h.state = "HashSqueeze" => g.alg = "shake" /\ SqueezedOut(h, g)

HashInv ==
    /\ DOMAIN hashCtx = Slots /\ DOMAIN hashGiven = Slots
    /\ \A c \in Slots : HashAgrees(hashCtx[c], hashGiven[c])
    /\ hashLen = [sha |-> DigestLen, shake |-> hashLen.shake] /\ hashLen.shake \in Nat

\* A step that sets one slot keeps the invariant if that slot does.
LEMMA SlotSet ==
    ASSUME HashInv, NEW c \in Slots, NEW h, NEW g, SetSlot(c, h, g), HashAgrees(h, g),
           hashLen' = hashLen
    PROVE  HashInv'
<1>1. hashCtx' = [hashCtx EXCEPT ![c] = h] /\ hashGiven' = [hashGiven EXCEPT ![c] = g]
  BY DEF SetSlot
<1>2. DOMAIN hashCtx' = Slots /\ DOMAIN hashGiven' = Slots
  BY <1>1 DEF HashInv
<1>3. ASSUME NEW d \in Slots PROVE HashAgrees(hashCtx'[d], hashGiven'[d])
  <2>1. CASE d = c
    BY <1>1, <2>1 DEF HashInv
  <2>2. CASE d # c
    BY <1>1, <2>2 DEF HashInv
  <2> QED BY <2>1, <2>2
<1> QED
  BY <1>2, <1>3 DEF HashInv, HashAgrees, Absorbs, SqueezedOut, IsHash, IsHashMessage

-----------------------------------------------------------------------------
(* The hash contexts: the steps. *)

\* What a new context was given.
LEMMA FreshMessage ==
    ASSUME NEW alg
    PROVE  /\ IsHashMessage(HashOneCall!Fresh(alg)) /\ HashOneCall!Fresh(alg).alg = alg
           /\ HashOneCall!Fresh(alg).msg = <<>> /\ HashOneCall!Fresh(alg).drawn = 0
           /\ HashOneCall!Fresh(alg).packed = FALSE
<1> DEFINE a == HashOneCall!Absent
           g == HashOneCall!Fresh(alg)
<1>1. IsHashMessage(a) /\ a.msg = <<>> /\ a.drawn = 0 /\ a.packed = FALSE
  BY DEF HashOneCall!Absent, IsHashMessage
<1>2. g = [a EXCEPT !.alg = alg]
  BY DEF HashOneCall!Fresh
<1> HIDE DEF a, g
<1> QED
  BY <1>1, <1>2 DEF IsHashMessage, g

\* No context yet.
LEMMA HashInitial == HashStreamInit => HashInv /\ HashOneCall!Init
<1> SUFFICES ASSUME HashStreamInit PROVE HashInv /\ HashOneCall!Init
  OBVIOUS
<1> DEFINE k == HashInitOf("none")
           h == NoContext
           g == HashOneCall!Absent
<1>1. /\ hashCtx = [c \in Slots |-> h] /\ hashGiven = [c \in Slots |-> g]
      /\ hashLen = [sha |-> DigestLen, shake |-> 0] /\ hashOut = <<>>
  BY DEF HashStreamInit
<1>2. /\ IsHash(k) /\ Absorbs(k, <<>>) /\ k.state = "HashInit" /\ k.method = "none"
  BY InitAbsorbs
<1>3. h = [k EXCEPT !.id = "none"]
  BY DEF NoContext
<1>4. IsHashMessage(g) /\ g.alg = "none" /\ g.msg = <<>> /\ g.drawn = 0 /\ g.packed = FALSE
  BY DEF HashOneCall!Absent, IsHashMessage
<1> HIDE DEF k, h, g
<1>5. /\ IsHash(h) /\ h.id = "none" /\ h.state = "HashInit" /\ h.method = "none"
      /\ h.value = k.value /\ h.buff = k.buff /\ h.idx = k.idx /\ h.squeezed = k.squeezed
      /\ h.lenLo = k.lenLo /\ h.lenHi = k.lenHi
  BY <1>2, <1>3 DEF IsHash
<1>6. Absorbs(h, <<>>)
  BY <1>2, <1>5 DEF Absorbs
<1>7. HashAgrees(h, g)
  BY <1>4, <1>5, <1>6 DEF HashAgrees
<1>8. HashInv
  BY <1>1, <1>7 DEF HashInv
<1>9. HashOneCall!Init
  BY <1>1 DEF HashOneCall!Init, g
<1> QED
  BY <1>8, <1>9

\* ippsHashMethod_SHAKE128: the length of later digests changes, no context.
LEMMA MethodStep ==
    ASSUME HashInv, NEW n \in ShakeLens, HashMethodSHAKE(n)
    PROVE  HashInv' /\ HashOneCall!Next
<1>1. /\ hashLen' = [hashLen EXCEPT !.shake = n] /\ hashOut' = <<>>
      /\ hashCtx' = hashCtx /\ hashGiven' = hashGiven
  BY DEF HashMethodSHAKE
<1>2. n \in Nat
  BY HashConstants
<1>3. hashLen' = [sha |-> DigestLen, shake |-> n] /\ hashLen.sha = DigestLen
  BY <1>1 DEF HashInv
<1>4. HashInv'
  BY <1>1, <1>2, <1>3 DEF HashInv, HashAgrees, Absorbs, SqueezedOut, IsHash, IsHashMessage
<1> QED
  BY <1>1, <1>3, <1>4 DEF HashOneCall!Next

\* ippsHashInit_rmf: the slot starts a message, whatever it held.
LEMMA InitStep ==
    ASSUME HashInv, NEW c \in Slots, NEW method \in {"sha", "shake"}, HashInitCall(c, method)
    PROVE  HashInv' /\ HashOneCall!Next
<1> DEFINE h == HashInitOf(method)
           g == HashOneCall!Fresh(method)
<1>1. SetSlot(c, h, g) /\ hashOut' = <<>> /\ hashLen' = hashLen
  BY DEF HashInitCall
<1>2. /\ IsHashMessage(g) /\ g.alg = method /\ g.msg = <<>> /\ g.drawn = 0 /\ g.packed = FALSE
  BY FreshMessage
<1>3. /\ IsHash(h) /\ Absorbs(h, <<>>) /\ h.state = "HashInit" /\ h.id = "Hash"
      /\ h.method = method
  BY InitAbsorbs
<1> HIDE DEF h
<1>4. HashAgrees(h, g)
  <2> HIDE DEF g
  <2> QED BY <1>2, <1>3 DEF HashAgrees
<1>5. HashInv'
  BY <1>1, <1>4, SlotSet
<1>6. HashOneCall!HashInit(c)
  BY <1>1 DEF SetSlot, HashOneCall!HashInit, HashOneCall!Replace
<1> QED
  BY <1>1, <1>5, <1>6 DEF HashOneCall!Next

\* What a valid context not yet squeezed from was given.
LEMMA AbsorbingContext ==
    ASSUME HashInv, NEW c \in Slots, Valid(c), hashCtx[c].state # "HashSqueeze"
    PROVE  /\ IsHash(hashCtx[c]) /\ Absorbs(hashCtx[c], hashGiven[c].msg)
           /\ hashCtx[c].method \in {"sha", "shake"} /\ hashCtx[c].method = hashGiven[c].alg
           /\ IsHashMessage(hashGiven[c]) /\ hashGiven[c].drawn = 0 /\ hashGiven[c].packed = FALSE
           /\ HashOneCall!Absorbing(c)
<1>1. HashAgrees(hashCtx[c], hashGiven[c])
  BY DEF HashInv
<1> DEFINE h == hashCtx[c]
           g == hashGiven[c]
<1>2. h.id = "Hash" /\ h.state # "HashSqueeze"
  BY DEF Valid
<1> HIDE DEF h, g
<1>3. HashAgrees(h, g)
  BY <1>1 DEF h, g
<1>4. /\ IsHash(h) /\ Absorbs(h, g.msg) /\ h.method = g.alg /\ g.alg \in {"sha", "shake"}
      /\ g.packed = FALSE /\ g.drawn = 0 /\ IsHashMessage(g) /\ g.alg # "none"
  BY <1>2, <1>3 DEF HashAgrees
<1> QED
  BY <1>4 DEF HashOneCall!Absorbing, HashOneCall!Alive, h, g

\* ippsHashUpdate_rmf.
LEMMA UpdateStep ==
    ASSUME HashInv, NEW c \in Slots, NEW n \in HashPieces, HashUpdate(c, n)
    PROVE  HashInv' /\ HashOneCall!Next
<1> DEFINE h == hashCtx[c]
           g == hashGiven[c]
           msg == g.msg
           s == Piece("msg", c, Len(msg), n)
           u == HashUpdateOf(h, s)
           v == [g EXCEPT !.msg = @ \o s]
<1>1. /\ Valid(c) /\ h.state # "HashSqueeze" /\ SetSlot(c, u, v)
      /\ hashOut' = <<>> /\ hashLen' = hashLen
  BY DEF HashUpdate
<1>2. /\ IsHash(h) /\ Absorbs(h, msg) /\ h.method \in {"sha", "shake"} /\ h.method = g.alg
      /\ IsHashMessage(g) /\ g.drawn = 0 /\ g.packed = FALSE
      /\ HashOneCall!Absorbing(c) /\ h.id = "Hash"
  BY <1>1, AbsorbingContext DEF Valid
<1>3. n \in Nat /\ n < LenWord
  BY HashConstants
<1> DEFINE W == {{<<"msg", c, Len(msg) + i>>} : i \in 1..n}
<1>4. s \in Seq(W) /\ Len(s) = n
  BY <1>3, PieceLength
<1> HIDE DEF h, g, msg, s, W
<1>5. /\ IsHash(u) /\ Absorbs(u, msg \o s) /\ u.state = "HashProcess" /\ u.id = h.id
      /\ u.method = h.method
  BY <1>2, <1>3, <1>4, HashUpdateAbsorbs
<1> HIDE DEF u
<1> DEFINE ms == msg \o s
<1> HIDE DEF ms
<1>6. IsHashMessage(v) /\ v.alg = g.alg /\ v.msg = ms /\ v.drawn = 0 /\ v.packed = FALSE
  <2>1. v = [g EXCEPT !.msg = ms]
    BY DEF ms, msg
  <2> HIDE DEF v
  <2> QED BY <1>2, <2>1 DEF IsHashMessage
<1> HIDE DEF v
<1>7. HashAgrees(u, v)
  BY <1>2, <1>5, <1>6 DEF HashAgrees, ms
<1>8. HashInv'
  BY <1>1, <1>7, SlotSet
<1>9. Take(ms, Len(msg)) = msg
  <2>1. PICK T, m, r : Holds(T, h.value.chain, h.buff, h.idx, m, r) /\ msg = Join(m, r)
    BY <1>2 DEF Absorbs
  <2>2. msg \in Seq(T)
    BY <2>1, JoinLengths DEF Holds
  <2> DEFINE U == T \cup W
  <2>3. msg \in Seq(U) /\ s \in Seq(U)
    <3>1. T \subseteq U /\ W \subseteq U
      OBVIOUS
    <3> HIDE DEF U
    <3> QED BY <1>4, <2>2, <3>1
  <2> HIDE DEF U
  <2> QED BY <2>3, TakeOfJoined DEF ms
<1>10. hashGiven' = [hashGiven EXCEPT ![c] = v] /\ hashGiven'[c] = v
  BY <1>1 DEF SetSlot, HashInv
<1>11. HashOneCall!Update(c)
  <2>1. v.msg = ms
    BY <1>6
  <2>2. v = [hashGiven[c] EXCEPT !.msg = ms]
    BY DEF v, g, ms, msg
  <2>3. HashOneCall!Take(ms, Len(hashGiven[c].msg)) = hashGiven[c].msg
    BY <1>9, HashSameOperators DEF g, msg
  <2> QED BY <1>1, <1>2, <1>10, <2>1, <2>2, <2>3 DEF HashOneCall!Update, HashOneCall!Replace
<1> QED
  BY <1>1, <1>8, <1>11 DEF HashOneCall!Next

\* ippsHashFinal_rmf.
LEMMA FinalStep ==
    ASSUME HashInv, NEW c \in Slots, HashFinal(c)
    PROVE  HashInv' /\ HashOneCall!Next
<1> DEFINE h == hashCtx[c]
           g == hashGiven[c]
           msg == g.msg
           u == HashFinished(h)
           v == HashOneCall!Fresh(h.method)
           n == hashLen[h.method]
<1>1. /\ Valid(c) /\ h.state # "HashSqueeze" /\ SetSlot(c, u, v)
      /\ hashOut' = Digest(h, n) /\ hashLen' = hashLen
  BY DEF HashFinal
<1>2. /\ IsHash(h) /\ Absorbs(h, msg) /\ h.method \in {"sha", "shake"} /\ h.method = g.alg
      /\ HashOneCall!Absorbing(c) /\ h.id = "Hash"
  BY <1>1, AbsorbingContext DEF Valid
<1>3. n \in Nat
  BY <1>2, HashConstants DEF HashInv
<1>4. /\ IsHashMessage(v) /\ v.alg = h.method /\ v.msg = <<>> /\ v.drawn = 0 /\ v.packed = FALSE
  BY FreshMessage
<1> HIDE DEF h, g, msg, v
<1>5. Digest(h, n) = HashOneCall!Stream(h.method, msg, 0, n)
  BY <1>2, <1>3, DigestIsStream
<1>6. /\ IsHash(u) /\ Absorbs(u, <<>>) /\ u.state = "HashFinal" /\ u.id = h.id
      /\ u.method = h.method
  BY <1>2, FinishedAbsorbs
<1> HIDE DEF u
<1>7. HashAgrees(u, v)
  BY <1>2, <1>4, <1>6 DEF HashAgrees
<1>8. HashInv'
  BY <1>1, <1>7, SlotSet
<1>9. hashGiven' = [hashGiven EXCEPT ![c] = v]
  BY <1>1 DEF SetSlot
<1>10. HashOneCall!Final(c)
  BY <1>1, <1>2, <1>5, <1>9 DEF HashOneCall!Final, HashOneCall!Replace, g, msg, v
<1> QED
  BY <1>1, <1>8, <1>10 DEF HashOneCall!Next

\* ippsHashGetTag_rmf works on copies.
LEMMA GetTagStep ==
    ASSUME HashInv, NEW c \in Slots, NEW n \in HashPieces, HashGetTag(c, n)
    PROVE  HashInv' /\ HashOneCall!Next
<1> DEFINE h == hashCtx[c]
           g == hashGiven[c]
           msg == g.msg
<1>1. /\ Valid(c) /\ h.state # "HashSqueeze" /\ n >= 1 /\ n <= hashLen[h.method]
      /\ hashOut' = Digest(h, n)
      /\ hashCtx' = hashCtx /\ hashLen' = hashLen /\ hashGiven' = hashGiven
  BY DEF HashGetTag
<1>2. /\ IsHash(h) /\ Absorbs(h, msg) /\ h.method \in {"sha", "shake"} /\ h.method = g.alg
      /\ HashOneCall!Absorbing(c)
  BY <1>1, AbsorbingContext
<1>3. n \in Nat /\ hashLen[h.method] \in Nat
  BY <1>2, HashConstants DEF HashInv
<1> HIDE DEF h, g, msg
<1>4. Digest(h, n) = HashOneCall!Stream(h.method, msg, 0, n)
  BY <1>2, <1>3, DigestIsStream
<1>5. Len(hashOut') = n
  <2>1. hashOut' = [i \in 1..n |-> {<<"digest", HashOneCall!WholeBlocks(HashOneCall!Padded(h.method, msg)), 0 + i>>}]
    BY <1>1, <1>4 DEF HashOneCall!Stream
  <2> QED BY <1>3, <2>1
<1>6. HashInv'
  BY <1>1 DEF HashInv, HashAgrees, Absorbs, SqueezedOut, IsHash, IsHashMessage
<1>7. HashOneCall!GetTag(c)
  <2>1. n \in 1..hashLen[g.alg]
    BY <1>1, <1>2, <1>3
  <2> QED BY <1>1, <1>2, <1>4, <1>5, <2>1 DEF HashOneCall!GetTag, g, msg
<1> QED
  BY <1>1, <1>6, <1>7 DEF HashOneCall!Next

\* ippsHashSqueeze_rmf: the first call finalises, the next ones go on where it
\* stopped.
LEMMA SqueezeStep ==
    ASSUME HashInv, NEW c \in Slots, NEW n \in SqueezeLens, HashSqueeze(c, n)
    PROVE  HashInv' /\ HashOneCall!Next
<1> DEFINE h == hashCtx[c]
           g == hashGiven[c]
           msg == g.msg
           chain == WholeBlocks(HashOneCall!Padded("shake", msg))
           value == IF h.state = "HashSqueeze" THEN h.value ELSE cpFinalize(h)
           r == cpHashSqueeze(value, h.squeezed, n)
           u == [h EXCEPT !.value = r.value, !.squeezed = r.squeezed, !.state = "HashSqueeze"]
           v == [g EXCEPT !.drawn = @ + n]
           p == value.perms
           q == h.squeezed
<1>1. /\ Valid(c) /\ h.method = "shake" /\ n > 0 /\ SetSlot(c, u, v)
      /\ hashOut' = r.bytes /\ hashLen' = hashLen
  BY DEF HashSqueeze
<1>2. HashAgrees(h, g) /\ h.id = "Hash"
  BY <1>1 DEF HashInv, Valid
<1> HIDE DEF h, g, msg
<1>3. /\ IsHash(h) /\ IsHashMessage(g) /\ h.method = g.alg /\ g.alg = "shake" /\ g.packed = FALSE
      /\ h.id = "Hash"
      /\ h.state # "HashSqueeze" => g.drawn = 0 /\ Absorbs(h, msg)
      /\ h.state = "HashSqueeze" => SqueezedOut(h, g)
  BY <1>1, <1>2 DEF HashAgrees, msg
<1>4. n \in Nat \ {0} /\ BlockSize \in Nat \ {0}
  BY <1>1, HashConstants, BlockConstants
<1>5. /\ value = [chain |-> chain, perms |-> p] /\ p \in Nat /\ q \in 0..BlockSize
      /\ g.drawn = p * BlockSize + q
  <2>1. CASE h.state = "HashSqueeze"
    <3>1. value = h.value /\ SqueezedOut(h, g)
      BY <1>3, <2>1
    <3> HIDE DEF value
    <3>2. /\ value.chain = chain /\ p \in Nat /\ q \in 1..BlockSize
          /\ g.drawn = p * BlockSize + q
      BY <3>1 DEF SqueezedOut, msg
    <3>3. value = [chain |-> value.chain, perms |-> p]
      BY <1>3, <3>1 DEF IsHash
    <3> QED BY <1>4, <3>2, <3>3
  <2>2. CASE h.state # "HashSqueeze"
    <3>1. Absorbs(h, msg) /\ g.drawn = 0
      BY <1>3, <2>2
    <3>2. value = [chain |-> chain, perms |-> 0]
      BY <1>1, <1>3, <2>2, <3>1, FinalizeIsPadded
    <3> HIDE DEF value, chain
    <3>3. p = 0 /\ q = 0
      BY <3>1, <3>2 DEF Absorbs
    <3>4. 0 * BlockSize + 0 = 0 /\ 0 \in 0..BlockSize
      BY <1>4
    <3> QED BY <3>1, <3>2, <3>3, <3>4
  <2> QED BY <2>1, <2>2
<1> HIDE DEF value, chain, p, q
<1>6. /\ r.bytes = Output(chain, g.drawn, n)
      /\ r.value = [chain |-> chain, perms |-> r.value.perms] /\ r.value.perms \in Nat
      /\ r.squeezed \in 1..BlockSize
      /\ r.value.perms * BlockSize + r.squeezed = g.drawn + n
  <2>1. r = cpHashSqueeze([chain |-> chain, perms |-> p], q, n)
    BY <1>5 DEF q
  <2> HIDE DEF r
  <2>2. n \in Nat /\ n > 0
    BY <1>4
  <2>3. /\ r.bytes = Output(chain, p * BlockSize + q, n)
        /\ r.value = [chain |-> chain, perms |-> r.value.perms]
        /\ r.value.perms \in Nat
        /\ r.squeezed \in 1..BlockSize
        /\ r.value.perms * BlockSize + r.squeezed = p * BlockSize + q + n
    BY <1>5, <2>1, <2>2, SqueezeIsOutput
  <2> QED BY <1>5, <2>3
<1> HIDE DEF r
<1>7. /\ u.value = r.value /\ u.squeezed = r.squeezed /\ u.state = "HashSqueeze" /\ u.id = h.id
      /\ u.method = h.method /\ IsHash(u)
  <2>1. u = [h EXCEPT !.value = r.value, !.squeezed = r.squeezed, !.state = "HashSqueeze"]
    OBVIOUS
  <2> HIDE DEF u
  <2>2. /\ u.value = r.value /\ u.squeezed = r.squeezed /\ u.state = "HashSqueeze"
        /\ u.id = h.id /\ u.method = h.method
    BY <1>3, <2>1 DEF IsHash
  <2>3. u = [id |-> u.id, state |-> u.state, method |-> u.method, buff |-> u.buff,
             idx |-> u.idx, squeezed |-> u.squeezed, lenLo |-> u.lenLo, lenHi |-> u.lenHi,
             value |-> u.value]
    BY <1>3, <2>1 DEF IsHash
  <2>4. u.value = [chain |-> u.value.chain, perms |-> u.value.perms]
    BY <1>6, <2>2
  <2> QED BY <2>2, <2>3, <2>4 DEF IsHash
<1>8. IsHashMessage(v) /\ v.alg = g.alg /\ v.msg = msg /\ v.drawn = g.drawn + n /\ v.packed = FALSE
  <2>1. v = [g EXCEPT !.drawn = @ + n]
    OBVIOUS
  <2> HIDE DEF v
  <2> QED BY <1>3, <2>1 DEF IsHashMessage, msg
<1> HIDE DEF u, v
<1>9. SqueezedOut(u, v)
  <2>1. u.value.chain = chain /\ u.value.perms = r.value.perms
    BY <1>6, <1>7
  <2> QED BY <1>6, <1>7, <1>8, <2>1 DEF SqueezedOut, chain
<1>10. HashAgrees(u, v)
  BY <1>3, <1>7, <1>8, <1>9 DEF HashAgrees
<1>11. HashInv'
  BY <1>1, <1>10, SlotSet
<1>12. hashGiven' = [hashGiven EXCEPT ![c] = v]
  BY <1>1 DEF SetSlot
<1>13. Len(hashOut') = n /\ hashOut' # <<>>
  <2>1. Len(hashOut') = n
    BY <1>1, <1>4, <1>6 DEF Output
  <2> QED BY <1>4, <2>1
<1>14. HashOneCall!Stream("shake", msg, g.drawn, n) = Output(chain, g.drawn, n)
  BY HashSameOperators DEF HashOneCall!Stream, Output, chain
<1>15. HashOneCall!Squeeze(c)
  <2>1. hashGiven[c] = g /\ g.alg # "none" /\ ~g.packed
    BY <1>3 DEF g
  <2>2. v = [hashGiven[c] EXCEPT !.drawn = @ + Len(hashOut')]
    BY <1>13 DEF v, g
  <2> QED
    BY <1>1, <1>3, <1>6, <1>12, <1>13, <1>14, <2>1, <2>2
       DEF HashOneCall!Squeeze, HashOneCall!Alive, HashOneCall!Replace, msg
<1> QED
  BY <1>1, <1>11, <1>15 DEF HashOneCall!Next

\* A copy of a context, as it is or with another id, agrees with a copy of
\* what the context was given.
LEMMA CopyAgrees ==
    ASSUME NEW h, NEW g, HashAgrees(h, g), g.alg # "none",
           NEW id, NEW method, method = h.method, NEW packed \in BOOLEAN,
           id = IF packed THEN "packed" ELSE "Hash"
    PROVE  HashAgrees([h EXCEPT !.id = id, !.method = method], [g EXCEPT !.packed = packed])
<1> DEFINE u == [h EXCEPT !.id = id, !.method = method]
           v == [g EXCEPT !.packed = packed]
<1>1. IsHash(h) /\ IsHashMessage(g) /\ h.method = g.alg
  BY DEF HashAgrees
<1>2. /\ u.value = h.value /\ u.squeezed = h.squeezed /\ u.state = h.state /\ u.id = id
      /\ u.method = h.method /\ u.buff = h.buff /\ u.idx = h.idx /\ u.lenLo = h.lenLo
      /\ u.lenHi = h.lenHi /\ IsHash(u)
  <2>1. u = [h EXCEPT !.id = id, !.method = method]
    OBVIOUS
  <2> HIDE DEF u
  <2> QED BY <1>1, <2>1 DEF IsHash
<1>3. IsHashMessage(v) /\ v.alg = g.alg /\ v.msg = g.msg /\ v.drawn = g.drawn /\ v.packed = packed
  <2>1. v = [g EXCEPT !.packed = packed]
    OBVIOUS
  <2> HIDE DEF v
  <2> QED BY <1>1, <2>1 DEF IsHashMessage
<1> HIDE DEF u, v
<1>4. h.state # "HashSqueeze" => g.drawn = 0 /\ Absorbs(u, v.msg)
  BY <1>2, <1>3 DEF HashAgrees, Absorbs
<1>5. h.state = "HashSqueeze" => g.alg = "shake" /\ SqueezedOut(u, v)
  BY <1>2, <1>3 DEF HashAgrees, SqueezedOut
<1> QED
  <2>1. HashAgrees(u, v)
    BY <1>1, <1>2, <1>3, <1>4, <1>5 DEF HashAgrees
  <2> QED BY <2>1 DEF u, v

\* ippsHashDuplicate_rmf, ippsHashPack_rmf and ippsHashUnpack_rmf copy what a
\* context holds; the context copied from goes on as it was.
LEMMA CopyStep ==
    ASSUME HashInv, NEW c \in Slots, NEW d \in Slots,
           HashDuplicate(c, d) \/ HashPack(c, d) \/ HashUnpack(c, d)
    PROVE  HashInv' /\ HashOneCall!Next
<1> DEFINE h == hashCtx[c]
           g == hashGiven[c]
<1>1. HashAgrees(h, g)
  BY DEF HashInv
<1>2. h.id \in {"Hash", "packed"} /\ hashLen' = hashLen /\ hashOut' = <<>>
  BY DEF HashDuplicate, HashPack, HashUnpack, Valid
<1>3. \E id, method, packed : /\ method = h.method /\ packed \in BOOLEAN
                              /\ id = (IF packed THEN "packed" ELSE "Hash")
                              /\ SetSlot(d, [h EXCEPT !.id = id, !.method = method],
                                            [g EXCEPT !.packed = packed])
  <2>1. CASE HashDuplicate(c, d)
    <3>1. h.id = "Hash" /\ SetSlot(d, h, g)
      BY <2>1 DEF HashDuplicate, Valid
    <3> HIDE DEF h, g
    <3>2. IsHash(h) /\ IsHashMessage(g) /\ g.packed = FALSE
      BY <1>1, <3>1 DEF HashAgrees
    <3>3. h = [h EXCEPT !.id = "Hash", !.method = h.method]
      BY <3>1, <3>2 DEF IsHash
    <3>4. g = [g EXCEPT !.packed = FALSE]
      BY <3>2 DEF IsHashMessage
    <3>5. SetSlot(d, [h EXCEPT !.id = "Hash", !.method = h.method], [g EXCEPT !.packed = FALSE])
      <4> DEFINE hh == [h EXCEPT !.id = "Hash", !.method = h.method]
                 gg == [g EXCEPT !.packed = FALSE]
      <4>1. h = hh /\ g = gg
        BY <3>3, <3>4
      <4> HIDE DEF hh, gg
      <4>2. SetSlot(d, hh, gg)
        BY <3>1, <4>1
      <4> QED BY <4>2 DEF hh, gg
    <3> QED BY <3>5
  <2>2. CASE HashPack(c, d)
    <3>1. SetSlot(d, [h EXCEPT !.id = "packed"], [g EXCEPT !.packed = TRUE])
      BY <2>2 DEF HashPack
    <3> HIDE DEF h, g
    <3>2. IsHash(h)
      BY <1>1 DEF HashAgrees
    <3>3. [h EXCEPT !.id = "packed"] = [h EXCEPT !.id = "packed", !.method = h.method]
      BY <3>2 DEF IsHash
    <3> QED BY <3>1, <3>3
  <2>3. CASE HashUnpack(c, d)
    <3>1. /\ SetSlot(d, [h EXCEPT !.id = "Hash", !.method = hashCtx[d].method],
                        [g EXCEPT !.packed = FALSE])
          /\ hashCtx[d].method = h.method
      BY <2>3 DEF HashUnpack
    <3> HIDE DEF h, g
    <3> QED BY <3>1
  <2> QED BY <2>1, <2>2, <2>3
<1> PICK id, method, packed : /\ method = h.method /\ packed \in BOOLEAN
                              /\ id = (IF packed THEN "packed" ELSE "Hash")
                              /\ SetSlot(d, [h EXCEPT !.id = id, !.method = method],
                                            [g EXCEPT !.packed = packed])
  BY <1>3
<1> DEFINE u == [h EXCEPT !.id = id, !.method = method]
           v == [g EXCEPT !.packed = packed]
<1> HIDE DEF h, g
<1>4. g.alg # "none"
  BY <1>1, <1>2 DEF HashAgrees
<1>5. HashAgrees(u, v)
  BY <1>1, <1>4, CopyAgrees
<1> HIDE DEF u, v
<1>6. SetSlot(d, u, v)
  BY DEF u, v
<1>7. HashInv'
  BY <1>2, <1>5, <1>6, SlotSet
<1>8. HashOneCall!Copy(c, d)
  BY <1>2, <1>4, <1>6 DEF SetSlot, HashOneCall!Copy, HashOneCall!Replace, g, v
<1> QED
  BY <1>2, <1>7, <1>8 DEF HashOneCall!Next

\* Every step keeps the invariant and is a step, or a stutter, of the one-call hash.
LEMMA HashStep ==
    ASSUME HashInv, [HashNext]_hashVars
    PROVE  HashInv' /\ [HashOneCall!Next]_HashOneCall!vars
<1>1. CASE HashNext
  <2>1. HashInv' /\ HashOneCall!Next
    BY <1>1, MethodStep, InitStep, UpdateStep, GetTagStep, FinalStep, SqueezeStep, CopyStep
       DEF HashNext
  <2> QED BY <2>1
<1>2. CASE UNCHANGED hashVars
  <2>1. /\ hashCtx' = hashCtx /\ hashLen' = hashLen /\ hashGiven' = hashGiven
        /\ hashOut' = hashOut
    BY <1>2 DEF hashVars
  <2>2. HashInv'
    BY <2>1 DEF HashInv, HashAgrees, Absorbs, SqueezedOut, IsHash, IsHashMessage
  <2>3. UNCHANGED HashOneCall!vars
    BY <2>1 DEF HashOneCall!vars
  <2> QED BY <2>2, <2>3
<1> QED
  BY <1>1, <1>2

\* Whatever the pieces, the copies and the other contexts, a hash context
\* holds the message it was given, or the place in its output.
THEOREM HashContextsHoldTheirMessage == HashSpec => []HashInv
<1>1. HashStreamInit => HashInv
  BY HashInitial
<1>2. HashInv /\ [HashNext]_hashVars => HashInv'
  BY HashStep
<1> QED
  BY <1>1, <1>2, PTL DEF HashSpec

\* For every block size, digest length and cutting of input and output,
\* digests and squeezed bytes are those of one call on the whole message.
THEOREM HashPiecesAreOneCall == HashSpec => HashImplementsOneCall
<1>1. HashStreamInit => HashOneCall!Init
  BY HashInitial
<1>2. HashInv /\ [HashNext]_hashVars => [HashOneCall!Next]_HashOneCall!vars
  BY HashStep
<1>3. HashSpec => []HashInv
  BY HashContextsHoldTheirMessage
<1> QED
  BY <1>1, <1>2, <1>3, PTL DEF HashSpec, HashImplementsOneCall, HashOneCall!Spec

-----------------------------------------------------------------------------
(* HMAC: the key. *)

\* The hash HMAC is defined by is that of the hash contexts.
LEMMA SameStream ==
    \A alg, m, from, n :
        HMACOneCall!Hash!Stream(alg, m, from, n) = HashOneCall!Stream(alg, m, from, n)
<1>1. \A n : HMACOneCall!Hash!Zeros(n) = HashOneCall!Zeros(n)
  BY DEF HMACOneCall!Hash!Zeros, HashOneCall!Zeros
<1>2. \A a, b : HMACOneCall!Hash!Xor(a, b) = HashOneCall!Xor(a, b)
  BY DEF HMACOneCall!Hash!Xor, HashOneCall!Xor
<1>3. \A s : HMACOneCall!Hash!WholeBlocks(s) = HashOneCall!WholeBlocks(s)
  BY DEF HMACOneCall!Hash!WholeBlocks, HashOneCall!WholeBlocks
<1>4. \A alg, m : HMACOneCall!Hash!Padded(alg, m) = HashOneCall!Padded(alg, m)
  BY Zenon DEF HMACOneCall!Hash!Padded, HashOneCall!Padded,
               HMACOneCall!Hash!Zeros, HashOneCall!Zeros,
               HMACOneCall!Hash!Xor, HashOneCall!Xor
<1> QED
  BY <1>3, <1>4 DEF HMACOneCall!Hash!Stream, HashOneCall!Stream

\* So are the operators on bytes.
LEMMA HMACSameOperators ==
    /\ \A s, k : HMACOneCall!Take(s, k) = Take(s, k)
    /\ \A kind, id, from, n : HMACOneCall!Piece(kind, id, from, n) = Piece(kind, id, from, n)
    /\ \A b, k, s : HMACOneCall!XorAt(b, k, s) = XorAt(b, k, s)
<1>1. \A s, k : HMACOneCall!Take(s, k) = Take(s, k)
  BY DEF Take, HMACOneCall!Take, Lesser, HMACOneCall!Lesser
<1>2. \A kind, id, from, n : HMACOneCall!Piece(kind, id, from, n) = Piece(kind, id, from, n)
  BY DEF Piece, HMACOneCall!Piece
<1>3. \A b, k, s : HMACOneCall!XorAt(b, k, s) = XorAt(b, k, s)
  BY DEF XorAt, HMACOneCall!XorAt, Xor, HMACOneCall!Xor
<1> QED
  BY <1>1, <1>2, <1>3

\* The digest of a message, as the one-call HMAC names it.
H(m) == HMACOneCall!H(m)

\* GetTag of the whole digest length.
LEMMA DigestOfMessage ==
    ASSUME NEW h, IsHash(h), NEW msg, Absorbs(h, msg), h.method = "sha"
    PROVE  Digest(h, DigestLen) = H(msg)
<1>1. DigestLen \in Nat
  BY HashConstants
<1>2. Digest(h, DigestLen) = HashOneCall!Stream("sha", msg, 0, DigestLen)
  BY <1>1, DigestIsStream
<1> QED
  BY <1>2, SameStream DEF H, HMACOneCall!H

\* n bytes are a sequence.
LEMMA BytesAreSeq ==
    ASSUME NEW n \in Nat, NEW f, f = [i \in 1..n |-> f[i]]
    PROVE  \E W : f \in Seq(W) /\ Len(f) = n
<1> DEFINE W == {f[i] : i \in 1..n}
<1>1. \A i \in 1..n : f[i] \in W
  OBVIOUS
<1> HIDE DEF W
<1>2. f \in Seq(W) /\ Len(f) = n
  BY <1>1
<1> QED
  BY <1>2

\* A digest is hashLen bytes, no more than a block.
LEMMA DigestLength ==
    ASSUME NEW m
    PROVE  /\ DigestLen \in 1..BlockSize /\ DigestLen < LenWord
           /\ \E W : H(m) \in Seq(W) /\ Len(H(m)) = DigestLen
<1>1. DigestLen \in Nat /\ DigestLen \in 1..BlockSize /\ DigestLen < LenWord
  BY BlockConstants, HashConstants, HMACConstants
<1> DEFINE chain == HashOneCall!WholeBlocks(HashOneCall!Padded("sha", m))
<1>2. H(m) = [i \in 1..DigestLen |-> {<<"digest", chain, 0 + i>>}]
  BY SameStream DEF H, HMACOneCall!H, HashOneCall!Stream
<1> HIDE DEF chain
<1>3. H(m) = [i \in 1..DigestLen |-> H(m)[i]]
  BY <1>2
<1> QED
  BY <1>1, <1>3, BytesAreSeq

\* The key of a context, XORed into one of the two pads.
PadOfKey(n, name) == HMACOneCall!Padding(HMACOneCall!Key(n), name)

\* A pad is one block.
LEMMA PadOfKeyLength ==
    ASSUME NEW n, NEW name
    PROVE  /\ BlockSize < LenWord
           /\ \E W : PadOfKey(n, name) \in Seq(W) /\ Len(PadOfKey(n, name)) = BlockSize
<1> DEFINE k == HMACOneCall!Key(n)
           used == IF Len(k) > BlockSize THEN HMACOneCall!H(k) ELSE k
           b == [i \in 1..BlockSize |-> {<<name>>}]
           f == PadOfKey(n, name)
<1>1. f = XorAt(b, 0, used)
  BY HMACSameOperators DEF PadOfKey, HMACOneCall!Padding
<1>2. DOMAIN b = 1..BlockSize
  OBVIOUS
<1> HIDE DEF b, used, f
<1>3. f = [i \in 1..BlockSize |-> f[i]]
  BY <1>1, <1>2 DEF XorAt
<1>4. BlockSize \in Nat
  BY BlockConstants
<1> QED
  BY <1>3, <1>4, BytesAreSeq, HMACConstants DEF f

\* Whole sequences of bytes of two kinds are sequences of bytes of either kind.
LEMMA BothKinds ==
    ASSUME NEW W, NEW T
    PROVE  Seq(W) \subseteq Seq(W \cup T) /\ Seq(T) \subseteq Seq(W \cup T)
<1> DEFINE U == W \cup T
<1>1. W \subseteq U /\ T \subseteq U
  OBVIOUS
<1> HIDE DEF U
<1>2. Seq(W) \subseteq Seq(U) /\ Seq(T) \subseteq Seq(U)
  BY <1>1
<1> QED
  BY <1>2 DEF U

\* The inner hash of the next tag: the key's inner pad and the message.
HMACAgrees(x, g) ==
    /\ g = [key |-> g.key, msg |-> g.msg] /\ g.key \in Nat
    /\ x = [hash |-> x.hash, ipad |-> x.ipad, opad |-> x.opad]
    /\ x.ipad = PadOfKey(g.key, "ipad") /\ x.opad = PadOfKey(g.key, "opad")
    /\ IsHash(x.hash) /\ x.hash.method = "sha"
    /\ \E T : g.msg \in Seq(T)
    /\ Absorbs(x.hash, Join(x.ipad, g.msg))

\* ippsHMACInit_rmf: whether the key is hashed or not, the context holds the
\* inner pad of the key and nothing of a message.
LEMMA KeyedAgrees ==
    ASSUME NEW n \in Nat, n < LenWord
    PROVE  HMACAgrees(HMACKeyed(Piece("key", n, 0, n)), [key |-> n, msg |-> <<>>])
<1> DEFINE key  == Piece("key", n, 0, n)
           h0   == HashInitOf("sha")
           h    == HashUpdateOf(h0, key)
           f    == HashFinished(h)
           D    == Digest(h, DigestLen)
           h1   == [f EXCEPT !.buff = CopyAt(@, 0, D)]
           used == IF Len(key) > BlockSize THEN Take(h1.buff, DigestLen) ELSE key
           pad(name) == XorAt([i \in 1..BlockSize |-> {<<name>>}], 0, used)
           hash == HashUpdateOf(h1, pad("ipad"))
           x    == HMACKeyed(key)
<1>1. x = [hash |-> hash, ipad |-> pad("ipad"), opad |-> pad("opad")]
  BY DEF HMACKeyed
<1>2. PICK S0 : key \in Seq(S0) /\ Len(key) = n
  BY PieceLength
<1>3. /\ IsHash(h0) /\ Absorbs(h0, <<>>) /\ h0.method = "sha" /\ h0.id = "Hash"
  BY InitAbsorbs
<1> HIDE DEF x, key, h0
<1>4. IsHash(h) /\ Absorbs(h, <<>> \o key) /\ h.method = "sha"
  BY <1>2, <1>3, HashUpdateAbsorbs
<1>5. <<>> \o key = key
  BY <1>2, ConcatEmptySeq
<1>6. D = H(key)
  BY <1>4, <1>5, DigestOfMessage
<1> HIDE DEF h
<1>7. /\ IsHash(f) /\ Absorbs(f, <<>>) /\ f.method = "sha"
  BY <1>4, FinishedAbsorbs
<1>8. /\ f.value = InitialValue /\ f.idx = 0 /\ f.squeezed = 0 /\ f.lenLo = 0 /\ f.lenHi = 0
  BY <1>4 DEF HashFinished, IsHash
<1> HIDE DEF f, D
<1>9. PICK S1 : D \in Seq(S1) /\ Len(D) = DigestLen
  BY <1>6, DigestLength
<1>10. PICK T1 : {} \in T1 /\ f.buff \in Block(T1)
  BY <1>7 DEF Absorbs, Holds
<1> DEFINE T == T1 \cup S1
<1>11. {} \in T /\ f.buff \in Block(T) /\ D \in Seq(T)
  <2>1. T1 \subseteq T /\ D \in Seq(T)
    BY <1>9, BothKinds
  <2> HIDE DEF T
  <2> QED BY <1>10, <2>1 DEF Block
<1> HIDE DEF T
<1> DEFINE buff == CopyAt(f.buff, 0, D)
<1>12. buff \in Block(T) /\ Take(buff, DigestLen) = D
  <2>1. 0 \in 0..BlockSize /\ 0 + Len(D) <= BlockSize /\ 0 + Len(D) = DigestLen
    BY <1>9, BlockConstants, HashConstants
  <2>2. CopyAt(f.buff, 0, D) \in Block(T) /\ Take(CopyAt(f.buff, 0, D), 0 + Len(D)) = Take(f.buff, 0) \o D
    BY <1>11, <2>1, FilledBlock
  <2>3. f.buff \in Seq(T)
    BY <1>11, BlockIsSeq
  <2>4. Take(f.buff, 0) = <<>>
    BY <2>3, TakeAll
  <2>5. <<>> \o D = D
    BY <1>9, ConcatEmptySeq
  <2> QED BY <2>1, <2>2, <2>4, <2>5
<1>13. /\ h1.buff = buff /\ IsHash(h1) /\ h1.method = "sha" /\ h1.value = InitialValue
       /\ h1.idx = 0 /\ h1.squeezed = 0 /\ h1.lenLo = 0 /\ h1.lenHi = 0
  <2>1. h1 = [f EXCEPT !.buff = buff]
    OBVIOUS
  <2> HIDE DEF h1, buff
  <2> QED BY <1>7, <1>8, <2>1 DEF IsHash
<1> HIDE DEF h1, buff
<1>14. Absorbs(h1, <<>>)
  BY <1>11, <1>12, <1>13, HashInitAbsorbs
<1>15. used = IF Len(key) > BlockSize THEN H(key) ELSE key
  BY <1>6, <1>12, <1>13
<1>16. HMACOneCall!Key(n) = key
  BY HMACSameOperators DEF HMACOneCall!Key, key
<1>17. \A name : pad(name) = PadOfKey(n, name)
  BY <1>15, <1>16, HMACSameOperators DEF PadOfKey, HMACOneCall!Padding, H
<1> HIDE DEF pad
<1>18. PICK S2 : pad("ipad") \in Seq(S2) /\ Len(pad("ipad")) < LenWord
  BY <1>17, PadOfKeyLength
<1>19. IsHash(hash) /\ Absorbs(hash, <<>> \o pad("ipad")) /\ hash.method = "sha"
  BY <1>13, <1>14, <1>18, HashUpdateAbsorbs
<1>20. <<>> \o pad("ipad") = Join(pad("ipad"), <<>>)
  BY <1>18, ConcatEmptySeq DEF Join
<1> HIDE DEF hash
<1> DEFINE g == [key |-> n, msg |-> <<>>]
<1>21. g.key = n /\ g.msg = <<>> /\ g = [key |-> g.key, msg |-> g.msg]
  OBVIOUS
<1>22. x.hash = hash /\ x.ipad = pad("ipad") /\ x.opad = pad("opad")
       /\ x = [hash |-> x.hash, ipad |-> x.ipad, opad |-> x.opad]
  BY <1>1
<1>23. \E U : <<>> \in Seq(U)
  BY EmptySeq
<1> HIDE DEF g
<1>24. HMACAgrees(x, g)
  BY <1>17, <1>19, <1>20, <1>21, <1>22, <1>23 DEF HMACAgrees
<1> QED
  BY <1>24 DEF x, key, g

-----------------------------------------------------------------------------
(* HMAC: the tag. *)

\* The outer hash, in the hash context of the inner one.
LEMMA OuterAbsorbs ==
    ASSUME NEW x, NEW g, HMACAgrees(x, g)
    PROVE  /\ IsHash(HMACOuter(x)) /\ HMACOuter(x).method = "sha"
           /\ Absorbs(HMACOuter(x), Join(x.opad, H(Join(x.ipad, g.msg))))
<1> DEFINE m == Join(x.ipad, g.msg)
           D == Digest(x.hash, DigestLen)
           f == HashFinished(x.hash)
           h == HashUpdateOf(f, x.opad)
<1>1. IsHash(x.hash) /\ x.hash.method = "sha" /\ Absorbs(x.hash, m) /\ x.opad = PadOfKey(g.key, "opad")
  BY DEF HMACAgrees
<1>2. HMACOuter(x) = HashUpdateOf(h, D)
  BY DEF HMACOuter
<1> HIDE DEF m
<1>3. D = H(m)
  BY <1>1, DigestOfMessage
<1>4. IsHash(f) /\ Absorbs(f, <<>>) /\ f.method = "sha"
  BY <1>1, FinishedAbsorbs
<1> HIDE DEF f, D
<1>5. PICK W : x.opad \in Seq(W) /\ Len(x.opad) < LenWord
  BY <1>1, PadOfKeyLength
<1>6. IsHash(h) /\ Absorbs(h, <<>> \o x.opad) /\ h.method = "sha"
  BY <1>4, <1>5, HashUpdateAbsorbs
<1>7. <<>> \o x.opad = x.opad
  BY <1>5, ConcatEmptySeq
<1> HIDE DEF h
<1>8. PICK S1 : D \in Seq(S1) /\ Len(D) < LenWord
  BY <1>3, DigestLength
<1>9. /\ IsHash(HashUpdateOf(h, D)) /\ Absorbs(HashUpdateOf(h, D), x.opad \o D)
      /\ HashUpdateOf(h, D).method = "sha"
  BY <1>6, <1>7, <1>8, HashUpdateAbsorbs
<1> QED
  BY <1>2, <1>3, <1>9 DEF Join, m

\* ippsHMACFinal_rmf and ippsHMACGetTag_rmf return the one-call tag, cut off.
LEMMA TagIsHMAC ==
    ASSUME NEW x, NEW g, HMACAgrees(x, g), NEW n \in 1..DigestLen
    PROVE  /\ HMACTag(x, n) = HMACOneCall!Take(HMACOneCall!HMAC(g), n)
           /\ Len(HMACTag(x, n)) = n
<1> DEFINE m == Join(x.ipad, g.msg)
           o == Join(x.opad, H(m))
           u == HMACOuter(x)
           D == Digest(u, DigestLen)
<1>1. IsHash(u) /\ u.method = "sha" /\ Absorbs(u, o)
  BY OuterAbsorbs
<1>2. x.ipad = PadOfKey(g.key, "ipad") /\ x.opad = PadOfKey(g.key, "opad")
  BY DEF HMACAgrees
<1> HIDE DEF u, o
<1>3. D = H(o)
  BY <1>1, DigestOfMessage
<1>4. HMACOneCall!HMAC(g) = H(o)
  BY <1>2 DEF HMACOneCall!HMAC, PadOfKey, H, Join, o
<1> HIDE DEF D
<1>5. HMACTag(x, n) = Take(D, n)
  BY DEF HMACTag, D, u
<1>6. PICK W : D \in Seq(W) /\ Len(D) = DigestLen
  BY <1>3, DigestLength
<1>7. n \in 0..Len(D)
  BY <1>6, HashConstants
<1>8. Len(Take(D, n)) = n
  BY <1>6, <1>7, TakeDropLengths
<1> QED
  BY <1>3, <1>4, <1>5, <1>8, HMACSameOperators

\* ippsHMACFinal_rmf leaves the context with the inner pad of the same key and
\* nothing of a message.
LEMMA FinishedAgrees ==
    ASSUME NEW x, NEW g, HMACAgrees(x, g)
    PROVE  HMACAgrees(HMACFinished(x), [g EXCEPT !.msg = <<>>])
<1> DEFINE u == HMACOuter(x)
           f == HashFinished(u)
           h == HashUpdateOf(f, x.ipad)
           y == HMACFinished(x)
           v == [g EXCEPT !.msg = <<>>]
<1>1. IsHash(u) /\ u.method = "sha" /\ Absorbs(u, Join(x.opad, H(Join(x.ipad, g.msg))))
  BY OuterAbsorbs
<1>2. y = [x EXCEPT !.hash = h]
  BY DEF HMACFinished
<1> HIDE DEF u, y
<1>3. IsHash(f) /\ Absorbs(f, <<>>) /\ f.method = "sha"
  BY <1>1, FinishedAbsorbs
<1> HIDE DEF f
<1>4. /\ x.ipad = PadOfKey(g.key, "ipad") /\ x.opad = PadOfKey(g.key, "opad") /\ g.key \in Nat
      /\ g = [key |-> g.key, msg |-> g.msg]
      /\ x = [hash |-> x.hash, ipad |-> x.ipad, opad |-> x.opad]
  BY DEF HMACAgrees
<1>5. PICK W : x.ipad \in Seq(W) /\ Len(x.ipad) < LenWord
  BY <1>4, PadOfKeyLength
<1>6. IsHash(h) /\ Absorbs(h, <<>> \o x.ipad) /\ h.method = "sha"
  BY <1>3, <1>5, HashUpdateAbsorbs
<1>7. <<>> \o x.ipad = Join(x.ipad, <<>>)
  BY <1>5, ConcatEmptySeq DEF Join
<1> HIDE DEF h
<1>8. /\ y.hash = h /\ y.ipad = x.ipad /\ y.opad = x.opad
      /\ y = [hash |-> y.hash, ipad |-> y.ipad, opad |-> y.opad]
  BY <1>2, <1>4
<1>9. v.key = g.key /\ v.msg = <<>> /\ v = [key |-> v.key, msg |-> v.msg]
  BY <1>4
<1>10. \E U : <<>> \in Seq(U)
  BY EmptySeq
<1> HIDE DEF v
<1>11. HMACAgrees(y, v)
  BY <1>4, <1>6, <1>7, <1>8, <1>9, <1>10 DEF HMACAgrees
<1> QED
  BY <1>11 DEF y, v

\* ippsHMACUpdate_rmf.
LEMMA UpdatedAgrees ==
    ASSUME NEW x, NEW g, HMACAgrees(x, g), NEW W, NEW s \in Seq(W), Len(s) < LenWord
    PROVE  /\ HMACAgrees([x EXCEPT !.hash = HashUpdateOf(@, s)], [g EXCEPT !.msg = @ \o s])
           /\ Take(g.msg \o s, Len(g.msg)) = g.msg
<1> DEFINE h  == HashUpdateOf(x.hash, s)
           y  == [x EXCEPT !.hash = h]
           ms == g.msg \o s
           v  == [g EXCEPT !.msg = ms]
<1>1. /\ x.ipad = PadOfKey(g.key, "ipad") /\ x.opad = PadOfKey(g.key, "opad") /\ g.key \in Nat
      /\ g = [key |-> g.key, msg |-> g.msg]
      /\ x = [hash |-> x.hash, ipad |-> x.ipad, opad |-> x.opad]
      /\ IsHash(x.hash) /\ x.hash.method = "sha" /\ Absorbs(x.hash, Join(x.ipad, g.msg))
  BY DEF HMACAgrees
<1>2. PICK T : g.msg \in Seq(T)
  BY DEF HMACAgrees
<1>3. PICK S0 : x.ipad \in Seq(S0)
  BY <1>1, PadOfKeyLength
<1>4. IsHash(h) /\ h.method = "sha" /\ Absorbs(h, Join(x.ipad, g.msg) \o s)
  BY <1>1, HashUpdateAbsorbs
<1> DEFINE U == W \cup T
           V == S0 \cup U
<1>5. g.msg \in Seq(U) /\ s \in Seq(U)
  BY <1>2, BothKinds
<1> HIDE DEF U
<1>6. x.ipad \in Seq(V) /\ g.msg \in Seq(V) /\ s \in Seq(V)
  BY <1>3, <1>5, BothKinds
<1> HIDE DEF V
<1>7. Join(Join(x.ipad, g.msg), s) = Join(x.ipad, Join(g.msg, s))
  BY <1>6, JoinAssociative
<1>8. ms \in Seq(U) /\ Take(ms, Len(g.msg)) = g.msg
  BY <1>5, TakeOfJoined, JoinLengths DEF Join
<1>9. Absorbs(h, Join(x.ipad, ms))
  BY <1>4, <1>7 DEF Join
<1> HIDE DEF h, ms
<1>10. /\ y.hash = h /\ y.ipad = x.ipad /\ y.opad = x.opad
       /\ y = [hash |-> y.hash, ipad |-> y.ipad, opad |-> y.opad]
  BY <1>1
<1>11. v.key = g.key /\ v.msg = ms /\ v = [key |-> v.key, msg |-> v.msg]
  BY <1>1
<1> HIDE DEF y, v
<1>12. HMACAgrees(y, v)
  BY <1>1, <1>4, <1>8, <1>9, <1>10, <1>11 DEF HMACAgrees
<1> QED
  BY <1>8, <1>12 DEF h, y, v, ms

-----------------------------------------------------------------------------
(* HMAC: the invariant and the steps. *)

HMACInv ==
    /\ DOMAIN hmacCtx = Slots /\ DOMAIN hmacGiven = Slots
    /\ \A c \in Slots : \/ hmacCtx[c] = NoHMAC /\ hmacGiven[c] = HMACOneCall!Absent
                        \/ HMACAgrees(hmacCtx[c], hmacGiven[c])

\* A step that sets one slot keeps the invariant if that slot does.
LEMMA HMACSet ==
    ASSUME HMACInv, NEW c \in Slots, NEW x, NEW g, SetHMAC(c, x, g), HMACAgrees(x, g)
    PROVE  HMACInv' /\ hmacGiven' = [hmacGiven EXCEPT ![c] = g] /\ hmacGiven'[c] = g
<1>1. hmacCtx' = [hmacCtx EXCEPT ![c] = x] /\ hmacGiven' = [hmacGiven EXCEPT ![c] = g]
  BY DEF SetHMAC
<1>2. DOMAIN hmacCtx' = Slots /\ DOMAIN hmacGiven' = Slots /\ hmacGiven'[c] = g
  BY <1>1 DEF HMACInv
<1>3. ASSUME NEW d \in Slots
      PROVE  \/ hmacCtx'[d] = NoHMAC /\ hmacGiven'[d] = HMACOneCall!Absent
             \/ HMACAgrees(hmacCtx'[d], hmacGiven'[d])
  <2>1. CASE d = c
    BY <1>1, <2>1 DEF HMACInv
  <2>2. CASE d # c
    BY <1>1, <2>2 DEF HMACInv
  <2> QED BY <2>1, <2>2
<1>4. HMACInv'
  BY <1>2, <1>3 DEF HMACInv, HMACAgrees, Absorbs, IsHash, NoHMAC, NoContext
<1> QED
  BY <1>1, <1>2, <1>4

\* No key yet.
LEMMA HMACInitial == HMACStreamInit => HMACInv /\ HMACOneCall!Init
<1> SUFFICES ASSUME HMACStreamInit PROVE HMACInv /\ HMACOneCall!Init
  OBVIOUS
<1>1. /\ hmacCtx = [c \in Slots |-> NoHMAC] /\ hmacGiven = [c \in Slots |-> HMACOneCall!Absent]
      /\ hmacOut = <<>>
  BY DEF HMACStreamInit
<1> QED
  BY <1>1 DEF HMACInv, HMACOneCall!Init

\* A keyed context agrees with what it was given.
LEMMA KeyedContext ==
    ASSUME HMACInv, NEW c \in Slots, Keyed(c)
    PROVE  HMACAgrees(hmacCtx[c], hmacGiven[c]) /\ hmacGiven[c].key >= 0
BY DEF HMACInv, Keyed, HMACAgrees

\* ippsHMACInit_rmf.
LEMMA HMACInitStep ==
    ASSUME HMACInv, NEW c \in Slots, NEW n \in KeyLens, HMACInitCall(c, n)
    PROVE  HMACInv' /\ HMACOneCall!Next
<1> DEFINE x == HMACKeyed(Piece("key", n, 0, n))
           g == [key |-> n, msg |-> <<>>]
<1>1. SetHMAC(c, x, g) /\ hmacOut' = <<>>
  BY DEF HMACInitCall
<1>2. n \in Nat /\ n < LenWord
  BY HMACConstants
<1>3. HMACAgrees(x, g)
  BY <1>2, KeyedAgrees
<1> HIDE DEF x
<1>4. g.key = n /\ g.msg = <<>>
  OBVIOUS
<1> HIDE DEF g
<1>5. HMACInv' /\ hmacGiven' = [hmacGiven EXCEPT ![c] = g] /\ hmacGiven'[c] = g
  BY <1>1, <1>3, HMACSet
<1>6. HMACOneCall!HMACInit(c)
  <2>1. g = [key |-> hmacGiven'[c].key, msg |-> <<>>] /\ hmacGiven'[c].key >= 0
    <3>1. g = [key |-> g.key, msg |-> <<>>]
      BY <1>4 DEF g
    <3> QED BY <1>2, <1>4, <1>5, <3>1
  <2> QED BY <1>1, <1>5, <2>1 DEF HMACOneCall!HMACInit, HMACOneCall!Replace
<1> QED
  BY <1>5, <1>6 DEF HMACOneCall!Next

\* ippsHMACUpdate_rmf.
LEMMA HMACUpdateStep ==
    ASSUME HMACInv, NEW c \in Slots, NEW n \in HashPieces, HMACUpdate(c, n)
    PROVE  HMACInv' /\ HMACOneCall!Next
<1> DEFINE s == Piece("msg", c, Len(hmacGiven[c].msg), n)
           x == [hmacCtx[c] EXCEPT !.hash = HashUpdateOf(@, s)]
           g == [hmacGiven[c] EXCEPT !.msg = @ \o s]
<1>1. Keyed(c) /\ SetHMAC(c, x, g) /\ hmacOut' = <<>>
  BY DEF HMACUpdate
<1>2. HMACAgrees(hmacCtx[c], hmacGiven[c]) /\ hmacGiven[c].key >= 0
  BY <1>1, KeyedContext
<1>3. n \in Nat /\ n < LenWord
  BY HashConstants
<1>4. PICK W : s \in Seq(W) /\ Len(s) < LenWord
  BY <1>3, PieceLength
<1> HIDE DEF s
<1> DEFINE ms == hmacGiven[c].msg \o s
<1>5. HMACAgrees(x, g) /\ Take(ms, Len(hmacGiven[c].msg)) = hmacGiven[c].msg
  BY <1>2, <1>4, UpdatedAgrees
<1> HIDE DEF x, ms
<1>6. g = [hmacGiven[c] EXCEPT !.msg = ms] /\ g.msg = ms
  <2>1. hmacGiven[c] = [key |-> hmacGiven[c].key, msg |-> hmacGiven[c].msg]
    BY <1>2 DEF HMACAgrees
  <2> QED BY <2>1 DEF ms
<1> HIDE DEF g
<1>7. HMACInv' /\ hmacGiven' = [hmacGiven EXCEPT ![c] = g] /\ hmacGiven'[c] = g
  BY <1>1, <1>5, HMACSet
<1>8. HMACOneCall!Update(c)
  BY <1>1, <1>2, <1>5, <1>6, <1>7, HMACSameOperators DEF HMACOneCall!Update, HMACOneCall!Replace
<1> QED
  BY <1>7, <1>8 DEF HMACOneCall!Next

\* ippsHMACFinal_rmf.
LEMMA HMACFinalStep ==
    ASSUME HMACInv, NEW c \in Slots, NEW n, HMACFinal(c, n)
    PROVE  HMACInv' /\ HMACOneCall!Next
<1> DEFINE x == HMACFinished(hmacCtx[c])
           g == [hmacGiven[c] EXCEPT !.msg = <<>>]
<1>1. /\ Keyed(c) /\ n \in 1..DigestLen /\ SetHMAC(c, x, g) /\ hmacOut' = HMACTag(hmacCtx[c], n)
  BY DEF HMACFinal
<1>2. HMACAgrees(hmacCtx[c], hmacGiven[c]) /\ hmacGiven[c].key >= 0
  BY <1>1, KeyedContext
<1>3. /\ hmacOut' = HMACOneCall!Take(HMACOneCall!HMAC(hmacGiven[c]), n) /\ Len(hmacOut') = n
  BY <1>1, <1>2, TagIsHMAC
<1>4. HMACAgrees(x, g)
  BY <1>2, FinishedAgrees
<1> HIDE DEF x, g
<1>5. HMACInv' /\ hmacGiven' = [hmacGiven EXCEPT ![c] = g]
  BY <1>1, <1>4, HMACSet
<1>6. HMACOneCall!Final(c)
  BY <1>1, <1>2, <1>3, <1>5
     DEF HMACOneCall!Final, HMACOneCall!Tagged, HMACOneCall!Replace, g
<1> QED
  BY <1>5, <1>6 DEF HMACOneCall!Next

\* ippsHMACGetTag_rmf works on a duplicate.
LEMMA HMACGetTagStep ==
    ASSUME HMACInv, NEW c \in Slots, NEW n, HMACGetTag(c, n)
    PROVE  HMACInv' /\ HMACOneCall!Next
<1>1. /\ Keyed(c) /\ n \in 1..DigestLen /\ hmacOut' = HMACTag(hmacCtx[c], n)
      /\ hmacCtx' = hmacCtx /\ hmacGiven' = hmacGiven
  BY DEF HMACGetTag
<1>2. HMACAgrees(hmacCtx[c], hmacGiven[c]) /\ hmacGiven[c].key >= 0
  BY <1>1, KeyedContext
<1>3. /\ hmacOut' = HMACOneCall!Take(HMACOneCall!HMAC(hmacGiven[c]), n) /\ Len(hmacOut') = n
  BY <1>1, <1>2, TagIsHMAC
<1>4. HMACInv'
  BY <1>1 DEF HMACInv, HMACAgrees, Absorbs, IsHash, NoHMAC, NoContext
<1>5. HMACOneCall!GetTag(c)
  BY <1>1, <1>2, <1>3 DEF HMACOneCall!GetTag, HMACOneCall!Tagged
<1> QED
  BY <1>4, <1>5 DEF HMACOneCall!Next

\* ippsHMACDuplicate_rmf: the copy goes on by itself.
LEMMA HMACDuplicateStep ==
    ASSUME HMACInv, NEW c \in Slots, NEW d \in Slots, HMACDuplicate(c, d)
    PROVE  HMACInv' /\ HMACOneCall!Next
<1>1. Keyed(c) /\ SetHMAC(d, hmacCtx[c], hmacGiven[c]) /\ hmacOut' = <<>>
  BY DEF HMACDuplicate
<1>2. HMACAgrees(hmacCtx[c], hmacGiven[c]) /\ hmacGiven[c].key >= 0
  BY <1>1, KeyedContext
<1>3. HMACInv' /\ hmacGiven' = [hmacGiven EXCEPT ![d] = hmacGiven[c]]
  BY <1>1, <1>2, HMACSet
<1>4. HMACOneCall!Copy(c, d)
  BY <1>1, <1>2, <1>3 DEF HMACOneCall!Copy, HMACOneCall!Replace
<1> QED
  BY <1>3, <1>4 DEF HMACOneCall!Next

\* Every step keeps the invariant and is a step, or a stutter, of the one-call HMAC.
LEMMA HMACStep ==
    ASSUME HMACInv, [HMACNext]_hmacVars
    PROVE  HMACInv' /\ [HMACOneCall!Next]_HMACOneCall!vars
<1>1. CASE HMACNext
  <2>1. HMACInv' /\ HMACOneCall!Next
    BY <1>1, HMACInitStep, HMACUpdateStep, HMACFinalStep, HMACGetTagStep, HMACDuplicateStep
       DEF HMACNext
  <2> QED BY <2>1
<1>2. CASE UNCHANGED hmacVars
  <2>1. hmacCtx' = hmacCtx /\ hmacGiven' = hmacGiven /\ hmacOut' = hmacOut
    BY <1>2 DEF hmacVars
  <2>2. HMACInv'
    BY <2>1 DEF HMACInv, HMACAgrees, Absorbs, IsHash, NoHMAC, NoContext
  <2>3. UNCHANGED HMACOneCall!vars
    BY <2>1 DEF HMACOneCall!vars
  <2> QED BY <2>2, <2>3
<1> QED
  BY <1>1, <1>2

\* Whatever the pieces, the tags and the copies, an HMAC context is in the inner
\* hash of the next tag: its hash context has taken in the pad and the message.
THEOREM HMACContextsHoldTheirMessage == HMACSpec => []HMACInv
<1>1. HMACStreamInit => HMACInv
  BY HMACInitial
<1>2. HMACInv /\ [HMACNext]_hmacVars => HMACInv'
  BY HMACStep
<1> QED
  BY <1>1, <1>2, PTL DEF HMACSpec

\* For every key length, tag length and cutting, a tag is that of one call on
\* the whole message since the last one.
THEOREM HMACPiecesAreOneCall == HMACSpec => HMACImplementsOneCall
<1>1. HMACStreamInit => HMACOneCall!Init
  BY HMACInitial
<1>2. HMACInv /\ [HMACNext]_hmacVars => [HMACOneCall!Next]_HMACOneCall!vars
  BY HMACStep
<1>3. HMACSpec => []HMACInv
  BY HMACContextsHoldTheirMessage
<1> QED
  BY <1>1, <1>2, <1>3, PTL DEF HMACSpec, HMACImplementsOneCall, HMACOneCall!Spec

-----------------------------------------------------------------------------
(* AES-CMAC and AES-CCM. *)

\* Bytes the buffer and the MAC are made of.
CMACBytes == SUBSET ({<<"msg", id, i>> : id \in Int, i \in Int} \cup {<<"0x80">>})

\* The context holds the message: whole blocks of it in the MAC, the rest,
\* with the last block whatever its length, in the buffer.
CMACHolds(c, msg) ==
    \E m, r : /\ Holds(CMACBytes, c.mac, c.buff, c.index, m, r)
              /\ msg = Join(m, r)
              /\ c.index = 0 => m = <<>>

IsCMAC(c) == c = [index |-> c.index, buff |-> c.buff, mac |-> c.mac]

CMACInv ==
    /\ IsCMAC(cmac)
    /\ cmacGiven \in [id : Nat, msg : Seq(CMACBytes)]
    /\ CMACHolds(cmac, cmacGiven.msg)

\* What the caller passes is a sequence of such bytes.
LEMMA CMACPiece ==
    ASSUME NEW id \in Nat, NEW from \in Nat, NEW n \in Nat
    PROVE  /\ Piece("msg", id, from, n) \in Seq(CMACBytes)
           /\ Len(Piece("msg", id, from, n)) = n
<1>1. \A i \in 1..n : {<<"msg", id, from + i>>} \in CMACBytes
  <2> TAKE i \in 1..n
  <2>1. from + i \in Int /\ id \in Int
    OBVIOUS
  <2> QED BY <2>1 DEF CMACBytes
<1> HIDE DEF CMACBytes
<1> QED
  BY <1>1 DEF Piece

\* The padding is made of such bytes.
LEMMA CMACZero == {} \in CMACBytes /\ {<<"0x80">>} \in CMACBytes
BY DEF CMACBytes

-----------------------------------------------------------------------------
(* ippsAES_CMACUpdate. *)

\* A piece moves what the context holds on by the piece.
LEMMA CMACUpdateHolds ==
    ASSUME NEW c, IsCMAC(c), NEW msg \in Seq(CMACBytes), CMACHolds(c, msg),
           NEW s \in Seq(CMACBytes), Len(s) > 0
    PROVE  /\ IsCMAC(CMACUpdateOf(c, s))
           /\ CMACHolds(CMACUpdateOf(c, s), msg \o s)
<1> DEFINE T    == CMACBytes
           B    == BlockSize
           loc  == IF c.index = 0 THEN 0 ELSE Lesser(Len(s), B - c.index)
           s1   == Take(s, loc)
           rest == Drop(s, loc)
           buf  == CopyAt(c.buff, c.index, s1)
           b    == [c EXCEPT !.buff = buf, !.index = @ + loc]
           f    == IF b.index = B THEN [b EXCEPT !.mac = Append(@, b.buff), !.index = 0]
                                  ELSE b
           w    == ((Len(rest) - 1) \div B) * B
           t1   == Take(rest, w)
           t2   == Drop(rest, w)
           g    == [f EXCEPT !.mac = @ \o WholeBlocks(t1),
                             !.buff = CopyAt(@, 0, t2), !.index = @ + Len(rest) - w]
<1> PICK m, r : /\ Holds(T, c.mac, c.buff, c.index, m, r)
                /\ msg = Join(m, r)
                /\ c.index = 0 => m = <<>>
  BY DEF CMACHolds
<1>1. B \in Nat \ {0} /\ Len(s) \in Nat
  BY BlockConstants
<1>2. /\ c.index \in 0..B /\ c.buff \in Block(T) /\ c.mac = WholeBlocks(m)
      /\ m \in Seq(T) /\ Aligned(m) /\ r \in Seq(T) /\ Len(r) = c.index
  BY DEF Holds
<1>3. /\ loc \in 0..Len(s) /\ c.index + loc \in 0..B
      /\ c.index # 0 => (loc = Len(s) \/ c.index + loc = B)
      /\ c.index = 0 => loc = 0
  BY <1>1, <1>2 DEF Lesser
<1>4. CMACUpdateOf(c, s) = IF rest = <<>> THEN b ELSE g
  BY DEF CMACUpdateOf
<1> HIDE DEF loc, g
<1>5. /\ s1 \in Seq(T) /\ Len(s1) = loc /\ rest \in Seq(T) /\ Len(rest) = Len(s) - loc
      /\ s = s1 \o rest
  BY <1>3, TakeDrop, TakeDropLengths
<1> HIDE DEF s1, rest
<1>6. Holds(T, c.mac, buf, c.index + loc, m, r \o s1)
  <2>1. c.index + Len(s1) <= B
    BY <1>1, <1>3, <1>5
  <2>2. Holds(T, c.mac, buf, c.index + Len(s1), m, r \o s1)
    BY <1>5, <2>1, KeepInBuffer
  <2> QED BY <1>5, <2>2
<1>7. r \o s1 \in Seq(T) /\ buf \in Block(T) /\ c.index + loc = Len(r \o s1)
  BY <1>6 DEF Holds
<1>8. IsCMAC(b) /\ b.index = c.index + loc /\ b.buff = buf /\ b.mac = c.mac
  <2>1. b = [c EXCEPT !.buff = buf, !.index = @ + loc]
    OBVIOUS
  <2> HIDE DEF b, buf
  <2> QED BY <2>1 DEF IsCMAC
<1> HIDE DEF buf, b, g
<1>9. CASE rest = <<>>
  <2>1. s = s1 /\ loc = Len(s)
    <3>1. Len(rest) = 0
      BY <1>9
    <3>2. s1 \o <<>> = s1
      BY <1>5, ConcatEmptySeq
    <3> QED BY <3>1, <3>2, <1>1, <1>3, <1>5, <1>9
  <2>2. Join(msg, s) = Join(m, r \o s1)
    <3>1. m \in Seq(T) /\ r \in Seq(T) /\ s1 \in Seq(T)
      BY <1>2, <1>5
    <3>2. Join(Join(m, r), s1) = Join(m, Join(r, s1))
      BY <3>1, JoinAssociative
    <3> QED BY <2>1, <3>2 DEF Join
  <2>3. ~(c.index + loc = 0)
    BY <1>1, <1>2, <1>3, <2>1
  <2>5. Holds(T, b.mac, b.buff, b.index, m, r \o s1) /\ ~(b.index = 0)
    BY <1>6, <1>8, <2>3
  <2>6. CMACHolds(b, msg \o s)
    <3>1. Join(msg, s) = msg \o s
      BY DEF Join
    <3> QED BY <2>2, <2>5, <3>1 DEF CMACHolds
  <2> QED
    BY <1>4, <1>8, <1>9, <2>6
<1>10. CASE rest # <<>>
  <2> DEFINE m1 == m \o (r \o s1)
             l  == Len(rest)
  <2>1. l \in Nat /\ l > 0
    BY <1>5, <1>10, EmptySeq
  <2>2. c.index = 0 \/ c.index + loc = B
    BY <1>1, <1>2, <1>3, <1>5, <2>1
  <2>3. /\ f.index = 0 /\ f.buff = buf
        /\ IsCMAC(f)
        /\ m1 \in Seq(T) /\ Aligned(m1) /\ f.mac = WholeBlocks(m1)
    <3>1. CASE c.index + loc = B
      <4>1. IsCMAC(f) /\ f.index = 0 /\ f.buff = buf /\ f.mac = Append(c.mac, buf)
        <5>1. f = [b EXCEPT !.mac = Append(@, b.buff), !.index = 0]
          BY <1>8, <3>1
        <5> HIDE DEF f
        <5> QED BY <5>1, <1>8 DEF IsCMAC
      <4> HIDE DEF f
      <4>2. m1 \in Seq(T) /\ Aligned(m1) /\ Append(c.mac, buf) = WholeBlocks(m1)
        <5> DEFINE k == c.index + loc
                   e == r \o s1
        <5>1. Holds(T, c.mac, buf, k, m, e) /\ k = BlockSize
          BY <1>6, <3>1
        <5> HIDE DEF k, e
        <5>2. m \o e \in Seq(T) /\ Aligned(m \o e) /\ Append(c.mac, buf) = WholeBlocks(m \o e)
          BY <5>1, ProcessBuffer
        <5> QED BY <5>2 DEF e
      <4> QED BY <4>1, <4>2
    <3>2. CASE c.index + loc # B
      <4>1. c.index = 0 /\ loc = 0 /\ c.index + loc = 0
        BY <2>2, <1>3, <3>2
      <4>2. IsCMAC(f) /\ f.index = 0 /\ f.buff = buf /\ f.mac = c.mac
        BY <1>8, <3>2, <4>1
      <4> HIDE DEF f
      <4>3. r = <<>> /\ s1 = <<>>
        BY <1>2, <1>5, <4>1, EmptySeq
      <4>4. r \o s1 = <<>> /\ m1 = m
        <5>1. <<>> \o <<>> = <<>>
          BY <1>5, <4>3, ConcatEmptySeq
        <5>2. m \o <<>> = m
          BY <1>2, ConcatEmptySeq
        <5> QED BY <4>3, <5>1, <5>2
      <4> QED BY <1>2, <4>2, <4>4
    <3> QED BY <3>1, <3>2
  <2> HIDE DEF f, m1
  <2>4. (l - 1) \div B \in Nat /\ w \in 0..l /\ l - w \in 1..B
    <3> DEFINE q == (l - 1) \div B
               e == (l - 1) % B
    <3>1. l - 1 \in Nat
      BY <2>1
    <3>2. q \in Nat /\ e \in 0..B - 1 /\ l - 1 = B * q + e
      <4> HIDE DEF l
      <4> QED BY <3>1, BlocksAndRest
    <3>3. w = q * B
      OBVIOUS
    <3> HIDE DEF q, e, w, l
    <3>4. w = B * q /\ w \in Nat
      BY <1>1, <3>2, <3>3
    <3>5. w \in 0..l /\ l - w \in 1..B
      BY <1>1, <2>1, <3>2, <3>4
    <3> QED BY <3>2, <3>5 DEF q
  <2>5. /\ t1 \in Seq(T) /\ Len(t1) = w /\ t2 \in Seq(T) /\ Len(t2) = l - w
        /\ rest = t1 \o t2
    <3> HIDE DEF w
    <3> QED BY <1>5, <2>4, TakeDrop, TakeDropLengths
  <2>6. Aligned(t1)
    <3>1. Len(t1) = ((l - 1) \div B) * B
      BY <2>5
    <3> HIDE DEF l, t1
    <3> QED BY <2>4, <2>5, <3>1, AlignedLengths
  <2> HIDE DEF t1, t2, w, l
  <2>7. /\ m1 \o t1 \in Seq(T) /\ Aligned(m1 \o t1)
        /\ f.mac \o WholeBlocks(t1) = WholeBlocks(m1 \o t1)
    BY <2>3, <2>5, <2>6, ProcessWhole
  <2>8. Holds(T, WholeBlocks(m1 \o t1), CopyAt(buf, 0, t2), Len(t2), m1 \o t1, t2)
    <3>1. Holds(T, WholeBlocks(m1 \o t1), buf, 0, m1 \o t1, <<>>)
      BY <1>7, <2>7, NothingWaits
    <3>2. 0 + Len(t2) <= B /\ 0 + Len(t2) = Len(t2)
      BY <1>1, <2>4, <2>5
    <3>3. <<>> \o t2 = t2
      BY <2>5, ConcatEmptySeq
    <3>4. Holds(T, WholeBlocks(m1 \o t1), CopyAt(buf, 0, t2), 0 + Len(t2), m1 \o t1, <<>> \o t2)
      BY <2>5, <3>1, <3>2, KeepInBuffer
    <3> QED BY <3>2, <3>3, <3>4
  <2>9. /\ IsCMAC(g) /\ g.index = Len(t2) /\ g.buff = CopyAt(buf, 0, t2)
        /\ g.mac = WholeBlocks(m1 \o t1)
    <3>1. 0 + l - w = Len(t2)
      BY <2>1, <2>4, <2>5
    <3>2. g = [f EXCEPT !.mac = @ \o WholeBlocks(t1), !.buff = CopyAt(@, 0, t2),
                        !.index = @ + l - w]
      BY DEF g, l
    <3>3. /\ IsCMAC(g) /\ g.index = f.index + l - w /\ g.buff = CopyAt(f.buff, 0, t2)
          /\ g.mac = f.mac \o WholeBlocks(t1)
      BY <2>3, <3>2 DEF IsCMAC
    <3> QED BY <2>3, <2>7, <3>1, <3>3
  <2>10. msg \o s = Join(m1 \o t1, t2)
    <3>1. /\ m \in Seq(T) /\ r \in Seq(T) /\ s1 \in Seq(T) /\ rest \in Seq(T)
          /\ m1 \in Seq(T) /\ t1 \in Seq(T) /\ t2 \in Seq(T) /\ msg \in Seq(T)
      BY <1>2, <1>5, <2>3, <2>5
    <3>2. Join(Join(msg, s1), rest) = Join(msg, Join(s1, rest))
      BY <3>1, JoinAssociative
    <3>3. Join(Join(m, r), s1) = Join(m, Join(r, s1))
      BY <3>1, JoinAssociative
    <3>4. Join(Join(m1, t1), t2) = Join(m1, Join(t1, t2))
      BY <3>1, JoinAssociative
    <3>5. /\ m1 = Join(m, Join(r, s1)) /\ s = Join(s1, rest)
          /\ rest = Join(t1, t2) /\ msg = Join(m, r)
      BY <1>5, <2>5 DEF m1, Join
    <3>6. Join(msg, s) = Join(Join(m1, t1), t2)
      BY <3>2, <3>3, <3>4, <3>5
    <3> QED BY <3>6 DEF Join
  <2>12. CMACHolds(g, msg \o s)
    <3>1. Holds(T, g.mac, g.buff, g.index, m1 \o t1, t2) /\ ~(g.index = 0)
      <4>1. ~(Len(t2) = 0)
        BY <2>4, <2>5
      <4> QED BY <2>8, <2>9, <4>1
    <3> QED BY <2>10, <3>1 DEF CMACHolds
  <2> QED
    BY <1>4, <1>10, <2>9, <2>12
<1> QED
  BY <1>9, <1>10

-----------------------------------------------------------------------------
(* The tag. *)

\* The operators on bytes and blocks are the same on both sides.
LEMMA CMACSameOperators ==
    /\ \A s : CMACOneCall!WholeBlocks(s) = WholeBlocks(s)
    /\ \A s : CMACOneCall!PaddedBlocks(s) = PaddedBlocks(s)
    /\ \A b, k, s : CMACOneCall!XorAt(b, k, s) = XorAt(b, k, s)
    /\ \A s, k : CMACOneCall!Take(s, k) = Take(s, k)
<1>1. \A b, k, s : CMACOneCall!CopyAt(b, k, s) = CopyAt(b, k, s)
  BY DEF CopyAt, CMACOneCall!CopyAt
<1>2. \A s, k : CMACOneCall!Take(s, k) = Take(s, k)
  BY DEF Take, CMACOneCall!Take, Lesser, CMACOneCall!Lesser
<1>3. \A s, k : CMACOneCall!Drop(s, k) = Drop(s, k)
  BY DEF Drop, CMACOneCall!Drop
<1>4. \A n : CMACOneCall!Zeros(n) = Zeros(n)
  BY DEF Zeros, CMACOneCall!Zeros
<1>5. \A b, k, s : CMACOneCall!XorAt(b, k, s) = XorAt(b, k, s)
  BY DEF XorAt, CMACOneCall!XorAt, Xor, CMACOneCall!Xor
<1>6. \A s : CMACOneCall!WholeBlocks(s) = WholeBlocks(s)
  BY DEF WholeBlocks, CMACOneCall!WholeBlocks
<1>7. \A s : CMACOneCall!PaddedBlocks(s) = PaddedBlocks(s)
  BY <1>1, <1>2, <1>3, <1>4 DEF PaddedBlocks, CMACOneCall!PaddedBlocks
<1> QED
  BY <1>2, <1>5, <1>6, <1>7

\* The blocks of the message are those in the MAC, and the last one.
LEMMA CMACTagIsOneCall ==
    ASSUME NEW c, NEW msg \in Seq(CMACBytes), CMACHolds(c, msg), NEW n
    PROVE  CMACTagOf(c, n) = CMACOneCall!Tag(msg, n)
<1> DEFINE T     == CMACBytes
           B     == BlockSize
           x80   == {<<"0x80">>}
           fullS == Len(msg) > 0 /\ Len(msg) % B = 0
           fullC == c.index = B
           key(f) == [i \in 1..B |-> {<<IF f THEN "K1" ELSE "K2", i>>}]
           text  == CopyAt(Zeros(B), 0, Take(c.buff, c.index))
           last  == IF fullC THEN text ELSE CopyAt(text, c.index, <<x80>>)
           blocks == IF fullS THEN WholeBlocks(msg) ELSE PaddedBlocks(Append(msg, x80))
<1> PICK m, r : /\ Holds(T, c.mac, c.buff, c.index, m, r)
                /\ msg = Join(m, r)
                /\ c.index = 0 => m = <<>>
  BY DEF CMACHolds
<1>1. B \in Nat \ {0} /\ x80 \in T /\ {} \in T /\ Zeros(B) \in Block(T) /\ msg \in Seq(T)
  BY BlockConstants, CMACZero DEF Zeros, Block
<1>2. /\ c.index \in 0..B /\ c.buff \in Block(T) /\ c.mac = WholeBlocks(m)
      /\ m \in Seq(T) /\ Aligned(m) /\ r \in Seq(T) /\ Len(r) = c.index
      /\ Take(c.buff, c.index) = r
  BY DEF Holds
<1> HIDE DEF x80, T
<1>3. fullS <=> fullC
  <2>1. msg \in Seq(T) /\ Len(msg) = Len(m) + Len(r) /\ (Aligned(msg) <=> Aligned(r))
    BY <1>2, AlignedJoin, ConcatProperties DEF Join
  <2>2. c.index = 0 => Len(msg) = 0
    BY <1>2, <2>1, EmptySeq
  <2>3. c.index # 0 => Len(msg) > 0
    BY <1>1, <1>2, <2>1
  <2>4. c.index # 0 => (Aligned(r) <=> c.index = B)
    <3>1. Len(r) = B => Aligned(r)
      BY <1>2, AlignedLengths
    <3>2. Len(r) \in 1..B - 1 => ~Aligned(r)
      BY <1>2, AlignedLengths
    <3> QED BY <1>1, <1>2, <3>1, <3>2
  <2>5. fullS <=> Len(msg) > 0 /\ Aligned(msg)
    BY DEF Aligned
  <2> HIDE DEF fullS
  <2> QED BY <1>1, <1>2, <2>1, <2>2, <2>3, <2>4, <2>5
<1>4. WholeBlocks(m) \in Seq(Block(T))
  BY <1>2, WholeBlocksBytes
<1>5. text = CopyAt(Zeros(B), 0, r)
  BY <1>2
<1> HIDE DEF text
<1>6. last \in Block(T) /\ blocks = WholeBlocks(m) \o <<last>>
  <2>1. CASE fullC
    <3>1. text = r /\ r \in Block(T)
      <4>1. 0 + Len(r) = B /\ 0 \in 0..B
        BY <1>1, <1>2, <2>1
      <4>2. CopyAt(Zeros(B), 0, r) = Take(Zeros(B), 0) \o r
        BY <1>1, <1>2, <4>1, FullBlock
      <4>3. Take(Zeros(B), 0) = <<>>
        <5>1. Zeros(B) \in Seq(T)
          BY <1>1, BlockIsSeq
        <5> QED BY <5>1, TakeAll
      <4>4. <<>> \o r = r
        BY <1>2, ConcatEmptySeq
      <4> QED BY <1>2, <1>5, <2>1, <4>2, <4>3, <4>4, BlockIsSeq
    <3>2. WholeBlocks(m \o r) = WholeBlocks(m) \o WholeBlocks(r)
      BY <1>2, WholeBlocksJoin
    <3>3. WholeBlocks(r) = <<r>>
      BY <1>2, <2>1, OneBlock
    <3>4. msg = m \o r
      BY DEF Join
    <3>5. blocks = WholeBlocks(msg) /\ last = text
      BY <1>3, <2>1
    <3> HIDE DEF blocks, last
    <3> QED BY <3>1, <3>2, <3>3, <3>4, <3>5
  <2>2. CASE ~fullC
    <3> DEFINE e == r \o <<x80>>
    <3>1. last = CopyAt(Zeros(B), 0, e) /\ last \in Block(T)
      <4>1. <<x80>> \in Seq(T) /\ Len(<<x80>>) = 1
        BY <1>1
      <4>2. CopyAt(CopyAt(Zeros(B), 0, r), Len(r), <<x80>>) = CopyAt(Zeros(B), 0, e)
        <5>1. DOMAIN Zeros(B) = 1..B /\ B \in Nat
          BY <1>1 DEF Zeros
        <5> DEFINE z == <<x80>>
        <5>2. z \in Seq(T)
          BY <4>1
        <5> HIDE DEF z
        <5>3. CopyAt(CopyAt(Zeros(B), 0, r), Len(r), z) = CopyAt(Zeros(B), 0, r \o z)
          BY <1>2, <5>1, <5>2, CopyTwice
        <5> QED BY <5>3 DEF z
      <4>3. CopyAt(Zeros(B), 0, r) \in Block(T)
        <5>1. 0 \in 0..B /\ 0 + Len(r) <= B
          BY <1>1, <1>2
        <5> QED BY <1>1, <1>2, <5>1, FilledBlock
      <4>4. Len(r) \in 0..B /\ Len(r) + Len(<<x80>>) <= B
        BY <1>1, <1>2, <2>2, <4>1
      <4>5. CopyAt(CopyAt(Zeros(B), 0, r), Len(r), <<x80>>) \in Block(T)
        BY <4>1, <4>3, <4>4, FilledBlock
      <4>6. last = CopyAt(text, Len(r), <<x80>>)
        BY <1>2, <2>2
      <4> HIDE DEF last, e
      <4> QED BY <1>5, <4>2, <4>5, <4>6
    <3>2. e \in Seq(T) /\ Len(e) \in 1..B
      <4>1. <<x80>> \in Seq(T) /\ Len(<<x80>>) = 1
        BY <1>1
      <4>2. e \in Seq(T) /\ Len(e) = Len(r) + 1
        BY <1>2, <4>1, ConcatProperties
      <4> HIDE DEF e
      <4> QED BY <1>1, <1>2, <2>2, <4>2
    <3>3. Append(msg, x80) = m \o e
      <4>1. msg \in Seq(T) /\ <<x80>> \in Seq(T)
        BY <1>1
      <4>2. Append(msg, x80) = Join(msg, <<x80>>)
        BY <1>1, <4>1, AppendIsConcat DEF Join
      <4>3. Join(Join(m, r), <<x80>>) = Join(m, Join(r, <<x80>>))
        <5> DEFINE z == <<x80>>
        <5>1. z \in Seq(T)
          BY <4>1
        <5> HIDE DEF z
        <5>2. Join(Join(m, r), z) = Join(m, Join(r, z))
          BY <1>2, <5>1, JoinAssociative
        <5> QED BY <5>2 DEF z
      <4>4. Join(r, <<x80>>) = e
        BY DEF Join
      <4> HIDE DEF e
      <4>5. Append(msg, x80) = Join(m, e)
        BY <4>2, <4>3, <4>4
      <4> QED BY <4>5 DEF Join
    <3>4. blocks = PaddedBlocks(Append(msg, x80))
      BY <1>3, <2>2
    <3> HIDE DEF e, blocks, last
    <3>5. PaddedBlocks(m \o e) = WholeBlocks(m) \o PaddedBlocks(e)
      BY <1>1, <1>2, <3>2, PaddedBlocksJoin
    <3>6. PaddedBlocks(e) = <<CopyAt(Zeros(B), 0, e)>>
      BY <1>1, <3>2, PaddedOneBlock
    <3> QED BY <3>1, <3>3, <3>4, <3>5, <3>6
  <2> QED BY <2>1, <2>2
<1> HIDE DEF last, blocks, fullS, key
<1>7. CMACTagOf(c, n) = [chain |-> Append(c.mac, XorAt(last, 0, key(fullC))), len |-> n]
  BY DEF CMACTagOf, last, text, key, x80
<1>8. CMACOneCall!Tag(msg, n)
        = [chain |-> [blocks EXCEPT ![Len(blocks)] = XorAt(@, 0, key(fullC))], len |-> n]
  BY <1>3, CMACSameOperators
     DEF CMACOneCall!Tag, CMACOneCall!Blocks, blocks, fullS, key, x80
<1> DEFINE y == XorAt(last, 0, key(fullC))
           u == WholeBlocks(m) \o <<last>>
<1>9. u[Len(u)] = last
  <2>1. WholeBlocks(m) \in Seq(Block(T)) /\ <<last>> \in Seq(Block(T)) /\ Len(<<last>>) = 1
    BY <1>4, <1>6
  <2>2. Len(WholeBlocks(m)) \in Nat
    BY <1>4
  <2>3. u[Len(WholeBlocks(m)) + 1] = <<last>>[1] /\ Len(u) = Len(WholeBlocks(m)) + 1
    BY <2>1, <2>2, ConcatProperties
  <2> HIDE DEF u
  <2> QED BY <2>3
<1> HIDE DEF y
<1>10. [u EXCEPT ![Len(u)] = y] = Append(WholeBlocks(m), y)
  BY <1>4, <1>6, ReplaceLast
<1> HIDE DEF u
<1>11. [blocks EXCEPT ![Len(blocks)] = XorAt(@, 0, key(fullC))] = [u EXCEPT ![Len(u)] = y]
  BY <1>6, <1>9 DEF u, y
<1> QED
  BY <1>2, <1>7, <1>8, <1>10, <1>11 DEF y

-----------------------------------------------------------------------------
(* The invariant and the refinement. *)

\* A context whose MAC and index are cleared holds the empty message.
LEMMA CMACNothing ==
    ASSUME NEW d, d.index = 0, d.mac = <<>>, d.buff \in Block(CMACBytes)
    PROVE  CMACHolds(d, <<>>)
<1> DEFINE T == CMACBytes
<1>1. <<>> \in Seq(T) /\ Len(<<>>) = 0 /\ 0 < BlockSize
  BY BlockConstants, EmptySeq
<1> HIDE DEF T
<1>2. Aligned(<<>>) /\ WholeBlocks(<<>>) = <<>>
  BY <1>1, AlignedLengths, NoBlock
<1>3. Holds(T, <<>>, d.buff, 0, <<>>, <<>>)
  BY <1>1, <1>2, NothingWaits DEF T
<1>4. <<>> = Join(<<>>, <<>>)
  BY <1>1, ConcatEmptySeq DEF Join
<1> QED
  BY <1>3, <1>4 DEF CMACHolds, T

\* init(): the empty message is held, whatever is left in the buffer.
LEMMA CMACClearedHolds ==
    ASSUME NEW c, IsCMAC(c), NEW msg \in Seq(CMACBytes), CMACHolds(c, msg)
    PROVE  /\ IsCMAC(CMACCleared(c))
           /\ CMACHolds(CMACCleared(c), <<>>)
<1> DEFINE d == CMACCleared(c)
<1>1. d = [c EXCEPT !.index = 0, !.mac = <<>>]
  BY DEF CMACCleared
<1> HIDE DEF d
<1>2. IsCMAC(d) /\ d.index = 0 /\ d.mac = <<>> /\ d.buff = c.buff
  BY <1>1 DEF IsCMAC
<1>3. c.buff \in Block(CMACBytes)
  BY DEF CMACHolds, Holds
<1>4. CMACHolds(d, <<>>)
  BY <1>2, <1>3, CMACNothing
<1> QED
  BY <1>2, <1>4 DEF d

\* A new context holds the empty message.
LEMMA CMACInitial == CMACInit => CMACInv
<1> SUFFICES ASSUME CMACInit PROVE CMACInv
  OBVIOUS
<1> DEFINE k == [index |-> 0, buff |-> Zeros(BlockSize), mac |-> <<>>]
<1>1. cmac = CMACCleared(k) /\ cmacGiven = [id |-> 1, msg |-> <<>>]
  BY DEF CMACInit
<1>2. Zeros(BlockSize) \in Block(CMACBytes)
  BY CMACZero DEF Zeros, Block
<1>3. IsCMAC(k) /\ k.index = 0 /\ k.mac = <<>> /\ k.buff = Zeros(BlockSize)
  BY DEF IsCMAC
<1> HIDE DEF k
<1>4. CMACHolds(k, <<>>) /\ <<>> \in Seq(CMACBytes)
  BY <1>2, <1>3, CMACNothing, EmptySeq
<1>5. IsCMAC(cmac) /\ CMACHolds(cmac, <<>>)
  BY <1>1, <1>3, <1>4, CMACClearedHolds
<1>6. <<>> \in Seq(CMACBytes)
  BY EmptySeq
<1>7. cmacGiven \in [id : Nat, msg : Seq(CMACBytes)] /\ cmacGiven.msg = <<>>
  BY <1>1, <1>6
<1> QED
  BY <1>5, <1>7 DEF CMACInv

\* A piece adds to the message and returns no tag.
LEMMA CMACUpdateStep ==
    ASSUME CMACInv, NEW n \in Int, CMACUpdate(n)
    PROVE  CMACInv' /\ CMACOneCall!Update
<1> DEFINE s   == Piece("msg", cmacGiven.id, Len(cmacGiven.msg), n)
           msg == cmacGiven.msg
<1>1. /\ n > 0 /\ cmac' = CMACUpdateOf(cmac, s) /\ cmacOut' = <<>>
      /\ cmacGiven' = [cmacGiven EXCEPT !.msg = @ \o s]
  BY DEF CMACUpdate
<1>2. /\ IsCMAC(cmac) /\ cmacGiven.id \in Nat /\ msg \in Seq(CMACBytes) /\ Len(msg) \in Nat
      /\ CMACHolds(cmac, msg) /\ cmacGiven \in [id : Nat, msg : Seq(CMACBytes)]
  BY DEF CMACInv
<1>3. s \in Seq(CMACBytes) /\ Len(s) > 0
  BY <1>1, <1>2, CMACPiece
<1> HIDE DEF s
<1>4. IsCMAC(cmac') /\ CMACHolds(cmac', msg \o s)
  BY <1>1, <1>2, <1>3, CMACUpdateHolds
<1>5. msg \o s \in Seq(CMACBytes)
  BY <1>2, <1>3, ConcatProperties
<1>6. /\ cmacGiven'.id = cmacGiven.id /\ cmacGiven'.msg = msg \o s
      /\ cmacGiven' \in [id : Nat, msg : Seq(CMACBytes)]
  <2> HIDE DEF msg
  <2>1. cmacGiven.msg \o s \in Seq(CMACBytes)
    BY <1>5 DEF msg
  <2> DEFINE z == cmacGiven.msg \o s
  <2>2. cmacGiven' = [cmacGiven EXCEPT !.msg = z]
    BY <1>1
  <2> HIDE DEF z
  <2>3. /\ cmacGiven'.id = cmacGiven.id /\ cmacGiven'.msg = z
        /\ cmacGiven' \in [id : Nat, msg : Seq(CMACBytes)]
    BY <1>2, <2>1, <2>2 DEF z
  <2> QED BY <2>3 DEF z, msg
<1>7. CMACInv'
  BY <1>4, <1>6 DEF CMACInv, IsCMAC, CMACHolds
<1>8. Take(msg \o s, Len(msg)) = msg
  BY <1>2, <1>3, TakeOfJoined
<1>9. CMACOneCall!Update
  BY <1>1, <1>6, <1>8, CMACSameOperators DEF CMACOneCall!Update
<1> QED
  BY <1>7, <1>9

\* ippsAES_CMACGetTag leaves the context and the message as they are.
LEMMA CMACGetTagStep ==
    ASSUME CMACInv, NEW n, CMACGetTag(n)
    PROVE  CMACInv' /\ CMACOneCall!GetTag
<1>1. n \in 1..BlockSize /\ cmacOut' = CMACTagOf(cmac, n) /\ cmac' = cmac /\ cmacGiven' = cmacGiven
  BY DEF CMACGetTag
<1>2. cmacGiven.msg \in Seq(CMACBytes) /\ CMACHolds(cmac, cmacGiven.msg)
  BY DEF CMACInv
<1>3. CMACTagOf(cmac, n) = CMACOneCall!Tag(cmacGiven.msg, n)
  BY <1>2, CMACTagIsOneCall
<1>4. CMACInv'
  BY <1>1 DEF CMACInv, IsCMAC, CMACHolds
<1> QED
  BY <1>1, <1>3, <1>4 DEF CMACOneCall!GetTag

\* ippsAES_CMACFinal returns the tag and starts the next message.
LEMMA CMACFinalStep ==
    ASSUME CMACInv, NEW n, CMACFinal(n)
    PROVE  CMACInv' /\ CMACOneCall!Final
<1>1. /\ n \in 1..BlockSize /\ cmacOut' = CMACTagOf(cmac, n) /\ cmac' = CMACCleared(cmac)
      /\ cmacGiven' = [id |-> cmacGiven.id + 1, msg |-> <<>>]
  BY DEF CMACFinal
<1>2. /\ IsCMAC(cmac) /\ cmacGiven.msg \in Seq(CMACBytes) /\ CMACHolds(cmac, cmacGiven.msg)
      /\ cmacGiven.id \in Nat
  BY DEF CMACInv
<1>3. CMACTagOf(cmac, n) = CMACOneCall!Tag(cmacGiven.msg, n)
  BY <1>2, CMACTagIsOneCall
<1>4. IsCMAC(cmac') /\ CMACHolds(cmac', <<>>)
  BY <1>1, <1>2, CMACClearedHolds
<1>5. cmacGiven' \in [id : Nat, msg : Seq(CMACBytes)] /\ cmacGiven'.msg = <<>>
  BY <1>1, <1>2, EmptySeq
<1>6. CMACInv'
  BY <1>4, <1>5 DEF CMACInv, IsCMAC, CMACHolds
<1> QED
  BY <1>1, <1>3, <1>6 DEF CMACOneCall!Final

\* Every step keeps the invariant and is a step, or a stutter, of the one-call tag.
LEMMA CMACStep ==
    ASSUME CMACInv, [CMACNext]_cmacVars
    PROVE  CMACInv' /\ [CMACOneCall!Next]_CMACOneCall!vars
<1>1. CASE CMACNext
  <2>1. PICK n \in PieceLens : CMACUpdate(n) \/ CMACGetTag(n) \/ CMACFinal(n)
    BY <1>1 DEF CMACNext
  <2>2. n \in Int
    BY BlockConstants
  <2> QED
    BY <2>1, <2>2, CMACUpdateStep, CMACGetTagStep, CMACFinalStep DEF CMACOneCall!Next
<1>2. CASE UNCHANGED cmacVars
  BY <1>2 DEF cmacVars, CMACInv, IsCMAC, CMACHolds, CMACOneCall!vars
<1> QED
  BY <1>1, <1>2

\* ippsAES_CMACUpdate, ippsAES_CMACGetTag and ippsAES_CMACFinal: whatever the
\* pieces, the MAC and the buffer hold the message, its last block unprocessed.
THEOREM CMACHoldsTheMessage == CMACSpec => []CMACInv
<1>1. CMACInit => CMACInv
  BY CMACInitial
<1>2. CMACInv /\ [CMACNext]_cmacVars => CMACInv'
  BY CMACStep
<1> QED
  BY <1>1, <1>2, PTL DEF CMACSpec

\* For every block size and every cutting, also with more of the message after
\* a tag, ippsAES_CMACGetTag and ippsAES_CMACFinal return the tag of one call.
THEOREM CMACPiecesAreOneCall == CMACSpec => CMACImplementsOneCall
<1>1. CMACInit => CMACOneCall!Init
  BY DEF CMACInit, CMACOneCall!Init
<1>2. CMACInv /\ [CMACNext]_cmacVars => [CMACOneCall!Next]_CMACOneCall!vars
  BY CMACStep
<1>3. CMACSpec => []CMACInv
  BY CMACHoldsTheMessage
<1> QED
  BY <1>1, <1>2, <1>3, PTL DEF CMACSpec, CMACImplementsOneCall, CMACOneCall!Spec

-----------------------------------------------------------------------------
IsContext(c) ==
    c = [aesni |-> c.aesni, msgLen |-> c.msgLen, tagLen |-> c.tagLen, lenPro |-> c.lenPro,
         counterVal |-> c.counterVal, ctr0 |-> c.ctr0, s0 |-> c.s0, si |-> c.si,
         blk |-> c.blk, mac |-> c.mac]

\* What the calls keep of the context: the place, the counter and the build.
Counts(c, ni, p, k) ==
    IsContext(c) /\ c.aesni = ni /\ c.lenPro = p /\ c.counterVal = k % CounterWord

\* The counter in its word moves like the number it stands for.
LEMMA CounterMoves ==
    ASSUME NEW k \in Nat, NEW j \in Nat
    PROVE  ((k % CounterWord) + j) % CounterWord = (k + j) % CounterWord
BY CCMConstants, AddAfterRest

\* The block begun by an earlier call takes its part of the text.
LEMMA FillBlockCounts ==
    ASSUME NEW c, NEW dst, NEW T, NEW src \in Seq(T), NEW dir, NEW ni \in BOOLEAN,
           NEW p \in Nat, NEW k \in Nat, Counts(c, ni, p, k)
    PROVE  Counts(FillBlock([c |-> c, dst |-> dst], src, dir).c, ni, p + Len(src), k)
<1>1. CASE src = <<>>
  BY <1>1 DEF FillBlock, Counts
<1>2. CASE src # <<>>
  BY <1>2 DEF FillBlock, Counts, IsContext
<1> QED
  BY <1>1, <1>2

\* Whole blocks move the counter, and the length except with AES-NI.
LEMMA WholeBlocksCounts ==
    ASSUME NEW t, NEW T, NEW src \in Seq(T), NEW dir, NEW ni \in BOOLEAN,
           NEW p \in Nat, NEW k \in Nat, NEW q \in Nat, Len(src) = q * BlockSize,
           Counts(t.c, ni, p, k)
    PROVE  Counts(WholeBlocksOfText(t, src, dir).c, ni,
                  IF ni THEN p ELSE p + q * BlockSize, k + q)
<1>1. Len(src) \div BlockSize = q
  <2>1. Len(src) = BlockSize * q + 0 /\ 0 \in 0..BlockSize - 1
    BY BlockConstants
  <2> QED
    BY <2>1, OnlyOnePlace
<1>2. CASE q = 0
  BY <1>1, <1>2, BlockConstants DEF WholeBlocksOfText, Counts
<1>3. CASE q # 0
  <2> DEFINE d == WholeBlocksOfText(t, src, dir).c
  <2>1. /\ IsContext(d) /\ d.aesni = ni
        /\ d.lenPro = (IF ni THEN p ELSE p + q * BlockSize)
        /\ d.counterVal = ((k % CounterWord) + q) % CounterWord
    BY <1>1, <1>3 DEF WholeBlocksOfText, Counts, IsContext
  <2> HIDE DEF d
  <2> QED
    BY <2>1, CounterMoves DEF Counts, d
<1> QED
  BY <1>2, <1>3

\* What is left begins a block.
LEMMA BeginBlockCounts ==
    ASSUME NEW t, NEW T, NEW src \in Seq(T), NEW dir, NEW ni \in BOOLEAN,
           NEW p \in Nat, NEW k \in Nat, Counts(t.c, ni, p, k)
    PROVE  Counts(BeginBlock(t, src, dir).c, ni, p + Len(src),
                  IF Len(src) = 0 THEN k ELSE k + 1)
<1>1. CASE src = <<>>
  BY <1>1 DEF BeginBlock, Counts
<1>2. CASE src # <<>>
  <2> DEFINE d == BeginBlock(t, src, dir).c
  <2>1. Len(src) # 0
    BY <1>2, EmptyIffNoLength
  <2>2. /\ IsContext(d) /\ d.aesni = ni /\ d.lenPro = p + Len(src)
        /\ d.counterVal = ((k % CounterWord) + 1) % CounterWord
    BY <1>2, <2>1 DEF BeginBlock, Counts, IsContext
  <2> HIDE DEF d
  <2>3. d.counterVal = (k + 1) % CounterWord
    BY <2>2, CounterMoves
  <2> QED
    BY <2>1, <2>2, <2>3 DEF Counts, d
<1> QED
  BY <1>1, <1>2

\* A call of ippsAES_CCMEncrypt or ippsAES_CCMDecrypt cuts its text into what
\* the open block takes, whole blocks and a rest, and counts the three parts.
LEMMA ProcessCounts ==
    ASSUME NEW c, NEW T, NEW src \in Seq(T), NEW dir, NEW ni \in BOOLEAN,
           NEW p \in Nat, NEW k \in Nat, Counts(c, ni, p, k)
    PROVE  Counts(CCMProcess(c, src, dir).c, ni,
                  p + ToOpenBlock(p, Len(src)) + RestOf(p, Len(src))
                    + (IF ni THEN 0 ELSE WholeIn(p, Len(src)) * BlockSize),
                  k + WholeIn(p, Len(src)) + (IF RestOf(p, Len(src)) = 0 THEN 0 ELSE 1))
<1> DEFINE len == Len(src)
           loc == ToOpenBlock(p, len)
           q   == WholeIn(p, len)
           m   == q * BlockSize
           r   == RestOf(p, len)
           t1  == FillBlock([c |-> c, dst |-> <<>>], Take(src, loc), dir)
           t2  == WholeBlocksOfText(t1, Take(Drop(src, loc), m), dir)
           t3  == BeginBlock(t2, Drop(src, loc + m), dir)
           p2  == IF ni THEN p + loc ELSE p + loc + m
<1>1. /\ len \in Nat /\ loc \in 0..len /\ q \in Nat /\ m \in 0..len - loc
      /\ r \in Nat /\ r = len - loc - m
  BY Cutting, BlockConstants DEF RestOf
<1>2. CCMProcess(c, src, dir) = t3
  BY DEF CCMProcess, Counts, ToOpenBlock, WholeIn
<1>3. /\ Take(src, loc) \in Seq(T) /\ Len(Take(src, loc)) = loc
      /\ Drop(src, loc) \in Seq(T) /\ Len(Drop(src, loc)) = len - loc
      /\ Drop(src, loc + m) \in Seq(T) /\ Len(Drop(src, loc + m)) = r
  <2> HIDE DEF loc, m, r
  <2>1. loc \in 0..Len(src) /\ loc + m \in 0..Len(src)
    BY <1>1
  <2>2. Take(src, loc) \in Seq(T) /\ Len(Take(src, loc)) = loc
    BY <2>1, TakeDropLengths
  <2>3. Drop(src, loc) \in Seq(T) /\ Len(Drop(src, loc)) = len - loc
    BY <2>1, TakeDropLengths
  <2>4. Drop(src, loc + m) \in Seq(T) /\ Len(Drop(src, loc + m)) = Len(src) - (loc + m)
    BY <2>1, TakeDropLengths
  <2>5. Len(src) - (loc + m) = r
    BY <1>1
  <2> QED
    BY <2>2, <2>3, <2>4, <2>5
<1>4. Take(Drop(src, loc), m) \in Seq(T) /\ Len(Take(Drop(src, loc), m)) = q * BlockSize
  BY <1>1, <1>3, TakeDropLengths
<1> HIDE DEF loc, q, r, t3
<1>5. Counts(t1.c, ni, p + loc, k)
  BY <1>3, FillBlockCounts
<1> HIDE DEF t1
<1>6. Counts(t2.c, ni, p2, k + q)
  BY <1>1, <1>4, <1>5, WholeBlocksCounts
<1> HIDE DEF t2, m
<1>7. p2 \in Nat /\ k + q \in Nat
  BY <1>1
<1> HIDE DEF p2
<1>8. Counts(t3.c, ni, p2 + r, IF r = 0 THEN k + q ELSE k + q + 1)
  BY <1>3, <1>6, <1>7, BeginBlockCounts DEF t3
<1>9. /\ p2 + r = p + loc + r + (IF ni THEN 0 ELSE m)
      /\ (IF r = 0 THEN k + q ELSE k + q + 1) = k + q + (IF r = 0 THEN 0 ELSE 1)
  BY <1>1 DEF p2
<1> QED
  BY <1>2, <1>8, <1>9 DEF loc, q, r, m, t3

-----------------------------------------------------------------------------
(* The arithmetic of a call: the place and the counter follow the text. *)

\* The blocks begun are the whole ones and the open one.
LEMMA BegunBlocks ==
    ASSUME NEW n \in Nat
    PROVE  Begun(n) = (n \div BlockSize) + (IF n % BlockSize = 0 THEN 0 ELSE 1)
<1> DEFINE a == n \div BlockSize
           b == n % BlockSize
<1>1. a \in Nat /\ b \in 0..BlockSize - 1 /\ n = BlockSize * a + b
  BY BlocksAndRest
<1> HIDE DEF a, b
<1>2. CASE b = 0
  <2>1. n + BlockSize - 1 = BlockSize * a + (BlockSize - 1)
    BY <1>1, <1>2, BlockConstants
  <2> QED
    BY <1>1, <1>2, <2>1, OnlyOnePlace, BlockConstants DEF Begun, a, b
<1>3. CASE b # 0
  <2>1. n + BlockSize - 1 = BlockSize * (a + 1) + (b - 1)
    BY <1>1, BlockConstants
  <2>2. a + 1 \in Nat /\ b - 1 \in 0..BlockSize - 1
    BY <1>1, <1>3, BlockConstants
  <2> QED
    BY <1>3, <2>1, <2>2, OnlyOnePlace DEF Begun, a, b
<1> QED
  BY <1>2, <1>3

\* They are a number of blocks.
LEMMA BegunNumber ==
    ASSUME NEW n \in Nat
    PROVE  Begun(n) \in Nat
<1>1. n + BlockSize - 1 \in Nat
  BY BlockConstants
<1> DEFINE m == n + BlockSize - 1
<1> HIDE DEF m
<1>2. m \div BlockSize \in Nat
  BY <1>1, BlocksAndRest DEF m
<1> QED
  BY <1>2 DEF Begun, m

\* A length that has missed only whole blocks stays in the right place, though
\* it goes on missing them; one that misses none grows by all of the text.
LEMMA PlaceFollows ==
    ASSUME NEW n \in Nat, NEW p \in Nat, NEW len \in Nat,
           p % BlockSize = n % BlockSize, p <= n
    PROVE  LET short == p + ToOpenBlock(p, len) + RestOf(p, len)
           IN /\ short \in Nat /\ short <= n + len
              /\ short % BlockSize = (n + len) % BlockSize
              /\ short + WholeIn(p, len) * BlockSize = p + len
<1> DEFINE loc   == ToOpenBlock(p, len)
           m     == WholeIn(p, len) * BlockSize
           r     == RestOf(p, len)
           a     == p \div BlockSize
           b     == p % BlockSize
           short == p + loc + r
<1>1. /\ loc \in 0..len /\ m \in 0..len - loc /\ r \in 0..BlockSize - 1
      /\ loc + m + r = len
  <2>1. loc \in 0..len /\ m \in 0..len - loc /\ r \in 0..BlockSize - 1 /\ r = len - loc - m
    BY Cutting DEF RestOf
  <2> HIDE DEF loc, m, r
  <2> QED BY <2>1
<1>2. a \in Nat /\ b \in 0..BlockSize - 1 /\ p = BlockSize * a + b
  BY BlocksAndRest
<1>3. StaysOpen(p, len) <=> StaysOpen(n, len)
  BY DEF StaysOpen
<1>4. RestOf(n, len) = r
  BY DEF RestOf, WholeIn, ToOpenBlock
<1>5. StaysOpen(p, len) => loc = len /\ r = 0 /\ (p + len) % BlockSize = b + len
  BY Cutting
<1>6. ~StaysOpen(p, len) => (n + len) % BlockSize = r /\ (b # 0 => loc = BlockSize - b)
  BY <1>3, <1>4, Cutting
<1>7. StaysOpen(n, len) => (n + len) % BlockSize = b + len
  BY Cutting
<1>8. b = 0 => loc = 0
  BY DEF ToOpenBlock
<1> HIDE DEF loc, m, r, a, b
<1>9. short \in Nat /\ short <= n + len /\ short + m = p + len
  BY <1>1
<1>10. short % BlockSize = (n + len) % BlockSize
  <2>1. CASE StaysOpen(p, len)
    <3>1. short = p + len
      BY <1>5, <2>1
    <3> QED
      BY <1>3, <1>5, <1>7, <2>1, <3>1
  <2>2. CASE ~StaysOpen(p, len)
    <3>1. \E d \in Nat : short = BlockSize * d + r
      <4>1. CASE b = 0
        <5>1. short = BlockSize * a + r
          BY <1>1, <1>2, <1>8, <4>1, BlockConstants
        <5> QED BY <1>2, <5>1
      <4>2. CASE b # 0
        <5>1. short = BlockSize * (a + 1) + r
          BY <1>1, <1>2, <1>6, <2>2, <4>2, BlockConstants
        <5> QED BY <1>2, <5>1
      <4> QED BY <4>1, <4>2
    <3> HIDE DEF short
    <3> QED
      BY <1>1, <1>6, <2>2, <3>1, OnlyOnePlace
  <2> QED
    BY <2>1, <2>2
<1> QED
  BY <1>9, <1>10 DEF loc, m, r

\* A counter that has moved once per block begun goes on doing so.
LEMMA CounterFollows ==
    ASSUME NEW n \in Nat, NEW p \in Nat, NEW len \in Nat,
           p % BlockSize = n % BlockSize
    PROVE  Begun(n) + WholeIn(p, len) + (IF RestOf(p, len) = 0 THEN 0 ELSE 1) = Begun(n + len)
<1> DEFINE q == WholeIn(n, len)
           r == RestOf(n, len)
           b == n % BlockSize
           a == n \div BlockSize
<1>1. WholeIn(p, len) = q /\ RestOf(p, len) = r
  BY DEF RestOf, WholeIn, ToOpenBlock
<1>2. /\ Begun(n) = a + (IF b = 0 THEN 0 ELSE 1)
      /\ Begun(n + len) = ((n + len) \div BlockSize)
                             + (IF (n + len) % BlockSize = 0 THEN 0 ELSE 1)
  BY BegunBlocks
<1>3. a \in Nat /\ b \in 0..BlockSize - 1 /\ q \in Nat /\ r \in 0..BlockSize - 1
  BY BlocksAndRest, Cutting
<1>4. CASE StaysOpen(n, len)
  <2>1. /\ q = 0 /\ r = 0 /\ (n + len) % BlockSize = b + len
        /\ (n + len) \div BlockSize = a /\ b # 0
    BY <1>4, Cutting DEF StaysOpen
  <2> HIDE DEF a, b, q, r
  <2>2. b + len # 0
    BY <1>3, <2>1
  <2> QED
    BY <1>1, <1>2, <1>3, <2>1, <2>2
<1>5. CASE ~StaysOpen(n, len)
  <2>1. /\ (n + len) % BlockSize = r
        /\ (n + len) \div BlockSize = a + q + (IF b = 0 THEN 0 ELSE 1)
    BY <1>5, Cutting
  <2> HIDE DEF a, b, q, r
  <2> QED
    BY <1>1, <1>2, <1>3, <2>1
<1> QED
  BY <1>4, <1>5

-----------------------------------------------------------------------------
(* The inductive invariant. *)

CCMTyped ==
    /\ IsContext(ccm)
    /\ ccm.aesni \in BOOLEAN /\ ccm.lenPro \in Nat
    /\ ccmGiven = [id |-> ccmGiven.id, nonce |-> ccmGiven.nonce, ad |-> ccmGiven.ad,
                   msgLen |-> ccmGiven.msgLen, tagLen |-> ccmGiven.tagLen,
                   text |-> ccmGiven.text]
    /\ ccmGiven.text \in Seq({"enc", "dec"})

CCMInv == CCMTyped /\ CCMPlaceAgrees

\* A message that has no text yet.
LEMMA NothingBegun == 0 % BlockSize = 0 /\ Begun(0) = 0 /\ 0 % CounterWord = 0
<1>1. 0 = BlockSize * 0 + 0 /\ 0 \in 0..BlockSize - 1
  BY BlockConstants
<1>2. 0 % BlockSize = 0 /\ 0 \div BlockSize = 0
  BY <1>1, OnlyOnePlace
<1>3. 0 % CounterWord = 0
  BY CCMConstants
<1> QED
  BY <1>2, <1>3, BegunBlocks

\* The context of ippsAES_CCMInit.
LEMMA CCMInitInv == CCMInit => CCMInv
<1> SUFFICES ASSUME CCMInit PROVE CCMInv
  OBVIOUS
<1>1. PICK ni \in AesNiBuilds :
        ccm = [aesni |-> ni, msgLen |-> 0, tagLen |-> InitialTagLen, lenPro |-> 0,
               counterVal |-> 0, ctr0 |-> [id |-> 0, nonce |-> NoNonce],
               s0 |-> Zeros(BlockSize), si |-> Zeros(BlockSize),
               blk |-> Zeros(BlockSize), mac |-> <<>>]
  BY DEF CCMInit
<1>2. IsContext(ccm) /\ ccm.aesni \in BOOLEAN /\ ccm.lenPro = 0 /\ ccm.counterVal = 0
  <2>1. ni \in BOOLEAN
    BY CCMConstants
  <2> QED
    BY <1>1, <2>1 DEF IsContext
<1>3. /\ ccmGiven.text = <<>>
      /\ ccmGiven = [id |-> ccmGiven.id, nonce |-> ccmGiven.nonce, ad |-> ccmGiven.ad,
                     msgLen |-> ccmGiven.msgLen, tagLen |-> ccmGiven.tagLen,
                     text |-> ccmGiven.text]
  BY DEF CCMInit
<1>4. Len(<<>>) = 0 /\ <<>> \in Seq({"enc", "dec"})
  BY EmptySeq
<1> QED
  BY <1>2, <1>3, <1>4, NothingBegun DEF CCMInv, CCMTyped, CCMPlaceAgrees

\* ippsAES_CCMMessageLen and ippsAES_CCMTagLen do not touch the place.
LEMMA CCMLengthsInv ==
    ASSUME CCMInv, NEW n, CCMMessageLen(n) \/ CCMTagLen(n)
    PROVE  CCMInv'
BY DEF CCMInv, CCMTyped, CCMPlaceAgrees, IsContext, CCMMessageLen, CCMTagLen

\* ippsAES_CCMStart begins a message without text.
LEMMA CCMStartInv ==
    ASSUME CCMInv, NEW nonce, NEW ad, CCMStart(nonce, ad)
    PROVE  CCMInv'
<1>1. /\ IsContext(ccm') /\ ccm'.aesni = ccm.aesni
      /\ ccm'.lenPro = 0 /\ ccm'.counterVal = 0
  BY DEF CCMInv, CCMTyped, IsContext, CCMStart, Started
<1>2. /\ ccmGiven'.text = <<>>
      /\ ccmGiven' = [id |-> ccmGiven'.id, nonce |-> ccmGiven'.nonce, ad |-> ccmGiven'.ad,
                      msgLen |-> ccmGiven'.msgLen, tagLen |-> ccmGiven'.tagLen,
                      text |-> ccmGiven'.text]
  BY DEF CCMStart
<1>3. Len(<<>>) = 0 /\ <<>> \in Seq({"enc", "dec"})
  BY EmptySeq
<1> QED
  BY <1>1, <1>2, <1>3, NothingBegun DEF CCMInv, CCMTyped, CCMPlaceAgrees

\* ippsAES_CCMEncrypt and ippsAES_CCMDecrypt take n bytes more.
LEMMA CCMTextInv ==
    ASSUME CCMInv, NEW n \in PieceLens, NEW dir \in {"enc", "dec"}, CCMText(n, dir)
    PROVE  CCMInv'
<1> DEFINE text == ccmGiven.text
           src  == Piece(dir, ccmGiven.id, Len(text), n)
           p    == ccm.lenPro
           more == [i \in 1..n |-> dir]
<1>1. n \in Nat
  BY BlockConstants DEF CCMText
<1>2. PICK T : src \in Seq(T) /\ Len(src) = n
  BY <1>1, PieceLength
<1>3. Counts(ccm, ccm.aesni, p, Begun(Len(text)))
  BY DEF CCMInv, CCMTyped, CCMPlaceAgrees, Counts
<1>4. ccm' = CCMProcess(ccm, src, dir).c
  BY DEF CCMText
<1>5. /\ IsContext(ccm') /\ ccm'.aesni = ccm.aesni
      /\ ccm'.lenPro = p + ToOpenBlock(p, n) + RestOf(p, n)
                         + (IF ccm.aesni THEN 0 ELSE WholeIn(p, n) * BlockSize)
      /\ ccm'.counterVal =
            (Begun(Len(text)) + WholeIn(p, n) + (IF RestOf(p, n) = 0 THEN 0 ELSE 1))
              % CounterWord
  <2> HIDE DEF src
  <2>1. Begun(Len(text)) \in Nat
    <3>1. Len(text) \in Nat
      BY DEF CCMInv, CCMTyped
    <3> HIDE DEF text
    <3> QED BY <3>1, BegunNumber
  <2> QED
    BY <1>2, <1>3, <1>4, <2>1, ProcessCounts DEF CCMInv, CCMTyped, Counts
<1>6. /\ ccmGiven'.text = text \o more
      /\ ccmGiven' = [id |-> ccmGiven'.id, nonce |-> ccmGiven'.nonce, ad |-> ccmGiven'.ad,
                      msgLen |-> ccmGiven'.msgLen, tagLen |-> ccmGiven'.tagLen,
                      text |-> ccmGiven'.text]
  BY DEF CCMInv, CCMTyped, CCMText
<1>7. text \o more \in Seq({"enc", "dec"}) /\ Len(text \o more) = Len(text) + n
  <2>1. text \in Seq({"enc", "dec"}) /\ more \in Seq({"enc", "dec"}) /\ Len(more) = n
    BY <1>1, Repeated DEF CCMInv, CCMTyped
  <2> HIDE DEF text, more
  <2> QED
    BY <2>1, ConcatProperties
<1>8. /\ Len(text) \in Nat /\ p \in Nat /\ ccm.aesni \in BOOLEAN
      /\ p % BlockSize = Len(text) % BlockSize /\ p <= Len(text)
      /\ ~ccm.aesni => p = Len(text)
  BY DEF CCMInv, CCMTyped, CCMPlaceAgrees
<1> HIDE DEF text, more, p
<1>9. /\ ccm'.lenPro \in Nat /\ ccm'.lenPro % BlockSize = (Len(text) + n) % BlockSize
      /\ ccm'.lenPro <= Len(text) + n /\ (~ccm.aesni => ccm'.lenPro = Len(text) + n)
  <2> DEFINE short == p + ToOpenBlock(p, n) + RestOf(p, n)
             m     == WholeIn(p, n) * BlockSize
  <2>1. /\ short \in Nat /\ short <= Len(text) + n
        /\ short % BlockSize = (Len(text) + n) % BlockSize
        /\ short + m = p + n
    BY <1>1, <1>8, PlaceFollows
  <2>2. ccm'.lenPro = short + (IF ccm.aesni THEN 0 ELSE m)
    BY <1>5
  <2> HIDE DEF short, m
  <2>3. CASE ccm.aesni
    BY <1>8, <2>1, <2>2, <2>3
  <2>4. CASE ~ccm.aesni
    <3>1. ccm'.lenPro = Len(text) + n
      BY <1>8, <2>1, <2>2, <2>4
    <3> QED
      BY <1>1, <1>8, <3>1
  <2> QED
    BY <2>3, <2>4
<1>10. ccm'.counterVal = Begun(Len(text) + n) % CounterWord
  <2>1. Begun(Len(text)) + WholeIn(p, n) + (IF RestOf(p, n) = 0 THEN 0 ELSE 1)
          = Begun(Len(text) + n)
    BY <1>1, <1>8, CounterFollows
  <2> QED
    BY <1>5, <2>1
<1> QED
  BY <1>5, <1>6, <1>7, <1>8, <1>9, <1>10 DEF CCMInv, CCMTyped, CCMPlaceAgrees

\* No step leaves the invariant.
LEMMA CCMStepInv == CCMInv /\ [CCMNext]_ccmVars => CCMInv'
<1> SUFFICES ASSUME CCMInv, [CCMNext]_ccmVars PROVE CCMInv'
  OBVIOUS
<1>1. ASSUME NEW n, CCMMessageLen(n) \/ CCMTagLen(n) PROVE CCMInv'
  BY <1>1, CCMLengthsInv
<1>2. ASSUME NEW n \in PieceLens, CCMGetTag(n) PROVE CCMInv'
  BY <1>2 DEF CCMGetTag, CCMInv, CCMTyped, CCMPlaceAgrees
<1>3. ASSUME NEW nonce, NEW ad, CCMStart(nonce, ad) PROVE CCMInv'
  BY <1>3, CCMStartInv
<1>4. ASSUME NEW n \in PieceLens, NEW dir \in {"enc", "dec"}, CCMText(n, dir) PROVE CCMInv'
  BY <1>4, CCMTextInv
<1>5. CASE UNCHANGED ccmVars
  BY <1>5 DEF ccmVars, CCMInv, CCMTyped, CCMPlaceAgrees
<1> QED
  BY <1>1, <1>2, <1>3, <1>4, <1>5 DEF CCMNext

\* However a message is cut into calls of ippsAES_CCMEncrypt and
\* ippsAES_CCMDecrypt, for every block size and every width of the counter, the
\* place in the open block is that of the text given and the counter the number
\* of its blocks modulo the values of counterVal, in both builds: the length the
\* AES-NI code forgets is a whole number of blocks.
THEOREM CCMPlaceAlwaysAgrees == CCMSpec => []CCMPlaceAgrees
<1>1. CCMInv => CCMPlaceAgrees
  BY DEF CCMInv
<1> QED
  BY <1>1, CCMInitInv, CCMStepInv, PTL DEF CCMSpec

-----------------------------------------------------------------------------
(* Bytes of a message, and the key stream byte by byte. *)

\* What the bytes of any message are made of.
CCMTerms ==
    {<<k, id, i>> : k \in {"enc", "dec", "ad", "adLen"}, id \in Nat, i \in Int}
    \cup {<<"E", id, nonce, n, i>> : id \in Nat, nonce \in Nonces, n \in Int, i \in Int}
    \cup {<<"B0", id, nonce, ad, len, n, i>> :
             id \in Nat, nonce \in Nonces, ad \in BOOLEAN, len \in Nat, n \in Int, i \in Int}

CCMBytes == SUBSET CCMTerms

\* A message that was started.
IsMessage(g) ==
    /\ g = [id |-> g.id, nonce |-> g.nonce, ad |-> g.ad, msgLen |-> g.msgLen,
            tagLen |-> g.tagLen, text |-> g.text]
    /\ g.id \in Nat /\ g.nonce \in Nonces /\ g.ad \in Nat
    /\ g.msgLen \in Nat /\ g.tagLen \in Nat /\ g.text \in Seq({"enc", "dec"})

\* The block the cipher makes of counter n of a message.
Counted(g, n) == CCMOneCall!S(g.id, g.nonce, n)

\* The byte of the key stream at place p of the text.
Key(g, p) == Counted(g, 1 + ((p - 1) \div BlockSize))[((p - 1) % BlockSize) + 1]

\* src under the key stream from place p + 1 on.
Cipher(g, p, src) == [i \in 1..Len(src) |-> Xor(src[i], Key(g, p + i))]

\* What is authenticated of src at place p.
Sent(g, p, src, dir) == Plain(src, Cipher(g, p, src), dir)

\* Zero is a byte, and two bytes XORed are one.
LEMMA CCMBytesClosed ==
    /\ {} \in CCMBytes
    /\ \A x, y \in CCMBytes : Xor(x, y) \in CCMBytes
BY DEF CCMBytes, Xor

\* The one call's operators are the component's.
LEMMA CCMSameOperators ==
    /\ \A x, y : CCMOneCall!Xor(x, y) = Xor(x, y)
    /\ \A s : CCMOneCall!PaddedBlocks(s) = PaddedBlocks(s)
    /\ \A k, id, n, l : CCMOneCall!Piece(k, id, n, l) = Piece(k, id, n, l)
    /\ \A s, k : CCMOneCall!Take(s, k) = Take(s, k)
<1>1. \A x, y : CCMOneCall!Xor(x, y) = Xor(x, y)
  BY DEF Xor, CCMOneCall!Xor
<1>2. \A s : CCMOneCall!PaddedBlocks(s) = PaddedBlocks(s)
  BY DEF PaddedBlocks, CCMOneCall!PaddedBlocks, CopyAt, CCMOneCall!CopyAt, Zeros,
         CCMOneCall!Zeros, Take, CCMOneCall!Take, Drop, CCMOneCall!Drop, Lesser,
         CCMOneCall!Lesser
<1>3. \A k, id, n, l : CCMOneCall!Piece(k, id, n, l) = Piece(k, id, n, l)
  BY DEF Piece, CCMOneCall!Piece
<1>4. \A s, k : CCMOneCall!Take(s, k) = Take(s, k)
  BY DEF Take, CCMOneCall!Take, Lesser, CCMOneCall!Lesser
<1> QED
  BY <1>1, <1>2, <1>3, <1>4

\* A block of the key stream, byte by byte.
LEMMA CountedBlock ==
    ASSUME NEW g, IsMessage(g), NEW n \in Int
    PROVE  Counted(g, n) \in Block(CCMBytes)
<1>1. n % g.nonce.counters \in Int
  <2>1. g.nonce.counters \in Nat \ {0}
    BY CCMConstants DEF IsMessage
  <2> DEFINE k == g.nonce.counters
  <2> HIDE DEF k
  <2>2. n % k \in Int
    BY <2>1 DEF k
  <2> QED BY <2>2 DEF k
<1> DEFINE k == n % g.nonce.counters
<1>2. ASSUME NEW i \in 1..BlockSize PROVE {<<"E", g.id, g.nonce, k, i>>} \in CCMBytes
  <2> HIDE DEF k
  <2>1. i \in Int /\ k \in Int
    BY <1>1, BlockConstants DEF k
  <2>2. <<"E", g.id, g.nonce, k, i>> \in CCMTerms
    BY <2>1 DEF CCMTerms, IsMessage
  <2> QED BY <2>2 DEF CCMBytes
<1> HIDE DEF k
<1>3. Counted(g, n) = [i \in 1..BlockSize |-> {<<"E", g.id, g.nonce, k, i>>}]
  BY DEF Counted, CCMOneCall!S, k
<1> QED
  BY <1>2, <1>3 DEF Block

\* The word of the counter tells block n of the text from those before it, or
\* the nonce leaves no more values than the word has.
Suffices(g, n) == g.nonce.counters <= CounterWord \/ n < CounterWord

\* It is what the one call asks for.
LEMMA SufficesForText ==
    \A g : CCMOneCall!CounterSuffices(g) <=> Suffices(g, Begun(Len(g.text)))
BY DEF CCMOneCall!CounterSuffices, Suffices, Begun

\* With fewer blocks it does so too.
LEMMA SufficesForLess ==
    ASSUME NEW g, NEW n \in Nat, Suffices(g, n), NEW m \in Nat, m <= n
    PROVE  Suffices(g, m)
BY CCMConstants DEF Suffices

\* Fewer bytes begin no more blocks.
LEMMA BegunMonotone ==
    ASSUME NEW n \in Nat, NEW m \in Nat, m <= n
    PROVE  Begun(m) <= Begun(n)
<1> DEFINE B == BlockSize
           x == m + B - 1
           y == n + B - 1
           a == x \div B
           b == x % B
           c == y \div B
           d == y % B
<1>1. B \in Nat \ {0} /\ x \in Nat /\ y \in Nat /\ x <= y
  BY BlockConstants
<1> HIDE DEF x, y
<1>2. /\ a \in Nat /\ b \in 0..B - 1 /\ x = B * a + b
      /\ c \in Nat /\ d \in 0..B - 1 /\ y = B * c + d
  BY <1>1, BlocksAndRest
<1> HIDE DEF a, b, c, d
<1>3. a <= c
  <2> SUFFICES ASSUME a - c \in Nat \ {0} PROVE FALSE
    BY <1>2
  <2>1. B * (a - c) >= B /\ B * a = B * c + B * (a - c)
    BY <1>1, <1>2
  <2> DEFINE u == B * (a - c)
             v == B * c
             w == B * a
  <2>2. u \in Nat /\ v \in Nat /\ w \in Nat /\ u >= B /\ w = v + u
    BY <1>1, <1>2, <2>1
  <2>3. x = w + b /\ y = v + d
    BY <1>2
  <2> HIDE DEF u, v, w, B
  <2> QED BY <1>1, <1>2, <2>2, <2>3
<1> QED
  BY <1>3 DEF Begun, a, c, x, y

\* A rest by a multiple leaves the rest as it is.
LEMMA RestOfMultiple ==
    ASSUME NEW C \in Nat \ {0}, NEW W \in Nat \ {0}, W % C = 0, NEW n \in Nat
    PROVE  (n % W) % C = n % C
<1> DEFINE d == W \div C
           a == n \div W
           b == n % W
           x == b \div C
           y == b % C
<1>1. d \in Nat /\ W = C * d
  <2>1. d \in Nat /\ W = C * d + (W % C)
    BY QuotientAndRest
  <2> DEFINE v == C * d
  <2>2. v \in Nat
    BY <2>1
  <2> HIDE DEF v
  <2>3. W = v + 0
    BY <2>1 DEF v
  <2>4. W = v
    BY <2>2, <2>3
  <2> QED BY <2>1, <2>4 DEF v
<1>2. a \in Nat /\ b \in Nat /\ n = W * a + b
  BY QuotientAndRest
<1> HIDE DEF a, b, d
<1>3. x \in Nat /\ y \in 0..C - 1 /\ b = C * x + y
  BY <1>2, QuotientAndRest
<1> HIDE DEF x, y
<1>4. n = C * (d * a + x) + y
  <2>1. W * a = C * (d * a)
    BY <1>1, <1>2
  <2> DEFINE e == d * a
  <2>2. e \in Nat
    BY <1>1, <1>2
  <2> HIDE DEF e
  <2>3. C * (e + x) = C * e + C * x
    BY <1>3, <2>2
  <2>4. n = C * e + (C * x + y)
    BY <1>2, <1>3, <2>1 DEF e
  <2> DEFINE u == C * e
             v == C * x
  <2>5. u \in Nat /\ v \in Nat
    BY <1>3, <2>2
  <2> HIDE DEF u, v
  <2>6. n = (u + v) + y
    BY <1>3, <2>4, <2>5 DEF u, v
  <2> QED BY <2>3, <2>6 DEF u, v, e
<1>5. n % C = y
  <2> DEFINE e == d * a + x
  <2>1. e \in Nat
    <3>1. d * a \in Nat
      BY <1>1, <1>2
    <3> QED BY <1>3, <3>1
  <2> HIDE DEF e
  <2>2. (C * e + y) % C = y
    BY <1>3, <2>1, OnlyOneQuotient
  <2> QED BY <1>4, <2>2 DEF e
<1> QED
  BY <1>5 DEF y, b

\* Two numbers with the same rest have the same block.
LEMMA SameKeyBlock ==
    ASSUME NEW g, NEW m, NEW n, m % g.nonce.counters = n % g.nonce.counters
    PROVE  Counted(g, m) = Counted(g, n)
BY DEF Counted, CCMOneCall!S

\* While it suffices, the word of the counter names the block of the number it
\* stands for, whether the next numbers are kept within the word or not.
LEMMA SameNumber ==
    ASSUME NEW g, IsMessage(g), NEW k \in Nat, NEW j \in Nat, Suffices(g, k + j)
    PROVE  /\ Counted(g, (k % CounterWord) + j) = Counted(g, k + j)
           /\ Counted(g, ((k % CounterWord) + j) % CounterWord) = Counted(g, k + j)
<1> DEFINE W == CounterWord
           C == g.nonce.counters
           w == k % W
<1>1. W \in Nat \ {0} /\ C \in Nat \ {0} /\ (C <= W => W % C = 0)
  BY CCMConstants DEF IsMessage
<1>2. C <= W \/ k + j < W
  BY DEF Suffices
<1> HIDE DEF W, C
<1>3. w \in Nat
  BY <1>1, QuotientAndRest
<1>4. CASE k + j < W
  <2>1. k < W
    BY <1>1, <1>4
  <2>2. k % W = k
    BY <1>1, <2>1
  <2>3. (k + j) % W = k + j
    BY <1>1, <1>4
  <2> QED BY <2>2, <2>3 DEF W
<1>5. CASE C <= W
  <2>1. W % C = 0
    BY <1>1, <1>5
  <2>2. w % C = k % C
    BY <1>1, <2>1, RestOfMultiple
  <2> HIDE DEF w
  <2>3. (w + j) % C = (k + j) % C
    <3>1. ((w % C) + j) % C = (w + j) % C
      BY <1>1, <1>3, AddAfterRest
    <3>2. ((k % C) + j) % C = (k + j) % C
      BY <1>1, AddAfterRest
    <3> QED BY <2>2, <3>1, <3>2
  <2>4. ((w + j) % W) % C = (w + j) % C
    <3>1. w + j \in Nat
      BY <1>3
    <3> QED BY <1>1, <2>1, <3>1, RestOfMultiple
  <2>5. Counted(g, w + j) = Counted(g, k + j)
    BY <2>3, SameKeyBlock DEF C
  <2>6. Counted(g, (w + j) % W) = Counted(g, k + j)
    BY <2>3, <2>4, SameKeyBlock DEF C
  <2> QED BY <2>5, <2>6 DEF w, W
<1> QED
  BY <1>2, <1>4, <1>5

\* The bytes of the key stream are those of the counted blocks.
LEMMA KeyPlace ==
    ASSUME NEW g, NEW a \in Nat, NEW i \in 1..BlockSize
    PROVE  Key(g, BlockSize * a + i) = Counted(g, 1 + a)[i]
<1>1. BlockSize \in Nat \ {0} /\ BlockSize * a \in Nat /\ i - 1 \in 0..BlockSize - 1
  BY BlockConstants
<1>3. /\ (BlockSize * a + (i - 1)) \div BlockSize = a
      /\ (BlockSize * a + (i - 1)) % BlockSize = i - 1
  BY <1>1, OnlyOnePlace
<1>4. i - 1 + 1 = i
  OBVIOUS
<1> DEFINE p == BlockSize * a + i
<1>5. (p - 1) \div BlockSize = a /\ ((p - 1) % BlockSize) + 1 = i
  <2> DEFINE q == BlockSize * a
  <2>1. p = q + i /\ q \in Nat
    BY <1>1
  <2> HIDE DEF p, q
  <2>2. p - 1 = q + (i - 1)
    BY <2>1
  <2> QED BY <1>3, <1>4, <2>2 DEF q
<1> HIDE DEF p
<1>6. Key(g, p) = Counted(g, 1 + a)[i]
  BY <1>5 DEF Key
<1> QED
  BY <1>6 DEF p

\* The key stream consists of bytes.
LEMMA KeyByte ==
    ASSUME NEW g, IsMessage(g), NEW p \in Nat, NEW i \in Nat \ {0}
    PROVE  Key(g, p + i) \in CCMBytes
<1> DEFINE m == p + i - 1
           a == m \div BlockSize
           b == m % BlockSize
<1>1. m \in Nat /\ m = (p + i) - 1
  OBVIOUS
<1> HIDE DEF m
<1>2. a \in Nat /\ b \in 0..BlockSize - 1
  BY <1>1, BlocksAndRest
<1>3. Key(g, p + i) = Counted(g, 1 + a)[b + 1]
  BY <1>1 DEF Key
<1> HIDE DEF a, b
<1>4. Counted(g, 1 + a) \in Block(CCMBytes) /\ b + 1 \in 1..BlockSize
  BY <1>2, CountedBlock, BlockConstants
<1> QED
  BY <1>3, <1>4 DEF Block

\* Under the key stream a sequence of bytes stays one of its length.
LEMMA CipherBytes ==
    ASSUME NEW g, IsMessage(g), NEW p \in Nat, NEW src \in Seq(CCMBytes)
    PROVE  /\ Cipher(g, p, src) \in Seq(CCMBytes)
           /\ Len(Cipher(g, p, src)) = Len(src)
<1>1. Len(src) \in Nat /\ \A i \in 1..Len(src) : src[i] \in CCMBytes
  OBVIOUS
<1>2. ASSUME NEW i \in 1..Len(src) PROVE Xor(src[i], Key(g, p + i)) \in CCMBytes
  <2>1. i \in Nat \ {0} /\ src[i] \in CCMBytes
    BY <1>1
  <2>2. Key(g, p + i) \in CCMBytes
    BY <2>1, KeyByte
  <2> QED BY <2>1, <2>2, CCMBytesClosed
<1> QED
  BY <1>1, <1>2 DEF Cipher

\* What is authenticated of a piece is as long.
LEMMA SentBytes ==
    ASSUME NEW g, IsMessage(g), NEW p \in Nat, NEW src \in Seq(CCMBytes), NEW dir
    PROVE  /\ Sent(g, p, src, dir) \in Seq(CCMBytes)
           /\ Len(Sent(g, p, src, dir)) = Len(src)
BY CipherBytes DEF Sent, Plain

\* The key stream goes on where it was.
LEMMA CipherJoin ==
    ASSUME NEW g, IsMessage(g), NEW p \in Nat,
           NEW s \in Seq(CCMBytes), NEW t \in Seq(CCMBytes)
    PROVE  Cipher(g, p, Join(s, t)) = Join(Cipher(g, p, s), Cipher(g, p + Len(s), t))
<1> DEFINE T == CCMBytes
           x == Cipher(g, p, s)
           y == Cipher(g, p + Len(s), t)
           u == s \o t
           v == Cipher(g, p, u)
<1>1. /\ Len(s) \in Nat /\ Len(t) \in Nat /\ u \in Seq(T)
      /\ Len(u) = Len(s) + Len(t)
      /\ \A i \in 1..Len(s) + Len(t) : u[i] = IF i <= Len(s) THEN s[i] ELSE t[i - Len(s)]
  BY ConcatProperties
<1>2. p + Len(s) \in Nat
  BY <1>1
<1> HIDE DEF u
<1>3. /\ x \in Seq(T) /\ Len(x) = Len(s) /\ y \in Seq(T) /\ Len(y) = Len(t)
      /\ v \in Seq(T) /\ Len(v) = Len(s) + Len(t)
  BY <1>1, <1>2, CipherBytes
<1>4. /\ \A i \in 1..Len(s) : x[i] = Xor(s[i], Key(g, p + i))
      /\ \A i \in 1..Len(t) : y[i] = Xor(t[i], Key(g, p + Len(s) + i))
      /\ \A i \in 1..Len(s) + Len(t) : v[i] = Xor(u[i], Key(g, p + i))
  BY <1>1 DEF Cipher
<1> HIDE DEF T, x, y, v
<1>5. ASSUME NEW i \in 1..Len(x) PROVE v[i] = x[i]
  <2>1. i \in 1..Len(s) /\ i \in 1..Len(s) + Len(t) /\ i <= Len(s)
    BY <1>1, <1>3
  <2> QED BY <1>1, <1>4, <2>1
<1>6. ASSUME NEW i \in 1..Len(y) PROVE v[Len(x) + i] = y[i]
  <2>1. /\ i \in 1..Len(t) /\ Len(s) + i \in 1..Len(s) + Len(t)
        /\ ~(Len(s) + i <= Len(s)) /\ Len(s) + i - Len(s) = i
        /\ p + (Len(s) + i) = p + Len(s) + i
    BY <1>1, <1>3
  <2>2. u[Len(s) + i] = t[i]
    BY <1>1, <2>1
  <2>3. v[Len(s) + i] = Xor(u[Len(s) + i], Key(g, p + (Len(s) + i)))
    BY <1>4, <2>1
  <2> QED BY <1>3, <1>4, <2>1, <2>2, <2>3
<1>7. v = x \o y
  <2>1. Len(v) = Len(x) + Len(y)
    BY <1>3
  <2> QED BY <1>3, <1>5, <1>6, <2>1, MadeOfTwo
<1> QED
  BY <1>7 DEF v, x, y, u, Join

\* What is authenticated of two pieces.
LEMMA SentJoin ==
    ASSUME NEW g, IsMessage(g), NEW p \in Nat, NEW dir,
           NEW s \in Seq(CCMBytes), NEW t \in Seq(CCMBytes)
    PROVE  Sent(g, p, Join(s, t), dir) = Join(Sent(g, p, s, dir), Sent(g, p + Len(s), t, dir))
BY CipherJoin DEF Sent, Plain

\* Nothing under the key stream.
LEMMA CipherNone ==
    \A g, p, dir : Cipher(g, p, <<>>) = <<>> /\ Sent(g, p, <<>>, dir) = <<>>
<1>1. \A g, p : Cipher(g, p, <<>>) = <<>>
  BY DEF Cipher
<1> QED
  BY <1>1 DEF Sent, Plain

-----------------------------------------------------------------------------
(* The steps of a text call. *)

\* What the MAC absorbs before the text.
MacBase(g) ==
    <<CCMOneCall!B0(g)>>
    \o (IF g.ad = 0 THEN <<>> ELSE PaddedBlocks(CCMOneCall!Header(g.ad) \o CCMOneCall!Ad(g)))

\* The context within a text call: a whole blocks of text, m, are in the MAC,
\* r waits in the block begun, whose key stream is at hand.
InText(c, g, a, m, r) ==
    /\ IsContext(c)
    /\ c.ctr0 = [id |-> g.id, nonce |-> g.nonce] /\ c.s0 = Counted(g, 0)
    /\ c.mac = Join(MacBase(g), WholeBlocks(m))
    /\ Holds(CCMBytes, WholeBlocks(m), c.blk, Len(r), m, r)
    /\ c.lenPro \in Nat /\ c.lenPro % BlockSize = Len(r)
    /\ Blocks(m, a) /\ Len(r) < BlockSize
    /\ c.counterVal = (a + Ceiling(Len(r))) % CounterWord
    /\ r # <<>> => c.si = Counted(g, 1 + a)

\* The step of a text call that ends in t has added y to the bytes returned.
TextStep(t, x, y, g, a, m, r) ==
    t = [c |-> t.c, dst |-> x \o y] /\ InText(t.c, g, a, m, r)

\* A block begun, and none.
LEMMA BegunOrNot ==
    /\ Ceiling(0) = 0
    /\ \A n \in 1..BlockSize : Ceiling(n) = 1
<1>1. BlockSize \in Nat \ {0}
  BY BlockConstants
<1>2. Ceiling(0) = 0
  <2>1. BlockSize * 0 + (BlockSize - 1) = 0 + BlockSize - 1 /\ BlockSize - 1 \in 0..BlockSize - 1
    BY <1>1
  <2> QED BY <1>1, <2>1, OnlyOnePlace DEF Ceiling
<1>3. ASSUME NEW n \in 1..BlockSize PROVE Ceiling(n) = 1
  <2>1. /\ BlockSize * 1 + (n - 1) = n + BlockSize - 1 /\ n - 1 \in 0..BlockSize - 1
        /\ 1 \in Nat
    BY <1>1
  <2> QED BY <2>1, OnlyOnePlace DEF Ceiling
<1> QED
  BY <1>2, <1>3

\* The key stream at a place in the open block is the kept one.
LEMMA OpenCipher ==
    ASSUME NEW g, IsMessage(g), NEW a \in Nat, NEW r \in Seq(CCMBytes), NEW p, At(p, a, r),
           NEW src \in Seq(CCMBytes), Len(r) + Len(src) <= BlockSize,
           NEW si, si = Counted(g, 1 + a), NEW k, k = Len(r)
    PROVE  [i \in DOMAIN src |-> Xor(src[i], si[k + i])] = Cipher(g, p, src)
<1>1. /\ Len(r) \in Nat /\ Len(src) \in Nat /\ DOMAIN src = 1..Len(src)
      /\ BlockSize \in Nat \ {0}
  BY BlockConstants
<1>2. ASSUME NEW i \in 1..Len(src) PROVE si[k + i] = Key(g, p + i)
  <2>1. k + i \in 1..BlockSize
    BY <1>1
  <2>2. Key(g, BlockSize * a + (k + i)) = Counted(g, 1 + a)[k + i]
    BY <2>1, KeyPlace
  <2>3. BlockSize * a + (k + i) = p + i
    <3> DEFINE y == BlockSize * a
    <3>1. y \in Nat /\ p = y + k
      BY <1>1 DEF At
    <3> HIDE DEF y
    <3>2. y + (k + i) = p + i
      BY <1>1, <3>1
    <3> QED BY <3>2 DEF y
  <2> QED BY <2>2, <2>3
<1> QED
  BY <1>1, <1>2 DEF Cipher

\* Nothing for the block begun, or for a new one, changes nothing.
LEMMA NothingAdded ==
    ASSUME NEW g, NEW c, NEW a, NEW m, NEW r, InText(c, g, a, m, r), NEW x, NEW T, x \in Seq(T),
           NEW p, NEW dir
    PROVE  /\ TextStep([c |-> c, dst |-> x], x, Cipher(g, p, <<>>), g, a, m, r)
           /\ Join(r, Sent(g, p, <<>>, dir)) = r
           /\ Join(m, Sent(g, p, <<>>, dir)) = m
<1>1. Cipher(g, p, <<>>) = <<>> /\ Sent(g, p, <<>>, dir) = <<>>
  BY CipherNone
<1>2. x \o <<>> = x
  BY ConcatEmptySeq
<1>3. r \in Seq(CCMBytes) /\ m \in Seq(CCMBytes)
  BY DEF InText, Holds
<1>4. Join(r, <<>>) = r /\ Join(m, <<>>) = m
  BY <1>3, ConcatEmptySeq DEF Join
<1> QED
  BY <1>1, <1>2, <1>4 DEF TextStep

\* Bytes for the block begun by an earlier call, and its end.
LEMMA FillBlockHolds ==
    ASSUME NEW g, IsMessage(g), NEW c, NEW a, NEW m, NEW r, InText(c, g, a, m, r),
           MacBase(g) \in Seq(Block(CCMBytes)),
           NEW src \in Seq(CCMBytes), src # <<>>, r # <<>>, Len(r) + Len(src) <= BlockSize,
           NEW dir, NEW x, NEW p, At(p, a, r)
    PROVE  LET t == FillBlock([c |-> c, dst |-> x], src, dir)
               y == Cipher(g, p, src)
               s == Join(r, Sent(g, p, src, dir))
           IN /\ Len(s) < BlockSize => TextStep(t, x, y, g, a, m, s)
              /\ Len(s) = BlockSize => TextStep(t, x, y, g, a + 1, Join(m, s), <<>>)
<1> DEFINE B    == BlockSize
           T    == CCMBytes
           flag == c.lenPro % B
           dst  == [i \in DOMAIN src |-> Xor(src[i], c.si[flag + i])]
           u    == Plain(src, dst, dir)
           blk  == CopyAt(c.blk, flag, u)
           mac  == IF flag + Len(src) = B THEN Append(c.mac, blk) ELSE c.mac
           d    == [c EXCEPT !.blk = blk, !.lenPro = @ + Len(src), !.mac = mac]
           t    == FillBlock([c |-> c, dst |-> x], src, dir)
           s    == Join(r, u)
           y    == Cipher(g, p, src)
           ch   == WholeBlocks(m)
<1>1. t = [c |-> d, dst |-> x \o dst]
  BY DEF FillBlock
<1>2. /\ m \in Seq(T) /\ r \in Seq(T) /\ Aligned(m) /\ c.blk \in Block(T)
      /\ Holds(T, ch, c.blk, Len(r), m, r)
      /\ c.mac = Join(MacBase(g), ch)
      /\ a \in Nat /\ flag = Len(r) /\ c.si = Counted(g, 1 + a) /\ Blocks(m, a)
      /\ Len(r) \in Nat /\ Len(src) \in Nat /\ Len(r) < B /\ B \in Nat \ {0}
      /\ c.lenPro \in Nat /\ c.counterVal = (a + Ceiling(Len(r))) % CounterWord
  BY BlockConstants DEF InText, Holds, Blocks
<1>3. dst = y
  <2> HIDE DEF flag
  <2> QED BY <1>2, OpenCipher
<1> HIDE DEF dst, flag, ch
<1>4. u = Sent(g, p, src, dir)
  BY <1>3 DEF Sent
<1>5. p \in Nat
  <2> DEFINE z == B * a
  <2>1. z \in Nat
    BY <1>2
  <2> HIDE DEF z
  <2> QED BY <1>2, <2>1 DEF At, z
<1>6. u \in Seq(T) /\ Len(u) = Len(src)
  BY <1>4, <1>5, SentBytes
<1> HIDE DEF u, d
<1>7. s \in Seq(T) /\ Len(s) = Len(r) + Len(src)
  <2>1. r \in Seq(T) /\ u \in Seq(T)
    BY <1>2, <1>6
  <2>2. Join(r, u) \in Seq(T) /\ Len(Join(r, u)) = Len(r) + Len(u)
    BY <2>1, JoinLengths
  <2> QED BY <2>2, <1>6
<1>8. Holds(T, ch, blk, Len(s), m, s)
  <2>1. Holds(T, ch, CopyAt(c.blk, Len(r), u), Len(r) + Len(u), m, r \o u)
    BY <1>2, <1>6, KeepInBuffer
  <2> QED BY <1>2, <1>6, <1>7, <2>1 DEF Join
<1> HIDE DEF s, blk, mac
<1>9. /\ IsContext(d) /\ d.ctr0 = c.ctr0 /\ d.s0 = c.s0 /\ d.si = c.si
      /\ d.counterVal = c.counterVal /\ d.blk = blk /\ d.mac = mac
      /\ d.lenPro = c.lenPro + Len(src)
  <2>1. IsContext(c)
    BY DEF InText
  <2>2. d = [c EXCEPT !.blk = blk, !.lenPro = @ + Len(src), !.mac = mac]
    BY DEF d
  <2> QED BY <2>1, <2>2 DEF IsContext
<1>10. d.lenPro % B = (Len(r) + Len(src)) % B /\ d.lenPro \in Nat
  <2> DEFINE l == c.lenPro
             k == Len(src)
  <2>1. l \in Nat /\ k \in Nat /\ B \in Nat \ {0} /\ l % B = Len(r) /\ d.lenPro = l + k
    BY <1>2, <1>9 DEF flag
  <2> HIDE DEF l, k
  <2>2. ((l % B) + k) % B = (l + k) % B
    BY <2>1, AddAfterRest
  <2>3. d.lenPro % B = (Len(r) + k) % B
    BY <2>1, <2>2
  <2>4. d.lenPro \in Nat
    BY <2>1
  <2> QED BY <2>3, <2>4 DEF k
<1>11. Len(src) # 0
  BY EmptyIffNoLength
<1>12. d.ctr0 = [id |-> g.id, nonce |-> g.nonce] /\ d.s0 = Counted(g, 0)
  BY <1>9 DEF InText
<1>13. c.counterVal = (a + 1) % CounterWord
  <2>1. Len(r) \in 1..B
    BY <1>2, EmptyIffNoLength
  <2> QED BY <1>2, <2>1, BegunOrNot
<1>14. ASSUME Len(s) < B PROVE TextStep(t, x, y, g, a, m, s)
  <2>1. mac = c.mac
    BY <1>2, <1>7, <1>14 DEF mac
  <2>2. d.lenPro % B = Len(s)
    <3>1. B * 0 + Len(s) = Len(s) /\ Len(s) \in 0..B - 1 /\ 0 \in Nat
      BY <1>2, <1>7, <1>14
    <3>2. (B * 0 + Len(s)) % B = Len(s)
      BY <3>1, OnlyOnePlace
    <3> QED BY <1>7, <1>10, <3>1, <3>2
  <2>3. d.counterVal = (a + Ceiling(Len(s))) % CounterWord
    <3>1. Len(s) \in 1..B
      BY <1>2, <1>7, <1>11, <1>14
    <3> QED BY <1>9, <1>13, <3>1, BegunOrNot
  <2>4. InText(d, g, a, m, s)
    BY <1>2, <1>8, <1>9, <1>10, <1>12, <1>14, <2>1, <2>2, <2>3 DEF InText, ch
  <2> HIDE DEF t, y
  <2>5. t.c = d
    BY <1>1
  <2> QED BY <1>1, <1>3, <2>4, <2>5 DEF TextStep
<1>15. ASSUME Len(s) = B PROVE TextStep(t, x, y, g, a + 1, Join(m, s), <<>>)
  <2>1. mac = Append(c.mac, blk)
    BY <1>2, <1>7, <1>15 DEF mac
  <2>2. /\ m \o s \in Seq(T) /\ Aligned(m \o s) /\ Append(ch, blk) = WholeBlocks(m \o s)
    BY <1>8, <1>15, ProcessBuffer
  <2>3. blk \in Block(T) /\ ch \in Seq(Block(T))
    BY <1>2, <1>8, WholeBlocksBytes DEF Holds, ch
  <2>4. mac = Join(MacBase(g), WholeBlocks(Join(m, s)))
    <3> DEFINE w == <<blk>>
    <3>1. mac = Join(MacBase(g), Join(ch, w))
      BY <1>2, <2>1, <2>3, AppendJoined
    <3>2. Join(ch, w) = Append(ch, blk)
      BY <2>3, AppendIsConcat DEF Join
    <3> HIDE DEF w
    <3> QED BY <2>2, <3>1, <3>2 DEF Join
  <2>5. d.lenPro % B = 0
    <3>1. B * 1 + 0 = B /\ 0 \in 0..B - 1 /\ 1 \in Nat
      BY <1>2
    <3>2. (B * 1 + 0) % B = 0
      BY <3>1, OnlyOnePlace
    <3> QED BY <1>7, <1>10, <1>15, <3>1, <3>2
  <2>6. Blocks(Join(m, s), a + 1)
    <3>1. Len(s) = 1 * BlockSize /\ 1 \in Nat
      BY <1>2, <1>15
    <3> QED BY <1>2, <1>7, <3>1, MoreBlocks
  <2> DEFINE n == Join(m, s)
             o == <<>>
  <2>7. n \in Seq(T) /\ Aligned(n)
    BY <2>2 DEF Join
  <2>8. o = <<>> /\ Len(o) = 0
    OBVIOUS
  <2>9. Holds(T, WholeBlocks(n), d.blk, 0, n, <<>>)
    <3> HIDE DEF n, o
    <3> QED BY <1>9, <2>3, <2>7, NothingWaits
  <2>10. d.counterVal = ((a + 1) + Ceiling(Len(o))) % CounterWord
    <3>1. Ceiling(Len(o)) = 0
      BY <2>8, BegunOrNot
    <3>2. (a + 1) + Ceiling(Len(o)) = a + 1
      BY <1>2, <3>1
    <3> QED BY <1>9, <1>13, <3>2
  <2> HIDE DEF n, o
  <2>11. d.mac = Join(MacBase(g), WholeBlocks(n)) /\ Blocks(n, a + 1)
    BY <1>9, <2>4, <2>6 DEF n
  <2>12. InText(d, g, a + 1, n, o)
    BY <1>2, <1>9, <1>10, <1>12, <2>5, <2>8, <2>9, <2>10, <2>11 DEF InText
  <2> HIDE DEF t, y
  <2>13. t.c = d
    BY <1>1
  <2> QED BY <1>1, <1>3, <2>8, <2>12, <2>13 DEF TextStep, n
<1> QED
  BY <1>4, <1>14, <1>15 DEF s

\* Whole blocks, each under the next block of the key stream.
LEMMA WholeBlocksHold ==
    ASSUME NEW g, IsMessage(g), NEW c, NEW a, NEW m, NEW r, InText(c, g, a, m, r),
           MacBase(g) \in Seq(Block(CCMBytes)),
           NEW src \in Seq(CCMBytes), NEW q \in Nat \ {0}, Len(src) = q * BlockSize, r = <<>>,
           NEW dir, NEW x, NEW p, At(p, a, r), Suffices(g, a + q)
    PROVE  TextStep(WholeBlocksOfText([c |-> c, dst |-> x], src, dir), x, Cipher(g, p, src),
                    g, a + q, Join(m, Sent(g, p, src, dir)), r)
<1> DEFINE B   == BlockSize
           T   == CCMBytes
           z   == Len(src) \div B
           ks  == [l \in 1..z |-> S(c.ctr0, BlockNumber(c, l))]
           cnt == (c.counterVal + z) % CounterWord
           dst == [i \in DOMAIN src |->
                     Xor(src[i], ks[((i - 1) \div B) + 1][((i - 1) % B) + 1])]
           u   == Plain(src, dst, dir)
           mac == c.mac \o WholeBlocks(u)
           pro == IF c.aesni THEN c.lenPro ELSE c.lenPro + z * B
           d   == [c EXCEPT !.mac = mac, !.counterVal = cnt, !.si = ks[z],
                            !.lenPro = pro]
           t   == WholeBlocksOfText([c |-> c, dst |-> x], src, dir)
           y   == Cipher(g, p, src)
           ch  == WholeBlocks(m)
<1>2. /\ m \in Seq(T) /\ Aligned(m) /\ c.blk \in Block(T)
      /\ c.mac = Join(MacBase(g), ch) /\ Len(r) = 0
      /\ a \in Nat /\ Blocks(m, a)
      /\ Len(src) \in Nat /\ B \in Nat \ {0} /\ DOMAIN src = 1..Len(src)
      /\ c.lenPro \in Nat /\ c.lenPro % B = 0 /\ c.counterVal = a % CounterWord
      /\ c.ctr0 = [id |-> g.id, nonce |-> g.nonce]
  <2>1. Len(r) = 0
    OBVIOUS
  <2>2. c.counterVal = a % CounterWord /\ a \in Nat
    <3>1. Ceiling(Len(r)) = 0
      BY <2>1, BegunOrNot
    <3>2. c.counterVal = (a + Ceiling(Len(r))) % CounterWord /\ a \in Nat
      BY DEF InText, Blocks
    <3>3. a + Ceiling(Len(r)) = a
      BY <3>1, <3>2
    <3> QED BY <3>2, <3>3
  <2> QED BY <2>1, <2>2, BlockConstants DEF InText, Holds, Blocks
<1>3. z = q
  <2>1. B * q + 0 = Len(src) /\ 0 \in 0..B - 1
    BY <1>2
  <2>2. (B * q + 0) \div B = q
    BY <1>2, <2>1, OnlyOnePlace
  <2> QED BY <2>1, <2>2
<1>1. t = [c |-> d, dst |-> x \o dst]
  <2>1. z # 0
    BY <1>3
  <2> QED BY <2>1 DEF WholeBlocksOfText
<1>4. p \in Nat /\ p = B * a
  <2> DEFINE w == B * a
  <2>1. w \in Nat /\ p = w + 0
    BY <1>2 DEF At
  <2> HIDE DEF w
  <2> QED BY <2>1 DEF w
<1>5. \A l \in 1..q : ks[l] = Counted(g, a + l)
  <2>1. \A l \in 1..q : ks[l] = Counted(g, BlockNumber(c, l))
    BY <1>2, <1>3 DEF S, Counted
  <2>2. ASSUME NEW l \in 1..q PROVE Counted(g, BlockNumber(c, l)) = Counted(g, a + l)
    <3>1. l \in Nat /\ a + l \in Nat /\ a + q \in Nat /\ a + l <= a + q
      BY <1>2
    <3>2. Suffices(g, a + l)
      BY <3>1, SufficesForLess
    <3>3. /\ Counted(g, (a % CounterWord) + l) = Counted(g, a + l)
          /\ Counted(g, ((a % CounterWord) + l) % CounterWord) = Counted(g, a + l)
      BY <1>2, <3>1, <3>2, SameNumber
    <3> QED BY <1>2, <3>3 DEF BlockNumber
  <2> QED BY <2>1, <2>2
<1>6. dst = y
  <2>1. ASSUME NEW i \in 1..Len(src)
        PROVE  ks[((i - 1) \div B) + 1][((i - 1) % B) + 1] = Key(g, p + i)
    <3> DEFINE l == (i - 1) \div B
               e == ((i - 1) % B) + 1
    <3>1. /\ i - 1 \in Nat /\ l \in Nat /\ e \in 1..B /\ i = B * l + e
      <4> DEFINE f == (i - 1) % B
      <4>1. i - 1 \in Nat
        OBVIOUS
      <4>2. l \in Nat /\ f \in 0..B - 1 /\ i - 1 = B * l + f
        BY <4>1, BlocksAndRest
      <4> HIDE DEF l
      <4> DEFINE w == B * l
      <4>3. w \in Nat
        BY <1>2, <4>2
      <4> HIDE DEF f, w
      <4>4. f + 1 \in 1..B /\ i = w + (f + 1)
        <5>1. i - 1 = w + f
          BY <4>2 DEF w
        <5> QED BY <1>2, <4>2, <4>3, <5>1
      <4> QED BY <4>1, <4>2, <4>4 DEF f, w
    <3>2. l + 1 \in 1..q
      <4>1. l < q
        <5> HIDE DEF l, e
        <5>1. B * l < B * q
          <6> DEFINE w == B * l
                     v == B * q
          <6>1. w \in Nat /\ v \in Nat /\ v = Len(src) /\ i = w + e
            BY <1>2, <3>1
          <6> HIDE DEF w, v
          <6>2. w < v
            BY <3>1, <6>1
          <6> QED BY <6>2 DEF w, v
        <5> QED BY <1>2, <3>1, <5>1
      <4> QED BY <3>1, <4>1
    <3> HIDE DEF l, e, ks
    <3>3. ks[l + 1] = Counted(g, 1 + (a + l))
      <4>1. a + (l + 1) = 1 + (a + l)
        BY <1>2, <3>1
      <4>2. ks[l + 1] = Counted(g, a + (l + 1))
        BY <1>5, <3>2
      <4> QED BY <4>1, <4>2
    <3>4. Key(g, B * (a + l) + e) = Counted(g, 1 + (a + l))[e]
      <4>1. a + l \in Nat
        BY <1>2, <3>1
      <4> QED BY <3>1, <4>1, KeyPlace
    <3>5. B * (a + l) + e = p + i
      <4> DEFINE v == B * a
                 w == B * l
      <4>1. v \in Nat /\ w \in Nat /\ B * (a + l) = v + w
        BY <1>2, <3>1
      <4>2. p = v /\ i = w + e
        BY <1>4, <3>1
      <4> DEFINE b == B * (a + l)
      <4>3. v \in Nat /\ w \in Nat /\ b = v + w /\ p = v /\ i = w + e /\ e \in Nat
        BY <3>1, <4>1, <4>2
      <4> HIDE DEF v, w, b
      <4>4. b + e = p + i
        BY <4>3
      <4> QED BY <4>4 DEF b
    <3> QED BY <3>3, <3>4, <3>5 DEF l, e
  <2> HIDE DEF ks
  <2> QED BY <1>2, <2>1 DEF Cipher
<1> HIDE DEF dst
<1>7. u = Sent(g, p, src, dir)
  BY <1>6 DEF Sent
<1>8. u \in Seq(T) /\ Len(u) = q * B
  BY <1>4, <1>7, SentBytes
<1> HIDE DEF u
<1>9. Aligned(u)
  BY <1>8, AlignedLengths
<1> DEFINE n == Join(m, u)
<1>10. /\ n \in Seq(T) /\ Aligned(n) /\ Join(ch, WholeBlocks(u)) = WholeBlocks(n)
  BY <1>2, <1>8, <1>9, ProcessWhole DEF Join
<1>11. Blocks(n, a + q)
  BY <1>2, <1>8, MoreBlocks
<1>12. mac = Join(MacBase(g), WholeBlocks(n))
  <2> DEFINE U == Block(CCMBytes)
             v == WholeBlocks(u)
  <2>1. ch \in Seq(U) /\ v \in Seq(U)
    BY <1>2, <1>8, WholeBlocksBytes
  <2>2. mac = Join(Join(MacBase(g), ch), v)
    BY <1>2 DEF Join
  <2> HIDE DEF ch, v, U
  <2>3. Join(Join(MacBase(g), ch), v) = Join(MacBase(g), Join(ch, v))
    BY <2>1, JoinAssociative DEF U
  <2> QED BY <1>10, <2>2, <2>3 DEF v
<1> HIDE DEF n
<1>13. pro \in Nat /\ pro % B = 0
  <2>1. CASE c.aesni
    BY <1>2, <2>1
  <2>2. CASE ~c.aesni
    <3> DEFINE l == c.lenPro
               k == q * B
    <3>1. /\ l \in Nat /\ k \in Nat /\ l % B = 0 /\ pro = l + k /\ k % B = 0
      <4>1. B * q + 0 = q * B /\ 0 \in 0..B - 1 /\ q * B \in Nat
        BY <1>2
      <4>2. (B * q + 0) % B = 0
        BY <1>2, <4>1, OnlyOnePlace
      <4> QED BY <1>2, <1>3, <2>2, <4>1, <4>2
    <3> HIDE DEF l, k, pro
    <3>2. (l + k) % B = k % B
      BY <3>1, AfterWholeBlocks
    <3> QED BY <3>1, <3>2
  <2> QED BY <2>1, <2>2
<1>14. ks[z] = Counted(g, a + q)
  <2>1. q \in 1..q
    OBVIOUS
  <2> HIDE DEF ks, z
  <2> QED BY <1>3, <1>5, <2>1
<1> DEFINE si == ks[z]
<1>15. /\ IsContext(d) /\ d.ctr0 = c.ctr0 /\ d.s0 = c.s0 /\ d.blk = c.blk
       /\ d.mac = mac /\ d.lenPro = pro /\ d.counterVal = cnt
  <2>1. IsContext(c)
    BY DEF InText
  <2>2. d = [c EXCEPT !.mac = mac, !.counterVal = cnt, !.si = si, !.lenPro = pro]
    OBVIOUS
  <2> HIDE DEF d, mac, si, pro, cnt
  <2> QED BY <2>1, <2>2 DEF IsContext
<1>16. InText(d, g, a + q, n, r)
  <2> HIDE DEF d, mac, si, pro, ch, u
  <2>1. Holds(T, WholeBlocks(n), d.blk, 0, n, <<>>)
    BY <1>2, <1>10, <1>15, NothingWaits
  <2>2. d.counterVal = ((a + q) + Ceiling(Len(r))) % CounterWord
    <3>1. Ceiling(Len(r)) = 0
      BY <1>2, BegunOrNot
    <3>2. (a + q) + Ceiling(Len(r)) = a + q
      BY <1>2, <3>1
    <3>3. cnt = ((a % CounterWord) + q) % CounterWord
      BY <1>2, <1>3
    <3>4. cnt = (a + q) % CounterWord
      <4> HIDE DEF cnt
      <4> QED BY <1>2, <3>3, CounterMoves
    <3> QED BY <1>15, <3>2, <3>4
  <2>3. d.ctr0 = [id |-> g.id, nonce |-> g.nonce] /\ d.s0 = Counted(g, 0)
    BY <1>15 DEF InText
  <2>4. d.lenPro \in Nat /\ d.lenPro % B = Len(r) /\ Len(r) < B
    BY <1>2, <1>13, <1>15
  <2> QED BY <1>2, <1>11, <1>12, <1>15, <2>1, <2>2, <2>3, <2>4 DEF InText
<1> HIDE DEF d, t, y
<1>17. t.c = d
  BY <1>1
<1> QED
  BY <1>1, <1>6, <1>7, <1>16, <1>17 DEF TextStep, t, y, n

\* What is left begins a block.
LEMMA BeginBlockHolds ==
    ASSUME NEW g, IsMessage(g), NEW c, NEW a, NEW m, NEW r, InText(c, g, a, m, r),
           NEW src \in Seq(CCMBytes), src # <<>>, r = <<>>, Len(src) < BlockSize,
           NEW dir, NEW x, NEW p, At(p, a, r), Suffices(g, a + 1)
    PROVE  TextStep(BeginBlock([c |-> c, dst |-> x], src, dir), x, Cipher(g, p, src),
                    g, a, m, Sent(g, p, src, dir))
<1> DEFINE B   == BlockSize
           T   == CCMBytes
           cnt == (c.counterVal + 1) % CounterWord
           si  == S(c.ctr0, cnt)
           dst == [i \in DOMAIN src |-> Xor(src[i], si[i])]
           u   == Plain(src, dst, dir)
           blk == CopyAt(c.blk, 0, u)
           d   == [c EXCEPT !.si = si, !.blk = blk, !.counterVal = cnt,
                            !.lenPro = @ + Len(src)]
           t   == BeginBlock([c |-> c, dst |-> x], src, dir)
           y   == Cipher(g, p, src)
           ch  == WholeBlocks(m)
<1>1. t = [c |-> d, dst |-> x \o dst]
  BY DEF BeginBlock
<1>2. /\ m \in Seq(T) /\ Len(r) = 0 /\ r \in Seq(T)
      /\ Holds(T, ch, c.blk, 0, m, r)
      /\ c.mac = Join(MacBase(g), ch)
      /\ a \in Nat /\ Blocks(m, a)
      /\ Len(src) \in Nat /\ B \in Nat \ {0} /\ DOMAIN src = 1..Len(src)
      /\ c.lenPro \in Nat /\ c.lenPro % B = 0 /\ c.counterVal = a % CounterWord
      /\ c.ctr0 = [id |-> g.id, nonce |-> g.nonce]
  <2>1. Len(r) = 0
    OBVIOUS
  <2>2. c.counterVal = a % CounterWord /\ a \in Nat
    <3>1. Ceiling(Len(r)) = 0
      BY <2>1, BegunOrNot
    <3>2. c.counterVal = (a + Ceiling(Len(r))) % CounterWord /\ a \in Nat
      BY DEF InText, Blocks
    <3>3. a + Ceiling(Len(r)) = a
      BY <3>1, <3>2
    <3> QED BY <3>2, <3>3
  <2>3. Holds(T, ch, c.blk, Len(r), m, r)
    BY DEF InText
  <2>4. m \in Seq(T) /\ r \in Seq(T)
    BY <2>3 DEF Holds
  <2> HIDE DEF ch
  <2> QED BY <2>1, <2>2, <2>3, <2>4, BlockConstants DEF InText, Blocks, ch
<1>3. si = Counted(g, 1 + a) /\ cnt = (a + 1) % CounterWord
  <2>1. a + 1 = 1 + a
    BY <1>2
  <2>2. cnt = ((a % CounterWord) + 1) % CounterWord
    BY <1>2
  <2>3. si = Counted(g, cnt)
    BY <1>2 DEF S, Counted
  <2> HIDE DEF si, cnt
  <2>4. Counted(g, ((a % CounterWord) + 1) % CounterWord) = Counted(g, a + 1)
    BY <1>2, SameNumber
  <2>5. cnt = (a + 1) % CounterWord
    BY <1>2, <2>2, CounterMoves
  <2> QED BY <2>1, <2>2, <2>3, <2>4, <2>5
<1>4. p \in Nat
  <2> DEFINE w == B * a
  <2>1. w \in Nat /\ p = w + 0
    BY <1>2 DEF At
  <2> HIDE DEF w
  <2> QED BY <2>1
<1>5. dst = y
  <2> HIDE DEF si
  <2>1. p = B * a
    <3> DEFINE w == B * a
    <3>1. w \in Nat /\ p = w + 0
      BY <1>2 DEF At
    <3> HIDE DEF w
    <3> QED BY <3>1 DEF w
  <2>2. ASSUME NEW i \in 1..Len(src) PROVE si[i] = Key(g, p + i)
    <3>1. i \in 1..B
      BY <1>2
    <3> QED BY <1>2, <1>3, <2>1, <3>1, KeyPlace
  <2> QED BY <1>2, <2>2 DEF Cipher
<1> HIDE DEF dst, si, cnt
<1>6. u = Sent(g, p, src, dir)
  BY <1>5 DEF Sent
<1>7. u \in Seq(T) /\ Len(u) = Len(src)
  BY <1>4, <1>6, SentBytes
<1> HIDE DEF u, ch
<1>8. Holds(T, ch, blk, Len(u), m, u)
  <2>0. 0 + Len(u) <= BlockSize
    BY <1>2, <1>7
  <2>1. Holds(T, ch, CopyAt(c.blk, 0, u), 0 + Len(u), m, r \o u)
    BY <1>2, <1>7, <2>0, KeepInBuffer
  <2>2. r \o u = u
    BY <1>7, ConcatEmptySeq
  <2>3. 0 + Len(u) = Len(u)
    BY <1>2, <1>7
  <2> QED BY <2>1, <2>2, <2>3
<1> HIDE DEF blk, d
<1>9. /\ IsContext(d) /\ d.ctr0 = c.ctr0 /\ d.s0 = c.s0 /\ d.si = si
      /\ d.counterVal = cnt /\ d.blk = blk /\ d.mac = c.mac
      /\ d.lenPro = c.lenPro + Len(src)
  <2>1. IsContext(c)
    BY DEF InText
  <2>2. d = [c EXCEPT !.si = si, !.blk = blk, !.counterVal = cnt, !.lenPro = @ + Len(src)]
    BY DEF d
  <2> QED BY <2>1, <2>2 DEF IsContext
<1>10. d.lenPro \in Nat /\ d.lenPro % B = Len(u)
  <2> DEFINE l == c.lenPro
             k == Len(src)
  <2>1. l \in Nat /\ k \in Nat /\ B \in Nat \ {0} /\ l % B = 0 /\ d.lenPro = l + k /\ k < B
    BY <1>2, <1>9
  <2> HIDE DEF l, k
  <2>2. (l + k) % B = k % B
    BY <2>1, AfterWholeBlocks
  <2>3. B * 0 + k = k /\ k \in 0..B - 1 /\ 0 \in Nat
    BY <2>1
  <2>4. (B * 0 + k) % B = k
    BY <2>3, OnlyOnePlace
  <2>5. d.lenPro \in Nat /\ d.lenPro % B = k
    BY <2>1, <2>2, <2>3, <2>4
  <2> QED BY <1>7, <2>5 DEF k
<1>11. d.counterVal = (a + Ceiling(Len(u))) % CounterWord
  <2>1. Len(u) \in 1..B
    BY <1>2, <1>7, EmptyIffNoLength
  <2>2. Ceiling(Len(u)) = 1
    BY <2>1, BegunOrNot
  <2> QED BY <1>3, <1>9, <2>2
<1>12. d.ctr0 = [id |-> g.id, nonce |-> g.nonce] /\ d.s0 = Counted(g, 0)
  BY <1>9 DEF InText
<1>13. InText(d, g, a, m, u)
  <2>1. Len(u) < B
    BY <1>7
  <2> QED BY <1>2, <1>3, <1>8, <1>9, <1>10, <1>11, <1>12, <2>1 DEF InText, ch
<1> HIDE DEF t, y
<1>14. t.c = d
  BY <1>1
<1> QED
  BY <1>1, <1>5, <1>6, <1>13, <1>14 DEF TextStep, t, y

\* The context holds the text text: its whole blocks are in the MAC.
HoldsText(c, g, text) == \E a, m, r : InText(c, g, a, m, r) /\ Join(m, r) = text

\* The step of a text call that ends in t has added what it makes of src.
TextMore(t, x, g, text, src, dir) ==
    /\ t = [c |-> t.c, dst |-> x \o Cipher(g, Len(text), src)]
    /\ HoldsText(t.c, g, Join(text, Sent(g, Len(text), src, dir)))

\* What follows from holding a text.
LEMMA HeldText ==
    ASSUME NEW g, NEW c, NEW text, HoldsText(c, g, text)
    PROVE  /\ text \in Seq(CCMBytes) /\ Len(text) \in Nat
           /\ c.lenPro % BlockSize = Len(text) % BlockSize
           /\ \E a, m, r : /\ InText(c, g, a, m, r) /\ Join(m, r) = text
                           /\ a \in Nat /\ At(Len(text), a, r)
                           /\ m \in Seq(CCMBytes) /\ r \in Seq(CCMBytes)
                           /\ Len(r) = Len(text) % BlockSize
<1>1. PICK a, m, r : InText(c, g, a, m, r) /\ Join(m, r) = text
  BY DEF HoldsText
<1>2. /\ m \in Seq(CCMBytes) /\ r \in Seq(CCMBytes) /\ Aligned(m) /\ Len(r) < BlockSize
      /\ c.lenPro % BlockSize = Len(r) /\ Blocks(m, a)
  BY <1>1 DEF InText, Holds
<1>3. text \in Seq(CCMBytes)
  BY <1>1, <1>2, JoinLengths
<1>4. Len(text) \in Nat /\ Len(text) % BlockSize = Len(r)
  BY <1>1, <1>2, OpenBlockLength
<1>5. a \in Nat /\ At(Len(text), a, r)
  <2>1. a \in Nat /\ Len(m) = BlockSize * a
    BY <1>2 DEF Blocks
  <2>2. Len(text) = Len(m) + Len(r)
    BY <1>1, <1>2, JoinLengths
  <2> QED BY <2>1, <2>2 DEF At
<1> QED
  BY <1>1, <1>2, <1>3, <1>4, <1>5

\* A part of the call that brings nothing.
LEMMA NothingMore ==
    ASSUME NEW g, NEW c, NEW text, HoldsText(c, g, text), NEW x \in Seq(CCMBytes), NEW dir
    PROVE  TextMore([c |-> c, dst |-> x], x, g, text, <<>>, dir)
<1> DEFINE p == Len(text)
<1>1. Cipher(g, p, <<>>) = <<>> /\ Sent(g, p, <<>>, dir) = <<>>
  BY CipherNone
<1>2. x \o <<>> = x
  BY ConcatEmptySeq
<1>3. Join(text, <<>>) = text
  <2>1. text \in Seq(CCMBytes)
    BY HeldText
  <2> QED BY <2>1, ConcatEmptySeq DEF Join
<1> QED
  BY <1>1, <1>2, <1>3 DEF TextMore

\* The three parts of a text call, whether they bring something or not.
LEMMA FillBlockMore ==
    ASSUME NEW g, IsMessage(g), MacBase(g) \in Seq(Block(CCMBytes)),
           NEW c, NEW text, HoldsText(c, g, text),
           NEW src \in Seq(CCMBytes), src = <<>> \/ Len(text) % BlockSize # 0,
           (Len(text) % BlockSize) + Len(src) <= BlockSize,
           NEW dir, NEW x \in Seq(CCMBytes)
    PROVE  TextMore(FillBlock([c |-> c, dst |-> x], src, dir), x, g, text, src, dir)
<1> DEFINE t == FillBlock([c |-> c, dst |-> x], src, dir)
           p == Len(text)
           e == Sent(g, p, src, dir)
<1>1. CASE src = <<>>
  <2>1. t = [c |-> c, dst |-> x]
    BY <1>1 DEF FillBlock
  <2> QED BY <1>1, <2>1, NothingMore
<1>2. CASE src # <<>>
  <2>1. PICK a, m, r : /\ InText(c, g, a, m, r) /\ Join(m, r) = text
                       /\ a \in Nat /\ At(p, a, r)
                       /\ m \in Seq(CCMBytes) /\ r \in Seq(CCMBytes)
                       /\ Len(r) = p % BlockSize
    BY HeldText
  <2>2. r # <<>> /\ Len(r) + Len(src) <= BlockSize
    BY <1>2, <2>1, EmptyIffNoLength
  <2> DEFINE s == Join(r, e)
             y == Cipher(g, p, src)
  <2>3. /\ Len(s) < BlockSize => TextStep(t, x, y, g, a, m, s)
        /\ Len(s) = BlockSize => TextStep(t, x, y, g, a + 1, Join(m, s), <<>>)
    BY <1>2, <2>1, <2>2, FillBlockHolds
  <2>4. p \in Nat
    BY HeldText
  <2>5. e \in Seq(CCMBytes) /\ Len(e) = Len(src)
    BY <2>4, SentBytes
  <2> HIDE DEF e, y, t
  <2>6. /\ s \in Seq(CCMBytes) /\ Len(s) = Len(r) + Len(e)
        /\ Join(m, s) \in Seq(CCMBytes) /\ Join(m, s) = Join(text, e)
    <3>1. s \in Seq(CCMBytes) /\ Len(s) = Len(r) + Len(e)
      BY <2>1, <2>5, JoinLengths
    <3>2. Join(m, s) \in Seq(CCMBytes)
      BY <2>1, <3>1, JoinLengths
    <3>3. Join(Join(m, r), e) = Join(m, s)
      BY <2>1, <2>5, JoinAssociative
    <3> QED BY <2>1, <3>1, <3>2, <3>3
  <2>7. Join(Join(m, s), <<>>) = Join(m, s)
    BY <2>6, ConcatEmptySeq DEF Join
  <2>8. Len(s) < BlockSize \/ Len(s) = BlockSize
    <3>1. Len(s) = Len(r) + Len(src) /\ Len(s) \in Nat /\ BlockSize \in Nat
      BY <2>5, <2>6, BlockConstants
    <3> QED BY <2>2, <3>1
  <2> HIDE DEF s
  <2>9. t = [c |-> t.c, dst |-> x \o y] /\ HoldsText(t.c, g, Join(text, e))
    <3>1. CASE Len(s) < BlockSize
      BY <2>3, <2>6, <3>1 DEF TextStep, HoldsText
    <3>2. CASE Len(s) = BlockSize
      <4>1. TextStep(t, x, y, g, a + 1, Join(m, s), <<>>)
        BY <2>3, <3>2
      <4>2. InText(t.c, g, a + 1, Join(m, s), <<>>) /\ t = [c |-> t.c, dst |-> x \o y]
        BY <4>1 DEF TextStep
      <4> QED BY <2>6, <2>7, <4>2 DEF HoldsText
    <3> QED BY <2>8, <3>1, <3>2
  <2> QED BY <2>9 DEF TextMore, t, y, e
<1> QED
  BY <1>1, <1>2

\* Whole blocks are held as well, when no block is begun: the step of the
\* cipher's kernels.
LEMMA WholeBlocksMore ==
    ASSUME NEW g, IsMessage(g), MacBase(g) \in Seq(Block(CCMBytes)),
           NEW c, NEW text, HoldsText(c, g, text),
           NEW src \in Seq(CCMBytes), src = <<>> \/ Len(text) % BlockSize = 0,
           NEW q \in Nat, Len(src) = q * BlockSize,
           Suffices(g, Begun(Len(text) + Len(src))),
           NEW dir, NEW x \in Seq(CCMBytes)
    PROVE  TextMore(WholeBlocksOfText([c |-> c, dst |-> x], src, dir), x, g, text, src, dir)
<1> DEFINE t == WholeBlocksOfText([c |-> c, dst |-> x], src, dir)
           p == Len(text)
           e == Sent(g, p, src, dir)
<1>0. BlockSize \in Nat \ {0}
  BY BlockConstants
<1>1. CASE q = 0
  <2>1. Len(src) = 0 /\ src = <<>>
    BY <1>0, <1>1, EmptyIffNoLength
  <2>2. Len(src) \div BlockSize = 0
    <3>1. BlockSize * 0 + 0 = 0 /\ 0 \in 0..BlockSize - 1
      BY <1>0
    <3>2. (BlockSize * 0 + 0) \div BlockSize = 0
      BY <3>1, OnlyOnePlace
    <3> QED BY <2>1, <3>1, <3>2
  <2>3. t = [c |-> c, dst |-> x]
    BY <2>2 DEF WholeBlocksOfText
  <2> QED BY <2>1, <2>3, NothingMore
<1>2. CASE q # 0
  <2>1. PICK a, m, r : /\ InText(c, g, a, m, r) /\ Join(m, r) = text
                       /\ a \in Nat /\ At(p, a, r)
                       /\ m \in Seq(CCMBytes) /\ r \in Seq(CCMBytes)
                       /\ Len(r) = p % BlockSize
    BY HeldText
  <2>2. r = <<>>
    <3>1. Len(src) # 0
      BY <1>0, <1>2
    <3>2. src # <<>>
      BY <3>1
    <3> QED BY <2>1, <3>2, EmptyIffNoLength
  <2> DEFINE y == Cipher(g, p, src)
  <2>3. TextStep(t, x, y, g, a + q, Join(m, e), r)
    <3>1. q \in Nat \ {0}
      BY <1>2
    <3>2. Begun(p + Len(src)) = a + q
      <4> DEFINE u == BlockSize * a
                 v == BlockSize * q
                 w == BlockSize * (a + q)
      <4>1. Len(r) = 0
        BY <2>2
      <4>2. u \in Nat /\ v \in Nat /\ w = u + v /\ p = u + Len(r) /\ Len(src) = v
        BY <1>0, <2>1 DEF At
      <4> HIDE DEF u, v, w
      <4>3. p + Len(src) = w + 0
        BY <4>1, <4>2
      <4>4. a + q \in Nat /\ 0 \in 0..BlockSize - 1
        BY <1>0, <2>1
      <4>5. (w + 0) \div BlockSize = a + q /\ (w + 0) % BlockSize = 0
        BY <4>4, OnlyOnePlace DEF w
      <4>6. w + 0 \in Nat
        BY <4>2
      <4>7. Begun(w + 0) = a + q
        <5> DEFINE w0 == w + 0
        <5>1. w0 \in Nat /\ w0 \div BlockSize = a + q /\ w0 % BlockSize = 0
          BY <4>5, <4>6
        <5> HIDE DEF w0
        <5>2. Begun(w0) = (a + q) + 0
          BY <5>1, BegunBlocks
        <5> QED BY <4>4, <5>2 DEF w0
      <4> QED BY <4>3, <4>7
    <3>3. Suffices(g, a + q)
      BY <3>2
    <3> QED BY <2>1, <2>2, <3>1, <3>3, WholeBlocksHold
  <2>4. p \in Nat
    BY HeldText
  <2>5. e \in Seq(CCMBytes) /\ Len(e) = Len(src)
    BY <2>4, SentBytes
  <2> HIDE DEF e, y, t
  <2>6. Join(Join(m, e), r) = Join(text, e)
    <3>1. Join(m, e) \in Seq(CCMBytes)
      BY <2>1, <2>5, JoinLengths
    <3>2. Join(m, r) = m
      BY <2>1, <2>2, ConcatEmptySeq DEF Join
    <3>3. Join(Join(m, e), r) = Join(m, e)
      BY <2>2, <3>1, ConcatEmptySeq DEF Join
    <3> QED BY <2>1, <3>2, <3>3
  <2>7. t = [c |-> t.c, dst |-> x \o y] /\ HoldsText(t.c, g, Join(text, e))
    BY <2>3, <2>6 DEF TextStep, HoldsText
  <2> QED BY <2>7 DEF TextMore, t, y, e
<1> QED
  BY <1>1, <1>2

\* What is left begins a block, and is held as well.
LEMMA BeginBlockMore ==
    ASSUME NEW g, IsMessage(g), NEW c, NEW text, HoldsText(c, g, text),
           NEW src \in Seq(CCMBytes), src = <<>> \/ Len(text) % BlockSize = 0,
           Len(src) < BlockSize, Suffices(g, Begun(Len(text) + Len(src))),
           NEW dir, NEW x \in Seq(CCMBytes)
    PROVE  TextMore(BeginBlock([c |-> c, dst |-> x], src, dir), x, g, text, src, dir)
<1> DEFINE t == BeginBlock([c |-> c, dst |-> x], src, dir)
           p == Len(text)
           e == Sent(g, p, src, dir)
<1>1. CASE src = <<>>
  <2>1. t = [c |-> c, dst |-> x]
    BY <1>1 DEF BeginBlock
  <2> QED BY <1>1, <2>1, NothingMore
<1>2. CASE src # <<>>
  <2>1. PICK a, m, r : /\ InText(c, g, a, m, r) /\ Join(m, r) = text
                       /\ a \in Nat /\ At(p, a, r)
                       /\ m \in Seq(CCMBytes) /\ r \in Seq(CCMBytes)
                       /\ Len(r) = p % BlockSize
    BY HeldText
  <2>2. r = <<>>
    BY <1>2, <2>1, EmptyIffNoLength
  <2> DEFINE y == Cipher(g, p, src)
  <2>3. TextStep(t, x, y, g, a, m, e)
    <3>1. Begun(p + Len(src)) = a + 1
      <4> DEFINE u == BlockSize * a
                 l == Len(src)
      <4>1. Len(r) = 0 /\ Len(src) # 0
        BY <1>2, <2>2, EmptyIffNoLength
      <4>2. BlockSize \in Nat \ {0} /\ l \in 1..BlockSize - 1
        BY <4>1, BlockConstants
      <4>3. u \in Nat /\ p = u + Len(r)
        BY <2>1, <4>2 DEF At
      <4> HIDE DEF u, l
      <4>4. p + l = u + l /\ u + l \in Nat /\ l \in 0..BlockSize - 1 /\ l # 0
        BY <4>1, <4>2, <4>3
      <4>5. (u + l) \div BlockSize = a /\ (u + l) % BlockSize = l
        BY <2>1, <4>4, OnlyOnePlace DEF u
      <4>6. Begun(u + l) = a + 1
        BY <4>4, <4>5, BegunBlocks
      <4> QED BY <4>4, <4>6 DEF l
    <3>2. Suffices(g, a + 1)
      BY <3>1
    <3> QED BY <1>2, <2>1, <2>2, <3>2, BeginBlockHolds
  <2>6. Join(m, e) = Join(text, e)
    <3>1. Join(m, r) = m
      BY <2>1, <2>2, ConcatEmptySeq DEF Join
    <3> QED BY <2>1, <3>1
  <2> HIDE DEF e, y, t
  <2>7. t = [c |-> t.c, dst |-> x \o y] /\ HoldsText(t.c, g, Join(text, e))
    BY <2>3, <2>6 DEF TextStep, HoldsText
  <2> QED BY <2>7 DEF TextMore, t, y, e
<1> QED
  BY <1>1, <1>2

\* A call of ippsAES_CCMEncrypt or ippsAES_CCMDecrypt holds the text before it
\* and its own, however the two fall on the block boundaries.
LEMMA ProcessHolds ==
    ASSUME NEW g, IsMessage(g), MacBase(g) \in Seq(Block(CCMBytes)),
           NEW c, NEW text, HoldsText(c, g, text),
           NEW src \in Seq(CCMBytes), NEW dir,
           Suffices(g, Begun(Len(text) + Len(src)))
    PROVE  LET t == CCMProcess(c, src, dir)
           IN /\ t.dst = Cipher(g, Len(text), src)
              /\ HoldsText(t.c, g, Join(text, Sent(g, Len(text), src, dir)))
<1> DEFINE B   == BlockSize
           T   == CCMBytes
           p   == Len(text)
           len == Len(src)
           loc == ToOpenBlock(p, len)
           q   == WholeIn(p, len)
           k   == q * B
           s0  == Take(src, loc)
           s1  == Drop(src, loc)
           v1  == Take(s1, k)
           v2  == Drop(src, loc + k)
           n   == <<>>
           t1  == FillBlock([c |-> c, dst |-> n], s0, dir)
           t2  == WholeBlocksOfText(t1, v1, dir)
           t3  == BeginBlock(t2, v2, dir)
           d0  == Cipher(g, p, s0)
           e0  == Sent(g, p, s0, dir)
           text1 == Join(text, e0)
           p1  == Len(text1)
           d1  == Cipher(g, p1, v1)
           e1  == Sent(g, p1, v1, dir)
           text2 == Join(text1, e1)
           p2  == Len(text2)
           d2  == Cipher(g, p2, v2)
           e2  == Sent(g, p2, v2, dir)
<1>1. /\ text \in Seq(T) /\ p \in Nat /\ c.lenPro % B = p % B /\ len \in Nat
      /\ B \in Nat \ {0}
  BY HeldText, BlockConstants
<1>20. \A z \in Nat : \A s \in Seq(T) :
         /\ Cipher(g, z, s) \in Seq(T)
         /\ Sent(g, z, s, dir) \in Seq(T) /\ Len(Sent(g, z, s, dir)) = Len(s)
  BY CipherBytes, SentBytes
<1>21. \A z \in Nat : \A s, t \in Seq(T) :
          Cipher(g, z, Join(s, t)) = Join(Cipher(g, z, s), Cipher(g, z + Len(s), t))
  BY CipherJoin
<1>22. \A z \in Nat : \A s, t \in Seq(T) :
          Sent(g, z, Join(s, t), dir)
            = Join(Sent(g, z, s, dir), Sent(g, z + Len(s), t, dir))
  BY SentJoin
<1>23. ASSUME NEW z \in Nat, z <= p + len PROVE Suffices(g, Begun(z))
  <2> DEFINE w == p + len
  <2>1. w \in Nat /\ z <= w /\ Suffices(g, Begun(w))
    BY <1>1, <1>23
  <2> HIDE DEF w
  <2>2. Begun(z) \in Nat /\ Begun(w) \in Nat /\ Begun(z) <= Begun(w)
    BY <2>1, BegunNumber, BegunMonotone
  <2> QED BY <2>1, <2>2, SufficesForLess
<1>2. CCMProcess(c, src, dir) = t3
  BY <1>1 DEF CCMProcess, ToOpenBlock, WholeIn
<1>3. /\ loc \in 0..len /\ q \in Nat /\ k \in 0..len - loc
      /\ RestOf(p, len) \in 0..B - 1 /\ RestOf(p, len) = len - loc - k
      /\ StaysOpen(p, len) => loc = len /\ (p + len) % B = (p % B) + len
      /\ ~StaysOpen(p, len) /\ p % B # 0 => loc = B - (p % B)
      /\ p % B = 0 => loc = 0
      /\ (p % B) + loc <= B
  <2>1. /\ loc \in 0..len /\ q \in Nat /\ k \in 0..len - loc
        /\ RestOf(p, len) \in 0..B - 1
        /\ StaysOpen(p, len) => loc = len /\ (p + len) % B = (p % B) + len
        /\ ~StaysOpen(p, len) /\ p % B # 0 => loc = B - (p % B)
    BY <1>1, Cutting
  <2>2. RestOf(p, len) = len - loc - k
    BY DEF RestOf
  <2>3. p % B = 0 => loc = 0
    BY DEF ToOpenBlock
  <2>4. (p % B) + loc <= B
    <3>1. p % B \in 0..B - 1
      BY <1>1, BlocksAndRest
    <3>2. StaysOpen(p, len) => (p % B) + len < B
      BY DEF StaysOpen
    <3> DEFINE z == p % B
    <3> HIDE DEF z, loc, len
    <3> QED BY <1>1, <2>1, <2>3, <3>1, <3>2 DEF z, len
  <2> QED BY <2>1, <2>2, <2>3, <2>4
<1> HIDE DEF loc, q
<1>4. /\ s0 \in Seq(T) /\ Len(s0) = loc /\ s1 \in Seq(T) /\ Len(s1) = len - loc
      /\ src = Join(s0, s1)
  BY <1>3, TakeDrop, TakeDropLengths DEF Join
<1> HIDE DEF s0
<1>5. /\ v1 \in Seq(T) /\ Len(v1) = k /\ v2 \in Seq(T) /\ Len(v2) = RestOf(p, len)
      /\ s1 = Join(v1, v2)
  <2>1. v2 = Drop(s1, k)
    <3> HIDE DEF k
    <3> QED BY <1>3, DropTwice
  <2>2. k \in 0..Len(s1)
    BY <1>3, <1>4
  <2> HIDE DEF s1, k, v2
  <2>3. /\ Take(s1, k) \in Seq(T) /\ Len(Take(s1, k)) = k
        /\ Drop(s1, k) \in Seq(T) /\ Len(Drop(s1, k)) = Len(s1) - k
        /\ s1 = Take(s1, k) \o Drop(s1, k)
    BY <1>4, <2>2, TakeDrop, TakeDropLengths
  <2>4. Len(s1) - k = RestOf(p, len)
    BY <1>3, <1>4
  <2> QED BY <2>1, <2>3, <2>4 DEF Join
<1> HIDE DEF s1, v1, v2, n, len
<1>6. TextMore(t1, n, g, text, s0, dir)
  <2>1. s0 = <<>> \/ p % B # 0
    BY <1>3, <1>4, EmptyIffNoLength
  <2>2. (p % B) + Len(s0) <= B
    BY <1>3, <1>4
  <2>3. n \in Seq(T)
    BY EmptySeq DEF n
  <2> QED BY <1>4, <2>1, <2>2, <2>3, FillBlockMore
<1>7. d0 \in Seq(T) /\ n \o d0 = d0 /\ e0 \in Seq(T) /\ Len(e0) = loc /\ text1 \in Seq(T)
      /\ p1 = p + loc /\ p1 \in Nat
  <2>1. d0 \in Seq(T) /\ e0 \in Seq(T) /\ Len(e0) = loc
    BY <1>1, <1>4, <1>20
  <2>2. n \o d0 = d0
    BY <2>1, ConcatEmptySeq DEF n
  <2> HIDE DEF d0, e0
  <2>3. text1 \in Seq(T) /\ p1 = p + loc
    BY <1>1, <2>1, JoinLengths
  <2>4. p + loc \in Nat
    BY <1>1, <1>3
  <2> QED BY <2>1, <2>2, <2>3, <2>4
<1> HIDE DEF t1, d0, e0, text1
<1> DEFINE c1 == t1.c
<1>8. t1 = [c |-> c1, dst |-> d0] /\ HoldsText(c1, g, text1)
  BY <1>6, <1>7 DEF TextMore, d0, e0, text1
<1> HIDE DEF c1
<1>9. p1 % B = 0 \/ (v1 = <<>> /\ v2 = <<>>)
  <2>1. CASE StaysOpen(p, len)
    <3>1. loc = len /\ k = 0
      BY <1>1, <1>3, <2>1
    <3>2. Len(v1) = 0 /\ Len(v2) = 0
      BY <1>1, <1>3, <1>5, <3>1
    <3> QED BY <1>5, <3>2, EmptyIffNoLength
  <2>2. CASE ~StaysOpen(p, len)
    <3> DEFINE a == p \div B
               b == p % B
    <3>1. a \in Nat /\ b \in 0..B - 1 /\ p = B * a + b
      BY <1>1, BlocksAndRest
    <3>2. b = 0 => loc = 0
      BY <1>3
    <3>3. b # 0 => loc = B - b
      BY <1>3, <2>2
    <3> HIDE DEF a, b
    <3>4. \E z \in Nat : p1 = B * z + 0
      <4>1. CASE b = 0
        <5>1. p1 = B * a + 0
          BY <1>1, <1>7, <3>1, <3>2, <4>1
        <5> QED BY <3>1, <5>1
      <4>2. CASE b # 0
        <5>1. p1 = B * (a + 1) + 0
          BY <1>1, <1>7, <3>1, <3>3, <4>2
        <5> QED BY <3>1, <5>1
      <4> QED BY <4>1, <4>2
    <3>5. 0 \in 0..B - 1
      BY <1>1
    <3> HIDE DEF p1
    <3> QED BY <3>4, <3>5, OnlyOnePlace
  <2> QED BY <2>1, <2>2
<1>10. TextMore(t2, d0, g, text1, v1, dir)
  <2>1. v1 = <<>> \/ p1 % B = 0
    BY <1>9
  <2>2. Len(v1) = q * BlockSize
    BY <1>5
  <2>4. Suffices(g, Begun(p1 + Len(v1)))
    <3>1. p1 + Len(v1) \in Nat /\ p1 + Len(v1) <= p + len
      <4> HIDE DEF k, p1
      <4>1. k \in Nat /\ loc \in Nat /\ loc + k <= len
        BY <1>1, <1>3
      <4> HIDE DEF p
      <4> QED BY <1>1, <1>5, <1>7, <4>1
    <3> QED BY <1>23, <3>1
  <2>3. TextMore(WholeBlocksOfText([c |-> c1, dst |-> d0], v1, dir), d0, g, text1, v1, dir)
    BY <1>3, <1>5, <1>7, <1>8, <2>1, <2>2, <2>4, WholeBlocksMore
  <2> QED BY <1>8, <2>3
<1>11. /\ d1 \in Seq(T) /\ e1 \in Seq(T) /\ Len(e1) = k /\ text2 \in Seq(T)
       /\ p2 = p1 + k /\ p2 \in Nat /\ d0 \o d1 \in Seq(T)
  <2>1. d1 \in Seq(T) /\ e1 \in Seq(T) /\ Len(e1) = k
    BY <1>5, <1>7, <1>20
  <2> HIDE DEF d1, e1
  <2>2. text2 \in Seq(T) /\ p2 = p1 + k
    <3> HIDE DEF k
    <3>1. text2 \in Seq(T) /\ Len(text2) = Len(text1) + Len(e1)
      BY <1>7, <2>1, JoinLengths
    <3> QED BY <2>1, <3>1
  <2>3. p1 + k \in Nat
    BY <1>3, <1>7
  <2>4. d0 \o d1 \in Seq(T)
    BY <1>7, <2>1, ConcatProperties
  <2> QED BY <2>1, <2>2, <2>3, <2>4
<1> HIDE DEF t2, d1, e1, text2
<1> DEFINE c2 == t2.c
           o  == d0 \o d1
<1>12. t2 = [c |-> c2, dst |-> o] /\ HoldsText(c2, g, text2)
  BY <1>10 DEF TextMore, d1, e1, text2
<1> HIDE DEF c2, o
<1>13. p2 % B = 0 \/ v2 = <<>>
  <2>1. CASE p1 % B = 0
    <3>1. k % B = 0
      <4>1. B * q + 0 = k /\ 0 \in 0..B - 1
        BY <1>1, <1>3
      <4>2. (B * q + 0) % B = 0
        BY <1>3, <4>1, OnlyOnePlace
      <4> QED BY <4>1, <4>2
    <3>2. k \in Nat
      BY <1>3
    <3> HIDE DEF k, p1, p2
    <3>3. (p1 + k) % B = k % B
      BY <1>7, <2>1, <3>2, AfterWholeBlocks
    <3> QED BY <1>11, <3>1, <3>3
  <2> QED BY <1>9, <2>1
<1>14. TextMore(t3, o, g, text2, v2, dir)
  <2>1. v2 = <<>> \/ p2 % B = 0
    BY <1>13
  <2>2. Len(v2) < B
    BY <1>1, <1>3, <1>5
  <2>3. o \in Seq(T)
    BY <1>11 DEF o
  <2>5. Suffices(g, Begun(p2 + Len(v2)))
    <3>1. p2 + Len(v2) \in Nat /\ p2 + Len(v2) <= p + len
      <4> DEFINE e == RestOf(p, len)
      <4>1. e \in Nat /\ e = len - loc - k /\ Len(v2) = e
        BY <1>1, <1>3, <1>5
      <4> HIDE DEF e, k, p, p1, p2
      <4>2. p2 = p + loc + k
        BY <1>7, <1>11
      <4>3. k \in Nat /\ loc \in Nat
        BY <1>1, <1>3
      <4> QED BY <1>1, <4>1, <4>2, <4>3
    <3> QED BY <1>23, <3>1
  <2>4. TextMore(BeginBlock([c |-> c2, dst |-> o], v2, dir), o, g, text2, v2, dir)
    BY <1>5, <1>12, <2>1, <2>2, <2>3, <2>5, BeginBlockMore
  <2> QED BY <1>12, <2>4
<1>15. d2 \in Seq(T) /\ e2 \in Seq(T)
  BY <1>5, <1>11, <1>20
<1>16. /\ Cipher(g, p, src) = Join(d0, Join(d1, d2))
       /\ Sent(g, p, src, dir) = Join(e0, Join(e1, e2))
  <2>1. p1 = p + Len(s0) /\ p2 = p1 + Len(v1)
    BY <1>4, <1>5, <1>7, <1>11
  <2>2. Cipher(g, p, Join(s0, s1)) = Join(Cipher(g, p, s0), Cipher(g, p + Len(s0), s1))
    BY <1>1, <1>4, <1>21
  <2>3. Cipher(g, p1, Join(v1, v2)) = Join(Cipher(g, p1, v1), Cipher(g, p1 + Len(v1), v2))
    BY <1>5, <1>7, <1>21
  <2>4. Sent(g, p, Join(s0, s1), dir) = Join(Sent(g, p, s0, dir), Sent(g, p + Len(s0), s1, dir))
    BY <1>1, <1>4, <1>22
  <2>5. Sent(g, p1, Join(v1, v2), dir)
          = Join(Sent(g, p1, v1, dir), Sent(g, p1 + Len(v1), v2, dir))
    BY <1>5, <1>7, <1>22
  <2>6. src = Join(s0, s1) /\ s1 = Join(v1, v2)
    BY <1>4, <1>5
  <2> HIDE DEF p, p1, p2, d2, e2
  <2>7. Cipher(g, p, src) = Join(Cipher(g, p, s0), Join(Cipher(g, p1, v1), Cipher(g, p2, v2)))
    BY <2>1, <2>2, <2>3, <2>6
  <2>8. Sent(g, p, src, dir)
          = Join(Sent(g, p, s0, dir), Join(Sent(g, p1, v1, dir), Sent(g, p2, v2, dir)))
    BY <2>1, <2>4, <2>5, <2>6
  <2> QED BY <2>7, <2>8 DEF d0, d1, d2, e0, e1, e2
<1> HIDE DEF t3, d2, e2
<1>17. t3.dst = Cipher(g, p, src)
  <2>1. Join(Join(d0, d1), d2) = Join(d0, Join(d1, d2))
    <3>1. d0 \in Seq(T) /\ d1 \in Seq(T) /\ d2 \in Seq(T)
      BY <1>7, <1>11, <1>15
    <3> HIDE DEF T
    <3> QED BY <3>1, JoinAssociative
  <2>2. t3.dst = o \o d2
    <3> DEFINE z == o \o d2
               f == t3.c
    <3>1. t3 = [c |-> f, dst |-> z]
      BY <1>14 DEF TextMore, d2
    <3> HIDE DEF z, f
    <3>2. t3.dst = z
      BY <3>1
    <3> QED BY <3>2 DEF z
  <2> QED BY <1>16, <2>1, <2>2 DEF Join, o
<1>18. HoldsText(t3.c, g, Join(text, Sent(g, p, src, dir)))
  <2>1. HoldsText(t3.c, g, Join(text2, e2))
    BY <1>14 DEF TextMore, e2
  <2>2. Join(text2, e2) = Join(text, Join(e0, Join(e1, e2)))
    <3>1. Join(e1, e2) \in Seq(T)
      BY <1>11, <1>15, JoinLengths
    <3>2. Join(Join(text1, e1), e2) = Join(text1, Join(e1, e2))
      <4>1. text1 \in Seq(T) /\ e1 \in Seq(T) /\ e2 \in Seq(T)
        BY <1>7, <1>11, <1>15
      <4> HIDE DEF T
      <4> QED BY <4>1, JoinAssociative
    <3>3. Join(Join(text, e0), Join(e1, e2)) = Join(text, Join(e0, Join(e1, e2)))
      <4> DEFINE f == Join(e1, e2)
      <4>1. text \in Seq(T) /\ e0 \in Seq(T) /\ f \in Seq(T)
        BY <1>1, <1>7, <3>1
      <4> HIDE DEF T, f
      <4>2. Join(Join(text, e0), f) = Join(text, Join(e0, f))
        BY <4>1, JoinAssociative
      <4> QED BY <4>2 DEF f
    <3> QED BY <3>2, <3>3 DEF text1, text2
  <2> QED BY <1>16, <2>1, <2>2
<1> QED
  BY <1>2, <1>17, <1>18

-----------------------------------------------------------------------------
(* Given and associated data. *)

\* f has the elements of g, then those of e.
Grown(f, g, e) ==
    /\ Len(f) = Len(g) + Len(e)
    /\ \A i \in 1..Len(g) : f[i] = g[i]
    /\ \A i \in 1..Len(e) : f[Len(g) + i] = e[i]

\* A sequence with a sequence behind it, told by its elements.
LEMMA GrownSequence ==
    ASSUME NEW V, NEW f \in Seq(V), NEW U, NEW g \in Seq(U), NEW T, NEW e \in Seq(T),
           Grown(f, g, e)
    PROVE  f = g \o e
<1>0. /\ Len(f) = Len(g) + Len(e)
      /\ \A i \in 1..Len(g) : f[i] = g[i]
      /\ \A i \in 1..Len(e) : f[Len(g) + i] = e[i]
  BY DEF Grown
<1>1. g \in Seq(V)
  <2>1. \A i \in 1..Len(g) : g[i] \in V
    <3> TAKE i \in 1..Len(g)
    <3>1. i \in 1..Len(f) /\ g[i] = f[i]
      BY <1>0
    <3> QED BY <3>1
  <2> QED BY <2>1
<1>2. e \in Seq(V)
  <2>1. \A i \in 1..Len(e) : e[i] \in V
    <3> TAKE i \in 1..Len(e)
    <3>1. Len(g) + i \in 1..Len(f) /\ e[i] = f[Len(g) + i]
      BY <1>0
    <3> QED BY <3>1
  <2> QED BY <2>1
<1> QED
  BY <1>0, <1>1, <1>2, MadeOfTwo

\* What is given with n more bytes of text.
MoreText(g, n, dir, h) ==
    /\ h.id = g.id /\ h.nonce = g.nonce
    /\ h.text \in Seq({"enc", "dec"}) /\ Len(h.text) = Len(g.text) + n
    /\ \A i \in 1..Len(g.text) : h.text[i] = g.text[i]
    /\ \A i \in 1..n : h.text[Len(g.text) + i] = dir

\* The bytes a text call adds to the output and to the plain text.
LEMMA TextAdded ==
    ASSUME NEW g, IsMessage(g), NEW n \in Nat, NEW dir \in {"enc", "dec"},
           NEW h, MoreText(g, n, dir, h)
    PROVE  LET p   == Len(g.text)
               src == Piece(dir, g.id, p, n)
           IN /\ src \in Seq(CCMBytes) /\ Len(src) = n
              /\ CCMOneCall!Output(h) = CCMOneCall!Output(g) \o Cipher(g, p, src)
              /\ CCMOneCall!PlainText(h) = Join(CCMOneCall!PlainText(g), Sent(g, p, src, dir))
<1> DEFINE p   == Len(g.text)
           src == Piece(dir, g.id, p, n)
           O(k) == CCMOneCall!Output(k)
           P(k) == CCMOneCall!PlainText(k)
           d   == Cipher(g, p, src)
           R(k, i) == CCMOneCall!Result(k, i)
           C(k, i) == IF k.text[i] = "enc" THEN CCMOneCall!Source(k, i) ELSE R(k, i)
           s   == Sent(g, p, src, dir)
<1>1. g.text \in Seq({"enc", "dec"}) /\ p \in Nat /\ DOMAIN g.text = 1..p
  BY DEF IsMessage
<1>2. /\ h.id = g.id /\ h.nonce = g.nonce
      /\ h.text \in Seq({"enc", "dec"}) /\ Len(h.text) = p + n
      /\ \A i \in 1..p : h.text[i] = g.text[i]
      /\ \A i \in 1..n : h.text[p + i] = dir
  BY DEF MoreText
<1>3. DOMAIN h.text = 1..p + n
  BY <1>2
<1>4. src \in Seq(CCMBytes) /\ Len(src) = n
  <2>1. ASSUME NEW i \in 1..n PROVE {<<dir, g.id, p + i>>} \in CCMBytes
    <3>1. p + i \in Int
      BY <1>1
    <3>2. <<dir, g.id, p + i>> \in CCMTerms
      <4> HIDE DEF p
      <4> QED BY <3>1 DEF CCMTerms, IsMessage
    <3> QED BY <3>2 DEF CCMBytes
  <2> HIDE DEF p
  <2> QED BY <2>1 DEF Piece
<1>5. /\ O(h) = [i \in 1..p + n |-> R(h, i)] /\ O(g) = [i \in 1..p |-> R(g, i)]
  BY <1>1, <1>3 DEF CCMOneCall!Output
<1>6. /\ P(h) = [i \in 1..p + n |-> C(h, i)]
      /\ P(g) = [i \in 1..p |-> C(g, i)]
  BY <1>1, <1>3 DEF CCMOneCall!PlainText
<1>K. ASSUME NEW i PROVE /\ CCMOneCall!Keystream(h, i) = Key(g, i)
                         /\ CCMOneCall!Keystream(g, i) = Key(g, i)
  BY <1>2 DEF CCMOneCall!Keystream, Key, Counted
<1>7. ASSUME NEW i \in 1..p PROVE R(h, i) = R(g, i) /\ C(h, i) = C(g, i)
  <2>1. CCMOneCall!Source(h, i) = CCMOneCall!Source(g, i)
    BY <1>2 DEF CCMOneCall!Source
  <2>3. R(h, i) = R(g, i)
    BY <2>1, <1>K DEF CCMOneCall!Result
  <2>4. h.text[i] = g.text[i]
    BY <1>2
  <2> QED BY <2>1, <2>3, <2>4
<1>8. ASSUME NEW i \in 1..n
      PROVE  R(h, p + i) = d[i] /\ C(h, p + i) = s[i]
  <2>1. CCMOneCall!Source(h, p + i) = {<<dir, g.id, p + i>>}
    BY <1>2 DEF CCMOneCall!Source
  <2>2. src[i] = {<<dir, g.id, p + i>>}
    BY DEF Piece
  <2>4. d[i] = Xor(src[i], Key(g, p + i))
    <3> HIDE DEF src
    <3> QED BY <1>4 DEF Cipher
  <2>5. R(h, p + i) = d[i]
    BY <1>K, <2>1, <2>2, <2>4, CCMSameOperators DEF CCMOneCall!Result
  <2>6. h.text[p + i] = dir
    BY <1>2
  <2>7. s[i] = IF dir = "enc" THEN src[i] ELSE d[i]
    BY DEF Sent, Plain
  <2> HIDE DEF s, d, src
  <2> QED BY <2>1, <2>2, <2>5, <2>6, <2>7
<1>9. d \in Seq(CCMBytes) /\ Len(d) = n /\ s \in Seq(CCMBytes) /\ Len(s) = n
  <2>1. IsMessage(g) /\ p \in Nat /\ src \in Seq(CCMBytes) /\ Len(src) = n
    BY <1>1, <1>4
  <2> HIDE DEF src, p
  <2>2. d \in Seq(CCMBytes) /\ Len(d) = n
    BY <2>1, CipherBytes
  <2>3. s \in Seq(CCMBytes) /\ Len(s) = n
    BY <2>1, SentBytes
  <2> QED BY <2>2, <2>3
<1> HIDE DEF d, s, src
<1>11. O(h) = O(g) \o d
  <2> DEFINE f == O(h)
             e == O(g)
  <2> HIDE DEF R, p
  <2> DEFINE T == {R(h, i) : i \in 1..p + n}
             U == {R(g, i) : i \in 1..p}
  <2>1. f \in Seq(T) /\ e \in Seq(U) /\ Len(f) = p + n /\ Len(e) = p
    <3>1. (\A i \in 1..p + n : R(h, i) \in T) /\ (\A i \in 1..p : R(g, i) \in U)
      OBVIOUS
    <3>2. p + n \in Nat
      BY <1>1
    <3> HIDE DEF T, U
    <3>3. f \in Seq(T) /\ Len(f) = p + n
      BY <1>5, <3>1, <3>2
    <3>4. e \in Seq(U) /\ Len(e) = p
      BY <1>1, <1>5, <3>1
    <3> QED BY <3>3, <3>4
  <2>2. \A i \in 1..p : f[i] = e[i]
    <3> TAKE i \in 1..p
    <3>1. i \in 1..p + n
      BY <1>1
    <3> QED BY <1>5, <1>7, <3>1
  <2>3. \A i \in 1..n : f[p + i] = d[i]
    <3> TAKE i \in 1..n
    <3>1. p + i \in 1..p + n
      BY <1>1
    <3> QED BY <1>5, <1>8, <3>1
  <2> HIDE DEF f, e, T, U
  <2>4. d \in Seq(CCMBytes) /\ Len(d) = n /\ p \in Nat
    BY <1>1, <1>9
  <2>5. f = e \o d
    <3>1. Grown(f, e, d)
      BY <2>1, <2>2, <2>3, <2>4 DEF Grown
    <3> QED BY <2>1, <2>4, <3>1, GrownSequence
  <2> QED BY <2>5 DEF f, e
<1>12. P(h) = P(g) \o s
  <2> DEFINE f == P(h)
             e == P(g)
  <2> HIDE DEF C, p
  <2> DEFINE T == {C(h, i) : i \in 1..p + n}
             U == {C(g, i) : i \in 1..p}
  <2>1. f \in Seq(T) /\ e \in Seq(U) /\ Len(f) = p + n /\ Len(e) = p
    <3>1. (\A i \in 1..p + n : C(h, i) \in T) /\ (\A i \in 1..p : C(g, i) \in U)
      OBVIOUS
    <3>2. p + n \in Nat
      BY <1>1
    <3> HIDE DEF T, U
    <3>3. f \in Seq(T) /\ Len(f) = p + n
      BY <1>6, <3>1, <3>2
    <3>4. e \in Seq(U) /\ Len(e) = p
      BY <1>1, <1>6, <3>1
    <3> QED BY <3>3, <3>4
  <2>2. \A i \in 1..p : f[i] = e[i]
    <3> TAKE i \in 1..p
    <3>1. i \in 1..p + n
      BY <1>1
    <3> QED BY <1>6, <1>7, <3>1
  <2>3. \A i \in 1..n : f[p + i] = s[i]
    <3> TAKE i \in 1..n
    <3>1. p + i \in 1..p + n
      BY <1>1
    <3> QED BY <1>6, <1>8, <3>1
  <2> HIDE DEF f, e, T, U
  <2>4. s \in Seq(CCMBytes) /\ Len(s) = n /\ p \in Nat
    BY <1>1, <1>9
  <2>5. f = e \o s
    <3>1. Grown(f, e, s)
      BY <2>1, <2>2, <2>3, <2>4 DEF Grown
    <3> QED BY <2>1, <2>4, <3>1, GrownSequence
  <2> QED BY <2>5 DEF f, e
<1> QED
  BY <1>4, <1>11, <1>12 DEF d, s, src, Join

\* The first bytes that fit are what a block of zeros takes of a long sequence.
LEMMA FirstBlockTaken ==
    ASSUME NEW T, {} \in T, NEW s \in Seq(T), Len(s) >= BlockSize
    PROVE  CopyAt(Zeros(BlockSize), 0, s) = Take(s, BlockSize)
<1> DEFINE B == BlockSize
           x == CopyAt(Zeros(B), 0, s)
           y == Take(s, B)
<1>1. B \in Nat \ {0} /\ Len(s) \in Nat /\ B \in 0..Len(s) /\ DOMAIN s = 1..Len(s)
  BY BlockConstants
<1>2. y \in Seq(T) /\ Len(y) = B /\ \A i \in 1..B : y[i] = s[i]
  <2> HIDE DEF B
  <2> QED BY <1>1, TakeDropLengths, TakeDrop
<1>3. y \in Block(T)
  BY <1>2, BlockIsSeq
<1>4. DOMAIN Zeros(B) = 1..B
  BY DEF Zeros
<1>5. \A i \in 1..B : i - 0 \in DOMAIN s /\ i - 0 = i
  BY <1>1
<1>6. x = [i \in 1..B |-> s[i]]
  BY <1>4, <1>5 DEF CopyAt
<1>7. \A i \in 1..B : s[i] \in T
  BY <1>1
<1>8. x \in Block(T) /\ \A i \in 1..B : x[i] = y[i]
  <2>1. x \in Block(T)
    BY <1>6, <1>7 DEF Block
  <2> HIDE DEF x, y
  <2> QED BY <1>2, <1>6, <2>1
<1> HIDE DEF x, y
<1> QED
  BY <1>3, <1>8, SameBlock DEF x, y

\* The first block authenticated and the associated data consist of bytes.
LEMMA GivenBytes ==
    ASSUME NEW g, IsMessage(g)
    PROVE  /\ CCMOneCall!B0(g) \in Block(CCMBytes)
           /\ CCMOneCall!Header(g.ad) \in Seq(CCMBytes)
           /\ Len(CCMOneCall!Header(g.ad)) \in 1..BlockSize - 1
           /\ CCMOneCall!Ad(g) = Piece("ad", g.id, 0, g.ad)
           /\ Piece("ad", g.id, 0, g.ad) \in Seq(CCMBytes)
           /\ Len(Piece("ad", g.id, 0, g.ad)) = g.ad
<1>1. CCMOneCall!B0(g) \in Block(CCMBytes)
  <2> DEFINE f == g.ad > 0
             n == g.msgLen % g.nonce.lengths
  <2>1. n \in Int
    <3>1. g.nonce.lengths \in Nat \ {0} /\ g.msgLen \in Nat
      BY CCMConstants DEF IsMessage
    <3> DEFINE k == g.nonce.lengths
    <3> HIDE DEF k
    <3>2. g.msgLen % k \in Int
      BY <3>1 DEF k
    <3> QED BY <3>2 DEF k
  <2>2. f \in BOOLEAN
    OBVIOUS
  <2>3. CCMOneCall!B0(g) = [i \in 1..BlockSize |-> {<<"B0", g.id, g.nonce, f, g.tagLen, n, i>>}]
    BY DEF CCMOneCall!B0
  <2> HIDE DEF f, n
  <2>4. ASSUME NEW i \in 1..BlockSize
        PROVE  {<<"B0", g.id, g.nonce, f, g.tagLen, n, i>>} \in CCMBytes
    <3>1. i \in Int
      BY BlockConstants
    <3>2. <<"B0", g.id, g.nonce, f, g.tagLen, n, i>> \in CCMTerms
      BY <2>1, <2>2, <3>1 DEF CCMTerms, IsMessage
    <3> QED BY <3>2 DEF CCMBytes
  <2> QED BY <2>3, <2>4 DEF Block
<1>2. /\ CCMOneCall!Header(g.ad) \in Seq(CCMBytes)
      /\ Len(CCMOneCall!Header(g.ad)) \in 1..BlockSize - 1
  <2> DEFINE k == IF g.ad < LongAd THEN ShortHeader ELSE LongHeader
  <2>1. k \in 1..BlockSize - 1 /\ BlockSize \in Nat
    BY CCMConstants, BlockConstants
  <2>2. CCMOneCall!Header(g.ad) = [i \in 1..k |-> {<<"adLen", g.ad, i>>}]
    BY DEF CCMOneCall!Header
  <2> HIDE DEF k
  <2>3. ASSUME NEW i \in 1..k PROVE {<<"adLen", g.ad, i>>} \in CCMBytes
    <3>1. i \in Int
      BY <2>1
    <3>2. <<"adLen", g.ad, i>> \in CCMTerms
      BY <3>1 DEF CCMTerms, IsMessage
    <3> QED BY <3>2 DEF CCMBytes
  <2>4. k \in Nat
    BY <2>1
  <2> QED BY <2>1, <2>2, <2>3, <2>4
<1>3. CCMOneCall!Ad(g) = Piece("ad", g.id, 0, g.ad)
  BY CCMSameOperators DEF CCMOneCall!Ad
<1>4. Piece("ad", g.id, 0, g.ad) \in Seq(CCMBytes) /\ Len(Piece("ad", g.id, 0, g.ad)) = g.ad
  <2>1. g.ad \in Nat
    BY DEF IsMessage
  <2>2. ASSUME NEW i \in 1..g.ad PROVE {<<"ad", g.id, 0 + i>>} \in CCMBytes
    <3>1. 0 + i \in Int
      BY <2>1
    <3> DEFINE j == 0 + i
    <3> HIDE DEF j
    <3>2. <<"ad", g.id, j>> \in CCMTerms
      BY <3>1 DEF CCMTerms, IsMessage, j
    <3> QED BY <3>2 DEF CCMBytes, j
  <2> QED BY <2>1, <2>2 DEF Piece
<1> QED
  BY <1>1, <1>2, <1>3, <1>4

\* The MAC of a message's start is that of its first block and its associated
\* data, padded together with the header.
LEMMA StartMac ==
    ASSUME NEW g, IsMessage(g)
    PROVE  /\ AuthenticateAd(<<CCMOneCall!B0(g)>>, g.ad, g.id) = MacBase(g)
           /\ MacBase(g) \in Seq(Block(CCMBytes))
<1> DEFINE B     == BlockSize
           T     == CCMBytes
           b0    == CCMOneCall!B0(g)
           mac   == <<b0>>
           head  == CCMOneCall!Header(g.ad)
           bytes == Piece("ad", g.id, 0, g.ad)
           first == CopyAt(CopyAt(Zeros(B), 0, head), Len(head), bytes)
           k     == B - Len(head)
           rest  == Drop(bytes, k)
           all   == Join(head, bytes)
<1>1. /\ b0 \in Block(T) /\ head \in Seq(T) /\ Len(head) \in 1..B - 1
      /\ CCMOneCall!Ad(g) = bytes /\ bytes \in Seq(T) /\ Len(bytes) = g.ad /\ g.ad \in Nat
      /\ B \in Nat \ {0} /\ {} \in T
  BY GivenBytes, BlockConstants, CCMBytesClosed DEF IsMessage
<1>2. AuthenticateAd(mac, g.ad, g.id)
        = IF g.ad = 0 THEN mac
          ELSE IF g.ad + Len(head) <= B THEN Append(mac, first)
          ELSE mac \o <<first>> \o PaddedBlocks(rest)
  BY DEF AuthenticateAd
<1>3. MacBase(g) = mac \o (IF g.ad = 0 THEN <<>> ELSE PaddedBlocks(all))
  BY <1>1 DEF MacBase, Join
<1> HIDE DEF b0, head, bytes
<1>4. mac \in Seq(Block(T))
  BY <1>1
<1>5. all \in Seq(T) /\ Len(all) = Len(head) + g.ad
  BY <1>1, JoinLengths
<1>6. first = CopyAt(Zeros(B), 0, all)
  <2>1. DOMAIN Zeros(B) = 1..B /\ B \in Nat
    BY <1>1 DEF Zeros
  <2> DEFINE z == Zeros(B)
  <2> HIDE DEF z
  <2>2. CopyAt(CopyAt(z, 0, head), Len(head), bytes) = CopyAt(z, 0, head \o bytes)
    BY <1>1, <2>1, CopyTwice DEF z
  <2> QED BY <2>2 DEF Join, z
<1> HIDE DEF mac, first
<1>7. CASE g.ad = 0
  <2>1. MacBase(g) = mac \o <<>>
    BY <1>3, <1>7
  <2>2. mac \o <<>> = mac
    BY <1>4, ConcatEmptySeq
  <2>3. AuthenticateAd(mac, g.ad, g.id) = mac
    BY <1>2, <1>7 DEF mac, b0
  <2>4. AuthenticateAd(mac, g.ad, g.id) = MacBase(g) /\ MacBase(g) \in Seq(Block(T))
    BY <1>4, <2>1, <2>2, <2>3
  <2> QED BY <2>4 DEF mac, b0
<1>8. CASE g.ad # 0
  <2>1. PaddedBlocks(all) \in Seq(Block(T))
    BY <1>1, <1>5, PaddedBlocksBytes
  <2>2. MacBase(g) = mac \o PaddedBlocks(all)
    BY <1>3, <1>8
  <2>3. MacBase(g) \in Seq(Block(T))
    <3> DEFINE v == PaddedBlocks(all)
    <3> HIDE DEF v
    <3>1. mac \o v \in Seq(Block(T))
      BY <1>4, <2>1, ConcatProperties DEF v
    <3> QED BY <2>2, <3>1 DEF v
  <2>4. CASE g.ad + Len(head) <= B
    <3>1. Len(all) \in 1..B
      BY <1>1, <1>5, <1>8, <2>4
    <3>2. PaddedBlocks(all) = <<first>>
      BY <1>1, <1>5, <1>6, <3>1, PaddedOneBlock
    <3>3. AuthenticateAd(mac, g.ad, g.id) = Append(mac, first)
      BY <1>2, <1>8, <2>4 DEF mac, b0
    <3>4. Append(mac, first) = mac \o <<first>>
      <4>1. <<first>> \in Seq(Block(T))
        BY <2>1, <3>2
      <4>2. first \in Block(T)
        <5>1. Len(<<first>>) = 1 /\ <<first>>[1] = first
          OBVIOUS
        <5> QED BY <4>1, <5>1
      <4> QED BY <1>4, <4>2, AppendIsConcat
    <3>5. AuthenticateAd(mac, g.ad, g.id) = MacBase(g)
      BY <2>2, <3>2, <3>3, <3>4
    <3> QED BY <2>3, <3>5 DEF mac, b0
  <2>5. CASE ~(g.ad + Len(head) <= B)
    <3>1. k \in 0..g.ad /\ k + Len(head) = B /\ Len(all) >= B
      BY <1>1, <1>5, <2>5
    <3> DEFINE x == Take(bytes, k)
               m == Join(head, x)
    <3>2. /\ x \in Seq(T) /\ Len(x) = k /\ rest \in Seq(T) /\ bytes = Join(x, rest)
      <4>1. k \in 0..Len(bytes)
        BY <1>1, <3>1
      <4> HIDE DEF k
      <4> QED BY <1>1, <4>1, TakeDrop, TakeDropLengths DEF Join
    <3> HIDE DEF x, rest
    <3>3. m \in Seq(T) /\ Len(m) = B /\ Aligned(m)
      <4>1. m \in Seq(T) /\ Len(m) = Len(head) + Len(x)
        BY <1>1, <3>2, JoinLengths
      <4>2. Len(m) = B
        BY <1>1, <3>1, <3>2, <4>1
      <4> HIDE DEF m
      <4> QED BY <4>1, <4>2, AlignedLengths
    <3>4. all = Join(m, rest)
      <4>1. Join(Join(head, x), rest) = Join(head, Join(x, rest))
        BY <1>1, <3>2, JoinAssociative
      <4> QED BY <3>2, <4>1
    <3> HIDE DEF m, all
    <3>5. first = m
      <4>1. first = Take(all, B)
        BY <1>1, <1>5, <1>6, <3>1, FirstBlockTaken
      <4>2. Take(m \o rest, Len(m)) = m
        BY <3>2, <3>3, TakeOfJoined
      <4> QED BY <3>3, <3>4, <4>1, <4>2 DEF Join
    <3>6. PaddedBlocks(all) = <<first>> \o PaddedBlocks(rest)
      <4>1. PaddedBlocks(m \o rest) = WholeBlocks(m) \o PaddedBlocks(rest)
        BY <1>1, <3>2, <3>3, PaddedBlocksJoin
      <4>2. WholeBlocks(m) = <<m>>
        BY <3>3, OneBlock
      <4> QED BY <3>4, <3>5, <4>1, <4>2 DEF Join
    <3>7. AuthenticateAd(mac, g.ad, g.id) = mac \o <<first>> \o PaddedBlocks(rest)
      BY <1>2, <1>8, <2>5 DEF mac, b0
    <3>8. (mac \o <<first>>) \o PaddedBlocks(rest) = mac \o (<<first>> \o PaddedBlocks(rest))
      <4> DEFINE f == <<first>>
                 v == PaddedBlocks(rest)
      <4>1. f \in Seq(Block(T)) /\ v \in Seq(Block(T))
        <5>1. first \in Block(T)
          BY <3>3, <3>5, BlockIsSeq
        <5>2. v \in Seq(Block(T))
          BY <1>1, <3>2, PaddedBlocksBytes
        <5> QED BY <5>1, <5>2
      <4> HIDE DEF f, v
      <4>2. Join(Join(mac, f), v) = Join(mac, Join(f, v))
        BY <1>4, <4>1, JoinAssociative
      <4> QED BY <4>2 DEF Join, f, v
    <3>9. AuthenticateAd(mac, g.ad, g.id) = MacBase(g)
      BY <2>2, <3>6, <3>7, <3>8
    <3> QED BY <2>3, <3>9 DEF mac, b0
  <2> QED BY <2>4, <2>5
<1> QED
  BY <1>7, <1>8 DEF mac, b0

\* The tag's MAC is the one call's: the block begun is padded with zeros.
LEMMA MacOfText ==
    ASSUME NEW g, IsMessage(g), NEW c, HoldsText(c, g, CCMOneCall!PlainText(g))
    PROVE  FinalMac(c) = CCMOneCall!Mac(g)
<1> DEFINE B    == BlockSize
           T    == CCMBytes
           text == CCMOneCall!PlainText(g)
           base == MacBase(g)
<1> HIDE DEF text
<1>1. PICK a, m, r : /\ InText(c, g, a, m, r) /\ Join(m, r) = text
                     /\ m \in Seq(CCMBytes) /\ r \in Seq(CCMBytes)
  BY HeldText DEF text
<1>2. /\ c.mac = Join(base, WholeBlocks(m)) /\ Aligned(m) /\ Len(r) < B
      /\ c.lenPro % B = Len(r) /\ Take(c.blk, Len(r)) = r /\ {} \in T
  BY <1>1, CCMBytesClosed DEF InText, Holds
<1>3. CCMOneCall!Mac(g) = Join(base, PaddedBlocks(text))
  BY CCMSameOperators DEF CCMOneCall!Mac, MacBase, Join, text
<1>4. PaddedBlocks(text) = WholeBlocks(m) \o PaddedBlocks(r)
  BY <1>1, <1>2, PaddedBlocksJoin DEF Join
<1> HIDE DEF base
<1>5. base \in Seq(Block(T)) /\ WholeBlocks(m) \in Seq(Block(T))
  BY <1>1, StartMac, WholeBlocksBytes DEF base
<1>6. CASE Len(r) = 0
  <2>1. FinalMac(c) = c.mac
    BY <1>2, <1>6 DEF FinalMac
  <2>2. r = <<>>
    BY <1>1, <1>6, EmptyIffNoLength
  <2>3. WholeBlocks(m) \o <<>> = WholeBlocks(m)
    BY <1>5, ConcatEmptySeq
  <2> QED BY <1>2, <1>3, <1>4, <2>1, <2>2, <2>3, PaddedNoBlock
<1>7. CASE Len(r) # 0
  <2> DEFINE b == CopyAt(Zeros(B), 0, r)
             w == WholeBlocks(m)
  <2>1. FinalMac(c) = Append(Join(base, w), b)
    BY <1>2, <1>7 DEF FinalMac
  <2>2. Len(r) \in 1..B
    BY <1>1, <1>2, <1>7, BlockConstants
  <2>3. PaddedBlocks(r) = <<b>>
    BY <1>1, <1>2, <2>2, PaddedOneBlock
  <2>4. b \in Block(T)
    <3>1. PaddedBlocks(r) \in Seq(Block(T))
      BY <1>1, <1>2, PaddedBlocksBytes
    <3> HIDE DEF b
    <3>2. Len(<<b>>) = 1 /\ <<b>>[1] = b
      OBVIOUS
    <3> QED BY <2>3, <3>1, <3>2
  <2> HIDE DEF b, w
  <2>5. Append(Join(base, w), b) = Join(base, Join(w, <<b>>))
    BY <1>5, <2>4, AppendJoined DEF w
  <2> QED BY <1>3, <1>4, <2>1, <2>3, <2>5 DEF Join, w
<1> QED
  BY <1>1, <1>6, <1>7

-----------------------------------------------------------------------------
(* What the calls keep of the content. *)

\* The context holds the plain text, and what was returned is the one call's,
\* as long as the counter of the blocks suffices.
CCMContent ==
    /\ ccm.tagLen \in 1..BlockSize /\ ccm.msgLen \in Nat
    /\ ccm.blk \in Block(CCMBytes) /\ ccm.si \in Block(CCMBytes)
    /\ ccmGiven.id \in Nat
    /\ ccmGiven.id = 0 => ccmGiven.text = <<>>
    /\ ccmGiven.id > 0 => /\ IsMessage(ccmGiven)
                          /\ ccm.ctr0 = [id |-> ccmGiven.id, nonce |-> ccmGiven.nonce]
    /\ ccmGiven.id > 0 /\ CCMOneCall!CounterSuffices(ccmGiven) =>
         HoldsText(ccm, ccmGiven, CCMOneCall!PlainText(ccmGiven))
    /\ CCMOneCall!CounterSuffices(ccmGiven) => ccmOut = CCMOneCall!Output(ccmGiven)

CCMHolds == CCMInv /\ CCMContent

\* What the word of the counter holds is a number.
LEMMA WordIsNumber == \A n \in Nat : n % CounterWord \in Nat
BY CCMConstants

\* A context of the message g, whatever it holds of its text.
ContextOf(c, g) ==
    /\ IsContext(c) /\ c.ctr0 = [id |-> g.id, nonce |-> g.nonce]
    /\ c.blk \in Block(CCMBytes) /\ c.si \in Block(CCMBytes)
    /\ c.lenPro \in Nat /\ c.counterVal \in Nat

\* d is one too, with the lengths the caller set in c.
StaysContext(c, d, g) ==
    ContextOf(d, g) /\ d.tagLen = c.tagLen /\ d.msgLen = c.msgLen

\* The block begun by an earlier call.
LEMMA FillBlockStays ==
    ASSUME NEW g, NEW c, ContextOf(c, g), NEW src \in Seq(CCMBytes), NEW dir, NEW x,
           (c.lenPro % BlockSize) + Len(src) <= BlockSize
    PROVE  StaysContext(c, FillBlock([c |-> c, dst |-> x], src, dir).c, g)
<1> DEFINE t    == FillBlock([c |-> c, dst |-> x], src, dir)
           flag == c.lenPro % BlockSize
           dst  == [i \in DOMAIN src |-> Xor(src[i], c.si[flag + i])]
           u    == Plain(src, dst, dir)
           blk  == CopyAt(c.blk, flag, u)
           n    == c.lenPro + Len(src)
           mac  == IF flag + Len(src) = BlockSize THEN Append(c.mac, blk) ELSE c.mac
<1>1. /\ c.lenPro \in Nat /\ Len(src) \in Nat /\ DOMAIN src = 1..Len(src)
      /\ c.blk \in Block(CCMBytes) /\ c.si \in Block(CCMBytes) /\ BlockSize \in Nat \ {0}
  BY BlockConstants DEF ContextOf
<1>2. flag \in 0..BlockSize - 1
  BY <1>1, BlocksAndRest
<1>3. CASE src = <<>>
  <2>1. t.c = c
    BY <1>3 DEF FillBlock
  <2> QED BY <2>1 DEF StaysContext
<1>4. CASE src # <<>>
  <2>1. t.c = [c EXCEPT !.blk = blk, !.lenPro = n, !.mac = mac]
    BY <1>4 DEF FillBlock
  <2>2. flag \in Nat /\ flag \in 0..BlockSize /\ flag + Len(src) <= BlockSize
    BY <1>1, <1>2
  <2> HIDE DEF flag
  <2>3. ASSUME NEW i \in 1..Len(src) PROVE dst[i] \in CCMBytes
    <3>1. flag + i \in 1..BlockSize
      BY <1>1, <2>2
    <3>2. c.si[flag + i] \in CCMBytes /\ src[i] \in CCMBytes
      BY <1>1, <3>1 DEF Block
    <3> QED BY <1>1, <3>2, CCMBytesClosed
  <2>4. u \in Seq(CCMBytes) /\ Len(u) = Len(src)
    <3>1. dst = [i \in 1..Len(src) |-> dst[i]]
      BY <1>1
    <3> HIDE DEF dst
    <3>2. dst \in Seq(CCMBytes) /\ Len(dst) = Len(src)
      BY <1>1, <2>3, <3>1
    <3> QED BY <3>2 DEF Plain
  <2> HIDE DEF u
  <2>5. blk \in Block(CCMBytes)
    BY <1>1, <2>2, <2>4, FilledBlock
  <2>6. n \in Nat
    BY <1>1
  <2> HIDE DEF t, blk, n, mac
  <2>7. StaysContext(c, t.c, g)
    BY <2>1, <2>5, <2>6 DEF StaysContext, ContextOf, IsContext
  <2> QED BY <2>7 DEF t
<1> QED
  BY <1>3, <1>4

\* Whole blocks.
LEMMA WholeBlocksStay ==
    ASSUME NEW g, IsMessage(g), NEW t, ContextOf(t.c, g), NEW src \in Seq(CCMBytes), NEW dir
    PROVE  StaysContext(t.c, WholeBlocksOfText(t, src, dir).c, g)
<1> DEFINE u   == WholeBlocksOfText(t, src, dir)
           d   == t.c
           q   == Len(src) \div BlockSize
           ks  == [j \in 1..q |-> S(d.ctr0, BlockNumber(d, j))]
           dst == [i \in DOMAIN src |->
                     Xor(src[i], ks[((i - 1) \div BlockSize) + 1][((i - 1) % BlockSize) + 1])]
           mac == d.mac \o WholeBlocks(Plain(src, dst, dir))
           k   == (d.counterVal + q) % CounterWord
           si  == ks[q]
           n   == IF d.aesni THEN d.lenPro ELSE d.lenPro + q * BlockSize
<1>1. /\ d.lenPro \in Nat /\ d.counterVal \in Nat /\ Len(src) \in Nat
      /\ BlockSize \in Nat \ {0} /\ CounterWord \in Nat \ {0}
      /\ d.ctr0 = [id |-> g.id, nonce |-> g.nonce]
  BY BlockConstants, CCMConstants DEF ContextOf
<1>2. q \in Nat
  BY <1>1, QuotientAndRest
<1>3. CASE q = 0
  <2>1. u = t
    BY <1>3 DEF WholeBlocksOfText
  <2> QED BY <2>1 DEF StaysContext
<1>4. CASE q # 0
  <2>1. u.c = [d EXCEPT !.mac = mac, !.counterVal = k, !.si = si, !.lenPro = n]
    BY <1>4 DEF WholeBlocksOfText
  <2> HIDE DEF q
  <2>2. si = S(d.ctr0, BlockNumber(d, q))
    BY <1>2, <1>4
  <2>3. BlockNumber(d, q) \in Int
    <3> DEFINE w == d.counterVal + q
    <3>1. w \in Nat
      BY <1>1, <1>2
    <3> HIDE DEF w
    <3>2. w % CounterWord \in Int
      BY <1>1, <3>1
    <3> QED BY <3>1, <3>2 DEF BlockNumber, w
  <2>4. si = Counted(g, BlockNumber(d, q))
    BY <1>1, <2>2 DEF S, Counted
  <2> HIDE DEF si
  <2>5. si \in Block(CCMBytes)
    BY <2>3, <2>4, CountedBlock
  <2>6. k \in Nat /\ n \in Nat
    <3>1. d.counterVal + q \in Nat
      BY <1>1, <1>2
    <3>2. k \in Nat
      BY <1>1, <3>1, WordIsNumber
    <3>3. q * BlockSize \in Nat
      BY <1>1, <1>2
    <3> QED BY <1>1, <3>2, <3>3
  <2> HIDE DEF u, mac, k, n
  <2>7. StaysContext(d, u.c, g)
    BY <2>1, <2>5, <2>6 DEF StaysContext, ContextOf, IsContext
  <2> QED BY <2>7 DEF u
<1> QED
  BY <1>3, <1>4

\* A new block.
LEMMA BeginBlockStays ==
    ASSUME NEW g, IsMessage(g), NEW t, ContextOf(t.c, g), NEW src \in Seq(CCMBytes), NEW dir,
           Len(src) < BlockSize
    PROVE  StaysContext(t.c, BeginBlock(t, src, dir).c, g)
<1> DEFINE v   == BeginBlock(t, src, dir)
           d   == t.c
           k   == (d.counterVal + 1) % CounterWord
           si  == S(d.ctr0, k)
           dst == [i \in DOMAIN src |-> Xor(src[i], si[i])]
           u   == Plain(src, dst, dir)
           blk == CopyAt(d.blk, 0, u)
           n   == d.lenPro + Len(src)
<1>1. /\ d.lenPro \in Nat /\ d.counterVal \in Nat
      /\ Len(src) \in Nat /\ DOMAIN src = 1..Len(src)
      /\ BlockSize \in Nat \ {0} /\ CounterWord \in Nat \ {0}
      /\ d.blk \in Block(CCMBytes) /\ d.ctr0 = [id |-> g.id, nonce |-> g.nonce]
  BY BlockConstants, CCMConstants DEF ContextOf
<1>2. CASE src = <<>>
  <2>1. v = t
    BY <1>2 DEF BeginBlock
  <2> QED BY <2>1 DEF StaysContext
<1>3. CASE src # <<>>
  <2>1. v.c = [d EXCEPT !.si = si, !.blk = blk, !.counterVal = k, !.lenPro = n]
    BY <1>3 DEF BeginBlock
  <2>2. k \in Nat
    <3>1. d.counterVal + 1 \in Nat
      BY <1>1
    <3> QED BY <1>1, <3>1, WordIsNumber
  <2> HIDE DEF k
  <2>3. si = Counted(g, k)
    BY <1>1 DEF S, Counted
  <2> HIDE DEF si
  <2>4. si \in Block(CCMBytes)
    BY <2>2, <2>3, CountedBlock
  <2>5. ASSUME NEW i \in 1..Len(src) PROVE dst[i] \in CCMBytes
    <3>1. i \in 1..BlockSize
      BY <1>1
    <3>2. si[i] \in CCMBytes /\ src[i] \in CCMBytes
      BY <2>4, <3>1 DEF Block
    <3> QED BY <1>1, <3>2, CCMBytesClosed
  <2>6. u \in Seq(CCMBytes) /\ Len(u) = Len(src)
    <3>1. dst = [i \in 1..Len(src) |-> dst[i]]
      BY <1>1
    <3> HIDE DEF dst
    <3>2. dst \in Seq(CCMBytes) /\ Len(dst) = Len(src)
      BY <1>1, <2>5, <3>1
    <3> QED BY <3>2 DEF Plain
  <2> HIDE DEF u
  <2>7. blk \in Block(CCMBytes)
    <3>1. 0 \in 0..BlockSize /\ 0 + Len(u) <= BlockSize
      BY <1>1, <2>6
    <3> QED BY <1>1, <2>6, <3>1, FilledBlock
  <2>8. n \in Nat
    BY <1>1
  <2> HIDE DEF v, blk, n
  <2>9. StaysContext(d, v.c, g)
    BY <2>1, <2>2, <2>4, <2>7, <2>8 DEF StaysContext, ContextOf, IsContext
  <2> QED BY <2>9 DEF v
<1> QED
  BY <1>2, <1>3

\* A text call leaves the context one of its message, and the lengths set by
\* the caller alone.
LEMMA ProcessStays ==
    ASSUME NEW g, IsMessage(g), NEW c, ContextOf(c, g), NEW src \in Seq(CCMBytes), NEW dir
    PROVE  StaysContext(c, CCMProcess(c, src, dir).c, g)
<1> DEFINE B   == BlockSize
           p   == c.lenPro
           len == Len(src)
           loc == ToOpenBlock(p, len)
           m   == WholeIn(p, len) * B
           s1  == Drop(src, loc)
           t1  == FillBlock([c |-> c, dst |-> <<>>], Take(src, loc), dir)
           t2  == WholeBlocksOfText(t1, Take(s1, m), dir)
           t3  == BeginBlock(t2, Drop(src, loc + m), dir)
<1>1. p \in Nat /\ len \in Nat /\ B \in Nat \ {0}
  BY BlockConstants DEF ContextOf
<1>2. /\ loc \in 0..len /\ m \in 0..len - loc
      /\ RestOf(p, len) \in 0..B - 1
  BY <1>1, Cutting
<1>3. CCMProcess(c, src, dir) = t3
  BY DEF CCMProcess, ToOpenBlock, WholeIn
<1>4. (p % B) + loc <= B
  <2> DEFINE z == p % B
  <2>1. z \in 0..B - 1
    BY <1>1, BlocksAndRest
  <2>2. loc = IF z = 0 THEN 0 ELSE Lesser(len, B - z)
    BY DEF ToOpenBlock
  <2> HIDE DEF z, loc, len
  <2> QED BY <1>1, <2>1, <2>2 DEF Lesser, z
<1>5. RestOf(p, len) = len - loc - m
  BY DEF RestOf
<1> HIDE DEF loc, m, p
<1>6. /\ Take(src, loc) \in Seq(CCMBytes) /\ Len(Take(src, loc)) = loc
      /\ s1 \in Seq(CCMBytes) /\ Len(s1) = len - loc
  BY <1>2, TakeDropLengths
<1>7. Take(s1, m) \in Seq(CCMBytes)
  <2>1. m \in 0..Len(s1)
    BY <1>2, <1>6
  <2> HIDE DEF s1
  <2> QED BY <1>6, <2>1, TakeDropLengths
<1>8. Drop(src, loc + m) \in Seq(CCMBytes) /\ Len(Drop(src, loc + m)) < B
  <2>1. loc + m \in 0..len /\ len - (loc + m) < B
    BY <1>1, <1>2, <1>5
  <2> DEFINE k == loc + m
  <2> HIDE DEF k
  <2>2. k \in 0..Len(src)
    BY <2>1 DEF k
  <2>3. Drop(src, k) \in Seq(CCMBytes) /\ Len(Drop(src, k)) = Len(src) - k
    BY <2>2, TakeDropLengths
  <2> QED BY <2>1, <2>3 DEF k
<1>9. StaysContext(c, t1.c, g)
  BY <1>4, <1>6, FillBlockStays DEF p
<1> HIDE DEF t1, s1
<1>10. StaysContext(t1.c, t2.c, g)
  BY <1>7, <1>9, WholeBlocksStay DEF StaysContext
<1> HIDE DEF t2
<1>11. StaysContext(t2.c, t3.c, g)
  BY <1>8, <1>10, BeginBlockStays DEF StaysContext
<1> QED
  BY <1>3, <1>9, <1>10, <1>11 DEF StaysContext

\* No text, no bytes.
LEMMA NoText ==
    \A g : g.text = <<>> => CCMOneCall!Output(g) = <<>> /\ CCMOneCall!PlainText(g) = <<>>
BY DEF CCMOneCall!Output, CCMOneCall!PlainText

\* Before the first message nothing is held.
LEMMA CCMInitContent == CCMInit => CCMContent
<1> SUFFICES ASSUME CCMInit PROVE CCMContent
  OBVIOUS
<1>1. PICK ni \in AesNiBuilds :
        ccm = [aesni |-> ni, msgLen |-> 0, tagLen |-> InitialTagLen, lenPro |-> 0,
               counterVal |-> 0, ctr0 |-> [id |-> 0, nonce |-> NoNonce],
               s0 |-> Zeros(BlockSize), si |-> Zeros(BlockSize),
               blk |-> Zeros(BlockSize), mac |-> <<>>]
  BY DEF CCMInit
<1>2. ccm.tagLen \in 1..BlockSize /\ ccm.msgLen \in Nat
  BY <1>1, CCMConstants
<1>3. ccm.blk \in Block(CCMBytes) /\ ccm.si \in Block(CCMBytes)
  <2>1. ccm.blk = Zeros(BlockSize) /\ ccm.si = Zeros(BlockSize)
    BY <1>1
  <2> QED BY <2>1, CCMBytesClosed DEF Zeros, Block
<1>4. ccmGiven.id = 0 /\ ccmGiven.text = <<>> /\ ccmOut = <<>>
  BY DEF CCMInit
<1> QED
  BY <1>2, <1>3, <1>4, NoText DEF CCMContent

\* What the one call says of the message after a step.
LEMMA CCMNextSame ==
    ASSUME NEW g, ccmGiven' = g
    PROVE  /\ CCMOneCall!Output(ccmGiven)' = CCMOneCall!Output(g)
           /\ CCMOneCall!PlainText(ccmGiven)' = CCMOneCall!PlainText(g)
           /\ CCMOneCall!CounterSuffices(ccmGiven)' <=> CCMOneCall!CounterSuffices(g)
BY DEF CCMOneCall!PlainText, CCMOneCall!Output, CCMOneCall!Source, CCMOneCall!Result,
   CCMOneCall!Keystream, CCMOneCall!S, CCMOneCall!Xor, CCMOneCall!CounterSuffices

\* ippsAES_CCMMessageLen and ippsAES_CCMTagLen set what the next
\* ippsAES_CCMStart and the calls after it look at.
LEMMA CCMLengthsContent ==
    ASSUME CCMHolds,
           \/ \E n \in MessageLens : CCMMessageLen(n)
           \/ \E n \in TagLens : CCMTagLen(n)
    PROVE  CCMContent'
<1>1. /\ ccm'.tagLen \in 1..BlockSize /\ ccm'.msgLen \in Nat
      /\ IsContext(ccm') /\ ccm'.ctr0 = ccm.ctr0 /\ ccm'.s0 = ccm.s0 /\ ccm'.mac = ccm.mac
      /\ ccm'.blk = ccm.blk /\ ccm'.lenPro = ccm.lenPro /\ ccm'.counterVal = ccm.counterVal
      /\ ccm'.si = ccm.si
  BY CCMConstants DEF CCMHolds, CCMInv, CCMTyped, CCMContent, IsContext, CCMMessageLen, CCMTagLen
<1>2. UNCHANGED <<ccmGiven, ccmOut>>
  BY DEF CCMMessageLen, CCMTagLen
<1>3. ASSUME NEW g, NEW text, HoldsText(ccm, g, text) PROVE HoldsText(ccm', g, text)
  <2>1. PICK a, m, r : InText(ccm, g, a, m, r) /\ Join(m, r) = text
    BY <1>3 DEF HoldsText
  <2>2. InText(ccm', g, a, m, r)
    BY <1>1, <2>1 DEF InText
  <2> QED BY <2>1, <2>2 DEF HoldsText
<1>4. /\ ccmGiven.id \in Nat
      /\ ccmGiven.id = 0 => ccmGiven.text = <<>>
      /\ ccmGiven.id > 0 => /\ IsMessage(ccmGiven)
                            /\ ccm.ctr0 = [id |-> ccmGiven.id, nonce |-> ccmGiven.nonce]
      /\ ccmGiven.id > 0 /\ CCMOneCall!CounterSuffices(ccmGiven) =>
           HoldsText(ccm', ccmGiven, CCMOneCall!PlainText(ccmGiven))
      /\ CCMOneCall!CounterSuffices(ccmGiven) => ccmOut = CCMOneCall!Output(ccmGiven)
      /\ ccm.blk \in Block(CCMBytes) /\ ccm.si \in Block(CCMBytes)
  BY <1>3 DEF CCMHolds, CCMContent
<1>5. ASSUME NEW g, ccmGiven = g
      PROVE  /\ CCMOneCall!Output(ccmGiven)' = CCMOneCall!Output(g)
             /\ CCMOneCall!PlainText(ccmGiven)' = CCMOneCall!PlainText(g)
             /\ CCMOneCall!CounterSuffices(ccmGiven)' <=> CCMOneCall!CounterSuffices(g)
  BY <1>2, <1>5, CCMNextSame
<1> QED
  BY <1>1, <1>2, <1>4, <1>5 DEF CCMContent

\* ippsAES_CCMStart begins a message: the MAC of its first block and its
\* associated data, and no text.
LEMMA CCMStartContent ==
    ASSUME CCMHolds, NEW nonce \in Nonces, NEW ad \in AdLens, CCMStart(nonce, ad)
    PROVE  CCMContent'
<1> DEFINE g == [id |-> ccmGiven.id + 1, nonce |-> nonce, ad |-> ad,
                 msgLen |-> ccm.msgLen, tagLen |-> ccm.tagLen, text |-> <<>>]
           c == Started(ccm, g)
           n == <<>>
<1>1. ccmGiven' = g /\ ccm' = c /\ ccmOut' = <<>>
  BY DEF CCMStart
<1>2. /\ ccm.tagLen \in 1..BlockSize /\ ccm.msgLen \in Nat
      /\ ccm.blk \in Block(CCMBytes) /\ ccm.si \in Block(CCMBytes)
      /\ ccmGiven.id \in Nat /\ IsContext(ccm)
  BY DEF CCMHolds, CCMContent, CCMInv, CCMTyped
<1>3. /\ IsMessage(g) /\ g.id \in Nat /\ g.id > 0 /\ g.text = <<>>
      /\ g.ad = ad
  <2>1. ccmGiven.id + 1 \in Nat /\ ccmGiven.id + 1 > 0 /\ ad \in Nat /\ ccm.tagLen \in Nat
    BY <1>2, CCMConstants, BlockConstants
  <2>2. <<>> \in Seq({"enc", "dec"})
    BY EmptySeq
  <2> QED BY <1>2, <2>1, <2>2 DEF IsMessage
<1> HIDE DEF g
<1>4. /\ IsContext(c) /\ c.lenPro = 0 /\ c.counterVal = 0
      /\ c.ctr0 = [id |-> g.id, nonce |-> g.nonce] /\ c.s0 = Counted(g, 0)
      /\ c.mac = AuthenticateAd(<<CCMOneCall!B0(g)>>, g.ad, g.id)
      /\ c.tagLen = ccm.tagLen /\ c.msgLen = ccm.msgLen /\ c.blk = ccm.blk
      /\ c.si = ccm.si
  <2> DEFINE k  == [id |-> g.id, nonce |-> g.nonce]
             s0 == CCMOneCall!S(g.id, g.nonce, 0)
             x  == AuthenticateAd(<<CCMOneCall!B0(g)>>, g.ad, g.id)
  <2>1. c = [ccm EXCEPT !.lenPro = 0, !.counterVal = 0, !.ctr0 = k, !.s0 = s0, !.mac = x]
    BY DEF Started
  <2>2. s0 = Counted(g, 0)
    BY DEF Counted
  <2> HIDE DEF k, s0, x, c
  <2>3. /\ IsContext(c) /\ c.lenPro = 0 /\ c.counterVal = 0
        /\ c.ctr0 = k /\ c.s0 = s0 /\ c.mac = x
        /\ c.tagLen = ccm.tagLen /\ c.msgLen = ccm.msgLen /\ c.blk = ccm.blk
        /\ c.si = ccm.si
    BY <1>2, <2>1 DEF IsContext
  <2> QED BY <2>2, <2>3 DEF k, x
<1> HIDE DEF c
<1>5. c.mac = MacBase(g) /\ MacBase(g) \in Seq(Block(CCMBytes))
  BY <1>3, <1>4, StartMac
<1>6. n \in Seq(CCMBytes) /\ Len(n) = 0 /\ Aligned(n) /\ WholeBlocks(n) = <<>> /\ n = <<>>
  <2>1. n \in Seq(CCMBytes) /\ Len(n) = 0 /\ Len(n) < BlockSize
    BY EmptySeq, BlockConstants
  <2>2. n = <<>>
    OBVIOUS
  <2> HIDE DEF n
  <2> QED BY <2>1, <2>2, AlignedLengths, NoBlock
<1> HIDE DEF n
<1>7. c.mac = Join(MacBase(g), WholeBlocks(n)) /\ Join(n, n) = n
  <2>1. MacBase(g) \o <<>> = MacBase(g)
    BY <1>5, ConcatEmptySeq
  <2>2. n \o <<>> = n
    BY <1>6, ConcatEmptySeq
  <2> QED BY <1>5, <1>6, <2>1, <2>2 DEF Join
<1>8. Holds(CCMBytes, WholeBlocks(n), c.blk, Len(n), n, n)
  <2>1. Holds(CCMBytes, WholeBlocks(n), c.blk, 0, n, <<>>)
    BY <1>2, <1>4, <1>6, NothingWaits
  <2> QED BY <1>6, <2>1
<1>9. InText(c, g, 0, n, n)
  <2>1. 0 % BlockSize = 0 /\ Ceiling(0) = 0 /\ 0 % CounterWord = 0
    BY NothingBegun, BegunOrNot
  <2>2. Blocks(n, 0) /\ Len(n) < BlockSize
    BY <1>6, BlockConstants DEF Blocks
  <2>3. c.counterVal = (0 + Ceiling(Len(n))) % CounterWord
    BY <1>4, <1>6, <2>1
  <2> QED BY <1>4, <1>6, <1>7, <1>8, <2>1, <2>2, <2>3 DEF InText
<1>10. CCMOneCall!Output(g) = <<>> /\ CCMOneCall!PlainText(g) = n
  BY <1>3, <1>6, NoText
<1>11. HoldsText(c, g, CCMOneCall!PlainText(g))
  BY <1>7, <1>9, <1>10 DEF HoldsText
<1>12. ccmGiven'.id # 0
  BY <1>1, <1>3
<1>13. /\ CCMOneCall!Output(ccmGiven)' = CCMOneCall!Output(g)
       /\ CCMOneCall!PlainText(ccmGiven)' = CCMOneCall!PlainText(g)
  BY <1>1, CCMNextSame
<1> QED
  BY <1>1, <1>2, <1>3, <1>4, <1>10, <1>11, <1>12, <1>13 DEF CCMContent

\* ippsAES_CCMEncrypt and ippsAES_CCMDecrypt add n bytes to text and output.
LEMMA CCMTextContent ==
    ASSUME CCMHolds, NEW n \in PieceLens, NEW dir \in {"enc", "dec"}, CCMText(n, dir)
    PROVE  /\ CCMContent'
           /\ ccmGiven' = [ccmGiven EXCEPT !.text = ccmGiven'.text]
           /\ Take(ccmGiven'.text, Len(ccmGiven.text)) = ccmGiven.text
<1> DEFINE g    == ccmGiven
           p    == Len(g.text)
           src  == Piece(dir, g.id, p, n)
           t    == CCMProcess(ccm, src, dir)
           more == [i \in 1..n |-> dir]
           all  == g.text \o more
           h    == [g EXCEPT !.text = all]
           O(k) == CCMOneCall!Output(k)
           P(k) == CCMOneCall!PlainText(k)
<1>1. /\ n \in Nat /\ g.id > 0
      /\ ccm' = t.c /\ ccmOut' = ccmOut \o t.dst /\ ccmGiven' = h
  BY BlockConstants DEF CCMText
<1>2. /\ IsMessage(g)
      /\ CCMOneCall!CounterSuffices(g) => HoldsText(ccm, g, P(g)) /\ ccmOut = O(g)
      /\ ccm.tagLen \in 1..BlockSize /\ ccm.msgLen \in Nat
  BY <1>1 DEF CCMHolds, CCMContent
<1>21. ContextOf(ccm, g)
  <2>1. ccm.counterVal = Begun(Len(g.text)) % CounterWord /\ Len(g.text) \in Nat
    BY <1>2 DEF CCMHolds, CCMInv, CCMPlaceAgrees, IsMessage
  <2>2. ccm.counterVal \in Nat
    BY <2>1, BegunNumber, WordIsNumber
  <2>3. ccm.ctr0 = [id |-> g.id, nonce |-> g.nonce]
    BY <1>1 DEF CCMHolds, CCMContent
  <2> QED BY <2>2, <2>3 DEF ContextOf, CCMHolds, CCMContent, CCMInv, CCMTyped
<1>3. g.text \in Seq({"enc", "dec"}) /\ p \in Nat
  BY <1>2 DEF IsMessage
<1>4. more \in Seq({"enc", "dec"}) /\ Len(more) = n /\ \A i \in 1..n : more[i] = dir
  BY <1>1, Repeated
<1> HIDE DEF more
<1>5. /\ all \in Seq({"enc", "dec"}) /\ Len(all) = p + n
      /\ \A i \in 1..p + n : all[i] = IF i <= p THEN g.text[i] ELSE more[i - p]
      /\ Take(all, p) = g.text
  <2>1. /\ all \in Seq({"enc", "dec"}) /\ Len(all) = p + n
        /\ \A i \in 1..p + n : all[i] = IF i <= p THEN g.text[i] ELSE more[i - p]
    BY <1>3, <1>4, ConcatProperties
  <2>2. Take(all, p) = g.text
    BY <1>3, <1>4, TakeOfJoined
  <2> QED BY <2>1, <2>2
<1> HIDE DEF all
<1>6. /\ h.id = g.id /\ h.nonce = g.nonce /\ h.text = all /\ h.ad = g.ad
      /\ h.tagLen = g.tagLen /\ h.msgLen = g.msgLen /\ IsMessage(h)
  <2>1. IsMessage(g)
    BY <1>2
  <2> HIDE DEF g
  <2> QED BY <1>5, <2>1 DEF IsMessage
<1>7. MoreText(g, n, dir, h)
  <2> HIDE DEF h
  <2>1. ASSUME NEW i \in 1..p PROVE all[i] = g.text[i]
    <3>1. i \in 1..p + n /\ i <= p
      BY <1>1, <1>3
    <3> HIDE DEF p
    <3> QED BY <1>5, <3>1
  <2>2. ASSUME NEW i \in 1..n PROVE all[p + i] = dir
    <3>1. p + i \in 1..p + n /\ ~(p + i <= p) /\ (p + i) - p = i
      BY <1>1, <1>3
    <3> HIDE DEF p
    <3> QED BY <1>4, <1>5, <3>1
  <2> QED BY <1>5, <1>6, <2>1, <2>2 DEF MoreText
<1> HIDE DEF h
<1>8. /\ src \in Seq(CCMBytes) /\ Len(src) = n
      /\ O(h) = O(g) \o Cipher(g, p, src) /\ P(h) = Join(P(g), Sent(g, p, src, dir))
  <2>1. IsMessage(g) /\ n \in Nat
    BY <1>1, <1>2
  <2> HIDE DEF g
  <2> QED BY <1>7, <2>1, TextAdded
<1>9. Len(P(g)) = p
  <2>1. DOMAIN g.text = 1..p
    BY <1>3
  <2> DEFINE C(i) == IF g.text[i] = "enc" THEN CCMOneCall!Source(g, i) ELSE CCMOneCall!Result(g, i)
  <2>2. P(g) = [i \in 1..p |-> C(i)]
    BY <2>1 DEF CCMOneCall!PlainText
  <2> HIDE DEF C, p, P
  <2> QED BY <1>3, <2>2
<1> DEFINE text == P(g)
<1>23. CCMOneCall!CounterSuffices(h) =>
          CCMOneCall!CounterSuffices(g) /\ Suffices(g, Begun(Len(text) + Len(src)))
  <2> SUFFICES ASSUME CCMOneCall!CounterSuffices(h)
               PROVE  CCMOneCall!CounterSuffices(g) /\ Suffices(g, Begun(p + n))
    BY <1>8, <1>9
  <2> HIDE DEF p, src, text
  <2>1. Suffices(h, Begun(p + n))
    BY <1>5, <1>6, SufficesForText
  <2>2. Suffices(g, Begun(p + n))
    BY <1>6, <2>1 DEF Suffices
  <2>3. p + n \in Nat /\ p <= p + n
    BY <1>1, <1>3
  <2> DEFINE w == p + n
  <2> HIDE DEF w
  <2>4. Begun(p) \in Nat /\ Begun(w) \in Nat /\ Begun(p) <= Begun(w)
    BY <1>3, <2>3, BegunNumber, BegunMonotone DEF w
  <2>5. Suffices(g, Begun(p))
    BY <2>2, <2>4, SufficesForLess DEF w
  <2> QED BY <2>2, <2>5, SufficesForText DEF p
<1>10. CCMOneCall!CounterSuffices(h) =>
         /\ t.dst = Cipher(g, Len(text), src)
         /\ HoldsText(t.c, g, Join(text, Sent(g, Len(text), src, dir)))
  <2> SUFFICES ASSUME CCMOneCall!CounterSuffices(h)
               PROVE  /\ t.dst = Cipher(g, Len(text), src)
                      /\ HoldsText(t.c, g, Join(text, Sent(g, Len(text), src, dir)))
    OBVIOUS
  <2> HIDE DEF src, text
  <2>1. MacBase(g) \in Seq(Block(CCMBytes)) /\ HoldsText(ccm, g, text)
    BY <1>2, <1>23, StartMac DEF text
  <2>2. Suffices(g, Begun(Len(text) + Len(src)))
    BY <1>23
  <2> HIDE DEF g
  <2> QED BY <1>2, <1>8, <2>1, <2>2, ProcessHolds
<1>11. StaysContext(ccm, t.c, g)
  <2> HIDE DEF src, g
  <2> QED BY <1>2, <1>8, <1>21, ProcessStays
<1> HIDE DEF src, t
<1>12. CCMOneCall!CounterSuffices(h) => t.dst = Cipher(g, p, src) /\ HoldsText(t.c, g, P(h))
  BY <1>8, <1>9, <1>10
<1>13. CCMOneCall!CounterSuffices(h) => ccmOut' = O(h)
  BY <1>1, <1>2, <1>8, <1>12, <1>23
<1>14. CCMOneCall!CounterSuffices(h) => HoldsText(t.c, h, P(h))
  <2> SUFFICES ASSUME CCMOneCall!CounterSuffices(h) PROVE HoldsText(t.c, h, P(h))
    OBVIOUS
  <2> DEFINE z == P(h)
  <2> HIDE DEF z
  <2>0. HoldsText(t.c, g, z)
    BY <1>12 DEF z
  <2>1. PICK a, m, r : InText(t.c, g, a, m, r) /\ Join(m, r) = z
    BY <2>0 DEF HoldsText
  <2>2. MacBase(h) = MacBase(g) /\ \A k : Counted(h, k) = Counted(g, k)
    <3>1. /\ h.id = g.id /\ h.nonce = g.nonce /\ h.ad = g.ad
          /\ h.tagLen = g.tagLen /\ h.msgLen = g.msgLen
      BY <1>6
    <3> HIDE DEF g
    <3>2. \A k : Counted(h, k) = Counted(g, k)
      BY <3>1 DEF Counted
    <3>3. CCMOneCall!B0(h) = CCMOneCall!B0(g)
      BY <3>1 DEF CCMOneCall!B0
    <3>4. CCMOneCall!Ad(h) = CCMOneCall!Ad(g)
      BY <3>1 DEF CCMOneCall!Ad
    <3>5. MacBase(h) = MacBase(g)
      BY <3>1, <3>3, <3>4 DEF MacBase
    <3> QED BY <3>2, <3>5
  <2>3. InText(t.c, h, a, m, r)
    BY <1>6, <2>1, <2>2 DEF InText
  <2> QED BY <2>1, <2>3 DEF HoldsText, z
<1>16. h.id \in Nat /\ h.id > 0 /\ h.id # 0
  <2>1. g.id \in Nat
    BY <1>2 DEF IsMessage
  <2> QED BY <1>1, <1>6, <2>1
<1>17. /\ CCMOneCall!Output(ccmGiven)' = O(h)
       /\ CCMOneCall!PlainText(ccmGiven)' = P(h)
       /\ CCMOneCall!CounterSuffices(ccmGiven)' <=> CCMOneCall!CounterSuffices(h)
  BY <1>1, CCMNextSame
<1>18. CCMContent'
  <2>1. /\ ccm'.tagLen \in 1..BlockSize /\ ccm'.msgLen \in Nat
        /\ ccm'.blk \in Block(CCMBytes) /\ ccm'.si \in Block(CCMBytes)
        /\ ccm'.ctr0 = [id |-> ccmGiven'.id, nonce |-> ccmGiven'.nonce]
    BY <1>1, <1>2, <1>6, <1>11 DEF StaysContext, ContextOf
  <2>2. /\ ccmGiven'.id \in Nat /\ ccmGiven'.id # 0 /\ IsMessage(ccmGiven')
        /\ CCMOneCall!CounterSuffices(h) => HoldsText(ccm', ccmGiven', P(h))
    BY <1>1, <1>6, <1>14, <1>16
  <2> QED BY <1>13, <1>17, <2>1, <2>2 DEF CCMContent
<1>19. ccmGiven' = [ccmGiven EXCEPT !.text = ccmGiven'.text]
  <2>1. ccmGiven' = [ccmGiven EXCEPT !.text = all]
    BY <1>1 DEF h
  <2>2. ccmGiven'.text = all
    BY <1>1, <1>6
  <2> QED BY <2>1, <2>2
<1>20. Take(ccmGiven'.text, Len(ccmGiven.text)) = ccmGiven.text
  BY <1>1, <1>5, <1>6
<1> QED
  BY <1>18, <1>19, <1>20

\* A call that changes neither context nor message keeps the content.
LEMMA CCMSameContent ==
    ASSUME CCMContent, UNCHANGED <<ccm, ccmGiven, ccmOut>>
    PROVE  CCMContent'
<1>1. ASSUME NEW g, ccmGiven = g
      PROVE  /\ CCMOneCall!Output(ccmGiven)' = CCMOneCall!Output(g)
             /\ CCMOneCall!PlainText(ccmGiven)' = CCMOneCall!PlainText(g)
             /\ CCMOneCall!CounterSuffices(ccmGiven)' <=> CCMOneCall!CounterSuffices(g)
  BY <1>1, CCMNextSame
<1> QED
  BY <1>1 DEF CCMContent

\* Every step keeps the content.
LEMMA CCMStepHolds == CCMHolds /\ [CCMNext]_ccmVars => CCMHolds'
<1> SUFFICES ASSUME CCMHolds, [CCMNext]_ccmVars PROVE CCMHolds'
  OBVIOUS
<1>1. CCMInv'
  BY CCMStepInv DEF CCMHolds
<1>2. CCMContent'
  <2>1. CASE (\E n \in MessageLens : CCMMessageLen(n)) \/ (\E n \in TagLens : CCMTagLen(n))
    BY <2>1, CCMLengthsContent
  <2>2. CASE \E n \in PieceLens : CCMGetTag(n)
    BY <2>2, CCMSameContent DEF CCMGetTag, CCMHolds
  <2>3. ASSUME NEW nonce \in Nonces, NEW ad \in AdLens, CCMStart(nonce, ad) PROVE CCMContent'
    BY <2>3, CCMStartContent
  <2>4. ASSUME NEW n \in PieceLens, NEW dir \in {"enc", "dec"}, CCMText(n, dir)
        PROVE  CCMContent'
    BY <2>4, CCMTextContent
  <2>5. CASE UNCHANGED ccmVars
    BY <2>5, CCMSameContent DEF ccmVars, CCMHolds
  <2> QED
    BY <2>1, <2>2, <2>3, <2>4, <2>5 DEF CCMNext
<1> QED
  BY <1>1, <1>2 DEF CCMHolds

\* For every block size, every width of the counter, every cutting of a message
\* into calls of ippsAES_CCMEncrypt and ippsAES_CCMDecrypt, and both builds: as
\* long as the counter of the blocks suffices (the message has fewer blocks than
\* counterVal has values, or its nonce leaves no more values than that), text
\* and tag are those of one call on everything given since ippsAES_CCMStart.
THEOREM CCMPiecesAreOneCall == CCMSpec => CCMImplementsOneCall
<1>1. CCMInit => CCMOneCall!Init
  BY DEF CCMInit, CCMOneCall!Init
<1>2. CCMInit => CCMHolds
  BY CCMInitInv, CCMInitContent DEF CCMHolds
<1>3. CCMHolds /\ CCMHolds' /\ [CCMNext]_ccmVars => [CCMOneCall!Next]_(CCMOneCall!vars)
  <2> SUFFICES ASSUME CCMHolds, CCMHolds', [CCMNext]_ccmVars
               PROVE  CCMOneCall!Next \/ UNCHANGED CCMOneCall!vars
    OBVIOUS
  <2>1. CCMOneCall!CounterSuffices(ccmGiven') => ccmOut' = CCMOneCall!Output(ccmGiven')
    <3>1. ASSUME NEW k, ccmGiven' = k
          PROVE  /\ CCMOneCall!Output(ccmGiven)' = CCMOneCall!Output(k)
                 /\ CCMOneCall!CounterSuffices(ccmGiven)' <=> CCMOneCall!CounterSuffices(k)
      BY <3>1, CCMNextSame
    <3>2. CCMOneCall!CounterSuffices(ccmGiven)' => ccmOut' = CCMOneCall!Output(ccmGiven)'
      BY DEF CCMHolds, CCMContent
    <3> QED BY <3>1, <3>2
  <2>2. ASSUME NEW n, CCMMessageLen(n) \/ CCMTagLen(n) PROVE CCMOneCall!Give
    <3>1. ccmGiven' = ccmGiven /\ ccmTag' = <<>>
      BY <2>2 DEF CCMMessageLen, CCMTagLen
    <3>2. ccmGiven' = [ccmGiven EXCEPT !.text = ccmGiven'.text]
      BY <3>1 DEF CCMHolds, CCMInv, CCMTyped
    <3>3. Take(ccmGiven.text, Len(ccmGiven.text)) = ccmGiven.text
      <4>1. ccmGiven.text \in Seq({"enc", "dec"})
        BY DEF CCMHolds, CCMInv, CCMTyped
      <4> QED BY <4>1, TakeAll
    <3> QED BY <2>1, <3>1, <3>2, <3>3, CCMSameOperators DEF CCMOneCall!Give
  <2>3. ASSUME NEW n \in PieceLens, CCMGetTag(n) PROVE CCMOneCall!GetTag
    <3>1. /\ ccmGiven.id > 0 /\ n \in 1..ccm.tagLen
          /\ ccmTag' = [mac |-> FinalMac(ccm), mask |-> ccm.s0, len |-> n]
          /\ UNCHANGED <<ccmGiven, ccmOut>>
      BY <2>3 DEF CCMGetTag
    <3>2. IsMessage(ccmGiven) /\ ccm.tagLen \in 1..BlockSize
      BY <3>1 DEF CCMHolds, CCMContent
    <3>5. CCMOneCall!CounterSuffices(ccmGiven) => ccmTag' = CCMOneCall!Tag(ccmGiven, n)
      <4> SUFFICES ASSUME CCMOneCall!CounterSuffices(ccmGiven)
                   PROVE  ccmTag' = CCMOneCall!Tag(ccmGiven, n)
        OBVIOUS
      <4>1. HoldsText(ccm, ccmGiven, CCMOneCall!PlainText(ccmGiven))
        BY <3>1 DEF CCMHolds, CCMContent
      <4>2. FinalMac(ccm) = CCMOneCall!Mac(ccmGiven)
        BY <3>2, <4>1, MacOfText
      <4>3. ccm.s0 = CCMOneCall!S(ccmGiven.id, ccmGiven.nonce, 0)
        BY <4>1 DEF HoldsText, InText, Counted
      <4> QED BY <3>1, <4>2, <4>3 DEF CCMOneCall!Tag
    <3>6. n \in 1..BlockSize
      BY <3>1, <3>2, BlockConstants
    <3> QED BY <3>1, <3>5, <3>6 DEF CCMOneCall!GetTag
  <2>4. ASSUME NEW nonce \in Nonces, NEW ad \in AdLens, CCMStart(nonce, ad)
        PROVE  CCMOneCall!Give
    BY <2>1, <2>4 DEF CCMStart, CCMOneCall!Give
  <2>5. ASSUME NEW n \in PieceLens, NEW dir \in {"enc", "dec"}, CCMText(n, dir)
        PROVE  CCMOneCall!Give
    <3>1. ccmTag' = <<>>
      BY <2>5 DEF CCMText
    <3>2. /\ ccmGiven' = [ccmGiven EXCEPT !.text = ccmGiven'.text]
          /\ Take(ccmGiven'.text, Len(ccmGiven.text)) = ccmGiven.text
      BY <2>5, CCMTextContent
    <3> QED BY <2>1, <3>1, <3>2, CCMSameOperators DEF CCMOneCall!Give
  <2>6. CASE UNCHANGED ccmVars
    BY <2>6 DEF ccmVars, CCMOneCall!vars
  <2> QED
    BY <2>2, <2>3, <2>4, <2>5, <2>6 DEF CCMNext, CCMOneCall!Next
<1> QED
  BY <1>1, <1>2, <1>3, CCMStepHolds, PTL
  DEF CCMSpec, CCMImplementsOneCall, CCMOneCall!Spec

-----------------------------------------------------------------------------
(* The key stream of a message shorter than its counter. *)

\* The key stream in a byte of the output, and in the block that masks the tag.
UsedIn(byte) == {b \in byte : b[1] = "E"}

\* The counter of the byte at place p.
CounterAt(p) == 1 + ((p - 1) \div BlockSize)

\* The byte of the key stream is the one it was made with.
LEMMA KeyOfResult ==
    ASSUME NEW g, IsMessage(g), NEW i \in DOMAIN g.text
    PROVE  UsedIn(CCMOneCall!Output(g)[i]) = Key(g, i)
<1> DEFINE c == CounterAt(i) % g.nonce.counters
           l == ((i - 1) % BlockSize) + 1
           k == <<"E", g.id, g.nonce, c, l>>
           d == <<g.text[i], g.id, i>>
<1>1. i \in Nat \ {0} /\ g.text[i] \in {"enc", "dec"}
  BY DEF IsMessage
<1>2. l \in 1..BlockSize
  <2>1. i - 1 \in Nat
    BY <1>1
  <2>2. (i - 1) % BlockSize \in 0..BlockSize - 1
    BY <2>1, BlocksAndRest
  <2> QED BY <2>2, BlockConstants
<1>3. Key(g, i) = {k} /\ CCMOneCall!Keystream(g, i) = {k}
  <2> HIDE DEF c, l
  <2>1. Key(g, i) = Counted(g, CounterAt(i))[l] /\ CCMOneCall!Keystream(g, i) = Counted(g, CounterAt(i))[l]
    BY DEF Key, CCMOneCall!Keystream, Counted, CounterAt, l
  <2>2. Counted(g, CounterAt(i)) = [x \in 1..BlockSize |-> {<<"E", g.id, g.nonce, c, x>>}]
    BY DEF Counted, CCMOneCall!S, c
  <2> QED BY <1>2, <2>1, <2>2
<1>4. CCMOneCall!Output(g)[i] = Xor({d}, {k})
  BY <1>3, CCMSameOperators DEF CCMOneCall!Output, CCMOneCall!Result, CCMOneCall!Source
<1>5. k[1] = "E" /\ d[1] # "E"
  BY <1>1
<1> HIDE DEF k, d
<1>6. d # k
  BY <1>5
<1>7. Xor({d}, {k}) = {d, k}
  BY <1>6 DEF Xor
<1>8. UsedIn({d, k}) = {k}
  BY <1>5 DEF UsedIn
<1> QED
  BY <1>3, <1>4, <1>7, <1>8

\* The counters of a text run from 1 to the number of its blocks.
LEMMA CountersOfText ==
    ASSUME NEW n \in Nat, NEW p \in 1..n
    PROVE  CounterAt(p) \in 1..Begun(n)
<1> DEFINE B == BlockSize
           q == (p - 1) \div B
           x == (p - 1) % B
           e == n + B - 1
           b == e \div B
           y == e % B
<1>1. B \in Nat \ {0} /\ p - 1 \in Nat /\ e \in Nat
  BY BlockConstants
<1>2. q \in Nat /\ x \in 0..B - 1 /\ p - 1 = B * q + x
  BY <1>1, BlocksAndRest
<1>3. b \in Nat /\ y \in 0..B - 1 /\ e = B * b + y
  BY <1>1, BlocksAndRest
<1>4. CounterAt(p) = 1 + q /\ Begun(n) = b
  BY DEF CounterAt, Begun
<1>5. e = n + B - 1
  OBVIOUS
<1> HIDE DEF q, x, e, b, y
<1>6. ~(b <= q)
  <2> SUFFICES ASSUME b <= q PROVE FALSE
    OBVIOUS
  <2>1. q - b \in Nat
    BY <1>2, <1>3
  <2>2. B * (q - b) \in Nat /\ B * q = B * b + B * (q - b) /\ B * b \in Nat /\ B * q \in Nat
    BY <1>1, <1>2, <1>3, <2>1
  <2> HIDE DEF B
  <2> QED BY <1>1, <1>2, <1>3, <1>5, <2>2
<1> QED
  BY <1>2, <1>3, <1>4, <1>6

\* No two places of a text with fewer blocks than the nonce leaves counter
\* values have the same byte of the key stream, and none has one of the block
\* that masks the tag.
LEMMA KeysDiffer ==
    ASSUME NEW g, IsMessage(g), NEW n \in Nat, Begun(n) < g.nonce.counters, NEW i \in 1..n
    PROVE  /\ \A k \in 1..n : Key(g, i) = Key(g, k) => i = k
           /\ \A l \in 1..BlockSize : Key(g, i) # Counted(g, 0)[l]
<1> DEFINE B == BlockSize
           C == g.nonce.counters
           at(k) == (k - 1) % B
           blk(k) == (k - 1) \div B
           ct(k) == CounterAt(k)
<1>1. C \in Nat \ {0}
  BY CCMConstants DEF IsMessage
<1>2. ASSUME NEW k \in 1..n
      PROVE  /\ blk(k) \in Nat /\ at(k) \in 0..B - 1 /\ k - 1 = B * blk(k) + at(k)
             /\ ct(k) = 1 + blk(k) /\ ct(k) \in 1..C - 1 /\ ct(k) % C = ct(k)
  <2>1. k - 1 \in Nat
    OBVIOUS
  <2>2. blk(k) \in Nat /\ at(k) \in 0..B - 1 /\ k - 1 = B * blk(k) + at(k)
    BY <2>1, BlocksAndRest
  <2>3. ct(k) \in 1..Begun(n)
    BY CountersOfText
  <2>4. Begun(n) \in Int
    BY BlockConstants DEF Begun
  <2>5. ct(k) = 1 + blk(k)
    BY DEF CounterAt
  <2> HIDE DEF ct, C
  <2>6. ct(k) \in 1..C - 1
    BY <1>1, <2>3, <2>4 DEF C
  <2>7. ct(k) % C = ct(k)
    <3> DEFINE z == ct(k)
    <3> HIDE DEF z
    <3>1. z \in 1..C - 1
      BY <2>6 DEF z
    <3>2. z % C = z
      BY <1>1, <3>1
    <3> QED BY <3>2 DEF z
  <2> QED BY <2>2, <2>5, <2>6, <2>7
<1> HIDE DEF C
<1>3. ASSUME NEW k \in 1..n
      PROVE  Key(g, k) = {<<"E", g.id, g.nonce, ct(k), at(k) + 1>>}
  <2>1. Key(g, k) = Counted(g, ct(k))[at(k) + 1]
    BY DEF Key, CounterAt
  <2>2. Counted(g, ct(k)) = [x \in 1..B |-> {<<"E", g.id, g.nonce, ct(k) % C, x>>}]
    BY DEF Counted, CCMOneCall!S, C
  <2> HIDE DEF at, ct
  <2>3. at(k) + 1 \in 1..B
    BY <1>2, BlockConstants
  <2>4. Counted(g, ct(k)) = [x \in 1..B |-> {<<"E", g.id, g.nonce, ct(k), x>>}]
    BY <1>2, <2>2
  <2> QED BY <2>1, <2>3, <2>4
<1> HIDE DEF at, blk, ct
<1>4. ASSUME NEW k \in 1..n, Key(g, i) = Key(g, k) PROVE i = k
  <2>1. <<"E", g.id, g.nonce, ct(i), at(i) + 1>> = <<"E", g.id, g.nonce, ct(k), at(k) + 1>>
    BY <1>3, <1>4
  <2>2. ct(i) = ct(k) /\ at(i) + 1 = at(k) + 1
    BY <2>1
  <2>3. blk(i) = blk(k) /\ at(i) = at(k)
    <3> DEFINE x == at(i)
               y == at(k)
               u == blk(i)
               v == blk(k)
    <3>1. x \in Nat /\ y \in Nat /\ u \in Nat /\ v \in Nat
      BY <1>2, BlockConstants
    <3>2. x + 1 = y + 1 /\ 1 + u = 1 + v
      <4>1. ct(i) = 1 + u /\ ct(k) = 1 + v
        BY <1>2
      <4> QED BY <2>2, <4>1
    <3> HIDE DEF x, y, u, v
    <3>3. x = y /\ u = v
      BY <3>1, <3>2
    <3> QED BY <3>3 DEF x, y, u, v
  <2>4. i - 1 = k - 1
    BY <1>2, <2>3
  <2> QED BY <2>4
<1>5. ASSUME NEW l \in 1..B PROVE Key(g, i) # Counted(g, 0)[l]
  <2>1. 0 % C = 0
    BY <1>1
  <2>2. Counted(g, 0) = [x \in 1..B |-> {<<"E", g.id, g.nonce, 0, x>>}]
    BY <2>1 DEF Counted, CCMOneCall!S, C
  <2>3. Counted(g, 0)[l] = {<<"E", g.id, g.nonce, 0, l>>}
    BY <2>2
  <2>4. ct(i) # 0
    BY <1>2
  <2>5. <<"E", g.id, g.nonce, ct(i), at(i) + 1>> # <<"E", g.id, g.nonce, 0, l>>
    BY <2>4
  <2> QED BY <1>3, <2>3, <2>5
<1> QED
  BY <1>4, <1>5

\* For every block size, nonce and width of the counter: as long as a message
\* has fewer blocks than its nonce leaves counter values and than counterVal
\* has, no byte of the key stream masks two bytes of the text, and none of the
\* block that masks the tag.
THEOREM CCMKeystreamAlwaysFresh == CCMSpec => []CCMKeystreamFresh
<1>1. CCMHolds => CCMKeystreamFresh
  <2> SUFFICES ASSUME CCMHolds, Begun(Len(ccmGiven.text)) < ccmGiven.nonce.counters,
                      Begun(Len(ccmGiven.text)) < CounterWord
               PROVE  CCMKeystreamFresh
    BY DEF CCMKeystreamFresh
  <2> DEFINE g == ccmGiven
             used == [i \in DOMAIN ccmOut |-> {b \in ccmOut[i] : b[1] = "E"}]
  <2>0. CCMOneCall!CounterSuffices(g)
    BY SufficesForText DEF Suffices
  <2>1. CCMContent /\ ccmOut = CCMOneCall!Output(g)
    BY <2>0 DEF CCMHolds, CCMContent
  <2>2. CASE g.id = 0
    <3>1. g.text = <<>>
      BY <2>1, <2>2 DEF CCMContent
    <3>2. DOMAIN ccmOut = {}
      BY <2>1, <3>1 DEF CCMOneCall!Output
    <3> QED BY <3>2 DEF CCMKeystreamFresh
  <2>3. CASE g.id # 0
    <3>1. IsMessage(g) /\ HoldsText(ccm, g, CCMOneCall!PlainText(g))
      BY <2>0, <2>1, <2>3 DEF CCMContent
    <3>2. ccm.s0 = Counted(g, 0)
      BY <3>1 DEF HoldsText, InText
    <3> DEFINE n == Len(g.text)
    <3>4. /\ DOMAIN ccmOut = 1..n /\ DOMAIN g.text = 1..n /\ n \in Nat /\ Len(ccmOut) = n
          /\ ccmOut = [i \in 1..n |-> CCMOneCall!Result(g, i)]
      BY <2>1, <3>1 DEF CCMOneCall!Output, IsMessage
    <3> HIDE DEF n
    <3>5. Begun(n) < g.nonce.counters
      BY DEF n
    <3>6. ASSUME NEW i \in 1..n
          PROVE  /\ used[i] = Key(g, i) /\ \E x : Key(g, i) = {x}
      <4>1. used[i] = UsedIn(ccmOut[i])
        BY <3>4 DEF UsedIn
      <4>2. UsedIn(CCMOneCall!Output(g)[i]) = Key(g, i)
        BY <3>1, <3>4, KeyOfResult
      <4>3. i - 1 \in Nat /\ ((i - 1) % BlockSize) + 1 \in 1..BlockSize
        <5>1. i - 1 \in Nat
          BY <3>4
        <5>2. (i - 1) % BlockSize \in 0..BlockSize - 1
          BY <5>1, BlocksAndRest
        <5> QED BY <5>1, <5>2, BlockConstants
      <4>4. \E x : Key(g, i) = {x}
        BY <4>3 DEF Key, Counted, CCMOneCall!S
      <4> QED BY <2>1, <4>1, <4>2, <4>4
    <3> HIDE DEF used, g
    <3>7. ASSUME NEW i \in 1..n, NEW l \in 1..BlockSize PROVE used[i] \cap ccm.s0[l] = {}
      <4>1. PICK x : Key(g, i) = {x}
        BY <3>6
      <4>2. \E y : Counted(g, 0)[l] = {y}
        BY DEF Counted, CCMOneCall!S
      <4>3. PICK y : Counted(g, 0)[l] = {y}
        BY <4>2
      <4>4. Key(g, i) # Counted(g, 0)[l]
        BY <3>1, <3>4, <3>5, KeysDiffer
      <4> QED BY <3>2, <3>6, <4>1, <4>3, <4>4
    <3>8. ASSUME NEW i \in 1..n, NEW k \in 1..n, i # k PROVE used[i] \cap used[k] = {}
      <4>1. Key(g, i) # Key(g, k)
        BY <3>1, <3>4, <3>5, <3>8, KeysDiffer
      <4>2. PICK x : Key(g, i) = {x}
        BY <3>6
      <4>3. PICK y : Key(g, k) = {y}
        BY <3>6
      <4> QED BY <3>6, <4>1, <4>2, <4>3
    <3>9. ASSUME NEW i \in 1..n PROVE used[i] # {}
      BY <3>6
    <3> QED
      BY <3>4, <3>7, <3>8, <3>9 DEF CCMKeystreamFresh, used
  <2> QED BY <2>2, <2>3
<1>2. CCMInit => CCMHolds
  BY CCMInitInv, CCMInitContent DEF CCMHolds
<1> QED
  BY <1>1, <1>2, CCMStepHolds, PTL DEF CCMSpec
=============================================================================
