---------------------------- MODULE AESGCM_proofs ----------------------------
(* Proofs about AESGCM for every block size, every size of the counter word *)
(* and every cutting of a message.                                          *)
EXTENDS AESGCM, ByteBlocks_proofs

-----------------------------------------------------------------------------
(* What the calls keep of a context c for what is given, g. *)

IsContext(c) ==
    /\ c = [x \in {"state", "ivLen", "aadLen", "txtLen", "bufLen", "counter", "ecounter0",
                   "ecounter", "ghash"} |-> c[x]]
    /\ c.counter = [x \in {"iv", "n"} |-> c.counter[x]]

\* The fields the place of a text byte depends on.
Counts(c, st, iv, aad, txt, buf, n) ==
    /\ IsContext(c)
    /\ c.state = st /\ c.ivLen = iv /\ c.aadLen = aad
    /\ c.txtLen = txt /\ c.bufLen = buf /\ c.counter.n = n

IsGiven(g) ==
    /\ g = [id |-> g.id, iv |-> g.iv, aad |-> g.aad, text |-> g.text, low |-> g.low,
            begun |-> g.begun]
    /\ g.iv \in Nat /\ g.aad \in Nat /\ g.text \in Seq({"enc", "dec"})
    /\ g.low \in 0..CounterMod - 1

First(c, g) == IF c.ivLen = CtrPos THEN 1 ELSE g.low

\* One conjunct per phase: the place in the open block and the counter.
Phases(c, g) ==
    /\ c.state = "GcmInit" => c.ivLen = 0 /\ c.bufLen = 0
    /\ c.state = "GcmIVprocessing" => c.bufLen = c.ivLen % BlockSize
    /\ c.state \in {"GcmInit", "GcmIVprocessing"} => ~g.begun /\ c.aadLen = 0
    /\ c.state # "GcmTXTprocessing" => c.txtLen = 0
    /\ c.state = "GcmAADprocessing" =>
          g.begun /\ c.bufLen = c.aadLen % BlockSize /\ c.counter.n = First(c, g)
    /\ c.state = "GcmTXTprocessing" =>
          /\ g.begun /\ c.bufLen = c.txtLen % BlockSize
          /\ c.counter.n = (First(c, g) + 1 + (c.txtLen \div BlockSize)) % CounterMod

GInv(c, g) ==
    /\ IsContext(c) /\ IsGiven(g)
    /\ c.state \in {"GcmInit", "GcmIVprocessing", "GcmAADprocessing", "GcmTXTprocessing"}
    /\ c.bufLen \in Nat /\ c.counter.n \in 0..CounterMod - 1
    /\ c.ivLen = g.iv /\ c.aadLen = g.aad /\ c.txtLen = Len(g.text)
    /\ c.txtLen <= MaxTxtLen
    /\ Phases(c, g)

\* There is room for no text.
LEMMA RoomForNothing == MaxTxtLen \in Nat
<1>1. CounterMod - 2 \in Nat /\ BlockSize \in Nat
  BY GCMConstants, BlockConstants
<1> HIDE DEF MaxTxtLen
<1> QED
  BY <1>1 DEF MaxTxtLen

\* After ippsAES_GCMInit or ippsAES_GCMReset.
LEMMA AfterReset == \A id : GInv(GCMReset, GCMOneCall!Nothing(id))
<1> SUFFICES ASSUME NEW id PROVE GInv(GCMReset, GCMOneCall!Nothing(id))
  OBVIOUS
<1> DEFINE g == GCMOneCall!Nothing(id)
<1>1. IsContext(GCMReset)
  BY DEF GCMReset, IsContext
<1>2. IsGiven(g) /\ g.iv = 0 /\ g.aad = 0 /\ Len(g.text) = 0 /\ ~g.begun
  <2>1. <<>> \in Seq({"enc", "dec"}) /\ Len(<<>>) = 0
    BY EmptySeq
  <2>2. g = [id |-> id, iv |-> 0, aad |-> 0, text |-> <<>>, low |-> 0, begun |-> FALSE]
    BY DEF GCMOneCall!Nothing
  <2>3. 0 \in 0..CounterMod - 1
    BY GCMConstants
  <2> HIDE DEF g
  <2>4. /\ g = [id |-> g.id, iv |-> g.iv, aad |-> g.aad, text |-> g.text, low |-> g.low,
                begun |-> g.begun]
        /\ g.iv = 0 /\ g.aad = 0 /\ g.text = <<>> /\ g.low = 0 /\ ~g.begun
    BY <2>2
  <2> QED
    BY <2>1, <2>3, <2>4 DEF IsGiven
<1>3. Counts(GCMReset, "GcmInit", 0, 0, 0, 0, 0)
  BY <1>1 DEF GCMReset, Counts
<1>4. 0 \in 0..CounterMod - 1 /\ 0 <= MaxTxtLen
  BY GCMConstants, RoomForNothing
<1> HIDE DEF g
<1> QED
  BY <1>2, <1>3, <1>4 DEF GInv, Phases, Counts, g

-----------------------------------------------------------------------------
(* IV and additional data. *)

\* Feeding a register ends at the place of the length fed.
LEMMA FeedPlace ==
    ASSUME NEW r, NEW n \in Nat, NEW T, NEW s \in Seq(T)
    PROVE  Feed(r, n % BlockSize, s).buf = (n + Len(s)) % BlockSize
<1> DEFINE buf  == n % BlockSize
           loc  == IF buf = 0 THEN 0 ELSE Lesser(Len(s), BlockSize - buf)
           full == loc > 0 /\ buf + loc = BlockSize
           s1   == Drop(s, loc)
           m    == (Len(s1) \div BlockSize) * BlockSize
           s2   == Drop(s1, m)
<1>1. loc = ToOpenBlock(n, Len(s)) /\ Len(s) \in Nat
  BY DEF ToOpenBlock
<1>2. loc \in 0..Len(s)
  <2> HIDE DEF loc
  <2> QED BY <1>1, Cutting
<1>3. s1 \in Seq(T) /\ Len(s1) = Len(s) - loc
  <2> HIDE DEF loc
  <2> QED BY <1>2, TakeDropLengths
<1>4. m = WholeIn(n, Len(s)) * BlockSize /\ m \in 0..Len(s1)
  <2>1. Len(s1) \div BlockSize = WholeIn(n, Len(s))
    BY <1>1, <1>3 DEF WholeIn
  <2>2. WholeIn(n, Len(s)) * BlockSize \in 0..Len(s1)
    <3> HIDE DEF loc, s1
    <3> QED BY <1>1, <1>3, Cutting
  <2> QED
    BY <2>1, <2>2
<1>5. Len(s2) = RestOf(n, Len(s))
  <2>1. Len(s2) = Len(s1) - m
    <3> HIDE DEF s1, m
    <3> QED BY <1>3, <1>4, TakeDropLengths
  <2> QED
    BY <1>1, <1>3, <1>4, <2>1 DEF RestOf
<1>6. Feed(r, buf, s).buf = IF full THEN Len(s2) ELSE buf + loc + Len(s2)
  BY DEF Feed
<1> HIDE DEF loc, s2
<1>7. buf \in 0..BlockSize - 1
  BY BlocksAndRest
<1>8. CASE StaysOpen(n, Len(s))
  <2>1. loc = Len(s) /\ Len(s2) = 0 /\ (n + Len(s)) % BlockSize = buf + Len(s)
    BY <1>1, <1>5, <1>8, Cutting
  <2>2. buf + Len(s) < BlockSize
    BY <1>8 DEF StaysOpen
  <2> HIDE DEF buf
  <2> QED
    BY <1>6, <1>7, <2>1, <2>2, BlockConstants DEF buf
<1>9. CASE ~StaysOpen(n, Len(s))
  <2>1. /\ (n + Len(s)) % BlockSize = Len(s2)
        /\ buf # 0 => loc = BlockSize - buf
    BY <1>1, <1>5, <1>9, Cutting
  <2>2. buf = 0 => loc = 0
    BY DEF loc
  <2>3. Len(s2) \in Nat
    BY <1>5, Cutting
  <2> HIDE DEF buf
  <2>4. full <=> buf # 0
    BY <1>7, <2>1, <2>2, BlockConstants
  <2>5. ~full => buf + loc + Len(s2) = Len(s2)
    BY <2>2, <2>3, <2>4
  <2> HIDE DEF full
  <2> QED
    BY <1>6, <2>1, <2>5 DEF buf
<1> QED
  BY <1>8, <1>9

\* ippsAES_GCMProcessIV.
LEMMA ProcessIVKeeps ==
    ASSUME NEW c, NEW g, GInv(c, g), NEW n \in Nat, AcceptsIV(c, n)
    PROVE  GInv(WithIV([c |-> c, g |-> g], n).c, WithIV([c |-> c, g |-> g], n).g)
<1> DEFINE s == Piece("iv", g.id, g.iv, n)
           d == ProcessIV(c, s)
           h == [g EXCEPT !.iv = @ + n]
<1>1. WithIV([c |-> c, g |-> g], n).c = d /\ WithIV([c |-> c, g |-> g], n).g = h
  BY DEF WithIV
<1>2. PICK T : s \in Seq(T) /\ Len(s) = n
  BY PieceLength
<1>3. c.state \in {"GcmInit", "GcmIVprocessing"}
  BY DEF AcceptsIV
<1>4. c.ivLen \in Nat /\ c.bufLen = c.ivLen % BlockSize
  <2>1. 0 % BlockSize = 0
    BY BlockConstants
  <2> QED
    BY <1>3, <2>1 DEF GInv, IsGiven, Phases
<1>5. Feed(c.counter.iv, c.bufLen, s).buf = (c.ivLen + n) % BlockSize
  BY <1>2, <1>4, FeedPlace
<1>6. Counts(d, "GcmIVprocessing", c.ivLen + n, c.aadLen, c.txtLen,
             (c.ivLen + n) % BlockSize, c.counter.n)
  <2> DEFINE f == Feed(c.counter.iv, c.bufLen, s)
  <2> DEFINE k == [c.counter EXCEPT !.iv = f.reg]
  <2>1. d = [c EXCEPT !.state = "GcmIVprocessing", !.counter = k,
                      !.bufLen = f.buf, !.ivLen = @ + Len(s)]
    BY DEF ProcessIV
  <2> HIDE DEF d, f, s
  <2>2. k = [iv |-> f.reg, n |-> c.counter.n]
    BY DEF GInv, IsContext
  <2> HIDE DEF k
  <2> QED
    BY <1>2, <1>5, <2>1, <2>2 DEF GInv, IsContext, Counts, f
<1>7. /\ IsGiven(h) /\ h.iv = g.iv + n /\ h.aad = g.aad /\ h.text = g.text
      /\ h.begun = g.begun /\ h.low = g.low
  BY DEF GInv, IsGiven
<1>8. (c.ivLen + n) % BlockSize \in Nat
  BY <1>4, BlocksAndRest
<1> HIDE DEF d, h
<1> QED
  BY <1>1, <1>3, <1>6, <1>7, <1>8 DEF GInv, Phases, Counts

\* The first call of the AAD phase completes the IV.
LEMMA CompletionCounts ==
    ASSUME NEW c, NEW g, GInv(c, g), NEW low \in 0..CounterMod - 1,
           c.state \in {"GcmIVprocessing", "GcmAADprocessing"}
    PROVE  Counts(IVCompleted(c, low), "GcmAADprocessing", c.ivLen, c.aadLen, 0,
                  c.aadLen % BlockSize,
                  IF c.ivLen = CtrPos THEN 1 ELSE IF g.begun THEN g.low ELSE low)
<1> DEFINE k == FinalCounter(c, low)
           d == IVCompleted(c, low)
<1>1. CASE c.state = "GcmAADprocessing"
  <2>1. d = c
    BY <1>1 DEF IVCompleted
  <2> QED
    BY <1>1, <2>1 DEF GInv, Phases, Counts, First
<1>2. CASE c.state = "GcmIVprocessing"
  <2>1. d = [c EXCEPT !.counter = k, !.ecounter0 = E(k), !.state = "GcmAADprocessing",
                      !.aadLen = 0, !.bufLen = 0]
    BY <1>2 DEF IVCompleted
  <2>2. k = [x \in {"iv", "n"} |-> k[x]] /\ k.n = IF c.ivLen = CtrPos THEN 1 ELSE low
    <3>1. CASE c.ivLen = CtrPos
      <4>1. k = [c.counter EXCEPT !.n = 1]
        BY <3>1 DEF FinalCounter
      <4> HIDE DEF k
      <4> QED BY <3>1, <4>1 DEF GInv, IsContext
    <3>2. CASE c.ivLen # CtrPos
      BY <3>2 DEF FinalCounter
    <3> QED BY <3>1, <3>2
  <2> HIDE DEF d, k
  <2>3. ~g.begun /\ c.aadLen = 0 /\ c.txtLen = 0
    BY <1>2 DEF GInv, Phases
  <2>4. 0 % BlockSize = 0
    BY BlockConstants
  <2> QED
    BY <1>2, <2>1, <2>2, <2>3, <2>4 DEF GInv, IsContext, Counts, d
<1> QED
  BY <1>1, <1>2

\* ippsAES_GCMProcessAAD.
LEMMA ProcessAADKeeps ==
    ASSUME NEW c, NEW g, GInv(c, g), NEW n \in Nat, NEW low \in 0..CounterMod - 1,
           AcceptsAAD(c, n)
    PROVE  GInv(WithAAD([c |-> c, g |-> g], n, low).c, WithAAD([c |-> c, g |-> g], n, low).g)
<1> DEFINE s == Piece("aad", g.id, g.aad, n)
           d == IVCompleted(c, low)
           e == ProcessAAD(c, s, low)
           h == [g EXCEPT !.aad = @ + n, !.begun = TRUE,
                          !.low = IF g.begun THEN @ ELSE low]
           k == IF c.ivLen = CtrPos THEN 1 ELSE IF g.begun THEN g.low ELSE low
<1>1. /\ WithAAD([c |-> c, g |-> g], n, low).c = e
      /\ WithAAD([c |-> c, g |-> g], n, low).g = h
  BY DEF WithAAD
<1>2. PICK T : s \in Seq(T) /\ Len(s) = n
  BY PieceLength
<1>3. c.state \in {"GcmIVprocessing", "GcmAADprocessing"}
  BY DEF AcceptsAAD
<1>4. Counts(d, "GcmAADprocessing", c.ivLen, c.aadLen, 0, c.aadLen % BlockSize, k)
  BY <1>3, CompletionCounts
<1>5. c.aadLen \in Nat /\ c.txtLen = 0
  BY <1>3 DEF GInv, IsGiven, Phases
<1>6. Feed(d.ghash, d.bufLen, s).buf = (c.aadLen + n) % BlockSize
  <2>1. d.bufLen = c.aadLen % BlockSize
    BY <1>4 DEF Counts
  <2> HIDE DEF d, s
  <2> QED
    BY <1>2, <1>5, <2>1, FeedPlace
<1>7. Counts(e, "GcmAADprocessing", c.ivLen, c.aadLen + n, 0, (c.aadLen + n) % BlockSize, k)
  <2> DEFINE f == Feed(d.ghash, d.bufLen, s)
  <2>1. e = [d EXCEPT !.ghash = f.reg, !.bufLen = f.buf, !.aadLen = @ + Len(s)]
    BY DEF ProcessAAD
  <2> HIDE DEF d, e, f, s, k
  <2> QED
    BY <1>2, <1>4, <1>6, <2>1 DEF IsContext, Counts, f
<1>8. /\ h = [id |-> h.id, iv |-> h.iv, aad |-> h.aad, text |-> h.text, low |-> h.low,
              begun |-> h.begun]
      /\ h.iv = g.iv /\ h.aad = g.aad + n /\ h.text = g.text /\ h.begun
      /\ h.low = IF g.begun THEN g.low ELSE low
  <2> DEFINE w == IF g.begun THEN g.low ELSE low
  <2>1. h = [g EXCEPT !.aad = @ + n, !.begun = TRUE, !.low = w]
    OBVIOUS
  <2> HIDE DEF h, w
  <2>2. /\ h = [id |-> h.id, iv |-> h.iv, aad |-> h.aad, text |-> h.text, low |-> h.low,
                begun |-> h.begun]
        /\ h.iv = g.iv /\ h.aad = g.aad + n /\ h.text = g.text /\ h.begun
        /\ h.low = w
    BY <2>1 DEF GInv, IsGiven
  <2> QED
    BY <2>2 DEF w
<1>9. k = IF c.ivLen = CtrPos THEN 1 ELSE h.low
  <2> HIDE DEF h
  <2> QED BY <1>8
<1>10. k \in 0..CounterMod - 1 /\ h.low \in 0..CounterMod - 1
  <2>1. 1 \in 0..CounterMod - 1
    BY GCMConstants
  <2> HIDE DEF k, h
  <2> QED
    BY <1>8, <1>9, <2>1 DEF GInv, IsGiven
<1>11. (c.aadLen + n) % BlockSize \in Nat
  BY <1>5, BlocksAndRest
<1>12. IsGiven(h)
  <2> HIDE DEF h, k
  <2> QED
    BY <1>8, <1>10 DEF GInv, IsGiven
<1> HIDE DEF e, h, k
<1>13. First(e, h) = k
  BY <1>7, <1>9 DEF First, Counts
<1> QED
  BY <1>1, <1>5, <1>7, <1>8, <1>10, <1>11, <1>12, <1>13 DEF GInv, Phases, Counts

-----------------------------------------------------------------------------
(* Text. *)

Text == "GcmTXTprocessing"

\* The counter word moves by one.
LEMMA NextBlockCounts ==
    ASSUME NEW c, NEW st, NEW iv, NEW aad, NEW txt, NEW buf, NEW n \in 0..CounterMod - 1,
           Counts(c, st, iv, aad, txt, buf, n)
    PROVE  Counts(NextCounterBlock(c), st, iv, aad, txt, buf, (n + 1) % CounterMod)
<1> DEFINE k == IncrementCounter32(c.counter)
<1>1. k = [x \in {"iv", "n"} |-> k[x]] /\ k.n = (n + 1) % CounterMod
  BY DEF IncrementCounter32, Counts, IsContext
<1>2. NextCounterBlock(c) = [c EXCEPT !.counter = k, !.ecounter = E(k)]
  BY DEF NextCounterBlock
<1> HIDE DEF k
<1> QED
  BY <1>1, <1>2 DEF Counts, IsContext

\* The first text call begins at a block of its own.
LEMMA OpenTextCounts ==
    ASSUME NEW c, NEW g, GInv(c, g), c.state \in {"GcmAADprocessing", Text}
    PROVE  Counts(OpenText(c), Text, c.ivLen, c.aadLen, c.txtLen, c.txtLen % BlockSize,
                  (First(c, g) + 1 + (c.txtLen \div BlockSize)) % CounterMod)
<1>1. CASE c.state = Text
  <2>1. OpenText(c) = c
    BY <1>1 DEF OpenText, Text
  <2> QED
    BY <1>1, <2>1 DEF GInv, Phases, Counts, Text
<1>2. CASE c.state = "GcmAADprocessing"
  <2> DEFINE d == NextCounterBlock(c)
             o == IF c.bufLen > 0 THEN Mul(d.ghash) ELSE d.ghash
             n == First(c, g)
  <2>1. c.txtLen = 0 /\ n = c.counter.n /\ n \in 0..CounterMod - 1
    BY <1>2 DEF GInv, Phases
  <2>2. Counts(c, c.state, c.ivLen, c.aadLen, 0, c.bufLen, n)
    BY <2>1 DEF GInv, Counts
  <2>3. Counts(d, c.state, c.ivLen, c.aadLen, 0, c.bufLen, (n + 1) % CounterMod)
    <3> HIDE DEF n
    <3> QED BY <2>1, <2>2, NextBlockCounts
  <2>4. OpenText(c) = [d EXCEPT !.ghash = o, !.state = Text, !.txtLen = 0, !.bufLen = 0]
    BY <1>2 DEF OpenText, Text
  <2>5. 0 % BlockSize = 0 /\ 0 \div BlockSize = 0
    <3>1. 0 = BlockSize * 0 + 0 /\ 0 \in 0..BlockSize - 1
      BY BlockConstants
    <3> QED BY <3>1, OnlyOnePlace
  <2>6. n + 1 + (c.txtLen \div BlockSize) = n + 1
    <3> HIDE DEF n
    <3> QED BY <2>1, <2>5, GCMConstants
  <2> HIDE DEF d, o, n
  <2>7. Counts(OpenText(c), Text, c.ivLen, c.aadLen, 0, 0, (n + 1) % CounterMod)
    BY <2>3, <2>4 DEF Counts, IsContext
  <2> QED
    BY <2>1, <2>5, <2>6, <2>7 DEF n
<1> QED
  BY <1>1, <1>2

\* Bytes of one block.
LEMMA PartialTextCounts ==
    ASSUME NEW t, NEW iv, NEW aad, NEW txt \in Nat, NEW buf \in Nat, NEW n, NEW src, NEW dir,
           Counts(t.c, Text, iv, aad, txt, buf, n)
    PROVE  Counts(PartialText(t, src, dir).c, Text, iv, aad, txt + Len(src),
                  buf + Len(src), n)
BY DEF PartialText, Counts, IsContext

\* Another hash and an empty open block.
LEMMA ClosedCounts ==
    ASSUME NEW c, NEW o, NEW st, NEW iv, NEW aad, NEW txt, NEW buf, NEW n,
           Counts(c, st, iv, aad, txt, buf, n)
    PROVE  Counts([c EXCEPT !.ghash = o, !.bufLen = 0], st, iv, aad, txt, 0, n)
BY DEF Counts, IsContext

\* A block that has become full is closed.
LEMMA CloseFullBlockCounts ==
    ASSUME NEW t, \E e, s : t = [c |-> e, dst |-> s],
           NEW iv, NEW aad, NEW txt, NEW buf \in 0..BlockSize, NEW n \in 0..CounterMod - 1,
           Counts(t.c, Text, iv, aad, txt, buf, n)
    PROVE  Counts(CloseFullBlock(t).c, Text, iv, aad, txt,
                  IF buf = BlockSize THEN 0 ELSE buf,
                  IF buf = BlockSize THEN (n + 1) % CounterMod ELSE n)
<1>1. CASE buf = BlockSize
  <2> DEFINE o == Mul(t.c.ghash)
             d == [t.c EXCEPT !.ghash = o, !.bufLen = 0]
  <2>1. CloseFullBlock(t) = [t EXCEPT !.c = NextCounterBlock(d)]
    <3>1. ~(t.c.bufLen < BlockSize)
      BY <1>1, BlockConstants DEF Counts
    <3> QED BY <3>1 DEF CloseFullBlock
  <2> HIDE DEF o
  <2>2. Counts(d, Text, iv, aad, txt, 0, n)
    BY ClosedCounts
  <2> HIDE DEF d
  <2>3. CloseFullBlock(t).c = NextCounterBlock(d)
    BY <2>1
  <2> QED
    BY <1>1, <2>2, <2>3, NextBlockCounts
<1>2. CASE buf # BlockSize
  <2>1. CloseFullBlock(t) = t
    BY <1>2, BlockConstants DEF CloseFullBlock, Counts
  <2> QED
    BY <1>2, <2>1
<1> QED
  BY <1>1, <1>2

\* Whole blocks move the counter word once each.
LEMMA WholeTextCounts ==
    ASSUME NEW t, NEW T, NEW src \in Seq(T), NEW dir, NEW q \in Nat, Len(src) = q * BlockSize,
           NEW iv, NEW aad, NEW txt, NEW buf, NEW n,
           Counts(t.c, Text, iv, aad, txt, buf, n)
    PROVE  Counts(WholeText(t, src, dir).c, Text, iv, aad, txt + q * BlockSize, buf,
                  (n + q) % CounterMod)
<1>1. Len(src) \div BlockSize = q
  <2>1. Len(src) = BlockSize * q + 0 /\ 0 \in 0..BlockSize - 1
    BY BlockConstants
  <2> QED
    BY <2>1, OnlyOnePlace
<1> DEFINE z   == Len(src) \div BlockSize
           at  == [j \in 0..z |-> [t.c.counter EXCEPT !.n = (@ + j) % CounterMod]]
           ks  == [j \in 0..z |-> IF j = 0 THEN t.c.ecounter ELSE E(at[j])]
           dst == [i \in DOMAIN src |->
                     Xor(src[i], ks[(i - 1) \div BlockSize][((i - 1) % BlockSize) + 1])]
           h   == Auth(t.c.ghash, Authenticated(src, dst, dir))
<1>2. WholeText(t, src, dir).c =
        [t.c EXCEPT !.ghash = h, !.counter = at[z], !.ecounter = ks[z], !.txtLen = @ + Len(src)]
  BY DEF WholeText
<1>3. at[z] = [x \in {"iv", "n"} |-> at[z][x]] /\ at[z].n = (n + z) % CounterMod
  <2>1. at[z] = [t.c.counter EXCEPT !.n = (@ + z) % CounterMod]
    <3>1. z \in Nat
      BY <1>1
    <3> HIDE DEF z
    <3> QED BY <3>1
  <2> HIDE DEF at
  <2> QED
    BY <2>1 DEF Counts, IsContext
<1> HIDE DEF at, ks, dst, h
<1> QED
  BY <1>1, <1>2, <1>3 DEF Counts, IsContext

\* How often the counter word moves in a call of len bytes after n bytes: for
\* the open block if it becomes full, and for every whole one.
Moves(n, len) ==
    (IF n % BlockSize = 0 \/ StaysOpen(n, len) THEN 0 ELSE 1) + WholeIn(n, len)

\* Bytes for the open block, its closing, whole blocks and the rest.
LEMMA ProcessCounts ==
    ASSUME NEW c0, NEW T, NEW src \in Seq(T), NEW dir, NEW iv, NEW aad, NEW txt \in Nat,
           NEW n \in 0..CounterMod - 1,
           Counts(OpenText(c0), Text, iv, aad, txt, txt % BlockSize, n)
    PROVE  Counts(ProcessText(c0, src, dir).c, Text, iv, aad, txt + Len(src),
                  (txt + Len(src)) % BlockSize, (n + Moves(txt, Len(src))) % CounterMod)
<1> DEFINE c   == OpenText(c0)
           len == Len(src)
           b   == txt % BlockSize
           loc == ToOpenBlock(txt, len)
           q   == WholeIn(txt, len)
           m   == q * BlockSize
           r   == RestOf(txt, len)
           t   == [c |-> c, dst |-> <<>>]
           t0  == PartialText(t, Take(src, loc), dir)
           t1  == CloseFullBlock(t0)
           t2  == WholeText(t1, Take(Drop(src, loc), m), dir)
           t3  == PartialText(t2, Drop(src, loc + m), dir)
           b1  == IF b + loc = BlockSize THEN 0 ELSE b + loc
           k   == IF b + loc = BlockSize THEN 1 ELSE 0
           n1  == IF b + loc = BlockSize THEN (n + 1) % CounterMod ELSE n
<1>1. /\ len \in Nat /\ loc \in 0..len /\ q \in Nat /\ m \in 0..len - loc
      /\ r \in Nat /\ r = len - loc - m /\ b \in 0..BlockSize - 1
  <2>1. len \in Nat
    OBVIOUS
  <2>2. loc \in 0..len /\ q \in Nat /\ m \in 0..len - loc /\ r \in Nat
    BY <2>1, Cutting, BlockConstants
  <2>3. r = len - loc - m
    BY DEF RestOf
  <2>4. b \in 0..BlockSize - 1
    BY BlocksAndRest
  <2> QED
    BY <2>1, <2>2, <2>3, <2>4
<1>2. c.bufLen = b
  BY DEF Counts
<1>3. ProcessText(c0, src, dir) = t3
  BY <1>2 DEF ProcessText, ToOpenBlock, WholeIn
<1>4. /\ Take(src, loc) \in Seq(T) /\ Len(Take(src, loc)) = loc
      /\ Drop(src, loc) \in Seq(T) /\ Len(Drop(src, loc)) = len - loc
      /\ Drop(src, loc + m) \in Seq(T) /\ Len(Drop(src, loc + m)) = r
  <2> HIDE DEF loc, m, r
  <2>1. /\ Take(src, loc) \in Seq(T) /\ Len(Take(src, loc)) = loc
        /\ Drop(src, loc) \in Seq(T) /\ Len(Drop(src, loc)) = len - loc
    BY <1>1, TakeDropLengths
  <2>2. loc + m \in 0..len /\ len - (loc + m) = r
    <3> HIDE DEF len
    <3> QED BY <1>1
  <2>3. Drop(src, loc + m) \in Seq(T) /\ Len(Drop(src, loc + m)) = len - (loc + m)
    BY <2>2, TakeDropLengths
  <2> QED
    BY <2>1, <2>2, <2>3
<1>5. Take(Drop(src, loc), m) \in Seq(T) /\ Len(Take(Drop(src, loc), m)) = q * BlockSize
  <2> DEFINE v == Drop(src, loc)
  <2>1. v \in Seq(T) /\ Len(v) = len - loc /\ m \in 0..len - loc
    BY <1>1, <1>4
  <2> HIDE DEF v, m, len, loc
  <2>2. Take(v, m) \in Seq(T) /\ Len(Take(v, m)) = m
    BY <2>1, TakeDropLengths
  <2> QED
    BY <2>2 DEF v, m
\* Where the open block ends up, and how often the counter moves.
<1>6. /\ b + loc \in 0..BlockSize
      /\ b1 + r = (txt + len) % BlockSize
      /\ k + q = Moves(txt, len)
  <2>1. CASE StaysOpen(txt, len)
    <3>1. loc = len /\ q = 0 /\ r = 0 /\ (txt + len) % BlockSize = b + len
      BY <1>1, <2>1, Cutting
    <3>2. b # 0 /\ b + len < BlockSize
      BY <2>1 DEF StaysOpen
    <3>3. Moves(txt, len) = 0
      BY <2>1, <3>1 DEF Moves
    <3> HIDE DEF b, loc, q, r, len
    <3> QED
      BY <1>1, <3>1, <3>2, <3>3, BlockConstants
  <2>2. CASE ~StaysOpen(txt, len)
    <3>1. (txt + len) % BlockSize = r /\ (b # 0 => loc = BlockSize - b)
      BY <1>1, <2>2, Cutting
    <3>2. b = 0 => loc = 0
      BY DEF ToOpenBlock
    <3>3. Moves(txt, len) = (IF b = 0 THEN 0 ELSE 1) + q
      BY <2>2 DEF Moves
    <3> HIDE DEF b, loc, q, r, len
    <3>4. b + loc = BlockSize <=> b # 0
      BY <1>1, <3>1, <3>2, BlockConstants
    <3> QED
      BY <1>1, <3>1, <3>2, <3>3, <3>4, BlockConstants
  <2> QED
    BY <2>1, <2>2
<1>7. (n1 + q) % CounterMod = (n + Moves(txt, len)) % CounterMod
  <2>1. CASE b + loc = BlockSize
    <3>1. n1 = (n + 1) % CounterMod /\ k = 1
      BY <2>1
    <3> HIDE DEF n1, k, q
    <3>2. (((n + 1) % CounterMod) + q) % CounterMod = (n + 1 + q) % CounterMod
      <4>1. n + 1 \in Nat /\ CounterMod \in Nat \ {0} /\ q \in Nat
        BY <1>1, GCMConstants
      <4> QED BY <4>1, AddAfterRest
    <3>3. n + 1 + q = n + (k + q)
      BY <1>1, <3>1, GCMConstants
    <3> QED
      BY <1>6, <3>1, <3>2, <3>3
  <2>2. CASE b + loc # BlockSize
    <3>1. n1 = n /\ k = 0
      BY <2>2
    <3> HIDE DEF n1, k, q
    <3>2. q = k + q
      BY <1>1, <3>1
    <3> QED
      BY <1>6, <3>1, <3>2
  <2> QED
    BY <2>1, <2>2
<1>8. Counts(t.c, Text, iv, aad, txt, b, n)
  OBVIOUS
<1> HIDE DEF c, loc, q, r, b, n1, t, t1, t2, t3, m
<1>9. /\ Counts(t0.c, Text, iv, aad, txt + loc, b + loc, n)
      /\ \E d, s : t0 = [c |-> d, dst |-> s]
  <2> DEFINE s0 == Take(src, loc)
  <2>1. Len(s0) = loc
    BY <1>4
  <2> HIDE DEF s0
  <2>2. Counts(PartialText(t, s0, dir).c, Text, iv, aad, txt + Len(s0), b + Len(s0), n)
    <3>1. b \in Nat
      BY <1>1
    <3> QED BY <1>8, <3>1, PartialTextCounts
  <2>3. \E d, s : t0 = [c |-> d, dst |-> s]
    BY DEF t0, PartialText
  <2> QED
    BY <2>1, <2>2, <2>3 DEF s0
<1> HIDE DEF t0
<1>10. Counts(t1.c, Text, iv, aad, txt + loc, b1, n1)
  BY <1>6, <1>9, CloseFullBlockCounts DEF t1, n1
<1> HIDE DEF b1
<1>11. Counts(t2.c, Text, iv, aad, txt + loc + q * BlockSize, b1, (n1 + q) % CounterMod)
  BY <1>1, <1>5, <1>10, WholeTextCounts DEF t2
<1>12. Counts(t3.c, Text, iv, aad, txt + loc + q * BlockSize + r, b1 + r,
              (n1 + q) % CounterMod)
  <2> DEFINE s1 == Drop(src, loc + m)
             p1 == txt + loc + q * BlockSize
             n2 == (n1 + q) % CounterMod
  <2>1. Len(s1) = r
    BY <1>4
  <2>2. p1 \in Nat /\ b1 \in Nat
    <3>1. q * BlockSize \in Nat
      BY <1>1, BlockConstants
    <3>2. b1 \in Nat
      BY <1>6, BlockConstants DEF b1
    <3>3. loc \in Nat
      BY <1>1
    <3> QED BY <3>1, <3>2, <3>3
  <2> HIDE DEF s1, p1, n2
  <2>3. Counts(t2.c, Text, iv, aad, p1, b1, n2)
    BY <1>11 DEF p1, n2
  <2>4. Counts(PartialText(t2, s1, dir).c, Text, iv, aad, p1 + Len(s1), b1 + Len(s1), n2)
    BY <2>2, <2>3, PartialTextCounts
  <2> QED
    BY <2>1, <2>4 DEF s1, p1, n2, t3
<1>13. txt + loc + q * BlockSize + r = txt + len
  <2>1. q * BlockSize = m
    BY DEF m
  <2> QED
    BY <1>1, <2>1
<1> QED
  BY <1>3, <1>6, <1>7, <1>12, <1>13

WithText(g, n, dir) == [g EXCEPT !.text = @ \o [i \in 1..n |-> dir]]

\* ippsAES_GCMEncrypt and ippsAES_GCMDecrypt.
LEMMA TextKeeps ==
    ASSUME NEW c, NEW g, GInv(c, g), NEW n \in Nat, NEW dir \in {"enc", "dec"},
           c.state \in {"GcmAADprocessing", "GcmTXTprocessing"}, HasRoom(c, n)
    PROVE  GInv(ProcessText(c, Piece(dir, g.id, Len(g.text), n), dir).c,
                WithText(g, n, dir))
<1> DEFINE src  == Piece(dir, g.id, Len(g.text), n)
           d    == ProcessText(c, src, dir).c
           more == [i \in 1..n |-> dir]
           h    == [g EXCEPT !.text = @ \o more]
           txt  == c.txtLen
           f    == First(c, g)
           a    == txt \div BlockSize
           z    == (txt + n) \div BlockSize
           w    == (f + 1 + a) % CounterMod
           y    == Moves(txt, n)
<1>1. PICK T : src \in Seq(T) /\ Len(src) = n
  BY PieceLength
<1>2. /\ txt \in Nat /\ Len(g.text) = txt /\ g.text \in Seq({"enc", "dec"})
      /\ f \in Nat /\ g.begun
  BY DEF GInv, IsGiven, First, Phases
<1>3. a \in Nat /\ z \in Nat /\ y \in Nat /\ z = a + y
  <2> HIDE DEF txt
  <2>1. a \in Nat /\ z \in Nat
    <3>1. txt + n \in Nat
      BY <1>2
    <3> QED BY <1>2, <3>1, BlocksAndRest
  <2>2. WholeIn(txt, n) \in Nat
    BY <1>2, Cutting
  <2>3. CASE StaysOpen(txt, n)
    <3>1. WholeIn(txt, n) = 0 /\ z = a
      BY <1>2, <2>3, Cutting
    <3>2. y = 0
      BY <2>3, <3>1 DEF Moves
    <3> HIDE DEF a, y, z
    <3> QED
      BY <2>1, <3>1, <3>2
  <2>4. CASE ~StaysOpen(txt, n)
    <3>1. z = a + WholeIn(txt, n) + (IF txt % BlockSize = 0 THEN 0 ELSE 1)
      BY <1>2, <2>4, Cutting
    <3>2. y = (IF txt % BlockSize = 0 THEN 0 ELSE 1) + WholeIn(txt, n)
      BY <2>4 DEF Moves
    <3> HIDE DEF a, y, z
    <3> QED
      BY <2>1, <2>2, <3>1, <3>2
  <2> QED
    BY <2>3, <2>4
<1>4. w \in 0..CounterMod - 1
  <2>1. f + 1 + a \in Nat /\ CounterMod \in Nat \ {0}
    BY <1>2, <1>3, GCMConstants
  <2> QED
    BY <2>1, QuotientAndRest
<1>5. Counts(OpenText(c), Text, c.ivLen, c.aadLen, txt, txt % BlockSize, w)
  BY OpenTextCounts DEF Text
<1>6. Counts(d, Text, c.ivLen, c.aadLen, txt + n, (txt + n) % BlockSize, (w + y) % CounterMod)
  <2> HIDE DEF w, txt, src
  <2> QED
    BY <1>1, <1>2, <1>4, <1>5, ProcessCounts
<1>7. (w + y) % CounterMod = (f + 1 + z) % CounterMod
  <2> HIDE DEF a, y, z, f
  <2>1. f + 1 + a \in Nat /\ CounterMod \in Nat \ {0}
    BY <1>2, <1>3, GCMConstants
  <2>2. (w + y) % CounterMod = (f + 1 + a + y) % CounterMod
    BY <1>3, <2>1, AddAfterRest
  <2>3. f + 1 + a + y = f + 1 + z
    BY <1>2, <1>3
  <2> QED
    BY <2>2, <2>3
<1>8. (f + 1 + z) % CounterMod \in 0..CounterMod - 1 /\ (txt + n) % BlockSize \in Nat
  <2>1. f + 1 + z \in Nat /\ CounterMod \in Nat \ {0} /\ txt + n \in Nat
    BY <1>2, <1>3, GCMConstants
  <2> HIDE DEF f, z, txt
  <2>2. (f + 1 + z) % CounterMod \in 0..CounterMod - 1
    BY <2>1, QuotientAndRest
  <2>3. (txt + n) % BlockSize \in 0..BlockSize - 1
    BY <2>1, BlocksAndRest
  <2> QED
    BY <2>2, <2>3
<1>9. g.text \o more \in Seq({"enc", "dec"}) /\ Len(g.text \o more) = txt + n
  <2>1. more \in Seq({"enc", "dec"}) /\ Len(more) = n
    BY Repeated
  <2> HIDE DEF more, txt
  <2>2. /\ g.text \o more \in Seq({"enc", "dec"})
        /\ Len(g.text \o more) = Len(g.text) + Len(more)
    BY <1>2, <2>1, ConcatProperties
  <2> QED
    BY <1>2, <2>1, <2>2
<1>10. /\ IsGiven(h) /\ h.text = g.text \o more /\ h.begun
       /\ h.iv = g.iv /\ h.aad = g.aad /\ h.low = g.low
  <2> DEFINE all == g.text \o more
  <2>1. h = [g EXCEPT !.text = all]
    OBVIOUS
  <2>2. all \in Seq({"enc", "dec"})
    BY <1>9
  <2> HIDE DEF h, all
  <2>3. /\ h = [id |-> h.id, iv |-> h.iv, aad |-> h.aad, text |-> h.text, low |-> h.low,
                begun |-> h.begun]
        /\ h.text = all /\ h.begun = g.begun
        /\ h.iv = g.iv /\ h.aad = g.aad /\ h.low = g.low
    BY <2>1 DEF GInv, IsGiven
  <2> QED
    BY <1>2, <2>2, <2>3 DEF GInv, IsGiven, all
<1>11. txt + n <= MaxTxtLen
  <2>1. txt <= MaxTxtLen - n
    BY DEF HasRoom
  <2> QED
    BY <1>2, <2>1, RoomForNothing
<1> HIDE DEF d, h, f, z, txt
<1>12. WithText(g, n, dir) = h
  BY DEF WithText, h, more
<1>13. First(d, h) = f
  BY <1>6, <1>10 DEF First, Counts, f
<1> QED
  BY <1>6, <1>7, <1>8, <1>9, <1>10, <1>11, <1>12, <1>13
  DEF GInv, Phases, Counts, Text, d, h, src, more, txt, z

-----------------------------------------------------------------------------

GCMInv == GInv(gcm, gcmGiven)

\* The words a hashed IV may end in are words.
LEMMA LowWordsAreWords == \A p : LowWords(p) \subseteq 0..CounterMod - 1
BY GCMConstants DEF LowWords

\* ippsAES_GCMStart keeps the invariant wherever it stops.
LEMMA StartKeeps ==
    ASSUME GCMInv, NEW i \in StartLens, NEW a \in StartLens, GCMStart(i, a)
    PROVE  GCMInv'
<1> DEFINE p1 == Afresh
           p2 == WithIV(p1, i)
           p3(low) == WithAAD(p2, a, low)
<1>1. GInv(p1.c, p1.g) /\ p1 = [c |-> p1.c, g |-> p1.g]
  BY AfterReset DEF Afresh
<1>2. CASE ~AcceptsIV(p1.c, i)
  <2>1. gcm' = p1.c /\ gcmGiven' = p1.g
    BY <1>2 DEF GCMStart, Becomes
  <2> QED
    BY <1>1, <2>1 DEF GCMInv
<1>3. CASE AcceptsIV(p1.c, i)
  <2>1. i \in Nat
    BY <1>3, GCMConstants DEF AcceptsIV
  <2>2. GInv(p2.c, p2.g)
    <3> HIDE DEF p1
    <3>1. GInv(WithIV([c |-> p1.c, g |-> p1.g], i).c, WithIV([c |-> p1.c, g |-> p1.g], i).g)
      BY <1>1, <1>3, <2>1, ProcessIVKeeps
    <3> QED
      BY <1>1, <3>1
  <2>3. p2 = [c |-> p2.c, g |-> p2.g]
    BY DEF WithIV
  <2>4. CASE ~AcceptsAAD(p2.c, a)
    <3>1. gcm' = p2.c /\ gcmGiven' = p2.g
      BY <1>3, <2>4 DEF GCMStart, Becomes
    <3> QED
      BY <2>2, <3>1 DEF GCMInv
  <2>5. CASE AcceptsAAD(p2.c, a)
    <3>1. a \in Nat
      BY <2>5, GCMConstants DEF AcceptsAAD
    <3>2. PICK low \in LowWords(p2) : gcm' = p3(low).c /\ gcmGiven' = p3(low).g
      BY <1>3, <2>5 DEF GCMStart, Becomes
    <3> HIDE DEF p2
    <3>3. low \in 0..CounterMod - 1
      BY LowWordsAreWords
    <3>4. GInv(WithAAD([c |-> p2.c, g |-> p2.g], a, low).c,
               WithAAD([c |-> p2.c, g |-> p2.g], a, low).g)
      BY <2>2, <2>5, <3>1, <3>3, ProcessAADKeeps
    <3> QED
      BY <2>3, <3>2, <3>4 DEF GCMInv
  <2> QED
    BY <2>4, <2>5
<1> QED
  BY <1>2, <1>3

\* The invariant tells what GCMCountersAgree tells.
LEMMA InvAgrees == GCMInv => GCMCountersAgree
<1> SUFFICES ASSUME GCMInv PROVE GCMCountersAgree
  OBVIOUS
<1>1. 0 % BlockSize = 0
  BY BlockConstants
<1>2. gcm.bufLen = PhaseLen % BlockSize
  BY <1>1 DEF GCMInv, GInv, Phases, PhaseLen
<1>3. First(gcm, gcmGiven) = FirstWord
  BY DEF First, FirstWord
<1> QED
  BY <1>2, <1>3 DEF GCMInv, GInv, Phases, GCMCountersAgree

\* However a message is cut into calls, for every block size and width of the
\* counter: the place in the open block is the length of the phase within a
\* block, all lengths are those given, no more text is taken than there are
\* counter words for, and the counter has moved once per block.
THEOREM GCMCountersAlwaysAgree == GCMSpec => []GCMCountersAgree
<1>1. GCMInit => GCMInv
  BY AfterReset DEF GCMInit, GCMInv
<1>2. GCMInv /\ [GCMNext]_gcmVars => GCMInv'
  <2> SUFFICES ASSUME GCMInv, [GCMNext]_gcmVars PROVE GCMInv'
    OBVIOUS
  <2>1. CASE GCMResetCall
    BY <2>1, AfterReset DEF GCMResetCall, Becomes, Afresh, GCMInv
  <2>2. ASSUME NEW n \in PieceLens, GCMProcessIV(n) PROVE GCMInv'
    <3>1. n \in Nat /\ AcceptsIV(gcm, n)
      BY <2>2, BlockConstants DEF GCMProcessIV, AcceptsIV
    <3> QED
      BY <2>2, <3>1, ProcessIVKeeps DEF GCMProcessIV, Becomes, Here, GCMInv
  <2>3. ASSUME NEW n \in PieceLens, GCMProcessAAD(n) PROVE GCMInv'
    <3>1. n \in Nat /\ AcceptsAAD(gcm, n)
      BY <2>3, BlockConstants DEF GCMProcessAAD, AcceptsAAD
    <3>2. PICK low \in LowWords(Here) : Becomes(WithAAD(Here, n, low))
      BY <2>3 DEF GCMProcessAAD
    <3>3. low \in 0..CounterMod - 1
      BY LowWordsAreWords
    <3> QED
      BY <3>1, <3>2, <3>3, ProcessAADKeeps DEF Becomes, Here, GCMInv
  <2>4. ASSUME NEW i \in StartLens, NEW a \in StartLens, GCMStart(i, a) PROVE GCMInv'
    BY <2>4, StartKeeps
  <2>5. ASSUME NEW n \in PieceLens, NEW dir \in {"enc", "dec"}, GCMText(n, dir)
        PROVE  GCMInv'
    <3>1. n \in Nat /\ HasRoom(gcm, n) /\ gcm.state \in {"GcmAADprocessing", "GcmTXTprocessing"}
      BY <2>5, BlockConstants DEF GCMText
    <3>2. /\ gcm' = ProcessText(gcm, Piece(dir, gcmGiven.id, Len(gcmGiven.text), n), dir).c
          /\ gcmGiven' = WithText(gcmGiven, n, dir)
      BY <2>5 DEF GCMText, WithText
    <3> QED
      <4>1. GInv(ProcessText(gcm, Piece(dir, gcmGiven.id, Len(gcmGiven.text), n), dir).c,
                 WithText(gcmGiven, n, dir))
        BY <3>1, TextKeeps DEF GCMInv
      <4> QED BY <3>2, <4>1 DEF GCMInv
  <2>6. CASE GCMGetTag
    BY <2>6 DEF GCMGetTag, GCMInv
  <2>7. CASE UNCHANGED gcmVars
    BY <2>7 DEF gcmVars, GCMInv
  <2> QED
    BY <2>1, <2>2, <2>3, <2>4, <2>5, <2>6, <2>7 DEF GCMNext
<1> QED
  BY <1>1, <1>2, InvAgrees, PTL DEF GCMSpec

-----------------------------------------------------------------------------
(* The GHASH register.  It has absorbed the blocks of base and m; the bytes *)
(* of r are XORed on top of zeros.                                          *)

Open(r) == CopyAt(Zeros(BlockSize), 0, r)

Absorbed(T, reg, base, m, r) ==
    /\ base \in Seq(Block(T \cup {{}}))
    /\ m \in Seq(T) /\ Aligned(m)
    /\ r \in Seq(T) /\ Len(r) \in 0..BlockSize
    /\ reg = [chain |-> Join(base, WholeBlocks(m)), open |-> Open(r)]

\* The open block: zeros only as long as no byte is in it.
LEMMA OpenBytes ==
    ASSUME NEW T, NEW r \in Seq(T), Len(r) \in 0..BlockSize
    PROVE  /\ Open(r) \in Block(T \cup {{}})
           /\ \A i \in 1..BlockSize : Open(r)[i] = IF i <= Len(r) THEN r[i] ELSE {}
           /\ Len(r) = 0 => Open(r) = Zeros(BlockSize)
           /\ Len(r) = BlockSize => Open(r) = r
           /\ {} \notin T /\ Len(r) # 0 => Open(r) # Zeros(BlockSize)
<1>1. /\ BlockSize \in Nat \ {0} /\ Len(r) \in Nat /\ DOMAIN r = 1..Len(r)
      /\ \A i \in 1..Len(r) : r[i] \in T
  BY BlockConstants
<1>2. Open(r) = [i \in 1..BlockSize |-> IF i - 0 \in DOMAIN r THEN r[i - 0] ELSE {}]
  BY DEF Open, CopyAt, Zeros
<1>3. \A i \in 1..BlockSize : Open(r)[i] = IF i <= Len(r) THEN r[i] ELSE {}
  BY <1>1, <1>2
<1>4. Open(r) \in Block(T \cup {{}})
  BY <1>1, <1>2 DEF Block
<1>5. Zeros(BlockSize) \in Block(T \cup {{}}) /\ \A i \in 1..BlockSize : Zeros(BlockSize)[i] = {}
  BY DEF Zeros, Block
<1>6. Len(r) = 0 => Open(r) = Zeros(BlockSize)
  <2> SUFFICES ASSUME Len(r) = 0 PROVE Open(r) = Zeros(BlockSize)
    OBVIOUS
  <2>1. \A i \in 1..BlockSize : Open(r)[i] = Zeros(BlockSize)[i]
    <3> TAKE i \in 1..BlockSize
    <3>1. Open(r)[i] = {}
      BY <1>1, <1>3
    <3> QED BY <1>5, <3>1
  <2> QED BY <1>4, <1>5, <2>1, SameBlock
<1>7. Len(r) = BlockSize => Open(r) = r
  <2> SUFFICES ASSUME Len(r) = BlockSize PROVE Open(r) = r
    OBVIOUS
  <2>1. r \in Block(T \cup {{}})
    BY <1>1 DEF Block
  <2>2. \A i \in 1..BlockSize : Open(r)[i] = r[i]
    BY <1>1, <1>3
  <2> QED BY <1>4, <2>1, <2>2, SameBlock
<1>8. {} \notin T /\ Len(r) # 0 => Open(r) # Zeros(BlockSize)
  <2> SUFFICES ASSUME {} \notin T, Len(r) # 0 PROVE Open(r)[1] # Zeros(BlockSize)[1]
    OBVIOUS
  <2>1. 1 \in 1..BlockSize /\ 1 <= Len(r) /\ 1 \in 1..Len(r)
    BY <1>1
  <2>2. Open(r)[1] = r[1] /\ Zeros(BlockSize)[1] = {}
    BY <1>3, <1>5, <2>1
  <2>3. r[1] \in T
    BY <1>1, <2>1
  <2> QED BY <2>2, <2>3
<1> QED
  BY <1>3, <1>4, <1>6, <1>7, <1>8

\* XORing onto zeros is copying.
LEMMA XorBehind ==
    ASSUME NEW T, NEW r \in Seq(T), NEW s \in Seq(T), Len(r) + Len(s) <= BlockSize
    PROVE  XorAt(Open(r), Len(r), s) = Open(r \o s)
<1>1. /\ BlockSize \in Nat \ {0} /\ Len(r) \in Nat /\ Len(s) \in Nat
      /\ DOMAIN s = 1..Len(s)
  BY BlockConstants
<1>2. /\ Open(r) \in Block(T \cup {{}})
      /\ \A i \in 1..BlockSize : Open(r)[i] = IF i <= Len(r) THEN r[i] ELSE {}
  <2>1. Len(r) \in 0..BlockSize
    BY <1>1
  <2> QED BY <2>1, OpenBytes
<1>3. DOMAIN Open(r) = 1..BlockSize
  BY <1>2 DEF Block
<1>4. ASSUME NEW i \in 1..BlockSize, i - Len(r) \in DOMAIN s
      PROVE  Xor(Open(r)[i], s[i - Len(r)]) = s[i - Len(r)]
  <2>1. Open(r)[i] = {}
    BY <1>1, <1>2, <1>4
  <2>2. \A x : Xor({}, x) = x
    BY DEF Xor
  <2> QED BY <2>1, <2>2
<1>5. XorAt(Open(r), Len(r), s) = CopyAt(Open(r), Len(r), s)
  BY <1>3, <1>4 DEF XorAt, CopyAt
<1>6. CopyAt(Open(r), Len(r), s) = Open(r \o s)
  <2>1. DOMAIN Zeros(BlockSize) = 1..BlockSize
    BY DEF Zeros
  <2> QED BY <1>1, <2>1, CopyTwice DEF Open
<1> QED
  BY <1>5, <1>6

\* A block on top of zeros.
LEMMA XorOnZeros ==
    ASSUME NEW T, NEW b \in Block(T)
    PROVE  XorAt(Zeros(BlockSize), 0, b) = b
<1>1. DOMAIN b = 1..BlockSize /\ BlockSize \in Nat
  BY BlockConstants DEF Block
<1>2. XorAt(Zeros(BlockSize), 0, b) = [i \in 1..BlockSize |-> Xor({}, b[i])]
  BY <1>1 DEF XorAt, Zeros
<1>3. \A x : Xor({}, x) = x
  BY DEF Xor
<1>4. b = [i \in 1..BlockSize |-> b[i]]
  BY DEF Block
<1> QED
  BY <1>2, <1>3, <1>4

\* XorBlock of bytes into the open block.
LEMMA AbsorbBytes ==
    ASSUME NEW T, NEW reg, NEW base, NEW m, NEW r, Absorbed(T, reg, base, m, r),
           NEW s \in Seq(T), Len(r) + Len(s) <= BlockSize
    PROVE  Absorbed(T, XorReg(reg, Len(r), s), base, m, Join(r, s))
<1>1. r \in Seq(T) /\ BlockSize \in Nat
  BY BlockConstants DEF Absorbed
<1>2. Join(r, s) \in Seq(T) /\ Len(Join(r, s)) \in 0..BlockSize
  <2>1. Join(r, s) \in Seq(T) /\ Len(Join(r, s)) = Len(r) + Len(s)
    BY <1>1, JoinLengths
  <2>2. Len(r) \in Nat /\ Len(s) \in Nat
    BY <1>1
  <2> QED BY <1>1, <2>1, <2>2
<1>3. XorAt(Open(r), Len(r), s) = Open(Join(r, s))
  BY <1>1, XorBehind DEF Join
<1> DEFINE x == Join(base, WholeBlocks(m))
           o == Open(r)
           p == XorAt(o, Len(r), s)
<1>4. XorReg(reg, Len(r), s) = [chain |-> x, open |-> p]
  <2>1. reg = [chain |-> x, open |-> o]
    BY DEF Absorbed
  <2> HIDE DEF x, o
  <2> QED BY <2>1 DEF XorReg
<1> QED
  BY <1>2, <1>3, <1>4 DEF Absorbed

\* A register with bytes in its open block is not the zero register.
LEMMA MulBytes ==
    ASSUME NEW T, {} \notin T, NEW x, NEW r \in Seq(T), Len(r) \in 1..BlockSize
    PROVE  Mul([chain |-> x, open |-> Open(r)])
              = [chain |-> Append(x, Open(r)), open |-> Zeros(BlockSize)]
<1>1. Open(r) # Zeros(BlockSize)
  <2>1. Len(r) \in 0..BlockSize /\ Len(r) # 0
    OBVIOUS
  <2> QED BY <2>1, OpenBytes
<1> DEFINE o == Open(r)
           z == Zeros(BlockSize)
<1>2. o # z /\ ZeroReg = [chain |-> <<>>, open |-> z]
  BY <1>1 DEF ZeroReg
<1> HIDE DEF o, z
<1>3. [chain |-> x, open |-> o] # ZeroReg
  <2>1. [chain |-> x, open |-> o].open # ZeroReg.open
    BY <1>2
  <2> QED BY <2>1
<1>4. Mul([chain |-> x, open |-> o]) = [chain |-> Append(x, o), open |-> z]
  BY <1>3 DEF Mul, z
<1> QED
  BY <1>4 DEF o, z

\* Empty, the register is [chain, zeros].
LEMMA AbsorbedNothing ==
    ASSUME NEW T, NEW base \in Seq(Block(T \cup {{}})), NEW m \in Seq(T), Aligned(m)
    PROVE  Absorbed(T, [chain |-> Join(base, WholeBlocks(m)), open |-> Zeros(BlockSize)],
                    base, m, <<>>)
<1>1. <<>> \in Seq(T) /\ Len(<<>>) = 0 /\ 0 \in 0..BlockSize
  BY EmptySeq, BlockConstants
<1>2. Open(<<>>) = Zeros(BlockSize)
  BY <1>1, OpenBytes
<1> QED
  BY <1>1, <1>2 DEF Absorbed

\* The chain of a register is a sequence of blocks.
LEMMA AbsorbedChain ==
    ASSUME NEW T, NEW base \in Seq(Block(T \cup {{}})), NEW m \in Seq(T)
    PROVE  /\ WholeBlocks(m) \in Seq(Block(T \cup {{}}))
           /\ Join(base, WholeBlocks(m)) \in Seq(Block(T \cup {{}}))
<1>1. WholeBlocks(m) \in Seq(Block(T))
  BY WholeBlocksBytes
<1>2. Block(T) \subseteq Block(T \cup {{}})
  BY DEF Block
<1>3. WholeBlocks(m) \in Seq(Block(T \cup {{}}))
  BY <1>1, <1>2, LargerSeq
<1> QED
  BY <1>3, JoinLengths

\* A full open block is multiplied in.
LEMMA AbsorbFull ==
    ASSUME NEW T, {} \notin T, NEW reg, NEW base, NEW m, NEW r,
           Absorbed(T, reg, base, m, r), Len(r) = BlockSize
    PROVE  Absorbed(T, Mul(reg), base, Join(m, r), <<>>)
<1>1. /\ base \in Seq(Block(T \cup {{}})) /\ m \in Seq(T) /\ Aligned(m) /\ r \in Seq(T)
      /\ reg = [chain |-> Join(base, WholeBlocks(m)), open |-> Open(r)]
      /\ Len(r) \in 1..BlockSize /\ Aligned(r)
  <2>1. BlockSize \in 1..BlockSize
    BY BlockConstants
  <2>2. r \in Seq(T)
    BY DEF Absorbed
  <2>3. Aligned(r)
    BY <2>2, AlignedLengths
  <2> QED BY <2>1, <2>2, <2>3 DEF Absorbed
<1> DEFINE x == Join(base, WholeBlocks(m))
           w == WholeBlocks(m)
           S == Block(T \cup {{}})
<1>2. Mul(reg) = [chain |-> Append(x, Open(r)), open |-> Zeros(BlockSize)]
  BY <1>1, MulBytes
<1>3. Open(r) = r /\ r \in S
  <2>1. Len(r) \in 0..BlockSize
    BY <1>1
  <2>2. Open(r) = r /\ Open(r) \in S
    BY <1>1, <2>1, OpenBytes
  <2> QED BY <2>2
<1>4. /\ Join(m, r) \in Seq(T) /\ Aligned(Join(m, r))
      /\ WholeBlocks(Join(m, r)) = Join(w, <<r>>)
  <2>1. WholeBlocks(m) \o WholeBlocks(r) = WholeBlocks(m \o r)
    BY <1>1, ProcessWhole
  <2>2. WholeBlocks(r) = <<r>>
    BY <1>1, OneBlock
  <2>3. m \o r \in Seq(T) /\ Aligned(m \o r)
    BY <1>1, ProcessWhole
  <2> QED BY <2>1, <2>2, <2>3 DEF Join
<1>5. w \in Seq(S) /\ x \in Seq(S)
  BY <1>1, AbsorbedChain
<1>6. Append(x, r) = Join(base, Join(w, <<r>>))
  <2>1. x = Join(base, w) /\ base \in Seq(S)
    BY <1>1
  <2> HIDE DEF S, w, x
  <2>2. Append(Join(base, w), r) = Join(base, Join(w, <<r>>))
    BY <1>3, <1>5, <2>1, AppendJoined
  <2> QED BY <2>1, <2>2
<1>7. Absorbed(T, [chain |-> Join(base, WholeBlocks(Join(m, r))), open |-> Zeros(BlockSize)],
               base, Join(m, r), <<>>)
  BY <1>1, <1>4, AbsorbedNothing
<1> QED
  BY <1>2, <1>3, <1>4, <1>6, <1>7

\* Whole blocks, onto an empty open block.
LEMMA AbsorbWhole ==
    ASSUME NEW T, NEW reg, NEW base, NEW m, Absorbed(T, reg, base, m, <<>>),
           NEW s \in Seq(T), Aligned(s)
    PROVE  Absorbed(T, Auth(reg, s), base, Join(m, s), <<>>)
<1> DEFINE S == Block(T \cup {{}})
           w == WholeBlocks(m)
           x == Join(base, w)
           y == WholeBlocks(s)
           z == Zeros(BlockSize)
<1>1. /\ base \in Seq(S) /\ m \in Seq(T) /\ Aligned(m)
      /\ reg = [chain |-> x, open |-> Open(<<>>)]
  BY DEF Absorbed
<1>2. Open(<<>>) = z
  <2>1. <<>> \in Seq(T) /\ Len(<<>>) = 0 /\ 0 \in 0..BlockSize
    BY EmptySeq, BlockConstants
  <2> QED BY <2>1, OpenBytes
<1>3. w \in Seq(S) /\ x \in Seq(S) /\ y \in Seq(S)
  BY <1>1, AbsorbedChain
<1>4. /\ Join(m, s) \in Seq(T) /\ Aligned(Join(m, s))
      /\ WholeBlocks(Join(m, s)) = Join(w, y)
  BY <1>1, ProcessWhole DEF Join
<1>5. Join(x, y) = Join(base, Join(w, y))
  <2> HIDE DEF w, y, S
  <2> QED BY <1>1, <1>3, JoinAssociative
<1>6. Auth(reg, s) = [chain |-> Join(x, y), open |-> z]
  <2>1. CASE y = <<>>
    <3>1. Auth(reg, s) = reg
      BY <2>1 DEF Auth
    <3>2. Join(x, y) = x
      <4> HIDE DEF x
      <4> QED BY <1>3, <2>1, ConcatEmptySeq DEF Join
    <3> QED BY <1>1, <1>2, <3>1, <3>2
  <2>2. CASE y # <<>>
    <3>1. reg.open = z /\ reg.chain = x
      BY <1>1, <1>2
    <3>2. 1 \in DOMAIN y /\ y[1] \in S
      <4> HIDE DEF y, S
      <4>1. Len(y) # 0 /\ Len(y) \in Nat
        BY <1>3, <2>2, EmptySeq
      <4> QED BY <1>3, <4>1
    <3>3. XorAt(z, 0, y[1]) = y[1]
      <4> HIDE DEF y
      <4> QED BY <3>2, XorOnZeros
    <3> HIDE DEF S, x, y, z
    <3>4. Auth(reg, s) = [chain |-> reg.chain \o [y EXCEPT ![1] = XorAt(reg.open, 0, y[1])],
                          open |-> z]
      BY <2>2 DEF Auth, y, z
    <3>5. [y EXCEPT ![1] = y[1]] = y
      BY <1>3, <3>2
    <3> QED BY <3>1, <3>3, <3>4, <3>5 DEF Join
  <2> QED BY <2>1, <2>2
<1>7. Absorbed(T, [chain |-> Join(base, WholeBlocks(Join(m, s))), open |-> z],
               base, Join(m, s), <<>>)
  BY <1>1, <1>4, AbsorbedNothing
<1> QED
  BY <1>4, <1>5, <1>6, <1>7

\* The register after the last block, padded with zeros.
Closed(reg, buf) == IF buf > 0 THEN Mul(reg) ELSE reg

\* Closing the register is hashing what was absorbed, padded with zeros.
LEMMA CloseOpenBlock ==
    ASSUME NEW T, {} \notin T, NEW reg, NEW base, NEW m, NEW r,
           Absorbed(T, reg, base, m, r), Len(r) < BlockSize
    PROVE  Closed(reg, Len(r))
              = [chain |-> Join(base, PaddedBlocks(Join(m, r))), open |-> Zeros(BlockSize)]
<1> DEFINE U == T \cup {{}}
           S == Block(U)
           w == WholeBlocks(m)
<1>1. /\ base \in Seq(S) /\ m \in Seq(T) /\ Aligned(m) /\ r \in Seq(T) /\ Len(r) \in Nat
      /\ reg = [chain |-> Join(base, w), open |-> Open(r)]
  BY DEF Absorbed
<1>2. {} \in U /\ m \in Seq(U) /\ r \in Seq(U)
  <2>1. {} \in U /\ T \subseteq U
    OBVIOUS
  <2> HIDE DEF U
  <2> QED BY <1>1, <2>1, LargerSeq
<1>3. w \in Seq(S)
  BY <1>1, AbsorbedChain
<1>4. PaddedBlocks(Join(m, r)) = Join(w, PaddedBlocks(r))
  <2> HIDE DEF U
  <2> QED BY <1>1, <1>2, PaddedBlocksJoin DEF Join
<1>5. CASE Len(r) > 0
  <2>1. Len(r) \in 1..BlockSize
    BY <1>1, <1>5, BlockConstants
  <2>2. Mul(reg) = [chain |-> Append(Join(base, w), Open(r)), open |-> Zeros(BlockSize)]
    BY <1>1, <2>1, MulBytes
  <2>3. PaddedBlocks(r) = <<Open(r)>>
    <3> HIDE DEF U
    <3> QED BY <1>2, <2>1, PaddedOneBlock DEF Open
  <2>4. Open(r) \in S
    <3>1. Len(r) \in 0..BlockSize
      BY <2>1
    <3> QED BY <1>1, <3>1, OpenBytes
  <2>5. Append(Join(base, w), Open(r)) = Join(base, Join(w, <<Open(r)>>))
    <3> DEFINE o == Open(r)
    <3> HIDE DEF S, w, o
    <3>1. Append(Join(base, w), o) = Join(base, Join(w, <<o>>))
      BY <1>1, <1>3, <2>4, AppendJoined DEF o
    <3> QED BY <3>1 DEF o
  <2> QED BY <1>4, <1>5, <2>2, <2>3, <2>5 DEF Closed
<1>6. CASE ~(Len(r) > 0)
  <2>1. r = <<>> /\ Len(r) = 0 /\ Len(r) \in 0..BlockSize
    BY <1>1, <1>6, EmptySeq, BlockConstants
  <2>2. Open(r) = Zeros(BlockSize)
    BY <1>1, <2>1, OpenBytes
  <2>3. Join(w, <<>>) = w
    BY <1>3, ConcatEmptySeq DEF Join
  <2> QED BY <1>1, <1>4, <1>6, <2>1, <2>2, <2>3, PaddedNoBlock DEF Closed
<1> QED
  BY <1>5, <1>6

\* The block of the lengths is the last one, unless both are zero: then no
\* block was absorbed, and the register stays zero.
LEMMA LengthBlockLast ==
    ASSUME NEW x, NEW a, NEW t
    PROVE  LET reg == [chain |-> x, open |-> Zeros(BlockSize)]
               end == Mul(XorReg(reg, 0, LengthBlock(a, t)))
           IN /\ ~(a = 0 /\ t = 0) =>
                    end = [chain |-> Append(x, LengthBlock(a, t)), open |-> Zeros(BlockSize)]
              /\ a = 0 /\ t = 0 /\ x = <<>> => end = ZeroReg
<1> DEFINE z   == Zeros(BlockSize)
           l   == LengthBlock(a, t)
           reg == [chain |-> x, open |-> z]
           T   == {l[i] : i \in 1..BlockSize}
<1>1. BlockSize \in Nat \ {0} /\ z = [i \in 1..BlockSize |-> {}]
  BY BlockConstants DEF Zeros
<1>2. l = [i \in 1..BlockSize |-> IF a = 0 /\ t = 0 THEN {} ELSE {<<"length", a, t, i>>}]
  BY DEF LengthBlock, GCMOneCall!LengthBlock
<1>3. l \in Block(T)
  <2>1. DOMAIN l = 1..BlockSize /\ l = [i \in 1..BlockSize |-> l[i]]
    BY <1>2
  <2> HIDE DEF l
  <2> QED BY <2>1 DEF Block
<1> HIDE DEF T
<1>4. XorAt(z, 0, l) = l
  <2> HIDE DEF l
  <2> QED BY <1>3, XorOnZeros
<1>5. ~(a = 0 /\ t = 0) => l # z
  <2> SUFFICES ASSUME ~(a = 0 /\ t = 0) PROVE l[1] # z[1]
    OBVIOUS
  <2>1. 1 \in 1..BlockSize
    BY <1>1
  <2>2. l[1] = {<<"length", a, t, 1>>} /\ z[1] = {}
    BY <1>1, <1>2, <2>1
  <2> QED BY <2>2
<1>6. a = 0 /\ t = 0 => l = z
  BY <1>1, <1>2
<1> HIDE DEF l, z
<1>7. XorReg(reg, 0, l) = [chain |-> x, open |-> l]
  BY <1>4 DEF XorReg
<1>8. ZeroReg = [chain |-> <<>>, open |-> z]
  BY DEF ZeroReg, z
<1>9. l # z => Mul([chain |-> x, open |-> l]) = [chain |-> Append(x, l), open |-> z]
  <2>1. l # z => [chain |-> x, open |-> l] # ZeroReg
    BY <1>8
  <2> QED BY <2>1 DEF Mul, z
<1>10. l = z /\ x = <<>> => Mul([chain |-> x, open |-> l]) = ZeroReg
  BY <1>8 DEF Mul
<1> QED
  BY <1>5, <1>6, <1>7, <1>9, <1>10 DEF l, z

\* Whole blocks and the rest, onto an empty open block.
LEMMA AbsorbRest ==
    ASSUME NEW T, NEW reg, NEW base, NEW m, Absorbed(T, reg, base, m, <<>>),
           NEW t \in Seq(T), Aligned(t), NEW s \in Seq(T), Len(s) < BlockSize
    PROVE  Absorbed(T, XorReg(Auth(reg, t), 0, s), base, Join(m, t), s)
<1>1. Absorbed(T, Auth(reg, t), base, Join(m, t), <<>>)
  BY AbsorbWhole
<1>2. Len(<<>>) = 0 /\ <<>> \in Seq(T) /\ Join(<<>>, s) = s /\ Len(s) \in Nat
  BY EmptySeq, ConcatEmptySeq DEF Join
<1>3. Len(<<>>) + Len(s) <= BlockSize
  BY <1>2, BlockConstants
<1> DEFINE a == Auth(reg, t)
           x == Join(m, t)
<1> HIDE DEF a, x
<1>4. Absorbed(T, XorReg(a, Len(<<>>), s), base, x, Join(<<>>, s))
  BY <1>1, <1>3, AbsorbBytes DEF a, x
<1> QED
  BY <1>2, <1>4 DEF a, x

\* Nothing more to absorb.
LEMMA AbsorbNone ==
    ASSUME NEW T, NEW reg, NEW base, NEW m, NEW r, Absorbed(T, reg, base, m, r)
    PROVE  Auth(reg, <<>>) = reg /\ XorReg(reg, 0, <<>>) = reg
<1>1. WholeBlocks(<<>>) = <<>>
  <2>1. <<>> \in Seq(T) /\ Len(<<>>) < BlockSize
    BY EmptySeq, BlockConstants
  <2> QED BY <2>1, NoBlock
<1>2. XorAt(Open(r), 0, <<>>) = Open(r)
  <2>1. Open(r) \in Block(T \cup {{}})
    BY OpenBytes DEF Absorbed
  <2>2. \A i : ~(i - 0 \in DOMAIN <<>>)
    OBVIOUS
  <2>3. Open(r) = [i \in 1..BlockSize |-> Open(r)[i]] /\ DOMAIN Open(r) = 1..BlockSize
    BY <2>1 DEF Block
  <2> QED BY <2>2, <2>3 DEF XorAt
<1> DEFINE x == Join(base, WholeBlocks(m))
           o == Open(r)
<1>3. reg = [chain |-> x, open |-> o]
  BY DEF Absorbed
<1> HIDE DEF x, o
<1> QED
  BY <1>1, <1>2, <1>3 DEF Auth, XorReg, o

\* Feeding a register appends to what it has absorbed.
LEMMA FeedHolds ==
    ASSUME NEW T, {} \notin T, NEW reg, NEW base, NEW m, NEW r,
           Absorbed(T, reg, base, m, r), Len(r) < BlockSize, NEW s \in Seq(T)
    PROVE  \E m1, r1 : /\ Absorbed(T, Feed(reg, Len(r), s).reg, base, m1, r1)
                       /\ Join(m1, r1) = Join(Join(m, r), s)
                       /\ Len(r1) < BlockSize
                       /\ Feed(reg, Len(r), s).buf = Len(r1)
<1> DEFINE B    == BlockSize
           buf  == Len(r)
           loc  == IF buf = 0 THEN 0 ELSE Lesser(Len(s), B - buf)
           s0   == Take(s, loc)
           g1   == XorReg(reg, buf, s0)
           full == loc > 0 /\ buf + loc = B
           s1   == Drop(s, loc)
           k    == (Len(s1) \div B) * B
           g0   == IF full THEN Mul(g1) ELSE g1
           t1   == Take(s1, k)
           s2   == Drop(s1, k)
           f    == XorReg(Auth(g0, t1), 0, s2)
<1>1. /\ Feed(reg, buf, s).reg = f
      /\ Feed(reg, buf, s).buf = IF full THEN Len(s2) ELSE buf + loc + Len(s2)
  BY DEF Feed
<1>2. /\ m \in Seq(T) /\ Aligned(m) /\ r \in Seq(T) /\ buf \in 0..B - 1
      /\ B \in Nat \ {0} /\ Len(s) \in Nat
  BY BlockConstants DEF Absorbed
<1>3. /\ loc \in 0..Len(s) /\ buf + loc <= B
      /\ buf # 0 => (loc = Len(s) \/ buf + loc = B)
      /\ buf = 0 => loc = 0
  BY <1>2 DEF Lesser
<1> HIDE DEF loc
<1>4. /\ s0 \in Seq(T) /\ Len(s0) = loc /\ s1 \in Seq(T) /\ Len(s1) = Len(s) - loc
      /\ s = Join(s0, s1)
  BY <1>3, TakeDrop, TakeDropLengths DEF Join
<1>5. Absorbed(T, g1, base, m, Join(r, s0))
  <2> HIDE DEF s0
  <2>1. Len(r) + Len(s0) <= BlockSize
    BY <1>3, <1>4
  <2> QED BY <1>4, <2>1, AbsorbBytes DEF g1
<1>6. Join(r, s0) \in Seq(T) /\ Len(Join(r, s0)) = buf + loc
  <2> HIDE DEF s0
  <2> QED BY <1>2, <1>4, JoinLengths
<1>7. /\ t1 \in Seq(T) /\ Aligned(t1) /\ s2 \in Seq(T) /\ Len(s2) < B /\ Join(t1, s2) = s1
      /\ k \in 0..Len(s1) /\ Len(t1) = k /\ Len(s2) = Len(s1) - k
  <2> HIDE DEF s1
  <2> QED BY <1>4, WholePart
<1> HIDE DEF s0, s1, g1, k, t1, s2
<1>8. Join(Join(m, r), s) = Join(Join(m, Join(r, s0)), s1)
  <2>1. Join(m, r) \in Seq(T)
    BY <1>2, JoinLengths
  <2>2. Join(Join(Join(m, r), s0), s1) = Join(Join(m, r), Join(s0, s1))
    BY <1>4, <2>1, JoinAssociative
  <2>3. Join(Join(m, r), s0) = Join(m, Join(r, s0))
    BY <1>2, <1>4, JoinAssociative
  <2> QED BY <1>4, <2>2, <2>3
<1>9. CASE buf # 0 /\ buf + loc < B
  <2>1. ~full /\ loc = Len(s) /\ Len(s1) = 0
    BY <1>2, <1>3, <1>4, <1>9
  <2>2. /\ s1 = <<>> /\ t1 = <<>> /\ s2 = <<>> /\ Len(s2) = 0
    <3>1. k = 0
      BY <1>7, <2>1
    <3> QED BY <1>4, <1>7, <2>1, <3>1, EmptySeq
  <2>3. f = g1
    <3>1. f = XorReg(Auth(g1, <<>>), 0, <<>>)
      BY <2>1, <2>2
    <3>2. Auth(g1, <<>>) = g1 /\ XorReg(g1, 0, <<>>) = g1
      BY <1>5, AbsorbNone
    <3> QED BY <3>1, <3>2
  <2>4. Join(m, Join(r, s0)) = Join(Join(m, r), s)
    <3>1. Join(m, Join(r, s0)) \in Seq(T)
      BY <1>2, <1>6, JoinLengths
    <3>2. Join(Join(m, Join(r, s0)), <<>>) = Join(m, Join(r, s0))
      BY <3>1, ConcatEmptySeq DEF Join
    <3> QED BY <1>8, <2>2, <3>2
  <2>5. buf + loc + Len(s2) = Len(Join(r, s0)) /\ Len(Join(r, s0)) < B
    BY <1>2, <1>3, <1>6, <1>9, <2>2
  <2> HIDE DEF f, full
  <2> QED BY <1>1, <1>5, <2>1, <2>3, <2>4, <2>5
<1>10. CASE ~(buf # 0 /\ buf + loc < B)
  <2> DEFINE m0 == Join(m, Join(r, s0))
  <2>1. /\ full => buf + loc = B
        /\ ~full => buf = 0 /\ loc = 0 /\ buf + loc = 0
    BY <1>2, <1>3, <1>10
  <2>2. Absorbed(T, g0, base, m0, <<>>)
    <3>1. CASE full
      BY <1>5, <1>6, <2>1, <3>1, AbsorbFull
    <3>2. CASE ~full
      <4>1. Join(r, s0) = <<>>
        BY <1>6, <2>1, <3>2, EmptySeq
      <4>2. Join(m, <<>>) = m
        BY <1>2, ConcatEmptySeq DEF Join
      <4> QED BY <1>5, <3>2, <4>1, <4>2
    <3> QED BY <3>1, <3>2
  <2>3. Absorbed(T, f, base, Join(m0, t1), s2)
    <3> HIDE DEF g0, m0
    <3> QED BY <1>7, <2>2, AbsorbRest
  <2>4. Join(Join(m0, t1), s2) = Join(Join(m, r), s)
    <3>1. m0 \in Seq(T)
      BY <1>2, <1>6, JoinLengths
    <3> HIDE DEF m0
    <3>2. Join(Join(m0, t1), s2) = Join(m0, Join(t1, s2))
      BY <1>7, <3>1, JoinAssociative
    <3> QED BY <1>7, <1>8, <3>2 DEF m0
  <2>5. Feed(reg, buf, s).buf = Len(s2)
    <3>1. ~full => buf + loc + Len(s2) = Len(s2)
      BY <1>7, <2>1
    <3> HIDE DEF full
    <3> QED BY <1>1, <3>1
  <2> HIDE DEF f, full, m0
  <2> QED BY <1>1, <1>7, <2>3, <2>4, <2>5
<1> QED
  BY <1>9, <1>10

-----------------------------------------------------------------------------
(* What the context holds of the message, phase by phase. *)

\* Bytes the caller passes of a message.
GivenBytes(id) == {{<<k, id, i>>} : k \in {"iv", "aad", "enc", "dec"}, i \in Int}

\* The register has absorbed the message msg after base, but for buf bytes.
Holding(T, reg, buf, base, msg) ==
    \E m, r : /\ Absorbed(T, reg, base, m, r)
              /\ Join(m, r) = msg
              /\ Len(r) < BlockSize
              /\ buf = Len(r)

IVBytes(g)  == Piece("iv", g.id, 0, g.iv)
AADBytes(g) == Piece("aad", g.id, 0, g.aad)

\* No byte a caller gives is the zero that pads.
LEMMA NoZeroGiven == \A id : {} \notin GivenBytes(id)
<1> SUFFICES ASSUME NEW id, {} \in GivenBytes(id) PROVE FALSE
  OBVIOUS
<1>1. PICK k \in {"iv", "aad", "enc", "dec"}, i \in Int : {} = {<<k, id, i>>}
  BY DEF GivenBytes
<1>2. <<k, id, i>> \in {<<k, id, i>>}
  OBVIOUS
<1> QED
  BY <1>1, <1>2

\* What the caller passes is a sequence of such bytes.
LEMMA GivenPiece ==
    ASSUME NEW k \in {"iv", "aad", "enc", "dec"}, NEW id, NEW from \in Nat, NEW n \in Nat
    PROVE  /\ Piece(k, id, from, n) \in Seq(GivenBytes(id))
           /\ Len(Piece(k, id, from, n)) = n
<1>1. \A i \in 1..n : {<<k, id, from + i>>} \in GivenBytes(id)
  <2> TAKE i \in 1..n
  <2>1. from + i \in Int
    OBVIOUS
  <2> QED BY <2>1 DEF GivenBytes
<1> HIDE DEF GivenBytes
<1> QED
  BY <1>1 DEF Piece

\* A part of the message and the next one.
LEMMA PieceJoin ==
    ASSUME NEW k, NEW id, NEW a \in Nat, NEW n \in Nat
    PROVE  Join(Piece(k, id, 0, a), Piece(k, id, a, n)) = Piece(k, id, 0, a + n)
<1> DEFINE T == {{<<k, id, i>>} : i \in Int}
           x == Piece(k, id, 0, a)
           y == Piece(k, id, a, n)
           z == Piece(k, id, 0, a + n)
<1>1. x \in Seq(T) /\ Len(x) = a /\ y \in Seq(T) /\ Len(y) = n /\ z \in Seq(T) /\ Len(z) = a + n
  <2>1. \A from \in Nat, l \in Nat : \A i \in 1..l : {<<k, id, from + i>>} \in T
    <3> TAKE from \in Nat, l \in Nat
    <3> TAKE i \in 1..l
    <3>1. from + i \in Int
      OBVIOUS
    <3> QED BY <3>1
  <2>2. \A from \in Nat, l \in Nat : Piece(k, id, from, l) \in Seq(T)
                                     /\ Len(Piece(k, id, from, l)) = l
    <3> HIDE DEF T
    <3> QED BY <2>1 DEF Piece
  <2>3. a + n \in Nat /\ 0 \in Nat
    OBVIOUS
  <2> HIDE DEF T
  <2> QED BY <2>2, <2>3
<1>2. /\ \A i \in 1..a : x[i] = {<<k, id, 0 + i>>}
      /\ \A i \in 1..n : y[i] = {<<k, id, a + i>>}
      /\ \A i \in 1..a + n : z[i] = {<<k, id, 0 + i>>}
  BY DEF Piece
<1> HIDE DEF T, x, y, z
<1>3. x \o y \in Seq(T) /\ Len(x \o y) = a + n
      /\ \A i \in 1..a + n : (x \o y)[i] = IF i <= a THEN x[i] ELSE y[i - a]
  BY <1>1, ConcatProperties
<1>4. \A i \in 1..a + n : (x \o y)[i] = z[i]
  <2> TAKE i \in 1..a + n
  <2>1. CASE i <= a
    <3>1. i \in 1..a
      BY <2>1
    <3> QED BY <1>2, <1>3, <2>1, <3>1
  <2>2. CASE ~(i <= a)
    <3>1. i - a \in 1..n /\ a + (i - a) = 0 + i
      BY <2>2
    <3>2. y[i - a] = {<<k, id, a + (i - a)>>}
      BY <1>2, <3>1
    <3> QED BY <1>2, <1>3, <2>2, <3>1, <3>2
  <2> QED BY <2>1, <2>2
<1>5. x \o y = z
  BY <1>1, <1>3, <1>4, SeqEqual
<1> QED
  BY <1>5 DEF Join, x, y, z

\* Feeding a piece.
LEMMA FeedHolding ==
    ASSUME NEW T, {} \notin T, NEW reg, NEW buf, NEW base, NEW msg,
           Holding(T, reg, buf, base, msg), NEW s \in Seq(T)
    PROVE  Holding(T, Feed(reg, buf, s).reg, Feed(reg, buf, s).buf, base, Join(msg, s))
<1> PICK m, r : /\ Absorbed(T, reg, base, m, r)
                /\ Join(m, r) = msg
                /\ Len(r) < BlockSize
                /\ buf = Len(r)
  BY DEF Holding
<1>1. \E m1, r1 : /\ Absorbed(T, Feed(reg, Len(r), s).reg, base, m1, r1)
                  /\ Join(m1, r1) = Join(Join(m, r), s)
                  /\ Len(r1) < BlockSize
                  /\ Feed(reg, Len(r), s).buf = Len(r1)
  BY FeedHolds
<1> QED
  BY <1>1 DEF Holding

\* Closing the last block.
LEMMA CloseHolding ==
    ASSUME NEW T, {} \notin T, NEW reg, NEW buf, NEW base, NEW msg,
           Holding(T, reg, buf, base, msg)
    PROVE  Closed(reg, buf)
              = [chain |-> Join(base, PaddedBlocks(msg)), open |-> Zeros(BlockSize)]
<1> PICK m, r : /\ Absorbed(T, reg, base, m, r)
                /\ Join(m, r) = msg
                /\ Len(r) < BlockSize
                /\ buf = Len(r)
  BY DEF Holding
<1>1. Closed(reg, Len(r))
         = [chain |-> Join(base, PaddedBlocks(Join(m, r))), open |-> Zeros(BlockSize)]
  BY CloseOpenBlock
<1> QED
  BY <1>1

\* A register that has absorbed nothing.
LEMMA HoldingNothing ==
    ASSUME NEW T, NEW base \in Seq(Block(T \cup {{}}))
    PROVE  Holding(T, [chain |-> base, open |-> Zeros(BlockSize)], 0, base, <<>>)
<1>1. <<>> \in Seq(T) /\ Len(<<>>) = 0 /\ Len(<<>>) < BlockSize /\ Join(<<>>, <<>>) = <<>>
  BY EmptySeq, BlockConstants, ConcatEmptySeq DEF Join
<1>2. Aligned(<<>>) /\ WholeBlocks(<<>>) = <<>>
  BY <1>1, AlignedLengths, NoBlock
<1>3. Join(base, <<>>) = base
  <2> DEFINE S == Block(T \cup {{}})
  <2>1. base \in Seq(S)
    OBVIOUS
  <2> HIDE DEF S
  <2> QED BY <2>1, ConcatEmptySeq DEF Join
<1>4. Absorbed(T, [chain |-> Join(base, WholeBlocks(<<>>)), open |-> Zeros(BlockSize)],
               base, <<>>, <<>>)
  BY <1>1, <1>2, AbsorbedNothing
<1> QED
  BY <1>1, <1>2, <1>3, <1>4 DEF Holding

-----------------------------------------------------------------------------
(* The one call, and what the context holds of it. *)

J0(g)         == GCMOneCall!J0(g)
Mask(g)       == GCMOneCall!Mask(g)
CipherText(g) == GCMOneCall!CipherText(g)

\* Bytes of a text, or of its cipher text under the first counter block j.
CipherByte(id, j, d, i, n, l) == Xor({<<d, id, i>>}, {<<"E", [j EXCEPT !.n = n], l>>})
TextBytes(id, j) ==
    GivenBytes(id)
    \cup {CipherByte(id, j, d, i, n, l) : d \in {"enc", "dec"}, i \in Int, n \in Int, l \in Int}

IVContent(c, g) ==
    /\ Holding(GivenBytes(g.id), c.counter.iv, c.bufLen, <<>>, IVBytes(g))
    /\ c.ghash = ZeroReg /\ c.ecounter0 = Zeros(BlockSize)

BegunContent(c, g) ==
    g.iv > 0 /\ c.counter.iv = J0(g).iv /\ c.ecounter0 = Mask(g)

AADContent(c, g) == Holding(GivenBytes(g.id), c.ghash, c.bufLen, <<>>, AADBytes(g))

TextContent(c, g) ==
    /\ c.ecounter = E(c.counter)
    /\ Holding(TextBytes(g.id, J0(g)), c.ghash, c.bufLen, PaddedBlocks(AADBytes(g)),
               CipherText(g))

GContent(c, g) ==
    /\ c.state \in {"GcmInit", "GcmIVprocessing"} => IVContent(c, g)
    /\ c.state \in {"GcmAADprocessing", "GcmTXTprocessing"} => BegunContent(c, g)
    /\ c.state = "GcmAADprocessing" => AADContent(c, g)
    /\ c.state = "GcmTXTprocessing" => TextContent(c, g)

\* The operators on bytes and blocks are the same on both sides.
LEMMA GCMSameOperators ==
    /\ \A s : GCMOneCall!PaddedBlocks(s) = PaddedBlocks(s)
    /\ \A k, id, a, n : GCMOneCall!Piece(k, id, a, n) = Piece(k, id, a, n)
    /\ \A b, k, s : GCMOneCall!CopyAt(b, k, s) = CopyAt(b, k, s)
    /\ \A n : GCMOneCall!Zeros(n) = Zeros(n)
    /\ \A a, b : GCMOneCall!Xor(a, b) = Xor(a, b)
    /\ \A s, k : GCMOneCall!Take(s, k) = Take(s, k)
<1>1. \A b, k, s : GCMOneCall!CopyAt(b, k, s) = CopyAt(b, k, s)
  BY DEF CopyAt, GCMOneCall!CopyAt
<1>2. \A s, k : GCMOneCall!Take(s, k) = Take(s, k)
  BY DEF Take, GCMOneCall!Take, Lesser, GCMOneCall!Lesser
<1>3. \A s, k : GCMOneCall!Drop(s, k) = Drop(s, k)
  BY DEF Drop, GCMOneCall!Drop
<1>4. \A n : GCMOneCall!Zeros(n) = Zeros(n)
  BY DEF Zeros, GCMOneCall!Zeros
<1>5. \A a, b : GCMOneCall!Xor(a, b) = Xor(a, b)
  BY DEF Xor, GCMOneCall!Xor
<1>6. \A k, id, a, n : GCMOneCall!Piece(k, id, a, n) = Piece(k, id, a, n)
  BY DEF Piece, GCMOneCall!Piece
<1>7. \A s : GCMOneCall!PaddedBlocks(s) = PaddedBlocks(s)
  BY <1>1, <1>2, <1>3, <1>4 DEF PaddedBlocks, GCMOneCall!PaddedBlocks
<1> QED
  BY <1>1, <1>2, <1>4, <1>5, <1>6, <1>7

\* Nothing has been absorbed.
LEMMA ZeroHolding ==
    ASSUME NEW T
    PROVE  Holding(T, ZeroReg, 0, <<>>, <<>>)
<1> DEFINE S == Block(T \cup {{}})
<1>1. <<>> \in Seq(S)
  BY EmptySeq
<1> QED
  BY <1>1, HoldingNothing DEF ZeroReg

\* A piece of no bytes.
LEMMA EmptyPiece == \A k, id : Piece(k, id, 0, 0) = <<>>
BY DEF Piece

\* After ippsAES_GCMInit or ippsAES_GCMReset.
LEMMA AfterResetContent == \A id : GContent(GCMReset, GCMOneCall!Nothing(id))
<1> SUFFICES ASSUME NEW id PROVE GContent(GCMReset, GCMOneCall!Nothing(id))
  OBVIOUS
<1> DEFINE g == GCMOneCall!Nothing(id)
           T == GivenBytes(g.id)
<1>1. IVBytes(g) = <<>>
  BY EmptyPiece DEF IVBytes, GCMOneCall!Nothing
<1>2. /\ GCMReset.state = "GcmInit" /\ GCMReset.bufLen = 0 /\ GCMReset.counter.iv = ZeroReg
      /\ GCMReset.ghash = ZeroReg /\ GCMReset.ecounter0 = Zeros(BlockSize)
  BY DEF GCMReset
<1> HIDE DEF g
<1>3. Holding(T, ZeroReg, 0, <<>>, <<>>)
  BY ZeroHolding
<1> QED
  BY <1>1, <1>2, <1>3 DEF GContent, IVContent, g

\* ippsAES_GCMProcessIV.
LEMMA ProcessIVContent ==
    ASSUME NEW c, NEW g, GInv(c, g), GContent(c, g), NEW n \in Nat, AcceptsIV(c, n)
    PROVE  GContent(WithIV([c |-> c, g |-> g], n).c, WithIV([c |-> c, g |-> g], n).g)
<1> DEFINE s == Piece("iv", g.id, g.iv, n)
           d == ProcessIV(c, s)
           h == [g EXCEPT !.iv = @ + n]
           T == GivenBytes(g.id)
           f == Feed(c.counter.iv, c.bufLen, s)
           k == [c.counter EXCEPT !.iv = f.reg]
<1>1. WithIV([c |-> c, g |-> g], n).c = d /\ WithIV([c |-> c, g |-> g], n).g = h
  BY DEF WithIV
<1>2. g.iv \in Nat
  BY DEF GInv, IsGiven
<1>3. s \in Seq(T) /\ {} \notin T
  <2>1. "iv" \in {"iv", "aad", "enc", "dec"}
    OBVIOUS
  <2> QED BY <1>2, <2>1, GivenPiece, NoZeroGiven
<1>4. IVContent(c, g)
  BY DEF AcceptsIV, GContent
<1>5. Holding(T, f.reg, f.buf, <<>>, Join(IVBytes(g), s))
  <2> HIDE DEF s, T
  <2> QED BY <1>3, <1>4, FeedHolding DEF IVContent, T
<1>6. /\ d.state = "GcmIVprocessing" /\ d.counter.iv = f.reg /\ d.bufLen = f.buf
      /\ d.ghash = c.ghash /\ d.ecounter0 = c.ecounter0
  <2>1. d = [c EXCEPT !.state = "GcmIVprocessing", !.counter = k,
                      !.bufLen = f.buf, !.ivLen = @ + Len(s)]
    BY DEF ProcessIV
  <2> HIDE DEF d, f, s
  <2>2. k.iv = f.reg
    BY DEF GInv, IsContext
  <2> HIDE DEF k
  <2> QED
    BY <2>1, <2>2 DEF GInv, IsContext
<1>7. h.id = g.id /\ h.iv = g.iv + n
  BY DEF GInv, IsGiven
<1>8. IVBytes(h) = Join(IVBytes(g), s)
  <2> HIDE DEF h
  <2> QED BY <1>2, <1>7, PieceJoin DEF IVBytes
<1> HIDE DEF d, h, f, s
<1> QED
  BY <1>1, <1>4, <1>5, <1>6, <1>7, <1>8 DEF GContent, IVContent

\* The counter block of a 12-byte IV: its bytes as they are.
LEMMA ShortIV ==
    ASSUME NEW c, NEW g, GInv(c, g), IVContent(c, g), g.iv = CtrPos, NEW low
    PROVE  FinalCounter(c, low) = J0(g)
<1> DEFINE T == GivenBytes(g.id)
           s == IVBytes(g)
           o == Open(s)
<1>1. PICK m, r : /\ Absorbed(T, c.counter.iv, <<>>, m, r)
                  /\ Join(m, r) = s /\ Len(r) < BlockSize
  BY DEF IVContent, Holding
<1>2. s \in Seq(T) /\ Len(s) \in 1..BlockSize - 1
  <2>1. CtrPos \in Nat /\ CtrPos \in 1..BlockSize - 1 /\ 0 \in Nat
    BY GCMConstants, BlockConstants
  <2>2. "iv" \in {"iv", "aad", "enc", "dec"}
    OBVIOUS
  <2> QED BY <2>1, <2>2, GivenPiece DEF IVBytes
<1> HIDE DEF T, s
<1>3. m \in Seq(T) /\ Aligned(m) /\ r \in Seq(T)
      /\ c.counter.iv = [chain |-> Join(<<>>, WholeBlocks(m)), open |-> Open(r)]
  BY <1>1 DEF Absorbed
<1>4. m = <<>>
  <2>1. Len(m) \in Nat /\ Len(r) \in Nat /\ Len(Join(m, r)) = Len(m) + Len(r)
    <3>1. m \in Seq(T) /\ r \in Seq(T)
      BY <1>3
    <3>2. Len(m) \in Nat /\ Len(r) \in Nat
      BY <3>1
    <3>3. Len(Join(m, r)) = Len(m) + Len(r)
      BY <3>1, JoinLengths
    <3> QED BY <3>2, <3>3
  <2>2. Len(m) \in 0..BlockSize - 1
    BY <1>1, <1>2, <2>1, BlockConstants
  <2>3. ~(Len(m) \in 1..BlockSize - 1)
    BY <1>3, AlignedLengths
  <2>4. Len(m) = 0
    BY <2>2, <2>3
  <2> QED BY <1>3, <2>4, EmptySeq
<1>5. Join(<<>>, r) = r
  BY <1>3, ConcatEmptySeq DEF Join
<1>6. WholeBlocks(<<>>) = <<>> /\ Join(<<>>, <<>>) = <<>>
  <2>1. <<>> \in Seq(T) /\ Len(<<>>) < BlockSize
    BY EmptySeq, BlockConstants
  <2> QED BY <2>1, NoBlock, ConcatEmptySeq DEF Join
<1>7. c.counter.iv = [chain |-> <<>>, open |-> o]
  BY <1>1, <1>3, <1>4, <1>5, <1>6
<1>8. J0(g) = [iv |-> [chain |-> <<>>, open |-> o], n |-> 1]
  BY GCMSameOperators DEF J0, GCMOneCall!J0, o, Open, s, IVBytes
<1>9. FinalCounter(c, low) = [c.counter EXCEPT !.n = 1]
  BY DEF FinalCounter, GInv
<1> HIDE DEF o
<1> DEFINE v == [chain |-> <<>>, open |-> o]
<1> HIDE DEF v
<1>10. c.counter.iv = v /\ J0(g) = [iv |-> v, n |-> 1]
  BY <1>7, <1>8 DEF v
<1>11. c.counter = [x \in {"iv", "n"} |-> c.counter[x]]
  BY DEF GInv, IsContext
<1> QED
  BY <1>9, <1>10, <1>11

\* Any other IV is hashed, padded, with a block of its length.
LEMMA HashedIV ==
    ASSUME NEW c, NEW g, GInv(c, g), IVContent(c, g), g.iv # CtrPos, g.iv > 0,
           NEW h, h.id = g.id, h.iv = g.iv
    PROVE  FinalCounter(c, h.low) = J0(h)
<1> DEFINE T == GivenBytes(g.id)
           z == Zeros(BlockSize)
           x == PaddedBlocks(IVBytes(g))
           l == LengthBlock(0, g.iv)
           q == Closed(c.counter.iv, c.bufLen)
<1>1. q = [chain |-> Join(<<>>, x), open |-> z]
  BY NoZeroGiven, CloseHolding DEF IVContent
<1>2. Join(<<>>, x) = x
  <2>1. IVBytes(g) \in Seq(T \cup {{}}) /\ {} \in T \cup {{}}
    <3>1. "iv" \in {"iv", "aad", "enc", "dec"} /\ g.iv \in Nat /\ 0 \in Nat
      BY DEF GInv, IsGiven
    <3>2. IVBytes(g) \in Seq(T)
      BY <3>1, GivenPiece DEF IVBytes
    <3> HIDE DEF T
    <3>3. T \subseteq T \cup {{}}
      OBVIOUS
    <3> QED BY <3>2, <3>3, LargerSeq
  <2> DEFINE U == T \cup {{}}
             S == Block(U)
  <2> HIDE DEF U
  <2>2. x \in Seq(S)
    BY <2>1, PaddedBlocksBytes DEF U
  <2> HIDE DEF x, S
  <2> QED BY <2>2, ConcatEmptySeq DEF Join
<1>3. g.iv \in Nat /\ ~(0 = 0 /\ g.iv = 0)
  BY DEF GInv, IsGiven
<1> DEFINE end == Mul(XorReg(q, 0, l))
<1>4. end = [chain |-> Append(x, l), open |-> z]
  <2>1. q = [chain |-> x, open |-> z]
    BY <1>1, <1>2
  <2> HIDE DEF q, x
  <2> QED BY <1>3, <2>1, LengthBlockLast
<1>5. FinalCounter(c, h.low) = [iv |-> end, n |-> h.low]
  <2>1. c.ivLen # CtrPos /\ c.ivLen = g.iv
    BY DEF GInv
  <2> QED BY <2>1 DEF FinalCounter, Closed
<1>6. J0(h) = [iv |-> [chain |-> Append(x, l), open |-> z], n |-> h.low]
  BY GCMSameOperators DEF J0, GCMOneCall!J0, GCMOneCall!Hash, LengthBlock, IVBytes
<1> HIDE DEF end, x, l, z
<1> QED
  BY <1>4, <1>5, <1>6

\* The first counter block depends on the IV and its word only.
LEMMA J0Depends ==
    ASSUME NEW g, NEW h, h.id = g.id, h.iv = g.iv, h.low = g.low
    PROVE  J0(h) = J0(g) /\ Mask(h) = Mask(g)
BY DEF J0, Mask, GCMOneCall!J0, GCMOneCall!Mask

\* The first call of the AAD phase leaves the first counter block and the
\* block that masks the tag; h is what is given with its word.
LEMMA CompletionContent ==
    ASSUME NEW c, NEW g, GInv(c, g), GContent(c, g), NEW low,
           c.state \in {"GcmIVprocessing", "GcmAADprocessing"}, g.iv > 0,
           NEW h, h.id = g.id, h.iv = g.iv, h.low = IF g.begun THEN g.low ELSE low
    PROVE  /\ BegunContent(IVCompleted(c, low), h)
           /\ AADContent(IVCompleted(c, low), g)
<1> DEFINE d == IVCompleted(c, low)
           k == FinalCounter(c, low)
<1>1. CASE c.state = "GcmAADprocessing"
  <2>1. d = c
    BY <1>1 DEF IVCompleted
  <2>2. g.begun
    BY <1>1 DEF GInv, Phases
  <2>3. J0(h) = J0(g) /\ Mask(h) = Mask(g)
    BY <2>2, J0Depends
  <2> QED BY <1>1, <2>1, <2>3 DEF GContent, BegunContent
<1>2. CASE c.state = "GcmIVprocessing"
  <2>1. d = [c EXCEPT !.counter = k, !.ecounter0 = E(k), !.state = "GcmAADprocessing",
                      !.aadLen = 0, !.bufLen = 0]
    BY <1>2 DEF IVCompleted
  <2>2. ~g.begun /\ c.aadLen = 0 /\ g.aad = 0
    BY <1>2 DEF GInv, Phases
  <2>3. IVContent(c, g)
    BY <1>2 DEF GContent
  <2>4. k = J0(h)
    <3>1. CASE g.iv = CtrPos
      <4>1. k = J0(g)
        BY <2>3, <3>1, ShortIV
      <4>2. J0(h) = J0(g)
        BY <3>1 DEF J0, GCMOneCall!J0
      <4> QED BY <4>1, <4>2
    <3>2. CASE g.iv # CtrPos
      <4>1. h.low = low
        BY <2>2
      <4>2. FinalCounter(c, h.low) = J0(h)
        BY <2>3, <3>2, HashedIV
      <4> QED BY <4>1, <4>2
    <3> QED BY <3>1, <3>2
  <2>5. Mask(h) = E(k)
    BY <2>4 DEF Mask, GCMOneCall!Mask, J0, E
  <2> HIDE DEF k
  <2>6. /\ d.counter.iv = k.iv /\ d.ecounter0 = E(k) /\ d.bufLen = 0 /\ d.ghash = c.ghash
    BY <2>1 DEF GInv, IsContext
  <2> HIDE DEF d
  <2>7. AADContent(d, g)
    <3>1. AADBytes(g) = <<>>
      BY <2>2, EmptyPiece DEF AADBytes
    <3> QED BY <2>3, <2>6, <3>1, ZeroHolding DEF AADContent, IVContent
  <2>8. BegunContent(d, h)
    BY <2>4, <2>5, <2>6 DEF BegunContent
  <2> QED BY <2>7, <2>8 DEF d
<1> QED
  BY <1>1, <1>2

\* ippsAES_GCMProcessAAD.
LEMMA ProcessAADContent ==
    ASSUME NEW c, NEW g, GInv(c, g), GContent(c, g), NEW n \in Nat, NEW low,
           AcceptsAAD(c, n)
    PROVE  GContent(WithAAD([c |-> c, g |-> g], n, low).c,
                    WithAAD([c |-> c, g |-> g], n, low).g)
<1> DEFINE s == Piece("aad", g.id, g.aad, n)
           d == IVCompleted(c, low)
           e == ProcessAAD(c, s, low)
           w == IF g.begun THEN g.low ELSE low
           h == [g EXCEPT !.aad = @ + n, !.begun = TRUE, !.low = w]
           T == GivenBytes(g.id)
           f == Feed(d.ghash, d.bufLen, s)
<1>1. /\ WithAAD([c |-> c, g |-> g], n, low).c = e
      /\ WithAAD([c |-> c, g |-> g], n, low).g = h
  BY DEF WithAAD
<1>2. /\ c.state \in {"GcmIVprocessing", "GcmAADprocessing"}
      /\ g.aad \in Nat /\ g.iv > 0
  BY DEF AcceptsAAD, GInv, IsGiven
<1>3. s \in Seq(T) /\ {} \notin T
  <2>1. "aad" \in {"iv", "aad", "enc", "dec"}
    OBVIOUS
  <2> QED BY <1>2, <2>1, GivenPiece, NoZeroGiven
<1>4. h.id = g.id /\ h.iv = g.iv /\ h.aad = g.aad + n /\ h.low = w
  <2> HIDE DEF w
  <2> QED BY DEF GInv, IsGiven
<1> HIDE DEF h
<1>5. BegunContent(d, h) /\ AADContent(d, g)
  BY <1>2, <1>4, CompletionContent
<1>6. Holding(T, f.reg, f.buf, <<>>, Join(AADBytes(g), s))
  <2> HIDE DEF s, T, d
  <2> QED BY <1>3, <1>5, FeedHolding DEF AADContent, T
<1>7. /\ e.state = "GcmAADprocessing" /\ e.counter.iv = d.counter.iv /\ e.bufLen = f.buf
      /\ e.ghash = f.reg /\ e.ecounter0 = d.ecounter0
  <2>1. e = [d EXCEPT !.ghash = f.reg, !.bufLen = f.buf, !.aadLen = @ + Len(s)]
    BY DEF ProcessAAD
  <2>2. IsContext(d) /\ d.state = "GcmAADprocessing"
    <3>1. CASE c.state = "GcmAADprocessing"
      BY <3>1 DEF IVCompleted, GInv
    <3>2. CASE c.state = "GcmIVprocessing"
      <4> DEFINE k == FinalCounter(c, low)
      <4>1. d = [c EXCEPT !.counter = k, !.ecounter0 = E(k), !.state = "GcmAADprocessing",
                          !.aadLen = 0, !.bufLen = 0]
        BY <3>2 DEF IVCompleted
      <4>2. k = [x \in {"iv", "n"} |-> k[x]]
        <5>1. CASE c.ivLen = CtrPos
          <6>1. k = [c.counter EXCEPT !.n = 1]
            BY <5>1 DEF FinalCounter
          <6> HIDE DEF k
          <6> QED BY <6>1 DEF GInv, IsContext
        <5>2. CASE c.ivLen # CtrPos
          BY <5>2 DEF FinalCounter
        <5> QED BY <5>1, <5>2
      <4> HIDE DEF d, k
      <4> QED BY <4>1, <4>2 DEF GInv, IsContext
    <3> QED BY <1>2, <3>1, <3>2
  <2> HIDE DEF e, d, f, s
  <2> QED BY <2>1, <2>2 DEF IsContext
<1>8. AADBytes(h) = Join(AADBytes(g), s)
  BY <1>2, <1>4, PieceJoin DEF AADBytes
<1>9. BegunContent(e, h)
  <2> HIDE DEF e, d, f
  <2> QED BY <1>5, <1>7 DEF BegunContent
<1>10. AADContent(e, h)
  <2> HIDE DEF e, d, f, s
  <2> QED BY <1>4, <1>6, <1>7, <1>8 DEF AADContent
<1> HIDE DEF e, d, f, s
<1> QED
  BY <1>1, <1>7, <1>9, <1>10 DEF GContent

-----------------------------------------------------------------------------
(* Text: the key stream byte by byte. *)

\* The counter block of text block a (from 0 on), after the first, j.
Counter(j, a) == [j EXCEPT !.n = (@ + 1 + a) % CounterMod]

\* The byte of the key stream at place p of the text.
Key(j, p) == {<<"E", Counter(j, (p - 1) \div BlockSize), ((p - 1) % BlockSize) + 1>>}

\* src under the key stream from place p + 1 on.
Cipher(j, p, src) == [i \in 1..Len(src) |-> Xor(src[i], Key(j, p + i))]

SourceBytes(id) == {{<<d, id, i>>} : d \in {"enc", "dec"}, i \in Int}

IsJ0(j) == j = [iv |-> j.iv, n |-> j.n] /\ j.n \in 0..CounterMod - 1

\* A text byte is not zero, nor is one under the key stream.
LEMMA NoZeroText == \A id, j : {} \notin TextBytes(id, j)
<1> SUFFICES ASSUME NEW id, NEW j, {} \in TextBytes(id, j) PROVE FALSE
  OBVIOUS
<1> DEFINE S == {CipherByte(id, j, d, i, n, l) :
                    d \in {"enc", "dec"}, i \in Int, n \in Int, l \in Int}
<1>0. {} \in S
  <2>1. {} \in GivenBytes(id) \cup S
    BY DEF TextBytes
  <2> HIDE DEF S
  <2> QED BY <2>1, NoZeroGiven
<1>1. PICK d \in {"enc", "dec"}, i \in Int, n \in Int, l \in Int :
            {} = CipherByte(id, j, d, i, n, l)
  BY <1>0
<1> DEFINE k == [j EXCEPT !.n = n]
<1> HIDE DEF k
<1>2. <<d, id, i>> # <<"E", k, l>>
  OBVIOUS
<1>3. <<d, id, i>> \in Xor({<<d, id, i>>}, {<<"E", k, l>>})
  BY <1>2 DEF Xor
<1>4. {} = Xor({<<d, id, i>>}, {<<"E", k, l>>})
  BY <1>1 DEF CipherByte, k
<1> QED
  BY <1>3, <1>4

\* The bytes of the key stream are those of the counter blocks.
LEMMA KeyPlace ==
    ASSUME NEW j, NEW a \in Nat, NEW i \in 1..BlockSize
    PROVE  Key(j, BlockSize * a + i) = {<<"E", Counter(j, a), i>>}
<1>1. BlockSize \in Nat \ {0} /\ BlockSize * a \in Nat /\ i - 1 \in 0..BlockSize - 1
  BY BlockConstants
<1>2. BlockSize * a + i - 1 = BlockSize * a + (i - 1)
  BY <1>1
<1>3. /\ (BlockSize * a + (i - 1)) \div BlockSize = a
      /\ (BlockSize * a + (i - 1)) % BlockSize = i - 1
  BY <1>1, OnlyOnePlace
<1>4. i - 1 + 1 = i
  OBVIOUS
<1> DEFINE p == BlockSize * a + i
<1>5. (p - 1) \div BlockSize = a /\ ((p - 1) % BlockSize) + 1 = i
  <2> DEFINE q == BlockSize * a
  <2>1. p = q + i /\ q \in Nat
    BY <1>1
  <2> HIDE DEF p, q
  <2>2. p - 1 = q + (i - 1)
    BY <2>1
  <2> QED BY <1>3, <1>4, <2>2 DEF q
<1> HIDE DEF p
<1>6. Key(j, p) = {<<"E", Counter(j, a), i>>}
  BY <1>5 DEF Key
<1> QED
  BY <1>6 DEF p

\* What the key stream is XORed onto stays a sequence of text bytes.
LEMMA CipherBytes ==
    ASSUME NEW id, NEW j, IsJ0(j), NEW p \in Nat, NEW src \in Seq(SourceBytes(id))
    PROVE  /\ Cipher(j, p, src) \in Seq(TextBytes(id, j))
           /\ src \in Seq(TextBytes(id, j))
           /\ Len(Cipher(j, p, src)) = Len(src)
<1>1. Len(src) \in Nat /\ \A i \in 1..Len(src) : src[i] \in SourceBytes(id)
  OBVIOUS
<1>2. ASSUME NEW i \in 1..Len(src)
      PROVE  Xor(src[i], Key(j, p + i)) \in TextBytes(id, j)
  <2>1. PICK d \in {"enc", "dec"}, k \in Int : src[i] = {<<d, id, k>>}
    BY <1>1 DEF SourceBytes
  <2>2. p + i - 1 \in Nat
    BY <1>1
  <2> DEFINE z == (p + i - 1) \div BlockSize
             l == ((p + i - 1) % BlockSize) + 1
             n == (j.n + 1 + z) % CounterMod
  <2>3. z \in Nat /\ l \in Int
    <3>1. (p + i - 1) % BlockSize \in 0..BlockSize - 1 /\ z \in Nat
      BY <2>2, BlocksAndRest
    <3> HIDE DEF z
    <3> QED BY <3>1
  <2>4. n \in Int
    <3>1. j.n + 1 + z \in Nat /\ CounterMod \in Nat \ {0}
      BY <2>3, GCMConstants DEF IsJ0
    <3> DEFINE y == j.n + 1 + z
    <3> HIDE DEF y
    <3>2. y % CounterMod \in 0..CounterMod - 1
      BY <3>1, QuotientAndRest DEF y
    <3>3. n = y % CounterMod
      BY DEF y
    <3> HIDE DEF n
    <3> QED BY <3>1, <3>2, <3>3
  <2>5. Key(j, p + i) = {<<"E", [j EXCEPT !.n = n], l>>}
    BY DEF Key, Counter
  <2> HIDE DEF n, l, z
  <2>6. Xor(src[i], Key(j, p + i)) = CipherByte(id, j, d, k, n, l)
    BY <2>1, <2>5 DEF CipherByte
  <2>7. CipherByte(id, j, d, k, n, l) \in TextBytes(id, j)
    BY <2>1, <2>3, <2>4 DEF TextBytes
  <2> QED BY <2>6, <2>7
<1>3. Cipher(j, p, src) \in Seq(TextBytes(id, j)) /\ Len(Cipher(j, p, src)) = Len(src)
  <2> DEFINE T == TextBytes(id, j)
  <2>1. \A i \in 1..Len(src) : Xor(src[i], Key(j, p + i)) \in T
    BY <1>2
  <2> HIDE DEF T
  <2>2. Cipher(j, p, src) \in Seq(T) /\ Len(Cipher(j, p, src)) = Len(src)
    BY <1>1, <2>1 DEF Cipher
  <2> QED BY <2>2 DEF T
<1>4. src \in Seq(TextBytes(id, j))
  <2>1. SourceBytes(id) \subseteq TextBytes(id, j)
    BY DEF SourceBytes, TextBytes, GivenBytes
  <2> QED BY <2>1, LargerSeq
<1> QED
  BY <1>3, <1>4

\* The key stream goes on where it was.
LEMMA CipherJoin ==
    ASSUME NEW id, NEW j, IsJ0(j), NEW p \in Nat,
           NEW s \in Seq(SourceBytes(id)), NEW t \in Seq(SourceBytes(id))
    PROVE  Cipher(j, p, Join(s, t)) = Join(Cipher(j, p, s), Cipher(j, p + Len(s), t))
<1> DEFINE T == TextBytes(id, j)
           x == Cipher(j, p, s)
           y == Cipher(j, p + Len(s), t)
           z == Cipher(j, p, s \o t)
           u == s \o t
<1>1. /\ Len(s) \in Nat /\ Len(t) \in Nat /\ u \in Seq(SourceBytes(id))
      /\ Len(u) = Len(s) + Len(t)
      /\ \A i \in 1..Len(s) + Len(t) : u[i] = IF i <= Len(s) THEN s[i] ELSE t[i - Len(s)]
  BY ConcatProperties
<1>2. p + Len(s) \in Nat
  BY <1>1
<1> HIDE DEF u
<1>3. /\ x \in Seq(T) /\ Len(x) = Len(s) /\ y \in Seq(T) /\ Len(y) = Len(t)
      /\ Cipher(j, p, u) \in Seq(T) /\ Len(Cipher(j, p, u)) = Len(s) + Len(t)
  <2> HIDE DEF T
  <2> QED BY <1>1, <1>2, CipherBytes DEF T
<1>4. /\ \A i \in 1..Len(s) : x[i] = Xor(s[i], Key(j, p + i))
      /\ \A i \in 1..Len(t) : y[i] = Xor(t[i], Key(j, p + Len(s) + i))
      /\ \A i \in 1..Len(s) + Len(t) : Cipher(j, p, u)[i] = Xor(u[i], Key(j, p + i))
  BY <1>1 DEF Cipher
<1> DEFINE v == Cipher(j, p, u)
<1> HIDE DEF T, x, y, v
<1>5. /\ x \o y \in Seq(T) /\ Len(x \o y) = Len(s) + Len(t)
      /\ \A i \in 1..Len(s) + Len(t) : (x \o y)[i] = IF i <= Len(s) THEN x[i] ELSE y[i - Len(s)]
  <2>1. /\ x \o y \in Seq(T) /\ Len(x \o y) = Len(x) + Len(y)
        /\ \A i \in 1..Len(x) + Len(y) :
             (x \o y)[i] = IF i <= Len(x) THEN x[i] ELSE y[i - Len(x)]
    BY <1>3, ConcatProperties
  <2> QED BY <1>3, <2>1
<1>6. ASSUME NEW i \in 1..Len(s) + Len(t) PROVE v[i] = (x \o y)[i]
  <2>1. v[i] = Xor(u[i], Key(j, p + i))
    BY <1>4 DEF v
  <2>2. CASE i <= Len(s)
    <3>1. i \in 1..Len(s)
      BY <1>1, <2>2
    <3> QED BY <1>1, <1>4, <1>5, <2>1, <2>2, <3>1
  <2>3. CASE ~(i <= Len(s))
    <3>1. i - Len(s) \in 1..Len(t) /\ p + Len(s) + (i - Len(s)) = p + i
      BY <1>1, <2>3
    <3>2. y[i - Len(s)] = Xor(t[i - Len(s)], Key(j, p + Len(s) + (i - Len(s))))
      BY <1>4, <3>1
    <3>3. u[i] = t[i - Len(s)] /\ (x \o y)[i] = y[i - Len(s)]
      BY <1>1, <1>5, <2>3
    <3> QED BY <2>1, <3>1, <3>2, <3>3
  <2> QED BY <2>2, <2>3
<1>7. v = x \o y
  <2>1. v \in Seq(T) /\ Len(v) = Len(x \o y)
    BY <1>3, <1>5 DEF v
  <2> QED BY <1>3, <1>5, <1>6, <2>1, SeqEqual
<1> QED
  BY <1>7 DEF v, x, y, u, Join

\* What is authenticated of two pieces.
LEMMA AuthenticatedJoin ==
    \A s, t, x, y, dir :
        Authenticated(Join(s, t), Join(x, y), dir)
            = Join(Authenticated(s, x, dir), Authenticated(t, y, dir))
BY DEF Authenticated

-----------------------------------------------------------------------------
(* The steps of a text call. *)

\* The context within a text call: block a of the text is open, its counter
\* block is in use, and what precedes it, m, has been multiplied in.
InText(c, g, a, m, r) ==
    /\ IsContext(c)
    /\ c.counter = Counter(J0(g), a) /\ c.ecounter = E(Counter(J0(g), a))
    /\ c.ecounter0 = Mask(g)
    /\ Absorbed(TextBytes(g.id, J0(g)), c.ghash, PaddedBlocks(AADBytes(g)), m, r)
    /\ c.bufLen = Len(r) /\ Blocks(m, a)

\* The step of a text call that ends in t has added y to the bytes returned.
TextStep(t, x, y, g, a, m, r) ==
    t = [c |-> t.c, dst |-> x \o y] /\ InText(t.c, g, a, m, r)

\* What is authenticated of src at place p.
Sent(g, p, src, dir) == Authenticated(src, Cipher(J0(g), p, src), dir)

\* What is authenticated of a piece is as long, and of the text's bytes.
LEMMA SentBytes ==
    ASSUME NEW g, IsJ0(J0(g)), NEW p \in Nat, NEW src \in Seq(SourceBytes(g.id)), NEW dir
    PROVE  /\ Sent(g, p, src, dir) \in Seq(TextBytes(g.id, J0(g)))
           /\ Len(Sent(g, p, src, dir)) = Len(src)
BY CipherBytes DEF Sent, Authenticated

\* Bytes for the open block.
LEMMA PartialTextHolds ==
    ASSUME NEW g, IsJ0(J0(g)), NEW c, NEW a, NEW m, NEW r, InText(c, g, a, m, r),
           NEW src \in Seq(SourceBytes(g.id)), Len(r) + Len(src) <= BlockSize,
           NEW dir, NEW x, NEW p, At(p, a, r)
    PROVE  TextStep(PartialText([c |-> c, dst |-> x], src, dir), x, Cipher(J0(g), p, src),
                    g, a, m, Join(r, Sent(g, p, src, dir)))
<1> DEFINE j   == J0(g)
           T   == TextBytes(g.id, j)
           dst == [i \in DOMAIN src |-> Xor(src[i], c.ecounter[c.bufLen + i])]
           o   == XorReg(c.ghash, c.bufLen, Authenticated(src, dst, dir))
           d   == [c EXCEPT !.ghash = o, !.bufLen = @ + Len(src), !.txtLen = @ + Len(src)]
<1>1. PartialText([c |-> c, dst |-> x], src, dir) = [c |-> d, dst |-> x \o dst]
  BY DEF PartialText
<1>2. /\ a \in Nat /\ Len(r) \in Nat /\ Len(src) \in Nat /\ DOMAIN src = 1..Len(src)
      /\ BlockSize \in Nat /\ c.bufLen = Len(r) /\ c.ecounter = E(Counter(j, a))
      /\ r \in Seq(T)
  BY BlockConstants DEF InText, Absorbed, Blocks
<1>3. p \in Nat /\ p = BlockSize * a + Len(r)
  BY <1>2 DEF At
<1>4. dst = Cipher(j, p, src)
  <2>1. ASSUME NEW i \in 1..Len(src)
        PROVE  c.ecounter[c.bufLen + i] = Key(j, p + i)
    <3>1. Len(r) + i \in 1..BlockSize
      BY <1>2
    <3>2. c.ecounter[Len(r) + i] = {<<"E", Counter(j, a), Len(r) + i>>}
      <4> DEFINE k == Counter(j, a)
      <4> HIDE DEF k
      <4> QED BY <1>2, <3>1 DEF E, k
    <3>3. Key(j, BlockSize * a + (Len(r) + i)) = {<<"E", Counter(j, a), Len(r) + i>>}
      <4> DEFINE y == Len(r) + i
      <4>1. y \in 1..BlockSize /\ a \in Nat
        BY <1>2, <3>1
      <4> HIDE DEF y, j
      <4>2. Key(j, BlockSize * a + y) = {<<"E", Counter(j, a), y>>}
        BY <4>1, KeyPlace
      <4> QED BY <4>2 DEF y
    <3>4. BlockSize * a + (Len(r) + i) = p + i
      <4> DEFINE q == BlockSize * a
      <4>1. q \in Nat /\ p = q + Len(r)
        BY <1>2, <1>3
      <4> HIDE DEF q
      <4>2. q + (Len(r) + i) = p + i
        <5>1. Len(r) \in Nat /\ i \in Nat
          BY <1>2
        <5> QED BY <4>1, <5>1
      <4> QED BY <4>2 DEF q
    <3> QED BY <1>2, <3>2, <3>3, <3>4
  <2> HIDE DEF j
  <2> QED BY <1>2, <2>1 DEF Cipher
<1> HIDE DEF dst
<1>5. Authenticated(src, dst, dir) = Sent(g, p, src, dir)
  BY <1>4 DEF Sent
<1> DEFINE s == Sent(g, p, src, dir)
<1>6. s \in Seq(T) /\ Len(s) = Len(src)
  BY <1>3, SentBytes
<1> HIDE DEF s
<1>7. Absorbed(T, o, PaddedBlocks(AADBytes(g)), m, Join(r, s))
  <2>1. Absorbed(T, XorReg(c.ghash, Len(r), s), PaddedBlocks(AADBytes(g)), m, Join(r, s))
    <3>1. Len(r) + Len(s) <= BlockSize
      BY <1>6
    <3>2. Absorbed(T, c.ghash, PaddedBlocks(AADBytes(g)), m, r)
      BY DEF InText
    <3> HIDE DEF T
    <3> QED BY <1>6, <3>1, <3>2, AbsorbBytes
  <2> QED BY <1>2, <1>5, <2>1 DEF s
<1>8. Len(Join(r, s)) = Len(r) + Len(src)
  <2> HIDE DEF T
  <2>1. r \in Seq(T) /\ s \in Seq(T)
    BY <1>2, <1>6
  <2>2. Len(Join(r, s)) = Len(r) + Len(s)
    BY <2>1, JoinLengths
  <2> QED BY <1>6, <2>2
<1> HIDE DEF o
<1>9. InText(d, g, a, m, Join(r, s))
  <2> DEFINE v == d
  <2>1. v = [c EXCEPT !.ghash = o, !.bufLen = @ + Len(src), !.txtLen = @ + Len(src)]
    OBVIOUS
  <2> HIDE DEF v, d
  <2>2. /\ IsContext(v) /\ v.counter = c.counter /\ v.ecounter = c.ecounter
        /\ v.ecounter0 = c.ecounter0 /\ v.ghash = o /\ v.bufLen = c.bufLen + Len(src)
    BY <2>1 DEF InText, IsContext
  <2>3. InText(v, g, a, m, Join(r, s))
    BY <1>2, <1>7, <1>8, <2>2 DEF InText
  <2> QED BY <2>3 DEF v
<1> HIDE DEF d, s
<1> DEFINE y == PartialText([c |-> c, dst |-> x], src, dir)
<1>10. y = [c |-> d, dst |-> x \o Cipher(j, p, src)]
  BY <1>1, <1>4
<1> HIDE DEF y
<1>11. y.c = d
  BY <1>10
<1> QED
  BY <1>9, <1>10, <1>11 DEF s, y, TextStep

\* The next counter block.
LEMMA NextBlockHolds ==
    ASSUME NEW g, IsJ0(J0(g)), NEW a \in Nat, NEW c, IsContext(c),
           c.counter = Counter(J0(g), a)
    PROVE  LET d == NextCounterBlock(c)
           IN /\ IsContext(d)
              /\ d.counter = Counter(J0(g), a + 1) /\ d.ecounter = E(Counter(J0(g), a + 1))
              /\ d.ghash = c.ghash /\ d.bufLen = c.bufLen /\ d.ecounter0 = c.ecounter0
<1> DEFINE j == J0(g)
           k == IncrementCounter32(c.counter)
           d == NextCounterBlock(c)
<1>1. k = Counter(j, a + 1)
  <2>1. /\ j = [iv |-> j.iv, n |-> j.n] /\ j.n \in Nat /\ CounterMod \in Nat \ {0}
    BY GCMConstants DEF IsJ0
  <2> HIDE DEF j
  <2>2. Counter(j, a) = [iv |-> j.iv, n |-> (j.n + 1 + a) % CounterMod]
    BY <2>1 DEF Counter
  <2>3. Counter(j, a + 1) = [iv |-> j.iv, n |-> (j.n + 1 + (a + 1)) % CounterMod]
    BY <2>1 DEF Counter
  <2>4. (((j.n + 1 + a) % CounterMod) + 1) % CounterMod = (j.n + 1 + (a + 1)) % CounterMod
    <3> DEFINE y == j.n + 1 + a
    <3>1. y \in Nat /\ y + 1 = j.n + 1 + (a + 1) /\ 1 \in Nat
      BY <2>1
    <3> HIDE DEF y
    <3>2. ((y % CounterMod) + 1) % CounterMod = (y + 1) % CounterMod
      BY <2>1, <3>1, AddAfterRest
    <3> QED BY <3>1, <3>2 DEF y
  <2> DEFINE u == (j.n + 1 + a) % CounterMod
             w == (j.n + 1 + (a + 1)) % CounterMod
  <2>5. Counter(j, a) = [iv |-> j.iv, n |-> u] /\ Counter(j, a + 1) = [iv |-> j.iv, n |-> w]
        /\ (u + 1) % CounterMod = w
    BY <2>2, <2>3, <2>4
  <2> HIDE DEF u, w
  <2>6. IncrementCounter32([iv |-> j.iv, n |-> u]) = [iv |-> j.iv, n |-> (u + 1) % CounterMod]
    BY DEF IncrementCounter32
  <2> QED BY <2>5, <2>6 DEF j
<1>2. d = [c EXCEPT !.counter = k, !.ecounter = E(k)]
  BY DEF NextCounterBlock
<1> HIDE DEF d, k, j
<1>3. /\ d = [x \in {"state", "ivLen", "aadLen", "txtLen", "bufLen", "counter", "ecounter0",
                     "ecounter", "ghash"} |-> d[x]]
      /\ d.counter = k /\ d.ecounter = E(k)
      /\ d.ghash = c.ghash /\ d.bufLen = c.bufLen /\ d.ecounter0 = c.ecounter0
  BY <1>2 DEF IsContext
<1>4. d.counter = [x \in {"iv", "n"} |-> d.counter[x]]
  <2>1. k = [c.counter EXCEPT !.n = (@ + 1) % CounterMod]
    BY DEF k, IncrementCounter32
  <2> QED BY <1>3, <2>1 DEF IsContext
<1> QED
  BY <1>1, <1>3, <1>4 DEF IsContext, d, j

\* A full block is closed and the next counter block made.
LEMMA CloseFullBlockHolds ==
    ASSUME NEW g, IsJ0(J0(g)), NEW c, NEW a, NEW m, NEW r, InText(c, g, a, m, r), NEW x
    PROVE  LET t == CloseFullBlock([c |-> c, dst |-> x])
           IN /\ t = [c |-> t.c, dst |-> x]
              /\ Len(r) # BlockSize => t.c = c
              /\ Len(r) = BlockSize => InText(t.c, g, a + 1, Join(m, r), <<>>)
<1> DEFINE T == TextBytes(g.id, J0(g))
           t == CloseFullBlock([c |-> c, dst |-> x])
<1>1. /\ c.bufLen = Len(r) /\ Len(r) \in 0..BlockSize /\ BlockSize \in Nat /\ m \in Seq(T)
      /\ r \in Seq(T) /\ a \in Nat /\ Absorbed(T, c.ghash, PaddedBlocks(AADBytes(g)), m, r)
  BY BlockConstants DEF InText, Absorbed, Blocks
<1>2. CASE Len(r) # BlockSize
  <2>1. c.bufLen < BlockSize
    BY <1>1, <1>2
  <2>2. t = [c |-> c, dst |-> x]
    BY <2>1 DEF CloseFullBlock
  <2> HIDE DEF t
  <2>3. t.c = c
    BY <2>2
  <2> QED BY <1>2, <2>2, <2>3 DEF t
<1>3. CASE Len(r) = BlockSize
  <2> DEFINE o == Mul(c.ghash)
             e == [c EXCEPT !.ghash = o, !.bufLen = 0]
             d == NextCounterBlock(e)
  <2>1. ~(c.bufLen < BlockSize)
    BY <1>1, <1>3
  <2>2. t = [c |-> d, dst |-> x]
    <3>1. t = [[c |-> c, dst |-> x] EXCEPT !.c = d]
      BY <2>1 DEF CloseFullBlock
    <3> HIDE DEF d, t
    <3> QED BY <3>1
  <2> HIDE DEF o, t
  <2>3. /\ IsContext(e) /\ e.counter = c.counter /\ e.ghash = o /\ e.bufLen = 0
        /\ e.ecounter0 = c.ecounter0
    BY DEF InText, IsContext
  <2>4. c.counter = Counter(J0(g), a)
    BY DEF InText
  <2> HIDE DEF e
  <2>5. /\ IsContext(d) /\ d.counter = Counter(J0(g), a + 1)
        /\ d.ecounter = E(Counter(J0(g), a + 1))
        /\ d.ghash = o /\ d.bufLen = 0 /\ d.ecounter0 = c.ecounter0
    BY <1>1, <2>3, <2>4, NextBlockHolds
  <2>6. Absorbed(T, o, PaddedBlocks(AADBytes(g)), Join(m, r), <<>>)
    BY <1>1, <1>3, NoZeroText, AbsorbFull DEF o
  <2>7. Blocks(Join(m, r), a + 1)
    <3>1. Blocks(m, a) /\ Len(r) = 1 * BlockSize
      BY <1>1, <1>3 DEF InText
    <3> HIDE DEF T
    <3> QED BY <1>1, <3>1, MoreBlocks
  <2>8. Len(<<>>) = 0 /\ c.ecounter0 = Mask(g)
    BY DEF InText
  <2> HIDE DEF d
  <2>9. InText(d, g, a + 1, Join(m, r), <<>>)
    BY <2>5, <2>6, <2>7, <2>8 DEF InText
  <2>10. t.c = d
    BY <2>2
  <2> QED BY <1>3, <2>2, <2>9, <2>10 DEF t
<1> QED
  BY <1>2, <1>3

\* Whole blocks, if there are any onto an empty open block.
LEMMA WholeTextHolds ==
    ASSUME NEW g, IsJ0(J0(g)), NEW c, NEW a, NEW m, NEW r, InText(c, g, a, m, r),
           NEW src \in Seq(SourceBytes(g.id)), NEW q \in Nat, Len(src) = q * BlockSize,
           r = <<>> \/ src = <<>>,
           NEW dir, NEW x, NEW p, At(p, a, <<>>)
    PROVE  TextStep(WholeText([c |-> c, dst |-> x], src, dir), x, Cipher(J0(g), p, src),
                    g, a + q, Join(m, Sent(g, p, src, dir)), r)
<1> DEFINE B   == BlockSize
           j   == J0(g)
           T   == TextBytes(g.id, j)
           z   == Len(src) \div B
           at  == [l \in 0..z |-> [c.counter EXCEPT !.n = (@ + l) % CounterMod]]
           ks  == [l \in 0..z |-> IF l = 0 THEN c.ecounter ELSE E(at[l])]
           dst == [i \in DOMAIN src |->
                     Xor(src[i], ks[(i - 1) \div B][((i - 1) % B) + 1])]
           o   == Auth(c.ghash, Authenticated(src, dst, dir))
           d   == [c EXCEPT !.ghash = o, !.counter = at[z], !.ecounter = ks[z],
                            !.txtLen = @ + Len(src)]
<1>1. WholeText([c |-> c, dst |-> x], src, dir) = [c |-> d, dst |-> x \o dst]
  BY DEF WholeText
<1>2. /\ a \in Nat /\ Len(src) \in Nat /\ DOMAIN src = 1..Len(src) /\ B \in Nat \ {0}
      /\ m \in Seq(T) /\ c.bufLen = Len(r) /\ Blocks(m, a)
      /\ c.counter = Counter(j, a) /\ c.ecounter = E(Counter(j, a))
      /\ Absorbed(T, c.ghash, PaddedBlocks(AADBytes(g)), m, r)
  BY BlockConstants DEF InText, Absorbed, Blocks
<1>3. z = q
  <2>1. B * q + 0 = Len(src) /\ 0 \in 0..B - 1
    BY <1>2
  <2>2. (B * q + 0) \div B = q
    BY <1>2, <2>1, OnlyOnePlace
  <2> QED BY <2>1, <2>2
<1>4. p \in Nat /\ p = BlockSize * a
  <2> DEFINE y == BlockSize * a
  <2>1. y \in Nat /\ p = y + 0
    BY <1>2 DEF At
  <2> HIDE DEF y
  <2> QED BY <2>1 DEF y
<1>5. \A l \in 0..q : [Counter(j, a) EXCEPT !.n = (@ + l) % CounterMod] = Counter(j, a + l)
  <2> TAKE l \in 0..q
  <2>1. /\ j = [iv |-> j.iv, n |-> j.n] /\ j.n \in Nat /\ CounterMod \in Nat \ {0} /\ l \in Nat
    BY GCMConstants DEF IsJ0
  <2> HIDE DEF j
  <2> DEFINE u == (j.n + 1 + a) % CounterMod
             w == (j.n + 1 + (a + l)) % CounterMod
             y == j.n + 1 + a
  <2>2. Counter(j, a) = [iv |-> j.iv, n |-> u] /\ Counter(j, a + l) = [iv |-> j.iv, n |-> w]
    BY <2>1 DEF Counter
  <2>3. (u + l) % CounterMod = w
    <3>1. y \in Nat /\ y + l = j.n + 1 + (a + l)
      BY <1>2, <2>1
    <3> HIDE DEF y
    <3>2. ((y % CounterMod) + l) % CounterMod = (y + l) % CounterMod
      BY <2>1, <3>1, AddAfterRest
    <3> QED BY <3>1, <3>2 DEF y
  <2> HIDE DEF u, w
  <2>4. [[iv |-> j.iv, n |-> u] EXCEPT !.n = (@ + l) % CounterMod]
           = [iv |-> j.iv, n |-> (u + l) % CounterMod]
    OBVIOUS
  <2> QED BY <2>2, <2>3, <2>4
<1>6. \A l \in 0..q : at[l] = Counter(j, a + l)
  BY <1>2, <1>3, <1>5
<1>7. \A l \in 0..q : ks[l] = E(Counter(j, a + l))
  <2> TAKE l \in 0..q
  <2>1. ks[l] = IF l = 0 THEN c.ecounter ELSE E(at[l])
    BY <1>3
  <2>2. a + 0 = a
    BY <1>2
  <2> HIDE DEF ks, at, j
  <2> QED BY <1>2, <1>6, <2>1, <2>2
<1>8. dst = Cipher(j, p, src)
  <2>1. ASSUME NEW i \in 1..Len(src)
        PROVE  ks[(i - 1) \div B][((i - 1) % B) + 1] = Key(j, p + i)
    <3> DEFINE l == (i - 1) \div B
               e == ((i - 1) % B) + 1
    <3>1. /\ i - 1 \in Nat /\ l \in Nat /\ e \in 1..B /\ i = B * l + e
      <4> DEFINE f == (i - 1) % B
      <4>1. i - 1 \in Nat
        OBVIOUS
      <4>2. l \in Nat /\ f \in 0..B - 1 /\ i - 1 = B * l + f
        BY <4>1, BlocksAndRest
      <4> HIDE DEF l
      <4> DEFINE y == B * l
      <4>3. y \in Nat
        BY <1>2, <4>2
      <4> HIDE DEF f, y
      <4>4. f + 1 \in 1..B /\ i = y + (f + 1)
        <5>1. i - 1 = y + f
          BY <4>2 DEF y
        <5> QED BY <1>2, <4>2, <4>3, <5>1
      <4> QED BY <4>1, <4>2, <4>4 DEF f, y
    <3>2. l \in 0..q
      <4>1. l < q
        <5> HIDE DEF l, e
        <5>1. B * l < B * q
          <6> DEFINE y == B * l
                     w == B * q
          <6>1. y \in Nat /\ w \in Nat /\ w = Len(src) /\ i = y + e
            BY <1>2, <3>1
          <6> HIDE DEF y, w
          <6>2. y < w
            BY <3>1, <6>1
          <6> QED BY <6>2 DEF y, w
        <5> QED BY <1>2, <3>1, <5>1
      <4> QED BY <3>1, <4>1
    <3> HIDE DEF l, e, ks
    <3>3. ks[l] = E(Counter(j, a + l))
      BY <1>7, <3>2
    <3>4. ks[l][e] = {<<"E", Counter(j, a + l), e>>}
      <4> DEFINE k == Counter(j, a + l)
      <4> HIDE DEF k
      <4>1. E(k)[e] = {<<"E", k, e>>}
        BY <3>1 DEF E
      <4> QED BY <3>3, <4>1 DEF k
    <3>5. Key(j, B * (a + l) + e) = {<<"E", Counter(j, a + l), e>>}
      <4>1. a + l \in Nat
        BY <1>2, <3>1
      <4> HIDE DEF j
      <4> QED BY <3>1, <4>1, KeyPlace
    <3>6. B * (a + l) + e = p + i
      <4> DEFINE y == B * a
                 w == B * l
      <4>1. y \in Nat /\ w \in Nat /\ B * (a + l) = y + w
        BY <1>2, <3>1
      <4>2. p = y /\ i = w + e
        BY <1>4, <3>1
      <4> HIDE DEF y, w
      <4> QED BY <3>1, <4>1, <4>2
    <3> QED BY <3>4, <3>5, <3>6 DEF l, e
  <2> HIDE DEF j, ks
  <2> QED BY <1>2, <2>1 DEF Cipher
<1> HIDE DEF dst
<1>9. Authenticated(src, dst, dir) = Sent(g, p, src, dir)
  BY <1>8 DEF Sent
<1> DEFINE s == Sent(g, p, src, dir)
<1>10. s \in Seq(T) /\ Len(s) = Len(src)
  BY <1>4, SentBytes
<1> HIDE DEF s
<1>11. Absorbed(T, o, PaddedBlocks(AADBytes(g)), Join(m, s), r)
  <2>1. Aligned(s)
    BY <1>10, AlignedLengths
  <2>2. o = Auth(c.ghash, s)
    BY <1>9 DEF s
  <2>3. CASE r = <<>>
    <3> HIDE DEF o, T
    <3> QED BY <1>2, <1>10, <2>1, <2>2, <2>3, AbsorbWhole
  <2>4. CASE src = <<>>
    <3>1. s = <<>>
      BY <1>2, <1>10, <2>4, EmptySeq
    <3>2. Join(m, <<>>) = m
      <4> HIDE DEF T
      <4> QED BY <1>2, ConcatEmptySeq DEF Join
    <3> HIDE DEF o
    <3>3. o = c.ghash
      BY <1>2, <2>2, <3>1, AbsorbNone
    <3> QED BY <1>2, <3>1, <3>2, <3>3
  <2> QED BY <2>3, <2>4
<1>12. Blocks(Join(m, s), a + q)
  <2> HIDE DEF T
  <2> QED BY <1>2, <1>10, MoreBlocks
<1> HIDE DEF o
<1>13. InText(d, g, a + q, Join(m, s), r)
  <2> DEFINE k == at[z]
             f == ks[z]
  <2>1. k = Counter(j, a + q) /\ f = E(Counter(j, a + q))
    <3>1. q \in 0..q
      OBVIOUS
    <3> HIDE DEF at, ks, z
    <3> QED BY <1>3, <1>6, <1>7, <3>1
  <2> DEFINE v == [c EXCEPT !.ghash = o, !.counter = k, !.ecounter = f,
                            !.txtLen = @ + Len(src)]
  <2>2. v = d
    OBVIOUS
  <2> HIDE DEF k, f, d
  <2>3. v = [c EXCEPT !.ghash = o, !.counter = k, !.ecounter = f, !.txtLen = @ + Len(src)]
    OBVIOUS
  <2> HIDE DEF v
  <2>4. /\ v = [y \in {"state", "ivLen", "aadLen", "txtLen", "bufLen", "counter", "ecounter0",
                       "ecounter", "ghash"} |-> v[y]]
        /\ v.counter = k /\ v.ecounter = f
        /\ v.ecounter0 = c.ecounter0 /\ v.ghash = o /\ v.bufLen = c.bufLen
    BY <2>3 DEF InText, IsContext
  <2>5. k = [y \in {"iv", "n"} |-> k[y]]
    <3> DEFINE w == (j.n + 1 + (a + q)) % CounterMod
    <3> HIDE DEF w
    <3>1. k = [j EXCEPT !.n = w]
      BY <2>1 DEF Counter, w
    <3>2. j = [iv |-> j.iv, n |-> j.n]
      BY DEF IsJ0
    <3> HIDE DEF j
    <3>3. k = [iv |-> j.iv, n |-> w]
      BY <3>1, <3>2
    <3> QED BY <3>3
  <2>6. IsContext(v)
    BY <2>4, <2>5 DEF IsContext
  <2>7. c.ecounter0 = Mask(g)
    BY DEF InText
  <2> QED BY <1>2, <1>11, <1>12, <2>1, <2>2, <2>4, <2>6, <2>7 DEF InText
<1> HIDE DEF d, s
<1> DEFINE y == WholeText([c |-> c, dst |-> x], src, dir)
<1>14. y = [c |-> d, dst |-> x \o Cipher(j, p, src)]
  BY <1>1, <1>8
<1> HIDE DEF y
<1>15. y.c = d
  BY <1>14
<1> QED
  BY <1>13, <1>14, <1>15 DEF s, y, TextStep

\* Nothing under the key stream.
LEMMA CipherNone ==
    ASSUME NEW g
    PROVE  \A p, dir : Cipher(J0(g), p, <<>>) = <<>> /\ Sent(g, p, <<>>, dir) = <<>>
<1>1. \A p : Cipher(J0(g), p, <<>>) = <<>>
  BY DEF Cipher
<1> QED
  BY <1>1 DEF Sent, Authenticated

\* A text call: the open block, its closing, whole blocks and the rest.
LEMMA ProcessTextHolds ==
    ASSUME NEW g, IsJ0(J0(g)), NEW c0, NEW a, NEW m, NEW r, InText(OpenText(c0), g, a, m, r),
           Len(r) < BlockSize, NEW src \in Seq(SourceBytes(g.id)), NEW dir, NEW p,
           At(p, a, r)
    PROVE  LET t == ProcessText(c0, src, dir)
           IN /\ t.dst = Cipher(J0(g), p, src)
              /\ \E b, n, s : /\ InText(t.c, g, b, n, s) /\ Len(s) < BlockSize
                              /\ Join(n, s) = Join(Join(m, r), Sent(g, p, src, dir))
<1> DEFINE B   == BlockSize
           j   == J0(g)
           T   == TextBytes(g.id, j)
           S   == SourceBytes(g.id)
           c   == OpenText(c0)
           loc == IF c.bufLen = 0 THEN 0 ELSE Lesser(Len(src), B - c.bufLen)
           s0  == Take(src, loc)
           s1  == Drop(src, loc)
           k   == ((Len(src) - loc) \div B) * B
           v1  == Take(s1, k)
           v2  == Drop(src, loc + k)
           u0  == PartialText([c |-> c, dst |-> <<>>], s0, dir)
           u1  == CloseFullBlock(u0)
           u2  == WholeText(u1, v1, dir)
           u3  == PartialText(u2, v2, dir)
           d0  == Cipher(j, p, s0)
           r0  == Join(r, Sent(g, p, s0, dir))
<1>1. ProcessText(c0, src, dir) = u3
  BY DEF ProcessText
<1>2. /\ c.bufLen = Len(r) /\ r \in Seq(T) /\ m \in Seq(T) /\ Len(r) \in 0..B - 1
      /\ Len(src) \in Nat /\ B \in Nat \ {0} /\ a \in Nat /\ Len(m) = B * a
  BY BlockConstants DEF InText, Absorbed, Blocks
<1>3. /\ loc \in 0..Len(src) /\ Len(r) + loc <= B
      /\ Len(r) # 0 => (loc = Len(src) \/ Len(r) + loc = B)
      /\ Len(r) = 0 => loc = 0
  BY <1>2 DEF Lesser
<1> HIDE DEF loc
<1>4. /\ s0 \in Seq(S) /\ Len(s0) = loc /\ s1 \in Seq(S) /\ Len(s1) = Len(src) - loc
      /\ src = Join(s0, s1)
  <2>1. src \in Seq(S)
    OBVIOUS
  <2> HIDE DEF S
  <2> QED BY <1>3, <2>1, TakeDrop, TakeDropLengths DEF Join
<1>5. /\ k = (Len(s1) \div B) * B
      /\ k \in 0..Len(s1) /\ v1 \in Seq(S) /\ Len(v1) = k
      /\ Drop(s1, k) \in Seq(S) /\ Len(Drop(s1, k)) < B /\ Len(Drop(s1, k)) = Len(s1) - k
      /\ Join(v1, Drop(s1, k)) = s1
  <2>1. k = (Len(s1) \div B) * B
    BY <1>4
  <2> HIDE DEF s1, k, S
  <2> QED BY <1>4, <2>1, WholePart
<1>6. v2 = Drop(s1, k)
  <2>1. k \in 0..Len(src) - loc
    BY <1>4, <1>5
  <2> HIDE DEF k
  <2> QED BY <1>3, <2>1, DropTwice
<1>7. \E q \in Nat : Len(v1) = q * B
  <2> DEFINE q == Len(s1) \div B
  <2>1. q \in Nat
    <3>1. Len(s1) \in Nat
      BY <1>4
    <3> HIDE DEF s1
    <3> QED BY <3>1, BlocksAndRest
  <2>2. Len(v1) = q * B
    BY <1>5
  <2> HIDE DEF q, v1
  <2> QED BY <2>1, <2>2
<1>8. p \in Nat /\ p = B * a + Len(r)
  BY <1>2 DEF At
<1> HIDE DEF v1, v2, k, s0, s1, c
<1>9. /\ u0 = [c |-> u0.c, dst |-> <<>> \o d0]
      /\ InText(u0.c, g, a, m, r0)
  <2>1. Len(r) + Len(s0) <= B
    BY <1>3, <1>4
  <2> DEFINE w == PartialText([c |-> c, dst |-> <<>>], s0, dir)
  <2>2. /\ w = [c |-> w.c, dst |-> <<>> \o Cipher(J0(g), p, s0)]
        /\ InText(w.c, g, a, m, Join(r, Sent(g, p, s0, dir)))
    <3>1. InText(c, g, a, m, r)
      BY DEF c
    <3> DEFINE x == <<>>
    <3> HIDE DEF x
    <3>2. TextStep(PartialText([c |-> c, dst |-> x], s0, dir), x, Cipher(J0(g), p, s0),
                   g, a, m, Join(r, Sent(g, p, s0, dir)))
      BY <1>4, <2>1, <3>1, PartialTextHolds
    <3> QED BY <3>2 DEF x, TextStep
  <2> QED BY <2>2
<1>10. d0 \in Seq(T) /\ Len(d0) = loc /\ <<>> \o d0 = d0
       /\ Sent(g, p, s0, dir) \in Seq(T) /\ Len(Sent(g, p, s0, dir)) = loc
       /\ Len(r0) = Len(r) + loc
  <2>1. d0 \in Seq(T) /\ Len(d0) = loc
    BY <1>4, <1>8, CipherBytes
  <2>2. Sent(g, p, s0, dir) \in Seq(T) /\ Len(Sent(g, p, s0, dir)) = loc
    BY <1>4, <1>8, SentBytes
  <2> HIDE DEF T, d0
  <2>3. <<>> \o d0 = d0
    BY <2>1, ConcatEmptySeq
  <2>4. Len(r0) = Len(r) + Len(Sent(g, p, s0, dir))
    BY <1>2, <2>2, JoinLengths
  <2> QED BY <2>1, <2>2, <2>3, <2>4
<1> HIDE DEF u0, d0, r0, S
<1>11. /\ u1 = [c |-> u1.c, dst |-> d0]
       /\ Len(r0) # B => InText(u1.c, g, a, m, r0)
       /\ Len(r0) = B => InText(u1.c, g, a + 1, Join(m, r0), <<>>)
  <2> DEFINE e == u0.c
  <2>1. u0 = [c |-> e, dst |-> d0]
    BY <1>9, <1>10
  <2>2. InText(e, g, a, m, r0)
    BY <1>9
  <2> HIDE DEF e
  <2> DEFINE w == CloseFullBlock([c |-> e, dst |-> d0])
  <2>3. /\ w = [c |-> w.c, dst |-> d0]
        /\ Len(r0) # BlockSize => w.c = e
        /\ Len(r0) = BlockSize => InText(w.c, g, a + 1, Join(m, r0), <<>>)
    BY <2>2, CloseFullBlockHolds
  <2>4. u1 = w
    BY <2>1
  <2> HIDE DEF w, u1
  <2> QED BY <2>2, <2>3, <2>4
<1> PICK q \in Nat : Len(v1) = q * B
  BY <1>7
<1>12. CASE Len(r) # 0 /\ Len(r) + loc < B
  <2>1. loc = Len(src) /\ Len(s1) = 0 /\ k = 0 /\ Len(r0) # B /\ Len(r0) < B
    <3>1. loc = Len(src)
      BY <1>2, <1>3, <1>12
    <3>2. Len(s1) = 0
      BY <1>2, <1>4, <3>1
    <3>3. k = 0
      BY <1>5, <3>2
    <3>4. Len(r0) = Len(r) + loc /\ Len(r0) # B /\ Len(r0) < B
      BY <1>2, <1>3, <1>10, <1>12
    <3> QED BY <3>1, <3>2, <3>3, <3>4
  <2>2. s1 = <<>> /\ v1 = <<>> /\ v2 = <<>>
    BY <1>4, <1>5, <1>6, <2>1, EmptySeq
  <2>3. src = s0
    <3>1. Join(s0, <<>>) = s0
      BY <1>4, ConcatEmptySeq DEF Join
    <3> QED BY <1>4, <2>2, <3>1
  <2> DEFINE e == u1.c
             x == Cipher(j, B * a, <<>>)
             y == Cipher(j, p, <<>>)
  <2>4. u1 = [c |-> e, dst |-> d0] /\ InText(e, g, a, m, r0)
    BY <1>11, <2>1
  <2>5. <<>> \in Seq(S) /\ Len(<<>>) = 0 * B /\ Len(<<>>) = 0
    BY <1>2, EmptySeq
  <2>6. x = <<>> /\ y = <<>> /\ \A z : Sent(g, z, <<>>, dir) = <<>>
    BY CipherNone
  <2>7. d0 \o <<>> = d0
    BY <1>10, ConcatEmptySeq
  <2> HIDE DEF e, x, y
  <2>8. /\ u2 = [c |-> u2.c, dst |-> d0 \o x]
        /\ InText(u2.c, g, a + 0, Join(m, Sent(g, B * a, <<>>, dir)), r0)
    <3>1. At(B * a, a, <<>>)
      <4> DEFINE y1 == B * a
      <4>1. y1 \in Nat
        BY <1>2
      <4> HIDE DEF y1
      <4>2. y1 = y1 + 0
        BY <4>1
      <4> QED BY <2>5, <4>2 DEF y1, At
    <3> DEFINE y1 == B * a
    <3> HIDE DEF y1
    <3>2. TextStep(WholeText([c |-> e, dst |-> d0], <<>>, dir), d0, Cipher(J0(g), y1, <<>>),
                   g, a + 0, Join(m, Sent(g, y1, <<>>, dir)), r0)
      BY <2>4, <2>5, <3>1, WholeTextHolds DEF S, y1
    <3> QED BY <2>2, <2>4, <3>2 DEF x, y1, TextStep
  <2>9. a + 0 = a /\ Join(m, <<>>) = m /\ Join(r0, <<>>) = r0
    <3>1. r0 \in Seq(T)
      BY <1>2, <1>10, JoinLengths DEF r0
    <3> QED BY <1>2, <3>1, ConcatEmptySeq DEF Join
  <2>10. u2 = [c |-> u2.c, dst |-> d0] /\ InText(u2.c, g, a, m, r0)
    BY <2>6, <2>7, <2>8, <2>9
  <2> DEFINE f == u2.c
             z == B * a + Len(r0)
  <2> HIDE DEF f, u2
  <2>11. u2 = [c |-> f, dst |-> d0] /\ InText(f, g, a, m, r0)
    BY <2>10 DEF f
  <2>12. /\ u3 = [c |-> u3.c, dst |-> d0 \o Cipher(j, z, <<>>)]
         /\ InText(u3.c, g, a, m, Join(r0, Sent(g, z, <<>>, dir)))
    <3>1. Len(r0) + Len(<<>>) <= BlockSize
      BY <1>2, <1>10, <2>1, <2>5
    <3>2. At(z, a, r0)
      BY DEF At
    <3> HIDE DEF z
    <3>3. TextStep(PartialText([c |-> f, dst |-> d0], <<>>, dir), d0, Cipher(J0(g), z, <<>>),
                   g, a, m, Join(r0, Sent(g, z, <<>>, dir)))
      BY <2>5, <2>11, <3>1, <3>2, PartialTextHolds DEF S
    <3> QED BY <2>2, <2>11, <3>3 DEF TextStep
  <2>13. Cipher(j, z, <<>>) = <<>>
    BY CipherNone
  <2> HIDE DEF z, u3, j
  <2>14. u3 = [c |-> u3.c, dst |-> d0] /\ InText(u3.c, g, a, m, r0)
    BY <2>6, <2>7, <2>9, <2>12, <2>13
  <2>15. Join(m, r0) = Join(Join(m, r), Sent(g, p, src, dir))
    <3>1. Join(Join(m, r), Sent(g, p, s0, dir)) = Join(m, Join(r, Sent(g, p, s0, dir)))
      BY <1>2, <1>10, JoinAssociative
    <3> QED BY <2>3, <3>1 DEF r0
  <2>16. u3.dst = d0 /\ d0 = Cipher(J0(g), p, src)
    BY <2>3, <2>14 DEF d0, j
  <2> QED BY <1>1, <2>1, <2>14, <2>15, <2>16
<1>13. CASE ~(Len(r) # 0 /\ Len(r) + loc < B)
  <2> DEFINE r1 == IF Len(r0) = B THEN <<>> ELSE r0
             m1 == IF Len(r0) = B THEN Join(m, r0) ELSE m
             a1 == IF Len(r0) = B THEN a + 1 ELSE a
             p1 == p + loc
             p2 == p1 + k
             d1 == Cipher(j, p1, v1)
             d2 == Cipher(j, p2, v2)
             e1 == Sent(g, p1, v1, dir)
             e2 == Sent(g, p2, v2, dir)
             e0 == Sent(g, p, s0, dir)
             m2 == Join(m1, e1)
             e  == u1.c
  <2>1. Len(r0) = B \/ (Len(r) = 0 /\ loc = 0 /\ Len(r0) = 0)
    BY <1>2, <1>3, <1>10, <1>13
  <2>2. /\ r0 \in Seq(T) /\ Join(m, r0) \in Seq(T)
    BY <1>2, <1>10, JoinLengths DEF r0
  <2>3. r1 = <<>>
    BY <2>1, <2>2, EmptySeq
  <2>4. u1 = [c |-> e, dst |-> d0] /\ InText(e, g, a1, m1, <<>>)
    BY <1>11, <2>1, <2>3
  <2>5. p1 = B * a1 /\ a1 \in Nat /\ p1 \in Nat
    <3> DEFINE x == B * a
    <3>1. x \in Nat /\ p = x + Len(r)
      BY <1>2, <1>8
    <3>2. B * (a + 1) = x + B
      BY <1>2
    <3> HIDE DEF x
    <3>3. Len(r0) = B => p1 = x + B
      <4>1. ASSUME Len(r0) = B PROVE p + loc = x + B
        <5>1. Len(r) + loc = B /\ loc \in Nat /\ Len(r) \in Nat
          <6>1. Len(r0) = Len(r) + loc
            BY <1>10
          <6>2. loc \in Nat /\ Len(r) \in Nat
            BY <1>2, <1>3
          <6> QED BY <4>1, <6>1, <6>2
        <5> QED BY <3>1, <5>1
      <4> QED BY <4>1
    <3>4. Len(r0) # B => p1 = x
      BY <1>2, <2>1, <3>1
    <3> QED BY <1>2, <1>3, <1>8, <3>2, <3>3, <3>4 DEF x
  <2>6. m1 \in Seq(T) /\ Join(m1, <<>>) = Join(m, r0)
    <3>1. r0 # <<>> => Len(r0) = B
      BY <2>1, <2>2, EmptySeq
    <3> QED BY <1>2, <2>1, <2>2, <2>3, <3>1, ConcatEmptySeq DEF Join
  <2> HIDE DEF r1, a1, m1, p1, e
  <2>7. /\ u2 = [c |-> u2.c, dst |-> d0 \o d1]
        /\ InText(u2.c, g, a1 + q, m2, <<>>)
    <3>1. v1 \in Seq(SourceBytes(g.id)) /\ Len(v1) = q * BlockSize
      BY <1>5 DEF S
    <3>2. At(p1, a1, <<>>)
      <4> DEFINE y == B * a1
      <4>1. y \in Nat /\ p1 = y /\ Len(<<>>) = 0
        BY <2>5
      <4> HIDE DEF y
      <4>2. p1 = y + Len(<<>>)
        BY <4>1
      <4> QED BY <4>2 DEF y, At
    <3> DEFINE n == <<>>
    <3> HIDE DEF n
    <3>3. TextStep(WholeText([c |-> e, dst |-> d0], v1, dir), d0, Cipher(J0(g), p1, v1),
                   g, a1 + q, Join(m1, Sent(g, p1, v1, dir)), n)
      BY <2>4, <3>1, <3>2, WholeTextHolds DEF n
    <3> QED BY <2>4, <3>3 DEF TextStep, n
  <2> DEFINE f == u2.c
  <2>8. u2 = [c |-> f, dst |-> d0 \o d1] /\ InText(f, g, a1 + q, m2, <<>>)
    BY <2>7
  <2>9. p2 = B * (a1 + q) + Len(<<>>) /\ p2 \in Nat
    <3> DEFINE x == B * a1
               y == B * q
    <3>1. y \in Nat /\ B * (a1 + q) = x + y /\ k = y
      BY <1>2, <1>5, <2>5
    <3> HIDE DEF x, y
    <3>2. Len(<<>>) = 0
      OBVIOUS
    <3>3. p1 = x
      BY <2>5 DEF x
    <3>4. p1 + k = x + y + 0 /\ p1 + k \in Nat
      BY <2>5, <3>1, <3>3
    <3> QED BY <3>1, <3>2, <3>4
  <2> HIDE DEF p2, m2, f, u2, d1, d2
  <2>10. /\ u3 = [c |-> u3.c, dst |-> (d0 \o d1) \o d2]
         /\ InText(u3.c, g, a1 + q, m2, Join(<<>>, e2))
    <3> DEFINE x == d0 \o d1
    <3> HIDE DEF x
    <3>1. v2 \in Seq(SourceBytes(g.id)) /\ Len(<<>>) + Len(v2) <= BlockSize
      BY <1>2, <1>5, <1>6 DEF S
    <3> DEFINE n == <<>>
    <3>2. At(p2, a1 + q, n)
      BY <2>9 DEF At
    <3>3. u2 = [c |-> f, dst |-> x] /\ InText(f, g, a1 + q, m2, n)
      BY <2>8 DEF x
    <3> HIDE DEF n
    <3>4. TextStep(PartialText([c |-> f, dst |-> x], v2, dir), x, Cipher(J0(g), p2, v2),
                   g, a1 + q, m2, Join(n, Sent(g, p2, v2, dir)))
      BY <3>1, <3>2, <3>3, PartialTextHolds DEF n
    <3> QED BY <3>3, <3>4 DEF x, d2, n, TextStep
  <2>11. /\ d1 \in Seq(T) /\ d2 \in Seq(T) /\ e1 \in Seq(T) /\ e2 \in Seq(T)
         /\ Len(e2) < B
    <3>1. v1 \in Seq(SourceBytes(g.id)) /\ v2 \in Seq(SourceBytes(g.id))
      BY <1>5, <1>6 DEF S
    <3>2. d1 \in Seq(T) /\ d2 \in Seq(T)
      BY <2>5, <2>9, <3>1, CipherBytes DEF d1, d2
    <3>3. e1 \in Seq(T) /\ e2 \in Seq(T) /\ Len(e2) = Len(v2)
      BY <2>5, <2>9, <3>1, SentBytes
    <3> QED BY <1>5, <1>6, <3>2, <3>3
  <2>12. /\ Cipher(j, p, src) = (d0 \o d1) \o d2
         /\ Sent(g, p, src, dir) = Join(e0, Join(e1, e2))
    <3>1. /\ v1 \in Seq(S) /\ v2 \in Seq(S) /\ s0 \in Seq(S) /\ s1 \in Seq(S)
          /\ s1 = Join(v1, v2) /\ src = Join(s0, s1)
          /\ p1 = p + Len(s0) /\ p2 = p1 + Len(v1)
      BY <1>4, <1>5, <1>6 DEF p1, p2
    <3>2. Cipher(j, p, src) = Join(d0, Cipher(j, p1, s1))
      BY <1>8, <3>1, CipherJoin DEF S, d0
    <3>3. Cipher(j, p1, s1) = Join(d1, d2)
      <4>1. Cipher(J0(g), p1, Join(v1, v2))
              = Join(Cipher(J0(g), p1, v1), Cipher(J0(g), p1 + Len(v1), v2))
        <5>1. p1 \in Nat /\ v1 \in Seq(SourceBytes(g.id)) /\ v2 \in Seq(SourceBytes(g.id))
          BY <2>5, <3>1 DEF S
        <5>2. \A n \in Nat : \A s, t \in Seq(SourceBytes(g.id)) :
                Cipher(J0(g), n, Join(s, t)) = Join(Cipher(J0(g), n, s), Cipher(J0(g), n + Len(s), t))
          BY CipherJoin
        <5> QED BY <5>1, <5>2
      <4> QED BY <3>1, <4>1 DEF d1, d2
    <3>4. Join(Join(d0, d1), d2) = Join(d0, Join(d1, d2))
      BY <1>10, <2>11, JoinAssociative
    <3>5. Sent(g, p, src, dir) = Join(e0, Sent(g, p1, s1, dir))
      BY <3>1, <3>2, AuthenticatedJoin DEF Sent, d0
    <3>6. Sent(g, p1, s1, dir) = Join(e1, e2)
      BY <3>1, <3>3, AuthenticatedJoin DEF Sent, d1, d2
    <3> QED BY <3>2, <3>3, <3>4, <3>5, <3>6 DEF Join
  <2> HIDE DEF e0, e1, e2, u3
  <2>13. Join(<<>>, e2) = e2
    BY <2>11, ConcatEmptySeq DEF Join
  <2>14. Join(m2, e2) = Join(Join(m, r), Sent(g, p, src, dir))
    <3>1. e0 \in Seq(T) /\ r0 = Join(r, e0)
      BY <1>10 DEF e0, r0
    <3>2. m1 = Join(m, r0)
      BY <2>6, ConcatEmptySeq DEF Join
    <3>3. Join(m2, e2) = Join(m1, Join(e1, e2))
      BY <2>6, <2>11, JoinAssociative DEF m2
    <3>4. m1 = Join(Join(m, r), e0)
      BY <1>2, <3>1, <3>2, JoinAssociative
    <3>5. Join(m, r) \in Seq(T) /\ Join(e1, e2) \in Seq(T)
      BY <1>2, <2>11, JoinLengths
    <3>6. Join(Join(Join(m, r), e0), Join(e1, e2)) = Join(Join(m, r), Join(e0, Join(e1, e2)))
      BY <3>1, <3>5, JoinAssociative
    <3> QED BY <2>12, <3>3, <3>4, <3>6
  <2>15. u3.dst = Cipher(J0(g), p, src)
    <3> DEFINE x == (d0 \o d1) \o d2
    <3> HIDE DEF x
    <3>1. u3 = [c |-> u3.c, dst |-> x] /\ Cipher(J0(g), p, src) = x
      BY <2>10, <2>12 DEF x
    <3> QED BY <3>1
  <2> QED BY <1>1, <2>10, <2>11, <2>13, <2>14, <2>15
<1> QED
  BY <1>12, <1>13

-----------------------------------------------------------------------------
(* Text calls keep what the context holds. *)

\* The first counter block ends in a word, the one GCMCountersAgree counts from.
LEMMA FirstBlock ==
    ASSUME NEW c, NEW g, GInv(c, g)
    PROVE  IsJ0(J0(g)) /\ J0(g).n = First(c, g)
<1>1. /\ g.low \in 0..CounterMod - 1 /\ 1 \in 0..CounterMod - 1
      /\ c.ivLen = g.iv
  BY GCMConstants DEF GInv, IsGiven
<1>2. CASE g.iv = CtrPos
  <2> DEFINE z == CopyAt(Zeros(BlockSize), 0, Piece("iv", g.id, 0, g.iv))
             y == [chain |-> <<>>, open |-> z]
  <2>1. J0(g) = [iv |-> y, n |-> 1]
    BY <1>2, GCMSameOperators DEF J0, GCMOneCall!J0
  <2> HIDE DEF y
  <2> QED BY <1>1, <1>2, <2>1 DEF IsJ0, First
<1>3. CASE g.iv # CtrPos
  <2>1. PICK y : J0(g) = [iv |-> y, n |-> g.low]
    BY <1>3 DEF J0, GCMOneCall!J0
  <2> QED BY <1>1, <1>3, <2>1 DEF IsJ0, First
<1> QED
  BY <1>2, <1>3

\* The blocks of the additional data are blocks.
LEMMA AADBlocks ==
    ASSUME NEW c, NEW g, GInv(c, g), NEW j
    PROVE  /\ PaddedBlocks(AADBytes(g)) \in Seq(Block(TextBytes(g.id, j) \cup {{}}))
           /\ Join(<<>>, PaddedBlocks(AADBytes(g))) = PaddedBlocks(AADBytes(g))
           /\ Join(PaddedBlocks(AADBytes(g)), <<>>) = PaddedBlocks(AADBytes(g))
<1> DEFINE T == TextBytes(g.id, j)
           x == PaddedBlocks(AADBytes(g))
<1>1. AADBytes(g) \in Seq(T \cup {{}}) /\ {} \in T \cup {{}}
  <2>1. "aad" \in {"iv", "aad", "enc", "dec"} /\ g.aad \in Nat /\ 0 \in Nat
    BY DEF GInv, IsGiven
  <2>2. AADBytes(g) \in Seq(GivenBytes(g.id))
    BY <2>1, GivenPiece DEF AADBytes
  <2>3. GivenBytes(g.id) \subseteq T \cup {{}}
    BY DEF TextBytes
  <2> HIDE DEF T
  <2> QED BY <2>2, <2>3, LargerSeq
<1> DEFINE U == T \cup {{}}
           S == Block(U)
<1> HIDE DEF U
<1>2. x \in Seq(S)
  BY <1>1, PaddedBlocksBytes DEF U
<1> HIDE DEF x, S
<1>3. Join(<<>>, x) = x /\ Join(x, <<>>) = x
  BY <1>2, ConcatEmptySeq DEF Join
<1> QED
  BY <1>2, <1>3 DEF x, S, U

\* The cipher text is as long as the text.
LEMMA CipherTextLength ==
    ASSUME NEW g, NEW T, g.text \in Seq(T)
    PROVE  Len(CipherText(g)) = Len(g.text) /\ Len(g.text) \in Nat
<1>1. DOMAIN g.text = 1..Len(g.text) /\ Len(g.text) \in Nat
  OBVIOUS
<1> DEFINE f(i) == IF g.text[i] = "enc" THEN GCMOneCall!Result(g, i) ELSE GCMOneCall!Source(g, i)
<1>2. CipherText(g) = [i \in 1..Len(g.text) |-> f(i)]
  BY <1>1 DEF CipherText, GCMOneCall!CipherText
<1> HIDE DEF f
<1> QED
  BY <1>1, <1>2

\* The first text call closes the additional data; every text call finds a
\* block of the text open.
LEMMA OpenTextHolds ==
    ASSUME NEW c, NEW g, GInv(c, g), GContent(c, g),
           c.state \in {"GcmAADprocessing", "GcmTXTprocessing"}
    PROVE  \E a, m, r : /\ InText(OpenText(c), g, a, m, r)
                        /\ Len(r) < BlockSize /\ At(Len(g.text), a, r)
                        /\ Join(m, r) = CipherText(g)
<1> DEFINE j == J0(g)
           T == TextBytes(g.id, j)
           x == PaddedBlocks(AADBytes(g))
<1>1. IsJ0(j) /\ j.n = First(c, g)
  BY FirstBlock
<1>2. /\ IsContext(c) /\ c.counter.iv = j.iv /\ c.ecounter0 = Mask(g)
      /\ Len(CipherText(g)) = Len(g.text) /\ Len(g.text) \in Nat /\ c.txtLen = Len(g.text)
  BY CipherTextLength DEF GInv, IsGiven, GContent, BegunContent
<1>3. CASE c.state = "GcmTXTprocessing"
  <2>1. TextContent(c, g)
    BY <1>3 DEF GContent
  <2>2. PICK m, r : /\ Absorbed(T, c.ghash, x, m, r)
                    /\ Join(m, r) = CipherText(g)
                    /\ Len(r) < BlockSize
                    /\ c.bufLen = Len(r)
    BY <2>1 DEF TextContent, Holding
  <2> DEFINE a == Len(g.text) \div BlockSize
  <2>3. m \in Seq(T) /\ Aligned(m) /\ r \in Seq(T)
    BY <2>2 DEF Absorbed
  <2>4. a \in Nat /\ Blocks(m, a) /\ At(Len(g.text), a, r)
    BY <1>2, <2>2, <2>3, PlaceOfText
  <2>5. c.counter.n = (First(c, g) + 1 + a) % CounterMod
    BY <1>2, <1>3 DEF GInv, Phases
  <2>6. c.counter = Counter(j, a)
    <3> HIDE DEF j, a
    <3>1. c.counter = [y \in {"iv", "n"} |-> c.counter[y]]
      BY <1>2 DEF IsContext
    <3>2. Counter(j, a) = [iv |-> j.iv, n |-> (j.n + 1 + a) % CounterMod]
      BY <1>1 DEF Counter, IsJ0
    <3>3. c.counter.n = (j.n + 1 + a) % CounterMod
      BY <1>1, <2>5
    <3> QED BY <1>2, <3>1, <3>2, <3>3
  <2>7. c.ecounter = E(Counter(j, a))
    BY <2>1, <2>6 DEF TextContent
  <2>8. OpenText(c) = c
    BY <1>3 DEF OpenText
  <2> HIDE DEF a, j
  <2>9. InText(OpenText(c), g, a, m, r)
    BY <1>2, <2>2, <2>4, <2>6, <2>7, <2>8 DEF InText, j
  <2> QED BY <2>2, <2>4, <2>9
<1>4. CASE c.state = "GcmAADprocessing"
  <2> DEFINE d == NextCounterBlock(c)
             o == Closed(c.ghash, c.bufLen)
             e == [d EXCEPT !.ghash = o, !.state = "GcmTXTprocessing", !.txtLen = 0,
                            !.bufLen = 0]
  <2>1. c.counter.n = First(c, g) /\ Len(g.text) = 0
    BY <1>4 DEF GInv, Phases
  <2>2. c.counter = j
    <3> HIDE DEF j
    <3>1. c.counter = [y \in {"iv", "n"} |-> c.counter[y]]
      BY <1>2 DEF IsContext
    <3> QED BY <1>1, <1>2, <2>1, <3>1 DEF IsJ0
  <2>3. /\ IsContext(d) /\ d.counter = Counter(j, 0) /\ d.ecounter = E(Counter(j, 0))
        /\ d.ghash = c.ghash /\ d.ecounter0 = c.ecounter0
    <3>1. IncrementCounter32(c.counter) = Counter(j, 0)
      <4>1. j.n + 1 + 0 = j.n + 1
        BY <1>1 DEF IsJ0
      <4> QED BY <2>2, <4>1 DEF IncrementCounter32, Counter
    <3> DEFINE k == Counter(j, 0)
    <3>2. d = [c EXCEPT !.counter = k, !.ecounter = E(k)]
      BY <3>1 DEF NextCounterBlock
    <3>3. k = [y \in {"iv", "n"} |-> k[y]]
      <4>1. k = [iv |-> j.iv, n |-> (j.n + 1 + 0) % CounterMod]
        BY <1>1 DEF Counter, IsJ0
      <4> HIDE DEF k
      <4> QED BY <4>1
    <3> HIDE DEF d, k
    <3> QED BY <1>2, <3>2, <3>3 DEF IsContext, k
  <2>4. OpenText(c) = e
    BY <1>4, <2>3 DEF OpenText, Closed
  <2>5. o = [chain |-> x, open |-> Zeros(BlockSize)]
    <3>1. AADContent(c, g)
      BY <1>4 DEF GContent
    <3>2. o = [chain |-> Join(<<>>, x), open |-> Zeros(BlockSize)]
      BY <3>1, NoZeroGiven, CloseHolding DEF AADContent
    <3> QED BY <3>2, AADBlocks
  <2>6. /\ x \in Seq(Block(T \cup {{}})) /\ Join(x, <<>>) = x
        /\ <<>> \in Seq(T) /\ Aligned(<<>>) /\ WholeBlocks(<<>>) = <<>>
        /\ Len(<<>>) = 0 /\ Join(<<>>, <<>>) = <<>>
    <3>1. <<>> \in Seq(T) /\ Len(<<>>) = 0 /\ Len(<<>>) < BlockSize
      BY EmptySeq, BlockConstants
    <3>2. Join(<<>>, <<>>) = <<>>
      BY <3>1, ConcatEmptySeq DEF Join
    <3> QED BY <3>1, <3>2, AADBlocks, AlignedLengths, NoBlock
  <2>7. Absorbed(T, o, x, <<>>, <<>>)
    BY <2>5, <2>6, AbsorbedNothing
  <2>8. Blocks(<<>>, 0) /\ At(Len(g.text), 0, <<>>) /\ Len(<<>>) < BlockSize
    BY <2>1, <2>6, BlockConstants DEF Blocks, At
  <2> HIDE DEF o, d
  <2>9. /\ IsContext(e) /\ e.counter = d.counter /\ e.ecounter = d.ecounter
        /\ e.ecounter0 = d.ecounter0 /\ e.ghash = o /\ e.bufLen = 0
    <3> DEFINE v == e
    <3>1. v = [d EXCEPT !.ghash = o, !.state = "GcmTXTprocessing", !.txtLen = 0, !.bufLen = 0]
      OBVIOUS
    <3> HIDE DEF v
    <3>2. /\ IsContext(v) /\ v.counter = d.counter /\ v.ecounter = d.ecounter
          /\ v.ecounter0 = d.ecounter0 /\ v.ghash = o /\ v.bufLen = 0
      BY <2>3, <3>1 DEF IsContext
    <3> QED BY <3>2 DEF v
  <2> HIDE DEF e
  <2>10. InText(e, g, 0, <<>>, <<>>)
    BY <1>2, <2>3, <2>6, <2>7, <2>8, <2>9 DEF InText
  <2>11. CipherText(g) = <<>>
    <3>1. g.text = <<>>
      <4>1. g.text \in Seq({"enc", "dec"})
        BY DEF GInv, IsGiven
      <4> QED BY <2>1, <4>1, EmptySeq
    <3> QED BY <3>1 DEF CipherText, GCMOneCall!CipherText
  <2> QED BY <2>4, <2>6, <2>8, <2>10, <2>11
<1> QED
  BY <1>3, <1>4

\* The key stream of the one call.
LEMMA KeystreamIsKey ==
    ASSUME NEW g, NEW i
    PROVE  GCMOneCall!Keystream(g, i) = Key(J0(g), i)
BY DEF GCMOneCall!Keystream, Key, Counter, J0

\* What is given with n more bytes of text.
MoreText(g, n, dir, h) ==
    /\ h.id = g.id /\ h.iv = g.iv /\ h.aad = g.aad /\ h.low = g.low /\ h.begun = g.begun
    /\ h.text \in Seq({"enc", "dec"}) /\ Len(h.text) = Len(g.text) + n
    /\ \A i \in 1..Len(g.text) : h.text[i] = g.text[i]
    /\ \A i \in 1..n : h.text[Len(g.text) + i] = dir
    /\ \E more \in Seq({"enc", "dec"}) : h.text = g.text \o more

\* WithText gives a message more text and leaves the rest of it.
LEMMA GivenText ==
    ASSUME NEW g, IsGiven(g), NEW n \in Nat, NEW dir \in {"enc", "dec"}
    PROVE  MoreText(g, n, dir, WithText(g, n, dir))
<1> DEFINE more == [i \in 1..n |-> dir]
           all == g.text \o more
           h == WithText(g, n, dir)
           p == Len(g.text)
<1>1. g.text \in Seq({"enc", "dec"}) /\ p \in Nat
  BY DEF IsGiven
<1>2. more \in Seq({"enc", "dec"}) /\ Len(more) = n /\ \A i \in 1..n : more[i] = dir
  BY Repeated
<1>3. h = [g EXCEPT !.text = all]
  BY DEF WithText
<1> HIDE DEF more, h
<1>4. /\ all \in Seq({"enc", "dec"}) /\ Len(all) = p + n
      /\ \A i \in 1..p + n : all[i] = IF i <= p THEN g.text[i] ELSE more[i - p]
  BY <1>1, <1>2, ConcatProperties
<1> HIDE DEF all
<1>5. /\ h.id = g.id /\ h.iv = g.iv /\ h.aad = g.aad /\ h.low = g.low
      /\ h.begun = g.begun /\ h.text = all
  BY <1>3 DEF IsGiven
<1> HIDE DEF p
<1>6. ASSUME NEW i \in 1..p PROVE all[i] = g.text[i]
  <2>1. i \in 1..p + n /\ i <= p
    BY <1>1
  <2> QED BY <1>4, <2>1
<1>7. ASSUME NEW i \in 1..n PROVE all[p + i] = dir
  <2>1. p + i \in 1..p + n /\ ~(p + i <= p) /\ (p + i) - p = i
    BY <1>1
  <2> QED BY <1>2, <1>4, <2>1
<1> QED
  BY <1>2, <1>4, <1>5, <1>6, <1>7 DEF p, all, h, MoreText

\* The bytes a text call adds to the output and to what is authenticated.
LEMMA TextAdded ==
    ASSUME NEW g, IsGiven(g), NEW n \in Nat, NEW dir \in {"enc", "dec"}
    PROVE  LET h   == WithText(g, n, dir)
               p   == Len(g.text)
               src == Piece(dir, g.id, p, n)
           IN /\ src \in Seq(SourceBytes(g.id)) /\ Len(src) = n
              /\ GCMOneCall!Output(h) = GCMOneCall!Output(g) \o Cipher(J0(g), p, src)
              /\ CipherText(h) = Join(CipherText(g), Sent(g, p, src, dir))
<1> DEFINE h   == WithText(g, n, dir)
           p   == Len(g.text)
           src == Piece(dir, g.id, p, n)
           j   == J0(g)
           O(k) == GCMOneCall!Output(k)
           d   == Cipher(j, p, src)
           R(k, i) == GCMOneCall!Result(k, i)
           C(k, i) == IF k.text[i] = "enc" THEN R(k, i) ELSE GCMOneCall!Source(k, i)
           s   == Sent(g, p, src, dir)
<1>1. g.text \in Seq({"enc", "dec"}) /\ p \in Nat /\ DOMAIN g.text = 1..p
  BY DEF IsGiven
<1>2. /\ h.id = g.id /\ h.text \in Seq({"enc", "dec"}) /\ Len(h.text) = p + n
      /\ \A i \in 1..p : h.text[i] = g.text[i]
      /\ \A i \in 1..n : h.text[p + i] = dir
      /\ J0(h) = j
  <2>1. /\ h.id = g.id /\ h.iv = g.iv /\ h.low = g.low
        /\ h.text \in Seq({"enc", "dec"}) /\ Len(h.text) = Len(g.text) + n
        /\ \A i \in 1..Len(g.text) : h.text[i] = g.text[i]
        /\ \A i \in 1..n : h.text[Len(g.text) + i] = dir
    <3>1. MoreText(g, n, dir, h)
      BY GivenText
    <3> QED BY <3>1 DEF MoreText
  <2> HIDE DEF h
  <2>2. J0(h) = j
    BY <2>1, J0Depends
  <2> QED BY <2>1, <2>2
<1> HIDE DEF h
<1>3. DOMAIN h.text = 1..p + n
  BY <1>2
<1>4. src \in Seq(SourceBytes(g.id)) /\ Len(src) = n
  <2>1. \A i \in 1..n : {<<dir, g.id, p + i>>} \in SourceBytes(g.id)
    <3> TAKE i \in 1..n
    <3>1. p + i \in Int
      BY <1>1
    <3> QED BY <3>1 DEF SourceBytes
  <2> HIDE DEF p
  <2> QED BY <2>1 DEF Piece
<1>5. /\ O(h) = [i \in 1..p + n |-> R(h, i)] /\ O(g) = [i \in 1..p |-> R(g, i)]
  BY <1>1, <1>3 DEF GCMOneCall!Output
<1>6. /\ CipherText(h) = [i \in 1..p + n |-> C(h, i)]
      /\ CipherText(g) = [i \in 1..p |-> C(g, i)]
  BY <1>1, <1>3 DEF CipherText, GCMOneCall!CipherText
<1> HIDE DEF j
<1>7. ASSUME NEW i \in 1..p PROVE R(h, i) = R(g, i) /\ C(h, i) = C(g, i)
  <2>1. GCMOneCall!Source(h, i) = GCMOneCall!Source(g, i)
    BY <1>2 DEF GCMOneCall!Source
  <2>2. GCMOneCall!Keystream(h, i) = GCMOneCall!Keystream(g, i)
    BY <1>2, KeystreamIsKey DEF j
  <2>3. R(h, i) = R(g, i)
    BY <2>1, <2>2 DEF GCMOneCall!Result
  <2>4. h.text[i] = g.text[i]
    BY <1>2
  <2> QED BY <2>1, <2>3, <2>4
<1>8. ASSUME NEW i \in 1..n
      PROVE  R(h, p + i) = d[i] /\ C(h, p + i) = s[i]
  <2>1. GCMOneCall!Source(h, p + i) = {<<dir, g.id, p + i>>}
    BY <1>2 DEF GCMOneCall!Source
  <2>2. src[i] = {<<dir, g.id, p + i>>}
    BY DEF Piece
  <2>3. GCMOneCall!Keystream(h, p + i) = Key(j, p + i)
    BY <1>2, KeystreamIsKey
  <2>4. d[i] = Xor(src[i], Key(j, p + i))
    <3> HIDE DEF src
    <3> QED BY <1>4 DEF Cipher
  <2>5. R(h, p + i) = d[i]
    BY <2>1, <2>2, <2>3, <2>4, GCMSameOperators DEF GCMOneCall!Result
  <2>6. h.text[p + i] = dir
    BY <1>2
  <2>7. s[i] = IF dir = "enc" THEN d[i] ELSE src[i]
    BY DEF Sent, Authenticated, j
  <2> HIDE DEF s, d, src
  <2> QED BY <2>1, <2>2, <2>5, <2>6, <2>7
<1>9. Len(d) = n /\ DOMAIN d = 1..n /\ Len(s) = n /\ DOMAIN s = 1..n
      /\ d = [i \in 1..n |-> d[i]] /\ s = [i \in 1..n |-> s[i]]
  <2>1. d = [i \in 1..n |-> Xor(src[i], Key(j, p + i))]
    <3> HIDE DEF src
    <3> QED BY <1>4 DEF Cipher
  <2>2. src = [i \in 1..n |-> {<<dir, g.id, p + i>>}]
    BY DEF Piece
  <2>3. s = IF dir = "enc" THEN d ELSE src
    BY DEF Sent, Authenticated, j
  <2> HIDE DEF s, d, src
  <2>4. /\ DOMAIN d = 1..n /\ Len(d) = n /\ d = [i \in 1..n |-> d[i]]
        /\ DOMAIN src = 1..n /\ Len(src) = n /\ src = [i \in 1..n |-> src[i]]
    <3>1. DOMAIN d = 1..n /\ Len(d) = n /\ d = [i \in 1..n |-> d[i]]
      BY <2>1
    <3>2. DOMAIN src = 1..n /\ Len(src) = n /\ src = [i \in 1..n |-> src[i]]
      BY <2>2
    <3> QED BY <3>1, <3>2
  <2>5. s = d \/ s = src
    BY <2>3
  <2> QED BY <2>4, <2>5
<1> HIDE DEF d, s, src
<1>10. O(h) = O(g) \o d
  <2> DEFINE z == [i \in 1..p + n |-> R(h, i)]
             x == [i \in 1..p |-> R(g, i)]
             T == {R(h, i) : i \in 1..p + n}
  <2> HIDE DEF R, p
  <2>1. z \in Seq(T) /\ Len(z) = p + n
    <3>1. p + n \in Nat /\ \A i \in 1..p + n : R(h, i) \in T
      BY <1>1
    <3> HIDE DEF T
    <3> QED BY <3>1
  <2>2. x \in Seq(T) /\ Len(x) = p
    <3>1. \A i \in 1..p : R(g, i) \in T
      <4> TAKE i \in 1..p
      <4>1. i \in 1..p + n /\ R(g, i) = R(h, i)
        BY <1>1, <1>7
      <4> QED BY <4>1
    <3> HIDE DEF T
    <3> QED BY <1>1, <3>1
  <2>3. d \in Seq(T)
    <3>1. \A i \in 1..n : d[i] \in T
      <4> TAKE i \in 1..n
      <4>1. p + i \in 1..p + n /\ d[i] = R(h, p + i)
        BY <1>1, <1>8
      <4> QED BY <4>1
    <3> HIDE DEF T
    <3> QED BY <1>9, <3>1
  <2>4. (\A i \in 1..p : z[i] = x[i]) /\ (\A i \in 1..n : z[p + i] = d[i])
    <3>1. \A i \in 1..p : i \in 1..p + n /\ R(h, i) = R(g, i)
      BY <1>1, <1>7
    <3>2. \A i \in 1..n : p + i \in 1..p + n /\ R(h, p + i) = d[i]
      BY <1>1, <1>8
    <3> QED BY <3>1, <3>2
  <2> HIDE DEF T, x, z
  <2>5. z = x \o d
    <3>1. Len(z) = Len(x) + Len(d)
      BY <1>9, <2>1, <2>2
    <3>2. (\A i \in 1..Len(x) : z[i] = x[i]) /\ (\A i \in 1..Len(d) : z[Len(x) + i] = d[i])
      BY <1>9, <2>2, <2>4
    <3> QED BY <2>1, <2>2, <2>3, <3>1, <3>2, MadeOfTwo
  <2> QED BY <1>5, <2>5 DEF x, z
<1>11. CipherText(h) = CipherText(g) \o s
  <2> DEFINE z == [i \in 1..p + n |-> C(h, i)]
             x == [i \in 1..p |-> C(g, i)]
             T == {C(h, i) : i \in 1..p + n}
  <2> HIDE DEF C, p
  <2>1. z \in Seq(T) /\ Len(z) = p + n
    <3>1. p + n \in Nat /\ \A i \in 1..p + n : C(h, i) \in T
      BY <1>1
    <3> HIDE DEF T
    <3> QED BY <3>1
  <2>2. x \in Seq(T) /\ Len(x) = p
    <3>1. \A i \in 1..p : C(g, i) \in T
      <4> TAKE i \in 1..p
      <4>1. i \in 1..p + n /\ C(g, i) = C(h, i)
        BY <1>1, <1>7
      <4> QED BY <4>1
    <3> HIDE DEF T
    <3> QED BY <1>1, <3>1
  <2>3. s \in Seq(T)
    <3>1. \A i \in 1..n : s[i] \in T
      <4> TAKE i \in 1..n
      <4>1. p + i \in 1..p + n /\ s[i] = C(h, p + i)
        BY <1>1, <1>8
      <4> QED BY <4>1
    <3> HIDE DEF T
    <3> QED BY <1>9, <3>1
  <2>4. (\A i \in 1..p : z[i] = x[i]) /\ (\A i \in 1..n : z[p + i] = s[i])
    <3>1. \A i \in 1..p : i \in 1..p + n /\ C(h, i) = C(g, i)
      BY <1>1, <1>7
    <3>2. \A i \in 1..n : p + i \in 1..p + n /\ C(h, p + i) = s[i]
      BY <1>1, <1>8
    <3> QED BY <3>1, <3>2
  <2> HIDE DEF T, x, z
  <2>5. z = x \o s
    <3>1. Len(z) = Len(x) + Len(s)
      BY <1>9, <2>1, <2>2
    <3>2. (\A i \in 1..Len(x) : z[i] = x[i]) /\ (\A i \in 1..Len(s) : z[Len(x) + i] = s[i])
      BY <1>9, <2>2, <2>4
    <3> QED BY <2>1, <2>2, <2>3, <3>1, <3>2, MadeOfTwo
  <2> QED BY <1>6, <2>5 DEF x, z
<1> QED
  BY <1>4, <1>10, <1>11 DEF h, d, s, src, p, j, Join

\* ippsAES_GCMEncrypt and ippsAES_GCMDecrypt.
LEMMA ProcessTextContent ==
    ASSUME NEW c, NEW g, GInv(c, g), GContent(c, g), NEW n \in Nat,
           NEW dir \in {"enc", "dec"}, c.state \in {"GcmAADprocessing", "GcmTXTprocessing"}
    PROVE  LET h == WithText(g, n, dir)
               t == ProcessText(c, Piece(dir, g.id, Len(g.text), n), dir)
           IN /\ GContent(t.c, h)
              /\ GCMOneCall!Output(h) = GCMOneCall!Output(g) \o t.dst
<1> DEFINE h   == WithText(g, n, dir)
           p   == Len(g.text)
           src == Piece(dir, g.id, p, n)
           t   == ProcessText(c, src, dir)
           j   == J0(g)
           T   == TextBytes(g.id, j)
<1>1. IsGiven(g) /\ p \in Nat /\ g.iv > 0 /\ IsJ0(j)
  BY FirstBlock DEF GInv, IsGiven, GContent, BegunContent
<1>2. /\ src \in Seq(SourceBytes(g.id)) /\ Len(src) = n
      /\ GCMOneCall!Output(h) = GCMOneCall!Output(g) \o Cipher(j, p, src)
      /\ CipherText(h) = Join(CipherText(g), Sent(g, p, src, dir))
  BY <1>1, TextAdded
<1>3. h.id = g.id /\ h.iv = g.iv /\ h.aad = g.aad /\ h.low = g.low
  <2>1. MoreText(g, n, dir, h)
    BY <1>1, GivenText
  <2> QED BY <2>1 DEF MoreText
<1>4. PICK a, m, r : /\ InText(OpenText(c), g, a, m, r)
                     /\ Len(r) < BlockSize /\ At(p, a, r)
                     /\ Join(m, r) = CipherText(g)
  BY OpenTextHolds
<1>5. /\ t.dst = Cipher(j, p, src)
      /\ \E b, k, s : /\ InText(t.c, g, b, k, s) /\ Len(s) < BlockSize
                      /\ Join(k, s) = Join(Join(m, r), Sent(g, p, src, dir))
  <2> HIDE DEF src, p
  <2> QED BY <1>1, <1>2, <1>4, ProcessTextHolds
<1>6. t.c.state = "GcmTXTprocessing"
  <2> DEFINE w == (First(c, g) + 1 + (c.txtLen \div BlockSize)) % CounterMod
  <2>1. Counts(OpenText(c), Text, c.ivLen, c.aadLen, c.txtLen, c.txtLen % BlockSize, w)
    BY OpenTextCounts DEF Text
  <2>2. w \in 0..CounterMod - 1 /\ c.txtLen \in Nat
    <3>1. c.txtLen \in Nat /\ First(c, g) \in Nat
      BY DEF GInv, IsGiven, First
    <3>2. c.txtLen \div BlockSize \in Nat
      BY <3>1, BlocksAndRest
    <3>3. First(c, g) + 1 + (c.txtLen \div BlockSize) \in Nat /\ CounterMod \in Nat \ {0}
      BY <3>1, <3>2, GCMConstants
    <3> QED BY <3>1, <3>3, QuotientAndRest
  <2> HIDE DEF w, src, t
  <2>3. PICK txt, buf, k : Counts(t.c, Text, c.ivLen, c.aadLen, txt, buf, k)
    <3>1. Counts(ProcessText(c, src, dir).c, Text, c.ivLen, c.aadLen, c.txtLen + Len(src),
                 (c.txtLen + Len(src)) % BlockSize,
                 (w + Moves(c.txtLen, Len(src))) % CounterMod)
      BY <1>2, <2>1, <2>2, ProcessCounts
    <3> QED BY <3>1 DEF t
  <2> QED BY <2>3 DEF Counts, Text
<1>7. PICK b, k, s : /\ InText(t.c, g, b, k, s) /\ Len(s) < BlockSize
                     /\ Join(k, s) = CipherText(h)
  <2> HIDE DEF t, h, src, p
  <2> QED BY <1>2, <1>4, <1>5
<1> HIDE DEF t, h
<1>8. J0(h) = j /\ Mask(h) = Mask(g) /\ AADBytes(h) = AADBytes(g)
  <2>1. J0(h) = J0(g) /\ Mask(h) = Mask(g)
    BY <1>3, J0Depends
  <2> QED BY <1>3, <2>1 DEF AADBytes
<1>9. Holding(TextBytes(h.id, J0(h)), t.c.ghash, t.c.bufLen, PaddedBlocks(AADBytes(h)),
              CipherText(h))
  <2>1. /\ Absorbed(TextBytes(g.id, J0(g)), t.c.ghash, PaddedBlocks(AADBytes(g)), k, s)
        /\ t.c.bufLen = Len(s)
    BY <1>7 DEF InText
  <2> QED BY <1>3, <1>7, <1>8, <2>1 DEF Holding
<1>10. /\ t.c.counter.iv = j.iv /\ t.c.ecounter0 = Mask(g)
       /\ t.c.ecounter = E(t.c.counter)
  <2>1. /\ t.c.counter = Counter(j, b) /\ t.c.ecounter = E(Counter(j, b))
        /\ t.c.ecounter0 = Mask(g)
    BY <1>7 DEF InText
  <2>2. Counter(j, b).iv = j.iv
    BY <1>1 DEF IsJ0, Counter
  <2> HIDE DEF j
  <2> QED BY <2>1, <2>2
<1>11. GContent(t.c, h)
  <2> HIDE DEF j
  <2>1. BegunContent(t.c, h)
    BY <1>1, <1>3, <1>8, <1>10 DEF BegunContent
  <2>2. TextContent(t.c, h)
    BY <1>9, <1>10 DEF TextContent
  <2> QED BY <1>6, <2>1, <2>2 DEF GContent
<1> QED
  BY <1>2, <1>5, <1>11 DEF t, h

\* The length block of an empty message leaves the register as it is.
LEMMA NoLengthBlock == Mul(XorReg(ZeroReg, 0, LengthBlock(0, 0))) = ZeroReg
<1> DEFINE n == <<>>
           reg == [chain |-> n, open |-> Zeros(BlockSize)]
<1>1. 0 = 0 /\ 0 = 0 /\ n = <<>> => Mul(XorReg(reg, 0, LengthBlock(0, 0))) = ZeroReg
  <2> HIDE DEF n
  <2> QED BY LengthBlockLast
<1> QED
  BY <1>1 DEF ZeroReg

\* The tag is the one of one call.
LEMMA TagOfContent ==
    ASSUME NEW c, NEW g, GInv(c, g), GContent(c, g), c.state # "GcmInit"
    PROVE  TagOf(c) = GCMOneCall!Tag(g)
<1> DEFINE z == Zeros(BlockSize)
           x == PaddedBlocks(AADBytes(g))
           y == PaddedBlocks(CipherText(g))
           l == LengthBlock(g.aad, Len(g.text))
           q == Closed(c.ghash, c.bufLen)
           end == Mul(XorReg(q, 0, l))
           j == J0(g)
           T == TextBytes(g.id, j)
           U == T \cup {{}}
           S == Block(U)
<1>1. TagOf(c) = [hash |-> end, mask |-> c.ecounter0]
  BY DEF TagOf, Closed, GInv
<1>2. PaddedBlocks(<<>>) = <<>>
  BY BlockConstants DEF PaddedBlocks
<1>3. CASE c.state = "GcmIVprocessing"
  <2>1. ~g.begun /\ g.aad = 0 /\ Len(g.text) = 0 /\ c.ghash = ZeroReg /\ c.ecounter0 = z
    BY <1>3 DEF GInv, Phases, GContent, IVContent
  <2>2. q = ZeroReg
    BY <2>1 DEF Closed, Mul
  <2>3. end = ZeroReg
    <3> QED BY <2>1, <2>2, NoLengthBlock
  <2>4. GCMOneCall!Tag(g) = [hash |-> ZeroReg, mask |-> z]
    BY <2>1, GCMSameOperators DEF GCMOneCall!Tag, GCMOneCall!Hash, ZeroReg
  <2> QED BY <1>1, <2>1, <2>3, <2>4
<1>4. CASE c.state \in {"GcmAADprocessing", "GcmTXTprocessing"}
  <2>1. /\ g.begun /\ c.ecounter0 = GCMOneCall!Mask(g)
        /\ g.aad \in Nat /\ Len(g.text) \in Nat /\ g.text \in Seq({"enc", "dec"})
    BY <1>4 DEF GInv, Phases, GContent, BegunContent, Mask, IsGiven
  <2>2. CipherText(g) = <<>> => y = <<>>
    BY <1>2
  <2>3. g.text = <<>> => CipherText(g) = <<>>
    BY DEF CipherText, GCMOneCall!CipherText
  <2>4. /\ x \in Seq(S) /\ Join(<<>>, x) = x /\ Join(x, <<>>) = x
    BY AADBlocks
  <2>5. q = [chain |-> Join(x, y), open |-> z] /\ y \in Seq(S)
    <3>1. CASE c.state = "GcmAADprocessing"
      <4>1. AADContent(c, g) /\ Len(g.text) = 0
        BY <3>1 DEF GContent, GInv, Phases
      <4>2. y = <<>>
        BY <2>1, <2>2, <2>3, <4>1, EmptySeq
      <4>3. q = [chain |-> Join(<<>>, x), open |-> z]
        BY <4>1, NoZeroGiven, CloseHolding DEF AADContent
      <4>4. y \in Seq(S)
        BY <4>2, EmptySeq
      <4> HIDE DEF q, x, y, z
      <4> QED BY <2>4, <4>2, <4>3, <4>4
    <3>2. CASE c.state = "GcmTXTprocessing"
      <4>1. Holding(T, c.ghash, c.bufLen, x, CipherText(g))
        BY <3>2 DEF GContent, TextContent
      <4>2. q = [chain |-> Join(x, y), open |-> z]
        BY <4>1, NoZeroText, CloseHolding
      <4>3. PICK m, r : /\ m \in Seq(T) /\ r \in Seq(T) /\ Join(m, r) = CipherText(g)
        BY <4>1 DEF Holding, Absorbed
      <4>4. CipherText(g) \in Seq(T)
        BY <4>3, JoinLengths
      <4>5. CipherText(g) \in Seq(U) /\ {} \in U
        <5>1. T \subseteq U /\ {} \in U
          OBVIOUS
        <5> HIDE DEF T, U
        <5> QED BY <4>4, <5>1, LargerSeq
      <4> HIDE DEF U
      <4>6. y \in Seq(S)
        BY <4>5, PaddedBlocksBytes
      <4> QED BY <4>2, <4>6 DEF U
    <3> QED BY <1>4, <3>1, <3>2
  <2>6. GCMOneCall!Tag(g) = [hash |-> [chain |-> GCMOneCall!HashInput(g), open |-> z],
                             mask |-> c.ecounter0]
    BY <2>1, GCMSameOperators DEF GCMOneCall!Tag, GCMOneCall!Hash
  <2> DEFINE none == g.aad = 0 /\ g.text = <<>>
             last == IF none THEN <<>> ELSE <<l>>
  <2>7. GCMOneCall!HashInput(g) = (x \o y) \o last
    BY GCMSameOperators DEF GCMOneCall!HashInput, AADBytes, CipherText, LengthBlock
  <2> DEFINE w == Join(x, y)
  <2>8. CASE none
    <3>1. x = <<>> /\ y = <<>>
      <4>1. AADBytes(g) = <<>>
        BY <2>8, EmptyPiece DEF AADBytes
      <4> QED BY <1>2, <2>2, <2>3, <2>8, <4>1
    <3>2. w = <<>> /\ (x \o y) \o last = <<>>
      <4>1. <<>> \o <<>> = <<>>
        BY EmptySeq, ConcatEmptySeq
      <4> HIDE DEF x, y
      <4> QED BY <2>8, <3>1, <4>1 DEF Join
    <3>3. end = ZeroReg
      <4>1. q = ZeroReg /\ g.aad = 0 /\ Len(g.text) = 0
        BY <2>5, <2>8, <3>2 DEF ZeroReg
      <4> HIDE DEF q
      <4> QED BY <4>1, NoLengthBlock
    <3> QED BY <1>1, <2>6, <2>7, <3>2, <3>3 DEF ZeroReg
  <2>9. CASE ~none
    <3>1. ~(g.aad = 0 /\ Len(g.text) = 0)
      BY <2>1, <2>9, EmptySeq
    <3>2. end = [chain |-> Append(w, l), open |-> z]
      <4>1. q = [chain |-> w, open |-> z]
        BY <2>5
      <4> HIDE DEF q, w
      <4> QED BY <3>1, <4>1, LengthBlockLast
    <3>3. (x \o y) \o last = Append(w, l)
      <4>1. last = <<l>>
        BY <2>9
      <4>2. w \in Seq(S)
        <5> HIDE DEF S, x, y
        <5> QED BY <2>4, <2>5, JoinLengths
      <4>3. w \o <<l>> = Append(w, l)
        <5> HIDE DEF w, l, S
        <5> QED BY <4>2
      <4> HIDE DEF l, x, y
      <4> QED BY <4>1, <4>3 DEF Join
    <3> QED BY <1>1, <2>6, <2>7, <3>2, <3>3
  <2> QED BY <2>8, <2>9
<1> QED
  BY <1>3, <1>4 DEF GInv

-----------------------------------------------------------------------------
(* Every call keeps what the context holds. *)

GCMHolds == GCMInv /\ GContent(gcm, gcmGiven) /\ gcmOut = GCMOneCall!Output(gcmGiven)

\* No text, no output.
LEMMA NoOutput == \A g : g.text = <<>> => GCMOneCall!Output(g) = <<>>
BY DEF GCMOneCall!Output

\* No text is given before the text phase.
LEMMA NoTextYet ==
    ASSUME NEW c, NEW g, GInv(c, g), c.state # "GcmTXTprocessing"
    PROVE  g.text = <<>>
<1>1. Len(g.text) = 0 /\ g.text \in Seq({"enc", "dec"})
  BY DEF GInv, Phases, IsGiven
<1> QED
  BY <1>1, EmptySeq

\* The context of ippsAES_GCMReset, a call that gives IV, one that gives AAD:
\* they keep the content, and add nothing to the output.
Fresh(k) == [c |-> GCMReset, g |-> GCMOneCall!Nothing(k)]

Kept(p) ==
    /\ p = [c |-> p.c, g |-> p.g]
    /\ GInv(p.c, p.g) /\ GContent(p.c, p.g) /\ p.g.text = <<>>

\* A context just reset holds the message just begun.
LEMMA FreshKept == \A k : Kept(Fresh(k)) /\ Fresh(k).g.id = k
<1> TAKE k
<1>1. GInv(GCMReset, GCMOneCall!Nothing(k)) /\ GContent(GCMReset, GCMOneCall!Nothing(k))
  BY AfterReset, AfterResetContent
<1>2. GCMOneCall!Nothing(k).text = <<>> /\ GCMOneCall!Nothing(k).id = k
  BY DEF GCMOneCall!Nothing
<1> QED
  BY <1>1, <1>2 DEF Kept, Fresh

\* More of the IV is held as well: the step of ippsAES_GCMProcessIV.
LEMMA IVKept ==
    ASSUME NEW p, Kept(p), NEW n \in Nat, AcceptsIV(p.c, n)
    PROVE  /\ Kept(WithIV(p, n))
           /\ WithIV(p, n).g.id = p.g.id /\ WithIV(p, n).g.aad = p.g.aad
           /\ WithIV(p, n).g.iv = p.g.iv + n
           /\ ~p.g.begun
<1> DEFINE c == p.c
           g == p.g
           w == WithIV([c |-> c, g |-> g], n)
           h == [g EXCEPT !.iv = @ + n]
<1>1. GInv(c, g) /\ GContent(c, g) /\ p = [c |-> c, g |-> g]
  BY DEF Kept
<1>2. GInv(w.c, w.g) /\ GContent(w.c, w.g)
  BY <1>1, ProcessIVKeeps, ProcessIVContent
<1>3. w.g = h /\ w = [c |-> w.c, g |-> w.g]
  BY DEF WithIV
<1>4. h.id = g.id /\ h.aad = g.aad /\ h.iv = g.iv + n /\ h.text = g.text
  BY <1>1 DEF GInv, IsGiven
<1>5. ~g.begun
  BY <1>1 DEF GInv, Phases, AcceptsIV
<1>6. g.text = <<>>
  BY DEF Kept
<1> HIDE DEF w, h, c, g
<1>7. Kept(w) /\ w.g.id = g.id /\ w.g.aad = g.aad /\ w.g.iv = g.iv + n
  BY <1>2, <1>3, <1>4, <1>6 DEF Kept
<1> QED
  BY <1>1, <1>5, <1>7 DEF w, c, g

\* More of the associated data is held as well, and the IV is closed first:
\* the step of ippsAES_GCMProcessAAD.
LEMMA AADKept ==
    ASSUME NEW p, Kept(p), NEW n \in Nat, NEW low \in 0..CounterMod - 1, AcceptsAAD(p.c, n)
    PROVE  /\ Kept(WithAAD(p, n, low))
           /\ WithAAD(p, n, low).g.id = p.g.id /\ WithAAD(p, n, low).g.iv = p.g.iv
           /\ WithAAD(p, n, low).g.aad = p.g.aad + n /\ WithAAD(p, n, low).g.begun
           /\ p.g.begun => WithAAD(p, n, low).g.low = p.g.low
<1> DEFINE c == p.c
           g == p.g
           w == WithAAD([c |-> c, g |-> g], n, low)
           v == IF g.begun THEN g.low ELSE low
           h == [g EXCEPT !.aad = @ + n, !.begun = TRUE, !.low = v]
<1>1. GInv(c, g) /\ GContent(c, g) /\ p = [c |-> c, g |-> g]
  BY DEF Kept
<1>2. GInv(w.c, w.g) /\ GContent(w.c, w.g)
  BY <1>1, ProcessAADKeeps, ProcessAADContent
<1>3. w.g = h /\ w = [c |-> w.c, g |-> w.g]
  BY DEF WithAAD
<1>4. /\ h.id = g.id /\ h.aad = g.aad + n /\ h.iv = g.iv /\ h.text = g.text /\ h.begun
      /\ g.begun => h.low = g.low
  BY <1>1 DEF GInv, IsGiven
<1>6. g.text = <<>>
  BY DEF Kept
<1> HIDE DEF w, h, c, g
<1>7. Kept(w)
  BY <1>2, <1>3, <1>4, <1>6 DEF Kept
<1> QED
  BY <1>1, <1>3, <1>4, <1>7 DEF w, c, g

\* Where ippsAES_GCMStart may stop.
LEMMA StartStops ==
    ASSUME NEW i \in StartLens, NEW a \in StartLens, GCMStart(i, a)
    PROVE  \E p : /\ Kept(p) /\ p.g.id = gcmGiven.id + 1
                  /\ gcm' = p.c /\ gcmGiven' = p.g /\ gcmTag' = <<>> /\ gcmOut' = <<>>
<1> DEFINE p1 == Afresh
           p2 == WithIV(p1, i)
           p3(low) == WithAAD(p2, a, low)
<1>1. Kept(p1) /\ p1.g.id = gcmGiven.id + 1
  <2>1. p1 = Fresh(gcmGiven.id + 1)
    BY DEF Afresh, Fresh
  <2> HIDE DEF p1
  <2> QED BY <2>1, FreshKept
<1>2. gcmOut' = <<>>
  BY DEF GCMStart
<1>3. CASE ~AcceptsIV(p1.c, i)
  <2>1. gcm' = p1.c /\ gcmGiven' = p1.g /\ gcmTag' = <<>>
    BY <1>3 DEF GCMStart, Becomes
  <2> HIDE DEF p1
  <2> QED BY <1>1, <1>2, <2>1
<1>4. CASE AcceptsIV(p1.c, i)
  <2>1. i \in Nat
    BY <1>4, GCMConstants DEF AcceptsIV
  <2>2. Kept(p2) /\ p2.g.id = gcmGiven.id + 1
    <3> HIDE DEF p1
    <3> QED BY <1>1, <1>4, <2>1, IVKept
  <2>3. CASE ~AcceptsAAD(p2.c, a)
    <3>1. gcm' = p2.c /\ gcmGiven' = p2.g /\ gcmTag' = <<>>
      BY <1>4, <2>3 DEF GCMStart, Becomes
    <3> HIDE DEF p2
    <3> QED BY <1>2, <2>2, <3>1
  <2>4. CASE AcceptsAAD(p2.c, a)
    <3>1. a \in Nat
      BY <2>4, GCMConstants DEF AcceptsAAD
    <3>2. PICK low \in LowWords(p2) :
             gcm' = p3(low).c /\ gcmGiven' = p3(low).g /\ gcmTag' = <<>>
      BY <1>4, <2>4 DEF GCMStart, Becomes
    <3>3. low \in 0..CounterMod - 1
      BY LowWordsAreWords
    <3> HIDE DEF p2
    <3>4. Kept(p3(low)) /\ p3(low).g.id = gcmGiven.id + 1
      BY <2>2, <2>4, <3>1, <3>3, AADKept
    <3> DEFINE p == p3(low)
    <3> HIDE DEF p
    <3>5. Kept(p) /\ p.g.id = gcmGiven.id + 1 /\ gcm' = p.c /\ gcmGiven' = p.g
      BY <3>2, <3>4 DEF p
    <3> QED BY <1>2, <3>2, <3>5
  <2> QED BY <2>3, <2>4
<1> QED
  BY <1>3, <1>4

\* A message given afresh.
LEMMA FromNothing ==
    ASSUME NEW p, Kept(p)
    PROVE  GCMOneCall!Extends(GCMOneCall!Nothing(p.g.id), p.g)
<1> DEFINE g == p.g
           k == g.id
           o == GCMOneCall!Nothing(k)
<1>1. GInv(p.c, g) /\ GContent(p.c, g) /\ g.text = <<>>
  BY DEF Kept
<1>2. /\ o.id = k /\ o.iv = 0 /\ o.aad = 0 /\ o.text = <<>> /\ o.begun = FALSE
      /\ Len(<<>>) = 0
  BY DEF GCMOneCall!Nothing
<1>3. GCMOneCall!Take(<<>>, 0) = <<>>
  <2>1. <<>> \in Seq({})
    BY EmptySeq
  <2> DEFINE n == <<>>
  <2>2. n \in Seq({})
    BY <2>1
  <2> HIDE DEF n
  <2>3. Take(n, 0) = <<>>
    BY <2>2, TakeAll
  <2> QED BY <2>3, GCMSameOperators DEF n
<1>4. g.begun => g.iv > 0 /\ g.low \in 0..CounterMod - 1
  BY <1>1 DEF GInv, Phases, GContent, BegunContent, IsGiven
<1>5. g.iv >= 0 /\ g.aad >= 0
  BY <1>1 DEF GInv, IsGiven
<1> HIDE DEF g, o
<1> QED
  BY <1>1, <1>2, <1>3, <1>4, <1>5 DEF GCMOneCall!Extends, g, o

\* A message of which no text is given yet, with more IV or AAD.
LEMMA WithMore ==
    ASSUME NEW p, Kept(p), NEW q, Kept(q), q.g.id = p.g.id,
           NEW i \in Nat, q.g.iv = p.g.iv + i, NEW a \in Nat, q.g.aad = p.g.aad + a,
           p.g.begun => q.g.begun /\ i = 0 /\ q.g.low = p.g.low
    PROVE  GCMOneCall!Extends(p.g, q.g)
<1> DEFINE g == p.g
           h == q.g
<1>1. /\ GInv(p.c, g) /\ GContent(p.c, g) /\ g.text = <<>>
      /\ GInv(q.c, h) /\ GContent(q.c, h) /\ h.text = <<>>
  BY DEF Kept
<1>2. GCMOneCall!Take(h.text, Len(g.text)) = g.text
  <2> DEFINE n == h.text
  <2>1. n \in Seq({"enc", "dec"})
    BY <1>1 DEF GInv, IsGiven
  <2>2. g.text = n
    BY <1>1
  <2> HIDE DEF n
  <2>3. Take(n, Len(n)) = n
    BY <2>1, TakeAll
  <2> QED BY <2>2, <2>3, GCMSameOperators DEF n
<1>3. h.begun => h.iv > 0 /\ h.low \in 0..CounterMod - 1
  BY <1>1 DEF GInv, Phases, GContent, BegunContent, IsGiven
<1>4. g.iv \in Nat /\ g.aad \in Nat
  BY <1>1 DEF GInv, IsGiven
<1>5. h.iv >= g.iv /\ h.aad >= g.aad /\ (g.begun => h.iv = g.iv)
  BY <1>4
<1> HIDE DEF g, h
<1> QED
  BY <1>1, <1>2, <1>3, <1>5 DEF GCMOneCall!Extends, g, h

\* A message with more text.
LEMMA WithMoreText ==
    ASSUME NEW c, NEW g, GInv(c, g), GContent(c, g), NEW n \in Nat,
           NEW dir \in {"enc", "dec"}, c.state \in {"GcmAADprocessing", "GcmTXTprocessing"}
    PROVE  GCMOneCall!Extends(g, WithText(g, n, dir))
<1> DEFINE h == WithText(g, n, dir)
<1>1. MoreText(g, n, dir, h)
  BY GivenText DEF GInv
<1> HIDE DEF h
<1>2. /\ g.text \in Seq({"enc", "dec"}) /\ g.iv \in Nat /\ g.aad \in Nat /\ g.iv > 0
      /\ g.low \in 0..CounterMod - 1
  BY DEF GInv, IsGiven, GContent, BegunContent
<1>3. GCMOneCall!Take(h.text, Len(g.text)) = g.text
  <2>1. PICK more \in Seq({"enc", "dec"}) : h.text = g.text \o more
    BY <1>1 DEF MoreText
  <2>2. Take(g.text \o more, Len(g.text)) = g.text
    BY <1>2, TakeOfJoined
  <2> QED BY <2>1, <2>2, GCMSameOperators
<1>4. h.id = g.id /\ h.iv = g.iv /\ h.aad = g.aad /\ h.low = g.low /\ h.begun = g.begun
  BY <1>1 DEF MoreText
<1> QED
  BY <1>2, <1>3, <1>4 DEF GCMOneCall!Extends, h

\* A step of one call for each call: what is given becomes h.
Given(h, message) ==
    /\ gcmGiven' = h /\ gcmTag' = <<>>
    /\ gcmOut' = GCMOneCall!Output(h)
    /\ \/ GCMOneCall!Extends(gcmGiven, h)
       \/ message /\ GCMOneCall!Extends(GCMOneCall!Nothing(gcmGiven.id + 1), h) /\ h.text = <<>>

\* What a call does to what the context holds and to what is given.
GCMCallHolds == GCMHolds' /\ \E h, message : Given(h, message)

\* Every call but ippsAES_GCMGetTag leaves a context that holds its message.
LEMMA GCMCallsHold ==
    ASSUME GCMHolds, GCMNext, ~GCMGetTag
    PROVE  GCMCallHolds
<1> DEFINE g == gcmGiven
<1>1. /\ GInv(gcm, g) /\ GContent(gcm, g) /\ gcmOut = GCMOneCall!Output(g)
      /\ Here = [c |-> gcm, g |-> g]
  BY DEF GCMHolds, GCMInv, Here
<1>2. gcm.state # "GcmTXTprocessing" => Kept(Here)
  BY <1>1, NoTextYet DEF Kept
<1>3. ASSUME NEW p, Kept(p), p.g.id = g.id + 1,
             gcm' = p.c, gcmGiven' = p.g, gcmTag' = <<>>, gcmOut' = <<>>
      PROVE  GCMCallHolds
  <2>1. GInv(p.c, p.g) /\ GContent(p.c, p.g) /\ GCMOneCall!Output(p.g) = <<>>
        /\ p.g.text = <<>>
    BY <1>3, NoOutput DEF Kept
  <2>2. GCMHolds'
    BY <1>3, <2>1 DEF GCMHolds, GCMInv
  <2>3. GCMOneCall!Extends(GCMOneCall!Nothing(g.id + 1), p.g)
    BY <1>3, FromNothing
  <2>4. Given(p.g, TRUE)
    BY <1>3, <2>1, <2>3 DEF Given
  <2> QED BY <2>2, <2>4 DEF GCMCallHolds
<1>4. ASSUME NEW p, Kept(p), GCMOneCall!Extends(g, p.g), g.text = <<>>,
             gcm' = p.c, gcmGiven' = p.g, gcmTag' = <<>>, gcmOut' = gcmOut
      PROVE  GCMCallHolds
  <2>1. GInv(p.c, p.g) /\ GContent(p.c, p.g) /\ GCMOneCall!Output(p.g) = <<>>
    BY <1>4, NoOutput DEF Kept
  <2>2. gcmOut' = <<>>
    BY <1>1, <1>4, NoOutput
  <2>3. GCMHolds'
    BY <1>4, <2>1, <2>2 DEF GCMHolds, GCMInv
  <2>4. Given(p.g, FALSE)
    BY <1>4, <2>1, <2>2 DEF Given
  <2> QED BY <2>3, <2>4 DEF GCMCallHolds
<1>5. CASE GCMResetCall
  <2>1. /\ gcm' = Fresh(g.id + 1).c /\ gcmGiven' = Fresh(g.id + 1).g
        /\ gcmTag' = <<>> /\ gcmOut' = <<>>
    BY <1>5 DEF GCMResetCall, Becomes, Afresh, Fresh
  <2>2. Kept(Fresh(g.id + 1)) /\ Fresh(g.id + 1).g.id = g.id + 1
    BY FreshKept
  <2> QED BY <1>3, <2>1, <2>2
<1>6. ASSUME NEW n \in PieceLens, GCMProcessIV(n) PROVE GCMCallHolds
  <2>1. /\ n \in Nat /\ AcceptsIV(gcm, n) /\ Becomes(WithIV(Here, n)) /\ gcmOut' = gcmOut
    BY <1>6, BlockConstants DEF GCMProcessIV, AcceptsIV
  <2>2. gcm.state # "GcmTXTprocessing" /\ Here.c = gcm /\ Here.g = g
    BY <2>1 DEF AcceptsIV, Here
  <2> DEFINE p == WithIV(Here, n)
  <2>3. /\ Kept(p) /\ p.g.id = g.id /\ p.g.aad = g.aad /\ p.g.iv = g.iv + n /\ ~g.begun
    BY <1>2, <2>1, <2>2, IVKept
  <2> HIDE DEF p
  <2>4. g.aad = g.aad + 0 /\ g.text = <<>>
    BY <1>1, <2>2, NoTextYet DEF GInv, IsGiven
  <2>5. GCMOneCall!Extends(Here.g, p.g)
    BY <1>2, <2>1, <2>2, <2>3, <2>4, WithMore
  <2> QED BY <1>4, <2>1, <2>2, <2>3, <2>4, <2>5 DEF Becomes, p
<1>7. ASSUME NEW n \in PieceLens, GCMProcessAAD(n) PROVE GCMCallHolds
  <2>1. /\ n \in Nat /\ AcceptsAAD(gcm, n) /\ gcmOut' = gcmOut
    BY <1>7, BlockConstants DEF GCMProcessAAD, AcceptsAAD
  <2>2. PICK low \in LowWords(Here) : Becomes(WithAAD(Here, n, low))
    BY <1>7 DEF GCMProcessAAD
  <2>3. low \in 0..CounterMod - 1
    BY LowWordsAreWords
  <2>4. gcm.state # "GcmTXTprocessing" /\ Here.c = gcm /\ Here.g = g
    BY <2>1 DEF AcceptsAAD, Here
  <2> DEFINE p == WithAAD(Here, n, low)
  <2>5. /\ Kept(p) /\ p.g.id = g.id /\ p.g.iv = g.iv /\ p.g.aad = g.aad + n /\ p.g.begun
        /\ g.begun => p.g.low = g.low
    BY <1>2, <2>1, <2>3, <2>4, AADKept
  <2>6. gcm' = p.c /\ gcmGiven' = p.g /\ gcmTag' = <<>>
    BY <2>2 DEF Becomes
  <2> HIDE DEF p
  <2>7. g.iv = g.iv + 0 /\ g.text = <<>>
    BY <1>1, <2>4, NoTextYet DEF GInv, IsGiven
  <2>8. GCMOneCall!Extends(Here.g, p.g)
    BY <1>2, <2>1, <2>4, <2>5, <2>7, WithMore
  <2> QED BY <1>4, <2>1, <2>4, <2>5, <2>6, <2>7, <2>8
<1>8. ASSUME NEW i \in StartLens, NEW a \in StartLens, GCMStart(i, a) PROVE GCMCallHolds
  <2>1. PICK p : /\ Kept(p) /\ p.g.id = g.id + 1
                 /\ gcm' = p.c /\ gcmGiven' = p.g /\ gcmTag' = <<>> /\ gcmOut' = <<>>
    BY <1>8, StartStops
  <2> QED BY <1>3, <2>1
<1>9. ASSUME NEW n \in PieceLens, NEW dir \in {"enc", "dec"}, GCMText(n, dir)
      PROVE  GCMCallHolds
  <2> DEFINE t == ProcessText(gcm, Piece(dir, g.id, Len(g.text), n), dir)
             h == WithText(g, n, dir)
  <2>1. n \in Nat /\ HasRoom(gcm, n) /\ gcm.state \in {"GcmAADprocessing", "GcmTXTprocessing"}
    BY <1>9, BlockConstants DEF GCMText
  <2>2. gcm' = t.c /\ gcmOut' = gcmOut \o t.dst /\ gcmGiven' = h /\ gcmTag' = <<>>
    BY <1>9 DEF GCMText, WithText
  <2>3. GInv(t.c, h)
    BY <1>1, <2>1, TextKeeps
  <2>4. GContent(t.c, h) /\ GCMOneCall!Output(h) = GCMOneCall!Output(g) \o t.dst
    BY <1>1, <2>1, ProcessTextContent
  <2>5. GCMOneCall!Extends(g, h)
    BY <1>1, <2>1, WithMoreText
  <2> HIDE DEF t, h
  <2>6. gcmOut' = GCMOneCall!Output(h)
    BY <1>1, <2>2, <2>4
  <2>7. GCMHolds'
    BY <2>2, <2>3, <2>4, <2>6 DEF GCMHolds, GCMInv
  <2>8. Given(h, FALSE)
    BY <2>2, <2>5, <2>6 DEF Given
  <2> QED BY <2>7, <2>8 DEF GCMCallHolds
<1> QED
  BY <1>5, <1>6, <1>7, <1>8, <1>9 DEF GCMNext

\* The invariant, from the start on.
LEMMA GCMHoldsAtFirst == GCMInit => GCMHolds
<1> SUFFICES ASSUME GCMInit PROVE GCMHolds
  OBVIOUS
<1>1. gcm = GCMReset /\ gcmGiven = GCMOneCall!Nothing(1) /\ gcmOut = <<>>
  BY DEF GCMInit
<1>2. gcmGiven.text = <<>>
  BY <1>1 DEF GCMOneCall!Nothing
<1> QED
  BY <1>1, <1>2, AfterReset, AfterResetContent, NoOutput DEF GCMHolds, GCMInv

\* The invariant is inductive.
LEMMA GCMStepHolds == GCMHolds /\ [GCMNext]_gcmVars => GCMHolds'
<1> SUFFICES ASSUME GCMHolds, [GCMNext]_gcmVars PROVE GCMHolds'
  OBVIOUS
<1>1. CASE GCMNext /\ ~GCMGetTag
  BY <1>1, GCMCallsHold DEF GCMCallHolds
<1>2. CASE GCMGetTag
  BY <1>2 DEF GCMGetTag, GCMHolds, GCMInv
<1>3. CASE UNCHANGED gcmVars
  BY <1>3 DEF gcmVars, GCMHolds, GCMInv
<1> QED
  BY <1>1, <1>2, <1>3

\* Output and tag of every message, however it is cut into pieces and wherever
\* ippsAES_GCMGetTag is called in between, are those of one call on all of it:
\* buffering, closing of blocks and the counter cannot be told from outside.
THEOREM GCMPiecesAreOneCall == GCMSpec => GCMImplementsOneCall
<1>1. GCMInit => GCMOneCall!Init
  BY DEF GCMInit, GCMOneCall!Init, GCMOneCall!NoTag
<1>2. GCMHolds /\ [GCMNext]_gcmVars => [GCMOneCall!Next]_(GCMOneCall!vars)
  <2> SUFFICES ASSUME GCMHolds, [GCMNext]_gcmVars PROVE [GCMOneCall!Next]_(GCMOneCall!vars)
    OBVIOUS
  <2>1. CASE GCMNext /\ ~GCMGetTag
    <3>1. PICK h, message : Given(h, message)
      BY <2>1, GCMCallsHold DEF GCMCallHolds
    <3>2. GCMOneCall!Give
      BY <3>1 DEF Given, GCMOneCall!Give, GCMOneCall!NoTag
    <3> QED BY <3>2 DEF GCMOneCall!Next
  <2>2. CASE GCMGetTag
    <3>1. /\ gcmTag' = TagOf(gcm) /\ gcmGiven' = gcmGiven /\ gcmOut' = gcmOut
          /\ gcm.state # "GcmInit" /\ gcm.ivLen # 0
      BY <2>2 DEF GCMGetTag
    <3>2. gcmGiven.iv > 0
      BY <3>1 DEF GCMHolds, GCMInv, GInv, IsGiven
    <3>3. TagOf(gcm) = GCMOneCall!Tag(gcmGiven)
      BY <3>1, TagOfContent DEF GCMHolds, GCMInv
    <3> QED BY <3>1, <3>2, <3>3 DEF GCMOneCall!GetTag, GCMOneCall!Next
  <2>3. CASE UNCHANGED gcmVars
    BY <2>3 DEF gcmVars, GCMOneCall!vars
  <2> QED BY <2>1, <2>2, <2>3
<1> QED
  BY <1>1, <1>2, GCMHoldsAtFirst, GCMStepHolds, PTL
  DEF GCMSpec, GCMImplementsOneCall, GCMOneCall!Spec

\* The counter blocks of different text blocks differ, and from the first.
LEMMA CounterBlocksDiffer ==
    ASSUME NEW j, IsJ0(j), NEW a \in 0..CounterMod - 3
    PROVE  /\ Counter(j, a) # j
           /\ \A b \in 0..CounterMod - 3 : Counter(j, a) = Counter(j, b) => a = b
<1>1. CounterMod \in Nat \ {0} /\ j.n \in 0..CounterMod - 1
  BY GCMConstants DEF IsJ0
<1>2. \A x : Counter(j, x) = [iv |-> j.iv, n |-> (j.n + 1 + x) % CounterMod]
  BY DEF Counter, IsJ0
<1>3. \A x : Counter(j, x).n = (j.n + 1 + x) % CounterMod
  BY <1>2
<1>4. ASSUME NEW b \in 0..CounterMod - 3, Counter(j, a) = Counter(j, b) PROVE a = b
  <2>1. (j.n + 1 + a) % CounterMod = (j.n + 1 + b) % CounterMod
    BY <1>3, <1>4
  <2>2. j.n + 1 + a = j.n + (1 + a) /\ j.n + 1 + b = j.n + (1 + b)
    BY <1>1
  <2>3. 1 + a \in 0..CounterMod - 1 /\ 1 + b \in 0..CounterMod - 1
    BY <1>1
  <2>4. 1 + a = 1 + b
    <3> DEFINE x == 1 + a
               y == 1 + b
    <3> HIDE DEF x, y
    <3>1. (j.n + x) % CounterMod = (j.n + y) % CounterMod
      BY <2>1, <2>2 DEF x, y
    <3>2. x \in 0..CounterMod - 1 /\ y \in 0..CounterMod - 1
      BY <2>3 DEF x, y
    <3>3. x = y
      BY <1>1, <3>1, <3>2, NoComingRound
    <3> QED BY <3>3 DEF x, y
  <2> QED BY <2>4
<1>5. ASSUME Counter(j, a) = j PROVE FALSE
  <2>1. (j.n + 1 + a) % CounterMod = j.n
    BY <1>3, <1>5
  <2>2. j.n + 1 + a = j.n + (1 + a) /\ j.n + 0 = j.n
    BY <1>1
  <2>3. j.n % CounterMod = j.n
    <3>1. CounterMod * 0 + j.n = j.n /\ 0 \in Nat
      BY <1>1
    <3>2. (CounterMod * 0 + j.n) % CounterMod = j.n
      BY <1>1, <3>1, OnlyOneQuotient
    <3> QED BY <3>1, <3>2
  <2>4. 1 + a \in 1..CounterMod - 1 /\ 0 \in 0..CounterMod - 1
    BY <1>1
  <2> DEFINE x == 1 + a
  <2> HIDE DEF x
  <2>5. (j.n + x) % CounterMod = (j.n + 0) % CounterMod
    BY <2>1, <2>2, <2>3 DEF x
  <2>6. x \in 0..CounterMod - 1 /\ x # 0
    BY <2>4 DEF x
  <2>7. x = 0
    BY <1>1, <2>4, <2>5, <2>6, NoComingRound
  <2> QED BY <2>6, <2>7
<1> QED
  BY <1>4, <1>5

\* The key stream in a byte of the output, and in the block that masks the tag.
UsedIn(byte) == {b \in byte : b[1] = "E"}

\* Of the key stream, a byte of the output has the byte at its place and no
\* other.
LEMMA KeyOfResult ==
    ASSUME NEW g, IsGiven(g), NEW i \in DOMAIN g.text
    PROVE  UsedIn(GCMOneCall!Output(g)[i]) = Key(J0(g), i)
<1> DEFINE k == <<"E", Counter(J0(g), (i - 1) \div BlockSize), ((i - 1) % BlockSize) + 1>>
           d == <<g.text[i], g.id, i>>
<1>1. GCMOneCall!Output(g)[i] = Xor({d}, Key(J0(g), i))
  BY KeystreamIsKey, GCMSameOperators
  DEF GCMOneCall!Output, GCMOneCall!Result, GCMOneCall!Source
<1>2. Key(J0(g), i) = {k}
  BY DEF Key
<1>3. k[1] = "E" /\ d[1] = g.text[i] /\ g.text[i] \in {"enc", "dec"}
  <2>1. g.text \in Seq({"enc", "dec"}) /\ DOMAIN g.text = 1..Len(g.text)
    BY DEF IsGiven
  <2>2. g.text[i] \in {"enc", "dec"}
    BY <2>1
  <2> QED BY <2>2
<1>4. d[1] # "E"
  BY <1>3
<1> HIDE DEF k, d
<1>5. d # k
  BY <1>3, <1>4
<1>6. Xor({d}, {k}) = {d, k}
  BY <1>5 DEF Xor
<1>7. UsedIn({d, k}) = {k}
  BY <1>3, <1>4 DEF UsedIn
<1> QED
  BY <1>1, <1>2, <1>6, <1>7

\* Within the text limit no two places of a text have the same key stream
\* byte, and none is of the block that masks the tag.
LEMMA KeysDiffer ==
    ASSUME NEW j, IsJ0(j), NEW n \in Nat, n <= MaxTxtLen, NEW i \in 1..n
    PROVE  /\ \A k \in 1..n : Key(j, i) = Key(j, k) => i = k
           /\ \A l : Key(j, i) # {<<"E", j, l>>}
<1> DEFINE B == BlockSize
           blk(k) == (k - 1) \div B
           at(k) == (k - 1) % B
<1>1. ASSUME NEW k \in 1..n
      PROVE  blk(k) \in 0..CounterMod - 3 /\ at(k) \in 0..B - 1 /\ k - 1 = B * blk(k) + at(k)
  <2>1. k - 1 \in Nat /\ k - 1 < MaxTxtLen
    BY RoomForNothing
  <2>2. blk(k) \in Nat /\ at(k) \in 0..B - 1 /\ k - 1 = B * blk(k) + at(k)
    BY <2>1, BlocksAndRest
  <2>3. CounterMod - 2 \in Nat /\ B \in Nat \ {0} /\ MaxTxtLen = (CounterMod - 2) * B
    BY GCMConstants, BlockConstants DEF MaxTxtLen
  <2>4. ~(blk(k) >= CounterMod - 2)
    <3> SUFFICES ASSUME blk(k) >= CounterMod - 2 PROVE FALSE
      OBVIOUS
    <3> DEFINE q == blk(k)
               c == CounterMod - 2
               x == at(k)
    <3>1. q \in Nat /\ c \in Nat /\ q >= c /\ x \in Nat /\ k - 1 = B * q + x
          /\ MaxTxtLen = c * B
      BY <2>2, <2>3
    <3> HIDE DEF q, c, x
    <3>2. q - c \in Nat
      BY <3>1
    <3>3. B * (q - c) \in Nat /\ B * q = B * c + B * (q - c) /\ B * c = c * B
      BY <2>3, <3>1, <3>2
    <3>4. B * c \in Nat /\ B * q \in Nat
      BY <2>3, <3>1
    <3> QED BY <2>1, <3>1, <3>3, <3>4
  <2>5. blk(k) \in 0..CounterMod - 3
    BY <2>2, <2>3, <2>4, GCMConstants
  <2> QED BY <2>2, <2>5
<1>2. \A k : Key(j, k) = {<<"E", Counter(j, blk(k)), at(k) + 1>>}
  BY DEF Key
<1> HIDE DEF blk, at
<1>3. ASSUME NEW k \in 1..n, Key(j, i) = Key(j, k) PROVE i = k
  <2>1. /\ <<"E", Counter(j, blk(i)), at(i) + 1>> = <<"E", Counter(j, blk(k)), at(k) + 1>>
    BY <1>2, <1>3
  <2>2. Counter(j, blk(i)) = Counter(j, blk(k)) /\ at(i) + 1 = at(k) + 1
    BY <2>1
  <2>3. blk(i) = blk(k)
    BY <1>1, <2>2, CounterBlocksDiffer
  <2>4. at(i) = at(k)
    BY <1>1, <2>2
  <2>5. i - 1 = k - 1
    BY <1>1, <2>3, <2>4
  <2> QED BY <2>5
<1>4. ASSUME NEW l, Key(j, i) = {<<"E", j, l>>} PROVE FALSE
  <2>1. <<"E", Counter(j, blk(i)), at(i) + 1>> = <<"E", j, l>>
    BY <1>2, <1>4
  <2>2. Counter(j, blk(i)) = j
    BY <2>1
  <2> QED BY <1>1, <2>2, CounterBlocksDiffer
<1> QED
  BY <1>3, <1>4

\* For every block size and width of the counter: no byte of the key stream
\* masks two bytes of a message, and none of the block that masks the tag.
\* The text limit of ippsAES_GCMEncrypt is what keeps the counter from
\* coming round.
THEOREM GCMKeystreamNeverRepeats == GCMSpec => []KeystreamNeverRepeats
<1>1. GCMHolds => KeystreamNeverRepeats
  <2> SUFFICES ASSUME GCMHolds PROVE KeystreamNeverRepeats
    OBVIOUS
  <2> DEFINE g == gcmGiven
             j == J0(g)
             used == [i \in DOMAIN gcmOut |-> {b \in gcmOut[i] : b[1] = "E"}]
             mask == UNION {gcm.ecounter0[k] : k \in 1..BlockSize}
  <2>1. /\ GInv(gcm, g) /\ GContent(gcm, g) /\ gcmOut = GCMOneCall!Output(g) /\ IsGiven(g)
        /\ g.text \in Seq({"enc", "dec"})
    BY DEF GCMHolds, GCMInv, GInv, IsGiven
  <2>2. DOMAIN gcmOut = DOMAIN g.text /\ DOMAIN g.text = 1..Len(g.text) /\ Len(g.text) \in Nat
    BY <2>1 DEF GCMOneCall!Output
  <2>3. IsJ0(j) /\ Len(g.text) <= MaxTxtLen
    BY <2>1, FirstBlock DEF GInv
  <2>4. ASSUME NEW i \in DOMAIN gcmOut PROVE used[i] = Key(j, i)
    <3>1. used[i] = UsedIn(gcmOut[i])
      BY DEF UsedIn
    <3>2. UsedIn(GCMOneCall!Output(g)[i]) = Key(J0(g), i)
      BY <2>1, <2>2, KeyOfResult
    <3> QED BY <2>1, <3>1, <3>2
  <2>5. ASSUME NEW i \in DOMAIN gcmOut PROVE \E x : Key(j, i) = {x}
    BY DEF Key
  <2>6. ASSUME NEW i \in DOMAIN gcmOut PROVE used[i] \cap mask = {}
    <3>1. g.text # <<>>
      BY <2>1, <2>2
    <3>2. gcm.ecounter0 = Mask(g)
      <4>1. gcm.state = "GcmTXTprocessing"
        BY <2>1, <3>1, NoTextYet
      <4> QED BY <2>1, <4>1 DEF GContent, BegunContent
    <3>3. \A k \in 1..BlockSize : gcm.ecounter0[k] = {<<"E", j, k>>}
      BY <3>2 DEF Mask, GCMOneCall!Mask, J0
    <3> SUFFICES ASSUME NEW x \in used[i], x \in mask PROVE FALSE
      OBVIOUS
    <3>4. PICK k \in 1..BlockSize : x \in gcm.ecounter0[k]
      OBVIOUS
    <3>5. x = <<"E", j, k>>
      BY <3>3, <3>4
    <3>6. Key(j, i) = {x}
      BY <2>4, <2>5
    <3>7. Key(j, i) # {<<"E", j, k>>}
      BY <2>2, <2>3, KeysDiffer
    <3> QED BY <3>5, <3>6, <3>7
  <2>7. ASSUME NEW i \in DOMAIN gcmOut, NEW k \in DOMAIN gcmOut, i # k
        PROVE  used[i] \cap used[k] = {}
    <3>1. Key(j, i) # Key(j, k)
      BY <2>2, <2>3, <2>7, KeysDiffer
    <3>2. used[i] = Key(j, i) /\ used[k] = Key(j, k)
      BY <2>4
    <3> HIDE DEF used
    <3>3. PICK x : Key(j, i) = {x}
      BY <2>5
    <3>4. PICK y : Key(j, k) = {y}
      BY <2>5
    <3> QED BY <3>1, <3>2, <3>3, <3>4
  <2>8. ASSUME NEW i \in DOMAIN gcmOut PROVE used[i] # {}
    BY <2>4, <2>5
  <2> HIDE DEF used, mask
  <2> QED
    BY <2>6, <2>7, <2>8 DEF KeystreamNeverRepeats, used, mask
<1> QED
  BY <1>1, GCMHoldsAtFirst, GCMStepHolds, PTL DEF GCMSpec
=============================================================================
