----------------------------- MODULE OneCallCCM -----------------------------
(* What AES-CCM promises, without pieces: output and tag are those of one   *)
(* call on the nonce, the associated data and the text given since          *)
(* ippsAES_CCMStart, with the lengths in force when it was called           *)
(* (NIST SP 800-38C).  text is the direction of each byte.  The promise ends *)
(* where the counter of the blocks does (CounterSuffices).                  *)
EXTENDS ByteBlocks

CONSTANTS CounterWord, LongAd, ShortHeader, LongHeader

VARIABLES given, out, tag

vars == <<given, out, tag>>

\* The first block authenticated; the message length has the bytes the nonce
\* leaves.
B0(g) ==
    [i \in 1..BlockSize |->
        {<<"B0", g.id, g.nonce, g.ad > 0, g.tagLen, g.msgLen % g.nonce.lengths, i>>}]

\* The encoded length of the associated data, put before them.
Header(ad) ==
    [i \in 1..(IF ad < LongAd THEN ShortHeader ELSE LongHeader) |-> {<<"adLen", ad, i>>}]

Ad(g) == Piece("ad", g.id, 0, g.ad)

\* Byte i of the block the cipher makes of counter n.
S(id, nonce, n) ==
    [i \in 1..BlockSize |-> {<<"E", id, nonce, n % nonce.counters, i>>}]

Keystream(g, i) == S(g.id, g.nonce, 1 + ((i - 1) \div BlockSize))[((i - 1) % BlockSize) + 1]

Source(g, i) == {<<g.text[i], g.id, i>>}
Result(g, i) == Xor(Source(g, i), Keystream(g, i))
Output(g) == [i \in DOMAIN g.text |-> Result(g, i)]
PlainText(g) == [i \in DOMAIN g.text |-> IF g.text[i] = "enc" THEN Source(g, i) ELSE Result(g, i)]

Mac(g) ==
    <<B0(g)>>
    \o (IF g.ad = 0 THEN <<>> ELSE PaddedBlocks(Header(g.ad) \o Ad(g)))
    \o PaddedBlocks(PlainText(g))

Tag(g, n) == [mac |-> Mac(g), mask |-> S(g.id, g.nonce, 0), len |-> n]

\* The numbers of the blocks begun are below CounterWord, or the nonce leaves
\* no more values than that; beyond, output and tag are left open.
CounterSuffices(g) ==
    \/ g.nonce.counters <= CounterWord
    \/ (Len(g.text) + BlockSize - 1) \div BlockSize < CounterWord

Init == given.id = 0 /\ given.text = <<>> /\ out = <<>> /\ tag = <<>>

Give ==
    /\ \/ given'.id = given.id + 1 /\ given'.text = <<>>
       \/ /\ given' = [given EXCEPT !.text = given'.text]
          /\ Take(given'.text, Len(given.text)) = given.text
    /\ CounterSuffices(given') => out' = Output(given')
    /\ tag' = <<>>

GetTag ==
    /\ given.id > 0
    /\ CounterSuffices(given) => \E n \in 1..BlockSize : tag' = Tag(given, n)
    /\ UNCHANGED <<given, out>>

Next == Give \/ GetTag

Spec == Init /\ [][Next]_vars
=============================================================================
