----------------------------- MODULE OneCallGCM -----------------------------
(* What AES-GCM promises, without pieces: the output and the tag are those  *)
(* of one call on everything given so far (NIST SP 800-38D), however it was *)
(* cut.  `given' counts the bytes of the IV and of the AAD and holds the    *)
(* direction of each text byte; `low' is the last word of a hashed IV.      *)
EXTENDS ByteBlocks

CONSTANTS CtrPos, CounterMod

VARIABLES given, out, tag

vars == <<given, out, tag>>

NoTag == <<>>

LengthBlock(a, t) ==
    [i \in 1..BlockSize |-> IF a = 0 /\ t = 0 THEN {} ELSE {<<"length", a, t, i>>}]

\* GHASH as a register: the blocks multiplied in, and what is XORed on top.
Hash(blocks) == [chain |-> blocks, open |-> Zeros(BlockSize)]

\* J0, the first counter block.
J0(g) ==
    IF g.iv = CtrPos
    THEN [iv |-> [chain |-> <<>>, open |-> CopyAt(Zeros(BlockSize), 0, Piece("iv", g.id, 0, g.iv))],
          n  |-> 1]
    ELSE [iv |-> Hash(Append(PaddedBlocks(Piece("iv", g.id, 0, g.iv)),
                             LengthBlock(0, g.iv))),
          n  |-> g.low]

Keystream(g, i) ==
    LET c == [J0(g) EXCEPT !.n = (@ + 1 + ((i - 1) \div BlockSize)) % CounterMod]
    IN {<<"E", c, ((i - 1) % BlockSize) + 1>>}

\* Text byte i as the caller gave it, and as it is returned.
Source(g, i) == {<<g.text[i], g.id, i>>}
Result(g, i) == Xor(Source(g, i), Keystream(g, i))
Output(g) == [i \in DOMAIN g.text |-> Result(g, i)]

CipherText(g) == [i \in DOMAIN g.text |-> IF g.text[i] = "enc" THEN Result(g, i) ELSE Source(g, i)]

HashInput(g) ==
    PaddedBlocks(Piece("aad", g.id, 0, g.aad))
    \o PaddedBlocks(CipherText(g))
    \o (IF g.aad = 0 /\ g.text = <<>> THEN <<>> ELSE <<LengthBlock(g.aad, Len(g.text))>>)

Mask(g) == [i \in 1..BlockSize |-> {<<"E", J0(g), i>>}]

\* The tag; before the AAD phase is opened no message is authenticated, and
\* the code returns zeros.
Tag(g) ==
    IF g.begun THEN [hash |-> Hash(HashInput(g)), mask |-> Mask(g)]
               ELSE [hash |-> Hash(<<>>), mask |-> Zeros(BlockSize)]

Nothing(id) == [id |-> id, iv |-> 0, aad |-> 0, text |-> <<>>, low |-> 0, begun |-> FALSE]

\* h is g with more given: the phases come in order.
Extends(g, h) ==
    /\ h.id = g.id /\ h.iv >= g.iv /\ h.aad >= g.aad
    /\ Take(h.text, Len(g.text)) = g.text
    /\ g.begun => h.begun /\ h.iv = g.iv /\ h.low = g.low
    /\ g.text # <<>> => h.aad = g.aad
    /\ h.begun => h.iv > 0 /\ h.low \in 0..CounterMod - 1

Init == given = Nothing(1) /\ out = <<>> /\ tag = NoTag

Give ==
    /\ \/ Extends(given, given')
       \/ Extends(Nothing(given.id + 1), given') /\ given'.text = <<>>
    /\ out' = Output(given')
    /\ tag' = NoTag

GetTag ==
    /\ given.iv > 0
    /\ tag' = Tag(given)
    /\ UNCHANGED <<given, out>>

Next == Give \/ GetTag

Spec == Init /\ [][Next]_vars
=============================================================================
