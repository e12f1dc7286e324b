----------------------------- MODULE ByteBlocks -----------------------------
(* Bytes and blocks of the streaming components, ideally: a byte is the set *)
(* of the terms XORed into it (the empty set is zero), so that two bytes    *)
(* are equal only if they are made of the same things.  A term is a tuple   *)
(* whose first component names its kind.  BlockSize is scaled down: what    *)
(* matters is how a length falls on the block boundaries.                   *)
EXTENDS Integers, Sequences

CONSTANTS BlockSize,   \* bytes of a block of the cipher or the hash
          PieceLens    \* the lengths a caller passes in one call

ASSUME BlockConstants == BlockSize \in Nat \ {0} /\ PieceLens \subseteq Int

Xor(a, b) == (a \ b) \cup (b \ a)

Zeros(n) == [i \in 1..n |-> {}]

Lesser(a, b) == IF a < b THEN a ELSE b

\* The first k bytes of s (all, if it is shorter), and what follows them.
Take(s, k) == SubSeq(s, 1, Lesser(k, Len(s)))
Drop(s, k) == SubSeq(s, k + 1, Len(s))

\* XorBlock and CopyBlock of s onto a block, from the byte after off on.
XorAt(block, off, s) ==
    [i \in DOMAIN block |-> IF i - off \in DOMAIN s THEN Xor(block[i], s[i - off])
                                                    ELSE block[i]]
CopyAt(block, off, s) ==
    [i \in DOMAIN block |-> IF i - off \in DOMAIN s THEN s[i - off] ELSE block[i]]

\* Bytes from + 1 to from + n of a part of message id.
Piece(kind, id, from, n) == [i \in 1..n |-> {<<kind, id, from + i>>}]

\* s cut into blocks; the whole ones only, or the last one padded with zeros.
WholeBlocks(s) ==
    [i \in 1..(Len(s) \div BlockSize) |-> SubSeq(s, (i - 1) * BlockSize + 1, i * BlockSize)]
PaddedBlocks(s) ==
    [i \in 1..((Len(s) + BlockSize - 1) \div BlockSize) |->
        CopyAt(Zeros(BlockSize), 0, Take(Drop(s, (i - 1) * BlockSize), BlockSize))]
=============================================================================
