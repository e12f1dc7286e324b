----------------------------- MODULE HashStream -----------------------------
(* The hash contexts (pcphash*_rmf.c): a message in pieces, its digest in    *)
(* one call or, for SHAKE, squeezed out in pieces, and contexts that are     *)
(* duplicated, packed and unpacked.  A context is a record here, so that     *)
(* the HMAC module can hold one; what two contexts share is the method       *)
(* structure.                                                                *)
EXTENDS ByteBlocks

CONSTANTS Slots,         \* memory for contexts and packed contexts
          LenBytes,      \* bytes of the message length in the padding (msgLenRepSize)
          LenWord,       \* the low word of the message length wraps here: 2^64
          DigestLen,     \* hashLen of the fixed-length method
          ShakeLens,     \* lengths the caller asks of ippsHashMethod_SHAKE128
          HashPieces, SqueezeLens,          \* lengths a caller passes
          MaxMsg, MaxDrawn,  \* bounds of the exploration: bytes in and out of two
          MaxEvents          \* contexts; contexts started, copied, finished, and
                             \* new lengths asked for

ASSUME HashConstants ==
    /\ LenBytes \in 1..BlockSize - 1 /\ LenWord \in Nat \ {0}
    /\ DigestLen \in 1..BlockSize /\ ShakeLens \subseteq Nat \ {0}
    /\ HashPieces \subseteq Nat /\ SqueezeLens \subseteq Int
    /\ \A n \in HashPieces : n < LenWord   \* a length is an int, a word 64 bits
    /\ MaxMsg \in Nat /\ MaxDrawn \in Nat /\ MaxEvents \in Nat

VARIABLES hashCtx,     \* the IppsHashState_rmf in each slot
          hashLen,     \* hashLen of the (static) method structures
          hashGiven,   \* what each context has been given
          hashOut,     \* the bytes last returned
          events       \* contexts started, copied and finished

hashVars == <<hashCtx, hashLen, hashGiven, hashOut, events>>

HashOneCall == INSTANCE OneCallHash WITH given <- hashGiven, lens <- hashLen, out <- hashOut

-----------------------------------------------------------------------------
(* Operations on one context.  Its value is the blocks processed so far and, *)
(* for the Keccak state, the permutations made while squeezing.              *)

InitialValue == [chain |-> <<>>, perms |-> 0]

HashInitOf(method) ==
    [id |-> "Hash", state |-> "HashInit", method |-> method, buff |-> Zeros(BlockSize),
     idx |-> 0, squeezed |-> 0, lenLo |-> 0, lenHi |-> 0, value |-> InitialValue]

hashUpdate(value, s) == [value EXCEPT !.chain = @ \o WholeBlocks(s)]

\* ippsHashUpdate_rmf: fill the buffer, whole blocks, keep the rest.
HashUpdateOf(h, s) ==
    LET loc  == IF h.idx = 0 THEN 0 ELSE Lesser(Len(s), BlockSize - h.idx)
        buff == CopyAt(h.buff, h.idx, Take(s, loc))
        full == h.idx + loc = BlockSize
        v1   == IF full THEN hashUpdate(h.value, buff) ELSE h.value
        m    == BlockSize * ((Len(s) - loc) \div BlockSize)
        rest == Drop(s, loc + m)
        lo   == (h.lenLo + Len(s)) % LenWord
    IN IF s = <<>> THEN [h EXCEPT !.state = "HashProcess"]
       ELSE [h EXCEPT !.state = "HashProcess", !.value = hashUpdate(v1, Take(Drop(s, loc), m)),
                      !.buff = CopyAt(buff, 0, rest),
                      !.idx = (IF full THEN 0 ELSE h.idx + loc) + Len(rest),
                      !.lenLo = lo, !.lenHi = IF lo < h.lenLo THEN @ + 1 ELSE @]

\* cpFinalize_rmf: one block, or two if the padding does not fit into one.
cpFinalize(h) ==
    LET mrl  == IF h.method = "shake" THEN 0 ELSE LenBytes
        size == IF h.idx < BlockSize - mrl THEN BlockSize ELSE 2 * BlockSize
        text == CopyAt(Zeros(size), 0, Take(h.buff, h.idx))
        pad  == IF h.method = "shake"
                THEN XorAt(XorAt(text, h.idx, <<{<<"0x1F">>}>>), BlockSize - 1, <<{<<"0x80">>}>>)
                ELSE CopyAt(CopyAt(text, h.idx, <<{<<"0x80">>}>>), size - mrl,
                            [i \in 1..mrl |-> {<<"len", h.lenHi, h.lenLo, i>>}])
    IN hashUpdate(h.value, pad)

\* Bytes of the hash value from the one after offset on.
hashOctStr(value, offset, n) ==
    [i \in 1..n |-> {<<"digest", value.chain, value.perms * BlockSize + offset + i>>}]

\* cpHashSqueeze: n bytes, of which the first come from the block that
\* squeezed bytes were taken from; each further block needs a permutation.
MutantSqueezedFromZero(value, squeezed, n) ==
    LET first == Lesser(n, BlockSize - squeezed)
        more  == (n - first + BlockSize - 1) \div BlockSize
    IN [bytes    |-> hashOctStr(value, squeezed, first)
                     \o [i \in 1..n - first |->
                           hashOctStr([value EXCEPT !.perms = @ + 1 + ((i - 1) \div BlockSize)],
                                      (i - 1) % BlockSize, 1)[1]],
        value    |-> [value EXCEPT !.perms = @ + more],
        squeezed |-> (squeezed + n) % BlockSize]
cpHashSqueeze(value, squeezed, n) ==
    LET first == Lesser(n, BlockSize - squeezed)
        more  == (n - first + BlockSize - 1) \div BlockSize
    IN [bytes    |-> hashOctStr(value, squeezed, first)
                     \o [i \in 1..n - first |->
                           hashOctStr([value EXCEPT !.perms = @ + 1 + ((i - 1) \div BlockSize)],
                                      (i - 1) % BlockSize, 1)[1]],
        value    |-> [value EXCEPT !.perms = @ + more],
        squeezed |-> IF squeezed + n = 0 THEN 0 ELSE ((squeezed + n - 1) % BlockSize) + 1]

Digest(h, n) == cpHashSqueeze(cpFinalize(h), 0, n).bytes

\* ippsHashFinal_rmf leaves the context ready for the next message.
HashFinished(h) ==
    [h EXCEPT !.idx = 0, !.lenLo = 0, !.lenHi = 0, !.squeezed = 0, !.value = InitialValue,
              !.state = "HashFinal"]

-----------------------------------------------------------------------------
(* The operations. *)

NoContext == [HashInitOf("none") EXCEPT !.id = "none"]
Valid(c) == hashCtx[c].id = "Hash"

SetSlot(c, h, g) ==
    hashCtx' = [hashCtx EXCEPT ![c] = h] /\ hashGiven' = [hashGiven EXCEPT ![c] = g]

HashStreamInit ==
    /\ hashCtx = [c \in Slots |-> NoContext] /\ hashGiven = [c \in Slots |-> HashOneCall!Absent]
    /\ hashLen = [sha |-> DigestLen, shake |-> 0]
    /\ hashOut = <<>> /\ events = 0

Event == events < MaxEvents /\ events' = events + 1

\* ippsHashMethod_SHAKE128 writes into the one static structure it returns.
HashMethodSHAKE(n) ==
    /\ hashLen' = [hashLen EXCEPT !.shake = n] /\ hashOut' = <<>>
    /\ UNCHANGED <<hashCtx, hashGiven>>
    /\ IF hashLen.shake = 0 THEN UNCHANGED events ELSE Event

HashInitCall(c, method) ==
    /\ hashLen[method] > 0
    /\ SetSlot(c, HashInitOf(method), HashOneCall!Fresh(method))
    /\ hashOut' = <<>> /\ UNCHANGED hashLen /\ Event

HashUpdate(c, n) ==
    /\ Valid(c) /\ hashCtx[c].state # "HashSqueeze"
    /\ \A d \in Slots \ {c} : Len(hashGiven[d].msg) + Len(hashGiven[c].msg) + n <= MaxMsg
    /\ LET s == Piece("msg", c, Len(hashGiven[c].msg), n)
       IN SetSlot(c, HashUpdateOf(hashCtx[c], s), [hashGiven[c] EXCEPT !.msg = @ \o s])
    /\ hashOut' = <<>> /\ UNCHANGED <<hashLen, events>>

HashFinal(c) ==
    /\ Valid(c) /\ hashCtx[c].state # "HashSqueeze"
    /\ hashOut' = Digest(hashCtx[c], hashLen[hashCtx[c].method])
    /\ SetSlot(c, HashFinished(hashCtx[c]), HashOneCall!Fresh(hashCtx[c].method))
    /\ UNCHANGED hashLen /\ Event

HashGetTag(c, n) ==
    /\ Valid(c) /\ hashCtx[c].state # "HashSqueeze"
    /\ n >= 1 /\ n <= hashLen[hashCtx[c].method]
    /\ hashOut' = Digest(hashCtx[c], n)
    /\ UNCHANGED <<hashCtx, hashLen, hashGiven, events>>

HashSqueeze(c, n) ==
    /\ Valid(c) /\ hashCtx[c].method = "shake" /\ n > 0
    /\ hashCtx[c].state = "HashSqueeze" \/ hashCtx[c].squeezed = 0
    /\ \A d \in Slots \ {c} : hashGiven[d].drawn + hashGiven[c].drawn + n <= MaxDrawn
    /\ LET value == IF hashCtx[c].state = "HashSqueeze" THEN hashCtx[c].value
                                                        ELSE cpFinalize(hashCtx[c])
           r     == cpHashSqueeze(value, hashCtx[c].squeezed, n)
       IN /\ SetSlot(c, [hashCtx[c] EXCEPT !.value = r.value, !.squeezed = r.squeezed,
                                           !.state = "HashSqueeze"],
                        [hashGiven[c] EXCEPT !.drawn = @ + n])
          /\ hashOut' = r.bytes
    /\ UNCHANGED <<hashLen, events>>

HashDuplicate(c, d) ==
    /\ Valid(c) /\ c # d
    /\ SetSlot(d, hashCtx[c], hashGiven[c])
    /\ hashOut' = <<>> /\ UNCHANGED hashLen /\ Event

\* A packed context cannot be used as one.
HashPack(c, d) ==
    /\ Valid(c) /\ c # d
    /\ SetSlot(d, [hashCtx[c] EXCEPT !.id = "packed"], [hashGiven[c] EXCEPT !.packed = TRUE])
    /\ hashOut' = <<>> /\ UNCHANGED hashLen /\ Event

\* The method of the context unpacked into stays; the caller sees to it that
\* it is the one of the packed context.
HashUnpack(c, d) ==
    /\ hashCtx[c].id = "packed" /\ Valid(d) /\ hashCtx[d].method = hashCtx[c].method
    /\ SetSlot(d, [hashCtx[c] EXCEPT !.id = "Hash", !.method = hashCtx[d].method],
                  [hashGiven[c] EXCEPT !.packed = FALSE])
    /\ hashOut' = <<>> /\ UNCHANGED <<hashLen, events>>

HashNext ==
    \/ \E n \in ShakeLens : HashMethodSHAKE(n)
    \/ \E c \in Slots, method \in {"sha", "shake"} : HashInitCall(c, method)
    \/ \E c \in Slots, n \in HashPieces : HashUpdate(c, n) \/ HashGetTag(c, n)
    \/ \E c \in Slots : HashFinal(c)
    \/ \E c \in Slots, n \in SqueezeLens : HashSqueeze(c, n)
    \/ \E c, d \in Slots : HashDuplicate(c, d) \/ HashPack(c, d) \/ HashUnpack(c, d)

HashSpec == HashStreamInit /\ [][HashNext]_hashVars

-----------------------------------------------------------------------------
(* Properties. *)

\* Digests and squeezed bytes are those of one call on the whole message, for
\* any cutting of input and output and after any use of the other contexts.
\* (The length of a final digest is that of the method structure when it is
\* made: another request for the same SHAKE function changes it.)
HashImplementsOneCall == HashOneCall!Spec
=============================================================================
