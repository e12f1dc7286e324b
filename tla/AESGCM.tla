------------------------------- MODULE AESGCM -------------------------------
(* AES-GCM in pieces (pcpaes_gcm*.c, the C code shared by the builds below  *)
(* AVX-512).  A message is given by any number of calls per phase; a call   *)
(* that is refused changes nothing and is a stuttering step, except in      *)
(* ippsAES_GCMStart, whose first parts may have happened.                   *)
EXTENDS ByteBlocks

CONSTANTS CtrPos,       \* bytes before the counter word: 12
          CounterMod,   \* the counter word wraps here: 2^32
          StartLens,    \* lengths passed to ippsAES_GCMStart
          MaxIv,        \* bounds of the exploration: bytes of IV and AAD
          MaxAad,
          MaxMessages   \* and messages per context

ASSUME GCMConstants ==
    /\ CtrPos \in 1..BlockSize - 1
    /\ CounterMod \in Nat \ {0, 1}
    /\ StartLens \subseteq Int
    /\ MaxIv \in Nat /\ MaxAad \in Nat /\ MaxMessages \in Nat

VARIABLES gcm,        \* the IppsAES_GCMState
          gcmGiven,   \* what the caller has passed of this message
          gcmOut,     \* the text bytes returned for it
          gcmTag      \* the tag just returned

gcmVars == <<gcm, gcmGiven, gcmOut, gcmTag>>

GCMOneCall == INSTANCE OneCallGCM WITH given <- gcmGiven, out <- gcmOut, tag <- gcmTag

-----------------------------------------------------------------------------
(* Registers: Y of GHASH, as the blocks multiplied in and the bytes XORed   *)
(* on top since.  Zero times the hash key is zero.                          *)

ZeroReg == [chain |-> <<>>, open |-> Zeros(BlockSize)]

Mul(r) ==
    IF r = ZeroReg THEN r
    ELSE [chain |-> Append(r.chain, r.open), open |-> Zeros(BlockSize)]

XorReg(r, off, s) == [r EXCEPT !.open = XorAt(@, off, s)]

\* Whole blocks, the first on top of what is already in the register.
Auth(r, s) ==
    LET blocks == WholeBlocks(s)
    IN IF blocks = <<>> THEN r
       ELSE [chain |-> r.chain \o [blocks EXCEPT ![1] = XorAt(r.open, 0, @)],
             open  |-> Zeros(BlockSize)]

\* The block cipher; the counter block is the hashed IV with its last word n.
E(c) == [i \in 1..BlockSize |-> {<<"E", c, i>>}]

IncrementCounter32(c) == [c EXCEPT !.n = (@ + 1) % CounterMod]

LengthBlock(a, t) == GCMOneCall!LengthBlock(a, t)

-----------------------------------------------------------------------------
(* The context after ippsAES_GCMReset. *)

GCMReset ==
    [state |-> "GcmInit", ivLen |-> 0, aadLen |-> 0, txtLen |-> 0, bufLen |-> 0,
     counter |-> [iv |-> ZeroReg, n |-> 0], ecounter0 |-> Zeros(BlockSize),
     ecounter |-> Zeros(BlockSize), ghash |-> ZeroReg]

\* IV and AAD bytes go into a register through a partial block: fill it,
\* then whole blocks, then the rest.
MutantFeedKeepsBuffer(r, buf, s) ==
    LET loc  == IF buf = 0 THEN 0 ELSE Lesser(Len(s), BlockSize - buf)
        r1   == XorReg(r, buf, Take(s, loc))
        full == loc > 0 /\ buf + loc = BlockSize
        s1   == Drop(s, loc)
        m    == (Len(s1) \div BlockSize) * BlockSize
        r2   == Auth(IF full THEN Mul(r1) ELSE r1, Take(s1, m))
        s2   == Drop(s1, m)
    IN [reg |-> XorReg(r2, 0, s2), buf |-> buf + loc + Len(s2)]
Feed(r, buf, s) ==
    LET loc  == IF buf = 0 THEN 0 ELSE Lesser(Len(s), BlockSize - buf)
        r1   == XorReg(r, buf, Take(s, loc))
        full == loc > 0 /\ buf + loc = BlockSize
        s1   == Drop(s, loc)
        m    == (Len(s1) \div BlockSize) * BlockSize
        r2   == Auth(IF full THEN Mul(r1) ELSE r1, Take(s1, m))
        s2   == Drop(s1, m)
    IN [reg |-> XorReg(r2, 0, s2),
        buf |-> IF full THEN Len(s2) ELSE buf + loc + Len(s2)]

ProcessIV(c, s) ==
    LET f == Feed(c.counter.iv, c.bufLen, s)
    IN [c EXCEPT !.state = "GcmIVprocessing", !.counter = [@ EXCEPT !.iv = f.reg],
                 !.bufLen = f.buf, !.ivLen = @ + Len(s)]

\* The first AAD call completes the IV: 12 bytes are used as they are, any
\* other length is hashed with its length block and ends in the word low.
FinalCounter(c, low) ==
    IF c.ivLen = CtrPos THEN [c.counter EXCEPT !.n = 1]
    ELSE LET r == IF c.bufLen > 0 THEN Mul(c.counter.iv) ELSE c.counter.iv
         IN [iv |-> Mul(XorReg(r, 0, LengthBlock(0, c.ivLen))), n |-> low]

IVCompleted(c, low) ==
    IF c.state # "GcmIVprocessing" THEN c
    ELSE [c EXCEPT !.counter = FinalCounter(c, low),
                   !.ecounter0 = E(FinalCounter(c, low)),
                   !.state = "GcmAADprocessing", !.aadLen = 0, !.bufLen = 0]

ProcessAAD(c, s, low) ==
    LET d == IVCompleted(c, low)
        f == Feed(d.ghash, d.bufLen, s)
    IN [d EXCEPT !.ghash = f.reg, !.bufLen = f.buf, !.aadLen = @ + Len(s)]

-----------------------------------------------------------------------------
(* Text.  A step carries the context and the bytes returned so far. *)

MaxTxtLen == (CounterMod - 2) * BlockSize

NextCounterBlock(c) ==
    LET n == IncrementCounter32(c.counter)
    IN [c EXCEPT !.counter = n, !.ecounter = E(n)]

\* The first text call closes the AAD and makes the first keystream block.
OpenText(c) ==
    IF c.state = "GcmTXTprocessing" THEN c
    ELSE [NextCounterBlock(c) EXCEPT
             !.ghash = IF c.bufLen > 0 THEN Mul(@) ELSE @,
             !.state = "GcmTXTprocessing", !.txtLen = 0, !.bufLen = 0]

\* The cipher text, whatever the direction, is what is authenticated.
Authenticated(src, dst, dir) == IF dir = "enc" THEN dst ELSE src

\* Bytes of one block, from bufLen on.
MutantPartialAtStart(t, src, dir) ==
    LET dst == [i \in DOMAIN src |-> Xor(src[i], t.c.ecounter[i])]
    IN [c   |-> [t.c EXCEPT !.ghash = XorReg(@, t.c.bufLen, Authenticated(src, dst, dir)),
                            !.bufLen = @ + Len(src), !.txtLen = @ + Len(src)],
        dst |-> t.dst \o dst]
PartialText(t, src, dir) ==
    LET dst == [i \in DOMAIN src |-> Xor(src[i], t.c.ecounter[t.c.bufLen + i])]
    IN [c   |-> [t.c EXCEPT !.ghash = XorReg(@, t.c.bufLen, Authenticated(src, dst, dir)),
                            !.bufLen = @ + Len(src), !.txtLen = @ + Len(src)],
        dst |-> t.dst \o dst]

CloseFullBlock(t) ==
    IF t.c.bufLen < BlockSize THEN t
    ELSE [t EXCEPT !.c = NextCounterBlock([t.c EXCEPT !.ghash = Mul(@), !.bufLen = 0])]

\* Whole blocks: the kept keystream block for the first, a new one after each.
WholeText(t, src, dir) ==
    LET q    == Len(src) \div BlockSize
        at   == [j \in 0..q |-> [t.c.counter EXCEPT !.n = (@ + j) % CounterMod]]
        ks   == [j \in 0..q |-> IF j = 0 THEN t.c.ecounter ELSE E(at[j])]
        dst  == [i \in DOMAIN src |->
                   Xor(src[i], ks[(i - 1) \div BlockSize][((i - 1) % BlockSize) + 1])]
    IN [c   |-> [t.c EXCEPT !.ghash = Auth(@, Authenticated(src, dst, dir)),
                            !.counter = at[q], !.ecounter = ks[q],
                            !.txtLen = @ + Len(src)],
        dst |-> t.dst \o dst]

ProcessText(c0, src, dir) ==
    LET c   == OpenText(c0)
        loc == IF c.bufLen = 0 THEN 0 ELSE Lesser(Len(src), BlockSize - c.bufLen)
        t1  == CloseFullBlock(PartialText([c |-> c, dst |-> <<>>], Take(src, loc), dir))
        m   == ((Len(src) - loc) \div BlockSize) * BlockSize
        t2  == WholeText(t1, Take(Drop(src, loc), m), dir)
    IN PartialText(t2, Drop(src, loc + m), dir)

\* ippsAES_GCMGetTag works on a copy of the hash.
TagOf(c) ==
    LET h == IF c.bufLen > 0 THEN Mul(c.ghash) ELSE c.ghash
    IN [hash |-> Mul(XorReg(h, 0, LengthBlock(c.aadLen, c.txtLen))), mask |-> c.ecounter0]

-----------------------------------------------------------------------------
(* The operations. *)

GCMInit ==
    /\ gcm = GCMReset
    /\ gcmGiven = GCMOneCall!Nothing(1) /\ gcmOut = <<>> /\ gcmTag = <<>>

AcceptsIV(c, n) == n > 0 /\ c.state \in {"GcmInit", "GcmIVprocessing"}
AcceptsAAD(c, n) ==
    n >= 0 /\ c.state \in {"GcmIVprocessing", "GcmAADprocessing"} /\ c.ivLen > 0

\* The context and the history of the message after n bytes of IV, of AAD.
WithIV(p, n) ==
    [c |-> ProcessIV(p.c, Piece("iv", p.g.id, p.g.iv, n)), g |-> [p.g EXCEPT !.iv = @ + n]]
WithAAD(p, n, low) ==
    [c |-> ProcessAAD(p.c, Piece("aad", p.g.id, p.g.aad, n), low),
     g |-> [p.g EXCEPT !.aad = @ + n, !.begun = TRUE, !.low = IF p.g.begun THEN @ ELSE low]]

\* The word of a hashed IV is any word; it plays no part for 12 bytes.
LowWords(p) == IF p.c.state = "GcmIVprocessing" /\ p.c.ivLen # CtrPos THEN 0..CounterMod - 1 ELSE {0}

Becomes(p) == gcm' = p.c /\ gcmGiven' = p.g /\ gcmTag' = <<>>

Here == [c |-> gcm, g |-> gcmGiven]
Afresh == [c |-> GCMReset, g |-> GCMOneCall!Nothing(gcmGiven.id + 1)]

GCMResetCall ==
    /\ gcmGiven.id < MaxMessages
    /\ Becomes(Afresh) /\ gcmOut' = <<>>

GCMProcessIV(n) ==
    /\ AcceptsIV(gcm, n) /\ gcmGiven.iv + n <= MaxIv
    /\ Becomes(WithIV(Here, n)) /\ UNCHANGED gcmOut

GCMProcessAAD(n) ==
    /\ AcceptsAAD(gcm, n) /\ gcmGiven.aad + n <= MaxAad
    /\ \E low \in LowWords(Here) : Becomes(WithAAD(Here, n, low))
    /\ UNCHANGED gcmOut

\* ippsAES_GCMStart stops at the first error; what was done stays.
GCMStart(ivLen, aadLen) ==
    /\ gcmGiven.id < MaxMessages /\ ivLen <= MaxIv /\ aadLen <= MaxAad
    /\ LET reset  == Afresh
           withIV == WithIV(reset, ivLen)
       IN IF ~AcceptsIV(reset.c, ivLen) THEN Becomes(reset)
          ELSE IF ~AcceptsAAD(withIV.c, aadLen) THEN Becomes(withIV)
          ELSE \E low \in LowWords(withIV) : Becomes(WithAAD(withIV, aadLen, low))
    /\ gcmOut' = <<>>

\* ippsAES_GCMEncrypt and ippsAES_GCMDecrypt: at most 2^36 - 32 bytes.
MutantRoomBefore(c, n) == c.txtLen <= MaxTxtLen
HasRoom(c, n) == c.txtLen <= MaxTxtLen - n

GCMText(n, dir) ==
    /\ gcm.state \in {"GcmAADprocessing", "GcmTXTprocessing"}
    /\ n >= 0 /\ HasRoom(gcm, n)
    /\ LET t == ProcessText(gcm, Piece(dir, gcmGiven.id, Len(gcmGiven.text), n), dir)
       IN gcm' = t.c /\ gcmOut' = gcmOut \o t.dst
    /\ gcmGiven' = [gcmGiven EXCEPT !.text = @ \o [i \in 1..n |-> dir]]
    /\ gcmTag' = <<>>

GCMGetTag ==
    /\ gcm.state # "GcmInit" /\ gcm.ivLen # 0
    /\ gcmTag' = TagOf(gcm)
    /\ UNCHANGED <<gcm, gcmGiven, gcmOut>>

GCMNext ==
    \/ GCMResetCall
    \/ \E n \in PieceLens : GCMProcessIV(n) \/ GCMProcessAAD(n)
    \/ \E n, k \in StartLens : GCMStart(n, k)
    \/ \E n \in PieceLens, dir \in {"enc", "dec"} : GCMText(n, dir)
    \/ GCMGetTag

GCMSpec == GCMInit /\ [][GCMNext]_gcmVars

-----------------------------------------------------------------------------
(* Properties. *)

\* The length of the phase the context is in, and the first counter word.
PhaseLen ==
    CASE gcm.state = "GcmInit" -> 0
      [] gcm.state = "GcmIVprocessing" -> gcm.ivLen
      [] gcm.state = "GcmAADprocessing" -> gcm.aadLen
      [] gcm.state = "GcmTXTprocessing" -> gcm.txtLen

FirstWord == IF gcm.ivLen = CtrPos THEN 1 ELSE gcmGiven.low

\* However a message is cut, the place in the open block is the phase's length
\* within a block, no more text is taken than a counter has blocks for, and
\* the counter has moved once per block begun (bufLen, txtLen and the counter
\* are updated apart, in up to five places of one call).
GCMCountersAgree ==
    /\ gcm.bufLen = PhaseLen % BlockSize
    /\ gcm.ivLen = gcmGiven.iv /\ gcm.aadLen = gcmGiven.aad
    /\ gcm.txtLen = Len(gcmGiven.text) /\ gcm.txtLen <= MaxTxtLen
    /\ gcm.state = "GcmTXTprocessing" =>
          gcm.counter.n = (FirstWord + 1 + (gcm.txtLen \div BlockSize)) % CounterMod

\* No byte of the key stream masks two bytes of a message, and none of the
\* block that masks the tag (the text limit of ippsAES_GCMEncrypt is what
\* keeps the 32-bit counter from coming round).
KeystreamNeverRepeats ==
    LET used == [i \in DOMAIN gcmOut |-> {b \in gcmOut[i] : b[1] = "E"}]
        mask == UNION {gcm.ecounter0[j] : j \in 1..BlockSize}
    IN \A i \in DOMAIN gcmOut :
         /\ used[i] # {} /\ used[i] \cap mask = {}
         /\ \A j \in DOMAIN gcmOut : i # j => used[i] \cap used[j] = {}

\* Output and tag are those of one call on everything given, for any cutting
\* into pieces, and ippsAES_GCMGetTag does not disturb what follows it.
GCMImplementsOneCall == GCMOneCall!Spec
=============================================================================
