------------------------------- MODULE AESCCM -------------------------------
(* AES-CCM in pieces (pcpaes_ccm*.c).  The caller names the length of the   *)
(* message first, starts it with nonce and associated data, and then gives  *)
(* the text in any pieces.  A refused call changes nothing and is a         *)
(* stuttering step.                                                         *)
EXTENDS ByteBlocks

CONSTANTS AesNiBuilds,   \* is the cipher's AES-NI code used: the cases tried
          Nonces,        \* per nonce length: how many counter values and how
                         \* many message lengths the block's bytes tell apart
          CounterWord,   \* values of counterVal, an Ipp32u: 2^32
          MessageLens, TagLens, AdLens,   \* arguments tried
          LongAd,        \* from here on (0xFF00) the length has a long header
          ShortHeader, LongHeader,
          InitialTagLen, \* 4
          MaxText, MaxCCMMessages         \* bounds of the exploration

ASSUME CCMConstants ==
    /\ AesNiBuilds \subseteq BOOLEAN
    /\ Nonces \subseteq [counters : Nat \ {0}, lengths : Nat \ {0}]
    /\ CounterWord \in Nat \ {0}
    /\ \A n \in Nonces : n.counters <= CounterWord => CounterWord % n.counters = 0
    /\ MessageLens \subseteq Nat /\ AdLens \subseteq Nat
    /\ TagLens \subseteq 1..BlockSize /\ InitialTagLen \in 1..BlockSize
    /\ LongAd \in Nat /\ ShortHeader \in 1..BlockSize - 1 /\ LongHeader \in 1..BlockSize - 1
    /\ MaxText \in Nat /\ MaxCCMMessages \in Nat

VARIABLES ccm,        \* the IppsAES_CCMState
          ccmGiven,   \* the message as given since ippsAES_CCMStart
          ccmOut,     \* the text bytes returned for it
          ccmTag      \* the tag just returned

ccmVars == <<ccm, ccmGiven, ccmOut, ccmTag>>

CCMOneCall == INSTANCE OneCallCCM WITH given <- ccmGiven, out <- ccmOut, tag <- ccmTag

S(ctr0, n) == CCMOneCall!S(ctr0.id, ctr0.nonce, n)

NoNonce == [counters |-> 1, lengths |-> 1]

-----------------------------------------------------------------------------
(* ippsAES_CCMStart: the MAC of the first block and the associated data. *)

\* The header and as many bytes as fit beside it, whole blocks, the rest.
MutantNoRest(mac, ad, id) ==
    LET header == CCMOneCall!Header(ad)
        bytes  == Piece("ad", id, 0, ad)
        first  == CopyAt(CopyAt(Zeros(BlockSize), 0, header), Len(header), bytes)
        rest   == Drop(bytes, BlockSize - Len(header))
    IN IF ad = 0 THEN mac
       ELSE IF ad + Len(header) <= BlockSize THEN Append(mac, first)
       ELSE mac \o <<first>> \o WholeBlocks(rest)
AuthenticateAd(mac, ad, id) ==
    LET header == CCMOneCall!Header(ad)
        bytes  == Piece("ad", id, 0, ad)
        first  == CopyAt(CopyAt(Zeros(BlockSize), 0, header), Len(header), bytes)
        rest   == Drop(bytes, BlockSize - Len(header))
    IN IF ad = 0 THEN mac
       ELSE IF ad + Len(header) <= BlockSize THEN Append(mac, first)
       ELSE mac \o <<first>> \o PaddedBlocks(rest)

Started(c, g) ==
    [c EXCEPT !.lenPro = 0, !.counterVal = 0,
              !.ctr0 = [id |-> g.id, nonce |-> g.nonce],
              !.s0 = CCMOneCall!S(g.id, g.nonce, 0),
              !.mac = AuthenticateAd(<<CCMOneCall!B0(g)>>, g.ad, g.id)]

-----------------------------------------------------------------------------
(* ippsAES_CCMEncrypt and ippsAES_CCMDecrypt.  A step carries the context   *)
(* and the bytes returned so far.                                           *)

\* The plain text is what is authenticated.
Plain(src, dst, dir) == IF dir = "enc" THEN src ELSE dst

\* The block begun by an earlier call, with the kept key stream.
FillBlock(t, src, dir) ==
    LET flag == t.c.lenPro % BlockSize
        dst  == [i \in DOMAIN src |-> Xor(src[i], t.c.si[flag + i])]
        blk  == CopyAt(t.c.blk, flag, Plain(src, dst, dir))
    IN IF src = <<>> THEN t
       ELSE [c   |-> [t.c EXCEPT !.blk = blk, !.lenPro = @ + Len(src),
                                 !.mac = IF flag + Len(src) = BlockSize THEN Append(@, blk)
                                                                        ELSE @],
             dst |-> t.dst \o dst]

\* The number of the j-th block of a call: CounterEnc puts counterVal into the
\* bytes the nonce leaves; the AES-NI code goes on from there in 64 bits, the
\* portable code within counterVal.
BlockNumber(c, j) == IF c.aesni THEN c.counterVal + j ELSE (c.counterVal + j) % CounterWord

\* Whole blocks, each with the next counter; the AES-NI code does not count
\* them as processed.  (What its decryption leaves in si is not used: a block
\* is begun before it is filled.)
MutantCounterKept(t, src, dir) ==
    LET q   == Len(src) \div BlockSize
        ks  == [j \in 1..q |-> S(t.c.ctr0, BlockNumber(t.c, j))]
        dst == [i \in DOMAIN src |->
                  Xor(src[i], ks[((i - 1) \div BlockSize) + 1][((i - 1) % BlockSize) + 1])]
    IN IF q = 0 THEN t
       ELSE [c   |-> [t.c EXCEPT !.mac = @ \o WholeBlocks(Plain(src, dst, dir)),
                                 !.si = ks[q],
                                 !.lenPro = IF t.c.aesni THEN @ ELSE @ + q * BlockSize],
             dst |-> t.dst \o dst]
WholeBlocksOfText(t, src, dir) ==
    LET q   == Len(src) \div BlockSize
        ks  == [j \in 1..q |-> S(t.c.ctr0, BlockNumber(t.c, j))]
        dst == [i \in DOMAIN src |->
                  Xor(src[i], ks[((i - 1) \div BlockSize) + 1][((i - 1) % BlockSize) + 1])]
    IN IF q = 0 THEN t
       ELSE [c   |-> [t.c EXCEPT !.mac = @ \o WholeBlocks(Plain(src, dst, dir)),
                                 !.counterVal = (@ + q) % CounterWord, !.si = ks[q],
                                 !.lenPro = IF t.c.aesni THEN @ ELSE @ + q * BlockSize],
             dst |-> t.dst \o dst]

\* What is left begins a block, kept until it is full.
MutantCounterNotAdvanced(t, src, dir) ==
    LET n   == (t.c.counterVal + 1) % CounterWord
        si  == S(t.c.ctr0, n)
        dst == [i \in DOMAIN src |-> Xor(src[i], si[i])]
    IN IF src = <<>> THEN t
       ELSE [c   |-> [t.c EXCEPT !.si = si, !.blk = CopyAt(@, 0, Plain(src, dst, dir)),
                                 !.lenPro = @ + Len(src)],
             dst |-> t.dst \o dst]
BeginBlock(t, src, dir) ==
    LET n   == (t.c.counterVal + 1) % CounterWord
        si  == S(t.c.ctr0, n)
        dst == [i \in DOMAIN src |-> Xor(src[i], si[i])]
    IN IF src = <<>> THEN t
       ELSE [c   |-> [t.c EXCEPT !.si = si, !.blk = CopyAt(@, 0, Plain(src, dst, dir)),
                                 !.counterVal = n, !.lenPro = @ + Len(src)],
             dst |-> t.dst \o dst]

CCMProcess(c, src, dir) ==
    LET flag == c.lenPro % BlockSize
        loc  == IF flag = 0 THEN 0 ELSE Lesser(Len(src), BlockSize - flag)
        m    == ((Len(src) - loc) \div BlockSize) * BlockSize
        t1   == FillBlock([c |-> c, dst |-> <<>>], Take(src, loc), dir)
        t2   == WholeBlocksOfText(t1, Take(Drop(src, loc), m), dir)
    IN BeginBlock(t2, Drop(src, loc + m), dir)

-----------------------------------------------------------------------------
(* The operations. *)

\* What ippsAES_CCMInit leaves unwritten is not used before ippsAES_CCMStart.
CCMInit ==
    /\ \E ni \in AesNiBuilds :
         ccm = [aesni |-> ni, msgLen |-> 0, tagLen |-> InitialTagLen, lenPro |-> 0, counterVal |-> 0,
                ctr0 |-> [id |-> 0, nonce |-> NoNonce], s0 |-> Zeros(BlockSize),
                si |-> Zeros(BlockSize), blk |-> Zeros(BlockSize), mac |-> <<>>]
    /\ ccmGiven = [id |-> 0, nonce |-> NoNonce, ad |-> 0, msgLen |-> 0, tagLen |-> 0,
                   text |-> <<>>]
    /\ ccmOut = <<>> /\ ccmTag = <<>>

CCMMessageLen(n) ==
    /\ ccm' = [ccm EXCEPT !.msgLen = n] /\ ccmTag' = <<>>
    /\ UNCHANGED <<ccmGiven, ccmOut>>

CCMTagLen(n) ==
    /\ ccm' = [ccm EXCEPT !.tagLen = n] /\ ccmTag' = <<>>
    /\ UNCHANGED <<ccmGiven, ccmOut>>

CCMStart(nonce, ad) ==
    /\ ccmGiven.id < MaxCCMMessages
    /\ ccmGiven' = [id |-> ccmGiven.id + 1, nonce |-> nonce, ad |-> ad,
                    msgLen |-> ccm.msgLen, tagLen |-> ccm.tagLen, text |-> <<>>]
    /\ ccm' = Started(ccm, ccmGiven')
    /\ ccmOut' = <<>> /\ ccmTag' = <<>>

\* The caller keeps the direction of a message.
CCMText(n, dir) ==
    /\ ccmGiven.id > 0 /\ \A i \in DOMAIN ccmGiven.text : ccmGiven.text[i] = dir
    /\ n >= 0 /\ ccm.lenPro + n <= ccm.msgLen
    /\ Len(ccmGiven.text) + n <= MaxText
    /\ LET t == CCMProcess(ccm, Piece(dir, ccmGiven.id, Len(ccmGiven.text), n), dir)
       IN ccm' = t.c /\ ccmOut' = ccmOut \o t.dst
    /\ ccmGiven' = [ccmGiven EXCEPT !.text = @ \o [i \in 1..n |-> dir]]
    /\ ccmTag' = <<>>

\* On a copy of the MAC, the block begun padded with zeros.
FinalMac(c) ==
    LET flag == c.lenPro % BlockSize
    IN IF flag = 0 THEN c.mac
       ELSE Append(c.mac, CopyAt(Zeros(BlockSize), 0, Take(c.blk, flag)))

CCMGetTag(n) ==
    /\ ccmGiven.id > 0 /\ n \in 1..ccm.tagLen
    /\ ccmTag' = [mac |-> FinalMac(ccm), mask |-> ccm.s0, len |-> n]
    /\ UNCHANGED <<ccm, ccmGiven, ccmOut>>

CCMNext ==
    \/ \E n \in MessageLens : CCMMessageLen(n)
    \/ \E n \in TagLens : CCMTagLen(n)
    \/ \E n \in PieceLens : CCMGetTag(n)
    \/ \E nonce \in Nonces, ad \in AdLens : CCMStart(nonce, ad)
    \/ \E n \in PieceLens, dir \in {"enc", "dec"} : CCMText(n, dir)

CCMSpec == CCMInit /\ [][CCMNext]_ccmVars

-----------------------------------------------------------------------------
(* Properties. *)

Begun(n) == (n + BlockSize - 1) \div BlockSize

\* The place in the open block and the counter follow the text, however it is
\* cut and although the AES-NI code leaves whole blocks out of lenProcessed:
\* every use of that field as an offset is right in both builds.  The counter
\* is the number of blocks begun as far as its 32 bits hold it.
CCMPlaceAgrees ==
    LET n == Len(ccmGiven.text)
    IN /\ ccm.lenPro % BlockSize = n % BlockSize
       /\ ccm.counterVal = Begun(n) % CounterWord
       /\ ~ccm.aesni => ccm.lenPro = n
       /\ ccm.lenPro <= n

\* As long as a message has fewer blocks than the nonce leaves counter values
\* and than counterVal has, no byte of the key stream is used twice, nor for
\* the tag.  (Nothing in the code keeps a message that short: neither
\* ippsAES_CCMStart nor ippsAES_CCMMessageLen, which takes 64 bits, compares
\* the message length with either.)
CCMKeystreamFresh ==
    LET blocks == Begun(Len(ccmGiven.text))
        used   == [i \in DOMAIN ccmOut |-> {b \in ccmOut[i] : b[1] = "E"}]
    IN blocks < ccmGiven.nonce.counters /\ blocks < CounterWord =>
         \A i \in DOMAIN ccmOut :
           /\ used[i] # {} /\ \A j \in 1..BlockSize : used[i] \cap ccm.s0[j] = {}
           /\ \A j \in DOMAIN ccmOut : i # j => used[i] \cap used[j] = {}

\* Output and tag are those of one call on everything given, as long as the
\* counter of the blocks suffices.
CCMImplementsOneCall == CCMOneCall!Spec

\* Text is taken only within the length last named to ippsAES_CCMMessageLen.
LengthEnforced ==
    [][ccmGiven'.id = ccmGiven.id /\ Len(ccmGiven'.text) > Len(ccmGiven.text)
         => Len(ccmGiven'.text) <= ccm.msgLen]_ccmVars
=============================================================================
