----------------------------- MODULE HMACStream -----------------------------
(* The HMAC contexts (pcphmac*_rmf.c): each holds a hash context, which is   *)
(* always somewhere in the inner hash of the next tag, and the two padded    *)
(* keys.                                                                     *)
EXTENDS HashStream

CONSTANTS KeyLens,     \* lengths of keys; above the block size they are hashed
          TagSizes,    \* lengths of tags asked for
          MaxHMACMsg, MaxHMACEvents   \* bounds of the exploration

ASSUME HMACConstants ==
    /\ KeyLens \subseteq Nat /\ TagSizes \subseteq Int
    /\ BlockSize < LenWord /\ \A n \in KeyLens : n < LenWord   \* as for HashPieces
    /\ MaxHMACMsg \in Nat /\ MaxHMACEvents \in Nat

VARIABLES hmacCtx,     \* the IppsHMACState_rmf in each slot
          hmacGiven,   \* its key and message
          hmacOut,     \* the tag last returned
          hmacEvents   \* contexts started, copied and finished

hmacVars == <<hmacCtx, hmacGiven, hmacOut, hmacEvents>>

HMACOneCall == INSTANCE OneCallHMAC WITH given <- hmacGiven, out <- hmacOut

-----------------------------------------------------------------------------

\* ippsHMACInit_rmf: the key is hashed, into the context's own buffer, in
\* any case; it depends on its length whether the hash is used.
HMACKeyed(key) ==
    LET h    == HashUpdateOf(HashInitOf("sha"), key)
        h1   == [HashFinished(h) EXCEPT !.buff = CopyAt(@, 0, Digest(h, DigestLen))]
        used == IF Len(key) > BlockSize THEN Take(h1.buff, DigestLen) ELSE key
        pad(name) == XorAt([i \in 1..BlockSize |-> {<<name>>}], 0, used)
    IN [hash |-> HashUpdateOf(h1, pad("ipad")), ipad |-> pad("ipad"), opad |-> pad("opad")]

\* ippsHMACFinal_rmf: the outer hash is computed in the same hash context,
\* which is then made ready for the next message.
HMACOuter(x) ==
    LET inner == Digest(x.hash, DigestLen)
    IN HashUpdateOf(HashUpdateOf(HashFinished(x.hash), x.opad), inner)
MutantNotReady(x) == [x EXCEPT !.hash = HashFinished(HMACOuter(x))]
HMACFinished(x) == [x EXCEPT !.hash = HashUpdateOf(HashFinished(HMACOuter(x)), x.ipad)]
HMACTag(x, n) == Take(Digest(HMACOuter(x), DigestLen), n)

-----------------------------------------------------------------------------

NoHMAC == [hash |-> NoContext, ipad |-> <<>>, opad |-> <<>>]
Keyed(c) == hmacCtx[c] # NoHMAC
HMACEvent == hmacEvents < MaxHMACEvents /\ hmacEvents' = hmacEvents + 1

SetHMAC(c, x, g) ==
    hmacCtx' = [hmacCtx EXCEPT ![c] = x] /\ hmacGiven' = [hmacGiven EXCEPT ![c] = g]

HMACStreamInit ==
    /\ hmacCtx = [c \in Slots |-> NoHMAC] /\ hmacGiven = [c \in Slots |-> HMACOneCall!Absent]
    /\ hmacOut = <<>> /\ hmacEvents = 0

HMACInitCall(c, n) ==
    /\ HMACEvent
    /\ SetHMAC(c, HMACKeyed(Piece("key", n, 0, n)), [key |-> n, msg |-> <<>>])
    /\ hmacOut' = <<>>

HMACUpdate(c, n) ==
    /\ Keyed(c) /\ n > 0 /\ Len(hmacGiven[c].msg) + n <= MaxHMACMsg
    /\ LET s == Piece("msg", c, Len(hmacGiven[c].msg), n)
       IN SetHMAC(c, [hmacCtx[c] EXCEPT !.hash = HashUpdateOf(@, s)],
                     [hmacGiven[c] EXCEPT !.msg = @ \o s])
    /\ hmacOut' = <<>> /\ UNCHANGED hmacEvents

HMACFinal(c, n) ==
    /\ Keyed(c) /\ n \in 1..DigestLen /\ HMACEvent
    /\ hmacOut' = HMACTag(hmacCtx[c], n)
    /\ SetHMAC(c, HMACFinished(hmacCtx[c]), [hmacGiven[c] EXCEPT !.msg = <<>>])

\* ippsHMACGetTag_rmf finishes a duplicate.
HMACGetTag(c, n) ==
    /\ Keyed(c) /\ n \in 1..DigestLen
    /\ hmacOut' = HMACTag(hmacCtx[c], n)
    /\ UNCHANGED <<hmacCtx, hmacGiven, hmacEvents>>

\* ippsHMACDuplicate_rmf; what ippsHMACPack_rmf and ippsHMACUnpack_rmf do
\* together is the same.
HMACDuplicate(c, d) ==
    /\ Keyed(c) /\ c # d /\ HMACEvent
    /\ SetHMAC(d, hmacCtx[c], hmacGiven[c]) /\ hmacOut' = <<>>

HMACNext ==
    \/ \E c \in Slots, n \in KeyLens : HMACInitCall(c, n)
    \/ \E c \in Slots, n \in HashPieces : HMACUpdate(c, n)
    \/ \E c \in Slots, n \in TagSizes : HMACFinal(c, n) \/ HMACGetTag(c, n)
    \/ \E c, d \in Slots : HMACDuplicate(c, d)

HMACSpec == HMACStreamInit /\ [][HMACNext]_hmacVars

-----------------------------------------------------------------------------
\* A tag is that of one call on the whole message since the last one, under
\* the key of the context, for any cutting and with tags asked for between.
HMACImplementsOneCall == HMACOneCall!Spec
=============================================================================
