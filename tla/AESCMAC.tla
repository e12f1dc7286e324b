------------------------------ MODULE AESCMAC ------------------------------
(* AES-CMAC in pieces (pcpaes_cmac*.c).  The last block is held back in the *)
(* buffer, full or not, because the tag treats it apart.  A refused call    *)
(* changes nothing and is a stuttering step.                                *)
EXTENDS ByteBlocks

CONSTANTS MaxCMACText, MaxCMACMessages   \* bounds of the exploration

ASSUME CMACConstants == MaxCMACText \in Nat /\ MaxCMACMessages \in Nat

VARIABLES cmac,        \* the IppsAES_CMACState
          cmacGiven,   \* the message since the context was initialised
          cmacOut      \* the tag just returned

cmacVars == <<cmac, cmacGiven, cmacOut>>

CMACOneCall == INSTANCE OneCallCMAC WITH given <- cmacGiven, out <- cmacOut

\* init() of ippsAES_CMACInit and ippsAES_CMACFinal: the buffer is left as it is.
CMACCleared(c) == [c EXCEPT !.index = 0, !.mac = <<>>]

\* ippsAES_CMACUpdate: fill the buffer, process it if more follows, process
\* whole blocks but never the last one, keep what is left.
MutantLastBlockProcessed(c, s) ==
    LET loc  == IF c.index = 0 THEN 0 ELSE Lesser(Len(s), BlockSize - c.index)
        b    == [c EXCEPT !.buff = CopyAt(@, c.index, Take(s, loc)), !.index = @ + loc]
        rest == Drop(s, loc)
        f    == IF b.index = BlockSize THEN [b EXCEPT !.mac = Append(@, b.buff), !.index = 0]
                                       ELSE b
        m    == (Len(rest) \div BlockSize) * BlockSize
    IN IF rest = <<>> THEN b
       ELSE [f EXCEPT !.mac = @ \o WholeBlocks(Take(rest, m)),
                      !.buff = CopyAt(@, 0, Drop(rest, m)), !.index = @ + Len(rest) - m]
CMACUpdateOf(c, s) ==
    LET loc  == IF c.index = 0 THEN 0 ELSE Lesser(Len(s), BlockSize - c.index)
        b    == [c EXCEPT !.buff = CopyAt(@, c.index, Take(s, loc)), !.index = @ + loc]
        rest == Drop(s, loc)
        f    == IF b.index = BlockSize THEN [b EXCEPT !.mac = Append(@, b.buff), !.index = 0]
                                       ELSE b
        m    == ((Len(rest) - 1) \div BlockSize) * BlockSize
    IN IF rest = <<>> THEN b
       ELSE [f EXCEPT !.mac = @ \o WholeBlocks(Take(rest, m)),
                      !.buff = CopyAt(@, 0, Drop(rest, m)), !.index = @ + Len(rest) - m]

\* ippsAES_CMACGetTag, on copies of the buffer and the MAC.
CMACTagOf(c, n) ==
    LET full == c.index = BlockSize
        text == CopyAt(Zeros(BlockSize), 0, Take(c.buff, c.index))
        last == IF full THEN text ELSE CopyAt(text, c.index, <<{<<"0x80">>}>>)
        key  == [i \in 1..BlockSize |-> {<<IF full THEN "K1" ELSE "K2", i>>}]
    IN [chain |-> Append(c.mac, XorAt(last, 0, key)), len |-> n]

CMACInit ==
    /\ cmac = CMACCleared([index |-> 0, buff |-> Zeros(BlockSize), mac |-> <<>>])
    /\ cmacGiven = [id |-> 1, msg |-> <<>>] /\ cmacOut = <<>>

CMACUpdate(n) ==
    /\ n > 0 /\ Len(cmacGiven.msg) + n <= MaxCMACText
    /\ LET s == Piece("msg", cmacGiven.id, Len(cmacGiven.msg), n)
       IN cmac' = CMACUpdateOf(cmac, s) /\ cmacGiven' = [cmacGiven EXCEPT !.msg = @ \o s]
    /\ cmacOut' = <<>>

CMACGetTag(n) ==
    /\ n \in 1..BlockSize
    /\ cmacOut' = CMACTagOf(cmac, n) /\ UNCHANGED <<cmac, cmacGiven>>

CMACFinal(n) ==
    /\ n \in 1..BlockSize /\ cmacGiven.id < MaxCMACMessages
    /\ cmacOut' = CMACTagOf(cmac, n)
    /\ cmac' = CMACCleared(cmac) /\ cmacGiven' = [id |-> cmacGiven.id + 1, msg |-> <<>>]

CMACNext == \E n \in PieceLens : CMACUpdate(n) \/ CMACGetTag(n) \/ CMACFinal(n)

CMACSpec == CMACInit /\ [][CMACNext]_cmacVars

-----------------------------------------------------------------------------
\* A tag is that of one call on the whole message, for any cutting, and also
\* when more of the message follows it.
CMACImplementsOneCall == CMACOneCall!Spec
=============================================================================
