----------------------------- MODULE OneCallCMAC -----------------------------
(* What AES-CMAC promises, without pieces: the tag is that of one call on    *)
(* the whole message (NIST SP 800-38B).                                      *)
EXTENDS ByteBlocks

VARIABLES given, out

vars == <<given, out>>

\* The last block is masked with K1 if it is full, else padded and masked
\* with K2; the empty message is one empty block.
Blocks(m) ==
    LET full   == Len(m) > 0 /\ Len(m) % BlockSize = 0
        blocks == IF full THEN WholeBlocks(m) ELSE PaddedBlocks(Append(m, {<<"0x80">>}))
        subkey == [i \in 1..BlockSize |-> {<<IF full THEN "K1" ELSE "K2", i>>}]
    IN [blocks EXCEPT ![Len(blocks)] = XorAt(@, 0, subkey)]

Tag(m, n) == [chain |-> Blocks(m), len |-> n]

Init == given = [id |-> 1, msg |-> <<>>] /\ out = <<>>

Update ==
    /\ given'.id = given.id /\ Take(given'.msg, Len(given.msg)) = given.msg
    /\ out' = <<>>

GetTag == (\E n \in 1..BlockSize : out' = Tag(given.msg, n)) /\ UNCHANGED given

Final ==
    /\ \E n \in 1..BlockSize : out' = Tag(given.msg, n)
    /\ given' = [id |-> given.id + 1, msg |-> <<>>]

Next == Update \/ GetTag \/ Final

Spec == Init /\ [][Next]_vars
=============================================================================
