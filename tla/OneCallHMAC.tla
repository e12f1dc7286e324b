----------------------------- MODULE OneCallHMAC -----------------------------
(* What the HMAC contexts promise: the tag of the whole message under the    *)
(* key (FIPS 198-1), with the hash of OneCallHash.                           *)
EXTENDS ByteBlocks

CONSTANTS Slots, LenBytes, LenWord, DigestLen

VARIABLES given,   \* per context: the key's length (-1 without) and the message
          out      \* the tag last returned

vars == <<given, out>>

Hash == INSTANCE OneCallHash WITH lens <- [sha |-> DigestLen]
H(m) == Hash!Stream("sha", m, 0, DigestLen)

Key(n) == Piece("key", n, 0, n)
Padding(k, name) ==
    XorAt([i \in 1..BlockSize |-> {<<name>>}], 0,
          IF Len(k) > BlockSize THEN H(k) ELSE k)

HMAC(g) ==
    LET k == Key(g.key)
    IN H(Padding(k, "opad") \o H(Padding(k, "ipad") \o g.msg))

Absent == [key |-> -1, msg |-> <<>>]
Replace(c, g) == given' = [given EXCEPT ![c] = g]

Init == given = [c \in Slots |-> Absent] /\ out = <<>>

HMACInit(c) ==
    /\ given'[c].key >= 0
    /\ Replace(c, [key |-> given'[c].key, msg |-> <<>>]) /\ out' = <<>>

Update(c) ==
    /\ given[c].key >= 0
    /\ Take(given'[c].msg, Len(given[c].msg)) = given[c].msg
    /\ Replace(c, [given[c] EXCEPT !.msg = given'[c].msg]) /\ out' = <<>>

Tagged(c) ==
    /\ given[c].key >= 0 /\ Len(out') > 0
    /\ out' = Take(HMAC(given[c]), Len(out'))

GetTag(c) == Tagged(c) /\ UNCHANGED given
Final(c) == Tagged(c) /\ Replace(c, [given[c] EXCEPT !.msg = <<>>])
Copy(c, d) == given[c].key >= 0 /\ Replace(d, given[c]) /\ out' = <<>>

Next ==
    \E c \in Slots : \/ HMACInit(c) \/ Update(c) \/ GetTag(c) \/ Final(c)
                     \/ \E d \in Slots : Copy(c, d)

Spec == Init /\ [][Next]_vars
=============================================================================
