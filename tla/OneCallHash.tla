----------------------------- MODULE OneCallHash -----------------------------
(* What the hash contexts promise: a digest is that of one call on the whole *)
(* message a context was given since it was last initialised or finished,    *)
(* and what is squeezed out in parts is one output stream (FIPS 180-4, FIPS  *)
(* 202), whatever happened to other contexts.                                *)
EXTENDS ByteBlocks

CONSTANTS Slots, LenBytes, LenWord

VARIABLES given,    \* per context: its method, the message, the bytes squeezed
          lens,     \* the digest length of each method
          out       \* the bytes last returned

vars == <<given, lens, out>>

Absent == [alg |-> "none", msg |-> <<>>, drawn |-> 0, packed |-> FALSE]
Fresh(alg) == [Absent EXCEPT !.alg = alg]

\* The message with its padding, a whole number of blocks.
Padded(alg, m) ==
    LET n     == Len(m)
        used  == n + 1 + (IF alg = "sha" THEN LenBytes ELSE 0)
        zeros == Zeros((BlockSize - (used % BlockSize)) % BlockSize)
        body  == m \o <<{<<IF alg = "sha" THEN "0x80" ELSE "0x1F">>}>> \o zeros
    IN IF alg = "sha"
       THEN body \o [i \in 1..LenBytes |-> {<<"len", n \div LenWord, n % LenWord, i>>}]
       ELSE [body EXCEPT ![Len(body)] = Xor(@, {<<"0x80">>})]

\* Bytes from + 1 to from + n of the output.
Stream(alg, m, from, n) ==
    [i \in 1..n |-> {<<"digest", WholeBlocks(Padded(alg, m)), from + i>>}]

Alive(c) == given[c].alg # "none" /\ ~given[c].packed
Absorbing(c) == Alive(c) /\ given[c].drawn = 0
Replace(c, g) == given' = [given EXCEPT ![c] = g]

Init == given = [c \in Slots |-> Absent] /\ out = <<>>

HashInit(c) == (\E alg \in {"sha", "shake"} : Replace(c, Fresh(alg))) /\ out' = <<>>

Update(c) ==
    /\ Absorbing(c)
    /\ \E m \in {given'[c].msg} :
         /\ Take(m, Len(given[c].msg)) = given[c].msg
         /\ Replace(c, [given[c] EXCEPT !.msg = m])
    /\ out' = <<>>

Final(c) ==
    /\ Absorbing(c)
    /\ out' = Stream(given[c].alg, given[c].msg, 0, lens[given[c].alg])
    /\ Replace(c, Fresh(given[c].alg))

GetTag(c) ==
    /\ Absorbing(c) /\ Len(out') \in 1..lens[given[c].alg]
    /\ out' = Stream(given[c].alg, given[c].msg, 0, Len(out'))
    /\ UNCHANGED given

Squeeze(c) ==
    /\ Alive(c) /\ given[c].alg = "shake" /\ out' # <<>>
    /\ out' = Stream("shake", given[c].msg, given[c].drawn, Len(out'))
    /\ Replace(c, [given[c] EXCEPT !.drawn = @ + Len(out')])

\* Duplicate, pack and unpack.
Copy(c, d) ==
    /\ given[c].alg # "none"
    /\ \E p \in BOOLEAN : Replace(d, [given[c] EXCEPT !.packed = p])
    /\ out' = <<>>

Next ==
    \/ \E c \in Slots :
         /\ HashInit(c) \/ Update(c) \/ Final(c) \/ GetTag(c) \/ Squeeze(c)
            \/ \E d \in Slots : Copy(c, d)
         /\ UNCHANGED lens
    \/ UNCHANGED given /\ lens'.sha = lens.sha /\ out' = <<>>

Spec == Init /\ [][Next]_vars
=============================================================================
