----------------------------- MODULE OneTimeKeys -----------------------------
(* What a stateful signature scheme promises the world: each one-time key, *)
(* that is each index of each key pair, signs at most one digest.          *)
EXTENDS Naturals

CONSTANTS Key, Index, Digest

VARIABLE published   \* the signatures that left the signer

Init == published = {}

Unspent(k, i) == \A s \in published : s.key # k \/ s.q # i

Publish(k, i, d) ==
    /\ Unspent(k, i)
    /\ published' = published \cup {[key |-> k, q |-> i, digest |-> d]}

Next == \E k \in Key, i \in Index, d \in Digest : Publish(k, i, d)

Spec == Init /\ [][Next]_published
==============================================================================
