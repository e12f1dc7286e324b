--------------------------- MODULE SeededGenerator ---------------------------
(* What a deterministic random bit generator promises its consumer, without *)
(* how: output comes only from a current seed, a seed is never used again   *)
(* once it is lost or replaced, and it serves a bounded number of requests. *)
EXTENDS Naturals, Sequences, FiniteSets

CONSTANT SeedlifeLimit   \* requests one seed may serve

VARIABLES
    current,     \* the seed in use, 0 when there is none
    used,        \* seeds obtained so far; they are numbered from 1
    delivered    \* the seed each output came from, in order

gvars == <<current, used, delivered>>

Init ==
    /\ current = 0
    /\ used = 0
    /\ delivered = <<>>

Fresh == used + 1

\* A new seed replaces the current one.
Seed ==
    /\ used' = Fresh
    /\ current' = Fresh
    /\ UNCHANGED delivered

\* An operation fails; entropy may have been spent on it.
Lose ==
    /\ current' = 0
    /\ used' \in {used, Fresh}
    /\ UNCHANGED delivered

Served(k) == Cardinality({i \in 1..Len(delivered) : delivered[i] = k})

Provide ==
    /\ current # 0
    /\ Served(current) < SeedlifeLimit
    /\ delivered' = Append(delivered, current)
    /\ UNCHANGED <<current, used>>

\* The seed was at the end of its life, or fresh entropy was asked for.
SeedAndProvide ==
    /\ used' = Fresh
    /\ current' = Fresh
    /\ delivered' = Append(delivered, Fresh)

Next == Seed \/ Lose \/ Provide \/ SeedAndProvide

Spec == Init /\ [][Next]_gvars
==============================================================================
