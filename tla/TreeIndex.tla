------------------------------ MODULE TreeIndex ------------------------------
(* How the hash trees of LMS and XMSS number their nodes: on each level from  *)
(* the left, from zero; the leaves are at height zero.                        *)
EXTENDS Integers

\* 1 << n.
Pow2[n \in Nat] == IF n = 0 THEN 1 ELSE 2 * Pow2[n - 1]

\* leaf >> height.
Ancestor(leaf, height) == leaf \div Pow2[height]

\* j ^ 1.
Sibling(j) == IF j % 2 = 0 THEN j + 1 ELSE j - 1
=============================================================================
