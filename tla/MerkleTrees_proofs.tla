------------------------- MODULE MerkleTrees_proofs -------------------------
(* The Merkle tree of LMS signatures keeps its types, its stack fits the      *)
(* bytes reserved for it, the extra buffer holds the nodes a signature reads  *)
(* from it, and every signature leads to the root in the public key: for      *)
(* every height of the tree and every size of the extra buffer.  An XMSS      *)
(* signature verifies for what it was made for, and nothing else verifies.    *)
EXTENDS LMSTreeHash, XMSS, WellFoundedInduction, SequenceTheorems, TLAPS

-----------------------------------------------------------------------------
(* Induction, for sets of numbers. *)

Less == {x \in Nat \X Nat : x[1] < x[2]}

\* There is no endless descent through the natural numbers.
LEMMA LessWellFounded == IsWellFoundedOn(Less, Nat)
BY NatLessThanWellFounded DEF OpToRel, Less

\* A set of natural numbers has a least element.
LEMMA LeastNumber ==
    ASSUME NEW T, T \subseteq Nat, T # {}
    PROVE  \E x \in T : \A y \in T : x <= y
<1>1. \E x \in T : \A y \in T : ~(<<y, x>> \in Less)
  BY LessWellFounded, WFMin, Zenon
<1>2. PICK x \in T : \A y \in T : ~(<<y, x>> \in Less)
  BY <1>1
<1>3. ASSUME NEW y \in T PROVE x <= y
  <2>1. x \in Nat /\ y \in Nat /\ ~(<<y, x>> \in Less)
    BY <1>2
  <2> QED
    BY <2>1 DEF Less
<1> QED
  BY <1>3

\* A set with 0 and the successor of each of its numbers has all of them.
LEMMA AllNumbers ==
    ASSUME NEW T, 0 \in T, \A n \in Nat : n \in T => n + 1 \in T
    PROVE  Nat \subseteq T
<1> SUFFICES ASSUME NEW x \in Nat, x \notin T PROVE FALSE
  OBVIOUS
<1> DEFINE U == {n \in Nat : n \notin T}
<1>1. U \subseteq Nat /\ U # {}
  OBVIOUS
<1>2. PICK n \in U : \A m \in U : n <= m
  <2> HIDE DEF U
  <2> QED BY <1>1, LeastNumber
<1>3. n \in Nat /\ n # 0
  OBVIOUS
<1>4. n - 1 \in Nat /\ n - 1 \notin U
  BY <1>2, <1>3
<1>5. n - 1 \in T
  BY <1>4
<1>6. n - 1 + 1 \in T /\ n - 1 + 1 = n
  BY <1>3, <1>4, <1>5
<1> QED
  BY <1>6

-----------------------------------------------------------------------------
(* Powers of two. *)

Powers(n) ==
    {f \in [0..n -> Nat] : f[0] = 1 /\ \A k \in 0..n - 1 : f[k + 1] = 2 * f[k]}

\* The first powers can be listed.
LEMMA PowersExist == \A n \in Nat : Powers(n) # {}
<1> DEFINE T == {n \in Nat : Powers(n) # {}}
<1>1. 0 \in T
  <2>1. [k \in 0..0 |-> 1] \in Powers(0)
    BY DEF Powers
  <2> QED
    BY <2>1
<1>2. ASSUME NEW n \in Nat, n \in T PROVE n + 1 \in T
  <2>1. PICK f : f \in Powers(n)
    BY <1>2
  <2> DEFINE g == [k \in 0..n + 1 |-> IF k <= n THEN f[k] ELSE 2 * f[n]]
  <2>2. f \in [0..n -> Nat] /\ f[0] = 1 /\ \A k \in 0..n - 1 : f[k + 1] = 2 * f[k]
    BY <2>1 DEF Powers
  <2>3. g \in [0..n + 1 -> Nat]
    BY <2>2
  <2>4. g[0] = 1
    BY <2>2
  <2>5. ASSUME NEW k \in 0..n + 1 - 1 PROVE g[k + 1] = 2 * g[k]
    <3>1. CASE k = n
      BY <3>1, <2>2
    <3>2. CASE k # n
      <4>1. k \in 0..n - 1 /\ k + 1 \in 0..n
        BY <3>2
      <4>2. g[k] = f[k] /\ g[k + 1] = f[k + 1]
        BY <4>1
      <4> QED
        BY <4>1, <4>2, <2>2
    <3> QED
      BY <3>1, <3>2
  <2>6. g \in Powers(n + 1)
    <3> HIDE DEF g
    <3> QED BY <2>3, <2>4, <2>5 DEF Powers
  <2> QED
    BY <2>6
<1>3. Nat \subseteq T
  <2> HIDE DEF T
  <2> QED BY <1>1, <1>2, AllNumbers
<1> QED
  BY <1>3

\* Two lists agree where both go.
LEMMA PowersAgree ==
    ASSUME NEW m \in Nat, NEW n \in Nat, NEW f \in Powers(m), NEW g \in Powers(n)
    PROVE  \A k \in Nat : k <= m /\ k <= n => f[k] = g[k]
<1> DEFINE T == {k \in Nat : k <= m /\ k <= n => f[k] = g[k]}
<1>1. 0 \in T
  BY DEF Powers
<1>2. ASSUME NEW k \in Nat, k \in T PROVE k + 1 \in T
  BY <1>2 DEF Powers
<1>3. Nat \subseteq T
  <2> HIDE DEF T
  <2> QED BY <1>1, <1>2, AllNumbers
<1> QED
  BY <1>3

\* Pow2 is the function its definition describes.
LEMMA Pow2Unfolds ==
    /\ Pow2 \in [Nat -> Nat \ {0}]
    /\ Pow2[0] = 1
    /\ \A n \in Nat : Pow2[n + 1] = 2 * Pow2[n]
<1> DEFINE L(n) == CHOOSE f : f \in Powers(n)
           g == [n \in Nat |-> L(n)[n]]
<1>1. ASSUME NEW n \in Nat PROVE L(n) \in Powers(n)
  BY PowersExist
<1>2. g[0] = 1
  BY <1>1 DEF Powers
<1>3. ASSUME NEW n \in Nat PROVE g[n] \in Nat /\ g[n + 1] = 2 * g[n]
  <2>1. L(n) \in Powers(n) /\ L(n + 1) \in Powers(n + 1)
    BY <1>1
  <2> HIDE DEF L
  <2>2. L(n)[n] = L(n + 1)[n]
    BY <2>1, PowersAgree
  <2>3. L(n)[n] \in Nat /\ L(n + 1)[n + 1] = 2 * L(n + 1)[n]
    BY <2>1 DEF Powers
  <2> QED
    BY <2>2, <2>3
<1> HIDE DEF L
<1>4. g = [n \in Nat |-> IF n = 0 THEN 1 ELSE 2 * g[n - 1]]
  <2>1. ASSUME NEW n \in Nat PROVE g[n] = IF n = 0 THEN 1 ELSE 2 * g[n - 1]
    <3> HIDE DEF g
    <3>1. CASE n = 0
      BY <3>1, <1>2
    <3>2. CASE n # 0
      <4>1. n - 1 \in Nat /\ n - 1 + 1 = n
        BY <3>2
      <4>2. g[n - 1 + 1] = 2 * g[n - 1]
        BY <4>1, <1>3
      <4> QED
        BY <3>2, <4>1, <4>2
    <3> QED
      BY <3>1, <3>2
  <2> QED
    BY <2>1
<1> HIDE DEF g
<1>5. Pow2 = [n \in Nat |-> IF n = 0 THEN 1 ELSE 2 * Pow2[n - 1]]
  BY <1>4 DEF Pow2
<1>6. Pow2[0] = 1 /\ \A n \in Nat : Pow2[n + 1] = 2 * Pow2[n]
  <2>1. ASSUME NEW n \in Nat PROVE Pow2[n] = IF n = 0 THEN 1 ELSE 2 * Pow2[n - 1]
    BY <1>5
  <2>2. Pow2[0] = 1
    BY <2>1
  <2>3. ASSUME NEW n \in Nat PROVE Pow2[n + 1] = 2 * Pow2[n]
    <3>1. n + 1 \in Nat /\ n + 1 # 0 /\ n + 1 - 1 = n
      OBVIOUS
    <3> QED
      BY <3>1, <2>1
  <2> QED
    BY <2>2, <2>3
<1> DEFINE T == {n \in Nat : Pow2[n] \in Nat \ {0}}
<1>7. 0 \in T
  BY <1>6
<1>8. ASSUME NEW n \in Nat, n \in T PROVE n + 1 \in T
  BY <1>6, <1>8
<1>9. Nat \subseteq T
  <2> HIDE DEF T
  <2> QED BY <1>7, <1>8, AllNumbers
<1>10. \A n \in Nat : Pow2[n] \in Nat \ {0}
  BY <1>9
<1>11. Pow2 = [n \in Nat |-> Pow2[n]]
  BY <1>5
<1> QED
  BY <1>6, <1>10, <1>11

\* Powers of two grow with the exponent, and double at least.
LEMMA PowersGrow ==
    ASSUME NEW m \in Nat
    PROVE  \A n \in Nat : m < n => 2 * Pow2[m] <= Pow2[n] /\ Pow2[m] < Pow2[n]
<1> DEFINE T == {n \in Nat : m < n => 2 * Pow2[m] <= Pow2[n]}
<1>1. 0 \in T
  OBVIOUS
<1>2. ASSUME NEW n \in Nat, n \in T PROVE n + 1 \in T
  <2>1. Pow2[m] \in Nat /\ Pow2[n] \in Nat /\ Pow2[n] > 0 /\ Pow2[n + 1] = 2 * Pow2[n]
    BY Pow2Unfolds
  <2>2. m < n => 2 * Pow2[m] <= Pow2[n]
    BY <1>2
  <2>3. m < n + 1 => m < n \/ m = n
    OBVIOUS
  <2>4. m < n + 1 => 2 * Pow2[m] <= Pow2[n + 1]
    BY <2>1, <2>2, <2>3
  <2> QED
    BY <2>4
<1>3. Nat \subseteq T
  <2> HIDE DEF T
  <2> QED BY <1>1, <1>2, AllNumbers
<1> QED
  BY <1>3, Pow2Unfolds

\* A quotient is known by the multiple below.
LEMMA QuotientUnique ==
    ASSUME NEW x \in Nat, NEW d \in Nat \ {0}, NEW q \in Nat, NEW r \in 0..d - 1, x = q * d + r
    PROVE  x \div d = q
<1> DEFINE e == x \div d
           s == x % d
<1>1. e \in Int /\ s \in 0..d - 1 /\ x = d * e + s
  OBVIOUS
<1> HIDE DEF e, s
<1>2. CASE e >= q + 1
  <2>1. d * e >= d * (q + 1)
    BY <1>1, <1>2
  <2>2. d * (q + 1) = q * d + d
    OBVIOUS
  <2> QED
    BY <1>1, <2>1, <2>2
<1>3. CASE e <= q - 1
  <2>1. d * e <= d * (q - 1)
    BY <1>1, <1>3
  <2>2. d * (q - 1) = q * d - d
    OBVIOUS
  <2> QED
    BY <1>1, <2>1, <2>2
<1>4. e = q
  BY <1>1, <1>2, <1>3
<1> QED
  BY <1>4 DEF e

\* One level up is half of the index.
LEMMA AncestorUnfolds ==
    ASSUME NEW x \in Nat
    PROVE  /\ Ancestor(x, 0) = x
           /\ \A k \in Nat : Ancestor(x, k) \in Nat
           /\ \A k \in Nat : Ancestor(x, k + 1) = Ancestor(x, k) \div 2
<1>1. Ancestor(x, 0) = x
  BY Pow2Unfolds DEF Ancestor
<1>2. ASSUME NEW k \in Nat
      PROVE  Ancestor(x, k) \in Nat /\ Ancestor(x, k + 1) = Ancestor(x, k) \div 2
  <2> DEFINE d == Pow2[k]
             q == x \div d
             b == q \div 2
             s == x - q * d
             c == q - 2 * b
  <2>1. d \in Nat \ {0} /\ Pow2[k + 1] = 2 * d
    BY Pow2Unfolds
  <2>2. Ancestor(x, k) = q /\ Ancestor(x, k + 1) = x \div (2 * d)
    BY <2>1 DEF Ancestor
  <2> HIDE DEF d
  <2>3. q \in Nat /\ s \in 0..d - 1 /\ x = q * d + s
    BY <2>1
  <2> HIDE DEF q, s
  <2>4. b \in Nat /\ c \in 0..1 /\ q = 2 * b + c
    BY <2>3
  <2> HIDE DEF b, c
  <2>5. c * d + s \in 0..2 * d - 1
    BY <2>1, <2>3, <2>4
  <2>6. x = b * (2 * d) + (c * d + s)
    <3>1. q * d = (2 * b + c) * d
      BY <2>4
    <3>2. (2 * b + c) * d = b * (2 * d) + c * d
      BY <2>1, <2>4
    <3>3. c * d \in Int /\ b * (2 * d) \in Int
      BY <2>1, <2>4
    <3> QED
      BY <3>1, <3>2, <3>3, <2>3
  <2>7. x \div (2 * d) = b
    <3>1. 2 * d \in Nat \ {0}
      BY <2>1
    <3> DEFINE dd == 2 * d
               r == c * d + s
    <3>2. dd \in Nat \ {0} /\ r \in 0..dd - 1 /\ x = b * dd + r
      BY <3>1, <2>5, <2>6
    <3> HIDE DEF dd, r
    <3>3. x \div dd = b
      BY <3>2, <2>4, QuotientUnique
    <3> QED
      BY <3>3 DEF dd
  <2> QED
    BY <2>2, <2>3, <2>7 DEF b
<1> QED
  BY <1>1, <1>2

Odd(x, k) == Ancestor(x, k) % 2 = 1

\* The c lowest bits of x are all set.
LowOnes(x, c) == \A k \in 0..c - 1 : Odd(x, k)

\* Ancestors keep the order of the leaves.
LEMMA AncestorsOrdered ==
    ASSUME NEW x \in Nat, NEW y \in Nat, NEW k \in Nat, Ancestor(x, k) <= Ancestor(y, k)
    PROVE  \A m \in Nat : k <= m => Ancestor(x, m) <= Ancestor(y, m)
<1> DEFINE T == {m \in Nat : k <= m => Ancestor(x, m) <= Ancestor(y, m)}
<1>1. 0 \in T
  <2>1. k <= 0 => k = 0
    OBVIOUS
  <2> QED
    BY <2>1
<1>2. ASSUME NEW m \in Nat, m \in T PROVE m + 1 \in T
  <2>1. k <= m + 1 => k <= m \/ k = m + 1
    OBVIOUS
  <2>2. /\ Ancestor(x, m) \in Nat /\ Ancestor(x, m + 1) = Ancestor(x, m) \div 2
        /\ Ancestor(y, m) \in Nat /\ Ancestor(y, m + 1) = Ancestor(y, m) \div 2
    BY AncestorUnfolds
  <2>3. k <= m => Ancestor(x, m) <= Ancestor(y, m)
    BY <1>2
  <2>4. k <= m => Ancestor(x, m + 1) <= Ancestor(y, m + 1)
    BY <2>2, <2>3
  <2>5. k <= m + 1 => Ancestor(x, m + 1) <= Ancestor(y, m + 1)
    BY <2>1, <2>4
  <2> QED
    BY <2>5
<1>3. Nat \subseteq T
  <2> HIDE DEF T
  <2> QED BY <1>1, <1>2, AllNumbers
<1> QED
  BY <1>3

\* Leaves with one ancestor share those above it.
LEMMA AncestorsShared ==
    ASSUME NEW x \in Nat, NEW y \in Nat, NEW k \in Nat, NEW m \in Nat,
           Ancestor(x, k) = Ancestor(y, k), k <= m
    PROVE  Ancestor(x, m) = Ancestor(y, m)
<1>1. Ancestor(x, k) \in Nat /\ Ancestor(x, m) \in Nat /\ Ancestor(y, m) \in Nat
  BY AncestorUnfolds
<1>2. Ancestor(x, m) <= Ancestor(y, m) /\ Ancestor(y, m) <= Ancestor(x, m)
  BY <1>1, AncestorsOrdered
<1> QED
  BY <1>1, <1>2

\* A level of the tree has half as many nodes as the one below.
LEMMA LevelSize ==
    ASSUME NEW n \in Nat
    PROVE  \A k \in 0..n : /\ \A x \in Nat : x < Pow2[n] => Ancestor(x, k) < Pow2[n - k]
                           /\ Ancestor(Pow2[n], k) = Pow2[n - k]
<1> DEFINE Small(k) == /\ \A x \in Nat : x < Pow2[n] => Ancestor(x, k) < Pow2[n - k]
                       /\ Ancestor(Pow2[n], k) = Pow2[n - k]
           T == {k \in Nat : k <= n => Small(k)}
<1>0. Pow2[n] \in Nat
  BY Pow2Unfolds
<1>1. 0 \in T
  <2>1. n - 0 = n
    OBVIOUS
  <2>2. \A x \in Nat : Ancestor(x, 0) = x
    BY AncestorUnfolds
  <2> QED
    BY <1>0, <2>1, <2>2
<1>2. ASSUME NEW k \in Nat, k \in T PROVE k + 1 \in T
  <2> SUFFICES ASSUME k + 1 <= n PROVE Small(k + 1)
    OBVIOUS
  <2> DEFINE m == n - (k + 1)
  <2>1. m \in Nat /\ n - k = m + 1 /\ n - (k + 1) = m /\ k <= n
    OBVIOUS
  <2> HIDE DEF m
  <2>2. Small(k)
    BY <1>2, <2>1
  <2>3. Pow2[m] \in Nat /\ Pow2[n - k] = 2 * Pow2[m]
    BY <2>1, Pow2Unfolds
  <2>4. ASSUME NEW x \in Nat, x < Pow2[n] PROVE Ancestor(x, k + 1) < Pow2[m]
    <3>1. Ancestor(x, k) \in Nat /\ Ancestor(x, k + 1) = Ancestor(x, k) \div 2
      BY AncestorUnfolds
    <3>2. Ancestor(x, k) < 2 * Pow2[m]
      BY <2>2, <2>3, <2>4
    <3> QED
      BY <3>1, <3>2, <2>3
  <2>5. Ancestor(Pow2[n], k + 1) = Pow2[m]
    <3>1. Ancestor(Pow2[n], k + 1) = Ancestor(Pow2[n], k) \div 2
      BY <1>0, AncestorUnfolds
    <3>2. Ancestor(Pow2[n], k) = 2 * Pow2[m]
      BY <2>2, <2>3
    <3> QED
      BY <3>1, <3>2, <2>3
  <2> QED
    BY <2>1, <2>4, <2>5
<1>3. Nat \subseteq T
  <2> HIDE DEF T
  <2> QED BY <1>1, <1>2, AllNumbers
<1> QED
  BY <1>3

\* Adding one to x carries through its lowest set bits.
LEMMA Carry ==
    ASSUME NEW x \in Nat, NEW c \in Nat
    PROVE  /\ LowOnes(x, c) => Ancestor(x + 1, c) = Ancestor(x, c) + 1
           /\ ~LowOnes(x, c) => Ancestor(x + 1, c) = Ancestor(x, c)
<1> DEFINE Carries(k) == /\ LowOnes(x, k) => Ancestor(x + 1, k) = Ancestor(x, k) + 1
                         /\ ~LowOnes(x, k) => Ancestor(x + 1, k) = Ancestor(x, k)
           T == {k \in Nat : Carries(k)}
<1>1. 0 \in T
  <2>0. x + 1 \in Nat
    OBVIOUS
  <2>1. Ancestor(x, 0) = x /\ Ancestor(x + 1, 0) = x + 1
    BY <2>0, AncestorUnfolds
  <2>2. LowOnes(x, 0)
    BY DEF LowOnes
  <2> QED
    BY <2>1, <2>2
<1>2. ASSUME NEW k \in Nat, k \in T PROVE k + 1 \in T
  <2>0. x + 1 \in Nat
    OBVIOUS
  <2>1. /\ Ancestor(x, k) \in Nat /\ Ancestor(x, k + 1) = Ancestor(x, k) \div 2
        /\ Ancestor(x + 1, k) \in Nat /\ Ancestor(x + 1, k + 1) = Ancestor(x + 1, k) \div 2
    BY <2>0, AncestorUnfolds
  <2>2. Carries(k)
    BY <1>2
  <2>3. LowOnes(x, k + 1) <=> LowOnes(x, k) /\ Odd(x, k)
    BY DEF LowOnes
  <2>4. Carries(k + 1)
    BY <2>1, <2>2, <2>3 DEF Odd
  <2> QED
    BY <2>4
<1>3. Nat \subseteq T
  <2> HIDE DEF T
  <2> QED BY <1>1, <1>2, AllNumbers
<1> QED
  BY <1>3

-----------------------------------------------------------------------------
(* Places in the extra buffer. *)

Sib(k) == Sibling(Ancestor(idxLeaf, k))

Room(k, a) == IF k = 0 THEN Below(a) ELSE UpTo(a)

\* The nodes of a level below the root.
LevelNodes(k) == 0..Pow2[h - k] - 1

\* What the proofs use of the constants and of the variables no step changes.
Sizes == h \in Nat \ {0} /\ auxSize \in Nat /\ idxLeaf \in 0..Pow2[h] - 1

\* The levels below the root lie in the buffer one after the other.
LEMMA PlacesOrdered ==
    ASSUME Sizes, NEW k \in 0..h - 1, NEW j \in LevelNodes(k)
    PROVE  /\ AuxIdx(k, j) \in Nat
           /\ Pow2[h - k] - 2 <= AuxIdx(k, j) /\ AuxIdx(k, j) <= 2 * Pow2[h - k] - 3
<1>1. 2 * Pow2[0] <= Pow2[h - k]
  BY PowersGrow DEF Sizes
<1>2. Pow2[h - k] \in Nat /\ Pow2[0] = 1
  BY Pow2Unfolds DEF Sizes
<1> QED
  BY <1>1, <1>2 DEF AuxIdx, LevelNodes

\* Two nodes have two places.
LEMMA PlacesDiffer ==
    ASSUME Sizes, NEW k \in 0..h - 1, NEW m \in 0..h - 1,
           NEW j \in LevelNodes(k), NEW l \in LevelNodes(m), AuxIdx(k, j) = AuxIdx(m, l)
    PROVE  k = m /\ j = l
<1>1. /\ Pow2[h - k] - 2 <= AuxIdx(k, j) /\ AuxIdx(k, j) <= 2 * Pow2[h - k] - 3
      /\ Pow2[h - m] - 2 <= AuxIdx(m, l) /\ AuxIdx(m, l) <= 2 * Pow2[h - m] - 3
  BY PlacesOrdered
<1>2. Pow2[h - k] \in Nat /\ Pow2[h - m] \in Nat /\ AuxIdx(k, j) \in Nat
  BY Pow2Unfolds, PlacesOrdered DEF Sizes
<1>3. h - k < h - m => 2 * Pow2[h - k] <= Pow2[h - m]
  BY PowersGrow DEF Sizes
<1>4. h - m < h - k => 2 * Pow2[h - m] <= Pow2[h - k]
  BY PowersGrow DEF Sizes
<1>5. ~(h - k < h - m) /\ ~(h - m < h - k)
  BY <1>1, <1>2, <1>3, <1>4
<1>6. k = m
  BY <1>5 DEF Sizes
<1> QED
  BY <1>2, <1>6 DEF AuxIdx, LevelNodes

\* The nodes on and beside the path to the root.
LEMMA PathNodes ==
    ASSUME Sizes, NEW k \in 0..h - 1
    PROVE  /\ Ancestor(idxLeaf, k) \in LevelNodes(k)
           /\ Sib(k) \in LevelNodes(k)
           /\ Sib(k) # Ancestor(idxLeaf, k)
           /\ Sib(k) \div 2 = Ancestor(idxLeaf, k + 1)
           /\ Sibling(Sib(k)) = Ancestor(idxLeaf, k)
<1> DEFINE a == Ancestor(idxLeaf, k)
           m == h - k - 1
<1>1. idxLeaf \in Nat /\ idxLeaf < Pow2[h] /\ k \in Nat /\ h \in Nat
  BY Pow2Unfolds DEF Sizes
<1>2. a \in Nat /\ Ancestor(idxLeaf, k + 1) = a \div 2 /\ a < Pow2[h - k]
  <2>1. a \in Nat /\ Ancestor(idxLeaf, k + 1) = a \div 2
    BY <1>1, AncestorUnfolds
  <2>2. k \in 0..h
    BY <1>1
  <2>3. a < Pow2[h - k]
    BY <1>1, <2>2, LevelSize
  <2> QED
    BY <2>1, <2>3
<1>3. m \in Nat /\ h - k = m + 1
  BY <1>1
<1>4. Pow2[h - k] = 2 * Pow2[m] /\ Pow2[m] \in Nat
  BY <1>3, Pow2Unfolds
<1> HIDE DEF a, m
<1> DEFINE s == Sibling(a)
<1>5. s \in 0..Pow2[h - k] - 1 /\ s # a /\ s \div 2 = a \div 2 /\ Sibling(s) = a
  BY <1>2, <1>4 DEF Sibling
<1> QED
  BY <1>2, <1>4, <1>5 DEF LevelNodes, Sib, a

\* If a sibling on the path is in the buffer, those above it are.
LEMMA BufferedAbove ==
    ASSUME Sizes, NEW k \in 0..h - 2, Below(AuxIdx(k, Sib(k)))
    PROVE  Below(AuxIdx(k + 1, Sib(k + 1)))
<1>1. k \in 0..h - 1 /\ k + 1 \in 0..h - 1 /\ h - (k + 1) \in Nat /\ h - k = h - (k + 1) + 1
  BY DEF Sizes
<1>2. Sib(k) \in LevelNodes(k) /\ Sib(k + 1) \in LevelNodes(k + 1)
  BY <1>1, PathNodes
<1>3. Pow2[h - (k + 1)] \in Nat /\ Pow2[h - k] = 2 * Pow2[h - (k + 1)]
  BY <1>1, Pow2Unfolds
<1>4. /\ AuxIdx(k, Sib(k)) \in Nat /\ AuxIdx(k + 1, Sib(k + 1)) \in Nat
      /\ Pow2[h - k] - 2 <= AuxIdx(k, Sib(k))
      /\ AuxIdx(k + 1, Sib(k + 1)) <= 2 * Pow2[h - (k + 1)] - 3
  BY <1>1, <1>2, PlacesOrdered
<1>5. AuxIdx(k + 1, Sib(k + 1)) < AuxIdx(k, Sib(k))
  BY <1>3, <1>4
<1> QED
  BY <1>4, <1>5 DEF Below, Sizes

-----------------------------------------------------------------------------
(* The leaves a signature skips. *)

\* From level t up the siblings are in the buffer; with t = h + 1 none of those
\* a leaf is skipped for.
Cached(t) ==
    \/ t = h + 1 /\ \A k \in 0..h - 2 : ~Below(AuxIdx(k, Sib(k)))
    \/ t \in 0..h - 2 /\ \A k \in 0..h - 1 : Below(AuxIdx(k, Sib(k))) <=> k >= t

\* Some level is where the buffer begins to help.
LEMMA CachedExists ==
    ASSUME Sizes
    PROVE  \E t \in 0..h + 1 : Cached(t)
<1> DEFINE U == {k \in 0..h - 2 : Below(AuxIdx(k, Sib(k)))}
<1>1. CASE U = {}
  BY <1>1 DEF Cached, Sizes
<1>2. CASE U # {}
  <2>1. PICK t \in U : \A k \in U : t <= k
    <3>1. U \subseteq Nat
      OBVIOUS
    <3> HIDE DEF U
    <3> QED BY <1>2, <3>1, LeastNumber
  <2>2. t \in 0..h - 2 /\ h \in Nat /\ Below(AuxIdx(t, Sib(t)))
    BY DEF Sizes
  <2> DEFINE T == {m \in Nat : t <= m /\ m <= h - 1 => Below(AuxIdx(m, Sib(m)))}
  <2>3. 0 \in T
    BY <2>2
  <2>4. ASSUME NEW m \in Nat, m \in T PROVE m + 1 \in T
    <3> SUFFICES ASSUME t <= m + 1, m + 1 <= h - 1
                 PROVE  Below(AuxIdx(m + 1, Sib(m + 1)))
      OBVIOUS
    <3>1. CASE m + 1 = t
      BY <2>2, <3>1
    <3>2. CASE t <= m
      <4>1. m \in 0..h - 2 /\ m <= h - 1
        BY <2>2
      <4>2. Below(AuxIdx(m, Sib(m)))
        BY <2>4, <3>2, <4>1
      <4> QED
        BY <4>1, <4>2, BufferedAbove
    <3> QED
      BY <2>2, <3>1, <3>2
  <2>5. Nat \subseteq T
    <3> HIDE DEF T
    <3> QED BY <2>3, <2>4, AllNumbers
  <2>6. ASSUME NEW k \in 0..h - 1 PROVE Below(AuxIdx(k, Sib(k))) <=> k >= t
    <3>1. CASE k >= t
      BY <2>2, <2>5, <3>1
    <3>2. CASE k < t
      BY <2>1, <2>2, <3>2
    <3> QED
      BY <2>2, <3>1, <3>2
  <2> QED
    BY <2>2, <2>6 DEF Cached
<1> QED
  BY <1>1, <1>2

\* The leaf lies with the one being signed below the same node of level k.
With(x, k) == Ancestor(x, k) = Ancestor(idxLeaf, k)

\* No leaf of the subtree that must be computed is skipped.
LEMMA InsideNotSkipped ==
    ASSUME Sizes, NEW t, Cached(t), NEW x \in Nat, With(x, t)
    PROVE  ~Skipped(x)
<1> SUFFICES ASSUME NEW k \in 0..h - 2, Ancestor(x, k) = Sib(k), Below(AuxIdx(k, Sib(k)))
             PROVE  FALSE
  BY DEF Skipped, Sib
<1>1. k \in 0..h - 1 /\ k \in Nat /\ idxLeaf \in Nat
  BY Pow2Unfolds DEF Sizes
<1>2. t \in 0..h - 2 /\ t <= k
  BY <1>1 DEF Cached
<1>3. With(x, k)
  BY <1>1, <1>2, AncestorsShared DEF With
<1> QED
  BY <1>1, <1>3, PathNodes DEF With

\* Nor one in the other half of the tree.
LEMMA OtherHalfNotSkipped ==
    ASSUME Sizes, NEW x \in Nat, ~With(x, h - 1)
    PROVE  ~Skipped(x)
<1> SUFFICES ASSUME NEW k \in 0..h - 2, Ancestor(x, k) = Sib(k)
             PROVE  FALSE
  BY DEF Skipped, Sib
<1>1. k \in 0..h - 1 /\ k \in Nat /\ k + 1 \in Nat /\ idxLeaf \in Nat
      /\ h - 1 \in Nat /\ k + 1 <= h - 1
  BY Pow2Unfolds DEF Sizes
<1>2. Ancestor(x, k + 1) = Ancestor(idxLeaf, k + 1)
  BY <1>1, PathNodes, AncestorUnfolds
<1>3. With(x, h - 1)
  BY <1>1, <1>2, AncestorsShared DEF With
<1> QED
  BY <1>3

\* All others are: those of the same half and outside that subtree.
LEMMA OutsideSkipped ==
    ASSUME Sizes, NEW t, Cached(t), NEW x \in Nat, ~With(x, t), With(x, h - 1),
           t # h + 1, call = "sign"
    PROVE  Skipped(x)
<1> DEFINE U == {k \in Nat : With(x, k)}
<1>1. idxLeaf \in Nat /\ h \in Nat /\ h - 1 \in Nat /\ t \in 0..h - 2 /\ t \in Nat
  BY Pow2Unfolds DEF Sizes, Cached
<1>2. PICK m \in U : \A k \in U : m <= k
  <2>1. U \subseteq Nat /\ U # {}
    BY <1>1
  <2> HIDE DEF U
  <2> QED BY <2>1, LeastNumber
<1>3. m \in Nat /\ With(x, m) /\ m <= h - 1
  BY <1>1, <1>2
<1>4. t < m
  BY <1>1, <1>3, AncestorsShared DEF With
<1> DEFINE k == m - 1
<1>5. k \in Nat /\ k \in 0..h - 2 /\ k \in 0..h - 1 /\ m = k + 1 /\ k >= t
  BY <1>1, <1>3, <1>4
<1>6. ~With(x, k)
  BY <1>2, <1>5
<1> HIDE DEF k
<1>7. Ancestor(x, k) = Sib(k)
  <2> DEFINE a == Ancestor(x, k)
             b == Ancestor(idxLeaf, k)
  <2>1. a \in Nat /\ b \in Nat /\ a # b /\ a \div 2 = b \div 2
    BY <1>1, <1>3, <1>5, <1>6, AncestorUnfolds DEF With
  <2> HIDE DEF a, b
  <2>2. a = Sibling(b)
    BY <2>1 DEF Sibling
  <2> QED
    BY <2>2 DEF a, b, Sib
<1>8. Below(AuxIdx(k, Sib(k)))
  BY <1>1, <1>5 DEF Cached, Sizes
<1>9. x # idxLeaf /\ auxSize > 0
  <2>1. AuxIdx(k, Sib(k)) \in Nat
    BY <1>5, PathNodes, PlacesOrdered
  <2> QED
    BY <1>6, <1>8, <2>1 DEF With, Below, Sizes
<1> QED
  BY <1>5, <1>7, <1>8, <1>9 DEF Skipped, Sib

-----------------------------------------------------------------------------
(* The stack as a binary counter: the heights of its nodes are the set bits   *)
(* of the number of leaves put in, from bit c up.                             *)

Bits(s, v, c) ==
    /\ \A n \in 1..Len(s) : s[n].height \in Nat /\ s[n].height >= c /\ Odd(v, s[n].height)
    /\ \A m, n \in 1..Len(s) : m < n => s[m].height > s[n].height
    /\ \A k \in Nat : k >= c /\ Odd(v, k) => \E n \in 1..Len(s) : s[n].height = k

\* The node on top has the height of the bit if the bit is set.
LEMMA BitOnTop ==
    ASSUME NEW E, NEW s \in Seq(E), NEW v \in Nat, NEW c \in Nat, Bits(s, v, c)
    PROVE  Odd(v, c) <=> s # <<>> /\ Last(s).height = c
<1>1. ASSUME Odd(v, c) PROVE s # <<>> /\ Last(s).height = c
  <2>1. PICK n \in 1..Len(s) : s[n].height = c
    BY <1>1 DEF Bits
  <2>2. Len(s) \in Nat /\ Len(s) \in 1..Len(s) /\ s # <<>>
    BY <2>1
  <2>3. n < Len(s) => s[n].height > s[Len(s)].height
    BY <2>2 DEF Bits
  <2>4. s[Len(s)].height \in Nat /\ s[Len(s)].height >= c
    BY <2>2 DEF Bits
  <2>5. n = Len(s)
    BY <2>1, <2>2, <2>3, <2>4
  <2> QED
    BY <2>1, <2>2, <2>5 DEF Last
<1>2. ASSUME s # <<>>, Last(s).height = c PROVE Odd(v, c)
  <2>1. Len(s) \in 1..Len(s)
    BY <1>2
  <2> QED
    BY <1>2, <2>1 DEF Bits, Last
<1> QED
  BY <1>1, <1>2

\* Without its last element.
LEMMA FrontFacts ==
    ASSUME NEW E, NEW s \in Seq(E), s # <<>>
    PROVE  /\ Front(s) \in Seq(E) /\ Len(s) \in Nat \ {0} /\ Len(Front(s)) = Len(s) - 1
           /\ \A n \in 1..Len(s) - 1 : Front(s)[n] = s[n]
           /\ Last(s) = s[Len(s)] /\ Last(s) \in E
<1> DEFINE l == Len(s)
<1>1. l \in Nat /\ l # 0 /\ l \in 1..l
  OBVIOUS
<1>2. s[l] \in E
  BY <1>1
<1>3. Front(s) = SubSeq(s, 1, l - 1)
  BY DEF Front
<1>4. \A n \in 1..l - 1 : s[n] \in E
  BY <1>1
<1> DEFINE p == l - 1
<1>5. p \in Int /\ p = l - 1
  BY <1>1
<1>6. \A n \in 1..p : s[n] \in E
  BY <1>4
<1>7. Last(s) = s[l]
  BY DEF Last
<1> HIDE DEF p, l
<1>8. /\ SubSeq(s, 1, p) \in Seq(E)
      /\ Len(SubSeq(s, 1, p)) = IF 1 <= p THEN p - 1 + 1 ELSE 0
      /\ \A n \in 1..p - 1 + 1 : SubSeq(s, 1, p)[n] = s[1 + n - 1]
  BY <1>5, <1>6, SubSeqProperties
<1>9. Front(s) = SubSeq(s, 1, p)
  BY <1>3 DEF p
<1>10. \A n \in 1..l - 1 : Front(s)[n] = s[n]
  <2> SUFFICES ASSUME NEW n \in 1..l - 1 PROVE Front(s)[n] = s[n]
    OBVIOUS
  <2>1. 1 + n - 1 = n /\ n \in 1..p - 1 + 1
    BY <1>1, <1>5
  <2> QED
    BY <1>8, <1>9, <2>1
<1>11. Len(Front(s)) = l - 1
  BY <1>1, <1>5, <1>8, <1>9
<1> QED
  BY <1>1, <1>2, <1>7, <1>8, <1>9, <1>10, <1>11 DEF l

\* Merging carries into the next bit.
LEMMA BitsMerged ==
    ASSUME NEW E, NEW s \in Seq(E), NEW v \in Nat, NEW c \in Nat, Bits(s, v, c), Odd(v, c)
    PROVE  Bits(Front(s), v, c + 1)
<1>1. s # <<>> /\ Last(s).height = c
  BY BitOnTop
<1>2. /\ Len(s) \in Nat \ {0} /\ Len(Front(s)) = Len(s) - 1
      /\ \A n \in 1..Len(s) - 1 : Front(s)[n] = s[n]
      /\ s[Len(s)].height = c
  BY <1>1, FrontFacts
<1> DEFINE f == Front(s)
           l == Len(s)
<1>3. l \in Nat \ {0} /\ Len(f) = l - 1 /\ (\A n \in 1..l - 1 : f[n] = s[n]) /\ s[l].height = c
  BY <1>2
<1> HIDE DEF f, l
<1>4. ASSUME NEW n \in 1..Len(f)
      PROVE  f[n].height \in Nat /\ f[n].height >= c + 1 /\ Odd(v, f[n].height)
  <2>1. n \in 1..l /\ l \in 1..l /\ n < l /\ f[n] = s[n]
    BY <1>3
  <2>2. s[n].height \in Nat /\ Odd(v, s[n].height) /\ s[n].height > s[l].height
    BY <2>1 DEF Bits, l
  <2> QED
    BY <1>3, <2>1, <2>2
<1>5. ASSUME NEW m \in 1..Len(f), NEW n \in 1..Len(f), m < n
      PROVE  f[m].height > f[n].height
  <2>1. m \in 1..l /\ n \in 1..l /\ f[n] = s[n] /\ f[m] = s[m]
    BY <1>3
  <2> QED
    BY <1>5, <2>1 DEF Bits, l
<1>6. ASSUME NEW k \in Nat, k >= c + 1, Odd(v, k) PROVE \E n \in 1..Len(f) : f[n].height = k
  <2>1. PICK n \in 1..l : s[n].height = k
    BY <1>6 DEF Bits, l
  <2>2. n # l
    BY <1>3, <1>6, <2>1
  <2>3. n \in 1..Len(f) /\ f[n] = s[n]
    BY <1>3, <2>2
  <2> QED
    BY <2>1, <2>3
<1>7. Bits(f, v, c + 1)
  BY <1>4, <1>5, <1>6 DEF Bits
<1> QED
  BY <1>7 DEF f

\* Counting one more flips the bits the carry goes through.
LEMMA NextOdd ==
    ASSUME NEW x \in Nat, NEW k \in Nat
    PROVE  /\ LowOnes(x, k) => (Odd(x + 1, k) <=> ~Odd(x, k))
           /\ ~LowOnes(x, k) => (Odd(x + 1, k) <=> Odd(x, k))
<1>1. x + 1 \in Nat
  OBVIOUS
<1>2. Ancestor(x, k) \in Nat /\ Ancestor(x + 1, k) \in Nat
  BY <1>1, AncestorUnfolds
<1>3. /\ LowOnes(x, k) => Ancestor(x + 1, k) = Ancestor(x, k) + 1
      /\ ~LowOnes(x, k) => Ancestor(x + 1, k) = Ancestor(x, k)
  BY Carry
<1> QED
  BY <1>2, <1>3 DEF Odd

\* The bits below the lowest clear one are those the carry flips.
LEMMA CarryStops ==
    ASSUME NEW x \in Nat, NEW c \in Nat, LowOnes(x, c), ~Odd(x, c), NEW k \in Nat
    PROVE  LowOnes(x, k) <=> k <= c
BY DEF LowOnes

\* The new number: the clear bit is set and those below are cleared.
LEMMA BitsPushed ==
    ASSUME NEW E, NEW s \in Seq(E), NEW v \in Nat, NEW c \in Nat, Bits(s, v, c),
           LowOnes(v, c), ~Odd(v, c), NEW e \in E, e.height = c
    PROVE  Bits(Append(s, e), v + 1, 0)
<1> DEFINE f == Append(s, e)
           l == Len(s)
<1>1. l \in Nat /\ Len(f) = l + 1 /\ f[l + 1] = e /\ \A n \in 1..l : f[n] = s[n]
  OBVIOUS
<1> HIDE DEF f, l
<1>2. ASSUME NEW k \in Nat
      PROVE  /\ k < c => ~Odd(v + 1, k)
             /\ Odd(v + 1, c)
             /\ k > c => (Odd(v + 1, k) <=> Odd(v, k))
  <2>1. LowOnes(v, k) <=> k <= c
    BY CarryStops
  <2>2. k < c => Odd(v, k)
    BY DEF LowOnes
  <2>3. /\ LowOnes(v, k) => (Odd(v + 1, k) <=> ~Odd(v, k))
        /\ ~LowOnes(v, k) => (Odd(v + 1, k) <=> Odd(v, k))
    BY NextOdd
  <2>4. Odd(v + 1, c)
    BY NextOdd
  <2> QED
    BY <2>1, <2>2, <2>3, <2>4
<1>3. ASSUME NEW n \in 1..l PROVE s[n].height \in Nat /\ s[n].height > c /\ Odd(v, s[n].height)
  <2>1. s[n].height \in Nat /\ s[n].height >= c /\ Odd(v, s[n].height)
    BY DEF Bits, l
  <2>2. s[n].height # c
    BY <2>1
  <2> QED
    BY <2>1, <2>2
<1>4. ASSUME NEW n \in 1..Len(f)
      PROVE  f[n].height \in Nat /\ f[n].height >= 0 /\ Odd(v + 1, f[n].height)
  <2>1. CASE n = l + 1
    BY <1>1, <1>2, <2>1
  <2>2. CASE n # l + 1
    <3>1. n \in 1..l /\ f[n] = s[n]
      BY <1>1, <2>2
    <3> QED
      BY <3>1, <1>2, <1>3
  <2> QED
    BY <2>1, <2>2
<1>5. ASSUME NEW m \in 1..Len(f), NEW n \in 1..Len(f), m < n
      PROVE  f[m].height > f[n].height
  <2>1. m \in 1..l /\ f[m] = s[m]
    BY <1>1, <1>5
  <2>2. CASE n = l + 1
    BY <1>1, <1>3, <2>1, <2>2
  <2>3. CASE n # l + 1
    <3>1. n \in 1..l /\ f[n] = s[n]
      BY <1>1, <2>3
    <3> QED
      BY <1>5, <2>1, <3>1 DEF Bits, l
  <2> QED
    BY <2>2, <2>3
<1>6. ASSUME NEW k \in Nat, Odd(v + 1, k) PROVE \E n \in 1..Len(f) : f[n].height = k
  <2>1. k >= c
    BY <1>2, <1>6
  <2>2. CASE k = c
    <3>1. l + 1 \in 1..Len(f)
      BY <1>1
    <3> QED
      BY <1>1, <2>2, <3>1
  <2>3. CASE k > c
    <3>1. Odd(v, k)
      BY <1>2, <1>6, <2>3
    <3>2. PICK n \in 1..l : s[n].height = k
      BY <2>1, <3>1 DEF Bits, l
    <3>3. n \in 1..Len(f) /\ f[n] = s[n]
      BY <1>1
    <3> QED
      BY <3>2, <3>3
  <2> QED
    BY <2>1, <2>2, <2>3
<1>7. Bits(f, v + 1, 0)
  BY <1>4, <1>5, <1>6 DEF Bits
<1> QED
  BY <1>7 DEF f

\* Falling heights are few.
LEMMA FewHeights ==
    ASSUME NEW E, NEW s \in Seq(E), NEW n \in Nat,
           \A m \in 1..Len(s) : s[m].height \in 0..n - 1,
           \A k, m \in 1..Len(s) : k < m => s[k].height > s[m].height
    PROVE  Len(s) <= n
<1> DEFINE T == {m \in Nat : m + 1 <= Len(s) => s[m + 1].height + m + 1 <= n}
<1>1. Len(s) \in Nat
  OBVIOUS
<1>2. 0 \in T
  <2>1. 1 <= Len(s) => 1 \in 1..Len(s)
    BY <1>1
  <2>2. 1 <= Len(s) => s[1].height \in 0..n - 1
    BY <2>1
  <2>3. 0 + 1 = 1
    OBVIOUS
  <2> QED
    BY <2>2, <2>3
<1>3. ASSUME NEW m \in Nat, m \in T PROVE m + 1 \in T
  <2> SUFFICES ASSUME m + 1 + 1 <= Len(s) PROVE s[m + 1 + 1].height + (m + 1) + 1 <= n
    OBVIOUS
  <2>1. m + 1 \in 1..Len(s) /\ m + 1 + 1 \in 1..Len(s) /\ m + 1 < m + 1 + 1
    BY <1>1
  <2>2. s[m + 1].height > s[m + 1 + 1].height
    BY <2>1
  <2>3. s[m + 1].height \in Nat /\ s[m + 1 + 1].height \in Nat
    BY <2>1
  <2>4. s[m + 1].height + m + 1 <= n
    BY <1>1, <1>3
  <2> QED
    BY <2>2, <2>3, <2>4
<1>4. Nat \subseteq T
  <2> HIDE DEF T
  <2> QED BY <1>2, <1>3, AllNumbers
<1>5. CASE Len(s) = 0
  BY <1>5
<1>6. CASE Len(s) # 0
  <2>1. Len(s) - 1 \in Nat /\ Len(s) - 1 + 1 = Len(s) /\ Len(s) \in 1..Len(s)
    BY <1>1, <1>6
  <2>2. s[Len(s) - 1 + 1].height + (Len(s) - 1) + 1 <= n
    BY <1>4, <2>1
  <2>3. s[Len(s)].height \in Nat
    BY <2>1
  <2> QED
    BY <1>1, <2>1, <2>2, <2>3
<1> QED
  BY <1>5, <1>6

-----------------------------------------------------------------------------
(* The invariant. *)

ValueAt(k) == {Garbage} \cup {<<k, j>> : j \in 0..Pow2[h] - 1}

\* The node of level c above leaf x.
Node(x, c, w) ==
    [height |-> c, j |-> Ancestor(x, c), r |-> Pow2[h - c] + Ancestor(x, c), val |-> w]

Entries == [height : 0..h, val : Value]

\* The node the loop is at belongs to a leaf that is not skipped.
CurrentNode ==
    \/ cur = NoCur
    \/ /\ i < Pow2[h]
       /\ call \in Running => ~Skipped(i)
       /\ \E c \in 0..h : \E w \in ValueAt(c) : cur = Node(i, c, w)

\* With leaf x and its ancestors up to level c, node j of level k was passed.
Passed(x, c, k, j) == Ancestor(x, k) > j \/ (k <= c /\ Ancestor(x, k) = j)

\* The buffer holds the nodes passed, or all of them.
Fills(f, x, c) ==
    \A k \in 0..h - 1 : \A j \in LevelNodes(k) :
        Room(k, AuxIdx(k, j)) /\ Passed(x, c, k, j) => f[AuxIdx(k, j)] = <<k, j>>
Holds(f) ==
    \A k \in 0..h - 1 : \A j \in LevelNodes(k) :
        Room(k, AuxIdx(k, j)) => f[AuxIdx(k, j)] = <<k, j>>

\* What holds whether or not a call is running.
Basic ==
    /\ TypeOK
    /\ CurrentNode
    /\ \A n \in 1..Len(stack) : stack[n].val \in ValueAt(stack[n].height)
    /\ call \in {"keyed", "signed"} => cur = NoCur
    /\ call = "keygen" => Fills(aux, i, cur.height) /\ idxLeaf = 0
    /\ call \notin {"keygen", "failed"} => Holds(aux) /\ T1 = <<h, 0>>
    /\ call = "signed" => \A k \in 0..h - 1 : out[k] = <<k, Sib(k)>>

Reached == IF cur = NoCur THEN 0 ELSE cur.height

\* v leaves went into the stack.
Counted(v) == v \in 0..i /\ LowOnes(v, Reached) /\ Bits(stack, v, Reached)

\* Before the subtree that must be computed, all leaves went into the stack or
\* those of the other half of the tree did; in it the stack counts its leaves.
Phase(v, t) ==
    /\ Ancestor(i, t) < Ancestor(idxLeaf, t) /\ ~With(i, h - 1) => v = i
    /\ Ancestor(i, t) < Ancestor(idxLeaf, t) /\ With(i, h - 1) =>
           \A k \in 0..h - 2 : ~Odd(v, k)
    /\ With(i, t) => \A k \in 0..t - 1 : Odd(v, k) <=> Odd(i, k)

\* In that subtree the nodes have the values of their places.
Exact(t) ==
    With(i, t) =>
        /\ \A n \in 1..Len(stack) : stack[n].height < t =>
               stack[n].val = <<stack[n].height, Ancestor(i, stack[n].height) - 1>>
        /\ cur # NoCur /\ cur.height < t => cur.val = <<cur.height, Ancestor(i, cur.height)>>

\* The siblings computed so far are on the authentication path.
PathKept(t) ==
    call = "sign" =>
        \A k \in 0..h - 1 :
            k < t /\ Passed(i, cur.height, k, Sib(k)) => out[k] = <<k, Sib(k)>>

Threshold(t) == t \in 0..h + 1 /\ IF call = "keygen" THEN t = h + 1 ELSE Cached(t)

Computing(v, t) == Threshold(t) /\ Phase(v, t) /\ Exact(t) /\ PathKept(t)

LInv ==
    /\ Basic
    /\ \E v \in Nat, t \in Nat : Counted(v) /\ (call \in Running => Computing(v, t))

\* The invariant is about the sizes the code has.
LEMMA SizesHold ==
    ASSUME TypeOK
    PROVE  Sizes
BY ConstantsAssumption DEF TypeOK, Sizes

Nodes == [height : 0..h, j : 0..Pow2[h] - 1, r : 1..Pow2[h + 1], val : Value]

\* The index and the number of a node are in range.
LEMMA NodeTyped ==
    ASSUME Sizes, NEW x \in 0..Pow2[h] - 1, NEW c \in 0..h, NEW w \in ValueAt(c)
    PROVE  Node(x, c, w) \in Nodes /\ Ancestor(x, c) \in 0..Pow2[h - c] - 1 /\ w \in Value
<1>1. /\ h \in Nat /\ Pow2[h] \in Nat /\ Pow2[h - c] \in Nat \ {0} /\ Pow2[h + 1] = 2 * Pow2[h]
      /\ x \in Nat /\ x < Pow2[h]
  BY Pow2Unfolds DEF Sizes
<1>2. Ancestor(x, c) \in Nat /\ Ancestor(x, c) < Pow2[h - c]
  <2>1. Ancestor(x, c) \in Nat
    <3>1. x \in Nat /\ c \in Nat
      BY <1>1
    <3> QED
      BY <3>1, AncestorUnfolds
  <2>2. Ancestor(x, c) < Pow2[h - c]
    BY <1>1, LevelSize
  <2> QED
    BY <2>1, <2>2
<1>3. Pow2[h - c] <= Pow2[h]
  <2>1. h - c < h => Pow2[h - c] < Pow2[h]
    BY <1>1, PowersGrow
  <2>2. h - c = h \/ h - c < h
    BY <1>1
  <2> QED
    BY <1>1, <2>1, <2>2
<1>4. w \in Value
  BY DEF Value, ValueAt
<1> DEFINE a == Ancestor(x, c)
           p == Pow2[h - c]
           P == Pow2[h]
           Q == Pow2[h + 1]
<1>5. a \in 0..P - 1 /\ p + a \in 1..Q /\ a \in 0..p - 1
  <2>1. a \in Nat /\ p \in Nat \ {0} /\ P \in Nat /\ Q = 2 * P /\ a < p /\ p <= P
    BY <1>1, <1>2, <1>3
  <2> HIDE DEF a, p, P, Q
  <2> QED
    BY <2>1
<1> HIDE DEF a, p, P, Q
<1>6. [height |-> c, j |-> a, r |-> p + a, val |-> w] \in
         [height : 0..h, j : 0..P - 1, r : 1..Q, val : Value]
  BY <1>4, <1>5
<1> QED
  BY <1>4, <1>5, <1>6 DEF Node, Nodes, a, p, P, Q

\* The same of the next state, for a step that does not change the key.
BasicNext ==
    /\ call' \in Running \cup {"keyed", "signed", "failed"}
    /\ i' \in 0..Pow2[h]
    /\ \/ cur' = NoCur
       \/ /\ i' < Pow2[h] /\ i' = i /\ ~Skipped(i) /\ (call' = call \/ call' \notin Running)
          /\ \E c \in 0..h : \E w \in ValueAt(c) : cur' = Node(i, c, w)
    /\ stack' \in Seq(Entries)
    /\ \A n \in 1..Len(stack') : stack'[n].val \in ValueAt(stack'[n].height)
    /\ aux' \in [0..auxSize - 1 -> Value] /\ out' \in [0..h - 1 -> Value]
    /\ T1' \in Value /\ retCode' \in {"Err", "NoErr", "HashErr"}
    /\ call' \in {"keyed", "signed"} => cur' = NoCur
    /\ call' = "keygen" => Fills(aux', i', cur'.height) /\ idxLeaf = 0
    /\ call' \notin {"keygen", "failed"} => Holds(aux') /\ T1' = <<h, 0>>
    /\ call' = "signed" => \A k \in 0..h - 1 : out'[k] = <<k, Sib(k)>>

PhaseNext(v, t) ==
    /\ Ancestor(i', t) < Ancestor(idxLeaf, t) /\ ~With(i', h - 1) => v = i'
    /\ Ancestor(i', t) < Ancestor(idxLeaf, t) /\ With(i', h - 1) =>
           \A k \in 0..h - 2 : ~Odd(v, k)
    /\ With(i', t) => \A k \in 0..t - 1 : Odd(v, k) <=> Odd(i', k)

ExactNext(t) ==
    With(i', t) =>
        /\ \A n \in 1..Len(stack') : stack'[n].height < t =>
               stack'[n].val = <<stack'[n].height, Ancestor(i', stack'[n].height) - 1>>
        /\ cur' # NoCur /\ cur'.height < t => cur'.val = <<cur'.height, Ancestor(i', cur'.height)>>

PathKeptNext(t) ==
    call = "sign" =>
        \A k \in 0..h - 1 :
            k < t /\ Passed(i', cur'.height, k, Sib(k)) => out'[k] = <<k, Sib(k)>>

\* A step that does not change the key keeps the invariant if it does so in
\* these terms.
LEMMA SameKey ==
    ASSUME Basic, UNCHANGED <<h, auxSize, idxLeaf>>, BasicNext
    PROVE  Basic'
<1>1. Value' = Value /\ Entries' = Entries /\ \A k : ValueAt(k)' = ValueAt(k)
  BY DEF Value, ValueAt, Entries
<1>2. TypeOK'
  <2>1. cur' = NoCur \/ cur' \in Nodes
    <3>1. Sizes /\ i \in 0..Pow2[h]
      BY SizesHold DEF Basic, TypeOK
    <3>2. i < Pow2[h] => i \in 0..Pow2[h] - 1
      BY <3>1, Pow2Unfolds DEF Sizes
    <3> QED
      BY <3>1, <3>2, NodeTyped DEF BasicNext
  <2> QED
    BY <1>1, <2>1 DEF TypeOK, Basic, BasicNext, Entries, Nodes
<1>3. CurrentNode'
  BY DEF CurrentNode, BasicNext, Node, Skipped, Below, AuxIdx, ValueAt
<1>4. (\A n \in 1..Len(stack) : stack[n].val \in ValueAt(stack[n].height))'
  BY DEF BasicNext, ValueAt
<1>5. (call = "keygen" => Fills(aux, i, cur.height) /\ idxLeaf = 0)'
  BY DEF BasicNext, Fills, Room, Below, UpTo, AuxIdx, LevelNodes
<1>6. (call \notin {"keygen", "failed"} => Holds(aux) /\ T1 = <<h, 0>>)'
  BY DEF BasicNext, Holds, Room, Below, UpTo, AuxIdx, LevelNodes
<1>7. (call = "signed" => \A k \in 0..h - 1 : out[k] = <<k, Sib(k)>>)'
  BY DEF BasicNext, Sib
<1>8. (call \in {"keyed", "signed"} => cur = NoCur)'
  BY DEF BasicNext
<1> QED
  BY <1>2, <1>3, <1>4, <1>5, <1>6, <1>7, <1>8 DEF Basic

\* While a key computes, what the next step preserves is the computation's
\* invariant again: the threshold and the positions do not move.
LEMMA SameKeyComputing ==
    ASSUME UNCHANGED <<h, auxSize, idxLeaf, call>>, NEW v, NEW t,
           Threshold(t), PhaseNext(v, t), ExactNext(t), PathKeptNext(t)
    PROVE  Computing(v, t)'
<1>1. Threshold(t)'
  BY DEF Threshold, Cached, Sib, Below, AuxIdx
<1>2. Phase(v, t)'
  BY DEF Phase, PhaseNext, With
<1>3. Exact(t)'
  BY DEF Exact, ExactNext, With
<1>4. PathKept(t)'
  BY DEF PathKept, PathKeptNext, Sib
<1> QED
  BY <1>1, <1>2, <1>3, <1>4 DEF Computing

-----------------------------------------------------------------------------
(* Getting a node. *)

\* All leaves share what is above the root.
LEMMA RootShared ==
    ASSUME Sizes, NEW x \in 0..Pow2[h]
    PROVE  With(x, h + 1)
<1>1. h \in Nat /\ Pow2[h] \in Nat /\ Pow2[0] = 1 /\ h - h = 0 /\ h \in 0..h
  BY Pow2Unfolds DEF Sizes
<1>2. ASSUME NEW y \in 0..Pow2[h] PROVE Ancestor(y, h + 1) = 0
  <2>1. y \in Nat
    BY <1>1
  <2>2. Ancestor(y, h) \in Nat /\ Ancestor(y, h + 1) = Ancestor(y, h) \div 2
    BY <1>1, <2>1, AncestorUnfolds
  <2>3. /\ \A z \in Nat : z < Pow2[h] => Ancestor(z, h) < Pow2[h - h]
        /\ Ancestor(Pow2[h], h) = Pow2[h - h]
    BY <1>1, LevelSize
  <2>4. Ancestor(y, h) <= 1
    <3>1. CASE y = Pow2[h]
      BY <1>1, <2>3, <3>1
    <3>2. CASE y < Pow2[h]
      <4>1. Ancestor(y, h) < 1
        BY <1>1, <2>1, <2>3, <3>2
      <4> QED
        BY <2>2, <4>1
    <3> QED
      BY <1>1, <3>1, <3>2
  <2> QED
    BY <2>2, <2>4
<1>3. idxLeaf \in 0..Pow2[h]
  BY <1>1 DEF Sizes
<1> QED
  BY <1>2, <1>3 DEF With

\* A leaf below a sibling on the path shares the path from one level up.
LEMMA SiblingShares ==
    ASSUME Sizes, NEW x \in Nat, NEW k \in 0..h - 1, Ancestor(x, k) = Sib(k),
           NEW t \in Nat, k < t
    PROVE  With(x, t)
<1>1. k \in Nat /\ k + 1 \in Nat /\ idxLeaf \in Nat /\ k + 1 <= t
  BY Pow2Unfolds DEF Sizes
<1>2. Ancestor(x, k + 1) = Ancestor(idxLeaf, k + 1)
  BY <1>1, PathNodes, AncestorUnfolds
<1> QED
  BY <1>1, <1>2, AncestorsShared DEF With

\* A node with room is below the root and has its place in the buffer.
LEMMA RoomIsBelow ==
    ASSUME Sizes, NEW x \in 0..Pow2[h] - 1, NEW c \in 0..h,
           Room(c, AuxIdx(c, Ancestor(x, c)))
    PROVE  /\ c \in 0..h - 1 /\ Ancestor(x, c) \in LevelNodes(c)
           /\ AuxIdx(c, Ancestor(x, c)) \in 0..auxSize - 1
<1>1. Ancestor(x, c) \in 0..Pow2[h - c] - 1
  <2>1. Garbage \in ValueAt(c)
    BY DEF ValueAt
  <2> QED
    BY <2>1, NodeTyped
<1>2. h \in Nat \ {0} /\ auxSize \in Nat
  BY DEF Sizes
<1>3. c # h
  <2> SUFFICES ASSUME c = h PROVE FALSE
    OBVIOUS
  <2>1. h - c = 0 /\ Pow2[0] = 1
    BY <1>2, Pow2Unfolds
  <2>2. Ancestor(x, c) = 0
    BY <1>1, <2>1
  <2>3. AuxIdx(c, Ancestor(x, c)) = -1
    BY <2>1, <2>2 DEF AuxIdx
  <2> QED
    BY <1>2, <2>3 DEF Room, UpTo
<1>4. c \in 0..h - 1 /\ Ancestor(x, c) \in LevelNodes(c)
  BY <1>1, <1>2, <1>3 DEF LevelNodes
<1>5. AuxIdx(c, Ancestor(x, c)) \in Nat
  BY <1>4, PlacesOrdered
<1> QED
  BY <1>2, <1>4, <1>5 DEF Room, Below, UpTo

\* The node obtained for leaf i at level c: it is exact where it must be, is
\* written down where it is needed, and nothing else is.
Got(c, t) ==
    /\ \E u \in ValueAt(c) :
          /\ cur' = Node(i, c, u)
          /\ With(i, t) /\ c < t => u = <<c, Ancestor(i, c)>>
    /\ aux' \in [0..auxSize - 1 -> Value] /\ out' \in [0..h - 1 -> Value]
    /\ retCode' \in {"Err", "NoErr", "HashErr"}
    /\ call = "keygen" => Fills(aux', i, c)
    /\ call # "keygen" => Holds(aux')
    /\ call = "sign" =>
          \A k \in 0..h - 1 : k < t /\ Passed(i, c, k, Sib(k)) => out'[k] = <<k, Sib(k)>>

\* Whether the node is copied from the auxiliary memory or hashed, and whether
\* or not it is stored there, what Got says is true of it.
LEMMA Obtained ==
    ASSUME Basic, call \in Running, i < Pow2[h],
           NEW c \in 0..h, NEW w \in ValueAt(c), cur.height = c - 1,
           NEW t \in Nat, Threshold(t), PathKept(t),
           With(i, t) /\ c < t => w = <<c, Ancestor(i, c)>>,
           NEW room \in BOOLEAN, room <=> Room(c, AuxIdx(c, Ancestor(i, c))),
           Obtain(Node(i, c, w), call = "sign" /\ room, call = "keygen" /\ room)
    PROVE  Got(c, t)
<1> DEFINE a == Ancestor(i, c)
           k == AuxIdx(c, a)
           u == IF call = "sign" /\ room THEN aux[k] ELSE w
<1>1. /\ Sizes /\ i \in 0..Pow2[h] - 1 /\ i \in Nat /\ call \in {"keygen", "sign"}
      /\ aux \in [0..auxSize - 1 -> Value] /\ out \in [0..h - 1 -> Value]
      /\ retCode \in {"Err", "NoErr", "HashErr"}
  <2>1. TypeOK
    BY DEF Basic
  <2>2. Sizes
    BY <2>1, SizesHold
  <2>3. Pow2[h] \in Nat
    BY <2>2, Pow2Unfolds DEF Sizes
  <2> QED
    BY <2>1, <2>2, <2>3 DEF TypeOK, Running
<1>2. /\ cur' = [Node(i, c, w) EXCEPT !.val = u]
      /\ retCode' = IF call = "sign" /\ room THEN retCode ELSE "NoErr"
      /\ aux' = IF call = "keygen" /\ room THEN [aux EXCEPT ![k] = u] ELSE aux
      /\ out' = IF call = "sign" /\ a = Sib(c) THEN [out EXCEPT ![c] = u] ELSE out
  BY DEF Obtain, Node, Sib
<1>3. room => c \in 0..h - 1 /\ a \in LevelNodes(c) /\ k \in 0..auxSize - 1
  BY <1>1, RoomIsBelow
<1>4. a \in 0..Pow2[h - c] - 1 /\ w \in Value /\ a \in Nat /\ c \in Nat
  <2>1. a \in 0..Pow2[h - c] - 1 /\ w \in Value
    BY <1>1, NodeTyped
  <2>2. a \in Nat
    BY <1>1, AncestorUnfolds
  <2> QED
    BY <1>1, <2>1, <2>2
<1>5. call = "sign" /\ room => u = <<c, a>>
  <2> SUFFICES ASSUME call = "sign", room PROVE aux[k] = <<c, a>>
    OBVIOUS
  <2>1. Holds(aux)
    BY DEF Basic
  <2> QED
    BY <1>3, <2>1 DEF Holds
<1>6. u \in ValueAt(c) /\ u \in Value
  <2>1. a \in 0..Pow2[h] - 1
    <3>1. Node(i, c, w) \in Nodes
      BY <1>1, NodeTyped
    <3> QED
      BY <3>1 DEF Node, Nodes
  <2>2. <<c, a>> \in ValueAt(c) /\ <<c, a>> \in Value
    BY <2>1 DEF Value, ValueAt
  <2> QED
    BY <1>4, <1>5, <2>2
<1>7. With(i, t) /\ c < t => u = <<c, a>>
  BY <1>5
<1>8. cur' = Node(i, c, u)
  BY <1>2 DEF Node
<1>9. call = "keygen" => With(i, t) /\ c < t
  <2> SUFFICES ASSUME call = "keygen" PROVE With(i, t) /\ c < t
    OBVIOUS
  <2>1. t = h + 1 /\ h \in Nat
    BY <1>1 DEF Threshold, Sizes
  <2>2. i \in 0..Pow2[h]
    BY DEF Basic, TypeOK
  <2> QED
    BY <1>1, <2>1, <2>2, RootShared
<1> HIDE DEF u, k, a
<1>10. aux' \in [0..auxSize - 1 -> Value] /\ out' \in [0..h - 1 -> Value]
  BY <1>1, <1>2, <1>6
<1>11. retCode' \in {"Err", "NoErr", "HashErr"}
  BY <1>1, <1>2
<1>12. call = "keygen" => Fills(aux', i, c)
  <2> SUFFICES ASSUME call = "keygen", NEW m \in 0..h - 1, NEW j \in LevelNodes(m),
                      Room(m, AuxIdx(m, j)), Passed(i, c, m, j)
               PROVE  aux'[AuxIdx(m, j)] = <<m, j>>
    BY DEF Fills
  <2>1. CASE m = c /\ j = a
    <3>1. room /\ AuxIdx(m, j) = k
      BY <2>1 DEF a, k
    <3>2. u = <<m, j>>
      BY <1>7, <1>9, <2>1
    <3> QED
      BY <1>1, <1>2, <1>3, <3>1, <3>2
  <2>2. CASE ~(m = c /\ j = a)
    <3>1. Passed(i, cur.height, m, j)
      BY <1>4, <2>2 DEF Passed, a
    <3>2. aux[AuxIdx(m, j)] = <<m, j>>
      BY <3>1 DEF Basic, Fills
    <3>3. room => AuxIdx(m, j) # k
      BY <1>1, <1>3, <2>2, PlacesDiffer DEF k
    <3> QED
      BY <1>1, <1>2, <3>2, <3>3
  <2> QED
    BY <2>1, <2>2
<1>13. call # "keygen" => Holds(aux')
  <2>1. call # "keygen" => Holds(aux) /\ aux' = aux
    BY <1>1, <1>2 DEF Basic
  <2> QED
    BY <2>1
<1>14. ASSUME call = "sign", NEW m \in 0..h - 1, m < t, Passed(i, c, m, Sib(m))
       PROVE  out'[m] = <<m, Sib(m)>>
  <2>1. CASE m = c /\ a = Sib(c)
    <3>1. With(i, t)
      BY <1>1, <1>14, <2>1, SiblingShares DEF a
    <3> QED
      BY <1>1, <1>2, <1>7, <1>14, <2>1, <3>1
  <2>2. CASE ~(m = c /\ a = Sib(c))
    <3>1. Passed(i, cur.height, m, Sib(m))
      BY <1>4, <1>14, <2>2 DEF Passed, a
    <3>2. out[m] = <<m, Sib(m)>>
      BY <1>14, <3>1 DEF PathKept
    <3> QED
      BY <1>1, <1>2, <2>2, <3>2
  <2> QED
    BY <2>1, <2>2
<1> QED
  BY <1>6, <1>7, <1>8, <1>10, <1>11, <1>12, <1>13, <1>14 DEF Got, a

\* What a call has around the node it is at.
Around(v, t) == v \in Nat /\ t \in Nat /\ Counted(v) /\ Computing(v, t)

\* A node that was got is the current one.
LEMMA GotNode ==
    ASSUME Basic, call \in Running, i < Pow2[h], ~Skipped(i),
           UNCHANGED <<h, auxSize, call, idxLeaf, i, T1>>,
           NEW c \in 0..h, NEW v \in Nat, NEW t \in Nat, Got(c, t),
           v \in 0..i, LowOnes(v, c), Bits(stack', v, c),
           Threshold(t), Phase(v, t), Exact(t),
           stack' \in Seq(Entries),
           1..Len(stack') \subseteq 1..Len(stack),
           \A n \in 1..Len(stack') : stack'[n] = stack[n]
    PROVE  LInv'
<1>1. PICK u \in ValueAt(c) : cur' = Node(i, c, u) /\ (With(i, t) /\ c < t => u = <<c, Ancestor(i, c)>>)
  BY DEF Got
<1>2. cur'.height = c /\ cur'.val = u /\ c \in Nat /\ cur' # NoCur
  BY <1>1 DEF Node, NoCur
<1>3. i \in 0..Pow2[h] /\ T1 \in Value
  BY DEF Basic, TypeOK
<1>4. BasicNext
  <2>1. \A n \in 1..Len(stack') : stack'[n].val \in ValueAt(stack'[n].height)
    BY DEF Basic
  <2>2. call \notin {"keygen", "failed"} => Holds(aux') /\ T1' = <<h, 0>>
    BY DEF Basic, Got
  <2>3. call = "keygen" => Fills(aux', i', cur'.height) /\ idxLeaf = 0
    BY <1>2 DEF Basic, Got
  <2>4. call \notin {"keyed", "signed"}
    BY DEF Running
  <2> QED
    BY <1>1, <1>3, <2>1, <2>2, <2>3, <2>4 DEF BasicNext, Got
<1>5. Basic'
  BY <1>4, SameKey
<1>6. Counted(v)'
  BY <1>2 DEF Counted, Reached
<1>7. PhaseNext(v, t)
  BY DEF Phase, PhaseNext
<1>8. ExactNext(t)
  BY <1>1, <1>2 DEF Exact, ExactNext
<1>9. PathKeptNext(t)
  BY <1>2 DEF Got, PathKeptNext
<1>10. Computing(v, t)'
  BY <1>7, <1>8, <1>9, SameKeyComputing
<1> QED
  BY <1>5, <1>6, <1>10 DEF LInv

\* What is known of a call at a leaf or at a node above it.
LEMMA CallFacts ==
    ASSUME Basic
    PROVE  /\ TypeOK /\ Sizes /\ h \in Nat /\ Pow2[h] \in Nat \ {0}
           /\ i \in 0..Pow2[h] /\ i \in Nat /\ idxLeaf \in Nat /\ stack \in Seq(Entries)
           /\ cur # NoCur => i < Pow2[h] /\ i \in 0..Pow2[h] - 1
<1>1. TypeOK /\ Sizes
  BY SizesHold DEF Basic
<1>2. h \in Nat /\ Pow2[h] \in Nat \ {0} /\ idxLeaf \in Nat
  BY <1>1, Pow2Unfolds DEF Sizes
<1>3. i \in 0..Pow2[h] /\ stack \in Seq(Entries)
  BY <1>1 DEF TypeOK, Entries
<1>4. cur # NoCur => i < Pow2[h]
  BY DEF Basic, CurrentNode
<1> QED
  BY <1>1, <1>2, <1>3, <1>4

\* A leaf is computed or taken from the buffer.
LEMMA LeafKeeps ==
    ASSUME LInv, Leaf
    PROVE  LInv'
<1>1. Basic /\ call \in Running /\ cur = NoCur /\ i < Pow2[h] /\ ~Skipped(i)
      /\ UNCHANGED <<h, auxSize, call, idxLeaf, i, stack, T1>>
  BY DEF LInv, Leaf
<1>2. PICK v \in Nat, t \in Nat : Counted(v) /\ Computing(v, t)
  BY <1>1 DEF LInv
<1>3. /\ TypeOK /\ Sizes /\ h \in Nat /\ Pow2[h] \in Nat \ {0} /\ i \in Nat
      /\ stack \in Seq(Entries)
  BY <1>1, CallFacts
<1> DEFINE w == HashLeaf(Pow2[h] + i, i)
           room == Below(AuxIdx(0, i))
<1>4. Ancestor(i, 0) = i /\ h - 0 = h /\ 0 \in 0..h
  BY <1>3, AncestorUnfolds
<1>5. w = <<0, i>> /\ w \in ValueAt(0)
  BY <1>1, <1>3 DEF HashLeaf, ValueAt
<1>6. Obtain(Node(i, 0, w), call = "sign" /\ room, call = "keygen" /\ room)
  <2>1. Node(i, 0, w) = [height |-> 0, j |-> i, r |-> Pow2[h] + i, val |-> w]
    BY <1>4 DEF Node
  <2> QED
    BY <2>1 DEF Leaf
<1>7. room \in BOOLEAN /\ (room <=> Room(0, AuxIdx(0, Ancestor(i, 0))))
  BY <1>4 DEF Room, Below
<1>8. cur.height = 0 - 1
  BY <1>1 DEF NoCur
<1>9. Threshold(t) /\ Phase(v, t) /\ Exact(t) /\ PathKept(t)
  BY <1>2 DEF Computing
<1> HIDE DEF w, room
<1>10. Got(0, t)
  BY <1>1, <1>4, <1>5, <1>6, <1>7, <1>8, <1>9, Obtained
<1>11. v \in 0..i /\ LowOnes(v, 0) /\ Bits(stack', v, 0)
  BY <1>1, <1>2 DEF Counted, Reached
<1> QED
  BY <1>1, <1>3, <1>4, <1>9, <1>10, <1>11, GotNode

\* The node on top of the stack is the left sibling: the two are merged.
LEMMA MergeKeeps ==
    ASSUME LInv, Merge
    PROVE  LInv'
<1>1. /\ Basic /\ call \in Running /\ cur # NoCur /\ stack # <<>>
      /\ Last(stack).height = cur.height
      /\ stack' = Front(stack) /\ UNCHANGED <<h, auxSize, call, idxLeaf, i, T1>>
  BY DEF LInv, Merge, Mergeable
<1>2. PICK v \in Nat, t \in Nat : Counted(v) /\ Computing(v, t)
  BY <1>1 DEF LInv
<1>3. /\ TypeOK /\ Sizes /\ h \in Nat /\ Pow2[h] \in Nat \ {0} /\ i \in Nat
      /\ stack \in Seq(Entries) /\ i < Pow2[h] /\ i \in 0..Pow2[h] - 1
  BY <1>1, CallFacts
<1>c. PICK c \in 0..h : \E w \in ValueAt(c) : cur = Node(i, c, w)
  BY <1>1 DEF Basic, CurrentNode
<1>4. PICK w \in ValueAt(c) : cur = Node(i, c, w)
  BY <1>c
<1>5. c \in Nat /\ cur.height = c /\ cur.j = Ancestor(i, c) /\ cur.val = w
      /\ cur.r = Pow2[h - c] + Ancestor(i, c)
  BY <1>4 DEF Node
<1>6. ~Skipped(i)
  BY <1>1 DEF Basic, CurrentNode
<1>7. Threshold(t) /\ Phase(v, t) /\ Exact(t) /\ PathKept(t)
  BY <1>2 DEF Computing
<1>8. v \in 0..i /\ LowOnes(v, c) /\ Bits(stack, v, c)
  BY <1>1, <1>2, <1>5 DEF Counted, Reached
<1>9. Odd(v, c)
  BY <1>1, <1>3, <1>5, <1>8, BitOnTop
<1>10. c # h
  <2> SUFFICES ASSUME c = h PROVE FALSE
    OBVIOUS
  <2>1. v < Pow2[h] /\ h \in 0..h /\ h - h = 0 /\ Pow2[0] = 1
    BY <1>3, <1>8, Pow2Unfolds
  <2>2. Ancestor(v, h) < 1
    BY <1>3, <2>1, LevelSize
  <2>3. Ancestor(v, h) \in Nat
    BY <1>3, AncestorUnfolds
  <2>4. Ancestor(v, h) = 0
    BY <2>2, <2>3
  <2> QED
    BY <1>9, <2>4 DEF Odd
<1> DEFINE d == c + 1
           l == Last(stack).val
           u == HashInner(cur.r \div 2, l, w)
           room == UpTo(AuxIdx(d, Ancestor(i, d)))
<1>11. d \in 1..h /\ d \in 0..h /\ d \in Nat /\ d - 1 = c /\ d # 0
  BY <1>3, <1>5, <1>10
<1>12. /\ Ancestor(i, c) \in Nat /\ Ancestor(i, d) = Ancestor(i, c) \div 2
       /\ Pow2[h - d] \in Nat /\ Pow2[h - c] = 2 * Pow2[h - d]
  <2>1. Ancestor(i, c) \in Nat /\ Ancestor(i, d) = Ancestor(i, c) \div 2
    BY <1>3, <1>5, AncestorUnfolds
  <2>2. h - d \in Nat /\ h - c = h - d + 1
    BY <1>3, <1>5, <1>11
  <2> QED
    BY <2>1, <2>2, Pow2Unfolds
<1>13. cur.r \div 2 = Pow2[h - d] + Ancestor(i, d)
  BY <1>5, <1>12
<1>14. /\ Len(stack) \in 1..Len(stack) /\ Last(stack) = stack[Len(stack)]
       /\ l \in ValueAt(c)
  <2>1. Len(stack) \in 1..Len(stack) /\ Last(stack) = stack[Len(stack)]
    BY <1>1, <1>3 DEF Last
  <2> QED
    BY <1>1, <1>5, <2>1 DEF Basic
<1>15. u \in ValueAt(d)
  <2>1. CASE u = Garbage
    BY <2>1 DEF ValueAt
  <2>2. CASE u # Garbage
    <3>1. l # Garbage /\ u = <<l[1] + 1, l[2] \div 2>>
      BY <2>2 DEF HashInner
    <3>2. PICK j \in 0..Pow2[h] - 1 : l = <<c, j>>
      BY <1>14, <3>1 DEF ValueAt
    <3>3. j \div 2 \in 0..Pow2[h] - 1
      BY <1>3
    <3>4. u = <<d, j \div 2>>
      BY <3>1, <3>2
    <3> QED
      BY <3>3, <3>4 DEF ValueAt
  <2> QED
    BY <2>1, <2>2
<1>16. With(i, t) /\ d < t => u = <<d, Ancestor(i, d)>>
  <2> SUFFICES ASSUME With(i, t), d < t PROVE u = <<d, Ancestor(i, d)>>
    OBVIOUS
  <2>1. c < t /\ c \in 0..t - 1
    BY <1>5
  <2>2. Odd(i, c)
    BY <1>7, <1>9, <2>1 DEF Phase
  <2>3. w = <<c, Ancestor(i, c)>>
    BY <1>1, <1>5, <1>7, <2>1 DEF Exact
  <2>4. l = <<c, Ancestor(i, c) - 1>>
    BY <1>1, <1>5, <1>7, <1>14, <2>1 DEF Exact
  <2> DEFINE a == Ancestor(i, c)
  <2>5. a \in Nat /\ a % 2 = 1
    BY <1>12, <2>2 DEF Odd
  <2> HIDE DEF a
  <2>6. (a - 1) % 2 = 0 /\ a = (a - 1) + 1 /\ (a - 1) \div 2 = a \div 2 /\ a - 1 # -1
    BY <2>5
  <2>7. /\ l # Garbage /\ l[1] = c /\ l[2] = a - 1
        /\ w[1] = c /\ w[2] = a
    BY <1>5, <2>3, <2>4 DEF Garbage, a
  <2>8. cur.r \div 2 = Pow2[h - l[1] - 1] + l[2] \div 2
    <3>1. h - c - 1 = h - d
      BY <1>3, <1>5
    <3>2. a \div 2 = Ancestor(i, d)
      BY <1>12 DEF a
    <3> HIDE DEF d, l
    <3> QED
      BY <1>13, <2>6, <2>7, <3>1, <3>2
  <2>9. u = <<c + 1, (a - 1) \div 2>>
    <3> HIDE DEF l
    <3> QED
      BY <2>5, <2>6, <2>7, <2>8 DEF HashInner
  <2> QED
    BY <1>12, <2>6, <2>9 DEF a
<1>17. Parent = Node(i, d, u)
  BY <1>5, <1>12, <1>13 DEF Parent, Node
<1>18. Obtain(Node(i, d, u), call = "sign" /\ room, call = "keygen" /\ room)
  <2>1. Parent.height = d /\ Parent.j = Ancestor(i, d)
    BY <1>17 DEF Node
  <2> HIDE DEF d, u
  <2> QED
    BY <1>17, <2>1 DEF Merge
<1>19. room \in BOOLEAN /\ (room <=> Room(d, AuxIdx(d, Ancestor(i, d))))
  BY <1>11 DEF Room, UpTo
<1>20. cur.height = d - 1
  BY <1>5, <1>11
<1> HIDE DEF u, room, d
<1>21. Got(d, t)
  BY <1>1, <1>3, <1>7, <1>11, <1>15, <1>16, <1>18, <1>19, <1>20, Obtained
<1>22. v \in 0..i /\ LowOnes(v, d)
  BY <1>5, <1>8, <1>9 DEF LowOnes, d
<1>23. Bits(stack', v, d)
  BY <1>1, <1>3, <1>5, <1>8, <1>9, BitsMerged DEF d
<1>24. /\ stack' \in Seq(Entries) /\ 1..Len(stack') \subseteq 1..Len(stack)
       /\ \A n \in 1..Len(stack') : stack'[n] = stack[n]
  <2>1. /\ Front(stack) \in Seq(Entries) /\ Len(stack) \in Nat \ {0}
        /\ Len(Front(stack)) = Len(stack) - 1
        /\ \A n \in 1..Len(stack) - 1 : Front(stack)[n] = stack[n]
    BY <1>1, <1>3, FrontFacts
  <2> QED
    BY <1>1, <2>1
<1> QED
  BY <1>1, <1>3, <1>6, <1>7, <1>11, <1>21, <1>22, <1>23, <1>24, GotNode

-----------------------------------------------------------------------------
(* Going on to the next leaf. *)

\* Before the subtree above the leaf signed with, no sibling in it was reached.
LEMMA BeforeSubtree ==
    ASSUME Sizes, NEW x \in Nat, NEW t \in Nat, Ancestor(x, t) < Ancestor(idxLeaf, t),
           NEW k \in 0..h - 1, k < t
    PROVE  Ancestor(x, k) < Sib(k)
<1>1. k \in Nat /\ k + 1 \in Nat /\ idxLeaf \in Nat /\ k + 1 <= t
  BY Pow2Unfolds DEF Sizes
<1>2. /\ Ancestor(x, k) \in Nat /\ Ancestor(x, k + 1) = Ancestor(x, k) \div 2
      /\ Ancestor(x, t) \in Nat /\ Ancestor(idxLeaf, t) \in Nat
      /\ Ancestor(idxLeaf, k + 1) \in Nat /\ Ancestor(x, k + 1) \in Nat
  BY <1>1, AncestorUnfolds
<1>3. Ancestor(x, k + 1) < Ancestor(idxLeaf, k + 1)
  <2>1. Ancestor(idxLeaf, k + 1) <= Ancestor(x, k + 1) => Ancestor(idxLeaf, t) <= Ancestor(x, t)
    BY <1>1, AncestorsOrdered
  <2> QED
    BY <1>2, <2>1
<1>4. Sib(k) \in Nat /\ Sib(k) \div 2 = Ancestor(idxLeaf, k + 1)
  <2>1. Pow2[h - k] \in Nat
    BY Pow2Unfolds DEF Sizes
  <2> QED
    BY <2>1, PathNodes DEF LevelNodes
<1> QED
  BY <1>2, <1>3, <1>4

\* After it all were.
LEMMA AfterSubtree ==
    ASSUME Sizes, NEW x \in Nat, NEW t \in Nat, Ancestor(x, t) > Ancestor(idxLeaf, t),
           NEW k \in 0..h - 1, k < t
    PROVE  Ancestor(x, k) > Sib(k)
<1>1. k \in Nat /\ k + 1 \in Nat /\ idxLeaf \in Nat /\ k + 1 <= t
  BY Pow2Unfolds DEF Sizes
<1>2. /\ Ancestor(x, k) \in Nat /\ Ancestor(x, k + 1) = Ancestor(x, k) \div 2
      /\ Ancestor(x, t) \in Nat /\ Ancestor(idxLeaf, t) \in Nat
      /\ Ancestor(idxLeaf, k + 1) \in Nat /\ Ancestor(x, k + 1) \in Nat
  BY <1>1, AncestorUnfolds
<1>3. Ancestor(x, k + 1) > Ancestor(idxLeaf, k + 1)
  <2>1. Ancestor(x, k + 1) <= Ancestor(idxLeaf, k + 1) => Ancestor(x, t) <= Ancestor(idxLeaf, t)
    BY <1>1, AncestorsOrdered
  <2> QED
    BY <1>2, <2>1
<1>4. Sib(k) \in Nat /\ Sib(k) \div 2 = Ancestor(idxLeaf, k + 1)
  <2>1. Pow2[h - k] \in Nat
    BY Pow2Unfolds DEF Sizes
  <2> QED
    BY <2>1, PathNodes DEF LevelNodes
<1> QED
  BY <1>2, <1>3, <1>4

\* The next leaf has the same ancestor, or the one after it by a carry.
LEMMA NextAncestor ==
    ASSUME NEW x \in Nat, NEW k \in Nat
    PROVE  /\ Ancestor(x, k) \in Nat /\ Ancestor(x + 1, k) \in Nat
           /\ \/ LowOnes(x, k) /\ Ancestor(x + 1, k) = Ancestor(x, k) + 1
              \/ ~LowOnes(x, k) /\ Ancestor(x + 1, k) = Ancestor(x, k)
<1>1. x + 1 \in Nat
  OBVIOUS
<1>2. Ancestor(x, k) \in Nat /\ Ancestor(x + 1, k) \in Nat
  BY <1>1, AncestorUnfolds
<1>3. /\ LowOnes(x, k) => Ancestor(x + 1, k) = Ancestor(x, k) + 1
      /\ ~LowOnes(x, k) => Ancestor(x + 1, k) = Ancestor(x, k)
  BY Carry
<1> QED
  BY <1>2, <1>3

\* Numbers with the same low bits carry alike.
LEMMA SameLowBits ==
    ASSUME NEW x, NEW y, NEW t \in Nat, \A k \in 0..t - 1 : Odd(x, k) <=> Odd(y, k)
    PROVE  \A k \in 0..t : LowOnes(x, k) <=> LowOnes(y, k)
BY DEF LowOnes

\* A leaf that is not skipped before the subtree is in the other half.
LEMMA KeptBefore ==
    ASSUME Sizes, call \in Running, i \in 0..Pow2[h], NEW t \in Nat, Threshold(t),
           Ancestor(i, t) < Ancestor(idxLeaf, t), ~Skipped(i)
    PROVE  ~With(i, h - 1)
<1>1. i \in Nat /\ idxLeaf \in Nat
  BY Pow2Unfolds DEF Sizes
<1>2. Ancestor(i, t) \in Nat /\ Ancestor(idxLeaf, t) \in Nat
  BY <1>1, AncestorUnfolds
<1>3. ~With(i, t)
  BY <1>2 DEF With
<1>4. t # h + 1
  BY <1>3, RootShared
<1>5. Cached(t) /\ call = "sign"
  BY <1>4 DEF Threshold, Running
<1> QED
  BY <1>1, <1>3, <1>4, <1>5, OutsideSkipped

\* The phase after one more leaf went into the stack.
LEMMA PhasePushed ==
    ASSUME Sizes, call \in Running, i \in 0..Pow2[h], ~Skipped(i), i' = i + 1,
           NEW t \in Nat, Threshold(t), NEW v \in Nat, Phase(v, t)
    PROVE  /\ PhaseNext(v + 1, t)
           /\ With(i', t) /\ ~With(i, t) => v = i /\ LowOnes(i, t)
<1>1. i \in Nat /\ idxLeaf \in Nat /\ h - 1 \in Nat /\ i + 1 \in Nat
  BY Pow2Unfolds DEF Sizes
<1>2. /\ Ancestor(i, t) \in Nat /\ Ancestor(i + 1, t) \in Nat
      /\ \/ LowOnes(i, t) /\ Ancestor(i + 1, t) = Ancestor(i, t) + 1
         \/ ~LowOnes(i, t) /\ Ancestor(i + 1, t) = Ancestor(i, t)
  BY <1>1, NextAncestor
<1>3. Ancestor(idxLeaf, t) \in Nat
  BY <1>1, AncestorUnfolds
<1>4. ASSUME Ancestor(i, t) < Ancestor(idxLeaf, t)
      PROVE  ~With(i, h - 1) /\ v = i
  BY <1>4, KeptBefore DEF Phase
<1>5. ASSUME Ancestor(i + 1, t) < Ancestor(idxLeaf, t)
      PROVE  v = i /\ ~With(i, h - 1)
  BY <1>2, <1>3, <1>4, <1>5
<1>6. ASSUME Ancestor(i + 1, t) < Ancestor(idxLeaf, t), With(i + 1, h - 1), NEW k \in 0..h - 2
      PROVE  ~Odd(v + 1, k)
  <2>1. LowOnes(i, h - 1)
    <3>1. \/ LowOnes(i, h - 1)
          \/ Ancestor(i + 1, h - 1) = Ancestor(i, h - 1)
      BY <1>1, NextAncestor
    <3> QED
      BY <1>5, <1>6, <3>1 DEF With
  <2>2. k \in Nat /\ LowOnes(i, k) /\ Odd(i, k)
    BY <1>1, <2>1 DEF LowOnes, Sizes
  <2>3. ~Odd(i + 1, k)
    BY <1>1, <2>2, NextOdd
  <2> QED
    BY <1>5, <1>6, <2>3
<1>7. ASSUME With(i + 1, t), ~With(i, t)
      PROVE  v = i /\ LowOnes(i, t)
  <2>1. Ancestor(i + 1, t) = Ancestor(idxLeaf, t) /\ Ancestor(i, t) # Ancestor(idxLeaf, t)
    BY <1>7 DEF With
  <2>2. LowOnes(i, t) /\ Ancestor(i, t) < Ancestor(idxLeaf, t)
    BY <1>2, <1>3, <2>1
  <2> QED
    BY <1>4, <2>2
<1>8. ASSUME With(i + 1, t), NEW k \in 0..t - 1
      PROVE  Odd(v + 1, k) <=> Odd(i + 1, k)
  <2>1. CASE With(i, t)
    <3>1. \A m \in 0..t - 1 : Odd(v, m) <=> Odd(i, m)
      BY <2>1 DEF Phase
    <3>2. LowOnes(v, k) <=> LowOnes(i, k)
      BY <3>1, SameLowBits
    <3>3. /\ LowOnes(v, k) => (Odd(v + 1, k) <=> ~Odd(v, k))
          /\ ~LowOnes(v, k) => (Odd(v + 1, k) <=> Odd(v, k))
      BY NextOdd
    <3>4. /\ LowOnes(i, k) => (Odd(i + 1, k) <=> ~Odd(i, k))
          /\ ~LowOnes(i, k) => (Odd(i + 1, k) <=> Odd(i, k))
      BY <1>1, NextOdd
    <3>5. Odd(v, k) <=> Odd(i, k)
      BY <3>1
    <3> QED
      BY <3>2, <3>3, <3>4, <3>5
  <2>2. CASE ~With(i, t)
    BY <1>7, <1>8, <2>2
  <2> QED
    BY <2>1, <2>2
<1> QED
  BY <1>5, <1>6, <1>7, <1>8 DEF PhaseNext, With

\* What the next leaf has passed, this one and the nodes up to level c had.
LEMMA PassedBefore ==
    ASSUME NEW x \in Nat, NEW y \in Nat, NEW c \in Nat, NEW t \in Nat, NEW k \in Nat,
           NEW j, j \in Nat,
           k < t, \A m \in 0..t - 1 : Odd(x, m) <=> Odd(y, m),
           LowOnes(x, c), ~Odd(x, c), Ancestor(y + 1, k) > j
    PROVE  Passed(y, c, k, j)
<1>1. /\ Ancestor(y, k) \in Nat
      /\ \/ LowOnes(y, k) /\ Ancestor(y + 1, k) = Ancestor(y, k) + 1
         \/ ~LowOnes(y, k) /\ Ancestor(y + 1, k) = Ancestor(y, k)
  BY NextAncestor
<1>2. LowOnes(x, k) <=> LowOnes(y, k)
  BY SameLowBits
<1>3. LowOnes(x, k) => k <= c
  BY CarryStops
<1> QED
  BY <1>1, <1>2, <1>3 DEF Passed

\* A node with no sibling on the stack is put there, and the loop goes on.
LEMMA PushKeeps ==
    ASSUME LInv, Push
    PROVE  LInv'
<1>1. /\ Basic /\ call \in Running /\ cur # NoCur /\ ~Mergeable
      /\ stack' = Append(stack, [height |-> cur.height, val |-> cur.val])
      /\ cur' = NoCur /\ i' = i + 1
      /\ UNCHANGED <<h, auxSize, call, idxLeaf, aux, out, T1, retCode>>
  BY DEF LInv, Push
<1>2. PICK v \in Nat, t \in Nat : Counted(v) /\ Computing(v, t)
  BY <1>1 DEF LInv
<1>3. /\ TypeOK /\ Sizes /\ h \in Nat /\ Pow2[h] \in Nat \ {0} /\ i \in Nat /\ idxLeaf \in Nat
      /\ stack \in Seq(Entries) /\ i < Pow2[h] /\ i \in 0..Pow2[h] - 1 /\ i \in 0..Pow2[h]
  BY <1>1, CallFacts
<1>30. PICK c \in 0..h : \E w \in ValueAt(c) : cur = Node(i, c, w)
  BY <1>1 DEF Basic, CurrentNode
<1>4. PICK w \in ValueAt(c) : cur = Node(i, c, w)
  BY <1>30
<1>5. c \in Nat /\ cur.height = c /\ cur.val = w
  BY <1>4 DEF Node
<1>6. ~Skipped(i)
  BY <1>1 DEF Basic, CurrentNode
<1>7. Threshold(t) /\ Phase(v, t) /\ Exact(t) /\ PathKept(t)
  BY <1>2 DEF Computing
<1>8. v \in 0..i /\ LowOnes(v, c) /\ Bits(stack, v, c)
  BY <1>1, <1>2, <1>5 DEF Counted, Reached
<1>9. ~Odd(v, c)
  BY <1>1, <1>3, <1>5, <1>8, BitOnTop DEF Mergeable
<1> DEFINE e == [height |-> c, val |-> w]
<1>10. e \in Entries /\ e.height = c /\ e.val = w /\ stack' = Append(stack, e)
  <2>1. w \in Value
    BY <1>3, NodeTyped
  <2> QED
    BY <1>1, <1>5, <2>1 DEF Entries
<1> HIDE DEF e
<1>11. Bits(stack', v + 1, 0)
  BY <1>3, <1>5, <1>8, <1>9, <1>10, BitsPushed
<1>12. PhaseNext(v + 1, t) /\ (With(i', t) /\ ~With(i, t) => v = i /\ LowOnes(i, t))
  BY <1>1, <1>3, <1>6, <1>7, PhasePushed
<1>13. /\ stack' \in Seq(Entries) /\ Len(stack') = Len(stack) + 1
       /\ stack'[Len(stack) + 1] = e
       /\ \A n \in 1..Len(stack) : stack'[n] = stack[n]
  BY <1>3, <1>10
<1>14. With(i, t) => \A k \in 0..t - 1 : Odd(v, k) <=> Odd(i, k)
  BY <1>7 DEF Phase
<1>15. ExactNext(t)
  <2> SUFFICES ASSUME With(i', t), NEW n \in 1..Len(stack'), stack'[n].height < t
               PROVE  stack'[n].val = <<stack'[n].height, Ancestor(i', stack'[n].height) - 1>>
    BY <1>1 DEF ExactNext
  <2>1. CASE With(i, t)
    <3>1. \A k \in 0..t - 1 : Odd(v, k) <=> Odd(i, k)
      BY <1>14, <2>1
    <3>5. \A k \in 0..t : LowOnes(v, k) <=> LowOnes(i, k)
      BY <3>1, SameLowBits
    <3>2. CASE n = Len(stack) + 1
      <4>1. stack'[n] = e /\ c < t
        BY <1>10, <1>13, <3>2
      <4>2. w = <<c, Ancestor(i, c)>>
        BY <1>1, <1>5, <1>7, <2>1, <4>1 DEF Exact
      <4>3. LowOnes(i, c)
        BY <1>5, <1>8, <3>5, <4>1
      <4>4. Ancestor(i, c) \in Nat /\ Ancestor(i + 1, c) = Ancestor(i, c) + 1
        BY <1>3, <1>5, <4>3, NextAncestor
      <4>5. Ancestor(i', c) - 1 = Ancestor(i, c)
        BY <1>1, <4>4
      <4> QED
        BY <1>10, <4>1, <4>2, <4>5
    <3>3. CASE n # Len(stack) + 1
      <4>1. n \in 1..Len(stack) /\ stack'[n] = stack[n]
        BY <1>3, <1>13, <3>3
      <4> DEFINE k == stack[n].height
      <4>2. k \in Nat /\ k >= c /\ Odd(v, k) /\ k < t
        BY <1>8, <4>1 DEF Bits
      <4>3. stack[n].val = <<k, Ancestor(i, k) - 1>>
        BY <1>7, <2>1, <4>1, <4>2 DEF Exact
      <4> HIDE DEF k
      <4>4. k # c
        BY <1>9, <4>2
      <4>5. ~LowOnes(v, k)
        BY <1>5, <1>8, <1>9, <4>2, <4>4, CarryStops
      <4>6. ~LowOnes(i, k)
        BY <3>5, <4>2, <4>5
      <4>7. Ancestor(i + 1, k) = Ancestor(i, k)
        BY <1>3, <4>2, <4>6, NextAncestor
      <4> QED
        BY <1>1, <4>1, <4>3, <4>7 DEF k
    <3> QED
      BY <3>2, <3>3
  <2>2. CASE ~With(i, t)
    <3>1. v = i /\ LowOnes(v, t)
      BY <1>12, <2>2
    <3> DEFINE k == stack'[n].height
    <3>2. k \in Nat /\ Odd(v + 1, k) /\ k < t
      BY <1>11 DEF Bits
    <3> HIDE DEF k
    <3>3. LowOnes(v, k) /\ Odd(v, k)
      BY <3>1, <3>2 DEF LowOnes
    <3>4. ~Odd(v + 1, k)
      BY <3>2, <3>3, NextOdd
    <3> QED
      BY <3>2, <3>4
  <2> QED
    BY <2>1, <2>2
<1>16. PathKeptNext(t)
  <2> SUFFICES ASSUME call = "sign", NEW k \in 0..h - 1, k < t,
                      Passed(i', cur'.height, k, Sib(k))
               PROVE  out'[k] = <<k, Sib(k)>>
    BY DEF PathKeptNext
  <2>1. Sib(k) \in Nat /\ k \in Nat
    <3>1. Pow2[h - k] \in Nat
      <4>1. h - k \in Nat
        BY <1>3
      <4> QED
        BY <4>1, Pow2Unfolds
    <3> QED
      BY <1>3, <3>1, PathNodes DEF LevelNodes
  <2>2. Ancestor(i + 1, k) > Sib(k)
    BY <1>1, <2>1 DEF Passed, NoCur
  <2>3. Passed(i, c, k, Sib(k))
    <3>1. CASE Ancestor(i, k) > Sib(k)
      BY <3>1 DEF Passed
    <3>2. CASE ~(Ancestor(i, k) > Sib(k))
      <4>1. Ancestor(i, k) = Sib(k)
        <5>1. /\ Ancestor(i, k) \in Nat
              /\ \/ Ancestor(i + 1, k) = Ancestor(i, k) + 1
                 \/ Ancestor(i + 1, k) = Ancestor(i, k)
          BY <1>3, <2>1, NextAncestor
        <5> QED
          BY <2>1, <2>2, <3>2, <5>1
      <4>2. With(i, t)
        BY <1>3, <4>1, SiblingShares
      <4> QED
        BY <1>3, <1>5, <1>8, <1>9, <1>14, <2>1, <2>2, <4>2, PassedBefore
    <3> QED
      BY <3>1, <3>2
  <2> QED
    BY <1>1, <1>5, <1>7, <2>3 DEF PathKept
<1>17. call = "keygen" => Fills(aux, i', cur'.height)
  <2> SUFFICES ASSUME call = "keygen", NEW k \in 0..h - 1, NEW j \in LevelNodes(k),
                      Room(k, AuxIdx(k, j)), Passed(i', cur'.height, k, j)
               PROVE  aux[AuxIdx(k, j)] = <<k, j>>
    BY DEF Fills
  <2>1. j \in Nat /\ k \in Nat
    <3>1. Pow2[h - k] \in Nat
      <4>1. h - k \in Nat
        BY <1>3
      <4> QED
        BY <4>1, Pow2Unfolds
    <3> QED
      BY <3>1 DEF LevelNodes
  <2>2. Ancestor(i + 1, k) > j
    BY <1>1, <2>1 DEF Passed, NoCur
  <2>3. t = h + 1 /\ With(i, t) /\ k < t
    BY <1>3, <1>7, RootShared DEF Threshold
  <2>4. Passed(i, c, k, j)
    BY <1>3, <1>5, <1>8, <1>9, <1>14, <2>1, <2>2, <2>3, PassedBefore
  <2> QED
    BY <1>1, <1>5, <2>4 DEF Basic, Fills
<1>18. BasicNext
  <2>1. \A n \in 1..Len(stack') : stack'[n].val \in ValueAt(stack'[n].height)
    <3> SUFFICES ASSUME NEW n \in 1..Len(stack')
                 PROVE  stack'[n].val \in ValueAt(stack'[n].height)
      OBVIOUS
    <3>1. CASE n = Len(stack) + 1
      BY <1>10, <1>13, <3>1
    <3>2. CASE n # Len(stack) + 1
      <4>1. n \in 1..Len(stack) /\ stack'[n] = stack[n]
        BY <1>3, <1>13, <3>2
      <4> QED
        BY <1>1, <4>1 DEF Basic
    <3> QED
      BY <3>1, <3>2
  <2>2. i' \in 0..Pow2[h]
    BY <1>1, <1>3
  <2>3. call \notin {"keyed", "signed", "failed"}
    BY <1>1 DEF Running
  <2>4. /\ aux \in [0..auxSize - 1 -> Value] /\ out \in [0..h - 1 -> Value]
        /\ T1 \in Value /\ retCode \in {"Err", "NoErr", "HashErr"}
    BY <1>3 DEF TypeOK
  <2>5. /\ call = "keygen" => idxLeaf = 0
        /\ call # "keygen" => Holds(aux) /\ T1 = <<h, 0>>
    BY <1>1, <2>3 DEF Basic
  <2> QED
    BY <1>1, <1>13, <1>17, <2>1, <2>2, <2>3, <2>4, <2>5 DEF BasicNext
<1>19. Basic'
  BY <1>1, <1>18, SameKey
<1>20. Counted(v + 1)'
  <2>1. v + 1 \in 0..i' /\ LowOnes(v + 1, 0)
    BY <1>1, <1>3, <1>8 DEF LowOnes
  <2> QED
    BY <1>1, <1>11, <2>1 DEF Counted, Reached
<1>21. Computing(v + 1, t)'
  BY <1>1, <1>7, <1>12, <1>15, <1>16, SameKeyComputing
<1>22. v + 1 \in Nat
  OBVIOUS
<1> QED
  BY <1>19, <1>20, <1>21, <1>22 DEF LInv

\* A leaf is skipped.
LEMMA SkipKeeps ==
    ASSUME LInv, Skip
    PROVE  LInv'
<1>1. /\ Basic /\ call \in Running /\ cur = NoCur /\ i < Pow2[h] /\ Skipped(i) /\ i' = i + 1
      /\ UNCHANGED <<h, auxSize, call, idxLeaf, cur, stack, aux, out, T1, retCode>>
  BY DEF LInv, Skip
<1>2. PICK v \in Nat, t \in Nat : Counted(v) /\ Computing(v, t)
  BY <1>1 DEF LInv
<1>3. /\ TypeOK /\ Sizes /\ h \in Nat /\ Pow2[h] \in Nat \ {0} /\ i \in Nat /\ idxLeaf \in Nat
      /\ stack \in Seq(Entries) /\ i \in 0..Pow2[h]
  BY <1>1, CallFacts
<1>4. call = "sign"
  BY <1>1 DEF Skipped
<1>5. Threshold(t) /\ Phase(v, t) /\ Exact(t) /\ PathKept(t) /\ Cached(t)
  BY <1>2, <1>4 DEF Computing, Threshold
<1>6. ~With(i, t)
  BY <1>1, <1>3, <1>5, InsideNotSkipped
<1>7. With(i, h - 1)
  BY <1>1, <1>3, OtherHalfNotSkipped
<1>8. t \in 0..h - 2 /\ h - 1 \in Nat
  BY <1>3, <1>5, <1>6, RootShared DEF Cached
<1>9. v \in 0..i /\ Bits(stack, v, 0)
  BY <1>1, <1>2 DEF Counted, Reached
<1>10. i + 1 \in Nat
  BY <1>3
<1>11. /\ Ancestor(i, t) \in Nat /\ Ancestor(i + 1, t) \in Nat
       /\ \/ LowOnes(i, t) /\ Ancestor(i + 1, t) = Ancestor(i, t) + 1
          \/ ~LowOnes(i, t) /\ Ancestor(i + 1, t) = Ancestor(i, t)
  BY <1>3, NextAncestor
<1>12. Ancestor(idxLeaf, t) \in Nat
  BY <1>3, AncestorUnfolds
<1>13. ASSUME Ancestor(i + 1, t) <= Ancestor(idxLeaf, t)
       PROVE  Ancestor(i, t) < Ancestor(idxLeaf, t) /\ \A k \in 0..h - 2 : ~Odd(v, k)
  <2>1. Ancestor(i, t) < Ancestor(idxLeaf, t)
    BY <1>6, <1>11, <1>12, <1>13 DEF With
  <2> QED
    BY <1>5, <1>7, <2>1 DEF Phase
<1>14. ASSUME Ancestor(i + 1, t) < Ancestor(idxLeaf, t) PROVE With(i + 1, h - 1)
  <2>1. Ancestor(i + 1, h - 1) <= Ancestor(idxLeaf, h - 1)
    <3>1. Ancestor(i + 1, t) <= Ancestor(idxLeaf, t)
      BY <1>11, <1>12, <1>14
    <3>2. t \in Nat /\ t <= h - 1
      BY <1>3, <1>8
    <3> QED
      BY <1>3, <1>8, <1>10, <3>1, <3>2, AncestorsOrdered
  <2>2. /\ Ancestor(i, h - 1) \in Nat /\ Ancestor(i + 1, h - 1) \in Nat
        /\ \/ Ancestor(i + 1, h - 1) = Ancestor(i, h - 1) + 1
           \/ Ancestor(i + 1, h - 1) = Ancestor(i, h - 1)
    BY <1>3, <1>8, NextAncestor
  <2>3. Ancestor(i, h - 1) = Ancestor(idxLeaf, h - 1)
    BY <1>7 DEF With
  <2> QED
    BY <2>1, <2>2, <2>3 DEF With
<1>15. ASSUME With(i + 1, t), NEW k \in 0..t - 1 PROVE ~Odd(v, k) /\ ~Odd(i + 1, k)
  <2>1. Ancestor(i + 1, t) = Ancestor(idxLeaf, t)
    BY <1>15 DEF With
  <2>2. k \in 0..h - 2 /\ k \in Nat
    BY <1>3, <1>8
  <2>3. ~Odd(v, k)
    BY <1>12, <1>13, <2>1, <2>2
  <2>4. LowOnes(i, t)
    BY <1>6, <1>11, <2>1 DEF With
  <2>5. LowOnes(i, k) /\ Odd(i, k)
    BY <1>8, <2>2, <2>4 DEF LowOnes
  <2> QED
    BY <1>3, <2>2, <2>3, <2>5, NextOdd
<1>16. PhaseNext(v, t)
  BY <1>1, <1>13, <1>11, <1>12, <1>14, <1>15 DEF PhaseNext, With
<1>17. ExactNext(t)
  <2> SUFFICES ASSUME With(i + 1, t), NEW n \in 1..Len(stack), stack[n].height < t
               PROVE  FALSE
    BY <1>1 DEF ExactNext, With
  <2>1. stack[n].height \in Nat /\ Odd(v, stack[n].height)
    BY <1>9 DEF Bits
  <2>2. stack[n].height \in 0..t - 1
    BY <1>8, <2>1
  <2> QED
    BY <1>15, <2>1, <2>2
<1>18. PathKeptNext(t)
  <2> SUFFICES ASSUME NEW k \in 0..h - 1, k < t, Passed(i', cur'.height, k, Sib(k))
               PROVE  out'[k] = <<k, Sib(k)>>
    BY DEF PathKeptNext
  <2>1. Sib(k) \in Nat /\ k \in Nat
    <3>1. Pow2[h - k] \in Nat
      <4>1. h - k \in Nat
        BY <1>3
      <4> QED
        BY <4>1, Pow2Unfolds
    <3> QED
      BY <1>3, <3>1, PathNodes DEF LevelNodes
  <2>2. Ancestor(i + 1, k) > Sib(k)
    BY <1>1, <2>1 DEF Passed, NoCur
  <2>3. /\ Ancestor(i, k) \in Nat
        /\ \/ Ancestor(i + 1, k) = Ancestor(i, k) + 1
           \/ Ancestor(i + 1, k) = Ancestor(i, k)
    BY <1>3, <2>1, NextAncestor
  <2>4. ~(Ancestor(i, t) < Ancestor(idxLeaf, t))
    <3> SUFFICES ASSUME Ancestor(i, t) < Ancestor(idxLeaf, t) PROVE FALSE
      OBVIOUS
    <3>1. Ancestor(i, k) < Sib(k)
      BY <1>3, BeforeSubtree
    <3> QED
      BY <2>1, <2>2, <2>3, <3>1
  <2>5. Ancestor(i, t) > Ancestor(idxLeaf, t)
    BY <1>6, <1>11, <1>12, <2>4 DEF With
  <2>6. Ancestor(i, k) > Sib(k)
    BY <1>3, <2>5, AfterSubtree
  <2> QED
    BY <1>1, <1>4, <1>5, <2>6 DEF PathKept, Passed
<1>19. BasicNext
  <2>1. i' \in 0..Pow2[h]
    BY <1>1, <1>3
  <2>2. /\ aux \in [0..auxSize - 1 -> Value] /\ out \in [0..h - 1 -> Value]
        /\ T1 \in Value /\ retCode \in {"Err", "NoErr", "HashErr"}
    BY <1>3 DEF TypeOK
  <2>3. /\ Holds(aux) /\ T1 = <<h, 0>>
        /\ \A n \in 1..Len(stack) : stack[n].val \in ValueAt(stack[n].height)
    BY <1>1, <1>4 DEF Basic
  <2> QED
    BY <1>1, <1>3, <1>4, <2>1, <2>2, <2>3 DEF BasicNext, Running
<1>20. Basic'
  BY <1>1, <1>19, SameKey
<1>21. Counted(v)'
  BY <1>1, <1>2, <1>3 DEF Counted, Reached
<1>22. Computing(v, t)'
  BY <1>1, <1>5, <1>16, <1>17, <1>18, SameKeyComputing
<1> QED
  BY <1>20, <1>21, <1>22 DEF LInv

-----------------------------------------------------------------------------
(* The end of a call, and the next one. *)

\* A hash call fails: what was there stays.
LEMMA HashFailsKeeps ==
    ASSUME LInv, HashFails
    PROVE  LInv'
<1>1. /\ Basic /\ call \in Running /\ retCode' = "HashErr" /\ call' = "failed"
      /\ UNCHANGED <<h, auxSize, idxLeaf, i, cur, stack, aux, out, T1>>
  BY DEF LInv, HashFails
<1>2. PICK v \in Nat : Counted(v)
  BY <1>1 DEF LInv
<1>3. TypeOK /\ i \in 0..Pow2[h] /\ stack \in Seq(Entries)
  BY <1>1, CallFacts
<1>4. BasicNext
  <2>1. /\ aux \in [0..auxSize - 1 -> Value] /\ out \in [0..h - 1 -> Value]
        /\ T1 \in Value
    BY <1>3 DEF TypeOK
  <2>2. \A n \in 1..Len(stack) : stack[n].val \in ValueAt(stack[n].height)
    BY <1>1 DEF Basic
  <2>3. cur = NoCur \/ /\ i < Pow2[h] /\ ~Skipped(i)
                       /\ \E c \in 0..h : \E w \in ValueAt(c) : cur = Node(i, c, w)
    BY <1>1 DEF Basic, CurrentNode
  <2> QED
    BY <1>1, <1>3, <2>1, <2>2, <2>3 DEF BasicNext, Running
<1>5. Basic'
  BY <1>1, <1>4, SameKey
<1>6. Counted(v)'
  BY <1>1, <1>2 DEF Counted, Reached
<1> QED
  BY <1>1, <1>5, <1>6 DEF LInv, Running

\* After the last leaf the stack of KeyGen is the root, and the buffer is full.
LEMMA FinishKeyGenKeeps ==
    ASSUME LInv, FinishKeyGen
    PROVE  LInv'
<1>1. /\ Basic /\ call = "keygen" /\ call \in Running /\ cur = NoCur /\ i = Pow2[h]
      /\ T1' = stack[1].val /\ call' = "keyed"
      /\ UNCHANGED <<h, auxSize, idxLeaf, i, cur, stack, aux, out, retCode>>
  BY DEF LInv, FinishKeyGen, Running
<1>2. PICK v \in Nat, t \in Nat : Counted(v) /\ Computing(v, t)
  BY <1>1 DEF LInv
<1>3. /\ TypeOK /\ Sizes /\ h \in Nat /\ Pow2[h] \in Nat \ {0} /\ i \in Nat /\ idxLeaf \in Nat
      /\ stack \in Seq(Entries) /\ i \in 0..Pow2[h]
  BY <1>1, CallFacts
<1>4. t = h + 1 /\ With(i, t) /\ Phase(v, t) /\ Exact(t)
  BY <1>1, <1>2, <1>3, RootShared DEF Computing, Threshold
<1>5. \A k \in 0..h : Ancestor(i, k) = Pow2[h - k]
  BY <1>1, <1>3, LevelSize
<1>6. Ancestor(i, h) = 1
  <2>1. h \in 0..h /\ h - h = 0
    BY <1>3
  <2> QED
    BY <1>5, <2>1, Pow2Unfolds
<1>7. Odd(v, h)
  <2>1. h \in 0..t - 1
    BY <1>3, <1>4
  <2>2. Odd(i, h)
    BY <1>6 DEF Odd
  <2> QED
    BY <1>4, <2>1, <2>2 DEF Phase
<1>8. Bits(stack, v, 0)
  BY <1>1, <1>2 DEF Counted, Reached
<1>9. PICK n \in 1..Len(stack) : stack[n].height = h
  BY <1>3, <1>7, <1>8 DEF Bits
<1>10. n = 1
  <2>1. Len(stack) \in Nat /\ 1 \in 1..Len(stack)
    BY <1>3, <1>9
  <2>2. stack[1].height \in 0..h
    <3>1. stack[1] \in Entries
      BY <1>3, <2>1
    <3> QED
      BY <3>1 DEF Entries
  <2>3. 1 < n => stack[1].height > stack[n].height
    BY <1>8, <2>1 DEF Bits
  <2> QED
    BY <1>3, <1>9, <2>1, <2>2, <2>3
<1>11. T1' = <<h, 0>>
  <2>1. stack[n].height < t /\ stack[n].height = h
    BY <1>3, <1>4, <1>9
  <2>2. stack[n].val = <<stack[n].height, Ancestor(i, stack[n].height) - 1>>
    BY <1>4, <2>1 DEF Exact
  <2>3. stack[n].val = <<h, Ancestor(i, h) - 1>>
    BY <2>1, <2>2
  <2> QED
    BY <1>1, <1>6, <1>10, <2>3
<1>12. Holds(aux)
  <2> SUFFICES ASSUME NEW k \in 0..h - 1, NEW j \in LevelNodes(k), Room(k, AuxIdx(k, j))
               PROVE  aux[AuxIdx(k, j)] = <<k, j>>
    BY DEF Holds
  <2>1. Ancestor(i, k) = Pow2[h - k] /\ k \in 0..h /\ h - k \in Nat
    BY <1>3, <1>5
  <2>2. Pow2[h - k] > j
    <3>1. Pow2[h - k] \in Nat
      BY <2>1, Pow2Unfolds
    <3> QED
      BY <3>1 DEF LevelNodes
  <2> QED
    BY <1>1, <2>1, <2>2 DEF Basic, Fills, Passed
<1>13. <<h, 0>> \in Value
  BY <1>3 DEF Value
<1>14. BasicNext
  <2>1. /\ aux \in [0..auxSize - 1 -> Value] /\ out \in [0..h - 1 -> Value]
        /\ retCode \in {"Err", "NoErr", "HashErr"}
    BY <1>3 DEF TypeOK
  <2>2. \A m \in 1..Len(stack) : stack[m].val \in ValueAt(stack[m].height)
    BY <1>1 DEF Basic
  <2> QED
    BY <1>1, <1>3, <1>11, <1>12, <1>13, <2>1, <2>2 DEF BasicNext, Running
<1>15. Basic'
  BY <1>1, <1>14, SameKey
<1>16. Counted(v)'
  BY <1>1, <1>2 DEF Counted, Reached
<1> QED
  BY <1>1, <1>15, <1>16 DEF LInv, Running

\* At the end of a signature each sibling was computed or is in the buffer.
LEMMA FinishSignKeeps ==
    ASSUME LInv, FinishSign
    PROVE  LInv'
<1>1. /\ Basic /\ call = "sign" /\ call \in Running /\ cur = NoCur /\ i = Pow2[h]
      /\ call' = "signed"
      /\ UNCHANGED <<h, auxSize, idxLeaf, i, cur, stack, aux, T1, retCode>>
  BY DEF LInv, FinishSign, Running
<1>2. PICK v \in Nat, t \in Nat : Counted(v) /\ Computing(v, t)
  BY <1>1 DEF LInv
<1>3. /\ TypeOK /\ Sizes /\ h \in Nat /\ Pow2[h] \in Nat \ {0} /\ i \in Nat /\ idxLeaf \in Nat
      /\ stack \in Seq(Entries) /\ i \in 0..Pow2[h]
  BY <1>1, CallFacts
<1>4. out' = [k \in 0..h - 1 |->
                 IF auxSize > 0 /\ Below(AuxIdx(k, Sib(k))) THEN aux[AuxIdx(k, Sib(k))]
                 ELSE out[k]]
  BY DEF FinishSign, Sib
<1>5. Holds(aux) /\ T1 = <<h, 0>>
  BY <1>1 DEF Basic
<1>6. ASSUME NEW k \in 0..h - 1 PROVE out'[k] = <<k, Sib(k)>> /\ <<k, Sib(k)>> \in Value
  <2>1. Sib(k) \in LevelNodes(k) /\ AuxIdx(k, Sib(k)) \in Nat
    BY <1>3, PathNodes, PlacesOrdered
  <2>2. k \in Nat /\ k \in 0..h /\ h - k \in Nat /\ auxSize \in Nat /\ Pow2[h - k] \in Nat
    <3>1. k \in Nat /\ k \in 0..h /\ h - k \in Nat /\ auxSize \in Nat
      BY <1>3 DEF Sizes
    <3> QED
      BY <3>1, Pow2Unfolds
  <2>3. Sib(k) \in 0..Pow2[h] - 1
    <3>1. Pow2[h - k] <= Pow2[h]
      <4>1. h - k < h => Pow2[h - k] < Pow2[h]
        BY <1>3, <2>2, PowersGrow
      <4>2. h - k < h \/ h - k = h
        BY <1>3, <2>2
      <4> QED
        BY <1>3, <2>2, <4>1, <4>2
    <3> QED
      BY <1>3, <2>1, <2>2, <3>1 DEF LevelNodes
  <2>4. <<k, Sib(k)>> \in Value
    BY <2>2, <2>3 DEF Value
  <2>5. CASE Below(AuxIdx(k, Sib(k)))
    <3>1. auxSize > 0 /\ Room(k, AuxIdx(k, Sib(k)))
      BY <2>1, <2>2, <2>5 DEF Below, UpTo, Room
    <3>2. aux[AuxIdx(k, Sib(k))] = <<k, Sib(k)>>
      BY <1>5, <2>1, <3>1 DEF Holds
    <3> QED
      BY <1>4, <2>5, <2>4, <3>1, <3>2
  <2>6. CASE ~Below(AuxIdx(k, Sib(k)))
    <3>1. Cached(t) /\ PathKept(t)
      BY <1>1, <1>2 DEF Computing, Threshold
    <3>2. k < t
      BY <1>3, <2>2, <2>6, <3>1 DEF Cached
    <3>3. Ancestor(i, k) = Pow2[h - k]
      BY <1>1, <1>3, <2>2, LevelSize
    <3>4. Passed(i, cur.height, k, Sib(k))
      BY <2>1, <2>2, <3>3 DEF Passed, LevelNodes
    <3>5. out[k] = <<k, Sib(k)>>
      BY <1>1, <3>1, <3>2, <3>4 DEF PathKept
    <3> QED
      BY <1>4, <2>6, <2>4, <3>5
  <2> QED
    BY <2>5, <2>6
<1>7. out' \in [0..h - 1 -> Value]
  BY <1>4, <1>6
<1>8. BasicNext
  <2>1. /\ aux \in [0..auxSize - 1 -> Value] /\ T1 \in Value
        /\ retCode \in {"Err", "NoErr", "HashErr"}
    BY <1>3 DEF TypeOK
  <2>2. \A m \in 1..Len(stack) : stack[m].val \in ValueAt(stack[m].height)
    BY <1>1 DEF Basic
  <2> QED
    BY <1>1, <1>3, <1>5, <1>6, <1>7, <2>1, <2>2 DEF BasicNext, Running
<1>9. Basic'
  BY <1>1, <1>8, SameKey
<1>10. Counted(v)'
  BY <1>1, <1>2 DEF Counted, Reached
<1> QED
  BY <1>1, <1>9, <1>10 DEF LInv, Running

\* Zero has no bits.
LEMMA ZeroBits ==
    \A k \in Nat : Ancestor(0, k) = 0 /\ ~Odd(0, k)
<1> SUFFICES ASSUME NEW k \in Nat PROVE Ancestor(0, k) = 0 /\ ~Odd(0, k)
  OBVIOUS
<1>1. k \in 0..k /\ k - k = 0 /\ Pow2[0] = 1 /\ 0 < Pow2[k]
  BY Pow2Unfolds
<1>2. Ancestor(0, k) < 1
  BY <1>1, LevelSize
<1>3. Ancestor(0, k) \in Nat
  BY AncestorUnfolds
<1> QED
  BY <1>2, <1>3 DEF Odd

\* At the first leaf, with an empty stack, nothing was passed.
LEMMA FreshCall ==
    ASSUME Sizes, i = 0, cur = NoCur, stack = <<>>, NEW t \in Nat, Threshold(t)
    PROVE  Counted(0) /\ Computing(0, t)
<1>1. idxLeaf \in Nat
  BY Pow2Unfolds DEF Sizes
<1>2. Counted(0)
  <2>1. Bits(stack, 0, 0)
    BY ZeroBits DEF Bits
  <2> QED
    BY <2>1 DEF Counted, Reached, LowOnes
<1>3. Phase(0, t)
  <2>1. ASSUME NEW k \in 0..h - 2 PROVE ~Odd(0, k)
    BY ZeroBits DEF Sizes
  <2> QED
    BY <2>1 DEF Phase
<1>4. Exact(t)
  BY DEF Exact
<1>5. PathKept(t)
  <2> SUFFICES ASSUME NEW k \in 0..h - 1, Passed(i, cur.height, k, Sib(k)) PROVE FALSE
    BY DEF PathKept
  <2>1. k \in Nat /\ h - k \in Nat
    BY DEF Sizes
  <2>2. Sib(k) \in Nat
    <3>1. Pow2[h - k] \in Nat
      BY <2>1, Pow2Unfolds
    <3> QED
      BY <3>1, PathNodes DEF LevelNodes
  <2>3. Ancestor(i, k) = 0
    BY <2>1, ZeroBits
  <2> QED
    BY <2>1, <2>2, <2>3 DEF Passed, NoCur
<1> QED
  BY <1>2, <1>3, <1>4, <1>5 DEF Computing

\* A signature can begin, whichever leaf it is for.
LEMMA SignStarts ==
    ASSUME Sizes, i = 0, cur = NoCur, stack = <<>>, call = "sign"
    PROVE  \E v \in Nat, t \in Nat : Counted(v) /\ Computing(v, t)
<1>1. PICK t \in 0..h + 1 : Cached(t)
  BY CachedExists
<1>2. t \in Nat /\ Threshold(t)
  BY <1>1 DEF Threshold, Sizes
<1>3. Counted(0) /\ Computing(0, t)
  BY <1>2, FreshCall
<1> QED
  BY <1>2, <1>3

\* So it can after a step.
LEMMA SignStartsNext ==
    (/\ Sizes /\ i = 0 /\ cur = NoCur /\ stack = <<>> /\ call = "sign")' =>
        (\E v \in Nat, t \in Nat : Counted(v) /\ Computing(v, t))'
<1>1. Sizes /\ i = 0 /\ cur = NoCur /\ stack = <<>> /\ call = "sign" =>
         \E v \in Nat, t \in Nat : Counted(v) /\ Computing(v, t)
  BY SignStarts
<1> QED
  BY <1>1, PTL

\* The next signature finds the buffer as KeyGen left it.
LEMMA BeginSignKeeps ==
    ASSUME LInv, BeginSign
    PROVE  LInv'
<1>1. /\ Basic /\ call = "keyed" /\ call' = "sign" /\ i' = 0 /\ stack' = <<>>
      /\ cur = NoCur /\ retCode' = "Err" /\ idxLeaf' \in 0..Pow2[h] - 1
      /\ UNCHANGED <<h, auxSize, cur, aux, out, T1>>
  BY DEF LInv, BeginSign, Basic
<1>2. TypeOK /\ Sizes /\ Pow2[h] \in Nat
  BY <1>1, CallFacts
<1>3. Sizes'
  BY <1>1, <1>2 DEF Sizes
<1>4. TypeOK'
  <2>1. Value' = Value
    BY <1>1 DEF Value
  <2>2. i' \in 0..Pow2[h] /\ stack' \in Seq([height : 0..h, val : Value])
    BY <1>1, <1>2
  <2> QED
    BY <1>1, <1>2, <2>1, <2>2 DEF TypeOK, Running
<1>5. Basic'
  <2>1. Holds(aux)'
    BY <1>1 DEF Basic, Holds, Room, Below, UpTo, AuxIdx, LevelNodes
  <2>2. (\A n \in 1..Len(stack) : stack[n].val \in ValueAt(stack[n].height))'
    BY <1>1
  <2>3. T1 = <<h, 0>>
    BY <1>1 DEF Basic
  <2> QED
    BY <1>1, <1>4, <2>1, <2>2, <2>3 DEF Basic, CurrentNode
<1>6. (\E v \in Nat, t \in Nat : Counted(v) /\ Computing(v, t))'
  BY <1>1, <1>3, SignStartsNext
<1> QED
  BY <1>5, <1>6 DEF LInv

\* KeyGen begins with nothing.
LEMMA LInvInitially ==
    ASSUME Init
    PROVE  LInv
<1>1. /\ h \in Heights /\ auxSize \in AuxSizes /\ call = "keygen" /\ idxLeaf = 0 /\ i = 0
      /\ cur = NoCur /\ stack = <<>> /\ aux = [k \in 0..auxSize - 1 |-> Garbage]
      /\ out = [k \in 0..h - 1 |-> Garbage] /\ T1 = Garbage /\ retCode = "Err"
  BY DEF Init
<1>2. h \in Nat \ {0} /\ auxSize \in Nat
  BY <1>1, ConstantsAssumption
<1>3. Pow2[h] \in Nat \ {0}
  BY <1>2, Pow2Unfolds
<1>4. Sizes
  BY <1>1, <1>2, <1>3 DEF Sizes
<1>5. TypeOK
  <2>1. Garbage \in Value
    BY DEF Value
  <2>2. aux \in [0..auxSize - 1 -> Value] /\ out \in [0..h - 1 -> Value]
    BY <1>1, <2>1
  <2>3. stack \in Seq([height : 0..h, val : Value])
    BY <1>1
  <2> QED
    BY <1>1, <1>3, <2>1, <2>2, <2>3 DEF TypeOK, Running
<1>6. Fills(aux, i, cur.height)
  <2> SUFFICES ASSUME NEW k \in 0..h - 1, NEW j \in LevelNodes(k), Passed(i, cur.height, k, j)
               PROVE  FALSE
    BY DEF Fills
  <2>1. k \in Nat /\ h - k \in Nat
    BY <1>2
  <2>2. j \in Nat
    BY <2>1, Pow2Unfolds DEF LevelNodes
  <2>3. Ancestor(i, k) = 0
    BY <1>1, <2>1, ZeroBits
  <2> QED
    BY <1>1, <2>1, <2>2, <2>3 DEF Passed, NoCur
<1>7. Basic
  <2>1. \A n \in 1..Len(stack) : stack[n].val \in ValueAt(stack[n].height)
    BY <1>1
  <2> QED
    BY <1>1, <1>5, <1>6, <2>1 DEF Basic, CurrentNode
<1>8. h + 1 \in Nat /\ Threshold(h + 1)
  BY <1>1, <1>2 DEF Threshold
<1>9. Counted(0) /\ Computing(0, h + 1)
  BY <1>1, <1>4, <1>8, FreshCall
<1> QED
  BY <1>7, <1>8, <1>9 DEF LInv

\* A step that changes nothing keeps it.
LEMMA LInvStutters ==
    ASSUME LInv, UNCHANGED vars
    PROVE  LInv'
<1>1. Basic /\ UNCHANGED <<h, auxSize, call, idxLeaf, i, cur, stack, aux, out, T1, retCode>>
  BY DEF LInv, vars
<1>2. PICK v \in Nat, t \in Nat : Counted(v) /\ (call \in Running => Computing(v, t))
  BY DEF LInv
<1>3. TypeOK /\ i \in 0..Pow2[h] /\ stack \in Seq(Entries)
  BY <1>1, CallFacts
<1>4. BasicNext
  <2>1. /\ aux \in [0..auxSize - 1 -> Value] /\ out \in [0..h - 1 -> Value]
        /\ T1 \in Value /\ retCode \in {"Err", "NoErr", "HashErr"}
        /\ call \in Running \cup {"keyed", "signed", "failed"}
    BY <1>3 DEF TypeOK
  <2>2. /\ \A n \in 1..Len(stack) : stack[n].val \in ValueAt(stack[n].height)
        /\ call \in {"keyed", "signed"} => cur = NoCur
        /\ call = "keygen" => Fills(aux, i, cur.height) /\ idxLeaf = 0
        /\ call \notin {"keygen", "failed"} => Holds(aux) /\ T1 = <<h, 0>>
        /\ call = "signed" => \A k \in 0..h - 1 : out[k] = <<k, Sib(k)>>
    BY <1>1 DEF Basic
  <2>3. cur = NoCur \/ /\ i < Pow2[h] /\ ~Skipped(i)
                       /\ \E c \in 0..h : \E w \in ValueAt(c) : cur = Node(i, c, w)
    BY <1>1 DEF Basic, CurrentNode, Skipped, Running
  <2> QED
    BY <1>1, <1>3, <2>1, <2>2, <2>3 DEF BasicNext
<1>5. Basic'
  BY <1>1, <1>4, SameKey
<1>6. Counted(v)'
  BY <1>1, <1>2 DEF Counted, Reached
<1>7. ASSUME call \in Running PROVE Computing(v, t)'
  <2>1. Threshold(t) /\ Phase(v, t) /\ Exact(t) /\ PathKept(t)
    BY <1>2, <1>7 DEF Computing
  <2>2. PhaseNext(v, t) /\ ExactNext(t) /\ PathKeptNext(t)
    BY <1>1, <2>1 DEF Phase, PhaseNext, Exact, ExactNext, PathKept, PathKeptNext
  <2> QED
    BY <1>1, <2>1, <2>2, SameKeyComputing
<1> QED
  BY <1>1, <1>5, <1>6, <1>7 DEF LInv

\* Every step of the tree's function keeps the invariant.
LEMMA LInvStep ==
    ASSUME LInv, [Next]_vars
    PROVE  LInv'
<1>1. CASE Skip
  BY <1>1, SkipKeeps
<1>2. CASE Leaf
  BY <1>2, LeafKeeps
<1>3. CASE Merge
  BY <1>3, MergeKeeps
<1>4. CASE Push
  BY <1>4, PushKeeps
<1>5. CASE FinishKeyGen
  BY <1>5, FinishKeyGenKeeps
<1>6. CASE FinishSign
  BY <1>6, FinishSignKeeps
<1>7. CASE HashFails
  BY <1>7, HashFailsKeeps
<1>8. CASE BeginSign
  BY <1>8, BeginSignKeeps
<1>9. CASE UNCHANGED vars
  BY <1>9, LInvStutters
<1> QED
  BY <1>1, <1>2, <1>3, <1>4, <1>5, <1>6, <1>7, <1>8, <1>9 DEF Next

-----------------------------------------------------------------------------
(* What it implies. *)

\* With as many leaves on the stack as there are, the heights of its nodes are
\* those of the set bits, and no more than h are set.
LEMMA LInvStackFits ==
    ASSUME LInv
    PROVE  StackFits
<1>1. Basic
  BY DEF LInv
<1>2. /\ TypeOK /\ Sizes /\ h \in Nat /\ Pow2[h] \in Nat \ {0} /\ i \in Nat
      /\ stack \in Seq(Entries) /\ i \in 0..Pow2[h]
  BY <1>1, CallFacts
<1>3. PICK v \in Nat : Counted(v)
  BY DEF LInv
<1>4. v \in 0..Pow2[h] /\ Bits(stack, v, Reached)
  BY <1>2, <1>3 DEF Counted
<1>5. ASSUME NEW n \in 1..Len(stack)
      PROVE  stack[n].height \in 0..h /\ Odd(v, stack[n].height)
  <2>1. stack[n] \in Entries
    BY <1>2
  <2> QED
    BY <1>4, <2>1 DEF Entries, Bits
<1>6. h - h = 0 /\ h \in 0..h /\ Pow2[0] = 1 /\ h # 0
  BY <1>2, Pow2Unfolds DEF Sizes
<1>7. CASE v < Pow2[h]
  <2>1. Ancestor(v, h) < 1
    BY <1>2, <1>6, <1>7, LevelSize
  <2>2. Ancestor(v, h) \in Nat
    BY <1>2, AncestorUnfolds
  <2>3. ~Odd(v, h)
    BY <2>1, <2>2 DEF Odd
  <2>4. \A n \in 1..Len(stack) : stack[n].height \in 0..h - 1
    <3> SUFFICES ASSUME NEW n \in 1..Len(stack) PROVE stack[n].height \in 0..h - 1
      OBVIOUS
    <3>1. stack[n].height \in 0..h /\ stack[n].height # h
      BY <1>5, <2>3
    <3> QED
      BY <1>2, <3>1
  <2>5. \A k, m \in 1..Len(stack) : k < m => stack[k].height > stack[m].height
    BY <1>4 DEF Bits
  <2> QED
    BY <1>2, <2>4, <2>5, FewHeights DEF StackFits
<1>8. CASE v = Pow2[h]
  <2>1. \A n \in 1..Len(stack) : stack[n].height = h
    <3> SUFFICES ASSUME NEW n \in 1..Len(stack) PROVE stack[n].height = h
      OBVIOUS
    <3> DEFINE k == stack[n].height
    <3>1. k \in 0..h /\ Odd(v, k)
      BY <1>5
    <3> HIDE DEF k
    <3>2. Ancestor(v, k) = Pow2[h - k]
      BY <1>2, <1>8, <3>1, LevelSize
    <3>3. CASE k # h
      <4> DEFINE m == h - k - 1
      <4>1. m \in Nat /\ h - k = m + 1
        BY <1>2, <3>1, <3>3
      <4> HIDE DEF m
      <4>2. Pow2[h - k] = 2 * Pow2[m] /\ Pow2[m] \in Nat
        BY <4>1, Pow2Unfolds
      <4> QED
        BY <3>1, <3>2, <4>2 DEF Odd
    <3> QED
      BY <3>3 DEF k
  <2>2. ~(2 <= Len(stack))
    <3> SUFFICES ASSUME 2 <= Len(stack) PROVE FALSE
      OBVIOUS
    <3>1. 1 \in 1..Len(stack) /\ 2 \in 1..Len(stack)
      BY <1>2
    <3>2. stack[1].height > stack[2].height
      BY <1>4, <3>1 DEF Bits
    <3> QED
      BY <1>2, <2>1, <3>1, <3>2
  <2> QED
    BY <1>2, <1>6, <2>2 DEF StackFits
<1> QED
  BY <1>2, <1>4, <1>7, <1>8

\* Once the key is there the buffer is what a signature takes it for.
LEMMA LInvAuxHolds ==
    ASSUME LInv
    PROVE  AuxHoldsNodes
<1>1. call \notin {"keygen", "failed"} => Holds(aux)
  BY DEF LInv, Basic
<1> QED
  BY <1>1 DEF AuxHoldsNodes, Holds, Room, LevelNodes

\* The hash of two siblings is their parent.
LEMMA SiblingsHashed ==
    ASSUME NEW m \in Nat, NEW a \in Nat, NEW r, a % 2 = 0,
           r = Pow2[h - m - 1] + a \div 2
    PROVE  HashInner(r, <<m, a>>, <<m, a + 1>>) = <<m + 1, a \div 2>>
BY DEF HashInner, Garbage

\* Numbering from the root, the leaves come after the nodes above them.
LEMMA NodeNumbers ==
    ASSUME NEW n \in Nat, NEW x \in Nat
    PROVE  \A k \in 0..n : Ancestor(Pow2[n] + x, k) = Pow2[n - k] + Ancestor(x, k)
<1> DEFINE T == {k \in Nat : k <= n => Ancestor(Pow2[n] + x, k) = Pow2[n - k] + Ancestor(x, k)}
<1>0. Pow2[n] + x \in Nat
  BY Pow2Unfolds
<1>1. 0 \in T
  <2>1. n - 0 = n
    OBVIOUS
  <2>2. Ancestor(Pow2[n] + x, 0) = Pow2[n] + x /\ Ancestor(x, 0) = x
    BY <1>0, AncestorUnfolds
  <2> QED
    BY <2>1, <2>2
<1>2. ASSUME NEW k \in Nat, k \in T PROVE k + 1 \in T
  <2> SUFFICES ASSUME k + 1 <= n
               PROVE  Ancestor(Pow2[n] + x, k + 1) = Pow2[n - (k + 1)] + Ancestor(x, k + 1)
    OBVIOUS
  <2> DEFINE m == n - (k + 1)
  <2>1. m \in Nat /\ n - k = m + 1 /\ k <= n
    OBVIOUS
  <2>2. Ancestor(Pow2[n] + x, k) = Pow2[n - k] + Ancestor(x, k)
    BY <1>2, <2>1
  <2> HIDE DEF m
  <2>3. Pow2[m] \in Nat /\ Pow2[n - k] = 2 * Pow2[m]
    BY <2>1, Pow2Unfolds
  <2>4. /\ Ancestor(Pow2[n] + x, k + 1) = Ancestor(Pow2[n] + x, k) \div 2
        /\ Ancestor(x, k) \in Nat /\ Ancestor(x, k + 1) = Ancestor(x, k) \div 2
    BY <1>0, AncestorUnfolds
  <2> QED
    BY <2>2, <2>3, <2>4 DEF m
<1>3. Nat \subseteq T
  <2> HIDE DEF T
  <2> QED BY <1>1, <1>2, AllNumbers
<1> QED
  BY <1>3

\* The right path leads to the root.
LEMMA PathLeadsToRoot ==
    ASSUME Sizes, NEW path, \A k \in 0..h - 1 : path[k] = <<k, Sib(k)>>
    PROVE  RootFrom(idxLeaf, path) = <<h, 0>>
<1> DEFINE q == idxLeaf
           Number(k) == (Pow2[h] + q) \div Pow2[k - 1]
           Up(f, k) ==
               IF k = 0 THEN HashLeaf(Pow2[h] + q, q)
               ELSE IF Number(k) % 2 = 1
                    THEN HashInner(Number(k) \div 2, path[k - 1], f[k - 1])
                    ELSE HashInner(Number(k) \div 2, f[k - 1], path[k - 1])
           tmp == CHOOSE f : f = [k \in 0..h |-> Up(f, k)]
           g == [k \in 0..h |-> <<k, Ancestor(q, k)>>]
<1>1. h \in Nat /\ q \in Nat /\ Pow2[h] \in Nat /\ q < Pow2[h]
  BY Pow2Unfolds DEF Sizes
<1>2. RootFrom(q, path) = tmp[h]
  BY DEF RootFrom
<1>3. ASSUME NEW f, NEW k \in 0..h, k # 0, f[k - 1] = <<k - 1, Ancestor(q, k - 1)>>
      PROVE  Up(f, k) = <<k, Ancestor(q, k)>>
  <2> DEFINE m == k - 1
             a == Ancestor(q, m)
             s == Sib(m)
  <2>1. m \in Nat /\ m \in 0..h /\ m \in 0..h - 1 /\ k = m + 1 /\ h - m - 1 \in Nat
        /\ h - m = h - m - 1 + 1
    BY <1>1, <1>3
  <2> HIDE DEF m
  <2>2. Number(k) = Pow2[h - m] + a
    <3>1. Number(k) = Ancestor(Pow2[h] + q, m)
      BY <2>1 DEF Ancestor, m
    <3> QED
      BY <1>1, <2>1, <3>1, NodeNumbers
  <2>3. Pow2[h - m] = 2 * Pow2[h - m - 1] /\ Pow2[h - m - 1] \in Nat
    BY <2>1, Pow2Unfolds
  <2>4. a \in Nat /\ Ancestor(q, k) = a \div 2
    BY <1>1, <2>1, AncestorUnfolds
  <2>5. path[m] = <<m, s>> /\ f[m] = <<m, a>> /\ s = Sibling(a)
    BY <1>3, <2>1 DEF Sib, m
  <2>6. Up(f, k) = IF Number(k) % 2 = 1
                   THEN HashInner(Number(k) \div 2, path[m], f[m])
                   ELSE HashInner(Number(k) \div 2, f[m], path[m])
    BY <1>3 DEF m
  <2> DEFINE num == Number(k)
             p == Pow2[h - m - 1]
  <2> HIDE DEF a, s, num, p, Up, Number
  <2>7. num = 2 * p + a /\ p \in Nat
    BY <2>2, <2>3 DEF num, p
  <2>8. num % 2 = a % 2 /\ num \div 2 = p + a \div 2
    BY <2>4, <2>7
  <2>9. CASE a % 2 = 1
    <3>1. s = a - 1
      BY <2>4, <2>5, <2>9 DEF Sibling
    <3>2. s \in Nat /\ s % 2 = 0 /\ s + 1 = a /\ s \div 2 = a \div 2
      BY <2>4, <2>9, <3>1
    <3>3. HashInner(num \div 2, <<m, s>>, <<m, s + 1>>) = <<m + 1, s \div 2>>
      BY <2>1, <2>8, <3>2, SiblingsHashed DEF p
    <3>4. Up(f, k) = HashInner(num \div 2, path[m], f[m])
      BY <2>6, <2>8, <2>9 DEF num
    <3> QED
      BY <2>1, <2>4, <2>5, <3>2, <3>3, <3>4
  <2>10. CASE a % 2 = 0
    <3>1. s = a + 1
      BY <2>4, <2>5, <2>10 DEF Sibling
    <3>2. HashInner(num \div 2, <<m, a>>, <<m, a + 1>>) = <<m + 1, a \div 2>>
      BY <2>1, <2>4, <2>8, <2>10, SiblingsHashed DEF p
    <3>3. Up(f, k) = HashInner(num \div 2, f[m], path[m])
      BY <2>6, <2>8, <2>10 DEF num
    <3> QED
      BY <2>1, <2>4, <2>5, <3>1, <3>2, <3>3
  <2> QED
    BY <2>4, <2>9, <2>10
<1>4. ASSUME NEW f PROVE Up(f, 0) = <<0, Ancestor(q, 0)>>
  BY <1>1, AncestorUnfolds DEF HashLeaf
<1> HIDE DEF q, Up
<1>5. g = [k \in 0..h |-> Up(g, k)]
  <2> SUFFICES ASSUME NEW k \in 0..h PROVE g[k] = Up(g, k)
    OBVIOUS
  <2>1. CASE k = 0
    BY <1>4, <2>1
  <2>2. CASE k # 0
    <3>1. k - 1 \in 0..h
      BY <1>1, <2>2
    <3>2. g[k - 1] = <<k - 1, Ancestor(q, k - 1)>> /\ g[k] = <<k, Ancestor(q, k)>>
      BY <3>1
    <3> HIDE DEF g
    <3> QED
      BY <1>3, <2>2, <3>2
  <2> QED
    BY <2>1, <2>2
<1> HIDE DEF g
<1>6. tmp = [k \in 0..h |-> Up(tmp, k)]
  BY <1>5
<1> HIDE DEF tmp
<1> DEFINE T == {k \in Nat : k <= h => tmp[k] = <<k, Ancestor(q, k)>>}
<1>7. 0 \in T
  <2>1. 0 \in 0..h
    BY <1>1
  <2>2. tmp[0] = Up(tmp, 0)
    BY <1>6, <2>1
  <2> QED
    BY <1>4, <2>2
<1>8. ASSUME NEW k \in Nat, k \in T PROVE k + 1 \in T
  <2> SUFFICES ASSUME k + 1 <= h PROVE tmp[k + 1] = <<k + 1, Ancestor(q, k + 1)>>
    OBVIOUS
  <2>1. k + 1 \in 0..h /\ k <= h /\ k + 1 - 1 = k /\ k + 1 # 0
    BY <1>1
  <2>2. tmp[k + 1] = Up(tmp, k + 1)
    BY <1>6, <2>1
  <2>3. tmp[k + 1 - 1] = <<k + 1 - 1, Ancestor(q, k + 1 - 1)>>
    BY <1>8, <2>1
  <2> QED
    BY <1>3, <2>1, <2>2, <2>3
<1>9. Nat \subseteq T
  <2> HIDE DEF T
  <2> QED BY <1>7, <1>8, AllNumbers
<1>10. tmp[h] = <<h, Ancestor(q, h)>>
  BY <1>1, <1>9
<1>11. Ancestor(q, h) = 0
  <2>1. h - h = 0 /\ h \in 0..h /\ Pow2[0] = 1
    BY <1>1, Pow2Unfolds
  <2>2. Ancestor(q, h) < 1
    BY <1>1, <2>1, LevelSize
  <2>3. Ancestor(q, h) \in Nat
    BY <1>1, AncestorUnfolds
  <2> QED
    BY <2>2, <2>3
<1> QED
  BY <1>2, <1>10, <1>11 DEF q

\* A finished signature verifies.
LEMMA LInvSignatureVerifies ==
    ASSUME LInv
    PROVE  SignatureVerifies
<1> SUFFICES ASSUME call = "signed" PROVE T1 # Garbage /\ RootFrom(idxLeaf, out) = T1
  BY DEF SignatureVerifies
<1>1. Basic /\ T1 = <<h, 0>> /\ \A k \in 0..h - 1 : out[k] = <<k, Sib(k)>>
  BY DEF LInv, Basic
<1>2. Sizes /\ h \in Nat
  BY <1>1, CallFacts
<1>3. RootFrom(idxLeaf, out) = <<h, 0>>
  BY <1>1, <1>2, PathLeadsToRoot
<1> QED
  BY <1>1, <1>2, <1>3 DEF Garbage

-----------------------------------------------------------------------------

\* The invariant holds in every state of a key generation and a signature.
THEOREM TreeInvariant == Spec => []LInv
<1>1. Init => LInv
  BY LInvInitially
<1>2. LInv /\ [Next]_vars => LInv'
  BY LInvStep
<1> QED
  BY <1>1, <1>2, PTL DEF Spec

\* The variables keep their types, for every height and size of the buffer.
THEOREM TreeTypes == Spec => []TypeOK
<1>1. LInv => TypeOK
  BY DEF LInv, Basic
<1> QED
  BY <1>1, TreeInvariant, PTL

\* The stack of cp_lms_tree_hash never outgrows the h * m bytes the caller of
\* the size function was told to give, though leaves are skipped.
THEOREM StackAlwaysFits == Spec => []StackFits
<1>1. LInv => StackFits
  BY LInvStackFits
<1> QED
  BY <1>1, TreeInvariant, PTL

\* KeyGen leaves in the extra buffer every node a signature reads from it,
\* whichever of the two bounds the code reads it under.
THEOREM AuxAlwaysHoldsNodes == Spec => []AuxHoldsNodes
<1>1. LInv => AuxHoldsNodes
  BY LInvAuxHolds
<1> QED
  BY <1>1, TreeInvariant, PTL

\* The path ippsLMSSign returns leads to the root in the public key, for every
\* height of the tree, every leaf and every size of the extra buffer.
THEOREM SignaturesAlwaysVerify == Spec => []SignatureVerifies
<1>1. LInv => SignatureVerifies
  BY LInvSignatureVerifies
<1> QED
  BY <1>1, TreeInvariant, PTL

-----------------------------------------------------------------------------
(* XMSS: the tree without an extra buffer, one leaf after the other.          *)

XNode(c, x, seed, pseed) == [height |-> c, seed |-> seed, pseed |-> pseed, j |-> x]

\* What may stand at a place of an authentication path.
FullNode == [height : Nat, seed : Int, pseed : Int, j : Int]
AnyNode == FullNode \cup {BadNode, NoNode}

XEntries == [height : 0..XHeight, node : FullNode]

\* Places of an authentication path.
XLevels(D) == D \subseteq 0..XHeight - 1

XSib(q, k) == Sibling(Ancestor(q, k))

\* The nodes waiting on the stack are the roots of the subtrees of the first
\* leaves.
XWaiting(s, v, seed, pseed) ==
    \A n \in 1..Len(s) :
        s[n].node = XNode(s[n].height, Ancestor(v, s[n].height) - 1, seed, pseed)

\* On the path: at a level d or below, the sibling once it is computed.
XPath(p, D, v, c, q, seed, pseed) ==
    /\ p \in [D -> AnyNode]
    /\ \A k \in D :
          Ancestor(v, k) > XSib(q, k) \/ (k <= c /\ Ancestor(v, k) = XSib(q, k))
             => p[k] = XNode(k, XSib(q, k), seed, pseed)

\* After v leaves, none in work.
XTurned(t, D, v, q, seed, pseed) ==
    /\ t = [stack |-> t.stack, node |-> t.node, height |-> t.height, idx |-> t.idx, path |-> t.path]
    /\ t.stack \in Seq(XEntries) /\ Bits(t.stack, v, 0)
    /\ XWaiting(t.stack, v, seed, pseed)
    /\ XPath(t.path, D, v, -1, q, seed, pseed)

\* Leaf v is in work and was merged up to level c.
XInWork(t, D, v, c, q, seed, pseed) ==
    /\ t = [stack |-> t.stack, node |-> XNode(c, Ancestor(v, c), seed, pseed), height |-> c,
            idx |-> Ancestor(v, c), path |-> t.path]
    /\ t.stack \in Seq(XEntries) /\ Bits(t.stack, v, c) /\ LowOnes(v, c)
    /\ XWaiting(t.stack, v, seed, pseed)
    /\ XPath(t.path, D, v, c, q, seed, pseed)

\* The numbers of the siblings.
LEMMA XSibTyped ==
    ASSUME NEW q \in Nat, NEW k \in Nat
    PROVE  XSib(q, k) \in Nat
<1>1. Ancestor(q, k) \in Nat
  BY AncestorUnfolds
<1> QED
  BY <1>1 DEF XSib, Sibling

\* The node of leaf v on a level goes to its place on the path if it is there.
LEMMA XPathFilled ==
    ASSUME NEW D, XLevels(D), NEW p, NEW v \in Nat, NEW c \in Int, c >= -1,
           NEW q \in Nat, NEW seed \in Int, NEW pseed \in Int,
           XPath(p, D, v, c, q, seed, pseed)
    PROVE  XPath(OnPath(p, q, c + 1, Ancestor(v, c + 1), XNode(c + 1, Ancestor(v, c + 1), seed, pseed)),
                 D, v, c + 1, q, seed, pseed)
<1> DEFINE d == c + 1
           a == Ancestor(v, d)
           w == XNode(d, a, seed, pseed)
           r == OnPath(p, q, d, a, w)
<1>0. d \in Nat /\ a \in Nat /\ w \in AnyNode /\ DOMAIN p = D /\ p \in [D -> AnyNode] /\ D \subseteq Nat
  <2>1. d \in Nat
    OBVIOUS
  <2>2. a \in Nat
    BY <2>1, AncestorUnfolds
  <2> HIDE DEF d, a
  <2> QED
    BY <2>1, <2>2, XMSSConstants DEF XLevels, XPath, XNode, AnyNode, FullNode
<1>1. r = IF XSib(q, d) = a /\ d \in D THEN [p EXCEPT ![d] = w] ELSE p
  BY <1>0 DEF OnPath, XSib
<1>2. \A k \in Int : k <= d <=> k <= c \/ k = d
  OBVIOUS
<1>3. c \in Int /\ d # c
  OBVIOUS
<1> HIDE DEF w, r, d
<1>4. r \in [D -> AnyNode]
  BY <1>0, <1>1
<1>5. ASSUME NEW k \in D, Ancestor(v, k) > XSib(q, k) \/ (k <= d /\ Ancestor(v, k) = XSib(q, k))
      PROVE  r[k] = XNode(k, XSib(q, k), seed, pseed)
  <2>1. k \in Nat /\ Ancestor(v, k) \in Nat /\ XSib(q, k) \in Nat
    BY <1>0, XSibTyped, AncestorUnfolds
  <2>2. CASE k = d /\ a = XSib(q, d)
    <3>1. r[k] = w
      BY <1>0, <1>1, <2>2
    <3> QED
      BY <2>2, <3>1 DEF w
  <2>3. CASE ~(k = d /\ a = XSib(q, d))
    <3>1. r[k] = p[k]
      BY <1>0, <1>1, <2>3
    <3>2. Ancestor(v, k) > XSib(q, k) \/ (k <= c /\ Ancestor(v, k) = XSib(q, k))
      <4>1. k = d => a = Ancestor(v, k)
        OBVIOUS
      <4> HIDE DEF a
      <4> QED
        BY <1>2, <1>5, <2>1, <2>3, <4>1
    <3> QED
      BY <3>1, <3>2 DEF XPath
  <2> QED
    BY <2>2, <2>3
<1>6. XPath(r, D, v, d, q, seed, pseed)
  BY <1>4, <1>5 DEF XPath
<1> QED
  BY <1>6 DEF r, w, d

\* The nodes that wait are of the levels where v has a bit.
LEMMA XTopOfStack ==
    ASSUME NEW s \in Seq(XEntries), NEW v \in Nat, NEW c \in Nat, Bits(s, v, c), Odd(v, c),
           NEW seed \in Int, NEW pseed \in Int, XWaiting(s, v, seed, pseed)
    PROVE  /\ s # <<>> /\ Last(s).height = c /\ Last(s).node = XNode(c, Ancestor(v, c) - 1, seed, pseed)
           /\ Front(s) \in Seq(XEntries) /\ Bits(Front(s), v, c + 1)
           /\ XWaiting(Front(s), v, seed, pseed)
<1>1. s # <<>> /\ Last(s).height = c
  BY BitOnTop
<1>2. /\ Front(s) \in Seq(XEntries) /\ Len(s) \in Nat \ {0} /\ Len(Front(s)) = Len(s) - 1
      /\ \A n \in 1..Len(s) - 1 : Front(s)[n] = s[n]
      /\ Last(s) = s[Len(s)] /\ Last(s) \in XEntries
  BY <1>1, FrontFacts
<1>3. Last(s).node = XNode(c, Ancestor(v, c) - 1, seed, pseed)
  <2>1. Len(s) \in 1..Len(s)
    BY <1>2
  <2>2. s[Len(s)].node = XNode(s[Len(s)].height, Ancestor(v, s[Len(s)].height) - 1, seed, pseed)
    BY <2>1 DEF XWaiting
  <2> QED
    BY <1>1, <1>2, <2>2
<1>4. Bits(Front(s), v, c + 1)
  BY BitsMerged
<1>5. XWaiting(Front(s), v, seed, pseed)
  <2> SUFFICES ASSUME NEW n \in 1..Len(Front(s))
               PROVE  Front(s)[n].node = XNode(Front(s)[n].height, Ancestor(v, Front(s)[n].height) - 1, seed, pseed)
    BY DEF XWaiting
  <2>1. n \in 1..Len(s) /\ Front(s)[n] = s[n]
    BY <1>2
  <2>2. s[n].node = XNode(s[n].height, Ancestor(v, s[n].height) - 1, seed, pseed)
    BY <2>1 DEF XWaiting
  <2> QED
    BY <2>1, <2>2
<1> QED
  BY <1>1, <1>2, <1>3, <1>4, <1>5

\* Two siblings hash to their parent.
LEMMA XSiblingsHashed ==
    ASSUME NEW c \in Nat, NEW b \in Nat, NEW seed \in Int, NEW pseed \in Int
    PROVE  RandHash(XNode(c, 2 * b, seed, pseed), XNode(c, 2 * b + 1, seed, pseed), pseed, c, b)
             = XNode(c + 1, b, seed, pseed)
<1> DEFINE l == XNode(c, 2 * b, seed, pseed)
           r == XNode(c, 2 * b + 1, seed, pseed)
<1>1. l # BadNode /\ l # NoNode
  <2>1. l.height = c
    BY DEF XNode
  <2>2. BadNode.height = -1 /\ NoNode.height = -2
    BY DEF BadNode, NoNode
  <2> HIDE DEF l
  <2> QED
    BY <2>1, <2>2
<1>2. l.pseed = pseed /\ l.height = c /\ l.j = 2 * b
  BY DEF XNode
<1>3. r = [l EXCEPT !.j = 2 * b + 1]
  <2> DEFINE x == 2 * b
             y == 2 * b + 1
  <2>1. l = [height |-> c, seed |-> seed, pseed |-> pseed, j |-> x]
        /\ r = [height |-> c, seed |-> seed, pseed |-> pseed, j |-> y]
    BY DEF XNode
  <2> HIDE DEF x, y, l, r
  <2>2. r = [l EXCEPT !.j = y]
    BY <2>1
  <2> QED
    BY <2>2 DEF y
<1>4. [l EXCEPT !.height = c + 1, !.j = b] = XNode(c + 1, b, seed, pseed)
  <2> DEFINE x == 2 * b
             d == c + 1
  <2>1. l = [height |-> c, seed |-> seed, pseed |-> pseed, j |-> x]
        /\ XNode(d, b, seed, pseed) = [height |-> d, seed |-> seed, pseed |-> pseed, j |-> b]
    BY DEF XNode
  <2> HIDE DEF x, d, l
  <2>2. [l EXCEPT !.height = d] = [height |-> d, seed |-> seed, pseed |-> pseed, j |-> x]
    BY <2>1
  <2> DEFINE m == [l EXCEPT !.height = d]
             n == XNode(d, b, seed, pseed)
  <2>3. [m EXCEPT !.j = b] = n
    <3>1. /\ m = [height |-> d, seed |-> seed, pseed |-> pseed, j |-> x]
          /\ n = [height |-> d, seed |-> seed, pseed |-> pseed, j |-> b]
      BY <2>1, <2>2
    <3> HIDE DEF m, n
    <3> QED
      BY <3>1
  <2>4. [l EXCEPT !.height = d, !.j = b] = XNode(d, b, seed, pseed)
    BY <2>3
  <2> QED
    BY <2>4 DEF d
<1> HIDE DEF l, r
<1>5. RandHash(l, r, pseed, c, b) = XNode(c + 1, b, seed, pseed)
  BY <1>1, <1>2, <1>3, <1>4 DEF RandHash
<1> QED
  BY <1>5 DEF l, r

\* A turn of the while loop takes the node one level up, if it goes on.
LEMMA XMergedOnce ==
    ASSUME NEW D, XLevels(D), NEW t, NEW v \in Nat, NEW c \in Nat,
           NEW q \in Nat, NEW seed \in Int, NEW pseed \in Int,
           XInWork(t, D, v, c, q, seed, pseed)
    PROVE  /\ Odd(v, c) => XInWork(MergedOnce(t, pseed, q), D, v, c + 1, q, seed, pseed)
           /\ ~Odd(v, c) => XInWork(MergedOnce(t, pseed, q), D, v, c, q, seed, pseed)
<1> DEFINE s == t.stack
           a == Ancestor(v, c)
           b == Ancestor(v, c + 1)
           w == XNode(c + 1, b, seed, pseed)
           r == OnPath(t.path, q, c + 1, b, w)
<1>1. /\ t = [stack |-> s, node |-> XNode(c, a, seed, pseed), height |-> c, idx |-> a, path |-> t.path]
      /\ s \in Seq(XEntries) /\ Bits(s, v, c) /\ LowOnes(v, c) /\ XWaiting(s, v, seed, pseed)
      /\ XPath(t.path, D, v, c, q, seed, pseed)
  BY DEF XInWork
<1>2. Odd(v, c) <=> s # <<>> /\ Last(s).height = c
  BY <1>1, BitOnTop
<1>3. CASE ~Odd(v, c)
  <2>1. MergedOnce(t, pseed, q) = t
    BY <1>1, <1>2, <1>3 DEF MergedOnce
  <2> QED
    BY <1>3, <2>1
<1>4. CASE Odd(v, c)
  <2>1. /\ s # <<>> /\ Last(s).height = c /\ Last(s).node = XNode(c, a - 1, seed, pseed)
        /\ Front(s) \in Seq(XEntries) /\ Bits(Front(s), v, c + 1)
        /\ XWaiting(Front(s), v, seed, pseed)
    BY <1>1, <1>4, XTopOfStack
  <2>2. b \in Nat /\ a = 2 * b + 1 /\ (a - 1) \div 2 = b /\ a - 1 = 2 * b
    <3>1. a \in Nat /\ b = a \div 2 /\ a % 2 = 1
      BY <1>4, AncestorUnfolds DEF Odd
    <3> HIDE DEF a, b
    <3> QED
      BY <3>1
  <2>3. RandHash(Last(s).node, XNode(c, a, seed, pseed), pseed, c, b) = w
    <3> HIDE DEF a, b
    <3> QED
      BY <2>1, <2>2, XSiblingsHashed
  <2>4. XPath(r, D, v, c + 1, q, seed, pseed)
    BY <1>1, XPathFilled
  <2>5. LowOnes(v, c + 1)
    BY <1>1, <1>4 DEF LowOnes
  <2> HIDE DEF s, a, b, w, r
  <2>6. MergedOnce(t, pseed, q) = XMerge(t, pseed, q)
    BY <1>1, <2>1 DEF MergedOnce, s
  <2>7. XMerge(t, pseed, q) = [t EXCEPT !.stack = Front(@), !.idx = b, !.node = w, !.height = @ + 1,
                                        !.path = r]
    <3>1. t.stack = s /\ t.idx = a /\ t.node = XNode(c, a, seed, pseed) /\ t.height = c
      BY <1>1 DEF s
    <3>2. OnPath(t.path, q, t.height + 1, b, w) = r
      BY <3>1 DEF r
    <3> QED
      BY <2>2, <2>3, <3>1, <3>2 DEF XMerge
  <2>8. XMerge(t, pseed, q) =
          [stack |-> Front(s), node |-> w, height |-> c + 1, idx |-> b, path |-> r]
    <3> DEFINE p == t.path
               n == XNode(c, a, seed, pseed)
    <3>1. t = [stack |-> s, node |-> n, height |-> c, idx |-> a, path |-> p]
      BY <1>1
    <3> HIDE DEF p, n
    <3> QED
      BY <2>7, <3>1
  <2> QED
    BY <1>4, <2>1, <2>4, <2>5, <2>6, <2>8 DEF XInWork, w, b
<1> QED
  BY <1>3, <1>4

-----------------------------------------------------------------------------
(* The three loops can be listed turn by turn, so that the functions that     *)
(* describe them exist.                                                       *)

MergingList(f, n, t0, pseed, q) ==
    f = [k \in 0..n |-> IF k = 0 THEN t0 ELSE MergedOnce(f[k - 1], pseed, q)]

\* The turns of the while loop of one leaf.
LEMMA MergingListed ==
    ASSUME NEW t0, NEW pseed, NEW q
    PROVE  \A n \in Nat : \E f : MergingList(f, n, t0, pseed, q)
<1> DEFINE T == {n \in Nat : \E f : MergingList(f, n, t0, pseed, q)}
<1>1. 0 \in T
  <2> DEFINE g == [k \in 0..0 |-> t0]
  <2>1. MergingList(g, 0, t0, pseed, q)
    BY DEF MergingList
  <2> QED
    BY <2>1
<1>2. ASSUME NEW n \in Nat, n \in T PROVE n + 1 \in T
  <2>1. PICK f : MergingList(f, n, t0, pseed, q)
    BY <1>2
  <2> DEFINE y == MergedOnce(f[n], pseed, q)
             g == [k \in 0..n + 1 |-> IF k <= n THEN f[k] ELSE y]
  <2>2. ASSUME NEW k \in 0..n + 1
        PROVE  g[k] = IF k = 0 THEN t0 ELSE MergedOnce(g[k - 1], pseed, q)
    <3>1. CASE k = n + 1
      <4>1. k - 1 = n /\ k # 0 /\ n \in 0..n + 1
        BY <3>1
      <4>2. g[k] = y /\ g[k - 1] = f[n]
        BY <3>1, <4>1
      <4> HIDE DEF g
      <4>3. y = MergedOnce(g[k - 1], pseed, q)
        BY <4>1, <4>2
      <4> QED
        BY <4>1, <4>2, <4>3
    <3>2. CASE k # n + 1
      <4>1. k \in 0..n /\ (k # 0 => k - 1 \in 0..n)
        BY <3>2
      <4>2. g[k] = f[k] /\ (k # 0 => g[k - 1] = f[k - 1])
        BY <4>1
      <4>3. f[k] = IF k = 0 THEN t0 ELSE MergedOnce(f[k - 1], pseed, q)
        BY <2>1, <4>1 DEF MergingList
      <4> HIDE DEF g
      <4> QED
        BY <4>2, <4>3
    <3> QED
      BY <3>1, <3>2
  <2>3. MergingList(g, n + 1, t0, pseed, q)
    <3>1. g = [k \in 0..n + 1 |-> g[k]]
      OBVIOUS
    <3> HIDE DEF g
    <3> QED
      BY <2>2, <3>1 DEF MergingList
  <2> HIDE DEF g
  <2> QED
    BY <2>3
<1>3. Nat \subseteq T
  <2> HIDE DEF T
  <2> QED BY <1>1, <1>2, AllNumbers
<1> QED
  BY <1>3

TurnsList(f, n, t0, seed, pseed, q) ==
    f = [k \in 0..n |-> IF k = 0 THEN t0 ELSE XLeafStep(f[k - 1], k - 1, seed, pseed, q)]

\* The turns of the for loop.
LEMMA TurnsListed ==
    ASSUME NEW t0, NEW seed, NEW pseed, NEW q
    PROVE  \A n \in Nat : \E f : TurnsList(f, n, t0, seed, pseed, q)
<1> DEFINE T == {n \in Nat : \E f : TurnsList(f, n, t0, seed, pseed, q)}
<1>1. 0 \in T
  <2> DEFINE g == [k \in 0..0 |-> t0]
  <2>1. TurnsList(g, 0, t0, seed, pseed, q)
    BY DEF TurnsList
  <2> QED
    BY <2>1
<1>2. ASSUME NEW n \in Nat, n \in T PROVE n + 1 \in T
  <2>1. PICK f : TurnsList(f, n, t0, seed, pseed, q)
    BY <1>2
  <2> DEFINE y == XLeafStep(f[n], n, seed, pseed, q)
             g == [k \in 0..n + 1 |-> IF k <= n THEN f[k] ELSE y]
  <2>2. ASSUME NEW k \in 0..n + 1
        PROVE  g[k] = IF k = 0 THEN t0 ELSE XLeafStep(g[k - 1], k - 1, seed, pseed, q)
    <3>1. CASE k = n + 1
      <4>1. k - 1 = n /\ k # 0 /\ n \in 0..n + 1
        BY <3>1
      <4>2. g[k] = y /\ g[k - 1] = f[n]
        BY <3>1, <4>1
      <4> HIDE DEF g
      <4>3. y = XLeafStep(g[k - 1], k - 1, seed, pseed, q)
        BY <4>1, <4>2
      <4> QED
        BY <4>1, <4>2, <4>3
    <3>2. CASE k # n + 1
      <4>1. k \in 0..n /\ (k # 0 => k - 1 \in 0..n)
        BY <3>2
      <4>2. g[k] = f[k] /\ (k # 0 => g[k - 1] = f[k - 1])
        BY <4>1
      <4>3. f[k] = IF k = 0 THEN t0 ELSE XLeafStep(f[k - 1], k - 1, seed, pseed, q)
        BY <2>1, <4>1 DEF TurnsList
      <4> HIDE DEF g
      <4> QED
        BY <4>2, <4>3
    <3> QED
      BY <3>1, <3>2
  <2>3. TurnsList(g, n + 1, t0, seed, pseed, q)
    <3>1. g = [k \in 0..n + 1 |-> g[k]]
      OBVIOUS
    <3> HIDE DEF g
    <3> QED
      BY <2>2, <3>1 DEF TurnsList
  <2> HIDE DEF g
  <2> QED
    BY <2>3
<1>3. Nat \subseteq T
  <2> HIDE DEF T
  <2> QED BY <1>1, <1>2, AllNumbers
<1> QED
  BY <1>3

ClimbList(f, n, s, key, leaf) ==
    f = [k \in 0..n |-> IF k = 0 THEN leaf ELSE Climbed(s, key, f[k - 1], k - 1)]

\* The levels ippsXMSSVerify climbs.
LEMMA ClimbListed ==
    ASSUME NEW s, NEW key, NEW leaf
    PROVE  \A n \in Nat : \E f : ClimbList(f, n, s, key, leaf)
<1> DEFINE T == {n \in Nat : \E f : ClimbList(f, n, s, key, leaf)}
<1>1. 0 \in T
  <2> DEFINE g == [k \in 0..0 |-> leaf]
  <2>1. ClimbList(g, 0, s, key, leaf)
    BY DEF ClimbList
  <2> QED
    BY <2>1
<1>2. ASSUME NEW n \in Nat, n \in T PROVE n + 1 \in T
  <2>1. PICK f : ClimbList(f, n, s, key, leaf)
    BY <1>2
  <2> DEFINE y == Climbed(s, key, f[n], n)
             g == [k \in 0..n + 1 |-> IF k <= n THEN f[k] ELSE y]
  <2>2. ASSUME NEW k \in 0..n + 1
        PROVE  g[k] = IF k = 0 THEN leaf ELSE Climbed(s, key, g[k - 1], k - 1)
    <3>1. CASE k = n + 1
      <4>1. k - 1 = n /\ k # 0 /\ n \in 0..n + 1
        BY <3>1
      <4>2. g[k] = y /\ g[k - 1] = f[n]
        BY <3>1, <4>1
      <4> HIDE DEF g
      <4>3. y = Climbed(s, key, g[k - 1], k - 1)
        BY <4>1, <4>2
      <4> QED
        BY <4>1, <4>2, <4>3
    <3>2. CASE k # n + 1
      <4>1. k \in 0..n /\ (k # 0 => k - 1 \in 0..n)
        BY <3>2
      <4>2. g[k] = f[k] /\ (k # 0 => g[k - 1] = f[k - 1])
        BY <4>1
      <4>3. f[k] = IF k = 0 THEN leaf ELSE Climbed(s, key, f[k - 1], k - 1)
        BY <2>1, <4>1 DEF ClimbList
      <4> HIDE DEF g
      <4> QED
        BY <4>2, <4>3
    <3> QED
      BY <3>1, <3>2
  <2>3. ClimbList(g, n + 1, s, key, leaf)
    <3>1. g = [k \in 0..n + 1 |-> g[k]]
      OBVIOUS
    <3> HIDE DEF g
    <3> QED
      BY <2>2, <3>1 DEF ClimbList
  <2> HIDE DEF g
  <2> QED
    BY <2>3
<1>3. Nat \subseteq T
  <2> HIDE DEF T
  <2> QED BY <1>1, <1>2, AllNumbers
<1> QED
  BY <1>3

-----------------------------------------------------------------------------

\* The leaves have no bit on the level of the root.
LEMMA NoRootBit ==
    ASSUME NEW v \in Nat, v < XLeaves
    PROVE  ~Odd(v, XHeight)
<1>1. XHeight \in Nat /\ XHeight - XHeight = 0 /\ XHeight \in 0..XHeight /\ Pow2[0] = 1
  BY XMSSConstants, Pow2Unfolds
<1>2. Ancestor(v, XHeight) < Pow2[XHeight - XHeight]
  BY <1>1, LevelSize DEF XLeaves
<1>3. Ancestor(v, XHeight) \in Nat
  BY <1>1, AncestorUnfolds
<1>4. Ancestor(v, XHeight) = 0
  BY <1>1, <1>2, <1>3
<1> QED
  BY <1>4 DEF Odd

\* The while loop stops at the lowest level where v has no bit.
LEMMA XMerged ==
    ASSUME NEW D, XLevels(D), NEW t, NEW v \in Nat, v < XLeaves,
           NEW q \in Nat, NEW seed \in Int, NEW pseed \in Int,
           XInWork(t, D, v, 0, q, seed, pseed),
           NEW m, m[0] = t, \A k \in 0..XHeight - 1 : m[k + 1] = MergedOnce(m[k], pseed, q)
    PROVE  \E c \in 0..XHeight : XInWork(m[XHeight], D, v, c, q, seed, pseed) /\ ~Odd(v, c)
<1> DEFINE Good(k, c) == XInWork(m[k], D, v, c, q, seed, pseed) /\ (c = k \/ ~Odd(v, c))
           T == {k \in Nat : k <= XHeight => \E c \in 0..XHeight : Good(k, c)}
<1>0. XHeight \in Nat
  BY XMSSConstants
<1>1. 0 \in T
  <2>1. m[0] = t /\ 0 \in 0..XHeight
    BY <1>0
  <2>2. Good(0, 0)
    BY <2>1
  <2> HIDE DEF Good
  <2> QED
    BY <2>1, <2>2
<1>2. ASSUME NEW k \in Nat, k \in T PROVE k + 1 \in T
  <2> SUFFICES ASSUME k + 1 <= XHeight PROVE \E c \in 0..XHeight : Good(k + 1, c)
    OBVIOUS
  <2>1. PICK c \in 0..XHeight : Good(k, c)
    BY <1>0, <1>2
  <2>2. m[k + 1] = MergedOnce(m[k], pseed, q)
    <3>1. k \in 0..XHeight - 1
      BY <1>0
    <3> QED
      BY <3>1
  <2>3. /\ Odd(v, c) => XInWork(m[k + 1], D, v, c + 1, q, seed, pseed)
        /\ ~Odd(v, c) => XInWork(m[k + 1], D, v, c, q, seed, pseed)
    <3> DEFINE w == m[k]
    <3>1. c \in Nat /\ XInWork(w, D, v, c, q, seed, pseed) /\ m[k + 1] = MergedOnce(w, pseed, q)
      BY <1>0, <2>1, <2>2
    <3> HIDE DEF w
    <3>2. /\ Odd(v, c) => XInWork(MergedOnce(w, pseed, q), D, v, c + 1, q, seed, pseed)
          /\ ~Odd(v, c) => XInWork(MergedOnce(w, pseed, q), D, v, c, q, seed, pseed)
      BY <3>1, XMergedOnce
    <3> QED
      BY <3>1, <3>2 DEF w
  <2>4. CASE Odd(v, c)
    <3>1. c = k /\ c + 1 \in 0..XHeight
      BY <1>0, <2>1, <2>4
    <3>2. Good(k + 1, c + 1)
      BY <2>3, <2>4, <3>1
    <3> HIDE DEF Good
    <3> QED
      BY <3>1, <3>2
  <2>5. CASE ~Odd(v, c)
    <3>1. Good(k + 1, c)
      BY <2>1, <2>3, <2>5
    <3> HIDE DEF Good
    <3> QED
      BY <3>1
  <2> QED
    BY <2>4, <2>5
<1>3. Nat \subseteq T
  <2> HIDE DEF T
  <2> QED BY <1>1, <1>2, AllNumbers
<1>4. PICK c \in 0..XHeight : Good(XHeight, c)
  BY <1>0, <1>3
<1>5. ~Odd(v, c)
  BY <1>4, NoRootBit
<1> QED
  BY <1>4, <1>5

Pushed(u) == [u EXCEPT !.stack = Append(@, [height |-> u.height, node |-> u.node])]

\* The push ends the turn.
LEMMA XPushed ==
    ASSUME NEW D, XLevels(D), NEW u, NEW v \in Nat, NEW c \in 0..XHeight,
           NEW q \in Nat, NEW seed \in Int, NEW pseed \in Int,
           XInWork(u, D, v, c, q, seed, pseed), ~Odd(v, c)
    PROVE  XTurned(Pushed(u), D, v + 1, q, seed, pseed)
<1> DEFINE s == u.stack
           p == u.path
           a == Ancestor(v, c)
           n == XNode(c, a, seed, pseed)
           e == [height |-> c, node |-> n]
           f == Append(s, e)
<1>0. c \in Nat /\ v + 1 \in Nat
  BY XMSSConstants
<1>1. /\ u = [stack |-> s, node |-> n, height |-> c, idx |-> a, path |-> p]
      /\ s \in Seq(XEntries) /\ Bits(s, v, c) /\ LowOnes(v, c) /\ XWaiting(s, v, seed, pseed)
      /\ XPath(p, D, v, c, q, seed, pseed)
  BY DEF XInWork
<1>2. a \in Nat /\ e \in XEntries /\ e.height = c /\ e.node = n
  <2>1. a \in Nat
    BY <1>0, AncestorUnfolds
  <2> HIDE DEF a
  <2> QED
    BY <1>0, <2>1 DEF XEntries, FullNode, XNode
<1>3. f \in Seq(XEntries) /\ Bits(f, v + 1, 0)
  <2> HIDE DEF s, e
  <2> QED
    BY <1>0, <1>1, <1>2, BitsPushed
<1>4. \A k \in Nat : /\ k <= c => Ancestor(v + 1, k) = Ancestor(v, k) + 1
                     /\ k > c => Ancestor(v + 1, k) = Ancestor(v, k)
  <2> SUFFICES ASSUME NEW k \in Nat
               PROVE  /\ k <= c => Ancestor(v + 1, k) = Ancestor(v, k) + 1
                      /\ k > c => Ancestor(v + 1, k) = Ancestor(v, k)
    OBVIOUS
  <2>1. LowOnes(v, k) <=> k <= c
    BY <1>0, <1>1, CarryStops
  <2>2. /\ LowOnes(v, k) => Ancestor(v + 1, k) = Ancestor(v, k) + 1
        /\ ~LowOnes(v, k) => Ancestor(v + 1, k) = Ancestor(v, k)
    BY Carry
  <2> QED
    BY <1>0, <2>1, <2>2
<1>5. XWaiting(f, v + 1, seed, pseed)
  <2> DEFINE l == Len(s)
  <2>1. l \in Nat /\ Len(f) = l + 1 /\ f[l + 1] = e /\ \A k \in 1..l : f[k] = s[k]
    <3> HIDE DEF s, e
    <3> QED
      BY <1>1
  <2>2. ASSUME NEW k \in 1..l
        PROVE  s[k].height \in Nat /\ s[k].height > c
    <3>1. s[k].height \in Nat /\ s[k].height >= c /\ Odd(v, s[k].height)
      BY <1>1 DEF Bits
    <3>2. s[k].height # c
      BY <3>1
    <3> QED
      BY <1>0, <3>1, <3>2
  <2>3. \A k \in 1..l : s[k].node = XNode(s[k].height, Ancestor(v, s[k].height) - 1, seed, pseed)
    BY <1>1 DEF XWaiting
  <2>4. Ancestor(v + 1, c) - 1 = a
    BY <1>0, <1>2, <1>4
  <2> SUFFICES ASSUME NEW k \in 1..Len(f)
               PROVE  f[k].node = XNode(f[k].height, Ancestor(v + 1, f[k].height) - 1, seed, pseed)
    BY DEF XWaiting
  <2> HIDE DEF f, l, s, a, e, n
  <2>5. CASE k = l + 1
    <3>1. f[k].height = c /\ f[k].node = n
      BY <1>2, <2>1, <2>5
    <3> QED
      BY <2>4, <3>1 DEF n
  <2>6. CASE k # l + 1
    <3>1. k \in 1..l /\ f[k] = s[k]
      BY <2>1, <2>6
    <3>2. Ancestor(v + 1, s[k].height) = Ancestor(v, s[k].height)
      BY <1>4, <2>2, <3>1
    <3> QED
      BY <2>3, <3>1, <3>2
  <2> QED
    BY <2>5, <2>6
<1>6. XPath(p, D, v + 1, -1, q, seed, pseed)
  <2> SUFFICES ASSUME NEW k \in D, Ancestor(v + 1, k) > XSib(q, k)
               PROVE  Ancestor(v, k) > XSib(q, k) \/ (k <= c /\ Ancestor(v, k) = XSib(q, k))
    <3>1. D \subseteq Nat
      BY XMSSConstants DEF XLevels
    <3>2. \A k \in D : ~(k <= -1)
      BY <3>1
    <3> QED
      BY <1>1, <3>2 DEF XPath
  <2>1. k \in Nat
    BY XMSSConstants DEF XLevels
  <2>2. Ancestor(v, k) \in Nat /\ XSib(q, k) \in Nat
    BY <2>1, AncestorUnfolds, XSibTyped
  <2>3. k <= c \/ k > c
    BY <1>0, <2>1
  <2> QED
    BY <1>4, <2>1, <2>2, <2>3
<1> HIDE DEF s, p, a, n
<1>8. u.height = c /\ u.node = n
  BY <1>1
<1>7. Pushed(u) = [stack |-> f, node |-> n, height |-> c, idx |-> a, path |-> p]
  <2>1. [height |-> u.height, node |-> u.node] = e
    BY <1>8
  <2>2. Append(u.stack, [height |-> u.height, node |-> u.node]) = f
    BY <2>1 DEF s
  <2> HIDE DEF e, f
  <2>3. [u EXCEPT !.stack = f] = [stack |-> f, node |-> n, height |-> c, idx |-> a, path |-> p]
    BY <1>1
  <2> QED
    BY <2>2, <2>3 DEF Pushed
<1> HIDE DEF f
<1> QED
  BY <1>3, <1>5, <1>6, <1>7 DEF XTurned

\* A turn of the for loop takes in one more leaf.
LEMMA XTurn ==
    ASSUME NEW D, XLevels(D), NEW t, NEW v \in Nat, v < XLeaves,
           NEW q \in Nat, NEW seed \in Int, NEW pseed \in Int,
           XTurned(t, D, v, q, seed, pseed)
    PROVE  XTurned(XLeafStep(t, v, seed, pseed, q), D, v + 1, q, seed, pseed)
<1> DEFINE leaf == XLeaf(seed, pseed, v)
           t0 == [t EXCEPT !.node = leaf, !.height = 0, !.idx = v,
                           !.path = OnPath(@, q, 0, v, leaf)]
           m == CHOOSE f : f = [k \in 0..XHeight |->
                                   IF k = 0 THEN t0 ELSE MergedOnce(f[k - 1], pseed, q)]
           u == m[XHeight]
<1>1. XInWork(t0, D, v, 0, q, seed, pseed)
  <2> DEFINE s == t.stack
             p == t.path
             x == t.node
             y == t.height
             z == t.idx
             r == OnPath(p, q, 0, v, leaf)
  <2>1. /\ t = [stack |-> s, node |-> x, height |-> y, idx |-> z, path |-> p]
        /\ s \in Seq(XEntries) /\ Bits(s, v, 0) /\ XWaiting(s, v, seed, pseed)
        /\ XPath(p, D, v, -1, q, seed, pseed)
    BY DEF XTurned
  <2>2. Ancestor(v, 0) = v /\ leaf = XNode(0, v, seed, pseed) /\ LowOnes(v, 0)
    BY AncestorUnfolds DEF XLeaf, XNode, LowOnes
  <2>3. XPath(r, D, v, 0, q, seed, pseed)
    <3>1. -1 + 1 = 0 /\ -1 \in Int /\ -1 >= -1
      OBVIOUS
    <3>2. XPath(OnPath(p, q, -1 + 1, Ancestor(v, -1 + 1), XNode(-1 + 1, Ancestor(v, -1 + 1), seed, pseed)),
                D, v, -1 + 1, q, seed, pseed)
      BY <2>1, <3>1, XPathFilled
    <3> QED
      BY <2>2, <3>1, <3>2
  <2> HIDE DEF s, p, x, y, z, r, leaf
  <2>4. t0 = [stack |-> s, node |-> leaf, height |-> 0, idx |-> v, path |-> r]
    <3> DEFINE t1 == [t EXCEPT !.node = leaf, !.height = 0, !.idx = v]
    <3>1. t1 = [stack |-> s, node |-> leaf, height |-> 0, idx |-> v, path |-> p]
      <4>1. t = [stack |-> s, node |-> x, height |-> y, idx |-> z, path |-> p]
        BY <2>1
      <4> DEFINE ta == [t EXCEPT !.node = leaf]
                 tb == [ta EXCEPT !.height = 0]
                 tc == [tb EXCEPT !.idx = v]
      <4>2. ta = [stack |-> s, node |-> leaf, height |-> y, idx |-> z, path |-> p]
        BY <4>1
      <4>3. t1 = tc
        OBVIOUS
      <4> HIDE DEF ta, t1
      <4>4. tb = [stack |-> s, node |-> leaf, height |-> 0, idx |-> z, path |-> p]
        BY <4>2
      <4> HIDE DEF tb
      <4>5. tc = [stack |-> s, node |-> leaf, height |-> 0, idx |-> v, path |-> p]
        BY <4>4
      <4> QED
        BY <4>3, <4>5
    <3>2. t0 = [t1 EXCEPT !.path = OnPath(@, q, 0, v, leaf)]
      OBVIOUS
    <3> HIDE DEF t1, t0
    <3>3. OnPath(t1.path, q, 0, v, leaf) = r
      BY <3>1 DEF r
    <3>4. [t1 EXCEPT !.path = r] = [stack |-> s, node |-> leaf, height |-> 0, idx |-> v, path |-> r]
      BY <3>1
    <3> QED
      BY <3>2, <3>3, <3>4
  <2> HIDE DEF t0
  <2> QED
    BY <2>1, <2>2, <2>3, <2>4 DEF XInWork
<1>2. XLeafStep(t, v, seed, pseed, q) = Pushed(u)
  BY DEF XLeafStep, Pushed
<1> HIDE DEF t0
<1>3. \E f : MergingList(f, XHeight, t0, pseed, q)
  <2>1. XHeight \in Nat
    BY XMSSConstants
  <2> QED
    BY <2>1, MergingListed
<1> DEFINE Round(f, k) == IF k = 0 THEN t0 ELSE MergedOnce(f[k - 1], pseed, q)
<1>4. m = [k \in 0..XHeight |-> Round(m, k)]
  BY <1>3 DEF MergingList
<1> HIDE DEF m
<1>6. m[0] = t0 /\ \A k \in 0..XHeight - 1 : m[k + 1] = MergedOnce(m[k], pseed, q)
  <2>1. ASSUME NEW k \in 0..XHeight PROVE m[k] = Round(m, k)
    <3> HIDE DEF Round
    <3> QED
      BY <1>4
  <2>2. 0 \in 0..XHeight
    BY XMSSConstants
  <2>3. ASSUME NEW k \in 0..XHeight - 1 PROVE m[k + 1] = MergedOnce(m[k], pseed, q)
    <3>1. k + 1 \in 0..XHeight /\ k + 1 # 0 /\ k + 1 - 1 = k
      BY XMSSConstants
    <3>2. m[k + 1] = Round(m, k + 1)
      BY <2>1, <3>1
    <3> QED
      BY <3>1, <3>2
  <2>4. m[0] = t0
    <3>1. m[0] = Round(m, 0)
      BY <2>1, <2>2
    <3> QED
      BY <3>1
  <2> QED
    BY <2>3, <2>4
<1>5. PICK c \in 0..XHeight : XInWork(u, D, v, c, q, seed, pseed) /\ ~Odd(v, c)
  <2> HIDE DEF Round
  <2> QED
    BY <1>1, <1>6, XMerged
<1> HIDE DEF u
<1> QED
  BY <1>2, <1>5, XPushed

\* Before the first leaf.
LEMMA XFresh ==
    ASSUME NEW D, XLevels(D), NEW p \in [D -> AnyNode], NEW q \in Nat, NEW seed, NEW pseed,
           NEW t, t = [stack |-> <<>>, node |-> NoNode, height |-> 0, idx |-> 0, path |-> p]
    PROVE  XTurned(t, D, 0, q, seed, pseed)
<1>1. t.stack = <<>> /\ t.path = p
      /\ t = [stack |-> t.stack, node |-> t.node, height |-> t.height, idx |-> t.idx, path |-> t.path]
  OBVIOUS
<1>2. <<>> \in Seq(XEntries) /\ Len(<<>>) = 0 /\ 1..0 = {}
  OBVIOUS
<1>3. Bits(<<>>, 0, 0) /\ XWaiting(<<>>, 0, seed, pseed)
  BY <1>2, ZeroBits DEF Bits, XWaiting
<1>4. XPath(p, D, 0, -1, q, seed, pseed)
  <2> SUFFICES ASSUME NEW k \in D PROVE ~(Ancestor(0, k) > XSib(q, k)) /\ ~(k <= -1)
    BY DEF XPath
  <2>1. k \in Nat
    BY XMSSConstants DEF XLevels
  <2>2. Ancestor(0, k) = 0 /\ XSib(q, k) \in Nat
    BY <2>1, ZeroBits, XSibTyped
  <2> QED
    BY <2>1, <2>2
<1> QED
  BY <1>1, <1>2, <1>3, <1>4 DEF XTurned

\* The for loop on the first n leaves.
LEMMA XHashed ==
    ASSUME NEW D, XLevels(D), NEW p \in [D -> AnyNode], NEW q \in Nat,
           NEW seed \in Int, NEW pseed \in Int, NEW n \in 0..XLeaves
    PROVE  XTurned(TreeHashed(n, seed, pseed, q, p), D, n, q, seed, pseed)
<1> DEFINE t0 == [stack |-> <<>>, node |-> NoNode, height |-> 0, idx |-> 0, path |-> p]
           m == CHOOSE f : f = [k \in 0..n |-> IF k = 0 THEN t0
                                               ELSE XLeafStep(f[k - 1], k - 1, seed, pseed, q)]
           T == {k \in Nat : k <= n => XTurned(m[k], D, k, q, seed, pseed)}
<1>0. n \in Nat /\ XLeaves \in Nat
  BY Pow2Unfolds, XMSSConstants DEF XLeaves
<1>1. TreeHashed(n, seed, pseed, q, p) = m[n]
  BY DEF TreeHashed
<1>2. XTurned(t0, D, 0, q, seed, pseed)
  BY XFresh
<1> HIDE DEF t0
<1>3. \E f : TurnsList(f, n, t0, seed, pseed, q)
  BY <1>0, TurnsListed
<1> DEFINE Round(f, k) == IF k = 0 THEN t0 ELSE XLeafStep(f[k - 1], k - 1, seed, pseed, q)
<1>4. m = [k \in 0..n |-> Round(m, k)]
  BY <1>3 DEF TurnsList
<1> HIDE DEF m
<1>5. ASSUME NEW k \in 0..n PROVE m[k] = Round(m, k)
  <2> HIDE DEF Round
  <2> QED
    BY <1>4
<1>6. 0 \in T
  <2>1. m[0] = Round(m, 0)
    BY <1>0, <1>5
  <2> QED
    BY <1>2, <2>1
<1>7. ASSUME NEW k \in Nat, k \in T PROVE k + 1 \in T
  <2> SUFFICES ASSUME k + 1 <= n PROVE XTurned(m[k + 1], D, k + 1, q, seed, pseed)
    OBVIOUS
  <2>1. k + 1 \in 0..n /\ k + 1 # 0 /\ k + 1 - 1 = k /\ k <= n /\ k < XLeaves
    BY <1>0
  <2>2. m[k + 1] = Round(m, k + 1)
    BY <1>5, <2>1
  <2>3. m[k + 1] = XLeafStep(m[k], k, seed, pseed, q)
    BY <2>1, <2>2
  <2>4. XTurned(m[k], D, k, q, seed, pseed)
    BY <1>7, <2>1
  <2>5. XTurned(XLeafStep(m[k], k, seed, pseed, q), D, k + 1, q, seed, pseed)
    <3> DEFINE w == m[k]
    <3>1. XTurned(w, D, k, q, seed, pseed)
      BY <2>4
    <3> HIDE DEF w
    <3>2. XTurned(XLeafStep(w, k, seed, pseed, q), D, k + 1, q, seed, pseed)
      BY <2>1, <3>1, XTurn
    <3> QED
      BY <3>2 DEF w
  <2> QED
    BY <2>3, <2>5
<1>8. Nat \subseteq T
  <2> HIDE DEF T
  <2> QED BY <1>6, <1>7, AllNumbers
<1> QED
  BY <1>0, <1>1, <1>8

\* The last leaf leaves the root alone on the stack.
LEMMA XRootNode ==
    ASSUME NEW seed \in Int, NEW pseed \in Int
    PROVE  TreeRoot(seed, pseed) = XNode(XHeight, 0, seed, pseed)
<1> DEFINE t == TreeHashed(XLeaves, seed, pseed, 0, <<>>)
           s == t.stack
<1>0. XHeight \in Nat /\ XLeaves \in Nat /\ XLeaves = Pow2[XHeight]
  BY Pow2Unfolds, XMSSConstants DEF XLeaves
<1>1. XLevels(1..0) /\ <<>> \in [1..0 -> AnyNode]
  BY DEF XLevels
<1>2. XTurned(t, 1..0, XLeaves, 0, seed, pseed)
  <2> DEFINE D == 1..0
             p == <<>>
  <2>1. XLevels(D) /\ p \in [D -> AnyNode] /\ 0 \in Nat /\ XLeaves \in 0..XLeaves
    BY <1>0, <1>1
  <2> HIDE DEF D, p
  <2>2. XTurned(TreeHashed(XLeaves, seed, pseed, 0, p), D, XLeaves, 0, seed, pseed)
    BY <2>1, XHashed
  <2> QED
    BY <2>2 DEF D, p
<1>3. s \in Seq(XEntries) /\ Bits(s, XLeaves, 0) /\ XWaiting(s, XLeaves, seed, pseed)
  BY <1>2 DEF XTurned
<1> HIDE DEF s
<1>4. Ancestor(XLeaves, XHeight) = 1 /\ Odd(XLeaves, XHeight)
  <2>1. XHeight \in 0..XHeight /\ XHeight - XHeight = 0 /\ Pow2[0] = 1
    BY <1>0, Pow2Unfolds
  <2>2. Ancestor(XLeaves, XHeight) = 1
    BY <1>0, <2>1, LevelSize
  <2> QED
    BY <2>2 DEF Odd
<1>5. ASSUME NEW k \in 0..XHeight - 1 PROVE ~Odd(XLeaves, k)
  <2>1. XHeight - k - 1 \in Nat /\ XHeight - k = XHeight - k - 1 + 1 /\ k \in 0..XHeight
    BY <1>0
  <2>2. Ancestor(XLeaves, k) = Pow2[XHeight - k]
    BY <1>0, <2>1, LevelSize
  <2>3. Pow2[XHeight - k - 1] \in Nat /\ Pow2[XHeight - k] = 2 * Pow2[XHeight - k - 1]
    BY <2>1, Pow2Unfolds
  <2> QED
    BY <2>2, <2>3 DEF Odd
<1>6. PICK n \in 1..Len(s) : s[n].height = XHeight
  BY <1>0, <1>3, <1>4 DEF Bits
<1>7. 1 \in 1..Len(s) /\ s[1] \in XEntries
  <2>1. Len(s) \in Nat
    BY <1>3
  <2>2. 1 \in 1..Len(s)
    BY <1>6, <2>1
  <2> QED
    BY <1>3, <2>2
<1>8. s[1].height = XHeight
  <2>1. s[1].height \in 0..XHeight /\ Odd(XLeaves, s[1].height)
    BY <1>3, <1>7 DEF Bits, XEntries
  <2> QED
    BY <1>0, <1>5, <2>1
<1>9. s[1].node = XNode(XHeight, 1 - 1, seed, pseed)
  BY <1>3, <1>4, <1>7, <1>8 DEF XWaiting
<1> QED
  BY <1>9 DEF TreeRoot, s

\* Siblings on the path are nodes of their levels.
LEMMA XSibOnLevel ==
    ASSUME NEW q \in Nat, q < XLeaves, NEW k \in 0..XHeight - 1
    PROVE  XSib(q, k) < Pow2[XHeight - k] /\ XSib(q, k) \in Nat
<1> DEFINE a == Ancestor(q, k)
           m == XHeight - k - 1
<1>0. XHeight \in Nat /\ k \in Nat /\ k \in 0..XHeight /\ m \in Nat /\ XHeight - k = m + 1
  BY XMSSConstants
<1>1. a \in Nat /\ a < Pow2[XHeight - k]
  BY <1>0, LevelSize, AncestorUnfolds DEF XLeaves
<1>2. Pow2[XHeight - k] = 2 * Pow2[m] /\ Pow2[m] \in Nat
  BY <1>0, Pow2Unfolds
<1> HIDE DEF a, m
<1>3. Sibling(a) < Pow2[XHeight - k] /\ Sibling(a) \in Nat
  BY <1>1, <1>2 DEF Sibling
<1> QED
  BY <1>3 DEF XSib, a

Places == 0..XHeight - 1

\* What is on the path stays a node, whatever the number of turns; after the
\* last it is the path of the leaf.
LEMMA XPathDone ==
    ASSUME NEW p \in [Places -> AnyNode], NEW q \in Nat, q < XLeaves,
           NEW seed \in Int, NEW pseed \in Int, NEW n \in 0..XLeaves
    PROVE  /\ TreeHashed(n, seed, pseed, q, p).path \in [Places -> AnyNode]
           /\ n = XLeaves => \A k \in Places :
                 TreeHashed(n, seed, pseed, q, p).path[k] = XNode(k, XSib(q, k), seed, pseed)
<1> DEFINE r == TreeHashed(n, seed, pseed, q, p).path
<1>1. XLevels(Places)
  BY DEF XLevels, Places
<1>2. XTurned(TreeHashed(n, seed, pseed, q, p), Places, n, q, seed, pseed)
  BY <1>1, XHashed
<1>3. XPath(r, Places, n, -1, q, seed, pseed)
  BY <1>2 DEF XTurned
<1> HIDE DEF r
<1>4. ASSUME n = XLeaves, NEW k \in Places PROVE r[k] = XNode(k, XSib(q, k), seed, pseed)
  <2>1. k \in 0..XHeight /\ XHeight \in Nat /\ XLeaves = Pow2[XHeight]
    BY XMSSConstants DEF Places, XLeaves
  <2>2. Ancestor(n, k) = Pow2[XHeight - k]
    BY <1>4, <2>1, LevelSize
  <2>3. XSib(q, k) < Pow2[XHeight - k] /\ XSib(q, k) \in Nat
    BY XSibOnLevel DEF Places
  <2>4. Pow2[XHeight - k] \in Nat
    BY <2>1, Pow2Unfolds
  <2>5. Ancestor(n, k) > XSib(q, k)
    BY <2>2, <2>3, <2>4
  <2> QED
    BY <1>3, <2>5 DEF XPath
<1>5. r \in [Places -> AnyNode]
  BY <1>3 DEF XPath
<1> QED
  BY <1>4, <1>5 DEF r

-----------------------------------------------------------------------------
(* ippsXMSSVerify: the root a leaf and an authentication path lead to.        *)

\* The climb, level by level.
LEMMA RootClimbed ==
    ASSUME NEW s, NEW key, NEW leaf
    PROVE  \E m : /\ m[0] = leaf /\ m[XHeight] = RootOf(s, leaf, key)
                  /\ \A k \in Places : m[k + 1] = Climbed(s, key, m[k], k)
<1> DEFINE m == CHOOSE f : f = [k \in 0..XHeight |-> IF k = 0 THEN leaf
                                                     ELSE Climbed(s, key, f[k - 1], k - 1)]
<1>0. XHeight \in Nat
  BY XMSSConstants
<1>1. RootOf(s, leaf, key) = m[XHeight]
  BY DEF RootOf
<1>2. \E f : ClimbList(f, XHeight, s, key, leaf)
  BY <1>0, ClimbListed
<1> DEFINE Round(f, k) == IF k = 0 THEN leaf ELSE Climbed(s, key, f[k - 1], k - 1)
<1>3. m = [k \in 0..XHeight |-> Round(m, k)]
  BY <1>2 DEF ClimbList
<1> HIDE DEF m
<1>4. ASSUME NEW k \in 0..XHeight PROVE m[k] = Round(m, k)
  <2> HIDE DEF Round
  <2> QED
    BY <1>3
<1>5. m[0] = leaf
  <2>1. m[0] = Round(m, 0)
    BY <1>0, <1>4
  <2> QED
    BY <2>1
<1>6. ASSUME NEW k \in Places PROVE m[k + 1] = Climbed(s, key, m[k], k)
  <2>1. k \in Nat /\ k + 1 \in 0..XHeight /\ k + 1 # 0 /\ k + 1 - 1 = k
    BY <1>0 DEF Places
  <2>2. m[k + 1] = Round(m, k + 1)
    BY <1>4, <2>1
  <2> QED
    BY <2>1, <2>2
<1> QED
  BY <1>1, <1>5, <1>6

\* The siblings of a leaf's ancestors lead from that leaf to the root.
LEMMA PathVerifies ==
    ASSUME NEW s, s.idx \in Nat, s.idx < XLeaves, NEW key, key.pseed \in Int, NEW seed \in Int,
           \A k \in Places : s.path[k] = XNode(k, XSib(s.idx, k), seed, key.pseed)
    PROVE  RootOf(s, XNode(0, s.idx, seed, key.pseed), key) = XNode(XHeight, 0, seed, key.pseed)
<1> DEFINE q == s.idx
           ps == key.pseed
           leaf == XNode(0, q, seed, ps)
<1>0. XHeight \in Nat /\ q \in Nat /\ ps \in Int
  BY XMSSConstants
<1>1. PICK m : /\ m[0] = leaf /\ m[XHeight] = RootOf(s, leaf, key)
               /\ \A k \in Places : m[k + 1] = Climbed(s, key, m[k], k)
  <2> HIDE DEF leaf
  <2> QED
    BY RootClimbed
<1> DEFINE T == {k \in Nat : k <= XHeight => m[k] = XNode(k, Ancestor(q, k), seed, ps)}
<1>2. 0 \in T
  BY <1>0, <1>1, AncestorUnfolds
<1>3. ASSUME NEW k \in Nat, k \in T PROVE k + 1 \in T
  <2> SUFFICES ASSUME k + 1 <= XHeight
               PROVE  m[k + 1] = XNode(k + 1, Ancestor(q, k + 1), seed, ps)
    OBVIOUS
  <2> DEFINE a == Ancestor(q, k)
             b == Ancestor(q, k + 1)
  <2>1. k \in Places /\ k <= XHeight
    BY <1>0 DEF Places
  <2>2. m[k] = XNode(k, a, seed, ps)
    BY <1>3, <2>1
  <2>3. s.path[k] = XNode(k, Sibling(a), seed, ps)
    BY <2>1 DEF XSib
  <2>4. a \in Nat /\ b = a \div 2
    BY <1>0, AncestorUnfolds
  <2>5. m[k + 1] = Climbed(s, key, m[k], k)
    BY <1>1, <2>1
  <2>6. m[k + 1] = IF a % 2 = 0 THEN RandHash(m[k], s.path[k], ps, k, b)
                                ELSE RandHash(s.path[k], m[k], ps, k, b)
    BY <2>5 DEF Climbed
  <2> HIDE DEF a, b, ps
  <2>7. b \in Nat /\ (a % 2 = 0 => a = 2 * b) /\ (a % 2 # 0 => a = 2 * b + 1)
    BY <2>4
  <2>8. CASE a % 2 = 0
    <3>1. Sibling(a) = 2 * b + 1 /\ a = 2 * b
      BY <2>7, <2>8 DEF Sibling
    <3>2. m[k + 1] = RandHash(XNode(k, 2 * b, seed, ps), XNode(k, 2 * b + 1, seed, ps), ps, k, b)
      BY <2>2, <2>3, <2>6, <2>8, <3>1
    <3> QED
      BY <1>0, <2>7, <3>2, XSiblingsHashed DEF b
  <2>9. CASE a % 2 # 0
    <3>1. Sibling(a) = 2 * b /\ a = 2 * b + 1
      BY <2>4, <2>7, <2>9 DEF Sibling
    <3>2. m[k + 1] = RandHash(XNode(k, 2 * b, seed, ps), XNode(k, 2 * b + 1, seed, ps), ps, k, b)
      BY <2>2, <2>3, <2>6, <2>9, <3>1
    <3> QED
      BY <1>0, <2>7, <3>2, XSiblingsHashed DEF b
  <2> QED
    BY <2>8, <2>9
<1>4. Nat \subseteq T
  <2> HIDE DEF T
  <2> QED BY <1>2, <1>3, AllNumbers
<1>5. m[XHeight] = XNode(XHeight, Ancestor(q, XHeight), seed, ps)
  BY <1>0, <1>4
<1>6. Ancestor(q, XHeight) = 0
  <2>1. XHeight - XHeight = 0 /\ XHeight \in 0..XHeight /\ Pow2[0] = 1
    BY <1>0, Pow2Unfolds
  <2>2. Ancestor(q, XHeight) < Pow2[XHeight - XHeight]
    BY <1>0, <2>1, LevelSize DEF XLeaves
  <2>3. Ancestor(q, XHeight) \in Nat
    BY <1>0, AncestorUnfolds
  <2> QED
    BY <2>1, <2>2, <2>3
<1> QED
  BY <1>1, <1>5, <1>6

\* What a node of the climb can be: computed from the leaf, or no hash at all.
FromLeaf(x, leaf) == x = BadNode \/ (x \in FullNode /\ leaf \in FullNode /\ x.seed = leaf.seed)

\* The three kinds of nodes differ.
LEMMA NodesDiffer ==
    /\ BadNode \notin FullNode /\ NoNode \notin FullNode /\ BadNode # NoNode
<1>1. BadNode.height = -1 /\ NoNode.height = -2
  BY DEF BadNode, NoNode
<1>2. \A x \in FullNode : x.height \in Nat
  BY DEF FullNode
<1> HIDE DEF BadNode, NoNode, FullNode
<1> QED
  BY <1>1, <1>2

\* Both inputs of a hash that is not bad are of the same seed, and so is the hash.
LEMMA HashedFromBoth ==
    ASSUME NEW l \in AnyNode, NEW r \in AnyNode, NEW pseed, NEW c \in Nat, NEW b \in Int,
           RandHash(l, r, pseed, c, b) # BadNode
    PROVE  /\ l \in FullNode /\ r \in FullNode /\ r.seed = l.seed
           /\ RandHash(l, r, pseed, c, b) \in FullNode
           /\ RandHash(l, r, pseed, c, b).seed = l.seed
<1>1. /\ l # BadNode /\ l # NoNode /\ r = [l EXCEPT !.j = 2 * b + 1]
      /\ RandHash(l, r, pseed, c, b) = [l EXCEPT !.height = c + 1, !.j = b]
  BY DEF RandHash
<1>2. l \in FullNode
  BY <1>1 DEF AnyNode
<1> DEFINE x == 2 * b + 1
           d == c + 1
<1>3. x \in Int /\ d \in Nat
  OBVIOUS
<1> HIDE DEF x, d
<1>4. [l EXCEPT !.j = x] \in FullNode /\ [l EXCEPT !.j = x].seed = l.seed
  BY <1>2, <1>3 DEF FullNode
<1>5. [l EXCEPT !.height = d] \in FullNode /\ [l EXCEPT !.height = d].seed = l.seed
  BY <1>2, <1>3 DEF FullNode
<1> DEFINE u == [l EXCEPT !.height = d]
<1>6. [u EXCEPT !.j = b] \in FullNode /\ [u EXCEPT !.j = b].seed = u.seed
  <2>1. u \in FullNode
    BY <1>5
  <2> HIDE DEF u
  <2> QED
    BY <2>1 DEF FullNode
<1>7. [l EXCEPT !.height = d, !.j = b] = [u EXCEPT !.j = b]
  OBVIOUS
<1> QED
  BY <1>1, <1>2, <1>4, <1>5, <1>6, <1>7 DEF x, d

\* A turn of the climb keeps to the leaf's seed, whatever is on the path.
LEMMA ClimbKeepsLeaf ==
    ASSUME NEW s, s.path \in [Places -> AnyNode], s.idx \in Nat, NEW key, NEW leaf,
           NEW x, FromLeaf(x, leaf), NEW k \in Places
    PROVE  FromLeaf(Climbed(s, key, x, k), leaf)
<1> DEFINE p == s.path[k]
           b == Ancestor(s.idx, k + 1)
           y == Climbed(s, key, x, k)
<1>1. k \in Nat /\ k + 1 \in Nat /\ b \in Int /\ p \in AnyNode
  <2>1. k \in Nat /\ k + 1 \in Nat
    BY XMSSConstants DEF Places
  <2>2. b \in Nat
    BY <2>1, AncestorUnfolds
  <2> QED
    BY <2>1, <2>2
<1>2. x \in AnyNode
  BY DEF FromLeaf, AnyNode
<1>3. y = RandHash(x, p, key.pseed, k, b) \/ y = RandHash(p, x, key.pseed, k, b)
  BY DEF Climbed
<1> HIDE DEF p, b, y
<1>4. CASE y # BadNode
  <2>1. x \in FullNode /\ y \in FullNode /\ y.seed = x.seed
    BY <1>1, <1>2, <1>3, <1>4, HashedFromBoth
  <2> QED
    BY <2>1, NodesDiffer DEF FromLeaf, y
<1> QED
  BY <1>4 DEF FromLeaf, y

\* So does the whole climb.
LEMMA RootFromLeaf ==
    ASSUME NEW s, s.path \in [Places -> AnyNode], s.idx \in Nat, NEW key,
           NEW leaf \in FullNode \cup {BadNode}
    PROVE  FromLeaf(RootOf(s, leaf, key), leaf)
<1>1. PICK m : /\ m[0] = leaf /\ m[XHeight] = RootOf(s, leaf, key)
               /\ \A k \in Places : m[k + 1] = Climbed(s, key, m[k], k)
  BY RootClimbed
<1> DEFINE T == {k \in Nat : k <= XHeight => FromLeaf(m[k], leaf)}
<1>2. 0 \in T
  BY <1>1 DEF FromLeaf
<1>3. ASSUME NEW k \in Nat, k \in T PROVE k + 1 \in T
  <2> SUFFICES ASSUME k + 1 <= XHeight PROVE FromLeaf(m[k + 1], leaf)
    OBVIOUS
  <2>1. k \in Places /\ k <= XHeight
    BY XMSSConstants DEF Places
  <2>2. FromLeaf(m[k], leaf) /\ m[k + 1] = Climbed(s, key, m[k], k)
    BY <1>1, <1>3, <2>1
  <2> QED
    BY <2>1, <2>2, ClimbKeepsLeaf
<1>4. Nat \subseteq T
  <2> HIDE DEF T
  <2> QED BY <1>2, <1>3, AllNumbers
<1> QED
  BY <1>1, <1>4, XMSSConstants

-----------------------------------------------------------------------------
(* The invariant of the XMSS key pair.                                        *)

\* A key the private state holds is whole: only its seed is purged first.
XKeyHeld ==
    /\ xkeys \in 0..MaxXKeys
    /\ xprv = [idx |-> xprv.idx, seed |-> xprv.seed, prf |-> xprv.prf, pseed |-> xprv.pseed,
               root |-> xprv.root]
    /\ xprv.idx \in Nat /\ xprv.seed \in {Unfilled, Purged} \cup 1..MaxXKeys /\ xprv.pseed \in Int
    /\ xprv.seed > 0 => /\ xprv.pseed = xprv.seed
                        /\ xprv.root = XNode(XHeight, 0, xprv.seed, xprv.seed)

XPublic(p) == \/ p = [root |-> NoNode, pseed |-> Unfilled]
              \/ \E k \in 1..MaxXKeys : p = [root |-> XNode(XHeight, 0, k, k), pseed |-> k]

\* A one-time signature of a drawn key is on record under its message.
XRecorded(o) ==
    /\ o.seed \in Int /\ o.pseed \in Int
    /\ o.seed > 0 => [key |-> o.seed, idx |-> o.idx, digest |-> o.msg[4]] \in xused

XUsedKeys == \A u \in xused : u.key \in 1..MaxXKeys

XSigHeld ==
    /\ xsig = [idx |-> xsig.idx, r |-> xsig.r, ots |-> xsig.ots, path |-> xsig.path]
    /\ xsig.idx \in Nat /\ xsig.path \in [Places -> AnyNode]
    /\ xsig.ots = NoOts \/ XRecorded(xsig.ots)

\* The signature state holds the whole signature of digest d under key k.
XWhole(s, k, d) ==
    /\ s.idx < XLeaves
    /\ s.ots = [seed |-> k, pseed |-> k, idx |-> s.idx,
                msg |-> HMsg(s.r, XNode(XHeight, 0, k, k), s.idx, d)]
    /\ \A c \in Places : s.path[c] = XNode(c, XSib(s.idx, c), k, k)

XMadeHeld == xmade.key \in Int /\ (xmade.key > 0 => XWhole(xsig, xmade.key, xmade.digest))

XInv == XKeyHeld /\ XPublic(xpub) /\ XUsedKeys /\ XSigHeld /\ XMadeHeld

\* The seeds of no key.
LEMMA XSeeds == Unfilled = -1 /\ Purged = 0 /\ MaxXKeys \in Nat
BY XMSSConstants DEF Unfilled, Purged

\* Init.
LEMMA XInvInit == XMSSInit => XInv
<1> SUFFICES ASSUME XMSSInit PROVE XInv
  OBVIOUS
<1> USE DEF XMSSInit
<1>1. XKeyHeld
  BY XSeeds DEF XKeyHeld
<1>2. XPublic(xpub)
  BY DEF XPublic
<1>3. XUsedKeys
  BY DEF XUsedKeys
<1>4. XSigHeld
  BY DEF XSigHeld, EmptyPath, Places, AnyNode
<1>5. XMadeHeld
  BY XSeeds DEF XMadeHeld, NothingMade
<1> QED
  BY <1>1, <1>2, <1>3, <1>4, <1>5 DEF XInv

\* Nothing counts as made after the calls that touch the signature state.
LEMMA XNothingMade == ASSUME xmade' = NothingMade PROVE XMadeHeld'
BY XSeeds DEF XMadeHeld, NothingMade

\* ippsXMSSInitKeyPair and the calls that fill a state from the caller's bytes.
LEMMA XInvCalls ==
    ASSUME XInv, XInitKeyPair \/ XInitSignature \/ XSetPublicKeyState \/ XSetSignatureState
    PROVE  XInv'
<1> USE DEF XInv
<1>1. CASE XInitKeyPair
  <2>1. xprv' = [xprv EXCEPT !.idx = 0] /\ UNCHANGED <<xpub, xsig, xkeys, xused, xmade>>
    BY <1>1 DEF XInitKeyPair
  <2>2. XKeyHeld'
    BY <2>1 DEF XKeyHeld
  <2>3. XPublic(xpub)' /\ XUsedKeys' /\ XSigHeld' /\ XMadeHeld'
    BY <2>1 DEF XPublic, XUsedKeys, XSigHeld, XRecorded, XMadeHeld, XWhole, HMsg
  <2> QED
    BY <2>2, <2>3
<1>2. CASE XInitSignature
  <2>1. /\ xsig' = [xsig EXCEPT !.idx = 0] /\ xmade' = NothingMade
        /\ UNCHANGED <<xprv, xpub, xkeys, xused>>
    BY <1>2 DEF XInitSignature
  <2>2. XKeyHeld' /\ XPublic(xpub)' /\ XUsedKeys'
    BY <2>1 DEF XKeyHeld, XPublic, XUsedKeys
  <2>3. XSigHeld'
    BY <2>1 DEF XSigHeld, XRecorded
  <2> QED
    BY <2>1, <2>2, <2>3, XNothingMade
<1>3. CASE XSetPublicKeyState
  <2>1. PICK u \in xused : xpub' = [root |-> TreeRoot(u.key, u.key), pseed |-> u.key]
    BY <1>3 DEF XSetPublicKeyState
  <2>2. UNCHANGED <<xprv, xsig, xkeys, xused, xmade>>
    BY <1>3 DEF XSetPublicKeyState
  <2>3. u.key \in 1..MaxXKeys
    BY DEF XUsedKeys
  <2>4. TreeRoot(u.key, u.key) = XNode(XHeight, 0, u.key, u.key)
    BY <2>3, XRootNode, XSeeds
  <2>5. XPublic(xpub)'
    BY <2>1, <2>3, <2>4 DEF XPublic
  <2>6. XKeyHeld' /\ XUsedKeys' /\ XSigHeld' /\ XMadeHeld'
    BY <2>2 DEF XKeyHeld, XUsedKeys, XSigHeld, XRecorded, XMadeHeld, XWhole, HMsg
  <2> QED
    BY <2>5, <2>6
<1>4. CASE XSetSignatureState
  <2>1. PICK n \in 0..XLeaves : xsig' = [xsig EXCEPT !.idx = n]
    BY <1>4 DEF XSetSignatureState
  <2>2. xmade' = NothingMade /\ UNCHANGED <<xprv, xpub, xkeys, xused>>
    BY <1>4 DEF XSetSignatureState
  <2>3. XKeyHeld' /\ XPublic(xpub)' /\ XUsedKeys'
    BY <2>2 DEF XKeyHeld, XPublic, XUsedKeys
  <2>4. XSigHeld'
    BY <2>1, <2>2 DEF XSigHeld, XRecorded
  <2> QED
    BY <2>2, <2>3, <2>4, XNothingMade
<1> QED
  BY <1>1, <1>2, <1>3, <1>4

\* ippsXMSSKeyGen, whether or not its draws succeed.
LEMMA XInvKeyGen ==
    ASSUME XInv, XKeyGen
    PROVE  XInv'
<1> USE DEF XInv
<1>1. /\ xkeys < MaxXKeys /\ xkeys' = xkeys + 1
      /\ UNCHANGED <<xsig, xused, xmade>>
  BY DEF XKeyGen
<1>2. XUsedKeys' /\ XSigHeld' /\ XMadeHeld'
  BY <1>1 DEF XUsedKeys, XSigHeld, XRecorded, XMadeHeld, XWhole, HMsg
<1>3. xkeys' \in 1..MaxXKeys
  BY <1>1, XSeeds DEF XKeyHeld
<1> DEFINE k == xkeys'
           root == TreeRoot(k, k)
<1>4. root = XNode(XHeight, 0, k, k)
  BY <1>3, XRootNode
<1>5. \/ /\ xprv' = [idx |-> 0, seed |-> k, prf |-> k, pseed |-> k, root |-> root]
         /\ xpub' = [root |-> root, pseed |-> k]
      \/ xprv' \in PurgedSeeds /\ UNCHANGED xpub
  BY DEF XKeyGen
<1>6. CASE /\ xprv' = [idx |-> 0, seed |-> k, prf |-> k, pseed |-> k, root |-> root]
           /\ xpub' = [root |-> root, pseed |-> k]
  <2>1. XPublic(xpub)'
    BY <1>3, <1>4, <1>6 DEF XPublic
  <2>2. XKeyHeld'
    <3> HIDE DEF root
    <3> QED
      BY <1>3, <1>4, <1>6, XSeeds DEF XKeyHeld
  <2> QED
    BY <1>2, <2>1, <2>2
<1>7. CASE xprv' \in PurgedSeeds /\ UNCHANGED xpub
  <2>1. XPublic(xpub)'
    BY <1>7 DEF XPublic
  <2>2. /\ xprv'.idx = 0 /\ xprv'.seed = Purged /\ xprv'.pseed \in Int
        /\ xprv' = [idx |-> xprv'.idx, seed |-> xprv'.seed, prf |-> xprv'.prf,
                    pseed |-> xprv'.pseed, root |-> xprv'.root]
    <3> DEFINE u == xprv
    <3>1. u = [idx |-> u.idx, seed |-> u.seed, prf |-> u.prf, pseed |-> u.pseed, root |-> u.root]
          /\ u.pseed \in Int
      BY DEF XKeyHeld
    <3> DEFINE a == [u EXCEPT !.idx = 0, !.seed = Purged]
               b == [a EXCEPT !.prf = Purged]
               c == [b EXCEPT !.pseed = Purged]
    <3>2. xprv' = a \/ xprv' = b \/ xprv' = c
      BY <1>7 DEF PurgedSeeds
    <3> HIDE DEF u
    <3>3. a = [idx |-> 0, seed |-> Purged, prf |-> u.prf, pseed |-> u.pseed, root |-> u.root]
      <4> DEFINE e == [u EXCEPT !.idx = 0]
      <4>1. e = [idx |-> 0, seed |-> u.seed, prf |-> u.prf, pseed |-> u.pseed, root |-> u.root]
        BY <3>1
      <4>2. a = [e EXCEPT !.seed = Purged]
        OBVIOUS
      <4> HIDE DEF e, a
      <4> QED
        BY <4>1, <4>2
    <3> HIDE DEF a
    <3>4. b = [idx |-> 0, seed |-> Purged, prf |-> Purged, pseed |-> u.pseed, root |-> u.root]
      BY <3>3
    <3> HIDE DEF b
    <3>5. c = [idx |-> 0, seed |-> Purged, prf |-> Purged, pseed |-> Purged, root |-> u.root]
      BY <3>4
    <3> HIDE DEF c
    <3>6. CASE xprv' = a
      BY <3>1, <3>3, <3>6
    <3>7. CASE xprv' = b
      BY <3>1, <3>4, <3>7
    <3>8. CASE xprv' = c
      BY <3>5, <3>8, XSeeds
    <3> QED
      BY <3>2, <3>6, <3>7, <3>8
  <2>3. XKeyHeld'
    BY <1>3, <2>2, XSeeds DEF XKeyHeld
  <2> QED
    BY <1>2, <2>1, <2>3
<1> QED
  BY <1>5, <1>6, <1>7

\* The path of a turn of ippsXMSSSign.
LEMMA XPathDoneTyped ==
    ASSUME XInv, xprv.idx < XLeaves, NEW n \in 0..XLeaves
    PROVE  /\ PathDone(n) \in [Places -> AnyNode]
           /\ n = XLeaves => \A c \in Places :
                PathDone(n)[c] = XNode(c, XSib(xprv.idx, c), xprv.seed, xprv.pseed)
<1>1. xsig.path \in [Places -> AnyNode] /\ xprv.idx \in Nat /\ xprv.seed \in Int /\ xprv.pseed \in Int
  BY XSeeds DEF XInv, XSigHeld, XKeyHeld
<1> QED
  BY <1>1, XPathDone DEF PathDone

\* Taking the index keeps the key.
LEMMA XIndexTaken ==
    ASSUME XInv, IndexTaken
    PROVE  XKeyHeld' /\ XPublic(xpub)'
<1> USE DEF XInv
<1>1. xprv' = [xprv EXCEPT !.idx = @ + 1] /\ UNCHANGED <<xpub, xkeys>>
  BY DEF IndexTaken
<1>2. XPublic(xpub)'
  BY <1>1 DEF XPublic
<1> QED
  BY <1>1, <1>2 DEF XKeyHeld

\* ippsXMSSSign that fails before the one-time signature.
LEMMA XInvFails ==
    ASSUME XInv, XSignFailsEarly
    PROVE  XInv'
<1>1. IndexTaken /\ xmade' = NothingMade /\ UNCHANGED xused
  BY DEF XSignFailsEarly
<1>2. \/ xsig' = [xsig EXCEPT !.idx = xprv.idx, !.r = BadR]
      \/ \E n \in 0..XLeaves - 1 :
            xsig' = [xsig EXCEPT !.idx = xprv.idx, !.r = Randomizer, !.path = PathDone(n)]
  BY DEF XSignFailsEarly
<1>3. XUsedKeys'
  BY <1>1 DEF XInv, XUsedKeys
<1>4. xprv.idx \in Nat /\ xprv.idx < XLeaves
  BY <1>1 DEF XInv, XKeyHeld, IndexTaken
<1>5. XSigHeld'
  <2>1. CASE xsig' = [xsig EXCEPT !.idx = xprv.idx, !.r = BadR]
    BY <1>1, <1>4, <2>1 DEF XInv, XSigHeld, XRecorded
  <2>2. CASE \E n \in 0..XLeaves - 1 :
               xsig' = [xsig EXCEPT !.idx = xprv.idx, !.r = Randomizer, !.path = PathDone(n)]
    <3>1. PICK n \in 0..XLeaves - 1 :
               xsig' = [xsig EXCEPT !.idx = xprv.idx, !.r = Randomizer, !.path = PathDone(n)]
      BY <2>2
    <3>2. n \in 0..XLeaves
      BY Pow2Unfolds, XMSSConstants DEF XLeaves
    <3> DEFINE p == PathDone(n)
    <3>3. p \in [Places -> AnyNode]
      BY <1>4, <3>2, XPathDoneTyped
    <3> HIDE DEF p
    <3>4. xsig' = [xsig EXCEPT !.idx = xprv.idx, !.r = Randomizer, !.path = p]
      BY <3>1 DEF p
    <3> QED
      BY <1>1, <1>4, <3>3, <3>4 DEF XInv, XSigHeld, XRecorded
  <2> QED
    BY <1>2, <2>1, <2>2
<1> QED
  BY <1>1, <1>3, <1>5, XIndexTaken, XNothingMade DEF XInv

\* ippsXMSSSign that computes the one-time signature, in full or in part.
LEMMA XInvCompletes ==
    ASSUME XInv, XSignCompletes
    PROVE  XInv'
<1> DEFINE d == xdigests'
           p == PathDone(XLeaves)
           o == Ots(Randomizer, d)
           signed == [idx |-> xprv.idx, r |-> Randomizer, ots |-> o, path |-> p]
<1>1. /\ IndexTaken /\ xused' = xused \cup OneTimeUse(d)
      /\ \/ xsig' = signed /\ \E m \in MessageHashes :
                                xmade' = [key |-> xprv.seed, digest |-> d, hash |-> m]
         \/ xsig' = [signed EXCEPT !.ots = NoOts] /\ xmade' = NothingMade
  BY DEF XSignCompletes
<1>2. /\ xprv.idx \in Nat /\ xprv.idx < XLeaves /\ xprv.pseed \in Int
      /\ xprv.seed \in {Unfilled, Purged} \cup 1..MaxXKeys
      /\ xprv.seed > 0 => /\ xprv.pseed = xprv.seed
                          /\ xprv.root = XNode(XHeight, 0, xprv.seed, xprv.seed)
  BY <1>1 DEF XInv, XKeyHeld, IndexTaken
<1>3. /\ p \in [Places -> AnyNode]
      /\ \A c \in Places : p[c] = XNode(c, XSib(xprv.idx, c), xprv.seed, xprv.pseed)
  <2>1. XLeaves \in 0..XLeaves
    BY Pow2Unfolds, XMSSConstants DEF XLeaves
  <2> QED
    BY <1>2, <2>1, XPathDoneTyped
<1>4. XUsedKeys'
  BY <1>1 DEF XInv, XUsedKeys, OneTimeUse, Drawn
<1>5. /\ o.seed \in Int /\ o.pseed \in Int
      /\ o.seed > 0 => [key |-> o.seed, idx |-> o.idx, digest |-> o.msg[4]] \in xused'
  <2>1. o = [seed |-> xprv.seed, pseed |-> xprv.pseed, idx |-> xprv.idx,
             msg |-> <<Randomizer, xprv.root, xprv.idx, d>>]
    BY DEF Ots, HMsg
  <2>2. xprv.seed > 0 => [key |-> xprv.seed, idx |-> xprv.idx, digest |-> d] \in OneTimeUse(d)
    BY <1>2, XSeeds DEF OneTimeUse, Drawn
  <2> HIDE DEF o, d
  <2> QED
    BY <1>1, <1>2, <2>1, <2>2, XSeeds
<1>6. XKeyHeld' /\ XPublic(xpub)'
  BY <1>1, XIndexTaken
<1>7. CASE /\ xsig' = signed
           /\ \E m \in MessageHashes : xmade' = [key |-> xprv.seed, digest |-> d, hash |-> m]
  <2>1. /\ xsig'.ots = o /\ xsig'.idx = xprv.idx /\ xsig'.r = Randomizer /\ xsig'.path = p
        /\ xsig' = [idx |-> xsig'.idx, r |-> xsig'.r, ots |-> xsig'.ots, path |-> xsig'.path]
    <3> HIDE DEF o, p, d
    <3> QED
      BY <1>7
  <2>2. xmade'.key = xprv.seed /\ xmade'.digest = d
    BY <1>7
  <2>3. XSigHeld'
    <3> HIDE DEF o, p, d
    <3> QED
      BY <1>2, <1>3, <1>5, <2>1 DEF XSigHeld, XRecorded
  <2>4. ASSUME xprv.seed > 0
        PROVE  XWhole(xsig', xprv.seed, d)
    <3>1. o = [seed |-> xprv.seed, pseed |-> xprv.seed, idx |-> xprv.idx,
               msg |-> HMsg(Randomizer, XNode(XHeight, 0, xprv.seed, xprv.seed), xprv.idx, d)]
      BY <1>2, <2>4 DEF Ots
    <3>2. \A c \in Places : p[c] = XNode(c, XSib(xprv.idx, c), xprv.seed, xprv.seed)
      BY <1>2, <1>3, <2>4
    <3> HIDE DEF o, p, d
    <3> QED
      BY <1>2, <2>1, <3>1, <3>2 DEF XWhole
  <2>5. xprv.seed \in Int
    BY <1>2, XSeeds
  <2>6. XMadeHeld'
    <3> HIDE DEF o, p, d
    <3> QED
      BY <2>2, <2>4, <2>5 DEF XMadeHeld
  <2> QED
    BY <1>4, <1>6, <2>3, <2>6 DEF XInv
<1>8. CASE xsig' = [signed EXCEPT !.ots = NoOts] /\ xmade' = NothingMade
  <2>1. XSigHeld'
    <3> HIDE DEF o, p, d
    <3>1. xsig' = [idx |-> xprv.idx, r |-> Randomizer, ots |-> NoOts, path |-> p]
      BY <1>8
    <3> QED
      BY <1>2, <1>3, <3>1 DEF XSigHeld
  <2> QED
    BY <1>4, <1>6, <1>8, <2>1, XNothingMade DEF XInv
<1> QED
  BY <1>1, <1>7, <1>8

\* No call breaks the invariant.
LEMMA XInvNext == ASSUME XInv, [XMSSNext]_xmssVars PROVE XInv'
<1>1. CASE XMSSNext
  BY <1>1, XInvCalls, XInvKeyGen, XInvFails, XInvCompletes DEF XMSSNext
<1>2. CASE UNCHANGED xmssVars
  BY <1>2 DEF xmssVars, XInv, XKeyHeld, XPublic, XUsedKeys, XSigHeld, XRecorded, XMadeHeld, XWhole, HMsg
<1> QED
  BY <1>1, <1>2

\* What verifies was signed: the climb ends in the root of the public key
\* only from a leaf of that key, under the message its one-time signature is of.
LEMMA XVerifiedIsSigned ==
    ASSUME XInv, NEW d, XVerify(xsig, d, xpub)
    PROVE  \E u \in xused : u.key = xpub.pseed /\ u.idx = xsig.idx /\ u.digest = d
<1> DEFINE leaf == LeafOf(xsig, d, xpub)
           o == xsig.ots
           root == xpub.root
<1>1. xsig.idx \in Nat /\ xsig.path \in [Places -> AnyNode] /\ (o = NoOts \/ XRecorded(o))
  BY DEF XInv, XSigHeld
<1>2. \/ root = NoNode
      \/ xpub.pseed \in 1..MaxXKeys /\ root = XNode(XHeight, 0, xpub.pseed, xpub.pseed)
  BY DEF XInv, XPublic
<1>3. RootOf(xsig, leaf, xpub) = root
  BY DEF XVerify
<1>4. leaf = BadNode \/ (leaf = XLeaf(o.seed, xpub.pseed, xsig.idx) /\ o # NoOts /\ o.pseed = xpub.pseed
                         /\ o.idx = xsig.idx /\ o.msg = HMsg(xsig.r, root, xsig.idx, d))
  BY DEF LeafOf
<1> HIDE DEF leaf, o, root
<1>5. leaf \in FullNode \cup {BadNode}
  BY <1>1, <1>4 DEF XRecorded, XLeaf, FullNode
<1>6. FromLeaf(root, leaf)
  BY <1>1, <1>3, <1>5, RootFromLeaf
<1>7. root # NoNode
  BY <1>6, NodesDiffer DEF FromLeaf
<1>8. root \in FullNode /\ root.seed = xpub.pseed /\ xpub.pseed \in 1..MaxXKeys
  BY <1>2, <1>7, XSeeds, XMSSConstants DEF XNode, FullNode
<1>9. leaf \in FullNode /\ root.seed = leaf.seed
  BY <1>6, <1>8, NodesDiffer DEF FromLeaf
<1>10. leaf # BadNode
  BY <1>9, NodesDiffer
<1>11. leaf.seed = o.seed /\ o.idx = xsig.idx /\ o.msg[4] = d /\ XRecorded(o)
  BY <1>1, <1>4, <1>10 DEF XLeaf, HMsg
<1>12. [key |-> o.seed, idx |-> o.idx, digest |-> o.msg[4]] \in xused
  BY <1>8, <1>9, <1>11, XSeeds DEF XRecorded
<1> QED
  BY <1>8, <1>9, <1>11, <1>12

\* What was just signed verifies under the public key of the key that signed.
LEMMA XSignedVerifies ==
    ASSUME XInv, xmade.key > 0, xmade.key = xpub.pseed
    PROVE  XVerify(xsig, xmade.digest, xpub)
<1> DEFINE k == xmade.key
           d == xmade.digest
           root == XNode(XHeight, 0, k, k)
<1>1. k \in Int /\ XWhole(xsig, k, d) /\ xsig.idx \in Nat
  BY DEF XInv, XMadeHeld, XSigHeld
<1>2. xpub.root = root /\ xpub.pseed = k
  BY <1>1, XSeeds DEF XInv, XPublic
<1>3. xsig.ots # NoOts
  <2>1. xsig.ots.seed = k /\ NoOts.seed = -1
    BY <1>1, XSeeds DEF XWhole, NoOts
  <2> HIDE DEF NoOts
  <2> QED
    BY <1>1, <2>1
<1>4. /\ xsig.ots.seed = k /\ xsig.ots.pseed = k /\ xsig.ots.idx = xsig.idx
      /\ xsig.ots.msg = HMsg(xsig.r, root, xsig.idx, d)
  BY <1>1 DEF XWhole
<1>5. LeafOf(xsig, d, xpub) = XNode(0, xsig.idx, k, k)
  <2> HIDE DEF k, d, root
  <2> QED
    BY <1>2, <1>3, <1>4 DEF LeafOf, XLeaf, XNode
<1>6. xsig.idx < XLeaves /\ \A c \in Places : xsig.path[c] = XNode(c, XSib(xsig.idx, c), k, xpub.pseed)
  BY <1>1, <1>2 DEF XWhole
<1>7. RootOf(xsig, XNode(0, xsig.idx, k, xpub.pseed), xpub) = XNode(XHeight, 0, k, xpub.pseed)
  <2> HIDE DEF k
  <2> QED
    BY <1>1, <1>2, <1>6, PathVerifies
<1> QED
  BY <1>2, <1>5, <1>7 DEF XVerify

\* ippsXMSSVerify accepts the signature just made under the public key of its
\* key; and whatever calls, failures, new keys and foreign indexes have left in
\* the signature state, it accepts only a message that was signed with the key
\* it verifies under, at the index the signature names: for trees of every
\* height.
THEOREM XMSSVerifiesAsSigned == XMSSSpec => []XMSSVerifiesWhatWasSigned
<1>1. XMSSInit => XInv
  BY XInvInit
<1>2. XInv /\ [XMSSNext]_xmssVars => XInv'
  BY XInvNext
<1>3. XInv => XMSSVerifiesWhatWasSigned
  <2> SUFFICES ASSUME XInv PROVE XMSSVerifiesWhatWasSigned
    OBVIOUS
  <2>1. ASSUME NEW d, d = xmade.digest, xmade.key > 0, xmade.key = xpub.pseed
        PROVE  XVerify(xsig, d, xpub)
    BY <2>1, XSignedVerifies
  <2>2. ASSUME NEW d, XVerify(xsig, d, xpub)
        PROVE  \E u \in xused : u.key = xpub.pseed /\ u.idx = xsig.idx /\ u.digest = d
    BY <2>2, XVerifiedIsSigned
  <2> QED
    BY <2>1, <2>2 DEF XMSSVerifiesWhatWasSigned
<1> QED
  BY <1>1, <1>2, <1>3, PTL DEF XMSSSpec
=============================================================================
