--------------------------- MODULE MLStorage_proofs ---------------------------
(* Every call of ML-KEM and ML-DSA leaves the working buffer cleared, and no   *)
(* call that runs in a buffer of the size its size function returned is        *)
(* refused a block of it, for every size of a hash state and every length of   *)
(* a message.                                                                  *)
EXTENDS MLStorage, WellFoundedInduction, SequenceTheorems, TLAPS

-----------------------------------------------------------------------------
(* Induction, for sets of numbers. *)

Less == {x \in Nat \X Nat : x[1] < x[2]}

\* There is no endless descent through the natural numbers.
LEMMA LessWellFounded == IsWellFoundedOn(Less, Nat)
BY NatLessThanWellFounded DEF OpToRel, Less

\* A set of natural numbers has a least element.
LEMMA LeastNumber ==
    ASSUME NEW T, T \subseteq Nat, T # {}
    PROVE  \E x \in T : \A y \in T : x <= y
<1>1. \E x \in T : \A y \in T : ~(<<y, x>> \in Less)
  BY LessWellFounded, WFMin, Zenon
<1>2. PICK x \in T : \A y \in T : ~(<<y, x>> \in Less)
  BY <1>1
<1>3. ASSUME NEW y \in T PROVE x <= y
  <2>1. x \in Nat /\ y \in Nat /\ ~(<<y, x>> \in Less)
    BY <1>2
  <2> QED
    BY <2>1 DEF Less
<1> QED
  BY <1>3

\* A set with 0 and the successor of each of its numbers has all of them.
LEMMA AllNumbers ==
    ASSUME NEW T, 0 \in T, \A n \in Nat : n \in T => n + 1 \in T
    PROVE  Nat \subseteq T
<1> SUFFICES ASSUME NEW x \in Nat, x \notin T PROVE FALSE
  OBVIOUS
<1> DEFINE U == {n \in Nat : n \notin T}
<1>1. U \subseteq Nat /\ U # {}
  OBVIOUS
<1>2. PICK n \in U : \A m \in U : n <= m
  <2> HIDE DEF U
  <2> QED BY <1>1, LeastNumber
<1>3. n \in Nat /\ n # 0
  OBVIOUS
<1>4. n - 1 \in Nat /\ n - 1 \notin U
  BY <1>2, <1>3
<1>5. n - 1 \in T
  BY <1>4
<1>6. n - 1 + 1 \in T /\ n - 1 + 1 = n
  BY <1>3, <1>4, <1>5
<1> QED
  BY <1>6

-----------------------------------------------------------------------------
(* The storage of ML-KEM and ML-DSA: what scripts are made of.                *)

\* What an entry of a script does.
Deeds == {"take", "give", "giveall", "try", "either", "goto", "turn", "lastturn"}

ScriptEntries == [do : Deeds, ns : Seq(Nat), free : BOOLEAN, skip : Int, lost : BOOLEAN]

\* No entry leads before the first one, and what is given back has a size.
Sound(s) ==
    /\ s \in Seq(ScriptEntries)
    /\ \A j \in 1..Len(s) : s[j].skip >= -j /\ (s[j].do = "give" => Len(s[j].ns) >= 1)

\* An entry that may come anywhere.
Harmless(e) ==
    e \in ScriptEntries /\ e.skip >= -1 /\ (e.do = "give" => Len(e.ns) >= 1)

\* Positions in what comes second only grow.
LEMMA SoundJoined ==
    ASSUME NEW s, NEW t, Sound(s), Sound(t)
    PROVE  Sound(s \o t)
<1> DEFINE r == s \o t
<1>1. s \in Seq(ScriptEntries) /\ t \in Seq(ScriptEntries) /\ Len(s) \in Nat /\ Len(t) \in Nat
  BY DEF Sound
<1>2. /\ r \in Seq(ScriptEntries) /\ Len(r) = Len(s) + Len(t)
      /\ \A j \in 1..Len(s) + Len(t) : r[j] = IF j <= Len(s) THEN s[j] ELSE t[j - Len(s)]
  BY <1>1, ConcatProperties
<1> HIDE DEF r
<1>3. ASSUME NEW j \in 1..Len(r)
      PROVE  r[j].skip >= -j /\ (r[j].do = "give" => Len(r[j].ns) >= 1)
  <2>1. CASE j <= Len(s)
    <3>1. j \in 1..Len(s) /\ j \in 1..Len(s) + Len(t)
      BY <1>1, <1>2, <2>1
    <3>2. r[j] = s[j]
      BY <1>2, <2>1, <3>1
    <3> QED
      BY <3>1, <3>2 DEF Sound
  <2>2. CASE j > Len(s)
    <3> DEFINE k == j - Len(s)
    <3>1. k \in 1..Len(t) /\ k <= j /\ j \in 1..Len(s) + Len(t) /\ ~(j <= Len(s))
      BY <1>1, <1>2, <2>2
    <3>2. r[j] = t[k]
      BY <1>2, <3>1
    <3> HIDE DEF k
    <3>3. t[k].skip >= -k /\ (t[k].do = "give" => Len(t[k].ns) >= 1) /\ t[k] \in ScriptEntries
      BY <1>1, <3>1 DEF Sound
    <3>4. t[k].skip \in Int
      BY <3>3 DEF ScriptEntries
    <3> QED
      BY <3>1, <3>2, <3>3, <3>4
  <2> QED
    BY <1>1, <1>2, <2>1, <2>2
<1> QED
  BY <1>2, <1>3 DEF Sound, r

\* A harmless entry is a sound script.
LEMMA SoundEntry ==
    ASSUME NEW e, Harmless(e)
    PROVE  Sound(<<e>>)
<1> DEFINE s == <<e>>
<1>1. e \in ScriptEntries /\ e.skip >= -1 /\ (e.do = "give" => Len(e.ns) >= 1)
  BY DEF Harmless
<1>2. s \in Seq(ScriptEntries) /\ Len(s) = 1 /\ s[1] = e
  BY <1>1
<1> HIDE DEF s
<1> QED
  BY <1>1, <1>2 DEF Sound, s

\* A script with no entries.
LEMMA SoundEmpty == Sound(<<>>)
<1>1. <<>> \in Seq(ScriptEntries) /\ Len(<<>>) = 0 /\ 1..0 = {}
  OBVIOUS
<1> QED
  BY <1>1 DEF Sound

\* The two ways to resolve errors inside a function.
LEMMA SoundResolved ==
    ASSUME NEW s, Sound(s)
    PROVE  Sound(To(s)) /\ Sound(Lost(s))
<1>1. s \in Seq(ScriptEntries) /\ Len(s) \in Nat /\ DOMAIN s = 1..Len(s)
  BY DEF Sound
<1>2. ASSUME NEW f, DOMAIN f = 1..Len(s), f = [j \in 1..Len(s) |-> f[j]],
             \A j \in 1..Len(s) : f[j] \in ScriptEntries /\ f[j].skip >= -j
                                  /\ (f[j].do = "give" => Len(f[j].ns) >= 1)
      PROVE  Sound(f)
  <2>1. f \in Seq(ScriptEntries) /\ Len(f) = Len(s)
    BY <1>1, <1>2
  <2> QED
    BY <1>2, <2>1 DEF Sound
<1>3. ASSUME NEW j \in 1..Len(s), NEW b \in BOOLEAN
      PROVE  LET e == s[j]
                 d == [e EXCEPT !.skip = Len(s) - j]
                 l == [e EXCEPT !.skip = Len(s) - j, !.lost = TRUE]
             IN /\ e \in ScriptEntries /\ e.skip >= -j /\ (e.do = "give" => Len(e.ns) >= 1)
                /\ d \in ScriptEntries /\ d.skip >= -j /\ (d.do = "give" => Len(d.ns) >= 1)
                /\ l \in ScriptEntries /\ l.skip >= -j /\ (l.do = "give" => Len(l.ns) >= 1)
  <2> DEFINE e == s[j]
             n == Len(s) - j
  <2>1. e \in ScriptEntries /\ e.skip >= -j /\ (e.do = "give" => Len(e.ns) >= 1)
    BY <1>1 DEF Sound
  <2>2. n \in Int /\ n >= 0 /\ n >= -j
    BY <1>1
  <2> HIDE DEF e, n
  <2> DEFINE d == [e EXCEPT !.skip = n]
  <2>3. d \in ScriptEntries /\ d.skip = n /\ d.do = e.do /\ d.ns = e.ns
    BY <2>1, <2>2 DEF ScriptEntries
  <2> HIDE DEF d
  <2> DEFINE l == [d EXCEPT !.lost = TRUE]
  <2>4. l \in ScriptEntries /\ l.skip = n /\ l.do = e.do /\ l.ns = e.ns
    BY <2>3 DEF ScriptEntries
  <2> HIDE DEF l
  <2>5. /\ d.skip >= -j /\ (d.do = "give" => Len(d.ns) >= 1)
        /\ l.skip >= -j /\ (l.do = "give" => Len(l.ns) >= 1)
    BY <2>1, <2>2, <2>3, <2>4
  <2>6. l = [e EXCEPT !.skip = n, !.lost = TRUE]
    BY DEF l, d
  <2> QED
    BY <2>1, <2>3, <2>4, <2>5, <2>6 DEF d, e, n
<1>4. Sound(To(s))
  <2> DEFINE f == To(s)
  <2>1. f = [j \in 1..Len(s) |-> IF s[j].skip = Out THEN [s[j] EXCEPT !.skip = Len(s) - j] ELSE s[j]]
    BY <1>1 DEF To
  <2>2. ASSUME NEW j \in 1..Len(s)
        PROVE  f[j] \in ScriptEntries /\ f[j].skip >= -j /\ (f[j].do = "give" => Len(f[j].ns) >= 1)
    <3>1. f[j] = s[j] \/ f[j] = [s[j] EXCEPT !.skip = Len(s) - j]
      BY <2>1
    <3> HIDE DEF f
    <3> QED
      BY <1>3, <3>1
  <2>3. DOMAIN f = 1..Len(s) /\ f = [j \in 1..Len(s) |-> f[j]]
    BY <2>1
  <2> HIDE DEF f
  <2>4. Sound(f)
    BY <1>2, <2>2, <2>3
  <2> QED
    BY <2>4 DEF f
<1>5. Sound(Lost(s))
  <2> DEFINE f == Lost(s)
  <2>1. f = [j \in 1..Len(s) |-> IF s[j].skip = Out
                                 THEN [s[j] EXCEPT !.skip = Len(s) - j, !.lost = TRUE] ELSE s[j]]
    BY <1>1 DEF Lost
  <2>2. ASSUME NEW j \in 1..Len(s)
        PROVE  f[j] \in ScriptEntries /\ f[j].skip >= -j /\ (f[j].do = "give" => Len(f[j].ns) >= 1)
    <3>1. f[j] = s[j] \/ f[j] = [s[j] EXCEPT !.skip = Len(s) - j, !.lost = TRUE]
      BY <2>1
    <3> HIDE DEF f
    <3> QED
      BY <1>3, <3>1
  <2>3. DOMAIN f = 1..Len(s) /\ f = [j \in 1..Len(s) |-> f[j]]
    BY <2>1
  <2> HIDE DEF f
  <2>4. Sound(f)
    BY <1>2, <2>2, <2>3
  <2> QED
    BY <2>4 DEF f
<1> QED
  BY <1>4, <1>5

\* An entry from its parts.
Made(do, ns, free, skip, lost) ==
    [do |-> do, ns |-> ns, free |-> free, skip |-> skip, lost |-> lost]

\* An entry of any kind.
LEMMA HarmlessEntry ==
    ASSUME NEW do \in Deeds, NEW ns \in Seq(Nat), NEW free \in BOOLEAN, NEW skip \in Int,
           NEW lost \in BOOLEAN, skip >= -1, do = "give" => Len(ns) >= 1
    PROVE  Harmless(Made(do, ns, free, skip, lost))
<1> DEFINE e == Made(do, ns, free, skip, lost)
           T == Seq(Nat)
<1>1. ns \in T
  OBVIOUS
<1> HIDE DEF T
<1>2. e \in [do : Deeds, ns : T, free : BOOLEAN, skip : Int, lost : BOOLEAN]
      /\ e.skip = skip /\ e.do = do /\ e.ns = ns
  BY <1>1 DEF Made
<1> HIDE DEF e
<1>3. e \in ScriptEntries
  BY <1>2 DEF ScriptEntries, T
<1>4. e.skip >= -1 /\ (e.do = "give" => Len(e.ns) >= 1)
  BY <1>2
<1> QED
  BY <1>3, <1>4 DEF Harmless, e

\* The entries scripts are made of.
LEMMA SoundParts ==
    /\ \A ns \in Seq(Nat) : Sound(Take(ns))
    /\ \A n \in Nat : Sound(TakeOrFree(n)) /\ Sound(Give(n)) /\ Sound(Either(n)) /\ Sound(Goto(n))
                      /\ Sound(Take(<<n>>))
    /\ Sound(GiveAll) /\ Sound(Try) /\ Sound(Leave) /\ Sound(LastTurn)
<1> DEFINE o == <<>>
<1>0. Out \in Int /\ Out >= -1 /\ o \in Seq(Nat)
  BY DEF Out
<1>00. /\ TRUE \in BOOLEAN /\ FALSE \in BOOLEAN
       /\ "take" \in Deeds /\ "give" \in Deeds /\ "either" \in Deeds /\ "goto" \in Deeds
       /\ "giveall" \in Deeds /\ "try" \in Deeds /\ "lastturn" \in Deeds
  BY DEF Deeds
<1>01. /\ "take" # "give" /\ "either" # "give" /\ "goto" # "give"
       /\ "giveall" # "give" /\ "try" # "give" /\ "lastturn" # "give"
  BY Zenon
<1> HIDE DEF o
<1>1. ASSUME NEW ns \in Seq(Nat) PROVE Sound(Take(ns))
  <2>1. Harmless(Made("take", ns, FALSE, Out, FALSE))
    <3> HIDE DEF Out
    <3> QED
      BY <1>0, <1>00, <1>01, HarmlessEntry, Zenon
  <2>2. Take(ns) = <<Made("take", ns, FALSE, Out, FALSE)>>
    BY DEF Take, Entry, Made
  <2> QED
    BY <2>1, <2>2, SoundEntry
<1>2. ASSUME NEW n \in Nat
      PROVE  Sound(TakeOrFree(n)) /\ Sound(Give(n)) /\ Sound(Either(n)) /\ Sound(Goto(n))
             /\ Sound(Take(<<n>>))
  <2> DEFINE ns == <<n>>
  <2>1. ns \in Seq(Nat) /\ Len(ns) >= 1 /\ n \in Int /\ n >= -1
    OBVIOUS
  <2> HIDE DEF ns
  <2>2. /\ Harmless(Made("take", ns, TRUE, Out, FALSE)) /\ Harmless(Made("give", ns, FALSE, Out, FALSE))
    <3> HIDE DEF Out
    <3> QED
      BY <1>0, <1>00, <1>01, <2>1, HarmlessEntry, Zenon
  <2>3. Harmless(Made("either", o, FALSE, n, FALSE)) /\ Harmless(Made("goto", o, FALSE, n, FALSE))
    BY <1>0, <1>00, <1>01, <2>1, HarmlessEntry, Zenon
  <2>4. /\ TakeOrFree(n) = <<Made("take", ns, TRUE, Out, FALSE)>>
        /\ Give(n) = <<Made("give", ns, FALSE, Out, FALSE)>>
    BY DEF TakeOrFree, Give, Entry, Made, ns
  <2>5. /\ Either(n) = <<Made("either", o, FALSE, n, FALSE)>>
        /\ Goto(n) = <<Made("goto", o, FALSE, n, FALSE)>>
    <3> DEFINE u == Made("either", o, FALSE, Out, FALSE)
               w == Made("goto", o, FALSE, Out, FALSE)
    <3>1. Either(n) = <<[u EXCEPT !.skip = n]>> /\ Goto(n) = <<[w EXCEPT !.skip = n]>>
      BY DEF Either, Goto, Entry, Made, o
    <3>2. [u EXCEPT !.skip = n] = Made("either", o, FALSE, n, FALSE)
      <4>1. \A f, k : [Made("either", o, f, Out, k) EXCEPT !.skip = n] = Made("either", o, f, n, k)
        BY DEF Made
      <4> QED
        BY <4>1, Zenon
    <3>3. [w EXCEPT !.skip = n] = Made("goto", o, FALSE, n, FALSE)
      <4>1. \A f, k : [Made("goto", o, f, Out, k) EXCEPT !.skip = n] = Made("goto", o, f, n, k)
        BY DEF Made
      <4> QED
        BY <4>1, Zenon
    <3> HIDE DEF u, w
    <3> QED
      BY <3>1, <3>2, <3>3
  <2>6. Sound(TakeOrFree(n)) /\ Sound(Give(n)) /\ Sound(Either(n)) /\ Sound(Goto(n))
    BY <2>2, <2>3, <2>4, <2>5, SoundEntry
  <2>7. Sound(Take(ns))
    BY <1>1, <2>1
  <2> QED
    BY <2>6, <2>7 DEF ns
<1>3. Sound(GiveAll) /\ Sound(Try) /\ Sound(Leave) /\ Sound(LastTurn)
  <2>1. /\ Harmless(Made("giveall", o, FALSE, Out, FALSE)) /\ Harmless(Made("try", o, FALSE, Out, FALSE))
        /\ Harmless(Made("try", o, FALSE, Out, TRUE)) /\ Harmless(Made("lastturn", o, FALSE, Out, FALSE))
    <3> HIDE DEF Out
    <3> QED
      BY <1>0, <1>00, <1>01, HarmlessEntry, Zenon
  <2>2. /\ GiveAll = <<Made("giveall", o, FALSE, Out, FALSE)>>
        /\ Try = <<Made("try", o, FALSE, Out, FALSE)>>
        /\ Leave = <<Made("try", o, FALSE, Out, TRUE)>>
        /\ LastTurn = <<Made("lastturn", o, FALSE, Out, FALSE)>>
    <3> DEFINE u == Made("try", o, FALSE, Out, FALSE)
    <3>1. Leave = <<[u EXCEPT !.lost = TRUE]>>
      BY DEF Leave, Entry, Made, o
    <3>2. [u EXCEPT !.lost = TRUE] = Made("try", o, FALSE, Out, TRUE)
      <4>1. \A f, k, m : [Made("try", o, f, Out, k) EXCEPT !.lost = m] = Made("try", o, f, Out, m)
        BY DEF Made
      <4> QED
        BY <4>1, Zenon
    <3>3. GiveAll = <<Made("giveall", o, FALSE, Out, FALSE)>>
      BY DEF GiveAll, Entry, Made, o
    <3>4. Try = <<Made("try", o, FALSE, Out, FALSE)>>
      BY DEF Try, Entry, Made, o
    <3>5. LastTurn = <<Made("lastturn", o, FALSE, Out, FALSE)>>
      BY DEF LastTurn, Entry, Made, o
    <3>6. Leave = <<Made("try", o, FALSE, Out, TRUE)>>
      <4> HIDE DEF u
      <4> QED
        BY <3>1, <3>2
    <3> QED
      BY <3>3, <3>4, <3>5, <3>6
  <2> QED
    BY <2>1, <2>2, SoundEntry
<1> QED
  BY <1>1, <1>2, <1>3

\* The rejection loop begins again where it began.
LEMMA SoundLoop ==
    ASSUME NEW s, Sound(s)
    PROVE  Sound(s \o Turn(Len(s) + 1))
<1> DEFINE t == Turn(Len(s) + 1)
           r == s \o t
           e == t[1]
           n == -(Len(s) + 1)
<1>1. s \in Seq(ScriptEntries) /\ Len(s) \in Nat /\ n \in Int
  BY DEF Sound
<1> DEFINE o == <<>>
           d == Made("turn", o, FALSE, n, FALSE)
<1>2. t \in Seq(ScriptEntries) /\ Len(t) = 1 /\ e.skip = n /\ e.do = "turn"
  <2>1. t = <<d>>
    <3> DEFINE u == Made("turn", o, FALSE, Out, FALSE)
    <3>1. t = <<[u EXCEPT !.skip = n]>>
      BY DEF Turn, Entry, Made
    <3>2. [u EXCEPT !.skip = n] = d
      <4> HIDE DEF o, n
      <4>1. \A f, k : [Made("turn", o, f, Out, k) EXCEPT !.skip = n] = Made("turn", o, f, n, k)
        BY DEF Made
      <4> QED
        BY <4>1, Zenon
    <3> HIDE DEF o, n, t, u, d
    <3> QED
      BY <3>1, <3>2
  <2>2. d.skip = n /\ d.do = "turn" /\ d \in ScriptEntries
    <3> DEFINE T == Seq(Nat)
    <3>1. o \in T
      OBVIOUS
    <3> HIDE DEF T, n, o
    <3>2. d \in [do : Deeds, ns : T, free : BOOLEAN, skip : Int, lost : BOOLEAN]
      BY <1>1, <3>1 DEF Made, Deeds
    <3>3. d.skip = n /\ d.do = "turn"
      BY DEF Made
    <3> QED
      BY <3>2, <3>3 DEF ScriptEntries, T
  <2> HIDE DEF t, d
  <2> QED
    BY <2>1, <2>2
<1> HIDE DEF d
<1> HIDE DEF t
<1>3. /\ r \in Seq(ScriptEntries) /\ Len(r) = Len(s) + Len(t)
      /\ \A j \in 1..Len(s) + Len(t) : r[j] = IF j <= Len(s) THEN s[j] ELSE t[j - Len(s)]
  BY <1>1, <1>2, ConcatProperties
<1> HIDE DEF r
<1>4. ASSUME NEW j \in 1..Len(r)
      PROVE  r[j].skip >= -j /\ (r[j].do = "give" => Len(r[j].ns) >= 1)
  <2>1. CASE j <= Len(s)
    <3>1. j \in 1..Len(s) /\ j \in 1..Len(s) + Len(t)
      BY <1>1, <1>2, <1>3, <2>1
    <3>2. r[j] = s[j]
      BY <1>3, <2>1, <3>1
    <3> QED
      BY <3>1, <3>2 DEF Sound
  <2>2. CASE j > Len(s)
    <3>1. j = Len(s) + 1 /\ j - Len(s) = 1 /\ j \in 1..Len(s) + Len(t) /\ ~(j <= Len(s))
      BY <1>1, <1>2, <1>3, <2>2
    <3>2. r[j] = e
      BY <1>3, <3>1
    <3>3. n = -j
      BY <1>1, <3>1
    <3> HIDE DEF e, n
    <3> QED
      BY <1>1, <1>2, <3>2, <3>3
  <2> QED
    BY <1>1, <1>2, <1>3, <2>1, <2>2
<1> QED
  BY <1>3, <1>4 DEF Sound, r, t

-----------------------------------------------------------------------------
(* The scripts of the calls. *)

\* A product of sizes is a size.
LEMMA Product ==
    ASSUME NEW m \in Nat, NEW n \in Nat
    PROVE  m * n \in Nat
OBVIOUS

\* The parameters of ML-KEM.
LEMMA KemNumbers ==
    ASSUME NEW c \in KemParams
    PROVE  /\ c.family = "kem" /\ Poly(c) = 512
           /\ c.k \in Nat /\ c.eta1 \in Nat /\ c.eta2 \in Nat /\ c.du \in Nat /\ c.dv \in Nat
BY DEF KemParams, Kem, Poly

\* The parameters of ML-DSA.
LEMMA DsaNumbers ==
    ASSUME NEW c \in DsaParams
    PROVE  /\ c.family = "dsa" /\ Poly(c) = 1024
           /\ c.k \in Nat /\ c.l \in Nat /\ c.lambda4 \in Nat /\ c.maskBytes \in Nat
           /\ c.encodeSize \in Nat
<1>1. /\ 32 * 18 \in Nat /\ 32 * 20 \in Nat /\ (32 * 4) * 6 \in Nat /\ (32 * 6) * 4 \in Nat
      /\ (32 * 8) * 4 \in Nat
  OBVIOUS
<1>2. c = Dsa(4, 4, 32, 18, 6) \/ c = Dsa(6, 5, 48, 20, 4) \/ c = Dsa(8, 7, 64, 20, 4)
  BY DEF DsaParams
<1>3. Poly(c) = 1024 /\ c.family = "dsa"
  BY <1>2 DEF Dsa, Poly
<1> QED
  BY <1>1, <1>2, <1>3 DEF Dsa

\* Sizes of blocks.
LEMMA Blocks ==
    ASSUME NEW c, Poly(c) \in Nat
    PROVE  /\ \A n \in Nat : Polys(c, n) \in Nat
           /\ Align \in Nat /\ Shake128 \in Nat /\ Shake256 \in Nat /\ Sha3_512 \in Nat
<1>1. \A n \in Nat : Polys(c, n) \in Nat
  <2> TAKE n \in Nat
  <2>1. n * Poly(c) \in Nat
    BY Product
  <2> QED
    BY <2>1 DEF Polys, Align
<1> QED
  BY <1>1, StorageConstants DEF Align, Shake128, Shake256, Sha3_512, HashState

\* Scripts put together.
LEMMA SoundTogether ==
    /\ \A s, t : Sound(s) /\ Sound(t) => Sound(s \o t)
    /\ \A s : Sound(s) => Sound(To(s)) /\ Sound(Lost(s)) /\ Sound(IfPortable(s))
    /\ \A n \in Nat : Sound(Temporary(n)) /\ Sound(TemporaryOrFree(n))
<1>1. \A s, t : Sound(s) /\ Sound(t) => Sound(s \o t)
  BY SoundJoined
<1>2. ASSUME NEW s, Sound(s) PROVE Sound(IfPortable(s))
  BY <1>2, SoundEmpty DEF IfPortable
<1>3. ASSUME NEW n \in Nat PROVE Sound(Temporary(n)) /\ Sound(TemporaryOrFree(n))
  <2>1. Sound(Take(<<n>>)) /\ Sound(TakeOrFree(n)) /\ Sound(Try) /\ Sound(Give(n))
    BY SoundParts
  <2> QED
    BY <1>1, <2>1 DEF Temporary, TemporaryOrFree
<1> QED
  BY <1>1, <1>2, <1>3, SoundResolved

\* The three scripts of ML-KEM.
LEMMA KemScripts ==
    ASSUME NEW c \in KemParams
    PROVE  /\ Sound(cp_KPKE_KeyGen(c)) /\ Sound(cp_KPKE_Encrypt(c)) /\ Sound(cp_KPKE_Decrypt(c))
           /\ Sound(cp_MLKEMdecaps_internal(c))
<1> DEFINE v == Polys(c, c.k)
           p == Polys(c, 1)
<1>1. /\ v \in Nat /\ p \in Nat /\ Shake128 + Align \in Nat /\ Shake256 + Align \in Nat
      /\ c.eta1 * 64 + Align \in Nat /\ c.eta2 * 64 + Align \in Nat /\ CipherTextBytes(c) + Align \in Nat
  <2>1. Poly(c) \in Nat /\ c.k \in Nat /\ c.eta1 \in Nat /\ c.eta2 \in Nat /\ c.du \in Nat /\ c.dv \in Nat
    BY KemNumbers
  <2>2. c.du * c.k \in Nat
    BY <2>1, Product
  <2>3. /\ \A n \in Nat : Polys(c, n) \in Nat
        /\ Align \in Nat /\ Shake128 \in Nat /\ Shake256 \in Nat
    BY <2>1, Blocks
  <2>4. CipherTextBytes(c) \in Nat
    BY <2>1, <2>2 DEF CipherTextBytes
  <2> QED
    BY <2>1, <2>3, <2>4
<1> HIDE DEF v, p
<1>2. /\ Sound(TakeOrFree(v)) /\ Sound(TakeOrFree(p)) /\ Sound(Give(v)) /\ Sound(Give(p))
      /\ Sound(Take(<<Shake256 + Align>>)) /\ Sound(Take(<<CipherTextBytes(c) + Align>>))
      /\ Sound(GiveAll) /\ Sound(Try)
  BY <1>1, SoundParts
<1>3. /\ Sound(cp_matrixAGen) /\ Sound(cp_polyVecGen(c.eta1)) /\ Sound(cp_polyVecGen(c.eta2))
      /\ Sound(cp_polyGen(c.eta2))
  BY <1>1, SoundTogether DEF cp_matrixAGen, cp_polyVecGen, cp_polyGen
<1> HIDE DEF Sound
<1>4. Sound(cp_KPKE_KeyGen(c))
  BY <1>2, <1>3, SoundTogether DEF cp_KPKE_KeyGen, v, p
<1>5. Sound(cp_KPKE_Encrypt(c))
  BY <1>2, <1>3, SoundTogether DEF cp_KPKE_Encrypt, v, p
<1>6. Sound(cp_KPKE_Decrypt(c))
  BY <1>2, SoundTogether DEF cp_KPKE_Decrypt, v, p
<1>7. Sound(cp_MLKEMdecaps_internal(c))
  BY <1>2, <1>5, <1>6, SoundTogether DEF cp_MLKEMdecaps_internal
<1> QED
  BY <1>4, <1>5, <1>6, <1>7

\* The scripts of ML-DSA, for an input of any length.
LEMMA DsaScripts ==
    ASSUME NEW c \in DsaParams, NEW input \in Nat
    PROVE  /\ Sound(cp_MLDSA_keyGen_internal(c)) /\ Sound(cp_MLDSA_Sign_internal(c, input))
           /\ Sound(cp_MLDSA_ComputeMu(input)) /\ Sound(cp_MLDSA_VerifyCore(c))
<1> DEFINE kv == Polys(c, c.k)
           lv == Polys(c, c.l)
           kl == Polys(c, c.k * c.l)
           hashed == 64 + c.encodeSize + Align
           all == (3 * c.k + c.l) * Poly(c) + 4 * Align
           most == (4 * c.k + 2 * c.l) * Poly(c) + 6 * Align
           last == 3 * c.k * Poly(c) + 3 * Align
           mask == c.maskBytes + Align
           challenge == c.lambda4 + Align
           taken == input + Align
<1>1. /\ kv \in Nat /\ lv \in Nat /\ kl \in Nat /\ hashed \in Nat /\ all \in Nat /\ most \in Nat
      /\ last \in Nat /\ mask \in Nat /\ challenge \in Nat /\ taken \in Nat
      /\ Shake128 + Align \in Nat /\ Shake256 + Align \in Nat
  <2>1. /\ Poly(c) = 1024 /\ c.k \in Nat /\ c.l \in Nat /\ c.lambda4 \in Nat /\ c.maskBytes \in Nat
        /\ c.encodeSize \in Nat
    BY DsaNumbers
  <2>2. c.k * c.l \in Nat
    BY <2>1, Product
  <2>3. /\ \A n \in Nat : Polys(c, n) \in Nat
        /\ Align \in Nat /\ Shake128 \in Nat /\ Shake256 \in Nat
    BY <2>1, Blocks
  <2>4. kv \in Nat /\ lv \in Nat /\ kl \in Nat
    BY <2>1, <2>2, <2>3
  <2>5. all \in Nat /\ most \in Nat /\ last \in Nat
    BY <2>1, <2>3
  <2> QED
    BY <2>1, <2>3, <2>4, <2>5
<1> HIDE DEF kv, lv, kl, hashed, all, most, last, mask, challenge, taken
<1>2. /\ Sound(Take(<<kv>>)) /\ Sound(Take(<<lv>>)) /\ Sound(Take(<<kl>>)) /\ Sound(Take(<<challenge>>))
      /\ Sound(Give(kv)) /\ Sound(Give(lv)) /\ Sound(Give(kl)) /\ Sound(Give(all)) /\ Sound(Give(most))
      /\ Sound(Give(last)) /\ Sound(Give(challenge))
      /\ Sound(Try) /\ Sound(Leave) /\ Sound(LastTurn) /\ Sound(<<>>)
  BY <1>1, SoundParts, SoundEmpty
<1>3. Sound(Take(<<lv, kv, kv>>)) /\ Sound(Take(<<kv, kv, kv>>))
  <2>1. <<lv, kv, kv>> \in Seq(Nat) /\ <<kv, kv, kv>> \in Seq(Nat)
    BY <1>1
  <2> QED
    BY <2>1, SoundParts
<1>4. /\ Sound(Temporary(mask)) /\ Sound(Temporary(hashed)) /\ Sound(Temporary(taken))
      /\ Sound(cp_ml_expandS) /\ Sound(cp_ml_expandA) /\ Sound(cp_ml_sampleInBall)
  <2>1. /\ Sound(Temporary(mask)) /\ Sound(Temporary(hashed)) /\ Sound(Temporary(taken))
        /\ Sound(Temporary(Shake128 + Align)) /\ Sound(Temporary(Shake256 + Align))
    BY <1>1, SoundTogether
  <2> QED
    BY <1>2, <2>1, SoundTogether DEF cp_ml_expandS, cp_ml_expandA, cp_ml_sampleInBall
<1> HIDE DEF Sound
<1>5. Sound(cp_MLDSA_keyGen_internal(c))
  BY <1>2, <1>3, <1>4, SoundTogether DEF cp_MLDSA_keyGen_internal, kv, lv, all
<1>6. Sound(cp_MLDSA_ComputeMu(input))
  BY <1>2, <1>4, SoundTogether DEF cp_MLDSA_ComputeMu, taken
<1>7. Sound(cp_MLDSA_VerifyCore(c))
  <2>1. Sound(Lost(cp_ml_expandA))
    BY <1>4, SoundTogether
  <2> QED
    BY <1>2, <1>3, <1>4, <2>1, SoundTogether DEF cp_MLDSA_VerifyCore, kv, hashed, challenge, last
<1>8. Sound(SignTurn(c))
  <2> DEFINE generated == IF build = "portable" THEN cp_ml_expandA ELSE <<>>
             head == Temporary(mask)
                     \o Take(<<lv>>) \o generated \o Give(lv)
                     \o Take(<<kv>>) \o Temporary(hashed) \o Give(kv)
                     \o cp_ml_sampleInBall
                     \o Take(<<lv>>) \o Give(lv)
                     \o Take(<<kv>>) \o Take(<<kv>>) \o Give(kv)
             hint == Take(<<kv>>) \o Give(kv)
             body == head \o Either(Len(hint) + 3) \o hint \o Either(2)
                     \o Give(kv) \o Goto(2) \o Give(kv)
  <2>1. Sound(generated)
    BY <1>2, <1>4
  <2> HIDE DEF generated
  <2>2. Sound(head) /\ Sound(hint)
    BY <1>2, <1>4, <2>1, SoundTogether
  <2> HIDE DEF head, hint
  <2>3. Len(hint) + 3 \in Nat /\ 2 \in Nat
    BY <2>2 DEF Sound
  <2>4. Sound(Either(Len(hint) + 3)) /\ Sound(Either(2)) /\ Sound(Goto(2))
    BY <2>3, SoundParts
  <2>5. Sound(body)
    BY <1>2, <2>2, <2>4, SoundTogether
  <2>6. Sound(body \o Turn(Len(body) + 1))
    <3> HIDE DEF body
    <3> QED
      BY <2>5, SoundLoop
  <2>7. SignTurn(c) = body \o Turn(Len(body) + 1)
    BY DEF SignTurn, body, hint, head, generated, kv, lv, hashed, mask
  <2> QED
    BY <2>6, <2>7
<1>9. Sound(cp_MLDSA_Sign_internal(c, input))
  <2> DEFINE first == IF build = "multibuffer" THEN Take(<<kl>>) ELSE <<>>
             second == IF build = "multibuffer" THEN cp_ml_expandA ELSE <<>>
             third == IF build = "multibuffer" THEN Give(kl) ELSE <<>>
  <2>1. Sound(first) /\ Sound(second) /\ Sound(third)
    BY <1>2, <1>4
  <2> HIDE DEF first, second, third
  <2>2. Sound(first \o Take(<<lv, kv, kv>>) \o Temporary(taken) \o Try
              \o second \o Take(<<lv, kv, kv>>) \o SignTurn(c)
              \o Give(most) \o third \o LastTurn)
    BY <1>2, <1>3, <1>4, <1>8, <2>1, SoundTogether
  <2> QED
    BY <2>2 DEF cp_MLDSA_Sign_internal, first, second, third, kv, lv, kl, taken, most
<1> QED
  BY <1>5, <1>6, <1>7, <1>9

\* The call that a script is of.
Called(w) ==
    /\ w.input \in Nat
    /\ \/ state.params \in KemParams /\ w.api \in KemCalls
       \/ state.params \in DsaParams /\ w.api \in DsaCalls

\* Whatever the call, its script is sound.
LEMMA ScriptSound ==
    ASSUME NEW w, Called(w)
    PROVE  Sound(Script(w))
<1> DEFINE c == state.params
           body == CASE w.api = "MLKEM_KeyGen"    -> cp_KPKE_KeyGen(c) \o Try
                     [] w.api = "MLKEM_Encaps"    -> Try \o cp_KPKE_Encrypt(c)
                     [] w.api = "MLKEM_Decaps"    -> cp_MLKEMdecaps_internal(c)
                     [] w.api = "MLDSA_KeyGen"    -> cp_MLDSA_keyGen_internal(c)
                     [] w.api = "MLDSA_Sign"      -> cp_MLDSA_Sign_internal(c, w.input)
                     [] w.api = "MLDSA_Verify"    -> cp_MLDSA_ComputeMu(w.input) \o cp_MLDSA_VerifyCore(c)
                     [] w.api = "MLDSA_Verify_Mu" -> cp_MLDSA_VerifyCore(c)
<1>1. Script(w) = To(body)
  BY DEF Script
<1>2. Sound(Try)
  BY SoundParts
<1>3. CASE c \in KemParams /\ w.api \in KemCalls
  <2>1. /\ Sound(cp_KPKE_KeyGen(c)) /\ Sound(cp_KPKE_Encrypt(c)) /\ Sound(cp_MLKEMdecaps_internal(c))
    BY <1>3, KemScripts
  <2>2. Sound(cp_KPKE_KeyGen(c) \o Try) /\ Sound(Try \o cp_KPKE_Encrypt(c))
    BY <1>2, <2>1, SoundTogether
  <2> QED
    BY <1>1, <1>3, <2>1, <2>2, SoundTogether DEF KemCalls
<1>4. CASE c \in DsaParams /\ w.api \in DsaCalls
  <2>1. /\ Sound(cp_MLDSA_keyGen_internal(c)) /\ Sound(cp_MLDSA_Sign_internal(c, w.input))
        /\ Sound(cp_MLDSA_ComputeMu(w.input)) /\ Sound(cp_MLDSA_VerifyCore(c))
    BY <1>4, DsaScripts DEF Called
  <2>2. Sound(cp_MLDSA_ComputeMu(w.input) \o cp_MLDSA_VerifyCore(c))
    BY <2>1, SoundTogether
  <2> QED
    BY <1>1, <1>4, <2>1, <2>2, SoundTogether DEF DsaCalls
<1> QED
  BY <1>3, <1>4 DEF Called

-----------------------------------------------------------------------------
(* What allocation and release keep. *)

\* A storage within its capacity, where nothing taken or written lies beyond it.
Bounded(s) ==
    /\ s \in [cap : Int, used : Nat, dirty : Nat, first : BOOLEAN]
    /\ s.dirty <= s.used /\ s.used <= s.cap

\* One block.
LEMMA AllocateBounded ==
    ASSUME NEW s, Bounded(s), NEW n \in Nat
    PROVE  Bounded(Allocate(s, n))
<1>1. /\ s \in [cap : Int, used : Nat, dirty : Nat, first : BOOLEAN]
      /\ s.dirty <= s.used /\ s.used <= s.cap
  BY DEF Bounded
<1>2. CASE ~Fits(s, n)
  BY <1>2 DEF Allocate
<1>3. CASE Fits(s, n)
  <2> DEFINE u == s.used + n
             d == Greater(s.dirty, u)
             a == [s EXCEPT !.used = u]
             b == [a EXCEPT !.dirty = d]
             e == [b EXCEPT !.first = FALSE]
  <2>1. u \in Nat /\ u <= s.cap /\ d \in Nat /\ d <= u
    BY <1>1, <1>3 DEF Fits, Greater
  <2>2. Allocate(s, n) = e
    BY <1>3 DEF Allocate
  <2> HIDE DEF u, d
  <2>3. a \in [cap : Int, used : Nat, dirty : Nat, first : BOOLEAN] /\ a.used = u /\ a.cap = s.cap
    BY <1>1, <2>1
  <2> HIDE DEF a
  <2>4. b \in [cap : Int, used : Nat, dirty : Nat, first : BOOLEAN] /\ b.used = u /\ b.cap = s.cap
        /\ b.dirty = d
    BY <2>1, <2>3
  <2> HIDE DEF b
  <2>5. e \in [cap : Int, used : Nat, dirty : Nat, first : BOOLEAN] /\ e.used = u /\ e.cap = s.cap
        /\ e.dirty = d
    BY <2>4
  <2> HIDE DEF e
  <2> QED
    BY <2>1, <2>2, <2>5 DEF Bounded
<1> QED
  BY <1>2, <1>3

\* The list of storages that Allocated gives.
AllocatedList(f, n, s, ns) ==
    f = [j \in 0..n |-> IF j = 0 THEN s ELSE Allocate(f[j - 1], ns[j])]

\* The list of storages after each of several blocks exists.
LEMMA AllocatedListed ==
    ASSUME NEW s, NEW ns
    PROVE  \A n \in Nat : \E f : AllocatedList(f, n, s, ns)
<1> DEFINE T == {n \in Nat : \E f : AllocatedList(f, n, s, ns)}
<1>1. 0 \in T
  <2> DEFINE g == [j \in 0..0 |-> s]
  <2>1. AllocatedList(g, 0, s, ns)
    BY DEF AllocatedList
  <2> QED
    BY <2>1
<1>2. ASSUME NEW n \in Nat, n \in T PROVE n + 1 \in T
  <2>1. PICK f : AllocatedList(f, n, s, ns)
    BY <1>2
  <2> DEFINE y == Allocate(f[n], ns[n + 1])
             g == [j \in 0..n + 1 |-> IF j <= n THEN f[j] ELSE y]
  <2>2. ASSUME NEW j \in 0..n + 1
        PROVE  g[j] = IF j = 0 THEN s ELSE Allocate(g[j - 1], ns[j])
    <3>1. CASE j = n + 1
      <4>1. j - 1 = n /\ j # 0 /\ n \in 0..n + 1
        BY <3>1
      <4>2. g[j] = y /\ g[j - 1] = f[n]
        BY <3>1, <4>1
      <4> HIDE DEF g
      <4>3. y = Allocate(g[j - 1], ns[j])
        BY <3>1, <4>2
      <4> QED
        BY <4>1, <4>2, <4>3
    <3>2. CASE j # n + 1
      <4>1. j \in 0..n /\ (j # 0 => j - 1 \in 0..n)
        BY <3>2
      <4>2. g[j] = f[j] /\ (j # 0 => g[j - 1] = f[j - 1])
        BY <4>1
      <4>3. f[j] = IF j = 0 THEN s ELSE Allocate(f[j - 1], ns[j])
        BY <2>1, <4>1 DEF AllocatedList
      <4> HIDE DEF g
      <4> QED
        BY <4>2, <4>3
    <3> QED
      BY <3>1, <3>2
  <2>3. AllocatedList(g, n + 1, s, ns)
    <3>1. g = [j \in 0..n + 1 |-> g[j]]
      OBVIOUS
    <3> HIDE DEF g
    <3> QED
      BY <2>2, <3>1 DEF AllocatedList
  <2> HIDE DEF g
  <2> QED
    BY <2>3
<1>3. Nat \subseteq T
  <2> HIDE DEF T
  <2> QED BY <1>1, <1>2, AllNumbers
<1> QED
  BY <1>3

\* Several blocks, refused or not, leave a storage within its capacity.
LEMMA AllocatedBounded ==
    ASSUME NEW s, Bounded(s), NEW ns \in Seq(Nat)
    PROVE  Bounded(Allocated(s, ns)[Len(ns)])
<1> DEFINE n == Len(ns)
           f == Allocated(s, ns)
<1>1. n \in Nat /\ \A j \in 1..n : ns[j] \in Nat
  OBVIOUS
<1>2. AllocatedList(f, n, s, ns)
  <2>1. \E g : AllocatedList(g, n, s, ns)
    BY <1>1, AllocatedListed
  <2>2. f = CHOOSE g : AllocatedList(g, n, s, ns)
    BY DEF Allocated, AllocatedList
  <2> QED
    BY <2>1, <2>2
<1> HIDE DEF f, n
<1>3. \A j \in 0..n : f[j] = IF j = 0 THEN s ELSE Allocate(f[j - 1], ns[j])
  BY <1>2 DEF AllocatedList
<1> DEFINE T == {j \in Nat : j <= n => Bounded(f[j])}
<1>4. 0 \in T
  <2>1. f[0] = s
    BY <1>1, <1>3
  <2> QED
    BY <2>1
<1>5. ASSUME NEW j \in Nat, j \in T PROVE j + 1 \in T
  <2> SUFFICES ASSUME j + 1 <= n PROVE Bounded(f[j + 1])
    OBVIOUS
  <2>1. j + 1 \in 1..n /\ j + 1 \in 0..n /\ j + 1 # 0 /\ j + 1 - 1 = j /\ j <= n
    BY <1>1
  <2>2. f[j + 1] = Allocate(f[j], ns[j + 1])
    BY <1>3, <2>1
  <2>3. Bounded(f[j]) /\ ns[j + 1] \in Nat
    BY <1>1, <1>5, <2>1
  <2> QED
    BY <2>2, <2>3, AllocateBounded
<1>6. Nat \subseteq T
  <2> HIDE DEF T
  <2> QED BY <1>4, <1>5, AllNumbers
<1>7. Bounded(f[n])
  BY <1>1, <1>6
<1> QED
  BY <1>7 DEF f, n

\* What was taken last is given back and cleared.
LEMMA ReleaseBounded ==
    ASSUME NEW s, Bounded(s), NEW n \in Nat, n <= s.used
    PROVE  Bounded(Release(s, n))
<1>1. /\ s \in [cap : Int, used : Nat, dirty : Nat, first : BOOLEAN]
      /\ s.dirty <= s.used /\ s.used <= s.cap
  BY DEF Bounded
<1> DEFINE u == s.used - n
           d == IF s.dirty > s.used THEN s.dirty ELSE u
           a == [s EXCEPT !.used = u]
           b == [a EXCEPT !.dirty = d]
<1>2. u \in Nat /\ u <= s.cap /\ d = u
  BY <1>1
<1>3. Release(s, n) = b
  BY DEF Release
<1> HIDE DEF u, d
<1>4. a \in [cap : Int, used : Nat, dirty : Nat, first : BOOLEAN] /\ a.used = u /\ a.cap = s.cap
  BY <1>1, <1>2
<1> HIDE DEF a
<1>5. b \in [cap : Int, used : Nat, dirty : Nat, first : BOOLEAN] /\ b.used = u /\ b.cap = s.cap
      /\ b.dirty = u
  BY <1>2, <1>4
<1> HIDE DEF b
<1> QED
  BY <1>2, <1>3, <1>5 DEF Bounded

\* Everything is given back and all that was written is cleared.
LEMMA ReleaseAllBounded ==
    ASSUME NEW s, Bounded(s)
    PROVE  LET r == ReleaseAll(s)
           IN Bounded(r) /\ r.used = 0 /\ r.dirty = 0 /\ r.first = s.first
<1>1. /\ s \in [cap : Int, used : Nat, dirty : Nat, first : BOOLEAN]
      /\ s.dirty <= s.used /\ s.used <= s.cap
  BY DEF Bounded
<1> DEFINE d == IF s.dirty > Lesser(s.used, s.cap) THEN s.dirty ELSE 0
           a == [s EXCEPT !.used = 0]
           b == [a EXCEPT !.dirty = d]
<1>2. d = 0 /\ 0 <= s.cap
  BY <1>1 DEF Lesser
<1>3. ReleaseAll(s) = b
  BY DEF ReleaseAll
<1> HIDE DEF d
<1>4. a \in [cap : Int, used : Nat, dirty : Nat, first : BOOLEAN] /\ a.used = 0 /\ a.cap = s.cap
      /\ a.first = s.first
  BY <1>1
<1> HIDE DEF a
<1>5. b \in [cap : Int, used : Nat, dirty : Nat, first : BOOLEAN] /\ b.used = 0 /\ b.cap = s.cap
      /\ b.dirty = 0 /\ b.first = s.first
  BY <1>2, <1>4
<1> HIDE DEF b
<1> QED
  BY <1>2, <1>3, <1>5 DEF Bounded

-----------------------------------------------------------------------------
(* The storage is clean. *)

\* Parameters and capacities belong to one scheme.
StateHeld ==
    \E p, m, b, caps :
        /\ state = [params |-> p, max |-> m, whole |-> b, caps |-> caps]
        /\ \/ p.family = "none" /\ DOMAIN caps = {}
           \/ p \in KemParams /\ caps \in [KemCalls -> Int]
           \/ p \in DsaParams /\ caps \in [DsaCalls -> Int]

\* Records of a call.
Works ==
    [api : KemCalls \cup DsaCalls \cup {"none"}, at : Nat, input : Nat, skew : Int,
     foreign : BOOLEAN, sts : {"ok", "error", "random"}, refused : BOOLEAN, ignored : BOOLEAN,
     stale : BOOLEAN, turn : Int, ret : {"none", "ok", "error", "random", "memory"}]

\* A call in progress: a refused block is an error unless its status was dropped.
Working(w) ==
    /\ w \in Works /\ w.at >= 1 /\ w.ret = "none"
    /\ w.refused => w.ignored \/ w.sts # "ok"

\* No call in progress.
Rested(w, s) ==
    /\ w \in Works /\ w.at = 0
    /\ s \in [cap : Int, used : Nat, dirty : Nat, first : BOOLEAN] /\ s.used = 0 /\ s.dirty = 0
    /\ w.ret = "ok" => ~w.refused \/ w.ignored
    /\ w.ret = "memory" => w.foreign /\ s.first

\* The inductive invariant: a storage at rest is clean, one in use is within its
\* capacity and the script that uses it belongs to the scheme of the context.
StorageInv ==
    /\ StateHeld
    /\ Rested(work, store) \/ (Working(work) /\ Called(work) /\ Bounded(store))

\* Capacities are numbers, negative or not.
LEMMA CapacitiesHeld ==
    /\ \A c \in KemParams : Capacities(c, 0) \in [KemCalls -> Int]
    /\ \A c \in DsaParams, max \in Nat :
          Capacities(c, max) \in [DsaCalls -> Int] /\ VerifyBytes(c, max) \in Int
<1>1. ASSUME NEW a \in Int, NEW b \in Int
      PROVE  Greater(a, b) \in Int
  BY DEF Greater
<1>2. ASSUME NEW c \in KemParams PROVE Capacities(c, 0) \in [KemCalls -> Int]
  <2> DEFINE m == mlkemMemoryConsumption(c)
             keygen == c.eta1 * 64 + (3 * c.k + 1) * Poly(c) + Shake256 + 5 * Align
             encaps == (4 * c.k + 4) * Poly(c) + c.eta1 * 64 + Shake256 + 9 * Align
             decaps == Greater(Shake256, Sha3_512) + (3 + 2 * c.k) * Poly(c)
                       + CipherTextBytes(c) + encaps + 3 * Align
  <2>1. /\ c.family = "kem" /\ Poly(c) = 512 /\ c.k \in Nat /\ c.eta1 \in Nat /\ c.du \in Nat /\ c.dv \in Nat
    BY KemNumbers
  <2>2. c.du * c.k \in Nat
    BY <2>1, Product
  <2>3. Align \in Nat /\ Shake256 \in Nat /\ Sha3_512 \in Nat
    BY <2>1, Blocks
  <2>4. CipherTextBytes(c) \in Int /\ Greater(Shake256, Sha3_512) \in Int
    <3>1. CipherTextBytes(c) \in Int
      BY <2>1, <2>2 DEF CipherTextBytes
    <3>2. Greater(Shake256, Sha3_512) \in Int
      BY <1>1, <2>3
    <3> QED
      BY <3>1, <3>2
  <2>5. keygen \in Int /\ encaps \in Int
    BY <2>1, <2>3
  <2>6. decaps \in Int
    <3> HIDE DEF encaps
    <3> QED
      BY <2>1, <2>3, <2>4, <2>5
  <2>7. m = [keygen |-> keygen, encaps |-> encaps, decaps |-> decaps]
    BY DEF mlkemMemoryConsumption
  <2> HIDE DEF keygen, encaps, decaps
  <2>8. m.keygen \in Int /\ m.encaps \in Int /\ m.decaps \in Int
    BY <2>5, <2>6, <2>7
  <2>9. Capacities(c, 0) = [f \in KemCalls |-> CASE f = "MLKEM_KeyGen" -> m.keygen
                                                 [] f = "MLKEM_Encaps" -> m.encaps
                                                 [] f = "MLKEM_Decaps" -> m.decaps]
    BY <2>1 DEF Capacities
  <2> HIDE DEF m
  <2> QED
    BY <2>8, <2>9 DEF KemCalls
<1>3. ASSUME NEW c \in DsaParams, NEW max \in Nat
      PROVE  Capacities(c, max) \in [DsaCalls -> Int] /\ VerifyBytes(c, max) \in Int
  <2> DEFINE m == mldsaMemoryConsumption(c, max)
             turn == Greater(c.l * Poly(c) + Shake128 + 2 * Align,
                             Greater(c.k * Poly(c) + 64 + c.encodeSize + 2 * Align, Shake256 + Align))
             many == IF build = "multibuffer" THEN c.k * c.l * Poly(c) + Align ELSE 0
             loop == (2 * c.k + c.l) * Poly(c) + 3 * Align + turn + c.k * Poly(c) + Align
  <2>1. /\ c.family = "dsa" /\ Poly(c) = 1024 /\ c.k \in Nat /\ c.l \in Nat /\ c.lambda4 \in Nat
        /\ c.encodeSize \in Nat
    BY DsaNumbers
  <2>2. c.k * c.l \in Nat
    BY <2>1, Product
  <2>3. Align \in Nat /\ Shake128 \in Nat /\ Shake256 \in Nat
    BY <2>1, Blocks
  <2>4. many \in Int
    BY <2>1, <2>2, <2>3
  <2>5. turn \in Int
    <3>1. /\ c.l * Poly(c) + Shake128 + 2 * Align \in Int /\ Shake256 + Align \in Int
          /\ c.k * Poly(c) + 64 + c.encodeSize + 2 * Align \in Int
      BY <2>1, <2>3
    <3> QED
      BY <1>1, <3>1
  <2> HIDE DEF turn, many
  <2>6. loop \in Int /\ 64 + 2 + 256 + max + Align \in Int
    BY <2>1, <2>3, <2>5
  <2>7. Greater(64 + 2 + 256 + max + Align, loop) \in Int
    BY <1>1, <2>6
  <2> HIDE DEF loop
  <2>8. SignBytes(c, max) \in Int
    <3>1. SignBytes(c, max) = (2 * c.k + c.l) * Poly(c) + 3 * Align + many
                              + Greater(64 + 2 + 256 + max + Align, loop)
      BY DEF SignBytes, loop, many, turn
    <3> QED
      BY <2>1, <2>3, <2>4, <2>7, <3>1
  <2>9. VerifyBytes(c, max) \in Int
    <3>1. Greater(Shake128, Shake256) \in Int
      BY <1>1, <2>3
    <3>2. 2 + 256 + max \in Int /\ c.encodeSize \in Int
      BY <2>1
    <3>3. Greater(2 + 256 + max, c.encodeSize) \in Int
      BY <1>1, <3>2
    <3>4. 64 + Greater(2 + 256 + max, c.encodeSize) \in Int
      BY <3>3
    <3>5. Greater(64 + Greater(2 + 256 + max, c.encodeSize), Greater(Shake128, Shake256)) \in Int
      BY <1>1, <3>1, <3>4
    <3> QED
      BY <2>1, <2>3, <3>5 DEF VerifyBytes
  <2>10. KeygenBytes(c) \in Int
    <3>1. Greater(Shake128, Shake256) \in Int
      BY <1>1, <2>3
    <3> QED
      BY <2>1, <2>3, <3>1 DEF KeygenBytes
  <2>11. m.keygen \in Int /\ m.sign \in Int /\ m.verify \in Int
    <3>1. m.keygen = KeygenBytes(c) /\ (m.sign = 0 \/ m.sign = SignBytes(c, max))
          /\ (m.verify = 0 \/ m.verify = VerifyBytes(c, max))
      BY DEF mldsaMemoryConsumption
    <3> HIDE DEF m
    <3> QED
      BY <2>8, <2>9, <2>10, <3>1
  <2>12. Capacities(c, max) = [f \in DsaCalls |-> CASE f = "MLDSA_KeyGen" -> m.keygen
                                                    [] f = "MLDSA_Sign" -> m.sign
                                                    [] f = "MLDSA_Verify" -> m.verify
                                                    [] OTHER -> 0]
    BY <2>1 DEF Capacities
  <2> HIDE DEF m
  <2>13. ASSUME NEW f \in DsaCalls PROVE Capacities(c, max)[f] \in Int
    <3>1. Capacities(c, max)[f] = m.keygen \/ Capacities(c, max)[f] = m.sign
          \/ Capacities(c, max)[f] = m.verify \/ Capacities(c, max)[f] = 0
      BY <2>12
    <3> QED
      BY <2>11, <3>1
  <2> QED
    BY <2>9, <2>12, <2>13
<1> QED
  BY <1>2, <1>3

\* The entry a call is at.
LEMMA CurrentHeld ==
    ASSUME Working(work), Called(work), work.at <= Len(Script(work))
    PROVE  /\ Current \in ScriptEntries /\ Current.skip >= -work.at
           /\ Current.do = "give" => Len(Current.ns) >= 1
<1>1. Sound(Script(work)) /\ work.at \in Nat /\ work.at >= 1
  BY ScriptSound DEF Working, Works
<1> DEFINE s == Script(work)
           n == work.at
<1>2. s \in Seq(ScriptEntries) /\ n \in 1..Len(s)
      /\ \A j \in 1..Len(s) : s[j].skip >= -j /\ (s[j].do = "give" => Len(s[j].ns) >= 1)
  <2>1. s \in Seq(ScriptEntries) /\ \A j \in 1..Len(s) : s[j].skip >= -j /\ (s[j].do = "give" => Len(s[j].ns) >= 1)
    BY <1>1 DEF Sound
  <2> HIDE DEF s
  <2> QED
    BY <1>1, <2>1 DEF s
<1>3. Current = s[n]
  BY DEF Current
<1> HIDE DEF s, n
<1>4. s[n] \in ScriptEntries
  BY <1>2
<1> QED
  BY <1>2, <1>3, <1>4 DEF n

\* Going on, jumping and failing keep the call.
LEMMA Moved ==
    ASSUME Working(work), Current \in ScriptEntries, Current.skip >= -work.at
    PROVE  /\ Working(GoesOn) /\ GoesOn.api = work.api /\ GoesOn.input = work.input
           /\ Working(Jumps) /\ Jumps.api = work.api /\ Jumps.input = work.input
           /\ Working(Fails) /\ Fails.api = work.api /\ Fails.input = work.input
           /\ Fails.ignored \/ Fails.sts # "ok"
           /\ Jumps.turn = work.turn
<1> DEFINE e == Current
<1>1. /\ work \in Works /\ work.at \in Nat /\ work.at >= 1 /\ work.ret = "none"
      /\ work.refused => work.ignored \/ work.sts # "ok"
      /\ work.refused \in BOOLEAN /\ work.ignored \in BOOLEAN
  BY DEF Working, Works
<1>2. e.skip \in Int /\ e.lost \in BOOLEAN /\ e.skip >= -work.at
  BY DEF ScriptEntries
<1> HIDE DEF e
<1> DEFINE g == work.at + 1
           n == work.at + 1 + e.skip
           sts == IF e.lost THEN work.sts ELSE "error"
           ig == work.ignored \/ e.lost
<1>3. g \in Nat /\ g >= 1 /\ n \in Nat /\ n >= 1
  BY <1>1, <1>2
<1>4. sts \in {"ok", "error", "random"} /\ ig \in BOOLEAN
  BY <1>1, <1>2 DEF Works
<1>5. /\ ig \/ sts # "ok"
      /\ work.refused => ig \/ sts # "ok"
  BY <1>1, <1>2
<1>6. GoesOn = [work EXCEPT !.at = g] /\ Jumps = [work EXCEPT !.at = n]
  BY DEF GoesOn, Jumps, e
<1> HIDE DEF g, n, sts, ig
<1>7. Working(GoesOn) /\ GoesOn.api = work.api /\ GoesOn.input = work.input
  BY <1>1, <1>3, <1>6 DEF Working, Works
<1>8. Working(Jumps) /\ Jumps.api = work.api /\ Jumps.input = work.input /\ Jumps.turn = work.turn
  BY <1>1, <1>3, <1>6 DEF Working, Works
<1>9. Working(Fails) /\ Fails.api = work.api /\ Fails.input = work.input
      /\ (Fails.ignored \/ Fails.sts # "ok")
  <2> DEFINE j == Jumps
             a == [j EXCEPT !.sts = sts]
             b == [a EXCEPT !.ignored = ig]
  <2>1. j \in Works /\ j.at = n /\ j.ret = "none" /\ j.api = work.api /\ j.input = work.input
        /\ j.sts = work.sts /\ j.ignored = work.ignored /\ j.refused = work.refused
    BY <1>1, <1>3, <1>6 DEF Works
  <2>2. Fails = b
    BY <2>1 DEF Fails, e, sts, ig
  <2> HIDE DEF j
  <2>3. a \in Works /\ a.at = n /\ a.ret = "none" /\ a.api = work.api /\ a.input = work.input
        /\ a.sts = sts /\ a.refused = work.refused
    BY <2>1, <1>4 DEF Works
  <2> HIDE DEF a
  <2>4. b \in Works /\ b.at = n /\ b.ret = "none" /\ b.api = work.api /\ b.input = work.input
        /\ b.sts = sts /\ b.refused = work.refused /\ b.ignored = ig
    BY <2>3, <1>4 DEF Works
  <2> HIDE DEF b
  <2> QED
    BY <1>3, <1>5, <2>2, <2>4 DEF Working
<1> QED
  BY <1>7, <1>8, <1>9

\* A step of a call.
LEMMA CallGoesOn ==
    ASSUME StorageInv, Called(work), UNCHANGED <<build, state>>, Working(work'),
           work'.api = work.api, work'.input = work.input, Bounded(store')
    PROVE  StorageInv'
<1>1. StateHeld'
  BY DEF StorageInv, StateHeld
<1>2. Called(work)'
  BY DEF Called
<1>3. Working(work)' /\ Bounded(store)'
  BY DEF Working, Bounded
<1> QED
  BY <1>1, <1>2, <1>3 DEF StorageInv

\* Each entry of a script keeps the invariant.
LEMMA EntryKeepsStorage ==
    ASSUME StorageInv,
           TakeBlocks \/ TrySucceeds \/ TryFails \/ GiveBlock \/ GiveEverything
           \/ Choose \/ GoTo \/ NextTurn \/ CheckTurns
    PROVE  StorageInv'
<1>1. /\ ~Resting /\ work.at <= Len(Script(work)) /\ UNCHANGED <<build, state>>
  BY DEF TakeBlocks, TrySucceeds, TryFails, GiveBlock, GiveEverything, Choose, GoTo, NextTurn,
         CheckTurns, At, Quiet
<1>2. Working(work) /\ Called(work) /\ Bounded(store)
  BY <1>1 DEF StorageInv, Rested, Resting
<1>3. /\ Current \in ScriptEntries /\ Current.skip >= -work.at
      /\ Current.do = "give" => Len(Current.ns) >= 1
  BY <1>1, <1>2, CurrentHeld
<1>4. /\ Working(GoesOn) /\ GoesOn.api = work.api /\ GoesOn.input = work.input
      /\ Working(Jumps) /\ Jumps.api = work.api /\ Jumps.input = work.input
      /\ Working(Fails) /\ Fails.api = work.api /\ Fails.input = work.input
      /\ Fails.ignored \/ Fails.sts # "ok"
      /\ Jumps.turn = work.turn
  BY <1>2, <1>3, Moved
<1>5. ASSUME work' \in {GoesOn, Jumps, Fails}, Bounded(store') PROVE StorageInv'
  <2>1. Working(work') /\ work'.api = work.api /\ work'.input = work.input
    BY <1>4, <1>5
  <2> QED
    BY <1>1, <1>2, <1>5, <2>1, CallGoesOn
<1>6. Current.ns \in Seq(Nat) /\ Current.free \in BOOLEAN /\ Current.lost \in BOOLEAN
  BY <1>3 DEF ScriptEntries
<1>7. CASE TakeBlocks
  <2> DEFINE taken == Allocated(store, Current.ns)[Len(Current.ns)]
             stale == Fails.stale \/ (Current.free /\ Current.lost)
  <2>1. Bounded(taken) /\ Bounded(ReleaseAll(taken))
    BY <1>2, <1>6, AllocatedBounded, ReleaseAllBounded
  <2>2. store' = ReleaseAll(taken) \/ store' = taken
    BY <1>7 DEF TakeBlocks
  <2>3. work' = GoesOn \/ work' = [Fails EXCEPT !.refused = TRUE, !.stale = stale]
    <3>1. Fails.stale = [Fails EXCEPT !.refused = TRUE].stale
      BY <1>4 DEF Working, Works
    <3> QED
      BY <1>7, <3>1 DEF TakeBlocks
  <2> HIDE DEF taken
  <2>4. CASE work' = GoesOn
    BY <1>5, <2>1, <2>2, <2>4
  <2>5. CASE work' = [Fails EXCEPT !.refused = TRUE, !.stale = stale]
    <3> DEFINE q == Fails
               a == [q EXCEPT !.refused = TRUE]
               b == [a EXCEPT !.stale = stale]
    <3>1. q \in Works /\ q.at >= 1 /\ q.ret = "none" /\ q.stale \in BOOLEAN /\ stale \in BOOLEAN
      BY <1>4, <1>6 DEF Working, Works
    <3>2. work' = b
      BY <2>5
    <3>3. q.api = work.api /\ q.input = work.input /\ (q.ignored \/ q.sts # "ok")
      BY <1>4
    <3> HIDE DEF q, stale
    <3>4. a \in Works /\ a.at = q.at /\ a.ret = "none" /\ a.api = q.api /\ a.input = q.input
          /\ a.ignored = q.ignored /\ a.sts = q.sts
      BY <3>1 DEF Works
    <3> HIDE DEF a
    <3>5. b \in Works /\ b.at = q.at /\ b.ret = "none" /\ b.api = q.api /\ b.input = q.input
          /\ b.ignored = q.ignored /\ b.sts = q.sts
      BY <3>1, <3>4 DEF Works
    <3> HIDE DEF b
    <3>6. Working(work') /\ work'.api = work.api /\ work'.input = work.input
      BY <3>1, <3>2, <3>3, <3>5 DEF Working
    <3>7. Bounded(store')
      BY <2>1, <2>2
    <3> QED
      BY <1>1, <1>2, <3>6, <3>7, CallGoesOn
  <2> QED
    BY <2>3, <2>4, <2>5
<1>8. CASE TrySucceeds \/ TryFails
  BY <1>2, <1>5, <1>8 DEF TrySucceeds, TryFails
<1>9. CASE GiveBlock
  <2> DEFINE n == Current.ns[1]
  <2>1. Current.do = "give"
    BY <1>9 DEF GiveBlock, At
  <2>2. n \in Nat
    <3>1. 1 \in 1..Len(Current.ns)
      BY <1>3, <1>6, <2>1
    <3> QED
      BY <1>6, <3>1
  <2>3. \/ n > store.used /\ work' = Fails /\ store' = store
        \/ ~(n > store.used) /\ work' = GoesOn /\ store' = Release(store, n)
    BY <1>9 DEF GiveBlock
  <2> HIDE DEF n
  <2>4. CASE n > store.used /\ work' = Fails /\ store' = store
    BY <1>2, <1>5, <2>4
  <2>5. CASE ~(n > store.used) /\ work' = GoesOn /\ store' = Release(store, n)
    <3>1. n <= store.used
      BY <1>2, <2>2, <2>5 DEF Bounded
    <3>2. Bounded(Release(store, n))
      BY <1>2, <2>2, <3>1, ReleaseBounded
    <3> QED
      BY <1>5, <2>5, <3>2
  <2> QED
    BY <2>3, <2>4, <2>5
<1>10. CASE GiveEverything
  <2>1. store' = ReleaseAll(store) /\ work' \in {GoesOn, Jumps, Fails}
    BY <1>10 DEF GiveEverything
  <2>2. Bounded(ReleaseAll(store))
    BY <1>2, ReleaseAllBounded
  <2> QED
    BY <1>5, <2>1, <2>2
<1>11. CASE Choose \/ GoTo \/ CheckTurns
  BY <1>2, <1>5, <1>11 DEF Choose, GoTo, CheckTurns
<1>12. CASE NextTurn
  <2>1. work' = GoesOn \/ work' = [Jumps EXCEPT !.turn = work.turn + 1]
    <3>1. Jumps.turn = work.turn
      BY <1>4
    <3> QED
      BY <1>12, <3>1 DEF NextTurn
  <2>2. CASE work' = GoesOn
    BY <1>2, <1>5, <1>12, <2>2 DEF NextTurn
  <2>3. CASE work' = [Jumps EXCEPT !.turn = work.turn + 1]
    <3> DEFINE q == Jumps
               m == work.turn + 1
               a == [q EXCEPT !.turn = m]
    <3>1. q \in Works /\ q.at >= 1 /\ q.ret = "none" /\ m \in Int
          /\ (q.refused => q.ignored \/ q.sts # "ok")
      BY <1>2, <1>4 DEF Working, Works
    <3>2. work' = a /\ q.api = work.api /\ q.input = work.input
      BY <1>4, <2>3
    <3> HIDE DEF q, m
    <3>3. a \in Works /\ a.at = q.at /\ a.ret = "none" /\ a.api = q.api /\ a.input = q.input
          /\ a.ignored = q.ignored /\ a.sts = q.sts /\ a.refused = q.refused
      BY <3>1 DEF Works
    <3> HIDE DEF a
    <3>4. Working(work') /\ work'.api = work.api /\ work'.input = work.input
      BY <3>1, <3>2, <3>3 DEF Working
    <3>5. Bounded(store')
      BY <1>2, <1>12 DEF NextTurn
    <3> QED
      BY <1>1, <1>2, <3>4, <3>5, CallGoesOn
  <2> QED
    BY <2>1, <2>2, <2>3
<1> QED
  BY <1>7, <1>8, <1>9, <1>10, <1>11, <1>12

\* The record of no call.
LEMMA IdleHeld ==
    ASSUME NEW ret \in {"none", "ok", "error", "random"}
    PROVE  /\ Idle(ret) \in Works /\ Idle(ret).at = 0 /\ Idle(ret).refused = FALSE
           /\ Idle(ret).ignored = FALSE /\ Idle(ret).ret = ret
BY DEF Idle, Works

\* Setting a context up, or failing to, keeps the invariant.
LEMMA InitKeepsStorage ==
    ASSUME StorageInv,
           \/ \E c \in KemParams : ippsMLKEM_Init(c)
           \/ \E c \in DsaParams, max \in MaxMessageLens \cup {0} : ippsMLDSA_Init(c, max)
           \/ \E c \in DsaParams : ippsMLDSA_InitRefused(c)
    PROVE  StorageInv'
<1>1. Rested(Idle("ok"), EmptyStorage)
  <2>1. /\ Idle("ok") \in Works /\ Idle("ok").at = 0 /\ Idle("ok").refused = FALSE
        /\ Idle("ok").ret = "ok"
    BY IdleHeld
  <2>2. "ok" # "memory"
    OBVIOUS
  <2> QED
    BY <2>1, <2>2 DEF Rested, EmptyStorage
<1>2. CASE \E c \in KemParams : ippsMLKEM_Init(c)
  <2>1. PICK c \in KemParams : ippsMLKEM_Init(c)
    BY <1>2
  <2>2. /\ state' = [params |-> c, max |-> 0, whole |-> TRUE, caps |-> Capacities(c, 0)]
        /\ Capacities(c, 0) \in [KemCalls -> Int]
    BY <2>1, CapacitiesHeld DEF ippsMLKEM_Init
  <2>3. StateHeld'
    BY <2>2 DEF StateHeld
  <2>4. Rested(work, store)'
    BY <1>1, <2>1 DEF ippsMLKEM_Init, Rested
  <2> QED
    BY <2>3, <2>4 DEF StorageInv
<1>3. CASE \E c \in DsaParams, max \in MaxMessageLens \cup {0} : ippsMLDSA_Init(c, max)
  <2>1. PICK c \in DsaParams, max \in MaxMessageLens \cup {0} : ippsMLDSA_Init(c, max)
    BY <1>3
  <2>2. max \in Nat
    BY StorageConstants
  <2>3. /\ state' = [params |-> c, max |-> max, whole |-> TRUE, caps |-> Capacities(c, max)]
        /\ Capacities(c, max) \in [DsaCalls -> Int]
    BY <2>1, <2>2, CapacitiesHeld DEF ippsMLDSA_Init
  <2>4. StateHeld'
    BY <2>3 DEF StateHeld
  <2>5. Rested(work, store)'
    BY <1>1, <2>1 DEF ippsMLDSA_Init, Rested
  <2> QED
    BY <2>4, <2>5 DEF StorageInv
<1>4. CASE \E c \in DsaParams : ippsMLDSA_InitRefused(c)
  <2>1. PICK c \in DsaParams : ippsMLDSA_InitRefused(c)
    BY <1>4
  <2>2. PICK p, m, b, caps :
          /\ state = [params |-> p, max |-> m, whole |-> b, caps |-> caps]
          /\ \/ p.family = "none" /\ DOMAIN caps = {}
             \/ p \in KemParams /\ caps \in [KemCalls -> Int]
             \/ p \in DsaParams /\ caps \in [DsaCalls -> Int]
    BY DEF StorageInv, StateHeld
  <2>3. p.family = "dsa"
    BY <2>1, <2>2 DEF ippsMLDSA_InitRefused
  <2>4. p \notin KemParams
    BY <2>3, KemNumbers
  <2>5. caps \in [DsaCalls -> Int]
    BY <2>2, <2>3, <2>4
  <2>6. state' = [params |-> c, max |-> m, whole |-> FALSE, caps |-> caps]
    BY <2>1, <2>2 DEF ippsMLDSA_InitRefused
  <2>7. StateHeld'
    BY <2>5, <2>6 DEF StateHeld
  <2>8. work' = Idle("error") /\ store' = store /\ work.at = 0
    BY <2>1 DEF ippsMLDSA_InitRefused, Resting
  <2>9. store \in [cap : Int, used : Nat, dirty : Nat, first : BOOLEAN]
        /\ store.used = 0 /\ store.dirty = 0
    BY <2>8 DEF StorageInv, Rested, Working
  <2>10. Rested(work, store)'
    <3>1. /\ Idle("error") \in Works /\ Idle("error").at = 0 /\ Idle("error").ret = "error"
      BY IdleHeld
    <3>2. "error" # "memory" /\ "error" # "ok"
      OBVIOUS
    <3> QED
      BY <2>8, <2>9, <3>1, <3>2 DEF Rested
  <2> QED
    BY <2>7, <2>10 DEF StorageInv
<1> QED
  BY <1>2, <1>3, <1>4

\* The beginning of a call keeps the invariant.
LEMMA BeginKeepsStorage ==
    ASSUME StorageInv, NEW f \in KemCalls \cup DsaCalls, NEW input \in Nat, NEW skew \in Int,
           NEW foreign \in BOOLEAN, NEW drawn \in BOOLEAN, Begin(f, input, skew, foreign, drawn)
    PROVE  StorageInv'
<1>1. work.at = 0 /\ f \in DOMAIN state.caps /\ CapacityOf(f) > 0 /\ UNCHANGED <<build, state>>
  BY DEF Begin, Resting
<1>2. PICK p, m, b, caps :
        /\ state = [params |-> p, max |-> m, whole |-> b, caps |-> caps]
        /\ \/ p.family = "none" /\ DOMAIN caps = {}
           \/ p \in KemParams /\ caps \in [KemCalls -> Int]
           \/ p \in DsaParams /\ caps \in [DsaCalls -> Int]
  BY DEF StorageInv, StateHeld
<1>3. \/ state.params \in KemParams /\ f \in KemCalls /\ state.caps[f] \in Int
      \/ state.params \in DsaParams /\ f \in DsaCalls /\ state.caps[f] \in Int
  BY <1>1, <1>2
<1>4. CapacityOf(f) \in Int
  <2>1. CASE f = "MLDSA_Verify_Mu"
    <3>1. f \notin KemCalls
      BY <2>1 DEF KemCalls
    <3>2. VerifyBytes(state.params, 0) \in Int
      BY <1>3, <3>1, CapacitiesHeld
    <3> QED
      BY <2>1, <3>2 DEF CapacityOf
  <2>2. CASE f # "MLDSA_Verify_Mu"
    BY <1>3, <2>2 DEF CapacityOf
  <2> QED
    BY <2>1, <2>2
<1>5. Rested(work, store)
  BY <1>1 DEF StorageInv, Working
<1>6. Bounded(store')
  <2> DEFINE n == CapacityOf(f)
             u == [store EXCEPT !.cap = n]
             x == [u EXCEPT !.dirty = 0]
             y == [x EXCEPT !.first = TRUE]
  <2>1. store' = y
    BY DEF Begin
  <2>2. n \in Int /\ n > 0
    BY <1>1, <1>4
  <2> HIDE DEF n
  <2>3. u \in [cap : Int, used : Nat, dirty : Nat, first : BOOLEAN] /\ u.used = 0 /\ u.cap = n
    BY <1>5, <2>2 DEF Rested
  <2> HIDE DEF u
  <2>4. x \in [cap : Int, used : Nat, dirty : Nat, first : BOOLEAN] /\ x.used = 0 /\ x.cap = n
        /\ x.dirty = 0
    BY <2>3
  <2> HIDE DEF x
  <2>5. y \in [cap : Int, used : Nat, dirty : Nat, first : BOOLEAN] /\ y.used = 0 /\ y.cap = n
        /\ y.dirty = 0
    BY <2>4
  <2> HIDE DEF y
  <2> QED
    BY <2>1, <2>2, <2>5 DEF Bounded
<1> DEFINE w == [Idle("none") EXCEPT !.api = f, !.input = input, !.skew = skew,
                                     !.foreign = foreign, !.at = 1]
<1>7. /\ w \in Works /\ w.at = 1 /\ w.refused = FALSE /\ w.ret = "none" /\ w.api = f
      /\ w.input = input
  <2> DEFINE idle == Idle("none")
             idle1 == [idle EXCEPT !.api = f]
             idle2 == [idle1 EXCEPT !.input = input]
             idle3 == [idle2 EXCEPT !.skew = skew]
             idle4 == [idle3 EXCEPT !.foreign = foreign]
             idle5 == [idle4 EXCEPT !.at = 1]
  <2>1. idle \in Works /\ idle.ret = "none" /\ idle.refused = FALSE
    BY IdleHeld
  <2>2. w = idle5
    OBVIOUS
  <2> HIDE DEF idle
  <2>3. idle1 \in Works /\ idle1.ret = "none" /\ idle1.refused = FALSE /\ idle1.api = f
    BY <2>1 DEF Works
  <2> HIDE DEF idle1
  <2>4. idle2 \in Works /\ idle2.ret = "none" /\ idle2.refused = FALSE /\ idle2.api = f /\ idle2.input = input
    BY <2>3 DEF Works
  <2> HIDE DEF idle2
  <2>5. idle3 \in Works /\ idle3.ret = "none" /\ idle3.refused = FALSE /\ idle3.api = f /\ idle3.input = input
    BY <2>4 DEF Works
  <2> HIDE DEF idle3
  <2>6. idle4 \in Works /\ idle4.ret = "none" /\ idle4.refused = FALSE /\ idle4.api = f /\ idle4.input = input
    BY <2>5 DEF Works
  <2> HIDE DEF idle4
  <2>7. idle5 \in Works /\ idle5.ret = "none" /\ idle5.refused = FALSE /\ idle5.api = f /\ idle5.input = input
        /\ idle5.at = 1
    BY <2>6 DEF Works
  <2> HIDE DEF idle5
  <2> QED
    BY <2>2, <2>7
<1>8. \/ work' = w
      \/ work' = [w EXCEPT !.at = Len(Script(w)) + 1, !.sts = "random"]
      \/ work' = Idle("random")
  BY DEF Begin
<1> HIDE DEF w
<1>9. Called(w)
  BY <1>3, <1>7 DEF Called
<1>10. StateHeld'
  BY <1>1 DEF StorageInv, StateHeld
<1>11. CASE work' = w
  <2>1. Working(work')
    BY <1>7, <1>11 DEF Working
  <2>2. Called(work)'
    BY <1>1, <1>9, <1>11 DEF Called
  <2>3. Working(work)' /\ Bounded(store)'
    BY <1>6, <2>1 DEF Working, Bounded
  <2> QED
    BY <1>10, <2>2, <2>3 DEF StorageInv
<1>12. CASE work' = [w EXCEPT !.at = Len(Script(w)) + 1, !.sts = "random"]
  <2> DEFINE n == Len(Script(w)) + 1
             x == [w EXCEPT !.at = n]
             y == [x EXCEPT !.sts = "random"]
  <2>1. n \in Nat /\ n >= 1
    <3>1. Sound(Script(w))
      BY <1>9, ScriptSound
    <3> DEFINE s == Script(w)
    <3>2. s \in Seq(ScriptEntries)
      BY <3>1 DEF Sound
    <3> HIDE DEF s
    <3>3. Len(s) \in Nat
      BY <3>2
    <3> QED
      BY <3>3 DEF s
  <2>2. work' = y
    BY <1>12
  <2> HIDE DEF n
  <2>3. x \in Works /\ x.at = n /\ x.ret = "none" /\ x.refused = FALSE /\ x.api = f /\ x.input = input
    BY <1>7, <2>1 DEF Works
  <2> HIDE DEF x
  <2>4. y \in Works /\ y.at = n /\ y.ret = "none" /\ y.refused = FALSE /\ y.api = f /\ y.input = input
    BY <2>3 DEF Works
  <2> HIDE DEF y
  <2>5. Working(work)'
    BY <2>1, <2>2, <2>4 DEF Working
  <2>6. Called(work)'
    BY <1>1, <1>7, <1>9, <2>2, <2>4 DEF Called
  <2>7. Bounded(store)'
    BY <1>6 DEF Bounded
  <2> QED
    BY <1>10, <2>5, <2>6, <2>7 DEF StorageInv
<1>13. CASE work' = Idle("random")
  <2>1. /\ Idle("random") \in Works /\ Idle("random").at = 0 /\ Idle("random").ret = "random"
    BY IdleHeld
  <2>2. "random" # "memory" /\ "random" # "ok"
    OBVIOUS
  <2>3. /\ store' \in [cap : Int, used : Nat, dirty : Nat, first : BOOLEAN]
        /\ store'.used = 0 /\ store'.dirty = 0
    <3>1. store' = [store EXCEPT !.cap = CapacityOf(f), !.dirty = 0, !.first = TRUE]
      BY DEF Begin
    <3>2. store.used = 0 /\ store \in [cap : Int, used : Nat, dirty : Nat, first : BOOLEAN]
      BY <1>5 DEF Rested
    <3> QED
      BY <1>4, <3>1, <3>2
  <2>4. Rested(work, store)'
    BY <1>13, <2>1, <2>2, <2>3 DEF Rested
  <2> QED
    BY <1>10, <2>4 DEF StorageInv
<1> QED
  BY <1>8, <1>11, <1>12, <1>13

\* The end of a call keeps the invariant.
LEMMA ReturnKeepsStorage ==
    ASSUME StorageInv, Return
    PROVE  StorageInv'
<1>1. /\ work.at # 0 /\ UNCHANGED <<build, state>> /\ store' = ReleaseAll(store)
      /\ work' = [work EXCEPT !.at = 0,
                              !.ret = IF FirstByteIsZero(store', work.foreign) THEN work.sts
                                      ELSE "memory"]
  BY DEF Return, Resting, Quiet
<1>2. Working(work) /\ Bounded(store)
  BY <1>1 DEF StorageInv, Rested
<1>3. /\ Bounded(store') /\ store'.used = 0 /\ store'.dirty = 0
  BY <1>1, <1>2, ReleaseAllBounded
<1> DEFINE r == IF FirstByteIsZero(store', work.foreign) THEN work.sts ELSE "memory"
           a == [work EXCEPT !.at = 0]
           b == [a EXCEPT !.ret = r]
<1>4. /\ r \in {"ok", "error", "random", "memory"}
      /\ r = "memory" => work.foreign /\ store'.first
      /\ r = "ok" => work.sts = "ok"
  <2>1. work.sts \in {"ok", "error", "random"}
    BY <1>2 DEF Working, Works
  <2>2. "memory" \notin {"ok", "error", "random"}
    OBVIOUS
  <2> QED
    BY <1>3, <2>1, <2>2 DEF FirstByteIsZero
<1>5. work' = b
  BY <1>1
<1> HIDE DEF r
<1>6. a \in Works /\ a.at = 0 /\ a.refused = work.refused /\ a.ignored = work.ignored
      /\ a.foreign = work.foreign
  BY <1>2 DEF Working, Works
<1> HIDE DEF a
<1>7. b \in Works /\ b.at = 0 /\ b.refused = work.refused /\ b.ignored = work.ignored
      /\ b.foreign = work.foreign /\ b.ret = r
  BY <1>4, <1>6 DEF Works
<1> HIDE DEF b
<1>8. b.ret = "ok" => ~b.refused \/ b.ignored
  BY <1>2, <1>4, <1>7 DEF Working
<1>9. store' \in [cap : Int, used : Nat, dirty : Nat, first : BOOLEAN]
  BY <1>3 DEF Bounded
<1>10. Rested(work, store)'
  BY <1>3, <1>4, <1>5, <1>7, <1>8, <1>9 DEF Rested
<1>11. StateHeld'
  BY <1>1 DEF StorageInv, StateHeld
<1> QED
  BY <1>10, <1>11 DEF StorageInv

\* After every call of ML-KEM and ML-DSA, whatever failed inside, nothing of the
\* working buffer stays taken and every byte the call wrote is cleared; a block
\* that was refused is never a success unless its status was dropped, and the
\* only storage reported as not cleared is one the call never wrote to.
THEOREM StorageAlwaysClean == StorageSpec => []StorageClean
<1>1. StorageInit => StorageInv
  <2> SUFFICES ASSUME StorageInit PROVE StorageInv
    OBVIOUS
  <2>1. /\ state = [params |-> [family |-> "none"], max |-> 0, whole |-> FALSE, caps |-> <<>>]
        /\ store = EmptyStorage /\ work = Idle("none")
    BY DEF StorageInit
  <2>2. StateHeld
    <3> DEFINE p == [family |-> "none"]
               o == <<>>
    <3>1. p.family = "none" /\ DOMAIN o = {}
      OBVIOUS
    <3>2. state = [params |-> p, max |-> 0, whole |-> FALSE, caps |-> o]
      BY <2>1
    <3> HIDE DEF p, o
    <3> QED
      BY <3>1, <3>2 DEF StateHeld
  <2>3. Rested(work, store)
    <3>1. /\ Idle("none") \in Works /\ Idle("none").at = 0 /\ Idle("none").ret = "none"
      BY IdleHeld
    <3>2. "none" # "memory" /\ "none" # "ok"
      OBVIOUS
    <3> QED
      BY <2>1, <3>1, <3>2 DEF Rested, EmptyStorage
  <2> QED
    BY <2>2, <2>3 DEF StorageInv
<1>2. StorageInv /\ [StorageNext]_storageVars => StorageInv'
  <2> SUFFICES ASSUME StorageInv, [StorageNext]_storageVars PROVE StorageInv'
    OBVIOUS
  <2>1. CASE \/ \E c \in KemParams : ippsMLKEM_Init(c)
             \/ \E c \in DsaParams, max \in MaxMessageLens \cup {0} : ippsMLDSA_Init(c, max)
             \/ \E c \in DsaParams : ippsMLDSA_InitRefused(c)
    BY <2>1, InitKeepsStorage
  <2>2. ASSUME NEW f \in KemCalls \cup DsaCalls, NEW m \in MessageLens, NEW x \in ContextLens,
               NEW skew \in Skews, NEW foreign \in BOOLEAN, NEW drawn \in BOOLEAN,
               Begin(f, IF f \in {"MLDSA_Sign", "MLDSA_Verify"} THEN 64 + 2 + x + m ELSE 0,
                     skew, foreign, drawn)
        PROVE  StorageInv'
    <3> DEFINE input == IF f \in {"MLDSA_Sign", "MLDSA_Verify"} THEN 64 + 2 + x + m ELSE 0
    <3>1. m \in Nat /\ x \in Nat /\ skew \in Int
      BY StorageConstants
    <3>2. input \in Nat
      BY <3>1
    <3>3. Begin(f, input, skew, foreign, drawn)
      BY <2>2
    <3> HIDE DEF input
    <3> QED
      BY <3>1, <3>2, <3>3, BeginKeepsStorage
  <2>3. CASE TakeBlocks \/ TrySucceeds \/ TryFails \/ GiveBlock \/ GiveEverything
             \/ Choose \/ GoTo \/ NextTurn \/ CheckTurns
    BY <2>3, EntryKeepsStorage
  <2>4. CASE Return
    BY <2>4, ReturnKeepsStorage
  <2>5. CASE UNCHANGED storageVars
    BY <2>5 DEF storageVars, StorageInv, StateHeld, Rested, Working, Called, Bounded
  <2> QED
    BY <2>1, <2>2, <2>3, <2>4, <2>5 DEF StorageNext
<1>3. StorageInv => StorageClean
  BY DEF StorageInv, StorageClean, Rested, Working, Resting
<1> QED
  BY <1>1, <1>2, <1>3, PTL DEF StorageSpec

-----------------------------------------------------------------------------
(* What a call takes: an account of the storage, entry by entry. *)

\* A pair of an account: the bytes taken, and 1 once the status of an error was
\* dropped.
Pairs == Nat \X {0, 1}

\* The bytes of one block or of three.
Total(ns) == IF Len(ns) = 1 THEN ns[1] ELSE ns[1] + ns[2] + ns[3]

\* An account f says which pairs are possible at each position.  An error that
\* is not resolved in the script leaves it with one of x.
Follows(f, p, q) == p + 1 \in DOMAIN f /\ q \in f[p + 1]
Leads(e, f, p, x, q) ==
    /\ e.skip = Out => q \in x
    /\ e.skip # Out => p + 1 + e.skip \in DOMAIN f /\ q \in f[p + 1 + e.skip]

\* r: the bytes there are and may be lost to alignment, and if the account goes
\* on after a dropped error.  If it does a block may be refused then, but
\* neither hold up a call that goes on nor one that has no error before it.
TakeCovered(e, f, p, x, r, q) ==
    \/ q[1] + Total(e.ns) + r.skew <= r.room /\ Follows(f, p, <<q[1] + Total(e.ns), q[2]>>)
    \/ /\ r.all /\ q[2] = 1 /\ q[1] + Total(e.ns) > r.room
       /\ Len(e.ns) = 1 /\ e.free /\ ~e.lost /\ Leads(e, f, p, x, <<0, 1>>)

ErrorCovered(e, f, p, x, r, q) ==
    /\ ~e.lost => Leads(e, f, p, x, q)
    /\ e.lost /\ r.all => Leads(e, f, p, x, <<q[1], 1>>)

PairCovered(e, f, p, x, r, q) ==
    /\ e.do = "take" => TakeCovered(e, f, p, x, r, q)
    /\ e.do = "give" => q[1] >= e.ns[1] /\ Follows(f, p, <<q[1] - e.ns[1], q[2]>>)
    /\ e.do = "giveall" => /\ Follows(f, p, <<0, q[2]>>)
                           /\ ErrorCovered(e, f, p, x, r, <<0, q[2]>>)
    /\ e.do \in {"try", "either", "turn", "lastturn"} => Follows(f, p, q)
    /\ e.do \in {"try", "lastturn"} => ErrorCovered(e, f, p, x, r, q)
    /\ e.do \in {"either", "goto", "turn"} => Leads(e, f, p, x, q)

Covers(e, f, p, x, r) ==
    /\ p \in DOMAIN f /\ f[p] \subseteq Pairs
    /\ e.do = "take" => Len(e.ns) \in {1, 3} /\ (r.all \/ ~e.free)
    /\ e.do \in {"either", "goto", "turn"} => e.skip # Out
    /\ \A q \in f[p] : PairCovered(e, f, p, x, r, q)

\* f accounts for s, from a to b.
Accounts(f, s, a, b, x, r) ==
    /\ DOMAIN f = 1..Len(s) + 1 /\ a \subseteq f[1] /\ f[Len(s) + 1] \subseteq b
    /\ \A j \in 1..Len(s) : Covers(s[j], f, j, x, r)

Way(s, a, b, x, r) == Sound(s) /\ \E f : Accounts(f, s, a, b, x, r)

\* An entry is covered as well where more is possible at what it leads to.
LEMMA CoversMoved ==
    ASSUME NEW e, NEW f, NEW g, NEW p \in Int, NEW d \in Int, NEW x, NEW y, NEW r,
           e.skip \in Int, DOMAIN f \subseteq Int,
           Covers(e, f, p, x, r), x \subseteq y, p + d \in DOMAIN g, g[p + d] = f[p],
           \A t \in DOMAIN f : t # p => t + d \in DOMAIN g /\ f[t] \subseteq g[t + d]
    PROVE  Covers(e, g, p + d, y, r)
<1>1. /\ p \in DOMAIN f /\ f[p] \subseteq Pairs
      /\ e.do = "take" => Len(e.ns) \in {1, 3} /\ (r.all \/ ~e.free)
      /\ e.do \in {"either", "goto", "turn"} => e.skip # Out
      /\ \A q \in f[p] : PairCovered(e, f, p, x, r, q)
  BY DEF Covers
<1>2. \A t \in DOMAIN f : t + d \in DOMAIN g /\ f[t] \subseteq g[t + d]
  OBVIOUS
<1>3. ASSUME NEW q, Follows(f, p, q) PROVE Follows(g, p + d, q)
  <2>1. p + 1 + d = p + d + 1
    OBVIOUS
  <2>2. p + 1 + d \in DOMAIN g /\ q \in g[p + 1 + d]
    BY <1>2, <1>3 DEF Follows
  <2> QED
    BY <2>1, <2>2 DEF Follows
<1>4. ASSUME NEW q, Leads(e, f, p, x, q) PROVE Leads(e, g, p + d, y, q)
  <2> DEFINE k == e.skip
  <2>1. p + 1 + k + d = p + d + 1 + k
    OBVIOUS
  <2>2. k # Out => p + 1 + k + d \in DOMAIN g /\ q \in g[p + 1 + k + d]
    BY <1>2, <1>4 DEF Leads
  <2>3. k = Out => q \in y
    BY <1>4 DEF Leads
  <2> HIDE DEF k
  <2>4. k # Out => p + d + 1 + k \in DOMAIN g /\ q \in g[p + d + 1 + k]
    BY <2>1, <2>2
  <2> QED
    BY <2>3, <2>4 DEF Leads, k
<1>5. ASSUME NEW q, ErrorCovered(e, f, p, x, r, q) PROVE ErrorCovered(e, g, p + d, y, r, q)
  BY <1>4, <1>5 DEF ErrorCovered
<1>6. ASSUME NEW q, TakeCovered(e, f, p, x, r, q) PROVE TakeCovered(e, g, p + d, y, r, q)
  <2> DEFINE n == Total(e.ns)
             c == <<q[1] + Total(e.ns), q[2]>>
             o == <<0, 1>>
  <2> HIDE DEF n, c, o
  <2>1. \/ q[1] + n + r.skew <= r.room /\ Follows(f, p, c)
        \/ /\ r.all /\ q[2] = 1 /\ q[1] + n > r.room
           /\ Len(e.ns) = 1 /\ e.free /\ ~e.lost /\ Leads(e, f, p, x, o)
    BY <1>6 DEF TakeCovered, n, c, o
  <2>2. \/ q[1] + n + r.skew <= r.room /\ Follows(g, p + d, c)
        \/ /\ r.all /\ q[2] = 1 /\ q[1] + n > r.room
           /\ Len(e.ns) = 1 /\ e.free /\ ~e.lost /\ Leads(e, g, p + d, y, o)
    BY <1>3, <1>4, <2>1
  <2> QED
    BY <2>2 DEF TakeCovered, n, c, o
<1>7. ASSUME NEW q \in f[p] PROVE PairCovered(e, g, p + d, y, r, q)
  <2>1. PairCovered(e, f, p, x, r, q)
    BY <1>1
  <2> QED
    BY <2>1, <1>3, <1>4, <1>5, <1>6 DEF PairCovered
<1> QED
  BY <1>1, <1>7 DEF Covers

\* Scripts one after the other.
LEMMA WayJoined ==
    ASSUME NEW s, NEW t, NEW a, NEW b, NEW c, NEW x, NEW r, Way(s, a, b, x, r), Way(t, b, c, x, r)
    PROVE  Way(s \o t, a, c, x, r)
<1> DEFINE u == s \o t
           m == Len(s)
           n == Len(t)
<1>1. /\ Sound(s) /\ Sound(t) /\ Sound(u)
      /\ s \in Seq(ScriptEntries) /\ t \in Seq(ScriptEntries) /\ m \in Nat /\ n \in Nat
  <2>1. Sound(s) /\ Sound(t)
    BY DEF Way
  <2>2. Sound(u)
    BY <2>1, SoundJoined
  <2>3. s \in Seq(ScriptEntries) /\ t \in Seq(ScriptEntries)
    BY <2>1 DEF Sound
  <2>4. m \in Nat /\ n \in Nat
    BY <2>3
  <2> QED
    BY <2>1, <2>2, <2>3, <2>4
<1>2. Len(u) = m + n /\ \A j \in 1..m + n : u[j] = IF j <= m THEN s[j] ELSE t[j - m]
  BY <1>1, ConcatProperties
<1>3. PICK f : Accounts(f, s, a, b, x, r)
  BY DEF Way
<1>4. PICK g : Accounts(g, t, b, c, x, r)
  BY DEF Way
<1> DEFINE h2 == [j \in 1..m + n + 1 |-> IF j <= m THEN f[j] ELSE g[j - m]]
<1>5. /\ DOMAIN f = 1..m + 1 /\ a \subseteq f[1] /\ f[m + 1] \subseteq b
      /\ \A j \in 1..m : Covers(s[j], f, j, x, r)
  BY <1>3 DEF Accounts
<1>6. /\ DOMAIN g = 1..n + 1 /\ b \subseteq g[1] /\ g[n + 1] \subseteq c
      /\ \A j \in 1..n : Covers(t[j], g, j, x, r)
  BY <1>4 DEF Accounts
<1> HIDE DEF m, n, u
<1>7. /\ DOMAIN h2 = 1..m + n + 1
      /\ \A j \in 1..m : h2[j] = f[j]
      /\ \A j \in 1..n + 1 : j + m \in 1..m + n + 1 /\ h2[j + m] = g[j]
  <2>1. ASSUME NEW j \in 1..n + 1 PROVE j + m \in 1..m + n + 1 /\ h2[j + m] = g[j]
    <3> DEFINE k == j + m
    <3>1. k \in 1..m + n + 1 /\ ~(k <= m) /\ k - m = j
      BY <1>1
    <3> HIDE DEF k
    <3>2. h2[k] = g[j]
      BY <3>1
    <3> QED
      BY <3>1, <3>2 DEF k
  <2>2. \A j \in 1..m : j \in 1..m + n + 1 /\ j <= m
    BY <1>1
  <2>3. \A j \in 1..m : h2[j] = f[j]
    BY <2>2
  <2> QED
    BY <2>1, <2>3
<1> HIDE DEF h2
<1>8. \A j \in 1..m + 1 : j \in 1..m + n + 1 /\ f[j] \subseteq h2[j]
  <2> TAKE j \in 1..m + 1
  <2>1. CASE j \in 1..m
    BY <1>1, <1>7, <2>1
  <2>2. CASE j = m + 1
    <3>1. 1 \in 1..n + 1 /\ 1 + m = j
      BY <1>1, <2>2
    <3>2. h2[1 + m] = g[1] /\ 1 + m \in 1..m + n + 1
      BY <1>7, <3>1
    <3> QED
      BY <1>5, <1>6, <2>2, <3>1, <3>2
  <2> QED
    BY <1>1, <2>1, <2>2
<1>9. a \subseteq h2[1]
  <2>1. 1 \in 1..m + 1
    BY <1>1
  <2> QED
    BY <1>5, <1>8, <2>1
<1>10. h2[m + n + 1] \subseteq c
  <2>1. n + 1 \in 1..n + 1 /\ n + 1 + m = m + n + 1
    BY <1>1
  <2>2. h2[n + 1 + m] = g[n + 1]
    BY <1>7, <2>1
  <2> QED
    BY <1>6, <2>1, <2>2
<1>11. ASSUME NEW j \in 1..m + n PROVE Covers(u[j], h2, j, x, r)
  <2>1. CASE j <= m
    <3>1. j \in 1..m /\ j + 0 = j /\ j \in Int /\ 0 \in Int /\ u[j] = s[j]
      BY <1>1, <1>2, <2>1
    <3>2. s[j].skip \in Int
      <4>1. s[j] \in ScriptEntries
        BY <1>1, <3>1 DEF m
      <4> QED
        BY <4>1 DEF ScriptEntries
    <3>3. j + 0 \in DOMAIN h2 /\ h2[j + 0] = f[j] /\ DOMAIN f \subseteq Int
      BY <1>1, <1>5, <1>7, <3>1
    <3>4. \A k \in DOMAIN f : k # j => k + 0 \in DOMAIN h2 /\ f[k] \subseteq h2[k + 0]
      BY <1>5, <1>7, <1>8
    <3>5. Covers(s[j], f, j, x, r)
      BY <1>5, <3>1
    <3>6. Covers(s[j], h2, j + 0, x, r)
      BY <3>1, <3>2, <3>3, <3>4, <3>5, CoversMoved
    <3> QED
      BY <3>1, <3>6
  <2>2. CASE ~(j <= m)
    <3> DEFINE spot == j - m
    <3>1. spot \in 1..n /\ spot + m = j /\ spot \in Int /\ m \in Int /\ u[j] = t[spot]
      BY <1>1, <1>2, <2>2
    <3> HIDE DEF spot
    <3>2. t[spot].skip \in Int
      <4>1. t[spot] \in ScriptEntries
        BY <1>1, <3>1 DEF n
      <4> QED
        BY <4>1 DEF ScriptEntries
    <3>3. spot \in 1..n + 1 /\ spot + m \in DOMAIN h2 /\ h2[spot + m] = g[spot] /\ DOMAIN g \subseteq Int
      BY <1>1, <1>6, <1>7, <3>1
    <3>4. \A k \in DOMAIN g : k # spot => k + m \in DOMAIN h2 /\ g[k] \subseteq h2[k + m]
      BY <1>6, <1>7
    <3>5. Covers(t[spot], g, spot, x, r)
      BY <1>6, <3>1
    <3>6. Covers(t[spot], h2, spot + m, x, r)
      BY <3>1, <3>2, <3>3, <3>4, <3>5, CoversMoved
    <3> QED
      BY <3>1, <3>6
  <2> QED
    BY <2>1, <2>2
<1>12. Accounts(h2, u, a, c, x, r)
  BY <1>1, <1>2, <1>7, <1>9, <1>10, <1>11 DEF Accounts
<1> QED
  BY <1>1, <1>12 DEF Way, u

\* Less may come in, and more may come out.
LEMMA WayWidened ==
    ASSUME NEW s, NEW a, NEW b, NEW c, NEW d, NEW x, NEW r, Way(s, a, b, x, r),
           c \subseteq a, b \subseteq d
    PROVE  Way(s, c, d, x, r)
<1>1. PICK f : Accounts(f, s, a, b, x, r)
  BY DEF Way
<1>2. Accounts(f, s, c, d, x, r)
  BY <1>1 DEF Accounts
<1> QED
  BY <1>2 DEF Way

\* A script with no entries.
LEMMA WayEmpty ==
    ASSUME NEW a, NEW b, NEW x, NEW r, a \subseteq b
    PROVE  Way(<<>>, a, b, x, r)
<1> DEFINE s == <<>>
           f == [j \in 1..1 |-> a]
<1>1. Len(s) = 0 /\ 1..0 = {} /\ 0 + 1 = 1 /\ 1 \in 1..1
  OBVIOUS
<1>2. DOMAIN f = 1..1 /\ f[1] = a
  BY <1>1
<1>3. Sound(s)
  BY SoundEmpty
<1> HIDE DEF s, f
<1>4. Accounts(f, s, a, b, x, r)
  BY <1>1, <1>2 DEF Accounts
<1> QED
  BY <1>3, <1>4 DEF Way, s

\* A script of one entry.
LEMMA WayEntry ==
    ASSUME NEW e, NEW a, NEW b, NEW x, NEW r, Harmless(e), e.skip = Out, a \subseteq Pairs,
           e.do = "take" => Len(e.ns) \in {1, 3} /\ (r.all \/ ~e.free),
           e.do \notin {"either", "goto", "turn"},
           \A q \in a :
               /\ e.do = "take" =>
                    \/ q[1] + Total(e.ns) + r.skew <= r.room /\ <<q[1] + Total(e.ns), q[2]>> \in b
                    \/ /\ r.all /\ q[2] = 1 /\ q[1] + Total(e.ns) > r.room
                       /\ Len(e.ns) = 1 /\ e.free /\ ~e.lost /\ <<0, 1>> \in x
               /\ e.do = "give" => q[1] >= e.ns[1] /\ <<q[1] - e.ns[1], q[2]>> \in b
               /\ e.do = "giveall" => ~e.lost /\ <<0, q[2]>> \in b /\ <<0, q[2]>> \in x
               /\ e.do \in {"try", "lastturn"} => q \in b /\ (e.lost \/ q \in x) /\ (e.lost => ~r.all)
    PROVE  Way(<<e>>, a, b, x, r)
<1> DEFINE s == <<e>>
           f == [j \in 1..2 |-> IF j = 1 THEN a ELSE b]
<1>1. Sound(s)
  BY SoundEntry
<1>2. DOMAIN f = 1..2 /\ f[1] = a /\ f[2] = b /\ 1 \in 1..2 /\ 2 \in 1..2
  OBVIOUS
<1>3. Len(s) = 1 /\ s[1] = e /\ 1 + 1 = 2
  OBVIOUS
<1> HIDE DEF s, f
<1>4. \A q : q \in b <=> Follows(f, 1, q)
  BY <1>2, <1>3 DEF Follows
<1>5. \A q : q \in x => Leads(e, f, 1, x, q)
  BY DEF Leads
<1>6. ASSUME NEW q \in a PROVE PairCovered(e, f, 1, x, r, q)
  <2>1. e.do = "take" => TakeCovered(e, f, 1, x, r, q)
    <3> DEFINE n == Total(e.ns)
               c == <<q[1] + n, q[2]>>
               o == <<0, 1>>
    <3>1. e.do = "take" =>
            \/ q[1] + n + r.skew <= r.room /\ c \in b
            \/ /\ r.all /\ q[2] = 1 /\ q[1] + n > r.room
               /\ Len(e.ns) = 1 /\ e.free /\ ~e.lost /\ o \in x
      OBVIOUS
    <3> HIDE DEF c, o
    <3>2. e.do = "take" =>
            \/ q[1] + n + r.skew <= r.room /\ Follows(f, 1, c)
            \/ /\ r.all /\ q[2] = 1 /\ q[1] + n > r.room
               /\ Len(e.ns) = 1 /\ e.free /\ ~e.lost /\ Leads(e, f, 1, x, o)
      BY <1>4, <1>5, <3>1
    <3> QED
      BY <3>2 DEF TakeCovered, c, o
  <2>2. e.do = "give" => q[1] >= e.ns[1] /\ Follows(f, 1, <<q[1] - e.ns[1], q[2]>>)
    BY <1>4
  <2>3. e.do = "giveall" => Follows(f, 1, <<0, q[2]>>) /\ ErrorCovered(e, f, 1, x, r, <<0, q[2]>>)
    <3> DEFINE c == <<0, q[2]>>
    <3>1. e.do = "giveall" => ~e.lost /\ c \in b /\ c \in x
      OBVIOUS
    <3> HIDE DEF c
    <3>2. e.do = "giveall" => Follows(f, 1, c) /\ ErrorCovered(e, f, 1, x, r, c)
      BY <1>4, <1>5, <3>1 DEF ErrorCovered
    <3> QED
      BY <3>2 DEF c
  <2>4. e.do \in {"try", "lastturn"} => Follows(f, 1, q) /\ ErrorCovered(e, f, 1, x, r, q)
    <3>1. e.do \in {"try", "lastturn"} => q \in b /\ (e.lost \/ q \in x) /\ (e.lost => ~r.all)
      OBVIOUS
    <3> QED
      BY <1>4, <1>5, <3>1 DEF ErrorCovered
  <2>5. e.do \in {"try", "either", "turn", "lastturn"} => e.do \in {"try", "lastturn"}
    OBVIOUS
  <2> QED
    BY <2>1, <2>2, <2>3, <2>4, <2>5 DEF PairCovered
<1>7. Covers(e, f, 1, x, r)
  BY <1>2, <1>6 DEF Covers
<1>8. \A j \in 1..Len(s) : j = 1
  BY <1>3
<1>9. Accounts(f, s, a, b, x, r)
  BY <1>2, <1>3, <1>7, <1>8 DEF Accounts
<1> QED
  BY <1>1, <1>9 DEF Way, s

\* d is e, or e with its error resolved to the end of n entries.
Resolved(e, d, n, p, x, b, r) ==
    \/ e.skip # Out /\ d = e
    \/ /\ e.skip = Out /\ d.skip = n - p /\ d.do = e.do /\ d.ns = e.ns /\ d.free = e.free
       /\ \/ d.lost = e.lost /\ x \subseteq b
          \/ d.lost /\ (r.all => <<0, 1>> \notin x /\ \A q \in x : <<q[1], 1>> \in b)

\* g is f where b is possible at the end of n entries.
Extended(f, g, n, b) ==
    /\ DOMAIN f = 1..n + 1 /\ DOMAIN g = 1..n + 1 /\ f[n + 1] \subseteq b /\ g[n + 1] = b
    /\ \A k \in 1..n : g[k] = f[k]

\* What was only resolved differently keeps its account, where the end takes
\* what the errors bring.
LEMMA ResolvedCovered ==
    ASSUME NEW e, NEW d, NEW f, NEW g, NEW p \in Int, NEW x, NEW y, NEW b, NEW r, NEW n \in Nat,
           e \in ScriptEntries, Covers(e, f, p, x, r), p \in 1..n, Extended(f, g, n, b),
           Resolved(e, d, n, p, x, b, r)
    PROVE  Covers(d, g, p, y, r)
<1>1. /\ p \in DOMAIN f /\ f[p] \subseteq Pairs
      /\ e.do = "take" => Len(e.ns) \in {1, 3} /\ (r.all \/ ~e.free)
      /\ e.do \in {"either", "goto", "turn"} => e.skip # Out
      /\ \A q \in f[p] : PairCovered(e, f, p, x, r, q)
  BY DEF Covers
<1>2. /\ DOMAIN f = 1..n + 1 /\ DOMAIN g = DOMAIN f /\ g[n + 1] = b /\ g[p] = f[p] /\ p # n + 1
      /\ \A k \in DOMAIN f : f[k] \subseteq g[k]
  BY DEF Extended
<1>3. \A q : Follows(f, p, q) => Follows(g, p, q)
  BY <1>2 DEF Follows
<1>4. CASE e.skip # Out /\ d = e
  <2>1. \A q : Leads(e, f, p, x, q) => Leads(e, g, p, y, q)
    BY <1>2, <1>4 DEF Leads
  <2>2. \A q : ErrorCovered(e, f, p, x, r, q) => ErrorCovered(e, g, p, y, r, q)
    BY <2>1 DEF ErrorCovered
  <2>3. ASSUME NEW q, TakeCovered(e, f, p, x, r, q) PROVE TakeCovered(e, g, p, y, r, q)
    <3> DEFINE c == <<q[1] + Total(e.ns), q[2]>>
               o == <<0, 1>>
               m == Total(e.ns)
    <3> HIDE DEF m, c, o
    <3>1. \/ q[1] + m + r.skew <= r.room /\ Follows(f, p, c)
          \/ /\ r.all /\ q[2] = 1 /\ q[1] + m > r.room
             /\ Len(e.ns) = 1 /\ e.free /\ ~e.lost /\ Leads(e, f, p, x, o)
      BY <2>3 DEF TakeCovered, c, o, m
    <3>2. \/ q[1] + m + r.skew <= r.room /\ Follows(g, p, c)
          \/ /\ r.all /\ q[2] = 1 /\ q[1] + m > r.room
             /\ Len(e.ns) = 1 /\ e.free /\ ~e.lost /\ Leads(e, g, p, y, o)
      BY <1>3, <2>1, <3>1
    <3> QED
      BY <3>2 DEF TakeCovered, c, o, m
  <2>4. \A q : PairCovered(e, f, p, x, r, q) => PairCovered(e, g, p, y, r, q)
    BY <1>3, <2>1, <2>2, <2>3 DEF PairCovered
  <2> QED
    BY <1>1, <1>2, <1>4, <2>4 DEF Covers
<1>5. CASE e.skip = Out /\ d.skip = n - p /\ d.do = e.do /\ d.ns = e.ns /\ d.free = e.free
           /\ (\/ d.lost = e.lost /\ x \subseteq b
               \/ d.lost /\ (r.all => <<0, 1>> \notin x /\ \A q \in x : <<q[1], 1>> \in b))
  <2>1. e.do \notin {"either", "goto", "turn"}
    BY <1>1, <1>5
  <2>2. d.skip # Out /\ p + 1 + d.skip = n + 1 /\ n + 1 \in DOMAIN g
    BY <1>1, <1>2, <1>5 DEF Out
  <2>3. \A q : q \in b => Leads(d, g, p, y, q)
    BY <1>2, <2>2 DEF Leads
  <2>4. \A q : Leads(e, f, p, x, q) => q \in x
    BY <1>5 DEF Leads
  <2>5. ASSUME NEW q, ErrorCovered(e, f, p, x, r, q) PROVE ErrorCovered(d, g, p, y, r, q)
    <3> DEFINE c == <<q[1], 1>>
    <3>1. CASE d.lost = e.lost /\ x \subseteq b
      <4>1. ~e.lost => q \in b
        BY <2>4, <2>5, <3>1 DEF ErrorCovered
      <4>2. e.lost /\ r.all => c \in b
        BY <2>4, <2>5, <3>1 DEF ErrorCovered
      <4> HIDE DEF c
      <4>3. (~d.lost => Leads(d, g, p, y, q)) /\ (d.lost /\ r.all => Leads(d, g, p, y, c))
        BY <2>3, <3>1, <4>1, <4>2
      <4> QED
        BY <4>3 DEF ErrorCovered, c
    <3>2. CASE d.lost /\ (r.all => <<0, 1>> \notin x /\ \A k \in x : <<k[1], 1>> \in b)
      <4>1. r.all => (~e.lost => q \in x) /\ (e.lost => c \in x)
        BY <2>4, <2>5 DEF ErrorCovered
      <4>2. c[1] = q[1]
        OBVIOUS
      <4>3. r.all => c \in b
        BY <3>2, <4>1, <4>2
      <4> HIDE DEF c
      <4>4. (~d.lost => Leads(d, g, p, y, q)) /\ (d.lost /\ r.all => Leads(d, g, p, y, c))
        BY <2>3, <3>2, <4>3
      <4> QED
        BY <4>4 DEF ErrorCovered, c
    <3> QED
      BY <1>5, <3>1, <3>2
  <2>6. ASSUME NEW q, TakeCovered(e, f, p, x, r, q) PROVE TakeCovered(d, g, p, y, r, q)
    <3> DEFINE c == <<q[1] + Total(e.ns), q[2]>>
               o == <<0, 1>>
               m == Total(e.ns)
    <3> HIDE DEF m, c
    <3>1. \/ q[1] + m + r.skew <= r.room /\ Follows(f, p, c)
          \/ /\ r.all /\ q[2] = 1 /\ q[1] + m > r.room
             /\ Len(e.ns) = 1 /\ e.free /\ ~e.lost /\ Leads(e, f, p, x, o)
      BY <2>6 DEF TakeCovered, c, m
    <3>2. r.all /\ Leads(e, f, p, x, o) /\ ~e.lost => ~d.lost /\ Leads(d, g, p, y, o)
      <4>1. Leads(e, f, p, x, o) => o \in x
        BY <2>4
      <4> HIDE DEF o
      <4>2. r.all /\ o \in x /\ ~e.lost => ~d.lost /\ o \in b
        BY <1>5 DEF o
      <4> QED
        BY <2>3, <4>1, <4>2
    <3> HIDE DEF o
    <3>3. \/ q[1] + m + r.skew <= r.room /\ Follows(g, p, c)
          \/ /\ r.all /\ q[2] = 1 /\ q[1] + m > r.room
             /\ Len(e.ns) = 1 /\ e.free /\ ~d.lost /\ Leads(d, g, p, y, o)
      BY <1>3, <3>1, <3>2
    <3>4. m = Total(d.ns) /\ c = <<q[1] + Total(d.ns), q[2]>> /\ d.free = e.free /\ d.ns = e.ns
      BY <1>5 DEF m, c
    <3>5. \/ q[1] + Total(d.ns) + r.skew <= r.room /\ Follows(g, p, <<q[1] + Total(d.ns), q[2]>>)
          \/ /\ r.all /\ q[2] = 1 /\ q[1] + Total(d.ns) > r.room
             /\ Len(d.ns) = 1 /\ d.free /\ ~d.lost /\ Leads(d, g, p, y, o)
      BY <3>3, <3>4
    <3> QED
      BY <3>5 DEF TakeCovered, o
  <2>7. \A q : PairCovered(e, f, p, x, r, q) => PairCovered(d, g, p, y, r, q)
    BY <1>3, <1>5, <2>1, <2>5, <2>6 DEF PairCovered
  <2>8. \A q \in g[p] : PairCovered(d, g, p, y, r, q)
    BY <1>1, <1>2, <2>7
  <2> QED
    BY <1>1, <1>2, <1>5, <2>1, <2>2, <2>8 DEF Covers
<1> QED
  BY <1>4, <1>5 DEF Resolved

\* Errors that lead to the end of a function.
LEMMA WayTo ==
    ASSUME NEW s, NEW a, NEW b, NEW x, NEW y, NEW r, Way(s, a, b, x, r), x \subseteq b
    PROVE  Way(To(s), a, b, y, r)
<1> DEFINE n == Len(s)
           t == To(s)
<1>1. Sound(s) /\ s \in Seq(ScriptEntries) /\ n \in Nat /\ DOMAIN s = 1..n
  <2>1. Sound(s)
    BY DEF Way
  <2>2. s \in Seq(ScriptEntries)
    BY <2>1 DEF Sound
  <2> QED
    BY <2>1, <2>2
<1>2. Sound(t)
  BY <1>1, SoundResolved
<1>3. t = [j \in 1..n |-> IF s[j].skip = Out THEN [s[j] EXCEPT !.skip = n - j] ELSE s[j]]
  BY <1>1 DEF To
<1>4. PICK f : Accounts(f, s, a, b, x, r)
  BY DEF Way
<1>5. /\ DOMAIN f = 1..n + 1 /\ a \subseteq f[1] /\ f[n + 1] \subseteq b
      /\ \A j \in 1..n : Covers(s[j], f, j, x, r)
  BY <1>4 DEF Accounts
<1> HIDE DEF t, n
<1> DEFINE g == [f EXCEPT ![n + 1] = b]
<1>6. DOMAIN g = 1..n + 1 /\ f[1] \subseteq g[1] /\ g[n + 1] = b
  BY <1>1, <1>5
<1>7. ASSUME NEW j \in 1..n PROVE Covers(t[j], g, j, y, r)
  <2>1. s[j] \in ScriptEntries
    BY <1>1 DEF n
  <2>2. \/ s[j].skip # Out /\ t[j] = s[j]
        \/ s[j].skip = Out /\ t[j] = [s[j] EXCEPT !.skip = n - j]
    BY <1>3
  <2>3. [s[j] EXCEPT !.skip = n - j].skip = n - j
    BY <2>1 DEF ScriptEntries
  <2>4. /\ [s[j] EXCEPT !.skip = n - j].do = s[j].do /\ [s[j] EXCEPT !.skip = n - j].ns = s[j].ns
        /\ [s[j] EXCEPT !.skip = n - j].free = s[j].free
        /\ [s[j] EXCEPT !.skip = n - j].lost = s[j].lost
    BY <2>1 DEF ScriptEntries
  <2> DEFINE e == s[j]
             d == t[j]
  <2>5. \/ e.skip # Out /\ d = e
        \/ /\ e.skip = Out /\ d.skip = n - j /\ d.do = e.do /\ d.ns = e.ns /\ d.free = e.free
           /\ d.lost = e.lost
    BY <2>2, <2>3, <2>4
  <2>6. e \in ScriptEntries /\ Covers(e, f, j, x, r) /\ j \in Int
    BY <1>5, <2>1
  <2> HIDE DEF e, d, g
  <2>7. n \in Nat /\ j \in 1..n /\ Resolved(e, d, n, j, x, b, r)
    BY <1>1, <1>5, <2>5 DEF Resolved
  <2>8. Extended(f, g, n, b)
    BY <1>1, <1>5 DEF g, Extended
  <2>9. Covers(d, g, j, y, r)
    BY <2>6, <2>7, <2>8, ResolvedCovered, Zenon
  <2> QED
    BY <2>9 DEF d
<1>8. Len(t) = n
  <2>1. DOMAIN t = 1..n /\ t \in Seq(ScriptEntries)
    BY <1>2, <1>3 DEF Sound
  <2> QED
    BY <1>1, <2>1
<1> HIDE DEF g
<1>9. Accounts(g, t, a, b, y, r)
  BY <1>5, <1>6, <1>7, <1>8 DEF Accounts
<1> QED
  BY <1>2, <1>9 DEF Way, t

\* Errors whose status is dropped.
LEMMA WayLost ==
    ASSUME NEW s, NEW a, NEW b, NEW x, NEW y, NEW r, Way(s, a, b, x, r),
           r.all => <<0, 1>> \notin x /\ \A q \in x : <<q[1], 1>> \in b
    PROVE  Way(Lost(s), a, b, y, r)
<1> DEFINE n == Len(s)
           t == Lost(s)
<1>1. Sound(s) /\ s \in Seq(ScriptEntries) /\ n \in Nat /\ DOMAIN s = 1..n
  <2>1. Sound(s)
    BY DEF Way
  <2>2. s \in Seq(ScriptEntries)
    BY <2>1 DEF Sound
  <2> QED
    BY <2>1, <2>2
<1>2. Sound(t)
  BY <1>1, SoundResolved
<1>3. t = [j \in 1..n |-> IF s[j].skip = Out THEN [s[j] EXCEPT !.skip = n - j, !.lost = TRUE]
                          ELSE s[j]]
  BY <1>1 DEF Lost
<1>4. PICK f : Accounts(f, s, a, b, x, r)
  BY DEF Way
<1>5. /\ DOMAIN f = 1..n + 1 /\ a \subseteq f[1] /\ f[n + 1] \subseteq b
      /\ \A j \in 1..n : Covers(s[j], f, j, x, r)
  BY <1>4 DEF Accounts
<1> HIDE DEF t, n
<1> DEFINE g == [f EXCEPT ![n + 1] = b]
<1>6. DOMAIN g = 1..n + 1 /\ f[1] \subseteq g[1] /\ g[n + 1] = b
  BY <1>1, <1>5
<1>7. ASSUME NEW j \in 1..n PROVE Covers(t[j], g, j, y, r)
  <2>1. s[j] \in ScriptEntries
    BY <1>1 DEF n
  <2>2. \/ s[j].skip # Out /\ t[j] = s[j]
        \/ s[j].skip = Out /\ t[j] = [s[j] EXCEPT !.skip = n - j, !.lost = TRUE]
    BY <1>3
  <2> DEFINE l == [s[j] EXCEPT !.skip = n - j, !.lost = TRUE]
             m == [s[j] EXCEPT !.skip = n - j]
  <2>3. l.skip = n - j /\ l.do = s[j].do /\ l.ns = s[j].ns /\ l.free = s[j].free /\ l.lost
    <3>1. /\ m \in ScriptEntries /\ m.skip = n - j /\ m.do = s[j].do /\ m.ns = s[j].ns
          /\ m.free = s[j].free
      BY <1>1, <2>1 DEF ScriptEntries
    <3>2. l = [m EXCEPT !.lost = TRUE]
      OBVIOUS
    <3> HIDE DEF l, m
    <3> QED
      BY <3>1, <3>2 DEF ScriptEntries
  <2> DEFINE e == s[j]
             d == t[j]
  <2>5. \/ e.skip # Out /\ d = e
        \/ /\ e.skip = Out /\ d.skip = n - j /\ d.do = e.do /\ d.ns = e.ns /\ d.free = e.free
           /\ d.lost
    BY <2>2, <2>3
  <2>6. e \in ScriptEntries /\ Covers(e, f, j, x, r) /\ j \in Int
    BY <1>5, <2>1
  <2> HIDE DEF e, d, g
  <2>7. n \in Nat /\ j \in 1..n /\ Resolved(e, d, n, j, x, b, r)
    BY <1>1, <1>5, <2>5 DEF Resolved
  <2>8. Extended(f, g, n, b)
    BY <1>1, <1>5 DEF g, Extended
  <2>9. Covers(d, g, j, y, r)
    BY <2>6, <2>7, <2>8, ResolvedCovered, Zenon
  <2> QED
    BY <2>9 DEF d
<1>8. Len(t) = n
  <2>1. DOMAIN t = 1..n /\ t \in Seq(ScriptEntries)
    BY <1>2, <1>3 DEF Sound
  <2> QED
    BY <1>1, <2>1
<1> HIDE DEF g
<1>9. Accounts(g, t, a, b, y, r)
  BY <1>5, <1>6, <1>7, <1>8 DEF Accounts
<1> QED
  BY <1>2, <1>9 DEF Way, t

\* What entries hold.
LEMMA EntriesMade ==
    /\ \A ns : Take(ns) = <<Made("take", ns, FALSE, Out, FALSE)>>
    /\ \A n : TakeOrFree(n) = <<Made("take", <<n>>, TRUE, Out, FALSE)>>
              /\ Give(n) = <<Made("give", <<n>>, FALSE, Out, FALSE)>>
    /\ GiveAll = <<Made("giveall", <<>>, FALSE, Out, FALSE)>>
    /\ Try = <<Made("try", <<>>, FALSE, Out, FALSE)>>
    /\ Leave = <<Made("try", <<>>, FALSE, Out, TRUE)>>
    /\ LastTurn = <<Made("lastturn", <<>>, FALSE, Out, FALSE)>>
<1> DEFINE o == <<>>
           u == Made("try", o, FALSE, Out, FALSE)
<1>1. Leave = <<[u EXCEPT !.lost = TRUE]>>
  BY DEF Leave, Entry, Made
<1>2. [u EXCEPT !.lost = TRUE] = Made("try", o, FALSE, Out, TRUE)
  <2>1. \A f, k, m : [Made("try", o, f, Out, k) EXCEPT !.lost = m] = Made("try", o, f, Out, m)
    BY DEF Made
  <2> QED
    BY <2>1, Zenon
<1>3. Leave = <<Made("try", o, FALSE, Out, TRUE)>>
  <2> HIDE DEF u
  <2> QED
    BY <1>1, <1>2
<1>4. \A ns : Take(ns) = <<Made("take", ns, FALSE, Out, FALSE)>>
  BY DEF Take, Entry, Made
<1>5. \A n : TakeOrFree(n) = <<Made("take", <<n>>, TRUE, Out, FALSE)>>
  BY DEF TakeOrFree, Entry, Made
<1>6. \A n : Give(n) = <<Made("give", <<n>>, FALSE, Out, FALSE)>>
  BY DEF Give, Entry, Made
<1>7. GiveAll = <<Made("giveall", <<>>, FALSE, Out, FALSE)>>
  BY DEF GiveAll, Entry, Made
<1>8. Try = <<Made("try", <<>>, FALSE, Out, FALSE)>>
  BY DEF Try, Entry, Made
<1>9. LastTurn = <<Made("lastturn", <<>>, FALSE, Out, FALSE)>>
  BY DEF LastTurn, Entry, Made
<1> QED
  BY <1>3, <1>4, <1>5, <1>6, <1>7, <1>8, <1>9

\* An entry that leaves an error to the caller may come anywhere.
LEMMA OutHarmless ==
    ASSUME NEW do \in Deeds, NEW ns \in Seq(Nat), NEW free \in BOOLEAN, NEW lost \in BOOLEAN,
           do = "give" => Len(ns) >= 1
    PROVE  Harmless(Made(do, ns, free, Out, lost))
<1>1. Out \in Int /\ Out >= -1
  BY DEF Out
<1> HIDE DEF Out
<1> QED
  BY <1>1, HarmlessEntry, Zenon

\* The pairs of C with t more bytes, and those of C or, after a dropped error,
\* with the n bytes it left taken.
Shifted(C, t) == {<<q[1] + t, q[2]>> : q \in C}
Dropped(C, n) == C \cup {<<q[1] + n, 1>> : q \in C}

\* There is room for t bytes more.
Within(C, t, r) == \A q \in C : q[1] + t + r.skew <= r.room

\* Limits of an account.
Limits(r) == r.room \in Int /\ r.skew \in Nat /\ r.all \in BOOLEAN

\* Pairs with more bytes.
LEMMA ShiftedPairs ==
    ASSUME NEW C, C \subseteq Pairs, NEW t \in Nat
    PROVE  /\ Shifted(C, t) \subseteq Pairs
           /\ \A q \in Shifted(C, t) : \E k \in C : /\ k[1] \in Nat /\ k[2] \in {0, 1}
                                                    /\ q[1] = k[1] + t /\ q[2] = k[2]
           /\ \A k \in C : \A n \in Int : <<k[1] + n, k[2]>> \in Shifted(C, n)
<1>1. ASSUME NEW k \in C PROVE k[1] \in Nat /\ k[2] \in {0, 1}
  BY DEF Pairs
<1>2. ASSUME NEW q \in Shifted(C, t)
      PROVE  \E k \in C : /\ k[1] \in Nat /\ k[2] \in {0, 1} /\ q[1] = k[1] + t /\ q[2] = k[2]
                          /\ q \in Pairs
  <2>1. PICK k \in C : q = <<k[1] + t, k[2]>>
    BY DEF Shifted
  <2>2. k[1] \in Nat /\ k[2] \in {0, 1} /\ k[1] + t \in Nat
    BY <1>1
  <2> QED
    BY <2>1, <2>2 DEF Pairs
<1>3. \A k \in C : \A n \in Int : <<k[1] + n, k[2]>> \in Shifted(C, n)
  BY DEF Shifted
<1> QED
  BY <1>2, <1>3

\* Blocks that are taken.
LEMMA WayTakes ==
    ASSUME NEW C, C \subseteq Pairs, NEW t \in Nat, NEW ns \in Seq(Nat), Len(ns) \in {1, 3},
           NEW n \in Nat, n = Total(ns), NEW x, NEW r, Limits(r), Within(C, t + n, r)
    PROVE  Way(Take(ns), Shifted(C, t), Shifted(C, t + n), x, r)
<1> DEFINE e == Made("take", ns, FALSE, Out, FALSE)
           a == Shifted(C, t)
           b == Shifted(C, t + n)
<1>1. e.do = "take" /\ e.ns = ns /\ ~e.free /\ e.skip = Out /\ ~e.lost
  BY DEF Made
<1>2. Harmless(e)
  <2>1. "take" \in Deeds /\ FALSE \in BOOLEAN /\ "take" # "give"
    BY DEF Deeds
  <2> QED
    BY <2>1, OutHarmless, Zenon
<1>3. Take(ns) = <<e>>
  BY EntriesMade
<1> HIDE DEF e
<1>4. a \subseteq Pairs
  BY ShiftedPairs
<1>5. ASSUME NEW q \in a
      PROVE  q[1] + n + r.skew <= r.room /\ <<q[1] + n, q[2]>> \in b
  <2>1. PICK k \in C : k[1] \in Nat /\ k[2] \in {0, 1} /\ q[1] = k[1] + t /\ q[2] = k[2]
    BY ShiftedPairs
  <2>2. k[1] + (t + n) + r.skew <= r.room
    BY DEF Within
  <2>3. t + n \in Int /\ q[1] + n = k[1] + (t + n)
    BY <2>1
  <2>4. <<k[1] + (t + n), k[2]>> \in b
    BY <2>3, ShiftedPairs
  <2> QED
    BY <2>1, <2>2, <2>3, <2>4
<1> HIDE DEF a, b
<1>6. "take" \notin {"either", "goto", "turn"} /\ "take" # "give" /\ "take" # "giveall"
      /\ "take" \notin {"try", "lastturn"}
  OBVIOUS
<1>7. Way(<<e>>, a, b, x, r)
  BY <1>1, <1>2, <1>4, <1>5, <1>6, WayEntry
<1> QED
  BY <1>3, <1>7 DEF a, b

\* A block that is taken, or that may be refused after a dropped error.
LEMMA WayTakeOrFree ==
    ASSUME NEW C, C \subseteq Pairs, NEW t \in Nat, NEW n \in Nat, NEW x, NEW r, Limits(r), r.all,
           \A q \in C : \/ q[1] + t + n + r.skew <= r.room
                        \/ q[2] = 1 /\ q[1] + t + n > r.room /\ <<0, 1>> \in x
    PROVE  Way(TakeOrFree(n), Shifted(C, t), Shifted(C, t + n), x, r)
<1> DEFINE ns == <<n>>
           e == Made("take", ns, TRUE, Out, FALSE)
           a == Shifted(C, t)
           b == Shifted(C, t + n)
<1>1. e.do = "take" /\ e.ns = ns /\ e.free /\ e.skip = Out /\ ~e.lost
  BY DEF Made
<1>2. Harmless(e)
  <2>1. "take" \in Deeds /\ FALSE \in BOOLEAN /\ TRUE \in BOOLEAN /\ "take" # "give"
    BY DEF Deeds
  <2>2. ns \in Seq(Nat)
    OBVIOUS
  <2> HIDE DEF ns
  <2> QED
    BY <2>1, <2>2, OutHarmless, Zenon
<1>3. TakeOrFree(n) = <<e>>
  BY EntriesMade
<1>4. Len(ns) = 1 /\ Total(ns) = n
  BY DEF Total
<1> HIDE DEF e, ns
<1>5. a \subseteq Pairs
  BY ShiftedPairs
<1>6. ASSUME NEW q \in a
      PROVE  /\ \/ q[1] + n + r.skew <= r.room
                \/ q[2] = 1 /\ q[1] + n > r.room /\ <<0, 1>> \in x
             /\ <<q[1] + n, q[2]>> \in b
  <2>1. PICK k \in C : k[1] \in Nat /\ k[2] \in {0, 1} /\ q[1] = k[1] + t /\ q[2] = k[2]
    BY ShiftedPairs
  <2>2. t + n \in Int /\ q[1] + n = k[1] + (t + n) /\ q[1] + n = k[1] + t + n
    BY <2>1
  <2>3. <<k[1] + (t + n), k[2]>> \in b
    BY <2>2, ShiftedPairs
  <2>4. \/ k[1] + t + n + r.skew <= r.room
        \/ k[2] = 1 /\ k[1] + t + n > r.room /\ <<0, 1>> \in x
    OBVIOUS
  <2> QED
    BY <2>1, <2>2, <2>3, <2>4
<1> HIDE DEF a, b
<1>7. "take" \notin {"either", "goto", "turn"} /\ "take" # "give" /\ "take" # "giveall"
      /\ "take" \notin {"try", "lastturn"}
  OBVIOUS
<1>8. Way(<<e>>, a, b, x, r)
  BY <1>1, <1>2, <1>4, <1>5, <1>6, <1>7, WayEntry
<1> QED
  BY <1>3, <1>8 DEF a, b

\* A block that is given back.
LEMMA WayGive ==
    ASSUME NEW C, C \subseteq Pairs, NEW t \in Nat, NEW n \in Nat, n <= t, NEW x, NEW r
    PROVE  Way(Give(n), Shifted(C, t), Shifted(C, t - n), x, r)
<1> DEFINE ns == <<n>>
           e == Made("give", ns, FALSE, Out, FALSE)
           a == Shifted(C, t)
           b == Shifted(C, t - n)
<1>1. e.do = "give" /\ e.ns = ns /\ ~e.free /\ e.skip = Out /\ ~e.lost
  BY DEF Made
<1>2. Harmless(e)
  <2>1. "give" \in Deeds /\ FALSE \in BOOLEAN
    BY DEF Deeds
  <2>2. ns \in Seq(Nat) /\ Len(ns) >= 1
    OBVIOUS
  <2> HIDE DEF ns
  <2> QED
    BY <2>1, <2>2, OutHarmless, Zenon
<1>3. Give(n) = <<e>>
  BY EntriesMade
<1>4. ns[1] = n
  OBVIOUS
<1> HIDE DEF e, ns
<1>5. a \subseteq Pairs
  BY ShiftedPairs
<1>6. ASSUME NEW q \in a
      PROVE  q[1] >= n /\ <<q[1] - n, q[2]>> \in b
  <2>1. PICK k \in C : k[1] \in Nat /\ k[2] \in {0, 1} /\ q[1] = k[1] + t /\ q[2] = k[2]
    BY ShiftedPairs
  <2>2. t - n \in Int /\ q[1] - n = k[1] + (t - n) /\ q[1] >= n
    BY <2>1
  <2>3. <<k[1] + (t - n), k[2]>> \in b
    BY <2>2, ShiftedPairs
  <2> QED
    BY <2>1, <2>2, <2>3
<1> HIDE DEF a, b
<1>7. "give" \notin {"either", "goto", "turn"} /\ "give" # "take" /\ "give" # "giveall"
      /\ "give" \notin {"try", "lastturn"}
  OBVIOUS
<1>8. Way(<<e>>, a, b, x, r)
  BY <1>1, <1>2, <1>4, <1>5, <1>6, <1>7, WayEntry
<1> QED
  BY <1>3, <1>8 DEF a, b

\* Entries that take and give nothing, and that which gives everything.
LEMMA WayOthers ==
    ASSUME NEW a, NEW x, NEW r, a \subseteq Pairs, a \subseteq x
    PROVE  /\ Way(Try, a, a, x, r) /\ Way(LastTurn, a, a, x, r)
           /\ ~r.all => Way(Leave, a, a, x, r)
           /\ Way(GiveAll, a, Pairs, Pairs, r)
<1> DEFINE o == <<>>
           u == Made("try", o, FALSE, Out, FALSE)
           v == Made("lastturn", o, FALSE, Out, FALSE)
           w == Made("try", o, FALSE, Out, TRUE)
           g == Made("giveall", o, FALSE, Out, FALSE)
<1>1. /\ u.do = "try" /\ u.skip = Out /\ ~u.lost
      /\ v.do = "lastturn" /\ v.skip = Out /\ ~v.lost
      /\ w.do = "try" /\ w.skip = Out /\ w.lost
      /\ g.do = "giveall" /\ g.skip = Out /\ ~g.lost
  BY DEF Made
<1>2. Harmless(u) /\ Harmless(v) /\ Harmless(w) /\ Harmless(g)
  <2>1. /\ "try" \in Deeds /\ "lastturn" \in Deeds /\ "giveall" \in Deeds /\ FALSE \in BOOLEAN
        /\ TRUE \in BOOLEAN
    BY DEF Deeds
  <2>2. o \in Seq(Nat)
    OBVIOUS
  <2>3. "try" # "give" /\ "lastturn" # "give" /\ "giveall" # "give"
    BY Zenon
  <2> HIDE DEF o
  <2> QED
    BY <2>1, <2>2, <2>3, OutHarmless, Zenon
<1>3. Try = <<u>> /\ LastTurn = <<v>> /\ Leave = <<w>> /\ GiveAll = <<g>>
  BY EntriesMade
<1> HIDE DEF u, v, w, g
<1>4. "try" \notin {"either", "goto", "turn"} /\ "try" # "take" /\ "try" # "give" /\ "try" # "giveall"
  OBVIOUS
<1>5. "lastturn" \notin {"either", "goto", "turn"} /\ "lastturn" # "take" /\ "lastturn" # "give"
      /\ "lastturn" # "giveall"
  OBVIOUS
<1>6. "giveall" \notin {"either", "goto", "turn"} /\ "giveall" # "take" /\ "giveall" # "give"
      /\ "giveall" \notin {"try", "lastturn"}
  OBVIOUS
<1>7. Way(<<u>>, a, a, x, r)
  BY <1>1, <1>2, <1>4, WayEntry
<1>8. Way(<<v>>, a, a, x, r)
  BY <1>1, <1>2, <1>5, WayEntry
<1>9. ~r.all => Way(<<w>>, a, a, x, r)
  BY <1>1, <1>2, <1>4, WayEntry
<1>10. \A q \in a : <<0, q[2]>> \in Pairs
  BY DEF Pairs
<1>11. Way(<<g>>, a, Pairs, Pairs, r)
  BY <1>1, <1>2, <1>6, <1>10, WayEntry
<1> QED
  BY <1>3, <1>7, <1>8, <1>9, <1>11

\* A block taken and given back around a call that may fail.
LEMMA WayTemporary ==
    ASSUME NEW C, C \subseteq Pairs, NEW t \in Nat, NEW n \in Nat, NEW r, Limits(r),
           Within(C, t + n, r)
    PROVE  Way(Temporary(n), Shifted(C, t), Shifted(C, t), Pairs, r)
<1> DEFINE m == t + n
           a == Shifted(C, t)
           b == Shifted(C, m)
           ns == <<n>>
<1>1. m \in Nat /\ n <= m /\ m - n = t
  OBVIOUS
<1>2. ns \in Seq(Nat) /\ Len(ns) \in {1, 3} /\ n = Total(ns)
  BY DEF Total
<1> HIDE DEF ns
<1>3. Way(Take(ns), a, b, Pairs, r)
  BY <1>2, WayTakes
<1> HIDE DEF m
<1>4. b \subseteq Pairs
  BY <1>1, ShiftedPairs
<1>5. Way(Give(n), Shifted(C, m), Shifted(C, m - n), Pairs, r)
  BY <1>1, WayGive
<1>6. Way(Give(n), b, a, Pairs, r)
  BY <1>1, <1>5
<1> HIDE DEF a, b
<1>7. Way(Try, b, b, Pairs, r)
  BY <1>4, WayOthers
<1>8. Way(Take(ns) \o Try, a, b, Pairs, r)
  BY <1>3, <1>7, WayJoined
<1>9. Way(Take(ns) \o Try \o Give(n), a, a, Pairs, r)
  BY <1>6, <1>8, WayJoined
<1> QED
  BY <1>9 DEF Temporary, a, ns

\* A sampler of ML-KEM, whose status is dropped: its block may stay taken.
LEMMA WaySampler ==
    ASSUME NEW C, C \subseteq Pairs, NEW t \in Nat, NEW n \in Nat, n > 0, NEW x, NEW r, Limits(r),
           r.all, Within(C, t + n, r)
    PROVE  /\ Way(Lost(TemporaryOrFree(n)), Shifted(C, t), Shifted(Dropped(C, n), t), x, r)
           /\ Way(Lost(IfPortable(TemporaryOrFree(n))), Shifted(C, t), Shifted(Dropped(C, n), t), x, r)
<1> DEFINE m == t + n
           a == Shifted(C, t)
           b == Shifted(C, m)
           d == Shifted(Dropped(C, n), t)
<1>1. m \in Nat /\ n <= m /\ m - n = t
  OBVIOUS
<1>2. Way(TakeOrFree(n), a, b, b, r)
  <2>1. \A q \in C : q[1] + t + n + r.skew <= r.room
    <3> TAKE q \in C
    <3>1. q[1] \in Nat
      BY DEF Pairs
    <3>2. q[1] + (t + n) + r.skew <= r.room
      BY DEF Within
    <3>3. r.skew \in Int /\ r.room \in Int
      BY DEF Limits
    <3> QED
      BY <3>1, <3>2, <3>3
  <2> QED
    BY <2>1, WayTakeOrFree
<1> HIDE DEF m
<1>3. b \subseteq Pairs /\ a \subseteq d
  <2>1. b \subseteq Pairs
    BY <1>1, ShiftedPairs
  <2>2. a \subseteq d
    BY DEF Shifted, Dropped
  <2> QED
    BY <2>1, <2>2
<1>4. Way(Give(n), b, a, b, r)
  <2>1. Way(Give(n), Shifted(C, m), Shifted(C, m - n), b, r)
    BY <1>1, WayGive
  <2> QED
    BY <1>1, <2>1
<1>5. <<0, 1>> \notin b /\ \A q \in b : <<q[1], 1>> \in d
  <2>1. ASSUME NEW q \in b PROVE q[1] > 0 /\ <<q[1], 1>> \in d
    <3>1. PICK k \in C : k[1] \in Nat /\ k[2] \in {0, 1} /\ q[1] = k[1] + m /\ q[2] = k[2]
      BY <1>1, ShiftedPairs
    <3>2. q[1] = (k[1] + n) + t /\ q[1] > 0
      BY <3>1 DEF m
    <3> DEFINE y == <<k[1] + n, 1>>
    <3>3. y \in Dropped(C, n) /\ y[1] = k[1] + n /\ y[2] = 1
      BY DEF Dropped
    <3> HIDE DEF y
    <3>4. <<y[1] + t, y[2]>> \in d
      BY <3>3 DEF Shifted
    <3> QED
      BY <3>2, <3>3, <3>4
  <2>2. \A q : q = <<0, 1>> => ~(q[1] > 0)
    OBVIOUS
  <2> QED
    BY <2>1, <2>2
<1> HIDE DEF a, b, d
<1>6. Way(Try, b, b, b, r)
  BY <1>3, WayOthers
<1>7. Way(TakeOrFree(n) \o Try, a, b, b, r)
  BY <1>2, <1>6, WayJoined
<1>8. Way(TakeOrFree(n) \o Try \o Give(n), a, a, b, r)
  BY <1>4, <1>7, WayJoined
<1>9. Way(TemporaryOrFree(n), a, d, b, r)
  <2>1. Way(TakeOrFree(n) \o Try \o Give(n), a, d, b, r)
    BY <1>3, <1>8, WayWidened
  <2> QED
    BY <2>1 DEF TemporaryOrFree
<1>10. Way(Lost(TemporaryOrFree(n)), a, d, x, r)
  BY <1>5, <1>9, WayLost
<1>11. Way(<<>>, a, d, b, r)
  BY <1>3, WayEmpty
<1>12. Way(IfPortable(TemporaryOrFree(n)), a, d, b, r)
  BY <1>9, <1>11 DEF IfPortable
<1>13. Way(Lost(IfPortable(TemporaryOrFree(n))), a, d, x, r)
  BY <1>5, <1>12, WayLost
<1> QED
  BY <1>10, <1>13 DEF a, d

-----------------------------------------------------------------------------
(* What the calls of ML-DSA take. *)

\* The account of a call of ML-DSA, up to the first error that is dropped.
Taken(t) == Shifted({<<0, 0>>}, t)
ExactLimits(r) == Limits(r) /\ r.skew = 0 /\ ~r.all

\* Entries of ML-DSA.
LEMMA DsaWays ==
    ASSUME NEW r, ExactLimits(r), NEW t \in Nat
    PROVE  /\ \A n \in Nat : t + n <= r.room => /\ Way(Take(<<n>>), Taken(t), Taken(t + n), Pairs, r)
                                                /\ Way(Temporary(n), Taken(t), Taken(t), Pairs, r)
           /\ \A n \in Nat : n <= t => Way(Give(n), Taken(t), Taken(t - n), Pairs, r)
           /\ \A k, m, n \in Nat : t + (k + m + n) <= r.room =>
                  Way(Take(<<k, m, n>>), Taken(t), Taken(t + (k + m + n)), Pairs, r)
           /\ Way(Try, Taken(t), Taken(t), Pairs, r) /\ Way(Leave, Taken(t), Taken(t), Pairs, r)
           /\ Way(LastTurn, Taken(t), Taken(t), Pairs, r)
           /\ Way(<<>>, Taken(t), Taken(t), Pairs, r)
           /\ Taken(t) \subseteq Pairs
<1> DEFINE C == {<<0, 0>>}
<1>1. Limits(r) /\ r.skew = 0 /\ ~r.all /\ r.room \in Int
  BY DEF ExactLimits, Limits
<1>2. C \subseteq Pairs /\ \A m \in Nat : m <= r.room => Within(C, m, r)
  <2>1. ASSUME NEW m \in Nat, m <= r.room PROVE Within(C, m, r)
    BY <1>1, <2>1 DEF Within
  <2>2. C \subseteq Pairs
    BY DEF Pairs
  <2> QED
    BY <2>1, <2>2
<1>3. \A m : Taken(m) = Shifted(C, m)
  BY DEF Taken
<1> HIDE DEF C
<1>4. Taken(t) \subseteq Pairs
  BY <1>2, <1>3, ShiftedPairs
<1>5. ASSUME NEW n \in Nat, t + n <= r.room
      PROVE  Way(Take(<<n>>), Taken(t), Taken(t + n), Pairs, r) /\ Way(Temporary(n), Taken(t), Taken(t), Pairs, r)
  <2> DEFINE ns == <<n>>
  <2>1. ns \in Seq(Nat) /\ Len(ns) \in {1, 3} /\ n = Total(ns)
    BY DEF Total
  <2> HIDE DEF ns
  <2>2. Within(C, t + n, r)
    BY <1>2, <1>5
  <2>3. Way(Take(ns), Shifted(C, t), Shifted(C, t + n), Pairs, r)
    BY <1>1, <1>2, <2>1, <2>2, WayTakes
  <2>4. Way(Temporary(n), Shifted(C, t), Shifted(C, t), Pairs, r)
    BY <1>1, <1>2, <2>2, WayTemporary
  <2> QED
    BY <1>3, <2>3, <2>4 DEF ns
<1>6. ASSUME NEW n \in Nat, n <= t PROVE Way(Give(n), Taken(t), Taken(t - n), Pairs, r)
  BY <1>2, <1>3, <1>6, WayGive
<1>7. ASSUME NEW k \in Nat, NEW m \in Nat, NEW n \in Nat, t + (k + m + n) <= r.room
      PROVE  Way(Take(<<k, m, n>>), Taken(t), Taken(t + (k + m + n)), Pairs, r)
  <2> DEFINE ns == <<k, m, n>>
             y == k + m + n
  <2>1. ns \in Seq(Nat) /\ Len(ns) \in {1, 3} /\ y = Total(ns) /\ y \in Nat
    BY DEF Total
  <2>2. t + y <= r.room
    BY <1>7
  <2> HIDE DEF ns, y
  <2>3. Within(C, t + y, r)
    BY <1>2, <2>1, <2>2
  <2>4. Way(Take(ns), Shifted(C, t), Shifted(C, t + y), Pairs, r)
    BY <1>1, <1>2, <2>1, <2>3, WayTakes
  <2> QED
    BY <1>3, <2>4 DEF ns, y
<1>8. /\ Way(Try, Taken(t), Taken(t), Pairs, r) /\ Way(Leave, Taken(t), Taken(t), Pairs, r)
      /\ Way(LastTurn, Taken(t), Taken(t), Pairs, r)
  BY <1>1, <1>4, WayOthers
<1>9. Way(<<>>, Taken(t), Taken(t), Pairs, r)
  BY WayEmpty
<1> QED
  BY <1>4, <1>5, <1>6, <1>7, <1>8, <1>9

\* One block.
LEMMA DsaBlock ==
    ASSUME NEW r, ExactLimits(r), NEW t \in Nat, NEW n \in Nat, t + n <= r.room
    PROVE  Way(Take(<<n>>), Taken(t), Taken(t + n), Pairs, r)
BY DsaWays

\* One block that is returned at once.
LEMMA DsaTemporary ==
    ASSUME NEW r, ExactLimits(r), NEW t \in Nat, NEW n \in Nat, t + n <= r.room
    PROVE  Way(Temporary(n), Taken(t), Taken(t), Pairs, r)
BY DsaWays

\* What returns no block and takes none.
LEMMA DsaNone ==
    ASSUME NEW r, ExactLimits(r), NEW t \in Nat
    PROVE  Way(<<>>, Taken(t), Taken(t), Pairs, r) /\ Way(Try, Taken(t), Taken(t), Pairs, r)
BY DsaWays

\* The samplers of ML-DSA.
LEMMA DsaSamplers ==
    ASSUME NEW r, ExactLimits(r), NEW t \in Nat
    PROVE  /\ t + (Shake128 + Align) <= r.room =>
                /\ Way(cp_ml_expandA, Taken(t), Taken(t), Pairs, r)
                /\ Way(Lost(cp_ml_expandA), Taken(t), Taken(t), Pairs, r)
           /\ build # "portable" => Way(cp_ml_expandA, Taken(t), Taken(t), Pairs, r)
           /\ t + (Shake256 + Align) <= r.room =>
                /\ Way(cp_ml_expandS, Taken(t), Taken(t), Pairs, r)
                /\ Way(cp_ml_sampleInBall, Taken(t), Taken(t), Pairs, r)
<1> DEFINE a == Taken(t)
           s == Shake128 + Align
           y == Shake256 + Align
<1>1. s \in Nat /\ y \in Nat
  BY StorageConstants DEF Align, Shake128, Shake256, HashState
<1> HIDE DEF s, y
<1>2. Way(Try, a, a, Pairs, r) /\ Way(<<>>, a, a, Pairs, r)
  BY DsaWays
<1>3. ASSUME t + s <= r.room PROVE Way(Temporary(s), a, a, Pairs, r)
  BY <1>1, <1>3, DsaWays
<1>4. ASSUME t + y <= r.room PROVE Way(Temporary(y), a, a, Pairs, r)
  BY <1>1, <1>4, DsaWays
<1> HIDE DEF a
<1>5. ASSUME NEW p, Way(IfPortable(p), a, a, Pairs, r) PROVE Way(IfPortable(p) \o Try, a, a, Pairs, r)
  BY <1>2, <1>5, WayJoined
<1>6. t + s <= r.room => Way(cp_ml_expandA, a, a, Pairs, r)
  <2> SUFFICES ASSUME t + s <= r.room PROVE Way(cp_ml_expandA, a, a, Pairs, r)
    OBVIOUS
  <2>1. Way(IfPortable(Temporary(s)), a, a, Pairs, r)
    BY <1>2, <1>3 DEF IfPortable
  <2>2. Way(IfPortable(Temporary(s)) \o Try, a, a, Pairs, r)
    BY <1>5, <2>1
  <2> QED
    BY <2>2 DEF cp_ml_expandA, s
<1>7. build # "portable" => Way(cp_ml_expandA, a, a, Pairs, r)
  <2> SUFFICES ASSUME build # "portable" PROVE Way(cp_ml_expandA, a, a, Pairs, r)
    OBVIOUS
  <2>1. Way(IfPortable(Temporary(s)), a, a, Pairs, r)
    BY <1>2 DEF IfPortable
  <2>2. Way(IfPortable(Temporary(s)) \o Try, a, a, Pairs, r)
    BY <1>5, <2>1
  <2> QED
    BY <2>2 DEF cp_ml_expandA, s
<1>8. t + y <= r.room => Way(cp_ml_expandS, a, a, Pairs, r) /\ Way(cp_ml_sampleInBall, a, a, Pairs, r)
  <2> SUFFICES ASSUME t + y <= r.room
               PROVE  Way(cp_ml_expandS, a, a, Pairs, r) /\ Way(cp_ml_sampleInBall, a, a, Pairs, r)
    OBVIOUS
  <2>1. Way(IfPortable(Temporary(y)), a, a, Pairs, r) /\ Way(Temporary(y), a, a, Pairs, r)
    BY <1>2, <1>4 DEF IfPortable
  <2>2. Way(IfPortable(Temporary(y)) \o Try, a, a, Pairs, r)
    BY <1>5, <2>1
  <2>3. Way(Temporary(y) \o Try, a, a, Pairs, r)
    BY <1>2, <2>1, WayJoined
  <2> QED
    BY <2>2, <2>3 DEF cp_ml_expandS, cp_ml_sampleInBall, y
<1>9. Way(cp_ml_expandA, a, a, Pairs, r) => Way(Lost(cp_ml_expandA), a, a, Pairs, r)
  <2>1. ~r.all
    BY DEF ExactLimits
  <2> QED
    BY <2>1, WayLost
<1> QED
  BY <1>6, <1>7, <1>8, <1>9 DEF a, s, y

\* The greater of two numbers.
LEMMA GreaterHeld ==
    ASSUME NEW a \in Int, NEW b \in Int
    PROVE  Greater(a, b) \in Int /\ Greater(a, b) >= a /\ Greater(a, b) >= b
BY DEF Greater

\* Sizes in ML-DSA.
LEMMA DsaSizes ==
    ASSUME NEW c \in DsaParams
    PROVE  /\ c.k \in Nat /\ c.l \in Nat /\ c.l >= 1 /\ c.k >= c.l /\ c.lambda4 \in Nat
           /\ c.maskBytes \in Nat /\ c.maskBytes <= 640 /\ c.encodeSize \in Nat
           /\ Poly(c) = 1024 /\ Align = 8 /\ \A n \in Nat : Polys(c, n) = n * 1024 + 8
           /\ Shake128 \in Nat /\ Shake256 \in Nat
<1>1. c = Dsa(4, 4, 32, 18, 6) \/ c = Dsa(6, 5, 48, 20, 4) \/ c = Dsa(8, 7, 64, 20, 4)
  BY DEF DsaParams
<1>2. c.l >= 1 /\ c.k >= c.l /\ c.maskBytes <= 640
  BY <1>1 DEF Dsa
<1>3. /\ Poly(c) = 1024 /\ c.k \in Nat /\ c.l \in Nat /\ c.lambda4 \in Nat /\ c.maskBytes \in Nat
      /\ c.encodeSize \in Nat
  BY DsaNumbers
<1>4. Align = 8 /\ Shake128 \in Nat /\ Shake256 \in Nat
  BY StorageConstants DEF Align, Shake128, Shake256, HashState
<1>5. \A n \in Nat : Polys(c, n) = n * 1024 + 8
  BY <1>3, <1>4 DEF Polys
<1> QED
  BY <1>2, <1>3, <1>4, <1>5

\* What key generation takes is what KeygenBytes counts, or less.
LEMMA KeyGenCounted ==
    ASSUME NEW c \in DsaParams, NEW r, ExactLimits(r), KeygenBytes(c) <= r.room
    PROVE  Way(cp_MLDSA_keyGen_internal(c), Taken(0), Pairs, Pairs, r)
<1> DEFINE kv == Polys(c, c.k)
           lv == Polys(c, c.l)
           all == (3 * c.k + c.l) * Poly(c) + 4 * Align
           m0 == 0
           m1 == lv + kv + kv
           m2 == m1 + lv
           m3 == m1 + kv
           y == Shake128 + Align
           z == Shake256 + Align
<1>1. /\ c.k \in Nat /\ c.l \in Nat /\ c.l >= 1 /\ c.k >= c.l
      /\ Poly(c) = 1024 /\ Align = 8 /\ kv = c.k * 1024 + 8 /\ lv = c.l * 1024 + 8
      /\ Shake128 \in Nat /\ Shake256 \in Nat /\ r.room \in Int
  BY DsaSizes DEF ExactLimits, Limits
<1>2. /\ (3 * c.k + c.l) * 1024 + 40 + Shake128 <= r.room
      /\ (3 * c.k + c.l) * 1024 + 40 + Shake256 <= r.room
  <2> DEFINE g == Greater(Shake128, Shake256)
  <2>1. g \in Int /\ g >= Shake128 /\ g >= Shake256
    <3>1. Shake128 \in Int /\ Shake256 \in Int
      BY <1>1
    <3> QED
      BY <3>1, GreaterHeld
  <2>2. (3 * c.k + c.l) * 1024 + 32 + g + 8 <= r.room
    BY <1>1 DEF KeygenBytes
  <2> HIDE DEF g
  <2> QED
    BY <1>1, <2>1, <2>2
<1>3. /\ kv \in Nat /\ lv \in Nat /\ all \in Nat /\ m0 \in Nat /\ m1 \in Nat /\ m2 \in Nat /\ m3 \in Nat
      /\ m1 = m0 + (lv + kv + kv) /\ m2 = m1 + lv /\ m3 = m1 + kv /\ m1 = m2 - lv /\ m0 = m3 - all
      /\ lv <= m2 /\ all <= m3
  BY <1>1
<1>4. m1 <= r.room /\ m2 <= r.room /\ m3 <= r.room /\ m1 + z <= r.room /\ m2 + y <= r.room
      /\ ExactLimits(r)
  BY <1>1, <1>2
<1> HIDE DEF kv, lv, all, m0, m1, m2, m3

<1>5. Way(Try, Taken(m0), Taken(m0), Pairs, r)
  BY <1>3, <1>4, DsaWays
<1>6. Way(Take(<<lv, kv, kv>>), Taken(m0), Taken(m1), Pairs, r)
  BY <1>3, <1>4, DsaWays
<1>7. Way(cp_ml_expandS, Taken(m1), Taken(m1), Pairs, r)
  BY <1>3, <1>4, DsaSamplers
<1>8. Way(Take(<<lv>>), Taken(m1), Taken(m2), Pairs, r)
  BY <1>3, <1>4, DsaWays
<1>9. Way(cp_ml_expandA, Taken(m2), Taken(m2), Pairs, r)
  BY <1>3, <1>4, DsaSamplers
<1>10. Way(Give(lv), Taken(m2), Taken(m1), Pairs, r)
  BY <1>3, <1>4, DsaWays
<1>11. Way(Take(<<kv>>), Taken(m1), Taken(m3), Pairs, r)
  BY <1>3, <1>4, DsaWays
<1>12. Way(Try, Taken(m3), Taken(m3), Pairs, r)
  BY <1>3, <1>4, DsaWays
<1>13. Way(Give(all), Taken(m3), Taken(m0), Pairs, r)
  BY <1>3, <1>4, DsaWays
<1> DEFINE part1 == Try \o Take(<<lv, kv, kv>>)
           part2 == part1 \o cp_ml_expandS
           part3 == part2 \o Take(<<lv>>)
           part4 == part3 \o cp_ml_expandA
           part5 == part4 \o Give(lv)
           part6 == part5 \o Take(<<kv>>)
           part7 == part6 \o Try
           part8 == part7 \o Give(all)
<1>14. Way(part1, Taken(m0), Taken(m1), Pairs, r)
  BY <1>5, <1>6, WayJoined
<1>15. Way(part2, Taken(m0), Taken(m1), Pairs, r)
  BY <1>14, <1>7, WayJoined
<1>16. Way(part3, Taken(m0), Taken(m2), Pairs, r)
  BY <1>15, <1>8, WayJoined
<1>17. Way(part4, Taken(m0), Taken(m2), Pairs, r)
  BY <1>16, <1>9, WayJoined
<1>18. Way(part5, Taken(m0), Taken(m1), Pairs, r)
  BY <1>17, <1>10, WayJoined
<1>19. Way(part6, Taken(m0), Taken(m3), Pairs, r)
  BY <1>18, <1>11, WayJoined
<1>20. Way(part7, Taken(m0), Taken(m3), Pairs, r)
  BY <1>19, <1>12, WayJoined
<1>21. Way(part8, Taken(m0), Taken(m0), Pairs, r)
  BY <1>20, <1>13, WayJoined
<1>22. Taken(m0) \subseteq Pairs
  BY <1>3, DsaWays
<1>23. Way(cp_MLDSA_keyGen_internal(c), Taken(m0), Taken(m0), Pairs, r)
  BY <1>21 DEF cp_MLDSA_keyGen_internal, kv, lv, all
<1>24. Way(cp_MLDSA_keyGen_internal(c), Taken(m0), Pairs, Pairs, r)
  BY <1>22, <1>23, WayWidened
<1> QED
  BY <1>24 DEF m0

\* What verification takes is what VerifyBytes counts, or less.
LEMMA VerifyCounted ==
    ASSUME NEW c \in DsaParams, NEW r, ExactLimits(r), NEW max \in Nat, VerifyBytes(c, max) <= r.room,
           NEW input \in Nat, input <= 64 + 2 + 255 + max
    PROVE  /\ Way(cp_MLDSA_VerifyCore(c), Taken(0), Pairs, Pairs, r)
           /\ Way(cp_MLDSA_ComputeMu(input) \o cp_MLDSA_VerifyCore(c), Taken(0), Pairs, Pairs, r)
<1> DEFINE kv == Polys(c, c.k)
           hashed == 64 + c.encodeSize + Align
           challenge == c.lambda4 + Align
           last == 3 * c.k * Poly(c) + 3 * Align
           taken == input + Align
           m0 == 0
           m1 == kv + kv + kv
           m2 == m1 + challenge
           y == Shake128 + Align
           z == Shake256 + Align
<1>1. /\ c.k \in Nat /\ c.k >= 1 /\ c.lambda4 \in Nat /\ c.encodeSize \in Nat
      /\ Poly(c) = 1024 /\ Align = 8 /\ kv = c.k * 1024 + 8
      /\ Shake128 \in Nat /\ Shake256 \in Nat /\ r.room \in Int
  BY DsaSizes DEF ExactLimits, Limits
<1>2. /\ 3 * c.k * 1024 + c.lambda4 + 40 + Shake128 <= r.room
      /\ 3 * c.k * 1024 + c.lambda4 + 40 + Shake256 <= r.room
      /\ 3 * c.k * 1024 + c.lambda4 + 40 + 64 + 258 + max <= r.room
      /\ 3 * c.k * 1024 + c.lambda4 + 40 + 64 + c.encodeSize <= r.room
  <2> DEFINE g == Greater(Shake128, Shake256)
             j == Greater(2 + 256 + max, c.encodeSize)
             q == Greater(64 + j, g)
  <2>1. g \in Int /\ g >= Shake128 /\ g >= Shake256
    <3>1. Shake128 \in Int /\ Shake256 \in Int
      BY <1>1
    <3> QED
      BY <3>1, GreaterHeld
  <2>2. j \in Int /\ j >= 2 + 256 + max /\ j >= c.encodeSize
    <3>1. 2 + 256 + max \in Int /\ c.encodeSize \in Int
      BY <1>1
    <3> QED
      BY <3>1, GreaterHeld
  <2> HIDE DEF g, j
  <2>3. q \in Int /\ q >= 64 + j /\ q >= g
    <3>1. 64 + j \in Int
      BY <2>2
    <3> QED
      BY <2>1, <3>1, GreaterHeld
  <2>4. 3 * c.k * 1024 + c.lambda4 + 32 + 8 + q <= r.room
    BY <1>1 DEF VerifyBytes, g, j
  <2> HIDE DEF q
  <2> QED
    BY <1>1, <2>1, <2>2, <2>3, <2>4
<1>3. /\ kv \in Nat /\ hashed \in Nat /\ challenge \in Nat /\ last \in Nat /\ taken \in Nat
      /\ m0 \in Nat /\ m1 \in Nat /\ m2 \in Nat
      /\ m1 = m0 + (kv + kv + kv) /\ m2 = m1 + challenge /\ m1 = m2 - challenge /\ m0 = m1 - last
      /\ challenge <= m2 /\ last <= m1
  <2>1. kv \in Nat /\ hashed \in Nat /\ challenge \in Nat /\ last \in Nat /\ taken \in Nat
    BY <1>1
  <2>2. last = kv + kv + kv
    BY <1>1
  <2> HIDE DEF kv, hashed, challenge, last, taken
  <2> QED
    BY <2>1, <2>2
<1>4. /\ m1 <= r.room /\ m2 <= r.room /\ m1 + y <= r.room /\ m1 + z <= r.room
      /\ m2 + hashed <= r.room /\ m0 + taken <= r.room /\ ExactLimits(r)
  BY <1>1, <1>2
<1> HIDE DEF kv, hashed, challenge, last, taken, m0, m1, m2

<1>5. Way(Take(<<kv, kv, kv>>), Taken(m0), Taken(m1), Pairs, r)
  BY <1>3, <1>4, DsaWays
<1>6. Way(Leave, Taken(m1), Taken(m1), Pairs, r)
  BY <1>3, <1>4, DsaWays
<1>7. Way(cp_ml_sampleInBall, Taken(m1), Taken(m1), Pairs, r)
  BY <1>3, <1>4, DsaSamplers
<1>8. Way(Lost(cp_ml_expandA), Taken(m1), Taken(m1), Pairs, r)
  BY <1>3, <1>4, DsaSamplers
<1>9. Way(Take(<<challenge>>), Taken(m1), Taken(m2), Pairs, r)
  BY <1>3, <1>4, DsaWays
<1>10. Way(Temporary(hashed), Taken(m2), Taken(m2), Pairs, r)
  BY <1>3, <1>4, DsaWays
<1>11. Way(Give(challenge), Taken(m2), Taken(m1), Pairs, r)
  BY <1>3, <1>4, DsaWays
<1>12. Way(Give(last), Taken(m1), Taken(m0), Pairs, r)
  BY <1>3, <1>4, DsaWays
<1> DEFINE part1 == Take(<<kv, kv, kv>>) \o Leave
           part2 == part1 \o cp_ml_sampleInBall
           part3 == part2 \o Lost(cp_ml_expandA)
           part4 == part3 \o Take(<<challenge>>)
           part5 == part4 \o Temporary(hashed)
           part6 == part5 \o Give(challenge)
           part7 == part6 \o Give(last)
<1>13. Way(part1, Taken(m0), Taken(m1), Pairs, r)
  BY <1>5, <1>6, WayJoined
<1>14. Way(part2, Taken(m0), Taken(m1), Pairs, r)
  BY <1>13, <1>7, WayJoined
<1>15. Way(part3, Taken(m0), Taken(m1), Pairs, r)
  BY <1>14, <1>8, WayJoined
<1>16. Way(part4, Taken(m0), Taken(m2), Pairs, r)
  BY <1>15, <1>9, WayJoined
<1>17. Way(part5, Taken(m0), Taken(m2), Pairs, r)
  BY <1>16, <1>10, WayJoined
<1>18. Way(part6, Taken(m0), Taken(m1), Pairs, r)
  BY <1>17, <1>11, WayJoined
<1>19. Way(part7, Taken(m0), Taken(m0), Pairs, r)
  BY <1>18, <1>12, WayJoined
<1>20. Taken(m0) \subseteq Pairs
  BY <1>3, DsaWays
<1>21. Way(cp_MLDSA_VerifyCore(c), Taken(m0), Taken(m0), Pairs, r)
  BY <1>19 DEF cp_MLDSA_VerifyCore, kv, hashed, challenge, last
<1>22. Way(cp_MLDSA_VerifyCore(c), Taken(m0), Pairs, Pairs, r)
  BY <1>20, <1>21, WayWidened
<1>23. Way(Try, Taken(m0), Taken(m0), Pairs, r) /\ Way(Temporary(taken), Taken(m0), Taken(m0), Pairs, r)
  BY <1>3, <1>4, DsaWays
<1>24. Way(Try \o Temporary(taken), Taken(m0), Taken(m0), Pairs, r)
  BY <1>23, WayJoined
<1>25. Way(cp_MLDSA_ComputeMu(input), Taken(m0), Taken(m0), Pairs, r)
  BY <1>24 DEF cp_MLDSA_ComputeMu, taken
<1>26. Way(cp_MLDSA_ComputeMu(input) \o cp_MLDSA_VerifyCore(c), Taken(m0), Pairs, Pairs, r)
  BY <1>22, <1>25, WayJoined
<1> QED
  BY <1>22, <1>26 DEF m0

\* The pair there is.
LEMMA TakenIs ==
    ASSUME NEW t \in Nat
    PROVE  /\ Taken(t) = {<<t, 0>>} /\ Taken(t) \subseteq Pairs
           /\ \A q \in Taken(t) : q = <<t, 0>> /\ q[1] = t /\ q[2] = 0
<1>1. 0 + t = t
  OBVIOUS
<1>2. Taken(t) = {<<t, 0>>}
  <2> DEFINE z == <<0, 0>>
  <2>1. z[1] = 0 /\ z[2] = 0
    OBVIOUS
  <2>2. Taken(t) = {<<q[1] + t, q[2]>> : q \in {z}}
    BY DEF Taken, Shifted
  <2> HIDE DEF z
  <2>3. Taken(t) = {<<z[1] + t, z[2]>>}
    BY <2>2
  <2> QED
    BY <1>1, <2>1, <2>3
<1> QED
  BY <1>2 DEF Pairs

\* Part of a script, from position p + 1 of an account.
Runs(s, f, p, x, r) ==
    s \in Seq(ScriptEntries) /\ \A j \in 1..Len(s) : Covers(s[j], f, p + j, x, r)

\* Two parts.
LEMMA RunsJoined ==
    ASSUME NEW s, NEW t, NEW f, NEW p \in Int, NEW x, NEW r, Runs(s, f, p, x, r),
           NEW n, n = p + Len(s), Runs(t, f, n, x, r)
    PROVE  Runs(s \o t, f, p, x, r) /\ Len(s \o t) = Len(s) + Len(t)
<1> DEFINE u == s \o t
           k == Len(s)
           m == Len(t)
<1>1. /\ s \in Seq(ScriptEntries) /\ t \in Seq(ScriptEntries) /\ k \in Nat /\ m \in Nat
      /\ \A j \in 1..k : Covers(s[j], f, p + j, x, r)
      /\ \A j \in 1..m : Covers(t[j], f, p + k + j, x, r)
  <2>1. s \in Seq(ScriptEntries) /\ t \in Seq(ScriptEntries)
    BY DEF Runs
  <2>2. k \in Nat /\ m \in Nat
    BY <2>1
  <2> QED
    BY <2>1, <2>2 DEF Runs
<1>2. /\ u \in Seq(ScriptEntries) /\ Len(u) = k + m
      /\ \A j \in 1..k + m : u[j] = IF j <= k THEN s[j] ELSE t[j - k]
  BY <1>1, ConcatProperties
<1> HIDE DEF u, k, m
<1>3. ASSUME NEW j \in 1..k + m PROVE Covers(u[j], f, p + j, x, r)
  <2>1. CASE j <= k
    <3>1. j \in 1..k /\ u[j] = s[j]
      BY <1>1, <1>2, <2>1
    <3> QED
      BY <1>1, <3>1
  <2>2. CASE ~(j <= k)
    <3> DEFINE y == j - k
    <3>1. y \in 1..m /\ p + k + y = p + j /\ u[j] = t[y]
      BY <1>1, <1>2, <2>2
    <3> HIDE DEF y
    <3>2. Covers(t[y], f, p + k + y, x, r)
      BY <1>1, <3>1
    <3> QED
      BY <3>1, <3>2
  <2> QED
    BY <2>1, <2>2
<1> QED
  BY <1>2, <1>3 DEF Runs, u, k, m

\* One entry.
LEMMA RunsEntry ==
    ASSUME NEW e, e \in ScriptEntries, NEW f, NEW p \in Int, NEW x, NEW r, Covers(e, f, p + 1, x, r)
    PROVE  Runs(<<e>>, f, p, x, r) /\ Len(<<e>>) = 1
<1> DEFINE s == <<e>>
<1>1. s \in Seq(ScriptEntries) /\ Len(s) = 1 /\ s[1] = e
  OBVIOUS
<1> HIDE DEF s
<1>2. \A j \in 1..Len(s) : j = 1
  BY <1>1
<1> QED
  BY <1>1, <1>2 DEF Runs, s

\* The entries of a turn.
LEMMA TurnEntries ==
    ASSUME NEW f, NEW p \in Int, p \in DOMAIN f, NEW x, NEW r, ExactLimits(r), NEW t \in Nat,
           f[p] = Taken(t), NEW n \in Int, n # Out
    PROVE  /\ p + 1 \in DOMAIN f /\ f[p + 1] = Taken(t) /\ p + 1 + n \in DOMAIN f /\ Taken(t) \subseteq f[p + 1 + n] =>
                /\ Covers(Made("either", <<>>, FALSE, n, FALSE), f, p, x, r)
                /\ Covers(Made("turn", <<>>, FALSE, n, FALSE), f, p, x, r)
           /\ p + 1 + n \in DOMAIN f /\ Taken(t) \subseteq f[p + 1 + n] =>
                Covers(Made("goto", <<>>, FALSE, n, FALSE), f, p, x, r)
           /\ \A k \in Nat : p + 1 \in DOMAIN f /\ t + k <= r.room /\ f[p + 1] = Taken(t + k) =>
                Covers(Made("take", <<k>>, FALSE, Out, FALSE), f, p, x, r)
           /\ \A k \in Nat : p + 1 \in DOMAIN f /\ k <= t /\ f[p + 1] = Taken(t - k) =>
                Covers(Made("give", <<k>>, FALSE, Out, FALSE), f, p, x, r)
<1> DEFINE o == <<>>
           z == <<t, 0>>
<1>1. f[p] = {z} /\ f[p] \subseteq Pairs /\ z \in Taken(t)
  BY TakenIs
<1>2. z[1] = t /\ z[2] = 0
  OBVIOUS
<1> HIDE DEF z
<1>3. ASSUME NEW e, e.skip = n, e.do \in {"either", "goto", "turn"},
             p + 1 + n \in DOMAIN f, Taken(t) \subseteq f[p + 1 + n],
             e.do # "goto" => p + 1 \in DOMAIN f /\ f[p + 1] = Taken(t)
      PROVE  Covers(e, f, p, x, r)
  <2>1. Leads(e, f, p, x, z)
    BY <1>1, <1>3 DEF Leads
  <2>2. e.do # "goto" => Follows(f, p, z)
    BY <1>1, <1>3 DEF Follows
  <2>3. e.do \notin {"take", "give", "giveall", "try", "lastturn"}
    BY <1>3
  <2>4. e.do \in {"try", "either", "turn", "lastturn"} => e.do # "goto"
    OBVIOUS
  <2>5. PairCovered(e, f, p, x, r, z)
    BY <2>1, <2>2, <2>3, <2>4 DEF PairCovered
  <2> QED
    BY <1>1, <1>3, <2>3, <2>5 DEF Covers
<1>4. ASSUME NEW k \in Nat, p + 1 \in DOMAIN f, t + k <= r.room, f[p + 1] = Taken(t + k)
      PROVE  Covers(Made("take", <<k>>, FALSE, Out, FALSE), f, p, x, r)
  <2> DEFINE ns == <<k>>
             e == Made("take", ns, FALSE, Out, FALSE)
             y == <<t + k, 0>>
  <2>1. e.do = "take" /\ e.ns = ns /\ ~e.free
    BY DEF Made
  <2>2. Len(ns) \in {1, 3} /\ Total(ns) = k
    BY DEF Total
  <2> HIDE DEF ns
  <2>3. y \in f[p + 1]
    <3>1. t + k \in Nat
      OBVIOUS
    <3> QED
      BY <1>4, <3>1, TakenIs
  <2>4. <<z[1] + Total(e.ns), z[2]>> = y /\ z[1] + Total(e.ns) = t + k
    BY <1>2, <2>1, <2>2
  <2> HIDE DEF e, y
  <2>5. r.skew = 0 /\ r.room \in Int
    BY DEF ExactLimits, Limits
  <2>6. TakeCovered(e, f, p, x, r, z)
    <3>1. t + k + r.skew <= r.room
      BY <1>4, <2>5
    <3> QED
      BY <1>4, <2>3, <2>4, <3>1 DEF TakeCovered, Follows
  <2>7. "take" # "give" /\ "take" # "giveall" /\ "take" \notin {"try", "either", "turn", "lastturn"}
        /\ "take" \notin {"try", "lastturn"} /\ "take" \notin {"either", "goto", "turn"}
    OBVIOUS
  <2>8. PairCovered(e, f, p, x, r, z)
    BY <2>1, <2>6, <2>7 DEF PairCovered
  <2>9. Covers(e, f, p, x, r)
    BY <1>1, <2>1, <2>2, <2>7, <2>8 DEF Covers
  <2> QED
    BY <2>9 DEF e, ns
<1>5. ASSUME NEW k \in Nat, p + 1 \in DOMAIN f, k <= t, f[p + 1] = Taken(t - k)
      PROVE  Covers(Made("give", <<k>>, FALSE, Out, FALSE), f, p, x, r)
  <2> DEFINE ns == <<k>>
             e == Made("give", ns, FALSE, Out, FALSE)
             y == <<t - k, 0>>
  <2>1. e.do = "give" /\ e.ns[1] = k
    BY DEF Made
  <2> HIDE DEF ns
  <2>3. y \in f[p + 1]
    <3>1. t - k \in Nat
      BY <1>5
    <3> QED
      BY <1>5, <3>1, TakenIs
  <2>4. <<z[1] - e.ns[1], z[2]>> = y /\ z[1] >= e.ns[1]
    BY <1>2, <1>5, <2>1
  <2> HIDE DEF e, y
  <2>6. z[1] >= e.ns[1] /\ Follows(f, p, <<z[1] - e.ns[1], z[2]>>)
    BY <1>5, <2>3, <2>4 DEF Follows
  <2>7. "give" # "take" /\ "give" # "giveall" /\ "give" \notin {"try", "either", "turn", "lastturn"}
        /\ "give" \notin {"try", "lastturn"} /\ "give" \notin {"either", "goto", "turn"}
    OBVIOUS
  <2>8. PairCovered(e, f, p, x, r, z)
    BY <2>1, <2>6, <2>7 DEF PairCovered
  <2>9. Covers(e, f, p, x, r)
    BY <1>1, <2>1, <2>7, <2>8 DEF Covers
  <2> QED
    BY <2>9 DEF e, ns
<1>6. /\ Made("either", o, FALSE, n, FALSE).skip = n /\ Made("either", o, FALSE, n, FALSE).do = "either"
      /\ Made("goto", o, FALSE, n, FALSE).skip = n /\ Made("goto", o, FALSE, n, FALSE).do = "goto"
      /\ Made("turn", o, FALSE, n, FALSE).skip = n /\ Made("turn", o, FALSE, n, FALSE).do = "turn"
  BY DEF Made
<1>7. p + 1 \in DOMAIN f /\ f[p + 1] = Taken(t) /\ p + 1 + n \in DOMAIN f /\ Taken(t) \subseteq f[p + 1 + n] =>
        Covers(Made("either", o, FALSE, n, FALSE), f, p, x, r)
  <2> DEFINE e == Made("either", o, FALSE, n, FALSE)
  <2>1. e.skip = n /\ e.do \in {"either", "goto", "turn"}
    BY <1>6
  <2> HIDE DEF e
  <2>2. p + 1 \in DOMAIN f /\ f[p + 1] = Taken(t) /\ p + 1 + n \in DOMAIN f /\ Taken(t) \subseteq f[p + 1 + n] =>
          Covers(e, f, p, x, r)
    BY <1>3, <2>1
  <2> QED
    BY <2>2 DEF e
<1>8. p + 1 \in DOMAIN f /\ f[p + 1] = Taken(t) /\ p + 1 + n \in DOMAIN f /\ Taken(t) \subseteq f[p + 1 + n] =>
        Covers(Made("turn", o, FALSE, n, FALSE), f, p, x, r)
  <2> DEFINE e == Made("turn", o, FALSE, n, FALSE)
  <2>1. e.skip = n /\ e.do \in {"either", "goto", "turn"}
    BY <1>6
  <2> HIDE DEF e
  <2>2. p + 1 \in DOMAIN f /\ f[p + 1] = Taken(t) /\ p + 1 + n \in DOMAIN f /\ Taken(t) \subseteq f[p + 1 + n] =>
          Covers(e, f, p, x, r)
    BY <1>3, <2>1
  <2> QED
    BY <2>2 DEF e
<1>9. p + 1 + n \in DOMAIN f /\ Taken(t) \subseteq f[p + 1 + n] =>
        Covers(Made("goto", o, FALSE, n, FALSE), f, p, x, r)
  <2> DEFINE e == Made("goto", o, FALSE, n, FALSE)
  <2>1. e.skip = n /\ e.do \in {"either", "goto", "turn"} /\ ~(e.do # "goto")
    BY <1>6
  <2> HIDE DEF e
  <2>2. p + 1 + n \in DOMAIN f /\ Taken(t) \subseteq f[p + 1 + n] => Covers(e, f, p, x, r)
    BY <1>3, <2>1
  <2> QED
    BY <2>2 DEF e
<1> QED
  BY <1>4, <1>5, <1>7, <1>8, <1>9

\* What entries that lead elsewhere hold.
LEMMA JumpsMade ==
    ASSUME NEW n \in Int
    PROVE  /\ Either(n) = <<Made("either", <<>>, FALSE, n, FALSE)>>
           /\ Goto(n) = <<Made("goto", <<>>, FALSE, n, FALSE)>>
           /\ Turn(n) = <<Made("turn", <<>>, FALSE, -n, FALSE)>>
<1> DEFINE o == <<>>
           u == Made("either", o, FALSE, Out, FALSE)
           v == Made("goto", o, FALSE, Out, FALSE)
           y == Made("turn", o, FALSE, Out, FALSE)
           k == -n
<1>1. /\ Either(n) = <<[u EXCEPT !.skip = n]>> /\ Goto(n) = <<[v EXCEPT !.skip = n]>>
      /\ Turn(n) = <<[y EXCEPT !.skip = k]>>
  BY DEF Either, Goto, Turn, Entry, Made
<1>2. [u EXCEPT !.skip = n] = Made("either", o, FALSE, n, FALSE)
  <2>1. \A fr, lo : [Made("either", o, fr, Out, lo) EXCEPT !.skip = n] = Made("either", o, fr, n, lo)
    BY DEF Made
  <2> QED
    BY <2>1, Zenon
<1>3. [v EXCEPT !.skip = n] = Made("goto", o, FALSE, n, FALSE)
  <2>1. \A fr, lo : [Made("goto", o, fr, Out, lo) EXCEPT !.skip = n] = Made("goto", o, fr, n, lo)
    BY DEF Made
  <2> QED
    BY <2>1, Zenon
<1>4. [y EXCEPT !.skip = k] = Made("turn", o, FALSE, k, FALSE)
  <2> HIDE DEF k
  <2>1. \A fr, lo : [Made("turn", o, fr, Out, lo) EXCEPT !.skip = k] = Made("turn", o, fr, k, lo)
    BY DEF Made
  <2> QED
    BY <2>1, Zenon
<1> HIDE DEF u, v, y
<1> QED
  BY <1>1, <1>2, <1>3, <1>4

\* Entries are entries.
LEMMA EntriesHeld ==
    ASSUME NEW do \in Deeds, NEW ns \in Seq(Nat), NEW n \in Int
    PROVE  Made(do, ns, FALSE, n, FALSE) \in ScriptEntries
<1> DEFINE S == Seq(Nat)
<1>1. ns \in S
  OBVIOUS
<1> HIDE DEF S
<1>2. Made(do, ns, FALSE, n, FALSE) \in [do : Deeds, ns : S, free : BOOLEAN, skip : Int, lost : BOOLEAN]
  BY <1>1 DEF Made
<1> QED
  BY <1>2 DEF ScriptEntries, S

\* A turn that begins with head, without its last entry and with it.
HintOf(kv) == Take(<<kv>>) \o Give(kv)
TurnOf(head, kv) == head \o Either(Len(HintOf(kv)) + 3) \o HintOf(kv) \o Either(2)
                    \o Give(kv) \o Goto(2) \o Give(kv)
WholeTurn(head, kv) == TurnOf(head, kv) \o Turn(Len(TurnOf(head, kv)) + 1)

\* The end of a turn of the rejection loop gives back what the turn took,
\* whether it is accepted, rejected, or one more block was tried.
LEMMA LoopCounted ==
    ASSUME NEW head, NEW m \in Nat, NEW kv \in Nat, NEW r, ExactLimits(r),
           Way(head, Taken(m), Taken(m + kv), Pairs, r), m + kv + kv <= r.room
    PROVE  Way(WholeTurn(head, kv), Taken(m), Taken(m), Pairs, r)
<1> SUFFICES ASSUME NEW hint, hint = Take(<<kv>>) \o Give(kv),
                    NEW body, body = head \o Either(Len(hint) + 3) \o hint \o Either(2)
                                     \o Give(kv) \o Goto(2) \o Give(kv)
             PROVE  Way(body \o Turn(Len(body) + 1), Taken(m), Taken(m), Pairs, r)
  BY Zenon DEF WholeTurn, TurnOf, HintOf
<1> DEFINE k == Len(head)
           x == Pairs
           m1 == m + kv
           m2 == m1 + kv
<1>1. /\ Sound(head) /\ head \in Seq(ScriptEntries) /\ k \in Nat
      /\ m1 \in Nat /\ m2 \in Nat /\ m2 <= r.room /\ m1 <= r.room /\ kv <= m1 /\ kv <= m2
      /\ m = m1 - kv /\ m1 = m2 - kv /\ r.room \in Int
  <2>1. Sound(head)
    BY DEF Way
  <2>2. head \in Seq(ScriptEntries)
    BY <2>1 DEF Sound
  <2>3. r.room \in Int
    BY DEF ExactLimits, Limits
  <2> QED
    BY <2>1, <2>2, <2>3
<1>2. PICK f : Accounts(f, head, Taken(m), Taken(m1), x, r)
  BY DEF Way
<1>3. /\ DOMAIN f = 1..k + 1 /\ Taken(m) \subseteq f[1] /\ f[k + 1] \subseteq Taken(m1)
      /\ \A j \in 1..k : Covers(head[j], f, j, x, r)
  BY <1>2 DEF Accounts
<1> DEFINE a0 == Taken(m)
           a1 == Taken(m1)
           a2 == Taken(m2)
           g == [j \in 1..k + 9 |-> IF j <= k THEN f[j]
                                    ELSE IF j = k + 3 THEN a2
                                    ELSE IF j \in {k + 6, k + 8, k + 9} THEN a0 ELSE a1]
<1> HIDE DEF a0, a1, a2, k, m1, m2, x
<1>4. /\ DOMAIN g = 1..k + 9 /\ \A j \in 1..k : g[j] = f[j]
      /\ \A j \in 1..9 : k + j \in 1..k + 9
      /\ g[k + 1] = a1 /\ g[k + 2] = a1 /\ g[k + 3] = a2 /\ g[k + 4] = a1 /\ g[k + 5] = a1
      /\ g[k + 6] = a0 /\ g[k + 7] = a1 /\ g[k + 8] = a0 /\ g[k + 9] = a0
  <2>1. DOMAIN g = 1..k + 9 /\ \A j \in 1..k : g[j] = f[j]
    BY <1>1
  <2>2. \A j \in 1..9 : k + j \in 1..k + 9 /\ ~(k + j <= k)
    BY <1>1
  <2>3. g[k + 1] = a1 /\ g[k + 2] = a1 /\ g[k + 3] = a2
    BY <1>1, <2>2
  <2>4. g[k + 4] = a1 /\ g[k + 5] = a1 /\ g[k + 6] = a0
    BY <1>1, <2>2
  <2>5. g[k + 7] = a1 /\ g[k + 8] = a0 /\ g[k + 9] = a0
    BY <1>1, <2>2
  <2> QED
    BY <2>1, <2>2, <2>3, <2>4, <2>5
<1> HIDE DEF g
<1>5. \A j \in DOMAIN f : j \in DOMAIN g /\ f[j] \subseteq g[j]
  <2> TAKE j \in DOMAIN f
  <2>1. CASE j \in 1..k
    <3>1. j \in 1..k + 9
      BY <1>1, <2>1
    <3> QED
      BY <1>4, <2>1, <3>1
  <2>2. CASE j = k + 1
    BY <1>1, <1>3, <1>4, <2>2 DEF a1
  <2> QED
    BY <1>1, <1>3, <2>1, <2>2
<1>6. 1 \in DOMAIN g /\ a0 \subseteq g[1]
  <2>1. 1 \in DOMAIN f
    BY <1>1, <1>3
  <2> QED
    BY <1>3, <1>5, <2>1 DEF a0
<1>7. Runs(head, g, 0, x, r)
  <2> SUFFICES ASSUME NEW j \in 1..k PROVE Covers(head[j], g, 0 + j, x, r)
    BY <1>1 DEF Runs, k
  <2>1. j + 0 = j /\ 0 + j = j /\ j \in Int /\ 0 \in Int
    BY <1>1
  <2>2. head[j].skip \in Int
    <3>1. head[j] \in ScriptEntries
      BY <1>1 DEF k
    <3> QED
      BY <3>1 DEF ScriptEntries
  <2>3. j + 0 \in DOMAIN g /\ g[j + 0] = f[j] /\ DOMAIN f \subseteq Int
    BY <1>1, <1>3, <1>4, <2>1
  <2>4. \A t \in DOMAIN f : t # j => t + 0 \in DOMAIN g /\ f[t] \subseteq g[t + 0]
    <3>1. \A t \in DOMAIN f : t + 0 = t
      BY <2>3
    <3> QED
      BY <1>5, <3>1
  <2>5. Covers(head[j], f, j, x, r)
    BY <1>3
  <2>6. Covers(head[j], g, j + 0, x, r)
    BY <2>1, <2>2, <2>3, <2>4, <2>5, CoversMoved
  <2> QED
    BY <2>1, <2>6
<1> DEFINE o == <<>>
           ns == <<kv>>
           n == -(k + 8)
           e1 == Made("either", o, FALSE, 5, FALSE)
           e2 == Made("take", ns, FALSE, Out, FALSE)
           e3 == Made("give", ns, FALSE, Out, FALSE)
           e4 == Made("either", o, FALSE, 2, FALSE)
           e6 == Made("goto", o, FALSE, 2, FALSE)
           e8 == Made("turn", o, FALSE, n, FALSE)
<1>8. /\ e1 \in ScriptEntries /\ e2 \in ScriptEntries /\ e3 \in ScriptEntries /\ e4 \in ScriptEntries
      /\ e6 \in ScriptEntries /\ e8 \in ScriptEntries
  <2>1. o \in Seq(Nat) /\ ns \in Seq(Nat) /\ Out \in Int /\ n \in Int /\ 5 \in Int /\ 2 \in Int
    BY <1>1 DEF Out
  <2>2. "either" \in Deeds /\ "take" \in Deeds /\ "give" \in Deeds /\ "goto" \in Deeds /\ "turn" \in Deeds
    BY DEF Deeds
  <2> HIDE DEF o, ns, n, Out
  <2> QED
    BY <2>1, <2>2, EntriesHeld
<1>9. 5 \in Int /\ 2 \in Int /\ 5 # Out /\ 2 # Out /\ n # Out /\ n \in Int
  BY <1>1 DEF Out
<1>10. /\ k + 1 + 1 = k + 2 /\ k + 2 + 1 = k + 3 /\ k + 3 + 1 = k + 4 /\ k + 4 + 1 = k + 5
       /\ k + 5 + 1 = k + 6 /\ k + 6 + 1 = k + 7 /\ k + 7 + 1 = k + 8 /\ k + 8 + 1 = k + 9
       /\ k + 1 + 1 + 5 = k + 7 /\ k + 4 + 1 + 2 = k + 7 /\ k + 6 + 1 + 2 = k + 9 /\ k + 8 + 1 + n = 1
  BY <1>1
<1>11. /\ k + 1 \in Int /\ k + 2 \in Int /\ k + 3 \in Int /\ k + 4 \in Int /\ k + 5 \in Int /\ k + 6 \in Int
       /\ k + 7 \in Int /\ k + 8 \in Int /\ k \in Int
       /\ k + 1 \in DOMAIN g /\ k + 2 \in DOMAIN g /\ k + 3 \in DOMAIN g /\ k + 4 \in DOMAIN g
       /\ k + 5 \in DOMAIN g /\ k + 6 \in DOMAIN g /\ k + 7 \in DOMAIN g /\ k + 8 \in DOMAIN g
       /\ k + 9 \in DOMAIN g
  <2>1. k \in Nat /\ DOMAIN g = 1..k + 9
    BY <1>1, <1>4
  <2>2. ASSUME NEW j \in Nat, j >= 1, j <= 9 PROVE k + j \in DOMAIN g
    <3> HIDE DEF k
    <3>1. k + j \in 1..k + 9
      BY <2>1, <2>2
    <3> QED
      BY <2>1, <3>1
  <2>3. k + 1 \in DOMAIN g /\ k + 2 \in DOMAIN g /\ k + 3 \in DOMAIN g
    BY <2>2
  <2>4. k + 4 \in DOMAIN g /\ k + 5 \in DOMAIN g /\ k + 6 \in DOMAIN g
    BY <2>2
  <2>5. k + 7 \in DOMAIN g /\ k + 8 \in DOMAIN g /\ k + 9 \in DOMAIN g
    BY <2>2
  <2>6. /\ k + 1 \in Int /\ k + 2 \in Int /\ k + 3 \in Int /\ k + 4 \in Int /\ k + 5 \in Int
        /\ k + 6 \in Int /\ k + 7 \in Int /\ k + 8 \in Int /\ k \in Int
    BY <2>1
  <2> QED
    BY <2>3, <2>4, <2>5, <2>6
<1> HIDE DEF n, ns, o
<1>12. Covers(e1, g, k + 1, x, r)
  <2>1. g[k + 1] = Taken(m1) /\ m1 \in Nat
    BY <1>1, <1>4 DEF a1
  <2>2. k + 1 + 1 + 5 \in DOMAIN g /\ Taken(m1) \subseteq g[k + 1 + 1 + 5]
    BY <1>4, <1>10, <1>11 DEF a1
  <2>3. k + 1 + 1 \in DOMAIN g /\ g[k + 1 + 1] = Taken(m1)
    BY <1>4, <1>10, <1>11 DEF a1
  <2> QED
    BY <1>9, <1>11, <2>1, <2>2, <2>3, TurnEntries, Zenon DEF o
<1>13. Covers(e2, g, k + 2, x, r)
  <2>1. g[k + 2] = Taken(m1) /\ m1 \in Nat
    BY <1>1, <1>4 DEF a1
  <2>2. k + 2 + 1 \in DOMAIN g /\ g[k + 2 + 1] = Taken(m1 + kv)
    <3>1. m2 = m1 + kv
      BY <1>1 DEF m2
    <3> QED
      BY <1>4, <1>10, <1>11, <3>1 DEF a2
  <2>3. m1 + kv <= r.room
    BY <1>1 DEF m2
  <2> QED
    BY <1>9, <1>11, <2>1, <2>2, <2>3, TurnEntries DEF ns
<1>14. Covers(e3, g, k + 3, x, r)
  <2>1. g[k + 3] = Taken(m2) /\ m2 \in Nat
    BY <1>1, <1>4 DEF a2
  <2>2. k + 3 + 1 \in DOMAIN g /\ g[k + 3 + 1] = Taken(m2 - kv)
    <3>1. m1 = m2 - kv
      BY <1>1 DEF m2
    <3> QED
      BY <1>4, <1>10, <1>11, <3>1 DEF a1
  <2>3. kv <= m2
    BY <1>1
  <2> QED
    BY <1>9, <1>11, <2>1, <2>2, <2>3, TurnEntries DEF ns
<1>15. Covers(e4, g, k + 4, x, r)
  <2>1. g[k + 4] = Taken(m1) /\ m1 \in Nat
    BY <1>1, <1>4 DEF a1
  <2>2. k + 4 + 1 + 2 \in DOMAIN g /\ Taken(m1) \subseteq g[k + 4 + 1 + 2]
    BY <1>4, <1>10, <1>11 DEF a1
  <2>3. k + 4 + 1 \in DOMAIN g /\ g[k + 4 + 1] = Taken(m1)
    BY <1>4, <1>10, <1>11 DEF a1
  <2> QED
    BY <1>9, <1>11, <2>1, <2>2, <2>3, TurnEntries, Zenon DEF o
<1>16. Covers(e3, g, k + 5, x, r)
  <2>1. g[k + 5] = Taken(m1) /\ m1 \in Nat
    BY <1>1, <1>4 DEF a1
  <2>2. k + 5 + 1 \in DOMAIN g /\ g[k + 5 + 1] = Taken(m1 - kv)
    <3>1. m = m1 - kv
      BY <1>1 DEF m2
    <3> QED
      BY <1>4, <1>10, <1>11, <3>1 DEF a0
  <2>3. kv <= m1
    BY <1>1
  <2> QED
    BY <1>9, <1>11, <2>1, <2>2, <2>3, TurnEntries DEF ns
<1>17. Covers(e6, g, k + 6, x, r)
  <2>1. g[k + 6] = Taken(m) /\ m \in Nat
    BY <1>1, <1>4 DEF a0
  <2>2. k + 6 + 1 + 2 \in DOMAIN g /\ Taken(m) \subseteq g[k + 6 + 1 + 2]
    BY <1>4, <1>10, <1>11 DEF a0
  <2> QED
    BY <1>9, <1>11, <2>1, <2>2, TurnEntries, Zenon DEF o
<1>18. Covers(e3, g, k + 7, x, r)
  <2>1. g[k + 7] = Taken(m1) /\ m1 \in Nat
    BY <1>1, <1>4 DEF a1
  <2>2. k + 7 + 1 \in DOMAIN g /\ g[k + 7 + 1] = Taken(m1 - kv)
    <3>1. m = m1 - kv
      BY <1>1 DEF m2
    <3> QED
      BY <1>4, <1>10, <1>11, <3>1 DEF a0
  <2>3. kv <= m1
    BY <1>1
  <2> QED
    BY <1>9, <1>11, <2>1, <2>2, <2>3, TurnEntries DEF ns
<1>19. Covers(e8, g, k + 8, x, r)
  <2>1. g[k + 8] = Taken(m) /\ m \in Nat
    BY <1>1, <1>4 DEF a0
  <2>2. k + 8 + 1 + n \in DOMAIN g /\ Taken(m) \subseteq g[k + 8 + 1 + n]
    BY <1>6, <1>10 DEF a0
  <2>3. k + 8 + 1 \in DOMAIN g /\ g[k + 8 + 1] = Taken(m)
    BY <1>4, <1>10, <1>11 DEF a0
  <2> QED
    BY <1>9, <1>11, <2>1, <2>2, <2>3, TurnEntries, Zenon DEF o
<1>20. Len(hint) = 2 /\ Runs(hint, g, k + 1, x, r)
  <2>1. Runs(<<e2>>, g, k + 1, x, r) /\ Len(<<e2>>) = 1 /\ Runs(<<e3>>, g, k + 2, x, r) /\ Len(<<e3>>) = 1
    <3> HIDE DEF e2, e3
    <3>1. Covers(e2, g, k + 1 + 1, x, r) /\ Covers(e3, g, k + 2 + 1, x, r)
      BY <1>10, <1>13, <1>14
    <3> QED
      BY <1>8, <1>11, <3>1, RunsEntry
  <2>2. hint = <<e2>> \o <<e3>>
    BY EntriesMade DEF ns
  <2> HIDE DEF e2, e3
  <2>3. k + 2 = k + 1 + Len(<<e2>>)
    BY <1>10, <2>1
  <2>4. Runs(<<e2>> \o <<e3>>, g, k + 1, x, r) /\ Len(<<e2>> \o <<e3>>) = Len(<<e2>>) + Len(<<e3>>)
    BY <1>11, <2>1, <2>3, RunsJoined
  <2> QED
    <3>1. Len(hint) = 1 + 1 /\ Runs(hint, g, k + 1, x, r)
      BY <2>1, <2>2, <2>4
    <3> QED
      BY <3>1
<1>21. Runs(Either(Len(hint) + 3), g, k, x, r) /\ Len(Either(Len(hint) + 3)) = 1
  <2>1. Either(Len(hint) + 3) = <<e1>>
    <3>1. Len(hint) + 3 = 5
      BY <1>20
    <3>2. Either(5) = <<e1>>
      BY <1>9, JumpsMade, Zenon DEF o
    <3> QED
      BY <3>1, <3>2
  <2> HIDE DEF e1
  <2>2. Covers(e1, g, k + 1, x, r)
    BY <1>10, <1>12
  <2> QED
    BY <1>8, <1>11, <2>1, <2>2, RunsEntry
<1>22. Runs(Either(2), g, k + 3, x, r) /\ Len(Either(2)) = 1
  <2>1. Either(2) = <<e4>>
    BY <1>9, JumpsMade, Zenon DEF o
  <2> HIDE DEF e4
  <2>2. Covers(e4, g, k + 3 + 1, x, r)
    BY <1>10, <1>15
  <2> QED
    BY <1>8, <1>11, <2>1, <2>2, RunsEntry
<1>23. Runs(Give(kv), g, k + 4, x, r) /\ Len(Give(kv)) = 1
  <2>1. Give(kv) = <<e3>>
    BY EntriesMade DEF ns
  <2> HIDE DEF e3
  <2>2. Covers(e3, g, k + 4 + 1, x, r)
    BY <1>10, <1>16
  <2> QED
    BY <1>8, <1>11, <2>1, <2>2, RunsEntry
<1>24. Runs(Goto(2), g, k + 5, x, r) /\ Len(Goto(2)) = 1
  <2>1. Goto(2) = <<e6>>
    BY <1>9, JumpsMade, Zenon DEF o
  <2> HIDE DEF e6
  <2>2. Covers(e6, g, k + 5 + 1, x, r)
    BY <1>10, <1>17
  <2> QED
    BY <1>8, <1>11, <2>1, <2>2, RunsEntry
<1>25. Runs(Give(kv), g, k + 6, x, r) /\ Len(Give(kv)) = 1
  <2>1. Give(kv) = <<e3>>
    BY EntriesMade DEF ns
  <2> HIDE DEF e3
  <2>2. Covers(e3, g, k + 6 + 1, x, r)
    BY <1>10, <1>18
  <2> QED
    BY <1>8, <1>11, <2>1, <2>2, RunsEntry
<1> DEFINE b1 == head \o Either(Len(hint) + 3)
           b2 == b1 \o hint
           b3 == b2 \o Either(2)
           b4 == b3 \o Give(kv)
           b5 == b4 \o Goto(2)
           b6 == b5 \o Give(kv)
<1>26. Runs(b1, g, 0, x, r) /\ Len(b1) = k + 1
  <2> DEFINE part == Either(Len(hint) + 3)
  <2>1. Runs(part, g, k, x, r) /\ Len(part) = 1
    BY <1>21
  <2> HIDE DEF part
  <2>2. k = 0 + Len(head) /\ 0 \in Int
    BY <1>1, <1>7 DEF k
  <2>3. Runs(head \o part, g, 0, x, r) /\ Len(head \o part) = Len(head) + Len(part)
    BY <1>7, <2>1, <2>2, RunsJoined
  <2>4. Len(head \o part) = k + 1
    BY <1>1, <2>1, <2>2, <2>3
  <2> QED
    BY <2>3, <2>4 DEF b1, part
<1>27. Runs(b2, g, 0, x, r) /\ Len(b2) = k + 3
  <2> DEFINE part == hint
  <2>1. Runs(part, g, k + 1, x, r) /\ Len(part) = 2
    BY <1>20
  <2> HIDE DEF b1, part
  <2>2. k + 1 = 0 + Len(b1) /\ 0 \in Int
    BY <1>1, <1>26 DEF k
  <2>3. Runs(b1 \o part, g, 0, x, r) /\ Len(b1 \o part) = Len(b1) + Len(part)
    BY <1>26, <2>1, <2>2, RunsJoined
  <2>4. Len(b1 \o part) = k + 3
    BY <1>1, <2>1, <2>2, <2>3
  <2> QED
    BY <2>3, <2>4 DEF b2, part
<1>28. Runs(b3, g, 0, x, r) /\ Len(b3) = k + 4
  <2> DEFINE part == Either(2)
  <2>1. Runs(part, g, k + 3, x, r) /\ Len(part) = 1
    BY <1>22
  <2> HIDE DEF b1, b2, part
  <2>2. k + 3 = 0 + Len(b2) /\ 0 \in Int
    BY <1>1, <1>27 DEF k
  <2>3. Runs(b2 \o part, g, 0, x, r) /\ Len(b2 \o part) = Len(b2) + Len(part)
    BY <1>27, <2>1, <2>2, RunsJoined
  <2>4. Len(b2 \o part) = k + 4
    BY <1>1, <2>1, <2>2, <2>3
  <2> QED
    BY <2>3, <2>4 DEF b3, part
<1>29. Runs(b4, g, 0, x, r) /\ Len(b4) = k + 5
  <2> DEFINE part == Give(kv)
  <2>1. Runs(part, g, k + 4, x, r) /\ Len(part) = 1
    BY <1>23
  <2> HIDE DEF b1, b2, b3, part
  <2>2. k + 4 = 0 + Len(b3) /\ 0 \in Int
    BY <1>1, <1>28 DEF k
  <2>3. Runs(b3 \o part, g, 0, x, r) /\ Len(b3 \o part) = Len(b3) + Len(part)
    BY <1>28, <2>1, <2>2, RunsJoined
  <2>4. Len(b3 \o part) = k + 5
    BY <1>1, <2>1, <2>2, <2>3
  <2> QED
    BY <2>3, <2>4 DEF b4, part
<1>30. Runs(b5, g, 0, x, r) /\ Len(b5) = k + 6
  <2> DEFINE part == Goto(2)
  <2>1. Runs(part, g, k + 5, x, r) /\ Len(part) = 1
    BY <1>24
  <2> HIDE DEF b1, b2, b3, b4, part
  <2>2. k + 5 = 0 + Len(b4) /\ 0 \in Int
    BY <1>1, <1>29 DEF k
  <2>3. Runs(b4 \o part, g, 0, x, r) /\ Len(b4 \o part) = Len(b4) + Len(part)
    BY <1>29, <2>1, <2>2, RunsJoined
  <2>4. Len(b4 \o part) = k + 6
    BY <1>1, <2>1, <2>2, <2>3
  <2> QED
    BY <2>3, <2>4 DEF b5, part
<1>31. Runs(b6, g, 0, x, r) /\ Len(b6) = k + 7
  <2> DEFINE part == Give(kv)
  <2>1. Runs(part, g, k + 6, x, r) /\ Len(part) = 1
    BY <1>25
  <2> HIDE DEF b1, b2, b3, b4, b5, part
  <2>2. k + 6 = 0 + Len(b5) /\ 0 \in Int
    BY <1>1, <1>30 DEF k
  <2>3. Runs(b5 \o part, g, 0, x, r) /\ Len(b5 \o part) = Len(b5) + Len(part)
    BY <1>30, <2>1, <2>2, RunsJoined
  <2>4. Len(b5 \o part) = k + 7
    BY <1>1, <2>1, <2>2, <2>3
  <2> QED
    BY <2>3, <2>4 DEF b6, part
<1>32. body = b6
  OBVIOUS
<1> HIDE DEF b1, b2, b3, b4, b5, b6
<1>33. Runs(body, g, 0, x, r) /\ Len(body) = k + 7
  BY <1>31, <1>32
<1>34. Turn(Len(body) + 1) = <<e8>>
  <2>1. Len(body) + 1 \in Int /\ -(Len(body) + 1) = n
    BY <1>1, <1>33 DEF n
  <2> QED
    BY <2>1, JumpsMade DEF o
<1> DEFINE t == Turn(Len(body) + 1)
           all == body \o t
<1>35. Runs(t, g, k + 7, x, r) /\ Len(t) = 1
  <2> HIDE DEF e8, t
  <2>1. Covers(e8, g, k + 7 + 1, x, r)
    BY <1>10, <1>19
  <2>2. Runs(<<e8>>, g, k + 7, x, r) /\ Len(<<e8>>) = 1
    BY <1>8, <1>11, <2>1, RunsEntry
  <2> QED
    BY <1>34, <2>2 DEF t
<1>36. Sound(all)
  <2>1. Sound(hint) /\ Sound(Either(Len(hint) + 3)) /\ Sound(Either(2)) /\ Sound(Goto(2)) /\ Sound(Give(kv))
    <3>1. Len(hint) + 3 \in Nat /\ 2 \in Nat
      BY <1>20
    <3>2. Sound(Take(<<kv>>)) /\ Sound(Give(kv))
      BY SoundParts
    <3> QED
      BY <3>1, <3>2, SoundParts, SoundTogether
  <2>2. Sound(body)
    BY <1>1, <2>1, SoundTogether
  <2> QED
    BY <2>2, SoundLoop
<1> HIDE DEF t
<1>37. Runs(all, g, 0, x, r) /\ Len(all) = k + 8
  <2>1. k + 7 = 0 + Len(body) /\ 0 \in Int
    BY <1>1, <1>33
  <2>2. Runs(body \o t, g, 0, x, r) /\ Len(body \o t) = Len(body) + Len(t)
    BY <1>33, <1>35, <2>1, RunsJoined
  <2>3. Len(all) = k + 7 + 1
    BY <1>33, <1>35, <2>2
  <2> HIDE DEF all
  <2> QED
    BY <1>10, <2>2, <2>3 DEF all
<1> HIDE DEF all
<1>38. Accounts(g, all, a0, a0, x, r)
  <2>1. DOMAIN g = 1..Len(all) + 1 /\ a0 \subseteq g[1] /\ g[Len(all) + 1] \subseteq a0
    BY <1>4, <1>6, <1>10, <1>37
  <2>2. ASSUME NEW j \in 1..Len(all) PROVE Covers(all[j], g, j, x, r)
    <3>1. 0 + j = j
      BY <1>1, <1>37
    <3>2. Covers(all[j], g, 0 + j, x, r)
      BY <1>37 DEF Runs
    <3> QED
      BY <3>1, <3>2
  <2> QED
    BY <2>1, <2>2 DEF Accounts
<1>39. Way(all, a0, a0, x, r)
  BY <1>36, <1>38 DEF Way
<1> QED
  BY <1>39 DEF all, t, a0, x

\* A turn of the rejection loop ends with what it began with.
LEMMA TurnCounted ==
    ASSUME NEW c \in DsaParams, NEW r, ExactLimits(r), NEW m \in Nat,
           m + (c.l * 1024 + 8) + (Shake128 + Align) <= r.room,
           m + (c.k * 1024 + 8) + (64 + c.encodeSize + Align) <= r.room,
           m + (c.k * 1024 + 8) + (c.k * 1024 + 8) <= r.room,
           m + (Shake256 + Align) <= r.room
    PROVE  Way(SignTurn(c), Taken(m), Taken(m), Pairs, r)
<1> DEFINE kv == Polys(c, c.k)
           lv == Polys(c, c.l)
           hashed == 64 + c.encodeSize + Align
           mask == c.maskBytes + Align
           generated == IF build = "portable" THEN cp_ml_expandA ELSE <<>>
           m1 == m + lv
           m2 == m + kv
           m3 == m2 + kv
           y == Shake128 + Align
           z == Shake256 + Align
<1>1. /\ c.k \in Nat /\ c.l \in Nat /\ c.l >= 1 /\ c.k >= c.l /\ c.maskBytes \in Nat /\ c.maskBytes <= 640
      /\ c.encodeSize \in Nat /\ Align = 8 /\ kv = c.k * 1024 + 8 /\ lv = c.l * 1024 + 8
      /\ Shake128 \in Nat /\ Shake256 \in Nat /\ r.room \in Int
  BY DsaSizes DEF ExactLimits, Limits
<1>2. /\ kv \in Nat /\ lv \in Nat /\ hashed \in Nat /\ mask \in Nat
      /\ m1 \in Nat /\ m2 \in Nat /\ m3 \in Nat /\ m1 = m + lv /\ m2 = m + kv /\ m3 = m2 + kv
      /\ m = m1 - lv /\ m = m2 - kv /\ m2 = m3 - kv /\ lv <= m1 /\ kv <= m2 /\ kv <= m3
  <2>1. kv \in Nat /\ lv \in Nat /\ hashed \in Nat /\ mask \in Nat
    BY <1>1
  <2> HIDE DEF kv, lv, hashed, mask
  <2> QED
    BY <2>1
<1>3. /\ m1 <= r.room /\ m2 <= r.room /\ m3 <= r.room /\ m + mask <= r.room /\ m1 + y <= r.room
      /\ m2 + hashed <= r.room /\ m + z <= r.room /\ m2 + kv <= r.room /\ m + kv + kv <= r.room
      /\ ExactLimits(r)
  BY <1>1
<1> HIDE DEF kv, lv, hashed, mask, m1, m2, m3
<1> HIDE DEF generated
<1>4. Way(Temporary(mask), Taken(m), Taken(m), Pairs, r)
  <2>1. m + mask <= r.room /\ mask \in Nat /\ ExactLimits(r)
    BY <1>2, <1>3
  <2> QED
    BY <2>1, DsaTemporary
<1>5. Way(Take(<<lv>>), Taken(m), Taken(m1), Pairs, r)
  <2>1. m + lv <= r.room /\ lv \in Nat /\ m1 = m + lv /\ ExactLimits(r)
    BY <1>2, <1>3
  <2>2. Way(Take(<<lv>>), Taken(m), Taken(m + lv), Pairs, r)
    BY <2>1, DsaBlock
  <2> QED
    BY <2>1, <2>2
<1>6. Way(generated, Taken(m1), Taken(m1), Pairs, r)
  <2>1. Way(cp_ml_expandA, Taken(m1), Taken(m1), Pairs, r) /\ Way(<<>>, Taken(m1), Taken(m1), Pairs, r)
    <3>1. m1 \in Nat /\ ExactLimits(r) /\ m1 + (Shake128 + Align) <= r.room
      BY <1>2, <1>3
    <3>2. Way(<<>>, Taken(m1), Taken(m1), Pairs, r)
      BY <3>1, DsaNone
    <3> QED
      BY <3>1, <3>2, DsaSamplers
  <2> QED
    BY <2>1 DEF generated
<1>7. Way(Give(lv), Taken(m1), Taken(m), Pairs, r)
  BY <1>2, <1>3, DsaWays
<1>8. Way(Take(<<kv>>), Taken(m), Taken(m2), Pairs, r)
  <2>1. m + kv <= r.room /\ kv \in Nat /\ m2 = m + kv /\ ExactLimits(r)
    BY <1>2, <1>3
  <2>2. Way(Take(<<kv>>), Taken(m), Taken(m + kv), Pairs, r)
    BY <2>1, DsaBlock
  <2> QED
    BY <2>1, <2>2
<1>9. Way(Temporary(hashed), Taken(m2), Taken(m2), Pairs, r)
  <2>1. m2 + hashed <= r.room /\ hashed \in Nat /\ m2 \in Nat /\ ExactLimits(r)
    BY <1>2, <1>3
  <2> QED
    BY <2>1, DsaTemporary
<1>10. Way(Give(kv), Taken(m2), Taken(m), Pairs, r)
  BY <1>2, <1>3, DsaWays
<1>11. Way(cp_ml_sampleInBall, Taken(m), Taken(m), Pairs, r)
  BY <1>2, <1>3, DsaSamplers
<1>12. Way(Take(<<lv>>), Taken(m), Taken(m1), Pairs, r)
  BY <1>2, <1>3, DsaWays
<1>13. Way(Give(lv), Taken(m1), Taken(m), Pairs, r)
  BY <1>2, <1>3, DsaWays
<1>14. Way(Take(<<kv>>), Taken(m), Taken(m2), Pairs, r)
  BY <1>2, <1>3, DsaWays
<1>15. Way(Take(<<kv>>), Taken(m2), Taken(m3), Pairs, r)
  BY <1>2, <1>3, DsaWays
<1>16. Way(Give(kv), Taken(m3), Taken(m2), Pairs, r)
  BY <1>2, <1>3, DsaWays
<1> DEFINE part1 == Temporary(mask) \o Take(<<lv>>)
           part2 == part1 \o generated
           part3 == part2 \o Give(lv)
           part4 == part3 \o Take(<<kv>>)
           part5 == part4 \o Temporary(hashed)
           part6 == part5 \o Give(kv)
           part7 == part6 \o cp_ml_sampleInBall
           part8 == part7 \o Take(<<lv>>)
           part9 == part8 \o Give(lv)
           part10 == part9 \o Take(<<kv>>)
           part11 == part10 \o Take(<<kv>>)
           part12 == part11 \o Give(kv)
<1>17. Way(part1, Taken(m), Taken(m1), Pairs, r)
  BY <1>4, <1>5, WayJoined
<1>18. Way(part2, Taken(m), Taken(m1), Pairs, r)
  BY <1>17, <1>6, WayJoined
<1>19. Way(part3, Taken(m), Taken(m), Pairs, r)
  BY <1>18, <1>7, WayJoined
<1>20. Way(part4, Taken(m), Taken(m2), Pairs, r)
  BY <1>19, <1>8, WayJoined
<1>21. Way(part5, Taken(m), Taken(m2), Pairs, r)
  BY <1>20, <1>9, WayJoined
<1>22. Way(part6, Taken(m), Taken(m), Pairs, r)
  BY <1>21, <1>10, WayJoined
<1>23. Way(part7, Taken(m), Taken(m), Pairs, r)
  BY <1>22, <1>11, WayJoined
<1>24. Way(part8, Taken(m), Taken(m1), Pairs, r)
  BY <1>23, <1>12, WayJoined
<1>25. Way(part9, Taken(m), Taken(m), Pairs, r)
  BY <1>24, <1>13, WayJoined
<1>26. Way(part10, Taken(m), Taken(m2), Pairs, r)
  BY <1>25, <1>14, WayJoined
<1>27. Way(part11, Taken(m), Taken(m3), Pairs, r)
  BY <1>26, <1>15, WayJoined
<1>28. Way(part12, Taken(m), Taken(m2), Pairs, r)
  BY <1>27, <1>16, WayJoined
<1> DEFINE head == part12
<1>29. Way(head, Taken(m), Taken(m + kv), Pairs, r)
  BY <1>28 DEF m2
<1>30. SignTurn(c) = WholeTurn(head, kv)
  <2>1. head = Temporary(mask)
                     \o Take(<<lv>>) \o generated \o Give(lv)
                     \o Take(<<kv>>) \o Temporary(hashed) \o Give(kv)
                     \o cp_ml_sampleInBall
                     \o Take(<<lv>>) \o Give(lv)
                     \o Take(<<kv>>) \o Take(<<kv>>) \o Give(kv)
    OBVIOUS
  <2> QED
    BY DEF SignTurn, WholeTurn, TurnOf, HintOf, generated, kv, lv, hashed, mask
<1> HIDE DEF head
<1>31. Way(WholeTurn(head, kv), Taken(m), Taken(m), Pairs, r)
  <2>1. kv \in Nat /\ m + kv + kv <= r.room /\ ExactLimits(r)
    BY <1>2, <1>3
  <2> QED
    BY <1>29, <2>1, LoopCounted
<1> QED
  BY <1>30, <1>31

\* What signing takes is what SignBytes counts, or less, however many turns.
LEMMA SignCounted ==
    ASSUME NEW c \in DsaParams, NEW r, ExactLimits(r), NEW max \in Nat, SignBytes(c, max) <= r.room,
           NEW input \in Nat, input <= 64 + 2 + 255 + max
    PROVE  Way(cp_MLDSA_Sign_internal(c, input), Taken(0), Pairs, Pairs, r)
<1> DEFINE kv == Polys(c, c.k)
           lv == Polys(c, c.l)
           kl == Polys(c, c.k * c.l)
           most == (4 * c.k + 2 * c.l) * Poly(c) + 6 * Align
           taken == input + Align
           first == IF build = "multibuffer" THEN Take(<<kl>>) ELSE <<>>
           second == IF build = "multibuffer" THEN cp_ml_expandA ELSE <<>>
           third == IF build = "multibuffer" THEN Give(kl) ELSE <<>>
           m0 == 0
           m1 == IF build = "multibuffer" THEN kl ELSE 0
           m2 == m1 + (lv + kv + kv)
           m3 == m2 + (lv + kv + kv)
<1>1. /\ c.k \in Nat /\ c.l \in Nat /\ c.l >= 1 /\ c.k >= c.l /\ c.encodeSize \in Nat
      /\ Poly(c) = 1024 /\ Align = 8 /\ kv = c.k * 1024 + 8 /\ lv = c.l * 1024 + 8
      /\ Shake128 \in Nat /\ Shake256 \in Nat /\ r.room \in Int
      /\ kl \in Nat /\ kl = c.k * c.l * Poly(c) + Align
  <2>1. c.k \in Nat /\ c.l \in Nat /\ Poly(c) \in Nat
    BY DsaSizes
  <2>2. c.k * c.l \in Nat
    BY <2>1, Product
  <2>3. kl \in Nat /\ kl = c.k * c.l * Poly(c) + Align
    BY <2>1, <2>2, Blocks DEF Polys
  <2> HIDE DEF kl
  <2> QED
    BY <2>3, DsaSizes DEF ExactLimits, Limits
<1> HIDE DEF kl
<1>2. /\ m1 \in Nat
      /\ (2 * c.k + c.l) * 1024 + 24 + m1 + (64 + 258 + max + 8) <= r.room
      /\ m1 + 2 * ((2 * c.k + c.l) * 1024 + 24) + (c.k * 1024 + 8) + (c.l * 1024 + Shake128 + 16) <= r.room
      /\ m1 + 2 * ((2 * c.k + c.l) * 1024 + 24) + (c.k * 1024 + 8)
            + (c.k * 1024 + 64 + c.encodeSize + 16) <= r.room
      /\ m1 + 2 * ((2 * c.k + c.l) * 1024 + 24) + (c.k * 1024 + 8) + (Shake256 + 8) <= r.room
  <2> DEFINE ta == c.l * Poly(c) + Shake128 + 2 * Align
             tb == c.k * Poly(c) + 64 + c.encodeSize + 2 * Align
             tc == Shake256 + Align
             td == Greater(tb, tc)
             turn == Greater(ta, td)
             loop == (2 * c.k + c.l) * Poly(c) + 3 * Align + turn + c.k * Poly(c) + Align
             hash == 64 + 2 + 256 + max + Align
             more == Greater(hash, loop)
             many == IF build = "multibuffer" THEN c.k * c.l * Poly(c) + Align ELSE 0
  <2>1. SignBytes(c, max) = (2 * c.k + c.l) * Poly(c) + 3 * Align + many + more
    BY DEF SignBytes
  <2>2. many = m1
    BY <1>1
  <2>3. m1 \in Nat
    BY <1>1
  <2> HIDE DEF m1, many
  <2>4. /\ ta = c.l * 1024 + Shake128 + 16 /\ tb = c.k * 1024 + 64 + c.encodeSize + 16
        /\ tc = Shake256 + 8 /\ ta \in Int /\ tb \in Int /\ tc \in Int
    BY <1>1
  <2> HIDE DEF ta, tb, tc
  <2>5. td \in Int /\ td >= tb /\ td >= tc
    BY <2>4, GreaterHeld
  <2> HIDE DEF td
  <2>6. turn \in Int /\ turn >= ta /\ turn >= td
    <3>1. ta \in Int /\ td \in Int
      BY <2>4, <2>5
    <3> QED
      BY <3>1, GreaterHeld
  <2> HIDE DEF turn
  <2>7. loop = (2 * c.k + c.l) * 1024 + 24 + turn + c.k * 1024 + 8 /\ loop \in Int
    BY <1>1, <2>6
  <2>8. hash \in Int /\ hash = 64 + 258 + max + 8
    BY <1>1
  <2> HIDE DEF loop, hash
  <2>9. more \in Int /\ more >= hash /\ more >= loop
    <3>1. hash \in Int /\ loop \in Int
      BY <2>7, <2>8
    <3> QED
      BY <3>1, GreaterHeld
  <2> HIDE DEF more
  <2>10. (2 * c.k + c.l) * 1024 + 24 + m1 + more <= r.room
    BY <1>1, <2>1, <2>2, <2>3, <2>9
  <2> QED
    BY <1>1, <2>3, <2>4, <2>5, <2>6, <2>7, <2>8, <2>9, <2>10
<1>5. /\ build = "multibuffer" => m1 = kl
      /\ build # "multibuffer" => m1 = 0
      /\ m0 = 0
  OBVIOUS
<1> HIDE DEF m1
<1>3. /\ kv \in Nat /\ lv \in Nat /\ most \in Nat /\ taken \in Nat /\ kl \in Nat
      /\ m0 \in Nat /\ m1 \in Nat /\ m2 \in Nat /\ m3 \in Nat
      /\ m2 = m1 + (lv + kv + kv) /\ m3 = m2 + (lv + kv + kv) /\ m1 = m3 - most /\ most <= m3
  <2>1. kv \in Nat /\ lv \in Nat /\ taken \in Nat /\ kl \in Nat
    BY <1>1
  <2>2. most = (lv + kv + kv) + (lv + kv + kv)
    BY <1>1
  <2> HIDE DEF kv, lv, most, taken
  <2> QED
    BY <1>2, <2>1, <2>2
<1>4. /\ m1 <= r.room /\ m2 <= r.room /\ m3 <= r.room /\ m2 + taken <= r.room
      /\ m3 + (c.l * 1024 + 8) + (Shake128 + Align) <= r.room
      /\ m3 + (c.k * 1024 + 8) + (64 + c.encodeSize + Align) <= r.room
      /\ m3 + (c.k * 1024 + 8) + (c.k * 1024 + 8) <= r.room
      /\ m3 + (Shake256 + Align) <= r.room
      /\ m0 + kl = kl
      /\ ExactLimits(r)
  <2>1. m2 = m1 + ((2 * c.k + c.l) * 1024 + 24) /\ m3 = m1 + 2 * ((2 * c.k + c.l) * 1024 + 24)
    BY <1>1, <1>2
  <2> HIDE DEF m2, m3
  <2>2. taken = input + 8
    BY <1>1
  <2> HIDE DEF taken
  <2>3. m1 <= r.room /\ m2 <= r.room /\ m3 <= r.room /\ m2 + taken <= r.room
    BY <1>1, <1>2, <2>1, <2>2
  <2>4. /\ m3 + (c.l * 1024 + 8) + (Shake128 + Align) <= r.room
        /\ m3 + (c.k * 1024 + 8) + (64 + c.encodeSize + Align) <= r.room
        /\ m3 + (c.k * 1024 + 8) + (c.k * 1024 + 8) <= r.room
        /\ m3 + (Shake256 + Align) <= r.room
    BY <1>1, <1>2, <2>1
  <2> QED
    BY <1>1, <2>3, <2>4
<1> HIDE DEF kv, lv, most, taken, m0, m2, m3
<1> HIDE DEF first, second, third
<1>6. Way(first, Taken(m0), Taken(m1), Pairs, r)
  <2>1. CASE build = "multibuffer"
    <3>1. first = Take(<<kl>>) /\ m1 = m0 + kl
      BY <1>3, <1>5, <2>1 DEF first
    <3>2. m0 \in Nat /\ kl \in Nat /\ m0 + kl <= r.room /\ ExactLimits(r)
      BY <1>3, <1>4, <3>1
    <3>3. Way(Take(<<kl>>), Taken(m0), Taken(m0 + kl), Pairs, r)
      BY <3>2, DsaBlock
    <3> QED
      BY <3>1, <3>3
  <2>2. CASE build # "multibuffer"
    <3>1. first = <<>> /\ m1 = m0
      BY <1>5, <2>2 DEF first
    <3>2. m0 \in Nat /\ ExactLimits(r)
      BY <1>3, <1>4
    <3>3. Way(<<>>, Taken(m0), Taken(m0), Pairs, r)
      BY <3>2, DsaNone
    <3> QED
      BY <3>1, <3>3
  <2> QED
    BY <2>1, <2>2
<1>7. Way(Take(<<lv, kv, kv>>), Taken(m1), Taken(m2), Pairs, r)
  <2>1. m1 + (lv + kv + kv) <= r.room
    BY <1>3, <1>4
  <2>2. Way(Take(<<lv, kv, kv>>), Taken(m1), Taken(m1 + (lv + kv + kv)), Pairs, r)
    BY <1>3, <1>4, <2>1, DsaWays
  <2> QED
    BY <1>3, <2>2
<1>8. Way(Temporary(taken), Taken(m2), Taken(m2), Pairs, r)
  <2>1. m2 + taken <= r.room /\ taken \in Nat /\ m2 \in Nat /\ ExactLimits(r)
    BY <1>3, <1>4
  <2> QED
    BY <2>1, DsaTemporary
<1>9. Way(Try, Taken(m2), Taken(m2), Pairs, r)
  BY <1>3, <1>4, DsaWays
<1>10. Way(second, Taken(m2), Taken(m2), Pairs, r)
  <2>1. Way(<<>>, Taken(m2), Taken(m2), Pairs, r)
    BY <1>3, <1>4, DsaWays
  <2>2. build = "multibuffer" => Way(cp_ml_expandA, Taken(m2), Taken(m2), Pairs, r)
    <3>1. build = "multibuffer" => build # "portable"
      OBVIOUS
    <3> QED
      BY <1>3, <1>4, <3>1, DsaSamplers
  <2> QED
    BY <2>1, <2>2 DEF second
<1>11. Way(Take(<<lv, kv, kv>>), Taken(m2), Taken(m3), Pairs, r)
  BY <1>3, <1>4, DsaWays
<1>12. Way(SignTurn(c), Taken(m3), Taken(m3), Pairs, r)
  <2>1. /\ m3 + (c.l * 1024 + 8) + (Shake128 + Align) <= r.room
        /\ m3 + (c.k * 1024 + 8) + (64 + c.encodeSize + Align) <= r.room
        /\ m3 + (c.k * 1024 + 8) + (c.k * 1024 + 8) <= r.room
        /\ m3 + (Shake256 + Align) <= r.room
    BY <1>4
  <2> QED
    BY <1>3, <1>4, <2>1, TurnCounted
<1>13. Way(Give(most), Taken(m3), Taken(m1), Pairs, r)
  BY <1>3, <1>4, DsaWays
<1>14. Way(third, Taken(m1), Taken(m0), Pairs, r)
  <2>1. CASE build = "multibuffer"
    <3>1. third = Give(kl) /\ m0 = m1 - kl /\ kl <= m1
      BY <1>3, <1>5, <2>1 DEF third
    <3> QED
      BY <1>3, <1>4, <3>1, DsaWays
  <2>2. CASE build # "multibuffer"
    <3>1. third = <<>> /\ m1 = m0
      BY <1>5, <2>2 DEF third
    <3> QED
      BY <1>3, <1>4, <3>1, DsaWays
  <2> QED
    BY <2>1, <2>2
<1>15. Way(LastTurn, Taken(m0), Taken(m0), Pairs, r)
  BY <1>3, <1>4, DsaWays
<1> DEFINE part1 == first \o Take(<<lv, kv, kv>>)
           part2 == part1 \o Temporary(taken)
           part3 == part2 \o Try
           part4 == part3 \o second
           part5 == part4 \o Take(<<lv, kv, kv>>)
           part6 == part5 \o SignTurn(c)
           part7 == part6 \o Give(most)
           part8 == part7 \o third
           part9 == part8 \o LastTurn
<1>16. Way(part1, Taken(m0), Taken(m2), Pairs, r)
  BY <1>6, <1>7, WayJoined
<1>17. Way(part2, Taken(m0), Taken(m2), Pairs, r)
  BY <1>16, <1>8, WayJoined
<1>18. Way(part3, Taken(m0), Taken(m2), Pairs, r)
  BY <1>17, <1>9, WayJoined
<1>19. Way(part4, Taken(m0), Taken(m2), Pairs, r)
  BY <1>18, <1>10, WayJoined
<1>20. Way(part5, Taken(m0), Taken(m3), Pairs, r)
  BY <1>19, <1>11, WayJoined
<1>21. Way(part6, Taken(m0), Taken(m3), Pairs, r)
  BY <1>20, <1>12, WayJoined
<1>22. Way(part7, Taken(m0), Taken(m1), Pairs, r)
  BY <1>21, <1>13, WayJoined
<1>23. Way(part8, Taken(m0), Taken(m0), Pairs, r)
  BY <1>22, <1>14, WayJoined
<1>24. Way(part9, Taken(m0), Taken(m0), Pairs, r)
  BY <1>23, <1>15, WayJoined
<1>25. Taken(m0) \subseteq Pairs
  BY <1>3, DsaWays
<1>26. Way(cp_MLDSA_Sign_internal(c, input), Taken(m0), Taken(m0), Pairs, r)
  BY <1>24 DEF cp_MLDSA_Sign_internal, first, second, third, kv, lv, kl, most, taken
<1>27. Way(cp_MLDSA_Sign_internal(c, input), Taken(m0), Pairs, Pairs, r)
  BY <1>25, <1>26, WayWidened
<1> QED
  BY <1>27 DEF m0

-----------------------------------------------------------------------------
(* What the calls of ML-KEM take. *)

\* Sizes in ML-KEM.
LEMMA KemSizes ==
    ASSUME NEW c \in KemParams
    PROVE  /\ c.k \in Nat /\ c.eta1 \in {2, 3} /\ c.eta2 = 2 /\ Poly(c) = 512 /\ Align = 8
           /\ \A n \in Nat : Polys(c, n) = n * 512 + 8
           /\ HashStateBytes \in Nat /\ Shake128 = HashStateBytes + 376
           /\ Shake256 = HashStateBytes + 344 /\ Sha3_512 = HashStateBytes + 280
           /\ CipherTextBytes(c) \in Nat
<1>1. c.k \in Nat /\ c.eta1 \in Nat /\ c.eta2 \in Nat /\ c.du \in Nat /\ c.dv \in Nat /\ Poly(c) = 512
  BY KemNumbers
<1>2. c.eta1 \in {2, 3} /\ c.eta2 = 2
  BY DEF KemParams, Kem
<1>3. /\ HashStateBytes \in Nat /\ Shake128 = HashStateBytes + 376
      /\ Shake256 = HashStateBytes + 344 /\ Sha3_512 = HashStateBytes + 280 /\ Align = 8
  BY StorageConstants DEF Align, Shake128, Shake256, Sha3_512, HashState
<1>4. c.du * c.k \in Nat
  BY <1>1, Product
<1>5. CipherTextBytes(c) \in Nat
  BY <1>1, <1>4 DEF CipherTextBytes
<1>6. \A n \in Nat : Polys(c, n) = n * 512 + 8
  BY <1>1, <1>3 DEF Polys
<1> QED
  BY <1>1, <1>2, <1>3, <1>5, <1>6

\* With a block that may stay taken.
LEMMA DroppedPairs ==
    ASSUME NEW C, C \subseteq Pairs, NEW n \in Nat
    PROVE  /\ Dropped(C, n) \subseteq Pairs
           /\ \A q \in Dropped(C, n) :
                 q \in C \/ \E k \in C : /\ k[1] \in Nat /\ q[1] = k[1] + n /\ q[2] = 1
           /\ \A r, t : Limits(r) /\ t \in Int /\ Within(C, t + n, r) => Within(Dropped(C, n), t, r)
<1>1. ASSUME NEW k \in C PROVE k[1] \in Nat /\ k[2] \in {0, 1}
  BY DEF Pairs
<1>2. ASSUME NEW q \in Dropped(C, n)
      PROVE  q \in Pairs /\ (q \in C \/ \E k \in C : /\ k[1] \in Nat /\ q[1] = k[1] + n /\ q[2] = 1)
  <2>1. CASE q \in C
    BY <2>1
  <2>2. CASE q \notin C
    <3>1. PICK k \in C : q = <<k[1] + n, 1>>
      BY <2>2 DEF Dropped
    <3>2. k[1] \in Nat /\ k[1] + n \in Nat
      BY <1>1
    <3> QED
      BY <3>1, <3>2 DEF Pairs
  <2> QED
    BY <2>1, <2>2
<1>3. ASSUME NEW r, NEW t \in Int, Limits(r), Within(C, t + n, r), NEW q \in Dropped(C, n)
      PROVE  q[1] + t + r.skew <= r.room
  <2>1. r.room \in Int /\ r.skew \in Int
    BY <1>3 DEF Limits
  <2>2. \A k \in C : k[1] + (t + n) + r.skew <= r.room
    BY <1>3 DEF Within
  <2>3. CASE q \in C
    BY <1>1, <2>1, <2>2, <2>3
  <2>4. ASSUME NEW k \in C, k[1] \in Nat, q[1] = k[1] + n PROVE q[1] + t + r.skew <= r.room
    <3>1. k[1] + (t + n) + r.skew <= r.room
      BY <2>2
    <3> QED
      BY <2>1, <2>4, <3>1
  <2> QED
    BY <1>2, <2>3, <2>4
<1>4. \A r, t : Limits(r) /\ t \in Int /\ Within(C, t + n, r) => Within(Dropped(C, n), t, r)
  BY <1>3 DEF Within
<1> QED
  BY <1>2, <1>4

\* Less room is needed for less.
LEMMA WithinLess ==
    ASSUME NEW C, C \subseteq Pairs, NEW r, Limits(r), NEW t \in Int, NEW u \in Int, u <= t,
           Within(C, t, r)
    PROVE  Within(C, u, r)
<1>1. ASSUME NEW q \in C PROVE q[1] + u + r.skew <= r.room
  <2>1. q[1] \in Nat
    BY DEF Pairs
  <2>2. r.room \in Int /\ r.skew \in Int
    BY DEF Limits
  <2>3. q[1] + t + r.skew <= r.room
    BY DEF Within
  <2> QED
    BY <2>1, <2>2, <2>3
<1> QED
  BY <1>1 DEF Within

\* Entries of ML-KEM.
LEMMA KemWays ==
    ASSUME NEW C, C \subseteq Pairs, NEW r, Limits(r), r.all, NEW t \in Nat
    PROVE  /\ \A n \in Nat : Within(C, t + n, r) =>
                 /\ Way(TakeOrFree(n), Shifted(C, t), Shifted(C, t + n), Pairs, r)
                 /\ Way(Take(<<n>>), Shifted(C, t), Shifted(C, t + n), Pairs, r)
           /\ \A n \in Nat : n <= t => Way(Give(n), Shifted(C, t), Shifted(C, t - n), Pairs, r)
           /\ Way(Try, Shifted(C, t), Shifted(C, t), Pairs, r)
           /\ Shifted(C, t) \subseteq Pairs
<1>1. Shifted(C, t) \subseteq Pairs
  BY ShiftedPairs
<1>2. Way(Try, Shifted(C, t), Shifted(C, t), Pairs, r)
  BY <1>1, WayOthers
<1>3. ASSUME NEW n \in Nat, Within(C, t + n, r)
      PROVE  /\ Way(TakeOrFree(n), Shifted(C, t), Shifted(C, t + n), Pairs, r)
             /\ Way(Take(<<n>>), Shifted(C, t), Shifted(C, t + n), Pairs, r)
  <2>1. \A q \in C : \/ q[1] + t + n + r.skew <= r.room
                     \/ q[2] = 1 /\ q[1] + t + n > r.room /\ <<0, 1>> \in Pairs
    <3> TAKE q \in C
    <3>1. q[1] \in Nat
      BY DEF Pairs
    <3>2. q[1] + (t + n) + r.skew <= r.room
      BY <1>3 DEF Within
    <3>3. r.skew \in Int /\ r.room \in Int
      BY DEF Limits
    <3> QED
      BY <3>1, <3>2, <3>3
  <2>2. Way(TakeOrFree(n), Shifted(C, t), Shifted(C, t + n), Pairs, r)
    BY <2>1, WayTakeOrFree
  <2> DEFINE ns == <<n>>
  <2>3. ns \in Seq(Nat) /\ Len(ns) \in {1, 3} /\ n = Total(ns)
    BY DEF Total
  <2> HIDE DEF ns
  <2>4. Way(Take(ns), Shifted(C, t), Shifted(C, t + n), Pairs, r)
    BY <1>3, <2>3, WayTakes
  <2> QED
    BY <2>2, <2>4 DEF ns
<1>4. \A n \in Nat : n <= t => Way(Give(n), Shifted(C, t), Shifted(C, t - n), Pairs, r)
  BY WayGive
<1> QED
  BY <1>1, <1>2, <1>3, <1>4

\* The samplers of ML-KEM.
LEMMA KemSamplers ==
    ASSUME NEW C, C \subseteq Pairs, NEW r, Limits(r), r.all, NEW t \in Nat
    PROVE  /\ Within(C, t + (Shake128 + Align), r) =>
                 Way(cp_matrixAGen, Shifted(C, t), Shifted(Dropped(C, Shake128 + Align), t), Pairs, r)
           /\ \A eta \in {2, 3} : Within(C, t + (eta * 64 + Align), r) =>
                 /\ Way(cp_polyVecGen(eta), Shifted(C, t), Shifted(Dropped(C, eta * 64 + Align), t), Pairs, r)
                 /\ Way(cp_polyGen(eta), Shifted(C, t), Shifted(Dropped(C, eta * 64 + Align), t), Pairs, r)
<1>1. Align = 8 /\ Shake128 + Align \in Nat /\ Shake128 + Align > 0
  BY StorageConstants DEF Align, Shake128, HashState
<1>2. \A n \in Nat : n > 0 /\ Within(C, t + n, r) =>
        /\ Way(Lost(TemporaryOrFree(n)), Shifted(C, t), Shifted(Dropped(C, n), t), Pairs, r)
        /\ Way(Lost(IfPortable(TemporaryOrFree(n))), Shifted(C, t), Shifted(Dropped(C, n), t), Pairs, r)
  BY WaySampler
<1>3. Within(C, t + (Shake128 + Align), r) =>
         Way(cp_matrixAGen, Shifted(C, t), Shifted(Dropped(C, Shake128 + Align), t), Pairs, r)
  BY <1>1, <1>2 DEF cp_matrixAGen
<1>4. ASSUME NEW eta \in {2, 3}, Within(C, t + (eta * 64 + Align), r)
      PROVE  /\ Way(cp_polyVecGen(eta), Shifted(C, t), Shifted(Dropped(C, eta * 64 + Align), t), Pairs, r)
             /\ Way(cp_polyGen(eta), Shifted(C, t), Shifted(Dropped(C, eta * 64 + Align), t), Pairs, r)
  <2> DEFINE n == eta * 64 + Align
  <2>1. n \in Nat /\ n > 0
    BY <1>1
  <2> HIDE DEF n
  <2>2. /\ Way(Lost(TemporaryOrFree(n)), Shifted(C, t), Shifted(Dropped(C, n), t), Pairs, r)
        /\ Way(Lost(IfPortable(TemporaryOrFree(n))), Shifted(C, t), Shifted(Dropped(C, n), t), Pairs, r)
    BY <1>2, <1>4, <2>1 DEF n
  <2> QED
    BY <2>2 DEF n, cp_polyVecGen, cp_polyGen
<1> QED
  BY <1>3, <1>4

\* The last block: it fits, or an error was dropped and the block does not fit.
LastFits(C, t, r) ==
    \A q \in C : \/ q[1] + t + r.skew <= r.room
                 \/ q[2] = 1 /\ q[1] + t > r.room

\* What K-PKE encryption may leave taken, and go on.
Leaked(C, c) ==
    Dropped(Dropped(Dropped(Dropped(C, Shake128 + Align), c.eta1 * 64 + Align), c.eta2 * 64 + Align),
            c.eta2 * 64 + Align)

\* What encryption takes from t bytes on.
LEMMA EncryptCounted ==
    ASSUME NEW c \in KemParams, NEW C, C \subseteq Pairs, NEW t \in Nat, NEW r, Limits(r), r.all,
           Within(C, t + ((4 * c.k + 3) * 512 + 56) + (Shake128 + c.eta1 * 64 + 2 * 136 + 16), r),
           LastFits(Leaked(C, c), t + ((4 * c.k + 3) * 512 + 56) + 520, r)
    PROVE  Way(cp_KPKE_Encrypt(c), Shifted(C, t), Pairs, Pairs, r)
<1> DEFINE v == Polys(c, c.k)
           p == Polys(c, 1)
           l1 == Shake128 + Align
           l2 == c.eta1 * 64 + Align
           l3 == c.eta2 * 64 + Align
           C1 == Dropped(C, l1)
           C2 == Dropped(C1, l2)
           C3 == Dropped(C2, l3)
           C4 == Dropped(C3, l3)
           t0 == t
           t1 == t0 + v
           t2 == t1 + v
           t3 == t2 + p
           t4 == t3 + v
           t5 == t4 + v
           t6 == t5 + p
           t7 == t6 + p
           t8 == t7 + p
           g6 == t7 - v
           g5 == g6 - v
           g4 == g5 - p
           g3 == g4 - v
           g2 == g3 - v
           g1 == g2 - p
           g0 == g1 - p
           s0 == Shifted(C, t0)
           s1 == Shifted(C, t1)
           s2 == Shifted(C, t2)
           s3 == Shifted(C, t3)
           s4 == Shifted(C, t4)
           s5 == Shifted(C, t5)
           s6 == Shifted(C, t6)
           s7 == Shifted(C, t7)
           x1 == Shifted(C1, t7)
           x2 == Shifted(C2, t7)
           x3 == Shifted(C3, t7)
           x4 == Shifted(C4, t7)
           x5 == Shifted(C4, t8)
           y6 == Shifted(C4, g6)
           y5 == Shifted(C4, g5)
           y4 == Shifted(C4, g4)
           y3 == Shifted(C4, g3)
           y2 == Shifted(C4, g2)
           y1 == Shifted(C4, g1)
           y0 == Shifted(C4, g0)
           all == t7 + l1 + l2 + l3 + l3
<1>1. /\ v \in Nat /\ p \in Nat /\ l1 \in Nat /\ l2 \in Nat /\ l3 \in Nat /\ p = 520 /\ l3 = 136
      /\ v = c.k * 512 + 8 /\ c.k \in Nat /\ c.eta1 \in {2, 3} /\ c.eta2 \in {2, 3}
      /\ l1 = Shake128 + 8 /\ l2 = c.eta1 * 64 + 8 /\ Shake128 \in Nat
  BY KemSizes
<1>9. t7 = t + ((4 * c.k + 3) * 512 + 56) /\ t7 + p = t + ((4 * c.k + 3) * 512 + 56) + 520
  BY <1>1
<1>10. all = t + ((4 * c.k + 3) * 512 + 56) + (Shake128 + c.eta1 * 64 + 2 * 136 + 16)
  BY <1>1
<1>11. Within(C, all, r) /\ LastFits(C4, t7 + p, r)
  <2>1. LastFits(Leaked(C, c), t7 + p, r)
    BY <1>9
  <2> QED
    BY <1>10, <2>1 DEF Leaked
<1> HIDE DEF v, p, l1, l2, l3, C1, C2, C3, C4
<1>2. /\ t0 \in Nat /\ t1 \in Nat /\ t2 \in Nat /\ t3 \in Nat /\ t4 \in Nat /\ t5 \in Nat /\ t6 \in Nat
      /\ t7 \in Nat /\ t8 \in Nat
      /\ t1 = t0 + v /\ t2 = t1 + v /\ t3 = t2 + p /\ t4 = t3 + v /\ t5 = t4 + v /\ t6 = t5 + p
      /\ t7 = t6 + p /\ t8 = t7 + p /\ t7 = t8 - p
  BY <1>1
<1>3. /\ g0 \in Nat /\ g1 \in Nat /\ g2 \in Nat /\ g3 \in Nat /\ g4 \in Nat /\ g5 \in Nat /\ g6 \in Nat
      /\ g6 = t7 - v /\ g5 = g6 - v /\ g4 = g5 - p /\ g3 = g4 - v /\ g2 = g3 - v /\ g1 = g2 - p
      /\ g0 = g1 - p
      /\ v <= t7 /\ v <= g6 /\ p <= g5 /\ v <= g4 /\ v <= g3 /\ p <= g2 /\ p <= g1 /\ p <= t8
  BY <1>1
<1> HIDE DEF t0, t1, t2, t3, t4, t5, t6, t7, t8, g0, g1, g2, g3, g4, g5, g6
<1>4. /\ all \in Int /\ t7 + l1 + l2 + l3 \in Int /\ t7 + l1 + l2 \in Int /\ t7 + l1 \in Int
      /\ t7 + l1 <= all /\ t7 + l1 + l2 <= all /\ t7 + l1 + l2 + l3 <= all
      /\ t1 <= all /\ t2 <= all /\ t3 <= all /\ t4 <= all /\ t5 <= all /\ t6 <= all /\ t7 <= all
      /\ t7 + l2 + l1 = t7 + l1 + l2
      /\ t7 + l3 + l2 + l1 = t7 + l1 + l2 + l3 /\ t7 + l3 + l3 + l2 + l1 = all
      /\ t7 + l2 \in Int /\ t7 + l3 \in Int /\ t7 + l3 + l2 \in Int /\ t7 + l3 + l3 \in Int
      /\ t7 + l3 + l3 + l2 \in Int
  <2>1. /\ all \in Int /\ t7 + l1 + l2 + l3 \in Int /\ t7 + l1 + l2 \in Int /\ t7 + l1 \in Int
        /\ t7 + l1 <= all /\ t7 + l1 + l2 <= all /\ t7 + l1 + l2 + l3 <= all
    BY <1>1, <1>2
  <2>2. /\ t7 + l2 + l1 = t7 + l1 + l2
        /\ t7 + l3 + l2 + l1 = t7 + l1 + l2 + l3 /\ t7 + l3 + l3 + l2 + l1 = all
    BY <1>1, <1>2
  <2>3. /\ t7 + l2 \in Int /\ t7 + l3 \in Int /\ t7 + l3 + l2 \in Int /\ t7 + l3 + l3 \in Int
        /\ t7 + l3 + l3 + l2 \in Int
    BY <1>1, <1>2
  <2>4. /\ t1 <= t2 /\ t2 <= t3 /\ t3 <= t4 /\ t4 <= t5 /\ t5 <= t6 /\ t6 <= t7 /\ t7 <= all
    BY <1>1, <1>2
  <2> HIDE DEF all
  <2>5. t1 <= all /\ t2 <= all /\ t3 <= all /\ t4 <= all /\ t5 <= all /\ t6 <= all /\ t7 <= all
    <3>1. t5 <= t7 /\ t4 <= t7 /\ t3 <= t7
      BY <1>2, <2>4
    <3>2. t2 <= t7 /\ t1 <= t7
      BY <1>2, <2>4, <3>1
    <3> QED
      BY <1>2, <2>1, <2>4, <3>1, <3>2
  <2> QED
    BY <2>1, <2>2, <2>3, <2>5
<1> HIDE DEF all
<1>5. /\ Within(C, t1, r) /\ Within(C, t2, r) /\ Within(C, t3, r) /\ Within(C, t4, r)
      /\ Within(C, t5, r) /\ Within(C, t6, r) /\ Within(C, t7, r)
      /\ Within(C, t7 + l1, r) /\ Within(C, t7 + l2 + l1, r) /\ Within(C, t7 + l3 + l2 + l1, r)
      /\ Within(C, t7 + l3 + l3 + l2 + l1, r)
  BY <1>2, <1>4, <1>11, WithinLess
<1>6. /\ C1 \subseteq Pairs
      /\ Within(C1, t7 + l2, r) /\ Within(C1, t7 + l3 + l2, r) /\ Within(C1, t7 + l3 + l3 + l2, r)
  <2>1. /\ Within(C, t7 + l2 + l1, r) /\ Within(C, t7 + l3 + l2 + l1, r)
        /\ Within(C, t7 + l3 + l3 + l2 + l1, r)
        /\ l1 \in Nat /\ t7 + l2 \in Int /\ t7 + l3 + l2 \in Int /\ t7 + l3 + l3 + l2 \in Int
    BY <1>1, <1>4, <1>5
  <2>2. /\ C1 \subseteq Pairs
        /\ \A j \in Int : Within(C, j + l1, r) => Within(C1, j, r)
    BY <2>1, DroppedPairs DEF C1
  <2> QED
    BY <2>1, <2>2
<1>7. /\ C2 \subseteq Pairs
      /\ Within(C2, t7 + l3, r) /\ Within(C2, t7 + l3 + l3, r)
  <2>1. /\ Within(C1, t7 + l3 + l2, r) /\ Within(C1, t7 + l3 + l3 + l2, r) /\ C1 \subseteq Pairs
        /\ l2 \in Nat /\ t7 + l3 \in Int /\ t7 + l3 + l3 \in Int
    BY <1>1, <1>4, <1>6
  <2>2. /\ C2 \subseteq Pairs
        /\ \A j \in Int : Within(C1, j + l2, r) => Within(C2, j, r)
    BY <2>1, DroppedPairs DEF C2
  <2> QED
    BY <2>1, <2>2
<1>8. /\ C3 \subseteq Pairs /\ C4 \subseteq Pairs
      /\ Within(C3, t7 + l3, r)
  <2>1. l3 \in Nat /\ t7 + l3 \in Int /\ C2 \subseteq Pairs /\ Within(C2, t7 + l3 + l3, r)
    BY <1>1, <1>4, <1>7
  <2>2. C3 \subseteq Pairs /\ Within(C3, t7 + l3, r)
    BY <2>1, DroppedPairs DEF C3
  <2>3. C4 \subseteq Pairs
    BY <2>1, <2>2, DroppedPairs DEF C4
  <2> QED
    BY <2>2, <2>3

<1>12. Way(TakeOrFree(v), s0, s1, Pairs, r)
  <2>1. Within(C, t0 + v, r) /\ v \in Nat /\ t0 \in Nat
    BY <1>1, <1>2, <1>5
  <2>2. Way(TakeOrFree(v), Shifted(C, t0), Shifted(C, t0 + v), Pairs, r)
    BY <2>1, KemWays
  <2> QED
    BY <1>2, <2>2 DEF s0, s1
<1>13. Way(TakeOrFree(v), s1, s2, Pairs, r)
  <2>1. Within(C, t1 + v, r) /\ v \in Nat /\ t1 \in Nat
    BY <1>1, <1>2, <1>5
  <2>2. Way(TakeOrFree(v), Shifted(C, t1), Shifted(C, t1 + v), Pairs, r)
    BY <2>1, KemWays
  <2> QED
    BY <1>2, <2>2 DEF s1, s2
<1>14. Way(TakeOrFree(p), s2, s3, Pairs, r)
  <2>1. Within(C, t2 + p, r) /\ p \in Nat /\ t2 \in Nat
    BY <1>1, <1>2, <1>5
  <2>2. Way(TakeOrFree(p), Shifted(C, t2), Shifted(C, t2 + p), Pairs, r)
    BY <2>1, KemWays
  <2> QED
    BY <1>2, <2>2 DEF s2, s3
<1>15. Way(TakeOrFree(v), s3, s4, Pairs, r)
  <2>1. Within(C, t3 + v, r) /\ v \in Nat /\ t3 \in Nat
    BY <1>1, <1>2, <1>5
  <2>2. Way(TakeOrFree(v), Shifted(C, t3), Shifted(C, t3 + v), Pairs, r)
    BY <2>1, KemWays
  <2> QED
    BY <1>2, <2>2 DEF s3, s4
<1>16. Way(TakeOrFree(v), s4, s5, Pairs, r)
  <2>1. Within(C, t4 + v, r) /\ v \in Nat /\ t4 \in Nat
    BY <1>1, <1>2, <1>5
  <2>2. Way(TakeOrFree(v), Shifted(C, t4), Shifted(C, t4 + v), Pairs, r)
    BY <2>1, KemWays
  <2> QED
    BY <1>2, <2>2 DEF s4, s5
<1>17. Way(TakeOrFree(p), s5, s6, Pairs, r)
  <2>1. Within(C, t5 + p, r) /\ p \in Nat /\ t5 \in Nat
    BY <1>1, <1>2, <1>5
  <2>2. Way(TakeOrFree(p), Shifted(C, t5), Shifted(C, t5 + p), Pairs, r)
    BY <2>1, KemWays
  <2> QED
    BY <1>2, <2>2 DEF s5, s6
<1>18. Way(TakeOrFree(p), s6, s7, Pairs, r)
  <2>1. Within(C, t6 + p, r) /\ p \in Nat /\ t6 \in Nat
    BY <1>1, <1>2, <1>5
  <2>2. Way(TakeOrFree(p), Shifted(C, t6), Shifted(C, t6 + p), Pairs, r)
    BY <2>1, KemWays
  <2> QED
    BY <1>2, <2>2 DEF s6, s7
<1>19. Way(Try, s7, s7, Pairs, r)
  BY <1>2, KemWays DEF s7
<1>20. Way(cp_matrixAGen, s7, x1, Pairs, r)
  BY <1>2, <1>5, KemSamplers DEF s7, x1, C1, l1
<1>21. Way(cp_polyVecGen(c.eta1), x1, x2, Pairs, r)
  BY <1>1, <1>2, <1>6, KemSamplers DEF x1, x2, C2, l2
<1>22. Way(cp_polyVecGen(c.eta2), x2, x3, Pairs, r)
  BY <1>1, <1>2, <1>7, KemSamplers DEF x2, x3, C3, l3
<1>23. Way(cp_polyGen(c.eta2), x3, x4, Pairs, r)
  BY <1>1, <1>2, <1>8, KemSamplers DEF x3, x4, C4, l3
<1>24. Way(TakeOrFree(p), x4, x5, Pairs, r)
  <2>1. \A q \in C4 :
           \/ q[1] + t7 + p + r.skew <= r.room
           \/ q[2] = 1 /\ q[1] + t7 + p > r.room /\ <<0, 1>> \in Pairs
    <3> TAKE q \in C4
    <3>1. \/ q[1] + (t7 + p) + r.skew <= r.room
          \/ q[2] = 1 /\ q[1] + (t7 + p) > r.room
      BY <1>11 DEF LastFits
    <3>2. q[1] \in Nat /\ <<0, 1>> \in Pairs
      BY <1>8 DEF Pairs
    <3>3. q[1] + (t7 + p) = q[1] + t7 + p
      BY <1>1, <1>2, <3>2
    <3> DEFINE n == q[1] + (t7 + p)
    <3> HIDE DEF n
    <3>4. \/ n + r.skew <= r.room
          \/ q[2] = 1 /\ n > r.room
      BY <3>1 DEF n
    <3>5. q[1] + t7 + p = n
      BY <3>3 DEF n
    <3> QED
      BY <3>2, <3>4, <3>5
  <2>2. Way(TakeOrFree(p), Shifted(C4, t7), Shifted(C4, t7 + p), Pairs, r)
    <3>1. p \in Nat /\ t7 \in Nat /\ C4 \subseteq Pairs
      BY <1>1, <1>2, <1>8
    <3> QED
      BY <2>1, <3>1, WayTakeOrFree
  <2> QED
    BY <1>2, <2>2 DEF x4, x5
<1>25. Way(Try, x5, x5, Pairs, r)
  BY <1>2, <1>8, KemWays DEF x5
<1>26. Way(Give(p), x5, x4, Pairs, r)
  <2>1. p \in Nat /\ t8 \in Nat /\ p <= t8 /\ C4 \subseteq Pairs /\ t7 = t8 - p
    BY <1>1, <1>2, <1>3, <1>8
  <2>2. Way(Give(p), Shifted(C4, t8), Shifted(C4, t8 - p), Pairs, r)
    BY <2>1, KemWays
  <2> QED
    BY <2>1, <2>2 DEF x5, x4
<1>27. Way(Try, x4, x4, Pairs, r)
  BY <1>2, <1>8, KemWays DEF x4
<1>28. Way(Give(v), x4, y6, Pairs, r)
  <2>1. v \in Nat /\ t7 \in Nat /\ v <= t7 /\ C4 \subseteq Pairs /\ g6 = t7 - v
    BY <1>1, <1>2, <1>3, <1>8
  <2>2. Way(Give(v), Shifted(C4, t7), Shifted(C4, t7 - v), Pairs, r)
    BY <2>1, KemWays
  <2> QED
    BY <2>1, <2>2 DEF x4, y6
<1>29. Way(Give(v), y6, y5, Pairs, r)
  <2>1. v \in Nat /\ g6 \in Nat /\ v <= g6 /\ C4 \subseteq Pairs /\ g5 = g6 - v
    BY <1>1, <1>2, <1>3, <1>8
  <2>2. Way(Give(v), Shifted(C4, g6), Shifted(C4, g6 - v), Pairs, r)
    BY <2>1, KemWays
  <2> QED
    BY <2>1, <2>2 DEF y6, y5
<1>30. Way(Give(p), y5, y4, Pairs, r)
  <2>1. p \in Nat /\ g5 \in Nat /\ p <= g5 /\ C4 \subseteq Pairs /\ g4 = g5 - p
    BY <1>1, <1>2, <1>3, <1>8
  <2>2. Way(Give(p), Shifted(C4, g5), Shifted(C4, g5 - p), Pairs, r)
    BY <2>1, KemWays
  <2> QED
    BY <2>1, <2>2 DEF y5, y4
<1>31. Way(Give(v), y4, y3, Pairs, r)
  <2>1. v \in Nat /\ g4 \in Nat /\ v <= g4 /\ C4 \subseteq Pairs /\ g3 = g4 - v
    BY <1>1, <1>2, <1>3, <1>8
  <2>2. Way(Give(v), Shifted(C4, g4), Shifted(C4, g4 - v), Pairs, r)
    BY <2>1, KemWays
  <2> QED
    BY <2>1, <2>2 DEF y4, y3
<1>32. Way(Give(v), y3, y2, Pairs, r)
  <2>1. v \in Nat /\ g3 \in Nat /\ v <= g3 /\ C4 \subseteq Pairs /\ g2 = g3 - v
    BY <1>1, <1>2, <1>3, <1>8
  <2>2. Way(Give(v), Shifted(C4, g3), Shifted(C4, g3 - v), Pairs, r)
    BY <2>1, KemWays
  <2> QED
    BY <2>1, <2>2 DEF y3, y2
<1>33. Way(Give(p), y2, y1, Pairs, r)
  <2>1. p \in Nat /\ g2 \in Nat /\ p <= g2 /\ C4 \subseteq Pairs /\ g1 = g2 - p
    BY <1>1, <1>2, <1>3, <1>8
  <2>2. Way(Give(p), Shifted(C4, g2), Shifted(C4, g2 - p), Pairs, r)
    BY <2>1, KemWays
  <2> QED
    BY <2>1, <2>2 DEF y2, y1
<1>34. Way(Give(p), y1, y0, Pairs, r)
  <2>1. p \in Nat /\ g1 \in Nat /\ p <= g1 /\ C4 \subseteq Pairs /\ g0 = g1 - p
    BY <1>1, <1>2, <1>3, <1>8
  <2>2. Way(Give(p), Shifted(C4, g1), Shifted(C4, g1 - p), Pairs, r)
    BY <2>1, KemWays
  <2> QED
    BY <2>1, <2>2 DEF y1, y0
<1> HIDE DEF s0, s1, s2, s3, s4, s5, s6, s7, x1, x2, x3, x4, x5, y0, y1, y2, y3, y4, y5, y6
<1> DEFINE part1 == TakeOrFree(v) \o TakeOrFree(v)
           part2 == part1 \o TakeOrFree(p)
           part3 == part2 \o TakeOrFree(v)
           part4 == part3 \o TakeOrFree(v)
           part5 == part4 \o TakeOrFree(p)
           part6 == part5 \o TakeOrFree(p)
           part7 == part6 \o Try
           part8 == part7 \o cp_matrixAGen
           part9 == part8 \o cp_polyVecGen(c.eta1)
           part10 == part9 \o cp_polyVecGen(c.eta2)
           part11 == part10 \o cp_polyGen(c.eta2)
           part12 == part11 \o TakeOrFree(p)
           part13 == part12 \o Try
           part14 == part13 \o Give(p)
           part15 == part14 \o Try
           part16 == part15 \o Give(v)
           part17 == part16 \o Give(v)
           part18 == part17 \o Give(p)
           part19 == part18 \o Give(v)
           part20 == part19 \o Give(v)
           part21 == part20 \o Give(p)
           part22 == part21 \o Give(p)
<1>35. Way(part1, s0, s2, Pairs, r)
  BY <1>12, <1>13, WayJoined
<1>36. Way(part2, s0, s3, Pairs, r)
  BY <1>35, <1>14, WayJoined
<1>37. Way(part3, s0, s4, Pairs, r)
  BY <1>36, <1>15, WayJoined
<1>38. Way(part4, s0, s5, Pairs, r)
  BY <1>37, <1>16, WayJoined
<1>39. Way(part5, s0, s6, Pairs, r)
  BY <1>38, <1>17, WayJoined
<1>40. Way(part6, s0, s7, Pairs, r)
  BY <1>39, <1>18, WayJoined
<1>41. Way(part7, s0, s7, Pairs, r)
  BY <1>40, <1>19, WayJoined
<1>42. Way(part8, s0, x1, Pairs, r)
  BY <1>41, <1>20, WayJoined
<1>43. Way(part9, s0, x2, Pairs, r)
  BY <1>42, <1>21, WayJoined
<1>44. Way(part10, s0, x3, Pairs, r)
  BY <1>43, <1>22, WayJoined
<1>45. Way(part11, s0, x4, Pairs, r)
  BY <1>44, <1>23, WayJoined
<1>46. Way(part12, s0, x5, Pairs, r)
  BY <1>45, <1>24, WayJoined
<1>47. Way(part13, s0, x5, Pairs, r)
  BY <1>46, <1>25, WayJoined
<1>48. Way(part14, s0, x4, Pairs, r)
  BY <1>47, <1>26, WayJoined
<1>49. Way(part15, s0, x4, Pairs, r)
  BY <1>48, <1>27, WayJoined
<1>50. Way(part16, s0, y6, Pairs, r)
  BY <1>49, <1>28, WayJoined
<1>51. Way(part17, s0, y5, Pairs, r)
  BY <1>50, <1>29, WayJoined
<1>52. Way(part18, s0, y4, Pairs, r)
  BY <1>51, <1>30, WayJoined
<1>53. Way(part19, s0, y3, Pairs, r)
  BY <1>52, <1>31, WayJoined
<1>54. Way(part20, s0, y2, Pairs, r)
  BY <1>53, <1>32, WayJoined
<1>55. Way(part21, s0, y1, Pairs, r)
  BY <1>54, <1>33, WayJoined
<1>56. Way(part22, s0, y0, Pairs, r)
  BY <1>55, <1>34, WayJoined
<1>57. Way(cp_KPKE_Encrypt(c), s0, y0, Pairs, r)
  BY <1>56 DEF cp_KPKE_Encrypt, v, p
<1>58. s0 \subseteq s0 /\ y0 \subseteq Pairs
  BY <1>3, <1>8, KemWays DEF y0
<1>59. Way(cp_KPKE_Encrypt(c), s0, Pairs, Pairs, r)
  BY <1>57, <1>58, WayWidened
<1> QED
  BY <1>59 DEF s0, t0

\* Entries before an error leads to the end of a function.
LEMMA FreeWays ==
    ASSUME NEW C, C \subseteq Pairs, NEW r, Limits(r), r.all, NEW t \in Nat, NEW x
    PROVE  /\ \A n \in Nat : Within(C, t + n, r) =>
                 Way(TakeOrFree(n), Shifted(C, t), Shifted(C, t + n), x, r)
           /\ \A n \in Nat : n <= t => Way(Give(n), Shifted(C, t), Shifted(C, t - n), x, r)
           /\ Shifted(C, t) \subseteq x => Way(Try, Shifted(C, t), Shifted(C, t), x, r)
<1>1. Shifted(C, t) \subseteq x => Way(Try, Shifted(C, t), Shifted(C, t), x, r)
  BY ShiftedPairs, WayOthers
<1>2. ASSUME NEW n \in Nat, Within(C, t + n, r)
      PROVE  Way(TakeOrFree(n), Shifted(C, t), Shifted(C, t + n), x, r)
  <2>1. \A q \in C : \/ q[1] + t + n + r.skew <= r.room
                     \/ q[2] = 1 /\ q[1] + t + n > r.room /\ <<0, 1>> \in x
    <3> TAKE q \in C
    <3>1. q[1] \in Nat
      BY DEF Pairs
    <3>2. q[1] + (t + n) + r.skew <= r.room
      BY <1>2 DEF Within
    <3>3. r.skew \in Int /\ r.room \in Int
      BY DEF Limits
    <3> QED
      BY <3>1, <3>2, <3>3
  <2> QED
    BY <2>1, WayTakeOrFree
<1>3. \A n \in Nat : n <= t => Way(Give(n), Shifted(C, t), Shifted(C, t - n), x, r)
  BY WayGive
<1> QED
  BY <1>1, <1>2, <1>3

\* Nothing taken and no error dropped, and up to n bytes taken.
Clean == {<<0, 0>>}
Left(n) == {<<u, 0>> : u \in 0..n}

\* Nothing, and up to n bytes, taken without a dropped error.
LEMMA LeftHeld ==
    ASSUME NEW n \in Nat
    PROVE  /\ Clean \subseteq Pairs /\ Left(n) \subseteq Pairs
           /\ \A t \in 0..n : Shifted(Clean, t) \subseteq Left(n)
           /\ Shifted(Left(n), 0) = Left(n)
           /\ \A r, t : Limits(r) /\ t \in Int /\ t + r.skew <= r.room => Within(Clean, t, r)
           /\ \A r, t : Limits(r) /\ t \in Int /\ n + t + r.skew <= r.room => Within(Left(n), t, r)
<1>1. Clean \subseteq Pairs
  BY DEF Clean, Pairs
<1>2. Left(n) \subseteq Pairs
  BY DEF Left, Pairs
<1>3. ASSUME NEW t \in 0..n PROVE Shifted(Clean, t) \subseteq Left(n)
  <2>1. Shifted(Clean, t) = {<<t, 0>>}
    BY TakenIs DEF Taken, Clean
  <2> QED
    BY <2>1 DEF Left
<1>4. Shifted(Left(n), 0) = Left(n)
  <2>1. ASSUME NEW q \in Left(n) PROVE <<q[1] + 0, q[2]>> = q
    <3>1. PICK u \in 0..n : q = <<u, 0>>
      BY <2>1 DEF Left
    <3> QED
      BY <3>1
  <2> QED
    BY <2>1 DEF Shifted
<1>5. ASSUME NEW r, NEW t \in Int, Limits(r), t + r.skew <= r.room PROVE Within(Clean, t, r)
  BY <1>5 DEF Within, Clean, Limits
<1>6. ASSUME NEW r, NEW t \in Int, Limits(r), n + t + r.skew <= r.room PROVE Within(Left(n), t, r)
  <2>1. ASSUME NEW q \in Left(n) PROVE q[1] + t + r.skew <= r.room
    <3>1. PICK u \in 0..n : q = <<u, 0>>
      BY <2>1 DEF Left
    <3>2. r.skew \in Int /\ r.room \in Int
      BY <1>6 DEF Limits
    <3>3. u + t + r.skew <= r.room
      BY <1>6, <3>2
    <3> QED
      BY <3>1, <3>3
  <2> QED
    BY <2>1 DEF Within
<1> QED
  BY <1>1, <1>2, <1>3, <1>4, <1>5, <1>6

\* Where nothing is lost to alignment the last block fits or does not.
LEMMA LastDropped ==
    ASSUME NEW C, C \subseteq Pairs, NEW n \in Nat, NEW t \in Int, NEW r, Limits(r), r.skew = 0,
           LastFits(C, t, r)
    PROVE  Dropped(C, n) \subseteq Pairs /\ LastFits(Dropped(C, n), t, r)
<1>1. ASSUME NEW q \in Dropped(C, n)
      PROVE  \/ q[1] + t + r.skew <= r.room
             \/ q[2] = 1 /\ q[1] + t > r.room
  <2>1. CASE q \in C
    BY <2>1 DEF LastFits
  <2>2. CASE q \notin C
    <3>1. q[1] \in Int /\ q[2] = 1
      <4>1. PICK k \in C : k[1] \in Nat /\ q[1] = k[1] + n /\ q[2] = 1
        BY <2>2, DroppedPairs
      <4> QED
        BY <4>1
    <3>2. r.room \in Int
      BY DEF Limits
    <3> QED
      BY <3>1, <3>2
  <2> QED
    BY <2>1, <2>2
<1> QED
  BY <1>1, DroppedPairs DEF LastFits

\* Where there is room for t bytes more, they fit.
LEMMA LastWithin ==
    ASSUME NEW C, NEW t, NEW r, Within(C, t, r)
    PROVE  LastFits(C, t, r)
BY DEF Within, LastFits

\* Decryption, after which the call goes on whatever was left taken.
LEMMA DecryptCounted ==
    ASSUME NEW c \in KemParams, NEW r, Limits(r), r.all, NEW left \in Nat,
           left = (2 * c.k + 2) * 512 + 32, left + 520 + r.skew <= r.room
    PROVE  Way(To(cp_KPKE_Decrypt(c)), Shifted(Clean, 0), Left(left), Pairs, r)
<1> DEFINE v == Polys(c, c.k)
           p == Polys(c, 1)
           x == Left(left)
           t0 == 0
           t1 == t0 + v
           t2 == t1 + p
           t3 == t2 + v
           t4 == t3 + p
           t5 == t4 + p
           g3 == t4 - v
           g2 == g3 - p
           g1 == g2 - v
           g0 == g1 - p
           s0 == Shifted(Clean, t0)
           s1 == Shifted(Clean, t1)
           s2 == Shifted(Clean, t2)
           s3 == Shifted(Clean, t3)
           s4 == Shifted(Clean, t4)
           s5 == Shifted(Clean, t5)
           y3 == Shifted(Clean, g3)
           y2 == Shifted(Clean, g2)
           y1 == Shifted(Clean, g1)
           y0 == Shifted(Clean, g0)
<1>1. v \in Nat /\ p \in Nat /\ v = c.k * 512 + 8 /\ p = 520 /\ c.k \in Nat
  BY KemSizes
<1>2. r.room \in Int /\ r.skew \in Int /\ r.skew >= 0
  BY DEF Limits
<1>3. left = v + p + v + p
  BY <1>1
<1> HIDE DEF v, p
<1>4. /\ t0 \in Nat /\ t1 \in Nat /\ t2 \in Nat /\ t3 \in Nat /\ t4 \in Nat /\ t5 \in Nat
      /\ t1 = t0 + v /\ t2 = t1 + p /\ t3 = t2 + v /\ t4 = t3 + p /\ t5 = t4 + p
      /\ g0 \in 0..left /\ g1 \in Nat /\ g2 \in Nat /\ g3 \in Nat /\ t4 = left /\ t4 = t5 - p
      /\ g3 = t4 - v /\ g2 = g3 - p /\ g1 = g2 - v /\ g0 = g1 - p
      /\ v <= t4 /\ p <= g3 /\ v <= g2 /\ p <= g1 /\ p <= t5 /\ t0 = 0 /\ t5 = left + 520
  <2>1. t0 = 0 /\ t1 = v /\ t2 = v + p /\ t3 = v + p + v /\ t4 = v + p + v + p /\ t5 = t4 + p
    BY <1>1
  <2>2. /\ t1 = t0 + v /\ t2 = t1 + p /\ t3 = t2 + v /\ t4 = t3 + p
        /\ g3 = t4 - v /\ g2 = g3 - p /\ g1 = g2 - v /\ g0 = g1 - p
    OBVIOUS
  <2> HIDE DEF t0, t1, t2, t3, t4, t5, g0, g1, g2, g3
  <2>3. g3 = p + v + p /\ g2 = v + p /\ g1 = p
    <3>1. v \in Int /\ p \in Int
      BY <1>1
    <3>2. g3 = p + v + p
      BY <2>1, <2>2, <3>1
    <3>3. g2 = v + p
      BY <2>2, <3>1, <3>2
    <3>4. g1 = p
      BY <2>2, <3>1, <3>3
    <3> QED
      BY <3>2, <3>3, <3>4
  <2>4. g0 = 0
    BY <1>1, <2>2, <2>3
  <2>5. t0 \in Nat /\ t1 \in Nat /\ t2 \in Nat /\ t3 \in Nat /\ t4 \in Nat /\ t5 \in Nat
    BY <1>1, <2>1
  <2>6. t4 = left /\ g0 \in 0..left /\ g1 \in Nat /\ g2 \in Nat /\ g3 \in Nat
    BY <1>1, <1>3, <2>1, <2>3, <2>4
  <2>7. t4 = t5 - p /\ v <= t4 /\ p <= g3 /\ v <= g2 /\ p <= g1 /\ p <= t5
    BY <1>1, <2>1, <2>3, <2>5
  <2> QED
    BY <1>1, <2>1, <2>2, <2>5, <2>6, <2>7
<1> HIDE DEF t0, t1, t2, t3, t4, t5, g0, g1, g2, g3
<1>5. Clean \subseteq Pairs /\ \A t \in 0..left : Shifted(Clean, t) \subseteq x
  BY LeftHeld
<1>6. /\ Within(Clean, t1, r) /\ Within(Clean, t2, r) /\ Within(Clean, t3, r) /\ Within(Clean, t4, r)
      /\ Within(Clean, t5, r)
  <2>1. Within(Clean, t5, r)
    <3>1. t5 \in Int /\ t5 + r.skew <= r.room
      BY <1>2, <1>4
    <3> QED
      BY <3>1, LeftHeld
  <2>2. t1 <= t5 /\ t2 <= t5 /\ t3 <= t5 /\ t4 <= t5
    <3>1. t4 <= t5 /\ t3 <= t4 /\ t2 <= t3 /\ t1 <= t2
      <4>1. v \in Nat /\ p \in Nat
        BY <1>1
      <4>2. /\ t1 \in Nat /\ t2 \in Nat /\ t3 \in Nat /\ t4 \in Nat
            /\ t2 = t1 + p /\ t3 = t2 + v /\ t4 = t3 + p /\ t5 = t4 + p
        BY <1>4
      <4> QED
        BY <4>1, <4>2
    <3> QED
      BY <1>4, <3>1
  <2> QED
    BY <1>4, <1>5, <2>1, <2>2, WithinLess
<1> HIDE DEF x
<1>7. Way(TakeOrFree(v), s0, s1, x, r)
  <2>1. Within(Clean, t0 + v, r) /\ v \in Nat /\ t0 \in Nat /\ Clean \subseteq Pairs
    BY <1>1, <1>4, <1>5, <1>6
  <2>2. Way(TakeOrFree(v), Shifted(Clean, t0), Shifted(Clean, t0 + v), x, r)
    BY <2>1, FreeWays
  <2> QED
    BY <1>4, <2>2 DEF s0, s1
<1>8. Way(TakeOrFree(p), s1, s2, x, r)
  <2>1. Within(Clean, t1 + p, r) /\ p \in Nat /\ t1 \in Nat /\ Clean \subseteq Pairs
    BY <1>1, <1>4, <1>5, <1>6
  <2>2. Way(TakeOrFree(p), Shifted(Clean, t1), Shifted(Clean, t1 + p), x, r)
    BY <2>1, FreeWays
  <2> QED
    BY <1>4, <2>2 DEF s1, s2
<1>9. Way(TakeOrFree(v), s2, s3, x, r)
  <2>1. Within(Clean, t2 + v, r) /\ v \in Nat /\ t2 \in Nat /\ Clean \subseteq Pairs
    BY <1>1, <1>4, <1>5, <1>6
  <2>2. Way(TakeOrFree(v), Shifted(Clean, t2), Shifted(Clean, t2 + v), x, r)
    BY <2>1, FreeWays
  <2> QED
    BY <1>4, <2>2 DEF s2, s3
<1>10. Way(TakeOrFree(p), s3, s4, x, r)
  <2>1. Within(Clean, t3 + p, r) /\ p \in Nat /\ t3 \in Nat /\ Clean \subseteq Pairs
    BY <1>1, <1>4, <1>5, <1>6
  <2>2. Way(TakeOrFree(p), Shifted(Clean, t3), Shifted(Clean, t3 + p), x, r)
    BY <2>1, FreeWays
  <2> QED
    BY <1>4, <2>2 DEF s3, s4
<1>11. Way(Try, s4, s4, x, r)
  <2>1. t4 \in 0..left /\ t4 \in Nat
    BY <1>4
  <2>2. Shifted(Clean, t4) \subseteq x
    BY <1>5, <2>1
  <2> QED
    BY <1>5, <2>1, <2>2, FreeWays DEF s4
<1>12. Way(TakeOrFree(p), s4, s5, x, r)
  <2>1. Within(Clean, t4 + p, r) /\ p \in Nat /\ t4 \in Nat /\ Clean \subseteq Pairs
    BY <1>1, <1>4, <1>5, <1>6
  <2>2. Way(TakeOrFree(p), Shifted(Clean, t4), Shifted(Clean, t4 + p), x, r)
    BY <2>1, FreeWays
  <2> QED
    BY <1>4, <2>2 DEF s4, s5
<1>13. Way(Give(p), s5, s4, x, r)
  <2>1. p \in Nat /\ t5 \in Nat /\ p <= t5 /\ Clean \subseteq Pairs /\ t4 = t5 - p
    BY <1>1, <1>4, <1>5
  <2>2. Way(Give(p), Shifted(Clean, t5), Shifted(Clean, t5 - p), x, r)
    BY <2>1, FreeWays
  <2> QED
    BY <2>1, <2>2 DEF s5, s4
<1>14. Way(Try, s4, s4, x, r)
  <2>1. t4 \in 0..left /\ t4 \in Nat
    BY <1>4
  <2>2. Shifted(Clean, t4) \subseteq x
    BY <1>5, <2>1
  <2> QED
    BY <1>5, <2>1, <2>2, FreeWays DEF s4
<1>15. Way(Give(v), s4, y3, x, r)
  <2>1. v \in Nat /\ t4 \in Nat /\ v <= t4 /\ Clean \subseteq Pairs /\ g3 = t4 - v
    BY <1>1, <1>4, <1>5
  <2>2. Way(Give(v), Shifted(Clean, t4), Shifted(Clean, t4 - v), x, r)
    BY <2>1, FreeWays
  <2> QED
    BY <2>1, <2>2 DEF s4, y3
<1>16. Way(Give(p), y3, y2, x, r)
  <2>1. p \in Nat /\ g3 \in Nat /\ p <= g3 /\ Clean \subseteq Pairs /\ g2 = g3 - p
    BY <1>1, <1>4, <1>5
  <2>2. Way(Give(p), Shifted(Clean, g3), Shifted(Clean, g3 - p), x, r)
    BY <2>1, FreeWays
  <2> QED
    BY <2>1, <2>2 DEF y3, y2
<1>17. Way(Give(v), y2, y1, x, r)
  <2>1. v \in Nat /\ g2 \in Nat /\ v <= g2 /\ Clean \subseteq Pairs /\ g1 = g2 - v
    BY <1>1, <1>4, <1>5
  <2>2. Way(Give(v), Shifted(Clean, g2), Shifted(Clean, g2 - v), x, r)
    BY <2>1, FreeWays
  <2> QED
    BY <2>1, <2>2 DEF y2, y1
<1>18. Way(Give(p), y1, y0, x, r)
  <2>1. p \in Nat /\ g1 \in Nat /\ p <= g1 /\ Clean \subseteq Pairs /\ g0 = g1 - p
    BY <1>1, <1>4, <1>5
  <2>2. Way(Give(p), Shifted(Clean, g1), Shifted(Clean, g1 - p), x, r)
    BY <2>1, FreeWays
  <2> QED
    BY <2>1, <2>2 DEF y1, y0
<1> HIDE DEF s0, s1, s2, s3, s4, s5, y0, y1, y2, y3
<1> DEFINE part1 == TakeOrFree(v) \o TakeOrFree(p)
           part2 == part1 \o TakeOrFree(v)
           part3 == part2 \o TakeOrFree(p)
           part4 == part3 \o Try
           part5 == part4 \o TakeOrFree(p)
           part6 == part5 \o Give(p)
           part7 == part6 \o Try
           part8 == part7 \o Give(v)
           part9 == part8 \o Give(p)
           part10 == part9 \o Give(v)
           part11 == part10 \o Give(p)
<1>19. Way(part1, s0, s2, x, r)
  BY <1>7, <1>8, WayJoined
<1>20. Way(part2, s0, s3, x, r)
  BY <1>19, <1>9, WayJoined
<1>21. Way(part3, s0, s4, x, r)
  BY <1>20, <1>10, WayJoined
<1>22. Way(part4, s0, s4, x, r)
  BY <1>21, <1>11, WayJoined
<1>23. Way(part5, s0, s5, x, r)
  BY <1>22, <1>12, WayJoined
<1>24. Way(part6, s0, s4, x, r)
  BY <1>23, <1>13, WayJoined
<1>25. Way(part7, s0, s4, x, r)
  BY <1>24, <1>14, WayJoined
<1>26. Way(part8, s0, y3, x, r)
  BY <1>25, <1>15, WayJoined
<1>27. Way(part9, s0, y2, x, r)
  BY <1>26, <1>16, WayJoined
<1>28. Way(part10, s0, y1, x, r)
  BY <1>27, <1>17, WayJoined
<1>29. Way(part11, s0, y0, x, r)
  BY <1>28, <1>18, WayJoined
<1>30. Way(cp_KPKE_Decrypt(c), s0, y0, x, r)
  BY <1>29 DEF cp_KPKE_Decrypt, v, p
<1>31. s0 \subseteq s0 /\ y0 \subseteq x
  BY <1>4, <1>5 DEF y0
<1>32. Way(cp_KPKE_Decrypt(c), s0, x, x, r)
  BY <1>30, <1>31, WayWidened
<1>33. Way(To(cp_KPKE_Decrypt(c)), s0, x, Pairs, r)
  BY <1>32, WayTo
<1> QED
  BY <1>33, <1>4 DEF s0, x

\* What the samplers of an encapsulation may leave taken.
LEMMA LeakedSums ==
    ASSUME NEW l1 \in Nat, NEW l2 \in Nat, NEW l3 \in Nat
    PROVE  \A q \in Dropped(Dropped(Dropped(Dropped(Clean, l1), l2), l3), l3) :
              \/ q[1] = 0
              \/ /\ q[2] = 1
                 /\ \/ q[1] = l1 \/ q[1] = l2 \/ q[1] = l1 + l2 \/ q[1] = l3
                    \/ q[1] = l1 + l3 \/ q[1] = l2 + l3 \/ q[1] = l1 + l2 + l3
                    \/ q[1] = l3 + l3 \/ q[1] = l1 + l3 + l3 \/ q[1] = l2 + l3 + l3
                    \/ q[1] = l1 + l2 + l3 + l3
<1> DEFINE C1 == Dropped(Clean, l1)
           C2 == Dropped(C1, l2)
           C3 == Dropped(C2, l3)
           C4 == Dropped(C3, l3)
<1>1. Clean \subseteq Pairs /\ \A q \in Clean : q[1] = 0
  BY DEF Clean, Pairs
<1>2. C1 \subseteq Pairs /\ \A q \in C1 : q[1] = 0 \/ (q[2] = 1 /\ q[1] = l1)
  <2>1. /\ C1 \subseteq Pairs
        /\ \A q \in C1 : q \in Clean \/ \E k \in Clean : k[1] \in Nat /\ q[1] = k[1] + l1 /\ q[2] = 1
    BY <1>1, DroppedPairs
  <2> HIDE DEF C1
  <2> QED
    BY <1>1, <2>1
<1> HIDE DEF C1
<1>3. C2 \subseteq Pairs
      /\ \A q \in C2 : q[1] = 0 \/ (q[2] = 1 /\ (q[1] = l1 \/ q[1] = l2 \/ q[1] = l1 + l2))
  <2>1. /\ C2 \subseteq Pairs
        /\ \A q \in C2 : q \in C1 \/ \E k \in C1 : k[1] \in Nat /\ q[1] = k[1] + l2 /\ q[2] = 1
    BY <1>2, DroppedPairs
  <2> HIDE DEF C2
  <2> QED
    BY <1>2, <2>1
<1> HIDE DEF C2
<1>4. C3 \subseteq Pairs
      /\ \A q \in C3 :
              \/ q[1] = 0
              \/ /\ q[2] = 1
                 /\ \/ q[1] = l1 \/ q[1] = l2 \/ q[1] = l1 + l2 \/ q[1] = l3
                    \/ q[1] = l1 + l3 \/ q[1] = l2 + l3 \/ q[1] = l1 + l2 + l3
  <2>1. /\ C3 \subseteq Pairs
        /\ \A q \in C3 : q \in C2 \/ \E k \in C2 : k[1] \in Nat /\ q[1] = k[1] + l3 /\ q[2] = 1
    BY <1>3, DroppedPairs
  <2> HIDE DEF C3
  <2> QED
    BY <1>3, <2>1
<1> HIDE DEF C3
<1>5. ASSUME NEW q \in C4
      PROVE   \/ q[1] = 0
              \/ /\ q[2] = 1
                 /\ \/ q[1] = l1 \/ q[1] = l2 \/ q[1] = l1 + l2 \/ q[1] = l3
                    \/ q[1] = l1 + l3 \/ q[1] = l2 + l3 \/ q[1] = l1 + l2 + l3
                    \/ q[1] = l3 + l3 \/ q[1] = l1 + l3 + l3 \/ q[1] = l2 + l3 + l3
                    \/ q[1] = l1 + l2 + l3 + l3
  <2>1. q \in C3 \/ \E k \in C3 : k[1] \in Nat /\ q[1] = k[1] + l3 /\ q[2] = 1
    BY <1>4, <1>5, DroppedPairs
  <2> HIDE DEF C4
  <2> QED
    BY <1>4, <2>1
<1> QED
  BY <1>5 DEF C1, C2, C3

\* The bytes the sizes count for ML-KEM.
KeyGenRoom(c) == c.eta1 * 64 + (3 * c.k + 1) * 512 + Shake256 + 40
EncapsRoom(c) == (4 * c.k + 4) * 512 + c.eta1 * 64 + Shake256 + 72
DecapsRoom(c) == Shake256 + (3 + 2 * c.k) * 512 + CipherTextBytes(c) + EncapsRoom(c) + 24

\* They are the capacities Init stores.
LEMMA KemCapacities ==
    ASSUME NEW c \in KemParams
    PROVE  /\ Capacities(c, 0)["MLKEM_KeyGen"] = KeyGenRoom(c)
           /\ Capacities(c, 0)["MLKEM_Encaps"] = EncapsRoom(c)
           /\ Capacities(c, 0)["MLKEM_Decaps"] = DecapsRoom(c)
<1> DEFINE m == mlkemMemoryConsumption(c)
<1>1. c.family = "kem"
  BY KemNumbers
<1>2. Greater(Shake256, Sha3_512) = Shake256
  BY KemSizes DEF Greater
<1>3. Poly(c) = 512 /\ Align = 8
  BY KemSizes
<1>4. m.keygen = KeyGenRoom(c)
  BY <1>3 DEF mlkemMemoryConsumption, KeyGenRoom
<1>5. m.encaps = EncapsRoom(c)
  BY <1>3, KemSizes DEF mlkemMemoryConsumption, EncapsRoom
<1>6. m.decaps = Greater(Shake256, Sha3_512) + (3 + 2 * c.k) * Poly(c)
                   + CipherTextBytes(c) + EncapsRoom(c) + 3 * Align
  BY <1>5 DEF mlkemMemoryConsumption
<1>7. m.decaps = DecapsRoom(c)
  BY <1>2, <1>3, <1>6 DEF DecapsRoom
<1>8. Capacities(c, 0) = [f \in KemCalls |-> CASE f = "MLKEM_KeyGen" -> m.keygen
                                                [] f = "MLKEM_Encaps" -> m.encaps
                                                [] f = "MLKEM_Decaps" -> m.decaps]
  BY <1>1 DEF Capacities
<1> HIDE DEF m
<1> QED
  BY <1>4, <1>5, <1>7, <1>8 DEF KemCalls

\* Encapsulation: what EncapsRoom counts, less what is lost to alignment.
LEMMA EncapsCounted ==
    ASSUME NEW c \in KemParams, NEW r, Limits(r), r.all, r.room = EncapsRoom(c), r.skew <= 7
    PROVE  Way(Try \o cp_KPKE_Encrypt(c), Shifted(Clean, 0), Pairs, Pairs, r)
<1> DEFINE l1 == Shake128 + Align
           l2 == c.eta1 * 64 + Align
           l3 == c.eta2 * 64 + Align
           C4 == Dropped(Dropped(Dropped(Dropped(Clean, l1), l2), l3), l3)
           blocks == (4 * c.k + 3) * 512 + 56
           H1 == HashStateBytes
<1>1. /\ H1 \in Nat /\ l1 = H1 + 384 /\ l2 = c.eta1 * 64 + 8 /\ l3 = 136 /\ c.eta1 \in {2, 3}
      /\ c.k \in Nat /\ Shake256 = H1 + 344 /\ Shake128 = H1 + 376
  BY KemSizes
<1>2. r.room = blocks + c.eta1 * 64 + H1 + 872 /\ r.skew \in 0..7 /\ blocks \in Nat
  BY <1>1 DEF EncapsRoom, Limits
<1>3. l1 \in Nat /\ l2 \in Nat /\ l3 \in Nat
  BY <1>1
<1>4. Clean \subseteq Pairs
  BY LeftHeld
<1> HIDE DEF l1, l2, l3, blocks, H1
<1>5. Within(Clean, 0 + blocks + (Shake128 + c.eta1 * 64 + 2 * 136 + 16), r)
  <2> DEFINE t == 0 + blocks + (Shake128 + c.eta1 * 64 + 2 * 136 + 16)
  <2>1. t \in Int /\ t + r.skew <= r.room
    BY <1>1, <1>2
  <2> HIDE DEF t
  <2>2. Within(Clean, t, r)
    BY <2>1, LeftHeld
  <2> QED
    BY <2>2 DEF t
<1>6. \A q \in C4 :
              \/ q[1] = 0
              \/ /\ q[2] = 1
                 /\ \/ q[1] = l1 \/ q[1] = l2 \/ q[1] = l1 + l2 \/ q[1] = l3
                    \/ q[1] = l1 + l3 \/ q[1] = l2 + l3 \/ q[1] = l1 + l2 + l3
                    \/ q[1] = l3 + l3 \/ q[1] = l1 + l3 + l3 \/ q[1] = l2 + l3 + l3
                    \/ q[1] = l1 + l2 + l3 + l3
  BY <1>3, LeakedSums
<1> HIDE DEF C4
<1>7. LastFits(C4, 0 + blocks + 520, r)
  <2>1. ASSUME NEW n \in Int,
                 \/ n = l1 \/ n = l2 \/ n = l1 + l2 \/ n = l3
                 \/ n = l1 + l3 \/ n = l2 + l3 \/ n = l1 + l2 + l3
                 \/ n = l3 + l3 \/ n = l1 + l3 + l3 \/ n = l2 + l3 + l3
                 \/ n = l1 + l2 + l3 + l3
        PROVE  n + (0 + blocks + 520) + r.skew <= r.room \/ n + (0 + blocks + 520) > r.room
    <3>1. CASE c.eta1 = 2
      BY <1>1, <1>2, <2>1, <3>1
    <3>2. CASE c.eta1 = 3
      BY <1>1, <1>2, <2>1, <3>2
    <3> QED
      BY <1>1, <3>1, <3>2
  <2>2. 0 + (0 + blocks + 520) + r.skew <= r.room
    BY <1>1, <1>2
  <2>3. ASSUME NEW q \in C4
        PROVE  \/ q[1] + (0 + blocks + 520) + r.skew <= r.room
               \/ q[2] = 1 /\ q[1] + (0 + blocks + 520) > r.room
    <3>1. q[1] = 0 \/ (q[1] \in Int /\ q[2] = 1)
      BY <1>3, <1>6
    <3>2. CASE q[1] = 0
      BY <2>2, <3>2
    <3>3. CASE q[1] # 0
      <4>1. q[1] \in Int /\ q[2] = 1
        BY <3>1, <3>3
      <4>2. q[1] + (0 + blocks + 520) + r.skew <= r.room \/ q[1] + (0 + blocks + 520) > r.room
        BY <1>6, <2>1, <3>3, <4>1
      <4> QED
        BY <4>1, <4>2
    <3> QED
      BY <3>2, <3>3
  <2> QED
    BY <2>3 DEF LastFits
<1>8. Leaked(Clean, c) = C4
  BY DEF Leaked, C4, l1, l2, l3
<1>9. Way(cp_KPKE_Encrypt(c), Shifted(Clean, 0), Pairs, Pairs, r)
  BY <1>4, <1>5, <1>7, <1>8, EncryptCounted DEF blocks
<1>10. Way(Try, Shifted(Clean, 0), Shifted(Clean, 0), Pairs, r)
  BY <1>4, KemWays
<1> QED
  BY <1>9, <1>10, WayJoined

\* Decapsulation: decryption may have left its blocks taken.
LEMMA DecapsCounted ==
    ASSUME NEW c \in KemParams, NEW r, Limits(r), r.all, r.room = DecapsRoom(c), r.skew = 0
    PROVE  Way(cp_MLKEMdecaps_internal(c), Shifted(Clean, 0), Pairs, Pairs, r)
<1> DEFINE left == (2 * c.k + 2) * 512 + 32
           h1 == Shake256 + Align
           h2 == CipherTextBytes(c) + Align
           C == Left(left)
           u0 == 0
           u1 == u0 + h1
           u2 == u1 + h2
           blocks == (4 * c.k + 3) * 512 + 56
           l1 == Shake128 + Align
           l2 == c.eta1 * 64 + Align
           l3 == c.eta2 * 64 + Align
           C1 == Dropped(C, l1)
           C2 == Dropped(C1, l2)
           C3 == Dropped(C2, l3)
           a == Shifted(Clean, 0)
           s0 == Shifted(C, u0)
           s1 == Shifted(C, u1)
           s2 == Shifted(C, u2)
           most == Shake128 + c.eta1 * 64 + 2 * 136 + 16
<1>1. /\ c.k \in Nat /\ c.eta1 \in {2, 3} /\ CipherTextBytes(c) \in Nat /\ HashStateBytes \in Nat
      /\ Shake128 = HashStateBytes + 376 /\ Shake256 = HashStateBytes + 344
      /\ l1 \in Nat /\ l2 \in Nat /\ l3 \in Nat /\ Align = 8
  BY KemSizes
<1>2. /\ left \in Nat /\ u0 \in Nat /\ u1 \in Nat /\ u2 \in Nat /\ h1 \in Nat /\ h2 \in Nat
      /\ u1 = u0 + h1 /\ u2 = u1 + h2 /\ blocks \in Nat /\ most \in Nat /\ u0 = 0
      /\ u2 = h1 + h2
  BY <1>1
<1>3. r.room = left + u2 + blocks + (512 + c.eta1 * 64 + Shake256 + 16) + 488
  <2>1. r.room = Shake256 + (3 + 2 * c.k) * 512 + CipherTextBytes(c)
                 + ((4 * c.k + 4) * 512 + c.eta1 * 64 + Shake256 + 72) + 24
    BY DEF DecapsRoom, EncapsRoom
  <2> QED
    BY <1>1, <2>1
<1>4. /\ left + (u2 + blocks + most) <= r.room /\ left + (u2 + blocks + 520) <= r.room
      /\ left + u2 <= r.room /\ left + u1 <= r.room /\ left + 520 <= r.room
  <2> HIDE DEF left, u2, u1, blocks
  <2>1. left + (u2 + blocks + most) <= r.room /\ left + (u2 + blocks + 520) <= r.room
    BY <1>1, <1>2, <1>3
  <2>2. left + u2 <= r.room /\ left + 520 <= r.room
    BY <1>1, <1>2, <1>3
  <2>3. u1 <= u2
    BY <1>2
  <2>4. r.room \in Int
    BY DEF Limits
  <2> QED
    BY <1>2, <2>1, <2>2, <2>3, <2>4
<1>5. C \subseteq Pairs /\ Shifted(C, 0) = C
  BY <1>2, LeftHeld
<1>6. /\ Within(C, u1, r) /\ Within(C, u2, r) /\ Within(C, u2 + blocks + most, r)
      /\ Within(C, u2 + blocks + 520, r)
  <2>1. \A t \in Int : left + t <= r.room => Within(C, t, r)
    <3> TAKE t \in Int
    <3>1. r.room \in Int /\ r.skew \in Int
      BY DEF Limits
    <3>2. left + t <= r.room => left + t + r.skew <= r.room
      BY <1>2, <3>1
    <3> QED
      BY <1>2, <3>2, LeftHeld
  <2> HIDE DEF C, left, u1, u2, blocks, most
  <2>2. u1 \in Int /\ u2 \in Int /\ u2 + blocks + most \in Int /\ u2 + blocks + 520 \in Int
    BY <1>2
  <2> QED
    BY <1>4, <2>1, <2>2
<1>7. Way(To(cp_KPKE_Decrypt(c)), a, s0, Pairs, r)
  <2>1. left + 520 + r.skew <= r.room
    BY <1>2, <1>4 DEF Limits
  <2>2. Way(To(cp_KPKE_Decrypt(c)), Shifted(Clean, 0), Left(left), Pairs, r)
    BY <1>2, <2>1, DecryptCounted
  <2> QED
    BY <1>5, <2>2
<1> HIDE DEF left, h1, h2, C, u0, u1, u2, blocks, l1, l2, l3, C1, C2, C3, most, a
<1>8. LastFits(Leaked(C, c), u2 + blocks + 520, r)
  <2> DEFINE t == u2 + blocks + 520
  <2>1. t \in Int
    BY <1>2
  <2>2. LastFits(C, t, r)
    BY <1>6, LastWithin
  <2> HIDE DEF t
  <2>3. C1 \subseteq Pairs /\ LastFits(C1, t, r)
    BY <1>1, <1>5, <2>1, <2>2, LastDropped DEF C1
  <2>4. C2 \subseteq Pairs /\ LastFits(C2, t, r)
    BY <1>1, <2>1, <2>3, LastDropped DEF C2
  <2>5. C3 \subseteq Pairs /\ LastFits(C3, t, r)
    BY <1>1, <2>1, <2>4, LastDropped DEF C3
  <2>6. LastFits(Dropped(C3, l3), t, r)
    BY <1>1, <2>1, <2>5, LastDropped
  <2> QED
    BY <2>6 DEF t, Leaked, C1, C2, C3, l1, l2, l3
<1>9. Way(cp_KPKE_Encrypt(c), s2, Pairs, Pairs, r)
  BY <1>2, <1>5, <1>6, <1>8, EncryptCounted DEF blocks, most
<1>10. Way(Try, s0, s0, Pairs, r) /\ Way(Try, s1, s1, Pairs, r)
  BY <1>2, <1>5, KemWays
<1>11. Way(Take(<<h1>>), s0, s1, Pairs, r)
  <2>1. Within(C, u0 + h1, r) /\ h1 \in Nat /\ u0 \in Nat
    BY <1>2, <1>6
  <2>2. Way(Take(<<h1>>), Shifted(C, u0), Shifted(C, u0 + h1), Pairs, r)
    BY <1>5, <2>1, KemWays
  <2> QED
    BY <1>2, <2>2
<1>12. Way(Take(<<h2>>), s1, s2, Pairs, r)
  <2>1. Within(C, u1 + h2, r) /\ h2 \in Nat /\ u1 \in Nat
    BY <1>2, <1>6
  <2>2. Way(Take(<<h2>>), Shifted(C, u1), Shifted(C, u1 + h2), Pairs, r)
    BY <1>5, <2>1, KemWays
  <2> QED
    BY <1>2, <2>2
<1>13. Pairs \subseteq Pairs
  OBVIOUS
<1> DEFINE d == To(cp_KPKE_Decrypt(c)) \o Try \o Take(<<h1>>) \o Try \o Take(<<h2>>) \o cp_KPKE_Encrypt(c)
<1> HIDE DEF s0, s1, s2
<1> DEFINE part1 == To(cp_KPKE_Decrypt(c)) \o Try
           part2 == part1 \o Take(<<h1>>)
           part3 == part2 \o Try
           part4 == part3 \o Take(<<h2>>)
<1>14. Way(part1, a, s0, Pairs, r)
  BY <1>7, <1>10, WayJoined
<1>15. Way(part2, a, s1, Pairs, r)
  BY <1>11, <1>14, WayJoined
<1>16. Way(part3, a, s1, Pairs, r)
  BY <1>10, <1>15, WayJoined
<1>17. Way(part4, a, s2, Pairs, r)
  BY <1>12, <1>16, WayJoined
<1>18. Way(d, a, Pairs, Pairs, r)
  BY <1>9, <1>17, WayJoined
<1> HIDE DEF d
<1>19. Way(To(d), a, Pairs, Pairs, r)
  BY <1>13, <1>18, WayTo
<1>20. Way(GiveAll, Pairs, Pairs, Pairs, r)
  BY <1>13, WayOthers
<1>21. Way(To(d) \o GiveAll, a, Pairs, Pairs, r)
  BY <1>19, <1>20, WayJoined
<1> QED
  BY <1>21 DEF cp_MLKEMdecaps_internal, d, h1, h2, a

\* Key generation.
LEMMA KemKeyGenCounted ==
    ASSUME NEW c \in KemParams, NEW r, Limits(r), r.all, r.room = KeyGenRoom(c), r.skew = 0
    PROVE  Way(cp_KPKE_KeyGen(c) \o Try, Shifted(Clean, 0), Pairs, Pairs, r)
<1> DEFINE v == Polys(c, c.k)
           p == Polys(c, 1)
           l1 == Shake128 + Align
           l2 == c.eta1 * 64 + Align
           C1 == Dropped(Clean, l1)
           C2 == Dropped(C1, l2)
           C3 == Dropped(C2, l2)
           t0 == 0
           t1 == t0 + v
           t2 == t1 + v
           t3 == t2 + v
           t4 == t3 + p
           s0 == Shifted(Clean, t0)
           s1 == Shifted(Clean, t1)
           s2 == Shifted(Clean, t2)
           s3 == Shifted(Clean, t3)
           x1 == Shifted(C1, t3)
           x2 == Shifted(C2, t3)
           x3 == Shifted(C3, t3)
           x4 == Shifted(C3, t4)
<1>1. /\ v \in Nat /\ p \in Nat /\ l1 \in Nat /\ l2 \in Nat /\ p = 520 /\ c.k \in Nat
      /\ v = c.k * 512 + 8 /\ c.eta1 \in {2, 3} /\ HashStateBytes \in Nat
      /\ l1 = HashStateBytes + 384 /\ l2 = c.eta1 * 64 + 8 /\ Shake256 = HashStateBytes + 344
  BY KemSizes
<1>2. r.room = v + v + v + c.eta1 * 64 + 512 + HashStateBytes + 360
  BY <1>1 DEF KeyGenRoom
<1> HIDE DEF v, p, l1, l2, C1, C2, C3
<1>3. /\ t0 \in Nat /\ t1 \in Nat /\ t2 \in Nat /\ t3 \in Nat /\ t4 \in Nat
      /\ t1 = t0 + v /\ t2 = t1 + v /\ t3 = t2 + v /\ t4 = t3 + p /\ t3 = t4 - p /\ p <= t4 /\ t0 = 0
      /\ t3 = v + v + v
  BY <1>1
<1> HIDE DEF t0, t1, t2, t3, t4
<1>4. /\ t1 <= r.room /\ t2 <= r.room /\ t3 <= r.room /\ t4 <= r.room
      /\ t3 + l1 <= r.room /\ t3 + l2 + l1 <= r.room /\ t3 + l2 + l2 + l1 <= r.room
      /\ t3 + l1 \in Int /\ t3 + l2 \in Int /\ t3 + l2 + l1 \in Int /\ t3 + l2 + l2 \in Int
      /\ t3 + l2 + l2 + l1 \in Int
  <2>1. t3 <= r.room /\ t4 <= r.room /\ t3 + l1 <= r.room
    BY <1>1, <1>2, <1>3
  <2>2. t3 + l2 + l1 <= r.room /\ t3 + l2 + l2 + l1 <= r.room
    BY <1>1, <1>2, <1>3
  <2>3. t1 <= t3 /\ t2 <= t3
    BY <1>1, <1>3
  <2>4. /\ t3 + l1 \in Int /\ t3 + l2 \in Int /\ t3 + l2 + l1 \in Int /\ t3 + l2 + l2 \in Int
        /\ t3 + l2 + l2 + l1 \in Int
    BY <1>1, <1>3
  <2>5. r.room \in Int
    BY DEF Limits
  <2> QED
    BY <1>3, <2>1, <2>2, <2>3, <2>4, <2>5
<1>5. Clean \subseteq Pairs
  BY LeftHeld
<1>6. /\ Within(Clean, t1, r) /\ Within(Clean, t2, r) /\ Within(Clean, t3, r) /\ Within(Clean, t4, r)
      /\ Within(Clean, t3 + l1, r) /\ Within(Clean, t3 + l2 + l1, r)
      /\ Within(Clean, t3 + l2 + l2 + l1, r)
  <2>1. \A t \in Int : t <= r.room => Within(Clean, t, r)
    <3> TAKE t \in Int
    <3>1. r.room \in Int /\ (t <= r.room => t + r.skew <= r.room)
      BY DEF Limits
    <3> QED
      BY <3>1, LeftHeld
  <2> QED
    BY <1>3, <1>4, <2>1
<1>7. C1 \subseteq Pairs /\ Within(C1, t3 + l2, r) /\ Within(C1, t3 + l2 + l2, r)
  <2>1. C1 \subseteq Pairs /\ \A j \in Int : Within(Clean, j + l1, r) => Within(C1, j, r)
    <3>1. l1 \in Nat
      BY <1>1
    <3> QED
      BY <1>5, <3>1, DroppedPairs DEF C1
  <2> QED
    BY <1>4, <1>6, <2>1
<1>8. C2 \subseteq Pairs /\ Within(C2, t3 + l2, r)
  <2>1. C2 \subseteq Pairs /\ \A j \in Int : Within(C1, j + l2, r) => Within(C2, j, r)
    <3>1. l2 \in Nat /\ C1 \subseteq Pairs
      BY <1>1, <1>7
    <3> QED
      BY <3>1, DroppedPairs DEF C2
  <2> QED
    BY <1>4, <1>7, <2>1
<1>9. C3 \subseteq Pairs /\ LastFits(C3, t4, r)
  <2>1. LastFits(Clean, t4, r) /\ t4 \in Int
    BY <1>3, <1>6, LastWithin
  <2>2. LastFits(C1, t4, r)
    BY <1>1, <1>5, <2>1, LastDropped DEF C1
  <2>3. LastFits(C2, t4, r)
    BY <1>1, <1>7, <2>1, <2>2, LastDropped DEF C2
  <2> QED
    <3>1. l2 \in Nat /\ C2 \subseteq Pairs /\ t4 \in Int
      BY <1>1, <1>8, <2>1
    <3> QED
      BY <2>3, <3>1, LastDropped DEF C3

<1>10. Way(TakeOrFree(v), s0, s1, Pairs, r)
  <2>1. Within(Clean, t0 + v, r) /\ v \in Nat /\ t0 \in Nat
    BY <1>1, <1>3, <1>6
  <2>2. Way(TakeOrFree(v), Shifted(Clean, t0), Shifted(Clean, t0 + v), Pairs, r)
    BY <1>5, <2>1, KemWays
  <2> QED
    BY <1>3, <2>2 DEF s0, s1
<1>11. Way(TakeOrFree(v), s1, s2, Pairs, r)
  <2>1. Within(Clean, t1 + v, r) /\ v \in Nat /\ t1 \in Nat
    BY <1>1, <1>3, <1>6
  <2>2. Way(TakeOrFree(v), Shifted(Clean, t1), Shifted(Clean, t1 + v), Pairs, r)
    BY <1>5, <2>1, KemWays
  <2> QED
    BY <1>3, <2>2 DEF s1, s2
<1>12. Way(TakeOrFree(v), s2, s3, Pairs, r)
  <2>1. Within(Clean, t2 + v, r) /\ v \in Nat /\ t2 \in Nat
    BY <1>1, <1>3, <1>6
  <2>2. Way(TakeOrFree(v), Shifted(Clean, t2), Shifted(Clean, t2 + v), Pairs, r)
    BY <1>5, <2>1, KemWays
  <2> QED
    BY <1>3, <2>2 DEF s2, s3
<1>13. Way(Try, s3, s3, Pairs, r)
  BY <1>3, <1>5, KemWays DEF s3
<1>14. Way(cp_matrixAGen, s3, x1, Pairs, r)
  BY <1>3, <1>5, <1>6, KemSamplers DEF s3, x1, C1, l1
<1>15. Way(cp_polyVecGen(c.eta1), x1, x2, Pairs, r)
  BY <1>1, <1>3, <1>7, KemSamplers DEF x1, x2, C2, l2
<1>16. Way(Try, x2, x2, Pairs, r)
  BY <1>3, <1>8, KemWays DEF x2
<1>17. Way(cp_polyVecGen(c.eta1), x2, x3, Pairs, r)
  BY <1>1, <1>3, <1>8, KemSamplers DEF x2, x3, C3, l2
<1>18. Way(TakeOrFree(p), x3, x4, Pairs, r)
  <2>1. p \in Nat /\ t3 \in Nat /\ C3 \subseteq Pairs
    BY <1>1, <1>3, <1>9
  <2>2. \A q \in C3 :
           \/ q[1] + t3 + p + r.skew <= r.room
           \/ q[2] = 1 /\ q[1] + t3 + p > r.room /\ <<0, 1>> \in Pairs
    <3> TAKE q \in C3
    <3>1. \/ q[1] + t4 + r.skew <= r.room
          \/ q[2] = 1 /\ q[1] + t4 > r.room
      BY <1>9 DEF LastFits
    <3>2. q[1] \in Nat /\ <<0, 1>> \in Pairs
      BY <1>9 DEF Pairs
    <3>3. q[1] + t4 = q[1] + t3 + p
      BY <1>3, <2>1, <3>2
    <3> DEFINE n == q[1] + t4
    <3> HIDE DEF n
    <3>4. \/ n + r.skew <= r.room
          \/ q[2] = 1 /\ n > r.room
      BY <3>1 DEF n
    <3>5. q[1] + t3 + p = n
      BY <3>3 DEF n
    <3> QED
      BY <3>2, <3>4, <3>5
  <2>3. Way(TakeOrFree(p), Shifted(C3, t3), Shifted(C3, t3 + p), Pairs, r)
    BY <2>1, <2>2, WayTakeOrFree
  <2> QED
    BY <1>3, <2>3 DEF x3, x4
<1>19. Way(Give(p), x4, x3, Pairs, r)
  <2>1. p \in Nat /\ t4 \in Nat /\ p <= t4 /\ C3 \subseteq Pairs /\ t3 = t4 - p
    BY <1>1, <1>3, <1>9
  <2>2. Way(Give(p), Shifted(C3, t4), Shifted(C3, t4 - p), Pairs, r)
    BY <2>1, KemWays
  <2> QED
    BY <2>1, <2>2 DEF x3, x4
<1>20. Way(Try, x3, x3, Pairs, r)
  BY <1>3, <1>9, KemWays DEF x3
<1> HIDE DEF s0, s1, s2, s3, x1, x2, x3, x4
<1> DEFINE part1 == TakeOrFree(v) \o TakeOrFree(v)
           part2 == part1 \o TakeOrFree(v)
           part3 == part2 \o Try
           part4 == part3 \o cp_matrixAGen
           part5 == part4 \o cp_polyVecGen(c.eta1)
           part6 == part5 \o Try
           part7 == part6 \o cp_polyVecGen(c.eta1)
           part8 == part7 \o TakeOrFree(p)
           part9 == part8 \o Give(p)
           part10 == part9 \o Try
<1>21. Way(part1, s0, s2, Pairs, r)
  BY <1>10, <1>11, WayJoined
<1>22. Way(part2, s0, s3, Pairs, r)
  BY <1>21, <1>12, WayJoined
<1>23. Way(part3, s0, s3, Pairs, r)
  BY <1>22, <1>13, WayJoined
<1>24. Way(part4, s0, x1, Pairs, r)
  BY <1>23, <1>14, WayJoined
<1>25. Way(part5, s0, x2, Pairs, r)
  BY <1>24, <1>15, WayJoined
<1>26. Way(part6, s0, x2, Pairs, r)
  BY <1>25, <1>16, WayJoined
<1>27. Way(part7, s0, x3, Pairs, r)
  BY <1>26, <1>17, WayJoined
<1>28. Way(part8, s0, x4, Pairs, r)
  BY <1>27, <1>18, WayJoined
<1>29. Way(part9, s0, x3, Pairs, r)
  BY <1>28, <1>19, WayJoined
<1>30. Way(part10, s0, x3, Pairs, r)
  BY <1>29, <1>20, WayJoined
<1> DEFINE d == part10
<1>31. s0 \subseteq s0 /\ x3 \subseteq Pairs /\ Pairs \subseteq Pairs
  BY <1>3, <1>9, KemWays DEF x3
<1>32. Way(d, s0, Pairs, Pairs, r)
  BY <1>30, <1>31, WayWidened
<1>33. cp_KPKE_KeyGen(c) = To(d) \o GiveAll
  BY DEF cp_KPKE_KeyGen, v, p
<1> HIDE DEF d
<1>34. Way(To(d), s0, Pairs, Pairs, r)
  BY <1>31, <1>32, WayTo
<1>35. Way(GiveAll, Pairs, Pairs, Pairs, r) /\ Way(Try, Pairs, Pairs, Pairs, r)
  BY <1>31, WayOthers
<1>36. Way(To(d) \o GiveAll, s0, Pairs, Pairs, r)
  BY <1>34, <1>35, WayJoined
<1>37. Way(To(d) \o GiveAll \o Try, s0, Pairs, Pairs, r)
  BY <1>35, <1>36, WayJoined
<1> QED
  BY <1>33, <1>37, <1>3 DEF s0

\* The room a call needs.
RoomHeld(w, c, r) ==
    /\ w.api = "MLKEM_KeyGen" => r.room = KeyGenRoom(c)
    /\ w.api = "MLKEM_Encaps" => r.room = EncapsRoom(c)
    /\ w.api = "MLKEM_Decaps" => r.room = DecapsRoom(c)
    /\ w.api = "MLDSA_KeyGen" => KeygenBytes(c) <= r.room
    /\ w.api = "MLDSA_Sign" => \E max \in Nat : SignBytes(c, max) <= r.room /\ w.input <= 64 + 2 + 255 + max
    /\ w.api = "MLDSA_Verify" => \E max \in Nat : VerifyBytes(c, max) <= r.room /\ w.input <= 64 + 2 + 255 + max
    /\ w.api = "MLDSA_Verify_Mu" => VerifyBytes(c, 0) <= r.room

\* In the room it needs, every script has an account.
LEMMA ScriptCounted ==
    ASSUME NEW w, Called(w), NEW r, Limits(r), RoomHeld(w, state.params, r),
           r.all <=> state.params \in KemParams, r.skew <= 7,
           w.api # "MLKEM_Encaps" => r.skew = 0
    PROVE  Way(Script(w), Taken(0), Pairs, {}, r)
<1> DEFINE c == state.params
           body == CASE w.api = "MLKEM_KeyGen"    -> cp_KPKE_KeyGen(c) \o Try
                     [] w.api = "MLKEM_Encaps"    -> Try \o cp_KPKE_Encrypt(c)
                     [] w.api = "MLKEM_Decaps"    -> cp_MLKEMdecaps_internal(c)
                     [] w.api = "MLDSA_KeyGen"    -> cp_MLDSA_keyGen_internal(c)
                     [] w.api = "MLDSA_Sign"      -> cp_MLDSA_Sign_internal(c, w.input)
                     [] w.api = "MLDSA_Verify"    -> cp_MLDSA_ComputeMu(w.input) \o cp_MLDSA_VerifyCore(c)
                     [] w.api = "MLDSA_Verify_Mu" -> cp_MLDSA_VerifyCore(c)
<1>1. Script(w) = To(body)
  BY DEF Script
<1>2. Taken(0) = Shifted(Clean, 0)
  BY DEF Taken, Clean
<1>3. CASE c \in KemParams /\ w.api \in KemCalls
  <2>1. r.all /\ c \in KemParams
    BY <1>3
  <2>2. ASSUME w.api = "MLKEM_KeyGen" PROVE Way(body, Taken(0), Pairs, Pairs, r)
    <3>1. body = cp_KPKE_KeyGen(c) \o Try
      BY <2>2
    <3>2. r.skew = 0 /\ r.room = KeyGenRoom(c)
      BY <2>2 DEF RoomHeld
    <3> HIDE DEF body
    <3> QED
      BY <1>2, <2>1, <3>1, <3>2, KemKeyGenCounted
  <2>3. ASSUME w.api = "MLKEM_Encaps" PROVE Way(body, Taken(0), Pairs, Pairs, r)
    <3>1. body = Try \o cp_KPKE_Encrypt(c)
      BY <2>3
    <3>2. r.skew <= 7 /\ r.room = EncapsRoom(c)
      BY <2>3 DEF RoomHeld
    <3> HIDE DEF body
    <3> QED
      BY <1>2, <2>1, <3>1, <3>2, EncapsCounted
  <2>4. ASSUME w.api = "MLKEM_Decaps" PROVE Way(body, Taken(0), Pairs, Pairs, r)
    <3>1. body = cp_MLKEMdecaps_internal(c)
      BY <2>4
    <3>2. r.skew = 0 /\ r.room = DecapsRoom(c)
      BY <2>4 DEF RoomHeld
    <3> HIDE DEF body
    <3> QED
      BY <1>2, <2>1, <3>1, <3>2, DecapsCounted
  <2>5. Way(body, Taken(0), Pairs, Pairs, r)
    BY <1>3, <2>2, <2>3, <2>4 DEF KemCalls
  <2> HIDE DEF body
  <2>6. Pairs \subseteq Pairs
    OBVIOUS
  <2> QED
    BY <1>1, <2>5, <2>6, WayTo
<1>4. CASE c \in DsaParams /\ w.api \in DsaCalls
  <2>1. ExactLimits(r) /\ c \in DsaParams /\ w.input \in Nat
    <3>1. c \notin KemParams
      BY <1>4, KemNumbers, DsaNumbers
    <3>2. w.api # "MLKEM_Encaps"
      BY <1>4 DEF DsaCalls
    <3> QED
      BY <1>4, <3>1, <3>2 DEF ExactLimits, Called
  <2>2. ASSUME w.api = "MLDSA_KeyGen" PROVE Way(body, Taken(0), Pairs, Pairs, r)
    <3>1. body = cp_MLDSA_keyGen_internal(c)
      BY <2>2
    <3>2. KeygenBytes(c) <= r.room
      BY <2>2 DEF RoomHeld
    <3> HIDE DEF body
    <3> QED
      BY <2>1, <3>1, <3>2, KeyGenCounted
  <2>3. ASSUME w.api = "MLDSA_Sign" PROVE Way(body, Taken(0), Pairs, Pairs, r)
    <3>1. body = cp_MLDSA_Sign_internal(c, w.input)
      BY <2>3
    <3>2. PICK max \in Nat : SignBytes(c, max) <= r.room /\ w.input <= 64 + 2 + 255 + max
      BY <2>3 DEF RoomHeld
    <3> HIDE DEF body
    <3> QED
      BY <2>1, <3>1, <3>2, SignCounted
  <2>4. ASSUME w.api = "MLDSA_Verify" PROVE Way(body, Taken(0), Pairs, Pairs, r)
    <3>1. body = cp_MLDSA_ComputeMu(w.input) \o cp_MLDSA_VerifyCore(c)
      BY <2>4
    <3>2. PICK max \in Nat : VerifyBytes(c, max) <= r.room /\ w.input <= 64 + 2 + 255 + max
      BY <2>4 DEF RoomHeld
    <3> HIDE DEF body
    <3> QED
      BY <2>1, <3>1, <3>2, VerifyCounted
  <2>5. ASSUME w.api = "MLDSA_Verify_Mu" PROVE Way(body, Taken(0), Pairs, Pairs, r)
    <3>1. body = cp_MLDSA_VerifyCore(c)
      BY <2>5
    <3>2. VerifyBytes(c, 0) <= r.room
      BY <2>5 DEF RoomHeld
    <3> DEFINE z == 0
    <3>3. z \in Nat /\ VerifyBytes(c, z) <= r.room /\ z <= 64 + 2 + 255 + z
      BY <3>2
    <3> HIDE DEF body, z
    <3> QED
      BY <2>1, <3>1, <3>3, VerifyCounted
  <2>6. Way(body, Taken(0), Pairs, Pairs, r)
    BY <1>4, <2>2, <2>3, <2>4, <2>5 DEF DsaCalls
  <2> HIDE DEF body
  <2>7. Pairs \subseteq Pairs
    OBVIOUS
  <2> QED
    BY <1>1, <2>6, <2>7, WayTo
<1> QED
  BY <1>3, <1>4 DEF Called

\* A step that leaves the library and the context alone leaves a call its script.
LEMMA ScriptKept ==
    ASSUME UNCHANGED <<build, state>>, NEW w, work'.api = w.api, work'.input = w.input
    PROVE  Script(work)' = Script(w)
<1>1. cp_KPKE_KeyGen(state.params)' = cp_KPKE_KeyGen(state.params)
  BY DEF cp_KPKE_KeyGen, cp_matrixAGen, cp_polyVecGen, IfPortable
<1>2. cp_KPKE_Encrypt(state.params)' = cp_KPKE_Encrypt(state.params)
  BY DEF cp_KPKE_Encrypt, cp_matrixAGen, cp_polyVecGen, IfPortable
<1>3. cp_MLKEMdecaps_internal(state.params)' = cp_MLKEMdecaps_internal(state.params)
  BY DEF cp_MLKEMdecaps_internal, cp_KPKE_Encrypt, cp_matrixAGen, cp_polyVecGen, IfPortable
<1>4. cp_MLDSA_keyGen_internal(state.params)' = cp_MLDSA_keyGen_internal(state.params)
  BY DEF cp_MLDSA_keyGen_internal, cp_ml_expandS, cp_ml_expandA, IfPortable
<1>5. cp_MLDSA_Sign_internal(state.params, work.input)' = cp_MLDSA_Sign_internal(state.params, w.input)
  BY DEF cp_MLDSA_Sign_internal, SignTurn, cp_ml_expandA, IfPortable
<1>6. cp_MLDSA_VerifyCore(state.params)' = cp_MLDSA_VerifyCore(state.params)
  BY DEF cp_MLDSA_VerifyCore, cp_ml_expandA, IfPortable
<1>7. cp_MLDSA_ComputeMu(work.input)' = cp_MLDSA_ComputeMu(w.input)
  OBVIOUS
<1> QED
  BY <1>1, <1>2, <1>3, <1>4, <1>5, <1>6, <1>7 DEF Script

-----------------------------------------------------------------------------
(* No block is refused. *)

\* One block, taken or refused.
LEMMA AllocateCounted ==
    ASSUME NEW s, Bounded(s), NEW n \in Nat
    PROVE  /\ Allocate(s, n).cap = s.cap
           /\ s.used + n <= s.cap => Fits(s, n) /\ Allocate(s, n).used = s.used + n
           /\ s.used + n > s.cap => ~Fits(s, n)
<1>1. /\ s \in [cap : Int, used : Nat, dirty : Nat, first : BOOLEAN]
      /\ s.cap \in Int /\ s.used \in Nat
  BY DEF Bounded
<1>2. (s.used + n <= s.cap => Fits(s, n)) /\ (s.used + n > s.cap => ~Fits(s, n))
  BY <1>1 DEF Fits
<1>3. CASE ~Fits(s, n)
  BY <1>2, <1>3 DEF Allocate
<1>4. CASE Fits(s, n)
  <2> DEFINE u == s.used + n
             d == Greater(s.dirty, u)
             a == [s EXCEPT !.used = u]
             b == [a EXCEPT !.dirty = d]
             e == [b EXCEPT !.first = FALSE]
  <2>1. u \in Nat
    BY <1>1
  <2>2. Allocate(s, n) = e
    BY <1>4 DEF Allocate
  <2>3. d \in Nat
    BY <1>1, <2>1 DEF Greater
  <2> HIDE DEF u, d
  <2>4. a \in [cap : Int, used : Nat, dirty : Nat, first : BOOLEAN] /\ a.used = u /\ a.cap = s.cap
    BY <1>1, <2>1
  <2> HIDE DEF a
  <2>5. b \in [cap : Int, used : Nat, dirty : Nat, first : BOOLEAN] /\ b.used = u /\ b.cap = s.cap
    BY <2>3, <2>4
  <2> HIDE DEF b
  <2>6. e.used = u /\ e.cap = s.cap
    BY <2>5
  <2> HIDE DEF e
  <2>7. Allocate(s, n).used = s.used + n /\ Allocate(s, n).cap = s.cap
    BY <2>2, <2>6 DEF u
  <2> QED
    BY <1>2, <2>7
<1> QED
  BY <1>3, <1>4

\* Several blocks, one by one.
LEMMA AllocatedInTurn ==
    ASSUME NEW s, NEW ns \in Seq(Nat)
    PROVE  /\ Allocated(s, ns)[0] = s
           /\ \A j \in 1..Len(ns) : Allocated(s, ns)[j] = Allocate(Allocated(s, ns)[j - 1], ns[j])
<1> DEFINE n == Len(ns)
           f == Allocated(s, ns)
<1>1. n \in Nat
  OBVIOUS
<1>2. AllocatedList(f, n, s, ns)
  <2>1. \E g : AllocatedList(g, n, s, ns)
    BY <1>1, AllocatedListed
  <2>2. f = CHOOSE g : AllocatedList(g, n, s, ns)
    BY DEF Allocated, AllocatedList
  <2> QED
    BY <2>1, <2>2
<1> HIDE DEF f, n
<1>3. \A j \in 0..n : f[j] = IF j = 0 THEN s ELSE Allocate(f[j - 1], ns[j])
  BY <1>2 DEF AllocatedList
<1>4. f[0] = s /\ \A j \in 1..n : f[j] = Allocate(f[j - 1], ns[j])
  BY <1>1, <1>3
<1> QED
  BY <1>4 DEF f, n

\* One block or three, where there is room for all of them or for none.
LEMMA AllocatedCounted ==
    ASSUME NEW s, Bounded(s), NEW ns \in Seq(Nat), Len(ns) \in {1, 3}
    PROVE  /\ Allocated(s, ns)[Len(ns)].cap = s.cap
           /\ s.used + Total(ns) <= s.cap =>
                 /\ Allocated(s, ns)[Len(ns)].used = s.used + Total(ns)
                 /\ \A j \in 1..Len(ns) : Fits(Allocated(s, ns)[j - 1], ns[j])
           /\ Len(ns) = 1 /\ s.used + Total(ns) > s.cap => ~Fits(Allocated(s, ns)[0], ns[1])
<1> DEFINE f == Allocated(s, ns)
<1>1. f[0] = s /\ \A j \in 1..Len(ns) : f[j] = Allocate(f[j - 1], ns[j])
  BY AllocatedInTurn
<1> HIDE DEF f
<1>2. s.used \in Nat /\ s.cap \in Int
  BY DEF Bounded
<1>3. ns[1] \in Nat /\ f[1] = Allocate(s, ns[1])
  <2>1. Len(ns) = 1 \/ Len(ns) = 3
    OBVIOUS
  <2>2. 1 \in 1..Len(ns)
    <3>1. 1 \in 1..1 /\ 1 \in 1..3
      OBVIOUS
    <3> QED
      BY <2>1, <3>1, Zenon
  <2>3. ns[1] \in Nat
    BY <2>2
  <2>4. f[1] = Allocate(f[1 - 1], ns[1]) /\ 1 - 1 = 0
    BY <1>1, <2>2
  <2> QED
    BY <1>1, <2>3, <2>4
<1>4. /\ f[1].cap = s.cap /\ Bounded(f[1])
      /\ s.used + ns[1] <= s.cap => Fits(s, ns[1]) /\ f[1].used = s.used + ns[1]
      /\ s.used + ns[1] > s.cap => ~Fits(s, ns[1])
  BY <1>3, AllocateCounted, AllocateBounded
<1>5. CASE Len(ns) = 1
  <2>1. Total(ns) = ns[1]
    BY <1>5 DEF Total
  <2>2. \A j \in 1..Len(ns) : j = 1 /\ j - 1 = 0
    BY <1>5
  <2>3. s.used + Total(ns) <= s.cap => \A j \in 1..Len(ns) : Fits(f[j - 1], ns[j])
    BY <1>1, <1>4, <2>1, <2>2
  <2>4. /\ f[Len(ns)].cap = s.cap
        /\ s.used + Total(ns) <= s.cap => f[Len(ns)].used = s.used + Total(ns)
        /\ s.used + Total(ns) > s.cap => ~Fits(f[0], ns[1])
    BY <1>1, <1>4, <1>5, <2>1
  <2> QED
    BY <2>3, <2>4 DEF f
<1>6. CASE Len(ns) = 3
  <2>1. Total(ns) = ns[1] + ns[2] + ns[3]
    BY <1>6 DEF Total
  <2>2. /\ ns[2] \in Nat /\ f[2] = Allocate(f[1], ns[2]) /\ ns[3] \in Nat /\ f[3] = Allocate(f[2], ns[3])
    <3>1. 2 \in 1..Len(ns) /\ 3 \in 1..Len(ns) /\ 2 - 1 = 1 /\ 3 - 1 = 2
      BY <1>6
    <3>2. f[2] = Allocate(f[2 - 1], ns[2]) /\ f[3] = Allocate(f[3 - 1], ns[3])
      BY <1>1, <3>1
    <3> QED
      BY <3>1, <3>2
  <2>3. /\ f[2].cap = s.cap /\ Bounded(f[2])
        /\ f[1].used + ns[2] <= s.cap => Fits(f[1], ns[2]) /\ f[2].used = f[1].used + ns[2]
    <3>1. Bounded(f[1]) /\ f[1].cap = s.cap /\ ns[2] \in Nat /\ f[2] = Allocate(f[1], ns[2])
      BY <1>4, <2>2
    <3>2. Bounded(f[2])
      BY <3>1, AllocateBounded
    <3> QED
      BY <3>1, <3>2, AllocateCounted
  <2>4. /\ f[3].cap = s.cap
        /\ f[2].used + ns[3] <= s.cap => Fits(f[2], ns[3]) /\ f[3].used = f[2].used + ns[3]
    BY <2>2, <2>3, AllocateCounted
  <2>5. ASSUME s.used + Total(ns) <= s.cap
        PROVE  /\ f[3].used = s.used + Total(ns) /\ Fits(f[0], ns[1]) /\ Fits(f[1], ns[2]) /\ Fits(f[2], ns[3])
    <3> DEFINE n1 == ns[1]
               n2 == ns[2]
               n3 == ns[3]
               u == s.used
               b == s.cap
    <3>1. n1 \in Nat /\ n2 \in Nat /\ n3 \in Nat /\ u \in Nat /\ b \in Int
      BY <1>2, <1>3, <2>2
    <3>2. u + (n1 + n2 + n3) <= b
      BY <2>1, <2>5
    <3>3. /\ u + n1 <= b => Fits(s, n1) /\ f[1].used = u + n1
          /\ f[1].used + n2 <= b => Fits(f[1], n2) /\ f[2].used = f[1].used + n2
          /\ f[2].used + n3 <= b => Fits(f[2], n3) /\ f[3].used = f[2].used + n3
      BY <1>4, <2>3, <2>4
    <3>4. f[0] = s /\ u + Total(ns) = u + (n1 + n2 + n3)
      BY <1>1, <2>1
    <3> HIDE DEF n1, n2, n3, u, b
    <3>5. u + n1 <= b /\ u + n1 + n2 <= b /\ u + n1 + n2 + n3 <= b
          /\ u + (n1 + n2 + n3) = u + n1 + n2 + n3
      BY <3>1, <3>2
    <3>6. Fits(s, n1) /\ f[1].used = u + n1
      BY <3>3, <3>5
    <3>7. Fits(f[1], n2) /\ f[2].used = u + n1 + n2
      BY <3>3, <3>5, <3>6
    <3>8. Fits(f[2], n3) /\ f[3].used = u + n1 + n2 + n3
      BY <3>3, <3>5, <3>7
    <3> QED
      BY <3>4, <3>5, <3>6, <3>7, <3>8 DEF n1, n2, n3, u
  <2>6. \A j \in 1..3 : (j = 1 /\ j - 1 = 0) \/ (j = 2 /\ j - 1 = 1) \/ (j = 3 /\ j - 1 = 2)
    OBVIOUS
  <2>7. s.used + Total(ns) <= s.cap => \A j \in 1..3 : Fits(f[j - 1], ns[j])
    BY <2>5, <2>6
  <2> QED
    BY <1>6, <2>4, <2>5, <2>7 DEF f
<1> QED
  BY <1>5, <1>6

\* What is given back.
LEMMA ReleaseCounted ==
    ASSUME NEW s, Bounded(s), NEW n \in Nat
    PROVE  /\ Release(s, n).cap = s.cap /\ Release(s, n).used = s.used - n
           /\ ReleaseAll(s).cap = s.cap /\ ReleaseAll(s).used = 0
<1>1. /\ s \in [cap : Int, used : Nat, dirty : Nat, first : BOOLEAN]
  BY DEF Bounded
<1>2. ASSUME NEW u, NEW d PROVE LET a == [s EXCEPT !.used = u]
                                    b == [a EXCEPT !.dirty = d]
                                IN b.cap = s.cap /\ b.used = u
  BY <1>1
<1>3. Release(s, n).cap = s.cap /\ Release(s, n).used = s.used - n
  BY <1>2 DEF Release
<1>4. ReleaseAll(s).cap = s.cap /\ ReleaseAll(s).used = 0
  BY <1>2 DEF ReleaseAll
<1> QED
  BY <1>3, <1>4

\* The context was set up and the message is no longer than it was set up for.
Trusted(w) == state.whole /\ w.input <= 64 + 2 + 255 + state.max

\* The second component of a pair of an account.
Mark(w) == IF w.ignored THEN 1 ELSE 0

\* f accounts for the call, and where it is trusted tells the bytes in use:
\* in ML-DSA until the status of an error was dropped.
Reckoned(f, r, w, s) ==
    /\ Limits(r) /\ (r.all <=> state.params \in KemParams) /\ r.skew = w.skew
    /\ Accounts(f, Script(w), Taken(0), Pairs, {}, r)
    /\ Trusted(w) => r.room = s.cap
    /\ Trusted(w) /\ (r.all \/ ~w.ignored) /\ w.at <= Len(Script(w)) =>
          <<s.used, Mark(w)>> \in f[w.at]

CallCounted(w, s) ==
    /\ s.used + w.skew <= s.cap /\ w.skew \in Nat
    /\ state.params \in KemParams => Trusted(w)
    /\ state.params \in DsaParams => w.skew = 0
    /\ \E f, r : Reckoned(f, r, w, s)

\* The capacities are those of the parameters, unless Init refused a length.
ContextHeld ==
    /\ state.whole => state.max \in Nat /\ state.caps = Capacities(state.params, state.max)
    /\ state.params \in KemParams => state.whole /\ state.max = 0

\* The inductive invariant.
SufficesInv ==
    /\ StorageInv /\ ContextHeld
    /\ ~work.stale
    /\ work.refused => ~Trusted(work) \/ work.ignored
    /\ work.at # 0 => CallCounted(work, store)

\* What going on, jumping and failing change.
LEMMA MovedTo ==
    ASSUME Working(work), Current \in ScriptEntries, Current.skip >= -work.at
    PROVE  /\ GoesOn.at = work.at + 1 /\ GoesOn.skew = work.skew /\ GoesOn.ignored = work.ignored
           /\ GoesOn.stale = work.stale /\ GoesOn.refused = work.refused
           /\ Jumps.at = work.at + 1 + Current.skip /\ Jumps.skew = work.skew
           /\ Jumps.ignored = work.ignored /\ Jumps.stale = work.stale /\ Jumps.refused = work.refused
           /\ Fails.at = work.at + 1 + Current.skip /\ Fails.skew = work.skew
           /\ Fails.ignored <=> work.ignored \/ Current.lost
           /\ Fails.stale = work.stale /\ Fails.refused = work.refused
<1> DEFINE e == Current
           n == work.at + 1 + e.skip
           sts == IF e.lost THEN work.sts ELSE "error"
           ig == work.ignored \/ e.lost
<1>1. work \in Works
  BY DEF Working
<1>2. Jumps = [work EXCEPT !.at = n]
  BY DEF Jumps
<1>3. GoesOn.at = work.at + 1 /\ GoesOn.skew = work.skew /\ GoesOn.ignored = work.ignored
      /\ GoesOn.stale = work.stale /\ GoesOn.refused = work.refused
  BY <1>1 DEF GoesOn, Works
<1>4. Jumps.at = n /\ Jumps.skew = work.skew /\ Jumps.ignored = work.ignored
      /\ Jumps.stale = work.stale /\ Jumps.refused = work.refused /\ Jumps.sts = work.sts
  BY <1>1, <1>2 DEF Works
<1> DEFINE j == Jumps
           a == [j EXCEPT !.sts = sts]
           b == [a EXCEPT !.ignored = ig]
<1>5. Fails = b
  BY <1>4 DEF Fails
<1>6. DOMAIN j = {"api", "at", "input", "skew", "foreign", "sts", "refused", "ignored", "stale", "turn", "ret"}
  BY <1>1, <1>2 DEF Works
<1> HIDE DEF j, n, sts, ig
<1>7. a.at = j.at /\ a.skew = j.skew /\ a.stale = j.stale /\ a.refused = j.refused
      /\ DOMAIN a = DOMAIN j
  BY <1>6
<1> HIDE DEF a
<1>8. b.at = j.at /\ b.skew = j.skew /\ b.stale = j.stale /\ b.refused = j.refused /\ b.ignored = ig
  BY <1>6, <1>7
<1> HIDE DEF b
<1>9. Fails.at = n /\ Fails.skew = work.skew /\ Fails.stale = work.stale /\ Fails.refused = work.refused
  BY <1>4, <1>5, <1>8 DEF j
<1>10. Fails.ignored <=> work.ignored \/ Current.lost
  BY <1>5, <1>8 DEF ig
<1> QED
  BY <1>3, <1>4, <1>9, <1>10 DEF n

\* A step of a call, if it stays accounted for.
LEMMA StepCounted ==
    ASSUME SufficesInv, StorageInv', UNCHANGED <<build, state>>, work.at # 0, work'.at # 0,
           NEW f, NEW r, Reckoned(f, r, work, store),
           work'.api = work.api, work'.input = work.input, work'.skew = work.skew,
           ~work'.stale, work'.refused => ~Trusted(work) \/ work'.ignored,
           store'.cap = store.cap,
           Trusted(work) /\ (r.all \/ ~work.ignored) => store'.used + work.skew <= store.cap,
           Trusted(work) /\ (r.all \/ ~work'.ignored) => <<store'.used, Mark(work')>> \in f[work'.at]
    PROVE  SufficesInv'
<1>1. CallCounted(work, store) /\ ContextHeld
  BY DEF SufficesInv
<1>2. Script(work)' = Script(work)
  BY ScriptKept
<1>3. Trusted(work)' <=> Trusted(work)
  BY DEF Trusted
<1>4. ContextHeld'
  <2>1. Capacities(state.params, state.max)' = Capacities(state.params, state.max)
    BY DEF Capacities, mldsaMemoryConsumption, SignBytes
  <2> QED
    BY <1>1, <2>1 DEF ContextHeld
<1>5. Called(work) /\ Bounded(store)' /\ work.skew \in Nat
  <2>1. Called(work)
    BY DEF SufficesInv, StorageInv, Rested
  <2>2. Bounded(store)'
    BY DEF StorageInv, Rested
  <2> QED
    BY <1>1, <2>1, <2>2 DEF CallCounted
<1>6. store'.used + work'.skew <= store'.cap
  <2>1. CASE Trusted(work) /\ (r.all \/ ~work.ignored)
    BY <2>1
  <2>2. CASE ~(Trusted(work) /\ (r.all \/ ~work.ignored))
    <3>1. state.params \notin KemParams
      BY <1>1, <2>2 DEF CallCounted, Reckoned
    <3>2. work.skew = 0
      BY <1>1, <1>5, <3>1 DEF CallCounted, Called
    <3>3. store'.used \in Nat /\ store'.cap \in Int /\ store'.used <= store'.cap
      BY <1>5 DEF Bounded
    <3> QED
      BY <3>2, <3>3
  <2> QED
    BY <2>1, <2>2
<1>7. Reckoned(f, r, work, store)'
  <2>1. /\ Limits(r) /\ (r.all <=> state'.params \in KemParams) /\ r.skew = work'.skew
        /\ Trusted(work)' => r.room = store'.cap
    BY <1>3 DEF Reckoned
  <2>2. Accounts(f, Script(work)', Taken(0), Pairs, {}, r)
    BY <1>2 DEF Reckoned
  <2>3. Mark(work)' = Mark(work')
    BY DEF Mark
  <2>4. Trusted(work)' /\ (r.all \/ ~work'.ignored) => <<store'.used, Mark(work)'>> \in f[work'.at]
    BY <1>3, <2>3
  <2> HIDE DEF Limits, Accounts, Taken, Pairs
  <2> QED
    BY <2>1, <2>2, <2>4 DEF Reckoned
<1>8. CallCounted(work, store)'
  <2>1. work'.skew \in Nat
    BY <1>5
  <2>2. state'.params \in KemParams => Trusted(work)'
    BY <1>1, <1>3 DEF CallCounted
  <2>3. state'.params \in DsaParams => work'.skew = 0
    BY <1>1 DEF CallCounted
  <2>4. \E g, s : Reckoned(g, s, work, store)'
    BY <1>7
  <2> QED
    BY <1>6, <2>1, <2>2, <2>3, <2>4 DEF CallCounted
<1> QED
  BY <1>3, <1>4, <1>8 DEF SufficesInv

\* Where a call is.
LEMMA EntryHeld ==
    ASSUME SufficesInv, ~Resting, work.at <= Len(Script(work)), NEW f, NEW r, Reckoned(f, r, work, store)
    PROVE  /\ Working(work) /\ Called(work) /\ Bounded(store)
           /\ Current \in ScriptEntries /\ Current.skip >= -work.at
           /\ store.used \in Nat /\ store.cap \in Int /\ work.at \in Nat
           /\ Limits(r) /\ (Trusted(work) => r.room = store.cap) /\ r.skew = work.skew
           /\ Current.do = "take" => Len(Current.ns) \in {1, 3} /\ (r.all \/ ~Current.free)
           /\ Trusted(work) /\ (r.all \/ ~work.ignored) =>
                 PairCovered(Current, f, work.at, {}, r, <<store.used, Mark(work)>>)
<1>1. Working(work) /\ Called(work) /\ Bounded(store)
  BY DEF SufficesInv, StorageInv, Rested, Resting
<1>2. Current \in ScriptEntries /\ Current.skip >= -work.at
  BY <1>1, CurrentHeld
<1> DEFINE s == Script(work)
           j == work.at
           q == <<store.used, Mark(work)>>
<1>3. j \in Nat /\ j >= 1 /\ Current = s[j]
  BY <1>1 DEF Working, Works, Current
<1>4. Len(s) \in Nat
  <2>1. Sound(s)
    BY <1>1, ScriptSound
  <2>2. s \in Seq(ScriptEntries)
    BY <2>1 DEF Sound
  <2> HIDE DEF s
  <2> QED
    BY <2>2
<1>5. Accounts(f, s, Taken(0), Pairs, {}, r)
  BY DEF Reckoned
<1>6. Trusted(work) /\ (r.all \/ ~work.ignored) => q \in f[j]
  BY DEF Reckoned
<1>7. j <= Len(s)
  OBVIOUS
<1> HIDE DEF s, j, q
<1>8. Covers(s[j], f, j, {}, r)
  <2>1. j \in 1..Len(s)
    BY <1>3, <1>4, <1>7
  <2> QED
    BY <1>5, <2>1 DEF Accounts
<1>9. /\ s[j].do = "take" => Len(s[j].ns) \in {1, 3} /\ (r.all \/ ~s[j].free)
      /\ \A k \in f[j] : PairCovered(s[j], f, j, {}, r, k)
  BY <1>8 DEF Covers
<1>10. Trusted(work) /\ (r.all \/ ~work.ignored) => PairCovered(s[j], f, j, {}, r, q)
  BY <1>6, <1>9
<1>11. store.used \in Nat /\ store.cap \in Int
  BY <1>1 DEF Bounded
<1>12. Limits(r) /\ (Trusted(work) => r.room = store.cap) /\ r.skew = work.skew
  BY DEF Reckoned
<1>13. Current.do = "take" => Len(Current.ns) \in {1, 3} /\ (r.all \/ ~Current.free)
  BY <1>3, <1>9
<1>14. Trusted(work) /\ (r.all \/ ~work.ignored) => PairCovered(Current, f, j, {}, r, q)
  BY <1>3, <1>10
<1> QED
  BY <1>1, <1>2, <1>3, <1>11, <1>12, <1>13, <1>14 DEF j, q

\* Entries that take and give nothing.
LEMMA QuietCounted ==
    ASSUME SufficesInv, TrySucceeds \/ TryFails \/ Choose \/ GoTo \/ NextTurn \/ CheckTurns
    PROVE  SufficesInv'
<1>1. /\ ~Resting /\ work.at <= Len(Script(work)) /\ UNCHANGED <<build, state>> /\ store' = store
  BY DEF TrySucceeds, TryFails, Choose, GoTo, NextTurn, CheckTurns, At, Quiet
<1>2. CallCounted(work, store) /\ work.at # 0 /\ StorageInv
  BY <1>1 DEF SufficesInv, Resting
<1>3. PICK f, r : Reckoned(f, r, work, store)
  BY <1>2 DEF CallCounted
<1> DEFINE e == Current
           p == work.at
           q == <<store.used, Mark(work)>>
           ok == Trusted(work) /\ (r.all \/ ~work.ignored)
<1>4. /\ Working(work) /\ Bounded(store) /\ e \in ScriptEntries /\ e.skip >= -p /\ p \in Nat
      /\ store.used \in Nat
      /\ ok => PairCovered(e, f, p, {}, r, q)
  BY <1>1, <1>3, EntryHeld
<1>5. StorageInv'
  BY <1>2, EntryKeepsStorage
<1>6. /\ GoesOn.at = p + 1 /\ GoesOn.skew = work.skew /\ GoesOn.ignored = work.ignored
      /\ GoesOn.stale = work.stale /\ GoesOn.refused = work.refused
      /\ Jumps.at = p + 1 + e.skip /\ Jumps.skew = work.skew
      /\ Jumps.ignored = work.ignored /\ Jumps.stale = work.stale /\ Jumps.refused = work.refused
      /\ Fails.at = p + 1 + e.skip /\ Fails.skew = work.skew
      /\ (Fails.ignored <=> work.ignored \/ e.lost)
      /\ Fails.stale = work.stale /\ Fails.refused = work.refused
  BY <1>4, MovedTo
<1>7. /\ GoesOn.api = work.api /\ GoesOn.input = work.input /\ Working(GoesOn)
      /\ Jumps.api = work.api /\ Jumps.input = work.input /\ Working(Jumps)
      /\ Fails.api = work.api /\ Fails.input = work.input /\ Working(Fails)
  BY <1>4, Moved
<1>8. ASSUME NEW w, w \in {GoesOn, Jumps, Fails}
      PROVE  w.at # 0
  BY <1>7, <1>8 DEF Working
<1>9. ASSUME work'.api = work.api, work'.input = work.input, work'.skew = work.skew, work'.at # 0,
             work'.stale = work.stale, work'.refused = work.refused,
             work.ignored => work'.ignored,
             ok /\ (r.all \/ ~work'.ignored) => <<store.used, Mark(work')>> \in f[work'.at]
      PROVE  SufficesInv'
  <2>1. ~work.stale /\ (work.refused => ~Trusted(work) \/ work.ignored)
    BY DEF SufficesInv
  <2>2. store'.used + work.skew <= store.cap /\ store'.cap = store.cap
    BY <1>1, <1>2 DEF CallCounted
  <2>3. work'.refused => ~Trusted(work) \/ work'.ignored
    BY <1>9, <2>1
  <2>4. Trusted(work) /\ (r.all \/ ~work'.ignored) => <<store'.used, Mark(work')>> \in f[work'.at]
    BY <1>1, <1>9
  <2> QED
    BY <1>1, <1>2, <1>3, <1>5, <1>9, <2>1, <2>2, <2>3, <2>4, StepCounted
<1>10. ASSUME ok => Follows(f, p, q), work' = GoesOn PROVE SufficesInv'
  <2>1. ok => <<store.used, Mark(work)>> \in f[work'.at]
    BY <1>6, <1>10 DEF Follows
  <2>2. Mark(work') = Mark(work) /\ work'.ignored = work.ignored
    BY <1>6, <1>10 DEF Mark
  <2>3. work'.at # 0
    BY <1>8, <1>10
  <2> HIDE DEF ok
  <2> QED
    BY <1>6, <1>7, <1>9, <1>10, <2>1, <2>2, <2>3
<1>11. ASSUME ok => Leads(e, f, p, {}, q), work' = Jumps PROVE SufficesInv'
  <2>1. ok => <<store.used, Mark(work)>> \in f[work'.at]
    BY <1>6, <1>11 DEF Leads
  <2>2. Mark(work') = Mark(work) /\ work'.ignored = work.ignored
    BY <1>6, <1>11 DEF Mark
  <2>3. work'.at # 0
    BY <1>8, <1>11
  <2> HIDE DEF ok
  <2> QED
    BY <1>6, <1>7, <1>9, <1>11, <2>1, <2>2, <2>3
<1>12. ASSUME ok => ErrorCovered(e, f, p, {}, r, q), work' = Fails PROVE SufficesInv'
  <2>1. work'.at # 0
    BY <1>8, <1>12
  <2>2. ok /\ (r.all \/ ~work'.ignored) => <<store.used, Mark(work')>> \in f[work'.at]
    <3>1. CASE ok /\ ~e.lost
      <4>1. Leads(e, f, p, {}, q)
        BY <1>12, <3>1 DEF ErrorCovered
      <4>2. Mark(work') = Mark(work)
        BY <1>6, <1>12, <3>1 DEF Mark
      <4>3. q \in f[work'.at]
        BY <1>6, <1>12, <4>1 DEF Leads
      <4> QED
        BY <4>2, <4>3
    <3>2. CASE ok /\ e.lost /\ r.all
      <4>1. Leads(e, f, p, {}, <<q[1], 1>>)
        BY <1>12, <3>2 DEF ErrorCovered
      <4>2. Mark(work') = 1
        BY <1>6, <1>12, <3>2 DEF Mark
      <4>3. <<q[1], 1>> \in f[work'.at]
        BY <1>6, <1>12, <4>1 DEF Leads
      <4> QED
        BY <4>2, <4>3
    <3>3. e.lost => work'.ignored
      BY <1>6, <1>12
    <3> QED
      BY <3>1, <3>2, <3>3
  <2>3. work.ignored => work'.ignored
    BY <1>6, <1>12
  <2> HIDE DEF ok
  <2> QED
    BY <1>6, <1>7, <1>9, <1>12, <2>1, <2>2, <2>3
<1>13. CASE TrySucceeds \/ TryFails
  <2>1. e.do = "try" /\ (work' = GoesOn \/ work' = Fails)
    BY <1>13 DEF TrySucceeds, TryFails, At
  <2>2. ok => Follows(f, p, q) /\ ErrorCovered(e, f, p, {}, r, q)
    BY <1>4, <2>1 DEF PairCovered
  <2> HIDE DEF e, p, q, ok
  <2> QED
    BY <1>10, <1>12, <2>1, <2>2
<1>14. CASE Choose
  <2>1. e.do = "either" /\ (work' = GoesOn \/ work' = Jumps)
    BY <1>14 DEF Choose, At
  <2>2. ok => Follows(f, p, q) /\ Leads(e, f, p, {}, q)
    BY <1>4, <2>1 DEF PairCovered
  <2> HIDE DEF e, p, q, ok
  <2> QED
    BY <1>10, <1>11, <2>1, <2>2
<1>15. CASE GoTo
  <2>1. e.do = "goto" /\ work' = Jumps
    BY <1>15 DEF GoTo, At
  <2>2. ok => Leads(e, f, p, {}, q)
    BY <1>4, <2>1 DEF PairCovered
  <2> HIDE DEF e, p, q, ok
  <2> QED
    BY <1>11, <2>1, <2>2
<1>16. CASE CheckTurns
  <2>1. e.do = "lastturn" /\ (work' = GoesOn \/ work' = Fails)
    BY <1>16 DEF CheckTurns, At
  <2>2. ok => Follows(f, p, q) /\ ErrorCovered(e, f, p, {}, r, q)
    BY <1>4, <2>1 DEF PairCovered
  <2> HIDE DEF e, p, q, ok
  <2> QED
    BY <1>10, <1>12, <2>1, <2>2
<1>17. CASE NextTurn
  <2>1. e.do = "turn" /\ (work' = GoesOn \/ work' = [Jumps EXCEPT !.turn = Jumps.turn + 1])
    BY <1>17 DEF NextTurn, At
  <2>2. ok => Follows(f, p, q) /\ Leads(e, f, p, {}, q)
    BY <1>4, <2>1 DEF PairCovered
  <2>3. CASE work' = GoesOn
    <3> HIDE DEF e, p, q, ok
    <3> QED
      BY <1>10, <2>2, <2>3
  <2>4. CASE work' = [Jumps EXCEPT !.turn = Jumps.turn + 1]
    <3>1. /\ work'.api = Jumps.api /\ work'.input = Jumps.input /\ work'.skew = Jumps.skew
          /\ work'.at = Jumps.at /\ work'.stale = Jumps.stale /\ work'.refused = Jumps.refused
          /\ work'.ignored = Jumps.ignored
      BY <1>7, <2>4 DEF Working, Works
    <3>2. Mark(work') = Mark(work)
      BY <1>6, <3>1 DEF Mark
    <3>3. ok => <<store.used, Mark(work)>> \in f[work'.at]
      BY <1>6, <2>2, <3>1 DEF Leads
    <3>4. Jumps.at # 0
      BY <1>8
    <3> HIDE DEF ok
    <3> QED
      BY <1>6, <1>7, <1>9, <3>1, <3>2, <3>3, <3>4
  <2> QED
    BY <2>1, <2>3, <2>4
<1> QED
  BY <1>13, <1>14, <1>15, <1>16, <1>17

\* Giving blocks back.
LEMMA GiveCounted ==
    ASSUME SufficesInv, GiveBlock \/ GiveEverything
    PROVE  SufficesInv'
<1>1. /\ ~Resting /\ work.at <= Len(Script(work)) /\ UNCHANGED <<build, state>>
  BY DEF GiveBlock, GiveEverything, At, Quiet
<1>2. CallCounted(work, store) /\ work.at # 0 /\ StorageInv
  BY <1>1 DEF SufficesInv, Resting
<1>3. PICK f, r : Reckoned(f, r, work, store)
  BY <1>2 DEF CallCounted
<1> DEFINE e == Current
           p == work.at
           n == e.ns[1]
           q == <<store.used, Mark(work)>>
           ok == Trusted(work) /\ (r.all \/ ~work.ignored)
<1>4. /\ Working(work) /\ Bounded(store) /\ e \in ScriptEntries /\ e.skip >= -p /\ p \in Nat
      /\ store.used \in Nat /\ store.cap \in Int
      /\ ok => PairCovered(e, f, p, {}, r, q)
  BY <1>1, <1>3, EntryHeld
<1>5. StorageInv'
  BY <1>2, EntryKeepsStorage
<1>6. /\ GoesOn.at = p + 1 /\ GoesOn.skew = work.skew /\ GoesOn.ignored = work.ignored
      /\ GoesOn.stale = work.stale /\ GoesOn.refused = work.refused
      /\ Fails.at = p + 1 + e.skip /\ Fails.skew = work.skew
      /\ (Fails.ignored <=> work.ignored \/ e.lost)
      /\ Fails.stale = work.stale /\ Fails.refused = work.refused
  BY <1>4, MovedTo
<1>7. /\ GoesOn.api = work.api /\ GoesOn.input = work.input /\ Working(GoesOn)
      /\ Fails.api = work.api /\ Fails.input = work.input /\ Working(Fails)
  BY <1>4, Moved
<1>8. GoesOn.at # 0 /\ Fails.at # 0
  BY <1>7 DEF Working
<1>9. ASSUME work' \in {GoesOn, Fails}, store'.cap = store.cap,
             ok => store'.used + work.skew <= store.cap,
             ok /\ (r.all \/ ~work'.ignored) => <<store'.used, Mark(work')>> \in f[work'.at]
      PROVE  SufficesInv'
  <2>1. ~work.stale /\ (work.refused => ~Trusted(work) \/ work.ignored)
    BY DEF SufficesInv
  <2>2. /\ work'.api = work.api /\ work'.input = work.input /\ work'.skew = work.skew
        /\ work'.at # 0 /\ work'.stale = work.stale /\ work'.refused = work.refused
        /\ work.ignored => work'.ignored
    BY <1>6, <1>7, <1>8, <1>9
  <2>3. work'.refused => ~Trusted(work) \/ work'.ignored
    BY <2>1, <2>2
  <2>4. Trusted(work) /\ (r.all \/ ~work'.ignored) => <<store'.used, Mark(work')>> \in f[work'.at]
    BY <1>9, <2>2
  <2>5. Trusted(work) /\ (r.all \/ ~work.ignored) => store'.used + work.skew <= store.cap
    BY <1>9
  <2> QED
    BY <1>1, <1>2, <1>3, <1>5, <1>9, <2>1, <2>2, <2>3, <2>4, <2>5, StepCounted
<1>10. /\ store.used + work.skew <= store.cap /\ work.skew \in Nat
  BY <1>2 DEF CallCounted
<1>11. CASE GiveBlock
  <2>1. e.do = "give" /\ Len(e.ns) >= 1
    <3>1. e.do = "give"
      BY <1>11 DEF GiveBlock, At
    <3>2. e.do = "give" => Len(e.ns) >= 1
      BY <1>1, <1>4, CurrentHeld, EntryHeld, <1>3
    <3> QED
      BY <3>1, <3>2
  <2>2. n \in Nat
    <3>1. e.ns \in Seq(Nat)
      BY <1>4 DEF ScriptEntries
    <3>2. 1 \in 1..Len(e.ns)
      BY <2>1, <3>1
    <3> QED
      BY <3>1, <3>2
  <2>3. \/ n > store.used /\ work' = Fails /\ store' = store
        \/ ~(n > store.used) /\ work' = GoesOn /\ store' = Release(store, n)
    BY <1>11 DEF GiveBlock
  <2>4. ok => store.used >= n /\ Follows(f, p, <<store.used - n, Mark(work)>>)
    BY <1>4, <2>1 DEF PairCovered
  <2> HIDE DEF e, n
  <2>5. CASE n > store.used /\ work' = Fails /\ store' = store
    <3>1. ~ok
      BY <1>4, <2>2, <2>4, <2>5
    <3> HIDE DEF ok
    <3> QED
      BY <1>9, <2>5, <3>1
  <2>6. CASE ~(n > store.used) /\ work' = GoesOn /\ store' = Release(store, n)
    <3>1. store'.cap = store.cap /\ store'.used = store.used - n
      BY <1>4, <2>2, <2>6, ReleaseCounted
    <3>2. store'.used + work.skew <= store.cap
      BY <1>4, <1>10, <2>2, <3>1
    <3>3. ok => <<store'.used, Mark(work)>> \in f[work'.at]
      BY <1>6, <2>4, <2>6, <3>1 DEF Follows
    <3>4. Mark(work') = Mark(work)
      BY <1>6, <2>6 DEF Mark
    <3> HIDE DEF ok
    <3> QED
      BY <1>9, <2>6, <3>1, <3>2, <3>3, <3>4
  <2> QED
    BY <2>3, <2>5, <2>6
<1>12. CASE GiveEverything
  <2>1. e.do = "giveall" /\ store' = ReleaseAll(store) /\ (work' = GoesOn \/ work' = Fails)
    BY <1>12 DEF GiveEverything, At
  <2>2. store'.cap = store.cap /\ store'.used = 0
    BY <1>4, <2>1, ReleaseCounted
  <2>3. store'.used + work.skew <= store.cap
    BY <1>4, <1>10, <2>2
  <2>4. ok => /\ Follows(f, p, <<0, Mark(work)>>)
              /\ ErrorCovered(e, f, p, {}, r, <<0, Mark(work)>>)
    BY <1>4, <2>1 DEF PairCovered
  <2>5. CASE work' = GoesOn
    <3>1. ok => <<0, Mark(work)>> \in f[work'.at]
      BY <1>6, <2>4, <2>5 DEF Follows
    <3>2. Mark(work') = Mark(work)
      BY <1>6, <2>5 DEF Mark
    <3> HIDE DEF ok
    <3> QED
      BY <1>9, <2>2, <2>3, <2>5, <3>1, <3>2
  <2>6. CASE work' = Fails
    <3>1. ok /\ (r.all \/ ~work'.ignored) => <<0, Mark(work')>> \in f[work'.at]
      <4>1. CASE ok /\ ~e.lost
        <5>1. Leads(e, f, p, {}, <<0, Mark(work)>>)
          BY <2>4, <4>1 DEF ErrorCovered
        <5>2. Mark(work') = Mark(work)
          BY <1>6, <2>6, <4>1 DEF Mark
        <5>3. <<0, Mark(work)>> \in f[work'.at]
          BY <1>6, <2>6, <5>1 DEF Leads
        <5> QED
          BY <5>2, <5>3
      <4>2. CASE ok /\ e.lost /\ r.all
        <5>1. Leads(e, f, p, {}, <<0, 1>>)
          BY <2>4, <4>2 DEF ErrorCovered
        <5>2. Mark(work') = 1
          BY <1>6, <2>6, <4>2 DEF Mark
        <5>3. <<0, 1>> \in f[work'.at]
          BY <1>6, <2>6, <5>1 DEF Leads
        <5> QED
          BY <5>2, <5>3
      <4>3. e.lost => work'.ignored
        BY <1>6, <2>6
      <4> QED
        BY <4>1, <4>2, <4>3
    <3> HIDE DEF ok
    <3> QED
      BY <1>9, <2>2, <2>3, <2>6, <3>1
  <2> QED
    BY <2>1, <2>5, <2>6
<1> QED
  BY <1>11, <1>12

\* Taking blocks: none is refused unless the status of an error was dropped, and
\* then by a function that releases everything and says so.
LEMMA TakeCounted ==
    ASSUME SufficesInv, TakeBlocks
    PROVE  SufficesInv'
<1>1. /\ ~Resting /\ work.at <= Len(Script(work)) /\ UNCHANGED <<build, state>>
  BY DEF TakeBlocks, At, Quiet
<1>2. CallCounted(work, store) /\ work.at # 0 /\ StorageInv
  BY <1>1 DEF SufficesInv, Resting
<1>3. PICK f, r : Reckoned(f, r, work, store)
  BY <1>2 DEF CallCounted
<1> DEFINE e == Current
           p == work.at
           ns == e.ns
           u == store.used
           q == <<u, Mark(work)>>
           taken == Allocated(store, ns)[Len(ns)]
           no == \E j \in 1..Len(ns) : ~Fits(Allocated(store, ns)[j - 1], ns[j])
           ok == Trusted(work) /\ (r.all \/ ~work.ignored)
           go == work' = GoesOn
           stale == Fails.stale \/ (e.free /\ e.lost)
           bad == work' = [Fails EXCEPT !.refused = TRUE, !.stale = stale]
<1>4. /\ Working(work) /\ Bounded(store) /\ e \in ScriptEntries /\ e.skip >= -p /\ p \in Nat
      /\ u \in Nat /\ store.cap \in Int
      /\ Trusted(work) => r.room = store.cap
      /\ r.skew = work.skew
      /\ e.do = "take" => Len(ns) \in {1, 3} /\ (r.all \/ ~e.free)
      /\ ok => PairCovered(e, f, p, {}, r, q)
  BY <1>1, <1>3, EntryHeld
<1>5. StorageInv'
  BY <1>2, EntryKeepsStorage
<1>6. /\ GoesOn.at = p + 1 /\ GoesOn.skew = work.skew /\ GoesOn.ignored = work.ignored
      /\ GoesOn.stale = work.stale /\ GoesOn.refused = work.refused
      /\ Fails.at = p + 1 + e.skip /\ Fails.skew = work.skew
      /\ (Fails.ignored <=> work.ignored \/ e.lost)
      /\ Fails.stale = work.stale /\ Fails.refused = work.refused
  BY <1>4, MovedTo
<1>7. /\ GoesOn.api = work.api /\ GoesOn.input = work.input /\ Working(GoesOn)
      /\ Fails.api = work.api /\ Fails.input = work.input /\ Working(Fails)
  BY <1>4, Moved
<1>8. GoesOn.at # 0 /\ Fails.at # 0
  BY <1>7 DEF Working
<1>9. ~work.stale /\ (work.refused => ~Trusted(work) \/ work.ignored)
  BY DEF SufficesInv
<1>10. /\ e.do = "take" /\ Len(ns) \in {1, 3} /\ (r.all \/ ~e.free) /\ ns \in Seq(Nat)
       /\ e.free \in BOOLEAN /\ e.lost \in BOOLEAN
  <2>1. e.do = "take"
    BY DEF TakeBlocks, At
  <2> QED
    BY <1>4, <2>1 DEF ScriptEntries
<1>11. /\ store' = IF no /\ e.free THEN ReleaseAll(taken) ELSE taken
       /\ IF no THEN bad ELSE go
  <2>1. Fails.stale = [Fails EXCEPT !.refused = TRUE].stale
    BY <1>7 DEF Working, Works
  <2> QED
    BY <2>1 DEF TakeBlocks
<1>12. /\ bad => /\ work'.api = work.api /\ work'.input = work.input /\ work'.skew = work.skew
                 /\ work'.at = p + 1 + e.skip /\ work'.at # 0
                 /\ (work'.ignored <=> work.ignored \/ e.lost)
                 /\ (work'.stale <=> e.free /\ e.lost)
       /\ go => /\ work'.api = work.api /\ work'.input = work.input /\ work'.skew = work.skew
                /\ work'.at = p + 1 /\ work'.at # 0
                /\ work'.ignored = work.ignored /\ ~work'.stale /\ work'.refused = work.refused
  <2>1. ASSUME bad
        PROVE  /\ work'.api = work.api /\ work'.input = work.input /\ work'.skew = work.skew
               /\ work'.at = p + 1 + e.skip /\ work'.at # 0
               /\ (work'.ignored <=> work.ignored \/ e.lost)
               /\ (work'.stale <=> e.free /\ e.lost)
    <3> DEFINE x == Fails
               a == [x EXCEPT !.refused = TRUE]
               b == [a EXCEPT !.stale = stale]
    <3>1. work' = b
      BY <2>1
    <3>2. DOMAIN x = {"api", "at", "input", "skew", "foreign", "sts", "refused", "ignored", "stale", "turn", "ret"}
      BY <1>7 DEF Working, Works
    <3>3. stale <=> e.free /\ e.lost
      BY <1>6, <1>9
    <3>4. x.api = work.api /\ x.input = work.input /\ x.skew = work.skew /\ x.at = p + 1 + e.skip
          /\ x.at # 0 /\ (x.ignored <=> work.ignored \/ e.lost)
      BY <1>6, <1>7, <1>8
    <3> HIDE DEF x, stale, e, p
    <3>5. a.api = x.api /\ a.input = x.input /\ a.skew = x.skew /\ a.at = x.at /\ a.ignored = x.ignored
          /\ DOMAIN a = DOMAIN x
      BY <3>2
    <3> HIDE DEF a
    <3>6. b.api = a.api /\ b.input = a.input /\ b.skew = a.skew /\ b.at = a.at /\ b.ignored = a.ignored
          /\ b.stale = stale
      BY <3>2, <3>5
    <3> HIDE DEF b
    <3> QED
      BY <3>1, <3>3, <3>4, <3>5, <3>6
  <2> QED
    BY <1>6, <1>7, <1>8, <1>9, <2>1
<1>13. /\ taken.cap = store.cap /\ Bounded(taken)
       /\ u + Total(ns) <= store.cap => taken.used = u + Total(ns) /\ ~no
       /\ Len(ns) = 1 /\ u + Total(ns) > store.cap => no
  <2>1. /\ taken.cap = store.cap
        /\ u + Total(ns) <= store.cap => taken.used = u + Total(ns) /\ ~no
    BY <1>4, <1>10, AllocatedCounted
  <2>2. Len(ns) = 1 /\ u + Total(ns) > store.cap => no
    <3>1. Len(ns) = 1 /\ u + Total(ns) > store.cap => ~Fits(Allocated(store, ns)[0], ns[1])
      BY <1>4, <1>10, AllocatedCounted
    <3>2. Len(ns) = 1 => 1 \in 1..Len(ns) /\ 1 - 1 = 0
      OBVIOUS
    <3> QED
      BY <3>1, <3>2
  <2>3. Bounded(taken)
    BY <1>4, <1>10, AllocatedBounded
  <2> QED
    BY <2>1, <2>2, <2>3
<1>14. /\ ReleaseAll(taken).cap = store.cap /\ ReleaseAll(taken).used = 0
  BY <1>13, ReleaseCounted
<1>15. store'.cap = store.cap
  BY <1>11, <1>13, <1>14
<1>16. /\ store.used + work.skew <= store.cap /\ work.skew \in Nat
       /\ r.all => Trusted(work)
  BY <1>2, <1>3 DEF CallCounted, Reckoned
<1>17. Total(ns) \in Nat
  <2>1. Len(ns) = 1 => ns[1] \in Nat
    <3>1. Len(ns) = 1 => 1 \in 1..Len(ns)
      OBVIOUS
    <3> QED
      BY <1>10, <3>1
  <2>2. Len(ns) = 3 => ns[1] \in Nat /\ ns[2] \in Nat /\ ns[3] \in Nat
    <3>1. Len(ns) = 3 => 1 \in 1..Len(ns) /\ 2 \in 1..Len(ns) /\ 3 \in 1..Len(ns)
      OBVIOUS
    <3> QED
      BY <1>10, <3>1
  <2> QED
    BY <1>10, <2>1, <2>2 DEF Total
<1>18. ASSUME work'.api = work.api, work'.input = work.input, work'.skew = work.skew, work'.at # 0,
              ~work'.stale, work'.refused => ~Trusted(work) \/ work'.ignored,
              ok => store'.used + work.skew <= store.cap,
              Trusted(work) /\ (r.all \/ ~work'.ignored) => <<store'.used, Mark(work')>> \in f[work'.at]
       PROVE  SufficesInv'
  <2>1. Trusted(work) /\ (r.all \/ ~work.ignored) => store'.used + work.skew <= store.cap
    BY <1>18
  <2> QED
    BY <1>1, <1>2, <1>3, <1>5, <1>15, <1>18, <2>1, StepCounted
<1>19. ASSUME ok PROVE TakeCovered(e, f, p, {}, r, q)
  BY <1>4, <1>10, <1>19 DEF PairCovered
<1> HIDE DEF taken, no, bad, stale
<1>20. CASE ok /\ u + Total(ns) + work.skew <= store.cap /\ Follows(f, p, <<u + Total(ns), Mark(work)>>)
  <2>1. u + Total(ns) <= store.cap
    <3> DEFINE t == Total(ns)
               z == work.skew
               k == store.cap
    <3>1. u + t + z <= k /\ u \in Nat /\ t \in Nat /\ z \in Nat /\ k \in Int
      BY <1>4, <1>16, <1>17, <1>20
    <3> HIDE DEF t, z, k, u
    <3> QED
      BY <3>1 DEF t, k
  <2>2. store' = taken /\ go
    BY <1>11, <1>13, <2>1
  <2>3. store'.used = u + Total(ns)
    BY <1>13, <2>1, <2>2
  <2>4. store'.used + work.skew <= store.cap
    BY <1>20, <2>3
  <2>5. Mark(work') = Mark(work)
    BY <1>12, <2>2 DEF Mark
  <2>6. <<store'.used, Mark(work')>> \in f[work'.at]
    BY <1>12, <1>20, <2>2, <2>3, <2>5 DEF Follows
  <2>7. work'.refused => ~Trusted(work) \/ work'.ignored
    BY <1>9, <1>12, <2>2
  <2> HIDE DEF ok
  <2> QED
    BY <1>12, <1>18, <2>2, <2>4, <2>6, <2>7
<1>21. CASE /\ ok /\ r.all /\ Mark(work) = 1 /\ u + Total(ns) > store.cap /\ Len(ns) = 1
            /\ e.free /\ ~e.lost /\ Leads(e, f, p, {}, <<0, 1>>)
  <2>1. no
    BY <1>13, <1>21
  <2>2. store' = ReleaseAll(taken) /\ bad
    BY <1>11, <1>21, <2>1
  <2>3. store'.used = 0
    BY <1>14, <2>2
  <2>4. store'.used + work.skew <= store.cap
    BY <1>4, <1>16, <2>3
  <2>5. work.ignored /\ work'.ignored /\ ~work'.stale
    BY <1>12, <1>21, <2>2 DEF Mark
  <2>6. Mark(work') = 1
    BY <2>5 DEF Mark
  <2>7. <<store'.used, Mark(work')>> \in f[work'.at]
    BY <1>12, <1>21, <2>2, <2>3, <2>6 DEF Leads
  <2> HIDE DEF ok
  <2> QED
    BY <1>12, <1>18, <2>2, <2>4, <2>5, <2>7
<1>22. CASE ~ok
  <2>1. ~r.all /\ ~e.free
    BY <1>10, <1>16, <1>22
  <2>2. ~Trusted(work) \/ work.ignored
    BY <1>22
  <2>3. ASSUME bad PROVE SufficesInv'
    <3>1. ~work'.stale /\ (~Trusted(work) \/ work'.ignored)
      BY <1>12, <2>1, <2>2, <2>3
    <3>2. ~(Trusted(work) /\ (r.all \/ ~work'.ignored))
      BY <2>1, <3>1
    <3> HIDE DEF ok
    <3> QED
      BY <1>12, <1>18, <1>22, <2>3, <3>1, <3>2
  <2>4. ASSUME go PROVE SufficesInv'
    <3>1. ~work'.stale /\ (~Trusted(work) \/ work'.ignored)
      BY <1>12, <2>2, <2>4
    <3>2. ~(Trusted(work) /\ (r.all \/ ~work'.ignored))
      BY <2>1, <3>1
    <3> HIDE DEF ok
    <3> QED
      BY <1>12, <1>18, <1>22, <2>4, <3>1, <3>2
  <2> QED
    BY <1>11, <2>3, <2>4
<1>23. ASSUME ok
       PROVE  \/ u + Total(ns) + work.skew <= store.cap /\ Follows(f, p, <<u + Total(ns), Mark(work)>>)
              \/ /\ r.all /\ Mark(work) = 1 /\ u + Total(ns) > store.cap /\ Len(ns) = 1
                 /\ e.free /\ ~e.lost /\ Leads(e, f, p, {}, <<0, 1>>)
  <2>1. r.room = store.cap /\ r.skew = work.skew
    BY <1>4, <1>23
  <2>2. q[1] = u /\ q[2] = Mark(work)
    OBVIOUS
  <2>3. TakeCovered(e, f, p, {}, r, q)
    BY <1>19, <1>23
  <2> HIDE DEF ok, q, u, p, e
  <2> QED
    BY <2>1, <2>2, <2>3 DEF TakeCovered, ns
<1> QED
  BY <1>20, <1>21, <1>22, <1>23

\* The capacities Init stores for ML-DSA are numbers; a Sign or a Verify without
\* one is not started.
LEMMA DsaCapacities ==
    ASSUME NEW c \in DsaParams, NEW max \in Nat
    PROVE  /\ Capacities(c, max)["MLDSA_KeyGen"] = KeygenBytes(c)
           /\ max # 0 => /\ Capacities(c, max)["MLDSA_Sign"] = SignBytes(c, max)
                         /\ Capacities(c, max)["MLDSA_Verify"] = VerifyBytes(c, max)
           /\ max = 0 => /\ Capacities(c, max)["MLDSA_Sign"] = 0
                         /\ Capacities(c, max)["MLDSA_Verify"] = 0
           /\ KeygenBytes(c) \in Int /\ VerifyBytes(c, max) \in Int
           /\ max # 0 => SignBytes(c, max) \in Int
<1> DEFINE m == mldsaMemoryConsumption(c, max)
           caps == [f \in DsaCalls |-> CASE f = "MLDSA_KeyGen" -> m.keygen
                                         [] f = "MLDSA_Sign" -> m.sign
                                         [] f = "MLDSA_Verify" -> m.verify
                                         [] OTHER -> 0]
<1>1. c.family = "dsa"
  BY DsaNumbers
<1>2. Capacities(c, max) = caps
  <2>1. "dsa" # "kem"
    OBVIOUS
  <2> QED
    BY <1>1, <2>1 DEF Capacities
<1>3. /\ m.keygen = KeygenBytes(c)
      /\ m.sign = (IF max = 0 THEN 0 ELSE SignBytes(c, max))
      /\ m.verify = (IF max = 0 THEN 0 ELSE VerifyBytes(c, max))
  BY DEF mldsaMemoryConsumption
<1> HIDE DEF m
<1>4. caps["MLDSA_KeyGen"] = m.keygen /\ caps["MLDSA_Sign"] = m.sign /\ caps["MLDSA_Verify"] = m.verify
  BY DEF DsaCalls
<1>5. Capacities(c, max) \in [DsaCalls -> Int] /\ VerifyBytes(c, max) \in Int
  BY CapacitiesHeld
<1>6. Capacities(c, max)["MLDSA_KeyGen"] \in Int /\ Capacities(c, max)["MLDSA_Sign"] \in Int
  BY <1>5 DEF DsaCalls
<1> HIDE DEF caps
<1> QED
  BY <1>2, <1>3, <1>4, <1>5, <1>6

\* A call that starts has the room it needs: all of the capacity of the context,
\* where it was set up and the message is no longer than it was set up for.
LEMMA RoomThere ==
    ASSUME ContextHeld, NEW w, Called(w), CapacityOf(w.api) > 0,
           w.api \notin {"MLDSA_Sign", "MLDSA_Verify"} => w.input = 0
    PROVE  /\ \E room \in Int : /\ Trusted(w) => room = CapacityOf(w.api)
                                /\ \A r : r.room = room => RoomHeld(w, state.params, r)
           /\ state.params \in KemParams => Trusted(w)
           /\ w.api = "MLKEM_Encaps" => CapacityOf(w.api) >= 7
<1> DEFINE c == state.params
           max == state.max
           n == w.input
           cap == CapacityOf(w.api)
<1>1. n \in Nat
  BY DEF Called
<1>2. CASE c \in KemParams /\ w.api \in KemCalls
  <2>1. state.whole /\ max = 0 /\ state.caps = Capacities(c, 0)
    BY <1>2 DEF ContextHeld
  <2>2. w.api \in {"MLKEM_KeyGen", "MLKEM_Encaps", "MLKEM_Decaps"}
    BY <1>2 DEF KemCalls
  <2>3. n = 0
    BY <2>2
  <2>4. Trusted(w)
    BY <2>1, <2>3 DEF Trusted
  <2>5. cap = Capacities(c, 0)[w.api]
    BY <2>1, <2>2 DEF CapacityOf
  <2>6. /\ w.api = "MLKEM_KeyGen" => cap = KeyGenRoom(c)
        /\ w.api = "MLKEM_Encaps" => cap = EncapsRoom(c)
        /\ w.api = "MLKEM_Decaps" => cap = DecapsRoom(c)
    BY <1>2, <2>5, KemCapacities
  <2>7. cap \in Int
    <3>1. Capacities(c, 0) \in [KemCalls -> Int]
      BY <1>2, CapacitiesHeld
    <3> QED
      BY <1>2, <2>5, <3>1
  <2>8. w.api = "MLKEM_Encaps" => cap >= 7
    <3>1. c.k \in Nat /\ c.eta1 \in Nat /\ Shake256 \in Nat
      BY <1>2, KemSizes
    <3>2. EncapsRoom(c) >= 7
      BY <3>1 DEF EncapsRoom
    <3> QED
      BY <2>6, <3>2
  <2>9. \A r : r.room = cap => RoomHeld(w, c, r)
    BY <2>2, <2>6 DEF RoomHeld
  <2> HIDE DEF c, cap
  <2> QED
    BY <2>4, <2>7, <2>8, <2>9 DEF c, cap
<1>3. CASE c \in DsaParams /\ w.api \in DsaCalls
  <2>1. c \notin KemParams
    <3>1. "kem" # "dsa"
      OBVIOUS
    <3> QED
      BY <1>3, <3>1, KemNumbers, DsaNumbers
  <2>2. w.api \in {"MLDSA_KeyGen", "MLDSA_Sign", "MLDSA_Verify", "MLDSA_Verify_Mu"}
    BY <1>3 DEF DsaCalls
  <2>3. Trusted(w) => state.whole /\ max \in Nat /\ state.caps = Capacities(c, max) /\ n <= 64 + 2 + 255 + max
    BY DEF ContextHeld, Trusted
  <2>4. n + 1 \in Nat /\ n + 1 # 0 /\ n <= 64 + 2 + 255 + (n + 1)
    BY <1>1
  <2>5. CASE w.api = "MLDSA_KeyGen"
    <3>1. Trusted(w) => KeygenBytes(c) = cap
      <4>1. cap = state.caps["MLDSA_KeyGen"]
        BY <2>5 DEF CapacityOf
      <4> QED
        BY <1>3, <2>3, <4>1, DsaCapacities
    <3>2. KeygenBytes(c) \in Int
      BY <1>3, DsaCapacities
    <3>3. \A r : r.room = KeygenBytes(c) => RoomHeld(w, c, r)
      BY <2>5, <3>2 DEF RoomHeld
    <3> HIDE DEF c, cap
    <3> QED
      BY <2>1, <2>5, <3>1, <3>2, <3>3 DEF c, cap
  <2>6. CASE w.api = "MLDSA_Sign"
    <3>1. ASSUME Trusted(w) PROVE max # 0 /\ SignBytes(c, max) = cap
      <4>1. cap = state.caps["MLDSA_Sign"] /\ cap > 0
        BY <2>6 DEF CapacityOf
      <4> QED
        BY <1>3, <2>3, <3>1, <4>1, DsaCapacities
    <3>2. PICK x \in Nat : x # 0 /\ n <= 64 + 2 + 255 + x /\ (Trusted(w) => SignBytes(c, x) = cap)
      <4>1. CASE Trusted(w)
        BY <2>3, <3>1, <4>1
      <4>2. CASE ~Trusted(w)
        BY <2>4, <4>2
      <4> QED
        BY <4>1, <4>2
    <3>3. SignBytes(c, x) \in Int
      BY <1>3, <3>2, DsaCapacities
    <3>4. \A r : r.room = SignBytes(c, x) => RoomHeld(w, c, r)
      BY <2>6, <3>2, <3>3 DEF RoomHeld
    <3> HIDE DEF c, cap
    <3> QED
      BY <2>1, <2>6, <3>2, <3>3, <3>4 DEF c, cap
  <2>7. CASE w.api = "MLDSA_Verify"
    <3>1. ASSUME Trusted(w) PROVE max # 0 /\ VerifyBytes(c, max) = cap
      <4>1. cap = state.caps["MLDSA_Verify"] /\ cap > 0
        BY <2>7 DEF CapacityOf
      <4> QED
        BY <1>3, <2>3, <3>1, <4>1, DsaCapacities
    <3>2. PICK x \in Nat : x # 0 /\ n <= 64 + 2 + 255 + x /\ (Trusted(w) => VerifyBytes(c, x) = cap)
      <4>1. CASE Trusted(w)
        BY <2>3, <3>1, <4>1
      <4>2. CASE ~Trusted(w)
        BY <2>4, <4>2
      <4> QED
        BY <4>1, <4>2
    <3>3. VerifyBytes(c, x) \in Int
      BY <1>3, <3>2, DsaCapacities
    <3>4. \A r : r.room = VerifyBytes(c, x) => RoomHeld(w, c, r)
      BY <2>7, <3>2, <3>3 DEF RoomHeld
    <3> HIDE DEF c, cap
    <3> QED
      BY <2>1, <2>7, <3>2, <3>3, <3>4 DEF c, cap
  <2>8. CASE w.api = "MLDSA_Verify_Mu"
    <3>1. cap = VerifyBytes(c, 0)
      BY <2>8 DEF CapacityOf
    <3>2. VerifyBytes(c, 0) \in Int
      BY <1>3, DsaCapacities
    <3>3. \A r : r.room = VerifyBytes(c, 0) => RoomHeld(w, c, r)
      BY <2>8, <3>2 DEF RoomHeld
    <3> HIDE DEF c, cap
    <3> QED
      BY <2>1, <2>8, <3>1, <3>2, <3>3 DEF c, cap
  <2> QED
    BY <2>2, <2>5, <2>6, <2>7, <2>8
<1> QED
  BY <1>2, <1>3 DEF Called

\* The context of a step that leaves it alone.
LEMMA ContextKept ==
    ASSUME ContextHeld, UNCHANGED <<build, state>>
    PROVE  ContextHeld'
<1>1. Capacities(state.params, state.max)' = Capacities(state.params, state.max)
  BY DEF Capacities, mldsaMemoryConsumption, SignBytes
<1> QED
  BY <1>1 DEF ContextHeld

\* A call is accounted for from its start.
LEMMA StartCounted ==
    ASSUME ContextHeld, UNCHANGED <<build, state>>, NEW w, Called(w),
           CapacityOf(w.api) \in Int, CapacityOf(w.api) > 0,
           w.api \notin {"MLDSA_Sign", "MLDSA_Verify"} => w.input = 0,
           w.skew \in 0..7, w.api # "MLKEM_Encaps" => w.skew = 0,
           work'.api = w.api, work'.input = w.input, work'.skew = w.skew, ~work'.ignored,
           work'.at = 1 \/ work'.at > Len(Script(w)), work'.at \in Nat,
           store'.used = 0, store'.cap = CapacityOf(w.api)
    PROVE  CallCounted(work, store)'
<1> DEFINE c == state.params
           cap == CapacityOf(w.api)
<1>1. PICK room \in Int : /\ Trusted(w) => room = cap
                          /\ \A r : r.room = room => RoomHeld(w, c, r)
  BY RoomThere
<1>2. (c \in KemParams => Trusted(w)) /\ (w.api = "MLKEM_Encaps" => cap >= 7)
  BY RoomThere
<1>3. PICK r : r.room = room /\ r.skew = w.skew /\ (r.all <=> c \in KemParams) /\ Limits(r)
  <2> DEFINE all == c \in KemParams
             x == [room |-> room, skew |-> w.skew, all |-> all]
  <2>1. x.room = room /\ x.skew = w.skew /\ x.all = all /\ all \in BOOLEAN /\ w.skew \in Nat
    OBVIOUS
  <2> HIDE DEF x
  <2>2. Limits(x) /\ (x.all <=> c \in KemParams)
    BY <2>1 DEF Limits
  <2> QED
    BY <2>1, <2>2
<1>4. Way(Script(w), Taken(0), Pairs, {}, r)
  <2>1. RoomHeld(w, c, r) /\ r.skew <= 7 /\ (w.api # "MLKEM_Encaps" => r.skew = 0)
    BY <1>1, <1>3
  <2> QED
    BY <1>3, <2>1, ScriptCounted
<1>5. PICK f : Accounts(f, Script(w), Taken(0), Pairs, {}, r)
  BY <1>4 DEF Way
<1>6. Script(work)' = Script(w)
  BY ScriptKept
<1>7. Trusted(work)' <=> Trusted(w)
  BY DEF Trusted
<1>8. Mark(work') = 0
  BY DEF Mark
<1>9. work'.at <= Len(Script(w)) => <<store'.used, Mark(work')>> \in f[work'.at]
  <2>1. CASE work'.at = 1
    <3>1. <<0, 0>> \in Taken(0)
      BY TakenIs
    <3>2. Taken(0) \subseteq f[1]
      BY <1>5 DEF Accounts
    <3> HIDE DEF Taken
    <3> QED
      BY <1>8, <2>1, <3>1, <3>2
  <2>2. CASE work'.at > Len(Script(w))
    <3> DEFINE n == Len(Script(w))
    <3>1. n \in Nat
      <4>1. Sound(Script(w))
        BY ScriptSound
      <4> DEFINE s == Script(w)
      <4>2. s \in Seq(ScriptEntries)
        BY <4>1 DEF Sound
      <4> HIDE DEF s
      <4>3. Len(s) \in Nat
        BY <4>2
      <4> QED
        BY <4>3 DEF s
    <3> HIDE DEF n
    <3>2. work'.at > n
      BY <2>2 DEF n
    <3>3. ~(work'.at <= n)
      BY <3>1, <3>2
    <3> QED
      BY <3>3 DEF n
  <2> QED
    BY <2>1, <2>2
<1>10. Reckoned(f, r, work, store)'
  <2>1. /\ Limits(r) /\ (r.all <=> state'.params \in KemParams) /\ r.skew = work'.skew
        /\ Trusted(work)' => r.room = store'.cap
    BY <1>1, <1>3, <1>7
  <2>2. Accounts(f, Script(work)', Taken(0), Pairs, {}, r)
    BY <1>5, <1>6
  <2>3. Mark(work)' = Mark(work')
    BY DEF Mark
  <2>4. Trusted(work)' /\ (r.all \/ ~work'.ignored) /\ work'.at <= Len(Script(work)') =>
           <<store'.used, Mark(work)'>> \in f[work'.at]
    BY <1>6, <1>9, <2>3
  <2> HIDE DEF Limits, Accounts, Taken, Pairs
  <2> QED
    BY <2>1, <2>2, <2>4 DEF Reckoned
<1>11. store'.used + work'.skew <= store'.cap /\ work'.skew \in Nat
  <2>1. cap \in Int /\ cap > 0
    OBVIOUS
  <2>2. w.skew <= cap
    <3>1. CASE w.api = "MLKEM_Encaps"
      BY <1>2, <2>1, <3>1
    <3>2. CASE w.api # "MLKEM_Encaps"
      BY <2>1, <3>2
    <3> QED
      BY <3>1, <3>2
  <2> QED
    BY <2>1, <2>2
<1>12. state'.params \in KemParams => Trusted(work)'
  BY <1>2, <1>7
<1>13. state'.params \in DsaParams => work'.skew = 0
  <2>1. c \in DsaParams => w.api # "MLKEM_Encaps"
    <3>1. "kem" # "dsa"
      OBVIOUS
    <3>2. c \in DsaParams => c \notin KemParams
      BY <3>1, KemNumbers, DsaNumbers
    <3>3. "MLKEM_Encaps" \notin DsaCalls
      BY DEF DsaCalls
    <3> QED
      BY <3>2, <3>3 DEF Called
  <2> QED
    BY <2>1
<1> QED
  BY <1>10, <1>11, <1>12, <1>13 DEF CallCounted

\* No call in progress, and none that a block was refused to.
IdleAt(w) == w.at = 0 /\ ~w.refused /\ ~w.ignored /\ ~w.stale

\* The record of no call is one.
LEMMA IdleIsIdle == \A ret : IdleAt(Idle(ret))
BY DEF IdleAt, Idle

\* Between calls there is nothing to account for.
LEMMA IdleCounted ==
    ASSUME StorageInv', ContextHeld', IdleAt(work')
    PROVE  SufficesInv'
BY DEF SufficesInv, IdleAt

\* The start of a call.
LEMMA BeginCounted ==
    ASSUME SufficesInv, NEW f \in KemCalls \cup DsaCalls, NEW input \in Nat, NEW skew \in 0..7,
           NEW foreign \in BOOLEAN, NEW drawn \in BOOLEAN, Begin(f, input, skew, foreign, drawn)
    PROVE  SufficesInv'
<1>1. /\ work.at = 0 /\ f \in DOMAIN state.caps /\ CapacityOf(f) > 0 /\ UNCHANGED <<build, state>>
      /\ f \notin {"MLDSA_Sign", "MLDSA_Verify"} => input = 0
      /\ f # "MLKEM_Encaps" => skew = 0
      /\ StorageInv /\ ContextHeld
  BY DEF Begin, Resting, SufficesInv
<1>2. StorageInv'
  <2>1. skew \in Int
    OBVIOUS
  <2> QED
    BY <1>1, <2>1, BeginKeepsStorage
<1>3. ContextHeld'
  BY <1>1, ContextKept
<1>4. PICK p, m, b, caps :
        /\ state = [params |-> p, max |-> m, whole |-> b, caps |-> caps]
        /\ \/ p.family = "none" /\ DOMAIN caps = {}
           \/ p \in KemParams /\ caps \in [KemCalls -> Int]
           \/ p \in DsaParams /\ caps \in [DsaCalls -> Int]
  BY <1>1 DEF StorageInv, StateHeld
<1>5. \/ state.params \in KemParams /\ f \in KemCalls /\ state.caps[f] \in Int
      \/ state.params \in DsaParams /\ f \in DsaCalls /\ state.caps[f] \in Int
  BY <1>1, <1>4
<1>6. CapacityOf(f) \in Int
  <2>1. CASE f = "MLDSA_Verify_Mu"
    <3>1. f \notin KemCalls
      BY <2>1 DEF KemCalls
    <3>2. VerifyBytes(state.params, 0) \in Int
      BY <1>5, <3>1, CapacitiesHeld
    <3> QED
      BY <2>1, <3>2 DEF CapacityOf
  <2>2. CASE f # "MLDSA_Verify_Mu"
    BY <1>5, <2>2 DEF CapacityOf
  <2> QED
    BY <2>1, <2>2
<1>7. store'.used = 0 /\ store'.cap = CapacityOf(f)
  <2> DEFINE n == CapacityOf(f)
             u == [store EXCEPT !.cap = n]
             x == [u EXCEPT !.dirty = 0]
             y == [x EXCEPT !.first = TRUE]
  <2>1. store' = y
    BY DEF Begin
  <2>2. store \in [cap : Int, used : Nat, dirty : Nat, first : BOOLEAN] /\ store.used = 0
    BY <1>1 DEF StorageInv, Working, Rested
  <2> HIDE DEF n
  <2>3. u.used = 0 /\ u.cap = n /\ DOMAIN u = {"cap", "used", "dirty", "first"}
    BY <2>2
  <2> HIDE DEF u
  <2>4. x.used = 0 /\ x.cap = n /\ DOMAIN x = {"cap", "used", "dirty", "first"}
    BY <2>3
  <2> HIDE DEF x
  <2>5. y.used = 0 /\ y.cap = n
    BY <2>4
  <2> HIDE DEF y
  <2> QED
    BY <2>1, <2>5 DEF n
<1> DEFINE w == [Idle("none") EXCEPT !.api = f, !.input = input, !.skew = skew,
                                     !.foreign = foreign, !.at = 1]
           Fields(z) == /\ z.api = f /\ z.input = input /\ z.skew = skew
                        /\ ~z.refused /\ ~z.ignored /\ ~z.stale
           parts == {"api", "at", "input", "skew", "foreign", "sts", "refused", "ignored", "stale",
                     "turn", "ret"}
<1>8. Fields(w) /\ w.at = 1 /\ DOMAIN w = parts
  <2> DEFINE idle == Idle("none")
             idle1 == [idle EXCEPT !.api = f]
             idle2 == [idle1 EXCEPT !.input = input]
             idle3 == [idle2 EXCEPT !.skew = skew]
             idle4 == [idle3 EXCEPT !.foreign = foreign]
             idle5 == [idle4 EXCEPT !.at = 1]
             Quiet3(z) == ~z.refused /\ ~z.ignored /\ ~z.stale
  <2>1. Quiet3(idle) /\ DOMAIN idle = parts
    BY DEF Idle
  <2>2. w = idle5
    OBVIOUS
  <2> HIDE DEF idle
  <2>3. Quiet3(idle1) /\ DOMAIN idle1 = parts /\ idle1.api = f
    BY <2>1
  <2> HIDE DEF idle1
  <2>4. Quiet3(idle2) /\ DOMAIN idle2 = parts /\ idle2.api = f /\ idle2.input = input
    BY <2>3
  <2> HIDE DEF idle2
  <2>5. Quiet3(idle3) /\ DOMAIN idle3 = parts /\ idle3.api = f /\ idle3.input = input
        /\ idle3.skew = skew
    BY <2>4
  <2> HIDE DEF idle3
  <2>6. Quiet3(idle4) /\ DOMAIN idle4 = parts /\ idle4.api = f /\ idle4.input = input
        /\ idle4.skew = skew
    BY <2>5
  <2> HIDE DEF idle4
  <2>7. Quiet3(idle5) /\ DOMAIN idle5 = parts /\ idle5.api = f /\ idle5.input = input
        /\ idle5.skew = skew /\ idle5.at = 1
    BY <2>6
  <2> HIDE DEF idle5
  <2> QED
    BY <2>2, <2>7
<1>9. \/ work' = w
      \/ work' = [w EXCEPT !.at = Len(Script(w)) + 1, !.sts = "random"]
      \/ work' = Idle("random")
  BY DEF Begin
<1> HIDE DEF w
<1>10. Called(w)
  BY <1>5, <1>8 DEF Called
<1>11. ASSUME Fields(work'), work'.at = 1 \/ work'.at = Len(Script(w)) + 1
       PROVE  SufficesInv'
  <2> DEFINE n == Len(Script(w))
  <2>1. n \in Nat
    <3>1. Sound(Script(w))
      BY <1>10, ScriptSound
    <3> DEFINE s == Script(w)
    <3>2. s \in Seq(ScriptEntries)
      BY <3>1 DEF Sound
    <3> HIDE DEF s
    <3>3. Len(s) \in Nat
      BY <3>2
    <3> QED
      BY <3>3 DEF s
  <2> HIDE DEF n
  <2>2. work'.at = 1 \/ work'.at = n + 1
    BY <1>11 DEF n
  <2>3. work'.at \in Nat /\ (work'.at = 1 \/ work'.at > n)
    BY <2>1, <2>2
  <2>4. work'.at = 1 \/ work'.at > Len(Script(w))
    BY <2>3 DEF n
  <2>5. CallCounted(work, store)'
    <3>1. CapacityOf(w.api) \in Int /\ CapacityOf(w.api) > 0 /\ store'.cap = CapacityOf(w.api)
      BY <1>1, <1>6, <1>7, <1>8
    <3>2. /\ w.api \notin {"MLDSA_Sign", "MLDSA_Verify"} => w.input = 0
          /\ w.skew \in 0..7 /\ (w.api # "MLKEM_Encaps" => w.skew = 0)
      BY <1>1, <1>8
    <3>3. work'.api = w.api /\ work'.input = w.input /\ work'.skew = w.skew /\ ~work'.ignored
      BY <1>8, <1>11
    <3> QED
      BY <1>1, <1>7, <1>10, <2>3, <2>4, <3>1, <3>2, <3>3, StartCounted
  <2> QED
    BY <1>2, <1>3, <1>11, <2>5 DEF SufficesInv
<1>12. CASE work' = w
  BY <1>8, <1>11, <1>12
<1>13. CASE work' = [w EXCEPT !.at = Len(Script(w)) + 1, !.sts = "random"]
  <2> DEFINE n == Len(Script(w)) + 1
             x == [w EXCEPT !.at = n]
             y == [x EXCEPT !.sts = "random"]
  <2>1. work' = y
    BY <1>13
  <2> HIDE DEF n
  <2>2. Fields(x) /\ x.at = n /\ DOMAIN x = parts
    BY <1>8
  <2> HIDE DEF x
  <2>3. Fields(y) /\ y.at = n
    BY <2>2
  <2> HIDE DEF y
  <2> QED
    BY <1>11, <2>1, <2>3 DEF n
<1>14. CASE work' = Idle("random")
  <2>1. IdleAt(work')
    BY <1>14, IdleIsIdle
  <2> QED
    BY <1>2, <1>3, <2>1, IdleCounted
<1> QED
  BY <1>9, <1>12, <1>13, <1>14

\* Setting a context up, or failing to, starts over.
LEMMA InitCounted ==
    ASSUME SufficesInv,
           \/ \E c \in KemParams : ippsMLKEM_Init(c)
           \/ \E c \in DsaParams, max \in MaxMessageLens \cup {0} : ippsMLDSA_Init(c, max)
           \/ \E c \in DsaParams : ippsMLDSA_InitRefused(c)
    PROVE  SufficesInv'
<1>1. StorageInv' /\ StorageInv /\ ContextHeld
  BY InitKeepsStorage DEF SufficesInv
<1>2. ASSUME NEW c \in DsaParams PROVE c \notin KemParams
  <2>1. "kem" # "dsa"
    OBVIOUS
  <2> QED
    BY <2>1, KemNumbers, DsaNumbers
<1>3. IdleAt(work')
  BY IdleIsIdle DEF ippsMLKEM_Init, ippsMLDSA_Init, ippsMLDSA_InitRefused
<1>4. CASE \E c \in KemParams : ippsMLKEM_Init(c)
  <2>1. PICK c \in KemParams : ippsMLKEM_Init(c)
    BY <1>4
  <2>2. state' = [params |-> c, max |-> 0, whole |-> TRUE, caps |-> Capacities(c, 0)] /\ build' = build
    BY <2>1 DEF ippsMLKEM_Init
  <2>3. c.family = "kem"
    BY KemNumbers
  <2>4. Capacities(state.params, state.max)' = Capacities(c, 0)
    <3>1. state'.params = c /\ state'.max = 0
      BY <2>2
    <3> QED
      BY <2>3, <3>1 DEF Capacities, KemCalls
  <2>5. ContextHeld'
    BY <2>2, <2>4 DEF ContextHeld
  <2> QED
    BY <1>1, <1>3, <2>5, IdleCounted
<1>5. CASE \E c \in DsaParams, max \in MaxMessageLens \cup {0} : ippsMLDSA_Init(c, max)
  <2>1. PICK c \in DsaParams, max \in MaxMessageLens \cup {0} : ippsMLDSA_Init(c, max)
    BY <1>5
  <2>2. state' = [params |-> c, max |-> max, whole |-> TRUE, caps |-> Capacities(c, max)] /\ build' = build
    BY <2>1 DEF ippsMLDSA_Init
  <2>3. c.family = "dsa" /\ c \notin KemParams
    BY <1>2, DsaNumbers
  <2>4. Capacities(state.params, state.max)' = Capacities(c, max)
    BY <2>2, <2>3 DEF Capacities, mldsaMemoryConsumption, SignBytes
  <2>5. max \in Nat
    BY StorageConstants
  <2>6. ContextHeld'
    BY <2>2, <2>3, <2>4, <2>5 DEF ContextHeld
  <2> QED
    BY <1>1, <1>3, <2>6, IdleCounted
<1>6. CASE \E c \in DsaParams : ippsMLDSA_InitRefused(c)
  <2>1. PICK c \in DsaParams : ippsMLDSA_InitRefused(c)
    BY <1>6
  <2>2. PICK p, m, b, caps : state = [params |-> p, max |-> m, whole |-> b, caps |-> caps]
    BY <1>1 DEF StorageInv, StateHeld
  <2>3. state' = [params |-> c, max |-> m, whole |-> FALSE, caps |-> caps]
    BY <2>1, <2>2 DEF ippsMLDSA_InitRefused
  <2>4. ContextHeld'
    BY <1>2, <2>3 DEF ContextHeld
  <2> QED
    BY <1>1, <1>3, <2>4, IdleCounted
<1> QED
  BY <1>4, <1>5, <1>6

\* The end of a call leaves what was refused as it was.
LEMMA ReturnCounted ==
    ASSUME SufficesInv, Return
    PROVE  SufficesInv'
<1>1. /\ work.at # 0 /\ UNCHANGED <<build, state>> /\ StorageInv /\ ContextHeld
      /\ ~work.stale /\ (work.refused => ~Trusted(work) \/ work.ignored)
  BY DEF Return, Resting, Quiet, SufficesInv
<1>2. StorageInv' /\ ContextHeld'
  BY <1>1, ReturnKeepsStorage, ContextKept
<1> DEFINE r == IF FirstByteIsZero(store', work.foreign) THEN work.sts ELSE "memory"
           a == [work EXCEPT !.at = 0]
           b == [a EXCEPT !.ret = r]
<1>3. work' = b
  BY DEF Return
<1>4. work \in Works
  BY <1>1 DEF StorageInv, Rested, Working
<1> HIDE DEF r
<1>5. a.at = 0 /\ a.refused = work.refused /\ a.ignored = work.ignored /\ a.stale = work.stale
      /\ a.input = work.input /\ DOMAIN a = DOMAIN work
  BY <1>4 DEF Works
<1> HIDE DEF a
<1>6. b.at = 0 /\ b.refused = work.refused /\ b.ignored = work.ignored /\ b.stale = work.stale
      /\ b.input = work.input
  BY <1>5
<1> HIDE DEF b
<1>7. Trusted(work)' <=> Trusted(work)
  BY <1>1, <1>3, <1>6 DEF Trusted
<1> QED
  BY <1>1, <1>2, <1>3, <1>6, <1>7 DEF SufficesInv

\* In every call of ML-KEM and ML-DSA, whatever fails inside, the sizes counted
\* for the working buffer cover the blocks the call takes, wherever the buffer
\* had to be aligned: no block is refused unless the context was not set up, the
\* message is longer than it was set up for or the status of an error was
\* dropped, and no function goes on with blocks released further down.
THEOREM StorageAlwaysSuffices == StorageSpec => []StorageSuffices
<1>1. StorageInit => SufficesInv
  <2> SUFFICES ASSUME StorageInit PROVE SufficesInv
    OBVIOUS
  <2>1. /\ state = [params |-> [family |-> "none"], max |-> 0, whole |-> FALSE, caps |-> <<>>]
        /\ store = EmptyStorage /\ work = Idle("none")
    BY DEF StorageInit
  <2>2. StateHeld
    <3> DEFINE p == [family |-> "none"]
               o == <<>>
    <3>1. p.family = "none" /\ DOMAIN o = {}
      OBVIOUS
    <3>2. state = [params |-> p, max |-> 0, whole |-> FALSE, caps |-> o]
      BY <2>1
    <3> HIDE DEF p, o
    <3> QED
      BY <3>1, <3>2 DEF StateHeld
  <2>3. Rested(work, store)
    <3>1. /\ Idle("none") \in Works /\ Idle("none").at = 0 /\ Idle("none").ret = "none"
      BY IdleHeld
    <3>2. "none" # "memory" /\ "none" # "ok"
      OBVIOUS
    <3> QED
      BY <2>1, <3>1, <3>2 DEF Rested, EmptyStorage
  <2>4. ContextHeld
    <3>1. state.params.family = "none" /\ "none" # "kem" /\ ~state.whole
      BY <2>1
    <3>2. state.params \notin KemParams
      BY <3>1, KemNumbers
    <3> QED
      BY <3>1, <3>2 DEF ContextHeld
  <2>5. IdleAt(work)
    BY <2>1, IdleIsIdle
  <2> QED
    BY <2>2, <2>3, <2>4, <2>5 DEF SufficesInv, StorageInv, IdleAt
<1>2. SufficesInv /\ [StorageNext]_storageVars => SufficesInv'
  <2> SUFFICES ASSUME SufficesInv, [StorageNext]_storageVars PROVE SufficesInv'
    OBVIOUS
  <2>1. CASE \/ \E c \in KemParams : ippsMLKEM_Init(c)
             \/ \E c \in DsaParams, max \in MaxMessageLens \cup {0} : ippsMLDSA_Init(c, max)
             \/ \E c \in DsaParams : ippsMLDSA_InitRefused(c)
    BY <2>1, InitCounted
  <2>2. ASSUME NEW f \in KemCalls \cup DsaCalls, NEW m \in MessageLens, NEW x \in ContextLens,
               NEW skew \in Skews, NEW foreign \in BOOLEAN, NEW drawn \in BOOLEAN,
               Begin(f, IF f \in {"MLDSA_Sign", "MLDSA_Verify"} THEN 64 + 2 + x + m ELSE 0,
                     skew, foreign, drawn)
        PROVE  SufficesInv'
    <3> DEFINE input == IF f \in {"MLDSA_Sign", "MLDSA_Verify"} THEN 64 + 2 + x + m ELSE 0
    <3>1. m \in Nat /\ x \in Nat /\ skew \in 0..7
      BY StorageConstants
    <3>2. input \in Nat
      BY <3>1
    <3>3. Begin(f, input, skew, foreign, drawn)
      BY <2>2
    <3> HIDE DEF input
    <3> QED
      BY <3>1, <3>2, <3>3, BeginCounted
  <2>3. CASE TrySucceeds \/ TryFails \/ Choose \/ GoTo \/ NextTurn \/ CheckTurns
    BY <2>3, QuietCounted
  <2>4. CASE GiveBlock \/ GiveEverything
    BY <2>4, GiveCounted
  <2>5. CASE TakeBlocks
    BY <2>5, TakeCounted
  <2>6. CASE Return
    BY <2>6, ReturnCounted
  <2>7. CASE UNCHANGED storageVars
    <3>1. UNCHANGED <<build, state, store, work>>
      BY <2>7 DEF storageVars
    <3>2. StorageInv'
      BY <3>1 DEF SufficesInv, StorageInv, StateHeld, Rested, Working, Called, Bounded
    <3>3. ContextHeld'
      BY <3>1, ContextKept DEF SufficesInv
    <3>4. Trusted(work)' <=> Trusted(work)
      BY <3>1 DEF Trusted
    <3>5. ASSUME CallCounted(work, store) PROVE CallCounted(work, store)'
      <4>1. PICK f, r : Reckoned(f, r, work, store)
        BY <3>5 DEF CallCounted
      <4>2. Script(work)' = Script(work)
        BY <3>1, ScriptKept
      <4>3. Reckoned(f, r, work, store)'
        <5>1. /\ Limits(r) /\ (r.all <=> state'.params \in KemParams) /\ r.skew = work'.skew
              /\ Trusted(work)' => r.room = store'.cap
          BY <3>1, <3>4, <4>1 DEF Reckoned
        <5>2. Accounts(f, Script(work)', Taken(0), Pairs, {}, r)
          BY <4>1, <4>2 DEF Reckoned
        <5>3. Mark(work)' = Mark(work)
          BY <3>1 DEF Mark
        <5>4. Trusted(work)' /\ (r.all \/ ~work'.ignored) /\ work'.at <= Len(Script(work)') =>
                 <<store'.used, Mark(work)'>> \in f[work'.at]
          BY <3>1, <3>4, <4>1, <4>2, <5>3 DEF Reckoned
        <5> HIDE DEF Limits, Accounts, Taken, Pairs
        <5> QED
          BY <5>1, <5>2, <5>4 DEF Reckoned
      <4>4. /\ store'.used + work'.skew <= store'.cap /\ work'.skew \in Nat
            /\ state'.params \in KemParams => Trusted(work)'
            /\ state'.params \in DsaParams => work'.skew = 0
        BY <3>1, <3>4, <3>5 DEF CallCounted
      <4> QED
        BY <4>3, <4>4 DEF CallCounted
    <3> QED
      BY <3>1, <3>2, <3>3, <3>4, <3>5 DEF SufficesInv
  <2> QED
    BY <2>1, <2>2, <2>3, <2>4, <2>5, <2>6, <2>7 DEF StorageNext
<1>3. SufficesInv => StorageSuffices
  <2> SUFFICES ASSUME SufficesInv PROVE StorageSuffices
    OBVIOUS
  <2>1. work \in Works
    BY DEF SufficesInv, StorageInv, Rested, Working
  <2>2. work.refused => \/ ~state.whole \/ work.ignored
                        \/ work.input > 64 + 2 + 255 + state.max
    <3>1. state.whole => state.max \in Nat
      BY DEF SufficesInv, ContextHeld
    <3>2. work.input \in Nat
      BY <2>1 DEF Works
    <3> QED
      BY <3>1, <3>2 DEF SufficesInv, Trusted
  <2>3. work.at > 0 => store.used + work.skew <= store.cap
    <3>1. work.at > 0 => work.at # 0
      OBVIOUS
    <3> QED
      BY <3>1 DEF SufficesInv, CallCounted
  <2>4. ~work.stale
    BY DEF SufficesInv
  <2> QED
    BY <2>2, <2>3, <2>4 DEF StorageSuffices
<1> QED
  BY <1>1, <1>2, <1>3, PTL DEF StorageSpec
=============================================================================
