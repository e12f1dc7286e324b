--------------------------- MODULE HashDRBG_proofs ---------------------------
(* Proofs about HashDRBG, about the life of a seed in it, and that            *)
(* HashDRBGClient implements SeededGenerator, for every value of the          *)
(* constants.                                                                 *)
EXTENDS HashDRBGClient, FiniteSetTheorems, TLAPS

(***************************************************************************)
(* The inductive invariant, over a context c, the entropy drawn d and the  *)
(* outputs s, so that it can be stated between the parts of a call: the    *)
(* reseed inside a generate leaves a context no state of the model shows.  *)
(***************************************************************************)
Typed(c, d, s) ==
    /\ c \in Context
    /\ c.idCtx => c.securityStrength \in Strengths
    /\ d \in Seq(Nat)
    /\ s \in Seq(VValue)

\* Seeds are numbered by the draws made, so a new one is new to everybody.
Numbered(c, d, s) ==
    /\ c.V.seed <= Len(d)
    /\ \A i \in 1..Len(s) : s[i].seed <= Len(d)

\* What was hashed under the current seed had absorbed less than V has now.
Growing(c, s) ==
    \A i \in 1..Len(s) :
        s[i].seed = c.V.seed /\ c.V.seed # 0 => Len(s[i].path) < Len(c.V.path)

Distinct(s) ==
    \A i, j \in 1..Len(s) : i # j /\ s[i].seed # 0 => s[i] # s[j]

Matched(c) == c.V.seed # 0 => c.C = [seed |-> c.V.seed, whole |-> TRUE]

LargeBuffers == \A n \in BufLens : n >= 256

Supported(c, d) ==
    LargeBuffers /\ c.V.seed # 0 => d[c.V.seed] >= c.securityStrength

IInv(c, d, s) ==
    /\ Typed(c, d, s)
    /\ Numbered(c, d, s)
    /\ Growing(c, s)
    /\ Distinct(s)
    /\ Matched(c)
    /\ Supported(c, d)

\* The rest of the type invariant.
OthersTyped ==
    /\ entr \in EntropyCtx
    /\ entr.idCtx => entr.bufBitsLen \in BufLens
    /\ last \in [sts : Statuses, strength : Int, pr : BOOLEAN]

-----------------------------------------------------------------------------

\* An update of the secret values and the counter keeps the context's type.
LEMMA ContextUpdate ==
    ASSUME NEW c \in Context, NEW v \in VValue, NEW cc \in CValue, NEW n \in Nat
    PROVE  /\ [c EXCEPT !.V = v, !.C = cc] \in Context
           /\ [c EXCEPT !.V = v, !.C = cc, !.reseedCounter = n] \in Context
BY DEF Context

\* So does the update that leaves C alone.
LEMMA ValueUpdate ==
    ASSUME NEW c \in Context, NEW v \in VValue, NEW n \in Nat
    PROVE  [c EXCEPT !.V = v, !.reseedCounter = n] \in Context
BY DEF Context

(***************************************************************************)
(* What an attempt to obtain a seed may do to the context: nothing, leave  *)
(* it without a seed, or put the newly drawn seed in place.                *)
(***************************************************************************)
SeedMissing(c, o) ==
    /\ o.sts # "NoErr"
    /\ o.ctx = c
    /\ o.drawn = drawn

Unseeded(c, d) ==
    \E v \in VValue, cc \in CValue : v.seed = 0 /\ d = [c EXCEPT !.V = v, !.C = cc]

SeedTorn(c, o) ==
    /\ o.sts # "NoErr"
    /\ Unseeded(c, o.ctx)
    /\ \E bits \in Nat : o.drawn = Append(drawn, bits)

SeedPlaced(c, min, o) ==
    /\ o.sts = "NoErr"
    /\ o.ctx = [c EXCEPT !.V = [seed |-> Len(drawn) + 1, path |-> <<>>],
                         !.C = [seed |-> Len(drawn) + 1, whole |-> TRUE],
                         !.reseedCounter = 1]
    /\ \E bits \in Nat :
          /\ o.drawn = Append(drawn, bits)
          /\ bits >= min \/ bits = entr.bufBitsLen

\* Reading of the possible outcomes of cpHashDRBG_GetEntropyInput.
LEMMA EntropyOutcome ==
    ASSUME TypeOK, NEW min \in Nat, NEW e \in GetEntropyInput(min)
    PROVE  /\ e.sts \in Statuses
           /\ e.sts = "NoErr" => /\ e.bits \in Nat
                                 /\ e.bits >= min \/ e.bits = entr.bufBitsLen
<1>1. CASE entr.getEntropyInput = NullCallback
  BY <1>1 DEF GetEntropyInput, TypeOK, EntropyCtx, Statuses
<1>2. CASE entr.getEntropyInput # NullCallback
  BY <1>2, ConstantsAssumption DEF GetEntropyInput, Statuses
<1> QED BY <1>1, <1>2

\* A failed derivation of V leaves a V without a seed.
LEMMA DfVOutcome ==
    ASSUME NEW c \in Context, NEW k \in Nat, NEW b \in Nat
    PROVE  Unseeded(c, DfV(k, c, b))
<1> DEFINE t == [tag |-> "torn", seed |-> k]
           v == IF b = 1 THEN ZeroV ELSE [seed |-> 0, path |-> <<t>>]
           cc == IF b = 1 THEN c.C ELSE [c.C EXCEPT !.whole = FALSE]
<1>1. t \in Absorbed
  BY DEF Absorbed
<1>2. v \in VValue /\ v.seed = 0
  BY <1>1 DEF VValue, ZeroV
<1>3. cc \in CValue
  BY DEF Context, CValue
<1>4. DfV(k, c, b) = [c EXCEPT !.V = v, !.C = cc]
  BY DEF DfV, Context, CValue
<1> QED BY <1>2, <1>3, <1>4 DEF Unseeded

\* A failed derivation of C leaves V zero.
LEMMA DfCOutcome ==
    ASSUME NEW c \in Context, NEW k \in Nat, NEW b \in Nat
    PROVE  Unseeded(c, DfC(k, c, b))
<1> DEFINE cc == IF b = 1 THEN ZeroC ELSE [seed |-> k, whole |-> FALSE]
<1>1. ZeroV \in VValue /\ ZeroV.seed = 0
  BY DEF VValue, ZeroV
<1>2. cc \in CValue
  BY DEF CValue, ZeroC
<1>3. DfC(k, c, b) = [c EXCEPT !.V = ZeroV, !.C = cc]
  BY DEF DfC
<1> QED BY <1>1, <1>2, <1>3 DEF Unseeded

\* Every outcome of an attempt to obtain a seed is one of the three.
LEMMA SeedOutcome ==
    ASSUME TypeOK, NEW c \in Context, NEW min \in Nat, NEW input,
           NEW o \in ObtainSeed(c, min, input)
    PROVE  /\ o.sts \in Statuses
           /\ SeedMissing(c, o) \/ SeedTorn(c, o) \/ SeedPlaced(c, min, o)
<1>k. PICK k \in Nat : k = Len(drawn) + 1
  BY DEF TypeOK
<1>1. PICK e \in GetEntropyInput(min) :
           o \in IF e.sts # "NoErr"
                 THEN {[sts |-> e.sts, ctx |-> c, drawn |-> drawn]}
                 ELSE {[sts |-> s.sts, ctx |-> s.ctx,
                        drawn |-> Append(drawn, e.bits)] : s \in Seeding(c, k, input)}
  BY <1>k DEF ObtainSeed
<1>2. /\ e.sts \in Statuses
      /\ e.sts = "NoErr" => /\ e.bits \in Nat
                            /\ e.bits >= min \/ e.bits = entr.bufBitsLen
  BY EntropyOutcome
<1>3. CASE e.sts # "NoErr"
  BY <1>1, <1>2, <1>3 DEF SeedMissing
<1>4. CASE e.sts = "NoErr"
  <2>1. PICK s \in Seeding(c, k, input) :
             o = [sts |-> s.sts, ctx |-> s.ctx, drawn |-> Append(drawn, e.bits)]
    BY <1>1, <1>4
  <2>2. CASE s \in {[sts |-> "HashOperationErr", ctx |-> DfV(k, c, b)] :
                       b \in DfFailures(input)}
    <3>1. PICK b \in DfFailures(input) :
               s = [sts |-> "HashOperationErr", ctx |-> DfV(k, c, b)]
      BY <2>2
    <3>2. Unseeded(c, DfV(k, c, b))
      <4>1. b \in Nat
        BY ConstantsAssumption DEF DfFailures
      <4> QED BY <4>1, DfVOutcome
    <3>3. o = [sts |-> "HashOperationErr", ctx |-> DfV(k, c, b),
               drawn |-> Append(drawn, e.bits)]
      BY <3>1, <2>1
    <3> QED BY <3>2, <3>3, <1>2, <1>4 DEF SeedTorn, Statuses
  <2>3. CASE s \in {[sts |-> "HashOperationErr", ctx |-> DfC(k, c, b)] :
                       b \in DfFailures(NoInput)}
    <3>1. PICK b \in DfFailures(NoInput) :
               s = [sts |-> "HashOperationErr", ctx |-> DfC(k, c, b)]
      BY <2>3
    <3>2. Unseeded(c, DfC(k, c, b))
      <4>1. b \in Nat
        BY ConstantsAssumption DEF DfFailures
      <4> QED BY <4>1, DfCOutcome
    <3>3. o = [sts |-> "HashOperationErr", ctx |-> DfC(k, c, b),
               drawn |-> Append(drawn, e.bits)]
      BY <3>1, <2>1
    <3> QED BY <3>2, <3>3, <1>2, <1>4 DEF SeedTorn, Statuses
  <2>4. CASE s = [sts |-> "NoErr",
                  ctx |-> [c EXCEPT !.V = [seed |-> k, path |-> <<>>],
                                    !.C = [seed |-> k, whole |-> TRUE],
                                    !.reseedCounter = 1]]
    BY <2>1, <2>4, <1>2, <1>4, <1>k DEF SeedPlaced, Statuses
  <2> QED BY <2>1, <2>2, <2>3, <2>4 DEF Seeding
<1> QED BY <1>3, <1>4

-----------------------------------------------------------------------------
(* The parts of a call preserve the invariant. *)

\* Obtaining a seed, for a context that asks at least its own strength of it.
LEMMA ObtainSeedInv ==
    ASSUME OthersTyped, entr.idCtx, TypeOK,
           NEW c, IInv(c, drawn, outputs), c.idCtx,
           NEW min \in Nat, min >= c.securityStrength, NEW input,
           NEW o \in ObtainSeed(c, min, input)
    PROVE  /\ IInv(o.ctx, o.drawn, outputs)
           /\ o.sts \in Statuses
           /\ o.ctx.idCtx
           /\ o.ctx.securityStrength = c.securityStrength
<1>1. c \in Context /\ c.securityStrength \in Strengths
  BY DEF IInv, Typed
<1>2. o.sts \in Statuses /\ (SeedMissing(c, o) \/ SeedTorn(c, o) \/ SeedPlaced(c, min, o))
  BY <1>1, SeedOutcome
<1>s. /\ Len(drawn) \in Nat
      /\ c.V.seed <= Len(drawn)
      /\ \A i \in 1..Len(outputs) : outputs[i].seed \in Nat /\ outputs[i].seed <= Len(drawn)
  <2>1. \A i \in 1..Len(outputs) : outputs[i] \in VValue
    BY DEF TypeOK
  <2> QED BY <2>1 DEF IInv, Numbered, TypeOK, VValue
<1>3. CASE SeedMissing(c, o)
  BY <1>2, <1>3 DEF SeedMissing
<1>4. CASE SeedTorn(c, o)
  <2>1. PICK v \in VValue, cc \in CValue :
             v.seed = 0 /\ o.ctx = [c EXCEPT !.V = v, !.C = cc]
    BY <1>4 DEF SeedTorn, Unseeded
  <2>2. PICK bits \in Nat : o.drawn = Append(drawn, bits)
    BY <1>4 DEF SeedTorn
  <2>3. /\ o.ctx \in Context /\ o.ctx.V.seed = 0
        /\ o.ctx.idCtx /\ o.ctx.securityStrength = c.securityStrength
    BY <1>1, <2>1 DEF Context
  <2>4. o.drawn \in Seq(Nat) /\ Len(o.drawn) = Len(drawn) + 1
    BY <2>2 DEF TypeOK
  <2>5. Typed(o.ctx, o.drawn, outputs)
    BY <1>1, <2>3, <2>4 DEF IInv, Typed
  <2>6. Numbered(o.ctx, o.drawn, outputs)
    BY <1>s, <2>3, <2>4 DEF Numbered
  <2> QED BY <1>2, <2>3, <2>5, <2>6 DEF IInv, Growing, Distinct, Matched, Supported
<1>5. CASE SeedPlaced(c, min, o)
  <2> DEFINE k == Len(drawn) + 1
  <2>1. PICK bits \in Nat : /\ o.drawn = Append(drawn, bits)
                            /\ bits >= min \/ bits = entr.bufBitsLen
    BY <1>5 DEF SeedPlaced
  <2>2. /\ o.ctx \in Context
        /\ o.ctx.V = [seed |-> k, path |-> <<>>]
        /\ o.ctx.C = [seed |-> k, whole |-> TRUE]
        /\ o.ctx.idCtx /\ o.ctx.securityStrength = c.securityStrength
    <3>a. [seed |-> k, path |-> <<>>] \in VValue /\ [seed |-> k, whole |-> TRUE] \in CValue
      BY <1>s DEF VValue, CValue
    <3> HIDE DEF k
    <3>1. PICK v \in VValue : v = [seed |-> k, path |-> <<>>]
      BY <3>a
    <3>2. PICK cc \in CValue : cc = [seed |-> k, whole |-> TRUE]
      BY <3>a
    <3>3. o.ctx = [c EXCEPT !.V = v, !.C = cc, !.reseedCounter = 1]
      BY <1>5, <3>1, <3>2 DEF SeedPlaced, k
    <3>4. o.ctx \in Context
      <4>1. PICK n \in Nat : n = 1
        OBVIOUS
      <4>2. [c EXCEPT !.V = v, !.C = cc, !.reseedCounter = n] \in Context
        BY <1>1, ContextUpdate
      <4> QED BY <4>1, <4>2, <3>3
    <3>5. /\ o.ctx.V = v /\ o.ctx.C = cc
      BY <1>1, <3>3 DEF Context
    <3>6. o.ctx.idCtx = c.idCtx
      BY <1>1, <3>3 DEF Context
    <3>7. o.ctx.securityStrength = c.securityStrength
      BY <1>1, <3>3 DEF Context
    <3> QED BY <3>1, <3>2, <3>4, <3>5, <3>6, <3>7
  <2>3. /\ o.drawn \in Seq(Nat) /\ Len(o.drawn) = k
        /\ o.drawn[k] = bits
    BY <2>1 DEF TypeOK
  <2>4. Typed(o.ctx, o.drawn, outputs)
    BY <1>1, <2>2, <2>3 DEF IInv, Typed
  <2>5. Numbered(o.ctx, o.drawn, outputs)
    BY <1>s, <2>2, <2>3 DEF Numbered
  <2>6. Growing(o.ctx, outputs)
    BY <1>s, <2>2 DEF Growing
  <2>7. Supported(o.ctx, o.drawn)
    <3>1. CASE bits >= min
      BY <3>1, <1>1, <2>2, <2>3 DEF Supported, Strengths, TypeOK
    <3>2. CASE bits = entr.bufBitsLen
      <4>1. LargeBuffers => bits >= 256
        BY <3>2 DEF LargeBuffers, OthersTyped
      <4> QED BY <4>1, <1>1, <2>2, <2>3 DEF Supported, Strengths, TypeOK
    <3> QED BY <2>1, <3>1, <3>2
  <2> QED BY <1>2, <2>2, <2>4, <2>5, <2>6, <2>7 DEF IInv, Matched
<1> QED BY <1>2, <1>3, <1>4, <1>5

\* Absorbing an additional input keeps the seed and never shortens the path.
LEMMA MixFacts ==
    ASSUME NEW v \in VValue, NEW addl \in Arguments
    PROVE  /\ Mix(v, addl) \in VValue
           /\ Mix(v, addl).seed = v.seed
           /\ Len(v.path) \in Nat
           /\ Len(Mix(v, addl).path) \in Nat
           /\ Len(Mix(v, addl).path) >= Len(v.path)
<1>1. v.path \in Seq(Absorbed) /\ v.seed \in Nat
  BY DEF VValue
<1>2. CASE addl = NoInput
  BY <1>1, <1>2 DEF Mix
<1>3. CASE addl # NoInput
  <2>1. PICK x \in Absorbed : x = [tag |-> "w", input |-> addl]
    <3>1. [tag |-> "w", input |-> addl] \in Absorbed
      BY DEF Absorbed
    <3> QED BY <3>1
  <2>2. Mix(v, addl) = [v EXCEPT !.path = Append(v.path, x)]
    BY <1>3, <2>1 DEF Mix
  <2>3. PICK p \in Seq(Absorbed) : p = Append(v.path, x) /\ Len(p) = Len(v.path) + 1
    <3>1. Append(v.path, x) \in Seq(Absorbed) /\ Len(Append(v.path, x)) = Len(v.path) + 1
      BY <1>1
    <3> QED BY <3>1
  <2>4. Mix(v, addl) = [v EXCEPT !.path = p]
    BY <2>2, <2>3
  <2>5. Mix(v, addl) \in VValue /\ Mix(v, addl).seed = v.seed /\ Mix(v, addl).path = p
    BY <2>4 DEF VValue
  <2> QED BY <1>1, <2>3, <2>5
<1> QED BY <1>2, <1>3

\* The update after a generate keeps the seed and lengthens the path.
LEMMA StepFacts ==
    ASSUME NEW v \in VValue, NEW c \in Context
    PROVE  /\ Step(v, c) \in VValue
           /\ Step(v, c).seed = v.seed
           /\ Len(Step(v, c).path) = Len(v.path) + 1
<1>1. v.path \in Seq(Absorbed) /\ v.seed \in Nat
  BY DEF VValue
<1>2. PICK x \in Absorbed : x = [tag |-> "step", c |-> c.C, counter |-> c.reseedCounter]
  <2>1. c.C \in CValue /\ c.reseedCounter \in Nat
    BY DEF Context
  <2>2. [tag |-> "step", c |-> c.C, counter |-> c.reseedCounter] \in Absorbed
    BY <2>1 DEF Absorbed
  <2> QED BY <2>2
<1>3. PICK p \in Seq(Absorbed) : p = Append(v.path, x) /\ Len(p) = Len(v.path) + 1
  <2>1. Append(v.path, x) \in Seq(Absorbed) /\ Len(Append(v.path, x)) = Len(v.path) + 1
    BY <1>1
  <2> QED BY <2>1
<1>4. Step(v, c) = [v EXCEPT !.path = p]
  BY <1>2, <1>3 DEF Step
<1>5. Step(v, c) \in VValue /\ Step(v, c).seed = v.seed /\ Step(v, c).path = p
  BY <1>4 DEF VValue
<1> QED BY <1>1, <1>3, <1>5

\* A context without V and C satisfies whatever the drawn entropy and outputs do.
LEMMA WipedInv ==
    ASSUME NEW c, NEW d, NEW s, IInv(c, d, s)
    PROVE  IInv(Wiped(c), d, s)
<1>1. c \in Context /\ ZeroV \in VValue /\ ZeroC \in CValue /\ ZeroV.seed = 0
  BY DEF IInv, Typed, ZeroV, ZeroC, VValue, CValue
<1>2. PICK v \in VValue, cc \in CValue : v = ZeroV /\ cc = ZeroC /\ v.seed = 0
  BY <1>1
<1>3. Wiped(c) = [c EXCEPT !.V = v, !.C = cc]
  BY <1>2 DEF Wiped
<1>4. Wiped(c) \in Context
  <2>1. [c EXCEPT !.V = v, !.C = cc] \in Context
    BY <1>1, ContextUpdate
  <2> QED BY <1>3, <2>1
<1>5. /\ Wiped(c).V = v
      /\ Wiped(c).idCtx = c.idCtx
      /\ Wiped(c).securityStrength = c.securityStrength
  BY <1>1, <1>3 DEF Context
<1>6. Wiped(c).V.seed = 0
  BY <1>2, <1>5
<1>7. Typed(Wiped(c), d, s)
  BY <1>4, <1>5 DEF IInv, Typed
<1>8. Numbered(Wiped(c), d, s)
  BY <1>6 DEF IInv, Typed, Numbered
<1> QED BY <1>6, <1>7, <1>8 DEF IInv, Growing, Matched, Supported

\* Generating from a state that satisfies the invariant.
LEMMA GenerateFromInv ==
    ASSUME outputs \in Seq(VValue),
           NEW r, IInv(r.ctx, r.drawn, outputs), r.sts \in Statuses,
           NEW req \in Int, NEW pr \in BOOLEAN, NEW addl \in Arguments,
           GenerateFrom(r, req, pr, addl)
    PROVE  /\ IInv(ctx', drawn', outputs')
           /\ last' \in [sts : Statuses, strength : Int, pr : BOOLEAN]
<1>1. CASE outputs' = outputs /\ ctx' = Wiped(r.ctx)
              /\ last' \in {Done(r.sts), Done("HashOperationErr")}
  <2>1. IInv(ctx', drawn', outputs')
    BY <1>1, WipedInv DEF GenerateFrom
  <2>2. last' \in [sts : Statuses, strength : Int, pr : BOOLEAN]
    <3>1. \A st \in Statuses : Done(st) \in [sts : Statuses, strength : Int, pr : BOOLEAN]
      BY DEF Done
    <3> QED BY <1>1, <3>1 DEF Statuses
  <2> QED BY <2>1, <2>2
<1>2. ASSUME NEW v, v = Mix(r.ctx.V, addl),
             last' = Delivered(req, pr),
             outputs' = Append(outputs, v),
             ctx' = [r.ctx EXCEPT !.V = Step(v, r.ctx), !.reseedCounter = @ + 1]
      PROVE  /\ IInv(ctx', drawn', outputs')
             /\ last' \in [sts : Statuses, strength : Int, pr : BOOLEAN]
  <2>c. PICK c \in Context : c = r.ctx
    BY DEF IInv, Typed
  <2>1. /\ c \in Context /\ drawn' = r.drawn /\ r.drawn \in Seq(Nat)
        /\ c.V \in VValue /\ c.reseedCounter \in Nat /\ c.V.seed \in Nat
    BY <2>c DEF IInv, Typed, Context, GenerateFrom, VValue
  <2>2. /\ v \in VValue /\ v.seed = c.V.seed
        /\ Len(c.V.path) \in Nat /\ Len(v.path) \in Nat /\ Len(v.path) >= Len(c.V.path)
    BY <1>2, <2>1, <2>c, MixFacts
  <2>3. PICK w \in VValue : /\ w = Step(v, c)
                            /\ w.seed = c.V.seed
                            /\ Len(w.path) = Len(v.path) + 1
    BY <2>1, <2>2, StepFacts
  <2>4. PICK n \in Nat : n = c.reseedCounter + 1
    BY <2>1
  <2>5. ctx' = [c EXCEPT !.V = w, !.reseedCounter = n]
    BY <1>2, <2>3, <2>4, <2>c
  <2>6. ctx' \in Context
    <3>1. [c EXCEPT !.V = w, !.reseedCounter = n] \in Context
      BY ValueUpdate
    <3> QED BY <2>5, <3>1
  <2>7. /\ ctx'.V = w /\ ctx'.C = c.C
        /\ ctx'.idCtx = c.idCtx
        /\ ctx'.securityStrength = c.securityStrength
    BY <2>1, <2>5 DEF Context
  <2>8. /\ outputs' \in Seq(VValue)
        /\ Len(outputs') = Len(outputs) + 1
        /\ Len(outputs) \in Nat
        /\ \A i \in 1..Len(outputs) : outputs'[i] = outputs[i]
        /\ outputs'[Len(outputs) + 1] = v
    BY <1>2, <2>2, <2>c
  <2>9. Typed(ctx', drawn', outputs')
    BY <2>1, <2>6, <2>7, <2>8, <2>c DEF IInv, Typed
  <2>10. Numbered(ctx', drawn', outputs')
    <3>1. ctx'.V.seed <= Len(drawn') /\ v.seed <= Len(drawn')
      BY <2>1, <2>2, <2>3, <2>7, <2>c DEF IInv, Numbered
    <3>2. \A i \in 1..Len(outputs) : outputs[i].seed <= Len(drawn')
      BY <2>1 DEF IInv, Numbered
    <3> QED BY <3>1, <3>2, <2>8 DEF Numbered
  <2>11. Growing(ctx', outputs')
    <3>1. \A i \in 1..Len(outputs) : outputs[i].path \in Seq(Absorbed)
      <4>1. \A i \in 1..Len(outputs) : outputs[i] \in VValue
        OBVIOUS
      <4> QED BY <4>1 DEF VValue
    <3>2. Len(v.path) < Len(w.path)
      BY <2>2, <2>3
    <3>3. ASSUME NEW i \in 1..Len(outputs), outputs[i].seed = w.seed, w.seed # 0
          PROVE  Len(outputs[i].path) < Len(w.path)
      <4>1. Len(outputs[i].path) \in Nat
        BY <3>1
      <4>2. Len(outputs[i].path) < Len(c.V.path)
        BY <3>3, <2>3, <2>c DEF IInv, Growing
      <4> QED BY <4>1, <4>2, <2>2, <2>3
    <3> QED BY <3>2, <3>3, <2>7, <2>8 DEF Growing
  <2>12. Distinct(outputs')
    <3>1. \A i \in 1..Len(outputs) : v.seed # 0 => outputs[i] # v
      BY <2>2, <2>c DEF IInv, Growing
    <3> QED BY <3>1, <2>8 DEF IInv, Distinct
  <2>13. Matched(ctx') /\ Supported(ctx', drawn')
    BY <2>1, <2>3, <2>7, <2>c DEF IInv, Matched, Supported
  <2>14. last' \in [sts : Statuses, strength : Int, pr : BOOLEAN]
    BY <1>2 DEF Delivered, Statuses
  <2> QED BY <2>9, <2>10, <2>11, <2>12, <2>13, <2>14 DEF IInv
<1> QED BY <1>1, <1>2 DEF GenerateFrom

-----------------------------------------------------------------------------
(* Every call preserves the invariant. *)

Invariant == OthersTyped /\ IInv(ctx, drawn, outputs)

Returned == [sts : Statuses, strength : Int, pr : BOOLEAN]

\* The result of a call that delivered nothing has the type of last.
LEMMA DoneReturned == \A st \in Statuses : Done(st) \in Returned
BY DEF Done, Returned

\* The type invariant is part of the invariant.
LEMMA InvariantImpliesTypeOK == Invariant => TypeOK
BY DEF Invariant, OthersTyped, IInv, Typed, TypeOK

\* The argument checks return statuses.
LEMMA ChecksReturnStatuses ==
    /\ \A input : InputCheck(input) \in Statuses
    /\ \A req, pers : InstantiateCheck(req, pers) \in Statuses
    /\ \A pr, addl : ReseedCheck(pr, addl) \in Statuses
    /\ \A n, room, req, pr, addl : GenCheck(n, room, req, pr, addl) \in Statuses
<1>1. \A input : InputCheck(input) \in Statuses
  BY DEF InputCheck, Statuses
<1>2. \A x \in {"ContextMatchErr", "BadArgErr"} : x \in Statuses
  BY DEF Statuses
<1> QED BY <1>1, <1>2 DEF InstantiateCheck, ReseedCheck, GenCheck

\* A refused call preserves the invariant.
LEMMA RefuseInv ==
    ASSUME Invariant, NEW err \in Statuses, Refuse(err)
    PROVE  Invariant'
BY DoneReturned DEF Invariant, Refuse, OthersTyped, Returned

\* A context whose strength is lowered and whose flag is set otherwise.
LEMMA LoweredInv ==
    ASSUME Invariant, NEW flag \in BOOLEAN, NEW st \in Strengths,
           ctx.idCtx, st <= ctx.securityStrength
    PROVE  LET c == [ctx EXCEPT !.predictionResistanceFlag = flag,
                                !.securityStrength = st]
           IN  IInv(c, drawn, outputs) /\ c.idCtx /\ c.securityStrength = st
<1> DEFINE c == [ctx EXCEPT !.predictionResistanceFlag = flag,
                            !.securityStrength = st]
<1>0. ctx \in Context /\ st \in Strengths \cup {0}
  BY DEF Invariant, IInv, Typed
<1>1. c \in Context
  BY <1>0 DEF Context
<1>2. c.V = ctx.V /\ c.C = ctx.C /\ c.idCtx = ctx.idCtx /\ c.securityStrength = st
  BY <1>0 DEF Context
<1> HIDE DEF c
<1>3. Typed(c, drawn, outputs)
  BY <1>1, <1>2 DEF Invariant, IInv, Typed
<1>4. Supported(c, drawn)
  <2>1. ASSUME LargeBuffers, c.V.seed # 0
        PROVE  drawn[c.V.seed] >= c.securityStrength
    <3>1. drawn[ctx.V.seed] >= ctx.securityStrength
      BY <2>1, <1>2 DEF Invariant, IInv, Supported
    <3>2. ctx.V.seed \in Nat /\ ctx.V.seed <= Len(drawn) /\ ctx.V.seed # 0
      BY <1>0, <1>2, <2>1 DEF Invariant, IInv, Numbered, Context, VValue
    <3>3. drawn[ctx.V.seed] \in Nat
      BY <3>2 DEF Invariant, IInv, Typed
    <3>4. ctx.securityStrength \in Nat /\ st \in Nat
      BY <1>0 DEF Context, Strengths
    <3> QED BY <3>1, <3>3, <3>4, <1>2
  <2> QED BY <2>1 DEF Supported
<1>5. IInv(c, drawn, outputs)
  BY <1>2, <1>3, <1>4 DEF Invariant, IInv, Numbered, Growing, Matched
<1>6. c.idCtx /\ c.securityStrength = st
  BY <1>2
<1> QED BY <1>5, <1>6 DEF c

\* The invariant holds before the first call.
LEMMA InitEstablishes == Init => Invariant
<1> SUFFICES ASSUME Init PROVE Invariant
  OBVIOUS
<1>1. ZeroV \in VValue /\ ZeroC \in CValue /\ ZeroV.seed = 0
  BY DEF ZeroV, ZeroC, VValue, CValue
<1>2. PurgedContext \in Context /\ ~PurgedContext.idCtx /\ PurgedContext.V.seed = 0
  BY <1>1 DEF PurgedContext, Context
<1>3. <<>> \in Seq(Nat) /\ <<>> \in Seq(VValue) /\ Len(<<>>) = 0
  OBVIOUS
<1>4. IInv(PurgedContext, <<>>, <<>>)
  BY <1>2, <1>3 DEF IInv, Typed, Numbered, Growing, Distinct, Matched, Supported
<1>5. OthersTyped
  BY DoneReturned DEF Init, OthersTyped, EntropyCtx, Returned, Statuses
<1> QED BY <1>4, <1>5 DEF Init, Invariant

\* ippsHashDRBG_Init preserves the invariant: the purged context has no seed.
LEMMA InitCallInv ==
    ASSUME Invariant, NEW supported \in BOOLEAN, HashDRBG_Init(supported)
    PROVE  Invariant'
<1>1. CASE Refuse("NotSupportedModeErr")
  BY <1>1, RefuseInv DEF Statuses
<1>2. CASE /\ ctx' = [PurgedContext EXCEPT !.idCtx = TRUE, !.securityStrength = 256]
           /\ last' = Done("NoErr")
           /\ UNCHANGED <<entr, drawn, outputs>>
  <2>1. ZeroV \in VValue /\ ZeroC \in CValue /\ ZeroV.seed = 0
    BY DEF ZeroV, ZeroC, VValue, CValue
  <2>2. ctx' \in Context /\ ctx'.securityStrength \in Strengths /\ ctx'.V.seed = 0
    <3>1. PurgedContext \in Context /\ PurgedContext.V.seed = 0
      BY <2>1 DEF PurgedContext, Context
    <3>2. PICK st \in Strengths : st = 256
      BY DEF Strengths
    <3>3. ctx' = [PurgedContext EXCEPT !.idCtx = TRUE, !.securityStrength = st]
      BY <1>2, <3>2
    <3>4. ctx' \in Context
      BY <3>1, <3>3 DEF Context
    <3>5. ctx'.securityStrength = st /\ ctx'.V = PurgedContext.V
      BY <3>1, <3>3 DEF Context
    <3> QED BY <3>1, <3>4, <3>5
  <2>3. IInv(ctx', drawn', outputs')
    BY <1>2, <2>2 DEF Invariant, IInv, Typed, Numbered, Growing, Distinct, Matched, Supported
  <2>4. OthersTyped'
    BY <1>2, DoneReturned DEF Invariant, OthersTyped, Returned, Statuses
  <2> QED BY <2>3, <2>4 DEF Invariant
<1> QED BY <1>1, <1>2 DEF HashDRBG_Init

\* ippsHashDRBG_EntropyInputCtxInit preserves the invariant.
LEMMA EntropyInitInv ==
    ASSUME Invariant, NEW bits \in BufLens, NEW s \in {NullCallback, UserCallback},
           EntropyInputCtxInit(bits, s)
    PROVE  Invariant'
<1>1. bits \in Nat
  BY ConstantsAssumption
<1>2. OthersTyped'
  BY <1>1, DoneReturned
     DEF Invariant, OthersTyped, EntropyCtx, EntropyInputCtxInit, Returned, Statuses
<1> QED BY <1>2 DEF Invariant, EntropyInputCtxInit

\* ippsHashDRBG_Instantiate preserves it, on every path.
LEMMA InstantiateInv ==
    ASSUME Invariant, NEW req \in ReqStrengths, NEW flag \in BOOLEAN,
           NEW pers \in Arguments, Instantiate(req, flag, pers)
    PROVE  Invariant'
<1> DEFINE st == RoundedStrength(req, ctx.securityStrength)
           c == [ctx EXCEPT !.predictionResistanceFlag = flag, !.securityStrength = st]
<1>1. CASE Refuse(InstantiateCheck(req, pers))
  BY <1>1, RefuseInv, ChecksReturnStatuses
<1>2. ASSUME InstantiateCheck(req, pers) = "NoErr",
             NEW o \in ObtainSeed(c, st + st \div 2, pers),
             last' = Done(o.sts), ctx' = o.ctx, drawn' = o.drawn,
             UNCHANGED <<entr, outputs>>
      PROVE  Invariant'
  <2>1. /\ ctx.idCtx /\ entr.idCtx /\ req \in Int
        /\ req <= ctx.securityStrength /\ ctx.securityStrength \in Strengths
    <3>1. ctx.idCtx /\ entr.idCtx /\ ~(req > ctx.securityStrength)
      BY <1>2 DEF InstantiateCheck
    <3>2. ctx.securityStrength \in Strengths /\ req \in Int
      BY <3>1, ConstantsAssumption DEF Invariant, IInv, Typed
    <3> QED BY <3>1, <3>2 DEF Strengths
  <2>2. st \in Strengths /\ st <= ctx.securityStrength
    BY <2>1 DEF RoundedStrength, Strengths
  <2>3. st + st \div 2 \in Nat /\ st + st \div 2 >= st
    BY <2>2 DEF Strengths
  <2> HIDE DEF st
  <2>4. IInv(c, drawn, outputs) /\ c.idCtx /\ c.securityStrength = st
    BY <2>1, <2>2, LoweredInv
  <2> HIDE DEF c
  <2>5. IInv(o.ctx, o.drawn, outputs) /\ o.sts \in Statuses
    BY <1>2, <2>1, <2>3, <2>4, ObtainSeedInv, InvariantImpliesTypeOK DEF Invariant
  <2>6. OthersTyped'
    BY <1>2, <2>5, DoneReturned DEF Invariant, OthersTyped, Returned
  <2> QED BY <1>2, <2>5, <2>6 DEF Invariant
<1> QED BY <1>1, <1>2 DEF Instantiate

\* What a reseed of the context itself, explicit or inside a generate, yields.
LEMMA ReseedOutcomeInv ==
    ASSUME Invariant, ctx.idCtx, entr.idCtx, NEW input,
           NEW o \in ObtainSeed(ctx, ctx.securityStrength, input)
    PROVE  IInv(o.ctx, o.drawn, outputs) /\ o.sts \in Statuses
<1>1. ctx.securityStrength \in Nat
  BY DEF Invariant, IInv, Typed, Context, Strengths
<1>2. IInv(ctx, drawn, outputs) /\ OthersTyped /\ TypeOK
  BY InvariantImpliesTypeOK DEF Invariant
<1>3. ctx.securityStrength >= ctx.securityStrength
  BY <1>1
<1> QED BY <1>1, <1>2, <1>3, ObtainSeedInv

\* ippsHashDRBG_Reseed preserves it, on every path.
LEMMA ReseedInv ==
    ASSUME Invariant, NEW pr \in BOOLEAN, NEW addl \in Arguments, Reseed(pr, addl)
    PROVE  Invariant'
<1>1. CASE Refuse(ReseedCheck(pr, addl))
  BY <1>1, RefuseInv, ChecksReturnStatuses
<1>2. ASSUME ReseedCheck(pr, addl) = "NoErr",
             NEW o \in ObtainSeed(ctx, ctx.securityStrength, addl),
             last' = Done(o.sts), ctx' = o.ctx, drawn' = o.drawn,
             UNCHANGED <<entr, outputs>>
      PROVE  Invariant'
  <2>1. ctx.idCtx /\ entr.idCtx
    BY <1>2 DEF ReseedCheck
  <2>2. IInv(o.ctx, o.drawn, outputs) /\ o.sts \in Statuses
    BY <2>1, ReseedOutcomeInv
  <2>3. OthersTyped'
    BY <1>2, <2>2, DoneReturned DEF Invariant, OthersTyped, Returned
  <2> QED BY <1>2, <2>2, <2>3 DEF Invariant
<1> QED BY <1>1, <1>2 DEF Reseed

\* Both generate calls preserve it, with and without a reseed inside.
LEMMA GenerateInv ==
    ASSUME Invariant, NEW nBits, NEW room, NEW req \in ReqStrengths,
           NEW pr \in BOOLEAN, NEW addl \in Arguments,
           Generate(nBits, room, req, pr, addl)
    PROVE  Invariant'
<1>0. req \in Int /\ outputs \in Seq(VValue) /\ NoInput \in Arguments
  BY ConstantsAssumption DEF Invariant, IInv, Typed, Arguments
<1>1. CASE Refuse(GenCheck(nBits, room, req, pr, addl))
  BY <1>1, RefuseInv, ChecksReturnStatuses
<1>2. ASSUME IInv(ctx', drawn', outputs'), UNCHANGED entr,
             last' \in [sts : Statuses, strength : Int, pr : BOOLEAN]
      PROVE  Invariant'
  BY <1>2 DEF Invariant, OthersTyped
<1>3. ASSUME GenCheck(nBits, room, req, pr, addl) = "NoErr", UNCHANGED entr,
             NEW r \in ObtainSeed(ctx, ctx.securityStrength, addl),
             GenerateFrom(r, req, pr, NoInput)
      PROVE  Invariant'
  <2>1. ctx.idCtx /\ entr.idCtx
    BY <1>3 DEF GenCheck
  <2>2. IInv(r.ctx, r.drawn, outputs) /\ r.sts \in Statuses
    BY <2>1, ReseedOutcomeInv
  <2> QED BY <1>0, <1>2, <1>3, <2>2, GenerateFromInv
<1>4. ASSUME UNCHANGED entr,
             GenerateFrom([sts |-> "NoErr", ctx |-> ctx, drawn |-> drawn], req, pr, addl)
      PROVE  Invariant'
  <2> DEFINE r == [sts |-> "NoErr", ctx |-> ctx, drawn |-> drawn]
  <2>1. IInv(r.ctx, r.drawn, outputs) /\ r.sts \in Statuses
    BY DEF Invariant, Statuses
  <2> HIDE DEF r
  <2>2. GenerateFrom(r, req, pr, addl)
    BY <1>4 DEF r
  <2> QED BY <1>0, <1>2, <1>4, <2>1, <2>2, GenerateFromInv
<1> QED BY <1>1, <1>3, <1>4 DEF Generate

\* ippsHashDRBG_Uninstantiate preserves the invariant.
LEMMA UninstantiateInv ==
    ASSUME Invariant, Uninstantiate
    PROVE  Invariant'
<1>1. CASE Refuse("ContextMatchErr")
  BY <1>1, RefuseInv DEF Statuses
<1>2. CASE ctx' = PurgedContext /\ last' = Done("NoErr") /\ UNCHANGED <<entr, drawn, outputs>>
  <2>1. ZeroV \in VValue /\ ZeroC \in CValue /\ ZeroV.seed = 0
    BY DEF ZeroV, ZeroC, VValue, CValue
  <2>2. ctx' \in Context /\ ~ctx'.idCtx /\ ctx'.V.seed = 0
    BY <1>2, <2>1 DEF PurgedContext, Context
  <2>3. IInv(ctx', drawn', outputs')
    BY <1>2, <2>2 DEF Invariant, IInv, Typed, Numbered, Growing, Distinct, Matched, Supported
  <2>4. OthersTyped'
    BY <1>2, DoneReturned DEF Invariant, OthersTyped, Returned, Statuses
  <2> QED BY <2>3, <2>4 DEF Invariant
<1> QED BY <1>1, <1>2 DEF Uninstantiate

\* The invariant is inductive.
LEMMA NextInv == Invariant /\ [Next]_vars => Invariant'
<1> SUFFICES ASSUME Invariant, [Next]_vars PROVE Invariant'
  OBVIOUS
<1>1. ASSUME NEW supported \in BOOLEAN, HashDRBG_Init(supported) PROVE Invariant'
  BY <1>1, InitCallInv
<1>2. ASSUME NEW bits \in BufLens, NEW s \in {NullCallback, UserCallback},
             EntropyInputCtxInit(bits, s)
      PROVE  Invariant'
  BY <1>2, EntropyInitInv
<1>3. ASSUME NEW req \in ReqStrengths, NEW flag \in BOOLEAN, NEW pers \in Arguments,
             Instantiate(req, flag, pers)
      PROVE  Invariant'
  BY <1>3, InstantiateInv
<1>4. ASSUME NEW pr \in BOOLEAN, NEW addl \in Arguments, Reseed(pr, addl)
      PROVE  Invariant'
  BY <1>4, ReseedInv
<1>5. ASSUME NEW n \in BitCounts, NEW req \in ReqStrengths, NEW pr \in BOOLEAN,
             NEW addl \in Arguments, Gen(n, req, pr, addl)
      PROVE  Invariant'
  BY <1>5, GenerateInv DEF Gen
<1>6. ASSUME NEW n \in BitCounts, NEW room \in BitCounts, NEW req \in ReqStrengths,
             NEW pr \in BOOLEAN, NEW addl \in Arguments, GenBN(n, room, req, pr, addl)
      PROVE  Invariant'
  BY <1>6, GenerateInv DEF GenBN
<1>7. CASE Uninstantiate
  BY <1>7, UninstantiateInv
<1>8. CASE UNCHANGED vars
  BY <1>8 DEF vars, Invariant, OthersTyped
<1> QED BY <1>1, <1>2, <1>3, <1>4, <1>5, <1>6, <1>7, <1>8 DEF Next

-----------------------------------------------------------------------------
(* The theorems. *)

\* The inductive invariant holds in every reachable state.
THEOREM SpecInvariant == Spec => []Invariant
BY InitEstablishes, NextInv, PTL DEF Spec

\* Type correctness of the generator and its entropy context.
THEOREM TypeCorrect == Spec => []TypeOK
BY SpecInvariant, InvariantImpliesTypeOK, PTL

\* No seeded generator ever generates twice from the same working state.
THEOREM OutputsNeverRepeat == Spec => []NoRepeatedOutput
<1>1. Invariant => NoRepeatedOutput
  BY DEF Invariant, IInv, Distinct, NoRepeatedOutput
<1> QED BY <1>1, SpecInvariant, PTL

\* The constant C in use always belongs to the seed in use.
THEOREM ConstantAlwaysMatches == Spec => []ConstantMatchesValue
<1>1. Invariant => ConstantMatchesValue
  BY DEF Invariant, IInv, Matched, ConstantMatchesValue
<1> QED BY <1>1, SpecInvariant, PTL

\* When every entropy buffer has room for 256 bits, the entropy behind the
\* current seed supports the strength the context claims.
THEOREM EntropySupportsStrength == LargeBuffers => (Spec => []SeedSupportsStrength)
<1> SUFFICES ASSUME LargeBuffers PROVE Spec => []SeedSupportsStrength
  OBVIOUS
<1>1. Invariant => SeedSupportsStrength
  BY DEF Invariant, IInv, Supported, SeedSupportsStrength
<1> QED BY <1>1, SpecInvariant, PTL

-----------------------------------------------------------------------------
(***************************************************************************)
(* What a call does to the seed in use, the draws and the outputs.         *)
(***************************************************************************)
Kept ==
    /\ ctx'.V = ctx.V /\ ctx'.reseedCounter = ctx.reseedCounter
    /\ drawn' = drawn /\ outputs' = outputs

Lost ==
    /\ ctx'.V.seed = 0
    /\ Len(drawn') \in {Len(drawn), Len(drawn) + 1}
    /\ outputs' = outputs

Seeded ==
    /\ ctx'.V.seed = Len(drawn) + 1 /\ ctx'.reseedCounter = 1
    /\ Len(drawn') = Len(drawn) + 1
    /\ outputs' = outputs

Appended(k) == \E v \in VValue : v.seed = k /\ outputs' = Append(outputs, v)

Served ==
    /\ ctx.reseedCounter <= MaxReseedInterval
    /\ ctx'.V.seed = ctx.V.seed /\ ctx'.reseedCounter = ctx.reseedCounter + 1
    /\ drawn' = drawn
    /\ Appended(ctx.V.seed)
    /\ ~last'.pr /\ last'.strength <= ctx'.securityStrength

Renewed ==
    /\ ctx'.V.seed = Len(drawn) + 1 /\ ctx'.reseedCounter = 2
    /\ Len(drawn') = Len(drawn) + 1
    /\ Appended(Len(drawn) + 1)
    /\ last'.strength <= ctx'.securityStrength

Failed == last'.sts # "NoErr" /\ (Kept \/ Lost)
Worked == last'.sts = "NoErr" /\ ctx'.idCtx /\ (Seeded \/ Served \/ Renewed)

-----------------------------------------------------------------------------

\* A refused call changes nothing but the status.
LEMMA RefuseFails ==
    ASSUME NEW err, Refuse(err)
    PROVE  Failed
BY DEF Refuse, Failed, Kept, Done

\* Obtaining a seed for a context that differs from ctx in its settings only:
\* the old seed stays, or is lost, or the new one is in place.
LEMMA ObtainOutcome ==
    ASSUME Invariant, NEW c \in Context, c.idCtx,
           c.V = ctx.V, c.reseedCounter = ctx.reseedCounter,
           NEW min \in Nat, NEW input, NEW o \in ObtainSeed(c, min, input)
    PROVE  \/ /\ o.sts # "NoErr" /\ o.drawn = drawn
              /\ o.ctx.V = ctx.V /\ o.ctx.reseedCounter = ctx.reseedCounter
              /\ o.ctx \in Context
           \/ /\ o.sts # "NoErr" /\ Len(o.drawn) = Len(drawn) + 1
              /\ o.ctx.V.seed = 0 /\ o.ctx \in Context
           \/ /\ o.sts = "NoErr" /\ Len(o.drawn) = Len(drawn) + 1
              /\ o.ctx \in Context /\ o.ctx.idCtx
              /\ o.ctx.V.seed = Len(drawn) + 1 /\ o.ctx.reseedCounter = 1
              /\ o.ctx.securityStrength = c.securityStrength
<1>1. TypeOK
  BY InvariantImpliesTypeOK
<1>2. SeedMissing(c, o) \/ SeedTorn(c, o) \/ SeedPlaced(c, min, o)
  BY <1>1, SeedOutcome
<1>3. CASE SeedMissing(c, o)
  BY <1>3 DEF SeedMissing
<1>4. CASE SeedTorn(c, o)
  <2>1. PICK v \in VValue, cc \in CValue :
             v.seed = 0 /\ o.ctx = [c EXCEPT !.V = v, !.C = cc]
    BY <1>4 DEF SeedTorn, Unseeded
  <2>2. o.ctx \in Context /\ o.ctx.V.seed = 0
    BY <2>1 DEF Context
  <2>3. Len(o.drawn) = Len(drawn) + 1 /\ o.sts # "NoErr"
    BY <1>1, <1>4 DEF SeedTorn, TypeOK
  <2> QED BY <2>2, <2>3
<1>5. CASE SeedPlaced(c, min, o)
  <2>1. PICK k \in Nat : k = Len(drawn) + 1
    BY <1>1 DEF TypeOK
  <2>a. [seed |-> k, path |-> <<>>] \in VValue /\ [seed |-> k, whole |-> TRUE] \in CValue
    BY <2>1 DEF VValue, CValue
  <2>2. PICK v \in VValue : v = [seed |-> k, path |-> <<>>]
    BY <2>a
  <2>3. PICK cc \in CValue : cc = [seed |-> k, whole |-> TRUE]
    BY <2>a
  <2>4. PICK n \in Nat : n = 1
    OBVIOUS
  <2>5. o.ctx = [c EXCEPT !.V = v, !.C = cc, !.reseedCounter = n]
    BY <1>5, <2>1, <2>2, <2>3, <2>4 DEF SeedPlaced
  <2>6. o.ctx \in Context
    <3>1. [c EXCEPT !.V = v, !.C = cc, !.reseedCounter = n] \in Context
      BY ContextUpdate
    <3> QED BY <2>5, <3>1
  <2>7. /\ o.ctx.V = v /\ o.ctx.reseedCounter = n /\ o.ctx.idCtx = c.idCtx
        /\ o.ctx.securityStrength = c.securityStrength
    BY <2>5 DEF Context
  <2>8. Len(o.drawn) = Len(drawn) + 1 /\ o.sts = "NoErr"
    BY <1>1, <1>5 DEF SeedPlaced, TypeOK
  <2> QED BY <2>1, <2>2, <2>4, <2>6, <2>7, <2>8
<1> QED BY <1>2, <1>3, <1>4, <1>5

\* ippsHashDRBG_Instantiate.
LEMMA InstantiateOutcome ==
    ASSUME Invariant, NEW req \in ReqStrengths, NEW flag \in BOOLEAN,
           NEW pers \in Arguments, Instantiate(req, flag, pers)
    PROVE  Failed \/ Worked
<1> DEFINE st == RoundedStrength(req, ctx.securityStrength)
           c == [ctx EXCEPT !.predictionResistanceFlag = flag, !.securityStrength = st]
<1>1. CASE Refuse(InstantiateCheck(req, pers))
  BY <1>1, RefuseFails
<1>2. ASSUME InstantiateCheck(req, pers) = "NoErr",
             NEW o \in ObtainSeed(c, st + st \div 2, pers),
             last' = Done(o.sts), ctx' = o.ctx, drawn' = o.drawn,
             UNCHANGED <<entr, outputs>>
      PROVE  Failed \/ Worked
  <2>1. ctx.idCtx /\ ctx \in Context /\ ctx.securityStrength \in Strengths
    BY <1>2 DEF InstantiateCheck, Invariant, IInv, Typed
  <2>2. st \in Strengths
    BY <2>1 DEF RoundedStrength, Strengths
  <2>3. st + st \div 2 \in Nat
    BY <2>2 DEF Strengths
  <2> HIDE DEF st
  <2>4. /\ c \in Context /\ c.idCtx
        /\ c.V = ctx.V /\ c.reseedCounter = ctx.reseedCounter
    <3>1. st \in Strengths \cup {0}
      BY <2>2
    <3> QED BY <2>1, <3>1 DEF Context
  <2> HIDE DEF c
  <2>5. last'.sts = o.sts
    BY <1>2 DEF Done
  <2> QED BY <1>2, <2>3, <2>4, <2>5, ObtainOutcome
          DEF Failed, Worked, Kept, Lost, Seeded
<1> QED BY <1>1, <1>2 DEF Instantiate

\* A reseed of the context itself, explicit or inside a generate call.
LEMMA ReseedPart ==
    ASSUME Invariant, ctx.idCtx, NEW input,
           NEW o \in ObtainSeed(ctx, ctx.securityStrength, input)
    PROVE  \/ /\ o.sts # "NoErr" /\ o.drawn = drawn
              /\ o.ctx.V = ctx.V /\ o.ctx.reseedCounter = ctx.reseedCounter
              /\ o.ctx \in Context
           \/ /\ o.sts # "NoErr" /\ Len(o.drawn) = Len(drawn) + 1
              /\ o.ctx.V.seed = 0 /\ o.ctx \in Context
           \/ /\ o.sts = "NoErr" /\ Len(o.drawn) = Len(drawn) + 1
              /\ o.ctx \in Context /\ o.ctx.idCtx
              /\ o.ctx.V.seed = Len(drawn) + 1 /\ o.ctx.reseedCounter = 1
              /\ o.ctx.securityStrength = ctx.securityStrength
<1>1. ctx \in Context /\ ctx.securityStrength \in Nat
  BY DEF Invariant, IInv, Typed, Context, Strengths
<1> QED BY <1>1, ObtainOutcome

\* ippsHashDRBG_Reseed.
LEMMA ReseedCallOutcome ==
    ASSUME Invariant, NEW pr \in BOOLEAN, NEW addl \in Arguments, Reseed(pr, addl)
    PROVE  Failed \/ Worked
<1>1. CASE Refuse(ReseedCheck(pr, addl))
  BY <1>1, RefuseFails
<1>2. ASSUME ReseedCheck(pr, addl) = "NoErr",
             NEW o \in ObtainSeed(ctx, ctx.securityStrength, addl),
             last' = Done(o.sts), ctx' = o.ctx, drawn' = o.drawn,
             UNCHANGED <<entr, outputs>>
      PROVE  Failed \/ Worked
  <2>1. ctx.idCtx
    BY <1>2 DEF ReseedCheck
  <2>2. last'.sts = o.sts
    BY <1>2 DEF Done
  <2> QED BY <1>2, <2>1, <2>2, ReseedPart DEF Failed, Worked, Kept, Lost, Seeded
<1> QED BY <1>1, <1>2 DEF Reseed

\* The work of a generate call on the context r the optional reseed left: V and
\* C are wiped, or one request is served from the seed of r.
LEMMA GenerateFromOutcome ==
    ASSUME NEW r, r.ctx \in Context, r.sts \in Statuses,
           NEW req \in Int, NEW pr \in BOOLEAN, NEW addl \in Arguments,
           GenerateFrom(r, req, pr, addl)
    PROVE  /\ drawn' = r.drawn
           /\ \/ /\ last'.sts # "NoErr" /\ ctx'.V.seed = 0 /\ outputs' = outputs
              \/ /\ r.sts = "NoErr" /\ last'.sts = "NoErr"
                 /\ ctx'.idCtx = r.ctx.idCtx
                 /\ ctx'.securityStrength = r.ctx.securityStrength
                 /\ ctx'.V.seed = r.ctx.V.seed
                 /\ ctx'.reseedCounter = r.ctx.reseedCounter + 1
                 /\ Appended(r.ctx.V.seed)
                 /\ last'.pr = pr /\ last'.strength = req
<1> DEFINE c == r.ctx
           v == Mix(c.V, addl)
           w == Step(v, c)
<1>0. drawn' = r.drawn
  BY DEF GenerateFrom
<1>1. ASSUME ctx' = Wiped(c), outputs' = outputs, NEW e, last' = Done(e), e # "NoErr"
      PROVE  last'.sts # "NoErr" /\ ctx'.V.seed = 0 /\ outputs' = outputs
  BY <1>1 DEF Wiped, ZeroV, Context, Done
<1>2. CASE /\ r.sts = "NoErr" /\ last' = Delivered(req, pr)
           /\ outputs' = Append(outputs, v)
           /\ ctx' = [c EXCEPT !.V = w, !.reseedCounter = @ + 1]
  <2>1. c.V \in VValue /\ c.reseedCounter \in Nat
    BY DEF Context
  <2>2. v \in VValue /\ v.seed = c.V.seed
    BY <2>1, MixFacts
  <2>3. w.seed = v.seed
    BY <2>2, StepFacts
  <2> HIDE DEF v, w, c
  <2>4. /\ ctx'.V = w /\ ctx'.reseedCounter = c.reseedCounter + 1
        /\ ctx'.idCtx = c.idCtx /\ ctx'.securityStrength = c.securityStrength
    <3>1. c \in Context
      BY DEF c
    <3> QED BY <1>2, <3>1 DEF Context
  <2>5. Appended(c.V.seed)
    BY <1>2, <2>2 DEF Appended
  <2>6. last'.sts = "NoErr" /\ last'.pr = pr /\ last'.strength = req
    BY <1>2 DEF Delivered
  <2>7. ctx'.V.seed = c.V.seed
    BY <2>2, <2>3, <2>4
  <2> QED BY <1>0, <1>2, <2>4, <2>5, <2>6, <2>7 DEF c
<1> QED BY <1>0, <1>1, <1>2 DEF GenerateFrom

\* ippsHashDRBG_Gen and ippsHashDRBG_GenBN.
LEMMA GenerateOutcome ==
    ASSUME Invariant, NEW nBits, NEW room, NEW req \in ReqStrengths,
           NEW pr \in BOOLEAN, NEW addl \in Arguments,
           Generate(nBits, room, req, pr, addl)
    PROVE  Failed \/ Worked
<1>0. req \in Int /\ NoInput \in Arguments
  BY ConstantsAssumption DEF Arguments
<1>1. CASE Refuse(GenCheck(nBits, room, req, pr, addl))
  BY <1>1, RefuseFails
<1>2. ASSUME GenCheck(nBits, room, req, pr, addl) = "NoErr"
      PROVE  /\ ctx.idCtx /\ entr.idCtx /\ ctx \in Context
             /\ ctx.securityStrength \in Strengths /\ req <= ctx.securityStrength
  <2>1. ctx.idCtx /\ entr.idCtx /\ ~(req > ctx.securityStrength)
    BY <1>2 DEF GenCheck
  <2>2. ctx \in Context /\ ctx.securityStrength \in Strengths
    BY <2>1 DEF Invariant, IInv, Typed
  <2> QED BY <1>0, <2>1, <2>2 DEF Strengths
<1>3. ASSUME GenCheck(nBits, room, req, pr, addl) = "NoErr",
             NEW r \in ObtainSeed(ctx, ctx.securityStrength, addl),
             GenerateFrom(r, req, pr, NoInput)
      PROVE  Failed \/ Worked
  <2>1. r.sts \in Statuses
    BY <1>2, <1>3, ReseedOutcomeInv
  <2>2. Len(drawn) \in Nat
    BY DEF Invariant, IInv, Typed
  <2>3. \/ r.sts # "NoErr" /\ r.ctx \in Context /\ Len(r.drawn) \in {Len(drawn), Len(drawn) + 1}
        \/ /\ r.sts = "NoErr" /\ Len(r.drawn) = Len(drawn) + 1
           /\ r.ctx \in Context /\ r.ctx.idCtx
           /\ r.ctx.V.seed = Len(drawn) + 1 /\ r.ctx.reseedCounter = 1
           /\ r.ctx.securityStrength = ctx.securityStrength
    BY <1>2, <1>3, ReseedPart
  <2>4. r.ctx \in Context
    BY <2>3
  <2>5. /\ drawn' = r.drawn
        /\ \/ /\ last'.sts # "NoErr" /\ ctx'.V.seed = 0 /\ outputs' = outputs
           \/ /\ r.sts = "NoErr" /\ last'.sts = "NoErr"
              /\ ctx'.idCtx = r.ctx.idCtx
              /\ ctx'.securityStrength = r.ctx.securityStrength
              /\ ctx'.V.seed = r.ctx.V.seed
              /\ ctx'.reseedCounter = r.ctx.reseedCounter + 1
              /\ Appended(r.ctx.V.seed)
              /\ last'.pr = pr /\ last'.strength = req
    BY <1>0, <1>3, <2>1, <2>4, GenerateFromOutcome
  <2>6. CASE last'.sts # "NoErr" /\ ctx'.V.seed = 0 /\ outputs' = outputs
    BY <2>3, <2>5, <2>6 DEF Failed, Lost
  <2>7. CASE /\ r.sts = "NoErr" /\ last'.sts = "NoErr"
             /\ ctx'.idCtx = r.ctx.idCtx
             /\ ctx'.securityStrength = r.ctx.securityStrength
             /\ ctx'.V.seed = r.ctx.V.seed
             /\ ctx'.reseedCounter = r.ctx.reseedCounter + 1
             /\ Appended(r.ctx.V.seed)
             /\ last'.pr = pr /\ last'.strength = req
    <3>1. Renewed
      BY <1>2, <1>3, <2>3, <2>5, <2>7 DEF Renewed
    <3> QED BY <2>3, <2>7, <3>1 DEF Worked
  <2> QED BY <2>5, <2>6, <2>7
<1>4. ASSUME GenCheck(nBits, room, req, pr, addl) = "NoErr", ~ReseedDue(pr),
             GenerateFrom([sts |-> "NoErr", ctx |-> ctx, drawn |-> drawn], req, pr, addl)
      PROVE  Failed \/ Worked
  <2> DEFINE r == [sts |-> "NoErr", ctx |-> ctx, drawn |-> drawn]
  <2>1. r.ctx = ctx /\ r.drawn = drawn /\ r.sts = "NoErr" /\ r.sts \in Statuses
    BY DEF Statuses
  <2> HIDE DEF r
  <2>2. r.ctx \in Context
    BY <1>2, <1>4, <2>1
  <2>3. GenerateFrom(r, req, pr, addl)
    BY <1>4 DEF r
  <2>4. ~pr /\ ctx.reseedCounter <= MaxReseedInterval
    <3>1. ctx.reseedCounter \in Nat /\ MaxReseedInterval \in Nat
      BY <1>2, <1>4, ConstantsAssumption DEF Context
    <3> QED BY <1>4, <3>1 DEF ReseedDue
  <2>5. /\ drawn' = r.drawn
        /\ \/ /\ last'.sts # "NoErr" /\ ctx'.V.seed = 0 /\ outputs' = outputs
           \/ /\ r.sts = "NoErr" /\ last'.sts = "NoErr"
              /\ ctx'.idCtx = r.ctx.idCtx
              /\ ctx'.securityStrength = r.ctx.securityStrength
              /\ ctx'.V.seed = r.ctx.V.seed
              /\ ctx'.reseedCounter = r.ctx.reseedCounter + 1
              /\ Appended(r.ctx.V.seed)
              /\ last'.pr = pr /\ last'.strength = req
    BY <1>0, <2>1, <2>2, <2>3, GenerateFromOutcome
  <2>6. CASE last'.sts # "NoErr" /\ ctx'.V.seed = 0 /\ outputs' = outputs
    BY <2>1, <2>5, <2>6 DEF Failed, Lost
  <2>7. CASE /\ r.sts = "NoErr" /\ last'.sts = "NoErr"
             /\ ctx'.idCtx = r.ctx.idCtx
             /\ ctx'.securityStrength = r.ctx.securityStrength
             /\ ctx'.V.seed = r.ctx.V.seed
             /\ ctx'.reseedCounter = r.ctx.reseedCounter + 1
             /\ Appended(r.ctx.V.seed)
             /\ last'.pr = pr /\ last'.strength = req
    <3>1. Served
      BY <1>2, <1>4, <2>1, <2>4, <2>5, <2>7 DEF Served
    <3> QED BY <1>2, <1>4, <2>1, <2>7, <3>1 DEF Worked
  <2> QED BY <2>5, <2>6, <2>7
<1> QED BY <1>1, <1>3, <1>4 DEF Generate

-----------------------------------------------------------------------------
(* The number of requests a seed has served. *)

Count(k) == Cardinality(ServedFrom(k))

\* Sets of requests are finite.
LEMMA ServedFinite ==
    ASSUME NEW k
    PROVE  outputs \in Seq(VValue) => IsFiniteSet(ServedFrom(k)) /\ Count(k) \in Nat
<1> SUFFICES ASSUME outputs \in Seq(VValue)
             PROVE  IsFiniteSet(ServedFrom(k)) /\ Count(k) \in Nat
  OBVIOUS
<1>1. Len(outputs) \in Nat
  OBVIOUS
<1>2. IsFiniteSet(1..Len(outputs))
  BY <1>1, FS_Interval
<1>3. ServedFrom(k) \subseteq 1..Len(outputs)
  BY DEF ServedFrom
<1>4. IsFiniteSet(ServedFrom(k))
  BY <1>2, <1>3, FS_Subset
<1> QED BY <1>4, FS_CardinalityType DEF Count

\* One more request is counted for its seed and for no other.
LEMMA OneMore ==
    ASSUME outputs \in Seq(VValue), NEW k, Appended(k), NEW j
    PROVE  Count(j)' = IF j = k THEN Count(j) + 1 ELSE Count(j)
<1>1. PICK v \in VValue : v.seed = k /\ outputs' = Append(outputs, v)
  BY DEF Appended
<1> DEFINE n == Len(outputs) + 1
<1>2. /\ Len(outputs) \in Nat /\ Len(outputs') = n
      /\ \A i \in 1..Len(outputs) : outputs'[i] = outputs[i]
      /\ outputs'[n] = v
  BY <1>1
<1>3. CASE j = k
  <2>1. ServedFrom(j)' = ServedFrom(j) \cup {n}
    BY <1>1, <1>2, <1>3 DEF ServedFrom
  <2>2. n \notin ServedFrom(j)
    BY <1>2 DEF ServedFrom
  <2>3. IsFiniteSet(ServedFrom(j))
    BY ServedFinite
  <2>4. Cardinality(ServedFrom(j) \cup {n}) = Cardinality(ServedFrom(j)) + 1
    BY <2>2, <2>3, FS_AddElement
  <2> QED BY <1>3, <2>1, <2>4 DEF Count
<1>4. CASE j # k
  <2>1. ServedFrom(j)' = ServedFrom(j)
    BY <1>1, <1>2, <1>4 DEF ServedFrom
  <2> QED BY <1>4, <2>1 DEF Count
<1> QED BY <1>3, <1>4

\* A seed that was never drawn has served nothing.
LEMMA NothingServed ==
    ASSUME Invariant
    PROVE  Count(Len(drawn) + 1) = 0
<1>1. Len(drawn) \in Nat /\ outputs \in Seq(VValue)
  BY DEF Invariant, IInv, Typed
<1>2. ASSUME NEW i \in 1..Len(outputs) PROVE outputs[i].seed # Len(drawn) + 1
  <2>1. outputs[i] \in VValue
    BY <1>1
  <2>2. outputs[i].seed \in Nat
    BY <2>1 DEF VValue
  <2>3. outputs[i].seed <= Len(drawn)
    BY DEF Invariant, IInv, Numbered
  <2> QED BY <1>1, <2>2, <2>3
<1>3. ServedFrom(Len(drawn) + 1) = {}
  BY <1>2 DEF ServedFrom
<1> QED BY <1>3, FS_EmptySet DEF Count

\* The seed in use has served fewer requests than the counter says, and no
\* seed more than the interval.
Lives ==
    /\ \A k \in 1..Len(drawn) : Count(k) <= MaxReseedInterval
    /\ ctx.V.seed # 0 => Count(ctx.V.seed) + 1 <= ctx.reseedCounter

\* The seed in use is none or one that was drawn.
LEMMA SeedInUse ==
    ASSUME Invariant
    PROVE  /\ ctx \in Context /\ outputs \in Seq(VValue) /\ Len(drawn) \in Nat
           /\ ctx.V.seed \in 0..Len(drawn) /\ ctx.reseedCounter \in Nat
<1>1. ctx \in Context /\ outputs \in Seq(VValue) /\ Len(drawn) \in Nat
  BY DEF Invariant, IInv, Typed
<1>2. ctx.V.seed \in Nat /\ ctx.reseedCounter \in Nat
  BY <1>1 DEF Context, VValue
<1> QED BY <1>1, <1>2 DEF Invariant, IInv, Numbered

\* Every kind of step preserves it.
LEMMA LivesKept ==
    ASSUME Invariant, Invariant', Lives, Kept \/ Lost \/ Seeded \/ Served \/ Renewed
    PROVE  Lives'
<1>1. /\ outputs \in Seq(VValue) /\ Len(drawn) \in Nat
      /\ ctx.V.seed \in 0..Len(drawn) /\ ctx.reseedCounter \in Nat
  BY SeedInUse
<1>2. MaxReseedInterval \in Nat \ {0}
  BY ConstantsAssumption
<1>3. \A k : Count(k) \in Nat
  BY <1>1, ServedFinite
<1>4. Count(Len(drawn) + 1) = 0
  BY NothingServed
<1>5. outputs' = outputs => \A k : Count(k)' = Count(k)
  BY DEF Count, ServedFrom
<1>6. CASE Kept
  BY <1>5, <1>6 DEF Kept, Lives
<1>7. CASE Lost
  <2>1. \A k \in 1..Len(drawn') : k \in 1..Len(drawn) \/ k = Len(drawn) + 1
    BY <1>1, <1>7 DEF Lost
  <2>2. \A k \in 1..Len(drawn') : Count(k) <= MaxReseedInterval
    BY <1>2, <1>4, <2>1 DEF Lives
  <2> QED BY <1>5, <1>7, <2>2 DEF Lost, Lives
<1>8. CASE Seeded
  <2>1. \A k \in 1..Len(drawn') : k \in 1..Len(drawn) \/ k = Len(drawn) + 1
    BY <1>1, <1>8 DEF Seeded
  <2>2. \A k \in 1..Len(drawn') : Count(k) <= MaxReseedInterval
    BY <1>2, <1>4, <2>1 DEF Lives
  <2>3. \A k : Count(k)' = Count(k)
    BY <1>5, <1>8 DEF Seeded
  <2> QED BY <1>4, <1>8, <2>2, <2>3 DEF Seeded, Lives
<1>9. CASE Served
  <2>0. PICK s : s = ctx.V.seed
    OBVIOUS
  <2>1. \A k : Count(k)' = IF k = s THEN Count(k) + 1 ELSE Count(k)
    BY <2>0, <1>1, <1>9, OneMore DEF Served
  <2>2. s # 0 => Count(s) + 1 <= ctx.reseedCounter
    BY <2>0 DEF Lives
  <2>3. /\ ctx'.V.seed = s /\ drawn' = drawn
        /\ ctx'.reseedCounter = ctx.reseedCounter + 1
        /\ ctx.reseedCounter <= MaxReseedInterval
    BY <2>0, <1>9 DEF Served
  <2>4. \A k \in 1..Len(drawn) : k # 0 /\ Count(k) <= MaxReseedInterval
    BY DEF Lives
  <2>5. ASSUME NEW k \in 1..Len(drawn) PROVE Count(k)' <= MaxReseedInterval
    <3>1. CASE k = s
      BY <1>1, <1>2, <1>3, <2>1, <2>2, <2>3, <2>4, <3>1
    <3>2. CASE k # s
      BY <2>1, <2>4, <3>2
    <3> QED BY <3>1, <3>2
  <2>6. s # 0 => Count(s)' + 1 <= ctx.reseedCounter + 1
    BY <1>1, <1>3, <2>1, <2>2
  <2> QED BY <2>3, <2>5, <2>6 DEF Lives
<1>10. CASE Renewed
  <2>0. PICK s : s = Len(drawn) + 1
    OBVIOUS
  <2>1. \A k : Count(k)' = IF k = s THEN Count(k) + 1 ELSE Count(k)
    BY <2>0, <1>1, <1>10, OneMore DEF Renewed
  <2>2. /\ ctx'.V.seed = s /\ Len(drawn') = s
        /\ ctx'.reseedCounter = 2
    BY <2>0, <1>10 DEF Renewed
  <2>3. \A k \in 1..Len(drawn') : k \in 1..Len(drawn) \/ k = s
    BY <2>0, <1>1, <2>2
  <2>4. Count(s)' = 1
    BY <2>0, <1>4, <2>1
  <2>5. ASSUME NEW k \in 1..Len(drawn') PROVE Count(k)' <= MaxReseedInterval
    <3>1. CASE k = s
      BY <1>2, <2>4, <3>1
    <3>2. CASE k # s
      BY <2>1, <2>3, <3>2 DEF Lives
    <3> QED BY <3>1, <3>2
  <2> QED BY <2>2, <2>4, <2>5 DEF Lives
<1> QED BY <1>6, <1>7, <1>8, <1>9, <1>10

-----------------------------------------------------------------------------
(* Any caller. *)

\* The two calls that take no part in seeding and generating: the context is
\* purged, or only the entropy context or the status changes.
LEMMA SetupOutcome ==
    /\ \A supported \in BOOLEAN : HashDRBG_Init(supported) => Kept \/ Lost
    /\ \A bits, s : EntropyInputCtxInit(bits, s) => Kept /\ ctx' = ctx
    /\ Uninstantiate => Kept \/ Lost
<1>1. PurgedContext.V.seed = 0 /\ [PurgedContext EXCEPT !.idCtx = TRUE, !.securityStrength = 256].V.seed = 0
  BY DEF PurgedContext, ZeroV
<1>2. \A supported \in BOOLEAN : HashDRBG_Init(supported) => Kept \/ Lost
  BY <1>1 DEF HashDRBG_Init, Refuse, Kept, Lost
<1>3. \A bits, s : EntropyInputCtxInit(bits, s) => Kept /\ ctx' = ctx
  BY DEF EntropyInputCtxInit, Kept
<1>4. Uninstantiate => Kept \/ Lost
  BY <1>1 DEF Uninstantiate, Refuse, Kept, Lost
<1> QED BY <1>2, <1>3, <1>4

\* A purge, a refusal and the setting up of an entropy context deliver nothing.
LEMMA StepKinds ==
    ASSUME Invariant, [Next]_vars
    PROVE  Kept \/ Lost \/ Seeded \/ Served \/ Renewed
<1>1. ASSUME Failed \/ Worked PROVE Kept \/ Lost \/ Seeded \/ Served \/ Renewed
  BY <1>1 DEF Failed, Worked
<1>2. CASE UNCHANGED vars
  BY <1>2 DEF vars, Kept
<1>3. ASSUME NEW supported \in BOOLEAN, HashDRBG_Init(supported) PROVE Kept \/ Lost
  BY <1>3, SetupOutcome
<1>4. ASSUME NEW bits, NEW s, EntropyInputCtxInit(bits, s) PROVE Kept
  BY <1>4, SetupOutcome
<1>5. ASSUME NEW req \in ReqStrengths, NEW flag \in BOOLEAN, NEW pers \in Arguments,
             Instantiate(req, flag, pers)
      PROVE  Failed \/ Worked
  BY <1>5, InstantiateOutcome
<1>6. ASSUME NEW pr \in BOOLEAN, NEW addl \in Arguments, Reseed(pr, addl)
      PROVE  Failed \/ Worked
  BY <1>6, ReseedCallOutcome
<1>7. ASSUME NEW n \in BitCounts, NEW req \in ReqStrengths, NEW pr \in BOOLEAN,
             NEW addl \in Arguments,
             Gen(n, req, pr, addl) \/ \E room \in BitCounts : GenBN(n, room, req, pr, addl)
      PROVE  Failed \/ Worked
  BY <1>7, GenerateOutcome DEF Gen, GenBN
<1>8. Uninstantiate => Kept \/ Lost
  BY SetupOutcome
<1> QED BY <1>1, <1>2, <1>3, <1>4, <1>5, <1>6, <1>7, <1>8 DEF Next

\* The bound on a seed's life is part of an inductive invariant.
LEMMA LivesInvariant == Spec => []Lives
<1>1. Init => Lives
  <2> SUFFICES ASSUME Init PROVE Lives
    OBVIOUS
  <2>1. Len(drawn) = 0 /\ ctx.V.seed = 0
    BY DEF Init, PurgedContext, ZeroV
  <2> QED BY <2>1 DEF Lives
<1>2. Invariant /\ Invariant' /\ Lives /\ [Next]_vars => Lives'
  BY StepKinds, LivesKept
<1> QED BY <1>1, <1>2, SpecInvariant, PTL DEF Spec

\* No seed serves more than MaxReseedInterval requests, whatever the caller
\* does and whatever fails: the reseed counter bounds what its seed has served.
THEOREM SeedlifeAlwaysBounded == Spec => []SeedlifeBounded
<1>1. Lives => SeedlifeBounded
  BY DEF Lives, Count, SeedlifeBounded
<1> QED BY <1>1, LivesInvariant, PTL

\* Output is delivered only by a step that served the seed in use, or renewed it.
LEMMA OutputStep ==
    ASSUME Invariant, [Next]_vars, outputs' # outputs
    PROVE  Served \/ Renewed
BY StepKinds DEF Kept, Lost, Seeded

\* What was asked with prediction resistance came from a seed drawn in the call.
THEOREM PredictionAlwaysResisted == Spec => PredictionResistance
<1> DEFINE A == last'.pr /\ outputs' # outputs =>
                  /\ Len(drawn') = Len(drawn) + 1
                  /\ outputs'[Len(outputs')].seed = Len(drawn')
<1>1. ASSUME Invariant, [Next]_vars PROVE A
  <2> SUFFICES ASSUME last'.pr, outputs' # outputs PROVE A
    OBVIOUS
  <2>1. Renewed
    BY <1>1, OutputStep DEF Served
  <2>2. PICK v \in VValue : v.seed = Len(drawn) + 1 /\ outputs' = Append(outputs, v)
    BY <2>1 DEF Renewed, Appended
  <2>3. outputs \in Seq(VValue)
    BY <1>1, SeedInUse
  <2>4. outputs'[Len(outputs')] = v
    BY <2>2, <2>3
  <2> QED BY <2>1, <2>2, <2>4 DEF Renewed
<1>2. Invariant /\ [Next]_vars => [A]_vars
  BY <1>1
<1>3. Spec => [][A]_vars
  BY <1>2, SpecInvariant, PTL DEF Spec
<1> QED BY <1>3 DEF PredictionResistance

\* When every entropy buffer has room for 256 bits, no request is served for
\* more strength than the entropy of its seed supports.
THEOREM StrengthAlwaysBacked == LargeBuffers => (Spec => StrengthBacked)
<1> SUFFICES ASSUME LargeBuffers PROVE Spec => StrengthBacked
  OBVIOUS
<1> DEFINE A == \A i \in Len(outputs) + 1 .. Len(outputs') :
                  outputs'[i].seed # 0 => last'.strength <= drawn'[outputs'[i].seed]
<1>1. ASSUME Invariant, Invariant', [Next]_vars PROVE A
  <2> SUFFICES ASSUME NEW i \in Len(outputs) + 1 .. Len(outputs'), outputs'[i].seed # 0
               PROVE  last'.strength <= drawn'[outputs'[i].seed]
    OBVIOUS
  <2>1. outputs \in Seq(VValue) /\ Len(outputs) \in Nat
    BY <1>1, SeedInUse
  <2>2. outputs' # outputs
    BY <2>1
  <2>3. /\ Appended(ctx'.V.seed)
        /\ last'.strength <= ctx'.securityStrength
    BY <1>1, <2>2, OutputStep DEF Served, Renewed
  <2>4. PICK v \in VValue : v.seed = ctx'.V.seed /\ outputs' = Append(outputs, v)
    BY <2>3 DEF Appended
  <2>5. outputs'[i] = v
    BY <2>1, <2>4
  <2>6. drawn'[ctx'.V.seed] >= ctx'.securityStrength
    BY <1>1, <2>4, <2>5 DEF Invariant, IInv, Supported
  <2>7. /\ drawn'[ctx'.V.seed] \in Nat /\ ctx'.securityStrength \in Nat
        /\ last'.strength \in Int
    <3>1. ctx'.V.seed \in 1..Len(drawn')
      <4>a. ctx' \in Context /\ Len(drawn') \in Nat
        BY <1>1 DEF Invariant, IInv, Typed
      <4>b. ctx'.V.seed \in Nat
        BY <4>a DEF Context, VValue
      <4>1. ctx'.V.seed \in 0..Len(drawn') /\ Len(drawn') \in Nat
        BY <1>1, <4>a, <4>b DEF Invariant, IInv, Numbered
      <4> QED BY <4>1, <2>4, <2>5
    <3>2. drawn' \in Seq(Nat) /\ ctx' \in Context
      BY <1>1 DEF Invariant, IInv, Typed
    <3>3. ctx'.securityStrength \in Strengths \cup {0}
      BY <3>2 DEF Context
    <3>4. last'.strength \in Int
      BY <1>1 DEF Invariant, OthersTyped
    <3>5. drawn'[ctx'.V.seed] \in Nat
      BY <3>1, <3>2
    <3>6. ctx'.securityStrength \in Nat
      BY <3>3 DEF Strengths
    <3> QED BY <3>4, <3>5, <3>6
  <2> QED BY <2>3, <2>4, <2>5, <2>6, <2>7
<1>2. Invariant /\ Invariant' /\ [Next]_vars => [A]_vars
  BY <1>1
<1>3. Spec => [][A]_vars
  BY <1>2, SpecInvariant, PTL DEF Spec
<1> QED BY <1>3 DEF StrengthBacked

-----------------------------------------------------------------------------
(* A caller that follows the protocol. *)

\* The client's steps are steps of the component.
LEMMA ClientSteps == [ClientNext]_clientVars => [Next]_vars
<1> SUFFICES ASSUME [ClientNext]_clientVars PROVE [Next]_vars
  OBVIOUS
<1>1. CASE UNCHANGED clientVars
  BY <1>1 DEF clientVars
<1>2. CASE ClientNext
  BY <1>2 DEF ClientNext, Next
<1> QED BY <1>1, <1>2

ClientInv == Invariant /\ Lives /\ LiveIsSeeded

\* What a client's step does, with what the client concludes from its status.
LEMMA ClientOutcome ==
    ASSUME Invariant, ClientNext
    PROVE  \/ (Kept \/ Lost) /\ ~live'
           \/ Kept /\ ctx' = ctx /\ live' = live
           \/ Worked /\ live' /\ (outputs' # outputs => live)
<1>1. ASSUME NEW supported \in BOOLEAN, HashDRBG_Init(supported) PROVE Kept \/ Lost
  BY <1>1, SetupOutcome
<1>2. ASSUME NEW bits, NEW s, EntropyInputCtxInit(bits, s) PROVE Kept /\ ctx' = ctx
  BY <1>2, SetupOutcome
<1>3. ASSUME NEW req \in ReqStrengths, NEW flag \in BOOLEAN, NEW pers \in Arguments,
             Instantiate(req, flag, pers)
      PROVE  (Failed \/ Worked) /\ outputs' = outputs
  <2>1. outputs' = outputs
    BY <1>3 DEF Instantiate, Refuse
  <2> QED BY <1>3, <2>1, InstantiateOutcome
<1>4. ASSUME NEW pr \in BOOLEAN, NEW addl \in Arguments, Reseed(pr, addl)
      PROVE  Failed \/ Worked
  BY <1>4, ReseedCallOutcome
<1>5. ASSUME NEW n \in BitCounts, NEW req \in ReqStrengths, NEW pr \in BOOLEAN,
             NEW addl \in Arguments,
             Gen(n, req, pr, addl) \/ \E room \in BitCounts : GenBN(n, room, req, pr, addl)
      PROVE  Failed \/ Worked
  BY <1>5, GenerateOutcome DEF Gen, GenBN
<1>6. Uninstantiate => Kept \/ Lost
  BY SetupOutcome
<1>7. ASSUME Failed \/ Worked, live' = (last'.sts = "NoErr"), outputs' # outputs => live
      PROVE  \/ (Kept \/ Lost) /\ ~live'
             \/ Worked /\ live' /\ (outputs' # outputs => live)
  <2>1. CASE Failed
    BY <1>7, <2>1 DEF Failed
  <2>2. CASE Worked
    BY <1>7, <2>2 DEF Worked
  <2> QED BY <1>7, <2>1, <2>2
<1> QED BY <1>1, <1>2, <1>3, <1>4, <1>5, <1>6, <1>7 DEF ClientNext

\* The client's invariant.
LEMMA ClientInvariant == ClientSpec => []ClientInv
<1>1. ClientInit => ClientInv
  <2> SUFFICES ASSUME ClientInit PROVE ClientInv
    OBVIOUS
  <2>1. Invariant
    BY InitEstablishes DEF ClientInit
  <2>2. Len(drawn) = 0 /\ ctx.V.seed = 0
    BY DEF ClientInit, Init, PurgedContext, ZeroV
  <2> QED BY <2>1, <2>2 DEF ClientInit, ClientInv, Lives, LiveIsSeeded
<1>2. ASSUME ClientInv, [ClientNext]_clientVars PROVE ClientInv'
  <2>1. Invariant' /\ Lives'
    BY <1>2, ClientSteps, NextInv, StepKinds, LivesKept DEF ClientInv
  <2>2. LiveIsSeeded'
    <3>1. CASE UNCHANGED clientVars
      BY <1>2, <3>1 DEF clientVars, vars, ClientInv, LiveIsSeeded
    <3>2. CASE ClientNext
      <4>1. Len(drawn) \in Nat
        BY <1>2, SeedInUse DEF ClientInv
      <4>2. \/ (Kept \/ Lost) /\ ~live'
            \/ Kept /\ ctx' = ctx /\ live' = live
            \/ Worked /\ live' /\ (outputs' # outputs => live)
        BY <1>2, <3>2, ClientOutcome DEF ClientInv
      <4>3. ASSUME Worked, outputs' # outputs => live PROVE ctx'.idCtx /\ ctx'.V.seed # 0
        <5>1. Served => outputs' # outputs
          <6>1. outputs \in Seq(VValue)
            BY <1>2, SeedInUse DEF ClientInv
          <6>2. \A v \in VValue : Append(outputs, v) # outputs
            BY <6>1
          <6> QED BY <6>2 DEF Served, Appended
        <5> QED BY <1>2, <4>1, <4>3, <5>1 DEF Worked, Seeded, Served, Renewed, ClientInv, LiveIsSeeded
      <4> QED BY <1>2, <4>2, <4>3 DEF ClientInv, LiveIsSeeded
    <3> QED BY <1>2, <3>1, <3>2
  <2> QED BY <2>1, <2>2 DEF ClientInv
<1> QED BY <1>1, <1>2, PTL DEF ClientSpec

\* A generator the client regards as instantiated has a seed.
THEOREM LiveAlwaysSeeded == ClientSpec => []LiveIsSeeded
<1>1. ClientInv => LiveIsSeeded
  BY DEF ClientInv
<1> QED BY <1>1, ClientInvariant, PTL

-----------------------------------------------------------------------------
(* The refinement. *)

Delivery == [i \in 1..Len(outputs) |-> outputs[i].seed]

\* Requests are counted alike on both levels.
LEMMA ServedAlike ==
    ASSUME outputs \in Seq(VValue), NEW k
    PROVE  Generator!Served(k) = Count(k)
<1>1. Len(outputs) \in Nat
  OBVIOUS
<1>2. Len(Delivery) = Len(outputs)
  BY <1>1 DEF Delivery
<1>3. {i \in 1..Len(Delivery) : Delivery[i] = k} = ServedFrom(k)
  BY <1>1, <1>2 DEF Delivery, ServedFrom
<1> QED BY <1>3 DEF Generator!Served, Count, Delivery, Cardinality, Generator!Cardinality

\* A request served is delivered on the abstract level.
LEMMA DeliveredAlike ==
    ASSUME outputs \in Seq(VValue), NEW k, Appended(k)
    PROVE  Delivery' = Append(Delivery, k)
<1>1. PICK v \in VValue : v.seed = k /\ outputs' = Append(outputs, v)
  BY DEF Appended
<1>2. Len(outputs) \in Nat
  OBVIOUS
<1>3. /\ Len(outputs') = Len(outputs) + 1
      /\ \A i \in 1..Len(outputs) : outputs'[i] = outputs[i]
      /\ outputs'[Len(outputs) + 1] = v
  BY <1>1
<1>4. Delivery' = [i \in 1..Len(outputs) + 1 |-> outputs'[i].seed]
  BY <1>3 DEF Delivery
<1>5. Append(Delivery, k) = [i \in 1..Len(outputs) + 1 |->
                               IF i = Len(outputs) + 1 THEN k ELSE outputs[i].seed]
  BY <1>2 DEF Delivery
<1> QED BY <1>1, <1>2, <1>3, <1>4, <1>5

\* The component, used by the protocol, implements the seeded generator: output
\* comes from a current seed only, a lost or replaced one is never used again
\* and none serves more than its limit, whatever fails inside a call.
THEOREM ClientImplementsSeededGenerator == ClientSpec => ImplementsSeededGenerator
<1>1. ClientInit => Generator!Init
  <2> SUFFICES ASSUME ClientInit PROVE Generator!Init
    OBVIOUS
  <2>1. outputs = <<>> /\ drawn = <<>> /\ ctx.V.seed = 0
    BY DEF ClientInit, Init, PurgedContext, ZeroV
  <2>2. Len(drawn) = 0 /\ Delivery = <<>>
    BY <2>1 DEF Delivery
  <2> QED BY <2>1, <2>2 DEF Generator!Init, Delivery
<1>2. ASSUME ClientInv, ClientInv', [ClientNext]_clientVars
      PROVE  [Generator!Next]_(Generator!gvars)
  <2>0. /\ outputs \in Seq(VValue) /\ Len(drawn) \in Nat
        /\ ctx.reseedCounter \in Nat /\ ctx.V.seed \in 0..Len(drawn)
    BY <1>2, SeedInUse DEF ClientInv
  <2>1. ASSUME outputs' = outputs PROVE Delivery' = Delivery
    BY <2>1 DEF Delivery
  <2>2. ASSUME Kept PROVE UNCHANGED Generator!gvars
    BY <2>1, <2>2 DEF Kept, Generator!gvars, Delivery
  <2>3. ASSUME Lost PROVE Generator!Lose
    BY <2>1, <2>3 DEF Lost, Generator!Lose, Generator!Fresh, Delivery
  <2>4. ASSUME Seeded PROVE Generator!Seed
    BY <2>1, <2>4 DEF Seeded, Generator!Seed, Generator!Fresh, Delivery
  <2>5. ASSUME Served, ctx.V.seed # 0 PROVE Generator!Provide
    <3>1. Delivery' = Append(Delivery, ctx.V.seed)
      <4>1. PICK k : k = ctx.V.seed
        OBVIOUS
      <4> QED BY <2>0, <2>5, <4>1, DeliveredAlike DEF Served
    <3>2. Generator!Served(ctx.V.seed) < MaxReseedInterval
      <4>1. Generator!Served(ctx.V.seed) = Count(ctx.V.seed)
        BY <2>0, ServedAlike
      <4>2. Count(ctx.V.seed) \in Nat
        BY <2>0, ServedFinite
      <4>3. MaxReseedInterval \in Nat
        BY ConstantsAssumption
      <4>4. Count(ctx.V.seed) + 1 <= ctx.reseedCounter
        BY <1>2, <2>5 DEF ClientInv, Lives
      <4> QED BY <2>0, <2>5, <4>1, <4>2, <4>3, <4>4 DEF Served
    <3>3. ctx'.V.seed = ctx.V.seed /\ Len(drawn') = Len(drawn)
      BY <2>5 DEF Served
    <3> QED BY <2>5, <3>1, <3>2, <3>3 DEF Generator!Provide, Delivery
  <2>6. ASSUME Renewed PROVE Generator!SeedAndProvide
    <3>1. Delivery' = Append(Delivery, Len(drawn) + 1)
      <4>1. PICK k : k = Len(drawn) + 1
        OBVIOUS
      <4> QED BY <2>0, <2>6, <4>1, DeliveredAlike DEF Renewed
    <3> QED BY <2>6, <3>1 DEF Renewed, Generator!SeedAndProvide, Generator!Fresh, Delivery
  <2>7. CASE UNCHANGED clientVars
    <3>1. Kept
      BY <2>7 DEF clientVars, vars, Kept
    <3> QED BY <2>2, <3>1
  <2>8. CASE ClientNext
    <3>1. Served => ctx.V.seed # 0
      <4>1. Served => outputs' # outputs
        <5>1. \A v \in VValue : Append(outputs, v) # outputs
          BY <2>0
        <5> QED BY <5>1 DEF Served, Appended
      <4>2. \/ Kept \/ Lost
            \/ Worked /\ live' /\ (outputs' # outputs => live)
        BY <1>2, <2>8, ClientOutcome DEF ClientInv
      <4> QED BY <1>2, <4>1, <4>2 DEF Kept, Lost, ClientInv, LiveIsSeeded
    <3>2. Kept \/ Lost \/ Seeded \/ Served \/ Renewed
      BY <1>2, ClientSteps, StepKinds DEF ClientInv
    <3> QED BY <2>2, <2>3, <2>4, <2>5, <2>6, <3>1, <3>2 DEF Generator!Next
  <2> QED BY <1>2, <2>7, <2>8
<1> QED BY <1>1, <1>2, ClientInvariant, PTL
        DEF ClientSpec, ImplementsSeededGenerator, Generator!Spec
=============================================================================
