------------------------------ MODULE HashDRBG ------------------------------
(***************************************************************************)
(* The Hash_DRBG component (sources/ippcp/drbg): one IppsHashDRBGState and *)
(* the IppsHashDRBG_EntropyInputCtx it is called with, driven by a caller  *)
(* that may issue any public call with any arguments at any time.          *)
(*                                                                         *)
(* The secret values V and C are abstracted to where they come from.  A    *)
(* completed seeding is named by the number of the entropy draw it used;   *)
(* V is that number and the list of everything absorbed since, so two Vs   *)
(* are equal exactly when the same hash inputs produced them.              *)
(***************************************************************************)
EXTENDS Integers, Sequences, FiniteSets

CONSTANTS
    MaxReseedInterval,   \* MAX_RESEED_INTERVAL, 2^24 in the code
    DfBlocks,            \* hash blocks in a seed: 2 for SHA-256, 3 for SHA-384
    BufLens,             \* buffer lengths the caller initialises, in bits
    SupplierLens,        \* lengths the caller's entropy callback may report
    ReqStrengths,        \* security strengths the caller may ask for
    BitCounts,           \* numbers of bits the caller may ask for
    Inputs,              \* ordinary additional inputs / personalization strings
    HashFaults,          \* TRUE if a hash call may fail for no reason of length
    MaxDraws,            \* bound: entropy draws
    MaxOutputs           \* bound: successful generate calls

ASSUME ConstantsAssumption ==
    /\ MaxReseedInterval \in Nat \ {0}
    /\ DfBlocks \in Nat \ {0}
    /\ BufLens \subseteq Nat \ {0}
    /\ SupplierLens \subseteq Int
    /\ ReqStrengths \subseteq Int
    /\ BitCounts \subseteq Int
    /\ HashFaults \in BOOLEAN
    /\ MaxDraws \in Nat
    /\ MaxOutputs \in Nat

NoInput     == "NULL, length 0"
NegativeLen == "a length below 0"
Mismatched  == "NULL with a length, or a buffer with length 0"
Overlong    == "2^31 - 7 bits or more"

Arguments == Inputs \cup {NoInput, NegativeLen, Mismatched, Overlong}

NullCallback == "RDSEED, then RDRAND"
UserCallback == "user callback"

Strengths == {128, 192, 256}

MaxBitsNumberPerRequest == 65536

-----------------------------------------------------------------------------
VARIABLES
    ctx,        \* the IppsHashDRBGState
    entr,       \* the IppsHashDRBG_EntropyInputCtx
    last,       \* the last call: its status, and what a generate call asked for
    drawn,      \* history: the lengths of the entropy inputs obtained so far
    outputs     \* history: the V each successful generate call hashed

vars == <<ctx, entr, last, drawn, outputs>>

(***************************************************************************)
(* V holds [seed |-> 0, path |-> <<>>] when zero; seed 0 with a path is a  *)
(* value no completed seeding stands behind.  C is the seeding it was      *)
(* derived from, 0 when zero, and whether all of it is there.              *)
(***************************************************************************)
ZeroV == [seed |-> 0, path |-> <<>>]
ZeroC == [seed |-> 0, whole |-> TRUE]

CValue == [seed : Nat, whole : BOOLEAN]

Absorbed == [tag : {"w"}, input : Arguments]
            \cup [tag : {"step"}, c : CValue, counter : Nat]
            \cup [tag : {"torn"}, seed : Nat]

VValue == [seed : Nat, path : Seq(Absorbed)]

Context == [idCtx : BOOLEAN, securityStrength : Strengths \cup {0},
            predictionResistanceFlag : BOOLEAN, reseedCounter : Nat,
            V : VValue, C : CValue]

EntropyCtx == [idCtx : BOOLEAN, bufBitsLen : Nat,
               getEntropyInput : {NullCallback, UserCallback}]

Statuses == {"NoErr", "ContextMatchErr", "BadArgErr", "OutOfRangeErr",
             "NotSupportedModeErr", "HashOperationErr", "SupplierErr"}

PurgedContext == [idCtx |-> FALSE, securityStrength |-> 0,
                  predictionResistanceFlag |-> FALSE, reseedCounter |-> 0,
                  V |-> ZeroV, C |-> ZeroC]

\* A call that delivered no output; one that delivered some.
Done(status) == [sts |-> status, strength |-> 0, pr |-> FALSE]
Delivered(req, pr) == [sts |-> "NoErr", strength |-> req, pr |-> pr]

Init ==
    /\ ctx = PurgedContext
    /\ entr = [idCtx |-> FALSE, bufBitsLen |-> 0, getEntropyInput |-> NullCallback]
    /\ last = Done("NoErr")
    /\ drawn = <<>>
    /\ outputs = <<>>

-----------------------------------------------------------------------------
(* Internal functions.  Each returns the set of its possible outcomes. *)

\* Mutant: the length the callback reports is compared with the buffer only.
MutantGetEntropyInput(min) ==
    IF entr.getEntropyInput = NullCallback
    THEN {[sts |-> "NoErr", bits |-> entr.bufBitsLen]}
    ELSE {[sts |-> IF n > entr.bufBitsLen THEN "OutOfRangeErr" ELSE "NoErr",
           bits |-> n] : n \in SupplierLens}

\* cpHashDRBG_GetEntropyInput: the hardware source fills the whole buffer and
\* its length is not compared with the minimum; a callback's length is.
GetEntropyInput(min) ==
    IF entr.getEntropyInput = NullCallback
    THEN {[sts |-> "NoErr", bits |-> entr.bufBitsLen],
          [sts |-> "NotSupportedModeErr", bits |-> 0]}
    ELSE {[sts |-> IF n < min \/ n > entr.bufBitsLen
                   THEN "OutOfRangeErr" ELSE "NoErr",
           bits |-> n] : n \in SupplierLens}
         \cup {[sts |-> "SupplierErr", bits |-> 0]}

\* cpHashDRBG_df: the blocks at which it may fail.  The byte count of an
\* overlong input overflows int: a build that wraps hands the hash a negative
\* length, which it refuses at once.
DfFailures(input) ==
    (IF input = Overlong THEN {1} ELSE {})
    \cup (IF HashFaults THEN 1..DfBlocks ELSE {})

\* On a failure the purge starts at the advanced output pointer: from the
\* second block on, the blocks already written stay and the bytes that
\* follow the destination are cleared instead.
DfV(k, c, block) ==
    IF block = 1 THEN [c EXCEPT !.V = ZeroV]
    ELSE [c EXCEPT !.V = [seed |-> 0, path |-> <<[tag |-> "torn", seed |-> k]>>],
                   !.C.whole = FALSE]

\* Mutant: V survives a failed derivation of C.
MutantDfC(k, c, block) == [c EXCEPT !.C = ZeroC]

DfC(k, c, block) ==
    [c EXCEPT !.V = ZeroV,
              !.C = IF block = 1 THEN ZeroC ELSE [seed |-> k, whole |-> FALSE]]

\* Mutant: the status of the derivation of V is dropped.
MutantSeeding(c, k, input) ==
    {[sts |-> "NoErr", ctx |-> DfV(k, c, b)] : b \in DfFailures(input)}
    \cup {[sts |-> "NoErr",
           ctx |-> [c EXCEPT !.V = [seed |-> k, path |-> <<>>],
                             !.C = [seed |-> k, whole |-> TRUE],
                             !.reseedCounter = 1]]}

\* V = Hash_df(seed material), C = Hash_df(0 || V), reseedCounter = 1
Seeding(c, k, input) ==
    {[sts |-> "HashOperationErr", ctx |-> DfV(k, c, b)] : b \in DfFailures(input)}
    \cup {[sts |-> "HashOperationErr", ctx |-> DfC(k, c, b)] : b \in DfFailures(NoInput)}
    \cup {[sts |-> "NoErr",
           ctx |-> [c EXCEPT !.V = [seed |-> k, path |-> <<>>],
                             !.C = [seed |-> k, whole |-> TRUE],
                             !.reseedCounter = 1]]}

\* Mutant: an error of the source is dropped; the buffer still holds the
\* entropy input of the previous seeding.
MutantObtainSeed(c, min, input) ==
    UNION {LET fresh == IF e.sts = "NoErr" THEN Append(drawn, e.bits) ELSE drawn IN
           {[sts |-> o.sts, ctx |-> o.ctx, drawn |-> fresh] :
                o \in Seeding(c, Len(fresh), input)}
           : e \in GetEntropyInput(min)}

\* The part Instantiate and Reseed share: entropy, then both derivations.
ObtainSeed(c, min, input) ==
    UNION {IF e.sts # "NoErr"
           THEN {[sts |-> e.sts, ctx |-> c, drawn |-> drawn]}
           ELSE {[sts |-> o.sts, ctx |-> o.ctx, drawn |-> Append(drawn, e.bits)] :
                     o \in Seeding(c, Len(drawn) + 1, input)}
           : e \in GetEntropyInput(min)}

-----------------------------------------------------------------------------
(* The argument checks, in the order of the code. *)

InputCheck(input) ==
    IF input = NegativeLen THEN "OutOfRangeErr"
    ELSE IF input = Mismatched THEN "BadArgErr" ELSE "NoErr"

InstantiateCheck(req, pers) ==
    IF ~entr.idCtx \/ ~ctx.idCtx THEN "ContextMatchErr"
    ELSE IF req > ctx.securityStrength THEN "BadArgErr"
    ELSE InputCheck(pers)

ReseedCheck(pr, addl) ==
    IF ~entr.idCtx \/ ~ctx.idCtx THEN "ContextMatchErr"
    ELSE IF pr /\ ~ctx.predictionResistanceFlag THEN "BadArgErr"
    ELSE InputCheck(addl)

\* Mutant: the requested strength is not compared with the context's.
MutantGenCheck(nBits, room, req, pr, addl) ==
    IF ~entr.idCtx \/ ~ctx.idCtx THEN "ContextMatchErr"
    ELSE IF \/ pr /\ ~ctx.predictionResistanceFlag
            \/ nBits < 1 \/ nBits > MaxBitsNumberPerRequest \/ nBits > room
         THEN "BadArgErr"
    ELSE InputCheck(addl)

\* room: the bits the destination holds (GenBN only; Gen has no such check)
GenCheck(nBits, room, req, pr, addl) ==
    IF ~entr.idCtx \/ ~ctx.idCtx THEN "ContextMatchErr"
    ELSE IF \/ req > ctx.securityStrength
            \/ pr /\ ~ctx.predictionResistanceFlag
            \/ nBits < 1 \/ nBits > MaxBitsNumberPerRequest \/ nBits > room
         THEN "BadArgErr"
    ELSE InputCheck(addl)

Refuse(err) ==
    /\ err # "NoErr"
    /\ last' = Done(err)
    /\ UNCHANGED <<ctx, entr, drawn, outputs>>

-----------------------------------------------------------------------------
(* The public operations. *)

\* supported: the method is one of the four the component accepts
HashDRBG_Init(supported) ==
    \/ ~supported /\ Refuse("NotSupportedModeErr")
    \/ /\ supported
       /\ ctx' = [PurgedContext EXCEPT !.idCtx = TRUE, !.securityStrength = 256]
       /\ last' = Done("NoErr")
       /\ UNCHANGED <<entr, drawn, outputs>>

EntropyInputCtxInit(bits, supplier) ==
    /\ entr' = [idCtx |-> TRUE, bufBitsLen |-> bits, getEntropyInput |-> supplier]
    /\ last' = Done("NoErr")
    /\ UNCHANGED <<ctx, drawn, outputs>>

\* The strength is rounded up to one of the set and is never raised.
RoundedStrength(req, current) ==
    IF req <= 128 THEN 128 ELSE IF req <= 192 THEN 192 ELSE current

Instantiate(req, flag, pers) ==
    LET s == RoundedStrength(req, ctx.securityStrength) IN
    \/ Refuse(InstantiateCheck(req, pers))
    \/ /\ InstantiateCheck(req, pers) = "NoErr"
       /\ Len(drawn) < MaxDraws
       /\ \E o \in ObtainSeed([ctx EXCEPT !.predictionResistanceFlag = flag,
                                          !.securityStrength = s],
                              s + s \div 2, pers) :
             last' = Done(o.sts) /\ ctx' = o.ctx /\ drawn' = o.drawn
       /\ UNCHANGED <<entr, outputs>>

Reseed(pr, addl) ==
    \/ Refuse(ReseedCheck(pr, addl))
    \/ /\ ReseedCheck(pr, addl) = "NoErr"
       /\ Len(drawn) < MaxDraws
       /\ \E o \in ObtainSeed(ctx, ctx.securityStrength, addl) :
             last' = Done(o.sts) /\ ctx' = o.ctx /\ drawn' = o.drawn
       /\ UNCHANGED <<entr, outputs>>

\* Mutants: the interval is exceeded by one; the prediction resistance request
\* is forgotten.
MutantReseedDueLate(pr) == pr \/ ctx.reseedCounter > MaxReseedInterval + 1
MutantReseedDueNoPR(pr) == ctx.reseedCounter > MaxReseedInterval

\* cpHashDRBG_Gen: when a fresh seed is due, or asked for
ReseedDue(pr) == pr \/ ctx.reseedCounter > MaxReseedInterval

\* V = V + Hash(2 || V || addlInput)
Mix(v, addl) ==
    IF addl = NoInput THEN v
    ELSE [v EXCEPT !.path = Append(@, [tag |-> "w", input |-> addl])]

\* V = V + Hash(3 || V) + C + reseedCounter
Step(v, c) ==
    [v EXCEPT !.path = Append(@, [tag |-> "step", c |-> c.C,
                                  counter |-> c.reseedCounter])]

\* On any error after the checks V and C are cleared; nothing else is.
Wiped(c) == [c EXCEPT !.V = ZeroV, !.C = ZeroC]

\* The work of cpHashDRBG_Gen and of the error path of its two callers,
\* from the state r the optional reseed left.
GenerateFrom(r, req, pr, addl) ==
    /\ drawn' = r.drawn
    /\ \/ /\ r.sts # "NoErr" 
          /\ last' = Done(r.sts) /\ ctx' = Wiped(r.ctx) /\ UNCHANGED outputs
       \/ /\ r.sts = "NoErr" /\ (HashFaults \/ addl = Overlong)
          /\ last' = Done("HashOperationErr") /\ ctx' = Wiped(r.ctx) /\ UNCHANGED outputs
       \/ LET v == Mix(r.ctx.V, addl) IN
          /\ r.sts = "NoErr"
          /\ last' = Delivered(req, pr)
          /\ outputs' = Append(outputs, v)
          /\ ctx' = [r.ctx EXCEPT !.V = Step(v, r.ctx),
                                  !.reseedCounter = @ + 1]

Generate(nBits, room, req, pr, addl) ==
    \/ Refuse(GenCheck(nBits, room, req, pr, addl))
    \/ /\ GenCheck(nBits, room, req, pr, addl) = "NoErr"
       /\ Len(outputs) < MaxOutputs
       /\ IF ReseedDue(pr)
          THEN /\ Len(drawn) < MaxDraws
               /\ \E r \in ObtainSeed(ctx, ctx.securityStrength, addl) :
                     GenerateFrom(r, req, pr, NoInput)
          ELSE GenerateFrom([sts |-> "NoErr", ctx |-> ctx, drawn |-> drawn],
                            req, pr, addl)
       /\ UNCHANGED entr

Gen(nBits, req, pr, addl) == Generate(nBits, nBits, req, pr, addl)

GenBN(nBits, room, req, pr, addl) == Generate(nBits, room, req, pr, addl)

\* Mutant: the identifier survives the purge.
MutantUninstantiate ==
    /\ ctx.idCtx
    /\ ctx' = [PurgedContext EXCEPT !.idCtx = TRUE]
    /\ last' = Done("NoErr")
    /\ UNCHANGED <<entr, drawn, outputs>>

Uninstantiate ==
    \/ ~ctx.idCtx /\ Refuse("ContextMatchErr")
    \/ /\ ctx.idCtx
       /\ ctx' = PurgedContext
       /\ last' = Done("NoErr")
       /\ UNCHANGED <<entr, drawn, outputs>>

Next ==
    \/ \E supported \in BOOLEAN : HashDRBG_Init(supported)
    \/ \E bits \in BufLens, s \in {NullCallback, UserCallback} :
          EntropyInputCtxInit(bits, s)
    \/ \E req \in ReqStrengths, flag \in BOOLEAN, pers \in Arguments :
          Instantiate(req, flag, pers)
    \/ \E pr \in BOOLEAN, addl \in Arguments : Reseed(pr, addl)
    \/ \E n \in BitCounts, req \in ReqStrengths, pr \in BOOLEAN, addl \in Arguments :
          \/ Gen(n, req, pr, addl)
          \/ \E room \in BitCounts : GenBN(n, room, req, pr, addl)
    \/ Uninstantiate

Spec == Init /\ [][Next]_vars

-----------------------------------------------------------------------------
(* Properties. *)

\* The types of the variables; a valid identifier implies a supported strength
\* (the code sets both in ippsHashDRBG_Init and clears both on purge).
TypeOK ==
    /\ ctx \in Context
    /\ ctx.idCtx => ctx.securityStrength \in Strengths
    /\ entr \in EntropyCtx
    /\ entr.idCtx => entr.bufBitsLen \in BufLens
    /\ last \in [sts : Statuses, strength : Int, pr : BOOLEAN]
    /\ drawn \in Seq(Nat)
    /\ outputs \in Seq(VValue)

\* No two successful generate calls of a seeded generator hash the same V:
\* over re-instantiation, reseeding, additional input and every error path,
\* the working state never returns to a value it was used at.
NoRepeatedOutput ==
    \A i, j \in 1..Len(outputs) :
        i # j /\ outputs[i].seed # 0 => outputs[i] # outputs[j]

\* The requests served from one seed.
ServedFrom(k) == {i \in 1..Len(outputs) : outputs[i].seed = k}

\* No seed serves more than MaxReseedInterval requests, whatever failures,
\* refused calls and re-instantiations come between them.
SeedlifeBounded ==
    \A k \in 1..Len(drawn) : Cardinality(ServedFrom(k)) <= MaxReseedInterval

\* Every request served from a seed was for at most the security strength the
\* entropy of that seed supports, although the strength of the context changes
\* before the entropy is obtained and stays changed when obtaining it fails.
StrengthBacked ==
    [][\A i \in Len(outputs) + 1 .. Len(outputs') :
          outputs'[i].seed # 0 => last'.strength <= drawn'[outputs'[i].seed]]_vars

\* The entropy behind the current seed supports the strength of the context.
\* "Checks whether the entropy is sufficient to support the security strength"
\* (doc/source/drbg/hash-drbg-inst.rst).
SeedSupportsStrength ==
    ctx.V.seed # 0 => drawn[ctx.V.seed] >= ctx.securityStrength

\* C always belongs to the V it is added to: no error between the two
\* derivations leaves a seeded V next to the C of another seeding.
ConstantMatchesValue ==
    ctx.V.seed # 0 => ctx.C = [seed |-> ctx.V.seed, whole |-> TRUE]

\* A call that asked for prediction resistance and succeeded generated from
\* entropy obtained during that very call.
PredictionResistance ==
    [][last'.pr /\ outputs' # outputs =>
          /\ Len(drawn') = Len(drawn) + 1
          /\ outputs'[Len(outputs')].seed = Len(drawn')]_vars

\* "Once the seed is provided and the initial value is determined, the DRBG is
\* said to be instantiated and may be used to produce output"
\* (doc/source/drbg/hash-drbg-index.rst): only seeded states produce output.
OnlySeededOutput ==
    \A i \in 1..Len(outputs) : outputs[i].seed # 0
=============================================================================
