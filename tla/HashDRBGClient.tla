---------------------------- MODULE HashDRBGClient ----------------------------
(* A caller that follows the protocol of doc/source/drbg/hash-drbg-index.rst: *)
(* instantiate, then generate and reseed; after any call that reports an      *)
(* error it instantiates again before it asks for output.                     *)
EXTENDS HashDRBG

VARIABLE live   \* the caller regards the generator as instantiated

clientVars == <<vars, live>>

ClientInit == Init /\ live = FALSE

ClientNext ==
    \/ /\ \E supported \in BOOLEAN : HashDRBG_Init(supported)
       /\ live' = FALSE
    \/ /\ \E bits \in BufLens, s \in {NullCallback, UserCallback} :
             EntropyInputCtxInit(bits, s)
       /\ UNCHANGED live
    \/ /\ \E req \in ReqStrengths, flag \in BOOLEAN, pers \in Arguments :
             Instantiate(req, flag, pers)
       /\ live' = (last'.sts = "NoErr")
    \/ /\ live
       /\ \E pr \in BOOLEAN, addl \in Arguments : Reseed(pr, addl)
       /\ live' = (last'.sts = "NoErr")
    \/ /\ live
       /\ \E n \in BitCounts, req \in ReqStrengths, pr \in BOOLEAN, addl \in Arguments :
             \/ Gen(n, req, pr, addl)
             \/ \E room \in BitCounts : GenBN(n, room, req, pr, addl)
       /\ live' = (last'.sts = "NoErr")
    \/ Uninstantiate /\ live' = FALSE

ClientSpec == ClientInit /\ [][ClientNext]_clientVars

\* What the caller believes is so: a generator it regards as instantiated has
\* a seed, although only ippsHashDRBG_Instantiate's status told it so.
LiveIsSeeded == live => ctx.idCtx /\ ctx.V.seed # 0

\* Used that way, the component implements the abstract generator.
Generator == INSTANCE SeededGenerator WITH
    SeedlifeLimit <- MaxReseedInterval,
    current <- ctx.V.seed,
    used <- Len(drawn),
    delivered <- [i \in 1..Len(outputs) |-> outputs[i].seed]

ImplementsSeededGenerator == Generator!Spec
===============================================================================
