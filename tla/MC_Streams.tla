----------------------------- MODULE MC_Streams -----------------------------
(* Small instances of the components that take a message in pieces.  They    *)
(* share nothing, so each behaviour exercises one of them.  Three bytes make *)
(* a block: a piece can end before, at and after the end of a block.         *)
EXTENDS AESGCM, AESCCM, AESCMAC, HMACStream

CONSTANT Subjects   \* the components exercised

VARIABLE subject

streamVars == <<subject, gcmVars, ccmVars, cmacVars, hashVars, hmacVars>>

\* A nonce whose counter is narrower than counterVal, and one whose is wider.
MCNonces == {[counters |-> 2, lengths |-> 2], [counters |-> 8, lengths |-> 32]}
MCStartLens == {-1, 2, 4}
MCTagSizes == {0, 1, 2}

StreamsInit ==
    /\ subject \in Subjects
    /\ GCMInit /\ CCMInit /\ CMACInit /\ HashStreamInit /\ HMACStreamInit
    /\ subject # "ccm" => ~ccm.aesni

StreamsNext ==
    /\ UNCHANGED subject
    /\ \/ subject = "gcm" /\ GCMNext /\ UNCHANGED <<ccmVars, cmacVars, hashVars, hmacVars>>
       \/ subject = "ccm" /\ CCMNext /\ UNCHANGED <<gcmVars, cmacVars, hashVars, hmacVars>>
       \/ subject = "cmac" /\ CMACNext /\ UNCHANGED <<gcmVars, ccmVars, hashVars, hmacVars>>
       \/ subject = "hash" /\ HashNext /\ UNCHANGED <<gcmVars, ccmVars, cmacVars, hmacVars>>
       \/ subject = "hmac" /\ HMACNext /\ UNCHANGED <<gcmVars, ccmVars, cmacVars, hashVars>>

StreamsSpec == StreamsInit /\ [][StreamsNext]_streamVars
=============================================================================
