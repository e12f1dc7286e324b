--------------------------- MODULE MC_PostQuantum ---------------------------
(* Small instances of the Merkle tree of LMS and of the scratch storage of    *)
(* ML-KEM and ML-DSA.  They share nothing and each behaviour exercises one.   *)
(* The tree is the smallest the code has, with every size of the extra buffer *)
(* up to more than the whole tree of 62 nodes below the root; the parameter   *)
(* sets of the storage are the real ones.                                     *)
EXTENDS LMSTreeHash, MLStorage

CONSTANT Subjects   \* "tree", "storage"

VARIABLE subject

MCHeights  == {5}
MCAuxSizes == 0..65

PostQuantumInit ==
    /\ subject \in Subjects
    /\ Init /\ StorageInit
    /\ subject # "tree" => auxSize = 0
    /\ subject # "storage" => build = "portable"

PostQuantumNext ==
    /\ UNCHANGED subject
    /\ \/ subject = "tree" /\ Next /\ UNCHANGED storageVars
       \/ subject = "storage" /\ StorageNext /\ UNCHANGED vars

PostQuantumSpec == PostQuantumInit /\ [][PostQuantumNext]_<<subject, vars, storageVars>>
=============================================================================
