----------------------------- MODULE MC_Signers -----------------------------
(* Small instances of the two stateful signature schemes.  They share nothing *)
(* and each behaviour exercises one of them.                                  *)
EXTENDS LMSSigner, XMSS

VARIABLE scheme

SignersInit ==
    /\ scheme \in {"LMS", "XMSS"} /\ SignerInit /\ XMSSInit
    /\ scheme = "XMSS" => prv.q = 0

SignersNext ==
    /\ UNCHANGED scheme
    /\ \/ scheme = "LMS" /\ Next /\ UNCHANGED xmssVars
       \/ scheme = "XMSS" /\ XMSSNext /\ UNCHANGED vars

SignersSpec == SignersInit /\ [][SignersNext]_<<scheme, vars, xmssVars>>
=============================================================================
