------------------------------- MODULE LMSKey -------------------------------
(***************************************************************************)
(* The life of an LMS key pair in memory (stateful_sig/lms): the private   *)
(* key state with its signature counter q, the public key state and the    *)
(* signature state, and the calls that change them.                        *)
(*                                                                         *)
(* A secret seed is the number of the key it belongs to; a one-time        *)
(* signature is the key, the index and the digest it was made for.  What   *)
(* the hash tree computes is in LMSTreeHash.                               *)
(***************************************************************************)
EXTENDS Integers, FiniteSets

CONSTANTS
    Leaves,      \* 2^h: one-time keys of a key pair
    MaxKeys,     \* bound: key pairs generated
    MaxDigests   \* bound: digests signed

ASSUME ConstantsAssumption ==
    /\ Leaves \in Nat \ {0}
    /\ MaxKeys \in Nat
    /\ MaxDigests \in Nat

External == 1    \* the key pair generated elsewhere, which the caller imports
Zeroed   == 0    \* a purged seed
Unset    == -1   \* memory no call has filled

VARIABLES
    prv,       \* the IppsLMSPrivateKeyState
    pub,       \* the key whose root and identifier the public key state holds
    sig,       \* the IppsLMSSignatureState; "made" is what C and Y are worth
    sts,       \* the status of the last call
    nkeys,     \* history: the key pairs there are; they are numbered from 1
    digests,   \* history: the digests signed; they are numbered from 1
    used       \* history: the one-time signatures computed, even in part

keyVars == <<prv, pub, sig, sts, nkeys, digests, used>>

NoSignature == [key |-> Unset, digest |-> 0]

FreshSignature == [ctx |-> FALSE, q |-> 0, made |-> NoSignature]

\* Memory before the first call: the counter is whatever was there.
Init ==
    /\ \E q \in 0..Leaves : prv = [ctx |-> FALSE, key |-> Unset, q |-> q]
    /\ pub = Unset
    /\ sig = FreshSignature
    /\ sts = "NoErr"
    /\ nkeys = External
    /\ digests = 0
    /\ used = {}

-----------------------------------------------------------------------------

\* Identifiers, algorithms and pointers are set; the values are left alone.
InitKeyPair ==
    /\ prv' = [prv EXCEPT !.ctx = TRUE]
    /\ sts' = "NoErr"
    /\ UNCHANGED <<pub, sig, nkeys, digests, used>>

InitSignature ==
    /\ sig' = [ctx |-> TRUE, q |-> 0, made |-> NoSignature]
    /\ sts' = "NoErr"
    /\ UNCHANGED <<prv, pub, nkeys, digests, used>>

\* Mutant: the purge of the seed is forgotten on one error path.
MutantKeyGen ==
    /\ prv.ctx
    /\ prv' = [prv EXCEPT !.q = 0]
    /\ sts' = "RandErr"
    /\ UNCHANGED <<pub, sig, nkeys, digests, used>>

\* q is reset first.  An error of either source of randomness or of the tree
\* purges the seed; the public key is written only when all went well.
KeyGen ==
    \/ /\ ~prv.ctx
       /\ sts' = "ContextMatchErr"
       /\ UNCHANGED <<prv, pub, sig, nkeys, digests, used>>
    \/ /\ prv.ctx
       /\ nkeys <= MaxKeys
       /\ nkeys' = nkeys + 1
       /\ \/ /\ prv' = [prv EXCEPT !.q = 0, !.key = nkeys']
             /\ pub' = nkeys'
             /\ sts' = "NoErr"
          \/ /\ prv' = [prv EXCEPT !.q = 0, !.key = Zeroed]
             /\ sts' \in {"RandErr", "HashErr"}
             /\ UNCHANGED pub
       /\ UNCHANGED <<sig, digests, used>>

\* ippsLMSSetPrivateKeyState
SetPrivateKeyState(key, q) ==
    /\ IF q >= Leaves
       THEN sts' = "BadArgErr" /\ UNCHANGED prv
       ELSE sts' = "NoErr" /\ prv' = [ctx |-> TRUE, key |-> key, q |-> q]
    /\ UNCHANGED <<pub, sig, nkeys, digests, used>>

\* Mutant: the counter is compared with 2^h by the wrong operator.
MutantSignCheck(msgLenOK) ==
    IF ~msgLenOK THEN "LengthErr"
    ELSE IF ~prv.ctx \/ ~sig.ctx THEN "ContextMatchErr"
    ELSE IF prv.q > Leaves THEN "OutOfRangeErr" ELSE "NoErr"

\* The refusals of ippsLMSSign, which change nothing.
SignCheck(msgLenOK) ==
    IF ~msgLenOK THEN "LengthErr"
    ELSE IF ~prv.ctx \/ ~sig.ctx THEN "ContextMatchErr"
    ELSE IF prv.q >= Leaves THEN "OutOfRangeErr" ELSE "NoErr"

SignRefused(msgLenOK) ==
    /\ SignCheck(msgLenOK) # "NoErr"
    /\ sts' = SignCheck(msgLenOK)
    /\ UNCHANGED <<prv, pub, sig, nkeys, digests, used>>

\* Mutant: the counter in the key state is not advanced.
MutantSignBegun ==
    /\ SignCheck(TRUE) = "NoErr"
    /\ UNCHANGED <<prv, pub, nkeys>>

\* The index is taken before any of the work and never given back.
SignBegun ==
    /\ SignCheck(TRUE) = "NoErr"
    /\ prv' = [prv EXCEPT !.q = @ + 1]
    /\ UNCHANGED <<pub, nkeys>>

\* A status that reports the last index also when the signature is good.
SignStatus == IF prv.q + 1 >= Leaves THEN "OutOfRangeErr" ELSE "NoErr"

ComputeOTS ==
    /\ digests < MaxDigests
    /\ digests' = digests + 1
    /\ used' = used \cup {[key |-> prv.key, q |-> prv.q, digest |-> digests']}

\* Mutant: the index is taken only when the signature is good.
MutantSignFails ==
    /\ SignCheck(TRUE) = "NoErr"
    /\ sts' \in {"HashErr", "Err"} /\ ComputeOTS
    /\ sig' = [sig EXCEPT !.q = prv.q, !.made = NoSignature]
    /\ UNCHANGED <<prv, pub, nkeys>>

\* The randomizer C is purged on every error, so no later call finds a
\* signature that verifies.
SignFails ==
    /\ SignBegun
    /\ sig' = [sig EXCEPT !.q = prv.q, !.made = NoSignature]
    /\ \/ sts' = "RandErr" /\ UNCHANGED <<digests, used>>
       \/ sts' \in {"HashErr", "Err"} /\ ComputeOTS

SignSucceeds ==
    /\ SignBegun
    /\ ComputeOTS
    /\ sig' = [sig EXCEPT !.q = prv.q,
                        !.made = [key |-> prv.key, digest |-> digests']]
    /\ sts' = SignStatus

Sign == \/ \E ok \in BOOLEAN : SignRefused(ok)
        \/ SignFails
        \/ SignSucceeds
=============================================================================
