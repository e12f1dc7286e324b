------------------------------ MODULE LMSSigner ------------------------------
(***************************************************************************)
(* An application that signs with an LMS key pair and may crash at any     *)
(* time.  It follows the note of doc/source/lms/sign.rst: the updated key  *)
(* state is persisted after every call, error returns included, and before *)
(* the signature leaves the application.                                   *)
(*                                                                         *)
(* The interface has no getter for the private key state, so what can be   *)
(* persisted of it is the index ippsLMSGetSignatureElems returns, plus 1.  *)
(* A call that was refused leaves an old index there: the application      *)
(* keeps the larger one.                                                   *)
(***************************************************************************)
EXTENDS LMSKey

VARIABLES
    pc,         \* the application: "idle", "called" or "saved"
    store,      \* on disk: the next index of the External key
    released    \* history: the signatures handed out

vars == <<keyVars, pc, store, released>>

SignerInit ==
    /\ Init
    /\ pc = "idle"
    /\ store = 0
    /\ released = {}

-----------------------------------------------------------------------------

\* Calls the application makes between two signatures.
Prepare ==
    /\ pc = "idle"
    /\ \/ InitKeyPair
       \/ InitSignature
       \/ KeyGen
       \/ SetPrivateKeyState(External, store)
    /\ UNCHANGED <<pc, store, released>>

CallSign ==
    /\ pc = "idle"
    /\ Sign
    /\ pc' = "called"
    /\ UNCHANGED <<store, released>>

Larger(a, b) == IF a >= b THEN a ELSE b

\* Mutant: the range check on the index it returns is off by one.
MutantIndexReadable == sig.ctx /\ sig.q < Leaves - 1

\* ippsLMSGetSignatureElems returns the index of an initialised signature state,
\* also when the call that should have filled it was refused or failed.
IndexReadable == sig.ctx

Save ==
    /\ pc = "called"
    /\ store' = IF prv.key = External /\ IndexReadable
                THEN Larger(store, sig.q + 1) ELSE store
    /\ pc' = "saved"
    /\ UNCHANGED <<keyVars, released>>

Signature == [key |-> sig.made.key, q |-> sig.q, digest |-> sig.made.digest]

\* ippStsOutOfRangeErr comes with a good signature when it was the last one, and
\* with the content of an earlier call when the key was exhausted before: the
\* application cannot tell them apart by the status and takes what is there.
Release ==
    /\ pc = "saved"
    /\ pc' = "idle"
    /\ \/ /\ sts \in {"NoErr", "OutOfRangeErr"} /\ sig.made # NoSignature
          /\ released' = released \cup {Signature}
       \/ UNCHANGED released
    /\ UNCHANGED <<keyVars, store>>

\* Memory is lost, and with it every signature that was not handed out.
Crash ==
    /\ \E q \in 0..Leaves : prv' = [ctx |-> FALSE, key |-> Unset, q |-> q]
    /\ pub' = Unset
    /\ sig' = FreshSignature
    /\ sts' = "NoErr"
    /\ used' = released
    /\ pc' = "idle"
    /\ UNCHANGED <<nkeys, digests, store, released>>

Next == Prepare \/ CallSign \/ Save \/ Release \/ Crash

SignerSpec == SignerInit /\ [][Next]_vars

-----------------------------------------------------------------------------
(* Properties. *)

Statuses == {"NoErr", "ContextMatchErr", "BadArgErr", "LengthErr", "OutOfRangeErr",
             "RandErr", "HashErr", "Err"}

OneTimeSignature == [key : Int, q : Nat, digest : Nat]

\* The types of the variables.
TypeOK ==
    /\ prv \in [ctx : BOOLEAN, key : Int, q : 0..Leaves]
    /\ pub \in Int
    /\ sig \in [ctx : BOOLEAN, q : 0..Leaves - 1,
             made : [key : Int, digest : Nat]]
    /\ sts \in Statuses
    /\ nkeys \in Nat /\ digests \in Nat
    /\ used \subseteq OneTimeSignature
    /\ pc \in {"idle", "called", "saved"}
    /\ store \in 0..Leaves
    /\ released \subseteq OneTimeSignature

\* No one-time key of a generated or imported key pair ever works on two
\* digests: over failed calls, refused calls, exhaustion, re-initialisation,
\* crashes and re-imports, counting the work of calls that failed half way.
OneDigestPerIndex ==
    \A a, b \in used :
        a.key = b.key /\ a.q = b.q /\ a.key >= External => a = b

\* Every index of the imported key that is public is behind the index a
\* restart begins with.
StoreAhead ==
    \A s \in released : s.key = External => s.q < store

\* Between two crashes the counter of a key never goes back, whichever call
\* is made and however it ends; in particular importing the key again from
\* the store does not rewind it.
NeverRewound ==
    [][prv'.key = prv.key /\ prv.key >= External => prv'.q >= prv.q]_vars

\* The application implements one-time keys.
OneTime == INSTANCE OneTimeKeys WITH
    Key <- 1..MaxKeys + 1,
    Index <- 0..Leaves - 1,
    Digest <- 1..MaxDigests,
    published <- {s \in released : s.key >= External}

ImplementsOneTimeKeys == OneTime!Spec
==============================================================================
