--------------------------- MODULE Signers_proofs ----------------------------
(* Proofs about LMSSigner for every number of leaves, keys and digests, and   *)
(* about XMSS for every value of its constants.                              *)
EXTENDS LMSSigner, XMSS, SequenceTheorems, TLAPS

PrvState == [ctx : BOOLEAN, key : Int, q : 0..Leaves]
SigState == [ctx : BOOLEAN, q : 0..Leaves - 1, made : [key : Int, digest : Nat]]

(***************************************************************************)
(* The inductive invariant.                                                *)
(***************************************************************************)

\* Keys and digests are numbered by the calls made, so a new one is new.
Known ==
    /\ nkeys >= External /\ nkeys <= MaxKeys + 1 /\ digests <= MaxDigests
    /\ prv.key <= nkeys
    /\ \A u \in used : u.key <= nkeys /\ u.digest \in 1..MaxDigests

\* The counter of the key in memory is ahead of all that was computed with it.
Ahead == \A u \in used : u.key = prv.key /\ u.key >= External => u.q < prv.q

\* What was computed with the imported key is behind the store, except what
\* the call that has just returned computed.
Stored ==
    \A u \in used : u.key = External =>
        \/ u.q < store
        \/ pc = "called" /\ prv.key = External /\ sig.ctx /\ u.q = sig.q

\* The store is not behind the counter of the imported key, except by that call.
Kept ==
    prv.key = External =>
        \/ prv.q <= store
        \/ pc = "called" /\ sig.ctx /\ prv.q = sig.q + 1

\* The signature in memory, if there is one, was computed.
Made == sig.made # NoSignature => Signature \in used

IInv ==
    /\ TypeOK
    /\ Known
    /\ Ahead
    /\ OneDigestPerIndex
    /\ Stored
    /\ Kept
    /\ Made
    /\ released \subseteq used
    /\ StoreAhead

\* The invariant holds before the first call, whatever the memory holds.
LEMMA InitInv == SignerInit => IInv
<1> SUFFICES ASSUME SignerInit PROVE IInv
    OBVIOUS
<1> USE ConstantsAssumption DEF SignerInit, Init, External, Unset, FreshSignature, NoSignature
<1>1. PICK q \in 0..Leaves : prv = [ctx |-> FALSE, key |-> Unset, q |-> q]
    OBVIOUS
<1>2. TypeOK
    BY <1>1 DEF TypeOK, Statuses
<1>3. Known /\ Ahead /\ OneDigestPerIndex /\ Stored /\ Kept
    BY <1>1 DEF Known, Ahead, OneDigestPerIndex, Stored, Kept
<1>4. Made /\ released \subseteq used /\ StoreAhead
    BY DEF Made, StoreAhead
<1> QED
    BY <1>2, <1>3, <1>4 DEF IInv

-----------------------------------------------------------------------------
(* The calls that prepare a signature. *)

\* ippsLMSInitKeyPair preserves the invariant: the counter is left alone.
LEMMA InitKeyPairStep ==
    ASSUME IInv, pc = "idle", InitKeyPair, UNCHANGED <<pc, store, released>>
    PROVE  IInv'
<1> USE DEF IInv, InitKeyPair, External
<1>1. prv \in PrvState
    BY DEF TypeOK, PrvState
<1>2. prv' \in PrvState /\ prv'.key = prv.key /\ prv'.q = prv.q
    BY <1>1 DEF PrvState
<1>3. TypeOK'
    BY <1>2 DEF TypeOK, PrvState, Statuses
<1>4. Known' /\ Ahead' /\ OneDigestPerIndex' /\ Stored' /\ Kept'
    BY <1>2 DEF Known, Ahead, OneDigestPerIndex, Stored, Kept
<1>5. Made' /\ (released \subseteq used)' /\ StoreAhead'
    BY DEF Made, Signature, StoreAhead
<1> QED
    BY <1>3, <1>4, <1>5

\* ippsLMSInitSignature preserves the invariant.
LEMMA InitSignatureStep ==
    ASSUME IInv, pc = "idle", InitSignature, UNCHANGED <<pc, store, released>>
    PROVE  IInv'
<1> USE DEF IInv, InitSignature, External
<1>1. TypeOK'
    BY ConstantsAssumption DEF TypeOK, Statuses, NoSignature, Unset
<1>2. Known' /\ Ahead' /\ OneDigestPerIndex' /\ Stored' /\ Kept'
    BY DEF Known, Ahead, OneDigestPerIndex, Stored, Kept
<1>3. sig'.made = NoSignature
    OBVIOUS
<1>4. Made' /\ (released \subseteq used)' /\ StoreAhead'
    BY <1>3 DEF Made, StoreAhead, NoSignature, Unset
<1> QED
    BY <1>1, <1>2, <1>4

\* A call that leaves the signature and the computed ones alone, and either the
\* private key too or puts a key there whose counter is ahead.
LEMMA KeyChange ==
    ASSUME IInv, pc = "idle", UNCHANGED <<sig, digests, used, pc, store, released>>,
           prv' \in PrvState, pub' \in Int, sts' \in Statuses, nkeys' \in Nat,
           nkeys' >= nkeys, nkeys' <= MaxKeys + 1, prv'.key <= nkeys',
           Ahead', Kept'
    PROVE  IInv'
<1> USE DEF IInv, External
<1>1. TypeOK'
    BY DEF TypeOK, PrvState
<1>2. Known'
  <2>1. \A u \in used : u.key \in Int /\ u.key <= nkeys
    BY DEF TypeOK, OneTimeSignature, Known
  <2>2. nkeys \in Nat
    BY DEF TypeOK
  <2> QED
    BY <2>1, <2>2 DEF Known
<1>3. OneDigestPerIndex' /\ Stored'
    BY DEF OneDigestPerIndex, Stored
<1>4. Made' /\ (released \subseteq used)' /\ StoreAhead'
    BY DEF Made, Signature, StoreAhead
<1> QED
    BY <1>1, <1>2, <1>3, <1>4

\* ippsLMSKeyGen preserves it: the counter restarts for a new key or for none.
LEMMA KeyGenStep ==
    ASSUME IInv, pc = "idle", KeyGen, UNCHANGED <<pc, store, released>>
    PROVE  IInv'
<1> USE ConstantsAssumption DEF IInv
<1>1. /\ prv \in PrvState /\ pub \in Int /\ nkeys \in Nat
      /\ \A u \in used : u \in OneTimeSignature
    BY DEF TypeOK, PrvState
<1>2. CASE ~prv.ctx /\ sts' = "ContextMatchErr" /\ UNCHANGED <<prv, pub, nkeys>>
  <2>1. Ahead' /\ Kept' /\ UNCHANGED <<sig, digests, used>>
    BY <1>2 DEF KeyGen, Ahead, Kept
  <2> QED
    BY <1>1, <1>2, <2>1, KeyChange DEF Statuses, Known
<1>3. CASE /\ nkeys <= MaxKeys /\ nkeys' = nkeys + 1 /\ UNCHANGED <<sig, digests, used>>
           /\ \/ /\ prv' = [prv EXCEPT !.q = 0, !.key = nkeys']
                 /\ pub' = nkeys' /\ sts' = "NoErr"
              \/ /\ prv' = [prv EXCEPT !.q = 0, !.key = Zeroed]
                 /\ sts' \in {"RandErr", "HashErr"} /\ UNCHANGED pub
  <2>1. PICK k \in {nkeys', Zeroed} : prv' = [prv EXCEPT !.q = 0, !.key = k]
    BY <1>3
  <2>2. k \in Int
    BY <1>1, <1>3 DEF Zeroed
  <2>3. prv' \in PrvState /\ prv'.key = k
    <3>1. prv' = [ctx |-> prv.ctx, key |-> k, q |-> 0]
      BY <1>1, <2>1 DEF PrvState
    <3>2. 0 \in 0..Leaves /\ prv.ctx \in BOOLEAN
      BY <1>1 DEF PrvState
    <3> QED
      BY <2>2, <3>1, <3>2 DEF PrvState
  <2>4. \A u \in used : u.key \in Int /\ u.key <= nkeys
    BY <1>1 DEF OneTimeSignature, Known
  <2>5. k = nkeys + 1 \/ k = 0
    BY <1>3 DEF Zeroed
  <2>6. Ahead' /\ Kept'
    BY <1>1, <1>3, <2>3, <2>4, <2>5 DEF Ahead, Kept, Known, External
  <2>7. /\ pub' \in Int /\ sts' \in Statuses /\ nkeys' \in Nat
        /\ nkeys' >= nkeys /\ nkeys' <= MaxKeys + 1 /\ prv'.key <= nkeys'
    BY <1>1, <1>3, <2>3, <2>5 DEF Statuses
  <2> QED
    BY <1>3, <2>3, <2>6, <2>7, KeyChange
<1> QED
    BY <1>2, <1>3 DEF KeyGen

\* Importing the key at the stored index preserves the invariant.
LEMMA SetPrivateKeyStateStep ==
    ASSUME IInv, pc = "idle", SetPrivateKeyState(External, store),
           UNCHANGED <<pc, store, released>>
    PROVE  IInv'
<1> USE ConstantsAssumption DEF IInv, SetPrivateKeyState
<1>1. /\ prv \in PrvState /\ pub \in Int /\ nkeys \in Nat /\ store \in 0..Leaves
      /\ External \in Int /\ nkeys >= External
    BY DEF TypeOK, PrvState, Known, External
<1>2. CASE store >= Leaves
  <2>1. Ahead' /\ Kept'
    BY <1>2 DEF Ahead, Kept
  <2> QED
    BY <1>1, <1>2, <2>1, KeyChange DEF Statuses, Known
<1>3. CASE ~(store >= Leaves)
  <2>1. prv' = [ctx |-> TRUE, key |-> External, q |-> store]
    BY <1>3
  <2>2. prv' \in PrvState /\ prv'.key = External /\ prv'.q = store
    BY <1>1, <2>1 DEF PrvState
  <2>3. Ahead' /\ Kept'
    BY <1>1, <2>2 DEF Ahead, Kept, Stored
  <2>4. /\ pub' \in Int /\ sts' \in Statuses /\ nkeys' \in Nat
        /\ nkeys' >= nkeys /\ nkeys' <= MaxKeys + 1 /\ prv'.key <= nkeys'
    BY <1>1, <1>3, <2>2 DEF Statuses, Known
  <2> QED
    BY <2>2, <2>3, <2>4, KeyChange
<1> QED
    BY <1>2, <1>3

-----------------------------------------------------------------------------
(* Signing. *)

\* A refused sign preserves it, although the application goes on to save.
LEMMA RefusedStep ==
    ASSUME IInv, pc = "idle", NEW ok \in BOOLEAN, SignRefused(ok), pc' = "called",
           UNCHANGED <<store, released>>
    PROVE  IInv'
<1> USE DEF IInv, SignRefused
<1>1. SignCheck(ok) \in Statuses
    BY DEF SignCheck, Statuses
<1>2. TypeOK'
    BY <1>1 DEF TypeOK
<1>3. Known' /\ Ahead' /\ OneDigestPerIndex' /\ Stored' /\ Kept'
    BY DEF Known, Ahead, OneDigestPerIndex, Stored, Kept
<1>4. Made' /\ (released \subseteq used)' /\ StoreAhead'
    BY DEF Made, Signature, StoreAhead
<1> QED
    BY <1>2, <1>3, <1>4

\* A signature that was begun: the counter moves on, at most one one-time
\* signature is computed with the index it had, and the signature in memory is
\* that one or none.
LEMMA BegunStep ==
    ASSUME IInv, pc = "idle", pc' = "called", UNCHANGED <<store, released>>,
           SignBegun, sts' \in Statuses, digests' \in Nat, digests' >= digests,
           digests' <= MaxDigests,
           sig' \in SigState, sig'.ctx = sig.ctx, sig'.q = prv.q,
           NEW new, new \subseteq {[key |-> prv.key, q |-> prv.q, digest |-> digests']},
           used' = used \cup new,
           new # {} => digests' >= 1,
           sig'.made # NoSignature => Signature' \in new
    PROVE  IInv'
<1> USE ConstantsAssumption DEF IInv, External
<1>1. /\ prv \in PrvState /\ nkeys \in Nat /\ digests \in Nat
      /\ \A u \in used : u \in OneTimeSignature
      /\ sig.ctx /\ prv.q < Leaves
    BY DEF TypeOK, PrvState, SignBegun, SignCheck
<1>2. /\ prv' \in PrvState /\ prv'.q = prv.q + 1 /\ prv'.key = prv.key
      /\ pub' = pub /\ nkeys' = nkeys
    BY <1>1 DEF PrvState, SignBegun
<1>3. \A u \in new : /\ u \in OneTimeSignature /\ u.key = prv.key /\ u.q = prv.q
                     /\ u.digest = digests'
    BY <1>1 DEF PrvState, OneTimeSignature
<1>4. TypeOK'
    BY <1>1, <1>2, <1>3 DEF TypeOK, PrvState, SigState
<1>5. \A u \in used : u.key \in Int /\ u.q \in Nat
    BY <1>1 DEF OneTimeSignature
<1>6. prv.q \in Nat /\ prv.key \in Int
    BY <1>1 DEF PrvState
<1>7. Known' /\ Ahead'
  <2>1. \A u \in new : u.digest \in 1..MaxDigests /\ u.key <= nkeys
    BY <1>3 DEF Known
  <2> QED
    BY <1>2, <1>3, <1>5, <1>6, <2>1 DEF Known, Ahead
<1>8. OneDigestPerIndex'
  <2> SUFFICES ASSUME NEW a \in used', NEW b \in used',
                      a.key = b.key, a.q = b.q, a.key >= External
               PROVE  a = b
    BY DEF OneDigestPerIndex
  <2>1. CASE a \in used /\ b \in used
    BY <2>1 DEF OneDigestPerIndex
  <2>2. CASE a \in new /\ b \in new
    BY <2>2
  <2>3. CASE a \in used /\ b \in new
    BY <1>3, <1>5, <1>6, <2>3 DEF Ahead
  <2>4. CASE a \in new /\ b \in used
    BY <1>3, <1>5, <1>6, <2>4 DEF Ahead
  <2> QED
    BY <2>1, <2>2, <2>3, <2>4
<1>9. Stored' /\ Kept'
  <2>1. Stored'
    BY <1>1, <1>2, <1>3 DEF Stored
  <2>2. Kept'
    BY <1>1, <1>2, <1>6 DEF Kept
  <2> QED
    BY <2>1, <2>2
<1>10. Made' /\ (released \subseteq used)' /\ StoreAhead'
    BY DEF Made, StoreAhead
<1> QED
    BY <1>4, <1>7, <1>8, <1>9, <1>10

\* A sign preserves it, whether it fails or succeeds.
LEMMA SignStep ==
    ASSUME IInv, pc = "idle", Sign, pc' = "called", UNCHANGED <<store, released>>
    PROVE  IInv'
<1> USE ConstantsAssumption
<1> DEFINE ots == [key |-> prv.key, q |-> prv.q, digest |-> digests']
<1>1. prv \in PrvState /\ sig \in SigState /\ digests \in Nat /\ digests <= MaxDigests
    BY DEF IInv, TypeOK, PrvState, SigState, Known
<1>2. CASE \E ok \in BOOLEAN : SignRefused(ok)
    BY <1>2, RefusedStep
<1>3. CASE SignFails
  <2>1. prv.q \in 0..Leaves - 1
    BY <1>1, <1>3 DEF SignFails, SignBegun, SignCheck, PrvState
  <2>2. NoSignature \in [key : Int, digest : Nat]
    BY DEF NoSignature, Unset
  <2>3. /\ sig' \in SigState /\ sig'.ctx = sig.ctx /\ sig'.q = prv.q
        /\ sig'.made = NoSignature
    BY <1>1, <1>3, <2>1, <2>2 DEF SignFails, SigState
  <2>4. CASE sts' = "RandErr" /\ UNCHANGED <<digests, used>>
    <3>1. /\ digests' \in Nat /\ digests' >= digests /\ digests' <= MaxDigests
          /\ {} \subseteq {ots} /\ used' = used \cup {} /\ sts' \in Statuses
      BY <1>1, <2>4 DEF Statuses
    <3> QED
      BY <1>3, <2>3, <3>1, BegunStep DEF SignFails
  <2>5. CASE sts' \in {"HashErr", "Err"} /\ ComputeOTS
    <3>1. /\ digests' \in Nat /\ digests' >= digests /\ digests' <= MaxDigests
          /\ digests' >= 1 /\ used' = used \cup {ots}
      BY <1>1, <2>5 DEF ComputeOTS
    <3> QED
      BY <1>3, <2>3, <2>5, <3>1, BegunStep DEF SignFails, Statuses
  <2> QED
    BY <1>3, <2>4, <2>5 DEF SignFails
<1>4. CASE SignSucceeds
  <2>1. prv.q \in 0..Leaves - 1 /\ prv.key \in Int
    BY <1>1, <1>4 DEF SignSucceeds, SignBegun, SignCheck, PrvState
  <2>2. /\ digests' \in Nat /\ digests' >= digests /\ digests' <= MaxDigests
        /\ digests' >= 1 /\ used' = used \cup {ots}
    BY <1>1, <1>4 DEF SignSucceeds, ComputeOTS
  <2>3. PICK made \in [key : Int, digest : Nat] :
            made = [key |-> prv.key, digest |-> digests']
    BY <2>1, <2>2
  <2>4. /\ sig' \in SigState /\ sig'.ctx = sig.ctx /\ sig'.q = prv.q
        /\ sig'.made = made
    BY <1>1, <1>4, <2>1, <2>3 DEF SignSucceeds, SigState
  <2>5. Signature' = ots
    BY <2>3, <2>4 DEF Signature
  <2>6. sts' \in Statuses
    BY <1>4 DEF SignSucceeds, SignStatus, Statuses
  <2> QED
    BY <1>4, <2>2, <2>4, <2>5, <2>6, BegunStep DEF SignSucceeds
<1> QED
    BY <1>2, <1>3, <1>4 DEF Sign

-----------------------------------------------------------------------------
(* What the application does with the result. *)

\* Saving preserves it: afterwards the store is ahead of all that was computed.
LEMMA SaveStep == ASSUME IInv, Save PROVE IInv'
<1> USE ConstantsAssumption DEF IInv, Save, IndexReadable, keyVars
<1>1. /\ store \in 0..Leaves /\ sig \in SigState
      /\ \A u \in used : u \in OneTimeSignature
    BY DEF TypeOK, SigState
<1>2. /\ store' \in 0..Leaves /\ store' >= store
      /\ prv.key = External /\ sig.ctx => store' >= sig.q + 1
  <2>1. sig.q \in 0..Leaves - 1 /\ sig.q + 1 \in 0..Leaves
    BY <1>1 DEF SigState
  <2> QED
    BY <1>1, <2>1 DEF Larger
<1>3. TypeOK'
    BY <1>2 DEF TypeOK
<1>4. Known' /\ Ahead' /\ OneDigestPerIndex' /\ Made'
    BY DEF Known, Ahead, OneDigestPerIndex, Made, Signature
<1>5. \A u \in used : u.q \in Nat
    BY <1>1 DEF OneTimeSignature
<1>6. sig.q \in Nat
    BY <1>1 DEF SigState
<1>7. Stored'
    BY <1>1, <1>2, <1>5, <1>6 DEF Stored
<1>8. Kept'
    BY <1>1, <1>2, <1>6 DEF Kept, TypeOK
<1>9. (released \subseteq used)' /\ StoreAhead'
    BY <1>1, <1>2, <1>5 DEF StoreAhead
<1> QED
    BY <1>3, <1>4, <1>7, <1>8, <1>9

\* Handing out what is in the signature state preserves it.
LEMMA ReleaseStep == ASSUME IInv, Release PROVE IInv'
<1> USE DEF IInv, Release, keyVars
<1>1. \/ released' = released
      \/ released' = released \cup {Signature} /\ Signature \in used
    BY DEF Made
<1>2. released' \subseteq used
    BY <1>1
<1>3. TypeOK'
    BY <1>2 DEF TypeOK
<1>4. Known' /\ Ahead' /\ OneDigestPerIndex' /\ Stored' /\ Kept' /\ Made'
    BY DEF Known, Ahead, OneDigestPerIndex, Stored, Kept, Made, Signature
<1>5. StoreAhead'
    BY <1>2 DEF StoreAhead, Stored
<1> QED
    BY <1>2, <1>3, <1>4, <1>5

\* A crash preserves it: what is lost was never handed out.
LEMMA CrashStep == ASSUME IInv, Crash PROVE IInv'
<1> USE ConstantsAssumption DEF IInv, Crash, External, Unset
<1>1. PICK q \in 0..Leaves : prv' = [ctx |-> FALSE, key |-> Unset, q |-> q]
    OBVIOUS
<1>2. prv' \in PrvState /\ prv'.key = -1
    BY <1>1 DEF PrvState
<1>3. sig'.made = NoSignature /\ sig' \in SigState
    BY DEF FreshSignature, NoSignature, SigState
<1>4. TypeOK'
    BY <1>2, <1>3 DEF TypeOK, PrvState, SigState, Statuses
<1>5. Known' /\ Ahead' /\ OneDigestPerIndex'
    BY <1>2 DEF Known, Ahead, OneDigestPerIndex, TypeOK
<1>6. Stored' /\ Kept'
    BY <1>2 DEF Stored, Kept, StoreAhead
<1>7. Made' /\ (released \subseteq used)' /\ StoreAhead'
    BY <1>3 DEF Made, StoreAhead
<1> QED
    BY <1>4, <1>5, <1>6, <1>7

\* The invariant is inductive.
LEMMA NextInv == IInv /\ [Next]_vars => IInv'
<1> SUFFICES ASSUME IInv, [Next]_vars PROVE IInv'
    OBVIOUS
<1>1. CASE Prepare
    BY <1>1, InitKeyPairStep, InitSignatureStep, KeyGenStep, SetPrivateKeyStateStep
       DEF Prepare
<1>2. CASE CallSign
    BY <1>2, SignStep DEF CallSign
<1>3. CASE Save
    BY <1>3, SaveStep
<1>4. CASE Release
    BY <1>4, ReleaseStep
<1>5. CASE Crash
    BY <1>5, CrashStep
<1>6. CASE UNCHANGED vars
    BY <1>6 DEF vars, keyVars, IInv, TypeOK, Known, Ahead, OneDigestPerIndex, Stored, Kept,
       Made, Signature, StoreAhead
<1> QED
    BY <1>1, <1>2, <1>3, <1>4, <1>5, <1>6 DEF Next

\* Every reachable state satisfies the inductive invariant.
THEOREM SignerInvariant == SignerSpec => []IInv
<1> QED
    BY InitInv, NextInv, PTL DEF SignerSpec

-----------------------------------------------------------------------------

\* The variables keep their types.
THEOREM SignerTypeCorrect == SignerSpec => []TypeOK
<1>1. IInv => TypeOK
    BY DEF IInv
<1> QED
    BY <1>1, SignerInvariant, PTL

\* For every height of the tree: no one-time key works on two digests, whatever
\* fails, is refused, crashes or is imported again.
THEOREM NoIndexReused == SignerSpec => []OneDigestPerIndex
<1>1. IInv => OneDigestPerIndex
    BY DEF IInv
<1> QED
    BY <1>1, SignerInvariant, PTL

\* Whatever was handed out is behind the index a restart begins with.
THEOREM PersistedAhead == SignerSpec => []StoreAhead
<1>1. IInv => StoreAhead
    BY DEF IInv
<1> QED
    BY <1>1, SignerInvariant, PTL

\* Between two crashes the counter of a key never goes back.
THEOREM CounterNeverRewound == SignerSpec => NeverRewound
<1>1. ASSUME IInv, [Next]_vars, prv'.key = prv.key, prv.key >= External
      PROVE  prv'.q >= prv.q
  <2> USE ConstantsAssumption DEF keyVars
  <2>1. /\ prv \in PrvState /\ prv.q \in 0..Leaves /\ prv.key \in Int
        /\ nkeys \in Nat /\ nkeys >= prv.key /\ store \in 0..Leaves
    BY <1>1 DEF IInv, TypeOK, Known, PrvState
  <2>2. CASE UNCHANGED prv
    BY <2>1, <2>2
  <2>3. CASE pc = "idle" /\ InitKeyPair
    BY <2>1, <2>3 DEF InitKeyPair, PrvState
  <2>4. CASE pc = "idle" /\ KeyGen /\ prv' # prv
    <3>1. PICK k \in {nkeys + 1, Zeroed} : prv' = [prv EXCEPT !.q = 0, !.key = k]
      BY <2>4 DEF KeyGen
    <3>2. prv'.key = k
      BY <2>1, <3>1 DEF PrvState
    <3> QED
      BY <1>1, <2>1, <3>2 DEF Zeroed, External
  <2>5. CASE pc = "idle" /\ SetPrivateKeyState(External, store) /\ prv' # prv
    <3>1. prv'.key = External /\ prv'.q = store
      BY <2>5 DEF SetPrivateKeyState
    <3> QED
      BY <1>1, <2>1, <2>5, <3>1 DEF IInv, Kept
  <2>6. CASE SignBegun
    BY <2>1, <2>6 DEF SignBegun, PrvState
  <2>7. CASE Crash
    <3>1. prv'.key = Unset
      BY <2>7 DEF Crash
    <3> QED
      BY <1>1, <3>1 DEF Unset, External
  <2> QED
    BY <1>1, <2>2, <2>3, <2>4, <2>5, <2>6, <2>7
       DEF Next, vars, Prepare, InitSignature, CallSign, Sign, SignRefused, SignFails,
           SignSucceeds, Save, Release
<1>2. IInv /\ [Next]_vars => [prv'.key = prv.key /\ prv.key >= External => prv'.q >= prv.q]_vars
  BY <1>1
<1> QED
  BY <1>2, SignerInvariant, PTL DEF SignerSpec, NeverRewound

-----------------------------------------------------------------------------

Published == {s \in released : s.key >= External}

\* The application implements one-time keys: it hands out a signature only for
\* an index that is unspent, or again the one it handed out before.
THEOREM SignerImplementsOneTimeKeys == SignerSpec => ImplementsOneTimeKeys
<1>1. SignerInit => OneTime!Init
  BY DEF SignerInit, OneTime!Init
<1>2. ASSUME IInv, IInv', [Next]_vars PROVE [OneTime!Next]_Published
  <2>1. CASE Release
    <3>1. CASE released' = released
      BY <3>1 DEF Published
    <3>2. CASE /\ sig.made # NoSignature
               /\ released' = released \cup {Signature}
               /\ Signature.key >= External /\ Signature \notin released
      <4>1. Signature \in used /\ Signature \in OneTimeSignature
        BY <1>2, <3>2 DEF IInv, TypeOK, Made
      <4>2. /\ Signature.key \in 1..MaxKeys + 1 /\ Signature.q \in 0..Leaves - 1
            /\ Signature.digest \in 1..MaxDigests
        <5>1. Signature.key \in Int /\ Signature.key <= nkeys /\ nkeys <= MaxKeys + 1
          BY <1>2, <4>1 DEF IInv, Known, OneTimeSignature
        <5>2. Signature.q \in 0..Leaves - 1
          BY <1>2 DEF IInv, TypeOK, Signature
        <5> QED
          BY <1>2, <3>2, <4>1, <5>1, <5>2, ConstantsAssumption DEF IInv, Known, TypeOK, External
      <4>3. Published' = Published \cup {Signature}
        BY <3>2 DEF Published
      <4>4. \A s \in Published : s.key # Signature.key \/ s.q # Signature.q
        BY <1>2, <3>2, <4>1 DEF IInv, OneDigestPerIndex, Published
      <4>5. Signature = [key |-> Signature.key, q |-> Signature.q, digest |-> Signature.digest]
        BY DEF Signature
      <4> QED
        BY <4>2, <4>3, <4>4, <4>5
           DEF OneTime!Next, OneTime!Publish, OneTime!Unspent, Published
    <3>3. CASE /\ released' = released \cup {Signature}
               /\ ~(Signature.key >= External) \/ Signature \in released
      BY <3>3 DEF Published
    <3> QED
      BY <2>1, <3>1, <3>2, <3>3 DEF Release
  <2>2. CASE UNCHANGED released
    BY <2>2 DEF Published
  <2> QED
    BY <1>2, <2>1, <2>2 DEF Next, Prepare, CallSign, Save, Crash, vars
<1>3. IInv /\ IInv' /\ [Next]_vars => [OneTime!Next]_Published
  BY <1>2
<1> QED
  BY <1>1, <1>3, SignerInvariant, PTL DEF SignerSpec, ImplementsOneTimeKeys, OneTime!Spec, Published

-----------------------------------------------------------------------------
(***************************************************************************)
(* The inductive invariant.  Nothing is said of the roots and the nodes:   *)
(* what the tree computes has no part in which index is taken.             *)
(***************************************************************************)
XTyped ==
    /\ xkeys \in 0..MaxXKeys
    /\ xdigests \in Nat
    /\ xprv = [idx |-> xprv.idx, seed |-> xprv.seed, prf |-> xprv.prf,
               pseed |-> xprv.pseed, root |-> xprv.root]
    /\ xprv.idx \in Nat
    /\ xprv.seed \in {Unfilled, Purged} \cup 1..xkeys
    /\ xused \subseteq [key : 1..xkeys, idx : Nat, digest : 1..xdigests]

\* What was used with the key in the state lies below its index.
XAhead ==
    \A u \in xused : u.key = xprv.seed /\ u.key \notin xreset => u.idx < xprv.idx

XInv == XTyped /\ XAhead /\ XMSSOneDigestPerIndex

\* Fresh memory: no key, no use.
LEMMA XInitInv == XMSSInit => XInv
BY XMSSConstants DEF XMSSInit, XInv, XTyped, XAhead, XMSSOneDigestPerIndex, Unfilled, Purged

-----------------------------------------------------------------------------
(* One lemma for each way a call touches the index and the seeds. *)

\* ippsXMSSInitKeyPair rewinds the index, and enters the key as reset.
LEMMA XInitKeyPairInv == XInv /\ XInitKeyPair => XInv'
<1> SUFFICES ASSUME XInv, XInitKeyPair PROVE XInv'
  OBVIOUS
<1> USE DEF XInv, XTyped
<1>1. /\ xprv'.idx = 0 /\ xprv'.seed = xprv.seed
      /\ xkeys' = xkeys /\ xdigests' = xdigests /\ xused' = xused
      /\ xreset \subseteq xreset'
  BY DEF XInitKeyPair
<1>2. XTyped'
  BY DEF XInitKeyPair
<1>3. XAhead'
  <2> SUFFICES ASSUME NEW u \in xused, u.key = xprv.seed PROVE u.key \in xreset'
    BY <1>1 DEF XAhead
  <2>1. u.key \in 1..MaxXKeys
    BY XMSSConstants
  <2> QED
    BY <2>1 DEF XInitKeyPair, Drawn
<1>4. XMSSOneDigestPerIndex'
  BY <1>1 DEF XMSSOneDigestPerIndex
<1> QED
  BY <1>2, <1>3, <1>4

\* ippsXMSSKeyGen starts a key nobody used, or leaves no key at all.
LEMMA XKeyGenInv == XInv /\ XKeyGen => XInv'
<1> SUFFICES ASSUME XInv, XKeyGen PROVE XInv'
  OBVIOUS
<1> USE XMSSConstants DEF XInv, XTyped
<1>1. /\ xkeys' = xkeys + 1 /\ xkeys' \in 0..MaxXKeys
      /\ xdigests' = xdigests /\ xused' = xused /\ xreset' = xreset
  BY DEF XKeyGen
<1>2. /\ xprv' = [idx |-> 0, seed |-> xprv'.seed, prf |-> xprv'.prf,
                  pseed |-> xprv'.pseed, root |-> xprv'.root]
      /\ xprv'.seed \in {Purged, xkeys'}
  <2>1. CASE xprv'.seed = xkeys'
             /\ xprv' = [idx |-> 0, seed |-> xprv'.seed, prf |-> xprv'.prf,
                         pseed |-> xprv'.pseed, root |-> xprv'.root]
    BY <2>1
  <2>2. CASE xprv' \in PurgedSeeds
    BY <2>2 DEF PurgedSeeds
  <2> QED
    BY <2>1, <2>2 DEF XKeyGen
<1>3. \A u \in xused : u.key # xprv'.seed
  BY <1>1, <1>2 DEF Purged
<1>4. XTyped'
  <2>1. xprv'.seed \in {Unfilled, Purged} \cup 1..xkeys'
    BY <1>1, <1>2
  <2>2. xused' \subseteq [key : 1..xkeys', idx : Nat, digest : 1..xdigests']
    BY <1>1
  <2> QED
    BY <1>1, <1>2, <2>1, <2>2
<1>5. XAhead' /\ XMSSOneDigestPerIndex'
  BY <1>1, <1>3 DEF XAhead, XMSSOneDigestPerIndex
<1> QED
  BY <1>4, <1>5

\* ippsXMSSSign takes the index before any work: what an early failure leaves
\* behind is an index nobody will use.
LEMMA XSignFailsEarlyInv == XInv /\ XSignFailsEarly => XInv'
<1> SUFFICES ASSUME XInv, XSignFailsEarly PROVE XInv'
  OBVIOUS
<1>1. /\ xprv' = [xprv EXCEPT !.idx = @ + 1]
      /\ xkeys' = xkeys /\ xdigests' = xdigests /\ xused' = xused /\ xreset' = xreset
  BY DEF XSignFailsEarly, IndexTaken
<1>2. /\ XTyped' /\ xprv'.seed = xprv.seed /\ xprv'.idx = xprv.idx + 1
  BY <1>1 DEF XInv, XTyped
<1>3. XAhead' /\ XMSSOneDigestPerIndex'
  BY <1>1, <1>2 DEF XInv, XTyped, XAhead, XMSSOneDigestPerIndex
<1> QED
  BY <1>2, <1>3 DEF XInv

\* The index a one-time signature is computed under was not used before.
LEMMA XSignCompletesInv == XInv /\ XSignCompletes => XInv'
<1> SUFFICES ASSUME XInv, XSignCompletes PROVE XInv'
  OBVIOUS
<1>1. /\ xprv' = [xprv EXCEPT !.idx = @ + 1]
      /\ xkeys' = xkeys /\ xdigests' = xdigests + 1 /\ xreset' = xreset
      /\ xused' = xused \cup OneTimeUse(xdigests')
  BY DEF XSignCompletes, IndexTaken
<1>2. \A u \in OneTimeUse(xdigests') :
        /\ u = [key |-> xprv.seed, idx |-> xprv.idx, digest |-> xdigests']
        /\ u.key = xprv.seed /\ u.idx = xprv.idx /\ u.key \in 1..xkeys
  BY DEF OneTimeUse, Drawn, XInv, XTyped, Unfilled, Purged
<1>3. /\ xprv'.seed = xprv.seed /\ xprv'.idx = xprv.idx + 1
      /\ xprv' = [idx |-> xprv'.idx, seed |-> xprv'.seed, prf |-> xprv'.prf,
                  pseed |-> xprv'.pseed, root |-> xprv'.root]
  BY <1>1 DEF XInv, XTyped
<1>4. XTyped'
  <2>1. xused \subseteq [key : 1..xkeys', idx : Nat, digest : 1..xdigests']
    BY <1>1 DEF XInv, XTyped
  <2>2. OneTimeUse(xdigests') \subseteq [key : 1..xkeys', idx : Nat, digest : 1..xdigests']
    BY <1>1, <1>2 DEF XInv, XTyped
  <2> QED
    BY <1>1, <1>3, <2>1, <2>2 DEF XInv, XTyped
<1>5. XAhead'
  <2> SUFFICES ASSUME NEW u \in xused', u.key = xprv.seed, u.key \notin xreset
               PROVE  u.idx < xprv.idx + 1
    BY <1>1, <1>3 DEF XAhead
  <2>1. CASE u \in xused
    BY <2>1 DEF XInv, XTyped, XAhead
  <2>2. CASE u \in OneTimeUse(xdigests')
    BY <1>2, <2>2 DEF XInv, XTyped
  <2> QED
    BY <1>1, <2>1, <2>2
<1>6. XMSSOneDigestPerIndex'
  <2> SUFFICES ASSUME NEW a \in xused', NEW b \in xused',
                      a.key \notin xreset, a.key = b.key, a.idx = b.idx
               PROVE  a = b
    BY <1>1 DEF XMSSOneDigestPerIndex
  <2>1. CASE a \in xused /\ b \in xused
    BY <2>1 DEF XInv, XMSSOneDigestPerIndex
  <2>2. CASE a \in OneTimeUse(xdigests') /\ b \in OneTimeUse(xdigests')
    BY <1>2, <2>2
  <2>3. CASE a \in xused /\ b \in OneTimeUse(xdigests')
    BY <1>2, <2>3 DEF XInv, XTyped, XAhead
  <2>4. CASE a \in OneTimeUse(xdigests') /\ b \in xused
    BY <1>2, <2>4 DEF XInv, XTyped, XAhead
  <2> QED
    BY <1>1, <2>1, <2>2, <2>3, <2>4
<1> QED
  BY <1>4, <1>5, <1>6 DEF XInv

\* The other calls leave the private key and the record of uses alone.
LEMMA XOthersInv ==
    XInv /\ UNCHANGED <<xprv, xkeys, xdigests, xused, xreset>> => XInv'
BY DEF XInv, XTyped, XAhead, XMSSOneDigestPerIndex

-----------------------------------------------------------------------------

\* No index of an XMSS key signs two messages, whatever calls fail and however
\* many keys are generated, as long as ippsXMSSInitKeyPair is not called on the
\* state of a key: ippsXMSSSign takes the index before any work and never gives
\* it back, and ippsXMSSKeyGen rewinds the index only with a new seed.
THEOREM XMSSIndexUsedOnce == XMSSSpec => []XMSSOneDigestPerIndex
<1>1. XInv /\ [XMSSNext]_xmssVars => XInv'
  <2> SUFFICES ASSUME XInv, [XMSSNext]_xmssVars PROVE XInv'
    OBVIOUS
  <2>1. CASE XInitKeyPair
    BY <2>1, XInitKeyPairInv
  <2>2. CASE XInitSignature \/ XSetPublicKeyState \/ XSetSignatureState
    BY <2>2, XOthersInv DEF XInitSignature, XSetPublicKeyState, XSetSignatureState
  <2>3. CASE XKeyGen
    BY <2>3, XKeyGenInv
  <2>4. CASE XSignFailsEarly
    BY <2>4, XSignFailsEarlyInv
  <2>5. CASE XSignCompletes
    BY <2>5, XSignCompletesInv
  <2>6. CASE UNCHANGED xmssVars
    BY <2>6, XOthersInv DEF xmssVars
  <2> QED
    BY <2>1, <2>2, <2>3, <2>4, <2>5, <2>6 DEF XMSSNext
<1> QED
  BY <1>1, XInitInv, PTL DEF XMSSSpec, XInv

-----------------------------------------------------------------------------
(***************************************************************************)
(* The digits of the chains.                                               *)
(***************************************************************************)

Byte == 0..255

\* The two digits of a byte determine it.
LEMMA DigitsOfByte ==
    ASSUME NEW b \in Byte
    PROVE  /\ (b \div 16) % 16 = b \div 16 /\ b \div 16 \in 0..15 /\ (b \div 1) % 16 \in 0..15
           /\ b = 16 * (b \div 16) + ((b \div 1) % 16)
<1>1. b \in Nat /\ b \div 1 = b
  BY DEF Byte
<1>2. b \div 16 \in 0..15
  BY DEF Byte
<1>3. (b \div 16) % 16 = b \div 16
  BY <1>2
<1>4. b % 16 \in 0..15 /\ b = 16 * (b \div 16) + (b % 16)
  BY <1>1
<1> QED
  BY <1>1, <1>2, <1>3, <1>4

\* What cp_xmss_base_w cuts two bytes into.
LEMMA TwoBytes ==
    ASSUME NEW x \in Byte, NEW y \in Byte, NEW n \in 3..4
    PROVE  /\ BaseW(<<x, y>>, n) \in Seq(0..15) /\ Len(BaseW(<<x, y>>, n)) = n
           /\ BaseW(<<x, y>>, n)[1] = x \div 16 /\ BaseW(<<x, y>>, n)[2] = (x \div 1) % 16
           /\ BaseW(<<x, y>>, n)[3] = y \div 16
           /\ n = 4 => BaseW(<<x, y>>, n)[4] = (y \div 1) % 16
<1> DEFINE digit(k) == (<<x, y>>[((k - 1) \div 2) + 1] \div (IF k % 2 = 1 THEN 16 ELSE 1)) % 16
<1>1. digit(1) = x \div 16 /\ digit(2) = (x \div 1) % 16
      /\ digit(3) = y \div 16 /\ digit(4) = (y \div 1) % 16
  <2>1. digit(1) = (x \div 16) % 16 /\ digit(2) = (x \div 1) % 16
        /\ digit(3) = (y \div 16) % 16 /\ digit(4) = (y \div 1) % 16
    OBVIOUS
  <2> HIDE DEF digit
  <2> QED
    BY <2>1, DigitsOfByte
<1>2. \A k \in 1..4 : digit(k) \in 0..15
  <2> HIDE DEF digit
  <2>1. \A k \in 1..4 : k = 1 \/ k = 2 \/ k = 3 \/ k = 4
    OBVIOUS
  <2> QED
    BY <1>1, <2>1, DigitsOfByte
<1>3. BaseW(<<x, y>>, n) = [k \in 1..n |-> digit(k)]
  BY DEF BaseW
<1> HIDE DEF digit
<1>4. BaseW(<<x, y>>, n) \in Seq(0..15) /\ Len(BaseW(<<x, y>>, n)) = n
  BY <1>2, <1>3
<1> QED
  BY <1>1, <1>3, <1>4

\* Seven digits: four of the hash, three of the checksum, of which the first
\* is always zero.
LEMMA ChainsOfHash ==
    ASSUME NEW x \in Byte, NEW y \in Byte
    PROVE  LET c == 60 - (x \div 16) - ((x \div 1) % 16) - (y \div 16) - ((y \div 1) % 16)
               d == ChainLengths(<<x, y>>)
           IN /\ c \in 0..60
              /\ d[1] = x \div 16 /\ d[2] = (x \div 1) % 16
              /\ d[3] = y \div 16 /\ d[4] = (y \div 1) % 16
              /\ d[5] = 0 /\ d[6] = c \div 16 /\ d[7] = c % 16
<1> DEFINE c == 60 - (x \div 16) - ((x \div 1) % 16) - (y \div 16) - ((y \div 1) % 16)
           msg == BaseW(<<x, y>>, 4)
           csum == (15 - msg[1]) + (15 - msg[2]) + (15 - msg[3]) + (15 - msg[4])
           hi == ((csum * 16) \div 256) % 256
           lo == (csum * 16) % 256
           tail == BaseW(CsumBytes(csum), 3)
<1>1. /\ msg \in Seq(0..15) /\ Len(msg) = 4
      /\ msg[1] = x \div 16 /\ msg[2] = (x \div 1) % 16
      /\ msg[3] = y \div 16 /\ msg[4] = (y \div 1) % 16
  BY TwoBytes
<1>2. csum = c /\ c \in 0..60
  <2>1. x \div 16 \in 0..15 /\ (x \div 1) % 16 \in 0..15
        /\ y \div 16 \in 0..15 /\ (y \div 1) % 16 \in 0..15
    BY DigitsOfByte
  <2> DEFINE a1 == x \div 16
             a2 == (x \div 1) % 16
             a3 == y \div 16
             a4 == (y \div 1) % 16
  <2>2. /\ a1 \in 0..15 /\ a2 \in 0..15 /\ a3 \in 0..15 /\ a4 \in 0..15
        /\ msg[1] = a1 /\ msg[2] = a2 /\ msg[3] = a3 /\ msg[4] = a4
    BY <1>1, <2>1
  <2>3. c = 60 - a1 - a2 - a3 - a4
    OBVIOUS
  <2> HIDE DEF msg, a1, a2, a3, a4, c
  <2> QED
    BY <2>2, <2>3
<1> HIDE DEF c, msg, csum
<1>3. hi \in Byte /\ lo \in Byte /\ hi \div 16 = 0 /\ (hi \div 1) % 16 = c \div 16 /\ lo \div 16 = c % 16
  <2>1. csum \in 0..60
    BY <1>2
  <2>2. (csum * 16) \div 256 = csum \div 16 /\ csum \div 16 \in 0..3 /\ (csum * 16) % 256 = 16 * (csum % 16)
        /\ csum % 16 \in 0..15
    BY <2>1
  <2>3. hi = csum \div 16 /\ lo = 16 * (csum % 16)
    BY <2>2
  <2> DEFINE q == csum \div 16
             r == csum % 16
  <2>4. hi = q /\ lo = 16 * r /\ q \in 0..3 /\ r \in 0..15
    BY <2>2, <2>3
  <2> HIDE DEF q, r, hi, lo
  <2>5. hi \div 16 = 0 /\ (hi \div 1) % 16 = q /\ lo \div 16 = r
    BY <2>4
  <2>6. hi \in Byte /\ lo \in Byte
    BY <2>4 DEF Byte
  <2> QED
    BY <1>2, <2>5, <2>6 DEF q, r
<1>4. tail = BaseW(<<hi, lo>>, 3)
  BY DEF CsumBytes
<1> HIDE DEF hi, lo, tail
<1>5. tail \in Seq(0..15) /\ Len(tail) = 3 /\ tail[1] = 0 /\ tail[2] = c \div 16 /\ tail[3] = c % 16
  BY <1>3, <1>4, TwoBytes
<1>6. ChainLengths(<<x, y>>) = msg \o tail
  BY DEF ChainLengths, msg, csum, tail
<1>7. msg \in Seq(0..15) /\ Len(msg) = 4 /\ tail \in Seq(0..15) /\ Len(tail) = 3
  BY <1>1, <1>5
<1> DEFINE all == msg \o tail
<1>8. \A k \in 1..Len(msg) + Len(tail) :
        all[k] = IF k <= Len(msg) THEN msg[k] ELSE tail[k - Len(msg)]
  BY <1>7, ConcatProperties, Zenon
<1> HIDE DEF all
<1>9. /\ all[1] = msg[1] /\ all[2] = msg[2] /\ all[3] = msg[3] /\ all[4] = msg[4]
      /\ all[5] = tail[1] /\ all[6] = tail[2] /\ all[7] = tail[3]
  BY <1>7, <1>8
<1> QED
  BY <1>1, <1>2, <1>5, <1>6, <1>9 DEF c, all

\* Two different hashes: some chain of the first is shorter.
LEMMA SomeChainShorter ==
    ASSUME NEW m \in MessageHashes, NEW s \in MessageHashes, m # s
    PROVE  \E k \in 1..7 : ChainLengths(m)[k] < ChainLengths(s)[k]
<1>1. PICK x \in Byte, y \in Byte : m = <<x, y>>
  <2>1. m \in Byte \X Byte
    BY XMSSConstants DEF MessageHashes, Byte
  <2> QED
    BY <2>1
<1>2. PICK u \in Byte, v \in Byte : s = <<u, v>>
  <2>1. s \in Byte \X Byte
    BY XMSSConstants DEF MessageHashes, Byte
  <2> QED
    BY <2>1
<1> DEFINE dm == ChainLengths(m)
           ds == ChainLengths(s)
<1> SUFFICES ASSUME \A k \in 1..7 : ~(dm[k] < ds[k]) PROVE FALSE
  OBVIOUS
<1>3. PICK c \in 0..60 :
        /\ c = 60 - dm[1] - dm[2] - dm[3] - dm[4] /\ dm[6] = c \div 16 /\ dm[7] = c % 16
        /\ dm[1] = x \div 16 /\ dm[2] = (x \div 1) % 16 /\ dm[3] = y \div 16 /\ dm[4] = (y \div 1) % 16
  BY <1>1, ChainsOfHash
<1>4. PICK e \in 0..60 :
        /\ e = 60 - ds[1] - ds[2] - ds[3] - ds[4] /\ ds[6] = e \div 16 /\ ds[7] = e % 16
        /\ ds[1] = u \div 16 /\ ds[2] = (u \div 1) % 16 /\ ds[3] = v \div 16 /\ ds[4] = (v \div 1) % 16
  BY <1>2, ChainsOfHash
<1>5. /\ dm[1] \in 0..15 /\ dm[2] \in 0..15 /\ dm[3] \in 0..15 /\ dm[4] \in 0..15
      /\ ds[1] \in 0..15 /\ ds[2] \in 0..15 /\ ds[3] \in 0..15 /\ ds[4] \in 0..15
      /\ x = 16 * dm[1] + dm[2] /\ y = 16 * dm[3] + dm[4]
      /\ u = 16 * ds[1] + ds[2] /\ v = 16 * ds[3] + ds[4]
  BY <1>3, <1>4, DigitsOfByte
<1> HIDE DEF dm, ds
<1>6. dm[1] >= ds[1] /\ dm[2] >= ds[2] /\ dm[3] >= ds[3] /\ dm[4] >= ds[4]
  BY <1>5
<1>7. ~(c \div 16 < e \div 16) /\ ~(c % 16 < e % 16)
  BY <1>3, <1>4
<1>8. c >= e
  BY <1>7
<1>9. dm[1] = ds[1] /\ dm[2] = ds[2] /\ dm[3] = ds[3] /\ dm[4] = ds[4]
  BY <1>3, <1>4, <1>5, <1>6, <1>8
<1> QED
  BY <1>1, <1>2, <1>5, <1>9

\* The hash that a finished signature reveals is one that can be asked for.
HashMade == xmade.hash = <<>> \/ xmade.hash \in MessageHashes

\* What a signature of XMSS reveals is never enough for another message hash:
\* the three digits of the checksum grow when the digits of the hash shrink,
\* whatever bytes hashes are made of.
THEOREM XMSSNeverRevealsOther == XMSSSpec => []XMSSRevealsNoOther
<1>1. XMSSInit => HashMade
  BY DEF XMSSInit, HashMade, NothingMade
<1>2. HashMade /\ [XMSSNext]_xmssVars => HashMade'
  <2>1. CASE UNCHANGED xmade
    BY <2>1 DEF HashMade, MessageHashes
  <2>2. CASE xmade' = NothingMade
    BY <2>2 DEF HashMade, NothingMade
  <2>3. ASSUME XSignCompletes, HashMade PROVE HashMade'
    <3>1. CASE xmade' = NothingMade
      BY <3>1 DEF HashMade, NothingMade
    <3>2. CASE \E m \in MessageHashes :
                 xmade' = [key |-> xprv.seed, digest |-> xdigests', hash |-> m]
      BY <3>2 DEF HashMade, MessageHashes
    <3> QED
      BY <2>3, <3>1, <3>2 DEF XSignCompletes
  <2> QED
    BY <2>1, <2>2, <2>3
       DEF XMSSNext, xmssVars, XInitKeyPair, XInitSignature, XSetPublicKeyState,
           XSetSignatureState, XKeyGen, XSignFailsEarly
<1>3. HashMade => XMSSRevealsNoOther
  BY SomeChainShorter DEF HashMade, XMSSRevealsNoOther
<1> QED
  BY <1>1, <1>2, <1>3, PTL DEF XMSSSpec
=============================================================================
