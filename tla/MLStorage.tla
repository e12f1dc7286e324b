----------------------------- MODULE MLStorage -----------------------------
(* The scratch storage of ML-KEM and ML-DSA (stateless_pqc, ml_kem, ml_dsa): *)
(* a stack in the caller's working buffer, whose size one function computes  *)
(* and many others use up.  A call is run as the list of what it does to the *)
(* storage; the lattice arithmetic between is left out.  Turns of a loop     *)
(* that take and give the same bytes appear once: the first that fails ends  *)
(* the loop.                                                                 *)
EXTENDS Integers, Sequences

CONSTANTS Builds,          \* "portable", "multibuffer": sampling in storage or not
          HashStateBytes,  \* sizeof(IppsHashState_rmf)
          MaxMessageLens,  \* maxMessageLength for ippsMLDSA_Init, valid ones
          MessageLens,     \* lengths of the messages and contexts passed to a call
          ContextLens,
          Skews,           \* distances of a working buffer to the next aligned byte
          MaxSignTurns     \* turns of the rejection loop: 815

ASSUME StorageConstants ==
    /\ Builds \subseteq {"portable", "multibuffer"} /\ HashStateBytes \in Nat
    /\ MaxMessageLens \subseteq Nat \ {0} /\ MessageLens \subseteq Nat \ {0}
    /\ ContextLens \subseteq 0..255 /\ Skews \subseteq 0..7
    /\ MaxSignTurns \in Nat \ {0}

VARIABLES build, \* how the library was built
          state, \* IppsMLKEMState or IppsMLDSAState: the scheme and the capacities
          store, \* the storage, and what of the buffer is not cleared
          work   \* the call in progress, or the result of the last

storageVars == <<build, state, store, work>>

-----------------------------------------------------------------------------
(* The primitives of common.h.  `dirty' bounds the bytes a call wrote and has *)
(* not cleared; `first' tells if the caller's first byte is still there.      *)

Greater(a, b) == IF a > b THEN a ELSE b
Lesser(a, b) == IF a < b THEN a ELSE b

Fits(s, n) == s.cap - s.used >= n

Allocate(s, n) ==
    IF ~Fits(s, n) THEN s
    ELSE [s EXCEPT !.used = @ + n, !.dirty = Greater(@, s.used + n), !.first = FALSE]

\* Several blocks, one after the other: the storage after each of them.
Allocated(s, ns) ==
    LET after[j \in 0..Len(ns)] == IF j = 0 THEN s ELSE Allocate(after[j - 1], ns[j])
    IN after

\* What was written up to `used' is cleared down to n bytes below.
Release(s, n) ==
    [s EXCEPT !.used = @ - n, !.dirty = IF @ > s.used THEN @ ELSE s.used - n]

MutantReleaseAll(s) == [s EXCEPT !.used = 0]
ReleaseAll(s) ==
    [s EXCEPT !.used = 0, !.dirty = IF @ > Lesser(s.used, s.cap) THEN @ ELSE 0]

\* The check after clearing: the first byte of the storage is read as zero.
FirstByteIsZero(s, foreign) == s.dirty = 0 /\ ~(s.first /\ foreign)

-----------------------------------------------------------------------------
(* Sizes. *)

Align == 8                                   \* CP_ML_ALIGNMENT
Poly(c) == IF c.family = "kem" THEN 512 ELSE 1024
Polys(c, n) == n * Poly(c) + Align
HashState(block) == HashStateBytes + block + 208
Shake128 == HashState(168)
Shake256 == HashState(136)
Sha3_512 == HashState(72)

Kem(k, eta1, du, dv) == [family |-> "kem", k |-> k, eta1 |-> eta1, eta2 |-> 2, du |-> du, dv |-> dv]
Dsa(k, l, lambda4, c, w1Bits) ==
    [family |-> "dsa", k |-> k, l |-> l, lambda4 |-> lambda4, maskBytes |-> 32 * c,
     encodeSize |-> 32 * k * w1Bits]

KemParams == {Kem(2, 3, 10, 4), Kem(3, 2, 10, 4), Kem(4, 2, 11, 5)}
DsaParams == {Dsa(4, 4, 32, 18, 6), Dsa(6, 5, 48, 20, 4), Dsa(8, 7, 64, 20, 4)}

CipherTextBytes(c) == 32 * (c.du * c.k + c.dv)

mlkemMemoryConsumption(c) ==
    LET keygen == c.eta1 * 64 + (3 * c.k + 1) * Poly(c) + Shake256 + 5 * Align
        encaps == (4 * c.k + 4) * Poly(c) + c.eta1 * 64 + Shake256 + 9 * Align
    IN [keygen |-> keygen, encaps |-> encaps,
        decaps |-> Greater(Shake256, Sha3_512) + (3 + 2 * c.k) * Poly(c)
                   + CipherTextBytes(c) + encaps + 3 * Align]

VerifyBytes(c, max) ==
    3 * c.k * Poly(c) + c.lambda4 + 4 * Align + Align
    + Greater(64 + Greater(2 + 256 + max, c.encodeSize), Greater(Shake128, Shake256))

SignBytes(c, max) ==
    LET turn == Greater(c.l * Poly(c) + Shake128 + 2 * Align,
                        Greater(c.k * Poly(c) + 64 + c.encodeSize + 2 * Align, Shake256 + Align))
    IN (2 * c.k + c.l) * Poly(c) + 3 * Align
       + (IF build = "multibuffer" THEN c.k * c.l * Poly(c) + Align ELSE 0)
       + Greater(64 + 2 + 256 + max + Align,
                 (2 * c.k + c.l) * Poly(c) + 3 * Align + turn + c.k * Poly(c) + Align)

\* A maximal length of 0 stands for IPPCP_MLDSA_NO_MESSAGE.
MutantKeygenBytes(c) == (2 * c.k + 2 * c.l - 1) * Poly(c) + 4 * Align + Shake128 + Align
KeygenBytes(c) == (3 * c.k + c.l) * Poly(c) + 4 * Align + Greater(Shake128, Shake256) + Align

mldsaMemoryConsumption(c, max) ==
    [keygen |-> KeygenBytes(c),
     sign   |-> IF max = 0 THEN 0 ELSE SignBytes(c, max),
     verify |-> IF max = 0 THEN 0 ELSE VerifyBytes(c, max)]

-----------------------------------------------------------------------------
(* Scripts.  An entry may fail; the error is recorded, unless the status is   *)
(* lost, and `skip' entries are passed over.  Unresolved errors (Out) leave   *)
(* the function they occur in.                                                *)

Out == -1
Entry(do, ns, free) == [do |-> do, ns |-> ns, free |-> free, skip |-> Out, lost |-> FALSE]

Take(ns) == <<Entry("take", ns, FALSE)>>              \* cp_mlStorageAllocate
TakeOrFree(n) == <<Entry("take", <<n>>, TRUE)>>       \* ... with CP_CHECK_FREE_RET
Give(n) == <<Entry("give", <<n>>, FALSE)>>            \* cp_mlStorageRelease
GiveAll == <<Entry("giveall", <<>>, FALSE)>>
Try == <<Entry("try", <<>>, FALSE)>>                  \* a call whose status is tested
Leave == <<[Entry("try", <<>>, FALSE) EXCEPT !.lost = TRUE]>>  \* an early ippStsNoErr
Either(n) == <<[Entry("either", <<>>, FALSE) EXCEPT !.skip = n]>>
Goto(n) == <<[Entry("goto", <<>>, FALSE) EXCEPT !.skip = n]>>
Turn(n) == <<[Entry("turn", <<>>, FALSE) EXCEPT !.skip = -n]>>
LastTurn == <<Entry("lastturn", <<>>, FALSE)>>

\* Errors inside lead to the end of s, and the status of s is not looked at.
To(s) == [j \in DOMAIN s |-> IF s[j].skip = Out THEN [s[j] EXCEPT !.skip = Len(s) - j] ELSE s[j]]
Lost(s) == [j \in DOMAIN s |-> IF s[j].skip = Out
                               THEN [s[j] EXCEPT !.skip = Len(s) - j, !.lost = TRUE] ELSE s[j]]

Temporary(n) == Take(<<n>>) \o Try \o Give(n)
TemporaryOrFree(n) == TakeOrFree(n) \o Try \o Give(n)
IfPortable(s) == IF build = "portable" THEN s ELSE <<>>

\* ML-KEM.
cp_matrixAGen == Lost(IfPortable(TemporaryOrFree(Shake128 + Align)))
cp_polyVecGen(eta) == Lost(IfPortable(TemporaryOrFree(eta * 64 + Align)))
cp_polyGen(eta) == Lost(TemporaryOrFree(eta * 64 + Align))

cp_KPKE_KeyGen(c) ==
    LET v == Polys(c, c.k) IN
    To(TakeOrFree(v) \o TakeOrFree(v) \o TakeOrFree(v) \o Try \o cp_matrixAGen
       \o cp_polyVecGen(c.eta1) \o Try \o cp_polyVecGen(c.eta1)
       \o TakeOrFree(Polys(c, 1)) \o Give(Polys(c, 1)) \o Try)
    \o GiveAll

cp_KPKE_Encrypt(c) ==
    LET v == Polys(c, c.k)
        p == Polys(c, 1)
    IN TakeOrFree(v) \o TakeOrFree(v) \o TakeOrFree(p) \o TakeOrFree(v) \o TakeOrFree(v)
       \o TakeOrFree(p) \o TakeOrFree(p) \o Try \o cp_matrixAGen
       \o cp_polyVecGen(c.eta1) \o cp_polyVecGen(c.eta2) \o cp_polyGen(c.eta2)
       \o TakeOrFree(p) \o Try \o Give(p) \o Try
       \o Give(v) \o Give(v) \o Give(p) \o Give(v) \o Give(v) \o Give(p) \o Give(p)

cp_KPKE_Decrypt(c) ==
    LET v == Polys(c, c.k)
        p == Polys(c, 1)
    IN TakeOrFree(v) \o TakeOrFree(p) \o TakeOrFree(v) \o TakeOrFree(p) \o Try
       \o TakeOrFree(p) \o Give(p) \o Try \o Give(v) \o Give(p) \o Give(v) \o Give(p)

\* A failed decryption goes on, its status is added at the end.
cp_MLKEMdecaps_internal(c) ==
    To(To(cp_KPKE_Decrypt(c)) \o Try \o Take(<<Shake256 + Align>>) \o Try
       \o Take(<<CipherTextBytes(c) + Align>>) \o cp_KPKE_Encrypt(c))
    \o GiveAll

\* ML-DSA.
cp_ml_expandS == IfPortable(Temporary(Shake256 + Align)) \o Try
cp_ml_expandA == IfPortable(Temporary(Shake128 + Align)) \o Try
cp_ml_sampleInBall == Temporary(Shake256 + Align) \o Try

cp_MLDSA_keyGen_internal(c) ==
    Try \o Take(<<Polys(c, c.l), Polys(c, c.k), Polys(c, c.k)>>) \o cp_ml_expandS
    \o Take(<<Polys(c, c.l)>>) \o cp_ml_expandA \o Give(Polys(c, c.l))
    \o Take(<<Polys(c, c.k)>>) \o Try
    \o Give((3 * c.k + c.l) * Poly(c) + 4 * Align)

\* One turn of the rejection loop, accepted (over the last entry) or not.
SignTurn(c) ==
    LET kv == Polys(c, c.k)
        lv == Polys(c, c.l)
        hashed == 64 + c.encodeSize + Align
        head == Temporary(c.maskBytes + Align)
                \o Take(<<lv>>) \o (IF build = "portable" THEN cp_ml_expandA ELSE <<>>) \o Give(lv)
                \o Take(<<kv>>) \o Temporary(hashed) \o Give(kv)
                \o cp_ml_sampleInBall
                \o Take(<<lv>>) \o Give(lv)
                \o Take(<<kv>>) \o Take(<<kv>>) \o Give(kv)
        hint == Take(<<kv>>) \o Give(kv)
        body == head \o Either(Len(hint) + 3) \o hint \o Either(2)
                \o Give(kv) \o Goto(2) \o Give(kv)
    IN body \o Turn(Len(body) + 1)

cp_MLDSA_Sign_internal(c, input) ==
    LET kv == Polys(c, c.k)
        lv == Polys(c, c.l)
        fast == build = "multibuffer"
    IN (IF fast THEN Take(<<Polys(c, c.k * c.l)>>) ELSE <<>>)
       \o Take(<<lv, kv, kv>>) \o Temporary(input + Align) \o Try
       \o (IF fast THEN cp_ml_expandA ELSE <<>>)
       \o Take(<<lv, kv, kv>>) \o SignTurn(c)
       \o Give((4 * c.k + 2 * c.l) * Poly(c) + 6 * Align)
       \o (IF fast THEN Give(Polys(c, c.k * c.l)) ELSE <<>>)
       \o LastTurn

cp_MLDSA_ComputeMu(input) == Try \o Temporary(input + Align)

cp_MLDSA_VerifyCore(c) ==
    LET kv == Polys(c, c.k) IN
    Take(<<kv, kv, kv>>) \o Leave \o cp_ml_sampleInBall \o Lost(cp_ml_expandA)
    \o Take(<<c.lambda4 + Align>>) \o Temporary(64 + c.encodeSize + Align)
    \o Give(c.lambda4 + Align) \o Give(3 * c.k * Poly(c) + 3 * Align)

Script(w) ==
    LET c == state.params IN
    To(CASE w.api = "MLKEM_KeyGen"    -> cp_KPKE_KeyGen(c) \o Try
         [] w.api = "MLKEM_Encaps"    -> Try \o cp_KPKE_Encrypt(c)
         [] w.api = "MLKEM_Decaps"    -> cp_MLKEMdecaps_internal(c)
         [] w.api = "MLDSA_KeyGen"    -> cp_MLDSA_keyGen_internal(c)
         [] w.api = "MLDSA_Sign"      -> cp_MLDSA_Sign_internal(c, w.input)
         [] w.api = "MLDSA_Verify"    -> cp_MLDSA_ComputeMu(w.input) \o cp_MLDSA_VerifyCore(c)
         [] w.api = "MLDSA_Verify_Mu" -> cp_MLDSA_VerifyCore(c))

-----------------------------------------------------------------------------
KemCalls == {"MLKEM_KeyGen", "MLKEM_Encaps", "MLKEM_Decaps"}
DsaCalls == {"MLDSA_KeyGen", "MLDSA_Sign", "MLDSA_Verify", "MLDSA_Verify_Mu"}

\* The capacities Init stores; that of Verify_Mu is computed by each call.
Capacities(c, max) ==
    IF c.family = "kem"
    THEN LET m == mlkemMemoryConsumption(c) IN
         [f \in KemCalls |-> CASE f = "MLKEM_KeyGen" -> m.keygen
                               [] f = "MLKEM_Encaps" -> m.encaps
                               [] f = "MLKEM_Decaps" -> m.decaps]
    ELSE LET m == mldsaMemoryConsumption(c, max) IN
         [f \in DsaCalls |-> CASE f = "MLDSA_KeyGen" -> m.keygen
                               [] f = "MLDSA_Sign" -> m.sign
                               [] f = "MLDSA_Verify" -> m.verify
                               [] OTHER -> 0]

CapacityOf(f) == IF f = "MLDSA_Verify_Mu" THEN VerifyBytes(state.params, 0) ELSE state.caps[f]

Idle(ret) ==
    [api |-> "none", at |-> 0, input |-> 0, skew |-> 0, foreign |-> FALSE, sts |-> "ok",
     refused |-> FALSE, ignored |-> FALSE, stale |-> FALSE, turn |-> 1, ret |-> ret]
Resting == work.at = 0
EmptyStorage == [cap |-> 0, used |-> 0, dirty |-> 0, first |-> TRUE]

StorageInit ==
    /\ build \in Builds
    /\ state = [params |-> [family |-> "none"], max |-> 0, whole |-> FALSE, caps |-> <<>>]
    /\ store = EmptyStorage
    /\ work = Idle("none")

ippsMLKEM_Init(c) ==
    /\ Resting
    /\ state' = [params |-> c, max |-> 0, whole |-> TRUE, caps |-> Capacities(c, 0)]
    /\ store' = EmptyStorage
    /\ work' = Idle("ok")
    /\ UNCHANGED build

ippsMLDSA_Init(c, max) ==
    /\ Resting
    /\ state' = [params |-> c, max |-> max, whole |-> TRUE, caps |-> Capacities(c, max)]
    /\ store' = EmptyStorage
    /\ work' = Idle("ok")
    /\ UNCHANGED build

\* A length it refuses: the context has the new parameters and the old capacities.
ippsMLDSA_InitRefused(c) ==
    /\ Resting /\ state.params.family = "dsa"
    /\ state' = [state EXCEPT !.params = c, !.whole = FALSE]
    /\ work' = Idle("error")
    /\ UNCHANGED <<build, store>>

\* A call with a fresh working buffer; Sign and Verify need a capacity.
Begin(f, input, skew, foreign, drawn) ==
    /\ Resting /\ f \in DOMAIN state.caps /\ CapacityOf(f) > 0
    /\ f \notin {"MLDSA_Sign", "MLDSA_Verify"} => input = 0
    /\ f # "MLKEM_Encaps" => skew = 0
    /\ f \in {"MLKEM_Decaps", "MLDSA_Verify", "MLDSA_Verify_Mu"} => drawn
    /\ store' = [store EXCEPT !.cap = CapacityOf(f), !.dirty = 0, !.first = TRUE]
    /\ LET w == [Idle("none") EXCEPT !.api = f, !.input = input, !.skew = skew,
                                     !.foreign = foreign, !.at = 1]
       IN work' = CASE drawn -> w
                    [] ~drawn /\ f = "MLKEM_KeyGen" ->
                           [w EXCEPT !.at = Len(Script(w)) + 1, !.sts = "random"]
                    [] OTHER -> Idle("random")
    /\ UNCHANGED <<build, state>>

-----------------------------------------------------------------------------
(* The entries of a script. *)

Current == Script(work)[work.at]
At(do) == ~Resting /\ work.at <= Len(Script(work)) /\ Current.do = do
GoesOn == [work EXCEPT !.at = @ + 1]
Jumps == [work EXCEPT !.at = @ + 1 + Current.skip]
Fails == [Jumps EXCEPT !.sts = IF Current.lost THEN @ ELSE "error",
                       !.ignored = @ \/ Current.lost]
Quiet == UNCHANGED <<build, state>>

\* Where several blocks are taken before the pointers are tested, all are tried.
TakeBlocks ==
    /\ At("take")
    /\ LET after   == Allocated(store, Current.ns)
           taken   == after[Len(Current.ns)]
           refused == \E j \in 1..Len(Current.ns) : ~Fits(after[j - 1], Current.ns[j])
       IN /\ store' = IF refused /\ Current.free THEN ReleaseAll(taken) ELSE taken
          /\ work' = IF refused
                     THEN [Fails EXCEPT !.refused = TRUE,
                                        !.stale = @ \/ (Current.free /\ Current.lost)]
                     ELSE GoesOn
    /\ Quiet

TrySucceeds == At("try") /\ work' = GoesOn /\ UNCHANGED store /\ Quiet
TryFails == At("try") /\ work' = Fails /\ UNCHANGED store /\ Quiet

GiveBlock ==
    /\ At("give")
    /\ LET n == Current.ns[1] IN
       IF n > store.used THEN work' = Fails /\ UNCHANGED store
       ELSE work' = GoesOn /\ store' = Release(store, n)
    /\ Quiet

GiveEverything ==
    /\ At("giveall")
    /\ store' = ReleaseAll(store)
    /\ work' = IF work.sts = "ok" /\ FirstByteIsZero(store', work.foreign) THEN GoesOn ELSE Fails
    /\ Quiet

Choose ==
    /\ At("either")
    /\ work' \in {GoesOn, Jumps}
    /\ UNCHANGED store /\ Quiet

GoTo == At("goto") /\ work' = Jumps /\ UNCHANGED store /\ Quiet

NextTurn ==
    /\ At("turn")
    /\ work' = IF work.turn < MaxSignTurns THEN [Jumps EXCEPT !.turn = @ + 1] ELSE GoesOn
    /\ UNCHANGED store /\ Quiet

\* What is accepted on the last turn is discarded too.
CheckTurns ==
    /\ At("lastturn")
    /\ work' = IF work.turn >= MaxSignTurns THEN Fails ELSE GoesOn
    /\ UNCHANGED store /\ Quiet

\* The end of every call; a storage that is not cleared hides another error.
Return ==
    /\ ~Resting /\ work.at > Len(Script(work))
    /\ store' = ReleaseAll(store)
    /\ work' = [work EXCEPT !.at = 0,
                            !.ret = IF FirstByteIsZero(store', work.foreign) THEN work.sts
                                    ELSE "memory"]
    /\ Quiet

StorageNext ==
    \/ \E c \in KemParams : ippsMLKEM_Init(c)
    \/ \E c \in DsaParams, max \in MaxMessageLens \cup {0} : ippsMLDSA_Init(c, max)
    \/ \E c \in DsaParams : ippsMLDSA_InitRefused(c)
    \/ \E f \in KemCalls \cup DsaCalls, m \in MessageLens, x \in ContextLens, skew \in Skews,
          foreign, drawn \in BOOLEAN :
          Begin(f, IF f \in {"MLDSA_Sign", "MLDSA_Verify"} THEN 64 + 2 + x + m ELSE 0,
                skew, foreign, drawn)
    \/ TakeBlocks \/ TrySucceeds \/ TryFails \/ GiveBlock \/ GiveEverything
    \/ Choose \/ GoTo \/ NextTurn \/ CheckTurns \/ Return

StorageSpec == StorageInit /\ [][StorageNext]_storageVars

-----------------------------------------------------------------------------
\* What the size function counts covers what the call takes, block by block,
\* on every path and after any failure inside: no block is refused, and none
\* reaches past a working buffer that had to be aligned.  It may be refused
\* only if the message is longer than Init was told, if Init failed, or after
\* an error whose status the code drops and whose block stays taken.  No function
\* goes on with blocks that an error further down has released.
StorageSuffices ==
    /\ work.refused => \/ ~state.whole \/ work.ignored
                       \/ work.input > 64 + 2 + 255 + state.max
    /\ work.at > 0 => store.used + work.skew <= store.cap
    /\ ~work.stale

\* After a call nothing stays taken and every byte a call wrote is cleared,
\* on each of the error returns; a refused block is never a success, and a
\* storage that is not cleared is reported for the caller's own first byte only.
StorageClean ==
    /\ Resting => store.used = 0 /\ store.dirty = 0
    /\ work.ret = "ok" => ~work.refused \/ work.ignored
    /\ work.ret = "memory" => work.foreign /\ store.first
=============================================================================
