# TLA+ models of Intel IPP Cryptography

TLA+ modules that model parts of `ipp-crypto`, TLC configurations that
model-check them on small instances, and TLAPS proofs of what holds for every
value of the constants. `PROJECT.json` maps every modelling definition to the
source lines it stands for, lists the runs, the hazards that the properties
are for, and for each property a plausible bug of the code that breaks it.

Paths below are relative to `sources/ippcp` unless they start with `doc/` or
`sources/`.

    tlc -workers 2 -config MC_HashDRBG.cfg MC_HashDRBG      # a run
    tlapm Signers_proofs.tla                                # the proofs of a module

## 1. Inventory of the system

The library is a collection of C functions that work on contexts the
application owns (`IppsXxxState`, sized by a `GetSize` function and filled by
an `Init` function). A context carries an identifier that later calls compare
(`ippStsContextMatchErr`); there are no locks, no threads and no callbacks
except entropy and random-number functions the caller passes. Most of the code is
arithmetic over wide integers, fields and block ciphers, which test vectors cover well.
What tests reach badly is the *state* around that arithmetic:

| component | state | operations | hard behaviour | what makes it correct |
|---|---|---|---|---|
| **Hash_DRBG** (`drbg/`) | V, C, reseed counter, strength and prediction-resistance flag; the entropy context | `Init`, `EntropyInputCtxInit`, `Instantiate`, `Reseed`, `Gen`, `GenBN`, `Uninstantiate` | every call may fail at several places and leaves the context partly changed; a generate call may reseed inside | no working state is used twice, a seed has a bounded life and supports the strength it serves |
| **LMS key and signer** (`stateful_sig/lms/`) | the counter q and seed of the private key; the signature state | `InitKeyPair`, `InitSignature`, `KeyGen`, `SetPrivateKeyState`, `Sign`, `GetSignatureElems` | the application must persist the counter; crashes, failures, exhaustion and re-import | a one-time key never signs twice |
| **LMS tree** (`stateful_sig/lms/lms_internal.c`) | the stack of subtrees, the extra buffer of cached nodes, the authentication path | `cp_lms_tree_hash` from key generation and signing, the root of `ippsLMSVerify` | index arithmetic at the boundary of a buffer of arbitrary size | the path verifies, nothing unwritten is read |
| **CPU dispatcher** (`cpinit.c`, `sources/dispatcher/`) | `cpFeatures`, `cpFeaturesMask`, the jump index: globals without a lock | entry points, `ippcpInit`, `ippcpSetCpuFeatures`, `ippcpGetCpuFeatures`, `IsFeatureEnabled` | first calls of several threads race to initialise | only code the CPU can run runs, and functions and tables agree |
| **XMSS** (`stateful_sig/xmss/`) | the index and the three seeds of the private key; the signature state | `InitKeyPair`, `InitSignature`, the setters, `KeyGen`, `Sign`, `Verify` | failed calls leave half-old signatures; `InitKeyPair` rewinds the index | a one-time key never signs twice; only what was signed verifies |
| **AES-GCM, CCM, CMAC** (`pcpaes_gcm*.c`, `pcpaes_ccm*.c`, `pcpaes_cmac*.c`) | phase, partial block, lengths, counter, running hash | start, IV, AAD, encrypt/decrypt in pieces, tag | any split of the message into calls; phase changes; text after a tag | the pieces give what one call gives; no key stream byte is used twice |
| **Hash, HMAC, SHAKE** (`hash/`, `pcphmac*`) | partial block, processed length, what was squeezed; the shared method | init, update, tag, final, squeeze, duplicate, pack, unpack | as above; tags in the middle; methods shared by contexts | as above |
| **ML-KEM, ML-DSA** (`ml_kem/`, `ml_dsa/`) | parameters and capacities; a stack-like scratch storage in the caller's buffer | init, key generation, encapsulation, signing with rejection, verification | balance and size of the storage over all error paths and rejections | the size announced suffices, nothing stays taken or uncleared |
| Finite fields, curves (`gsmod*`, `pcpgfp*`, `ecnist/`) | pools of temporaries; SM2 encryption state | field and point arithmetic; SM2 start, encrypt, final | pool balance, order of calls | balance; the pieces give what one call gives |
| DLP, ECC signing (`pcpdlp*`, `pcpgfpec*`) | ephemeral keys kept in the context | generate, set, sign | an ephemeral key used twice | used at most once |
| Big numbers (`pcpbn*`) | sign, size and digits | arithmetic, set, get | normalisation, aliasing of arguments | equals integer arithmetic |
| RSA, legacy ciphers, PRNG, primes, self-tests, size functions, kernels, the multi-buffer library | set once or none | - | the arithmetic itself | outside what these models are for |

How components interact: the application calls everything through the entry points of the
dispatcher, which jump to one of five builds of the same code. `ippsAES_GCMInit` and the
`ippsHashMethod_*_TT` functions look again at the dispatcher's globals while they
run. Hash_DRBG calls the hash functions of a method table and the caller's
entropy callback. LMS and XMSS call hashes and the caller's random function, and rely on the
application to save their key state. The big-number, field and curve layers are
called by everything else and share pools.

## 2. Modules

| module | role | source |
|---|---|---|
| `HashDRBG` | the Hash_DRBG component under an arbitrary caller | `drbg/*.c`, `drbg/internal/*.c` |
| `HashDRBGClient` | the same under a caller that obeys the documented protocol | `doc/source/drbg/` |
| `SeededGenerator` | abstract: what a generator promises | - |
| `HashDRBG_proofs` | theorems about both | - |
| `LMSKey` | the LMS key pair and signature states | `stateful_sig/lms/lms_keygen.c`, `lms_sign.c`, `lms_setters_getters.c` |
| `LMSSigner` | an application with a disk and crashes around `LMSKey` | `doc/source/lms/sign.rst` |
| `OneTimeKeys` | abstract: what a stateful signature promises | - |
| `TreeIndex` | powers of two, ancestors and siblings of leaves, shared by both trees | `stateful_sig/lms/lms_internal.c` |
| `LMSTreeHash` | the Merkle-tree walk, node by node | `stateful_sig/lms/lms_internal.c`, `lms_verify.c` |
| `CpuFeatures` | the dispatcher's globals and routines, access by access | `cpinit.c` |
| `Dispatcher` | threads in the entry points and in two users of the globals | `sources/dispatcher/gen_disp_lin64.py`, `pcpaes_gcminit.c`, `hash/sha256/pcphashmethod_sha256_tt.c` |
| `Dispatcher_proofs` | theorems | - |
| `XMSS` | the XMSS key pair, its calls, tree, digits and verification | `stateful_sig/xmss/*.c` |
| `Signers_proofs` | theorems about `LMSSigner`, and about the indices and the digits of `XMSS` | - |
| `ByteBlocks` | ideal bytes, blocks and the cutting of pieces, shared by the streams | - |
| `ByteBlocks_proofs` | lemmas about it | - |
| `AESGCM`, `AESCCM`, `AESCMAC` | the streaming AES contexts | `pcpaes_gcm*.c`, `pcpaes_ccm*.c`, `pcpaes_cmac*.c` |
| `HashStream` | the hash and SHAKE contexts | `hash/pcphash*_rmf.c`, `hash/sha3/` |
| `HMACStream` | the HMAC contexts | `pcphmac*_rmf.c` |
| `OneCallGCM`, `OneCallCCM`, `OneCallCMAC`, `OneCallHash`, `OneCallHMAC` | abstract: one call on the whole message | - |
| `AESGCM_proofs` | theorems about `AESGCM` | - |
| `ChainedBlocks_proofs` | theorems about `AESCMAC`, `AESCCM`, `HashStream` and `HMACStream` | - |
| `MLStorage` | the scratch storage of ML-KEM and ML-DSA, call by call | `ml_kem/`, `ml_dsa/`, `sources/include/stateless_pqc/` |
| `MLStorage_proofs` | theorems about it | - |
| `MerkleTrees_proofs` | theorems about `LMSTreeHash`, and about the tree and the signatures of `XMSS` | - |
| `MC_HashDRBG`, `MC_HashDRBGClient`, `MC_Dispatcher` | instances for TLC | - |
| `MC_Signers` | instances of `LMSSigner` and `XMSS` | - |
| `MC_PostQuantum` | instances of `LMSTreeHash` and `MLStorage` | - |
| `MC_Streams` | instances of the five streams | - |

`HashDRBGClient` extends `HashDRBG`, `LMSSigner` extends `LMSKey`, `Dispatcher` extends
`CpuFeatures` ,
`HMACStream`, whose contexts hold a hash context, extends `HashStream`, and both trees extend
`TreeIndex`; the
abstract modules are instantiated with a refinement mapping. The components that
`MC_Signers`, `MC_PostQuantum` and `MC_Streams` put together share nothing in
the code either: each behaviour exercises one of them and the others stand still.
An operator named `Mutant...` stands before the definition it is a faulty
version of, and no specification uses it.

### Hash_DRBG

`ctx` is the `IppsHashDRBGState`, `entr` the `IppsHashDRBG_EntropyInputCtx`.
There is one action per public function. Each begins with the argument checks of
the code in their order (`InstantiateCheck`, `ReseedCheck`, `GenCheck`) and then
does all the work of the call, every failing branch included, in one step: no
other thread may use the context meanwhile, so nothing can be observed in between.

*Abstraction of V and C.* Their values matter only as far as two of them may be
equal. `V = [seed, path]` records which entropy draw it was derived from and what
was absorbed since; `C = [seed, whole]` records the draw and whether all blocks
of it are there. Two Vs are equal exactly when the same inputs were hashed, which is
what a collision-free hash gives. Seed 0 is "zero", or bytes that no completed
seeding stands behind: `cpHashDRBG_df` purges from a pointer that has already moved
when it fails in its second block (`DfV`, `DfC`), and the error path of a generate call clears
V and C but not the identifier, the strength or the counter (`Wiped`).

*Inputs.* An additional input or personalization string is one of the cases the
code distinguishes: none, a negative length, a pointer that does not fit its
length, more bits than `int` arithmetic can convert (the byte count is then
negative on a build that wraps, and the hash refuses it), or an ordinary string from `Inputs`.
`HashFaults` lets any hash call fail without a cause of length.

`HashDRBGClient` restricts the caller: after an error it instantiates again
before it asks for output. Under it the component implements `SeededGenerator`: outputs
come from a current seed only, a lost or replaced seed never comes back, and none
serves more than its limit.

### LMS key and signer

`LMSKey` holds `prv` (identifier, seed as a key number, q), `pub` and `sig`.
`KeyGen` resets q before it draws the seed and purges the seed on errors; `Sign`
takes the index before any work and does not give it back, returns
`ippStsOutOfRangeErr` both with the last good signature and for an exhausted key,
and a refused call leaves the signature state of an earlier call alone. Key
`External` is the one the caller imports with `ippsLMSSetPrivateKeyState`; memory
before the first call holds any counter. `used` records every one-time signature
computed, also in part and also by calls that fail afterwards.

`LMSSigner` is the application of the note in `doc/source/lms/sign.rst`: it
persists after every call, error returns included, before it lets the signature
out. The library has no getter for the private counter, so it stores the index
`ippsLMSGetSignatureElems` returns, plus 1, and keeps the larger of that and what is
stored. `Crash` may happen at any step and empties the memory; the disk and
the published signatures stay. A signature that was computed but never handed out leaves no
trace in the world, so the crash removes it from `used`.
`OneTimeKeys` is what the world sees: an index of a key is published with one digest at
most.

### LMS tree

`LMSTreeHash` runs the loop of `cp_lms_tree_hash` one leaf or one merge at a
time: first for `ippsLMSKeyGen`, which fills the extra buffer, then for
`ippsLMSSign` of any leaf, which skips subtrees whose nodes are in the buffer.
Buffer sizes are counted in nodes of m bytes, and the four comparisons of the code with
that size are kept as they are (`Below`, `UpTo`). The hash is ideal: a node is
`<<height, index>>` if the children and the address it was hashed with are right,
`Garbage` otherwise, so a misplaced or missing node cannot verify. The
one-time signature chains below the leaves are not modelled.

### Dispatcher

One step is one access to one of the three globals, or to the static hash method.
`Get`, `CpuidFeatures` and `CpuidMask` are `ippcpGetCpuFeatures` with `cpGetFeatures`;
`SetDetect` to `SetRemask` are `ippcpSetCpuFeatures` with
`owncpFeaturesToIdx`; `my[t]` holds what a thread has on its stack, among it the callee's own
copy of the argument. `Jump` and `InitSet` are the generated entry point, `Feature`
and `Enabled` the two looks `IsFeatureEnabled` takes. Memory is sequentially
consistent: x86 keeps the order of stores, and the compiler is assumed not to reorder
these. The data races of the C code are the interleavings of
these steps; a torn value of an aligned word is not an outcome on this platform.

Grouped: feature bits that the code treats alike share a name; the two reads
`VAES && VCLMUL` of the 512-bit code are one test; the feature checks inside
`ippsAESInit` and the 32-bit and Windows entry points are left out. An
application calls `ippcpSetCpuFeatures` only while no other library function runs, as
the manual demands, and only with features the CPU has.

### XMSS

`xprv` is the private key state, `xpub` the public one, `xsig` the signature
state. A seed is the number of the key generation that drew it; a `KeyGen` that fails at
its first, second or third draw or later leaves as many purged seeds and the older ones
behind them (`PurgedSeeds`), as the code does. `XSignFailsEarly` and
`XSignCompletes` are the two halves of the outcomes of `ippsXMSSSign`: the index is taken
first in both; a hash that fails early leaves a signature state of which the
index and perhaps the randomizer and part of the path are new and the rest is old,
and a late one leaves an incomplete one-time signature. `XSetSignatureState` and
`XSetPublicKeyState` put what the caller has into the states. The tree is built leaf by leaf
with the stack of the code (`XLeafStep`, `XMerge`), hashes being ideal as in
`LMSTreeHash`; `XVerify` climbs the path with the parity of the index.
`ChainLengths` are the digits and the checksum of the one-time signature, with
hashes of two bytes instead of `n`; the checksum has three digits as in the code.
`xused`, `xmade` and `xreset` are histories. `xreset` holds the keys whose state
`ippsXMSSInitKeyPair` was called on again: that rewinds the index and keeps the seeds, so the
properties except them.

### Streams

A byte is the set of the terms XORed into it, so two bytes are equal only if
they are made of the same things; a block has `BlockSize` bytes. The cipher and the hash are
ideal. Every module has the context (`gcm`, `ccm`, `cmac`, `hashCtx`, `hmacCtx`), the
history of what the caller gave (`...Given`), what was returned for it (`...Out`)
and the tag of the last call (`...Tag`). A call that is refused changes nothing and
stutters, except `ippsAES_GCMStart`, which stops half way. `OneCall...` says what
output and tag must be as a function of everything given; each stream is shown to
implement it.

- `AESGCM`: `Feed` is the IV and the AAD (fill the partial block, whole blocks, the
  rest), `ProcessText` is the text in the same scheme with the kept key stream block,
  `HasRoom` the 2^36 - 32 limit. The direction may change between calls. The counter
  word wraps at `CounterMod`.
- `AESCCM`: the offset in the block comes from the processed length, which the AES-NI code
  does not advance over whole blocks; both builds are modelled. The nonce leaves some bytes
  for the counter and the message length, and `Nonces` says how many values those tell apart.
  The counter itself is `counterVal`, a word of `CounterWord` (2^32) values whatever the nonce
  leaves: the portable code counts within it, the AES-NI code counts on in 64 bits within a call
  and goes on from the word in the next (`BlockNumber`). `OneCallCCM` says what one call gives as
  long as `CounterSuffices`: the message has fewer than `CounterWord` blocks, or the nonce
  leaves no more values than that (11 bytes of nonce and more). Beyond, it leaves output and tag
  open (finding 10).
- `AESCMAC`: the last block is held back, full or not; the tag works on copies.
- `HashStream`: contexts in `Slots` that are started, updated, finished, tagged,
  squeezed, duplicated, packed and unpacked; `hashLen` are the lengths in the *static* method
  structures, which the caller of `ippsHashMethod_SHAKE128` changes for all contexts.
  `lenLo` and `lenHi` are the two words of the length; the low one wraps at `LenWord`.
- `HMACStream`: a hash context in the middle of the inner hash, and two padded keys. The key
  is hashed in the same context in any case.

### ML storage

`ippsMLKEM_*` and `ippsMLDSA_*` take and give back blocks of a working buffer of the size
`GetBufferSize` announced. A call is written as a *script* of what it does to the storage:
`take`, `give`, `giveall`, `try` (a step that may fail, whose status is tested), and
jumps for the rejection loop; `To` sends the errors inside to the end of a function and `Lost`
does the same where the code drops the status. TLC runs the script an entry at a time, so
every error path of every call is taken, with the real parameter sets and the
real sizes. `dirty` bounds the bytes written and not cleared, `skew` is the distance of the
caller's buffer to an aligned address, `foreign` tells whether the first byte of that
buffer was nonzero before the call. Turns of a loop that take and give the same bytes
appear once in a script. Where the code takes several blocks before it tests the pointers
(`Allocated`), later ones may still fit after one was refused. The arithmetic between the
entries is left out.

## 3. Runs

| run | instance | states | what it shows |
|---|---|---|---|
| `hashdrbg` | reseed interval 2, two blocks per seed, a 384-bit buffer, callback lengths 200 and 384, strengths 128 and 256, 2 draws, 3 outputs | 169 k | `NoRepeatedOutput`, `SeedlifeBounded`, `SeedSupportsStrength`, `StrengthBacked`, `PredictionResistance` under any caller |
| `hashdrbg_client` | the same with additional input, spontaneous hash failures and 3 draws | 318 k | `LiveIsSeeded`, `ConstantMatchesValue`, `NoRepeatedOutput`, and `HashDRBGClient` implements `SeededGenerator` |
| `signers` | LMS: 2 leaves, one generated and one imported key, 3 digests. XMSS: height 2, 2 keys, 2 messages, hash bytes 0, 16 and 255 | 680 k | `OneDigestPerIndex`, `StoreAhead`, `NeverRewound`, `LMSSigner` implements `OneTimeKeys`; `XMSSOneDigestPerIndex`, `XMSSVerifiesWhatWasSigned`, `XMSSRevealsNoOther` |
| `post_quantum` | LMS tree: height 5, every buffer size from 0 to 65 nodes, every leaf, hash failures. Storage: all six parameter sets, both builds, messages of 1 and 5000 bytes, contexts of 0 and 255, 2 sign turns | 258 k | `SignatureVerifies`, `AuxHoldsNodes`, `StackFits`; `StorageSuffices`, `StorageClean` |
| `streams` | blocks of 3 bytes, pieces of 0 to 6, counter words modulo 4, CCM nonces that leave 2 and 8 counter values, two messages per context, two contexts | 391 k | `GCMCountersAgree`, `KeystreamNeverRepeats`, `CCMPlaceAgrees`, `CCMKeystreamFresh`, and each of the five streams implements one call |
| `dispatcher` | 2 threads, the merged library, 4 CPUs, 3 selections | 480 k | `CodeRuns`, `SelectionInForce`, `MethodComplete`, `ContextConsistent`, `EveryCallReturns` |
| `hashdrbg_unseeded` | as `hashdrbg` | | refutes `OnlySeededOutput` |
| `hashdrbg_short` | a 192-bit buffer | | refutes `SeedSupportsStrength` |
| `lms_status` | the tree of `post_quantum`, no hash failures | | refutes `SignSucceeds` |
| `ccm_aesni` | the CCM of `streams`, AES-NI build, a message of 4 bytes | | refutes `LengthEnforced` |
| `dispatcher_1cpu` | 2 threads, a library built for one CPU | | refutes `ContextConsistent` |
| `dispatcher_completed` | 1 thread, a request with a missing bit | | refutes `CombinationCompleted` |

`hashdrbg`, `signers` (for LMS), `post_quantum` (for the tree) and `dispatcher` check one
`TypeOK` besides.

*Why the bounds are enough.* Interval 2 makes "at the end", "one before" and "one
after" different states, and three outputs go one past it. Two draws give a seed
and its replacement; the client's third makes a replacement after a failure.
384 bits suffice for 256 bits of strength and the half more that `Instantiate` asks for, and
200 bits for 128 but not for 256, so each comparison goes both ways. Two leaves
give a first, a last and an exhausted key; two keys give a generated one that
could be confused with an imported one; three digests let both indices be spent
and a third be tried. The XMSS tree of height 2 has a merge below, a merge above and
a double merge; two keys and two messages give every mixture of an old and a new
signature; the hash bytes give the smallest and the largest digit and a digit that differs in
one half-byte only. The height-5 tree is the smallest parameter set of the
standard, has 62 nodes below the root, and its full range of buffer sizes passes every boundary
of every level. Message lengths 1 and 5000 make either the message or the
fixed part the larger term of the sizes; skews 0 and 7 are the extremes; two sign turns
are a rejected one and a last one (the code allows 815, and the turns are alike).
A block of 3 bytes has a first, a middle and a last byte: a piece of 0 to 6 bytes
ends before, at and after the end of a block and can hold a whole block with
a rest on either side. Four counter values wrap, and leave room for two blocks of text
before the limit of `HasRoom`; a hash length word that wraps at 6 carries into
the second. A CCM message of 10 bytes has four blocks, as many as the counter has values, so the
counter comes back to 0; one nonce leaves fewer values than the word has, the other more. With two threads each global has a reader or a writer between any two
accesses of another; the four CPUs are one below the
library's minimum, one whose OS does not save the wide registers, one for the 256-bit code
and one for the 512-bit code with IFMA; the three selections are an empty one, one that takes a
feature away and one under NOCHECK.

Bounds of the exploration, without a counterpart in the code: `MaxDraws`, `MaxOutputs`;
`MaxKeys`, `MaxDigests`, `MaxXKeys`, `MaxXDigests`; `MaxIv`, `MaxAad`, `MaxMessages`; `MaxText`,
`MaxCCMMessages`; `MaxCMACText`, `MaxCMACMessages`; `MaxMsg`, `MaxDrawn`, `MaxEvents`;
`MaxHMACMsg`, `MaxHMACEvents`. `MaxSignTurns` is a number of the code made smaller, and
`BlockSize`, `CounterMod`, `CounterWord`, `CtrPos`, `LenBytes`, `LenWord`, `DigestLen`, `LongAd` and the headers
are sizes of the code scaled down. Nothing else is cut off.

*Deadlock* is checked except in `post_quantum` and `lms_status`, where a tree that has signed
once is done, and in `streams` and `ccm_aesni`, where the messages run out.

*Fairness.* Only `EveryCallReturns` needs some: weak fairness of each thread's
steps inside the library. A thread that is inside waits for nobody (there are no
locks), so it is enough that the operating system goes on scheduling it. No
call is ever forced to happen. The other specifications state safety only.

## 4. What is proved

Proofs are checked by tlapm with Z3, Zenon and LS4. They
hold for every value of the constants allowed by the named `ASSUME`s of the modules: any reseed
interval, number of blocks, buffer and callback lengths, arguments, any number of leaves, keys
and digests. The exploration bounds are constants too, so the theorems hold
however large they are.

`HashDRBG_proofs`, about `Spec` of `HashDRBG` (every caller, hash failures allowed):

- `TypeCorrect`: `[]TypeOK`.
- `OutputsNeverRepeat`: `[]NoRepeatedOutput`.
- `ConstantAlwaysMatches`: `[]ConstantMatchesValue`.
- `EntropySupportsStrength`: `LargeBuffers => []SeedSupportsStrength`, where
  `LargeBuffers` says that every entropy buffer has 256 bits or more. The run
  `hashdrbg_short` shows that the assumption is needed.

The inductive invariant is `IInv = Typed /\ Numbered /\ Growing /\ Distinct /\
Matched /\ Supported`. `NoRepeatedOutput` alone is not inductive: that the next V
differs from all earlier ones needs `Growing` (every output of the current seed
has a shorter path than V has now, so V has moved past it) and `Numbered` (no
seed number exceeds the number of draws, so a new seed is new). `Matched` is needed with
`Numbered` because a failed derivation leaves parts of another seeding behind.
`IInv` is stated over the context, the draws and the outputs as parameters, so that
the two halves of a generate call (the reseed inside and the generation after) are each a
lemma that takes `IInv` to `IInv`.

The second half of the module is about both specifications of the component:

- `SeedlifeAlwaysBounded`: `[]SeedlifeBounded`; `PredictionAlwaysResisted`:
  `PredictionResistance`; `StrengthAlwaysBacked`: `LargeBuffers => StrengthBacked`. These are
  about `Spec`, any caller.
- `LiveAlwaysSeeded`: `ClientSpec => []LiveIsSeeded`.
- `ClientImplementsSeededGenerator`: `ClientSpec => ImplementsSeededGenerator`, the refinement,
  whichever hash calls fail.

Every call is first shown to be one of five things to the seed: it keeps it, loses it, draws
a new one, serves from it, or renews it and serves (`Kept`, `Lost`, `Seeded`, `Served`, `Renewed`); the
properties and the refinement are then proved of those. `SeedlifeBounded` counts the
outputs of a seed. Its invariant `Lives` says that the current seed has served fewer requests than
its reseed counter and every drawn seed at most the interval, and cardinality lemmas carry
the two over a new output.

`Signers_proofs`, about `SignerSpec`:

- `SignerTypeCorrect`: `[]TypeOK`.
- `NoIndexReused`: `[]OneDigestPerIndex`.
- `PersistedAhead`: `[]StoreAhead`.
- `CounterNeverRewound`: `NeverRewound`, an action property.
- `SignerImplementsOneTimeKeys`: `SignerSpec => OneTime!Spec`, the refinement.

The inductive invariant adds to these: `Known` (key numbers were generated or
imported), `Ahead` (every index used with the key in memory is below its counter), `Stored` and
`Kept` (an index that was used is below the store once the application saved,
and the signature in hand carries the last one), `Made` (the content of the
signature state, if any, was computed for its key and index) and
`released \subseteq used`. `Ahead` is what makes the next index
fresh while the process lives, and `Stored` what makes it fresh after a crash and a re-import.

The same module about `XMSSSpec`, for every height, number of keys and messages:

- `XMSSIndexUsedOnce`: `[]XMSSOneDigestPerIndex`. The invariant adds the types and `XAhead`: an
  index that was used with the key in the state is below the state's index unless the key was
  initialised again, and no used key is newer than the last generated one.
- `XMSSNeverRevealsOther`: `[]XMSSRevealsNoOther`. If no digit of another hash is below the
  signed one's and no checksum digit either, the checksum is at least as large while the digits it
  subtracts are too, so all are equal and so are the hashes. A hash has two bytes here.

`ByteBlocks_proofs`: what the operators on pieces, blocks and the exclusive or of sequences
return; `Cutting`, the arithmetic of "fill the open block, whole blocks, the rest"; and, what all
refinements below rest on, that a message absorbed piece by piece leaves its whole blocks in the
chain and the rest in the buffer (`Holds`, `KeepInBuffer`, `ProcessBuffer`, `ProcessWhole`).

`AESGCM_proofs`, about `GCMSpec`, for every block size, counter width, piece lengths and bounds:

- `GCMCountersAlwaysAgree`: `[]GCMCountersAgree`. The invariant `GInv(c, g)` is over a context and
  a history, so that the three parts of `ippsAES_GCMStart` are lemmas that take `GInv` to
  `GInv`; `Phases` says what each phase fixes of the lengths and the counter.
- `GCMPiecesAreOneCall`: `GCMSpec => GCMImplementsOneCall`. The invariant `GCMHolds` adds the
  *content*: the hash and the buffer hold the IV, the associated data or the text given so far
  (`GContent`), the open block of key stream is that of the counter, and what was returned is
  what one call returns. `PartialTextHolds`, `NextBlockHolds`, `CloseFullBlockHolds` and
  `WholeTextHolds` are the parts of a text call; the order of encryption and hashing differs
  with the direction, and both lead to the same content.
- `GCMKeystreamNeverRepeats`: `[]KeystreamNeverRepeats`, from `GCMHolds`: equal counters are
  congruent block numbers, and up to the text limit those are fewer than the counter values.

`ChainedBlocks_proofs`, about the two AES modes that chain, for both builds:

- `CCMPlaceAlwaysAgrees`: `[]CCMPlaceAgrees`; `CCMPiecesAreOneCall`:
  `CCMSpec => CCMImplementsOneCall`; `CCMKeystreamAlwaysFresh`: `[]CCMKeystreamFresh`. `CCMHolds`
  is `CCMPlaceAgrees`, types and `CCMContent`: the MAC and the open block hold the header and the
  text given, and what was returned is what one call returns, both as long as `CounterSuffices`.
  The first theorem has the counter as the number of blocks modulo `CounterWord`, for every
  message length; the other two hold below the bound only, which their properties state.
  `SameNumber` is where the bound is used: until then the word, or its next numbers in 64 bits,
  names the same block as the number it stands for. `ProcessStays` is what a text call keeps
  beyond the bound too, so that the next message starts from a sound context.
  `CCMConstants` asks that the values a nonce leaves, where they are no more than `CounterWord`,
  divide it: both are powers of two.
- `CMACPiecesAreOneCall`: `CMACSpec => CMACImplementsOneCall`, with `CMACInv`: the context holds
  the message, with its last block kept in the buffer even when that is full.

The same module about hashing, for any number of contexts:

- `HashPiecesAreOneCall`: `HashSpec => HashImplementsOneCall`. `HashInv` says of each context that
  it holds its message, that the two length words are its length, and after the end that the
  state is the sponge at the place of the next byte.
- `HMACPiecesAreOneCall`: `HMACSpec => HMACImplementsOneCall`, with `HMACInv`: a context holds the
  inner message, the padded key before the text, and the two padded keys are those of its key.

Their assumptions `HashConstants` and `HMACConstants` ask that a piece, a block and a key are
shorter than a length word: lengths in the code are `int`, the words have 64 bits. The
length itself may pass the word; the carry is modelled.

`MerkleTrees_proofs` is about two trees. For `Spec` of `LMSTreeHash`, every height and every size
of the extra buffer:

- `TreeTypes`: `[]TypeOK`; `StackAlwaysFits`: `[]StackFits`; `AuxAlwaysHoldsNodes`:
  `[]AuxHoldsNodes`; `SignaturesAlwaysVerify`: `[]SignatureVerifies`.

The inductive invariant `LInv` reads the stack as a binary counter: after v leaves it has one
node for each bit of v, higher levels first. A signature may skip what the extra buffer holds, so
v is not the number of the leaf; the invariant also says from which level on the siblings on the
path come from the buffer, and tells apart the walk before, inside and after the one subtree below
that level, where the nodes have their true values. `StackFits` follows, as the heights on the
stack are below h and fall; `SignatureVerifies`, because every sibling on the path is then a true
node. Hash failures are allowed throughout.

For `XMSSSpec`, every height and number of keys:

- `XMSSVerifiesAsSigned`: `[]XMSSVerifiesWhatWasSigned`. The while loop and the climb of the
  verifier are functions of the level: `XMerged` says that the loop stops at the lowest level where
  the leaf number has no bit, `XRootNode` that the walk ends at the root, `XPathDone` that it
  fills the signer's path, and `RootFromLeaf` that a climb ends at a node made of the
  leaf's seed, whatever the path holds. `XInv` keeps the key whole, each computed signature
  recorded, and the signature just made whole (`XWhole`).

`MLStorage_proofs`, about `StorageSpec`, for every size of a hash state, every length of a message
or context, every number of sign turns, both builds and every failure inside:

- `StorageAlwaysClean`: `[]StorageClean`. That no script leads before its first entry and that
  what is given back has a size (`Sound`) is proved of the parts and of the ways scripts are put
  together, then of the script of each call. The invariant `StorageInv` says that a storage in use
  is within its capacity and nothing dirty lies beyond what is taken, so that one release of all
  clears it, from wherever the script ended.
- `StorageAlwaysSuffices`: `[]StorageSuffices`, that the announced size covers what the calls take.

The second rests on an *account* of each script: a function that gives, for every position, the
pairs (bytes taken, whether the status of an error was dropped before) with which a call may
come there. `Covers` says of one entry that it leads from every pair of its position to one that
its successors have, and that what it takes fits; `Way(s, a, b, x, r)` that a script has an
account from a to b that leaves through an error with one of x. `WayJoined` puts two
ways behind each other, `CoversMoved` moves an account; with them each function of the code has a
lemma of its own, and each call a last one (`KeyGenCounted`, `SignCounted`, ...) that compares the sum with
the formula of `memory_consumption.h`. Two forms of the code do not go from one position to the next:

- The rejection loop of `ippsMLDSA_Sign` runs any number of turns. `LoopCounted` shows that a turn
  gives back what it took, whether its candidate is accepted, rejected, or rejected after the
  hint took one more block, so that the account at its first entry is the same in every turn.
- ML-KEM drops the status of its samplers (`k_pke/k_pke_keygen.c:67`) and goes on, possibly with
  a block that stays taken. A position then has more pairs, with 1 as second component. After a
  drop a block may be refused, but only where the code answers by releasing everything and
  returning. ML-DSA drops the status of `cp_ml_expandA` in verification; `StorageSuffices`
  excepts what follows, and the account ends there.

The inductive invariant `SufficesInv` adds to `StorageInv`: the capacities of the context are those of
its parameters (`ContextHeld`), and a call under way has an account of its script that
holds the bytes now taken at the position where it is (`CallCounted`); the skew of an
unaligned buffer is part of the account. A message longer than `ippsMLDSA_Init` was told of
is outside of it (`Trusted`): there the proof is only that nothing is used beyond the capacity.

`Dispatcher_proofs`, about `Spec` of `Dispatcher`, any number of threads:

- `DispatcherTypeCorrect`: `[]TypeOK`.
- `MethodAlwaysComplete`: `[]MethodComplete`.
- `CodeAlwaysRuns`: `Merged /\ Layered => []CodeRuns`, where `Layered` says that every CPU has MMX
  and builds AVX-512 on AVX2 and AVX2 on SSE4.2.
- `SelectionStaysInForce`: `[]SelectionInForce`, if no selection is `{"NOCHECK"}`, the one that
  leaves zero features (which the code takes for "not detected").
- `ContextAlwaysConsistent`: `[]ContextConsistent` under all three hypotheses.

`Merged` is needed: the run `dispatcher_1cpu` refutes `ContextConsistent` without it. The base of
the invariants is `Located`: where a thread is tells what it keeps on its stack (`Placed`),
and a selection has the library to itself (`Exclusive`). `Filled` adds to it what a
thread may rely on in the static method while others write it; `Available` that
nothing stored anywhere needs a feature the CPU lacks; `Underway` and `Decided` how far a selection
is and that afterwards no call changes the globals; `Untouched`, that before any
selection each global is zero or what the CPU has; `Contexts`, the functions a context has as
far as its thread has come.

## 5. What is only model-checked

Liveness (`EveryCallReturns`) and anything that needs `ENABLED` are outside this prover. Every
invariant and every refinement of a passing run has a theorem.

Induction is used in one form: a set of natural numbers that has 0 and the successor of each of its
members has all of them (`AllNumbers`, from the well-foundedness of `<`; `LeastNumber`). With it
the existence of each recursive function is proved first (the lemmas `...Listed`, `PowersExist`),
then what it computes. Structural induction over other data is not available, as
the library's theorems with an operator parameter cannot be instantiated by these provers.

No module uses a `RECURSIVE` operator.

## 6. Findings

1. `hashdrbg_unseeded`: `ippsHashDRBG_Gen` (`drbg/pcphashdrbg_gen.c:76`) does not
   ask whether the generator was instantiated and works from V = C = 0 after
   `Init` alone, or after an error cleared them; `doc/source/drbg/hash-drbg-index.rst:11`
   says a generator may produce output once it is instantiated.
   `HashDRBGClient` shows that a caller that re-instantiates after errors never meets this.
2. `hashdrbg_short`: with the hardware source the length of the entropy is not
   compared with the strength (`drbg/internal/pcphashdrbg_getentropy.c:75`), though
   `doc/source/drbg/hash-drbg-inst.rst:67` says it is.
3. `lms_status`: with an extra buffer of 49 nodes or more at height 5 and some leaves,
   `cp_lms_tree_hash` returns its initial `ippStsErr` although the path is complete
   (`stateful_sig/lms/lms_internal.c:113`); the signature is discarded and the index spent.
4. `dispatcher_1cpu`: in a library built for one CPU, two racing first calls can
   leave an AES-GCM context whose functions read another table than was
   computed (`cpinit.c:292`).
5. `dispatcher_completed`: the bits `owncpFeaturesToIdx` adds to an incomplete combination
   are overwritten (`cpinit.c:402`), though `setcpufeatures.rst:144` says they are set.

6. `ccm_aesni`: the AES-NI path of `ippsAES_CCMEncrypt` does not add whole blocks to the
   processed length (`pcpaes_ccmencrypt.c:156`), so more text is accepted than
   `ippsAES_CCMMessageLen` announced, which `doc/source/aes/aes_ccmencrypt.rst:67` excludes.
   `CCMPlaceAgrees` shows that the offsets are right all the same, and the counter is the number
   of blocks as far as its 32 bits hold it (finding 10).
7. `streams`: `ippsAES_GCMGetTag` after an IV but before the first AAD call returns an all-zero tag
   (`pcpaes_gcmgettag.c:73`). `OneCallGCM!Tag` states that outcome (`begun`), so the
   refinement `GCMImplementsOneCall` shows it is what the code gives.
8. `streams`: the length of a SHAKE digest is kept in a static method that all callers share
   (`hash/sha3/shake128/pcphashmethod_shake128.c:55`): a context finalises with the length asked for
   last. `OneCallHash` has these lengths as a variable that may change at any step.
9. `post_quantum`: when the caller's random function fails, `ippsMLKEM_KeyGen` may return
   `ippStsMemAllocErr` instead of its error (`ml_kem/ml_kem_keygen.c:106`); the last conjunct of
   `StorageClean` says exactly when.
10. `streams`: the AES-CCM counter is an `Ipp32u` (`pcpaesauthccm.h:38`,
   `pcpaes_ccmencrypt.c:84,156,177,207`) and wraps after 2^32 blocks, although nonces of 7 to 10
   bytes leave 8 to 5 bytes for it, `ippsAES_CCMMessageLen` takes 64 bits, and nothing compares the
   two. From there on the portable code uses the block that masks the tag and then the key stream
   from its start again; the AES-NI code counts in 64 bits within a call, so its output
   depends on the cutting. `doc/source/aes/aes_ccmencrypt.rst:49` promises CCM as in NIST SP
   800-38C for data "of a variable length". `CounterSuffices` is the bound up to which the code
   keeps that promise; with `CounterSuffices(g) == TRUE` TLC refutes `CCMImplementsOneCall` in both
   builds, with a message of as many blocks as the counter has values.

## 7. What is not modelled, and why

`PROJECT.json` gives a reason per component. In short: arithmetic (RSA, curves, block
ciphers, lattice kernels, primes) is data without control and is what test vectors are
good at; assembly holds no state between calls, and of the multi-buffer library only
the SM4-GCM and SM4-CCM contexts do, in the shape of the AES ones;
self-tests compare constants; size functions are layout. By lines this is most of the
repository: precomputed curve tables and unrolled wide-register arithmetic alone are
larger than everything that keeps state, so the mapped share of all lines stays small
although the stateful components above are covered.

Within the modelled components: the one-time signature chains (ideal), the AVX-512 GCM code, noise
injection and key schedules, the one-message hash functions and the older hash
API without methods, the 32-bit and Windows entry points.

Five hazards are listed without a property, with the reason: a big number the DRBG leaves
unnormalised (`drbg/pcphashdrbg_gen_bn.c:116`), the file-scope variables of its self-tests,
zero features that mean "not detected", features requested without NOCHECK that are not
intersected with what the CPU has, and the digest length in the shared SHAKE method, which
`OneCallHash` follows (finding 8). `XMSSOneDigestPerIndex` covers the rewound index of
`ippsXMSSInitKeyPair` only as far as a failed `ippsXMSSKeyGen` goes: a key initialised again is
excepted.

Noticed while modelling, and the subject of no property:

- `ippsAES_CCMMessageLen` accepts 0, which its page calls an error
  (`doc/source/aes/aes_ccmmessagelen.rst:63`), and neither it nor `ippsAES_CCMStart` compares
  the message length with the bytes the nonce leaves for it or with the counter;
  `CCMKeystreamFresh` has both as hypotheses.
- `ippsXMSSKeyGen` checks the OID of the private key and takes the parameters from the
  public one (`stateful_sig/xmss/xmss_keygen.c:63`); the model has one parameter set.
- `ippsMLDSA_Init` stores the identifier and the parameters before it refuses a length, so a refused
  call leaves new parameters with old capacities (`ippsMLDSA_InitRefused`).
- ML-KEM drops the status of its samplers (`Lost` in `MLStorage`).
- A signature accepted on the last turn of the ML-DSA loop is discarded too (`CheckTurns`), so 815
  turns are 814.
- The portable `ippsMLDSA_KeyGen` uses the working buffer of the smallest parameter set to
  the last byte.

## 8. Plan

Done: Hash_DRBG, the LMS key and tree, the dispatcher, XMSS, the AES, hash and HMAC
streams and the storage of ML-KEM and ML-DSA, each with its run, and proofs of every invariant
and every refinement the runs check. What is left, in this order:

1. The element pools of the field layer: balance of takes and releases over the error
   returns of the curve functions, and the SM2 encryption stream, a client of `HashStream`.
2. Sign and size normalisation of big numbers against integers on two small chunks, with the
   result of `ippsHashDRBG_GenBN`.
3. The ephemeral keys of DLP and curve signatures: used once, cleared on every path.
4. The older hash API and the one-message functions, as clients of `HashStream`.
5. The AVX-512 GCM code, as a second implementation of `OneCallGCM`.
