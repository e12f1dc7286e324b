-------------------------------- MODULE XMSS --------------------------------
(* An XMSS key pair in memory (stateful_sig/xmss): the private key state    *)
(* with its index, the public key and the signature state, the calls that   *)
(* change them, the hash tree and the digits a WOTS+ signature reveals.     *)
(*                                                                          *)
(* Seeds are the number of the key generation that drew them.  A hash is    *)
(* ideal: a node is what it was computed from when inputs and address are   *)
(* the right ones, BadNode otherwise.  The L-tree is part of a leaf's hash. *)
EXTENDS TreeIndex, Sequences, SequencesExt

CONSTANTS
    XHeight,        \* h: 10, 16 or 20 in the code
    MaxXKeys,       \* bound: key pairs generated
    MaxXDigests,    \* bound: messages whose signature is computed
    HashedBytes     \* the bytes message hashes are made of

ASSUME XMSSConstants ==
    /\ XHeight \in Nat \ {0}
    /\ MaxXKeys \in Nat /\ MaxXDigests \in Nat
    /\ HashedBytes \subseteq 0..255

VARIABLES
    xprv,       \* the IppsXMSSPrivateKeyState
    xpub,       \* the IppsXMSSPublicKeyState
    xsig,       \* the IppsXMSSSignatureState
    xkeys,      \* history: key pairs generated, numbered from 1
    xdigests,   \* history: messages signed, numbered from 1
    xused,      \* history: the one-time signatures computed, even in part
    xmade,      \* history: the digest and key of the signature just made, and
                \* the message hash its digits reveal
    xreset      \* history: keys whose state was initialised again

xmssVars == <<xprv, xpub, xsig, xkeys, xdigests, xused, xmade, xreset>>

Unfilled == -1     \* a seed no call has drawn
Purged   == 0      \* a seed after PurgeBlock
BadNode  == [height |-> -1]
NoNode   == [height |-> -2]

XLeaves == Pow2[XHeight]

-----------------------------------------------------------------------------
(* cp_xmss_tree_hash, for the tree of a secret and a public seed. *)

XLeaf(seed, pseed, i) == [height |-> 0, seed |-> seed, pseed |-> pseed, j |-> i]

\* cp_xmss_rand_hash under the address (height, idx).
RandHash(left, right, pseed, height, idx) ==
    IF /\ left # BadNode /\ left # NoNode
       /\ left.pseed = pseed /\ left.height = height /\ left.j = 2 * idx
       /\ right = [left EXCEPT !.j = 2 * idx + 1]
    THEN [left EXCEPT !.height = height + 1, !.j = idx] ELSE BadNode

\* The authentication path of leaf idxLeaf takes the node at (height, idx).
OnPath(path, idxLeaf, height, idx, node) ==
    IF Sibling(Ancestor(idxLeaf, height)) = idx /\ height \in DOMAIN path
    THEN [path EXCEPT ![height] = node] ELSE path

\* Mutant: the height is advanced after the path is filled.
MutantXMerge(t, pseed, idxLeaf) ==
    LET idx  == (t.idx - 1) \div 2
        node == RandHash(Last(t.stack).node, t.node, pseed, t.height, idx)
    IN [t EXCEPT !.stack = Front(@), !.idx = idx, !.node = node, !.height = @ + 1,
                 !.path = OnPath(@, idxLeaf, t.height, idx, node)]

\* A turn of the while loop: the node on top of the stack is its left sibling.
XMerge(t, pseed, idxLeaf) ==
    LET idx  == (t.idx - 1) \div 2
        node == RandHash(Last(t.stack).node, t.node, pseed, t.height, idx)
    IN [t EXCEPT !.stack = Front(@), !.idx = idx, !.node = node, !.height = @ + 1,
                 !.path = OnPath(@, idxLeaf, t.height + 1, idx, node)]

\* The loop goes on while the top of the stack has the node's height.
MergedOnce(t, pseed, idxLeaf) ==
    IF t.stack # <<>> /\ Last(t.stack).height = t.height
    THEN XMerge(t, pseed, idxLeaf) ELSE t

\* A turn of the for loop: leaf i, all merges it completes, the push.
XLeafStep(t, i, seed, pseed, idxLeaf) ==
    LET leaf == XLeaf(seed, pseed, i)
        merging[k \in 0..XHeight] ==
            IF k = 0
            THEN [t EXCEPT !.node = leaf, !.height = 0, !.idx = i,
                           !.path = OnPath(@, idxLeaf, 0, i, leaf)]
            ELSE MergedOnce(merging[k - 1], pseed, idxLeaf)
        merged == merging[XHeight]
    IN [merged EXCEPT !.stack = Append(@, [height |-> merged.height, node |-> merged.node])]

\* The first n turns, on a path that holds something already.
TreeHashed(n, seed, pseed, idxLeaf, path) ==
    LET turns[k \in 0..n] ==
            IF k = 0
            THEN [stack |-> <<>>, node |-> NoNode, height |-> 0, idx |-> 0, path |-> path]
            ELSE XLeafStep(turns[k - 1], k - 1, seed, pseed, idxLeaf)
    IN turns[n]

TreeRoot(seed, pseed) == TreeHashed(XLeaves, seed, pseed, 0, <<>>).stack[1].node

-----------------------------------------------------------------------------
(* The digits of a message hash and of its checksum (cp_xmss_base_w with    *)
(* w = 16): each tells how far a chain of the signature is walked.  Here a  *)
(* hash has two bytes; the checksum has three digits as in the code.        *)

BaseW(bytes, outLen) ==
    [k \in 1..outLen |->
        (bytes[((k - 1) \div 2) + 1] \div (IF k % 2 = 1 THEN 16 ELSE 1)) % 16]

\* Mutant: the checksum is not moved to the upper end of its two bytes.
MutantCsumBytes(csum) == <<csum \div 256, csum % 256>>

\* csum << (8 - (len_2 * log2_w & 7)), in len_2_bytes bytes.
CsumBytes(csum) == <<((csum * 16) \div 256) % 256, (csum * 16) % 256>>

ChainLengths(hash) ==
    LET msg  == BaseW(hash, 4)
        csum == (15 - msg[1]) + (15 - msg[2]) + (15 - msg[3]) + (15 - msg[4])
    IN msg \o BaseW(CsumBytes(csum), 3)

MessageHashes == HashedBytes \X HashedBytes

-----------------------------------------------------------------------------
(* The calls. *)

EmptyPath == [k \in 0..XHeight - 1 |-> NoNode]
NoOts == [seed |-> Unfilled]
BadR == [prf |-> -2, idx |-> 0]     \* no or part of a randomizer
NothingMade == [key |-> Purged, digest |-> 0, hash |-> <<>>]

\* After ippsXMSSInitKeyPair and ippsXMSSInitSignature on fresh memory.
XMSSInit ==
    /\ xprv = [idx |-> 0, seed |-> Unfilled, prf |-> Unfilled, pseed |-> Unfilled,
               root |-> NoNode]
    /\ xpub = [root |-> NoNode, pseed |-> Unfilled]
    /\ xsig = [idx |-> 0, r |-> BadR, ots |-> NoOts, path |-> EmptyPath]
    /\ xkeys = 0 /\ xdigests = 0 /\ xused = {} /\ xmade = NothingMade /\ xreset = {}

\* The key in the state, if one was drawn and not purged.
Drawn == {xprv.seed} \cap 1..MaxXKeys

\* ippsXMSSInitKeyPair once more: the index is reset, the seeds stay.
XInitKeyPair ==
    /\ xprv' = [xprv EXCEPT !.idx = 0]
    /\ xreset' = xreset \cup Drawn
    /\ UNCHANGED <<xpub, xsig, xkeys, xdigests, xused, xmade>>

XInitSignature ==
    /\ xsig' = [xsig EXCEPT !.idx = 0]
    /\ xmade' = NothingMade
    /\ UNCHANGED <<xprv, xpub, xkeys, xdigests, xused, xreset>>

\* ippsXMSSSetPublicKeyState, with the public key of a key that has signed.
XSetPublicKeyState ==
    /\ \E u \in xused : xpub' = [root |-> TreeRoot(u.key, u.key), pseed |-> u.key]
    /\ UNCHANGED <<xprv, xsig, xkeys, xdigests, xused, xmade, xreset>>

\* ippsXMSSSetSignatureState, with the signature just made under an index of
\* the caller's, which no call compares with the height.
XSetSignatureState ==
    /\ xmade # NothingMade
    /\ \E idx \in 0..XLeaves : idx # xsig.idx /\ xsig' = [xsig EXCEPT !.idx = idx]
    /\ xmade' = NothingMade
    /\ UNCHANGED <<xprv, xpub, xkeys, xdigests, xused, xreset>>

\* Mutant: the purge of the seed is forgotten.
MutantPurgedSeeds == {[xprv EXCEPT !.idx = 0]}

\* A draw that fails purges the seeds drawn so far; an error after the third
\* purges all three.  The root is as before.
PurgedSeeds ==
    LET first  == [xprv EXCEPT !.idx = 0, !.seed = Purged]
        second == [first EXCEPT !.prf = Purged]
    IN {first, second, [second EXCEPT !.pseed = Purged]}

XKeyGen ==
    /\ xkeys < MaxXKeys
    /\ xkeys' = xkeys + 1
    /\ \/ LET root == TreeRoot(xkeys', xkeys')
          IN /\ xprv' = [idx |-> 0, seed |-> xkeys', prf |-> xkeys', pseed |-> xkeys',
                         root |-> root]
             /\ xpub' = [root |-> root, pseed |-> xkeys']
       \/ xprv' \in PurgedSeeds /\ UNCHANGED xpub
    /\ UNCHANGED <<xsig, xdigests, xused, xmade, xreset>>

\* What is signed: r, the root, the index and the message.
HMsg(r, root, idx, digest) == <<r, root, idx, digest>>

Randomizer == [prf |-> xprv.prf, idx |-> xprv.idx]

Ots(r, digest) ==
    [seed |-> xprv.seed, pseed |-> xprv.pseed, idx |-> xprv.idx,
     msg |-> HMsg(r, xprv.root, xprv.idx, digest)]

OneTimeUse(digest) ==
    {[key |-> k, idx |-> xprv.idx, digest |-> digest] : k \in Drawn}

PathDone(n) == TreeHashed(n, xprv.seed, xprv.pseed, xprv.idx, xsig.path).path

\* An exhausted key is refused and nothing changes.  Otherwise the index is
\* taken first; no error gives it back.
IndexTaken ==
    /\ xprv.idx < XLeaves
    /\ xprv' = [xprv EXCEPT !.idx = @ + 1]
    /\ UNCHANGED <<xpub, xkeys, xreset>>

\* A hash call fails while r, the message hash or the path is computed: the
\* signature state is left half new and half old.
XSignFailsEarly ==
    /\ IndexTaken
    /\ \/ xsig' = [xsig EXCEPT !.idx = xprv.idx, !.r = BadR]
       \/ \E n \in 0..XLeaves - 1 :
            xsig' = [xsig EXCEPT !.idx = xprv.idx, !.r = Randomizer, !.path = PathDone(n)]
    /\ xmade' = NothingMade
    /\ UNCHANGED <<xdigests, xused>>

\* The one-time signature is computed; a hash call may fail half way.
XSignCompletes ==
    /\ IndexTaken
    /\ xdigests < MaxXDigests /\ xdigests' = xdigests + 1
    /\ xused' = xused \cup OneTimeUse(xdigests')
    /\ LET signed == [idx |-> xprv.idx, r |-> Randomizer, ots |-> Ots(Randomizer, xdigests'),
                      path |-> PathDone(XLeaves)]
       IN \/ /\ xsig' = signed
             /\ \E m \in MessageHashes :
                  xmade' = [key |-> xprv.seed, digest |-> xdigests', hash |-> m]
          \/ xsig' = [signed EXCEPT !.ots = NoOts] /\ xmade' = NothingMade

XMSSNext ==
    \/ XInitKeyPair \/ XInitSignature \/ XSetPublicKeyState \/ XSetSignatureState
    \/ XKeyGen \/ XSignFailsEarly \/ XSignCompletes

XMSSSpec == XMSSInit /\ [][XMSSNext]_xmssVars

-----------------------------------------------------------------------------
(* ippsXMSSVerify. *)

\* The leaf that cp_xmss_WOTS_pkFromSig and the L-tree give, then the root
\* the path leads to: left or right by idx, the address from idx halved.
LeafOf(s, digest, key) ==
    IF /\ s.ots # NoOts /\ s.ots.pseed = key.pseed /\ s.ots.idx = s.idx
       /\ s.ots.msg = HMsg(s.r, key.root, s.idx, digest)
    THEN XLeaf(s.ots.seed, key.pseed, s.idx) ELSE BadNode

Climbed(s, key, node, k) ==
    IF Ancestor(s.idx, k) % 2 = 0
    THEN RandHash(node, s.path[k], key.pseed, k, Ancestor(s.idx, k + 1))
    ELSE RandHash(s.path[k], node, key.pseed, k, Ancestor(s.idx, k + 1))

RootOf(s, leaf, key) ==
    LET node[k \in 0..XHeight] ==
            IF k = 0 THEN leaf ELSE Climbed(s, key, node[k - 1], k - 1)
    IN node[XHeight]

XVerify(s, digest, key) == RootOf(s, LeafOf(s, digest, key), key) = key.root

-----------------------------------------------------------------------------
(* Properties. *)

\* No index of a key signs two messages, over failed calls, exhaustion and new
\* keys, counting work that failed half way, unless ippsXMSSInitKeyPair was
\* called on the key's state (which rewinds the index and keeps the seeds).
XMSSOneDigestPerIndex ==
    \A a, b \in xused :
        a.key \notin xreset /\ a.key = b.key /\ a.idx = b.idx => a = b

\* The signature state verifies for what was just signed, under the public key
\* of the signing key; and whatever a failed call, a new key, another public
\* key or another index has left in it verifies for nothing else.
XMSSVerifiesWhatWasSigned ==
    \A d \in 1..xdigests :
        /\ d = xmade.digest /\ xmade.key > 0 /\ xmade.key = xpub.pseed => XVerify(xsig, d, xpub)
        /\ XVerify(xsig, d, xpub) =>
              \E u \in xused : u.key = xpub.pseed /\ u.idx = xsig.idx /\ u.digest = d

\* No other message hash can be signed with what a signature reveals: some
\* chain would have to be walked backwards (the checksum's three digits).
XMSSRevealsNoOther ==
    xmade.hash # <<>> =>
        \A m \in MessageHashes \ {xmade.hash} :
            \E k \in 1..7 : ChainLengths(m)[k] < ChainLengths(xmade.hash)[k]
=============================================================================
