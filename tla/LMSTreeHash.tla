---------------------------- MODULE LMSTreeHash ----------------------------
(***************************************************************************)
(* The Merkle tree of an LMS key pair (stateful_sig/lms): cp_lms_tree_hash *)
(* run by ippsLMSKeyGen, which fills the extra buffer with nodes, then by  *)
(* ippsLMSSign for some leaf, which takes from it what it can, and the     *)
(* root ippsLMSVerify computes from the authentication path.               *)
(*                                                                         *)
(* Sizes are counted in nodes of m bytes.  A hash is ideal: a node's value *)
(* is <<height, index>> when its inputs and its address are the right      *)
(* ones, Garbage otherwise.                                                *)
(***************************************************************************)
EXTENDS TreeIndex, Sequences, SequencesExt

CONSTANTS
    Heights,      \* tree heights; the code has 5, 10, 15, 20 and 25
    AuxSizes,     \* sizes of the extra buffer
    HashFaults    \* TRUE if a hash call may fail

ASSUME ConstantsAssumption ==
    /\ Heights \subseteq Nat \ {0}
    /\ AuxSizes \subseteq Nat
    /\ HashFaults \in BOOLEAN

VARIABLES
    h,          \* the height of this key's tree
    auxSize,    \* extraBufSize
    call,       \* the call in progress, or how the last one left the key
    idxLeaf,    \* the leaf being signed with
    i,          \* the leaf the loop is at
    cur,        \* the node being merged, or NoCur
    stack,      \* the roots of the subtrees still waiting for their sibling
    aux,        \* pExtraBuf
    out,        \* the authentication path
    T1,         \* the root in the public key
    retCode     \* the status the running call would return

vars == <<h, auxSize, call, idxLeaf, i, cur, stack, aux, out, T1, retCode>>

Garbage == <<-1, -1>>
NoCur == [height |-> -1, j |-> 0, r |-> 0, val |-> Garbage]

Running == {"keygen", "sign"}

Init ==
    /\ h \in Heights
    /\ auxSize \in AuxSizes
    /\ call = "keygen" /\ idxLeaf = 0 /\ i = 0
    /\ cur = NoCur /\ stack = <<>>
    /\ aux = [k \in 0..auxSize - 1 |-> Garbage]
    /\ out = [k \in 0..h - 1 |-> Garbage]
    /\ T1 = Garbage
    /\ retCode = "Err"

-----------------------------------------------------------------------------

\* Mutant: the height of a merged node is the one before it is incremented.
MutantAuxIdx(height, j) ==
    Pow2[h - (IF height = 0 THEN 0 ELSE height - 1)] - 2 + j

\* The place of a node in the extra buffer: level by level from below the root.
AuxIdx(height, j) == Pow2[h - height] - 2 + j

\* The two bounds the code uses.  The root has index -1 and no place.
Below(k) == k < auxSize - 1
UpTo(k) == k >= 0 /\ k <= auxSize - 1

HashLeaf(r, leaf) == IF r = Pow2[h] + leaf THEN <<0, leaf>> ELSE Garbage

HashInner(r, left, right) ==
    IF /\ left # Garbage /\ left[1] = right[1]
       /\ left[2] % 2 = 0 /\ right[2] = left[2] + 1
       /\ r = Pow2[h - left[1] - 1] + left[2] \div 2
    THEN <<left[1] + 1, left[2] \div 2>> ELSE Garbage

\* Mutant: the skip uses the other bound.
MutantSkipped(leaf) ==
    /\ call = "sign" /\ auxSize > 0 /\ leaf # idxLeaf
    /\ \E k \in 0..h - 2 :
          /\ Ancestor(leaf, k) = Sibling(Ancestor(idxLeaf, k))
          /\ UpTo(AuxIdx(k, Ancestor(leaf, k)))

\* A leaf below a sibling on the path which is in the extra buffer.
Skipped(leaf) ==
    /\ call = "sign" /\ auxSize > 0 /\ leaf # idxLeaf
    /\ \E k \in 0..h - 2 :
          /\ Ancestor(leaf, k) = Sibling(Ancestor(idxLeaf, k))
          /\ Below(AuxIdx(k, Ancestor(leaf, k)))

-----------------------------------------------------------------------------
(* The steps of cp_lms_tree_hash. *)

\* The node becomes the current one: computed or taken from the extra buffer,
\* put on the authentication path and, by KeyGen, into the extra buffer.
Obtain(node, cached, stored) ==
    LET k   == AuxIdx(node.height, node.j)
        val == IF cached THEN aux[k] ELSE node.val
    IN  /\ cur' = [node EXCEPT !.val = val]
        /\ retCode' = IF cached THEN retCode ELSE "NoErr"
        /\ aux' = IF stored THEN [aux EXCEPT ![k] = val] ELSE aux
        /\ out' = IF call = "sign" /\ node.j = Sibling(Ancestor(idxLeaf, node.height))
                  THEN [out EXCEPT ![node.height] = val] ELSE out

Skip ==
    /\ call \in Running /\ cur = NoCur /\ i < Pow2[h]
    /\ Skipped(i)
    /\ i' = i + 1
    /\ UNCHANGED <<h, auxSize, call, idxLeaf, cur, stack, aux, out, T1, retCode>>

Leaf ==
    /\ call \in Running /\ cur = NoCur /\ i < Pow2[h]
    /\ ~Skipped(i)
    /\ LET room == Below(AuxIdx(0, i)) IN
       Obtain([height |-> 0, j |-> i, r |-> Pow2[h] + i, val |-> HashLeaf(Pow2[h] + i, i)],
              call = "sign" /\ room, call = "keygen" /\ room)
    /\ UNCHANGED <<h, auxSize, call, idxLeaf, i, stack, T1>>

Mergeable == cur # NoCur /\ stack # <<>> /\ Last(stack).height = cur.height

Parent ==
    [height |-> cur.height + 1, j |-> cur.j \div 2, r |-> cur.r \div 2,
     val |-> HashInner(cur.r \div 2, Last(stack).val, cur.val)]

Merge ==
    /\ call \in Running /\ Mergeable
    /\ LET room == UpTo(AuxIdx(Parent.height, Parent.j)) IN
       Obtain(Parent, call = "sign" /\ room, call = "keygen" /\ room)
    /\ stack' = Front(stack)
    /\ UNCHANGED <<h, auxSize, call, idxLeaf, i, T1>>

\* Mutant: the node is pushed beside its sibling of the same height.
MutantPush ==
    /\ call \in Running /\ cur # NoCur
    /\ stack' = Append(stack, [height |-> cur.height, val |-> cur.val])
    /\ cur' = NoCur
    /\ i' = i + 1
    /\ UNCHANGED <<h, auxSize, call, idxLeaf, aux, out, T1, retCode>>

Push ==
    /\ call \in Running /\ cur # NoCur /\ ~Mergeable
    /\ stack' = Append(stack, [height |-> cur.height, val |-> cur.val])
    /\ cur' = NoCur
    /\ i' = i + 1
    /\ UNCHANGED <<h, auxSize, call, idxLeaf, aux, out, T1, retCode>>

FinishKeyGen ==
    /\ call = "keygen" /\ cur = NoCur /\ i = Pow2[h]
    /\ T1' = stack[1].val
    /\ call' = "keyed"
    /\ UNCHANGED <<h, auxSize, idxLeaf, i, cur, stack, aux, out, retCode>>

\* The siblings the extra buffer holds are copied to the path at the end.
FinishSign ==
    /\ call = "sign" /\ cur = NoCur /\ i = Pow2[h]
    /\ out' = [k \in 0..h - 1 |->
                  LET a == AuxIdx(k, Sibling(Ancestor(idxLeaf, k))) IN
                  IF auxSize > 0 /\ Below(a) THEN aux[a] ELSE out[k]]
    /\ call' = "signed"
    /\ UNCHANGED <<h, auxSize, idxLeaf, i, cur, stack, aux, T1, retCode>>

\* A hash call of the step about to be made fails.
HashFails ==
    /\ HashFaults /\ call \in Running
    /\ \/ cur = NoCur /\ i < Pow2[h] /\ ~Skipped(i)
          /\ ~(call = "sign" /\ Below(AuxIdx(0, i)))
       \/ Mergeable /\ ~(call = "sign" /\ UpTo(AuxIdx(Parent.height, Parent.j)))
    /\ retCode' = "HashErr"
    /\ call' = "failed"
    /\ UNCHANGED <<h, auxSize, idxLeaf, i, cur, stack, aux, out, T1>>

\* Mutant: the exhausted key is not refused.
MutantBeginSign ==
    /\ call = "keyed"
    /\ \E q \in 0..Pow2[h] : idxLeaf' = q
    /\ call' = "sign" /\ i' = 0 /\ stack' = <<>> /\ retCode' = "Err"
    /\ UNCHANGED <<h, auxSize, cur, aux, out, T1>>

\* ippsLMSSign enters the function with a signature no call has filled yet.
BeginSign ==
    /\ call = "keyed"
    /\ \E q \in 0..Pow2[h] - 1 : idxLeaf' = q
    /\ call' = "sign" /\ i' = 0 /\ stack' = <<>> /\ retCode' = "Err"
    /\ UNCHANGED <<h, auxSize, cur, aux, out, T1>>

Next == Skip \/ Leaf \/ Merge \/ Push \/ FinishKeyGen \/ FinishSign \/ HashFails
        \/ BeginSign

Spec == Init /\ [][Next]_vars

-----------------------------------------------------------------------------

\* ippsLMSVerify: the root computed from leaf q and the path, bottom up.
RootFrom(q, path) ==
    LET tmp[k \in 0..h] ==
            IF k = 0 THEN HashLeaf(Pow2[h] + q, q)
            ELSE LET node_num == (Pow2[h] + q) \div Pow2[k - 1] IN
                 IF node_num % 2 = 1
                 THEN HashInner(node_num \div 2, path[k - 1], tmp[k - 1])
                 ELSE HashInner(node_num \div 2, tmp[k - 1], path[k - 1])
    IN  tmp[h]

-----------------------------------------------------------------------------
(* Properties. *)

Value == {Garbage} \cup {<<k, j>> : k \in 0..h, j \in 0..Pow2[h] - 1}

\* The types of the variables.
TypeOK ==
    /\ h \in Heights /\ auxSize \in AuxSizes
    /\ call \in Running \cup {"keyed", "signed", "failed"}
    /\ idxLeaf \in 0..Pow2[h] - 1 /\ i \in 0..Pow2[h]
    /\ cur = NoCur \/ cur \in [height : 0..h, j : 0..Pow2[h] - 1, r : 1..Pow2[h + 1],
                               val : Value]
    /\ stack \in Seq([height : 0..h, val : Value])
    /\ aux \in [0..auxSize - 1 -> Value]
    /\ out \in [0..h - 1 -> Value]
    /\ T1 \in Value
    /\ retCode \in {"Err", "NoErr", "HashErr"}

\* Whatever the size of the extra buffer, the path of every leaf leads to the
\* root in the public key, though most leaves are neither computed nor read.
SignatureVerifies == call = "signed" => T1 # Garbage /\ RootFrom(idxLeaf, out) = T1

\* After KeyGen every place of the extra buffer that a sign may read, under
\* either of the two bounds, holds the node it is read for.
AuxHoldsNodes ==
    call \notin {"keygen", "failed"} =>
        \A k \in 0..h - 1 : \A j \in 0..Pow2[h - k] - 1 :
            LET a == AuxIdx(k, j) IN
            (IF k = 0 THEN Below(a) ELSE UpTo(a)) => aux[a] = <<k, j>>

\* The nodes waiting on the stack fit the h * m bytes the buffer-size function
\* reserves for them: the current node lives right behind.
StackFits == Len(stack) <= h

\* "The larger this value, the less execution time for signature generation"
\* (doc/source/lms/init-key-state.rst): the buffer has no other effect, so a
\* path computed without a failing call is returned with ippStsNoErr.
SignSucceeds == call = "signed" => retCode = "NoErr"
=============================================================================
