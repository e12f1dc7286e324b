----------------------------- MODULE CpuFeatures -----------------------------
(***************************************************************************)
(* The CPU dispatcher's own state (sources/ippcp/cpinit.c): which features *)
(* the CPU has, which ones are enabled, and the index of the code every    *)
(* entry point jumps to.  None of it is locked: each thread runs the       *)
(* routines below and every access to one of the three variables is a step *)
(* of its own.                                                             *)
(***************************************************************************)
EXTENDS Integers, FiniteSetsExt

CONSTANTS
    Threads,        \* threads of the application
    Cpus,           \* CPUs the library may run on: sets of features
    Requests        \* arguments the application gives ippcpSetCpuFeatures

\* The features, one name for the bits that the code treats alike: "SSE42"
\* stands for SSE to SSE4.2, "AVX512" for AVX3X_FEATURES, "IFMA" for the bits
\* AVX3I_FEATURES adds except SHA.
Features == {"MMX", "SSE42", "AES", "SHA", "AVX2", "AVX2VAES", "AVX512", "IFMA", "AVX10",
             "AVX_OS", "AVX512_OS"}

ASSUME CpusAssumption == Cpus \subseteq SUBSET Features /\ {} \notin Cpus
ASSUME RequestsAssumption == Requests \subseteq SUBSET (Features \cup {"NOCHECK"})

\* enum lib_enum: y8, l9, k0, k1, d1.
Codes == 0..4
NoCode == -1

VARIABLES
    hw,             \* what CPUID reports; never changes
    cpFeatures,
    cpFeaturesMask,
    jumpIndex,      \* ippcpJumpIndexForMergedLibs
    pc,             \* where each thread is
    my              \* what each thread has in its registers and on its stack

globals == <<cpFeatures, cpFeaturesMask, jumpIndex>>

Goto(t, l) == pc' = [pc EXCEPT ![t] = l]
At(t, l) == pc[t] = l

-----------------------------------------------------------------------------
(* owncpFeaturesToIdx *)

Required(i) ==
    CASE i = 4 -> {"AVX512", "IFMA", "SHA", "AVX10"}
      [] i = 3 -> {"AVX512", "IFMA", "SHA"}
      [] i = 2 -> {"AVX512"}
      [] i = 1 -> {"AVX2"}
      [] OTHER -> {}

RequiredOfOS(i) == IF i = 0 THEN {} ELSE IF i = 1 THEN {"AVX_OS"} ELSE {"AVX512_OS"}

\* The features the code of an index may use without asking (*_MSK).
Implied(i, feats) ==
    {"MMX"} \cup (IF i > 0 THEN {"SSE42", "AVX2"} ELSE feats \cap {"SSE42"})
            \cup (IF i > 1 THEN {"AVX512"} ELSE {})
            \cup (IF i > 2 THEN {"IFMA", "SHA"} ELSE {})
            \cup (IF i > 3 THEN {"AVX10"} ELSE {})

\* Mutant: the check that the OS saves the registers is missing.
MutantFeaturesToIdx(feats, known) == Max({i \in Codes : Required(i) \subseteq feats})

FeaturesToIdx(feats, known) ==
    Max({i \in Codes : Required(i) \subseteq feats /\ RequiredOfOS(i) \subseteq known})

-----------------------------------------------------------------------------
(* ippcpGetCpuFeatures: entered at "get", continues at my[t].then.         *)

\* Mutant: the features are read from the CPU every time.
MutantGet(t) ==
    /\ At(t, "get")
    /\ Goto(t, "cpuid1")
    /\ UNCHANGED <<globals, my>>

Get(t) ==
    /\ At(t, "get")
    /\ IF cpFeatures # {}
       THEN my' = [my EXCEPT ![t].feats = cpFeatures] /\ Goto(t, my[t].then)
       ELSE Goto(t, "cpuid1") /\ UNCHANGED my
    /\ UNCHANGED globals

\* cpGetFeatures: the two stores of its last lines.
CpuidFeatures(t) ==
    /\ At(t, "cpuid1")
    /\ cpFeatures' = hw
    /\ Goto(t, "cpuid2")
    /\ UNCHANGED <<cpFeaturesMask, jumpIndex, my>>

CpuidMask(t) ==
    /\ At(t, "cpuid2")
    /\ cpFeaturesMask' = hw
    /\ my' = [my EXCEPT ![t].feats = cpFeatures]
    /\ Goto(t, my[t].then)
    /\ UNCHANGED <<cpFeatures, jumpIndex>>

-----------------------------------------------------------------------------
(* ippcpSetCpuFeatures(my[t].feats): entered at "set", continues at        *)
(* my[t].then.  The callee has its own copy of the argument (my[t].copy).  *)

\* Mutant: the NOCHECK bit is not taken out.
MutantSetDetect(t) ==
    /\ At(t, "set")
    /\ my' = [my EXCEPT ![t].copy = my[t].feats]
    /\ IF "NOCHECK" \in my[t].feats
       THEN cpFeatures' = my[t].feats /\ Goto(t, "toidx")
       ELSE cpFeatures' = hw /\ Goto(t, "detect")
    /\ UNCHANGED <<cpFeaturesMask, jumpIndex>>

SetDetect(t) ==
    /\ At(t, "set")
    /\ my' = [my EXCEPT ![t].copy = my[t].feats \ {"NOCHECK"}]
    /\ IF "NOCHECK" \in my[t].feats
       THEN cpFeatures' = my[t].feats \ {"NOCHECK"} /\ Goto(t, "toidx")
       ELSE cpFeatures' = hw /\ Goto(t, "detect")
    /\ UNCHANGED <<cpFeaturesMask, jumpIndex>>

\* Mutant: the mask is cleared while the features are read again.
MutantSetDetectMask(t) ==
    /\ At(t, "detect")
    /\ cpFeaturesMask' = {}
    /\ Goto(t, "toidx")
    /\ UNCHANGED <<cpFeatures, jumpIndex, my>>

SetDetectMask(t) ==
    /\ At(t, "detect")
    /\ cpFeaturesMask' = hw
    /\ Goto(t, "toidx")
    /\ UNCHANGED <<cpFeatures, jumpIndex, my>>

SetToIdx(t) ==
    /\ At(t, "toidx")
    /\ LET i == FeaturesToIdx(my[t].copy, cpFeatures) IN
       my' = [my EXCEPT ![t].idx = i, ![t].copy = @ \cup Implied(i, @)]
    /\ Goto(t, "mask")
    /\ UNCHANGED globals

SetMask(t) ==
    /\ At(t, "mask")
    /\ cpFeaturesMask' = my[t].copy
    /\ Goto(t, "index")
    /\ UNCHANGED <<cpFeatures, jumpIndex, my>>

\* Mutant: an unsupported CPU (ippStsNotSupportedCpu) returns before the store.
MutantSetIndex(t) ==
    /\ At(t, "index")
    /\ jumpIndex' = IF "SSE42" \in my[t].copy THEN my[t].idx ELSE jumpIndex
    /\ Goto(t, "remask")
    /\ UNCHANGED <<cpFeatures, cpFeaturesMask, my>>

SetIndex(t) ==
    /\ At(t, "index")
    /\ jumpIndex' = my[t].idx
    /\ Goto(t, "remask")
    /\ UNCHANGED <<cpFeatures, cpFeaturesMask, my>>

\* The caller stores its own argument, not what the callee completed.
SetRemask(t) ==
    /\ At(t, "remask")
    /\ cpFeaturesMask' = my[t].feats
    /\ Goto(t, my[t].then)
    /\ UNCHANGED <<cpFeatures, jumpIndex, my>>

DispatcherStep(t) ==
    \/ Get(t) \/ CpuidFeatures(t) \/ CpuidMask(t)
    \/ SetDetect(t) \/ SetDetectMask(t) \/ SetToIdx(t)
    \/ SetMask(t) \/ SetIndex(t) \/ SetRemask(t)
==============================================================================
