------------------------------ MODULE Dispatcher ------------------------------
(***************************************************************************)
(* Threads that call the library while it is still choosing its code: the  *)
(* entry points of the merged library (sources/dispatcher/gen_disp_lin64.py),*)
(* which initialise it on the first call, those of a library built for one *)
(* CPU, which do not, and two functions that look at the enabled features  *)
(* while they run: ippsAES_GCMInit and ippsHashMethod_SHA256_TT.           *)
(***************************************************************************)
EXTENDS CpuFeatures

CONSTANTS
    Merged,         \* the merged library, or one built for one CPU
    OneCpuCode      \* the code of the latter

ASSUME MergedAssumption == Merged \in BOOLEAN /\ OneCpuCode \in Codes

VARIABLES
    gcm,            \* the GCM context of each thread
    method,         \* the static hash method of each code
    chosen          \* history: the last completed ippcpSetCpuFeatures

vars == <<hw, globals, pc, my, gcm, method, chosen>>

EmptyMethod == [update |-> "null", filled |-> {}, isInitialized |-> FALSE]
EmptyGcm == [functions |-> "none", table |-> "none"]
NoChoice == [idx |-> NoCode, mask |-> {}]
NoLocals == [call |-> "none", then |-> "none", check |-> "none",
             code |-> NoCode, idx |-> NoCode, feats |-> {}, copy |-> {}]

Init ==
    /\ hw \in Cpus
    /\ cpFeatures = {} /\ cpFeaturesMask = {} /\ jumpIndex = NoCode
    /\ pc = [t \in Threads |-> "idle"]
    /\ my = [t \in Threads |-> NoLocals]
    /\ gcm = [t \in Threads |-> EmptyGcm]
    /\ method = [c \in Codes |-> EmptyMethod]
    /\ chosen = NoChoice

Idle(t) == pc[t] = "idle"
Return(t) == Goto(t, "idle") /\ my' = [my EXCEPT ![t] = NoLocals]
Selecting(t) == ~Idle(t) /\ my[t].call = "select"

-----------------------------------------------------------------------------
(* What the application calls.                                             *)

FirstCheck(call, code) ==
    IF call = "hash" THEN "hashSHA" ELSE IF code >= 2 THEN "functions512" ELSE "functionsAES"

Call(t, call) ==
    /\ Idle(t) /\ ~\E u \in Threads : Selecting(u)
    /\ IF Merged
       THEN /\ my' = [my EXCEPT ![t].call = call]
            /\ Goto(t, "jump")
       ELSE /\ my' = [my EXCEPT ![t].call = call, ![t].code = OneCpuCode,
                                ![t].check = FirstCheck(call, OneCpuCode)]
            /\ Goto(t, "feature")
    /\ UNCHANGED <<globals, gcm, method, chosen>>

GetCpuFeatures(t) ==
    /\ Idle(t) /\ ~\E u \in Threads : Selecting(u)
    /\ my' = [my EXCEPT ![t].call = "query", ![t].then = "queried"]
    /\ Goto(t, "get")
    /\ UNCHANGED <<globals, gcm, method, chosen>>

\* Only while no other function of the library runs, as its documentation
\* demands, and only for features the CPU has.
SetCpuFeatures(t) ==
    /\ \A u \in Threads : Idle(u)
    /\ \E r \in Requests :
          /\ r \ {"NOCHECK"} \subseteq hw
          /\ my' = [my EXCEPT ![t].call = "select", ![t].feats = r, ![t].then = "selected"]
    /\ Goto(t, "set")
    /\ UNCHANGED <<globals, gcm, method, chosen>>

Selected(t) ==
    /\ At(t, "selected")
    /\ chosen' = [idx |-> my[t].idx, mask |-> my[t].feats]
    /\ Return(t)
    /\ UNCHANGED <<globals, gcm, method>>

-----------------------------------------------------------------------------
(* The entry point: jump through the table, or initialise and try again.   *)

Jump(t) ==
    /\ At(t, "jump")
    /\ IF jumpIndex = NoCode
       THEN /\ my' = [my EXCEPT ![t].then = "init"]
            /\ Goto(t, "get")
       ELSE /\ my' = [my EXCEPT ![t].code = jumpIndex,
                                ![t].check = FirstCheck(my[t].call, jumpIndex)]
            /\ Goto(t, "feature")
    /\ UNCHANGED <<globals, gcm, method, chosen>>

\* ippcpInit goes on to ippcpSetCpuFeatures with what ippcpGetCpuFeatures gave.
InitSet(t) ==
    /\ At(t, "init")
    /\ my' = [my EXCEPT ![t].then = "jump"]
    /\ Goto(t, "set")
    /\ UNCHANGED <<globals, gcm, method, chosen>>

-----------------------------------------------------------------------------
(* IsFeatureEnabled: a first look at the mask for 0, a second for the bits. *)

Feature(t) ==
    /\ At(t, "feature")
    /\ IF cpFeaturesMask = {}
       THEN my' = [my EXCEPT ![t].then = "test"] /\ Goto(t, "get")
       ELSE Goto(t, "test") /\ UNCHANGED my
    /\ UNCHANGED <<globals, gcm, method, chosen>>

Wanted(check) ==
    CASE check = "hashSHA" -> "SHA"
      [] check \in {"functionsAES", "tableAES"} -> "AES"
      [] check \in {"functionsVAES", "tableVAES"} -> "AVX2VAES"
      [] OTHER -> "IFMA"

Enabled(t) == Wanted(my[t].check) \in cpFeaturesMask

CheckNext(t, check) == my' = [my EXCEPT ![t].check = check] /\ Goto(t, "feature")

-----------------------------------------------------------------------------
(* ippsAES_GCMInit: cpAesGCM_setup_ptrs_and_methods chooses the functions, *)
(* then the multiplier table is computed for what is enabled by then.      *)

SetupFunctions(t) ==
    /\ At(t, "test")
    /\ \/ /\ my[t].check = "functionsAES"
          /\ gcm' = [gcm EXCEPT ![t].functions = IF Enabled(t) THEN "avx" ELSE "table2K"]
          /\ CheckNext(t, IF my[t].code = 1 THEN "functionsVAES" ELSE "tableAES")
       \/ /\ my[t].check = "functionsVAES"
          /\ gcm' = IF Enabled(t) THEN [gcm EXCEPT ![t].functions = "vaes"] ELSE gcm
          /\ CheckNext(t, "tableVAES")
       \/ /\ my[t].check = "functions512"
          /\ gcm' = [gcm EXCEPT ![t].functions = IF Enabled(t) THEN "vaes512" ELSE "avx512"]
          /\ CheckNext(t, "table512")
    /\ UNCHANGED <<globals, method, chosen>>

Precompute(t) ==
    /\ At(t, "test")
    /\ \/ /\ my[t].check = "tableVAES"
          /\ IF Enabled(t)
             THEN gcm' = [gcm EXCEPT ![t].table = "vaes"] /\ Return(t)
             ELSE CheckNext(t, "tableAES") /\ UNCHANGED gcm
       \/ /\ my[t].check = "tableAES"
          /\ gcm' = [gcm EXCEPT ![t].table = IF Enabled(t) THEN "avx" ELSE "table2K"]
          /\ Return(t)
       \/ /\ my[t].check = "table512"
          /\ gcm' = [gcm EXCEPT ![t].table = IF Enabled(t) THEN "vaes512" ELSE "avx512"]
          /\ Return(t)
    /\ UNCHANGED <<globals, method, chosen>>

-----------------------------------------------------------------------------
(* ippsHashMethod_SHA256_TT: one static method of each code, filled on the *)
(* first call; the update function is chosen anew on every call.           *)

Change(t, field, value) == method' = [method EXCEPT ![my[t].code][field] = value]

HashChoose(t) ==
    /\ At(t, "test") /\ my[t].check = "hashSHA"
    /\ Change(t, "update", IF Enabled(t) THEN "ni" ELSE "generic")
    /\ Goto(t, "initialized")
    /\ UNCHANGED <<globals, my, gcm, chosen>>

HashInitialized(t) ==
    /\ At(t, "initialized")
    /\ Goto(t, IF method[my[t].code].isInitialized THEN "given" ELSE "fillInit")
    /\ UNCHANGED <<globals, my, gcm, method, chosen>>

Fill(t, l, field, value, next) ==
    /\ At(t, l)
    /\ Change(t, field, value)
    /\ Goto(t, next)

\* Mutant: isInitialized is set when the first pointer is.
MutantHashFill(t) ==
    /\ \/ Fill(t, "fillInit", "isInitialized", TRUE, "fillUpdate")
       \/ Fill(t, "fillUpdate", "update", "generic", "fillRest")
       \/ Fill(t, "fillRest", "filled", {"hashInit", "hashOctStr", "msgLenRep"}, "given")
    /\ UNCHANGED <<globals, my, gcm, chosen>>

HashFill(t) ==
    /\ LET filled == method[my[t].code].filled IN
       \/ Fill(t, "fillInit", "filled", filled \cup {"hashInit"}, "fillUpdate")
       \/ Fill(t, "fillUpdate", "update", "generic", "fillRest")
       \/ Fill(t, "fillRest", "filled", filled \cup {"hashOctStr", "msgLenRep"}, "fillDone")
       \/ Fill(t, "fillDone", "isInitialized", TRUE, "given")
    /\ UNCHANGED <<globals, my, gcm, chosen>>

\* The caller has what it asked for: the method, or the features of the CPU.
Leave(t) ==
    /\ At(t, "given") \/ At(t, "queried")
    /\ Return(t)
    /\ UNCHANGED <<globals, gcm, method, chosen>>

-----------------------------------------------------------------------------

Start(t) == Call(t, "gcm") \/ Call(t, "hash") \/ GetCpuFeatures(t) \/ SetCpuFeatures(t)

Run(t) ==
    \/ DispatcherStep(t) /\ UNCHANGED <<gcm, method, chosen>>
    \/ Selected(t) \/ Jump(t) \/ InitSet(t) \/ Feature(t)
    \/ SetupFunctions(t) \/ Precompute(t)
    \/ HashChoose(t) \/ HashInitialized(t) \/ HashFill(t) \/ Leave(t)

Next == \E t \in Threads : (Start(t) \/ Run(t)) /\ UNCHANGED hw

\* A thread that is in the library goes on running; nobody has to call it.
Fairness == \A t \in Threads : WF_vars(Run(t) /\ UNCHANGED hw)

Spec == Init /\ [][Next]_vars /\ Fairness
-----------------------------------------------------------------------------
(* Properties. *)

Calls == {"none", "gcm", "hash", "query", "select"}
Functions == {"none", "table2K", "avx", "vaes", "avx512", "vaes512"}
AnyFeatures == SUBSET (Features \cup {"NOCHECK"})

\* The types of the variables; the features a thread compares never contain
\* the NOCHECK bit.
TypeOK ==
    /\ hw \in Cpus /\ cpFeatures \subseteq Features
    /\ cpFeaturesMask \in AnyFeatures
    /\ jumpIndex \in Codes \cup {NoCode}
    /\ \A t \in Threads :
          /\ my[t].call \in Calls
          /\ my[t].code \in Codes \cup {NoCode} /\ my[t].idx \in Codes \cup {NoCode}
          /\ my[t].feats \in AnyFeatures /\ my[t].copy \subseteq Features
          /\ gcm[t] \in [functions : Functions, table : Functions]
    /\ \A c \in Codes : method[c].update \in {"null", "generic", "ni"}
    /\ chosen.idx \in Codes \cup {NoCode} /\ chosen.mask \in AnyFeatures

UsedBy(function) ==
    CASE function = "avx" -> {"AES"}
      [] function = "vaes" -> {"AVX2VAES"}
      [] function = "avx512" -> {"AVX512"}
      [] function = "vaes512" -> {"IFMA"}
      [] function = "ni" -> {"SHA"}
      [] OTHER -> {}

\* Nothing runs that the CPU or the OS lacks: not the code a thread was sent to,
\* whichever initialisations ran at the same time, nor the functions of a GCM
\* context or of a hash method that outlive the call that chose them.  (A CPU
\* below the library's minimum is sent to the y8 code with a warning.)
CodeRuns ==
    "SSE42" \in hw =>
       \A t \in Threads :
          /\ my[t].code # NoCode =>
                /\ Implied(my[t].code, {"SSE42"}) \cup RequiredOfOS(my[t].code) \subseteq hw
                /\ UsedBy(method[my[t].code].update) \subseteq hw
          /\ UsedBy(gcm[t].functions) \cup UsedBy(gcm[t].table) \subseteq hw

\* What the application last chose stays in force until it chooses again: no
\* first call, no query and no look at the features brings back what it
\* disabled.
SelectionInForce ==
    chosen # NoChoice /\ ~(\E t \in Threads : Selecting(t)) =>
       jumpIndex = chosen.idx /\ cpFeaturesMask = chosen.mask

\* A hash method that was given to a caller has all its pointers, also when
\* other threads were filling the same static structure.
MethodComplete ==
    \A t \in Threads : At(t, "given") =>
       /\ method[my[t].code].filled = {"hashInit", "hashOctStr", "msgLenRep"}
       /\ method[my[t].code].update # "null"

\* The table of an initialised GCM context is the one its functions read.
ContextConsistent ==
    \A t \in Threads : Idle(t) => gcm[t].functions = gcm[t].table

\* An enabled extension has the older ones below it enabled too, if the CPU has
\* them: the missing bits of an incomplete combination are set.
CombinationCompleted ==
    (\A t \in Threads : Idle(t)) /\ "AVX2" \in cpFeaturesMask =>
       {"MMX", "SSE42"} \cap hw \subseteq cpFeaturesMask

\* Every call returns: an entry point that found no index finds one after it
\* has initialised the library, also on a CPU that is not supported.
EveryCallReturns == \A t \in Threads : pc[t] # "idle" ~> pc[t] = "idle"
==============================================================================
