-------------------------- MODULE Dispatcher_proofs --------------------------
(* Proofs about Dispatcher for any number of threads, any CPUs and any      *)
(* selections.                                                              *)
EXTENDS Dispatcher, TLAPS

-----------------------------------------------------------------------------
(* Types. *)

Checks == {"none", "hashSHA", "functionsAES", "functionsVAES", "functions512",
           "tableAES", "tableVAES", "table512"}

Thens == {"none", "queried", "selected", "init", "jump", "test"}

Places == Thens \cup
          {"idle", "get", "cpuid1", "cpuid2", "set", "detect", "toidx", "mask", "index",
           "remask", "feature", "initialized", "fillInit", "fillUpdate", "fillRest",
           "fillDone", "given"}

Index == Codes \cup {NoCode}

Locals == [call : Calls, then : Thens, check : Checks, code : Index, idx : Index,
           feats : AnyFeatures, copy : SUBSET Features]

Pointers == {"hashInit", "hashOctStr", "msgLenRep"}

Methods == [update : {"null", "generic", "ni"}, filled : SUBSET Pointers,
            isInitialized : BOOLEAN]

Typed ==
    /\ hw \in Cpus /\ cpFeatures \in SUBSET Features
    /\ cpFeaturesMask \in AnyFeatures
    /\ jumpIndex \in Index
    /\ pc \in [Threads -> Places]
    /\ my \in [Threads -> Locals]
    /\ gcm \in [Threads -> [functions : Functions, table : Functions]]
    /\ method \in [Codes -> Methods]
    /\ chosen \in [idx : Index, mask : AnyFeatures]

\* The largest of some codes among which is the first.
LEMMA LargestCode ==
    ASSUME NEW S \in SUBSET Codes, 0 \in S
    PROVE  Max(S) \in S
<1>1. \E x \in S : \A y \in S : x >= y
  <2>1. CASE 4 \in S
    BY <2>1 DEF Codes
  <2>2. CASE 4 \notin S /\ 3 \in S
    BY <2>2 DEF Codes
  <2>3. CASE 4 \notin S /\ 3 \notin S /\ 2 \in S
    BY <2>3 DEF Codes
  <2>4. CASE 4 \notin S /\ 3 \notin S /\ 2 \notin S /\ 1 \in S
    BY <2>4 DEF Codes
  <2>5. CASE S = {0}
    BY <2>5
  <2> QED BY <2>1, <2>2, <2>3, <2>4, <2>5 DEF Codes
<1> QED BY <1>1 DEF Max

\* The index chosen for some features, of which others are known of the OS.
LEMMA IndexChosen ==
    ASSUME NEW feats, NEW known
    PROVE  LET i == FeaturesToIdx(feats, known)
           IN  i \in Codes /\ Required(i) \subseteq feats /\ RequiredOfOS(i) \subseteq known
<1> DEFINE S == {i \in Codes : Required(i) \subseteq feats /\ RequiredOfOS(i) \subseteq known}
<1>1. S \in SUBSET Codes
  OBVIOUS
<1>2. 0 \in S
  BY DEF Codes, Required, RequiredOfOS
<1>3. Max(S) \in S
  BY <1>1, <1>2, LargestCode
<1> QED BY <1>3 DEF FeaturesToIdx

\* The constant values have their types.
LEMMA ConstantTypes ==
    /\ NoLocals \in Locals
    /\ \A c \in Cpus : c \in SUBSET Features /\ c \in AnyFeatures /\ c # {}
    /\ \A f \in SUBSET Features : f \in AnyFeatures
    /\ \A f \in AnyFeatures : f \ {"NOCHECK"} \in SUBSET Features
    /\ \A r \in Requests : r \in AnyFeatures
    /\ OneCpuCode \in Codes /\ NoCode \in Index
    /\ \A i \in Codes : \A f : Implied(i, f) \in SUBSET Features
<1>1. NoLocals \in Locals
  BY DEF NoLocals, Locals, Calls, Checks, Index, AnyFeatures, Thens
<1>2. /\ \A f \in SUBSET Features : f \in AnyFeatures
      /\ \A f \in AnyFeatures : f \ {"NOCHECK"} \in SUBSET Features
  BY DEF AnyFeatures
<1>3. \A c \in Cpus : c \in SUBSET Features /\ c \in AnyFeatures /\ c # {}
  BY <1>2, CpusAssumption
<1>4. \A r \in Requests : r \in AnyFeatures
  BY RequestsAssumption DEF AnyFeatures
<1>5. OneCpuCode \in Codes /\ NoCode \in Index
  BY MergedAssumption DEF Index
<1>6. ASSUME NEW i \in Codes, NEW f PROVE Implied(i, f) \in SUBSET Features
  BY DEF Implied, Features
<1> QED BY <1>1, <1>2, <1>3, <1>4, <1>5, <1>6

-----------------------------------------------------------------------------

\* The fields of a thread's locals.
LEMMA LocalFields ==
    ASSUME NEW m \in Locals
    PROVE  /\ m.call \in Calls /\ m.then \in Thens /\ m.check \in Checks
           /\ m.code \in Index /\ m.idx \in Index
           /\ m.feats \in AnyFeatures /\ m.copy \in SUBSET Features
           /\ m.copy \in AnyFeatures /\ m.feats \ {"NOCHECK"} \in SUBSET Features
BY ConstantTypes DEF Locals

\* The steps of the dispatcher's routines.
LEMMA DispatcherTyped ==
    ASSUME Typed, NEW t \in Threads, DispatcherStep(t),
           UNCHANGED <<gcm, method, chosen, hw>>
    PROVE  Typed'
<1>1. PICK m \in Locals : m = my[t]
  BY DEF Typed
<1>2. /\ m.then \in Thens /\ m.idx \in Index /\ m.feats \in AnyFeatures
      /\ m.copy \in SUBSET Features /\ m.copy \in AnyFeatures
      /\ m.feats \ {"NOCHECK"} \in SUBSET Features
  BY LocalFields
<1>3. /\ hw \in SUBSET Features /\ hw \in AnyFeatures
      /\ cpFeatures \in SUBSET Features /\ cpFeatures \in AnyFeatures
  BY ConstantTypes DEF Typed
<1>4. pc \in [Threads -> Places]
  BY DEF Typed
<1>5. CASE Get(t)
  <2>1. [m EXCEPT !.feats = cpFeatures] \in Locals
    BY <1>3 DEF Locals
  <2>2. my' \in [Threads -> Locals]
    BY <1>1, <1>5, <2>1 DEF Typed, Get
  <2>3. pc' \in [Threads -> Places]
    BY <1>1, <1>2, <1>4, <1>5 DEF Get, Goto, Places
  <2> QED BY <1>5, <2>2, <2>3 DEF Typed, Get, globals
<1>6. CASE CpuidFeatures(t)
  BY <1>3, <1>4, <1>6 DEF Typed, CpuidFeatures, Goto, Places
<1>7. CASE CpuidMask(t)
  <2>1. [m EXCEPT !.feats = cpFeatures] \in Locals
    BY <1>3 DEF Locals
  <2>2. my' \in [Threads -> Locals]
    BY <1>1, <1>7, <2>1 DEF Typed, CpuidMask
  <2>3. pc' \in [Threads -> Places]
    BY <1>1, <1>2, <1>4, <1>7 DEF CpuidMask, Goto, Places
  <2> QED BY <1>3, <1>7, <2>2, <2>3 DEF Typed, CpuidMask
<1>8. CASE SetDetect(t)
  <2>1. [m EXCEPT !.copy = m.feats \ {"NOCHECK"}] \in Locals
    BY <1>2 DEF Locals
  <2>2. my' \in [Threads -> Locals]
    BY <1>1, <1>8, <2>1 DEF Typed, SetDetect
  <2>3. pc' \in [Threads -> Places]
    BY <1>4, <1>8 DEF SetDetect, Goto, Places
  <2> QED BY <1>1, <1>2, <1>3, <1>8, <2>2, <2>3 DEF Typed, SetDetect
<1>9. CASE SetDetectMask(t)
  BY <1>3, <1>4, <1>9 DEF Typed, SetDetectMask, Goto, Places
<1>10. CASE SetToIdx(t)
  <2>1. PICK i \in Codes : i = FeaturesToIdx(m.copy, cpFeatures)
    BY IndexChosen
  <2>2. Implied(i, m.copy) \in SUBSET Features /\ i \in Index
    BY ConstantTypes DEF Index
  <2>3. m.copy \cup Implied(i, m.copy) \in SUBSET Features
    BY <1>2, <2>2
  <2>4. [m EXCEPT !.idx = i, !.copy = m.copy \cup Implied(i, m.copy)] \in Locals
    BY <2>2, <2>3 DEF Locals
  <2>5. my' = [my EXCEPT ![t] = [m EXCEPT !.idx = i, !.copy = m.copy \cup Implied(i, m.copy)]]
    BY <1>1, <1>10, <2>1 DEF Typed, SetToIdx
  <2>6. my' \in [Threads -> Locals]
    BY <2>4, <2>5 DEF Typed
  <2> QED BY <1>4, <1>10, <2>6 DEF Typed, SetToIdx, globals, Goto, Places
<1>11. CASE SetMask(t)
  BY <1>1, <1>2, <1>4, <1>11 DEF Typed, SetMask, Goto, Places
<1>12. CASE SetIndex(t)
  BY <1>1, <1>2, <1>4, <1>12 DEF Typed, SetIndex, Goto, Places
<1>13. CASE SetRemask(t)
  BY <1>1, <1>2, <1>4, <1>13 DEF Typed, SetRemask, Goto, Places
<1> QED BY <1>5, <1>6, <1>7, <1>8, <1>9, <1>10, <1>11, <1>12, <1>13 DEF DispatcherStep
\* The calls of the application.
LEMMA StartTyped ==
    ASSUME Typed, NEW t \in Threads, Start(t), UNCHANGED hw
    PROVE  Typed'
<1>1. PICK m \in Locals : m = my[t]
  BY DEF Typed
<1>2. pc \in [Threads -> Places] /\ my \in [Threads -> Locals]
  BY DEF Typed
<1>3. ASSUME NEW call \in {"gcm", "hash"}, Call(t, call) PROVE Typed'
  <2>1. [m EXCEPT !.call = call] \in Locals
    BY DEF Locals, Calls
  <2>2. FirstCheck(call, OneCpuCode) \in Checks /\ OneCpuCode \in Index
    BY ConstantTypes DEF FirstCheck, Checks, Index
  <2>3. [m EXCEPT !.call = call, !.code = OneCpuCode,
                  !.check = FirstCheck(call, OneCpuCode)] \in Locals
    BY <2>2 DEF Locals, Calls
  <2>4. my' \in [Threads -> Locals]
    BY <1>1, <1>2, <1>3, <2>1, <2>3 DEF Call
  <2>5. pc' \in [Threads -> Places]
    BY <1>2, <1>3 DEF Call, Goto, Places, Thens
  <2> QED BY <1>3, <2>4, <2>5 DEF Typed, Call, globals
<1>4. CASE GetCpuFeatures(t)
  <2>1. [m EXCEPT !.call = "query", !.then = "queried"] \in Locals
    BY DEF Locals, Calls, Thens
  <2>2. my' \in [Threads -> Locals]
    BY <1>1, <1>2, <1>4, <2>1 DEF GetCpuFeatures
  <2>3. pc' \in [Threads -> Places]
    BY <1>2, <1>4 DEF GetCpuFeatures, Goto, Places
  <2> QED BY <1>4, <2>2, <2>3 DEF Typed, GetCpuFeatures, globals
<1>5. CASE SetCpuFeatures(t)
  <2>1. PICK r \in Requests :
           my' = [my EXCEPT ![t].call = "select", ![t].feats = r, ![t].then = "selected"]
    BY <1>5 DEF SetCpuFeatures
  <2>2. [m EXCEPT !.call = "select", !.feats = r, !.then = "selected"] \in Locals
    <3>1. r \in AnyFeatures
      BY ConstantTypes
    <3> QED BY <3>1 DEF Locals, Calls, Thens
  <2>3. my' \in [Threads -> Locals]
    BY <1>1, <1>2, <2>1, <2>2
  <2>4. pc' \in [Threads -> Places]
    BY <1>2, <1>5 DEF SetCpuFeatures, Goto, Places
  <2> QED BY <1>5, <2>3, <2>4 DEF Typed, SetCpuFeatures, globals
<1> QED BY <1>3, <1>4, <1>5 DEF Start

\* A thread that returns forgets its locals.
LEMMA ReturnTyped ==
    ASSUME Typed, NEW t \in Threads, Return(t)
    PROVE  my' \in [Threads -> Locals] /\ pc' \in [Threads -> Places]
<1>1. NoLocals \in Locals
  BY ConstantTypes
<1> QED BY <1>1 DEF Typed, Return, Goto, Places

\* A thread that goes on to another look at the features.
LEMMA CheckTyped ==
    ASSUME Typed, NEW t \in Threads, NEW k \in Checks, CheckNext(t, k)
    PROVE  my' \in [Threads -> Locals] /\ pc' \in [Threads -> Places]
<1>1. PICK m \in Locals : m = my[t]
  BY DEF Typed
<1>2. [m EXCEPT !.check = k] \in Locals
  BY DEF Locals
<1>3. my' = [my EXCEPT ![t] = [m EXCEPT !.check = k]]
  BY <1>1 DEF CheckNext
<1> QED BY <1>2, <1>3 DEF Typed, CheckNext, Goto, Places

\* A field of the static method is stored.
LEMMA ChangeTyped ==
    ASSUME method \in [Codes -> Methods], NEW t \in Threads
    PROVE  /\ \A v \in {"null", "generic", "ni"} :
                 Change(t, "update", v) => method' \in [Codes -> Methods]
           /\ \A v \in SUBSET Pointers :
                 Change(t, "filled", v) => method' \in [Codes -> Methods]
           /\ \A v \in BOOLEAN :
                 Change(t, "isInitialized", v) => method' \in [Codes -> Methods]
<1> DEFINE c == my[t].code
<1>1. CASE c \notin Codes
  BY <1>1 DEF Change
<1>2. CASE c \in Codes
  <2>1. PICK m \in Methods : m = method[c]
    BY <1>2
  <2>2. \A v \in {"null", "generic", "ni"} : [m EXCEPT !.update = v] \in Methods
    BY DEF Methods
  <2>3. \A v \in SUBSET Pointers : [m EXCEPT !.filled = v] \in Methods
    BY DEF Methods
  <2>4. \A v \in BOOLEAN : [m EXCEPT !.isInitialized = v] \in Methods
    BY DEF Methods
  <2> QED BY <1>2, <2>1, <2>2, <2>3, <2>4 DEF Change
<1> QED BY <1>1, <1>2

\* The steps of a thread in an entry point or behind it.
LEMMA RunTyped ==
    ASSUME Typed, NEW t \in Threads, Run(t), UNCHANGED hw
    PROVE  Typed'
<1>1. PICK m \in Locals : m = my[t]
  BY DEF Typed
<1>2. /\ pc \in [Threads -> Places] /\ my \in [Threads -> Locals]
      /\ gcm \in [Threads -> [functions : Functions, table : Functions]]
      /\ method \in [Codes -> Methods]
  BY DEF Typed
<1>3. CASE DispatcherStep(t) /\ UNCHANGED <<gcm, method, chosen>>
  BY <1>3, DispatcherTyped
<1>4. CASE Selected(t)
  <2>1. chosen' \in [idx : Index, mask : AnyFeatures]
    BY <1>1, <1>4, LocalFields DEF Selected
  <2> QED BY <1>4, <2>1, ReturnTyped DEF Typed, Selected, globals
<1>5. CASE Jump(t)
  <2>1. FirstCheck(m.call, jumpIndex) \in Checks /\ jumpIndex \in Index
    BY DEF FirstCheck, Checks, Typed
  <2>2. [m EXCEPT !.then = "init"] \in Locals
    BY DEF Locals, Thens
  <2>3. [m EXCEPT !.code = jumpIndex, !.check = FirstCheck(m.call, jumpIndex)] \in Locals
    BY <2>1 DEF Locals
  <2>4. my' \in [Threads -> Locals]
    BY <1>1, <1>2, <1>5, <2>2, <2>3 DEF Jump
  <2>5. pc' \in [Threads -> Places]
    BY <1>2, <1>5 DEF Jump, Goto, Places
  <2> QED BY <1>5, <2>4, <2>5 DEF Typed, Jump, globals
<1>6. CASE InitSet(t)
  <2>1. [m EXCEPT !.then = "jump"] \in Locals
    BY DEF Locals, Thens
  <2>2. my' \in [Threads -> Locals]
    BY <1>1, <1>2, <1>6, <2>1 DEF InitSet
  <2>3. pc' \in [Threads -> Places]
    BY <1>2, <1>6 DEF InitSet, Goto, Places
  <2> QED BY <1>6, <2>2, <2>3 DEF Typed, InitSet, globals
<1>7. CASE Feature(t)
  <2>1. [m EXCEPT !.then = "test"] \in Locals
    BY DEF Locals, Thens
  <2>2. my' \in [Threads -> Locals]
    BY <1>1, <1>2, <1>7, <2>1 DEF Feature
  <2>3. pc' \in [Threads -> Places]
    BY <1>2, <1>7 DEF Feature, Goto, Places, Thens
  <2> QED BY <1>7, <2>2, <2>3 DEF Typed, Feature, globals
<1>8. CASE SetupFunctions(t) \/ Precompute(t)
  <2>1. gcm' \in [Threads -> [functions : Functions, table : Functions]]
    <3>1. PICK g \in [functions : Functions, table : Functions] : g = gcm[t]
      BY <1>2
    <3>2. \A f \in Functions :
             /\ [g EXCEPT !.functions = f] \in [functions : Functions, table : Functions]
             /\ [g EXCEPT !.table = f] \in [functions : Functions, table : Functions]
      OBVIOUS
    <3>3. {"avx", "table2K", "vaes", "vaes512", "avx512"} \subseteq Functions
      BY DEF Functions
    <3>4. CASE SetupFunctions(t)
      BY <1>2, <3>1, <3>2, <3>3, <3>4 DEF SetupFunctions
    <3>5. CASE Precompute(t)
      BY <1>2, <3>1, <3>2, <3>3, <3>5 DEF Precompute
    <3> QED BY <1>8, <3>4, <3>5
  <2>2. \/ Return(t)
        \/ \E k \in Checks : CheckNext(t, k)
    BY <1>8 DEF SetupFunctions, Precompute, Checks
  <2>3. my' \in [Threads -> Locals] /\ pc' \in [Threads -> Places]
    BY <2>2, ReturnTyped, CheckTyped
  <2> QED BY <1>8, <2>1, <2>3 DEF Typed, SetupFunctions, Precompute, globals
<1>9. CASE HashChoose(t)
  <2>1. method' \in [Codes -> Methods]
    BY <1>2, <1>9, ChangeTyped DEF HashChoose
  <2>2. pc' \in [Threads -> Places]
    BY <1>2, <1>9 DEF HashChoose, Goto, Places
  <2> QED BY <1>9, <2>1, <2>2 DEF Typed, HashChoose, globals
<1>10. CASE HashInitialized(t)
  <2>1. pc' \in [Threads -> Places]
    BY <1>2, <1>10 DEF HashInitialized, Goto, Places
  <2> QED BY <1>10, <2>1 DEF Typed, HashInitialized, globals
<1>11. CASE HashFill(t)
  <2>1. pc' \in [Threads -> Places]
    BY <1>2, <1>11 DEF HashFill, Fill, Goto, Places
  <2>2. method' \in [Codes -> Methods]
    <3>1. CASE my[t].code \notin Codes
      BY <1>2, <1>11, <3>1 DEF HashFill, Fill, Change
    <3>2. CASE my[t].code \in Codes
      <4>1. PICK f \in SUBSET Pointers : f = method[my[t].code].filled
        BY <1>2, <3>2 DEF Methods
      <4>2. /\ f \cup {"hashInit"} \in SUBSET Pointers
            /\ f \cup {"hashOctStr", "msgLenRep"} \in SUBSET Pointers
        BY DEF Pointers
      <4>3. \/ Change(t, "filled", f \cup {"hashInit"})
            \/ Change(t, "update", "generic")
            \/ Change(t, "filled", f \cup {"hashOctStr", "msgLenRep"})
            \/ Change(t, "isInitialized", TRUE)
        BY <1>11, <4>1 DEF HashFill, Fill
      <4> QED BY <1>2, <4>2, <4>3, ChangeTyped
    <3> QED BY <3>1, <3>2
  <2> QED BY <1>11, <2>1, <2>2 DEF Typed, HashFill, globals
<1>12. CASE Leave(t)
  BY <1>12, ReturnTyped DEF Typed, Leave, globals
<1> QED BY <1>3, <1>4, <1>5, <1>6, <1>7, <1>8, <1>9, <1>10, <1>11, <1>12 DEF Run
-----------------------------------------------------------------------------
(* Where a thread is tells what it keeps. *)

GetPlaces == {"get", "cpuid1", "cpuid2"}
SetPlaces == {"set", "detect", "toidx", "mask", "index", "remask"}
HashPlaces == {"initialized", "fillInit", "fillUpdate", "fillRest", "fillDone", "given"}

InCall(p, m) ==
    \/ p \in GetPlaces /\ m.then = "init" /\ m.check = "none"
    \/ p \in GetPlaces /\ m.then = "test" /\ m.check # "none"
    \/ p \in SetPlaces /\ m.then = "jump" /\ m.check = "none"
    \/ p \in {"jump", "init"} /\ m.check = "none"
    \/ p \in {"feature", "test"} /\ m.check # "none"
    \/ p \in HashPlaces /\ m.check = "hashSHA"

\* A thread with locals m at p.
PlacedAt(p, m) ==
    /\ p = "idle" <=> m.call = "none"
    /\ p = "idle" => m.check = "none"
    /\ m.call = "select" => p \in SetPlaces \cup {"selected"} /\ m.then = "selected" /\ m.check = "none"
    /\ m.call = "query" => p \in GetPlaces \cup {"queried"} /\ m.then = "queried" /\ m.check = "none"
    /\ m.call \in {"gcm", "hash"} => InCall(p, m)
    /\ m.check # "none" => m.code \in Codes
    /\ m.check = "none" => m.code = NoCode
    /\ m.check \in {"functions512", "table512"} => m.code \in 2..4

Placed == \A t \in Threads : PlacedAt(pc[t], my[t])

\* A step of a thread touches what is its own and the globals.
LEMMA OwnStep ==
    ASSUME Typed, NEW t \in Threads, Start(t) \/ Run(t)
    PROVE  \A u \in Threads \ {t} : pc'[u] = pc[u] /\ my'[u] = my[u] /\ gcm'[u] = gcm[u]
<1>1. /\ pc \in [Threads -> Places] /\ my \in [Threads -> Locals]
      /\ gcm \in [Threads -> [functions : Functions, table : Functions]]
  BY DEF Typed
<1>2. CASE Start(t)
  BY <1>1, <1>2 DEF Start, Call, GetCpuFeatures, SetCpuFeatures, Goto
<1>3. CASE DispatcherStep(t) /\ UNCHANGED <<gcm, method, chosen>>
  BY <1>1, <1>3 DEF DispatcherStep, Get, CpuidFeatures, CpuidMask, SetDetect, SetDetectMask,
                    SetToIdx, SetMask, SetIndex, SetRemask, Goto
<1>4. CASE Selected(t) \/ Jump(t) \/ InitSet(t) \/ Feature(t)
  BY <1>1, <1>4 DEF Selected, Jump, InitSet, Feature, Goto, Return
<1>5. CASE SetupFunctions(t) \/ Precompute(t)
  BY <1>1, <1>5 DEF SetupFunctions, Precompute, Goto, Return, CheckNext
<1>6. CASE HashChoose(t) \/ HashInitialized(t) \/ HashFill(t) \/ Leave(t)
  BY <1>1, <1>6 DEF HashChoose, HashInitialized, HashFill, Fill, Leave, Goto, Return
<1> QED BY <1>2, <1>3, <1>4, <1>5, <1>6 DEF Run

\* The application's calls.
LEMMA PlacedStart ==
    ASSUME Typed, Placed, NEW t \in Threads, Start(t)
    PROVE  PlacedAt(pc'[t], my'[t])
<1>1. PICK m \in Locals : m = my[t]
  BY DEF Typed
<1>2. /\ pc \in [Threads -> Places] /\ my \in [Threads -> Locals]
      /\ PlacedAt(pc[t], m)
  BY <1>1 DEF Typed, Placed
<1>3. ASSUME NEW call \in {"gcm", "hash"}, Call(t, call) PROVE PlacedAt(pc'[t], my'[t])
  <2>1. /\ FirstCheck(call, OneCpuCode) \in {"hashSHA", "functions512", "functionsAES"}
        /\ FirstCheck(call, OneCpuCode) = "functions512" => OneCpuCode \in 2..4
        /\ OneCpuCode \in Codes
    BY ConstantTypes DEF FirstCheck, Codes
  <2>2. CASE Merged
    <3>1. pc'[t] = "jump" /\ my'[t] = [m EXCEPT !.call = call]
      BY <1>1, <1>2, <1>3, <2>2 DEF Call, Goto
    <3> QED BY <1>2, <1>3, <3>1 DEF PlacedAt, InCall, Locals, Call, Idle, GetPlaces, SetPlaces, HashPlaces
  <2>3. CASE ~Merged
    <3>1. /\ pc'[t] = "feature"
          /\ my'[t] = [m EXCEPT !.call = call, !.code = OneCpuCode,
                                !.check = FirstCheck(call, OneCpuCode)]
      BY <1>1, <1>2, <1>3, <2>3 DEF Call, Goto
    <3> QED BY <1>2, <2>1, <3>1 DEF PlacedAt, InCall, Locals
  <2> QED BY <2>2, <2>3
<1>4. CASE GetCpuFeatures(t)
  <2>1. pc'[t] = "get" /\ my'[t] = [m EXCEPT !.call = "query", !.then = "queried"]
    BY <1>1, <1>2, <1>4 DEF GetCpuFeatures, Goto
  <2> QED BY <1>2, <1>4, <2>1 DEF PlacedAt, Locals, GetPlaces, GetCpuFeatures, Idle
<1>5. CASE SetCpuFeatures(t)
  <2>1. PICK r \in Requests :
           my' = [my EXCEPT ![t].call = "select", ![t].feats = r, ![t].then = "selected"]
    BY <1>5 DEF SetCpuFeatures
  <2>2. /\ pc'[t] = "set"
        /\ my'[t] = [m EXCEPT !.call = "select", !.feats = r, !.then = "selected"]
    BY <1>1, <1>2, <1>5, <2>1 DEF SetCpuFeatures, Goto
  <2> QED BY <1>2, <1>5, <2>2 DEF PlacedAt, Locals, SetPlaces, SetCpuFeatures, Idle
<1> QED BY <1>3, <1>4, <1>5 DEF Start

\* The steps in the library.
LEMMA PlacedRun ==
    ASSUME Typed, Placed, NEW t \in Threads, Run(t)
    PROVE  PlacedAt(pc'[t], my'[t])
<1>1. PICK m \in Locals : m = my[t]
  BY DEF Typed
<1>2. /\ pc \in [Threads -> Places] /\ my \in [Threads -> Locals]
      /\ PlacedAt(pc[t], m) /\ m.call \in Calls
  BY <1>1, LocalFields DEF Typed, Placed
<1>3. CASE Get(t) \/ CpuidFeatures(t) \/ CpuidMask(t)
  <2>1. /\ my'[t] = m \/ my'[t] = [m EXCEPT !.feats = cpFeatures]
        /\ pc[t] \in GetPlaces
        /\ \/ pc'[t] \in GetPlaces
           \/ pc'[t] = m.then
    BY <1>1, <1>2, <1>3 DEF Get, CpuidFeatures, CpuidMask, At, Goto, GetPlaces
  <2>2. /\ my'[t].call = m.call /\ my'[t].then = m.then /\ my'[t].check = m.check
        /\ my'[t].code = m.code
    BY <2>1 DEF Locals
  <2> QED BY <1>2, <2>1, <2>2
          DEF PlacedAt, InCall, GetPlaces, SetPlaces, HashPlaces, Calls
<1>4. CASE SetDetect(t) \/ SetDetectMask(t) \/ SetToIdx(t) \/ SetMask(t) \/ SetIndex(t) \/ SetRemask(t)
  <2>1. /\ my'[t].call = m.call /\ my'[t].then = m.then /\ my'[t].check = m.check
        /\ my'[t].code = m.code
    BY <1>1, <1>2, <1>4 DEF SetDetect, SetDetectMask, SetToIdx, SetMask, SetIndex, SetRemask, Locals
  <2>2. /\ pc[t] \in SetPlaces
        /\ pc'[t] \in SetPlaces \/ pc'[t] = m.then
    BY <1>1, <1>2, <1>4 DEF SetDetect, SetDetectMask, SetToIdx, SetMask, SetIndex, SetRemask,
                            At, Goto, SetPlaces
  <2> QED BY <1>2, <2>1, <2>2
          DEF PlacedAt, InCall, GetPlaces, SetPlaces, HashPlaces, Calls
<1>5. ASSUME Return(t) PROVE PlacedAt(pc'[t], my'[t])
  <2>1. pc'[t] = "idle" /\ my'[t] = NoLocals
    BY <1>2, <1>5 DEF Return, Goto
  <2> QED BY <2>1 DEF PlacedAt, NoLocals
<1>6. CASE Jump(t)
  <2>1. /\ FirstCheck(m.call, jumpIndex) \in {"hashSHA", "functions512", "functionsAES"}
        /\ jumpIndex \in Codes \/ jumpIndex = NoCode
        /\ FirstCheck(m.call, jumpIndex) = "functions512" => jumpIndex \in 2..4
    BY DEF FirstCheck, Codes, Typed, Index, NoCode
  <2>2. m.call \in {"gcm", "hash"}
    BY <1>2, <1>6 DEF Jump, At, PlacedAt, Calls, SetPlaces, GetPlaces
  <2>3. CASE jumpIndex = NoCode
    <3>1. pc'[t] = "get" /\ my'[t] = [m EXCEPT !.then = "init"]
      BY <1>1, <1>2, <1>6, <2>3 DEF Jump, Goto
    <3> QED BY <1>2, <1>6, <2>2, <3>1
            DEF PlacedAt, InCall, Locals, GetPlaces, SetPlaces, HashPlaces, Jump, At
  <2>4. CASE jumpIndex # NoCode
    <3>1. /\ pc'[t] = "feature"
          /\ my'[t] = [m EXCEPT !.code = jumpIndex, !.check = FirstCheck(m.call, jumpIndex)]
      BY <1>1, <1>2, <1>6, <2>4 DEF Jump, Goto
    <3> QED BY <1>2, <2>1, <2>2, <2>4, <3>1 DEF PlacedAt, InCall, Locals
  <2> QED BY <2>3, <2>4
<1>7. CASE InitSet(t)
  <2>1. pc'[t] = "set" /\ my'[t] = [m EXCEPT !.then = "jump"] /\ pc[t] = "init"
    BY <1>1, <1>2, <1>7 DEF InitSet, Goto, At
  <2> QED BY <1>2, <2>1 DEF PlacedAt, InCall, Locals, GetPlaces, SetPlaces, HashPlaces, Calls
<1>8. CASE Feature(t)
  <2>1. /\ pc[t] = "feature"
        /\ \/ pc'[t] = "test" /\ my'[t] = m
           \/ pc'[t] = "get" /\ my'[t] = [m EXCEPT !.then = "test"]
    BY <1>1, <1>2, <1>8 DEF Feature, Goto, At
  <2> QED BY <1>2, <2>1 DEF PlacedAt, InCall, Locals, GetPlaces, SetPlaces, HashPlaces, Calls
<1>9. CASE SetupFunctions(t) \/ Precompute(t)
  <2>1. /\ pc[t] = "test" /\ m.check # "none"
        /\ \/ Return(t)
           \/ \E k \in Checks \ {"none"} :
                 /\ CheckNext(t, k)
                 /\ k \in {"functions512", "table512"} => m.check = "functions512"
    BY <1>1, <1>9 DEF SetupFunctions, Precompute, Checks, At
  <2>2. ASSUME NEW k \in Checks \ {"none"}, CheckNext(t, k),
               k \in {"functions512", "table512"} => m.check = "functions512"
        PROVE  PlacedAt(pc'[t], my'[t])
    <3>1. pc'[t] = "feature" /\ my'[t] = [m EXCEPT !.check = k]
      BY <1>1, <1>2, <2>2 DEF CheckNext, Goto
    <3> QED BY <1>2, <2>1, <2>2, <3>1
            DEF PlacedAt, InCall, Locals, GetPlaces, SetPlaces, HashPlaces, Calls
  <2> QED BY <1>5, <2>1, <2>2
<1>10. CASE HashChoose(t) \/ HashInitialized(t) \/ HashFill(t)
  <2>1. /\ my'[t] = m
        /\ \/ pc[t] = "test" /\ m.check = "hashSHA"
           \/ pc[t] \in HashPlaces
        /\ pc'[t] \in HashPlaces
    BY <1>1, <1>2, <1>10 DEF HashChoose, HashInitialized, HashFill, Fill, Goto, At, HashPlaces
  <2> QED BY <1>2, <2>1 DEF PlacedAt, InCall, GetPlaces, SetPlaces, HashPlaces, Calls
<1>11. Selected(t) \/ Leave(t) => Return(t)
  BY DEF Selected, Leave
<1> QED BY <1>3, <1>4, <1>5, <1>6, <1>7, <1>8, <1>9, <1>10, <1>11 DEF Run, DispatcherStep

\* A selection has the library to itself.
Exclusive == \A t, u \in Threads : Selecting(u) /\ t # u => Idle(t)

\* Placed and Exclusive are preserved.
LEMMA PlacedNext ==
    ASSUME Typed, Placed, Exclusive, NEW t \in Threads, Start(t) \/ Run(t)
    PROVE  Placed' /\ Exclusive'
<1>1. PlacedAt(pc'[t], my'[t])
  BY PlacedStart, PlacedRun
<1>2. \A u \in Threads \ {t} : pc'[u] = pc[u] /\ my'[u] = my[u]
  BY OwnStep
<1>3. Placed'
  BY <1>1, <1>2 DEF Placed
<1>4. \A u \in Threads \ {t} : (Idle(u)' <=> Idle(u)) /\ (Selecting(u)' <=> Selecting(u))
  BY <1>2 DEF Idle, Selecting
<1>5. CASE Start(t)
  <2>1. ASSUME NEW call \in {"gcm", "hash"}, Call(t, call) PROVE my'[t].call = call /\ ~\E u \in Threads : Selecting(u)
    BY <2>1 DEF Call, Typed, Locals
  <2>2. GetCpuFeatures(t) => my'[t].call = "query" /\ ~\E u \in Threads : Selecting(u)
    BY DEF GetCpuFeatures, Typed, Locals
  <2>3. SetCpuFeatures(t) => \A u \in Threads : Idle(u)
    BY DEF SetCpuFeatures
  <2>4. \/ my'[t].call # "select" /\ ~\E u \in Threads : Selecting(u)
        \/ \A u \in Threads : Idle(u)
    BY <1>5, <2>1, <2>2, <2>3 DEF Start
  <2>5. ASSUME NEW u \in Threads, NEW v \in Threads, Selecting(u)', u # v PROVE Idle(v)'
    <3>1. CASE u = t
      BY <1>4, <2>4, <2>5, <3>1 DEF Selecting
    <3>2. CASE u # t
      BY <1>4, <2>4, <2>5, <3>2 DEF Selecting
    <3> QED BY <3>1, <3>2
  <2> QED BY <1>3, <2>5 DEF Exclusive
<1>6. CASE Run(t)
  <2>1. ~Idle(t)
    BY <1>6 DEF Run, DispatcherStep, Get, CpuidFeatures, CpuidMask, SetDetect, SetDetectMask,
                SetToIdx, SetMask, SetIndex, SetRemask, Selected, Jump, InitSet, Feature,
                SetupFunctions, Precompute, HashChoose, HashInitialized, HashFill, Fill, Leave,
                At, Idle
  <2>2. Selecting(t)' => Selecting(t)
    <3>0. PICK m \in Locals : m = my[t]
      BY DEF Typed
    <3>1. \/ my'[t].call = m.call
          \/ Return(t)
      <4>1. my \in [Threads -> Locals]
        BY DEF Typed
      <4>2. CASE DispatcherStep(t)
        BY <3>0, <4>1, <4>2
           DEF DispatcherStep, Get, CpuidFeatures, CpuidMask, SetDetect, SetDetectMask,
               SetToIdx, SetMask, SetIndex, SetRemask, Locals
      <4>3. CASE Jump(t) \/ InitSet(t) \/ Feature(t)
        BY <3>0, <4>1, <4>3 DEF Jump, InitSet, Feature, Locals
      <4>4. CASE SetupFunctions(t) \/ Precompute(t)
        BY <3>0, <4>1, <4>4 DEF SetupFunctions, Precompute, CheckNext, Locals
      <4>5. CASE Selected(t) \/ HashChoose(t) \/ HashInitialized(t) \/ HashFill(t) \/ Leave(t)
        BY <3>0, <4>5 DEF Selected, HashChoose, HashInitialized, HashFill, Leave
      <4> QED BY <1>6, <4>2, <4>3, <4>4, <4>5 DEF Run
    <3> QED BY <2>1, <3>0, <3>1 DEF Selecting, Return, NoLocals, Typed
  <2> QED BY <1>3, <1>4, <2>1, <2>2 DEF Exclusive
<1> QED BY <1>5, <1>6
-----------------------------------------------------------------------------
(* The invariant of where the threads are, and the first theorem.          *)

Located == Typed /\ Placed /\ Exclusive

\* It holds at the start.
LEMMA LocatedInit ==
    ASSUME Init
    PROVE  Located
<1>1. NoLocals \in Locals /\ hw \in Cpus
  BY ConstantTypes DEF Init
<1>2. pc \in [Threads -> Places] /\ my \in [Threads -> Locals]
  BY <1>1 DEF Init, Places
<1>3. gcm \in [Threads -> [functions : Functions, table : Functions]]
  BY DEF Init, EmptyGcm, Functions
<1>4. method \in [Codes -> Methods]
  BY DEF Init, EmptyMethod, Methods, Pointers
<1>5. chosen \in [idx : Index, mask : AnyFeatures]
  BY DEF Init, NoChoice, Index, AnyFeatures
<1>6. jumpIndex \in Index /\ cpFeatures \in SUBSET Features /\ cpFeaturesMask \in AnyFeatures
  BY DEF Init, Index, AnyFeatures
<1>7. Placed
  BY DEF Init, Placed, PlacedAt, NoLocals
<1>8. Exclusive
  BY DEF Init, Exclusive, Selecting, Idle
<1> QED BY <1>1, <1>2, <1>3, <1>4, <1>5, <1>6, <1>7, <1>8 DEF Located, Typed

\* It is preserved.
LEMMA LocatedNext ==
    ASSUME Located, [Next]_vars
    PROVE  Located'
<1>1. ASSUME NEW t \in Threads, Start(t) \/ Run(t), UNCHANGED hw PROVE Located'
  BY <1>1, StartTyped, RunTyped, PlacedNext DEF Located
<1>2. CASE UNCHANGED vars
  BY <1>2 DEF Located, vars, globals, Typed, Placed, Exclusive, Selecting, Idle
<1> QED BY <1>1, <1>2 DEF Next

\* The variables have their types.
LEMMA LocatedTypes ==
    ASSUME Located
    PROVE  TypeOK
<1>1. \A t \in Threads : my[t] \in Locals
  BY DEF Located, Typed
<1>2. \A t \in Threads :
          /\ my[t].call \in Calls
          /\ my[t].code \in Codes \cup {NoCode} /\ my[t].idx \in Codes \cup {NoCode}
          /\ my[t].feats \in AnyFeatures /\ my[t].copy \in SUBSET Features
  BY <1>1, LocalFields DEF Index
<1>3. \A c \in Codes : method[c].update \in {"null", "generic", "ni"}
  <2> SUFFICES ASSUME NEW c \in Codes PROVE method[c].update \in {"null", "generic", "ni"}
    OBVIOUS
  <2>1. method[c] \in Methods
    BY DEF Located, Typed
  <2> QED BY <2>1 DEF Methods
<1>4. chosen.idx \in Codes \cup {NoCode} /\ chosen.mask \in AnyFeatures
  BY DEF Located, Typed, Index
<1> QED BY <1>2, <1>3, <1>4 DEF Located, Typed, TypeOK, Index

\* In every behaviour of the threads the dispatcher's variables have their
\* types, and the features a thread compares never hold the NOCHECK bit.
THEOREM DispatcherTypeCorrect == Spec => []TypeOK
<1>1. Init => Located
  BY LocatedInit
<1>2. Located /\ [Next]_vars => Located'
  BY LocatedNext
<1>3. Located => TypeOK
  BY LocatedTypes
<1> QED BY <1>1, <1>2, <1>3, PTL DEF Spec

-----------------------------------------------------------------------------
(* The static hash methods.                                                *)

\* What a thread at p relies on in the method it fills or gives.
FilledAt(p, m) ==
    /\ p \in HashPlaces => m.update # "null"
    /\ p \in {"fillUpdate", "fillRest"} => "hashInit" \in m.filled
    /\ p \in {"fillDone", "given"} => m.filled = Pointers

Filled ==
    /\ \A c \in Codes : method[c].isInitialized => method[c].filled = Pointers
    /\ \A t \in Threads : my[t].check # "none" => FilledAt(pc[t], method[my[t].code])

Grows(c) ==
    /\ method[c].filled \subseteq method'[c].filled
    /\ method'[c].filled \subseteq Pointers
    /\ method[c].update # "null" => method'[c].update # "null"
    /\ method'[c].isInitialized => method'[c].filled = Pointers

\* A method gains pointers, its update function is never taken away, and it is
\* marked initialised only when it has all pointers.
LEMMA MethodGrows ==
    ASSUME Located, Filled, NEW t \in Threads, Start(t) \/ Run(t), NEW c \in Codes
    PROVE  Grows(c)
<1>1. PICK m \in Methods : m = method[c]
  BY DEF Located, Typed
<1>2. method \in [Codes -> Methods]
  BY DEF Located, Typed
<1>3. /\ m.filled \subseteq Pointers
      /\ m.isInitialized => m.filled = Pointers
  BY <1>1 DEF Filled, Methods
<1>4. CASE method'[c] = method[c]
  BY <1>1, <1>3, <1>4 DEF Grows
<1>5. ASSUME my[t].code # c, HashChoose(t) \/ HashFill(t) PROVE method'[c] = method[c]
  BY <1>2, <1>5 DEF HashChoose, HashFill, Fill, Change
<1>6. CASE HashChoose(t) /\ my[t].code = c
  <2>1. \/ method'[c] = [m EXCEPT !.update = "ni"]
        \/ method'[c] = [m EXCEPT !.update = "generic"]
    BY <1>1, <1>2, <1>6 DEF HashChoose, Change
  <2> QED BY <1>1, <1>3, <2>1 DEF Methods, Grows
<1>7. CASE HashFill(t) /\ my[t].code = c
  <2>1. \/ method'[c] = [m EXCEPT !.filled = m.filled \cup {"hashInit"}]
        \/ method'[c] = [m EXCEPT !.update = "generic"]
        \/ method'[c] = [m EXCEPT !.filled = m.filled \cup {"hashOctStr", "msgLenRep"}]
        \/ method'[c] = [m EXCEPT !.isInitialized = TRUE] /\ pc[t] = "fillDone"
    BY <1>1, <1>2, <1>7 DEF HashFill, Fill, Change, At
  <2>2. pc[t] = "fillDone" => m.filled = Pointers
    <3>1. pc[t] = "fillDone" => my[t].check # "none"
      BY LocalFields
         DEF Located, Typed, Placed, PlacedAt, InCall, Calls, GetPlaces, SetPlaces, HashPlaces
    <3> QED BY <1>1, <1>7, <3>1 DEF Filled, FilledAt
  <2> QED BY <1>1, <1>3, <2>1, <2>2 DEF Methods, Pointers, Grows
<1>8. method' = method \/ HashChoose(t) \/ HashFill(t)
  <2>1. CASE Start(t)
    BY <2>1 DEF Start, Call, GetCpuFeatures, SetCpuFeatures
  <2>2. CASE Run(t) /\ ~HashChoose(t) /\ ~HashFill(t)
    BY <2>2 DEF Run, Selected, Jump, InitSet, Feature, SetupFunctions, Precompute,
                HashInitialized, Leave
  <2> QED BY <2>1, <2>2
<1> QED BY <1>4, <1>5, <1>6, <1>7, <1>8

\* Filled is preserved.
LEMMA FilledNext ==
    ASSUME Located, Filled, NEW t \in Threads, Start(t) \/ Run(t), Located'
    PROVE  Filled'
<1>1. \A c \in Codes : method'[c].isInitialized => method'[c].filled = Pointers
  BY MethodGrows DEF Grows
<1>2. ASSUME NEW u \in Threads \ {t}, my'[u].check # "none"
      PROVE  FilledAt(pc'[u], method'[my'[u].code])
  <2>1. pc'[u] = pc[u] /\ my'[u] = my[u]
    BY OwnStep DEF Located
  <2>2. my[u].code \in Codes /\ FilledAt(pc[u], method[my[u].code])
    BY <1>2, <2>1 DEF Located, Placed, PlacedAt, Filled
  <2> QED BY <2>1, <2>2, MethodGrows DEF FilledAt, Grows
<1>3. ASSUME my'[t].check # "none"
      PROVE  FilledAt(pc'[t], method'[my'[t].code])
  <2>1. PICK m \in Locals : m = my[t]
    BY DEF Located, Typed
  <2>2. pc \in [Threads -> Places] /\ my \in [Threads -> Locals] /\ method \in [Codes -> Methods]
    BY DEF Located, Typed
  <2>3. CASE pc'[t] \notin HashPlaces
    BY <2>3 DEF FilledAt, HashPlaces
  <2>4. CASE pc'[t] \in HashPlaces
    <3>1. HashChoose(t) \/ HashInitialized(t) \/ HashFill(t)
      <4>1. ~Start(t)
        BY <2>2, <2>4 DEF Start, Call, GetCpuFeatures, SetCpuFeatures, Goto, HashPlaces
      <4>2. ~DispatcherStep(t)
        <5>1. m.then \in Thens
          BY <2>1, LocalFields
        <5> QED BY <2>1, <2>2, <2>4, <5>1
               DEF DispatcherStep, Get, CpuidFeatures, CpuidMask, SetDetect, SetDetectMask,
                   SetToIdx, SetMask, SetIndex, SetRemask, Goto, HashPlaces, Thens
      <4>3. ~Selected(t) /\ ~Jump(t) /\ ~InitSet(t) /\ ~Feature(t) /\ ~Leave(t)
        BY <2>2, <2>4 DEF Selected, Jump, InitSet, Feature, Leave, Return, Goto, HashPlaces
      <4>4. ~SetupFunctions(t) /\ ~Precompute(t)
        BY <2>2, <2>4 DEF SetupFunctions, Precompute, CheckNext, Return, Goto, HashPlaces
      <4> QED BY <4>1, <4>2, <4>3, <4>4 DEF Run
    <3>2. my' = my
      BY <3>1 DEF HashChoose, HashInitialized, HashFill
    <3>3. PICK c \in Codes : c = m.code
      BY <1>3, <2>1, <3>2 DEF Located, Placed, PlacedAt
    <3>4. PICK d \in Methods : d = method[c]
      BY <2>2
    <3>5. FilledAt(pc[t], d) /\ d.filled \subseteq Pointers
          /\ (d.isInitialized => d.filled = Pointers)
      BY <1>3, <2>1, <3>2, <3>3, <3>4 DEF Filled, Methods
    <3>6. CASE HashChoose(t)
      <4>1. /\ pc'[t] = "initialized"
            /\ \/ method'[c] = [d EXCEPT !.update = "ni"]
               \/ method'[c] = [d EXCEPT !.update = "generic"]
        BY <2>1, <2>2, <3>3, <3>4, <3>6 DEF HashChoose, Change, Goto
      <4> QED BY <2>1, <3>2, <3>3, <4>1 DEF FilledAt, Methods
    <3>7. CASE HashInitialized(t)
      <4>1. /\ method'[c] = d /\ pc[t] = "initialized"
            /\ pc'[t] = IF d.isInitialized THEN "given" ELSE "fillInit"
        BY <2>1, <2>2, <3>3, <3>4, <3>7 DEF HashInitialized, At, Goto
      <4> QED BY <2>1, <3>2, <3>3, <3>5, <4>1 DEF FilledAt, HashPlaces
    <3>8. CASE HashFill(t)
      <4>1. \/ /\ pc[t] = "fillInit" /\ pc'[t] = "fillUpdate"
               /\ method'[c] = [d EXCEPT !.filled = d.filled \cup {"hashInit"}]
            \/ /\ pc[t] = "fillUpdate" /\ pc'[t] = "fillRest"
               /\ method'[c] = [d EXCEPT !.update = "generic"]
            \/ /\ pc[t] = "fillRest" /\ pc'[t] = "fillDone"
               /\ method'[c] = [d EXCEPT !.filled = d.filled \cup {"hashOctStr", "msgLenRep"}]
            \/ /\ pc[t] = "fillDone" /\ pc'[t] = "given"
               /\ method'[c] = [d EXCEPT !.isInitialized = TRUE]
        BY <2>1, <2>2, <3>3, <3>4, <3>8 DEF HashFill, Fill, Change, At, Goto
      <4> QED BY <2>1, <3>2, <3>3, <3>5, <4>1 DEF FilledAt, HashPlaces, Methods, Pointers
    <3> QED BY <3>1, <3>6, <3>7, <3>8
  <2> QED BY <2>3, <2>4
<1> QED BY <1>1, <1>2, <1>3 DEF Filled

\* Whatever other threads do to the same static structure, a hash method that
\* is given to a caller has all its pointers.
THEOREM MethodAlwaysComplete == Spec => []MethodComplete
<1>1. Init => Located /\ Filled
  BY LocatedInit DEF Init, Filled, EmptyMethod, NoLocals
<1>2. Located /\ Filled /\ [Next]_vars => Located' /\ Filled'
  <2> SUFFICES ASSUME Located, Filled, [Next]_vars PROVE Filled'
    BY LocatedNext
  <2>1. CASE UNCHANGED vars
    BY <2>1 DEF vars, Filled
  <2>2. CASE Next
    BY <2>2, LocatedNext, FilledNext DEF Next
  <2> QED BY <2>1, <2>2
<1>3. Located /\ Filled => MethodComplete
  <2> SUFFICES ASSUME Located, Filled, NEW t \in Threads, At(t, "given")
               PROVE  /\ method[my[t].code].filled = Pointers
                      /\ method[my[t].code].update # "null"
    BY DEF MethodComplete, Pointers
  <2>1. my[t].check # "none"
    <3>1. PlacedAt("given", my[t]) /\ my[t].call \in Calls
      BY LocalFields DEF Located, Placed, Typed, At
    <3> QED BY <3>1 DEF PlacedAt, InCall, Calls, GetPlaces, SetPlaces, HashPlaces
  <2> QED BY <2>1 DEF Filled, FilledAt, At, HashPlaces
<1> QED BY <1>1, <1>2, <1>3, PTL DEF Spec
-----------------------------------------------------------------------------
(* What the CPU has.                                                       *)

\* CPUs build each extension on the one before it.
Layered ==
    \A c \in Cpus :
       /\ "MMX" \in c
       /\ "AVX2" \in c => "SSE42" \in c
       /\ "AVX512" \in c => "AVX2" \in c

\* The code of index i runs on a CPU with the features h.
RunsOn(i, h) == i # NoCode => Implied(i, {"SSE42"}) \cup RequiredOfOS(i) \subseteq h

\* What a thread with locals m and GCM context g holds, the CPU has.
Fits(m, g, h) ==
    /\ m.feats \ {"NOCHECK"} \subseteq h /\ m.copy \subseteq h
    /\ RunsOn(m.idx, h) /\ RunsOn(m.code, h)
    /\ UsedBy(g.functions) \subseteq h /\ UsedBy(g.table) \subseteq h

Shared(h) ==
    /\ cpFeatures \subseteq h /\ cpFeaturesMask \ {"NOCHECK"} \subseteq h
    /\ RunsOn(jumpIndex, h)
    /\ \A c \in Codes : UsedBy(method[c].update) \subseteq h

Available == "SSE42" \in hw => Shared(hw) /\ \A t \in Threads : Fits(my[t], gcm[t], hw)

\* The code chosen for features of a CPU that builds each extension on the one
\* before it runs on that CPU, and so do the extensions it takes for granted.
LEMMA ChosenRuns ==
    ASSUME Layered, NEW h \in Cpus,
           NEW feats \in SUBSET h, NEW known \in SUBSET h,
           NEW i \in Codes, i = FeaturesToIdx(feats, known)
    PROVE  Implied(i, feats) \subseteq h /\ ("SSE42" \in h => RunsOn(i, h))
<1>1. Required(i) \subseteq h /\ RequiredOfOS(i) \subseteq h
  BY IndexChosen
<1>2. "MMX" \in h
  BY DEF Layered
<1>3. /\ i > 0 => {"SSE42", "AVX2"} \subseteq h
      /\ i > 1 => "AVX512" \in h
      /\ i > 2 => {"IFMA", "SHA"} \subseteq h
      /\ i > 3 => "AVX10" \in h
  BY <1>1 DEF Required, Codes, Layered
<1>4. Implied(i, feats) \subseteq h /\ ("SSE42" \in h => Implied(i, {"SSE42"}) \subseteq h)
  BY <1>2, <1>3 DEF Implied, Codes
<1> QED BY <1>1, <1>4 DEF RunsOn

\* The calls of the application ask for nothing the CPU lacks.
LEMMA StartFits ==
    ASSUME Merged, Located, NEW t \in Threads, Start(t), NEW h, h = hw,
           Shared(h), Fits(my[t], gcm[t], h)
    PROVE  Shared(h)' /\ Fits(my'[t], gcm'[t], h)
<1>1. PICK m \in Locals : m = my[t]
  BY DEF Located, Typed
<1>2. my \in [Threads -> Locals]
  BY DEF Located, Typed
<1>3. UNCHANGED <<cpFeatures, cpFeaturesMask, jumpIndex, gcm, method>>
  BY DEF Start, Call, GetCpuFeatures, SetCpuFeatures, globals
<1>4. Shared(h)'
  BY <1>3 DEF Shared
<1>5. ASSUME NEW call, Call(t, call) PROVE Fits(my'[t], gcm'[t], h)
  <2>1. my'[t] = [m EXCEPT !.call = call]
    BY <1>1, <1>2, <1>5 DEF Call
  <2> QED BY <1>1, <1>3, <2>1 DEF Fits, Locals
<1>6. CASE GetCpuFeatures(t)
  <2>1. my'[t] = [m EXCEPT !.call = "query", !.then = "queried"]
    BY <1>1, <1>2, <1>6 DEF GetCpuFeatures
  <2> QED BY <1>1, <1>3, <1>4, <2>1 DEF Fits, Locals
<1>7. CASE SetCpuFeatures(t)
  <2>1. PICK r \in Requests :
           /\ r \ {"NOCHECK"} \subseteq hw
           /\ my' = [my EXCEPT ![t].call = "select", ![t].feats = r, ![t].then = "selected"]
    BY <1>7 DEF SetCpuFeatures
  <2>2. my'[t] = [m EXCEPT !.call = "select", !.feats = r, !.then = "selected"]
    BY <1>1, <1>2, <2>1
  <2>3. r \ {"NOCHECK"} \subseteq h
    BY <2>1
  <2>4. Fits(my'[t], gcm[t], h)
    BY <1>1, <2>2, <2>3 DEF Fits, Locals
  <2> QED BY <1>3, <1>4, <2>4
<1> QED BY <1>4, <1>5, <1>6, <1>7 DEF Start

\* The dispatcher's routines store nothing the CPU lacks.
LEMMA DispatcherFits ==
    ASSUME Layered, Located, NEW t \in Threads, DispatcherStep(t), UNCHANGED <<gcm, method>>,
           NEW h \in Cpus, h = hw, "SSE42" \in h, Shared(h), Fits(my[t], gcm[t], h)
    PROVE  Shared(h)' /\ Fits(my'[t], gcm'[t], h)
<1>1. PICK m \in Locals : m = my[t]
  BY DEF Located, Typed
<1>2. my \in [Threads -> Locals]
  BY DEF Located, Typed
<1>3. cpFeatures \subseteq h /\ cpFeatures \in SUBSET Features /\ h \in SUBSET Features
  BY ConstantTypes DEF Shared, Located, Typed
<1>4. \A f \in SUBSET Features : f \ {"NOCHECK"} = f
  BY DEF Features
<1>5. CASE Get(t)
  <2>1. my'[t] = m \/ my'[t] = [m EXCEPT !.feats = cpFeatures]
    BY <1>1, <1>2, <1>5 DEF Get
  <2>2. Fits(my'[t], gcm'[t], h)
    BY <1>1, <1>3, <2>1 DEF Fits, Locals
  <2> QED BY <1>5, <2>2 DEF Shared, Get, globals
<1>6. CASE CpuidFeatures(t)
  BY <1>6 DEF Shared, CpuidFeatures
<1>7. CASE CpuidMask(t)
  <2>1. my'[t] = [m EXCEPT !.feats = cpFeatures]
    BY <1>1, <1>2, <1>7 DEF CpuidMask
  <2>2. Fits(my'[t], gcm'[t], h)
    BY <1>1, <1>3, <2>1 DEF Fits, Locals
  <2> QED BY <1>7, <2>2 DEF Shared, CpuidMask
<1>8. CASE SetDetect(t)
  <2>1. my'[t] = [m EXCEPT !.copy = m.feats \ {"NOCHECK"}]
    BY <1>1, <1>2, <1>8 DEF SetDetect
  <2>2. Fits(my'[t], gcm'[t], h)
    BY <1>1, <2>1 DEF Fits, Locals
  <2>3. cpFeatures' \subseteq h /\ UNCHANGED <<cpFeaturesMask, jumpIndex>>
    BY <1>8 DEF SetDetect, Fits
  <2> QED BY <2>2, <2>3 DEF Shared
<1>9. CASE SetDetectMask(t)
  BY <1>9 DEF Shared, SetDetectMask
<1>10. CASE SetToIdx(t)
  <2>1. PICK i \in Codes : i = FeaturesToIdx(m.copy, cpFeatures)
    BY IndexChosen
  <2>2. m.copy \in SUBSET h
    BY <1>1 DEF Fits
  <2>3. RunsOn(i, h) /\ Implied(i, m.copy) \subseteq h
    <3>1. cpFeatures \in SUBSET h
      BY <1>3
    <3> QED BY <2>1, <2>2, <3>1, ChosenRuns
  <2>4. my'[t] = [m EXCEPT !.idx = i, !.copy = m.copy \cup Implied(i, m.copy)]
    BY <1>1, <1>2, <1>10, <2>1 DEF SetToIdx
  <2>5. Fits(my'[t], gcm'[t], h)
    BY <1>1, <2>2, <2>3, <2>4 DEF Fits, Locals
  <2> QED BY <1>10, <2>5 DEF Shared, SetToIdx, globals
<1>11. CASE SetMask(t)
  BY <1>11 DEF Shared, SetMask, Fits
<1>12. CASE SetIndex(t)
  BY <1>12 DEF Shared, SetIndex, Fits
<1>13. CASE SetRemask(t)
  BY <1>13 DEF Shared, SetRemask, Fits
<1> QED BY <1>5, <1>6, <1>7, <1>8, <1>9, <1>10, <1>11, <1>12, <1>13 DEF DispatcherStep

\* The entry points and the functions behind them choose nothing it lacks.
LEMMA RunFits ==
    ASSUME Layered, Located, NEW t \in Threads, Run(t),
           NEW h \in Cpus, h = hw, "SSE42" \in h, Shared(h), Fits(my[t], gcm[t], h)
    PROVE  Shared(h)' /\ Fits(my'[t], gcm'[t], h)
<1>1. PICK m \in Locals : m = my[t]
  BY DEF Located, Typed
<1>2. /\ my \in [Threads -> Locals] /\ method \in [Codes -> Methods]
      /\ gcm \in [Threads -> [functions : Functions, table : Functions]]
  BY DEF Located, Typed
<1>3. CASE DispatcherStep(t) /\ UNCHANGED <<gcm, method, chosen>>
  BY <1>3, DispatcherFits
<1>4. ASSUME Return(t) PROVE Fits(my'[t], gcm[t], h)
  <2>1. my'[t] = NoLocals
    BY <1>2, <1>4 DEF Return
  <2> QED BY <2>1 DEF Fits, NoLocals, RunsOn
<1>5. CASE Selected(t) \/ Leave(t)
  BY <1>4, <1>5 DEF Selected, Leave, Shared, globals
<1>6. CASE Jump(t)
  <2>1. \/ my'[t] = [m EXCEPT !.then = "init"]
        \/ \E k : my'[t] = [m EXCEPT !.code = jumpIndex, !.check = k]
    BY <1>1, <1>2, <1>6 DEF Jump
  <2>2. Fits(my'[t], gcm[t], h)
    BY <1>1, <2>1 DEF Fits, Locals, Shared
  <2> QED BY <1>6, <2>2 DEF Jump, Shared, globals
<1>7. CASE InitSet(t) \/ Feature(t)
  <2>1. my'[t] = m \/ \E k : my'[t] = [m EXCEPT !.then = k]
    BY <1>1, <1>2, <1>7 DEF InitSet, Feature
  <2>2. Fits(my'[t], gcm[t], h)
    BY <1>1, <2>1 DEF Fits, Locals
  <2> QED BY <1>7, <2>2 DEF InitSet, Feature, Shared, globals
<1>8. CASE SetupFunctions(t) \/ Precompute(t)
  <2>1. PICK g \in [functions : Functions, table : Functions] : g = gcm[t]
    BY <1>2
  <2>2. Enabled(t) => Wanted(m.check) \in h
    BY <1>1 DEF Enabled, Wanted, Shared
  <2>3. m.check \in {"functions512", "table512"} => "AVX512" \in h
    <3>1. m.check \in {"functions512", "table512"} => m.code \in 2..4
      BY <1>1 DEF Located, Placed, PlacedAt
    <3>2. RunsOn(m.code, h)
      BY <1>1 DEF Fits
    <3> QED BY <3>1, <3>2 DEF RunsOn, Implied, NoCode
  <2>4. UsedBy(g.functions) \subseteq h /\ UsedBy(g.table) \subseteq h
    BY <2>1 DEF Fits
  <2>5. UsedBy(gcm'[t].functions) \subseteq h /\ UsedBy(gcm'[t].table) \subseteq h
    <3>1. \/ gcm'[t] = g
          \/ gcm'[t] = [g EXCEPT !.functions = "table2K"]
          \/ gcm'[t] = [g EXCEPT !.functions = "avx"] /\ "AES" \in h
          \/ gcm'[t] = [g EXCEPT !.functions = "vaes"] /\ "AVX2VAES" \in h
          \/ gcm'[t] = [g EXCEPT !.functions = "vaes512"] /\ "IFMA" \in h
          \/ gcm'[t] = [g EXCEPT !.functions = "avx512"] /\ "AVX512" \in h
          \/ gcm'[t] = [g EXCEPT !.table = "table2K"]
          \/ gcm'[t] = [g EXCEPT !.table = "avx"] /\ "AES" \in h
          \/ gcm'[t] = [g EXCEPT !.table = "vaes"] /\ "AVX2VAES" \in h
          \/ gcm'[t] = [g EXCEPT !.table = "vaes512"] /\ "IFMA" \in h
          \/ gcm'[t] = [g EXCEPT !.table = "avx512"] /\ "AVX512" \in h
      <4>1. CASE SetupFunctions(t)
        BY <1>1, <1>2, <2>1, <2>2, <2>3, <4>1 DEF SetupFunctions, Wanted
      <4>2. CASE Precompute(t)
        BY <1>1, <1>2, <2>1, <2>2, <2>3, <4>2 DEF Precompute, Wanted
      <4> QED BY <1>8, <4>1, <4>2
    <3> QED BY <2>4, <3>1 DEF UsedBy
  <2>6. Return(t) \/ \E k : my'[t] = [m EXCEPT !.check = k]
    BY <1>1, <1>2, <1>8 DEF SetupFunctions, Precompute, CheckNext
  <2>7. Fits(my'[t], gcm[t], h)
    BY <1>1, <1>4, <2>6 DEF Fits, Locals
  <2> QED BY <1>8, <2>5, <2>7 DEF Fits, Shared, SetupFunctions, Precompute, globals
<1>9. CASE HashChoose(t) \/ HashInitialized(t) \/ HashFill(t)
  <2>1. \A c \in Codes : UsedBy(method'[c].update) \subseteq h
    <3> SUFFICES ASSUME NEW c \in Codes PROVE UsedBy(method'[c].update) \subseteq h
      OBVIOUS
    <3>1. PICK d \in Methods : d = method[c]
      BY <1>2
    <3>2. UsedBy(d.update) \subseteq h
      BY <3>1 DEF Shared
    <3>3. CASE HashChoose(t)
      <4>1. \/ method'[c] = d
            \/ method'[c] = [d EXCEPT !.update = "ni"] /\ "SHA" \in h
            \/ method'[c] = [d EXCEPT !.update = "generic"]
        BY <1>2, <3>1, <3>3 DEF HashChoose, Change, Enabled, Wanted, Shared
      <4> QED BY <3>2, <4>1 DEF Methods, UsedBy
    <3>4. CASE HashInitialized(t) \/ HashFill(t)
      <4>1. method'[c].update = d.update \/ method'[c].update = "generic"
        BY <1>2, <3>1, <3>4 DEF HashInitialized, HashFill, Fill, Change, Methods
      <4> QED BY <3>2, <4>1 DEF UsedBy
    <3> QED BY <1>9, <3>3, <3>4
  <2> QED BY <1>9, <2>1 DEF HashChoose, HashInitialized, HashFill, Shared, globals
<1> QED BY <1>3, <1>5, <1>6, <1>7, <1>8, <1>9 DEF Run

\* In the merged library, on CPUs that build each extension on the one before
\* it, whatever initialisations, selections and calls run at the same time,
\* neither the code a thread was sent to nor a function that a context or a
\* method keeps needs a feature that the CPU or the OS lacks.
THEOREM CodeAlwaysRuns == Merged /\ Layered => (Spec => []CodeRuns)
<1> SUFFICES ASSUME Merged, Layered PROVE Spec => []CodeRuns
  OBVIOUS
<1>1. Init => Located /\ Available
  BY LocatedInit
     DEF Init, Available, Shared, Fits, RunsOn, NoLocals, EmptyGcm, EmptyMethod, UsedBy
<1>2. Located /\ Available /\ [Next]_vars => Located' /\ Available'
  <2> SUFFICES ASSUME Located, Available, [Next]_vars PROVE Available'
    BY LocatedNext
  <2>1. CASE UNCHANGED vars
    BY <2>1 DEF vars, globals, Available, Shared, Fits
  <2>2. ASSUME NEW t \in Threads, Start(t) \/ Run(t), UNCHANGED hw PROVE Available'
    <3>1. PICK h \in Cpus : h = hw
      BY DEF Located, Typed
    <3> SUFFICES ASSUME "SSE42" \in h PROVE Shared(h)' /\ \A u \in Threads : Fits(my'[u], gcm'[u], h)
      BY <2>2, <3>1 DEF Available
    <3>2. Shared(h) /\ \A u \in Threads : Fits(my[u], gcm[u], h)
      BY <3>1 DEF Available
    <3>3. Shared(h)' /\ Fits(my'[t], gcm'[t], h)
      BY <2>2, <3>1, <3>2, StartFits, RunFits
    <3>4. \A u \in Threads \ {t} : my'[u] = my[u] /\ gcm'[u] = gcm[u]
      BY <2>2, OwnStep DEF Located
    <3> QED BY <3>2, <3>3, <3>4
  <2> QED BY <2>1, <2>2 DEF Next
<1>3. Located /\ Available => CodeRuns
  <2> SUFFICES ASSUME Located, Available, "SSE42" \in hw, NEW t \in Threads
               PROVE  /\ my[t].code # NoCode =>
                            /\ Implied(my[t].code, {"SSE42"}) \cup RequiredOfOS(my[t].code)
                                  \subseteq hw
                            /\ UsedBy(method[my[t].code].update) \subseteq hw
                      /\ UsedBy(gcm[t].functions) \cup UsedBy(gcm[t].table) \subseteq hw
    BY DEF CodeRuns
  <2>1. my[t].code \in Index
    BY LocalFields DEF Located, Typed
  <2> QED BY <2>1 DEF Available, Shared, Fits, RunsOn, Index
<1> QED BY <1>1, <1>2, <1>3, PTL DEF Spec
-----------------------------------------------------------------------------
(* A selection of the application stays in force.                          *)

Free == ~\E t \in Threads : Selecting(t)

\* How far a selection has come.
Underway ==
    \A t \in Threads : Selecting(t) =>
       /\ my[t].feats # {"NOCHECK"}
       /\ pc[t] # "set" => cpFeatures # {}
       /\ pc[t] \in {"mask", "index", "remask", "selected"} => my[t].idx \in Codes
       /\ pc[t] \in {"remask", "selected"} => jumpIndex = my[t].idx
       /\ pc[t] = "selected" => cpFeaturesMask = my[t].feats

\* Where no thread is any more once the application has selected.
Quiet(p, m) ==
    /\ p \notin SetPlaces \cup {"cpuid1", "cpuid2", "init"}
    /\ p = "get" => m.then # "init"

Decided ==
    chosen # NoChoice /\ Free =>
       /\ chosen.idx \in Codes /\ jumpIndex = chosen.idx /\ cpFeaturesMask = chosen.mask
       /\ cpFeatures # {}
       /\ \A t \in Threads : Quiet(pc[t], my[t])

\* The steps of a thread that selects.
LEMMA SelectionStep ==
    ASSUME Located, Underway, NEW t \in Threads, Selecting(t), Run(t), UNCHANGED hw, Located'
    PROVE  /\ \A u \in Threads \ {t} : Idle(u)'
           /\ \/ Selecting(t)' /\ UNCHANGED chosen
              \/ /\ Selected(t) /\ Idle(t)' /\ UNCHANGED globals
                 /\ pc[t] = "selected" /\ my[t].idx \in Codes
           /\ Underway'
<1>1. PICK m \in Locals : m = my[t]
  BY DEF Located, Typed
<1>2. pc \in [Threads -> Places] /\ my \in [Threads -> Locals] /\ m.call = "select"
  BY <1>1 DEF Located, Typed, Selecting
<1>3. pc[t] \in SetPlaces \cup {"selected"} /\ m.then = "selected"
  BY <1>1, <1>2 DEF Located, Placed, PlacedAt
<1>4. \A u \in Threads \ {t} : Idle(u)'
  BY OwnStep DEF Located, Exclusive, Idle
<1>5. \/ Selected(t)
      \/ SetDetect(t) /\ UNCHANGED chosen
      \/ SetDetectMask(t) /\ UNCHANGED chosen
      \/ SetToIdx(t) /\ UNCHANGED chosen
      \/ SetMask(t) /\ UNCHANGED chosen
      \/ SetIndex(t) /\ UNCHANGED chosen
      \/ SetRemask(t) /\ UNCHANGED chosen
  BY <1>3 DEF Run, DispatcherStep, Get, CpuidFeatures, CpuidMask, Jump, InitSet, Feature,
              SetupFunctions, Precompute, HashChoose, HashInitialized, HashFill, Fill, Leave,
              At, SetPlaces
<1>6. CASE Selected(t)
  <2>1. Idle(t)' /\ pc[t] = "selected"
    BY <1>2, <1>6 DEF Selected, Return, Goto, Idle, At
  <2>2. m.idx \in Codes
    BY <1>1, <2>1 DEF Underway
  <2> QED BY <1>1, <1>4, <1>6, <2>1, <2>2 DEF Selected, Underway, Selecting, Idle
<1>7. ASSUME pc'[t] # "idle", my'[t].call = "select", UNCHANGED chosen,
             my'[t].feats # {"NOCHECK"},
             pc'[t] # "set" => cpFeatures' # {},
             pc'[t] \in {"mask", "index", "remask", "selected"} => my'[t].idx \in Codes,
             pc'[t] \in {"remask", "selected"} => jumpIndex' = my'[t].idx,
             pc'[t] = "selected" => cpFeaturesMask' = my'[t].feats
      PROVE  Selecting(t)' /\ UNCHANGED chosen /\ Underway'
  BY <1>4, <1>7 DEF Selecting, Idle, Underway
<1>8. /\ m.feats # {"NOCHECK"}
      /\ pc[t] # "set" => cpFeatures # {}
      /\ pc[t] \in {"mask", "index", "remask", "selected"} => m.idx \in Codes
      /\ pc[t] \in {"remask", "selected"} => jumpIndex = m.idx
  BY <1>1 DEF Underway
<1>9. CASE SetDetect(t) /\ UNCHANGED chosen
  <2>1. /\ my'[t] = [m EXCEPT !.copy = m.feats \ {"NOCHECK"}]
        /\ pc'[t] \in {"toidx", "detect"}
    BY <1>1, <1>2, <1>9 DEF SetDetect, Goto
  <2>2. cpFeatures' # {}
    <3>1. CASE "NOCHECK" \in m.feats
      BY <1>1, <1>8, <1>9, <3>1 DEF SetDetect
    <3>2. CASE "NOCHECK" \notin m.feats
      BY <1>1, <1>9, <3>2, ConstantTypes DEF SetDetect, Located, Typed
    <3> QED BY <3>1, <3>2
  <2> QED BY <1>2, <1>4, <1>7, <1>8, <1>9, <2>1, <2>2 DEF Locals
<1>10. CASE SetDetectMask(t) /\ UNCHANGED chosen
  <2>1. my'[t] = m /\ pc[t] = "detect" /\ pc'[t] = "toidx" /\ cpFeatures' = cpFeatures
    BY <1>1, <1>2, <1>10 DEF SetDetectMask, Goto, At
  <2> QED BY <1>2, <1>4, <1>7, <1>8, <1>10, <2>1
<1>11. CASE SetToIdx(t) /\ UNCHANGED chosen
  <2>1. PICK i \in Codes : i = FeaturesToIdx(m.copy, cpFeatures)
    BY IndexChosen
  <2>2. /\ my'[t] = [m EXCEPT !.idx = i, !.copy = m.copy \cup Implied(i, m.copy)]
        /\ pc[t] = "toidx" /\ pc'[t] = "mask" /\ cpFeatures' = cpFeatures
    BY <1>1, <1>2, <1>11, <2>1 DEF SetToIdx, Goto, At, globals
  <2> QED BY <1>2, <1>4, <1>7, <1>8, <1>11, <2>2 DEF Locals
<1>12. CASE SetMask(t) /\ UNCHANGED chosen
  <2>1. my'[t] = m /\ pc[t] = "mask" /\ pc'[t] = "index" /\ cpFeatures' = cpFeatures
    BY <1>1, <1>2, <1>12 DEF SetMask, Goto, At
  <2> QED BY <1>2, <1>4, <1>7, <1>8, <1>12, <2>1
<1>13. CASE SetIndex(t) /\ UNCHANGED chosen
  <2>1. /\ my'[t] = m /\ pc[t] = "index" /\ pc'[t] = "remask" /\ cpFeatures' = cpFeatures
        /\ jumpIndex' = m.idx
    BY <1>1, <1>2, <1>13 DEF SetIndex, Goto, At
  <2> QED BY <1>2, <1>4, <1>7, <1>8, <1>13, <2>1
<1>14. CASE SetRemask(t) /\ UNCHANGED chosen
  <2>1. /\ my'[t] = m /\ pc[t] = "remask" /\ pc'[t] = "selected" /\ cpFeatures' = cpFeatures
        /\ jumpIndex' = jumpIndex /\ cpFeaturesMask' = m.feats
    BY <1>1, <1>2, <1>3, <1>14 DEF SetRemask, Goto, At
  <2> QED BY <1>2, <1>4, <1>7, <1>8, <1>14, <2>1
<1> QED BY <1>4, <1>5, <1>6, <1>9, <1>10, <1>11, <1>12, <1>13, <1>14

\* While nobody selects, a step begins a selection or leaves it that way.
LEMMA FreeStep ==
    ASSUME Located, Free, NEW t \in Threads, Start(t) \/ Run(t), Located'
    PROVE  /\ UNCHANGED chosen
           /\ \/ SetCpuFeatures(t) /\ Selecting(t)' /\ pc'[t] = "set" /\ my'[t].feats \in Requests
              \/ Free' /\ ~SetCpuFeatures(t)
<1>1. PICK m \in Locals : m = my[t]
  BY DEF Located, Typed
<1>2. pc \in [Threads -> Places] /\ my \in [Threads -> Locals]
  BY DEF Located, Typed
<1>3. ~Selected(t)
  <2>1. PlacedAt(pc[t], m) /\ m.call \in Calls
    BY <1>1, LocalFields DEF Located, Placed
  <2>2. pc[t] # "selected"
    BY <1>1, <2>1 DEF Free, Selecting, Idle, PlacedAt, InCall, Calls, GetPlaces, SetPlaces, HashPlaces
  <2> QED BY <2>2 DEF Selected, At
<1>4. UNCHANGED chosen
  <2>1. CASE Start(t)
    BY <2>1 DEF Start, Call, GetCpuFeatures, SetCpuFeatures
  <2>2. CASE Run(t)
    BY <1>3, <2>2 DEF Run, Jump, InitSet, Feature, SetupFunctions, Precompute, HashChoose,
                      HashInitialized, HashFill, Leave
  <2> QED BY <2>1, <2>2
<1>5. CASE SetCpuFeatures(t)
  <2>1. PICK r \in Requests :
           my' = [my EXCEPT ![t].call = "select", ![t].feats = r, ![t].then = "selected"]
    BY <1>5 DEF SetCpuFeatures
  <2>2. /\ pc'[t] = "set"
        /\ my'[t] = [m EXCEPT !.call = "select", !.feats = r, !.then = "selected"]
    BY <1>1, <1>2, <1>5, <2>1 DEF SetCpuFeatures, Goto
  <2> QED BY <1>4, <1>5, <2>2 DEF Locals, Selecting, Idle
<1>6. CASE ~SetCpuFeatures(t)
  <2>1. my'[t].call # "select" \/ Idle(t)'
    <3>1. CASE Start(t)
      <4>1. ASSUME NEW call \in {"gcm", "hash"}, Call(t, call) PROVE my'[t].call = call
        BY <1>1, <1>2, <4>1 DEF Call, Locals
      <4>2. GetCpuFeatures(t) => my'[t].call = "query"
        BY <1>1, <1>2 DEF GetCpuFeatures, Locals
      <4> QED BY <1>6, <3>1, <4>1, <4>2 DEF Start
    <3>2. CASE Run(t)
      <4>1. m.call # "select"
        <5>1. ~Idle(t)
          BY <3>2 DEF Run, DispatcherStep, Get, CpuidFeatures, CpuidMask, SetDetect,
                      SetDetectMask, SetToIdx, SetMask, SetIndex, SetRemask, Selected, Jump,
                      InitSet, Feature, SetupFunctions, Precompute, HashChoose,
                      HashInitialized, HashFill, Fill, Leave, At, Idle
        <5> QED BY <1>1, <5>1 DEF Free, Selecting
      <4>2. CASE DispatcherStep(t)
        <5>1. my'[t].call = m.call
          BY <1>1, <1>2, <4>2
             DEF DispatcherStep, Get, CpuidFeatures, CpuidMask, SetDetect, SetDetectMask,
                 SetToIdx, SetMask, SetIndex, SetRemask, Locals
        <5> QED BY <4>1, <5>1
      <4>3. CASE Jump(t) \/ InitSet(t) \/ Feature(t)
        BY <1>1, <1>2, <4>1, <4>3 DEF Jump, InitSet, Feature, Locals
      <4>4. ASSUME Return(t) PROVE Idle(t)'
        BY <1>2, <4>4 DEF Return, Goto, Idle
      <4>5. CASE SetupFunctions(t) \/ Precompute(t)
        BY <1>1, <1>2, <4>1, <4>4, <4>5 DEF SetupFunctions, Precompute, CheckNext, Locals
      <4>6. CASE HashChoose(t) \/ HashInitialized(t) \/ HashFill(t) \/ Leave(t)
        BY <1>1, <4>1, <4>4, <4>6 DEF HashChoose, HashInitialized, HashFill, Leave
      <4> QED BY <1>3, <3>2, <4>2, <4>3, <4>5, <4>6 DEF Run
    <3> QED BY <3>1, <3>2
  <2>2. ~Selecting(t)'
    BY <2>1 DEF Selecting
  <2>3. \A u \in Threads \ {t} : ~Selecting(u)'
    BY OwnStep DEF Located, Free, Selecting, Idle
  <2> QED BY <1>4, <1>6, <2>2, <2>3 DEF Free
<1> QED BY <1>5, <1>6

\* Once the application has selected, no step of a call changes the selection.
LEMMA DecidedStep ==
    ASSUME Located, Free, NEW t \in Threads, Start(t) \/ Run(t), ~SetCpuFeatures(t),
           cpFeatures # {}, jumpIndex \in Codes, Quiet(pc[t], my[t])
    PROVE  UNCHANGED globals /\ Quiet(pc'[t], my'[t])
<1>1. PICK m \in Locals : m = my[t]
  BY DEF Located, Typed
<1>2. /\ pc \in [Threads -> Places] /\ my \in [Threads -> Locals]
      /\ PlacedAt(pc[t], m) /\ m.call \in Calls /\ (m.call # "select" \/ pc[t] = "idle")
  BY <1>1, LocalFields DEF Located, Typed, Placed, Free, Selecting, Idle
<1>3. CASE Start(t)
  <2>1. UNCHANGED globals /\ pc'[t] \in {"jump", "feature", "get"}
    BY <1>2, <1>3 DEF Start, Call, GetCpuFeatures, Goto
  <2>2. pc'[t] = "get" => my'[t].then = "queried"
    <3>1. CASE GetCpuFeatures(t)
      <4>1. my'[t] = [m EXCEPT !.call = "query", !.then = "queried"]
        BY <1>1, <1>2, <3>1 DEF GetCpuFeatures
      <4> QED BY <4>1 DEF Locals
    <3>2. ASSUME NEW call, Call(t, call) PROVE pc'[t] # "get"
      BY <1>2, <3>2 DEF Call, Goto
    <3> QED BY <1>3, <3>1, <3>2 DEF Start
  <2> QED BY <2>1, <2>2 DEF Quiet, SetPlaces
<1>4. CASE DispatcherStep(t)
  <2>1. Get(t)
    BY <1>1, <1>4 DEF Quiet, DispatcherStep, CpuidFeatures, CpuidMask, SetDetect,
                      SetDetectMask, SetToIdx, SetMask, SetIndex, SetRemask, At, SetPlaces
  <2>2. UNCHANGED globals /\ pc[t] = "get" /\ pc'[t] = m.then
    BY <1>1, <1>2, <2>1 DEF Get, Goto, At
  <2>3. m.then \in {"queried", "test"}
    BY <1>1, <1>2, <2>2
       DEF Quiet, PlacedAt, InCall, Calls, GetPlaces, SetPlaces, HashPlaces
  <2> QED BY <2>2, <2>3 DEF Quiet, SetPlaces
<1>5. CASE Run(t) /\ ~DispatcherStep(t)
  <2>1. UNCHANGED globals
    BY <1>5 DEF Run, Selected, Jump, InitSet, Feature, SetupFunctions, Precompute,
                HashChoose, HashInitialized, HashFill, Leave
  <2>2. ~InitSet(t)
    BY <1>1 DEF Quiet, InitSet, At
  <2>3. CASE Feature(t)
    <3>1. CASE cpFeaturesMask = {}
      <4>1. pc'[t] = "get" /\ my'[t] = [m EXCEPT !.then = "test"]
        BY <1>1, <1>2, <2>3, <3>1 DEF Feature, Goto
      <4> QED BY <2>1, <4>1 DEF Quiet, SetPlaces, Locals
    <3>2. CASE cpFeaturesMask # {}
      <4>1. pc'[t] = "test"
        BY <1>2, <2>3, <3>2 DEF Feature, Goto
      <4> QED BY <2>1, <4>1 DEF Quiet, SetPlaces
    <3> QED BY <3>1, <3>2
  <2>4. CASE Jump(t)
    <3>1. pc'[t] = "feature"
      BY <1>2, <2>4 DEF Jump, Goto, NoCode, Codes
    <3> QED BY <2>1, <3>1 DEF Quiet, SetPlaces
  <2>5. CASE Selected(t) \/ SetupFunctions(t) \/ Precompute(t) \/ Leave(t)
    <3>1. pc'[t] \in {"idle", "feature"}
      BY <1>2, <2>5 DEF Selected, SetupFunctions, Precompute, Leave, Return, CheckNext, Goto
    <3> QED BY <2>1, <3>1 DEF Quiet, SetPlaces
  <2>6. CASE HashChoose(t) \/ HashInitialized(t) \/ HashFill(t)
    <3>1. pc'[t] \in HashPlaces
      BY <1>2, <2>6 DEF HashChoose, HashInitialized, HashFill, Fill, Goto, HashPlaces
    <3> QED BY <2>1, <3>1 DEF Quiet, SetPlaces, HashPlaces
  <2> QED BY <1>5, <2>2, <2>3, <2>4, <2>5, <2>6 DEF Run
<1> QED BY <1>3, <1>4, <1>5

\* Underway and Decided are preserved.
LEMMA SelectionNext ==
    ASSUME {"NOCHECK"} \notin Requests, Located, Underway, Decided, Located',
           NEW t \in Threads, Start(t) \/ Run(t), UNCHANGED hw
    PROVE  Underway' /\ Decided'
<1>1. CASE Selecting(t)
  <2>1. Run(t)
    BY <1>1 DEF Start, Call, GetCpuFeatures, SetCpuFeatures, Selecting, Idle
  <2>2. /\ \A u \in Threads \ {t} : Idle(u)'
        /\ \/ Selecting(t)' /\ UNCHANGED chosen
           \/ /\ Selected(t) /\ Idle(t)' /\ UNCHANGED globals
              /\ pc[t] = "selected" /\ my[t].idx \in Codes
        /\ Underway'
    BY <1>1, <2>1, SelectionStep
  <2>3. CASE Selecting(t)'
    BY <2>2, <2>3 DEF Decided, Free
  <2>4. CASE Selected(t) /\ Idle(t)' /\ UNCHANGED globals /\ pc[t] = "selected" /\ my[t].idx \in Codes
    <3>1. chosen' = [idx |-> my[t].idx, mask |-> my[t].feats]
      BY <2>4 DEF Selected
    <3>2. /\ jumpIndex' = my[t].idx /\ cpFeaturesMask' = my[t].feats /\ cpFeatures' # {}
      BY <1>1, <2>4 DEF Underway, globals
    <3>3. \A u \in Threads : Quiet(pc'[u], my'[u])
      BY <2>2, <2>4 DEF Idle, Quiet, SetPlaces
    <3> QED BY <2>2, <2>4, <3>1, <3>2, <3>3 DEF Decided
  <2> QED BY <2>2, <2>3, <2>4
<1>2. CASE ~Selecting(t) /\ ~Free
  <2>1. PICK u \in Threads : Selecting(u)
    BY <1>2 DEF Free
  <2>2. Idle(t) /\ ~Idle(u)
    BY <1>2, <2>1 DEF Located, Exclusive, Selecting
  <2>3. ~Run(t)
    BY <2>2 DEF Run, DispatcherStep, Get, CpuidFeatures, CpuidMask, SetDetect, SetDetectMask,
                SetToIdx, SetMask, SetIndex, SetRemask, Selected, Jump, InitSet, Feature,
                SetupFunctions, Precompute, HashChoose, HashInitialized, HashFill, Fill, Leave,
                At, Idle
  <2> QED BY <2>1, <2>2, <2>3 DEF Start, Call, GetCpuFeatures, SetCpuFeatures
<1>3. CASE Free
  <2>1. CASE SetCpuFeatures(t)
    <3>1. Selecting(t)' /\ pc'[t] = "set" /\ my'[t].feats \in Requests
      BY <1>3, <2>1, FreeStep
    <3>2. \A u \in Threads \ {t} : ~Selecting(u)'
      BY <1>3, OwnStep DEF Located, Free, Selecting, Idle
    <3> QED BY <3>1, <3>2 DEF Underway, Decided, Free
  <2>2. CASE ~SetCpuFeatures(t)
    <3>1. Free' /\ UNCHANGED chosen
      BY <1>3, <2>2, FreeStep
    <3>2. Underway'
      BY <3>1 DEF Underway, Free
    <3>3. CASE chosen # NoChoice
      <4>1. /\ chosen.idx \in Codes /\ jumpIndex = chosen.idx /\ cpFeaturesMask = chosen.mask
            /\ cpFeatures # {}
            /\ \A u \in Threads : Quiet(pc[u], my[u])
        BY <1>3, <3>3 DEF Decided
      <4>2. UNCHANGED globals /\ Quiet(pc'[t], my'[t])
        BY <1>3, <2>2, <4>1, DecidedStep
      <4>3. \A u \in Threads \ {t} : pc'[u] = pc[u] /\ my'[u] = my[u]
        BY OwnStep DEF Located
      <4> QED BY <3>1, <3>2, <4>1, <4>2, <4>3 DEF Decided, globals
    <3>4. CASE chosen = NoChoice
      BY <3>1, <3>2, <3>4 DEF Decided
    <3> QED BY <3>3, <3>4
  <2> QED BY <2>1, <2>2
<1> QED BY <1>1, <1>2, <1>3

\* If the application never asks for no features at all, what it last chose
\* stays in force until it chooses again, whatever the threads call meanwhile.
THEOREM SelectionStaysInForce == {"NOCHECK"} \notin Requests => (Spec => []SelectionInForce)
<1> SUFFICES ASSUME {"NOCHECK"} \notin Requests PROVE Spec => []SelectionInForce
  OBVIOUS
<1>1. Init => Located /\ Underway /\ Decided
  BY LocatedInit DEF Init, Underway, Decided, Selecting, Idle
<1>2. Located /\ Underway /\ Decided /\ [Next]_vars => Located' /\ Underway' /\ Decided'
  <2> SUFFICES ASSUME Located, Underway, Decided, [Next]_vars PROVE Underway' /\ Decided'
    BY LocatedNext
  <2>1. CASE UNCHANGED vars
    BY <2>1 DEF vars, globals, Underway, Decided, Selecting, Idle, Free
  <2>2. CASE Next
    BY <2>2, LocatedNext, SelectionNext DEF Next
  <2> QED BY <2>1, <2>2
<1>3. Decided => SelectionInForce
  BY DEF Decided, SelectionInForce, Free
<1> QED BY <1>1, <1>2, <1>3, PTL DEF Spec
-----------------------------------------------------------------------------
(* The functions of a GCM context and its table.                           *)

\* A thread with locals m at p, before the application has selected, when the
\* CPU's features are h.
InitAt(p, m, features, mask, index, h) ==
    /\ p = "cpuid2" => features = h
    /\ p \in SetPlaces \cup {"init"} => m.feats = h
    /\ p \in {"detect", "toidx", "mask"} => m.copy = h
    /\ p \in {"mask", "index"} => m.idx # NoCode
    /\ p \in {"index", "remask"} => mask = h
    /\ m.check # "none" => index # NoCode

Untouched ==
    chosen = NoChoice /\ Free =>
       /\ cpFeatures \in {{}, hw} /\ cpFeaturesMask \in {{}, hw}
       /\ jumpIndex # NoCode => cpFeaturesMask = hw
       /\ \A t \in Threads :
             InitAt(pc[t], my[t], cpFeatures, cpFeaturesMask, jumpIndex, hw)

\* What a step does to the globals before the application has selected.
Settles(h) ==
    /\ cpFeatures' = cpFeatures \/ cpFeatures' = h
    /\ cpFeaturesMask' = cpFeaturesMask \/ cpFeaturesMask' = h
    /\ jumpIndex # NoCode => jumpIndex' # NoCode
    /\ jumpIndex' # NoCode => cpFeaturesMask' = h

\* The first initialisations, however many run at the same time, all store the
\* features of the CPU.
LEMMA UntouchedStep ==
    ASSUME Merged, Layered, Located, Free, NEW t \in Threads, Start(t) \/ Run(t),
           ~SetCpuFeatures(t), NEW h \in Cpus,
           cpFeatures \in {{}, h}, cpFeaturesMask \in {{}, h},
           jumpIndex # NoCode => cpFeaturesMask = h, hw = h,
           InitAt(pc[t], my[t], cpFeatures, cpFeaturesMask, jumpIndex, h)
    PROVE  /\ Settles(h)
           /\ InitAt(pc'[t], my'[t], cpFeatures', cpFeaturesMask', jumpIndex', h)
<1>1. PICK m \in Locals : m = my[t]
  BY DEF Located, Typed
<1>2. /\ pc \in [Threads -> Places] /\ my \in [Threads -> Locals]
      /\ PlacedAt(pc[t], m) /\ m.call \in Calls /\ (m.call # "select" \/ pc[t] = "idle")
  BY <1>1, LocalFields DEF Located, Typed, Placed, Free, Selecting, Idle
<1>3. h # {} /\ h \in SUBSET Features /\ h \ {"NOCHECK"} = h /\ "NOCHECK" \notin h
  BY ConstantTypes DEF Features
<1>4. InitAt(pc[t], m, cpFeatures, cpFeaturesMask, jumpIndex, h)
  BY <1>1
<1>5. /\ pc[t] \in SetPlaces => m.then = "jump" /\ m.check = "none"
      /\ pc[t] \in {"get", "cpuid2"} => m.then \in {"init", "queried", "test"}
  BY <1>2 DEF PlacedAt, InCall, Calls, GetPlaces, SetPlaces, HashPlaces
<1>6. ASSUME UNCHANGED globals, my'[t].check # "none" => jumpIndex # NoCode,
             pc'[t] \notin SetPlaces \cup {"cpuid2", "init"}
      PROVE  /\ Settles(h)
             /\ InitAt(pc'[t], my'[t], cpFeatures', cpFeaturesMask', jumpIndex', h)
  BY <1>6 DEF globals, Settles, InitAt, SetPlaces
<1>7. CASE Start(t)
  <2>1. UNCHANGED globals /\ pc'[t] \in {"jump", "get"}
    BY <1>2, <1>7 DEF Start, Call, GetCpuFeatures, Goto
  <2>2. my'[t].check = m.check
    <3>1. CASE GetCpuFeatures(t)
      BY <1>1, <1>2, <3>1 DEF GetCpuFeatures, Locals
    <3>2. ASSUME NEW call, Call(t, call) PROVE my'[t].check = m.check
      BY <1>1, <1>2, <3>2 DEF Call, Locals
    <3> QED BY <1>7, <3>1, <3>2 DEF Start
  <2> QED BY <1>4, <1>6, <2>1, <2>2 DEF SetPlaces, InitAt
<1>8. CASE Get(t)
  <2>1. /\ UNCHANGED globals /\ pc[t] = "get"
        /\ \/ pc'[t] = "cpuid1" /\ my'[t] = m
           \/ /\ pc'[t] = m.then /\ my'[t] = [m EXCEPT !.feats = cpFeatures]
              /\ cpFeatures # {}
    BY <1>1, <1>2, <1>8 DEF Get, Goto, At
  <2>2. CASE pc'[t] = "cpuid1" /\ my'[t] = m
    BY <1>4, <1>6, <2>1, <2>2 DEF SetPlaces, InitAt
  <2>3. CASE /\ pc'[t] = m.then /\ my'[t] = [m EXCEPT !.feats = cpFeatures]
             /\ cpFeatures # {}
    <3>1. my'[t].feats = h /\ my'[t].check = m.check
      BY <2>3 DEF Locals
    <3> QED BY <1>4, <1>5, <2>1, <2>3, <3>1 DEF globals, Settles, InitAt, SetPlaces
  <2> QED BY <2>1, <2>2, <2>3
<1>9. CASE CpuidFeatures(t)
  <2>1. /\ cpFeatures' = h /\ cpFeaturesMask' = cpFeaturesMask /\ jumpIndex' = jumpIndex
        /\ pc'[t] = "cpuid2" /\ my'[t] = m
    BY <1>1, <1>2, <1>9 DEF CpuidFeatures, Goto
  <2> QED BY <1>4, <2>1 DEF Settles, InitAt, SetPlaces
<1>10. CASE CpuidMask(t)
  <2>1. /\ cpFeaturesMask' = h /\ cpFeatures' = cpFeatures /\ jumpIndex' = jumpIndex
        /\ pc[t] = "cpuid2" /\ pc'[t] = m.then /\ my'[t] = [m EXCEPT !.feats = cpFeatures]
    BY <1>1, <1>2, <1>10 DEF CpuidMask, Goto, At
  <2>2. my'[t].feats = h /\ my'[t].check = m.check
    BY <1>4, <2>1 DEF Locals, InitAt
  <2> QED BY <1>4, <1>5, <2>1, <2>2 DEF Settles, InitAt, SetPlaces
<1>11. CASE SetDetect(t)
  <2>1. m.feats = h /\ m.check = "none"
    BY <1>4, <1>5, <1>11 DEF InitAt, SetDetect, At, SetPlaces
  <2>2. /\ cpFeatures' = h /\ cpFeaturesMask' = cpFeaturesMask /\ jumpIndex' = jumpIndex
        /\ pc'[t] = "detect" /\ my'[t] = [m EXCEPT !.copy = h]
    BY <1>1, <1>2, <1>3, <1>11, <2>1 DEF SetDetect, Goto
  <2> QED BY <2>1, <2>2 DEF Settles, InitAt, SetPlaces, Locals
<1>12. CASE SetDetectMask(t)
  <2>1. /\ cpFeaturesMask' = h /\ cpFeatures' = cpFeatures /\ jumpIndex' = jumpIndex
        /\ pc[t] = "detect" /\ pc'[t] = "toidx" /\ my'[t] = m
    BY <1>1, <1>2, <1>12 DEF SetDetectMask, Goto, At
  <2> QED BY <1>4, <1>5, <2>1 DEF Settles, InitAt, SetPlaces
<1>13. CASE SetToIdx(t)
  <2>1. pc[t] = "toidx" /\ m.copy = h /\ m.feats = h
    BY <1>1, <1>4, <1>13 DEF SetToIdx, At, InitAt, SetPlaces
  <2>2. PICK i \in Codes : i = FeaturesToIdx(h, cpFeatures)
    BY IndexChosen
  <2>3. Implied(i, h) \subseteq h
    <3>1. h \in SUBSET h /\ cpFeatures \in SUBSET h
      OBVIOUS
    <3> QED BY <2>2, <3>1, ChosenRuns
  <2>4. my'[t] = [m EXCEPT !.idx = i, !.copy = h \cup Implied(i, h)]
    BY <1>1, <1>2, <1>13, <2>1, <2>2 DEF SetToIdx
  <2>5. /\ my'[t].idx # NoCode /\ my'[t].copy = h /\ my'[t].feats = h
        /\ my'[t].check = m.check
    BY <2>1, <2>3, <2>4 DEF Locals, Codes, NoCode
  <2>6. UNCHANGED globals /\ pc'[t] = "mask"
    BY <1>2, <1>13 DEF SetToIdx, Goto
  <2> QED BY <1>4, <2>5, <2>6 DEF globals, Settles, InitAt, SetPlaces
<1>14. CASE SetMask(t)
  <2>1. /\ cpFeaturesMask' = h /\ cpFeatures' = cpFeatures /\ jumpIndex' = jumpIndex
        /\ pc[t] = "mask" /\ pc'[t] = "index" /\ my'[t] = m
    BY <1>1, <1>2, <1>4, <1>14 DEF SetMask, Goto, At, InitAt
  <2> QED BY <1>4, <2>1 DEF Settles, InitAt, SetPlaces
<1>15. CASE SetIndex(t)
  <2>1. /\ cpFeaturesMask' = h /\ cpFeaturesMask = h /\ cpFeatures' = cpFeatures
        /\ jumpIndex' = m.idx /\ m.idx # NoCode
        /\ pc[t] = "index" /\ pc'[t] = "remask" /\ my'[t] = m
    BY <1>1, <1>2, <1>4, <1>15 DEF SetIndex, Goto, At, InitAt
  <2> QED BY <1>4, <2>1 DEF Settles, InitAt, SetPlaces
<1>16. CASE SetRemask(t)
  <2>1. /\ cpFeaturesMask' = h /\ cpFeatures' = cpFeatures /\ jumpIndex' = jumpIndex
        /\ pc[t] = "remask" /\ pc'[t] = m.then /\ my'[t] = m
    BY <1>1, <1>2, <1>4, <1>16 DEF SetRemask, Goto, At, InitAt, SetPlaces
  <2> QED BY <1>4, <1>5, <2>1 DEF Settles, InitAt, SetPlaces
<1>17. CASE InitSet(t)
  <2>1. /\ UNCHANGED globals /\ pc[t] = "init" /\ pc'[t] = "set"
        /\ my'[t] = [m EXCEPT !.then = "jump"]
    BY <1>1, <1>2, <1>17 DEF InitSet, Goto, At
  <2> QED BY <1>4, <2>1 DEF globals, Settles, InitAt, SetPlaces, Locals
<1>18. CASE Jump(t)
  <2>1. /\ UNCHANGED globals
        /\ \/ pc'[t] = "get" /\ my'[t] = [m EXCEPT !.then = "init"]
           \/ pc'[t] = "feature" /\ jumpIndex # NoCode
    BY <1>1, <1>2, <1>18 DEF Jump, Goto
  <2> QED BY <1>4, <1>6, <2>1 DEF SetPlaces, Locals, InitAt
<1>19. CASE Feature(t)
  <2>1. UNCHANGED globals /\ pc'[t] \in {"test", "get"}
    BY <1>2, <1>19 DEF Feature, Goto
  <2>2. my'[t].check = m.check
    BY <1>1, <1>2, <1>19 DEF Feature, Locals
  <2> QED BY <1>4, <1>6, <2>1, <2>2 DEF SetPlaces, InitAt
<1>20. CASE SetupFunctions(t) \/ Precompute(t) \/ Selected(t) \/ Leave(t)
  <2>1. UNCHANGED globals /\ pc'[t] \in {"idle", "feature"}
    BY <1>2, <1>20 DEF SetupFunctions, Precompute, Selected, Leave, CheckNext, Return, Goto
  <2>2. m.check # "none" \/ my'[t] = NoLocals
    BY <1>1, <1>2, <1>20 DEF SetupFunctions, Precompute, Selected, Leave, Return
  <2> QED BY <1>4, <1>6, <2>1, <2>2 DEF SetPlaces, InitAt, NoLocals
<1>21. CASE HashChoose(t) \/ HashInitialized(t) \/ HashFill(t)
  <2>1. UNCHANGED globals /\ pc'[t] \in HashPlaces /\ my'[t] = m
    BY <1>1, <1>2, <1>21 DEF HashChoose, HashInitialized, HashFill, Fill, Goto, HashPlaces
  <2> QED BY <1>4, <1>6, <2>1 DEF SetPlaces, InitAt, HashPlaces
<1> QED BY <1>7, <1>8, <1>9, <1>10, <1>11, <1>12, <1>13, <1>14, <1>15, <1>16, <1>17, <1>18,
           <1>19, <1>20, <1>21 DEF Run, DispatcherStep

\* Untouched is preserved.
LEMMA UntouchedNext ==
    ASSUME Merged, Layered, Located, Underway, Untouched, Located',
           NEW t \in Threads, Start(t) \/ Run(t), UNCHANGED hw
    PROVE  Untouched'
<1> SUFFICES ASSUME chosen' = NoChoice, Free'
             PROVE  /\ cpFeatures' \in {{}, hw} /\ cpFeaturesMask' \in {{}, hw}
                    /\ jumpIndex' # NoCode => cpFeaturesMask' = hw
                    /\ \A u \in Threads :
                          InitAt(pc'[u], my'[u], cpFeatures', cpFeaturesMask', jumpIndex', hw)
  BY DEF Untouched
<1>1. ~Selecting(t)
  <2>1. SUFFICES ASSUME Selecting(t) PROVE FALSE
    OBVIOUS
  <2>2. Run(t)
    BY <2>1 DEF Start, Call, GetCpuFeatures, SetCpuFeatures, Selecting, Idle
  <2>3. Selected(t) /\ my[t].idx \in Codes
    BY <2>1, <2>2, SelectionStep DEF Free
  <2> QED BY <2>3 DEF Selected, NoChoice, Codes, NoCode
<1>2. Free
  <2>1. \A u \in Threads \ {t} : Selecting(u)' <=> Selecting(u)
    BY OwnStep DEF Located, Selecting, Idle
  <2> QED BY <1>1, <2>1 DEF Free
<1>3. chosen = NoChoice /\ ~SetCpuFeatures(t)
  BY <1>2, FreeStep DEF Free
<1>4. /\ cpFeatures \in {{}, hw} /\ cpFeaturesMask \in {{}, hw}
      /\ jumpIndex # NoCode => cpFeaturesMask = hw
      /\ \A u \in Threads : InitAt(pc[u], my[u], cpFeatures, cpFeaturesMask, jumpIndex, hw)
  BY <1>2, <1>3 DEF Untouched
<1>5. PICK h \in Cpus : h = hw
  BY DEF Located, Typed
<1>6. /\ Settles(h)
      /\ InitAt(pc'[t], my'[t], cpFeatures', cpFeaturesMask', jumpIndex', h)
  BY <1>2, <1>3, <1>4, <1>5, UntouchedStep
<1>7. \A u \in Threads \ {t} : pc'[u] = pc[u] /\ my'[u] = my[u]
  BY OwnStep DEF Located
<1>8. ASSUME NEW u \in Threads \ {t}
      PROVE  InitAt(pc'[u], my'[u], cpFeatures', cpFeaturesMask', jumpIndex', h)
  <2>1. InitAt(pc[u], my[u], cpFeatures, cpFeaturesMask, jumpIndex, h)
    BY <1>4, <1>5
  <2> QED BY <1>6, <1>7, <2>1 DEF Settles, InitAt
<1> QED BY <1>4, <1>5, <1>6, <1>8 DEF Settles

\* Nothing changes the mask while a thread is looking at it.
LEMMA MaskStable ==
    ASSUME {"NOCHECK"} \notin Requests, Merged, Layered, Located, Underway, Untouched, Decided,
           Located', NEW t \in Threads, Start(t) \/ Run(t), UNCHANGED hw,
           NEW u \in Threads, my[u].check # "none"
    PROVE  cpFeaturesMask' = cpFeaturesMask
<1>1. Free
  <2>1. ~Idle(u) /\ ~Selecting(u)
    BY DEF Located, Placed, PlacedAt, Idle, Selecting
  <2> QED BY <2>1 DEF Located, Exclusive, Free
<1>2. ~SetCpuFeatures(t)
  BY DEF SetCpuFeatures, Located, Placed, PlacedAt, Idle
<1>3. CASE chosen = NoChoice
  <2>1. PICK h \in Cpus : h = hw
    BY DEF Located, Typed
  <2>2. /\ cpFeatures \in {{}, h} /\ cpFeaturesMask \in {{}, h}
        /\ jumpIndex # NoCode => cpFeaturesMask = h
        /\ \A v \in Threads : InitAt(pc[v], my[v], cpFeatures, cpFeaturesMask, jumpIndex, h)
    BY <1>1, <1>3, <2>1 DEF Untouched
  <2>3. Settles(h)
    BY <1>1, <1>2, <2>1, <2>2, UntouchedStep
  <2>4. jumpIndex # NoCode
    BY <2>2 DEF InitAt
  <2> QED BY <2>2, <2>3, <2>4 DEF Settles
<1>4. CASE chosen # NoChoice
  <2>1. /\ chosen.idx \in Codes /\ jumpIndex = chosen.idx
        /\ cpFeatures # {} /\ Quiet(pc[t], my[t])
    BY <1>1, <1>4 DEF Decided
  <2>2. UNCHANGED globals
    BY <1>1, <1>2, <2>1, DecidedStep
  <2> QED BY <2>2 DEF globals
<1> QED BY <1>3, <1>4

\* The functions of a context, as far as a thread has come, under a mask.
AesOf(mask) == IF "AES" \in mask THEN "avx" ELSE "table2K"

ContextAt(check, g, mask) ==
    /\ check \in {"none", "hashSHA"} => g.functions = g.table
    /\ check \in {"functionsVAES", "tableAES"} => g.functions = AesOf(mask)
    /\ check = "tableVAES" =>
          g.functions = IF "AVX2VAES" \in mask THEN "vaes" ELSE AesOf(mask)
    /\ check = "table512" => g.functions = IF "IFMA" \in mask THEN "vaes512" ELSE "avx512"

Contexts == \A t \in Threads : ContextAt(my[t].check, gcm[t], cpFeaturesMask)

\* A step of the thread itself.
LEMMA ContextStep ==
    ASSUME Located, NEW t \in Threads, Start(t) \/ Run(t), Merged,
           ContextAt(my[t].check, gcm[t], cpFeaturesMask),
           my[t].check # "none" => cpFeaturesMask' = cpFeaturesMask
    PROVE  ContextAt(my'[t].check, gcm'[t], cpFeaturesMask')
<1>1. PICK m \in Locals : m = my[t]
  BY DEF Located, Typed
<1>2. PICK g \in [functions : Functions, table : Functions] : g = gcm[t]
  BY DEF Located, Typed
<1>3. /\ pc \in [Threads -> Places] /\ my \in [Threads -> Locals]
      /\ gcm \in [Threads -> [functions : Functions, table : Functions]]
      /\ PlacedAt(pc[t], m) /\ m.call \in Calls /\ m.check \in Checks
  BY <1>1, LocalFields DEF Located, Typed, Placed
<1>4. ContextAt(m.check, g, cpFeaturesMask)
  BY <1>1, <1>2
<1>5. ASSUME gcm' = gcm, my'[t].check = m.check
      PROVE  ContextAt(my'[t].check, gcm'[t], cpFeaturesMask')
  BY <1>1, <1>2, <1>4, <1>5 DEF ContextAt
<1>6. ASSUME gcm' = gcm, m.check \in {"none", "hashSHA"},
             my'[t].check \in {"none", "hashSHA", "functionsAES", "functions512"}
      PROVE  ContextAt(my'[t].check, gcm'[t], cpFeaturesMask')
  BY <1>2, <1>4, <1>6 DEF ContextAt
<1>7. CASE Start(t)
  <2>1. gcm' = gcm
    BY <1>7 DEF Start, Call, GetCpuFeatures, SetCpuFeatures
  <2>2. my'[t].check = m.check
    <3>1. CASE GetCpuFeatures(t)
      BY <1>1, <1>3, <3>1 DEF GetCpuFeatures, Locals
    <3>2. CASE SetCpuFeatures(t)
      <4>1. PICK r :
               my' = [my EXCEPT ![t].call = "select", ![t].feats = r, ![t].then = "selected"]
        BY <3>2 DEF SetCpuFeatures
      <4>2. my'[t] = [m EXCEPT !.call = "select", !.feats = r, !.then = "selected"]
        BY <1>1, <1>3, <4>1
      <4> QED BY <4>2 DEF Locals
    <3>3. ASSUME NEW call, Call(t, call) PROVE my'[t].check = m.check
      BY <1>1, <1>3, <3>3 DEF Call, Locals
    <3> QED BY <1>7, <3>1, <3>2, <3>3 DEF Start
  <2> QED BY <1>5, <2>1, <2>2
<1>8. CASE DispatcherStep(t) /\ UNCHANGED <<gcm, method, chosen>>
  <2>1. my'[t].check = m.check
    BY <1>1, <1>3, <1>8
       DEF DispatcherStep, Get, CpuidFeatures, CpuidMask, SetDetect, SetDetectMask,
           SetToIdx, SetMask, SetIndex, SetRemask, Locals
  <2> QED BY <1>5, <1>8, <2>1
<1>9. CASE Selected(t) \/ Leave(t)
  <2>1. my'[t] = NoLocals /\ gcm' = gcm
    BY <1>3, <1>9 DEF Selected, Leave, Return
  <2>2. m.check \in {"none", "hashSHA"}
    <3>1. pc[t] \in {"selected", "queried", "given"}
      BY <1>9 DEF Selected, Leave, At
    <3> QED BY <1>3, <3>1 DEF PlacedAt, InCall, Calls, GetPlaces, SetPlaces, HashPlaces
  <2> QED BY <1>6, <2>1, <2>2 DEF NoLocals
<1>10. CASE InitSet(t) \/ Feature(t)
  <2>1. gcm' = gcm /\ my'[t].check = m.check
    BY <1>1, <1>3, <1>10 DEF InitSet, Feature, Locals
  <2> QED BY <1>5, <2>1
<1>11. CASE Jump(t)
  <2>1. m.check = "none" /\ gcm' = gcm
    BY <1>3, <1>11 DEF Jump, At, PlacedAt, InCall, Calls, GetPlaces, SetPlaces, HashPlaces
  <2>2. FirstCheck(m.call, jumpIndex) \in {"hashSHA", "functionsAES", "functions512"}
    BY DEF FirstCheck
  <2>3. my'[t].check \in {m.check, FirstCheck(m.call, jumpIndex)}
    BY <1>1, <1>3, <1>11 DEF Jump, Locals
  <2> QED BY <1>6, <2>1, <2>2, <2>3
<1>12. CASE HashChoose(t) \/ HashInitialized(t) \/ HashFill(t)
  <2>1. gcm' = gcm /\ my'[t].check = m.check
    BY <1>1, <1>12 DEF HashChoose, HashInitialized, HashFill
  <2> QED BY <1>5, <2>1
<1>13. CASE SetupFunctions(t)
  <2>1. m.check # "none" /\ cpFeaturesMask' = cpFeaturesMask
    BY <1>1, <1>13 DEF SetupFunctions
  <2>2. CASE m.check = "functionsAES"
    <3>1. gcm'[t] = [g EXCEPT !.functions = AesOf(cpFeaturesMask)]
      BY <1>1, <1>2, <1>3, <1>13, <2>2 DEF SetupFunctions, Enabled, Wanted, AesOf
    <3>2. my'[t].check \in {"functionsVAES", "tableAES"}
      BY <1>1, <1>3, <1>13, <2>2 DEF SetupFunctions, CheckNext, Locals
    <3> QED BY <2>1, <3>1, <3>2 DEF ContextAt
  <2>3. CASE m.check = "functionsVAES"
    <3>1. gcm'[t] = IF "AVX2VAES" \in cpFeaturesMask THEN [g EXCEPT !.functions = "vaes"] ELSE g
      BY <1>1, <1>2, <1>3, <1>13, <2>3 DEF SetupFunctions, Enabled, Wanted
    <3>2. my'[t].check = "tableVAES"
      BY <1>1, <1>3, <1>13, <2>3 DEF SetupFunctions, CheckNext, Locals
    <3> QED BY <1>4, <2>1, <2>3, <3>1, <3>2 DEF ContextAt
  <2>4. CASE m.check = "functions512"
    <3>1. gcm'[t] = [g EXCEPT !.functions =
                        IF "IFMA" \in cpFeaturesMask THEN "vaes512" ELSE "avx512"]
      BY <1>1, <1>2, <1>3, <1>13, <2>4 DEF SetupFunctions, Enabled, Wanted
    <3>2. my'[t].check = "table512"
      BY <1>1, <1>3, <1>13, <2>4 DEF SetupFunctions, CheckNext, Locals
    <3> QED BY <2>1, <3>1, <3>2 DEF ContextAt
  <2> QED BY <1>1, <1>13, <2>2, <2>3, <2>4 DEF SetupFunctions
<1>14. CASE Precompute(t)
  <2>1. m.check # "none" /\ cpFeaturesMask' = cpFeaturesMask
    BY <1>1, <1>14 DEF Precompute
  <2>2. Return(t) => my'[t].check = "none"
    BY <1>3 DEF Return, NoLocals
  <2>3. CASE m.check = "tableVAES"
    <3>1. \/ /\ "AVX2VAES" \in cpFeaturesMask /\ gcm'[t] = [g EXCEPT !.table = "vaes"]
             /\ my'[t].check = "none"
          \/ /\ "AVX2VAES" \notin cpFeaturesMask /\ gcm'[t] = g /\ my'[t].check = "tableAES"
      BY <1>1, <1>2, <1>3, <1>14, <2>2, <2>3 DEF Precompute, Enabled, Wanted, CheckNext, Locals
    <3> QED BY <1>4, <2>1, <2>3, <3>1 DEF ContextAt
  <2>4. CASE m.check = "tableAES"
    <3>1. gcm'[t] = [g EXCEPT !.table = AesOf(cpFeaturesMask)] /\ my'[t].check = "none"
      BY <1>1, <1>2, <1>3, <1>14, <2>2, <2>4 DEF Precompute, Enabled, Wanted, AesOf
    <3> QED BY <1>4, <2>4, <3>1 DEF ContextAt
  <2>5. CASE m.check = "table512"
    <3>1. /\ gcm'[t] = [g EXCEPT !.table =
                           IF "IFMA" \in cpFeaturesMask THEN "vaes512" ELSE "avx512"]
          /\ my'[t].check = "none"
      BY <1>1, <1>2, <1>3, <1>14, <2>2, <2>5 DEF Precompute, Enabled, Wanted
    <3> QED BY <1>4, <2>5, <3>1 DEF ContextAt
  <2> QED BY <1>1, <1>14, <2>3, <2>4, <2>5 DEF Precompute
<1> QED BY <1>7, <1>8, <1>9, <1>10, <1>11, <1>12, <1>13, <1>14 DEF Run

\* In the merged library, on CPUs that build each extension on the one before
\* it, and if the application never asks for no features at all: however the
\* threads' calls, queries and first initialisations interleave, the table of
\* an initialised GCM context is the one its functions read.
THEOREM ContextAlwaysConsistent ==
    Merged /\ Layered /\ {"NOCHECK"} \notin Requests => (Spec => []ContextConsistent)
<1> SUFFICES ASSUME Merged, Layered, {"NOCHECK"} \notin Requests
             PROVE  Spec => []ContextConsistent
  OBVIOUS
<1> DEFINE Inv == Located /\ Underway /\ Decided /\ Untouched /\ Contexts
<1>1. Init => Inv
  <2> SUFFICES ASSUME Init PROVE Underway /\ Decided /\ Untouched /\ Contexts
    BY LocatedInit
  <2>1. Underway /\ Decided
    BY DEF Init, Underway, Decided, Selecting, Idle
  <2>2. Untouched
    BY DEF Init, Untouched, InitAt, NoLocals, SetPlaces
  <2>3. Contexts
    BY DEF Init, Contexts, ContextAt, NoLocals, EmptyGcm
  <2> QED BY <2>1, <2>2, <2>3
<1>2. Inv /\ [Next]_vars => Inv'
  <2> SUFFICES ASSUME Inv, [Next]_vars PROVE Underway' /\ Decided' /\ Untouched' /\ Contexts'
    BY LocatedNext
  <2>1. CASE UNCHANGED vars
    BY <2>1 DEF vars, globals, Underway, Decided, Untouched, Contexts, Selecting, Idle, Free
  <2>2. ASSUME NEW t \in Threads, Start(t) \/ Run(t), UNCHANGED hw
        PROVE  Underway' /\ Decided' /\ Untouched' /\ Contexts'
    <3>1. Located'
      BY LocatedNext
    <3>2. Underway' /\ Decided' /\ Untouched'
      BY <2>2, <3>1, SelectionNext, UntouchedNext
    <3>3. ASSUME NEW u \in Threads PROVE ContextAt(my'[u].check, gcm'[u], cpFeaturesMask')
      <4>1. ContextAt(my[u].check, gcm[u], cpFeaturesMask)
        BY DEF Contexts
      <4>2. my[u].check # "none" => cpFeaturesMask' = cpFeaturesMask
        BY <2>2, <3>1, MaskStable
      <4>3. CASE u = t
        BY <2>2, <4>1, <4>2, <4>3, ContextStep
      <4>4. CASE u # t
        <5>1. my'[u] = my[u] /\ gcm'[u] = gcm[u]
          BY <2>2, <4>4, OwnStep DEF Located
        <5> QED BY <4>1, <4>2, <5>1 DEF ContextAt
      <4> QED BY <4>3, <4>4
    <3> QED BY <3>2, <3>3 DEF Contexts
  <2> QED BY <2>1, <2>2 DEF Next
<1>3. Inv => ContextConsistent
  BY DEF Located, Placed, PlacedAt, Idle, Contexts, ContextAt, ContextConsistent
<1> QED BY <1>1, <1>2, <1>3, PTL DEF Spec
==============================================================================
