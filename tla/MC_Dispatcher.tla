----------------------------- MODULE MC_Dispatcher -----------------------------
EXTENDS Dispatcher

\* From an unsupported CPU to the newest one; one whose OS does not save the
\* wide registers.
MCOld == {"MMX"}
MCY8 == {"MMX", "SSE42", "AES"}
MCNoOS == MCY8 \cup {"AVX2", "AVX512", "AVX2VAES"}
MCL9 == MCY8 \cup {"SHA", "AVX2", "AVX2VAES", "AVX_OS"}
MCK1 == MCL9 \cup {"AVX512", "IFMA", "AVX512_OS"}

MCCpus == {MCOld, MCNoOS, MCL9, MCK1}
MCRequests == {{}, MCL9 \ {"SHA"}, MCY8 \cup {"NOCHECK"}}

\* An incomplete combination of features.
MCPartialRequests == {{"AVX2"}}
MCNone == {}
==============================================================================
