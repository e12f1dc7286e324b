----------------------------- MODULE MC_HashDRBG -----------------------------
(* A small instance of HashDRBG: a seed serves two requests.  The values of *)
(* each argument straddle the comparisons the code makes on it.             *)
EXTENDS HashDRBG

MCBufLens      == {384}
MCSupplierLens == {200, 384}
MCReqStrengths == {128, 256}
MCBitCounts    == {0, 65536}

\* the doc example's buffer length, which the init function accepts
MCShortBufLens == {192}
==============================================================================
