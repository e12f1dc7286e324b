--------------------------- MODULE MC_HashDRBGClient ---------------------------
(* A small instance of HashDRBGClient in which every hash call may fail. *)
EXTENDS HashDRBGClient

MCBufLens      == {384}
MCSupplierLens == {200, 384}
MCReqStrengths == {128, 256}
MCBitCounts    == {0, 65536}
MCInputs       == {"additional input"}
================================================================================
