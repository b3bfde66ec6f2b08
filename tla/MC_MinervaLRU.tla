---------------------------- MODULE MC_MinervaLRU ----------------------------
EXTENDS MinervaLRU

(* Every epoch, the last two included, in any order *)
MCRequestsAll == 0..MaxEpoch - 1
=============================================================================
