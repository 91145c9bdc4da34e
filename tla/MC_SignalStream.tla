-------------------------- MODULE MC_SignalStream --------------------------
(* The modules of async_signal2.cpp as model values.                      *)
EXTENDS SignalStream
CONSTANTS A, B, C, X
=============================================================================
