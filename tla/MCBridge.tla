------------------------------ MODULE MCBridge -------------------------------
(***************************************************************************)
(* TLC instance of AndroidDebugBridge: two application threads and one adb.*)
(***************************************************************************)
EXTENDS AndroidDebugBridge, TLC

Symmetry == Permutations(Apps)
=============================================================================
