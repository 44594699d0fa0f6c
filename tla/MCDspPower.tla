----------------------------- MODULE MCDspPower -----------------------------
(* Small instances of DspPower. *)
EXTENDS DspPower, TLC

TaskSymmetry == Permutations(Tasks)
=============================================================================
