--------------------------- MODULE MCCloudResume ---------------------------
(* Small instances of CloudResume. *)
EXTENDS CloudResume, TLC

AddrSymmetry == Permutations(Addrs)
=============================================================================
