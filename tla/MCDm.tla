-------------------------------- MODULE MCDm --------------------------------
(* Small instances of Dm. *)
EXTENDS Dm
=============================================================================
