------------------------------ MODULE MCNetif ------------------------------
(* A small instance of Netif. *)
EXTENDS Netif
=============================================================================
