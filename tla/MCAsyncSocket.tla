--------------------------- MODULE MCAsyncSocket ---------------------------
(* A small instance of AsyncSocket: one socket of each protocol. *)
EXTENDS AsyncSocket

CONSTANTS f1, f2

MCFd == {f1, f2}
MCOpens == {<<f1, "tcp">>, <<f2, "udp">>}
=============================================================================
