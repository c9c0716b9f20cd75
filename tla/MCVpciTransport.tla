-------------------------- MODULE MCVpciTransport --------------------------
(* Model-checking instance of VpciTransport: one user thread, two          *)
(* connections' worth of sockets, four packets.                            *)
EXTENDS VpciTransport

CONSTANTS u1, u2

MCUsers1 == {u1}
MCUsers2 == {u1, u2}
====
