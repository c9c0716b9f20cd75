--------------------------- MODULE MCVpciReconnect ---------------------------
(***************************************************************************)
(* CONFIG_HZ values of common kernel builds.                               *)
(***************************************************************************)
EXTENDS VpciReconnect

MCHZs     == {100, 250, 300, 1000}
MCHZ250   == {250}
====
