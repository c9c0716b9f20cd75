-------------------------- MODULE MCVpciDispatcher --------------------------
(***************************************************************************)
(* Instance of VpciDispatcher for TLC.  Addresses are 4 bits wide, so a    *)
(* sum of address and length can wrap; the config space is 8 bytes; there  *)
(* are 3 BAR slots, so vpci_device_exit leaves one of them behind.  The    *)
(* offered header addresses are one inside config and BAR 4..7 (0), one    *)
(* straddling the end of config (7), and one whose sum wraps (15).        *)
(***************************************************************************)
EXTENDS VpciDispatcher

MCReqAddrs  == {0, 7, 15}
MCLens      == {1, 2}
MCSessions  == {1}
MCBarBases  == {4, 12}
MCBarSizes  == {0, 4}
====
