----------------------------- MODULE MCNetlink -----------------------------
(* A small instance of Netlink for TLC. *)
EXTENDS Netlink

CONSTANTS wlan0, wlan1, null, home

TwoIfaces == {wlan0, wlan1}
OneSsid == {home}
FarAndNear == {-90, -60}
=============================================================================
