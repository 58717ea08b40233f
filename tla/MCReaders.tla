---------------------------- MODULE MCReaders ----------------------------
(* A small instance of Readers for TLC. *)
EXTENDS Readers

CONSTANTS wlan0, eth0, left, right, null

TwoIfaces == {wlan0, eth0}
OneWay == {"rx"}
TwoAddrs == {left, right}
=============================================================================
