----------------------------- MODULE MCBusCache -----------------------------
(* A small instance of BusCache for TLC. *)
EXTENDS BusCache

CONSTANTS BAT0, wwan0, null, due

OneBattery == {BAT0}
OneModem == {wwan0}
LowAndHigh == {10, 60}
HalfAnAddress == {4096}
TwoProfiles == {"balanced", "power-saver"}
=============================================================================
