---------------------------- MODULE MCNetDevice ----------------------------
(* A small instance of NetDevice for TLC. *)
EXTENDS NetDevice, TLC

CONSTANTS wlan, home, hidden, null, addr

OneWifi == {wlan}
TwoAPs  == {home, hidden}
Tells   == (home :> "home") @@ (hidden :> null)
OneAddress == {addr}
WeakOrGood == {15, 50}
=============================================================================
