---------------------------- MODULE MCBacklight ----------------------------
(* A small instance of Backlight for TLC. *)
EXTENDS Backlight

CONSTANTS intel, kbd, gone, null, head

TwoDevices == {intel, kbd}
WithMissing == {intel, kbd, gone}
=============================================================================
