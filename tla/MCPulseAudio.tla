---------------------------- MODULE MCPulseAudio ----------------------------
(* Small instances of PulseAudio for TLC. *)
EXTENDS PulseAudio

CONSTANTS a, b, null

TwoSinks == {a, b}
NoAliases == {}
Default  == {null}
Both     == {null, b}

FromZero == (a :> 0) @@ (b :> 1)
FromOne  == (a :> 1) @@ (b :> 2)
=============================================================================
