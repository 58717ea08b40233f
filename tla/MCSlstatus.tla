----------------------------- MODULE MCSlstatus -----------------------------
(* Small instances of Slstatus for TLC. *)
EXTENDS Slstatus

(* Every kind of entry; two share a signal, as config.def.h's nm_line do. *)
Turn4   == <<0, 1, 0, 2>>
Signal4 == <<0, -1, 0, 1>>
Feed4   == <<"lookup", "poll", "thread", "proxy">>
Long4   == {<<2, 2>>}

(* An entry that may come to shadow the two after it; the last one is
   refreshed by its signal only. *)
Turn3   == <<2, 1, 0>>
Signal3 == <<1, -1, 2>>
Feed3   == <<"proxy", "poll", "thread">>
Long3   == {<<1, 2>>}
Long0   == {}
=============================================================================
