---------------------------- MODULE MCPageScript ----------------------------
(* PageScript for a known pilot and an unknown one. *)
EXTENDS PageScript, TLC

CONSTANTS moe, nobody, year, caps

OnePilot == {moe}
JustNobody == {{nobody}}
OneWindow == {year}
OneFilter == {<<"space", "Wormhole">>}
OneBucket == {caps}
=============================================================================
