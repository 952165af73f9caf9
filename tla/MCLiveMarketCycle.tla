------------------------- MODULE MCLiveMarketCycle -------------------------
(* Small instances of the live market cycle. The names of finished orders    *)
(* are used again, so two intents per side give any number of rounds, with a *)
(* new quote proposed while an older one is unresolved.                      *)
EXTENDS LiveMarketCycle
=============================================================================
