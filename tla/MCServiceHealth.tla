--------------------------- MODULE MCServiceHealth ---------------------------
(* Instances of ServiceHealth for TLC: the index proxy, checked by the     *)
(* search task behind its breaker, and the torrent client, checked by      *)
(* several tasks.                                                          *)
EXTENDS ServiceHealth

CONSTANTS search, qm, pp
=============================================================================
