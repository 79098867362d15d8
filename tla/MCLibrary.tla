------------------------------ MODULE MCLibrary ------------------------------
(* Instances of Library for TLC: two releases of the common edition, the   *)
(* better of which brings a trailer, and a director's cut whose torrent    *)
(* also holds a file with the name of the lesser release's file.           *)
EXTENDS Library

CONSTANTS lo, hi, cut,                         \* releases
          loFile, hiFile, cutFile, trailer     \* names

MCFiles == [r \in Releases |-> CASE r = lo -> <<loFile>>
                                 [] r = hi -> <<trailer, hiFile>>
                                 [] OTHER  -> <<loFile, cutFile>>]
MCPrimary == [r \in Releases |-> CASE r = lo -> loFile [] r = hi -> hiFile [] OTHER -> cutFile]
MCEdition   == [n \in Names |-> IF n = cutFile THEN {"directors cut"} ELSE {}]
MCTitleRank == [r \in Releases |-> CASE r = lo -> 1 [] r = hi -> 2 [] OTHER -> 3]
MCFileRank  == [n \in Names |-> CASE n = loFile -> 1 [] n = hiFile -> 2 [] n = cutFile -> 3
                                  [] OTHER -> 0]
=============================================================================
