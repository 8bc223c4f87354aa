--------------------------- MODULE MCKim1System ---------------------------
(***************************************************************************)
(* Kim1System on a handful of addresses: 0 and 1 below the ROMs, 2 to 4 in *)
(* ROM, one for each vector, and on an expanded board 5 behind them.       *)
(***************************************************************************)
EXTENDS Kim1System

BoardAddr == IF ExpansionRAM THEN 0 .. 5 ELSE 0 .. 4
=============================================================================
