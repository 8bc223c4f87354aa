------------------------------ MODULE MCTimer ------------------------------
(***************************************************************************)
(* Timer with a two-bit count and dividers 1, 2 and 5, one of them longer  *)
(* and two of them shorter than the longest instruction; the horizon holds *)
(* the third underflow of the slowest setting.                             *)
(***************************************************************************)
EXTENDS Timer
=============================================================================
