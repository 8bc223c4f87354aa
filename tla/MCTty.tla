------------------------------- MODULE MCTty -------------------------------
(***************************************************************************)
(* Tty with frames of two data bits.  The bit period is the shortest one   *)
(* for which steps of at most two cycles leave the receiver a margin.      *)
(***************************************************************************)
EXTENDS Tty

TwoBitBytes == {<<1, 0>>, <<0, 1>>}

ASSUME MarginAssumption == Margin
=============================================================================
