----------------------------- MODULE MCThrottle -----------------------------
(***************************************************************************)
(* Throttle with batches of four cycles or a little more, and halts longer *)
(* than a batch.                                                           *)
(***************************************************************************)
EXTENDS Throttle
=============================================================================
