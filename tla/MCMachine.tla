----------------------------- MODULE MCMachine -----------------------------
(***************************************************************************)
(* Machine with one address in RAM, two in ROM and one unpopulated behind  *)
(* them, a ring of three, and batches of one or two steps.                 *)
(***************************************************************************)
EXTENDS Machine
=============================================================================
