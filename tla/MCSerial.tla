------------------------------ MODULE MCSerial ------------------------------
(***************************************************************************)
(* The two bit-serial peripherals, each on a bench of its own.             *)
(*                                                                         *)
(* "blocks": SdHost with two sectors of two bytes.  The data bytes in use  *)
(* are those most easily mistaken: CMD0's start byte, the start token and  *)
(* the idle bus.                                                           *)
(*                                                                         *)
(* "getch": Tty while the monitor waits for input, with frames of two data *)
(* bits and the shortest bit period for which steps of at most two         *)
(* cycles leave the receiver a margin.                                     *)
(***************************************************************************)
EXTENDS Tty, SdHost

VARIABLE bench

benchVars == <<ttyVars, hostVars, bench>>

TwoBlocks == {<<64, 254>>, <<255, 64>>}
BlankImage == [s \in 0 .. Sectors - 1 |-> <<64, 254>>]
TwoBitBytes == {<<1, 0>>, <<0, 1>>}

(* Where GETCH waits, nothing drives the card, whose image is beside the   *)
(* point.                                                                  *)
BenchInit ==
    /\ InitWith(0)
    /\ \/ bench = "blocks" /\ HostInit
       \/ bench = "getch" /\ HostInitWith(Finished(Booting)) /\ image = BlankImage

BlocksStep == bench = "blocks" /\ HostNext /\ UNCHANGED <<ttyVars, bench>>
GetchStep == bench = "getch" /\ GetchNext /\ UNCHANGED <<hostVars, bench>>

BenchSpec ==
    /\ BenchInit
    /\ [][BlocksStep \/ GetchStep]_benchVars
    /\ WF_benchVars(bench = "blocks" /\ DriverNext /\ UNCHANGED <<ttyVars, bench>>)
    /\ WF_benchVars(bench = "getch" /\ Poll /\ UNCHANGED <<hostVars, bench>>)
=============================================================================
