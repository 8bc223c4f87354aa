----------------------------- MODULE MCDevices -----------------------------
(***************************************************************************)
(* The devices behind the two RIOTs' I/O windows: Timer, Spi, Display and  *)
(* Keypad.  They share no state but the CPU, so one behaviour exercises    *)
(* one of them (bench) and leaves the others as they were.                 *)
(*                                                                         *)
(* The timer has a two-bit count and dividers 1, 2 and 5, one of them      *)
(* longer and two of them shorter than the longest instruction; the        *)
(* horizon holds the third underflow of the slowest setting.  SPI bytes    *)
(* have three bits.  A scan over two digits at full speed takes just as    *)
(* many cycles as a digit stays lit.                                       *)
(***************************************************************************)
EXTENDS Timer, Spi, Display, Keypad

VARIABLE bench

Symmetry == Permutations(Browsers)

TwoPatterns == {{0}, {1}}
TwoKeys == {<<0, 0>>, <<2, 1>>}

Init ==
    /\ bench \in {"timer", "spi", "display", "keypad"}
    /\ TimerInit
    /\ SpiInit
    /\ DisplayInit
    /\ KeypadInit

Next ==
    /\ UNCHANGED bench
    /\ \/ bench = "timer" /\ TimerNext /\ UNCHANGED <<spiVars, displayVars, keypadVars>>
       \/ bench = "spi" /\ SpiNext /\ UNCHANGED <<timerVars, displayVars, keypadVars>>
       \/ bench = "display" /\ DisplayNext /\ UNCHANGED <<timerVars, spiVars, keypadVars>>
       \/ bench = "keypad" /\ KeypadNext /\ UNCHANGED <<timerVars, spiVars, displayVars>>

Spec == Init /\ [][Next]_<<bench, timerVars, spiVars, displayVars, keypadVars>>

(* Types of all four devices; after the first step the timer's prescaler   *)
(* is never left exhausted (timer.go's Tick).                              *)
DevicesTypeOK == TimerTypeOK /\ SpiTypeOK /\ DisplayTypeOK /\ KeypadTypeOK
=============================================================================
