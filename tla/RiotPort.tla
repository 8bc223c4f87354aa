------------------------------ MODULE RiotPort ------------------------------
(***************************************************************************)
(* internal/riot/riot.go: one I/O port.  A port's data latch and direction *)
(* register are the sets of pins whose bit is 1, and so is what a read     *)
(* returns; the level of a pin is a Boolean.                               *)
(***************************************************************************)

(* riot.New: every pin an input. *)
NewPort == [data |-> {}, ddr |-> {}]

WriteData(port, pins) == [port EXCEPT !.data = pins]
WriteDDR(port, pins) == [port EXCEPT !.ddr = pins]

(* Port.Read: the latch where the pin is an output, the outside elsewhere. *)
ReadPort(port, input) == (port.data \cap port.ddr) \cup (input \ port.ddr)

(* pinLevel: an input nothing drives reads high. *)
PinLevel(port, pin) == pin \in port.ddr => pin \in port.data
=============================================================================
