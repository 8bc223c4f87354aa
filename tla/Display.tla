------------------------------- MODULE Display -------------------------------
(***************************************************************************)
(* The display as the monitor ROM drives it and a browser sees it.  The    *)
(* ROM is not part of the sources; display.go and decoder.go describe its  *)
(* scan: a digit is selected with dark segments, given its pattern for a   *)
(* while, and darkened again; then the port is turned round and the key    *)
(* rows are read.  A program started from it leaves the ports alone.       *)
(***************************************************************************)
EXTENDS FrontPanel, Sequences

CONSTANTS
    Patterns,       \* what the monitor may want a digit to show
    ScanCycles      \* cycles one of the scan's steps may take

ASSUME DisplayAssumption ==
    /\ Patterns \subseteq SUBSET Segments /\ Patterns # {}
    /\ ScanCycles \subseteq Nat \ {0}

VARIABLES
    sad,        \* Kbd RIOT Port A
    sbd,        \* the select code on its Port B
    display,    \* the Display struct: latest pattern and age per digit
    monitor     \* what the CPU runs, the next step of the scan, the digits' patterns

(* History variables, per digit: the pattern the monitor gave it last, and *)
(* the cycles since then and since its segments last were driven at all.   *)
VARIABLES given, givenAge, drivenAge

displayVars == <<sad, sbd, display, monitor, given, givenAge, drivenAge>>

(* One scan, as writes to the ports; "show" writes the digit's pattern.    *)
DigitScan(d) ==
    IF d \in Digits THEN << <<"sad", {}>>, <<"sbd", d>>, <<"show", d>> >> ELSE <<>>
KeysRead == << <<"sbd", NoLine>>, <<"padd", {}>>, <<"sbd", 0>>, <<"sbd", 3>> >>
Scan ==
    << <<"padd", Segments>> >>
    \o DigitScan(4) \o DigitScan(5) \o DigitScan(6)
    \o DigitScan(7) \o DigitScan(8) \o DigitScan(9)
    \o KeysRead

----------------------------------------------------------------------------
(* An instruction leaves the ports at a and b, which refreshes the display *)
(* if it wrote to one of them, and takes n cycles.                         *)
Instruction(a, b, writes, n) ==
    LET latched == IF writes THEN RefreshDisplay(display, a, b) ELSE display
    IN  /\ sad' = a
        /\ sbd' = b
        /\ display' = [d \in Digits |-> [latched[d] EXCEPT !.age = Aged(@, n)]]
        /\ drivenAge' = [d \in Digits |->
               IF Decode74145(b) = d /\ a.data \cap a.ddr # {} THEN 0
               ELSE Aged(drivenAge[d], n)]

Older(n) == [d \in Digits |-> Aged(givenAge[d], n)]

ScanWrites(n) ==
    LET reg == Scan[monitor.pc][1]
        val == Scan[monitor.pc][2]
    IN  /\ monitor.runs = "monitor"
        /\ monitor' = [monitor EXCEPT !.pc = 1 + (monitor.pc % Len(Scan))]
        /\ \/ reg = "padd" /\ Instruction(WriteDDR(sad, val), sbd, TRUE, n)
           \/ reg = "sad"  /\ Instruction(WriteData(sad, val), sbd, TRUE, n)
           \/ reg = "sbd"  /\ Instruction(sad, val, TRUE, n)
           \/ reg = "show" /\ Instruction(WriteData(sad, monitor.wants[val]), sbd, TRUE, n)
        /\ IF reg = "show" /\ monitor.wants[val] # {}
           THEN /\ given' = [given EXCEPT ![val] = monitor.wants[val]]
                /\ givenAge' = [Older(n) EXCEPT ![val] = Aged(0, n)]
           ELSE UNCHANGED given /\ givenAge' = Older(n)

(* The delay between two steps of the scan, or another program: neither    *)
(* writes to the ports.                                                    *)
RunsElsewhere(n) ==
    /\ Instruction(sad, sbd, FALSE, n)
    /\ givenAge' = Older(n)
    /\ UNCHANGED <<monitor, given>>

(* GO, at any step of the scan; RS, which enters the monitor at its        *)
(* beginning and leaves the ports as they are; a key, dealt with between   *)
(* two scans, that changes what is to be shown.                            *)
MonitorBecomes(m) ==
    /\ monitor' = m
    /\ UNCHANGED <<sad, sbd, display, given, givenAge, drivenAge>>

Go == monitor.runs = "monitor" /\ MonitorBecomes([monitor EXCEPT !.runs = "program"])
PressRS == MonitorBecomes([monitor EXCEPT !.runs = "monitor", !.pc = 1])
Wants(d, p) ==
    /\ monitor.runs = "monitor"
    /\ monitor.pc = 1
    /\ MonitorBecomes([monitor EXCEPT !.wants[d] = p])

DisplayInit ==
    /\ sad = NewPort
    /\ sbd = 0
    /\ display = [d \in Digits |-> NewDigit]
    /\ monitor = [runs |-> "monitor", pc |-> 1,
                   wants |-> [d \in Digits |-> CHOOSE p \in Patterns : TRUE]]
    /\ given = [d \in Digits |-> {}]
    /\ givenAge = [d \in Digits |-> 0]
    /\ drivenAge = [d \in Digits |-> 0]

DisplayNext ==
    \/ \E n \in ScanCycles : ScanWrites(n) \/ RunsElsewhere(n)
    \/ Go \/ PressRS
    \/ \E d \in Digits, p \in Patterns : Wants(d, p)

DisplaySpec == DisplayInit /\ [][DisplayNext]_displayVars

----------------------------------------------------------------------------
(* Types. *)
DisplayTypeOK ==
    /\ sad \in [data : SUBSET Segments, ddr : {{}, Segments}]
    /\ sbd \in 0 .. NoLine
    /\ display \in [Digits -> [pattern : SUBSET Segments, age : 0 .. StaleAfterCycles + 1]]
    /\ monitor \in [runs : {"monitor", "program"}, pc : 1 .. Len(Scan),
                    wants : [Digits -> Patterns]]
    /\ given \in [Digits -> SUBSET Segments]
    /\ {givenAge, drivenAge} \subseteq [Digits -> 0 .. StaleAfterCycles + 1]

(* A browser sees every digit as the monitor means it: at whatever moment  *)
(* of a scan the state is sampled, and wherever GO or RS cut one short, no *)
(* digit ever shows a pattern meant for its neighbour or the dark between  *)
(* two digits; it is lit for as long as the staleness allows after it was  *)
(* last given its pattern, and dark when no digit line has driven it for   *)
(* longer than that.                                                       *)
PictureTrue ==
    \A d \in Digits :
        /\ Shown(display[d]) \in {{}, given[d]}
        /\ givenAge[d] <= StaleAfterCycles => Shown(display[d]) = given[d]
        /\ drivenAge[d] > StaleAfterCycles => Shown(display[d]) = {}
=============================================================================
