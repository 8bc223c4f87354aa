----------------------------- MODULE FrontPanel -----------------------------
(***************************************************************************)
(* internal/kim1/decoder.go, display.go and keypad.go: the Kbd RIOT's      *)
(* Port A carries a digit's segments out or a key row's columns in, for    *)
(* the line that the code on Port B selects.  The digits are kept in a     *)
(* shadow buffer that ages in CPU cycles.  Decoder and buffer are          *)
(* operators; what drives them is in Display and Keypad.                   *)
(***************************************************************************)
EXTENDS RiotPort, Integers

CONSTANTS
    Segments,           \* pins of Port A: a digit's segments, a row's columns
    Digits,             \* the lines of the display's digits (4 .. 9)
    StaleAfterCycles    \* staleAfterCycles

ASSUME PanelAssumption ==
    /\ Segments \subseteq 0 .. 6
    /\ Digits \subseteq 4 .. 9
    /\ StaleAfterCycles \in Nat

KeyRows == 0 .. 2
NoLine == 10    \* a code without a line

(* decode74145; the code is Port B's latch, whatever its direction.        *)
Decode74145(code) == IF code > 9 THEN -1 ELSE code

(* Ages beyond the staleness limit are all alike. *)
Aged(age, n) == IF age + n > StaleAfterCycles THEN StaleAfterCycles + 1 ELSE age + n

(* A digit of Display: its pattern and the cycles since it was latched.    *)
NewDigit == [pattern |-> {}, age |-> 0]

----------------------------------------------------------------------------
(* Faulty variant: a dark pattern is latched like any other. *)
RefreshDisplayDark(display, port, code) ==
    [d \in Digits |-> IF Decode74145(code) = d
                      THEN [pattern |-> port.data \cap port.ddr, age |-> 0] ELSE display[d]]

(* refreshDisplay and Update: the selected digit takes over the pattern    *)
(* driven, unless it is dark.                                              *)
RefreshDisplay(display, port, code) ==
    LET lit == port.data \cap port.ddr
    IN  [d \in Digits |-> IF Decode74145(code) = d /\ lit # {}
                          THEN [pattern |-> lit, age |-> 0] ELSE display[d]]

(* Snapshot: what a browser is sent for a digit. *)
Shown(digit) == IF digit.age <= StaleAfterCycles THEN digit.pattern ELSE {}

----------------------------------------------------------------------------
(* ColumnBits: the columns of a row that read high, its idle keys. *)
ColumnBits(pressed, row) == {c \in Segments : <<row, c>> \notin pressed}

(* Faulty variant: the TTY switch pulls bit 0 low whatever is selected. *)
KeypadColumnInputMixed(pressed, code, ttySelect) ==
    (IF Decode74145(code) \in KeyRows THEN ColumnBits(pressed, Decode74145(code)) ELSE Segments)
        \ (IF ttySelect THEN {0} ELSE {})

(* keypadColumnInput without bit 7: a selected row's columns; otherwise    *)
(* bit 0 tells the TTY switch.                                             *)
KeypadColumnInput(pressed, code, ttySelect) ==
    IF Decode74145(code) \in KeyRows THEN ColumnBits(pressed, Decode74145(code))
    ELSE IF ttySelect THEN Segments \ {0} ELSE Segments
=============================================================================
