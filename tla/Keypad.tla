------------------------------- MODULE Keypad -------------------------------
(***************************************************************************)
(* The keypad from the browsers' pointers to the monitor's scan: app.js    *)
(* sends a message when a key goes down, comes up or the pointer leaves    *)
(* it, each connection's handler goroutine applies its messages one by one *)
(* (ws.go), and the ROM, which is not part of the sources, reads the rows  *)
(* through the decoder.  A connection may close at any moment; what was    *)
(* under way is handled in part or lost, and the browser connects again.   *)
(***************************************************************************)
EXTENDS FrontPanel, Sequences, SequencesExt, FiniteSets

CONSTANTS
    Browsers,
    Keys,           \* <<row, column>>
    MaxConns,       \* bound: connections made, by all browsers together
    MaxUnderWay     \* bound: messages under way on a connection

ASSUME KeypadAssumption ==
    /\ Keys \subseteq KeyRows \X Segments
    /\ MaxConns \in Nat \ {0}
    /\ MaxUnderWay \in Nat

VARIABLES
    pressed,        \* Keypad.pressed, as the set of keys held down
    ttySelect,      \* System.TTYSelect
    pointer,        \* per browser: the keys held down in it, at most one
    conn,           \* per browser: its connection, numbered from 1; 0 for none
    accepted,       \* number of connections made so far
    underWay,       \* per connection: messages sent and not yet handled
    scan            \* the monitor: rows read in this pass, and the keys it
                    \* found down in them

(* History variables. *)
VARIABLES
    during,         \* keys down throughout this pass, and at some time in it
    abandoned       \* keys some browser held, or had messages about under
                    \* way, when its connection closed

keypadVars == <<pressed, ttySelect, pointer, conn, accepted, underWay, scan,
               during, abandoned>>

Conns == 1 .. MaxConns
NoKey == {}

----------------------------------------------------------------------------
(* sendMsg: nothing is sent while the socket is not open. *)
SendKey(b, key, down) ==
    IF conn[b] = 0 THEN UNCHANGED underWay
    ELSE /\ Len(underWay[conn[b]]) < MaxUnderWay
         /\ underWay' = [underWay EXCEPT ![conn[b]] = Append(@, [key |-> key, down |-> down])]

(* pointerdown *)
Press(b, key) ==
    /\ pointer[b] = NoKey
    /\ SendKey(b, key, TRUE)
    /\ pointer' = [pointer EXCEPT ![b] = {key}]
    /\ UNCHANGED <<pressed, ttySelect, conn, accepted, scan, during, abandoned>>

(* pointerup, or pointerleave with or without the button held. *)
Leave(b, key) ==
    /\ pointer[b] \subseteq {key}
    /\ SendKey(b, key, FALSE)
    /\ pointer' = [pointer EXCEPT ![b] = NoKey]
    /\ UNCHANGED <<pressed, ttySelect, conn, accepted, scan, during, abandoned>>

SetPressed(m) ==
    /\ pressed' = IF m.down THEN pressed \cup {m.key} ELSE pressed \ {m.key}
    /\ during' = [all |-> during.all \cap pressed', some |-> during.some \cup pressed']

(* Faulty variant: each message is handled by a goroutine of its own. *)
HandleKeyAnyOrder(c) ==
    \E i \in DOMAIN underWay[c] :
        /\ SetPressed(underWay[c][i])
        /\ underWay' = [underWay EXCEPT ![c] = RemoveAt(@, i)]
        /\ UNCHANGED <<ttySelect, pointer, conn, accepted, scan, abandoned>>

(* handleWS's loop: a connection's oldest message, also if its browser has *)
(* closed it since.                                                        *)
HandleKey(c) ==
    /\ underWay[c] # <<>>
    /\ SetPressed(Head(underWay[c]))
    /\ underWay' = [underWay EXCEPT ![c] = Tail(@)]
    /\ UNCHANGED <<ttySelect, pointer, conn, accepted, scan, abandoned>>

SelectTTY(on) ==
    /\ ttySelect' = on
    /\ UNCHANGED <<pressed, pointer, conn, accepted, underWay, scan, during, abandoned>>

(* The browser sees its connection close; the server has its handler read  *)
(* what is left, or fail and return: no key is released for it.            *)
Close(b) ==
    /\ conn[b] # 0
    /\ conn' = [conn EXCEPT ![b] = 0]
    /\ abandoned' = abandoned \cup pointer[b] \cup {m.key : m \in Range(underWay[conn[b]])}
    /\ UNCHANGED <<pressed, ttySelect, pointer, accepted, underWay, scan, during>>

ReadFails(c) ==
    /\ underWay[c] # <<>>
    /\ c \notin Range(conn)
    /\ underWay' = [underWay EXCEPT ![c] = <<>>]
    /\ UNCHANGED <<pressed, ttySelect, pointer, conn, accepted, scan, during, abandoned>>

(* connect: at the start, and a second after a connection closed. *)
Connect(b) ==
    /\ conn[b] = 0
    /\ accepted < MaxConns
    /\ accepted' = accepted + 1
    /\ conn' = [conn EXCEPT ![b] = accepted']
    /\ UNCHANGED <<pressed, ttySelect, pointer, underWay, scan, during, abandoned>>

----------------------------------------------------------------------------
ColumnsLow(row) ==
    {row} \X (Segments \ ReadPort(NewPort, KeypadColumnInput(pressed, row, ttySelect)))

(* The monitor selects the next row and reads its columns; with the first  *)
(* row a new pass begins.                                                  *)
ScanRow ==
    LET row   == scan.read % Cardinality(KeyRows)
        found == IF row = 0 THEN {} ELSE scan.found
    IN  /\ scan' = [read |-> row + 1, found |-> found \cup ColumnsLow(row)]
        /\ during' = IF row = 0 THEN [all |-> pressed, some |-> pressed] ELSE during
        /\ UNCHANGED <<pressed, ttySelect, pointer, conn, accepted, underWay, abandoned>>

KeypadInit ==
    /\ pressed = {}
    /\ ttySelect = FALSE
    /\ pointer = [b \in Browsers |-> NoKey]
    /\ conn = [b \in Browsers |-> 0]
    /\ accepted = 0
    /\ underWay = [c \in Conns |-> <<>>]
    /\ scan = [read |-> 0, found |-> {}]
    /\ during = [all |-> {}, some |-> {}]
    /\ abandoned = {}

KeypadNext ==
    \/ \E b \in Browsers : \/ \E key \in Keys : Press(b, key) \/ Leave(b, key)
                           \/ Close(b) \/ Connect(b)
    \/ \E c \in Conns : HandleKey(c) \/ ReadFails(c)
    \/ \E on \in BOOLEAN : SelectTTY(on)
    \/ ScanRow

KeypadSpec == KeypadInit /\ [][KeypadNext]_keypadVars

----------------------------------------------------------------------------
(* Types. *)
KeypadTypeOK ==
    /\ pressed \subseteq Keys
    /\ ttySelect \in BOOLEAN
    /\ pointer \in [Browsers -> {NoKey} \cup {{key} : key \in Keys}]
    /\ conn \in [Browsers -> 0 .. accepted]
    /\ accepted \in 0 .. MaxConns
    /\ underWay \in [Conns -> Seq([key : Keys, down : BOOLEAN])]
    /\ scan \in [read : 0 .. 3, found : SUBSET (KeyRows \X Segments)]
    /\ during \in [all : SUBSET Keys, some : SUBSET Keys]
    /\ abandoned \subseteq Keys

UpUnderWay(key) ==
    \E c \in Conns : [key |-> key, down |-> FALSE] \in Range(underWay[c])

(* No key hangs: one that is down in the matrix is held in some browser or *)
(* its release is under way, through two browsers at the same key, brushes *)
(* of a pointer over it, and messages handled in turns with another's --   *)
(* unless a browser's connection closed while it held the key or had news  *)
(* of it under way: then nothing releases it.                              *)
NoKeyHangs ==
    \A key \in pressed \ abandoned :
        UpUnderWay(key) \/ \E b \in Browsers : pointer[b] = {key}

(* The monitor's pass over the rows finds every key that is down from its  *)
(* beginning until its row is read, and no key that was up all the time,   *)
(* whichever way the TTY switch stands: a row's columns are not mistaken   *)
(* for another's, nor for the switch.                                      *)
ScanFindsHeld ==
    /\ {key \in during.all : key[1] < scan.read} \subseteq scan.found
    /\ scan.found \subseteq during.some
=============================================================================
