------------------------------- MODULE Memory -------------------------------
(***************************************************************************)
(* The address space as it is shared by the running program and the        *)
(* browsers: the decoding of System.Read, Write and Peek, the loaders of   *)
(* paper-tape and Intel HEX files, the memory editor and viewer, and       *)
(* snapshots.                                                              *)
(*                                                                         *)
(* An address belongs to one region of the memory map.  An I/O window is   *)
(* reduced to what a stray access would damage, its timer: a store starts  *)
(* it and clears its flag, a read clears the flag.  Every browser request  *)
(* runs under Server.mu and is one step.  A line of a file is what its     *)
(* text amounts to: blank, malformed, or a record.                         *)
(***************************************************************************)
EXTENDS Integers, FiniteSets, Sequences

CONSTANTS
    AddressSpace,   \* number of addresses (65536)
    Map,            \* the addresses of each region
    Byte,           \* values of a memory byte
    RomByte,        \* what the ROMs hold
    Expanded,       \* whether EnableExpansionRAM was called
    LengthValues,   \* values of a HEX record's length byte (256)
    PageSize,       \* bytes the memory viewer shows (memViewBytes)
    MaxInstr,       \* length of the longest instruction
    Files,          \* the files browsers load: format and lines
    Images          \* posted snapshots that were not saved here

Addr == 0 .. AddressSpace - 1

Regions == {"ram", "hole", "gap", "appIO", "kbdIO", "appRAM", "kbdRAM",
            "appROM", "kbdROM", "exp", "vectors"}
IOWindows == {"appIO", "kbdIO"}

ASSUME MapAssumption ==
    /\ AddressSpace \in Nat \ {0}
    /\ Map \in [Regions -> SUBSET Addr]
    /\ \A a \in Addr : \E r \in Regions : a \in Map[r]
    /\ \A r, q \in Regions : r # q => Map[r] \cap Map[q] = {}

(* A line is blank, bad or a record; a HEX record has a type. *)
Line ==
    [kind : {"blank", "bad"}]
    \cup [kind : {"record"}, type : {"data", "eof", "extended"}, addr : Addr, data : Seq(Byte)]

ASSUME FilesAssumption == \A file \in Files : file.lines \in Seq(Line)

ASSUME ContentsAssumption ==
    /\ 0 \in Byte /\ RomByte \in Byte
    /\ Expanded \in BOOLEAN
    /\ LengthValues \in Nat \ {0}
    /\ PageSize \in Nat \ {0} /\ AddressSpace % PageSize = 0
    /\ MaxInstr \in Nat \ {0}
    /\ Images \subseteq [Addr -> Byte]

VARIABLES
    board,      \* mem: all RAM; reg, flag: of each I/O window
    view,       \* Server.memViewAddr
    reply,      \* what browsers were last sent: an answer, or a state message
    saved       \* a snapshot a browser saved; <<>> if none

(* History variable. *)
VARIABLE kept   \* the RAM when that snapshot was saved

memoryVars == <<board, view, reply, saved, kept>>

----------------------------------------------------------------------------
(* Address decoding. *)
RegionOf == [a \in Addr |-> CHOOSE r \in Regions : a \in Map[r]]

ExpansionRegions == {"hole", "exp"}
RamRegions == {"ram", "appRAM", "kbdRAM"} \cup (IF Expanded THEN ExpansionRegions ELSE {})
RamAddr == {a \in Addr : RegionOf[a] \in RamRegions}

(* What is stored there is dropped. *)
ReadOnlyRegions == {"appROM", "kbdROM", "vectors"}

(* Faulty variant: the range of the RIOTs' RAM and ROM begins too early.   *)
PeekableWithIO(a) == RegionOf[a] # "gap" /\ (Expanded \/ RegionOf[a] \notin ExpansionRegions)

(* Peek's ok: whether a can be read without side effects. *)
Peekable(a) ==
    \/ RegionOf[a] \in {"ram", "appRAM", "kbdRAM", "appROM", "kbdROM", "vectors"}
    \/ Expanded /\ RegionOf[a] \in ExpansionRegions

Contents(b, a) ==
    CASE RegionOf[a] \in RamRegions -> b.mem[a]
      [] RegionOf[a] \in {"appROM", "kbdROM", "vectors"} -> RomByte
      [] OTHER -> 0

(* What Write and Read do to the board. *)
Stored(b, a, v) ==
    CASE RegionOf[a] \in RamRegions -> [b EXCEPT !.mem[a] = v]
      [] RegionOf[a] \in IOWindows  -> [b EXCEPT !.reg[RegionOf[a]] = v,
                                                !.flag[RegionOf[a]] = FALSE]
      [] OTHER -> b

Fetched(b, a) ==
    IF RegionOf[a] \in IOWindows THEN [b EXCEPT !.flag[RegionOf[a]] = FALSE] ELSE b

(* Peek reads through Read wherever it calls an address readable. *)
Peeked(b, addrs) ==
    [b EXCEPT !.flag = [w \in IOWindows |->
        b.flag[w] /\ \A a \in addrs : RegionOf[a] = w => ~Peekable(a)]]

(* Faulty variant: pages are not aligned. *)
PageOfAsIs(a) == a

PageOf(a) == (a \div PageSize) * PageSize

----------------------------------------------------------------------------
(* Parsing. *)
HeaderLen == 4      \* length, address and type bytes before the data

Parsed(outcome, lines) == [outcome |-> outcome, records |-> lines]

(* ParsePAP: one bad line refuses the file; an empty record ends nothing.  *)
ParsePAP(lines) ==
    IF \E i \in DOMAIN lines : lines[i].kind = "bad"
    THEN Parsed("error", <<>>) ELSE Parsed("records", lines)

(* The end of a HEX record's data, computed in a byte, has wrapped below   *)
(* its start: taking the slice panics.                                     *)
Overlong(l) == (HeaderLen + Len(l.data)) % LengthValues < HeaderLen

PlainLine(l) ==
    \/ l.kind = "blank"
    \/ l.kind = "record" /\ l.type = "data" /\ ~Overlong(l)

(* ParseIntelHex: the first line that is not a plain data record decides. *)
ParseIntelHex(lines) ==
    LET odd == {i \in DOMAIN lines : ~PlainLine(lines[i])}
        stop == CHOOSE i \in odd : \A j \in odd : i <= j
    IN  IF odd = {} THEN Parsed("records", lines)
        ELSE CASE lines[stop].kind = "bad"    -> Parsed("error", <<>>)
               [] Overlong(lines[stop])       -> Parsed("panic", <<>>)
               [] lines[stop].type = "eof"    -> Parsed("records", SubSeq(lines, 1, stop - 1))
               [] OTHER                       -> Parsed("error", <<>>)

Parse(file) ==
    CASE file.format = "pap" -> ParsePAP(file.lines)
      [] file.format = "hex" -> ParseIntelHex(file.lines)
      [] OTHER               -> Parsed("error", <<>>)

----------------------------------------------------------------------------
(* LoadRecords.  Of the lines only the records carry bytes.                *)
Target(r, j) == [addr |-> (r.addr + j - 1) % AddressSpace, val |-> r.data[j]]

TargetBytes(r) ==
    IF r.kind = "record" THEN [j \in 1 .. Len(r.data) |-> Target(r, j)] ELSE <<>>

AllBytes(records) ==
    LET upTo[i \in 0 .. Len(records)] ==
            IF i = 0 THEN <<>> ELSE upTo[i - 1] \o TargetBytes(records[i])
    IN  upTo[Len(records)]

(* Faulty variant: the lowest address starts from the variable's zero.     *)
LoadByteFromZero(st, t) ==
    IF ~Peekable(t.addr) THEN [st EXCEPT !.skipped = @ + 1]
    ELSE [board   |-> Stored(Peeked(st.board, {t.addr}), t.addr, t.val),
          written |-> st.written + 1,
          skipped |-> st.skipped,
          min     |-> IF t.addr < st.min THEN t.addr ELSE st.min,
          max     |-> IF t.addr > st.max THEN t.addr ELSE st.max]

(* One round of the inner loop. *)
LoadByte(st, t) ==
    IF ~Peekable(t.addr) THEN [st EXCEPT !.skipped = @ + 1]
    ELSE [board   |-> Stored(Peeked(st.board, {t.addr}), t.addr, t.val),
          written |-> st.written + 1,
          skipped |-> st.skipped,
          min     |-> IF st.written = 0 \/ t.addr < st.min THEN t.addr ELSE st.min,
          max     |-> IF st.written = 0 \/ t.addr > st.max THEN t.addr ELSE st.max]

LoadRecords(b, records) ==
    LET bytes == AllBytes(records)
        after[i \in 0 .. Len(bytes)] ==
            IF i = 0 THEN [board |-> b, written |-> 0, skipped |-> 0, min |-> 0, max |-> 0]
            ELSE LoadByte(after[i - 1], bytes[i])
    IN  after[Len(bytes)]

----------------------------------------------------------------------------
(* The program, and the timers it reads. *)
NoReply == [outcome |-> "none", written |-> 0, skipped |-> 0, min |-> 0, max |-> 0]
Silent == UNCHANGED <<view, saved, kept>> /\ reply' = NoReply
Reply(outcome) == [NoReply EXCEPT !.outcome = outcome]
Answered == UNCHANGED <<view, saved, kept>> /\ reply' = Reply("done")

ProgramStores(a, v) == board' = Stored(board, a, v) /\ Silent

ProgramFetches(a) == board' = Fetched(board, a) /\ Silent

TimerUnderflows(w) == board' = [board EXCEPT !.flag[w] = TRUE] /\ Silent

Program ==
    \/ \E a \in Addr : ProgramFetches(a) \/ \E v \in Byte : ProgramStores(a, v)
    \/ \E w \in IOWindows : TimerUnderflows(w)

----------------------------------------------------------------------------
(* The state message.  The page a browser views, and the instructions of   *)
(* the trail, are peeked at; addresses wrap.                               *)
Following(a, n) == {(a + i) % AddressSpace : i \in 0 .. n - 1}

Message(b, outcome) ==
    /\ board' = Peeked(b, Following(view, PageSize))
    /\ reply' = Reply(outcome)
    /\ UNCHANGED <<view, saved, kept>>

(* The instruction at the address on the display is disassembled through   *)
(* System.Read, byte by byte (an operand of up to two).                    *)
FetchedAll(b, addrs) ==
    [b EXCEPT !.flag = [w \in IOWindows |-> b.flag[w] /\ \A a \in addrs : RegionOf[a] # w]]

ShowState ==
    \/ Message(board, "shown")      \* the digits are no address
    \/ \E a \in Addr, n \in 1 .. MaxInstr :
            Message(FetchedAll(board, Following(a, n)), "disassembled")

----------------------------------------------------------------------------
(* Browser requests. *)
MemWrite(a, v) ==
    /\ board' = IF Peekable(a) THEN Stored(Peeked(board, {a}), a, v) ELSE board
    /\ Answered

MemView(a) ==
    /\ view' = PageOf(a)
    /\ reply' = Reply("done")
    /\ UNCHANGED <<board, saved, kept>>

(* handleLoad.  A panic unwinds through the handler, which loses its       *)
(* connection; the deferred Unlock lets the machine go on.                 *)
Load(file) ==
    LET parsed == Parse(file)
        st == LoadRecords(board, parsed.records)
        Answer(outcome) == [outcome |-> outcome, written |-> st.written,
                            skipped |-> st.skipped, min |-> st.min, max |-> st.max]
    IN  /\ UNCHANGED <<saved, kept>>
        /\ board' = st.board
        /\ view' = IF st.written = 0 THEN view ELSE PageOf(st.min)
        /\ reply' = IF parsed.outcome # "records" THEN Reply(parsed.outcome)
                    ELSE Answer(IF st.written = 0 THEN "empty" ELSE "loaded")

SaveSnapshot ==
    /\ saved' = [a \in Addr |-> IF Peekable(a) THEN Contents(board, a) ELSE 0]
    /\ kept' = [a \in RamAddr |-> board.mem[a]]
    /\ board' = Peeked(board, Addr)
    /\ reply' = Reply("done")
    /\ UNCHANGED view

(* Faulty variant: of the expansion RAM only the upper window comes back.  *)
RestoredRegionsNoHole == RamRegions \ {"hole"}

(* The address ranges RestoreSnapshot writes. *)
RestoredRegions == {"ram", "appRAM", "kbdRAM"} \cup (IF Expanded THEN ExpansionRegions ELSE {})

(* The reset that follows is ClientReset of the machine. *)
Restore(image) ==
    /\ board' = [mem  |-> [a \in RamAddr |->
                    IF RegionOf[a] \in RestoredRegions THEN image[a] ELSE board.mem[a]],
                  reg  |-> board.reg,
                  flag |-> board.flag]
    /\ Answered

RestoreSaved == saved # <<>> /\ Restore(saved)

Requests ==
    \/ \E a \in Addr : MemView(a) \/ \E v \in Byte : MemWrite(a, v)
    \/ \E file \in Files : Load(file)
    \/ SaveSnapshot
    \/ RestoreSaved
    \/ \E image \in Images : Restore(image)

----------------------------------------------------------------------------
MemoryInit ==
    /\ board = [mem |-> [a \in RamAddr |-> 0], reg |-> [w \in IOWindows |-> 0],
                flag |-> [w \in IOWindows |-> FALSE]]
    /\ view = 0
    /\ reply = NoReply
    /\ saved = <<>>
    /\ kept = board.mem

MemoryNext == Program \/ ShowState \/ Requests

MemorySpec == MemoryInit /\ [][MemoryNext]_memoryVars

----------------------------------------------------------------------------
(* Properties. *)

(* Every cell holds a byte, and the viewed window is one of the pages the  *)
(* address space divides into, whatever a browser or a load asks for.      *)
MemTypeOK ==
    /\ board \in [mem: [RamAddr -> Byte], reg: [IOWindows -> Byte], flag: [IOWindows -> BOOLEAN]]
    /\ view \in Addr /\ view % PageSize = 0
    /\ view + PageSize - 1 \in Addr
    /\ saved = <<>> \/ saved \in [Addr -> Byte]

(* No browser request reaches a device: neither a loaded file, an edit,    *)
(* the page viewed with every state, a saved nor a restored snapshot       *)
(* writes a register or takes a timer flag from the program (loader.go:    *)
(* "can't sneak in a port write or reset a timer's countdown").            *)
ClientsLeaveIO ==
    [][reply'.outcome \notin {"none", "disassembled"} =>
            board'.reg = board.reg /\ board'.flag = board.flag]_memoryVars

(* What is disassembled for the browsers leaves the devices alone          *)
(* (server.go: "so disassembling never triggers I/O register read side     *)
(* effects").  The code keeps to this for the trail only: while the        *)
(* display shows an address of an I/O window, every state message takes    *)
(* that window's timer flag from the program.                              *)
ShowingLeavesIO ==
    [][reply'.outcome \in {"shown", "disassembled"} =>
            board'.reg = board.reg /\ board'.flag = board.flag]_memoryVars

(* Whatever the program and the browsers did in between, restoring a saved *)
(* snapshot brings back every byte of RAM the board has.                   *)
RestoreBrings == [][RestoreSaved => board'.mem = kept]_memoryVars

(* A file is loaded whole or not at all.  What it aims at RAM lands: of    *)
(* the bytes aimed at one cell, also round the top of the address space,   *)
(* the last one stays, and no other cell changes.  What it aims at the     *)
(* ROMs or the vectors is dropped, and what it aims elsewhere is skipped.  *)
(* The answer counts the dropped bytes with those that landed (LoadStats   *)
(* says Written is "how many bytes actually landed in memory"); its bounds *)
(* are those of all the addresses counted, and the viewer moves to the     *)
(* lowest of them.                                                         *)
AsAimed(bytes, landed, dropped) ==
    LET addrs  == {bytes[i].addr : i \in landed \cup dropped}
        At(a)  == {i \in landed : bytes[i].addr = a}
        LastAt(a) == CHOOSE i \in At(a) : \A j \in At(a) : j <= i
    IN  /\ \A a \in RamAddr : board'.mem[a] =
                IF At(a) = {} THEN board.mem[a] ELSE bytes[LastAt(a)].val
        /\ reply'.written = Cardinality(landed) + Cardinality(dropped)
        /\ reply'.written + reply'.skipped = Len(bytes)
        /\ {reply'.min, reply'.max} \subseteq addrs
        /\ \A a \in addrs : reply'.min <= a /\ a <= reply'.max
        /\ reply'.min - view' \in 0 .. PageSize - 1

LoadedAsAimed(file) ==
    LET bytes == AllBytes(Parse(file).records)
        AimedAt(regions) == {i \in DOMAIN bytes : RegionOf[bytes[i].addr] \in regions}
    IN  AsAimed(bytes, AimedAt(RamRegions), AimedAt(ReadOnlyRegions))

LoadExact ==
    [][/\ reply'.outcome \in {"error", "panic", "empty"} => UNCHANGED <<board, view>>
       /\ reply'.outcome = "loaded" =>
              \A file \in Files : Load(file) => LoadedAsAimed(file)]_memoryVars

(* A record of any length its length byte can express is read or refused   *)
(* (loader.go: "parses a standard Intel HEX image").  The code panics when *)
(* the end of the data, computed in a byte, wraps.                         *)
WellFormedLoads == reply.outcome # "panic"
=============================================================================
