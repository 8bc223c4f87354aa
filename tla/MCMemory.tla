------------------------------ MODULE MCMemory ------------------------------
(***************************************************************************)
(* Nine addresses, one of each region that can go wrong in its own way, in *)
(* the order of the KIM-1's map: what lies next to a device window is RAM, *)
(* and behind the vectors the addresses wrap round to RAM.                 *)
(***************************************************************************)
EXTENDS Memory

SmallMap ==
    [r \in Regions |->
        CASE r = "ram"     -> {0}
          [] r = "hole"    -> {1}
          [] r = "gap"     -> {2}
          [] r = "appIO"   -> {3}
          [] r = "kbdIO"   -> {4}
          [] r = "appRAM"  -> {5}
          [] r = "kbdROM"  -> {6}
          [] r = "exp"     -> {7}
          [] r = "vectors" -> {8}
          [] OTHER         -> {}]

Rec(type, addr, data) == [kind |-> "record", type |-> type, addr |-> addr, data |-> data]
Blank == [kind |-> "blank"]
Bad == [kind |-> "bad"]
EofLine == Rec("eof", 0, <<>>)
File(format, lines) == [format |-> format, lines |-> lines]

(* Files with: a terminator in the middle and a record across the devices; *)
(* one address hit twice; a record round the top of the address space; a   *)
(* bad last line; nothing but unmapped addresses; text behind the end      *)
(* record; an extended-address record; a length byte at its limit.         *)
SmallFiles ==
    { File("pap", <<Rec("data", 0, <<1>>), Blank, Rec("data", 5, <<>>), Rec("data", 3, <<1, 1, 0>>)>>),
      File("pap", <<Rec("data", 7, <<1, 1, 0>>), Rec("data", 7, <<0>>)>>),
      File("pap", <<Rec("data", 0, <<1>>), Bad>>),
      File("hex", <<Rec("data", 2, <<1, 1>>), Blank, Rec("eof", 0, <<>>)>>),
      File("hex", <<Rec("data", 5, <<1>>), Rec("data", 1, <<1>>), EofLine, Bad>>),
      File("hex", <<Rec("data", 0, <<1>>), Rec("extended", 0, <<>>), EofLine>>),
      File("hex", <<Rec("data", 0, <<1>>), Rec("data", 1, <<0, 1, 1>>), EofLine>>),
      File("other", <<Rec("data", 0, <<1>>)>>) }

Foreign == {[a \in Addr |-> 1]}
=============================================================================
