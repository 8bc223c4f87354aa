---------------------------- MODULE RecentTrail ----------------------------
(***************************************************************************)
(* What System.RecentPCs promises the debug view: the addresses of the     *)
(* instructions executed since the last reset, newest first, never more    *)
(* than PCHistoryLen of them.  Kim1System implements it with a ring.       *)
(***************************************************************************)
EXTENDS Naturals, Sequences

CONSTANTS
    Addr,
    PCHistoryLen

VARIABLE recent     \* recent[1] is the newest address

(* The length of a trail of n addresses once one more is added. *)
Capped(n) == IF n < PCHistoryLen THEN n + 1 ELSE PCHistoryLen

Init == recent = <<>>

(* One more instruction, fetched from address a, was executed: it becomes  *)
(* the newest and, once the trail is full, the oldest drops out.           *)
Executed(a) ==
    recent' = [i \in 1 .. Capped(Len(recent)) |->
                  IF i = 1 THEN a ELSE recent[i - 1]]

Forgotten == recent' = <<>>

Next == Forgotten \/ \E a \in Addr : Executed(a)

Spec == Init /\ [][Next]_recent
=============================================================================
