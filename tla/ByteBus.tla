------------------------------- MODULE ByteBus -------------------------------
(***************************************************************************)
(* What a host and a card that exchange whole bytes promise each other,    *)
(* whatever the lines between them do: the bytes the host asks for reach   *)
(* the card in order and unchanged, for each of them the host hears the    *)
(* byte the card had ready, and a deselection wipes the slate -- except    *)
(* for the byte the card has ready, which it gives in the next exchange.   *)
(***************************************************************************)
EXTENDS Naturals, Sequences

CONSTANT Byte

VARIABLES
    asked,      \* the bytes the host has begun to send since it was selected
    wire,       \* the exchanges: what the card took and what it drove
    heard,      \* the bytes the host has received
    ready       \* the byte the card drives next

busVars == <<asked, wire, heard, ready>>

BusInit ==
    /\ asked = <<>>
    /\ wire = <<>>
    /\ heard = <<>>
    /\ ready \in Byte

Ask(b) ==
    /\ Len(asked) = Len(heard)
    /\ asked' = Append(asked, b)
    /\ UNCHANGED <<wire, heard, ready>>

Take(answer) ==
    /\ Len(wire) < Len(asked)
    /\ wire' = Append(wire, [took |-> asked[Len(asked)], drove |-> ready])
    /\ ready' = answer
    /\ UNCHANGED <<asked, heard>>

Hear ==
    /\ Len(heard) < Len(wire)
    /\ heard' = Append(heard, wire[Len(wire)].drove)
    /\ UNCHANGED <<asked, wire, ready>>

Drop ==
    /\ asked' = <<>>
    /\ wire' = <<>>
    /\ heard' = <<>>
    /\ UNCHANGED ready

BusNext == (\E b \in Byte : Ask(b) \/ Take(b)) \/ Hear \/ Drop

BusSpec == BusInit /\ [][BusNext]_busVars
=============================================================================
