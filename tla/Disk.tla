-------------------------------- MODULE Disk --------------------------------
(***************************************************************************)
(* What the card and the driver of SdHost promise a program that asks for  *)
(* blocks, one at a time: a block read is the contents of its sector, a    *)
(* block reported as written is in its sector, and nothing but a write to  *)
(* it changes a sector.  A write that is not reported as done leaves its   *)
(* sector torn: anything may still reach it.  No bytes, tokens, answers or *)
(* restarts are mentioned.                                                 *)
(***************************************************************************)
CONSTANTS
    Places,     \* the disk's sectors
    Numbers,    \* the sector numbers asked for, some of them no sector's
    Data,       \* what a sector may hold
    None        \* no block

VARIABLES
    contents,   \* per sector, its block
    torn,       \* sectors with a write under way or given up
    request,    \* what was asked for last, if it is not done yet
    answer      \* the block read, until the next request

diskVars == <<contents, torn, request, answer>>

NoRequest == [op |-> "none", sector |-> None, block |-> None]
Reads == [op : {"read"}, sector : Numbers, block : {None}]
Writes == [op : {"write"}, sector : Numbers, block : Data]

DiskInit ==
    /\ contents \in [Places -> Data]
    /\ torn = {}
    /\ request = NoRequest
    /\ answer = None

Ask(some) ==
    /\ request = NoRequest
    /\ request' \in some
    /\ answer' = None
    /\ UNCHANGED contents

AskRead == Ask(Reads) /\ UNCHANGED torn
AskWrite == Ask(Writes) /\ torn' = torn \cup ({request'.sector} \cap Places)

ReadDone ==
    /\ request \in Reads
    /\ request.sector \in Places
    /\ answer' = contents[request.sector]
    /\ request' = NoRequest
    /\ UNCHANGED <<contents, torn>>

WriteDone ==
    /\ request \in Writes
    /\ request.sector \in Places
    /\ contents[request.sector] = request.block
    /\ torn' = torn \ {request.sector}
    /\ request' = NoRequest
    /\ UNCHANGED <<contents, answer>>

(* A request is refused, fails or is cut off: it is not done.              *)
GiveUp ==
    /\ request # NoRequest
    /\ request' = NoRequest
    /\ UNCHANGED <<contents, torn, answer>>

Forget ==
    /\ answer' = None
    /\ UNCHANGED <<contents, torn, request>>

(* The write under way, or the rest of one given up, reaches its sector.   *)
Settle ==
    /\ contents' \in [Places -> Data]
    /\ \E s \in torn : \A other \in Places \ {s} : contents'[other] = contents[other]
    /\ UNCHANGED <<torn, request, answer>>

DiskNext ==
    \/ AskRead \/ AskWrite
    \/ ReadDone \/ WriteDone \/ GiveUp \/ Forget \/ Settle

DiskSpec == DiskInit /\ [][DiskNext]_diskVars
=============================================================================
