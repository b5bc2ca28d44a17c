----------------------------- MODULE MCBufCache -----------------------------
(* An instance of BufCache, with the history of BufLRU, for TLC: as many    *)
(* buffers as make a block hit, miss into each of the three lists, and be   *)
(* evicted and fetched again, and one block more than there are buffers, so *)
(* that there is a choice of victims.                                       *)
EXTENDS BufLRU

MCBlock == 0 .. 3

(* The client may also pass the -1 of an exhausted GetFreeBlock.            *)
MCCallInvalid == MCBlock \cup {INVALID}
=============================================================================
