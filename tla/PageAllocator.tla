--------------------------- MODULE PageAllocator ---------------------------
(***************************************************************************)
(* What the physical memory manager promises its callers (pmm.h): a block  *)
(* of memory that nobody else holds, large enough for what was asked, and  *)
(* valid until the caller gives it back.  Nothing is said here of orders,  *)
(* free lists, headers or buddies.  BuddyAllocator is shown to implement   *)
(* this module.                                                            *)
(***************************************************************************)
EXTENDS Blocks

CONSTANT MaxBlock    \* the largest block there is, in bytes

VARIABLES lo, hi,    \* the pool is the bytes lo .. hi-1; empty until set up
          held,      \* the blocks in callers' hands
          pending    \* the size being served, -1 when there is none

vars == <<lo, hi, held, pending>>

(***************************************************************************)
(* A block held is a record [addr, got, asked]: got bytes from address     *)
(* addr on, handed out for a request of asked bytes.                       *)
(***************************************************************************)

Init == lo = 0 /\ hi = 0 /\ held = {} /\ pending = -1

(* The pool is set up once, before the first request.                      *)
SetUp ==
  /\ hi = 0
  /\ lo' \in Nat /\ hi' \in Nat /\ hi' >= lo'
  /\ UNCHANGED <<held, pending>>

Request ==
  /\ hi > 0 /\ pending = -1
  /\ pending' \in Nat
  /\ UNCHANGED <<lo, hi, held>>

(* The block is new memory, and covers the request if any block can.       *)
Grant ==
  /\ pending >= 0
  /\ \E block \in held' :
       /\ block.asked = pending
       /\ block.got > 0 /\ lo <= block.addr /\ block.addr + block.got <= hi
       /\ \A other \in held : Apart(block, other)
       /\ pending <= MaxBlock => block.got >= pending
       /\ held' = held \cup {block}
  /\ pending' = -1
  /\ UNCHANGED <<lo, hi>>

Refuse ==
  /\ pending >= 0
  /\ pending' = -1
  /\ UNCHANGED <<lo, hi, held>>

Release ==
  /\ pending = -1
  /\ \E block \in held : held' = held \ {block}
  /\ UNCHANGED <<lo, hi, pending>>

Next == SetUp \/ Request \/ Grant \/ Refuse \/ Release

Spec == Init /\ [][Next]_vars
=============================================================================
