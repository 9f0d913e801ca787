----------------------------- MODULE BuddyTest -----------------------------
(***************************************************************************)
(* The kernel's own test of the allocator, debug_test_buddy_allocator in   *)
(* src/kernel/debug/debug_tests.c: a client that makes one fixed sequence  *)
(* of calls.  Sizes are in pages.                                          *)
(***************************************************************************)
EXTENDS BuddyAllocator

CONSTANT NUM_BLOCKS    \* small blocks the test allocates, an even number

ASSUME BlocksAssumption ==
  /\ NUM_BLOCKS \in Nat /\ NUM_BLOCKS % 2 = 0
  /\ {1, 2, 4, 8, 32} \subseteq RequestSizes

VARIABLES step,     \* the next call of the test
          local     \* the addresses in its local variables, by name

testVars == <<vars, step, local>>

(* addr1, addr2, addr3, large_addr and medium_addr have negative names,    *)
(* the array addresses has the names 0 .. NUM_BLOCKS-1.                    *)
addr1 == -1
addr2 == -2
addr3 == -3
large_addr == -4
medium_addr == -5

Locals == -5 .. (NUM_BLOCKS - 1)

Alloc(name, pages) == [call |-> "alloc", name |-> name, pages |-> pages]
Free(name)         == [call |-> "free", name |-> name, pages |-> 0]

Calls ==
  <<Alloc(addr1, 1), Alloc(addr2, 2), Alloc(addr3, 4),
    Free(addr1), Free(addr2), Free(addr3),
    Alloc(large_addr, 32), Free(large_addr)>>
  \o [i \in 1 .. NUM_BLOCKS |-> Alloc(i - 1, 1)]
  \o [i \in 1 .. (NUM_BLOCKS \div 2) |-> Free(2 * i - 2)]
  \o <<Alloc(medium_addr, 8)>>
  \o [i \in 1 .. (NUM_BLOCKS \div 2) |-> Free(2 * i - 1)]
  \o <<Free(medium_addr)>>

Done == step > Len(Calls)

-----------------------------------------------------------------------------
TestInit == Init /\ step = 1 /\ local = [name \in Locals |-> 0]

Boot ==
  /\ \E p \in Pools : InitCall(p.start, p.bytes)
  /\ UNCHANGED <<step, local>>

TestAlloc ==
  /\ ~ Done /\ Calls[step].call = "alloc"
  /\ AllocCall(Calls[step].pages)
  /\ UNCHANGED <<step, local>>

(* What pmm_alloc returned is kept; 0 when there was no block.             *)
Returned ==
  /\ \/ TakeBlock /\ local' = [local EXCEPT ![Calls[step].name] = Head(free_lists[level])]
     \/ SearchFailed /\ local' = [local EXCEPT ![Calls[step].name] = 0]
  /\ step' = step + 1

(* The test frees what it kept without looking at it.  There is no step    *)
(* for a free of anything but a block it holds.                            *)
TestFree ==
  /\ ~ Done /\ Calls[step].call = "free"
  /\ \E block \in held : block.addr = local[Calls[step].name] /\ FreeCall(block)
  /\ step' = step + 1
  /\ UNCHANGED local

Running ==
  /\ \/ CreateBlock \/ InitDone \/ SearchFound \/ SplitBlock
     \/ MergeBuddy \/ InsertBlock
  /\ UNCHANGED <<step, local>>

TestNext == Boot \/ TestAlloc \/ Returned \/ TestFree \/ Running

(* The test runs on, as the kernel does.                                   *)
TestSpec == TestInit /\ [][TestNext]_testVars /\ WF_testVars(TestNext)

-----------------------------------------------------------------------------
(* The call the test makes next is a free of this address.                 *)
FreesNext(freed) ==
  pc = "idle" /\ ~ Done /\ Calls[step].call = "free" /\ local[Calls[step].name] = freed

(* What the test frees, when it was given something, is a block it holds:  *)
(* splits and merges for other calls never change what its address means.  *)
FreesItsBlocks ==
  \A name \in Locals : FreesNext(local[name]) /\ local[name] # 0 =>
    \E block \in held : block.addr = local[name]

(* The test comes to its end, and then every page of the pool is free;     *)
(* unless the pool is so small that it is about to free nothing.           *)
TestEnds ==
  <>[](\/ Done /\ pc = "idle" /\ held = {} /\ FreeBytes = pool_size
       \/ FreesNext(0))
=============================================================================
