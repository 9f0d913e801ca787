-------------------------------- MODULE Pmm --------------------------------
(***************************************************************************)
(* The physical memory manager (src/kernel/memory/pmm.c): it reads the     *)
(* memory map the bootloader left, gives the first usable region to the    *)
(* buddy allocator, at its address in the higher half, and passes calls    *)
(* on.  The allocator is BuddyAllocator; here its pool comes from a map.   *)
(***************************************************************************)
EXTENDS BuddyAllocator

CONSTANTS MemoryMaps,    \* sequences of entries [base, length, type]
          Offsets        \* where the bootloader may map physical memory

VARIABLES entries, hhdm_offset,            \* what the bootloader answered
          total_memory, usable_memory      \* the statics of pmm.c

boot    == <<entries, hhdm_offset>>
totals  == <<total_memory, usable_memory>>
pmmVars == <<vars, boot, totals>>

(* LIMINE_MEMMAP_USABLE and the regions that are in use.                   *)
MemoryTypes == {"usable", "reserved", "acpi", "bootloader", "kernel", "framebuffer"}

IsUsable(entry) == entry.type = "usable"

UsableEntries(map) == {i \in DOMAIN map : IsUsable(map[i])}

SumOfLengths(map, indices) ==
  SumFunctionOnSet([i \in DOMAIN map |-> map[i].length], indices)

phys_to_virt(phys, offset) == phys + offset

(* Mutant: the sum of the usable regions.                                  *)
pool_size_of_all(map) == SumOfLengths(map, UsableEntries(map))

(* The loop that stops at the first usable entry; zeros if there is none.  *)
first_usable(map) == SelectInSeq(map, IsUsable)

usable_memory_start(map) ==
  IF first_usable(map) = 0 THEN 0 ELSE map[first_usable(map)].base

usable_memory_pool_size(map) ==
  IF first_usable(map) = 0 THEN 0 ELSE map[first_usable(map)].length

PoolOf(map, offset) ==
  [start |-> phys_to_virt(usable_memory_start(map), offset),
   bytes |-> usable_memory_pool_size(map)]

(* Maps are well typed, the direct map is in the higher half and not at    *)
(* zero, and the pools are those of the maps.                              *)
ASSUME MapsAssumption ==
  /\ Offsets \subseteq Nat \ {0}
  /\ MemoryMaps \subseteq Seq([base : Nat, length : Nat, type : MemoryTypes])
  /\ Pools = {PoolOf(map, offset) : map \in MemoryMaps, offset \in Offsets}

-----------------------------------------------------------------------------
PmmInit ==
  /\ Init
  /\ entries \in MemoryMaps /\ hhdm_offset \in Offsets
  /\ total_memory = 0 /\ usable_memory = 0

(* Mutant: all entries count as usable.                                    *)
pmm_initialize_all ==
  LET p == PoolOf(entries, hhdm_offset) IN
  /\ InitCall(p.start, p.bytes)
  /\ total_memory'  = SumOfLengths(entries, DOMAIN entries)
  /\ usable_memory' = total_memory'
  /\ UNCHANGED boot

(* The two loops over the map, and the call of buddy_allocator_init.       *)
pmm_initialize ==
  LET p == PoolOf(entries, hhdm_offset) IN
  /\ InitCall(p.start, p.bytes)
  /\ total_memory'  = SumOfLengths(entries, DOMAIN entries)
  /\ usable_memory' = SumOfLengths(entries, UsableEntries(entries))
  /\ UNCHANGED boot

pmm_alloc(bytes) == AllocCall(bytes) /\ UNCHANGED <<boot, totals>>

pmm_free(block) == FreeCall(block) /\ UNCHANGED <<boot, totals>>

(* The allocator works on a call.                                          *)
Work == Internal /\ UNCHANGED <<boot, totals>>

PmmNext ==
  \/ pmm_initialize
  \/ \E bytes \in RequestSizes : pmm_alloc(bytes)
  \/ \E block \in held : pmm_free(block)
  \/ Work

PmmSpec == PmmInit /\ [][PmmNext]_pmmVars

(* The allocator runs on one processor, with nothing that could keep it    *)
(* from its next instruction; callers may stop calling.                    *)
PmmFairSpec == PmmSpec /\ WF_pmmVars(Work)

-----------------------------------------------------------------------------
(* Every byte in a caller's hands, at its physical address, is in a region *)
(* the bootloader called usable: never in the kernel's image, a device's   *)
(* memory or a hole, at the end of the region as well as at its start.     *)
OnlyUsableMemory ==
  \A b \in held : \E i \in DOMAIN entries :
    /\ IsUsable(entries[i])
    /\ entries[i].base <= b.addr - hhdm_offset
    /\ b.addr - hhdm_offset + b.got <= entries[i].base + entries[i].length

(* Memory the manager logs as usable is on the free lists, in callers'     *)
(* hands, in the part of a page at the end of the pool, or in one of the   *)
(* usable regions after the first, which no caller ever gets.              *)
UsableAccounted ==
  pc = "idle" =>
    usable_memory = FreeBytes + HeldBytes + (pool_size % PAGE_SIZE)
      + SumOfLengths(entries, UsableEntries(entries) \ {first_usable(entries)})

(* A pool that starts on a boundary of the largest block hands out blocks  *)
(* whose physical address is a multiple of their length, if the direct map *)
(* is on such a boundary too: what large pages and DMA buffers need.       *)
PhysicallyAligned ==
  Aligned /\ hhdm_offset % BlockSize(MAX_ORDER) = 0 =>
    \A b \in held : (b.addr - hhdm_offset) % b.got = 0
=============================================================================
