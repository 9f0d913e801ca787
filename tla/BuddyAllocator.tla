--------------------------- MODULE BuddyAllocator ---------------------------
(***************************************************************************)
(* The buddy allocator of the Mirus kernel (src/kernel/memory/buddy.c).    *)
(*                                                                         *)
(* A pool of memory is cut into blocks of PAGE_SIZE * 2^order bytes.  Each *)
(* order has a free list, and the first words of a block hold its list     *)
(* link and its size, whether the block is free or in a caller's hands:    *)
(* the allocator reads the size back when the block is freed.              *)
(*                                                                         *)
(* One action is one call, one loop iteration or one return of the C code, *)
(* so that the loops that split and merge can be looked at in every        *)
(* intermediate state.  A free list is the sequence of the addresses on    *)
(* it, first element first.                                                *)
(***************************************************************************)
EXTENDS Blocks, Sequences, SequencesExt

CONSTANTS PAGE_SIZE,      \* bytes in a page
          MAX_ORDER,      \* the largest order
          Pools,          \* records [start, bytes]: pools the kernel may boot with
          RequestSizes    \* sizes in bytes callers ask for

Orders == 0 .. MAX_ORDER

(* PAGE_SIZE << order, as the code writes it in split_block and in init.   *)
BlockSize(order) == PAGE_SIZE * 2^order

ASSUME SizesAssumption ==
  /\ PAGE_SIZE \in Nat \ {0}
  /\ MAX_ORDER \in Nat
  /\ RequestSizes \subseteq Nat
  /\ Pools \subseteq [start : Nat \ {0}, bytes : Nat]

(* Powers of two up to the largest order: TLC evaluates this for the values *)
(* it is given, the proofs start from it.                                  *)
ASSUME PowersAssumption ==
  /\ 2^0 = 1
  /\ \A o \in Orders : 2^o \in Nat \ {0}
  /\ \A o \in Orders : o < MAX_ORDER => 2^(o + 1) = 2 * 2^o
  /\ \A o, p \in Orders : o < p => 2^o < 2^p

VARIABLES
  start_address, pool_size, free_lists,    \* struct BuddyAllocator
  size,         \* size[a]: the size word of the block header at address a
  held,         \* blocks callers hold: records [addr, got, asked]
  pc,           \* the loop the code is in, "idle" between calls
  order,        \* local variable of allocate and free
  level,        \* local variable i of allocate
  address,      \* address of free, current_address of init
  request,      \* size argument of allocate
  remaining     \* remaining_size of init

pool   == <<start_address, pool_size>>
locals == <<order, level, address, request, remaining>>
vars   == <<pool, free_lists, size, held, pc, locals>>

-----------------------------------------------------------------------------
(* Mutant: the loop stops one order early.                                 *)
find_order_short(bytes, o) ==
  /\ \A p \in Orders : p < o => 2 * BlockSize(p) < bytes
  /\ 2 * BlockSize(o) >= bytes \/ o = MAX_ORDER

(* find_order leaves its loop with order o: every smaller block is too     *)
(* small, and this one is large enough or the largest there is.            *)
find_order(bytes, o) ==
  /\ \A p \in Orders : p < o => BlockSize(p) < bytes
  /\ BlockSize(o) >= bytes \/ o = MAX_ORDER

(* Mutant: the buddy is taken to be the block that follows.                *)
find_buddy_above(addr, bytes) == addr + bytes

(* addr ^ bytes, for bytes a power of two: one bit of the address flips.   *)
find_buddy(addr, bytes) ==
  IF (addr \div bytes) % 2 = 0 THEN addr + bytes ELSE addr - bytes

(* Of a block and its buddy the lower one becomes the merged block.        *)
MergedAtOwn(addr, buddy) == addr    \* mutant: the block keeps its address
Merged(addr, buddy) == IF buddy < addr THEN buddy ELSE addr

(* Both halves of a block get a header.                                    *)
HeadFirstHalf(sizes, block, buddy, half) ==    \* mutant: only the first does
  [sizes EXCEPT ![block] = half]
HeadHalves(sizes, block, buddy, half) ==
  [sizes EXCEPT ![block] = half, ![buddy] = half]

(* Mutant: any block that is larger than a page will do.                   *)
LooseFit(bytes, o) ==
  /\ PAGE_SIZE <= bytes
  /\ \A p \in Orders : p > o => BlockSize(p) > 2 * bytes

(* init takes the largest block that fits in what is left of the pool.     *)
LargestFit(bytes, o) ==
  /\ BlockSize(o) <= bytes
  /\ \A p \in Orders : p > o => BlockSize(p) > bytes

(* A block goes in front of the list of its order.                         *)
PushAlone(lists, o, addr) ==    \* mutant: block->next is not set
  [lists EXCEPT ![o] = <<addr>>]
Push(lists, o, addr) == [lists EXCEPT ![o] = Cons(addr, @)]

(* Locals go out of scope when a function returns.                         *)
Return ==
  /\ pc' = "idle"
  /\ order' = 0 /\ level' = 0 /\ address' = 0 /\ request' = 0 /\ remaining' = 0

-----------------------------------------------------------------------------
(* The struct is static, hence zero, until init is called.                 *)
Init ==
  /\ start_address = 0 /\ pool_size = 0
  /\ free_lists = [o \in Orders |-> <<>>]
  /\ size = <<>>
  /\ held = {}
  /\ pc = "off"
  /\ order = 0 /\ level = 0 /\ address = 0 /\ request = 0 /\ remaining = 0

(* buddy_allocator_init: the struct is set up.  The memory holds anything; *)
(* 0 stands for it, and no header is read before it is written.            *)
InitCall(start, bytes) ==
  /\ pc = "off"
  /\ start_address' = start /\ pool_size' = bytes
  /\ free_lists' = [o \in Orders |-> <<>>]
  /\ size' = [a \in start .. (start + bytes - 1) |-> 0]
  /\ address' = start /\ remaining' = bytes
  /\ pc' = "init"
  /\ UNCHANGED <<held, order, level, request>>

(* One iteration of the loop of init.                                      *)
CreateBlock ==
  /\ pc = "init" /\ remaining >= PAGE_SIZE
  /\ \E o \in Orders :
       /\ LargestFit(remaining, o)
       /\ size' = [size EXCEPT ![address] = BlockSize(o)]
       /\ free_lists' = Push(free_lists, o, address)
       /\ address' = address + BlockSize(o)
       /\ remaining' = remaining - BlockSize(o)
  /\ UNCHANGED <<pool, held, pc, order, level, request>>

InitDone ==
  /\ pc = "init" /\ remaining < PAGE_SIZE
  /\ Return
  /\ UNCHANGED <<pool, free_lists, size, held>>

-----------------------------------------------------------------------------
(* buddy_allocator_allocate.                                               *)
AllocCall(bytes) ==
  /\ pc = "idle"
  /\ \E o \in Orders : find_order(bytes, o) /\ order' = o
  /\ request' = bytes
  /\ pc' = "search"
  /\ UNCHANGED <<pool, free_lists, size, held, level, address, remaining>>

SearchFound ==
  /\ pc = "search"
  /\ \E i \in order .. MAX_ORDER :
       /\ free_lists[i] # <<>>
       /\ \A j \in order .. (i - 1) : free_lists[j] = <<>>
       /\ level' = i
  /\ pc' = "split"
  /\ UNCHANGED <<pool, free_lists, size, held, order, address, request, remaining>>

(* Mutant: no block of the order itself, and no larger one is tried.       *)
SearchFailedHere ==
  /\ pc = "search"
  /\ free_lists[order] = <<>>
  /\ Return
  /\ UNCHANGED <<pool, free_lists, size, held>>

(* No suitable block: the caller gets 0.                                   *)
SearchFailed ==
  /\ pc = "search"
  /\ \A i \in order .. MAX_ORDER : free_lists[i] = <<>>
  /\ Return
  /\ UNCHANGED <<pool, free_lists, size, held>>

(* Mutant: i is not decremented, and split_block gives up when the list is *)
(* empty.                                                                  *)
SplitForever ==
  /\ pc = "split" /\ level > order
  /\ free_lists' = [free_lists EXCEPT ![level] = IF @ = <<>> THEN @ ELSE Tail(@)]
  /\ UNCHANGED <<pool, size, held, pc, locals>>

(* One iteration of the splitting loop: split_block(allocator, i), i--.    *)
SplitBlock ==
  LET block == Head(free_lists[level])
      half  == BlockSize(level - 1)
      buddy == block + half
  IN
  /\ pc = "split" /\ level > order
  /\ size' = HeadHalves(size, block, buddy, half)
  /\ free_lists' = [free_lists EXCEPT ![level] = Tail(@),
                                      ![level - 1] = <<block, buddy>> \o @]
  /\ level' = level - 1
  /\ UNCHANGED <<pool, held, pc, order, address, request, remaining>>

(* Mutant: the block stays on its list.                                    *)
TakeLinkedBlock ==
  /\ pc = "split" /\ level = order
  /\ held' = held \cup {[addr |-> Head(free_lists[level]),
                         got |-> size[Head(free_lists[level])], asked |-> request]}
  /\ Return
  /\ UNCHANGED <<pool, free_lists, size>>

(* The block is unlinked and its address returned.                         *)
TakeBlock ==
  LET block == Head(free_lists[level]) IN
  /\ pc = "split" /\ level = order
  /\ free_lists' = [free_lists EXCEPT ![level] = Tail(@)]
  /\ held' = held \cup {[addr |-> block, got |-> size[block], asked |-> request]}
  /\ Return
  /\ UNCHANGED <<pool, size>>

-----------------------------------------------------------------------------
(* buddy_allocator_free of a block the caller holds.                       *)
FreeCall(block) ==
  /\ pc = "idle"
  /\ held' = held \ {block}
  /\ address' = block.addr
  /\ \E o \in Orders : find_order(size[block.addr], o) /\ order' = o
  /\ pc' = "merge"
  /\ UNCHANGED <<pool, free_lists, size, level, request, remaining>>

(* One iteration of the merging loop: the buddy is on the list of this     *)
(* order; it is unlinked and the lower of the two becomes the block.       *)
MergeBuddy ==
  LET buddy == find_buddy(address, size[address])
      lower == Merged(address, buddy)
  IN
  /\ pc = "merge" /\ order < MAX_ORDER
  /\ \E k \in DOMAIN free_lists[order] :
       /\ free_lists[order][k] = buddy
       /\ \A j \in 1 .. (k - 1) : free_lists[order][j] # buddy
       /\ free_lists' = [free_lists EXCEPT ![order] = RemoveAt(@, k)]
  /\ size' = [size EXCEPT ![lower] = 2 * @]
  /\ address' = lower
  /\ order' = order + 1
  /\ UNCHANGED <<pool, held, pc, level, request, remaining>>

(* Mutant: the loop may end although the buddy is free.                    *)
InsertUnmerged ==
  /\ pc = "merge"
  /\ free_lists' = Push(free_lists, order, address)
  /\ Return
  /\ UNCHANGED <<pool, size, held>>

(* The loop ends and the merged block goes on the list of its order.       *)
InsertBlock ==
  /\ pc = "merge"
  /\ \/ order = MAX_ORDER
     \/ ~ Contains(free_lists[order], find_buddy(address, size[address]))
  /\ free_lists' = Push(free_lists, order, address)
  /\ Return
  /\ UNCHANGED <<pool, size, held>>

-----------------------------------------------------------------------------
(* What the code does by itself once it has been called.                   *)
Internal ==
  \/ CreateBlock \/ InitDone
  \/ SearchFound \/ SearchFailed \/ SplitBlock \/ TakeBlock
  \/ MergeBuddy \/ InsertBlock

(* What callers may do once the pool is there.                             *)
Client ==
  \/ \E bytes \in RequestSizes : AllocCall(bytes)
  \/ \E block \in held : FreeCall(block)

Next == (\E p \in Pools : InitCall(p.start, p.bytes)) \/ Internal \/ Client

Spec == Init /\ [][Next]_vars

-----------------------------------------------------------------------------
(* The blocks memory is cut into, each an address and a length: those on   *)
(* the free lists, those callers hold, and the one free is working on.     *)
TilesOn(lists) ==
  UNION {{Tile(a, BlockSize(o)) : a \in Range(lists[o])} : o \in Orders}

FreeTiles == TilesOn(free_lists)

HeldTiles == {Tile(b.addr, b.got) : b \in held}

MovingTiles ==
  IF pc = "merge" THEN {Tile(address, BlockSize(order))} ELSE {}

Tiles == FreeTiles \cup HeldTiles \cup MovingTiles

(* Memory is in blocks up to here: all of it once init is done, except     *)
(* what is left at the end when the pool is no multiple of a page.         *)
Frontier ==
  IF pc = "init" THEN address
  ELSE start_address + pool_size - (pool_size % PAGE_SIZE)

Aligned == start_address % BlockSize(MAX_ORDER) = 0

-----------------------------------------------------------------------------
(* Every variable has its type.                                            *)
TypeOK ==
  /\ start_address \in Nat /\ pool_size \in Nat
  /\ free_lists \in [Orders -> Seq(Nat)]
  /\ size \in [start_address .. (start_address + pool_size - 1) -> Nat]
  /\ held \subseteq [addr : Nat, got : Nat, asked : Nat]
  /\ pc \in {"off", "init", "idle", "search", "split", "merge"}
  /\ order \in Orders /\ level \in Orders
  /\ address \in Nat /\ request \in Nat /\ remaining \in Nat

(* A block is in one place only: on one free list, once, or in one         *)
(* caller's hands, or being merged.                                        *)
OneOwner ==
  /\ \A o \in Orders : IsInjective(free_lists[o])
  /\ \A b, c \in held : b.addr = c.addr => b = c
  /\ FreeTiles \cap HeldTiles = {}
  /\ MovingTiles \cap (FreeTiles \cup HeldTiles) = {}

(* No two blocks share a byte, whoever has them and whatever intermediate  *)
(* state the splitting and merging loops are in.                           *)
NoOverlap == OneOwner /\ PairwiseApart(Tiles)

(* No memory is lost: every byte up to the frontier is in some block, and  *)
(* no block reaches out of the pool.                                       *)
PoolCovered ==
  Covers(Tiles, start_address, Frontier) /\ Within(Tiles, start_address, Frontier)

(* The size word in a block's header is the block's size, so that free     *)
(* finds the order of the block from nothing but its address.              *)
HeadersMatch ==
  /\ \A t \in Tiles : size[t.addr] = t.got
  /\ \A b \in held : \E o \in Orders : b.got = BlockSize(o)

(* A caller gets at least what it asked for, if any block could hold it,   *)
(* and no more than twice that or a page.                                  *)
GrantFits ==
  \A b \in held :
    /\ b.asked <= BlockSize(MAX_ORDER) => b.asked <= b.got
    /\ b.got = PAGE_SIZE \/ b.got < 2 * b.asked

(* Free merges as far as it can: between calls no list below the largest   *)
(* order holds a block and its buddy.                                      *)
FullyCoalesced ==
  pc = "idle" =>
    \A o \in Orders \ {MAX_ORDER} : \A a \in Range(free_lists[o]) :
      find_buddy(a, BlockSize(o)) \notin Range(free_lists[o])

(* When the pool starts on a boundary of the largest block, allocate       *)
(* refuses only if every place in the pool where the block could be has a  *)
(* byte in some caller's hands: free memory is never scattered by the      *)
(* order in which blocks were split and merged.                            *)
RefusalJustified ==
  [][SearchFailed /\ Aligned =>
       \A a \in start_address .. (Frontier - BlockSize(order)) :
         a % BlockSize(order) = 0 =>
           \E b \in held : ~ Apart(Tile(a, BlockSize(order)), b)]_vars

(* The blocks of a pool as init cuts it: as many of the largest as fit,    *)
(* then one for each bit of what is left, in falling order.                *)
BootLayout(o) ==
  {a \in start_address .. (start_address + pool_size - BlockSize(o)) :
     LET offset == a - start_address IN
       /\ offset % BlockSize(o) = 0
       /\ IF o = MAX_ORDER THEN TRUE
          ELSE /\ offset = BlockSize(o + 1) * (pool_size \div BlockSize(o + 1))
               /\ (pool_size \div BlockSize(o)) % 2 = 1}

(* Once every block has come back, an aligned pool is again cut the way    *)
(* init cut it, whatever was allocated and freed in between.               *)
Restored ==
  pc = "idle" /\ held = {} /\ Aligned =>
    \A o \in Orders : Range(free_lists[o]) = BootLayout(o)

(* What buddy_allocator_debug_state logs as allocated memory is what       *)
(* callers hold and the tail of the pool that is in no block.              *)
FreeBytes == SumFunction([o \in Orders |-> Len(free_lists[o]) * BlockSize(o)])
HeldBytes == SumFunction([b \in held |-> b.got])

ReportExact ==
  pc = "idle" => pool_size - FreeBytes = HeldBytes + (pool_size % PAGE_SIZE)

(* Every call returns: the loops of init, allocate and free all end.       *)
CallsReturn == (pc # "idle" /\ pc # "off") ~> (pc = "idle")

-----------------------------------------------------------------------------
(* What comments in the code say and the code does not do.                 *)

(* "Requested size is too large" (buddy.c:67): a size no block can hold is *)
(* refused, rather than answered with a block that is too small.           *)
OversizeRefused == \A b \in held : b.asked <= b.got

-----------------------------------------------------------------------------
(* The allocator keeps the promise of PageAllocator.                       *)
Promise == INSTANCE PageAllocator WITH
  MaxBlock <- BlockSize(MAX_ORDER),
  lo       <- start_address,
  hi       <- start_address + pool_size,
  pending  <- IF pc \in {"search", "split"} THEN request ELSE -1

KeepsPromise == Promise!Spec
=============================================================================
