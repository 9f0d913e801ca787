---------------------------- MODULE MemoryProofs ----------------------------
(***************************************************************************)
(* Theorems about BuddyAllocator, for pools, page sizes, orders and        *)
(* requests of every size, and about its clients: Pmm, for memory maps of  *)
(* every length and content, and BuddyTest, for pools of every size.  The  *)
(* invariant that is inductive is IInv: the blocks tile the pool, each is  *)
(* in one place, headers hold the sizes of blocks, and the local variables *)
(* of the running call are as its loops leave them.                        *)
(***************************************************************************)
EXTENDS Pmm, BuddyTest, Lemmas

-----------------------------------------------------------------------------
(* Block sizes: a block of the next order is two blocks of this one.       *)
LEMMA BlockSizes ==
  /\ \A o \in Orders : BlockSize(o) \in Nat \ {0}
  /\ \A o \in Orders : o < MAX_ORDER => BlockSize(o + 1) = BlockSize(o) + BlockSize(o)
  /\ \A o, p \in Orders : o < p => BlockSize(o) < BlockSize(p)
  /\ \A o \in Orders : \E m \in Nat : BlockSize(o) = PAGE_SIZE * m
  /\ BlockSize(0) = PAGE_SIZE
<1> USE SizesAssumption
<1>1. \A o \in Orders : BlockSize(o) \in Nat \ {0}
  <2> SUFFICES ASSUME NEW o \in Orders PROVE BlockSize(o) \in Nat \ {0}
    OBVIOUS
  <2>1. 2^o \in Nat /\ 2^o >= 1
    BY PowersAssumption
  <2>2. PAGE_SIZE * 2^o >= PAGE_SIZE
    BY <2>1, TimesPositive
  <2> QED
    BY <2>1, <2>2 DEF BlockSize
<1>2. \A o \in Orders : o < MAX_ORDER => BlockSize(o + 1) = BlockSize(o) + BlockSize(o)
  <2> SUFFICES ASSUME NEW o \in Orders, o < MAX_ORDER
               PROVE  BlockSize(o + 1) = BlockSize(o) + BlockSize(o)
    OBVIOUS
  <2>1. 2^o \in Nat /\ 2^(o + 1) = 2^o + 2^o
    BY PowersAssumption
  <2>2. PAGE_SIZE * (2^o + 2^o) = PAGE_SIZE * 2^o + PAGE_SIZE * 2^o
    BY <2>1
  <2> QED
    BY <2>1, <2>2 DEF BlockSize
<1>3. \A o, p \in Orders : o < p => BlockSize(o) < BlockSize(p)
  BY PowersAssumption, TimesMonotone DEF BlockSize
<1>4. \A o \in Orders : \E m \in Nat : BlockSize(o) = PAGE_SIZE * m
  BY PowersAssumption DEF BlockSize
<1>5. BlockSize(0) = PAGE_SIZE
  BY PowersAssumption DEF BlockSize
<1> QED
  BY <1>1, <1>2, <1>3, <1>4, <1>5

(* The orders of blocks of the same size are the same.                     *)
LEMMA OrderOfSize ==
  ASSUME NEW o \in Orders, NEW p \in Orders, BlockSize(o) = BlockSize(p)
  PROVE  o = p
<1>1. o \in Int /\ p \in Int
  BY SizesAssumption DEF Orders
<1>2. BlockSize(o) \in Int /\ BlockSize(p) \in Int
  BY BlockSizes
<1> QED
  BY <1>1, <1>2, BlockSizes

(* find_order of the size of a block is the order of the block.            *)
LEMMA FindOrderOfBlock ==
  ASSUME NEW o \in Orders, NEW p \in Orders, find_order(BlockSize(p), o)
  PROVE  o = p
<1>1. o \in Int /\ p \in Int /\ o <= MAX_ORDER /\ p <= MAX_ORDER /\ MAX_ORDER \in Int
  BY SizesAssumption DEF Orders
<1>2. BlockSize(o) \in Int /\ BlockSize(p) \in Int
  BY BlockSizes
<1>3. ~ (p < o)
  BY <1>2 DEF find_order
<1>4. ~ (o < p)
  BY <1>1, <1>2, BlockSizes DEF find_order
<1> QED
  BY <1>1, <1>3, <1>4

-----------------------------------------------------------------------------
(* What a change of one free list does to the tiles on the lists.          *)

Lists == [Orders -> Seq(Nat)]

LEMMA OnList ==
  ASSUME NEW lists \in Lists, NEW t
  PROVE  t \in TilesOn(lists) <=>
           \E o \in Orders : \E a \in Range(lists[o]) : t = Tile(a, BlockSize(o))
BY DEF TilesOn

LEMMA AddToList ==
  ASSUME NEW old \in Lists, NEW new \in Lists, NEW o \in Orders, NEW a \in Nat,
         Range(new[o]) = Range(old[o]) \cup {a},
         \A p \in Orders \ {o} : new[p] = old[p]
  PROVE  TilesOn(new) = TilesOn(old) \cup {Tile(a, BlockSize(o))}
<1>1. ASSUME NEW t \in TilesOn(new)
      PROVE  t \in TilesOn(old) \cup {Tile(a, BlockSize(o))}
  BY <1>1, OnList
<1>2. ASSUME NEW t \in TilesOn(old)
      PROVE  t \in TilesOn(new)
  <2>1. PICK p \in Orders : \E b \in Range(old[p]) : t = Tile(b, BlockSize(p))
    BY <1>2, OnList
  <2>2. Range(old[p]) \subseteq Range(new[p])
    OBVIOUS
  <2> QED
    BY <2>1, <2>2, OnList
<1>3. Tile(a, BlockSize(o)) \in TilesOn(new)
  BY OnList
<1> QED
  BY <1>1, <1>2, <1>3

LEMMA DropFromList ==
  ASSUME NEW old \in Lists, NEW new \in Lists, NEW o \in Orders, NEW a \in Nat,
         Range(new[o]) = Range(old[o]) \ {a}, a \in Range(old[o]),
         \A p \in Orders \ {o} : new[p] = old[p]
  PROVE  /\ TilesOn(new) = TilesOn(old) \ {Tile(a, BlockSize(o))}
         /\ Tile(a, BlockSize(o)) \in TilesOn(old)
<1>1. ASSUME NEW t \in TilesOn(new)
      PROVE  t \in TilesOn(old) /\ t # Tile(a, BlockSize(o))
  <2>a. PICK p \in Orders : \E b \in Range(new[p]) : t = Tile(b, BlockSize(p))
    BY <1>1, OnList
  <2>1. PICK b \in Range(new[p]) : t = Tile(b, BlockSize(p))
    BY <2>a
  <2>2. b \in Range(old[p])
    OBVIOUS
  <2>3. t \in TilesOn(old)
    BY <2>1, <2>2, OnList
  <2>4. p # o \/ b # a
    OBVIOUS
  <2>5. t # Tile(a, BlockSize(o))
    BY <2>1, <2>4, OrderOfSize DEF Tile
  <2> QED
    BY <2>3, <2>5
<1>2. ASSUME NEW t \in TilesOn(old), t # Tile(a, BlockSize(o))
      PROVE  t \in TilesOn(new)
  <2>a. PICK p \in Orders : \E b \in Range(old[p]) : t = Tile(b, BlockSize(p))
    BY <1>2, OnList
  <2>1. PICK b \in Range(old[p]) : t = Tile(b, BlockSize(p))
    BY <2>a
  <2>2. p # o \/ b # a
    BY <1>2, <2>1
  <2>3. b \in Range(new[p])
    BY <2>2
  <2> QED
    BY <2>1, <2>3, OnList
<1>3. Tile(a, BlockSize(o)) \in TilesOn(old)
  BY OnList
<1> QED
  BY <1>1, <1>2, <1>3

-----------------------------------------------------------------------------
(* The inductive invariant.                                                *)

(* The tiles cut the pool, up to the frontier, into pieces.                *)
Cut ==
  /\ start_address <= Frontier /\ Frontier <= start_address + pool_size
  /\ Tiling(Tiles, start_address, Frontier)

(* What the loops leave in the local variables.                            *)
LocalsInv ==
  /\ pc = "off" => /\ start_address = 0 /\ pool_size = 0 /\ held = {}
                   /\ free_lists = [o \in Orders |-> <<>>]
  /\ pc # "off" => start_address > 0
  /\ pc = "init" => /\ address + remaining = start_address + pool_size
                    /\ remaining % PAGE_SIZE = pool_size % PAGE_SIZE
  /\ pc \in {"search", "split"} => find_order(request, order)
  /\ pc = "split" => order <= level /\ free_lists[level] # <<>>

IInv ==
  TypeOK /\ OneOwner /\ Cut /\ HeadersMatch /\ GrantFits /\ LocalsInv

(* Facts of every state that satisfies IInv.                               *)
LEMMA TileFacts ==
  ASSUME IInv
  PROVE  /\ Frontier \in Nat
         /\ \A t \in Tiles : t.addr \in DOMAIN size
         /\ \A o \in Orders : \A a \in Range(free_lists[o]) :
              a \in Nat /\ Tile(a, BlockSize(o)) \in FreeTiles
<1> USE SizesAssumption
<1>1. Frontier \in Nat
  <2>1. pool_size % PAGE_SIZE \in Nat /\ pool_size % PAGE_SIZE <= pool_size
    <3>1. pool_size \in Nat
      BY DEF IInv, TypeOK
    <3>2. /\ pool_size % PAGE_SIZE \in 0 .. (PAGE_SIZE - 1)
          /\ pool_size \div PAGE_SIZE \in Nat
          /\ pool_size = PAGE_SIZE * (pool_size \div PAGE_SIZE) + (pool_size % PAGE_SIZE)
      BY <3>1, Division
    <3> DEFINE q == pool_size \div PAGE_SIZE
               r == pool_size % PAGE_SIZE
    <3> HIDE DEF q, r
    <3>3. r \in Nat /\ q \in Nat /\ pool_size = PAGE_SIZE * q + r
      BY <3>2 DEF q, r
    <3>4. PAGE_SIZE * q \in Nat
      BY <3>3
    <3> QED
      BY <3>1, <3>3, <3>4 DEF r
  <2> QED
    BY <2>1 DEF IInv, TypeOK, Frontier
<1>2. \A t \in Tiles : t.addr \in DOMAIN size
  BY <1>1 DEF IInv, TypeOK, Cut, Tiling, Within, Block
<1>3. \A o \in Orders : \A a \in Range(free_lists[o]) :
        a \in Nat /\ Tile(a, BlockSize(o)) \in FreeTiles
  <2>1. free_lists \in Lists
    BY DEF IInv, TypeOK, Lists
  <2>2. \A o \in Orders : Range(free_lists[o]) \subseteq Nat
    BY <2>1 DEF Lists, Range
  <2> QED
    BY <2>1, <2>2, OnList DEF FreeTiles
<1> QED
  BY <1>1, <1>2, <1>3

LEMMA InitInv == Init => IInv
<1> SUFFICES ASSUME Init PROVE IInv
  OBVIOUS
<1> USE SizesAssumption
<1>1. \A o \in Orders : free_lists[o] = <<>> /\ Range(free_lists[o]) = {}
  BY DEF Init, Range
<1>2. Tiles = {}
  BY <1>1 DEF Init, Tiles, FreeTiles, TilesOn, HeldTiles, MovingTiles
<1>3. 0 \in Orders
  BY DEF Orders
<1>4. TypeOK
  BY <1>1, <1>3 DEF Init, TypeOK
<1>5. OneOwner
  BY <1>1, <1>2 DEF Init, OneOwner, IsInjective, Tiles, MovingTiles
<1>6. Frontier = 0
  <2>1. 0 % PAGE_SIZE = 0
    BY Division
  <2> QED
    BY <2>1 DEF Init, Frontier
<1>7. Cut
  BY <1>2, <1>6, EmptyTiling DEF Init, Cut
<1>8. HeadersMatch /\ GrantFits
  BY <1>2 DEF Init, HeadersMatch, GrantFits
<1>9. LocalsInv
  BY DEF Init, LocalsInv
<1> QED
  BY <1>4, <1>5, <1>7, <1>8, <1>9 DEF IInv
-----------------------------------------------------------------------------
(* Each action keeps the invariant.                                        *)

LEMMA InitCallInv ==
  ASSUME IInv, NEW p \in Pools, InitCall(p.start, p.bytes)
  PROVE  IInv'
<1> USE SizesAssumption
<1>1. p.start \in Nat /\ p.bytes \in Nat
  OBVIOUS
<1>2. \A o \in Orders : free_lists'[o] = <<>> /\ Range(free_lists'[o]) = {}
  BY DEF InitCall, Range
<1>3. held = {} /\ held' = {} /\ pc = "off" /\ pc' = "init"
  BY DEF InitCall, IInv, LocalsInv
<1>4. Tiles' = {}
  BY <1>2, <1>3 DEF Tiles, FreeTiles, TilesOn, HeldTiles, MovingTiles
<1>5. TypeOK'
  <2>1. free_lists' \in [Orders -> Seq(Nat)]
    BY DEF InitCall
  <2>2. size' \in [start_address' .. (start_address' + pool_size' - 1) -> Nat]
    BY DEF InitCall
  <2> QED
    BY <1>1, <1>3, <2>1, <2>2 DEF IInv, TypeOK, InitCall
<1>6. OneOwner'
  BY <1>2, <1>3, <1>4 DEF OneOwner, Tiles, MovingTiles, HeldTiles, IsInjective
<1>7. Cut'
  <2>1. Frontier' = p.start /\ start_address' = p.start /\ pool_size' = p.bytes
    BY <1>3 DEF Frontier, InitCall
  <2> QED
    BY <1>1, <1>4, <2>1, EmptyTiling DEF Cut
<1>8. HeadersMatch' /\ GrantFits'
  BY <1>3, <1>4 DEF HeadersMatch, GrantFits
<1>9. LocalsInv'
  BY <1>1, <1>3 DEF LocalsInv, InitCall
<1> QED
  BY <1>5, <1>6, <1>7, <1>8, <1>9 DEF IInv

LEMMA CreateBlockInv ==
  ASSUME IInv, CreateBlock
  PROVE  IInv'
<1> USE SizesAssumption
<1>1. PICK o \in Orders :
        /\ LargestFit(remaining, o)
        /\ size' = [size EXCEPT ![address] = BlockSize(o)]
        /\ free_lists' = Push(free_lists, o, address)
        /\ address' = address + BlockSize(o)
        /\ remaining' = remaining - BlockSize(o)
  BY DEF CreateBlock
<1> DEFINE block == Tile(address, BlockSize(o))
<1>2. /\ pc = "init" /\ pc' = "init" /\ held' = held
      /\ start_address' = start_address /\ pool_size' = pool_size
      /\ Frontier = address /\ Frontier' = address + BlockSize(o)
  BY <1>1 DEF CreateBlock, Frontier, pool
<1>3. /\ address \in Nat /\ remaining \in Nat /\ BlockSize(o) \in Nat \ {0}
      /\ BlockSize(o) <= remaining
      /\ start_address \in Nat /\ pool_size \in Nat
      /\ start_address <= address /\ address + remaining = start_address + pool_size
  BY <1>1, <1>2, BlockSizes DEF IInv, TypeOK, Cut, LocalsInv, LargestFit
<1>4. address \in DOMAIN size
  BY <1>3 DEF IInv, TypeOK
<1>5. free_lists \in Lists
  BY DEF IInv, TypeOK, Lists
<1>6. /\ free_lists' \in Lists
      /\ Range(free_lists'[o]) = Range(free_lists[o]) \cup {address}
      /\ \A p \in Orders \ {o} : free_lists'[p] = free_lists[p]
      /\ address \notin Range(free_lists[o]) /\ IsInjective(free_lists[o])
           => IsInjective(free_lists'[o])
  BY <1>1, <1>3, <1>5, ConsRange DEF Push, Lists
<1>7. FreeTiles' = FreeTiles \cup {block}
  BY <1>3, <1>5, <1>6, AddToList DEF FreeTiles
<1>8. HeldTiles' = HeldTiles /\ MovingTiles = {} /\ MovingTiles' = {}
  BY <1>2 DEF HeldTiles, MovingTiles
<1>9. Tiles' = Tiles \cup {block}
  BY <1>7, <1>8 DEF Tiles
<1>10. Tiling(Tiles', start_address, address + BlockSize(o)) /\ \A t \in Tiles : t.addr # address
  BY <1>2, <1>3, <1>9, ExtendTiling DEF IInv, Cut
<1>11. block.addr = address /\ block.got = BlockSize(o)
  BY DEF Tile
<1>12. address \notin Range(free_lists[o])
  <2>1. address \in Range(free_lists[o]) => block \in Tiles
    BY TileFacts DEF Tiles
  <2> QED
    BY <1>10, <1>11, <2>1
<1>13. TypeOK'
  <2>1. size' \in [start_address' .. (start_address' + pool_size' - 1) -> Nat]
    BY <1>1, <1>2, <1>3 DEF IInv, TypeOK
  <2> QED
    <3>1. remaining' \in Nat /\ address' \in Nat /\ start_address' \in Nat /\ pool_size' \in Nat
      BY <1>1, <1>2, <1>3
    <3>2. order' \in Orders /\ level' \in Orders /\ request' \in Nat
      BY DEF CreateBlock, IInv, TypeOK
    <3>3. held' \subseteq [addr : Nat, got : Nat, asked : Nat]
      BY <1>2 DEF IInv, TypeOK
    <3> QED
      BY <1>2, <1>6, <2>1, <3>1, <3>2, <3>3 DEF TypeOK, Lists
<1>14. OneOwner'
  <2>1. \A q \in Orders : IsInjective(free_lists'[q])
    BY <1>6, <1>12 DEF IInv, OneOwner
  <2>2. block \notin HeldTiles
    BY <1>10, <1>11 DEF Tiles
  <2> QED
    BY <1>2, <1>7, <1>8, <2>1, <2>2 DEF IInv, OneOwner
<1>15. Cut'
  BY <1>2, <1>3, <1>10 DEF Cut
<1>16. HeadersMatch'
  <2>1. \A t \in Tiles : size'[t.addr] = t.got
    BY <1>1, <1>10, TileFacts DEF IInv, TypeOK, HeadersMatch
  <2>2. size'[block.addr] = block.got
    BY <1>1, <1>4, <1>11
  <2> QED
    BY <1>2, <1>9, <2>1, <2>2 DEF IInv, HeadersMatch
<1>17. GrantFits'
  BY <1>2 DEF IInv, GrantFits
<1>18. LocalsInv'
  <2>1. remaining' \in Nat /\ address' + remaining' = start_address + pool_size
    BY <1>1, <1>3
  <2>2. PICK m \in Nat : BlockSize(o) = PAGE_SIZE * m
    BY BlockSizes
  <2>3. remaining = remaining' + PAGE_SIZE * m
    BY <1>1, <1>3, <2>2
  <2>4. remaining' % PAGE_SIZE = remaining % PAGE_SIZE
    BY <1>3, <2>1, <2>3, SameRemainder
  <2> QED
    BY <1>2, <2>1, <2>4 DEF IInv, LocalsInv
<1> QED
  BY <1>13, <1>14, <1>15, <1>16, <1>17, <1>18 DEF IInv

LEMMA InitDoneInv ==
  ASSUME IInv, InitDone
  PROVE  IInv'
<1> USE SizesAssumption
<1>1. /\ pc = "init" /\ pc' = "idle" /\ held' = held /\ free_lists' = free_lists
      /\ size' = size /\ start_address' = start_address /\ pool_size' = pool_size
  BY DEF InitDone, Return, pool
<1>2. Frontier' = Frontier
  <2>1. remaining \in Nat /\ remaining < PAGE_SIZE
    BY DEF IInv, TypeOK, InitDone
  <2>2. remaining % PAGE_SIZE = remaining
    BY <2>1, Division
  <2>3. pool_size % PAGE_SIZE = remaining
    BY <1>1, <2>2 DEF IInv, LocalsInv
  <2>4. /\ address + remaining = start_address + pool_size
        /\ address \in Nat /\ start_address \in Nat /\ pool_size \in Nat
    BY <1>1 DEF IInv, LocalsInv, TypeOK
  <2>5. Frontier = address
    BY <1>1 DEF Frontier
  <2>6. Frontier' = start_address + pool_size - remaining
    BY <1>1, <2>3 DEF Frontier
  <2> QED
    BY <2>1, <2>4, <2>5, <2>6
<1>3. FreeTiles' = FreeTiles /\ HeldTiles' = HeldTiles /\ MovingTiles' = MovingTiles
  BY <1>1 DEF FreeTiles, HeldTiles, MovingTiles
<1>4. Tiles' = Tiles
  BY <1>3 DEF Tiles
<1>5. TypeOK'
  <2>1. 0 \in Orders
    BY DEF Orders
  <2> QED
    BY <1>1, <2>1 DEF IInv, TypeOK, InitDone, Return
<1>6. OneOwner'
  BY <1>1, <1>3 DEF IInv, OneOwner
<1>7. Cut'
  BY <1>1, <1>2, <1>4 DEF IInv, Cut
<1>8. HeadersMatch' /\ GrantFits'
  BY <1>1, <1>4 DEF IInv, HeadersMatch, GrantFits
<1>9. LocalsInv'
  BY <1>1 DEF IInv, LocalsInv
<1> QED
  BY <1>5, <1>6, <1>7, <1>8, <1>9 DEF IInv

(* Actions that change no list, no header and no block in a caller's hands *)
(* between idle, search and split leave all but the local variables alone. *)
LEMMA QuietStep ==
  ASSUME IInv, TypeOK', LocalsInv',
         pc \in {"idle", "search", "split"}, pc' \in {"idle", "search", "split"},
         UNCHANGED <<pool, free_lists, size, held>>
  PROVE  IInv'
<1>1. /\ held' = held /\ free_lists' = free_lists
      /\ size' = size /\ start_address' = start_address /\ pool_size' = pool_size
  BY DEF pool
<1>2. Frontier' = Frontier
  BY <1>1 DEF Frontier
<1>3. FreeTiles' = FreeTiles /\ HeldTiles' = HeldTiles /\ MovingTiles' = MovingTiles
  BY <1>1 DEF FreeTiles, HeldTiles, MovingTiles
<1>4. Tiles' = Tiles
  BY <1>3 DEF Tiles
<1>5. OneOwner' /\ Cut' /\ HeadersMatch' /\ GrantFits'
  BY <1>1, <1>2, <1>3, <1>4 DEF IInv, OneOwner, Cut, HeadersMatch, GrantFits
<1> QED
  BY <1>5 DEF IInv

LEMMA AllocCallInv ==
  ASSUME IInv, NEW bytes \in RequestSizes, AllocCall(bytes)
  PROVE  IInv'
<1> USE SizesAssumption
<1>1. TypeOK'
  BY DEF IInv, TypeOK, AllocCall, pool
<1>2. LocalsInv'
  BY DEF IInv, LocalsInv, AllocCall, pool
<1> QED
  BY <1>1, <1>2, QuietStep DEF AllocCall

LEMMA SearchFoundInv ==
  ASSUME IInv, SearchFound
  PROVE  IInv'
<1> USE SizesAssumption
<1>1. PICK i \in order .. MAX_ORDER : free_lists[i] # <<>> /\ level' = i
  BY DEF SearchFound
<1>2. i \in Orders /\ order <= i
  BY <1>1 DEF IInv, TypeOK, Orders
<1>3. TypeOK'
  BY <1>1, <1>2 DEF IInv, TypeOK, SearchFound, pool
<1>4. LocalsInv'
  BY <1>1, <1>2 DEF IInv, LocalsInv, SearchFound, pool
<1> QED
  BY <1>3, <1>4, QuietStep DEF SearchFound

LEMMA SearchFailedInv ==
  ASSUME IInv, SearchFailed
  PROVE  IInv'
<1> USE SizesAssumption
<1>1. TypeOK'
  <2>1. 0 \in Orders
    BY DEF Orders
  <2> QED
    BY <2>1 DEF IInv, TypeOK, SearchFailed, Return, pool
<1>2. LocalsInv'
  BY DEF IInv, LocalsInv, SearchFailed, Return, pool
<1> QED
  BY <1>1, <1>2, QuietStep DEF SearchFailed, Return

LEMMA SplitBlockInv ==
  ASSUME IInv, SplitBlock
  PROVE  IInv'
<1> USE SizesAssumption
<1> DEFINE block == Head(free_lists[level])
           low   == level - 1
           half  == BlockSize(low)
           buddy == block + half
           whole == Tile(block, BlockSize(level))
           dropped == [free_lists EXCEPT ![level] = Tail(@)]
           pushed  == [dropped EXCEPT ![low] = Cons(buddy, @)]
<1>1. /\ pc = "split" /\ pc' = "split" /\ held' = held /\ level > order
      /\ start_address' = start_address /\ pool_size' = pool_size
      /\ order' = order /\ address' = address /\ request' = request
      /\ remaining' = remaining /\ level' = low
      /\ size' = [size EXCEPT ![block] = half, ![buddy] = half]
      /\ free_lists' = [free_lists EXCEPT ![level] = Tail(@),
                                          ![low] = <<block, buddy>> \o @]
  BY DEF SplitBlock, HeadHalves, pool
<1>2. /\ level \in Orders /\ low \in Orders /\ low # level /\ order <= low
      /\ half \in Nat \ {0} /\ BlockSize(level) = half + half
  <2>1. level \in Orders /\ low \in Orders /\ low # level /\ order <= low
        /\ low < MAX_ORDER /\ low + 1 = level
    BY <1>1 DEF IInv, TypeOK, Orders
  <2>2. half \in Nat \ {0}
    BY <2>1, BlockSizes
  <2>3. BlockSize(low + 1) = half + half
    BY <2>1, BlockSizes
  <2> QED
    BY <2>1, <2>2, <2>3
<1>3. /\ free_lists \in Lists /\ free_lists[level] \in Seq(Nat)
      /\ free_lists[low] \in Seq(Nat) /\ free_lists[level] # <<>>
      /\ IsInjective(free_lists[level]) /\ IsInjective(free_lists[low])
  BY <1>1, <1>2 DEF IInv, TypeOK, Lists, OneOwner, LocalsInv
<1>4. /\ block \in Nat /\ block \in Range(free_lists[level])
      /\ Tail(free_lists[level]) \in Seq(Nat)
      /\ Range(Tail(free_lists[level])) = Range(free_lists[level]) \ {block}
      /\ IsInjective(Tail(free_lists[level]))
  BY <1>3, TailRange
<1> HIDE DEF block, half, low
<1>5. buddy \in Nat
  BY <1>2, <1>4
<1>6. whole \in FreeTiles /\ whole \in Tiles /\ whole.addr = block /\ whole.got = half + half
  BY <1>2, <1>4, TileFacts DEF Tiles, Tile
<1>8. /\ Tiling((Tiles \ {whole}) \cup {Tile(block, half), Tile(buddy, half)},
                start_address, Frontier)
      /\ \A t \in Tiles : t.addr # buddy
  <2>1. Tiling(Tiles, start_address, Frontier) /\ start_address \in Nat /\ Frontier \in Nat
    BY TileFacts DEF IInv, Cut, TypeOK
  <2>2. half \in Nat \ {0} /\ block \in Nat /\ BlockSize(level) = half + half
    BY <1>2, <1>4
  <2>3. Tile(block, BlockSize(level)) \in Tiles /\ buddy = block + half
    BY <1>6
  <2>4. whole = Tile(block, BlockSize(level))
    OBVIOUS
  <2> HIDE DEF buddy, whole
  <2> QED
    BY <2>1, <2>2, <2>3, <2>4, HalveTiling
<1>7. \A t \in Tiles : t.addr = block => t = whole
  <2>1. Tiling(Tiles, start_address, Frontier) /\ start_address \in Nat /\ Frontier \in Nat
    BY TileFacts DEF IInv, Cut, TypeOK
  <2> HIDE DEF whole
  <2> QED
    BY <1>6, <2>1, TileAddress
<1>9. block \notin Range(free_lists[low]) /\ buddy \notin Range(free_lists[low])
  <2>1. Tile(block, half) # whole
    BY <1>2, <1>6 DEF Tile
  <2>2. \A a \in Range(free_lists[low]) : Tile(a, half) \in Tiles
    BY <1>2, TileFacts DEF Tiles, half
  <2>3. \A a : Tile(a, half).addr = a
    BY DEF Tile
  <2> QED
    BY <1>7, <1>8, <2>1, <2>2, <2>3
<1>10. /\ Cons(buddy, free_lists[low]) \in Seq(Nat)
       /\ Range(Cons(buddy, free_lists[low])) = Range(free_lists[low]) \cup {buddy}
       /\ IsInjective(Cons(buddy, free_lists[low]))
  BY <1>3, <1>5, <1>9, ConsRange
<1>11. <<block, buddy>> \o free_lists[low] = Cons(block, Cons(buddy, free_lists[low]))
  BY <1>3, <1>4, <1>5, TwoInFront
<1>12. /\ Cons(block, Cons(buddy, free_lists[low])) \in Seq(Nat)
       /\ Range(Cons(block, Cons(buddy, free_lists[low])))
            = (Range(free_lists[low]) \cup {buddy}) \cup {block}
       /\ IsInjective(Cons(block, Cons(buddy, free_lists[low])))
  <2> DEFINE rest == Cons(buddy, free_lists[low])
  <2>1. block # buddy
    BY <1>2, <1>4
  <2>2. block \notin Range(rest) /\ rest \in Seq(Nat) /\ IsInjective(rest)
    BY <1>9, <1>10, <2>1
  <2>3. Range(rest) = Range(free_lists[low]) \cup {buddy}
    BY <1>10
  <2> HIDE DEF rest
  <2>4. /\ Cons(block, rest) \in Seq(Nat) /\ Range(Cons(block, rest)) = Range(rest) \cup {block}
        /\ IsInjective(Cons(block, rest))
    BY <1>4, <2>2, ConsRange
  <2> QED
    BY <2>3, <2>4 DEF rest
<1>13. /\ dropped \in Lists /\ dropped[level] = Tail(free_lists[level])
       /\ \A p \in Orders \ {level} : dropped[p] = free_lists[p]
  BY <1>2, <1>3, <1>4 DEF Lists
<1>14. /\ pushed \in Lists /\ pushed[low] = Cons(buddy, free_lists[low])
       /\ \A p \in Orders \ {low} : pushed[p] = dropped[p]
  BY <1>2, <1>10, <1>13 DEF Lists
<1>15. /\ free_lists' \in Lists
       /\ free_lists'[low] = Cons(block, Cons(buddy, free_lists[low]))
       /\ \A p \in Orders \ {low} : free_lists'[p] = pushed[p]
  <2>1. free_lists' = [pushed EXCEPT ![low] = Cons(block, Cons(buddy, free_lists[low]))]
    <3>1. \A p \in Orders : free_lists'[p] =
            IF p = low THEN Cons(block, Cons(buddy, free_lists[low]))
            ELSE IF p = level THEN Tail(free_lists[level]) ELSE free_lists[p]
      BY <1>1, <1>2, <1>3, <1>11 DEF Lists
    <3>2. DOMAIN free_lists' = Orders /\ free_lists' = [p \in Orders |-> free_lists'[p]]
      BY <1>1, <1>3 DEF Lists
    <3> QED
      BY <1>13, <1>14, <3>1, <3>2 DEF Lists
  <2> QED
    BY <1>2, <1>12, <1>14, <2>1 DEF Lists
<1> HIDE DEF dropped, pushed
<1>16. TilesOn(dropped) = FreeTiles \ {whole}
  BY <1>2, <1>3, <1>4, <1>13, DropFromList DEF FreeTiles
<1>17. TilesOn(pushed) = (FreeTiles \ {whole}) \cup {Tile(buddy, half)}
  <2>1. Range(pushed[low]) = Range(dropped[low]) \cup {buddy}
    BY <1>2, <1>10, <1>13, <1>14
  <2> QED
    BY <1>2, <1>5, <1>13, <1>14, <1>16, <2>1, AddToList DEF half
<1>18. FreeTiles' = (FreeTiles \ {whole}) \cup {Tile(block, half), Tile(buddy, half)}
  <2>1. Range(free_lists'[low]) = Range(pushed[low]) \cup {block}
    BY <1>10, <1>12, <1>14, <1>15
  <2>2. TilesOn(free_lists') = TilesOn(pushed) \cup {Tile(block, half)}
    <3>1. /\ pushed \in Lists /\ free_lists' \in Lists /\ low \in Orders /\ block \in Nat
          /\ \A p \in Orders \ {low} : free_lists'[p] = pushed[p]
      BY <1>2, <1>4, <1>14, <1>15
    <3>2. TilesOn(free_lists') = TilesOn(pushed) \cup {Tile(block, BlockSize(low))}
      BY <2>1, <3>1, AddToList
    <3> QED
      BY <3>2 DEF half
  <2> QED
    BY <1>17, <2>2 DEF FreeTiles
<1>19. HeldTiles' = HeldTiles /\ MovingTiles = {} /\ MovingTiles' = {} /\ Frontier' = Frontier
  BY <1>1 DEF HeldTiles, MovingTiles, Frontier
<1>20. whole \notin HeldTiles
  BY <1>6 DEF IInv, OneOwner
<1>21. Tiles' = (Tiles \ {whole}) \cup {Tile(block, half), Tile(buddy, half)}
  BY <1>18, <1>19, <1>20 DEF Tiles
<1>22. Cut'
  BY <1>1, <1>8, <1>19, <1>21 DEF IInv, Cut
<1>23. block \in DOMAIN size /\ buddy \in DOMAIN size
  <2>1. /\ Tile(buddy, half) \in (Tiles \ {whole}) \cup {Tile(block, half), Tile(buddy, half)}
        /\ Tile(buddy, half).addr = buddy /\ Tile(buddy, half).got = half
    BY DEF Tile
  <2>2. start_address <= buddy /\ buddy + half <= Frontier
    BY <1>8, <2>1 DEF Tiling, Within
  <2>3. buddy \in DOMAIN size
    BY <1>2, <1>5, <2>2, TileFacts DEF IInv, TypeOK, Cut
  <2>4. block \in DOMAIN size
    BY <1>6, TileFacts
  <2> QED
    BY <2>3, <2>4
<1>24. /\ size' \in [DOMAIN size -> Nat]
       /\ size'[block] = half /\ size'[buddy] = half
       /\ \A x \in DOMAIN size : x # block /\ x # buddy => size'[x] = size[x]
  BY <1>1, <1>2, <1>4, <1>23 DEF IInv, TypeOK
<1>25. TypeOK'
  <2>1. size' \in [start_address' .. (start_address' + pool_size' - 1) -> Nat]
    BY <1>1, <1>24 DEF IInv, TypeOK
  <2> QED
    BY <1>1, <1>2, <1>15, <2>1 DEF IInv, TypeOK, Lists
<1>26. OneOwner'
  <2>1. \A q \in Orders : IsInjective(free_lists'[q])
    BY <1>4, <1>12, <1>13, <1>14, <1>15 DEF IInv, OneOwner
  <2>2. Tile(block, half) \notin HeldTiles /\ Tile(buddy, half) \notin HeldTiles
    <3>1. Tile(block, half) # whole /\ Tile(block, half).addr = block
          /\ Tile(buddy, half).addr = buddy
      BY <1>2, <1>6 DEF Tile
    <3> QED
      BY <1>7, <1>8, <3>1 DEF Tiles
  <2> QED
    BY <1>1, <1>18, <1>19, <2>1, <2>2 DEF IInv, OneOwner
<1>27. HeadersMatch'
  <2>1. \A t \in Tiles \ {whole} : size'[t.addr] = t.got
    BY <1>7, <1>8, <1>24, TileFacts DEF IInv, HeadersMatch
  <2>2. /\ size'[Tile(block, half).addr] = Tile(block, half).got
        /\ size'[Tile(buddy, half).addr] = Tile(buddy, half).got
    BY <1>24 DEF Tile
  <2> QED
    BY <1>1, <1>21, <2>1, <2>2 DEF IInv, HeadersMatch
<1>28. GrantFits'
  BY <1>1 DEF IInv, GrantFits
<1>29. LocalsInv'
  <2>1. free_lists'[low] # <<>>
    <3>1. block \in Range(free_lists'[low])
      BY <1>12, <1>15
    <3> QED
      BY <3>1 DEF Range
  <2> QED
    BY <1>1, <1>2, <2>1 DEF IInv, LocalsInv
<1> QED
  BY <1>22, <1>25, <1>26, <1>27, <1>28, <1>29 DEF IInv

LEMMA TakeBlockInv ==
  ASSUME IInv, TakeBlock
  PROVE  IInv'
<1> USE SizesAssumption
<1> DEFINE block == Head(free_lists[level])
           tile  == Tile(block, BlockSize(level))
           taken == [addr |-> block, got |-> size[block], asked |-> request]
<1>1. /\ pc = "split" /\ pc' = "idle" /\ level = order
      /\ start_address' = start_address /\ pool_size' = pool_size /\ size' = size
      /\ free_lists' = [free_lists EXCEPT ![level] = Tail(@)]
      /\ held' = held \cup {taken}
  BY DEF TakeBlock, Return, pool
<1>2. /\ level \in Orders /\ free_lists \in Lists /\ free_lists[level] \in Seq(Nat)
      /\ free_lists[level] # <<>> /\ IsInjective(free_lists[level])
  BY <1>1 DEF IInv, TypeOK, Lists, OneOwner, LocalsInv
<1>3. /\ block \in Nat /\ block \in Range(free_lists[level])
      /\ Tail(free_lists[level]) \in Seq(Nat)
      /\ Range(Tail(free_lists[level])) = Range(free_lists[level]) \ {block}
      /\ IsInjective(Tail(free_lists[level]))
  BY <1>2, TailRange
<1> HIDE DEF block
<1>4. /\ tile \in FreeTiles /\ tile \in Tiles /\ tile.addr = block
      /\ tile.got = BlockSize(level) /\ size[block] = BlockSize(level)
  <2>1. tile \in FreeTiles /\ tile \in Tiles /\ tile.addr = block /\ tile.got = BlockSize(level)
    BY <1>2, <1>3, TileFacts DEF Tiles, Tile
  <2> QED
    BY <2>1 DEF IInv, HeadersMatch
<1>5. BlockSize(level) \in Nat \ {0}
  BY <1>2, BlockSizes
<1>6. /\ free_lists' \in Lists /\ free_lists'[level] = Tail(free_lists[level])
      /\ \A p \in Orders \ {level} : free_lists'[p] = free_lists[p]
  BY <1>1, <1>2, <1>3 DEF Lists
<1>7. FreeTiles' = FreeTiles \ {tile}
  BY <1>2, <1>3, <1>6, DropFromList DEF FreeTiles
<1>8. HeldTiles' = HeldTiles \cup {tile}
  <2>1. Tile(taken.addr, taken.got) = tile
    BY <1>4
  <2> QED
    BY <1>1, <2>1 DEF HeldTiles
<1>9. MovingTiles = {} /\ MovingTiles' = {} /\ Frontier' = Frontier
  BY <1>1 DEF MovingTiles, Frontier
<1>10. Tiles' = Tiles
  BY <1>4, <1>7, <1>8, <1>9 DEF Tiles
<1>11. \A b \in held : b.addr # block
  <2> SUFFICES ASSUME NEW b \in held, b.addr = block PROVE FALSE
    OBVIOUS
  <2>1. Tile(b.addr, b.got) \in HeldTiles /\ Tile(b.addr, b.got).addr = block
    BY DEF HeldTiles, Tile
  <2>2. Tile(b.addr, b.got) = tile
    <3>1. Tiling(Tiles, start_address, Frontier) /\ start_address \in Nat /\ Frontier \in Nat
      BY TileFacts DEF IInv, Cut, TypeOK
    <3>2. Tile(b.addr, b.got) \in Tiles
      BY <2>1 DEF Tiles
    <3> QED
      BY <1>4, <2>1, <3>1, <3>2, TileAddress
  <2> QED
    BY <1>4, <2>1, <2>2 DEF IInv, OneOwner
<1>12. TypeOK'
  <2>1. 0 \in Orders
    BY DEF Orders
  <2>2. taken \in [addr : Nat, got : Nat, asked : Nat]
    BY <1>3, <1>4, <1>5 DEF IInv, TypeOK
  <2>3. order' \in Orders /\ level' \in Orders
        /\ address' \in Nat /\ request' \in Nat /\ remaining' \in Nat
    BY <2>1 DEF TakeBlock, Return
  <2> HIDE DEF taken
  <2> QED
    BY <1>1, <1>6, <2>2, <2>3 DEF IInv, TypeOK, Lists
<1>13. OneOwner'
  <2>1. \A q \in Orders : IsInjective(free_lists'[q])
    BY <1>3, <1>6 DEF IInv, OneOwner
  <2>2. \A b, c \in held' : b.addr = c.addr => b = c
    BY <1>1, <1>11 DEF IInv, OneOwner
  <2> QED
    BY <1>7, <1>8, <1>9, <2>1, <2>2 DEF IInv, OneOwner
<1>14. Cut'
  BY <1>1, <1>9, <1>10 DEF IInv, Cut
<1>15. HeadersMatch'
  BY <1>1, <1>2, <1>4, <1>10 DEF IInv, HeadersMatch
<1>16. GrantFits'
  <2>1. /\ taken.asked <= BlockSize(MAX_ORDER) => taken.asked <= taken.got
        /\ taken.got = PAGE_SIZE \/ taken.got < 2 * taken.asked
    <3>1. taken.got = BlockSize(level) /\ taken.asked = request /\ request \in Nat
      BY <1>4 DEF IInv, TypeOK
    <3>2. find_order(request, level) /\ MAX_ORDER \in Orders
      BY <1>1 DEF IInv, LocalsInv, Orders
    <3>3. request <= BlockSize(MAX_ORDER) => request <= BlockSize(level)
      BY <3>1, <3>2, <1>5, BlockSizes DEF find_order
    <3>4. CASE level = 0
      BY <3>1, <3>3, <3>4, BlockSizes
    <3>5. CASE level # 0
      <4>1. level - 1 \in Orders /\ level - 1 < level /\ level - 1 < MAX_ORDER
            /\ (level - 1) + 1 = level
        BY <1>2, <3>5 DEF Orders
      <4>2. BlockSize(level - 1) < request /\ BlockSize(level - 1) \in Nat
        BY <3>2, <4>1, BlockSizes DEF find_order
      <4>3. BlockSize((level - 1) + 1) = BlockSize(level - 1) + BlockSize(level - 1)
        BY <4>1, BlockSizes
      <4>4. BlockSize(level) < 2 * request
        BY <3>1, <4>1, <4>2, <4>3
      <4> QED
        BY <3>1, <3>3, <4>4
    <3> QED
      BY <3>4, <3>5
  <2> HIDE DEF taken
  <2> QED
    BY <1>1, <2>1 DEF IInv, GrantFits
<1>17. LocalsInv'
  BY <1>1 DEF IInv, LocalsInv
<1> QED
  BY <1>12, <1>13, <1>14, <1>15, <1>16, <1>17 DEF IInv

LEMMA FreeCallInv ==
  ASSUME IInv, NEW block \in held, FreeCall(block)
  PROVE  IInv'
<1> USE SizesAssumption
<1> DEFINE tile == Tile(block.addr, block.got)
<1>1. /\ pc = "idle" /\ pc' = "merge" /\ held' = held \ {block}
      /\ start_address' = start_address /\ pool_size' = pool_size /\ size' = size
      /\ free_lists' = free_lists /\ address' = block.addr
      /\ find_order(size[block.addr], order') /\ order' \in Orders
  BY DEF FreeCall, pool
<1>2. tile \in HeldTiles /\ tile \in Tiles /\ tile.addr = block.addr /\ tile.got = block.got
  BY DEF HeldTiles, Tiles, Tile
<1>3. block.got = BlockSize(order')
  <2>1. PICK o \in Orders : block.got = BlockSize(o)
    BY DEF IInv, HeadersMatch
  <2>2. size[block.addr] = block.got
    BY <1>2 DEF IInv, HeadersMatch
  <2>3. order' = o
    BY <1>1, <2>1, <2>2, FindOrderOfBlock
  <2> QED
    BY <2>1, <2>3
<1>4. FreeTiles' = FreeTiles /\ Frontier' = Frontier /\ MovingTiles = {} /\ MovingTiles' = {tile}
  BY <1>1, <1>3 DEF FreeTiles, Frontier, MovingTiles
<1>5. HeldTiles' = HeldTiles \ {tile}
  <2>1. \A b \in held : Tile(b.addr, b.got) = tile => b = block
    BY DEF Tile, IInv, OneOwner
  <2> QED
    BY <1>1, <2>1 DEF HeldTiles
<1>6. Tiles' = Tiles
  BY <1>2, <1>4, <1>5 DEF Tiles
<1>7. TypeOK'
  BY <1>1 DEF IInv, TypeOK, FreeCall
<1>8. OneOwner'
  <2>1. tile \notin FreeTiles
    BY <1>2 DEF IInv, OneOwner
  <2> QED
    BY <1>1, <1>4, <1>5, <2>1 DEF IInv, OneOwner
<1>9. Cut'
  BY <1>1, <1>4, <1>6 DEF IInv, Cut
<1>10. HeadersMatch' /\ GrantFits'
  BY <1>1, <1>6 DEF IInv, HeadersMatch, GrantFits
<1>11. LocalsInv'
  BY <1>1 DEF IInv, LocalsInv
<1> QED
  BY <1>7, <1>8, <1>9, <1>10, <1>11 DEF IInv

LEMMA InsertBlockInv ==
  ASSUME IInv, InsertBlock
  PROVE  IInv'
<1> USE SizesAssumption
<1> DEFINE tile == Tile(address, BlockSize(order))
<1>1. /\ pc = "merge" /\ pc' = "idle" /\ held' = held /\ size' = size
      /\ start_address' = start_address /\ pool_size' = pool_size
      /\ free_lists' = Push(free_lists, order, address)
      /\ order \in Orders /\ address \in Nat
      /\ free_lists \in Lists
  BY DEF InsertBlock, Return, pool, IInv, TypeOK, Lists
<1>2. tile \in Tiles /\ tile \notin FreeTiles /\ tile \notin HeldTiles /\ MovingTiles = {tile}
  BY <1>1 DEF Tiles, MovingTiles, IInv, OneOwner
<1>3. address \notin Range(free_lists[order])
  BY <1>1, <1>2, TileFacts
<1>4. /\ free_lists' \in Lists
      /\ Range(free_lists'[order]) = Range(free_lists[order]) \cup {address}
      /\ \A p \in Orders \ {order} : free_lists'[p] = free_lists[p]
      /\ \A q \in Orders : IsInjective(free_lists'[q])
  BY <1>1, <1>3, ConsRange DEF Push, Lists, IInv, OneOwner
<1>5. FreeTiles' = FreeTiles \cup {tile}
  BY <1>1, <1>4, AddToList DEF FreeTiles
<1>6. HeldTiles' = HeldTiles /\ MovingTiles' = {} /\ Frontier' = Frontier
  BY <1>1 DEF HeldTiles, MovingTiles, Frontier
<1>7. Tiles' = Tiles
  BY <1>2, <1>5, <1>6 DEF Tiles
<1>8. TypeOK'
  <2>1. 0 \in Orders
    BY DEF Orders
  <2>2. order' \in Orders /\ level' \in Orders
        /\ address' \in Nat /\ request' \in Nat /\ remaining' \in Nat
    BY <2>1 DEF InsertBlock, Return
  <2> QED
    BY <1>1, <1>4, <2>2 DEF IInv, TypeOK, Lists
<1>9. OneOwner'
  BY <1>1, <1>2, <1>4, <1>5, <1>6 DEF IInv, OneOwner
<1>10. Cut'
  BY <1>1, <1>6, <1>7 DEF IInv, Cut
<1>11. HeadersMatch' /\ GrantFits'
  BY <1>1, <1>7 DEF IInv, HeadersMatch, GrantFits
<1>12. LocalsInv'
  BY <1>1 DEF IInv, LocalsInv
<1> QED
  BY <1>8, <1>9, <1>10, <1>11, <1>12 DEF IInv

LEMMA MergeBuddyInv ==
  ASSUME IInv, MergeBuddy
  PROVE  IInv'
<1> USE SizesAssumption
<1> DEFINE half  == BlockSize(order)
           buddy == find_buddy(address, size[address])
           lower == IF buddy < address THEN buddy ELSE address
           upper == IF buddy < address THEN address ELSE buddy
           mine  == Tile(address, half)
           other == Tile(buddy, half)
           whole == Tile(lower, BlockSize(order + 1))
<1>1. PICK k \in DOMAIN free_lists[order] :
        /\ free_lists[order][k] = buddy
        /\ free_lists' = [free_lists EXCEPT ![order] = RemoveAt(@, k)]
  BY DEF MergeBuddy
<1>2. /\ pc = "merge" /\ pc' = "merge" /\ held' = held
      /\ start_address' = start_address /\ pool_size' = pool_size
      /\ size' = [size EXCEPT ![lower] = 2 * @]
      /\ address' = lower /\ order' = order + 1
  BY DEF MergeBuddy, Merged, pool
<1>3. /\ order \in Orders /\ order + 1 \in Orders /\ order < MAX_ORDER
      /\ address \in Nat /\ free_lists \in Lists
      /\ free_lists[order] \in Seq(Nat) /\ IsInjective(free_lists[order])
  BY DEF MergeBuddy, IInv, TypeOK, Lists, Orders, OneOwner
<1>4. half \in Nat \ {0} /\ BlockSize(order + 1) = half + half
  BY <1>3, BlockSizes
<1>5. /\ mine \in Tiles /\ mine \notin FreeTiles /\ mine \notin HeldTiles
      /\ MovingTiles = {mine} /\ mine.addr = address /\ mine.got = half
  BY <1>2 DEF Tiles, MovingTiles, IInv, OneOwner, Tile
<1>6. size[address] = half
  BY <1>5 DEF IInv, HeadersMatch
<1>7. buddy \in Range(free_lists[order]) /\ k \in 1 .. Len(free_lists[order])
  BY <1>1, <1>3 DEF Range
<1>8. /\ other \in FreeTiles /\ other \in Tiles /\ buddy \in Nat
      /\ other.addr = buddy /\ other.got = half
  BY <1>3, <1>7, TileFacts DEF Tiles, Tile
<1>9. buddy = address + half \/ buddy = address - half
  BY <1>6 DEF find_buddy
<1>10. /\ lower \in Nat /\ upper = lower + half
       /\ \/ lower = address /\ upper = buddy
          \/ lower = buddy /\ upper = address
  BY <1>3, <1>4, <1>8, <1>9
<1> HIDE DEF buddy, lower, upper, half
<1>11. {Tile(lower, half), Tile(upper, half)} = {mine, other}
  BY <1>10
<1>12. whole.addr = lower /\ whole.got = half + half /\ whole = Tile(lower, half + half)
  BY <1>4 DEF Tile
<1> HIDE DEF mine, other, whole
<1>13. Tiling(Tiles, start_address, Frontier) /\ start_address \in Nat /\ Frontier \in Nat
  BY TileFacts DEF IInv, Cut, TypeOK
<1>14. Tiling((Tiles \ {mine, other}) \cup {whole}, start_address, Frontier)
  <2>1. Tile(lower, half) \in Tiles /\ Tile(upper, half) \in Tiles
    BY <1>5, <1>8, <1>11
  <2>2. PICK w : w = half + half
    OBVIOUS
  <2>3. Tiling((Tiles \ {Tile(lower, half), Tile(upper, half)}) \cup {Tile(lower, w)},
               start_address, Frontier)
    BY <1>4, <1>10, <1>13, <2>1, <2>2, JoinTiling
  <2> QED
    BY <1>11, <1>12, <2>2, <2>3
<1>15. /\ \A t \in Tiles : t.addr = address => t = mine
       /\ \A t \in Tiles : t.addr = buddy => t = other
  BY <1>5, <1>8, <1>13, TileAddress
<1>16. lower \in DOMAIN size /\ size[lower] = half
  <2>1. address \in DOMAIN size /\ buddy \in DOMAIN size /\ size[buddy] = half
    BY <1>5, <1>8, TileFacts DEF IInv, HeadersMatch
  <2> QED
    BY <1>6, <1>10, <2>1
<1>17. /\ size' \in [DOMAIN size -> Nat]
       /\ size'[lower] = half + half
       /\ \A x \in DOMAIN size : x # lower => size'[x] = size[x]
  BY <1>2, <1>4, <1>16 DEF IInv, TypeOK
<1>18. /\ RemoveAt(free_lists[order], k) \in Seq(Nat)
       /\ Range(RemoveAt(free_lists[order], k)) = Range(free_lists[order]) \ {buddy}
       /\ IsInjective(RemoveAt(free_lists[order], k))
  BY <1>1, <1>3, <1>7, RemoveAtRange
<1>19. /\ free_lists' \in Lists
       /\ free_lists'[order] = RemoveAt(free_lists[order], k)
       /\ \A p \in Orders \ {order} : free_lists'[p] = free_lists[p]
  BY <1>1, <1>3, <1>18 DEF Lists
<1>20. FreeTiles' = FreeTiles \ {other}
  BY <1>3, <1>7, <1>8, <1>18, <1>19, DropFromList DEF FreeTiles, other, half
<1>21. HeldTiles' = HeldTiles /\ Frontier' = Frontier /\ MovingTiles' = {whole}
  BY <1>2 DEF HeldTiles, Frontier, MovingTiles, whole
<1>22. other \notin HeldTiles /\ other # mine
  BY <1>5, <1>8 DEF IInv, OneOwner
<1>23. Tiles' = (Tiles \ {mine, other}) \cup {whole}
  BY <1>5, <1>20, <1>21, <1>22 DEF Tiles
<1>24. whole \notin FreeTiles /\ whole \notin HeldTiles
  <2>1. whole # mine /\ whole # other
    BY <1>4, <1>5, <1>8, <1>12
  <2> QED
    BY <1>10, <1>12, <1>15, <2>1 DEF Tiles
<1>25. TypeOK'
  <2>1. size' \in [start_address' .. (start_address' + pool_size' - 1) -> Nat]
    BY <1>2, <1>17 DEF IInv, TypeOK
  <2>2. level' \in Orders /\ request' \in Nat /\ remaining' \in Nat
    BY DEF MergeBuddy, IInv, TypeOK
  <2> QED
    BY <1>2, <1>3, <1>10, <1>19, <2>1, <2>2 DEF IInv, TypeOK, Lists
<1>26. OneOwner'
  <2>1. \A q \in Orders : IsInjective(free_lists'[q])
    BY <1>3, <1>18, <1>19 DEF IInv, OneOwner
  <2> QED
    BY <1>2, <1>20, <1>21, <1>24, <2>1 DEF IInv, OneOwner
<1>27. Cut'
  BY <1>2, <1>14, <1>21, <1>23 DEF IInv, Cut
<1>28. HeadersMatch'
  <2>1. \A t \in Tiles \ {mine, other} : size'[t.addr] = t.got
    BY <1>10, <1>15, <1>17, TileFacts DEF IInv, HeadersMatch
  <2>2. size'[whole.addr] = whole.got
    BY <1>12, <1>17
  <2> QED
    BY <1>2, <1>23, <2>1, <2>2 DEF IInv, HeadersMatch
<1>29. GrantFits'
  BY <1>2 DEF IInv, GrantFits
<1>30. LocalsInv'
  BY <1>2 DEF IInv, LocalsInv
<1> QED
  BY <1>25, <1>26, <1>27, <1>28, <1>29, <1>30 DEF IInv

-----------------------------------------------------------------------------
(* Every step keeps the invariant, and so it holds in every state.         *)
LEMMA NextInv == IInv /\ [Next]_vars => IInv'
<1> SUFFICES ASSUME IInv, [Next]_vars PROVE IInv'
  OBVIOUS
<1>1. CASE \E p \in Pools : InitCall(p.start, p.bytes)
  BY <1>1, InitCallInv
<1>2. CASE CreateBlock
  BY <1>2, CreateBlockInv
<1>3. CASE InitDone
  BY <1>3, InitDoneInv
<1>4. CASE \E bytes \in RequestSizes : AllocCall(bytes)
  BY <1>4, AllocCallInv
<1>5. CASE SearchFound
  BY <1>5, SearchFoundInv
<1>6. CASE SearchFailed
  BY <1>6, SearchFailedInv
<1>7. CASE SplitBlock
  BY <1>7, SplitBlockInv
<1>8. CASE TakeBlock
  BY <1>8, TakeBlockInv
<1>9. CASE \E block \in held : FreeCall(block)
  BY <1>9, FreeCallInv
<1>10. CASE MergeBuddy
  BY <1>10, MergeBuddyInv
<1>11. CASE InsertBlock
  BY <1>11, InsertBlockInv
<1>12. CASE UNCHANGED vars
  <2>1. /\ FreeTiles' = FreeTiles /\ HeldTiles' = HeldTiles /\ MovingTiles' = MovingTiles
        /\ Frontier' = Frontier
    BY <1>12 DEF vars, pool, locals, FreeTiles, HeldTiles, MovingTiles, Frontier
  <2>2. Tiles' = Tiles
    BY <2>1 DEF Tiles
  <2>3. TypeOK' /\ OneOwner' /\ LocalsInv'
    BY <1>12, <2>1 DEF vars, pool, locals, IInv, TypeOK, OneOwner, LocalsInv
  <2>4. Cut' /\ HeadersMatch' /\ GrantFits'
    BY <1>12, <2>1, <2>2 DEF vars, pool, locals, IInv, Cut, HeadersMatch, GrantFits
  <2> QED
    BY <2>3, <2>4 DEF IInv
<1> QED
  BY <1>1, <1>2, <1>3, <1>4, <1>5, <1>6, <1>7, <1>8, <1>9, <1>10, <1>11, <1>12
  DEF Next, Internal, Client

(* IInv holds in every state of every behaviour of the allocator.          *)
THEOREM Invariance == Spec => []IInv
<1>1. Init => IInv
  BY InitInv
<1>2. IInv /\ [Next]_vars => IInv'
  BY NextInv
<1> QED
  BY <1>1, <1>2, PTL DEF Spec

(* Every variable keeps its type, the size words of the headers among      *)
(* them: no step of init, allocate or free writes outside the pool.        *)
THEOREM TypeCorrect == Spec => []TypeOK
<1>1. IInv => TypeOK
  BY DEF IInv
<1> QED
  BY <1>1, Invariance, PTL

(* No byte of memory is in two blocks, and no block is in two places: not  *)
(* on two free lists, nor on one twice, nor in the hands of a caller and   *)
(* on a list at once, in every state of the splitting and merging loops.   *)
THEOREM Separation == Spec => []NoOverlap
<1>1. IInv => NoOverlap
  BY DEF IInv, NoOverlap, Cut, Tiling
<1> QED
  BY <1>1, Invariance, PTL

(* No byte of the pool is lost, and no block reaches out of the pool.      *)
THEOREM Conservation == Spec => []PoolCovered
<1>1. IInv => PoolCovered
  BY DEF IInv, PoolCovered, Cut, Tiling
<1> QED
  BY <1>1, Invariance, PTL

(* The header of every block, free or held, holds the size of the block,   *)
(* which is a size find_order maps back to the order of the block: free    *)
(* needs nothing but the address to put a block where it belongs.          *)
THEOREM HeadersCorrect == Spec => []HeadersMatch
<1>1. IInv => HeadersMatch
  BY DEF IInv
<1> QED
  BY <1>1, Invariance, PTL

(* Callers get at least what they asked for, unless it is more than the    *)
(* largest block, and less than twice that or one page.                    *)
THEOREM GrantsCorrect == Spec => []GrantFits
<1>1. IInv => GrantFits
  BY DEF IInv
<1> QED
  BY <1>1, Invariance, PTL

-----------------------------------------------------------------------------
(* The allocator keeps the promise of PageAllocator: each step of its      *)
(* loops is a step of the promise, or one that callers cannot see.         *)

(* Steps in which the promise does not move.                               *)
LEMMA SilentStep ==
  ASSUME UNCHANGED <<pool, held>>,
         \/ pc \in {"search", "split"} /\ pc' \in {"search", "split"} /\ request' = request
         \/ pc \notin {"search", "split"} /\ pc' \notin {"search", "split"}
  PROVE  UNCHANGED Promise!vars
BY DEF pool, Promise!vars

(* Nobody holds a block at the address that is granted.                    *)
LEMMA GrantIsNew ==
  ASSUME IInv, TakeBlock, NEW other \in held
  PROVE  other.addr # Head(free_lists[level])
<1> USE SizesAssumption
<1>1. pc = "split"
  BY DEF TakeBlock
<1>2. Tile(other.addr, other.got) \in HeldTiles /\ Tile(other.addr, other.got) \in Tiles
  BY DEF HeldTiles, Tiles
<1>3. Tile(Head(free_lists[level]), BlockSize(level)) \in FreeTiles
  <2>1. Head(free_lists[level]) \in Range(free_lists[level]) /\ level \in Orders
    BY <1>1, TailRange DEF IInv, TypeOK, OneOwner, LocalsInv
  <2> QED
    BY <2>1, TileFacts
<1>4. Tiling(Tiles, start_address, Frontier) /\ start_address \in Nat /\ Frontier \in Nat
  BY TileFacts DEF IInv, Cut, TypeOK
<1>5. Tile(Head(free_lists[level]), BlockSize(level)) # Tile(other.addr, other.got)
  BY <1>2, <1>3 DEF IInv, OneOwner
<1>6. Tile(Head(free_lists[level]), BlockSize(level)) \in Tiles
  BY <1>3 DEF Tiles
<1>7. /\ Tile(Head(free_lists[level]), BlockSize(level)).addr = Head(free_lists[level])
      /\ Tile(other.addr, other.got).addr = other.addr
  BY DEF Tile
<1> QED
  BY <1>2, <1>4, <1>5, <1>6, <1>7, TileAddress

(* A granted block is apart from all the blocks callers hold.              *)
LEMMA GrantStep ==
  ASSUME IInv, IInv', TakeBlock
  PROVE  Promise!Grant
<1> USE SizesAssumption
<1> DEFINE taken == [addr |-> Head(free_lists[level]),
                     got |-> size[Head(free_lists[level])], asked |-> request]
<1>1. /\ pc = "split" /\ pc' = "idle" /\ held' = held \cup {taken} /\ pool' = pool
      /\ request \in Nat
  BY DEF TakeBlock, Return, IInv, TypeOK
<1>2. taken.asked = request
  OBVIOUS
<1> HIDE DEF taken
<1>3. taken \in held'
  BY <1>1
<1>4. Tile(taken.addr, taken.got) \in HeldTiles' /\ HeldTiles' \subseteq Tiles'
  BY <1>3 DEF HeldTiles, Tiles
<1>5. /\ taken.got > 0
      /\ start_address <= taken.addr
      /\ taken.addr + taken.got <= start_address + pool_size
  <2>1. /\ Tile(taken.addr, taken.got) \in Block
        /\ start_address' <= taken.addr /\ taken.addr + taken.got <= Frontier'
        /\ Frontier' <= start_address' + pool_size'
    BY <1>4 DEF IInv, Cut, Tiling, Within, Tile
  <2>2. taken.addr \in Nat /\ taken.got \in Nat \ {0}
    BY <2>1 DEF Block, Tile
  <2>3. /\ start_address' = start_address /\ pool_size' = pool_size
        /\ start_address \in Nat /\ pool_size \in Nat
    BY <1>1 DEF pool, IInv, TypeOK
  <2>4. Frontier' = Frontier /\ Frontier \in Nat
    BY <1>1, <2>3, TileFacts DEF Frontier
  <2> QED
    BY <2>1, <2>2, <2>3, <2>4
<1>6. ASSUME NEW other \in held
      PROVE  Apart(taken, other)
  <2>1. other \in held' /\ Tile(other.addr, other.got) \in Tiles'
    BY <1>1, <1>4 DEF HeldTiles
  <2>2. other.addr # taken.addr
    BY GrantIsNew DEF taken
  <2>3. Tile(other.addr, other.got) # Tile(taken.addr, taken.got)
    BY <2>2 DEF Tile
  <2>4. Apart(Tile(taken.addr, taken.got), Tile(other.addr, other.got))
    BY <1>4, <2>1, <2>3 DEF IInv, Cut, Tiling, PairwiseApart
  <2> QED
    BY <2>4 DEF Apart, Tile
<1>7. request <= BlockSize(MAX_ORDER) => taken.got >= request
  <2>1. taken.asked <= BlockSize(MAX_ORDER) => taken.asked <= taken.got
    BY <1>3 DEF IInv, GrantFits
  <2>2. taken.got \in Nat
    BY <1>3 DEF IInv, TypeOK
  <2> QED
    BY <1>1, <1>2, <2>1, <2>2
<1>8. (IF pc \in {"search", "split"} THEN request ELSE -1) = request
  BY <1>1
<1>9. (IF pc' \in {"search", "split"} THEN request' ELSE -1) = -1
  BY <1>1
<1>10. start_address' = start_address /\ pool_size' = pool_size
  BY <1>1 DEF pool
<1>11. \E block \in held' :
         /\ block.asked = request
         /\ block.got > 0
         /\ start_address <= block.addr
         /\ block.addr + block.got <= start_address + pool_size
         /\ \A other \in held : Promise!Apart(block, other)
         /\ request <= BlockSize(MAX_ORDER) => block.got >= request
         /\ held' = held \cup {block}
  BY <1>1, <1>2, <1>3, <1>5, <1>6, <1>7 DEF Apart, Promise!Apart
<1> QED
  BY <1>1, <1>8, <1>9, <1>10, <1>11 DEF Promise!Grant

(* Every step of the allocator is a step of the promise or a silent one.   *)
LEMMA StepSimulation ==
  ASSUME IInv, IInv', [Next]_vars
  PROVE  [Promise!Next]_(Promise!vars)
<1> USE SizesAssumption
<1>1. CASE \E p \in Pools : InitCall(p.start, p.bytes)
  <2>1. PICK p \in Pools : InitCall(p.start, p.bytes)
    BY <1>1
  <2>2. Promise!SetUp
    BY <2>1 DEF InitCall, Promise!SetUp, IInv, LocalsInv, TypeOK
  <2> QED
    BY <2>2 DEF Promise!Next
<1>2. CASE CreateBlock
  BY <1>2, SilentStep DEF CreateBlock
<1>3. CASE InitDone
  BY <1>3, SilentStep DEF InitDone, Return
<1>4. CASE \E bytes \in RequestSizes : AllocCall(bytes)
  <2>1. PICK bytes \in RequestSizes : AllocCall(bytes)
    BY <1>4
  <2>2. Promise!Request
    BY <2>1 DEF AllocCall, Promise!Request, IInv, LocalsInv, TypeOK, pool
  <2> QED
    BY <2>2 DEF Promise!Next
<1>5. CASE SearchFound
  BY <1>5, SilentStep DEF SearchFound
<1>6. CASE SearchFailed
  <2>1. Promise!Refuse
    BY <1>6 DEF SearchFailed, Return, Promise!Refuse, IInv, TypeOK, pool
  <2> QED
    BY <2>1 DEF Promise!Next
<1>7. CASE SplitBlock
  BY <1>7, SilentStep DEF SplitBlock
<1>8. CASE TakeBlock
  BY <1>8, GrantStep DEF Promise!Next
<1>9. CASE \E block \in held : FreeCall(block)
  <2>1. PICK block \in held : FreeCall(block)
    BY <1>9
  <2>2. Promise!Release
    BY <2>1 DEF FreeCall, Promise!Release, pool
  <2> QED
    BY <2>2 DEF Promise!Next
<1>10. CASE MergeBuddy
  BY <1>10, SilentStep DEF MergeBuddy
<1>11. CASE InsertBlock
  BY <1>11, SilentStep DEF InsertBlock, Return
<1>12. CASE UNCHANGED vars
  BY <1>12 DEF vars, pool, locals, Promise!vars
<1> QED
  BY <1>1, <1>2, <1>3, <1>4, <1>5, <1>6, <1>7, <1>8, <1>9, <1>10, <1>11, <1>12
  DEF Next, Internal, Client

(* The allocator implements the promise of the memory manager: whatever is *)
(* handed out lies in the pool, apart from all that is in callers' hands,  *)
(* covers the request if a block can, and stays the caller's until freed.  *)
THEOREM Refinement == Spec => KeepsPromise
<1>1. Init => Promise!Init
  BY DEF Init, Promise!Init
<1>2. IInv /\ IInv' /\ [Next]_vars => [Promise!Next]_(Promise!vars)
  BY StepSimulation
<1> QED
  BY <1>1, <1>2, Invariance, PTL DEF Spec, KeepsPromise, Promise!Spec

-----------------------------------------------------------------------------
(* What buddy_allocator_debug_state reports.  Every byte of the pool is    *)
(* counted once: on a list, in a caller's hands, in the block free is      *)
(* merging, or in what init has not cut into blocks.                       *)
BytesOn(lists) == SumFunction([o \in Orders |-> Len(lists[o]) * BlockSize(o)])

BytesOf(blocks) == SumFunction([b \in blocks |-> b.got])

MovingBytes == IF pc = "merge" THEN BlockSize(order) ELSE 0

Uncut == IF pc = "init" THEN remaining ELSE pool_size % PAGE_SIZE

Accounted ==
  /\ IsFiniteSet(held)
  /\ pool_size = FreeBytes + HeldBytes + MovingBytes + Uncut

LEMMA OrdersFinite == IsFiniteSet(Orders)
BY FS_Interval, SizesAssumption DEF Orders

LEMMA BytesType ==
  ASSUME NEW lists \in Lists
  PROVE  BytesOn(lists) \in Nat
<1> DEFINE f == [o \in Orders |-> Len(lists[o]) * BlockSize(o)]
<1>1. \A o \in Orders : f[o] \in Nat
  BY BlockSizes DEF Lists
<1>2. DOMAIN f = Orders
  OBVIOUS
<1> HIDE DEF f
<1>3. SumFunctionOnSet(f, Orders) \in Nat
  BY <1>1, OrdersFinite, SumOverSet
<1> QED
  BY <1>2, <1>3 DEF BytesOn, SumFunction, f

(* A list that gets longer by d blocks.                                     *)
LEMMA BytesChange ==
  ASSUME NEW old \in Lists, NEW new \in Lists, NEW o \in Orders, NEW d \in Nat,
         Len(new[o]) = Len(old[o]) + d,
         \A p \in Orders \ {o} : new[p] = old[p]
  PROVE  BytesOn(new) = BytesOn(old) + d * BlockSize(o)
<1> DEFINE f == [p \in Orders |-> Len(old[p]) * BlockSize(p)]
           g == [p \in Orders |-> Len(new[p]) * BlockSize(p)]
<1>1. \A p \in Orders : f[p] \in Nat /\ g[p] \in Nat
  BY BlockSizes DEF Lists
<1>2. \A p \in Orders \ {o} : f[p] = g[p]
  OBVIOUS
<1>3. DOMAIN f = Orders /\ DOMAIN g = Orders
  OBVIOUS
<1>4. g[o] = f[o] + d * BlockSize(o)
  <2>1. Len(old[o]) \in Int /\ BlockSize(o) \in Int
    BY BlockSizes DEF Lists
  <2>2. (Len(old[o]) + d) * BlockSize(o) = Len(old[o]) * BlockSize(o) + d * BlockSize(o)
    BY <2>1
  <2> QED
    BY <2>2
<1> HIDE DEF f, g
<1>5. SumFunctionOnSet(g, Orders) - g[o] = SumFunctionOnSet(f, Orders) - f[o]
  BY <1>1, <1>2, OrdersFinite, SumOneChanged
<1>6. BytesOn(old) = SumFunctionOnSet(f, Orders) /\ BytesOn(new) = SumFunctionOnSet(g, Orders)
  BY <1>3 DEF BytesOn, SumFunction, f, g
<1>7. BytesOn(old) \in Nat /\ BytesOn(new) \in Nat
  BY BytesType
<1> DEFINE more == d * BlockSize(o)
<1>8. more \in Int /\ g[o] = f[o] + more
  BY <1>4, BlockSizes
<1> HIDE DEF more
<1>9. BytesOn(new) = BytesOn(old) + more
  BY <1>1, <1>5, <1>6, <1>7, <1>8
<1> QED
  BY <1>9 DEF more

LEMMA BytesOnNone ==
  ASSUME NEW lists, \A o \in Orders : lists[o] = <<>>
  PROVE  BytesOn(lists) = 0
<1> DEFINE f == [p \in Orders |-> Len(lists[p]) * BlockSize(p)]
<1>1. \A p \in Orders : f[p] = 0
  BY BlockSizes
<1>2. DOMAIN f = Orders
  OBVIOUS
<1> HIDE DEF f
<1> QED
  BY <1>1, <1>2, OrdersFinite, SumOfZeros DEF BytesOn, SumFunction, f

LEMMA PushLonger ==
  ASSUME NEW lists \in Lists, NEW o \in Orders, NEW a \in Nat
  PROVE  /\ Len(Push(lists, o, a)[o]) = Len(lists[o]) + 1
         /\ \A p \in Orders \ {o} : Push(lists, o, a)[p] = lists[p]
<1>1. Push(lists, o, a)[o] = <<a>> \o lists[o] /\ lists[o] \in Seq(Nat)
  BY DEF Push, Lists, Cons
<1> QED
  BY <1>1 DEF Push, Lists

LEMMA RemoveAtShorter ==
  ASSUME NEW s \in Seq(Nat), NEW k \in 1 .. Len(s)
  PROVE  Len(RemoveAt(s, k)) = Len(s) - 1
<1> DEFINE front == SubSeq(s, 1, k - 1)
           back  == SubSeq(s, k + 1, Len(s))
<1>1. front \in Seq(Nat) /\ Len(front) = k - 1
  OBVIOUS
<1>2. back \in Seq(Nat) /\ Len(back) = Len(s) - k
  OBVIOUS
<1>3. RemoveAt(s, k) = front \o back
  BY DEF RemoveAt
<1> HIDE DEF front, back
<1>4. Len(front \o back) = Len(front) + Len(back)
  BY <1>1, <1>2, ConcatProperties, Zenon
<1> QED
  BY <1>1, <1>2, <1>3, <1>4

(* A caller gets a block, and gives it back.                               *)
LEMMA BytesGranted ==
  ASSUME NEW S, IsFiniteSet(S), NEW b, b \notin S, \A x \in S \cup {b} : x.got \in Nat
  PROVE  BytesOf(S \cup {b}) = b.got + BytesOf(S)
<1> DEFINE f == [x \in S |-> x.got]
           g == [x \in S \cup {b} |-> x.got]
<1>1. /\ DOMAIN f = S /\ DOMAIN g = S \cup {b} /\ g[b] = b.got
      /\ \A x \in S \cup {b} : g[x] \in Nat
      /\ \A x \in S : f[x] = g[x]
  OBVIOUS
<1> HIDE DEF f, g
<1>2. SumFunctionOnSet(g, S \cup {b}) = g[b] + SumFunctionOnSet(f, S)
  BY <1>1, SumOneMore
<1> QED
  BY <1>1, <1>2 DEF BytesOf, SumFunction, f, g

LEMMA BytesOfType ==
  ASSUME NEW S, IsFiniteSet(S), \A x \in S : x.got \in Nat
  PROVE  BytesOf(S) \in Nat /\ (S = {} => BytesOf(S) = 0)
<1> DEFINE f == [x \in S |-> x.got]
<1>1. DOMAIN f = S /\ \A x \in S : f[x] \in Nat
  OBVIOUS
<1> HIDE DEF f
<1>2. SumFunctionOnSet(f, S) \in Nat /\ (S = {} => SumFunctionOnSet(f, S) = 0)
  BY <1>1, SumOverSet
<1> QED
  BY <1>1, <1>2 DEF BytesOf, SumFunction, f

LEMMA HeldBytesType ==
  ASSUME TypeOK, IsFiniteSet(held)
  PROVE  HeldBytes \in Nat /\ (held = {} => HeldBytes = 0)
<1>1. \A b \in held : b.got \in Nat
  BY DEF TypeOK
<1> QED
  BY <1>1, BytesOfType DEF HeldBytes, BytesOf

LEMMA AccountedInit == Init => Accounted
<1> SUFFICES ASSUME Init PROVE Accounted
  OBVIOUS
<1> USE SizesAssumption
<1>1. FreeBytes = 0
  <2>1. \A o \in Orders : free_lists[o] = <<>>
    BY DEF Init
  <2> QED
    BY <2>1, BytesOnNone DEF FreeBytes, BytesOn
<1>2. IsFiniteSet(held) /\ held = {}
  BY FS_EmptySet DEF Init
<1>3. HeldBytes = 0
  BY <1>2, HeldBytesType, InitInv DEF IInv
<1>4. 0 % PAGE_SIZE = 0
  BY Division
<1> QED
  BY <1>1, <1>2, <1>3, <1>4 DEF Init, Accounted, MovingBytes, Uncut

(* Each step only moves bytes from one account to another.                 *)
LEMMA AccountedNext == IInv /\ IInv' /\ Accounted /\ [Next]_vars => Accounted'
<1> SUFFICES ASSUME IInv, IInv', Accounted, [Next]_vars PROVE Accounted'
  OBVIOUS
<1> USE SizesAssumption
<1>a. /\ free_lists \in Lists /\ free_lists' \in Lists
      /\ pool_size \in Nat /\ IsFiniteSet(held)
      /\ order \in Orders /\ level \in Orders
      /\ pool_size = FreeBytes + HeldBytes + MovingBytes + Uncut
  BY DEF IInv, TypeOK, Lists, Accounted
<1>b. /\ FreeBytes = BytesOn(free_lists) /\ FreeBytes' = BytesOn(free_lists')
      /\ FreeBytes \in Nat /\ FreeBytes' \in Nat
  BY <1>a, BytesType DEF FreeBytes, BytesOn
<1>c. HeldBytes = BytesOf(held) /\ HeldBytes' = BytesOf(held') /\ HeldBytes \in Nat
  BY <1>a, HeldBytesType DEF HeldBytes, BytesOf, IInv
<1>d. \A b \in held : b.got \in Nat
  BY DEF IInv, TypeOK
<1>1. CASE \E p \in Pools : InitCall(p.start, p.bytes)
  <2>1. PICK p \in Pools : InitCall(p.start, p.bytes)
    BY <1>1
  <2>2. /\ \A o \in Orders : free_lists'[o] = <<>>
        /\ pool_size' = p.bytes /\ remaining' = p.bytes /\ pc' = "init"
        /\ held' = held /\ held = {} /\ p.bytes \in Nat
    BY <2>1 DEF InitCall, IInv, LocalsInv
  <2>3. FreeBytes' = 0
    BY <1>b, <2>2, BytesOnNone
  <2>4. HeldBytes = 0
    BY <1>a, <2>2, HeldBytesType DEF IInv
  <2> QED
    BY <1>a, <1>c, <2>2, <2>3, <2>4 DEF Accounted, MovingBytes, Uncut
<1>2. CASE CreateBlock
  <2>1. PICK o \in Orders : /\ free_lists' = Push(free_lists, o, address)
                            /\ remaining' = remaining - BlockSize(o)
    BY <1>2 DEF CreateBlock
  <2>2. /\ pc = "init" /\ pc' = "init" /\ held' = held /\ pool_size' = pool_size
        /\ address \in Nat /\ remaining \in Nat /\ remaining' \in Nat
    BY <1>2 DEF CreateBlock, pool, IInv, TypeOK
  <2>3. /\ Len(free_lists'[o]) = Len(free_lists[o]) + 1
        /\ \A q \in Orders \ {o} : free_lists'[q] = free_lists[q]
    BY <1>a, <2>1, <2>2, PushLonger
  <2>4. FreeBytes' = FreeBytes + 1 * BlockSize(o) /\ BlockSize(o) \in Nat
    BY <1>a, <1>b, <2>3, BytesChange, BlockSizes
  <2> QED
    BY <1>a, <1>b, <1>c, <2>1, <2>2, <2>4 DEF Accounted, MovingBytes, Uncut
<1>3. CASE InitDone
  <2>1. /\ pc = "init" /\ pc' = "idle" /\ UNCHANGED <<held, free_lists, pool_size>>
        /\ remaining < PAGE_SIZE /\ remaining \in Nat
        /\ remaining % PAGE_SIZE = pool_size % PAGE_SIZE
    BY <1>3 DEF InitDone, Return, pool, IInv, TypeOK, LocalsInv
  <2>2. remaining = pool_size % PAGE_SIZE
    BY <2>1, Division
  <2> QED
    BY <1>a, <1>b, <1>c, <2>1, <2>2 DEF Accounted, MovingBytes, Uncut
<1>4. CASE /\ pc \in {"off", "idle", "search", "split"}
           /\ pc' \in {"off", "idle", "search", "split"}
           /\ UNCHANGED <<held, free_lists, pool_size>>
  BY <1>a, <1>b, <1>c, <1>4 DEF Accounted, MovingBytes, Uncut
<1>5. CASE SplitBlock
  <2> DEFINE low     == level - 1
             block   == Head(free_lists[level])
             buddy   == block + BlockSize(low)
             dropped == [free_lists EXCEPT ![level] = Tail(@)]
  <2>1. /\ pc = "split" /\ pc' = "split" /\ level > order
        /\ UNCHANGED <<held, pool_size>>
        /\ free_lists' = [free_lists EXCEPT ![level] = Tail(@),
                                            ![low] = <<block, buddy>> \o @]
        /\ free_lists[level] # <<>>
    BY <1>5 DEF SplitBlock, pool, IInv, LocalsInv
  <2>2. /\ low \in Orders /\ low < MAX_ORDER /\ low + 1 = level /\ low # level
        /\ MAX_ORDER \in Nat
    BY <1>a, <2>1 DEF Orders
  <2>3. BlockSize(level) = BlockSize(low) + BlockSize(low) /\ BlockSize(low) \in Nat
    BY <2>2, BlockSizes
  <2>4. /\ dropped \in Lists
        /\ Len(free_lists[level]) = Len(dropped[level]) + 1
        /\ \A q \in Orders \ {level} : free_lists[q] = dropped[q]
    BY <1>a, <2>1 DEF Lists
  <2>6. block \in Nat /\ buddy \in Nat
    <3>1. block \in Nat
      BY <1>a, <2>1 DEF Lists
    <3> QED
      BY <2>3, <3>1
  <2>7. /\ free_lists'[low] = <<block, buddy>> \o free_lists[low]
        /\ free_lists'[level] = Tail(free_lists[level])
        /\ \A q \in Orders \ {level, low} : free_lists'[q] = free_lists[q]
    BY <1>a, <2>1, <2>2 DEF Lists
  <2>8. /\ Len(free_lists'[low]) = Len(dropped[low]) + 2
        /\ \A q \in Orders \ {low} : free_lists'[q] = dropped[q]
    <3>1. dropped[low] = free_lists[low] /\ free_lists[low] \in Seq(Nat)
      BY <1>a, <2>2 DEF Lists
    <3>2. dropped[level] = Tail(free_lists[level])
      BY <1>a DEF Lists
    <3> QED
      BY <2>6, <2>7, <3>1, <3>2, <2>4
  <2> HIDE DEF dropped, low
  <2>5. BytesOn(free_lists) = BytesOn(dropped) + 1 * BlockSize(level)
    BY <1>a, <2>4, BytesChange
  <2>9. BytesOn(free_lists') = BytesOn(dropped) + 2 * BlockSize(low)
    BY <1>a, <2>2, <2>4, <2>8, BytesChange
  <2>10. FreeBytes' = FreeBytes
    BY <1>b, <2>3, <2>5, <2>9
  <2> QED
    BY <1>a, <1>c, <2>1, <2>10 DEF Accounted, MovingBytes, Uncut
<1>6. CASE TakeBlock
  <2> DEFINE block == Head(free_lists[level])
             taken == [addr |-> block, got |-> size[block], asked |-> request]
  <2>1. /\ pc = "split" /\ pc' = "idle" /\ pool_size' = pool_size
        /\ held' = held \cup {taken} /\ free_lists[level] # <<>>
        /\ free_lists' = [free_lists EXCEPT ![level] = Tail(@)]
    BY <1>6 DEF TakeBlock, Return, pool, IInv, LocalsInv
  <2>2. Tile(block, BlockSize(level)) \in FreeTiles
    <3>1. block \in Range(free_lists[level])
      BY <1>a, <2>1, TailRange DEF Lists, IInv, OneOwner
    <3> QED
      BY <1>a, <3>1, TileFacts
  <2>3. size[block] = BlockSize(level)
    BY <2>2 DEF IInv, HeadersMatch, Tiles, Tile
  <2>4. taken \notin held
    <3>1. taken \in held => Tile(block, BlockSize(level)) \in HeldTiles
      BY <2>3 DEF HeldTiles
    <3> QED
      BY <2>2, <3>1 DEF IInv, OneOwner
  <2>5. BlockSize(level) \in Nat /\ taken.got = BlockSize(level)
    BY <1>a, <2>3, BlockSizes
  <2> HIDE DEF taken
  <2>6. IsFiniteSet(held') /\ HeldBytes' = BlockSize(level) + HeldBytes
    BY <1>a, <1>c, <1>d, <2>1, <2>4, <2>5, BytesGranted, FS_AddElement
  <2>7. /\ Len(free_lists[level]) = Len(free_lists'[level]) + 1
        /\ \A q \in Orders \ {level} : free_lists[q] = free_lists'[q]
    BY <1>a, <2>1 DEF Lists
  <2>8. FreeBytes = FreeBytes' + 1 * BlockSize(level)
    BY <1>a, <1>b, <2>7, BytesChange
  <2> QED
    <3>1. MovingBytes = 0 /\ MovingBytes' = 0 /\ Uncut' = Uncut
      BY <2>1 DEF MovingBytes, Uncut
    <3>2. FreeBytes' + HeldBytes' = FreeBytes + HeldBytes
      BY <1>b, <1>c, <2>5, <2>6, <2>8
    <3> QED
      BY <1>a, <1>b, <1>c, <2>1, <2>6, <3>1, <3>2 DEF Accounted
<1>7. CASE \E block \in held : FreeCall(block)
  <2>1. PICK block \in held : FreeCall(block)
    BY <1>7
  <2>2. /\ pc = "idle" /\ pc' = "merge" /\ UNCHANGED <<free_lists, pool_size>>
        /\ held' = held \ {block} /\ find_order(size[block.addr], order')
        /\ order' \in Orders
    BY <2>1 DEF FreeCall, pool
  <2>3. PICK o \in Orders : block.got = BlockSize(o)
    BY DEF IInv, HeadersMatch
  <2>4. size[block.addr] = block.got
    <3>1. Tile(block.addr, block.got) \in Tiles
      BY DEF Tiles, HeldTiles
    <3> QED
      BY <3>1 DEF IInv, HeadersMatch, Tile
  <2>5. block.got = BlockSize(order')
    BY <2>2, <2>3, <2>4, FindOrderOfBlock
  <2>6. IsFiniteSet(held') /\ block \notin held' /\ held = held' \cup {block}
    BY <1>a, <2>2, FS_RemoveElement
  <2>7. HeldBytes = block.got + HeldBytes' /\ HeldBytes' \in Nat
    <3>1. BytesOf(held' \cup {block}) = block.got + BytesOf(held')
      BY <1>d, <2>6, BytesGranted
    <3>2. BytesOf(held') \in Nat
      BY <1>d, <2>6, BytesOfType
    <3> QED
      BY <1>c, <2>6, <3>1, <3>2
  <2> QED
    BY <1>a, <1>b, <1>d, <2>2, <2>5, <2>6, <2>7 DEF Accounted, MovingBytes, Uncut
<1>8. CASE MergeBuddy
  <2>1. PICK k \in DOMAIN free_lists[order] :
          free_lists' = [free_lists EXCEPT ![order] = RemoveAt(@, k)]
    BY <1>8 DEF MergeBuddy
  <2>2. /\ pc = "merge" /\ pc' = "merge" /\ UNCHANGED <<held, pool_size>>
        /\ order < MAX_ORDER /\ order' = order + 1
    BY <1>8 DEF MergeBuddy, pool
  <2>3. BlockSize(order') = BlockSize(order) + BlockSize(order) /\ BlockSize(order) \in Nat
    BY <1>a, <2>2, BlockSizes
  <2>4. /\ Len(free_lists[order]) = Len(free_lists'[order]) + 1
        /\ \A q \in Orders \ {order} : free_lists[q] = free_lists'[q]
    <3>1. free_lists[order] \in Seq(Nat) /\ k \in 1 .. Len(free_lists[order])
      BY <1>a, <2>1 DEF Lists
    <3>2. Len(RemoveAt(free_lists[order], k)) = Len(free_lists[order]) - 1
      BY <3>1, RemoveAtShorter
    <3> QED
      BY <1>a, <2>1, <3>1, <3>2 DEF Lists
  <2>5. FreeBytes = FreeBytes' + 1 * BlockSize(order)
    BY <1>a, <1>b, <2>4, BytesChange
  <2> QED
    BY <1>a, <1>b, <1>c, <2>2, <2>3, <2>5 DEF Accounted, MovingBytes, Uncut
<1>9. CASE InsertBlock
  <2>1. /\ pc = "merge" /\ pc' = "idle" /\ UNCHANGED <<held, pool_size>>
        /\ free_lists' = Push(free_lists, order, address) /\ address \in Nat
    BY <1>9 DEF InsertBlock, Return, pool, IInv, TypeOK
  <2>2. /\ Len(free_lists'[order]) = Len(free_lists[order]) + 1
        /\ \A q \in Orders \ {order} : free_lists'[q] = free_lists[q]
    BY <1>a, <2>1, PushLonger
  <2>3. FreeBytes' = FreeBytes + 1 * BlockSize(order) /\ BlockSize(order) \in Nat
    BY <1>a, <1>b, <2>2, BytesChange, BlockSizes
  <2> QED
    BY <1>a, <1>b, <1>c, <2>1, <2>3 DEF Accounted, MovingBytes, Uncut
<1>10. CASE UNCHANGED vars
  BY <1>a, <1>b, <1>c, <1>10 DEF Accounted, MovingBytes, Uncut, vars, pool, locals
<1>11. ASSUME \/ \E bytes \in RequestSizes : AllocCall(bytes)
              \/ SearchFound \/ SearchFailed
       PROVE  /\ pc \in {"off", "idle", "search", "split"}
              /\ pc' \in {"off", "idle", "search", "split"}
              /\ UNCHANGED <<held, free_lists, pool_size>>
  BY <1>11 DEF AllocCall, SearchFound, SearchFailed, Return, pool
<1> QED
  BY <1>1, <1>2, <1>3, <1>4, <1>5, <1>6, <1>7, <1>8, <1>9, <1>10, <1>11
  DEF Next, Internal, Client

(* Every byte of the pool is in one account, in every state of every loop. *)
THEOREM Accounting == Spec => []Accounted
BY AccountedInit, AccountedNext, Invariance, PTL DEF Spec

(* What the allocator reports as allocated is what callers hold and the    *)
(* tail of the pool, whatever was split and merged before.                 *)
THEOREM ReportCorrect == Spec => []ReportExact
<1>1. IInv /\ Accounted => ReportExact
  <2> SUFFICES ASSUME IInv, Accounted, pc = "idle"
               PROVE  pool_size - FreeBytes = HeldBytes + (pool_size % PAGE_SIZE)
    BY DEF ReportExact
  <2>1. pool_size = FreeBytes + HeldBytes + (pool_size % PAGE_SIZE)
    <3>1. pool_size = FreeBytes + HeldBytes + 0 + (pool_size % PAGE_SIZE)
      BY DEF Accounted, MovingBytes, Uncut
    <3>2. FreeBytes \in Nat
      BY BytesType DEF FreeBytes, BytesOn, IInv, TypeOK, Lists
    <3>3. HeldBytes \in Nat
      BY HeldBytesType DEF IInv, Accounted
    <3> QED
      BY <3>1, <3>2, <3>3
  <2>2. FreeBytes \in Nat
    BY BytesType DEF FreeBytes, BytesOn, IInv, TypeOK, Lists
  <2>3. HeldBytes \in Nat
    BY HeldBytesType DEF IInv, Accounted
  <2>4. pool_size % PAGE_SIZE \in Nat
    BY SizesAssumption, Division DEF IInv, TypeOK
  <2> QED
    BY <2>1, <2>2, <2>3, <2>4
<1> QED
  BY <1>1, Accounting, Invariance, PTL

-----------------------------------------------------------------------------
(* What is left of a call, in iterations: a natural number that each step  *)
(* of the code makes smaller.                                              *)
Left ==
  CASE pc = "init"   -> remaining + 1
    [] pc = "search" -> MAX_ORDER + 2
    [] pc = "split"  -> level - order + 1
    [] pc = "merge"  -> MAX_ORDER - order + 1
    [] OTHER         -> 0

LEMMA LeftIs ==
  /\ pc = "init" => Left = remaining + 1
  /\ pc = "search" => Left = MAX_ORDER + 2
  /\ pc = "split" => Left = level - order + 1
  /\ pc = "merge" => Left = MAX_ORDER - order + 1
  /\ pc \in {"idle", "off"} => Left = 0
BY DEF Left

LEMMA LeftType ==
  ASSUME IInv
  PROVE  Left \in Nat /\ (pc \notin {"off", "idle"} => Left > 0)
<1>1. /\ remaining \in Nat /\ order \in 0 .. MAX_ORDER /\ level \in 0 .. MAX_ORDER
      /\ MAX_ORDER \in Nat /\ pc \in {"off", "init", "idle", "search", "split", "merge"}
  BY SizesAssumption DEF IInv, TypeOK, Orders
<1>2. pc = "split" => order <= level
  BY DEF IInv, LocalsInv
<1> QED
  BY <1>1, <1>2, LeftIs

LEMMA LeftFalls ==
  ASSUME IInv, IInv', Internal
  PROVE  Left' < Left
<1>1. Left \in Nat /\ (pc \notin {"off", "idle"} => Left > 0)
  BY LeftType
<1>2. /\ pc' = "init" => Left' = remaining' + 1
      /\ pc' = "search" => Left' = MAX_ORDER + 2
      /\ pc' = "split" => Left' = level' - order' + 1
      /\ pc' = "merge" => Left' = MAX_ORDER - order' + 1
      /\ pc' \in {"idle", "off"} => Left' = 0
  BY DEF Left
<1>3. /\ remaining \in Nat /\ order \in 0 .. MAX_ORDER /\ level \in 0 .. MAX_ORDER
      /\ MAX_ORDER \in Nat
  BY SizesAssumption DEF IInv, TypeOK, Orders
<1>4. ASSUME Return, pc \notin {"off", "idle"}
      PROVE  Left' < Left
  BY <1>1, <1>2, <1>4 DEF Return
<1>5. CASE CreateBlock
  <2>1. PICK o \in Orders : remaining' = remaining - BlockSize(o)
    BY <1>5 DEF CreateBlock
  <2>2. BlockSize(o) \in Nat \ {0}
    BY BlockSizes
  <2>3. pc = "init" /\ pc' = "init"
    BY <1>5 DEF CreateBlock
  <2>4. Left' = remaining' + 1 /\ Left = remaining + 1
    BY <1>2, <2>3, LeftIs
  <2> QED
    BY <1>3, <2>1, <2>2, <2>4
<1>6. CASE SearchFound
  <2>1. pc = "search" /\ pc' = "split" /\ order' = order /\ level' \in order .. MAX_ORDER
    BY <1>6 DEF SearchFound
  <2>2. Left' = level' - order + 1 /\ Left = MAX_ORDER + 2
    BY <1>2, <2>1, LeftIs
  <2>3. level' - order + 1 < MAX_ORDER + 2
    <3>1. \A m, n \in Nat : \A i \in m .. n : i - m + 1 < n + 2
      OBVIOUS
    <3>2. order \in Nat /\ MAX_ORDER \in Nat
      BY <1>3
    <3>3. level' \in order .. MAX_ORDER
      BY <2>1
    <3> QED
      BY <3>1, <3>2, <3>3
  <2> QED
    BY <2>2, <2>3
<1>7. CASE SplitBlock
  <2>1. pc = "split" /\ pc' = "split" /\ order' = order /\ level' = level - 1
    BY <1>7 DEF SplitBlock
  <2> QED
    BY <1>2, <1>3, <2>1, LeftIs
<1>8. CASE MergeBuddy
  <2>1. pc = "merge" /\ pc' = "merge" /\ order' = order + 1
    BY <1>8 DEF MergeBuddy
  <2> QED
    BY <1>2, <1>3, <2>1, LeftIs
<1>9. CASE InitDone \/ SearchFailed \/ TakeBlock \/ InsertBlock
  BY <1>4, <1>9 DEF InitDone, SearchFailed, TakeBlock, InsertBlock
<1> QED
  BY <1>5, <1>6, <1>7, <1>8, <1>9 DEF Internal

(* No call goes on for ever: each iteration of the loops of init, allocate *)
(* and free, and each return, leaves less of the call to do than there     *)
(* was, of what is finite when it starts.  That the code is never stuck is *)
(* left to the run.                                                        *)
THEOREM CallsAdvance ==
  Spec => [](Left \in Nat) /\ [][Internal => Left' < Left]_vars
<1>1. IInv => Left \in Nat
  BY LeftType
<1>2. IInv /\ IInv' => (Internal => Left' < Left)
  BY LeftFalls
<1> QED
  BY <1>1, <1>2, Invariance, PTL

-----------------------------------------------------------------------------
(***************************************************************************)
(* Free merges as far as it can.  While allocate splits, the two halves of *)
(* a block do share a list for a moment; that they do not in between calls *)
(* is an invariant only together with what the splitting loop finds on the *)
(* lists it has passed, and what init has left to cut.                     *)
(*                                                                         *)
(* In a pool that starts on a boundary of the largest block it follows     *)
(* that free memory is never scattered: allocate refuses for want of room  *)
(* only, and an empty pool is cut as init cut it.                          *)
(***************************************************************************)

(* The buddy of the buddy is the block itself.                             *)
LEMMA BuddyOfBuddy ==
  ASSUME NEW n \in Nat \ {0}, NEW a \in Nat, NEW b \in Nat, b = find_buddy(a, n)
  PROVE  find_buddy(b, n) = a
<1> DEFINE q == a \div n
           r == a % n
<1>1. a = n * q + r /\ r \in 0 .. (n - 1) /\ q \in Nat
  BY Division
<1>2. CASE q % 2 = 0
  <2>1. b = a + n
    BY <1>2 DEF find_buddy
  <2> HIDE DEF q, r
  <2>2. n * (q + 1) = n * q + n
    BY <1>1
  <2>3. PICK k : k = q + 1
    OBVIOUS
  <2>4. b = n * k + r /\ k \in Nat
    BY <1>1, <2>1, <2>2, <2>3
  <2>5. b \div n = k
    BY <1>1, <2>4, UniqueQuotient
  <2>6. k % 2 = 1
    BY <1>1, <1>2, <2>3
  <2> QED
    BY <2>1, <2>5, <2>6 DEF find_buddy
<1>3. CASE q % 2 # 0
  <2>1. b = a - n
    BY <1>3 DEF find_buddy
  <2> HIDE DEF q, r
  <2>2. n * (q - 1) = n * q - n
    BY <1>1
  <2>3. PICK k : k = q - 1
    OBVIOUS
  <2>4. b = n * k + r /\ k \in Nat
    BY <1>1, <1>3, <2>1, <2>2, <2>3
  <2>5. b \div n = k
    BY <1>1, <2>4, UniqueQuotient
  <2>6. k % 2 = 0
    BY <1>1, <1>3, <2>3
  <2> QED
    BY <2>1, <2>5, <2>6 DEF find_buddy
<1> QED
  BY <1>2, <1>3

-----------------------------------------------------------------------------
(* No address in S is the buddy of another, as blocks of the order.        *)
NoBuddies(S, o) == \A a \in S : find_buddy(a, BlockSize(o)) \notin S

Mergeable == Orders \ {MAX_ORDER}

CoalescedInv ==
  /\ \A o \in Mergeable :
       (pc = "split" /\ o = level) \/ NoBuddies(Range(free_lists[o]), o)
  /\ pc = "init" =>
       \A o \in Mergeable : free_lists[o] = <<>> \/ remaining < BlockSize(o)
  /\ pc = "split" =>
       /\ \A o \in order .. (level - 1) : free_lists[o] = <<>>
       /\ level \in Mergeable => NoBuddies(Range(Tail(free_lists[level])), level)

(* Neither a list with fewer elements nor one with a single element gets   *)
(* buddies, and one more element is no buddy unless it is put next to its  *)
(* own.                                                                    *)
LEMMA FewerBuddies ==
  ASSUME NEW o, NEW S, NEW T \in SUBSET S, NoBuddies(S, o)
  PROVE  NoBuddies(T, o)
BY DEF NoBuddies

LEMMA SingleBuddy ==
  ASSUME NEW o \in Orders, NEW a \in Nat
  PROVE  NoBuddies({a}, o)
<1>1. BlockSize(o) \in Nat \ {0}
  BY BlockSizes
<1> QED
  BY <1>1 DEF NoBuddies, find_buddy

LEMMA MoreBuddies ==
  ASSUME NEW o \in Orders, NEW S \in SUBSET Nat, NEW a \in Nat, NoBuddies(S, o),
         find_buddy(a, BlockSize(o)) \notin S
  PROVE  NoBuddies(S \cup {a}, o)
<1>1. BlockSize(o) \in Nat \ {0}
  BY BlockSizes
<1>2. \A b \in S : find_buddy(b, BlockSize(o)) # a
  BY <1>1, BuddyOfBuddy
<1>3. find_buddy(a, BlockSize(o)) # a
  BY <1>1 DEF find_buddy
<1> QED
  BY <1>2, <1>3 DEF NoBuddies

LEMMA CoalescedInit == Init => CoalescedInv
<1>1. Init => \A o \in Orders : Range(free_lists[o]) = {} /\ free_lists[o] = <<>>
  BY DEF Init, Range
<1> QED
  BY <1>1 DEF Init, CoalescedInv, NoBuddies, Mergeable

LEMMA CoalescedCreate ==
  ASSUME IInv, CoalescedInv, CreateBlock
  PROVE  CoalescedInv'
<1> USE SizesAssumption
<1>1. PICK o \in Orders :
        /\ LargestFit(remaining, o)
        /\ free_lists' = Push(free_lists, o, address)
        /\ remaining' = remaining - BlockSize(o)
  BY DEF CreateBlock
<1>2. /\ pc = "init" /\ pc' = "init" /\ address \in Nat /\ remaining \in Nat
      /\ free_lists \in Lists
  BY DEF CreateBlock, IInv, TypeOK, Lists
<1>3. BlockSize(o) \in Nat \ {0} /\ BlockSize(o) <= remaining
  BY <1>1, BlockSizes DEF LargestFit
<1>4. remaining' \in Nat /\ remaining' < remaining
  BY <1>1, <1>2, <1>3
<1>5. \A p \in Orders \ {o} : free_lists'[p] = free_lists[p]
  BY <1>1, <1>2 DEF Push, Lists
<1>6. ASSUME o \in Mergeable
      PROVE  NoBuddies(Range(free_lists'[o]), o) /\ remaining' < BlockSize(o)
  <2>1. free_lists[o] = <<>>
    BY <1>2, <1>3, <1>6 DEF CoalescedInv
  <2>2. Range(free_lists'[o]) = Range(free_lists[o]) \cup {address}
    BY <1>1, <1>2, ConsRange DEF Push, Lists
  <2>3. Range(free_lists'[o]) = {address}
    BY <2>1, <2>2 DEF Range
  <2>4. o + 1 \in Orders /\ o + 1 > o /\ o < MAX_ORDER
    BY <1>6 DEF Mergeable, Orders
  <2>5. BlockSize(o + 1) > remaining /\ BlockSize(o + 1) = BlockSize(o) + BlockSize(o)
    BY <1>1, <2>4, BlockSizes DEF LargestFit
  <2> QED
    BY <1>1, <1>2, <1>3, <2>3, <2>5, SingleBuddy
<1>7. \A p \in Mergeable : NoBuddies(Range(free_lists'[p]), p)
  BY <1>2, <1>5, <1>6 DEF CoalescedInv, Mergeable
<1>8. \A p \in Mergeable : free_lists'[p] = <<>> \/ remaining' < BlockSize(p)
  <2> TAKE p \in Mergeable
  <2>1. CASE p = o
    BY <1>6, <2>1
  <2>2. CASE p # o
    <3>1. free_lists'[p] = free_lists[p] /\ BlockSize(p) \in Nat
      BY <1>5, <2>2, BlockSizes DEF Mergeable
    <3>2. free_lists[p] = <<>> \/ remaining < BlockSize(p)
      BY <1>2 DEF CoalescedInv
    <3> QED
      BY <1>2, <1>4, <3>1, <3>2
  <2> QED
    BY <2>1, <2>2
<1> QED
  BY <1>2, <1>7, <1>8 DEF CoalescedInv

LEMMA CoalescedFound ==
  ASSUME IInv, CoalescedInv, SearchFound
  PROVE  CoalescedInv'
<1> USE SizesAssumption
<1>1. PICK i \in order .. MAX_ORDER :
        /\ free_lists[i] # <<>> /\ level' = i
        /\ \A j \in order .. (i - 1) : free_lists[j] = <<>>
  BY DEF SearchFound
<1>2. /\ pc = "search" /\ pc' = "split" /\ free_lists' = free_lists /\ order' = order
      /\ i \in Orders
  BY <1>1 DEF SearchFound, IInv, TypeOK, Orders
<1>3. Range(Tail(free_lists[i])) \subseteq Range(free_lists[i])
  BY <1>1, <1>2, TailRange DEF IInv, TypeOK, OneOwner
<1>4. i \in Mergeable => NoBuddies(Range(Tail(free_lists[i])), i)
  BY <1>2, <1>3, FewerBuddies DEF CoalescedInv
<1> QED
  BY <1>1, <1>2, <1>4 DEF CoalescedInv

LEMMA CoalescedSplit ==
  ASSUME IInv, CoalescedInv, SplitBlock
  PROVE  CoalescedInv'
<1> USE SizesAssumption
<1> DEFINE block == Head(free_lists[level])
           low   == level - 1
           buddy == block + BlockSize(low)
<1>1. /\ pc = "split" /\ pc' = "split" /\ level > order /\ order' = order /\ level' = low
      /\ free_lists' = [free_lists EXCEPT ![level] = Tail(@),
                                          ![low] = <<block, buddy>> \o @]
  BY DEF SplitBlock
<1>2. /\ level \in Orders /\ low \in Orders /\ low # level /\ low \in order .. (level - 1)
      /\ order \in Orders /\ free_lists \in Lists
  BY <1>1 DEF IInv, TypeOK, Orders, Lists
<1>3. block \in Nat /\ buddy \in Nat
  <2>1. block \in Nat
    BY <1>1, <1>2, TailRange DEF IInv, LocalsInv, OneOwner, Lists
  <2>2. BlockSize(low) \in Nat
    BY <1>2, BlockSizes
  <2> QED
    BY <2>1, <2>2
<1>4. free_lists[low] = <<>>
  BY <1>1, <1>2 DEF CoalescedInv
<1> HIDE DEF block, low, buddy
<1>5. /\ free_lists'[level] = Tail(free_lists[level])
      /\ free_lists'[low] = <<block, buddy>> \o <<>>
      /\ \A p \in Orders \ {level, low} : free_lists'[p] = free_lists[p]
  BY <1>1, <1>2, <1>4 DEF Lists
<1>6. Tail(free_lists'[low]) = <<buddy>>
  BY <1>3, <1>5
<1>7. Range(<<buddy>>) = {buddy}
  BY DEF Range
<1>8. NoBuddies(Range(Tail(free_lists'[low])), low)
  BY <1>2, <1>3, <1>6, <1>7, SingleBuddy
<1>9. \A p \in Mergeable : p = low \/ NoBuddies(Range(free_lists'[p]), p)
  BY <1>1, <1>5 DEF CoalescedInv, Mergeable
<1>10. \A p \in order .. (low - 1) : free_lists'[p] = <<>>
  <2> TAKE p \in order .. (low - 1)
  <2>1. p \in order .. (level - 1) /\ p \in Orders \ {level, low}
    BY <1>2 DEF Orders, low
  <2> QED
    BY <1>1, <1>5, <2>1 DEF CoalescedInv
<1> QED
  BY <1>1, <1>8, <1>9, <1>10 DEF CoalescedInv

LEMMA CoalescedTake ==
  ASSUME IInv, CoalescedInv, TakeBlock
  PROVE  CoalescedInv'
<1>1. /\ pc = "split" /\ pc' = "idle" /\ level \in Orders /\ free_lists \in Lists
      /\ free_lists' = [free_lists EXCEPT ![level] = Tail(@)]
  BY DEF TakeBlock, Return, IInv, TypeOK, Lists
<1>2. /\ free_lists'[level] = Tail(free_lists[level])
      /\ \A p \in Orders \ {level} : free_lists'[p] = free_lists[p]
  BY <1>1 DEF Lists
<1> QED
  BY <1>1, <1>2 DEF CoalescedInv, Mergeable

LEMMA CoalescedMerge ==
  ASSUME IInv, CoalescedInv, MergeBuddy
  PROVE  CoalescedInv'
<1>1. PICK k \in DOMAIN free_lists[order] :
        free_lists' = [free_lists EXCEPT ![order] = RemoveAt(@, k)]
  BY DEF MergeBuddy
<1>2. /\ pc = "merge" /\ pc' = "merge" /\ order \in Orders /\ free_lists \in Lists
      /\ free_lists[order] \in Seq(Nat) /\ IsInjective(free_lists[order])
  BY DEF MergeBuddy, IInv, TypeOK, Lists, OneOwner
<1>3. /\ free_lists'[order] = RemoveAt(free_lists[order], k)
      /\ \A p \in Orders \ {order} : free_lists'[p] = free_lists[p]
  BY <1>1, <1>2 DEF Lists
<1>4. Range(free_lists'[order]) \subseteq Range(free_lists[order])
  <2>1. k \in 1 .. Len(free_lists[order])
    BY <1>1, <1>2
  <2> QED
    BY <1>2, <1>3, <2>1, RemoveAtRange
<1>5. order \in Mergeable => NoBuddies(Range(free_lists'[order]), order)
  BY <1>2, <1>4, FewerBuddies DEF CoalescedInv
<1> QED
  BY <1>2, <1>3, <1>5 DEF CoalescedInv, Mergeable

LEMMA CoalescedInsert ==
  ASSUME IInv, CoalescedInv, InsertBlock
  PROVE  CoalescedInv'
<1>1. /\ pc = "merge" /\ pc' = "idle" /\ order \in Orders /\ address \in Nat
      /\ free_lists \in Lists /\ free_lists[order] \in Seq(Nat)
      /\ free_lists' = Push(free_lists, order, address)
      /\ order = MAX_ORDER
           \/ ~ Contains(free_lists[order], find_buddy(address, size[address]))
  BY DEF InsertBlock, Return, IInv, TypeOK, Lists
<1>2. size[address] = BlockSize(order)
  <2>1. Tile(address, BlockSize(order)) \in Tiles
    BY <1>1 DEF Tiles, MovingTiles
  <2> QED
    BY <2>1 DEF IInv, HeadersMatch, Tile
<1>3. order \in Mergeable =>
        find_buddy(address, BlockSize(order)) \notin Range(free_lists[order])
  BY <1>1, <1>2 DEF Contains, Range, Mergeable
<1>4. /\ Range(free_lists'[order]) = Range(free_lists[order]) \cup {address}
      /\ \A p \in Orders \ {order} : free_lists'[p] = free_lists[p]
  BY <1>1, ConsRange DEF Push, Lists
<1>5. Range(free_lists[order]) \in SUBSET Nat
  BY <1>1 DEF Range
<1>6. order \in Mergeable => NoBuddies(Range(free_lists'[order]), order)
  BY <1>1, <1>3, <1>4, <1>5, MoreBuddies DEF CoalescedInv
<1> QED
  BY <1>1, <1>4, <1>6 DEF CoalescedInv, Mergeable

LEMMA CoalescedNext == IInv /\ CoalescedInv /\ [Next]_vars => CoalescedInv'
<1> SUFFICES ASSUME IInv, CoalescedInv, [Next]_vars PROVE CoalescedInv'
  OBVIOUS
<1>1. CASE \E p \in Pools : InitCall(p.start, p.bytes)
  <2>1. \A o \in Orders : free_lists'[o] = <<>> /\ Range(free_lists'[o]) = {}
    BY <1>1 DEF InitCall, Range
  <2> QED
    BY <1>1, <2>1 DEF InitCall, CoalescedInv, NoBuddies, Mergeable
<1>2. CASE CreateBlock
  BY <1>2, CoalescedCreate
<1>3. CASE InitDone
  BY <1>3 DEF InitDone, Return, CoalescedInv
<1>4. CASE \E bytes \in RequestSizes : AllocCall(bytes)
  BY <1>4 DEF AllocCall, CoalescedInv
<1>5. CASE SearchFound
  BY <1>5, CoalescedFound
<1>6. CASE SearchFailed
  BY <1>6 DEF SearchFailed, Return, CoalescedInv
<1>7. CASE SplitBlock
  BY <1>7, CoalescedSplit
<1>8. CASE TakeBlock
  BY <1>8, CoalescedTake
<1>9. CASE \E block \in held : FreeCall(block)
  BY <1>9 DEF FreeCall, CoalescedInv
<1>10. CASE MergeBuddy
  BY <1>10, CoalescedMerge
<1>11. CASE InsertBlock
  BY <1>11, CoalescedInsert
<1>12. CASE UNCHANGED vars
  BY <1>12 DEF vars, pool, locals, CoalescedInv
<1> QED
  BY <1>1, <1>2, <1>3, <1>4, <1>5, <1>6, <1>7, <1>8, <1>9, <1>10, <1>11, <1>12
  DEF Next, Internal, Client

(* Between calls no free list below the largest order holds a block and    *)
(* its buddy, for every pool, wherever it starts.                          *)
THEOREM Coalescing == Spec => []FullyCoalesced
<1>1. Init => CoalescedInv
  BY CoalescedInit
<1>2. IInv /\ CoalescedInv /\ [Next]_vars => CoalescedInv'
  BY CoalescedNext
<1>3. CoalescedInv => FullyCoalesced
  BY DEF CoalescedInv, FullyCoalesced, NoBuddies, Mergeable
<1> QED
  BY <1>1, <1>2, <1>3, Invariance, PTL DEF Spec

-----------------------------------------------------------------------------
(* Alignment: in a pool that starts on a boundary of the largest block     *)
(* every block starts on a boundary of its own length.                     *)
(* A larger block is a number of smaller ones.                             *)
LEMMA SizesDivide ==
  ASSUME NEW o \in Orders, NEW p \in Orders, o <= p
  PROVE  Multiple(BlockSize(p), BlockSize(o))
<1> USE SizesAssumption
<1> DEFINE Bad == {q \in Orders : o <= q /\ ~ Multiple(BlockSize(q), BlockSize(o))}
<1> SUFFICES ASSUME Bad # {} PROVE FALSE
  OBVIOUS
<1>1. Bad \in SUBSET Nat
  BY DEF Orders
<1>2. PICK q \in Bad : \A r \in Bad : q <= r
  BY <1>1, LeastOf
<1>3. q \in Orders /\ o <= q /\ ~ Multiple(BlockSize(q), BlockSize(o))
  OBVIOUS
<1>4. q # o
  <2>1. BlockSize(o) \in Nat /\ BlockSize(o) = BlockSize(o) * 1
    BY BlockSizes
  <2> QED
    BY <1>3, <2>1 DEF Multiple
<1>5. /\ q - 1 \in Orders /\ o <= q - 1 /\ q - 1 < q /\ q - 1 < MAX_ORDER /\ q - 1 + 1 = q
  BY <1>3, <1>4 DEF Orders
<1>6. q - 1 \notin Bad
  BY <1>2, <1>5 DEF Orders
<1>7. Multiple(BlockSize(q - 1), BlockSize(o))
  BY <1>5, <1>6
<1>8. BlockSize(q - 1 + 1) = BlockSize(q - 1) + BlockSize(q - 1) /\ BlockSize(o) \in Nat
  BY <1>5, BlockSizes
<1>9. Multiple(BlockSize(q - 1 + 1), BlockSize(o))
  BY <1>7, <1>8, MultipleSum
<1> QED
  BY <1>3, <1>5, <1>9

LEMMA MultipleOfSmaller ==
  ASSUME NEW o \in Orders, NEW p \in Orders, o <= p, NEW a, Multiple(a, BlockSize(p))
  PROVE  Multiple(a, BlockSize(o))
BY BlockSizes, SizesDivide, MultipleTrans

(* What holds in every state: blocks start on boundaries of their length,  *)
(* and what init has left starts on one of a block that what is left has   *)
(* room for at most once, unless it is the largest.                        *)
AlignedInv ==
  Aligned /\ pc # "off" =>
    /\ \A o \in Orders : \A a \in Range(free_lists[o]) : Multiple(a, BlockSize(o))
    /\ \A b \in held : Multiple(b.addr, b.got)
    /\ pc = "merge" => Multiple(address, BlockSize(order))
    /\ pc = "init" =>
         \E o \in Orders :
           /\ Multiple(address, BlockSize(o))
           /\ o = MAX_ORDER \/ remaining < BlockSize(o + 1)

(* A merged block starts on a boundary of its length, wherever the pool    *)
(* starts.                                                                 *)
LEMMA MergedAligned ==
  ASSUME NEW n \in Nat \ {0}, NEW a \in Nat, Multiple(a, n)
  PROVE  Multiple(Merged(a, find_buddy(a, n)), n + n)
<1> DEFINE q == a \div n
<1>1. PICK j \in Nat : a = n * j
  BY DEF Multiple
<1>2. q = j
  <2>1. a = n * j + 0 /\ 0 \in 0 .. (n - 1)
    BY <1>1
  <2> QED
    BY <1>1, <2>1, UniqueQuotient
<1> HIDE DEF q
<1>3. CASE j % 2 = 0
  <2>1. find_buddy(a, n) = a + n
    BY <1>2, <1>3 DEF find_buddy, q
  <2>2. Merged(a, find_buddy(a, n)) = a
    BY <2>1 DEF Merged
  <2>3. PICK h : h = j \div 2
    OBVIOUS
  <2>4. h \in Nat /\ j = 2 * h
    BY <1>3, <2>3
  <2>5. a = (n + n) * h
    BY <1>1, <2>4
  <2> QED
    BY <2>2, <2>4, <2>5 DEF Multiple
<1>4. CASE j % 2 # 0
  <2>1. find_buddy(a, n) = a - n
    BY <1>2, <1>4 DEF find_buddy, q
  <2>2. Merged(a, find_buddy(a, n)) = a - n
    BY <2>1 DEF Merged
  <2>3. PICK h : h = j \div 2
    OBVIOUS
  <2>4. h \in Nat /\ j = 2 * h + 1
    BY <1>4, <2>3
  <2>5. n * j = n * (2 * h) + n
    BY <2>4
  <2>6. a - n = (n + n) * h
    BY <1>1, <2>4, <2>5
  <2> QED
    BY <2>2, <2>4, <2>6 DEF Multiple
<1> QED
  BY <1>3, <1>4

LEMMA AlignedCreate ==
  ASSUME IInv, AlignedInv, CreateBlock
  PROVE  AlignedInv'
<1> USE SizesAssumption
<1>1. PICK o \in Orders :
        /\ LargestFit(remaining, o)
        /\ free_lists' = Push(free_lists, o, address)
        /\ address' = address + BlockSize(o)
        /\ remaining' = remaining - BlockSize(o)
  BY DEF CreateBlock
<1>2. /\ pc = "init" /\ pc' = "init" /\ address \in Nat /\ remaining \in Nat
      /\ free_lists \in Lists /\ held' = held /\ start_address' = start_address
  BY DEF CreateBlock, IInv, TypeOK, Lists, pool
<1> SUFFICES ASSUME Aligned
             PROVE  /\ \A q \in Orders : \A a \in Range(free_lists'[q]) : Multiple(a, BlockSize(q))
                    /\ \A b \in held : Multiple(b.addr, b.got)
                    /\ \E q \in Orders :
                         /\ Multiple(address', BlockSize(q))
                         /\ q = MAX_ORDER \/ remaining' < BlockSize(q + 1)
  BY <1>2 DEF AlignedInv, Aligned
<1>3. PICK p \in Orders :
        Multiple(address, BlockSize(p)) /\ (p = MAX_ORDER \/ remaining < BlockSize(p + 1))
  BY <1>2 DEF AlignedInv
<1>4. o <= p
  <2>1. CASE p = MAX_ORDER
    BY <2>1 DEF Orders
  <2>2. CASE p # MAX_ORDER /\ p < o
    <3>1. p + 1 \in Orders /\ (p + 1 = o \/ p + 1 < o)
      BY <2>2 DEF Orders
    <3>2. /\ BlockSize(p + 1) \in Nat /\ BlockSize(o) \in Nat
          /\ BlockSize(p + 1) <= BlockSize(o)
      BY <3>1, BlockSizes
    <3> QED
      BY <1>1, <1>2, <1>3, <2>2, <3>2 DEF LargestFit
  <2> QED
    BY <2>1, <2>2 DEF Orders
<1>5. BlockSize(o) \in Nat \ {0} /\ Multiple(address, BlockSize(o))
  BY <1>3, <1>4, BlockSizes, MultipleOfSmaller
<1>6. Multiple(address', BlockSize(o))
  <2>1. Multiple(BlockSize(o), BlockSize(o))
    BY SizesDivide, <1>1 DEF Orders
  <2> QED
    BY <1>1, <1>5, <2>1, MultipleSum
<1>7. o = MAX_ORDER \/ remaining' < BlockSize(o + 1)
  <2> SUFFICES ASSUME o # MAX_ORDER PROVE remaining' < BlockSize(o + 1)
    OBVIOUS
  <2>1. o + 1 \in Orders /\ o + 1 > o
    BY DEF Orders
  <2>2. BlockSize(o + 1) > remaining /\ BlockSize(o + 1) \in Nat
    BY <1>1, <2>1, BlockSizes DEF LargestFit
  <2> QED
    BY <1>1, <1>2, <1>5, <2>2
<1>8. \A q \in Orders : \A a \in Range(free_lists'[q]) : a \in Range(free_lists[q]) \/ (q = o /\ a = address)
  <2>1. /\ \A q \in Orders \ {o} : free_lists'[q] = free_lists[q]
        /\ free_lists'[o] = Cons(address, free_lists[o]) /\ free_lists[o] \in Seq(Nat)
    BY <1>1, <1>2 DEF Push, Lists
  <2>2. Range(Cons(address, free_lists[o])) = Range(free_lists[o]) \cup {address}
    BY <1>2, <2>1, ConsRange
  <2>3. Range(free_lists'[o]) = Range(free_lists[o]) \cup {address}
    BY <2>1, <2>2
  <2>4. \A q \in Orders \ {o} : Range(free_lists'[q]) = Range(free_lists[q])
    BY <2>1
  <2> QED
    BY <2>3, <2>4
<1> QED
  BY <1>2, <1>5, <1>6, <1>7, <1>8 DEF AlignedInv

LEMMA AlignedSplit ==
  ASSUME IInv, AlignedInv, SplitBlock
  PROVE  AlignedInv'
<1> USE SizesAssumption
<1> DEFINE block == Head(free_lists[level])
           low   == level - 1
           half  == BlockSize(low)
           buddy == block + half
<1>1. /\ pc = "split" /\ pc' = "split" /\ level > order /\ held' = held
      /\ start_address' = start_address
      /\ free_lists' = [free_lists EXCEPT ![level] = Tail(@),
                                          ![low] = <<block, buddy>> \o @]
  BY DEF SplitBlock, pool
<1>2. /\ level \in Orders /\ low \in Orders /\ low # level /\ low <= level
      /\ free_lists \in Lists
      /\ free_lists[level] \in Seq(Nat) /\ free_lists[low] \in Seq(Nat)
      /\ free_lists[level] # <<>> /\ IsInjective(free_lists[level])
  BY <1>1 DEF IInv, TypeOK, Orders, Lists, OneOwner, LocalsInv
<1>3. /\ block \in Nat /\ block \in Range(free_lists[level])
      /\ Range(Tail(free_lists[level])) \subseteq Range(free_lists[level])
  BY <1>2, TailRange
<1>4. half \in Nat
  BY <1>2, BlockSizes
<1> SUFFICES ASSUME Aligned
             PROVE  /\ \A q \in Orders : \A a \in Range(free_lists'[q]) : Multiple(a, BlockSize(q))
                    /\ \A b \in held : Multiple(b.addr, b.got)
  BY <1>1 DEF AlignedInv, Aligned
<1>5. Multiple(block, BlockSize(level))
  BY <1>1, <1>2, <1>3 DEF AlignedInv
<1>6. Multiple(block, half)
  BY <1>2, <1>5, MultipleOfSmaller
<1>7. Multiple(buddy, half)
  <2>1. Multiple(half, half)
    BY <1>2, SizesDivide DEF Orders
  <2> HIDE DEF half
  <2> QED
    BY <1>4, <1>6, <2>1, MultipleSum
<1> HIDE DEF block, low, half, buddy
<1>8. /\ free_lists'[level] = Tail(free_lists[level])
      /\ free_lists'[low] = <<block, buddy>> \o free_lists[low]
      /\ \A p \in Orders \ {level, low} : free_lists'[p] = free_lists[p]
  BY <1>1, <1>2 DEF Lists
<1>9. \A a \in Range(free_lists'[low]) : a = block \/ a = buddy \/ a \in Range(free_lists[low])
  <2>1. buddy \in Nat
    BY <1>3, <1>4 DEF buddy
  <2>2. <<block, buddy>> \o free_lists[low] = Cons(block, Cons(buddy, free_lists[low]))
    BY <1>2, <1>3, <2>1 DEF Cons
  <2>3. Cons(buddy, free_lists[low]) \in Seq(Nat)
        /\ Range(Cons(buddy, free_lists[low])) = Range(free_lists[low]) \cup {buddy}
    BY <1>2, <2>1, ConsRange
  <2>4. Range(Cons(block, Cons(buddy, free_lists[low])))
          = Range(Cons(buddy, free_lists[low])) \cup {block}
    BY <1>3, <2>3, ConsRange
  <2>5. Range(free_lists'[low]) = Range(Cons(block, Cons(buddy, free_lists[low])))
    BY <1>8, <2>2
  <2>6. Range(free_lists'[low]) = (Range(free_lists[low]) \cup {buddy}) \cup {block}
    BY <2>3, <2>4, <2>5
  <2> QED
    BY <2>6
<1>10. /\ \A q \in Orders : \A a \in Range(free_lists[q]) : Multiple(a, BlockSize(q))
       /\ \A b \in held : Multiple(b.addr, b.got)
  BY <1>1 DEF AlignedInv
<1>11. ASSUME NEW q \in Orders, NEW a \in Range(free_lists'[q])
       PROVE  Multiple(a, BlockSize(q))
  <2>1. CASE q = level
    BY <1>3, <1>8, <1>10, <2>1
  <2>2. CASE q = low
    BY <1>6, <1>7, <1>9, <1>10, <2>2 DEF half
  <2>3. CASE q \notin {level, low}
    BY <1>8, <1>10, <2>3
  <2> QED
    BY <2>1, <2>2, <2>3
<1> QED
  BY <1>10, <1>11

LEMMA AlignedTake ==
  ASSUME IInv, AlignedInv, TakeBlock
  PROVE  AlignedInv'
<1> USE SizesAssumption
<1> DEFINE block == Head(free_lists[level])
           taken == [addr |-> block, got |-> size[block], asked |-> request]
<1>1. /\ pc = "split" /\ pc' = "idle" /\ held' = held \cup {taken}
      /\ start_address' = start_address
      /\ free_lists' = [free_lists EXCEPT ![level] = Tail(@)]
  BY DEF TakeBlock, Return, pool
<1>2. /\ level \in Orders /\ free_lists \in Lists /\ free_lists[level] \in Seq(Nat)
      /\ free_lists[level] # <<>> /\ IsInjective(free_lists[level])
  BY <1>1 DEF IInv, TypeOK, Lists, OneOwner, LocalsInv
<1>3. /\ block \in Range(free_lists[level])
      /\ Range(Tail(free_lists[level])) \subseteq Range(free_lists[level])
  BY <1>2, TailRange
<1>4. size[block] = BlockSize(level)
  <2>1. Tile(block, BlockSize(level)) \in Tiles
    BY <1>2, <1>3, TileFacts DEF Tiles
  <2> QED
    BY <2>1 DEF IInv, HeadersMatch, Tile
<1> HIDE DEF block
<1> SUFFICES ASSUME Aligned
             PROVE  /\ \A q \in Orders : \A a \in Range(free_lists'[q]) : Multiple(a, BlockSize(q))
                    /\ \A b \in held' : Multiple(b.addr, b.got)
  BY <1>1 DEF AlignedInv, Aligned
<1>5. /\ free_lists'[level] = Tail(free_lists[level])
      /\ \A p \in Orders \ {level} : free_lists'[p] = free_lists[p]
  BY <1>1, <1>2 DEF Lists
<1>6. /\ \A q \in Orders : \A a \in Range(free_lists[q]) : Multiple(a, BlockSize(q))
      /\ \A b \in held : Multiple(b.addr, b.got)
  BY <1>1 DEF AlignedInv
<1>7. Multiple(taken.addr, taken.got)
  BY <1>2, <1>3, <1>4, <1>6
<1> HIDE DEF taken
<1> QED
  BY <1>1, <1>3, <1>5, <1>6, <1>7

LEMMA AlignedFree ==
  ASSUME IInv, AlignedInv, NEW block \in held, FreeCall(block)
  PROVE  AlignedInv'
<1>1. /\ pc = "idle" /\ pc' = "merge" /\ held' = held \ {block}
      /\ start_address' = start_address /\ free_lists' = free_lists /\ address' = block.addr
      /\ find_order(size[block.addr], order') /\ order' \in Orders
  BY DEF FreeCall, pool
<1>2. block.got = BlockSize(order')
  <2>1. PICK o \in Orders : block.got = BlockSize(o)
    BY DEF IInv, HeadersMatch
  <2>2. size[block.addr] = block.got
    <3>1. Tile(block.addr, block.got) \in Tiles
      BY DEF Tiles, HeldTiles
    <3> QED
      BY <3>1 DEF IInv, HeadersMatch, Tile
  <2>3. order' = o
    BY <1>1, <2>1, <2>2, FindOrderOfBlock
  <2> QED
    BY <2>1, <2>3
<1> QED
  BY <1>1, <1>2 DEF AlignedInv, Aligned

LEMMA AlignedMerge ==
  ASSUME IInv, AlignedInv, MergeBuddy
  PROVE  AlignedInv'
<1> DEFINE half == BlockSize(order)
<1>1. PICK k \in DOMAIN free_lists[order] :
        free_lists' = [free_lists EXCEPT ![order] = RemoveAt(@, k)]
  BY DEF MergeBuddy
<1>2. /\ pc = "merge" /\ pc' = "merge" /\ held' = held /\ start_address' = start_address
      /\ address' = Merged(address, find_buddy(address, size[address])) /\ order' = order + 1
      /\ order \in Orders /\ order < MAX_ORDER /\ address \in Nat /\ free_lists \in Lists
      /\ free_lists[order] \in Seq(Nat) /\ IsInjective(free_lists[order])
  BY DEF MergeBuddy, IInv, TypeOK, Lists, OneOwner, pool
<1>3. /\ free_lists'[order] = RemoveAt(free_lists[order], k)
      /\ \A p \in Orders \ {order} : free_lists'[p] = free_lists[p]
  BY <1>1, <1>2 DEF Lists
<1>4. Range(free_lists'[order]) \subseteq Range(free_lists[order])
  <2>1. k \in 1 .. Len(free_lists[order])
    BY <1>1, <1>2
  <2> QED
    BY <1>2, <1>3, <2>1, RemoveAtRange
<1>5. size[address] = half
  <2>1. Tile(address, half) \in Tiles
    BY <1>2 DEF Tiles, MovingTiles
  <2> QED
    BY <2>1 DEF IInv, HeadersMatch, Tile
<1>6. half \in Nat \ {0} /\ BlockSize(order + 1) = half + half
  BY <1>2, BlockSizes
<1> SUFFICES ASSUME Aligned
             PROVE  /\ \A q \in Orders : \A a \in Range(free_lists'[q]) : Multiple(a, BlockSize(q))
                    /\ \A b \in held : Multiple(b.addr, b.got)
                    /\ Multiple(address', BlockSize(order'))
  BY <1>2 DEF AlignedInv, Aligned
<1>7. /\ \A q \in Orders : \A a \in Range(free_lists[q]) : Multiple(a, BlockSize(q))
      /\ \A b \in held : Multiple(b.addr, b.got)
      /\ Multiple(address, half)
  BY <1>2 DEF AlignedInv
<1> HIDE DEF half
<1>8. Multiple(address', half + half)
  BY <1>2, <1>5, <1>6, <1>7, MergedAligned
<1> QED
  BY <1>2, <1>3, <1>4, <1>6, <1>7, <1>8

LEMMA AlignedInsert ==
  ASSUME IInv, AlignedInv, InsertBlock
  PROVE  AlignedInv'
<1>1. /\ pc = "merge" /\ pc' = "idle" /\ held' = held /\ start_address' = start_address
      /\ order \in Orders /\ address \in Nat
      /\ free_lists \in Lists /\ free_lists[order] \in Seq(Nat)
      /\ free_lists' = Push(free_lists, order, address)
  BY DEF InsertBlock, Return, IInv, TypeOK, Lists, pool
<1>2. /\ Range(free_lists'[order]) = Range(free_lists[order]) \cup {address}
      /\ \A p \in Orders \ {order} : free_lists'[p] = free_lists[p]
  BY <1>1, ConsRange DEF Push, Lists
<1> QED
  BY <1>1, <1>2 DEF AlignedInv, Aligned

LEMMA AlignedNext == IInv /\ AlignedInv /\ [Next]_vars => AlignedInv'
<1> SUFFICES ASSUME IInv, AlignedInv, [Next]_vars PROVE AlignedInv'
  OBVIOUS
<1> USE SizesAssumption
<1>1. ASSUME NEW p \in Pools, InitCall(p.start, p.bytes) PROVE AlignedInv'
  <2>1. \A o \in Orders : Range(free_lists'[o]) = {}
    BY <1>1 DEF InitCall, Range
  <2>2. /\ pc' = "init" /\ held' = {} /\ address' = start_address' /\ start_address' \in Nat
    BY <1>1 DEF InitCall, IInv, LocalsInv
  <2>3. MAX_ORDER \in Orders /\ BlockSize(MAX_ORDER) \in Nat \ {0}
    BY BlockSizes DEF Orders
  <2>4. Aligned' => Multiple(address', BlockSize(MAX_ORDER))
    BY <2>2, <2>3, MultipleMod DEF Aligned
  <2> QED
    BY <2>1, <2>2, <2>3, <2>4 DEF AlignedInv
<1>2. CASE CreateBlock
  BY <1>2, AlignedCreate
<1>3. CASE InitDone
  BY <1>3 DEF InitDone, Return, AlignedInv, Aligned, pool
<1>4. CASE \E bytes \in RequestSizes : AllocCall(bytes)
  BY <1>4 DEF AllocCall, AlignedInv, Aligned, pool
<1>5. CASE SearchFound
  BY <1>5 DEF SearchFound, AlignedInv, Aligned, pool
<1>6. CASE SearchFailed
  BY <1>6 DEF SearchFailed, Return, AlignedInv, Aligned, pool
<1>7. CASE SplitBlock
  BY <1>7, AlignedSplit
<1>8. CASE TakeBlock
  BY <1>8, AlignedTake
<1>9. CASE \E block \in held : FreeCall(block)
  BY <1>9, AlignedFree
<1>10. CASE MergeBuddy
  BY <1>10, AlignedMerge
<1>11. CASE InsertBlock
  BY <1>11, AlignedInsert
<1>12. CASE UNCHANGED vars
  BY <1>12 DEF vars, pool, locals, AlignedInv, Aligned
<1> QED
  BY <1>1, <1>2, <1>3, <1>4, <1>5, <1>6, <1>7, <1>8, <1>9, <1>10, <1>11, <1>12
  DEF Next, Internal, Client

(* In a pool that starts on a boundary of the largest block every block    *)
(* starts on a boundary of its length.                                     *)
THEOREM Alignment == Spec => []AlignedInv
<1>1. Init => AlignedInv
  BY DEF Init, AlignedInv
<1> QED
  BY <1>1, AlignedNext, Invariance, PTL DEF Spec

(* A block and its buddy are the halves of the block they merge into.      *)
LEMMA Halves ==
  ASSUME NEW n \in Nat \ {0}, NEW x \in Nat, Multiple(x, n),
         NEW y, y = find_buddy(x, n), NEW base, base = Merged(x, y)
  PROVE  /\ base \in Nat /\ Multiple(base, n + n) /\ y \in Nat /\ Multiple(y, n)
         /\ (x = base /\ y = base + n) \/ (x = base + n /\ y = base)
<1>1. Multiple(base, n + n)
  BY MergedAligned
<1>2. base \in Nat
  BY <1>1 DEF Multiple
<1>3. (x = base /\ y = base + n) \/ (x = base + n /\ y = base)
  BY DEF find_buddy, Merged
<1>4. Multiple(n, n) /\ Multiple(n + n, n)
  BY MultipleSum DEF Multiple
<1>5. Multiple(base, n)
  BY <1>1, <1>4, MultipleTrans
<1>6. Multiple(base + n, n)
  BY <1>4, <1>5, MultipleSum
<1> QED
  BY <1>1, <1>2, <1>3, <1>5, <1>6

(* Two blocks on boundaries of their lengths are apart, or the smaller one *)
(* is in the larger one.                                                   *)
LEMMA NestedBlocks ==
  ASSUME NEW o \in Orders, NEW r \in Orders, o <= r, NEW a \in Nat, NEW z \in Nat,
         Multiple(a, BlockSize(o)), Multiple(z, BlockSize(r)),
         NEW y \in Nat, a <= y, y < a + BlockSize(o), z <= y, y < z + BlockSize(r)
  PROVE  z <= a /\ a + BlockSize(o) <= z + BlockSize(r)
<1> DEFINE n == BlockSize(o)
           m == BlockSize(r)
<1>1. n \in Nat \ {0} /\ m \in Nat \ {0} /\ Multiple(z, n) /\ Multiple(m, n)
  BY BlockSizes, MultipleOfSmaller, SizesDivide
<1> HIDE DEF n, m
<1>2. z < a + n /\ a < z + m
  BY <1>1 DEF n, m
<1>3. z <= a
  BY <1>1, <1>2, BoundaryBelow DEF n
<1>4. ~ (z + m < a + n)
  <2>1. Multiple(z + m, n)
    BY <1>1, MultipleSum
  <2>2. z + m < a + n => z + m <= a
    BY <1>1, <2>1, BoundaryBelow DEF n
  <2> QED
    BY <1>1, <1>2, <2>2
<1> QED
  BY <1>1, <1>3, <1>4 DEF n, m

(* Where no caller has a byte, every byte is in a free block.              *)
LEMMA ByteIsFree ==
  ASSUME IInv, AlignedInv, Aligned, pc \in {"idle", "search"},
         NEW o \in Orders, NEW a \in Nat,
         start_address <= a, a + BlockSize(o) <= Frontier,
         \A b \in held : Apart(Tile(a, BlockSize(o)), b),
         NEW y \in Nat, a <= y, y < a + BlockSize(o)
  PROVE  \E r \in Orders : \E z \in Range(free_lists[r]) :
           /\ z \in Nat /\ z <= y /\ y < z + BlockSize(r) /\ Multiple(z, BlockSize(r))
<1> DEFINE bytes == BlockSize(o)
<1>1. /\ bytes \in Nat /\ MovingTiles = {}
      /\ start_address \in Nat /\ Frontier \in Nat
  BY BlockSizes, TileFacts DEF IInv, TypeOK, MovingTiles
<1>2. PICK t \in Tiles : t.addr <= y /\ y < t.addr + t.got
  BY <1>1 DEF IInv, Cut, Tiling, Covers
<1>3. t \notin HeldTiles
  <2> SUFFICES ASSUME t \in HeldTiles PROVE FALSE
    OBVIOUS
  <2>1. PICK b \in held : t = Tile(b.addr, b.got)
    BY DEF HeldTiles
  <2>2. t.addr = b.addr /\ t.got = b.got /\ b.addr \in Nat /\ b.got \in Nat
    BY <2>1 DEF Tile, IInv, TypeOK
  <2>3. a + bytes <= b.addr \/ b.addr + b.got <= a
    BY DEF Apart, Tile
  <2> QED
    BY <1>1, <1>2, <2>2, <2>3
<1>4. PICK r \in Orders : \E z \in Range(free_lists[r]) : t = Tile(z, BlockSize(r))
  BY <1>1, <1>2, <1>3 DEF Tiles, FreeTiles, TilesOn
<1>5. PICK z \in Range(free_lists[r]) : t = Tile(z, BlockSize(r))
  BY <1>4
<1>6. z \in Nat /\ z <= y /\ y < z + BlockSize(r)
  BY <1>2, <1>5, TileFacts DEF Tile
<1>7. Multiple(z, BlockSize(r))
  BY DEF AlignedInv
<1> QED
  BY <1>6, <1>7

(* A place for a block in which no caller has a byte is one free block, or *)
(* in one.  Otherwise take the smallest free block in the place: the block *)
(* its buddy's first byte is in would have to be the buddy, or contain     *)
(* them both.                                                              *)
LEMMA FreeInOnePiece ==
  ASSUME IInv, CoalescedInv, AlignedInv, Aligned, pc \in {"idle", "search"},
         NEW o \in Orders, NEW a \in Nat, Multiple(a, BlockSize(o)),
         start_address <= a, a + BlockSize(o) <= Frontier,
         \A b \in held : Apart(Tile(a, BlockSize(o)), b)
  PROVE  \E r \in Orders : \E z \in Range(free_lists[r]) :
           /\ o <= r /\ z \in Nat /\ z <= a /\ a + BlockSize(o) <= z + BlockSize(r)
           /\ Multiple(z, BlockSize(r))
<1> DEFINE bytes == BlockSize(o)
           Inside(q) == \E x \in Range(free_lists[q]) : a <= x /\ x < a + bytes
           Found == {q \in Orders : q < o /\ Inside(q)}
<1> SUFFICES ASSUME ~ \E r \in Orders : \E z \in Range(free_lists[r]) :
                       /\ o <= r /\ z \in Nat /\ z <= a
                       /\ a + BlockSize(o) <= z + BlockSize(r)
                       /\ Multiple(z, BlockSize(r))
             PROVE  FALSE
  OBVIOUS
<1>1. bytes \in Nat \ {0} /\ o \in Nat
  BY BlockSizes DEF Orders
<1>2. ASSUME NEW y \in Nat, a <= y, y < a + bytes
      PROVE  \E r \in Orders : \E z \in Range(free_lists[r]) :
               /\ r < o /\ z \in Nat /\ z <= y /\ y < z + BlockSize(r)
               /\ a <= z /\ Multiple(z, BlockSize(r))
  <2>1. PICK r \in Orders : \E z \in Range(free_lists[r]) :
          /\ z \in Nat /\ z <= y /\ y < z + BlockSize(r) /\ Multiple(z, BlockSize(r))
    BY <1>2, ByteIsFree
  <2>2. PICK z \in Range(free_lists[r]) :
          /\ z \in Nat /\ z <= y /\ y < z + BlockSize(r) /\ Multiple(z, BlockSize(r))
    BY <2>1
  <2>3. ~ (o <= r)
    BY <1>2, <2>2, NestedBlocks
  <2>4. r < o /\ r <= o
    BY <2>3 DEF Orders
  <2>5. a <= z
    BY <1>2, <2>2, <2>4, NestedBlocks
  <2> QED
    BY <2>2, <2>4, <2>5
<1>3. Found # {}
  <2>1. a <= a /\ a < a + bytes
    BY <1>1
  <2>2. PICK r \in Orders : \E z \in Range(free_lists[r]) :
               r < o /\ z \in Nat /\ z <= a /\ a <= z
    BY <1>2, <2>1
  <2>3. PICK z \in Range(free_lists[r]) : r < o /\ z \in Nat /\ z <= a /\ a <= z
    BY <2>2
  <2>4. z = a
    BY <2>3
  <2> QED
    BY <2>1, <2>3, <2>4
<1>4. Found \in SUBSET Nat
  BY DEF Orders
<1>5. PICK m \in Found : \A q \in Found : m <= q
  BY <1>3, <1>4, LeastOf
<1> DEFINE n == BlockSize(m)
<1>6. PICK x \in Range(free_lists[m]) : a <= x /\ x < a + bytes
  BY <1>5
<1> DEFINE y    == find_buddy(x, n)
           base == Merged(x, y)
<1>7. /\ m \in Orders /\ m \in Orders \ {MAX_ORDER} /\ m + 1 \in Orders
      /\ m + 1 <= o /\ n \in Nat \ {0} /\ BlockSize(m + 1) = n + n /\ x \in Nat
  <2>1. m \in Orders /\ m < o
    BY <1>5
  <2>2. m # MAX_ORDER /\ m + 1 \in Orders /\ m + 1 <= o /\ m < MAX_ORDER
    BY <2>1, SizesAssumption DEF Orders
  <2> QED
    BY <2>1, <2>2, BlockSizes, TileFacts
<1>8. y \notin Range(free_lists[m])
  BY <1>7 DEF CoalescedInv, NoBuddies, Mergeable
<1>9. Multiple(x, n)
  BY <1>7 DEF AlignedInv
<1> HIDE DEF bytes, n, y, base, Found
<1>10. /\ base \in Nat /\ Multiple(base, n + n) /\ y \in Nat /\ Multiple(y, n)
       /\ (x = base /\ y = base + n) \/ (x = base + n /\ y = base)
  BY <1>7, <1>9, Halves DEF y, base
<1>11. base <= x /\ x < base + (n + n) /\ base <= y /\ y < base + (n + n)
  BY <1>7, <1>10
<1>12. a <= base /\ base + (n + n) <= a + bytes
  BY <1>6, <1>7, <1>10, <1>11, NestedBlocks DEF bytes
<1>13. a <= y /\ y < a + bytes
  BY <1>1, <1>7, <1>10, <1>11, <1>12
<1>14. PICK r \in Orders : \E z \in Range(free_lists[r]) :
         /\ r < o /\ z \in Nat /\ z <= y /\ y < z + BlockSize(r)
         /\ a <= z /\ Multiple(z, BlockSize(r))
  BY <1>2, <1>10, <1>13
<1>15. PICK z \in Range(free_lists[r]) :
         /\ r < o /\ z \in Nat /\ z <= y /\ y < z + BlockSize(r)
         /\ a <= z /\ Multiple(z, BlockSize(r))
  BY <1>14
<1>16. m <= r
  <2>1. z < a + bytes
    BY <1>1, <1>10, <1>13, <1>15
  <2>2. r \in Found
    BY <1>15, <2>1 DEF Found
  <2> QED
    BY <1>5, <2>2
<1>17. CASE r = m
  <2>1. y <= z
    BY <1>7, <1>10, <1>15, <1>17, BoundaryBelow DEF n
  <2>2. y = z
    BY <1>10, <1>15, <2>1
  <2> QED
    BY <1>8, <1>15, <1>17, <2>2
<1>18. CASE r # m
  <2>1. m + 1 <= r
    BY <1>7, <1>16, <1>18 DEF Orders
  <2>2. z <= base /\ base + (n + n) <= z + BlockSize(r) /\ BlockSize(r) \in Nat
    BY <1>7, <1>10, <1>11, <1>15, <2>1, NestedBlocks, BlockSizes
  <2>3. Tile(x, n) \in Tiles /\ Tile(z, BlockSize(r)) \in Tiles
    BY <1>6, <1>7, <1>15, TileFacts DEF Tiles, n
  <2>4. Tile(x, n) # Tile(z, BlockSize(r))
    <3>1. BlockSize(r) # n
      BY <1>7, <1>10, <1>15, <2>2
    <3> QED
      BY <3>1 DEF Tile
  <2>5. Apart(Tile(x, n), Tile(z, BlockSize(r)))
    BY <2>3, <2>4 DEF IInv, Cut, Tiling, PairwiseApart
  <2>6. x + n <= z \/ z + BlockSize(r) <= x
    BY <2>5 DEF Apart, Tile
  <2> QED
    BY <1>7, <1>10, <1>11, <1>15, <2>2, <2>6
<1> QED
  BY <1>17, <1>18

LEMMA NoScattering ==
  ASSUME IInv, CoalescedInv, AlignedInv, Aligned, SearchFailed,
         NEW a \in start_address .. (Frontier - BlockSize(order)),
         a % BlockSize(order) = 0
  PROVE  \E b \in held : ~ Apart(Tile(a, BlockSize(order)), b)
<1> SUFFICES ASSUME \A b \in held : Apart(Tile(a, BlockSize(order)), b) PROVE FALSE
  OBVIOUS
<1>1. /\ pc = "search" /\ order \in Orders /\ start_address \in Nat
      /\ \A o \in order .. MAX_ORDER : free_lists[o] = <<>>
  BY DEF SearchFailed, IInv, TypeOK
<1>2. BlockSize(order) \in Nat \ {0} /\ Frontier \in Nat
  BY <1>1, BlockSizes, TileFacts
<1>3. /\ a \in Nat /\ start_address <= a /\ a + BlockSize(order) <= Frontier
      /\ Multiple(a, BlockSize(order))
  BY <1>1, <1>2, MultipleMod
<1>4. PICK r \in Orders : order <= r /\ Range(free_lists[r]) # {}
  BY <1>1, <1>3, FreeInOnePiece
<1>5. r \in order .. MAX_ORDER
  BY <1>1, <1>4, SizesAssumption DEF Orders
<1> QED
  BY <1>1, <1>4, <1>5 DEF Range

(* In an aligned pool allocate refuses for want of room only, never        *)
(* because earlier calls left free memory in the wrong pieces.             *)
THEOREM Refusals == Spec => RefusalJustified
<1>1. Init => IInv /\ CoalescedInv /\ AlignedInv
  BY InitInv, CoalescedInit DEF Init, AlignedInv
<1>2. IInv /\ CoalescedInv /\ AlignedInv /\ [Next]_vars
        => (IInv /\ CoalescedInv /\ AlignedInv)'
  BY NextInv, CoalescedNext, AlignedNext
<1>3. IInv /\ CoalescedInv /\ AlignedInv
        => [SearchFailed /\ Aligned =>
              \A a \in start_address .. (Frontier - BlockSize(order)) :
                a % BlockSize(order) = 0 =>
                  \E b \in held : ~ Apart(Tile(a, BlockSize(order)), b)]_vars
  BY NoScattering
<1> QED
  BY <1>1, <1>2, <1>3, PTL DEF Spec, RefusalJustified

(* A whole number of pages within the pool is below the frontier.          *)
LEMMA PagesBelow ==
  ASSUME IInv, pc = "idle", NEW bytes \in Nat, Multiple(bytes, PAGE_SIZE),
         bytes <= pool_size
  PROVE  start_address + bytes <= Frontier
<1> DEFINE q == pool_size \div PAGE_SIZE
           rest == pool_size % PAGE_SIZE
<1>1. /\ PAGE_SIZE \in Nat \ {0} /\ pool_size \in Nat /\ start_address \in Nat
      /\ Frontier = start_address + pool_size - rest
  BY SizesAssumption DEF IInv, TypeOK, Frontier
<1>2. rest \in 0 .. (PAGE_SIZE - 1) /\ q \in Nat /\ pool_size = PAGE_SIZE * q + rest
  BY <1>1, Division
<1> HIDE DEF q, rest
<1>3. Multiple(PAGE_SIZE * q, PAGE_SIZE)
  BY <1>2 DEF Multiple
<1>4. PAGE_SIZE * q \in Nat /\ bytes < PAGE_SIZE * q + PAGE_SIZE
  BY <1>1, <1>2
<1>5. bytes <= PAGE_SIZE * q
  BY <1>1, <1>3, <1>4, BoundaryBelow
<1> QED
  BY <1>1, <1>2, <1>4, <1>5

(* The free block that a place with no held byte is in, with its bounds.   *)
LEMMA BlockAround ==
  ASSUME IInv, CoalescedInv, AlignedInv, Aligned, pc = "idle", held = {},
         NEW o \in Orders, NEW offset \in Nat, Multiple(offset, BlockSize(o)),
         offset + BlockSize(o) <= pool_size
  PROVE  \E r \in Orders : \E z \in Range(free_lists[r]) :
           /\ o <= r /\ z \in Nat /\ z <= start_address + offset
           /\ start_address + offset + BlockSize(o) <= z + BlockSize(r)
           /\ z + BlockSize(r) <= start_address + pool_size
           /\ Multiple(z, BlockSize(r))
<1> DEFINE n == BlockSize(o)
           a == start_address + offset
<1>1. /\ n \in Nat \ {0} /\ start_address \in Nat /\ pool_size \in Nat /\ Frontier \in Nat
      /\ Frontier <= start_address + pool_size
  BY BlockSizes, TileFacts DEF IInv, TypeOK, Cut
<1>2. Multiple(start_address, n)
  <2>1. MAX_ORDER \in Orders /\ o <= MAX_ORDER /\ BlockSize(MAX_ORDER) \in Nat \ {0}
    BY BlockSizes, SizesAssumption DEF Orders
  <2> QED
    BY <1>1, <2>1, MultipleMod, MultipleOfSmaller DEF Aligned
<1>3. Multiple(a, n) /\ a \in Nat
  BY <1>1, <1>2, MultipleSum
<1>4. a + n <= Frontier
  <2>1. Multiple(n, PAGE_SIZE) /\ PAGE_SIZE \in Nat
    BY BlockSizes, SizesAssumption DEF Multiple
  <2>2. Multiple(offset + n, PAGE_SIZE)
    BY <1>1, <2>1, MultipleTrans, MultipleSum
  <2>3. start_address + (offset + n) <= Frontier
    BY <1>1, <2>2, PagesBelow
  <2> QED
    BY <1>1, <2>3
<1>5. PICK r \in Orders : \E z \in Range(free_lists[r]) :
        /\ o <= r /\ z \in Nat /\ z <= a /\ a + n <= z + BlockSize(r)
        /\ Multiple(z, BlockSize(r))
  BY <1>1, <1>3, <1>4, FreeInOnePiece
<1>6. PICK z \in Range(free_lists[r]) :
        /\ o <= r /\ z \in Nat /\ z <= a /\ a + n <= z + BlockSize(r)
        /\ Multiple(z, BlockSize(r))
  BY <1>5
<1>7. z + BlockSize(r) <= Frontier /\ BlockSize(r) \in Nat
  <2>1. Tile(z, BlockSize(r)) \in Tiles
    BY TileFacts DEF Tiles
  <2> QED
    BY <2>1, BlockSizes DEF IInv, Cut, Tiling, Within, Tile
<1>8. a + n = start_address + offset + n
  BY <1>1
<1> QED
  BY <1>1, <1>6, <1>7, <1>8

(* Every block that init would cut is free again.                          *)
LEMMA LayoutIsFree ==
  ASSUME IInv, CoalescedInv, AlignedInv, Aligned, pc = "idle", held = {},
         NEW o \in Orders, NEW a \in BootLayout(o)
  PROVE  a \in Range(free_lists[o])
<1> DEFINE n == BlockSize(o)
           offset == a - start_address
<1>1. n \in Nat \ {0} /\ start_address \in Nat /\ pool_size \in Nat
  BY BlockSizes DEF IInv, TypeOK
<1>2. /\ offset \in Nat /\ a = start_address + offset /\ offset + n <= pool_size
      /\ offset % n = 0
  BY <1>1 DEF BootLayout
<1>3. Multiple(offset, n)
  BY <1>1, <1>2, MultipleMod
<1>4. o # MAX_ORDER => offset = BlockSize(o + 1) * (pool_size \div BlockSize(o + 1))
  BY DEF BootLayout
<1> HIDE DEF n, offset
<1>5. PICK r \in Orders : \E z \in Range(free_lists[r]) :
        /\ o <= r /\ z \in Nat /\ z <= a /\ a + n <= z + BlockSize(r)
        /\ z + BlockSize(r) <= start_address + pool_size
        /\ Multiple(z, BlockSize(r))
  BY <1>2, <1>3, BlockAround DEF n
<1>6. PICK z \in Range(free_lists[r]) :
        /\ o <= r /\ z \in Nat /\ z <= a /\ a + n <= z + BlockSize(r)
        /\ z + BlockSize(r) <= start_address + pool_size
        /\ Multiple(z, BlockSize(r))
  BY <1>5
<1>7. CASE r = o
  <2>1. z = a
    BY <1>1, <1>2, <1>6, <1>7 DEF n
  <2> QED
    BY <1>6, <1>7, <2>1
<1>8. CASE r # o
  <2> DEFINE d == BlockSize(o + 1)
             k == pool_size \div d
  <2>1. o + 1 \in Orders /\ o + 1 <= r /\ o # MAX_ORDER /\ d \in Nat \ {0}
        /\ BlockSize(r) \in Nat \ {0}
    <3>1. o + 1 \in Orders /\ o + 1 <= r /\ o # MAX_ORDER
      BY <1>6, <1>8, SizesAssumption DEF Orders
    <3> QED
      BY <3>1, BlockSizes
  <2>2. k \in Nat /\ pool_size % d \in 0 .. (d - 1) /\ pool_size = d * k + (pool_size % d)
        /\ offset = d * k
    BY <1>1, <1>4, <2>1, Division
  <2>3. Multiple(offset, d) /\ Multiple(z, d) /\ Multiple(BlockSize(r), d)
    <3>1. Multiple(z, d) /\ Multiple(BlockSize(r), d)
      BY <1>6, <2>1, MultipleOfSmaller, SizesDivide
    <3>2. Multiple(d * k, d)
      <4> HIDE DEF d, k
      <4> QED
        BY <2>2 DEF Multiple
    <3> QED
      BY <2>2, <3>1, <3>2
  <2>4. Multiple(start_address, d)
    <3>1. MAX_ORDER \in Orders /\ o + 1 <= MAX_ORDER /\ BlockSize(MAX_ORDER) \in Nat \ {0}
      BY <2>1, BlockSizes, SizesAssumption DEF Orders
    <3> QED
      BY <1>1, <2>1, <3>1, MultipleMod, MultipleOfSmaller DEF Aligned
  <2> HIDE DEF d, k
  <2>5. Multiple(a, d) /\ Multiple(z + BlockSize(r), d)
    BY <1>2, <2>1, <2>3, <2>4, MultipleSum
  <2>6. ~ (z + BlockSize(r) < a + d)
    <3>1. z + BlockSize(r) < a + d => z + BlockSize(r) <= a
      BY <2>1, <2>5, BoundaryBelow
    <3> QED
      BY <1>1, <1>2, <1>6, <2>1, <3>1
  <2>7. offset + d <= pool_size
    BY <1>1, <1>2, <1>6, <2>1, <2>6
  <2> QED
    BY <1>1, <1>2, <2>1, <2>2, <2>7
<1> QED
  BY <1>7, <1>8

(* And nothing else is: a block whose buddy could be free as well would    *)
(* have merged with it, so it is the last one of its length.               *)
LEMMA FreeIsLayout ==
  ASSUME IInv, CoalescedInv, AlignedInv, Aligned, pc = "idle", held = {},
         NEW o \in Orders, NEW a \in Range(free_lists[o])
  PROVE  a \in BootLayout(o)
<1> DEFINE n == BlockSize(o)
           offset == a - start_address
<1>1. /\ n \in Nat \ {0} /\ start_address \in Nat /\ pool_size \in Nat /\ a \in Nat
      /\ Frontier \in Nat /\ Frontier <= start_address + pool_size
      /\ Tile(a, n) \in Tiles
  BY BlockSizes, TileFacts DEF IInv, TypeOK, Cut, Tiles
<1>2. start_address <= a /\ a + n <= start_address + pool_size
  <2>1. start_address <= a /\ a + n <= Frontier
    BY <1>1 DEF IInv, Cut, Tiling, Within, Tile
  <2> QED
    BY <1>1, <2>1
<1>3. Multiple(a, n)
  BY DEF AlignedInv
<1>4. \A p \in Orders : Multiple(start_address, BlockSize(p)) /\ BlockSize(p) \in Nat \ {0}
  <2> SUFFICES ASSUME NEW p \in Orders
               PROVE  Multiple(start_address, BlockSize(p)) /\ BlockSize(p) \in Nat \ {0}
    OBVIOUS
  <2>1. MAX_ORDER \in Orders /\ p <= MAX_ORDER /\ BlockSize(MAX_ORDER) \in Nat \ {0}
    BY BlockSizes, SizesAssumption DEF Orders
  <2> QED
    BY <1>1, <2>1, BlockSizes, MultipleMod, MultipleOfSmaller DEF Aligned
<1>5. Multiple(offset, n) /\ offset \in Nat
  <2>1. Multiple(start_address, n)
    BY <1>4
  <2> HIDE DEF n
  <2>2. Multiple(a - start_address, n)
    BY <1>1, <1>2, <1>3, <2>1, MultipleDifference
  <2> QED
    BY <1>1, <1>2, <2>2
<1>6. /\ a \in start_address .. (start_address + pool_size - n)
      /\ offset % n = 0
  <2> HIDE DEF n
  <2>1. a \in start_address .. (start_address + pool_size - n)
    BY <1>1, <1>2
  <2> HIDE DEF offset
  <2> QED
    BY <1>1, <1>5, <2>1, MultipleMod
<1>7. CASE o = MAX_ORDER
  BY <1>6, <1>7 DEF BootLayout
<1>8. CASE o # MAX_ORDER
  <2> DEFINE d == BlockSize(o + 1)
             base == Merged(a, find_buddy(a, n))
             from == base - start_address
  <2>1. o + 1 \in Orders /\ d = n + n
    <3>1. o + 1 \in Orders /\ o < MAX_ORDER
      BY <1>8, SizesAssumption DEF Orders
    <3> QED
      BY <3>1, BlockSizes
  <2>2. base \in Nat /\ Multiple(base, d) /\ (a = base \/ a = base + n)
    <3> DEFINE y == find_buddy(a, n)
    <3>1. y = find_buddy(a, n) /\ base = Merged(a, y)
      OBVIOUS
    <3> HIDE DEF y, base, d
    <3> QED
      BY <1>1, <1>3, <2>1, <3>1, Halves
  <2>3. d \in Nat \ {0} /\ Multiple(start_address, d)
    BY <1>4, <2>1
  <2> HIDE DEF base, d, n
  <2>4. start_address <= base
    <3>1. start_address < base + d
      BY <1>1, <1>2, <2>1, <2>2
    <3> QED
      BY <2>2, <2>3, <3>1, BoundaryBelow
  <2>5. from \in Nat /\ Multiple(from, d)
    <3>1. Multiple(base - start_address, d)
      BY <2>2, <2>3, <2>4, MultipleDifference
    <3> QED
      BY <1>1, <2>2, <2>4, <3>1
  <2>6. pool_size < from + d
    <3> SUFFICES ASSUME from + d <= pool_size PROVE FALSE
      BY <1>1, <2>3, <2>5
    <3>1. start_address + from = base
      BY <1>1, <2>2
    <3> HIDE DEF from
    <3>2. PICK r \in Orders : \E z \in Range(free_lists[r]) :
            /\ o + 1 <= r /\ z \in Nat /\ z <= base /\ base + d <= z + BlockSize(r)
      BY <2>1, <2>5, <3>1, BlockAround DEF d
    <3>3. PICK z \in Range(free_lists[r]) :
            /\ o + 1 <= r /\ z \in Nat /\ z <= base /\ base + d <= z + BlockSize(r)
      BY <3>2
    <3>4. Tile(z, BlockSize(r)) \in Tiles /\ BlockSize(r) \in Nat
      BY TileFacts, BlockSizes DEF Tiles
    <3>5. BlockSize(r) # n
      BY <1>1, <2>1, <2>2, <3>3, <3>4
    <3>6. Apart(Tile(a, n), Tile(z, BlockSize(r)))
      <4>1. Tile(a, n) # Tile(z, BlockSize(r))
        BY <3>5 DEF Tile
      <4> QED
        BY <1>1, <3>4, <4>1 DEF IInv, Cut, Tiling, PairwiseApart
    <3>7. a + n <= z \/ z + BlockSize(r) <= a
      BY <3>6 DEF Apart, Tile
    <3> QED
      BY <1>1, <2>1, <2>2, <3>3, <3>4, <3>7
  <2>7. a = base /\ offset = from
    BY <1>1, <1>2, <2>1, <2>2, <2>4, <2>6
  <2>8. PICK k \in Nat : from = d * k
    BY <2>5 DEF Multiple
  <2>9. pool_size \div d = k
    <3>1. from <= pool_size
      BY <1>1, <1>2, <2>4, <2>7
    <3>2. pool_size - from \in 0 .. (d - 1) /\ pool_size = d * k + (pool_size - from)
      BY <1>1, <2>3, <2>5, <2>6, <2>8, <3>1
    <3> QED
      BY <1>1, <2>3, <3>2, UniqueQuotient
  <2>10. (pool_size \div n) % 2 = 1
    <3> DEFINE rest == pool_size - from - n
    <3>1. rest \in 0 .. (n - 1)
      BY <1>1, <1>2, <2>1, <2>2, <2>4, <2>5, <2>6, <2>7
    <3>2. d * k = n * (2 * k)
      BY <1>1, <2>1
    <3>3. pool_size = n * (2 * k + 1) + rest
      <4>1. n * (2 * k + 1) = n * (2 * k) + n
        BY <1>1
      <4>2. pool_size = from + n + rest
        BY <1>1, <2>5
      <4> HIDE DEF rest, from
      <4> QED
        BY <1>1, <2>5, <2>8, <3>1, <3>2, <4>1, <4>2
    <3> HIDE DEF rest
    <3> DEFINE j == 2 * k + 1
    <3>4. j \in Nat /\ pool_size = n * j + rest
      BY <3>3
    <3> HIDE DEF j
    <3>5. pool_size \div n = j
      BY <1>1, <3>1, <3>4, UniqueQuotient
    <3>6. j % 2 = 1
      BY DEF j
    <3> QED
      BY <3>5, <3>6
  <2> QED
    BY <1>6, <1>8, <2>7, <2>8, <2>9, <2>10 DEF BootLayout, n, d
<1> QED
  BY <1>7, <1>8

(* When every block has come back an aligned pool is cut as at boot.       *)
THEOREM Restoration == Spec => []Restored
<1>1. Init => AlignedInv
  BY DEF Init, AlignedInv
<1>2. Init => CoalescedInv
  BY CoalescedInit
<1>3. IInv /\ CoalescedInv /\ AlignedInv => Restored
  <2> SUFFICES ASSUME IInv, CoalescedInv, AlignedInv, pc = "idle", held = {}, Aligned,
                      NEW o \in Orders
               PROVE  Range(free_lists[o]) = BootLayout(o)
    BY DEF Restored
  <2>1. BootLayout(o) \subseteq Range(free_lists[o])
    BY LayoutIsFree
  <2>2. Range(free_lists[o]) \subseteq BootLayout(o)
    BY FreeIsLayout
  <2> QED
    BY <2>1, <2>2
<1> QED
  BY <1>1, <1>2, <1>3, CoalescedNext, AlignedNext, Invariance, PTL DEF Spec

-----------------------------------------------------------------------------
(* The physical memory manager.                                            *)

(* The pool is a usable region, or empty when there is none.               *)
LEMMA PoolIsUsable ==
  ASSUME NEW map \in MemoryMaps
  PROVE  \/ usable_memory_pool_size(map) = 0 /\ usable_memory_start(map) = 0
         \/ \E i \in DOMAIN map : /\ IsUsable(map[i])
                                  /\ usable_memory_start(map) = map[i].base
                                  /\ usable_memory_pool_size(map) = map[i].length
<1> DEFINE usable == {i \in 1 .. Len(map) : IsUsable(map[i])}
           first  == SelectInSeq(map, IsUsable)
<1>1. map \in Seq([base : Nat, length : Nat, type : MemoryTypes])
  BY MapsAssumption
<1>2. first = IF usable # {} THEN Min(usable) ELSE 0
  BY DEF SelectInSeq
<1>3. CASE usable = {}
  <2>1. first = 0
    BY <1>2, <1>3
  <2> QED
    BY <2>1 DEF usable_memory_pool_size, usable_memory_start, first_usable
<1>4. CASE usable # {}
  <2>1. usable \in SUBSET Nat
    OBVIOUS
  <2> HIDE DEF usable
  <2>2. \E n \in usable : \A m \in usable : n <= m
    BY <1>4, <2>1, LeastOf
  <2>3. Min(usable) \in usable
    BY <2>2 DEF Min
  <2>4. first \in usable
    BY <1>2, <1>4, <2>3
  <2> HIDE DEF first
  <2>5. first \in DOMAIN map /\ IsUsable(map[first]) /\ first # 0
    BY <1>1, <2>4 DEF usable
  <2>6. usable_memory_start(map) = map[first].base
        /\ usable_memory_pool_size(map) = map[first].length
    BY <2>5 DEF first, first_usable, usable_memory_start, usable_memory_pool_size
  <2> QED
    BY <2>5, <2>6
<1> QED
  BY <1>3, <1>4

(* A step of the manager is a step of the allocator.                       *)
LEMMA ManagerStep ==
  ASSUME entries \in MemoryMaps, hhdm_offset \in Offsets, [PmmNext]_pmmVars
  PROVE  [Next]_vars
<1>1. CASE pmm_initialize
  <2>1. PoolOf(entries, hhdm_offset) \in Pools
    BY MapsAssumption
  <2> QED
    BY <1>1, <2>1 DEF pmm_initialize, Next
<1>2. CASE \E bytes \in RequestSizes : pmm_alloc(bytes)
  BY <1>2 DEF pmm_alloc, Next, Client
<1>3. CASE \E block \in held : pmm_free(block)
  BY <1>3 DEF pmm_free, Next, Client
<1>4. CASE Work
  BY <1>4 DEF Work, Next
<1>5. CASE UNCHANGED pmmVars
  BY <1>5 DEF pmmVars
<1> QED
  BY <1>1, <1>2, <1>3, <1>4, <1>5 DEF PmmNext

(* The pool is that of the map.                                            *)
MapInv ==
  /\ entries \in MemoryMaps /\ hhdm_offset \in Offsets
  /\ pc = "off" \/ [start |-> start_address, bytes |-> pool_size]
                     = PoolOf(entries, hhdm_offset)

LEMMA MapStep == MapInv /\ [PmmNext]_pmmVars => MapInv'
<1> SUFFICES ASSUME MapInv, [PmmNext]_pmmVars PROVE MapInv'
  OBVIOUS
<1>1. entries' = entries /\ hhdm_offset' = hhdm_offset
  BY DEF PmmNext, pmm_initialize, pmm_alloc, pmm_free, Work, pmmVars, boot
<1>2. CASE pmm_initialize
  BY <1>1, <1>2 DEF pmm_initialize, InitCall, MapInv, PoolOf
<1>3. CASE ~ pmm_initialize
  <2>1. /\ pc # "off" \/ pc' = "off"
        /\ start_address' = start_address /\ pool_size' = pool_size
    <3>1. CASE \E bytes \in RequestSizes : pmm_alloc(bytes)
      BY <3>1 DEF pmm_alloc, AllocCall, pool
    <3>2. CASE \E block \in held : pmm_free(block)
      BY <3>2 DEF pmm_free, FreeCall, pool
    <3>3. CASE Work
      BY <3>3 DEF Work, Internal, CreateBlock, InitDone, SearchFound, SearchFailed,
                  SplitBlock, TakeBlock, MergeBuddy, InsertBlock, pool
    <3>4. CASE UNCHANGED pmmVars
      BY <3>4 DEF pmmVars, vars, pool
    <3> QED
      BY <1>3, <3>1, <3>2, <3>3, <3>4 DEF PmmNext
  <2> QED
    BY <1>1, <2>1 DEF MapInv
<1> QED
  BY <1>2, <1>3

(* The physical memory manager runs the buddy allocator as specified, so   *)
(* that what is proved of the allocator is true of the manager.            *)
THEOREM ManagerAllocates == PmmSpec => Spec
<1>1. PmmInit => Init /\ MapInv
  BY DEF PmmInit, Init, MapInv
<1>2. MapInv /\ [PmmNext]_pmmVars => MapInv'
  BY MapStep
<1>3. MapInv /\ [PmmNext]_pmmVars => [Next]_vars
  BY ManagerStep DEF MapInv
<1> QED
  BY <1>1, <1>2, <1>3, PTL DEF PmmSpec, Spec

(* Callers never hold a byte outside the regions the bootloader called     *)
(* usable, whatever the map looks like: blocks stay in the pool, and the   *)
(* pool is one usable region or empty.                                     *)
THEOREM OnlyUsableHandedOut == PmmSpec => []OnlyUsableMemory
<1>1. PmmInit => MapInv
  BY DEF PmmInit, Init, MapInv
<1>2. MapInv /\ [PmmNext]_pmmVars => MapInv'
  BY MapStep
<1>3. IInv /\ MapInv => OnlyUsableMemory
  <2> SUFFICES ASSUME IInv, MapInv, NEW b \in held
               PROVE  \E i \in DOMAIN entries :
                        /\ IsUsable(entries[i])
                        /\ entries[i].base <= b.addr - hhdm_offset
                        /\ b.addr - hhdm_offset + b.got
                             <= entries[i].base + entries[i].length
    BY DEF OnlyUsableMemory
  <2> DEFINE tile == Tile(b.addr, b.got)
  <2>1. tile \in Tiles /\ tile.addr = b.addr /\ tile.got = b.got
    BY DEF Tiles, HeldTiles, Tile
  <2>2. /\ b.addr \in Nat /\ b.got \in Nat \ {0}
        /\ start_address <= b.addr /\ b.addr + b.got <= Frontier
    BY <2>1 DEF IInv, Cut, Tiling, Within, Block
  <2>3. Frontier \in Nat /\ Frontier <= start_address + pool_size
        /\ start_address \in Nat /\ pool_size \in Nat
    BY TileFacts DEF IInv, Cut, TypeOK
  <2>4. b.addr + b.got <= start_address + pool_size
    BY <2>2, <2>3
  <2>5. pc # "off"
    BY DEF IInv, LocalsInv
  <2>6. /\ start_address = usable_memory_start(entries) + hhdm_offset
        /\ pool_size = usable_memory_pool_size(entries)
        /\ hhdm_offset \in Nat
    BY <2>5, MapsAssumption DEF MapInv, PoolOf, phys_to_virt
  <2>7. pool_size # 0
    BY <2>2, <2>3, <2>4
  <2>8. PICK i \in DOMAIN entries : /\ IsUsable(entries[i])
                                    /\ usable_memory_start(entries) = entries[i].base
                                    /\ usable_memory_pool_size(entries) = entries[i].length
    BY <2>6, <2>7, PoolIsUsable DEF MapInv
  <2>9. entries[i].base \in Nat /\ entries[i].length \in Nat
    <3> DEFINE Entry == [base : Nat, length : Nat, type : MemoryTypes]
    <3>1. entries \in Seq(Entry)
      BY MapsAssumption DEF MapInv
    <3> HIDE DEF Entry
    <3>2. entries[i] \in Entry
      BY <2>8, <3>1
    <3> QED
      BY <3>2 DEF Entry
  <2> QED
    BY <2>2, <2>3, <2>4, <2>6, <2>8, <2>9
<1> QED
  BY <1>1, <1>2, <1>3, ManagerAllocates, Invariance, PTL DEF PmmSpec

(* Blocks have aligned physical addresses in an aligned pool: virtual ones *)
(* are multiples of the length, and the direct map moves them by a         *)
(* multiple of every length.                                               *)
THEOREM BlocksAligned == PmmSpec => []PhysicallyAligned
<1>1. PmmInit => MapInv
  BY DEF PmmInit, Init, MapInv
<1>2. MapInv /\ [PmmNext]_pmmVars => MapInv'
  BY MapStep
<1>3. IInv /\ AlignedInv /\ MapInv => PhysicallyAligned
  <2> SUFFICES ASSUME IInv, AlignedInv, MapInv, Aligned,
                      hhdm_offset % BlockSize(MAX_ORDER) = 0, NEW b \in held
               PROVE  (b.addr - hhdm_offset) % b.got = 0
    BY DEF PhysicallyAligned
  <2>1. PICK o \in Orders : b.got = BlockSize(o)
    BY DEF IInv, HeadersMatch
  <2>2. /\ MAX_ORDER \in Orders /\ o <= MAX_ORDER
        /\ b.got \in Nat \ {0} /\ BlockSize(MAX_ORDER) \in Nat \ {0}
    BY <2>1, BlockSizes, SizesAssumption DEF Orders
  <2>3. pc # "off"
    BY DEF IInv, LocalsInv
  <2>4. Multiple(b.addr, b.got)
    BY <2>3 DEF AlignedInv
  <2>5. /\ hhdm_offset \in Nat
        /\ start_address = usable_memory_start(entries) + hhdm_offset
    BY <2>3, MapsAssumption DEF MapInv, PoolOf, phys_to_virt
  <2>6. Multiple(hhdm_offset, b.got)
    BY <2>1, <2>2, <2>5, MultipleMod, MultipleOfSmaller
  <2>7. b.addr \in Nat /\ start_address <= b.addr
    <3>1. Tile(b.addr, b.got) \in Tiles
      BY DEF Tiles, HeldTiles
    <3> QED
      BY <3>1 DEF IInv, TypeOK, Cut, Tiling, Within, Tile
  <2>8. hhdm_offset <= b.addr
    <3>1. usable_memory_start(entries) \in Nat
      <4>1. CASE usable_memory_start(entries) = 0
        BY <4>1
      <4>2. ASSUME NEW i \in DOMAIN entries, usable_memory_start(entries) = entries[i].base
            PROVE  usable_memory_start(entries) \in Nat
        <5> DEFINE Entry == [base : Nat, length : Nat, type : MemoryTypes]
        <5>1. entries \in Seq(Entry)
          BY MapsAssumption DEF MapInv
        <5> HIDE DEF Entry
        <5>2. entries[i] \in Entry
          BY <5>1
        <5> QED
          BY <4>2, <5>2 DEF Entry
      <4> QED
        BY <4>1, <4>2, PoolIsUsable DEF MapInv
    <3> QED
      BY <2>5, <2>7, <3>1
  <2>9. Multiple(b.addr - hhdm_offset, b.got)
    BY <2>2, <2>4, <2>6, <2>8, MultipleDifference
  <2>10. b.addr - hhdm_offset \in Nat
    BY <2>5, <2>7, <2>8
  <2> QED
    BY <2>2, <2>9, <2>10, MultipleMod
<1> QED
  BY <1>1, <1>2, <1>3, ManagerAllocates, Invariance, Alignment, PTL DEF PmmSpec

-----------------------------------------------------------------------------
(* What the manager logs as usable is the sum over the usable regions.     *)
TotalsInv ==
  pc # "off" => usable_memory = SumOfLengths(entries, UsableEntries(entries))

LEMMA TotalsStep == TotalsInv /\ [PmmNext]_pmmVars => TotalsInv'
<1> SUFFICES ASSUME TotalsInv, [PmmNext]_pmmVars PROVE TotalsInv'
  OBVIOUS
<1>1. CASE pmm_initialize
  BY <1>1 DEF pmm_initialize, TotalsInv, boot
<1>2. CASE ~ pmm_initialize
  <2>1. UNCHANGED <<boot, totals>>
    BY <1>2 DEF PmmNext, pmm_alloc, pmm_free, Work, pmmVars
  <2>2. pc' # "off" => pc # "off"
    <3>1. CASE \E bytes \in RequestSizes : pmm_alloc(bytes)
      BY <3>1 DEF pmm_alloc, AllocCall
    <3>2. CASE \E block \in held : pmm_free(block)
      BY <3>2 DEF pmm_free, FreeCall
    <3>3. CASE Work
      BY <3>3 DEF Work, Internal, CreateBlock, InitDone, SearchFound, SearchFailed,
                  SplitBlock, TakeBlock, MergeBuddy, InsertBlock
    <3>4. CASE UNCHANGED pmmVars
      BY <3>4 DEF pmmVars, vars
    <3> QED
      BY <1>2, <3>1, <3>2, <3>3, <3>4 DEF PmmNext
  <2> QED
    BY <2>1, <2>2 DEF TotalsInv, boot, totals
<1> QED
  BY <1>1, <1>2

(* The first usable region is one term of the sum, or there is none.       *)
LEMMA FirstOfSum ==
  ASSUME NEW map \in MemoryMaps
  PROVE  SumOfLengths(map, UsableEntries(map))
           = usable_memory_pool_size(map)
               + SumOfLengths(map, UsableEntries(map) \ {first_usable(map)})
<1> DEFINE lengths == [i \in DOMAIN map |-> map[i].length]
           Entry   == [base : Nat, length : Nat, type : MemoryTypes]
           usable  == UsableEntries(map)
           first   == first_usable(map)
<1>1. map \in Seq(Entry)
  BY MapsAssumption
<1>2. \A i \in DOMAIN map : lengths[i] \in Nat
  <2> HIDE DEF Entry
  <2>1. \A i \in DOMAIN map : map[i] \in Entry
    BY <1>1
  <2> QED
    BY <2>1 DEF Entry
<1>3. IsFiniteSet(usable) /\ usable \subseteq DOMAIN map /\ usable \in SUBSET Nat
  <2>1. DOMAIN map = 1 .. Len(map) /\ Len(map) \in Nat
    BY <1>1
  <2>2. IsFiniteSet(1 .. Len(map))
    BY <2>1, FS_Interval
  <2>3. usable \in SUBSET (1 .. Len(map))
    BY <2>1 DEF UsableEntries
  <2> QED
    BY <2>1, <2>2, <2>3, FS_Subset
<1>4. first = IF usable # {} THEN Min(usable) ELSE 0
  <2>1. SelectInSeq(map, IsUsable)
          = LET I == {i \in 1 .. Len(map) : IsUsable(map[i])}
            IN  IF I # {} THEN Min(I) ELSE 0
    BY DEF SelectInSeq
  <2>2. usable = {i \in 1 .. Len(map) : IsUsable(map[i])}
    BY <1>1 DEF UsableEntries
  <2> QED
    BY <2>1, <2>2 DEF first_usable
<1> HIDE DEF lengths, usable
<1>5. CASE usable = {}
  <2>1. usable_memory_pool_size(map) = 0
    BY <1>4, <1>5 DEF usable_memory_pool_size
  <2>2. SumFunctionOnSet(lengths, usable) = 0 /\ usable \ {first} = usable
    BY <1>3, <1>5, SumOfZeros
  <2> QED
    BY <2>1, <2>2 DEF SumOfLengths, lengths, usable
<1>6. CASE usable # {}
  <2>1. \E n \in usable : \A m \in usable : n <= m
    BY <1>3, <1>6, LeastOf
  <2>2. first \in usable
    BY <1>4, <1>6, <2>1 DEF Min
  <2> HIDE DEF first
  <2>3. first # 0 /\ first \in DOMAIN map
    BY <1>1, <1>3, <2>2
  <2>4. usable_memory_pool_size(map) = lengths[first]
    BY <2>3 DEF usable_memory_pool_size, lengths, first
  <2>5. \A i \in usable : lengths[i] \in Nat
    BY <1>2, <1>3
  <2>6. SumFunctionOnSet(lengths, usable)
          = lengths[first] + SumFunctionOnSet(lengths, usable \ {first})
    BY <1>3, <2>2, <2>5, SumOverSet
  <2> QED
    BY <2>4, <2>6 DEF SumOfLengths, lengths, usable, first
<1> QED
  BY <1>5, <1>6

(* All memory logged as usable is accounted for: on the free lists, in     *)
(* callers' hands, in the tail of the pool or in a region never used.      *)
THEOREM UsableMemoryAccounted == PmmSpec => []UsableAccounted
<1>1. PmmInit => MapInv /\ TotalsInv
  BY DEF PmmInit, Init, MapInv, TotalsInv
<1>2. MapInv /\ [PmmNext]_pmmVars => MapInv'
  BY MapStep
<1>3. TotalsInv /\ [PmmNext]_pmmVars => TotalsInv'
  BY TotalsStep
<1>4. IInv /\ Accounted /\ MapInv /\ TotalsInv => UsableAccounted
  <2> SUFFICES ASSUME IInv, Accounted, MapInv, TotalsInv, pc = "idle"
               PROVE  usable_memory = FreeBytes + HeldBytes + (pool_size % PAGE_SIZE)
                        + SumOfLengths(entries,
                            UsableEntries(entries) \ {first_usable(entries)})
    BY DEF UsableAccounted
  <2>1. pool_size = FreeBytes + HeldBytes + 0 + (pool_size % PAGE_SIZE)
    BY DEF Accounted, MovingBytes, Uncut
  <2>2. FreeBytes \in Nat /\ HeldBytes \in Nat /\ pool_size % PAGE_SIZE \in Nat
    <3>1. FreeBytes \in Nat
      BY BytesType DEF FreeBytes, BytesOn, IInv, TypeOK, Lists
    <3>2. HeldBytes \in Nat
      BY HeldBytesType DEF IInv, Accounted
    <3>3. pool_size % PAGE_SIZE \in Nat
      BY SizesAssumption, Division DEF IInv, TypeOK
    <3> QED
      BY <3>1, <3>2, <3>3
  <2>3. pool_size = FreeBytes + HeldBytes + (pool_size % PAGE_SIZE)
    BY <2>1, <2>2
  <2>4. pool_size = usable_memory_pool_size(entries) /\ entries \in MemoryMaps
    BY DEF MapInv, PoolOf
  <2> QED
    BY <2>3, <2>4, FirstOfSum DEF TotalsInv
<1> QED
  BY <1>1, <1>2, <1>3, <1>4, ManagerAllocates, Invariance, Accounting, PTL DEF PmmSpec

-----------------------------------------------------------------------------
(***************************************************************************)
(* The allocator's self-test.  It frees each name once, after it has       *)
(* allocated it, which is a matter of where the calls stand in its         *)
(* sequence; that the address it kept under a name is still that of a      *)
(* block it holds needs that no two names keep the same address.           *)
(***************************************************************************)

(* Where the elements of two sequences are in their concatenation.         *)
Concatenation(c, s, t) ==
  /\ Len(c) = Len(s) + Len(t)
  /\ \A i \in 1 .. Len(s) : c[i] = s[i]
  /\ \A i \in 1 .. Len(t) : c[Len(s) + i] = t[i]

LEMMA Concatenated ==
  ASSUME NEW S, NEW s \in Seq(S), NEW t \in Seq(S)
  PROVE  s \o t \in Seq(S) /\ Concatenation(s \o t, s, t)
BY Joined DEF Concatenation

(* What a call of the test is.                                             *)
TestCall ==
  {Alloc(name, pages) : name \in Locals, pages \in {1, 2, 4, 8, 32}}
  \cup {Free(name) : name \in Locals}

(* The calls of the test, by their places.                                 *)
LEMMA CallPlaces ==
  /\ Calls \in Seq(TestCall) /\ Len(Calls) = 10 + 2 * NUM_BLOCKS
  /\ Calls[1] = Alloc(addr1, 1) /\ Calls[2] = Alloc(addr2, 2) /\ Calls[3] = Alloc(addr3, 4)
  /\ Calls[4] = Free(addr1) /\ Calls[5] = Free(addr2) /\ Calls[6] = Free(addr3)
  /\ Calls[7] = Alloc(large_addr, 32) /\ Calls[8] = Free(large_addr)
  /\ \A i \in 1 .. NUM_BLOCKS : Calls[8 + i] = Alloc(i - 1, 1)
  /\ \A i \in 1 .. (NUM_BLOCKS \div 2) : Calls[8 + NUM_BLOCKS + i] = Free(2 * i - 2)
  /\ Calls[9 + NUM_BLOCKS + (NUM_BLOCKS \div 2)] = Alloc(medium_addr, 8)
  /\ \A i \in 1 .. (NUM_BLOCKS \div 2) :
       Calls[9 + NUM_BLOCKS + (NUM_BLOCKS \div 2) + i] = Free(2 * i - 1)
  /\ Calls[10 + 2 * NUM_BLOCKS] = Free(medium_addr)
<1> DEFINE N == NUM_BLOCKS
           h == NUM_BLOCKS \div 2
           first  == <<Alloc(addr1, 1), Alloc(addr2, 2), Alloc(addr3, 4),
                       Free(addr1), Free(addr2), Free(addr3),
                       Alloc(large_addr, 32), Free(large_addr)>>
           filled == [i \in 1 .. N |-> Alloc(i - 1, 1)]
           evens  == [i \in 1 .. h |-> Free(2 * i - 2)]
           medium == <<Alloc(medium_addr, 8)>>
           odds   == [i \in 1 .. h |-> Free(2 * i - 1)]
           last   == <<Free(medium_addr)>>
<1>1. N \in Nat /\ h \in Nat /\ N = h + h
  BY BlocksAssumption
<1>2. Calls = first \o filled \o evens \o medium \o odds \o last
  BY DEF Calls
<1>3. /\ \A n \in Locals : \A p \in {1, 2, 4, 8, 32} : Alloc(n, p) \in TestCall
      /\ \A n \in Locals : Free(n) \in TestCall
      /\ addr1 \in Locals /\ addr2 \in Locals /\ addr3 \in Locals
      /\ large_addr \in Locals /\ medium_addr \in Locals
  BY <1>1 DEF TestCall, Locals, addr1, addr2, addr3, large_addr, medium_addr, N
<1>4. first \in Seq(TestCall) /\ Len(first) = 8
  BY <1>3
<1>5. filled \in Seq(TestCall) /\ Len(filled) = N
  <2>1. \A i \in 1 .. N : i - 1 \in Locals
    BY <1>1 DEF Locals, N
  <2>2. filled \in [1 .. N -> TestCall]
    BY <1>3, <2>1
  <2> QED
    BY <1>1, <2>2
<1>6. evens \in Seq(TestCall) /\ Len(evens) = h /\ odds \in Seq(TestCall) /\ Len(odds) = h
  <2>1. \A i \in 1 .. h : 2 * i - 2 \in Locals /\ 2 * i - 1 \in Locals
    BY <1>1 DEF Locals, N, h
  <2>2. evens \in [1 .. h -> TestCall] /\ odds \in [1 .. h -> TestCall]
    BY <1>3, <2>1
  <2> QED
    BY <1>1, <2>2
<1>7. medium \in Seq(TestCall) /\ Len(medium) = 1 /\ last \in Seq(TestCall) /\ Len(last) = 1
  BY <1>3
<1>8. /\ first[1] = Alloc(addr1, 1) /\ first[2] = Alloc(addr2, 2) /\ first[3] = Alloc(addr3, 4)
      /\ first[4] = Free(addr1) /\ first[5] = Free(addr2) /\ first[6] = Free(addr3)
      /\ first[7] = Alloc(large_addr, 32) /\ first[8] = Free(large_addr)
      /\ medium[1] = Alloc(medium_addr, 8) /\ last[1] = Free(medium_addr)
  OBVIOUS
<1>9. /\ \A i \in 1 .. N : filled[i] = Alloc(i - 1, 1)
      /\ \A i \in 1 .. h : evens[i] = Free(2 * i - 2) /\ odds[i] = Free(2 * i - 1)
  OBVIOUS
<1> HIDE DEF N, h, first, filled, evens, medium, odds, last
<1> DEFINE one   == first \o filled
           two   == one \o evens
           three == two \o medium
           four  == three \o odds
           five  == four \o last
<1>15. Calls = five
  BY <1>2
<1>10. /\ one \in Seq(TestCall) /\ Len(one) = 8 + N
       /\ \A i \in 1 .. 8 : one[i] = first[i]
       /\ \A i \in 1 .. N : one[8 + i] = filled[i]
  <2>1. one \in Seq(TestCall) /\ Concatenation(one, first, filled)
    BY <1>4, <1>5, Concatenated
  <2> HIDE DEF one
  <2> QED
    BY <1>1, <1>4, <1>5, <2>1 DEF Concatenation
<1> HIDE DEF one
<1>11. /\ two \in Seq(TestCall) /\ Len(two) = 8 + N + h
       /\ \A i \in 1 .. (8 + N) : two[i] = one[i]
       /\ \A i \in 1 .. h : two[8 + N + i] = evens[i]
  <2>1. two \in Seq(TestCall) /\ Concatenation(two, one, evens)
    BY <1>6, <1>10, Concatenated
  <2> HIDE DEF two
  <2> QED
    BY <1>1, <1>6, <1>10, <2>1 DEF Concatenation
<1> HIDE DEF two
<1>12. /\ three \in Seq(TestCall) /\ Len(three) = 8 + N + h + 1
       /\ \A i \in 1 .. (8 + N + h) : three[i] = two[i]
       /\ \A i \in 1 .. 1 : three[8 + N + h + i] = medium[i]
  <2>1. three \in Seq(TestCall) /\ Concatenation(three, two, medium)
    BY <1>7, <1>11, Concatenated
  <2> HIDE DEF three
  <2> QED
    BY <1>1, <1>7, <1>11, <2>1 DEF Concatenation
<1> HIDE DEF three
<1>13. /\ four \in Seq(TestCall) /\ Len(four) = 8 + N + h + 1 + h
       /\ \A i \in 1 .. (8 + N + h + 1) : four[i] = three[i]
       /\ \A i \in 1 .. h : four[8 + N + h + 1 + i] = odds[i]
  <2>1. four \in Seq(TestCall) /\ Concatenation(four, three, odds)
    BY <1>6, <1>12, Concatenated
  <2> HIDE DEF four
  <2> QED
    BY <1>1, <1>6, <1>12, <2>1 DEF Concatenation
<1> HIDE DEF four
<1>14. /\ five \in Seq(TestCall) /\ Len(five) = 8 + N + h + 1 + h + 1
       /\ \A i \in 1 .. (8 + N + h + 1 + h) : five[i] = four[i]
       /\ \A i \in 1 .. 1 : five[8 + N + h + 1 + h + i] = last[i]
  <2>1. five \in Seq(TestCall) /\ Concatenation(five, four, last)
    BY <1>7, <1>13, Concatenated
  <2> HIDE DEF five
  <2>2. Len(four) = 8 + N + h + 1 + h /\ Len(last) = 1
    BY <1>7, <1>13
  <2>3. Len(five) = Len(four) + Len(last)
    BY <2>1 DEF Concatenation
  <2>4. \A i \in 1 .. Len(four) : five[i] = four[i]
    BY <2>1 DEF Concatenation
  <2>5. \A i \in 1 .. Len(last) : five[Len(four) + i] = last[i]
    BY <2>1 DEF Concatenation
  <2> QED
    BY <2>1, <2>2, <2>3, <2>4, <2>5
<1> HIDE DEF five
<1>16. ASSUME NEW i \in 1 .. 8 PROVE Calls[i] = first[i]
  <2>1. /\ i \in 1 .. (8 + N) /\ i \in 1 .. (8 + N + h) /\ i \in 1 .. (8 + N + h + 1)
        /\ i \in 1 .. (8 + N + h + 1 + h)
    BY <1>1
  <2>2. Calls[i] = four[i]
    BY <1>14, <1>15, <2>1
  <2>3. four[i] = three[i]
    BY <1>13, <2>1
  <2>4. three[i] = two[i]
    BY <1>12, <2>1
  <2>5. two[i] = one[i]
    BY <1>11, <2>1
  <2>6. one[i] = first[i]
    BY <1>10, <2>1
  <2> QED
    BY <2>2, <2>3, <2>4, <2>5, <2>6
<1>17. ASSUME NEW i \in 1 .. N PROVE Calls[8 + i] = filled[i]
  <2>1. /\ 8 + i \in 1 .. (8 + N) /\ 8 + i \in 1 .. (8 + N + h)
        /\ 8 + i \in 1 .. (8 + N + h + 1) /\ 8 + i \in 1 .. (8 + N + h + 1 + h)
    BY <1>1
  <2>2. Calls[8 + i] = four[8 + i]
    BY <1>14, <1>15, <2>1
  <2>3. four[8 + i] = three[8 + i]
    BY <1>13, <2>1
  <2>4. three[8 + i] = two[8 + i]
    BY <1>12, <2>1
  <2>5. two[8 + i] = one[8 + i]
    BY <1>11, <2>1
  <2>6. one[8 + i] = filled[i]
    BY <1>10, <2>1
  <2> QED
    BY <2>2, <2>3, <2>4, <2>5, <2>6
<1>18. ASSUME NEW i \in 1 .. h PROVE Calls[8 + N + i] = evens[i]
  <2>1. /\ 8 + N + i \in 1 .. (8 + N + h) /\ 8 + N + i \in 1 .. (8 + N + h + 1)
        /\ 8 + N + i \in 1 .. (8 + N + h + 1 + h)
    BY <1>1
  <2>2. Calls[8 + N + i] = four[8 + N + i]
    BY <1>14, <1>15, <2>1
  <2>3. four[8 + N + i] = three[8 + N + i]
    BY <1>13, <2>1
  <2>4. three[8 + N + i] = two[8 + N + i]
    BY <1>12, <2>1
  <2>5. two[8 + N + i] = evens[i]
    BY <1>11, <2>1
  <2> QED
    BY <2>2, <2>3, <2>4, <2>5
<1>19. Calls[9 + N + h] = medium[1]
  <2>1. /\ 8 + N + h + 1 \in 1 .. (8 + N + h + 1)
        /\ 8 + N + h + 1 \in 1 .. (8 + N + h + 1 + h) /\ 8 + N + h + 1 = 9 + N + h
    BY <1>1
  <2>2. Calls[8 + N + h + 1] = four[8 + N + h + 1]
    BY <1>14, <1>15, <2>1
  <2>3. four[8 + N + h + 1] = three[8 + N + h + 1]
    BY <1>13, <2>1
  <2>4. three[8 + N + h + 1] = medium[1]
    BY <1>12, <2>1
  <2> QED
    BY <2>1, <2>2, <2>3, <2>4
<1>20. ASSUME NEW i \in 1 .. h PROVE Calls[9 + N + h + i] = odds[i]
  <2>1. /\ 8 + N + h + 1 + i \in 1 .. (8 + N + h + 1 + h)
        /\ 8 + N + h + 1 + i = 9 + N + h + i
    BY <1>1
  <2>2. Calls[8 + N + h + 1 + i] = four[8 + N + h + 1 + i]
    BY <1>14, <1>15, <2>1
  <2>3. four[8 + N + h + 1 + i] = odds[i]
    BY <1>13, <2>1
  <2> QED
    BY <2>1, <2>2, <2>3
<1>21. Calls \in Seq(TestCall) /\ Len(Calls) = 10 + 2 * N /\ Calls[10 + 2 * N] = last[1]
  <2>1. 8 + N + h + 1 + h + 1 = 10 + 2 * N
    BY <1>1
  <2>2. five[8 + N + h + 1 + h + 1] = last[1]
    BY <1>14
  <2> QED
    BY <1>14, <1>15, <2>1, <2>2
<1>22. /\ Calls[1] = first[1] /\ Calls[2] = first[2] /\ Calls[3] = first[3]
       /\ Calls[4] = first[4] /\ Calls[5] = first[5] /\ Calls[6] = first[6]
       /\ Calls[7] = first[7] /\ Calls[8] = first[8]
  BY <1>16
<1>23. /\ \A i \in 1 .. N : Calls[8 + i] = Alloc(i - 1, 1)
       /\ \A i \in 1 .. h : Calls[8 + N + i] = Free(2 * i - 2)
       /\ \A i \in 1 .. h : Calls[9 + N + h + i] = Free(2 * i - 1)
  BY <1>9, <1>17, <1>18, <1>20
<1> QED
  BY <1>8, <1>19, <1>21, <1>22, <1>23 DEF N, h

(* Which call allocates a name, and which frees it.                        *)
AllocatedAt(i, name) == i \in 1 .. Len(Calls) /\ Calls[i].call = "alloc" /\ Calls[i].name = name
FreedAt(i, name) == i \in 1 .. Len(Calls) /\ Calls[i].call = "free" /\ Calls[i].name = name

(* The place of the free of a name, and that of its allocation.            *)
FreePlace(name) ==
  CASE name = addr1 -> 4 [] name = addr2 -> 5 [] name = addr3 -> 6 [] name = large_addr -> 8
    [] name = medium_addr -> 10 + 2 * NUM_BLOCKS
    [] name >= 0 /\ name % 2 = 0 -> 9 + NUM_BLOCKS + (name \div 2)
    [] OTHER -> 10 + NUM_BLOCKS + (NUM_BLOCKS \div 2) + (name \div 2)

AllocPlace(name) ==
  CASE name = addr1 -> 1 [] name = addr2 -> 2 [] name = addr3 -> 3 [] name = large_addr -> 7
    [] name = medium_addr -> 9 + NUM_BLOCKS + (NUM_BLOCKS \div 2)
    [] OTHER -> 9 + name

LEMMA SmallPlaces ==
  ASSUME NEW k \in Nat \ {0}
  PROVE  /\ AllocPlace(2 * k - 2) = 7 + 2 * k
         /\ FreePlace(2 * k - 2) = 8 + NUM_BLOCKS + k
         /\ AllocPlace(2 * k - 1) = 8 + 2 * k
         /\ FreePlace(2 * k - 1) = 9 + NUM_BLOCKS + (NUM_BLOCKS \div 2) + k
<1> DEFINE N == NUM_BLOCKS
           h == NUM_BLOCKS \div 2
<1>1. N \in Nat /\ h \in Nat
  BY BlocksAssumption
<1>2. ASSUME NEW n \in Nat
      PROVE  /\ AllocPlace(n) = 9 + n
             /\ n % 2 = 0 => FreePlace(n) = 9 + N + (n \div 2)
             /\ n % 2 # 0 => FreePlace(n) = 10 + N + h + (n \div 2)
  BY DEF FreePlace, AllocPlace, addr1, addr2, addr3, large_addr, medium_addr
<1> SUFFICES /\ AllocPlace(2 * k - 2) = 7 + 2 * k /\ FreePlace(2 * k - 2) = 8 + N + k
             /\ AllocPlace(2 * k - 1) = 8 + 2 * k /\ FreePlace(2 * k - 1) = 9 + N + h + k
  OBVIOUS
<1> HIDE DEF N, h
<1>3. PICK n \in Nat, m \in Nat : n = 2 * k - 2 /\ m = 2 * k - 1
  OBVIOUS
<1>4. n % 2 = 0 /\ n \div 2 = k - 1 /\ m % 2 # 0 /\ m \div 2 = k - 1
  BY <1>3
<1>5. AllocPlace(n) = 9 + n /\ FreePlace(n) = 9 + N + (k - 1)
  BY <1>2, <1>4
<1>6. AllocPlace(m) = 9 + m /\ FreePlace(m) = 10 + N + h + (k - 1)
  BY <1>2, <1>4
<1> QED
  BY <1>1, <1>3, <1>5, <1>6

(* A free comes after the only allocation of its name, and no name is      *)
(* freed twice.                                                            *)
LEMMA FreedOnce ==
  ASSUME NEW i \in 1 .. Len(Calls), Calls[i].call = "free"
  PROVE  /\ i = FreePlace(Calls[i].name)
         /\ AllocPlace(Calls[i].name) \in 1 .. (i - 1)
         /\ AllocatedAt(AllocPlace(Calls[i].name), Calls[i].name)
<1> DEFINE N == NUM_BLOCKS
           h == NUM_BLOCKS \div 2
           name == Calls[i].name
           at   == AllocPlace(name)
<1>1. N \in Nat /\ h \in Nat /\ N = h + h /\ h = N \div 2
  BY BlocksAssumption
<1>2. i \in Nat /\ i >= 1 /\ i <= 10 + 2 * N /\ Len(Calls) = 10 + 2 * N
  BY CallPlaces, <1>1
<1>a. /\ Calls[1] = Alloc(addr1, 1) /\ Calls[2] = Alloc(addr2, 2) /\ Calls[3] = Alloc(addr3, 4)
      /\ Calls[4] = Free(addr1) /\ Calls[5] = Free(addr2) /\ Calls[6] = Free(addr3)
      /\ Calls[7] = Alloc(large_addr, 32) /\ Calls[8] = Free(large_addr)
  BY CallPlaces
<1>b. \A k \in 1 .. N : Calls[8 + k] = Alloc(k - 1, 1)
  BY CallPlaces
<1>c. \A k \in 1 .. h : Calls[8 + N + k] = Free(2 * k - 2)
  BY CallPlaces
<1>d. Calls[9 + N + h] = Alloc(medium_addr, 8)
  BY CallPlaces
<1>e. \A k \in 1 .. h : Calls[9 + N + h + k] = Free(2 * k - 1)
  BY CallPlaces
<1>f. Calls[10 + 2 * N] = Free(medium_addr)
  BY CallPlaces
<1>g. /\ \A n : n = addr1 => FreePlace(n) = 4 /\ AllocPlace(n) = 1
      /\ \A n : n = addr2 => FreePlace(n) = 5 /\ AllocPlace(n) = 2
      /\ \A n : n = addr3 => FreePlace(n) = 6 /\ AllocPlace(n) = 3
      /\ \A n : n = large_addr => FreePlace(n) = 8 /\ AllocPlace(n) = 7
      /\ \A n : n = medium_addr => FreePlace(n) = 10 + 2 * N /\ AllocPlace(n) = 9 + N + h
  BY DEF FreePlace, AllocPlace, addr1, addr2, addr3, large_addr, medium_addr
<1>i. ASSUME NEW k \in Nat \ {0}
      PROVE  /\ AllocPlace(2 * k - 2) = 7 + 2 * k /\ FreePlace(2 * k - 2) = 8 + N + k
             /\ AllocPlace(2 * k - 1) = 8 + 2 * k /\ FreePlace(2 * k - 1) = 9 + N + h + k
  BY SmallPlaces
<1> SUFFICES i = FreePlace(name) /\ at \in 1 .. (i - 1) /\ Calls[at].call = "alloc" /\ Calls[at].name = name
  BY <1>1, <1>2 DEF AllocatedAt
<1> HIDE DEF N, h
<1>3. CASE i \in {1, 2, 3, 7}
  BY <1>3, <1>a DEF Alloc
<1>4. CASE i \in {4, 5, 6, 8}
  <2>1. /\ i = 4 => name = addr1
        /\ i = 5 => name = addr2
        /\ i = 6 => name = addr3
        /\ i = 8 => name = large_addr
    BY <1>a DEF Free
  <2>2. /\ i = 4 => at = 1 /\ FreePlace(name) = 4
        /\ i = 5 => at = 2 /\ FreePlace(name) = 5
        /\ i = 6 => at = 3 /\ FreePlace(name) = 6
        /\ i = 8 => at = 7 /\ FreePlace(name) = 8
    BY <1>g, <2>1
  <2> HIDE DEF name, at
  <2>3. /\ i = 4 => Calls[at] = Alloc(name, 1)
        /\ i = 5 => Calls[at] = Alloc(name, 2)
        /\ i = 6 => Calls[at] = Alloc(name, 4)
        /\ i = 8 => Calls[at] = Alloc(name, 32)
    BY <1>a, <2>1, <2>2
  <2> QED
    BY <1>4, <2>2, <2>3 DEF Alloc
<1>5. CASE i \in 9 .. (8 + N)
  <2>1. PICK k \in 1 .. N : k = i - 8 /\ 8 + k = i
    BY <1>1, <1>5
  <2>2. Calls[i] = Alloc(k - 1, 1)
    BY <2>1, <1>b
  <2> QED
    BY <2>2 DEF Alloc
<1>6. CASE i \in (9 + N) .. (8 + N + h)
  <2>1. PICK k \in 1 .. h : 8 + N + k = i
    <3>1. i - 8 - N \in 1 .. h /\ 8 + N + (i - 8 - N) = i
      BY <1>1, <1>6
    <3> QED
      BY <3>1
  <2>2. name = 2 * k - 2
    <3>1. Calls[i] = Free(2 * k - 2)
      BY <1>c, <2>1
    <3> QED
      BY <3>1 DEF Free
  <2>3. at = 7 + 2 * k /\ FreePlace(name) = i
    BY <1>1, <1>i, <2>1, <2>2
  <2>4. PICK j \in 1 .. N : j = 2 * k - 1
    BY <1>1
  <2>5. Calls[8 + j] = Alloc(j - 1, 1)
    BY <1>b
  <2>6. at = 8 + j /\ name = j - 1
    BY <2>2, <2>3, <2>4
  <2>7. at \in 1 .. (i - 1)
    BY <1>1, <2>1, <2>3
  <2> HIDE DEF at, name
  <2>8. Calls[at] = Alloc(name, 1)
    BY <2>5, <2>6
  <2> QED
    BY <2>3, <2>7, <2>8 DEF Alloc
<1>7. CASE i = 9 + N + h
  BY <1>7, <1>d DEF Alloc
<1>8. CASE i \in (10 + N + h) .. (9 + N + h + h)
  <2>1. PICK k \in 1 .. h : 9 + N + h + k = i
    <3>1. i - 9 - N - h \in 1 .. h /\ 9 + N + h + (i - 9 - N - h) = i
      BY <1>1, <1>8
    <3> QED
      BY <3>1
  <2>2. name = 2 * k - 1
    <3>1. Calls[i] = Free(2 * k - 1)
      BY <1>e, <2>1
    <3> QED
      BY <3>1 DEF Free
  <2>3. at = 8 + 2 * k /\ FreePlace(name) = i
    BY <1>1, <1>i, <2>1, <2>2
  <2>4. PICK j \in 1 .. N : j = 2 * k
    BY <1>1
  <2>5. Calls[8 + j] = Alloc(j - 1, 1) /\ 8 + j = 8 + 2 * k /\ j - 1 = 2 * k - 1
    BY <1>b, <2>4
  <2>6. 8 + 2 * k \in 1 .. (i - 1)
    BY <1>1, <2>1
  <2> QED
    BY <2>2, <2>3, <2>5, <2>6 DEF Alloc
<1>9. CASE i = 10 + 2 * N
  <2>1. name = medium_addr
    BY <1>9, <1>f DEF Free
  <2>2. at = 9 + N + h /\ FreePlace(name) = 10 + 2 * N
    BY <1>g, <2>1
  <2>3. at \in 1 .. (i - 1)
    BY <1>1, <1>9, <2>2
  <2> QED
    BY <1>9, <2>1, <2>2, <2>3, <1>d DEF Alloc
<1>10. \/ i \in {1, 2, 3, 7} \/ i \in {4, 5, 6, 8} \/ i \in 9 .. (8 + N)
       \/ i \in (9 + N) .. (8 + N + h) \/ i = 9 + N + h
       \/ i \in (10 + N + h) .. (9 + N + h + h) \/ i = 10 + 2 * N
  BY <1>1, <1>2
<1> QED
  BY <1>3, <1>4, <1>5, <1>6, <1>7, <1>8, <1>9, <1>10

(* The names whose address the test has kept and not freed, when it is to  *)
(* make call i.                                                            *)
Live(i) ==
  {name \in Locals :
     (\E j \in 1 .. (i - 1) : AllocatedAt(j, name)) /\ (\A j \in 1 .. (i - 1) : ~ FreedAt(j, name))}

LEMMA LiveStep ==
  ASSUME NEW i \in 1 .. Len(Calls)
  PROVE  /\ Calls[i].name \in Locals
         /\ Calls[i].call = "alloc" =>
              Live(i + 1) \subseteq Live(i) \cup {Calls[i].name}
                /\ Calls[i].pages \in {1, 2, 4, 8, 32}
         /\ Calls[i].call = "free" =>
              Calls[i].name \in Live(i) /\ Live(i + 1) \subseteq Live(i) \ {Calls[i].name}
<1>1. Len(Calls) \in Nat /\ i \in Nat /\ i >= 1 /\ i <= Len(Calls)
  BY CallPlaces
<1>2. Calls[i] \in TestCall
  BY CallPlaces
<1>3. /\ Calls[i].name \in Locals
      /\ Calls[i].call = "alloc" => Calls[i].pages \in {1, 2, 4, 8, 32}
  BY <1>2 DEF TestCall, Alloc, Free
<1>4. 1 .. (i + 1 - 1) = 1 .. (i - 1) \cup {i}
  BY <1>1
<1>5. ASSUME NEW name \in Live(i + 1)
      PROVE  name \in Live(i) \/ (AllocatedAt(i, name) /\ name = Calls[i].name)
  BY <1>4 DEF Live, AllocatedAt
<1>6. ASSUME Calls[i].call = "free", NEW name \in Live(i + 1)
      PROVE  name \in Live(i) /\ name # Calls[i].name
  <2>1. ~ FreedAt(i, name) /\ ~ AllocatedAt(i, name)
    BY <1>4, <1>6 DEF Live, AllocatedAt
  <2> QED
    BY <1>5, <1>6, <2>1 DEF FreedAt
<1>7. ASSUME Calls[i].call = "free"
      PROVE  Calls[i].name \in Live(i)
  <2>1. \E j \in 1 .. (i - 1) : AllocatedAt(j, Calls[i].name)
    BY <1>7, FreedOnce
  <2>2. ASSUME NEW j \in 1 .. (i - 1), FreedAt(j, Calls[i].name)
        PROVE  FALSE
    <3>1. j \in 1 .. Len(Calls) /\ Calls[j].call = "free" /\ Calls[j].name = Calls[i].name
      BY <2>2 DEF FreedAt
    <3>2. j = FreePlace(Calls[j].name) /\ i = FreePlace(Calls[i].name)
      BY <1>7, <3>1, FreedOnce
    <3>3. j = i
      BY <3>1, <3>2
    <3> QED
      BY <1>1, <3>3
  <2> QED
    BY <1>3, <2>1, <2>2 DEF Live
<1> QED
  BY <1>3, <1>5, <1>6, <1>7

(* A name that is live keeps the address of a block the test holds, or 0   *)
(* when there was none to have, and shares it with no other.               *)
TestInv ==
  /\ step \in 1 .. (Len(Calls) + 1) /\ local \in [Locals -> Nat]
  /\ pc \in {"search", "split"} => ~ Done /\ Calls[step].call = "alloc"
  /\ \A name \in Live(step) :
       local[name] # 0 => \E block \in held : block.addr = local[name]
  /\ \A name, other \in Live(step) :
       local[name] # 0 /\ local[name] = local[other] => name = other

(* A step of the test is a step of the allocator.                          *)
LEMMA TestStep ==
  ASSUME TestInv, [TestNext]_testVars
  PROVE  [Next]_vars
<1>1. CASE Boot
  BY <1>1 DEF Boot, Next
<1>2. CASE TestAlloc
  <2>1. step \in 1 .. Len(Calls)
    BY <1>2, CallPlaces DEF TestAlloc, TestInv, Done
  <2>2. Calls[step].pages \in RequestSizes
    BY <1>2, <2>1, LiveStep, BlocksAssumption DEF TestAlloc
  <2> QED
    BY <1>2, <2>2 DEF TestAlloc, Next, Client
<1>3. CASE Returned
  BY <1>3 DEF Returned, Next, Internal
<1>4. CASE TestFree
  BY <1>4 DEF TestFree, Next, Client
<1>5. CASE Running
  BY <1>5 DEF Running, Next, Internal
<1>6. CASE UNCHANGED testVars
  BY <1>6 DEF testVars
<1> QED
  BY <1>1, <1>2, <1>3, <1>4, <1>5, <1>6 DEF TestNext

LEMMA TestInitInv == TestInit => TestInv
<1> SUFFICES ASSUME TestInit PROVE TestInv
  OBVIOUS
<1>1. step = 1 /\ local = [name \in Locals |-> 0] /\ pc = "off"
  BY DEF TestInit, Init
<1>2. Len(Calls) \in Nat
  BY CallPlaces
<1>3. \A name \in Live(step) : name \in Locals /\ local[name] = 0
  BY <1>1 DEF Live
<1> QED
  BY <1>1, <1>2, <1>3 DEF TestInv

LEMMA TestNextInv ==
  ASSUME IInv, IInv', TestInv, [TestNext]_testVars
  PROVE  TestInv'
<1>a. Len(Calls) \in Nat
  BY CallPlaces
<1>b. /\ step \in 1 .. (Len(Calls) + 1) /\ local \in [Locals -> Nat]
      /\ pc \in {"search", "split"} => ~ Done /\ Calls[step].call = "alloc"
      /\ \A name \in Live(step) :
           local[name] # 0 => \E block \in held : block.addr = local[name]
      /\ \A name, other \in Live(step) :
           local[name] # 0 /\ local[name] = local[other] => name = other
  BY DEF TestInv
<1>1. ASSUME UNCHANGED <<step, local, held>>,
             pc' \in {"search", "split"} => ~ Done /\ Calls[step].call = "alloc"
      PROVE  TestInv'
  BY <1>1, <1>b DEF TestInv, Done
<1>2. CASE Boot
  <2>1. UNCHANGED <<step, local, held>> /\ pc' = "init"
    BY <1>2 DEF Boot, InitCall
  <2> QED
    BY <1>1, <2>1
<1>3. CASE TestAlloc
  <2>1. UNCHANGED <<step, local, held>> /\ ~ Done /\ Calls[step].call = "alloc"
    BY <1>3 DEF TestAlloc, AllocCall
  <2> QED
    BY <1>1, <2>1
<1>4. CASE Returned
  <2>1. /\ pc \in {"search", "split"} /\ pc' = "idle" /\ step' = step + 1
    BY <1>4 DEF Returned, TakeBlock, SearchFailed, Return
  <2>2. ~ Done /\ Calls[step].call = "alloc" /\ step \in 1 .. Len(Calls)
    BY <1>a, <1>b, <2>1 DEF Done
  <2> DEFINE mine == Calls[step].name
  <2>3. mine \in Locals /\ Live(step') \subseteq Live(step) \cup {mine}
    BY <2>1, <2>2, LiveStep
  <2>4. PICK value \in Nat :
          /\ local' = [local EXCEPT ![mine] = value] /\ held \subseteq held'
          /\ value # 0 => /\ \E block \in held' : block.addr = value
                          /\ \A block \in held : block.addr # value
    <3>1. CASE SearchFailed
      <4>1. local' = [local EXCEPT ![mine] = 0] /\ held' = held
        BY <1>4, <3>1 DEF Returned, SearchFailed, TakeBlock
      <4> QED
        BY <4>1
    <3>2. CASE TakeBlock
      <4> DEFINE value == Head(free_lists[level])
      <4>1. local' = [local EXCEPT ![mine] = value]
        BY <1>4, <3>2 DEF Returned, SearchFailed, TakeBlock
      <4>2. held' = held \cup {[addr |-> value, got |-> size[value], asked |-> request]}
        BY <3>2 DEF TakeBlock
      <4> DEFINE taken == [addr |-> value, got |-> size[value], asked |-> request]
      <4>3. taken \in held' /\ taken.addr = value
        BY <4>2
      <4> HIDE DEF taken
      <4>4. value \in Nat
        BY <4>3 DEF IInv, TypeOK
      <4>5. \A block \in held : block.addr # value
        BY <3>2, GrantIsNew
      <4> HIDE DEF value
      <4> QED
        BY <4>1, <4>2, <4>3, <4>4, <4>5
    <3> QED
      BY <1>4, <3>1, <3>2 DEF Returned
  <2> HIDE DEF mine
  <2>5. /\ local' \in [Locals -> Nat] /\ local'[mine] = value
        /\ \A name \in Locals : name # mine => local'[name] = local[name]
    BY <1>b, <2>3, <2>4
  <2>6. step' \in 1 .. (Len(Calls) + 1)
    BY <1>a, <2>1, <2>2
  <2>7. \A name \in Live(step') : name \in Locals
    BY DEF Live
  <2>8. ASSUME NEW name \in Live(step'), local'[name] # 0
        PROVE  \E block \in held' : block.addr = local'[name]
    <3>1. CASE name = mine
      BY <2>4, <2>5, <2>8, <3>1
    <3>2. CASE name # mine
      BY <1>b, <2>3, <2>4, <2>5, <2>7, <2>8, <3>2
    <3> QED
      BY <3>1, <3>2
  <2>9. ASSUME NEW name \in Live(step'), NEW other \in Live(step'),
               local'[name] # 0, local'[name] = local'[other], name # other
        PROVE  FALSE
    <3>1. CASE name = mine
      <4>1. local[other] = value /\ value # 0 /\ other \in Live(step)
        BY <2>3, <2>5, <2>7, <2>9, <3>1
      <4> QED
        BY <1>b, <2>4, <4>1
    <3>2. CASE other = mine
      <4>1. local[name] = value /\ value # 0 /\ name \in Live(step)
        BY <2>3, <2>5, <2>7, <2>9, <3>2
      <4> QED
        BY <1>b, <2>4, <4>1
    <3>3. CASE name # mine /\ other # mine
      BY <1>b, <2>3, <2>5, <2>7, <2>9, <3>3
    <3> QED
      BY <3>1, <3>2, <3>3
  <2> QED
    BY <2>1, <2>5, <2>6, <2>8, <2>9 DEF TestInv
<1>5. CASE TestFree
  <2>1. /\ pc = "idle" /\ pc' = "merge" /\ ~ Done /\ Calls[step].call = "free"
        /\ step' = step + 1 /\ local' = local
    BY <1>5 DEF TestFree, FreeCall
  <2>2. step \in 1 .. Len(Calls)
    BY <1>a, <1>b, <2>1 DEF Done
  <2> DEFINE mine == Calls[step].name
  <2>3. mine \in Live(step) /\ Live(step') \subseteq Live(step) \ {mine}
    BY <2>1, <2>2, LiveStep
  <2>4. PICK freed \in held : freed.addr = local[mine] /\ held' = held \ {freed}
    BY <1>5 DEF TestFree, FreeCall
  <2>5. ASSUME NEW name \in Live(step'), local[name] # 0
        PROVE  \E block \in held' : block.addr = local[name]
    <3>1. PICK block \in held : block.addr = local[name]
      BY <1>b, <2>3, <2>5
    <3>2. local[name] # local[mine]
      BY <1>b, <2>3, <2>5
    <3> QED
      BY <2>4, <3>1, <3>2
  <2>6. step' \in 1 .. (Len(Calls) + 1)
    BY <1>a, <2>1, <2>2
  <2> QED
    BY <1>b, <2>1, <2>3, <2>5, <2>6 DEF TestInv
<1>6. CASE Running
  <2>1. /\ UNCHANGED <<step, local, held>>
        /\ pc' \in {"search", "split"} => pc \in {"search", "split"}
    BY <1>6 DEF Running, CreateBlock, InitDone, SearchFound, SplitBlock, MergeBuddy,
                InsertBlock, Return
  <2> QED
    BY <1>1, <1>b, <2>1
<1>7. CASE UNCHANGED testVars
  BY <1>1, <1>7, <1>b DEF testVars, vars
<1> QED
  BY <1>2, <1>3, <1>4, <1>5, <1>6, <1>7 DEF TestNext

LEMMA TestInvariance == TestSpec => [](IInv /\ TestInv)
<1>1. TestInit => IInv
  BY InitInv DEF TestInit
<1>2. IInv /\ TestInv /\ [TestNext]_testVars => IInv'
  BY NextInv, TestStep
<1>3. IInv /\ IInv' /\ TestInv /\ [TestNext]_testVars => TestInv'
  BY TestNextInv
<1> QED
  BY <1>1, <1>2, <1>3, TestInitInv, PTL DEF TestSpec

(* The self-test runs the buddy allocator as specified: what is proved of  *)
(* the allocator is true while it is tested.                               *)
THEOREM TestAllocates == TestSpec => Spec
<1>1. TestInit => Init
  BY DEF TestInit
<1>2. TestInv /\ [TestNext]_testVars => [Next]_vars
  BY TestStep
<1> QED
  BY <1>1, <1>2, TestInvariance, PTL DEF TestSpec, Spec

(* What the self-test frees, when it was given something, is always a      *)
(* block it holds, in pools of every size and for every number of blocks:  *)
(* the splits and merges of other calls never change what its addresses    *)
(* mean.                                                                   *)
THEOREM TestFreesItsBlocks == TestSpec => []FreesItsBlocks
<1>1. TestInv => FreesItsBlocks
  <2> SUFFICES ASSUME TestInv, NEW name \in Locals, FreesNext(local[name]), local[name] # 0
               PROVE  \E block \in held : block.addr = local[name]
    BY DEF FreesItsBlocks
  <2>1. step \in 1 .. Len(Calls) /\ Calls[step].call = "free"
        /\ local[Calls[step].name] = local[name]
    BY CallPlaces DEF FreesNext, TestInv, Done
  <2>2. Calls[step].name \in Live(step)
    BY <2>1, LiveStep
  <2> QED
    BY <2>1, <2>2 DEF TestInv
<1> QED
  BY <1>1, TestInvariance, PTL

-----------------------------------------------------------------------------
(* What the self-test leaves behind: nothing.                              *)

(* A name is allocated once, and freed later.                              *)
LEMMA AllocatedOnce ==
  ASSUME NEW i \in 1 .. Len(Calls), Calls[i].call = "alloc"
  PROVE  i = AllocPlace(Calls[i].name) /\ FreedAt(FreePlace(Calls[i].name), Calls[i].name)
<1> DEFINE N == NUM_BLOCKS
           h == NUM_BLOCKS \div 2
           name == Calls[i].name
           freed == FreePlace(name)
<1>1. N \in Nat /\ h \in Nat /\ N = h + h
  BY BlocksAssumption
<1>2. i \in Nat /\ i >= 1 /\ i <= 10 + 2 * N /\ Len(Calls) = 10 + 2 * N
  BY CallPlaces, <1>1
<1>a. /\ Calls[1] = Alloc(addr1, 1) /\ Calls[2] = Alloc(addr2, 2) /\ Calls[3] = Alloc(addr3, 4)
      /\ Calls[4] = Free(addr1) /\ Calls[5] = Free(addr2) /\ Calls[6] = Free(addr3)
      /\ Calls[7] = Alloc(large_addr, 32) /\ Calls[8] = Free(large_addr)
  BY CallPlaces
<1>b. \A k \in 1 .. N : Calls[8 + k] = Alloc(k - 1, 1)
  BY CallPlaces
<1>c. \A k \in 1 .. h : Calls[8 + N + k] = Free(2 * k - 2)
  BY CallPlaces
<1>d. Calls[9 + N + h] = Alloc(medium_addr, 8)
  BY CallPlaces
<1>e. \A k \in 1 .. h : Calls[9 + N + h + k] = Free(2 * k - 1)
  BY CallPlaces
<1>f. Calls[10 + 2 * N] = Free(medium_addr)
  BY CallPlaces
<1>g. /\ \A n : n = addr1 => FreePlace(n) = 4 /\ AllocPlace(n) = 1
      /\ \A n : n = addr2 => FreePlace(n) = 5 /\ AllocPlace(n) = 2
      /\ \A n : n = addr3 => FreePlace(n) = 6 /\ AllocPlace(n) = 3
      /\ \A n : n = large_addr => FreePlace(n) = 8 /\ AllocPlace(n) = 7
      /\ \A n : n = medium_addr => FreePlace(n) = 10 + 2 * N /\ AllocPlace(n) = 9 + N + h
  BY DEF FreePlace, AllocPlace, addr1, addr2, addr3, large_addr, medium_addr
<1>i. ASSUME NEW k \in Nat \ {0}
      PROVE  /\ AllocPlace(2 * k - 2) = 7 + 2 * k /\ FreePlace(2 * k - 2) = 8 + N + k
             /\ AllocPlace(2 * k - 1) = 8 + 2 * k /\ FreePlace(2 * k - 1) = 9 + N + h + k
  BY SmallPlaces
<1> SUFFICES i = AllocPlace(name) /\ freed \in 1 .. (10 + 2 * N) /\ Calls[freed] = Free(name)
  BY <1>1, <1>2 DEF FreedAt, Free
<1> HIDE DEF N, h
<1>3. CASE i \in {1, 2, 3, 7}
  <2>1. /\ i = 1 => name = addr1
        /\ i = 2 => name = addr2
        /\ i = 3 => name = addr3
        /\ i = 7 => name = large_addr
    BY <1>a DEF Alloc
  <2>2. /\ i = 1 => AllocPlace(name) = 1 /\ freed = 4
        /\ i = 2 => AllocPlace(name) = 2 /\ freed = 5
        /\ i = 3 => AllocPlace(name) = 3 /\ freed = 6
        /\ i = 7 => AllocPlace(name) = 7 /\ freed = 8
    BY <1>g, <2>1
  <2> HIDE DEF name, freed
  <2>3. i = AllocPlace(name) /\ Calls[freed] = Free(name) /\ freed \in {4, 5, 6, 8}
    BY <1>3, <1>a, <2>1, <2>2
  <2> QED
    BY <1>1, <2>3
<1>4. CASE i \in {4, 5, 6, 8}
  BY <1>4, <1>a DEF Free
<1>5. CASE i \in 9 .. (8 + N)
  <2>1. PICK k \in 1 .. N : 8 + k = i
    <3>1. i - 8 \in 1 .. N /\ 8 + (i - 8) = i
      BY <1>1, <1>5
    <3> QED
      BY <3>1
  <2>2. name = k - 1
    <3>1. Calls[i] = Alloc(k - 1, 1)
      BY <1>b, <2>1
    <3> QED
      BY <3>1 DEF Alloc
  <2>3. PICK j \in 1 .. h : k = 2 * j - 1 \/ k = 2 * j
    <3>1. \/ (k \div 2) \in 1 .. h /\ k = 2 * (k \div 2)
          \/ (k \div 2) + 1 \in 1 .. h /\ k = 2 * ((k \div 2) + 1) - 1
      BY <1>1
    <3> QED
      BY <3>1
  <2>4. CASE k = 2 * j - 1
    <3>1. name = 2 * j - 2
      BY <2>2, <2>4
    <3>2. AllocPlace(name) = 7 + 2 * j /\ freed = 8 + N + j
      BY <1>1, <1>i, <3>1
    <3>3. Calls[freed] = Free(name)
      BY <1>c, <3>1, <3>2
    <3> HIDE DEF name, freed
    <3> QED
      BY <1>1, <2>1, <2>4, <3>2, <3>3
  <2>5. CASE k = 2 * j
    <3>1. name = 2 * j - 1
      BY <2>2, <2>5
    <3>2. AllocPlace(name) = 8 + 2 * j /\ freed = 9 + N + h + j
      BY <1>1, <1>i, <3>1
    <3>3. Calls[freed] = Free(name)
      BY <1>e, <3>1, <3>2
    <3> HIDE DEF name, freed
    <3> QED
      BY <1>1, <2>1, <2>5, <3>2, <3>3
  <2> QED
    BY <2>3, <2>4, <2>5
<1>6. CASE i \in (9 + N) .. (8 + N + h)
  <2>1. PICK k \in 1 .. h : 8 + N + k = i
    <3>1. i - 8 - N \in 1 .. h /\ 8 + N + (i - 8 - N) = i
      BY <1>1, <1>6
    <3> QED
      BY <3>1
  <2>2. Calls[i] = Free(2 * k - 2)
    BY <1>c, <2>1
  <2> QED
    BY <2>2 DEF Free
<1>7. CASE i = 9 + N + h
  <2>1. name = medium_addr
    BY <1>7, <1>d DEF Alloc
  <2>2. AllocPlace(name) = 9 + N + h /\ freed = 10 + 2 * N
    BY <1>g, <2>1
  <2>3. Calls[freed] = Free(name)
    BY <1>f, <2>1, <2>2
  <2> HIDE DEF name, freed
  <2> QED
    BY <1>1, <1>7, <2>2, <2>3
<1>8. CASE i \in (10 + N + h) .. (9 + N + h + h)
  <2>1. PICK k \in 1 .. h : 9 + N + h + k = i
    <3>1. i - 9 - N - h \in 1 .. h /\ 9 + N + h + (i - 9 - N - h) = i
      BY <1>1, <1>8
    <3> QED
      BY <3>1
  <2>2. Calls[i] = Free(2 * k - 1)
    BY <1>e, <2>1
  <2> QED
    BY <2>2 DEF Free
<1>9. CASE i = 10 + 2 * N
  BY <1>9, <1>f DEF Free
<1>10. \/ i \in {1, 2, 3, 7} \/ i \in {4, 5, 6, 8} \/ i \in 9 .. (8 + N)
       \/ i \in (9 + N) .. (8 + N + h) \/ i = 9 + N + h
       \/ i \in (10 + N + h) .. (9 + N + h + h) \/ i = 10 + 2 * N
  BY <1>1, <1>2
<1> QED
  BY <1>3, <1>4, <1>5, <1>6, <1>7, <1>8, <1>9, <1>10

(* A name that is allocated is live from then on, and was not before; one  *)
(* that is not freed stays live; at the end none is.                       *)
LEMMA LiveKept ==
  /\ \A i \in 1 .. Len(Calls) :
       /\ Calls[i].call = "alloc" =>
            /\ Calls[i].name \notin Live(i)
            /\ Live(i) \subseteq Live(i + 1) /\ Calls[i].name \in Live(i + 1)
       /\ Calls[i].call = "free" => Live(i) \ {Calls[i].name} \subseteq Live(i + 1)
  /\ Live(Len(Calls) + 1) = {}
<1>1. Len(Calls) \in Nat
  BY CallPlaces
<1>2. ASSUME NEW i \in 1 .. Len(Calls), NEW name \in Live(i), ~ FreedAt(i, name)
      PROVE  name \in Live(i + 1)
  <2>1. 1 .. (i + 1 - 1) = 1 .. (i - 1) \cup {i}
    BY <1>1
  <2> QED
    BY <1>2, <2>1 DEF Live
<1>3. ASSUME NEW i \in 1 .. Len(Calls), Calls[i].call = "alloc"
      PROVE  /\ Calls[i].name \notin Live(i)
             /\ Live(i) \subseteq Live(i + 1) /\ Calls[i].name \in Live(i + 1)
  <2> DEFINE mine == Calls[i].name
  <2>1. i = AllocPlace(mine) /\ AllocatedAt(i, mine) /\ mine \in Locals
    BY <1>3, AllocatedOnce, LiveStep DEF AllocatedAt
  <2>2. ASSUME NEW j \in 1 .. (i - 1)
        PROVE  ~ AllocatedAt(j, mine) /\ ~ FreedAt(j, mine)
    <3>1. CASE AllocatedAt(j, mine)
      <4>1. j \in 1 .. Len(Calls) /\ Calls[j].call = "alloc" /\ Calls[j].name = mine
        BY <3>1 DEF AllocatedAt
      <4> HIDE DEF mine
      <4>2. j = AllocPlace(mine)
        BY <4>1, AllocatedOnce
      <4> QED
        BY <1>1, <2>1, <4>2
    <3>2. CASE FreedAt(j, mine)
      <4>1. j \in 1 .. Len(Calls) /\ Calls[j].call = "free" /\ Calls[j].name = mine
        BY <3>2 DEF FreedAt
      <4> HIDE DEF mine
      <4>2. AllocPlace(mine) \in 1 .. (j - 1)
        BY <4>1, FreedOnce
      <4> QED
        BY <1>1, <2>1, <4>2
    <3> QED
      BY <3>1, <3>2
  <2>3. mine \notin Live(i)
    BY <2>2 DEF Live
  <2>4. ~ FreedAt(i, mine) /\ \A name : ~ FreedAt(i, name)
    BY <1>3 DEF FreedAt
  <2>5. Live(i) \subseteq Live(i + 1)
    BY <1>2, <2>4
  <2>6. 1 .. (i + 1 - 1) = 1 .. (i - 1) \cup {i}
    BY <1>1
  <2>7. mine \in Live(i + 1)
    BY <2>1, <2>2, <2>4, <2>6 DEF Live
  <2> QED
    BY <2>3, <2>5, <2>7
<1>4. ASSUME NEW i \in 1 .. Len(Calls), NEW name \in Live(i), name # Calls[i].name
      PROVE  name \in Live(i + 1)
  BY <1>2, <1>4 DEF FreedAt
<1>5. ASSUME NEW name \in Live(Len(Calls) + 1)
      PROVE  FALSE
  <2>1. 1 .. (Len(Calls) + 1 - 1) = 1 .. Len(Calls)
    BY <1>1
  <2>2. PICK j \in 1 .. Len(Calls) : AllocatedAt(j, name)
    BY <2>1 DEF Live
  <2>3. Calls[j].call = "alloc" /\ Calls[j].name = name
    BY <2>2 DEF AllocatedAt
  <2>4. FreedAt(FreePlace(name), name)
    BY <2>3, AllocatedOnce
  <2>5. FreePlace(name) \in 1 .. Len(Calls)
    BY <2>4 DEF FreedAt
  <2> QED
    BY <2>1, <2>4, <2>5 DEF Live
<1> QED
  BY <1>3, <1>4, <1>5

(* Each block that is held is known by a live name.                        *)
Known == \A block \in held : \E name \in Live(step) : local[name] = block.addr

LEMMA KnownNext ==
  ASSUME IInv, TestInv, Known, [TestNext]_testVars
  PROVE  Known'
<1>a. Len(Calls) \in Nat
  BY CallPlaces
<1>b. /\ step \in 1 .. (Len(Calls) + 1) /\ local \in [Locals -> Nat]
      /\ pc \in {"search", "split"} => ~ Done /\ Calls[step].call = "alloc"
  BY DEF TestInv
<1>1. CASE UNCHANGED <<step, local, held>>
  BY <1>1 DEF Known
<1>2. CASE Boot
  BY <1>1, <1>2 DEF Boot, InitCall
<1>3. CASE TestAlloc
  BY <1>1, <1>3 DEF TestAlloc, AllocCall
<1>4. CASE Returned
  <2>1. pc \in {"search", "split"} /\ step' = step + 1
    BY <1>4 DEF Returned, TakeBlock, SearchFailed
  <2>2. Calls[step].call = "alloc" /\ step \in 1 .. Len(Calls)
    BY <1>a, <1>b, <2>1 DEF Done
  <2> DEFINE mine == Calls[step].name
  <2>3. /\ mine \in Locals /\ mine \notin Live(step)
        /\ Live(step) \subseteq Live(step') /\ mine \in Live(step')
    BY <2>1, <2>2, LiveStep, LiveKept
  <2>4. \A name \in Live(step) : name \in Locals
    BY DEF Live
  <2>5. CASE SearchFailed
    <3>1. local' = [local EXCEPT ![mine] = 0] /\ held' = held
      BY <1>4, <2>5 DEF Returned, SearchFailed, TakeBlock
    <3> HIDE DEF mine
    <3>2. \A name \in Live(step) : local'[name] = local[name]
      BY <1>b, <2>3, <2>4, <3>1
    <3> QED
      BY <2>3, <3>1, <3>2 DEF Known
  <2>6. CASE TakeBlock
    <3> DEFINE value == Head(free_lists[level])
               taken == [addr |-> value, got |-> size[value], asked |-> request]
    <3>1. local' = [local EXCEPT ![mine] = value]
      BY <1>4, <2>6 DEF Returned, SearchFailed, TakeBlock
    <3>2. held' = held \cup {taken} /\ taken.addr = value
      BY <2>6 DEF TakeBlock
    <3> HIDE DEF mine, taken, value
    <3>3. local'[mine] = value /\ \A name \in Live(step) : local'[name] = local[name]
      BY <1>b, <2>3, <2>4, <3>1
    <3> QED
      BY <2>3, <3>2, <3>3 DEF Known
  <2> QED
    BY <1>4, <2>5, <2>6 DEF Returned
<1>5. CASE TestFree
  <2>1. ~ Done /\ Calls[step].call = "free" /\ step' = step + 1 /\ local' = local
    BY <1>5 DEF TestFree
  <2>2. step \in 1 .. Len(Calls)
    BY <1>a, <1>b, <2>1 DEF Done
  <2> DEFINE mine == Calls[step].name
  <2>3. Live(step) \ {mine} \subseteq Live(step')
    BY <2>1, <2>2, LiveKept
  <2>4. PICK freed \in held : freed.addr = local[mine] /\ held' = held \ {freed}
    BY <1>5 DEF TestFree, FreeCall
  <2> HIDE DEF mine
  <2>5. ASSUME NEW block \in held'
        PROVE  \E name \in Live(step') : local[name] = block.addr
    <3>1. block \in held /\ block.addr # freed.addr
      BY <2>4 DEF IInv, OneOwner
    <3>2. PICK name \in Live(step) : local[name] = block.addr
      BY <3>1 DEF Known
    <3> QED
      BY <2>3, <2>4, <3>1, <3>2
  <2> QED
    BY <2>1, <2>5 DEF Known
<1>6. CASE Running
  BY <1>1, <1>6 DEF Running, CreateBlock, InitDone, SearchFound, SplitBlock, MergeBuddy, InsertBlock
<1>7. CASE UNCHANGED testVars
  BY <1>1, <1>7 DEF testVars, vars
<1> QED
  BY <1>2, <1>3, <1>4, <1>5, <1>6, <1>7 DEF TestNext

(* When the self-test is done all it allocated is free again, but for the  *)
(* part of a page at the end of the pool, in pools of every size and for   *)
(* every number of blocks.                                                 *)
THEOREM TestGivesBack ==
  TestSpec => [](Done /\ pc = "idle" => held = {} /\ FreeBytes = pool_size - (pool_size % PAGE_SIZE))
<1> DEFINE Back == Done /\ pc = "idle" =>
                     held = {} /\ FreeBytes = pool_size - (pool_size % PAGE_SIZE)
<1>1. TestInit => Known
  BY DEF TestInit, Init, Known
<1>2. TestSpec => []Known
  BY <1>1, KnownNext, TestInvariance, PTL DEF TestSpec
<1>3. IInv /\ TestInv /\ Known /\ ReportExact => Back
  <2> SUFFICES ASSUME IInv, TestInv, Known, ReportExact, Done, pc = "idle"
               PROVE  held = {} /\ FreeBytes = pool_size - (pool_size % PAGE_SIZE)
    OBVIOUS
  <2>1. step = Len(Calls) + 1
    BY CallPlaces DEF TestInv, Done
  <2>2. held = {}
    BY <2>1, LiveKept DEF Known
  <2>3. HeldBytes = 0
    BY <2>2, HeldBytesType, FS_EmptySet DEF IInv
  <2>4. pool_size - FreeBytes = pool_size % PAGE_SIZE
    <3>1. pool_size % PAGE_SIZE \in Nat
      BY SizesAssumption, Division DEF IInv, TypeOK
    <3> QED
      BY <2>3, <3>1 DEF ReportExact
  <2>5. FreeBytes \in Nat /\ pool_size \in Nat /\ pool_size % PAGE_SIZE \in Nat
    <3>1. FreeBytes \in Nat
      BY BytesType DEF FreeBytes, BytesOn, IInv, TypeOK, Lists
    <3>2. pool_size \in Nat /\ pool_size % PAGE_SIZE \in Nat
      BY SizesAssumption, Division DEF IInv, TypeOK
    <3> QED
      BY <3>1, <3>2
  <2> QED
    BY <2>2, <2>4, <2>5
<1> HIDE DEF Back
<1>4. TestSpec => []Back
  BY <1>2, <1>3, TestInvariance, TestAllocates, ReportCorrect, PTL
<1> QED
  BY <1>4 DEF Back

-----------------------------------------------------------------------------
(* What is left of the self-test, in calls and returns of the allocator.   *)
Turns ==
  CASE pc = "off"                 -> 2 * (Len(Calls) + 1 - step) + 1
    [] pc \in {"search", "split"} -> 2 * (Len(Calls) + 1 - step) - 1
    [] OTHER                      -> 2 * (Len(Calls) + 1 - step)

LEMMA TurnsIs ==
  /\ pc = "off" => Turns = 2 * (Len(Calls) + 1 - step) + 1
  /\ pc \in {"search", "split"} => Turns = 2 * (Len(Calls) + 1 - step) - 1
  /\ pc \in {"init", "idle", "merge"} => Turns = 2 * (Len(Calls) + 1 - step)
BY DEF Turns

LEMMA TurnsType ==
  ASSUME IInv, TestInv
  PROVE  Turns \in Nat
<1>1. /\ pc \in {"off", "init", "idle", "search", "split", "merge"}
      /\ step \in 1 .. (Len(Calls) + 1) /\ Len(Calls) \in Nat
  BY CallPlaces DEF IInv, TypeOK, TestInv
<1>2. pc \in {"search", "split"} => step <= Len(Calls)
  BY <1>1 DEF TestInv, Done
<1> QED
  BY <1>1, <1>2, TurnsIs

LEMMA TestGoesOn ==
  ASSUME IInv, IInv', TestInv, TestNext
  PROVE  Turns' < Turns \/ (Turns' = Turns /\ Left' < Left)
<1>1. step \in 1 .. (Len(Calls) + 1) /\ Len(Calls) \in Nat
  BY CallPlaces DEF TestInv
<1>2. /\ pc' \in {"search", "split"} => Turns' = 2 * (Len(Calls) + 1 - step') - 1
      /\ pc' \in {"init", "idle", "merge"} => Turns' = 2 * (Len(Calls) + 1 - step')
  BY DEF Turns
<1>3. CASE Boot
  <2>1. pc = "off" /\ pc' = "init" /\ step' = step
    BY <1>3 DEF Boot, InitCall
  <2> QED
    BY <1>1, <1>2, <2>1, TurnsIs
<1>4. CASE TestAlloc
  <2>1. pc = "idle" /\ pc' = "search" /\ step' = step
    BY <1>4 DEF TestAlloc, AllocCall
  <2> QED
    BY <1>1, <1>2, <2>1, TurnsIs
<1>5. CASE Returned
  <2>1. pc \in {"search", "split"} /\ pc' = "idle" /\ step' = step + 1
    BY <1>5 DEF Returned, TakeBlock, SearchFailed, Return
  <2> QED
    BY <1>1, <1>2, <2>1, TurnsIs
<1>6. CASE TestFree
  <2>1. pc = "idle" /\ pc' = "merge" /\ step' = step + 1
    BY <1>6 DEF TestFree, FreeCall
  <2> QED
    BY <1>1, <1>2, <2>1, TurnsIs
<1>7. CASE Running
  <2>1. Left' < Left /\ step' = step
    BY <1>7, LeftFalls DEF Running, Internal
  <2>2. \/ pc \in {"search", "split"} /\ pc' \in {"search", "split"}
        \/ pc \in {"init", "idle", "merge"} /\ pc' \in {"init", "idle", "merge"}
    BY <1>7 DEF Running, CreateBlock, InitDone, SearchFound, SplitBlock, MergeBuddy, InsertBlock, Return
  <2> QED
    BY <1>1, <1>2, <2>1, <2>2, TurnsIs
<1> QED
  BY <1>3, <1>4, <1>5, <1>6, <1>7 DEF TestNext

(* The self-test does not go on for ever: each of its steps leaves fewer   *)
(* calls and returns, or as many and less of the call that runs.  That it  *)
(* is not stuck before the last is left to the run.                        *)
THEOREM TestAdvances ==
  TestSpec => /\ [](Turns \in Nat /\ Left \in Nat)
              /\ [][Turns' < Turns \/ (Turns' = Turns /\ Left' < Left)]_testVars
<1>1. IInv /\ TestInv => Turns \in Nat /\ Left \in Nat
  BY TurnsType, LeftType
<1>2. IInv /\ IInv' /\ TestInv /\ [TestNext]_testVars =>
        [Turns' < Turns \/ (Turns' = Turns /\ Left' < Left)]_testVars
  BY TestGoesOn
<1> QED
  BY <1>1, <1>2, TestInvariance, PTL DEF TestSpec
=============================================================================
