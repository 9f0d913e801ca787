------------------------------- MODULE MCPmm -------------------------------
(* Small instances of Pmm.  Pages are two bytes, the largest block four    *)
(* pages, and the direct map starts at 64.                                 *)
EXTENDS Pmm

Entry(base, length, type) == [base |-> base, length |-> length, type |-> type]

(* A PC's map: usable memory from the second page up to the BIOS, a hole,  *)
(* the kernel, and more usable memory above it.                            *)
PCMap ==
  <<Entry(2, 16, "usable"), Entry(18, 2, "reserved"), Entry(20, 6, "kernel"),
    Entry(26, 16, "usable"), Entry(42, 4, "framebuffer")>>

(* Nothing usable below the kernel; then usable memory from a boundary of  *)
(* the largest block, with a block of each order and half a page.          *)
HighMap ==
  <<Entry(0, 8, "reserved"), Entry(8, 4, "kernel"), Entry(16, 15, "usable"),
    Entry(31, 2, "acpi"), Entry(40, 8, "usable")>>

(* Too little for the largest block.                                       *)
SmallMap == <<Entry(8, 6, "usable"), Entry(16, 4, "kernel")>>

NothingUsable == <<Entry(0, 8, "reserved"), Entry(8, 4, "kernel")>>

Maps == {PCMap, HighMap, SmallMap, NothingUsable}

HigherHalf == {64}

MapPools == {PoolOf(map, offset) : map \in Maps, offset \in HigherHalf}

(* Nothing, a page and a half, the largest block, and more than that.      *)
Sizes == {0, 3, 8, 9}
=============================================================================
