---------------------------- MODULE MCBuddyTest ----------------------------
(* BuddyTest with the kernel's MAX_ORDER, sizes and addresses in pages.    *)
EXTENDS BuddyTest

(* Below the BIOS of a PC: pages 1 to 158, in a direct map on a boundary   *)
(* of the largest block; a pool on such a boundary; and one of fewer pages *)
(* than the large block the test asks for.                                 *)
KernelPools ==
  {[start |-> 2049, bytes |-> 158], [start |-> 2048, bytes |-> 96],
   [start |-> 2048, bytes |-> 31]}

TestSizes == {1, 2, 4, 8, 32}
=============================================================================
