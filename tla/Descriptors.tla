---------------------------- MODULE Descriptors ----------------------------
(***************************************************************************)
(* Segment and gate descriptors: how gdt.c and idt.c put them together,    *)
(* and how the processor takes them apart.  A number of 32 or 64 bits is a *)
(* sequence of its pieces of 16 bits, the lowest first.                    *)
(***************************************************************************)
EXTENDS Integers, Sequences

SEGMENT_BASE == <<0, 0>>
SEGMENT_LIMIT == <<65535, 15>>

ACCESS_KERNEL_CODE == 154
ACCESS_KERNEL_DATA == 146
ACCESS_USER_CODE == 250
ACCESS_USER_DATA == 242
ACCESS_TSS == 137

FLAG_GRANULARITY_4KB == 12
FLAG_GRANULARITY_BYTE == 10

gdt_create_segment_descriptor(base, limit, access, flags) ==
  [limit_low |-> limit[1], base_low |-> base[1], base_middle |-> base[2] % 256,
   access |-> access, limit_high_flags |-> (limit[2] % 16) + (flags % 16) * 16,
   base_high |-> base[2] \div 256]

(* The descriptor of a task state takes two places: the second holds the   *)
(* upper half of the base.                                                 *)
TssLower(base, limit) == gdt_create_segment_descriptor(base, limit, ACCESS_TSS, 0)

TssUpper_null(base) ==    \* mutant: the upper half is left out
  [limit_low |-> 0, base_low |-> 0, base_middle |-> 0,
   access |-> 0, limit_high_flags |-> 0, base_high |-> 0]
TssUpper(base) ==
  [limit_low |-> base[3], base_low |-> base[4], base_middle |-> 0,
   access |-> 0, limit_high_flags |-> 0, base_high |-> 0]

(* sizeof(TssSegmentDescriptor) - 1, without padding.                      *)
TssLimit == <<4 + (3 * 8) + 8 + (7 * 8) + 8 + 2 + 2 - 1, 0>>

idt_segment_create(offset, selector, type_attr, ist) ==
  [offset_low |-> offset[1], selector |-> selector, ist |-> ist,
   type_attributes |-> type_attr, offset_middle |-> offset[2],
   offset_high |-> <<offset[3], offset[4]>>, must_be_zero |-> 0]

-----------------------------------------------------------------------------
(* The processor.  Access: present (bit 7), ring (5 and 6), code or data   *)
(* and not system (4), code (3), writable (1).  Flags: bit 3 counts the    *)
(* limit in pages, bit 2 is for 32 bits, and bit 1 for 64.  A task state   *)
(* is available (9) or busy (11).                                          *)
BitOf(value, n) == (value \div 2^n) % 2

FlagsOf(d) == d.limit_high_flags \div 16

RingOf(d) == (d.access \div 32) % 4

KindOf(d) ==
  IF BitOf(d.access, 7) = 0 THEN "none"
  ELSE IF BitOf(d.access, 4) = 0 THEN IF d.access % 16 \in {9, 11} THEN "tss" ELSE "none"
  ELSE IF BitOf(d.access, 3) = 1
       THEN IF BitOf(FlagsOf(d), 1) = 1 /\ BitOf(FlagsOf(d), 2) = 0 THEN "code" ELSE "none"
  ELSE IF BitOf(d.access, 1) = 1 THEN "data" ELSE "none"

TssBase(lower, upper) ==
  <<lower.base_low, (lower.base_high * 256) + lower.base_middle, upper.limit_low, upper.base_low>>

(* A selector: the descriptor's place, and a ring.                         *)
IndexOf(selector) == selector \div 8

RingAsked(selector) == selector % 4

(* A gate that is present and one for interrupts, from ring 0.             *)
IsInterruptGate(gate) == gate.type_attributes = 142 /\ gate.ist = 0

TargetOf(gate) ==
  <<gate.offset_low, gate.offset_middle, gate.offset_high[1], gate.offset_high[2]>>
=============================================================================
