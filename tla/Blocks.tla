------------------------------- MODULE Blocks -------------------------------
(***************************************************************************)
(* Blocks of memory, and what it is for a set of them to cut a range of    *)
(* addresses into pieces, with nothing left over and nothing shared.       *)
(***************************************************************************)
EXTENDS Integers

(* A block is an address and a length.                                     *)
Tile(addr, bytes) == [addr |-> addr, got |-> bytes]

Apart(s, t) == s.addr + s.got <= t.addr \/ t.addr + t.got <= s.addr

Block == [addr : Nat, got : Nat \ {0}]

(* The blocks of T cut the addresses lo .. hi-1 into pieces.               *)
PairwiseApart(T) == \A s, t \in T : s = t \/ Apart(s, t)

Within(T, lo, hi) == \A t \in T : lo <= t.addr /\ t.addr + t.got <= hi

Covers(T, lo, hi) ==
  \A x \in lo .. (hi - 1) : \E t \in T : t.addr <= x /\ x < t.addr + t.got

Tiling(T, lo, hi) ==
  T \subseteq Block /\ PairwiseApart(T) /\ Within(T, lo, hi) /\ Covers(T, lo, hi)
=============================================================================
