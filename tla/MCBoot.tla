------------------------------- MODULE MCBoot -------------------------------
(* Small instances of Boot: a division by zero, the NMI, a double fault, a *)
(* general protection fault and a page fault.                              *)
EXTENDS Boot

SomeVectors == {0, 2, 8, 13, 14}

(* A kernel is linked to the top two gigabytes.                            *)
DefaultAt == <<4624, 32770, 65535, 65535>>

StubsAt == [v \in SomeVectors |-> <<20480 + (16 * v), 32771, 65535, 65535>>]

TssAt == <<8256, 33027, 65535, 65535>>
=============================================================================
