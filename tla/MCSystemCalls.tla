--------------------------- MODULE MCSystemCalls ---------------------------
(* A small instance of SystemCalls, and of InterruptEntry in it.           *)
EXTENDS SystemCalls

(* Every exception that the kernel may raise.                              *)
Exceptions == (0 .. 31) \ {21, 29, 30}

(* The NMI, a double fault and a page fault.                               *)
Inside == {2, 8, 14}

InPassing == {2, 14}

Tops == {60, 61}

Calls == {0, 15}

Lengths == {0, 20}

(* The arguments where they came in, or where a call has them kept.        *)
Pairs ==
  {[function |-> "rdi", stack |-> "rsi"], [function |-> "rax", stack |-> "rdx"],
   [function |-> "rsi", stack |-> "rbx"]}

(* In one of these the low half of the stub's stack pointer is the number  *)
(* of a system call.                                                       *)
UserTops == {2^29 + 16, 61}

AllWords == (8 .. 63) \cup ((2^29 - 36) .. (2^29 + 19))

AnyRegister == {"rax", "rcx", "rbx", "r10"}

Built == {0, 2}
=============================================================================
