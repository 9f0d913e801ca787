---------------------------- MODULE SystemCalls ----------------------------
(***************************************************************************)
(* The ways between the kernel and a user's code: jump_to_usermode of      *)
(* src/kernel/core/process.c, the dispatcher of system calls in syscalls.c *)
(* and syscall_entry, the stub between the caller's syscall instruction    *)
(* and the dispatcher.  Interrupts are off in the stub (SFMASK).           *)
(* Exceptions may come between any two instructions, in the user's code as *)
(* well, and go through InterruptEntry on the same machine.                *)
(***************************************************************************)
EXTENDS InterruptEntry

CONSTANTS
  RaisedInPassing,   \* exceptions on the way, and in a user's code
  Numbers,           \* what callers put into rax
  Counts,            \* third arguments
  UserStack,         \* where their stack pointer may be
  OperandRegisters,  \* where the compiler may put the operand of the stub
  FrameWords,        \* words get_kernel_stack_ptr may have below its caller
  JumpOperands       \* pairs of registers for the operands of jump_to_usermode

ASSUME SystemCallsAssumption ==
  /\ RaisedInPassing \subseteq Raised
  /\ Numbers \subseteq Nat /\ Counts \subseteq Nat
  /\ Words \subseteq Nat
  /\ OperandRegisters \subseteq ToSet(General)
  /\ FrameWords \subseteq Nat
  \* Room for what the stub saves, an exception in it, and two words above.
  /\ \A sp \in UserStack, words \in FrameWords : (sp - words - 41) .. (sp + 1) \subseteq Words
  /\ UserStack \subseteq Int
  \* rcx and r11 are named as overwritten.
  /\ \A pair \in JumpOperands : {pair.function, pair.stack} \subseteq ToSet(General) \ {"rcx", "r11"}

-----------------------------------------------------------------------------
(* The dispatcher.  An error is a number below zero.                       *)
SYSCALL_READ == 0
SYSCALL_WRITE == 1
SYSCALL_COUNT == 2
SYSCALL_SUCCESS == 0
SYSCALL_ERROR_INVALID_SYSCALL == -1
SYSCALL_ERROR_INVALID_ARGS == -2

SystemCallReturn(value, error) == [value |-> value, error |-> error]

(* Of the three types of arguments only ARG_SIZE excludes anything.        *)
syscall_validate_args(args, types) ==
  \A i \in DOMAIN types : types[i] = "ARG_SIZE" => args[i] > 0

(* syscall_read and syscall_write do the same so far.                      *)
transfer(args) ==
  IF syscall_validate_args(args, <<"ARG_INT", "ARG_PTR", "ARG_SIZE">>)
  THEN SystemCallReturn(args[3], SYSCALL_SUCCESS)
  ELSE SystemCallReturn(0, SYSCALL_ERROR_INVALID_ARGS)

syscall_handler(syscall_number, args) ==
  IF syscall_number >= SYSCALL_COUNT
  THEN SystemCallReturn(0, SYSCALL_ERROR_INVALID_SYSCALL)
  ELSE transfer(args)

-----------------------------------------------------------------------------
VARIABLES
  running,   \* what an exception interrupts: "kernel", "jump" (jump_to_usermode),
             \* "user", "caller" or "stub"
  next,      \* the next instruction of the stub, or of the jump
  operand,   \* the register of the stub's operand
  jump,      \* the registers of the operands of the jump
  frame,     \* the words below, in this build
  caller,    \* history: the machine at the syscall instruction
  handed     \* history: the number given to the dispatcher, in a sequence

chosen == <<operand, jump, frame>>
stubVars == <<running, next, chosen, caller, handed>>
vars == <<entryVars, stubVars>>

Saved ==
  <<"rax", "rdi", "rsi", "rdx", "r10", "r8", "r9", "rbx", "rbp", "r12", "r13", "r14", "r15">>

(* The operand is the result of get_kernel_stack_ptr, computed before the  *)
(* first instruction of the stub.                                          *)
syscall_entry_swapped(reg) ==    \* mutant: rbp and rbx are restored in the order they were saved
  <<Move("r10", "rsp"), Move("rsp", reg), Push("r11"), Push("rcx"), Push("r10")>>
  \o Pushes(Saved) \o <<Move("rdi", "rsp"), Call>>
  \o Pops(<<"r15", "r14", "r13", "r12", "rbx", "rbp", "r9", "r8", "r10", "rdx", "rsi", "rdi", "rax">>)
  \o Pops(<<"rsp", "rcx", "r11">>) \o <<Sysretq>>
syscall_entry(reg) ==
  <<Move("r10", "rsp"), Move("rsp", reg), Push("r11"), Push("rcx"), Push("r10")>>
  \o Pushes(Saved) \o <<Move("rdi", "rsp"), Call>> \o Pops(Reverse(Saved))
  \o Pops(<<"rsp", "rcx", "r11">>) \o <<Sysretq>>

jump_to_usermode_swapped(pair) ==    \* mutant: the operands are exchanged
  <<Move("rcx", pair.stack), Move("rsp", pair.function), MoveConstant("r11", 514), Sysretq>>
jump_to_usermode(pair) ==
  <<Move("rcx", pair.function), Move("rsp", pair.stack), MoveConstant("r11", 514), Sysretq>>

instruction == IF running = "jump" THEN jump_to_usermode(jump)[next] ELSE syscall_entry(operand)[next]

(* The instruction behind the caller's syscall instruction, the first one  *)
(* of the user's code, and what is in a word or a register nobody has      *)
(* written to.                                                             *)
Behind == 500
Entry == 501
Left(word) == 1000 + word
Junk == 2000

(* A machine about to make a system call.                                  *)
CallerMachine(sp, number, count) ==
  InRing3([InterruptedMachine(sp) EXCEPT !.regs["rax"] = number, !.regs["rdx"] = count,
                                         !.regs["rip"] = Behind,
                                         !.mem = [word \in Words |-> Left(word)]])

(* A machine about to enter a user's code.                                 *)
JumpMachine(sp, pair, stack) ==
  [InterruptedMachine(sp) EXCEPT !.regs[pair.function] = Entry, !.regs[pair.stack] = stack]

AnyOf(S) == CHOOSE x \in S : TRUE

(* The kernel's own code runs, or enters a user's, or a user's is about to *)
(* make a system call.  A choice that plays no part then is fixed.         *)
Init ==
  /\ jump \in JumpOperands /\ operand \in OperandRegisters /\ frame \in FrameWords
  /\ \/ running = "kernel" /\ EntryInit
     \/ /\ running = "caller"
        /\ \E sp \in UserStack, number \in Numbers, count \in Counts :
             EntryFrom(CallerMachine(sp, number, count))
     \/ /\ running = "jump"
        /\ \E sp \in StackPointers, stack \in UserStack : EntryFrom(JumpMachine(sp, jump, stack))
  /\ running # "jump" => jump = AnyOf(JumpOperands)
  /\ running # "caller" => operand = AnyOf(OperandRegisters) /\ frame = AnyOf(FrameWords)
  /\ next = 1 /\ caller = machine /\ handed = <<>>

(* The syscall instruction keeps the address to return to and the flags in *)
(* registers, and leaves the stack pointer as it is.  Then the operand: if *)
(* get_kernel_stack_ptr is inlined, its register gets the stack pointer,   *)
(* and otherwise the stack pointer within that function, by way of rax.    *)
Syscall ==
  LET entered == InRing0(Set(Set(machine, "rcx", Behind), "r11", machine.regs["rflags"]))
      sp      == machine.regs["rsp"] - frame
      called  == IF frame = 0 THEN entered
                 ELSE [Set(entered, "rax", sp) EXCEPT
                         !.mem = [word \in Words |->
                           IF word >= sp /\ word < sp + frame THEN Junk ELSE @[word]]]
  IN
  /\ running \in {"user", "caller"} /\ handed = <<>>
  /\ running' = "stub" /\ next' = 1
  /\ caller' = machine
  /\ machine' = Set(called, operand, sp)
  /\ UNCHANGED <<chosen, handed>>

Step ==
  /\ running \in {"stub", "jump"} /\ Plain(instruction)
  /\ machine' = Execute(machine, instruction)
  /\ next' = next + 1
  /\ UNCHANGED <<running, chosen, caller, handed>>

(* The call of the dispatcher.  Its first argument is the low half of rdi, *)
(* its second rsi, which the stub has not set: what it points to may be    *)
(* anything.  The result is in rax and rdx; the other registers that a     *)
(* function need not keep and the words below the stack are left anyhow.   *)
(* (The half is in units of four bytes here, not one, to stay in the range *)
(* of TLC: either way it is 0, or no system call has that number.)         *)
CallHandler ==
  LET number == (machine.regs["rdi"] % 2^29) * 2
      results == {syscall_handler(number, <<0, 0, count>>) : count \in Counts}
  IN
  /\ running = "stub" /\ instruction = Call
  /\ \E r \in results :
       machine' =
         [regs |-> [reg \in Registers |->
                      IF reg = "rax" THEN r.value ELSE IF reg = "rdx" THEN r.error
                      ELSE IF reg \in CallerSaved THEN Junk ELSE machine.regs[reg]],
          mem |-> [word \in Words |->
                     IF word < machine.regs["rsp"] THEN Junk ELSE machine.mem[word]]]
  /\ handed' = <<number>>
  /\ next' = next + 1
  /\ UNCHANGED <<running, chosen, caller>>

(* In a user's code, at the address in rcx.                                *)
Return ==
  /\ running \in {"stub", "jump"} /\ instruction = Sysretq
  /\ machine' = InRing3(Set(Set(machine, "rip", machine.regs["rcx"]), "rflags", machine.regs["r11"]))
  /\ running' = IF running = "jump" THEN "user" ELSE "caller"
  /\ UNCHANGED <<next, chosen, caller, handed>>

(* Of exceptions outside of the kernel's own code there is one, a bound.   *)
Interrupt ==
  /\ \/ running = "kernel" /\ EntryNext
     \/ running # "kernel" /\ (EntryStep \/ isr_handler)
     \/ running # "kernel" /\ at = 0 /\ \E number \in RaisedInPassing : Exception(number)
  /\ UNCHANGED stubVars

Next ==
  \/ /\ at = 0 /\ UNCHANGED <<at, vector, before, nested, report>>
     /\ Syscall \/ Step \/ CallHandler \/ Return
  \/ Interrupt

Spec == Init /\ [][Next]_vars

-----------------------------------------------------------------------------
Returned == running = "caller" /\ handed # <<>> /\ at = 0

(* The registers that the stub saves and that are not for the result are   *)
(* again what they were at the syscall instruction, whatever the           *)
(* dispatcher did to them; but for r10 and what the compiler computed the  *)
(* operand in, which are overwritten before they are saved.  Nothing is    *)
(* asked of rax and rdx: a system call returns a value and an error in     *)
(* them (syscalls.h:51, :90), which the stub's pops put an end to.         *)
RegistersKept ==
  Returned =>
    \A reg \in ToSet(Saved) \ {"rax", "rdx", "r10", operand} :
      machine.regs[reg] = caller.regs[reg]

(* jump_to_usermode starts the user's code at the function and with the    *)
(* stack it was called with, in ring 3, interrupts on and no other flag    *)
(* set, wherever the compiler has put its arguments.                       *)
EntersUser ==
  running = "user" /\ at = 0 =>
    /\ machine.regs["rip"] = caller.regs[jump.function]
    /\ machine.regs["rsp"] = caller.regs[jump.stack]
    /\ machine.regs["rflags"] = 2^9 + 2 /\ Ring(machine) = 3

(* "Restore user rsp", "Restore user rip into rcx" and "Return to user     *)
(* mode" (syscalls.c:234-237): the caller goes on behind its syscall       *)
(* instruction, with its stack.                                            *)
ReturnsToCaller ==
  Returned => machine.regs["rip"] = Behind /\ machine.regs["rsp"] = caller.regs["rsp"]
=============================================================================
