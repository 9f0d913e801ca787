---------------------------- MODULE StackMachine ----------------------------
(***************************************************************************)
(* As much of the processor as the entry stubs of the kernel use: its      *)
(* registers and the words of a stack that grows down.  Addresses count    *)
(* words of eight bytes.                                                   *)
(***************************************************************************)
EXTENDS Integers, SequencesExt

General ==
  <<"rax", "rbx", "rcx", "rdx", "rsi", "rdi", "rbp", "r8", "r9",
    "r10", "r11", "r12", "r13", "r14", "r15">>

Registers == ToSet(General) \cup {"rsp", "rip", "rflags", "cs", "ss"}

(* What a C function need not keep.                                        *)
CallerSaved == {"rax", "rcx", "rdx", "rsi", "rdi", "r8", "r9", "r10", "r11"}

(* A machine is a record: regs, the values of the registers, and mem, the  *)
(* values of the words.                                                    *)
Set(m, reg, value) == [m EXCEPT !.regs[reg] = value]

PushValue(m, value) ==
  LET sp == m.regs["rsp"] - 1
  IN  [m EXCEPT !.regs["rsp"] = sp, !.mem[sp] = value]

(* What an exception or interrupt pushes before an error code.             *)
PushState(m, regs) ==
  PushValue(PushValue(PushValue(PushValue(PushValue(m,
    regs["ss"]), regs["rsp"]), regs["rflags"]), regs["cs"]), regs["rip"])

(* The stack pointer moves before the register is written: a pop of rsp    *)
(* leaves it at what was popped.                                           *)
PopRegister(m, reg) ==
  Set(Set(m, "rsp", m.regs["rsp"] + 1), reg, m.mem[m.regs["rsp"]])

Word(m, offset) == m.mem[m.regs["rsp"] + offset]

(* The instructions of the stubs, but for calls and returns.               *)
Push(reg)            == [op |-> "push", reg |-> reg]
PushConstant(value)  == [op |-> "pushConstant", value |-> value]
Pop(reg)             == [op |-> "pop", reg |-> reg]
Move(reg, from)      == [op |-> "move", reg |-> reg, from |-> from]
MoveConstant(reg, value) == [op |-> "moveConstant", reg |-> reg, value |-> value]
Load(reg, offset)    == [op |-> "load", reg |-> reg, offset |-> offset]
Call                 == [op |-> "call"]
Sysretq              == [op |-> "sysretq"]

Pushes(regs) == [i \in DOMAIN regs |-> Push(regs[i])]

Pops(regs) == [i \in DOMAIN regs |-> Pop(regs[i])]

Execute(m, instruction) ==
  CASE instruction.op = "push"         -> PushValue(m, m.regs[instruction.reg])
    [] instruction.op = "pushConstant" -> PushValue(m, instruction.value)
    [] instruction.op = "pop"          -> PopRegister(m, instruction.reg)
    [] instruction.op = "move"         -> Set(m, instruction.reg, m.regs[instruction.from])
    [] instruction.op = "moveConstant" -> Set(m, instruction.reg, instruction.value)
    [] instruction.op = "load"         -> Set(m, instruction.reg, Word(m, instruction.offset))

Plain(instruction) ==
  instruction.op \in {"push", "pushConstant", "pop", "move", "moveConstant", "load"}

(* The selectors of kernel and user, as the processor sets them on the way *)
(* in and on the way out (see Boot).  The ring is in their last two bits.  *)
InRing0(m) == Set(Set(m, "cs", 8), "ss", 16)

InRing3(m) == Set(Set(m, "cs", 35), "ss", 27)

Ring(m) == m.regs["cs"] % 4
=============================================================================
