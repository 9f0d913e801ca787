--------------------------- MODULE InterruptEntry ---------------------------
(***************************************************************************)
(* From an exception to the registers that its panic prints: what the      *)
(* processor pushes, the stubs of interrupts.asm, and the InterruptFrame   *)
(* that isr_handler gets.  isr_handler panics for every number and a panic *)
(* does not return, so what follows the call in the stub is not reached.   *)
(* Other exceptions may come between any two instructions of the stub, and *)
(* in the panic.                                                           *)
(***************************************************************************)
EXTENDS StackMachine

CONSTANTS
  Raised,          \* exceptions the kernel's code raises
  RaisedInside,    \* exceptions in a stub or a panic
  MaxNested,       \* bound: how many of them
  StackPointers,   \* where the stack is then
  KernelStack,     \* what gdt_initialize was given for rsp[0] of the task state
  Words            \* addresses of the stack

(* 21, 29 and 30 come from features of the processor that the kernel never *)
(* turns on; they have error codes that its stubs do not expect.           *)
ASSUME EntryAssumption ==
  /\ Raised \cup RaisedInside \subseteq (0 .. 31) \ {21, 29, 30} /\ MaxNested \in Nat
  /\ StackPointers \cup {KernelStack} \subseteq Int /\ Words \subseteq Int
  /\ \A sp \in StackPointers \cup {KernelStack} : (sp - 25 * (MaxNested + 1)) .. (sp - 1) \subseteq Words

VARIABLES
  machine,
  at,       \* the next instruction of the stub; 0 in the kernel's code
  vector,   \* the last exception
  before,   \* history: the machine when it came
  nested,   \* history: exceptions in a stub or a panic
  report    \* the frame and number that a panic prints, in a sequence

entryVars == <<machine, at, vector, before, nested, report>>

(* The exceptions for which the processor pushes an error code.            *)
HasErrorCode == {8, 10, 11, 12, 13, 14, 17, 21, 29, 30}

ErrorCode == 77

-----------------------------------------------------------------------------
(* ISR_ERRCODE and ISR_NOERRCODE, with the common part they jump to.       *)
WithErrorCode == {8, 10, 11, 12, 13, 14, 17}

Prologue_bare(number) == <<PushConstant(number)>>    \* mutant: no dummy error code
Prologue(number) ==
  IF number \in WithErrorCode THEN <<PushConstant(number)>>
  ELSE <<PushConstant(0), PushConstant(number)>>

isr_common_stub_swapped ==    \* mutant: two registers in the other order
  Pushes(<<"rax", "rbx", "rcx", "rdx", "rsi", "rdi", "rbp", "r8", "r9",
           "r10", "r11", "r12", "r13", "r15", "r14">>)
  \o <<Move("rdi", "rsp"), Load("rsi", 15), Call>>
isr_common_stub ==
  Pushes(General) \o <<Move("rdi", "rsp"), Load("rsi", 15), Call>>

Stub(number) == Prologue(number) \o isr_common_stub

(* The fields of InterruptFrame, by offset.                                *)
InterruptFrame ==
  Reverse(General)
  \o <<"interrupt_number", "error_code", "rip", "cs", "rflags", "rsp", "ss">>

(* The frame that a pointer points to.                                     *)
Frame(m, pointer) ==
  [field \in ToSet(InterruptFrame) |->
     m.mem[pointer + (CHOOSE i \in DOMAIN InterruptFrame : InterruptFrame[i] = field) - 1]]

-----------------------------------------------------------------------------
(* Registers hold different values, so that none passes for another.       *)
InterruptedMachine(sp) ==
  [regs |-> [reg \in Registers |->
     CASE reg = "rsp" -> sp
       [] reg \in ToSet(General) -> 100 + (CHOOSE i \in DOMAIN General : General[i] = reg)
       [] reg = "rip" -> 200 [] reg = "cs" -> 8 [] reg = "ss" -> 16
       [] reg = "rflags" -> 201],
   mem |-> [word \in Words |-> 0]]

EntryFrom(interrupted) ==
  machine = interrupted /\ at = 0 /\ vector = 0 /\ before = machine /\ nested = 0 /\ report = <<>>

EntryInit == \E sp \in StackPointers : EntryFrom(InterruptedMachine(sp))

(* Out of a user's code the processor takes the stack from the task state. *)
(* It aligns the stack to 16 bytes and pushes what it needs to return; the *)
(* kernel's code segment is set, and interrupts are off from here on.      *)
Exception(number) ==
  LET stack   == IF Ring(machine) = 3 THEN KernelStack ELSE machine.regs["rsp"]
      aligned == Set(machine, "rsp", (stack \div 2) * 2)
      framed  == PushState(aligned, machine.regs)
      pushed  == IF Ring(machine) = 3 THEN InRing0(framed) ELSE framed
  IN
  /\ \/ at = 0 /\ number \in Raised /\ nested' = 0
     \/ at # 0 /\ number \in RaisedInside /\ nested < MaxNested /\ nested' = nested + 1
  /\ machine' = IF number \in HasErrorCode THEN PushValue(pushed, ErrorCode) ELSE pushed
  /\ at' = 1
  /\ vector' = number
  /\ before' = machine
  /\ report' = <<>>

EntryStep ==
  /\ at \in DOMAIN Stub(vector) /\ Plain(Stub(vector)[at])
  /\ machine' = Execute(machine, Stub(vector)[at])
  /\ at' = at + 1
  /\ UNCHANGED <<vector, before, nested, report>>

(* The call: kernel_panic, or kernel_panic_detailed for a page fault, with *)
(* the frame and a message that goes by the number.                        *)
isr_handler ==
  /\ at \in DOMAIN Stub(vector) /\ Stub(vector)[at] = Call
  /\ machine' = PushValue(machine, 0)
  /\ at' = at + 1
  /\ report' = <<[frame |-> Frame(machine, machine.regs["rdi"]),
                  number |-> machine.regs["rsi"]]>>
  /\ UNCHANGED <<vector, before, nested>>

EntryNext ==
  \/ EntryStep \/ isr_handler
  \/ \E number \in Raised \cup RaisedInside : Exception(number)

-----------------------------------------------------------------------------
(* A panic prints the state of the interrupted code, each register at its  *)
(* name, with the number of the exception and its error code, or 0.        *)
FrameFaithful ==
  report # <<>> =>
    LET printed == report[1] IN
    /\ \A reg \in Registers : printed.frame[reg] = before.regs[reg]
    /\ printed.number = vector /\ printed.frame.interrupt_number = vector
    /\ printed.frame.error_code = IF vector \in HasErrorCode THEN ErrorCode ELSE 0

(* Wherever the stack was when the exception came, and whether there is an *)
(* error code or not, the stack pointer was a multiple of 16 bytes when    *)
(* the C function was called, as its calling convention demands.           *)
StackAligned == report # <<>> => machine.regs["rsp"] % 2 = 1
=============================================================================
