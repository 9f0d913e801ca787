-------------------------------- MODULE Boot --------------------------------
(***************************************************************************)
(* The boot sequence: _start of kernel.c and what it calls to set up the   *)
(* serial port, the descriptor tables, the exceptions and the system       *)
(* calls.  What it logs goes through the driver of Serial.  An exception   *)
(* may come at any point, in the driver as well, and meets the handler     *)
(* whose address the table decodes to then.                                *)
(***************************************************************************)
EXTENDS Serial, Descriptors, FiniteSets

CONSTANTS
  Vectors,         \* exceptions considered
  MaxExceptions,   \* bound
  MaxUngiven,      \* bound: answers that are not as they should be
  DefaultHandler,  \* where the linker put default_interrupt_handler,
  IsrStubs,        \* the stub of each exception,
  TssAddress       \* and tss

Levels == {"INFO", "DEBUG", "FATAL"}

Addresses == [1 .. 4 -> 0 .. (2^16 - 1)]

Nowhere == <<0, 0, 0, 0>>

ASSUME BootAssumption ==
  /\ Vectors \subseteq 0 .. 31 /\ MaxExceptions \in Nat /\ MaxUngiven \in Nat
  /\ MaxExceptions < MaxNested /\ Levels \subseteq Characters
  /\ DefaultHandler \in Addresses \ {Nowhere} /\ TssAddress \in Addresses
  /\ \A v \in Vectors : IsrStubs[v] \in Addresses \ {DefaultHandler, Nowhere}

(* The questions to the bootloader whose answers _start looks at.          *)
Checked == <<"revision", "framebuffer", "memory_map", "kernel_address", "kernel_file", "hhdm">>

Requests == {Checked[i] : i \in DOMAIN Checked} \cup {"modules"}

(* An answer may be missing, or have nothing in it: no framebuffer, no     *)
(* entries, no base, no file.                                              *)
Answers == {"missing", "empty", "given"}

(* Steps of _start, after serial_initialize.                               *)
Order_panics_early ==    \* mutant: exceptions are set up first
  <<"loggers", "gdt_load", "gdt_reload_segments", "ltr", "idt_initialize", "isr_initialize", "sti">>
  \o Checked \o <<"font", "terminal_initialize", "pmm_initialize", "msrs", "efer", "greet", "hcf">>
Order ==
  <<"loggers", "revision", "framebuffer", "memory_map", "kernel_address", "kernel_file", "hhdm",
    "font", "terminal_initialize", "gdt_load", "gdt_reload_segments", "ltr", "idt_initialize",
    "isr_initialize", "sti", "pmm_initialize", "msrs", "efer", "greet", "hcf">>

VARIABLES
  answers,      \* what the bootloader answered
  step,         \* the next step, a place in Order
  gdt,          \* the segment descriptors, by index
  idt,          \* the gate of each exception
  selectors,    \* selectors in use, with the kind and ring of segment meant
  ready,        \* what is initialized
  after,        \* the state that follows each of the writers
  state,        \* "running", "halted", "panicked", "repeating", "lost"
  exceptions    \* history: how many there were

tables == <<gdt, idt, selectors>>
bootVars == <<answers, step, tables, ready, after, state, exceptions>>
vars == <<serialVars, bootVars>>

(* The kernel's own code runs, and has logged what it had to.              *)
At(name) ==
  /\ state = "running" /\ writers = <<>>
  /\ step <= Len(Order) /\ Order[step] = name

(* The bytes of a message are one character here, its level.               *)
Log(level, follows) ==
  /\ serial_write_string(<<level>>)
  /\ after' = Append(after, follows)

Done(level) == step' = step + 1 /\ Log(level, "running")

Use(kind, ring, selector) == [kind |-> kind, ring |-> ring, selector |-> selector]

-----------------------------------------------------------------------------
(* The bootloader has tables of its own, with handlers of its own.         *)
Init ==
  /\ SerialInit
  /\ answers \in [Requests -> Answers]
  /\ answers["revision"] # "empty" /\ answers["hhdm"] # "empty"
  /\ Cardinality({request \in Requests : answers[request] # "given"}) <= MaxUngiven
  /\ step = 1 /\ state = "running" /\ exceptions = 0 /\ after = <<>>
  /\ gdt = [i \in 0 .. 6 |-> gdt_create_segment_descriptor(<<0, 0>>, <<0, 0>>, 0, 0)]
  /\ idt = [v \in Vectors |-> idt_segment_create(Nowhere, 40, 142, 0)]
  /\ selectors = {} /\ ready = {}

Setup ==
  /\ state = "running" /\ writers = <<>>
  /\ serial_initialize
  /\ UNCHANGED bootVars

(* debug_logger_initialize, hal_logger_initialize.                         *)
loggers ==
  /\ At("loggers")
  /\ ready' = ready \cup {"loggers"} /\ Done("INFO")
  /\ UNCHANGED <<answers, tables, state, exceptions>>

Acceptable(request) == answers[request] = "given"

(* The reason is logged, and hcf.                                          *)
Refuse_silent ==    \* mutant: the reason is not logged
  state' = "halted" /\ UNCHANGED <<step, serialVars, after>>
Refuse == Log("FATAL", "halted") /\ UNCHANGED <<step, state>>

Check(request) ==
  /\ At(request)
  /\ \/ Acceptable(request) /\ Done("INFO") /\ UNCHANGED state
     \/ ~Acceptable(request) /\ Refuse
  /\ UNCHANGED <<answers, tables, ready, exceptions>>

(* A module whose path ends with the font's name.  limine_get_file reads   *)
(* the answer without a check that there is one: a page fault, before      *)
(* there is a handler.                                                     *)
limine_get_file ==
  /\ At("font")
  /\ \/ answers["modules"] = "given" /\ Done("INFO") /\ UNCHANGED state
     \/ answers["modules"] = "empty" /\ Refuse
     \/ answers["modules"] = "missing" /\ state' = "lost" /\ UNCHANGED <<serialVars, step, after>>
  /\ UNCHANGED <<answers, tables, ready, exceptions>>

terminal_initialize ==
  /\ At("terminal_initialize")
  /\ ready' = ready \cup {"terminal"} /\ Done("INFO")
  /\ UNCHANGED <<answers, tables, state, exceptions>>

-----------------------------------------------------------------------------
(* gdt_initialize, in three steps.                                         *)
Segment(access, flags) ==
  gdt_create_segment_descriptor(SEGMENT_BASE, SEGMENT_LIMIT, access, flags)

Segments ==
  <<gdt_create_segment_descriptor(<<0, 0>>, <<0, 0>>, 0, 0),
    Segment(ACCESS_KERNEL_CODE, FLAG_GRANULARITY_BYTE),
    Segment(ACCESS_KERNEL_DATA, FLAG_GRANULARITY_4KB),
    Segment(ACCESS_USER_CODE, FLAG_GRANULARITY_BYTE),
    Segment(ACCESS_USER_DATA, FLAG_GRANULARITY_4KB),
    TssLower(TssAddress, TssLimit), TssUpper(TssAddress)>>

gdt_load ==
  /\ At("gdt_load")
  /\ gdt' = [i \in 0 .. 6 |-> Segments[i + 1]]
  /\ Done("INFO")
  /\ UNCHANGED <<answers, idt, selectors, ready, state, exceptions>>

(* The routine has no ret.  It runs on into what the linker put behind it, *)
(* which may come to a ret of its own or not.                              *)
gdt_reload_segments ==
  /\ At("gdt_reload_segments")
  /\ selectors' = selectors \cup {Use("code", 0, 8), Use("data", 0, 16)}
  /\ \/ Done("INFO") /\ UNCHANGED state
     \/ state' = "lost" /\ UNCHANGED <<serialVars, step, after>>
  /\ UNCHANGED <<answers, gdt, idt, ready, exceptions>>

(* The processor marks the task state as busy.                             *)
ltr ==
  /\ At("ltr")
  /\ selectors' = selectors \cup {Use("tss", 0, 40)}
  /\ gdt' = [gdt EXCEPT ![IndexOf(40)].access = @ + 2]
  /\ Done("INFO")
  /\ UNCHANGED <<answers, idt, ready, state, exceptions>>

Gate(handler) == idt_segment_create(handler, 8, 142, 0)

(* All entries are the default handler's when the table is loaded.         *)
idt_initialize ==
  /\ At("idt_initialize")
  /\ idt' = [v \in Vectors |-> Gate(DefaultHandler)]
  /\ Done("INFO")
  /\ UNCHANGED <<answers, gdt, selectors, ready, state, exceptions>>

(* One idt_set_entry; they are set in the order of their numbers.          *)
idt_set_entry(v) ==
  /\ At("isr_initialize")
  /\ idt[v] # Gate(IsrStubs[v]) /\ \A w \in Vectors : w < v => idt[w] = Gate(IsrStubs[w])
  /\ idt' = [idt EXCEPT ![v] = Gate(IsrStubs[v])]
  /\ UNCHANGED <<serialVars, answers, step, gdt, selectors, ready, after, state, exceptions>>

isr_initialize ==
  /\ At("isr_initialize") /\ \A v \in Vectors : idt[v] = Gate(IsrStubs[v])
  /\ Done("INFO")
  /\ UNCHANGED <<answers, tables, ready, state, exceptions>>

(* The bootloader has masked all interrupts of devices.                    *)
sti ==
  /\ At("sti")
  /\ Done("INFO")
  /\ UNCHANGED <<answers, tables, ready, state, exceptions>>

-----------------------------------------------------------------------------
pmm_initialize ==
  /\ At("pmm_initialize")
  /\ ready' = ready \cup {"pmm"} /\ Done("INFO")
  /\ UNCHANGED <<answers, tables, state, exceptions>>

(* STAR: 0x0013 for the way out, 0x0008 for the way in.  From the way in   *)
(* the processor makes the selectors 8 and 8 + 8 of the kernel, from the   *)
(* way out 0x13 + 16 for code and 0x13 + 8 for data of the user.           *)
msrs ==
  /\ At("msrs")
  /\ selectors' = selectors \cup
       {Use("code", 0, 8), Use("data", 0, 16), Use("code", 3, 35), Use("data", 3, 27)}
  /\ Done("INFO")
  /\ UNCHANGED <<answers, gdt, idt, ready, state, exceptions>>

(* The constraint "A" is one register, rax or rdx, and the compiler takes  *)
(* one.  In rdx the bit is set in the upper half, where it is reserved: a  *)
(* general protection fault.                                               *)
efer ==
  /\ At("efer")
  /\ \/ ready' = ready \cup {"system calls"} /\ Done("INFO")
     \/ Log("FATAL", "panicked") /\ UNCHANGED <<step, ready>>
  /\ UNCHANGED <<answers, tables, state, exceptions>>

greet ==
  /\ At("greet")
  /\ Done("DEBUG")
  /\ UNCHANGED <<answers, tables, ready, state, exceptions>>

hcf ==
  /\ At("hcf")
  /\ state' = "halted"
  /\ UNCHANGED <<serialVars, answers, step, tables, ready, after, exceptions>>

-----------------------------------------------------------------------------
(* The driver, in whatever was called last.                                *)
Drive ==
  /\ state = "running" /\ (Poll \/ WriteCharacter)
  /\ UNCHANGED bootVars

(* A message is written, and its writer halts, or returns.                 *)
Logged ==
  /\ state = "running" /\ SerialReturn
  /\ after' = SubSeq(after, 1, Len(after) - 1)
  /\ state' = after[Len(after)]
  /\ UNCHANGED <<answers, step, tables, ready, exceptions>>

HasErrorCode == {8, 10, 11, 12, 13, 14, 17, 21, 29, 30}

(* These return behind the instruction they come at, others to it.         *)
Traps == {1, 2, 3, 4}

(* The default handler logs and returns.  It takes no error code: if there *)
(* is one it returns to that.  A fault comes again when it has returned.   *)
default_interrupt_handler(v) ==
  Log("INFO", IF v \in HasErrorCode THEN "lost"
              ELSE IF v \in Traps THEN "running" ELSE "repeating")

(* The stubs end in isr_handler, and that in a panic, which logs first.    *)
Exception(v) ==
  /\ state = "running" /\ exceptions < MaxExceptions
  /\ exceptions' = exceptions + 1
  /\ LET handler == TargetOf(idt[v]) IN
     \/ handler = DefaultHandler /\ default_interrupt_handler(v) /\ UNCHANGED state
     \/ handler = IsrStubs[v] /\ Log("FATAL", "panicked") /\ UNCHANGED state
     \/ /\ handler \notin {DefaultHandler, IsrStubs[v]}
        /\ state' = "lost" /\ UNCHANGED <<serialVars, after>>
  /\ UNCHANGED <<answers, step, tables, ready>>

Device == Transmit /\ UNCHANGED bootVars

(* The processor's steps, but for exceptions.                              *)
Processor ==
  \/ Setup \/ loggers \/ (\E request \in Requests : Check(request)) \/ limine_get_file
  \/ terminal_initialize \/ gdt_load \/ gdt_reload_segments \/ ltr
  \/ idt_initialize \/ (\E v \in Vectors : idt_set_entry(v)) \/ isr_initialize \/ sti
  \/ pmm_initialize \/ msrs \/ efer \/ greet \/ hcf
  \/ Drive \/ Logged

Next == Processor \/ Device \/ \E v \in Vectors : Exception(v)

Spec == Init /\ [][Next]_vars

(* The processor goes on while it may, and the device sends what it has.   *)
FairSpec == Spec /\ WF_vars(Processor) /\ WF_vars(Device)

-----------------------------------------------------------------------------
(* A panic has what it needs: it comes only when there is a log and a      *)
(* terminal to write to.                                                   *)
PanicReady ==
  state = "panicked" \/ (\E i \in DOMAIN after : after[i] = "panicked") =>
    {"loggers", "terminal"} \subseteq ready

Past(name) == \E i \in DOMAIN Order : Order[i] = name /\ i < step

(* Without all of the handlers an exception may end the boot in nowhere,   *)
(* or in a handler that returns to its fault for ever; when they are       *)
(* installed it may not.                                                   *)
AstrayEarly ==
  /\ state = "lost" => ~Past("isr_initialize")
  /\ state = "repeating" => Past("idt_initialize") /\ ~Past("isr_initialize")

(* Every boot comes to an end, and not in a wait for the serial port: it   *)
(* halts or panics, or goes astray, and that only before isr_initialize    *)
(* has installed all of the handlers.                                      *)
BootEnds == <>(state # "running" /\ AstrayEarly)

(* The kernel never stops without a word: when it has halted, its greeting *)
(* or a fatal message comes out of the serial port, be it interrupted by   *)
(* the messages of handlers, and the processor halted before it is out.    *)
HaltsExplained ==
  state \in {"halted", "panicked"} ~> \E i \in DOMAIN wire : wire[i] \in {"FATAL", "DEBUG"}

Fits(use) ==
  LET d == gdt[IndexOf(use.selector)]
  IN  KindOf(d) = use.kind /\ RingOf(d) = use.ring /\ RingAsked(use.selector) = use.ring

(* Each selector of the kernel in use, in the segment registers, the task  *)
(* register, the gates and the way into system calls, is decoded to a      *)
(* segment of the kind and ring it is used for, the task state to its      *)
(* address, and each gate, from idt_initialize on, to a handler.           *)
TablesDecode ==
  /\ \A use \in selectors :
       /\ use.ring = 0 => Fits(use)
       /\ use.kind = "tss" =>
            TssBase(gdt[IndexOf(use.selector)], gdt[IndexOf(use.selector) + 1]) = TssAddress
  /\ \A v \in Vectors :
       Past("idt_initialize") =>
         /\ IsInterruptGate(idt[v]) /\ Fits(Use("code", 0, idt[v].selector))
         /\ TargetOf(idt[v]) \in {DefaultHandler, IsrStubs[v]}

(* So is each selector of the user's ("User Mode Code Segment" is the      *)
(* fourth and "User Mode Data Segment" the fifth, gdt.c:40-48).            *)
UserSelectors == \A use \in selectors : use.ring = 3 => Fits(use)
=============================================================================
