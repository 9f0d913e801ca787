# Mirus, specified

TLA+ modules that describe parts of the Mirus kernel, TLC runs that check them on
small instances, and theorems about them that the TLA+ proof system checks for
every instance. The code they describe is under `src/` of the repository; a
path such as `buddy.c:93` below is short for `src/kernel/memory/buddy.c`, line 93.
`PROJECT.json` maps each definition to the lines it stands for.

## The system

Mirus is a 64-bit kernel that boots with Limine on one x86-64 processor, sets up
its services, prints a greeting and halts. There is no scheduler and no second
thread; what runs concurrently with the code is its interrupts and, from inside
a system call, its callers.

| Component | State it keeps | Operations | Interacts with |
| --- | --- | --- | --- |
| Buddy allocator `buddy.c` | free lists, one per order; a header (link, size) in every block | `init`, `allocate`, `free`, `debug_state` | memory it manages is the memory its callers write to |
| Physical memory manager `pmm.c` | one allocator, totals, `kernel_start/end` | `pmm_initialize`, `pmm_alloc`, `pmm_free` | reads the bootloader's memory map, calls the allocator, logs JSON |
| Allocator self-test `debug_tests.c` | its local addresses | one fixed sequence of calls | client of the manager |
| Terminal `terminal.c` | cell buffer, cursor, colour; the framebuffer | `initialize`, `clear`, `setcolor`, `write_char`, `scroll`, `render` | written to by `printf_`, by the kernel and by a panic |
| Panic `panic.c` | none; halts | `kernel_panic`, `kernel_panic_detailed`, `hcf` | entered from any exception, uses the terminal and the logger |
| Interrupts, IDT, GDT `interrupts.c/.asm`, `hal/` | descriptor tables | `isr_initialize`, `isr_handler`, entry stubs | every exception ends in a panic |
| System calls `syscalls.c` | table of handlers, MSRs | `syscall_entry`, `syscall_handler` | two stacks, the user's registers |
| User mode `process.c` | none | `jump_to_usermode` | the way into a user's code; exceptions and system calls are the ways back |
| JSON emitter `jems.c` | stack of levels with item counts | open, close, values | calls a writer per character |
| Logger `logger.c` | list of writers; an open stream | `log_message`, `log_stream_*`, `log_complex` | the emitter, the serial port |
| Serial port `serial.c` | the device: its mode and its FIFO; the calls that wait for it | `serial_initialize`, `serial_write_string` | every message; a handler's message may come within another's |
| Boot sequence `kernel.c`, `bootloader.h` | the bootloader's answers | `_start` | everything, in a fixed order |
| LibK `string.c` | none | string and memory functions | everything |
| ktracer `main.rs` | its place in the log file; the entries, the search term, the selected entry | `tail_log`, `parse_log_entry`, `update` | reads the file the serial port is written to, while it is written; a channel between its two threads |

### Where it is hard

* Nearly all hard behaviour of the allocator is *sequential*: loops that leave
  several lists and headers inconsistent until they end, and histories of splits and
  merges that no test enumerates. The loops are therefore modelled iteration by
  iteration.
* An allocator that keeps its headers in the memory it hands out depends on what
  its callers leave there.
* Addresses: buddies are computed on absolute virtual addresses, blocks are cut
  from the start of the pool, and pools start wherever the memory map says.
* An exception may come between any two instructions, and its panic reuses the
  structures of the code it interrupted. It never returns to it.
* The serial driver asks the device whether it is empty and writes a character in a second step.
  A handler's message in between finds the same answer, so a character may be written to a device
  that is no longer empty.
* ktracer numbers the rows of its window while its other thread appends entries, and the window
  shows them in the reverse of the order they are kept in.
* What makes each component right is stated in its module, and listed under "Runs".

The hazards this code is exposed to, each at its line and with the properties
that would catch it, are in `PROJECT.json`.

## The modules

| Module | What it is |
| --- | --- |
| `Blocks` | blocks of memory and tilings: pairwise apart, covering, within a range |
| `PageAllocator` | the abstract promise: a grant is memory nobody else holds, large enough if any block is, and stays the caller's until it is given back |
| `BuddyAllocator` | `buddy.c`, one action per call, loop iteration and return |
| `BuddyTest` | `debug_test_buddy_allocator` as the only client of `BuddyAllocator` |
| `Pmm` | `pmm.c`: the memory map, the pool it yields, and `BuddyAllocator` on it |
| `TextPage` | the abstract terminal: a page that is written to from the top left and loses its first row when full |
| `Terminal` | `terminal.c` and `panic.c`, row by row, with exceptions between any two steps |
| `Json` | a reader of JSON texts, the reference for what is emitted |
| `Jems` | `jems.c`: operators on emitters |
| `JemsClient` | a client that writes documents with `Jems`, and reads them with `Json` |
| `Logger` | `logger.c` with its clients in `pmm.c`, `buddy.c` and `panic.c`, token by token, with exceptions between any two |
| `LogViewer` | `Logger` with ktracer reading the log as it grows |
| `LogWindow` | `LogViewer` with ktracer's window: taking entries from the channel, searching, selecting |
| `StackMachine` | registers, a stack, and the instructions the entry stubs are made of |
| `InterruptEntry` | `interrupts.asm` and `isr_handler`: from an exception to the frame its panic prints |
| `SystemCalls` | `syscall_entry` and `jump_to_usermode` instruction by instruction, and the dispatcher, with exceptions through `InterruptEntry` on the same machine |
| `ReliableLine` | the abstract serial line: what was sent arrives, each character once, as it was, and in order |
| `Serial` | `serial.c`, and as much of a 16550 as it depends on |
| `Descriptors` | segment and gate descriptors: how `gdt.c` and `idt.c` put them together and how the processor takes them apart |
| `Boot` | `_start`, the descriptor tables and the MSRs, with exceptions at every step, on `Serial` and `Descriptors` |
| `LibK` | functions of `string.c`, and how `jems.c` quotes the bytes of a string |
| `Lemmas` | what the proofs share: division and multiples, sequences without repetition, tilings, sums, folds |
| `MemoryProofs` (`BuddyAllocator`, `Pmm` and `BuddyTest`), `TerminalProofs`, `JemsProofs`, `LoggerProofs` (`Logger`, `LogViewer` and `LogWindow`), `EntryProofs` (`InterruptEntry` and `SystemCalls`), `BootProofs` (`Serial` and `Boot`), `LibKProofs` | theorems |
| `MC*` | small instances for TLC |

### BuddyAllocator

`free_lists[o]` is the list of order `o` as a sequence of addresses, head first; a
block's `next` word is its place in the sequence. `size[a]` is the second word
of the header at `a`, for every address of the pool, and is kept apart from the
lists because the code trusts it: `free` finds the order of a block from
`size` alone. `held` is what callers have. It is no variable of the program: it
records what `allocate` returned and `free` has not been given back, together
with what was asked for. `pc` says which loop the code is in, and `order`, `level`,
`address`, `request`, `remaining` are the locals of the function that runs.

| Action | Code |
| --- | --- |
| `InitCall`, `CreateBlock`, `InitDone` | `buddy_allocator_init`: prologue, one iteration, return |
| `AllocCall`, `SearchFound`, `SearchFailed` | `buddy_allocator_allocate`: `find_order`, and the search of the lists as one step |
| `SplitBlock`, `TakeBlock` | one iteration of the splitting loop with its call of `split_block`; the unlinking and the return |
| `FreeCall`, `MergeBuddy`, `InsertBlock` | `buddy_allocator_free`: prologue, one iteration of the merging loop with its search, the insertion |

The searches (`for` over orders, `while` over a list) change nothing and are one step.
`find_order` is a relation between a size and the order its loop leaves with. The
exclusive or of an address and a power of two is the flip of one bit. Pages need not be
a power of two bytes for anything that is proved here; in the runs they are.

### Pmm

The sums over the map and the first usable entry are computed from `entries`;
`pmm_initialize` is the call of `buddy_allocator_init` with the entry's address in the
direct map. The entry actions of the manager are those of the allocator. The maps satisfy
what the Limine protocol says of them only as far as it is used: usable
entries have a base and a length. `kernel_start` and `kernel_end` are computed and
logged, and nothing else reads them.

### Terminal

`buffer` is the flat buffer of cells, `framebuffer` what is drawn, by rows of glyphs
(a glyph is a character and a colour; a space draws nothing). `pc` says which loop runs;
`c` is the character being written, `y` the loop variable of `terminal_scroll` or
`terminal_render`. A scroll and a rendering are one step per row, so that an
exception finds them half done. `kernel_panic` is enabled in every state between
`terminal_initialize` and the halt, also during another panic, `MaxPanics` times.
`Message` is a sequence of characters and newlines that wraps and scrolls on the small
screen, as the real message (27 lines) does on a small framebuffer. Background colours
are written but never read, and are left out. A framebuffer with more characters than the
static buffer has cells is excluded by an assumption (`SizeAssumption`): what the
build does then is not determined by the source.

### Json, Jems, JemsClient

The functions of `jems.c` take an emitter and return it changed, so they are operators on
records of `levels`, `max_level`, `curr_level`, and `arg`, the argument of the writer. A token
is a bracket, a comma, a colon, or a whole string or number; what a string is made of is in `LibK`. `JemsClient` is a client that keeps to the rules of `jems.h`: it closes
what it opened, gives each key a value, and puts one value at the top (`AtKey` and `AtValue`
say what it may put next). Its writer hands each token to the reader of `Json`, whose state is a
stack of places in the containers that are open. The client knows where it is (`nest`), the
emitter keeps a count per level, and the reader has seen only the tokens: `Readable` says that
the three agree. `Restart` uses the levels again as they are, since the arrays are static. The
client nests no more containers than there are levels (`LimitsAssumption`), and literals, which
the emitter takes as they are, come in with `Logger`.

### Logger, LogViewer, LogWindow

A call of the logger changes nothing but the log, so it is the text it writes, computed with
`Jems` from emitters whose levels hold what earlier uses left there (`Used`). `WriteToken` puts
one token on the serial port; `kernel_panic` may come between any two, in a call or in
another panic. `Texts` are what the kernel logs: messages, `log_memory_map_debug`,
the stream of `buddy_allocator_debug_state`, and `log_complex`, which the kernel
does not use so far and the runs use only where they say so. The serial port is a
writer that always takes a token. `LogViewer` adds `tail_log`, whose `read_line` takes
what is there up to the end of the line; the Rust library behind it is a JSON reader.
`LogWindow` is the other thread. An `update` takes any number of the entries that have been
sent (the channel keeps all of them, so it is the sequence `shown`), the user may change the
search term, which is the set of entries that have it in their messages, and click on a row. A
selection is the index of an entry, as in the code, and rows are numbered from the newest.

### StackMachine, InterruptEntry, SystemCalls

A machine is its registers and the words of its memory. A stub is a sequence of
instructions, given as in the source, and `Step` executes one. In `InterruptEntry` an exception
pushes what the processor pushes; others may come between any two instructions of the stub and
in the panic (`MaxNested`). `isr_handler` panics for every number and a panic does not return,
so the second half of the stub is not reached and not modelled. Out of a user's code the
processor takes the stack of the task state (`KernelStack`), and stays on the stack it is on
out of the kernel's. In `SystemCalls` the operand
of the inline assembly is in any register the compiler may choose
(`OperandRegisters`), and `get_kernel_stack_ptr` is inlined or uses some words of stack
(`FrameWords`): what a build does is one of these. The dispatcher leaves in the registers a function need not
keep, and in the words below the stack, what it likes. Interrupts are off in the stub
(SFMASK). `syscall_read` and `syscall_write` do nothing yet but check their arguments.
`jump_to_usermode` has two operands (`JumpOperands`, any registers but the two its assembly
names as overwritten); nothing calls it yet, so its callers are the two stacks of
`StackPointers` with any function and user's stack. `running` says whose code the machine is
in: the kernel's, the jump, a user's that the jump has entered, a user's that is about to make
a system call, or the stub. A user's code does nothing in the model but run, be interrupted, and
make one system call: what else it does to its own registers is the choice of the next initial state.

### Serial, ReliableLine

`uart` is the device: the divisor, the format, the FIFO switch, loopback, and `holding`, the
characters it has not sent yet, 16 with its FIFO and otherwise one. Firmware may have left it
in any mode (`SerialInit`), with nothing left to send. `serial_initialize` is one write of a register per step,
and `write_byte` says what the device does with it, which depends on DLAB. `writers` is the stack of
calls of `serial_write_string`: the innermost runs, and each may have polled already and not
written. `Transmit` is the device; a character that leaves it in another format than agreed
arrives as `"garbled"`. A character beyond the FIFO's places is lost, as in the device.
`ReliableLine` knows only what was sent and what has arrived. The other end, a file or a
terminal, is external.

### Boot, Descriptors

`Order` is the order of `_start` and of what it calls; an action is a step of it, and
writing the table of handlers is a step per entry. Every message goes through the driver of
`Serial`, a character for its level; `after` has, for each of the writers, what follows when it
has written: the code goes on, or halts, or panics, or a handler returns. `answers` are the
bootloader's: missing, empty or as they should be, `MaxUngiven` of them not. `gdt` and `idt` hold
descriptors field by field, as `Descriptors` packs them, with numbers of 32 and 64 bits in pieces
of 16; an exception is handled by whoever the gate's pieces are the address of, and `ltr` marks
the task state as busy, as the processor does. `selectors` collects the selectors in use with the
use they are put to. Two states are not the code's: *lost*, where the processor executes what
nobody wrote for this (the bootloader's table, an error code as a return address, a routine
without `ret`), and *repeating*, where a handler returns to the instruction that faults again.
Device interrupts are masked by the bootloader and nothing unmasks them, so `sti` changes
nothing. The constraint `"=A"` of `rdmsr` is one register for a 64-bit operand; either choice is
possible.

### LibK

Loops are recursive functions of the iteration over memory and strings. `call` is the last
call; the functions keep no state, so one call at a time is enough. Ends of fewer than two
characters make `checkStringEndsWith` read in front of them and are excluded. `emit_quoted_byte`
is the switch of `jems.c` that escapes a byte, and `ReadString` is how RFC 8259 reads the result.

## Runs

| Run | Instance | States | What it shows |
| --- | --- | --- | --- |
| `memory` | pages of 2 bytes, orders 0 to 2; four memory maps: a PC's, whose pool of 8 pages starts at the second page, one with a pool of 7 pages and a half on a boundary of the largest block, one with 3 pages on such a boundary, and one with nothing usable; requests of 0 bytes, a page and a half, the largest block and more | 113 thousand | all properties of the allocator, below, under the manager that feeds it; callers get usable memory only; everything logged as usable is somewhere |
| `buddy_test` | the kernel's 12 orders and 50 small blocks; pools of 158, 96 and 31 pages | 793 | the self-test frees only what it holds, and ends |
| `terminal` | 2 by 3 characters, one printing character, two colours, up to two exceptions | 73 thousand | the terminal is a page of text; a newline flushes; a panic ends with its message alone on the screen |
| `jems` | 4 levels, 3 nested containers of up to 4 items, one string, one number | 2500 | what is emitted is the beginning of a JSON text, at the place the emitter says |
| `logger` | 5 and 10 levels as in the code; two calls, up to two exceptions, three entries in all; a memory map of one entry, an allocator of one order; all search terms and clicks | 2 million | each line is JSON, unless an exception came in it; a panic's entry is whole and the last; what ktracer shows was logged, in order and once, though it reads lines in parts; the details it shows are those of the row that was clicked |
| `system_calls` | all exceptions the processor can raise here, both alignments of the stack, the NMI, a double fault or a page fault anywhere in the stub; the way into a user's code for three pairs of operands; a system call on two stacks, for four registers of the operand and two sizes of frame; the NMI or a page fault anywhere on either way and in the user's code | 199 thousand | the panic prints the interrupted code's registers, the kernel's or the user's; C code is called on an aligned stack; a user's code is entered as asked, in ring 3; what `syscall_entry` saves before it overwrites it is restored, the registers of the result apart |
| `boot` | five exceptions, up to two of them at any step, also between the driver's poll and its write; up to two answers missing or empty; the device in any of eight modes; handlers at addresses whose four pieces all matter | 11.6 thousand | nothing written is lost, repeated, garbled or overtaken on the line; every boot ends, after `isr_initialize` only in a halt or a panic, and halts with an explanation that comes out of the line; a panic comes only when it can be shown; selectors and gates decode to what they are meant to be |
| `libk` | ints of 8 bits in bases 2, 10 and 16; 6 bytes of memory; strings of up to 4 of two characters; strings to quote of up to 4 of eleven bytes, on either side of each limit of the quoting | 33 thousand | the functions against reference definitions; a quoted string is printable and reads back as it was |

Properties of the allocator in `memory`. `NoOverlap`: no two blocks, free, held or being merged, share a byte,
and none is in two places, in the middle of the loops as well.
`PoolCovered`: no byte is lost, none gained. `HeadersMatch`: the size in a
header is the block's. `GrantFits`: a grant covers the request and wastes less than
half, or less than a page. `FullyCoalesced`: between calls no block lies on a list
with its buddy. `RefusalJustified`: in an aligned pool `allocate` says no only if a
caller holds a byte of every place the block could be. `Restored`:
when all has come back an aligned pool is cut as at boot. `ReportExact`: the
number logged as allocated memory is what callers hold plus the tail below
a page. `CallsReturn`: every loop ends. `KeepsPromise`: the allocator implements
`PageAllocator`.

Pools of this size contain a block of every order and an odd page and half a page at the end, or
two blocks of the largest order, or none at all; lists have up to three elements, so
that a buddy is unlinked from the front, the middle and the end; splits go over two
orders and merges as well. The self-test repeats the interesting part with twelve orders.
In the terminal, two columns and three rows suffice for a wrap, a scroll whose loop
has two iterations, a backspace over a row boundary and at the first cell. Three containers in four levels are all the levels there are, since
the document is one; two items and two pairs are the least for which a comma, a colon and the
reset of a count matter. Both entry stubs are straight lines, so one pass through each
instruction with every other exception in between is all there is to see; one nested exception
is enough, since a stub looks only at its own frame. Two calls in the log
let a second one start on the line a first has ended, and two exceptions let a panic
come in a panic. The window has no effect on the log, and a frame may take as few of the entries
as it likes, so `MCLogger` draws frames only when the machine has halted and the log is read:
the frames drawn then include all that could have been drawn before. In `boot` two exceptions in the
driver leave three calls within each other, each with its poll done and its write to come; the
theorem has up to sixteen. Two answers that are not as they should be let a second failing check
come behind the one that stops the boot, and the boot with a missing module request fail at
its other checks too. Deadlock is checked except where the system stops: the terminal, the logger and
`_start` after the halt, the self-test at its end, the entry stubs after the panic or
the return, `LibK` after its one call.

### Runs that end in a counterexample

| Run | What the source says | What the code does |
| --- | --- | --- |
| `memory_oversize` | `buddy.c:67` "Requested size is too large" | the guard cannot be true, since `find_order` stops at `MAX_ORDER`; a request for more than the largest block is answered with the largest block |
| `logger_complex` | `logger.c:171` "Stream the json_data in chunks" | the writers get no length, and every piece goes on to the end of the data |
| `system_calls_return` | `syscalls.c:235-237` "Restore user rip into rcx", "Return to user mode" | the stack pointer is restored before what was pushed ahead of it, so the rest comes from the caller's stack |
| `boot_star` | `gdt.c:40,45` "User Mode Code Segment", "User Mode Data Segment" | STAR has them the other way round |

`EndsButForFirst`, `FullyCoalesced` and the rest of the passing runs state what the code does.
The models have more that a reader of the code should know of, without a run of its own:

* In a pool that does not start on a boundary of the largest block the other half of a split
  block is not always its buddy (`buddy.c:61` works on the absolute address), and `free` leaves
  two halves unmerged. `FullyCoalesced` is about buddies; `Restored`, `RefusalJustified` and
  `PhysicallyAligned` ask for an aligned pool. A PC's first pool starts at the second page.
* `free` trusts a word in memory that callers may write to (`buddy.c:91`).
* The self-test frees the 0 of an allocation that failed, if the first usable region has fewer
  than 32 pages (`TestEnds` has the case).
* `terminal_clear` clears the cells; the screen changes at the next newline, in spite of `terminal.h:82`.
* Beyond the deepest level `push_level` does nothing and `pop_level` still pops, so what is
  emitted is no longer JSON.
* ktracer parses both parts of a line it reads in two, and shows neither.
* `syscall_entry` stays on the caller's stack (`get_kernel_stack_ptr` returns the stack pointer of
  the moment), gives the dispatcher its stack pointer as the number, and overwrites `r10`
  before it saves it.
* `syscall_entry` pops the caller's `rdx` and `rax` (`syscalls.c:229`, `:232`) over what the dispatcher left there, the
  error and the value of its result, and no caller ever sees them. `syscalls.h:51` has "Allows system calls to return a value and an
  error code simultaneously", `:90` "@return The return value of the system call", `:124` and `:134` the number of bytes. `RegistersKept`
  is about the other registers and asks nothing of these two.
* Without an answer to the module request the kernel faults before it can say that the font is
  missing (`bootloader.h:89`).
* `gdt_reload_segments` has no `ret`; whether it comes back is up to what the linker put behind it.
* While `isr_initialize` installs the handlers one by one, a page fault may already panic and the
  NMI still go to the default handler: its message comes behind the panic's.
* `log_message` keeps its levels in a static array (`logger.c:90`). The default handler logs and, before its
  stub is installed, may return (from the NMI or a trap): the call it interrupted goes on with the levels the
  handler left, and its commas and colons may be wrong. The exceptions of `Logger` all end in a panic, so
  this has no model; `Boot` has the handler, with one character per message.
* The stack between `mov rsp` and `sysretq` of both stubs is the user's while the processor is in
  ring 0: the frame of an exception there, the NMI for one, is written to it.
* A row of ktracer's window that moves between the press and the release of the mouse, because an
  entry arrives, is another row then; the model has the click as one step.
* `gdt.h:19` says that the flags 0xA count the limit in bytes, for 32 bits; they count pages, and mean a 64-bit
  segment, whose limit the processor does not look at.
* `round_to_nearest_pow2` and `serial_read` have no caller.
* `checkStringEndsWith` does not compare the first character of the end; `EndsButForFirst` says
  so. `itoa` takes signed remainders in bases other than 10.

## Fairness

`PmmFairSpec` has weak fairness on `Work`, the steps the allocator's code
takes once called: one processor executes it, and nothing it does waits for anybody. Nothing is
assumed of callers. `Terminal` has weak fairness on `Working` for the same reason; exceptions
and what the kernel prints are not fair. `WF` is enough in both because a step once enabled stays
enabled, or is made void by an exception, of which there are finitely many.
`BuddyTest` is fair on all its steps: it is a program without input. `Boot` has weak fairness on
`Processor`, all steps of the code (with its busy wait, which is `Poll` becoming enabled), and on
`Device`, the transmitter, which sends what it holds whether or not anybody waits; exceptions and
the bootloader's answers are not fair. The two stay enabled until they are taken, but for an
exception, of which there are finitely many. `BootEnds` needs both: without the device the
driver would wait for ever. `HaltsExplained` needs only the device, since the processor has halted.

## What is proved

The theorems on memory are for every `PAGE_SIZE`, `MAX_ORDER`, set of pools and set of requests,
those on the self-test for every pool and every even number of small blocks, those on the terminal for
every size of the screen and every message, those on the emitter for every number of levels and of items and all
strings and scalars, those on the log for every set of memory maps and of numbers of free blocks, those on the
ways into and out of the kernel for every machine and every choice of operands, those on
the boot sequence for every set of exceptions, every placement of handlers and every number of
wrong answers, and those on `LibK` for every width of an int, every size of memory and all strings.

* `MemoryProofs`, of the allocator: `Invariance: Spec => []IInv`, from which `Spec => []TypeOK`, `[]NoOverlap`,
  `[]PoolCovered`, `[]HeadersMatch` and `[]GrantFits` follow, and `Refinement: Spec => KeepsPromise`;
  `ReportCorrect: Spec => []ReportExact`; `Coalescing: Spec => []FullyCoalesced`; of pools that start on a
  boundary of the largest block `Alignment: Spec => []AlignedInv` (every block starts on a boundary of its length),
  `Refusals: Spec => RefusalJustified` and `Restoration: Spec => []Restored`; and `CallsAdvance`, that each step of a
  call leaves less of it to do (`Left`).
  Of its clients: `ManagerAllocates: PmmSpec => Spec` and `TestAllocates: TestSpec => Spec`, so that all of the
  above holds of the manager and while the self-test runs; of the manager `OnlyUsableHandedOut: PmmSpec => []OnlyUsableMemory`,
  `BlocksAligned: PmmSpec => []PhysicallyAligned` and `UsableMemoryAccounted: PmmSpec => []UsableAccounted`; of the
  self-test `TestFreesItsBlocks: TestSpec => []FreesItsBlocks`, `TestGivesBack`, that all is free again when it is
  done, and `TestAdvances`.
* `TerminalProofs`: `TerminalTyped: Spec => []TypeOK`, `NewlinesFlush: Spec => []NewlineFlushes`,
  `PanicMessageShown: Spec => []PanicShown`, and `PageImplemented: Spec => IsPage`, that the terminal implements `TextPage`,
  and `PanicsAdvance`, that each step of a panic but another exception leaves less of it, and that nothing is left
  just when the kernel has halted.
* `JemsProofs`: `AlwaysReadable: Spec => []Readable` and
  `AlwaysReportsPosition: Spec => []ReportsPosition`, of documents nested to any depth there are
  levels for. Both follow from `AlwaysConsistent`.
* `LoggerProofs`: `PanicIsLogged: LoggerSpec => []PanicLogged`, and, if what `log_complex` is given is JSON and fits one
  piece (`ComplexFits`), `LinesAreReadable: LoggerSpec => []LinesReadable`. Without `ComplexFits` the second is false: that is
  the finding of `logger_complex`. Of the window, `ClickedIsShown: WindowSpec => []DetailIsClicked`, for all sequences of entries,
  search terms and clicks, and with frames drawn at any time and not only when all is read, as in the run. Of the viewer,
  if what `log_complex` is given is JSON, fits one piece and does not have the string `level` in it (`ComplexPlain`),
  `ShownIsLogged: ViewerSpec => []ShownWereLogged`; and `WindowViews: WindowSpec => ViewerSpec /\ LoggerSpec`, which makes
  these theorems ones about the run.
* `EntryProofs`: `FrameIsFaithful`, `StackIsAligned`, `SavedRegistersKept` and `UserIsEntered`, the four invariants of
  `system_calls`, from `StubsFollowed: Spec => []SystemInv`.
* `BootProofs`: `LineSafe: SerialSpec => Line!Safely`, that the serial port by itself implements the safety part of
  `ReliableLine` whatever texts it is given; `BootLineSafe: Spec => Line!Safely`, the same of
  a whole boot, because each step of `Boot` is one of `Serial` or none; `PanicsReady: Spec => []PanicReady`;
  `TablesAlwaysDecode: Spec => []TablesDecode`; of how a boot ends `AstrayOnlyEarly`, that a handler returns to its fault only
  while `isr_initialize` runs and the boot is lost only before that is done, `HaltsHaveReasons`, that a kernel that has halted has written its greeting or a fatal message,
  and `BootAdvances`, that no boot goes on for ever.
* `LibKProofs`: `MemoryIsMoved: Spec => []MemoryFunctions`, `EndsAreFound: Spec => []EndsButForFirst`,
  `NumbersReadBack: Spec => []ItoaReadsBack` and `BytesReadBack: Spec => []QuotesReadBack`, the four invariants of `libk`.

None of the properties of the allocator is inductive alone. `IInv` adds three things. `Cut`: the blocks
(free, held, moving) are a tiling of the pool up to the frontier, which for `init`
is the address it has reached; a split halves a tile, a merge joins two, and
the lemmas on tilings say that either leaves a tiling. `OneOwner`: no block is on
two lists or twice on one, without which unlinking a list element would not remove
its tile. `LocalsInv`: what the loops rely on, such as that the list `level` is not
empty while `allocate` splits, and that `size[address]` is the block of `order`
while `free` merges.

Merging needs a second invariant, `CoalescedInv`: while `allocate` splits, halves do lie on one list,
and they are gone when it takes the first of the last pair only because all lists
between the order asked for and the one found were empty; while `init` cuts,
no list below the largest order gets a second block.

A third, `AlignedInv`, is about aligned pools: while `init` cuts, the address it has reached is on a boundary
of the next block it cuts. With the other two it gives `FreeInOnePiece`: a place for a block in which no
caller has a byte is one free block, or part of one. Otherwise look at the smallest free block in the
place. Its buddy's first byte is free too, and the block that byte is in is at least as large: it is
the buddy, which would have been merged, or it contains both, which then overlap. `RefusalJustified` follows at
once; `Restored` because with nothing held the free blocks are the largest that fit, which is what the bits of
the pool's size say.

`ReportExact` and `UsableAccounted` are about sums over sets of blocks: `Accounted` is kept because a split
replaces a block by two halves of it, a merge two by their union, and a call moves one between the free lists and
the callers. `FreesItsBlocks` needs that a name of the self-test means the same block until the test frees it
(`TestInv`): a live name, allocated and not freed, keeps the address of a held block or 0, and shares it with no other,
whatever is split and merged for other calls. `TestGivesBack` needs the converse (`Known`): every held block is the one of a
live name. When the test is done no name is live, so nothing is held, and `ReportExact` says what is free.

For the terminal, `TerminalInv` says of each row what the loop that runs has already made of it, and what page of
text the buffer stands for in its middle: a scroll of any number of rows is half done when an exception comes, and
the panic's first `terminal_clear` forgets it. `Printed` says of the message what has been written so far.

For the emitter, `Readable` says where the reader is but nothing of the emitter's levels, from which
it takes its next comma or colon. `Consistent` adds that every level, not only the current one,
holds the count and the kind of a container the client has open, and that the outermost one is the
document. Each function of `jems.c` has a lemma that takes an emitter that agrees with what is open
to one that agrees with what is open after the call; what lies in the levels above the current one
does not matter, which is why they can be used again as they are.

The log's theorems rest on those of the emitter. The logger's emitters write to a text and those of `JemsProofs` to
a reader; reading the text takes the one to the other (`Seen`), so each lemma of `JemsProofs` is one about what the
logger's emitters write. A document of a client is written by loops, which are folds: what a turn keeps the whole
loop keeps (`FieldsKeep`, `EntriesKeep`, `BlocksKeep`, `OrdersKeep`). That a document streamed into an entry leaves the entry
readable needs that it is read inside an object as it is read alone (`Inside`, `ReadMember`). `LogInv` then says that the
running call has put the beginning of its text at the end of the line, that the line holds nothing else unless an exception came
into it, and that an ended line is the whole text of a call. `PanicLogged` needs of it that a machine that panics writes the
panic's entry and nothing else.

For the viewer, `ViewInv` says where every token on the log comes from: there are tables of the call that wrote it and of its
place in that call's entry, such that a token follows the one before it in the entry, or is the first of another, and that lines
behind an ended one are of later calls (`Written`). It adds how far the last call has got (`Underway`), and that what is shown are entries
of ascending calls, all before any that begins where has not been read yet (`Followed`). A piece that is read is then made of parts of
entries, and `EntryWhole` says that one that parses as an entry is one whole entry: the token `level` is only ever the second of
an entry, so the piece starts with one; while that entry goes on, a reader of the piece is where a reader of the entry is;
and where another starts in it, for which an exception must have come, the reader is inside the object of the first and does not
come out of it by the end.

For the window, `RowsAgree` says that the row of a label is the row of its entry: the labels and what is drawn are two filters
of one sequence, and their folds are compared step by step (`Grown`). `WindowInv` says that the entries the window has are the
first of those that were sent, so that an index taken in one frame means the same entry in every later one.

For the stubs, `SystemInv` says at each of their places what lies on the stack and which registers still hold what they held
when the stub was entered, for the exception that runs and for each one it interrupted. It is one step of the
proof for each instruction.

For the line, `Delivered` says that what was written is what has arrived followed by what the device
holds. That a step keeps it needs room for the character, and the driver's poll is no proof of
room: it may be older than a handler's writes. `Room` says that the device holds no more than
the bound of nested calls, less the writers that have polled and not written. A poll succeeds only on an empty device, when every
polled writer still has its place; a write takes the place its poll reserved. `Mode` says how far
`serial_initialize` has got in setting the device up, which it must have before anything is
written. For a panic, `BootInv` ties the state to the step: before `isr_initialize` every gate is as
the bootloader left it or the default handler's, and by then the loggers and the terminal are ready. `TablesInv` adds which
selectors are in use at each step and for what, which descriptors are written by then, and that from the step on where they are installed all
gates are the kernel's; that packing and unpacking a descriptor gives back the address is division by the
widths of its pieces.

How a boot ends is two more invariants. `AstrayInv`: default handlers' gates, and calls of handlers that will return to their
fault or to an error code, exist only while `isr_initialize` runs, since by its end every gate leads to a stub; and the other ways
to be lost, no table, no module response and `gdt_reload_segments`, come before. `SaidInv`: a writer that is followed by a
halt or a panic has the fatal character still to write, or something that explains the halt has been written; and
from the greeting on that is written or under way.

Four theorems have the safety part of a liveness property, a variant: `CallsAdvance` (`Left`, the iterations left of a call),
`TestAdvances` (`Turns`, the calls and returns left, then `Left`), `PanicsAdvance` (the characters left, each of which
takes at most a scroll and a rendering, then what is left of one) and `BootAdvances` (`Remaining`, seven numbers in lexicographic
order: exceptions, steps of `_start` and of `serial_initialize` or whether the boot will stop where it is, gates to be set, calls of
the driver, characters of the innermost, its poll, and what the device holds). They are natural numbers in every state, and the steps of the
code make them smaller, so nothing goes round in circles, for any values of the constants. Of the liveness properties they
leave that the code is never stuck before its end, which is about `ENABLED`.

For `LibK`, what the loops compute is proved by induction, as the least iteration that goes wrong, since the library's induction
theorems cannot be used. A loop is a recursive function, and two recursive functions with the same steps are the same (`SameSteps`,
`SameDown`), so it is enough to show that the intended result, a function given by its values, takes the loop's steps. For
`memmove` it is given for each direction, as the memory half moved: the overlap does not hurt because what is still to be read is on the
side the loop has not reached. For `itoa`, `IsNumber` says that digits weigh as much as a number, and
a digit more weighs `b * m + d` (`DigitMore`); the digits are reversed afterwards, as in the code. For the quoting, `QuotedReadsBack` says that the reader, at the
place where the text of a byte begins, reads the rest of the bytes from there on.

Assumptions. `SizesAssumption` types the constants. `PowersAssumption` states what is used
of powers of two up to the largest order; exponentiation is beyond the arithmetic of
the provers, so it is an assumption, and TLC evaluates it in every run.
`MapsAssumption` types the memory maps and says that `Pools` are those of the maps.
`TokensAssumption` says that strings, scalars and punctuation are different tokens, and
`LimitsAssumption` that the client nests one container less than there are levels, the first level
being the document's: beyond that `push_level` drops the level and keeps going. `SerialAssumption`
says that no more calls of the driver are within each other than the FIFO has places, and
`BootAssumption` that the messages are characters, and that the linker put no handler, the default one included, at address 0,
and no stub where the default handler is. `LibKAssumption` says of the range of an int that it is a power of two's, a natural number,
for the same reason as `PowersAssumption`. `ComplexFits` and `ComplexPlain` are not assumptions of a module but hypotheses of two theorems:
what `log_complex` is given is up to a client there is none of yet. The run `logger` has no such data, and meets both.

`TextAssumption` says that a panic's message is not empty and ends in a newline, and that no newline is a backspace.
`EntryAssumption` leaves out exceptions 21, 29 and 30, which this processor's configuration does not raise: the stubs push
a zero for them as if they had no error code. `SystemCallsAssumption` says that words are natural numbers and that there is room
around the user's stack. `BlocksAssumption` is the shape of the self-test: an even number of small blocks, and the sizes
it asks for among the requests. `LoggerAssumption` asks for two levels for the logger's documents and five for its clients'; the
code has 5 and 10.

Only model-checked: that `CallsReturn`, `TestEnds`, `PanicHalts`, `BootEnds`, `HaltsExplained` and the delivery in `LineReliable` come
about. Liveness under fairness, and `ENABLED`, are out of the prover's reach; what of them is safety is proved, above. All
invariants and action properties of the passing runs are theorems.

## Not modelled, and what is left

What could still be proved: guard by guard, that in each state before its end a call, a panic or a boot has a step it may
take; and `ShownIsLogged` for `log_complex` data that has the string `level` in it as long as no part of it is an entry.

What could still be modelled: the lengths of log texts against the logger's buffers, which are tokens now; a press
and a release of the mouse as two steps.

Left out:

* limine, ssfn and printf, which the build fetches. What the kernel uses of them is external in the models
  of its callers.
* `debug_test_syscalls`, `debug_test_exceptions` and `test_terminal`: fixed sequences of calls whose
  functions are modelled, without state of their own.
* The layout of JSON, of log text, of a panic's registers on the screen and of ktracer's window; colours of
  the background.
* Floating-point values of `jems.c`, whose digits are printf's.
* Two hazards have no property. `terminal.c:34`: a framebuffer of more characters than the static buffer has
  cells writes behind it, and what is there is up to the linker. `gdt.asm:34`: what the routine without `ret` runs into is up
  to the linker too; `Boot` has both outcomes.
