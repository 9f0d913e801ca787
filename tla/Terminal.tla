------------------------------ MODULE Terminal ------------------------------
(***************************************************************************)
(* The terminal of the kernel (src/kernel/drivers/terminal.c) and the      *)
(* panic that takes it over (src/kernel/debug/panic.c).                    *)
(*                                                                         *)
(* Characters go to a flat buffer of cells; a newline copies the buffer to *)
(* the framebuffer.  An exception may come between any two steps, clears   *)
(* the terminal, writes its message and halts: the write, the scroll or    *)
(* the rendering it interrupted is never resumed.                          *)
(***************************************************************************)
EXTENDS Integers, Sequences, SequencesExt

CONSTANTS Width, Height,    \* of the framebuffer, in characters
          MAX_TERM_SIZE,    \* cells in the static buffer
          Characters, Newline, Backspace, Space,
          Colors, White,
          Message,          \* what kernel_panic prints, a sequence
          MaxPanics         \* exceptions in a run, those within a panic included

ASSUME SizeAssumption ==
  /\ Width \in Nat \ {0} /\ Height \in Nat \ {0}
  /\ MAX_TERM_SIZE \in Nat /\ Width * Height <= MAX_TERM_SIZE

(* The message of a panic ends with the line "Halting and catching fire".  *)
(* Space may be one of the characters or not.                              *)
ASSUME TextAssumption ==
  /\ White \in Colors
  /\ {Newline, Backspace} \cap (Characters \cup {Space}) = {} /\ Newline # Backspace
  /\ Message \in Seq(Characters \cup {Newline})
  /\ Message # <<>> /\ Message[Len(Message)] = Newline
  /\ MaxPanics \in Nat

VARIABLES
  buffer,                    \* terminal.buffer: cells [character, fg_color]
  cursor_x, cursor_y, current_fg_color,
  framebuffer,               \* rows of what is drawn on the screen
  ssfn_dst_y,                \* the row the font renderer draws next
  pc,                        \* the loop the code is in
  c,                         \* argument of terminal_write_char
  y,                         \* loop variable of scroll and render
  panics, message            \* exceptions so far, what is left to print

terminal == <<buffer, cursor_x, cursor_y, current_fg_color>>
screen   == <<framebuffer, ssfn_dst_y>>
panic    == <<panics, message>>
vars     == <<terminal, screen, pc, c, y, panic>>

Columns == 0 .. (Width - 1)
Rows    == 0 .. (Height - 1)
Cell    == [character : Characters \cup {Space}, fg_color : Colors]

BlankCell == [character |-> Space, fg_color |-> White]

(* What ssfn_putc draws for a cell: a space draws nothing.                 *)
Glyph(cell) ==
  IF cell.character = Space THEN <<Space, White>> ELSE <<cell.character, cell.fg_color>>

Black   == <<Space, White>>
Garbage == <<"left by the bootloader">>

(* Row r of the buffer, drawn.                                             *)
Line(r) == [x \in Columns |-> Glyph(buffer[r * Width + x])]

-----------------------------------------------------------------------------
Init ==
  /\ buffer = [i \in 0 .. (Width * Height - 1) |-> BlankCell]
  /\ cursor_x = 0 /\ cursor_y = 0 /\ current_fg_color = White
  /\ framebuffer = [r \in Rows |-> [x \in Columns |-> Garbage]] /\ ssfn_dst_y = 0
  /\ pc = "off" /\ c = Space /\ y = 0
  /\ panics = 0 /\ message = <<>>

(* Mutant: the cursor stays where it is.                                   *)
clear_cells ==
  /\ buffer' = [i \in 0 .. (Width * Height - 1) |-> BlankCell]
  /\ UNCHANGED <<cursor_x, cursor_y>>

(* terminal_clear: the cells and the cursor, not the colour.               *)
terminal_clear ==
  /\ buffer' = [i \in 0 .. (Width * Height - 1) |-> BlankCell]
  /\ cursor_x' = 0 /\ cursor_y' = 0

terminal_initialize ==
  /\ pc = "off"
  /\ terminal_clear
  /\ current_fg_color' = White
  /\ ssfn_dst_y' = 0
  /\ pc' = "idle"
  /\ UNCHANGED <<framebuffer, c, y, panic>>

terminal_setcolor(fg) ==
  /\ pc = "idle" /\ panics = 0
  /\ current_fg_color' = fg
  /\ UNCHANGED <<buffer, cursor_x, cursor_y, screen, pc, c, y, panic>>

-----------------------------------------------------------------------------
(* Mutant: a newline is not rendered.                                      *)
ContinueUnflushed(ch, row) ==
  /\ pc' = IF row >= Height THEN "scroll" ELSE "idle"
  /\ y' = 0 /\ c' = ch

(* After the cursor moved: to scroll, to render, or back to the caller.    *)
Continue(ch, row) ==
  /\ pc' = IF row >= Height THEN "scroll" ELSE IF ch = Newline THEN "render" ELSE "idle"
  /\ y' = 0 /\ c' = ch

WriteNewline ==
  /\ cursor_x' = 0 /\ cursor_y' = cursor_y + 1
  /\ Continue(Newline, cursor_y')
  /\ UNCHANGED buffer

(* Back one column, or to the last column of the row above.                *)
BackOneTooFew ==    \* mutant: the column after the last
  \/ cursor_x > 0 /\ cursor_x' = cursor_x - 1 /\ UNCHANGED cursor_y
  \/ cursor_x = 0 /\ cursor_y > 0 /\ cursor_y' = cursor_y - 1 /\ cursor_x' = Width
  \/ cursor_x = 0 /\ cursor_y = 0 /\ UNCHANGED <<cursor_x, cursor_y>>
BackOne ==
  \/ cursor_x > 0 /\ cursor_x' = cursor_x - 1 /\ UNCHANGED cursor_y
  \/ cursor_x = 0 /\ cursor_y > 0 /\ cursor_y' = cursor_y - 1 /\ cursor_x' = Width - 1
  \/ cursor_x = 0 /\ cursor_y = 0 /\ UNCHANGED <<cursor_x, cursor_y>>

WriteBackspace ==
  /\ BackOne
  /\ buffer' = [buffer EXCEPT ![cursor_y' * Width + cursor_x'].character = Space]
  /\ Continue(Backspace, cursor_y')

WriteNormal(ch) ==
  /\ buffer' = [buffer EXCEPT ![cursor_y * Width + cursor_x] =
                  [character |-> ch, fg_color |-> current_fg_color]]
  /\ IF cursor_x + 1 >= Width
     THEN cursor_x' = 0 /\ cursor_y' = cursor_y + 1
     ELSE cursor_x' = cursor_x + 1 /\ UNCHANGED cursor_y
  /\ Continue(ch, cursor_y')

(* terminal_write_char, up to the call of terminal_scroll or _render.      *)
terminal_write_char(ch) ==
  /\ pc = "idle"
  /\ \/ ch = Newline /\ WriteNewline
     \/ ch = Backspace /\ WriteBackspace
     \/ ch \in Characters \cup {Space} /\ WriteNormal(ch)
  /\ UNCHANGED <<current_fg_color, screen>>

(* Mutant: the characters go up, the colours stay.                         *)
ScrollCharacters ==
  /\ pc = "scroll" /\ y < Height - 1
  /\ buffer' = [i \in DOMAIN buffer |->
       IF i \div Width = y
       THEN [buffer[i] EXCEPT !.character = buffer[i + Width].character] ELSE buffer[i]]
  /\ y' = y + 1
  /\ UNCHANGED <<cursor_x, cursor_y, current_fg_color, screen, pc, c, panic>>

(* terminal_scroll: one row is copied up.                                  *)
ScrollRow ==
  /\ pc = "scroll" /\ y < Height - 1
  /\ buffer' = [i \in DOMAIN buffer |->
       IF i \div Width = y THEN buffer[i + Width] ELSE buffer[i]]
  /\ y' = y + 1
  /\ UNCHANGED <<cursor_x, cursor_y, current_fg_color, screen, pc, c, panic>>

(* The last row is blanked and the cursor goes up.                         *)
ScrollEnd ==
  /\ pc = "scroll" /\ y >= Height - 1
  /\ buffer' = [i \in DOMAIN buffer |->
       IF i \div Width = Height - 1 THEN BlankCell ELSE buffer[i]]
  /\ cursor_y' = cursor_y - 1
  /\ pc' = IF c = Newline THEN "render" ELSE "idle"
  /\ y' = 0
  /\ UNCHANGED <<cursor_x, current_fg_color, screen, c, panic>>

(* terminal_render: the screen goes black, and is drawn row by row.        *)
RenderStart ==
  /\ pc = "render"
  /\ framebuffer' = [r \in Rows |-> [x \in Columns |-> Black]]
  /\ ssfn_dst_y' = 0
  /\ pc' = "draw" /\ y' = 0
  /\ UNCHANGED <<terminal, c, panic>>

RenderRow ==
  /\ pc = "draw" /\ y < Height
  /\ framebuffer' = [r \in Rows |-> IF r = ssfn_dst_y THEN Line(y) ELSE framebuffer[r]]
  /\ ssfn_dst_y' = ssfn_dst_y + 1
  /\ y' = y + 1
  /\ UNCHANGED <<terminal, pc, c, panic>>

RenderEnd ==
  /\ pc = "draw" /\ y >= Height
  /\ pc' = "idle" /\ y' = 0
  /\ UNCHANGED <<terminal, screen, c, panic>>

-----------------------------------------------------------------------------
(* The kernel prints a character or changes the colour.                    *)
KernelWrites ==
  /\ panics = 0
  /\ \E ch \in Characters \cup {Newline, Backspace} : terminal_write_char(ch)
  /\ UNCHANGED panic

(* An exception, at any point: isr_handler calls kernel_panic.             *)
kernel_panic ==
  /\ pc \notin {"off", "halted"} /\ panics < MaxPanics
  /\ terminal_clear
  /\ panics' = panics + 1 /\ message' = Message
  /\ pc' = "idle" /\ c' = Space /\ y' = 0
  /\ UNCHANGED <<current_fg_color, screen>>

(* The message is printed character by character.                          *)
PanicRepeats ==    \* mutant: the same character again and again
  /\ panics > 0 /\ message # <<>>
  /\ terminal_write_char(Head(message))
  /\ UNCHANGED panic
PanicWrites ==
  /\ panics > 0 /\ message # <<>>
  /\ terminal_write_char(Head(message))
  /\ message' = Tail(message)
  /\ UNCHANGED panics

(* hcf: interrupts off, halt, for ever.                                    *)
hcf ==
  /\ panics > 0 /\ message = <<>> /\ pc = "idle"
  /\ pc' = "halted"
  /\ UNCHANGED <<terminal, screen, c, y, panic>>

Working == ScrollRow \/ ScrollEnd \/ RenderStart \/ RenderRow \/ RenderEnd \/ PanicWrites \/ hcf

Next ==
  \/ terminal_initialize
  \/ \E fg \in Colors : terminal_setcolor(fg)
  \/ KernelWrites \/ kernel_panic \/ Working

(* One processor executes the code: what it has begun goes on.  Nothing is *)
(* assumed of exceptions and of what the kernel prints.                    *)
Spec == Init /\ [][Next]_vars /\ WF_vars(Working)

-----------------------------------------------------------------------------
(* Every variable has its type, and the cursor is on the screen, or in the *)
(* row below it until the scroll is done.                                  *)
TypeOK ==
  /\ buffer \in [0 .. (Width * Height - 1) -> Cell]
  /\ cursor_x \in Columns /\ cursor_y \in 0 .. Height /\ current_fg_color \in Colors
  /\ cursor_y = Height <=> pc = "scroll"
  /\ pc \in {"off", "idle", "scroll", "render", "draw", "halted"}
  /\ c \in Characters \cup {Space, Newline, Backspace}
  /\ y \in 0 .. Height /\ ssfn_dst_y \in 0 .. Height
  /\ panics \in 0 .. MaxPanics /\ message \in Seq(Characters \cup {Newline})

(* What is on the page: the cells before the cursor.  Of a scroll the rows *)
(* below y are still where they were.                                      *)
Text ==
  IF pc = "scroll"
  THEN [i \in 1 .. ((Height - 1) * Width) |->
          Glyph(buffer[IF (i - 1) \div Width < y THEN i - 1 ELSE i - 1 + Width])]
  ELSE [i \in 1 .. (cursor_y * Width + cursor_x) |-> Glyph(buffer[i - 1])]

(* The terminal is a page to those who write to it.                        *)
Page == INSTANCE TextPage WITH text <- Text, color <- current_fg_color

IsPage == Page!Spec

(* The screen shows this text and nothing else.                            *)
Shows(text) ==
  \A r \in Rows, x \in Columns :
    LET i == r * Width + x + 1 IN
    framebuffer[r][x] = IF i <= Len(text) THEN text[i] ELSE Black

(* A newline flushes: when its write returns all that was written is on    *)
(* the screen, and nothing that was erased or scrolled away.               *)
NewlineFlushes == pc = "idle" /\ c = Newline => Shows(Text)

(* When the kernel has halted the screen shows the message of the panic    *)
(* and nothing of what it interrupted, however far a scroll or a rendering *)
(* had got, and whether or not the panic was itself interrupted.           *)
PanicShown == pc = "halted" => Shows(Page!Typeset(Message, current_fg_color))

(* A panic ends in a halt.                                                 *)
PanicHalts == (panics > 0) ~> (pc = "halted")
=============================================================================
