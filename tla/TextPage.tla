------------------------------ MODULE TextPage ------------------------------
(***************************************************************************)
(* What the terminal is to those who write to it: a page of Height rows of *)
(* Width characters, filled from the top left.  A page is the sequence of  *)
(* what has been put on it, short of its last cell: when the last row is   *)
(* left the first one is gone.  Nothing is said here of a cell buffer, a   *)
(* cursor or a framebuffer.  Terminal is shown to implement this module.   *)
(***************************************************************************)
EXTENDS Integers, SequencesExt

CONSTANTS Width, Height,    \* of the page, in characters
          Characters,       \* what may be written, beside the next two
          Newline, Backspace, Space,
          Colors, White

VARIABLES text,    \* what is on the page: glyphs, row after row
          color    \* what is written next has this colour

(* A space looks the same in all colours.                                  *)
Glyph(c, fg) == IF c = Space THEN <<Space, White>> ELSE <<c, fg>>
Blank == Glyph(Space, White)

(* When the page is full its first row goes.                               *)
Feed(page) ==
  IF Len(page) = Width * Height THEN SubSeq(page, Width + 1, Len(page)) ELSE page

(* The page after one more character.                                      *)
Type(page, c, fg) ==
  IF c = Newline
  THEN Feed(page \o [i \in 1 .. (Width - (Len(page) % Width)) |-> Blank])
  ELSE IF c = Backspace
  THEN IF page = <<>> THEN <<>> ELSE Front(page)
  ELSE Feed(Append(page, Glyph(c, fg)))

(* What an empty page looks like after a text.                             *)
Typeset(message, fg) ==
  FoldLeft(LAMBDA page, c : Type(page, c, fg), <<>>, message)

Init == text = <<>> /\ color = White

Write == 
  /\ \E c \in Characters \cup {Newline, Backspace} : text' = Type(text, c, color)
  /\ UNCHANGED color

SetColor == color' \in Colors /\ UNCHANGED text

Clear == text' = <<>> /\ UNCHANGED color

Next == Write \/ SetColor \/ Clear

Spec == Init /\ [][Next]_<<text, color>>
=============================================================================
