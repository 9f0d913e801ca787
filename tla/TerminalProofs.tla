--------------------------- MODULE TerminalProofs ---------------------------
(***************************************************************************)
(* Theorems about Terminal, for screens, texts and panic messages of every *)
(* size.  Cells are numbered row by row, and most of what has to be shown  *)
(* of a step is where the numbers of a row begin and end.                  *)
(***************************************************************************)
EXTENDS Terminal, Lemmas

-----------------------------------------------------------------------------
(* Rows of cells.                                                          *)

LEMMA RowEnds ==
  ASSUME NEW r \in Nat, NEW s \in Nat
  PROVE  /\ r * Width \in Nat /\ (r + 1) * Width = r * Width + Width
         /\ r < s => r * Width + Width <= s * Width
         /\ Width * s = s * Width
<1> USE SizeAssumption
<1>1. r * Width \in Nat /\ (r + 1) * Width = r * Width + Width /\ Width * s = s * Width
  OBVIOUS
<1>2. ASSUME r < s PROVE r * Width + Width <= s * Width
  <2>1. r + 1 = s \/ r + 1 < s
    BY <1>2
  <2>2. r + 1 < s => Width * (r + 1) < Width * s
    BY TimesMonotone
  <2>3. Width * (r + 1) = r * Width + Width /\ Width * s = s * Width
    OBVIOUS
  <2>4. s * Width \in Nat
    OBVIOUS
  <2> QED
    BY <1>1, <2>1, <2>2, <2>3, <2>4
<1> QED
  BY <1>1, <1>2

(* The cell in a row and a column, and the row of a cell.                  *)
LEMMA CellOf ==
  ASSUME NEW r \in Nat, NEW x \in Columns
  PROVE  /\ r * Width + x \in Nat
         /\ (r * Width + x) \div Width = r /\ (r * Width + x) % Width = x
         /\ r < Height => r * Width + x \in 0 .. (Width * Height - 1)
<1> USE SizeAssumption
<1> DEFINE i == r * Width + x
<1>1. x \in 0 .. (Width - 1) /\ r * Width \in Nat /\ r * Width = Width * r
  BY DEF Columns
<1>2. i \in Nat /\ i = Width * r + x
  BY <1>1
<1> HIDE DEF i
<1>3. i \div Width = r
  BY <1>1, <1>2, UniqueQuotient
<1>4. i % Width = x
  <2>1. i = Width * (i \div Width) + (i % Width) /\ i % Width \in 0 .. (Width - 1)
    BY <1>2, Division
  <2> QED
    BY <1>1, <1>2, <1>3, <2>1
<1>5. r < Height => i < Width * Height
  <2>1. r < Height => r * Width + Width <= Height * Width
    BY RowEnds
  <2>2. Width * Height = Height * Width /\ Height * Width \in Nat
    OBVIOUS
  <2> QED
    BY <1>1, <1>2, <2>1, <2>2
<1>6. Width * Height \in Nat
  OBVIOUS
<1> QED
  BY <1>2, <1>3, <1>4, <1>5, <1>6 DEF i

LEMMA RowOf ==
  ASSUME NEW i \in Nat
  PROVE  /\ i \div Width \in Nat /\ i % Width \in Columns
         /\ i = (i \div Width) * Width + (i % Width)
<1> USE SizeAssumption
<1>1. /\ i \div Width \in Nat /\ i % Width \in 0 .. (Width - 1)
      /\ i = Width * (i \div Width) + (i % Width)
  BY Division
<1>2. Width * (i \div Width) = (i \div Width) * Width
  BY <1>1
<1> QED
  BY <1>1, <1>2 DEF Columns

LEMMA RowBounds ==
  ASSUME NEW i \in Nat, NEW r \in Nat
  PROVE  /\ i < r * Width <=> i \div Width < r
         /\ i >= r * Width <=> i \div Width >= r
<1> USE SizeAssumption
<1> DEFINE q == i \div Width
           x == i % Width
<1>1. q \in Nat /\ x \in 0 .. (Width - 1) /\ i = q * Width + x
  BY RowOf DEF Columns
<1> HIDE DEF q, x
<1>2. q * Width \in Nat /\ r * Width \in Nat
  BY <1>1
<1>3. q < r => i < r * Width
  <2>1. q < r => q * Width + Width <= r * Width
    BY <1>1, RowEnds
  <2> QED
    BY <1>1, <1>2, <2>1
<1>4. q >= r => i >= r * Width
  <2>1. r < q => r * Width + Width <= q * Width
    BY <1>1, RowEnds
  <2> QED
    BY <1>1, <1>2, <2>1
<1>5. i < r * Width <=> q < r
  BY <1>1, <1>2, <1>3, <1>4
<1>6. i >= r * Width <=> q >= r
  BY <1>1, <1>2, <1>3, <1>4
<1> QED
  BY <1>5, <1>6 DEF q

LEMMA RowBelow ==
  ASSUME NEW i \in Nat
  PROVE  (i + Width) \div Width = (i \div Width) + 1
<1> USE SizeAssumption
<1> DEFINE q == i \div Width
           x == i % Width
<1>1. q \in Nat /\ x \in Columns /\ x \in Nat /\ i = q * Width + x
  BY RowOf DEF Columns
<1> HIDE DEF q, x
<1>2. (q + 1) * Width = q * Width + Width /\ q + 1 \in Nat /\ q * Width \in Nat
  BY <1>1, RowEnds
<1>3. i + Width = (q + 1) * Width + x
  BY <1>1, <1>2
<1>4. ((q + 1) * Width + x) \div Width = q + 1
  BY <1>1, <1>2, CellOf
<1> QED
  BY <1>3, <1>4 DEF q

-----------------------------------------------------------------------------
(* The inductive invariant.                                                *)

Place == cursor_y * Width + cursor_x

(* From the cursor on there is nothing to be seen.                         *)
BlankAfter ==
  pc # "scroll" => \A i \in DOMAIN buffer : i >= Place => Glyph(buffer[i]) = Black

(* The rows above the loop variable have been drawn, in their places.      *)
Drawn ==
  pc = "draw" =>
    /\ ssfn_dst_y = y
    /\ \A r \in Rows :
         framebuffer[r] = IF r < y THEN Line(r) ELSE [x \in Columns |-> Black]

Modes ==
  /\ pc = "off" => /\ cursor_x = 0 /\ cursor_y = 0 /\ current_fg_color = White
                   /\ panics = 0 /\ c = Space
  /\ pc = "scroll" => cursor_x = 0 /\ y <= Height - 1
  /\ pc \in {"render", "draw", "halted"} => c = Newline
  /\ pc = "halted" => panics > 0 /\ message = <<>>

Flushed == pc \in {"idle", "halted"} /\ c = Newline => Shows(Text)

CellsInv == TypeOK /\ Modes /\ BlankAfter /\ Drawn /\ Flushed

LEMMA Cells ==
  ASSUME TypeOK
  PROVE  /\ Width \in Nat /\ Width >= 1 /\ Height \in Nat /\ Height >= 1
         /\ Width * Height \in Nat
         /\ DOMAIN buffer = 0 .. (Width * Height - 1)
         /\ \A i \in DOMAIN buffer : buffer[i] \in Cell
         /\ BlankCell \in Cell /\ Glyph(BlankCell) = Black
         /\ pc # "scroll" => cursor_y \in Rows
         /\ cursor_x \in Columns /\ cursor_y \in 0 .. Height
         /\ Rows = 0 .. (Height - 1) /\ Columns = 0 .. (Width - 1)
BY SizeAssumption, TextAssumption
DEF TypeOK, BlankCell, Cell, Glyph, Black, Rows, Columns

LEMMA PlaceIs ==
  ASSUME TypeOK, pc # "scroll"
  PROVE  /\ Place \in DOMAIN buffer /\ Place \in Nat
         /\ Place \div Width = cursor_y /\ Place % Width = cursor_x
<1>1. cursor_y \in Nat /\ cursor_y < Height /\ cursor_x \in Columns
  BY Cells DEF TypeOK, Rows
<1> QED
  BY <1>1, CellOf, Cells DEF Place

(* Going back one cell, over the start of a row as well.                   *)
LEMMA BackPlace ==
  ASSUME TypeOK, pc = "idle", BackOne
  PROVE  Place' = IF Place = 0 THEN 0 ELSE Place - 1
<1> USE SizeAssumption
<1>a. /\ cursor_y \in Nat /\ cursor_x \in Nat /\ cursor_x < Width /\ cursor_y < Height
      /\ cursor_y * Width \in Nat
  BY Cells DEF TypeOK, Columns, Rows
<1>1. CASE cursor_x > 0
  BY <1>a, <1>1 DEF BackOne, Place
<1>2. CASE cursor_x = 0 /\ cursor_y > 0
  <2>1. cursor_y - 1 \in Nat /\ cursor_y - 1 + 1 = cursor_y
    BY <1>a, <1>2
  <2>2. cursor_y * Width = (cursor_y - 1) * Width + Width /\ (cursor_y - 1) * Width \in Nat
    BY <2>1, RowEnds
  <2> QED
    BY <1>a, <1>2, <2>2 DEF BackOne, Place
<1>3. CASE cursor_x = 0 /\ cursor_y = 0
  <2>1. 0 * Width = 0
    OBVIOUS
  <2> QED
    BY <1>3, <2>1 DEF BackOne, Place
<1> QED
  BY <1>a, <1>1, <1>2, <1>3

LEMMA CellsInit == Init => CellsInv
<1> SUFFICES ASSUME Init PROVE CellsInv
  OBVIOUS
<1> USE SizeAssumption, TextAssumption
<1>1. TypeOK
  BY DEF Init, TypeOK, BlankCell, Cell, Columns
<1>2. Modes /\ Drawn /\ Flushed
  BY DEF Init, Modes, Drawn, Flushed
<1>3. BlankAfter
  BY DEF Init, BlankAfter, BlankCell, Glyph, Black
<1> QED
  BY <1>1, <1>2, <1>3 DEF CellsInv

(* Clearing the terminal.                                                  *)
LEMMA ClearedBlank ==
  ASSUME TypeOK, terminal_clear
  PROVE  /\ buffer' \in [0 .. (Width * Height - 1) -> Cell]
         /\ BlankAfter'
BY Cells DEF terminal_clear, BlankAfter

LEMMA InitializeCells ==
  ASSUME CellsInv, terminal_initialize
  PROVE  CellsInv'
<1> USE SizeAssumption, TextAssumption
<1>1. BlankAfter' /\ buffer' \in [0 .. (Width * Height - 1) -> Cell]
  BY ClearedBlank DEF terminal_initialize, CellsInv
<1>2. TypeOK'
  BY <1>1 DEF terminal_initialize, terminal_clear, CellsInv, TypeOK, panic, Columns
<1>3. Modes' /\ Drawn' /\ Flushed'
  BY DEF terminal_initialize, CellsInv, Modes, Drawn, Flushed
<1> QED
  BY <1>1, <1>2, <1>3 DEF CellsInv

LEMMA PanicCells ==
  ASSUME CellsInv, kernel_panic
  PROVE  CellsInv'
<1> USE SizeAssumption, TextAssumption
<1>1. BlankAfter' /\ buffer' \in [0 .. (Width * Height - 1) -> Cell]
  BY ClearedBlank DEF kernel_panic, CellsInv
<1>2. TypeOK'
  BY <1>1 DEF kernel_panic, terminal_clear, CellsInv, TypeOK, screen, Columns
<1>3. Modes' /\ Drawn' /\ Flushed'
  BY DEF kernel_panic, CellsInv, Modes, Drawn, Flushed
<1> QED
  BY <1>1, <1>2, <1>3 DEF CellsInv

(* Writing a character.                                                    *)
LEMMA WriteCells ==
  ASSUME CellsInv, NEW ch \in Characters \cup {Newline, Backspace, Space},
         terminal_write_char(ch),
         panics' = panics, message' \in Seq(Characters \cup {Newline})
  PROVE  CellsInv'
<1> USE SizeAssumption, TextAssumption
<1>a. /\ pc = "idle" /\ cursor_y \in Rows /\ cursor_x \in Columns
      /\ cursor_y \in Nat /\ cursor_x \in Nat /\ cursor_y < Height /\ cursor_x < Width
      /\ current_fg_color' = current_fg_color /\ current_fg_color \in Colors
      /\ framebuffer' = framebuffer /\ ssfn_dst_y' = ssfn_dst_y
      /\ Place \in DOMAIN buffer /\ Place \in Nat
      /\ Newline # Backspace /\ Newline \notin Characters \cup {Space}
  BY Cells, PlaceIs DEF terminal_write_char, CellsInv, TypeOK, screen, Rows, Columns
<1>b. ASSUME NEW row, Continue(ch, row)
      PROVE  /\ pc' = IF row >= Height THEN "scroll"
                      ELSE IF ch = Newline THEN "render" ELSE "idle"
             /\ y' = 0 /\ c' = ch
  BY <1>b DEF Continue
<1>c. ASSUME /\ buffer' \in [0 .. (Width * Height - 1) -> Cell]
             /\ cursor_x' \in Columns /\ cursor_y' \in 0 .. Height
             /\ cursor_y' = Height => cursor_x' = 0
             /\ Continue(ch, cursor_y')
             /\ BlankAfter'
      PROVE  CellsInv'
  <2>1. TypeOK'
    BY <1>a, <1>b, <1>c DEF CellsInv, TypeOK
  <2>2. Modes' /\ Drawn'
    BY <1>a, <1>b, <1>c, Cells DEF Modes, Drawn, CellsInv
  <2>3. Flushed'
    BY <1>b, <1>c DEF Flushed
  <2> QED
    BY <1>c, <2>1, <2>2, <2>3 DEF CellsInv
<1>1. CASE ch = Newline /\ WriteNewline
  <2>1. /\ cursor_x' = 0 /\ cursor_y' = cursor_y + 1 /\ buffer' = buffer
        /\ Continue(ch, cursor_y')
    BY <1>1 DEF WriteNewline
  <2>2. (cursor_y + 1) * Width = cursor_y * Width + Width /\ cursor_y * Width \in Nat
    BY <1>a, RowEnds
  <2>3. Place' >= Place /\ Place' \in Nat
    BY <1>a, <2>1, <2>2 DEF Place
  <2>4. BlankAfter'
    BY <1>a, <2>1, <2>3, Cells DEF BlankAfter, CellsInv
  <2> QED
    BY <1>a, <1>c, <2>1, <2>4, Cells DEF CellsInv, TypeOK
<1>2. CASE ch = Backspace /\ WriteBackspace
  <2>1. /\ BackOne /\ Continue(ch, cursor_y')
        /\ buffer' = [buffer EXCEPT ![Place'].character = Space]
    BY <1>2 DEF WriteBackspace, Place
  <2>2. cursor_x' \in Columns /\ cursor_y' \in Rows
    BY <1>a, <2>1, Cells DEF BackOne, CellsInv
  <2>3. Place' \in DOMAIN buffer /\ Place' \in Nat
    <3>1. cursor_y' \in Nat /\ cursor_y' < Height
      BY <2>2 DEF Rows
    <3> QED
      BY <2>2, <3>1, CellOf, Cells DEF Place, CellsInv
  <2>4. buffer' \in [0 .. (Width * Height - 1) -> Cell]
    BY <2>1, <2>3 DEF CellsInv, TypeOK, Cell
  <2>5. Place' = Place \/ Place' = Place - 1
    BY <1>a, <2>1, BackPlace DEF CellsInv
  <2>6. BlankAfter'
    <3> SUFFICES ASSUME NEW i \in DOMAIN buffer', i >= Place'
                 PROVE  Glyph(buffer'[i]) = Black
      BY DEF BlankAfter
    <3>1. i \in DOMAIN buffer /\ i \in Nat
      BY <2>1, Cells DEF CellsInv
    <3>2. CASE i = Place'
      <4>1. buffer'[i].character = Space
        BY <2>1, <3>1, <3>2, Cells DEF Cell, CellsInv
      <4> QED
        BY <4>1 DEF Glyph, Black
    <3>3. CASE i # Place'
      <4>1. buffer'[i] = buffer[i] /\ i >= Place
        BY <1>a, <2>1, <2>3, <2>5, <3>1, <3>3
      <4> QED
        BY <1>a, <3>1, <4>1 DEF BlankAfter, CellsInv
    <3> QED
      BY <3>2, <3>3
  <2> QED
    BY <1>c, <2>1, <2>2, <2>4, <2>6 DEF Rows
<1>3. CASE ch \in Characters \cup {Space} /\ WriteNormal(ch)
  <2>1. /\ Continue(ch, cursor_y')
        /\ buffer' = [buffer EXCEPT ![Place] =
                        [character |-> ch, fg_color |-> current_fg_color]]
        /\ IF cursor_x + 1 >= Width
           THEN cursor_x' = 0 /\ cursor_y' = cursor_y + 1
           ELSE cursor_x' = cursor_x + 1 /\ cursor_y' = cursor_y
    BY <1>3 DEF WriteNormal, Place
  <2>2. cursor_x' \in Columns /\ cursor_y' \in 0 .. Height /\ (cursor_y' = Height => cursor_x' = 0)
    BY <1>a, <2>1 DEF Columns
  <2>3. buffer' \in [0 .. (Width * Height - 1) -> Cell]
    BY <1>3, <1>a, <2>1 DEF CellsInv, TypeOK, Cell
  <2>4. Place' = Place + 1
    <3>1. (cursor_y + 1) * Width = cursor_y * Width + Width /\ cursor_y * Width \in Nat
      BY <1>a, RowEnds
    <3> QED
      BY <1>a, <2>1, <3>1, Cells DEF Place, CellsInv
  <2>5. BlankAfter'
    <3> SUFFICES ASSUME NEW i \in DOMAIN buffer', i >= Place'
                 PROVE  Glyph(buffer'[i]) = Black
      BY DEF BlankAfter
    <3>1. i \in DOMAIN buffer /\ i \in Nat
      BY <2>1, Cells DEF CellsInv
    <3>2. buffer'[i] = buffer[i] /\ i >= Place
      BY <1>a, <2>1, <2>4, <3>1
    <3> QED
      BY <1>a, <3>1, <3>2 DEF BlankAfter, CellsInv
  <2> QED
    BY <1>c, <2>1, <2>2, <2>3, <2>5
<1> QED
  BY <1>1, <1>2, <1>3 DEF terminal_write_char

(* Scrolling.                                                              *)
LEMMA ScrollRowCells ==
  ASSUME CellsInv, ScrollRow
  PROVE  CellsInv'
<1> USE SizeAssumption, TextAssumption
<1>1. /\ pc = "scroll" /\ pc' = "scroll" /\ y < Height - 1 /\ y' = y + 1 /\ y \in Nat
      /\ buffer' = [i \in DOMAIN buffer |->
           IF i \div Width = y THEN buffer[i + Width] ELSE buffer[i]]
  BY DEF ScrollRow, CellsInv, TypeOK
<1>2. ASSUME NEW i \in DOMAIN buffer, i \div Width = y
      PROVE  i + Width \in DOMAIN buffer
  <2>1. i \in Nat /\ i + Width \in Nat /\ Height \in Nat
    BY Cells DEF CellsInv
  <2>2. (i + Width) \div Width = (i \div Width) + 1
    BY <2>1, RowBelow
  <2> DEFINE q == (i + Width) \div Width
  <2>3. q < Height
    <3>1. q = y + 1
      BY <1>2, <2>2
    <3> HIDE DEF q
    <3> QED
      BY <1>1, <2>1, <3>1
  <2>4. i + Width < Height * Width
    BY <2>1, <2>3, RowBounds
  <2> QED
    BY <2>1, <2>4, Cells, RowEnds DEF CellsInv
<1>3. buffer' \in [0 .. (Width * Height - 1) -> Cell]
  BY <1>1, <1>2, Cells DEF CellsInv
<1>4. TypeOK'
  BY <1>1, <1>3 DEF ScrollRow, CellsInv, TypeOK, screen, panic
<1>5. Modes' /\ BlankAfter' /\ Drawn' /\ Flushed'
  BY <1>1 DEF ScrollRow, CellsInv, TypeOK, Modes, BlankAfter, Drawn, Flushed
<1> QED
  BY <1>4, <1>5 DEF CellsInv

LEMMA ScrollEndCells ==
  ASSUME CellsInv, ScrollEnd
  PROVE  CellsInv'
<1> USE SizeAssumption, TextAssumption
<1>1. /\ pc = "scroll" /\ pc' = IF c = Newline THEN "render" ELSE "idle"
      /\ c' = c /\ y' = 0 /\ cursor_y = Height /\ cursor_y' = Height - 1
      /\ cursor_x = 0 /\ cursor_x' = 0 /\ Height - 1 \in Nat
      /\ buffer' = [i \in DOMAIN buffer |->
           IF i \div Width = Height - 1 THEN BlankCell ELSE buffer[i]]
  BY DEF ScrollEnd, CellsInv, TypeOK, Modes
<1>2. TypeOK'
  <2>1. buffer' \in [0 .. (Width * Height - 1) -> Cell]
    BY <1>1, Cells DEF CellsInv
  <2>2. /\ pc' \in {"render", "idle"} /\ cursor_y' \in 0 .. Height /\ cursor_y' # Height
        /\ cursor_x' \in Columns /\ y' \in 0 .. Height /\ c' = c
    BY <1>1 DEF Columns
  <2> QED
    BY <2>1, <2>2 DEF ScrollEnd, CellsInv, TypeOK, screen, panic
<1>3. BlankAfter'
  <2> SUFFICES ASSUME NEW i \in DOMAIN buffer', i >= Place'
               PROVE  Glyph(buffer'[i]) = Black
    BY DEF BlankAfter
  <2>1. i \in DOMAIN buffer /\ i \in Nat /\ i < Width * Height
    BY <1>1, Cells DEF CellsInv
  <2>2. i >= (Height - 1) * Width
    BY <1>1, <2>1 DEF Place
  <2>3. i \div Width >= Height - 1
    BY <1>1, <2>1, <2>2, RowBounds
  <2>4. i \div Width < Height
    <3>1. i < Height * Width
      BY <2>1, RowEnds
    <3> QED
      BY <2>1, <3>1, RowBounds
  <2> DEFINE q == i \div Width
  <2>5. i \div Width = Height - 1
    <3>1. q \in Nat /\ q >= Height - 1 /\ q < Height
      BY <2>1, <2>3, <2>4, RowOf
    <3> HIDE DEF q
    <3>2. q = Height - 1
      BY <3>1
    <3> QED
      BY <3>2 DEF q
  <2> QED
    BY <1>1, <2>1, <2>5, Cells DEF CellsInv
<1>4. Modes' /\ Drawn' /\ Flushed'
  BY <1>1 DEF ScrollEnd, CellsInv, Modes, Drawn, Flushed
<1> QED
  BY <1>2, <1>3, <1>4 DEF CellsInv

(* Rendering.                                                              *)
LEMMA RenderStartCells ==
  ASSUME CellsInv, RenderStart
  PROVE  CellsInv'
<1> USE SizeAssumption, TextAssumption
<1>1. /\ pc = "render" /\ pc' = "draw" /\ y' = 0 /\ ssfn_dst_y' = 0 /\ c' = c
      /\ buffer' = buffer /\ cursor_x' = cursor_x /\ cursor_y' = cursor_y
      /\ framebuffer' = [r \in Rows |-> [x \in Columns |-> Black]]
  BY DEF RenderStart, terminal
<1>2. TypeOK'
  BY <1>1 DEF RenderStart, CellsInv, TypeOK, terminal, panic
<1>3. Drawn'
  BY <1>1 DEF Drawn, Rows
<1>4. Modes' /\ BlankAfter' /\ Flushed'
  BY <1>1 DEF CellsInv, Modes, BlankAfter, Flushed, Place
<1> QED
  BY <1>2, <1>3, <1>4 DEF CellsInv

LEMMA RenderRowCells ==
  ASSUME CellsInv, RenderRow
  PROVE  CellsInv'
<1> USE SizeAssumption, TextAssumption
<1>1. /\ pc = "draw" /\ pc' = "draw" /\ y < Height /\ y' = y + 1 /\ y \in Nat
      /\ ssfn_dst_y = y /\ ssfn_dst_y' = y + 1 /\ c' = c
      /\ buffer' = buffer /\ cursor_x' = cursor_x /\ cursor_y' = cursor_y
      /\ framebuffer' = [r \in Rows |-> IF r = y THEN Line(y) ELSE framebuffer[r]]
  BY DEF RenderRow, terminal, CellsInv, TypeOK, Drawn
<1>2. TypeOK'
  BY <1>1 DEF RenderRow, CellsInv, TypeOK, terminal, panic
<1>3. \A r \in Rows : Line(r)' = Line(r)
  BY <1>1 DEF Line
<1>4. Drawn'
  <2>1. \A r \in Rows : framebuffer'[r] = IF r < y + 1 THEN Line(r) ELSE [x \in Columns |-> Black]
    BY <1>1 DEF CellsInv, Drawn, Rows
  <2> QED
    BY <1>1, <1>3, <2>1 DEF Drawn
<1>5. Modes' /\ BlankAfter' /\ Flushed'
  BY <1>1 DEF CellsInv, Modes, BlankAfter, Flushed, Place
<1> QED
  BY <1>2, <1>4, <1>5 DEF CellsInv

(* When all rows have been drawn the screen shows the text.                *)
LEMMA AllDrawn ==
  ASSUME CellsInv, pc = "draw", y >= Height
  PROVE  Shows([i \in 1 .. Place |-> Glyph(buffer[i - 1])])
<1> USE SizeAssumption
<1> DEFINE text == [i \in 1 .. Place |-> Glyph(buffer[i - 1])]
<1>1. Place \in Nat
  BY PlaceIs DEF CellsInv
<1>2. Len(text) = Place
  BY <1>1
<1> SUFFICES ASSUME NEW r \in Rows, NEW x \in Columns
             PROVE  framebuffer[r][x]
                      = IF r * Width + x + 1 <= Place THEN text[r * Width + x + 1] ELSE Black
  BY <1>2 DEF Shows
<1>a. r \in Nat /\ r < Height /\ r < y
  BY DEF Rows, CellsInv, TypeOK
<1>3. framebuffer[r][x] = Glyph(buffer[r * Width + x])
  <2>1. framebuffer[r] = Line(r)
    BY <1>a DEF CellsInv, Drawn
  <2> QED
    BY <2>1 DEF Line
<1>4. r * Width + x \in DOMAIN buffer /\ r * Width + x \in Nat
  BY <1>a, CellOf, Cells DEF CellsInv
<1> DEFINE i == r * Width + x
<1>5. i \in DOMAIN buffer /\ i \in Nat
  BY <1>4
<1> HIDE DEF i
<1>6. CASE i + 1 <= Place
  <2>1. text[i + 1] = Glyph(buffer[i])
    BY <1>1, <1>5, <1>6
  <2> QED
    BY <1>3, <1>6, <2>1 DEF i
<1>7. CASE ~ (i + 1 <= Place)
  <2>1. Glyph(buffer[i]) = Black
    BY <1>1, <1>5, <1>7 DEF CellsInv, BlankAfter
  <2> QED
    BY <1>3, <1>7, <2>1 DEF i
<1> QED
  BY <1>6, <1>7

LEMMA RenderEndCells ==
  ASSUME CellsInv, RenderEnd
  PROVE  CellsInv'
<1> USE SizeAssumption, TextAssumption
<1>1. /\ pc = "draw" /\ y >= Height /\ pc' = "idle" /\ y' = 0 /\ c' = c
      /\ buffer' = buffer /\ cursor_x' = cursor_x /\ cursor_y' = cursor_y
      /\ framebuffer' = framebuffer /\ Place' = Place
  BY DEF RenderEnd, terminal, screen, Place
<1>2. TypeOK'
  BY <1>1 DEF RenderEnd, CellsInv, TypeOK, terminal, screen, panic
<1>3. Flushed'
  <2>1. Text' = [i \in 1 .. Place |-> Glyph(buffer[i - 1])]
    BY <1>1 DEF Text, Place
  <2>2. \A text : Shows(text) => Shows(text)'
    BY <1>1 DEF Shows
  <2> QED
    BY <1>1, <2>1, <2>2, AllDrawn DEF Flushed, Shows
<1>4. Modes' /\ BlankAfter' /\ Drawn'
  BY <1>1 DEF CellsInv, Modes, BlankAfter, Drawn
<1> QED
  BY <1>2, <1>3, <1>4 DEF CellsInv

(* Nothing that is shown or kept changes.                                  *)
Quiet ==
  /\ buffer' = buffer /\ cursor_x' = cursor_x /\ cursor_y' = cursor_y
  /\ framebuffer' = framebuffer /\ ssfn_dst_y' = ssfn_dst_y /\ c' = c /\ y' = y
  /\ panics' = panics /\ message' = message
  /\ pc' = pc \/ (pc = "idle" /\ pc' = "halted" /\ panics > 0 /\ c = Newline)
  /\ pc' = "halted" => message = <<>>
  /\ current_fg_color' \in Colors
  /\ pc = "off" => current_fg_color' = current_fg_color

LEMMA QuietCells ==
  ASSUME CellsInv, Quiet
  PROVE  CellsInv'
<1> USE SizeAssumption, TextAssumption
<1>1. TypeOK'
  BY DEF Quiet, CellsInv, TypeOK
<1>2. Modes' /\ BlankAfter' /\ Drawn'
  BY DEF CellsInv, Modes, BlankAfter, Drawn, Place, Line, Quiet
<1>3. Flushed'
  <2>1. pc' = "scroll" <=> pc = "scroll"
    BY DEF Quiet
  <2>2. Text' = Text
    BY <2>1 DEF Text, Quiet
  <2> QED
    BY <2>2 DEF Flushed, Shows, CellsInv, Quiet
<1> QED
  BY <1>1, <1>2, <1>3 DEF CellsInv

-----------------------------------------------------------------------------
(* The terminal as a page: what a step does to the text.                   *)
Shown == {Glyph(cell) : cell \in Cell}

LEMMA TextIs ==
  ASSUME TypeOK, pc # "scroll"
  PROVE  /\ Text = [i \in 1 .. Place |-> Glyph(buffer[i - 1])]
         /\ Text \in Seq(Shown) /\ Len(Text) = Place
         /\ \A i \in 1 .. Place : i - 1 \in DOMAIN buffer /\ Text[i] = Glyph(buffer[i - 1])
<1>1. Text = [i \in 1 .. Place |-> Glyph(buffer[i - 1])]
  BY DEF Text, Place
<1>2. Place \in Nat /\ Place \in DOMAIN buffer
  BY PlaceIs
<1>3. \A i \in 1 .. Place : i - 1 \in DOMAIN buffer
  BY <1>2, Cells
<1>4. \A i \in 1 .. Place : Glyph(buffer[i - 1]) \in Shown
  BY <1>3, Cells DEF Shown
<1> HIDE DEF Place
<1>5. Text \in Seq(Shown) /\ Len(Text) = Place
  BY <1>1, <1>2, <1>4
<1> QED
  BY <1>1, <1>3, <1>5

(* The text after a write, from the cells before the cursor.               *)
LEMMA FedText ==
  ASSUME TypeOK', y' = 0, cursor_y' = Height => cursor_x' = 0,
         NEW page \in Seq(Shown), Len(page) = Place',
         \A i \in 1 .. Len(page) : page[i] = Glyph(buffer'[i - 1])
  PROVE  Text' = Page!Feed(page)
<1> USE SizeAssumption
<1>1. page = [i \in 1 .. Place' |-> Glyph(buffer'[i - 1])]
  <2>1. page = [i \in 1 .. Len(page) |-> page[i]]
    OBVIOUS
  <2> QED
    BY <2>1
<1>2. CASE pc' = "scroll"
  <2>1. cursor_y' = Height /\ cursor_x' = 0 /\ Height * Width \in Nat
    BY <1>2 DEF TypeOK
  <2>2. Place' = Width * Height /\ Place' \in Nat /\ Place' = (Height - 1) * Width + Width
    <3>1. Height - 1 + 1 = Height /\ Height - 1 \in Nat
      OBVIOUS
    <3>2. Height * Width = (Height - 1) * Width + Width
      BY <3>1, RowEnds
    <3> QED
      BY <2>1, <3>2 DEF Place
  <2>3. Page!Feed(page) = SubSeq(page, Width + 1, Len(page))
    BY <2>2 DEF Page!Feed
  <2> DEFINE m == (Height - 1) * Width
  <2>4. m \in Nat
    BY RowEnds
  <2>5. Text' = [i \in 1 .. m |-> Glyph(buffer'[i - 1 + Width])]
    <3>1. \A i \in 1 .. m : (i - 1) \div Width \in Nat
      <4> TAKE i \in 1 .. m
      <4>1. i - 1 \in Nat
        BY <2>4
      <4> QED
        BY <4>1, RowOf
    <3> DEFINE row(i) == (i - 1) \div Width
    <3>2. \A i \in 1 .. m : ~ (row(i) < 0)
      <4> TAKE i \in 1 .. m
      <4> DEFINE q == row(i)
      <4>1. q \in Nat
        BY <3>1
      <4> HIDE DEF q
      <4> QED
        BY <4>1 DEF q
    <3>3. Text' = [i \in 1 .. m |->
                     Glyph(buffer'[IF row(i) < y' THEN i - 1 ELSE i - 1 + Width])]
      BY <1>2 DEF Text
    <3> HIDE DEF row, m
    <3> QED
      BY <3>2, <3>3
  <2> HIDE DEF m
  <2>6. SubSeq(page, Width + 1, Len(page)) = [i \in 1 .. m |-> page[i + Width]]
    <3>1. Len(page) = m + Width /\ Len(page) \in Nat
      BY <2>2 DEF m
    <3> QED
      BY <2>4, <3>1
  <2>7. \A i \in 1 .. m : page[i + Width] = Glyph(buffer'[i + Width - 1]) /\ i + Width - 1 = i - 1 + Width
    <3>1. Len(page) = m + Width
      BY <2>2 DEF m
    <3> QED
      BY <2>4, <3>1
  <2> QED
    BY <2>3, <2>5, <2>6, <2>7
<1>3. CASE pc' # "scroll"
  <2>1. Text' = page
    BY <1>1, <1>3 DEF Text, Place
  <2>2. Place' < Width * Height /\ Place' \in Nat
    <3>1. cursor_y' \in Nat /\ cursor_y' < Height /\ cursor_x' \in Columns
      BY <1>3 DEF TypeOK
    <3>2. cursor_y' * Width + cursor_x' \in 0 .. (Width * Height - 1)
      BY <3>1, CellOf
    <3>3. Width * Height \in Nat
      OBVIOUS
    <3> QED
      BY <3>2, <3>3 DEF Place
  <2> QED
    BY <2>1, <2>2 DEF Page!Feed
<1> QED
  BY <1>2, <1>3

(* Writing a character puts it on the page.                                *)
LEMMA TextWritten ==
  ASSUME CellsInv, CellsInv', NEW ch \in Characters \cup {Newline, Backspace, Space},
         terminal_write_char(ch)
  PROVE  Text' = Page!Type(Text, ch, current_fg_color)
<1> USE SizeAssumption, TextAssumption
<1>a. /\ pc = "idle" /\ TypeOK /\ TypeOK' /\ Modes'
      /\ cursor_y \in Nat /\ cursor_x \in Nat /\ cursor_y < Height /\ cursor_x < Width
      /\ Newline # Backspace /\ Newline \notin Characters \cup {Space}
      /\ Backspace \notin Characters \cup {Space} /\ y' = 0
  <2>1. pc = "idle" /\ TypeOK /\ TypeOK' /\ Modes'
    BY DEF terminal_write_char, CellsInv
  <2>2. cursor_y \in Nat /\ cursor_x \in Nat /\ cursor_y < Height /\ cursor_x < Width
    BY <2>1 DEF TypeOK, Columns
  <2>3. /\ Newline # Backspace /\ Newline \notin Characters \cup {Space}
        /\ Backspace \notin Characters \cup {Space}
    OBVIOUS
  <2>4. y' = 0
    BY DEF terminal_write_char, WriteNewline, WriteBackspace, WriteNormal, Continue
  <2> QED
    BY <2>1, <2>2, <2>3, <2>4
<1>b. /\ Place \in Nat /\ Place \in DOMAIN buffer /\ Place % Width = cursor_x
      /\ Text \in Seq(Shown) /\ Len(Text) = Place
      /\ \A i \in 1 .. Place : i - 1 \in DOMAIN buffer /\ Text[i] = Glyph(buffer[i - 1])
  BY <1>a, PlaceIs, TextIs
<1>c. cursor_y' = Height => cursor_x' = 0
  BY <1>a DEF Modes, TypeOK
<1>d. \A i \in DOMAIN buffer : i >= Place => Glyph(buffer[i]) = Black
  BY <1>a DEF CellsInv, BlankAfter
<1>1. CASE ch = Newline /\ WriteNewline
  <2> DEFINE gap   == Width - cursor_x
             blank == [i \in 1 .. gap |-> Page!Blank]
             page  == Text \o blank
  <2>1. /\ cursor_x' = 0 /\ cursor_y' = cursor_y + 1 /\ buffer' = buffer
    BY <1>1 DEF WriteNewline
  <2>2. Page!Blank = Black /\ Black \in Shown
    <3>1. Page!Blank = Black
      BY DEF Page!Blank, Page!Glyph, Black
    <3> QED
      BY <1>a, <3>1, Cells DEF Shown
  <2>3. gap \in Nat /\ blank \in Seq(Shown) /\ Len(blank) = gap
    BY <1>a, <2>2
  <2>4. Place' = Place + gap /\ Place' \in Nat
    <3>1. (cursor_y + 1) * Width = cursor_y * Width + Width /\ cursor_y * Width \in Nat
      BY <1>a, RowEnds
    <3> QED
      BY <1>a, <2>1, <3>1 DEF Place
  <2>5. Place' <= Width * Height
    <3>1. cursor_y < Height => cursor_y * Width + Width <= Height * Width
      BY <1>a, RowEnds
    <3>2. (cursor_y + 1) * Width = cursor_y * Width + Width /\ cursor_y * Width \in Nat
          /\ Width * Height = Height * Width
      BY <1>a, RowEnds
    <3> QED
      BY <1>a, <2>1, <3>1, <3>2 DEF Place
  <2>6. page \in Seq(Shown) /\ Len(page) = Place'
    BY <1>b, <2>3, <2>4
  <2>7. \A i \in 1 .. Place' : page[i] = Glyph(buffer'[i - 1])
    <3> TAKE i \in 1 .. Place'
    <3>1. CASE i <= Place
      BY <1>b, <2>1, <2>3, <3>1
    <3>2. CASE ~ (i <= Place)
      <4>1. i - Place \in 1 .. gap
        BY <1>b, <2>3, <2>4, <3>2
      <4>2. page[i] = blank[i - Place]
        BY <1>b, <2>3, <2>4, <3>2
      <4>3. page[i] = Black
        BY <2>2, <4>1, <4>2
      <4>4. i - 1 \in DOMAIN buffer /\ i - 1 >= Place
        <5>1. i - 1 \in 0 .. (Width * Height - 1)
          BY <1>b, <2>4, <2>5, <3>2
        <5> QED
          BY <1>a, <1>b, <3>2, <5>1, Cells
      <4> QED
        BY <1>d, <2>1, <4>3, <4>4
    <3> QED
      BY <3>1, <3>2
  <2>8. Page!Type(Text, ch, current_fg_color) = Page!Feed(page)
    BY <1>1, <1>b DEF Page!Type
  <2> HIDE DEF page
  <2> QED
    BY <1>a, <1>c, <2>6, <2>7, <2>8, FedText
<1>2. CASE ch = Backspace /\ WriteBackspace
  <2>1. /\ BackOne /\ Continue(ch, cursor_y')
        /\ buffer' = [buffer EXCEPT ![Place'].character = Space]
    BY <1>2 DEF WriteBackspace, Place
  <2>2. Place' = IF Place = 0 THEN 0 ELSE Place - 1
    BY <1>a, <2>1, BackPlace
  <2>3. pc' # "scroll"
    BY <1>a, <2>1, Cells DEF BackOne, TypeOK, Rows
  <2>4. /\ Text' = [i \in 1 .. Place' |-> Glyph(buffer'[i - 1])]
    BY <1>a, <2>3 DEF Text, Place
  <2>5. \A i \in 1 .. Place' : Glyph(buffer'[i - 1]) = Text[i] /\ i \in 1 .. Place
    <3> TAKE i \in 1 .. Place'
    <3>a. Place # 0 /\ Place' = Place - 1
      BY <1>b, <2>2
    <3>b. i \in 1 .. Place /\ i - 1 # Place'
      BY <1>b, <3>a
    <3>1. i \in 1 .. Place /\ i - 1 # Place' /\ i - 1 \in DOMAIN buffer
      BY <1>b, <3>b
    <3>2. buffer'[i - 1] = buffer[i - 1]
      BY <2>1, <3>1
    <3> QED
      BY <1>b, <3>1, <3>2
  <2>6. Text' = [i \in 1 .. Place' |-> Text[i]]
    BY <2>4, <2>5
  <2>7. Page!Type(Text, ch, current_fg_color) = IF Text = <<>> THEN <<>> ELSE Front(Text)
    BY <1>2, <1>a DEF Page!Type, Page!Front, Front
  <2>8. CASE Place = 0
    <3>1. Text = <<>> /\ Place' = 0
      BY <1>b, <2>2, <2>8
    <3>2. Text' = <<>>
      BY <2>6, <3>1
    <3> QED
      BY <2>7, <3>1, <3>2
  <2>9. CASE Place # 0
    <3>1. Text # <<>> /\ Place' = Place - 1
      BY <1>b, <2>2, <2>9
    <3>2. Front(Text) = [i \in 1 .. Place - 1 |-> Text[i]]
      BY <1>b, <2>9 DEF Front
    <3> QED
      BY <2>6, <2>7, <3>1, <3>2
  <2> QED
    BY <2>8, <2>9
<1>3. CASE ch \in Characters \cup {Space} /\ WriteNormal(ch)
  <2> DEFINE cell == [character |-> ch, fg_color |-> current_fg_color]
             page == Append(Text, Glyph(cell))
  <2>1. /\ buffer' = [buffer EXCEPT ![Place] = cell]
        /\ IF cursor_x + 1 >= Width
           THEN cursor_x' = 0 /\ cursor_y' = cursor_y + 1
           ELSE cursor_x' = cursor_x + 1 /\ cursor_y' = cursor_y
    BY <1>3 DEF WriteNormal, Place
  <2>2. Place' = Place + 1
    <3>1. (cursor_y + 1) * Width = cursor_y * Width + Width /\ cursor_y * Width \in Nat
      BY <1>a, RowEnds
    <3> QED
      BY <1>a, <2>1, <3>1 DEF Place
  <2>3. cell \in Cell /\ Glyph(cell) \in Shown
    BY <1>a, <1>3 DEF Cell, TypeOK, Shown
  <2>4. Page!Glyph(ch, current_fg_color) = Glyph(cell)
    BY DEF Page!Glyph, Glyph
  <2> HIDE DEF cell
  <2>5. page \in Seq(Shown) /\ Len(page) = Place'
    BY <1>b, <2>2, <2>3
  <2>6. \A i \in 1 .. Place' : page[i] = Glyph(buffer'[i - 1])
    <3> TAKE i \in 1 .. Place'
    <3>1. CASE i = Place + 1
      BY <1>b, <2>1, <3>1
    <3>2. CASE i # Place + 1
      <4>1. i \in 1 .. Place /\ i - 1 # Place
        BY <1>b, <2>2, <3>2
      <4>2. page[i] = Text[i] /\ buffer'[i - 1] = buffer[i - 1]
        BY <1>b, <2>1, <4>1
      <4> QED
        BY <1>b, <4>1, <4>2
    <3> QED
      BY <3>1, <3>2
  <2>7. Page!Type(Text, ch, current_fg_color) = Page!Feed(page)
    BY <1>a, <1>3, <2>4 DEF Page!Type
  <2> HIDE DEF page
  <2> QED
    BY <1>a, <1>c, <2>5, <2>6, <2>7, FedText
<1> QED
  BY <1>1, <1>2, <1>3 DEF terminal_write_char

(* The rest of a scroll and a rendering leave the page as it is.           *)
LEMMA ScrollRowText ==
  ASSUME CellsInv, CellsInv', ScrollRow
  PROVE  Text' = Text
<1> USE SizeAssumption
<1> DEFINE m == (Height - 1) * Width
           at(i, z) == IF (i - 1) \div Width < z THEN i - 1 ELSE i - 1 + Width
<1>1. /\ pc = "scroll" /\ pc' = "scroll" /\ y < Height - 1 /\ y' = y + 1 /\ y \in Nat
      /\ buffer' = [i \in DOMAIN buffer |->
           IF i \div Width = y THEN buffer[i + Width] ELSE buffer[i]]
  BY DEF ScrollRow, CellsInv, TypeOK
<1>2. m \in Nat /\ Height - 1 \in Nat /\ m + Width = Width * Height
  <2>1. Height - 1 \in Nat /\ Height - 1 + 1 = Height
    OBVIOUS
  <2>2. m \in Nat /\ Height * Width = m + Width
    BY <2>1, RowEnds
  <2> QED
    BY <2>1, <2>2
<1>3. ASSUME NEW i \in 1 .. m
      PROVE  Glyph(buffer'[at(i, y + 1)]) = Glyph(buffer[at(i, y)])
  <2> DEFINE q == (i - 1) \div Width
  <2>1. i - 1 \in Nat /\ i - 1 < (Height - 1) * Width
    BY <1>2 DEF m
  <2>2. q \in Nat /\ (i - 1 + Width) \div Width = q + 1
    BY <2>1, RowOf, RowBelow
  <2>3. i - 1 \in DOMAIN buffer /\ i - 1 + Width \in DOMAIN buffer
    <3>1. i - 1 \in 0 .. (Width * Height - 1) /\ i - 1 + Width \in 0 .. (Width * Height - 1)
      BY <1>2, <2>1
    <3> QED
      BY <3>1, Cells DEF CellsInv
  <2>4. buffer'[i - 1] = IF q = y THEN buffer[i - 1 + Width] ELSE buffer[i - 1]
    BY <1>1, <2>3
  <2>5. buffer'[i - 1 + Width] =
          IF q + 1 = y THEN buffer[i - 1 + Width + Width] ELSE buffer[i - 1 + Width]
    BY <1>1, <2>2, <2>3
  <2> HIDE DEF q
  <2>6. CASE q < y
    BY <1>1, <2>2, <2>4, <2>6 DEF q
  <2>7. CASE q = y
    BY <1>1, <2>2, <2>4, <2>7 DEF q
  <2>8. CASE q > y
    <3>1. ~ (q < y + 1) /\ ~ (q < y) /\ q + 1 # y
      BY <1>1, <2>2, <2>8
    <3> QED
      BY <2>5, <3>1 DEF q
  <2> QED
    BY <1>1, <2>2, <2>6, <2>7, <2>8
<1>4. Text = [i \in 1 .. m |-> Glyph(buffer[at(i, y)])]
  BY <1>1 DEF Text
<1>5. Text' = [i \in 1 .. m |-> Glyph(buffer'[at(i, y + 1)])]
  BY <1>1 DEF Text
<1> HIDE DEF m, at
<1> QED
  BY <1>3, <1>4, <1>5

LEMMA ScrollEndText ==
  ASSUME CellsInv, CellsInv', ScrollEnd
  PROVE  Text' = Text
<1> USE SizeAssumption
<1> DEFINE m == (Height - 1) * Width
<1>1. /\ pc = "scroll" /\ pc' # "scroll" /\ y = Height - 1 /\ Height - 1 \in Nat
      /\ cursor_y' = Height - 1 /\ cursor_x' = 0
      /\ buffer' = [i \in DOMAIN buffer |->
           IF i \div Width = Height - 1 THEN BlankCell ELSE buffer[i]]
  BY DEF ScrollEnd, CellsInv, TypeOK, Modes
<1>2. m \in Nat /\ m + Width = Width * Height /\ Place' = m
  <2>1. Height - 1 + 1 = Height
    OBVIOUS
  <2>2. m \in Nat /\ Height * Width = m + Width
    BY <1>1, <2>1, RowEnds
  <2> QED
    BY <1>1, <2>2 DEF Place
<1>3. ASSUME NEW i \in 1 .. m
      PROVE  /\ (i - 1) \div Width < Height - 1
             /\ buffer'[i - 1] = buffer[i - 1]
  <2>1. i - 1 \in Nat /\ i - 1 < (Height - 1) * Width
    BY <1>2
  <2>2. (i - 1) \div Width \in Nat /\ (i - 1) \div Width < Height - 1
    BY <1>1, <2>1, RowOf, RowBounds
  <2>3. i - 1 \in DOMAIN buffer
    <3>1. i - 1 \in 0 .. (Width * Height - 1)
      BY <1>2, <2>1
    <3> QED
      BY <3>1, Cells DEF CellsInv
  <2> DEFINE q == (i - 1) \div Width
  <2>4. buffer'[i - 1] = IF q = Height - 1 THEN BlankCell ELSE buffer[i - 1]
    BY <1>1, <2>3
  <2> HIDE DEF q
  <2> QED
    BY <1>1, <2>2, <2>4 DEF q
<1>4. Text' = [i \in 1 .. m |-> Glyph(buffer'[i - 1])]
  BY <1>1, <1>2 DEF Text, Place
<1>5. Text = [i \in 1 .. m |->
                Glyph(buffer[IF (i - 1) \div Width < Height - 1 THEN i - 1 ELSE i - 1 + Width])]
  BY <1>1 DEF Text
<1> HIDE DEF m
<1> QED
  BY <1>3, <1>4, <1>5

LEMMA SameText ==
  ASSUME pc # "scroll", pc' # "scroll", UNCHANGED <<buffer, cursor_x, cursor_y>>
  PROVE  Text' = Text
BY DEF Text

LEMMA ClearedText ==
  ASSUME terminal_clear, pc' # "scroll"
  PROVE  Text' = <<>>
<1>1. cursor_y' * Width + cursor_x' = 0
  BY SizeAssumption DEF terminal_clear
<1> QED
  BY <1>1 DEF Text

-----------------------------------------------------------------------------
(* Setting a text character by character.                                  *)

(* The function the fold over a text is defined by.                        *)
Pages(h, m, fg) ==
  h = [s \in SUBSET DOMAIN m |->
         IF s = {} THEN <<>> ELSE Page!Type(h[s \ {Page!Max(s)}], m[Page!Max(s)], fg)]

LEMMA TypesetIs ==
  ASSUME NEW m, NEW fg
  PROVE  Page!Typeset(m, fg) = (CHOOSE h : Pages(h, m, fg))[DOMAIN m]
BY DEF Page!Typeset, Page!FoldLeft, Page!MapThenFoldSet, Pages

LEMMA Greatest ==
  ASSUME NEW n \in Nat, NEW s \in SUBSET (1 .. n), s # {}
  PROVE  Page!Max(s) \in s /\ \A i \in s : i <= Page!Max(s)
<1> DEFINE Gaps == {n - i : i \in s}
<1>1. PICK g \in Gaps : \A f \in Gaps : g <= f
  <2>a. \A i \in s : n - i \in Nat
    OBVIOUS
  <2>1. Gaps \in SUBSET Nat /\ Gaps # {}
    BY <2>a
  <2> HIDE DEF Gaps
  <2> QED
    BY <2>1, LeastOf
<1>2. PICK j \in s : g = n - j
  OBVIOUS
<1>3. \A i \in s : j >= i
  <2> TAKE i \in s
  <2>1. n - j <= n - i
    BY <1>1, <1>2
  <2> QED
    BY <2>1
<1>4. \E x \in s : \A i \in s : x >= i
  BY <1>3
<1>5. Page!Max(s) \in s /\ \A i \in s : Page!Max(s) >= i
  BY <1>4 DEF Page!Max
<1> QED
  BY <1>5

LEMMA GreatestOf ==
  ASSUME NEW n \in Nat, n # 0
  PROVE  Page!Max(1 .. n) = n /\ (1 .. n) \ {n} = 1 .. (n - 1)
<1>1. n \in 1 .. n
  OBVIOUS
<1>2. Page!Max(1 .. n) \in 1 .. n /\ n <= Page!Max(1 .. n)
  BY <1>1, Greatest
<1> QED
  BY <1>2

LEMMA PagesExist ==
  ASSUME NEW T, NEW m \in Seq(T), NEW fg
  PROVE  \E h : Pages(h, m, fg)
<1> DEFINE n == Len(m)
           Small(k) == SUBSET (1 .. k)
           Value(h, s) == IF s = {} THEN <<>>
                          ELSE Page!Type(h[s \ {Page!Max(s)}], m[Page!Max(s)], fg)
           Upto(k) == \E h : h = [s \in Small(k) |-> Value(h, s)]
           Bad == {k \in Nat : ~ Upto(k)}
<1>1. Upto(0)
  <2>1. \A s \in Small(0) : s = {}
    OBVIOUS
  <2> DEFINE h == [s \in Small(0) |-> <<>>]
  <2>2. h = [s \in Small(0) |-> Value(h, s)]
    BY <2>1
  <2> QED
    BY <2>2
<1>2. ASSUME NEW k \in Nat, Upto(k)
      PROVE  Upto(k + 1)
  <2>1. PICK h : h = [s \in Small(k) |-> Value(h, s)]
    BY <1>2
  <2> DEFINE g == [s \in Small(k + 1) |-> Value(h, s)]
  <2>2. \A s \in Small(k) : s \in Small(k + 1) /\ h[s] = g[s]
    <3>1. \A s \in Small(k) : s \in Small(k + 1)
      OBVIOUS
    <3>2. \A s \in Small(k) : h[s] = Value(h, s)
      BY <2>1
    <3> QED
      BY <3>1, <3>2
  <2>3. \A s \in Small(k + 1) : s # {} => s \ {Page!Max(s)} \in Small(k)
    <3> TAKE s \in Small(k + 1)
    <3> HAVE s # {}
    <3>1. Page!Max(s) \in s /\ \A i \in s : i <= Page!Max(s)
      <4>1. k + 1 \in Nat /\ s \in SUBSET (1 .. (k + 1)) /\ s # {}
        OBVIOUS
      <4> QED
        BY <4>1, Greatest
    <3> DEFINE x == Page!Max(s)
    <3> HIDE DEF x
    <3>2. ASSUME NEW i \in s \ {x} PROVE i \in 1 .. k
      <4>1. i <= x /\ i # x /\ x \in 1 .. (k + 1) /\ i \in 1 .. (k + 1)
        BY <3>1 DEF x
      <4> QED
        BY <4>1
    <3> QED
      BY <3>2 DEF x
  <2>4. \A s \in Small(k + 1) : Value(h, s) = Value(g, s)
    BY <2>2, <2>3
  <2>5. g = [s \in Small(k + 1) |-> Value(g, s)]
    BY <2>4
  <2> QED
    BY <2>5
<1>3. Bad = {}
  <2> SUFFICES ASSUME Bad # {} PROVE FALSE
    OBVIOUS
  <2> HIDE DEF Upto
  <2>1. PICK k \in Bad : \A j \in Bad : k <= j
    BY LeastOf
  <2>2. k # 0 /\ k \in Nat
    BY <1>1
  <2>3. k - 1 \in Nat /\ k - 1 \notin Bad /\ k - 1 + 1 = k
    BY <2>1, <2>2
  <2>4. Upto(k - 1 + 1)
    BY <1>2, <2>3
  <2> QED
    BY <2>1, <2>3, <2>4
<1>4. n \in Nat /\ DOMAIN m = 1 .. n
  OBVIOUS
<1> HIDE DEF n
<1>5. Upto(n)
  BY <1>3, <1>4
<1> QED
  BY <1>4, <1>5 DEF Pages

(* What the function is of the beginnings of the text.                     *)
LEMMA PagesAt ==
  ASSUME NEW T, NEW m \in Seq(T), NEW fg, NEW h, Pages(h, m, fg)
  PROVE  /\ h[1 .. 0] = <<>>
         /\ \A j \in 1 .. Len(m) : h[1 .. j] = Page!Type(h[1 .. (j - 1)], m[j], fg)
<1> DEFINE Value(s) == IF s = {} THEN <<>>
                       ELSE Page!Type(h[s \ {Page!Max(s)}], m[Page!Max(s)], fg)
<1>1. \A s \in SUBSET (1 .. Len(m)) : h[s] = Value(s)
  <2>1. DOMAIN m = 1 .. Len(m)
    OBVIOUS
  <2> QED
    BY <2>1, Zenon DEF Pages
<1>2. 1 .. 0 = {} /\ 1 .. 0 \in SUBSET (1 .. Len(m))
  OBVIOUS
<1>3. h[1 .. 0] = <<>>
  BY <1>1, <1>2
<1>4. ASSUME NEW j \in 1 .. Len(m)
      PROVE  h[1 .. j] = Page!Type(h[1 .. (j - 1)], m[j], fg)
  <2>1. j \in Nat /\ j # 0 /\ 1 .. j \in SUBSET (1 .. Len(m)) /\ j \in 1 .. j
    OBVIOUS
  <2>2. Page!Max(1 .. j) = j /\ (1 .. j) \ {j} = 1 .. (j - 1)
    BY <2>1, GreatestOf
  <2>3. 1 .. j # {} /\ h[1 .. j] = Value(1 .. j)
    BY <1>1, <2>1
  <2> QED
    BY <2>2, <2>3
<1> QED
  BY <1>3, <1>4

LEMMA TypesetNothing ==
  ASSUME NEW fg
  PROVE  Page!Typeset(<<>>, fg) = <<>>
<1>1. <<>> \in Seq({}) /\ DOMAIN <<>> = 1 .. 0
  OBVIOUS
<1>2. PICK h : h = (CHOOSE g : Pages(g, <<>>, fg)) /\ Pages(h, <<>>, fg)
  BY <1>1, PagesExist
<1> QED
  BY <1>1, <1>2, PagesAt, TypesetIs

LEMMA TypesetOne ==
  ASSUME NEW T, NEW m \in Seq(T), NEW ch \in T, NEW fg
  PROVE  Page!Typeset(Append(m, ch), fg) = Page!Type(Page!Typeset(m, fg), ch, fg)
<1> DEFINE n == Len(m)
           a == Append(m, ch)
<1>1. /\ n \in Nat /\ a \in Seq(T) /\ Len(a) = n + 1 /\ a[n + 1] = ch
      /\ \A j \in 1 .. n : a[j] = m[j]
      /\ DOMAIN m = 1 .. n /\ DOMAIN a = 1 .. (n + 1)
  OBVIOUS
<1> HIDE DEF n, a
<1>2. PICK h : h = (CHOOSE f : Pages(f, m, fg)) /\ Pages(h, m, fg)
  BY PagesExist
<1>3. PICK g : g = (CHOOSE f : Pages(f, a, fg)) /\ Pages(g, a, fg)
  BY <1>1, PagesExist
<1>4. /\ h[1 .. 0] = <<>> /\ g[1 .. 0] = <<>>
      /\ \A j \in 1 .. n : h[1 .. j] = Page!Type(h[1 .. (j - 1)], m[j], fg)
      /\ \A j \in 1 .. (n + 1) : g[1 .. j] = Page!Type(g[1 .. (j - 1)], a[j], fg)
  BY <1>1, <1>2, <1>3, PagesAt DEF n
<1> DEFINE Bad == {j \in 0 .. n : h[1 .. j] # g[1 .. j]}
<1>5. Bad = {}
  <2> SUFFICES ASSUME Bad # {} PROVE FALSE
    OBVIOUS
  <2>1. Bad \in SUBSET Nat
    BY <1>1
  <2>2. PICK j \in Bad : \A i \in Bad : j <= i
    BY <2>1, LeastOf
  <2>3. j \in 1 .. n
    BY <1>1, <1>4
  <2>4. j - 1 \in 0 .. n /\ j - 1 \notin Bad /\ j \in 1 .. (n + 1)
    BY <1>1, <2>2, <2>3
  <2> QED
    BY <1>1, <1>4, <2>3, <2>4
<1>6. h[1 .. n] = g[1 .. n] /\ n + 1 \in 1 .. (n + 1) /\ n + 1 - 1 = n
  BY <1>1, <1>5
<1>7. g[1 .. (n + 1)] = Page!Type(h[1 .. n], ch, fg)
  BY <1>1, <1>4, <1>6
<1> QED
  BY <1>1, <1>2, <1>3, <1>7, TypesetIs DEF a

-----------------------------------------------------------------------------
(* What a panic has printed so far: a part of its message, as on an empty  *)
(* page, and what is left is the rest of it.                               *)
Beginning(k) == SubSeq(Message, 1, k)
Remainder(k) == SubSeq(Message, k + 1, Len(Message))

Printed ==
  panics > 0 =>
    \E k \in 0 .. Len(Message) :
      /\ message = Remainder(k)
      /\ Text = Page!Typeset(Beginning(k), current_fg_color)
      /\ k > 0 => c = Message[k]

LEMMA Parts ==
  ASSUME NEW k \in 0 .. Len(Message)
  PROVE  /\ Len(Message) \in Nat /\ k \in Nat /\ Len(Message) >= 1
         /\ Beginning(k) \in Seq(Characters \cup {Newline}) /\ Len(Beginning(k)) = k
         /\ Remainder(k) \in Seq(Characters \cup {Newline})
         /\ Len(Remainder(k)) = Len(Message) - k
BY TextAssumption DEF Beginning, Remainder

LEMMA OnePartMore ==
  ASSUME NEW k \in 0 .. Len(Message), k # Len(Message)
  PROVE  /\ Remainder(k) # <<>> /\ Head(Remainder(k)) = Message[k + 1]
         /\ Message[k + 1] \in Characters \cup {Newline}
         /\ Tail(Remainder(k)) = Remainder(k + 1)
         /\ Beginning(k + 1) = Append(Beginning(k), Message[k + 1])
<1> USE TextAssumption
<1>1. k \in Nat /\ Len(Message) \in Nat /\ k + 1 \in 1 .. Len(Message)
  BY Parts
<1>2. Message[k + 1] \in Characters \cup {Newline}
  BY <1>1
<1>3. Remainder(k) = [i \in 1 .. (Len(Message) - k) |-> Message[k + i]]
  BY <1>1 DEF Remainder
<1>4. Remainder(k) # <<>> /\ Head(Remainder(k)) = Message[k + 1]
  <2>1. Len(Remainder(k)) = Len(Message) - k
    BY Parts
  <2>2. Len(Message) - k >= 1
    BY <1>1
  <2>3. Remainder(k)[1] = Message[k + 1]
    BY <1>1, <1>3, <2>2
  <2> QED
    BY <2>1, <2>2, <2>3, Parts
<1>5. Tail(Remainder(k)) = Remainder(k + 1)
  BY <1>1, <1>4, Parts DEF Remainder
<1>6. Beginning(k + 1) = Append(Beginning(k), Message[k + 1])
  BY <1>1 DEF Beginning
<1> QED
  BY <1>2, <1>4, <1>5, <1>6

LEMMA WholeParts ==
  /\ Beginning(0) = <<>> /\ Remainder(0) = Message
  /\ Beginning(Len(Message)) = Message /\ 0 \in 0 .. Len(Message)
BY TextAssumption DEF Beginning, Remainder

(* The last character of the message is a newline.                         *)
LEMMA AllPrinted ==
  ASSUME Printed, panics > 0, message = <<>>
  PROVE  c = Newline /\ Text = Page!Typeset(Message, current_fg_color)
<1>1. PICK k \in 0 .. Len(Message) :
        /\ message = Remainder(k) /\ Text = Page!Typeset(Beginning(k), current_fg_color)
        /\ k > 0 => c = Message[k]
  BY DEF Printed
<1>2. k = Len(Message)
  BY <1>1, OnePartMore
<1> QED
  BY <1>1, <1>2, WholeParts, Parts, TextAssumption

LEMMA PrintedKept ==
  ASSUME Printed, Text' = Text, UNCHANGED <<c, current_fg_color, panic>>
  PROVE  Printed'
BY DEF Printed, panic, Beginning, Remainder

LEMMA PrintedPanic ==
  ASSUME CellsInv, kernel_panic
  PROVE  Printed'
<1>1. Text' = <<>> /\ message' = Message
  BY ClearedText DEF kernel_panic
<1>2. Text' = Page!Typeset(Beginning(0), current_fg_color')
  BY <1>1, TypesetNothing, WholeParts
<1> QED
  BY <1>1, <1>2, WholeParts DEF Printed, Beginning, Remainder

LEMMA PrintedWrites ==
  ASSUME CellsInv, Printed, PanicWrites
  PROVE  CellsInv' /\ Printed' /\ Text' = Page!Type(Text, Head(message), current_fg_color)
<1> USE TextAssumption
<1>a. /\ panics > 0 /\ message # <<>> /\ terminal_write_char(Head(message))
      /\ message' = Tail(message) /\ panics' = panics
      /\ message \in Seq(Characters \cup {Newline})
      /\ current_fg_color' = current_fg_color
  BY DEF PanicWrites, CellsInv, TypeOK, terminal_write_char
<1>b. Head(message) \in Characters \cup {Newline} /\ Tail(message) \in Seq(Characters \cup {Newline})
  BY <1>a
<1>1. CellsInv'
  BY <1>a, <1>b, WriteCells
<1>2. Text' = Page!Type(Text, Head(message), current_fg_color)
  BY <1>1, <1>a, <1>b, TextWritten
<1>3. PICK k \in 0 .. Len(Message) :
        /\ message = Remainder(k) /\ Text = Page!Typeset(Beginning(k), current_fg_color)
  BY <1>a DEF Printed
<1>4. k # Len(Message)
  <2>1. k = Len(Message) => Len(message) = 0
    BY <1>3, Parts
  <2> QED
    BY <1>a, <2>1
<1>5. k + 1 \in 0 .. Len(Message) /\ k + 1 > 0
  BY <1>4, Parts
<1>6. message' = Remainder(k + 1) /\ Head(message) = Message[k + 1]
  BY <1>a, <1>3, <1>4, OnePartMore
<1>7. Text' = Page!Typeset(Beginning(k + 1), current_fg_color)
  <2> DEFINE ch == Message[k + 1]
             T == Characters \cup {Newline}
  <2>1. Beginning(k) \in Seq(T) /\ ch \in T /\ Beginning(k + 1) = Append(Beginning(k), ch)
    BY <1>4, Parts, OnePartMore
  <2>2. Text' = Page!Type(Page!Typeset(Beginning(k), current_fg_color), ch, current_fg_color)
    BY <1>2, <1>3, <1>6
  <2> HIDE DEF ch, T
  <2>3. Page!Typeset(Append(Beginning(k), ch), current_fg_color) =
          Page!Type(Page!Typeset(Beginning(k), current_fg_color), ch, current_fg_color)
    BY <2>1, TypesetOne
  <2> QED
    BY <2>1, <2>2, <2>3
<1>8. c' = Head(message)
  BY <1>a, <1>b DEF terminal_write_char, WriteNewline, WriteBackspace, WriteNormal, Continue
<1>9. Printed'
  BY <1>a, <1>5, <1>6, <1>7, <1>8 DEF Printed, Beginning, Remainder
<1> QED
  BY <1>1, <1>2, <1>9

-----------------------------------------------------------------------------
(* Every step keeps the invariant, and is a step of the page.              *)
TerminalInv == CellsInv /\ Printed

PageStep == [Page!Next]_<<Text, current_fg_color>>

LEMMA TerminalStep ==
  ASSUME TerminalInv, [Next]_vars
  PROVE  TerminalInv' /\ PageStep
<1> USE TextAssumption
<1>a. CellsInv /\ Printed /\ TypeOK /\ Modes
  BY DEF TerminalInv, CellsInv
<1>b. ASSUME CellsInv', Text' = Text, UNCHANGED <<c, current_fg_color, panic>>
      PROVE  TerminalInv' /\ PageStep
  BY <1>a, <1>b, PrintedKept DEF TerminalInv, PageStep
<1>1. CASE terminal_initialize
  <2>1. CellsInv'
    BY <1>a, <1>1, InitializeCells
  <2>2. Text = <<>>
    <3>1. pc = "off" /\ cursor_x = 0 /\ cursor_y = 0 /\ 0 * Width + 0 = 0
      BY <1>a, <1>1, SizeAssumption DEF terminal_initialize, Modes
    <3> QED
      BY <3>1 DEF Text
  <2>3. Text' = <<>>
    BY <1>1, ClearedText DEF terminal_initialize
  <2>4. UNCHANGED <<c, current_fg_color, panic>>
    BY <1>a, <1>1 DEF terminal_initialize, Modes
  <2> QED
    BY <1>b, <2>1, <2>2, <2>3, <2>4
<1>2. ASSUME NEW fg \in Colors, terminal_setcolor(fg)
      PROVE  TerminalInv' /\ PageStep
  <2>1. Quiet /\ pc = "idle" /\ pc' = "idle" /\ panics' = 0 /\ current_fg_color' = fg
    BY <1>2 DEF terminal_setcolor, Quiet, screen, panic
  <2>2. CellsInv'
    BY <1>a, <2>1, QuietCells
  <2>3. Text' = Text
    BY <2>1, SameText DEF Quiet
  <2>4. Printed'
    BY <2>1 DEF Printed
  <2>5. Page!SetColor
    BY <2>1, <2>3 DEF Page!SetColor
  <2> QED
    BY <2>2, <2>4, <2>5 DEF TerminalInv, PageStep, Page!Next
<1>3. CASE KernelWrites
  <2>1. PICK ch \in Characters \cup {Newline, Backspace} : terminal_write_char(ch)
    BY <1>3 DEF KernelWrites
  <2>2. panics = 0 /\ panics' = panics /\ message' = message
    BY <1>3 DEF KernelWrites, panic
  <2>3. CellsInv'
    BY <1>a, <2>1, <2>2, WriteCells DEF TypeOK
  <2>4. Text' = Page!Type(Text, ch, current_fg_color)
    BY <1>a, <2>1, <2>3, TextWritten
  <2>5. Printed'
    BY <2>2 DEF Printed
  <2>6. Page!Write
    BY <2>1, <2>4 DEF Page!Write, terminal_write_char
  <2> QED
    BY <2>3, <2>5, <2>6 DEF TerminalInv, PageStep, Page!Next
<1>4. CASE kernel_panic
  <2>1. CellsInv' /\ Printed'
    BY <1>a, <1>4, PanicCells, PrintedPanic
  <2>2. Page!Clear
    BY <1>4, ClearedText DEF kernel_panic, Page!Clear
  <2> QED
    BY <2>1, <2>2 DEF TerminalInv, PageStep, Page!Next
<1>5. CASE ScrollRow
  <2>1. CellsInv'
    BY <1>a, <1>5, ScrollRowCells
  <2>2. Text' = Text
    BY <1>a, <1>5, <2>1, ScrollRowText
  <2> QED
    BY <1>5, <1>b, <2>1, <2>2 DEF ScrollRow
<1>6. CASE ScrollEnd
  <2>1. CellsInv'
    BY <1>a, <1>6, ScrollEndCells
  <2>2. Text' = Text
    BY <1>a, <1>6, <2>1, ScrollEndText
  <2> QED
    BY <1>6, <1>b, <2>1, <2>2 DEF ScrollEnd
<1>7. CASE RenderStart
  <2>1. CellsInv'
    BY <1>a, <1>7, RenderStartCells
  <2>2. Text' = Text
    BY <1>7, SameText DEF RenderStart, terminal
  <2> QED
    BY <1>7, <1>b, <2>1, <2>2 DEF RenderStart, terminal
<1>8. CASE RenderRow
  <2>1. CellsInv'
    BY <1>a, <1>8, RenderRowCells
  <2>2. Text' = Text
    BY <1>8, SameText DEF RenderRow, terminal
  <2> QED
    BY <1>8, <1>b, <2>1, <2>2 DEF RenderRow, terminal
<1>9. CASE RenderEnd
  <2>1. CellsInv'
    BY <1>a, <1>9, RenderEndCells
  <2>2. Text' = Text
    BY <1>9, SameText DEF RenderEnd, terminal
  <2> QED
    BY <1>9, <1>b, <2>1, <2>2 DEF RenderEnd, terminal
<1>10. CASE PanicWrites
  <2>1. CellsInv' /\ Printed' /\ Text' = Page!Type(Text, Head(message), current_fg_color)
    BY <1>a, <1>10, PrintedWrites
  <2>2. Head(message) \in Characters \cup {Newline, Backspace}
    BY <1>a, <1>10 DEF PanicWrites, TypeOK
  <2>3. Page!Write
    BY <1>10, <2>1, <2>2 DEF Page!Write, PanicWrites, terminal_write_char
  <2> QED
    BY <2>1, <2>3 DEF TerminalInv, PageStep, Page!Next
<1>11. CASE hcf
  <2>1. /\ pc = "idle" /\ pc' = "halted" /\ panics > 0 /\ message = <<>>
        /\ UNCHANGED <<c, current_fg_color, panic>>
    BY <1>11 DEF hcf, terminal
  <2>2. c = Newline
    BY <1>a, <2>1, AllPrinted
  <2>3. Quiet
    BY <1>a, <1>11, <2>2 DEF hcf, terminal, screen, panic, Quiet, TypeOK
  <2>4. CellsInv' /\ Text' = Text
    BY <1>a, <2>1, <2>3, QuietCells, SameText DEF Quiet
  <2> QED
    BY <1>b, <2>1, <2>4
<1>12. CASE UNCHANGED vars
  <2>1. Quiet /\ pc' = pc /\ UNCHANGED <<c, current_fg_color, panic>>
    BY <1>a, <1>12 DEF vars, terminal, screen, panic, Quiet, TypeOK, Modes
  <2>2. CellsInv'
    BY <1>a, <2>1, QuietCells
  <2>3. Text' = Text
    BY <2>1 DEF Text, Quiet
  <2> QED
    BY <1>b, <2>1, <2>2, <2>3
<1> QED
  BY <1>1, <1>2, <1>3, <1>4, <1>5, <1>6, <1>7, <1>8, <1>9, <1>10, <1>11, <1>12
  DEF Next, Working

(* The inductive invariant holds throughout: beside the types, nothing is  *)
(* seen after the cursor, a rendering has drawn the rows above its loop    *)
(* variable, a flushed text is on the screen, and a panic has printed a    *)
(* beginning of its message on an empty page.                              *)
THEOREM TerminalInvariant == Spec => []TerminalInv
<1>1. Init => TerminalInv
  BY CellsInit DEF Init, TerminalInv, Printed
<1>2. TerminalInv /\ [Next]_vars => TerminalInv'
  BY TerminalStep
<1> QED
  BY <1>1, <1>2, PTL DEF Spec

(* The cursor never leaves the screen but for the row below it, of which a *)
(* scroll is under way, and every cell it writes is one of the buffer.     *)
THEOREM TerminalTyped == Spec => []TypeOK
<1>1. TerminalInv => TypeOK
  BY DEF TerminalInv, CellsInv
<1> QED
  BY <1>1, TerminalInvariant, PTL

(* When the write of a newline returns, the screen shows the text and      *)
(* nothing else.                                                           *)
THEOREM NewlinesFlush == Spec => []NewlineFlushes
<1>1. TerminalInv => NewlineFlushes
  BY DEF TerminalInv, CellsInv, Flushed, NewlineFlushes
<1> QED
  BY <1>1, TerminalInvariant, PTL

(* A kernel that has halted shows the message of its panic, whatever was   *)
(* interrupted and however often the panic itself was.                     *)
THEOREM PanicMessageShown == Spec => []PanicShown
<1>1. ASSUME TerminalInv, pc = "halted"
      PROVE  Shows(Page!Typeset(Message, current_fg_color))
  <2>1. Printed /\ Flushed /\ panics > 0 /\ message = <<>> /\ c = Newline
    BY <1>1 DEF TerminalInv, CellsInv, Modes
  <2>2. Shows(Text) /\ Text = Page!Typeset(Message, current_fg_color)
    BY <1>1, <2>1, AllPrinted DEF Flushed
  <2> QED
    BY <2>2
<1>2. TerminalInv => PanicShown
  BY <1>1 DEF PanicShown
<1> QED
  BY <1>2, TerminalInvariant, PTL

(* The terminal implements the page: scrolling moves no text, rendering    *)
(* and halting change none, a panic clears it.                             *)
THEOREM PageImplemented == Spec => IsPage
<1>1. Init => Page!Init
  <2>1. 0 * Width + 0 = 0
    BY SizeAssumption
  <2> QED
    BY <2>1 DEF Init, Page!Init, Text
<1>2. TerminalInv /\ [Next]_vars => [Page!Next]_<<Text, current_fg_color>>
  BY TerminalStep DEF PageStep
<1> QED
  BY <1>1, <1>2, TerminalInvariant, PTL DEF Spec, IsPage, Page!Spec

-----------------------------------------------------------------------------
(* What is left of the character that is written: the rows to scroll, the  *)
(* rows to draw, and the steps between.                                    *)
OfCharacter ==
  CASE pc = "scroll" -> 2 * Height + 3 - y
    [] pc = "render" -> Height + 3
    [] pc = "draw"   -> Height + 2 - y
    [] pc = "halted" -> 0
    [] OTHER         -> 1

(* What is left of a panic.  A character takes no more than a scroll and a *)
(* rendering.                                                              *)
Left == Len(message) * (2 * Height + 5) + OfCharacter

LEMMA OfCharacterIs ==
  /\ pc = "scroll" => OfCharacter = 2 * Height + 3 - y
  /\ pc = "render" => OfCharacter = Height + 3
  /\ pc = "draw" => OfCharacter = Height + 2 - y
  /\ pc = "halted" => OfCharacter = 0
  /\ pc \in {"off", "idle"} => OfCharacter = 1
BY DEF OfCharacter

LEMMA OfCharacterType ==
  ASSUME TerminalInv
  PROVE  OfCharacter \in 0 .. (2 * Height + 3) /\ (pc # "halted" => OfCharacter > 0)
<1>1. /\ Height \in Nat \ {0} /\ y \in 0 .. Height
      /\ pc \in {"off", "idle", "scroll", "render", "draw", "halted"}
  BY SizeAssumption DEF TerminalInv, CellsInv, TypeOK
<1> QED
  BY <1>1, OfCharacterIs

LEMMA LeftType ==
  ASSUME TerminalInv
  PROVE  Left \in Nat /\ (panics > 0 => (Left = 0 <=> pc = "halted"))
<1>1. Height \in Nat /\ Len(message) \in Nat
  BY SizeAssumption, LenProperties DEF TerminalInv, CellsInv, TypeOK
<1>2. OfCharacter \in Nat /\ (pc # "halted" => OfCharacter > 0) /\ (pc = "halted" => OfCharacter = 0)
  BY <1>1, OfCharacterType, OfCharacterIs
<1>3. \A n, k \in Nat : n * k \in Nat
  OBVIOUS
<1>4. Len(message) * (2 * Height + 5) \in Nat
  <2>1. 2 * Height + 5 \in Nat
    BY <1>1
  <2> QED
    BY <1>1, <1>3, <2>1
<1>5. pc = "halted" => Len(message) * (2 * Height + 5) = 0
  <2>1. pc = "halted" => message = <<>>
    BY DEF TerminalInv, CellsInv, Modes
  <2>2. \A k \in Nat : 0 * k = 0
    OBVIOUS
  <2>3. 2 * Height + 5 \in Nat
    BY <1>1
  <2>4. Len(<<>>) = 0
    OBVIOUS
  <2> QED
    BY <2>1, <2>2, <2>3, <2>4
<1> QED
  BY <1>2, <1>4, <1>5 DEF Left

(* A step within the write of a character.                                 *)
LEMMA CharacterAdvances ==
  ASSUME TerminalInv, ScrollRow \/ ScrollEnd \/ RenderStart \/ RenderRow \/ RenderEnd \/ hcf
  PROVE  message' = message /\ OfCharacter' < OfCharacter
<1>1. /\ Height \in Nat \ {0} /\ y \in 0 .. Height
      /\ pc = "scroll" => y <= Height - 1
  BY SizeAssumption DEF TerminalInv, CellsInv, TypeOK, Modes
<1>2. /\ pc' = "scroll" => OfCharacter' = 2 * Height + 3 - y'
      /\ pc' = "render" => OfCharacter' = Height + 3
      /\ pc' = "draw" => OfCharacter' = Height + 2 - y'
      /\ pc' = "halted" => OfCharacter' = 0
      /\ pc' = "idle" => OfCharacter' = 1
  BY DEF OfCharacter
<1>3. message' = message
  BY DEF ScrollRow, ScrollEnd, RenderStart, RenderRow, RenderEnd, hcf, panic
<1>4. CASE ScrollRow
  <2>1. pc = "scroll" /\ pc' = "scroll" /\ y' = y + 1
    BY <1>4 DEF ScrollRow
  <2> QED
    BY <1>1, <1>2, <1>3, <2>1, OfCharacterIs
<1>5. CASE ScrollEnd
  <2>1. pc = "scroll" /\ pc' \in {"render", "idle"}
    BY <1>5 DEF ScrollEnd
  <2> QED
    BY <1>1, <1>2, <1>3, <2>1, OfCharacterIs
<1>6. CASE RenderStart
  <2>1. pc = "render" /\ pc' = "draw" /\ y' = 0
    BY <1>6 DEF RenderStart
  <2> QED
    BY <1>1, <1>2, <1>3, <2>1, OfCharacterIs
<1>7. CASE RenderRow
  <2>1. pc = "draw" /\ pc' = "draw" /\ y' = y + 1
    BY <1>7 DEF RenderRow
  <2> QED
    BY <1>1, <1>2, <1>3, <2>1, OfCharacterIs
<1>8. CASE RenderEnd
  <2>1. pc = "draw" /\ pc' = "idle"
    BY <1>8 DEF RenderEnd
  <2> QED
    BY <1>1, <1>2, <1>3, <2>1, OfCharacterIs
<1>9. CASE hcf
  <2>1. pc = "idle" /\ pc' = "halted"
    BY <1>9 DEF hcf
  <2> QED
    BY <1>1, <1>2, <1>3, <2>1, OfCharacterIs
<1> QED
  BY <1>4, <1>5, <1>6, <1>7, <1>8, <1>9

LEMMA SumsGrow ==
  ASSUME NEW r \in Int, NEW i \in Int, NEW j \in Int, i < j
  PROVE  r + i < r + j
OBVIOUS

LEMMA PanicAdvances ==
  ASSUME TerminalInv, TerminalInv', [Next]_vars, vars' # vars, panics > 0
  PROVE  Left' < Left \/ panics' > panics
<1>1. Height \in Nat /\ message \in Seq(Characters \cup {Newline}) /\ panics \in Nat
  BY SizeAssumption, TextAssumption DEF TerminalInv, CellsInv, TypeOK
<1>2. pc # "off" /\ panics # 0
  BY DEF TerminalInv, CellsInv, Modes
<1> DEFINE K == 2 * Height + 5
           L == Len(message)
<1>3. K \in Nat /\ L \in Nat /\ OfCharacter \in 0 .. (K - 2) /\ OfCharacter' \in 0 .. (K - 2)
  <2>1. OfCharacter \in 0 .. (2 * Height + 3)
    BY OfCharacterType
  <2>2. OfCharacter' \in 0 .. (2 * Height + 3)
    <3>1. y' \in 0 .. Height /\ pc' \in {"off", "idle", "scroll", "render", "draw", "halted"}
      BY DEF TerminalInv, CellsInv, TypeOK
    <3> QED
      BY <1>1, <3>1 DEF OfCharacter
  <2> QED
    BY <1>1, <2>1, <2>2, LenProperties
<1>4. Left = L * K + OfCharacter /\ Left' = Len(message') * K + OfCharacter'
  BY DEF Left
<1>5. CASE PanicWrites
  <2>1. message # <<>> /\ message' = Tail(message) /\ terminal_write_char(Head(message))
    BY <1>5 DEF PanicWrites
  <2>2. Len(message') = L - 1 /\ L \in Nat \ {0}
    BY <1>1, <2>1
  <2>3. OfCharacter = 1
    BY <2>1, OfCharacterIs DEF terminal_write_char
  <2> HIDE DEF K, L
  <2> DEFINE Rest == (L - 1) * K
  <2>4. L * K = Rest + K /\ Rest \in Int
    BY <1>3, <2>2
  <2>5. Left = Rest + (K + 1) /\ Left' = Rest + OfCharacter'
    BY <1>3, <1>4, <2>2, <2>3, <2>4
  <2>6. OfCharacter' \in Int /\ K + 1 \in Int /\ OfCharacter' < K + 1
    BY <1>3
  <2> HIDE DEF Rest
  <2> QED
    BY <2>4, <2>5, <2>6, SumsGrow, Zenon
<1>6. CASE ScrollRow \/ ScrollEnd \/ RenderStart \/ RenderRow \/ RenderEnd \/ hcf
  <2>1. message' = message /\ OfCharacter' < OfCharacter
    BY <1>6, CharacterAdvances
  <2>2. Len(message') = L
    BY <2>1
  <2> HIDE DEF K, L
  <2> DEFINE Rest == L * K
  <2>3. Rest \in Int
    BY <1>3
  <2>4. Left = Rest + OfCharacter /\ Left' = Rest + OfCharacter'
    BY <1>4, <2>2
  <2>5. OfCharacter' \in Int /\ OfCharacter \in Int
    BY <1>3
  <2> HIDE DEF Rest
  <2> QED
    BY <2>1, <2>3, <2>4, <2>5, SumsGrow, Zenon
<1>7. CASE kernel_panic
  BY <1>1, <1>7 DEF kernel_panic
<1>8. ~terminal_initialize /\ ~KernelWrites /\ ~(\E fg \in Colors : terminal_setcolor(fg))
  BY <1>2 DEF terminal_initialize, KernelWrites, terminal_setcolor
<1> QED
  BY <1>5, <1>6, <1>7, <1>8 DEF Next, Working

(* A panic gets on: whatever happens next, but for one more exception,     *)
(* there is less left of it, and when nothing is left the kernel has       *)
(* halted.  That it does take its next step is left to the run.            *)
THEOREM PanicsAdvance ==
  Spec => /\ [](Left \in Nat /\ (panics > 0 => (Left = 0 <=> pc = "halted")))
          /\ [][panics > 0 => Left' < Left \/ panics' > panics]_vars
<1>1. TerminalInv => Left \in Nat /\ (panics > 0 => (Left = 0 <=> pc = "halted"))
  BY LeftType
<1>2. TerminalInv /\ TerminalInv' /\ [Next]_vars => [panics > 0 => Left' < Left \/ panics' > panics]_vars
  BY PanicAdvances
<1> QED
  BY <1>1, <1>2, TerminalInvariant, PTL DEF Spec
=============================================================================
