------------------------------ MODULE Console -------------------------------
(***************************************************************************)
(* The framebuffer console, sys/dev/liminefb/liminefb.c, and printk.       *)
(*                                                                         *)
(* Columns are eight pixels wide; a row of pixels is a band.  screen[y][x] *)
(* is the ink in band y of column x: parts of glyphs and of the cursor.    *)
(* A glyph is drawn baseline_offset bands above its cell, whose last bands *)
(* are the cursor's; drawing adds ink, erasing takes all of it away.       *)
(*                                                                         *)
(* A string is printed character by character, and a process or interrupt  *)
(* handler that prints may come between two characters of another.         *)
(***************************************************************************)
EXTENDS Format

CONSTANTS CHARSIZE,         \* 16: bands of a glyph and of a line
          CURSOR_HEIGHT,    \* 2
          BASELINE_OFFSET,  \* 2
          Width,            \* fb_width / 8
          Heights,          \* the framebuffers' heights
          Glyphs,           \* characters that show
          BUFFER_SIZE,      \* 1000: printk's buffer
          Strings, Formats, \* what is printed
          Writers,          \* who prints
          MaxPrints         \* bound: calls of printk and of liminefb_write

ASSUME ConsoleAssumption ==
  /\ CHARSIZE \in Nat \ {0} /\ Width \in Nat \ {0} /\ MaxPrints \in Nat
  /\ CURSOR_HEIGHT \in 1 .. CHARSIZE /\ BASELINE_OFFSET \in 0 .. CHARSIZE
  /\ Heights \subseteq {h \in Nat : h >= CHARSIZE}

Newline == "NL"
Backspace == "BS"

(* What a cell may show besides a glyph. *)
Blank == "blank"
Garbled == "garbled"

Printable == Glyphs \cup {Newline, Backspace}

(* The cursor is in the bands that the glyphs' offset leaves free, and what *)
(* is printed is characters that show, or move the cursor.                  *)
ASSUME PrintAssumption ==
  /\ CURSOR_HEIGHT <= BASELINE_OFFSET /\ BASELINE_OFFSET < CHARSIZE
  /\ Glyphs \cap {Newline, Backspace, Blank, Garbled} = {}
  /\ Strings \subseteq Seq(Printable)
  /\ \A fmt \in Formats : vsnprintf(BUFFER_SIZE, fmt) \in Seq(Printable)

VARIABLES fb_height,
          con,     \* cursor_x, cursor_y, cursor_prev_x, cursor_prev_y, the
                   \* screen, and the bands outside of it that were written
          todo,    \* what is left of each writer's string
          buffer,  \* printk's last format, and what vsnprintf made of it
          prints,
          erased   \* whether a backspace was printed

vars == <<fb_height, con, todo, buffer, prints, erased>>

Bands == 0 .. (fb_height - 1)

-----------------------------------------------------------------------------
(* Ink                                                                     *)

Cursor == <<"cursor">>
Ink(g, k) == <<g, k>>

(* Bands of column x wiped, and ink added to the bands in its domain; where *)
(* a band is not on the screen the write goes into the memory around it.    *)
Wipe(c, x, bands) ==
  [c EXCEPT !.screen = [y \in Bands |->
                          IF y \in bands THEN [c.screen[y] EXCEPT ![x] = {}] ELSE c.screen[y]],
            !.outside = @ \cup (bands \ Bands)]

Paint(c, x, ink) ==
  [c EXCEPT !.screen = [y \in Bands |->
                          IF y \in DOMAIN ink THEN [c.screen[y] EXCEPT ![x] = @ \cup {ink[y]}]
                          ELSE c.screen[y]],
            !.outside = @ \cup (DOMAIN ink \ Bands)]

CursorBands(y) == (y + CHARSIZE - CURSOR_HEIGHT) .. (y + CHARSIZE - 1)

-----------------------------------------------------------------------------
(* The cursor                                                              *)

liminefb_erase_cursor(c) == Wipe(c, c.prev_x, CursorBands(c.prev_y))

(* liminefb_redraw_cursor where the cursor is not behind the last column. *)
RedrawHere(c) ==
  LET e == liminefb_erase_cursor(c)
      y == IF e.y > fb_height THEN e.y - CHARSIZE ELSE e.y
      d == Paint(e, e.x, [b \in {k \in CursorBands(y) : k < fb_height} |-> Cursor])
  IN  [d EXCEPT !.y = y, !.prev_x = e.x, !.prev_y = y]

(* Mutant: the cursor is not erased before the lines move. *)
liminefb_scrollMutant(c) ==
  LET up == [y \in Bands |-> IF y + CHARSIZE \in Bands THEN c.screen[y + CHARSIZE]
                             ELSE [x \in 0 .. (Width - 1) |-> {}]]
  IN  RedrawHere([c EXCEPT !.screen = up, !.x = 0, !.y = fb_height - CHARSIZE])

liminefb_scroll(c) ==
  LET e == liminefb_erase_cursor(c)
      up == [y \in Bands |-> IF y + CHARSIZE \in Bands THEN e.screen[y + CHARSIZE]
                             ELSE [x \in 0 .. (Width - 1) |-> {}]]
  IN  RedrawHere([e EXCEPT !.screen = up, !.x = 0, !.y = fb_height - CHARSIZE])

(* A line at y does not fit any more. *)
Below(y) == y + CHARSIZE > fb_height

liminefb_newline(c) ==
  LET d == [c EXCEPT !.x = 0, !.y = @ + CHARSIZE]
  IN  RedrawHere(IF Below(d.y) THEN liminefb_scroll(d) ELSE d)

(* Mutant: no test for the last column. *)
liminefb_redraw_cursorMutant(c) == RedrawHere(c)

(* A cursor behind the last column goes to the next line first. *)
liminefb_redraw_cursor(c) ==
  RedrawHere(IF c.x + 1 > Width THEN liminefb_newline(c) ELSE c)

liminefb_erase_char(c) ==
  liminefb_redraw_cursor(Wipe(c, c.x, c.y .. (c.y + CHARSIZE - 1)))

-----------------------------------------------------------------------------
(* liminefb_putchar                                                        *)

(* Mutant: back over the start of a line to one column too few. *)
BackMutant(c) ==
  IF c.x > 0 THEN liminefb_erase_char([c EXCEPT !.x = @ - 1])
  ELSE IF c.y > 0 THEN liminefb_erase_char([c EXCEPT !.y = @ - CHARSIZE, !.x = Width - 2])
  ELSE c

(* Mutant: no test for the first line. *)
BackMutant2(c) ==
  IF c.x > 0 THEN liminefb_erase_char([c EXCEPT !.x = @ - 1])
  ELSE liminefb_erase_char([c EXCEPT !.y = @ - CHARSIZE, !.x = Width - 1])

(* liminefb_putchar of a backspace. *)
Back(c) ==
  IF c.x > 0 THEN liminefb_erase_char([c EXCEPT !.x = @ - 1])
  ELSE IF c.y > 0 THEN liminefb_erase_char([c EXCEPT !.y = @ - CHARSIZE, !.x = Width - 1])
  ELSE c

DrawGlyph(c, g) ==
  LET top == c.y - BASELINE_OFFSET
  IN  Paint(c, c.x, [y \in top .. (top + CHARSIZE - 1) |-> Ink(g, y - top)])

liminefb_putchar(c, ch) ==
  LET w == IF c.x + 1 > Width THEN liminefb_newline(c) ELSE c
      s == IF Below(w.y) THEN liminefb_scroll(w) ELSE w
  IN  IF ch = Backspace THEN Back(s)
      ELSE IF ch = Newline THEN liminefb_newline(s)
      ELSE liminefb_redraw_cursor([DrawGlyph(s, ch) EXCEPT !.x = @ + 1])

-----------------------------------------------------------------------------
(* The actions                                                             *)

Init ==
  /\ fb_height \in Heights
  /\ con = [x |-> 0, y |-> 0, prev_x |-> 0, prev_y |-> 0, outside |-> {},
            screen |-> [y \in Bands |-> [x \in 0 .. (Width - 1) |-> {}]]]
  /\ todo = [w \in Writers |-> <<>>]
  /\ buffer = [fmt |-> <<>>, out |-> <<>>]
  /\ prints = 0 /\ erased = FALSE

(* liminefb_write prints up to the NUL, whatever size it is given. *)
liminefb_write(w, str) ==
  /\ todo[w] = <<>> /\ prints < MaxPrints
  /\ todo' = [todo EXCEPT ![w] = str]
  /\ prints' = prints + 1
  /\ UNCHANGED <<fb_height, con, buffer, erased>>

printk(w, fmt) ==
  /\ todo[w] = <<>> /\ prints < MaxPrints
  /\ buffer' = [fmt |-> fmt, out |-> vsnprintf(BUFFER_SIZE, fmt)]
  /\ todo' = [todo EXCEPT ![w] = vsnprintf(BUFFER_SIZE, fmt)]
  /\ prints' = prints + 1
  /\ UNCHANGED <<fb_height, con, erased>>

(* One turn of liminefb_putstr. *)
liminefb_putstr(w) ==
  /\ todo[w] # <<>>
  /\ con' = liminefb_putchar(con, Head(todo[w]))
  /\ todo' = [todo EXCEPT ![w] = Tail(@)]
  /\ erased' = (erased \/ Head(todo[w]) = Backspace)
  /\ UNCHANGED <<fb_height, buffer, prints>>

Next == \E w \in Writers : \/ \E str \in Strings : liminefb_write(w, str)
                           \/ \E fmt \in Formats : printk(w, fmt)
                           \/ liminefb_putstr(w)

Spec == Init /\ [][Next]_vars
-----------------------------------------------------------------------------
(* Properties.                                                             *)

(* Wherever the cursor is moved, it and the place it is erased from stay   *)
(* in the columns of the screen.                                           *)
TypeOK ==
  /\ con.x \in 0 .. (Width - 1) /\ con.prev_x \in 0 .. (Width - 1)
  /\ con.y \in Int /\ con.prev_y \in Int
  /\ DOMAIN con.screen = Bands
  /\ prints \in 0 .. MaxPrints /\ erased \in BOOLEAN

(* The height is a whole number of lines. *)
Aligned == fb_height % CHARSIZE = 0

(* Whoever prints, the console writes into the framebuffer and nowhere     *)
(* else, but for the heads of the glyphs on the first line, which          *)
(* baseline_offset puts above it.  Where the height is not a multiple of a *)
(* line a backspace can go above the screen, so there it is left out.      *)
StaysInside == Aligned \/ ~erased => con.outside \subseteq -BASELINE_OFFSET .. -1

CursorShown == {p \in Bands \X (0 .. (Width - 1)) : Cursor \in con.screen[p[1]][p[2]]}

(* The screen shows the cursor where it is, whole, and no trace of where   *)
(* it was, through wrapping, scrolling and erasing; until the first        *)
(* character there is none.                                                *)
OneCursor ==
  Aligned \/ ~erased =>
    \/ CursorShown = CursorBands(con.y) \X {con.x}
    \/ CursorShown = {} /\ con.x = 0 /\ con.y = 0

(* What the bands of a cell that no other line reaches into show. *)
TextAt(r, c) ==
  LET Shows(k) == con.screen[r * CHARSIZE + k - BASELINE_OFFSET][c]
      body == BASELINE_OFFSET .. (CHARSIZE - 1)
  IN  IF \A k \in body : Shows(k) = {} THEN Blank
      ELSE IF \E g \in Glyphs : \A k \in body : Shows(k) = {Ink(g, k)}
      THEN CHOOSE g \in Glyphs : \A k \in body : Shows(k) = {Ink(g, k)}
      ELSE Garbled

Text == IF Aligned
        THEN [r \in 0 .. ((fb_height \div CHARSIZE) - 1) |->
                [c \in 0 .. (Width - 1) |-> TextAt(r, c)]]
        ELSE [r \in {0} |-> [c \in {0} |-> Blank]]

Abstract == INSTANCE Terminal WITH text <- Text,
              row <- IF Aligned THEN con.y \div CHARSIZE ELSE 0,
              col <- IF Aligned THEN con.x ELSE 0

(* On a screen of whole lines the pixels always spell what a terminal      *)
(* would show: wrapping at the last column, scrolling behind the last      *)
(* line, going back over the start of a line, with any interleaving of     *)
(* those who print.                                                        *)
ImplementsTerminal == Abstract!TermSpec

Numeric(item) == item.kind \in {"d", "x", "u", "llx"}

(* The usual digits of a number, by their values. *)
Digits(num, base) ==
  LET d[n \in 0 .. num] == IF n < base THEN <<n>> ELSE Append(d[n \div base], n % base)
  IN  d[num]

Expected(item) ==
  CASE item.kind \in {"lit", "other"} -> <<item.arg>>
    [] item.kind = "s" -> item.arg
    [] item.kind \in {"d", "x"} /\ item.arg = 0 -> <<>>
    [] item.kind \in {"d", "u"} /\ (item.kind = "u" \/ item.arg # 0) -> Chars(Digits(item.arg, 10))
    [] item.kind = "x" /\ item.arg # 0 -> Chars(Digits(item.arg, 16))
    [] item.kind = "llx" -> LET d == Digits(item.arg, 16)
                            IN  Chars([i \in 1 .. (16 - Len(d)) |-> 0] \o d)

(* What fits into the buffer is formatted as printf would, digit by digit, *)
(* except that %d and %x print nothing for zero; and the characters with   *)
(* the closing NUL leave the buffer only by the digits of a number that    *)
(* began in its last bytes, because the loops over tmp ignore the size.    *)
FormatsRight ==
  LET all == FlattenSeq([i \in DOMAIN buffer.fmt |-> Expected(buffer.fmt[i])])
      used == Len(buffer.out) + 1
  IN  /\ Len(all) < BUFFER_SIZE => buffer.out = all
      /\ used > BUFFER_SIZE =>
           \E i \in DOMAIN buffer.fmt :
             /\ Numeric(buffer.fmt[i])
             /\ used <= BUFFER_SIZE - 1 + Len(Number(buffer.fmt[i]))
=============================================================================
