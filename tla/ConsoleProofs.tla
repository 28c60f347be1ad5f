--------------------------- MODULE ConsoleProofs ----------------------------
(***************************************************************************)
(* Proofs about Console: for every size of the screen and of a line, every *)
(* set of writers and every sequence of characters, the cursor stays in    *)
(* the columns, is shown once and whole, and what is drawn and wiped stays *)
(* in the framebuffer; and a screen of whole lines always spells what the  *)
(* terminal of module Terminal shows.                                      *)
(***************************************************************************)
EXTENDS Console, TLAPS

-----------------------------------------------------------------------------
(* Natural numbers                                                        *)

(* Quotient and remainder make up the dividend. *)
LEMMA DivMod ==
  ASSUME NEW x \in Int, NEW d \in Int, d > 0
  PROVE  x = d * (x \div d) + (x % d)
  BY Z3T(30)

-----------------------------------------------------------------------------
(* Arithmetic                                                              *)

LEMMA SizesAre ==
  /\ CHARSIZE \in Nat /\ CHARSIZE > 0 /\ Width \in Nat /\ Width > 0 /\ MaxPrints \in Nat
  /\ CURSOR_HEIGHT \in Nat /\ CURSOR_HEIGHT >= 1 /\ CURSOR_HEIGHT <= CHARSIZE
  /\ BASELINE_OFFSET \in Nat /\ BASELINE_OFFSET <= CHARSIZE
  BY ConsoleAssumption

LEMMA HeightIs ==
  ASSUME fb_height \in Heights
  PROVE  fb_height \in Nat /\ fb_height >= CHARSIZE
  BY ConsoleAssumption

(* y is the top of a line. *)
OnLine(y) == \E n \in Int : y = CHARSIZE * n

LEMMA LineSteps ==
  ASSUME NEW y \in Int, OnLine(y)
  PROVE  OnLine(y + CHARSIZE) /\ OnLine(y - CHARSIZE) /\ (y > 0 => y >= CHARSIZE)
<1>1. PICK n \in Int : y = CHARSIZE * n
  BY DEF OnLine
<1>2. CHARSIZE \in Nat /\ CHARSIZE > 0
  BY SizesAre
<1>3. y + CHARSIZE = CHARSIZE * (n + 1) /\ y - CHARSIZE = CHARSIZE * (n - 1)
  BY <1>1, <1>2
<1>4. n <= 0 => CHARSIZE * n <= 0
  BY <1>2
<1>5. n >= 1 => CHARSIZE * n >= CHARSIZE
  BY <1>2
<1> QED BY <1>1, <1>3, <1>4, <1>5 DEF OnLine

LEMMA LastLineIs ==
  ASSUME fb_height \in Heights, Aligned
  PROVE  OnLine(fb_height - CHARSIZE)
<1>1. fb_height \in Int /\ CHARSIZE \in Int /\ CHARSIZE > 0
  BY HeightIs, SizesAre
<1>2. fb_height = CHARSIZE * (fb_height \div CHARSIZE) + (fb_height % CHARSIZE)
  BY <1>1, DivMod
<1>3. fb_height \div CHARSIZE \in Int
  BY <1>1
<1>4. OnLine(fb_height)
  BY <1>1, <1>2, <1>3 DEF OnLine, Aligned
<1> QED BY <1>1, <1>4, LineSteps


-----------------------------------------------------------------------------
(* Ink                                                                     *)

Cols == 0 .. (Width - 1)

(* A screen has all its bands and columns, whatever is in them. *)
IsScreen(s) == s = [y \in Bands |-> s[y]] /\ \A y \in Bands : s[y] = [x \in Cols |-> s[y][x]]

Con(x, y, px, py, o, s) ==
  [x |-> x, y |-> y, prev_x |-> px, prev_y |-> py, outside |-> o, screen |-> s]

IsCon(c) == /\ c = Con(c.x, c.y, c.prev_x, c.prev_y, c.outside, c.screen)
            /\ c.x \in Int /\ c.y \in Int /\ c.prev_x \in Int /\ c.prev_y \in Int
            /\ IsScreen(c.screen)

(* c and d differ in what they show at most. *)
SameAt(c, d) == d.x = c.x /\ d.y = c.y /\ d.prev_x = c.prev_x /\ d.prev_y = c.prev_y

LEMMA WipeIs ==
  ASSUME NEW c, IsCon(c), NEW x \in Cols, NEW bands, NEW d, d = Wipe(c, x, bands)
  PROVE  /\ IsCon(d) /\ SameAt(c, d) /\ d.outside = c.outside \cup (bands \ Bands)
         /\ \A y \in Bands, u \in Cols :
              d.screen[y][u] = IF y \in bands /\ u = x THEN {} ELSE c.screen[y][u]
<1> DEFINE s == [y \in Bands |-> IF y \in bands THEN [c.screen[y] EXCEPT ![x] = {}]
                                 ELSE c.screen[y]]
           o == c.outside \cup (bands \ Bands)
           e == [c EXCEPT !.screen = s]
<1>1. d = [e EXCEPT !.outside = o]
  BY DEF Wipe
<1>2. \A y \in Bands : c.screen[y] = [u \in Cols |-> c.screen[y][u]]
  BY DEF IsCon, IsScreen
<1>3. \A y \in Bands : s[y] = [u \in Cols |-> s[y][u]]
  BY <1>2
<1>4. \A y \in Bands, u \in Cols : s[y][u] = IF y \in bands /\ u = x THEN {} ELSE c.screen[y][u]
  BY <1>2
<1>5. s = [y \in Bands |-> s[y]]
  OBVIOUS
<1> HIDE DEF s, o
<1>6. e = Con(c.x, c.y, c.prev_x, c.prev_y, c.outside, s)
  BY DEF IsCon, Con
<1> HIDE DEF e
<1>7. d = Con(c.x, c.y, c.prev_x, c.prev_y, o, s)
  BY <1>1, <1>6 DEF Con
<1>8. SameAt(c, d) /\ d.outside = o /\ d.screen = s
  BY <1>7 DEF Con, SameAt
<1>9. IsScreen(s)
  BY <1>3, <1>5 DEF IsScreen
<1>10. IsCon(d)
  BY <1>7, <1>8, <1>9 DEF IsCon, SameAt
<1> QED BY <1>4, <1>8, <1>10 DEF o

(* d is c with ink in column x, and nothing else. *)
Painted(c, x, ink, d) ==
  /\ SameAt(c, d) /\ d.outside = c.outside \cup (DOMAIN ink \ Bands)
  /\ \A y \in Bands, u \in Cols :
       d.screen[y][u] = IF y \in DOMAIN ink /\ u = x THEN c.screen[y][u] \cup {ink[y]}
                        ELSE c.screen[y][u]

LEMMA PaintIs ==
  ASSUME NEW c, IsCon(c), NEW x \in Cols, NEW ink, NEW d, d = Paint(c, x, ink)
  PROVE  IsCon(d) /\ Painted(c, x, ink, d)
<1> DEFINE s == [y \in Bands |-> IF y \in DOMAIN ink
                                 THEN [c.screen[y] EXCEPT ![x] = @ \cup {ink[y]}]
                                 ELSE c.screen[y]]
           o == c.outside \cup (DOMAIN ink \ Bands)
           e == [c EXCEPT !.screen = s]
<1>1. d = [e EXCEPT !.outside = o]
  BY DEF Paint
<1>2. \A y \in Bands : c.screen[y] = [u \in Cols |-> c.screen[y][u]]
  BY DEF IsCon, IsScreen
<1>3. \A y \in Bands : s[y] = [u \in Cols |-> s[y][u]]
  BY <1>2
<1>4. \A y \in Bands, u \in Cols :
        s[y][u] = IF y \in DOMAIN ink /\ u = x THEN c.screen[y][u] \cup {ink[y]}
                  ELSE c.screen[y][u]
  BY <1>2
<1>5. s = [y \in Bands |-> s[y]]
  OBVIOUS
<1> HIDE DEF s, o
<1>6. e = Con(c.x, c.y, c.prev_x, c.prev_y, c.outside, s)
  BY DEF IsCon, Con
<1> HIDE DEF e
<1>7. d = Con(c.x, c.y, c.prev_x, c.prev_y, o, s)
  BY <1>1, <1>6 DEF Con
<1>8. SameAt(c, d) /\ d.outside = o /\ d.screen = s
  BY <1>7 DEF Con, SameAt
<1>9. IsScreen(s)
  BY <1>3, <1>5 DEF IsScreen
<1>10. IsCon(d)
  BY <1>7, <1>8, <1>9 DEF IsCon, SameAt
<1> QED BY <1>4, <1>8, <1>10 DEF o, Painted


-----------------------------------------------------------------------------
(* The cursor                                                              *)

(* A line at y is on the screen. *)
Fits(y) == 0 <= y /\ y <= fb_height - CHARSIZE

(* Where ink of the cursor is: nowhere, exactly at a place, or at most     *)
(* where it will be erased from.                                           *)
NoCursor(c) == \A b \in Bands, u \in Cols : Cursor \notin c.screen[b][u]

CursorAt(c, x, y) ==
  \A b \in Bands, u \in Cols : Cursor \in c.screen[b][u] <=> b \in CursorBands(y) /\ u = x

CursorWithin(c) ==
  \A b \in Bands, u \in Cols :
    Cursor \in c.screen[b][u] => b \in CursorBands(c.prev_y) /\ u = c.prev_x

(* The cursor is where it will be erased from. *)
Settled(c) == c.x \in Cols /\ c.prev_x = c.x /\ c.prev_y = c.y

LEMMA BandsFit ==
  ASSUME fb_height \in Heights, NEW y \in Int, Fits(y)
  PROVE  CursorBands(y) \subseteq Bands /\ y .. (y + CHARSIZE - 1) \subseteq Bands
  BY HeightIs, SizesAre DEF Fits, Bands, CursorBands

LEMMA erase_cursorIs ==
  ASSUME fb_height \in Heights, NEW c, IsCon(c), c.prev_x \in Cols,
         NEW d, d = liminefb_erase_cursor(c)
  PROVE  /\ IsCon(d) /\ SameAt(c, d) /\ (CursorWithin(c) => NoCursor(d))
         /\ Fits(c.prev_y) => d.outside = c.outside
<1>1. d = Wipe(c, c.prev_x, CursorBands(c.prev_y))
  BY DEF liminefb_erase_cursor
<1>2. PICK bands, x : bands = CursorBands(c.prev_y) /\ x = c.prev_x
  OBVIOUS
<1>3. /\ IsCon(d) /\ SameAt(c, d) /\ d.outside = c.outside \cup (bands \ Bands)
      /\ \A y \in Bands, u \in Cols :
           d.screen[y][u] = IF y \in bands /\ u = x THEN {} ELSE c.screen[y][u]
  BY <1>1, <1>2, WipeIs
<1>4. CursorWithin(c) => NoCursor(d)
  BY <1>2, <1>3 DEF CursorWithin, NoCursor
<1>5. c.prev_y \in Int
  BY DEF IsCon
<1>6. Fits(c.prev_y) => bands \ Bands = {}
  BY <1>2, <1>5, BandsFit
<1> QED BY <1>3, <1>4, <1>6

LEMMA RedrawIs ==
  ASSUME fb_height \in Heights, NEW c, IsCon(c), c.prev_x \in Cols, c.x \in Cols,
         NEW d, d = RedrawHere(c)
  PROVE  /\ IsCon(d) /\ Settled(d) /\ d.x = c.x /\ (c.y <= fb_height => d.y = c.y)
         /\ Fits(c.y) /\ CursorWithin(c) => CursorAt(d, d.x, d.y)
         /\ Fits(c.y) /\ Fits(c.prev_y) => d.outside = c.outside
<1>1. PICK e : e = liminefb_erase_cursor(c)
  OBVIOUS
<1>2. /\ IsCon(e) /\ SameAt(c, e) /\ (CursorWithin(c) => NoCursor(e))
      /\ Fits(c.prev_y) => e.outside = c.outside
  BY <1>1, erase_cursorIs
<1>3. PICK y : y = IF e.y > fb_height THEN e.y - CHARSIZE ELSE e.y
  OBVIOUS
<1>4. PICK ink : ink = [b \in {k \in CursorBands(y) : k < fb_height} |-> Cursor]
  OBVIOUS
<1>5. PICK f, x : f = Paint(e, x, ink) /\ x = e.x
  OBVIOUS
<1>6. d = [f EXCEPT !.y = y, !.prev_x = e.x, !.prev_y = y]
  BY <1>1, <1>3, <1>4, <1>5 DEF RedrawHere
<1>7. fb_height \in Nat /\ CHARSIZE \in Nat /\ e.y \in Int /\ e.x = c.x /\ e.y = c.y
  BY <1>2, HeightIs, SizesAre DEF IsCon, SameAt
<1>8. y \in Int /\ (c.y <= fb_height => y = c.y)
  BY <1>3, <1>7
<1>9. IsCon(f) /\ Painted(e, x, ink, f)
  BY <1>2, <1>5, <1>7, PaintIs
<1>10. d = Con(c.x, y, c.x, y, f.outside, f.screen)
  <2>1. f = Con(c.x, f.y, f.prev_x, f.prev_y, f.outside, f.screen)
    BY <1>2, <1>9 DEF IsCon, SameAt, Painted
  <2>2. PICK g : g = [f EXCEPT !.y = y]
    OBVIOUS
  <2>3. PICK h : h = [g EXCEPT !.prev_x = c.x]
    OBVIOUS
  <2>4. d = [h EXCEPT !.prev_y = y]
    BY <1>6, <1>7, <2>2, <2>3
  <2>5. g = Con(c.x, y, f.prev_x, f.prev_y, f.outside, f.screen)
    BY <2>1, <2>2 DEF Con
  <2>6. h = Con(c.x, y, c.x, f.prev_y, f.outside, f.screen)
    BY <2>3, <2>5 DEF Con
  <2> QED BY <2>4, <2>6 DEF Con
<1>11. /\ d.x = c.x /\ d.y = y /\ d.prev_x = c.x /\ d.prev_y = y
       /\ d.outside = f.outside /\ d.screen = f.screen
  BY <1>10 DEF Con
<1>12. IsCon(d)
  BY <1>7, <1>8, <1>9, <1>10, <1>11 DEF IsCon
<1>13. Settled(d)
  BY <1>11 DEF Settled
<1>14. Fits(c.y) => y = c.y /\ CursorBands(y) \subseteq Bands
  BY <1>7, <1>8, BandsFit, SizesAre DEF Fits
<1>15. Fits(c.y) => DOMAIN ink = CursorBands(y) /\ \A b \in CursorBands(y) : ink[b] = Cursor
  <2> SUFFICES ASSUME Fits(c.y)
               PROVE  DOMAIN ink = CursorBands(y) /\ \A b \in CursorBands(y) : ink[b] = Cursor
    OBVIOUS
  <2>1. \A b \in Bands : b < fb_height
    BY <1>7 DEF Bands
  <2>2. {k \in CursorBands(y) : k < fb_height} = CursorBands(y)
    BY <2>1, <1>14
  <2> QED BY <2>2, <1>4
<1>16. Fits(c.y) /\ CursorWithin(c) => CursorAt(d, d.x, d.y)
  <2> SUFFICES ASSUME Fits(c.y), CursorWithin(c) PROVE CursorAt(d, c.x, y)
    BY <1>11
  <2> SUFFICES ASSUME NEW b \in Bands, NEW u \in Cols
               PROVE  Cursor \in d.screen[b][u] <=> b \in CursorBands(y) /\ u = c.x
    BY DEF CursorAt
  <2>1. Cursor \notin e.screen[b][u]
    BY <1>2 DEF NoCursor
  <2>2. CASE b \in CursorBands(y) /\ u = c.x
    <3>1. d.screen[b][u] = e.screen[b][u] \cup {ink[b]} /\ ink[b] = Cursor
      BY <2>2, <1>5, <1>7, <1>9, <1>11, <1>15 DEF Painted
    <3> QED BY <2>2, <3>1
  <2>3. CASE ~(b \in CursorBands(y) /\ u = c.x)
    <3>1. ~(b \in DOMAIN ink /\ u = x)
      BY <2>3, <1>5, <1>7, <1>15
    <3>2. f.screen[b][u] = e.screen[b][u]
      BY <3>1, <1>9 DEF Painted
    <3> QED BY <2>1, <2>3, <3>2, <1>11
  <2> QED BY <2>2, <2>3
<1>17. Fits(c.y) /\ Fits(c.prev_y) => d.outside = c.outside
  BY <1>2, <1>9, <1>11, <1>14, <1>15 DEF Painted
<1> QED BY <1>8, <1>11, <1>12, <1>13, <1>16, <1>17

(* A settled cursor that is shown exactly will be erased without a trace. *)
LEMMA AtIsWithin ==
  ASSUME NEW c, Settled(c), CursorAt(c, c.x, c.y)
  PROVE  CursorWithin(c)
  BY DEF Settled, CursorAt, CursorWithin


-----------------------------------------------------------------------------
(* Moving and scrolling                                                    *)

(* d is c with the cursor at column x and band y, not drawn there yet. *)
Moved(c, x, y, d) ==
  /\ d.x = x /\ d.y = y /\ d.prev_x = c.prev_x /\ d.prev_y = c.prev_y
  /\ d.outside = c.outside /\ d.screen = c.screen

LEMMA MoveIs ==
  ASSUME NEW c, IsCon(c), NEW x \in Int, NEW y \in Int, NEW d,
         d = Con(x, y, c.prev_x, c.prev_y, c.outside, c.screen)
  PROVE  IsCon(d) /\ Moved(c, x, y, d)
<1>1. Moved(c, x, y, d)
  BY DEF Con, Moved
<1> QED BY <1>1 DEF Moved, IsCon

LEMMA MoveXIs ==
  ASSUME NEW c, IsCon(c), NEW x \in Int, NEW d, d = [c EXCEPT !.x = x]
  PROVE  IsCon(d) /\ Moved(c, x, c.y, d)
<1>1. PICK y : y = c.y
  OBVIOUS
<1>2. y \in Int
  BY <1>1 DEF IsCon
<1>3. d = Con(x, y, c.prev_x, c.prev_y, c.outside, c.screen)
  BY <1>1 DEF IsCon, Con
<1> QED BY <1>1, <1>2, <1>3, MoveIs

LEMMA MoveXYIs ==
  ASSUME NEW c, IsCon(c), NEW x \in Int, NEW y \in Int, NEW d,
         \/ d = [c EXCEPT !.x = x, !.y = y]
         \/ d = [c EXCEPT !.y = y, !.x = x]
  PROVE  IsCon(d) /\ Moved(c, x, y, d)
<1>1. d = Con(x, y, c.prev_x, c.prev_y, c.outside, c.screen)
  BY DEF IsCon, Con
<1> QED BY <1>1, MoveIs

(* Only the ink at the place a cursor is erased from matters for where it *)
(* is within, so a move keeps it there.                                   *)
LEMMA MoveKeepsInk ==
  ASSUME NEW c, NEW x, NEW y, NEW d, Moved(c, x, y, d)
  PROVE  (CursorWithin(c) => CursorWithin(d)) /\ (NoCursor(c) => NoCursor(d))
  BY DEF Moved, CursorWithin, NoCursor

LEMMA NoneIsWithin ==
  ASSUME NEW c, NoCursor(c)
  PROVE  CursorWithin(c)
  BY DEF NoCursor, CursorWithin

LEMMA ScrollIs ==
  ASSUME fb_height \in Heights, NEW c, IsCon(c), c.prev_x \in Cols,
         NEW d, d = liminefb_scroll(c)
  PROVE  /\ IsCon(d) /\ Settled(d) /\ d.x = 0 /\ d.y = fb_height - CHARSIZE
         /\ CursorWithin(c) => CursorAt(d, d.x, d.y)
         /\ Fits(c.prev_y) => d.outside = c.outside
<1>1. PICK e : e = liminefb_erase_cursor(c)
  OBVIOUS
<1>2. /\ IsCon(e) /\ SameAt(c, e) /\ (CursorWithin(c) => NoCursor(e))
      /\ Fits(c.prev_y) => e.outside = c.outside
  BY <1>1, erase_cursorIs
<1>3. PICK up : up = [y \in Bands |-> IF y + CHARSIZE \in Bands THEN e.screen[y + CHARSIZE]
                                      ELSE [x \in 0 .. (Width - 1) |-> {}]]
  OBVIOUS
<1>4. PICK y : y = fb_height - CHARSIZE
  OBVIOUS
<1>5. PICK f : f = [e EXCEPT !.screen = up, !.x = 0, !.y = y]
  OBVIOUS
<1>6. d = RedrawHere(f)
  BY <1>1, <1>3, <1>4, <1>5 DEF liminefb_scroll
<1>7. fb_height \in Nat /\ CHARSIZE \in Nat /\ CHARSIZE > 0 /\ y \in Int /\ Fits(y) /\ y <= fb_height
  BY <1>4, HeightIs, SizesAre DEF Fits
<1>8. 0 \in Cols
  BY SizesAre DEF Cols
<1>9. \A b \in Bands : up[b] = [x \in Cols |-> up[b][x]]
  BY <1>2, <1>3 DEF IsCon, IsScreen, Cols
<1>10. IsScreen(up)
  BY <1>3, <1>9 DEF IsScreen
<1>11. f = Con(0, y, c.prev_x, c.prev_y, e.outside, up)
  <2>1. PICK g : g = [e EXCEPT !.screen = up]
    OBVIOUS
  <2>2. g = Con(e.x, e.y, e.prev_x, e.prev_y, e.outside, up)
    BY <1>2, <2>1 DEF IsCon, Con
  <2>3. PICK h : h = [g EXCEPT !.x = 0]
    OBVIOUS
  <2>4. h = Con(0, e.y, e.prev_x, e.prev_y, e.outside, up)
    BY <2>2, <2>3 DEF Con
  <2>5. f = [h EXCEPT !.y = y]
    BY <1>5, <2>1, <2>3
  <2> QED BY <1>2, <2>4, <2>5 DEF Con, SameAt
<1>12. /\ f.x = 0 /\ f.y = y /\ f.prev_x = c.prev_x /\ f.prev_y = c.prev_y
       /\ f.outside = e.outside /\ f.screen = up
  BY <1>11 DEF Con
<1>13. IsCon(f)
  BY <1>7, <1>10, <1>11, <1>12 DEF IsCon
<1>14. NoCursor(e) => NoCursor(f)
  <2> SUFFICES ASSUME NoCursor(e), NEW b \in Bands, NEW u \in Cols
               PROVE  Cursor \notin up[b][u]
    BY <1>12 DEF NoCursor
  <2>1. CASE b + CHARSIZE \in Bands
    BY <2>1, <1>3 DEF NoCursor
  <2>2. CASE b + CHARSIZE \notin Bands
    BY <2>2, <1>3 DEF Cols
  <2> QED BY <2>1, <2>2
<1>15. CursorWithin(c) => CursorWithin(f)
  BY <1>2, <1>14, NoneIsWithin
<1>16. /\ IsCon(d) /\ Settled(d) /\ d.x = f.x /\ (f.y <= fb_height => d.y = f.y)
       /\ Fits(f.y) /\ CursorWithin(f) => CursorAt(d, d.x, d.y)
       /\ Fits(f.y) /\ Fits(f.prev_y) => d.outside = f.outside
  BY <1>6, <1>8, <1>12, <1>13, RedrawIs
<1> QED BY <1>2, <1>4, <1>7, <1>12, <1>15, <1>16


-----------------------------------------------------------------------------
(* The console's operations                                                *)

(* What an operation makes of a console c whose line is on the screen: d   *)
(* is settled, its line is on the screen too and a whole number of lines   *)
(* down if c's was, it shows one cursor, and nothing outside was written.  *)
Ends(c, d) ==
  /\ IsCon(d) /\ Settled(d)
  /\ Aligned /\ OnLine(c.y) => OnLine(d.y)
  /\ Fits(c.y) => Fits(d.y)
  /\ Fits(c.y) /\ CursorWithin(c) => CursorAt(d, d.x, d.y)
  /\ Fits(c.y) /\ Fits(c.prev_y) => d.outside = c.outside

LEMMA RedrawEnds ==
  ASSUME fb_height \in Heights, NEW c, IsCon(c), c.prev_x \in Cols, c.x \in Cols,
         NEW d, d = RedrawHere(c)
  PROVE  Ends(c, d)
<1>1. /\ IsCon(d) /\ Settled(d) /\ d.x = c.x /\ (c.y <= fb_height => d.y = c.y)
      /\ Fits(c.y) /\ CursorWithin(c) => CursorAt(d, d.x, d.y)
      /\ Fits(c.y) /\ Fits(c.prev_y) => d.outside = c.outside
  BY RedrawIs
<1>2. fb_height \in Nat /\ CHARSIZE \in Nat /\ c.y \in Int
  BY HeightIs, SizesAre DEF IsCon
<1>3. Fits(c.y) => Fits(d.y)
  BY <1>1, <1>2 DEF Fits
<1>4. d.y = c.y \/ d.y = c.y - CHARSIZE
  <2>1. PICK e : e = liminefb_erase_cursor(c)
    OBVIOUS
  <2>2. IsCon(e) /\ SameAt(c, e)
    BY <2>1, erase_cursorIs
  <2>3. PICK y, f : /\ y = IF e.y > fb_height THEN e.y - CHARSIZE ELSE e.y
                    /\ f = Paint(e, e.x, [b \in {k \in CursorBands(y) : k < fb_height} |-> Cursor])
    OBVIOUS
  <2>4. d = [f EXCEPT !.y = y, !.prev_x = e.x, !.prev_y = y]
    BY <2>1, <2>3 DEF RedrawHere
  <2>5. PICK x, ink : /\ x = e.x
                      /\ ink = [b \in {k \in CursorBands(y) : k < fb_height} |-> Cursor]
    OBVIOUS
  <2>6. IsCon(f)
    <3>1. x \in Cols /\ f = Paint(e, x, ink)
      BY <2>2, <2>3, <2>5 DEF SameAt
    <3> QED BY <3>1, <2>2, PaintIs
  <2>7. f = Con(f.x, f.y, f.prev_x, f.prev_y, f.outside, f.screen)
    BY <2>6 DEF IsCon
  <2>8. d.y = y
    BY <2>4, <2>7 DEF Con
  <2> QED BY <2>2, <2>3, <2>8 DEF SameAt
<1>5. OnLine(c.y) => OnLine(d.y)
  BY <1>2, <1>4, LineSteps
<1> QED BY <1>1, <1>3, <1>5 DEF Ends

(* The next line, from any line at or above the last, and from any column. *)
LEMMA newlineIs ==
  ASSUME fb_height \in Heights, NEW c, IsCon(c), c.prev_x \in Cols,
         NEW d, d = liminefb_newline(c)
  PROVE  Ends(c, d)
<1>1. PICK e : e = [c EXCEPT !.x = 0, !.y = c.y + CHARSIZE]
  OBVIOUS
<1>2. fb_height \in Nat /\ fb_height >= CHARSIZE /\ CHARSIZE \in Nat /\ CHARSIZE > 0 /\ c.y \in Int
  BY HeightIs, SizesAre DEF IsCon
<1>3. PICK y, x : y = c.y + CHARSIZE /\ x = 0
  OBVIOUS
<1>4. IsCon(e) /\ Moved(c, x, y, e)
  <2>1. e = [c EXCEPT !.x = x, !.y = y] /\ x \in Int /\ y \in Int
    BY <1>1, <1>2, <1>3
  <2> QED BY <2>1, MoveXYIs
<1>5. PICK m : m = IF Below(e.y) THEN liminefb_scroll(e) ELSE e
  OBVIOUS
<1>6. d = RedrawHere(m)
  BY <1>1, <1>5 DEF liminefb_newline
<1>7. /\ e.x = 0 /\ e.y = c.y + CHARSIZE /\ e.prev_x = c.prev_x /\ e.prev_y = c.prev_y
      /\ e.outside = c.outside /\ (CursorWithin(c) => CursorWithin(e))
  BY <1>3, <1>4, MoveKeepsInk DEF Moved
<1>8. 0 \in Cols
  BY SizesAre DEF Cols
<1>9. CASE Below(e.y)
  <2>1. m = liminefb_scroll(e)
    BY <1>5, <1>9
  <2>2. /\ IsCon(m) /\ Settled(m) /\ m.x = 0 /\ m.y = fb_height - CHARSIZE
        /\ CursorWithin(e) => CursorAt(m, m.x, m.y)
        /\ Fits(e.prev_y) => m.outside = e.outside
    BY <2>1, <1>4, <1>7, ScrollIs
  <2>3. m.prev_x \in Cols /\ m.x \in Cols /\ m.prev_y = m.y
    BY <2>2 DEF Settled
  <2>4. Ends(m, d)
    BY <1>6, <2>2, <2>3, RedrawEnds
  <2>5. Fits(m.y)
    BY <2>2, <1>2 DEF Fits
  <2>6. Aligned => OnLine(m.y)
    BY <2>2, LastLineIs
  <2>7. CursorWithin(c) => CursorWithin(m)
    BY <2>2, <1>7, AtIsWithin
  <2> QED BY <2>2, <2>3, <2>4, <2>5, <2>6, <2>7, <1>7 DEF Ends
<1>10. CASE ~Below(e.y)
  <2>1. m = e
    BY <1>5, <1>10
  <2>2. Ends(e, d)
    BY <2>1, <1>4, <1>6, <1>7, <1>8, RedrawEnds
  <2>3. Fits(c.y) => Fits(e.y)
    BY <1>2, <1>7, <1>10 DEF Fits, Below
  <2>4. OnLine(c.y) => OnLine(e.y)
    BY <1>2, <1>7, LineSteps
  <2> QED BY <2>2, <2>3, <2>4, <1>7 DEF Ends
<1> QED BY <1>9, <1>10

LEMMA redraw_cursorIs ==
  ASSUME fb_height \in Heights, NEW c, IsCon(c), c.prev_x \in Cols, c.x \in 0 .. Width,
         NEW d, d = liminefb_redraw_cursor(c)
  PROVE  Ends(c, d)
<1>1. CASE c.x + 1 > Width
  <2>1. PICK m : m = liminefb_newline(c)
    OBVIOUS
  <2>2. d = RedrawHere(m)
    BY <1>1, <2>1 DEF liminefb_redraw_cursor
  <2>3. Ends(c, m)
    BY <2>1, newlineIs
  <2>4. IsCon(m) /\ m.prev_x \in Cols /\ m.x \in Cols /\ m.prev_y = m.y
    BY <2>3 DEF Ends, Settled
  <2>5. Ends(m, d)
    BY <2>2, <2>4, RedrawEnds
  <2>6. CursorAt(m, m.x, m.y) => CursorWithin(m)
    BY <2>3, AtIsWithin DEF Ends
  <2> QED BY <2>3, <2>4, <2>5, <2>6 DEF Ends
<1>2. CASE ~(c.x + 1 > Width)
  <2>1. d = RedrawHere(c)
    BY <1>2 DEF liminefb_redraw_cursor
  <2>2. c.x \in Cols
    BY <1>2, SizesAre DEF Cols
  <2> QED BY <2>1, <2>2, RedrawEnds
<1> QED BY <1>1, <1>2


LEMMA erase_charIs ==
  ASSUME fb_height \in Heights, NEW c, IsCon(c), c.prev_x \in Cols, c.x \in Cols,
         NEW d, d = liminefb_erase_char(c)
  PROVE  Ends(c, d)
<1>1. PICK x, bands : x = c.x /\ bands = c.y .. (c.y + CHARSIZE - 1)
  OBVIOUS
<1>2. PICK e : e = Wipe(c, x, bands)
  OBVIOUS
<1>3. d = liminefb_redraw_cursor(e)
  BY <1>1, <1>2 DEF liminefb_erase_char
<1>4. x \in Cols /\ c.y \in Int
  BY <1>1 DEF IsCon
<1>5. /\ IsCon(e) /\ SameAt(c, e) /\ e.outside = c.outside \cup (bands \ Bands)
      /\ \A y \in Bands, u \in Cols :
           e.screen[y][u] = IF y \in bands /\ u = x THEN {} ELSE c.screen[y][u]
  BY <1>2, <1>4, WipeIs
<1>6. e.x \in 0 .. Width /\ e.prev_x \in Cols
  BY <1>5, SizesAre DEF SameAt, Cols
<1>7. Ends(e, d)
  BY <1>3, <1>5, <1>6, redraw_cursorIs
<1>8. Fits(c.y) => bands \subseteq Bands
  BY <1>1, <1>4, BandsFit
<1>9. Fits(c.y) => e.outside = c.outside
  BY <1>5, <1>8
<1>10. CursorWithin(c) => CursorWithin(e)
  BY <1>5 DEF CursorWithin, SameAt
<1> QED BY <1>5, <1>7, <1>9, <1>10 DEF Ends, SameAt

(* What a backspace makes of a console c: nothing at the start of the      *)
(* screen; elsewhere a cursor that is shown once, and nothing written      *)
(* outside, where the lines are whole and the cursor's is on the screen.   *)
Backs(c, d) ==
  /\ IsCon(d) /\ Settled(d)
  /\ Aligned /\ OnLine(c.y) => OnLine(d.y)
  /\ Aligned /\ OnLine(c.y) /\ Fits(c.y) =>
       /\ Fits(d.y) /\ d.outside = c.outside
       /\ CursorWithin(c) => CursorAt(d, d.x, d.y) \/ (d = c /\ c.x = 0 /\ c.y = 0)

LEMMA BackIs ==
  ASSUME fb_height \in Heights, NEW c, IsCon(c), Settled(c), NEW d, d = Back(c)
  PROVE  Backs(c, d)
<1>1. /\ fb_height \in Nat /\ CHARSIZE \in Nat /\ CHARSIZE > 0 /\ Width \in Nat /\ Width > 0
      /\ c.x \in Int /\ c.y \in Int /\ c.x \in Cols /\ c.prev_x \in Cols /\ c.prev_y = c.y
  BY HeightIs, SizesAre DEF IsCon, Settled
<1>2. CASE c.x > 0
  <2>1. PICK x : x = c.x - 1
    OBVIOUS
  <2>2. PICK e : e = [c EXCEPT !.x = x]
    OBVIOUS
  <2>3. d = liminefb_erase_char(e)
    BY <1>2, <2>1, <2>2 DEF Back
  <2>4. x \in Int /\ x \in Cols
    BY <1>1, <1>2, <2>1 DEF Cols
  <2>5. IsCon(e) /\ Moved(c, x, c.y, e)
    BY <2>2, <2>4, MoveXIs
  <2>6. /\ e.x \in Cols /\ e.y = c.y /\ e.prev_x \in Cols /\ e.prev_y = c.y
        /\ e.outside = c.outside
    BY <2>4, <2>5, <1>1 DEF Moved
  <2>7. CursorWithin(c) => CursorWithin(e)
    BY <2>5 DEF Moved, CursorWithin
  <2>8. Ends(e, d)
    BY <2>3, <2>5, <2>6, erase_charIs
  <2> QED BY <2>6, <2>7, <2>8 DEF Ends, Backs
<1>3. CASE c.x = 0 /\ c.y > 0
  <2>1. PICK x, y : x = Width - 1 /\ y = c.y - CHARSIZE
    OBVIOUS
  <2>2. PICK e : e = [c EXCEPT !.y = y, !.x = x]
    OBVIOUS
  <2>3. d = liminefb_erase_char(e)
    BY <1>1, <1>3, <2>1, <2>2 DEF Back
  <2>4. x \in Int /\ y \in Int /\ x \in Cols
    BY <1>1, <2>1 DEF Cols
  <2>5. IsCon(e) /\ Moved(c, x, y, e)
    BY <2>2, <2>4, MoveXYIs
  <2>6. /\ e.x \in Cols /\ e.y = c.y - CHARSIZE /\ e.prev_x \in Cols /\ e.prev_y = c.y
        /\ e.outside = c.outside
    BY <2>1, <2>4, <2>5, <1>1 DEF Moved
  <2>7. CursorWithin(c) => CursorWithin(e)
    BY <2>5, MoveKeepsInk
  <2>8. Ends(e, d)
    BY <2>3, <2>5, <2>6, erase_charIs
  <2>9. OnLine(c.y) => OnLine(e.y) /\ c.y >= CHARSIZE
    BY <1>1, <1>3, <2>6, LineSteps
  <2>10. OnLine(c.y) /\ Fits(c.y) => Fits(e.y)
    BY <2>6, <2>9, <1>1 DEF Fits
  <2> QED BY <2>6, <2>7, <2>8, <2>9, <2>10 DEF Ends, Backs
<1>4. CASE c.x = 0 /\ ~(c.y > 0)
  <2>1. d = c
    BY <1>1, <1>4 DEF Back
  <2>2. Fits(c.y) => c.y = 0
    BY <1>1, <1>4 DEF Fits
  <2> QED BY <2>1, <2>2, <1>4 DEF Backs
<1>5. c.x > 0 \/ c.x = 0
  BY <1>1 DEF Cols
<1> QED BY <1>2, <1>3, <1>4, <1>5

(* The head of a glyph may be above the screen; no glyph is a cursor. *)
LEMMA DrawGlyphIs ==
  ASSUME fb_height \in Heights, NEW c, IsCon(c), c.x \in Cols, NEW g, NEW d, d = DrawGlyph(c, g)
  PROVE  /\ IsCon(d) /\ SameAt(c, d) /\ (CursorWithin(c) => CursorWithin(d))
         /\ Fits(c.y) => d.outside \subseteq c.outside \cup (-BASELINE_OFFSET .. -1)
<1>1. PICK x, top : x = c.x /\ top = c.y - BASELINE_OFFSET
  OBVIOUS
<1>2. PICK ink : ink = [y \in top .. (top + CHARSIZE - 1) |-> Ink(g, y - top)]
  OBVIOUS
<1>3. d = Paint(c, x, ink)
  BY <1>1, <1>2 DEF DrawGlyph
<1>4. x \in Cols
  BY <1>1
<1>5. IsCon(d) /\ Painted(c, x, ink, d)
  BY <1>3, <1>4, PaintIs
<1>6. \A y \in DOMAIN ink : ink[y] # Cursor
  <2>1. \A k : <<g, k>> # <<"cursor">>
    OBVIOUS
  <2> QED BY <2>1, <1>2 DEF Ink, Cursor
<1>7. CursorWithin(c) => CursorWithin(d)
  <2> SUFFICES ASSUME CursorWithin(c), NEW b \in Bands, NEW u \in Cols, Cursor \in d.screen[b][u]
               PROVE  b \in CursorBands(d.prev_y) /\ u = d.prev_x
    BY DEF CursorWithin
  <2>1. Cursor \in c.screen[b][u]
    <3>1. CASE b \in DOMAIN ink /\ u = x
      <4>1. d.screen[b][u] = c.screen[b][u] \cup {ink[b]}
        BY <3>1, <1>5 DEF Painted
      <4> QED BY <3>1, <4>1, <1>6
    <3>2. CASE ~(b \in DOMAIN ink /\ u = x)
      <4>1. d.screen[b][u] = c.screen[b][u]
        BY <3>2, <1>5 DEF Painted
      <4> QED BY <4>1
    <3> QED BY <3>1, <3>2
  <2> QED BY <2>1, <1>5 DEF CursorWithin, Painted, SameAt
<1>8. Fits(c.y) => DOMAIN ink \ Bands \subseteq -BASELINE_OFFSET .. -1
  <2>1. fb_height \in Nat /\ CHARSIZE \in Nat /\ BASELINE_OFFSET \in Nat /\ c.y \in Int
    BY HeightIs, SizesAre DEF IsCon
  <2>2. DOMAIN ink = top .. (top + CHARSIZE - 1)
    BY <1>2
  <2> QED BY <2>1, <2>2, <1>1 DEF Fits, Bands
<1> QED BY <1>5, <1>7, <1>8 DEF Painted


(* The cursor's line is on the screen, only heads of glyphs were written   *)
(* outside of it, and one cursor is shown, or none before there was any.   *)
Sound(c) ==
  /\ Fits(c.y)
  /\ c.outside \subseteq -BASELINE_OFFSET .. -1
  /\ CursorAt(c, c.x, c.y) \/ (NoCursor(c) /\ c.x = 0 /\ c.y = 0)

LEMMA SoundIsWithin ==
  ASSUME NEW c, Settled(c), Sound(c)
  PROVE  CursorWithin(c) /\ Fits(c.y) /\ Fits(c.prev_y)
<1>1. CASE CursorAt(c, c.x, c.y)
  BY <1>1, AtIsWithin DEF Sound, Settled
<1>2. CASE NoCursor(c)
  BY <1>2, NoneIsWithin DEF Sound, Settled
<1> QED BY <1>1, <1>2 DEF Sound

LEMMA putcharIs ==
  ASSUME fb_height \in Heights, NEW c, IsCon(c), Settled(c), Aligned => OnLine(c.y),
         NEW ch, NEW d, d = liminefb_putchar(c, ch)
  PROVE  /\ IsCon(d) /\ Settled(d) /\ (Aligned => OnLine(d.y))
         /\ Sound(c) /\ (Aligned \/ ch # Backspace) => Sound(d)
<1>1. /\ fb_height \in Nat /\ CHARSIZE \in Nat /\ Width \in Nat
      /\ c.y \in Int /\ c.x \in Cols /\ c.prev_x \in Cols /\ c.prev_y = c.y
  BY HeightIs, SizesAre DEF IsCon, Settled
<1>2. PICK s : s = IF Below(c.y) THEN liminefb_scroll(c) ELSE c
  OBVIOUS
<1>3. d = IF ch = Backspace THEN Back(s)
          ELSE IF ch = Newline THEN liminefb_newline(s)
          ELSE liminefb_redraw_cursor([DrawGlyph(s, ch) EXCEPT !.x = @ + 1])
  <2>1. ~(c.x + 1 > Width)
    BY <1>1 DEF Cols
  <2> QED BY <2>1, <1>2 DEF liminefb_putchar
<1>4. IsCon(s) /\ Settled(s) /\ (Aligned => OnLine(s.y))
  <2>1. CASE Below(c.y)
    <3>1. s = liminefb_scroll(c)
      BY <2>1, <1>2
    <3>2. IsCon(s) /\ Settled(s) /\ s.y = fb_height - CHARSIZE
      BY <3>1, <1>1, ScrollIs
    <3> QED BY <3>2, LastLineIs
  <2>2. CASE ~Below(c.y)
    BY <2>2, <1>2
  <2> QED BY <2>1, <2>2
<1>5. Sound(c) => s = c
  BY <1>1, <1>2 DEF Sound, Fits, Below
<1>6. Sound(c) => Sound(s) /\ CursorWithin(s) /\ Fits(s.y) /\ Fits(s.prev_y)
  BY <1>5, SoundIsWithin
<1>7. s.prev_x \in Cols /\ s.x \in Cols /\ s.x \in Int /\ s.y \in Int
  BY <1>4 DEF Settled, IsCon
<1>8. CASE ch = Backspace
  <2>1. d = Back(s)
    BY <1>3, <1>8
  <2>2. Backs(s, d)
    BY <2>1, <1>4, BackIs
  <2>3. ASSUME Sound(c), Aligned PROVE Sound(d)
    <3>1. /\ Fits(d.y) /\ d.outside = s.outside
          /\ CursorAt(d, d.x, d.y) \/ (d = s /\ s.x = 0 /\ s.y = 0)
      BY <2>2, <2>3, <1>4, <1>6 DEF Backs
    <3>2. CASE CursorAt(d, d.x, d.y)
      BY <3>1, <3>2, <2>3, <1>6 DEF Sound
    <3>3. CASE d = s
      BY <3>3, <2>3, <1>6
    <3> QED BY <3>1, <3>2, <3>3
  <2> QED BY <2>2, <2>3, <1>4, <1>8 DEF Backs
<1>9. ASSUME NEW e, IsCon(e), Ends(e, d), e.y = s.y, e.prev_y = s.prev_y,
             CursorWithin(s) => CursorWithin(e),
             Fits(s.y) => e.outside \subseteq s.outside \cup (-BASELINE_OFFSET .. -1)
      PROVE  /\ IsCon(d) /\ Settled(d) /\ (Aligned => OnLine(d.y))
             /\ Sound(c) => Sound(d)
  <2>1. IsCon(d) /\ Settled(d) /\ (Aligned => OnLine(d.y))
    BY <1>4, <1>9 DEF Ends
  <2>2. ASSUME Sound(c) PROVE Sound(d)
    <3>1. Fits(d.y) /\ CursorAt(d, d.x, d.y) /\ d.outside = e.outside
      BY <2>2, <1>6, <1>9 DEF Ends
    <3>2. s.outside \subseteq -BASELINE_OFFSET .. -1
      BY <2>2, <1>6 DEF Sound
    <3>3. e.outside \subseteq -BASELINE_OFFSET .. -1
      BY <3>2, <2>2, <1>6, <1>9
    <3> QED BY <3>1, <3>3 DEF Sound
  <2> QED BY <2>1, <2>2
<1>10. CASE ch # Backspace /\ ch = Newline
  <2>1. d = liminefb_newline(s)
    BY <1>3, <1>10
  <2>2. Ends(s, d)
    BY <2>1, <1>4, <1>7, newlineIs
  <2> QED BY <2>2, <1>4, <1>9
<1>11. CASE ch # Backspace /\ ch # Newline
  <2>1. PICK g : g = DrawGlyph(s, ch)
    OBVIOUS
  <2>2. PICK x : x = g.x + 1
    OBVIOUS
  <2>3. PICK e : e = [g EXCEPT !.x = x]
    OBVIOUS
  <2>4. d = liminefb_redraw_cursor(e)
    BY <1>3, <1>11, <2>1, <2>2, <2>3
  <2>5. /\ IsCon(g) /\ SameAt(s, g) /\ (CursorWithin(s) => CursorWithin(g))
        /\ Fits(s.y) => g.outside \subseteq s.outside \cup (-BASELINE_OFFSET .. -1)
    BY <2>1, <1>4, <1>7, DrawGlyphIs
  <2>6. x = s.x + 1 /\ x \in Int /\ x \in 0 .. Width
    BY <2>2, <2>5, <1>1, <1>7 DEF SameAt, Cols
  <2>7. IsCon(e) /\ Moved(g, x, g.y, e)
    BY <2>3, <2>5, <2>6, MoveXIs
  <2>8. /\ e.x \in 0 .. Width /\ e.y = s.y /\ e.prev_x \in Cols /\ e.prev_y = s.prev_y
        /\ e.outside = g.outside /\ e.screen = g.screen /\ e.prev_x = g.prev_x
    BY <2>5, <2>6, <2>7, <1>7 DEF Moved, SameAt
  <2>9. CursorWithin(g) => CursorWithin(e)
    BY <2>5, <2>8 DEF CursorWithin, SameAt
  <2>10. Ends(e, d)
    BY <2>4, <2>7, <2>8, redraw_cursorIs
  <2> QED BY <2>5, <2>7, <2>8, <2>9, <2>10, <1>9
<1> QED BY <1>8, <1>10, <1>11

-----------------------------------------------------------------------------
(* The invariant                                                           *)

Inv ==
  /\ fb_height \in Heights /\ prints \in 0 .. MaxPrints /\ erased \in BOOLEAN
  /\ IsCon(con) /\ Settled(con)
  /\ Aligned => OnLine(con.y)
  /\ Aligned \/ ~erased => Sound(con)

LEMMA InvInit ==
  ASSUME Init
  PROVE  Inv
<1>1. PICK blank : blank = [y \in Bands |-> [x \in 0 .. (Width - 1) |-> {}]]
  OBVIOUS
<1>2. con = Con(0, 0, 0, 0, {}, blank)
  BY <1>1 DEF Init, Con
<1>3. /\ con.x = 0 /\ con.y = 0 /\ con.prev_x = 0 /\ con.prev_y = 0 /\ con.outside = {}
      /\ con.screen = blank
  BY <1>2 DEF Con
<1>4. IsScreen(blank)
  BY <1>1 DEF IsScreen, Cols
<1>5. IsCon(con)
  BY <1>2, <1>3, <1>4 DEF IsCon
<1>6. Settled(con)
  BY <1>3, SizesAre DEF Settled, Cols
<1>7. OnLine(0)
  BY SizesAre DEF OnLine
<1>8. NoCursor(con)
  BY <1>1, <1>3 DEF NoCursor, Cols
<1>9. fb_height \in Heights /\ prints = 0 /\ erased = FALSE
  BY DEF Init
<1>10. Fits(0)
  BY <1>9, HeightIs, SizesAre DEF Fits
<1>11. Sound(con)
  BY <1>3, <1>8, <1>10 DEF Sound
<1>12. prints \in 0 .. MaxPrints
  BY <1>9, SizesAre
<1>13. erased \in BOOLEAN
  BY <1>9
<1> QED BY <1>3, <1>5, <1>6, <1>7, <1>9, <1>11, <1>12, <1>13 DEF Inv

(* Nothing but the console and its height matters to it. *)
LEMMA InvSame ==
  ASSUME Inv, UNCHANGED <<fb_height, con>>, prints' \in 0 .. MaxPrints, UNCHANGED erased
  PROVE  Inv'
  BY DEF Inv, IsCon, IsScreen, Settled, Aligned, OnLine, Sound, Fits, CursorAt, NoCursor, Cols,
         Bands, CursorBands

LEMMA InvNext ==
  ASSUME Inv, [Next]_vars
  PROVE  Inv'
<1>1. CASE UNCHANGED vars
  BY <1>1, InvSame DEF vars, Inv
<1>2. ASSUME NEW w \in Writers, NEW str \in Strings, liminefb_write(w, str) PROVE Inv'
  <2>1. prints' \in 0 .. MaxPrints
    BY <1>2, SizesAre DEF liminefb_write, Inv
  <2> QED BY <1>2, <2>1, InvSame DEF liminefb_write
<1>3. ASSUME NEW w \in Writers, NEW fmt \in Formats, printk(w, fmt) PROVE Inv'
  <2>1. prints' \in 0 .. MaxPrints
    BY <1>3, SizesAre DEF printk, Inv
  <2> QED BY <1>3, <2>1, InvSame DEF printk
<1>4. ASSUME NEW w \in Writers, liminefb_putstr(w) PROVE Inv'
  <2>1. PICK c, ch, d : c = con /\ ch = Head(todo[w]) /\ d = liminefb_putchar(con, ch)
    OBVIOUS
  <2>2. con' = d /\ fb_height' = fb_height /\ prints' = prints /\ erased' = (erased \/ ch = Backspace)
    BY <1>4, <2>1 DEF liminefb_putstr
  <2>3. IsCon(c) /\ Settled(c) /\ (Aligned => OnLine(c.y)) /\ fb_height \in Heights
    BY <2>1 DEF Inv
  <2>4. /\ IsCon(d) /\ Settled(d) /\ (Aligned => OnLine(d.y))
        /\ Sound(c) /\ (Aligned \/ ch # Backspace) => Sound(d)
    BY <2>1, <2>3, putcharIs
  <2>5. Aligned \/ ~erased' => Sound(d)
    BY <2>1, <2>2, <2>4 DEF Inv
  <2>6. prints' \in 0 .. MaxPrints /\ erased' \in BOOLEAN /\ fb_height' \in Heights
    BY <2>2 DEF Inv
  <2>7. IsCon(con)' /\ Settled(con)' /\ (Aligned => OnLine(con.y))'
    BY <2>2, <2>4 DEF IsCon, IsScreen, Settled, Aligned, OnLine, Cols, Bands
  <2>8. (Aligned \/ ~erased => Sound(con))'
    BY <2>2, <2>5 DEF Aligned, Sound, Fits, CursorAt, NoCursor, Cols, Bands, CursorBands
  <2> QED BY <2>6, <2>7, <2>8 DEF Inv
<1> QED BY <1>1, <1>2, <1>3, <1>4 DEF Next

LEMMA InvHolds == Spec => []Inv
<1>1. Init => Inv
  BY InvInit
<1>2. Inv /\ [Next]_vars => Inv'
  BY InvNext
<1> QED BY <1>1, <1>2, PTL DEF Spec

(* Through every wrap, scroll and backspace liminefb.c keeps the cursor    *)
(* and the place it erases it from in the columns of the screen, and the   *)
(* screen keeps its bands, on framebuffers of every size, whole lines or   *)
(* not.                                                                    *)
THEOREM TypeCorrect == Spec => []TypeOK
<1>1. Inv => TypeOK
  BY DEF Inv, TypeOK, IsCon, IsScreen, Settled, Cols
<1> QED BY <1>1, InvHolds, PTL

(* Whoever prints what, liminefb.c writes into the framebuffer and nowhere *)
(* else but for the heads of glyphs on the first line, on every screen of  *)
(* whole lines, and on every other one until a backspace is printed.       *)
THEOREM StaysInsideHolds == Spec => []StaysInside
<1>1. Inv => StaysInside
  BY DEF Inv, StaysInside, Sound
<1> QED BY <1>1, InvHolds, PTL

(* On the same screens exactly one whole cursor is shown, where the next   *)
(* character goes: erasing it and drawing it again never leaves a trace,   *)
(* in whatever order newline, scroll and erase_char nest.                  *)
THEOREM OneCursorHolds == Spec => []OneCursor
<1>1. ASSUME Inv, Aligned \/ ~erased, CursorAt(con, con.x, con.y)
      PROVE  CursorShown = CursorBands(con.y) \X {con.x}
  <2>1. con.x \in Cols /\ CursorBands(con.y) \subseteq Bands
    <3>1. PICK y : y = con.y
      OBVIOUS
    <3>2. y \in Int /\ Fits(y) /\ fb_height \in Heights
      BY <1>1, <3>1 DEF Inv, Sound, IsCon
    <3> QED BY <1>1, <3>1, <3>2, BandsFit DEF Inv, Settled
  <2>2. \A p \in Bands \X Cols :
          Cursor \in con.screen[p[1]][p[2]] <=> p[1] \in CursorBands(con.y) /\ p[2] = con.x
    BY <1>1 DEF CursorAt
  <2>3. CursorShown = {p \in Bands \X Cols : p[1] \in CursorBands(con.y) /\ p[2] = con.x}
    BY <2>2 DEF CursorShown, Cols
  <2> QED BY <2>1, <2>3
<1>2. ASSUME NoCursor(con) PROVE CursorShown = {}
  BY <1>2 DEF NoCursor, CursorShown, Cols
<1>3. Inv => OneCursor
  BY <1>1, <1>2 DEF Inv, Sound, OneCursor
<1> QED BY <1>3, InvHolds, PTL


-----------------------------------------------------------------------------
(* Bands of a cell                                                         *)

(* Two lines are the same, or one is above the other by a line at least. *)
LEMMA LinesApart ==
  ASSUME NEW r \in Int, NEW n \in Int
  PROVE  /\ CHARSIZE * r \in Int /\ CHARSIZE * n \in Int
         /\ r > n => CHARSIZE * r >= CHARSIZE * n + CHARSIZE
         /\ r = n + 1 => CHARSIZE * r = CHARSIZE * n + CHARSIZE
<1>1. CHARSIZE \in Nat /\ CHARSIZE > 0
  BY SizesAre
<1>2. CHARSIZE * (n + 1) = CHARSIZE * n + CHARSIZE
  BY <1>1
<1>3. r > n => CHARSIZE * r >= CHARSIZE * (n + 1)
  BY <1>1
<1>4. CHARSIZE * r \in Int /\ CHARSIZE * n \in Int
  BY <1>1
<1> QED BY <1>1, <1>2, <1>3, <1>4

(* The bands of a cell that are neither the cursor's nor of a glyph below. *)
Body == BASELINE_OFFSET .. (CHARSIZE - 1)

BandOf(r, k) == CHARSIZE * r + k - BASELINE_OFFSET

(* No line's cursor reaches into band b. *)
Dry(b) == \A n \in Int : b \notin CursorBands(CHARSIZE * n)

LEMMA OffsetsAre ==
  /\ CHARSIZE \in Nat /\ CHARSIZE > 0 /\ CURSOR_HEIGHT \in Nat /\ BASELINE_OFFSET \in Nat
  /\ CURSOR_HEIGHT <= BASELINE_OFFSET /\ BASELINE_OFFSET < CHARSIZE
  BY SizesAre, PrintAssumption

LEMMA BandIs ==
  ASSUME NEW r \in Int, NEW k \in Body
  PROVE  /\ BandOf(r, k) \in Int /\ Dry(BandOf(r, k))
         /\ CHARSIZE * r <= BandOf(r, k) /\ BandOf(r, k) < CHARSIZE * r + CHARSIZE
<1>1. k \in Int /\ BASELINE_OFFSET <= k /\ k <= CHARSIZE - 1
  BY OffsetsAre DEF Body
<1>2. CHARSIZE * r \in Int
  BY LinesApart
<1>3. PICK rc \in Int : rc = CHARSIZE * r
  BY <1>2
<1>4. BandOf(r, k) = rc + k - BASELINE_OFFSET
  BY <1>3 DEF BandOf
<1>5. ASSUME NEW n \in Int PROVE BandOf(r, k) \notin CursorBands(CHARSIZE * n)
  <2>1. PICK nc \in Int : nc = CHARSIZE * n
    BY LinesApart
  <2>2. (r > n => rc >= nc + CHARSIZE) /\ (n > r => nc >= rc + CHARSIZE) /\ (n = r => nc = rc)
    BY <1>3, <2>1, LinesApart
  <2>3. CursorBands(CHARSIZE * n) = (nc + CHARSIZE - CURSOR_HEIGHT) .. (nc + CHARSIZE - 1)
    BY <2>1 DEF CursorBands
  <2> QED BY <1>1, <1>4, <2>2, <2>3, OffsetsAre
<1>6. BandOf(r, k) \in Int /\ rc <= BandOf(r, k) /\ BandOf(r, k) < rc + CHARSIZE
  BY <1>1, <1>4, OffsetsAre
<1> QED BY <1>3, <1>5, <1>6 DEF Dry

(* Only its own line has a band of a cell. *)
LEMMA BandApart ==
  ASSUME NEW r \in Int, NEW k \in Body, NEW n \in Int
  PROVE  /\ (CHARSIZE * n <= BandOf(r, k) /\ BandOf(r, k) <= CHARSIZE * n + CHARSIZE - 1) <=> n = r
         /\ (CHARSIZE * n <= BandOf(r, k) + BASELINE_OFFSET
               /\ BandOf(r, k) + BASELINE_OFFSET <= CHARSIZE * n + CHARSIZE - 1) <=> n = r
<1>1. PICK rc \in Int, nc \in Int : rc = CHARSIZE * r /\ nc = CHARSIZE * n
  BY LinesApart
<1>2. (r > n => rc >= nc + CHARSIZE) /\ (n > r => nc >= rc + CHARSIZE) /\ (n = r => nc = rc)
  BY <1>1, LinesApart
<1>3. BandOf(r, k) = rc + k - BASELINE_OFFSET
  BY <1>1 DEF BandOf
<1>4. k \in Int /\ BASELINE_OFFSET <= k /\ k <= CHARSIZE - 1
  BY OffsetsAre DEF Body
<1>5. n = r \/ n > r \/ r > n
  OBVIOUS
<1> QED BY <1>1, <1>2, <1>3, <1>4, <1>5, OffsetsAre

-----------------------------------------------------------------------------
(* Lines of the screen                                                     *)

Rows == 0 .. ((fb_height \div CHARSIZE) - 1)

LEMMA RowsAre ==
  ASSUME fb_height \in Heights, Aligned
  PROVE  \E h \in Nat : /\ h > 0 /\ fb_height = CHARSIZE * h /\ Rows = 0 .. (h - 1)
                        /\ fb_height - CHARSIZE = CHARSIZE * (h - 1)
<1>1. fb_height \in Nat /\ fb_height >= CHARSIZE /\ CHARSIZE \in Nat /\ CHARSIZE > 0
  BY HeightIs, SizesAre
<1>2. fb_height = CHARSIZE * (fb_height \div CHARSIZE) + (fb_height % CHARSIZE)
  BY <1>1, DivMod
<1>3. PICK h \in Int : h = fb_height \div CHARSIZE
  BY <1>1
<1>4. fb_height = CHARSIZE * h
  BY <1>1, <1>2, <1>3 DEF Aligned
<1>5. h > 0
  <2>1. CHARSIZE * 0 = 0
    BY <1>1
  <2>2. h < 0 => CHARSIZE * h < 0
    BY <1>1, <2>1, LinesApart
  <2> QED BY <1>1, <1>4, <2>1, <2>2
<1>6. fb_height - CHARSIZE = CHARSIZE * (h - 1)
  BY <1>1, <1>4
<1>7. h \in Nat /\ Rows = 0 .. (h - 1)
  BY <1>3, <1>5 DEF Rows
<1> QED BY <1>4, <1>5, <1>6, <1>7

(* A line on the screen is one of its rows. *)
LEMMA RowOf ==
  ASSUME fb_height \in Heights, Aligned, NEW y \in Int, Fits(y), OnLine(y)
  PROVE  \E n \in Rows : y = CHARSIZE * n
<1>1. PICK h \in Nat : /\ h > 0 /\ fb_height = CHARSIZE * h /\ Rows = 0 .. (h - 1)
                       /\ fb_height - CHARSIZE = CHARSIZE * (h - 1)
  BY RowsAre
<1>2. PICK n \in Int : y = CHARSIZE * n
  BY DEF OnLine
<1>3. fb_height \in Nat /\ CHARSIZE \in Nat /\ CHARSIZE > 0
  BY HeightIs, SizesAre
<1>4. CHARSIZE * 0 = 0
  BY <1>3
<1>5. 0 > n => 0 >= y + CHARSIZE
  BY <1>2, <1>4, LinesApart
<1>6. n > h - 1 => y >= fb_height - CHARSIZE + CHARSIZE
  BY <1>1, <1>2, LinesApart
<1>7. ~(0 > n) /\ ~(n > h - 1)
  BY <1>3, <1>5, <1>6 DEF Fits
<1>8. n \in Rows
  BY <1>1, <1>7
<1> QED BY <1>2, <1>8

LEMMA RowBands ==
  ASSUME fb_height \in Heights, Aligned, NEW r \in Rows, NEW k \in Body
  PROVE  r \in Int /\ BandOf(r, k) \in Bands /\ Fits(CHARSIZE * r)
<1>1. PICK h \in Nat : /\ h > 0 /\ fb_height = CHARSIZE * h /\ Rows = 0 .. (h - 1)
                       /\ fb_height - CHARSIZE = CHARSIZE * (h - 1)
  BY RowsAre
<1>2. r \in Int /\ 0 <= r /\ r <= h - 1
  BY <1>1
<1>3. fb_height \in Nat /\ CHARSIZE \in Nat /\ CHARSIZE > 0
  BY HeightIs, SizesAre
<1>4. PICK rc \in Int : rc = CHARSIZE * r
  BY <1>2, LinesApart
<1>5. CHARSIZE * 0 = 0
  BY <1>3
<1>6. r > 0 => rc >= 0
  BY <1>2, <1>3, <1>4, <1>5, LinesApart
<1>7. h - 1 > r => fb_height - CHARSIZE >= rc + CHARSIZE
  BY <1>1, <1>2, <1>4, LinesApart
<1>8. 0 <= rc /\ rc <= fb_height - CHARSIZE
  <2>1. r = 0 => rc = 0
    BY <1>4, <1>5
  <2>2. r = h - 1 => rc = fb_height - CHARSIZE
    BY <1>1, <1>4
  <2> QED BY <1>1, <1>2, <1>3, <1>6, <1>7, <2>1, <2>2
<1>9. BandOf(r, k) \in Int /\ rc <= BandOf(r, k) /\ BandOf(r, k) < rc + CHARSIZE
  BY <1>2, <1>4, BandIs
<1> QED BY <1>2, <1>3, <1>4, <1>8, <1>9 DEF Bands, Fits


-----------------------------------------------------------------------------
(* What the operations do to ink that is not the cursor's                  *)

SameInk(c, d) == \A b \in Bands, u \in Cols : Dry(b) => d.screen[b][u] = c.screen[b][u]

(* d shows what c shows a line further down. *)
UpInk(c, d) ==
  \A b \in Bands, u \in Cols :
    Dry(b) => d.screen[b][u] = IF b + CHARSIZE \in Bands THEN c.screen[b + CHARSIZE][u] ELSE {}

LEMMA SameInkTwice ==
  ASSUME NEW c, NEW d, NEW e, SameInk(c, d), SameInk(d, e)
  PROVE  SameInk(c, e)
  BY DEF SameInk

LEMMA DryBands ==
  ASSUME NEW b, Dry(b), NEW y, OnLine(y)
  PROVE  b \notin CursorBands(y)
  BY DEF Dry, OnLine

LEMMA erase_cursorInk ==
  ASSUME NEW c, IsCon(c), c.prev_x \in Cols, OnLine(c.prev_y),
         NEW d, d = liminefb_erase_cursor(c)
  PROVE  SameInk(c, d)
<1>1. d = Wipe(c, c.prev_x, CursorBands(c.prev_y))
  BY DEF liminefb_erase_cursor
<1>2. PICK bands, x : bands = CursorBands(c.prev_y) /\ x = c.prev_x
  OBVIOUS
<1>3. \A y \in Bands, u \in Cols :
        d.screen[y][u] = IF y \in bands /\ u = x THEN {} ELSE c.screen[y][u]
  BY <1>1, <1>2, WipeIs
<1>4. \A b : Dry(b) => b \notin bands
  BY <1>2, DryBands
<1> QED BY <1>3, <1>4 DEF SameInk

LEMMA RedrawInk ==
  ASSUME fb_height \in Heights, NEW c, IsCon(c), c.prev_x \in Cols, c.x \in Cols,
         OnLine(c.y), OnLine(c.prev_y), NEW d, d = RedrawHere(c)
  PROVE  SameInk(c, d)
<1>1. PICK e : e = liminefb_erase_cursor(c)
  OBVIOUS
<1>2. IsCon(e) /\ SameAt(c, e) /\ SameInk(c, e)
  BY <1>1, erase_cursorIs, erase_cursorInk
<1>3. PICK y : y = IF e.y > fb_height THEN e.y - CHARSIZE ELSE e.y
  OBVIOUS
<1>4. PICK x, ink : /\ x = e.x
                    /\ ink = [b \in {k \in CursorBands(y) : k < fb_height} |-> Cursor]
  OBVIOUS
<1>5. PICK f : f = Paint(e, x, ink)
  OBVIOUS
<1>6. d = [f EXCEPT !.y = y, !.prev_x = e.x, !.prev_y = y]
  BY <1>1, <1>3, <1>4, <1>5 DEF RedrawHere
<1>7. x \in Cols /\ c.y \in Int
  BY <1>2, <1>4 DEF SameAt, IsCon
<1>8. IsCon(f) /\ Painted(e, x, ink, f)
  BY <1>2, <1>5, <1>7, PaintIs
<1>9. d.screen = f.screen
  <2>1. f = Con(f.x, f.y, f.prev_x, f.prev_y, f.outside, f.screen)
    BY <1>8 DEF IsCon
  <2> QED BY <1>6, <2>1 DEF Con
<1>10. OnLine(y)
  BY <1>2, <1>3, <1>7, LineSteps DEF SameAt
<1>11. \A b : Dry(b) => b \notin DOMAIN ink
  BY <1>4, <1>10, DryBands
<1>12. SameInk(e, d)
  <2> SUFFICES ASSUME NEW b \in Bands, NEW u \in Cols, Dry(b)
               PROVE  d.screen[b][u] = e.screen[b][u]
    BY DEF SameInk
  <2> QED BY <1>8, <1>9, <1>11 DEF Painted
<1> QED BY <1>2, <1>12, SameInkTwice

LEMMA DryBelow ==
  ASSUME NEW b \in Int, Dry(b)
  PROVE  Dry(b + CHARSIZE)
<1> SUFFICES ASSUME NEW n \in Int, b + CHARSIZE \in CursorBands(CHARSIZE * n) PROVE FALSE
  BY DEF Dry
<1>1. PICK nc \in Int : nc = CHARSIZE * n
  BY LinesApart
<1>2. CHARSIZE * (n - 1) = nc - CHARSIZE
  BY <1>1, SizesAre
<1>3. b \in CursorBands(CHARSIZE * (n - 1))
  BY <1>1, <1>2, SizesAre DEF CursorBands
<1> QED BY <1>3 DEF Dry

LEMMA ScrollInk ==
  ASSUME fb_height \in Heights, Aligned, NEW c, IsCon(c), c.prev_x \in Cols, OnLine(c.prev_y),
         NEW d, d = liminefb_scroll(c)
  PROVE  UpInk(c, d)
<1>1. PICK e : e = liminefb_erase_cursor(c)
  OBVIOUS
<1>2. IsCon(e) /\ SameAt(c, e) /\ SameInk(c, e)
  BY <1>1, erase_cursorIs, erase_cursorInk
<1>3. PICK up : up = [y \in Bands |-> IF y + CHARSIZE \in Bands THEN e.screen[y + CHARSIZE]
                                      ELSE [x \in 0 .. (Width - 1) |-> {}]]
  OBVIOUS
<1>4. PICK y : y = fb_height - CHARSIZE
  OBVIOUS
<1>5. PICK f : f = [e EXCEPT !.screen = up, !.x = 0, !.y = y]
  OBVIOUS
<1>6. d = RedrawHere(f)
  BY <1>1, <1>3, <1>4, <1>5 DEF liminefb_scroll
<1>7. y \in Int /\ 0 \in Cols /\ OnLine(y)
  BY <1>4, HeightIs, SizesAre, LastLineIs DEF Cols
<1>8. IsScreen(up)
  <2>1. \A b \in Bands : up[b] = [x \in Cols |-> up[b][x]]
    BY <1>2, <1>3 DEF IsCon, IsScreen, Cols
  <2> QED BY <1>3, <2>1 DEF IsScreen
<1>9. f = Con(0, y, c.prev_x, c.prev_y, e.outside, up)
  <2>1. PICK g : g = [e EXCEPT !.screen = up]
    OBVIOUS
  <2>2. g = Con(e.x, e.y, e.prev_x, e.prev_y, e.outside, up)
    BY <1>2, <2>1 DEF IsCon, Con
  <2>3. PICK h : h = [g EXCEPT !.x = 0]
    OBVIOUS
  <2>4. h = Con(0, e.y, e.prev_x, e.prev_y, e.outside, up)
    BY <2>2, <2>3 DEF Con
  <2>5. f = [h EXCEPT !.y = y]
    BY <1>5, <2>1, <2>3
  <2> QED BY <1>2, <2>4, <2>5 DEF Con, SameAt
<1>10. /\ f.x = 0 /\ f.y = y /\ f.prev_x = c.prev_x /\ f.prev_y = c.prev_y
       /\ f.outside = e.outside /\ f.screen = up
  BY <1>9 DEF Con
<1>11. IsCon(f)
  BY <1>7, <1>8, <1>9, <1>10 DEF IsCon
<1>12. SameInk(f, d)
  BY <1>6, <1>7, <1>10, <1>11, RedrawInk
<1> SUFFICES ASSUME NEW b \in Bands, NEW u \in Cols, Dry(b)
             PROVE  d.screen[b][u] = IF b + CHARSIZE \in Bands THEN c.screen[b + CHARSIZE][u]
                                     ELSE {}
  BY DEF UpInk
<1>13. d.screen[b][u] = up[b][u]
  BY <1>10, <1>12 DEF SameInk
<1>14. b \in Int
  BY DEF Bands
<1>15. CASE b + CHARSIZE \in Bands
  <2>1. up[b] = e.screen[b + CHARSIZE]
    BY <1>3, <1>15
  <2>2. e.screen[b + CHARSIZE][u] = c.screen[b + CHARSIZE][u]
    BY <1>2, <1>14, <1>15, DryBelow DEF SameInk
  <2> QED BY <1>13, <1>15, <2>1, <2>2
<1>16. CASE b + CHARSIZE \notin Bands
  BY <1>3, <1>13, <1>16 DEF Cols
<1> QED BY <1>15, <1>16


(* liminefb_newline from a line on the screen: to the next, or with all    *)
(* lines moved up to the last.                                             *)
Newlined(c, d) ==
  /\ d.x = 0
  /\ \/ c.y # fb_height - CHARSIZE /\ d.y = c.y + CHARSIZE /\ SameInk(c, d)
     \/ c.y = fb_height - CHARSIZE /\ d.y = c.y /\ UpInk(c, d)

(* On a screen of whole lines, on one of them. *)
Placed(c) ==
  /\ IsCon(c) /\ c.prev_x \in Cols /\ OnLine(c.prev_y) /\ OnLine(c.y) /\ Fits(c.y)

LEMMA RedrawStays ==
  ASSUME fb_height \in Heights, NEW c, Placed(c), c.x \in Cols, NEW d, d = RedrawHere(c)
  PROVE  Placed(d) /\ d.x = c.x /\ d.y = c.y /\ SameInk(c, d)
<1>1. /\ IsCon(d) /\ Settled(d) /\ d.x = c.x /\ (c.y <= fb_height => d.y = c.y)
  BY RedrawIs DEF Placed
<1>2. c.y <= fb_height
  BY HeightIs, SizesAre DEF Placed, Fits, IsCon
<1>3. SameInk(c, d)
  BY RedrawInk DEF Placed
<1> QED BY <1>1, <1>2, <1>3 DEF Placed, Settled

LEMMA newlineInk ==
  ASSUME fb_height \in Heights, Aligned, NEW c, Placed(c), NEW d, d = liminefb_newline(c)
  PROVE  Newlined(c, d) /\ Placed(d)
<1>1. PICK e : e = [c EXCEPT !.x = 0, !.y = c.y + CHARSIZE]
  OBVIOUS
<1>2. /\ fb_height \in Nat /\ CHARSIZE \in Nat /\ CHARSIZE > 0 /\ c.y \in Int /\ 0 \in Cols
      /\ 0 <= c.y /\ c.y <= fb_height - CHARSIZE /\ IsCon(c) /\ OnLine(c.y) /\ OnLine(c.prev_y)
  BY HeightIs, SizesAre DEF Placed, IsCon, Cols, Fits
<1>3. PICK y, x : y = c.y + CHARSIZE /\ x = 0
  OBVIOUS
<1>4. IsCon(e) /\ Moved(c, x, y, e)
  <2>1. e = [c EXCEPT !.x = x, !.y = y] /\ x \in Int /\ y \in Int
    BY <1>1, <1>2, <1>3
  <2> QED BY <1>2, <2>1, MoveXYIs
<1>5. PICK m : m = IF Below(e.y) THEN liminefb_scroll(e) ELSE e
  OBVIOUS
<1>6. d = RedrawHere(m)
  BY <1>1, <1>5 DEF liminefb_newline
<1>7. /\ e.x = 0 /\ e.y = c.y + CHARSIZE /\ e.prev_x \in Cols /\ OnLine(e.prev_y)
      /\ e.screen = c.screen
  BY <1>3, <1>4 DEF Moved, Placed
<1>8. CASE Below(e.y)
  <2>1. m = liminefb_scroll(e)
    BY <1>5, <1>8
  <2>2. IsCon(m) /\ Settled(m) /\ m.x = 0 /\ m.y = fb_height - CHARSIZE
    BY <2>1, <1>4, <1>7, ScrollIs
  <2>3. UpInk(e, m)
    BY <2>1, <1>4, <1>7, ScrollInk
  <2>4. c.y = fb_height - CHARSIZE
    <3>1. PICK h \in Nat : /\ h > 0 /\ fb_height = CHARSIZE * h /\ Rows = 0 .. (h - 1)
                           /\ fb_height - CHARSIZE = CHARSIZE * (h - 1)
      BY RowsAre
    <3>2. PICK n \in Int : c.y = CHARSIZE * n
      BY <1>2 DEF OnLine
    <3>3. h - 1 > n => fb_height - CHARSIZE >= c.y + CHARSIZE
      BY <3>1, <3>2, LinesApart
    <3>4. n > h - 1 => c.y >= fb_height - CHARSIZE + CHARSIZE
      BY <3>1, <3>2, LinesApart
    <3>5. n = h - 1
      BY <1>2, <1>7, <1>8, <3>3, <3>4 DEF Below
    <3> QED BY <3>1, <3>2, <3>5
  <2>5. Placed(m) /\ m.x \in Cols
    BY <2>2, <2>4, <1>2 DEF Placed, Settled, Fits
  <2>6. Placed(d) /\ d.x = m.x /\ d.y = m.y /\ SameInk(m, d)
    BY <1>6, <2>5, RedrawStays
  <2>7. UpInk(c, d)
    BY <2>3, <2>6, <1>7 DEF UpInk, SameInk
  <2> QED BY <2>2, <2>4, <2>6, <2>7 DEF Newlined
<1>9. CASE ~Below(e.y)
  <2>1. m = e
    BY <1>5, <1>9
  <2>2. Placed(e)
    BY <1>2, <1>4, <1>7, <1>9, LineSteps DEF Placed, Fits, Below
  <2>3. Placed(d) /\ d.x = e.x /\ d.y = e.y /\ SameInk(e, d)
    BY <1>2, <1>6, <1>7, <2>1, <2>2, RedrawStays
  <2>4. SameInk(c, d)
    BY <2>3, <1>7 DEF SameInk
  <2>5. c.y # fb_height - CHARSIZE
    BY <1>2, <1>7, <1>9 DEF Below
  <2> QED BY <1>7, <2>3, <2>4, <2>5 DEF Newlined
<1> QED BY <1>8, <1>9

LEMMA redraw_cursorInk ==
  ASSUME fb_height \in Heights, Aligned, NEW c, Placed(c), c.x \in 0 .. Width,
         NEW d, d = liminefb_redraw_cursor(c)
  PROVE  /\ Placed(d)
         /\ \/ c.x < Width /\ d.x = c.x /\ d.y = c.y /\ SameInk(c, d)
            \/ c.x = Width /\ Newlined(c, d)
<1>1. CASE c.x + 1 > Width
  <2>1. PICK m : m = liminefb_newline(c)
    OBVIOUS
  <2>2. d = RedrawHere(m)
    BY <1>1, <2>1 DEF liminefb_redraw_cursor
  <2>3. Newlined(c, m) /\ Placed(m)
    BY <2>1, newlineInk
  <2>4. m.x \in Cols /\ c.x = Width
    BY <1>1, <2>3, SizesAre DEF Newlined, Cols
  <2>5. Placed(d) /\ d.x = m.x /\ d.y = m.y /\ SameInk(m, d)
    BY <2>2, <2>3, <2>4, RedrawStays
  <2>6. Newlined(c, d)
    BY <2>3, <2>5 DEF Newlined, SameInk, UpInk
  <2> QED BY <2>4, <2>5, <2>6
<1>2. CASE ~(c.x + 1 > Width)
  <2>1. d = RedrawHere(c)
    BY <1>2 DEF liminefb_redraw_cursor
  <2>2. c.x \in Cols /\ c.x < Width
    BY <1>2, SizesAre DEF Cols
  <2> QED BY <2>1, <2>2, RedrawStays
<1> QED BY <1>1, <1>2

LEMMA erase_charInk ==
  ASSUME fb_height \in Heights, Aligned, NEW c, Placed(c), c.x \in Cols,
         NEW d, d = liminefb_erase_char(c)
  PROVE  /\ Placed(d) /\ d.x = c.x /\ d.y = c.y
         /\ \A b \in Bands, u \in Cols :
              Dry(b) => d.screen[b][u] = IF b \in c.y .. (c.y + CHARSIZE - 1) /\ u = c.x THEN {}
                                         ELSE c.screen[b][u]
<1>1. PICK x, bands : x = c.x /\ bands = c.y .. (c.y + CHARSIZE - 1)
  OBVIOUS
<1>2. PICK e : e = Wipe(c, x, bands)
  OBVIOUS
<1>3. d = liminefb_redraw_cursor(e)
  BY <1>1, <1>2 DEF liminefb_erase_char
<1>4. x \in Cols /\ IsCon(c)
  BY <1>1 DEF Placed
<1>5. /\ IsCon(e) /\ SameAt(c, e) /\ e.outside = c.outside \cup (bands \ Bands)
      /\ \A y \in Bands, u \in Cols :
           e.screen[y][u] = IF y \in bands /\ u = x THEN {} ELSE c.screen[y][u]
  BY <1>2, <1>4, WipeIs
<1>6. Placed(e) /\ e.x = c.x /\ e.y = c.y
  BY <1>5 DEF Placed, SameAt
<1>7. e.x \in 0 .. Width /\ e.x # Width
  BY <1>6, SizesAre DEF Cols
<1>8. Placed(d) /\ d.x = e.x /\ d.y = e.y /\ SameInk(e, d)
  BY <1>3, <1>6, <1>7, redraw_cursorInk
<1> SUFFICES ASSUME NEW b \in Bands, NEW u \in Cols, Dry(b)
             PROVE  d.screen[b][u] = IF b \in bands /\ u = x THEN {} ELSE c.screen[b][u]
  BY <1>1, <1>6, <1>8
<1> QED BY <1>5, <1>8 DEF SameInk


-----------------------------------------------------------------------------
(* The text                                                                *)

Texts == [Rows -> [Cols -> Glyphs \cup {Blank}]]

CellIs(s, r, x, a) == \A k \in Body : s[BandOf(r, k)][x] = IF a = Blank THEN {} ELSE {Ink(a, k)}

Spells(c, t) == \A r \in Rows, x \in Cols : CellIs(c.screen, r, x, t[r][x])

(* Nothing stands in the lines below the cursor's, and in its own behind   *)
(* it: a glyph is drawn on an empty cell.                                  *)
EmptyBelow(c, t) == \A r \in Rows, x \in Cols : CHARSIZE * r > c.y => t[r][x] = Blank
EmptyBehind(c, t) == \A r \in Rows, x \in Cols : CHARSIZE * r = c.y /\ x >= c.x => t[r][x] = Blank

Reads(c, t) == /\ Placed(c) /\ c.x \in Cols /\ t \in Texts /\ Spells(c, t)
               /\ EmptyBelow(c, t) /\ EmptyBehind(c, t)

Lifted(t) == [r \in Rows |-> IF r + 1 \in Rows THEN t[r + 1] ELSE [x \in Cols |-> Blank]]

(* u is t with a in one cell. *)
Puts(t, n, x, a, u) == u = [t EXCEPT ![n][x] = a]

LEMMA SetCell ==
  ASSUME NEW t \in Texts, NEW n \in Rows, NEW x \in Cols, NEW a \in Glyphs \cup {Blank},
         NEW u, Puts(t, n, x, a, u)
  PROVE  /\ u \in Texts
         /\ \A r \in Rows, v \in Cols : u[r][v] = IF r = n /\ v = x THEN a ELSE t[r][v]
<1>1. \A r \in Rows : t[r] \in [Cols -> Glyphs \cup {Blank}]
  BY DEF Texts
<1>2. PICK l : l = [t[n] EXCEPT ![x] = a]
  OBVIOUS
<1>3. u = [t EXCEPT ![n] = l]
  BY <1>2 DEF Puts
<1>4. l \in [Cols -> Glyphs \cup {Blank}] /\ \A v \in Cols : l[v] = IF v = x THEN a ELSE t[n][v]
  BY <1>1, <1>2
<1>5. \A r \in Rows : u[r] = IF r = n THEN l ELSE t[r]
  BY <1>3 DEF Texts
<1> QED BY <1>1, <1>3, <1>4, <1>5 DEF Texts

LEMMA SpellsSame ==
  ASSUME fb_height \in Heights, Aligned, NEW c, NEW d, NEW t, SameInk(c, d), Spells(c, t)
  PROVE  Spells(d, t)
<1> SUFFICES ASSUME NEW r \in Rows, NEW x \in Cols, NEW k \in Body
             PROVE  d.screen[BandOf(r, k)][x] = c.screen[BandOf(r, k)][x]
  BY DEF Spells, CellIs
<1>1. r \in Int /\ BandOf(r, k) \in Bands
  BY RowBands
<1>2. Dry(BandOf(r, k))
  BY <1>1, BandIs
<1> QED BY <1>1, <1>2 DEF SameInk

LEMMA LiftedIs ==
  ASSUME fb_height \in Heights, Aligned, NEW t \in Texts
  PROVE  /\ Lifted(t) \in Texts
         /\ \A r \in Rows, x \in Cols :
              Lifted(t)[r][x] = IF r + 1 \in Rows THEN t[r + 1][x] ELSE Blank
  BY DEF Lifted, Texts

LEMMA SpellsUp ==
  ASSUME fb_height \in Heights, Aligned, NEW c, NEW d, NEW t \in Texts, UpInk(c, d), Spells(c, t)
  PROVE  Spells(d, Lifted(t))
<1> SUFFICES ASSUME NEW r \in Rows, NEW x \in Cols, NEW k \in Body
             PROVE  d.screen[BandOf(r, k)][x] = IF Lifted(t)[r][x] = Blank THEN {}
                                                ELSE {Ink(Lifted(t)[r][x], k)}
  BY DEF Spells, CellIs
<1>1. r \in Int /\ BandOf(r, k) \in Bands
  BY RowBands
<1>2. Dry(BandOf(r, k)) /\ BandOf(r, k) \in Int /\ CHARSIZE * r <= BandOf(r, k)
  BY <1>1, BandIs
<1>3. PICK b : b = BandOf(r, k) + CHARSIZE
  OBVIOUS
<1>4. d.screen[BandOf(r, k)][x] = IF b \in Bands THEN c.screen[b][x] ELSE {}
  BY <1>1, <1>2, <1>3 DEF UpInk
<1>5. Lifted(t)[r][x] = IF r + 1 \in Rows THEN t[r + 1][x] ELSE Blank
  BY LiftedIs
<1>6. CHARSIZE * (r + 1) = CHARSIZE * r + CHARSIZE
  BY <1>1, LinesApart
<1>7. CASE r + 1 \in Rows
  <2>1. b = BandOf(r + 1, k)
    BY <1>1, <1>2, <1>3, <1>6, LinesApart, OffsetsAre DEF BandOf, Body
  <2>2. b \in Bands
    BY <1>7, <2>1, RowBands
  <2>3. c.screen[b][x] = IF t[r + 1][x] = Blank THEN {} ELSE {Ink(t[r + 1][x], k)}
    BY <1>7, <2>1 DEF Spells, CellIs
  <2> QED BY <1>4, <1>5, <1>7, <2>2, <2>3
<1>8. CASE r + 1 \notin Rows
  <2>1. PICK h \in Nat : /\ h > 0 /\ fb_height = CHARSIZE * h /\ Rows = 0 .. (h - 1)
    BY RowsAre
  <2>2. r + 1 = h
    BY <1>8, <2>1
  <2>3. b >= fb_height
    BY <1>1, <1>2, <1>3, <1>6, <2>1, <2>2, LinesApart, SizesAre
  <2>4. b \notin Bands
    BY <2>3, HeightIs DEF Bands
  <2> QED BY <1>4, <1>5, <1>8, <2>4
<1> QED BY <1>7, <1>8

LEMMA RowIs ==
  ASSUME fb_height \in Heights, Aligned, NEW r \in Rows
  PROVE  r \in Int /\ CHARSIZE * r \in Int /\ (r + 1 \in Rows <=> CHARSIZE * r # fb_height - CHARSIZE)
<1>1. PICK h \in Nat : /\ h > 0 /\ fb_height = CHARSIZE * h /\ Rows = 0 .. (h - 1)
                       /\ fb_height - CHARSIZE = CHARSIZE * (h - 1)
  BY RowsAre
<1>2. r \in Int /\ h - 1 \in Int /\ r <= h - 1
  BY <1>1
<1>3. h - 1 > r => CHARSIZE * (h - 1) >= CHARSIZE * r + CHARSIZE
  BY <1>2, LinesApart
<1>4. CHARSIZE * r \in Int /\ CHARSIZE \in Int /\ CHARSIZE > 0
  BY <1>2, LinesApart, SizesAre
<1> QED BY <1>1, <1>2, <1>3, <1>4

(* The text on the next line. *)
NextText(c, t) == IF c.y = fb_height - CHARSIZE THEN Lifted(t) ELSE t
NextBand(c) == IF c.y = fb_height - CHARSIZE THEN c.y ELSE c.y + CHARSIZE

LEMMA NewlineText ==
  ASSUME fb_height \in Heights, Aligned, NEW c, Placed(c), NEW t \in Texts, Spells(c, t),
         EmptyBelow(c, t), NEW d, Placed(d), Newlined(c, d)
  PROVE  d.x = 0 /\ d.y = NextBand(c) /\ Reads(d, NextText(c, t))
<1>1. d.x = 0 /\ d.y = NextBand(c)
  BY DEF Newlined, NextBand
<1>2. d.x \in Cols
  BY <1>1, SizesAre DEF Cols
<1>3. CHARSIZE \in Nat /\ CHARSIZE > 0 /\ c.y \in Int /\ fb_height \in Nat
  BY SizesAre, HeightIs DEF Placed, IsCon
<1>4. CASE c.y # fb_height - CHARSIZE
  <2>1. NextText(c, t) = t /\ SameInk(c, d) /\ d.y = c.y + CHARSIZE
    BY <1>4 DEF NextText, Newlined
  <2>2. Spells(d, t)
    BY <2>1, SpellsSame
  <2>3. EmptyBelow(d, t) /\ EmptyBehind(d, t)
    BY <1>3, <2>1, RowIs DEF EmptyBelow, EmptyBehind
  <2> QED BY <1>1, <1>2, <2>1, <2>2, <2>3 DEF Reads
<1>5. CASE c.y = fb_height - CHARSIZE
  <2>1. NextText(c, t) = Lifted(t) /\ UpInk(c, d) /\ d.y = c.y
    BY <1>5 DEF NextText, Newlined
  <2>2. Spells(d, Lifted(t)) /\ Lifted(t) \in Texts
    BY <2>1, SpellsUp, LiftedIs
  <2>3. ASSUME NEW r \in Rows, NEW x \in Cols, CHARSIZE * r >= d.y PROVE Lifted(t)[r][x] = Blank
    <3>1. Lifted(t)[r][x] = IF r + 1 \in Rows THEN t[r + 1][x] ELSE Blank
      BY LiftedIs
    <3>2. CASE r + 1 \in Rows
      <4>1. CHARSIZE * (r + 1) = CHARSIZE * r + CHARSIZE /\ CHARSIZE * r \in Int
        BY RowIs, LinesApart
      <4>2. CHARSIZE * (r + 1) > c.y
        BY <4>1, <2>1, <2>3, <1>3
      <4> QED BY <3>1, <3>2, <4>2 DEF EmptyBelow
    <3> QED BY <3>1, <3>2
  <2>4. EmptyBelow(d, Lifted(t)) /\ EmptyBehind(d, Lifted(t))
    BY <2>1, <2>3, <1>3, RowIs DEF EmptyBelow, EmptyBehind
  <2> QED BY <1>1, <1>2, <2>1, <2>2, <2>4 DEF Reads
<1> QED BY <1>4, <1>5


LEMMA DrawGlyphText ==
  ASSUME fb_height \in Heights, Aligned, NEW c, NEW t, Reads(c, t), NEW g \in Glyphs,
         NEW n \in Rows, c.y = CHARSIZE * n, NEW x, x = c.x,
         NEW d, d = DrawGlyph(c, g), NEW u, Puts(t, n, x, g, u)
  PROVE  Placed(d) /\ SameAt(c, d) /\ u \in Texts /\ Spells(d, u) /\ EmptyBelow(c, u)
         /\ \A v \in Cols : v > c.x => u[n][v] = Blank
<1>1. Placed(c) /\ IsCon(c) /\ x \in Cols /\ t \in Texts /\ Spells(c, t) /\ EmptyBelow(c, t)
      /\ EmptyBehind(c, t)
  BY DEF Reads, Placed
<1>2. g # Blank /\ g \in Glyphs \cup {Blank}
  BY PrintAssumption
<1>3. /\ u \in Texts
      /\ \A r \in Rows, v \in Cols : u[r][v] = IF r = n /\ v = x THEN g ELSE t[r][v]
  BY <1>1, <1>2, SetCell
<1>4. PICK top : top = c.y - BASELINE_OFFSET
  OBVIOUS
<1>5. PICK ink : ink = [b \in top .. (top + CHARSIZE - 1) |-> Ink(g, b - top)]
  OBVIOUS
<1>6. d = Paint(c, x, ink)
  BY <1>4, <1>5 DEF DrawGlyph
<1>7. IsCon(d) /\ Painted(c, x, ink, d)
  BY <1>1, <1>6, PaintIs
<1>8. SameAt(c, d)
  BY <1>7 DEF Painted
<1>9. Placed(d)
  BY <1>1, <1>7, <1>8 DEF Placed, SameAt
<1>10. n \in Int /\ CHARSIZE * n \in Int
  BY RowIs
<1>11. Spells(d, u)
  <2> SUFFICES ASSUME NEW r \in Rows, NEW v \in Cols, NEW k \in Body
               PROVE  d.screen[BandOf(r, k)][v] = IF u[r][v] = Blank THEN {} ELSE {Ink(u[r][v], k)}
    BY DEF Spells, CellIs
  <2>1. r \in Int /\ BandOf(r, k) \in Bands
    BY RowBands
  <2>2. PICK b \in Int : b = BandOf(r, k)
    BY <2>1, BandIs
  <2>3. b \in DOMAIN ink <=> n = r
    <3>1. (CHARSIZE * n <= b + BASELINE_OFFSET
             /\ b + BASELINE_OFFSET <= CHARSIZE * n + CHARSIZE - 1) <=> n = r
      BY <1>10, <2>1, <2>2, BandApart
    <3>2. DOMAIN ink = top .. (top + CHARSIZE - 1) /\ top = CHARSIZE * n - BASELINE_OFFSET
      BY <1>4, <1>5
    <3> QED BY <1>10, <2>2, <3>1, <3>2, OffsetsAre
  <2>4. c.screen[b][v] = IF t[r][v] = Blank THEN {} ELSE {Ink(t[r][v], k)}
    BY <1>1, <2>2 DEF Spells, CellIs
  <2>5. CASE r = n /\ v = x
    <3>1. t[r][v] = Blank
      <4>1. CHARSIZE * r = c.y /\ v >= c.x
        BY <1>1, <2>5 DEF Cols
      <4> QED BY <1>1, <4>1 DEF EmptyBehind
    <3>2. b - top = k
      BY <1>4, <1>10, <2>2, <2>5, OffsetsAre DEF BandOf, Body
    <3>3. ink[b] = Ink(g, k)
      BY <1>5, <2>3, <2>5, <3>2
    <3>4. d.screen[b][v] = c.screen[b][v] \cup {ink[b]}
      BY <1>7, <2>1, <2>2, <2>3, <2>5 DEF Painted
    <3>5. d.screen[b][v] = {Ink(g, k)}
      BY <2>4, <3>1, <3>3, <3>4
    <3> QED BY <1>2, <1>3, <2>2, <2>5, <3>5
  <2>6. CASE ~(r = n /\ v = x)
    <3>1. ~(b \in DOMAIN ink /\ v = x)
      BY <2>3, <2>6
    <3>2. d.screen[b][v] = c.screen[b][v]
      BY <1>7, <2>1, <2>2, <3>1 DEF Painted
    <3>3. u[r][v] = t[r][v]
      BY <1>3, <2>6
    <3> QED BY <2>2, <2>4, <3>2, <3>3
  <2> QED BY <2>5, <2>6
<1>12. EmptyBelow(c, u)
  <2> SUFFICES ASSUME NEW r \in Rows, NEW v \in Cols, CHARSIZE * r > c.y PROVE u[r][v] = Blank
    BY DEF EmptyBelow
  <2>1. r # n
    BY <1>10
  <2> QED BY <1>1, <1>3, <2>1 DEF EmptyBelow
<1>13. ASSUME NEW v \in Cols, v > c.x PROVE u[n][v] = Blank
  <2>1. v # x /\ v >= c.x
    BY <1>1, <1>13 DEF Cols
  <2> QED BY <1>1, <1>3, <2>1 DEF EmptyBehind
<1> QED BY <1>3, <1>8, <1>9, <1>11, <1>12, <1>13

(* A glyph, and the next column or line. *)
LEMMA GlyphText ==
  ASSUME fb_height \in Heights, Aligned, NEW c, NEW t, Reads(c, t), NEW g \in Glyphs,
         NEW n \in Rows, c.y = CHARSIZE * n, NEW x, x = c.x,
         NEW d, d = liminefb_redraw_cursor([DrawGlyph(c, g) EXCEPT !.x = @ + 1]),
         NEW u, Puts(t, n, x, g, u)
  PROVE  /\ u \in Texts
         /\ \/ x # Width - 1 /\ d.x = x + 1 /\ d.y = c.y /\ Reads(d, u)
            \/ x = Width - 1 /\ d.x = 0 /\ d.y = NextBand(c) /\ Reads(d, NextText(c, u))
<1>1. PICK f : f = DrawGlyph(c, g)
  OBVIOUS
<1>2. Placed(f) /\ SameAt(c, f) /\ u \in Texts /\ Spells(f, u) /\ EmptyBelow(c, u)
      /\ \A v \in Cols : v > c.x => u[n][v] = Blank
  BY <1>1, DrawGlyphText
<1>3. Width \in Nat /\ x \in Int /\ x \in Cols /\ x >= 0 /\ x <= Width - 1
  BY SizesAre DEF Reads, Cols
<1>4. PICK y : y = x + 1
  OBVIOUS
<1>5. PICK e : e = [f EXCEPT !.x = y]
  OBVIOUS
<1>6. d = liminefb_redraw_cursor(e)
  BY <1>1, <1>2, <1>4, <1>5 DEF SameAt
<1>7. IsCon(f) /\ y \in Int
  BY <1>2, <1>3, <1>4 DEF Placed
<1>8. IsCon(e) /\ Moved(f, y, f.y, e)
  BY <1>5, <1>7, MoveXIs
<1>9. e.x = y /\ e.y = c.y /\ e.screen = f.screen /\ Placed(e)
  BY <1>2, <1>8 DEF Moved, SameAt, Placed
<1>10. Spells(e, u) /\ EmptyBelow(e, u)
  BY <1>2, <1>9 DEF Spells, EmptyBelow
<1>11. e.x \in 0 .. Width
  BY <1>3, <1>4, <1>9
<1>12. /\ Placed(d)
       /\ \/ e.x < Width /\ d.x = e.x /\ d.y = e.y /\ SameInk(e, d)
          \/ e.x = Width /\ Newlined(e, d)
  BY <1>6, <1>9, <1>11, redraw_cursorInk
<1>13. CASE e.x = Width /\ Newlined(e, d)
  <2>1. d.x = 0 /\ d.y = NextBand(e) /\ Reads(d, NextText(e, u))
    BY <1>2, <1>9, <1>10, <1>12, <1>13, NewlineText
  <2>2. NextBand(e) = NextBand(c) /\ NextText(e, u) = NextText(c, u)
    BY <1>9 DEF NextBand, NextText
  <2>3. x = Width - 1
    BY <1>3, <1>4, <1>9, <1>13
  <2> QED BY <1>2, <2>1, <2>2, <2>3
<1>14. CASE e.x < Width /\ d.x = e.x /\ d.y = e.y /\ SameInk(e, d)
  <2>1. d.x = x + 1 /\ d.y = c.y /\ x # Width - 1 /\ d.x \in Cols
    BY <1>3, <1>4, <1>9, <1>14 DEF Cols
  <2>2. Spells(d, u)
    BY <1>10, <1>14, SpellsSame
  <2>3. EmptyBelow(d, u)
    BY <1>2, <2>1 DEF EmptyBelow
  <2>4. EmptyBehind(d, u)
    <3> SUFFICES ASSUME NEW r \in Rows, NEW v \in Cols, CHARSIZE * r = d.y, v >= d.x
                 PROVE  u[r][v] = Blank
      BY DEF EmptyBehind
    <3>1. r = n
      <4>1. r \in Int /\ n \in Int /\ CHARSIZE * r = CHARSIZE * n
        BY <2>1, RowIs
      <4>2. ~(r > n) /\ ~(n > r)
        BY <4>1, LinesApart, SizesAre
      <4> QED BY <4>1, <4>2
    <3>2. v > c.x
      BY <1>3, <2>1 DEF Cols
    <3> QED BY <1>2, <3>1, <3>2
  <2> QED BY <1>2, <1>12, <2>1, <2>2, <2>3, <2>4 DEF Reads
<1> QED BY <1>12, <1>13, <1>14


LEMMA SameRow ==
  ASSUME NEW r \in Int, NEW n \in Int
  PROVE  /\ CHARSIZE * r = CHARSIZE * n <=> r = n
         /\ CHARSIZE * r > CHARSIZE * n <=> r > n
<1>1. CHARSIZE * r \in Int /\ CHARSIZE * n \in Int /\ CHARSIZE \in Nat /\ CHARSIZE > 0
  BY LinesApart, SizesAre
<1>2. /\ r > n => CHARSIZE * r >= CHARSIZE * n + CHARSIZE
      /\ n > r => CHARSIZE * n >= CHARSIZE * r + CHARSIZE
  BY LinesApart
<1>3. r > n \/ n > r \/ r = n
  OBVIOUS
<1> QED BY <1>1, <1>2, <1>3

EmptyAfter(t, n, x) == \A v \in Cols : v > x => t[n][v] = Blank

(* The cursor was moved back to a cell of row n that is not erased yet. *)
Over(c, t, n) == /\ Placed(c) /\ c.x \in Cols /\ n \in Rows /\ c.y = CHARSIZE * n
                 /\ t \in Texts /\ Spells(c, t) /\ EmptyBelow(c, t) /\ EmptyAfter(t, n, c.x)

LEMMA EraseText ==
  ASSUME fb_height \in Heights, Aligned, NEW c, NEW t, NEW n, Over(c, t, n),
         NEW x, x = c.x, NEW d, d = liminefb_erase_char(c), NEW u, Puts(t, n, x, Blank, u)
  PROVE  d.x = c.x /\ d.y = c.y /\ Reads(d, u)
<1> USE DEF Over
<1>1. /\ Placed(d) /\ d.x = c.x /\ d.y = c.y
      /\ \A b \in Bands, v \in Cols :
           Dry(b) => d.screen[b][v] = IF b \in c.y .. (c.y + CHARSIZE - 1) /\ v = c.x THEN {}
                                      ELSE c.screen[b][v]
  BY erase_charInk
<1>2. /\ u \in Texts
      /\ \A r \in Rows, v \in Cols : u[r][v] = IF r = n /\ v = x THEN Blank ELSE t[r][v]
  BY SetCell
<1>3. n \in Int /\ CHARSIZE * n \in Int /\ CHARSIZE \in Nat
  BY RowIs, SizesAre
<1>4. Spells(d, u)
  <2> SUFFICES ASSUME NEW r \in Rows, NEW v \in Cols, NEW k \in Body
               PROVE  d.screen[BandOf(r, k)][v] = IF u[r][v] = Blank THEN {} ELSE {Ink(u[r][v], k)}
    BY DEF Spells, CellIs
  <2>1. r \in Int /\ BandOf(r, k) \in Bands
    BY RowBands
  <2>2. PICK b \in Int : b = BandOf(r, k)
    BY <2>1, BandIs
  <2>3. Dry(b)
    BY <2>1, <2>2, BandIs
  <2>4. b \in c.y .. (c.y + CHARSIZE - 1) <=> r = n
    <3>1. (CHARSIZE * n <= b /\ b <= CHARSIZE * n + CHARSIZE - 1) <=> n = r
      BY <1>3, <2>1, <2>2, BandApart
    <3> QED BY <1>3, <2>2, <3>1
  <2>5. d.screen[b][v] = IF r = n /\ v = x THEN {} ELSE c.screen[b][v]
    BY <1>1, <2>1, <2>2, <2>3, <2>4
  <2>6. c.screen[b][v] = IF t[r][v] = Blank THEN {} ELSE {Ink(t[r][v], k)}
    BY <2>2 DEF Spells, CellIs
  <2> QED BY <1>2, <2>2, <2>5, <2>6
<1>5. EmptyBelow(d, u)
  BY <1>1, <1>2 DEF EmptyBelow
<1>6. EmptyBehind(d, u)
  <2> SUFFICES ASSUME NEW r \in Rows, NEW v \in Cols, CHARSIZE * r = d.y, v >= d.x
               PROVE  u[r][v] = Blank
    BY DEF EmptyBehind
  <2>1. r = n
    BY <1>1, <1>3, RowIs, SameRow
  <2>2. v = x \/ v > x
    BY <1>1 DEF Cols
  <2> QED BY <1>2, <2>1, <2>2 DEF EmptyAfter
<1> QED BY <1>1, <1>2, <1>4, <1>5, <1>6 DEF Reads

(* A backspace: over a cell, over the start of a line, or at the top. *)
BackCases(c, t, n, d) ==
  \/ /\ c.x > 0 /\ d.x = c.x - 1 /\ d.y = c.y
     /\ \E u : Puts(t, n, c.x - 1, Blank, u) /\ Reads(d, u)
  \/ /\ c.x = 0 /\ n > 0 /\ d.x = Width - 1 /\ d.y = CHARSIZE * (n - 1)
     /\ \E u : Puts(t, n - 1, Width - 1, Blank, u) /\ Reads(d, u)
  \/ c.x = 0 /\ n = 0 /\ d = c

LEMMA BackText ==
  ASSUME fb_height \in Heights, Aligned, NEW c, NEW t, Reads(c, t), NEW n \in Rows,
         c.y = CHARSIZE * n, NEW d, d = Back(c)
  PROVE  BackCases(c, t, n, d)
<1>1. /\ Placed(c) /\ IsCon(c) /\ c.x \in Cols /\ t \in Texts /\ Spells(c, t)
      /\ EmptyBelow(c, t) /\ EmptyBehind(c, t)
  BY DEF Reads, Placed
<1>2. /\ c.x \in Int /\ c.x >= 0 /\ c.x <= Width - 1 /\ Width \in Nat /\ Width > 0
      /\ CHARSIZE \in Nat /\ CHARSIZE > 0 /\ c.y \in Int /\ n \in Int /\ n >= 0
  BY <1>1, SizesAre DEF Cols, IsCon, Rows
<1>3. CASE c.x > 0
  <2>1. PICK x : x = c.x - 1
    OBVIOUS
  <2>2. PICK e, u : e = [c EXCEPT !.x = x] /\ Puts(t, n, x, Blank, u)
    BY DEF Puts
  <2>3. d = liminefb_erase_char(e)
    BY <1>3, <2>1, <2>2 DEF Back
  <2>4. x \in Int /\ x \in Cols
    BY <1>2, <1>3, <2>1 DEF Cols
  <2>5. IsCon(e) /\ Moved(c, x, c.y, e)
    BY <1>1, <2>2, <2>4, MoveXIs
  <2>6. e.x = x /\ e.y = c.y /\ Placed(e) /\ Spells(e, t) /\ EmptyBelow(e, t)
    BY <1>1, <2>5 DEF Moved, Placed, Spells, EmptyBelow
  <2>7. EmptyAfter(t, n, x)
    <3> SUFFICES ASSUME NEW v \in Cols, v > x PROVE t[n][v] = Blank
      BY DEF EmptyAfter
    <3>1. v >= c.x
      BY <1>2, <2>1 DEF Cols
    <3> QED BY <1>1, <3>1 DEF EmptyBehind
  <2>8. d.x = e.x /\ d.y = e.y /\ Reads(d, u)
    <3>1. Over(e, t, n)
      BY <1>1, <2>4, <2>6, <2>7 DEF Over
    <3>2. x = e.x /\ d = liminefb_erase_char(e) /\ Puts(t, n, x, Blank, u)
      BY <2>2, <2>3, <2>6
    <3> QED BY <3>1, <3>2, EraseText, Zenon
  <2> QED BY <1>3, <2>1, <2>2, <2>6, <2>8 DEF BackCases
<1>4. CASE c.x = 0 /\ n > 0
  <2>1. PICK x, y, l : x = Width - 1 /\ y = c.y - CHARSIZE /\ l = n - 1
    OBVIOUS
  <2>2. PICK e, u : e = [c EXCEPT !.y = y, !.x = x] /\ Puts(t, l, x, Blank, u)
    BY DEF Puts
  <2>3. CHARSIZE * n > CHARSIZE * 0 /\ CHARSIZE * 0 = 0
    BY <1>2, <1>4, SameRow
  <2>4. d = liminefb_erase_char(e)
    BY <1>2, <1>4, <2>1, <2>2, <2>3 DEF Back
  <2>5. x \in Int /\ y \in Int /\ x \in Cols /\ l \in Int /\ l \in Rows
    <3>1. PICK h \in Nat : Rows = 0 .. (h - 1)
      BY RowsAre
    <3> QED BY <1>2, <1>4, <2>1, <3>1 DEF Cols
  <2>6. IsCon(e) /\ Moved(c, x, y, e)
    BY <1>1, <2>2, <2>5, MoveXYIs
  <2>7. y = CHARSIZE * l
    BY <1>2, <2>1, LinesApart
  <2>8. OnLine(y) /\ Fits(y)
    <3>1. 0 <= y
      BY <1>1, <1>2, <2>1, <2>3, LineSteps DEF Placed
    <3>2. y <= fb_height - CHARSIZE
      BY <1>1, <1>2, <2>1, HeightIs DEF Placed, Fits
    <3> QED BY <2>5, <2>7, <3>1, <3>2 DEF Fits, OnLine
  <2>9. e.x = x /\ e.y = y /\ Placed(e) /\ Spells(e, t)
    BY <1>1, <2>6, <2>8 DEF Moved, Placed, Spells
  <2>10. EmptyBelow(e, t)
    <3> SUFFICES ASSUME NEW r \in Rows, NEW v \in Cols, CHARSIZE * r > y PROVE t[r][v] = Blank
      BY <2>9 DEF EmptyBelow
    <3>1. r \in Int /\ r > l
      BY <2>5, <2>7, RowIs, SameRow
    <3>2. r = n \/ r > n
      BY <1>2, <2>1, <3>1
    <3>3. CASE r = n
      BY <1>1, <1>2, <1>4, <3>3 DEF EmptyBehind, Cols
    <3>4. CASE r > n
      BY <1>1, <1>2, <3>1, <3>4, SameRow DEF EmptyBelow
    <3> QED BY <3>2, <3>3, <3>4
  <2>11. EmptyAfter(t, l, x)
    BY <1>2, <2>1 DEF Cols, EmptyAfter
  <2>12. d.x = e.x /\ d.y = e.y /\ Reads(d, u)
    <3>1. Over(e, t, l)
      BY <1>1, <2>5, <2>7, <2>9, <2>10, <2>11 DEF Over
    <3>2. x = e.x /\ d = liminefb_erase_char(e) /\ Puts(t, l, x, Blank, u)
      BY <2>2, <2>4, <2>9
    <3> QED BY <3>1, <3>2, EraseText, Zenon
  <2> QED BY <1>4, <2>1, <2>2, <2>7, <2>9, <2>12 DEF BackCases
<1>5. CASE c.x = 0 /\ n = 0
  <2>1. c.y = 0
    BY <1>2, <1>5
  <2> QED BY <1>5, <2>1 DEF Back, BackCases
<1> QED BY <1>2, <1>3, <1>4, <1>5


-----------------------------------------------------------------------------
(* What is printed, on the text                                            *)

(* The steps of a terminal, on the text t of c and u of d. *)
Fed(c, t, d, u) ==
  d.x = 0 /\ d.y = NextBand(c) /\ u = NextText(c, t)

Shown(c, t, n, d, u) ==
  \E g \in Glyphs, s \in Texts :
    /\ Puts(t, n, c.x, g, s)
    /\ \/ c.x # Width - 1 /\ d.x = c.x + 1 /\ d.y = c.y /\ u = s
       \/ c.x = Width - 1 /\ Fed(c, s, d, u)

Erased(c, t, n, d, u) ==
  \/ c.x > 0 /\ d.x = c.x - 1 /\ d.y = c.y /\ Puts(t, n, c.x - 1, Blank, u)
  \/ /\ c.x = 0 /\ n > 0 /\ d.x = Width - 1 /\ d.y = CHARSIZE * (n - 1)
     /\ Puts(t, n - 1, Width - 1, Blank, u)

Prints(c, t, n, d, u) ==
  \/ Fed(c, t, d, u) \/ Shown(c, t, n, d, u) \/ Erased(c, t, n, d, u)
  \/ d.x = c.x /\ d.y = c.y /\ u = t

LEMMA putcharText ==
  ASSUME fb_height \in Heights, Aligned, NEW c, NEW t, Reads(c, t), NEW n \in Rows,
         c.y = CHARSIZE * n, NEW ch \in Printable, NEW d, d = liminefb_putchar(c, ch)
  PROVE  \E u : Reads(d, u) /\ Prints(c, t, n, d, u)
<1>1. /\ Placed(c) /\ IsCon(c) /\ Fits(c.y) /\ c.x \in Cols /\ t \in Texts /\ Spells(c, t)
      /\ EmptyBelow(c, t)
  BY DEF Reads, Placed
<1>2. c.y \in Int /\ CHARSIZE \in Nat /\ Width \in Nat /\ fb_height \in Nat
  BY <1>1, SizesAre, HeightIs DEF IsCon
<1>3. ~(c.x + 1 > Width) /\ ~Below(c.y)
  BY <1>1, <1>2 DEF Cols, Fits, Below
<1>4. d = IF ch = Backspace THEN Back(c)
          ELSE IF ch = Newline THEN liminefb_newline(c)
          ELSE liminefb_redraw_cursor([DrawGlyph(c, ch) EXCEPT !.x = @ + 1])
  BY <1>3 DEF liminefb_putchar
<1>5. CASE ch = Backspace
  <2>1. d = Back(c)
    BY <1>4, <1>5
  <2>2. BackCases(c, t, n, d)
    BY <2>1, BackText
  <2>3. CASE /\ c.x > 0 /\ d.x = c.x - 1 /\ d.y = c.y
             /\ \E u : Puts(t, n, c.x - 1, Blank, u) /\ Reads(d, u)
    BY <2>3 DEF Prints, Erased
  <2>4. CASE /\ c.x = 0 /\ n > 0 /\ d.x = Width - 1 /\ d.y = CHARSIZE * (n - 1)
             /\ \E u : Puts(t, n - 1, Width - 1, Blank, u) /\ Reads(d, u)
    BY <2>4 DEF Prints, Erased
  <2>5. CASE c.x = 0 /\ n = 0 /\ d = c
    BY <2>5 DEF Prints
  <2> QED BY <2>2, <2>3, <2>4, <2>5 DEF BackCases
<1>6. CASE ch # Backspace /\ ch = Newline
  <2>1. d = liminefb_newline(c)
    BY <1>4, <1>6
  <2>2. Newlined(c, d) /\ Placed(d)
    BY <1>1, <2>1, newlineInk
  <2>3. d.x = 0 /\ d.y = NextBand(c) /\ Reads(d, NextText(c, t))
    BY <1>1, <2>2, NewlineText
  <2> QED BY <2>3 DEF Prints, Fed
<1>7. CASE ch # Backspace /\ ch # Newline
  <2>1. ch \in Glyphs /\ d = liminefb_redraw_cursor([DrawGlyph(c, ch) EXCEPT !.x = @ + 1])
    BY <1>4, <1>7 DEF Printable
  <2>2. PICK x, s : x = c.x /\ Puts(t, n, x, ch, s)
    BY DEF Puts
  <2>3. /\ s \in Texts
        /\ \/ x # Width - 1 /\ d.x = x + 1 /\ d.y = c.y /\ Reads(d, s)
           \/ x = Width - 1 /\ d.x = 0 /\ d.y = NextBand(c) /\ Reads(d, NextText(c, s))
    BY <2>1, <2>2, GlyphText
  <2>4. CASE x # Width - 1 /\ d.x = x + 1 /\ d.y = c.y /\ Reads(d, s)
    <3>1. Shown(c, t, n, d, s)
      BY <2>1, <2>2, <2>3, <2>4 DEF Shown
    <3> QED BY <2>4, <3>1 DEF Prints
  <2>5. CASE x = Width - 1 /\ d.x = 0 /\ d.y = NextBand(c) /\ Reads(d, NextText(c, s))
    <3>1. Shown(c, t, n, d, NextText(c, s))
      BY <2>1, <2>2, <2>3, <2>5 DEF Shown, Fed
    <3> QED BY <2>5, <3>1 DEF Prints
  <2> QED BY <2>3, <2>4, <2>5
<1> QED BY <1>5, <1>6, <1>7

(* What TextAt reads off a screen s. *)
ReadOff(s, r, x) ==
  LET Shows(k) == s[r * CHARSIZE + k - BASELINE_OFFSET][x]
      body == BASELINE_OFFSET .. (CHARSIZE - 1)
  IN  IF \A k \in body : Shows(k) = {} THEN Blank
      ELSE IF \E g \in Glyphs : \A k \in body : Shows(k) = {Ink(g, k)}
      THEN CHOOSE g \in Glyphs : \A k \in body : Shows(k) = {Ink(g, k)}
      ELSE Garbled

LEMMA ReadOffIs ==
  ASSUME NEW s, NEW r \in Int, NEW x, NEW a \in Glyphs \cup {Blank}, CellIs(s, r, x, a)
  PROVE  ReadOff(s, r, x) = a
<1> DEFINE Shows(k) == s[r * CHARSIZE + k - BASELINE_OFFSET][x]
           P(g) == \A k \in Body : Shows(k) = {Ink(g, k)}
<1>1. ReadOff(s, r, x) = IF \A k \in Body : Shows(k) = {} THEN Blank
                         ELSE IF \E g \in Glyphs : P(g) THEN CHOOSE g \in Glyphs : P(g)
                         ELSE Garbled
  BY DEF ReadOff, Body
<1>2. r * CHARSIZE = CHARSIZE * r
  BY SizesAre
<1>3. \A k \in Body : Shows(k) = IF a = Blank THEN {} ELSE {Ink(a, k)}
  BY <1>2 DEF CellIs, BandOf
<1>4. BASELINE_OFFSET \in Body
  BY OffsetsAre DEF Body
<1>5. CASE a = Blank
  BY <1>1, <1>3, <1>5
<1>6. CASE a # Blank
  <2>1. a \in Glyphs /\ P(a)
    BY <1>3, <1>6
  <2>2. ~\A k \in Body : Shows(k) = {}
    BY <2>1, <1>4
  <2>3. ASSUME NEW g \in Glyphs, P(g) PROVE g = a
    <3>1. {Ink(g, BASELINE_OFFSET)} = {Ink(a, BASELINE_OFFSET)}
      BY <2>1, <2>3, <1>4
    <3>2. Ink(g, BASELINE_OFFSET) = Ink(a, BASELINE_OFFSET)
      BY <3>1
    <3>3. Ink(g, BASELINE_OFFSET)[1] = g /\ Ink(a, BASELINE_OFFSET)[1] = a
      BY DEF Ink
    <3> QED BY <3>2, <3>3
  <2> HIDE DEF P
  <2>4. (CHOOSE g \in Glyphs : P(g)) \in Glyphs /\ P(CHOOSE g \in Glyphs : P(g))
    BY <2>1, Zenon
  <2>5. (CHOOSE g \in Glyphs : P(g)) = a
    BY <2>3, <2>4
  <2>6. \E g \in Glyphs : P(g)
    BY <2>1
  <2> QED BY <1>1, <2>2, <2>5, <2>6
<1> QED BY <1>5, <1>6

(* A screen that spells a text is read so. *)
TextOf(s) == [r \in Rows |-> [x \in Cols |-> ReadOff(s, r, x)]]

LEMMA TextOfIs ==
  ASSUME fb_height \in Heights, Aligned, NEW c, NEW t, Reads(c, t)
  PROVE  TextOf(c.screen) = t
<1>1. PICK s : s = c.screen
  OBVIOUS
<1>2. \A r \in Rows, x \in Cols : ReadOff(s, r, x) = t[r][x]
  <2> SUFFICES ASSUME NEW r \in Rows, NEW x \in Cols PROVE ReadOff(s, r, x) = t[r][x]
    OBVIOUS
  <2>1. PICK a : a = t[r][x]
    OBVIOUS
  <2>2. a \in Glyphs \cup {Blank} /\ CellIs(s, r, x, a) /\ r \in Int
    BY <1>1, <2>1, RowIs DEF Reads, Texts, Spells
  <2> QED BY <2>1, <2>2, ReadOffIs
<1>3. t = [r \in Rows |-> [x \in Cols |-> t[r][x]]]
  BY DEF Reads, Texts
<1> QED BY <1>1, <1>2, <1>3 DEF TextOf

LEMMA TextIs ==
  ASSUME Aligned
  PROVE  Text = TextOf(con.screen)
<1>1. \A r, x : TextAt(r, x) = ReadOff(con.screen, r, x)
  BY DEF TextAt, ReadOff
<1> HIDE DEF TextAt
<1> QED BY <1>1 DEF Text, TextOf, Rows, Cols

LEMMA TextIsNext ==
  ASSUME Aligned, UNCHANGED fb_height
  PROVE  Text' = TextOf(con'.screen)
<1>1. \A r, x : TextAt(r, x)' = ReadOff(con'.screen, r, x)
  BY DEF TextAt, ReadOff
<1>2. Aligned'
  BY DEF Aligned
<1> HIDE DEF TextAt
<1> QED BY <1>1, <1>2 DEF Text, TextOf, Rows, Cols

LEMMA DivIs ==
  ASSUME NEW n \in Int
  PROVE  (CHARSIZE * n) \div CHARSIZE = n
<1>1. CHARSIZE \in Int /\ CHARSIZE > 0 /\ CHARSIZE * n \in Int
  BY SizesAre, LinesApart
<1>2. PICK x \in Int : x = CHARSIZE * n
  BY <1>1
<1>3. PICK q \in Int : q = x \div CHARSIZE
  BY <1>1
<1>4. x = CHARSIZE * q + (x % CHARSIZE)
  BY <1>1, <1>3, DivMod
<1>5. 0 <= x % CHARSIZE /\ x % CHARSIZE < CHARSIZE /\ x % CHARSIZE \in Int
  BY <1>1
<1>6. ~(n > q) /\ ~(q > n)
  BY <1>1, <1>2, <1>4, <1>5, LinesApart
<1> QED BY <1>2, <1>3, <1>6


-----------------------------------------------------------------------------
(* The refinement                                                          *)

(* The abstract row and column. *)
RowNow == IF Aligned THEN con.y \div CHARSIZE ELSE 0
ColNow == IF Aligned THEN con.x ELSE 0

(* The last line and column of a text. *)
LEMMA LastAre ==
  ASSUME fb_height \in Heights, Aligned, Text \in Texts
  PROVE  /\ Abstract!Lines = Rows /\ Abstract!Columns = Cols /\ Abstract!LastColumn = Width - 1
         /\ Abstract!LastLine \in Rows
         /\ \A r \in Rows : r = Abstract!LastLine <=> CHARSIZE * r = fb_height - CHARSIZE
<1>1. PICK h \in Nat : h > 0 /\ Rows = 0 .. (h - 1)
  BY RowsAre
<1>2. Abstract!Lines = Rows
  BY DEF Abstract!Lines, Texts
<1>3. Abstract!Columns = Cols
  BY <1>1 DEF Abstract!Columns, Texts
<1>4. Abstract!LastColumn = Width - 1
  <2>1. PICK l : l = CHOOSE x \in Cols : x + 1 \notin Cols
    OBVIOUS
  <2>2. \E x \in Cols : x + 1 \notin Cols
    BY SizesAre DEF Cols
  <2>3. l \in Cols /\ l + 1 \notin Cols
    BY <2>1, <2>2, Zenon
  <2>4. l = Width - 1
    BY <2>3, SizesAre DEF Cols
  <2> QED BY <1>3, <2>1, <2>4 DEF Abstract!LastColumn
<1>5. Abstract!LastLine \in Rows /\ Abstract!LastLine + 1 \notin Rows
  <2>1. PICK l : l = CHOOSE r \in Rows : r + 1 \notin Rows
    OBVIOUS
  <2>2. \E r \in Rows : r + 1 \notin Rows
    BY <1>1
  <2>3. l \in Rows /\ l + 1 \notin Rows
    BY <2>1, <2>2, Zenon
  <2> QED BY <1>2, <2>1, <2>3 DEF Abstract!LastLine
<1>6. \A r \in Rows : r = Abstract!LastLine <=> r + 1 \notin Rows
  BY <1>1, <1>5
<1>7. \A r \in Rows : r + 1 \in Rows <=> CHARSIZE * r # fb_height - CHARSIZE
  BY RowIs
<1> QED BY <1>2, <1>3, <1>4, <1>5, <1>6, <1>7

(* What a step does to the text is a step of the terminal. *)
LEMMA PrintsStep ==
  ASSUME fb_height \in Heights, Aligned, UNCHANGED fb_height,
         NEW c, c = con, NEW d, d = con', NEW t, NEW u, Reads(c, t), Reads(d, u),
         NEW n \in Rows, c.y = CHARSIZE * n, Prints(c, t, n, d, u)
  PROVE  Abstract!TermNext \/ UNCHANGED Abstract!termVars
<1>1. Text = t /\ Text' = u
  BY TextOfIs, TextIs, TextIsNext
<1>2. t \in Texts /\ u \in Texts /\ c.x \in Cols /\ d.x \in Cols /\ Aligned'
  BY DEF Reads, Aligned
<1>3. /\ Abstract!Lines = Rows /\ Abstract!Columns = Cols /\ Abstract!LastColumn = Width - 1
      /\ Abstract!LastLine \in Rows
      /\ n = Abstract!LastLine <=> c.y = fb_height - CHARSIZE
      /\ \A r \in Rows : r = Abstract!LastLine <=> r + 1 \notin Rows
  BY <1>1, <1>2, LastAre, RowIs
<1>4. n \in Int /\ RowNow = n /\ ColNow = c.x /\ ColNow' = d.x
  BY <1>2, RowIs, DivIs DEF RowNow, ColNow
<1>5. \A m \in Int : d.y = CHARSIZE * m => RowNow' = m
  BY <1>2, DivIs DEF RowNow
<1>6. \A s \in Texts : Abstract!ScrolledUp(s) = Lifted(s)
  BY <1>3 DEF Abstract!ScrolledUp, Lifted
<1>7. ASSUME NEW s \in Texts, Fed(c, s, d, u) PROVE Abstract!NextLine(s)
  <2>1. ColNow' = 0
    BY <1>4, <1>7 DEF Fed
  <2>2. CASE c.y = fb_height - CHARSIZE
    <3>1. RowNow' = n /\ u = Lifted(s)
      BY <1>4, <1>5, <1>7, <2>2 DEF Fed, NextBand, NextText
    <3>2. RowNow = Abstract!LastLine /\ RowNow' = RowNow /\ Text' = Abstract!ScrolledUp(s)
      BY <1>1, <1>3, <1>4, <1>6, <2>2, <3>1
    <3> QED BY <2>1, <3>2 DEF Abstract!NextLine, RowNow, ColNow
  <2>3. CASE c.y # fb_height - CHARSIZE
    <3>1. d.y = CHARSIZE * (n + 1) /\ u = s
      BY <1>4, <1>7, <2>3, LinesApart DEF Fed, NextBand, NextText
    <3>2. RowNow # Abstract!LastLine /\ RowNow' = RowNow + 1 /\ Text' = s
      BY <1>1, <1>3, <1>4, <1>5, <2>3, <3>1
    <3> QED BY <2>1, <3>2 DEF Abstract!NextLine, RowNow, ColNow
  <2> QED BY <2>2, <2>3
<1>8. CASE Fed(c, t, d, u)
  BY <1>1, <1>2, <1>7, <1>8 DEF Abstract!TermNext
<1>9. CASE Shown(c, t, n, d, u)
  <2>1. PICK g \in Glyphs, s \in Texts :
          /\ Puts(t, n, c.x, g, s)
          /\ \/ c.x # Width - 1 /\ d.x = c.x + 1 /\ d.y = c.y /\ u = s
             \/ c.x = Width - 1 /\ Fed(c, s, d, u)
    BY <1>9 DEF Shown
  <2>2. s = [Text EXCEPT ![RowNow][ColNow] = g]
    BY <1>1, <1>4, <2>1 DEF Puts
  <2>3. CASE c.x # Width - 1 /\ d.x = c.x + 1 /\ d.y = c.y /\ u = s
    <3>1. /\ ColNow # Abstract!LastColumn /\ Text' = s /\ ColNow' = ColNow + 1
          /\ RowNow' = RowNow
      BY <1>1, <1>3, <1>4, <1>5, <2>3
    <3>2. Abstract!Show(g)
      BY <2>2, <3>1 DEF Abstract!Show, RowNow, ColNow
    <3> QED BY <3>2 DEF Abstract!TermNext
  <2>4. CASE c.x = Width - 1 /\ Fed(c, s, d, u)
    <3>1. ColNow = Abstract!LastColumn /\ Abstract!NextLine(s)
      BY <1>3, <1>4, <1>7, <2>4
    <3>2. Abstract!Show(g)
      BY <2>2, <3>1 DEF Abstract!Show, RowNow, ColNow
    <3> QED BY <3>2 DEF Abstract!TermNext
  <2> QED BY <2>1, <2>3, <2>4
<1>10. CASE Erased(c, t, n, d, u)
  <2>1. CASE c.x > 0 /\ d.x = c.x - 1 /\ d.y = c.y /\ Puts(t, n, c.x - 1, Blank, u)
    <3>1. /\ ColNow > 0 /\ ColNow' = ColNow - 1 /\ RowNow' = RowNow
          /\ Text' = [Text EXCEPT ![RowNow][ColNow - 1] = Blank]
      BY <1>1, <1>4, <1>5, <2>1 DEF Puts
    <3>2. Abstract!Back
      BY <3>1 DEF Abstract!Back, RowNow, ColNow
    <3> QED BY <3>2 DEF Abstract!TermNext
  <2>2. CASE /\ c.x = 0 /\ n > 0 /\ d.x = Width - 1 /\ d.y = CHARSIZE * (n - 1)
             /\ Puts(t, n - 1, Width - 1, Blank, u)
    <3>1. /\ ColNow = 0 /\ RowNow > 0 /\ ColNow' = Abstract!LastColumn /\ RowNow' = RowNow - 1
          /\ Text' = [Text EXCEPT ![RowNow - 1][Abstract!LastColumn] = Blank]
      BY <1>1, <1>3, <1>4, <1>5, <2>2 DEF Puts
    <3>2. Abstract!Back
      BY <3>1 DEF Abstract!Back, RowNow, ColNow
    <3> QED BY <3>2 DEF Abstract!TermNext
  <2> QED BY <1>10, <2>1, <2>2 DEF Erased
<1>11. CASE d.x = c.x /\ d.y = c.y /\ u = t
  <2>1. Text' = Text /\ RowNow' = RowNow /\ ColNow' = ColNow
    BY <1>1, <1>4, <1>5, <1>11
  <2> QED BY <2>1 DEF Abstract!termVars, RowNow, ColNow
<1> QED BY <1>8, <1>9, <1>10, <1>11 DEF Prints


(* What is still to be printed can be, and the screen spells a text. *)
TodoInv == todo \in [Writers -> Seq(Printable)]

TextInv == Aligned => \E t : Reads(con, t)

LEMMA TodoHolds == Spec => []TodoInv
<1>1. Init => TodoInv
  BY DEF Init, TodoInv
<1>2. TodoInv /\ [Next]_vars => TodoInv'
  <2> SUFFICES ASSUME TodoInv, [Next]_vars PROVE TodoInv'
    OBVIOUS
  <2>1. CASE UNCHANGED vars
    BY <2>1 DEF TodoInv, vars
  <2>2. ASSUME NEW w \in Writers, NEW str \in Strings, liminefb_write(w, str) PROVE TodoInv'
    BY <2>2, PrintAssumption DEF TodoInv, liminefb_write
  <2>3. ASSUME NEW w \in Writers, NEW fmt \in Formats, printk(w, fmt) PROVE TodoInv'
    BY <2>3, PrintAssumption DEF TodoInv, printk
  <2>4. ASSUME NEW w \in Writers, liminefb_putstr(w) PROVE TodoInv'
    <3>1. todo[w] \in Seq(Printable) /\ todo[w] # <<>>
      BY <2>4 DEF TodoInv, liminefb_putstr
    <3>2. Tail(todo[w]) \in Seq(Printable)
      BY <3>1
    <3> QED BY <2>4, <3>2 DEF TodoInv, liminefb_putstr
  <2> QED BY <2>1, <2>2, <2>3, <2>4 DEF Next
<1> QED BY <1>1, <1>2, PTL DEF Spec

LEMMA InitText ==
  ASSUME Init
  PROVE  Aligned => \E t : Reads(con, t) /\ \A r \in Rows, x \in Cols : t[r][x] = Blank
<1> SUFFICES ASSUME Aligned PROVE \E t : Reads(con, t) /\ \A r \in Rows, x \in Cols : t[r][x] = Blank
  OBVIOUS
<1>1. Inv /\ fb_height \in Heights
  BY InvInit DEF Inv
<1>2. PICK t : t = [r \in Rows |-> [x \in Cols |-> Blank]]
  OBVIOUS
<1>3. t \in Texts /\ \A r \in Rows, x \in Cols : t[r][x] = Blank
  BY <1>2 DEF Texts
<1>4. Placed(con) /\ con.x \in Cols
  BY <1>1 DEF Inv, Settled, Sound, Placed, Init
<1>5. \A b \in Bands, x \in Cols : con.screen[b][x] = {}
  BY DEF Init, Cols
<1>6. Spells(con, t)
  BY <1>1, <1>3, <1>5, RowBands DEF Spells, CellIs
<1>7. EmptyBelow(con, t) /\ EmptyBehind(con, t)
  BY <1>3 DEF EmptyBelow, EmptyBehind
<1> QED BY <1>3, <1>4, <1>6, <1>7 DEF Reads

LEMMA ReadsNext ==
  ASSUME NEW d, con' = d, NEW u, Reads(d, u), UNCHANGED fb_height
  PROVE  Reads(con, u)'
<1>1. Rows' = Rows /\ Bands' = Bands
  BY DEF Rows, Bands
<1>2. Texts' = Texts
  BY <1>1 DEF Texts
<1>3. Placed(con)'
  <2>1. IsCon(con)'
    BY <1>1 DEF Reads, Placed, IsCon, IsScreen
  <2>2. Fits(con.y)'
    BY DEF Reads, Placed, Fits
  <2> QED BY <2>1, <2>2 DEF Reads, Placed
<1>4. Spells(con, u)'
  BY <1>1 DEF Reads, Spells
<1>5. EmptyBelow(con, u)' /\ EmptyBehind(con, u)'
  BY <1>1 DEF Reads, EmptyBelow, EmptyBehind
<1> QED BY <1>2, <1>3, <1>4, <1>5 DEF Reads

(* A character on the screen is a step of the terminal. *)
LEMMA PutstrStep ==
  ASSUME Inv, TodoInv, TextInv, Aligned, NEW w \in Writers, liminefb_putstr(w)
  PROVE  TextInv' /\ (Abstract!TermNext \/ UNCHANGED Abstract!termVars)
<1>1. PICK c, ch, d : c = con /\ ch = Head(todo[w]) /\ d = con'
  OBVIOUS
<1>2. d = liminefb_putchar(c, ch) /\ UNCHANGED fb_height /\ fb_height \in Heights
  BY <1>1 DEF liminefb_putstr, Inv
<1>3. ch \in Printable
  <2>1. todo[w] \in Seq(Printable) /\ todo[w] # <<>>
    BY DEF TodoInv, liminefb_putstr
  <2> QED BY <1>1, <2>1
<1>4. PICK t : Reads(c, t)
  BY <1>1 DEF TextInv
<1>5. c.y \in Int /\ Fits(c.y) /\ OnLine(c.y)
  BY <1>4 DEF Reads, Placed, IsCon
<1>6. PICK n \in Rows : c.y = CHARSIZE * n
  BY <1>2, <1>5, RowOf
<1>7. PICK u : Reads(d, u) /\ Prints(c, t, n, d, u)
  BY <1>2, <1>3, <1>4, <1>6, putcharText
<1>8. Abstract!TermNext \/ UNCHANGED Abstract!termVars
  BY <1>1, <1>2, <1>4, <1>6, <1>7, PrintsStep
<1>9. Reads(con, u)'
  BY <1>1, <1>2, <1>7, ReadsNext
<1> QED BY <1>8, <1>9 DEF TextInv

LEMMA TextNext ==
  ASSUME Inv, TodoInv, TextInv, [Next]_vars
  PROVE  TextInv' /\ (Abstract!TermNext \/ UNCHANGED Abstract!termVars)
<1>1. ASSUME UNCHANGED <<fb_height, con>>
      PROVE  TextInv' /\ UNCHANGED Abstract!termVars
  <2>1. TextInv'
    <3>1. PICK c : c = con /\ con' = c
      BY <1>1
    <3>2. ASSUME NEW t, Reads(con, t) PROVE Reads(con, t)'
      BY <1>1, <3>1, <3>2, ReadsNext
    <3> QED BY <1>1, <3>2 DEF TextInv, Aligned
  <2>2. \A r, x : TextAt(r, x)' = TextAt(r, x)
    BY <1>1 DEF TextAt
  <2>3. Aligned' = Aligned
    BY <1>1 DEF Aligned
  <2>4. Text' = Text
    BY <1>1, <2>2, <2>3 DEF Text
  <2> QED BY <1>1, <2>1, <2>3, <2>4 DEF Abstract!termVars
<1>2. ASSUME ~Aligned, NEW w \in Writers, liminefb_putstr(w)
      PROVE  TextInv' /\ UNCHANGED Abstract!termVars
  <2>1. ~Aligned'
    BY <1>2 DEF Aligned, liminefb_putstr
  <2>2. Text' = Text
    BY <1>2, <2>1 DEF Text
  <2> QED BY <1>2, <2>1, <2>2 DEF TextInv, Abstract!termVars
<1>3. CASE UNCHANGED vars
  BY <1>1, <1>3 DEF vars
<1>4. CASE Next
  <2>1. PICK w \in Writers : \/ \E str \in Strings : liminefb_write(w, str)
                             \/ \E fmt \in Formats : printk(w, fmt)
                             \/ liminefb_putstr(w)
    BY <1>4 DEF Next
  <2>2. CASE \E str \in Strings : liminefb_write(w, str)
    BY <1>1, <2>2 DEF liminefb_write
  <2>3. CASE \E fmt \in Formats : printk(w, fmt)
    BY <1>1, <2>3 DEF printk
  <2>4. CASE liminefb_putstr(w)
    BY <1>2, <2>4, PutstrStep
  <2> QED BY <2>1, <2>2, <2>3, <2>4
<1> QED BY <1>3, <1>4

(* On every screen of whole lines, of any size, the pixels that liminefb.c *)
(* draws, wipes and moves always spell what a terminal would show of the   *)
(* characters that the writers print, however they interleave.             *)
THEOREM TerminalImplemented == Spec => ImplementsTerminal
<1>1. Init => Abstract!TermInit
  <2> SUFFICES ASSUME Init PROVE Abstract!TermInit
    OBVIOUS
  <2>1. CASE Aligned
    <3>1. fb_height \in Heights /\ con.x = 0 /\ con.y = 0
      BY DEF Init
    <3>2. PICK t : Reads(con, t) /\ \A r \in Rows, x \in Cols : t[r][x] = Blank
      BY <2>1, InitText
    <3>3. Text = t /\ t \in Texts
      BY <2>1, <3>1, <3>2, TextIs, TextOfIs DEF Reads
    <3>4. Abstract!Lines = Rows /\ Abstract!Columns = Cols
      BY <2>1, <3>1, <3>3, LastAre
    <3>5. 0 \div CHARSIZE = 0
      BY SizesAre
    <3> QED BY <2>1, <3>1, <3>2, <3>3, <3>4, <3>5 DEF Abstract!TermInit
  <2>2. CASE ~Aligned
    BY <2>2 DEF Abstract!TermInit, Abstract!Lines, Abstract!Columns, Text
  <2> QED BY <2>1, <2>2
<1>2. Init => TextInv
  BY InitText DEF TextInv
<1>3. Inv /\ TodoInv /\ TextInv /\ [Next]_vars => TextInv' /\ [Abstract!TermNext]_(Abstract!termVars)
  BY TextNext
<1> QED BY <1>1, <1>2, <1>3, InvHolds, TodoHolds, PTL
        DEF Spec, ImplementsTerminal, Abstract!TermSpec

=============================================================================
