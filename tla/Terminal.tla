------------------------------ MODULE Terminal ------------------------------
(***************************************************************************)
(* What the console promises whoever prints on it: a grid of characters    *)
(* with a position on it.  A character fills its cell and the position     *)
(* moves on, to the next line behind the last column; behind the last line *)
(* all lines move up by one.  Console implements this specification.       *)
(***************************************************************************)
EXTENDS Integers, Functions

CONSTANTS Glyphs,   \* the characters that show
          Blank     \* the content of an empty cell

VARIABLES text,      \* the grid: text[row][column], both from 0
          row, col

termVars == <<text, row, col>>

(* The lines, and the columns of a line. *)
Lines == DOMAIN text
Columns == DOMAIN text[0]

LastLine == CHOOSE r \in Lines : r + 1 \notin Lines
LastColumn == CHOOSE c \in Columns : c + 1 \notin Columns

TermInit == /\ \A r \in Lines : \A c \in Columns : text[r][c] = Blank
            /\ row = 0 /\ col = 0

(* The grid t moved up by a line. *)
ScrolledUp(t) == [r \in Lines |-> IF r = LastLine THEN [c \in Columns |-> Blank]
                                  ELSE t[r + 1]]

(* The position goes to the start of the next line of grid t. *)
NextLine(t) == /\ col' = 0
               /\ IF row = LastLine THEN row' = row /\ text' = ScrolledUp(t)
                  ELSE row' = row + 1 /\ text' = t

Show(g) == LET t == [text EXCEPT ![row][col] = g]
           IN  IF col = LastColumn THEN NextLine(t)
               ELSE text' = t /\ col' = col + 1 /\ row' = row

(* Back over one cell, which is emptied, and up over the start of a line.  *)
Back == \/ /\ col > 0
           /\ text' = [text EXCEPT ![row][col - 1] = Blank]
           /\ col' = col - 1 /\ row' = row
        \/ /\ col = 0 /\ row > 0
           /\ text' = [text EXCEPT ![row - 1][LastColumn] = Blank]
           /\ col' = LastColumn /\ row' = row - 1

TermNext == NextLine(text) \/ Back \/ \E g \in Glyphs : Show(g)

TermSpec == TermInit /\ [][TermNext]_termVars
=============================================================================
