----------------------------- MODULE MCConsole ------------------------------
(* Lines of two bands, the second the cursor's; three columns.  A screen   *)
(* of three lines, and one with a band to spare.                           *)
EXTENDS Console

(* A wrap with something behind it, the end of a line that may be full,    *)
(* and backspaces over what is there, over a line's start and at the top.  *)
MCStrings == {<<"1", "0", "1", "0">>, <<Newline>>,
              <<Backspace, Backspace, "0">>, <<Backspace, Backspace, Backspace, Backspace>>}

(* With a buffer of four: a number that fits, zeros, a string that is cut, *)
(* one that fills the buffer, and a number that begins in its last byte.   *)
MCFormats == {<<Lit("1"), Dir("u", 10)>>, <<Dir("d", 0), Dir("u", 0), Dir("x", 1)>>,
              <<Lit("0"), Dir("s", <<"1", "0", "1", "0">>), Dir("other", "1")>>,
              <<Dir("d", 10), Dir("d", 101)>>, <<Lit("1"), Lit("1"), Dir("llx", 17)>>,
              <<Dir("x", 16), Lit("0"), Lit("0"), Dir("d", 1)>>}
=============================================================================
