------------------------------- MODULE MCBoot -------------------------------
(* Tables of none to three symbols, two of them at one address, and traces *)
(* of up to two frames below, on, between and above the symbols.           *)
EXTENDS Boot

MCSymbols == {<<>>, <<2>>, <<1, 3>>, <<1, 1, 4>>}
MCTraces == {<<>>} \cup {<<a>> : a \in 0 .. 5} \cup ((2 .. 3) \X {0, 1, 4})
=============================================================================
