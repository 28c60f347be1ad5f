------------------------------- MODULE MCKbd --------------------------------
(* One or two letters, the modifiers, and a reader.                        *)
EXTENDS Kbd

CONSTANTS A, B, R1
=============================================================================
