------------------------------ MODULE MCKbdBuf ------------------------------
(* Strings for model checking KbdBuf: commands and lines of a program.      *)
EXTENDS KbdBuf

CONSTANTS L, O, R

Lines == {<<L, RETURN>>, <<O, L, O>>, <<R>>}
Commands == {<<R, RETURN>>, <<R, RETURN, L>>}
WithAndWithout == {{}, Commands}
=============================================================================
