------------------------------ MODULE KeyStream ------------------------------
(****************************************************************************)
(* What feeding the keyboard promises, without circular queue, counters and *)
(* frames: the emulated program reads the characters of the accepted        *)
(* strings in order, each once; only a reset of the machine loses some, the *)
(* ones its Kernal had already been given.                                  *)
(****************************************************************************)
EXTENDS Naturals, Sequences

CONSTANTS
    Strings,        \* the strings that are fed
    BufferSize      \* the size of the Kernal's buffer

VARIABLE unread     \* characters accepted and not yet read

Init == unread = << >>

Accept(s) == unread' = unread \o s
Read == unread # << >> /\ unread' = Tail(unread)
Lose(n) == unread' = SubSeq(unread, n + 1, Len(unread))

Next ==
    \/ \E s \in Strings : Accept(s)
    \/ Read
    \/ \E n \in 1 .. BufferSize : Lose(n)

Spec == Init /\ [][Next]_unread
=============================================================================
