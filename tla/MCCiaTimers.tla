---------------------------- MODULE MCCiaTimers ----------------------------
EXTENDS CiaTimers

W(r, b) == [reg |-> r, byte |-> b]

\* A program that uses timer A alone, one that chains B to it, and one that
\* uses both; the monitor looks at their registers.
Alone ==
    [reads |-> {"TA", "CRA", "ICR"}, looks |-> {"TA", "ICR"},
     writes |-> {W("TAL", 0), W("TAH", 0), W("CRA", {"start"}), W("CRA", {}),
                 W("CRA", {"start", "oneshot"}), W("ICR", {"set", "TA"})},
     length |-> 3]
Chained ==
    [reads |-> {"TB", "ICR"}, looks |-> {"ICR"},
     writes |-> {W("CRA", {"start"}), W("CRB", {"start", "ta"}),
                 W("ICR", {"set", "TB"})},
     length |-> 3]
Both ==
    [reads |-> {"ICR", "PRB"}, looks |-> {"PRB"},
     writes |-> {W("CRA", {"start"}), W("CRB", {"start", "toggle", "pbon"}),
                 W("ICR", {"set", "TB"}), W("ICR", {"set", "TA", "TB"})},
     length |-> 3]

ThreePrograms == {Alone, Chained, Both}
AllWrites == UNION {p.writes : p \in ThreePrograms}

\* No step depends on what was done last.
ButWhatWasDone == <<cia, chip, program, stores>>
=============================================================================
