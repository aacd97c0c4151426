----------------------------- MODULE MCPacking -----------------------------
(* Three rounds of six threads.  One packet: texts of blanks and '^' where *)
(* seven bytes vary.  Two packets: runs of a byte within another, and a    *)
(* text where no two bytes repeat within the window.                       *)
EXTENDS Packing

a == 97
sp == 32
caret == 94
Cycle == <<a, a + 1, a + 2, a + 3, a + 4, sp, caret>>
MCSymbol == Range(Cycle)
Mixed == {s \in [1 .. PCKTSIZE -> {sp, caret}] :
             \A p \in (1 .. PCKTSIZE) \ {5, 8, 10, 12, 13, 15, 17} :
                s[p] = IF p % 7 = 0 THEN sp ELSE caret}
Run(x, y, first, last) == [p \in 1 .. PCKTSIZE |-> IF p \in first .. last THEN x ELSE y]
Runs == {Run(x, sp, f, l) : x \in {a, sp, caret}, f \in {3, 7}, l \in {10, 18}}
NoRuns == [p \in 1 .. PCKTSIZE |-> Cycle[(p % 7) + 1]]
MCInputs == Mixed \cup {s \o Run(sp, caret, 1, 13) : s \in Runs}
                  \cup {s \o NoRuns : s \in {NoRuns, Run(a, caret, 2, 17)}}
=============================================================================
