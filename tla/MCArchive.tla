----------------------------- MODULE MCArchive -----------------------------
EXTENDS Archive
CONSTANTS c0, c1, c2, i1, w1
MCBefore == {<<Other>>}
MCCells == [c \in Contents |-> IF c = c0 THEN 0 ELSE 2]
MCSqueezed == [c \in Contents |-> IF c = c0 THEN 0 ELSE IF c = c1 THEN 1 ELSE 3]
MCHash == [c \in Contents |-> IF c = c0 THEN "h0" ELSE "h1"]
MCIndexCells == [x \in Indexes |-> 3]
=============================================================================
