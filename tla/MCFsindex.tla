------------------------------ MODULE MCFsindex ------------------------------
EXTENDS Fsindex

CONSTANTS a, b, c, h1, h2, auto

MCNames == {a, b, c, h1, h2, auto}
MCHosts == {h1, h2}
MCCustom == {a}
MCDirectories == {<<a>>, <<c>>}
MCCommanded == {<<b>>}
MCWritten == {<<a, b>>}
MCLists == {<<1>>}

\* The index of a machine's own fileset, and one without filesets whose root
\* becomes a hash, with a file where others have a directory and the reverse
Of(order) == [kind |-> "dir", order |-> order]
MCData ==
  {[metadata |-> "automatic",
    tree |-> [q \in {<<>>, <<h>>} |-> Of(IF q = <<>> THEN <<h>> ELSE <<>>)]] : h \in MCHosts}
  \cup
  {[metadata |-> NULL,
    tree |-> [q \in {<<>>, <<a>>, <<b>>, <<c>>} |->
                IF q = <<a>> THEN [kind |-> "file", blocks |-> <<1>>]
                ELSE Of(IF q = <<>> THEN <<c, b, a>> ELSE <<>>)]]}

\* The machines are the same to every definition.
Symmetry == Permutations(MCHosts)
=============================================================================
