------------------------------- MODULE MCWriter -------------------------------
\* Files, extensions and contents for TLC
EXTENDS Writer

CONSTANTS x1, x2

MCByte == {x1, x2}

\* By name the second file is between the others, by extension behind them.
MCExt == [f \in Files |-> IF f = 2 THEN 2 ELSE 1]
MCGiven ==
  [f \in Files |-> CASE f = 1 -> {<<>>, <<x1>>, <<x1, x2, x1>>}
                      [] f = 2 -> {<<x1>>, <<x2>>}
                      [] f = 3 -> {<<x2>>, <<x1, x2>>}]
=============================================================================
