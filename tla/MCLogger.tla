------------------------------ MODULE MCLogger ------------------------------
EXTENDS Logger

\* Messages that end below, at and above the edges of a stack buffer of eight
\* bytes behind a header of two, with and without a newline of their own.
MCNL == 0
MCText(n) == [i \in 1 .. n |-> 1]
MCFormats ==
    { [text |-> MCText(n), conversion |-> FALSE] : n \in {0, 4, 5, 6, 7, 9} }
      \cup { [text |-> Append(MCText(n), MCNL), conversion |-> FALSE] : n \in {3, 4, 5, 6} }
      \cup { [text |-> MCText(3), conversion |-> TRUE] }
MCUndefined == { MCText(n) : n \in {0, 3, 5, 6, 9} }

=============================================================================
