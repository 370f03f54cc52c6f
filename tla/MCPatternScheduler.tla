------------------------- MODULE MCPatternScheduler -------------------------
\* Model values for PatternScheduler: a line, and a row of dots behind another
\* photocell offset.
EXTENDS PatternRefinement

MCLine == [type |-> "lines", elems |-> <<[start |-> 0, end |-> 1, spacing |-> 0]>>]
MCDots == [type |-> "dots",  elems |-> <<[start |-> 0, end |-> 1, spacing |-> 1]>>]

MCShape    == <<<<MCLine, MCDots>>, <<MCDots, MCDots>>>>
MCOffsetOf == <<1, 0>>
=============================================================================
