--------------------------- MODULE MCProgramStore ---------------------------
\* ProgramStore for TLC, with one gun.  What is stored needs few configurations;
\* the way through a file is checked for many more.
EXTENDS ProgramStore

Element(s, e, gap) == [start |-> s, end |-> e, spacing |-> gap]
Draft(type, elems, speed) ==
    [pulses |-> 1, speed |-> speed, offset |-> 0, pick |-> 2, hold |-> 1, source |-> 0,
     paper |-> 1, guns |-> <<[type |-> type, on |-> 1, elems |-> elems]>>]

MCDefault == Draft("none", <<>>, 1)
MCDrafts ==
    {MCDefault, Draft("lines", <<Element(0, 1, 2)>>, 1), Draft("dots", <<>>, 1),
     Draft("dots", <<Element(1, 0, 1)>>, 1), [MCDefault EXCEPT !.hold = 2]}

\* Every way to be accepted or refused, one setting or the pattern at a time.
Around ==
    {[MCDefault EXCEPT ![f] = v] : f \in {"pulses", "speed", "offset", "source", "paper"}, v \in -1 .. 2}
    \cup {[MCDefault EXCEPT !.pick = p, !.hold = h] : p \in -1 .. 4, h \in -1 .. 3}
    \cup {[MCDefault EXCEPT !.guns = <<[type |-> t, on |-> on, elems |-> es]>>] :
             t \in {"none", "lines", "dots"}, on \in 0 .. 1,
             es \in UNION {[1 .. n -> {Element(s, 1, gap) : s \in 0 .. 2, gap \in 0 .. 1}] : n \in 0 .. 2}}

ASSUME FileKeepsEdits ==
    \A c \in {Edited(d) : d \in {a \in Around : Accepted(a)}} :
        RoundTrip(c) /\ (Parses(Written(c)) <=> ~Lost(c))
=============================================================================
