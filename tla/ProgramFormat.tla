--------------------------- MODULE ProgramFormat ---------------------------
(***************************************************************************)
(* What an edit may put into the configuration (comms/CommandDispatcher.cpp)*)
(* and what survives the way through a program file                        *)
(* (storage/ProgramStore.cpp): the two lists of checks were written apart. *)
(* A configuration is a record of numbers and the pattern of each gun;     *)
(* debounce_ms and photocell_invert, which nothing checks, are left out,   *)
(* and JSON types with them: a file is written by writeProgramFile().      *)
(***************************************************************************)
EXTENDS Integers, Sequences, SequencesExt, FiniteSetsExt

CONSTANTS
    MaxElements,    \* MAX_PATTERN_ELEMENTS_PER_GUN
    MaxPick,        \* MAX_PICK_CURRENT_A
    MaxHold,        \* MAX_HOLD_CURRENT_A
    DefaultPaper    \* calib_paper_mm of a new controller

ASSUME FormatAssumption ==
    /\ MaxElements \in Nat \ {0} /\ DefaultPaper \in Nat \ {0}
    /\ MaxHold \in Nat \ {0} /\ MaxPick \in Nat /\ MaxPick > MaxHold

\* The fields of Config, and what the JSON of an edit or a file gives for them.
ElementType == [start : Int, end : Int, spacing : Int]
PatternType == [type : STRING, on : Int, elems : Seq(ElementType)]
ConfigType ==
    [pulses : Int, speed : Int, offset : Int, pick : Int, hold : Int, source : Int,
     paper : Int, guns : Seq(PatternType)]

\* handleSetConfig()
SettingsAccepted(c) ==
    /\ c.pulses > 0 /\ c.paper > 0 /\ c.source <= 1
    /\ 0 < c.pick /\ c.pick <= MaxPick
    /\ 0 < c.hold /\ c.hold <= MaxHold /\ c.hold < c.pick

\* parsePatternElements(), and the spacing it takes.
ElementAccepted(type, e) == e.start <= e.end /\ (type = "dots" => e.spacing > 0)
ElementSet(type, e) == IF type = "dots" THEN e ELSE [e EXCEPT !.spacing = 0]
ElementsAccepted(p) ==
    Len(p.elems) <= MaxElements /\ \A e \in ToSet(p.elems) : ElementAccepted(p.type, e)

\* handleSetPatternImpl()
PatternAccepted(p) ==
    /\ p.type \in {"none", "lines", "dots"} /\ p.on > 0
    /\ p.type # "none" => ElementsAccepted(p)

PatternSet(p) ==
    [p EXCEPT !.elems = IF p.type = "none" THEN <<>>
                        ELSE [i \in DOMAIN @ |-> ElementSet(p.type, @[i])]]

\* What the configuration is after edits that send the parts of draft d.
Accepted(d) == SettingsAccepted(d) /\ \A p \in ToSet(d.guns) : PatternAccepted(p)
Edited(d)   == [d EXCEPT !.guns = [g \in DOMAIN @ |-> PatternSet(@[g])]]

\* writeProgramFile(): every field, the elements that count, "spacing" for dots only.
\* Numbers are taken to survive the JSON text, which rounds the last digits of a float.
Missing == -1
PatternWritten(p) ==
    [p EXCEPT !.elems = [i \in DOMAIN @ |-> IF p.type = "dots" THEN @[i]
                                            ELSE [@[i] EXCEPT !.spacing = Missing]]]
Written(c) == [c EXCEPT !.guns = [g \in DOMAIN @ |-> PatternWritten(@[g])]]

\* validateAndParse(): what it refuses ...
HoldOf(f) == Min({f.hold, MaxHold})
PickOf(f) == Min({f.pick, MaxPick})
PatternParses(p) ==
    /\ p.type \in {"none", "lines", "dots"} /\ p.on > 0
    /\ p.type # "none" => p.elems # <<>> /\ ElementsAccepted(p)

Parses(f) ==
    /\ f.pulses > 0 /\ f.speed >= 0 /\ f.offset >= 0 /\ f.source <= 1
    /\ f.pick > 0 /\ 0 < HoldOf(f) /\ HoldOf(f) < PickOf(f)
    /\ \A p \in ToSet(f.guns) : PatternParses(p)

\* ... and what it makes of the rest.
Parsed(f) ==
    [f EXCEPT !.pick = PickOf(f), !.hold = HoldOf(f),
              !.paper = IF @ > 0 THEN @ ELSE DefaultPaper,
              !.guns = [g \in DOMAIN @ |-> PatternSet(@[g])]]

----------------------------------------------------------------------------
\* Loading a program brings back exactly the configuration that was saved.
RoundTrip(c) == Parses(Written(c)) => Parsed(Written(c)) = c

\* What a file cannot bring back: a speed or offset below zero, which set_config
\* takes, and a pattern without elements, which set_pattern takes.
Lost(c) ==
    \/ c.speed < 0 \/ c.offset < 0
    \/ \E p \in ToSet(c.guns) : p.type # "none" /\ p.elems = <<>>
=============================================================================
