------------------------------ MODULE Encoder ------------------------------
(***************************************************************************)
(* The encoder count and the photocell (hw/Encoder.cpp).  A hardware       *)
(* counter starts again at PCNT_LIMIT and interrupts; the interrupt adds   *)
(* the limit to a 32-bit accumulator and clears the counter once more.     *)
(* Whoever reads the count reads both, in the order the compiler chose,    *)
(* with the interrupt or the other core in between.  The two encoders are  *)
(* counted alike; the model follows one.  The photocell interrupt ignores  *)
(* edges for a debounce time after one it took, and reads the level        *)
(* itself, not the edge.                                                   *)
(***************************************************************************)
EXTENDS Integers

CONSTANTS
    Limit,          \* PCNT_LIMIT
    Late,           \* bound: pulses before the overflow interrupt is done
    Debounce,       \* debounce_ms
    MaxPulses       \* bound: pulses of a behaviour

ASSUME EncoderAssumption == Late \in Nat /\ Limit \in Nat /\ Limit > Late /\ Debounce \in Nat /\ MaxPulses \in Nat

VARIABLES
    total,          \* ghost: pulses so far
    lost,           \* ghost: those the second clearing took away
    accum, count,   \* s_pulseAccum, the counter
    overflow,       \* where the overflow interrupt is
    reader,         \* one reader of the count
    level, invert,  \* 24 V on INPUT1; photocell_invert
    since,          \* time since s_lastEdgeUs
    irq, isr,       \* edge pending; photocellIsr() between stamp and level
    told,           \* whether the last handler called was onPhotocellEdge()
    unsure          \* ghost: the level or its meaning changed too soon after that

countVars == <<total, lost, accum, count, overflow, reader>>
eyeVars   == <<level, invert, since, irq, isr, told, unsure>>
encVars   == <<countVars, eyeVars>>

Parts == {"accum", "count"}

EncTypeOK ==
    /\ total \in 0 .. MaxPulses /\ lost \in 0 .. MaxPulses
    /\ accum \in 0 .. MaxPulses /\ count \in 0 .. Limit - 1
    /\ overflow \in {"none", "pending", "added"}
    /\ reader \in [left : SUBSET Parts, value : 0 .. MaxPulses + Limit, low : 0 .. MaxPulses,
                   high : 0 .. MaxPulses, wrap : BOOLEAN]
    /\ level \in BOOLEAN /\ invert \in BOOLEAN /\ since \in 0 .. Debounce
    /\ irq \in BOOLEAN /\ isr \in BOOLEAN /\ told \in BOOLEAN /\ unsure \in BOOLEAN

EncInit ==
    /\ total = 0 /\ lost = 0 /\ accum = 0 /\ count = 0 /\ overflow = "none"
    /\ reader = [left |-> {}, value |-> 0, low |-> 0, high |-> 0, wrap |-> FALSE]
    /\ level = FALSE /\ invert = FALSE /\ since = Debounce
    /\ irq = FALSE /\ isr = FALSE /\ told = FALSE /\ unsure = FALSE

----------------------------------------------------------------------------
Counted == total - lost

\* The counter starts again at the limit.
Pulse ==
    /\ total < MaxPulses /\ (overflow # "none" => count < Late)
    /\ total' = total + 1
    /\ count' = (count + 1) % Limit
    /\ overflow' = IF count + 1 = Limit THEN "pending" ELSE overflow
    /\ reader' = [reader EXCEPT !.wrap = @ \/ (count + 1 = Limit)]
    /\ UNCHANGED <<lost, accum, eyeVars>>

OverflowAdds_LimitMinusOne ==
    /\ overflow = "pending" /\ overflow' = "added"
    /\ accum' = accum + Limit - 1
    /\ UNCHANGED <<total, lost, count, reader, eyeVars>>

\* pcntOverflowIsr()
OverflowAdds ==
    /\ overflow = "pending" /\ overflow' = "added"
    /\ accum' = accum + Limit
    /\ UNCHANGED <<total, lost, count, reader, eyeVars>>

OverflowClears ==
    /\ overflow = "added" /\ overflow' = "none"
    /\ count' = 0 /\ lost' = lost + count
    /\ UNCHANGED <<total, accum, reader, eyeVars>>

\* pulseCount() and readUnit(): the two parts in either order.
ReadBegins ==
    /\ reader.left = {}
    /\ reader' = [left |-> Parts, value |-> 0, low |-> Counted, high |-> Counted,
                  wrap |-> overflow # "none"]
    /\ UNCHANGED <<total, lost, accum, count, overflow, eyeVars>>

ReadPart ==
    /\ \E p \in reader.left :
          reader' = [reader EXCEPT !.left = @ \ {p}, !.high = Counted,
                        !.value = @ + (IF p = "accum" THEN accum ELSE count)]
    /\ UNCHANGED <<total, lost, accum, count, overflow, eyeVars>>

\* --- the photocell ----------------------------------------------------------
Sheet == level # invert
TooSoon == since < Debounce

LevelChanges ==
    /\ level' = ~level /\ irq' = TRUE
    /\ unsure' = (unsure \/ TooSoon \/ isr \/ irq)
    /\ UNCHANGED <<countVars, invert, since, isr, told>>

TimePasses ==
    /\ TooSoon /\ since' = since + 1
    /\ UNCHANGED <<countVars, level, invert, irq, isr, told, unsure>>

\* set_config with another photocell_invert: no edge tells the scheduler.
InvertChanges ==
    /\ invert' = ~invert /\ unsure' = TRUE
    /\ UNCHANGED <<countVars, level, since, irq, isr, told>>

\* photocellIsr(): the debounce and the stamp, then the level.
PhotocellIsr ==
    /\ irq /\ ~isr /\ irq' = FALSE
    /\ IF TooSoon THEN UNCHANGED <<since, isr>> ELSE since' = 0 /\ isr' = TRUE
    /\ UNCHANGED <<countVars, level, invert, told, unsure>>

PhotocellTells_IgnoresInvert ==
    /\ isr /\ isr' = FALSE
    /\ told' = level /\ unsure' = irq
    /\ UNCHANGED <<countVars, level, invert, since, irq>>

PhotocellTells ==
    /\ isr /\ isr' = FALSE
    /\ told' = Sheet /\ unsure' = irq
    /\ UNCHANGED <<countVars, level, invert, since, irq>>

CounterNext == Pulse \/ OverflowAdds \/ OverflowClears \/ ReadBegins \/ ReadPart

EyeNext ==
    LevelChanges \/ TimePasses \/ InvertChanges \/ PhotocellIsr \/ PhotocellTells

EncNext == CounterNext \/ EyeNext

EncSpec == EncInit /\ [][EncNext]_encVars

----------------------------------------------------------------------------
\* A reading lies between the counts at its begin and its end, whichever part is
\* read first, unless the counter started again during it or its interrupt was
\* still due (readUnit, pcntOverflowIsr).
ReadingIsCurrent ==
    reader.left = {} /\ ~reader.wrap => reader.value \in reader.low .. reader.high

\* Even then it is ahead by less than a limit, and behind by no more than a limit
\* and what the interrupt was late.
ReadingIsNear ==
    reader.left = {} =>
        /\ reader.low - Limit - Late <= reader.value
        /\ reader.value < reader.high + Limit

\* Pulses are lost only between the limit and the end of its interrupt.
NothingElseIsLost ==
    accum + count + (IF overflow = "pending" THEN Limit ELSE 0) = Counted

\* What the pattern is glued by: the count of the pulses, as a reader gets it.
CountIsTrue == ReadingIsCurrent /\ ReadingIsNear /\ NothingElseIsLost

\* The scheduler was told what the photocell sees, unless the level or its meaning
\* changed within the debounce time of the last edge taken (photocellIsr).
LevelIsTold == ~irq /\ ~isr => told = Sheet \/ unsure
=============================================================================
