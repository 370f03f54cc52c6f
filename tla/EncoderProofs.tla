--------------------------- MODULE EncoderProofs ---------------------------
(***************************************************************************)
(* Proofs about the pulse count and the photocell (module Encoder), for    *)
(* any limit of the counter, any debounce time and any number of pulses.   *)
(***************************************************************************)
EXTENDS Encoder, TLAPS

\* The pulses up to the last start of the counter.
Base == accum + (IF overflow = "pending" THEN Limit ELSE 0)

\* The interrupt is done before the counter gets beyond Late.
OverflowIsShort == overflow # "none" => count <= Late

\* While a reading goes on the count falls by less than it was late.
CountHolds ==
    \/ Base >= reader.low - Late
    \/ overflow = "none" /\ Base + count >= reader.low

\* How far a reading has come, when the counter started again during it ...
NearSoFar ==
    /\ reader.left # {} => CountHolds
    /\ reader.left = Parts => reader.value = 0
    /\ reader.left = {"count"} => reader.low - Limit - Late <= reader.value /\ reader.value <= accum
    /\ reader.left = {"accum"} => reader.value < Limit

\* ... and when it did not.
CurrentSoFar ==
    ~reader.wrap =>
        /\ overflow = "none"
        /\ reader.left # {} => reader.low <= accum + count
        /\ reader.left = {"count"} => reader.value = accum
        /\ reader.left = {"accum"} =>
              reader.low <= accum + reader.value /\ reader.value <= count

CountInv ==
    /\ EncTypeOK /\ lost <= total /\ NothingElseIsLost
    /\ OverflowIsShort /\ NearSoFar /\ CurrentSoFar /\ ReadingIsCurrent /\ ReadingIsNear

Readers == [left : SUBSET Parts, value : 0 .. MaxPulses + Limit, low : 0 .. MaxPulses,
            high : 0 .. MaxPulses, wrap : BOOLEAN]

LEMMA LeftToRead ==
    ASSUME NEW left \in SUBSET Parts
    PROVE  left = {} \/ left = {"accum"} \/ left = {"count"} \/ left = Parts
BY DEF Parts

LEMMA PartsDiffer ==
    /\ Parts # {} /\ Parts # {"accum"} /\ Parts # {"count"} /\ {"accum"} # {"count"}
    /\ Parts \ {"accum"} = {"count"} /\ Parts \ {"count"} = {"accum"}
    /\ {"accum"} # {} /\ {"count"} # {}
BY DEF Parts

LEMMA CountInit == EncInit => CountInv
<1> SUFFICES ASSUME EncInit PROVE CountInv
  OBVIOUS
<1>1. EncTypeOK
  <2>1. level \in BOOLEAN /\ invert \in BOOLEAN /\ irq \in BOOLEAN /\ isr \in BOOLEAN
        /\ told \in BOOLEAN /\ unsure \in BOOLEAN
    BY Zenon DEF EncInit
  <2>2. QED
    BY <2>1, EncoderAssumption DEF EncoderAssumption, EncInit, EncTypeOK
<1>2. QED
  BY <1>1, EncoderAssumption
     DEF EncoderAssumption, EncInit, CountInv, NothingElseIsLost, Counted, OverflowIsShort,
         NearSoFar, CurrentSoFar, ReadingIsCurrent, ReadingIsNear, Parts

\* A pulse, with and without the counter starting again.
LEMMA PulseCounts == CountInv /\ Pulse => CountInv'
<1> USE EncoderAssumption DEF EncoderAssumption
<1> SUFFICES ASSUME CountInv, Pulse PROVE CountInv'
  OBVIOUS
<1>1. /\ total \in 0 .. MaxPulses /\ lost \in 0 .. MaxPulses /\ accum \in 0 .. MaxPulses
      /\ count \in 0 .. Limit - 1 /\ overflow \in {"none", "pending", "added"}
      /\ reader \in Readers
  BY DEF CountInv, EncTypeOK, Readers
<1>2. /\ reader' = [reader EXCEPT !.wrap = reader.wrap \/ (count + 1 = Limit)]
      /\ accum' = accum /\ lost' = lost /\ total' = total + 1 /\ total < MaxPulses
  BY DEF Pulse
<1>3. /\ reader' \in Readers /\ reader'.left = reader.left /\ reader'.value = reader.value
      /\ reader'.low = reader.low /\ reader'.high = reader.high
      /\ reader'.wrap = (reader.wrap \/ (count + 1 = Limit))
  BY <1>1, <1>2 DEF Readers
<1>4. CASE count + 1 = Limit
  <2>1. overflow = "none" /\ overflow' = "pending" /\ count' = 0
    BY <1>1, <1>4 DEF Pulse, CountInv, OverflowIsShort
  <2>2. EncTypeOK'
    BY <1>1, <1>2, <1>3, <2>1 DEF EncTypeOK, Pulse, eyeVars, CountInv, Readers
  <2>3. NothingElseIsLost' /\ OverflowIsShort'
    BY <1>1, <1>2, <1>4, <2>1 DEF CountInv, NothingElseIsLost, Counted, OverflowIsShort
  <2>4. NearSoFar' /\ CurrentSoFar' /\ ReadingIsCurrent' /\ ReadingIsNear'
    BY <1>1, <1>2, <1>3, <1>4, <2>1
       DEF CountInv, NearSoFar, CountHolds, Base, CurrentSoFar, ReadingIsCurrent, ReadingIsNear,
           Readers
  <2>5. QED
    BY <1>1, <1>2, <2>2, <2>3, <2>4 DEF CountInv
<1>5. CASE count + 1 # Limit
  <2>1. overflow' = overflow /\ count' = count + 1 /\ (overflow # "none" => count < Late)
    BY <1>1, <1>5 DEF Pulse
  <2>2. EncTypeOK'
    BY <1>1, <1>2, <1>3, <1>5, <2>1 DEF EncTypeOK, Pulse, eyeVars, CountInv, Readers
  <2>3. NothingElseIsLost' /\ OverflowIsShort'
    BY <1>1, <1>2, <2>1 DEF CountInv, NothingElseIsLost, Counted, OverflowIsShort
  <2>4. NearSoFar' /\ CurrentSoFar' /\ ReadingIsCurrent' /\ ReadingIsNear'
    BY <1>1, <1>2, <1>3, <1>5, <2>1
       DEF CountInv, NearSoFar, CountHolds, Base, CurrentSoFar, ReadingIsCurrent, ReadingIsNear,
           Readers
  <2>5. QED
    BY <1>1, <1>2, <2>2, <2>3, <2>4 DEF CountInv
<1>6. QED
  BY <1>4, <1>5

\* The overflow interrupt: what the counter gave up moves to the accumulator.
LEMMA OverflowCounts == CountInv /\ (OverflowAdds \/ OverflowClears) => CountInv'
<1> USE EncoderAssumption DEF EncoderAssumption
<1> SUFFICES ASSUME CountInv, OverflowAdds \/ OverflowClears PROVE CountInv'
  OBVIOUS
<1>1. /\ total \in 0 .. MaxPulses /\ lost \in 0 .. MaxPulses /\ accum \in 0 .. MaxPulses
      /\ count \in 0 .. Limit - 1 /\ overflow \in {"none", "pending", "added"}
      /\ reader \in Readers
  BY DEF CountInv, EncTypeOK, Readers
<1>2. accum + count + (IF overflow = "pending" THEN Limit ELSE 0) = total - lost
  BY DEF CountInv, NothingElseIsLost, Counted
<1>3. total' = total /\ reader' = reader
  BY DEF OverflowAdds, OverflowClears
<1>4. CASE OverflowAdds
  <2>1. EncTypeOK' /\ NothingElseIsLost' /\ OverflowIsShort' /\ lost' <= total'
    BY <1>1, <1>2, <1>3, <1>4
       DEF OverflowAdds, CountInv, EncTypeOK, eyeVars, NothingElseIsLost, Counted,
           OverflowIsShort
  <2>2. NearSoFar' /\ CurrentSoFar' /\ ReadingIsCurrent' /\ ReadingIsNear'
    BY <1>1, <1>3, <1>4
       DEF OverflowAdds, CountInv, NearSoFar, CountHolds, Base, CurrentSoFar,
           ReadingIsCurrent, ReadingIsNear, Readers
  <2>3. QED
    BY <2>1, <2>2 DEF CountInv
<1>5. CASE OverflowClears
  <2>1. EncTypeOK' /\ NothingElseIsLost' /\ OverflowIsShort' /\ lost' <= total'
    BY <1>1, <1>2, <1>3, <1>5
       DEF OverflowClears, CountInv, EncTypeOK, eyeVars, NothingElseIsLost, Counted,
           OverflowIsShort
  <2>2. NearSoFar' /\ CurrentSoFar' /\ ReadingIsCurrent' /\ ReadingIsNear'
    BY <1>1, <1>3, <1>5
       DEF OverflowClears, CountInv, NearSoFar, CountHolds, Base, CurrentSoFar,
           ReadingIsCurrent, ReadingIsNear, Readers
  <2>3. QED
    BY <2>1, <2>2 DEF CountInv
<1>6. QED
  BY <1>4, <1>5
LEMMA ReadBeginsCounts == CountInv /\ ReadBegins => CountInv'
<1> USE EncoderAssumption DEF EncoderAssumption
<1> SUFFICES ASSUME CountInv, ReadBegins PROVE CountInv'
  OBVIOUS
<1>1. /\ total \in 0 .. MaxPulses /\ lost \in 0 .. MaxPulses /\ accum \in 0 .. MaxPulses
      /\ count \in 0 .. Limit - 1 /\ overflow \in {"none", "pending", "added"}
  BY DEF CountInv, EncTypeOK
<1>2. accum + count + (IF overflow = "pending" THEN Limit ELSE 0) = Counted
      /\ Counted \in 0 .. MaxPulses
  BY <1>1 DEF CountInv, NothingElseIsLost, Counted
<1>3. UNCHANGED <<total, lost, accum, count, overflow, eyeVars>>
  BY DEF ReadBegins
<1>4. reader' = [left |-> Parts, value |-> 0, low |-> Counted, high |-> Counted,
                 wrap |-> overflow # "none"]
  BY DEF ReadBegins
<1>5. /\ reader'.left = Parts /\ reader'.value = 0 /\ reader'.low = Counted
      /\ reader'.high = Counted /\ (reader'.wrap <=> overflow # "none")
  BY <1>4
<1>6. EncTypeOK' /\ NothingElseIsLost' /\ OverflowIsShort' /\ lost' <= total'
  BY <1>1, <1>2, <1>3, <1>4
     DEF CountInv, EncTypeOK, eyeVars, NothingElseIsLost, Counted, OverflowIsShort
<1>7. NearSoFar' /\ ReadingIsNear'
  BY <1>1, <1>2, <1>3, <1>5, PartsDiffer
     DEF CountInv, OverflowIsShort, NearSoFar, CountHolds, Base, ReadingIsNear
<1>8. CurrentSoFar' /\ ReadingIsCurrent'
  BY <1>1, <1>2, <1>3, <1>5, PartsDiffer DEF CurrentSoFar, ReadingIsCurrent
<1>9. QED
  BY <1>6, <1>7, <1>8 DEF CountInv

\* The part that is read second completes a count of some moment of the reading.
LEMMA ReadPartCounts == CountInv /\ ReadPart => CountInv'
<1> USE EncoderAssumption DEF EncoderAssumption
<1> SUFFICES ASSUME CountInv, ReadPart PROVE CountInv'
  OBVIOUS
<1>1. /\ total \in 0 .. MaxPulses /\ lost \in 0 .. MaxPulses /\ accum \in 0 .. MaxPulses
      /\ count \in 0 .. Limit - 1 /\ overflow \in {"none", "pending", "added"}
      /\ reader \in Readers
  BY DEF CountInv, EncTypeOK, Readers
<1>2. accum + count + (IF overflow = "pending" THEN Limit ELSE 0) = Counted
      /\ Counted \in 0 .. MaxPulses
  BY <1>1 DEF CountInv, NothingElseIsLost, Counted
<1>3. UNCHANGED <<total, lost, accum, count, overflow, eyeVars>>
  BY DEF ReadPart
<1>4. PICK p \in reader.left :
          reader' = [reader EXCEPT !.left = reader.left \ {p}, !.high = Counted,
                        !.value = reader.value + (IF p = "accum" THEN accum ELSE count)]
  BY DEF ReadPart
<1>5. /\ reader'.left = reader.left \ {p} /\ reader'.high = Counted
      /\ reader'.value = reader.value + (IF p = "accum" THEN accum ELSE count)
      /\ reader'.low = reader.low /\ reader'.wrap = reader.wrap
      /\ reader'.left \in SUBSET Parts
  BY <1>1, <1>4 DEF Readers
<1>6. /\ reader.left = Parts => p = "accum" \/ p = "count"
      /\ reader.left = {"accum"} => p = "accum" /\ reader'.left = {}
      /\ reader.left = {"count"} => p = "count" /\ reader'.left = {}
      /\ reader.left = Parts /\ p = "accum" => reader'.left = {"count"}
      /\ reader.left = Parts /\ p = "count" => reader'.left = {"accum"}
      /\ reader.left \in {{"accum"}, {"count"}, Parts}
  BY <1>1, <1>5, LeftToRead DEF Parts, Readers
<1>7. reader'.value \in 0 .. MaxPulses + Limit
  BY <1>1, <1>2, <1>5, <1>6, PartsDiffer DEF CountInv, NearSoFar, Readers
<1>8. reader' \in Readers
  BY <1>1, <1>2, <1>4, <1>5, <1>7 DEF Readers
<1>9. EncTypeOK' /\ NothingElseIsLost' /\ OverflowIsShort' /\ lost' <= total'
  BY <1>1, <1>2, <1>3, <1>8
     DEF CountInv, EncTypeOK, eyeVars, NothingElseIsLost, Counted, OverflowIsShort, Readers
<1>10. NearSoFar' /\ CurrentSoFar'
  <2>1. reader.left = Parts => reader.value = 0
    BY DEF CountInv, NearSoFar
  <2>2. CountHolds /\ CountHolds'
    BY <1>1, <1>3, <1>5, <1>6, PartsDiffer DEF CountInv, NearSoFar, CountHolds, Base
  <2>3. NearSoFar'
    BY <1>1, <1>2, <1>3, <1>5, <1>6, <2>1, <2>2, PartsDiffer
       DEF CountInv, OverflowIsShort, NearSoFar, CountHolds, Base, Readers
  <2>4. CurrentSoFar'
    BY <1>1, <1>2, <1>3, <1>5, <1>6, <2>1, PartsDiffer DEF CountInv, CurrentSoFar, Readers
  <2>5. QED
    BY <2>3, <2>4
<1>11. ReadingIsCurrent' /\ ReadingIsNear'
  BY <1>1, <1>2, <1>3, <1>5, <1>6, PartsDiffer
     DEF CountInv, OverflowIsShort, NearSoFar, CountHolds, Base, CurrentSoFar,
         ReadingIsCurrent, ReadingIsNear, Readers
<1>12. QED
  BY <1>9, <1>10, <1>11 DEF CountInv

\* The photocell keeps its types and has no part in the count.
LEMMA EyeTyped ==
    EncTypeOK /\ EyeNext =>
        /\ level' \in BOOLEAN /\ invert' \in BOOLEAN /\ since' \in 0 .. Debounce
        /\ irq' \in BOOLEAN /\ isr' \in BOOLEAN /\ told' \in BOOLEAN /\ unsure' \in BOOLEAN
        /\ UNCHANGED countVars
<1> SUFFICES ASSUME EncTypeOK, EyeNext
             PROVE  /\ level' \in BOOLEAN /\ invert' \in BOOLEAN /\ since' \in 0 .. Debounce
                    /\ irq' \in BOOLEAN /\ isr' \in BOOLEAN /\ told' \in BOOLEAN
                    /\ unsure' \in BOOLEAN /\ UNCHANGED countVars
  OBVIOUS
<1> USE DEF EyeNext, LevelChanges, TimePasses, InvertChanges, PhotocellIsr, PhotocellTells
<1>1. /\ level' \in BOOLEAN /\ invert' \in BOOLEAN /\ irq' \in BOOLEAN /\ isr' \in BOOLEAN
  BY Zenon DEF EncTypeOK
<1>2. told' \in BOOLEAN /\ unsure' \in BOOLEAN
  BY Zenon DEF EncTypeOK, Sheet, TooSoon
<1>3. since' \in 0 .. Debounce
  BY EncoderAssumption DEF EncoderAssumption, EncTypeOK, TooSoon
<1>4. QED
  BY <1>1, <1>2, <1>3

LEMMA EyeCounts == CountInv /\ EyeNext => CountInv'
BY EyeTyped
   DEF CountInv, EncTypeOK, countVars, NothingElseIsLost, Counted, OverflowIsShort, NearSoFar,
       CountHolds, Base, CurrentSoFar, ReadingIsCurrent, ReadingIsNear

LEMMA CountStep == CountInv /\ [EncNext]_encVars => CountInv'
<1> SUFFICES ASSUME CountInv, [EncNext]_encVars PROVE CountInv'
  OBVIOUS
<1>1. CASE UNCHANGED encVars
  BY <1>1
     DEF encVars, eyeVars, CountInv, EncTypeOK, countVars, NothingElseIsLost, Counted,
         OverflowIsShort, NearSoFar, CountHolds, Base, CurrentSoFar, ReadingIsCurrent,
         ReadingIsNear
<1>2. QED
  BY <1>1, PulseCounts, OverflowCounts, ReadBeginsCounts, ReadPartCounts, EyeCounts
     DEF EncNext, CounterNext

\* Every reachable state of the encoder and the photocell is well typed.
THEOREM EncoderTypeCorrect == EncSpec => []EncTypeOK
BY CountInit, CountStep, PTL DEF EncSpec, CountInv

\* What pulseCount() returns is a count between those at its begin and its end, and
\* in any case less than a limit and the lateness of the interrupt away from them.
THEOREM CountCorrect == EncSpec => []CountIsTrue
<1>1. CountInv => CountIsTrue
  BY DEF CountInv, CountIsTrue
<1>2. QED
  BY <1>1, CountInit, CountStep, PTL DEF EncSpec

----------------------------------------------------------------------------
(* The photocell.                                                          *)

\* An edge that nothing made unsure is taken.
LevelInv ==
    /\ LevelIsTold
    /\ irq /\ ~unsure => ~TooSoon /\ ~isr

LEMMA LevelStep == LevelInv /\ [EncNext]_encVars => LevelInv'
<1> SUFFICES ASSUME LevelInv, [EncNext]_encVars PROVE LevelInv'
  OBVIOUS
<1> USE DEF LevelInv, LevelIsTold, Sheet, TooSoon
<1>1. CASE UNCHANGED eyeVars
  BY <1>1, Zenon DEF eyeVars
<1>2. CASE LevelChanges
  BY <1>2, Zenon DEF LevelChanges
<1>3. CASE TimePasses
  BY <1>3, Zenon DEF TimePasses
<1>4. CASE InvertChanges
  BY <1>4, Zenon DEF InvertChanges
<1>5. CASE PhotocellIsr
  BY <1>5, Zenon DEF PhotocellIsr
<1>6. CASE PhotocellTells
  BY <1>6, Zenon DEF PhotocellTells
<1>7. QED
  BY <1>1, <1>2, <1>3, <1>4, <1>5, <1>6
     DEF EncNext, CounterNext, EyeNext, encVars, Pulse, OverflowAdds, OverflowClears,
         ReadBegins, ReadPart

\* The scheduler knows the level that the photocell sees, unless the level or its
\* meaning changed within the debounce time of the last edge taken.
THEOREM LevelCorrect == EncSpec => []LevelIsTold
<1>1. EncInit => LevelInv
  BY DEF EncInit, LevelInv, LevelIsTold, Sheet
<1>2. LevelInv => LevelIsTold
  BY DEF LevelInv
<1>3. QED
  BY <1>1, <1>2, LevelStep, PTL DEF EncSpec
=============================================================================
