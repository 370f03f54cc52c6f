----------------------------- MODULE DacProofs -----------------------------
(***************************************************************************)
(* Proofs about the threshold DAC (module Dac), for any number of          *)
(* channels, writers, codes and attempts.                                  *)
(***************************************************************************)
EXTENDS Dac, TLAPS

\* Whoever has a transaction on the bus is inside writePending(), with an
\* attempt left: it cannot return, or start another one, before it ends.
WriterInv ==
    /\ bus.owner # "nobody" => chipReady
    /\ \A f \in Callers : bus.owner = f =>
          call[f].at = "try" /\ call[f].tries < WriteAttempts
    /\ bus.owner = "dacTask" => dacPc = "write"
    /\ dacPc = "write" => dacTries < WriteAttempts

\* Channels whose bytes went out hold the copied code; all others hold what
\* was last confirmed, as long as no transaction fails.
ChipInv ==
    /\ bus.sent \subseteq bus.mask
    /\ bus.owner = "nobody" => bus.sent = {}
    /\ \A g \in bus.sent : chip[g] = bus.snap[g]
    /\ (chipReady /\ ~BusMayFail) =>
          \A g \in Guns : g \notin bus.sent => written[g] = chip[g]
    /\ ~chipReady => \A g \in Guns : written[g] = Unknown

DacInv == DacTypeOK /\ WriterInv /\ ChipInv

\* A transaction carries channels of the device.
LEMMA CarriedGuns == Carried \subseteq Guns
BY DEF Carried, Pending

----------------------------------------------------------------------------
(* The DAC's own steps, also when the sequencer composes with them.        *)

\* A writer's return leaves its attempt counter within bounds.
LEMMA WriteReturnsTyped ==
    ASSUME DacTypeOK, WriterInv,
           NEW w \in Writers, NEW ok \in BOOLEAN, MayWrite(w) \/ bus.owner = w,
           bus'.owner = "nobody",
           WriteReturns(w, ok)
    PROVE  /\ dacPc' \in {"eval", "wait", "poll", "write", "absent"}
           /\ dacTries' \in 0 .. WriteAttempts
           /\ call' \in [Callers -> [at : {"none", "try", "done"}, gun : Guns,
                                     code : Codes, tries : 0 .. WriteAttempts]]
           /\ WriterInv'
<1> USE DacAssumption DEF DacAssumption
<1>1. CASE w = "dacTask"
  BY <1>1 DEF WriteReturns, DacTaskWrote, WriterInv, DacTypeOK, MayWrite
<1>2. CASE w # "dacTask"
  <2>1. w \in Callers /\ call[w].at = "try" /\ call[w].tries < WriteAttempts
    BY <1>2 DEF Writers, MayWrite, WriterInv
  <2>2. QED
    BY <1>2, <2>1 DEF WriteReturns, WriterInv, DacTypeOK
<1>3. QED
  BY <1>1, <1>2

\* Every step of the DAC task, the bus and the writers keeps the invariant.
LEMMA DacStepInv == DacInv /\ DacStep => DacInv'
<1> SUFFICES ASSUME DacTypeOK, WriterInv, ChipInv, DacStep
             PROVE  DacInv'
  BY DEF DacInv
<1> USE DacAssumption DEF DacAssumption
<1>1. ASSUME NEW w \in Writers, WriteNothing(w)
      PROVE  DacInv'
  <2>1. PICK ok \in BOOLEAN : WriteReturns(w, ok)
    BY <1>1 DEF WriteNothing
  <2>2. MayWrite(w) /\ bus' = bus /\ bus.owner = "nobody"
    BY <1>1 DEF WriteNothing, WriterInv
  <2>3. DacTypeOK' /\ WriterInv'
    BY <1>1, <2>1, <2>2, WriteReturnsTyped DEF WriteNothing, DacTypeOK
  <2>4. ChipInv'
    BY <1>1 DEF WriteNothing, ChipInv
  <2>5. QED
    BY <2>3, <2>4 DEF DacInv
<1>2. ASSUME NEW w \in Writers, WriteBegin(w)
      PROVE  DacInv'
  <2>1. bus'.owner = w /\ bus'.sent = {} /\ bus'.mask = Carried /\ bus'.snap = shadow
    BY <1>2 DEF WriteBegin
  <2>2. DacTypeOK'
    BY <1>2, CarriedGuns DEF WriteBegin, DacTypeOK
  <2>3. WriterInv'
    BY <1>2, <2>1 DEF WriteBegin, WriterInv, MayWrite, Writers, DacTypeOK
  <2>4. ChipInv'
    BY <1>2, <2>1 DEF WriteBegin, ChipInv
  <2>5. QED
    BY <2>2, <2>3, <2>4 DEF DacInv
<1>3. ASSUME NEW g \in Guns, WriteLatch(g)
      PROVE  DacInv'
  <2>1. DacTypeOK'
    BY <1>3 DEF WriteLatch, DacTypeOK
  <2>2. WriterInv'
    BY <1>3 DEF WriteLatch, WriterInv, DacTypeOK
  <2>3. ChipInv'
    BY <1>3 DEF WriteLatch, ChipInv, DacTypeOK
  <2>4. QED
    BY <2>1, <2>2, <2>3 DEF DacInv
<1>4. CASE WriteOk
  <2> USE <1>4
  <2>1. bus.owner \in Writers /\ bus' = FreeBus /\ WriteReturns(bus.owner, TRUE)
    BY DEF WriteOk, DacTypeOK
  <2>2. DacTypeOK' /\ WriterInv'
    <3>1. bus'.owner = "nobody"
      BY <2>1 DEF FreeBus
    <3>2. WriterInv' /\ dacTries' \in 0 .. WriteAttempts
          /\ dacPc' \in {"eval", "wait", "poll", "write", "absent"}
          /\ call' \in [Callers -> [at : {"none", "try", "done"}, gun : Guns,
                                    code : Codes, tries : 0 .. WriteAttempts]]
      BY <2>1, <3>1, WriteReturnsTyped
    <3>3. QED
      BY <2>1, <3>2 DEF WriteOk, DacTypeOK, FreeBus, Confirm
  <2>3. ChipInv'
    BY <2>1 DEF WriterInv, WriteOk, ChipInv, FreeBus, Confirm, DacTypeOK
  <2>4. QED
    BY <2>2, <2>3 DEF DacInv
<1>5. CASE WriteFail
  <2> USE <1>5
  <2>1. bus.owner \in Writers /\ bus' = FreeBus /\ WriteReturns(bus.owner, FALSE)
    BY DEF WriteFail, DacTypeOK
  <2>2. DacTypeOK' /\ WriterInv'
    <3>1. bus'.owner = "nobody"
      BY <2>1 DEF FreeBus
    <3>2. WriterInv' /\ dacTries' \in 0 .. WriteAttempts
          /\ dacPc' \in {"eval", "wait", "poll", "write", "absent"}
          /\ call' \in [Callers -> [at : {"none", "try", "done"}, gun : Guns,
                                    code : Codes, tries : 0 .. WriteAttempts]]
      BY <2>1, <3>1, WriteReturnsTyped
    <3>3. QED
      BY <2>1, <3>2 DEF WriteFail, DacTypeOK, FreeBus
  <2>3. ChipInv'
    BY <2>1 DEF WriteFail, ChipInv, FreeBus
  <2>4. QED
    BY <2>2, <2>3 DEF DacInv
<1>6. CASE DacEval
  BY <1>6 DEF DacEval, NextWait, DacInv, DacTypeOK, WriterInv, ChipInv
<1>7. CASE DacWake
  <2>1. DacTypeOK'
    <3>1. kicked' \in BOOLEAN
      BY <1>7, Zenon DEF DacWake
    <3>2. QED
      BY <1>7, <3>1 DEF DacWake, DacTypeOK
  <2>2. WriterInv'
    BY <1>7 DEF DacWake, WriterInv
  <2>3. ChipInv'
    BY <1>7 DEF DacWake, ChipInv
  <2>4. QED
    BY <2>1, <2>2, <2>3 DEF DacInv
<1>8. QED
  BY <1>1, <1>2, <1>3, <1>4, <1>5, <1>6, <1>7 DEF DacStep
----------------------------------------------------------------------------
(* The DAC on its own.                                                     *)

\* DacInv holds in every reachable state.
THEOREM DacInvariant == DacSpec => []DacInv
<1> USE DacAssumption DEF DacAssumption
<1>1. DacInit => DacInv
  <2> SUFFICES ASSUME DacInit
               PROVE  DacInv
    OBVIOUS
  <2>1. 1 \in Guns /\ "nobody" \notin Callers
    BY DEF Guns
  <2>2. DacTypeOK
    <3>1. NoCall \in [at : {"none", "try", "done"}, gun : Guns, code : Codes,
                      tries : 0 .. WriteAttempts]
      BY <2>1 DEF NoCall
    <3>2. FreeBus \in [owner : Writers \cup {"nobody"}, mask : SUBSET Guns,
                       sent : SUBSET Guns, age : Nat, snap : [Guns -> Codes]]
      BY DEF FreeBus
    <3>3. kicked \in BOOLEAN
      BY Zenon DEF DacInit, DacInitWith
    <3>4. QED
      BY <3>1, <3>2, <3>3 DEF DacInit, DacInitWith, DacTypeOK
  <2>3. WriterInv
    BY <2>1 DEF DacInit, DacInitWith, WriterInv, FreeBus
  <2>4. ChipInv
    BY DEF DacInit, DacInitWith, ChipInv, FreeBus
  <2>5. QED
    BY <2>2, <2>3, <2>4 DEF DacInv
<1>2. DacInv /\ [DacNext]_dacVars => DacInv'
  <2> SUFFICES ASSUME DacInv, [DacNext]_dacVars
               PROVE  DacInv'
    OBVIOUS
  <2>1. CASE DacStep
    BY <2>1, DacStepInv
  <2>2. ASSUME NEW g \in Guns, NEW c \in Codes, Retarget(g, c)
        PROVE  DacInv'
    BY <2>2 DEF Retarget, Kick, DacInv, DacTypeOK, WriterInv, ChipInv
  <2>3. ASSUME NEW f \in Callers, NEW g \in Guns, NEW c \in Codes, SetBlocking(f, g, c)
        PROVE  DacInv'
    BY <2>3 DEF SetBlocking, BlockingBegin, DacInv, DacTypeOK, WriterInv, ChipInv
  <2>4. ASSUME NEW f \in Callers, SetBlockingReturns(f)
        PROVE  DacInv'
    BY <2>4 DEF SetBlockingReturns, BlockingEnds, NoCall, DacInv, DacTypeOK, WriterInv,
                ChipInv, Guns
  <2>5. CASE UNCHANGED dacVars
    BY <2>5 DEF dacVars, DacInv, DacTypeOK, WriterInv, ChipInv, MayWrite
  <2>6. QED
    BY <2>1, <2>2, <2>3, <2>4, <2>5 DEF DacNext
<1>3. QED
  BY <1>1, <1>2, PTL DEF DacSpec

\* The DAC's state stays of its type: no writer exceeds its attempts, and no
\* task of a chip that is absent is ever woken.
THEOREM DacTypeCorrect == DacSpec => []DacTypeOK
BY DacInvariant, PTL DEF DacInv

\* What isApplied() reports is what the converter outputs, whichever writers
\* interleave, as long as no transaction fails.
THEOREM ConfirmedCorrect == DacSpec => []ConfirmedIsOnChip
<1>1. DacInv => ConfirmedIsOnChip
  BY DEF DacInv, ChipInv, ConfirmedIsOnChip
<1>2. QED
  BY <1>1, DacInvariant, PTL

\* Without failing transactions Dac.h:19 holds: a code that isApplied() reports
\* is physically on the chip whenever no transaction is in progress.
THEOREM AppliedCorrect == DacSpec => [](~BusMayFail => AppliedIsOnChip)
<1> USE DacAssumption DEF DacAssumption
<1>1. DacInv => (~BusMayFail => AppliedIsOnChip)
  BY DEF DacInv, DacTypeOK, ChipInv, AppliedIsOnChip, IsApplied
<1>2. QED
  BY <1>1, DacInvariant, PTL
=============================================================================
