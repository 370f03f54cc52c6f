-------------------------------- MODULE Dac --------------------------------
(***************************************************************************)
(* The MCP4728 threshold DAC and its writers (src/src/hw/Dac.cpp).         *)
(*                                                                         *)
(* Interrupts never touch I2C: they store a target code per channel        *)
(* (s_shadow, here shadow) and wake the DAC task.  The task, and every     *)
(* task that calls blockingSetCode(), write the channels whose target      *)
(* differs from what was last confirmed (s_written, here written) in one   *)
(* transaction, under a mutex that is held for the whole transaction.      *)
(* chip is what the converter really outputs: a channel latches its code   *)
(* while the bytes go over the bus, before the writer learns the outcome,  *)
(* and a transaction that fails half way has latched some channels.        *)
(*                                                                         *)
(* A code is an abstract value; voltage conversion is left out.            *)
(***************************************************************************)
EXTENDS Integers, FiniteSets

CONSTANTS
    NumGuns,        \* pins::NUM_GUNS: one DAC channel per gun
    Callers,        \* tasks that may call blockingSetCode()
    Codes,          \* DAC codes the firmware uses
    SafeCode,       \* SAFE_CODE, written to every channel by init()
    Unknown,        \* s_written before the chip answered (0xFFFF)
    WriteAttempts,  \* WRITE_ATTEMPTS
    BusMayFail      \* whether an I2C transaction may fail

ASSUME DacAssumption ==
    /\ NumGuns \in Nat \ {0}
    /\ SafeCode \in Codes
    /\ Unknown \notin Codes
    /\ WriteAttempts \in Nat \ {0}
    /\ BusMayFail \in BOOLEAN
    /\ "dacTask" \notin Callers
    /\ "nobody" \notin Callers

Guns    == 1 .. NumGuns
Writers == Callers \cup {"dacTask"}

VARIABLES
    shadow,     \* [Guns -> Codes]  target code of each channel
    written,    \* [Guns -> Codes \cup {Unknown}]  last confirmed code
    chip,       \* [Guns -> Codes]  what the converter outputs
    chipReady,  \* s_chipReady: the chip answered at power-up
    bus,        \* the I2C mutex and the transaction in progress
    kicked,     \* the DAC task's notification is pending
    dacPc,      \* where the DAC task is
    dacTries,   \* attempts made since it woke up
    call        \* [Callers -> ...]  blockingSetCode() in progress

dacVars == <<shadow, written, chip, chipReady, bus, kicked, dacPc, dacTries, call>>

FreeBus == [owner |-> "nobody", mask |-> {}, sent |-> {}, age |-> 0,
            snap |-> [g \in Guns |-> SafeCode]]
NoCall  == [at |-> "none", gun |-> 1, code |-> SafeCode, tries |-> 0]

DacTypeOK ==
    /\ shadow \in [Guns -> Codes]
    /\ written \in [Guns -> Codes \cup {Unknown}]
    /\ chip \in [Guns -> Codes]
    /\ chipReady \in BOOLEAN
    /\ bus \in [owner : Writers \cup {"nobody"}, mask : SUBSET Guns,
                sent : SUBSET Guns, age : Nat, snap : [Guns -> Codes]]
    /\ kicked \in BOOLEAN
    /\ dacPc \in {"eval", "wait", "poll", "write", "absent"}
    /\ dacTries \in 0 .. WriteAttempts
    /\ call \in [Callers -> [at : {"none", "try", "done"}, gun : Guns,
                             code : Codes, tries : 0 .. WriteAttempts]]

\* init(): every channel at SAFE_CODE.  If the chip does not answer nothing is
\* ever confirmed and the DAC task is not created.
DacInitWith(targets) ==
    /\ shadow = targets
    /\ chip = [g \in Guns |-> SafeCode]
    /\ chipReady \in BOOLEAN
    /\ written = [g \in Guns |-> IF chipReady THEN SafeCode ELSE Unknown]
    /\ bus = FreeBus
    /\ kicked = FALSE
    /\ dacPc = IF chipReady THEN "eval" ELSE "absent"
    /\ dacTries = 0
    /\ call = [f \in Callers |-> NoCall]

DacInit == DacInitWith([g \in Guns |-> SafeCode])

----------------------------------------------------------------------------
IsApplied(g, c) == shadow[g] = c /\ written[g] = c

Pending    == {g \in Guns : shadow[g] # written[g]}
AnyPending == Pending # {}

\* Three or more stale channels are sent with Fast Write, which carries all.
Carried == IF Cardinality(Pending) >= 3 THEN Guns ELSE Pending

\* kick() only reaches a task that exists.
Kick == kicked' = (dacPc # "absent")

----------------------------------------------------------------------------
(* The writer w has finished one call of writePending() with outcome ok.   *)
DacTaskWrote_NoLimit(ok) ==
    IF ok THEN dacPc' = "eval" /\ dacTries' = 0
          ELSE dacPc' = "write" /\ dacTries' = dacTries + 1
DacTaskWrote(ok) ==
    IF ok \/ dacTries + 1 >= WriteAttempts
      THEN dacPc' = "eval" /\ dacTries' = 0
      ELSE dacPc' = "write" /\ dacTries' = dacTries + 1

WriteReturns(w, ok) ==
    IF w = "dacTask"
      THEN DacTaskWrote(ok) /\ UNCHANGED call
      ELSE /\ call' = [call EXCEPT ![w].tries = @ + 1]
           /\ UNCHANGED <<dacPc, dacTries>>

MayWrite(w) ==
    IF w = "dacTask"
      THEN dacPc = "write"
      ELSE /\ call[w].at = "try"
           /\ call[w].tries < WriteAttempts
           /\ ~IsApplied(call[w].gun, call[w].code)

\* writePending(): no chip, or nothing differs under the mutex.
WriteNothing(w) ==
    /\ MayWrite(w)
    /\ \/ ~chipReady /\ WriteReturns(w, FALSE)
       \/ chipReady /\ bus.owner = "nobody" /\ ~AnyPending /\ WriteReturns(w, TRUE)
    /\ UNCHANGED <<shadow, written, chip, chipReady, bus, kicked>>

\* writePending(): take the mutex, copy the targets, start the transaction.
WriteBegin(w) ==
    /\ MayWrite(w) /\ chipReady
    /\ bus.owner = "nobody"
    /\ AnyPending
    /\ bus' = [owner |-> w, mask |-> Carried, sent |-> {}, age |-> 0,
               snap |-> shadow]
    /\ UNCHANGED <<shadow, written, chip, chipReady, kicked, dacPc, dacTries, call>>

\* The bytes of channel g arrive: with UDAC = 0 the output changes at once.
WriteLatch(g) ==
    /\ bus.owner # "nobody"
    /\ g \in bus.mask \ bus.sent
    /\ chip' = [chip EXCEPT ![g] = bus.snap[g]]
    /\ bus' = [bus EXCEPT !.sent = @ \cup {g}]
    /\ UNCHANGED <<shadow, written, chipReady, kicked, dacPc, dacTries, call>>

Confirm_CurrentTarget ==
    written' = [g \in Guns |-> IF g \in bus.mask THEN shadow[g] ELSE written[g]]
Confirm ==
    written' = [g \in Guns |-> IF g \in bus.mask THEN bus.snap[g] ELSE written[g]]

\* Every byte acknowledged: the copied codes are confirmed.
WriteOk ==
    /\ bus.owner # "nobody"
    /\ bus.sent = bus.mask
    /\ Confirm
    /\ bus' = FreeBus
    /\ WriteReturns(bus.owner, TRUE)
    /\ UNCHANGED <<shadow, chip, chipReady, kicked>>

\* The transaction fails wherever it stands; what was confirmed stays.
WriteFail ==
    /\ BusMayFail
    /\ bus.owner # "nobody"
    /\ bus' = FreeBus
    /\ WriteReturns(bus.owner, FALSE)
    /\ UNCHANGED <<shadow, written, chip, chipReady, kicked>>

\* dacTask(): decide how long to wait for a notification ...
NextWait_NoRetry == "wait"
NextWait == IF AnyPending THEN "poll" ELSE "wait"

DacEval ==
    /\ dacPc = "eval"
    /\ dacPc' = NextWait
    /\ UNCHANGED <<shadow, written, chip, chipReady, bus, kicked, dacTries, call>>

\* ... and wake on it, or after one tick when something was still pending.
DacWake ==
    /\ dacPc = "poll" \/ (dacPc = "wait" /\ kicked)
    /\ dacPc' = "write"
    /\ dacTries' = 0
    /\ kicked' = FALSE
    /\ UNCHANGED <<shadow, written, chip, chipReady, bus, call>>

\* The mutex-protected steps and the DAC task: what the sequencer composes with.
DacStep ==
    \/ \E w \in Writers : WriteNothing(w) \/ WriteBegin(w)
    \/ \E g \in Guns : WriteLatch(g)
    \/ WriteOk
    \/ WriteFail
    \/ DacEval
    \/ DacWake

\* blockingSetCode(): set the target, then write until applied or out of tries.
BlockingEnds(f) ==
    /\ call[f].at = "try"
    /\ bus.owner # f
    /\ \/ IsApplied(call[f].gun, call[f].code)
       \/ call[f].tries >= WriteAttempts

BlockingBegin(f, g, c) ==
    /\ call[f].at = "none"
    /\ shadow' = [shadow EXCEPT ![g] = c]
    /\ call' = [call EXCEPT ![f] = [at |-> "try", gun |-> g, code |-> c, tries |-> 0]]

----------------------------------------------------------------------------
(* The DAC on its own: any interrupt retargets any channel, any caller     *)
(* blocks on any code.                                                     *)
Retarget(g, c) ==
    /\ shadow' = [shadow EXCEPT ![g] = c]
    /\ Kick
    /\ UNCHANGED <<written, chip, chipReady, bus, dacPc, dacTries, call>>

SetBlocking(f, g, c) ==
    /\ BlockingBegin(f, g, c)
    /\ UNCHANGED <<written, chip, chipReady, bus, kicked, dacPc, dacTries>>

SetBlockingReturns(f) ==
    /\ BlockingEnds(f)
    /\ call' = [call EXCEPT ![f] = NoCall]
    /\ UNCHANGED <<shadow, written, chip, chipReady, bus, kicked, dacPc, dacTries>>

DacNext ==
    \/ DacStep
    \/ \E g \in Guns, c \in Codes : Retarget(g, c)
    \/ \E f \in Callers, g \in Guns, c \in Codes : SetBlocking(f, g, c)
    \/ \E f \in Callers : SetBlockingReturns(f)

DacSpec == DacInit /\ [][DacNext]_dacVars

\* Tasks run, the I2C hardware finishes what it started, and the bus does not
\* fail for ever.
DacFairness ==
    /\ WF_dacVars(DacEval) /\ WF_dacVars(DacWake)
    /\ SF_dacVars(WriteNothing("dacTask")) /\ SF_dacVars(WriteBegin("dacTask"))
    /\ \A g \in Guns : SF_dacVars(WriteLatch(g))
    /\ SF_dacVars(WriteOk)
    /\ \A f \in Callers : WF_dacVars(SetBlockingReturns(f))
    /\ \A f \in Callers : SF_dacVars(WriteBegin(f))

----------------------------------------------------------------------------
(* Properties.                                                             *)

\* What was confirmed is what the chip outputs, except on a channel whose
\* bytes are on the bus right now (a failed transaction is excluded by
\* BusMayFail = FALSE).  isApplied() rests on this.
ConfirmedIsOnChip ==
    (chipReady /\ ~BusMayFail) =>
        \A g \in Guns : written[g] = chip[g] \/ g \in bus.sent

\* Dac.h:19 "isApplied() tells whether a code is physically on the chip": with
\* no transaction in progress, the code reported applied is the chip's output.
AppliedIsOnChip ==
    bus.owner = "nobody" =>
        \A g \in Guns, c \in Codes : IsApplied(g, c) => chip[g] = c

\* A target set with a kick is written, or replaced by a newer one, however
\* often the bus fails in between (dacTask retries every tick).
DacRequested(g, c) ==
    /\ shadow[g] = c
    /\ kicked \/ dacPc \in {"poll", "write"}

KickedTargetIsWritten ==
    \A g \in Guns, c \in Codes :
        DacRequested(g, c) ~> (written[g] = c \/ shadow[g] # c)
=============================================================================
