--------------------------- MODULE GunSequencer ---------------------------
(***************************************************************************)
(* The per-gun drop sequence and its safety net                            *)
(* (src/src/rt/GunSequencer.cpp, with hw/RtTimers.cpp and hw/Driver.cpp).  *)
(*                                                                         *)
(* Actors: the tasks that call fire() (the pattern task on Core 1, the     *)
(* test timer and the command task on Core 0), the peak comparator         *)
(* interrupts, the close alarm, the 50 us supervisor tick, the 1 ms        *)
(* checker on Core 0, the DAC task of module Dac, and the rest of the      *)
(* firmware, which sets the cfg::g_sys flags, aborts guns, applies a new   *)
(* configuration and switches the outputs off without the lock (killAll).  *)
(*                                                                         *)
(* Every change of per-gun state happens under one spinlock.  A critical   *)
(* section is one action, except the two that walk the guns and react to   *)
(* each in turn (supervisor, checker): those hold `lock` and take one step *)
(* per gun, so everything that does not need the lock interleaves.         *)
(*                                                                         *)
(* Time passes in units, by action Pass.  The code keeps absolute stamps   *)
(* and only ever uses differences; here a stamp is an age (or, for         *)
(* closeAtUs and the alarms, what is left), which saturates at the limit   *)
(* it is compared with and runs only while some step can read it.  Pass    *)
(* is not allowed beyond the moment an interrupt is due: that is the       *)
(* promise of the hardware timers, and Faults says which ones may break.   *)
(***************************************************************************)
EXTENDS Dac

CONSTANTS
    Versions,       \* versions of the configuration
    PickOf, HoldOf, \* [Versions -> Codes]  cPick, cHold of a version
    OnTimes,        \* on-times asked of fire(), in units
    TickPeriod,     \* SUPERVISOR_PERIOD_US
    CheckerPeriod,  \* CHECKER_PERIOD_US
    CheckerLate,    \* how late the esp_timer task may run a checker callback
    WriteMax,       \* longest I2C transaction
    AlarmSlack,     \* ALARM_SLACK_US
    TaskLate,       \* how long a task may be off the CPU between its reading of the
                    \* clock and the critical section that uses it
    SupervisorGrace, CheckerGrace,  \* SUPERVISOR_GRACE_US, CHECKER_GRACE_US
    PickLimit,      \* PICK_LIMIT_US
    DecayStuck, DecayMax,           \* DECAY_STUCK_US, DECAY_MAX_US
    DecayLowTicks,  \* DECAY_LOW_TICKS
    TickStall,      \* TICK_STALL_US
    StreakReset,    \* STREAK_RESET_US
    TripStreakStop, \* TRIP_STREAK_STOP
    Faults,         \* hardware faults that may happen
    TestCallers,    \* the callers of fire() that fire test drops
    Inputs          \* what the rest of the firmware does in this instance

FaultKinds == {"alarmMissed", "tickStall", "in1Glitch"}
InputKinds == {"active", "fault", "calibrating", "testMode", "config", "abort",
               "killAll", "checker"}
Never == -1      \* NEVER: no deadline

ASSUME SequencerAssumption ==
    /\ PickOf \in [Versions -> Codes] /\ HoldOf \in [Versions -> Codes]
    /\ OnTimes \subseteq Nat \ {0}
    /\ TickPeriod \in Nat \ {0} /\ CheckerPeriod \in Nat \ {0}
    /\ CheckerLate \in Nat /\ WriteMax \in Nat
    /\ AlarmSlack \in Nat /\ TaskLate \in Nat
    /\ SupervisorGrace \in Nat \ {0} /\ CheckerGrace \in Nat \ {0}
    /\ PickLimit \in Nat \ {0} /\ DecayStuck \in Nat \ {0} /\ DecayMax \in Nat \ {0}
    /\ DecayLowTicks \in Nat \ {0} /\ TickStall \in Nat \ {0}
    /\ StreakReset \in Nat /\ TripStreakStop \in Nat \ {0}
    /\ Faults \subseteq FaultKinds /\ Inputs \subseteq InputKinds
    /\ TestCallers \subseteq Callers

\* GunSequencer.cpp compares the stall time (3 ms) with a 50 us tick.
ASSUME TimingAssumption == TickPeriod < TickStall

VARIABLES
    phase, arming, holdOk, decaying, nearZeroSeen, lowTicks, tripStreak,
                \* GunRt, one function over Guns each
    left,       \* closeAtUs - now of an open gun (0 when Idle)
    fireAge, decayAge, nearZeroAge, tripAge,
                \* now - fireUs, decayStartUs, nearZeroAtUs, lastTripUs
    in1, mux, peakIrq,              \* outputs, and the peak interrupt enable
    alarm,      \* time left on the close alarm, or Never
    tickOn,     \* the supervisor timer is running
    tickAge,    \* its counter
    ticked,     \* s_tickCount moved since the checker last looked
    seenAge,    \* now - s_ticksSeenUs
    checkAge,   \* time since the checker was last due
    lock,       \* "free", or who walks the guns: "sup", "supDecay", "chk"
    cursor,     \* the gun that walk is at
    closed,     \* the walk closed a gun: it re-arms the alarm at its end
    active, fault, calibrating, testMode,   \* cfg::g_sys and s_testMode
    cfgv,       \* version of the configuration behind cPick, cHold
    firing      \* [Callers -> ...]  fire() in progress

gunVars  == <<phase, arming, holdOk, decaying, nearZeroSeen, lowTicks, left,
              fireAge, decayAge, nearZeroAge>>
tripVars == <<tripStreak, tripAge>>
pinVars  == <<in1, mux, peakIrq>>
tickVars == <<tickOn, tickAge, ticked, seenAge, checkAge>>
walkVars == <<lock, cursor, closed>>
sysVars  == <<active, fault, calibrating, testMode>>
seqVars  == <<gunVars, tripVars, pinVars, alarm, tickVars, walkVars, sysVars,
              cfgv, firing>>
vars     == <<dacVars, seqVars>>

NotFiring == [at |-> "no", gun |-> 1, pick |-> SafeCode, on |-> 0, ok |-> FALSE]

GunTypeOK ==
    /\ phase \in [Guns -> {"Idle", "Peak", "Hold"}]
    /\ arming \in [Guns -> BOOLEAN] /\ holdOk \in [Guns -> BOOLEAN]
    /\ decaying \in [Guns -> BOOLEAN] /\ nearZeroSeen \in [Guns -> BOOLEAN]
    /\ lowTicks \in [Guns -> Nat] /\ left \in [Guns -> Int]
    /\ fireAge \in [Guns -> Nat] /\ decayAge \in [Guns -> Nat]
    /\ nearZeroAge \in [Guns -> Nat]

TripTypeOK == tripStreak \in [Guns -> Nat] /\ tripAge \in [Guns -> Nat]

PinTypeOK ==
    /\ in1 \in [Guns -> BOOLEAN] /\ mux \in [Guns -> BOOLEAN]
    /\ peakIrq \in [Guns -> BOOLEAN]

TimerTypeOK ==
    /\ alarm \in Nat \cup {Never}
    /\ tickOn \in BOOLEAN /\ tickAge \in Nat /\ ticked \in BOOLEAN
    /\ seenAge \in Nat /\ checkAge \in Nat
    /\ lock \in {"free", "sup", "supDecay", "chk"}
    /\ cursor \in 1 .. NumGuns + 1 /\ closed \in BOOLEAN

SysTypeOK ==
    /\ active \in BOOLEAN /\ fault \in BOOLEAN
    /\ calibrating \in BOOLEAN /\ testMode \in BOOLEAN
    /\ cfgv \in Versions

FiringTypeOK ==
    firing \in [Callers -> [at : {"no", "check", "write", "open"}, gun : Guns,
                            pick : Codes, on : Nat, ok : BOOLEAN]]

TypeOK == /\ DacTypeOK /\ GunTypeOK /\ TripTypeOK /\ PinTypeOK
          /\ TimerTypeOK /\ SysTypeOK /\ FiringTypeOK

\* seq::init(): onConfigApplied(), timers and checker started, nothing armed.
Init ==
    /\ cfgv \in Versions
    /\ DacInitWith([g \in Guns |-> PickOf[cfgv]])
    /\ phase = [g \in Guns |-> "Idle"]
    /\ arming = [g \in Guns |-> FALSE] /\ holdOk = [g \in Guns |-> FALSE]
    /\ decaying = [g \in Guns |-> FALSE] /\ nearZeroSeen = [g \in Guns |-> FALSE]
    /\ lowTicks = [g \in Guns |-> 0] /\ tripStreak = [g \in Guns |-> 0]
    /\ left = [g \in Guns |-> 0] /\ fireAge = [g \in Guns |-> 0]
    /\ decayAge = [g \in Guns |-> 0] /\ nearZeroAge = [g \in Guns |-> 0]
    /\ tripAge = [g \in Guns |-> 0]
    /\ in1 = [g \in Guns |-> FALSE] /\ mux = [g \in Guns |-> FALSE]
    /\ peakIrq = [g \in Guns |-> FALSE]
    /\ alarm = Never
    /\ tickOn = TRUE /\ tickAge = 0 /\ ticked = FALSE /\ seenAge = 0 /\ checkAge = 0
    /\ lock = "free" /\ cursor = 1 /\ closed = FALSE
    /\ active = FALSE /\ fault = FALSE /\ calibrating = FALSE /\ testMode = FALSE
    /\ firing = [f \in Callers |-> NotFiring]

----------------------------------------------------------------------------
(* Shared by the actions.                                                  *)
Open(g)   == phase[g] # "Idle"
NonNeg(n) == IF n < 0 THEN 0 ELSE n
Hold      == HoldOf[cfgv]
NearZero  == SafeCode       \* 0.10 V is also the power-on code

SystemArmed == active /\ ~fault
TestArmed   == testMode /\ ~active /\ ~calibrating /\ ~fault
MayFire(f)  == IF f \in TestCallers THEN TestArmed ELSE SystemArmed

RearmAlarm_Latest(ph, lf, late) ==
    IF \A g \in Guns : ph[g] = "Idle"
      THEN alarm' = Never
      ELSE \E g \in Guns :
              /\ ph[g] # "Idle"
              /\ \A h \in Guns : ph[h] # "Idle" => lf[g] >= lf[h]
              /\ alarm' = NonNeg(lf[g] + late)

\* rearmCloseAlarmLocked(): the earliest end of the guns open in ph, counted
\* from a reading of the clock that is late units old.
RearmAlarm(ph, lf, late) ==
    IF \A g \in Guns : ph[g] = "Idle"
      THEN alarm' = Never
      ELSE \E g \in Guns :
              /\ ph[g] # "Idle"
              /\ \A h \in Guns : ph[h] # "Idle" => lf[g] <= lf[h]
              /\ alarm' = NonNeg(lf[g] + late)

PinsOff_KeepsIn1(C) ==
    /\ peakIrq' = [g \in Guns |-> g \notin C /\ peakIrq[g]]
    /\ UNCHANGED in1
PinsOff_KeepsPeakIrq(C) ==
    /\ in1' = [g \in Guns |-> g \notin C /\ in1[g]]
    /\ UNCHANGED peakIrq

\* IN1 low and the peak interrupt off on every gun of C, open or not.
PinsOff(C) ==
    /\ in1'     = [g \in Guns |-> g \notin C /\ in1[g]]
    /\ peakIrq' = [g \in Guns |-> g \notin C /\ peakIrq[g]]

\* closeLocked() on every gun of C: IN1 low and arming cancelled in any case;
\* an open gun becomes Idle and its decay starts.  Shut is the part that the
\* machine stop shares; the clock was read late units ago.
Shut(C, late) ==
    /\ phase'    = [g \in Guns |-> IF g \in C THEN "Idle" ELSE phase[g]]
    /\ arming'   = [g \in Guns |-> g \notin C /\ arming[g]]
    /\ PinsOff(C)
    /\ left'     = [g \in Guns |-> IF g \in C THEN 0 ELSE left[g]]
    /\ nearZeroSeen' = [g \in Guns |-> ~(g \in C /\ Open(g)) /\ nearZeroSeen[g]]
    /\ decayAge' = [g \in Guns |-> IF g \in C /\ Open(g) THEN late ELSE decayAge[g]]
    /\ UNCHANGED <<holdOk, fireAge, nearZeroAge>>

LowTicksShut(C, low) == [g \in Guns |-> IF g \in C /\ Open(g) THEN 0 ELSE low[g]]
TargetsShut(C, sh) == [g \in Guns |-> IF g \in C /\ Open(g) THEN NearZero ELSE sh[g]]

KickIf_Never(b) == UNCHANGED kicked
KickIf(b) == kicked' = (kicked \/ (b /\ dacPc # "absent"))

CloseLocked(C, late) ==
    /\ Shut(C, late)
    /\ decaying' = [g \in Guns |-> (g \in C /\ Open(g)) \/ decaying[g]]
    /\ lowTicks' = LowTicksShut(C, lowTicks)
    /\ shadow'   = TargetsShut(C, shadow)
    /\ KickIf(\E g \in C : Open(g))
    /\ UNCHANGED mux

Coast_DecayGoesOn ==
    /\ mux'      = [g \in Guns |-> FALSE]
    /\ decaying' = [g \in Guns |-> Open(g) \/ decaying[g]]

\* killAll() and no decay: the coils coast.
Coast ==
    /\ mux'      = [g \in Guns |-> FALSE]
    /\ decaying' = [g \in Guns |-> FALSE]

\* stopAllLocked(): the machine stop, from the targets sh and tick counts low
\* left by what came before it in the same critical section, which may already
\* owe a kick.
StopAllLocked(sh, low, owed) ==
    /\ active' = FALSE
    /\ testMode' = FALSE
    /\ Shut(Guns, 0)
    /\ Coast
    /\ lowTicks' = LowTicksShut(Guns, low)
    /\ shadow'   = TargetsShut(Guns, sh)
    /\ KickIf(owed \/ \E g \in Guns : Open(g))
    /\ alarm'    = Never

\* tripLocked(): count the trip; the third in a row stops the machine.  The
\* counters and event texts of noteLocked() are left out.
StreakAfter(g) == (IF tripAge[g] > StreakReset THEN 0 ELSE tripStreak[g]) + 1

StreakCounted(g) ==
    /\ tripStreak' = [tripStreak EXCEPT ![g] =
                         IF StreakAfter(g) > TripStreakStop THEN TripStreakStop
                                                            ELSE StreakAfter(g)]
    /\ tripAge' = [tripAge EXCEPT ![g] = 0]

StopsMachine_OneLate(g) == StreakAfter(g) > TripStreakStop /\ (active \/ testMode)
StopsMachine(g) == StreakAfter(g) >= TripStreakStop /\ (active \/ testMode)

\* A walk closes the late or unconfirmed gun g and trips it ...
CloseAndTrip(g) ==
    /\ StreakCounted(g)
    /\ IF StopsMachine(g)
         THEN StopAllLocked(shadow, lowTicks, FALSE)
         ELSE CloseLocked({g}, 0) /\ UNCHANGED <<active, testMode, alarm>>
    /\ UNCHANGED <<fault, calibrating>>

In1Low_NotDone(g) == UNCHANGED in1
In1Low(g) == in1' = [in1 EXCEPT ![g] = FALSE]

\* ... or forces low the IN1 pin of the idle gun g and trips it.
StrayAndTrip(g) ==
    /\ StreakCounted(g)
    /\ IF StopsMachine(g)
         THEN StopAllLocked(shadow, lowTicks, FALSE)
         ELSE /\ In1Low(g)
              /\ UNCHANGED <<gunVars, mux, peakIrq, active, testMode, alarm,
                             shadow, kicked>>
    /\ UNCHANGED <<fault, calibrating>>

dacBusVars == <<written, chip, chipReady, bus, dacPc, dacTries, call>>

----------------------------------------------------------------------------
(* fire(): two critical sections with the DAC check between them.          *)
FireBegin(f, g, on) ==
    /\ firing[f].at = "no"
    /\ MayFire(f)
    /\ lock = "free"
    /\ ~Open(g) /\ ~arming[g]
    /\ arming' = [arming EXCEPT ![g] = TRUE]
    /\ firing' = [firing EXCEPT ![f] = [at |-> "check", gun |-> g, pick |-> PickOf[cfgv],
                                       on |-> on, ok |-> FALSE]]
    /\ UNCHANGED <<dacVars, phase, holdOk, decaying, nearZeroSeen, lowTicks, left, fireAge,
                   decayAge, nearZeroAge, tripVars, pinVars, alarm, tickVars,
                   walkVars, sysVars, cfgv>>

\* isApplied(g, pick), else blockingSetCode(g, pick).
FireCheck(f) ==
    LET g == firing[f].gun IN
    /\ firing[f].at = "check"
    /\ IF IsApplied(g, firing[f].pick)
         THEN /\ firing' = [firing EXCEPT ![f].at = "open", ![f].ok = TRUE]
              /\ UNCHANGED <<shadow, call>>
         ELSE /\ firing' = [firing EXCEPT ![f].at = "write"]
              /\ BlockingBegin(f, g, firing[f].pick)
    /\ UNCHANGED <<written, chip, chipReady, bus, kicked, dacPc, dacTries, gunVars,
                   tripVars, pinVars, alarm, tickVars, walkVars, sysVars, cfgv>>

FireWritten(f) ==
    /\ firing[f].at = "write"
    /\ BlockingEnds(f)
    /\ firing' = [firing EXCEPT ![f].at = "open",
                     ![f].ok = IsApplied(firing[f].gun, firing[f].pick)]
    /\ call' = [call EXCEPT ![f] = NoCall]
    /\ UNCHANGED <<shadow, written, chip, chipReady, bus, kicked, dacPc, dacTries,
                   gunVars, tripVars, pinVars, alarm, tickVars, walkVars, sysVars, cfgv>>

StillWanted(f) == arming[firing[f].gun] /\ firing[f].ok /\ MayFire(f)

\* The close is armed before IN1 goes high, in one critical section.
FireOpen(f) ==
    LET g == firing[f].gun IN
    /\ firing[f].at = "open"
    /\ lock = "free"
    /\ StillWanted(f)
    /\ arming'   = [arming EXCEPT ![g] = FALSE]
    /\ fireAge'  = [fireAge EXCEPT ![g] = 0]
    /\ left'     = [left EXCEPT ![g] = firing[f].on]
    /\ holdOk'   = [holdOk EXCEPT ![g] = FALSE]
    /\ decaying' = [decaying EXCEPT ![g] = FALSE]
    /\ phase'    = [phase EXCEPT ![g] = "Peak"]
    /\ RearmAlarm(phase', left', 0)
    /\ mux'      = [mux EXCEPT ![g] = TRUE]
    /\ peakIrq'  = [peakIrq EXCEPT ![g] = TRUE]
    /\ in1'      = [in1 EXCEPT ![g] = TRUE]
    /\ firing'   = [firing EXCEPT ![f] = NotFiring]
    /\ UNCHANGED <<dacVars, nearZeroSeen, lowTicks, decayAge, nearZeroAge,
                   tripVars, tickVars, walkVars, sysVars, cfgv>>

FireRefused(f) ==
    /\ firing[f].at = "open"
    /\ lock = "free"
    /\ ~StillWanted(f)
    /\ arming' = [arming EXCEPT ![firing[f].gun] = FALSE]
    /\ firing' = [firing EXCEPT ![f] = NotFiring]
    /\ UNCHANGED <<dacVars, phase, holdOk, decaying, nearZeroSeen, lowTicks, left, fireAge,
                   decayAge, nearZeroAge, tripVars, pinVars, alarm, tickVars,
                   walkVars, sysVars, cfgv>>

----------------------------------------------------------------------------
(* Interrupts with one critical section.                                   *)

\* peakIsr(): the comparator trips at pick while the interrupt is enabled.
PeakIsr(g) ==
    /\ peakIrq[g]
    /\ lock = "free"
    /\ peakIrq' = [peakIrq EXCEPT ![g] = FALSE]
    /\ IF phase[g] = "Peak"
         THEN /\ phase'  = [phase EXCEPT ![g] = "Hold"]
              /\ shadow' = [shadow EXCEPT ![g] = Hold]
              /\ KickIf(TRUE)
         ELSE UNCHANGED <<phase, shadow, kicked>>
    /\ UNCHANGED <<dacBusVars, arming, holdOk, decaying, nearZeroSeen, lowTicks, left,
                   fireAge, decayAge, nearZeroAge, tripVars, in1, mux, alarm,
                   tickVars, walkVars, sysVars, cfgv, firing>>

\* onCloseAlarm(): close every gun at its end, arm for the next one.
Due == {g \in Guns : Open(g) /\ left[g] <= AlarmSlack}

OnCloseAlarm ==
    /\ alarm # Never
    /\ alarm <= AlarmSlack
    /\ lock = "free"
    /\ CloseLocked(Due, 0)
    /\ RearmAlarm(phase', left', 0)
    /\ UNCHANGED <<dacBusVars, tripVars, tickVars, walkVars, sysVars, cfgv, firing>>

----------------------------------------------------------------------------
(* onSupervisorTick() -> superviseLocked(): one step per gun.              *)
SupBegin ==
    /\ tickOn
    /\ tickAge >= TickPeriod
    /\ lock = "free"
    /\ lock' = "sup" /\ cursor' = 1 /\ closed' = FALSE
    /\ tickAge' = 0 /\ ticked' = TRUE
    /\ UNCHANGED <<dacVars, gunVars, tripVars, pinVars, alarm, tickOn, seenAge, checkAge,
                   sysVars, cfgv, firing>>

SupAt(g)   == lock = "sup" /\ cursor = g

OverdueBy(g, grace) == -left[g] >= grace

SupOverdue_OffByOne(g) == OverdueBy(g, SupervisorGrace + 1)
SupOverdue(g) == OverdueBy(g, SupervisorGrace)
SupLate(g)    == SupAt(g) /\ Open(g) /\ SupOverdue(g)
SupOpen(g)    == SupAt(g) /\ Open(g) /\ ~SupOverdue(g)

PickOverdue_OffByOne(g) == fireAge[g] > PickLimit
PickOverdue(g) == fireAge[g] >= PickLimit

HoldConfirmed(g) == phase[g] = "Hold" /\ IsApplied(g, Hold)

\* Leave gun g for the next one.
WalkOn(g, who) == cursor' = g + 1 /\ lock' = who

SupCloseLate(g) ==
    /\ SupLate(g)
    /\ CloseAndTrip(g)
    /\ closed' = TRUE
    /\ WalkOn(g, "sup")
    /\ UNCHANGED <<dacBusVars, tickVars, cfgv, firing>>

SupHoldOk(g) ==
    /\ SupOpen(g) /\ ~holdOk[g]
    /\ HoldConfirmed(g)
    /\ holdOk' = [holdOk EXCEPT ![g] = TRUE]
    /\ tripStreak' = [tripStreak EXCEPT ![g] = 0]
    /\ WalkOn(g, "sup")
    /\ UNCHANGED <<dacVars, phase, arming, decaying, nearZeroSeen, lowTicks, left, fireAge,
                   decayAge, nearZeroAge, tripAge, pinVars, alarm, tickVars, closed,
                   sysVars, cfgv, firing>>

SupPickTimeout(g) ==
    /\ SupOpen(g) /\ ~holdOk[g]
    /\ ~HoldConfirmed(g)
    /\ PickOverdue(g)
    /\ CloseAndTrip(g)
    /\ closed' = TRUE
    /\ WalkOn(g, "sup")
    /\ UNCHANGED <<dacBusVars, tickVars, cfgv, firing>>

SupLeaveOpen(g) ==
    /\ SupOpen(g)
    /\ holdOk[g] \/ (~HoldConfirmed(g) /\ ~PickOverdue(g))
    /\ WalkOn(g, "sup")
    /\ UNCHANGED <<dacVars, gunVars, tripVars, pinVars, alarm, tickVars, closed,
                   sysVars, cfgv, firing>>

\* An idle gun: first the IN1 readback, then its decay.
SupStray(g) ==
    /\ SupAt(g) /\ ~Open(g) /\ in1[g]
    /\ StrayAndTrip(g)
    /\ lock' = "supDecay"
    /\ UNCHANGED <<dacBusVars, tickVars, cursor, closed, cfgv, firing>>

SupIdle(g) ==
    /\ cursor = g /\ ~Open(g)
    /\ lock = "supDecay" \/ (lock = "sup" /\ ~in1[g])

SupNoDecay(g) ==
    /\ SupIdle(g) /\ ~decaying[g]
    /\ WalkOn(g, "sup")
    /\ UNCHANGED <<dacVars, gunVars, tripVars, pinVars, alarm, tickVars, closed,
                   sysVars, cfgv, firing>>

\* superviseDecayLocked().  The near-zero threshold is on the DAC from
\* nearZeroAtUs on; the comparator is an input.
SeenAge(g) == IF nearZeroSeen[g] THEN nearZeroAge[g] ELSE 0
NearZeroStamp(g) ==
    IF IsApplied(g, NearZero)
      THEN /\ nearZeroSeen' = [nearZeroSeen EXCEPT ![g] = TRUE]
           /\ nearZeroAge'  = [nearZeroAge EXCEPT ![g] = SeenAge(g)]
      ELSE UNCHANGED <<nearZeroSeen, nearZeroAge>>

DecayOver_MuxStaysHigh(g) == decaying' = [decaying EXCEPT ![g] = FALSE] /\ UNCHANGED mux
DecayOver(g) ==
    /\ mux'      = [mux EXCEPT ![g] = FALSE]
    /\ decaying' = [decaying EXCEPT ![g] = FALSE]

\* endDecayLocked(): IN2 back under ESP32 control, pick onto the DAC.
EndDecay(g) ==
    /\ DecayOver(g)
    /\ shadow'   = [shadow EXCEPT ![g] = PickOf[cfgv]]
    /\ KickIf(TRUE)

\* No current: after DecayLowTicks such ticks in a row the decay ends.
SupDecayLow(g) ==
    /\ SupIdle(g) /\ decaying[g]
    /\ IsApplied(g, NearZero)
    /\ NearZeroStamp(g)
    /\ lowTicks' = [lowTicks EXCEPT ![g] = @ + 1]
    /\ IF lowTicks[g] + 1 >= DecayLowTicks
         THEN EndDecay(g)
         ELSE UNCHANGED <<mux, decaying, shadow, kicked>>
    /\ WalkOn(g, "sup")
    /\ UNCHANGED <<dacBusVars, phase, arming, holdOk, left, fireAge, decayAge,
                   tripVars, in1, peakIrq, alarm, tickVars, closed, sysVars, cfgv, firing>>

Stuck(g) == IsApplied(g, NearZero) /\ SeenAge(g) >= DecayStuck

DecayOverdue_OffByOne(g) == decayAge[g] > DecayMax
DecayOverdue(g) == decayAge[g] >= DecayMax

\* Current still there, or the threshold not confirmed: within the limits wait.
SupDecayHigh(g) ==
    /\ SupIdle(g) /\ decaying[g]
    /\ ~Stuck(g)
    /\ NearZeroStamp(g)
    /\ lowTicks' = [lowTicks EXCEPT ![g] = 0]
    /\ IF DecayOverdue(g)
         THEN EndDecay(g)
         ELSE UNCHANGED <<mux, decaying, shadow, kicked>>
    /\ WalkOn(g, "sup")
    /\ UNCHANGED <<dacBusVars, phase, arming, holdOk, left, fireAge, decayAge,
                   tripVars, in1, peakIrq, alarm, tickVars, closed, sysVars, cfgv, firing>>

\* Near-zero confirmed and the current still up: end the decay and trip.
SupDecayTimeout(g) ==
    /\ SupIdle(g) /\ decaying[g]
    /\ Stuck(g)
    /\ StreakCounted(g)
    /\ IF StopsMachine(g)
         THEN StopAllLocked([shadow EXCEPT ![g] = PickOf[cfgv]],
                            [lowTicks EXCEPT ![g] = 0], TRUE)
         ELSE /\ EndDecay(g)
              /\ lowTicks' = [lowTicks EXCEPT ![g] = 0]
              /\ UNCHANGED <<phase, arming, holdOk, nearZeroSeen, left, fireAge,
                             decayAge, nearZeroAge, in1, peakIrq, active, testMode, alarm>>
    /\ WalkOn(g, "sup")
    /\ UNCHANGED <<dacBusVars, tickVars, closed, fault, calibrating, cfgv, firing>>

WalkEnds ==
    /\ lock' = "free" /\ cursor' = 1 /\ closed' = FALSE
    /\ IF closed THEN RearmAlarm(phase, left, 0) ELSE UNCHANGED alarm

SupEnd ==
    /\ lock = "sup" /\ cursor > NumGuns
    /\ WalkEnds
    /\ UNCHANGED <<dacVars, gunVars, tripVars, pinVars, tickVars, sysVars, cfgv, firing>>

----------------------------------------------------------------------------
(* checkerCb() on Core 0.  Late callbacks run back to back.                *)
ChkBegin ==
    /\ "checker" \in Inputs
    /\ checkAge >= CheckerPeriod
    /\ lock = "free"
    /\ checkAge' = checkAge - CheckerPeriod
    /\ lock' = "chk" /\ cursor' = 1 /\ closed' = FALSE
    /\ UNCHANGED <<dacVars, gunVars, tripVars, pinVars, alarm, tickOn, tickAge, ticked,
                   seenAge, sysVars, cfgv, firing>>

ChkAt(g) == lock = "chk" /\ cursor = g

ChkOverdue_OffByOne(g) == OverdueBy(g, CheckerGrace + 1)
ChkOverdue(g) == OverdueBy(g, CheckerGrace)

ChkCloseLate(g) ==
    /\ ChkAt(g) /\ Open(g) /\ ChkOverdue(g)
    /\ CloseAndTrip(g)
    /\ closed' = TRUE
    /\ WalkOn(g, "chk")
    /\ UNCHANGED <<dacBusVars, tickVars, cfgv, firing>>

ChkStray(g) ==
    /\ ChkAt(g) /\ ~Open(g) /\ in1[g]
    /\ StrayAndTrip(g)
    /\ WalkOn(g, "chk")
    /\ UNCHANGED <<dacBusVars, tickVars, closed, cfgv, firing>>

ChkFine(g) ==
    /\ ChkAt(g)
    /\ IF Open(g) THEN ~ChkOverdue(g) ELSE ~in1[g]
    /\ WalkOn(g, "chk")
    /\ UNCHANGED <<dacVars, gunVars, tripVars, pinVars, alarm, tickVars, closed,
                   sysVars, cfgv, firing>>

\* The supervisor tick must keep counting; restart it if it stopped.
TickStalled_CountsRuns == ~ticked
TickStalled == ~ticked /\ seenAge >= TickStall

ChkTick ==
    IF ticked
      THEN ticked' = FALSE /\ seenAge' = 0 /\ UNCHANGED <<tickOn, tickAge>>
      ELSE IF TickStalled
        THEN seenAge' = 0 /\ tickOn' = TRUE /\ tickAge' = 0 /\ UNCHANGED ticked
        ELSE UNCHANGED <<ticked, seenAge, tickOn, tickAge>>

ChkEnd ==
    /\ lock = "chk" /\ cursor > NumGuns
    /\ WalkEnds
    /\ ChkTick
    /\ UNCHANGED <<dacVars, gunVars, tripVars, pinVars, checkAge, sysVars, cfgv, firing>>

----------------------------------------------------------------------------
(* The rest of the firmware.                                               *)

\* abort(g), abortAll() and closeIfDrop() on the drop that is open.  They read
\* the clock before they take the lock.
Abort(C) ==
    /\ "abort" \in Inputs
    /\ lock = "free"
    /\ \E late \in 0 .. TaskLate :
          CloseLocked(C, late) /\ RearmAlarm(phase', left', late)
    /\ UNCHANGED <<dacBusVars, tripVars, tickVars, walkVars, sysVars, cfgv, firing>>

\* drv::killAll() without the lock: Fault.cpp, Watchdog.cpp, Control.cpp.
KillAll ==
    /\ "killAll" \in Inputs
    /\ in1' = [g \in Guns |-> FALSE]
    /\ mux' = [g \in Guns |-> FALSE]
    /\ UNCHANGED <<dacVars, gunVars, tripVars, peakIrq, alarm, tickVars, walkVars, sysVars,
                   cfgv, firing>>

\* onConfigApplied(): new codes; idle guns get the new pick threshold now.
OnConfigApplied(v) ==
    /\ "config" \in Inputs
    /\ lock = "free"
    /\ cfgv' = v
    /\ shadow' = [g \in Guns |-> IF Open(g) \/ arming[g] \/ decaying[g]
                                   THEN shadow[g] ELSE PickOf[v]]
    /\ KickIf(TRUE)
    /\ UNCHANGED <<dacBusVars, gunVars, tripVars, pinVars, alarm, tickVars, walkVars, sysVars,
                   firing>>

\* onActivate(): the streaks start anew before active is set.
OnActivate ==
    /\ "active" \in Inputs
    /\ ~active
    /\ lock = "free"
    /\ tripStreak' = [g \in Guns |-> 0]
    /\ UNCHANGED <<dacVars, gunVars, tripAge, pinVars, alarm, tickVars, walkVars, sysVars,
                   cfgv, firing>>

\* The flags other tasks and interrupts store, without the lock.
FlagStore ==
    /\ \/ "active" \in Inputs /\ active' = ~active
          /\ UNCHANGED <<fault, calibrating, testMode>>
       \/ "fault" \in Inputs /\ fault' = ~fault
          /\ UNCHANGED <<active, calibrating, testMode>>
       \/ "calibrating" \in Inputs /\ calibrating' = ~calibrating
          /\ UNCHANGED <<active, fault, testMode>>
       \/ "testMode" \in Inputs /\ testMode' = ~testMode
          /\ UNCHANGED <<active, fault, calibrating>>
    /\ UNCHANGED <<dacVars, gunVars, tripVars, pinVars, alarm, tickVars, walkVars, cfgv,
                   firing>>

----------------------------------------------------------------------------
(* Hardware faults, and time.                                              *)
AlarmMissed ==
    /\ "alarmMissed" \in Faults
    /\ alarm # Never /\ alarm = 0
    /\ alarm' = Never
    /\ UNCHANGED <<dacVars, gunVars, tripVars, pinVars, tickVars, walkVars, sysVars, cfgv,
                   firing>>

TickStops ==
    /\ "tickStall" \in Faults
    /\ tickOn' = FALSE
    /\ UNCHANGED <<dacVars, gunVars, tripVars, pinVars, alarm, tickAge, ticked, seenAge,
                   checkAge, walkVars, sysVars, cfgv, firing>>

In1Glitch(g) ==
    /\ "in1Glitch" \in Faults
    /\ in1' = [in1 EXCEPT ![g] = TRUE]
    /\ UNCHANGED <<dacVars, gunVars, tripVars, mux, peakIrq, alarm, tickVars, walkVars,
                   sysVars, cfgv, firing>>

\* No interrupt is overdue and no critical section is being walked.
MayPass ==
    /\ lock = "free"
    /\ alarm # Never => alarm > 0
    /\ tickOn => tickAge < TickPeriod
    /\ "checker" \in Inputs => checkAge < CheckerPeriod + CheckerLate
    /\ bus.owner # "nobody" => bus.age < WriteMax

\* An age runs while it is read and saturates past the limits it is read for.
Older(age, runs, cap, g) ==
    IF ~runs THEN 0 ELSE IF age[g] < cap THEN age[g] + 1 ELSE age[g]

FireCap  == PickLimit + TickPeriod
DecayCap == DecayMax + DecayLowTicks * TickPeriod

Pass ==
    /\ MayPass
    /\ left'        = [g \in Guns |-> IF Open(g) THEN left[g] - 1 ELSE 0]
    /\ fireAge'     = [g \in Guns |-> Older(fireAge, Open(g), FireCap, g)]
    /\ decayAge'    = [g \in Guns |-> Older(decayAge, decaying[g], DecayCap, g)]
    /\ nearZeroAge' = [g \in Guns |-> Older(nearZeroAge, decaying[g] /\ nearZeroSeen[g],
                                             DecayStuck, g)]
    /\ tripAge'     = [g \in Guns |-> Older(tripAge, TRUE, StreakReset + 1, g)]
    /\ alarm' = IF alarm = Never THEN Never ELSE alarm - 1
    /\ tickAge' = tickAge + 1
    /\ IF "checker" \in Inputs
         THEN seenAge' = seenAge + 1 /\ checkAge' = checkAge + 1
         ELSE UNCHANGED <<seenAge, checkAge>>
    /\ bus' = IF bus.owner = "nobody" THEN bus ELSE [bus EXCEPT !.age = @ + 1]
    /\ UNCHANGED <<shadow, written, chip, chipReady, kicked, dacPc, dacTries, call,
                   phase, arming, holdOk, decaying, nearZeroSeen, lowTicks, tripStreak,
                   pinVars, tickOn, ticked, walkVars, sysVars, cfgv, firing>>

Dacs == DacStep /\ UNCHANGED seqVars

Fire ==
    \E f \in Callers :
        \/ \E g \in Guns, on \in OnTimes : FireBegin(f, g, on)
        \/ FireCheck(f) \/ FireWritten(f) \/ FireOpen(f) \/ FireRefused(f)

Supervise ==
    \/ SupBegin \/ SupEnd
    \/ \E g \in Guns :
          \/ SupCloseLate(g) \/ SupHoldOk(g) \/ SupPickTimeout(g) \/ SupLeaveOpen(g)
          \/ SupStray(g) \/ SupNoDecay(g)
          \/ SupDecayLow(g) \/ SupDecayHigh(g) \/ SupDecayTimeout(g)

Check ==
    \/ ChkBegin \/ ChkEnd
    \/ \E g \in Guns : ChkCloseLate(g) \/ ChkStray(g) \/ ChkFine(g)

Firmware ==
    \/ \E g \in Guns : Abort({g})
    \/ Abort(Guns)
    \/ KillAll
    \/ \E v \in Versions : OnConfigApplied(v)
    \/ OnActivate
    \/ FlagStore

Hardware ==
    \/ \E g \in Guns : PeakIsr(g) \/ In1Glitch(g)
    \/ AlarmMissed
    \/ TickStops
    \/ Pass

Next == Fire \/ OnCloseAlarm \/ Supervise \/ Check \/ Dacs \/ Firmware \/ Hardware

Spec == Init /\ [][Next]_vars

\* Time goes on, and the interrupts and esp_timer callbacks are run.  Nothing
\* is assumed of the tasks that fire, nor of the rest of the firmware.
FairSpec ==
    /\ Spec
    /\ SF_vars(Pass)
    /\ WF_vars(Supervise) /\ WF_vars(Check) /\ WF_vars(OnCloseAlarm) /\ WF_vars(Dacs)

----------------------------------------------------------------------------
(* Safety properties.                                                      *)

\* With no glitch on the pin, IN1 is high only on a gun whose drop is open:
\* no interleaving of fire(), the closers and the unlocked killAll() leaves an
\* output driven that nothing is going to close.
In1OnlyWhileOpen ==
    "in1Glitch" \notin Faults => \A g \in Guns : in1[g] => Open(g)

\* The close alarm is set no later than the earliest end of an open drop, also
\* halfway through a walk that closes guns (unless the hardware may lose it);
\* later only by the time a task was off the CPU in abort().
AlarmCoversOpenGuns ==
    "alarmMissed" \notin Faults =>
        \A g \in Guns : Open(g) => alarm # Never /\ alarm <= NonNeg(left[g] + TaskLate)

\* A drop whose close alarm is lost closes one tick after the grace while the
\* supervisor runs, and in any case when a (late) checker run finds it after
\* the checker's own, longer grace.
ClosedInTime ==
    \A g \in Guns : Open(g) =>
        /\ "tickStall" \notin Faults => -left[g] < SupervisorGrace + TickPeriod
        /\ "checker" \in Inputs =>
              -left[g] < CheckerGrace + CheckerPeriod + CheckerLate

\* A drop whose peak has not tripped, or whose hold threshold is not confirmed,
\* is cut within one tick of the pick limit: no coil stays on the pick current.
PickCurrentLimited ==
    "tickStall" \notin Faults =>
        \A g \in Guns : (phase[g] = "Peak" \/ (phase[g] = "Hold" /\ ~holdOk[g]))
                           => fireAge[g] < PickLimit + TickPeriod

\* Reverse drive after a close ends within the decay limit plus the ticks that
\* a comparator reading low just before it can add.
DecayLimited ==
    "tickStall" \notin Faults =>
        \A g \in Guns : decaying[g] => decayAge[g] < DecayMax + DecayLowTicks * TickPeriod

\* Between drops IN2 is under ESP32 control, and the LM339 gets it back only
\* with a drop or its decay, which exclude each other.
RestingGunIsIsolated ==
    \A g \in Guns : /\ mux[g] => Open(g) \/ decaying[g]
                    /\ ~(Open(g) /\ decaying[g])

\* The peak interrupt is armed only while a drop is in Peak.
PeakIrqOnlyInPeak == \A g \in Guns : peakIrq[g] => phase[g] = "Peak"

\* No wake-up of the DAC task is lost: while the converter does not output a
\* gun's target, be it pick, hold or near zero, a write of it is on the bus or
\* about to start, by the DAC task or by a fire() that has yet to try.  One task
\* fires: a second one may return early while the first one's code is being sent.
ThresholdOnItsWay ==
    (chipReady /\ ~BusMayFail) => \A g \in Guns :
        \/ chip[g] = shadow[g] \/ g \in bus.mask
        \/ kicked \/ dacPc # "wait"
        \/ \E f \in Callers : call[f].at = "try" /\ call[f].gun = g /\ call[f].tries = 0

----------------------------------------------------------------------------
(* Action properties.                                                      *)

\* GunSequencer.h:10 "pick threshold (must be on the chip before IN1 goes
\* high)": the LM339 output is against a pick threshold when a gun opens.
OpensAgainstPick ==
    [][\A g \in Guns : (~Open(g) /\ phase'[g] = "Peak") =>
            \E v \in Versions : chip[g] = PickOf[v]]_vars

\* When the sequencer stops the machine by itself, the same step leaves every
\* gun closed, undriven and coasting, no fire() in preparation, no alarm.
SequencerStops ==
    lock # "free" /\ (active \/ testMode) /\ ~active' /\ ~testMode'
    /\ tripStreak' # tripStreak

SafetyStopIsComplete ==
    [][SequencerStops =>
         /\ \A g \in Guns : /\ phase'[g] = "Idle" /\ ~arming'[g] /\ ~decaying'[g]
                            /\ ~in1'[g] /\ ~mux'[g] /\ ~peakIrq'[g]
         /\ alarm' = Never]_vars

\* A gun that trips while drops are allowed never reaches TripStreakStop trips
\* in a row without the machine being stopped.
TripStreakStopsMachine ==
    [][\A g \in Guns :
         (tripStreak'[g] >= TripStreakStop /\ tripAge'[g] = 0 /\ lock # "free"
            /\ (tripStreak'[g] # tripStreak[g] \/ tripAge[g] # 0))
         => ~active' /\ ~testMode']_vars

\* The checker takes the tick for stalled only when it is, however late and
\* back to back esp_timer runs the checker.
RestartOnlyIfStalled ==
    [][(tickOn /\ lock = "chk") => tickAge' = tickAge]_vars

\* GunSequencer.h:31-33: the pick limit closes a gun for a "missed peak trip,
\* dead current sense, failed or late DAC write".  A drop whose peak tripped
\* and whose hold threshold of that moment is on the converter is none of these.
\* It does not hold: onConfigApplied() replaces the code that is waited for.
PickTimeoutHasItsCause ==
    [][\A g \in Guns : SupPickTimeout(g) =>
         ~(phase[g] = "Hold" /\ \E v \in Versions : chip[g] = HoldOf[v])]_vars

----------------------------------------------------------------------------
(* Liveness.                                                               *)

\* An IN1 pin found high on an idle gun is forced low, by the supervisor or,
\* with the tick stopped, by the checker, however often it is disturbed.
StrayIn1GoesLow == \A g \in Guns : (in1[g] /\ ~Open(g)) ~> (~in1[g] \/ Open(g))

=============================================================================
