------------------------- MODULE GunSequencerProofs -------------------------
(***************************************************************************)
(* Proofs about the drop sequencer (module GunSequencer), for any number   *)
(* of guns and firing tasks, any on-times and limits, any faults.          *)
(***************************************************************************)
EXTENDS GunSequencer, DacProofs

\* The sequencer's types and the DAC's invariant, which it keeps.
TypeInv == TypeOK /\ DacInv

LEMMA InitTyped == Init => TypeInv
<1> USE DacAssumption, SequencerAssumption DEF DacAssumption, SequencerAssumption
<1> SUFFICES ASSUME Init
             PROVE  TypeInv
  OBVIOUS
<1>1. 1 \in Guns /\ 1 \in 1 .. NumGuns + 1
  BY DEF Guns
<1>2. DacTypeOK
  <2>1. NoCall \in [at : {"none", "try", "done"}, gun : Guns, code : Codes,
                    tries : 0 .. WriteAttempts]
    BY <1>1 DEF NoCall
  <2>2. FreeBus \in [owner : Writers \cup {"nobody"}, mask : SUBSET Guns,
                     sent : SUBSET Guns, age : Nat, snap : [Guns -> Codes]]
    BY DEF FreeBus
  <2>3. kicked \in BOOLEAN
    BY Zenon DEF Init, DacInitWith
  <2>4. QED
    BY <2>1, <2>2, <2>3 DEF Init, DacInitWith, DacTypeOK
<1>3. WriterInv /\ ChipInv
  BY DEF Init, DacInitWith, WriterInv, ChipInv, FreeBus
<1>4. GunTypeOK /\ TripTypeOK /\ PinTypeOK
  BY DEF Init, GunTypeOK, TripTypeOK, PinTypeOK
<1>5. tickOn \in BOOLEAN /\ ticked \in BOOLEAN /\ closed \in BOOLEAN /\ SysTypeOK
  BY Zenon DEF Init, SysTypeOK
<1>6. TimerTypeOK
  BY <1>1, <1>5 DEF Init, TimerTypeOK
<1>7. NotFiring \in [at : {"no", "check", "write", "open"}, gun : Guns,
                     pick : Codes, on : Nat, ok : BOOLEAN]
  BY <1>1 DEF NotFiring
<1>8. FiringTypeOK
  BY <1>7 DEF Init, FiringTypeOK
<1>9. QED
  BY <1>2, <1>3, <1>4, <1>5, <1>6, <1>8 DEF TypeInv, TypeOK, DacInv

LEMMA Records ==
    /\ NotFiring \in [at : {"no", "check", "write", "open"}, gun : Guns,
                      pick : Codes, on : Nat, ok : BOOLEAN]
    /\ NoCall \in [at : {"none", "try", "done"}, gun : Guns, code : Codes,
                   tries : 0 .. WriteAttempts]
BY DacAssumption DEF DacAssumption, NotFiring, NoCall, Guns

LEMMA ThresholdCodes ==
    SysTypeOK => PickOf[cfgv] \in Codes /\ Hold \in Codes /\ NearZero \in Codes
BY DacAssumption, SequencerAssumption
   DEF DacAssumption, SequencerAssumption, SysTypeOK, Hold, NearZero

----------------------------------------------------------------------------
(* The operators that the actions share keep the types.                    *)
LEMMA RearmAlarmTyped ==
    ASSUME NEW ph, NEW lf \in [Guns -> Int], NEW late \in Nat, RearmAlarm(ph, lf, late)
    PROVE  alarm' \in Nat \cup {Never}
BY DEF RearmAlarm, NonNeg

\* A new target and a kick are no concern of the DAC's invariant.
LEMMA RetargetTyped ==
    ASSUME DacInv, shadow' \in [Guns -> Codes], kicked' \in BOOLEAN, UNCHANGED dacBusVars
    PROVE  DacInv'
BY DEF DacInv, DacTypeOK, WriterInv, ChipInv, dacBusVars

LEMMA KickTyped ==
    ASSUME kicked \in BOOLEAN, NEW b, KickIf(b)
    PROVE  kicked' \in BOOLEAN
BY Zenon DEF KickIf

LEMMA ShutTyped ==
    ASSUME GunTypeOK, PinTypeOK, NEW C \in SUBSET Guns, NEW late \in Nat,
           Shut(C, late),
           decaying' \in [Guns -> BOOLEAN], mux' \in [Guns -> BOOLEAN],
           lowTicks' \in [Guns -> Nat]
    PROVE  GunTypeOK' /\ PinTypeOK'
BY DEF Shut, PinsOff, GunTypeOK, PinTypeOK

LEMMA AbortIsLate ==
    ASSUME NEW C, Abort(C)
    PROVE  \E late \in 0 .. TaskLate :
              late \in Nat /\ CloseLocked(C, late) /\ RearmAlarm(phase', left', late)
BY SequencerAssumption DEF SequencerAssumption, Abort

LEMMA CloseLockedTyped ==
    ASSUME TypeInv, NEW C \in SUBSET Guns, NEW late \in Nat, CloseLocked(C, late),
           UNCHANGED dacBusVars
    PROVE  GunTypeOK' /\ PinTypeOK' /\ DacInv'
<1>1. lowTicks' \in [Guns -> Nat] /\ shadow' \in [Guns -> Codes]
  BY ThresholdCodes DEF CloseLocked, LowTicksShut, TargetsShut, TypeInv, TypeOK, GunTypeOK,
     DacTypeOK
<1>2. decaying' \in [Guns -> BOOLEAN] /\ mux' \in [Guns -> BOOLEAN]
  BY DEF CloseLocked, TypeInv, TypeOK, GunTypeOK, PinTypeOK
<1>3. kicked' \in BOOLEAN
  BY KickTyped DEF CloseLocked, TypeInv, TypeOK, DacTypeOK
<1>4. QED
  BY <1>1, <1>2, <1>3, ShutTyped, RetargetTyped DEF CloseLocked, TypeInv, TypeOK

LEMMA StopAllTyped ==
    ASSUME TypeInv, NEW sh \in [Guns -> Codes], NEW low \in [Guns -> Nat], NEW owed,
           StopAllLocked(sh, low, owed), UNCHANGED dacBusVars
    PROVE  /\ GunTypeOK' /\ PinTypeOK' /\ DacInv' /\ alarm' \in Nat \cup {Never}
           /\ active' \in BOOLEAN /\ testMode' \in BOOLEAN
<1>1. lowTicks' \in [Guns -> Nat] /\ shadow' \in [Guns -> Codes]
  BY ThresholdCodes DEF StopAllLocked, LowTicksShut, TargetsShut, TypeInv, TypeOK
<1>2. decaying' \in [Guns -> BOOLEAN] /\ mux' \in [Guns -> BOOLEAN]
  BY DEF StopAllLocked, Coast
<1>3. kicked' \in BOOLEAN
  BY KickTyped DEF StopAllLocked, TypeInv, TypeOK, DacTypeOK
<1>4. active' \in BOOLEAN /\ testMode' \in BOOLEAN
  BY Zenon DEF StopAllLocked
<1>5. QED
  BY <1>1, <1>2, <1>3, <1>4, ShutTyped, RetargetTyped DEF StopAllLocked, TypeInv, TypeOK

LEMMA StreakTyped ==
    ASSUME TripTypeOK, NEW g \in Guns, StreakCounted(g)
    PROVE  TripTypeOK'
BY SequencerAssumption DEF SequencerAssumption, StreakCounted, StreakAfter, TripTypeOK

\* A trip of a walk, whether it stops the machine or not.
TripKeepsTypes == /\ GunTypeOK' /\ PinTypeOK' /\ TripTypeOK' /\ SysTypeOK' /\ DacInv'
                  /\ alarm' \in Nat \cup {Never}

LEMMA CloseAndTripTyped ==
    ASSUME TypeInv, NEW g \in Guns, CloseAndTrip(g), UNCHANGED <<dacBusVars, cfgv>>
    PROVE  TripKeepsTypes
<1>1. TripTypeOK'
  BY StreakTyped DEF CloseAndTrip, TypeInv, TypeOK
<1>2. CASE StopsMachine(g)
  BY <1>1, <1>2, StopAllTyped
     DEF CloseAndTrip, TypeInv, TypeOK, DacTypeOK, GunTypeOK, SysTypeOK, TripKeepsTypes
<1>3. CASE ~StopsMachine(g)
  BY <1>1, <1>3, CloseLockedTyped
     DEF CloseAndTrip, TypeInv, TypeOK, TimerTypeOK, SysTypeOK, TripKeepsTypes
<1>4. QED
  BY <1>2, <1>3

LEMMA StrayAndTripTyped ==
    ASSUME TypeInv, NEW g \in Guns, StrayAndTrip(g), UNCHANGED <<dacBusVars, cfgv>>
    PROVE  TripKeepsTypes
<1>1. TripTypeOK'
  BY StreakTyped DEF StrayAndTrip, TypeInv, TypeOK
<1>2. CASE StopsMachine(g)
  BY <1>1, <1>2, StopAllTyped
     DEF StrayAndTrip, TypeInv, TypeOK, DacTypeOK, GunTypeOK, SysTypeOK, TripKeepsTypes
<1>3. CASE ~StopsMachine(g)
  <2>1. DacInv'
    BY <1>3, RetargetTyped DEF StrayAndTrip, TypeInv, TypeOK, DacTypeOK
  <2>2. QED
    BY <1>1, <1>3, <2>1
       DEF StrayAndTrip, In1Low, TypeInv, TypeOK, GunTypeOK, PinTypeOK, TimerTypeOK,
           SysTypeOK, TripKeepsTypes, gunVars
<1>4. QED
  BY <1>2, <1>3

LEMMA EndDecayTyped ==
    ASSUME TypeInv, NEW g \in Guns, EndDecay(g)
    PROVE  /\ mux' \in [Guns -> BOOLEAN] /\ decaying' \in [Guns -> BOOLEAN]
           /\ shadow' \in [Guns -> Codes] /\ kicked' \in BOOLEAN
<1>1. kicked' \in BOOLEAN
  BY KickTyped DEF EndDecay, TypeInv, TypeOK, DacTypeOK
<1>2. QED
  BY <1>1, ThresholdCodes
     DEF EndDecay, DecayOver, TypeInv, TypeOK, DacTypeOK, GunTypeOK, PinTypeOK

LEMMA StampTyped ==
    ASSUME GunTypeOK, NEW g \in Guns, NearZeroStamp(g)
    PROVE  nearZeroSeen' \in [Guns -> BOOLEAN] /\ nearZeroAge' \in [Guns -> Nat]
<1>1. SeenAge(g) \in Nat
  BY DEF SeenAge, GunTypeOK
<1>2. CASE IsApplied(g, NearZero)
  BY <1>1, <1>2 DEF NearZeroStamp, GunTypeOK
<1>3. CASE ~IsApplied(g, NearZero)
  BY <1>3 DEF NearZeroStamp, GunTypeOK
<1>4. QED
  BY <1>2, <1>3

LEMMA WalkOnTyped ==
    ASSUME NEW g \in Guns, NEW who \in {"sup", "chk"}, WalkOn(g, who)
    PROVE  cursor' \in 1 .. NumGuns + 1 /\ lock' \in {"free", "sup", "supDecay", "chk"}
BY DacAssumption DEF DacAssumption, WalkOn, Guns

LEMMA WalkEndsTyped ==
    ASSUME TypeInv, WalkEnds
    PROVE  /\ alarm' \in Nat \cup {Never} /\ lock' \in {"free", "sup", "supDecay", "chk"}
           /\ cursor' \in 1 .. NumGuns + 1 /\ closed' \in BOOLEAN
<1>1. alarm' \in Nat \cup {Never}
  BY RearmAlarmTyped DEF WalkEnds, TypeInv, TypeOK, TimerTypeOK, GunTypeOK
<1>2. closed' \in BOOLEAN
  BY Zenon DEF WalkEnds
<1>3. QED
  BY <1>1, <1>2, DacAssumption DEF DacAssumption, WalkEnds

----------------------------------------------------------------------------
(* Every action keeps the types.                                           *)
LEMMA DacUnchanged == ASSUME DacInv, UNCHANGED dacVars PROVE DacInv'
BY DEF dacVars, DacInv, DacTypeOK, WriterInv, ChipInv

\* A caller's own blockingSetCode() begins and ends while it has no transaction.
LEMMA CallTyped ==
    ASSUME DacInv, NEW f \in Callers, bus.owner # f, shadow' \in [Guns -> Codes],
           NEW c \in [at : {"none", "try", "done"}, gun : Guns, code : Codes,
                      tries : 0 .. WriteAttempts],
           call' = [call EXCEPT ![f] = c],
           UNCHANGED <<written, chip, chipReady, bus, kicked, dacPc, dacTries>>
    PROVE  DacInv'
BY DEF DacInv, DacTypeOK, WriterInv, ChipInv

LEMMA FireTyped == TypeInv /\ Fire => TypeInv'
<1> USE DacAssumption, SequencerAssumption DEF DacAssumption, SequencerAssumption
<1> SUFFICES ASSUME TypeInv, Fire
             PROVE  TypeInv'
  OBVIOUS
<1>1. ASSUME NEW f \in Callers, NEW g \in Guns, NEW on \in OnTimes, FireBegin(f, g, on)
      PROVE  TypeInv'
  <2>1. DacInv'
    BY <1>1, DacUnchanged DEF FireBegin, TypeInv
  <2>2. FiringTypeOK'
    BY <1>1, ThresholdCodes DEF FireBegin, TypeInv, TypeOK, FiringTypeOK
  <2>3. QED
    BY <1>1, <2>1, <2>2
       DEF FireBegin, TypeInv, DacInv, TypeOK, GunTypeOK, TripTypeOK, PinTypeOK,
           TimerTypeOK, SysTypeOK, tripVars, pinVars, tickVars, walkVars, sysVars
<1>2. ASSUME NEW f \in Callers, FireCheck(f)
      PROVE  TypeInv'
  <2>1. firing[f].gun \in Guns /\ firing[f].pick \in Codes
    BY DEF TypeInv, TypeOK, FiringTypeOK
  <2>2. DacInv'
    <3>1. CASE IsApplied(firing[f].gun, firing[f].pick)
      BY <1>2, <3>1, DacUnchanged DEF FireCheck, TypeInv, dacVars
    <3>2. CASE ~IsApplied(firing[f].gun, firing[f].pick)
      <4>1. BlockingBegin(f, firing[f].gun, firing[f].pick)
        BY <1>2, <3>2 DEF FireCheck
      <4>2. bus.owner # f /\ shadow' \in [Guns -> Codes]
        BY <2>1, <4>1 DEF BlockingBegin, TypeInv, DacInv, WriterInv, DacTypeOK
      <4> DEFINE c == [at |-> "try", gun |-> firing[f].gun, code |-> firing[f].pick,
                       tries |-> 0]
      <4>3. c \in [at : {"none", "try", "done"}, gun : Guns, code : Codes,
                   tries : 0 .. WriteAttempts]
        BY <2>1
      <4>4. call' = [call EXCEPT ![f] = c]
        BY <4>1 DEF BlockingBegin
      <4>5. UNCHANGED <<written, chip, chipReady, bus, kicked, dacPc, dacTries>>
        BY <1>2 DEF FireCheck
      <4> HIDE DEF c
      <4>6. QED
        BY <4>2, <4>3, <4>4, <4>5, CallTyped DEF TypeInv
    <3>3. QED
      BY <3>1, <3>2
  <2>3. FiringTypeOK'
    BY <1>2 DEF FireCheck, TypeInv, TypeOK, FiringTypeOK
  <2>4. QED
    BY <1>2, <2>2, <2>3
       DEF FireCheck, TypeInv, DacInv, TypeOK, GunTypeOK, TripTypeOK, PinTypeOK,
           TimerTypeOK, SysTypeOK, gunVars, tripVars, pinVars, tickVars, walkVars, sysVars
<1>3. ASSUME NEW f \in Callers, FireWritten(f)
      PROVE  TypeInv'
  <2>1. DacInv'
    BY <1>3, Records, CallTyped DEF FireWritten, BlockingEnds, TypeInv, DacInv, DacTypeOK
  <2>2. IsApplied(firing[f].gun, firing[f].pick) \in BOOLEAN
    BY DEF IsApplied
  <2>3. FiringTypeOK'
    BY <1>3, <2>2 DEF FireWritten, TypeInv, TypeOK, FiringTypeOK
  <2>4. QED
    BY <1>3, <2>1, <2>3
       DEF FireWritten, TypeInv, DacInv, TypeOK, GunTypeOK, TripTypeOK, PinTypeOK,
           TimerTypeOK, SysTypeOK, gunVars, tripVars, pinVars, tickVars, walkVars, sysVars
<1>4. ASSUME NEW f \in Callers, FireOpen(f)
      PROVE  TypeInv'
  <2>1. DacInv'
    BY <1>4, DacUnchanged DEF FireOpen, TypeInv
  <2>2. GunTypeOK'
    BY <1>4 DEF FireOpen, TypeInv, TypeOK, GunTypeOK, FiringTypeOK
  <2>3. alarm' \in Nat \cup {Never}
    BY <1>4, <2>2, RearmAlarmTyped DEF FireOpen, GunTypeOK
  <2>4. FiringTypeOK'
    BY <1>4, Records DEF FireOpen, TypeInv, TypeOK, FiringTypeOK
  <2>5. QED
    BY <1>4, <2>1, <2>2, <2>3, <2>4
       DEF FireOpen, TypeInv, DacInv, TypeOK, TripTypeOK, PinTypeOK, TimerTypeOK,
           SysTypeOK, tripVars, tickVars, walkVars, sysVars
<1>5. ASSUME NEW f \in Callers, FireRefused(f)
      PROVE  TypeInv'
  <2>1. DacInv'
    BY <1>5, DacUnchanged DEF FireRefused, TypeInv
  <2>2. FiringTypeOK'
    BY <1>5, Records DEF FireRefused, TypeInv, TypeOK, FiringTypeOK
  <2>3. QED
    BY <1>5, <2>1, <2>2
       DEF FireRefused, TypeInv, DacInv, TypeOK, GunTypeOK, TripTypeOK, PinTypeOK,
           TimerTypeOK, SysTypeOK, tripVars, pinVars, tickVars, walkVars, sysVars
<1>6. QED
  BY <1>1, <1>2, <1>3, <1>4, <1>5 DEF Fire

LEMMA InterruptTyped == TypeInv /\ (OnCloseAlarm \/ \E g \in Guns : PeakIsr(g)) => TypeInv'
<1> SUFFICES ASSUME TypeInv, OnCloseAlarm \/ \E g \in Guns : PeakIsr(g)
             PROVE  TypeInv'
  OBVIOUS
<1>1. ASSUME NEW g \in Guns, PeakIsr(g)
      PROVE  TypeInv'
  <2>1. kicked' \in BOOLEAN
    BY <1>1, KickTyped DEF PeakIsr, TypeInv, TypeOK, DacTypeOK
  <2>2. shadow' \in [Guns -> Codes]
    BY <1>1, ThresholdCodes DEF PeakIsr, TypeInv, TypeOK, DacTypeOK
  <2>3. DacInv'
    BY <1>1, <2>1, <2>2, RetargetTyped DEF PeakIsr, TypeInv
  <2>4. phase' \in [Guns -> {"Idle", "Peak", "Hold"}]
    <3>1. phase' = [phase EXCEPT ![g] = "Hold"] \/ phase' = phase
      BY <1>1, Zenon DEF PeakIsr
    <3>2. QED
      BY <3>1 DEF TypeInv, TypeOK, GunTypeOK
  <2>5. QED
    BY <1>1, <2>3, <2>4
       DEF PeakIsr, TypeInv, DacInv, TypeOK, GunTypeOK, TripTypeOK, PinTypeOK,
           TimerTypeOK, SysTypeOK, FiringTypeOK, tripVars, tickVars, walkVars, sysVars
<1>2. CASE OnCloseAlarm
  <2>1. GunTypeOK' /\ PinTypeOK' /\ DacInv'
    BY <1>2, CloseLockedTyped DEF OnCloseAlarm, Due
  <2>2. alarm' \in Nat \cup {Never}
    BY <1>2, <2>1, RearmAlarmTyped DEF OnCloseAlarm, GunTypeOK
  <2>3. QED
    BY <1>2, <2>1, <2>2
       DEF OnCloseAlarm, TypeInv, DacInv, TypeOK, TripTypeOK, TimerTypeOK, SysTypeOK,
           FiringTypeOK, tripVars, tickVars, walkVars, sysVars
<1>3. QED
  BY <1>1, <1>2

\* One step of a walk: what a trip keeps, and the walk's own variables.
LEMMA SuperviseTyped == TypeInv /\ Supervise => TypeInv'
<1> SUFFICES ASSUME TypeInv, Supervise
             PROVE  TypeInv'
  OBVIOUS
<1>1. CASE SupBegin
  <2>1. ticked' \in BOOLEAN /\ closed' \in BOOLEAN
    BY <1>1, Zenon DEF SupBegin
  <2>2. DacInv'
    BY <1>1, DacUnchanged DEF SupBegin, TypeInv
  <2>3. QED
    BY <1>1, <2>1, <2>2, DacAssumption
       DEF DacAssumption, SupBegin, TypeInv, DacInv, TypeOK, GunTypeOK, TripTypeOK,
           PinTypeOK, TimerTypeOK, SysTypeOK, FiringTypeOK, gunVars, tripVars, pinVars,
           sysVars
<1>2. CASE SupEnd
  <2>1. DacInv'
    BY <1>2, DacUnchanged DEF SupEnd, TypeInv
  <2>2. QED
    BY <1>2, <2>1, WalkEndsTyped
       DEF SupEnd, TypeInv, DacInv, TypeOK, GunTypeOK, TripTypeOK, PinTypeOK, TimerTypeOK,
           SysTypeOK, FiringTypeOK, gunVars, tripVars, pinVars, tickVars, sysVars
<1>3. ASSUME NEW g \in Guns, SupCloseLate(g) \/ SupPickTimeout(g)
      PROVE  TypeInv'
  <2>1. closed' \in BOOLEAN
    BY <1>3, Zenon DEF SupCloseLate, SupPickTimeout
  <2>2. TripKeepsTypes
    BY <1>3, CloseAndTripTyped DEF SupCloseLate, SupPickTimeout
  <2>3. cursor' \in 1 .. NumGuns + 1 /\ lock' \in {"free", "sup", "supDecay", "chk"}
    BY <1>3, WalkOnTyped DEF SupCloseLate, SupPickTimeout
  <2>4. QED
    BY <1>3, <2>1, <2>2, <2>3
       DEF SupCloseLate, SupPickTimeout, TripKeepsTypes, TypeInv, DacInv, TypeOK,
           TimerTypeOK, FiringTypeOK, tickVars
<1>4. ASSUME NEW g \in Guns, SupHoldOk(g)
      PROVE  TypeInv'
  <2>1. cursor' \in 1 .. NumGuns + 1 /\ lock' \in {"free", "sup", "supDecay", "chk"}
    BY <1>4, WalkOnTyped DEF SupHoldOk
  <2>2. DacInv'
    BY <1>4, DacUnchanged DEF SupHoldOk, TypeInv
  <2>3. QED
    BY <1>4, <2>1, <2>2
       DEF SupHoldOk, TypeInv, DacInv, TypeOK, GunTypeOK, TripTypeOK, PinTypeOK,
           TimerTypeOK, SysTypeOK, FiringTypeOK, pinVars, tickVars, sysVars
<1>5. ASSUME NEW g \in Guns, SupLeaveOpen(g) \/ SupNoDecay(g)
      PROVE  TypeInv'
  <2>1. cursor' \in 1 .. NumGuns + 1 /\ lock' \in {"free", "sup", "supDecay", "chk"}
    BY <1>5, WalkOnTyped DEF SupLeaveOpen, SupNoDecay
  <2>2. DacInv'
    BY <1>5, DacUnchanged DEF SupLeaveOpen, SupNoDecay, TypeInv
  <2>3. QED
    BY <1>5, <2>1, <2>2
       DEF SupLeaveOpen, SupNoDecay, TypeInv, DacInv, TypeOK, GunTypeOK, TripTypeOK,
           PinTypeOK, TimerTypeOK, SysTypeOK, FiringTypeOK, gunVars, tripVars, pinVars,
           tickVars, sysVars
<1>6. ASSUME NEW g \in Guns, SupStray(g)
      PROVE  TypeInv'
  <2>1. TripKeepsTypes
    BY <1>6, StrayAndTripTyped DEF SupStray
  <2>2. QED
    BY <1>6, <2>1
       DEF SupStray, TripKeepsTypes, TypeInv, DacInv, TypeOK, TimerTypeOK, FiringTypeOK,
           tickVars
<1>7. ASSUME NEW g \in Guns, SupDecayLow(g) \/ SupDecayHigh(g)
      PROVE  TypeInv'
  <2>1. cursor' \in 1 .. NumGuns + 1 /\ lock' \in {"free", "sup", "supDecay", "chk"}
    BY <1>7, WalkOnTyped DEF SupDecayLow, SupDecayHigh
  <2>2. /\ mux' \in [Guns -> BOOLEAN] /\ decaying' \in [Guns -> BOOLEAN]
        /\ shadow' \in [Guns -> Codes] /\ kicked' \in BOOLEAN
    BY <1>7, EndDecayTyped
       DEF SupDecayLow, SupDecayHigh, TypeInv, TypeOK, GunTypeOK, PinTypeOK, DacTypeOK
  <2>3. /\ nearZeroSeen' \in [Guns -> BOOLEAN] /\ nearZeroAge' \in [Guns -> Nat]
        /\ lowTicks' \in [Guns -> Nat]
    <3>1. NearZeroStamp(g)
      BY <1>7 DEF SupDecayLow, SupDecayHigh
    <3>2. nearZeroSeen' \in [Guns -> BOOLEAN] /\ nearZeroAge' \in [Guns -> Nat]
      BY <3>1, StampTyped DEF TypeInv, TypeOK
    <3>3. lowTicks' = [lowTicks EXCEPT ![g] = lowTicks[g] + 1]
            \/ lowTicks' = [lowTicks EXCEPT ![g] = 0]
      BY <1>7, Zenon DEF SupDecayLow, SupDecayHigh
    <3>4. lowTicks' \in [Guns -> Nat]
      BY <3>3 DEF TypeInv, TypeOK, GunTypeOK
    <3>5. QED
      BY <3>2, <3>4
  <2>4. DacInv'
    BY <1>7, <2>2, RetargetTyped DEF SupDecayLow, SupDecayHigh, TypeInv
  <2>5. QED
    BY <1>7, <2>1, <2>2, <2>3, <2>4
       DEF SupDecayLow, SupDecayHigh, TypeInv, DacInv, TypeOK, GunTypeOK, TripTypeOK,
           PinTypeOK, TimerTypeOK, SysTypeOK, FiringTypeOK, tripVars, tickVars, sysVars
<1>8. ASSUME NEW g \in Guns, SupDecayTimeout(g)
      PROVE  TypeInv'
  <2>1. cursor' \in 1 .. NumGuns + 1 /\ lock' \in {"free", "sup", "supDecay", "chk"}
    BY <1>8, WalkOnTyped DEF SupDecayTimeout
  <2>2. TripTypeOK'
    BY <1>8, StreakTyped DEF SupDecayTimeout, TypeInv, TypeOK
  <2>3. TripKeepsTypes
    <3>1. CASE StopsMachine(g)
      <4> DEFINE sh == [shadow EXCEPT ![g] = PickOf[cfgv]]
                 low == [lowTicks EXCEPT ![g] = 0]
      <4>1. sh \in [Guns -> Codes] /\ low \in [Guns -> Nat]
        BY ThresholdCodes DEF TypeInv, TypeOK, DacTypeOK, GunTypeOK
      <4>2. StopAllLocked(sh, low, TRUE) /\ UNCHANGED dacBusVars
        BY <1>8, <3>1 DEF SupDecayTimeout
      <4> HIDE DEF sh, low
      <4>3. QED
        BY <1>8, <2>2, <4>1, <4>2, StopAllTyped
           DEF SupDecayTimeout, TripKeepsTypes, TypeInv, TypeOK, SysTypeOK
    <3>2. CASE ~StopsMachine(g)
      <4>1. /\ EndDecay(g)
            /\ lowTicks' = [lowTicks EXCEPT ![g] = 0]
            /\ UNCHANGED <<phase, arming, holdOk, nearZeroSeen, left, fireAge, decayAge,
                           nearZeroAge, in1, peakIrq, active, testMode, alarm>>
            /\ UNCHANGED dacBusVars
        BY <1>8, <3>2 DEF SupDecayTimeout
      <4>2. DacInv'
        BY <4>1, EndDecayTyped, RetargetTyped DEF TypeInv
      <4>3. QED
        BY <1>8, <2>2, <4>1, <4>2, EndDecayTyped
           DEF SupDecayTimeout, TripKeepsTypes, TypeInv, TypeOK, GunTypeOK, PinTypeOK,
               TimerTypeOK, SysTypeOK
    <3>3. QED
      BY <3>1, <3>2
  <2>4. QED
    BY <1>8, <2>1, <2>3
       DEF SupDecayTimeout, TripKeepsTypes, TypeInv, DacInv, TypeOK, TimerTypeOK,
           FiringTypeOK, tickVars
<1>9. QED
  BY <1>1, <1>2, <1>3, <1>4, <1>5, <1>6, <1>7, <1>8 DEF Supervise

LEMMA CheckTyped == TypeInv /\ Check => TypeInv'
<1> SUFFICES ASSUME TypeInv, Check
             PROVE  TypeInv'
  OBVIOUS
<1>1. CASE ChkBegin
  <2>1. closed' \in BOOLEAN
    BY <1>1, Zenon DEF ChkBegin
  <2>2. DacInv'
    BY <1>1, DacUnchanged DEF ChkBegin, TypeInv
  <2>3. checkAge' \in Nat /\ cursor' \in 1 .. NumGuns + 1
    BY <1>1, DacAssumption, SequencerAssumption
       DEF DacAssumption, SequencerAssumption, ChkBegin, TypeInv, TypeOK, TimerTypeOK
  <2>4. QED
    BY <1>1, <2>1, <2>2, <2>3
       DEF ChkBegin, TypeInv, DacInv, TypeOK, GunTypeOK, TripTypeOK, PinTypeOK,
           TimerTypeOK, SysTypeOK, FiringTypeOK, gunVars, tripVars, pinVars, sysVars
<1>2. CASE ChkEnd
  <2>1. DacInv'
    BY <1>2, DacUnchanged DEF ChkEnd, TypeInv
  <2>2. tickOn' \in BOOLEAN /\ ticked' \in BOOLEAN
    BY <1>2, Zenon DEF ChkEnd, ChkTick, TypeInv, TypeOK, TimerTypeOK
  <2>3. tickAge' \in Nat /\ seenAge' \in Nat
    BY <1>2 DEF ChkEnd, ChkTick, TypeInv, TypeOK, TimerTypeOK
  <2>4. QED
    BY <1>2, <2>1, <2>2, <2>3, WalkEndsTyped
       DEF ChkEnd, TypeInv, DacInv, TypeOK, GunTypeOK, TripTypeOK, PinTypeOK, TimerTypeOK,
           SysTypeOK, FiringTypeOK, gunVars, tripVars, pinVars, sysVars
<1>3. ASSUME NEW g \in Guns, ChkCloseLate(g) \/ ChkStray(g)
      PROVE  TypeInv'
  <2>1. closed' \in BOOLEAN
    BY <1>3, Zenon DEF ChkCloseLate, ChkStray, TypeInv, TypeOK, TimerTypeOK
  <2>2. TripKeepsTypes
    BY <1>3, CloseAndTripTyped, StrayAndTripTyped DEF ChkCloseLate, ChkStray
  <2>3. cursor' \in 1 .. NumGuns + 1 /\ lock' \in {"free", "sup", "supDecay", "chk"}
    BY <1>3, WalkOnTyped DEF ChkCloseLate, ChkStray
  <2>4. QED
    BY <1>3, <2>1, <2>2, <2>3
       DEF ChkCloseLate, ChkStray, TripKeepsTypes, TypeInv, DacInv, TypeOK,
           TimerTypeOK, FiringTypeOK, tickVars
<1>4. ASSUME NEW g \in Guns, ChkFine(g)
      PROVE  TypeInv'
  <2>1. cursor' \in 1 .. NumGuns + 1 /\ lock' \in {"free", "sup", "supDecay", "chk"}
    BY <1>4, WalkOnTyped DEF ChkFine
  <2>2. DacInv'
    BY <1>4, DacUnchanged DEF ChkFine, TypeInv
  <2>3. QED
    BY <1>4, <2>1, <2>2
       DEF ChkFine, TypeInv, DacInv, TypeOK, GunTypeOK, TripTypeOK, PinTypeOK,
           TimerTypeOK, SysTypeOK, FiringTypeOK, gunVars, tripVars, pinVars, tickVars,
           sysVars
<1>5. QED
  BY <1>1, <1>2, <1>3, <1>4 DEF Check

LEMMA FirmwareTyped == TypeInv /\ Firmware => TypeInv'
<1> SUFFICES ASSUME TypeInv, Firmware
             PROVE  TypeInv'
  OBVIOUS
<1>1. ASSUME NEW C \in SUBSET Guns, Abort(C)
      PROVE  TypeInv'
  <2>0. PICK late \in Nat : CloseLocked(C, late) /\ RearmAlarm(phase', left', late)
    BY <1>1, AbortIsLate
  <2>1. GunTypeOK' /\ PinTypeOK' /\ DacInv'
    BY <1>1, <2>0, CloseLockedTyped DEF Abort
  <2>2. alarm' \in Nat \cup {Never}
    BY <2>0, <2>1, RearmAlarmTyped DEF GunTypeOK
  <2>3. QED
    BY <1>1, <2>1, <2>2
       DEF Abort, TypeInv, DacInv, TypeOK, TripTypeOK, TimerTypeOK, SysTypeOK,
           FiringTypeOK, tripVars, tickVars, walkVars, sysVars
<1>2. CASE KillAll
  <2>1. DacInv'
    BY <1>2, DacUnchanged DEF KillAll, TypeInv
  <2>2. PinTypeOK'
    BY <1>2 DEF KillAll, TypeInv, TypeOK, PinTypeOK
  <2>3. QED
    BY <1>2, <2>1, <2>2
       DEF KillAll, TypeInv, DacInv, TypeOK, GunTypeOK, TripTypeOK, TimerTypeOK,
           SysTypeOK, FiringTypeOK, gunVars, tripVars, tickVars, walkVars, sysVars
<1>3. ASSUME NEW v \in Versions, OnConfigApplied(v)
      PROVE  TypeInv'
  <2>1. kicked' \in BOOLEAN
    BY <1>3, KickTyped DEF OnConfigApplied, TypeInv, TypeOK, DacTypeOK
  <2>2. shadow' \in [Guns -> Codes]
    BY <1>3, SequencerAssumption
       DEF SequencerAssumption, OnConfigApplied, TypeInv, TypeOK, DacTypeOK
  <2>3. DacInv'
    BY <1>3, <2>1, <2>2, RetargetTyped DEF OnConfigApplied, TypeInv
  <2>4. QED
    BY <1>3, <2>3
       DEF OnConfigApplied, TypeInv, DacInv, TypeOK, GunTypeOK, TripTypeOK, PinTypeOK,
           TimerTypeOK, SysTypeOK, FiringTypeOK, gunVars, tripVars, pinVars, tickVars,
           walkVars, sysVars
<1>4. CASE OnActivate
  <2>1. DacInv'
    BY <1>4, DacUnchanged DEF OnActivate, TypeInv
  <2>2. QED
    BY <1>4, <2>1
       DEF OnActivate, TypeInv, DacInv, TypeOK, GunTypeOK, TripTypeOK, PinTypeOK,
           TimerTypeOK, SysTypeOK, FiringTypeOK, gunVars, pinVars, tickVars, walkVars,
           sysVars
<1>5. CASE FlagStore
  <2>1. DacInv'
    BY <1>5, DacUnchanged DEF FlagStore, TypeInv
  <2>2. active' \in BOOLEAN /\ fault' \in BOOLEAN /\ calibrating' \in BOOLEAN
          /\ testMode' \in BOOLEAN /\ cfgv' = cfgv
    BY <1>5, Zenon DEF FlagStore, TypeInv, TypeOK, SysTypeOK
  <2>3. QED
    BY <1>5, <2>1, <2>2
       DEF FlagStore, TypeInv, DacInv, TypeOK, GunTypeOK, TripTypeOK, PinTypeOK,
           TimerTypeOK, SysTypeOK, FiringTypeOK, gunVars, tripVars, pinVars, tickVars,
           walkVars
<1>6. QED
  BY <1>1, <1>2, <1>3, <1>4, <1>5 DEF Firmware

LEMMA HardwareTyped ==
    TypeInv /\ (AlarmMissed \/ TickStops \/ Pass \/ \E g \in Guns : In1Glitch(g)) => TypeInv'
<1> SUFFICES ASSUME TypeInv, AlarmMissed \/ TickStops \/ Pass \/ \E g \in Guns : In1Glitch(g)
             PROVE  TypeInv'
  OBVIOUS
<1>1. CASE AlarmMissed
  <2>1. DacInv'
    BY <1>1, DacUnchanged DEF AlarmMissed, TypeInv
  <2>2. QED
    BY <1>1, <2>1
       DEF AlarmMissed, TypeInv, DacInv, TypeOK, GunTypeOK, TripTypeOK, PinTypeOK,
           TimerTypeOK, SysTypeOK, FiringTypeOK, gunVars, tripVars, pinVars, tickVars,
           walkVars, sysVars
<1>2. CASE TickStops
  <2>1. DacInv'
    BY <1>2, DacUnchanged DEF TickStops, TypeInv
  <2>2. tickOn' \in BOOLEAN
    BY <1>2, Zenon DEF TickStops
  <2>3. QED
    BY <1>2, <2>1, <2>2
       DEF TickStops, TypeInv, DacInv, TypeOK, GunTypeOK, TripTypeOK, PinTypeOK,
           TimerTypeOK, SysTypeOK, FiringTypeOK, gunVars, tripVars, pinVars, walkVars,
           sysVars
<1>3. ASSUME NEW g \in Guns, In1Glitch(g)
      PROVE  TypeInv'
  <2>1. DacInv'
    BY <1>3, DacUnchanged DEF In1Glitch, TypeInv
  <2>2. QED
    BY <1>3, <2>1
       DEF In1Glitch, TypeInv, DacInv, TypeOK, GunTypeOK, TripTypeOK, PinTypeOK,
           TimerTypeOK, SysTypeOK, FiringTypeOK, gunVars, tripVars, tickVars, walkVars,
           sysVars
<1>4. CASE Pass
  <2>1. GunTypeOK' /\ TripTypeOK'
    <3>1. left' \in [Guns -> Int]
      BY <1>4 DEF Pass, TypeInv, TypeOK, GunTypeOK
    <3>2. /\ fireAge' \in [Guns -> Nat] /\ decayAge' \in [Guns -> Nat]
          /\ nearZeroAge' \in [Guns -> Nat] /\ tripAge' \in [Guns -> Nat]
      BY <1>4 DEF Pass, Older, TypeInv, TypeOK, GunTypeOK, TripTypeOK
    <3>3. QED
      BY <1>4, <3>1, <3>2 DEF Pass, TypeInv, TypeOK, GunTypeOK, TripTypeOK
  <2>2. DacInv'
    <3>1. bus' \in [owner : Writers \cup {"nobody"}, mask : SUBSET Guns,
                    sent : SUBSET Guns, age : Nat, snap : [Guns -> Codes]]
          /\ bus'.owner = bus.owner /\ bus'.mask = bus.mask
          /\ bus'.sent = bus.sent /\ bus'.snap = bus.snap
      BY <1>4 DEF Pass, TypeInv, TypeOK, DacTypeOK
    <3>2. QED
      BY <1>4, <3>1 DEF Pass, TypeInv, DacInv, DacTypeOK, WriterInv, ChipInv
  <2>3. TimerTypeOK'
    <3>1. alarm' \in Nat \cup {Never}
      BY <1>4 DEF Pass, MayPass, TypeInv, TypeOK, TimerTypeOK, Never
    <3>2. QED
      BY <1>4, <3>1 DEF Pass, TypeInv, TypeOK, TimerTypeOK, walkVars
  <2>4. QED
    BY <1>4, <2>1, <2>2, <2>3
       DEF Pass, TypeInv, DacInv, TypeOK, PinTypeOK, SysTypeOK, FiringTypeOK, pinVars,
           sysVars
<1>5. QED
  BY <1>1, <1>2, <1>3, <1>4

LEMMA TypeStep == TypeInv /\ [Next]_vars => TypeInv'
<1> SUFFICES ASSUME TypeInv, [Next]_vars
             PROVE  TypeInv'
  OBVIOUS
<1>1. ASSUME DacInv', UNCHANGED seqVars
      PROVE  TypeInv'
  BY <1>1
     DEF seqVars, TypeInv, DacInv, TypeOK, GunTypeOK, TripTypeOK, PinTypeOK, TimerTypeOK,
         SysTypeOK, FiringTypeOK, gunVars, tripVars, pinVars, tickVars, walkVars, sysVars
<1>2. CASE Dacs
  BY <1>1, <1>2, DacStepInv DEF Dacs, TypeInv
<1>3. CASE UNCHANGED vars
  BY <1>1, <1>3, DacUnchanged DEF vars, TypeInv
<1>4. QED
  BY <1>2, <1>3, FireTyped, InterruptTyped, SuperviseTyped, CheckTyped, FirmwareTyped,
     HardwareTyped
     DEF Next, Hardware

THEOREM TypeInvariant == Spec => []TypeInv
BY InitTyped, TypeStep, PTL DEF Spec

\* The state stays of its type in every run: no counter goes negative (a late
\* checker's backlog, a saturating age, the alarm's remaining time), no walk
\* leaves the guns, no blocking DAC write exceeds its attempts.
THEOREM TypeCorrect == Spec => []TypeOK
BY TypeInvariant, PTL DEF TypeInv

----------------------------------------------------------------------------
(* The outputs.                                                            *)
OutputInv == In1OnlyWhileOpen /\ RestingGunIsIsolated /\ PeakIrqOnlyInPeak

outputs == <<phase, decaying, in1, mux, peakIrq>>

LEMMA OutputsUnchanged == ASSUME OutputInv, UNCHANGED outputs PROVE OutputInv'
BY DEF OutputInv, In1OnlyWhileOpen, RestingGunIsIsolated, PeakIrqOnlyInPeak, Open, outputs

\* Closing any set of guns keeps each output with the state it belongs to ...
LEMMA CloseLockedOutputs ==
    ASSUME TypeInv, OutputInv, NEW C \in SUBSET Guns, NEW late \in Nat, CloseLocked(C, late)
    PROVE  OutputInv'
BY DEF CloseLocked, Shut, PinsOff, OutputInv, In1OnlyWhileOpen, RestingGunIsIsolated,
       PeakIrqOnlyInPeak, Open, TypeInv, TypeOK, GunTypeOK, PinTypeOK

\* ... and so does the machine stop.
LEMMA StopAllOutputs ==
    ASSUME TypeInv, NEW sh, NEW low, NEW owed, StopAllLocked(sh, low, owed)
    PROVE  OutputInv'
BY DEF StopAllLocked, Shut, PinsOff, Coast, OutputInv, In1OnlyWhileOpen,
       RestingGunIsIsolated, PeakIrqOnlyInPeak, Open

LEMMA StrayAndTripOutputs ==
    ASSUME TypeInv, OutputInv, NEW g \in Guns, StrayAndTrip(g)
    PROVE  OutputInv'
<1>1. CASE StopsMachine(g)
  BY <1>1, StopAllOutputs DEF StrayAndTrip
<1>2. CASE ~StopsMachine(g)
  BY <1>2 DEF StrayAndTrip, In1Low, gunVars, OutputInv, In1OnlyWhileOpen,
     RestingGunIsIsolated, PeakIrqOnlyInPeak, Open, TypeInv, TypeOK, PinTypeOK
<1>3. QED
  BY <1>1, <1>2

LEMMA CloseAndTripOutputs ==
    ASSUME TypeInv, OutputInv, NEW g \in Guns, CloseAndTrip(g)
    PROVE  OutputInv'
BY StopAllOutputs, CloseLockedOutputs DEF CloseAndTrip

LEMMA EndDecayOutputs ==
    ASSUME TypeInv, OutputInv, NEW g \in Guns, EndDecay(g), ~Open(g),
           UNCHANGED <<phase, in1, peakIrq>>
    PROVE  OutputInv'
BY DEF EndDecay, DecayOver, OutputInv, In1OnlyWhileOpen, RestingGunIsIsolated,
       PeakIrqOnlyInPeak, Open, TypeInv, TypeOK, GunTypeOK, PinTypeOK

LEMMA OutputStep == TypeInv /\ OutputInv /\ [Next]_vars => OutputInv'
<1> SUFFICES ASSUME TypeInv, OutputInv, [Next]_vars
             PROVE  OutputInv'
  OBVIOUS
<1>1. CASE Fire
  <2>1. ASSUME NEW f \in Callers, FireOpen(f)
        PROVE  OutputInv'
    BY <2>1 DEF FireOpen, OutputInv, In1OnlyWhileOpen, RestingGunIsIsolated,
       PeakIrqOnlyInPeak, Open, TypeInv, TypeOK, GunTypeOK, PinTypeOK, FiringTypeOK
  <2>2. ASSUME ~\E f \in Callers : FireOpen(f)
        PROVE  UNCHANGED outputs
    BY <1>1, <2>2 DEF Fire, FireBegin, FireCheck, FireWritten, FireRefused, outputs, gunVars,
       pinVars
  <2>3. QED
    BY <2>1, <2>2, OutputsUnchanged
<1>2. CASE OnCloseAlarm
  BY <1>2, CloseLockedOutputs DEF OnCloseAlarm, Due
<1>3. ASSUME NEW g \in Guns, PeakIsr(g)
      PROVE  OutputInv'
  BY <1>3 DEF PeakIsr, OutputInv, In1OnlyWhileOpen, RestingGunIsIsolated,
     PeakIrqOnlyInPeak, Open, TypeInv, TypeOK, GunTypeOK, PinTypeOK
<1>4. CASE Supervise
  <2>1. ASSUME NEW g \in Guns, SupCloseLate(g) \/ SupPickTimeout(g)
        PROVE  OutputInv'
    BY <2>1, CloseAndTripOutputs DEF SupCloseLate, SupPickTimeout
  <2>2. ASSUME NEW g \in Guns, SupStray(g)
        PROVE  OutputInv'
    BY <2>2, StrayAndTripOutputs DEF SupStray
  <2>3. ASSUME NEW g \in Guns, SupDecayLow(g) \/ SupDecayHigh(g)
        PROVE  OutputInv'
    <3>1. ~Open(g) /\ UNCHANGED <<phase, in1, peakIrq>>
            /\ (EndDecay(g) \/ UNCHANGED <<mux, decaying>>)
      BY <2>3 DEF SupDecayLow, SupDecayHigh, SupIdle
    <3>2. QED
      BY <3>1, EndDecayOutputs, OutputsUnchanged DEF outputs
  <2>4. ASSUME NEW g \in Guns, SupDecayTimeout(g)
        PROVE  OutputInv'
    <3>1. CASE StopsMachine(g)
      BY <2>4, <3>1, StopAllOutputs DEF SupDecayTimeout
    <3>2. CASE ~StopsMachine(g)
      BY <2>4, <3>2, EndDecayOutputs DEF SupDecayTimeout, SupIdle
    <3>3. QED
      BY <3>1, <3>2
  <2>5. CASE SupBegin \/ SupEnd
              \/ \E g \in Guns : SupHoldOk(g) \/ SupLeaveOpen(g) \/ SupNoDecay(g)
    BY <2>5, OutputsUnchanged
       DEF SupBegin, SupEnd, SupHoldOk, SupLeaveOpen, SupNoDecay, outputs, gunVars, pinVars
  <2>6. QED
    BY <1>4, <2>1, <2>2, <2>3, <2>4, <2>5 DEF Supervise
<1>5. CASE Check
  <2>1. ASSUME NEW g \in Guns, ChkCloseLate(g) \/ ChkStray(g)
        PROVE  OutputInv'
    BY <2>1, CloseAndTripOutputs, StrayAndTripOutputs DEF ChkCloseLate, ChkStray
  <2>2. CASE ChkBegin \/ ChkEnd \/ \E g \in Guns : ChkFine(g)
    BY <2>2, OutputsUnchanged DEF ChkBegin, ChkEnd, ChkFine, outputs, gunVars, pinVars
  <2>3. QED
    BY <1>5, <2>1, <2>2 DEF Check
<1>6. CASE Firmware
  <2>1. ASSUME NEW C \in SUBSET Guns, Abort(C)
        PROVE  OutputInv'
    BY <2>1, AbortIsLate, CloseLockedOutputs
  <2>2. CASE KillAll
    BY <2>2 DEF KillAll, gunVars, OutputInv, In1OnlyWhileOpen, RestingGunIsIsolated,
       PeakIrqOnlyInPeak, Open
  <2>3. CASE OnActivate \/ FlagStore \/ \E v \in Versions : OnConfigApplied(v)
    BY <2>3, OutputsUnchanged DEF OnActivate, FlagStore, OnConfigApplied, outputs, gunVars,
       pinVars
  <2>4. QED
    BY <1>6, <2>1, <2>2, <2>3 DEF Firmware
<1>7. ASSUME NEW g \in Guns, In1Glitch(g)
      PROVE  OutputInv'
  BY <1>7 DEF In1Glitch, gunVars, OutputInv, In1OnlyWhileOpen, RestingGunIsIsolated,
     PeakIrqOnlyInPeak, Open
<1>8. CASE AlarmMissed \/ TickStops \/ Pass \/ Dacs \/ UNCHANGED vars
  BY <1>8, OutputsUnchanged DEF AlarmMissed, TickStops, Pass, Dacs, vars, seqVars, outputs,
     gunVars, pinVars
<1>9. QED
  BY <1>1, <1>2, <1>3, <1>4, <1>5, <1>6, <1>7, <1>8 DEF Next, Hardware

LEMMA OutputInvariant == Spec => []OutputInv
<1>1. Init => OutputInv
  BY DEF Init, OutputInv, In1OnlyWhileOpen, RestingGunIsIsolated, PeakIrqOnlyInPeak, Open
<1>2. QED
  BY <1>1, OutputStep, TypeInvariant, PTL DEF Spec

\* No interleaving of the firing tasks, the four closers and the unlocked
\* killAll() leaves IN1 driven on a gun that nothing is going to close.
THEOREM In1Correct == Spec => []In1OnlyWhileOpen
BY OutputInvariant, PTL DEF OutputInv

\* IN2 is left to the LM339 during a drop or its decay only, and these exclude
\* each other.
THEOREM IsolationCorrect == Spec => []RestingGunIsIsolated
BY OutputInvariant, PTL DEF OutputInv

\* The peak interrupt is armed on a gun in Peak only.
THEOREM PeakIrqCorrect == Spec => []PeakIrqOnlyInPeak
BY OutputInvariant, PTL DEF OutputInv

----------------------------------------------------------------------------
(* The close alarm.                                                        *)
LEMMA RearmCovers ==
    ASSUME TypeInv', NEW late \in 0 .. TaskLate, RearmAlarm(phase', left', late)
    PROVE  AlarmCoversOpenGuns'
<1>1. left' \in [Guns -> Int] /\ alarm' \in Nat \cup {Never}
  BY DEF TypeInv, TypeOK, GunTypeOK, TimerTypeOK
<1>2. \A g \in Guns : phase'[g] # "Idle" =>
          alarm' # Never /\ alarm' <= NonNeg(left'[g] + late)
  BY <1>1 DEF RearmAlarm, NonNeg, Never
<1>3. \A g \in Guns : /\ NonNeg(left'[g] + late) <= NonNeg(left'[g] + TaskLate)
                      /\ NonNeg(left'[g] + late) \in Int
                      /\ NonNeg(left'[g] + TaskLate) \in Int
  BY <1>1, SequencerAssumption DEF SequencerAssumption, NonNeg
<1> HIDE DEF NonNeg
<1>4. QED
  BY <1>1, <1>2, <1>3 DEF AlarmCoversOpenGuns, Open, Never

\* Closing guns and leaving the alarm as it is cannot uncover an open one.
LEMMA AlarmKept ==
    ASSUME TypeInv, AlarmCoversOpenGuns, UNCHANGED alarm,
           \A g \in Guns : phase'[g] = "Idle" \/ (Open(g) /\ left'[g] = left[g])
    PROVE  AlarmCoversOpenGuns'
BY DEF AlarmCoversOpenGuns, Open

LEMMA CloseAndTripAlarm ==
    ASSUME TypeInv, AlarmCoversOpenGuns, NEW g \in Guns, CloseAndTrip(g)
    PROVE  AlarmCoversOpenGuns'
<1>1. CASE StopsMachine(g)
  BY <1>1 DEF CloseAndTrip, StopAllLocked, Shut, AlarmCoversOpenGuns, Open
<1>2. CASE ~StopsMachine(g)
  BY <1>2, AlarmKept DEF CloseAndTrip, CloseLocked, Shut, Open
<1>3. QED
  BY <1>1, <1>2

LEMMA StrayAndTripAlarm ==
    ASSUME TypeInv, AlarmCoversOpenGuns, NEW g \in Guns, StrayAndTrip(g)
    PROVE  AlarmCoversOpenGuns'
<1>1. CASE StopsMachine(g)
  BY <1>1 DEF StrayAndTrip, StopAllLocked, Shut, AlarmCoversOpenGuns, Open
<1>2. CASE ~StopsMachine(g)
  BY <1>2, AlarmKept DEF StrayAndTrip, gunVars, Open
<1>3. QED
  BY <1>1, <1>2

LEMMA WalkEndsAlarm ==
    ASSUME TypeInv, TypeInv', AlarmCoversOpenGuns, WalkEnds, UNCHANGED gunVars
    PROVE  AlarmCoversOpenGuns'
<1>1. CASE closed
  <2>1. 0 \in 0 .. TaskLate
    BY SequencerAssumption DEF SequencerAssumption
  <2>2. RearmAlarm(phase', left', 0)
    BY <1>1 DEF WalkEnds, gunVars
  <2>3. QED
    BY <2>1, <2>2, RearmCovers
<1>2. CASE ~closed
  BY <1>2, AlarmKept DEF WalkEnds, gunVars, Open
<1>3. QED
  BY <1>1, <1>2

LEMMA AlarmStep == TypeInv /\ AlarmCoversOpenGuns /\ [Next]_vars => AlarmCoversOpenGuns'
<1> SUFFICES ASSUME TypeInv, AlarmCoversOpenGuns, [Next]_vars
             PROVE  AlarmCoversOpenGuns'
  OBVIOUS
<1>0. TypeInv'
  BY TypeStep
<1>1. CASE Fire
  <2>1. ASSUME NEW f \in Callers, FireOpen(f)
        PROVE  AlarmCoversOpenGuns'
    <3>1. 0 \in 0 .. TaskLate
      BY SequencerAssumption DEF SequencerAssumption
    <3>2. QED
      BY <1>0, <2>1, <3>1, RearmCovers DEF FireOpen
  <2>2. ASSUME ~\E f \in Callers : FireOpen(f)
        PROVE  UNCHANGED <<phase, left, alarm>>
    BY <1>1, <2>2 DEF Fire, FireBegin, FireCheck, FireWritten, FireRefused, gunVars
  <2>3. QED
    BY <2>1, <2>2, AlarmKept DEF Open
<1>2. CASE OnCloseAlarm \/ \E C \in SUBSET Guns : Abort(C)
  <2>1. PICK late \in 0 .. TaskLate : RearmAlarm(phase', left', late)
    BY <1>2, AbortIsLate, SequencerAssumption DEF SequencerAssumption, OnCloseAlarm
  <2>2. QED
    BY <1>0, <2>1, RearmCovers
<1>3. ASSUME NEW g \in Guns, PeakIsr(g)
      PROVE  AlarmCoversOpenGuns'
  BY <1>3 DEF PeakIsr, AlarmCoversOpenGuns, Open, TypeInv, TypeOK, GunTypeOK
<1>4. CASE Supervise
  <2>1. ASSUME NEW g \in Guns, SupCloseLate(g) \/ SupPickTimeout(g) \/ SupStray(g)
        PROVE  AlarmCoversOpenGuns'
    BY <2>1, CloseAndTripAlarm, StrayAndTripAlarm
       DEF SupCloseLate, SupPickTimeout, SupStray
  <2>2. CASE SupEnd
    BY <1>0, <2>2, WalkEndsAlarm DEF SupEnd
  <2>3. ASSUME NEW g \in Guns, SupDecayTimeout(g)
        PROVE  AlarmCoversOpenGuns'
    <3>1. CASE StopsMachine(g)
      BY <2>3, <3>1 DEF SupDecayTimeout, StopAllLocked, Shut, AlarmCoversOpenGuns, Open
    <3>2. CASE ~StopsMachine(g)
      BY <2>3, <3>2, AlarmKept DEF SupDecayTimeout, Open
    <3>3. QED
      BY <3>1, <3>2
  <2>4. CASE SupBegin \/ \E g \in Guns : SupHoldOk(g) \/ SupLeaveOpen(g) \/ SupNoDecay(g)
                            \/ SupDecayLow(g) \/ SupDecayHigh(g)
    BY <2>4, AlarmKept
       DEF SupBegin, SupHoldOk, SupLeaveOpen, SupNoDecay, SupDecayLow, SupDecayHigh, Open,
           gunVars
  <2>5. QED
    BY <1>4, <2>1, <2>2, <2>3, <2>4 DEF Supervise
<1>5. CASE Check
  <2>1. ASSUME NEW g \in Guns, ChkCloseLate(g) \/ ChkStray(g)
        PROVE  AlarmCoversOpenGuns'
    BY <2>1, CloseAndTripAlarm, StrayAndTripAlarm DEF ChkCloseLate, ChkStray
  <2>2. CASE ChkEnd
    BY <1>0, <2>2, WalkEndsAlarm DEF ChkEnd
  <2>3. CASE ChkBegin \/ \E g \in Guns : ChkFine(g)
    BY <2>3, AlarmKept DEF ChkBegin, ChkFine, Open, gunVars
  <2>4. QED
    BY <1>5, <2>1, <2>2, <2>3 DEF Check
<1>6. CASE Pass
  BY <1>6, SequencerAssumption
     DEF SequencerAssumption, Pass, MayPass, AlarmCoversOpenGuns, Open, NonNeg, Never,
         TypeInv, TypeOK, GunTypeOK, TimerTypeOK
<1>7. CASE AlarmMissed
  BY <1>7 DEF AlarmMissed, AlarmCoversOpenGuns
<1>8. CASE KillAll \/ OnActivate \/ FlagStore \/ (\E v \in Versions : OnConfigApplied(v))
           \/ TickStops \/ (\E g \in Guns : In1Glitch(g)) \/ Dacs \/ UNCHANGED vars
  BY <1>8, AlarmKept
     DEF KillAll, OnActivate, FlagStore, OnConfigApplied, TickStops, In1Glitch, Dacs, vars,
         seqVars, gunVars, Open
<1>9. QED
  BY <1>1, <1>2, <1>3, <1>4, <1>5, <1>6, <1>7, <1>8 DEF Next, Firmware, Hardware

\* Unless the hardware loses it, the close alarm is always set for the earliest
\* end of an open drop or sooner, whichever closers and firers interleave.
THEOREM AlarmCorrect == Spec => []AlarmCoversOpenGuns
<1>1. Init => AlarmCoversOpenGuns
  BY DEF Init, AlarmCoversOpenGuns, Open
<1>2. QED
  BY <1>1, AlarmStep, TypeInvariant, PTL DEF Spec

----------------------------------------------------------------------------
(* The supervisor as a backstop: while the tick runs, no drop outlives its *)
(* end by the grace and a tick, nor the pick limit by a tick.              *)

\* Time since the supervisor was last at gun g.
SupAge(g) ==
    IF lock \in {"sup", "supDecay"} /\ g >= cursor THEN TickPeriod ELSE tickAge

TickInv ==
    /\ tickOn /\ tickAge <= TickPeriod
    /\ lock \in {"sup", "supDecay"} => tickAge = 0
    /\ ticked \/ seenAge <= tickAge

Timely(g) ==
    Open(g) => /\ -left[g] < SupervisorGrace + SupAge(g)
               /\ ~holdOk[g] => fireAge[g] < PickLimit + SupAge(g)
               /\ phase[g] = "Peak" => ~holdOk[g]

SupInv == "tickStall" \notin Faults => TickInv /\ \A g \in Guns : Timely(g)

\* A gun is as timely as before if it closes, or nothing of it changes and the
\* supervisor has not passed it in between.
SameOrClosed(g) ==
    \/ phase'[g] = "Idle"
    \/ /\ phase'[g] = phase[g] /\ left'[g] = left[g]
       /\ holdOk'[g] = holdOk[g] /\ fireAge'[g] = fireAge[g]

LEMMA TimelyKept ==
    ASSUME TypeInv, NEW g \in Guns, Timely(g), SameOrClosed(g),
           Open(g) => SupAge(g)' >= SupAge(g), SupAge(g)' \in Nat
    PROVE  Timely(g)'
<1>1. SUFFICES ASSUME phase'[g] # "Idle"
               PROVE  Timely(g)'
  BY DEF Timely, Open
<1>2. Open(g) /\ phase'[g] = phase[g] /\ left'[g] = left[g] /\ holdOk'[g] = holdOk[g]
        /\ fireAge'[g] = fireAge[g]
  BY <1>1 DEF SameOrClosed, Open
<1>3. left[g] \in Int /\ fireAge[g] \in Nat /\ SupAge(g) \in Nat
  BY SequencerAssumption
     DEF SequencerAssumption, SupAge, TypeInv, TypeOK, GunTypeOK, TimerTypeOK
<1>4. SupAge(g)' >= SupAge(g)
  BY <1>2
<1> HIDE DEF SupAge
<1>5. QED
  BY <1>2, <1>3, <1>4, SequencerAssumption DEF SequencerAssumption, Timely, Open

LEMMA CloseAndTripSame ==
    ASSUME TypeInv, NEW g \in Guns, CloseAndTrip(g)
    PROVE  phase'[g] = "Idle" /\ \A h \in Guns : SameOrClosed(h)
BY DEF CloseAndTrip, StopAllLocked, CloseLocked, Shut, SameOrClosed, TypeInv, TypeOK, GunTypeOK

LEMMA StrayAndTripSame ==
    ASSUME TypeInv, NEW g \in Guns, StrayAndTrip(g)
    PROVE  \A h \in Guns : SameOrClosed(h)
<1>1. CASE StopsMachine(g)
  BY <1>1 DEF StrayAndTrip, StopAllLocked, Shut, SameOrClosed
<1>2. CASE ~StopsMachine(g)
  BY <1>2 DEF StrayAndTrip, SameOrClosed, gunVars
<1>3. QED
  BY <1>1, <1>2

\* The walk leaves gun g, which is closed or was found in time.
LEMMA WalkOnTimely ==
    ASSUME TypeInv, TickInv, lock \in {"sup", "supDecay"}, NEW g \in Guns, cursor = g,
           WalkOn(g, "sup"), UNCHANGED tickVars, \A h \in Guns : Timely(h),
           \A h \in Guns : SameOrClosed(h),
           ~Open(g) \/ phase'[g] = "Idle" \/ (~SupOverdue(g) /\ (holdOk[g] \/ ~PickOverdue(g)))
    PROVE  TickInv' /\ \A h \in Guns : Timely(h)'
<1> USE SequencerAssumption DEF SequencerAssumption
<1>1. TickInv'
  BY DEF TickInv, WalkOn, tickVars
<1>2. tickAge = 0 /\ tickAge' = 0 /\ cursor' = g + 1 /\ lock' = "sup" /\ g \in Int
  BY DEF TickInv, WalkOn, tickVars, Guns
<1>3. ASSUME NEW h \in Guns, h # g
      PROVE  Timely(h)'
  <2>1. h \in Int
    BY DEF Guns
  <2>2. SupAge(h)' = SupAge(h) /\ SupAge(h) \in Nat
    BY <1>2, <1>3, <2>1 DEF SupAge
  <2>3. QED
    BY <1>3, <2>2, TimelyKept
<1>4. Timely(g)'
  <2>1. SupAge(g)' = 0
    BY <1>2 DEF SupAge
  <2>2. CASE phase'[g] = "Idle"
    BY <2>2 DEF Timely, Open
  <2>3. CASE phase'[g] # "Idle"
    <3>1. Open(g) /\ ~SupOverdue(g) /\ (holdOk[g] \/ ~PickOverdue(g))
      BY <2>3 DEF SameOrClosed, Open
    <3>2. phase'[g] = phase[g] /\ left'[g] = left[g] /\ holdOk'[g] = holdOk[g]
            /\ fireAge'[g] = fireAge[g]
      BY <2>3 DEF SameOrClosed
    <3>3. QED
      BY <2>1, <3>1, <3>2
         DEF Timely, Open, SupOverdue, OverdueBy, PickOverdue, TypeInv, TypeOK, GunTypeOK
  <2>4. QED
    BY <2>2, <2>3
<1>5. QED
  BY <1>1, <1>3, <1>4

\* Steps that leave the tick and the walk alone.
LEMMA QuietTimely ==
    ASSUME TypeInv, SupInv, UNCHANGED <<tickVars, lock, cursor>>,
           \A g \in Guns : SameOrClosed(g)
    PROVE  SupInv'
<1>1. SUFFICES ASSUME "tickStall" \notin Faults
               PROVE  TickInv' /\ \A g \in Guns : Timely(g)'
  BY DEF SupInv
<1>2. ASSUME NEW g \in Guns
      PROVE  SupAge(g)' = SupAge(g) /\ SupAge(g) \in Nat
  BY SequencerAssumption
     DEF SequencerAssumption, SupAge, tickVars, TypeInv, TypeOK, TimerTypeOK
<1>3. QED
  BY <1>1, <1>2, TimelyKept DEF SupInv, TickInv, tickVars, TypeInv, TypeOK, TimerTypeOK

LEMMA SupStep == TypeInv /\ SupInv /\ [Next]_vars => SupInv'
<1> SUFFICES ASSUME TypeInv, SupInv, [Next]_vars
             PROVE  SupInv'
  OBVIOUS
<1> USE SequencerAssumption DEF SequencerAssumption
<1>1. CASE Fire
  <2>1. ASSUME NEW f \in Callers, FireOpen(f)
        PROVE  SupInv'
    <3>1. SUFFICES ASSUME "tickStall" \notin Faults
                   PROVE  TickInv' /\ \A g \in Guns : Timely(g)'
      BY DEF SupInv
    <3>2. TickInv'
      BY <2>1, <3>1 DEF FireOpen, SupInv, TickInv, tickVars, walkVars
    <3>3. ASSUME NEW g \in Guns
          PROVE  Timely(g)'
      <4>1. SupAge(g)' = SupAge(g) /\ SupAge(g) \in Nat
        BY <2>1 DEF FireOpen, SupAge, tickVars, walkVars, TypeInv, TypeOK, TimerTypeOK
      <4>2. CASE g = firing[f].gun
        BY <2>1, <4>1, <4>2 DEF FireOpen, Timely, Open, TypeInv, TypeOK, GunTypeOK,
           FiringTypeOK
      <4>3. CASE g # firing[f].gun
        <5>1. SameOrClosed(g)
          BY <2>1, <4>3 DEF FireOpen, SameOrClosed, TypeInv, TypeOK, GunTypeOK
        <5>2. QED
          BY <3>1, <4>1, <5>1, TimelyKept DEF SupInv
      <4>4. QED
        BY <4>2, <4>3
    <3>4. QED
      BY <3>2, <3>3
  <2>2. ASSUME ~\E f \in Callers : FireOpen(f)
        PROVE  /\ UNCHANGED <<tickVars, lock, cursor>>
               /\ \A g \in Guns : SameOrClosed(g)
    BY <1>1, <2>2 DEF Fire, FireBegin, FireCheck, FireWritten, FireRefused, gunVars,
       walkVars, SameOrClosed
  <2>3. QED
    BY <2>1, <2>2, QuietTimely
<1>2. CASE OnCloseAlarm \/ \E C \in SUBSET Guns : Abort(C)
  <2>1. UNCHANGED <<tickVars, lock, cursor>>
    BY <1>2 DEF OnCloseAlarm, Abort, walkVars
  <2>2. \A g \in Guns : SameOrClosed(g)
    <3>1. PICK C \in SUBSET Guns, late \in Nat : CloseLocked(C, late)
      BY <1>2, AbortIsLate DEF OnCloseAlarm, Due
    <3>2. QED
      BY <3>1 DEF CloseLocked, Shut, SameOrClosed
  <2>3. QED
    BY <2>1, <2>2, QuietTimely
<1>3. ASSUME NEW g \in Guns, PeakIsr(g)
      PROVE  SupInv'
  <2>1. SUFFICES ASSUME "tickStall" \notin Faults
                 PROVE  TickInv' /\ \A h \in Guns : Timely(h)'
    BY DEF SupInv
  <2>2. TickInv'
    BY <1>3, <2>1 DEF PeakIsr, SupInv, TickInv, tickVars, walkVars
  <2>3. ASSUME NEW h \in Guns
        PROVE  Timely(h)'
    <3>1. SupAge(h)' = SupAge(h)
      BY <1>3 DEF PeakIsr, SupAge, tickVars, walkVars
    <3>2. QED
      BY <1>3, <2>1, <3>1 DEF PeakIsr, SupInv, Timely, Open, TypeInv, TypeOK, GunTypeOK
  <2>4. QED
    BY <2>2, <2>3
<1>4. CASE Supervise
  <2>1. SUFFICES ASSUME "tickStall" \notin Faults
                 PROVE  TickInv' /\ \A g \in Guns : Timely(g)'
    BY DEF SupInv
  <2>2. TickInv /\ \A g \in Guns : Timely(g)
    BY <2>1 DEF SupInv
  <2>3. CASE SupBegin
    <3>1. tickAge = TickPeriod /\ tickAge' = 0 /\ ticked' /\ lock' = "sup" /\ cursor' = 1
            /\ lock = "free" /\ tickOn' = tickOn
      BY <2>2, <2>3 DEF SupBegin, TickInv, TypeInv, TypeOK, TimerTypeOK
    <3>2. TickInv'
      BY <2>2, <3>1 DEF TickInv
    <3>3. ASSUME NEW g \in Guns
          PROVE  Timely(g)'
      <4>1. SupAge(g) = TickPeriod /\ SupAge(g)' = TickPeriod
        BY <3>1 DEF SupAge, Guns
      <4>2. SameOrClosed(g)
        BY <2>3 DEF SupBegin, gunVars, SameOrClosed
      <4>3. QED
        BY <2>2, <4>1, <4>2, TimelyKept
    <3>4. QED
      BY <3>2, <3>3
  <2>4. CASE SupEnd
    <3>1. TickInv'
      BY <2>2, <2>4 DEF SupEnd, WalkEnds, TickInv, tickVars
    <3>2. ASSUME NEW g \in Guns
          PROVE  Timely(g)'
      <4>1. cursor > NumGuns /\ cursor \in Int /\ NumGuns \in Int /\ g \in Int /\ g <= NumGuns
        BY <2>4, DacAssumption
           DEF DacAssumption, SupEnd, Guns, TypeInv, TypeOK, TimerTypeOK
      <4>2. SupAge(g) = tickAge /\ SupAge(g)' = tickAge /\ tickAge \in Nat
        BY <2>4, <4>1 DEF SupEnd, WalkEnds, SupAge, tickVars, TypeInv, TypeOK, TimerTypeOK
      <4>3. SameOrClosed(g)
        BY <2>4 DEF SupEnd, gunVars, SameOrClosed
      <4>4. QED
        BY <2>2, <4>2, <4>3, TimelyKept
    <3>3. QED
      BY <3>1, <3>2
  <2>5. ASSUME NEW g \in Guns, SupCloseLate(g) \/ SupPickTimeout(g)
        PROVE  TickInv' /\ \A h \in Guns : Timely(h)'
    <3>1. lock = "sup" /\ cursor = g /\ WalkOn(g, "sup") /\ UNCHANGED tickVars
      BY <2>5 DEF SupCloseLate, SupPickTimeout, SupLate, SupOpen, SupAt
    <3>2. phase'[g] = "Idle" /\ \A h \in Guns : SameOrClosed(h)
      BY <2>5, CloseAndTripSame DEF SupCloseLate, SupPickTimeout
    <3>3. QED
      BY <2>2, <3>1, <3>2, WalkOnTimely
  <2>6. ASSUME NEW g \in Guns, SupHoldOk(g)
        PROVE  TickInv' /\ \A h \in Guns : Timely(h)'
    <3>1. /\ lock = "sup" /\ cursor = g /\ cursor' = g + 1 /\ lock' = "sup" /\ g \in Int
          /\ UNCHANGED tickVars /\ Open(g) /\ ~SupOverdue(g) /\ phase[g] = "Hold"
          /\ UNCHANGED <<phase, left, fireAge>> /\ holdOk' = [holdOk EXCEPT ![g] = TRUE]
      BY <2>6 DEF SupHoldOk, SupOpen, SupAt, HoldConfirmed, WalkOn, Guns
    <3>2. TickInv' /\ tickAge' = 0 /\ tickAge = 0
      BY <2>2, <3>1 DEF TickInv, tickVars
    <3>3. ASSUME NEW h \in Guns, h # g
          PROVE  Timely(h)'
      <4>1. SupAge(h)' = SupAge(h) /\ SupAge(h) \in Nat
        BY <3>1, <3>2, <3>3 DEF SupAge, Guns
      <4>2. SameOrClosed(h)
        BY <3>1, <3>3 DEF SameOrClosed, TypeInv, TypeOK, GunTypeOK
      <4>3. QED
        BY <2>2, <4>1, <4>2, TimelyKept
    <3>4. Timely(g)'
      <4>1. SupAge(g)' = 0
        BY <3>1, <3>2 DEF SupAge
      <4>2. QED
        BY <3>1, <4>1 DEF Timely, Open, SupOverdue, OverdueBy, TypeInv, TypeOK, GunTypeOK
    <3>5. QED
      BY <3>2, <3>3, <3>4
  <2>7. ASSUME NEW g \in Guns, SupLeaveOpen(g)
        PROVE  TickInv' /\ \A h \in Guns : Timely(h)'
    <3>1. lock = "sup" /\ cursor = g /\ WalkOn(g, "sup") /\ UNCHANGED tickVars
            /\ ~SupOverdue(g) /\ (holdOk[g] \/ ~PickOverdue(g))
      BY <2>7 DEF SupLeaveOpen, SupOpen, SupAt
    <3>2. \A h \in Guns : SameOrClosed(h)
      BY <2>7 DEF SupLeaveOpen, gunVars, SameOrClosed
    <3>3. QED
      BY <2>2, <3>1, <3>2, WalkOnTimely
  <2>8. ASSUME NEW g \in Guns, SupStray(g)
        PROVE  TickInv' /\ \A h \in Guns : Timely(h)'
    <3>1. /\ lock = "sup" /\ lock' = "supDecay" /\ cursor' = cursor /\ UNCHANGED tickVars
      BY <2>8 DEF SupStray, SupAt
    <3>2. TickInv'
      BY <2>2, <3>1 DEF TickInv, tickVars
    <3>3. ASSUME NEW h \in Guns
          PROVE  Timely(h)'
      <4>1. SupAge(h)' = SupAge(h) /\ SupAge(h) \in Nat
        BY <3>1 DEF SupAge, tickVars, TypeInv, TypeOK, TimerTypeOK
      <4>2. QED
        BY <2>2, <2>8, <4>1, TimelyKept, StrayAndTripSame DEF SupStray
    <3>4. QED
      BY <3>2, <3>3
  <2>9. ASSUME NEW g \in Guns,
               SupNoDecay(g) \/ SupDecayLow(g) \/ SupDecayHigh(g) \/ SupDecayTimeout(g)
        PROVE  TickInv' /\ \A h \in Guns : Timely(h)'
    <3>1. lock \in {"sup", "supDecay"} /\ cursor = g /\ WalkOn(g, "sup")
            /\ UNCHANGED tickVars /\ ~Open(g)
      BY <2>9 DEF SupNoDecay, SupDecayLow, SupDecayHigh, SupDecayTimeout, SupIdle
    <3>2. \A h \in Guns : SameOrClosed(h)
      <4>1. CASE SupNoDecay(g) \/ SupDecayLow(g) \/ SupDecayHigh(g)
        BY <4>1 DEF SupNoDecay, SupDecayLow, SupDecayHigh, gunVars, SameOrClosed
      <4>2. CASE SupDecayTimeout(g) /\ StopsMachine(g)
        BY <4>2 DEF SupDecayTimeout, StopAllLocked, Shut, SameOrClosed
      <4>3. CASE SupDecayTimeout(g) /\ ~StopsMachine(g)
        BY <4>3 DEF SupDecayTimeout, SameOrClosed
      <4>4. QED
        BY <2>9, <4>1, <4>2, <4>3
    <3>3. QED
      BY <2>2, <3>1, <3>2, WalkOnTimely
  <2>10. QED
    BY <1>4, <2>3, <2>4, <2>5, <2>6, <2>7, <2>8, <2>9 DEF Supervise
<1>5. CASE Check
  <2>1. SUFFICES ASSUME "tickStall" \notin Faults
                 PROVE  TickInv' /\ \A g \in Guns : Timely(g)'
    BY DEF SupInv
  <2>2. TickInv /\ \A g \in Guns : Timely(g)
    BY <2>1 DEF SupInv
  <2>3. UNCHANGED <<tickOn, tickAge>> /\ (ticked' \/ seenAge' <= tickAge')
    <3>1. CASE ChkEnd
      <4>1. ~TickStalled
        BY <2>2, TimingAssumption
           DEF TimingAssumption, TickStalled, TickInv, TypeInv, TypeOK, TimerTypeOK
      <4>2. CASE ticked
        BY <3>1, <4>2 DEF ChkEnd, ChkTick, TypeInv, TypeOK, TimerTypeOK
      <4>3. CASE ~ticked
        BY <2>2, <3>1, <4>1, <4>3 DEF ChkEnd, ChkTick, TickInv
      <4>4. QED
        BY <4>2, <4>3
    <3>2. CASE ~ChkEnd
      BY <1>5, <2>2, <3>2 DEF Check, ChkBegin, ChkCloseLate, ChkStray, ChkFine, tickVars,
         TickInv
    <3>3. QED
      BY <3>1, <3>2
  <2>4. lock \notin {"sup", "supDecay"} /\ lock' \notin {"sup", "supDecay"}
    BY <1>5 DEF Check, ChkBegin, ChkEnd, ChkCloseLate, ChkStray, ChkFine, ChkAt, WalkOn,
       WalkEnds
  <2>5. \A g \in Guns : SameOrClosed(g)
    <3>1. ASSUME NEW g \in Guns, ChkCloseLate(g) \/ ChkStray(g)
          PROVE  \A h \in Guns : SameOrClosed(h)
      BY <3>1, CloseAndTripSame, StrayAndTripSame DEF ChkCloseLate, ChkStray
    <3>2. CASE ChkBegin \/ ChkEnd \/ \E g \in Guns : ChkFine(g)
      BY <3>2 DEF ChkBegin, ChkEnd, ChkFine, gunVars, SameOrClosed
    <3>3. QED
      BY <1>5, <3>1, <3>2 DEF Check
  <2>6. TickInv'
    BY <2>2, <2>3, <2>4 DEF TickInv
  <2>7. ASSUME NEW g \in Guns
        PROVE  Timely(g)'
    <3>1. SupAge(g)' = SupAge(g) /\ SupAge(g) \in Nat
      BY <2>3, <2>4 DEF SupAge, TypeInv, TypeOK, TimerTypeOK
    <3>2. QED
      BY <2>2, <2>5, <3>1, TimelyKept
  <2>8. QED
    BY <2>6, <2>7
<1>6. CASE Pass
  <2>1. SUFFICES ASSUME "tickStall" \notin Faults
                 PROVE  TickInv' /\ \A g \in Guns : Timely(g)'
    BY DEF SupInv
  <2>2. tickAge < TickPeriod /\ tickAge' = tickAge + 1 /\ lock = "free" /\ lock' = "free"
    BY <1>6, <2>1 DEF Pass, MayPass, SupInv, TickInv, walkVars
  <2>3. TickInv'
    BY <1>6, <2>1, <2>2 DEF Pass, SupInv, TickInv, TypeInv, TypeOK, TimerTypeOK
  <2>4. ASSUME NEW g \in Guns
        PROVE  Timely(g)'
    <3>1. SupAge(g)' = SupAge(g) + 1 /\ SupAge(g) \in Nat
      BY <2>2 DEF SupAge, TypeInv, TypeOK, TimerTypeOK
    <3>2. CASE Open(g)
      <4>1. left'[g] = left[g] - 1 /\ fireAge'[g] <= fireAge[g] + 1 /\ fireAge'[g] \in Nat
        BY <1>6, <3>2 DEF Pass, Older, TypeInv, TypeOK, GunTypeOK
      <4>2. QED
        BY <1>6, <2>1, <3>1, <3>2, <4>1
           DEF Pass, SupInv, Timely, Open, TypeInv, TypeOK, GunTypeOK
    <3>3. CASE ~Open(g)
      BY <1>6, <3>3 DEF Pass, Timely, Open
    <3>4. QED
      BY <3>2, <3>3
  <2>5. QED
    BY <2>3, <2>4
<1>7. CASE TickStops
  BY <1>7 DEF TickStops, SupInv
<1>8. CASE KillAll \/ OnActivate \/ FlagStore \/ (\E v \in Versions : OnConfigApplied(v))
           \/ AlarmMissed \/ (\E g \in Guns : In1Glitch(g)) \/ Dacs \/ UNCHANGED vars
  BY <1>8, QuietTimely
     DEF KillAll, OnActivate, FlagStore, OnConfigApplied, AlarmMissed, In1Glitch, Dacs, vars,
         seqVars, gunVars, walkVars, SameOrClosed
<1>9. QED
  BY <1>1, <1>2, <1>3, <1>4, <1>5, <1>6, <1>7, <1>8 DEF Next, Firmware, Hardware

LEMMA SupInvariant == Spec => []SupInv
<1>1. Init => SupInv
  BY SequencerAssumption
     DEF SequencerAssumption, Init, SupInv, TickInv, Timely, Open
<1>2. QED
  BY <1>1, SupStep, TypeInvariant, PTL DEF Spec

\* No coil stays on the pick current, or on an unconfirmed hold threshold, for
\* more than one tick past the pick limit.
THEOREM PickLimitCorrect == Spec => []PickCurrentLimited
<1>1. TypeInv /\ SupInv => PickCurrentLimited
  BY SequencerAssumption
     DEF SequencerAssumption, SupInv, TickInv, Timely, SupAge, PickCurrentLimited, Open,
         TypeInv, TypeOK, GunTypeOK, TimerTypeOK
<1>2. QED
  BY <1>1, TypeInvariant, SupInvariant, PTL

\* A tick that runs is counted before the checker could miss it.
RestartInv == tickOn => tickAge <= TickPeriod /\ (ticked \/ seenAge <= tickAge)

LEMMA RestartInvariant == Spec => []RestartInv
<1>1. Init => RestartInv
  BY SequencerAssumption DEF SequencerAssumption, Init, RestartInv
<1>2. TypeInv /\ RestartInv /\ [Next]_vars => RestartInv'
  <2> SUFFICES ASSUME TypeInv, RestartInv, [Next]_vars  PROVE RestartInv'
    OBVIOUS
  <2> USE SequencerAssumption DEF SequencerAssumption
  <2>1. CASE UNCHANGED vars \/ Dacs
    BY <2>1 DEF vars, Dacs, seqVars, tickVars, RestartInv
  <2> DEFINE Still == UNCHANGED <<tickOn, tickAge, ticked, seenAge>>
  <2>2. CASE Fire \/ OnCloseAlarm \/ Firmware
    <3>1. Still
      BY <2>2 DEF Fire, FireBegin, FireCheck, FireWritten, FireOpen, FireRefused,
         OnCloseAlarm, Firmware, Abort, KillAll, OnConfigApplied, OnActivate, FlagStore,
         tickVars
    <3>2. QED
      BY <3>1 DEF RestartInv
  <2>3. CASE Supervise
    <3>1. CASE SupBegin
      BY <3>1 DEF SupBegin, RestartInv
    <3>2. ASSUME ~SupBegin  PROVE Still
      BY <2>3, <3>2 DEF Supervise, SupEnd, SupCloseLate, SupHoldOk, SupPickTimeout,
         SupLeaveOpen, SupStray, SupNoDecay, SupDecayLow, SupDecayHigh, SupDecayTimeout,
         tickVars
    <3>3. QED
      BY <3>1, <3>2 DEF RestartInv
  <2>4. CASE Check
    <3>1. CASE ChkEnd
      <4> tickAge \in Nat
        BY DEF TypeInv, TypeOK, TimerTypeOK
      <4>1. CASE ticked
        <5>1. seenAge' = 0 /\ UNCHANGED <<tickOn, tickAge>>
          BY <3>1, <4>1 DEF ChkEnd, ChkTick
        <5>2. QED
          BY <5>1 DEF RestartInv
      <4>2. CASE ~ticked /\ TickStalled
        <5>1. seenAge' = 0 /\ tickAge' = 0
          BY <3>1, <4>2 DEF ChkEnd, ChkTick
        <5>2. QED
          BY <5>1 DEF RestartInv
      <4>3. CASE ~ticked /\ ~TickStalled
        BY <3>1, <4>3 DEF ChkEnd, ChkTick, RestartInv
      <4>4. QED
        BY <4>1, <4>2, <4>3
    <3>2. ASSUME ~ChkEnd  PROVE Still
      BY <2>4, <3>2 DEF Check, ChkBegin, ChkCloseLate, ChkStray, ChkFine, tickVars
    <3>3. QED
      BY <3>1, <3>2 DEF RestartInv
  <2>5. CASE Hardware
    <3>1. CASE Pass
      <4>1. ticked' = ticked /\ tickOn' = tickOn /\ tickAge' = tickAge + 1
            /\ seenAge' \in {seenAge, seenAge + 1}
        BY <3>1 DEF Pass
      <4>2. tickOn => tickAge < TickPeriod
        BY <3>1 DEF Pass, MayPass
      <4>3. tickAge \in Nat /\ seenAge \in Nat
        BY DEF TypeInv, TypeOK, TimerTypeOK
      <4>4. QED
        BY <4>1, <4>2, <4>3 DEF RestartInv
    <3>2. CASE TickStops
      BY <3>2 DEF TickStops, RestartInv
    <3>3. ASSUME ~Pass, ~TickStops  PROVE Still
      BY <2>5, <3>3 DEF Hardware, PeakIsr, In1Glitch, AlarmMissed, tickVars
    <3>4. QED
      BY <3>1, <3>2, <3>3 DEF RestartInv
  <2>6. QED
    BY <2>1, <2>2, <2>3, <2>4, <2>5 DEF Next
<1>3. QED
  BY <1>1, <1>2, TypeInvariant, PTL DEF Spec

\* However late and back to back the checker runs, and however often it had to
\* restart the tick before, it takes the tick for stalled only when it is.
THEOREM RestartCorrect == Spec => RestartOnlyIfStalled
<1>1. TypeInv /\ RestartInv /\ [Next]_vars =>
        [(tickOn /\ lock = "chk") => tickAge' = tickAge]_vars
  <2> SUFFICES ASSUME TypeInv, RestartInv, [Next]_vars, tickOn, lock = "chk"
               PROVE  tickAge' = tickAge
    OBVIOUS
  <2>1. ~TickStalled
    BY TimingAssumption, SequencerAssumption
       DEF TimingAssumption, SequencerAssumption, TickStalled, RestartInv, TypeInv,
           TypeOK, TimerTypeOK
  <2>2. CASE Check
    BY <2>1, <2>2 DEF Check, ChkBegin, ChkCloseLate, ChkStray, ChkFine, ChkEnd, ChkTick,
       tickVars
  <2>3. CASE Fire \/ OnCloseAlarm \/ Firmware
    BY <2>3 DEF Fire, FireBegin, FireCheck, FireWritten, FireOpen, FireRefused,
       OnCloseAlarm, Firmware, Abort, KillAll, OnConfigApplied, OnActivate, FlagStore,
       tickVars
  <2>4. ~Supervise
    BY DEF Supervise, SupBegin, SupEnd, SupCloseLate, SupHoldOk, SupPickTimeout,
       SupLeaveOpen, SupStray, SupNoDecay, SupDecayLow, SupDecayHigh, SupDecayTimeout,
       SupLate, SupOpen, SupAt, SupIdle
  <2>5. CASE Dacs \/ Hardware \/ UNCHANGED vars
    BY <2>5 DEF Dacs, Hardware, PeakIsr, In1Glitch, AlarmMissed, TickStops, Pass, MayPass,
       vars, seqVars, tickVars
  <2>6. QED
    BY <2>2, <2>3, <2>4, <2>5 DEF Next
<1>2. QED
  BY <1>1, TypeInvariant, RestartInvariant, PTL DEF Spec, RestartOnlyIfStalled

----------------------------------------------------------------------------
(* The Core 0 checker as the last resort, whatever fails on Core 1.        *)

\* Time since the checker was last due at gun g.
ChkAge(g) ==
    IF lock = "chk" /\ g >= cursor THEN checkAge + CheckerPeriod ELSE checkAge

ChkTimely(g) == Open(g) => -left[g] < CheckerGrace + ChkAge(g)

ChkInv ==
    "checker" \in Inputs =>
        /\ checkAge <= CheckerPeriod + CheckerLate
        /\ lock = "chk" => checkAge <= CheckerLate
        /\ \A g \in Guns : ChkTimely(g)

LEMMA ChkTimelyKept ==
    ASSUME TypeInv, NEW g \in Guns, ChkTimely(g), SameOrClosed(g), ChkAge(g)' >= ChkAge(g),
           ChkAge(g)' \in Nat
    PROVE  ChkTimely(g)'
<1>1. ChkAge(g) \in Nat /\ left[g] \in Int
  BY SequencerAssumption
     DEF SequencerAssumption, ChkAge, TypeInv, TypeOK, TimerTypeOK, GunTypeOK
<1> HIDE DEF ChkAge
<1>2. QED
  BY <1>1, SequencerAssumption DEF SequencerAssumption, ChkTimely, SameOrClosed, Open

\* Steps other than those of the checker's walk.
LEMMA ChkQuiet ==
    ASSUME TypeInv, ChkInv, UNCHANGED checkAge, \A g \in Guns : SameOrClosed(g),
           (lock # "chk" /\ lock' # "chk") \/ UNCHANGED <<lock, cursor>>
    PROVE  ChkInv'
<1>1. ASSUME NEW g \in Guns
      PROVE  ChkAge(g)' = ChkAge(g) /\ ChkAge(g) \in Nat
  BY SequencerAssumption DEF SequencerAssumption, ChkAge, TypeInv, TypeOK, TimerTypeOK
<1>2. ASSUME "checker" \in Inputs
      PROVE  \A g \in Guns : ChkTimely(g)'
  BY <1>1, <1>2, ChkTimelyKept DEF ChkInv, TypeInv, TypeOK, TimerTypeOK
<1>3. QED
  BY <1>2 DEF ChkInv

LEMMA ChkStep == TypeInv /\ ChkInv /\ [Next]_vars => ChkInv'
<1> SUFFICES ASSUME TypeInv, ChkInv, [Next]_vars
             PROVE  ChkInv'
  OBVIOUS
<1> USE SequencerAssumption DEF SequencerAssumption
<1>1. CASE Fire
  <2>1. ASSUME NEW f \in Callers, FireOpen(f)
        PROVE  ChkInv'
    <3>1. ASSUME NEW g \in Guns, "checker" \in Inputs
          PROVE  ChkTimely(g)'
      <4>1. ChkAge(g)' = ChkAge(g) /\ ChkAge(g) \in Nat
        BY <2>1 DEF FireOpen, ChkAge, tickVars, walkVars, TypeInv, TypeOK, TimerTypeOK
      <4>2. CASE g = firing[f].gun
        <5>1. left'[g] \in Nat
          BY <2>1, <4>2 DEF FireOpen, TypeInv, TypeOK, GunTypeOK, FiringTypeOK
        <5>2. QED
          BY <4>1, <5>1 DEF ChkTimely
      <4>3. CASE g # firing[f].gun
        <5>1. SameOrClosed(g)
          BY <2>1, <4>3 DEF FireOpen, SameOrClosed, TypeInv, TypeOK, GunTypeOK
        <5>2. QED
          BY <3>1, <4>1, <5>1, ChkTimelyKept DEF ChkInv
      <4>4. QED
        BY <4>2, <4>3
    <3>2. QED
      BY <2>1, <3>1 DEF ChkInv, FireOpen, tickVars, walkVars
  <2>2. ASSUME ~\E f \in Callers : FireOpen(f)
        PROVE  /\ UNCHANGED <<checkAge, lock, cursor>>
               /\ \A g \in Guns : SameOrClosed(g)
    BY <1>1, <2>2 DEF Fire, FireBegin, FireCheck, FireWritten, FireRefused, gunVars,
       tickVars, walkVars, SameOrClosed
  <2>3. QED
    BY <2>1, <2>2, ChkQuiet
<1>2. CASE OnCloseAlarm \/ \E C \in SUBSET Guns : Abort(C)
  <2>1. PICK C \in SUBSET Guns, late \in Nat : CloseLocked(C, late)
    BY <1>2, AbortIsLate DEF OnCloseAlarm, Due
  <2>2. UNCHANGED <<checkAge, lock, cursor>>
    BY <1>2 DEF OnCloseAlarm, Abort, tickVars, walkVars
  <2>3. \A g \in Guns : SameOrClosed(g)
    BY <2>1 DEF CloseLocked, Shut, SameOrClosed
  <2>4. QED
    BY <2>2, <2>3, ChkQuiet
<1>3. ASSUME NEW g \in Guns, PeakIsr(g)
      PROVE  ChkInv'
  <2>1. UNCHANGED <<checkAge, lock, cursor, left>>
          /\ \A h \in Guns : phase'[h] # "Idle" => phase[h] # "Idle"
    BY <1>3 DEF PeakIsr, tickVars, walkVars, TypeInv, TypeOK, GunTypeOK
  <2>2. QED
    BY <2>1 DEF ChkInv, ChkTimely, ChkAge, Open
<1>4. CASE Supervise
  <2>1. UNCHANGED checkAge /\ lock # "chk" /\ lock' # "chk"
    BY <1>4
       DEF Supervise, SupBegin, SupEnd, SupCloseLate, SupHoldOk, SupPickTimeout,
           SupLeaveOpen, SupStray, SupNoDecay, SupDecayLow, SupDecayHigh, SupDecayTimeout,
           SupLate, SupOpen, SupAt, SupIdle, WalkOn, WalkEnds, tickVars
  <2>2. ASSUME NEW g \in Guns
        PROVE  phase'[g] = "Idle" \/ (phase'[g] = phase[g] /\ left'[g] = left[g])
    <3>1. ASSUME NEW h \in Guns, SupCloseLate(h) \/ SupPickTimeout(h) \/ SupStray(h)
          PROVE  SameOrClosed(g)
      BY <3>1, CloseAndTripSame, StrayAndTripSame
         DEF SupCloseLate, SupPickTimeout, SupStray
    <3>2. ASSUME NEW h \in Guns, SupDecayTimeout(h), StopsMachine(h)
          PROVE  phase'[g] = "Idle"
      BY <3>2 DEF SupDecayTimeout, StopAllLocked, Shut
    <3>3. ASSUME NEW h \in Guns, SupDecayTimeout(h), ~StopsMachine(h)
          PROVE  UNCHANGED <<phase, left>>
      BY <3>3 DEF SupDecayTimeout
    <3>4. CASE SupBegin \/ SupEnd
                \/ \E h \in Guns : \/ SupHoldOk(h) \/ SupLeaveOpen(h) \/ SupNoDecay(h)
                                   \/ SupDecayLow(h) \/ SupDecayHigh(h)
      BY <3>4 DEF SupBegin, SupEnd, SupHoldOk, SupLeaveOpen, SupNoDecay, SupDecayLow,
         SupDecayHigh, gunVars
    <3>5. QED
      BY <1>4, <3>1, <3>2, <3>3, <3>4 DEF Supervise, SameOrClosed
  <2>3. QED
    BY <2>1, <2>2 DEF ChkInv, ChkTimely, ChkAge, Open
<1>5. CASE Check
  <2>1. SUFFICES ASSUME "checker" \in Inputs
                 PROVE  /\ checkAge' <= CheckerPeriod + CheckerLate
                        /\ lock' = "chk" => checkAge' <= CheckerLate
                        /\ \A g \in Guns : ChkTimely(g)'
    BY DEF ChkInv
  <2>2. /\ checkAge <= CheckerPeriod + CheckerLate
        /\ lock = "chk" => checkAge <= CheckerLate
        /\ \A g \in Guns : ChkTimely(g)
        /\ checkAge \in Nat
    BY <2>1 DEF ChkInv, TypeInv, TypeOK, TimerTypeOK
  <2>3. CASE ChkBegin
    <3>1. /\ checkAge' = checkAge - CheckerPeriod /\ checkAge >= CheckerPeriod
          /\ lock' = "chk" /\ cursor' = 1 /\ lock # "chk"
      BY <2>3 DEF ChkBegin
    <3>2. ASSUME NEW g \in Guns
          PROVE  ChkTimely(g)'
      <4>1. ChkAge(g)' = ChkAge(g) /\ ChkAge(g) \in Nat
        BY <2>2, <3>1 DEF ChkAge, Guns
      <4>2. SameOrClosed(g)
        BY <2>3 DEF ChkBegin, gunVars, SameOrClosed
      <4>3. QED
        BY <2>2, <4>1, <4>2, ChkTimelyKept
    <3>3. QED
      BY <2>2, <3>1, <3>2
  <2>4. CASE ChkEnd
    <3>1. UNCHANGED checkAge /\ lock' = "free"
      BY <2>4 DEF ChkEnd, WalkEnds
    <3>2. ASSUME NEW g \in Guns
          PROVE  ChkTimely(g)'
      <4>1. cursor > NumGuns /\ cursor \in Int /\ NumGuns \in Int /\ g \in Int /\ g <= NumGuns
        BY <2>4, DacAssumption
           DEF DacAssumption, ChkEnd, Guns, TypeInv, TypeOK, TimerTypeOK
      <4>2. ChkAge(g)' = ChkAge(g) /\ ChkAge(g) \in Nat
        BY <2>2, <3>1, <4>1 DEF ChkAge
      <4>3. SameOrClosed(g)
        BY <2>4 DEF ChkEnd, gunVars, SameOrClosed
      <4>4. QED
        BY <2>2, <4>2, <4>3, ChkTimelyKept
    <3>3. QED
      BY <2>2, <3>1, <3>2
  <2>5. ASSUME NEW g \in Guns, ChkCloseLate(g) \/ ChkStray(g) \/ ChkFine(g)
        PROVE  \A h \in Guns : ChkTimely(h)'
    <3>1. /\ lock = "chk" /\ cursor = g /\ lock' = "chk" /\ cursor' = g + 1 /\ g \in Int
          /\ UNCHANGED checkAge
      BY <2>5 DEF ChkCloseLate, ChkStray, ChkFine, ChkAt, WalkOn, tickVars, Guns
    <3>2. \A h \in Guns : SameOrClosed(h)
      <4>1. CASE ChkFine(g)
        BY <4>1 DEF ChkFine, gunVars, SameOrClosed
      <4>2. CASE ChkCloseLate(g) \/ ChkStray(g)
        BY <4>2, CloseAndTripSame, StrayAndTripSame DEF ChkCloseLate, ChkStray
      <4>3. QED
        BY <2>5, <4>1, <4>2
    <3>3. ASSUME NEW h \in Guns, h # g
          PROVE  ChkTimely(h)'
      <4>1. h \in Int
        BY DEF Guns
      <4>2. ChkAge(h)' = ChkAge(h) /\ ChkAge(h) \in Nat
        BY <2>2, <3>1, <3>3, <4>1 DEF ChkAge
      <4>3. QED
        BY <2>2, <3>2, <4>2, ChkTimelyKept
    <3>4. ChkTimely(g)'
      <4>1. ChkAge(g)' = checkAge
        BY <3>1 DEF ChkAge
      <4>2. CASE phase'[g] = "Idle"
        BY <4>2 DEF ChkTimely, Open
      <4>3. CASE phase'[g] # "Idle"
        <5>1. Open(g) /\ left'[g] = left[g]
          BY <3>2, <4>3 DEF SameOrClosed, Open
        <5>2. ~ChkOverdue(g)
          BY <2>5, <4>3, <5>1, CloseAndTripSame DEF ChkCloseLate, ChkStray, ChkFine
        <5>3. QED
          BY <2>2, <4>1, <5>1, <5>2
             DEF ChkTimely, ChkOverdue, OverdueBy, TypeInv, TypeOK, GunTypeOK
      <4>4. QED
        BY <4>2, <4>3
    <3>5. QED
      BY <3>3, <3>4
  <2>6. ASSUME NEW g \in Guns, ChkCloseLate(g) \/ ChkStray(g) \/ ChkFine(g)
        PROVE  UNCHANGED checkAge /\ lock = "chk"
    BY <2>6 DEF ChkCloseLate, ChkStray, ChkFine, ChkAt, tickVars
  <2>7. QED
    BY <1>5, <2>2, <2>3, <2>4, <2>5, <2>6 DEF Check
<1>6. CASE Pass
  <2>1. SUFFICES ASSUME "checker" \in Inputs
                 PROVE  /\ checkAge' <= CheckerPeriod + CheckerLate
                        /\ lock' = "chk" => checkAge' <= CheckerLate
                        /\ \A g \in Guns : ChkTimely(g)'
    BY DEF ChkInv
  <2>2. /\ checkAge < CheckerPeriod + CheckerLate /\ checkAge' = checkAge + 1
        /\ checkAge \in Nat /\ lock = "free" /\ lock' = "free"
    BY <1>6, <2>1 DEF Pass, MayPass, walkVars, TypeInv, TypeOK, TimerTypeOK
  <2>3. ASSUME NEW g \in Guns
        PROVE  ChkTimely(g)'
    <3>1. ChkAge(g) = checkAge /\ ChkAge(g)' = checkAge + 1
      BY <2>2 DEF ChkAge
    <3>2. Open(g) => left'[g] = left[g] - 1
      BY <1>6 DEF Pass
    <3>3. QED
      BY <1>6, <2>1, <2>2, <3>1, <3>2
         DEF Pass, ChkInv, ChkTimely, Open, TypeInv, TypeOK, GunTypeOK
  <2>4. QED
    BY <2>2, <2>3
<1>7. CASE KillAll \/ OnActivate \/ FlagStore \/ (\E v \in Versions : OnConfigApplied(v))
           \/ AlarmMissed \/ TickStops \/ (\E g \in Guns : In1Glitch(g)) \/ Dacs
           \/ UNCHANGED vars
  BY <1>7, ChkQuiet
     DEF KillAll, OnActivate, FlagStore, OnConfigApplied, AlarmMissed, TickStops, In1Glitch,
         Dacs, vars, seqVars, gunVars, tickVars, walkVars, SameOrClosed
<1>8. QED
  BY <1>1, <1>2, <1>3, <1>4, <1>5, <1>6, <1>7 DEF Next, Firmware, Hardware

\* A drop closes within the supervisor's grace and a tick of its end while the
\* tick runs, and in any case within the checker's grace and one late checker
\* run, even if the close alarm never comes and the supervisor tick has stopped.
THEOREM ClosedCorrect == Spec => []ClosedInTime
<1>1. Init => ChkInv
  BY SequencerAssumption DEF SequencerAssumption, Init, ChkInv, ChkTimely, Open
<1>2. Spec => []ChkInv
  BY <1>1, ChkStep, TypeInvariant, PTL DEF Spec
<1>3. TypeInv /\ SupInv /\ ChkInv => ClosedInTime
  <2> SUFFICES ASSUME TypeInv, SupInv, ChkInv, NEW g \in Guns, Open(g)
               PROVE  /\ "tickStall" \notin Faults =>
                             -left[g] < SupervisorGrace + TickPeriod
                      /\ "checker" \in Inputs =>
                             -left[g] < CheckerGrace + CheckerPeriod + CheckerLate
    BY DEF ClosedInTime
  <2> USE SequencerAssumption DEF SequencerAssumption
  <2>1. left[g] \in Int /\ tickAge \in Nat /\ checkAge \in Nat
    BY DEF TypeInv, TypeOK, GunTypeOK, TimerTypeOK
  <2>2. ASSUME "tickStall" \notin Faults
        PROVE  -left[g] < SupervisorGrace + TickPeriod
    BY <2>1, <2>2 DEF SupInv, TickInv, Timely, SupAge
  <2>3. ASSUME "checker" \in Inputs
        PROVE  -left[g] < CheckerGrace + CheckerPeriod + CheckerLate
    BY <2>1, <2>3 DEF ChkInv, ChkTimely, ChkAge
  <2>4. QED
    BY <2>2, <2>3
<1>4. QED
  BY <1>2, <1>3, TypeInvariant, SupInvariant, PTL

----------------------------------------------------------------------------
(* The supervisor ends every decay: the comparator can hold it off by at   *)
(* most DecayLowTicks - 1 low readings past the limit.                     *)

\* A reading of low current delays the end of a decay by a tick, and there are
\* at most DecayLowTicks of them in a row.
DecayTimely(g) ==
    decaying[g] =>
        /\ lowTicks[g] < DecayLowTicks
        /\ decayAge[g] < DecayMax + lowTicks[g] * TickPeriod + SupAge(g)

DecayInv == "tickStall" \notin Faults => \A g \in Guns : DecayTimely(g)

\* The decay of gun g is over, just begun, or as it was.
SameOrBegun(g) ==
    \/ ~decaying'[g]
    \/ lowTicks'[g] = 0 /\ decayAge'[g] < DecayMax
    \/ decaying[g] /\ lowTicks'[g] = lowTicks[g] /\ decayAge'[g] = decayAge[g]

\* n further ticks are worth n periods, and one more than that at most m.
LEMMA TicksBounded ==
    ASSUME NEW n \in Nat, NEW m \in Nat, NEW p \in Nat, n < m
    PROVE  /\ n * p \in Nat /\ m * p \in Nat /\ (n + 1) * p = n * p + p
           /\ n * p + p <= m * p
<1>1. PICK k \in Nat : m = n + 1 + k
  <2>1. m - n - 1 \in Nat
    OBVIOUS
  <2>2. m = n + 1 + (m - n - 1)
    OBVIOUS
  <2>3. QED
    BY <2>1, <2>2
<1>2. m * p = n * p + p + k * p
  BY <1>1
<1>3. n * p \in Nat /\ k * p \in Nat
  BY <1>1
<1>4. (n + 1) * p = n * p + p
  OBVIOUS
<1>5. QED
  BY <1>2, <1>3, <1>4

LEMMA DecayKept ==
    ASSUME TypeInv, NEW g \in Guns, DecayTimely(g), SameOrBegun(g), lowTicks'[g] \in Nat,
           decayAge'[g] \in Nat, decaying[g] => SupAge(g)' >= SupAge(g), SupAge(g)' \in Nat
    PROVE  DecayTimely(g)'
<1> USE SequencerAssumption DEF SequencerAssumption
<1>1. SUFFICES ASSUME decaying'[g]
               PROVE  DecayTimely(g)'
  BY DEF DecayTimely
<1>2. lowTicks[g] \in Nat /\ decayAge[g] \in Nat /\ SupAge(g) \in Nat
  BY DEF SupAge, TypeInv, TypeOK, GunTypeOK, TimerTypeOK
<1>3. CASE lowTicks'[g] = 0 /\ decayAge'[g] < DecayMax
  <2>1. lowTicks'[g] * TickPeriod = 0
    BY <1>3
  <2>2. decayAge'[g] < DecayMax + lowTicks'[g] * TickPeriod + SupAge(g)'
    <3> HIDE DEF SupAge
    <3>1. QED
      BY <1>3, <2>1
  <2>3. QED
    BY <1>3, <2>2 DEF DecayTimely
<1>4. CASE decaying[g] /\ lowTicks'[g] = lowTicks[g] /\ decayAge'[g] = decayAge[g]
  <2>1. lowTicks[g] * TickPeriod \in Nat
    BY <1>2, TicksBounded
  <2>2. lowTicks[g] < DecayLowTicks
          /\ decayAge[g] < DecayMax + lowTicks[g] * TickPeriod + SupAge(g)
    BY <1>4 DEF DecayTimely
  <2> DEFINE s == lowTicks[g] * TickPeriod
  <2>3. s \in Nat
    BY <2>1
  <2>4. lowTicks'[g] * TickPeriod = s
    BY <1>4
  <2>5. decayAge[g] < DecayMax + s + SupAge(g)
    BY <2>2
  <2>6. decayAge'[g] < DecayMax + s + SupAge(g)'
    <3> HIDE DEF s, SupAge
    <3>1. QED
      BY <1>2, <1>4, <2>3, <2>5
  <2>7. QED
    BY <1>4, <2>2, <2>4, <2>6 DEF DecayTimely
<1>5. QED
  BY <1>1, <1>3, <1>4 DEF SameOrBegun

LEMMA CloseLockedDecay ==
    ASSUME TypeInv, NEW C \in SUBSET Guns, NEW late \in Nat, late < DecayMax,
           CloseLocked(C, late)
    PROVE  \A g \in Guns : SameOrBegun(g)
BY DEF CloseLocked, LowTicksShut, Shut, SameOrBegun

LEMMA CloseAndTripDecay ==
    ASSUME TypeInv, NEW g \in Guns, CloseAndTrip(g)
    PROVE  \A h \in Guns : SameOrBegun(h)
<1>1. CASE StopsMachine(g)
  BY <1>1 DEF CloseAndTrip, StopAllLocked, Coast, SameOrBegun
<1>2. CASE ~StopsMachine(g)
  <2>1. CloseLocked({g}, 0) /\ 0 < DecayMax
    BY <1>2, SequencerAssumption DEF SequencerAssumption, CloseAndTrip
  <2>2. QED
    BY <2>1, CloseLockedDecay
<1>3. QED
  BY <1>1, <1>2

LEMMA StrayAndTripDecay ==
    ASSUME TypeInv, NEW g \in Guns, StrayAndTrip(g)
    PROVE  \A h \in Guns : SameOrBegun(h)
<1>1. CASE StopsMachine(g)
  BY <1>1 DEF StrayAndTrip, StopAllLocked, Coast, SameOrBegun
<1>2. CASE ~StopsMachine(g)
  BY <1>2 DEF StrayAndTrip, SameOrBegun, gunVars
<1>3. QED
  BY <1>1, <1>2

\* Steps that leave the tick and the walk alone.
LEMMA QuietDecay ==
    ASSUME TypeInv, TypeInv', DecayInv, UNCHANGED <<tickVars, lock, cursor>>,
           \A g \in Guns : SameOrBegun(g)
    PROVE  DecayInv'
<1>1. ASSUME NEW g \in Guns
      PROVE  /\ SupAge(g)' = SupAge(g) /\ SupAge(g) \in Nat
             /\ lowTicks'[g] \in Nat /\ decayAge'[g] \in Nat
  BY SequencerAssumption
     DEF SequencerAssumption, SupAge, tickVars, TypeInv, TypeOK, GunTypeOK, TimerTypeOK
<1>2. ASSUME NEW g \in Guns, DecayTimely(g)
      PROVE  DecayTimely(g)'
  BY <1>1, <1>2, DecayKept
<1>3. QED
  BY <1>2 DEF DecayInv

\* The supervisor leaves gun g, whose decay it ended, or found within its limit,
\* or held off by one more low reading.
LEMMA WalkOnDecay ==
    ASSUME TypeInv, TypeInv', TickInv, lock \in {"sup", "supDecay"}, NEW g \in Guns,
           cursor = g, WalkOn(g, "sup"), UNCHANGED tickVars,
           \A h \in Guns : DecayTimely(h), \A h \in Guns : h # g => SameOrBegun(h),
           \/ ~decaying'[g]
           \/ lowTicks'[g] = 0 /\ decayAge'[g] < DecayMax
           \/ /\ decaying[g] /\ decayAge'[g] = decayAge[g]
              /\ lowTicks'[g] = lowTicks[g] + 1 /\ lowTicks'[g] < DecayLowTicks
    PROVE  \A h \in Guns : DecayTimely(h)'
<1> USE SequencerAssumption DEF SequencerAssumption
<1>1. tickAge = 0 /\ tickAge' = 0 /\ cursor' = g + 1 /\ lock' = "sup" /\ g \in Int
  BY DEF TickInv, WalkOn, tickVars, Guns
<1>2. ASSUME NEW h \in Guns
      PROVE  lowTicks[h] \in Nat /\ decayAge[h] \in Nat /\ lowTicks'[h] \in Nat
               /\ decayAge'[h] \in Nat
  BY DEF TypeInv, TypeOK, GunTypeOK
<1>3. ASSUME NEW h \in Guns, h # g
      PROVE  DecayTimely(h)'
  <2>1. h \in Int
    BY DEF Guns
  <2>2. SupAge(h)' = SupAge(h) /\ SupAge(h) \in Nat
    BY <1>1, <1>3, <2>1 DEF SupAge
  <2>3. QED
    BY <1>2, <1>3, <2>2, DecayKept
<1>4. DecayTimely(g)'
  <2>1. SupAge(g)' = 0 /\ SupAge(g) = TickPeriod
    BY <1>1 DEF SupAge
  <2>2. CASE ~decaying'[g]
    BY <2>2 DEF DecayTimely
  <2>3. CASE lowTicks'[g] = 0 /\ decayAge'[g] < DecayMax
    <3>1. lowTicks'[g] * TickPeriod = 0
      BY <2>3
    <3>2. decayAge'[g] < DecayMax + lowTicks'[g] * TickPeriod + SupAge(g)'
      BY <1>2, <2>1, <2>3, <3>1
    <3>3. QED
      BY <2>3, <3>2 DEF DecayTimely
  <2>4. CASE /\ decaying[g] /\ decayAge'[g] = decayAge[g]
             /\ lowTicks'[g] = lowTicks[g] + 1 /\ lowTicks'[g] < DecayLowTicks
    <3>1. decayAge[g] < DecayMax + lowTicks[g] * TickPeriod + SupAge(g)
      BY <2>4 DEF DecayTimely
    <3> DEFINE s == lowTicks[g] * TickPeriod
    <3>2. s \in Nat /\ lowTicks'[g] * TickPeriod = s + TickPeriod
      BY <1>2, <2>4, TicksBounded
    <3>3. decayAge[g] < DecayMax + s + TickPeriod
      BY <2>1, <3>1
    <3>4. decayAge'[g] < DecayMax + (s + TickPeriod) + 0
      <4> HIDE DEF s
      <4>1. QED
        BY <1>2, <2>4, <3>2, <3>3
    <3>5. decayAge'[g] < DecayMax + lowTicks'[g] * TickPeriod + SupAge(g)'
      BY <2>1, <3>2, <3>4
    <3>6. QED
      BY <2>4, <3>5 DEF DecayTimely
  <2>5. QED
    BY <2>2, <2>3, <2>4
<1>5. QED
  BY <1>3, <1>4

\* abort() starts a decay with a reading of the clock that may be old; it must
\* not be so old that the decay is over before it began.
LEMMA DecayStep ==
    ASSUME TaskLate < DecayMax
    PROVE  TypeInv /\ TypeInv' /\ OutputInv /\ SupInv /\ DecayInv /\ [Next]_vars => DecayInv'
<1> SUFFICES ASSUME TypeInv, TypeInv', OutputInv, SupInv, DecayInv, [Next]_vars
             PROVE  DecayInv'
  OBVIOUS
<1> USE SequencerAssumption DEF SequencerAssumption
<1>1. CASE Fire
  <2>1. UNCHANGED <<tickVars, lock, cursor>>
    BY <1>1 DEF Fire, FireBegin, FireCheck, FireWritten, FireOpen, FireRefused, walkVars
  <2>2. \A g \in Guns : SameOrBegun(g)
    <3>1. ASSUME NEW f \in Callers, FireOpen(f)
          PROVE  \A g \in Guns : SameOrBegun(g)
      BY <3>1 DEF FireOpen, SameOrBegun, TypeInv, TypeOK, GunTypeOK
    <3>2. CASE ~\E f \in Callers : FireOpen(f)
      BY <1>1, <3>2 DEF Fire, FireBegin, FireCheck, FireWritten, FireRefused, gunVars,
         SameOrBegun
    <3>3. QED
      BY <3>1, <3>2
  <2>3. QED
    BY <2>1, <2>2, QuietDecay
<1>2. CASE OnCloseAlarm \/ \E C \in SUBSET Guns : Abort(C)
  <2>1. UNCHANGED <<tickVars, lock, cursor>>
    BY <1>2 DEF OnCloseAlarm, Abort, walkVars
  <2>2. CASE OnCloseAlarm
    <3>1. CloseLocked(Due, 0) /\ Due \in SUBSET Guns
      BY <2>2 DEF OnCloseAlarm, Due
    <3>2. QED
      BY <2>1, <3>1, CloseLockedDecay, QuietDecay
  <2>3. CASE \E C \in SUBSET Guns : Abort(C)
    <3>1. PICK C \in SUBSET Guns : Abort(C)
      BY <2>3
    <3>2. PICK late \in 0 .. TaskLate : CloseLocked(C, late)
      BY <3>1 DEF Abort
    <3>3. late \in Nat /\ late < DecayMax
      BY <3>2
    <3>4. QED
      BY <2>1, <3>2, <3>3, CloseLockedDecay, QuietDecay
  <2>4. QED
    BY <1>2, <2>2, <2>3
<1>3. CASE Supervise
  <2>1. SUFFICES ASSUME "tickStall" \notin Faults
                 PROVE  \A g \in Guns : DecayTimely(g)'
    BY DEF DecayInv
  <2>2. TickInv /\ \A g \in Guns : DecayTimely(g)
    BY <2>1 DEF SupInv, DecayInv
  <2>3. ASSUME NEW g \in Guns
        PROVE  lowTicks'[g] \in Nat /\ decayAge'[g] \in Nat
    BY DEF TypeInv, TypeOK, GunTypeOK
  <2>4. CASE SupBegin \/ SupEnd
    <3>1. ASSUME NEW g \in Guns
          PROVE  SupAge(g)' >= SupAge(g) /\ SupAge(g)' \in Nat
      <4>1. CASE SupBegin
        BY <2>2, <4>1 DEF SupBegin, TickInv, SupAge, Guns, TypeInv, TypeOK, TimerTypeOK
      <4>2. CASE SupEnd
        <5>1. cursor > NumGuns /\ cursor \in Int /\ NumGuns \in Int /\ g \in Int
                /\ g <= NumGuns
          BY <4>2, DacAssumption
             DEF DacAssumption, SupEnd, Guns, TypeInv, TypeOK, TimerTypeOK
        <5>2. QED
          BY <4>2, <5>1 DEF SupEnd, WalkEnds, SupAge, tickVars, TypeInv, TypeOK, TimerTypeOK
      <4>3. QED
        BY <2>4, <4>1, <4>2
    <3>2. ASSUME NEW g \in Guns
          PROVE  SameOrBegun(g)
      BY <2>4 DEF SupBegin, SupEnd, gunVars, SameOrBegun, TypeInv, TypeOK, GunTypeOK
    <3>3. ASSUME NEW g \in Guns
          PROVE  DecayTimely(g)'
      BY <2>2, <2>3, <3>1, <3>2, DecayKept
    <3>4. QED
      BY <3>3
  <2>5. ASSUME NEW g \in Guns,
               SupCloseLate(g) \/ SupPickTimeout(g) \/ SupHoldOk(g) \/ SupLeaveOpen(g)
        PROVE  \A h \in Guns : DecayTimely(h)'
    <3>1. lock = "sup" /\ cursor = g /\ WalkOn(g, "sup") /\ UNCHANGED tickVars
      BY <2>5 DEF SupCloseLate, SupPickTimeout, SupHoldOk, SupLeaveOpen, SupLate, SupOpen,
         SupAt
    <3>2. \A h \in Guns : SameOrBegun(h)
      <4>1. CASE SupCloseLate(g) \/ SupPickTimeout(g)
        BY <4>1, CloseAndTripDecay DEF SupCloseLate, SupPickTimeout
      <4>2. CASE SupHoldOk(g) \/ SupLeaveOpen(g)
        BY <4>2 DEF SupHoldOk, SupLeaveOpen, gunVars, SameOrBegun
      <4>3. QED
        BY <2>5, <4>1, <4>2
    <3>3. ~decaying'[g] \/ (lowTicks'[g] = 0 /\ decayAge'[g] < DecayMax)
      <4>1. CASE SupCloseLate(g) \/ SupPickTimeout(g)
        <5>1. CloseAndTrip(g) /\ Open(g)
          BY <4>1 DEF SupCloseLate, SupPickTimeout, SupLate, SupOpen
        <5>2. CASE StopsMachine(g)
          BY <5>1, <5>2 DEF CloseAndTrip, StopAllLocked, Coast
        <5>3. CASE ~StopsMachine(g)
          BY <5>1, <5>3 DEF CloseAndTrip, CloseLocked, LowTicksShut, Shut
        <5>4. QED
          BY <5>2, <5>3
      <4>2. CASE SupHoldOk(g) \/ SupLeaveOpen(g)
        BY <4>2 DEF SupHoldOk, SupLeaveOpen, SupOpen, gunVars, OutputInv, RestingGunIsIsolated
      <4>3. QED
        BY <2>5, <4>1, <4>2
    <3>4. QED
      BY <2>2, <3>1, <3>2, <3>3, WalkOnDecay
  <2>6. ASSUME NEW g \in Guns, SupStray(g)
        PROVE  \A h \in Guns : DecayTimely(h)'
    <3>1. lock = "sup" /\ lock' = "supDecay" /\ cursor' = cursor /\ UNCHANGED tickVars
      BY <2>6 DEF SupStray, SupAt
    <3>2. ASSUME NEW h \in Guns
          PROVE  SupAge(h)' = SupAge(h) /\ SupAge(h) \in Nat
      BY <3>1 DEF SupAge, tickVars, TypeInv, TypeOK, TimerTypeOK
    <3>3. \A h \in Guns : SameOrBegun(h)
      BY <2>6, StrayAndTripDecay DEF SupStray
    <3>4. ASSUME NEW h \in Guns
          PROVE  DecayTimely(h)'
      BY <2>2, <2>3, <3>2, <3>3, DecayKept
    <3>5. QED
      BY <3>4
  <2>7. ASSUME NEW g \in Guns,
               SupNoDecay(g) \/ SupDecayLow(g) \/ SupDecayHigh(g) \/ SupDecayTimeout(g)
        PROVE  \A h \in Guns : DecayTimely(h)'
    <3>1. lock \in {"sup", "supDecay"} /\ cursor = g /\ WalkOn(g, "sup")
            /\ UNCHANGED tickVars
      BY <2>7 DEF SupNoDecay, SupDecayLow, SupDecayHigh, SupDecayTimeout, SupIdle
    <3>2. /\ \A h \in Guns : h # g => SameOrBegun(h)
          /\ \/ ~decaying'[g]
             \/ lowTicks'[g] = 0 /\ decayAge'[g] < DecayMax
             \/ /\ decaying[g] /\ decayAge'[g] = decayAge[g]
                /\ lowTicks'[g] = lowTicks[g] + 1 /\ lowTicks'[g] < DecayLowTicks
      <4>1. CASE SupNoDecay(g)
        BY <4>1 DEF SupNoDecay, gunVars, SameOrBegun
      <4>2. CASE SupDecayLow(g)
        <5>1. \A h \in Guns : h # g => SameOrBegun(h)
          BY <4>2 DEF SupDecayLow, EndDecay, DecayOver, SameOrBegun, TypeInv, TypeOK,
             GunTypeOK
        <5>2. CASE lowTicks[g] + 1 >= DecayLowTicks
          BY <4>2, <5>1, <5>2 DEF SupDecayLow, EndDecay, DecayOver, TypeInv, TypeOK,
             GunTypeOK
        <5>3. CASE ~(lowTicks[g] + 1 >= DecayLowTicks)
          BY <4>2, <5>1, <5>3 DEF SupDecayLow, SupIdle, TypeInv, TypeOK, GunTypeOK
        <5>4. QED
          BY <5>2, <5>3
      <4>3. CASE SupDecayHigh(g)
        <5>1. \A h \in Guns : h # g => SameOrBegun(h)
          BY <4>3 DEF SupDecayHigh, EndDecay, DecayOver, SameOrBegun, TypeInv, TypeOK,
             GunTypeOK
        <5>2. CASE DecayOverdue(g)
          BY <4>3, <5>1, <5>2 DEF SupDecayHigh, EndDecay, DecayOver, TypeInv, TypeOK,
             GunTypeOK
        <5>3. CASE ~DecayOverdue(g)
          BY <4>3, <5>1, <5>3 DEF SupDecayHigh, DecayOverdue, TypeInv, TypeOK, GunTypeOK
        <5>4. QED
          BY <5>2, <5>3
      <4>4. CASE SupDecayTimeout(g) /\ StopsMachine(g)
        BY <4>4 DEF SupDecayTimeout, StopAllLocked, Coast, SameOrBegun
      <4>5. CASE SupDecayTimeout(g) /\ ~StopsMachine(g)
        BY <4>5 DEF SupDecayTimeout, EndDecay, DecayOver, SameOrBegun, TypeInv, TypeOK,
           GunTypeOK
      <4>6. QED
        BY <2>7, <4>1, <4>2, <4>3, <4>4, <4>5
    <3>3. QED
      BY <2>2, <3>1, <3>2, WalkOnDecay
  <2>8. QED
    BY <1>3, <2>4, <2>5, <2>6, <2>7 DEF Supervise
<1>4. CASE Check
  <2>1. SUFFICES ASSUME "tickStall" \notin Faults
                 PROVE  \A g \in Guns : DecayTimely(g)'
    BY DEF DecayInv
  <2>2. TickInv /\ \A g \in Guns : DecayTimely(g)
    BY <2>1 DEF SupInv, DecayInv
  <2>3. tickAge' = tickAge
    <3>1. CASE ChkEnd
      <4>1. ~TickStalled
        BY <2>2, TimingAssumption
           DEF TimingAssumption, TickStalled, TickInv, TypeInv, TypeOK, TimerTypeOK
      <4>2. QED
        BY <3>1, <4>1 DEF ChkEnd, ChkTick
    <3>2. CASE ~ChkEnd
      BY <1>4, <3>2 DEF Check, ChkBegin, ChkCloseLate, ChkStray, ChkFine, tickVars
    <3>3. QED
      BY <3>1, <3>2
  <2>4. lock \notin {"sup", "supDecay"} /\ lock' \notin {"sup", "supDecay"}
    BY <1>4 DEF Check, ChkBegin, ChkEnd, ChkCloseLate, ChkStray, ChkFine, ChkAt, WalkOn,
       WalkEnds
  <2>5. \A g \in Guns : SameOrBegun(g)
    <3>1. ASSUME NEW g \in Guns, ChkCloseLate(g) \/ ChkStray(g)
          PROVE  \A h \in Guns : SameOrBegun(h)
      BY <3>1, CloseAndTripDecay, StrayAndTripDecay DEF ChkCloseLate, ChkStray
    <3>2. CASE ChkBegin \/ ChkEnd \/ \E g \in Guns : ChkFine(g)
      BY <3>2 DEF ChkBegin, ChkEnd, ChkFine, gunVars, SameOrBegun
    <3>3. QED
      BY <1>4, <3>1, <3>2 DEF Check
  <2>6. ASSUME NEW g \in Guns
        PROVE  DecayTimely(g)'
    <3>1. SupAge(g)' = SupAge(g) /\ SupAge(g) \in Nat
      BY <2>3, <2>4 DEF SupAge, TypeInv, TypeOK, TimerTypeOK
    <3>2. lowTicks'[g] \in Nat /\ decayAge'[g] \in Nat
      BY DEF TypeInv, TypeOK, GunTypeOK
    <3>3. QED
      BY <2>2, <2>5, <3>1, <3>2, DecayKept
  <2>7. QED
    BY <2>6
<1>5. CASE Pass
  <2>1. SUFFICES ASSUME "tickStall" \notin Faults, NEW g \in Guns, decaying[g]
                 PROVE  DecayTimely(g)'
    BY <1>5 DEF DecayInv, DecayTimely, Pass
  <2>2. tickAge' = tickAge + 1 /\ lock = "free" /\ lock' = "free"
    BY <1>5 DEF Pass, MayPass, walkVars
  <2>3. SupAge(g)' = SupAge(g) + 1 /\ SupAge(g) \in Nat
    BY <2>2 DEF SupAge, TypeInv, TypeOK, TimerTypeOK
  <2>4. lowTicks'[g] = lowTicks[g] /\ decayAge'[g] <= decayAge[g] + 1
          /\ decayAge[g] \in Nat /\ decayAge'[g] \in Nat /\ lowTicks[g] \in Nat
    BY <1>5, <2>1 DEF Pass, Older, TypeInv, TypeOK, GunTypeOK
  <2>5. lowTicks[g] < DecayLowTicks
          /\ decayAge[g] < DecayMax + lowTicks[g] * TickPeriod + SupAge(g)
    BY <2>1 DEF DecayInv, DecayTimely
  <2> DEFINE s == lowTicks[g] * TickPeriod
  <2>6. s \in Nat /\ lowTicks'[g] * TickPeriod = s
    BY <2>4, <2>5, TicksBounded
  <2>7. decayAge[g] < DecayMax + s + SupAge(g)
    BY <2>5
  <2>8. decayAge'[g] < DecayMax + s + SupAge(g)'
    <3> HIDE DEF s, SupAge
    <3>1. QED
      BY <2>3, <2>4, <2>6, <2>7
  <2>9. QED
    BY <2>4, <2>5, <2>6, <2>8 DEF DecayTimely
<1>6. CASE TickStops
  BY <1>6 DEF TickStops, DecayInv
<1>7. CASE KillAll \/ OnActivate \/ FlagStore \/ (\E v \in Versions : OnConfigApplied(v))
           \/ AlarmMissed \/ (\E g \in Guns : In1Glitch(g) \/ PeakIsr(g)) \/ Dacs
           \/ UNCHANGED vars
  <2>1. UNCHANGED <<tickVars, lock, cursor, decaying, lowTicks, decayAge>>
    BY <1>7
       DEF KillAll, OnActivate, FlagStore, OnConfigApplied, AlarmMissed, In1Glitch, PeakIsr,
           Dacs, vars, seqVars, gunVars, walkVars
  <2>2. \A g \in Guns : SameOrBegun(g)
    BY <2>1 DEF SameOrBegun
  <2>3. QED
    BY <2>1, <2>2, QuietDecay
<1>8. QED
  BY <1>1, <1>2, <1>3, <1>4, <1>5, <1>6, <1>7 DEF Next, Firmware, Hardware

LEMMA DecayInvariant ==
    ASSUME TaskLate < DecayMax
    PROVE  Spec => []DecayInv
<1>1. Init => DecayInv
  BY DEF Init, DecayInv, DecayTimely
<1>2. TypeInv /\ TypeInv' /\ OutputInv /\ SupInv /\ DecayInv /\ [Next]_vars => DecayInv'
  BY DecayStep
<1>3. QED
  BY <1>1, <1>2, TypeInvariant, OutputInvariant, SupInvariant, PTL DEF Spec

\* While the tick runs, reverse drive after a close ends within the decay limit
\* and the ticks that low readings of the comparator can add, provided no task
\* stays off the CPU for the whole limit between its clock reading and abort().
THEOREM DecayCorrect ==
    ASSUME TaskLate < DecayMax
    PROVE  Spec => []DecayLimited
<1>1. ASSUME TypeInv, SupInv, DecayInv
      PROVE  DecayLimited
  <2>1. SUFFICES ASSUME "tickStall" \notin Faults, NEW g \in Guns, decaying[g]
                 PROVE  decayAge[g] < DecayMax + DecayLowTicks * TickPeriod
    BY DEF DecayLimited
  <2>2. /\ lowTicks[g] < DecayLowTicks
        /\ decayAge[g] < DecayMax + lowTicks[g] * TickPeriod + SupAge(g)
    BY <1>1, <2>1 DEF DecayInv, DecayTimely
  <2>3. SupAge(g) \in Nat /\ SupAge(g) <= TickPeriod
    BY <1>1, <2>1, SequencerAssumption
       DEF SequencerAssumption, SupInv, TickInv, SupAge, TypeInv, TypeOK, TimerTypeOK
  <2>4. lowTicks[g] \in Nat /\ decayAge[g] \in Nat
    BY <1>1 DEF TypeInv, TypeOK, GunTypeOK
  <2> DEFINE s == lowTicks[g] * TickPeriod
             t == DecayLowTicks * TickPeriod
  <2>5. s \in Nat /\ t \in Nat /\ s + TickPeriod <= t
    BY <2>2, <2>4, SequencerAssumption, TicksBounded DEF SequencerAssumption
  <2>6. decayAge[g] < DecayMax + s + SupAge(g)
    BY <2>2
  <2>7. decayAge[g] < DecayMax + t
    <3> HIDE DEF s, t, SupAge
    <3>1. QED
      BY <2>3, <2>4, <2>5, <2>6, SequencerAssumption DEF SequencerAssumption
  <2>8. QED
    BY <2>7
<1>2. QED
  BY <1>1, TypeInvariant, SupInvariant, DecayInvariant, PTL

----------------------------------------------------------------------------
(* The sequencer's own machine stop.                                       *)

\* What stopAllLocked() leaves behind.
AllStopped ==
    /\ ~active' /\ ~testMode'
    /\ \A g \in Guns : /\ phase'[g] = "Idle" /\ ~arming'[g] /\ ~decaying'[g]
                       /\ ~in1'[g] /\ ~mux'[g] /\ ~peakIrq'[g]
    /\ alarm' = Never

\* Gun g tripped: the streak says whether the machine stops with it.
Tripped(g) ==
    /\ StreakCounted(g)
    /\ IF StopsMachine(g) THEN AllStopped ELSE UNCHANGED <<active, testMode>>

LEMMA StopAllStops ==
    ASSUME NEW sh, NEW low, NEW owed, StopAllLocked(sh, low, owed)
    PROVE  AllStopped
BY DEF StopAllLocked, Shut, PinsOff, Coast, AllStopped

LEMMA TripsTrip ==
    ASSUME NEW g \in Guns, CloseAndTrip(g) \/ StrayAndTrip(g) \/ SupDecayTimeout(g)
    PROVE  Tripped(g)
<1>1. StreakCounted(g)
  BY DEF CloseAndTrip, StrayAndTrip, SupDecayTimeout
<1>2. CASE StopsMachine(g)
  BY <1>1, <1>2, StopAllStops DEF CloseAndTrip, StrayAndTrip, SupDecayTimeout, Tripped
<1>3. CASE ~StopsMachine(g)
  BY <1>1, <1>3 DEF CloseAndTrip, StrayAndTrip, SupDecayTimeout, Tripped
<1>4. QED
  BY <1>2, <1>3

\* While a walk holds the lock, a streak changes only with a trip, or when the
\* supervisor confirms a hold threshold.
LEMMA StreakSteps ==
    ASSUME [Next]_vars, lock # "free", ~UNCHANGED tripVars
    PROVE  \E g \in Guns : Tripped(g) \/ SupHoldOk(g)
<1>1. CASE Fire \/ OnCloseAlarm \/ Dacs \/ Firmware \/ Hardware \/ UNCHANGED vars
  BY <1>1
     DEF Fire, FireBegin, FireCheck, FireWritten, FireOpen, FireRefused, OnCloseAlarm, Dacs,
         Firmware, Abort, KillAll, OnConfigApplied, OnActivate, FlagStore, Hardware, PeakIsr,
         In1Glitch, AlarmMissed, TickStops, Pass, MayPass, seqVars, vars
<1>2. CASE Supervise
  <2>1. ASSUME NEW g \in Guns,
               SupCloseLate(g) \/ SupPickTimeout(g) \/ SupStray(g) \/ SupDecayTimeout(g)
        PROVE  Tripped(g)
    BY <2>1, TripsTrip DEF SupCloseLate, SupPickTimeout, SupStray
  <2>2. CASE \/ SupBegin \/ SupEnd
             \/ \E g \in Guns : SupLeaveOpen(g) \/ SupNoDecay(g) \/ SupDecayLow(g)
                                  \/ SupDecayHigh(g)
    BY <2>2 DEF SupBegin, SupEnd, SupLeaveOpen, SupNoDecay, SupDecayLow, SupDecayHigh
  <2>3. QED
    BY <1>2, <2>1, <2>2 DEF Supervise
<1>3. CASE Check
  <2>1. ASSUME NEW g \in Guns, ChkCloseLate(g) \/ ChkStray(g)
        PROVE  Tripped(g)
    BY <2>1, TripsTrip DEF ChkCloseLate, ChkStray
  <2>2. CASE ChkBegin \/ ChkEnd \/ \E g \in Guns : ChkFine(g)
    BY <2>2 DEF ChkBegin, ChkEnd, ChkFine
  <2>3. QED
    BY <1>3, <2>1, <2>2 DEF Check
<1>4. QED
  BY <1>1, <1>2, <1>3 DEF Next

\* A stop the sequencer decides on its own leaves, in that very step, every gun
\* closed, undriven and coasting, no fire() in preparation and no alarm.
THEOREM SafetyStopCorrect == Spec => SafetyStopIsComplete
<1>1. ASSUME TypeInv, [Next]_vars, SequencerStops
      PROVE  /\ \A g \in Guns : /\ phase'[g] = "Idle" /\ ~arming'[g] /\ ~decaying'[g]
                                /\ ~in1'[g] /\ ~mux'[g] /\ ~peakIrq'[g]
             /\ alarm' = Never
  <2>1. PICK g \in Guns : Tripped(g) \/ SupHoldOk(g)
    BY <1>1, StreakSteps DEF SequencerStops, tripVars
  <2>2. Tripped(g) /\ StopsMachine(g)
    BY <1>1, <2>1 DEF SequencerStops, Tripped, SupHoldOk, sysVars
  <2>3. QED
    BY <2>2 DEF Tripped, AllStopped
<1>2. QED
  BY <1>1, TypeInvariant, PTL DEF Spec, SafetyStopIsComplete

\* The TripStreakStop-th trip in a row stops the machine in the same step; no
\* interleaving of supervisor and checker counts past it with drops allowed.
THEOREM TripStreakCorrect == Spec => TripStreakStopsMachine
<1>1. ASSUME TypeInv, [Next]_vars, NEW h \in Guns, tripStreak'[h] >= TripStreakStop,
             tripAge'[h] = 0, lock # "free",
             tripStreak'[h] # tripStreak[h] \/ tripAge[h] # 0
      PROVE  ~active' /\ ~testMode'
  <2> USE SequencerAssumption DEF SequencerAssumption
  <2>1. PICK g \in Guns : Tripped(g) \/ SupHoldOk(g)
    BY <1>1, StreakSteps DEF tripVars
  <2>2. CASE SupHoldOk(g)
    BY <1>1, <2>2 DEF SupHoldOk, TypeInv, TypeOK, TripTypeOK
  <2>3. CASE Tripped(g)
    <3>1. h = g
      BY <1>1, <2>3 DEF Tripped, StreakCounted, TypeInv, TypeOK, TripTypeOK
    <3>2. StreakAfter(g) \in Nat
      BY <1>1 DEF StreakAfter, TypeInv, TypeOK, TripTypeOK
    <3>3. StreakAfter(g) >= TripStreakStop
      <4> HIDE DEF StreakAfter
      <4>1. QED
        BY <1>1, <2>3, <3>1, <3>2 DEF Tripped, StreakCounted, TypeInv, TypeOK, TripTypeOK
    <3>4. CASE StopsMachine(g)
      BY <2>3, <3>4 DEF Tripped, AllStopped
    <3>5. CASE ~StopsMachine(g)
      BY <2>3, <3>3, <3>5 DEF Tripped, StopsMachine
    <3>6. QED
      BY <3>4, <3>5
  <2>4. QED
    BY <2>1, <2>2, <2>3
<1>2. TypeInv /\ [Next]_vars =>
        [\A g \in Guns :
           (tripStreak'[g] >= TripStreakStop /\ tripAge'[g] = 0 /\ lock # "free"
              /\ (tripStreak'[g] # tripStreak[g] \/ tripAge[g] # 0))
           => ~active' /\ ~testMode']_vars
  BY <1>1
<1>3. QED
  BY <1>2, TypeInvariant, PTL DEF Spec, TripStreakStopsMachine

----------------------------------------------------------------------------
(* The DAC task is never asleep over a target that nobody writes.          *)

\* With no notification pending, the task sleeps until the next one.
Asleep == dacPc = "wait" /\ ~kicked

\* A fire() has set the target of gun g and has yet to try.
AboutToWrite(g) ==
    \E f \in Callers : call[f].at = "try" /\ call[f].gun = g /\ call[f].tries = 0

\* A target that changes after a caller's transaction has copied it wakes the
\* task, which then waits for the bus and cannot fall asleep before it is free.
CopyIsCurrent ==
    bus.owner \in Callers /\ ~kicked /\ dacPc # "write" =>
        \A g \in bus.mask : bus.snap[g] = shadow[g]

\* The targets nobody has to wake up for.
Settled ==
    Asleep => \A g \in Guns :
        \/ shadow[g] = written[g]
        \/ g \in bus.mask
        \/ bus.owner = "nobody" /\ AboutToWrite(g)

WakeInv ==
    chipReady /\ ~BusMayFail => dacPc # "absent" /\ CopyIsCurrent /\ Settled

\* One task fires at a time: the modes that allow the callers exclude each other.
OneCaller == \A f, h \in Callers : f = h

\* Of the threshold record, a step changes nothing or wakes the task.
Wakes == dacPc # "absent" => kicked' = TRUE \/ UNCHANGED <<shadow, kicked>>

LEMMA WakeKept ==
    ASSUME TypeInv, WakeInv, Wakes, UNCHANGED <<written, chipReady, dacPc, call>>,
           bus'.owner = bus.owner, bus'.mask = bus.mask, bus'.snap = bus.snap
    PROVE  WakeInv'
<1>1. SUFFICES ASSUME chipReady, ~BusMayFail
               PROVE  dacPc' # "absent" /\ CopyIsCurrent' /\ Settled'
  BY DEF WakeInv
<1>2. dacPc # "absent" /\ CopyIsCurrent /\ Settled
  BY <1>1 DEF WakeInv
<1>3. CASE kicked' = TRUE
  BY <1>2, <1>3 DEF CopyIsCurrent, Settled, Asleep
<1>4. CASE UNCHANGED <<shadow, kicked>>
  BY <1>2, <1>4 DEF CopyIsCurrent, Settled, Asleep, AboutToWrite
<1>5. QED
  BY <1>2, <1>3, <1>4 DEF Wakes

LEMMA CloseLockedWakes ==
    ASSUME TypeInv, NEW C \in SUBSET Guns, NEW late, CloseLocked(C, late)
    PROVE  Wakes
<1>1. CASE \E g \in C : Open(g)
  BY <1>1 DEF CloseLocked, KickIf, Wakes
<1>2. CASE ~\E g \in C : Open(g)
  <2>1. shadow' = shadow
    BY <1>2 DEF CloseLocked, TargetsShut, TypeInv, DacInv, DacTypeOK
  <2>2. kicked' = kicked
    BY <1>2 DEF CloseLocked, KickIf, TypeInv, DacInv, DacTypeOK
  <2>3. QED
    BY <2>1, <2>2 DEF Wakes
<1>3. QED
  BY <1>1, <1>2

LEMMA StopAllWakes ==
    ASSUME TypeInv, NEW sh, NEW low, NEW owed \in BOOLEAN, StopAllLocked(sh, low, owed),
           owed \/ sh = shadow
    PROVE  Wakes
<1>1. CASE owed \/ \E g \in Guns : Open(g)
  BY <1>1 DEF StopAllLocked, KickIf, Wakes
<1>2. CASE ~owed /\ ~\E g \in Guns : Open(g)
  <2>1. shadow' = shadow
    BY <1>2 DEF StopAllLocked, TargetsShut, TypeInv, DacInv, DacTypeOK
  <2>2. kicked' = kicked
    BY <1>2 DEF StopAllLocked, KickIf, TypeInv, DacInv, DacTypeOK
  <2>3. QED
    BY <2>1, <2>2 DEF Wakes
<1>3. QED
  BY <1>1, <1>2

LEMMA TripsWake ==
    ASSUME TypeInv, NEW g \in Guns, CloseAndTrip(g) \/ StrayAndTrip(g) \/ SupDecayTimeout(g)
    PROVE  Wakes
<1>1. CASE StopsMachine(g)
  <2>1. CASE SupDecayTimeout(g)
    BY <1>1, <2>1, StopAllWakes DEF SupDecayTimeout
  <2>2. CASE CloseAndTrip(g) \/ StrayAndTrip(g)
    BY <1>1, <2>2, StopAllWakes DEF CloseAndTrip, StrayAndTrip
  <2>3. QED
    BY <2>1, <2>2
<1>2. CASE ~StopsMachine(g)
  <2>1. CASE SupDecayTimeout(g)
    BY <1>2, <2>1 DEF SupDecayTimeout, EndDecay, KickIf, Wakes
  <2>2. CASE CloseAndTrip(g)
    <3>1. CloseLocked({g}, 0)
      BY <1>2, <2>2 DEF CloseAndTrip
    <3>2. QED
      BY <3>1, CloseLockedWakes
  <2>3. CASE StrayAndTrip(g)
    BY <1>2, <2>3 DEF StrayAndTrip, Wakes
  <2>4. QED
    BY <2>1, <2>2, <2>3
<1>3. QED
  BY <1>1, <1>2

\* What the DAC task, the bus and the callers do on their own.
LEMMA WakeDacStep ==
    ASSUME TypeInv, WakeInv, DacStep
    PROVE  WakeInv'
<1>1. SUFFICES ASSUME chipReady, ~BusMayFail
               PROVE  dacPc' # "absent" /\ CopyIsCurrent' /\ Settled'
  BY DEF WakeInv, DacStep, WriteNothing, WriteBegin, WriteLatch, WriteOk, WriteFail, DacEval,
     DacWake
<1>2. dacPc # "absent" /\ CopyIsCurrent /\ Settled
  BY <1>1 DEF WakeInv
<1>3. "nobody" \notin Callers /\ "dacTask" \notin Callers
  BY DacAssumption DEF DacAssumption
<1>4. DacTypeOK /\ WriterInv
  BY DEF TypeInv, DacInv
<1>5. ASSUME NEW w \in Writers, WriteNothing(w)
      PROVE  dacPc' # "absent" /\ CopyIsCurrent' /\ Settled'
  <2>1. bus.owner = "nobody" /\ bus' = bus /\ WriteReturns(w, TRUE)
          /\ \A g \in Guns : shadow'[g] = written'[g]
    BY <1>1, <1>5 DEF WriteNothing, AnyPending, Pending
  <2>2. QED
    BY <1>2, <1>3, <2>1 DEF WriteReturns, DacTaskWrote, CopyIsCurrent, Settled
<1>6. ASSUME NEW w \in Writers, WriteBegin(w)
      PROVE  dacPc' # "absent" /\ CopyIsCurrent' /\ Settled'
  <2>1. Pending \subseteq Carried
    BY DEF Carried, Pending
  <2>2. bus'.mask = Carried /\ bus'.snap = shadow /\ UNCHANGED <<shadow, written, kicked, dacPc>>
    BY <1>6 DEF WriteBegin
  <2>3. QED
    BY <1>2, <2>1, <2>2 DEF Pending, CopyIsCurrent, Settled
<1>7. ASSUME NEW h \in Guns, WriteLatch(h)
      PROVE  dacPc' # "absent" /\ CopyIsCurrent' /\ Settled'
  <2>1. bus'.owner = bus.owner /\ bus'.mask = bus.mask /\ bus'.snap = bus.snap
          /\ UNCHANGED <<shadow, written, kicked, dacPc, call>>
    BY <1>4, <1>7 DEF WriteLatch, DacTypeOK
  <2>2. QED
    BY <1>2, <2>1 DEF CopyIsCurrent, Settled, Asleep, AboutToWrite
<1>8. CASE WriteOk
  <2>1. bus.owner # "nobody" /\ bus'.owner = "nobody" /\ WriteReturns(bus.owner, TRUE)
          /\ UNCHANGED <<shadow, kicked>> /\ bus.owner \in Writers
    BY <1>4, <1>8 DEF WriteOk, FreeBus, DacTypeOK
  <2>2. dacPc' # "absent" /\ CopyIsCurrent'
    BY <1>2, <1>3, <2>1 DEF WriteReturns, DacTaskWrote, CopyIsCurrent
  <2>3. Settled'
    <3>1. SUFFICES ASSUME Asleep', NEW g \in Guns
                   PROVE  shadow'[g] = written'[g]
      BY DEF Settled
    <3>2. bus.owner \in Callers /\ Asleep /\ dacPc # "write"
      BY <2>1, <3>1 DEF Writers, WriteReturns, DacTaskWrote, Asleep
    <3>3. CASE g \in bus.mask
      BY <1>2, <1>8, <2>1, <3>2, <3>3 DEF CopyIsCurrent, Asleep, WriteOk, Confirm
    <3>4. CASE g \notin bus.mask
      BY <1>2, <1>8, <2>1, <3>2, <3>4 DEF Settled, WriteOk, Confirm
    <3>5. QED
      BY <3>3, <3>4
  <2>4. QED
    BY <2>2, <2>3
<1>9. CASE DacEval
  <2>1. dacPc = "eval" /\ UNCHANGED <<shadow, written, bus, kicked>>
    BY <1>9 DEF DacEval
  <2>2. dacPc' # "absent" /\ CopyIsCurrent'
    BY <1>2, <1>9, <2>1 DEF DacEval, NextWait, CopyIsCurrent
  <2>3. Settled'
    BY <1>9, <2>1 DEF DacEval, NextWait, AnyPending, Pending, Settled, Asleep
  <2>4. QED
    BY <2>2, <2>3
<1>10. CASE DacWake
  BY <1>10 DEF DacWake, CopyIsCurrent, Settled, Asleep
<1>11. ~WriteFail
  BY <1>1 DEF WriteFail
<1>12. QED
  BY <1>5, <1>6, <1>7, <1>8, <1>9, <1>10, <1>11 DEF DacStep

\* fire() sets its target without a notification, and writes it itself.
LEMMA WakeFire ==
    ASSUME OneCaller, TypeInv, WakeInv, Fire
    PROVE  WakeInv'
<1>1. ASSUME NEW f \in Callers, FireCheck(f)
      PROVE  WakeInv'
  <2> DEFINE g == firing[f].gun
             c == firing[f].pick
  <2>1. CASE IsApplied(g, c)
    BY <1>1, <2>1, WakeKept DEF FireCheck, Wakes
  <2>2. CASE ~IsApplied(g, c)
    <3>1. SUFFICES ASSUME chipReady, ~BusMayFail
                   PROVE  dacPc' # "absent" /\ CopyIsCurrent' /\ Settled'
      BY <1>1 DEF WakeInv, FireCheck
    <3>2. dacPc # "absent" /\ CopyIsCurrent /\ Settled
      BY <3>1 DEF WakeInv
    <3>3. call[f].at = "none" /\ shadow' = [shadow EXCEPT ![g] = c]
            /\ call' = [call EXCEPT ![f] = [at |-> "try", gun |-> g, code |-> c, tries |-> 0]]
            /\ UNCHANGED <<written, bus, kicked, dacPc>>
      BY <1>1, <2>2 DEF FireCheck, BlockingBegin
    <3>4. bus.owner \notin Callers
      <4>1. SUFFICES ASSUME bus.owner \in Callers
                     PROVE  FALSE
        OBVIOUS
      <4>2. bus.owner = f
        BY <1>1, <4>1 DEF OneCaller
      <4>3. QED
        BY <3>3, <4>2 DEF TypeInv, DacInv, WriterInv
    <3>5. Settled'
      <4>1. SUFFICES ASSUME Asleep', NEW h \in Guns
                     PROVE  shadow'[h] = written'[h] \/ h \in bus'.mask
                              \/ (bus'.owner = "nobody" /\ AboutToWrite(h)')
        BY DEF Settled
      <4>2. Asleep /\ bus.owner = "nobody"
        BY <3>3, <3>4, <4>1 DEF Asleep, TypeInv, DacInv, DacTypeOK, WriterInv, Writers
      <4>3. ~AboutToWrite(h)
        BY <1>1, <3>3 DEF AboutToWrite, OneCaller
      <4>4. CASE h = g
        <5>1. call'[f] = [at |-> "try", gun |-> g, code |-> c, tries |-> 0]
          BY <3>3 DEF TypeInv, DacInv, DacTypeOK
        <5>2. AboutToWrite(h)'
          BY <1>1, <4>4, <5>1 DEF AboutToWrite
        <5>3. QED
          BY <3>3, <4>2, <5>2
      <4>5. CASE h # g
        <5>1. shadow'[h] = shadow[h]
          BY <3>3, <4>5 DEF TypeInv, DacInv, DacTypeOK
        <5>2. QED
          BY <3>2, <3>3, <4>2, <4>3, <5>1 DEF Settled
      <4>6. QED
        BY <4>4, <4>5
    <3>6. QED
      BY <3>2, <3>3, <3>4, <3>5 DEF CopyIsCurrent
  <2>3. QED
    BY <2>1, <2>2
<1>2. ASSUME NEW f \in Callers, FireWritten(f)
      PROVE  WakeInv'
  <2>1. SUFFICES ASSUME chipReady, ~BusMayFail
                 PROVE  dacPc' # "absent" /\ CopyIsCurrent' /\ Settled'
    BY <1>2 DEF WakeInv, FireWritten
  <2>2. dacPc # "absent" /\ CopyIsCurrent /\ Settled
    BY <2>1 DEF WakeInv
  <2>3. UNCHANGED <<shadow, written, bus, kicked, dacPc>> /\ BlockingEnds(f)
    BY <1>2 DEF FireWritten
  <2>4. ASSUME NEW h \in Guns, AboutToWrite(h)
        PROVE  shadow[h] = written[h]
    <3>1. call[f].gun = h /\ call[f].tries = 0
      BY <1>2, <2>4 DEF AboutToWrite, OneCaller
    <3>2. QED
      BY <2>3, <3>1, DacAssumption DEF DacAssumption, BlockingEnds, IsApplied
  <2>5. QED
    BY <2>2, <2>3, <2>4 DEF CopyIsCurrent, Settled, Asleep
<1>3. ASSUME NEW f \in Callers,
             (\E g \in Guns, on \in OnTimes : FireBegin(f, g, on)) \/ FireOpen(f)
               \/ FireRefused(f)
      PROVE  WakeInv'
  BY <1>3, WakeKept DEF FireBegin, FireOpen, FireRefused, dacVars, Wakes
<1>4. QED
  BY <1>1, <1>2, <1>3 DEF Fire

LEMMA WakeStep ==
    ASSUME OneCaller
    PROVE  TypeInv /\ WakeInv /\ [Next]_vars => WakeInv'
<1> SUFFICES ASSUME TypeInv, WakeInv, [Next]_vars
             PROVE  WakeInv'
  OBVIOUS
<1>1. CASE Dacs
  BY <1>1, WakeDacStep DEF Dacs
<1>2. CASE OnCloseAlarm \/ \E C \in SUBSET Guns : Abort(C)
  <2>1. UNCHANGED dacBusVars
    BY <1>2 DEF OnCloseAlarm, Abort
  <2>2. PICK C \in SUBSET Guns, late \in Nat : CloseLocked(C, late)
    BY <1>2, AbortIsLate DEF OnCloseAlarm, Due
  <2>3. QED
    BY <2>1, <2>2, CloseLockedWakes, WakeKept DEF dacBusVars
<1>3. CASE (\E g \in Guns : PeakIsr(g)) \/ \E v \in Versions : OnConfigApplied(v)
  <2>1. UNCHANGED dacBusVars /\ Wakes
    BY <1>3 DEF PeakIsr, OnConfigApplied, KickIf, Wakes
  <2>2. QED
    BY <2>1, WakeKept DEF dacBusVars
<1>4. ASSUME NEW g \in Guns,
             \/ SupCloseLate(g) \/ SupPickTimeout(g) \/ SupStray(g) \/ SupDecayTimeout(g)
             \/ ChkCloseLate(g) \/ ChkStray(g)
      PROVE  WakeInv'
  <2>1. UNCHANGED dacBusVars
    BY <1>4 DEF SupCloseLate, SupPickTimeout, SupStray, SupDecayTimeout, ChkCloseLate, ChkStray
  <2>2. Wakes
    BY <1>4, TripsWake DEF SupCloseLate, SupPickTimeout, SupStray, ChkCloseLate, ChkStray
  <2>3. QED
    BY <2>1, <2>2, WakeKept DEF dacBusVars
<1>5. ASSUME NEW g \in Guns, SupDecayLow(g) \/ SupDecayHigh(g)
      PROVE  WakeInv'
  <2>1. UNCHANGED dacBusVars
    BY <1>5 DEF SupDecayLow, SupDecayHigh
  <2>2. Wakes
    BY <1>5 DEF SupDecayLow, SupDecayHigh, EndDecay, KickIf, Wakes
  <2>3. QED
    BY <2>1, <2>2, WakeKept DEF dacBusVars
<1>6. CASE Pass
  <2>1. UNCHANGED <<shadow, kicked, written, chipReady, dacPc, call>>
    BY <1>6 DEF Pass
  <2>2. bus'.owner = bus.owner /\ bus'.mask = bus.mask /\ bus'.snap = bus.snap
    BY <1>6 DEF Pass, TypeInv, DacInv, DacTypeOK
  <2>3. QED
    BY <2>1, <2>2, WakeKept DEF Wakes
<1>7. CASE UNCHANGED dacVars
  BY <1>7, WakeKept DEF dacVars, Wakes
<1>8. CASE Fire
  BY <1>8, WakeFire
<1>9. CASE KillAll \/ OnActivate \/ FlagStore \/ AlarmMissed \/ TickStops \/ UNCHANGED vars
             \/ (\E g \in Guns : In1Glitch(g)) \/ SupBegin \/ SupEnd \/ ChkBegin \/ ChkEnd
             \/ (\E g \in Guns : SupHoldOk(g) \/ SupLeaveOpen(g) \/ SupNoDecay(g) \/ ChkFine(g))
  <2>1. UNCHANGED dacVars
    BY <1>9 DEF KillAll, OnActivate, FlagStore, AlarmMissed, TickStops, vars, In1Glitch,
       SupBegin, SupEnd, ChkBegin, ChkEnd, SupHoldOk, SupLeaveOpen, SupNoDecay, ChkFine
  <2>2. QED
    BY <1>7, <2>1
<1>10. QED
  BY <1>1, <1>2, <1>3, <1>4, <1>5, <1>6, <1>8, <1>9
     DEF Next, Supervise, Check, Firmware, Hardware

\* No wake-up of the DAC task is lost, whichever of abort, interrupt, supervisor
\* or new configuration changes a target, and whatever transaction is on the bus.
THEOREM ThresholdCorrect ==
    ASSUME OneCaller
    PROVE  Spec => []ThresholdOnItsWay
<1>1. Init => WakeInv
  BY DacAssumption
     DEF DacAssumption, Init, DacInitWith, FreeBus, WakeInv, CopyIsCurrent, Settled, Asleep
<1>2. TypeInv /\ WakeInv /\ [Next]_vars => WakeInv'
  BY WakeStep
<1>3. ASSUME TypeInv, WakeInv
      PROVE  ThresholdOnItsWay
  <2>1. SUFFICES ASSUME chipReady, ~BusMayFail, NEW g \in Guns, dacPc = "wait", ~kicked
                 PROVE  chip[g] = shadow[g] \/ g \in bus.mask \/ AboutToWrite(g)
    BY DEF ThresholdOnItsWay, AboutToWrite
  <2>2. shadow[g] = written[g] \/ g \in bus.mask \/ AboutToWrite(g)
    BY <1>3, <2>1 DEF WakeInv, Settled, Asleep
  <2>3. CASE shadow[g] = written[g]
    BY <1>3, <2>1, <2>3 DEF TypeInv, DacInv, ChipInv
  <2>4. QED
    BY <2>2, <2>3
<1>4. QED
  BY <1>1, <1>2, <1>3, TypeInvariant, PTL DEF Spec
=============================================================================
