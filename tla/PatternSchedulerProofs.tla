----------------------- MODULE PatternSchedulerProofs -----------------------
(***************************************************************************)
(* Proofs about the sheets and the pattern task (module PatternScheduler), *)
(* for any patterns, any number of guns and of sheets in the queues, and a *)
(* pulse counter of any width that wraps; last, that the scheduler         *)
(* implements SheetPlan.                                                   *)
(***************************************************************************)
EXTENDS PatternRefinement, TLAPS

----------------------------------------------------------------------------
(* Pulses modulo PulseMod.                                                 *)

LEMMA Window ==
    /\ PulseMod \in Nat /\ AgeMax \in Nat /\ LagMax \in Nat /\ PulseMod \div 2 \in Nat
    /\ AgeMax >= 1 /\ LagMax >= 1 /\ AgeMax + LagMax < PulseMod \div 2
    /\ AgeMax + 2 * LagMax <= PulseMod \div 2
    /\ 2 * (PulseMod \div 2) <= PulseMod /\ PulseMod > 0
BY SchedulerAssumption, WindowAssumption DEF SchedulerAssumption, WindowAssumption

LEMMA Wrapped == ASSUME NEW a \in Int PROVE a % PulseMod \in Pulses
BY Window DEF Pulses

LEMMA Quotient ==
    ASSUME NEW a \in Int
    PROVE  \E k \in Int : a = PulseMod * k + (a % PulseMod)
<1>1. a \div PulseMod \in Int /\ a = PulseMod * (a \div PulseMod) + (a % PulseMod)
  BY Window
<1>2. QED
  BY <1>1

LEMMA Rest ==
    ASSUME NEW r \in Pulses, NEW k \in Int
    PROVE  (PulseMod * k + r) % PulseMod = r
<1>1. PulseMod \in Nat /\ PulseMod > 0
  BY Window
<1>2. r \in Int /\ 0 <= r /\ r < PulseMod
  BY <1>1 DEF Pulses
<1>3. QED
  BY <1>1, <1>2

LEMMA SmallRest == ASSUME NEW r \in Pulses PROVE r % PulseMod = r
BY Window DEF Pulses

\* A sum may be reduced at any point.
LEMMA WrapSum ==
    ASSUME NEW a \in Int, NEW b \in Int
    PROVE  ((a % PulseMod) + b) % PulseMod = (a + b) % PulseMod
<1>1. PICK k \in Int : a = PulseMod * k + (a % PulseMod)
  BY Quotient
<1>2. PICK l \in Int : (a % PulseMod) + b = PulseMod * l + (((a % PulseMod) + b) % PulseMod)
  <2>1. (a % PulseMod) + b \in Int
    BY Wrapped DEF Pulses
  <2>2. QED
    BY <2>1, Quotient
<1> DEFINE r == ((a % PulseMod) + b) % PulseMod
<1>3. r \in Pulses
  BY Wrapped DEF Pulses
<1>4. a + b = PulseMod * (k + l) + r
  <2>1. PulseMod * (k + l) = PulseMod * k + PulseMod * l
    BY <1>1, <1>2, Window
  <2>2. PulseMod * k \in Int /\ PulseMod * l \in Int /\ a % PulseMod \in Int
    BY <1>1, <1>2, Window
  <2>3. (a % PulseMod) + b = PulseMod * l + r
    BY <1>2
  <2>4. r \in Int
    BY <1>3 DEF Pulses
  <2> HIDE DEF r
  <2>5. QED
    BY <1>1, <2>1, <2>2, <2>3, <2>4
<1> HIDE DEF r
<1>5. (PulseMod * (k + l) + r) % PulseMod = r
  BY <1>3, Rest
<1>6. (a + b) % PulseMod = r
  BY <1>4, <1>5
<1>7. QED
  BY <1>6 DEF r

\* (int32_t)(a - b) is the distance, as long as that is less than half the counter.
LEMMA DiffExact ==
    ASSUME NEW a \in Int, NEW b \in Int, NEW d \in Int,
           -(PulseMod \div 2) <= d, d < PulseMod \div 2,
           (a - b) % PulseMod = d % PulseMod
    PROVE  Diff(a, b) = d
<1>1. CASE d >= 0
  <2>1. d \in Pulses
    BY <1>1, Window DEF Pulses
  <2>2. QED
    BY <2>1, SmallRest, Window DEF Diff
<1>2. CASE d < 0
  <2>1. d + PulseMod \in Pulses /\ d + PulseMod >= PulseMod \div 2
    BY <1>2, Window DEF Pulses
  <2>2. d = PulseMod * (-1) + (d + PulseMod)
    BY Window
  <2>3. d % PulseMod = d + PulseMod
    BY <2>1, <2>2, Rest
  <2>4. QED
    BY <2>1, <2>3, Window DEF Diff
<1>3. QED
  BY <1>1, <1>2

----------------------------------------------------------------------------
(* Types.                                                                  *)

PCs == {"wait", "reset", "edits", "head", "event", "fire", "firing", "watch", "advance",
        "due", "gate"}
Gates  == {"slow", "unsure", "fast"}
Acts   == {"none", "dot", "open", "close", "resume"}
Sheets == [edge : Pulses, elem : Nat, dot : Nat, open : BOOLEAN, age : 0 .. AgeMax]
Watches == [dueArmed : BOOLEAN, due : Pulses, lineArmed : BOOLEAN, end : Pulses, drop : Drops]
GunStates == [open : BOOLEAN, arming : BOOLEAN, drop : Drops,
              kind : {"none", "line", "dot", "test"}, left : 0 .. Unplanned]
Tasks == [pc : PCs, g : Guns, now : Pulses, was : BOOLEAN, gate : Gates, v : Versions,
          peek : Sheets, act : Acts, due : BOOLEAN, pulse : Pulses, drop : Drops]
Offsets == {OffsetOf[v] : v \in Versions}

\* The task has a copy of a sheet; a sheet with elem = 0 stands for none.
HasPeek ==
    task.pc \in {"event", "fire", "firing", "watch", "advance", "gate"} \/ task.peek.open

EnvTypes ==
    /\ enc \in Pulses /\ active \in BOOLEAN /\ notified \in BOOLEAN /\ ticked \in BOOLEAN
    /\ cfgv \in Versions /\ edited \in BOOLEAN /\ offs \in Offsets /\ seen \in Versions
    /\ stop \in {"no", "flushed", "aborted"}
RingTypes ==
    /\ ring \in [Guns -> Seq(Sheets)]
    /\ \A g \in Guns : Len(ring[g]) <= QueueDepth
    /\ \A g \in Guns : \A i \in DOMAIN ring[g] : ring[g][i].elem # 0
GunTypes ==
    /\ watch \in [Guns -> Watches] /\ gun \in [Guns -> GunStates]
    /\ lineDrop \in [Guns -> Drops] /\ linePaused \in [Guns -> BOOLEAN]
    /\ closing \in [Guns -> Drops]
TaskTypes == task \in Tasks /\ (HasPeek => task.peek.elem # 0)

Types == EnvTypes /\ RingTypes /\ GunTypes /\ TaskTypes

LEMMA Constants ==
    /\ NumGuns \in Nat /\ NumGuns >= 1 /\ QueueDepth \in Nat /\ QueueDepth >= 1
    /\ 1 \in Guns /\ NumGuns \in Guns /\ Offsets \subseteq Nat /\ 0 \in Pulses
    /\ Offsets \subseteq 0 .. AgeMax
    /\ \A g \in Guns : g \in Nat /\ (g # NumGuns => g + 1 \in Guns)
    /\ \A v \in Versions : OffsetOf[v] \in Offsets
    /\ 0 \in Drops /\ Unplanned \in 0 .. Unplanned /\ AgeMax \in Nat
BY SchedulerAssumption, Window DEF SchedulerAssumption, Guns, Offsets, Pulses, Drops, Unplanned

LEMMA Records ==
    /\ NoSheet \in Sheets /\ NoWatch \in Watches /\ Shut \in GunStates
    /\ \A p \in Pulses : NewSheet(p) \in Sheets
    /\ \A w \in Watches : NoLine(w) \in Watches /\ NoDue(w) \in Watches
    /\ \A d \in Drops, k \in {"line", "dot", "test"} : Opened(d, k) \in GunStates
    /\ \A s \in Sheets : Older(s) \in Sheets
<1>1. NoSheet \in Sheets /\ \A p \in Pulses : NewSheet(p) \in Sheets
  BY Constants DEF NoSheet, NewSheet, Sheets
<1>2. NoWatch \in Watches /\ \A w \in Watches : NoLine(w) \in Watches /\ NoDue(w) \in Watches
  BY Constants DEF NoWatch, NoLine, NoDue, Watches
<1>3. Shut \in GunStates
  BY Constants DEF Shut, GunStates
<1>4. \A d \in Drops, k \in {"line", "dot", "test"} : Opened(d, k) \in GunStates
  BY Constants DEF Opened, GunStates
<1>5. \A s \in Sheets : Older(s) \in Sheets
  <2> SUFFICES ASSUME NEW s \in Sheets PROVE Older(s) \in Sheets
    OBVIOUS
  <2>1. s.age < AgeMax => s.age + 1 \in 0 .. AgeMax
    BY Constants DEF Sheets
  <2>2. CASE s.elem = 0 \/ s.age >= AgeMax
    BY <2>2 DEF Older
  <2>3. CASE ~(s.elem = 0 \/ s.age >= AgeMax)
    <3>1. s.age \in 0 .. AgeMax
      BY DEF Sheets
    <3>2. s.age + 1 \in 0 .. AgeMax
      BY <2>1, <2>3, <3>1, Constants
    <3>3. Older(s) = [s EXCEPT !.age = s.age + 1]
      BY <2>3 DEF Older
    <3>4. QED
      BY <3>2, <3>3 DEF Sheets
  <2>4. QED
    BY <2>2, <2>3
<1>6. QED
  BY <1>1, <1>2, <1>3, <1>4, <1>5

LEMMA Items ==
    ASSUME NEW S, NEW s \in Seq(S)
    PROVE  Len(s) \in Nat /\ DOMAIN s = 1 .. Len(s) /\ \A i \in 1 .. Len(s) : s[i] \in S
OBVIOUS

\* The elements of a pattern.
LEMMA Geometry ==
    ASSUME NEW v \in Versions, NEW g \in Guns
    PROVE  /\ Type(v, g) \in {"none", "lines", "dots"}
           /\ Len(Elems(v, g)) \in Nat
           /\ \A i \in 1 .. Len(Elems(v, g)) :
                 LET e == Elems(v, g)[i] IN
                 /\ e.start \in Nat /\ e.end \in Nat /\ e.spacing \in Nat /\ e.start <= e.end
                 /\ \A o \in Offsets : o + e.end <= AgeMax
<1> DEFINE p == Shape[v][g]
<1>1. /\ p.type \in {"none", "lines", "dots"}
      /\ p.elems \in Seq([start : Nat, end : Nat, spacing : Nat])
      /\ \A i \in DOMAIN p.elems :
            /\ p.elems[i].start <= p.elems[i].end
            /\ \A w \in Versions : OffsetOf[w] + p.elems[i].end <= AgeMax
  BY ShapeAssumption
<1>2. Elems(v, g) = p.elems /\ Type(v, g) = p.type
  BY DEF Elems, Type
<1> HIDE DEF p
<1>3. /\ Len(p.elems) \in Nat /\ DOMAIN p.elems = 1 .. Len(p.elems)
      /\ \A i \in 1 .. Len(p.elems) : p.elems[i] \in [start : Nat, end : Nat, spacing : Nat]
  BY <1>1, Items
<1>4. QED
  BY <1>1, <1>2, <1>3 DEF Offsets

\* Some id is free, and the one taken is among the free ones.
LEMMA Fresh ==
    ASSUME NEW g \in Guns
    PROVE  FreshDrop(g) \in 1 .. 6 /\ FreshDrop(g) \notin Referred(g)
<1> DEFINE free == 1 .. 6 \ Referred(g)
           a == lineDrop[g]
           b == watch[g].drop
           c == closing[g]
           d == gun[g].drop
           e == task.drop
<1>1. Referred(g) = {a, b, c, d, e, 0}
  BY DEF Referred
<1> HIDE DEF a, b, c, d, e
<1>2. \A x : x \in free <=> x \in {1, 2, 3, 4, 5, 6} /\ x # a /\ x # b /\ x # c /\ x # d /\ x # e
  BY <1>1
<1> HIDE DEF free
<1>3. \E x \in {1, 2, 3, 4, 5, 6} : x # a /\ x # b /\ x # c /\ x # d /\ x # e
  OBVIOUS
<1>4. \E x \in free : \A y \in free : x <= y
  <2>1. PICK x \in {1, 2, 3, 4, 5, 6} : x \in free
    BY <1>2, <1>3
  <2>2. CASE 1 \in free
    BY <1>2, <2>2
  <2>3. CASE 1 \notin free /\ 2 \in free
    BY <1>2, <2>3
  <2>4. CASE 1 \notin free /\ 2 \notin free /\ 3 \in free
    BY <1>2, <2>4
  <2>5. CASE 1 \notin free /\ 2 \notin free /\ 3 \notin free /\ 4 \in free
    BY <1>2, <2>5
  <2>6. CASE 1 \notin free /\ 2 \notin free /\ 3 \notin free /\ 4 \notin free /\ 5 \in free
    BY <1>2, <2>6
  <2>7. CASE 1 \notin free /\ 2 \notin free /\ 3 \notin free /\ 4 \notin free /\ 5 \notin free
    BY <1>2, <2>1, <2>7
  <2>8. QED
    BY <2>2, <2>3, <2>4, <2>5, <2>6, <2>7
<1>5. FreshDrop(g) = CHOOSE x \in free : \A y \in free : x <= y
  BY DEF FreshDrop, free
<1>6. FreshDrop(g) \in free
  BY <1>4, <1>5
<1>7. QED
  BY <1>6 DEF free

LEMMA Products == \A a, b \in Nat : a * b \in Nat
OBVIOUS

LEMMA EventTyped ==
    ASSUME EnvTypes, NEW v \in Versions, NEW g \in Guns, NEW s \in Sheets, s.elem # 0,
           ~NothingLeft(v, g, s)
    PROVE  /\ NextAt(v, g, s) \in 0 .. AgeMax /\ EventPulse(v, g, s) \in Pulses
           /\ s.elem \in 1 .. Len(Elems(v, g))
           /\ NextAction(v, g, s) \in {"dot", "open", "close"}
<1>1. s.elem \in 1 .. Len(Elems(v, g)) /\ s.dot \in Nat /\ s.edge \in Int
  BY Geometry DEF NothingLeft, Sheets, Pulses
<1> DEFINE e == Elems(v, g)[s.elem]
<1>2. /\ e.start \in Nat /\ e.end \in Nat /\ e.spacing \in Nat /\ e.start <= e.end
      /\ offs \in Nat /\ offs + e.end <= AgeMax
  BY <1>1, Geometry, Constants DEF EnvTypes
<1>3. DotAt(v, g, s) \in Nat /\ (Type(v, g) = "dots" => DotAt(v, g, s) <= e.end)
  <2>1. DotAt(v, g, s) = e.start + s.dot * e.spacing /\ s.dot * e.spacing \in Nat
    BY <1>1, <1>2, Products DEF DotAt
  <2>2. Type(v, g) = "dots" => ~(DotAt(v, g, s) > e.end)
    BY <1>1 DEF NothingLeft
  <2> HIDE DEF e
  <2>3. QED
    BY <1>2, <2>1, <2>2
<1>4. /\ NextAction(v, g, s) \in {"dot", "open", "close"}
      /\ NextAction(v, g, s) = "dot" <=> Type(v, g) = "dots"
  BY DEF NextAction
<1>5. NextAt(v, g, s) \in 0 .. AgeMax
  <2>1. CASE NextAction(v, g, s) = "dot"
    BY <1>2, <1>3, <1>4, <2>1, Constants DEF NextAt
  <2>2. CASE NextAction(v, g, s) = "open"
    BY <1>2, <2>2, Constants DEF NextAt
  <2>3. CASE NextAction(v, g, s) = "close"
    BY <1>2, <2>3, Constants DEF NextAt
  <2>4. QED
    BY <1>4, <2>1, <2>2, <2>3
<1>6. EventPulse(v, g, s) \in Pulses
  <2>1. s.edge + NextAt(v, g, s) \in Int
    BY <1>1, <1>5
  <2>2. QED
    BY <2>1, Wrapped DEF EventPulse
<1>7. QED
  BY <1>1, <1>4, <1>5, <1>6

LEMMA LineEndsTyped ==
    ASSUME EnvTypes, NEW v \in Versions, NEW g \in Guns, NEW s \in Sheets, s.elem # 0,
           NEW at \in LineEnds(v, g, s)
    PROVE  at \in 0 .. AgeMax /\ (s.edge + at) % PulseMod \in Pulses
<1>1. offs \in Nat /\ offs \in Offsets /\ s.elem \in Nat /\ s.edge \in Int
  BY Constants DEF EnvTypes, Sheets, Pulses
<1>2. \A w \in Versions : s.elem <= Len(Elems(w, g)) => offs + Elems(w, g)[s.elem].end \in 0 .. AgeMax
  <2> SUFFICES ASSUME NEW w \in Versions, s.elem <= Len(Elems(w, g))
               PROVE  offs + Elems(w, g)[s.elem].end \in 0 .. AgeMax
    OBVIOUS
  <2>1. s.elem \in 1 .. Len(Elems(w, g))
    BY <1>1, Geometry
  <2>2. Elems(w, g)[s.elem].end \in Nat /\ offs + Elems(w, g)[s.elem].end <= AgeMax
    BY <1>1, <2>1, Geometry
  <2>3. QED
    BY <1>1, <2>2, Constants
<1>3. offs \in 0 .. AgeMax
  BY <1>1, Constants
<1>4. at \in 0 .. AgeMax
  BY <1>2, <1>3 DEF LineEnds
<1>5. s.edge + at \in Int
  BY <1>1, <1>4, Constants
<1>6. QED
  BY <1>4, <1>5, Wrapped

LEMMA AdvancedTyped ==
    ASSUME NEW v \in Versions, NEW g \in Guns, NEW s \in Sheets, s.elem # 0
    PROVE  /\ Advanced(v, g, s) \in Sheets /\ Advanced(v, g, s).elem # 0
           /\ Advanced(v, g, s).edge = s.edge /\ Advanced(v, g, s).age = s.age
<1>1. s.elem \in Nat /\ s.elem + 1 \in Nat /\ s.elem + 1 # 0 /\ s.dot + 1 \in Nat
  BY DEF Sheets
<1>2. CASE s.elem > Len(Elems(v, g))
  BY <1>2 DEF Advanced
<1>3. CASE s.elem <= Len(Elems(v, g)) /\ Type(v, g) = "lines"
  <2>1. Advanced(v, g, s) = IF task.act = "open" THEN [s EXCEPT !.open = TRUE]
                            ELSE [s EXCEPT !.open = FALSE, !.elem = s.elem + 1]
    BY <1>1, <1>3, Geometry DEF Advanced
  <2>2. QED
    BY <1>1, <2>1 DEF Sheets
<1>4. CASE s.elem <= Len(Elems(v, g)) /\ Type(v, g) # "lines"
  <2> DEFINE next == [s EXCEPT !.dot = s.dot + 1]
  <2>1. next \in Sheets /\ next.elem = s.elem /\ next.edge = s.edge /\ next.age = s.age
    BY <1>1 DEF Sheets
  <2>2. Advanced(v, g, s) = NextElem(s) \/ Advanced(v, g, s) = next
    <3>1. ~(s.elem > Len(Elems(v, g)))
      BY <1>1, <1>4, Geometry
    <3>2. QED
      BY <1>4, <3>1 DEF Advanced
  <2>3. NextElem(s) = [s EXCEPT !.elem = s.elem + 1, !.dot = 0]
    BY DEF NextElem
  <2> HIDE DEF next
  <2>4. CASE Advanced(v, g, s) = next
    BY <1>1, <2>1, <2>4
  <2>5. CASE Advanced(v, g, s) = NextElem(s)
    <3> DEFINE t == [s EXCEPT !.elem = s.elem + 1, !.dot = 0]
    <3>1. /\ t \in Sheets /\ t.elem = s.elem + 1 /\ t.edge = s.edge /\ t.age = s.age
      BY <1>1 DEF Sheets
    <3>2. Advanced(v, g, s) = t
      BY <2>3, <2>5
    <3> HIDE DEF t
    <3>3. QED
      BY <1>1, <3>1, <3>2
  <2>6. QED
    BY <2>2, <2>4, <2>5
<1>5. QED
  BY <1>1, <1>2, <1>3, <1>4, Geometry

\* Where the task goes when it is done with a gun.
LEMMA NextGunTyped ==
    ASSUME Types
    PROVE  /\ Waiting \in Tasks /\ Waiting.pc = "wait" /\ Waiting.peek = NoSheet /\ Waiting.drop = 0
           /\ Waiting.was = task.was /\ Waiting.gate = task.gate /\ Waiting.now = task.now
           /\ Waiting.act = "none"
           /\ NextGun \in Tasks /\ NextGun.peek = NoSheet /\ NextGun.drop = 0
           /\ NextGun.was = task.was /\ NextGun.gate = task.gate /\ NextGun.now = task.now
           /\ NextGun.act = "none"
           /\ IF task.g = NumGuns THEN NextGun.pc = "wait" /\ NextGun.g = 1
              ELSE NextGun.pc = "head" /\ NextGun.g = task.g + 1
<1>1. task \in Tasks /\ task.g \in Guns
  BY DEF Types, TaskTypes, Tasks
<1>2. /\ Waiting \in Tasks /\ Waiting.pc = "wait" /\ Waiting.peek = NoSheet /\ Waiting.drop = 0
      /\ Waiting.was = task.was /\ Waiting.gate = task.gate /\ Waiting.now = task.now
      /\ Waiting.act = "none" /\ Waiting.g = 1
  BY <1>1, Constants, Records DEF Waiting, Tasks, PCs, Acts
<1>3. CASE task.g = NumGuns
  BY <1>2, <1>3 DEF NextGun
<1>4. CASE task.g # NumGuns
  <2>1. task.g + 1 \in Guns /\ NextGun = [Waiting EXCEPT !.pc = "head", !.g = task.g + 1]
    BY <1>1, <1>4, Constants DEF NextGun
  <2> HIDE DEF Waiting
  <2>2. QED
    BY <1>2, <1>4, <2>1 DEF Tasks, PCs
<1>5. QED
  BY <1>2, <1>3, <1>4

LEMMA TypesStart == Init => Types
<1> SUFFICES ASSUME Init PROVE Types
  OBVIOUS
<1>1. EnvTypes
  <2>1. active \in BOOLEAN /\ notified \in BOOLEAN /\ ticked \in BOOLEAN /\ edited \in BOOLEAN
    BY Zenon DEF Init
  <2>2. QED
    BY <2>1, Constants DEF Init, EnvTypes
<1>2. RingTypes
  BY Constants DEF Init, RingTypes
<1>3. GunTypes
  BY Constants, Records DEF Init, GunTypes
<1>4. TaskTypes
  <2>1. NoSheet \in Sheets /\ NoSheet.open = FALSE /\ 0 \in Pulses /\ 0 \in Drops /\ 1 \in Guns
    BY Constants, Records DEF NoSheet
  <2>2. task \in Tasks
    BY <2>1 DEF Init, Tasks, PCs, Gates, Acts
  <2>3. task.pc = "wait" /\ task.peek = NoSheet
    BY DEF Init
  <2>4. QED
    BY <2>1, <2>2, <2>3 DEF TaskTypes, HasPeek
<1>5. QED
  BY <1>1, <1>2, <1>3, <1>4 DEF Types

\* The parts that an action leaves alone keep their types.
LEMMA EnvKept == EnvTypes /\ UNCHANGED <<enc, active, cfgVars, seen, notified, ticked, stop>> => EnvTypes'
BY DEF EnvTypes, cfgVars

LEMMA RingKept == RingTypes /\ UNCHANGED ring => RingTypes'
BY DEF RingTypes

LEMMA GunKept == GunTypes /\ UNCHANGED <<watch, gun, lineVars, closing>> => GunTypes'
BY DEF GunTypes, lineVars

LEMMA TaskKept == TaskTypes /\ UNCHANGED task => TaskTypes'
BY DEF TaskTypes, HasPeek

\* Closing a line, resetting a gun.
LEMMA Closed ==
    ASSUME Types, NEW g \in Guns
    PROVE  /\ CloseIfDrop(g, lineDrop[g]) \in GunStates
           /\ \A d : CloseIfDrop(g, d) \in GunStates
           /\ watch[g] \in Watches /\ NoLine(watch[g]) \in Watches /\ NoDue(watch[g]) \in Watches
BY Records DEF Types, GunTypes, CloseIfDrop

LEMMA EndLineTyped ==
    ASSUME Types, NEW g \in Guns, EndLine(g) \/ UNCHANGED <<gun, lineVars>>
    PROVE  /\ gun' \in [Guns -> GunStates] /\ lineDrop' \in [Guns -> Drops]
           /\ linePaused' \in [Guns -> BOOLEAN]
<1> DEFINE shut == CloseIfDrop(g, lineDrop[g])
<1>1. shut \in GunStates /\ 0 \in Drops
  BY Closed, Constants
<1>2. gun \in [Guns -> GunStates] /\ lineDrop \in [Guns -> Drops] /\ linePaused \in [Guns -> BOOLEAN]
  BY DEF Types, GunTypes
<1>3. CASE EndLine(g)
  <2>1. /\ gun' = [gun EXCEPT ![g] = shut] /\ lineDrop' = [lineDrop EXCEPT ![g] = 0]
        /\ linePaused' = [linePaused EXCEPT ![g] = FALSE]
    BY <1>3 DEF EndLine, CloseLine
  <2> HIDE DEF shut
  <2>2. QED
    BY <1>1, <1>2, <2>1
<1>4. QED
  BY <1>2, <1>3 DEF lineVars

LEMMA ResetTyped ==
    ASSUME Types, NEW g \in Guns,
           ResetGun(g) \/ UNCHANGED <<ring, watch, gun, lineVars>>, UNCHANGED closing
    PROVE  RingTypes' /\ GunTypes'
<1>1. EndLine(g) \/ UNCHANGED <<gun, lineVars>>
  BY DEF ResetGun
<1>2. watch' \in [Guns -> Watches]
  BY Records DEF ResetGun, Types, GunTypes
<1>3. RingTypes'
  <2>1. CASE UNCHANGED ring
    BY <2>1, RingKept DEF Types
  <2>2. CASE ring' = [ring EXCEPT ![g] = <<>>]
    <3>1. \A h \in Guns : ring'[h] = IF h = g THEN <<>> ELSE ring[h]
      BY <2>2 DEF Types, RingTypes
    <3>2. Len(<<>>) = 0 /\ <<>> \in Seq(Sheets) /\ DOMAIN <<>> = {} /\ QueueDepth \in Nat
      BY Constants
    <3>3. QED
      BY <2>2, <3>1, <3>2 DEF Types, RingTypes
  <2>3. QED
    BY <2>1, <2>2 DEF ResetGun
<1>4. QED
  BY <1>1, <1>2, <1>3, EndLineTyped DEF Types, GunTypes

LEMMA TaskFields ==
    ASSUME Types
    PROVE  /\ task \in Tasks /\ task.g \in Guns /\ task.peek \in Sheets /\ task.pc \in PCs
           /\ task.v \in Versions /\ task.now \in Pulses /\ task.pulse \in Pulses
           /\ task.act \in Acts /\ task.gate \in Gates /\ task.drop \in Drops
           /\ cfgv \in Versions /\ seen \in Versions /\ enc \in Pulses
           /\ (HasPeek => task.peek.elem # 0)
BY DEF Types, TaskTypes, EnvTypes, Tasks

\* The copy that the task takes.
LEMMA HeadTyped ==
    ASSUME NEW s \in Seq(Sheets), s # <<>>, \A i \in DOMAIN s : s[i].elem # 0
    PROVE  /\ Head(s) \in Sheets /\ Head(s).elem # 0 /\ Tail(s) \in Seq(Sheets)
           /\ Len(Tail(s)) = Len(s) - 1 /\ Len(s) \in Nat /\ Head(s) = s[1]
           /\ \A i \in DOMAIN Tail(s) : Tail(s)[i] = s[i + 1] /\ i + 1 \in DOMAIN s
           /\ \A i \in DOMAIN Tail(s) : Tail(s)[i].elem # 0
<1>1. /\ Head(s) = s[1] /\ Head(s) \in Sheets /\ Len(s) \in Nat /\ DOMAIN s = 1 .. Len(s) /\ Len(s) >= 1
      /\ Tail(s) \in Seq(Sheets) /\ Len(Tail(s)) = Len(s) - 1
      /\ DOMAIN Tail(s) = 1 .. Len(s) - 1
      /\ \A i \in 1 .. Len(s) - 1 : Tail(s)[i] = s[i + 1]
  OBVIOUS
<1> DEFINE t == Tail(s)
<1> HIDE DEF t
<1>2. \A i \in DOMAIN t : t[i] = s[i + 1] /\ i + 1 \in DOMAIN s
  BY <1>1 DEF t
<1>3. QED
  BY <1>1, <1>2 DEF t

LEMMA TaskStepTyped == Types /\ Task => TaskTypes'
<1> SUFFICES ASSUME Types, Task PROVE TaskTypes'
  OBVIOUS
<1>0. /\ task \in Tasks /\ task.g \in Guns /\ task.peek \in Sheets /\ task.v \in Versions
      /\ cfgv \in Versions /\ enc \in Pulses /\ task.act \in Acts
      /\ (HasPeek => task.peek.elem # 0)
  BY TaskFields
<1>1. ASSUME task' = Waiting \/ task' = NextGun PROVE TaskTypes'
  BY <1>1, NextGunTyped DEF TaskTypes, HasPeek, NoSheet
<1>2. CASE RoundIdle
  BY <1>0, <1>2 DEF RoundIdle, TaskTypes, HasPeek, Tasks
<1>3. CASE RoundStopped
  BY <1>0, <1>3 DEF RoundStopped, TaskTypes, HasPeek, Tasks, PCs, At
<1>4. CASE RoundActive
  <2>1. PICK verdict \in {"slow", "unsure", "fast"} :
           task' = [task EXCEPT !.pc = IF edited THEN "edits" ELSE "head", !.now = enc,
                                !.was = TRUE, !.v = cfgv, !.gate = verdict]
    BY <1>4 DEF RoundActive
  <2>2. (IF edited THEN "edits" ELSE "head") \in {"edits", "head"}
    OBVIOUS
  <2> DEFINE c == IF edited THEN "edits" ELSE "head"
  <2> HIDE DEF c
  <2>3. task' = [task EXCEPT !.pc = c, !.now = enc, !.was = TRUE, !.v = cfgv, !.gate = verdict]
    BY <2>1 DEF c
  <2>4. c \in {"edits", "head"}
    BY DEF c
  <2>5. task'.pc = c /\ task'.peek = task.peek
    BY <1>0, <2>3 DEF Tasks
  <2>6. task' \in Tasks
    BY <1>0, <2>3, <2>4 DEF Tasks, PCs, Gates
  <2>7. QED
    BY <1>0, <2>4, <2>5, <2>6 DEF TaskTypes, HasPeek
<1>5. CASE StopReset
  <2>1. CASE task.g = NumGuns
    BY <1>1, <1>5, <2>1 DEF StopReset
  <2>2. CASE task.g # NumGuns
    <3>1. task' = [task EXCEPT !.g = task.g + 1] /\ task.g + 1 \in Guns
      BY <1>0, <1>5, <2>2, Constants DEF StopReset
    <3>2. QED
      BY <1>0, <3>1 DEF TaskTypes, HasPeek, Tasks
  <2>3. QED
    BY <2>1, <2>2
<1>6. CASE CheckEdit
  <2>1. CASE task.g < NumGuns
    <3>1. task' = [task EXCEPT !.g = task.g + 1] /\ task.g + 1 \in Guns
      BY <1>0, <1>6, <2>1, Constants DEF CheckEdit, EditsEnd
    <3>2. QED
      BY <1>0, <3>1 DEF TaskTypes, HasPeek, Tasks
  <2>2. CASE ~(task.g < NumGuns)
    <3>1. task' = [task EXCEPT !.pc = "head", !.g = 1]
      BY <1>6, <2>2 DEF CheckEdit, EditsEnd
    <3>2. QED
      BY <1>0, <3>1, Constants DEF TaskTypes, HasPeek, Tasks, PCs
  <2>3. QED
    BY <2>1, <2>2
<1>7. CASE HeadSheet
  <2> DEFINE h == Head(ring[task.g])
  <2>1. h \in Sheets /\ h.elem # 0
    BY <1>0, <1>7, HeadTyped DEF HeadSheet, Types, RingTypes
  <2>2. task' = [task EXCEPT !.pc = "event", !.peek = h]
    BY <1>7 DEF HeadSheet
  <2> HIDE DEF h
  <2>3. QED
    BY <1>0, <2>1, <2>2 DEF TaskTypes, HasPeek, Tasks, PCs
<1>8. CASE HeadNone
  BY <1>1, <1>8 DEF HeadNone
<1>9. CASE SheetDone
  <2> DEFINE rest == Popped(task.g)
  <2>1. CASE rest = <<>>
    <3>1. task' = [task EXCEPT !.pc = "due", !.peek = NoSheet]
      BY <1>9, <2>1 DEF SheetDone
    <3>2. QED
      BY <1>0, <3>1, Records DEF TaskTypes, HasPeek, Tasks, PCs, NoSheet
  <2>2. CASE rest # <<>>
    <3> DEFINE h == Head(rest)
    <3>1. task' = [task EXCEPT !.peek = h]
      BY <1>9, <2>2 DEF SheetDone
    <3>2. rest \in Seq(Sheets) /\ \A i \in DOMAIN rest : rest[i].elem # 0
      <4>1. ring[task.g] # <<>> /\ rest = Tail(ring[task.g])
        BY <2>2 DEF Popped
      <4>2. ring[task.g] \in Seq(Sheets) /\ \A i \in DOMAIN ring[task.g] : ring[task.g][i].elem # 0
        BY <1>0 DEF Types, RingTypes
      <4> HIDE DEF rest
      <4>3. QED
        BY <4>1, <4>2, HeadTyped
    <3> HIDE DEF rest
    <3>3. h \in Sheets /\ h.elem # 0
      BY <2>2, <3>2, HeadTyped
    <3> HIDE DEF h
    <3>4. QED
      BY <1>0, <3>1, <3>3 DEF TaskTypes, HasPeek, Tasks
  <2>3. QED
    BY <2>1, <2>2
<1>10. CASE NotDue
  <2> DEFINE p == EventPulse(cfgv, task.g, task.peek)
  <2>1. p \in Pulses /\ task.peek.elem # 0
    BY <1>0, <1>10, EventTyped DEF NotDue, At, HasPeek, Types
  <2>2. task' = [task EXCEPT !.pc = "due", !.due = TRUE, !.pulse = p]
    BY <1>10 DEF NotDue
  <2> HIDE DEF p
  <2>3. QED
    BY <1>0, <2>1, <2>2 DEF TaskTypes, HasPeek, Tasks, PCs
<1>11. ASSUME NEW a \in {"dot", "open"}, DropDue(a) PROVE TaskTypes'
  BY <1>0, <1>11 DEF DropDue, EventDue, At, TaskTypes, HasPeek, Tasks, PCs, Acts
<1>12. CASE LineTooSlow
  BY <1>0, <1>12 DEF LineTooSlow, EventDue, At, TaskTypes, HasPeek, Tasks, PCs, Acts
<1>13. CASE LineEndDue
  BY <1>0, <1>13 DEF LineEndDue, EventDue, At, TaskTypes, HasPeek, Tasks, PCs, Acts
<1>14. ASSUME NotOpened, task.pc \in {"fire", "firing"} PROVE TaskTypes'
  <2>1. CASE task.act = "resume"
    BY <1>1, <1>14, <2>1 DEF NotOpened
  <2>2. CASE task.act # "resume"
    BY <1>0, <1>14, <2>2 DEF NotOpened, TaskTypes, HasPeek, Tasks, PCs
  <2>3. QED
    BY <2>1, <2>2
<1>15. CASE FireBegin
  <2>1. CASE NotOpened
    BY <1>14, <1>15, <2>1 DEF FireBegin, At
  <2>2. CASE task' = [task EXCEPT !.pc = "firing"]
    BY <1>0, <1>15, <2>2 DEF FireBegin, At, TaskTypes, HasPeek, Tasks, PCs
  <2>3. QED
    BY <1>15, <2>1, <2>2 DEF FireBegin
<1>16. CASE FireOpens
  <2>1. CASE task' = [task EXCEPT !.pc = "advance"]
    BY <1>0, <1>16, <2>1 DEF FireOpens, At, TaskTypes, HasPeek, Tasks, PCs
  <2>2. CASE task' = [task EXCEPT !.pc = "watch", !.drop = FreshDrop(task.g)]
    <3>1. FreshDrop(task.g) \in Drops
      BY <1>0, Fresh DEF Drops
    <3>2. QED
      BY <1>0, <1>16, <2>2, <3>1 DEF FireOpens, At, TaskTypes, HasPeek, Tasks, PCs
  <2>3. QED
    BY <1>16, <2>1, <2>2 DEF FireOpens
<1>17. CASE FireRefused
  BY <1>14, <1>17 DEF FireRefused, At
<1>18. CASE WatchLineEnd
  <2>1. CASE task.act = "resume"
    BY <1>1, <1>18, <2>1 DEF WatchLineEnd
  <2>2. CASE task.act # "resume"
    BY <1>0, <1>18, <2>2, Constants DEF WatchLineEnd, At, TaskTypes, HasPeek, Tasks, PCs
  <2>3. QED
    BY <2>1, <2>2
<1>19. CASE Advance
  <2> DEFINE s == Advanced(cfgv, task.g, task.peek)
  <2>1. s \in Sheets /\ s.elem # 0
    BY <1>0, <1>19, AdvancedTyped DEF Advance, At, HasPeek
  <2>2. task' = [task EXCEPT !.pc = "event", !.peek = s, !.act = "none"]
    BY <1>19 DEF Advance
  <2> HIDE DEF s
  <2>3. QED
    BY <1>0, <2>1, <2>2 DEF TaskTypes, Tasks, PCs, Acts
<1>20. CASE WatchDue
  <2>1. CASE task.peek.open
    BY <1>0, <1>20, <2>1 DEF WatchDue, TaskTypes, HasPeek, Tasks, PCs
  <2>2. CASE ~task.peek.open
    BY <1>1, <1>20, <2>2 DEF WatchDue
  <2>3. QED
    BY <2>1, <2>2
<1>21. CASE GateCloses
  BY <1>1, <1>21 DEF GateCloses
<1>22. CASE GatePasses
  <2>1. CASE task' = NextGun
    BY <1>1, <2>1
  <2>2. CASE task' = [task EXCEPT !.pc = "fire", !.act = "resume"]
    <3>1. task.peek.elem # 0
      BY <1>0, <1>22 DEF GatePasses, At, HasPeek
    <3>2. QED
      BY <1>0, <2>2, <3>1 DEF TaskTypes, HasPeek, Tasks, PCs, Acts
  <2>3. QED
    BY <1>22, <2>1, <2>2 DEF GatePasses
<1>23. QED
  BY <1>2, <1>3, <1>4, <1>5, <1>6, <1>7, <1>8, <1>9, <1>10, <1>11, <1>12, <1>13, <1>15, <1>16,
     <1>17, <1>18, <1>19, <1>20, <1>21, <1>22 DEF Task

\* notified and ticked are the only parts of EnvTypes that the task and the tick set.
LEMMA EnvStepTyped ==
    ASSUME Types, notified' \in BOOLEAN, ticked' \in BOOLEAN, edited' \in BOOLEAN,
           active' = active \/ active' \in BOOLEAN, enc' \in Pulses, offs' \in Offsets, cfgv' \in Versions,
           seen' \in Versions, stop' \in {"no", "flushed", "aborted"}
    PROVE  EnvTypes'
BY DEF Types, EnvTypes

LEMMA TaskEnvTyped == Types /\ Task => EnvTypes'
<1> SUFFICES ASSUME Types, Task PROVE EnvTypes'
  OBVIOUS
<1>1. EnvTypes /\ task.v \in Versions
  BY TaskFields DEF Types
<1>2. CASE RoundIdle \/ RoundStopped \/ RoundActive
  <2>1. notified' = FALSE /\ (edited' = edited \/ edited' = FALSE)
        /\ UNCHANGED <<enc, active, cfgv, offs, seen, ticked, stop>>
    BY <1>2 DEF RoundIdle, RoundStopped, RoundActive, cfgVars
  <2>2. QED
    BY <1>1, <2>1, EnvStepTyped DEF EnvTypes
<1>3. CASE CheckEdit
  <2>1. seen' = seen \/ seen' = task.v
    BY <1>3 DEF CheckEdit, EditsEnd
  <2>2. UNCHANGED <<enc, active, cfgVars, notified, ticked, stop>>
    BY <1>3 DEF CheckEdit
  <2>3. QED
    BY <1>1, <2>1, <2>2 DEF EnvTypes, cfgVars
<1>4. CASE WatchLineEnd
  <2>1. ticked' = FALSE /\ UNCHANGED <<enc, active, cfgVars, seen, notified, stop>>
    BY <1>4 DEF WatchLineEnd
  <2>2. QED
    BY <1>1, <2>1 DEF EnvTypes, cfgVars
<1>5. CASE ~(RoundIdle \/ RoundStopped \/ RoundActive \/ CheckEdit \/ WatchLineEnd)
  <2>1. UNCHANGED <<enc, active, cfgVars, seen, notified, ticked, stop>>
    BY <1>5 DEF Task, StopReset, HeadSheet, HeadNone, SheetDone, NotDue, DropDue, LineTooSlow,
                LineEndDue, FireBegin, FireOpens, FireRefused, Advance, WatchDue, GateCloses, GatePasses
  <2>2. QED
    BY <1>1, <2>1, EnvKept
<1>6. QED
  BY <1>2, <1>3, <1>4, <1>5

LEMMA TaskGunTyped == Types /\ Task => RingTypes' /\ GunTypes'
<1> SUFFICES ASSUME Types, Task PROVE RingTypes' /\ GunTypes'
  OBVIOUS
<1>0. /\ task \in Tasks /\ task.g \in Guns /\ task.peek \in Sheets /\ task.pc \in PCs
      /\ cfgv \in Versions /\ RingTypes /\ GunTypes /\ task.due \in BOOLEAN /\ task.pulse \in Pulses
      /\ task.drop \in Drops /\ (HasPeek => task.peek.elem # 0)
  BY TaskFields DEF Types, Tasks
<1>1. CASE RoundIdle \/ RoundStopped \/ RoundActive \/ HeadSheet \/ NotDue
           \/ DropDue("dot") \/ DropDue("open") \/ GatePasses
  <2>1. UNCHANGED <<ring, watch, gun, lineVars, closing>>
    BY <1>1 DEF RoundIdle, RoundStopped, RoundActive, HeadSheet, NotDue, DropDue, GatePasses
  <2>2. QED
    BY <1>0, <2>1, RingKept, GunKept
<1>2. CASE StopReset
  BY <1>0, <1>2, ResetTyped DEF StopReset
<1>3. CASE CheckEdit
  BY <1>0, <1>3, ResetTyped DEF CheckEdit
<1>4. ASSUME EndLine(task.g) \/ UNCHANGED <<gun, lineVars>>, UNCHANGED closing,
             \E w \in Watches : watch' = [watch EXCEPT ![task.g] = w] \/ watch' = watch
      PROVE  GunTypes'
  <2>1. watch' \in [Guns -> Watches]
    BY <1>0, <1>4 DEF GunTypes
  <2>2. QED
    BY <1>0, <1>4, <2>1, EndLineTyped DEF GunTypes
<1>5. NoLine(watch[task.g]) \in Watches /\ NoWatch \in Watches /\ watch[task.g] \in Watches
  BY <1>0, Closed, Records
<1>6. CASE HeadNone
  <2>1. UNCHANGED ring /\ UNCHANGED closing /\ EndLine(task.g) /\ watch' = [watch EXCEPT ![task.g] = NoWatch]
    BY <1>6 DEF HeadNone
  <2>2. QED
    BY <1>0, <1>4, <1>5, <2>1, RingKept
<1>7. CASE SheetDone
  <2>1. RingTypes'
    <3> DEFINE rest == Popped(task.g)
    <3>1. ring' = [ring EXCEPT ![task.g] = rest]
      BY <1>7 DEF SheetDone
    <3>2. /\ ring[task.g] \in Seq(Sheets) /\ \A i \in DOMAIN ring[task.g] : ring[task.g][i].elem # 0
          /\ Len(ring[task.g]) <= QueueDepth /\ QueueDepth \in Nat
      BY <1>0, Constants DEF RingTypes
    <3>3. /\ rest \in Seq(Sheets) /\ Len(rest) <= QueueDepth /\ \A i \in DOMAIN rest : rest[i].elem # 0
      <4>1. CASE ring[task.g] = <<>>
        <5>1. rest = ring[task.g]
          BY <4>1 DEF Popped
        <5>2. QED
          BY <3>2, <5>1
      <4>2. CASE ring[task.g] # <<>>
        <5>1. rest = Tail(ring[task.g])
          BY <4>2 DEF Popped
        <5> HIDE DEF rest
        <5>2. QED
          BY <3>2, <4>2, <5>1, HeadTyped
      <4>3. QED
        BY <4>1, <4>2
    <3> HIDE DEF rest
    <3>4. \A h \in Guns : ring'[h] = IF h = task.g THEN rest ELSE ring[h]
      BY <1>0, <3>1 DEF RingTypes
    <3>5. QED
      BY <1>0, <3>1, <3>3, <3>4 DEF RingTypes
  <2>2. GunTypes'
    BY <1>4, <1>5, <1>7 DEF SheetDone
  <2>3. QED
    BY <2>1, <2>2
<1>8. CASE LineEndDue
  <2>1. UNCHANGED ring /\ UNCHANGED closing /\ EndLine(task.g)
        /\ watch' = [watch EXCEPT ![task.g] = NoLine(watch[task.g])]
    BY <1>8 DEF LineEndDue
  <2>2. QED
    BY <1>0, <1>4, <1>5, <2>1, RingKept
<1>9. CASE LineTooSlow
  BY <1>0, <1>9, RingKept DEF LineTooSlow, GunTypes
<1>10. ASSUME NotOpened PROVE linePaused' \in [Guns -> BOOLEAN]
  BY <1>0, <1>10 DEF NotOpened, GunTypes
<1>11. CASE FireBegin \/ FireRefused
  <2>1. UNCHANGED <<ring, watch, lineDrop, closing>>
    BY <1>11 DEF FireBegin, FireRefused
  <2>2. linePaused' \in [Guns -> BOOLEAN]
    BY <1>0, <1>10, <1>11 DEF FireBegin, FireRefused, GunTypes
  <2>3. gun' \in [Guns -> GunStates]
    <3>1. \E b \in BOOLEAN : gun' = [gun EXCEPT ![task.g].arming = b] \/ gun' = gun
      BY <1>11 DEF FireBegin, FireRefused
    <3>2. QED
      BY <1>0, <3>1 DEF GunTypes, GunStates
  <2>4. QED
    BY <1>0, <2>1, <2>2, <2>3, RingKept DEF GunTypes
<1>12. CASE FireOpens
  <2> DEFINE k == IF task.act = "dot" THEN "dot" ELSE "line"
  <2>1. gun' = [gun EXCEPT ![task.g] = Opened(FreshDrop(task.g), k)]
        /\ UNCHANGED <<ring, watch, lineVars, closing>>
    BY <1>12 DEF FireOpens
  <2>2. FreshDrop(task.g) \in Drops /\ k \in {"line", "dot", "test"}
    BY <1>0, Fresh DEF Drops
  <2>3. Opened(FreshDrop(task.g), k) \in GunStates
    BY <2>2, Records
  <2> HIDE DEF k
  <2>4. gun' \in [Guns -> GunStates]
    BY <1>0, <2>1, <2>3 DEF GunTypes
  <2>5. QED
    BY <1>0, <2>1, <2>4, RingKept DEF GunTypes, lineVars
<1>13. CASE WatchLineEnd
  <2>1. PICK at \in LineEnds(cfgv, task.g, task.peek) :
          /\ watch' = [watch EXCEPT ![task.g].lineArmed = TRUE, ![task.g].drop = task.drop,
                                    ![task.g].end = (task.peek.edge + at) % PulseMod]
          /\ gun' = IF gun[task.g].drop = task.drop
                      THEN [gun EXCEPT ![task.g].left = IF at > task.peek.age
                                                          THEN at - task.peek.age ELSE 0]
                      ELSE gun
    BY <1>13 DEF WatchLineEnd
  <2>2. at \in 0 .. AgeMax /\ (task.peek.edge + at) % PulseMod \in Pulses
    BY <1>0, <1>13, LineEndsTyped DEF WatchLineEnd, At, HasPeek, Types
  <2>3. watch' \in [Guns -> Watches]
    <3> DEFINE e == (task.peek.edge + at) % PulseMod
    <3>1. e \in Pulses
      BY <2>2
    <3>2. watch' = [watch EXCEPT ![task.g].lineArmed = TRUE, ![task.g].drop = task.drop, ![task.g].end = e]
      BY <2>1
    <3> HIDE DEF e
    <3>3. QED
      BY <1>0, <3>1, <3>2 DEF GunTypes, Watches
  <2>4. gun' \in [Guns -> GunStates]
    <3> DEFINE l == IF at > task.peek.age THEN at - task.peek.age ELSE 0
    <3>1. l \in 0 .. Unplanned
      BY <1>0, <2>2, Constants DEF Sheets, Unplanned
    <3>2. gun' = [gun EXCEPT ![task.g].left = l] \/ gun' = gun
      BY <2>1
    <3> HIDE DEF l
    <3>3. QED
      BY <1>0, <3>1, <3>2 DEF GunTypes, GunStates
  <2>5. lineDrop' \in [Guns -> Drops] /\ linePaused' \in [Guns -> BOOLEAN]
    BY <1>0, <1>13 DEF WatchLineEnd, GunTypes, PausedNoMore
  <2>6. UNCHANGED <<ring, closing>>
    BY <1>13 DEF WatchLineEnd
  <2>7. QED
    BY <1>0, <2>3, <2>4, <2>5, <2>6, RingKept DEF GunTypes
<1>14. CASE Advance
  <2> DEFINE s == Advanced(cfgv, task.g, task.peek)
  <2>1. s \in Sheets /\ s.elem # 0
    BY <1>0, <1>14, AdvancedTyped DEF Advance, At, HasPeek
  <2>2. ring' = WriteBack(task.g, s) /\ UNCHANGED <<watch, gun, lineVars, closing>>
    BY <1>14 DEF Advance
  <2> HIDE DEF s
  <2>3. RingTypes'
    <3>1. CASE ring[task.g] = <<>>
      BY <1>0, <2>2, <3>1, RingKept DEF WriteBack
    <3>2. CASE ring[task.g] # <<>>
      <4>1. ring' = [ring EXCEPT ![task.g][1] = s]
        BY <2>2, <3>2 DEF WriteBack
      <4>2. QED
        BY <1>0, <2>1, <3>2, <4>1 DEF RingTypes
    <3>3. QED
      BY <3>1, <3>2
  <2>4. QED
    BY <1>0, <2>2, <2>3, GunKept
<1>15. CASE WatchDue
  <2>1. watch' = [watch EXCEPT ![task.g].dueArmed = task.due, ![task.g].due = task.pulse]
        /\ UNCHANGED <<ring, gun, lineVars, closing>>
    BY <1>15 DEF WatchDue
  <2>2. watch' \in [Guns -> Watches]
    BY <1>0, <2>1 DEF GunTypes, Watches
  <2>3. QED
    BY <1>0, <2>1, <2>2, RingKept DEF GunTypes, lineVars
<1>16. CASE GateCloses
  <2>1. CASE UNCHANGED <<watch, gun, lineVars>>
    BY <1>0, <1>16, <2>1, RingKept, GunKept DEF GateCloses
  <2>2. CASE /\ CloseLine(task.g)
             /\ watch' = [watch EXCEPT ![task.g] = NoLine(watch[task.g])]
             /\ linePaused' = [linePaused EXCEPT ![task.g] = TRUE]
    <3>1. CloseIfDrop(task.g, lineDrop[task.g]) \in GunStates /\ 0 \in Drops
      BY <1>0, Closed, Constants
    <3>2. gun' = [gun EXCEPT ![task.g] = CloseIfDrop(task.g, lineDrop[task.g])]
          /\ lineDrop' = [lineDrop EXCEPT ![task.g] = 0]
      BY <2>2 DEF CloseLine
    <3>3. gun' \in [Guns -> GunStates] /\ lineDrop' \in [Guns -> Drops]
          /\ linePaused' \in [Guns -> BOOLEAN] /\ watch' \in [Guns -> Watches]
      BY <1>0, <1>5, <2>2, <3>1, <3>2 DEF GunTypes
    <3>4. QED
      BY <1>0, <1>16, <3>3, RingKept DEF GateCloses, GunTypes
  <2>3. QED
    BY <1>16, <2>1, <2>2 DEF GateCloses
<1>17. QED
  BY <1>1, <1>2, <1>3, <1>6, <1>7, <1>8, <1>9, <1>11, <1>12, <1>13, <1>14, <1>15, <1>16 DEF Task

\* What the world does to the task.
LEMMA WorldTyped ==
    ASSUME Types, Next, ~Task
    PROVE  Types'
<1>0. /\ task \in Tasks /\ task.peek \in Sheets /\ enc \in Pulses /\ cfgv \in Versions /\ offs \in Offsets
      /\ EnvTypes /\ RingTypes /\ GunTypes /\ TaskTypes
  BY TaskFields DEF Types, EnvTypes
<1>1. CASE TickBegin
  <2>1. notified' \in BOOLEAN
    BY <1>1, Zenon DEF TickBegin
  <2>2. EnvTypes'
    BY <1>0, <1>1, <2>1 DEF TickBegin, EnvTypes, cfgVars
  <2>3. closing' \in [Guns -> Drops] /\ watch' \in [Guns -> Watches]
    <3>1. \A g \in Guns : watch[g] \in Watches /\ watch[g].drop \in Drops /\ 0 \in Drops
      BY <1>0, Constants DEF GunTypes, Watches
    <3>2. \A g \in Guns : NoLine(watch[g]) \in Watches /\ NoDue(watch[g]) \in Watches
                          /\ NoDue(NoLine(watch[g])) \in Watches
      BY <3>1, Records
    <3>3. \A g \in Guns :
             LET w == IF LineReached(g) THEN NoLine(watch[g]) ELSE watch[g]
             IN  (IF DueReached(g) THEN NoDue(w) ELSE w) \in Watches
      BY <3>1, <3>2
    <3>4. watch' = [g \in Guns |->
                      LET w == IF LineReached(g) THEN NoLine(watch[g]) ELSE watch[g]
                      IN  IF DueReached(g) THEN NoDue(w) ELSE w]
      BY <1>1 DEF TickBegin
    <3>5. closing' \in [Guns -> Drops]
      BY <1>1, <3>1 DEF TickBegin
    <3>6. QED
      BY <3>3, <3>4, <3>5
  <2>4. UNCHANGED <<ring, gun, lineVars, task>>
    BY <1>1 DEF TickBegin
  <2>5. QED
    BY <1>0, <2>2, <2>3, <2>4, RingKept, TaskKept DEF Types, GunTypes, lineVars
<1>2. ASSUME NEW g \in Guns, TickClose(g) PROVE Types'
  <2>1. CloseIfDrop(g, closing[g]) \in GunStates /\ 0 \in Drops
    BY Closed, Constants
  <2>2. gun' = [gun EXCEPT ![g] = CloseIfDrop(g, closing[g])] /\ closing' = [closing EXCEPT ![g] = 0]
    BY <1>2 DEF TickClose
  <2>3. gun' \in [Guns -> GunStates] /\ closing' \in [Guns -> Drops]
    BY <1>0, <2>1, <2>2 DEF GunTypes
  <2>4. UNCHANGED <<enc, active, cfgVars, ring, watch, lineVars, seen, task, notified, ticked, stop>>
    BY <1>2 DEF TickClose
  <2>5. QED
    BY <1>0, <2>3, <2>4, EnvKept, RingKept, TaskKept DEF Types, GunTypes, lineVars
<1>3. CASE Move
  <2>1. enc' \in Pulses /\ ticked' = FALSE
        /\ UNCHANGED <<active, cfgVars, watch, lineVars, seen, notified, closing, stop>>
    BY <1>0, <1>3, Wrapped DEF Move, Pulses
  <2>2. EnvTypes'
    BY <1>0, <2>1 DEF EnvTypes, cfgVars
  <2>3. RingTypes'
    <3>1. ASSUME NEW g \in Guns PROVE /\ ring'[g] \in Seq(Sheets) /\ Len(ring'[g]) = Len(ring[g])
                                      /\ \A i \in DOMAIN ring'[g] : ring'[g][i].elem # 0
      <4>1. ring'[g] = [i \in DOMAIN ring[g] |-> Older(ring[g][i])]
        BY <1>3 DEF Move
      <4>2. /\ ring[g] \in Seq(Sheets) /\ DOMAIN ring[g] = 1 .. Len(ring[g]) /\ Len(ring[g]) \in Nat
            /\ \A i \in 1 .. Len(ring[g]) : ring[g][i] \in Sheets
            /\ \A i \in 1 .. Len(ring[g]) : ring[g][i].elem # 0
        BY <1>0, Items DEF RingTypes
      <4>3. \A i \in 1 .. Len(ring[g]) : Older(ring[g][i]) \in Sheets /\ Older(ring[g][i]).elem # 0
        <5>1. \A s \in Sheets : Older(s) \in Sheets /\ Older(s).elem = s.elem
          BY Records DEF Older, Sheets
        <5>2. QED
          BY <4>2, <5>1
      <4>4. QED
        BY <4>1, <4>2, <4>3
    <3>2. ring' = [g \in Guns |-> ring'[g]]
      BY <1>3 DEF Move
    <3>3. QED
      BY <1>0, <3>1, <3>2 DEF RingTypes
  <2>4. GunTypes'
    <3>1. \A g \in Guns : gun[g] \in GunStates /\ gun[g].left \in Int
      BY <1>0, Constants DEF GunTypes, GunStates, Unplanned
    <3>2. gun' \in [Guns -> GunStates]
      <4>1. gun' = [g \in Guns |-> IF gun[g].left \in 1 .. AgeMax
                                     THEN [gun[g] EXCEPT !.left = gun[g].left - 1] ELSE gun[g]]
        BY <1>3 DEF Move
      <4>2. ASSUME NEW g \in Guns, gun[g].left \in 1 .. AgeMax
            PROVE  [gun[g] EXCEPT !.left = gun[g].left - 1] \in GunStates
        <5>1. gun[g].left - 1 \in 0 .. Unplanned
          BY <4>2, Constants DEF Unplanned
        <5>2. QED
          BY <3>1, <5>1 DEF GunStates
      <4>3. QED
        BY <3>1, <4>1, <4>2
    <3>3. QED
      BY <1>0, <2>1, <3>2 DEF GunTypes, lineVars
  <2>5. TaskTypes'
    <3>1. Older(task.peek) \in Sheets /\ Older(task.peek).elem = task.peek.elem
          /\ (Older(task.peek).open <=> task.peek.open)
      BY <1>0, Records DEF Older, Sheets
    <3> DEFINE s == Older(task.peek)
    <3> HIDE DEF s
    <3>2. task' = [task EXCEPT !.peek = s]
      BY <1>3 DEF Move, s
    <3>3. s \in Sheets /\ s.elem = task.peek.elem /\ (s.open <=> task.peek.open)
      BY <3>1 DEF s
    <3>4. task' \in Tasks /\ task'.peek = s /\ task'.pc = task.pc
      BY <1>0, <3>2, <3>3 DEF Tasks
    <3>5. QED
      BY <1>0, <3>3, <3>4 DEF TaskTypes, HasPeek
  <2>6. QED
    BY <2>2, <2>3, <2>4, <2>5 DEF Types
<1>4. CASE PhotocellEdge
  <2>1. notified' = TRUE /\ UNCHANGED <<enc, active, cfgVars, watch, gun, lineVars, seen, task, closing,
                                        ticked, stop>>
    BY <1>4 DEF PhotocellEdge, WakeTask
  <2>2. EnvTypes'
    BY <1>0, <2>1 DEF EnvTypes, cfgVars
  <2>3. RingTypes'
    <3>1. ASSUME NEW g \in Guns PROVE /\ ring'[g] \in Seq(Sheets) /\ Len(ring'[g]) <= QueueDepth
                                      /\ \A i \in DOMAIN ring'[g] : ring'[g][i].elem # 0
      <4>1. /\ ring[g] \in Seq(Sheets) /\ Len(ring[g]) \in Nat /\ Len(ring[g]) <= QueueDepth
            /\ \A i \in 1 .. Len(ring[g]) : ring[g][i].elem # 0
            /\ DOMAIN ring[g] = 1 .. Len(ring[g]) /\ QueueDepth \in Nat
        BY <1>0, Items, Constants DEF RingTypes
      <4>2. NewSheet(enc) \in Sheets /\ NewSheet(enc).elem = 1
        BY <1>0, Records DEF NewSheet
      <4>3. CASE Len(ring[g]) < QueueDepth
        <5>1. ring'[g] = Append(ring[g], NewSheet(enc))
          BY <1>4, <4>3 DEF PhotocellEdge
        <5> DEFINE n == NewSheet(enc)
        <5> HIDE DEF n
        <5>2. /\ Append(ring[g], n) \in Seq(Sheets) /\ Len(Append(ring[g], n)) = Len(ring[g]) + 1
              /\ DOMAIN Append(ring[g], n) = 1 .. Len(ring[g]) + 1
              /\ \A i \in 1 .. Len(ring[g]) + 1 :
                    Append(ring[g], n)[i] = IF i <= Len(ring[g]) THEN ring[g][i] ELSE n
          BY <4>1, <4>2 DEF n
        <5>3. n.elem # 0 /\ ring'[g] = Append(ring[g], n)
          BY <4>2, <5>1 DEF n
        <5>4. QED
          BY <4>1, <4>3, <5>2, <5>3
      <4>4. CASE ~(Len(ring[g]) < QueueDepth)
        <5>1. ring'[g] = ring[g]
          BY <1>4, <4>4 DEF PhotocellEdge
        <5>2. QED
          BY <4>1, <5>1
      <4>5. QED
        BY <4>3, <4>4
    <3>2. ring' = [g \in Guns |-> ring'[g]]
      BY <1>4 DEF PhotocellEdge
    <3>3. QED
      BY <3>1, <3>2 DEF RingTypes
  <2>4. QED
    BY <1>0, <2>1, <2>2, <2>3, GunKept, TaskKept DEF Types
<1>5. ASSUME UNCHANGED TaskOnly,
             UNCHANGED <<enc, active, ticked, stop>> \/ Start \/ StopStore,
             (\E v \in Versions : Publish(v)) \/ ApplyScalars \/ Start \/ StopStore
      PROVE  Types'
  <2>1. /\ enc' = enc /\ ticked' = ticked /\ notified' = notified /\ seen' = seen
        /\ active' = active \/ active' = TRUE \/ active' = FALSE
        /\ edited' = edited \/ edited' = TRUE
        /\ cfgv' \in Versions /\ (offs' = offs \/ offs' = OffsetOf[cfgv])
        /\ stop' = stop \/ stop' = "no"
    BY <1>0, <1>5 DEF TaskOnly, Publish, ApplyScalars, Start, StopStore, cfgVars
  <2>2. EnvTypes'
    BY <1>0, <2>1, Constants DEF EnvTypes
  <2>3. UNCHANGED <<ring, watch, gun, lineVars, task, closing>>
    BY <1>5 DEF TaskOnly
  <2>4. QED
    BY <1>0, <2>2, <2>3, RingKept, GunKept, TaskKept DEF Types
<1>6. CASE StopFlush
  <2>1. stop' = "flushed" /\ UNCHANGED <<enc, active, cfgVars, gun, lineVars, seen, task, notified,
                                         closing, ticked>>
    BY <1>6 DEF StopFlush
  <2>2. EnvTypes'
    BY <1>0, <2>1 DEF EnvTypes, cfgVars
  <2>3. RingTypes'
    <3>1. Len(<<>>) = 0 /\ <<>> \in Seq(Sheets) /\ DOMAIN <<>> = {} /\ QueueDepth \in Nat
      BY Constants
    <3>2. ring' = [g \in Guns |-> <<>>]
      BY <1>6 DEF StopFlush
    <3>3. QED
      BY <3>1, <3>2 DEF RingTypes
  <2>4. watch' \in [Guns -> Watches]
    <3>1. \A g \in Guns : [watch[g] EXCEPT !.dueArmed = FALSE, !.lineArmed = FALSE] \in Watches
      BY <1>0 DEF GunTypes, Watches
    <3>2. QED
      BY <1>6, <3>1 DEF StopFlush
  <2>5. QED
    BY <1>0, <2>1, <2>2, <2>3, <2>4, TaskKept DEF Types, GunTypes, lineVars
<1>7. CASE StopAbort \/ FaultStop
  <2>1. stop' = "aborted" /\ gun' = [g \in Guns |-> Shut]
        /\ UNCHANGED <<enc, active, cfgVars, ring, watch, lineVars, seen, task, notified, closing, ticked>>
    BY <1>7 DEF StopAbort, FaultStop
  <2>2. EnvTypes'
    BY <1>0, <2>1 DEF EnvTypes, cfgVars
  <2>3. gun' \in [Guns -> GunStates]
    BY <2>1, Records
  <2>4. QED
    BY <1>0, <2>1, <2>2, <2>3, RingKept, TaskKept DEF Types, GunTypes, lineVars
<1>8. ASSUME NEW g \in Guns, GunCloses(g) \/ TestFire(g) PROVE Types'
  <2>1. \E s \in GunStates : gun' = [gun EXCEPT ![g] = s]
    <3>1. Shut \in GunStates /\ Opened(FreshDrop(g), "test") \in GunStates
      BY Records, Fresh DEF Drops
    <3>2. QED
      BY <1>8, <3>1 DEF GunCloses, TestFire
  <2>2. gun' \in [Guns -> GunStates]
    BY <1>0, <2>1 DEF GunTypes
  <2>3. UNCHANGED <<enc, active, cfgVars, ring, watch, lineVars, seen, task, notified, closing, ticked, stop>>
    BY <1>8 DEF GunCloses, TestFire
  <2>4. QED
    BY <1>0, <2>2, <2>3, EnvKept, RingKept, TaskKept DEF Types, GunTypes, lineVars
<1>9. CASE \E v \in Versions : Publish(v)
  BY <1>5, <1>9 DEF Publish
<1>10. CASE ApplyScalars
  BY <1>5, <1>10 DEF ApplyScalars
<1>11. CASE Start
  BY <1>5, <1>11 DEF Start
<1>12. CASE StopStore
  BY <1>5, <1>12 DEF StopStore
<1>13. QED
  BY <1>1, <1>2, <1>3, <1>4, <1>6, <1>7, <1>8, <1>9, <1>10, <1>11, <1>12 DEF Next, Stops

LEMMA TypesStep == Types /\ [Next]_vars => Types'
<1> SUFFICES ASSUME Types, [Next]_vars PROVE Types'
  OBVIOUS
<1>1. CASE Task
  BY <1>1, TaskStepTyped, TaskEnvTyped, TaskGunTyped DEF Types
<1>2. CASE Next /\ ~Task
  BY <1>2, WorldTyped
<1>3. CASE UNCHANGED vars
  BY <1>3, EnvKept, RingKept, GunKept, TaskKept DEF vars, Types, cfgVars, lineVars
<1>4. QED
  BY <1>1, <1>2, <1>3

\* Sheets, watches, guns and the task of every reachable state are well typed, the
\* queues within their depth.
THEOREM SchedulerTypeCorrect == Spec => []TypeOK
<1>1. Types => TypeOK
  <2> SUFFICES ASSUME Types PROVE TypeOK
    OBVIOUS
  <2>1. \A s \in Sheets : SheetLike(s)
    BY DEF Sheets, SheetLike
  <2>2. /\ enc \in Pulses /\ active \in BOOLEAN /\ cfgv \in Versions /\ edited \in BOOLEAN
        /\ offs \in Nat /\ seen \in Versions /\ notified \in BOOLEAN /\ ticked \in BOOLEAN
        /\ stop \in {"no", "flushed", "aborted"}
    BY Constants DEF Types, EnvTypes
  <2>3. \A g \in Guns : Len(ring[g]) <= QueueDepth /\ \A i \in DOMAIN ring[g] : SheetLike(ring[g][i])
    BY <2>1, Items DEF Types, RingTypes
  <2>4. \A g \in Guns : watch[g] \in Watches /\ gun[g] \in GunStates
    BY DEF Types, GunTypes
  <2>5. lineDrop \in [Guns -> Drops] /\ linePaused \in [Guns -> BOOLEAN] /\ closing \in [Guns -> Drops]
    BY DEF Types, GunTypes
  <2>6. /\ task.pc \in PCs /\ task.g \in Guns /\ task.now \in Pulses /\ task.was \in BOOLEAN
        /\ task.gate \in Gates /\ task.v \in Versions /\ SheetLike(task.peek) /\ task.act \in Acts
        /\ task.due \in BOOLEAN /\ task.pulse \in Pulses /\ task.drop \in Drops
    BY <2>1 DEF Types, TaskTypes, Tasks
  <2>7. QED
    BY <2>2, <2>3, <2>4, <2>5, <2>6, Zenon DEF TypeOK, Watches, GunStates, PCs, Gates, Acts
<1>2. Spec => []Types
  BY TypesStart, TypesStep, PTL DEF Spec
<1>3. QED
  BY <1>1, <1>2, PTL

----------------------------------------------------------------------------
(* Lines and the ids of their drops.                                       *)

\* A round leaves the guns it is not at alone.
LEMMA OtherGuns ==
    ASSUME Types, Task, NEW h \in Guns, h # task.g
    PROVE  /\ gun'[h] = gun[h] /\ lineDrop'[h] = lineDrop[h] /\ watch'[h] = watch[h]
           /\ ring'[h] = ring[h] /\ linePaused'[h] = linePaused[h]
<1>0. /\ task.g \in Guns /\ ring \in [Guns -> Seq(Sheets)]
      /\ watch \in [Guns -> Watches] /\ gun \in [Guns -> GunStates]
      /\ lineDrop \in [Guns -> Drops] /\ linePaused \in [Guns -> BOOLEAN]
  BY TaskFields DEF Types, RingTypes, GunTypes
<1>1. ASSUME UNCHANGED <<ring, watch, gun, lineVars>> PROVE h # task.g => /\ gun'[h] = gun[h]
         /\ lineDrop'[h] = lineDrop[h] /\ watch'[h] = watch[h] /\ ring'[h] = ring[h]
         /\ linePaused'[h] = linePaused[h]
  BY <1>1 DEF lineVars
<1>2. CASE RoundIdle \/ RoundStopped \/ RoundActive \/ HeadSheet \/ NotDue \/ DropDue("dot")
           \/ DropDue("open") \/ GatePasses
  BY <1>1, <1>2 DEF RoundIdle, RoundStopped, RoundActive, HeadSheet, NotDue, DropDue, GatePasses
<1>3. CASE StopReset \/ CheckEdit
  BY <1>0, <1>3 DEF StopReset, CheckEdit, ResetGun, EndLine, CloseLine, lineVars
<1>4. CASE HeadNone
  BY <1>0, <1>4 DEF HeadNone, EndLine, CloseLine
<1>5. CASE SheetDone
  BY <1>0, <1>5 DEF SheetDone, EndLine, CloseLine, lineVars
<1>6. CASE LineTooSlow
  BY <1>0, <1>6 DEF LineTooSlow
<1>7. CASE LineEndDue
  BY <1>0, <1>7 DEF LineEndDue, EndLine, CloseLine
<1>8. CASE FireBegin
  BY <1>0, <1>8 DEF FireBegin, NotOpened
<1>9. CASE FireOpens
  BY <1>0, <1>9 DEF FireOpens, lineVars
<1>10. CASE FireRefused
  BY <1>0, <1>10 DEF FireRefused, NotOpened
<1>11. CASE WatchLineEnd
  BY <1>0, <1>11 DEF WatchLineEnd, PausedNoMore
<1>12. CASE Advance
  BY <1>0, <1>12 DEF Advance, WriteBack, lineVars
<1>13. CASE WatchDue
  BY <1>0, <1>13 DEF WatchDue, lineVars
<1>14. CASE GateCloses
  BY <1>0, <1>14 DEF GateCloses, CloseLine, lineVars
<1>15. QED
  BY <1>2, <1>3, <1>4, <1>5, <1>6, <1>7, <1>8, <1>9, <1>10, <1>11, <1>12, <1>13, <1>14 DEF Task

\* What a step of a round makes of the line of the gun it is at.
LEMMA LineSteps ==
    ASSUME Types, Task, ~FireOpens, ~WatchLineEnd
    PROVE  LET g == task.g IN
           /\ task.pc # "watch" /\ task'.pc # "watch" /\ task'.drop \in {0, task.drop}
           /\ watch'[g].drop \in {0, watch[g].drop}
           /\ \/ gun'[g] = CloseIfDrop(g, lineDrop[g]) /\ lineDrop'[g] = 0
              \/ /\ lineDrop'[g] = lineDrop[g] /\ gun'[g].drop = gun[g].drop
                 /\ gun'[g].kind = gun[g].kind /\ (gun'[g].open <=> gun[g].open)
<1> DEFINE g == task.g
           W == watch'[g].drop \in {0, watch[g].drop}
           Same == /\ lineDrop'[g] = lineDrop[g] /\ gun'[g].drop = gun[g].drop
                   /\ gun'[g].kind = gun[g].kind /\ (gun'[g].open <=> gun[g].open)
           Closes == gun'[g] = CloseIfDrop(g, lineDrop[g]) /\ lineDrop'[g] = 0
<1>0. /\ task \in Tasks /\ task.g \in Guns
      /\ watch \in [Guns -> Watches] /\ gun \in [Guns -> GunStates]
      /\ lineDrop \in [Guns -> Drops] /\ watch[g] \in Watches
      /\ NoWatch.drop = 0 /\ NoLine(watch[g]).drop = 0
  <2>1. task \in Tasks /\ task.g \in Guns
    BY TaskFields
  <2>2. /\ watch \in [Guns -> Watches] /\ gun \in [Guns -> GunStates]
        /\ lineDrop \in [Guns -> Drops] /\ watch[g] \in Watches
    BY <2>1 DEF Types, GunTypes
  <2>3. NoWatch.drop = 0 /\ \A w \in Watches : NoLine(w).drop = 0
    BY DEF NoWatch, NoLine, Watches
  <2>4. QED
    BY <2>1, <2>2, <2>3
<1>1. ASSUME UNCHANGED <<gun, lineDrop>> PROVE Same
  BY <1>1
<1>2. ASSUME CloseLine(g) PROVE Closes
  BY <1>0, <1>2 DEF CloseLine
<1>3. /\ NextGun.pc \in {"head", "wait"} /\ NextGun.drop = 0 /\ Waiting.pc = "wait" /\ Waiting.drop = 0
  BY NextGunTyped
<1>4. ASSUME task' = NextGun \/ task' = Waiting
      PROVE  task'.pc # "watch" /\ task'.drop \in {0, task.drop}
  BY <1>3, <1>4
<1>5. CASE RoundIdle \/ RoundStopped \/ HeadSheet \/ NotDue \/ DropDue("dot") \/ DropDue("open")
  <2>1. W /\ Same
    BY <1>1, <1>5 DEF RoundIdle, RoundStopped, HeadSheet, NotDue, DropDue, lineVars
  <2>2. task.pc # "watch" /\ task'.pc # "watch" /\ task'.drop = task.drop
    BY <1>0, <1>5 DEF RoundIdle, RoundStopped, HeadSheet, NotDue, DropDue, EventDue, At, Tasks
  <2>3. QED
    BY <2>1, <2>2
<1>6. CASE RoundActive
  <2>1. W /\ Same
    BY <1>1, <1>6 DEF RoundActive, lineVars
  <2>2. task.pc # "watch" /\ task'.pc # "watch" /\ task'.drop = task.drop
    BY <1>0, <1>6 DEF RoundActive, At, Tasks
  <2>3. QED
    BY <2>1, <2>2
<1>7. CASE StopReset
  <2>1. Closes /\ W
    BY <1>0, <1>2, <1>7 DEF StopReset, ResetGun, EndLine
  <2>2. task' = Waiting \/ task' = [task EXCEPT !.g = task.g + 1]
    BY <1>7 DEF StopReset
  <2>3. task.pc # "watch" /\ task'.pc # "watch" /\ task'.drop \in {0, task.drop}
    BY <1>0, <1>4, <1>7, <2>2 DEF StopReset, At, Tasks
  <2>4. QED
    BY <2>1, <2>3
<1>8. CASE CheckEdit
  <2>1. (Closes \/ Same) /\ W
    BY <1>0, <1>1, <1>2, <1>8 DEF CheckEdit, ResetGun, EndLine, lineVars
  <2>2. task' = [task EXCEPT !.g = task.g + 1] \/ task' = [task EXCEPT !.pc = "head", !.g = 1]
    BY <1>8 DEF CheckEdit, EditsEnd
  <2>3. task.pc # "watch" /\ task'.pc # "watch" /\ task'.drop \in {0, task.drop}
    BY <1>0, <1>8, <2>2 DEF CheckEdit, At, Tasks
  <2>4. QED
    BY <2>1, <2>3
<1>9. CASE HeadNone
  <2>1. Closes /\ W
    BY <1>0, <1>2, <1>9 DEF HeadNone, EndLine
  <2>2. QED
    BY <1>4, <1>9, <2>1 DEF HeadNone, At
<1>10. CASE SheetDone
  <2>1. (Closes \/ Same) /\ W
    BY <1>0, <1>1, <1>2, <1>10 DEF SheetDone, EndLine, lineVars
  <2> DEFINE h == Head(Popped(g))
  <2>2. task' = [task EXCEPT !.pc = "due", !.peek = NoSheet] \/ task' = [task EXCEPT !.peek = h]
    BY <1>10 DEF SheetDone
  <2> HIDE DEF h
  <2>3. task.pc # "watch" /\ task'.pc # "watch" /\ task'.drop \in {0, task.drop}
    BY <1>0, <1>10, <2>2 DEF SheetDone, At, Tasks
  <2>4. QED
    BY <2>1, <2>3
<1>11. CASE LineTooSlow
  <2>1. W /\ Same
    BY <1>1, <1>11 DEF LineTooSlow
  <2>2. task.pc # "watch" /\ task'.pc # "watch" /\ task'.drop = task.drop
    BY <1>0, <1>11 DEF LineTooSlow, EventDue, At, Tasks
  <2>3. QED
    BY <2>1, <2>2
<1>12. CASE LineEndDue
  <2>1. Closes /\ W
    BY <1>0, <1>2, <1>12 DEF LineEndDue, EndLine
  <2>2. task.pc # "watch" /\ task'.pc # "watch" /\ task'.drop = task.drop
    BY <1>0, <1>12 DEF LineEndDue, EventDue, At, Tasks
  <2>3. QED
    BY <2>1, <2>2
<1>13. CASE FireBegin \/ FireRefused
  <2>1. gun' = gun \/ gun' = [gun EXCEPT ![g].arming = TRUE] \/ gun' = [gun EXCEPT ![g].arming = FALSE]
    BY <1>13 DEF FireBegin, FireRefused
  <2>2. W /\ lineDrop' = lineDrop
    BY <1>13 DEF FireBegin, FireRefused
  <2>3. Same
    BY <1>0, <2>1, <2>2 DEF GunStates
  <2>4. task' = [task EXCEPT !.pc = "firing"] \/ task' = NextGun \/ task' = [task EXCEPT !.pc = "advance"]
    BY <1>13 DEF FireBegin, FireRefused, NotOpened
  <2>5. task.pc # "watch" /\ task'.pc # "watch" /\ task'.drop \in {0, task.drop}
    BY <1>0, <1>4, <1>13, <2>4 DEF FireBegin, FireRefused, At, Tasks
  <2>6. QED
    BY <2>2, <2>3, <2>5
<1>14. CASE Advance
  <2>1. W /\ Same
    BY <1>1, <1>14 DEF Advance, lineVars
  <2> DEFINE s == Advanced(cfgv, task.g, task.peek)
  <2>2. task' = [task EXCEPT !.pc = "event", !.peek = s, !.act = "none"]
    BY <1>14 DEF Advance
  <2> HIDE DEF s
  <2>3. task.pc # "watch" /\ task'.pc # "watch" /\ task'.drop = task.drop
    BY <1>0, <1>14, <2>2 DEF Advance, At, Tasks
  <2>4. QED
    BY <2>1, <2>3
<1>15. CASE WatchDue
  <2>1. Same
    BY <1>1, <1>15 DEF WatchDue, lineVars
  <2>2. W
    BY <1>0, <1>15 DEF WatchDue, Watches
  <2>3. task' = NextGun \/ task' = [task EXCEPT !.pc = "gate"]
    BY <1>15 DEF WatchDue
  <2>4. task.pc # "watch" /\ task'.pc # "watch" /\ task'.drop \in {0, task.drop}
    BY <1>0, <1>4, <1>15, <2>3 DEF WatchDue, At, Tasks
  <2>5. QED
    BY <2>1, <2>2, <2>4
<1>16. CASE GateCloses
  <2>1. (Closes \/ Same) /\ W
    BY <1>0, <1>1, <1>2, <1>16 DEF GateCloses, lineVars
  <2>2. QED
    BY <1>4, <1>16, <2>1 DEF GateCloses, At
<1>17. CASE GatePasses
  <2>1. W /\ Same
    BY <1>1, <1>17 DEF GatePasses, lineVars
  <2>2. task' = NextGun \/ task' = [task EXCEPT !.pc = "fire", !.act = "resume"]
    BY <1>17 DEF GatePasses
  <2>3. task.pc # "watch" /\ task'.pc # "watch" /\ task'.drop \in {0, task.drop}
    BY <1>0, <1>4, <1>17, <2>2 DEF GatePasses, At, Tasks
  <2>4. QED
    BY <2>1, <2>3
<1>18. QED
  BY <1>5, <1>6, <1>7, <1>8, <1>9, <1>10, <1>11, <1>12, <1>13, <1>14, <1>15, <1>16, <1>17 DEF Task

\* A gun is open for what it was opened for; a line has the id that the task keeps, and
\* nobody remembers the id of a dot or of a test.
Known(g) ==
    /\ gun[g].open <=> gun[g].kind # "none"
    /\ gun[g].kind = "line" =>
          /\ gun[g].drop # 0
          /\ gun[g].drop = IF task.pc = "watch" /\ task.g = g THEN task.drop ELSE lineDrop[g]
    /\ gun[g].kind \in {"dot", "test"} =>
          /\ gun[g].drop \notin {0, lineDrop[g], watch[g].drop, closing[g]}
          /\ task.g = g => gun[g].drop # task.drop
DropInHand == task.drop # 0 => task.pc = "watch"
LinesKnown == DropInHand /\ \A g \in Guns : Known(g)

LEMMA ClosedOrNot ==
    ASSUME Types, NEW g \in Guns, NEW d
    PROVE  /\ CloseIfDrop(g, d) = gun[g] \/ CloseIfDrop(g, d) = Shut
           /\ gun[g].open /\ gun[g].drop = d /\ d # 0 => CloseIfDrop(g, d) = Shut
           /\ gun[g].open /\ CloseIfDrop(g, d) = Shut => gun[g].drop = d
           /\ ~Shut.open /\ Shut.kind = "none" /\ Shut.drop = 0
BY DEF CloseIfDrop, Shut

LEMMA LinesKnownStart == Init => LinesKnown
<1> SUFFICES ASSUME Init PROVE LinesKnown
  OBVIOUS
<1>1. task.drop = 0 /\ \A g \in Guns : gun[g] = Shut
  BY DEF Init
<1>2. ~Shut.open /\ Shut.kind = "none"
  BY DEF Shut
<1>3. QED
  BY <1>1, <1>2 DEF LinesKnown, DropInHand, Known

\* A step of a round.
LEMMA RoundKnows == Types /\ LinesKnown /\ Task => LinesKnown'
<1> SUFFICES ASSUME Types, LinesKnown, Task PROVE LinesKnown'
  OBVIOUS
<1>g. PICK g \in Guns : g = task.g
  BY TaskFields
<1>0. /\ task \in Tasks /\ g \in Guns /\ g = task.g /\ Known(g) /\ watch \in [Guns -> Watches]
      /\ gun \in [Guns -> GunStates] /\ lineDrop \in [Guns -> Drops] /\ closing' = closing
  <2>1. task \in Tasks
    BY TaskFields
  <2>2. closing' = closing
    BY DEF Task, RoundIdle, RoundStopped, RoundActive, StopReset, CheckEdit, HeadSheet, HeadNone,
           SheetDone, NotDue, DropDue, LineTooSlow, LineEndDue, FireBegin, FireOpens, FireRefused,
           WatchLineEnd, Advance, WatchDue, GateCloses, GatePasses
  <2>3. QED
    BY <1>g, <2>1, <2>2 DEF Types, GunTypes, LinesKnown
<1>1. ASSUME NEW h \in Guns, h # g PROVE Known(h)'
  <2>1. gun'[h] = gun[h] /\ lineDrop'[h] = lineDrop[h] /\ watch'[h] = watch[h] /\ closing'[h] = closing[h]
    BY <1>0, <1>1, OtherGuns
  <2>2. task'.g = h => task'.drop = 0 /\ task'.pc # "watch"
    <3>1. CASE FireOpens \/ WatchLineEnd
      <4>1. task'.g = task.g \/ task' = NextGun
        BY <1>0, <3>1 DEF FireOpens, WatchLineEnd, Tasks
      <4>2. NextGun.drop = 0 /\ NextGun.pc # "watch"
        BY NextGunTyped
      <4>3. QED
        BY <1>0, <1>1, <4>1, <4>2
    <3>2. CASE ~FireOpens /\ ~WatchLineEnd
      <4>1. task.pc # "watch" /\ task'.pc # "watch" /\ task'.drop \in {0, task.drop}
        BY <3>2, LineSteps
      <4>2. task.drop = 0
        BY <4>1 DEF LinesKnown, DropInHand
      <4>3. QED
        BY <4>1, <4>2
    <3>3. QED
      BY <3>1, <3>2
  <2>3. Known(h) /\ ~(task.g = h)
    BY <1>0, <1>1 DEF LinesKnown
  <2>4. QED
    BY <2>1, <2>2, <2>3 DEF Known
<1>2. CASE FireOpens
  <2> DEFINE d == FreshDrop(g)
             k == IF task.act = "dot" THEN "dot" ELSE "line"
  <2>1. /\ gun' = [gun EXCEPT ![g] = Opened(d, k)] /\ lineDrop' = lineDrop /\ watch' = watch
        /\ task' = IF k = "dot" THEN [task EXCEPT !.pc = "advance"]
                   ELSE [task EXCEPT !.pc = "watch", !.drop = d]
        /\ task.pc # "watch"
    BY <1>0, <1>2 DEF FireOpens, lineVars, At
  <2>2. d \in 1 .. 6 /\ d \notin {lineDrop[g], watch[g].drop, closing[g], gun[g].drop, task.drop, 0}
    BY <1>0, Fresh DEF Referred
  <2> HIDE DEF d
  <2>3. gun'[g] = Opened(d, k) /\ k \in {"dot", "line"}
    BY <1>0, <2>1
  <2>4. CASE k = "dot"
    <3>1. task'.pc = "advance" /\ task'.drop = task.drop /\ task'.g = g
      BY <1>0, <2>1, <2>4 DEF Tasks
    <3>2. Known(g)'
      BY <1>0, <2>1, <2>2, <2>3, <2>4, <3>1 DEF Known, Opened
    <3>3. DropInHand'
      BY <2>1, <3>1 DEF LinesKnown, DropInHand
    <3>4. QED
      BY <1>1, <3>2, <3>3 DEF LinesKnown
  <2>5. CASE k = "line"
    <3>1. task'.pc = "watch" /\ task'.drop = d /\ task'.g = g
      BY <1>0, <2>1, <2>5 DEF Tasks
    <3>2. Known(g)'
      BY <1>0, <2>1, <2>2, <2>3, <2>5, <3>1 DEF Known, Opened
    <3>3. DropInHand'
      BY <3>1 DEF DropInHand
    <3>4. QED
      BY <1>1, <3>2, <3>3 DEF LinesKnown
  <2>6. QED
    BY <2>3, <2>4, <2>5
<1>3. CASE WatchLineEnd
  <2>1. task.pc = "watch" /\ lineDrop'[g] = task.drop
    BY <1>0, <1>3 DEF WatchLineEnd, At
  <2>2. task'.drop = 0 /\ task'.pc # "watch"
    <3>1. NextGun.drop = 0 /\ NextGun.pc # "watch"
      BY NextGunTyped
    <3>2. task' = NextGun \/ task' = [task EXCEPT !.pc = "advance", !.drop = 0]
      BY <1>0, <1>3 DEF WatchLineEnd
    <3>3. CASE task' = NextGun
      BY <3>1, <3>3
    <3>4. CASE task' = [task EXCEPT !.pc = "advance", !.drop = 0]
      BY <1>0, <3>4 DEF Tasks
    <3>5. QED
      BY <3>2, <3>3, <3>4
  <2>3. watch'[g].drop = task.drop
    <3>1. PICK e : watch' = [watch EXCEPT ![g].lineArmed = TRUE, ![g].drop = task.drop, ![g].end = e]
      BY <1>0, <1>3 DEF WatchLineEnd
    <3>2. QED
      BY <1>0, <3>1 DEF Watches
  <2>4. gun'[g].drop = gun[g].drop /\ gun'[g].kind = gun[g].kind /\ (gun'[g].open <=> gun[g].open)
    <3>1. PICK l : gun' = gun \/ gun' = [gun EXCEPT ![g].left = l]
      BY <1>0, <1>3 DEF WatchLineEnd
    <3>2. QED
      BY <1>0, <3>1 DEF GunStates
  <2>5. Known(g)'
    BY <1>0, <2>1, <2>2, <2>3, <2>4 DEF Known
  <2>6. QED
    BY <1>1, <2>2, <2>5 DEF LinesKnown, DropInHand
<1>4. CASE ~FireOpens /\ ~WatchLineEnd
  <2>1. /\ task.pc # "watch" /\ task'.pc # "watch" /\ task'.drop \in {0, task.drop}
        /\ watch'[g].drop \in {0, watch[g].drop}
        /\ \/ gun'[g] = CloseIfDrop(g, lineDrop[g]) /\ lineDrop'[g] = 0
           \/ /\ lineDrop'[g] = lineDrop[g] /\ gun'[g].drop = gun[g].drop
              /\ gun'[g].kind = gun[g].kind /\ (gun'[g].open <=> gun[g].open)
    BY <1>0, <1>4, LineSteps
  <2>2. task.drop = 0
    BY <2>1 DEF LinesKnown, DropInHand
  <2>3. Known(g)'
    <3>1. CASE gun'[g] = CloseIfDrop(g, lineDrop[g]) /\ lineDrop'[g] = 0
      <4>1. gun[g].kind # "line" \/ gun'[g] = Shut
        BY <1>0, <2>1, <3>1, ClosedOrNot DEF Known
      <4>2. gun'[g] = gun[g] \/ gun'[g] = Shut
        BY <1>0, <3>1, ClosedOrNot
      <4>3. ~Shut.open /\ Shut.kind = "none"
        BY <1>0, ClosedOrNot
      <4>4. CASE gun'[g] = Shut
        BY <4>3, <4>4 DEF Known
      <4>5. CASE gun[g].kind # "line" /\ gun'[g] = gun[g]
        BY <1>0, <2>1, <2>2, <3>1, <4>5 DEF Known
      <4>6. QED
        BY <4>1, <4>2, <4>4, <4>5
    <3>2. CASE /\ lineDrop'[g] = lineDrop[g] /\ gun'[g].drop = gun[g].drop
               /\ gun'[g].kind = gun[g].kind /\ (gun'[g].open <=> gun[g].open)
      BY <1>0, <2>1, <2>2, <3>2 DEF Known
    <3>3. QED
      BY <2>1, <3>1, <3>2
  <2>4. QED
    BY <1>1, <2>1, <2>2, <2>3 DEF LinesKnown, DropInHand
<1>5. QED
  BY <1>2, <1>3, <1>4

\* A step of anything else.
LEMMA WorldKnows == Types /\ LinesKnown /\ Next /\ ~Task => LinesKnown'
<1> SUFFICES ASSUME Types, LinesKnown, Next, ~Task PROVE LinesKnown'
  OBVIOUS
<1>0. /\ watch \in [Guns -> Watches] /\ gun \in [Guns -> GunStates] /\ closing \in [Guns -> Drops]
      /\ \A h \in Guns : Known(h)
  BY DEF Types, GunTypes, LinesKnown
<1>1. /\ task'.pc = task.pc /\ task'.g = task.g /\ task'.drop = task.drop /\ UNCHANGED lineDrop
  <2>1. CASE Move
    <3> DEFINE s == Older(task.peek)
    <3>1. task' = [task EXCEPT !.peek = s]
      BY <2>1 DEF Move
    <3> HIDE DEF s
    <3>2. task \in Tasks
      BY TaskFields
    <3>3. QED
      BY <2>1, <3>1, <3>2 DEF Tasks, Move, lineVars
  <2>2. CASE ~Move
    BY <2>2 DEF Next, TickBegin, TickClose, PhotocellEdge, Publish, ApplyScalars, Start, Stops,
                StopFlush, StopAbort, StopStore, FaultStop, GunCloses, TestFire, TaskOnly, lineVars
  <2>3. QED
    BY <2>1, <2>2
<1>2. \/ UNCHANGED gun
      \/ \E h \in Guns : gun' = [gun EXCEPT ![h] = CloseIfDrop(h, closing[h])] \/ gun' = [gun EXCEPT ![h] = Shut]
      \/ gun' = [h \in Guns |-> Shut]
      \/ \E h \in Guns : gun' = [gun EXCEPT ![h] = Opened(FreshDrop(h), "test")] /\ UNCHANGED <<closing, watch>>
      \/ Move
  BY Zenon DEF Next, TickBegin, TickClose, PhotocellEdge, Publish, ApplyScalars, Start, Stops,
               StopFlush, StopAbort, StopStore, FaultStop, GunCloses, TestFire, TaskOnly
<1>3. \A h \in Guns : watch'[h].drop \in {0, watch[h].drop} /\ closing'[h] \in {0, watch[h].drop, closing[h]}
  <2> SUFFICES ASSUME NEW h \in Guns
               PROVE  watch'[h].drop \in {0, watch[h].drop} /\ closing'[h] \in {0, watch[h].drop, closing[h]}
    OBVIOUS
  <2>1. CASE TickBegin
    <3>1. \A w \in Watches : NoLine(w).drop = 0 /\ NoDue(w).drop = w.drop /\ NoLine(w) \in Watches
      BY Records DEF NoLine, NoDue, Watches
    <3>2. LET w == IF LineReached(h) THEN NoLine(watch[h]) ELSE watch[h]
          IN  watch'[h] = IF DueReached(h) THEN NoDue(w) ELSE w
      BY <2>1 DEF TickBegin
    <3>3. closing'[h] \in {0, watch[h].drop}
      BY <2>1 DEF TickBegin
    <3>4. QED
      BY <1>0, <3>1, <3>2, <3>3
  <2>2. CASE StopFlush
    <3>1. watch'[h] = [watch[h] EXCEPT !.dueArmed = FALSE, !.lineArmed = FALSE] /\ closing' = closing
      BY <2>2 DEF StopFlush
    <3>2. QED
      BY <1>0, <3>1 DEF Watches
  <2>3. CASE \E i \in Guns : TickClose(i)
    BY <1>0, <2>3 DEF TickClose
  <2>4. CASE ~TickBegin /\ ~StopFlush /\ ~\E i \in Guns : TickClose(i)
    BY <2>4 DEF Next, Move, PhotocellEdge, Publish, ApplyScalars, Start, Stops,
                StopAbort, StopStore, FaultStop, GunCloses, TestFire, TaskOnly
  <2>5. QED
    BY <2>1, <2>2, <2>3, <2>4
<1>4. ASSUME NEW g \in Guns PROVE Known(g)'
  <2>0. Known(g) /\ gun[g] \in GunStates
    BY <1>0
  <2>1. CASE gun'[g] = gun[g] \/ gun'[g] = Shut
    <3>1. ~Shut.open /\ Shut.kind = "none"
      BY DEF Shut
    <3>2. CASE gun'[g] = Shut
      BY <3>1, <3>2 DEF Known
    <3>3. CASE gun'[g] = gun[g]
      BY <1>1, <1>3, <2>0, <3>3 DEF Known
    <3>4. QED
      BY <2>1, <3>2, <3>3
  <2>2. CASE Move
    <3>1. gun'[g] = gun[g] \/ \E l : gun'[g] = [gun[g] EXCEPT !.left = l]
      BY <2>2 DEF Move
    <3>2. gun'[g].drop = gun[g].drop /\ gun'[g].kind = gun[g].kind /\ (gun'[g].open <=> gun[g].open)
      BY <2>0, <3>1 DEF GunStates
    <3>3. QED
      BY <1>1, <1>3, <2>0, <3>2 DEF Known
  <2>3. CASE /\ gun'[g] = Opened(FreshDrop(g), "test") /\ UNCHANGED <<closing, watch>>
    <3> DEFINE d == FreshDrop(g)
    <3>1. d \in 1 .. 6 /\ d \notin {lineDrop[g], watch[g].drop, closing[g], gun[g].drop, task.drop, 0}
      BY Fresh DEF Referred
    <3>2. gun'[g] = Opened(d, "test")
      BY <2>3
    <3> HIDE DEF d
    <3>3. QED
      BY <1>1, <2>3, <3>1, <3>2 DEF Known, Opened
  <2>4. \/ gun'[g] = gun[g] \/ gun'[g] = Shut \/ Move
        \/ gun'[g] = Opened(FreshDrop(g), "test") /\ UNCHANGED <<closing, watch>>
    <3>1. ASSUME NEW h \in Guns, gun' = [gun EXCEPT ![h] = CloseIfDrop(h, closing[h])] \/ gun' = [gun EXCEPT ![h] = Shut]
          PROVE  gun'[g] = gun[g] \/ gun'[g] = Shut
      <4>1. CloseIfDrop(h, closing[h]) = gun[h] \/ CloseIfDrop(h, closing[h]) = Shut
        BY ClosedOrNot
      <4>2. CASE gun' = [gun EXCEPT ![h] = Shut]
        BY <1>0, <4>2
      <4>3. CASE gun' = [gun EXCEPT ![h] = CloseIfDrop(h, closing[h])]
        BY <1>0, <4>1, <4>3
      <4>4. QED
        BY <3>1, <4>2, <4>3
    <3>2. ASSUME NEW h \in Guns, gun' = [gun EXCEPT ![h] = Opened(FreshDrop(h), "test")], UNCHANGED <<closing, watch>>
          PROVE  gun'[g] = gun[g] \/ (gun'[g] = Opened(FreshDrop(g), "test") /\ UNCHANGED <<closing, watch>>)
      BY <1>0, <3>2
    <3>3. QED
      BY <1>2, <3>1, <3>2
  <2>5. QED
    BY <2>1, <2>2, <2>3, <2>4
<1>5. QED
  BY <1>1, <1>4 DEF LinesKnown, DropInHand

LEMMA LinesKnownStep == Types /\ LinesKnown /\ [Next]_vars => LinesKnown'
<1>1. ASSUME LinesKnown, UNCHANGED vars PROVE LinesKnown'
  BY <1>1 DEF vars, LinesKnown, DropInHand, Known, lineVars
<1>2. QED
  BY <1>1, RoundKnows, WorldKnows

\* Task and tick hook, which close by drop id from what they remember, never close a
\* dot or a test: every drop they know the id of is a line, or has closed already.
THEOREM LinesOnlyCorrect == Spec => PositionClosesLinesOnly
<1> DEFINE Kept == (Task \/ \E g \in Guns : TickClose(g))
                      => \A g \in Guns : gun[g].open /\ ~gun'[g].open => gun[g].kind = "line"
<1>1. ASSUME Types, LinesKnown, [Next]_vars PROVE [Kept]_vars
  <2> SUFFICES ASSUME Task \/ \E h \in Guns : TickClose(h), NEW g \in Guns, gun[g].open, ~gun'[g].open
               PROVE  gun[g].kind = "line"
    OBVIOUS
  <2>0. /\ Known(g) /\ gun \in [Guns -> GunStates] /\ gun[g].kind \in {"line", "dot", "test"}
    BY <1>1 DEF LinesKnown, Known, Types, GunTypes, GunStates
  <2>1. CASE \E h \in Guns : TickClose(h)
    <3>1. PICK h \in Guns : gun' = [gun EXCEPT ![h] = CloseIfDrop(h, closing[h])]
      BY <2>1 DEF TickClose
    <3>2. h = g /\ gun'[g] = CloseIfDrop(g, closing[g])
      BY <2>0, <3>1
    <3>3. gun[g].drop = closing[g]
      BY <3>2, ClosedOrNot, <1>1
    <3>4. QED
      BY <2>0, <3>3 DEF Known
  <2>2. CASE Task
    <3>1. g = task.g
      BY <2>2, OtherGuns, <1>1
    <3>2. CASE FireOpens
      BY <2>0, <3>1, <3>2 DEF FireOpens, Opened
    <3>3. CASE WatchLineEnd
      <4>1. PICK l : gun' = gun \/ gun' = [gun EXCEPT ![g].left = l]
        BY <3>1, <3>3 DEF WatchLineEnd
      <4>2. QED
        BY <2>0, <4>1 DEF GunStates
    <3>4. CASE ~FireOpens /\ ~WatchLineEnd
      <4>1. gun'[g] = CloseIfDrop(g, lineDrop[g])
        BY <2>2, <3>1, <3>4, LineSteps, <1>1
      <4>2. gun[g].drop = lineDrop[g]
        BY <4>1, ClosedOrNot, <1>1
      <4>3. QED
        BY <2>0, <4>2 DEF Known
    <3>5. QED
      BY <3>2, <3>3, <3>4
  <2>3. QED
    BY <2>1, <2>2
<1>2. Spec => []Types
  BY TypesStart, TypesStep, PTL DEF Spec
<1>3. Spec => []LinesKnown
  BY <1>2, LinesKnownStart, LinesKnownStep, PTL DEF Spec
<1>4. QED
  BY <1>1, <1>2, <1>3, PTL DEF Spec, PositionClosesLinesOnly

----------------------------------------------------------------------------
(* A stop, dealt with by the task.                                         *)

\* A task that has seen a stop sleeps, or is at its reset: the guns it has passed
\* have no line.
Halted ==
    /\ ~task.was => task.pc \in {"wait", "reset"}
    /\ task.pc = "reset" => ~task.was
    /\ task.pc = "wait" => task.g = 1
    /\ \A g \in Guns : ~task.was /\ (task.pc = "wait" \/ g < task.g) => gun[g].kind # "line"

LEMMA HaltedStart == Init => Halted
<1> SUFFICES ASSUME Init PROVE Halted
  OBVIOUS
<1>1. task.pc = "wait" /\ task.g = 1 /\ \A g \in Guns : gun[g] = Shut
  BY DEF Init
<1>2. Shut.kind = "none"
  BY DEF Shut
<1>3. QED
  BY <1>1, <1>2 DEF Halted

\* Where a step leads the task.
LEMMA TaskGoes ==
    ASSUME Types, Task
    PROVE  \/ RoundStopped /\ task' = [task EXCEPT !.pc = "reset", !.now = enc, !.was = FALSE]
           \/ RoundIdle /\ task' = [task EXCEPT !.now = enc]
           \/ StopReset /\ \/ task.g = NumGuns /\ task' = Waiting
                           \/ task.g # NumGuns /\ task' = [task EXCEPT !.g = task.g + 1]
           \/ /\ RoundActive /\ active /\ task.pc = "wait"
              /\ task'.pc \in {"edits", "head"} /\ task'.was
           \/ /\ task.pc \notin {"wait", "reset"} /\ (task'.was <=> task.was) /\ task'.pc # "reset"
              /\ task'.pc = "wait" => task'.g = 1
<1>0. task \in Tasks /\ task.g \in Guns
  BY TaskFields
<1>1. CASE RoundIdle \/ RoundStopped
  BY <1>1 DEF RoundIdle, RoundStopped
<1>2. CASE StopReset
  BY <1>2 DEF StopReset
<1>3. CASE RoundActive
  <2>1. PICK verdict : task' = [task EXCEPT !.pc = IF edited THEN "edits" ELSE "head", !.now = enc,
                                            !.was = TRUE, !.v = cfgv, !.gate = verdict]
    BY <1>3 DEF RoundActive
  <2>2. task'.was /\ task'.pc \in {"edits", "head"} /\ active /\ task.pc = "wait"
    BY <1>0, <1>3, <2>1 DEF Tasks, RoundActive, At
  <2>3. QED
    BY <1>3, <2>2
<1> DEFINE Goes == /\ task.pc \notin {"wait", "reset"} /\ (task'.was <=> task.was) /\ task'.pc # "reset"
                   /\ task'.pc = "wait" => task'.g = 1
<1>4. ASSUME task.pc \notin {"wait", "reset"}, task' = NextGun PROVE Goes
  BY <1>4, NextGunTyped
<1>6. CASE CheckEdit
  BY <1>0, <1>6 DEF CheckEdit, EditsEnd, At, Tasks
<1>7. CASE HeadSheet
  BY <1>0, <1>7 DEF HeadSheet, At, Tasks
<1>8. CASE HeadNone
  BY <1>4, <1>8 DEF HeadNone, At
<1>9. CASE SheetDone
  <2> DEFINE h == Head(Popped(task.g))
  <2>1. task' = [task EXCEPT !.pc = "due", !.peek = NoSheet] \/ task' = [task EXCEPT !.peek = h]
    BY <1>9 DEF SheetDone
  <2> HIDE DEF h
  <2>2. QED
    BY <1>0, <1>9, <2>1 DEF SheetDone, At, Tasks
<1>10. CASE NotDue \/ DropDue("dot") \/ DropDue("open") \/ LineTooSlow \/ LineEndDue
  BY <1>0, <1>10 DEF NotDue, DropDue, LineTooSlow, LineEndDue, EventDue, At, Tasks
<1>11. CASE FireBegin \/ FireRefused
  <2>1. task' = [task EXCEPT !.pc = "firing"] \/ task' = NextGun \/ task' = [task EXCEPT !.pc = "advance"]
    BY <1>11 DEF FireBegin, FireRefused, NotOpened
  <2>2. QED
    BY <1>0, <1>4, <1>11, <2>1 DEF FireBegin, FireRefused, At, Tasks
<1>12. CASE FireOpens
  <2> DEFINE d == FreshDrop(task.g)
  <2>1. task' = [task EXCEPT !.pc = "advance"] \/ task' = [task EXCEPT !.pc = "watch", !.drop = d]
    BY <1>12 DEF FireOpens
  <2> HIDE DEF d
  <2>2. QED
    BY <1>0, <1>12, <2>1 DEF FireOpens, At, Tasks
<1>13. CASE WatchLineEnd
  <2>1. task' = NextGun \/ task' = [task EXCEPT !.pc = "advance", !.drop = 0]
    BY <1>13 DEF WatchLineEnd
  <2>2. QED
    BY <1>0, <1>4, <1>13, <2>1 DEF WatchLineEnd, At, Tasks
<1>14. CASE Advance
  <2> DEFINE s == Advanced(cfgv, task.g, task.peek)
  <2>1. task' = [task EXCEPT !.pc = "event", !.peek = s, !.act = "none"]
    BY <1>14 DEF Advance
  <2> HIDE DEF s
  <2>2. QED
    BY <1>0, <1>14, <2>1 DEF Advance, At, Tasks
<1>15. CASE WatchDue
  BY <1>0, <1>4, <1>15 DEF WatchDue, At, Tasks
<1>16. CASE GateCloses
  BY <1>4, <1>16 DEF GateCloses, At
<1>17. CASE GatePasses
  <2>1. task' = NextGun \/ task' = [task EXCEPT !.pc = "fire", !.act = "resume"]
    BY <1>17 DEF GatePasses
  <2>2. QED
    BY <1>0, <1>4, <1>17, <2>1 DEF GatePasses, At, Tasks
<1>18. QED
  BY <1>1, <1>2, <1>3, <1>6, <1>7, <1>8, <1>9, <1>10, <1>11, <1>12, <1>13, <1>14, <1>15, <1>16, <1>17 DEF Task

\* Only the task opens lines.
LEMMA LinesFromTask ==
    ASSUME Types, LinesKnown, Next, ~FireOpens, NEW g \in Guns
    PROVE  /\ gun[g].kind # "line" => gun'[g].kind # "line"
           /\ gun'[g].kind = "line" => gun'[g].drop = gun[g].drop
<1>0. gun \in [Guns -> GunStates] /\ Shut.kind = "none"
  BY DEF Types, GunTypes, Shut
<1>1. CASE Task
  <2>1. CASE g # task.g
    BY <1>1, <2>1, OtherGuns
  <2>2. CASE g = task.g /\ WatchLineEnd
    <3>1. PICK l : gun' = gun \/ gun' = [gun EXCEPT ![g].left = l]
      BY <2>2 DEF WatchLineEnd
    <3>2. QED
      BY <1>0, <3>1 DEF GunStates
  <2>3. CASE g = task.g /\ ~WatchLineEnd
    <3>1. \/ gun'[g] = CloseIfDrop(g, lineDrop[g])
          \/ gun'[g].kind = gun[g].kind /\ gun'[g].drop = gun[g].drop
      BY <1>1, <2>3, LineSteps
    <3>2. CloseIfDrop(g, lineDrop[g]) = gun[g] \/ CloseIfDrop(g, lineDrop[g]) = Shut
      BY ClosedOrNot
    <3>3. QED
      BY <1>0, <3>1, <3>2
  <2>4. QED
    BY <2>1, <2>2, <2>3
<1>2. CASE ~Task
  <2>1. CASE Move
    <3>1. gun'[g] = gun[g] \/ \E l : gun'[g] = [gun[g] EXCEPT !.left = l]
      BY <2>1 DEF Move
    <3>2. QED
      BY <1>0, <3>1 DEF GunStates
  <2>2. CASE \E h \in Guns : TickClose(h)
    <3>1. PICK h \in Guns : gun' = [gun EXCEPT ![h] = CloseIfDrop(h, closing[h])]
      BY <2>2 DEF TickClose
    <3>2. CloseIfDrop(h, closing[h]) = gun[h] \/ CloseIfDrop(h, closing[h]) = Shut
      BY ClosedOrNot
    <3>3. QED
      BY <1>0, <3>1, <3>2
  <2>3. CASE \E h \in Guns : TestFire(h)
    BY <1>0, <2>3 DEF TestFire, Opened
  <2>4. CASE ~Move /\ ~(\E h \in Guns : TickClose(h)) /\ ~(\E h \in Guns : TestFire(h))
    <3>1. gun'[g] = gun[g] \/ gun'[g] = Shut
      BY <1>0, <1>2, <2>4 DEF Next, TickBegin, PhotocellEdge, Publish, ApplyScalars, Start, Stops,
                              StopFlush, StopAbort, StopStore, FaultStop, GunCloses, TaskOnly
    <3>2. QED
      BY <1>0, <3>1
  <2>5. QED
    BY <2>1, <2>2, <2>3, <2>4
<1>3. QED
  BY <1>1, <1>2

\* The world leaves the task where it is.
LEMMA TaskStays ==
    ASSUME Types, Next, ~Task
    PROVE  /\ task'.pc = task.pc /\ task'.g = task.g /\ (task'.was <=> task.was)
           /\ task'.gate = task.gate /\ task'.v = task.v /\ task'.act = task.act
           /\ task'.now = task.now /\ (task'.due <=> task.due) /\ task'.pulse = task.pulse
           /\ task'.peek \in {task.peek, Older(task.peek)}
<1>1. CASE Move
  <2> DEFINE s == Older(task.peek)
  <2>1. task' = [task EXCEPT !.peek = s]
    BY <1>1 DEF Move
  <2>2. task \in Tasks
    BY TaskFields
  <2>3. task'.peek = s
    BY <2>1, <2>2 DEF Tasks
  <2> HIDE DEF s
  <2>4. QED
    BY <2>1, <2>2, <2>3 DEF Tasks, s
<1>2. CASE ~Move
  BY <1>2 DEF Next, TickBegin, TickClose, PhotocellEdge, Publish, ApplyScalars, Start, Stops,
              StopFlush, StopAbort, StopStore, FaultStop, GunCloses, TestFire, TaskOnly
<1>3. QED
  BY <1>1, <1>2

LEMMA HaltedStep == Types /\ LinesKnown /\ Halted /\ [Next]_vars => Halted'
<1> SUFFICES ASSUME Types, LinesKnown, Halted, [Next]_vars PROVE Halted'
  OBVIOUS
<1>0. task \in Tasks /\ task.g \in Guns /\ \A g \in Guns : g \in Nat /\ g <= NumGuns
  BY TaskFields, Constants DEF Guns
<1>1. CASE UNCHANGED vars
  BY <1>1 DEF vars, Halted
<1>2. CASE Next /\ ~Task
  <2>1. ~FireOpens
    BY <1>2 DEF Task
  <2>2. QED
    BY <1>2, <2>1, LinesFromTask, TaskStays DEF Halted
<1>3. CASE Task
  <2>1. CASE RoundStopped /\ task' = [task EXCEPT !.pc = "reset", !.now = enc, !.was = FALSE]
    <3>1. task'.pc = "reset" /\ task'.g = 1 /\ ~task'.was
      BY <1>0, <2>1 DEF Halted, RoundStopped, At, Tasks
    <3>2. QED
      BY <1>0, <3>1 DEF Halted, Guns
  <2>2. CASE RoundIdle /\ task' = [task EXCEPT !.now = enc]
    <3>1. task'.pc = task.pc /\ task'.g = task.g /\ task'.was = task.was /\ UNCHANGED gun
      BY <1>0, <2>2 DEF RoundIdle, Tasks
    <3>2. QED
      BY <3>1 DEF Halted
  <2>3. CASE StopReset /\ \/ task.g = NumGuns /\ task' = Waiting
                          \/ task.g # NumGuns /\ task' = [task EXCEPT !.g = task.g + 1]
    <3>1. task.pc = "reset" /\ ~task.was /\ ~FireOpens
      BY <2>3 DEF StopReset, Halted, At, FireOpens
    <3>2. gun'[task.g].kind # "line"
      <4>1. gun' = [gun EXCEPT ![task.g] = CloseIfDrop(task.g, lineDrop[task.g])]
        BY <2>3 DEF StopReset, ResetGun, EndLine, CloseLine
      <4>2. gun'[task.g] = CloseIfDrop(task.g, lineDrop[task.g])
        BY <1>0, <4>1 DEF Types, GunTypes
      <4>3. gun[task.g].kind = "line" => gun[task.g].open /\ gun[task.g].drop = lineDrop[task.g]
                                         /\ lineDrop[task.g] # 0
        BY <1>0, <3>1 DEF LinesKnown, Known
      <4>4. QED
        BY <1>0, <4>2, <4>3, ClosedOrNot
    <3>3. /\ task'.pc = "reset" /\ task'.g = task.g + 1 /\ ~task'.was
          \/ /\ task'.pc = "wait" /\ task'.g = 1 /\ ~task'.was /\ task.g = NumGuns
      <4>1. CASE task.g = NumGuns /\ task' = Waiting
        <5>1. Waiting.g = 1
          BY <1>0 DEF Waiting, Tasks
        <5>2. QED
          BY <3>1, <4>1, <5>1, NextGunTyped
      <4>2. CASE task' = [task EXCEPT !.g = task.g + 1]
        BY <1>0, <3>1, <4>2 DEF Tasks
      <4>3. QED
        BY <2>3, <4>1, <4>2
    <3>4. ASSUME NEW h \in Guns, h < task.g PROVE gun'[h].kind # "line"
      <4>1. gun[h].kind # "line"
        BY <3>1, <3>4 DEF Halted
      <4>2. QED
        BY <1>3, <3>1, <4>1, LinesFromTask DEF Next
    <3>5. ASSUME NEW h \in Guns, task'.pc = "wait" \/ h < task'.g PROVE gun'[h].kind # "line"
      <4>1. h \in Nat /\ h <= NumGuns /\ task.g \in Nat
        BY <1>0
      <4>2. h <= task.g
        BY <3>3, <3>5, <4>1
      <4>3. h = task.g \/ h < task.g
        BY <4>1, <4>2
      <4>4. QED
        BY <3>2, <3>4, <4>3
    <3>6. QED
      BY <3>3, <3>5 DEF Halted
  <2>4. CASE task'.pc \in {"edits", "head"} /\ task'.was
    BY <2>4 DEF Halted
  <2>5. CASE /\ task.pc \notin {"wait", "reset"} /\ (task'.was <=> task.was) /\ task'.pc # "reset"
             /\ task'.pc = "wait" => task'.g = 1
    BY <2>5 DEF Halted
  <2>6. QED
    BY <1>3, <2>1, <2>2, <2>3, <2>4, <2>5, TaskGoes
<1>4. QED
  BY <1>1, <1>2, <1>3

\* Once the task has dealt with a stop no line is open, even one that it opened between
\* the stop's abort and the fall of the flag; commands may come as fast as they like.
THEOREM HaltCorrect == Spec => []NoLineWhenStopped
<1>1. Halted => NoLineWhenStopped
  BY DEF Halted, NoLineWhenStopped
<1>2. Spec => []Types
  BY TypesStart, TypesStep, PTL DEF Spec
<1>3. Spec => []LinesKnown
  BY <1>2, LinesKnownStart, LinesKnownStep, PTL DEF Spec
<1>4. Spec => []Halted
  BY <1>2, <1>3, HaltedStart, HaltedStep, PTL DEF Spec
<1>5. QED
  BY <1>1, <1>4, PTL

----------------------------------------------------------------------------
(* The speed gate, when commands come one at a time.  A second edit before *)
(* the task has dealt with the first may take back what made the task      *)
(* forget a line, so that nothing closes that line before its end.         *)

\* Commands come one at a time: a stop is carried out, noticed and dealt with before
\* the next start.
Orderly ==
    /\ stop # "no" => active /\ task.was
    /\ task.pc = "reset" => ~active
    /\ \A g \in Guns : ~task.was /\ (task.pc = "wait" \/ g < task.g) =>
          /\ \A i \in DOMAIN ring[g] : ~ring[g][i].open
          /\ ~active => ring[g] = <<>>

\* Without an edit to come the task works with the published configuration.
ConfigSeen == ~edited => cfgv = IF task.pc = "edits" THEN task.v ELSE seen

Running == active /\ stop = "no" /\ task.was

Busy(g) ==
    task.g = g /\ task.pc \in {"event", "fire", "firing", "watch", "advance", "due", "gate"}

\* An edit of the pattern of gun g that the task has yet to deal with; until it has,
\* a line may be open that no sheet knows of, unless the gate is shut.
Unsettled(g) ==
    IF task.pc = "edits" THEN g >= task.g /\ Shape[task.v][g] # Shape[seen][g]
    ELSE Shape[cfgv][g] # Shape[seen][g]
Doubt(g) == Unsettled(g) /\ (task.pc = "edits" \/ task.gate # "slow")

HeadOpen(g) == ring[g] # <<>> /\ Head(ring[g]).open
SheetOpen(g) ==
    IF Busy(g) THEN task.peek.open \/ (task.pc \in {"watch", "advance"} /\ task.act = "open")
    ELSE HeadOpen(g)

\* The copy that the task works with.
Mirrored(g) ==
    \/ ring[g] # <<>> /\ Head(ring[g]) = task.peek
    \/ task.pc = "due" /\ ~task.peek.open /\ \A i \in DOMAIN ring[g] : ~ring[g][i].open

Firing == task.pc \in {"fire", "firing", "watch"}
ActsRight(g) ==
    /\ Firing => task.act \in {"dot", "open", "resume"}
    /\ task.pc = "watch" => task.act # "dot"
    /\ Firing /\ task.act # "dot" => task.gate # "slow"
    /\ Firing /\ task.act = "resume" => task.peek.open
    /\ (Firing \/ task.pc = "advance") /\ task.act = "open" =>
          /\ ~task.peek.open
          /\ (Type(seen, g) = "lines" /\ task.peek.elem <= Len(Elems(seen, g))) \/ Unsettled(g)
    /\ (Firing \/ task.pc = "advance") /\ task.act = "dot" =>
          Type(seen, g) = "dots" \/ (Unsettled(g) /\ Type(cfgv, g) = "dots")
    /\ task.pc = "gate" => task.peek.open
    /\ task.pc = "advance" =>
          /\ task.act \in {"dot", "open", "close"}
          /\ task.act = "close" \/ (task.act = "open" /\ task.gate = "slow") => gun[g].kind # "line"

\* The parts of the invariant: a line is open because the sheet at the head is, ...
LineHasSheet(g) ==
    gun[g].kind = "line" => (Type(seen, g) = "lines" /\ SheetOpen(g)) \/ Doubt(g)
\* ... a gun marked as paused has none, ...
PausedShut(g) ==
    gun[g].kind = "line" /\ linePaused[g] => Doubt(g) \/ (Busy(g) /\ task.pc = "watch")
\* ... nor a gun that a slow round has passed; ...
Passed(g) == task.pc = "wait" \/ (task.pc # "edits" /\ g < task.g)
PassedShut(g) == task.gate = "slow" /\ Passed(g) => gun[g].kind # "line"
\* ... no sheet opens a line before it is at the head; ...
OneOpenSheet(g) ==
    \A i \in DOMAIN ring[g] :
       ring[g][i].open => i = 1 /\ (Type(seen, g) = "lines" \/ Unsettled(g))
\* ... and a line that outlives the comparison of the patterns has an unchanged one.
EditsAgree(g) ==
    task.pc = "edits" /\ g < task.g /\ (gun[g].kind = "line" \/ HeadOpen(g))
       => Shape[task.v][g] = Shape[seen][g]

Gated(g) ==
    /\ LineHasSheet(g) /\ PausedShut(g) /\ PassedShut(g) /\ OneOpenSheet(g) /\ EditsAgree(g)
    /\ Busy(g) => Mirrored(g) /\ ActsRight(g)
AllGated == Running => \A g \in Guns : Gated(g)

\* What the steps of a round that is under way have in common.
RoundPCs == {"head", "event", "fire", "firing", "watch", "advance", "due", "gate"}
LEMMA UnderWay ==
    ASSUME Types, Task, task.pc \notin {"wait", "reset"}, ~CheckEdit
    PROVE  /\ UNCHANGED <<enc, active, stop, cfgv, edited, offs, seen, closing>>
           /\ (task'.was <=> task.was) /\ task'.gate = task.gate /\ task'.v = task.v
           /\ task'.now = task.now
           /\ task.pc \in RoundPCs /\ task'.pc \notin {"reset", "edits"}
           /\ task' = NextGun \/ (task'.g = task.g /\ task'.pc \in RoundPCs \ {"head"})
<1>0. task \in Tasks /\ task.g \in Guns
  BY TaskFields
<1> DEFINE Kept == UNCHANGED <<enc, active, stop, cfgv, edited, offs, seen, closing>>
           Goes == /\ (task'.was <=> task.was) /\ task'.gate = task.gate /\ task'.v = task.v
                   /\ task'.now = task.now
                   /\ task'.pc \notin {"reset", "edits"}
                   /\ task' = NextGun \/ (task'.g = task.g /\ task'.pc \in RoundPCs \ {"head"})
<1>1. Kept /\ ~RoundIdle /\ ~RoundStopped /\ ~RoundActive /\ ~StopReset
  <2>1. ~RoundIdle /\ ~RoundStopped /\ ~RoundActive /\ ~StopReset
    BY DEF RoundIdle, RoundStopped, RoundActive, StopReset, At
  <2>2. QED
    BY <2>1 DEF Task, HeadSheet, HeadNone, SheetDone, NotDue, DropDue, LineTooSlow, LineEndDue,
           FireBegin, FireOpens, FireRefused, WatchLineEnd, Advance, WatchDue, GateCloses, GatePasses,
           cfgVars
<1>2. task.pc \in RoundPCs
  BY <1>1 DEF Task, HeadSheet, HeadNone, SheetDone, NotDue, DropDue, LineTooSlow, LineEndDue,
         FireBegin, FireOpens, FireRefused, WatchLineEnd, Advance, WatchDue, GateCloses, GatePasses,
         EventDue, At, RoundPCs
<1>3. ASSUME task' = NextGun PROVE Goes
  <2>1. /\ NextGun.was = task.was /\ NextGun.gate = task.gate /\ NextGun.now = task.now
        /\ NextGun.pc \in {"wait", "head"}
    BY NextGunTyped
  <2>2. NextGun.v = task.v
    BY <1>0 DEF NextGun, Waiting, Tasks
  <2>3. QED
    BY <1>3, <2>1, <2>2 DEF RoundPCs
<1>4. ASSUME HeadSheet PROVE Goes
  BY <1>0, <1>4 DEF HeadSheet, At, Tasks, RoundPCs
<1>5. ASSUME HeadNone PROVE Goes
  BY <1>3, <1>5 DEF HeadNone
<1>6. ASSUME SheetDone PROVE Goes
  <2> DEFINE h == Head(Popped(task.g))
  <2>1. /\ task' = [task EXCEPT !.pc = "due", !.peek = NoSheet] \/ task' = [task EXCEPT !.peek = h]
        /\ task.pc = "event"
    BY <1>6 DEF SheetDone, At
  <2> HIDE DEF h
  <2>2. QED
    BY <1>0, <2>1 DEF Tasks, RoundPCs
<1>7. ASSUME NotDue PROVE Goes
  BY <1>0, <1>7 DEF NotDue, Tasks, RoundPCs
<1>8. ASSUME DropDue("dot") \/ DropDue("open") \/ LineTooSlow \/ LineEndDue PROVE Goes
  BY <1>0, <1>8 DEF DropDue, LineTooSlow, LineEndDue, Tasks, RoundPCs
<1>9. ASSUME FireBegin \/ FireRefused PROVE Goes
  <2>1. task' = [task EXCEPT !.pc = "firing"] \/ task' = NextGun \/ task' = [task EXCEPT !.pc = "advance"]
    BY <1>9 DEF FireBegin, FireRefused, NotOpened
  <2>2. QED
    BY <1>0, <1>3, <2>1 DEF Tasks, RoundPCs
<1>10. ASSUME FireOpens PROVE Goes
  <2> DEFINE d == FreshDrop(task.g)
  <2>1. task' = [task EXCEPT !.pc = "advance"] \/ task' = [task EXCEPT !.pc = "watch", !.drop = d]
    BY <1>10 DEF FireOpens
  <2> HIDE DEF d
  <2>2. QED
    BY <1>0, <2>1 DEF Tasks, RoundPCs
<1>11. ASSUME WatchLineEnd PROVE Goes
  <2>1. task' = NextGun \/ task' = [task EXCEPT !.pc = "advance", !.drop = 0]
    BY <1>11 DEF WatchLineEnd
  <2>2. QED
    BY <1>0, <1>3, <2>1 DEF Tasks, RoundPCs
<1>12. ASSUME Advance PROVE Goes
  <2> DEFINE s == Advanced(cfgv, task.g, task.peek)
  <2>1. task' = [task EXCEPT !.pc = "event", !.peek = s, !.act = "none"]
    BY <1>12 DEF Advance
  <2> HIDE DEF s
  <2>2. QED
    BY <1>0, <2>1 DEF Tasks, RoundPCs
<1>13. ASSUME WatchDue PROVE Goes
  BY <1>0, <1>3, <1>13 DEF WatchDue, Tasks, RoundPCs
<1>14. ASSUME GateCloses PROVE Goes
  BY <1>3, <1>14 DEF GateCloses
<1>15. ASSUME GatePasses PROVE Goes
  <2>1. task' = NextGun \/ task' = [task EXCEPT !.pc = "fire", !.act = "resume"]
    BY <1>15 DEF GatePasses
  <2>2. QED
    BY <1>0, <1>3, <2>1 DEF Tasks, RoundPCs
<1>16. Goes
  BY <1>1, <1>4, <1>5, <1>6, <1>7, <1>8, <1>9, <1>10, <1>11, <1>12, <1>13, <1>14, <1>15 DEF Task
<1>17. QED
  BY <1>1, <1>2, <1>16

LEMMA ConfigSeenStart == Init => ConfigSeen
BY DEF Init, ConfigSeen

LEMMA ConfigSeenStep == Types /\ ConfigSeen /\ [Next]_vars => ConfigSeen'
<1> SUFFICES ASSUME Types, ConfigSeen, [Next]_vars PROVE ConfigSeen'
  OBVIOUS
<1>0. task \in Tasks
  BY TaskFields
<1>1. CASE UNCHANGED vars
  BY <1>1 DEF vars, cfgVars, ConfigSeen
<1>2. CASE Next /\ ~Task
  <2>1. task'.pc = task.pc /\ task'.v = task.v
    BY <1>2, TaskStays
  <2>2. seen' = seen /\ ((cfgv' = cfgv /\ edited' = edited) \/ edited' = TRUE)
    BY <1>2 DEF Next, TickBegin, TickClose, Move, PhotocellEdge, Publish, ApplyScalars, Start, Stops,
                StopFlush, StopAbort, StopStore, FaultStop, GunCloses, TestFire, TaskOnly, cfgVars
  <2>3. QED
    BY <2>1, <2>2 DEF ConfigSeen
<1>3. CASE RoundActive
  <2>1. PICK verdict : task' = [task EXCEPT !.pc = IF edited THEN "edits" ELSE "head", !.now = enc,
                                            !.was = TRUE, !.v = cfgv, !.gate = verdict]
    BY <1>3 DEF RoundActive
  <2>2. task'.pc = (IF edited THEN "edits" ELSE "head") /\ task'.v = cfgv
    BY <1>0, <2>1 DEF Tasks
  <2>3. UNCHANGED <<cfgv, seen>> /\ task.pc = "wait"
    BY <1>3 DEF RoundActive, At
  <2>4. QED
    BY <2>2, <2>3 DEF ConfigSeen
<1>4. CASE CheckEdit
  <2>1. UNCHANGED <<cfgv, edited>> /\ task.pc = "edits"
    BY <1>4 DEF CheckEdit, cfgVars, At
  <2>2. \/ UNCHANGED seen /\ task' = [task EXCEPT !.g = task.g + 1]
        \/ seen' = task.v /\ task' = [task EXCEPT !.pc = "head", !.g = 1]
    BY <1>4 DEF CheckEdit, EditsEnd
  <2>3. QED
    BY <1>0, <2>1, <2>2 DEF ConfigSeen, Tasks
<1>5. CASE Task /\ ~RoundActive /\ ~CheckEdit
  <2>1. UNCHANGED <<cfgv, edited, seen>> /\ task.pc # "edits"
    BY <1>5 DEF Task, RoundIdle, RoundStopped, StopReset, HeadSheet, HeadNone,
           SheetDone, NotDue, DropDue, LineTooSlow, LineEndDue, FireBegin, FireOpens, FireRefused,
           WatchLineEnd, Advance, WatchDue, GateCloses, GatePasses, At, EventDue, cfgVars
  <2>2. task'.pc # "edits"
    <3>1. CASE task.pc \notin {"wait", "reset"}
      BY <1>5, <3>1, UnderWay
    <3>2. CASE task.pc \in {"wait", "reset"}
      <4>1. Waiting.pc = "wait"
        BY NextGunTyped
      <4>2. \/ task' = [task EXCEPT !.pc = "reset", !.now = enc, !.was = FALSE]
            \/ task' = [task EXCEPT !.now = enc] \/ task' = Waiting
            \/ task' = [task EXCEPT !.g = task.g + 1]
        BY <1>5, <3>2, TaskGoes
      <4>3. QED
        BY <1>0, <3>2, <4>1, <4>2 DEF Tasks
    <3>3. QED
      BY <3>1, <3>2
  <2>3. QED
    BY <2>1, <2>2 DEF ConfigSeen
<1>6. QED
  BY <1>1, <1>2, <1>3, <1>4, <1>5

LEMMA OrderlyStart == Init => Orderly
<1> SUFFICES ASSUME Init PROVE Orderly
  OBVIOUS
<1>1. stop = "no" /\ task.pc = "wait" /\ \A g \in Guns : ring[g] = <<>>
  BY DEF Init
<1>2. DOMAIN <<>> = {}
  OBVIOUS
<1>3. QED
  BY <1>1, <1>2 DEF Orderly

\* Nothing but a round opens a sheet.
LEMMA SheetsStayShut ==
    ASSUME Types, Next, ~Task, NEW g \in Guns
    PROVE  /\ ring[g] = <<>> /\ ~active => ring'[g] = <<>>
           /\ (\A i \in DOMAIN ring[g] : ~ring[g][i].open) => \A i \in DOMAIN ring'[g] : ~ring'[g][i].open
           /\ \A i \in DOMAIN ring'[g] : ring'[g][i].open => i \in DOMAIN ring[g] /\ ring[g][i].open
<1>0. ring[g] \in Seq(Sheets) /\ Len(ring[g]) \in Nat /\ DOMAIN ring[g] = 1 .. Len(ring[g])
      /\ \A i \in 1 .. Len(ring[g]) : ring[g][i] \in Sheets
  BY Items DEF Types, RingTypes
<1>1. CASE Move
  <2>1. ring'[g] = [i \in DOMAIN ring[g] |-> Older(ring[g][i])]
    BY <1>1 DEF Move
  <2>2. \A s \in Sheets : Older(s).open <=> s.open
    BY DEF Older, Sheets
  <2>3. DOMAIN ring'[g] = DOMAIN ring[g] /\ \A i \in DOMAIN ring[g] : ring'[g][i].open <=> ring[g][i].open
    BY <1>0, <2>1, <2>2
  <2>4. ring[g] = <<>> => ring'[g] = <<>>
    BY <1>0, <2>1
  <2>5. QED
    BY <2>3, <2>4
<1>2. CASE PhotocellEdge
  <2> DEFINE n == NewSheet(enc)
  <2>1. ~n.open /\ active
    BY <1>2 DEF NewSheet, PhotocellEdge
  <2>2. ring'[g] = ring[g] \/ ring'[g] = Append(ring[g], n)
    BY <1>2 DEF PhotocellEdge
  <2> HIDE DEF n
  <2>3. /\ DOMAIN Append(ring[g], n) = 1 .. Len(ring[g]) + 1
        /\ \A i \in 1 .. Len(ring[g]) + 1 :
              Append(ring[g], n)[i] = IF i <= Len(ring[g]) THEN ring[g][i] ELSE n
    BY <1>0
  <2>4. QED
    BY <1>0, <2>1, <2>2, <2>3
<1>3. CASE StopFlush
  <2>1. ring'[g] = <<>>
    BY <1>3 DEF StopFlush
  <2>2. DOMAIN <<>> = {}
    OBVIOUS
  <2>3. QED
    BY <2>1, <2>2
<1>4. CASE ~Move /\ ~PhotocellEdge /\ ~StopFlush
  BY <1>4 DEF Next, TickBegin, TickClose, Publish, ApplyScalars, Start, Stops,
              StopAbort, StopStore, FaultStop, GunCloses, TestFire, TaskOnly
<1>5. QED
  BY <1>1, <1>2, <1>3, <1>4

LEMMA OrderlyStep == ~Bursts /\ Types /\ Halted /\ Orderly /\ [Next]_vars => Orderly'
<1> SUFFICES ASSUME ~Bursts, Types, Halted, Orderly, [Next]_vars PROVE Orderly'
  OBVIOUS
<1>0. task \in Tasks /\ task.g \in Guns /\ \A g \in Guns : g \in Nat /\ g <= NumGuns
  BY TaskFields, Constants DEF Guns
<1>1. CASE UNCHANGED vars
  BY <1>1 DEF vars, Orderly
<1>2. CASE Next /\ ~Task
  <2>1. task'.pc = task.pc /\ task'.g = task.g /\ (task'.was <=> task.was)
    BY <1>2, TaskStays
  <2>2. stop' # "no" => active' /\ task'.was
    <3>1. CASE StopFlush \/ FaultStop
      <4>1. active /\ task.was = active /\ active' = active
        BY <3>1 DEF StopFlush, FaultStop, Noticed
      <4>2. active' /\ task.was
        BY <4>1, Zenon
      <4>3. QED
        BY <2>1, <4>2
    <3>2. CASE ~StopFlush /\ ~FaultStop
      BY <1>2, <2>1, <3>2 DEF Next, TickBegin, TickClose, Move, PhotocellEdge, Publish, ApplyScalars,
                   Start, Stops, StopAbort, StopStore, GunCloses, TestFire, TaskOnly, Orderly
    <3>3. QED
      BY <3>1, <3>2
  <2>3. active' => active \/ Start
    BY <1>2 DEF Next, TickBegin, TickClose, Move, PhotocellEdge, Publish, ApplyScalars, Start, Stops,
                StopFlush, StopAbort, StopStore, FaultStop, GunCloses, TestFire, TaskOnly
  <2>4. task'.pc = "reset" => ~active'
    BY <2>1, <2>3 DEF Orderly, Start, Noticed
  <2>5. active /\ ~active' => task.was
    <3>1. active /\ ~active' => StopStore
      BY <1>2 DEF Next, TickBegin, TickClose, Move, PhotocellEdge, Publish, ApplyScalars, Start, Stops,
                  StopFlush, StopAbort, FaultStop, GunCloses, TestFire, TaskOnly
    <3>2. QED
      BY <3>1 DEF StopStore, Orderly
  <2>6. ASSUME NEW g \in Guns, ~task'.was, task'.pc = "wait" \/ g < task'.g
        PROVE  /\ \A i \in DOMAIN ring'[g] : ~ring'[g][i].open
               /\ ~active' => ring'[g] = <<>>
    <3>1. /\ \A i \in DOMAIN ring[g] : ~ring[g][i].open
          /\ ~active => ring[g] = <<>>
      BY <2>1, <2>6 DEF Orderly
    <3>2. ~active' => ~active
      BY <2>1, <2>5, <2>6
    <3>3. QED
      BY <1>2, <3>1, <3>2, SheetsStayShut
  <2>7. QED
    BY <2>2, <2>4, <2>6 DEF Orderly
<1>3. CASE Task
  <2>0. UNCHANGED <<active, stop>>
    BY <1>3 DEF Task, RoundIdle, RoundStopped, RoundActive, StopReset, CheckEdit, HeadSheet, HeadNone,
           SheetDone, NotDue, DropDue, LineTooSlow, LineEndDue, FireBegin, FireOpens, FireRefused,
           WatchLineEnd, Advance, WatchDue, GateCloses, GatePasses
  <2>1. CASE RoundStopped /\ task' = [task EXCEPT !.pc = "reset", !.now = enc, !.was = FALSE]
    <3>1. task'.pc = "reset" /\ task'.g = 1 /\ ~active
      BY <1>0, <2>1 DEF Halted, RoundStopped, Stopped, At, Tasks
    <3>2. \A g \in Guns : ~(g < 1)
      BY DEF Guns
    <3>3. stop = "no"
      BY <3>1 DEF Orderly
    <3>4. QED
      BY <2>0, <3>1, <3>2, <3>3 DEF Orderly
  <2>2. CASE RoundIdle /\ task' = [task EXCEPT !.now = enc]
    <3>1. task'.pc = task.pc /\ task'.g = task.g /\ task'.was = task.was /\ UNCHANGED ring
      BY <1>0, <2>2 DEF RoundIdle, Tasks
    <3>2. QED
      BY <2>0, <3>1 DEF Orderly
  <2>3. CASE StopReset /\ \/ task.g = NumGuns /\ task' = Waiting
                          \/ task.g # NumGuns /\ task' = [task EXCEPT !.g = task.g + 1]
    <3>1. task.pc = "reset" /\ ~task.was /\ ~active /\ stop = "no"
      BY <2>3 DEF StopReset, Halted, At, Orderly
    <3>2. \A h \in Guns : ring'[h] = IF h = task.g THEN <<>> ELSE ring[h]
      BY <1>0, <2>3 DEF StopReset, ResetGun, Types, RingTypes
    <3>3. /\ task'.pc = "reset" /\ task'.g = task.g + 1 /\ ~task'.was
          \/ /\ task'.pc = "wait" /\ ~task'.was /\ task.g = NumGuns
      <4>1. CASE task.g = NumGuns /\ task' = Waiting
        BY <3>1, <4>1, NextGunTyped
      <4>2. CASE task' = [task EXCEPT !.g = task.g + 1]
        BY <1>0, <3>1, <4>2 DEF Tasks
      <4>3. QED
        BY <2>3, <4>1, <4>2
    <3>4. ASSUME NEW h \in Guns, task'.pc = "wait" \/ h < task'.g PROVE ring'[h] = <<>>
      <4>1. h \in Nat /\ h <= NumGuns /\ task.g \in Nat
        BY <1>0
      <4>2. h <= task.g
        BY <3>3, <3>4, <4>1
      <4>3. h < task.g => ring[h] = <<>>
        BY <3>1 DEF Orderly
      <4>4. h = task.g \/ h < task.g
        BY <4>1, <4>2
      <4>5. QED
        BY <3>2, <4>3, <4>4
    <3>5. DOMAIN <<>> = {}
      OBVIOUS
    <3>6. QED
      BY <2>0, <3>1, <3>4, <3>5 DEF Orderly
  <2>4. CASE task'.pc \in {"edits", "head"} /\ task'.was /\ active /\ task.pc = "wait"
    BY <2>0, <2>4 DEF Orderly
  <2>5. CASE task.pc \notin {"wait", "reset"} /\ (task'.was <=> task.was) /\ task'.pc # "reset"
    <3>1. task'.was
      BY <2>5 DEF Halted
    <3>2. QED
      BY <2>0, <2>5, <3>1 DEF Orderly
  <2>6. QED
    BY <1>3, <2>1, <2>2, <2>3, <2>4, <2>5, TaskGoes
<1>4. QED
  BY <1>1, <1>2, <1>3

\* Nothing in flight survives into the next run, as the comment on the task's stop says,
\* as long as the task notices the stop before the next start.
THEOREM RestartCorrect == ~Bursts => (Spec => RestartsEmpty)
<1> SUFFICES ASSUME ~Bursts PROVE Spec => RestartsEmpty
  OBVIOUS
<1> DEFINE Clean == ~active /\ active' => \A g \in Guns : ring[g] = <<>> /\ gun[g].kind # "line"
<1>1. ASSUME Types, Halted, Orderly, [Next]_vars PROVE [Clean]_vars
  <2> SUFFICES ASSUME ~active, active', NEW g \in Guns PROVE ring[g] = <<>> /\ gun[g].kind # "line"
    BY DEF vars
  <2>1. Start
    BY <1>1 DEF vars, Next, Task, RoundIdle, RoundStopped, RoundActive, StopReset, CheckEdit,
           HeadSheet, HeadNone, SheetDone, NotDue, DropDue, LineTooSlow, LineEndDue, FireBegin,
           FireOpens, FireRefused, WatchLineEnd, Advance, WatchDue, GateCloses, GatePasses,
           TickBegin, TickClose, Move, PhotocellEdge, Publish, ApplyScalars, Stops,
           StopFlush, StopAbort, StopStore, FaultStop, GunCloses, TestFire
  <2>2. ~task.was /\ task.pc = "wait"
    BY <1>1, <2>1 DEF Start, Noticed, Halted
  <2>3. QED
    BY <1>1, <2>2 DEF Halted, Orderly
<1>2. Spec => []Types
  BY TypesStart, TypesStep, PTL DEF Spec
<1>3. Spec => []LinesKnown
  BY <1>2, LinesKnownStart, LinesKnownStep, PTL DEF Spec
<1>4. Spec => []Halted
  BY <1>2, <1>3, HaltedStart, HaltedStep, PTL DEF Spec
<1>5. Types /\ Halted /\ Orderly /\ [Next]_vars => Orderly'
  BY OrderlyStep
<1>6. Spec => []Orderly
  BY <1>2, <1>4, <1>5, OrderlyStart, PTL DEF Spec
<1>7. QED
  BY <1>1, <1>2, <1>4, <1>6, PTL DEF Spec, RestartsEmpty

\* The head of a queue, and the copy of it, while the task does nothing.
LEMMA HeadsStay ==
    ASSUME Types, Next, ~Task, ~StopFlush, NEW g \in Guns
    PROVE  /\ ring[g] # <<>> => /\ ring'[g] # <<>>
                                /\ \/ Head(ring'[g]) = Head(ring[g]) /\ task'.peek = task.peek
                                   \/ Head(ring'[g]) = Older(Head(ring[g])) /\ task'.peek = Older(task.peek)
           /\ HeadOpen(g)' <=> HeadOpen(g)
           /\ (task'.peek.open <=> task.peek.open) /\ task'.peek.elem = task.peek.elem
<1>0. /\ ring[g] \in Seq(Sheets) /\ Len(ring[g]) \in Nat /\ DOMAIN ring[g] = 1 .. Len(ring[g])
      /\ \A i \in 1 .. Len(ring[g]) : ring[g][i] \in Sheets
      /\ task \in Tasks /\ task.peek \in Sheets
  BY Items, TaskFields DEF Types, RingTypes
<1>1. \A s \in Sheets : (Older(s).open <=> s.open) /\ Older(s).elem = s.elem
  BY DEF Older, Sheets
<1>2. CASE Move
  <2>1. ring'[g] = [i \in DOMAIN ring[g] |-> Older(ring[g][i])]
    BY <1>2 DEF Move
  <2>2. task'.peek = Older(task.peek)
    <3> DEFINE s == Older(task.peek)
    <3>1. task' = [task EXCEPT !.peek = s]
      BY <1>2 DEF Move
    <3> HIDE DEF s
    <3>2. task'.peek = s
      BY <1>0, <3>1 DEF Tasks
    <3>3. QED
      BY <3>2 DEF s
  <2>3. CASE ring[g] = <<>>
    <3>1. ring'[g] = <<>>
      BY <1>0, <2>1, <2>3
    <3>2. QED
      BY <1>0, <1>1, <2>2, <2>3, <3>1 DEF HeadOpen
  <2>4. CASE ring[g] # <<>>
    <3>1. 1 \in DOMAIN ring[g] /\ Head(ring[g]) = ring[g][1] /\ ring[g][1] \in Sheets
      BY <1>0, <2>4
    <3>2. DOMAIN ring'[g] = 1 .. Len(ring[g]) /\ ring'[g] \in Seq({Older(s) : s \in Sheets})
      BY <1>0, <2>1
    <3>3. ring'[g] # <<>> /\ Head(ring'[g]) = ring'[g][1] /\ ring'[g][1] = Older(ring[g][1])
      BY <1>0, <2>1, <3>1, <3>2
    <3>4. QED
      BY <1>0, <1>1, <2>2, <2>4, <3>1, <3>3 DEF HeadOpen
  <2>5. QED
    BY <2>3, <2>4
<1>3. CASE PhotocellEdge
  <2> DEFINE n == NewSheet(enc)
  <2>1. ~n.open /\ task' = task
    BY <1>3 DEF NewSheet, PhotocellEdge
  <2>2. ring'[g] = ring[g] \/ ring'[g] = Append(ring[g], n)
    BY <1>3 DEF PhotocellEdge
  <2>3. n \in Sheets
    BY Records, TaskFields
  <2> HIDE DEF n
  <2>4. /\ Append(ring[g], n) # <<>>
        /\ IF ring[g] = <<>> THEN Head(Append(ring[g], n)) = n
           ELSE Head(Append(ring[g], n)) = Head(ring[g])
    <3> DEFINE a == Append(ring[g], n)
    <3>1. /\ a \in Seq(Sheets) /\ Len(a) = Len(ring[g]) + 1
          /\ \A i \in 1 .. Len(ring[g]) + 1 : a[i] = IF i <= Len(ring[g]) THEN ring[g][i] ELSE n
      BY <1>0, <2>3
    <3> HIDE DEF a
    <3>2. a # <<>> /\ Head(a) = a[1]
      BY <1>0, <3>1
    <3>3. ring[g] = <<>> => Len(ring[g]) = 0
      OBVIOUS
    <3>4. ring[g] # <<>> => Len(ring[g]) >= 1 /\ Head(ring[g]) = ring[g][1]
      BY <1>0
    <3>5. QED
      BY <1>0, <3>1, <3>2, <3>3, <3>4 DEF a
  <2>5. QED
    BY <2>1, <2>2, <2>4 DEF HeadOpen
<1>4. CASE ~Move /\ ~PhotocellEdge
  <2>1. UNCHANGED <<ring, task>>
    BY <1>4 DEF Next, TickBegin, TickClose, Publish, ApplyScalars, Start, Stops,
                StopFlush, StopAbort, StopStore, FaultStop, GunCloses, TestFire, TaskOnly
  <2>2. QED
    BY <2>1 DEF HeadOpen
<1>5. QED
  BY <1>2, <1>3, <1>4

LEMMA WorldGated == ~Bursts /\ Types /\ LinesKnown /\ ConfigSeen /\ AllGated /\ Next /\ ~Task => AllGated'
<1> SUFFICES ASSUME ~Bursts, Types, LinesKnown, ConfigSeen, AllGated, Next, ~Task, Running', NEW g \in Guns
             PROVE  Gated(g)'
  BY DEF AllGated
<1>1. /\ task'.pc = task.pc /\ task'.g = task.g /\ (task'.was <=> task.was)
      /\ task'.gate = task.gate /\ task'.v = task.v /\ task'.act = task.act
  BY TaskStays
<1>2. Running /\ ~StopFlush
  <2>1. ~StopFlush /\ ~FaultStop /\ ~StopAbort /\ ~StopStore
    BY DEF StopFlush, FaultStop, StopAbort, StopStore, Running
  <2>2. ~Start
    <3>1. Start => ~task.was
      BY DEF Start, Noticed
    <3>2. QED
      BY <1>1, <3>1 DEF Running
  <2>3. UNCHANGED <<active, stop>>
    BY <2>1, <2>2 DEF Next, TickBegin, TickClose, Move, PhotocellEdge, Publish, ApplyScalars, Stops,
                      GunCloses, TestFire, TaskOnly
  <2>4. QED
    BY <1>1, <2>1, <2>3 DEF Running
<1>3. seen' = seen /\ linePaused' = linePaused
  BY DEF Next, TickBegin, TickClose, Move, PhotocellEdge, Publish, ApplyScalars, Start, Stops,
         StopFlush, StopAbort, StopStore, FaultStop, GunCloses, TestFire, TaskOnly, lineVars
<1>4. cfgv' = cfgv \/ (task.pc # "edits" => cfgv = seen)
  <2>1. cfgv' = cfgv \/ \E v \in Versions : Publish(v)
    BY DEF Next, TickBegin, TickClose, Move, PhotocellEdge, ApplyScalars, Start, Stops,
           StopFlush, StopAbort, StopStore, FaultStop, GunCloses, TestFire, cfgVars
  <2>2. QED
    BY <2>1 DEF Publish, ConfigSeen
<1>5. /\ Unsettled(g) => Unsettled(g)'
      /\ Unsettled(g) /\ task.pc # "edits" => cfgv' = cfgv
      /\ Doubt(g) => Doubt(g)'
  BY <1>1, <1>3, <1>4 DEF Unsettled, Doubt
<1>6. gun'[g].kind = "line" => gun[g].kind = "line"
  <2>1. ~FireOpens
    BY DEF Task
  <2>2. QED
    BY <2>1, LinesFromTask
<1>7. /\ HeadOpen(g)' <=> HeadOpen(g)
      /\ (task'.peek.open <=> task.peek.open) /\ task'.peek.elem = task.peek.elem
  BY <1>2, HeadsStay
<1>8. (Busy(g)' <=> Busy(g)) /\ (SheetOpen(g) => SheetOpen(g)')
  BY <1>1, <1>7 DEF Busy, SheetOpen
<1>9. Gated(g)
  BY <1>2 DEF AllGated
<1>10. LineHasSheet(g)' /\ PausedShut(g)'
  <2>1. LineHasSheet(g) /\ PausedShut(g)
    BY <1>9 DEF Gated
  <2>2. LineHasSheet(g)'
    BY <1>3, <1>5, <1>6, <1>8, <2>1 DEF LineHasSheet
  <2>3. PausedShut(g)'
    BY <1>1, <1>3, <1>5, <1>6, <1>8, <2>1 DEF PausedShut
  <2>4. QED
    BY <2>2, <2>3
<1>11. PassedShut(g)' /\ EditsAgree(g)'
  BY <1>1, <1>3, <1>6, <1>7, <1>9 DEF Gated, PassedShut, Passed, EditsAgree
<1>12. OneOpenSheet(g)'
  <2>1. \A i \in DOMAIN ring'[g] : ring'[g][i].open => i \in DOMAIN ring[g] /\ ring[g][i].open
    BY SheetsStayShut
  <2>2. OneOpenSheet(g)
    BY <1>9 DEF Gated
  <2>3. QED
    BY <1>3, <1>5, <2>1, <2>2 DEF OneOpenSheet
<1>13. ASSUME Busy(g) PROVE Mirrored(g)'
  <2>1. Mirrored(g)
    BY <1>9, <1>13 DEF Gated
  <2>2. CASE ring[g] # <<>> /\ Head(ring[g]) = task.peek
    <3>1. ring'[g] # <<>> /\ Head(ring'[g]) = task'.peek
      BY <1>2, <2>2, HeadsStay
    <3>2. QED
      BY <3>1 DEF Mirrored
  <2>3. CASE task.pc = "due" /\ ~task.peek.open /\ \A i \in DOMAIN ring[g] : ~ring[g][i].open
    <3>1. \A i \in DOMAIN ring'[g] : ~ring'[g][i].open
      BY <2>3, SheetsStayShut
    <3>2. QED
      BY <1>1, <1>7, <2>3, <3>1 DEF Mirrored
  <2>4. QED
    BY <2>1, <2>2, <2>3 DEF Mirrored
<1>14. ASSUME Busy(g) PROVE ActsRight(g)'
  <2>1. ActsRight(g) /\ (Firing' <=> Firing)
    BY <1>1, <1>9, <1>14 DEF Gated, Firing
  <2>2. (Firing \/ task.pc = "advance") => task.pc # "edits"
    BY DEF Firing
  <2>3. QED
    BY <1>1, <1>3, <1>5, <1>6, <1>7, <2>1, <2>2 DEF ActsRight
<1>15. QED
  BY <1>8, <1>10, <1>11, <1>12, <1>13, <1>14 DEF Gated

\* The task closes the line it knows of.
LEMMA LineCloses ==
    ASSUME Types, LinesKnown, task.pc # "watch", NEW g \in Guns, CloseLine(g)
    PROVE  gun'[g].kind # "line"
<1>1. gun'[g] = CloseIfDrop(g, lineDrop[g])
  BY DEF CloseLine, Types, GunTypes
<1>2. gun[g].kind = "line" => gun[g].open /\ gun[g].drop = lineDrop[g] /\ lineDrop[g] # 0
  BY DEF LinesKnown, Known
<1>3. QED
  BY <1>1, <1>2, ClosedOrNot

LEMMA RoundActiveGated ==
    Types /\ Halted /\ Orderly /\ ConfigSeen /\ AllGated /\ RoundActive => AllGated'
<1> SUFFICES ASSUME Types, Halted, Orderly, ConfigSeen, AllGated, RoundActive, Running', NEW g \in Guns
             PROVE  Gated(g)'
  BY DEF AllGated
<1>1. PICK verdict : task' = [task EXCEPT !.pc = IF edited THEN "edits" ELSE "head", !.now = enc,
                                          !.was = TRUE, !.v = cfgv, !.gate = verdict]
  BY DEF RoundActive
<1>2. task \in Tasks /\ g \in Nat /\ g >= 1
  BY TaskFields DEF Guns
<1>3. /\ task'.pc = (IF edited THEN "edits" ELSE "head") /\ task'.v = cfgv /\ task'.g = 1
      /\ task.pc = "wait"
  BY <1>1, <1>2 DEF Tasks, RoundActive, At, Halted
<1>4. UNCHANGED <<cfgv, seen, ring, gun, linePaused, active, stop>>
  BY DEF RoundActive, lineVars
<1>5. ~Busy(g)' /\ ~Passed(g)' /\ (HeadOpen(g)' <=> HeadOpen(g)) /\ ~(g < task'.g)
  BY <1>2, <1>3, <1>4 DEF Busy, Passed, HeadOpen
<1>6. PassedShut(g)' /\ EditsAgree(g)'
  BY <1>5 DEF PassedShut, EditsAgree
<1>7. CASE task.was
  <2>1. Gated(g) /\ ~Busy(g)
    BY <1>3, <1>4, <1>7 DEF AllGated, Running, Busy
  <2>2. Unsettled(g) => edited /\ Unsettled(g)' /\ Doubt(g)'
    <3>1. Unsettled(g) => edited
      BY <1>3 DEF Unsettled, ConfigSeen
    <3>2. QED
      BY <1>2, <1>3, <1>4, <3>1 DEF Unsettled, Doubt
  <2>3. LineHasSheet(g)' /\ PausedShut(g)' /\ OneOpenSheet(g)'
    BY <1>4, <1>5, <2>1, <2>2 DEF Gated, LineHasSheet, PausedShut, OneOpenSheet, SheetOpen, Doubt
  <2>4. QED
    BY <1>5, <1>6, <2>3 DEF Gated
<1>8. CASE ~task.was
  <2>1. gun[g].kind # "line" /\ \A i \in DOMAIN ring[g] : ~ring[g][i].open
    BY <1>3, <1>8 DEF Halted, Orderly
  <2>2. LineHasSheet(g)' /\ PausedShut(g)' /\ OneOpenSheet(g)'
    BY <1>4, <2>1 DEF LineHasSheet, PausedShut, OneOpenSheet
  <2>3. QED
    BY <1>5, <1>6, <2>2 DEF Gated
<1>9. QED
  BY <1>7, <1>8

LEMMA CheckEditGated == Types /\ LinesKnown /\ AllGated /\ CheckEdit => AllGated'
<1> SUFFICES ASSUME Types, LinesKnown, AllGated, CheckEdit, Running', NEW g \in Guns PROVE Gated(g)'
  BY DEF AllGated
<1>0. task \in Tasks /\ task.g \in Guns /\ task.pc = "edits" /\ g \in Nat /\ task.g \in Nat
      /\ g >= 1 /\ g <= NumGuns /\ NumGuns \in Nat /\ task.g <= NumGuns
  BY TaskFields, Constants DEF CheckEdit, At, Guns
<1>1. \/ /\ task'.pc = "edits" /\ task'.g = task.g + 1 /\ seen' = seen
      \/ /\ task'.pc = "head" /\ task'.g = 1 /\ seen' = task.v /\ task.g = NumGuns
  <2>1. CASE task.g < NumGuns
    BY <1>0, <2>1 DEF CheckEdit, EditsEnd, Tasks
  <2>2. CASE ~(task.g < NumGuns)
    <3>1. task.g = NumGuns
      BY <1>0, <2>2
    <3>2. seen' = task.v /\ task' = [task EXCEPT !.pc = "head", !.g = 1]
      BY <2>2 DEF CheckEdit, EditsEnd
    <3>3. task'.pc = "head" /\ task'.g = 1
      BY <1>0, <3>2 DEF Tasks
    <3>4. QED
      BY <3>1, <3>2, <3>3
  <2>3. QED
    BY <2>1, <2>2
<1>2. (task'.was <=> task.was) /\ task'.gate = task.gate /\ task'.v = task.v
  BY <1>0 DEF CheckEdit, EditsEnd, Tasks
<1>3. Running /\ cfgv' = cfgv
  BY <1>2 DEF Running, CheckEdit, cfgVars
<1>4. Gated(g) /\ ~Busy(g) /\ ~Busy(g)' /\ ~Passed(g)'
  BY <1>0, <1>1, <1>3 DEF AllGated, Busy, Passed
\* What is left of gun g is of a pattern that the edit has not changed.
<1> DEFINE Left ==
             /\ gun'[g].kind = "line" => Type(seen, g) = "lines" /\ HeadOpen(g)' /\ ~linePaused'[g]
             /\ \A i \in DOMAIN ring'[g] : ring'[g][i].open => i = 1 /\ Type(seen, g) = "lines" /\ HeadOpen(g)'
             /\ gun'[g].kind = "line" \/ HeadOpen(g)' => Shape[task.v][g] = Shape[seen][g]
<1>5. ASSUME UNCHANGED <<gun, ring, linePaused>> \/ g # task.g, ~Unsettled(g),
             HeadOpen(g) \/ gun[g].kind = "line" => Shape[task.v][g] = Shape[seen][g]
      PROVE  Left
  <2>1. gun'[g] = gun[g] /\ ring'[g] = ring[g] /\ linePaused'[g] = linePaused[g]
    BY <1>5, OtherGuns DEF Task
  <2>2. ~Doubt(g) /\ (SheetOpen(g) => HeadOpen(g)) /\ (HeadOpen(g)' <=> HeadOpen(g))
    BY <1>4, <1>5, <2>1 DEF Doubt, SheetOpen, HeadOpen
  <2>3. gun[g].kind = "line" => Type(seen, g) = "lines" /\ HeadOpen(g) /\ ~linePaused[g]
    BY <1>4, <2>2 DEF Gated, LineHasSheet, PausedShut
  <2>4. \A i \in DOMAIN ring[g] : ring[g][i].open => i = 1 /\ Type(seen, g) = "lines" /\ HeadOpen(g)
    <3> SUFFICES ASSUME NEW i \in DOMAIN ring[g], ring[g][i].open
                 PROVE  i = 1 /\ Type(seen, g) = "lines" /\ HeadOpen(g)
      OBVIOUS
    <3>1. i = 1 /\ Type(seen, g) = "lines"
      BY <1>4, <1>5 DEF Gated, OneOpenSheet
    <3>2. ring[g] \in Seq(Sheets)
      BY DEF Types, RingTypes
    <3>3. ring[g] # <<>> /\ Head(ring[g]) = ring[g][1]
      BY <3>1, <3>2
    <3>4. QED
      BY <3>1, <3>3 DEF HeadOpen
  <2>5. QED
    BY <1>5, <2>1, <2>2, <2>3, <2>4
<1>6. CASE g > task.g
  <2>1. task'.pc = "edits" /\ seen' = seen /\ task'.g <= g
    BY <1>0, <1>1, <1>6
  <2>2. gun'[g] = gun[g] /\ ring'[g] = ring[g] /\ linePaused'[g] = linePaused[g]
    BY <1>0, <1>6, OtherGuns DEF Task
  <2>3. /\ Unsettled(g)' <=> Unsettled(g)
        /\ Doubt(g)' <=> Doubt(g)
    BY <1>0, <1>2, <1>6, <2>1 DEF Unsettled, Doubt
  <2>4. SheetOpen(g)' <=> SheetOpen(g)
    BY <1>4, <2>2 DEF SheetOpen, HeadOpen
  <2>5. ~(g < task'.g)
    BY <1>0, <1>1, <1>6
  <2>6. LineHasSheet(g)' /\ PausedShut(g)' /\ PassedShut(g)' /\ OneOpenSheet(g)' /\ EditsAgree(g)'
    BY <1>4, <2>1, <2>2, <2>3, <2>4, <2>5
       DEF Gated, LineHasSheet, PausedShut, PassedShut, OneOpenSheet, EditsAgree
  <2>7. QED
    BY <1>4, <2>6 DEF Gated
<1>7. CASE ~(g > task.g)
  <2>1. Left
    <3>1. CASE g # task.g
      <4>1. g < task.g
        BY <1>0, <1>7, <3>1
      <4>2. ~Unsettled(g)
        BY <1>0, <4>1 DEF Unsettled
      <4>3. HeadOpen(g) \/ gun[g].kind = "line" => Shape[task.v][g] = Shape[seen][g]
        BY <1>0, <1>4, <4>1 DEF Gated, EditsAgree
      <4>4. QED
        BY <1>5, <3>1, <4>2, <4>3
    <3>2. CASE g = task.g /\ SameGeometry(task.v, seen, task.g)
      <4>1. UNCHANGED <<gun, ring, linePaused>> /\ Shape[task.v][g] = Shape[seen][g]
        BY <3>2 DEF CheckEdit, SameGeometry, lineVars
      <4>2. ~Unsettled(g)
        BY <1>0, <4>1 DEF Unsettled
      <4>3. QED
        BY <1>5, <4>1, <4>2
    <3>3. CASE g = task.g /\ ~SameGeometry(task.v, seen, task.g)
      <4>1. ResetGun(g)
        BY <3>3 DEF CheckEdit
      <4>2. gun'[g].kind # "line"
        BY <1>0, <4>1, LineCloses DEF ResetGun, EndLine
      <4>3. ring'[g] = <<>> /\ DOMAIN <<>> = {}
        BY <4>1 DEF ResetGun, Types, RingTypes
      <4>4. QED
        BY <4>2, <4>3 DEF HeadOpen
    <3>4. QED
      BY <3>1, <3>2, <3>3
  <2>2. gun'[g].kind = "line" => Type(seen', g) = "lines" /\ HeadOpen(g)' /\ ~linePaused'[g]
    BY <1>1, <2>1 DEF Type
  <2>3. \A i \in DOMAIN ring'[g] : ring'[g][i].open => i = 1 /\ Type(seen', g) = "lines"
    BY <1>1, <2>1 DEF Type
  <2>4. SheetOpen(g)' <=> HeadOpen(g)'
    BY <1>4 DEF SheetOpen
  <2>5. LineHasSheet(g)' /\ PausedShut(g)' /\ OneOpenSheet(g)'
    BY <2>2, <2>3, <2>4 DEF LineHasSheet, PausedShut, OneOpenSheet, Type
  <2>6. PassedShut(g)' /\ EditsAgree(g)'
    BY <1>1, <1>2, <1>4, <2>1 DEF PassedShut, EditsAgree
  <2>7. QED
    BY <1>4, <2>5, <2>6 DEF Gated
<1>8. QED
  BY <1>6, <1>7

\* A step of a round that is under way: what it leaves alone, and what is to show of
\* the gun it is at.
LEMMA RoundKeeps ==
    ASSUME Types, Task, task.pc \notin {"wait", "reset"}, ~CheckEdit, NEW g \in Guns
    PROVE  /\ seen' = seen /\ cfgv' = cfgv /\ (Running' <=> Running)
           /\ Unsettled(g)' <=> Unsettled(g)
           /\ Doubt(g)' <=> Doubt(g)
           /\ EditsAgree(g)'
           /\ ring'[g] = ring[g] => (HeadOpen(g)' <=> HeadOpen(g))
           /\ task.g = g => ~Passed(g)
           /\ task' = NextGun => ~Busy(g)' /\ (g # task.g => (Passed(g)' => Passed(g)))
           /\ task'.g = task.g /\ task'.pc \in RoundPCs \ {"head"} =>
                 /\ Passed(g)' <=> Passed(g)
                 /\ Busy(g)' <=> task.g = g
<1>1. /\ UNCHANGED <<enc, active, stop, cfgv, edited, offs, seen, closing>>
      /\ (task'.was <=> task.was) /\ task'.gate = task.gate /\ task'.v = task.v
      /\ task.pc \in RoundPCs /\ task'.pc \notin {"reset", "edits"}
  BY UnderWay
<1>2. g \in Nat /\ task.g \in Nat /\ g <= NumGuns /\ NumGuns \in Nat
  BY TaskFields, Constants DEF Guns
<1>3. seen' = seen /\ cfgv' = cfgv /\ (Running' <=> Running)
  BY <1>1 DEF Running
<1>4. /\ Unsettled(g)' <=> Unsettled(g)
      /\ Doubt(g)' <=> Doubt(g)
      /\ EditsAgree(g)'
  BY <1>1 DEF Unsettled, Doubt, EditsAgree, RoundPCs
<1>5. task.g = g => ~Passed(g)
  BY <1>1, <1>2 DEF Passed, RoundPCs
<1>6. ASSUME task' = NextGun PROVE ~Busy(g)' /\ (g # task.g => (Passed(g)' => Passed(g)))
  <2>1. IF task.g = NumGuns THEN task'.pc = "wait" /\ task'.g = 1
        ELSE task'.pc = "head" /\ task'.g = task.g + 1
    BY <1>6, NextGunTyped
  <2>2. CASE task.g = NumGuns
    <3>1. g # task.g => g < task.g
      BY <1>2, <2>2
    <3>2. QED
      BY <1>1, <2>1, <2>2, <3>1 DEF Busy, Passed, RoundPCs
  <2>3. CASE task.g # NumGuns
    <3>1. g # task.g /\ g < task.g + 1 => g < task.g
      BY <1>2
    <3>2. QED
      BY <1>1, <2>1, <2>3, <3>1 DEF Busy, Passed, RoundPCs
  <2>4. QED
    BY <2>2, <2>3
<1>7. ASSUME task'.g = task.g, task'.pc \in RoundPCs \ {"head"}
      PROVE  /\ Passed(g)' <=> Passed(g)
             /\ Busy(g)' <=> task.g = g
  BY <1>1, <1>7 DEF Passed, Busy, RoundPCs
<1>8. QED
  BY <1>3, <1>4, <1>5, <1>6, <1>7 DEF HeadOpen

LEMMA OthersGated ==
    ASSUME Types, Task, task.pc \notin {"wait", "reset"}, ~CheckEdit, NEW g \in Guns, g # task.g, Gated(g)
    PROVE  Gated(g)'
<1>1. task'.gate = task.gate /\ (task' = NextGun \/ (task'.g = task.g /\ task'.pc \in RoundPCs \ {"head"}))
  BY UnderWay
<1>2. /\ gun'[g] = gun[g] /\ ring'[g] = ring[g] /\ linePaused'[g] = linePaused[g]
  BY OtherGuns
<1>3. /\ seen' = seen /\ (Unsettled(g)' <=> Unsettled(g)) /\ (Doubt(g)' <=> Doubt(g)) /\ EditsAgree(g)'
      /\ (HeadOpen(g)' <=> HeadOpen(g)) /\ ~Busy(g)' /\ (Passed(g)' => Passed(g))
  BY <1>1, <1>2, RoundKeeps
<1>4. ~Busy(g)
  BY DEF Busy
<1>5. LineHasSheet(g)' /\ PausedShut(g)' /\ PassedShut(g)' /\ OneOpenSheet(g)'
  BY <1>1, <1>2, <1>3, <1>4
     DEF Gated, LineHasSheet, PausedShut, PassedShut, OneOpenSheet, SheetOpen
<1>6. QED
  BY <1>3, <1>5 DEF Gated

\* ... as long as it stays there, ...
LEMMA StaysGated ==
    ASSUME Types, Task, task.pc \notin {"wait", "reset"}, ~CheckEdit, NEW g \in Guns, g = task.g,
           task'.g = g, task'.pc \in RoundPCs \ {"head"},
           gun'[g].kind = "line" =>
              (/\ Type(seen, g) = "lines"
               /\ task'.peek.open \/ (task'.pc \in {"watch", "advance"} /\ task'.act = "open"))
              \/ Doubt(g),
           gun'[g].kind = "line" /\ linePaused'[g] => Doubt(g) \/ task'.pc = "watch",
           OneOpenSheet(g)', Mirrored(g)', ActsRight(g)'
    PROVE  Gated(g)'
<1>1. /\ seen' = seen /\ (Doubt(g)' <=> Doubt(g)) /\ EditsAgree(g)' /\ ~Passed(g)' /\ Busy(g)'
  BY RoundKeeps
<1>2. LineHasSheet(g)'
  BY <1>1 DEF LineHasSheet, SheetOpen
<1>3. PausedShut(g)' /\ PassedShut(g)'
  BY <1>1 DEF PausedShut, PassedShut
<1>4. QED
  BY <1>1, <1>2, <1>3 DEF Gated

\* ... and when it is done with it.
LEMMA LeavesGated ==
    ASSUME Types, Task, task.pc \notin {"wait", "reset"}, ~CheckEdit, NEW g \in Guns, g = task.g,
           task' = NextGun,
           gun'[g].kind = "line" => (Type(seen, g) = "lines" /\ HeadOpen(g)') \/ Doubt(g),
           gun'[g].kind = "line" /\ linePaused'[g] => Doubt(g),
           task.gate = "slow" => gun'[g].kind # "line",
           OneOpenSheet(g)'
    PROVE  Gated(g)'
<1>1. /\ seen' = seen /\ (Doubt(g)' <=> Doubt(g)) /\ EditsAgree(g)' /\ ~Busy(g)' /\ task'.gate = task.gate
  BY RoundKeeps, UnderWay
<1>2. LineHasSheet(g)' /\ PausedShut(g)' /\ PassedShut(g)'
  BY <1>1 DEF LineHasSheet, SheetOpen, PausedShut, PassedShut
<1>3. QED
  BY <1>1, <1>2 DEF Gated

LEMMA SheetsKept ==
    ASSUME Types, Task, task.pc \notin {"wait", "reset"}, ~CheckEdit, NEW g \in Guns, g = task.g,
           ring'[g] = ring[g], Gated(g)
    PROVE  /\ OneOpenSheet(g)'
           /\ Mirrored(g) /\ (task.pc # "due" \/ task.peek.open) =>
                 /\ ring[g] # <<>> /\ Head(ring[g]) = task.peek
                 /\ HeadOpen(g)' <=> task.peek.open
                 /\ task'.peek = task.peek => Mirrored(g)'
<1>1. seen' = seen /\ (Unsettled(g)' <=> Unsettled(g))
  BY RoundKeeps
<1>2. OneOpenSheet(g)'
  BY <1>1 DEF Gated, OneOpenSheet
<1>3. QED
  BY <1>2 DEF Mirrored, HeadOpen

\* The steps up to the moment an event is performed.
LEMMA LookGated ==
    ASSUME Types, LinesKnown, NEW g \in Guns, g = task.g, Gated(g),
           HeadSheet \/ HeadNone \/ SheetDone \/ NotDue
    PROVE  Gated(g)'
<1>0. /\ task \in Tasks /\ ring \in [Guns -> Seq(Sheets)] /\ Task
      /\ task.pc \in {"head", "event"} /\ ~CheckEdit
  BY TaskFields DEF Types, RingTypes, Task, HeadSheet, HeadNone, SheetDone, NotDue, CheckEdit, At
<1>1. CASE HeadSheet
  <2>1. /\ task'.pc = "event" /\ task'.g = g /\ task'.peek = Head(ring[g])
        /\ UNCHANGED <<gun, ring, linePaused>> /\ ring[g] # <<>> /\ task.pc = "head"
    BY <1>0, <1>1 DEF HeadSheet, Tasks, At, lineVars
  <2>2. OneOpenSheet(g)'
    BY <1>0, <2>1, SheetsKept
  <2>3. Mirrored(g)' /\ ActsRight(g)'
    BY <2>1 DEF Mirrored, ActsRight, Firing
  <2>4. ~Busy(g)
    BY <2>1 DEF Busy
  <2>5. gun'[g].kind = "line" => (Type(seen, g) = "lines" /\ task'.peek.open) \/ Doubt(g)
    BY <2>1, <2>4 DEF Gated, LineHasSheet, SheetOpen, HeadOpen
  <2>6. gun'[g].kind = "line" /\ linePaused'[g] => Doubt(g)
    BY <2>1, <2>4 DEF Gated, PausedShut
  <2>7. QED
    BY <1>0, <2>1, <2>2, <2>3, <2>5, <2>6, StaysGated DEF RoundPCs
<1>2. CASE HeadNone
  <2>1. task' = NextGun /\ ring' = ring /\ CloseLine(g) /\ task.pc = "head"
    BY <1>2 DEF HeadNone, EndLine, At
  <2>2. gun'[g].kind # "line"
    BY <2>1, LineCloses
  <2>3. OneOpenSheet(g)'
    BY <1>0, <2>1, SheetsKept
  <2>4. QED
    BY <1>0, <2>1, <2>2, <2>3, LeavesGated
<1>3. CASE NotDue
  <2>1. /\ task'.pc = "due" /\ task'.g = g /\ task'.peek = task.peek
        /\ UNCHANGED <<gun, ring, linePaused>> /\ task.pc = "event"
    BY <1>0, <1>3 DEF NotDue, Tasks, At, lineVars
  <2>2. Busy(g)
    BY <2>1 DEF Busy
  <2>3. OneOpenSheet(g)' /\ Mirrored(g)'
    BY <1>0, <2>1, <2>2, SheetsKept DEF Gated
  <2>4. ActsRight(g)'
    BY <2>1 DEF ActsRight, Firing
  <2>5. gun'[g].kind = "line" => (Type(seen, g) = "lines" /\ task'.peek.open) \/ Doubt(g)
    BY <2>1, <2>2 DEF Gated, LineHasSheet, SheetOpen
  <2>6. gun'[g].kind = "line" /\ linePaused'[g] => Doubt(g)
    BY <2>1, <2>2 DEF Gated, PausedShut
  <2>7. QED
    BY <1>0, <2>1, <2>3, <2>4, <2>5, <2>6, StaysGated DEF RoundPCs
<1>4. CASE SheetDone
  <2> DEFINE rest == Popped(g)
             h == Head(rest)
  <2>1. /\ task.pc = "event" /\ Busy(g)
        /\ IF rest = <<>> THEN task' = [task EXCEPT !.pc = "due", !.peek = NoSheet]
                          ELSE task' = [task EXCEPT !.peek = h]
        /\ ring' = [ring EXCEPT ![g] = rest]
    BY <1>4 DEF SheetDone, At, Busy
  <2>2. Mirrored(g) /\ ring[g] # <<>> /\ Head(ring[g]) = task.peek /\ rest = Tail(ring[g])
    BY <2>1 DEF Gated, Mirrored, Popped
  <2>3. ring'[g] = rest
    BY <1>0, <2>1
  <2>4. gun'[g].kind = "line" => Doubt(g)
    <3>1. CASE task.peek.open
      <4>1. CloseLine(g)
        BY <1>4, <3>1 DEF SheetDone, EndLine
      <4>2. QED
        BY <2>1, <4>1, LineCloses
    <3>2. CASE ~task.peek.open
      <4>1. gun' = gun
        BY <1>4, <3>2 DEF SheetDone
      <4>2. ~SheetOpen(g)
        BY <2>1, <3>2 DEF SheetOpen
      <4>3. QED
        BY <4>1, <4>2 DEF Gated, LineHasSheet
    <3>3. QED
      BY <3>1, <3>2
  <2>5. /\ rest \in Seq(Sheets) /\ Len(rest) \in Nat /\ DOMAIN rest = 1 .. Len(rest)
        /\ \A i \in DOMAIN rest : rest[i] = ring[g][i + 1] /\ i + 1 \in DOMAIN ring[g]
    BY <1>0, <2>2, HeadTyped DEF Types, RingTypes
  <2>6. \A i \in DOMAIN rest : ~rest[i].open
    <3>1. \A i \in DOMAIN ring[g] : ring[g][i].open => i = 1
      BY DEF Gated, OneOpenSheet
    <3>2. \A i \in DOMAIN rest : i + 1 # 1
      BY <2>5
    <3> HIDE DEF rest
    <3>3. QED
      BY <2>5, <3>1, <3>2
  <2> HIDE DEF h, rest
  <2>7. OneOpenSheet(g)'
    BY <2>3, <2>6 DEF OneOpenSheet
  <2>8. /\ task'.g = g /\ task'.pc \in {"due", "event"}
        /\ IF rest = <<>> THEN task'.pc = "due" /\ task'.peek = NoSheet
           ELSE task'.pc = "event" /\ task'.peek = h
    BY <1>0, <2>1 DEF Tasks
  <2>9. Mirrored(g)'
    <3>1. ~NoSheet.open
      BY DEF NoSheet
    <3>2. CASE rest = <<>>
      BY <2>3, <2>6, <2>8, <3>1, <3>2 DEF Mirrored
    <3>3. CASE rest # <<>>
      BY <2>3, <2>8, <3>3 DEF Mirrored, h
    <3>4. QED
      BY <3>2, <3>3
  <2>10. ActsRight(g)'
    BY <2>8 DEF ActsRight, Firing
  <2>11. QED
    BY <1>0, <2>4, <2>7, <2>8, <2>9, <2>10, StaysGated DEF RoundPCs
<1>5. QED
  BY <1>1, <1>2, <1>3, <1>4

\* An event of the published pattern is one of the pattern seen, unless that is edited.
LEMMA EventOfSeen ==
    ASSUME Types, NEW g \in Guns, ~NothingLeft(cfgv, g, task.peek), task.pc # "edits"
    PROVE  LET a == NextAction(cfgv, g, task.peek) IN
           /\ a = "dot" => Type(seen, g) = "dots" \/ (Unsettled(g) /\ Type(cfgv, g) = "dots")
           /\ a = "open" => /\ ~task.peek.open
                            /\ (Type(seen, g) = "lines" /\ task.peek.elem <= Len(Elems(seen, g))) \/ Unsettled(g)
<1>1. Type(cfgv, g) \in {"none", "lines", "dots"} /\ Len(Elems(cfgv, g)) \in Nat /\ task.peek.elem \in Nat
  BY TaskFields, Geometry DEF Sheets
<1>2. Type(cfgv, g) # "none" /\ task.peek.elem <= Len(Elems(cfgv, g))
  BY <1>1 DEF NothingLeft
<1>3. Unsettled(g) \/ Shape[cfgv][g] = Shape[seen][g]
  BY DEF Unsettled
<1>4. Unsettled(g) \/ (Type(seen, g) = Type(cfgv, g) /\ Elems(seen, g) = Elems(cfgv, g))
  BY <1>3 DEF Type, Elems
<1>5. QED
  BY <1>1, <1>2, <1>4 DEF NextAction

\* An event is performed.
LEMMA EventGated ==
    ASSUME Types, LinesKnown, NEW g \in Guns, g = task.g, Gated(g),
           DropDue("dot") \/ DropDue("open") \/ LineTooSlow \/ LineEndDue
    PROVE  Gated(g)'
<1>0. /\ task \in Tasks /\ Task /\ task.pc = "event" /\ ~CheckEdit /\ ring' = ring
      /\ ~NothingLeft(cfgv, g, task.peek)
  BY TaskFields DEF Task, DropDue, LineTooSlow, LineEndDue, EventDue, CheckEdit, At
<1>1. /\ Busy(g) /\ Mirrored(g) /\ ActsRight(g)
      /\ gun[g].kind = "line" => (Type(seen, g) = "lines" /\ task.peek.open) \/ Doubt(g)
      /\ gun[g].kind = "line" /\ linePaused[g] => Doubt(g)
  BY <1>0 DEF Busy, Gated, LineHasSheet, SheetOpen, PausedShut
<1>2. OneOpenSheet(g)' /\ (task'.peek = task.peek => Mirrored(g)')
  BY <1>0, <1>1, SheetsKept
<1>3. /\ seen' = seen /\ cfgv' = cfgv
      /\ Unsettled(g)' <=> Unsettled(g)
      /\ task'.gate = task.gate
  BY <1>0, RoundKeeps, UnderWay
<1>4. ASSUME NEW a \in {"dot", "open"}, DropDue(a) PROVE Gated(g)'
  <2>1. /\ task'.pc = "fire" /\ task'.g = g /\ task'.peek = task.peek /\ task'.act = a
        /\ UNCHANGED <<gun, linePaused>> /\ NextAction(cfgv, g, task.peek) = a
        /\ a = "open" => task.gate # "slow"
    BY <1>0, <1>4 DEF DropDue, EventDue, Tasks, lineVars
  <2>2. ActsRight(g)'
    BY <1>0, <1>3, <2>1, EventOfSeen DEF ActsRight, Firing
  <2>3. QED
    BY <1>0, <1>1, <1>2, <2>1, <2>2, StaysGated DEF RoundPCs
<1>5. CASE LineTooSlow
  <2>1. /\ task'.pc = "advance" /\ task'.g = g /\ task'.peek = task.peek /\ task'.act = "open"
        /\ gun' = gun /\ NextAction(cfgv, g, task.peek) = "open" /\ task.gate = "slow"
    BY <1>0, <1>5 DEF LineTooSlow, EventDue, Tasks
  <2>2. gun[g].kind # "line"
    <3>1. ~task.peek.open /\ ~Doubt(g)
      BY <1>0, <2>1, EventOfSeen DEF Doubt
    <3>2. QED
      BY <1>1, <3>1
  <2>3. ActsRight(g)'
    BY <1>0, <1>3, <2>1, <2>2, EventOfSeen DEF ActsRight, Firing
  <2>4. QED
    BY <1>0, <1>2, <2>1, <2>2, <2>3, StaysGated DEF RoundPCs
<1>6. CASE LineEndDue
  <2>1. /\ task'.pc = "advance" /\ task'.g = g /\ task'.peek = task.peek /\ task'.act = "close"
        /\ CloseLine(g)
    BY <1>0, <1>6 DEF LineEndDue, EndLine, Tasks
  <2>2. gun'[g].kind # "line"
    BY <1>0, <2>1, LineCloses
  <2>3. ActsRight(g)'
    BY <2>1, <2>2 DEF ActsRight, Firing
  <2>4. QED
    BY <1>0, <1>2, <2>1, <2>2, <2>3, StaysGated DEF RoundPCs
<1>7. QED
  BY <1>4, <1>5, <1>6

\* fire() succeeds or not, and the end of the line is watched.
LEMMA FireGated ==
    ASSUME Types, LinesKnown, NEW g \in Guns, g = task.g, Gated(g),
           FireBegin \/ FireOpens \/ FireRefused \/ WatchLineEnd
    PROVE  Gated(g)'
<1>0. /\ task \in Tasks /\ Task /\ task.pc \in {"fire", "firing", "watch"} /\ ~CheckEdit /\ ring' = ring
      /\ gun \in [Guns -> GunStates] /\ linePaused \in [Guns -> BOOLEAN] /\ Firing
  BY TaskFields DEF Task, FireBegin, FireOpens, FireRefused, WatchLineEnd, CheckEdit, At, Firing,
                    Types, GunTypes
<1>1. /\ Busy(g) /\ Mirrored(g) /\ ActsRight(g)
      /\ gun[g].kind = "line" =>
            (/\ Type(seen, g) = "lines"
             /\ task.peek.open \/ (task.pc = "watch" /\ task.act = "open"))
            \/ Doubt(g)
      /\ gun[g].kind = "line" /\ linePaused[g] => Doubt(g) \/ task.pc = "watch"
  BY <1>0 DEF Busy, Gated, LineHasSheet, SheetOpen, PausedShut
<1>2. /\ OneOpenSheet(g)' /\ (task'.peek = task.peek => Mirrored(g)')
      /\ HeadOpen(g)' <=> task.peek.open
      /\ ring[g] # <<>> /\ Head(ring[g]) = task.peek
  BY <1>0, <1>1, SheetsKept
<1>3. /\ seen' = seen /\ cfgv' = cfgv
      /\ Unsettled(g)' <=> Unsettled(g)
      /\ task'.gate = task.gate
  BY <1>0, RoundKeeps, UnderWay
<1>4. ASSUME NotOpened, task.pc \in {"fire", "firing"}, gun'[g].kind = gun[g].kind PROVE Gated(g)'
  <2>1. CASE task.act = "resume"
    <3>1. task' = NextGun /\ linePaused' = linePaused /\ task.gate # "slow"
      BY <1>0, <1>1, <1>4, <2>1 DEF NotOpened, ActsRight
    <3>2. QED
      BY <1>0, <1>1, <1>2, <1>4, <2>1, <3>1, LeavesGated
  <2>2. CASE task.act # "resume"
    <3>1. /\ task'.pc = "advance" /\ task'.g = g /\ task'.peek = task.peek /\ task'.act = task.act
      BY <1>0, <1>4, <2>2 DEF NotOpened, Tasks
    <3>2. task.act \in {"dot", "open"}
      BY <1>0, <1>1, <2>2 DEF ActsRight
    <3>3. ActsRight(g)'
      BY <1>0, <1>1, <1>3, <3>1, <3>2 DEF ActsRight, Firing
    <3>4. gun'[g].kind = "line" => (Type(seen, g) = "lines" /\ task'.peek.open) \/ Doubt(g)
      BY <1>1, <1>4, <3>1
    <3>5. gun'[g].kind = "line" /\ linePaused'[g] => Doubt(g)
      <4>1. CASE task.act = "open"
        <5>1. ~task.peek.open
          BY <1>0, <1>1, <4>1 DEF ActsRight
        <5>2. QED
          BY <3>1, <3>4, <5>1
      <4>2. CASE task.act = "dot"
        <5>1. linePaused' = linePaused
          BY <1>4, <4>2 DEF NotOpened
        <5>2. QED
          BY <1>1, <1>4, <5>1
      <4>3. QED
        BY <3>2, <4>1, <4>2
    <3>6. QED
      BY <1>0, <1>2, <3>1, <3>3, <3>4, <3>5, StaysGated DEF RoundPCs
  <2>3. QED
    BY <2>1, <2>2
<1>5. CASE FireBegin
  <2>1. gun'[g].kind = gun[g].kind
    BY <1>0, <1>5 DEF FireBegin, GunStates
  <2>2. CASE NotOpened
    BY <1>4, <1>5, <2>1, <2>2 DEF FireBegin, At
  <2>3. CASE task' = [task EXCEPT !.pc = "firing"] /\ UNCHANGED linePaused
    <3>1. /\ task'.pc = "firing" /\ task'.g = g /\ task'.peek = task.peek /\ task'.act = task.act
          /\ task.pc = "fire"
      BY <1>0, <1>5, <2>3 DEF Tasks, FireBegin, At
    <3>2. ActsRight(g)'
      BY <1>0, <1>1, <1>3, <3>1 DEF ActsRight, Firing
    <3>3. QED
      BY <1>0, <1>1, <1>2, <2>1, <2>3, <3>1, <3>2, StaysGated DEF RoundPCs
  <2>4. QED
    BY <1>5, <2>2, <2>3 DEF FireBegin
<1>6. CASE FireRefused
  <2>1. gun'[g].kind = gun[g].kind
    BY <1>0, <1>6 DEF FireRefused, GunStates
  <2>2. QED
    BY <1>4, <1>6, <2>1 DEF FireRefused, At
<1>7. CASE FireOpens
  <2> DEFINE d == FreshDrop(g)
  <2>1. /\ gun'[g] = Opened(d, IF task.act = "dot" THEN "dot" ELSE "line")
        /\ task' = IF task.act = "dot" THEN [task EXCEPT !.pc = "advance"]
                   ELSE [task EXCEPT !.pc = "watch", !.drop = d]
        /\ task.pc = "firing"
    BY <1>0, <1>7 DEF FireOpens, At
  <2>2. gun'[g].kind = IF task.act = "dot" THEN "dot" ELSE "line"
    BY <2>1 DEF Opened
  <2> HIDE DEF d
  <2>3. CASE task.act = "dot"
    <3>1. /\ task'.pc = "advance" /\ task'.g = g /\ task'.peek = task.peek /\ task'.act = "dot"
      BY <1>0, <2>1, <2>3 DEF Tasks
    <3>2. ActsRight(g)'
      BY <1>0, <1>1, <1>3, <2>3, <3>1 DEF ActsRight, Firing
    <3>3. QED
      BY <1>0, <1>2, <2>2, <2>3, <3>1, <3>2, StaysGated DEF RoundPCs
  <2>4. CASE task.act # "dot"
    <3>1. /\ task'.pc = "watch" /\ task'.g = g /\ task'.peek = task.peek /\ task'.act = task.act
      BY <1>0, <2>1, <2>4 DEF Tasks
    <3>2. ActsRight(g)'
      BY <1>0, <1>1, <1>3, <2>4, <3>1 DEF ActsRight, Firing
    <3>3. task.act \in {"open", "resume"} /\ task.gate # "slow"
      BY <1>0, <1>1, <2>4 DEF ActsRight
    <3>4. (/\ Type(seen, g) = "lines"
           /\ task'.peek.open \/ (task'.pc \in {"watch", "advance"} /\ task'.act = "open"))
          \/ Doubt(g)
      <4>1. CASE task.act = "open"
        <5>1. (Type(seen, g) = "lines") \/ Unsettled(g)
          BY <1>0, <1>1, <4>1 DEF ActsRight
        <5>2. QED
          BY <3>1, <3>3, <4>1, <5>1 DEF Doubt
      <4>2. CASE task.act = "resume"
        <5>1. task.peek.open
          BY <1>0, <1>1, <4>2 DEF ActsRight
        <5>2. ring[g] \in Seq(Sheets)
          BY DEF Types, RingTypes
        <5>3. 1 \in DOMAIN ring[g] /\ ring[g][1].open
          BY <1>2, <5>1, <5>2
        <5>4. Type(seen, g) = "lines" \/ Unsettled(g)
          BY <5>3 DEF Gated, OneOpenSheet
        <5>5. QED
          BY <3>1, <3>3, <5>1, <5>4 DEF Doubt
      <4>3. QED
        BY <3>3, <4>1, <4>2
    <3>5. QED
      BY <1>0, <1>2, <3>1, <3>2, <3>4, StaysGated DEF RoundPCs
  <2>5. QED
    BY <2>3, <2>4
<1>8. CASE WatchLineEnd
  <2>1. gun'[g].kind = gun[g].kind
    <3>1. PICK l : gun' = gun \/ gun' = [gun EXCEPT ![g].left = l]
      BY <1>8 DEF WatchLineEnd
    <3>2. QED
      BY <1>0, <3>1 DEF GunStates
  <2>2. /\ ~linePaused'[g] /\ task.pc = "watch"
        /\ task' = IF task.act = "resume" THEN NextGun ELSE [task EXCEPT !.pc = "advance", !.drop = 0]
    BY <1>0, <1>8 DEF WatchLineEnd, PausedNoMore, At
  <2>3. task.act \in {"open", "resume"} /\ task.gate # "slow"
    BY <1>0, <1>1, <2>2 DEF ActsRight
  <2>4. CASE task.act = "resume"
    BY <1>0, <1>1, <1>2, <2>1, <2>2, <2>3, <2>4, LeavesGated
  <2>5. CASE task.act = "open"
    <3>1. /\ task'.pc = "advance" /\ task'.g = g /\ task'.peek = task.peek /\ task'.act = "open"
      BY <1>0, <2>2, <2>5 DEF Tasks
    <3>2. ActsRight(g)'
      BY <1>0, <1>1, <1>3, <2>3, <2>5, <3>1 DEF ActsRight, Firing
    <3>3. QED
      BY <1>0, <1>1, <1>2, <2>1, <2>2, <2>5, <3>1, <3>2, StaysGated DEF RoundPCs
  <2>6. QED
    BY <2>3, <2>4, <2>5
<1>9. QED
  BY <1>5, <1>6, <1>7, <1>8

\* The sheet moves on, which is where a sheet takes over the line that it opened.
LEMMA AdvanceGated ==
    ASSUME Types, LinesKnown, NEW g \in Guns, g = task.g, Gated(g), Advance
    PROVE  Gated(g)'
<1> DEFINE s == Advanced(cfgv, g, task.peek)
<1>0. /\ task \in Tasks /\ Task /\ task.pc = "advance" /\ ~CheckEdit /\ gun' = gun /\ linePaused' = linePaused
      /\ ring \in [Guns -> Seq(Sheets)] /\ task.peek \in Sheets /\ cfgv \in Versions
      /\ task' = [task EXCEPT !.pc = "event", !.peek = s, !.act = "none"]
      /\ ring' = WriteBack(g, s)
  BY TaskFields DEF Task, Advance, CheckEdit, At, Types, RingTypes, lineVars
<1>1. /\ Busy(g) /\ Mirrored(g) /\ ActsRight(g)
      /\ gun[g].kind = "line" =>
            (Type(seen, g) = "lines" /\ (task.peek.open \/ task.act = "open")) \/ Doubt(g)
      /\ gun[g].kind = "line" /\ linePaused[g] => Doubt(g)
  BY <1>0 DEF Busy, Gated, LineHasSheet, SheetOpen, PausedShut
<1>2. /\ seen' = seen /\ cfgv' = cfgv
      /\ Unsettled(g)' <=> Unsettled(g)
      /\ ring[g] # <<>> /\ Head(ring[g]) = task.peek
  BY <1>0, <1>1, RoundKeeps DEF Mirrored
<1>3. task.peek.elem # 0 /\ s \in Sheets
  BY <1>0, AdvancedTyped, TaskFields DEF HasPeek
<1>4. /\ Type(cfgv, g) \in {"none", "lines", "dots"} /\ Len(Elems(cfgv, g)) \in Nat /\ task.peek.elem \in Nat
      /\ task.act \in {"dot", "open", "close"}
  BY <1>0, <1>1, Geometry DEF Sheets, ActsRight
<1>5. /\ Type(cfgv, g) # "lines" \/ task.peek.elem > Len(Elems(cfgv, g)) => (s.open <=> task.peek.open)
      /\ Type(cfgv, g) = "lines" /\ task.peek.elem <= Len(Elems(cfgv, g)) => (s.open <=> task.act = "open")
  <2> DEFINE k == task.peek
  <2>0. k \in Sheets
    BY <1>0
  <2>1. CASE k.elem > Len(Elems(cfgv, g))
    BY <1>4, <2>1 DEF Advanced
  <2>2. CASE k.elem <= Len(Elems(cfgv, g)) /\ Type(cfgv, g) = "lines"
    <3>1. s = IF task.act = "open" THEN [k EXCEPT !.open = TRUE]
              ELSE [k EXCEPT !.open = FALSE, !.elem = k.elem + 1]
      BY <1>4, <2>2 DEF Advanced
    <3> HIDE DEF s, k
    <3>2. s.open <=> task.act = "open"
      BY <2>0, <3>1 DEF Sheets
    <3>3. QED
      BY <2>2, <3>2, <1>4 DEF k
  <2>3. CASE k.elem <= Len(Elems(cfgv, g)) /\ Type(cfgv, g) # "lines"
    <3> DEFINE next == [k EXCEPT !.dot = k.dot + 1]
    <3>1. s = NextElem(k) \/ s = next
      <4>1. ~(k.elem > Len(Elems(cfgv, g)))
        BY <1>4, <2>3
      <4>2. QED
        BY <2>3, <4>1 DEF Advanced
    <3>2. NextElem(k) = [k EXCEPT !.elem = k.elem + 1, !.dot = 0]
      BY DEF NextElem
    <3> HIDE DEF s, k
    <3>3. s.open <=> k.open
      BY <2>0, <3>1, <3>2 DEF Sheets
    <3>4. QED
      BY <2>3, <3>3 DEF k
  <2>4. QED
    BY <1>4, <2>1, <2>2, <2>3
<1> HIDE DEF s
<1>6. task'.pc = "event" /\ task'.g = g /\ task'.peek = s
  BY <1>0 DEF Tasks
<1>7. /\ ring'[g] # <<>> /\ Head(ring'[g]) = s /\ DOMAIN ring'[g] = DOMAIN ring[g]
      /\ \A i \in DOMAIN ring[g] : ring'[g][i] = IF i = 1 THEN s ELSE ring[g][i]
  <2>1. ring' = [ring EXCEPT ![g][1] = s]
    BY <1>0, <1>2 DEF WriteBack
  <2>2. ring[g] \in Seq(Sheets) /\ ring'[g] = [ring[g] EXCEPT ![1] = s]
    BY <1>0, <2>1
  <2>3. QED
    BY <1>2, <1>3, <2>2
<1>8. Mirrored(g)' /\ ActsRight(g)'
  BY <1>6, <1>7 DEF Mirrored, ActsRight, Firing
<1>9. Unsettled(g) \/ (Type(cfgv, g) = Type(seen, g) /\ Elems(cfgv, g) = Elems(seen, g))
  BY <1>0 DEF Unsettled, Type, Elems
<1>10. OneOpenSheet(g)'
  <2>1. OneOpenSheet(g)
    BY DEF Gated
  <2>2. s.open => Type(seen, g) = "lines" \/ Unsettled(g)
    <3>1. s.open => task.peek.open \/ Type(cfgv, g) = "lines"
      BY <1>4, <1>5
    <3>2. task.peek.open => Type(seen, g) = "lines" \/ Unsettled(g)
      <4>1. ring[g] \in Seq(Sheets)
        BY <1>0
      <4>2. 1 \in DOMAIN ring[g] /\ ring[g][1] = task.peek
        BY <1>2, <4>1
      <4>3. QED
        BY <2>1, <4>2 DEF OneOpenSheet
    <3>3. QED
      BY <1>9, <3>1, <3>2
  <2>3. QED
    BY <1>2, <1>7, <2>1, <2>2 DEF OneOpenSheet
<1>11. gun[g].kind = "line" => (Type(seen, g) = "lines" /\ s.open) \/ Doubt(g)
  <2> SUFFICES ASSUME gun[g].kind = "line", ~Doubt(g) PROVE Type(seen, g) = "lines" /\ s.open
    OBVIOUS
  <2>1. Type(seen, g) = "lines" /\ (task.peek.open \/ task.act = "open") /\ task.act # "close"
    BY <1>0, <1>1 DEF ActsRight
  <2>2. CASE task.act = "open"
    <3>1. task.gate # "slow" /\ ~Unsettled(g)
      BY <1>0, <1>1, <2>2 DEF ActsRight, Doubt
    <3>2. task.peek.elem <= Len(Elems(seen, g))
      BY <1>0, <1>1, <2>2, <3>1 DEF ActsRight
    <3>3. QED
      BY <1>5, <1>9, <2>1, <2>2, <3>1, <3>2
  <2>3. CASE task.act = "dot"
    <3>1. Type(cfgv, g) = "dots"
      BY <1>0, <1>1, <2>1, <2>3 DEF ActsRight
    <3>2. QED
      BY <1>5, <2>1, <2>3, <3>1
  <2>4. QED
    BY <1>4, <2>1, <2>2, <2>3
<1>12. QED
  BY <1>0, <1>1, <1>6, <1>8, <1>10, <1>11, StaysGated DEF RoundPCs

\* The end of a round for one gun.
LEMMA EndGated ==
    ASSUME Types, LinesKnown, NEW g \in Guns, g = task.g, Gated(g),
           WatchDue \/ GateCloses \/ GatePasses
    PROVE  Gated(g)'
<1>0. /\ task \in Tasks /\ Task /\ task.pc \in {"due", "gate"} /\ ~CheckEdit /\ ring' = ring
  BY TaskFields DEF Task, WatchDue, GateCloses, GatePasses, CheckEdit, At
<1>1. /\ Busy(g) /\ Mirrored(g) /\ ActsRight(g)
      /\ gun[g].kind = "line" => (Type(seen, g) = "lines" /\ task.peek.open) \/ Doubt(g)
      /\ gun[g].kind = "line" /\ linePaused[g] => Doubt(g)
      /\ Doubt(g) => task.gate # "slow"
  BY <1>0 DEF Busy, Gated, LineHasSheet, SheetOpen, PausedShut, Doubt
<1>2. /\ OneOpenSheet(g)'
      /\ task.peek.open => HeadOpen(g)' /\ (task'.peek = task.peek => Mirrored(g)')
  BY <1>0, <1>1, SheetsKept
<1>3. CASE WatchDue
  <2>1. UNCHANGED <<gun, linePaused>>
    BY <1>3 DEF WatchDue, lineVars
  <2>2. CASE task.peek.open
    <3>1. /\ task'.pc = "gate" /\ task'.g = g /\ task'.peek = task.peek
      BY <1>0, <1>3, <2>2 DEF WatchDue, Tasks
    <3>2. ActsRight(g)'
      BY <2>2, <3>1 DEF ActsRight, Firing
    <3>3. QED
      BY <1>0, <1>1, <1>2, <2>1, <2>2, <3>1, <3>2, StaysGated DEF RoundPCs
  <2>3. CASE ~task.peek.open
    <3>1. task' = NextGun
      BY <1>3, <2>3 DEF WatchDue
    <3>2. gun'[g].kind = "line" => Doubt(g)
      BY <1>1, <2>1, <2>3
    <3>3. QED
      BY <1>0, <1>1, <1>2, <3>1, <3>2, LeavesGated
  <2>4. QED
    BY <2>2, <2>3
<1>4. CASE GateCloses
  <2>1. task' = NextGun /\ task.gate = "slow" /\ task.pc = "gate"
    BY <1>4 DEF GateCloses, At
  <2>2. gun'[g].kind # "line"
    <3>1. CASE linePaused[g]
      BY <1>1, <1>4, <2>1, <3>1 DEF GateCloses
    <3>2. CASE ~linePaused[g]
      BY <1>4, <2>1, <3>2, LineCloses DEF GateCloses
    <3>3. QED
      BY <3>1, <3>2
  <2>3. QED
    BY <1>0, <1>2, <2>1, <2>2, LeavesGated
<1>5. CASE GatePasses
  <2>1. UNCHANGED <<gun, linePaused>> /\ task.pc = "gate" /\ task.gate # "slow"
    BY <1>5 DEF GatePasses, At, lineVars
  <2>2. task.peek.open
    BY <1>1, <2>1 DEF ActsRight
  <2>3. CASE task' = NextGun
    BY <1>0, <1>1, <1>2, <2>1, <2>2, <2>3, LeavesGated
  <2>4. CASE task' = [task EXCEPT !.pc = "fire", !.act = "resume"]
    <3>1. /\ task'.pc = "fire" /\ task'.g = g /\ task'.peek = task.peek /\ task'.act = "resume"
          /\ task'.gate = task.gate
      BY <1>0, <2>4 DEF Tasks
    <3>2. ActsRight(g)'
      BY <2>1, <2>2, <3>1 DEF ActsRight, Firing
    <3>3. QED
      BY <1>0, <1>1, <1>2, <2>1, <2>2, <3>1, <3>2, StaysGated DEF RoundPCs
  <2>5. QED
    BY <1>5, <2>3, <2>4 DEF GatePasses
<1>6. QED
  BY <1>3, <1>4, <1>5

LEMMA AllGatedStep ==
    ~Bursts /\ Types /\ LinesKnown /\ Halted /\ Orderly /\ ConfigSeen /\ AllGated /\ [Next]_vars
       => AllGated'
<1> SUFFICES ASSUME ~Bursts, Types, LinesKnown, Halted, Orderly, ConfigSeen, AllGated, [Next]_vars
             PROVE  AllGated'
  OBVIOUS
<1>1. CASE UNCHANGED vars
  BY <1>1 DEF vars, cfgVars, lineVars, AllGated, Running, Gated, LineHasSheet, PausedShut, PassedShut,
              Passed, OneOpenSheet, EditsAgree, Busy, Mirrored, ActsRight, SheetOpen, HeadOpen, Doubt,
              Unsettled, Firing
<1>2. CASE Next /\ ~Task
  BY <1>2, WorldGated
<1>3. CASE RoundActive \/ CheckEdit
  BY <1>3, RoundActiveGated, CheckEditGated
<1>4. CASE Task /\ ~RoundActive /\ ~CheckEdit /\ task.pc \in {"wait", "reset"}
  <2>1. ~task'.was
    <3>0. task \in Tasks
      BY TaskFields
    <3>1. CASE RoundStopped /\ task' = [task EXCEPT !.pc = "reset", !.now = enc, !.was = FALSE]
      BY <3>0, <3>1 DEF Tasks
    <3>2. CASE RoundIdle /\ task' = [task EXCEPT !.now = enc]
      BY <3>0, <3>2 DEF Tasks, RoundIdle
    <3>3. CASE StopReset /\ (task' = Waiting \/ task' = [task EXCEPT !.g = task.g + 1])
      <4>1. ~task.was
        BY <3>3 DEF StopReset, At, Halted
      <4>2. QED
        BY <3>0, <3>3, <4>1, NextGunTyped DEF Tasks
    <3>4. QED
      BY <1>4, <3>1, <3>2, <3>3, TaskGoes
  <2>2. QED
    BY <2>1 DEF AllGated, Running
<1>5. CASE Task /\ ~RoundActive /\ ~CheckEdit /\ task.pc \notin {"wait", "reset"}
  <2> SUFFICES ASSUME Running', NEW g \in Guns PROVE Gated(g)'
    BY DEF AllGated
  <2>1. Gated(g)
    BY <1>5, RoundKeeps DEF AllGated
  <2>2. CASE g # task.g
    BY <1>5, <2>1, <2>2, OthersGated
  <2>3. CASE g = task.g
    <3>1. ~RoundIdle /\ ~RoundStopped /\ ~StopReset
      BY <1>5 DEF RoundIdle, RoundStopped, StopReset, At
    <3>2. \/ HeadSheet \/ HeadNone \/ SheetDone \/ NotDue
          \/ DropDue("dot") \/ DropDue("open") \/ LineTooSlow \/ LineEndDue
          \/ FireBegin \/ FireOpens \/ FireRefused \/ WatchLineEnd
          \/ Advance \/ WatchDue \/ GateCloses \/ GatePasses
      BY <1>5, <3>1 DEF Task
    <3>3. QED
      BY <2>1, <2>3, <3>2, LookGated, EventGated, FireGated, AdvanceGated, EndGated
  <2>4. QED
    BY <2>2, <2>3
<1>6. QED
  BY <1>1, <1>2, <1>3, <1>4, <1>5

\* After a round that found the conveyor too slow no line is open, and none after a stop:
\* for any patterns and any edits, as long as commands come one at a time.
THEOREM GateCorrect == ~Bursts => (Spec => []NoLineBehindGate)
<1> SUFFICES ASSUME ~Bursts PROVE Spec => []NoLineBehindGate
  OBVIOUS
<1>1. Halted /\ AllGated => NoLineBehindGate
  <2> SUFFICES ASSUME Halted, AllGated PROVE NoLineBehindGate
    OBVIOUS
  <2>1. NoLineWhenStopped
    BY DEF Halted, NoLineWhenStopped
  <2>2. SlowMeansShut
    BY DEF SlowMeansShut, AllGated, Running, Gated, PassedShut, Passed
  <2>3. QED
    BY <2>1, <2>2 DEF NoLineBehindGate
<1>2. Spec => []Types
  BY TypesStart, TypesStep, PTL DEF Spec
<1>3. Spec => []LinesKnown
  BY <1>2, LinesKnownStart, LinesKnownStep, PTL DEF Spec
<1>4. Spec => []Halted
  BY <1>2, <1>3, HaltedStart, HaltedStep, PTL DEF Spec
<1>5. Types /\ Halted /\ Orderly /\ [Next]_vars => Orderly'
  BY OrderlyStep
<1>6. Spec => []Orderly
  BY <1>2, <1>4, <1>5, OrderlyStart, PTL DEF Spec
<1>7. Spec => []ConfigSeen
  BY <1>2, ConfigSeenStart, ConfigSeenStep, PTL DEF Spec
<1>8. Init => AllGated
  BY DEF Init, AllGated, Running
<1>9. Types /\ LinesKnown /\ Halted /\ Orderly /\ ConfigSeen /\ AllGated /\ [Next]_vars
         => AllGated'
  BY AllGatedStep
<1>10. Spec => []AllGated
  BY <1>2, <1>3, <1>4, <1>6, <1>7, <1>8, <1>9, PTL DEF Spec
<1>11. QED
  BY <1>1, <1>4, <1>10, PTL

----------------------------------------------------------------------------
(* What wakes a task that sleeps.                                          *)

\* Distance of the next event from the leading edge, without the photocell offset.
Place(v, g, s) ==
    CASE NextAction(v, g, s) = "dot"   -> DotAt(v, g, s)
      [] NextAction(v, g, s) = "open"  -> Elems(v, g)[s.elem].start
      [] NextAction(v, g, s) = "close" -> Elems(v, g)[s.elem].end

\* The next event of a sheet s is watched at d, for an offset that was in force.
WatchedAt(v, g, s, armed, d) ==
    /\ armed /\ ~NothingLeft(v, g, s)
    /\ \E o \in Offsets : d = (s.edge + (Place(v, g, s) + o)) % PulseMod

\* The round, or the last one, is done with the events of gun g.
Handled(g) ==
    \/ task.pc = "wait"
    \/ task.pc \in RoundPCs /\ g < task.g
    \/ task.g = g /\ (task.pc = "gate" \/ (Firing /\ task.act = "resume"))
EventWatched(g) ==
    /\ Handled(g) /\ ring[g] # <<>>
          => WatchedAt(cfgv, g, Head(ring[g]), watch[g].dueArmed, watch[g].due)
    /\ Busy(g) /\ ring[g] # <<>>
          => /\ Head(ring[g]) = task.peek
             /\ task.pc = "due" => WatchedAt(cfgv, g, task.peek, task.due, task.pulse)
EventsWatched == task.was /\ ~notified /\ ~edited => \A g \in Guns : EventWatched(g)

\* The offset in force only moves an event.
LEMMA PlaceOf ==
    ASSUME EnvTypes, NEW v \in Versions, NEW g \in Guns, NEW s \in Sheets, s.elem # 0,
           ~NothingLeft(v, g, s)
    PROVE  /\ Place(v, g, s) \in Int /\ s.edge \in Int /\ offs \in Int
           /\ NextAt(v, g, s) = offs + Place(v, g, s)
           /\ EventPulse(v, g, s) = (s.edge + (Place(v, g, s) + offs)) % PulseMod
<1>1. /\ NextAt(v, g, s) \in 0 .. AgeMax /\ NextAction(v, g, s) \in {"dot", "open", "close"}
      /\ s.elem \in 1 .. Len(Elems(v, g))
  BY EventTyped
<1>2. s.edge \in Int /\ offs \in Int /\ s.dot \in Nat
  BY Constants DEF Sheets, EnvTypes, Pulses
<1> DEFINE e == Elems(v, g)[s.elem]
<1>3. e.start \in Nat /\ e.end \in Nat /\ e.spacing \in Nat
  BY <1>1, Geometry
<1>4. DotAt(v, g, s) \in Int
  BY <1>2, <1>3, Products DEF DotAt
<1>5. CASE NextAction(v, g, s) = "dot"
  <2>1. Place(v, g, s) = DotAt(v, g, s) /\ NextAt(v, g, s) = offs + DotAt(v, g, s)
    BY <1>5 DEF Place, NextAt
  <2> DEFINE p == DotAt(v, g, s)
  <2> HIDE DEF p
  <2>2. s.edge + (offs + p) = s.edge + (p + offs)
    BY <1>2, <1>4 DEF p
  <2>3. QED
    BY <1>2, <1>4, <2>1, <2>2 DEF EventPulse, p
<1>6. CASE NextAction(v, g, s) = "open"
  <2>1. Place(v, g, s) = e.start /\ NextAt(v, g, s) = offs + e.start
    BY <1>6 DEF Place, NextAt
  <2> HIDE DEF e
  <2>2. s.edge + (offs + e.start) = s.edge + (e.start + offs)
    BY <1>2, <1>3
  <2>3. QED
    BY <1>2, <1>3, <2>1, <2>2 DEF EventPulse
<1>7. CASE NextAction(v, g, s) = "close"
  <2>1. Place(v, g, s) = e.end /\ NextAt(v, g, s) = offs + e.end
    BY <1>7 DEF Place, NextAt
  <2> HIDE DEF e
  <2>2. s.edge + (offs + e.end) = s.edge + (e.end + offs)
    BY <1>2, <1>3
  <2>3. QED
    BY <1>2, <1>3, <2>1, <2>2 DEF EventPulse
<1>8. QED
  BY <1>1, <1>5, <1>6, <1>7

\* Nor does the age of a sheet matter.
LEMMA AgeIgnored ==
    ASSUME NEW v, NEW g, NEW s \in Sheets, NEW a, NEW d, WatchedAt(v, g, s, a, d)
    PROVE  WatchedAt(v, g, Older(s), a, d)
<1> DEFINE r == Older(s)
<1>1. r.edge = s.edge /\ r.elem = s.elem /\ r.dot = s.dot /\ (r.open <=> s.open)
  BY DEF Older, Sheets
<1> HIDE DEF r
<1>2. NothingLeft(v, g, r) <=> NothingLeft(v, g, s)
  BY <1>1 DEF NothingLeft, DotAt
<1>3. NextAction(v, g, r) = NextAction(v, g, s) /\ DotAt(v, g, r) = DotAt(v, g, s)
  BY <1>1 DEF NextAction, DotAt
<1>4. Place(v, g, r) = Place(v, g, s)
  BY <1>1, <1>3 DEF Place
<1>5. WatchedAt(v, g, r, a, d)
  BY <1>1, <1>2, <1>4 DEF WatchedAt
<1>6. QED
  BY <1>5 DEF r

LEMMA WorldWatches == Types /\ EventsWatched /\ Next /\ ~Task => EventsWatched'
<1> SUFFICES ASSUME Types, EventsWatched, Next, ~Task, task'.was, ~notified', ~edited', NEW g \in Guns
             PROVE  EventWatched(g)'
  BY DEF EventsWatched
<1>1. /\ task'.pc = task.pc /\ task'.g = task.g /\ (task'.was <=> task.was) /\ task'.act = task.act
      /\ (task'.due <=> task.due) /\ task'.pulse = task.pulse
  BY TaskStays
<1>2. ~PhotocellEdge /\ ~(\E v \in Versions : Publish(v))
  BY DEF PhotocellEdge, WakeTask, Publish
<1>3. ~notified /\ ~edited /\ cfgv' = cfgv
  <2>1. CASE TickBegin
    BY <2>1 DEF TickBegin, cfgVars
  <2>2. CASE ~TickBegin
    <3>1. UNCHANGED <<notified, edited, cfgv>>
      <4>1. CASE Move \/ ApplyScalars \/ Start \/ Stops
        BY <4>1 DEF Move, ApplyScalars, Start, Stops, StopFlush, StopAbort, StopStore, FaultStop,
                    cfgVars, TaskOnly
      <4>2. CASE \E h \in Guns : TickClose(h) \/ GunCloses(h) \/ TestFire(h)
        BY <4>2 DEF TickClose, GunCloses, TestFire, cfgVars
      <4>3. QED
        BY <1>2, <2>2, <4>1, <4>2 DEF Next
    <3>2. QED
      BY <3>1, Zenon
  <2>3. QED
    BY <2>1, <2>2
<1>4. EventWatched(g)
  BY <1>1, <1>3 DEF EventsWatched
<1>5. (Handled(g)' <=> Handled(g)) /\ (Busy(g)' <=> Busy(g))
  BY <1>1 DEF Handled, Firing, Busy
<1>6. CASE StopFlush
  <2>1. ring'[g] = <<>>
    BY <1>6 DEF StopFlush
  <2>2. QED
    BY <2>1 DEF EventWatched
<1>7. CASE ~StopFlush
  <2>1. watch'[g] = watch[g]
    <3>1. CASE TickBegin
      <4>1. ~LineReached(g) /\ ~DueReached(g)
        BY <3>1 DEF TickBegin
      <4>2. QED
        BY <3>1, <4>1 DEF TickBegin
    <3>2. CASE ~TickBegin
      BY <1>7, <3>2 DEF Next, TickClose, Move, PhotocellEdge, Publish, ApplyScalars, Start, Stops,
             StopAbort, StopStore, FaultStop, GunCloses, TestFire, TaskOnly
    <3>3. QED
      BY <3>1, <3>2
  <2>2. ring[g] = <<>> => ring'[g] = <<>>
    <3>1. CASE Move
      <4>1. ring'[g] = [i \in DOMAIN ring[g] |-> Older(ring[g][i])]
        BY <3>1 DEF Move
      <4>2. QED
        BY <4>1
    <3>2. CASE ~Move
      BY <1>2, <1>7, <3>2 DEF Next, TickBegin, TickClose, Publish, ApplyScalars, Start, Stops,
             StopAbort, StopStore, FaultStop, GunCloses, TestFire, TaskOnly
    <3>3. QED
      BY <3>1, <3>2
  <2>3. CASE ring[g] = <<>>
    BY <2>2, <2>3 DEF EventWatched
  <2>4. CASE ring[g] # <<>>
    <3>1. \/ Head(ring'[g]) = Head(ring[g]) /\ task'.peek = task.peek
          \/ Head(ring'[g]) = Older(Head(ring[g])) /\ task'.peek = Older(task.peek)
      BY <1>7, <2>4, HeadsStay
    <3>2. Head(ring[g]) \in Sheets /\ task.peek \in Sheets
      BY <2>4, HeadTyped, TaskFields DEF Types, RingTypes
    <3>3. Handled(g)' => WatchedAt(cfgv', g, Head(ring'[g]), watch'[g].dueArmed, watch'[g].due)
      BY <1>3, <1>4, <1>5, <2>1, <2>4, <3>1, <3>2, AgeIgnored DEF EventWatched
    <3>4. Busy(g)' => /\ Head(ring'[g]) = task'.peek
                      /\ task'.pc = "due" => WatchedAt(cfgv', g, task'.peek, task'.due, task'.pulse)
      <4>1. Busy(g)' => /\ Head(ring[g]) = task.peek
                        /\ task.pc = "due" => WatchedAt(cfgv, g, task.peek, task.due, task.pulse)
        BY <1>4, <1>5, <2>4 DEF EventWatched
      <4>2. Busy(g)' => Head(ring'[g]) = task'.peek
        BY <3>1, <4>1
      <4>3. Busy(g)' /\ task.pc = "due" => WatchedAt(cfgv, g, task'.peek, task.due, task.pulse)
        BY <3>1, <3>2, <4>1, AgeIgnored
      <4>4. WatchedAt(cfgv, g, task'.peek, task.due, task.pulse)
               => WatchedAt(cfgv, g, task'.peek, task'.due, task'.pulse)
        BY <1>1 DEF WatchedAt
      <4>5. cfgv' = cfgv /\ task'.pc = task.pc
        BY <1>1, <1>3
      <4>6. QED
        BY <4>2, <4>3, <4>4, <4>5
    <3>5. QED
      BY <3>3, <3>4 DEF EventWatched
  <2>5. QED
    BY <2>3, <2>4
<1>8. QED
  BY <1>6, <1>7

\* A round that is under way is not interrupted by its own steps, and only the gun it
\* is at changes sides.
LEMMA RoundGoesOn ==
    ASSUME Types, Task, task.pc \notin {"wait", "reset"}, ~CheckEdit, NEW g \in Guns
    PROVE  /\ (notified' <=> notified) /\ (edited' <=> edited) /\ cfgv' = cfgv
           /\ (task'.was <=> task.was)
           /\ task' = NextGun => ~Busy(g)'
           /\ g # task.g => ~Busy(g)' /\ (Handled(g)' => Handled(g))
           /\ task'.g = task.g /\ task'.pc \in RoundPCs \ {"head"} /\ g = task.g
                 => (Handled(g)' => task'.pc = "gate" \/ (Firing' /\ task'.act = "resume"))
<1>1. /\ UNCHANGED <<enc, active, stop, cfgv, edited, offs, seen, closing>>
      /\ (task'.was <=> task.was)
      /\ task.pc \in RoundPCs
      /\ task' = NextGun \/ (task'.g = task.g /\ task'.pc \in RoundPCs \ {"head"})
  BY UnderWay
<1>2. g \in Nat /\ task.g \in Nat /\ g <= NumGuns /\ NumGuns \in Nat
  BY TaskFields, Constants DEF Guns
<1>3. notified' = notified
  <2>1. ~RoundIdle /\ ~RoundStopped /\ ~RoundActive /\ ~StopReset
    BY DEF RoundIdle, RoundStopped, RoundActive, StopReset, At
  <2>2. QED
    BY <2>1 DEF Task, HeadSheet, HeadNone, SheetDone, NotDue, DropDue, LineTooSlow, LineEndDue,
           FireBegin, FireOpens, FireRefused, WatchLineEnd, Advance, WatchDue, GateCloses, GatePasses
<1>4. (notified' <=> notified) /\ (edited' <=> edited)
  BY <1>1, <1>3, Zenon
<1>5. ASSUME task' = NextGun PROVE ~Busy(g)' /\ (g # task.g => (Handled(g)' => Handled(g)))
  <2>1. IF task.g = NumGuns THEN task'.pc = "wait" /\ task'.g = 1
        ELSE task'.pc = "head" /\ task'.g = task.g + 1
    BY <1>5, NextGunTyped
  <2>2. CASE task.g = NumGuns
    <3>1. g # task.g => g < task.g
      BY <1>2, <2>2
    <3>2. QED
      BY <1>1, <2>1, <2>2, <3>1 DEF Busy, Handled
  <2>3. CASE task.g # NumGuns
    <3>1. g # task.g /\ g < task.g + 1 => g < task.g
      BY <1>2
    <3>2. QED
      BY <1>1, <2>1, <2>3, <3>1 DEF Busy, Handled, Firing, RoundPCs
  <2>4. QED
    BY <2>2, <2>3
<1>6. ASSUME task'.g = task.g, task'.pc \in RoundPCs \ {"head"}
      PROVE  /\ g # task.g => ~Busy(g)' /\ (Handled(g)' => Handled(g))
             /\ g = task.g => (Handled(g)' => task'.pc = "gate" \/ (Firing' /\ task'.act = "resume"))
  <2>1. ~(g < g)
    BY <1>2
  <2>2. QED
    BY <1>1, <1>6, <2>1 DEF Busy, Handled, RoundPCs
<1>7. QED
  BY <1>1, <1>4, <1>5, <1>6

LEMMA OthersWatched ==
    ASSUME Types, Task, task.pc \notin {"wait", "reset"}, ~CheckEdit, NEW g \in Guns, g # task.g,
           EventWatched(g)
    PROVE  EventWatched(g)'
<1>1. cfgv' = cfgv /\ ~Busy(g)' /\ (Handled(g)' => Handled(g))
  BY RoundGoesOn
<1>2. ring'[g] = ring[g] /\ watch'[g] = watch[g]
  BY OtherGuns
<1>3. QED
  BY <1>1, <1>2 DEF EventWatched

LEMMA StaysWatched ==
    ASSUME Types, Task, task.pc \notin {"wait", "reset"}, ~CheckEdit, NEW g \in Guns, g = task.g,
           task'.g = g, task'.pc \in RoundPCs \ {"head"},
           ring'[g] # <<>> => Head(ring'[g]) = task'.peek,
           ring'[g] # <<>> /\ task'.pc = "due" => WatchedAt(cfgv, g, task'.peek, task'.due, task'.pulse),
           ring'[g] # <<>> /\ (task'.pc = "gate" \/ (Firing' /\ task'.act = "resume"))
              => WatchedAt(cfgv, g, Head(ring'[g]), watch'[g].dueArmed, watch'[g].due)
    PROVE  EventWatched(g)'
<1>1. cfgv' = cfgv /\ (Handled(g)' => task'.pc = "gate" \/ (Firing' /\ task'.act = "resume"))
  BY RoundGoesOn
<1>2. QED
  BY <1>1 DEF EventWatched

LEMMA LeavesWatched ==
    ASSUME Types, Task, task.pc \notin {"wait", "reset"}, ~CheckEdit, NEW g \in Guns, g = task.g,
           task' = NextGun,
           ring'[g] # <<>> => WatchedAt(cfgv, g, Head(ring'[g]), watch'[g].dueArmed, watch'[g].due)
    PROVE  EventWatched(g)'
<1>1. cfgv' = cfgv /\ ~Busy(g)'
  BY RoundGoesOn
<1>2. QED
  BY <1>1 DEF EventWatched

\* The next event of the copy goes to the watch with the offset in force now.
LEMMA DueNoted ==
    ASSUME Types, ~NothingLeft(cfgv, task.g, task.peek), task.pc = "event"
    PROVE  WatchedAt(cfgv, task.g, task.peek, TRUE, EventPulse(cfgv, task.g, task.peek))
<1>1. /\ EnvTypes /\ cfgv \in Versions /\ task.g \in Guns /\ task.peek \in Sheets
      /\ task.peek.elem # 0 /\ offs \in Offsets
  BY TaskFields DEF HasPeek, Types, EnvTypes
<1>2. EventPulse(cfgv, task.g, task.peek) = (task.peek.edge + (Place(cfgv, task.g, task.peek) + offs)) % PulseMod
  BY <1>1, PlaceOf
<1>3. QED
  BY <1>1, <1>2 DEF WatchedAt

LEMMA LookWatches ==
    ASSUME Types, NEW g \in Guns, g = task.g, EventWatched(g),
           HeadSheet \/ HeadNone \/ SheetDone \/ NotDue
    PROVE  EventWatched(g)'
<1>0. /\ task \in Tasks /\ ring \in [Guns -> Seq(Sheets)] /\ Task
      /\ task.pc \in {"head", "event"} /\ ~CheckEdit
  BY TaskFields DEF Types, RingTypes, Task, HeadSheet, HeadNone, SheetDone, NotDue, CheckEdit, At
<1>1. CASE HeadSheet
  <2>1. task'.pc = "event" /\ task'.g = g /\ task'.peek = Head(ring[g]) /\ ring' = ring
    BY <1>0, <1>1 DEF HeadSheet, Tasks
  <2>2. QED
    BY <1>0, <2>1, StaysWatched DEF RoundPCs, Firing
<1>2. CASE HeadNone
  <2>1. task' = NextGun /\ ring'[g] = <<>>
    BY <1>2 DEF HeadNone
  <2>2. QED
    BY <1>0, <2>1, LeavesWatched
<1>3. CASE SheetDone
  <2> DEFINE rest == Popped(g)
             h == Head(rest)
  <2>1. /\ IF rest = <<>> THEN task' = [task EXCEPT !.pc = "due", !.peek = NoSheet]
                          ELSE task' = [task EXCEPT !.peek = h]
        /\ ring' = [ring EXCEPT ![g] = rest] /\ task.pc = "event"
    BY <1>3 DEF SheetDone, At
  <2> HIDE DEF rest, h
  <2>2. /\ ring'[g] = rest /\ task'.g = g
        /\ IF rest = <<>> THEN task'.pc = "due" ELSE task'.pc = "event" /\ task'.peek = h
    BY <1>0, <2>1 DEF Tasks
  <2>3. ring'[g] # <<>> => Head(ring'[g]) = task'.peek
    BY <2>2 DEF h
  <2>4. QED
    BY <1>0, <2>2, <2>3, StaysWatched DEF RoundPCs, Firing
<1>4. CASE NotDue
  <2> DEFINE p == EventPulse(cfgv, g, task.peek)
  <2>1. task' = [task EXCEPT !.pc = "due", !.due = TRUE, !.pulse = p] /\ ring' = ring /\ task.pc = "event"
    BY <1>4 DEF NotDue, At
  <2>2. WatchedAt(cfgv, g, task.peek, TRUE, p)
    BY <1>4, <2>1, DueNoted DEF NotDue
  <2> HIDE DEF p
  <2>3. /\ task'.pc = "due" /\ task'.g = g /\ task'.peek = task.peek
        /\ task'.due = TRUE /\ task'.pulse = p
    BY <1>0, <2>1 DEF Tasks
  <2>4. ring[g] # <<>> => Head(ring[g]) = task.peek
    BY <2>1 DEF EventWatched, Busy
  <2>5. QED
    BY <1>0, <2>1, <2>2, <2>3, <2>4, StaysWatched DEF RoundPCs, Firing
<1>5. QED
  BY <1>1, <1>2, <1>3, <1>4

\* An event is performed.
LEMMA ActWatches ==
    ASSUME Types, NEW g \in Guns, g = task.g, EventWatched(g),
           \/ DropDue("dot") \/ DropDue("open") \/ LineTooSlow \/ LineEndDue
           \/ FireBegin \/ FireOpens \/ FireRefused \/ WatchLineEnd
    PROVE  EventWatched(g)'
<1>0. /\ task \in Tasks /\ watch \in [Guns -> Watches] /\ Task
      /\ task.pc \in {"event", "fire", "firing", "watch"} /\ ~CheckEdit /\ ring' = ring
  BY TaskFields DEF Types, GunTypes, Task, DropDue, LineTooSlow, LineEndDue, EventDue, FireBegin, FireOpens,
     FireRefused, WatchLineEnd, CheckEdit, At
<1>1. ring[g] # <<>> => Head(ring[g]) = task.peek
  BY <1>0 DEF EventWatched, Busy
<1>2. Firing /\ task.act = "resume" /\ ring[g] # <<>>
         => WatchedAt(cfgv, g, Head(ring[g]), watch[g].dueArmed, watch[g].due)
  BY DEF EventWatched, Handled
<1>3. CASE DropDue("dot") \/ DropDue("open") \/ LineTooSlow \/ LineEndDue
  <2>1. /\ task'.g = g /\ task'.peek = task.peek /\ task'.pc \in {"fire", "advance"} /\ task'.act # "resume"
    BY <1>0, <1>3 DEF DropDue, LineTooSlow, LineEndDue, Tasks
  <2>2. QED
    BY <1>0, <1>1, <2>1, StaysWatched DEF RoundPCs
<1>4. CASE FireBegin \/ FireOpens \/ FireRefused \/ WatchLineEnd
  <2>1. Firing
    BY <1>4 DEF FireBegin, FireOpens, FireRefused, WatchLineEnd, At, Firing
  <2>2. watch'[g].dueArmed = watch[g].dueArmed /\ watch'[g].due = watch[g].due
    <3>1. CASE WatchLineEnd
      <4>1. PICK e : watch' = [watch EXCEPT ![g].lineArmed = TRUE, ![g].drop = task.drop, ![g].end = e]
        BY <3>1 DEF WatchLineEnd
      <4>2. QED
        BY <1>0, <4>1 DEF Watches
    <3>2. CASE ~WatchLineEnd
      BY <1>4, <3>2 DEF FireBegin, FireOpens, FireRefused
    <3>3. QED
      BY <3>1, <3>2
  <2>3. Firing /\ task.act = "resume" /\ ring'[g] # <<>>
           => WatchedAt(cfgv, g, Head(ring'[g]), watch'[g].dueArmed, watch'[g].due)
    BY <1>0, <1>2, <2>2
  <2>4. CASE task' = NextGun /\ task.act = "resume"
    BY <1>0, <2>1, <2>3, <2>4, LeavesWatched
  <2>5. CASE /\ task'.g = g /\ task'.peek = task.peek /\ task'.act = task.act
             /\ task'.pc \in {"firing", "watch", "advance"}
    <3>1. task'.act = "resume" /\ ring'[g] # <<>>
             => WatchedAt(cfgv, g, Head(ring'[g]), watch'[g].dueArmed, watch'[g].due)
      BY <2>1, <2>3, <2>5
    <3>2. QED
      BY <1>0, <1>1, <2>5, <3>1, StaysWatched DEF RoundPCs
  <2>6. \/ task' = NextGun /\ task.act = "resume"
        \/ task' = [task EXCEPT !.pc = "advance"]
        \/ task' = [task EXCEPT !.pc = "firing"]
        \/ \E d : task' = [task EXCEPT !.pc = "watch", !.drop = d]
        \/ task' = [task EXCEPT !.pc = "advance", !.drop = 0]
    BY <1>4 DEF FireBegin, FireOpens, FireRefused, WatchLineEnd, NotOpened
  <2>7. \/ task' = NextGun /\ task.act = "resume"
        \/ /\ task'.g = g /\ task'.peek = task.peek /\ task'.act = task.act
           /\ task'.pc \in {"firing", "watch", "advance"}
    BY <1>0, <2>6 DEF Tasks
  <2>8. QED
    BY <2>4, <2>5, <2>7
<1>5. QED
  BY <1>3, <1>4

\* The sheet moves on, and the next event goes to the watch.
LEMMA NextWatches ==
    ASSUME Types, NEW g \in Guns, g = task.g, EventWatched(g),
           Advance \/ WatchDue \/ GateCloses \/ GatePasses
    PROVE  EventWatched(g)'
<1>0. /\ task \in Tasks /\ watch \in [Guns -> Watches] /\ ring \in [Guns -> Seq(Sheets)] /\ Task
      /\ task.pc \in {"advance", "due", "gate"} /\ ~CheckEdit
      /\ task.peek \in Sheets /\ cfgv \in Versions
  BY TaskFields DEF Types, GunTypes, RingTypes, Task, Advance, WatchDue, GateCloses, GatePasses, CheckEdit, At
<1>1. ring[g] # <<>> => Head(ring[g]) = task.peek
  BY <1>0 DEF EventWatched, Busy
<1>2. CASE Advance
  <2> DEFINE s == Advanced(cfgv, g, task.peek)
  <2>1. task' = [task EXCEPT !.pc = "event", !.peek = s, !.act = "none"] /\ ring' = WriteBack(g, s)
        /\ task.pc = "advance"
    BY <1>2 DEF Advance, At
  <2>2. s \in Sheets
    BY <1>0, <2>1, AdvancedTyped, TaskFields DEF HasPeek
  <2> HIDE DEF s
  <2>3. task'.pc = "event" /\ task'.g = g /\ task'.peek = s
    BY <1>0, <2>1 DEF Tasks
  <2>4. ring'[g] # <<>> => Head(ring'[g]) = s
    <3>1. CASE ring[g] = <<>>
      BY <2>1, <3>1 DEF WriteBack
    <3>2. CASE ring[g] # <<>>
      <4>1. ring[g] \in Seq(Sheets) /\ ring'[g] = [ring[g] EXCEPT ![1] = s]
        BY <1>0, <2>1, <3>2 DEF WriteBack
      <4>2. QED
        BY <2>2, <3>2, <4>1
    <3>3. QED
      BY <3>1, <3>2
  <2>5. QED
    BY <1>0, <2>3, <2>4, StaysWatched DEF RoundPCs, Firing
<1>3. CASE WatchDue
  <2>1. /\ watch' = [watch EXCEPT ![g].dueArmed = task.due, ![g].due = task.pulse] /\ ring' = ring
        /\ task.pc = "due"
        /\ task' = NextGun \/ task' = [task EXCEPT !.pc = "gate"]
    BY <1>3 DEF WatchDue, At
  <2>2. watch'[g].dueArmed = task.due /\ watch'[g].due = task.pulse
    BY <1>0, <2>1 DEF Watches
  <2>3. ring[g] # <<>> => WatchedAt(cfgv, g, task.peek, task.due, task.pulse)
    BY <2>1 DEF EventWatched, Busy
  <2>4. ring'[g] # <<>> => WatchedAt(cfgv, g, Head(ring'[g]), watch'[g].dueArmed, watch'[g].due)
    BY <1>1, <2>1, <2>2, <2>3
  <2>5. CASE task' = NextGun
    BY <1>0, <2>4, <2>5, LeavesWatched
  <2>6. CASE task' = [task EXCEPT !.pc = "gate"]
    <3>1. task'.pc = "gate" /\ task'.g = g /\ task'.peek = task.peek
      BY <1>0, <2>6 DEF Tasks
    <3>2. QED
      BY <1>0, <1>1, <2>1, <2>4, <3>1, StaysWatched DEF RoundPCs
  <2>7. QED
    BY <2>1, <2>5, <2>6
<1>4. CASE GateCloses \/ GatePasses
  <2>1. ring' = ring /\ task.pc = "gate"
    BY <1>4 DEF GateCloses, GatePasses, At
  <2>2. watch'[g].dueArmed = watch[g].dueArmed /\ watch'[g].due = watch[g].due
    <3>1. watch' = watch \/ watch' = [watch EXCEPT ![g] = NoLine(watch[g])]
      BY <1>4 DEF GateCloses, GatePasses
    <3> DEFINE w == NoLine(watch[g])
    <3>2. w.dueArmed = watch[g].dueArmed /\ w.due = watch[g].due
      <4>1. watch[g] \in Watches
        BY <1>0
      <4>2. QED
        BY <4>1 DEF NoLine, Watches
    <3> HIDE DEF w
    <3>3. watch' = watch \/ watch'[g] = w
      BY <1>0, <3>1 DEF w
    <3>4. QED
      BY <3>2, <3>3
  <2>3. ring'[g] # <<>> => WatchedAt(cfgv, g, Head(ring'[g]), watch'[g].dueArmed, watch'[g].due)
    BY <2>1, <2>2 DEF EventWatched, Handled
  <2>4. CASE task' = NextGun
    BY <1>0, <2>3, <2>4, LeavesWatched
  <2>5. CASE task' = [task EXCEPT !.pc = "fire", !.act = "resume"]
    <3>1. task'.pc = "fire" /\ task'.g = g /\ task'.peek = task.peek /\ task'.act = "resume"
      BY <1>0, <2>5 DEF Tasks
    <3>2. QED
      BY <1>0, <1>1, <2>1, <2>3, <3>1, StaysWatched DEF RoundPCs
  <2>6. QED
    BY <1>4, <2>4, <2>5 DEF GateCloses, GatePasses
<1>5. QED
  BY <1>2, <1>3, <1>4

LEMMA EventsWatchedStep == Types /\ Halted /\ EventsWatched /\ [Next]_vars => EventsWatched'
<1> SUFFICES ASSUME Types, Halted, EventsWatched, [Next]_vars PROVE EventsWatched'
  OBVIOUS
<1>1. CASE UNCHANGED vars
  BY <1>1 DEF vars, cfgVars, lineVars, EventsWatched, EventWatched, Handled, Busy, Firing
<1>2. CASE Next /\ ~Task
  BY <1>2, WorldWatches
<1>3. CASE Task /\ task.pc \in {"wait", "reset"} /\ ~RoundActive
  <2>1. ~task'.was
    <3>0. task \in Tasks
      BY TaskFields
    <3>1. CASE RoundStopped /\ task' = [task EXCEPT !.pc = "reset", !.now = enc, !.was = FALSE]
      BY <3>0, <3>1 DEF Tasks
    <3>2. CASE RoundIdle /\ task' = [task EXCEPT !.now = enc]
      BY <3>0, <3>2 DEF Tasks, RoundIdle
    <3>3. CASE StopReset /\ (task' = Waiting \/ task' = [task EXCEPT !.g = task.g + 1])
      <4>1. ~task.was
        BY <3>3 DEF StopReset, At, Halted
      <4>2. QED
        BY <3>0, <3>3, <4>1, NextGunTyped DEF Tasks
    <3>4. QED
      BY <1>3, <3>1, <3>2, <3>3, TaskGoes
  <2>2. QED
    BY <2>1 DEF EventsWatched
<1>4. CASE RoundActive \/ CheckEdit
  <2>1. task'.pc = "edits" \/ (task'.pc = "head" /\ task'.g = 1)
    <3>0. task \in Tasks
      BY TaskFields
    <3>1. CASE RoundActive
      <4>1. task.g = 1
        BY <3>1 DEF RoundActive, At, Halted
      <4> DEFINE c == IF edited THEN "edits" ELSE "head"
      <4>2. c \in {"edits", "head"}
        OBVIOUS
      <4>3. PICK verdict : task' = [task EXCEPT !.pc = c, !.now = enc, !.was = TRUE, !.v = cfgv,
                                                !.gate = verdict]
        BY <3>1 DEF RoundActive
      <4> HIDE DEF c
      <4>4. QED
        BY <3>0, <4>1, <4>2, <4>3 DEF Tasks
    <3>2. CASE CheckEdit
      <4>1. task.pc = "edits" /\ (task' = [task EXCEPT !.g = task.g + 1] \/ task' = [task EXCEPT !.pc = "head", !.g = 1])
        BY <3>2 DEF CheckEdit, EditsEnd, At
      <4>2. QED
        BY <3>0, <4>1 DEF Tasks
    <3>3. QED
      BY <1>4, <3>1, <3>2
  <2>2. ASSUME NEW g \in Guns PROVE ~Handled(g)' /\ ~Busy(g)'
    <3>1. ~(g < 1)
      BY Constants DEF Guns
    <3>2. QED
      BY <2>1, <3>1 DEF Handled, Busy, Firing, RoundPCs
  <2>3. QED
    BY <2>2 DEF EventsWatched, EventWatched
<1>5. CASE Task /\ task.pc \notin {"wait", "reset"} /\ ~CheckEdit
  <2> SUFFICES ASSUME task'.was, ~notified', ~edited', NEW g \in Guns PROVE EventWatched(g)'
    BY DEF EventsWatched
  <2>1. EventWatched(g)
    BY <1>5, RoundGoesOn DEF EventsWatched
  <2>2. CASE g # task.g
    BY <1>5, <2>1, <2>2, OthersWatched
  <2>3. CASE g = task.g
    <3>1. ~RoundIdle /\ ~RoundStopped /\ ~RoundActive /\ ~StopReset
      BY <1>5 DEF RoundIdle, RoundStopped, RoundActive, StopReset, At
    <3>2. \/ HeadSheet \/ HeadNone \/ SheetDone \/ NotDue
          \/ DropDue("dot") \/ DropDue("open") \/ LineTooSlow \/ LineEndDue
          \/ FireBegin \/ FireOpens \/ FireRefused \/ WatchLineEnd
          \/ Advance \/ WatchDue \/ GateCloses \/ GatePasses
      BY <1>5, <3>1 DEF Task
    <3>3. QED
      BY <2>1, <2>3, <3>2, LookWatches, ActWatches, NextWatches
  <2>4. QED
    BY <2>2, <2>3
<1>6. QED
  BY <1>1, <1>2, <1>3, <1>4, <1>5

\* While the task sleeps the tick hook watches for the next event of every gun, and for
\* no pulse but one that an offset in force has asked for, with any commands and edits.
THEOREM DueCorrect == Spec => []DueIsWatched
<1>1. Types /\ EventsWatched => DueIsWatched
  <2> SUFFICES ASSUME Types, EventsWatched, task.pc = "wait", task.was, ~notified, ~edited,
                      NEW g \in Guns, ring[g] # <<>>
               PROVE  /\ watch[g].dueArmed
                      /\ \E o \in Offsets :
                            watch[g].due = (EventPulse(cfgv, g, Head(ring[g])) - offs + o) % PulseMod
    BY DEF DueIsWatched, Offsets
  <2> DEFINE s == Head(ring[g])
  <2>1. WatchedAt(cfgv, g, s, watch[g].dueArmed, watch[g].due)
    BY DEF EventsWatched, EventWatched, Handled
  <2>2. PICK o \in Offsets : watch[g].due = (s.edge + (Place(cfgv, g, s) + o)) % PulseMod
    BY <2>1 DEF WatchedAt
  <2>3. EnvTypes /\ cfgv \in Versions /\ s \in Sheets /\ s.elem # 0 /\ ~NothingLeft(cfgv, g, s) /\ o \in Int
    BY <2>1, HeadTyped, TaskFields, Constants DEF Types, RingTypes, WatchedAt
  <2> DEFINE p == Place(cfgv, g, s)
             e == s.edge
  <2>4. /\ p \in Int /\ e \in Int /\ offs \in Int
        /\ EventPulse(cfgv, g, s) = (e + (p + offs)) % PulseMod
    BY <2>3, PlaceOf
  <2>5. watch[g].due = (e + (p + o)) % PulseMod /\ watch[g].dueArmed
    BY <2>1, <2>2 DEF WatchedAt
  <2> HIDE DEF p, e, s
  <2>6. EventPulse(cfgv, g, s) - offs + o = ((e + (p + offs)) % PulseMod) + (o - offs)
    <3>1. (e + (p + offs)) % PulseMod \in Int
      BY <2>4, Wrapped DEF Pulses
    <3>2. QED
      BY <2>3, <2>4, <3>1
  <2>7. (((e + (p + offs)) % PulseMod) + (o - offs)) % PulseMod = ((e + (p + offs)) + (o - offs)) % PulseMod
    BY <2>3, <2>4, WrapSum
  <2>8. (e + (p + offs)) + (o - offs) = e + (p + o)
    BY <2>3, <2>4
  <2>9. QED
    BY <2>5, <2>6, <2>7, <2>8 DEF s
<1>2. Spec => []Types
  BY TypesStart, TypesStep, PTL DEF Spec
<1>3. Types /\ LinesKnown /\ Halted /\ [Next]_vars => Halted'
  BY HaltedStep
<1>4. Spec => []LinesKnown
  BY <1>2, LinesKnownStart, LinesKnownStep, PTL DEF Spec
<1>5. Spec => []Halted
  BY <1>2, <1>3, <1>4, HaltedStart, PTL DEF Spec
<1>6. Init => EventsWatched
  BY DEF Init, EventsWatched
<1>7. Spec => []EventsWatched
  BY <1>2, <1>5, <1>6, EventsWatchedStep, PTL DEF Spec
<1>8. QED
  BY <1>1, <1>2, <1>7, PTL

----------------------------------------------------------------------------
(* Positions are told across the wrap of the counter.                      *)

\* The age of a sheet is what the encoder has counted since its edge, until it saturates ...
AgedAt(e, s) == s.elem = 0 \/ s.age = AgeMax \/ e = (s.edge + s.age) % PulseMod
\* ... and the reading that the task works with is at most LagMax pulses old.
FreshReading == \E lag \in 0 .. LagMax : enc = (task.now + lag) % PulseMod
AllAged ==
    /\ \A g \in Guns : \A i \in DOMAIN ring[g] : AgedAt(enc, ring[g][i])
    /\ AgedAt(enc, task.peek)
    /\ FreshReading

LEMMA AllAgedStart == Init => AllAged
<1> SUFFICES ASSUME Init PROVE AllAged
  OBVIOUS
<1>1. task.peek.elem = 0 /\ task.now = 0 /\ enc = 0
  BY DEF Init, NoSheet
<1>2. 0 \in 0 .. LagMax /\ 0 = (0 + 0) % PulseMod
  BY Window
<1>3. FreshReading
  BY <1>1, <1>2 DEF FreshReading
<1>4. \A g \in Guns : DOMAIN ring[g] = {}
  BY DEF Init
<1>5. QED
  BY <1>1, <1>3, <1>4 DEF AllAged, AgedAt

\* One pulse more.
LEMMA Ages ==
    ASSUME NEW e \in Pulses, NEW s \in Sheets, AgedAt(e, s)
    PROVE  AgedAt((e + 1) % PulseMod, Older(s))
<1>1. s.age \in 0 .. AgeMax /\ s.age \in Int /\ s.edge \in Int /\ AgeMax \in Nat
  BY Constants DEF Sheets, Pulses
<1>2. CASE s.elem = 0 \/ s.age >= AgeMax
  BY <1>1, <1>2 DEF Older, AgedAt
<1>3. CASE ~(s.elem = 0 \/ s.age >= AgeMax)
  <2> DEFINE r == Older(s)
  <2>1. r.edge = s.edge /\ r.age = s.age + 1
    <3>1. r = [s EXCEPT !.age = s.age + 1]
      BY <1>3 DEF Older
    <3> HIDE DEF r
    <3>2. QED
      BY <3>1 DEF Sheets
  <2>2. e = (s.edge + s.age) % PulseMod
    BY <1>1, <1>3 DEF AgedAt
  <2>3. (e + 1) % PulseMod = ((s.edge + s.age) + 1) % PulseMod
    <3>1. s.edge + s.age \in Int /\ 1 \in Int
      BY <1>1
    <3>2. QED
      BY <2>2, <3>1, WrapSum
  <2>4. (s.edge + s.age) + 1 = s.edge + (s.age + 1)
    BY <1>1
  <2> HIDE DEF r
  <2>5. AgedAt((e + 1) % PulseMod, r)
    BY <2>1, <2>3, <2>4 DEF AgedAt
  <2>6. QED
    BY <2>5 DEF r
<1>4. QED
  BY <1>2, <1>3

\* The encoder waits for the task.
LEMMA LagGrows ==
    ASSUME Types, FreshReading, Move
    PROVE  FreshReading'
<1>1. /\ Diff(enc + 1, task.now) <= LagMax /\ enc' = (enc + 1) % PulseMod
      /\ task'.now = task.now /\ task.now \in Int /\ enc \in Int
  BY TaskFields, TaskStays DEF Move, Next, Task, Pulses
<1>2. PICK lag \in 0 .. LagMax : enc = (task.now + lag) % PulseMod
  BY DEF FreshReading
<1>3. lag \in Int /\ 0 <= lag /\ lag <= LagMax
  BY Window
<1> DEFINE m == task.now
<1>4. m \in Int /\ enc = (m + lag) % PulseMod
  BY <1>1, <1>2
<1> HIDE DEF m
<1>5. (((m + lag) % PulseMod) + (1 - m)) % PulseMod = ((m + lag) + (1 - m)) % PulseMod
  BY <1>3, <1>4, WrapSum
<1>6. /\ (m + lag) + (1 - m) = lag + 1
      /\ ((m + lag) % PulseMod) + (1 - m) = (enc + 1) - m
  BY <1>1, <1>3, <1>4
<1>7. ((enc + 1) - m) % PulseMod = (lag + 1) % PulseMod
  BY <1>5, <1>6
<1>8. /\ enc + 1 \in Int /\ lag + 1 \in Int
      /\ -(PulseMod \div 2) <= lag + 1 /\ lag + 1 < PulseMod \div 2
  BY <1>1, <1>3, Window
<1>9. Diff(enc + 1, m) = lag + 1
  BY <1>4, <1>7, <1>8, DiffExact
<1>10. lag + 1 \in 0 .. LagMax
  BY <1>1, <1>3, <1>9, Window DEF m
<1>11. (enc + 1) % PulseMod = ((m + lag) + 1) % PulseMod
  BY <1>3, <1>4, WrapSum
<1>12. (m + lag) + 1 = m + (lag + 1)
  BY <1>3, <1>4
<1>13. enc' = (task'.now + (lag + 1)) % PulseMod
  BY <1>1, <1>11, <1>12 DEF m
<1>14. QED
  BY <1>10, <1>13 DEF FreshReading

LEMMA TaskAges == Types /\ AllAged /\ Task => AllAged'
<1> SUFFICES ASSUME Types, AllAged, Task PROVE AllAged'
  OBVIOUS
<1>0. /\ task \in Tasks /\ task.g \in Guns /\ task.peek \in Sheets /\ cfgv \in Versions /\ enc \in Pulses
      /\ ring \in [Guns -> Seq(Sheets)]
  BY TaskFields DEF Types, RingTypes
<1>1. AgedAt(enc, NoSheet) /\ \A g \in Guns : \A i \in DOMAIN ring[g] : AgedAt(enc, ring[g][i])
  BY DEF AgedAt, NoSheet, AllAged
<1>2. enc' = enc /\ (task'.now = task.now \/ task'.now = enc)
  <2>1. CASE task.pc \notin {"wait", "reset"} /\ ~CheckEdit
    BY <2>1, UnderWay
  <2>2. CASE RoundIdle \/ RoundStopped
    BY <1>0, <2>2 DEF RoundIdle, RoundStopped, Tasks
  <2>3. CASE RoundActive
    <3> DEFINE c == IF edited THEN "edits" ELSE "head"
    <3>1. PICK verdict : task' = [task EXCEPT !.pc = c, !.now = enc, !.was = TRUE, !.v = cfgv, !.gate = verdict]
      BY <2>3 DEF RoundActive
    <3> HIDE DEF c
    <3>2. QED
      BY <1>0, <2>3, <3>1 DEF RoundActive, Tasks
  <2>4. CASE StopReset
    BY <1>0, <2>4, NextGunTyped DEF StopReset, Tasks
  <2>5. CASE CheckEdit
    BY <1>0, <2>5 DEF CheckEdit, EditsEnd, Tasks
  <2>6. task.pc \in {"wait", "reset"} => RoundIdle \/ RoundStopped \/ RoundActive \/ StopReset
    BY DEF Task, CheckEdit, HeadSheet, HeadNone, SheetDone, NotDue, DropDue, LineTooSlow, LineEndDue,
           FireBegin, FireOpens, FireRefused, WatchLineEnd, Advance, WatchDue, GateCloses, GatePasses,
           EventDue, At
  <2>7. QED
    BY <2>1, <2>2, <2>3, <2>4, <2>5, <2>6
<1>3. FreshReading'
  <2>1. 0 \in 0 .. LagMax /\ enc = (enc + 0) % PulseMod
    BY <1>0, SmallRest, Window DEF Pulses
  <2>2. QED
    BY <1>2, <2>1 DEF FreshReading, AllAged
<1>4. CASE HeadSheet
  <2> DEFINE h == Head(ring[task.g])
  <2>1. AgedAt(enc, h)
    <3>1. ring[task.g] \in Seq(Sheets) /\ ring[task.g] # <<>>
      BY <1>0, <1>4 DEF HeadSheet
    <3>2. 1 \in DOMAIN ring[task.g] /\ h = ring[task.g][1]
      BY <3>1
    <3>3. QED
      BY <1>0, <1>1, <3>2
  <2>2. task' = [task EXCEPT !.pc = "event", !.peek = h] /\ ring' = ring
    BY <1>4 DEF HeadSheet
  <2> HIDE DEF h
  <2>3. task'.peek = h
    BY <1>0, <2>2 DEF Tasks
  <2>4. QED
    BY <1>1, <1>2, <1>3, <2>1, <2>2, <2>3 DEF AllAged
<1>5. CASE SheetDone
  <2> DEFINE rest == Popped(task.g)
             h == Head(rest)
  <2>1. ring' = [ring EXCEPT ![task.g] = rest]
        /\ IF rest = <<>> THEN task' = [task EXCEPT !.pc = "due", !.peek = NoSheet]
           ELSE task' = [task EXCEPT !.peek = h]
    BY <1>5 DEF SheetDone
  <2>2. \A i \in DOMAIN rest : AgedAt(enc, rest[i])
    <3>1. CASE ring[task.g] = <<>>
      BY <3>1 DEF Popped
    <3>2. CASE ring[task.g] # <<>>
      <4>1. rest = Tail(ring[task.g])
        BY <3>2 DEF Popped
      <4>2. \A i \in DOMAIN Tail(ring[task.g]) :
               Tail(ring[task.g])[i] = ring[task.g][i + 1] /\ i + 1 \in DOMAIN ring[task.g]
        BY <1>0, <3>2, HeadTyped DEF Types, RingTypes
      <4> HIDE DEF rest
      <4>3. QED
        BY <1>0, <1>1, <4>1, <4>2
    <3>3. QED
      BY <3>1, <3>2
  <2>3. rest \in Seq(Sheets)
    BY <1>0, HeadTyped DEF Popped, Types, RingTypes
  <2> HIDE DEF rest
  <2>4. rest # <<>> => AgedAt(enc, h)
    <3>1. rest # <<>> => 1 \in DOMAIN rest /\ h = rest[1]
      BY <2>3
    <3>2. QED
      BY <2>2, <3>1
  <2> HIDE DEF h
  <2>5. AgedAt(enc, task'.peek)
    <3>1. CASE rest = <<>>
      <4>1. task'.peek = NoSheet
        BY <1>0, <2>1, <3>1 DEF Tasks
      <4>2. QED
        BY <1>1, <4>1
    <3>2. CASE rest # <<>>
      <4>1. task'.peek = h
        BY <1>0, <2>1, <3>2 DEF Tasks
      <4>2. QED
        BY <2>4, <3>2, <4>1
    <3>3. QED
      BY <3>1, <3>2
  <2>6. \A g \in Guns : \A i \in DOMAIN ring'[g] : AgedAt(enc, ring'[g][i])
    <3> SUFFICES ASSUME NEW g \in Guns, NEW i \in DOMAIN ring'[g] PROVE AgedAt(enc, ring'[g][i])
      OBVIOUS
    <3>1. ring'[g] = IF g = task.g THEN rest ELSE ring[g]
      BY <1>0, <2>1
    <3>2. QED
      BY <1>1, <2>2, <3>1
  <2>7. QED
    BY <1>2, <1>3, <2>5, <2>6 DEF AllAged
<1>6. CASE Advance
  <2> DEFINE s == Advanced(cfgv, task.g, task.peek)
  <2>1. task' = [task EXCEPT !.pc = "event", !.peek = s, !.act = "none"] /\ ring' = WriteBack(task.g, s)
        /\ task.pc = "advance"
    BY <1>6 DEF Advance, At
  <2>2. task.peek.elem # 0
    BY <2>1, TaskFields DEF HasPeek
  <2>3. s \in Sheets /\ s.edge = task.peek.edge /\ s.age = task.peek.age
    BY <1>0, <2>2, AdvancedTyped
  <2> HIDE DEF s
  <2>4. AgedAt(enc, s)
    BY <2>2, <2>3 DEF AgedAt, AllAged
  <2>5. task'.peek = s
    BY <1>0, <2>1 DEF Tasks
  <2>6. \A g \in Guns : \A i \in DOMAIN ring'[g] : AgedAt(enc, ring'[g][i])
    <3> SUFFICES ASSUME NEW g \in Guns, NEW i \in DOMAIN ring'[g] PROVE AgedAt(enc, ring'[g][i])
      OBVIOUS
    <3>1. ring[g] \in Seq(Sheets)
      BY <1>0
    <3>2. ring'[g] = ring[g] \/ ring'[g] = [ring[g] EXCEPT ![1] = s]
      BY <1>0, <2>1 DEF WriteBack
    <3>3. i \in DOMAIN ring[g] /\ (ring'[g][i] = ring[g][i] \/ ring'[g][i] = s)
      BY <3>1, <3>2
    <3>4. QED
      BY <1>1, <2>4, <3>3
  <2>7. QED
    BY <1>2, <1>3, <2>4, <2>5, <2>6 DEF AllAged
<1>7. CASE ~HeadSheet /\ ~SheetDone /\ ~Advance
  <2>1. \A g \in Guns : ring'[g] = ring[g] \/ ring'[g] = <<>>
    <3>1. CASE StopReset \/ CheckEdit
      BY <1>0, <3>1 DEF StopReset, CheckEdit, ResetGun
    <3>2. CASE ~StopReset /\ ~CheckEdit
      <4>1. ring' = ring
        BY <1>7, <3>2 DEF Task, RoundIdle, RoundStopped, RoundActive, HeadNone, NotDue, DropDue, LineTooSlow,
               LineEndDue, FireBegin, FireOpens, FireRefused, WatchLineEnd, WatchDue, GateCloses, GatePasses
      <4>2. QED
        BY <4>1
    <3>3. QED
      BY <3>1, <3>2
  <2>2. \A g \in Guns : \A i \in DOMAIN ring'[g] : AgedAt(enc, ring'[g][i])
    <3>1. DOMAIN <<>> = {}
      OBVIOUS
    <3>2. QED
      BY <1>1, <2>1, <3>1
  <2>3. task'.peek = task.peek \/ task'.peek = NoSheet
    <3>0. Waiting.peek = NoSheet /\ NextGun.peek = NoSheet
      BY NextGunTyped
    <3>1. CASE RoundIdle \/ RoundStopped
      BY <1>0, <3>1 DEF RoundIdle, RoundStopped, Tasks
    <3>2. CASE RoundActive
      <4> DEFINE c == IF edited THEN "edits" ELSE "head"
      <4>1. PICK verdict : task' = [task EXCEPT !.pc = c, !.now = enc, !.was = TRUE, !.v = cfgv, !.gate = verdict]
        BY <3>2 DEF RoundActive
      <4> HIDE DEF c
      <4>2. QED
        BY <1>0, <4>1 DEF Tasks
    <3>3. CASE StopReset \/ CheckEdit
      BY <1>0, <3>0, <3>3 DEF StopReset, CheckEdit, EditsEnd, Tasks
    <3>4. CASE HeadNone \/ WatchDue \/ GateCloses \/ GatePasses
      BY <1>0, <3>0, <3>4 DEF HeadNone, WatchDue, GateCloses, GatePasses, Tasks
    <3>5. CASE NotDue
      <4> DEFINE p == EventPulse(cfgv, task.g, task.peek)
      <4>1. task' = [task EXCEPT !.pc = "due", !.due = TRUE, !.pulse = p]
        BY <3>5 DEF NotDue
      <4> HIDE DEF p
      <4>2. QED
        BY <1>0, <4>1 DEF Tasks
    <3>6. CASE DropDue("dot") \/ DropDue("open") \/ LineTooSlow \/ LineEndDue
      BY <1>0, <3>6 DEF DropDue, LineTooSlow, LineEndDue, Tasks
    <3>7. CASE FireBegin \/ FireOpens \/ FireRefused \/ WatchLineEnd
      <4>1. \/ task' = NextGun
            \/ task' = [task EXCEPT !.pc = "advance"]
            \/ task' = [task EXCEPT !.pc = "firing"]
            \/ \E d : task' = [task EXCEPT !.pc = "watch", !.drop = d]
            \/ task' = [task EXCEPT !.pc = "advance", !.drop = 0]
        BY <3>7 DEF FireBegin, FireOpens, FireRefused, WatchLineEnd, NotOpened
      <4>2. QED
        BY <1>0, <3>0, <4>1 DEF Tasks
    <3>8. QED
      BY <1>7, <3>1, <3>2, <3>3, <3>4, <3>5, <3>6, <3>7 DEF Task
  <2>4. AgedAt(enc, task'.peek)
    BY <1>1, <2>3 DEF AllAged
  <2>5. QED
    BY <1>2, <1>3, <2>2, <2>4 DEF AllAged
<1>8. QED
  BY <1>4, <1>5, <1>6, <1>7

LEMMA WorldAges == Types /\ AllAged /\ Next /\ ~Task => AllAged'
<1> SUFFICES ASSUME Types, AllAged, Next, ~Task PROVE AllAged'
  OBVIOUS
<1>0. /\ enc \in Pulses /\ ring \in [Guns -> Seq(Sheets)] /\ task \in Tasks /\ task.peek \in Sheets
      /\ \A g \in Guns : \A i \in DOMAIN ring[g] : AgedAt(enc, ring[g][i]) /\ ring[g][i] \in Sheets
  BY TaskFields, Items DEF Types, RingTypes, AllAged
<1>1. CASE Move
  <2>1. enc' = (enc + 1) % PulseMod /\ ring' = [g \in Guns |-> [i \in DOMAIN ring[g] |-> Older(ring[g][i])]]
    BY <1>1 DEF Move
  <2>2. \A g \in Guns : \A i \in DOMAIN ring'[g] : AgedAt(enc', ring'[g][i])
    <3> SUFFICES ASSUME NEW g \in Guns, NEW i \in DOMAIN ring'[g] PROVE AgedAt(enc', ring'[g][i])
      OBVIOUS
    <3>1. i \in DOMAIN ring[g] /\ ring'[g][i] = Older(ring[g][i])
      BY <2>1
    <3>2. QED
      BY <1>0, <2>1, <3>1, Ages
  <2>3. task'.peek = Older(task.peek)
    <3> DEFINE s == Older(task.peek)
    <3>1. task' = [task EXCEPT !.peek = s]
      BY <1>1 DEF Move
    <3> HIDE DEF s
    <3>2. task'.peek = s
      BY <1>0, <3>1 DEF Tasks
    <3>3. QED
      BY <3>2 DEF s
  <2>4. AgedAt(enc', task'.peek)
    BY <1>0, <2>1, <2>3, Ages DEF AllAged
  <2>5. QED
    BY <1>1, <2>2, <2>4, LagGrows DEF AllAged
<1>2. CASE PhotocellEdge
  <2> DEFINE n == NewSheet(enc)
  <2>1. \A g \in Guns : ring'[g] = ring[g] \/ ring'[g] = Append(ring[g], n)
    BY <1>2 DEF PhotocellEdge
  <2>2. AgedAt(enc, n)
    <3>1. n.age = 0 /\ n.edge = enc
      BY DEF NewSheet
    <3>2. enc = (enc + 0) % PulseMod
      BY <1>0, SmallRest DEF Pulses
    <3> HIDE DEF n
    <3>3. QED
      BY <3>1, <3>2 DEF AgedAt
  <2>3. n \in Sheets
    BY <1>0, Records
  <2> HIDE DEF n
  <2>4. \A g \in Guns : \A i \in DOMAIN ring'[g] : AgedAt(enc, ring'[g][i])
    <3> SUFFICES ASSUME NEW g \in Guns, NEW i \in DOMAIN ring'[g] PROVE AgedAt(enc, ring'[g][i])
      OBVIOUS
    <3>0. ring[g] \in Seq(Sheets)
      BY <1>0
    <3>1. CASE ring'[g] = ring[g]
      BY <1>0, <3>1
    <3>2. CASE ring'[g] = Append(ring[g], n)
      <4>1. i \in 1 .. Len(ring[g]) + 1 /\ (ring'[g][i] = n \/ (i \in DOMAIN ring[g] /\ ring'[g][i] = ring[g][i]))
        BY <2>3, <3>0, <3>2
      <4>2. QED
        BY <1>0, <2>2, <4>1
    <3>3. QED
      BY <2>1, <3>1, <3>2
  <2>5. UNCHANGED <<enc, task>>
    BY <1>2 DEF PhotocellEdge
  <2>6. QED
    BY <2>4, <2>5 DEF AllAged, FreshReading
<1>3. CASE StopFlush
  <2>1. UNCHANGED <<enc, task>> /\ \A g \in Guns : DOMAIN ring'[g] = {}
    <3>1. UNCHANGED <<enc, task>> /\ \A g \in Guns : ring'[g] = <<>>
      BY <1>3 DEF StopFlush
    <3>2. DOMAIN <<>> = {}
      OBVIOUS
    <3>3. QED
      BY <3>1, <3>2
  <2>2. QED
    BY <2>1 DEF AllAged, FreshReading
<1>4. CASE ~Move /\ ~PhotocellEdge /\ ~StopFlush
  <2>1. UNCHANGED <<enc, ring, task>>
    BY <1>4 DEF Next, TickBegin, TickClose, Publish, ApplyScalars, Start, Stops, StopAbort, StopStore,
                FaultStop, GunCloses, TestFire, TaskOnly
  <2>2. QED
    BY <2>1 DEF AllAged, FreshReading
<1>5. QED
  BY <1>1, <1>2, <1>3, <1>4

\* What a lateness of zero or more says.
LEMMA Reached ==
    ASSUME Types, AllAged, ~NothingLeft(cfgv, task.g, task.peek), task.pc = "event", Lateness >= 0
    PROVE  task.peek.age >= NextAt(cfgv, task.g, task.peek)
<1> DEFINE s == task.peek
           at == NextAt(cfgv, task.g, s)
           now == task.now
<1>1. s \in Sheets /\ s.elem # 0 /\ EnvTypes /\ task.g \in Guns /\ cfgv \in Versions /\ now \in Int
  BY TaskFields DEF HasPeek, Types, Pulses
<1>2. at \in 0 .. AgeMax
  BY <1>1, EventTyped
<1>3. s.age \in 0 .. AgeMax /\ s.edge \in Int /\ AgeMax \in Nat
  BY <1>1, Constants DEF Sheets, Pulses
<1>4. PICK lag \in 0 .. LagMax : enc = (now + lag) % PulseMod
  BY DEF AllAged, FreshReading
<1>5. s.age = AgeMax \/ enc = (s.edge + s.age) % PulseMod
  BY <1>1 DEF AllAged, AgedAt
<1>6. Lateness = Diff(now, (s.edge + at) % PulseMod)
  BY DEF Lateness, EventPulse
<1>7. SUFFICES ASSUME ~(s.age >= at) PROVE FALSE
  OBVIOUS
<1> DEFINE a == s.age
           e == s.edge
           d == (a - lag) - at
<1>8. /\ a \in Int /\ e \in Int /\ at \in Int /\ lag \in Int /\ d \in Int
      /\ a < at /\ 0 <= a /\ at <= AgeMax /\ 0 <= lag /\ lag <= LagMax
  BY <1>2, <1>3, <1>7, Window
<1>9. enc = (e + a) % PulseMod
  BY <1>3, <1>5, <1>8
<1> DEFINE p == (e + at) % PulseMod
<1>10. Diff(now, p) >= 0
  BY <1>6
<1> HIDE DEF s, at, now, a, e, p
<1>11. -(PulseMod \div 2) <= d /\ d < 0 /\ d < PulseMod \div 2
  BY <1>8, Window
<1>12. p \in Int
  BY <1>8, Wrapped DEF p, Pulses
\* now - p, e + a - lag - (e + at) and d are the same modulo PulseMod.
<1>13. PICK k \in Int : now + lag = PulseMod * k + enc
  <2>1. now + lag \in Int
    BY <1>1, <1>8 DEF now
  <2>2. QED
    BY <1>4, <2>1, Quotient
<1>14. PICK l \in Int : e + a = PulseMod * l + enc
  <2>1. e + a \in Int
    BY <1>8
  <2>2. QED
    BY <1>9, <2>1, Quotient
<1>15. PICK m \in Int : e + at = PulseMod * m + p
  <2>1. e + at \in Int
    BY <1>8
  <2>2. QED
    BY <2>1, Quotient DEF p
<1>16. PICK q \in Int : d = PulseMod * q + (d % PulseMod)
  BY <1>8, Quotient
<1>17. d % PulseMod \in Pulses /\ d % PulseMod \in Int /\ PulseMod \in Int /\ enc \in Int
  BY <1>1, <1>8, Wrapped, Window DEF Pulses, EnvTypes
<1> DEFINE r == d % PulseMod
           K == PulseMod * k
           L == PulseMod * l
           M == PulseMod * m
           Q == PulseMod * q
<1>18. K \in Int /\ L \in Int /\ M \in Int /\ Q \in Int /\ r \in Int /\ now \in Int
  BY <1>1, <1>13, <1>14, <1>15, <1>16, <1>17 DEF now
<1>19. now + lag = K + enc /\ e + a = L + enc /\ e + at = M + p /\ d = Q + r
  BY <1>13, <1>14, <1>15, <1>16
<1>20. K - L + M + Q = PulseMod * (k - l + m + q)
  BY <1>13, <1>14, <1>15, <1>16, <1>17
<1>21. d = (a - lag) - at
  OBVIOUS
<1> HIDE DEF K, L, M, Q, r, d
<1>22. now - p = (K - L + M + Q) + r
  BY <1>8, <1>12, <1>17, <1>18, <1>19, <1>21
<1>23. now - p = PulseMod * (k - l + m + q) + r
  BY <1>20, <1>22
<1>24. r \in Pulses /\ k - l + m + q \in Int
  BY <1>13, <1>14, <1>15, <1>16, <1>17 DEF r
<1>25. (now - p) % PulseMod = d % PulseMod
  BY <1>23, <1>24, Rest DEF r
<1>26. Diff(now, p) = d
  BY <1>8, <1>11, <1>12, <1>18, <1>25, DiffExact
<1>27. QED
  BY <1>8, <1>10, <1>11, <1>26

LEMMA AllAgedStep == Types /\ AllAged /\ [Next]_vars => AllAged'
<1>1. AllAged /\ UNCHANGED vars => AllAged'
  BY DEF vars, AllAged, FreshReading
<1>2. QED
  BY <1>1, TaskAges, WorldAges

\* Nothing is glued before the sheet is there, at any width of the counter that leaves
\* room for a pattern and a late task, with any commands and edits.
THEOREM EarlyCorrect == Spec => NeverEarly
<1> DEFINE NotEarly == \A a \in {"dot", "open"} :
                          DropDue(a) => task.peek.age >= NextAt(cfgv, task.g, task.peek)
<1>1. Types /\ AllAged /\ [Next]_vars => [NotEarly]_vars
  BY Reached DEF DropDue, EventDue, At
<1>2. Spec => []Types
  BY TypesStart, TypesStep, PTL DEF Spec
<1>3. Spec => []AllAged
  BY <1>2, AllAgedStart, AllAgedStep, PTL DEF Spec
<1>4. QED
  BY <1>1, <1>2, <1>3, PTL DEF Spec, NeverEarly

----------------------------------------------------------------------------
(* The end of a line, told to the tick hook in time.                       *)

\* Pulses from b on to a.
Dist(a, b) == (a - b) % PulseMod

LEMMA Shift ==
    ASSUME NEW y \in Int, NEW j \in Int
    PROVE  (PulseMod * j + y) % PulseMod = y % PulseMod
<1>1. PICK q \in Int : y = PulseMod * q + (y % PulseMod)
  BY Quotient
<1> DEFINE r == y % PulseMod
<1>2. r \in Pulses /\ r \in Int
  BY Wrapped DEF Pulses
<1>3. PulseMod * j + PulseMod * q = PulseMod * (j + q)
  BY <1>1, Window
<1>4. PulseMod * j \in Int /\ PulseMod * q \in Int /\ y = PulseMod * q + r
  BY <1>1, Window
<1> HIDE DEF r
<1>5. PulseMod * j + y = PulseMod * (j + q) + r
  BY <1>2, <1>3, <1>4
<1>6. (PulseMod * (j + q) + r) % PulseMod = r
  BY <1>1, <1>2, Rest
<1>7. QED
  BY <1>5, <1>6 DEF r

LEMMA DistTyped ==
    ASSUME NEW a \in Pulses, NEW b \in Pulses
    PROVE  Dist(a, b) \in Pulses /\ Dist(a, b) \in Int /\ 0 <= Dist(a, b) /\ Dist(a, a) = 0
<1>1. a - b \in Int /\ a - a = 0 /\ 0 \in Pulses
  BY Window DEF Pulses
<1>2. Dist(a, b) \in Pulses
  BY <1>1, Wrapped DEF Dist
<1>3. Dist(a, a) = 0
  BY <1>1, SmallRest DEF Dist
<1>4. QED
  BY <1>2, <1>3 DEF Pulses

\* From a pulse to the one that lies x beyond another.
LEMMA DistTo ==
    ASSUME NEW a \in Pulses, NEW b \in Pulses, NEW c \in Pulses, NEW x \in Int
    PROVE  /\ Dist(b, (c + x) % PulseMod) = ((Dist(a, c) - Dist(a, b)) - x) % PulseMod
           /\ (c + x) % PulseMod \in Pulses
<1>1. a \in Int /\ b \in Int /\ c \in Int /\ a - c \in Int /\ a - b \in Int /\ c + x \in Int
  BY DEF Pulses
<1> DEFINE w == (c + x) % PulseMod
<1>2. PICK k \in Int : a - c = PulseMod * k + Dist(a, c)
  BY <1>1, Quotient DEF Dist
<1>3. PICK l \in Int : a - b = PulseMod * l + Dist(a, b)
  BY <1>1, Quotient DEF Dist
<1>4. PICK m \in Int : c + x = PulseMod * m + w
  BY <1>1, Quotient
<1>5. w \in Pulses /\ w \in Int
  BY <1>1, Wrapped DEF Pulses
<1> DEFINE K == PulseMod * k
           L == PulseMod * l
           M == PulseMod * m
           y == (Dist(a, c) - Dist(a, b)) - x
<1>6. K \in Int /\ L \in Int /\ M \in Int /\ Dist(a, c) \in Int /\ Dist(a, b) \in Int
  BY <1>2, <1>3, <1>4, Window, DistTyped
<1>7. y \in Int /\ y = (Dist(a, c) - Dist(a, b)) - x
  BY <1>6
<1>8. (K - L) + M = PulseMod * ((k - l) + m)
  BY <1>2, <1>3, <1>4, Window
<1> HIDE DEF w, K, L, M, y
<1>9. b - w = ((K - L) + M) + y
  BY <1>1, <1>2, <1>3, <1>4, <1>5, <1>6, <1>7 DEF K, L, M
<1>10. (b - w) % PulseMod = y % PulseMod
  <2>1. (k - l) + m \in Int
    BY <1>2, <1>3, <1>4
  <2>2. QED
    BY <1>7, <1>8, <1>9, <2>1, Shift
<1>11. QED
  BY <1>5, <1>10 DEF Dist, w, y

\* One pulse more, and one pulse less to go.
LEMMA DistGrows ==
    ASSUME NEW a \in Pulses, NEW b \in Pulses, Dist(a, b) + 1 < PulseMod
    PROVE  (a + 1) % PulseMod \in Pulses /\ Dist((a + 1) % PulseMod, b) = Dist(a, b) + 1
<1>1. a \in Int /\ b \in Int /\ a - b \in Int /\ a + 1 \in Int /\ Dist(a, b) \in Int /\ 0 <= Dist(a, b)
  BY DistTyped DEF Pulses
<1>2. PICK k \in Int : a - b = PulseMod * k + Dist(a, b)
  BY <1>1, Quotient DEF Dist
<1> DEFINE d == Dist(a, b)
           K == PulseMod * k
<1>3. d + 1 \in Pulses /\ K \in Int /\ d \in Int
  BY <1>1, <1>2, Window DEF Pulses
<1>4. (((a + 1) % PulseMod) + (0 - b)) % PulseMod = ((a + 1) + (0 - b)) % PulseMod
  <2>1. 0 - b \in Int
    BY <1>1
  <2>2. QED
    BY <1>1, <2>1, WrapSum
<1>5. (a + 1) % PulseMod \in Pulses /\ (a + 1) % PulseMod \in Int
  BY <1>1, Wrapped DEF Pulses
<1> DEFINE e == (a + 1) % PulseMod
<1>6. a - b = K + d
  BY <1>2
<1> HIDE DEF d, K, e
<1>7. e + (0 - b) = e - b /\ (a + 1) + (0 - b) = K + (d + 1)
  BY <1>1, <1>3, <1>5, <1>6 DEF e
<1>8. (K + (d + 1)) % PulseMod = d + 1
  BY <1>2, <1>3, Rest DEF K
<1>9. (e - b) % PulseMod = d + 1
  BY <1>4, <1>7, <1>8 DEF e
<1>10. QED
  BY <1>5, <1>9 DEF Dist, d, e

LEMMA DistShrinks ==
    ASSUME NEW a \in Pulses, NEW b \in Pulses, Dist(b, a) >= 1
    PROVE  /\ Dist(b, (a + 1) % PulseMod) = Dist(b, a) - 1
           /\ Dist(b, a) = 1 => Dist((a + 1) % PulseMod, b) = 0
<1>1. /\ Dist(b, (a + 1) % PulseMod) = ((Dist(b, a) - Dist(b, b)) - 1) % PulseMod
      /\ (a + 1) % PulseMod \in Pulses
  BY DistTo
<1>2. Dist(b, a) \in Pulses /\ Dist(b, a) \in Int /\ Dist(b, b) = 0
  BY DistTyped
<1> DEFINE d == Dist(b, a)
<1>3. d - 1 \in Pulses
  BY <1>2, Window DEF Pulses
<1>4. (d - 0) - 1 = d - 1
  BY <1>2
<1>5. Dist(b, (a + 1) % PulseMod) = d - 1
  BY <1>1, <1>2, <1>3, <1>4, SmallRest
<1> DEFINE e == (a + 1) % PulseMod
<1>6. ASSUME d = 1 PROVE Dist(e, b) = 0
  <2>1. e \in Int /\ b \in Int /\ b - e \in Int
    BY <1>1 DEF Pulses
  <2>2. Dist(b, e) = 0
    BY <1>5, <1>6
  <2> HIDE DEF e
  <2>3. PICK k \in Int : b - e = PulseMod * k + 0
    BY <2>1, <2>2, Quotient DEF Dist
  <2>4. e - b = PulseMod * (0 - k) + 0 /\ 0 - k \in Int /\ 0 \in Pulses
    BY <2>1, <2>3, Window DEF Pulses
  <2>5. QED
    BY <2>4, Rest DEF Dist
<1>7. QED
  BY <1>5, <1>6

\* A sheet whose edge is at most b pulses behind e, and whose age says so; ...
Young(e, b, s) ==
    /\ Dist(e, s.edge) <= b
    /\ s.age = IF Dist(e, s.edge) < AgeMax THEN Dist(e, s.edge) ELSE AgeMax
\* ... a queue of them, the oldest first; ...
Row(e, b, q) ==
    /\ \A i \in DOMAIN q : Young(e, b, q[i])
    /\ \A i, j \in DOMAIN q : i < j => Dist(e, q[i].edge) >= Dist(e, q[j].edge)
\* ... and one that is no younger than a queue.
Ahead(e, b, s, q) ==
    /\ Young(e, b, s)
    /\ \A i \in DOMAIN q : Dist(e, s.edge) >= Dist(e, q[i].edge)

LEMMA RowOfNone == ASSUME NEW e, NEW b PROVE Row(e, b, <<>>)
BY DEF Row

LEMMA RowLater ==
    ASSUME NEW e \in Pulses, NEW b \in Int, NEW c \in Int, b <= c, NEW q \in Seq(Sheets)
    PROVE  /\ Row(e, b, q) => Row(e, c, q)
           /\ \A s \in Sheets : Ahead(e, b, s, q) => Ahead(e, c, s, q)
<1>1. \A s \in Sheets : Young(e, b, s) => Young(e, c, s)
  <2> SUFFICES ASSUME NEW s \in Sheets, Young(e, b, s) PROVE Young(e, c, s)
    OBVIOUS
  <2>1. Dist(e, s.edge) \in Int
    BY DistTyped DEF Sheets
  <2>2. QED
    BY <2>1 DEF Young
<1>2. \A i \in DOMAIN q : q[i] \in Sheets
  BY Items
<1>3. QED
  BY <1>1, <1>2 DEF Row, Ahead

LEMMA RowTail ==
    ASSUME NEW e \in Pulses, NEW b, NEW q \in Seq(Sheets), q # <<>>, Row(e, b, q)
    PROVE  /\ Ahead(e, b, Head(q), q) /\ Row(e, b, Tail(q))
           /\ Tail(q) # <<>> => Ahead(e, b, Head(Tail(q)), Tail(q))
<1>1. ASSUME NEW r \in Seq(Sheets), r # <<>>, Row(e, b, r) PROVE Ahead(e, b, Head(r), r)
  <2>1. Head(r) = r[1] /\ 1 \in DOMAIN r /\ DOMAIN r = 1 .. Len(r) /\ Len(r) \in Nat
    BY <1>1
  <2>2. Young(e, b, Head(r))
    BY <1>1, <2>1 DEF Row
  <2>3. ASSUME NEW i \in DOMAIN r PROVE Dist(e, Head(r).edge) >= Dist(e, r[i].edge)
    <3>1. CASE i = 1
      <4>0. r[1] \in Sheets
        BY <1>1, <2>1
      <4>1. r[1].edge \in Pulses
        BY <4>0 DEF Sheets
      <4>2. Dist(e, r[1].edge) \in Int
        BY <4>1, DistTyped
      <4>3. QED
        BY <2>1, <3>1, <4>2
    <3>2. CASE i # 1
      <4>1. 1 < i
        BY <2>1, <3>2
      <4>2. QED
        BY <1>1, <2>1, <4>1 DEF Row
    <3>3. QED
      BY <3>1, <3>2
  <2>4. QED
    BY <2>2, <2>3 DEF Ahead
<1>2. /\ Tail(q) \in Seq(Sheets)
      /\ \A i \in DOMAIN Tail(q) : Tail(q)[i] = q[i + 1] /\ i + 1 \in DOMAIN q /\ i \in Nat
  OBVIOUS
<1> DEFINE t == Tail(q)
<1> HIDE DEF t
<1>3. Row(e, b, t)
  <2>1. \A i \in DOMAIN t : Young(e, b, t[i])
    BY <1>2 DEF Row, t
  <2>2. \A i, j \in DOMAIN t : i < j => i + 1 < j + 1
    BY <1>2 DEF t
  <2>3. \A i, j \in DOMAIN t : i < j => Dist(e, t[i].edge) >= Dist(e, t[j].edge)
    BY <1>2, <2>2 DEF Row, t
  <2>4. QED
    BY <2>1, <2>3 DEF Row
<1>4. QED
  BY <1>1, <1>2, <1>3 DEF t

\* The head is replaced by what the task has made of it.
LEMMA RowHead ==
    ASSUME NEW e \in Pulses, NEW b, NEW q \in Seq(Sheets), q # <<>>, Row(e, b, q),
           NEW s \in Sheets, Ahead(e, b, s, q), NEW r \in Seq(Sheets), r = [q EXCEPT ![1] = s]
    PROVE  Row(e, b, r) /\ Ahead(e, b, s, r)
<1>1. /\ DOMAIN r = DOMAIN q /\ 1 \in DOMAIN q /\ r[1] = s
      /\ \A i \in DOMAIN q : i # 1 => r[i] = q[i]
      /\ \A i \in DOMAIN q : i = 1 \/ 1 < i
      /\ \A i, j \in DOMAIN q : i < j => j # 1
  OBVIOUS
<1>2. Dist(e, s.edge) \in Int
  BY DistTyped DEF Sheets
<1>3. \A i \in DOMAIN r : Young(e, b, r[i])
  BY <1>1 DEF Row, Ahead
<1>4. \A i \in DOMAIN r : Dist(e, s.edge) >= Dist(e, r[i].edge)
  <2>1. Dist(e, s.edge) >= Dist(e, s.edge)
    BY <1>2
  <2>2. QED
    BY <1>1, <2>1 DEF Ahead
<1>5. ASSUME NEW i \in DOMAIN r, NEW j \in DOMAIN r, i < j PROVE Dist(e, r[i].edge) >= Dist(e, r[j].edge)
  <2>1. CASE i = 1
    BY <1>1, <1>4, <2>1
  <2>2. CASE i # 1
    BY <1>1, <1>5, <2>2 DEF Row
  <2>3. QED
    BY <2>1, <2>2
<1>6. QED
  BY <1>3, <1>4, <1>5 DEF Row, Ahead

\* A sheet arrives.
LEMMA RowMore ==
    ASSUME NEW e \in Pulses, NEW b \in Int, 0 <= b, NEW q \in Seq(Sheets),
           NEW r, r = Append(q, NewSheet(e))
    PROVE  /\ Row(e, b, q) => Row(e, b, r)
           /\ \A s \in Sheets : Ahead(e, b, s, q) => Ahead(e, b, s, r)
<1> DEFINE n == NewSheet(e)
<1>1. n \in Sheets /\ n.edge = e /\ n.age = 0
  BY Records DEF NewSheet
<1> HIDE DEF n
<1>2. Dist(e, n.edge) = 0
  BY <1>1, DistTyped
<1>3. Young(e, b, n)
  BY <1>1, <1>2, Window DEF Young
<1>4. /\ DOMAIN r = 1 .. Len(q) + 1 /\ DOMAIN q = 1 .. Len(q) /\ Len(q) \in Nat
      /\ \A i \in 1 .. Len(q) : r[i] = q[i]
      /\ r[Len(q) + 1] = n
  BY <1>1 DEF n
<1>5. \A s \in Sheets : Dist(e, s.edge) >= Dist(e, n.edge)
  BY <1>2, DistTyped DEF Sheets
<1>6. \A i \in DOMAIN r : (i \in DOMAIN q /\ r[i] = q[i]) \/ (i = Len(q) + 1 /\ r[i] = n)
  <2> SUFFICES ASSUME NEW i \in DOMAIN r
               PROVE  (i \in DOMAIN q /\ r[i] = q[i]) \/ (i = Len(q) + 1 /\ r[i] = n)
    OBVIOUS
  <2> DEFINE l == Len(q)
  <2>1. i \in 1 .. l + 1 /\ l \in Nat
    BY <1>4
  <2> HIDE DEF l
  <2>2. i \in 1 .. l \/ i = l + 1
    BY <2>1
  <2>3. QED
    BY <1>4, <2>2 DEF l
<1>7. ASSUME Row(e, b, q) PROVE Row(e, b, r)
  <2>1. \A i \in DOMAIN r : Young(e, b, r[i])
    BY <1>3, <1>6, <1>7 DEF Row
  <2>2. ASSUME NEW i \in DOMAIN r, NEW j \in DOMAIN r, i < j PROVE Dist(e, r[i].edge) >= Dist(e, r[j].edge)
    <3>1. i \in DOMAIN q /\ r[i] = q[i] /\ q[i] \in Sheets
      BY <1>4, <2>2
    <3>2. CASE r[j] = n
      BY <1>5, <3>1, <3>2
    <3>3. CASE j \in DOMAIN q /\ r[j] = q[j]
      BY <1>7, <2>2, <3>1, <3>3 DEF Row
    <3>4. QED
      BY <1>6, <3>2, <3>3
  <2>3. QED
    BY <2>1, <2>2 DEF Row
<1>8. ASSUME NEW s \in Sheets, Ahead(e, b, s, q) PROVE Ahead(e, b, s, r)
  BY <1>5, <1>6, <1>8 DEF Ahead
<1>9. QED
  BY <1>7, <1>8

\* One pulse more.
LEMMA YoungOlder ==
    ASSUME NEW e \in Pulses, NEW b \in Int, b + 1 < PulseMod, NEW s \in Sheets, s.elem # 0, Young(e, b, s)
    PROVE  /\ Young((e + 1) % PulseMod, b + 1, Older(s)) /\ Older(s).edge = s.edge
           /\ Dist((e + 1) % PulseMod, s.edge) = Dist(e, s.edge) + 1
<1> DEFINE d == Dist(e, s.edge)
           f == (e + 1) % PulseMod
           r == Older(s)
<1>1. s.edge \in Pulses /\ s.age \in 0 .. AgeMax /\ d \in Int /\ 0 <= d /\ d <= b
  <2>1. s.edge \in Pulses /\ s.age \in 0 .. AgeMax
    BY DEF Sheets
  <2>2. d \in Int /\ 0 <= d
    BY <2>1, DistTyped
  <2>3. QED
    BY <2>1, <2>2 DEF Young
<1>2. d + 1 < PulseMod
  BY <1>1, Window
<1>3. Dist(f, s.edge) = d + 1
  BY <1>1, <1>2, DistGrows
<1>4. s.age = IF d < AgeMax THEN d ELSE AgeMax
  BY DEF Young
<1>5. r.edge = s.edge /\ r.age = IF s.age >= AgeMax THEN s.age ELSE s.age + 1
  <2>1. CASE s.age >= AgeMax
    BY <2>1 DEF Older
  <2>2. CASE ~(s.age >= AgeMax)
    <3>1. r = [s EXCEPT !.age = s.age + 1]
      BY <2>2 DEF Older
    <3> HIDE DEF r
    <3>2. QED
      BY <2>2, <3>1 DEF Sheets
  <2>3. QED
    BY <2>1, <2>2
<1> HIDE DEF d, f, r
<1>6. r.age = IF d + 1 < AgeMax THEN d + 1 ELSE AgeMax
  BY <1>1, <1>4, <1>5, Window
<1>7. d + 1 <= b + 1
  BY <1>1
<1>8. Young(f, b + 1, r)
  BY <1>3, <1>5, <1>6, <1>7 DEF Young
<1>9. QED
  BY <1>3, <1>5, <1>8 DEF d, f, r

LEMMA RowOlder ==
    ASSUME NEW e \in Pulses, NEW b \in Int, b + 1 < PulseMod, NEW q \in Seq(Sheets), Row(e, b, q),
           \A i \in DOMAIN q : q[i].elem # 0, NEW r, r = [i \in DOMAIN q |-> Older(q[i])]
    PROVE  /\ Row((e + 1) % PulseMod, b + 1, r)
           /\ \A s \in Sheets : s.elem # 0 /\ Ahead(e, b, s, q)
                                  => Ahead((e + 1) % PulseMod, b + 1, Older(s), r)
<1> DEFINE f == (e + 1) % PulseMod
<1>1. DOMAIN r = DOMAIN q /\ \A i \in DOMAIN q : r[i] = Older(q[i]) /\ q[i] \in Sheets
  BY Items
<1>2. \A s \in Sheets : s.elem # 0 /\ Young(e, b, s) =>
         /\ Young(f, b + 1, Older(s)) /\ Dist(f, Older(s).edge) = Dist(e, s.edge) + 1
         /\ Dist(e, s.edge) \in Int
  BY YoungOlder, DistTyped DEF Sheets
<1> HIDE DEF f
<1>3. \A i \in DOMAIN q : /\ Young(f, b + 1, r[i]) /\ Dist(f, r[i].edge) = Dist(e, q[i].edge) + 1
                          /\ Dist(e, q[i].edge) \in Int
  BY <1>1, <1>2 DEF Row
<1>4. \A i, j \in DOMAIN r : i < j => Dist(f, r[i].edge) >= Dist(f, r[j].edge)
  <2> SUFFICES ASSUME NEW i \in DOMAIN r, NEW j \in DOMAIN r, i < j
               PROVE  Dist(f, r[i].edge) >= Dist(f, r[j].edge)
    OBVIOUS
  <2>1. Dist(e, q[i].edge) >= Dist(e, q[j].edge)
    BY <1>1 DEF Row
  <2>2. QED
    BY <1>1, <1>3, <2>1
<1>5. Row(f, b + 1, r)
  BY <1>1, <1>3, <1>4 DEF Row
<1>6. ASSUME NEW s \in Sheets, s.elem # 0, Ahead(e, b, s, q) PROVE Ahead(f, b + 1, Older(s), r)
  <2>1. /\ Young(f, b + 1, Older(s)) /\ Dist(f, Older(s).edge) = Dist(e, s.edge) + 1
        /\ Dist(e, s.edge) \in Int
    BY <1>2, <1>6 DEF Ahead
  <2>2. ASSUME NEW i \in DOMAIN r PROVE Dist(f, Older(s).edge) >= Dist(f, r[i].edge)
    <3>1. Dist(e, s.edge) >= Dist(e, q[i].edge)
      BY <1>1, <1>6 DEF Ahead
    <3>2. QED
      BY <1>1, <1>3, <2>1, <3>1
  <2>3. QED
    BY <2>1, <2>2 DEF Ahead
<1>7. QED
  BY <1>5, <1>6 DEF f

LEMMA RowBounded ==
    ASSUME NEW e \in Pulses, NEW b, NEW c \in Int, NEW q \in Seq(Sheets), Row(e, b, q),
           NEW s \in Sheets, Ahead(e, b, s, q), Dist(e, s.edge) <= c
    PROVE  Row(e, c, q) /\ Ahead(e, c, s, q)
<1>1. Dist(e, s.edge) \in Int /\ \A i \in DOMAIN q : Dist(e, q[i].edge) \in Int
  <2>1. \A i \in DOMAIN q : q[i] \in Sheets
    BY Items
  <2>2. \A t \in Sheets : Dist(e, t.edge) \in Int
    BY DistTyped DEF Sheets
  <2>3. QED
    BY <2>1, <2>2
<1>2. \A i \in DOMAIN q : Dist(e, q[i].edge) <= c
  BY <1>1 DEF Ahead
<1>3. QED
  BY <1>1, <1>2 DEF Row, Ahead, Young

\* Gun g has been looked after since the encoder was read last.
Settled(g) ==
    \/ task.pc = "wait"
    \/ task.pc \in RoundPCs \cup {"reset"} /\ g < task.g
    \/ task.g = g /\ (task.pc \in {"due", "gate"} \/ (Firing /\ task.act = "resume"))
\* No sheet on its way to a gun that has been looked after was beyond the pattern then,
\* and a round later none has moved on by more than a late task lets the encoder.
Limit(g) == Dist(enc, task.now) + (AgeMax - 1) + (IF Settled(g) THEN 0 ELSE LagMax)
Punctual(g) ==
    /\ Row(enc, Limit(g), ring[g])
    /\ Busy(g) /\ task.peek.elem # 0 => Ahead(enc, Limit(g), task.peek, ring[g])
AllPunctual == \A g \in Guns : Punctual(g)

LEMMA Lagging ==
    ASSUME Types, AllAged
    PROVE  Dist(enc, task.now) \in 0 .. LagMax /\ Dist(enc, task.now) \in Int
<1>1. PICK lag \in 0 .. LagMax : enc = (task.now + lag) % PulseMod
  BY DEF AllAged, FreshReading
<1> DEFINE m == task.now
<1>2. m \in Int /\ lag \in Int /\ lag \in Pulses
  BY TaskFields, Window DEF Pulses
<1>3. (((m + lag) % PulseMod) + (0 - m)) % PulseMod = ((m + lag) + (0 - m)) % PulseMod
  <2>1. m + lag \in Int /\ 0 - m \in Int
    BY <1>2
  <2>2. QED
    BY <2>1, WrapSum
<1>4. enc = (m + lag) % PulseMod /\ enc \in Int
  BY <1>1, TaskFields DEF Pulses
<1> HIDE DEF m
<1>5. (m + lag) + (0 - m) = lag /\ enc + (0 - m) = enc - m
  BY <1>2, <1>4
<1>6. Dist(enc, m) = lag
  BY <1>2, <1>3, <1>4, <1>5, SmallRest DEF Dist
<1>7. QED
  BY <1>2, <1>6 DEF m

LEMMA LimitTyped ==
    ASSUME Types, AllAged, NEW g \in Guns
    PROVE  /\ Limit(g) \in Int /\ 0 <= Limit(g) /\ Limit(g) <= AgeMax - 1 + 2 * LagMax
           /\ Limit(g) + 1 < PulseMod
<1> DEFINE x == IF Settled(g) THEN 0 ELSE LagMax
           d == Dist(enc, task.now)
<1>1. x \in 0 .. LagMax
  BY Window
<1>2. d \in 0 .. LagMax
  BY Lagging
<1> HIDE DEF x, d
<1>3. Limit(g) = d + (AgeMax - 1) + x
  BY DEF Limit, x, d
<1>4. QED
  BY <1>1, <1>2, <1>3, Window

LEMMA LimitGrows ==
    ASSUME Types, AllAged, NEW g \in Guns, enc' = enc, task'.now = task.now, Settled(g)' => Settled(g)
    PROVE  Limit(g)' \in Int /\ Limit(g) <= Limit(g)'
<1> DEFINE x == IF Settled(g) THEN 0 ELSE LagMax
           y == IF Settled(g)' THEN 0 ELSE LagMax
           d == Dist(enc, task.now)
<1>1. x \in Int /\ y \in Int /\ x <= y
  BY Window
<1>2. d \in Int
  BY Lagging
<1> HIDE DEF x, y, d
<1>3. Limit(g) = d + (AgeMax - 1) + x
  BY DEF Limit, x, d
<1>4. Limit(g)' = d + (AgeMax - 1) + y
  BY DEF Limit, y, d
<1>5. QED
  BY <1>1, <1>2, <1>3, <1>4, Window

\* Nothing but time makes a sheet older.
LEMMA StillPunctual ==
    ASSUME Types, AllAged, NEW g \in Guns, Punctual(g), enc' = enc, task'.now = task.now,
           Settled(g)' => Settled(g), ring'[g] = ring[g],
           Busy(g)' => Busy(g) /\ task'.peek = task.peek
    PROVE  Punctual(g)'
<1>1. Limit(g) \in Int /\ Limit(g)' \in Int /\ Limit(g) <= Limit(g)'
  BY LimitTyped, LimitGrows
<1>2. enc \in Pulses /\ ring[g] \in Seq(Sheets) /\ task.peek \in Sheets
  BY TaskFields DEF Types, RingTypes
<1> DEFINE b == Limit(g)
           c == Limit(g)'
<1> HIDE DEF b, c
<1>3. b \in Int /\ c \in Int /\ b <= c
  BY <1>1 DEF b, c
<1>4. Row(enc, c, ring[g]) /\ (Ahead(enc, b, task.peek, ring[g]) => Ahead(enc, c, task.peek, ring[g]))
  <2>1. Row(enc, b, ring[g])
    BY DEF Punctual, b
  <2>2. QED
    BY <1>2, <1>3, <2>1, RowLater
<1>5. Busy(g) /\ task.peek.elem # 0 => Ahead(enc, b, task.peek, ring[g])
  BY DEF Punctual, b
<1>6. Row(enc', c, ring'[g]) /\ (Busy(g)' /\ task'.peek.elem # 0 => Ahead(enc', c, task'.peek, ring'[g]))
  BY <1>4, <1>5
<1>7. QED
  BY <1>6 DEF Punctual, c

LEMMA EmptyPunctual ==
    ASSUME NEW g \in Guns, ring'[g] = <<>>, ~Busy(g)' \/ task'.peek.elem = 0
    PROVE  Punctual(g)'
BY RowOfNone DEF Punctual

\* What a step of a round settles.
LEMMA Settles ==
    ASSUME Types, Task, task.pc \notin {"wait", "reset"}, ~CheckEdit, NEW g \in Guns
    PROVE  /\ enc' = enc /\ task'.now = task.now
           /\ g # task.g => (Settled(g)' => Settled(g))
           /\ task' = NextGun => ~Busy(g)'
           /\ task'.g = task.g /\ task'.pc \in RoundPCs \ {"head"} /\ g = task.g =>
                 (Settled(g)' => task'.pc \in {"due", "gate"} \/ (Firing' /\ task'.act = "resume"))
<1>1. /\ UNCHANGED <<enc, active, stop, cfgv, edited, offs, seen, closing>>
      /\ task'.now = task.now /\ task.pc \in RoundPCs
      /\ task' = NextGun \/ (task'.g = task.g /\ task'.pc \in RoundPCs \ {"head"})
  BY UnderWay
<1>2. g \in Nat /\ task.g \in Nat /\ g <= NumGuns /\ NumGuns \in Nat
  BY TaskFields, Constants DEF Guns
<1>3. ASSUME task' = NextGun, g # task.g, Settled(g)' PROVE Settled(g)
  <2>1. IF task.g = NumGuns THEN task'.pc = "wait" /\ task'.g = 1
        ELSE task'.pc = "head" /\ task'.g = task.g + 1
    BY <1>3, NextGunTyped
  <2>2. CASE task.g = NumGuns
    <3>1. g < task.g
      BY <1>2, <1>3, <2>2
    <3>2. QED
      BY <1>1, <3>1 DEF Settled
  <2>3. CASE task.g # NumGuns
    <3>1. g < task.g + 1
      BY <1>3, <2>1, <2>3 DEF Settled, Firing
    <3>2. g < task.g
      BY <1>2, <1>3, <3>1
    <3>3. QED
      BY <1>1, <3>2 DEF Settled
  <2>4. QED
    BY <2>2, <2>3
<1>4. ASSUME task'.g = task.g, task'.pc \in RoundPCs \ {"head"}
      PROVE  /\ g # task.g => (Settled(g)' => Settled(g))
             /\ g = task.g => (Settled(g)' => \/ task'.pc \in {"due", "gate"}
                                              \/ Firing' /\ task'.act = "resume")
  <2>1. ~(g < g) /\ "wait" \notin RoundPCs
    BY <1>2 DEF RoundPCs
  <2>2. QED
    BY <1>1, <1>4, <2>1 DEF Settled
<1>5. task' = NextGun => ~Busy(g)'
  BY RoundGoesOn
<1>6. QED
  BY <1>1, <1>3, <1>4, <1>5

\* An event that is not due is ahead of the sheet as it was when the encoder was read.
LEMMA NotDuePunctual ==
    ASSUME Types, AllAged, NEW g \in Guns, g = task.g, Punctual(g), NotDue
    PROVE  Punctual(g)'
<1> DEFINE s == task.peek
           at == NextAt(cfgv, g, s)
           lag == Dist(enc, task.now)
           d == Dist(enc, s.edge)
           w == (s.edge + at) % PulseMod
           p == EventPulse(cfgv, g, s)
<1>0. /\ task \in Tasks /\ s \in Sheets /\ s.elem # 0 /\ ring[g] \in Seq(Sheets) /\ cfgv \in Versions
      /\ enc \in Pulses /\ task.now \in Pulses /\ s.edge \in Pulses /\ EnvTypes
      /\ task.pc = "event" /\ ~NothingLeft(cfgv, g, s) /\ Lateness < 0
  BY TaskFields DEF NotDue, At, HasPeek, Types, RingTypes, Sheets
<1>1. /\ task'.pc = "due" /\ task'.g = g /\ task'.peek = s /\ ring' = ring /\ enc' = enc
      /\ task'.now = task.now
  <2>1. task' = [task EXCEPT !.pc = "due", !.due = TRUE, !.pulse = p] /\ ring' = ring /\ enc' = enc
    BY DEF NotDue
  <2> HIDE DEF p
  <2>2. QED
    BY <1>0, <2>1 DEF Tasks
<1>2. at \in 0 .. AgeMax
  BY <1>0, EventTyped
<1>3. lag \in Int /\ 0 <= lag /\ lag <= LagMax /\ d \in Int /\ 0 <= d
  BY <1>0, Lagging, DistTyped, Window
<1>4. ~Settled(g)
  <2>1. ~(g < g)
    BY Constants
  <2>2. QED
    BY <1>0, <2>1 DEF Settled, Firing
<1>5. Limit(g) = lag + (AgeMax - 1) + LagMax /\ Limit(g)' = lag + (AgeMax - 1)
  <2>1. Limit(g) = lag + (AgeMax - 1) + LagMax
    BY <1>4 DEF Limit
  <2>2. Settled(g)'
    BY <1>1 DEF Settled
  <2>3. Limit(g)' = lag + (AgeMax - 1) + 0
    BY <1>1, <2>2 DEF Limit
  <2>4. QED
    BY <1>3, <2>1, <2>3, Window
<1>6. Ahead(enc, Limit(g), s, ring[g]) /\ Row(enc, Limit(g), ring[g])
  BY <1>0 DEF Punctual, Busy
<1>7. d <= lag + (AgeMax - 1) + LagMax
  BY <1>5, <1>6 DEF Ahead, Young
<1>8. Dist(task.now, w) = ((d - lag) - at) % PulseMod /\ w \in Pulses
  <2>1. at \in Int
    BY <1>2, Window
  <2>2. QED
    BY <1>0, <2>1, DistTo
<1>9. Diff(task.now, w) = (d - lag) - at
  <2> DEFINE x == (d - lag) - at
             now == task.now
  <2>1. x \in Int /\ -(PulseMod \div 2) <= x /\ x < PulseMod \div 2
    <3> HIDE DEF d, lag, at
    <3>1. QED
      BY <1>2, <1>3, <1>7, Window
  <2>2. now \in Int /\ w \in Int
    BY <1>0, <1>8 DEF Pulses
  <2>3. (now - w) % PulseMod = x % PulseMod
    BY <1>8 DEF Dist
  <2> HIDE DEF x, now, w
  <2>4. Diff(now, w) = x
    BY <2>1, <2>2, <2>3, DiffExact
  <2>5. QED
    BY <2>4 DEF x, now
<1>10. Diff(task.now, w) < 0
  BY <1>0 DEF Lateness, EventPulse
<1>11. d <= lag + (AgeMax - 1) /\ lag + (AgeMax - 1) \in Int
  <2> HIDE DEF d, lag, at, w
  <2>1. QED
    BY <1>2, <1>3, <1>9, <1>10, Window
<1>12. Row(enc, lag + (AgeMax - 1), ring[g]) /\ Ahead(enc, lag + (AgeMax - 1), s, ring[g])
  BY <1>0, <1>6, <1>11, RowBounded
<1>13. QED
  BY <1>1, <1>5, <1>12 DEF Punctual

LEMMA RoundPunctual ==
    ASSUME Types, AllAged, Task, task.pc \notin {"wait", "reset"}, ~CheckEdit, NEW g \in Guns, Punctual(g)
    PROVE  Punctual(g)'
<1>0. /\ task \in Tasks /\ task.g \in Guns /\ ring \in [Guns -> Seq(Sheets)] /\ enc \in Pulses
      /\ cfgv \in Versions /\ task.peek \in Sheets
  BY TaskFields DEF Types, RingTypes
<1>1. /\ enc' = enc /\ task'.now = task.now
      /\ task' = NextGun \/ (task'.g = task.g /\ task'.pc \in RoundPCs \ {"head"})
  BY Settles, UnderWay
<1>2. CASE g # task.g
  <2>1. /\ ring'[g] = ring[g] /\ ~Busy(g)' /\ (Settled(g)' => Settled(g))
    BY <1>2, OtherGuns, RoundGoesOn, Settles
  <2>2. QED
    BY <1>1, <2>1, StillPunctual
<1>3. CASE g = task.g /\ HeadSheet
  <2> DEFINE h == Head(ring[g])
  <2>1. task' = [task EXCEPT !.pc = "event", !.peek = h] /\ ring' = ring /\ ring[g] # <<>>
    BY <1>3 DEF HeadSheet
  <2>2. Row(enc, Limit(g), ring[g]) /\ ring[g] \in Seq(Sheets)
    BY <1>0 DEF Punctual
  <2>3. Ahead(enc, Limit(g), h, ring[g]) /\ h \in Sheets
    <3> DEFINE b == Limit(g)
               q == ring[g]
    <3> HIDE DEF b, q
    <3>1. q \in Seq(Sheets) /\ q # <<>> /\ Row(enc, b, q) /\ h = Head(q)
      BY <2>1, <2>2 DEF b, q
    <3>2. Ahead(enc, b, Head(q), q)
      BY <1>0, <3>1, RowTail
    <3>3. Head(q) \in Sheets
      BY <3>1
    <3>4. QED
      BY <3>1, <3>2, <3>3 DEF b, q
  <2> HIDE DEF h
  <2>4. task'.pc = "event" /\ task'.g = g /\ task'.peek = h
    BY <1>0, <1>3, <2>1 DEF Tasks
  <2>5. ~Settled(g)'
    BY <1>0, <1>3, <2>4, Settles DEF RoundPCs, Firing
  <2>6. Limit(g) \in Int /\ Limit(g)' \in Int /\ Limit(g) <= Limit(g)'
    BY <1>1, <2>5, LimitTyped, LimitGrows
  <2> DEFINE b == Limit(g)
             c == Limit(g)'
  <2> HIDE DEF b, c
  <2>7. b \in Int /\ c \in Int /\ b <= c
    BY <2>6 DEF b, c
  <2>8. Row(enc, b, ring[g]) /\ Ahead(enc, b, h, ring[g])
    BY <2>2, <2>3 DEF b
  <2>9. Row(enc, c, ring[g]) /\ Ahead(enc, c, h, ring[g])
    BY <1>0, <2>2, <2>3, <2>7, <2>8, RowLater
  <2>10. QED
    BY <1>1, <2>1, <2>4, <2>9 DEF Punctual, c
<1>4. CASE g = task.g /\ HeadNone
  <2>1. ring'[g] = <<>> /\ task' = NextGun
    BY <1>4 DEF HeadNone
  <2>2. QED
    BY <2>1, Settles, EmptyPunctual
<1>5. CASE g = task.g /\ SheetDone
  <2> DEFINE rest == Popped(g)
             h == Head(rest)
  <2>1. /\ ring' = [ring EXCEPT ![g] = rest] /\ task.pc = "event"
        /\ IF rest = <<>> THEN task' = [task EXCEPT !.pc = "due", !.peek = NoSheet]
           ELSE task' = [task EXCEPT !.peek = h]
    BY <1>5 DEF SheetDone, At
  <2>2. ring'[g] = rest
    BY <1>0, <2>1
  <2>3. CASE rest = <<>>
    <3>1. task'.peek = NoSheet
      BY <1>0, <2>1, <2>3 DEF Tasks
    <3>2. QED
      BY <2>2, <2>3, <3>1, EmptyPunctual DEF NoSheet
  <2>4. CASE rest # <<>>
    <3>1. ring[g] # <<>> /\ rest = Tail(ring[g]) /\ ring[g] \in Seq(Sheets) /\ rest \in Seq(Sheets)
      <4>1. ring[g] # <<>> /\ rest = Tail(ring[g])
        BY <2>4 DEF Popped
      <4>2. ring[g] \in Seq(Sheets)
        BY <1>0
      <4> HIDE DEF rest
      <4>3. rest \in Seq(Sheets)
        BY <4>1, <4>2
      <4>4. QED
        BY <4>1, <4>2, <4>3
    <3>2. Row(enc, Limit(g), ring[g])
      BY DEF Punctual
    <3> DEFINE b == Limit(g)
               c == Limit(g)'
    <3> HIDE DEF rest, b, c
    <3>3. Row(enc, b, rest) /\ Ahead(enc, b, h, rest) /\ h \in Sheets
      <4>1. Row(enc, b, ring[g])
        BY <3>2 DEF b
      <4>2. Row(enc, b, rest) /\ Ahead(enc, b, h, rest)
        BY <1>0, <2>4, <3>1, <4>1, RowTail
      <4>3. h \in Sheets
        BY <2>4, <3>1
      <4>4. QED
        BY <4>2, <4>3
    <3> HIDE DEF h
    <3>4. task'.pc = "event" /\ task'.g = g /\ task'.peek = h
      BY <1>0, <1>5, <2>1, <2>4 DEF Tasks
    <3>5. ~Settled(g)'
      BY <1>0, <1>5, <3>4, Settles DEF RoundPCs, Firing
    <3>6. b \in Int /\ c \in Int /\ b <= c
      BY <1>1, <3>5, LimitTyped, LimitGrows DEF b, c
    <3>7. Row(enc, c, rest) /\ Ahead(enc, c, h, rest)
      BY <1>0, <3>1, <3>3, <3>6, RowLater
    <3>8. QED
      BY <1>1, <2>2, <3>4, <3>7 DEF Punctual, c
  <2>5. QED
    BY <2>3, <2>4
<1>6. CASE g = task.g /\ NotDue
  BY <1>6, NotDuePunctual
<1>7. CASE g = task.g /\ Advance
  <2> DEFINE s == Advanced(cfgv, g, task.peek)
  <2>1. task' = [task EXCEPT !.pc = "event", !.peek = s, !.act = "none"] /\ ring' = WriteBack(g, s)
        /\ task.pc = "advance"
    BY <1>7 DEF Advance, At
  <2>2. task.peek.elem # 0 /\ Busy(g)
    BY <1>7, <2>1, TaskFields DEF HasPeek, Busy
  <2>3. s \in Sheets /\ s.edge = task.peek.edge /\ s.age = task.peek.age
    BY <1>0, <2>2, AdvancedTyped
  <2> HIDE DEF s
  <2>4. Row(enc, Limit(g), ring[g]) /\ Ahead(enc, Limit(g), s, ring[g])
    BY <2>2, <2>3 DEF Punctual, Ahead, Young
  <2>5. task'.pc = "event" /\ task'.g = g /\ task'.peek = s
    BY <1>0, <1>7, <2>1 DEF Tasks
  <2>6. ~Settled(g)'
    BY <1>0, <1>7, <2>5, Settles DEF RoundPCs, Firing
  <2> DEFINE b == Limit(g)
             c == Limit(g)'
  <2>7. b \in Int /\ c \in Int /\ b <= c
    BY <1>1, <2>6, LimitTyped, LimitGrows
  <2> HIDE DEF b, c
  <2>8. Row(enc, b, ring[g]) /\ Ahead(enc, b, s, ring[g])
    BY <2>4 DEF b
  <2>9. ring'[g] \in Seq(Sheets) /\ Row(enc, b, ring'[g]) /\ Ahead(enc, b, s, ring'[g])
    <3>1. CASE ring[g] = <<>>
      BY <1>0, <2>1, <2>8, <3>1 DEF WriteBack
    <3>2. CASE ring[g] # <<>>
      <4>1. ring[g] \in Seq(Sheets) /\ ring'[g] = [ring[g] EXCEPT ![1] = s]
        BY <1>0, <2>1, <3>2 DEF WriteBack
      <4>2. ring'[g] \in Seq(Sheets)
        BY <2>3, <3>2, <4>1
      <4>3. QED
        BY <1>0, <2>3, <2>8, <3>2, <4>1, <4>2, RowHead
    <3>3. QED
      BY <3>1, <3>2
  <2>10. Row(enc, c, ring'[g]) /\ Ahead(enc, c, s, ring'[g])
    BY <1>0, <2>3, <2>7, <2>9, RowLater
  <2>11. QED
    BY <1>1, <2>5, <2>10 DEF Punctual, c
<1>8. CASE g = task.g /\ ~HeadSheet /\ ~HeadNone /\ ~SheetDone /\ ~NotDue /\ ~Advance
  <2>0. ~RoundIdle /\ ~RoundStopped /\ ~RoundActive /\ ~StopReset
    BY DEF RoundIdle, RoundStopped, RoundActive, StopReset, At
  <2>1. \/ DropDue("dot") \/ DropDue("open") \/ LineTooSlow \/ LineEndDue
        \/ FireBegin \/ FireOpens \/ FireRefused \/ WatchLineEnd
        \/ WatchDue \/ GateCloses \/ GatePasses
    BY <1>8, <2>0 DEF Task
  <2>2. ring' = ring
    BY <2>1 DEF DropDue, LineTooSlow, LineEndDue, FireBegin, FireOpens, FireRefused, WatchLineEnd, WatchDue,
                GateCloses, GatePasses
  <2>3. Busy(g)
    BY <1>8, <2>1 DEF Busy, DropDue, LineTooSlow, LineEndDue, FireBegin, FireOpens, FireRefused, WatchLineEnd,
                      WatchDue, GateCloses, GatePasses, EventDue, At
  <2>4. ASSUME task' = NextGun, Settled(g) PROVE Punctual(g)'
    BY <1>1, <2>2, <2>4, Settles, StillPunctual
  <2>5. ASSUME task'.g = g, task'.pc \in RoundPCs \ {"head"}, task'.peek = task.peek,
               task'.pc \in {"due", "gate"} \/ (Firing' /\ task'.act = "resume") => Settled(g)
        PROVE  Punctual(g)'
    BY <1>1, <1>8, <2>2, <2>3, <2>5, Settles, StillPunctual
  <2>6. CASE DropDue("dot") \/ DropDue("open") \/ LineTooSlow \/ LineEndDue
    <3>1. /\ task'.g = g /\ task'.peek = task.peek /\ task'.pc \in {"fire", "advance"} /\ task'.act # "resume"
      BY <1>0, <1>8, <2>6 DEF DropDue, LineTooSlow, LineEndDue, Tasks
    <3>2. QED
      BY <2>5, <3>1 DEF RoundPCs
  <2>7. CASE FireBegin \/ FireOpens \/ FireRefused \/ WatchLineEnd
    <3>1. Firing
      BY <2>7 DEF FireBegin, FireOpens, FireRefused, WatchLineEnd, At, Firing
    <3>2. task.act = "resume" => Settled(g)
      BY <1>8, <3>1 DEF Settled
    <3>3. \/ task' = NextGun /\ task.act = "resume"
          \/ task' = [task EXCEPT !.pc = "advance"]
          \/ task' = [task EXCEPT !.pc = "firing"]
          \/ \E d : task' = [task EXCEPT !.pc = "watch", !.drop = d]
          \/ task' = [task EXCEPT !.pc = "advance", !.drop = 0]
      BY <2>7 DEF FireBegin, FireOpens, FireRefused, WatchLineEnd, NotOpened
    <3>4. \/ task' = NextGun /\ task.act = "resume"
          \/ /\ task'.g = g /\ task'.peek = task.peek /\ task'.act = task.act
             /\ task'.pc \in {"firing", "watch", "advance"}
      BY <1>0, <1>8, <3>3 DEF Tasks
    <3>5. QED
      BY <2>4, <2>5, <3>2, <3>4 DEF RoundPCs
  <2>8. CASE WatchDue \/ GateCloses \/ GatePasses
    <3>1. Settled(g)
      BY <1>8, <2>8 DEF WatchDue, GateCloses, GatePasses, At, Settled
    <3>2. \/ task' = NextGun
          \/ task' = [task EXCEPT !.pc = "gate"]
          \/ task' = [task EXCEPT !.pc = "fire", !.act = "resume"]
      BY <2>8 DEF WatchDue, GateCloses, GatePasses
    <3>3. \/ task' = NextGun
          \/ task'.g = g /\ task'.peek = task.peek /\ task'.pc \in {"gate", "fire"}
      BY <1>0, <1>8, <3>2 DEF Tasks
    <3>4. QED
      BY <2>4, <2>5, <3>1, <3>3 DEF RoundPCs
  <2>9. QED
    BY <2>1, <2>6, <2>7, <2>8
<1>9. QED
  BY <1>2, <1>3, <1>4, <1>5, <1>6, <1>7, <1>8

\* A round starts, or a stop is dealt with.
LEMMA StartPunctual ==
    ASSUME Types, AllAged, Halted, Orderly, AllPunctual, Task,
           task.pc \in {"wait", "reset"} \/ CheckEdit,
           NEW g \in Guns
    PROVE  Punctual(g)'
<1>0. /\ task \in Tasks /\ task.g \in Guns /\ ring \in [Guns -> Seq(Sheets)] /\ enc \in Pulses
      /\ Punctual(g)
  BY TaskFields DEF Types, RingTypes, AllPunctual
<1>1. RoundIdle \/ RoundStopped \/ RoundActive \/ StopReset \/ CheckEdit
  BY DEF Task, CheckEdit, HeadSheet, HeadNone, SheetDone, NotDue, DropDue, LineTooSlow, LineEndDue,
         FireBegin, FireOpens, FireRefused, WatchLineEnd, Advance, WatchDue, GateCloses, GatePasses,
         EventDue, At
<1>2. ASSUME ring'[g] = ring[g], enc' = enc, task'.now = enc, task.pc = "wait",
             task'.pc \in {"reset", "edits", "head"}, task'.g = 1
      PROVE  Punctual(g)'
  <2>1. ~(g < 1)
    BY Constants DEF Guns
  <2>2. ~Settled(g)' /\ ~Busy(g)' /\ Settled(g)
    BY <1>2, <2>1 DEF Settled, Busy, Firing
  <2> DEFINE b == Limit(g)
             c == Limit(g)'
             d == Dist(enc, task.now)
  <2>3. b = d + (AgeMax - 1) + 0
    BY <2>2 DEF Limit
  <2>4. c = 0 + (AgeMax - 1) + LagMax
    <3>1. Dist(enc', task'.now) = 0
      BY <1>0, <1>2, DistTyped
    <3>2. QED
      BY <2>2, <3>1 DEF Limit
  <2>5. d \in 0 .. LagMax
    BY Lagging
  <2> HIDE DEF b, c, d
  <2>6. b \in Int /\ c \in Int /\ b <= c
    BY <2>3, <2>4, <2>5, Window
  <2>7. Row(enc, b, ring[g]) /\ ring[g] \in Seq(Sheets)
    BY <1>0 DEF Punctual, b
  <2>8. Row(enc, c, ring[g])
    BY <1>0, <2>6, <2>7, RowLater
  <2>9. QED
    BY <1>2, <2>2, <2>8 DEF Punctual, c
<1>3. CASE RoundIdle
  <2>1. ring[g] = <<>> /\ ring' = ring
    BY <1>3 DEF RoundIdle, At, Orderly
  <2>2. task' = [task EXCEPT !.now = enc] /\ task.pc = "wait"
    BY <1>3 DEF RoundIdle, At
  <2>3. task'.pc = "wait"
    BY <1>0, <2>2 DEF Tasks
  <2>4. QED
    BY <2>1, <2>3, EmptyPunctual DEF Busy
<1>4. CASE RoundStopped /\ task.g = 1
  <2>1. task' = [task EXCEPT !.pc = "reset", !.now = enc, !.was = FALSE] /\ task.pc = "wait"
        /\ ring' = ring /\ enc' = enc
    BY <1>4 DEF RoundStopped, At
  <2>2. task'.pc = "reset" /\ task'.now = enc /\ task'.g = 1
    BY <1>0, <1>4, <2>1 DEF Tasks
  <2>3. QED
    BY <1>2, <2>1, <2>2
<1>5. CASE RoundActive /\ task.g = 1
  <2> DEFINE c == IF edited THEN "edits" ELSE "head"
  <2>1. PICK verdict : task' = [task EXCEPT !.pc = c, !.now = enc, !.was = TRUE, !.v = cfgv, !.gate = verdict]
    BY <1>5 DEF RoundActive
  <2>2. c \in {"edits", "head"} /\ ring' = ring /\ enc' = enc /\ task.pc = "wait"
    BY <1>5 DEF RoundActive, At
  <2> HIDE DEF c
  <2>3. task'.pc = c /\ task'.now = enc /\ task'.g = 1
    BY <1>0, <1>5, <2>1 DEF Tasks
  <2>4. QED
    BY <1>2, <2>2, <2>3
<1>6. CASE StopReset
  <2>1. /\ task.pc = "reset" /\ enc' = enc /\ ring' = [ring EXCEPT ![task.g] = <<>>]
        /\ \/ task.g = NumGuns /\ task' = Waiting
           \/ task.g # NumGuns /\ task' = [task EXCEPT !.g = task.g + 1]
    BY <1>6 DEF StopReset, ResetGun, At
  <2>2. \/ task.g = NumGuns /\ task'.pc = "wait"
        \/ task'.g = task.g + 1 /\ task'.pc = "reset"
    BY <1>0, <2>1, NextGunTyped DEF Tasks
  <2>3. task'.now = task.now
    BY <1>0, <2>1, NextGunTyped DEF Tasks
  <2>4. ~Busy(g)'
    BY <2>2 DEF Busy
  <2>5. CASE g = task.g
    <3>1. ring'[g] = <<>>
      BY <1>0, <2>1, <2>5
    <3>2. QED
      BY <2>4, <3>1, EmptyPunctual
  <2>6. CASE g # task.g
    <3>1. ring'[g] = ring[g]
      BY <1>0, <2>1, <2>6
    <3>2. g \in Nat /\ task.g \in Nat /\ g <= NumGuns /\ NumGuns \in Nat
      BY <1>0, Constants DEF Guns
    <3>3. Settled(g)' => Settled(g)
      <4>1. CASE task.g = NumGuns
        <5>1. g < task.g
          BY <2>6, <3>2, <4>1
        <5>2. QED
          BY <2>1, <5>1 DEF Settled
      <4>2. CASE task'.g = task.g + 1 /\ task'.pc = "reset"
        <5>1. g < task.g + 1 => g < task.g
          BY <2>6, <3>2
        <5>2. QED
          BY <2>1, <4>2, <5>1 DEF Settled, Firing
      <4>3. QED
        BY <2>2, <4>1, <4>2
    <3>4. QED
      BY <1>0, <2>1, <2>3, <2>4, <3>1, <3>3, StillPunctual
  <2>7. QED
    BY <2>5, <2>6
<1>7. CASE CheckEdit
  <2>1. /\ task.pc = "edits" /\ enc' = enc /\ (ring'[g] = ring[g] \/ ring'[g] = <<>>)
        /\ task' = [task EXCEPT !.g = task.g + 1] \/ task' = [task EXCEPT !.pc = "head", !.g = 1]
    BY <1>0, <1>7 DEF CheckEdit, EditsEnd, At, ResetGun
  <2>2. /\ task'.now = task.now
        /\ task'.pc = "edits" \/ (task'.pc = "head" /\ task'.g = 1)
    BY <1>0, <2>1 DEF Tasks
  <2>3. ~(g < 1)
    BY Constants DEF Guns
  <2>4. ~Busy(g)' /\ ~Settled(g)'
    BY <2>2, <2>3 DEF Busy, Settled, RoundPCs, Firing
  <2>5. QED
    BY <1>0, <2>1, <2>2, <2>4, StillPunctual, EmptyPunctual
<1>8. RoundStopped \/ RoundActive => task.g = 1
  BY DEF RoundStopped, RoundActive, At, Halted
<1>9. QED
  BY <1>1, <1>3, <1>4, <1>5, <1>6, <1>7, <1>8

LEMMA MovePunctual ==
    ASSUME Types, AllAged, Move, NEW g \in Guns, Punctual(g)
    PROVE  Punctual(g)'
<1>0. /\ task \in Tasks /\ task.peek \in Sheets /\ task.now \in Pulses /\ enc \in Pulses
      /\ ring[g] \in Seq(Sheets) /\ \A i \in DOMAIN ring[g] : ring[g][i].elem # 0
  BY TaskFields DEF Types, RingTypes
<1>1. /\ enc' = (enc + 1) % PulseMod
      /\ ring'[g] = [i \in DOMAIN ring[g] |-> Older(ring[g][i])]
  BY DEF Move
<1>2. task'.pc = task.pc /\ task'.g = task.g /\ task'.act = task.act /\ task'.now = task.now
      /\ task'.peek = Older(task.peek)
  <2> DEFINE s == Older(task.peek)
  <2>1. task' = [task EXCEPT !.peek = s]
    BY DEF Move
  <2> HIDE DEF s
  <2>2. task'.peek = s
    BY <1>0, <2>1 DEF Tasks
  <2>3. QED
    BY <1>0, <2>1, <2>2 DEF Tasks, s
<1>3. (Settled(g)' <=> Settled(g)) /\ (Busy(g)' <=> Busy(g))
  BY <1>2 DEF Settled, Busy, Firing
<1> DEFINE b == Limit(g)
<1>4. b \in Int /\ b + 1 < PulseMod
  BY LimitTyped
<1>5. Limit(g)' = b + 1
  <2> DEFINE x == IF Settled(g) THEN 0 ELSE LagMax
             d == Dist(enc, task.now)
             e == (enc + 1) % PulseMod
  <2>1. x \in Int /\ 0 <= x /\ x <= LagMax
    BY Window
  <2>2. d \in Int /\ d >= 0 /\ d <= LagMax
    BY Lagging
  <2>3. d + 1 < PulseMod
    <3> HIDE DEF d
    <3>1. QED
      BY <2>2, Window
  <2>4. Dist(e, task.now) = d + 1
    BY <1>0, <2>3, DistGrows
  <2>5. b = d + (AgeMax - 1) + x
    BY DEF Limit
  <2>6. Limit(g)' = (d + 1) + (AgeMax - 1) + x
    BY <1>1, <1>2, <1>3, <2>4 DEF Limit
  <2> HIDE DEF b, d, x
  <2>7. QED
    BY <2>1, <2>2, <2>5, <2>6, Window
<1> HIDE DEF b
<1>6. Row(enc, b, ring[g]) /\ (Busy(g) /\ task.peek.elem # 0 => Ahead(enc, b, task.peek, ring[g]))
  BY DEF Punctual, b
<1> DEFINE f == (enc + 1) % PulseMod
           q == ring[g]
           r == ring'[g]
<1>7. /\ Row(f, b + 1, r)
      /\ \A s \in Sheets : s.elem # 0 /\ Ahead(enc, b, s, q) => Ahead(f, b + 1, Older(s), r)
  <2> HIDE DEF q, r, f
  <2>1. q \in Seq(Sheets) /\ Row(enc, b, q) /\ (\A i \in DOMAIN q : q[i].elem # 0)
        /\ r = [i \in DOMAIN q |-> Older(q[i])]
    BY <1>0, <1>1, <1>6 DEF q, r
  <2>2. QED
    BY <1>0, <1>4, <2>1, RowOlder DEF f
<1>8. Older(task.peek).elem = task.peek.elem
  <2>1. CASE task.peek.elem = 0 \/ task.peek.age >= AgeMax
    BY <2>1 DEF Older
  <2>2. CASE ~(task.peek.elem = 0 \/ task.peek.age >= AgeMax)
    <3> DEFINE a == task.peek.age + 1
    <3>1. Older(task.peek) = [task.peek EXCEPT !.age = a]
      BY <2>2 DEF Older
    <3> HIDE DEF a
    <3>2. QED
      BY <1>0, <3>1 DEF Sheets
  <2>3. QED
    BY <2>1, <2>2
<1>9. Busy(g)' /\ task'.peek.elem # 0 => Ahead(f, b + 1, task'.peek, r)
  BY <1>0, <1>2, <1>3, <1>6, <1>7, <1>8
<1>10. enc' = f /\ ring'[g] = r /\ Limit(g)' = b + 1
  BY <1>1, <1>5
<1> HIDE DEF f, r
<1>11. QED
  BY <1>7, <1>9, <1>10 DEF Punctual

LEMMA WorldPunctual ==
    ASSUME Types, AllAged, Next, ~Task, NEW g \in Guns, Punctual(g)
    PROVE  Punctual(g)'
<1>0. enc \in Pulses /\ ring[g] \in Seq(Sheets) /\ task.peek \in Sheets
  BY TaskFields DEF Types, RingTypes
<1>1. CASE Move
  BY <1>1, MovePunctual
<1>2. ASSUME ~Move
      PROVE  /\ UNCHANGED <<enc, task>> /\ Limit(g)' = Limit(g) /\ (Busy(g)' <=> Busy(g))
             /\ PhotocellEdge \/ StopFlush \/ ring' = ring
  <2>1. UNCHANGED <<enc, task>> /\ (PhotocellEdge \/ StopFlush \/ ring' = ring)
    BY <1>2 DEF Next, TickBegin, TickClose, PhotocellEdge, Publish, ApplyScalars, Start, Stops,
                StopFlush, StopAbort, StopStore, FaultStop, GunCloses, TestFire, TaskOnly
  <2>2. QED
    BY <2>1 DEF Limit, Settled, Busy, Firing
<1> DEFINE b == Limit(g)
<1>3. b \in Int /\ 0 <= b
  BY LimitTyped
<1>4. Row(enc, b, ring[g]) /\ (Busy(g) /\ task.peek.elem # 0 => Ahead(enc, b, task.peek, ring[g]))
  BY DEF Punctual
<1>5. ASSUME ~Move, Row(enc, b, ring'[g]),
             Busy(g) /\ task.peek.elem # 0 => Ahead(enc, b, task.peek, ring'[g])
      PROVE  Punctual(g)'
  BY <1>2, <1>5 DEF Punctual
<1> HIDE DEF b
<1>6. CASE PhotocellEdge /\ ~Move
  <2>1. ring'[g] = ring[g] \/ ring'[g] = Append(ring[g], NewSheet(enc))
    BY <1>6 DEF PhotocellEdge
  <2>2. CASE ring'[g] = ring[g]
    BY <1>4, <1>5, <1>6, <2>2
  <2>3. CASE ring'[g] = Append(ring[g], NewSheet(enc))
    <3>1. /\ Row(enc, b, ring'[g])
          /\ \A s \in Sheets : Ahead(enc, b, s, ring[g]) => Ahead(enc, b, s, ring'[g])
      <4> DEFINE q == ring[g]
                 r == ring'[g]
      <4> HIDE DEF q, r
      <4>1. q \in Seq(Sheets) /\ r = Append(q, NewSheet(enc)) /\ Row(enc, b, q)
        BY <1>0, <1>4, <2>3 DEF q, r
      <4>2. Row(enc, b, r) /\ \A s \in Sheets : Ahead(enc, b, s, q) => Ahead(enc, b, s, r)
        BY <1>0, <1>3, <4>1, RowMore
      <4>3. QED
        BY <4>2 DEF q, r
    <3>2. QED
      BY <1>0, <1>4, <1>5, <1>6, <3>1
  <2>4. QED
    BY <2>1, <2>2, <2>3
<1>7. CASE StopFlush /\ ~Move
  <2>1. ring'[g] = <<>>
    BY <1>7 DEF StopFlush
  <2>2. DOMAIN <<>> = {}
    OBVIOUS
  <2>3. Ahead(enc, b, task.peek, ring[g]) => Ahead(enc, b, task.peek, ring'[g])
    BY <2>1, <2>2 DEF Ahead
  <2>4. Row(enc, b, ring'[g])
    BY <2>1, RowOfNone
  <2>5. QED
    BY <1>4, <1>5, <1>7, <2>3, <2>4
<1>8. CASE ring' = ring /\ ~Move
  BY <1>4, <1>5, <1>8
<1>9. QED
  BY <1>1, <1>2, <1>6, <1>7, <1>8

LEMMA AllPunctualStart == Init => AllPunctual
<1> SUFFICES ASSUME Init, NEW g \in Guns PROVE Punctual(g)
  BY DEF AllPunctual
<1>1. ring[g] = <<>> /\ task.pc = "wait"
  BY DEF Init
<1>2. QED
  BY <1>1, RowOfNone DEF Punctual, Busy

LEMMA AllPunctualStep == Types /\ AllAged /\ Halted /\ Orderly /\ AllPunctual /\ [Next]_vars => AllPunctual'
<1> SUFFICES ASSUME Types, AllAged, Halted, Orderly, AllPunctual, [Next]_vars, NEW g \in Guns
             PROVE  Punctual(g)'
  BY DEF AllPunctual
<1>0. Punctual(g)
  BY DEF AllPunctual
<1>1. CASE Next /\ ~Task
  BY <1>0, <1>1, WorldPunctual
<1>2. CASE Task /\ task.pc \notin {"wait", "reset"} /\ ~CheckEdit
  BY <1>0, <1>2, RoundPunctual
<1>3. CASE Task /\ (task.pc \in {"wait", "reset"} \/ CheckEdit)
  BY <1>3, StartPunctual
<1>4. CASE UNCHANGED vars
  <2>1. enc' = enc /\ task' = task /\ ring' = ring /\ (Settled(g)' <=> Settled(g)) /\ (Busy(g)' <=> Busy(g))
    BY <1>4 DEF vars, Settled, Busy, Firing
  <2>2. QED
    BY <1>0, <2>1, StillPunctual
<1>5. QED
  BY <1>1, <1>2, <1>3, <1>4

\* A gun that is shut has no drop, and the task that goes to watch a line has one.
Blank(g) == gun[g].open \/ gun[g].drop = 0
LineInHand == task.pc = "watch" => task.drop # 0

\* A line whose end is planned is open, is the one that the task remembers, and the tick
\* hook has it: it is about to close it, or it watches for the pulse that is as far ahead
\* as planned.  At that pulse it has yet to run.
Planned(g) ==
    gun[g].left # Unplanned =>
       /\ gun[g].open /\ gun[g].drop # 0 /\ gun[g].drop = lineDrop[g]
       /\ ~(task.g = g /\ task.pc = "watch")
       /\ \/ stop = "flushed"
          \/ closing[g] = gun[g].drop
          \/ /\ watch[g].lineArmed /\ watch[g].drop = gun[g].drop
             /\ IF gun[g].left = 0 THEN ~ticked /\ Dist(enc, watch[g].end) < PulseMod \div 2
                ELSE Dist(watch[g].end, enc) = gun[g].left
AllPlanned == LineInHand /\ \A g \in Guns : Blank(g) /\ Planned(g)

LEMMA PlanKept ==
    ASSUME NEW g \in Guns, Planned(g), gun'[g].left = gun[g].left, gun'[g].drop = gun[g].drop,
           gun'[g].open <=> gun[g].open, lineDrop'[g] = lineDrop[g], closing'[g] = closing[g],
           enc' = enc, stop = "flushed" => stop' = "flushed", ticked' <=> ticked,
           watch'[g].lineArmed <=> watch[g].lineArmed, watch'[g].end = watch[g].end,
           watch'[g].drop = watch[g].drop, ~(task'.g = g /\ task'.pc = "watch")
    PROVE  Planned(g)'
<1>1. CASE gun[g].left = Unplanned
  BY <1>1 DEF Planned, Unplanned
<1>2. CASE gun[g].left # Unplanned
  BY <1>2 DEF Planned
<1>3. QED
  BY <1>1, <1>2

LEMMA PlanClosed ==
    ASSUME Types, NEW g \in Guns, Planned(g), gun'[g] = CloseIfDrop(g, lineDrop[g])
    PROVE  Planned(g)'
<1>1. Shut.left = Unplanned
  BY DEF Shut
<1>2. CASE gun[g].left = Unplanned
  <2>1. gun'[g].left = Unplanned
    BY <1>1, <1>2, ClosedOrNot
  <2>2. QED
    BY <2>1 DEF Planned, Unplanned
<1>3. CASE gun[g].left # Unplanned
  <2>1. gun'[g] = Shut
    BY <1>3, ClosedOrNot DEF Planned
  <2>2. gun'[g].left = Unplanned
    BY <1>1, <2>1
  <2>3. QED
    BY <2>2 DEF Planned, Unplanned
<1>4. QED
  BY <1>2, <1>3

LEMMA TaskPlans ==
    ASSUME Types, Task, ~WatchLineEnd, NEW g \in Guns, Planned(g)
    PROVE  Planned(g)'
<1>0. /\ task \in Tasks /\ task.g \in Guns
      /\ watch \in [Guns -> Watches] /\ gun \in [Guns -> GunStates]
  BY TaskFields DEF Types, GunTypes
<1>1. /\ enc' = enc /\ stop' = stop /\ (ticked' <=> ticked) /\ closing' = closing
  <2>1. UNCHANGED <<enc, stop, ticked, closing>>
    BY DEF Task, RoundIdle, RoundStopped, RoundActive, StopReset, CheckEdit, HeadSheet, HeadNone, SheetDone,
           NotDue, DropDue, LineTooSlow, LineEndDue, FireBegin, FireOpens, FireRefused, Advance,
           WatchDue, GateCloses, GatePasses
  <2>2. QED
    BY <2>1, Zenon
<1>2. ASSUME FireOpens PROVE task'.g = task.g
  <2> DEFINE d == FreshDrop(task.g)
             k == IF task.act = "dot" THEN "dot" ELSE "line"
  <2>1. \/ task' = [task EXCEPT !.pc = "advance"]
        \/ task' = [task EXCEPT !.pc = "watch", !.drop = d]
    BY <1>2 DEF FireOpens
  <2> HIDE DEF d
  <2>2. QED
    BY <1>0, <2>1 DEF Tasks
<1>3. ~FireOpens => task'.pc # "watch"
  BY LineSteps
<1>4. CASE g # task.g
  <2>1. gun'[g] = gun[g] /\ lineDrop'[g] = lineDrop[g] /\ watch'[g] = watch[g]
    BY <1>4, OtherGuns
  <2>2. ~(task'.g = g /\ task'.pc = "watch")
    BY <1>2, <1>3, <1>4
  <2>3. QED
    BY <1>1, <2>1, <2>2, PlanKept
<1>5. CASE g = task.g /\ FireOpens
  <2> DEFINE d == FreshDrop(g)
             k == IF task.act = "dot" THEN "dot" ELSE "line"
  <2>1. gun' = [gun EXCEPT ![g] = Opened(d, k)]
    BY <1>5 DEF FireOpens
  <2>2. Opened(d, k).left = Unplanned
    BY DEF Opened
  <2> HIDE DEF d, k
  <2>3. gun'[g].left = Unplanned
    BY <1>0, <2>1, <2>2
  <2>4. QED
    BY <2>3 DEF Planned, Unplanned
<1>6. ASSUME g = task.g, ~FireOpens, gun'[g].left = gun[g].left, gun'[g].drop = gun[g].drop,
             gun'[g].open <=> gun[g].open, lineDrop'[g] = lineDrop[g],
             watch'[g].lineArmed <=> watch[g].lineArmed, watch'[g].end = watch[g].end,
             watch'[g].drop = watch[g].drop
      PROVE  Planned(g)'
  BY <1>1, <1>3, <1>6, PlanKept
<1>7. ASSUME g = task.g, ~FireOpens, UNCHANGED <<gun, lineDrop, watch>> PROVE Planned(g)'
  BY <1>6, <1>7
<1>8. CASE g = task.g /\ ~FireOpens /\ (FireBegin \/ FireRefused)
  <2>1. PICK b \in BOOLEAN : gun' = gun \/ gun' = [gun EXCEPT ![g].arming = b]
    BY <1>8 DEF FireBegin, FireRefused
  <2>2. lineDrop' = lineDrop /\ watch' = watch
    BY <1>8 DEF FireBegin, FireRefused
  <2>3. /\ gun'[g].left = gun[g].left /\ gun'[g].drop = gun[g].drop
        /\ gun'[g].open <=> gun[g].open
    <3>1. CASE gun' = gun
      BY <3>1
    <3>2. CASE gun' = [gun EXCEPT ![g].arming = b]
      <4>1. gun'[g] = [gun[g] EXCEPT !.arming = b]
        BY <1>0, <3>2
      <4>2. QED
        BY <1>0, <4>1 DEF GunStates
    <3>3. QED
      BY <2>1, <3>1, <3>2
  <2>4. QED
    BY <1>6, <1>8, <2>2, <2>3
<1>9. CASE g = task.g /\ ~FireOpens /\ WatchDue
  <2>1. gun' = gun /\ lineDrop' = lineDrop
    BY <1>9 DEF WatchDue, lineVars
  <2>2. watch' = [watch EXCEPT ![g].dueArmed = task.due, ![g].due = task.pulse]
    BY <1>9 DEF WatchDue
  <2>3. watch'[g] = [watch[g] EXCEPT !.dueArmed = task.due, !.due = task.pulse]
    BY <1>0, <2>2
  <2>4. /\ watch'[g].lineArmed <=> watch[g].lineArmed
        /\ watch'[g].end = watch[g].end /\ watch'[g].drop = watch[g].drop
    BY <1>0, <2>3 DEF Watches
  <2>5. QED
    BY <1>6, <1>9, <2>1, <2>4
<1>10. ASSUME g = task.g, CloseLine(g) PROVE Planned(g)'
  <2>1. gun' = [gun EXCEPT ![g] = CloseIfDrop(g, lineDrop[g])]
    BY <1>10 DEF CloseLine
  <2>2. gun'[g] = CloseIfDrop(g, lineDrop[g])
    BY <1>0, <2>1
  <2>3. QED
    BY <2>2, PlanClosed
<1>11. CASE g = task.g /\ ~FireOpens /\ (StopReset \/ CheckEdit \/ HeadNone \/ SheetDone \/ LineEndDue \/ GateCloses)
  <2>1. CloseLine(g) \/ UNCHANGED <<gun, lineDrop, watch>>
    BY <1>11 DEF StopReset, CheckEdit, HeadNone, SheetDone, LineEndDue, GateCloses, ResetGun, EndLine, lineVars
  <2>2. QED
    BY <1>7, <1>10, <1>11, <2>1
<1>12. CASE g = task.g /\ (RoundIdle \/ RoundStopped \/ RoundActive \/ HeadSheet \/ NotDue \/ DropDue("dot")
                           \/ DropDue("open") \/ LineTooSlow \/ Advance \/ GatePasses) /\ ~FireOpens
  <2>1. UNCHANGED <<gun, lineDrop, watch>>
    BY <1>12 DEF RoundIdle, RoundStopped, RoundActive, HeadSheet, NotDue, DropDue, LineTooSlow, Advance,
                 GatePasses, lineVars
  <2>2. QED
    BY <1>7, <1>12, <2>1
<1>13. QED
  BY <1>4, <1>5, <1>8, <1>9, <1>11, <1>12 DEF Task

LEMMA DistBack ==
    ASSUME NEW a \in Pulses, NEW b \in Pulses, NEW x \in Pulses, Dist(a, b) = (0 - x) % PulseMod
    PROVE  Dist(b, a) = x
<1>1. a \in Int /\ b \in Int /\ a - b \in Int /\ x \in Int /\ 0 - x \in Int
  BY DEF Pulses
<1> DEFINE r == Dist(a, b)
<1>2. r \in Int
  BY DistTyped
<1>3. PICK k \in Int : a - b = PulseMod * k + r
  BY <1>1, Quotient DEF Dist
<1>4. PICK l \in Int : 0 - x = PulseMod * l + r
  BY <1>1, Quotient
<1> DEFINE K == PulseMod * k
           L == PulseMod * l
<1>5. K \in Int /\ L \in Int /\ L - K = PulseMod * (l - k) /\ l - k \in Int
  BY <1>3, <1>4, Window
<1> HIDE DEF r, K, L
<1>6. b - a = (L - K) + x
  BY <1>1, <1>2, <1>3, <1>4, <1>5 DEF K, L
<1>7. (PulseMod * (l - k) + x) % PulseMod = x
  BY <1>5, Rest
<1>8. QED
  BY <1>5, <1>6, <1>7 DEF Dist

\* The end of a line that has just been opened is not half the counter away, before the
\* encoder or behind it.
LEMMA WatchPlans ==
    ASSUME Types, AllAged, LinesKnown, AllPunctual, AllPlanned, WatchLineEnd, NEW g \in Guns
    PROVE  Planned(g)'
<1>0. /\ task \in Tasks /\ task.g \in Guns /\ watch \in [Guns -> Watches] /\ gun \in [Guns -> GunStates]
      /\ lineDrop \in [Guns -> Drops] /\ task.peek \in Sheets /\ enc \in Pulses /\ cfgv \in Versions
      /\ EnvTypes
  BY TaskFields DEF Types, GunTypes
<1>1. task.pc = "watch" /\ task.drop # 0 /\ Planned(g) /\ Blank(task.g) /\ Known(task.g) /\ Punctual(task.g)
  BY <1>0 DEF WatchLineEnd, At, AllPlanned, LineInHand, LinesKnown, AllPunctual
<1>2. /\ enc' = enc /\ stop' = stop /\ closing' = closing /\ ~ticked'
      /\ lineDrop' = [lineDrop EXCEPT ![task.g] = task.drop]
  BY DEF WatchLineEnd
<1>3. task'.pc # "watch"
  <2>1. task' = NextGun \/ task' = [task EXCEPT !.pc = "advance", !.drop = 0]
    BY DEF WatchLineEnd
  <2>2. NextGun.pc # "watch"
    BY NextGunTyped
  <2>3. QED
    BY <1>0, <2>1, <2>2 DEF Tasks
<1>4. CASE g # task.g
  <2>0. Task
    BY DEF Task
  <2>1. gun'[g] = gun[g] /\ lineDrop'[g] = lineDrop[g] /\ watch'[g] = watch[g]
    BY <1>4, <2>0, OtherGuns
  <2>2. gun[g].left # 0 \/ ~ticked' \/ ticked
    BY <1>2
  <2>3. QED
    BY <1>1, <1>2, <1>3, <2>1 DEF Planned
<1>5. CASE g = task.g
  <2> DEFINE s == task.peek
             d == Dist(enc, s.edge)
  <2>1. s.elem # 0 /\ Busy(g) /\ gun[g].left = Unplanned
    BY <1>0, <1>1, <1>5, TaskFields DEF HasPeek, Busy, Planned
  <2>2. PICK at \in LineEnds(cfgv, g, s) :
          /\ watch' = [watch EXCEPT ![g].lineArmed = TRUE, ![g].drop = task.drop,
                                    ![g].end = (s.edge + at) % PulseMod]
          /\ gun' = IF gun[g].drop = task.drop
                      THEN [gun EXCEPT ![g].left = IF at > s.age THEN at - s.age ELSE 0]
                      ELSE gun
    BY <1>5 DEF WatchLineEnd
  <2>3. CASE gun[g].drop # task.drop
    BY <2>1, <2>2, <2>3 DEF Planned, Unplanned
  <2>4. CASE gun[g].drop = task.drop
    <3> DEFINE w == (s.edge + at) % PulseMod
               l == IF at > s.age THEN at - s.age ELSE 0
    <3>1. at \in 0 .. AgeMax /\ w \in Pulses /\ s.edge \in Pulses /\ s.age \in 0 .. AgeMax
      BY <1>0, <2>1, LineEndsTyped DEF Sheets
    <3>2. /\ watch'[g].lineArmed /\ watch'[g].drop = task.drop /\ watch'[g].end = w
      <4> HIDE DEF w
      <4>1. watch'[g] = [watch[g] EXCEPT !.lineArmed = TRUE, !.drop = task.drop, !.end = w]
        BY <1>0, <2>2 DEF w
      <4>2. QED
        BY <1>0, <4>1 DEF Watches
    <3>3. /\ gun'[g].open /\ gun'[g].drop = task.drop /\ gun'[g].left = l
      <4>1. gun[g].open
        BY <1>1, <1>5, <2>4 DEF Blank
      <4>2. gun' = [gun EXCEPT ![g].left = l]
        BY <2>2, <2>4
      <4> HIDE DEF l
      <4>3. gun'[g] = [gun[g] EXCEPT !.left = l]
        BY <1>0, <4>2
      <4>4. QED
        BY <1>0, <2>4, <4>1, <4>3 DEF GunStates
    <3>4. lineDrop'[g] = task.drop
      BY <1>0, <1>2, <1>5
    <3>5. /\ d \in Int /\ 0 <= d /\ d <= AgeMax - 1 + 2 * LagMax
          /\ s.age = IF d < AgeMax THEN d ELSE AgeMax
      <4> DEFINE b == Limit(g)
      <4>1. b \in Int /\ b <= AgeMax - 1 + 2 * LagMax
        BY LimitTyped
      <4>2. Young(enc, b, s)
        BY <1>1, <1>5, <2>1 DEF Punctual, Ahead
      <4>3. d \in Int /\ 0 <= d
        BY <1>0, <3>1, DistTyped
      <4> HIDE DEF b
      <4>4. d <= b /\ s.age = IF d < AgeMax THEN d ELSE AgeMax
        BY <4>2 DEF Young
      <4> HIDE DEF d
      <4>5. QED
        BY <4>1, <4>3, <4>4, Window
    <3>6. Dist(enc, w) = (d - at) % PulseMod
      <4>1. at \in Int
        BY <3>1, Window
      <4>2. Dist(enc, w) = ((Dist(enc, s.edge) - Dist(enc, enc)) - at) % PulseMod
        BY <1>0, <3>1, <4>1, DistTo
      <4>3. Dist(enc, enc) = 0
        BY <1>0, DistTyped
      <4> HIDE DEF w
      <4>4. (d - 0) - at = d - at
        BY <3>5, <4>1
      <4>5. QED
        BY <4>2, <4>3, <4>4
    <3>7. l # 0 => Dist(w, enc) = l
      <4> SUFFICES ASSUME l # 0 PROVE Dist(w, enc) = l
        OBVIOUS
      <4> DEFINE a == s.age
      <4>0. at \in Int /\ a \in Int /\ at <= AgeMax /\ 0 <= at /\ 0 <= a
        BY <3>1, Window
      <4>1. at > a /\ l = at - a
        OBVIOUS
      <4>2. a = IF d < AgeMax THEN d ELSE AgeMax
        BY <3>5
      <4> HIDE DEF l, d, a, w
      <4>3. a = d
        BY <4>0, <4>1, <4>2, <3>5, Window
      <4>4. l \in Pulses /\ d - at = 0 - l
        BY <4>0, <4>1, <4>3, Window DEF Pulses
      <4>5. QED
        BY <1>0, <3>1, <3>6, <4>4, DistBack
    <3>8. l = 0 => Dist(enc, w) < PulseMod \div 2
      <4> SUFFICES ASSUME l = 0 PROVE Dist(enc, w) < PulseMod \div 2
        OBVIOUS
      <4> DEFINE a == s.age
      <4>0. at \in Int /\ a \in Int /\ at <= AgeMax /\ 0 <= at /\ 0 <= a
        BY <3>1, Window
      <4>1. a = IF d < AgeMax THEN d ELSE AgeMax
        BY <3>5
      <4>2. l = IF at > a THEN at - a ELSE 0
        OBVIOUS
      <4> HIDE DEF l, d, a, w
      <4>3. at <= a
        BY <4>0, <4>2
      <4>4. 0 <= d - at /\ d - at < PulseMod \div 2 /\ d - at \in Pulses
        BY <4>0, <4>1, <4>3, <3>5, Window DEF Pulses
      <4>5. QED
        BY <3>6, <4>4, SmallRest
    <3> HIDE DEF w, l
    <3>9. IF gun'[g].left = 0 THEN ~ticked' /\ Dist(enc', watch'[g].end) < PulseMod \div 2
          ELSE Dist(watch'[g].end, enc') = gun'[g].left
      BY <1>2, <3>2, <3>3, <3>7, <3>8
    <3>10. QED
      BY <1>1, <1>3, <3>2, <3>3, <3>4, <3>9 DEF Planned
  <2>5. QED
    BY <2>3, <2>4
<1>6. QED
  BY <1>4, <1>5

LEMMA MovePlans ==
    ASSUME Types, Move, NEW g \in Guns, Planned(g)
    PROVE  Planned(g)'
<1>0. /\ watch \in [Guns -> Watches] /\ gun \in [Guns -> GunStates] /\ enc \in Pulses
      /\ watch[g].end \in Pulses /\ gun[g].left \in 0 .. Unplanned
  BY DEF Types, GunTypes, EnvTypes, GunStates, Watches
<1>1. /\ ticked /\ closing[g] = 0 /\ enc' = (enc + 1) % PulseMod /\ ~ticked'
      /\ UNCHANGED <<watch, lineDrop, closing, stop>>
  BY DEF Move, NoClosing, lineVars
<1>2. task'.pc = task.pc /\ task'.g = task.g
  <2> DEFINE s == Older(task.peek)
  <2>1. task' = [task EXCEPT !.peek = s] /\ task \in Tasks
    BY TaskFields DEF Move
  <2> HIDE DEF s
  <2>2. QED
    BY <2>1 DEF Tasks
<1>3. CASE gun[g].left \notin 1 .. AgeMax
  <2>1. gun'[g] = gun[g]
    BY <1>3 DEF Move
  <2>2. gun[g].left = Unplanned \/ gun[g].left = 0
    BY <1>0, <1>3, Constants DEF Unplanned
  <2>3. CASE gun[g].left = Unplanned
    BY <2>1, <2>3 DEF Planned, Unplanned
  <2>4. CASE gun[g].left = 0
    <3>1. stop = "flushed" \/ gun[g].left = Unplanned
      BY <1>1, <2>4 DEF Planned
    <3>2. QED
      BY <1>1, <1>2, <2>1, <3>1 DEF Planned, Unplanned
  <2>5. QED
    BY <2>2, <2>3, <2>4
<1>4. CASE gun[g].left \in 1 .. AgeMax
  <2> DEFINE l == gun[g].left
             m == l - 1
             w == watch[g].end
             e == (enc + 1) % PulseMod
  <2>1. gun'[g] = [gun[g] EXCEPT !.left = m]
    BY <1>4 DEF Move
  <2>2. l \in Int /\ 1 <= l /\ l # Unplanned /\ l # 0
    BY <1>4, Constants DEF Unplanned
  <2>3. /\ gun'[g].open <=> gun[g].open
        /\ gun'[g].drop = gun[g].drop /\ gun'[g].left = m
    <3> HIDE DEF m
    <3>1. QED
      BY <1>0, <2>1 DEF GunStates
  <2>4. /\ gun[g].open /\ gun[g].drop # 0 /\ gun[g].drop = lineDrop[g]
        /\ ~(task.g = g /\ task.pc = "watch")
        /\ \/ stop = "flushed"
           \/ watch[g].lineArmed /\ watch[g].drop = gun[g].drop /\ Dist(w, enc) = l
    BY <1>1, <2>2 DEF Planned
  <2>5. CASE stop = "flushed"
    BY <1>1, <1>2, <2>3, <2>4, <2>5 DEF Planned
  <2>6. CASE watch[g].lineArmed /\ watch[g].drop = gun[g].drop /\ Dist(w, enc) = l
    <3>1. Dist(w, e) = m /\ (l = 1 => Dist(e, w) = 0)
      <4> HIDE DEF w, l, m
      <4>1. w \in Pulses
        BY <1>0 DEF w
      <4>2. Dist(w, enc) = l
        BY <2>6 DEF w, l
      <4>3. QED
        BY <1>0, <2>2, <4>1, <4>2, DistShrinks DEF m
    <3>2. m = 0 => Dist(e, w) < PulseMod \div 2
      <4>1. m = 0 => l = 1
        BY <2>2
      <4> HIDE DEF w, l, m, e
      <4>2. QED
        BY <3>1, <4>1, Window
    <3>3. e = enc' /\ w = watch'[g].end
      BY <1>1
    <3> HIDE DEF w, l, m, e
    <3>4. IF gun'[g].left = 0 THEN ~ticked' /\ Dist(enc', watch'[g].end) < PulseMod \div 2
          ELSE Dist(watch'[g].end, enc') = gun'[g].left
      BY <1>1, <2>3, <3>1, <3>2, <3>3
    <3>5. QED
      BY <1>1, <1>2, <2>3, <2>4, <2>6, <3>4 DEF Planned
  <2>7. QED
    BY <2>4, <2>5, <2>6
<1>5. QED
  BY <1>3, <1>4

\* The tick hook has seen the end pulse: it closes the line.
LEMMA TickPlans ==
    ASSUME Types, NEW g \in Guns, Planned(g), TickBegin \/ \E h \in Guns : TickClose(h)
    PROVE  Planned(g)'
<1>0. /\ watch \in [Guns -> Watches] /\ gun \in [Guns -> GunStates] /\ closing \in [Guns -> Drops]
      /\ watch[g] \in Watches
  BY DEF Types, GunTypes
<1>1. CASE TickBegin
  <2>1. /\ UNCHANGED <<enc, gun, lineDrop, task, stop>> /\ closing[g] = 0
        /\ closing'[g] = IF LineReached(g) THEN watch[g].drop ELSE 0
    BY <1>1 DEF TickBegin, lineVars
  <2>2. CASE gun[g].left = Unplanned
    BY <2>1, <2>2 DEF Planned, Unplanned
  <2>3. CASE gun[g].left # Unplanned
    <3>1. /\ gun[g].open /\ gun[g].drop # 0 /\ gun[g].drop = lineDrop[g]
          /\ ~(task.g = g /\ task.pc = "watch")
          /\ \/ stop = "flushed"
             \/ /\ watch[g].lineArmed /\ watch[g].drop = gun[g].drop
                /\ IF gun[g].left = 0 THEN Dist(enc, watch[g].end) < PulseMod \div 2
                   ELSE Dist(watch[g].end, enc) = gun[g].left
      BY <2>1, <2>3 DEF Planned
    <3>2. CASE stop = "flushed"
      BY <2>1, <3>1, <3>2 DEF Planned
    <3>3. CASE stop # "flushed" /\ LineReached(g)
      <4>1. closing'[g] = gun'[g].drop
        BY <2>1, <3>1, <3>3
      <4>2. QED
        BY <2>1, <3>1, <4>1 DEF Planned
    <3>4. CASE stop # "flushed" /\ ~LineReached(g)
      <4>1. gun[g].left # 0
        <5> SUFFICES ASSUME gun[g].left = 0 PROVE FALSE
          OBVIOUS
        <5>1. watch[g].lineArmed /\ Dist(enc, watch[g].end) < PulseMod \div 2
          BY <3>1, <3>4
        <5>2. Dist(enc, watch[g].end) \in Int /\ 0 <= Dist(enc, watch[g].end)
          BY <1>0, DistTyped DEF Watches, Types, EnvTypes
        <5>3. Diff(enc, watch[g].end) >= 0
          BY <5>1, <5>2 DEF Diff, Dist
        <5>4. QED
          BY <3>4, <5>1, <5>3 DEF LineReached
      <4>2. watch'[g] = IF DueReached(g) THEN NoDue(watch[g]) ELSE watch[g]
        BY <1>1, <3>4 DEF TickBegin
      <4>3. /\ watch'[g].lineArmed <=> watch[g].lineArmed
            /\ watch'[g].end = watch[g].end /\ watch'[g].drop = watch[g].drop
        BY <1>0, <4>2 DEF NoDue, Watches
      <4>4. QED
        BY <2>1, <3>1, <3>4, <4>1, <4>3 DEF Planned
    <3>5. QED
      BY <3>2, <3>3, <3>4
  <2>4. QED
    BY <2>2, <2>3
<1>2. CASE \E h \in Guns : TickClose(h)
  <2>1. PICK h \in Guns : TickClose(h)
    BY <1>2
  <2>2. /\ UNCHANGED <<enc, watch, lineDrop, task, stop, ticked>>
        /\ gun' = [gun EXCEPT ![h] = CloseIfDrop(h, closing[h])]
        /\ closing' = [closing EXCEPT ![h] = 0]
    BY <2>1 DEF TickClose, lineVars
  <2>3. ticked' <=> ticked
    <3>1. UNCHANGED ticked
      BY <2>2
    <3>2. QED
      BY <3>1, Zenon
  <2>4. CASE h # g
    <3>1. gun'[g] = gun[g] /\ closing'[g] = closing[g]
      BY <1>0, <2>2, <2>4
    <3>2. CASE gun[g].left = Unplanned
      BY <3>1, <3>2 DEF Planned, Unplanned
    <3>3. CASE gun[g].left # Unplanned
      <4>1. ~(task'.g = g /\ task'.pc = "watch")
        BY <2>2, <3>3 DEF Planned
      <4>2. QED
        BY <2>2, <2>3, <3>1, <4>1, PlanKept
    <3>4. QED
      BY <3>2, <3>3
  <2>5. CASE h = g
    <3>1. gun'[g] = CloseIfDrop(g, closing[g])
      BY <1>0, <2>2, <2>5
    <3>2. CASE gun'[g] = Shut
      <4>1. gun'[g].left = Unplanned
        BY <3>2 DEF Shut
      <4>2. QED
        BY <4>1 DEF Planned, Unplanned
    <3>3. CASE gun'[g] = gun[g] /\ gun'[g] # Shut
      <4>1. gun[g].left # Unplanned => closing[g] # gun[g].drop
        BY <3>1, <3>3, ClosedOrNot DEF Planned
      <4>2. QED
        BY <2>2, <2>3, <3>3, <4>1 DEF Planned, Unplanned
    <3>4. QED
      BY <3>1, <3>2, <3>3, ClosedOrNot
  <2>6. QED
    BY <2>4, <2>5
<1>3. QED
  BY <1>1, <1>2

LEMMA WorldPlans ==
    ASSUME Types, Next, ~Task, NEW g \in Guns, Planned(g)
    PROVE  Planned(g)'
<1>0. gun \in [Guns -> GunStates] /\ watch \in [Guns -> Watches] /\ watch[g] \in Watches
  BY DEF Types, GunTypes
<1>1. task'.pc = task.pc /\ task'.g = task.g
  BY TaskStays
<1>2. CASE Move
  BY <1>2, MovePlans
<1>3. CASE TickBegin \/ \E h \in Guns : TickClose(h)
  BY <1>3, TickPlans
<1>4. ASSUME gun'[g].left = Unplanned PROVE Planned(g)'
  BY <1>4 DEF Planned, Unplanned
<1>5. ASSUME UNCHANGED <<enc, watch, gun, lineVars, closing, ticked>>,
             stop = "flushed" => stop' = "flushed"
      PROVE  Planned(g)'
  <2>1. /\ gun' = gun /\ lineDrop' = lineDrop /\ watch' = watch /\ closing' = closing /\ enc' = enc
        /\ ticked' <=> ticked
    <3>1. UNCHANGED <<enc, watch, gun, lineVars, closing>> /\ UNCHANGED ticked
      BY <1>5
    <3>2. ticked' <=> ticked
      BY <3>1, Zenon
    <3>3. QED
      BY <3>1, <3>2 DEF lineVars
  <2>2. CASE gun[g].left = Unplanned
    BY <1>4, <2>1, <2>2
  <2>3. CASE gun[g].left # Unplanned
    <3>1. ~(task'.g = g /\ task'.pc = "watch")
      BY <1>1, <2>3 DEF Planned
    <3>2. QED
      BY <1>5, <2>1, <3>1, PlanKept
  <2>4. QED
    BY <2>2, <2>3
<1>6. CASE StopFlush
  <2>1. gun' = gun /\ lineDrop' = lineDrop /\ stop' = "flushed"
    BY <1>6 DEF StopFlush, lineVars
  <2>2. QED
    BY <1>1, <2>1 DEF Planned, Unplanned
<1>7. CASE StopAbort \/ FaultStop \/ (\E h \in Guns : GunCloses(h) \/ TestFire(h))
  <2>1. /\ UNCHANGED <<enc, watch, lineVars, closing, ticked>>
        /\ stop = "flushed" => stop' = "flushed" \/ gun'[g] = Shut
    BY <1>7 DEF StopAbort, FaultStop, GunCloses, TestFire
  <2>2. gun'[g] = gun[g] \/ gun'[g].left = Unplanned
    <3>1. Shut.left = Unplanned /\ \A d, k : Opened(d, k).left = Unplanned
      BY DEF Shut, Opened
    <3>2. CASE StopAbort \/ FaultStop
      BY <3>1, <3>2 DEF StopAbort, FaultStop
    <3>3. CASE \E h \in Guns : GunCloses(h) \/ TestFire(h)
      <4>1. PICK h \in Guns : GunCloses(h) \/ TestFire(h)
        BY <3>3
      <4> DEFINE c == Opened(FreshDrop(h), "test")
      <4>2. gun' = [gun EXCEPT ![h] = Shut] \/ gun' = [gun EXCEPT ![h] = c]
        BY <4>1 DEF GunCloses, TestFire
      <4>3. c.left = Unplanned
        BY <3>1
      <4> HIDE DEF c
      <4>4. QED
        BY <1>0, <3>1, <4>2, <4>3
    <3>4. QED
      BY <1>7, <3>2, <3>3
  <2>3. CASE gun'[g].left = Unplanned
    BY <1>4, <2>3
  <2>4. CASE gun'[g] = gun[g] /\ gun'[g].left # Unplanned
    <3>1. Shut.left = Unplanned
      BY DEF Shut
    <3>2. stop = "flushed" => stop' = "flushed"
      BY <2>1, <2>4, <3>1
    <3>3. /\ lineDrop' = lineDrop /\ watch' = watch /\ closing' = closing /\ enc' = enc
          /\ ticked' <=> ticked
      <4>1. UNCHANGED <<enc, watch, lineVars, closing>> /\ UNCHANGED ticked
        BY <2>1
      <4>2. ticked' <=> ticked
        BY <4>1, Zenon
      <4>3. QED
        BY <4>1, <4>2 DEF lineVars
    <3>4. ~(task'.g = g /\ task'.pc = "watch")
      BY <1>1, <2>4 DEF Planned
    <3>5. QED
      BY <2>4, <3>2, <3>3, <3>4, PlanKept
  <2>5. QED
    BY <2>2, <2>3, <2>4
<1>8. CASE PhotocellEdge \/ (\E v \in Versions : Publish(v)) \/ ApplyScalars \/ Start \/ StopStore
  <2>1. UNCHANGED <<enc, watch, gun, lineVars, closing, ticked>>
    BY <1>8 DEF PhotocellEdge, Publish, ApplyScalars, Start, StopStore, TaskOnly
  <2>2. stop = "flushed" => stop' = "flushed"
    BY <1>8 DEF PhotocellEdge, Publish, ApplyScalars, Start, StopStore, TaskOnly
  <2>3. QED
    BY <1>5, <2>1, <2>2
<1>9. QED
  BY <1>2, <1>3, <1>6, <1>7, <1>8 DEF Next, Stops

LEMMA StaysBlank ==
    ASSUME Types, Next, NEW g \in Guns, Blank(g)
    PROVE  Blank(g)'
<1>0. gun \in [Guns -> GunStates] /\ ~Shut.open /\ Shut.drop = 0 /\ task.g \in Guns
  BY TaskFields DEF Types, GunTypes, Shut
<1>1. ASSUME gun'[g] = gun[g] \/ gun'[g] = Shut PROVE Blank(g)'
  BY <1>0, <1>1 DEF Blank
<1>2. \A d, k : Opened(d, k).open
  BY DEF Opened
<1>3. CASE Task
  <2>1. CASE g # task.g
    BY <1>1, <1>3, <2>1, OtherGuns
  <2>2. CASE g = task.g /\ FireOpens
    <3> DEFINE d == FreshDrop(g)
               k == IF task.act = "dot" THEN "dot" ELSE "line"
    <3>1. gun' = [gun EXCEPT ![g] = Opened(d, k)]
      BY <2>2 DEF FireOpens
    <3> HIDE DEF d, k
    <3>2. QED
      BY <1>0, <1>2, <3>1 DEF Blank
  <2>3. CASE g = task.g /\ WatchLineEnd
    <3>1. PICK l : gun' = gun \/ gun' = [gun EXCEPT ![g].left = l]
      BY <2>3 DEF WatchLineEnd
    <3>2. gun'[g] = gun[g] \/ gun'[g] = [gun[g] EXCEPT !.left = l]
      BY <1>0, <3>1
    <3>3. QED
      BY <1>0, <1>1, <3>2 DEF Blank, GunStates
  <2>4. CASE g = task.g /\ ~FireOpens /\ ~WatchLineEnd
    <3>1. \/ gun'[g] = CloseIfDrop(g, lineDrop[g])
          \/ gun'[g].drop = gun[g].drop /\ (gun'[g].open <=> gun[g].open)
      BY <1>3, <2>4, LineSteps
    <3>2. QED
      BY <1>1, <3>1, ClosedOrNot DEF Blank
  <2>5. QED
    BY <2>1, <2>2, <2>3, <2>4
<1>4. CASE Move
  <2>1. gun'[g] = gun[g] \/ \E l : gun'[g] = [gun[g] EXCEPT !.left = l]
    BY <1>4 DEF Move
  <2>2. QED
    BY <1>0, <1>1, <2>1 DEF Blank, GunStates
<1>5. CASE \E h \in Guns : TickClose(h) \/ GunCloses(h) \/ TestFire(h)
  <2>1. PICK h \in Guns : TickClose(h) \/ GunCloses(h) \/ TestFire(h)
    BY <1>5
  <2> DEFINE c == Opened(FreshDrop(h), "test")
             t == CloseIfDrop(h, closing[h])
  <2>2. gun' = [gun EXCEPT ![h] = t] \/ gun' = [gun EXCEPT ![h] = Shut] \/ gun' = [gun EXCEPT ![h] = c]
    BY <2>1 DEF TickClose, GunCloses, TestFire
  <2>3. c.open /\ (t = gun[h] \/ t = Shut)
    BY <1>2, ClosedOrNot
  <2> HIDE DEF c, t
  <2>4. gun'[g] = gun[g] \/ gun'[g] = Shut \/ gun'[g] = c
    BY <1>0, <2>2, <2>3
  <2>5. QED
    BY <1>1, <2>3, <2>4 DEF Blank
<1>6. CASE StopAbort \/ FaultStop
  BY <1>1, <1>6 DEF StopAbort, FaultStop
<1>7. CASE TickBegin \/ PhotocellEdge \/ (\E v \in Versions : Publish(v)) \/ ApplyScalars \/ Start
           \/ StopFlush \/ StopStore
  BY <1>1, <1>7 DEF TickBegin, PhotocellEdge, Publish, ApplyScalars, Start, StopFlush, StopStore, TaskOnly
<1>8. QED
  BY <1>3, <1>4, <1>5, <1>6, <1>7 DEF Next, Stops

LEMMA HandStays == Types /\ LineInHand /\ [Next]_vars => LineInHand'
<1> SUFFICES ASSUME Types, LineInHand, [Next]_vars PROVE LineInHand'
  OBVIOUS
<1>1. CASE Next /\ ~Task
  <2>1. task'.pc = task.pc /\ task'.drop = task.drop
    <3>1. CASE Move
      <4> DEFINE s == Older(task.peek)
      <4>1. task' = [task EXCEPT !.peek = s] /\ task \in Tasks
        BY <3>1, TaskFields DEF Move
      <4> HIDE DEF s
      <4>2. QED
        BY <4>1 DEF Tasks
    <3>2. CASE ~Move
      BY <1>1, <3>2 DEF Next, TickBegin, TickClose, PhotocellEdge, Publish, ApplyScalars, Start, Stops,
                        StopFlush, StopAbort, StopStore, FaultStop, GunCloses, TestFire, TaskOnly
    <3>3. QED
      BY <3>1, <3>2
  <2>2. QED
    BY <2>1 DEF LineInHand
<1>2. CASE FireOpens
  <2> DEFINE d == FreshDrop(task.g)
  <2>1. task' = [task EXCEPT !.pc = "advance"] \/ task' = [task EXCEPT !.pc = "watch", !.drop = d]
    BY <1>2 DEF FireOpens
  <2>2. d # 0
    BY TaskFields, Fresh
  <2> HIDE DEF d
  <2>3. task \in Tasks
    BY TaskFields
  <2>4. QED
    BY <2>1, <2>2, <2>3 DEF Tasks, LineInHand
<1>3. CASE WatchLineEnd
  <2>1. task' = NextGun \/ task' = [task EXCEPT !.pc = "advance", !.drop = 0]
    BY <1>3 DEF WatchLineEnd
  <2>2. task \in Tasks /\ NextGun.pc # "watch"
    BY TaskFields, NextGunTyped
  <2>3. QED
    BY <2>1, <2>2 DEF Tasks, LineInHand
<1>4. CASE Task /\ ~FireOpens /\ ~WatchLineEnd
  BY <1>4, LineSteps DEF LineInHand
<1>5. CASE UNCHANGED vars
  BY <1>5 DEF vars, LineInHand
<1>6. QED
  BY <1>1, <1>2, <1>3, <1>4, <1>5

LEMMA AllPlannedStart == Init => AllPlanned
<1> SUFFICES ASSUME Init PROVE AllPlanned
  OBVIOUS
<1>1. task.pc = "wait" /\ \A g \in Guns : gun[g] = Shut
  BY DEF Init
<1>2. Shut.drop = 0 /\ Shut.left = Unplanned
  BY DEF Shut
<1>3. QED
  BY <1>1, <1>2 DEF AllPlanned, LineInHand, Blank, Planned

LEMMA AllPlannedStep ==
    Types /\ AllAged /\ LinesKnown /\ AllPunctual /\ AllPlanned /\ [Next]_vars => AllPlanned'
<1> SUFFICES ASSUME Types, AllAged, LinesKnown, AllPunctual, AllPlanned, [Next]_vars PROVE AllPlanned'
  OBVIOUS
<1>1. LineInHand'
  BY HandStays DEF AllPlanned
<1>2. ASSUME NEW g \in Guns PROVE Blank(g)' /\ Planned(g)'
  <2>1. Blank(g) /\ Planned(g)
    BY DEF AllPlanned
  <2>2. CASE UNCHANGED vars
    <3>1. UNCHANGED <<enc, gun, watch, lineDrop, closing, stop, task>> /\ UNCHANGED ticked
      BY <2>2 DEF vars, lineVars
    <3>2. ticked' <=> ticked
      BY <3>1, Zenon
    <3>3. QED
      BY <2>1, <3>1, <3>2 DEF Blank, Planned, Unplanned
  <2>3. CASE Next
    <3>1. Blank(g)'
      BY <2>1, <2>3, StaysBlank
    <3>2. Planned(g)'
      BY <2>1, <2>3, WatchPlans, TaskPlans, WorldPlans
    <3>3. QED
      BY <3>1, <3>2
  <2>4. QED
    BY <2>2, <2>3
<1>3. QED
  BY <1>1, <1>2 DEF AllPlanned

\* However late the task is, within LagMax, a line that it has handed to the tick hook is
\* closed at the pulse at which it ends.  Commands come one at a time: a start and a stop
\* between two rounds leave sheets in the queue that no round looks after while the
\* machine stands, until the counter has wrapped under them.
THEOREM LineEndCorrect == ~Bursts => (Spec => []LineEndsOnTime)
<1> SUFFICES ASSUME ~Bursts PROVE Spec => []LineEndsOnTime
  OBVIOUS
<1>1. AllPlanned => LineEndsOnTime
  BY Constants DEF AllPlanned, Planned, LineEndsOnTime, Unplanned
<1>2. Spec => []Types
  BY TypesStart, TypesStep, PTL DEF Spec
<1>3. Spec => []LinesKnown
  BY <1>2, LinesKnownStart, LinesKnownStep, PTL DEF Spec
<1>4. Spec => []Halted
  BY <1>2, <1>3, HaltedStart, HaltedStep, PTL DEF Spec
<1>5. Types /\ Halted /\ Orderly /\ [Next]_vars => Orderly'
  BY OrderlyStep
<1>6. Spec => []Orderly
  BY <1>2, <1>4, <1>5, OrderlyStart, PTL DEF Spec
<1>7. Spec => []AllAged
  BY <1>2, AllAgedStart, AllAgedStep, PTL DEF Spec
<1>8. Spec => []AllPunctual
  BY <1>2, <1>4, <1>6, <1>7, AllPunctualStart, AllPunctualStep, PTL DEF Spec
<1>9. Spec => []AllPlanned
  BY <1>2, <1>3, <1>7, <1>8, AllPlannedStart, AllPlannedStep, PTL DEF Spec
<1>10. QED
  BY <1>1, <1>9, PTL

----------------------------------------------------------------------------
(* SheetPlan: the events of a sheet and where it stands.                   *)

\* A sheet that nothing has been performed of.
Untouched(s) == s.elem = 1 /\ s.dot = 0 /\ ~s.open

\* A sheet stands at an event of the pattern, or behind the last.
InPattern(v, g, s) ==
    /\ Type(v, g) = "lines" => s.dot = 0
    /\ Type(v, g) = "dots" /\ s.elem <= Len(Elems(v, g)) => DotAt(v, g, s) <= Elems(v, g)[s.elem].end

DotFits(v, g, i, d) == Elems(v, g)[i].start + d * Elems(v, g)[i].spacing <= Elems(v, g)[i].end

LEMMA MoreDots ==
    ASSUME NEW a \in Nat, NEW b \in Nat, NEW n \in Nat, a <= b
    PROVE  a * n <= b * n /\ (n > 0 => b <= b * n)
<1>1. PICK c \in Nat : b = a + c
  <2>1. b - a \in Nat /\ b = a + (b - a)
    OBVIOUS
  <2>2. QED
    BY <2>1
<1>2. b * n = a * n + c * n /\ a * n \in Nat /\ c * n \in Nat
  BY <1>1
<1>3. a * n <= b * n
  BY <1>2
<1>4. ASSUME n > 0 PROVE b <= b * n
  <2>1. PICK m \in Nat : n = m + 1
    <3>1. n - 1 \in Nat /\ n = (n - 1) + 1
      BY <1>4
    <3>2. QED
      BY <3>1
  <2>2. b * n = b * m + b /\ b * m \in Nat
    BY <2>1
  <2>3. QED
    BY <2>2
<1>5. QED
  BY <1>3, <1>4

\* The dots of an element come one after the other, no more than AgeMax of them.
LEMMA DotsInOrder ==
    ASSUME NEW v \in Versions, NEW g \in Guns, Type(v, g) = "dots",
           NEW i \in 1 .. Len(Elems(v, g)), NEW d \in Nat
    PROVE  /\ DotFits(v, g, i, d) => d \in 0 .. AgeMax
           /\ ~DotFits(v, g, i, d) => \A c \in Nat : d <= c => ~DotFits(v, g, i, c)
           /\ DotFits(v, g, i, 0)
<1> DEFINE a == Elems(v, g)[i].start
           b == Elems(v, g)[i].end
           n == Elems(v, g)[i].spacing
<1>1. a \in Nat /\ b \in Nat /\ n \in Nat /\ a <= b /\ n > 0 /\ b <= AgeMax /\ AgeMax \in Nat
  <2>1. /\ a \in Nat /\ b \in Nat /\ n \in Nat /\ a <= b
        /\ \A o \in Offsets : o + b <= AgeMax
    BY Geometry
  <2>2. OffsetOf[v] \in Nat /\ OffsetOf[v] \in Offsets /\ AgeMax \in Nat
    BY SchedulerAssumption DEF Offsets
  <2>3. b <= AgeMax
    BY <2>1, <2>2
  <2>4. n > 0
    <3> DEFINE p == Shape[v][g]
    <3>1. /\ p.elems \in Seq([start : Nat, end : Nat, spacing : Nat])
          /\ \A j \in DOMAIN p.elems : p.type = "dots" => p.elems[j].spacing > 0
      BY ShapeAssumption
    <3>2. Elems(v, g) = p.elems /\ Type(v, g) = p.type
      BY DEF Elems, Type
    <3> HIDE DEF p
    <3>3. i \in DOMAIN p.elems
      BY <3>1, <3>2
    <3>4. p.elems[i].spacing > 0
      BY <3>1, <3>2, <3>3
    <3>5. QED
      BY <3>2, <3>4
  <2>5. QED
    BY <2>1, <2>2, <2>3, <2>4
<1>2. \A c : DotFits(v, g, i, c) <=> a + c * n <= b
  BY DEF DotFits
<1> HIDE DEF a, b, n
<1>3. d * n \in Nat /\ d <= d * n
  BY <1>1, MoreDots
<1>4. ASSUME ~(a + d * n <= b), NEW c \in Nat, d <= c PROVE ~(a + c * n <= b)
  <2>1. d * n <= c * n /\ c * n \in Nat
    BY <1>1, <1>4, MoreDots
  <2> DEFINE x == d * n
             y == c * n
  <2> HIDE DEF x, y
  <2>2. x <= y /\ x \in Nat /\ y \in Nat /\ ~(a + x <= b)
    BY <1>3, <1>4, <2>1 DEF x, y
  <2>3. ~(a + y <= b)
    BY <1>1, <2>2
  <2>4. QED
    BY <2>3 DEF y
<1>5. a + 0 * n <= b
  BY <1>1
<1>6. a + d * n <= b => d \in 0 .. AgeMax
  <2> DEFINE x == d * n
  <2> HIDE DEF x
  <2>1. x \in Nat /\ d <= x
    BY <1>3 DEF x
  <2>2. a + x <= b => d \in 0 .. AgeMax
    BY <1>1, <2>1
  <2>3. QED
    BY <2>2 DEF x
<1>7. DotFits(v, g, i, d) => d \in 0 .. AgeMax
  BY <1>2, <1>6
<1>8. ASSUME ~DotFits(v, g, i, d), NEW c \in Nat, d <= c PROVE ~DotFits(v, g, i, c)
  BY <1>2, <1>4, <1>8
<1>9. DotFits(v, g, i, 0)
  BY <1>2, <1>5
<1>10. QED
  BY <1>7, <1>8, <1>9

LEMMA PastOf ==
    ASSUME NEW s, NEW i, NEW d, NEW a
    PROVE  Past(s, <<i, d, a>>) <=>
              i < s.elem \/ (i = s.elem /\ (d < s.dot \/ (a = "open" /\ s.open)))
BY DEF Past

\* What is still to come of a sheet with lines, ...
LEMMA LinesLeft ==
    ASSUME NEW v \in Versions, NEW g \in Guns, NEW s \in Sheets, Type(v, g) = "lines", s.dot = 0, NEW e
    PROVE  e \in Remaining(v, g, s) <=>
              \E i \in 1 .. Len(Elems(v, g)), a \in {"open", "close"} :
                 /\ e = <<i, 0, a>>
                 /\ i > s.elem \/ (i = s.elem /\ (s.open => a = "close"))
<1>1. DOMAIN Elems(v, g) = 1 .. Len(Elems(v, g)) /\ s.elem \in Nat
  BY ShapeAssumption, Items DEF Elems, Sheets
<1>2. AllEvents(v, g) = (1 .. Len(Elems(v, g))) \X {0} \X {"open", "close"}
  BY <1>1 DEF AllEvents
<1>3. e \in AllEvents(v, g) <=>
         \E i \in 1 .. Len(Elems(v, g)), a \in {"open", "close"} : e = <<i, 0, a>>
  BY <1>2
<1>4. ASSUME NEW i \in 1 .. Len(Elems(v, g)), NEW a \in {"open", "close"}
      PROVE  ~Past(s, <<i, 0, a>>) <=> i > s.elem \/ (i = s.elem /\ (s.open => a = "close"))
  BY <1>1, PastOf
<1>5. e \in Remaining(v, g, s) <=> e \in AllEvents(v, g) /\ ~Past(s, e)
  BY DEF Remaining
<1>6. QED
  BY <1>3, <1>4, <1>5

\* ... of one with dots, ...
LEMMA DotsLeft ==
    ASSUME NEW v \in Versions, NEW g \in Guns, NEW s \in Sheets, Type(v, g) = "dots", NEW e
    PROVE  e \in Remaining(v, g, s) <=>
              \E i \in 1 .. Len(Elems(v, g)), d \in Nat :
                 /\ e = <<i, d, "dot">> /\ DotFits(v, g, i, d)
                 /\ i > s.elem \/ (i = s.elem /\ d >= s.dot)
<1>1. DOMAIN Elems(v, g) = 1 .. Len(Elems(v, g)) /\ s.elem \in Nat /\ s.dot \in Nat
  BY ShapeAssumption, Items DEF Elems, Sheets
<1>2. AllEvents(v, g) =
         {x \in (1 .. Len(Elems(v, g))) \X (0 .. AgeMax) \X {"dot"} : DotFits(v, g, x[1], x[2])}
  BY <1>1 DEF AllEvents, DotFits
<1>3. e \in AllEvents(v, g) <=>
         \E i \in 1 .. Len(Elems(v, g)), d \in 0 .. AgeMax : e = <<i, d, "dot">> /\ DotFits(v, g, i, d)
  BY <1>2
<1>4. e \in AllEvents(v, g) <=>
         \E i \in 1 .. Len(Elems(v, g)), d \in Nat : e = <<i, d, "dot">> /\ DotFits(v, g, i, d)
  BY <1>3, DotsInOrder
<1>5. ASSUME NEW i \in 1 .. Len(Elems(v, g)), NEW d \in Nat
      PROVE  ~Past(s, <<i, d, "dot">>) <=> i > s.elem \/ (i = s.elem /\ d >= s.dot)
  BY <1>1, PastOf
<1>6. e \in Remaining(v, g, s) <=> e \in AllEvents(v, g) /\ ~Past(s, e)
  BY DEF Remaining
<1>7. QED
  BY <1>4, <1>5, <1>6

\* ... and of one without either.
LEMMA NoneLeft ==
    ASSUME NEW v, NEW g, NEW s, Type(v, g) = "none"
    PROVE  Remaining(v, g, s) = {}
BY DEF Remaining, AllEvents

\* The plan depends on the pattern, not on the configuration it was published in, ...
LEMMA SamePlan ==
    ASSUME NEW v, NEW w, NEW g, Shape[v][g] = Shape[w][g], NEW s
    PROVE  /\ AllEvents(v, g) = AllEvents(w, g) /\ Remaining(v, g, s) = Remaining(w, g, s)
           /\ InPattern(v, g, s) <=> InPattern(w, g, s)
           /\ NothingLeft(v, g, s) <=> NothingLeft(w, g, s)
           /\ NextAction(v, g, s) = NextAction(w, g, s)
<1>1. Elems(v, g) = Elems(w, g) /\ Type(v, g) = Type(w, g)
  BY DEF Elems, Type
<1>2. AllEvents(v, g) = AllEvents(w, g)
  BY <1>1 DEF AllEvents
<1>3. Remaining(v, g, s) = Remaining(w, g, s)
  BY <1>2 DEF Remaining
<1>4. DotAt(v, g, s) = DotAt(w, g, s)
  BY <1>1 DEF DotAt
<1>5. QED
  BY <1>1, <1>2, <1>3, <1>4 DEF InPattern, NothingLeft, NextAction

\* ... nor on the age of the sheet.
LEMMA AgelessPlan ==
    ASSUME NEW v, NEW g, NEW s \in Sheets
    PROVE  /\ Remaining(v, g, Older(s)) = Remaining(v, g, s)
           /\ InPattern(v, g, Older(s)) <=> InPattern(v, g, s)
           /\ NothingLeft(v, g, Older(s)) <=> NothingLeft(v, g, s)
           /\ NextAction(v, g, Older(s)) = NextAction(v, g, s)
           /\ Untouched(Older(s)) <=> Untouched(s)
           /\ Older(s).elem = s.elem /\ Older(s).dot = s.dot
<1> DEFINE r == Older(s)
<1>1. r.elem = s.elem /\ r.dot = s.dot /\ (r.open <=> s.open)
  BY DEF Older, Sheets
<1> HIDE DEF r
<1>2. \A e : Past(r, e) <=> Past(s, e)
  BY <1>1 DEF Past
<1>3. Remaining(v, g, r) = Remaining(v, g, s)
  BY <1>2 DEF Remaining
<1>4. DotAt(v, g, r) = DotAt(v, g, s)
  BY <1>1 DEF DotAt
<1>5. InPattern(v, g, r) <=> InPattern(v, g, s)
  BY <1>1, <1>4 DEF InPattern
<1>6. NothingLeft(v, g, r) <=> NothingLeft(v, g, s)
  BY <1>1, <1>4 DEF NothingLeft
<1>7. NextAction(v, g, r) = NextAction(v, g, s)
  BY <1>1 DEF NextAction
<1>8. QED
  BY <1>1, <1>3, <1>5, <1>6, <1>7 DEF Untouched, r

\* A new sheet has everything to come.
LEMMA NewPlan ==
    ASSUME NEW v \in Versions, NEW g \in Guns, NEW s \in Sheets, Untouched(s)
    PROVE  Remaining(v, g, s) = AllEvents(v, g) /\ InPattern(v, g, s)
<1>1. s.elem = 1 /\ s.dot = 0 /\ ~s.open
  BY DEF Untouched
<1>2. InPattern(v, g, s)
  <2>1. ASSUME Type(v, g) = "dots", 1 <= Len(Elems(v, g)) PROVE DotFits(v, g, 1, 0)
    <3>1. 1 \in 1 .. Len(Elems(v, g))
      BY <2>1, Geometry
    <3>2. QED
      BY <2>1, <3>1, DotsInOrder
  <2>2. DotAt(v, g, s) = Elems(v, g)[1].start + 0 * Elems(v, g)[1].spacing
    BY <1>1 DEF DotAt
  <2>3. QED
    BY <1>1, <2>1, <2>2 DEF InPattern, DotFits
<1>3. CASE Type(v, g) = "lines"
  <2>1. DOMAIN Elems(v, g) = 1 .. Len(Elems(v, g))
    BY ShapeAssumption, Items DEF Elems
  <2>2. ASSUME NEW e \in AllEvents(v, g) PROVE ~Past(s, e)
    <3>1. PICK i \in 1 .. Len(Elems(v, g)), a \in {"open", "close"} : e = <<i, 0, a>>
      BY <1>3, <2>1 DEF AllEvents
    <3>2. QED
      BY <1>1, <3>1, PastOf
  <2>3. QED
    BY <1>2, <2>2 DEF Remaining
<1>4. CASE Type(v, g) = "dots"
  <2>1. DOMAIN Elems(v, g) = 1 .. Len(Elems(v, g))
    BY ShapeAssumption, Items DEF Elems
  <2>2. ASSUME NEW e \in AllEvents(v, g) PROVE ~Past(s, e)
    <3>1. PICK i \in 1 .. Len(Elems(v, g)), d \in 0 .. AgeMax : e = <<i, d, "dot">>
      BY <1>4, <2>1 DEF AllEvents
    <3>2. ~(i < 1) /\ ~(d < 0)
      BY <3>1
    <3>3. QED
      BY <1>1, <3>1, <3>2, PastOf
  <2>3. QED
    BY <1>2, <2>2 DEF Remaining
<1>5. CASE Type(v, g) = "none"
  <2>1. AllEvents(v, g) = {}
    BY <1>5 DEF AllEvents
  <2>2. QED
    BY <1>2, <1>5, <2>1, NoneLeft
<1>6. QED
  BY <1>3, <1>4, <1>5, Geometry

\* A sheet that the task pops has nothing left to be performed.
LEMMA DonePlan ==
    ASSUME NEW v \in Versions, NEW g \in Guns, NEW s \in Sheets, s.elem # 0,
           InPattern(v, g, s), NothingLeft(v, g, s)
    PROVE  Remaining(v, g, s) = {}
<1>1. s.elem \in Nat /\ Len(Elems(v, g)) \in Nat
  BY Geometry DEF Sheets
<1>2. CASE Type(v, g) = "none"
  BY <1>2, NoneLeft
<1>3. CASE Type(v, g) = "lines"
  <2>1. s.elem > Len(Elems(v, g)) /\ s.dot = 0
    BY <1>3 DEF NothingLeft, InPattern
  <2>2. QED
    BY <1>1, <1>3, <2>1, LinesLeft
<1>4. CASE Type(v, g) = "dots"
  <2>1. s.elem > Len(Elems(v, g))
    <3> DEFINE x == DotAt(v, g, s)
               y == Elems(v, g)[s.elem].end
    <3>1. CASE s.elem <= Len(Elems(v, g))
      <4>1. s.elem \in 1 .. Len(Elems(v, g))
        BY <1>1, <3>1
      <4>2. y \in Nat /\ Elems(v, g)[s.elem].start \in Nat /\ Elems(v, g)[s.elem].spacing \in Nat
        BY <4>1, Geometry
      <4>3. x \in Nat
        <5>1. s.dot \in Nat
          BY DEF Sheets
        <5>2. s.dot * Elems(v, g)[s.elem].spacing \in Nat
          BY <4>2, <5>1, Products
        <5>3. QED
          BY <4>2, <5>2 DEF DotAt
      <4>4. x <= y /\ x > y
        BY <1>1, <1>4, <3>1 DEF InPattern, NothingLeft
      <4> HIDE DEF x, y
      <4>5. QED
        BY <4>2, <4>3, <4>4
    <3>2. QED
      BY <1>1, <3>1
  <2>2. QED
    BY <1>1, <1>4, <2>1, DotsLeft
<1>5. QED
  BY <1>2, <1>3, <1>4, Geometry

\* The event that the task asks for is the first of those to come.
LEMMA NextPlanned ==
    ASSUME NEW v \in Versions, NEW g \in Guns, NEW s \in Sheets, s.elem # 0,
           InPattern(v, g, s), ~NothingLeft(v, g, s)
    PROVE  LET e == <<s.elem, s.dot, NextAction(v, g, s)>> IN
           e \in Remaining(v, g, s) /\ \A f \in Remaining(v, g, s) \ {e} : Plan!Earlier(e, f)
<1> DEFINE e == <<s.elem, s.dot, NextAction(v, g, s)>>
<1>1. s.elem \in 1 .. Len(Elems(v, g)) /\ s.dot \in Nat /\ s.elem \in Nat
  BY Geometry DEF NothingLeft, Sheets
<1>2. CASE Type(v, g) = "lines"
  <2>1. s.dot = 0 /\ NextAction(v, g, s) = IF s.open THEN "close" ELSE "open"
    BY <1>2 DEF InPattern, NextAction
  <2>2. e \in Remaining(v, g, s)
    BY <1>1, <1>2, <2>1, LinesLeft
  <2>3. ASSUME NEW f \in Remaining(v, g, s), f # e PROVE Plan!Earlier(e, f)
    <3>1. PICK i \in 1 .. Len(Elems(v, g)), a \in {"open", "close"} :
             f = <<i, 0, a>> /\ (i > s.elem \/ (i = s.elem /\ (s.open => a = "close")))
      BY <1>2, <2>1, <2>3, LinesLeft
    <3>2. CASE i > s.elem
      BY <1>1, <3>1, <3>2 DEF Plan!Earlier
    <3>3. CASE i = s.elem
      <4>1. ~s.open /\ a = "close"
        BY <2>1, <2>3, <3>1, <3>3
      <4>2. e = <<s.elem, 0, "open">> /\ f = <<s.elem, 0, "close">>
        BY <2>1, <3>1, <3>3, <4>1
      <4>3. QED
        BY <4>2 DEF Plan!Earlier
    <3>4. QED
      BY <3>1, <3>2, <3>3
  <2>4. QED
    BY <2>2, <2>3
<1>3. CASE Type(v, g) = "dots"
  <2>1. NextAction(v, g, s) = "dot" /\ DotFits(v, g, s.elem, s.dot)
    BY <1>1, <1>3 DEF InPattern, NextAction, DotFits, DotAt
  <2>2. e \in Remaining(v, g, s)
    BY <1>1, <1>3, <2>1, DotsLeft
  <2>3. ASSUME NEW f \in Remaining(v, g, s), f # e PROVE Plan!Earlier(e, f)
    <3>1. PICK i \in 1 .. Len(Elems(v, g)), d \in Nat :
             f = <<i, d, "dot">> /\ (i > s.elem \/ (i = s.elem /\ d >= s.dot))
      BY <1>3, <2>3, DotsLeft
    <3>2. i > s.elem \/ (i = s.elem /\ d > s.dot)
      BY <1>1, <2>1, <2>3, <3>1
    <3>3. QED
      BY <1>1, <3>1, <3>2 DEF Plan!Earlier
  <2>4. QED
    BY <2>2, <2>3
<1>4. QED
  BY <1>2, <1>3, Geometry DEF NothingLeft

\* What the task writes back lacks just that event.
LEMMA AdvancedPlan ==
    ASSUME NEW v \in Versions, NEW g \in Guns, NEW s \in Sheets, s.elem # 0,
           InPattern(v, g, s), ~NothingLeft(v, g, s), task.act = NextAction(v, g, s)
    PROVE  /\ Remaining(v, g, Advanced(v, g, s)) = Remaining(v, g, s) \ {<<s.elem, s.dot, task.act>>}
           /\ InPattern(v, g, Advanced(v, g, s))
<1> DEFINE e == <<s.elem, s.dot, task.act>>
           t == Advanced(v, g, s)
<1>1. /\ s.elem \in 1 .. Len(Elems(v, g)) /\ s.dot \in Nat /\ s.elem \in Nat /\ s.open \in BOOLEAN
      /\ Len(Elems(v, g)) \in Nat /\ ~(s.elem > Len(Elems(v, g)))
  BY Geometry DEF NothingLeft, Sheets
<1>2. t \in Sheets
  BY AdvancedTyped
<1>3. CASE Type(v, g) = "lines"
  <2>1. s.dot = 0 /\ task.act = IF s.open THEN "close" ELSE "open"
    BY <1>3 DEF InPattern, NextAction
  <2>2. t = IF s.open THEN [s EXCEPT !.open = FALSE, !.elem = s.elem + 1]
            ELSE [s EXCEPT !.open = TRUE]
    BY <1>1, <1>3, <2>1 DEF Advanced
  <2>3. t.dot = 0 /\ t.elem = (IF s.open THEN s.elem + 1 ELSE s.elem) /\ (t.open <=> ~s.open)
    BY <1>1, <2>1, <2>2 DEF Sheets
  <2> HIDE DEF t, e
  <2>4. ASSUME NEW i \in 1 .. Len(Elems(v, g)), NEW a \in {"open", "close"}
        PROVE  /\ i > t.elem \/ (i = t.elem /\ (t.open => a = "close"))
               <=> /\ i > s.elem \/ (i = s.elem /\ (s.open => a = "close"))
                   /\ <<i, 0, a>> # e
    <3>1. <<i, 0, a>> # e <=> i # s.elem \/ a # task.act
      BY <2>1 DEF e
    <3>2. CASE s.open
      BY <1>1, <2>1, <2>3, <3>1, <3>2
    <3>3. CASE ~s.open
      BY <1>1, <2>1, <2>3, <3>1, <3>3
    <3>4. QED
      BY <3>2, <3>3
  <2>5. \A f : f \in Remaining(v, g, t) <=>
              \E i \in 1 .. Len(Elems(v, g)), a \in {"open", "close"} :
                 /\ f = <<i, 0, a>>
                 /\ i > t.elem \/ (i = t.elem /\ (t.open => a = "close"))
    BY <1>2, <1>3, <2>3, LinesLeft
  <2>6. \A f : f \in Remaining(v, g, s) <=>
              \E i \in 1 .. Len(Elems(v, g)), a \in {"open", "close"} :
                 /\ f = <<i, 0, a>>
                 /\ i > s.elem \/ (i = s.elem /\ (s.open => a = "close"))
    BY <1>3, <2>1, LinesLeft
  <2>7. \A f : f \in Remaining(v, g, t) <=> f \in Remaining(v, g, s) /\ f # e
    BY <2>4, <2>5, <2>6
  <2>8. Remaining(v, g, t) = Remaining(v, g, s) \ {e}
    BY <2>7
  <2>9. InPattern(v, g, t)
    BY <1>3, <2>3 DEF InPattern
  <2>10. QED
    BY <2>8, <2>9 DEF e, t
<1>4. CASE Type(v, g) = "dots"
  <2> DEFINE next == [s EXCEPT !.dot = s.dot + 1]
             last == [s EXCEPT !.elem = s.elem + 1, !.dot = 0]
             more == DotFits(v, g, s.elem, s.dot + 1)
  <2>1. task.act = "dot" /\ s.dot + 1 \in Nat
    BY <1>1, <1>4 DEF NextAction
  <2>2. /\ next.elem = s.elem /\ next.dot = s.dot + 1
        /\ last.elem = s.elem + 1 /\ last.dot = 0
    BY DEF Sheets
  <2>3. DotAt(v, g, next) = Elems(v, g)[s.elem].start + (s.dot + 1) * Elems(v, g)[s.elem].spacing
    BY <2>2 DEF DotAt
  <2>4. DotAt(v, g, next) > Elems(v, g)[s.elem].end <=> ~more
    <3> DEFINE x == (s.dot + 1) * Elems(v, g)[s.elem].spacing
               y == Elems(v, g)[s.elem].end
               z == Elems(v, g)[s.elem].start
    <3>1. y \in Nat /\ z \in Nat /\ Elems(v, g)[s.elem].spacing \in Nat
      BY <1>1, Geometry
    <3>2. x \in Nat
      BY <2>1, <3>1, Products
    <3>3. (more <=> z + x <= y) /\ DotAt(v, g, next) = z + x
      BY <2>3 DEF DotFits
    <3> HIDE DEF x, y, z, more, next
    <3>4. z + x > y <=> ~(z + x <= y)
      BY <3>1, <3>2
    <3>5. DotAt(v, g, next) > y <=> ~more
      BY <3>3, <3>4
    <3>6. QED
      BY <3>5 DEF y
  <2>5. t = IF DotAt(v, g, next) > Elems(v, g)[s.elem].end THEN last ELSE next
    BY <1>1, <1>4 DEF Advanced, NextElem
  <2>6. IF more THEN t = next ELSE t = last
    BY <2>4, <2>5
  <2>7. IF more THEN t.elem = s.elem /\ t.dot = s.dot + 1 ELSE t.elem = s.elem + 1 /\ t.dot = 0
    BY <2>2, <2>6
  <2> HIDE DEF next, last, t, e
  <2>8. ~more => \A d \in Nat : d > s.dot => ~DotFits(v, g, s.elem, d)
    <3>1. ~more => \A d \in Nat : s.dot + 1 <= d => ~DotFits(v, g, s.elem, d)
      BY <1>1, <1>4, <2>1, DotsInOrder
    <3>2. \A d \in Nat : d > s.dot => s.dot + 1 <= d
      BY <1>1
    <3>3. QED
      BY <3>1, <3>2
  <2>9. ASSUME NEW i \in 1 .. Len(Elems(v, g)), NEW d \in Nat
        PROVE  DotFits(v, g, i, d) /\ (i > t.elem \/ (i = t.elem /\ d >= t.dot))
               <=> /\ DotFits(v, g, i, d) /\ (i > s.elem \/ (i = s.elem /\ d >= s.dot))
                   /\ <<i, d, "dot">> # e
    <3>1. <<i, d, "dot">> # e <=> i # s.elem \/ d # s.dot
      BY <2>1 DEF e
    <3>2. CASE more
      <4>1. t.elem = s.elem /\ t.dot = s.dot + 1
        BY <2>7, <3>2
      <4>2. i = s.elem => (d >= s.dot + 1 <=> d >= s.dot /\ d # s.dot)
        BY <1>1
      <4>3. i > s.elem => i # s.elem
        BY <1>1
      <4>4. QED
        BY <3>1, <4>1, <4>2, <4>3
    <3>3. CASE ~more
      <4>1. i = s.elem /\ DotFits(v, g, i, d) => ~(d > s.dot)
        BY <2>8, <3>3
      <4> HIDE DEF more
      <4>2. t.elem = s.elem + 1 /\ t.dot = 0
        BY <2>7, <3>3
      <4>3. QED
        BY <1>1, <3>1, <4>1, <4>2
    <3>4. QED
      BY <3>2, <3>3
  <2>10. \A f : f \in Remaining(v, g, t) <=>
              \E i \in 1 .. Len(Elems(v, g)), d \in Nat :
                 /\ f = <<i, d, "dot">> /\ DotFits(v, g, i, d)
                 /\ i > t.elem \/ (i = t.elem /\ d >= t.dot)
    BY <1>2, <1>4, DotsLeft
  <2>11. \A f : f \in Remaining(v, g, s) <=>
              \E i \in 1 .. Len(Elems(v, g)), d \in Nat :
                 /\ f = <<i, d, "dot">> /\ DotFits(v, g, i, d)
                 /\ i > s.elem \/ (i = s.elem /\ d >= s.dot)
    BY <1>4, DotsLeft
  <2>12. \A f : f \in Remaining(v, g, t) <=> f \in Remaining(v, g, s) /\ f # e
    BY <2>9, <2>10, <2>11
  <2>13. Remaining(v, g, t) = Remaining(v, g, s) \ {e}
    BY <2>12
  <2>14. InPattern(v, g, t)
    <3>1. CASE more
      BY <1>4, <2>7, <3>1 DEF InPattern, DotAt, DotFits
    <3>2. CASE ~more
      <4>1. t.elem <= Len(Elems(v, g)) => DotFits(v, g, t.elem, 0)
        <5>1. t.elem \in Nat /\ t.elem >= 1
          BY <1>1, <2>7, <3>2
        <5>2. t.elem <= Len(Elems(v, g)) => t.elem \in 1 .. Len(Elems(v, g))
          BY <1>1, <5>1
        <5>3. QED
          BY <1>4, <5>2, DotsInOrder
      <4>2. QED
        BY <1>4, <2>7, <3>2, <4>1 DEF InPattern, DotAt, DotFits
    <3>3. QED
      BY <3>1, <3>2
  <2>15. QED
    BY <2>13, <2>14 DEF e, t
<1>5. QED
  BY <1>3, <1>4, Geometry DEF NothingLeft

\* While the machine runs and no edit is to come, every sheet stands in the pattern,
\* and the task asks for the event at which the head stands.
SheetsFit(g) == Undisturbed(g) => \A i \in DOMAIN ring[g] : InPattern(cfgv, g, ring[g][i])
AsksNext(g) ==
    Undisturbed(g) /\ Asked(g)
       => /\ ~NothingLeft(cfgv, g, task.peek)
          /\ task.act = NextAction(cfgv, g, task.peek)
\* An edit, once the task has compared, and a stop leave new sheets only.
EditsRenew(g) ==
    task.pc = "edits" /\ g < task.g /\ ~SameGeometry(task.v, seen, g)
       => \A i \in DOMAIN ring[g] : Untouched(ring[g][i])
StopsRenew(g) ==
    ~task.was /\ (task.pc = "wait" \/ g < task.g) => \A i \in DOMAIN ring[g] : Untouched(ring[g][i])
Fitting(g) == SheetsFit(g) /\ AsksNext(g) /\ EditsRenew(g)
AllFitting == \A g \in Guns : (Running => Fitting(g)) /\ StopsRenew(g)

LEMMA AllFittingStart == Init => AllFitting
<1> SUFFICES ASSUME Init PROVE AllFitting
  OBVIOUS
<1>1. ~active /\ \A g \in Guns : ring[g] = <<>>
  BY DEF Init
<1>2. DOMAIN <<>> = {}
  OBVIOUS
<1>3. QED
  BY <1>1, <1>2 DEF AllFitting, Running, StopsRenew

\* Only the task compares patterns, and only a publication replaces them.
LEMMA WorldSeen ==
    ASSUME Next, ~Task
    PROVE  /\ seen' = seen
           /\ cfgv' = cfgv \/ \E v \in Versions : Publish(v)
           /\ StopFlush => ring' = [h \in Guns |-> <<>>]
           /\ ~StopFlush /\ ~Move /\ ~PhotocellEdge => UNCHANGED <<ring, task>>
<1>1. seen' = seen
  BY DEF Next, TickBegin, TickClose, Move, PhotocellEdge, Publish, ApplyScalars, Start, Stops,
         StopFlush, StopAbort, StopStore, FaultStop, GunCloses, TestFire, TaskOnly, lineVars
<1>2. cfgv' = cfgv \/ \E v \in Versions : Publish(v)
  BY DEF Next, TickBegin, TickClose, Move, PhotocellEdge, ApplyScalars, Start, Stops,
         StopFlush, StopAbort, StopStore, FaultStop, GunCloses, TestFire, cfgVars
<1>3. ~StopFlush /\ ~Move /\ ~PhotocellEdge => UNCHANGED <<ring, task>>
  BY DEF Next, TickBegin, TickClose, Publish, ApplyScalars, Start, Stops,
         StopFlush, StopAbort, StopStore, FaultStop, GunCloses, TestFire, TaskOnly
<1>4. StopFlush => ring' = [h \in Guns |-> <<>>]
  BY DEF StopFlush
<1>5. QED
  BY <1>1, <1>2, <1>3, <1>4

\* What happens to the queues while the task does nothing.
LEMMA WorldRing ==
    ASSUME Types, Next, ~Task, ~StopFlush, NEW g \in Guns
    PROVE  \/ ring'[g] = ring[g] /\ task' = task
           \/ ring'[g] = [i \in DOMAIN ring[g] |-> Older(ring[g][i])] /\ task'.peek = Older(task.peek)
           \/ /\ ring'[g] = Append(ring[g], NewSheet(enc)) /\ task' = task
              /\ PhotocellEdge /\ Len(ring[g]) < QueueDepth
<1>1. CASE Move
  <2>1. ring'[g] = [i \in DOMAIN ring[g] |-> Older(ring[g][i])]
    BY <1>1 DEF Move
  <2> DEFINE s == Older(task.peek)
  <2>2. task' = [task EXCEPT !.peek = s] /\ task \in Tasks
    BY <1>1, TaskFields DEF Move
  <2> HIDE DEF s
  <2>3. task'.peek = s
    BY <2>2 DEF Tasks
  <2>4. QED
    BY <2>1, <2>3 DEF s
<1>2. CASE PhotocellEdge
  BY <1>2 DEF PhotocellEdge
<1>3. CASE ~Move /\ ~PhotocellEdge
  <2>1. UNCHANGED <<ring, task>>
    BY <1>3, WorldSeen
  <2>2. QED
    BY <2>1
<1>4. QED
  BY <1>1, <1>2, <1>3

LEMMA WorldSheets ==
    ASSUME Types, Next, ~Task, NEW g \in Guns, NEW i \in DOMAIN ring'[g]
    PROVE  \/ i \in DOMAIN ring[g] /\ ring[g][i] \in Sheets /\ ring[g][i].elem # 0
              /\ ring'[g][i] \in {ring[g][i], Older(ring[g][i])}
           \/ ring'[g][i] \in Sheets /\ Untouched(ring'[g][i])
<1>0. /\ ring[g] \in Seq(Sheets) /\ Len(ring[g]) \in Nat /\ DOMAIN ring[g] = 1 .. Len(ring[g])
      /\ \A j \in 1 .. Len(ring[g]) : ring[g][j] \in Sheets /\ ring[g][j].elem # 0
  BY Items DEF Types, RingTypes
<1>1. CASE StopFlush
  <2>1. ring'[g] = <<>>
    BY <1>1, WorldSeen
  <2>2. DOMAIN <<>> = {}
    OBVIOUS
  <2>3. QED
    BY <2>1, <2>2
<1>2. CASE ring'[g] = ring[g]
  BY <1>0, <1>2
<1>3. CASE ring'[g] = [j \in DOMAIN ring[g] |-> Older(ring[g][j])]
  BY <1>0, <1>3
<1>4. CASE ring'[g] = Append(ring[g], NewSheet(enc))
  <2> DEFINE n == NewSheet(enc)
  <2>1. n \in Sheets /\ Untouched(n)
    BY Records, TaskFields DEF NewSheet, Untouched
  <2> HIDE DEF n
  <2>2. /\ DOMAIN Append(ring[g], n) = 1 .. Len(ring[g]) + 1
        /\ \A j \in 1 .. Len(ring[g]) + 1 :
              Append(ring[g], n)[j] = IF j <= Len(ring[g]) THEN ring[g][j] ELSE n
    BY <1>0, <2>1
  <2>3. ring'[g] = Append(ring[g], n)
    BY <1>4 DEF n
  <2>4. QED
    BY <1>0, <2>1, <2>2, <2>3
<1>5. QED
  BY <1>1, <1>2, <1>3, <1>4, WorldRing

\* An edit is over only when the task has dealt with it.
LEMMA WorldSettled ==
    ASSUME ~Bursts, Types, ConfigSeen, Next, ~Task, Running'
    PROVE  /\ Running /\ ~StopFlush /\ seen' = seen
           /\ \A g \in Guns : Undisturbed(g)' => Undisturbed(g) /\ Shape[cfgv'][g] = Shape[cfgv][g]
<1>1. task'.pc = task.pc /\ (task'.was <=> task.was) /\ task'.v = task.v
  BY TaskStays
<1>2. Running /\ ~StopFlush
  <2>1. ~StopFlush /\ ~FaultStop /\ ~StopAbort /\ ~StopStore
    BY DEF StopFlush, FaultStop, StopAbort, StopStore, Running
  <2>2. ~Start
    <3>1. Start => ~task.was
      BY DEF Start, Noticed
    <3>2. QED
      BY <1>1, <3>1 DEF Running
  <2>3. UNCHANGED <<active, stop>>
    BY <2>1, <2>2 DEF Next, TickBegin, TickClose, Move, PhotocellEdge, Publish, ApplyScalars, Stops,
                      GunCloses, TestFire, TaskOnly
  <2>4. QED
    BY <1>1, <2>1, <2>3 DEF Running
<1>3. seen' = seen
  BY WorldSeen
<1>4. cfgv' = cfgv \/ ~edited
  <2>1. cfgv' = cfgv \/ \E v \in Versions : Publish(v)
    BY WorldSeen
  <2>2. QED
    BY <2>1 DEF Publish
<1>5. ASSUME NEW g \in Guns, Undisturbed(g)' PROVE Undisturbed(g) /\ Shape[cfgv'][g] = Shape[cfgv][g]
  <2>1. /\ Shape[cfgv'][g] = Shape[seen][g]
        /\ task.pc = "edits" => Shape[task.v][g] = Shape[seen][g]
    BY <1>1, <1>3, <1>5 DEF Undisturbed, SameGeometry
  <2>2. Shape[cfgv][g] = Shape[seen][g]
    BY <1>4, <2>1 DEF ConfigSeen
  <2>3. QED
    BY <2>1, <2>2 DEF Undisturbed, SameGeometry
<1>6. QED
  BY <1>2, <1>3, <1>5

LEMMA WorldFits ==
    ASSUME ~Bursts, Types, ConfigSeen, AllFitting, Next, ~Task
    PROVE  AllFitting'
<1> SUFFICES ASSUME NEW g \in Guns PROVE (Running' => Fitting(g)') /\ StopsRenew(g)'
  BY DEF AllFitting
<1>0. /\ task'.pc = task.pc /\ task'.g = task.g /\ (task'.was <=> task.was) /\ task'.v = task.v
      /\ task'.act = task.act /\ task'.peek \in {task.peek, Older(task.peek)}
      /\ task.peek \in Sheets /\ cfgv \in Versions
  BY TaskStays, TaskFields
<1>1. ASSUME \A i \in DOMAIN ring[g] : Untouched(ring[g][i])
      PROVE  \A i \in DOMAIN ring'[g] : Untouched(ring'[g][i])
  BY <1>1, WorldSheets, AgelessPlan
<1>2. StopsRenew(g)'
  BY <1>0, <1>1 DEF AllFitting, StopsRenew
<1>3. ASSUME Running' PROVE Fitting(g)'
  <2>1. Fitting(g) /\ seen' = seen
    BY <1>3, WorldSettled DEF AllFitting
  <2>2. EditsRenew(g)'
    BY <1>0, <1>1, <2>1 DEF Fitting, EditsRenew, SameGeometry
  <2>3. ASSUME Undisturbed(g)' PROVE Undisturbed(g) /\ Shape[cfgv'][g] = Shape[cfgv][g]
    BY <1>3, <2>3, WorldSettled
  <2>4. ASSUME Undisturbed(g)', NEW i \in DOMAIN ring'[g] PROVE InPattern(cfgv', g, ring'[g][i])
    <3>1. InPattern(cfgv, g, ring'[g][i])
      <4>1. CASE /\ i \in DOMAIN ring[g] /\ ring[g][i] \in Sheets
                 /\ ring'[g][i] \in {ring[g][i], Older(ring[g][i])}
        <5>1. InPattern(cfgv, g, ring[g][i])
          BY <2>1, <2>3, <2>4, <4>1 DEF Fitting, SheetsFit
        <5>2. QED
          BY <4>1, <5>1, AgelessPlan
      <4>2. CASE ring'[g][i] \in Sheets /\ Untouched(ring'[g][i])
        BY <1>0, <4>2, NewPlan
      <4>3. QED
        BY <2>4, <4>1, <4>2, WorldSheets
    <3>2. QED
      BY <2>3, <2>4, <3>1, SamePlan
  <2>5. ASSUME Undisturbed(g)', Asked(g)'
        PROVE  ~NothingLeft(cfgv', g, task'.peek) /\ task'.act = NextAction(cfgv', g, task'.peek)
    <3>1. Asked(g)
      BY <1>0, <2>5 DEF Asked
    <3>2. ~NothingLeft(cfgv, g, task.peek) /\ task.act = NextAction(cfgv, g, task.peek)
      BY <2>1, <2>3, <2>5, <3>1 DEF Fitting, AsksNext
    <3>3. ~NothingLeft(cfgv, g, task'.peek) /\ task.act = NextAction(cfgv, g, task'.peek)
      BY <1>0, <3>2, AgelessPlan
    <3>4. QED
      BY <1>0, <2>3, <2>5, <3>3, SamePlan
  <2>6. QED
    BY <2>2, <2>4, <2>5 DEF Fitting, SheetsFit, AsksNext
<1>4. QED
  BY <1>2, <1>3

\* Steps in which the task asks no gun for anything leave the queues right.
LEMMA RoundActiveFits ==
    ASSUME Types, Halted, AllFitting, RoundActive, Running', NEW g \in Guns
    PROVE  Fitting(g)'
<1>1. PICK verdict : task' = [task EXCEPT !.pc = IF edited THEN "edits" ELSE "head", !.now = enc,
                                          !.was = TRUE, !.v = cfgv, !.gate = verdict]
  BY DEF RoundActive
<1>2. task \in Tasks /\ g \in Nat /\ g >= 1 /\ cfgv \in Versions
  BY TaskFields DEF Guns
<1>3. task'.pc \in {"edits", "head"} /\ task'.g = 1 /\ task.pc = "wait"
  BY <1>1, <1>2 DEF Tasks, RoundActive, At, Halted
<1>4. UNCHANGED <<cfgv, seen, ring, active, stop>>
  BY DEF RoundActive
<1>5. EditsRenew(g)' /\ ~Asked(g)'
  <2>1. ~(g < task'.g)
    BY <1>2, <1>3
  <2>2. EditsRenew(g)'
    BY <2>1 DEF EditsRenew
  <2>3. ~Asked(g)'
    BY <1>3 DEF Asked
  <2>4. QED
    BY <2>2, <2>3
<1>6. ASSUME Undisturbed(g)', NEW i \in DOMAIN ring[g] PROVE InPattern(cfgv, g, ring[g][i])
  <2>1. CASE task.was
    <3>1. Running
      BY <1>4, <2>1 DEF Running
    <3>2. Fitting(g)
      BY <3>1 DEF AllFitting
    <3>3. Undisturbed(g)
      BY <1>3, <1>4, <1>6 DEF Undisturbed
    <3>4. QED
      BY <1>6, <3>2, <3>3 DEF Fitting, SheetsFit
  <2>2. CASE ~task.was
    <3>1. Untouched(ring[g][i])
      BY <1>3, <1>6, <2>2 DEF AllFitting, StopsRenew
    <3>2. ring[g][i] \in Sheets
      BY <1>6, Items DEF Types, RingTypes
    <3>3. QED
      BY <1>2, <3>1, <3>2, NewPlan
  <2>3. QED
    BY <2>1, <2>2
<1>7. QED
  BY <1>4, <1>5, <1>6 DEF Fitting, SheetsFit, AsksNext

\* The task has compared the pattern of one more gun.
LEMMA Compares ==
    ASSUME Types, CheckEdit
    PROVE  /\ task.pc = "edits" /\ (task'.was <=> task.was) /\ task'.v = task.v
           /\ UNCHANGED <<active, stop, cfgv>>
           /\ \/ task'.pc = "edits" /\ task'.g = task.g + 1 /\ seen' = seen
              \/ task'.pc = "head" /\ seen' = task.v /\ \A g \in Guns : g <= task.g
           /\ \A g \in Guns :
                 ring'[g] = IF g = task.g /\ ~SameGeometry(task.v, seen, g) THEN <<>> ELSE ring[g]
<1>0. /\ task \in Tasks /\ task.g \in Guns /\ task.pc = "edits" /\ task.g \in Nat /\ NumGuns \in Nat
      /\ task.g <= NumGuns /\ ring \in [Guns -> Seq(Sheets)]
  BY TaskFields, Constants DEF CheckEdit, At, Guns, Types, RingTypes
<1>1. \/ task'.pc = "edits" /\ task'.g = task.g + 1 /\ seen' = seen
      \/ task'.pc = "head" /\ seen' = task.v /\ \A g \in Guns : g <= task.g
  <2>1. CASE task.g < NumGuns
    BY <1>0, <2>1 DEF CheckEdit, EditsEnd, Tasks
  <2>2. CASE ~(task.g < NumGuns)
    <3>1. task.g = NumGuns
      BY <1>0, <2>2
    <3>2. seen' = task.v /\ task' = [task EXCEPT !.pc = "head", !.g = 1]
      BY <2>2 DEF CheckEdit, EditsEnd
    <3>3. task'.pc = "head"
      BY <1>0, <3>2 DEF Tasks
    <3>4. \A g \in Guns : g <= task.g
      BY <1>0, <3>1 DEF Guns
    <3>5. QED
      BY <3>2, <3>3, <3>4
  <2>3. QED
    BY <2>1, <2>2
<1>2. (task'.was <=> task.was) /\ task'.v = task.v
  BY <1>0 DEF CheckEdit, EditsEnd, Tasks
<1>3. UNCHANGED <<active, stop, cfgv>>
  BY DEF CheckEdit, cfgVars
<1>4. CASE SameGeometry(task.v, seen, task.g)
  <2>1. ring' = ring
    BY <1>4 DEF CheckEdit
  <2>2. QED
    BY <1>0, <1>1, <1>2, <1>3, <1>4, <2>1
<1>5. CASE ~SameGeometry(task.v, seen, task.g)
  <2>1. ring' = [ring EXCEPT ![task.g] = <<>>]
    BY <1>5 DEF CheckEdit, ResetGun
  <2>2. \A g \in Guns : ring'[g] = IF g = task.g THEN <<>> ELSE ring[g]
    BY <1>0, <2>1
  <2>3. QED
    BY <1>0, <1>1, <1>2, <1>3, <1>5, <2>2
<1>6. QED
  BY <1>4, <1>5

LEMMA CheckEditFits ==
    ASSUME Types, AllFitting, CheckEdit, Running', NEW g \in Guns
    PROVE  Fitting(g)'
<1>0. /\ task.g \in Nat /\ g \in Nat /\ cfgv \in Versions /\ DOMAIN <<>> = {}
      /\ \A i \in DOMAIN ring[g] : ring[g][i] \in Sheets
  BY TaskFields, Items DEF Types, RingTypes, Guns
<1>1. /\ task.pc = "edits" /\ Running /\ cfgv' = cfgv /\ task'.v = task.v
      /\ \/ task'.pc = "edits" /\ task'.g = task.g + 1 /\ seen' = seen
         \/ task'.pc = "head" /\ seen' = task.v /\ g <= task.g
      /\ ring'[g] = IF g = task.g /\ ~SameGeometry(task.v, seen, g) THEN <<>> ELSE ring[g]
  BY Compares DEF Running
<1>2. Fitting(g) /\ ~Asked(g)'
  BY <1>1 DEF AllFitting, Asked
<1>3. ASSUME \A i \in DOMAIN ring[g] : Untouched(ring[g][i])
      PROVE  \A i \in DOMAIN ring[g] : InPattern(cfgv, g, ring[g][i])
  BY <1>0, <1>3, NewPlan
<1>4. CASE task'.pc = "edits" /\ task'.g = task.g + 1 /\ seen' = seen
  <2>1. Undisturbed(g)' => Undisturbed(g)
    BY <1>1, <1>4 DEF Undisturbed
  <2>2. SheetsFit(g)'
    BY <1>0, <1>1, <1>2, <2>1 DEF Fitting, SheetsFit
  <2>3. g < task.g + 1 => g < task.g \/ g = task.g
    BY <1>0
  <2>4. EditsRenew(g)'
    BY <1>0, <1>1, <1>2, <1>4, <2>3 DEF Fitting, EditsRenew
  <2>5. QED
    BY <1>2, <2>2, <2>4 DEF Fitting, AsksNext
<1>5. CASE task'.pc = "head" /\ seen' = task.v /\ g <= task.g
  <2>1. g < task.g \/ g = task.g
    BY <1>0, <1>5
  <2>2. ASSUME Undisturbed(g)', ring'[g] = ring[g]
        PROVE  \A i \in DOMAIN ring[g] : InPattern(cfgv, g, ring[g][i])
    <3>1. Shape[cfgv][g] = Shape[task.v][g]
      BY <1>1, <1>5, <2>2 DEF Undisturbed, SameGeometry
    <3>2. CASE SameGeometry(task.v, seen, g)
      <4>1. Undisturbed(g)
        BY <3>1, <3>2 DEF Undisturbed, SameGeometry
      <4>2. QED
        BY <1>2, <4>1 DEF Fitting, SheetsFit
    <3>3. CASE ~SameGeometry(task.v, seen, g)
      <4>1. g < task.g \/ ring[g] = <<>>
        BY <1>1, <2>1, <2>2, <3>3
      <4>2. QED
        BY <1>0, <1>1, <1>2, <1>3, <3>3, <4>1 DEF Fitting, EditsRenew
    <3>4. QED
      BY <3>2, <3>3
  <2>3. SheetsFit(g)'
    <3>1. ring'[g] = ring[g] \/ ring'[g] = <<>>
      BY <1>1
    <3>2. QED
      BY <1>0, <1>1, <2>2, <3>1 DEF SheetsFit
  <2>4. EditsRenew(g)'
    BY <1>5 DEF EditsRenew
  <2>5. QED
    BY <1>2, <2>3, <2>4 DEF Fitting, AsksNext
<1>6. QED
  BY <1>1, <1>4, <1>5

\* What a step of a round makes of the queues and of the event asked for.
LEMMA RoundAsks ==
    ASSUME Types, Task, task.pc \notin {"wait", "reset"}, ~CheckEdit
    PROVE  \/ SheetDone \/ Advance
           \/ /\ ring' = ring /\ \A g \in Guns : Asked(g)' <=> Asked(g)
              /\ (\E g \in Guns : Asked(g)) => task'.peek = task.peek /\ task'.act = task.act
           \/ /\ ring' = ring /\ task.pc = "event" /\ task'.pc \in {"fire", "advance"}
              /\ task'.g = task.g /\ task'.peek = task.peek /\ task'.act \in {"dot", "open", "close"}
              /\ ~NothingLeft(cfgv, task.g, task.peek)
              /\ task'.act = NextAction(cfgv, task.g, task.peek)
<1>0. task \in Tasks /\ task.g \in Guns
  BY TaskFields
<1> DEFINE Goes == /\ ring' = ring /\ \A g \in Guns : Asked(g)' <=> Asked(g)
                   /\ (\E g \in Guns : Asked(g)) => task'.peek = task.peek /\ task'.act = task.act
           Asks == /\ ring' = ring /\ task.pc = "event" /\ task'.pc \in {"fire", "advance"}
                   /\ task'.g = task.g /\ task'.peek = task.peek
                   /\ task'.act \in {"dot", "open", "close"}
                   /\ ~NothingLeft(cfgv, task.g, task.peek)
                   /\ task'.act = NextAction(cfgv, task.g, task.peek)
           InHand == {"fire", "firing", "watch", "advance"}
<1>1. ASSUME ring' = ring, task.pc \notin InHand \/ task.act \in {"none", "resume"},
             task'.pc \notin InHand \/ task'.act \in {"none", "resume"}
      PROVE  Goes
  BY <1>1 DEF Asked
<1>2. ASSUME ring' = ring, task'.g = task.g, task'.peek = task.peek, task'.act = task.act,
             task.pc \in InHand, task'.pc \in InHand
      PROVE  Goes
  BY <1>2 DEF Asked
<1>3. task' = NextGun => task'.pc \notin InHand
  BY NextGunTyped
<1>4. ASSUME HeadSheet \/ HeadNone \/ NotDue \/ WatchDue \/ GateCloses PROVE Goes
  <2>1. task.pc \notin InHand /\ ring' = ring
    BY <1>4 DEF HeadSheet, HeadNone, NotDue, WatchDue, GateCloses, At
  <2>2. task'.pc \notin InHand
    <3>1. CASE HeadSheet \/ NotDue
      BY <1>0, <3>1 DEF HeadSheet, NotDue, Tasks
    <3>2. CASE HeadNone \/ WatchDue \/ GateCloses
      <4>1. task' = NextGun \/ task' = [task EXCEPT !.pc = "gate"]
        BY <3>2 DEF HeadNone, WatchDue, GateCloses
      <4>2. QED
        BY <1>0, <1>3, <4>1 DEF Tasks
    <3>3. QED
      BY <1>4, <3>1, <3>2
  <2>3. QED
    BY <1>1, <2>1, <2>2
<1>5. ASSUME GatePasses PROVE Goes
  <2>1. task.pc \notin InHand /\ ring' = ring
    BY <1>5 DEF GatePasses, At
  <2>2. task' = NextGun \/ task' = [task EXCEPT !.pc = "fire", !.act = "resume"]
    BY <1>5 DEF GatePasses
  <2>3. task'.pc \notin InHand \/ task'.act = "resume"
    BY <1>0, <1>3, <2>2 DEF Tasks
  <2>4. QED
    BY <1>1, <2>1, <2>3
<1>6. ASSUME FireBegin \/ FireOpens \/ FireRefused \/ WatchLineEnd PROVE Goes
  <2> DEFINE d == FreshDrop(task.g)
  <2>1. task.pc \in InHand /\ ring' = ring
    BY <1>6 DEF FireBegin, FireOpens, FireRefused, WatchLineEnd, At
  <2>2. \/ task.act = "resume" /\ task' = NextGun
        \/ task' = [task EXCEPT !.pc = "firing"] \/ task' = [task EXCEPT !.pc = "advance"]
        \/ task' = [task EXCEPT !.pc = "watch", !.drop = d]
        \/ task' = [task EXCEPT !.pc = "advance", !.drop = 0]
    BY <1>6 DEF FireBegin, FireOpens, FireRefused, WatchLineEnd, NotOpened
  <2> HIDE DEF d
  <2>3. CASE task.act = "resume" /\ task' = NextGun
    BY <1>1, <1>3, <2>1, <2>3
  <2>4. CASE ~(task.act = "resume" /\ task' = NextGun)
    <3>1. task'.g = task.g /\ task'.peek = task.peek /\ task'.act = task.act /\ task'.pc \in InHand
      BY <1>0, <2>2, <2>4 DEF Tasks
    <3>2. QED
      BY <1>2, <2>1, <3>1
  <2>5. QED
    BY <2>3, <2>4
<1>7. ASSUME NEW a \in {"dot", "open", "close"}, EventDue(a), ring' = ring,
             \/ task' = [task EXCEPT !.pc = "fire", !.act = a]
             \/ task' = [task EXCEPT !.pc = "advance", !.act = a]
      PROVE  Asks
  <2>1. /\ task.pc = "event" /\ ~NothingLeft(cfgv, task.g, task.peek)
        /\ NextAction(cfgv, task.g, task.peek) = a
    BY <1>7 DEF EventDue, At
  <2>2. /\ task'.pc \in {"fire", "advance"} /\ task'.act = a
        /\ task'.g = task.g /\ task'.peek = task.peek
    BY <1>0, <1>7 DEF Tasks
  <2>3. QED
    BY <1>7, <2>1, <2>2
<1>8. ASSUME DropDue("dot") PROVE Asks
  BY <1>7, <1>8 DEF DropDue
<1>9. ASSUME DropDue("open") PROVE Asks
  BY <1>7, <1>9 DEF DropDue
<1>10. ASSUME LineTooSlow PROVE Asks
  BY <1>7, <1>10 DEF LineTooSlow
<1>11. ASSUME LineEndDue PROVE Asks
  BY <1>7, <1>11 DEF LineEndDue
<1>12. ~RoundIdle /\ ~RoundStopped /\ ~RoundActive /\ ~StopReset
  BY DEF RoundIdle, RoundStopped, RoundActive, StopReset, At
<1> HIDE DEF Goes, Asks
<1>13. SheetDone \/ Advance \/ Goes \/ Asks
  BY <1>4, <1>5, <1>6, <1>8, <1>9, <1>10, <1>11, <1>12 DEF Task
<1>14. QED
  BY <1>13 DEF Goes, Asks

\* The task's copy of the head.
LEMMA PeekIsHead ==
    ASSUME Types, NEW g \in Guns, g = task.g, Gated(g),
           task.pc \in {"event", "fire", "firing", "watch", "advance"}
    PROVE  /\ ring[g] # <<>> /\ Head(ring[g]) = task.peek /\ 1 \in DOMAIN ring[g]
           /\ ring[g][1] = task.peek
<1>1. ring[g] \in Seq(Sheets)
  BY DEF Types, RingTypes
<1>2. ring[g] # <<>> /\ Head(ring[g]) = task.peek
  BY DEF Gated, Busy, Mirrored
<1>3. 1 \in DOMAIN ring[g] /\ Head(ring[g]) = ring[g][1]
  BY <1>1, <1>2
<1>4. QED
  BY <1>2, <1>3

\* A finished sheet leaves the queue.
LEMMA SheetLeaves ==
    ASSUME Types, NEW g \in Guns, g = task.g, Gated(g), SheetDone
    PROVE  /\ ring'[g] = Tail(ring[g]) /\ ring[g] # <<>> /\ Head(ring[g]) = task.peek
           /\ NothingLeft(cfgv, g, task.peek)
           /\ task'.pc \in {"event", "due"} /\ task.pc = "event" /\ cfgv' = cfgv
<1>1. /\ task.pc = "event" /\ NothingLeft(cfgv, g, task.peek) /\ task \in Tasks
      /\ ring' = [ring EXCEPT ![g] = Popped(g)] /\ ring \in [Guns -> Seq(Sheets)]
  BY TaskFields DEF SheetDone, At, Types, RingTypes
<1>2. ring[g] # <<>> /\ Head(ring[g]) = task.peek
  BY <1>1, PeekIsHead
<1>3. ring'[g] = Tail(ring[g])
  BY <1>1, <1>2 DEF Popped
<1> DEFINE h == Head(Popped(g))
<1>4. task' = [task EXCEPT !.pc = "due", !.peek = NoSheet] \/ task' = [task EXCEPT !.peek = h]
  BY DEF SheetDone
<1> HIDE DEF h
<1>5. task'.pc \in {"event", "due"}
  BY <1>1, <1>4 DEF Tasks
<1>6. cfgv' = cfgv
  BY DEF SheetDone, cfgVars
<1>7. QED
  BY <1>1, <1>2, <1>3, <1>5, <1>6

\* The sheet that the task has advanced goes back to the head.
LEMMA SheetAdvances ==
    ASSUME Types, NEW g \in Guns, g = task.g, Gated(g), Advance
    PROVE  /\ ring'[g] = [ring[g] EXCEPT ![1] = Advanced(cfgv, g, task.peek)]
           /\ ring[g] # <<>> /\ Head(ring[g]) = task.peek /\ 1 \in DOMAIN ring[g] /\ ring[g][1] = task.peek
           /\ task.peek \in Sheets /\ task.peek.elem # 0
           /\ Asked(g) /\ task'.pc = "event" /\ task.pc = "advance" /\ cfgv' = cfgv
<1>1. /\ task.pc = "advance" /\ task \in Tasks /\ task.peek \in Sheets /\ task.peek.elem # 0
      /\ ring' = WriteBack(g, Advanced(cfgv, g, task.peek)) /\ ring \in [Guns -> Seq(Sheets)]
  BY TaskFields DEF Advance, At, Types, RingTypes, HasPeek
<1>2. ring[g] # <<>> /\ Head(ring[g]) = task.peek /\ 1 \in DOMAIN ring[g] /\ ring[g][1] = task.peek
  BY <1>1, PeekIsHead
<1>3. ring'[g] = [ring[g] EXCEPT ![1] = Advanced(cfgv, g, task.peek)]
  BY <1>1, <1>2 DEF WriteBack
<1>4. task.act \in {"dot", "open", "close"}
  BY <1>1 DEF Gated, Busy, ActsRight
<1>5. Asked(g)
  BY <1>1, <1>4 DEF Asked
<1> DEFINE s == Advanced(cfgv, g, task.peek)
<1>6. task' = [task EXCEPT !.pc = "event", !.peek = s, !.act = "none"]
  BY DEF Advance
<1> HIDE DEF s
<1>7. task'.pc = "event"
  BY <1>1, <1>6 DEF Tasks
<1>8. cfgv' = cfgv
  BY DEF Advance, cfgVars
<1>9. QED
  BY <1>1, <1>2, <1>3, <1>5, <1>7, <1>8

\* A round asks for events and works sheets off; the queues stay right.
LEMMA RoundFits ==
    ASSUME Types, AllGated, AllFitting, Task, task.pc \notin {"wait", "reset"}, ~CheckEdit, Running',
           NEW g \in Guns
    PROVE  Fitting(g)'
<1>1. /\ Running /\ UNCHANGED <<cfgv, seen>> /\ task.pc # "edits" /\ task'.pc # "edits"
      /\ task' = NextGun \/ task'.g = task.g
  BY UnderWay DEF Running, RoundPCs
<1>2. Fitting(g) /\ Gated(g) /\ EditsRenew(g)'
  BY <1>1 DEF AllFitting, AllGated, EditsRenew
<1>3. Undisturbed(g)' => Undisturbed(g)
  BY <1>1 DEF Undisturbed
<1>4. /\ cfgv \in Versions /\ task.g \in Guns /\ ring[g] \in Seq(Sheets)
      /\ \A i \in DOMAIN ring[g] : ring[g][i].elem # 0
  BY TaskFields DEF Types, RingTypes
<1>5. ring'[g] = ring[g] => SheetsFit(g)'
  BY <1>1, <1>2, <1>3 DEF Fitting, SheetsFit
<1>6. CASE g # task.g
  <2>1. ring'[g] = ring[g]
    BY <1>6, OtherGuns
  <2>2. ~Asked(g)'
    BY <1>1, <1>6, NextGunTyped DEF Asked
  <2>3. QED
    BY <1>2, <1>5, <2>1, <2>2 DEF Fitting, AsksNext
<1>7. CASE g = task.g
  <2>1. CASE SheetDone
    <3>1. ring'[g] = Tail(ring[g]) /\ ring[g] # <<>> /\ ~Asked(g)'
      BY <1>2, <1>7, <2>1, SheetLeaves DEF Asked
    <3>2. \A i \in DOMAIN Tail(ring[g]) : Tail(ring[g])[i] = ring[g][i + 1] /\ i + 1 \in DOMAIN ring[g]
      BY <1>4, <3>1, HeadTyped
    <3>3. SheetsFit(g)'
      BY <1>1, <1>2, <1>3, <3>1, <3>2 DEF Fitting, SheetsFit
    <3>4. QED
      BY <1>2, <3>1, <3>3 DEF Fitting, AsksNext
  <2>2. CASE Advance
    <3> DEFINE s == Advanced(cfgv, g, task.peek)
    <3>1. /\ ring'[g] = [ring[g] EXCEPT ![1] = s] /\ 1 \in DOMAIN ring[g] /\ ring[g][1] = task.peek
          /\ task.peek \in Sheets /\ task.peek.elem # 0 /\ Asked(g) /\ ~Asked(g)'
      BY <1>2, <1>7, <2>2, SheetAdvances DEF Asked
    <3>2. ASSUME Undisturbed(g)' PROVE InPattern(cfgv, g, s)
      <4>1. /\ ~NothingLeft(cfgv, g, task.peek) /\ task.act = NextAction(cfgv, g, task.peek)
            /\ InPattern(cfgv, g, task.peek)
        BY <1>2, <1>3, <3>1, <3>2 DEF Fitting, AsksNext, SheetsFit
      <4>2. QED
        BY <1>4, <3>1, <4>1, AdvancedPlan
    <3> HIDE DEF s
    <3>3. DOMAIN ring'[g] = DOMAIN ring[g]
          /\ \A i \in DOMAIN ring[g] : ring'[g][i] = IF i = 1 THEN s ELSE ring[g][i]
      BY <3>1
    <3>4. SheetsFit(g)'
      BY <1>1, <1>2, <1>3, <3>2, <3>3 DEF Fitting, SheetsFit
    <3>5. QED
      BY <1>2, <3>1, <3>4 DEF Fitting, AsksNext
  <2>3. CASE /\ ring' = ring /\ \A h \in Guns : Asked(h)' <=> Asked(h)
             /\ (\E h \in Guns : Asked(h)) => task'.peek = task.peek /\ task'.act = task.act
    <3>1. AsksNext(g)'
      BY <1>1, <1>2, <1>3, <2>3 DEF Fitting, AsksNext
    <3>2. QED
      BY <1>2, <1>5, <2>3, <3>1 DEF Fitting
  <2>4. CASE /\ ring' = ring /\ task'.peek = task.peek /\ ~NothingLeft(cfgv, g, task.peek)
             /\ task'.act = NextAction(cfgv, g, task.peek)
    <3>1. AsksNext(g)'
      BY <1>1, <2>4 DEF AsksNext
    <3>2. QED
      BY <1>2, <1>5, <2>4, <3>1 DEF Fitting
  <2>5. QED
    BY <1>7, <2>1, <2>2, <2>3, <2>4, RoundAsks
<1>8. QED
  BY <1>6, <1>7

\* A stop leaves no sheet at a gun it has dealt with.
LEMMA ResetRenews ==
    ASSUME Types, Halted, AllFitting, RoundStopped \/ RoundIdle \/ StopReset, NEW g \in Guns
    PROVE  StopsRenew(g)'
<1>0. /\ task \in Tasks /\ task.g \in Guns /\ task.g \in Nat /\ g \in Nat /\ g >= 1 /\ g <= NumGuns
      /\ NumGuns \in Nat /\ ring \in [Guns -> Seq(Sheets)] /\ DOMAIN <<>> = {}
  BY TaskFields, Constants DEF Types, RingTypes, Guns
<1>1. CASE RoundStopped
  <2>1. task' = [task EXCEPT !.pc = "reset", !.now = enc, !.was = FALSE] /\ task.pc = "wait"
    BY <1>1 DEF RoundStopped, At
  <2>2. task'.pc = "reset" /\ task'.g = 1
    BY <1>0, <2>1 DEF Tasks, Halted
  <2>3. QED
    BY <1>0, <2>2 DEF StopsRenew
<1>2. CASE RoundIdle
  <2>1. task' = [task EXCEPT !.now = enc] /\ ring' = ring
    BY <1>2 DEF RoundIdle
  <2>2. task'.pc = task.pc /\ task'.g = task.g /\ (task'.was <=> task.was)
    BY <1>0, <2>1 DEF Tasks
  <2>3. QED
    BY <2>1, <2>2 DEF AllFitting, StopsRenew
<1>3. CASE StopReset
  <2>1. ring' = [ring EXCEPT ![task.g] = <<>>] /\ task.pc = "reset" /\ ~task.was
    BY <1>3 DEF StopReset, ResetGun, At, Halted
  <2>2. ring'[g] = IF g = task.g THEN <<>> ELSE ring[g]
    BY <1>0, <2>1
  <2>3. (task' = Waiting /\ task.g = NumGuns) \/ task' = [task EXCEPT !.g = task.g + 1]
    BY <1>3 DEF StopReset
  <2>4. (task'.pc = "wait" \/ g < task'.g) => g < task.g \/ g = task.g
    BY <1>0, <2>1, <2>3 DEF Tasks
  <2>5. g < task.g => \A i \in DOMAIN ring[g] : Untouched(ring[g][i])
    BY <2>1 DEF AllFitting, StopsRenew
  <2>6. QED
    BY <1>0, <2>2, <2>4, <2>5 DEF StopsRenew
<1>4. QED
  BY <1>1, <1>2, <1>3

LEMMA AllFittingStep ==
    ~Bursts /\ Types /\ Halted /\ ConfigSeen /\ AllGated /\ AllFitting /\ [Next]_vars => AllFitting'
<1> SUFFICES ASSUME ~Bursts, Types, Halted, ConfigSeen, AllGated, AllFitting, [Next]_vars
             PROVE  AllFitting'
  OBVIOUS
<1>1. CASE UNCHANGED vars
  BY <1>1 DEF vars, cfgVars, AllFitting, Running, Fitting, SheetsFit, AsksNext, EditsRenew, StopsRenew,
              Undisturbed, Asked
<1>2. CASE Next /\ ~Task
  BY <1>2, WorldFits
<1>3. CASE Task /\ task.pc \in {"wait", "reset"} /\ ~RoundActive
  <2>1. RoundStopped \/ RoundIdle \/ StopReset
    BY <1>3, TaskGoes
  <2>2. ~task'.was
    <3>0. task \in Tasks
      BY TaskFields
    <3>1. CASE RoundStopped /\ task' = [task EXCEPT !.pc = "reset", !.now = enc, !.was = FALSE]
      BY <3>0, <3>1 DEF Tasks
    <3>2. CASE RoundIdle /\ task' = [task EXCEPT !.now = enc]
      BY <3>0, <3>2 DEF Tasks, RoundIdle
    <3>3. CASE StopReset /\ (task' = Waiting \/ task' = [task EXCEPT !.g = task.g + 1])
      <4>1. ~task.was
        BY <3>3 DEF StopReset, At, Halted
      <4>2. QED
        BY <3>0, <3>3, <4>1, NextGunTyped DEF Tasks
    <3>4. QED
      BY <1>3, <3>1, <3>2, <3>3, TaskGoes
  <2>3. QED
    BY <2>1, <2>2, ResetRenews DEF AllFitting, Running
<1>4. CASE Task /\ (RoundActive \/ task.pc \notin {"wait", "reset"})
  <2>1. task'.was
    BY <1>4, TaskGoes DEF Halted, RoundActive, Stopped, RoundStopped, RoundIdle, StopReset, At
  <2>2. \A g \in Guns : StopsRenew(g)'
    BY <2>1 DEF StopsRenew
  <2>3. ASSUME Running', NEW g \in Guns PROVE Fitting(g)'
    <3>1. CASE RoundActive
      BY <2>3, <3>1, RoundActiveFits
    <3>2. CASE CheckEdit
      BY <2>3, <3>2, CheckEditFits
    <3>3. CASE ~RoundActive /\ ~CheckEdit
      BY <1>4, <2>3, <3>3, RoundFits
    <3>4. QED
      BY <3>1, <3>2, <3>3
  <2>4. QED
    BY <2>2, <2>3 DEF AllFitting
<1>5. QED
  BY <1>1, <1>2, <1>3, <1>4

----------------------------------------------------------------------------
(* The steps that SheetPlan sees.                                          *)

LEMMA SameSeq ==
    ASSUME NEW S, NEW s \in Seq(S), NEW t \in Seq(S), Len(s) = Len(t), \A i \in 1 .. Len(s) : s[i] = t[i]
    PROVE  s = t
OBVIOUS

LEMMA SeqOf ==
    ASSUME NEW n \in Nat, NEW S, NEW f, f = [i \in 1 .. n |-> f[i]], \A i \in 1 .. n : f[i] \in S
    PROVE  f \in Seq(S) /\ Len(f) = n
<1>1. f \in [1 .. n -> S]
  OBVIOUS
<1>2. QED
  BY <1>1

\* What sheet i of gun g has to come.
Coming(g, i) ==
    IF i = 1 /\ Asked(g) THEN Remaining(cfgv, g, ring[g][i]) \ {AskedFor(g)}
    ELSE Remaining(cfgv, g, ring[g][i])

LEMMA PlanTyped ==
    ASSUME Types, NEW g \in Guns
    PROVE  /\ PlanOf(g) \in Seq(SUBSET AllEvents(cfgv, g)) /\ Len(PlanOf(g)) = Len(ring[g])
           /\ Len(ring[g]) \in Nat /\ DOMAIN PlanOf(g) = 1 .. Len(ring[g])
           /\ \A i \in 1 .. Len(ring[g]) : PlanOf(g)[i] = Coming(g, i)
<1> DEFINE f == PlanOf(g)
<1>1. Len(ring[g]) \in Nat /\ DOMAIN ring[g] = 1 .. Len(ring[g])
  BY Items DEF Types, RingTypes
<1>2. f = [i \in 1 .. Len(ring[g]) |-> Coming(g, i)]
  BY <1>1 DEF PlanOf, Coming
<1>3. \A i : Coming(g, i) \in SUBSET AllEvents(cfgv, g)
  BY DEF Coming, Remaining
<1> HIDE DEF f
<1>4. f \in Seq(SUBSET AllEvents(cfgv, g)) /\ Len(f) = Len(ring[g])
  <2>1. f = [i \in 1 .. Len(ring[g]) |-> f[i]] /\ \A i \in 1 .. Len(ring[g]) : f[i] \in SUBSET AllEvents(cfgv, g)
    BY <1>2, <1>3
  <2>2. QED
    BY <1>1, <2>1, SeqOf
<1>5. QED
  BY <1>1, <1>2, <1>4 DEF f

LEMMA PlanTypedNext ==
    ASSUME Types', NEW g \in Guns
    PROVE  /\ PlanOf(g)' \in Seq(SUBSET AllEvents(cfgv', g)) /\ Len(PlanOf(g)') = Len(ring'[g])
           /\ \A i \in 1 .. Len(ring'[g]) : PlanOf(g)'[i] = Coming(g, i)'
<1> DEFINE f == PlanOf(g)'
<1>1. Len(ring'[g]) \in Nat /\ DOMAIN ring'[g] = 1 .. Len(ring'[g])
  BY Items DEF Types, RingTypes
<1>2. f = [i \in 1 .. Len(ring'[g]) |-> Coming(g, i)']
  BY <1>1 DEF PlanOf, Coming
<1>3. \A i : Coming(g, i)' \in SUBSET AllEvents(cfgv', g)
  BY DEF Coming, Remaining
<1> HIDE DEF f
<1>4. f \in Seq(SUBSET AllEvents(cfgv', g)) /\ Len(f) = Len(ring'[g])
  <2>1. /\ f = [i \in 1 .. Len(ring'[g]) |-> f[i]]
        /\ \A i \in 1 .. Len(ring'[g]) : f[i] \in SUBSET AllEvents(cfgv', g)
    BY <1>2, <1>3
  <2>2. QED
    BY <1>1, <2>1, SeqOf
<1>5. QED
  BY <1>2, <1>4 DEF f

\* A gun whose queue keeps its sheets where they are has the plan it had.
LEMMA PlanStays ==
    ASSUME Types, Types', NEW g \in Guns, Shape[cfgv'][g] = Shape[cfgv][g],
           Asked(g)' <=> Asked(g), AskedFor(g)' = AskedFor(g), DOMAIN ring'[g] = DOMAIN ring[g],
           \A i \in DOMAIN ring[g] : Remaining(cfgv, g, ring'[g][i]) = Remaining(cfgv, g, ring[g][i])
    PROVE  PlanOf(g)' = PlanOf(g) /\ AllEvents(cfgv', g) = AllEvents(cfgv, g)
<1>1. \A s : Remaining(cfgv', g, s) = Remaining(cfgv, g, s)
  BY SamePlan
<1>2. AllEvents(cfgv', g) = AllEvents(cfgv, g)
  BY SamePlan
<1>3. PlanOf(g)' = PlanOf(g)
  BY <1>1 DEF PlanOf
<1>4. QED
  BY <1>2, <1>3

\* The photocell, and every step that the plan does not see.
LEMMA SeenAsAccept ==
    ASSUME Calm, Calm', \A g \in Guns : AllEvents(cfgv', g) = AllEvents(cfgv, g),
           \A g \in Guns : AskedFor(g)' = AskedFor(g), NEW takes \in SUBSET Guns,
           \A g \in Guns : PlanOf(g)' = IF g \in takes THEN Append(PlanOf(g), AllEvents(cfgv, g))
                                        ELSE PlanOf(g)
    PROVE  Plan!InCalm
<1>1. [g \in Guns |-> AllEvents(cfgv', g)] = [g \in Guns |-> AllEvents(cfgv, g)]
  OBVIOUS
<1>2. [g \in Guns |-> AskedFor(g)'] = [g \in Guns |-> AskedFor(g)]
  OBVIOUS
<1>3. [g \in Guns |-> PlanOf(g)'] =
         [g \in Guns |-> IF g \in takes THEN Append([h \in Guns |-> PlanOf(h)][g],
                                                     [h \in Guns |-> AllEvents(cfgv, h)][g])
                         ELSE [h \in Guns |-> PlanOf(h)][g]]
  OBVIOUS
<1>4. Plan!Accept
  BY <1>2, <1>3 DEF Plan!Accept
<1>5. QED
  BY <1>1, <1>4 DEF Plan!InCalm

LEMMA SeenAsPerform ==
    ASSUME Calm, Calm', \A h \in Guns : AllEvents(cfgv', h) = AllEvents(cfgv, h), NEW g \in Guns,
           AskedFor(g) = <<>>, PlanOf(g) # <<>>, NEW e \in Head(PlanOf(g)),
           \A f \in Head(PlanOf(g)) \ {e} : Plan!Earlier(e, f),
           \A h \in Guns : AskedFor(h)' = IF h = g THEN e ELSE AskedFor(h),
           \A h \in Guns : PlanOf(h)' = IF h = g THEN <<Head(PlanOf(g)) \ {e}>> \o Tail(PlanOf(g))
                                        ELSE PlanOf(h)
    PROVE  Plan!InCalm
<1> DEFINE asked == [h \in Guns |-> AskedFor(h)]
           plan == [h \in Guns |-> PlanOf(h)]
<1>1. [h \in Guns |-> AllEvents(cfgv', h)] = [h \in Guns |-> AllEvents(cfgv, h)]
  OBVIOUS
<1>2. asked[g] = <<>> /\ plan[g] # <<>> /\ Head(plan[g]) = Head(PlanOf(g))
  OBVIOUS
<1>3. [h \in Guns |-> AskedFor(h)'] = [asked EXCEPT ![g] = e]
  OBVIOUS
<1>4. [h \in Guns |-> PlanOf(h)'] = [plan EXCEPT ![g] = <<Head(plan[g]) \ {e}>> \o Tail(plan[g])]
  OBVIOUS
<1>5. Plan!Perform(g)
  BY <1>2, <1>3, <1>4 DEF Plan!Perform
<1>6. QED
  BY <1>1, <1>5 DEF Plan!InCalm

LEMMA SeenAsPerformed ==
    ASSUME Calm, Calm', \A h \in Guns : AllEvents(cfgv', h) = AllEvents(cfgv, h), NEW g \in Guns,
           \A h \in Guns : AskedFor(h)' = IF h = g THEN <<>> ELSE AskedFor(h),
           \A h \in Guns : PlanOf(h)' = PlanOf(h)
    PROVE  Plan!InCalm
<1> DEFINE asked == [h \in Guns |-> AskedFor(h)]
<1>1. [h \in Guns |-> AllEvents(cfgv', h)] = [h \in Guns |-> AllEvents(cfgv, h)]
  OBVIOUS
<1>2. [h \in Guns |-> AskedFor(h)'] = [asked EXCEPT ![g] = <<>>]
  OBVIOUS
<1>3. [h \in Guns |-> PlanOf(h)'] = [h \in Guns |-> PlanOf(h)]
  OBVIOUS
<1>4. Plan!Performed(g)
  BY <1>2, <1>3 DEF Plan!Performed
<1>5. QED
  BY <1>1, <1>4 DEF Plan!InCalm

LEMMA SeenAsLeave ==
    ASSUME Calm, Calm', \A h \in Guns : AllEvents(cfgv', h) = AllEvents(cfgv, h), NEW g \in Guns,
           AskedFor(g) = <<>>, PlanOf(g) # <<>>, Head(PlanOf(g)) = {},
           \A h \in Guns : AskedFor(h)' = AskedFor(h),
           \A h \in Guns : PlanOf(h)' = IF h = g THEN Tail(PlanOf(g)) ELSE PlanOf(h)
    PROVE  Plan!InCalm
<1> DEFINE plan == [h \in Guns |-> PlanOf(h)]
<1>1. [h \in Guns |-> AllEvents(cfgv', h)] = [h \in Guns |-> AllEvents(cfgv, h)]
  OBVIOUS
<1>2. [h \in Guns |-> AskedFor(h)][g] = <<>> /\ plan[g] # <<>> /\ Head(plan[g]) = {}
  OBVIOUS
<1>3. [h \in Guns |-> AskedFor(h)'] = [h \in Guns |-> AskedFor(h)]
  OBVIOUS
<1>4. [h \in Guns |-> PlanOf(h)'] = [plan EXCEPT ![g] = Tail(plan[g])]
  OBVIOUS
<1>5. Plan!Leave(g)
  BY <1>2, <1>3, <1>4 DEF Plan!Leave
<1>6. QED
  BY <1>1, <1>5 DEF Plan!InCalm

LEMMA CalmRuns == Calm => Running /\ \A g \in Guns : Undisturbed(g)
BY DEF Calm, Running

\* While the task does nothing the plan of a gun gains a sheet at most.
LEMMA WorldPlan ==
    ASSUME ~Bursts, Types, Types', ConfigSeen, AllGated, Next, ~Task, Calm, Calm'
    PROVE  Plan!InCalm
<1>0. /\ task'.pc = task.pc /\ task'.g = task.g /\ task'.act = task.act
      /\ task'.peek \in {task.peek, Older(task.peek)} /\ task.peek \in Sheets /\ cfgv \in Versions
      /\ cfgv' \in Versions
  BY TaskStays, TaskFields DEF Types, EnvTypes
<1>1. ~StopFlush /\ \A g \in Guns : Shape[cfgv'][g] = Shape[cfgv][g]
  <2>1. Running' /\ \A g \in Guns : Undisturbed(g)'
    BY DEF Calm, Running
  <2>2. QED
    BY <2>1, WorldSettled
<1>2. ASSUME NEW g \in Guns PROVE (Asked(g)' <=> Asked(g)) /\ AskedFor(g)' = AskedFor(g)
  <2>1. Asked(g)' <=> Asked(g)
    BY <1>0 DEF Asked
  <2>2. task'.peek.elem = task.peek.elem /\ task'.peek.dot = task.peek.dot
    BY <1>0, AgelessPlan
  <2>3. QED
    BY <1>0, <2>1, <2>2 DEF AskedFor
<1> DEFINE takes == {g \in Guns : DOMAIN ring'[g] # DOMAIN ring[g]}
<1>3. ASSUME NEW g \in Guns
      PROVE  /\ AllEvents(cfgv', g) = AllEvents(cfgv, g)
             /\ PlanOf(g)' = IF g \in takes THEN Append(PlanOf(g), AllEvents(cfgv, g)) ELSE PlanOf(g)
  <2>0. /\ ring[g] \in Seq(Sheets) /\ Len(ring[g]) \in Nat /\ DOMAIN ring[g] = 1 .. Len(ring[g])
        /\ \A j \in 1 .. Len(ring[g]) : ring[g][j] \in Sheets
    BY Items DEF Types, RingTypes
  <2>1. CASE ring'[g] = ring[g]
    BY <1>1, <1>2, <2>1, PlanStays
  <2>2. CASE ring'[g] = [i \in DOMAIN ring[g] |-> Older(ring[g][i])]
    <3>1. /\ DOMAIN ring'[g] = DOMAIN ring[g]
          /\ \A i \in DOMAIN ring[g] : Remaining(cfgv, g, ring'[g][i]) = Remaining(cfgv, g, ring[g][i])
      BY <2>0, <2>2, AgelessPlan
    <3>2. QED
      BY <1>1, <1>2, <3>1, PlanStays
  <2>3. CASE ring'[g] = Append(ring[g], NewSheet(enc))
    <3> DEFINE n == NewSheet(enc)
               m == Len(ring[g])
               A == AllEvents(cfgv, g)
    <3>1. n \in Sheets /\ Untouched(n)
      BY Records, TaskFields DEF NewSheet, Untouched
    <3> HIDE DEF n
    <3>2. /\ ring'[g] = Append(ring[g], n) /\ Len(ring'[g]) = m + 1 /\ ring'[g][m + 1] = n
          /\ \A i \in 1 .. m : ring'[g][i] = ring[g][i]
      BY <2>0, <2>3, <3>1 DEF n
    <3>3. AllEvents(cfgv', g) = A /\ \A s : Remaining(cfgv', g, s) = Remaining(cfgv, g, s)
      BY <1>1, SamePlan
    <3>4. Asked(g) => m >= 1
      <4>1. ASSUME Asked(g) PROVE ring[g] # <<>>
        <5>1. g = task.g /\ task.pc \in {"fire", "firing", "watch", "advance"} /\ Gated(g)
          BY <4>1, CalmRuns DEF Asked, AllGated
        <5>2. QED
          BY <5>1, PeekIsHead
      <4>2. QED
        BY <2>0, <4>1
    <3>5. ASSUME NEW i \in 1 .. m + 1
          PROVE  Coming(g, i)' = IF i <= m THEN Coming(g, i) ELSE A
      <4>1. CASE i <= m
        <5>1. ring'[g][i] = ring[g][i]
          BY <2>0, <3>2, <3>5, <4>1
        <5>2. QED
          BY <1>2, <3>3, <4>1, <5>1 DEF Coming
      <4>2. CASE ~(i <= m)
        <5>1. i = m + 1 /\ (i = 1 => ~Asked(g))
          BY <2>0, <3>4, <3>5, <4>2
        <5>2. Coming(g, i)' = Remaining(cfgv', g, n)
          BY <1>2, <3>2, <5>1 DEF Coming
        <5>3. Remaining(cfgv, g, n) = A
          BY <1>0, <3>1, NewPlan
        <5>4. QED
          BY <3>3, <4>2, <5>2, <5>3
      <4>3. QED
        BY <4>1, <4>2
    <3> DEFINE p == PlanOf(g)
               q == PlanOf(g)'
               S == SUBSET A
    <3>6. /\ p \in Seq(S) /\ Len(p) = m /\ \A i \in 1 .. m : p[i] = Coming(g, i)
          /\ q \in Seq(S) /\ Len(q) = m + 1 /\ \A i \in 1 .. m + 1 : q[i] = Coming(g, i)'
          /\ A \in S
      BY <3>2, <3>3, PlanTyped, PlanTypedNext
    <3>7. g \in takes
      BY <2>0, <3>2
    <3> HIDE DEF p, q, A, m, S, takes
    <3>8. m \in Nat
      BY <2>0 DEF m
    <3>9. /\ Append(p, A) \in Seq(S) /\ Len(Append(p, A)) = m + 1
          /\ \A i \in 1 .. m + 1 : Append(p, A)[i] = IF i <= m THEN p[i] ELSE A
      BY <3>6, <3>8
    <3>10. \A i \in 1 .. m + 1 : q[i] = Append(p, A)[i]
      BY <3>5, <3>6, <3>8, <3>9
    <3>11. q = Append(p, A)
      BY <3>6, <3>8, <3>9, <3>10, SameSeq
    <3>12. QED
      BY <3>3, <3>7, <3>11 DEF p, q, A
  <2>4. QED
    BY <1>1, <2>1, <2>2, <2>3, WorldRing
<1>4. QED
  BY <1>2, <1>3, SeenAsAccept

\* The head of a queue, its plan, and the event it is asked for.
LEMMA HeadPlan ==
    ASSUME Types, AllGated, AllFitting, Calm, NEW g \in Guns, g = task.g,
           task.pc \in {"event", "fire", "firing", "watch", "advance"}
    PROVE  /\ ring[g] # <<>> /\ Len(ring[g]) >= 1 /\ ring[g][1] = task.peek
           /\ task.peek \in Sheets /\ task.peek.elem # 0 /\ InPattern(cfgv, g, task.peek)
           /\ PlanOf(g) # <<>> /\ Head(PlanOf(g)) = Coming(g, 1)
           /\ Tail(PlanOf(g)) \in Seq(SUBSET AllEvents(cfgv, g))
           /\ Len(Tail(PlanOf(g))) = Len(ring[g]) - 1
           /\ \A i \in 1 .. Len(ring[g]) - 1 : Tail(PlanOf(g))[i] = Coming(g, i + 1)
<1>1. Gated(g) /\ Fitting(g) /\ Undisturbed(g)
  BY CalmRuns DEF AllGated, AllFitting
<1>2. ring[g] # <<>> /\ 1 \in DOMAIN ring[g] /\ ring[g][1] = task.peek
  BY <1>1, PeekIsHead
<1>3. InPattern(cfgv, g, task.peek)
  BY <1>1, <1>2 DEF Fitting, SheetsFit
<1>4. task.peek \in Sheets /\ task.peek.elem # 0
  BY TaskFields DEF HasPeek
<1> DEFINE p == PlanOf(g)
           S == SUBSET AllEvents(cfgv, g)
           m == Len(ring[g])
<1>5. p \in Seq(S) /\ Len(p) = m /\ m \in Nat /\ \A i \in 1 .. m : p[i] = Coming(g, i)
  BY PlanTyped
<1>6. m >= 1
  BY <1>2, Items DEF Types, RingTypes
<1> HIDE DEF p, S, m
<1>7. /\ p # <<>> /\ Head(p) = Coming(g, 1) /\ Tail(p) \in Seq(S) /\ Len(Tail(p)) = m - 1
      /\ \A i \in 1 .. m - 1 : Tail(p)[i] = Coming(g, i + 1)
  BY <1>5, <1>6
<1>8. QED
  BY <1>2, <1>3, <1>4, <1>6, <1>7 DEF p, S, m

\* The task turns to the next event of the head.
LEMMA AskPlan ==
    ASSUME Types, Types', AllGated, AllFitting, Calm, Calm', NEW g \in Guns, g = task.g, cfgv' = cfgv,
           ring' = ring, task.pc = "event", task'.pc \in {"fire", "advance"}, task'.g = task.g,
           task'.peek = task.peek, task'.act \in {"dot", "open", "close"},
           ~NothingLeft(cfgv, g, task.peek), task'.act = NextAction(cfgv, g, task.peek)
    PROVE  Plan!InCalm
<1> DEFINE e == <<task.peek.elem, task.peek.dot, NextAction(cfgv, g, task.peek)>>
           p == PlanOf(g)
           q == PlanOf(g)'
           S == SUBSET AllEvents(cfgv, g)
           m == Len(ring[g])
<1>1. \A h \in Guns : ~Asked(h) /\ AskedFor(h) = <<>> /\ AskedFor(h)' = IF h = g THEN e ELSE <<>>
  BY DEF Asked, AskedFor
<1>2. \A h \in Guns : Asked(h)' <=> h = g
  BY DEF Asked
<1>3. /\ m >= 1 /\ ring[g][1] = task.peek /\ task.peek \in Sheets /\ task.peek.elem # 0
      /\ InPattern(cfgv, g, task.peek) /\ p # <<>> /\ Head(p) = Coming(g, 1)
      /\ Tail(p) \in Seq(S) /\ Len(Tail(p)) = m - 1
      /\ \A i \in 1 .. m - 1 : Tail(p)[i] = Coming(g, i + 1)
  BY HeadPlan
<1>4. Head(p) = Remaining(cfgv, g, task.peek) /\ \A i : i # 1 => Coming(g, i)' = Coming(g, i)
  BY <1>1, <1>3 DEF Coming
<1>5. e \in Head(p) /\ \A f \in Head(p) \ {e} : Plan!Earlier(e, f)
  <2>1. cfgv \in Versions
    BY TaskFields
  <2>2. QED
    BY <1>3, <1>4, <2>1, NextPlanned
<1>6. Coming(g, 1)' = Head(p) \ {e}
  BY <1>1, <1>2, <1>3, <1>4 DEF Coming
<1>7. /\ q \in Seq(S) /\ Len(q) = m /\ m \in Nat /\ \A i \in 1 .. m : q[i] = Coming(g, i)'
      /\ Head(p) \in S
  <2>1. p \in Seq(S) /\ m \in Nat
    BY PlanTyped
  <2>2. Head(p) \in S
    BY <1>3, <2>1
  <2>3. QED
    BY <2>1, <2>2, PlanTypedNext
<1>8. \A h \in Guns : h # g => PlanOf(h)' = PlanOf(h)
  BY <1>1, <1>2, PlanStays
<1>9. q = <<Head(p) \ {e}>> \o Tail(p)
  <2> DEFINE x == Head(p) \ {e}
             t == Tail(p)
             y == <<x>> \o t
  <2>1. x \in S
    BY <1>7
  <2>2. \A i \in 1 .. m : q[i] = IF i = 1 THEN x ELSE t[i - 1]
    <3>1. ASSUME NEW i \in 1 .. m, i # 1 PROVE q[i] = t[i - 1]
      <4>1. i - 1 \in 1 .. m - 1 /\ (i - 1) + 1 = i
        BY <1>7, <3>1
      <4>2. t[i - 1] = Coming(g, i)
        BY <1>3, <4>1
      <4>3. QED
        BY <1>4, <1>7, <3>1, <4>2
    <3>2. ASSUME NEW i \in 1 .. m, i = 1 PROVE q[i] = x
      BY <1>6, <1>7, <3>2
    <3>3. QED
      BY <3>1, <3>2
  <2>3. t \in Seq(S) /\ Len(t) = m - 1
    BY <1>3
  <2> HIDE DEF x, t, q, S, m
  <2>4. y \in Seq(S) /\ Len(y) = m /\ \A i \in 1 .. m : y[i] = IF i = 1 THEN x ELSE t[i - 1]
    BY <1>3, <1>7, <2>1, <2>3
  <2> HIDE DEF y
  <2>5. \A i \in 1 .. m : q[i] = y[i]
    BY <2>2, <2>4
  <2>6. q = y
    BY <1>7, <2>4, <2>5, SameSeq
  <2>7. QED
    BY <2>6 DEF y, x, t
<1>10. \A h \in Guns : AskedFor(h)' = IF h = g THEN e ELSE AskedFor(h)
  BY <1>1
<1>11. \A h \in Guns : PlanOf(h)' = IF h = g THEN <<Head(p) \ {e}>> \o Tail(p) ELSE PlanOf(h)
  BY <1>8, <1>9
<1> HIDE DEF e
<1>12. QED
  BY <1>1, <1>3, <1>5, <1>10, <1>11, SeenAsPerform

\* The task has written the event back.
LEMMA AdvancePlan ==
    ASSUME Types, Types', AllGated, AllFitting, Calm, Calm', NEW g \in Guns, g = task.g, Advance
    PROVE  Plan!InCalm
<1> DEFINE s == Advanced(cfgv, g, task.peek)
           e == <<task.peek.elem, task.peek.dot, task.act>>
<1>1. Gated(g) /\ Fitting(g) /\ Undisturbed(g)
  BY CalmRuns DEF AllGated, AllFitting
<1>2. /\ ring'[g] = [ring[g] EXCEPT ![1] = s] /\ 1 \in DOMAIN ring[g] /\ ring[g][1] = task.peek
      /\ task.peek \in Sheets /\ task.peek.elem # 0
      /\ Asked(g) /\ task'.pc = "event" /\ cfgv' = cfgv
  BY <1>1, SheetAdvances
<1>3. Remaining(cfgv, g, s) = Remaining(cfgv, g, task.peek) \ {e}
  <2>1. /\ ~NothingLeft(cfgv, g, task.peek) /\ task.act = NextAction(cfgv, g, task.peek)
        /\ InPattern(cfgv, g, task.peek) /\ cfgv \in Versions
    BY <1>1, <1>2, TaskFields DEF Fitting, AsksNext, SheetsFit
  <2>2. QED
    BY <1>2, <2>1, AdvancedPlan
<1>4. AskedFor(g) = e /\ \A h \in Guns : ~Asked(h)' /\ AskedFor(h)' = <<>>
  BY <1>2 DEF Asked, AskedFor
<1>5. \A h \in Guns : h # g => ~Asked(h) /\ AskedFor(h) = <<>>
  BY DEF Asked, AskedFor
<1>6. \A h \in Guns : AllEvents(cfgv', h) = AllEvents(cfgv, h)
  BY <1>2
<1> HIDE DEF s, e
<1>7. PlanOf(g)' = PlanOf(g)
  <2>1. /\ DOMAIN ring'[g] = DOMAIN ring[g]
        /\ \A i \in DOMAIN ring[g] : ring'[g][i] = IF i = 1 THEN s ELSE ring[g][i]
    BY <1>2
  <2>2. \A i \in DOMAIN ring[g] :
           Remaining(cfgv, g, ring'[g][i]) = IF i = 1 /\ Asked(g) THEN Remaining(cfgv, g, ring[g][i]) \ {AskedFor(g)}
                                             ELSE Remaining(cfgv, g, ring[g][i])
    BY <1>2, <1>3, <1>4, <2>1
  <2>3. PlanOf(g)' = [i \in DOMAIN ring[g] |-> Remaining(cfgv, g, ring'[g][i])]
    BY <1>2, <1>4, <2>1 DEF PlanOf
  <2>4. QED
    BY <2>2, <2>3 DEF PlanOf
<1>8. ASSUME NEW h \in Guns, h # g PROVE PlanOf(h)' = PlanOf(h)
  <2>1. ring'[h] = ring[h]
    BY <1>8, OtherGuns DEF Task
  <2>2. QED
    BY <1>2, <1>4, <1>5, <1>8, <2>1, PlanStays
<1>9. \A h \in Guns : AskedFor(h)' = IF h = g THEN <<>> ELSE AskedFor(h)
  BY <1>4, <1>5
<1>10. QED
  BY <1>6, <1>7, <1>8, <1>9, SeenAsPerformed

\* A sheet that has nothing left is popped.
LEMMA LeavePlan ==
    ASSUME Types, Types', AllGated, AllFitting, Calm, Calm', NEW g \in Guns, g = task.g, SheetDone
    PROVE  Plan!InCalm
<1>1. Gated(g)
  BY CalmRuns DEF AllGated
<1>2. /\ ring'[g] = Tail(ring[g]) /\ ring[g] # <<>> /\ NothingLeft(cfgv, g, task.peek)
      /\ task'.pc \in {"event", "due"} /\ task.pc = "event" /\ cfgv' = cfgv
  BY <1>1, SheetLeaves
<1>3. \A h \in Guns : ~Asked(h) /\ AskedFor(h) = <<>> /\ ~Asked(h)' /\ AskedFor(h)' = <<>>
  BY <1>2 DEF Asked, AskedFor
<1>4. \A h \in Guns : AllEvents(cfgv', h) = AllEvents(cfgv, h)
  BY <1>2
<1> DEFINE p == PlanOf(g)
           q == PlanOf(g)'
           t == Tail(p)
           S == SUBSET AllEvents(cfgv, g)
           m == Len(ring[g])
<1>5. /\ m >= 1 /\ ring[g][1] = task.peek /\ task.peek \in Sheets /\ task.peek.elem # 0
      /\ InPattern(cfgv, g, task.peek) /\ p # <<>> /\ Head(p) = Coming(g, 1)
      /\ t \in Seq(S) /\ Len(t) = m - 1
      /\ \A i \in 1 .. m - 1 : t[i] = Coming(g, i + 1)
  BY <1>2, HeadPlan
<1>6. Head(p) = {}
  <2>1. Head(p) = Remaining(cfgv, g, task.peek)
    BY <1>3, <1>5 DEF Coming
  <2>2. cfgv \in Versions
    BY TaskFields
  <2>3. QED
    BY <1>2, <1>5, <2>1, <2>2, DonePlan
<1>7. q = t
  <2>1. /\ Len(ring'[g]) = m - 1 /\ m \in Nat
        /\ \A i \in 1 .. m - 1 : ring'[g][i] = ring[g][i + 1]
    <3>1. ring[g] \in Seq(Sheets)
      BY DEF Types, RingTypes
    <3>2. QED
      BY <1>2, <3>1
  <2>2. \A i \in 1 .. m - 1 : Coming(g, i)' = Coming(g, i + 1)
    BY <1>2, <1>3, <2>1 DEF Coming
  <2>3. q \in Seq(S) /\ Len(q) = m - 1 /\ \A i \in 1 .. m - 1 : q[i] = Coming(g, i)'
    BY <1>2, <2>1, PlanTypedNext
  <2> HIDE DEF q, t, S, m
  <2>4. \A i \in 1 .. m - 1 : q[i] = t[i]
    BY <1>5, <2>2, <2>3
  <2>5. QED
    BY <1>5, <2>3, <2>4, SameSeq
<1>8. ASSUME NEW h \in Guns, h # g PROVE PlanOf(h)' = PlanOf(h)
  <2>1. ring'[h] = ring[h]
    BY <1>8, OtherGuns DEF Task
  <2>2. QED
    BY <1>2, <1>3, <1>8, <2>1, PlanStays
<1>9. \A h \in Guns : PlanOf(h)' = IF h = g THEN Tail(PlanOf(g)) ELSE PlanOf(h)
  BY <1>7, <1>8
<1>10. QED
  BY <1>3, <1>4, <1>5, <1>6, <1>9, SeenAsLeave

\* No other step changes a queue or the event asked for.
LEMMA QuietPlan ==
    ASSUME Types, Types', Calm, Calm', cfgv' = cfgv, ring' = ring,
           \A g \in Guns : Asked(g)' <=> Asked(g),
           \A g \in Guns : Asked(g) => task'.peek = task.peek /\ task'.act = task.act
    PROVE  Plan!InCalm
<1>1. ASSUME NEW g \in Guns
      PROVE  /\ AllEvents(cfgv', g) = AllEvents(cfgv, g) /\ AskedFor(g)' = AskedFor(g)
             /\ PlanOf(g)' = PlanOf(g)
  <2>1. AskedFor(g)' = AskedFor(g)
    BY DEF AskedFor
  <2>2. QED
    BY <2>1, PlanStays
<1>2. \A g \in Guns : PlanOf(g)' = IF g \in {} THEN Append(PlanOf(g), AllEvents(cfgv, g)) ELSE PlanOf(g)
  BY <1>1
<1>3. {} \in SUBSET Guns
  OBVIOUS
<1>4. QED
  BY <1>1, <1>2, <1>3, SeenAsAccept

LEMMA RoundPlan ==
    ASSUME Types, Types', AllGated, AllFitting, Task, task.pc \notin {"wait", "reset"}, ~CheckEdit,
           Calm, Calm'
    PROVE  Plan!InCalm
<1>1. cfgv' = cfgv /\ task.g \in Guns
  BY UnderWay, TaskFields
<1>2. CASE SheetDone
  BY <1>1, <1>2, LeavePlan
<1>3. CASE Advance
  BY <1>1, <1>3, AdvancePlan
<1>4. CASE /\ ring' = ring /\ \A g \in Guns : Asked(g)' <=> Asked(g)
           /\ (\E g \in Guns : Asked(g)) => task'.peek = task.peek /\ task'.act = task.act
  BY <1>1, <1>4, QuietPlan
<1>5. CASE /\ ring' = ring /\ task.pc = "event" /\ task'.pc \in {"fire", "advance"}
           /\ task'.g = task.g /\ task'.peek = task.peek /\ task'.act \in {"dot", "open", "close"}
           /\ ~NothingLeft(cfgv, task.g, task.peek)
           /\ task'.act = NextAction(cfgv, task.g, task.peek)
  <2>1. PICK g \in Guns : g = task.g
    BY <1>1
  <2>2. QED
    BY <1>1, <1>5, <2>1, AskPlan
<1>6. QED
  BY <1>2, <1>3, <1>4, <1>5, RoundAsks

\* Every step is one of SheetPlan, or leaves it as it is.
LEMMA PlanSteps ==
    ~Bursts /\ Types /\ Types' /\ Halted /\ ConfigSeen /\ AllGated /\ AllFitting /\ [Next]_vars
       => [Plan!InCalm \/ Plan!Disturbed]_(Plan!planVars)
<1> SUFFICES ASSUME ~Bursts, Types, Types', Halted, ConfigSeen, AllGated, AllFitting, [Next]_vars,
                    Calm, Calm'
             PROVE  Plan!InCalm
  BY DEF Plan!Disturbed
<1>1. CASE UNCHANGED vars
  <2>1. UNCHANGED <<cfgv, ring, task>>
    BY <1>1 DEF vars, cfgVars
  <2>2. \A g \in Guns : Asked(g)' <=> Asked(g)
    BY <2>1 DEF Asked
  <2>3. QED
    BY <2>1, <2>2, QuietPlan
<1>2. CASE Next /\ ~Task
  BY <1>2, WorldPlan
<1>3. CASE RoundActive \/ CheckEdit
  <2>1. cfgv' = cfgv /\ ring' = ring
    <3>1. CASE RoundActive
      BY <3>1 DEF RoundActive
    <3>2. CASE CheckEdit
      <4>1. task.pc = "edits" /\ task.g \in Guns
        BY <3>2, TaskFields DEF CheckEdit, At
      <4>2. SameGeometry(task.v, seen, task.g)
        BY <4>1, CalmRuns DEF Undisturbed
      <4>3. QED
        BY <3>2, <4>2 DEF CheckEdit, cfgVars
    <3>3. QED
      BY <1>3, <3>1, <3>2
  <2>2. task.pc \in {"wait", "edits"} /\ task'.pc \in {"edits", "head"}
    <3>1. CASE RoundActive
      <4>1. task.pc = "wait" /\ task'.pc \in {"edits", "head"}
        BY <3>1, TaskGoes DEF Task, RoundActive, RoundStopped, RoundIdle, StopReset, At, Stopped
      <4>2. QED
        BY <4>1
    <3>2. CASE CheckEdit
      BY <3>2, Compares
    <3>3. QED
      BY <1>3, <3>1, <3>2
  <2>3. \A g \in Guns : ~Asked(g) /\ ~Asked(g)'
    BY <2>2 DEF Asked
  <2>4. QED
    BY <2>1, <2>3, QuietPlan
<1>4. CASE Task /\ ~RoundActive /\ ~CheckEdit
  <2>1. task.pc \notin {"wait", "reset"}
    BY <1>4, TaskGoes DEF Calm, Halted, RoundStopped, RoundIdle, StopReset, Stopped, At
  <2>2. QED
    BY <1>4, <2>1, RoundPlan
<1>5. QED
  BY <1>1, <1>2, <1>3, <1>4

\* The task performs every event of every accepted sheet once and in order, whatever the
\* patterns: serviceGun() and checkPatternEdits() implement SheetPlan.
THEOREM PlanCorrect == ~Bursts => (Spec => PlanSpec)
<1> SUFFICES ASSUME ~Bursts PROVE Spec => PlanSpec
  OBVIOUS
<1>1. Init => ~Calm
  BY DEF Init, Calm
<1>2. Spec => []Types
  BY TypesStart, TypesStep, PTL DEF Spec
<1>3. Spec => []LinesKnown
  BY <1>2, LinesKnownStart, LinesKnownStep, PTL DEF Spec
<1>4. Spec => []Halted
  BY <1>2, <1>3, HaltedStart, HaltedStep, PTL DEF Spec
<1>5. Types /\ Halted /\ Orderly /\ [Next]_vars => Orderly'
  BY OrderlyStep
<1>6. Spec => []Orderly
  BY <1>2, <1>4, <1>5, OrderlyStart, PTL DEF Spec
<1>7. Spec => []ConfigSeen
  BY <1>2, ConfigSeenStart, ConfigSeenStep, PTL DEF Spec
<1>8. Init => AllGated
  BY DEF Init, AllGated, Running
<1>9. Types /\ LinesKnown /\ Halted /\ Orderly /\ ConfigSeen /\ AllGated /\ [Next]_vars
         => AllGated'
  BY AllGatedStep
<1>10. Spec => []AllGated
  BY <1>2, <1>3, <1>4, <1>6, <1>7, <1>8, <1>9, PTL DEF Spec
<1>11. Types /\ Halted /\ ConfigSeen /\ AllGated /\ AllFitting /\ [Next]_vars => AllFitting'
  BY AllFittingStep
<1>12. Spec => []AllFitting
  BY <1>2, <1>4, <1>7, <1>10, <1>11, AllFittingStart, PTL DEF Spec
<1>13. Types /\ Types' /\ Halted /\ ConfigSeen /\ AllGated /\ AllFitting /\ [Next]_vars
          => [Plan!InCalm \/ Plan!Disturbed]_(Plan!planVars)
  BY PlanSteps
<1>14. QED
  BY <1>1, <1>2, <1>4, <1>7, <1>10, <1>12, <1>13, PTL DEF Spec, PlanSpec, Plan!PlanSpec
=============================================================================
