-------------------------- MODULE PatternScheduler --------------------------
(***************************************************************************)
(* rt/PatternScheduler.cpp: the sheets on their way from the photocell to  *)
(* the guns, the task that turns their pattern into drops, and the tick    *)
(* hook that ends a line at its encoder pulse even if the task is late.    *)
(*                                                                         *)
(* Positions are encoder pulses modulo PulseMod, as uint32_t is modulo     *)
(* 2^32.  The gun is what GunSequencer promises: fire() opens it in two    *)
(* critical sections, and it closes by itself, by an abort, or by the id   *)
(* of its drop.  The verdict of the speed gate is an input of each round.  *)
(***************************************************************************)
EXTENDS Integers, Sequences

CONSTANTS
    NumGuns,
    Versions,       \* published configurations
    Shape,          \* Shape[v][g]: pattern of gun g, positions in pulses
    OffsetOf,       \* photocell_offset_mm in pulses
    PulseMod,       \* 2^32
    QueueDepth,     \* SHEET_QUEUE_DEPTH
    SheetGap,       \* pulses between two sheets, at least
    LagMax,         \* pulses the encoder may run ahead of the task's reading
    AgeMax,         \* ages of sheets saturate here, beyond every pattern
    Bursts,         \* two commands may fall between two rounds of the task
    Inputs          \* what the rest of the firmware does in this instance

Guns == 1 .. NumGuns
InputKinds == {"stop", "fault", "test", "dacFails"}

ASSUME SchedulerAssumption ==
    /\ NumGuns \in Nat \ {0} /\ QueueDepth \in Nat \ {0}
    /\ PulseMod \in Nat /\ AgeMax \in Nat \ {0} /\ LagMax \in Nat \ {0} /\ SheetGap \in Nat
    /\ \A v \in Versions : OffsetOf[v] \in 0 .. AgeMax
    /\ Bursts \in BOOLEAN /\ Inputs \subseteq InputKinds

\* The longest pattern and a task that is late twice fit in half the counter, so
\* that signed differences tell past from future.
ASSUME WindowAssumption == AgeMax + 2 * LagMax <= PulseMod \div 2

\* What parsePatternElements() lets through, in a window no longer than AgeMax.
ASSUME ShapeAssumption ==
    \A v \in Versions : \A g \in Guns :
        LET p == Shape[v][g] IN
        /\ p.type \in {"none", "lines", "dots"}
        /\ p.elems \in Seq([start : Nat, end : Nat, spacing : Nat])
        /\ \A i \in DOMAIN p.elems :
              /\ p.elems[i].start <= p.elems[i].end
              /\ p.type = "dots" => p.elems[i].spacing > 0
              /\ \A w \in Versions : OffsetOf[w] + p.elems[i].end <= AgeMax

VARIABLES
    enc,        \* encoder::pulseCount()
    active,     \* cfg::g_sys.active
    cfgv,       \* the configuration Config::active() points to
    edited,     \* s_seenGeneration is not the generation published last
    offs,       \* s_offsetMm, in pulses
    ring,       \* s_q[g]: sheets of gun g, oldest first
    watch,      \* s_watch[g]
    gun,        \* what the sequencer makes of gun g
    lineDrop,   \* s_lineDrop[g]: the line the task has open, 0 for none
    linePaused, \* s_linePaused[g]
    seen,       \* s_seenPattern
    task,       \* patternTask: program counter and locals
    notified,   \* its task notification
    closing,    \* closeDrop[] of the tick hook that is running
    ticked,     \* the tick hook has run since the last pulse
    stop        \* how far a stop of the machine has come

vars == <<enc, active, cfgv, edited, offs, ring, watch, gun, lineDrop, linePaused, seen, task,
          notified, closing, ticked, stop>>
cfgVars  == <<cfgv, edited, offs>>
lineVars == <<lineDrop, linePaused>>

----------------------------------------------------------------------------
(* Pulses, patterns, sheets.                                               *)

\* (int32_t)(a - b)
Diff_Unsigned(a, b) == a - b
Diff(a, b) ==
    LET d == (a - b) % PulseMod
    IN  IF d < PulseMod \div 2 THEN d ELSE d - PulseMod

Elems(v, g) == Shape[v][g].elems
Type(v, g)  == Shape[v][g].type

\* age is not in the code: pulses since the leading edge, never wrapping.
NewSheet(p) == [edge |-> p, elem |-> 1, dot |-> 0, open |-> FALSE, age |-> 0]
NoSheet == [edge |-> 0, elem |-> 0, dot |-> 0, open |-> FALSE, age |-> 0]
Older(s) == IF s.elem = 0 \/ s.age >= AgeMax THEN s ELSE [s EXCEPT !.age = @ + 1]

DotAt(v, g, s) == Elems(v, g)[s.elem].start + s.dot * Elems(v, g)[s.elem].spacing

\* nextEventPulse() returns false.
NothingLeft(v, g, s) ==
    \/ Type(v, g) = "none"
    \/ s.elem > Len(Elems(v, g))
    \/ Type(v, g) = "dots" /\ s.elem <= Len(Elems(v, g)) /\ DotAt(v, g, s) > Elems(v, g)[s.elem].end

NextAction(v, g, s) ==
    IF Type(v, g) = "dots" THEN "dot" ELSE IF s.open THEN "close" ELSE "open"

\* Distance of the next event from the leading edge.
NextAt(v, g, s) ==
    CASE NextAction(v, g, s) = "dot"   -> offs + DotAt(v, g, s)
      [] NextAction(v, g, s) = "open"  -> offs + Elems(v, g)[s.elem].start
      [] NextAction(v, g, s) = "close" -> offs + Elems(v, g)[s.elem].end

EventPulse_NoWrap(v, g, s) == s.edge + NextAt(v, g, s)
EventPulse(v, g, s) == (s.edge + NextAt(v, g, s)) % PulseMod

\* Distance of the end of the line at s.elem.  An edit may have left that index
\* beyond the pattern, where the array still holds elements of older patterns.
LineEnds(v, g, s) ==
    IF s.elem <= Len(Elems(v, g)) THEN {offs + Elems(v, g)[s.elem].end}
    ELSE {offs} \cup {offs + Elems(w, g)[s.elem].end :
                         w \in {u \in Versions : s.elem <= Len(Elems(u, g))}}

\* advanceInstance()
NextElem(s) == [s EXCEPT !.elem = @ + 1, !.dot = 0]
Advanced_SkipsLastDot(v, g, s) ==
    IF s.elem > Len(Elems(v, g)) THEN s
    ELSE IF Type(v, g) = "lines"
      THEN IF task.act = "open" THEN [s EXCEPT !.open = TRUE]
           ELSE [s EXCEPT !.open = FALSE, !.elem = @ + 1]
    ELSE LET next == [s EXCEPT !.dot = @ + 1]
         IN  IF DotAt(v, g, next) >= Elems(v, g)[s.elem].end THEN NextElem(s) ELSE next
Advanced(v, g, s) ==
    IF s.elem > Len(Elems(v, g)) THEN s
    ELSE IF Type(v, g) = "lines"
      THEN IF task.act = "open" THEN [s EXCEPT !.open = TRUE]
           ELSE [s EXCEPT !.open = FALSE, !.elem = @ + 1]
    ELSE LET next == [s EXCEPT !.dot = @ + 1]
         IN  IF DotAt(v, g, next) > Elems(v, g)[s.elem].end THEN NextElem(s) ELSE next

----------------------------------------------------------------------------
(* The gun.                                                                *)

\* left is not in the code: pulses to the planned end of a line.
Unplanned == AgeMax + 1
Shut == [open |-> FALSE, arming |-> FALSE, drop |-> 0, kind |-> "none", left |-> Unplanned]

Opened(d, k) == [open |-> TRUE, arming |-> FALSE, drop |-> d, kind |-> k, left |-> Unplanned]

\* Drop ids count up; only their equality is ever used, so an id that nothing
\* refers to any more stands for the next one.
Referred(g) == {lineDrop[g], watch[g].drop, closing[g], gun[g].drop, task.drop, 0}
FreshDrop(g) == CHOOSE d \in 1 .. 6 \ Referred(g) : \A e \in 1 .. 6 \ Referred(g) : d <= e

\* seq::closeIfDrop()
CloseIfDrop_AnyDrop(g, d) == IF gun[g].open /\ d # 0 THEN Shut ELSE gun[g]
CloseIfDrop(g, d) == IF gun[g].open /\ gun[g].drop = d /\ d # 0 THEN Shut ELSE gun[g]

----------------------------------------------------------------------------
(* The encoder watch.                                                      *)

NoWatch == [dueArmed |-> FALSE, due |-> 0, lineArmed |-> FALSE, end |-> 0, drop |-> 0]
NoLine(w) == [w EXCEPT !.lineArmed = FALSE, !.end = 0, !.drop = 0]
NoDue(w)  == [w EXCEPT !.dueArmed = FALSE, !.due = 0]

LineReached_OneLate(g) == watch[g].lineArmed /\ Diff(enc, watch[g].end) > 0
LineReached(g) == watch[g].lineArmed /\ Diff(enc, watch[g].end) >= 0
DueReached(g)  == watch[g].dueArmed /\ Diff(enc, watch[g].due) >= 0

\* tickHook(): what is due, under s_mux ...
TickBegin ==
    /\ \A g \in Guns : closing[g] = 0
    /\ closing' = [g \in Guns |-> IF LineReached(g) THEN watch[g].drop ELSE 0]
    /\ watch' = [g \in Guns |->
                    LET w == IF LineReached(g) THEN NoLine(watch[g]) ELSE watch[g]
                    IN  IF DueReached(g) THEN NoDue(w) ELSE w]
    /\ notified' = (notified \/ \E g \in Guns : LineReached(g) \/ DueReached(g))
    /\ ticked' = TRUE
    /\ UNCHANGED <<enc, active, cfgVars, ring, gun, lineVars, seen, task, stop>>

\* ... and then the closes, each under the sequencer's lock.
TickClose(g) ==
    /\ closing[g] # 0
    /\ gun' = [gun EXCEPT ![g] = CloseIfDrop(g, closing[g])]
    /\ closing' = [closing EXCEPT ![g] = 0]
    /\ UNCHANGED <<enc, active, cfgVars, ring, watch, lineVars, seen, task, notified,
                   ticked, stop>>

----------------------------------------------------------------------------
(* patternTask.  It runs on the core of the tick hook, and waits for it.   *)

At(pc) == task.pc = pc /\ \A g \in Guns : closing[g] = 0

Waiting == [task EXCEPT !.pc = "wait", !.g = 1, !.peek = NoSheet, !.act = "none",
                        !.due = FALSE, !.pulse = 0, !.drop = 0]
NextGun == IF task.g = NumGuns THEN Waiting
           ELSE [Waiting EXCEPT !.pc = "head", !.g = task.g + 1]

\* closeLine(), endLine(): one step, as nothing reads what lies between.
CloseLine(g) ==
    /\ gun'      = [gun EXCEPT ![g] = CloseIfDrop(g, lineDrop[g])]
    /\ lineDrop' = [lineDrop EXCEPT ![g] = 0]
EndLine(g) ==
    /\ CloseLine(g)
    /\ linePaused' = [linePaused EXCEPT ![g] = FALSE]

\* A round starts: woken, or the 1 ms (5 ms while stopped) are over.
Stopped == task.was /\ ~active

RoundIdle ==
    /\ At("wait") /\ ~active /\ ~task.was
    /\ notified' = FALSE
    /\ task' = [task EXCEPT !.now = enc]
    /\ UNCHANGED <<enc, active, cfgVars, ring, watch, gun, lineVars, seen, closing,
                   ticked, stop>>

RoundStopped ==
    /\ At("wait") /\ Stopped
    /\ notified' = FALSE
    /\ task' = [task EXCEPT !.pc = "reset", !.now = enc, !.was = FALSE]
    /\ UNCHANGED <<enc, active, cfgVars, ring, watch, gun, lineVars, seen, closing,
                   ticked, stop>>

\* checkPatternEdits() compares with the configuration published now.
RoundActive ==
    /\ At("wait") /\ active
    /\ notified' = FALSE
    /\ edited' = FALSE
    /\ \E verdict \in {"slow", "unsure", "fast"} :
          task' = [task EXCEPT !.pc = IF edited THEN "edits" ELSE "head", !.now = enc,
                               !.was = TRUE, !.v = cfgv, !.gate = verdict]
    /\ UNCHANGED <<enc, active, cfgv, offs, ring, watch, gun, lineVars, seen, closing,
                   ticked, stop>>

\* resetGun()
ResetGun_QueueOnly(g) ==
    /\ UNCHANGED <<gun, lineVars>>
    /\ ring'  = [ring EXCEPT ![g] = <<>>]
    /\ watch' = [watch EXCEPT ![g] = NoWatch]
ResetGun(g) ==
    /\ EndLine(g)
    /\ ring'  = [ring EXCEPT ![g] = <<>>]
    /\ watch' = [watch EXCEPT ![g] = NoWatch]

StopReset ==
    /\ At("reset")
    /\ ResetGun(task.g)
    /\ task' = IF task.g = NumGuns THEN Waiting ELSE [task EXCEPT !.g = @ + 1]
    /\ UNCHANGED <<enc, active, cfgVars, seen, notified, closing, ticked, stop>>

\* sameGeometry()
SameGeometry(v, w, g) == Shape[v][g] = Shape[w][g]

EditsEnd ==
    IF task.g < NumGuns THEN task' = [task EXCEPT !.g = @ + 1] /\ UNCHANGED seen
    ELSE seen' = task.v /\ task' = [task EXCEPT !.pc = "head", !.g = 1]

CheckEdit ==
    /\ At("edits")
    /\ IF SameGeometry(task.v, seen, task.g)
         THEN UNCHANGED <<ring, watch, gun, lineVars>>
         ELSE ResetGun(task.g)
    /\ EditsEnd
    /\ UNCHANGED <<enc, active, cfgVars, notified, closing, ticked, stop>>

\* serviceGun(): a copy of the head sheet.
HeadSheet ==
    LET g == task.g IN
    /\ At("head") /\ ring[g] # <<>>
    /\ task' = [task EXCEPT !.pc = "event", !.peek = Head(ring[g])]
    /\ UNCHANGED <<enc, active, cfgVars, ring, watch, gun, lineVars, seen, notified,
                   closing, ticked, stop>>

HeadNone ==
    LET g == task.g IN
    /\ At("head") /\ ring[g] = <<>>
    /\ EndLine(g)
    /\ watch' = [watch EXCEPT ![g] = NoWatch]
    /\ task' = NextGun
    /\ UNCHANGED <<enc, active, cfgVars, ring, seen, notified, closing, ticked, stop>>

\* No event left: the sheet is popped, and with it a line that lost its close.
Popped_NotYet(g) == ring[g]
Popped(g) == IF ring[g] = <<>> THEN <<>> ELSE Tail(ring[g])

SheetDone ==
    LET g == task.g
        rest == Popped(g)
    IN
    /\ At("event") /\ NothingLeft(cfgv, g, task.peek)
    /\ IF task.peek.open
         THEN EndLine(g) /\ watch' = [watch EXCEPT ![g] = NoLine(@)]
         ELSE UNCHANGED <<gun, lineVars, watch>>
    /\ ring' = [ring EXCEPT ![g] = rest]
    /\ task' = IF rest = <<>> THEN [task EXCEPT !.pc = "due", !.peek = NoSheet]
               ELSE [task EXCEPT !.peek = Head(rest)]
    /\ UNCHANGED <<enc, active, cfgVars, seen, notified, closing, ticked, stop>>

Lateness == Diff(task.now, EventPulse(cfgv, task.g, task.peek))

NotDue ==
    LET g == task.g IN
    /\ At("event") /\ ~NothingLeft(cfgv, g, task.peek) /\ Lateness < 0
    /\ task' = [task EXCEPT !.pc = "due", !.due = TRUE,
                            !.pulse = EventPulse(cfgv, g, task.peek)]
    /\ UNCHANGED <<enc, active, cfgVars, ring, watch, gun, lineVars, seen, notified,
                   closing, ticked, stop>>

EventDue(a) ==
    /\ At("event") /\ ~NothingLeft(cfgv, task.g, task.peek) /\ Lateness >= 0
    /\ NextAction(cfgv, task.g, task.peek) = a

DropDue(a) ==
    /\ EventDue(a)
    /\ a = "open" => task.gate # "slow"
    /\ task' = [task EXCEPT !.pc = "fire", !.act = a]
    /\ UNCHANGED <<enc, active, cfgVars, ring, watch, gun, lineVars, seen, notified,
                   closing, ticked, stop>>

LineTooSlow ==
    /\ EventDue("open") /\ task.gate = "slow"
    /\ linePaused' = [linePaused EXCEPT ![task.g] = TRUE]
    /\ task' = [task EXCEPT !.pc = "advance", !.act = "open"]
    /\ UNCHANGED <<enc, active, cfgVars, ring, watch, gun, lineDrop, seen, notified,
                   closing, ticked, stop>>

LineEndDue ==
    LET g == task.g IN
    /\ EventDue("close")
    /\ EndLine(g)
    /\ watch' = [watch EXCEPT ![g] = NoLine(@)]
    /\ task' = [task EXCEPT !.pc = "advance", !.act = "close"]
    /\ UNCHANGED <<enc, active, cfgVars, ring, seen, notified, closing, ticked, stop>>

\* What becomes of a drop that could not be opened.
NotOpened ==
    /\ linePaused' = IF task.act = "open" THEN [linePaused EXCEPT ![task.g] = TRUE]
                     ELSE linePaused
    /\ task' = IF task.act = "resume" THEN NextGun ELSE [task EXCEPT !.pc = "advance"]

\* seq::fire(), first critical section.
FireBegin ==
    LET g == task.g IN
    /\ At("fire")
    /\ IF active /\ ~gun[g].open /\ ~gun[g].arming
         THEN /\ gun' = [gun EXCEPT ![g].arming = TRUE]
              /\ task' = [task EXCEPT !.pc = "firing"]
              /\ UNCHANGED linePaused
         ELSE NotOpened /\ UNCHANGED gun
    /\ UNCHANGED <<enc, active, cfgVars, ring, watch, lineDrop, seen, notified, closing,
                   ticked, stop>>

\* seq::fire(), second critical section.
FireOpens ==
    LET g == task.g
        d == FreshDrop(g)
        k == IF task.act = "dot" THEN "dot" ELSE "line"
    IN
    /\ At("firing") /\ gun[g].arming /\ active
    /\ gun' = [gun EXCEPT ![g] = Opened(d, k)]
    /\ task' = IF k = "dot" THEN [task EXCEPT !.pc = "advance"]
               ELSE [task EXCEPT !.pc = "watch", !.drop = d]
    /\ UNCHANGED <<enc, active, cfgVars, ring, watch, lineVars, seen, notified, closing,
                   ticked, stop>>

FireRefused ==
    LET g == task.g IN
    /\ At("firing") /\ (gun[g].arming /\ active => "dacFails" \in Inputs)
    /\ gun' = [gun EXCEPT ![g].arming = FALSE]
    /\ NotOpened
    /\ UNCHANGED <<enc, active, cfgVars, ring, watch, lineDrop, seen, notified, closing,
                   ticked, stop>>

\* openLine() after fire(): the end of the line is handed to the tick hook.
PausedNoMore(g) == [linePaused EXCEPT ![g] = FALSE]

WatchLineEnd ==
    LET g == task.g IN
    /\ At("watch")
    /\ \E at \in LineEnds(cfgv, g, task.peek) :
          /\ watch' = [watch EXCEPT ![g].lineArmed = TRUE, ![g].drop = task.drop,
                                    ![g].end = (task.peek.edge + at) % PulseMod]
          /\ gun' = IF gun[g].drop = task.drop
                      THEN [gun EXCEPT ![g].left = IF at > task.peek.age
                                                     THEN at - task.peek.age ELSE 0]
                      ELSE gun
    /\ lineDrop' = [lineDrop EXCEPT ![g] = task.drop]
    /\ linePaused' = PausedNoMore(g)
    /\ ticked' = FALSE
    /\ task' = IF task.act = "resume" THEN NextGun
               ELSE [task EXCEPT !.pc = "advance", !.drop = 0]
    /\ UNCHANGED <<enc, active, cfgVars, ring, seen, notified, closing, stop>>

\* advanceInstance() and writeBackHead()
WriteBack(g, s) == IF ring[g] = <<>> THEN ring ELSE [ring EXCEPT ![g][1] = s]

Advance ==
    LET g == task.g
        s == Advanced(cfgv, g, task.peek)
    IN
    /\ At("advance")
    /\ ring' = WriteBack(g, s)
    /\ task' = [task EXCEPT !.pc = "event", !.peek = s, !.act = "none"]
    /\ UNCHANGED <<enc, active, cfgVars, watch, gun, lineVars, seen, notified, closing,
                   ticked, stop>>

\* watchDue(): the tick hook wakes the task at the next event.
WatchDue ==
    LET g == task.g IN
    /\ At("due")
    /\ watch' = [watch EXCEPT ![g].dueArmed = task.due, ![g].due = task.pulse]
    /\ task' = IF task.peek.open THEN [task EXCEPT !.pc = "gate"] ELSE NextGun
    /\ UNCHANGED <<enc, active, cfgVars, ring, gun, lineVars, seen, notified, closing,
                   ticked, stop>>

\* Lines speed gate.
GateCloses ==
    LET g == task.g IN
    /\ At("gate") /\ task.gate = "slow"
    /\ IF linePaused[g] THEN UNCHANGED <<watch, gun, lineVars>>
       ELSE /\ CloseLine(g)
            /\ watch' = [watch EXCEPT ![g] = NoLine(@)]
            /\ linePaused' = [linePaused EXCEPT ![g] = TRUE]
    /\ task' = NextGun
    /\ UNCHANGED <<enc, active, cfgVars, ring, seen, notified, closing, ticked, stop>>

GatePasses ==
    LET g == task.g IN
    /\ At("gate") /\ task.gate # "slow"
    /\ \E at \in LineEnds(cfgv, g, task.peek) :
          task' = IF /\ linePaused[g] /\ task.gate = "fast"
                     /\ Diff((task.peek.edge + at) % PulseMod, enc) > 0
                    THEN [task EXCEPT !.pc = "fire", !.act = "resume"] ELSE NextGun
    /\ UNCHANGED <<enc, active, cfgVars, ring, watch, gun, lineVars, seen, notified,
                   closing, ticked, stop>>

Task ==
    \/ RoundIdle \/ RoundStopped \/ RoundActive \/ StopReset \/ CheckEdit
    \/ HeadSheet \/ HeadNone \/ SheetDone \/ NotDue
    \/ DropDue("dot") \/ DropDue("open") \/ LineTooSlow \/ LineEndDue
    \/ FireBegin \/ FireOpens \/ FireRefused \/ WatchLineEnd
    \/ Advance \/ WatchDue \/ GateCloses \/ GatePasses

----------------------------------------------------------------------------
(* What the task meets.                                                    *)

TaskOnly == <<ring, watch, gun, lineVars, seen, task, notified, closing>>
NoClosing == \A g \in Guns : closing[g] = 0

\* One encoder pulse.  Pulses are further apart than two ticks, and a round is
\* never older than LagMax pulses.
Move ==
    /\ ticked /\ NoClosing
    /\ Diff(enc + 1, task.now) <= LagMax
    /\ enc' = (enc + 1) % PulseMod
    /\ ring' = [g \in Guns |-> [i \in DOMAIN ring[g] |-> Older(ring[g][i])]]
    /\ task' = [task EXCEPT !.peek = Older(@)]
    /\ gun' = [g \in Guns |->
                  IF gun[g].left \in 1 .. AgeMax THEN [gun[g] EXCEPT !.left = @ - 1] ELSE gun[g]]
    /\ ticked' = FALSE
    /\ UNCHANGED <<active, cfgVars, watch, lineVars, seen, notified, closing, stop>>

\* onPhotocellEdge()
WakeTask_Forgotten == UNCHANGED notified
WakeTask == notified' = TRUE

PhotocellEdge ==
    /\ active
    /\ \A g \in Guns : ring[g] # <<>> => ring[g][Len(ring[g])].age >= SheetGap
    /\ ring' = [g \in Guns |-> IF Len(ring[g]) < QueueDepth THEN Append(ring[g], NewSheet(enc))
                               ELSE ring[g]]
    /\ WakeTask
    /\ UNCHANGED <<enc, active, cfgVars, watch, gun, lineVars, seen, task, closing, ticked,
                   stop>>

\* Config::publish()
Publish(v) ==
    /\ v # cfgv /\ (Bursts \/ ~edited)
    /\ cfgv' = v /\ edited' = TRUE
    /\ UNCHANGED <<enc, active, offs, TaskOnly, ticked, stop>>

\* onConfigApplied(), after a publication.
ApplyScalars ==
    /\ offs' = OffsetOf[cfgv]
    /\ UNCHANGED <<enc, active, cfgv, edited, TaskOnly, ticked, stop>>

\* The task has seen the last start or stop.
Noticed == task.was = active /\ task.pc # "reset"

\* set_active:true
Start ==
    /\ ~active /\ stop = "no" /\ (Bursts \/ Noticed)
    /\ active' = TRUE
    /\ offs' = OffsetOf[cfgv]
    /\ UNCHANGED <<enc, cfgv, edited, TaskOnly, ticked, stop>>

\* set_active:false, watchdog: pattern::abortAll() flushes ...
StopFlush ==
    /\ "stop" \in Inputs
    /\ active /\ stop = "no" /\ (Bursts \/ Noticed)
    /\ ring' = [g \in Guns |-> <<>>]
    /\ watch' = [g \in Guns |-> [watch[g] EXCEPT !.dueArmed = FALSE, !.lineArmed = FALSE]]
    /\ stop' = "flushed"
    /\ UNCHANGED <<enc, active, cfgVars, gun, lineVars, seen, task, notified, closing, ticked>>

\* ... seq::abortAll() closes ...
StopAbort ==
    /\ stop = "flushed"
    /\ gun' = [g \in Guns |-> Shut]
    /\ stop' = "aborted"
    /\ UNCHANGED <<enc, active, cfgVars, ring, watch, lineVars, seen, task, notified,
                   closing, ticked>>

\* ... and the flag falls last.
StopStore ==
    /\ stop = "aborted"
    /\ active' = FALSE
    /\ stop' = "no"
    /\ UNCHANGED <<enc, cfgVars, TaskOnly, ticked>>

\* The fault interrupt closes the guns and leaves the queues to the task.
FaultStop ==
    /\ "fault" \in Inputs
    /\ active /\ stop = "no" /\ (Bursts \/ Noticed)
    /\ gun' = [g \in Guns |-> Shut]
    /\ stop' = "aborted"
    /\ UNCHANGED <<enc, active, cfgVars, ring, watch, lineVars, seen, task, notified,
                   closing, ticked>>

\* The end of the on-time, the ceiling of a line, a trip of the sequencer.
GunCloses(g) ==
    /\ gun[g].open
    /\ gun' = [gun EXCEPT ![g] = Shut]
    /\ UNCHANGED <<enc, active, cfgVars, ring, watch, lineVars, seen, task, notified,
                   closing, ticked, stop>>

\* testrun::start()
TestFire(g) ==
    /\ "test" \in Inputs
    /\ ~active /\ ~gun[g].open /\ ~gun[g].arming
    /\ gun' = [gun EXCEPT ![g] = Opened(FreshDrop(g), "test")]
    /\ UNCHANGED <<enc, active, cfgVars, ring, watch, lineVars, seen, task, notified,
                   closing, ticked, stop>>

----------------------------------------------------------------------------
Init ==
    /\ enc = 0 /\ active = FALSE
    /\ cfgv \in Versions /\ edited = FALSE /\ offs = OffsetOf[cfgv] /\ seen = cfgv
    /\ ring = [g \in Guns |-> <<>>]
    /\ watch = [g \in Guns |-> NoWatch]
    /\ gun = [g \in Guns |-> Shut]
    /\ lineDrop = [g \in Guns |-> 0]
    /\ linePaused = [g \in Guns |-> FALSE]
    /\ task = [pc |-> "wait", g |-> 1, now |-> 0, was |-> FALSE, gate |-> "slow", v |-> cfgv,
               peek |-> NoSheet, act |-> "none", due |-> FALSE, pulse |-> 0, drop |-> 0]
    /\ notified = FALSE
    /\ closing = [g \in Guns |-> 0]
    /\ ticked = TRUE
    /\ stop = "no"

Stops == StopFlush \/ StopAbort \/ StopStore \/ FaultStop

Next ==
    \/ Task
    \/ TickBegin \/ \E g \in Guns : TickClose(g)
    \/ Move \/ PhotocellEdge
    \/ (\E v \in Versions : Publish(v)) \/ ApplyScalars
    \/ Start \/ Stops
    \/ \E g \in Guns : GunCloses(g) \/ TestFire(g)

Spec == Init /\ [][Next]_vars

\* The conveyor keeps moving (strongly fair: ticks and rounds only delay a pulse
\* of the model, never of the conveyor); task and tick get the CPU; a stop is
\* carried out.
FairSpec ==
    /\ Spec
    /\ WF_vars(Task) /\ WF_vars(TickBegin) /\ \A g \in Guns : WF_vars(TickClose(g))
    /\ SF_vars(Move) /\ WF_vars(StopAbort) /\ WF_vars(StopStore)

----------------------------------------------------------------------------
Pulses == 0 .. PulseMod - 1
Drops == 0 .. 6
SheetLike(s) ==
    /\ s.edge \in Pulses /\ s.elem \in Nat /\ s.dot \in Nat
    /\ s.open \in BOOLEAN /\ s.age \in 0 .. AgeMax

TypeOK ==
    /\ enc \in Pulses /\ active \in BOOLEAN
    /\ cfgv \in Versions /\ edited \in BOOLEAN /\ offs \in Nat /\ seen \in Versions
    /\ \A g \in Guns :
          /\ Len(ring[g]) <= QueueDepth /\ \A i \in DOMAIN ring[g] : SheetLike(ring[g][i])
          /\ watch[g] \in [dueArmed : BOOLEAN, due : Pulses, lineArmed : BOOLEAN,
                            end : Pulses, drop : Drops]
          /\ gun[g] \in [open : BOOLEAN, arming : BOOLEAN, drop : Drops,
                          kind : {"none", "line", "dot", "test"}, left : 0 .. Unplanned]
    /\ lineDrop \in [Guns -> Drops] /\ linePaused \in [Guns -> BOOLEAN]
    /\ task.pc \in {"wait", "reset", "edits", "head", "event", "fire", "firing", "watch",
                    "advance", "due", "gate"}
    /\ task.g \in Guns /\ task.now \in Pulses /\ task.was \in BOOLEAN
    /\ task.gate \in {"slow", "unsure", "fast"} /\ task.v \in Versions
    /\ SheetLike(task.peek) /\ task.act \in {"none", "dot", "open", "close", "resume"}
    /\ task.due \in BOOLEAN /\ task.pulse \in Pulses /\ task.drop \in Drops
    /\ notified \in BOOLEAN /\ ticked \in BOOLEAN
    /\ closing \in [Guns -> Drops] /\ stop \in {"no", "flushed", "aborted"}

\* However late the task is, a line handed to the tick hook is closed before
\* the pulse that follows its end: the watch is never lost while the line of
\* its drop is open (a stop disarms it and closes the gun right after).
LineEndsOnTime ==
    \A g \in Guns :
       gun[g].left = 0 => ~ticked \/ closing[g] = gun[g].drop \/ stop = "flushed"

\* Nothing is glued early: an event is performed when the sheet has moved to
\* it, across the wrap of the counter and every edit.
NeverEarly ==
    [][\A a \in {"dot", "open"} :
          DropDue(a) => task.peek.age >= NextAt(cfgv, task.g, task.peek)]_vars

\* After a round that found the conveyor too slow no line is open: neither
\* the one it met open nor one that it or the sheet's events opened.
SlowMeansShut ==
    task.pc = "wait" /\ task.was /\ task.gate = "slow" /\ active /\ stop = "no"
       => \A g \in Guns : gun[g].kind # "line"

\* Once the task has dealt with a stop no line is open, even if it opened one
\* between the stop's abort and the fall of the flag.
NoLineWhenStopped ==
    task.pc = "wait" /\ ~task.was => \A g \in Guns : gun[g].kind # "line"

\* A shut gate, whatever shut it, leaves no line open behind it.
NoLineBehindGate == SlowMeansShut /\ NoLineWhenStopped

\* Task and tick hook, which close by drop id from what they remember, never
\* close a drop that is not a line: a dot, or a test after the stop.
PositionClosesLinesOnly ==
    [][(Task \/ \E g \in Guns : TickClose(g))
          => \A g \in Guns : gun[g].open /\ ~gun'[g].open => gun[g].kind = "line"]_vars

\* While the task sleeps, and nothing has woken it, the next event of every
\* gun is in the watch of the tick hook (for an offset that was in force).
DueIsWatched ==
    task.pc = "wait" /\ task.was /\ active /\ stop = "no" /\ ~notified /\ ~edited
       => \A g \in Guns : ring[g] # <<>> =>
            /\ watch[g].dueArmed
            /\ \E o \in {OffsetOf[v] : v \in Versions} :
                  watch[g].due = (EventPulse(cfgv, g, Head(ring[g])) - offs + o) % PulseMod

\* A full queue gets room again while the conveyor moves: every sheet is
\* worked off, with or without its drops.
SheetsLeave == \A g \in Guns : (Len(ring[g]) = QueueDepth) ~> (Len(ring[g]) < QueueDepth)

\* The comment on the task's stop: nothing in flight survives into the next
\* run.  It does not hold if a stop and a start fall between two rounds (Bursts).
RestartsEmpty ==
    [][~active /\ active' => \A g \in Guns : ring[g] = <<>> /\ gun[g].kind # "line"]_vars
=============================================================================
