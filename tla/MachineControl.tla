--------------------------- MODULE MachineControl ---------------------------
(***************************************************************************)
(* Who lets the guns fire: commands (rt/Control.cpp,                       *)
(* comms/CommandDispatcher.cpp), gun tests (rt/TestRunner.cpp), the        *)
(* watchdog, the fault interrupt, the safety stop of the sequencer, and    *)
(* calibration, whose result is handed from the photocell interrupt over   *)
(* the pattern task to the network task (comms/LiveSync.cpp).              *)
(*                                                                         *)
(* Every handler is the list of calls it makes: todo[p] holds the calls    *)
(* that p has still to make, each with its gun (0: none), and each is a    *)
(* step of its own, since any other process may come in between.           *)
(***************************************************************************)
EXTENDS Integers, Sequences, FiniteSetsExt

CONSTANTS
    NumGuns,    \* pins::NUM_GUNS
    Kind,       \* "Line" or "Dots": the pattern type of each gun
    Timeout,    \* TIMEOUT_MS, in passes of the watchdog
    Overlap,    \* bound: handlers in progress at one time
    SlowCommands    \* the edit lock may be held longer than TIMEOUT_MS

Guns == 1 .. NumGuns

ASSUME MachineAssumption ==
    /\ NumGuns \in Nat \ {0} /\ Timeout \in Nat /\ Overlap \in Nat
    /\ SlowCommands \in BOOLEAN
    /\ Kind \in [Guns -> {"Line", "Dots"}]

VARIABLES
    sys,        \* g_sys: active, fault, calibrating
    testMode,   \* s_testMode
    test,       \* s_t: mode and the two timers of each gun
    gun,        \* what each gun is open for
    photo,      \* s_calib
    result,     \* where calibration results are, and of which arming
    resume,     \* s_calibResume
    link,       \* time since lastCmdMs, and the watchdog's locals
    todo,       \* the calls each process has still to make
    seen        \* ghosts

vars == <<sys, testMode, test, gun, photo, result, resume, link, todo, seen>>

\* The commands and the service of the network task hold the edit lock.
Editors == {"command", "service"}
Processes == Editors \cup {"watchdog", "fault", "timer", "photocell"}
\* A calibration result on its way: seen by the interrupt, s_calibDone,
\* s_calibPending, taken by service().
Places == {"edge", "done", "pending", "taken"}

Call(op) == <<op, 0>>
ForAllGuns_OnePast(op) == [g \in 1 .. NumGuns + 1 |-> <<op, g>>]

ForAllGuns(op) == [g \in Guns |-> <<op, g>>]

\* testrun::stopAll(), and onSetActive(false) up to the store of the flag.
StopTests == Append(ForAllGuns("takeMode"), Call("testModeOff"))
StopAll   == StopTests \o <<Call("abortAll"), Call("clearActive")>>
Restart   == Append(StopTests, Call("setActive"))

Command ==
    [start     |-> <<Call("lock"), Call("cancel"), Call("seeFault")>> \o Restart,
     stop      |-> <<Call("lock"), Call("cancel")>> \o StopAll,
     arm       |-> <<Call("lock")>> \o StopTests \o <<Call("arm")>>,
     cancel    |-> <<Call("lock"), Call("restore")>>,
     testClose |-> <<Call("lock")>> \o StopTests]

Ops == {"lock", "cancel", "restore", "seeFault", "clearFault", "takeMode", "stopTick",
        "stopDeadline", "abort", "abortAll", "testModeOff", "setActive",
        "clearActive", "setFault", "arm", "calibrate", "forget", "lead", "check", "tryTest",
        "fireLine", "lineOpens", "lineRuns", "dotsRun", "fireDot", "dotOpens", "startTick",
        "startDeadline", "readLast", "readArmed", "leadSeen", "sheetLeft", "sheetDone", "apply"}

TypeOK ==
    /\ sys \in [active : BOOLEAN, fault : BOOLEAN, calibrating : BOOLEAN]
    /\ testMode \in BOOLEAN
    /\ test \in [Guns -> [mode : {"None", "Line", "Dots"}, tick : BOOLEAN, deadline : BOOLEAN]]
    /\ gun \in [Guns -> {"shut", "arming", "test", "sheet"}]
    /\ photo \in {"Idle", "Leading", "Trailing"}
    /\ result \in [Places -> {"none", "fresh", "stale"}]
    /\ resume \in BOOLEAN
    /\ link \in [quiet : 0 .. Timeout + 2, lag : 0 .. 1, over : BOOLEAN, tripped : BOOLEAN]
    /\ \A p \in Processes : \A i \in DOMAIN todo[p] :
          todo[p][i][1] \in Ops /\ todo[p][i][2] \in Guns \cup {0}
    /\ seen \in [halted : BOOLEAN, stale : BOOLEAN, fed : BOOLEAN,
                 crossed : BOOLEAN, alone : 0 .. 3]

Init ==
    /\ sys = [active |-> FALSE, fault |-> FALSE, calibrating |-> FALSE]
    /\ testMode = FALSE
    /\ test = [g \in Guns |-> [mode |-> "None", tick |-> FALSE, deadline |-> FALSE]]
    /\ gun = [g \in Guns |-> "shut"]
    /\ photo = "Idle" /\ result = [pl \in Places |-> "none"] /\ resume = FALSE
    /\ link = [quiet |-> 0, lag |-> 0, over |-> FALSE, tripped |-> FALSE]
    /\ todo = [p \in Processes |-> <<>>]
    /\ seen = [halted |-> FALSE, stale |-> FALSE, fed |-> FALSE,
               crossed |-> FALSE, alone |-> 0]

----------------------------------------------------------------------------
Free(p)     == todo[p] = <<>>
At(p, op)   == ~Free(p) /\ Head(todo[p])[1] = op
GunOf(p)    == Head(todo[p])[2]
Begin(p, calls) ==
    /\ Free(p) /\ Quantify(Processes, LAMBDA q : ~Free(q)) < Overlap
    /\ todo' = [todo EXCEPT ![p] = calls]
\* The call is made; it makes more calls before p goes on.
Made(p, calls) == todo' = [todo EXCEPT ![p] = calls \o Tail(@)]
Return(p) == todo' = [todo EXCEPT ![p] = <<>>]
Coming(p, ops) == \E i \in DOMAIN todo[p] : todo[p][i][1] \in ops

Holds(p) == ~Free(p) /\ ~At(p, "lock")

\* mayFire(), for production and for tests.
SystemArmed == sys.active /\ ~sys.fault
TestArmed == testMode /\ ~sys.active /\ ~sys.calibrating /\ ~sys.fault

\* An activation that a stop comes too late for: received, or remembered.
Committed ==
    \/ \E p \in Editors : Coming(p, {"setActive", "restore", "calibrate"})
    \/ sys.calibrating /\ resume /\ ~sys.fault

Untouched == UNCHANGED <<sys, testMode, test, gun, photo, result, resume, link, seen>>

Lock(p) ==
    /\ At(p, "lock") /\ \A q \in Editors \ {p} : ~Holds(q)
    /\ Made(p, <<>>) /\ Untouched

\* The watchdog stops the guns while a test is being opened.
Opening  == Coming("command", {"tryTest", "fireLine", "lineOpens", "startDeadline"})
Stopping == Coming("watchdog", {"takeMode", "stopTick", "stopDeadline", "abort", "abortAll"})

TakeMode_LeavesDrop(p) ==
    /\ At(p, "takeMode")
    /\ LET g == GunOf(p)
       IN  /\ test' = [test EXCEPT ![g].mode = "None"]
           /\ Made(p, IF test[g].mode = "None" THEN <<>>
                      ELSE <<<<"stopTick", g>>, <<"stopDeadline", g>>>>)
    /\ UNCHANGED <<sys, testMode, gun, photo, result, resume, link, seen>>

\* --- calls that stop ------------------------------------------------------
\* doStop(): whoever takes the mode stops the timers and closes the gun.
TakeMode(p) ==
    /\ At(p, "takeMode")
    /\ LET g == GunOf(p)
       IN  /\ test' = [test EXCEPT ![g].mode = "None"]
           /\ Made(p, IF test[g].mode = "None" THEN <<>>
                      ELSE <<<<"stopTick", g>>, <<"stopDeadline", g>>, <<"abort", g>>>>)
    /\ UNCHANGED <<sys, testMode, gun, photo, result, resume, link, seen>>

StopTimer(p) ==
    /\ At(p, "stopTick") \/ At(p, "stopDeadline")
    /\ test' = IF At(p, "stopTick") THEN [test EXCEPT ![GunOf(p)].tick = FALSE]
               ELSE [test EXCEPT ![GunOf(p)].deadline = FALSE]
    /\ Made(p, <<>>)
    /\ UNCHANGED <<sys, testMode, gun, photo, result, resume, link, seen>>

\* seq::abort(); seq::abortAll() with killAll() and pattern::abortAll(), of
\* which the last leaves the guns as it finds them or shuts them.
Abort(p) ==
    /\ At(p, "abort") \/ At(p, "abortAll")
    /\ gun' = [g \in Guns |-> IF GunOf(p) \in {0, g} THEN "shut" ELSE gun[g]]
    /\ Made(p, <<>>)
    /\ UNCHANGED <<sys, testMode, test, photo, result, resume, link, seen>>

TestModeOff(p) ==
    /\ At(p, "testModeOff") /\ testMode' = FALSE
    /\ Made(p, <<>>)
    /\ UNCHANGED <<sys, test, gun, photo, result, resume, link, seen>>

ClearActive(p) ==
    /\ At(p, "clearActive")
    /\ sys' = [sys EXCEPT !.active = FALSE]
    /\ seen' = [seen EXCEPT !.halted = ~Committed, !.alone = 0]
    /\ Made(p, <<>>)
    /\ UNCHANGED <<testMode, test, gun, photo, result, resume, link>>

\* --- commands under the edit lock -----------------------------------------
\* dispatch() feeds the watchdog before it waits for the lock.
Fed == [link EXCEPT !.quiet = 0]

Receive(c) ==
    /\ Begin("command", Command[c])
    /\ link' = Fed
    /\ seen' = [seen EXCEPT !.fed = TRUE, !.halted = @ /\ c # "start"]
    /\ UNCHANGED <<sys, testMode, test, gun, photo, result, resume>>

\* test_open and test_close for one gun; nothing that matters comes before the check.
ReceiveTest(g) ==
    /\ \E o \in {"check", "takeMode"} : Begin("command", <<Call("lock"), <<o, g>>>>)
    /\ link' = Fed /\ seen' = [seen EXCEPT !.fed = TRUE]
    /\ UNCHANGED <<sys, testMode, test, gun, photo, result, resume>>

\* ping, the heartbeat of the web page, commands that only edit.
Ping ==
    /\ link' = Fed /\ seen' = [seen EXCEPT !.fed = TRUE]
    /\ UNCHANGED <<sys, testMode, test, gun, photo, result, resume, todo>>

SeeFault ==
    /\ At("command", "seeFault")
    /\ Made("command", IF sys.fault THEN <<Call("clearFault")>> ELSE <<>>)
    /\ Untouched

ClearFault ==
    /\ At("command", "clearFault")
    /\ sys' = [sys EXCEPT !.fault = FALSE]
    /\ Made("command", <<>>)
    /\ UNCHANGED <<testMode, test, gun, photo, result, resume, link, seen>>

SetActive(p) ==
    /\ At(p, "setActive")
    /\ sys' = [sys EXCEPT !.active = TRUE]
    /\ Made(p, <<>>)
    /\ UNCHANGED <<testMode, test, gun, photo, result, resume, link, seen>>

\* Results of this arming are results of an earlier one from here on.
Aged(r) == [pl \in Places |-> IF r[pl] = "fresh" THEN "stale" ELSE r[pl]]
Moved(from, to) == [result EXCEPT ![from] = "none", ![to] = result[from]]

Leave_IgnoresFault(p, restore) ==
    /\ sys' = [sys EXCEPT !.calibrating = FALSE]
    /\ Made(p, IF restore /\ resume THEN Restart ELSE <<>>)

\* leaveCalibration()
Leave(p, restore) ==
    /\ sys' = [sys EXCEPT !.calibrating = FALSE]
    /\ Made(p, IF restore /\ resume /\ ~sys.fault THEN Restart ELSE <<>>)

Cancel_LeavesPhotocell ==
    /\ At("command", "cancel") \/ At("command", "restore")
    /\ IF sys.calibrating
         THEN /\ result' = Aged([result EXCEPT !["done"] = "none"])
              /\ Leave("command", At("command", "restore"))
         ELSE Made("command", <<>>) /\ UNCHANGED <<sys, result>>
    /\ UNCHANGED <<testMode, test, gun, photo, resume, link, seen>>

\* onCalibCancel(), of set_active without and of calib_cancel with the old state.
Cancel ==
    /\ At("command", "cancel") \/ At("command", "restore")
    /\ IF sys.calibrating
         THEN /\ photo' = "Idle" /\ result' = Aged([result EXCEPT !["done"] = "none"])
              /\ Leave("command", At("command", "restore"))
         ELSE Made("command", <<>>) /\ UNCHANGED <<sys, photo, result>>
    /\ UNCHANGED <<testMode, test, gun, resume, link, seen>>

Arm_LeadsFirst ==
    /\ At("command", "arm")
    /\ resume' = IF sys.calibrating THEN resume ELSE sys.active
    /\ Made("command", (CASE sys.calibrating -> <<>>
                          [] sys.active      -> Append(StopAll, Call("calibrate"))
                          [] OTHER           -> <<Call("calibrate")>>)
                       \o <<Call("lead"), Call("forget")>>)
    /\ UNCHANGED <<sys, testMode, test, gun, photo, result, link, seen>>

\* onCalibArm(): the machine stops first, unless it is calibrating already.
Arm ==
    /\ At("command", "arm")
    /\ resume' = IF sys.calibrating THEN resume ELSE sys.active
    /\ Made("command", (CASE sys.calibrating -> <<>>
                          [] sys.active      -> Append(StopAll, Call("calibrate"))
                          [] OTHER           -> <<Call("calibrate")>>)
                       \o <<Call("forget"), Call("lead")>>)
    /\ UNCHANGED <<sys, testMode, test, gun, photo, result, link, seen>>

Calibrate ==
    /\ At("command", "calibrate")
    /\ sys' = [sys EXCEPT !.calibrating = TRUE]
    /\ Made("command", <<>>)
    /\ UNCHANGED <<testMode, test, gun, photo, result, resume, link, seen>>

\* pattern::onCalibArm(): s_calibDone first, s_calib last.
Forget ==
    /\ At("command", "forget")
    /\ result' = Aged([result EXCEPT !["done"] = "none"])
    /\ Made("command", <<>>)
    /\ UNCHANGED <<sys, testMode, test, gun, photo, resume, link, seen>>

Lead ==
    /\ At("command", "lead")
    /\ photo' = "Leading" /\ result' = Aged(result)
    /\ Made("command", <<>>)
    /\ UNCHANGED <<sys, testMode, test, gun, resume, link, seen>>

\* --- gun tests -------------------------------------------------------------
CheckTest ==
    /\ At("command", "check")
    /\ IF sys.fault \/ sys.active \/ sys.calibrating
         THEN Return("command")
         ELSE Made("command", <<<<"tryTest", GunOf("command")>>>>)
    /\ Untouched

TryTest_NoDeadline ==
    /\ At("command", "tryTest") /\ testMode' = TRUE
    /\ LET g == GunOf("command")
       IN  Made("command",
             CASE sys.fault -> <<>>
               [] ~sys.fault /\ Kind[g] = "Line" -> <<<<"takeMode", g>>, <<"fireLine", g>>>>
               [] OTHER -> <<<<"takeMode", g>>, <<"dotsRun", g>>, <<"fireDot", g>>,
                             <<"startTick", g>>>>)
    /\ seen' = [seen EXCEPT !.crossed = @ \/ Stopping]
    /\ UNCHANGED <<sys, test, gun, photo, result, resume, link>>

\* start() and startOne(): the previous test of this gun ends first.
TryTest ==
    /\ At("command", "tryTest") /\ testMode' = TRUE
    /\ LET g == GunOf("command")
       IN  Made("command",
             CASE sys.fault -> <<>>
               [] ~sys.fault /\ Kind[g] = "Line" -> <<<<"takeMode", g>>, <<"fireLine", g>>>>
               [] OTHER -> <<<<"takeMode", g>>, <<"dotsRun", g>>, <<"fireDot", g>>,
                             <<"startTick", g>>, <<"startDeadline", g>>>>)
    /\ seen' = [seen EXCEPT !.crossed = @ \/ Stopping]
    /\ UNCHANGED <<sys, test, gun, photo, result, resume, link>>

\* seq::fire() with test = true: its two critical sections.
FireBegin(p, g, opens) ==
    IF gun[g] = "shut" /\ TestArmed
      THEN gun' = [gun EXCEPT ![g] = "arming"] /\ Made(p, <<<<opens, g>>>>)
      ELSE UNCHANGED gun /\ Made(p, <<>>)

Fire ==
    /\ \/ At("command", "fireLine") /\ FireBegin("command", GunOf("command"), "lineOpens")
       \/ At("command", "fireDot")  /\ FireBegin("command", GunOf("command"), "dotOpens")
    /\ UNCHANGED <<sys, testMode, test, photo, result, resume, link, seen>>

\* A line test counts as running once its gun is open.
FireOpens(p) ==
    /\ At(p, "lineOpens") \/ At(p, "dotOpens")
    /\ LET g      == GunOf(p)
           opened == gun[g] = "arming" /\ TestArmed
       IN  /\ gun' = [gun EXCEPT ![g] = IF opened THEN "test"
                                        ELSE IF @ = "arming" THEN "shut" ELSE @]
           /\ Made(p, IF opened /\ At(p, "lineOpens")
                        THEN <<<<"lineRuns", g>>, <<"startDeadline", g>>>> ELSE <<>>)
    /\ UNCHANGED <<sys, testMode, test, photo, result, resume, link, seen>>

Runs ==
    /\ At("command", "lineRuns") \/ At("command", "dotsRun")
    /\ test' = [test EXCEPT ![GunOf("command")].mode = Kind[GunOf("command")]]
    /\ Made("command", <<>>)
    /\ UNCHANGED <<sys, testMode, gun, photo, result, resume, link, seen>>

StartTimer ==
    /\ At("command", "startTick") \/ At("command", "startDeadline")
    /\ test' = IF At("command", "startTick")
                 THEN [test EXCEPT ![GunOf("command")].tick = TRUE]
                 ELSE [test EXCEPT ![GunOf("command")].deadline = TRUE]
    /\ Made("command", <<>>)
    /\ UNCHANGED <<sys, testMode, gun, photo, result, resume, link, seen>>

\* esp_timer runs its callbacks one at a time, above every task of its core.
Deadline(g) ==
    /\ Free("timer") /\ test[g].deadline
    /\ IF test[g].mode = "None"
         THEN test' = [test EXCEPT ![g].deadline = FALSE] /\ UNCHANGED gun
         ELSE /\ test' = [test EXCEPT ![g] = [mode |-> "None", tick |-> FALSE, deadline |-> FALSE]]
              /\ gun' = [gun EXCEPT ![g] = "shut"]
    /\ UNCHANGED <<sys, testMode, photo, result, resume, link, todo, seen>>

TickDot(g) ==
    /\ Free("timer") /\ test[g].tick /\ test[g].mode = "Dots"
    /\ gun[g] = "shut" /\ TestArmed
    /\ gun' = [gun EXCEPT ![g] = "arming"]
    /\ Begin("timer", <<<<"dotOpens", g>>>>)
    /\ UNCHANGED <<sys, testMode, test, photo, result, resume, link, seen>>

\* --- stops that are not commands --------------------------------------------
\* 100 ms: wdTask reads the clock, unless it is late with its last pass.
Tick ==
    /\ Free("watchdog") \/ link.lag = 0
    /\ SlowCommands \/ Free("command") \/ link.quiet < Timeout
    /\ link' = [link EXCEPT !.quiet = Min({@ + 1, Timeout + 2}),
                            !.lag = IF Free("watchdog") THEN 0 ELSE 1]
    /\ todo' = IF Free("watchdog")
                 THEN [todo EXCEPT !["watchdog"] = <<Call("readLast"), Call("readArmed")>>]
                 ELSE todo
    /\ seen' = [seen EXCEPT !.fed = @ /\ ~Free("watchdog"), !.alone =
                  IF sys.active /\ link.quiet > Timeout THEN Min({@ + 1, 3}) ELSE 0]
    /\ UNCHANGED <<sys, testMode, test, gun, photo, result, resume>>

Overdue_OnePassEarly == link.quiet < link.lag \/ link.quiet - link.lag >= Timeout

\* Unsigned: a command later than the clock reading is a very long silence.
Overdue == link.quiet < link.lag \/ link.quiet - link.lag > Timeout

ReadLast ==
    /\ At("watchdog", "readLast")
    /\ link' = [link EXCEPT !.over = Overdue]
    /\ Made("watchdog", <<>>)
    /\ UNCHANGED <<sys, testMode, test, gun, photo, result, resume, seen>>

\* sys.active || testrun::anyRunning()
Watched == sys.active \/ \E g \in Guns : test[g].mode # "None"

ReadArmed_KeepsLatch ==
    /\ At("watchdog", "readArmed")
    /\ LET trips == Watched /\ link.over /\ ~link.tripped
       IN  /\ link' = [link EXCEPT !.tripped = @ \/ (link.over /\ Watched)]
           /\ Made("watchdog", IF trips THEN StopAll ELSE <<>>)
           /\ seen' = [seen EXCEPT !.crossed = @ \/ (trips /\ Opening)]
    /\ UNCHANGED <<sys, testMode, test, gun, photo, result, resume>>

ReadArmed ==
    /\ At("watchdog", "readArmed")
    /\ LET trips == Watched /\ link.over /\ ~link.tripped
       IN  /\ link' = [link EXCEPT !.tripped = link.over /\ (@ \/ Watched)]
           /\ Made("watchdog", IF trips THEN StopAll ELSE <<>>)
           /\ seen' = [seen EXCEPT !.crossed = @ \/ (trips /\ Opening)]
    /\ UNCHANGED <<sys, testMode, test, gun, photo, result, resume>>

FaultIsr ==
    /\ Begin("fault", <<Call("abortAll"), Call("setFault"), Call("clearActive")>>)
    /\ Untouched

SetFault ==
    /\ At("fault", "setFault")
    /\ sys' = [sys EXCEPT !.fault = TRUE]
    /\ Made("fault", <<>>)
    /\ UNCHANGED <<testMode, test, gun, photo, result, resume, link, seen>>

\* stopAllLocked() of the sequencer, after a streak of trips.
SafetyStop ==
    /\ sys.active \/ testMode
    /\ sys' = [sys EXCEPT !.active = FALSE] /\ testMode' = FALSE
    /\ gun' = [g \in Guns |-> "shut"]
    /\ seen' = [seen EXCEPT !.halted = ~Committed, !.alone = 0]
    /\ UNCHANGED <<test, photo, result, resume, link, todo>>

\* --- calibration -------------------------------------------------------------
\* The photocell interrupt reads s_calib first and stores it later.
LeadingEdge ==
    /\ photo = "Leading" /\ Begin("photocell", <<Call("leadSeen")>>)
    /\ Untouched

FallingEdge ==
    /\ photo = "Trailing" /\ Begin("photocell", <<Call("sheetLeft"), Call("sheetDone")>>)
    /\ result' = [result EXCEPT !["edge"] = "fresh"]
    /\ UNCHANGED <<sys, testMode, test, gun, photo, resume, link, seen>>

PhotocellStores ==
    /\ \/ At("photocell", "leadSeen")  /\ photo' = "Trailing" /\ UNCHANGED result
       \/ At("photocell", "sheetLeft") /\ photo' = "Idle" /\ UNCHANGED result
       \/ At("photocell", "sheetDone") /\ result' = Moved("edge", "done") /\ UNCHANGED photo
    /\ Made("photocell", <<>>)
    /\ UNCHANGED <<sys, testMode, test, gun, resume, link, seen>>

\* The pattern task: s_calibDone, finishCalibration(), postCalibration().
HandOver ==
    /\ result["done"] # "none" /\ result' = Moved("done", "pending")
    /\ UNCHANGED <<sys, testMode, test, gun, photo, resume, link, todo, seen>>

\* livesync::service()
TakePending ==
    /\ result["pending"] # "none" /\ result' = Moved("pending", "taken")
    /\ Begin("service", <<Call("lock"), Call("apply")>>)
    /\ UNCHANGED <<sys, testMode, test, gun, photo, resume, link, seen>>

Apply ==
    /\ At("service", "apply")
    /\ result' = [result EXCEPT !["taken"] = "none"]
    /\ seen' = [seen EXCEPT !.stale = @ \/ (sys.calibrating /\ result["taken"] = "stale")]
    /\ IF sys.calibrating THEN Leave("service", TRUE) ELSE Made("service", <<>>) /\ UNCHANGED sys
    /\ UNCHANGED <<testMode, test, gun, photo, resume, link>>

\* --- the world ----------------------------------------------------------------
SheetFires(g) ==
    /\ gun[g] = "shut" /\ SystemArmed
    /\ gun' = [gun EXCEPT ![g] = "sheet"]
    /\ UNCHANGED <<sys, testMode, test, photo, result, resume, link, todo, seen>>

GunCloses(g) ==
    /\ gun[g] \in {"test", "sheet"}
    /\ gun' = [gun EXCEPT ![g] = "shut"]
    /\ UNCHANGED <<sys, testMode, test, photo, result, resume, link, todo, seen>>

CommandStep ==
    \/ SeeFault \/ ClearFault \/ Cancel \/ Arm \/ Calibrate \/ Forget \/ Lead
    \/ CheckTest \/ TryTest \/ Fire \/ Runs \/ StartTimer

SharedStep(p) ==
    \/ Lock(p) \/ TakeMode(p) \/ StopTimer(p) \/ Abort(p) \/ TestModeOff(p)
    \/ ClearActive(p) \/ SetActive(p) \/ FireOpens(p)

\* A step of a handler of p that has begun.
HandlerOf(p) ==
    \/ SharedStep(p)
    \/ p = "command"   /\ CommandStep
    \/ p = "watchdog"  /\ (ReadLast \/ ReadArmed)
    \/ p = "fault"     /\ SetFault
    \/ p = "photocell" /\ PhotocellStores
    \/ p = "service"   /\ Apply

Handler == \E p \in Processes : HandlerOf(p)

\* What comes from outside, and the hand-over of a result.
Inputs == DOMAIN Command \cup {"test", "ping", "watchdog", "fault", "safety", "sheets"}

Input(i) ==
    \/ i \in DOMAIN Command /\ Receive(i)
    \/ i = "test"     /\ \E g \in Guns : ReceiveTest(g) \/ Deadline(g) \/ TickDot(g)
    \/ i = "ping"     /\ Ping
    \/ i = "watchdog" /\ Tick
    \/ i = "fault"    /\ FaultIsr
    \/ i = "safety"   /\ SafetyStop
    \/ i = "sheets"   /\ (LeadingEdge \/ FallingEdge \/ \E g \in Guns : SheetFires(g))

World == HandOver \/ TakePending \/ \E g \in Guns : GunCloses(g)

Next == Handler \/ World \/ \E i \in Inputs : Input(i)

Spec == Init /\ [][Next]_vars

----------------------------------------------------------------------------
\* Production, calibration and gun tests exclude each other, whatever the order
\* of commands, late results and stops (onSetActive, onCalibArm, handleTestOpen); no
\* test drop is open in production, except one that the watchdog is about to close
\* or crossed while it was opened.
ModesExclude ==
    /\ ~(sys.active /\ sys.calibrating)
    /\ \A g \in Guns :
          /\ sys.active \/ sys.calibrating => test[g].mode = "None"
          /\ sys.active /\ gun[g] = "test" => seen.crossed \/ Stopping

\* A running test has its deadline (startOne), unless the watchdog was stopping
\* the test before it while it was opened.
TestHasDeadline ==
    \A g \in Guns :
        test[g].mode # "None" /\ ~test[g].deadline =>
            seen.crossed \/ Opening

\* After a stop by watchdog, fault or safety stop the machine runs only by a start
\* received later, unless the activation was committed when the stop came.
StopsHold == seen.halted => ~sys.active

\* Out of contact, the machine is stopped within two passes of the watchdog (wdTask),
\* if no command waits longer than TIMEOUT_MS for the edit lock (SlowCommands): a
\* start that does finds the watchdog tripped and not reset.
NeverRunsUnattended == seen.alone <= 2

\* The watchdog trips only after TIMEOUT_MS of silence, or on a command that came
\* while it was between reading the clock and reading the time of the command.
TripsOnSilence ==
    [][~link.tripped /\ link'.tripped => link.quiet > Timeout \/ seen.fed]_vars

\* A sheet of production is taken for one of calibration only after a result of
\* an earlier arming was applied to a later one.
NoSheetSwallowed == sys.active /\ photo = "Leading" => seen.stale

\* Calibration never waits for nothing: while it lasts, the photocell waits for an
\* edge, a result is on its way, or a command is about to arm (onCalibArm,
\* onPhotocellEdge, finishCalibration, service()).
CalibrationGoesOn ==
    sys.calibrating =>
        \/ photo # "Idle" \/ \E pl \in Places : result[pl] # "none"
        \/ Coming("command", {"lead"})

\* "Arming again restarts the measurement with the new length"
\* (docs/project_status.md): no result of an earlier arming is applied.  It does not
\* hold: a result may be on its way when the measurement is armed again.
AppliedIsCurrent == ~seen.stale
=============================================================================
