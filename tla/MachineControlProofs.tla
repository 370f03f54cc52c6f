------------------------ MODULE MachineControlProofs ------------------------
(***************************************************************************)
(* Proofs about who lets the guns fire (module MachineControl), for any    *)
(* number of guns and of handlers in progress: the modes exclude each      *)
(* other, a stop holds, a running test has its deadline, calibration never *)
(* waits for nothing, the watchdog trips on silence only, and no machine   *)
(* runs on without contact.                                                *)
(*                                                                         *)
(* The argument is about the calls each process has left.  They come in    *)
(* the order of the handlers (Follow), and some never come without others  *)
(* (Pairs); what is true between two calls is stated of the calls left.    *)
(***************************************************************************)
EXTENDS MachineControl, TLAPS

GunOps == {"takeMode", "stopTick", "stopDeadline", "abort", "check", "tryTest", "fireLine",
           "lineOpens", "lineRuns", "dotsRun", "fireDot", "dotOpens", "startTick", "startDeadline"}
Stops  == {"takeMode", "stopTick", "stopDeadline", "abort"}

\* The calls a process makes, each with its gun.
OpsOf(p) ==
    CASE p = "command"   -> Ops \ {"apply", "setFault", "readLast", "readArmed",
                                   "leadSeen", "sheetLeft", "sheetDone"}
      [] p = "service"   -> Stops \cup {"lock", "apply", "testModeOff", "setActive"}
      [] p = "watchdog"  -> Stops \cup {"readLast", "readArmed", "testModeOff", "abortAll",
                                        "clearActive"}
      [] p = "fault"     -> {"abortAll", "setFault", "clearActive"}
      [] p = "timer"     -> {"dotOpens"}
      [] p = "photocell" -> {"leadSeen", "sheetLeft", "sheetDone"}

Calls    == (GunOps \X Guns) \cup ((Ops \ GunOps) \X {0})
Elems(s) == {s[i] : i \in DOMAIN s}
Left(p)  == Elems(todo[p])
Rest(p)  == Elems(Tail(todo[p]))

\* What may come after a call.
Follow(o) ==
    CASE o = "lock"        -> {"takeMode", "cancel", "restore", "seeFault", "arm", "check", "apply",
                               "testModeOff", "setActive", "abortAll", "clearActive"}
      [] o = "cancel"      -> Stops \cup {"seeFault", "testModeOff", "setActive", "abortAll",
                                          "clearActive"}
      [] o \in {"seeFault", "clearFault"} -> Stops \cup {"testModeOff", "setActive"}
      [] o \in Stops       -> Stops \cup {"testModeOff", "setActive", "abortAll", "clearActive",
                                          "arm", "calibrate", "forget", "lead", "fireLine",
                                          "dotsRun", "fireDot", "startTick", "startDeadline"}
      [] o = "testModeOff" -> {"setActive", "abortAll", "clearActive", "arm", "calibrate",
                               "forget", "lead"}
      [] o = "abortAll"    -> {"setFault", "clearActive", "calibrate", "forget", "lead"}
      [] o = "setFault"    -> {"clearActive"}
      [] o = "clearActive" -> {"calibrate", "forget", "lead"}
      [] o = "calibrate"   -> {"forget", "lead"}
      [] o = "forget"      -> {"lead"}
      [] o = "dotsRun"     -> {"fireDot", "startTick", "startDeadline"}
      [] o \in {"fireDot", "dotOpens"}   -> {"startTick", "startDeadline"}
      [] o \in {"lineRuns", "startTick"} -> {"startDeadline"}
      [] o = "readLast"    -> {"readArmed"}
      [] o = "sheetLeft"   -> {"sheetDone"}
      [] OTHER             -> {}

Ordered(s) == \A i, j \in DOMAIN s : i < j => s[j][1] \in Follow(s[i][1])

TodoOK ==
    /\ todo \in [Processes -> Seq(Calls)]
    /\ \A p \in Processes : Ordered(todo[p]) /\ \A c \in Left(p) : c[1] \in OpsOf(p)

\* Calls that never come without others.
CommandPairs ==
    /\ Call("seeFault") \in Left("command") \/ Call("clearFault") \in Left("command")
          => Call("setActive") \in Left("command")
    /\ Call("calibrate") \in Left("command") \/ Call("forget") \in Left("command")
          => Call("lead") \in Left("command")
    /\ \A g \in Guns : \A o \in {"dotsRun", "fireDot", "dotOpens", "startTick", "lineRuns"} :
          <<o, g>> \in Left("command") => <<"startDeadline", g>> \in Left("command")
    /\ \A g \in Guns, c \in Left("command") :
          c[1] \in Stops /\ <<"startDeadline", g>> \in Left("command")
             => <<"dotsRun", g>> \in Left("command")

KindPairs(p) ==
    \A g \in Guns :
        /\ <<"lineOpens", g>> \in Left(p) \/ <<"fireLine", g>> \in Left(p)
              \/ <<"lineRuns", g>> \in Left(p) => Kind[g] = "Line"
        /\ <<"dotOpens", g>> \in Left(p) \/ <<"fireDot", g>> \in Left(p)
              \/ <<"dotsRun", g>> \in Left(p) => Kind[g] = "Dots"

WatchdogPairs ==
    \A c \in Left("watchdog") : c[1] \in Stops => Call("abortAll") \in Left("watchdog")

SensorPairs == Call("sheetLeft") \in Left("photocell") => Call("sheetDone") \in Left("photocell")

ServicePairs ==
    Call("lock") \in Left("service") => Left("service") \subseteq {Call("lock"), Call("apply")}

Pairs ==
    /\ CommandPairs /\ KindPairs("command") /\ KindPairs("timer")
    /\ WatchdogPairs /\ SensorPairs /\ ServicePairs

Holding(p) == Left(p) # {} /\ Call("lock") \notin Left(p)
LockInv    == ~(Holding("command") /\ Holding("service"))

ShapeInv == TodoOK /\ Pairs /\ LockInv

\* The calls of a gun test that is being opened.
TestOps == {"tryTest", "fireLine", "lineOpens", "lineRuns", "dotsRun", "fireDot", "dotOpens",
            "startTick", "startDeadline"}

ModeInv ==
    /\ ~(sys.active /\ sys.calibrating)
    /\ \A p \in Editors :
          Call("setActive") \in Left(p) /\ Call("cancel") \notin Left(p) => ~sys.calibrating
    /\ Call("calibrate") \in Left("command") /\ Call("clearActive") \notin Left("command")
          => ~sys.active
    /\ Call("lead") \in Left("command") /\ Call("calibrate") \notin Left("command")
          => sys.calibrating
    /\ \A c \in Left("command") : c[1] \in TestOps => ~sys.active /\ ~sys.calibrating
    /\ \A g \in Guns :
          /\ sys.active \/ sys.calibrating => test[g].mode = "None"
          /\ \A p \in Editors, o \in {"setActive", "arm", "calibrate"} :
                Call(o) \in Left(p) /\ test[g].mode # "None" => <<"takeMode", g>> \in Left(p)

\* A stop that came in time: nothing is left that would start the machine again.
HaltInv ==
    seen.halted =>
        /\ ~sys.active
        /\ \A p \in Editors : Call("setActive") \notin Left(p)
        /\ sys.calibrating /\ resume => sys.fault
        /\ Call("calibrate") \in Left("command") /\ resume => sys.fault

\* The processes that take the mode of a test.
Stoppers == Editors \cup {"watchdog"}

\* Gun tests, as long as the watchdog has not crossed one that was being opened: no
\* test is opened while the watchdog stops the guns,
OpenOf(g) ==
    Call("abortAll") \in Left("watchdog") =>
        \A o \in {"fireLine", "lineOpens", "startDeadline"} : <<o, g>> \notin Left("command")

\* a test that runs has its deadline or is about to get it, and none is left behind,
DeadlineOf(g) ==
    /\ \A p \in Stoppers : <<"stopDeadline", g>> \in Left(p) => test[g].mode = "None"
    /\ test[g].deadline =>
          test[g].mode # "None" \/ \E p \in Stoppers : <<"stopDeadline", g>> \in Left(p)
    /\ test[g].mode # "None" /\ ~test[g].deadline => <<"startDeadline", g>> \in Left("command")
    /\ test[g].deadline /\ (\E o \in {"startDeadline", "fireLine", "lineOpens"} :
                               <<o, g>> \in Left("command"))
          => <<"takeMode", g>> \in Left("command") \/ <<"stopDeadline", g>> \in Left("command")
    /\ <<"startDeadline", g>> \in Left("command") =>
          \/ test[g].mode # "None"
          \/ <<"dotsRun", g>> \in Left("command") \/ <<"lineRuns", g>> \in Left("command")

\* and whoever took the mode of a test closes its gun.
ClosedOf(g) ==
    /\ gun[g] \in {"arming", "test"} =>
          \/ test[g].mode # "None"
          \/ \E p \in Stoppers : <<"abort", g>> \in Left(p)
          \/ gun[g] = "arming" /\ <<"lineOpens", g>> \in Left("command")
          \/ <<"lineRuns", g>> \in Left("command")
    /\ sys.active /\ gun[g] = "test" => Call("abortAll") \in Left("watchdog")

TestOf(g) == OpenOf(g) /\ DeadlineOf(g) /\ ClosedOf(g)
TestInv   == ~seen.crossed => \A g \in Guns : TestOf(g)

\* Calibration results.
CalibInv ==
    /\ sys.calibrating =>
          \/ photo # "Idle" \/ \E pl \in Places : result[pl] # "none"
          \/ Call("lead") \in Left("command")
    /\ Call("sheetDone") \in Left("photocell") => result["edge"] # "none"
    /\ Call("apply") \in Left("service") => result["taken"] # "none"
    /\ photo = "Leading" => \A pl \in Places : result[pl] # "fresh"
    /\ photo = "Leading" /\ ~sys.calibrating => seen.stale

\* What the watchdog read of the clock and of the last command.
QuietInv ==
    /\ link.quiet = 0 /\ link.lag = 1 => seen.fed
    /\ Call("readArmed") \in Left("watchdog") /\ Call("readLast") \notin Left("watchdog") /\ link.over
          => link.quiet > Timeout \/ seen.fed

\* A test that runs is one of the pattern of its gun.
KindInv == \A g \in Guns : test[g].mode \in {"None", Kind[g]}

MachineInv ==
    TypeOK /\ ShapeInv /\ ModeInv /\ HaltInv /\ KindInv /\ TestInv /\ CalibInv /\ QuietInv

----------------------------------------------------------------------------
(* Lists of calls.                                                         *)

LEMMA HeadAndTail ==
    ASSUME NEW S, NEW s \in Seq(S), s # <<>>
    PROVE  /\ Elems(s) = {Head(s)} \cup Elems(Tail(s)) /\ Head(s) \in S /\ Tail(s) \in Seq(S)
           /\ Ordered(s) => /\ Ordered(Tail(s))
                            /\ \A c \in Elems(Tail(s)) : c[1] \in Follow(Head(s)[1])
<1> DEFINE t == Tail(s)
           n == Len(s)
<1>1. /\ Head(s) = s[1] /\ Head(s) \in S /\ n \in Nat /\ n >= 1 /\ DOMAIN s = 1 .. n
      /\ t \in Seq(S) /\ Len(t) = n - 1 /\ DOMAIN t = 1 .. n - 1
      /\ \A i \in 1 .. n - 1 : t[i] = s[i + 1]
  OBVIOUS
<1> HIDE DEF t, n
<1>2. /\ \A i \in DOMAIN t : i + 1 \in DOMAIN s /\ t[i] = s[i + 1] /\ 1 < i + 1
      /\ 1 \in DOMAIN s
  BY <1>1
<1>3. \A i \in DOMAIN s : i = 1 \/ (i - 1 \in DOMAIN t /\ t[i - 1] = s[i])
  <2> SUFFICES ASSUME NEW i \in DOMAIN s, i # 1
               PROVE  i - 1 \in DOMAIN t /\ t[i - 1] = s[i]
    OBVIOUS
  <2>1. i - 1 \in 1 .. n - 1 /\ (i - 1) + 1 = i
    BY <1>1
  <2>2. QED
    BY <1>1, <2>1
<1>4. Elems(s) = {Head(s)} \cup Elems(t)
  BY <1>1, <1>2, <1>3 DEF Elems
<1>5. ASSUME Ordered(s)
      PROVE  Ordered(t) /\ \A c \in Elems(t) : c[1] \in Follow(Head(s)[1])
  <2>1. \A i, j \in DOMAIN t : i < j => i + 1 < j + 1
    BY <1>1
  <2>2. Ordered(t)
    BY <1>2, <1>5, <2>1 DEF Ordered
  <2>3. ASSUME NEW i \in DOMAIN t PROVE t[i][1] \in Follow(s[1][1])
    BY <1>2, <1>5 DEF Ordered
  <2>4. QED
    BY <1>1, <2>2, <2>3 DEF Elems
<1>6. QED
  BY <1>1, <1>4, <1>5 DEF t

LEMMA JoinLists ==
    ASSUME NEW S, NEW a \in Seq(S), NEW b \in Seq(S)
    PROVE  /\ a \o b \in Seq(S) /\ Elems(a \o b) = Elems(a) \cup Elems(b)
           /\ Ordered(a) /\ Ordered(b)
              /\ (\A c \in Elems(a), d \in Elems(b) : d[1] \in Follow(c[1]))
              => Ordered(a \o b)
<1> DEFINE m == Len(a)
           n == Len(b)
           s == a \o b
<1>1. /\ m \in Nat /\ n \in Nat /\ s \in Seq(S) /\ DOMAIN a = 1 .. m /\ DOMAIN b = 1 .. n
      /\ DOMAIN s = 1 .. m + n
      /\ \A i \in 1 .. m + n : s[i] = IF i <= m THEN a[i] ELSE b[i - m]
  OBVIOUS
<1> HIDE DEF m, n, s
<1>2. \A i \in 1 .. m : i \in 1 .. m + n /\ s[i] = a[i]
  BY <1>1
<1>3. \A i \in 1 .. n : i + m \in 1 .. m + n /\ s[i + m] = b[i]
  <2> SUFFICES ASSUME NEW i \in 1 .. n PROVE i + m \in 1 .. m + n /\ s[i + m] = b[i]
    OBVIOUS
  <2>1. i + m \in 1 .. m + n /\ ~(i + m <= m) /\ (i + m) - m = i
    BY <1>1
  <2>2. QED
    BY <1>1, <2>1
<1>4. \A i \in 1 .. m + n : (i \in 1 .. m /\ s[i] = a[i]) \/ (i - m \in 1 .. n /\ s[i] = b[i - m])
  BY <1>1
<1>5. Elems(s) = Elems(a) \cup Elems(b)
  <2>1. ASSUME NEW x \in Elems(s) PROVE x \in Elems(a) \cup Elems(b)
    BY <1>1, <1>4 DEF Elems
  <2>2. ASSUME NEW x \in Elems(a) PROVE x \in Elems(s)
    BY <1>1, <1>2 DEF Elems
  <2>3. ASSUME NEW x \in Elems(b) PROVE x \in Elems(s)
    BY <1>1, <1>3 DEF Elems
  <2>4. QED
    BY <2>1, <2>2, <2>3
<1>6. ASSUME Ordered(a), Ordered(b), \A c \in Elems(a), d \in Elems(b) : d[1] \in Follow(c[1]),
             NEW i \in 1 .. m + n, NEW j \in 1 .. m + n, i < j
      PROVE  s[j][1] \in Follow(s[i][1])
  <2>1. CASE i <= m /\ j <= m
    <3>1. i \in 1 .. m /\ j \in 1 .. m /\ s[i] = a[i] /\ s[j] = a[j]
      BY <1>1, <2>1
    <3>2. QED
      BY <1>1, <1>6, <3>1 DEF Ordered
  <2>2. CASE i <= m /\ ~(j <= m)
    <3>1. i \in 1 .. m /\ j - m \in 1 .. n /\ s[i] = a[i] /\ s[j] = b[j - m]
      BY <1>1, <2>2
    <3>2. a[i] \in Elems(a) /\ b[j - m] \in Elems(b)
      BY <1>1, <3>1 DEF Elems
    <3>3. QED
      BY <1>6, <3>1, <3>2
  <2>3. CASE ~(i <= m) /\ ~(j <= m)
    <3>1. /\ i - m \in 1 .. n /\ j - m \in 1 .. n /\ i - m < j - m
          /\ s[i] = b[i - m] /\ s[j] = b[j - m]
      BY <1>1, <1>6, <2>3
    <3>2. QED
      BY <1>1, <1>6, <3>1 DEF Ordered
  <2>4. QED
    BY <1>1, <1>6, <2>1, <2>2, <2>3
<1>7. QED
  BY <1>1, <1>5, <1>6 DEF s, Ordered

LEMMA NoCalls == <<>> \in Seq(Calls) /\ Elems(<<>>) = {} /\ Ordered(<<>>)
BY DEF Elems, Ordered

LEMMA OneCall ==
    ASSUME NEW S, NEW a \in S
    PROVE  <<a>> \in Seq(S) /\ Elems(<<a>>) = {a} /\ Ordered(<<a>>)
BY DEF Elems, Ordered

LEMMA TwoCalls ==
    ASSUME NEW S, NEW a \in S, NEW b \in S
    PROVE  /\ <<a, b>> \in Seq(S) /\ Elems(<<a, b>>) = {a, b}
           /\ b[1] \in Follow(a[1]) => Ordered(<<a, b>>)
<1>1. /\ <<a, b>> \in Seq(S) /\ DOMAIN <<a, b>> = {1, 2}
      /\ <<a, b>>[1] = a /\ <<a, b>>[2] = b
  OBVIOUS
<1>2. QED
  BY <1>1 DEF Elems, Ordered

LEMMA ThreeCalls ==
    ASSUME NEW S, NEW a \in S, NEW b \in S, NEW c \in S
    PROVE  /\ <<a, b, c>> \in Seq(S) /\ Elems(<<a, b, c>>) = {a, b, c}
           /\ b[1] \in Follow(a[1]) /\ c[1] \in Follow(a[1]) /\ c[1] \in Follow(b[1])
              => Ordered(<<a, b, c>>)
<1>1. /\ <<a, b, c>> \in Seq(S) /\ DOMAIN <<a, b, c>> = {1, 2, 3}
      /\ <<a, b, c>>[1] = a /\ <<a, b, c>>[2] = b /\ <<a, b, c>>[3] = c
  OBVIOUS
<1>2. QED
  BY <1>1 DEF Elems, Ordered

\* A call for each gun.
LEMMA GunCalls ==
    ASSUME NEW o \in Stops
    PROVE  /\ ForAllGuns(o) \in Seq(Calls) /\ Elems(ForAllGuns(o)) = {<<o, g>> : g \in Guns}
           /\ Ordered(ForAllGuns(o))
<1>1. NumGuns \in Nat /\ Guns = 1 .. NumGuns
  BY MachineAssumption DEF Guns
<1>2. \A g \in Guns : <<o, g>> \in Calls
  BY DEF Calls, GunOps, Stops
<1>3. ForAllGuns(o) \in Seq(Calls) /\ DOMAIN ForAllGuns(o) = Guns
  BY <1>1, <1>2 DEF ForAllGuns
<1>4. Elems(ForAllGuns(o)) = {<<o, g>> : g \in Guns}
  BY <1>3 DEF Elems, ForAllGuns
<1>5. o \in Follow(o)
  BY DEF Follow, Stops
<1>6. Ordered(ForAllGuns(o))
  BY <1>3, <1>5 DEF Ordered, ForAllGuns
<1>7. QED
  BY <1>3, <1>4, <1>6

LEMMA AddCall ==
    ASSUME NEW S, NEW s \in Seq(S), NEW x \in S
    PROVE  /\ Append(s, x) \in Seq(S) /\ Elems(Append(s, x)) = Elems(s) \cup {x}
           /\ Ordered(s) /\ (\A c \in Elems(s) : x[1] \in Follow(c[1])) => Ordered(Append(s, x))
<1> DEFINE t == Append(s, x)
           n == Len(s)
<1>1. /\ n \in Nat /\ DOMAIN s = 1 .. n /\ t \in Seq(S) /\ DOMAIN t = 1 .. n + 1
      /\ t[n + 1] = x /\ \A i \in 1 .. n : t[i] = s[i]
  OBVIOUS
<1> HIDE DEF t, n
<1>2. \A i \in 1 .. n + 1 : i \in 1 .. n \/ i = n + 1
  BY <1>1
<1>3. /\ \A i \in 1 .. n : i \in 1 .. n + 1
      /\ n + 1 \in 1 .. n + 1
  BY <1>1
<1>4. Elems(t) = Elems(s) \cup {x}
  BY <1>1, <1>2, <1>3 DEF Elems
<1>5. ASSUME Ordered(s), \A c \in Elems(s) : x[1] \in Follow(c[1]),
             NEW i \in 1 .. n + 1, NEW j \in 1 .. n + 1, i < j
      PROVE  t[j][1] \in Follow(t[i][1])
  <2>1. i \in 1 .. n /\ t[i] = s[i] /\ s[i] \in Elems(s)
    BY <1>1, <1>5 DEF Elems
  <2>2. CASE j = n + 1
    BY <1>1, <1>5, <2>1, <2>2
  <2>3. CASE j \in 1 .. n
    BY <1>1, <1>5, <2>1, <2>3 DEF Ordered
  <2>4. QED
    BY <1>2, <2>2, <2>3
<1>6. QED
  BY <1>1, <1>4, <1>5 DEF t, Ordered

LEMMA CallTypes ==
    /\ \A o \in GunOps, g \in Guns : <<o, g>> \in Calls
    /\ \A o \in Ops \ GunOps : Call(o) \in Calls
BY DEF Calls, Call

TakeAll == {<<"takeMode", g>> : g \in Guns}

LEMMA StopTestsList ==
    /\ StopTests \in Seq(Calls) /\ Elems(StopTests) = TakeAll \cup {Call("testModeOff")}
    /\ Ordered(StopTests)
<1>1. /\ ForAllGuns("takeMode") \in Seq(Calls) /\ Elems(ForAllGuns("takeMode")) = TakeAll
      /\ Ordered(ForAllGuns("takeMode"))
  BY GunCalls DEF Stops, TakeAll
<1>2. Call("testModeOff") \in Calls
  BY CallTypes DEF Ops, GunOps
<1>3. \A c \in TakeAll : Call("testModeOff")[1] \in Follow(c[1])
  BY DEF TakeAll, Call, Follow, Stops
<1>4. QED
  BY <1>1, <1>2, <1>3, AddCall DEF StopTests

LEMMA RestartList ==
    /\ Restart \in Seq(Calls)
    /\ Elems(Restart) = TakeAll \cup {Call("testModeOff"), Call("setActive")}
    /\ Ordered(Restart)
<1>1. Call("setActive") \in Calls
  BY CallTypes DEF Ops, GunOps
<1>2. \A c \in TakeAll \cup {Call("testModeOff")} : Call("setActive")[1] \in Follow(c[1])
  BY DEF TakeAll, Call, Follow, Stops
<1>3. QED
  BY <1>1, <1>2, StopTestsList, AddCall DEF Restart

LEMMA StopAllList ==
    /\ StopAll \in Seq(Calls)
    /\ Elems(StopAll) = TakeAll \cup {Call("testModeOff"), Call("abortAll"), Call("clearActive")}
    /\ Ordered(StopAll)
<1> DEFINE a == Call("abortAll")
           b == Call("clearActive")
<1>1. a \in Calls /\ b \in Calls
  BY CallTypes DEF Ops, GunOps
<1>2. b[1] \in Follow(a[1])
  BY DEF Call, Follow, Stops
<1>3. \A c \in TakeAll \cup {Call("testModeOff")} : \A d \in {a, b} : d[1] \in Follow(c[1])
  BY DEF TakeAll, Call, Follow, Stops
<1> HIDE DEF a, b
<1>4. <<a, b>> \in Seq(Calls) /\ Elems(<<a, b>>) = {a, b} /\ Ordered(<<a, b>>)
  BY <1>1, <1>2, TwoCalls
<1>5. StopAll = StopTests \o <<a, b>>
  BY DEF StopAll, a, b
<1>6. /\ StopAll \in Seq(Calls)
      /\ Elems(StopAll) = (TakeAll \cup {Call("testModeOff")}) \cup {a, b}
      /\ Ordered(StopAll)
  <2> DEFINE s == StopTests
             t == <<a, b>>
             u == TakeAll \cup {Call("testModeOff")}
  <2>1. s \in Seq(Calls) /\ Elems(s) = u /\ Ordered(s)
    BY StopTestsList
  <2>2. t \in Seq(Calls) /\ Elems(t) = {a, b} /\ Ordered(t)
    BY <1>4
  <2> HIDE DEF s, t, u
  <2>3. \A c \in Elems(s), d \in Elems(t) : d[1] \in Follow(c[1])
    BY <1>3, <2>1, <2>2 DEF u
  <2>4. s \o t \in Seq(Calls) /\ Elems(s \o t) = u \cup {a, b} /\ Ordered(s \o t)
    BY <2>1, <2>2, <2>3, JoinLists
  <2>5. QED
    BY <1>5, <2>4 DEF s, t, u
<1>7. QED
  BY <1>6 DEF a, b

\* What the head of a list is.
LEMMA AtFacts ==
    ASSUME TodoOK, NEW p \in Processes, NEW o, At(p, o)
    PROVE  /\ ~Free(p) /\ Head(todo[p]) = <<o, GunOf(p)>> /\ o \in OpsOf(p) /\ o \in Ops
           /\ o \in GunOps => GunOf(p) \in Guns
           /\ o \notin GunOps => GunOf(p) = 0 /\ Head(todo[p]) = Call(o)
<1>1. todo[p] \in Seq(Calls) /\ todo[p] # <<>>
  BY DEF TodoOK, At, Free
<1>2. Head(todo[p]) \in Calls /\ Head(todo[p]) \in Left(p)
  BY <1>1, HeadAndTail DEF Left
<1>3. Head(todo[p])[1] = o /\ Head(todo[p])[2] = GunOf(p)
  BY DEF At, GunOf
<1>4. Head(todo[p]) = <<o, GunOf(p)>> /\ o \in Ops
  <2>1. GunOps \subseteq Ops
    BY DEF GunOps, Ops
  <2>2. QED
    BY <1>2, <1>3, <2>1 DEF Calls
<1>5. o \in OpsOf(p)
  BY <1>2, <1>3 DEF TodoOK
<1>6. /\ o \in GunOps => GunOf(p) \in Guns
      /\ o \notin GunOps => GunOf(p) = 0
  BY <1>2, <1>3 DEF Calls
<1>7. QED
  BY <1>1, <1>4, <1>5, <1>6 DEF At, Call

\* A call is made: what was left behind it is left still, after the calls it makes.
LEMMA MadeFacts ==
    ASSUME TodoOK, NEW p \in Processes, ~Free(p), NEW calls \in Seq(Calls), Made(p, calls),
           Ordered(calls),
           \A c \in Elems(calls) : c[1] \in OpsOf(p),
           \A c \in Elems(calls), d \in Rest(p) : d[1] \in Follow(c[1])
    PROVE  /\ Left(p) = {Head(todo[p])} \cup Rest(p)
           /\ Left(p)' = Elems(calls) \cup Rest(p)
           /\ \A q \in Processes : q # p => Left(q)' = Left(q)
           /\ TodoOK'
<1>1. /\ todo[p] \in Seq(Calls) /\ todo[p] # <<>> /\ Ordered(todo[p])
      /\ \A c \in Left(p) : c[1] \in OpsOf(p)
  BY DEF TodoOK, Free
<1>2. /\ Left(p) = {Head(todo[p])} \cup Rest(p) /\ Tail(todo[p]) \in Seq(Calls)
      /\ Ordered(Tail(todo[p]))
  BY <1>1, HeadAndTail DEF Left, Rest
<1> DEFINE s == calls \o Tail(todo[p])
<1>3. s \in Seq(Calls) /\ Elems(s) = Elems(calls) \cup Rest(p) /\ Ordered(s)
  BY <1>2, JoinLists DEF Rest
<1>4. todo' = [todo EXCEPT ![p] = s]
  BY DEF Made
<1> HIDE DEF s
<1>5. todo'[p] = s /\ \A q \in Processes : q # p => todo'[q] = todo[q]
  BY <1>4 DEF TodoOK
<1>6. Left(p)' = Elems(calls) \cup Rest(p) /\ \A q \in Processes : q # p => Left(q)' = Left(q)
  BY <1>3, <1>5 DEF Left
<1>7. todo' \in [Processes -> Seq(Calls)]
  BY <1>3, <1>4 DEF TodoOK
<1>8. \A q \in Processes : Ordered(todo'[q]) /\ \A c \in Left(q)' : c[1] \in OpsOf(q)
  BY <1>1, <1>2, <1>3, <1>5, <1>6 DEF TodoOK
<1>9. QED
  BY <1>2, <1>6, <1>7, <1>8 DEF TodoOK

\* What is left behind a call comes after it.
LEMMA RestFacts ==
    ASSUME TodoOK, NEW p \in Processes, ~Free(p)
    PROVE  /\ Left(p) = {Head(todo[p])} \cup Rest(p)
           /\ \A c \in Rest(p) : c[1] \in Follow(Head(todo[p])[1])
BY HeadAndTail DEF TodoOK, Free, Left, Rest

\* The call makes no other.
LEMMA PopFacts ==
    ASSUME TodoOK, NEW p \in Processes, NEW o, At(p, o), Made(p, <<>>)
    PROVE  /\ Left(p) = {<<o, GunOf(p)>>} \cup Left(p)'
           /\ \A c \in Left(p)' : c[1] \in Follow(o)
           /\ \A q \in Processes : q # p => Left(q)' = Left(q)
           /\ TodoOK'
<1>1. ~Free(p) /\ Head(todo[p]) = <<o, GunOf(p)>>
  BY AtFacts
<1>2. /\ Left(p) = {Head(todo[p])} \cup Rest(p) /\ Left(p)' = {} \cup Rest(p)
      /\ \A q \in Processes : q # p => Left(q)' = Left(q)
      /\ TodoOK'
  BY <1>1, MadeFacts, NoCalls
<1>3. \A c \in Rest(p) : c[1] \in Follow(o)
  BY <1>1, RestFacts
<1>4. QED
  BY <1>1, <1>2, <1>3

\* A handler of p begins.
LEMMA BeginFacts ==
    ASSUME TodoOK, NEW p \in Processes, NEW calls \in Seq(Calls), Begin(p, calls), Ordered(calls),
           \A c \in Elems(calls) : c[1] \in OpsOf(p)
    PROVE  /\ Left(p) = {} /\ Left(p)' = Elems(calls)
           /\ \A q \in Processes : q # p => Left(q)' = Left(q)
           /\ TodoOK'
<1>1. todo[p] = <<>> /\ todo' = [todo EXCEPT ![p] = calls]
  BY DEF Begin, Free
<1>2. todo'[p] = calls /\ \A q \in Processes : q # p => todo'[q] = todo[q]
  BY <1>1 DEF TodoOK
<1>3. Left(p) = {} /\ Left(p)' = Elems(calls) /\ \A q \in Processes : q # p => Left(q)' = Left(q)
  BY <1>1, <1>2, NoCalls DEF Left
<1>4. todo' \in [Processes -> Seq(Calls)]
  BY <1>1 DEF TodoOK
<1>5. \A q \in Processes : Ordered(todo'[q]) /\ \A c \in Left(q)' : c[1] \in OpsOf(q)
  BY <1>2, <1>3 DEF TodoOK
<1>6. QED
  BY <1>3, <1>4, <1>5 DEF TodoOK

----------------------------------------------------------------------------
(* Types.                                                                  *)

Systems == [active : BOOLEAN, fault : BOOLEAN, calibrating : BOOLEAN]
Tests   == [mode : {"None", "Line", "Dots"}, tick : BOOLEAN, deadline : BOOLEAN]
Links   == [quiet : 0 .. Timeout + 2, lag : 0 .. 1, over : BOOLEAN, tripped : BOOLEAN]
Ghosts  == [halted : BOOLEAN, stale : BOOLEAN, fed : BOOLEAN, crossed : BOOLEAN, alone : 0 .. 3]

DataOK ==
    /\ sys \in Systems /\ testMode \in BOOLEAN /\ test \in [Guns -> Tests]
    /\ gun \in [Guns -> {"shut", "arming", "test", "sheet"}]
    /\ photo \in {"Idle", "Leading", "Trailing"}
    /\ result \in [Places -> {"none", "fresh", "stale"}]
    /\ resume \in BOOLEAN /\ link \in Links /\ seen \in Ghosts

LEMMA TypesAgree == TodoOK => (TypeOK <=> DataOK)
<1> SUFFICES ASSUME TodoOK
             PROVE  \A p \in Processes : \A i \in DOMAIN todo[p] :
                       todo[p][i][1] \in Ops /\ todo[p][i][2] \in Guns \cup {0}
  BY DEF TypeOK, DataOK, Systems, Tests, Links, Ghosts
<1>1. TAKE p \in Processes
<1>2. todo[p] \in Seq(Calls)
  BY DEF TodoOK
<1>3. TAKE i \in DOMAIN todo[p]
<1>4. todo[p][i] \in Calls
  BY <1>2
<1>5. GunOps \subseteq Ops
  BY DEF GunOps, Ops
<1>6. QED
  BY <1>4, <1>5 DEF Calls

LEMMA GhostSet ==
    ASSUME seen \in Ghosts, NEW b \in BOOLEAN
    PROVE  /\ [seen EXCEPT !.crossed = b] \in Ghosts /\ [seen EXCEPT !.stale = b] \in Ghosts
           /\ [seen EXCEPT !.fed = b] \in Ghosts
           /\ [seen EXCEPT !.halted = b, !.alone = 0] \in Ghosts
           /\ [seen EXCEPT !.fed = TRUE, !.halted = b] \in Ghosts
           /\ \A n \in 0 .. 3 : [seen EXCEPT !.fed = b, !.alone = n] \in Ghosts
<1>1. [seen EXCEPT !.crossed = b] \in Ghosts /\ [seen EXCEPT !.stale = b] \in Ghosts
  BY DEF Ghosts
<1>2. [seen EXCEPT !.fed = b] \in Ghosts /\ [seen EXCEPT !.fed = TRUE, !.halted = b] \in Ghosts
  BY DEF Ghosts
<1>3. [seen EXCEPT !.halted = b, !.alone = 0] \in Ghosts
  <2> DEFINE n == 0
  <2>1. n \in 0 .. 3
    OBVIOUS
  <2> HIDE DEF n
  <2>2. [seen EXCEPT !.halted = b, !.alone = n] \in Ghosts
    BY <2>1 DEF Ghosts
  <2>3. QED
    BY <2>2 DEF n
<1>4. ASSUME NEW n \in 0 .. 3 PROVE [seen EXCEPT !.fed = b, !.alone = n] \in Ghosts
  BY DEF Ghosts
<1>5. QED
  BY <1>1, <1>2, <1>3, <1>4

LEMMA MinOfTwo ==
    ASSUME NEW a \in Int, NEW b \in Int
    PROVE  Min({a, b}) = IF a <= b THEN a ELSE b
<1> DEFINE m == IF a <= b THEN a ELSE b
<1>1. m \in {a, b} /\ \A y \in {a, b} : m <= y
  OBVIOUS
<1>2. ASSUME NEW x \in {a, b}, \A y \in {a, b} : x <= y PROVE x = m
  BY <1>2
<1> HIDE DEF m
<1>3. (CHOOSE x \in {a, b} : \A y \in {a, b} : x <= y) = m
  BY <1>1, <1>2
<1>4. QED
  BY <1>3 DEF Min, m

\* The calls of any process change what they change within its type.
LEMMA SharedTypes ==
    ASSUME DataOK, TodoOK, NEW p \in Processes, SharedStep(p)
    PROVE  DataOK'
<1> USE DEF DataOK
<1>1. CASE Lock(p)
  BY <1>1 DEF Lock, Untouched
<1>2. CASE TakeMode(p)
  <2>1. GunOf(p) \in Guns
    BY <1>2, AtFacts DEF TakeMode, GunOps
  <2>2. test' = [test EXCEPT ![GunOf(p)].mode = "None"]
    BY <1>2 DEF TakeMode
  <2>3. test' \in [Guns -> Tests]
    BY <2>1, <2>2 DEF Tests
  <2>4. QED
    BY <1>2, <2>3 DEF TakeMode
<1>3. CASE StopTimer(p)
  <2>1. GunOf(p) \in Guns
    BY <1>3, AtFacts DEF StopTimer, GunOps
  <2>2. test' = IF At(p, "stopTick") THEN [test EXCEPT ![GunOf(p)].tick = FALSE]
                ELSE [test EXCEPT ![GunOf(p)].deadline = FALSE]
    BY <1>3 DEF StopTimer
  <2>3. test' \in [Guns -> Tests]
    BY <2>1, <2>2 DEF Tests
  <2>4. QED
    BY <1>3, <2>3 DEF StopTimer
<1>4. CASE Abort(p)
  BY <1>4 DEF Abort
<1>5. CASE TestModeOff(p)
  BY <1>5 DEF TestModeOff
<1>6. CASE ClearActive(p)
  <2> DEFINE b == ~Committed
  <2>1. b \in BOOLEAN
    BY Zenon
  <2>2. seen' = [seen EXCEPT !.halted = b, !.alone = 0]
    BY <1>6 DEF ClearActive
  <2> HIDE DEF b
  <2>3. seen' \in Ghosts
    BY <2>1, <2>2, GhostSet
  <2>4. sys' \in Systems
    BY <1>6 DEF ClearActive, Systems
  <2>5. QED
    BY <1>6, <2>3, <2>4 DEF ClearActive
<1>7. CASE SetActive(p)
  <2>1. sys' \in Systems
    BY <1>7 DEF SetActive, Systems
  <2>2. QED
    BY <1>7, <2>1 DEF SetActive
<1>8. CASE FireOpens(p)
  <2> DEFINE g == GunOf(p)
             opened == gun[g] = "arming" /\ TestArmed
             s == IF opened THEN "test" ELSE IF gun[g] = "arming" THEN "shut" ELSE gun[g]
  <2>1. g \in Guns
    BY <1>8, AtFacts DEF FireOpens, GunOps
  <2>2. gun' = [gun EXCEPT ![g] = s]
    BY <1>8 DEF FireOpens
  <2>3. s \in {"shut", "arming", "test", "sheet"}
    BY <2>1
  <2> HIDE DEF s
  <2>4. gun' \in [Guns -> {"shut", "arming", "test", "sheet"}]
    BY <2>1, <2>2, <2>3
  <2>5. QED
    BY <1>8, <2>4 DEF FireOpens
<1>9. QED
  BY <1>1, <1>2, <1>3, <1>4, <1>5, <1>6, <1>7, <1>8 DEF SharedStep

LEMMA AgedFacts ==
    ASSUME NEW r \in [Places -> {"none", "fresh", "stale"}]
    PROVE  /\ Aged(r) \in [Places -> {"none", "fresh", "stale"}]
           /\ \A pl \in Places : Aged(r)[pl] # "fresh" /\ (Aged(r)[pl] = "none" <=> r[pl] = "none")
BY DEF Aged

LEMMA MovedFacts ==
    ASSUME result \in [Places -> {"none", "fresh", "stale"}],
           NEW from \in Places, NEW to \in Places, from # to
    PROVE  /\ Moved(from, to) \in [Places -> {"none", "fresh", "stale"}]
           /\ Moved(from, to)[from] = "none" /\ Moved(from, to)[to] = result[from]
           /\ \A pl \in Places \ {from, to} : Moved(from, to)[pl] = result[pl]
BY DEF Moved

LEMMA CommandTypes == DataOK /\ TodoOK /\ CommandStep => DataOK'
<1> SUFFICES ASSUME DataOK, TodoOK, CommandStep PROVE DataOK'
  OBVIOUS
<1> USE DEF DataOK
<1>0. "command" \in Processes /\ "done" \in Places
  BY DEF Processes, Editors, Places
<1>1. CASE SeeFault
  BY <1>1 DEF SeeFault, Untouched
<1>2. CASE ClearFault
  BY <1>2 DEF ClearFault, Systems
<1>3. CASE Cancel
  <2>1. CASE sys.calibrating
    <3>1. /\ sys' = [sys EXCEPT !.calibrating = FALSE] /\ photo' = "Idle"
          /\ result' = Aged([result EXCEPT !["done"] = "none"])
          /\ UNCHANGED <<testMode, test, gun, resume, link, seen>>
      BY <1>3, <2>1 DEF Cancel, Leave
    <3>2. sys' \in Systems
      BY <3>1 DEF Systems
    <3>3. [result EXCEPT !["done"] = "none"] \in [Places -> {"none", "fresh", "stale"}]
      OBVIOUS
    <3>4. result' \in [Places -> {"none", "fresh", "stale"}]
      BY <3>1, <3>3, AgedFacts
    <3>5. QED
      BY <3>1, <3>2, <3>4
  <2>2. CASE ~sys.calibrating
    BY <1>3, <2>2 DEF Cancel
  <2>3. QED
    BY <2>1, <2>2
<1>4. CASE Arm
  <2>1. resume' \in BOOLEAN
    BY <1>4 DEF Arm, Systems
  <2>2. QED
    BY <1>4, <2>1 DEF Arm
<1>5. CASE Calibrate
  BY <1>5 DEF Calibrate, Systems
<1>6. CASE Forget
  <2>1. [result EXCEPT !["done"] = "none"] \in [Places -> {"none", "fresh", "stale"}]
    OBVIOUS
  <2>2. result' \in [Places -> {"none", "fresh", "stale"}]
    BY <1>6, <2>1, AgedFacts DEF Forget
  <2>3. QED
    BY <1>6, <2>2 DEF Forget
<1>7. CASE Lead
  <2>1. result' \in [Places -> {"none", "fresh", "stale"}]
    BY <1>7, AgedFacts DEF Lead
  <2>2. QED
    BY <1>7, <2>1 DEF Lead
<1>8. CASE CheckTest
  BY <1>8 DEF CheckTest, Untouched
<1>9. CASE TryTest
  <2> DEFINE b == seen.crossed \/ Stopping
  <2>1. b \in BOOLEAN
    BY Zenon
  <2>2. seen' = [seen EXCEPT !.crossed = b]
    BY <1>9 DEF TryTest
  <2> HIDE DEF b
  <2>3. seen' \in Ghosts
    BY <2>1, <2>2, GhostSet
  <2>4. QED
    BY <1>9, <2>3 DEF TryTest
<1>10. CASE Fire
  <2>1. \E g \in Guns, o \in {"lineOpens", "dotOpens"} : FireBegin("command", g, o)
    BY <1>0, <1>10, AtFacts DEF Fire, GunOps
  <2>2. gun' \in [Guns -> {"shut", "arming", "test", "sheet"}]
    BY <2>1 DEF FireBegin
  <2>3. QED
    BY <1>10, <2>2 DEF Fire
<1>11. CASE Runs
  <2>1. GunOf("command") \in Guns
    BY <1>0, <1>11, AtFacts DEF Runs, GunOps
  <2>2. Kind[GunOf("command")] \in {"Line", "Dots"}
    BY <2>1, MachineAssumption
  <2>3. test' = [test EXCEPT ![GunOf("command")].mode = Kind[GunOf("command")]]
    BY <1>11 DEF Runs
  <2>4. test' \in [Guns -> Tests]
    BY <2>1, <2>2, <2>3 DEF Tests
  <2>5. QED
    BY <1>11, <2>4 DEF Runs
<1>12. CASE StartTimer
  <2>1. GunOf("command") \in Guns
    BY <1>0, <1>12, AtFacts DEF StartTimer, GunOps
  <2>2. test' = IF At("command", "startTick")
                  THEN [test EXCEPT ![GunOf("command")].tick = TRUE]
                  ELSE [test EXCEPT ![GunOf("command")].deadline = TRUE]
    BY <1>12 DEF StartTimer
  <2>3. test' \in [Guns -> Tests]
    BY <2>1, <2>2 DEF Tests
  <2>4. QED
    BY <1>12, <2>3 DEF StartTimer
<1>13. QED
  BY <1>1, <1>2, <1>3, <1>4, <1>5, <1>6, <1>7, <1>8, <1>9, <1>10, <1>11, <1>12 DEF CommandStep

LEMMA HandlerTypes ==
    ASSUME DataOK, TodoOK, NEW p \in Processes, HandlerOf(p)
    PROVE  DataOK'
<1> USE DEF DataOK
<1>1. CASE SharedStep(p)
  BY <1>1, SharedTypes
<1>2. CASE CommandStep
  BY <1>2, CommandTypes
<1>3. CASE ReadLast
  <2> DEFINE b == Overdue
  <2>1. b \in BOOLEAN
    BY Zenon DEF Overdue
  <2>2. link' = [link EXCEPT !.over = b]
    BY <1>3 DEF ReadLast
  <2> HIDE DEF b
  <2>3. link' \in Links
    BY <2>1, <2>2 DEF Links
  <2>4. QED
    BY <1>3, <2>3 DEF ReadLast
<1>4. CASE ReadArmed
  <2> DEFINE trips == Watched /\ link.over /\ ~link.tripped
             b == link.over /\ (link.tripped \/ Watched)
             c == seen.crossed \/ (trips /\ Opening)
  <2>1. b \in BOOLEAN /\ c \in BOOLEAN
    BY Zenon
  <2>2. link' = [link EXCEPT !.tripped = b] /\ seen' = [seen EXCEPT !.crossed = c]
    BY <1>4 DEF ReadArmed
  <2> HIDE DEF b, c
  <2>3. link' \in Links
    BY <2>1, <2>2 DEF Links
  <2>4. seen' \in Ghosts
    BY <2>1, <2>2, GhostSet
  <2>5. QED
    BY <1>4, <2>3, <2>4 DEF ReadArmed
<1>5. CASE SetFault
  BY <1>5 DEF SetFault, Systems
<1>6. CASE PhotocellStores
  <2>1. Moved("edge", "done") \in [Places -> {"none", "fresh", "stale"}]
    BY MovedFacts DEF Places
  <2>2. QED
    BY <1>6, <2>1 DEF PhotocellStores
<1>7. CASE Apply
  <2> DEFINE b == seen.stale \/ (sys.calibrating /\ result["taken"] = "stale")
  <2>1. b \in BOOLEAN
    BY Zenon
  <2>2. seen' = [seen EXCEPT !.stale = b]
    BY <1>7 DEF Apply
  <2> HIDE DEF b
  <2>3. seen' \in Ghosts
    BY <2>1, <2>2, GhostSet
  <2>4. sys' \in Systems
    BY <1>7 DEF Apply, Leave, Systems
  <2>5. result' \in [Places -> {"none", "fresh", "stale"}]
    BY <1>7 DEF Apply
  <2>6. QED
    BY <1>7, <2>3, <2>4, <2>5 DEF Apply
<1>8. QED
  BY <1>1, <1>2, <1>3, <1>4, <1>5, <1>6, <1>7 DEF HandlerOf

LEMMA WorldTypes == DataOK /\ World => DataOK'
<1> SUFFICES ASSUME DataOK, World PROVE DataOK'
  OBVIOUS
<1> USE DEF DataOK
<1>1. CASE HandOver
  <2>1. result' \in [Places -> {"none", "fresh", "stale"}]
    BY <1>1, MovedFacts DEF HandOver, Places
  <2>2. QED
    BY <1>1, <2>1 DEF HandOver
<1>2. CASE TakePending
  <2>1. result' \in [Places -> {"none", "fresh", "stale"}]
    BY <1>2, MovedFacts DEF TakePending, Places
  <2>2. QED
    BY <1>2, <2>1 DEF TakePending
<1>3. ASSUME NEW g \in Guns, GunCloses(g) PROVE DataOK'
  BY <1>3 DEF GunCloses
<1>4. QED
  BY <1>1, <1>2, <1>3 DEF World

LEMMA FedType == link \in Links => Fed \in Links
BY MachineAssumption DEF Fed, Links

LEMMA InputTypes ==
    ASSUME DataOK, NEW i \in Inputs, Input(i)
    PROVE  DataOK'
<1> USE DEF DataOK
<1>1. ASSUME Receive(i) PROVE DataOK'
  <2> DEFINE b == seen.halted /\ i # "start"
  <2>1. b \in BOOLEAN
    BY Zenon
  <2>2. seen' = [seen EXCEPT !.fed = TRUE, !.halted = b]
    BY <1>1 DEF Receive
  <2> HIDE DEF b
  <2>3. seen' \in Ghosts
    BY <2>1, <2>2, GhostSet
  <2>4. link' \in Links
    BY <1>1, FedType DEF Receive
  <2>5. QED
    BY <1>1, <2>3, <2>4 DEF Receive
<1>2. ASSUME NEW g \in Guns, ReceiveTest(g) PROVE DataOK'
  <2>1. link' \in Links /\ seen' \in Ghosts
    BY <1>2, FedType, GhostSet DEF ReceiveTest
  <2>2. QED
    BY <1>2, <2>1 DEF ReceiveTest
<1>3. ASSUME NEW g \in Guns, Deadline(g) PROVE DataOK'
  <2>1. test' \in [Guns -> Tests]
    <3>1. CASE test[g].mode = "None"
      <4>1. test' = [test EXCEPT ![g].deadline = FALSE]
        BY <1>3, <3>1 DEF Deadline
      <4>2. QED
        BY <4>1 DEF Tests
    <3>2. CASE test[g].mode # "None"
      <4> DEFINE r == [mode |-> "None", tick |-> FALSE, deadline |-> FALSE]
      <4>1. test' = [test EXCEPT ![g] = r] /\ r \in Tests
        BY <1>3, <3>2 DEF Deadline, Tests
      <4> HIDE DEF r
      <4>2. QED
        BY <4>1
    <3>3. QED
      BY <3>1, <3>2
  <2>2. gun' \in [Guns -> {"shut", "arming", "test", "sheet"}]
    BY <1>3 DEF Deadline
  <2>3. QED
    BY <1>3, <2>1, <2>2 DEF Deadline
<1>4. ASSUME NEW g \in Guns, TickDot(g) PROVE DataOK'
  BY <1>4 DEF TickDot
<1>5. CASE Ping
  <2>1. link' \in Links /\ seen' \in Ghosts
    BY <1>5, FedType, GhostSet DEF Ping
  <2>2. QED
    BY <1>5, <2>1 DEF Ping
<1>6. CASE Tick
  <2>1. Timeout \in Nat /\ link.quiet \in 0 .. Timeout + 2 /\ seen.alone \in 0 .. 3
    BY MachineAssumption DEF Links, Ghosts
  <2> DEFINE q == Min({link.quiet + 1, Timeout + 2})
             l == IF Free("watchdog") THEN 0 ELSE 1
             b == seen.fed /\ ~Free("watchdog")
             n == IF sys.active /\ link.quiet > Timeout THEN Min({seen.alone + 1, 3}) ELSE 0
  <2>2. q \in 0 .. Timeout + 2
    BY <2>1, MinOfTwo
  <2>3. l \in 0 .. 1
    OBVIOUS
  <2>4. b \in BOOLEAN
    BY Zenon
  <2>5. n \in 0 .. 3
    <3>1. Min({seen.alone + 1, 3}) \in 0 .. 3
      BY <2>1, MinOfTwo
    <3>2. QED
      BY <3>1
  <2>6. link' = [link EXCEPT !.quiet = q, !.lag = l] /\ seen' = [seen EXCEPT !.fed = b, !.alone = n]
    BY <1>6 DEF Tick
  <2> HIDE DEF q, l, b, n
  <2>7. link' \in Links
    BY <2>2, <2>3, <2>6 DEF Links
  <2>8. seen' \in Ghosts
    BY <2>4, <2>5, <2>6, GhostSet
  <2>9. QED
    BY <1>6, <2>7, <2>8 DEF Tick
<1>7. CASE FaultIsr
  BY <1>7 DEF FaultIsr, Untouched
<1>8. CASE SafetyStop
  <2> DEFINE b == ~Committed
  <2>1. b \in BOOLEAN
    BY Zenon
  <2>2. seen' = [seen EXCEPT !.halted = b, !.alone = 0]
    BY <1>8 DEF SafetyStop
  <2> HIDE DEF b
  <2>3. seen' \in Ghosts
    BY <2>1, <2>2, GhostSet
  <2>4. sys' \in Systems
    BY <1>8 DEF SafetyStop, Systems
  <2>5. QED
    BY <1>8, <2>3, <2>4 DEF SafetyStop
<1>9. CASE LeadingEdge
  BY <1>9 DEF LeadingEdge, Untouched
<1>10. CASE FallingEdge
  BY <1>10 DEF FallingEdge
<1>11. ASSUME NEW g \in Guns, SheetFires(g) PROVE DataOK'
  BY <1>11 DEF SheetFires
<1>12. QED
  BY <1>1, <1>2, <1>3, <1>4, <1>5, <1>6, <1>7, <1>8, <1>9, <1>10, <1>11 DEF Input

----------------------------------------------------------------------------
(* The order of the calls.                                                 *)

LEMMA FollowFacts ==
    /\ \A o \in {"setActive", "arm", "lead", "restore", "check", "apply", "tryTest", "fireLine",
                 "lineOpens", "startDeadline", "readArmed", "leadSeen", "sheetDone"} :
          Follow(o) = {}
    /\ Follow("abortAll") = {"setFault", "clearActive", "calibrate", "forget", "lead"}
    /\ Follow("dotsRun") = {"fireDot", "startTick", "startDeadline"}
    /\ Follow("clearActive") = {"calibrate", "forget", "lead"}
    /\ Follow("calibrate") = {"forget", "lead"}
    /\ Follow("forget") = {"lead"}
    /\ Follow("fireDot") = {"startTick", "startDeadline"}
    /\ Follow("dotOpens") = {"startTick", "startDeadline"}
    /\ Follow("lineRuns") = {"startDeadline"} /\ Follow("startTick") = {"startDeadline"}
    /\ \A o : "lock" \notin Follow(o)
BY DEF Follow, Stops

LEMMA PopShape ==
    ASSUME ShapeInv, NEW p \in Processes, NEW o, At(p, o), Made(p, <<>>),
           o = "lock" => \A q \in Editors \ {p} : ~Holding(q)
    PROVE  ShapeInv'
<1> DEFINE h == <<o, GunOf(p)>>
<1>1. TodoOK /\ Pairs /\ LockInv
  BY DEF ShapeInv
<1>2. /\ Left(p) = {h} \cup Left(p)' /\ \A c \in Left(p)' : c[1] \in Follow(o)
      /\ \A q \in Processes : q # p => Left(q)' = Left(q)
      /\ TodoOK'
  BY <1>1, PopFacts
<1>3. /\ \A q \in Processes : \A c \in Left(q)' : c \in Left(q)
      /\ \A q \in Processes : \A c \in Left(q) : c[1] # o => c \in Left(q)'
      /\ h[1] = o
  BY <1>2
<1>4. /\ "command" \in Processes /\ "watchdog" \in Processes /\ "photocell" \in Processes
      /\ "service" \in Processes /\ "timer" \in Processes /\ Editors \subseteq Processes
      /\ \A x : Call(x)[1] = x
  BY DEF Processes, Editors, Call
<1> HIDE DEF h
<1>5. Call("seeFault") \in Left("command")' \/ Call("clearFault") \in Left("command")'
         => Call("setActive") \in Left("command")'
  <2>1. Call("seeFault") \in Left("command")' \/ Call("clearFault") \in Left("command")'
           => Call("setActive") \in Left("command")
    BY <1>1, <1>3, <1>4 DEF Pairs, CommandPairs, WatchdogPairs, ServicePairs
  <2>2. o = "setActive" /\ p = "command" => Left("command")' = {}
    BY <1>2, FollowFacts
  <2>3. QED
    BY <1>2, <1>3, <1>4, <2>1, <2>2
<1>6. Call("calibrate") \in Left("command")' \/ Call("forget") \in Left("command")'
         => Call("lead") \in Left("command")'
  <2>1. Call("calibrate") \in Left("command")' \/ Call("forget") \in Left("command")'
           => Call("lead") \in Left("command")
    BY <1>1, <1>3, <1>4 DEF Pairs, CommandPairs, WatchdogPairs, ServicePairs
  <2>2. o = "lead" /\ p = "command" => Left("command")' = {}
    BY <1>2, FollowFacts
  <2>3. QED
    BY <1>2, <1>3, <1>4, <2>1, <2>2
<1>7. \A c \in Left("watchdog")' : c[1] \in Stops => Call("abortAll") \in Left("watchdog")'
  <2> SUFFICES ASSUME NEW c \in Left("watchdog")', c[1] \in Stops
               PROVE  Call("abortAll") \in Left("watchdog")'
    OBVIOUS
  <2>1. Call("abortAll") \in Left("watchdog")
    BY <1>1, <1>3, <1>4 DEF Pairs, CommandPairs, WatchdogPairs, ServicePairs
  <2>2. o = "abortAll" /\ p = "watchdog" => c[1] \notin Stops
    BY <1>2, FollowFacts DEF Stops
  <2>3. QED
    BY <1>2, <1>3, <1>4, <2>1, <2>2
<1>8. ASSUME NEW g \in Guns, NEW x \in {"dotsRun", "fireDot", "dotOpens", "startTick", "lineRuns"},
             <<x, g>> \in Left("command")'
      PROVE  <<"startDeadline", g>> \in Left("command")'
  <2>1. <<"startDeadline", g>> \in Left("command")
    BY <1>1, <1>3, <1>4, <1>8 DEF Pairs, CommandPairs
  <2>2. o = "startDeadline" /\ p = "command" => Left("command")' = {}
    BY <1>2, FollowFacts
  <2>3. <<"startDeadline", g>>[1] = "startDeadline"
    OBVIOUS
  <2>4. QED
    BY <1>2, <1>3, <1>4, <1>8, <2>1, <2>2, <2>3
<1>9. ASSUME NEW g \in Guns, NEW c \in Left("command")', c[1] \in Stops,
             <<"startDeadline", g>> \in Left("command")'
      PROVE  <<"dotsRun", g>> \in Left("command")'
  <2>1. <<"dotsRun", g>> \in Left("command")
    BY <1>1, <1>3, <1>4, <1>9 DEF Pairs, CommandPairs
  <2>2. o = "dotsRun" /\ p = "command" => c[1] \notin Stops
    BY <1>2, FollowFacts DEF Stops
  <2>3. <<"dotsRun", g>>[1] = "dotsRun"
    OBVIOUS
  <2>4. QED
    BY <1>2, <1>3, <1>4, <1>9, <2>1, <2>2, <2>3
<1>10. Call("sheetLeft") \in Left("photocell")' => Call("sheetDone") \in Left("photocell")'
  <2>1. o = "sheetDone" /\ p = "photocell" => Left("photocell")' = {}
    BY <1>2, FollowFacts
  <2>2. QED
    BY <1>1, <1>2, <1>3, <1>4, <2>1 DEF Pairs, SensorPairs
<1>11. ServicePairs'
  <2>1. Left("service")' \subseteq Left("service") /\ ServicePairs
    BY <1>1, <1>3, <1>4 DEF Pairs
  <2>2. QED
    BY <2>1 DEF ServicePairs, Call
<1>12. ASSUME NEW q \in {"command", "timer"} PROVE KindPairs(q)'
  <2>1. \A c \in Left(q)' : c \in Left(q)
    BY <1>3, <1>4
  <2>2. KindPairs(q)
    BY <1>1 DEF Pairs
  <2>3. QED
    BY <2>1, <2>2 DEF KindPairs
<1>13. Pairs'
  <2>1. CommandPairs'
    BY <1>5, <1>6, <1>8, <1>9 DEF CommandPairs, Call
  <2>2. WatchdogPairs' /\ SensorPairs' /\ ServicePairs'
    BY <1>7, <1>10, <1>11 DEF WatchdogPairs, SensorPairs, ServicePairs, Call
  <2>3. QED
    BY <1>12, <2>1, <2>2 DEF Pairs
<1>14. LockInv'
  <2>1. ASSUME NEW q \in Editors, q # p \/ o # "lock", Holding(q)' PROVE Holding(q)
    BY <1>2, <1>3, <1>4, <2>1 DEF Holding
  <2>2. CASE o # "lock"
    BY <1>1, <2>1, <2>2 DEF LockInv, Editors
  <2>3. CASE o = "lock"
    <3>1. \A q \in Editors \ {p} : ~Holding(q)'
      BY <2>1, <2>3
    <3>2. p # "command" \/ p # "service"
      OBVIOUS
    <3>3. QED
      BY <3>1, <3>2 DEF LockInv, Editors
  <2>4. QED
    BY <2>2, <2>3
<1>15. QED
  BY <1>2, <1>13, <1>14 DEF ShapeInv

\* Processes whose calls stay what they are keep what is said of them.
LEMMA PairsStay ==
    ASSUME Pairs
    PROVE  /\ Left("command")' = Left("command") => CommandPairs' /\ KindPairs("command")'
           /\ Left("timer")' = Left("timer") => KindPairs("timer")'
           /\ Left("watchdog")' = Left("watchdog") => WatchdogPairs'
           /\ Left("photocell")' = Left("photocell") => SensorPairs'
           /\ Left("service")' = Left("service") => ServicePairs'
<1>1. /\ CommandPairs /\ KindPairs("command") /\ KindPairs("timer") /\ WatchdogPairs
      /\ SensorPairs /\ ServicePairs
  BY DEF Pairs
<1>2. ASSUME Left("command")' = Left("command") PROVE CommandPairs' /\ KindPairs("command")'
  BY <1>1, <1>2 DEF CommandPairs, KindPairs, Call
<1>3. ASSUME Left("timer")' = Left("timer") PROVE KindPairs("timer")'
  BY <1>1, <1>3 DEF KindPairs
<1>4. ASSUME Left("watchdog")' = Left("watchdog") PROVE WatchdogPairs'
  BY <1>1, <1>4 DEF WatchdogPairs, Call
<1>5. ASSUME Left("photocell")' = Left("photocell") PROVE SensorPairs'
  BY <1>1, <1>5 DEF SensorPairs, Call
<1>6. ASSUME Left("service")' = Left("service") PROVE ServicePairs'
  BY <1>1, <1>6 DEF ServicePairs, Call
<1>7. QED
  BY <1>2, <1>3, <1>4, <1>5, <1>6

LEMMA SpliceFacts ==
    ASSUME ShapeInv, NEW p \in Processes, NEW o, At(p, o), o # "lock",
           NEW calls \in Seq(Calls), Made(p, calls), Ordered(calls),
           \A c \in Elems(calls) : c[1] \in OpsOf(p) /\ c[1] # "lock",
           \A c \in Elems(calls), d \in Rest(p) : d[1] \in Follow(c[1])
    PROVE  /\ Left(p) = {<<o, GunOf(p)>>} \cup Rest(p)
           /\ Left(p)' = Elems(calls) \cup Rest(p)
           /\ \A d \in Rest(p) : d[1] \in Follow(o)
           /\ \A q \in Processes : q # p => Left(q)' = Left(q)
           /\ TodoOK' /\ LockInv'
<1>1. TodoOK /\ LockInv /\ ~Free(p) /\ Head(todo[p]) = <<o, GunOf(p)>>
  BY AtFacts DEF ShapeInv
<1>2. /\ Left(p) = {<<o, GunOf(p)>>} \cup Rest(p)
      /\ Left(p)' = Elems(calls) \cup Rest(p)
      /\ \A q \in Processes : q # p => Left(q)' = Left(q)
      /\ TodoOK'
  BY <1>1, MadeFacts
<1>3. \A d \in Rest(p) : d[1] \in Follow(o)
  BY <1>1, RestFacts
<1>4. Holding(p)
  <2>1. \A d \in Left(p) : d[1] # "lock"
    BY <1>2, <1>3, FollowFacts
  <2>2. Call("lock")[1] = "lock"
    BY DEF Call
  <2>3. QED
    BY <1>2, <2>1, <2>2 DEF Holding
<1>5. \A q \in Processes : q # p => (Holding(q)' <=> Holding(q))
  BY <1>2 DEF Holding
<1>6. "command" \in Processes /\ "service" \in Processes
  BY DEF Processes, Editors
<1>7. LockInv'
  BY <1>1, <1>4, <1>5, <1>6 DEF LockInv
<1>8. QED
  BY <1>2, <1>3, <1>7

\* A handler that begins waits for the lock, or edits nothing.
LEMMA StartFacts ==
    ASSUME ShapeInv, NEW p \in Processes, NEW calls \in Seq(Calls), Begin(p, calls), Ordered(calls),
           \A c \in Elems(calls) : c[1] \in OpsOf(p),
           p \in Editors => Call("lock") \in Elems(calls)
    PROVE  /\ Left(p) = {} /\ Left(p)' = Elems(calls)
           /\ \A q \in Processes : q # p => Left(q)' = Left(q)
           /\ TodoOK' /\ LockInv'
<1>1. TodoOK /\ LockInv
  BY DEF ShapeInv
<1>2. /\ Left(p) = {} /\ Left(p)' = Elems(calls) /\ TodoOK'
      /\ \A q \in Processes : q # p => Left(q)' = Left(q)
  BY <1>1, BeginFacts
<1>3. "command" \in Processes /\ "service" \in Processes
  BY DEF Processes, Editors
<1>4. \A q \in Processes : q # p => (Holding(q)' <=> Holding(q))
  BY <1>2 DEF Holding
<1>5. p \in Editors => ~Holding(p)'
  BY <1>2 DEF Holding, Call
<1>6. LockInv'
  BY <1>1, <1>3, <1>4, <1>5 DEF LockInv, Editors
<1>7. QED
  BY <1>2, <1>6

LEMMA ProcessNames ==
    /\ {"command", "service", "watchdog", "fault", "timer", "photocell"} = Processes
    /\ Editors = {"command", "service"}
    /\ Stoppers = {"command", "service", "watchdog"} /\ Stoppers \subseteq Processes
    /\ \A o : Call(o) = <<o, 0>> /\ Call(o)[1] = o
BY DEF Processes, Editors, Stoppers, Call

LEMMA TakeModeShape ==
    ASSUME ShapeInv, NEW p \in Processes, TakeMode(p), test[GunOf(p)].mode # "None"
    PROVE  LET g == GunOf(p)
           IN  /\ g \in Guns /\ p \in Stoppers
               /\ \E T : /\ Left(p) = {<<"takeMode", g>>} \cup T
                         /\ Left(p)' = {<<"stopTick", g>>, <<"stopDeadline", g>>, <<"abort", g>>} \cup T
               /\ \A q \in Processes : q # p => Left(q)' = Left(q)
               /\ ShapeInv'
<1> DEFINE g == GunOf(p)
           calls == <<<<"stopTick", g>>, <<"stopDeadline", g>>, <<"abort", g>>>>
           A == {<<"stopTick", g>>, <<"stopDeadline", g>>, <<"abort", g>>}
<1>1. At(p, "takeMode") /\ Made(p, calls) /\ TodoOK /\ Pairs
  BY DEF TakeMode, ShapeInv
<1>2. g \in Guns /\ "takeMode" \in OpsOf(p)
  BY <1>1, AtFacts DEF GunOps
<1>3. p \in Stoppers
  BY <1>2, ProcessNames DEF OpsOf, Stops
<1>4. \A o \in Stops : o \in OpsOf(p) /\ \A x \in Stops : x \in Follow(o) /\ Follow(o) = Follow("takeMode")
  BY <1>3, ProcessNames DEF OpsOf, Stops, Ops, Follow
<1>5. \A c \in A : c[1] \in Stops /\ c \in Calls
  BY <1>2, CallTypes DEF Stops, GunOps
<1>6. calls \in Seq(Calls) /\ Elems(calls) = A /\ Ordered(calls)
  BY <1>4, <1>5, ThreeCalls DEF Stops
<1>7. \A d \in Rest(p) : d[1] \in Follow("takeMode")
  BY <1>1, AtFacts, RestFacts
<1>8. \A c \in A : c[1] # "lock"
  OBVIOUS
<1> HIDE DEF calls, A
<1>9. /\ Left(p) = {<<"takeMode", GunOf(p)>>} \cup Rest(p)
      /\ Left(p)' = Elems(calls) \cup Rest(p)
      /\ \A q \in Processes : q # p => Left(q)' = Left(q)
      /\ TodoOK' /\ LockInv'
  <2>1. \A c \in Elems(calls) : c[1] \in OpsOf(p) /\ c[1] # "lock"
    BY <1>4, <1>5, <1>6, <1>8
  <2>2. \A c \in Elems(calls), d \in Rest(p) : d[1] \in Follow(c[1])
    BY <1>4, <1>5, <1>6, <1>7
  <2>3. QED
    BY <1>1, <1>6, <2>1, <2>2, SpliceFacts
<1> DEFINE T == Rest(p)
<1>10. Left(p) = {<<"takeMode", g>>} \cup T /\ Left(p)' = A \cup T
  BY <1>6, <1>9
<1>11. \A c \in Left(p)' : c \in Left(p) \/ c \in A
  BY <1>10
<1>12. \A c \in Left(p) : c[1] # "takeMode" => c \in Left(p)'
  BY <1>10
<1>13. \E c \in Left(p) : c[1] \in Stops
  BY <1>10 DEF Stops
<1> HIDE DEF T
<1>14. Pairs'
  <2>1. CASE p = "command"
    <3>1. CommandPairs'
      <4>1. CommandPairs
        BY <1>1 DEF Pairs
      <4>2. \A c \in Left("command")' : c[1] \notin Stops => c \in Left("command")
        BY <1>5, <1>11, <2>1
      <4>3. \A c \in Left("command") : c[1] \notin Stops => c \in Left("command")'
        BY <1>12, <2>1 DEF Stops
      <4>4. QED
        BY <1>13, <2>1, <4>1, <4>2, <4>3, ProcessNames DEF CommandPairs, Stops
    <3>2. KindPairs("command")'
      <4>1. KindPairs("command")
        BY <1>1 DEF Pairs
      <4>2. \A c \in Left("command")' : c[1] \notin Stops => c \in Left("command")
        BY <1>5, <1>11, <2>1
      <4>3. QED
        BY <4>1, <4>2 DEF KindPairs, Stops
    <3>3. QED
      BY <1>1, <1>9, <2>1, <3>1, <3>2, PairsStay, ProcessNames DEF Pairs
  <2>2. CASE p = "service"
    <3>1. ServicePairs'
      <4>1. \A c \in Left("service")' : c[1] \notin Stops => c \in Left("service")
        BY <1>5, <1>11, <2>2
      <4>2. QED
        <5>1. <<"takeMode", g>> \in Left("service") /\ ServicePairs
          BY <1>1, <1>10, <2>2 DEF Pairs
        <5>2. Call("lock") \notin Left("service")
          BY <5>1, ProcessNames DEF ServicePairs
        <5>3. Call("lock") \notin Left("service")'
          BY <4>1, <5>2, ProcessNames DEF Stops
        <5>4. QED
          BY <5>3, ProcessNames DEF ServicePairs
    <3>2. QED
      BY <1>1, <1>9, <2>2, <3>1, PairsStay, ProcessNames DEF Pairs
  <2>3. CASE p = "watchdog"
    <3>1. WatchdogPairs'
      <4>1. Call("abortAll") \in Left("watchdog")
        BY <1>1, <1>13, <2>3 DEF Pairs, WatchdogPairs
      <4>2. QED
        BY <1>12, <2>3, <4>1, ProcessNames DEF WatchdogPairs
    <3>2. QED
      BY <1>1, <1>9, <2>3, <3>1, PairsStay, ProcessNames DEF Pairs
  <2>4. QED
    BY <1>3, <2>1, <2>2, <2>3, ProcessNames
<1>15. QED
  BY <1>2, <1>3, <1>9, <1>10, <1>14 DEF ShapeInv, A

LEMMA SeeFaultShape ==
    ASSUME ShapeInv, SeeFault, sys.fault
    PROVE  /\ \E T : /\ Left("command") = {Call("seeFault")} \cup T
                     /\ Left("command")' = {Call("clearFault")} \cup T
           /\ \A q \in Processes : q # "command" => Left(q)' = Left(q)
           /\ Call("setActive") \in Left("command")
           /\ ShapeInv'
<1> DEFINE calls == <<Call("clearFault")>>
           T == Rest("command")
<1>1. At("command", "seeFault") /\ Made("command", calls) /\ TodoOK /\ Pairs
  BY DEF SeeFault, ShapeInv
<1>2. GunOf("command") = 0
  BY <1>1, AtFacts, ProcessNames DEF GunOps
<1>3. Call("clearFault") \in Calls
  BY CallTypes DEF GunOps, Ops
<1>4. calls \in Seq(Calls) /\ Elems(calls) = {Call("clearFault")} /\ Ordered(calls)
  BY <1>3, OneCall
<1>5. \A d \in Rest("command") : d[1] \in Follow("seeFault")
  BY <1>1, AtFacts, RestFacts, ProcessNames
<1>6. Follow("clearFault") = Follow("seeFault")
  BY DEF Follow, Stops
<1>7. "clearFault" \in OpsOf("command") /\ "clearFault" # "lock"
  BY DEF OpsOf, Ops
<1> HIDE DEF calls
<1>8. /\ Left("command") = {Call("seeFault")} \cup T
      /\ Left("command")' = {Call("clearFault")} \cup T
      /\ \A q \in Processes : q # "command" => Left(q)' = Left(q)
      /\ TodoOK' /\ LockInv'
  <2>1. \A c \in Elems(calls) : c[1] \in OpsOf("command") /\ c[1] # "lock"
    BY <1>4, <1>7, ProcessNames
  <2>2. \A c \in Elems(calls), d \in Rest("command") : d[1] \in Follow(c[1])
    BY <1>4, <1>5, <1>6, ProcessNames
  <2>3. "command" \in Processes /\ <<"seeFault", GunOf("command")>> = Call("seeFault")
    BY <1>2, ProcessNames
  <2>4. QED
    BY <1>1, <1>4, <2>1, <2>2, <2>3, SpliceFacts
<1> HIDE DEF T
<1>9. Call("setActive") \in Left("command")
  BY <1>1, <1>8 DEF Pairs, CommandPairs
<1>10. CommandPairs'
  BY <1>1, <1>8, <1>9, ProcessNames DEF Pairs, CommandPairs, Stops
<1>11. KindPairs("command")'
  BY <1>1, <1>8, ProcessNames DEF Pairs, KindPairs
<1>12. QED
  BY <1>1, <1>8, <1>9, <1>10, <1>11, PairsStay, ProcessNames DEF ShapeInv, Pairs

\* The last call of a handler makes others.
LEMMA LastFacts ==
    ASSUME ShapeInv, NEW p \in Processes, NEW o, At(p, o), o # "lock", Follow(o) = {},
           NEW calls \in Seq(Calls), Made(p, calls), Ordered(calls),
           \A c \in Elems(calls) : c[1] \in OpsOf(p) /\ c[1] # "lock"
    PROVE  /\ Left(p) = {<<o, GunOf(p)>>} /\ Left(p)' = Elems(calls)
           /\ \A q \in Processes : q # p => Left(q)' = Left(q)
           /\ TodoOK' /\ LockInv'
<1>1. TodoOK /\ ~Free(p) /\ Head(todo[p])[1] = o
  BY AtFacts DEF ShapeInv
<1>2. Rest(p) = {}
  BY <1>1, RestFacts
<1>3. /\ Left(p) = {<<o, GunOf(p)>>} \cup Rest(p) /\ Left(p)' = Elems(calls) \cup Rest(p)
      /\ \A q \in Processes : q # p => Left(q)' = Left(q)
      /\ TodoOK' /\ LockInv'
  BY <1>2, SpliceFacts
<1>4. QED
  BY <1>2, <1>3

LEMMA LastFollow ==
    \A o \in {"setActive", "arm", "lead", "restore", "check", "apply", "tryTest", "fireLine",
              "lineOpens", "startDeadline", "readArmed", "leadSeen", "sheetDone"} :
        Follow(o) = {} /\ o # "lock"
BY FollowFacts

LEMMA RestartShape ==
    ASSUME ShapeInv, NEW p \in Editors, NEW o \in {"restore", "apply"}, At(p, o), Made(p, Restart)
    PROVE  /\ Left(p) = {Call(o)}
           /\ Left(p)' = TakeAll \cup {Call("testModeOff"), Call("setActive")}
           /\ \A q \in Processes : q # p => Left(q)' = Left(q)
           /\ ShapeInv'
<1>1. TodoOK /\ Pairs /\ p \in Processes
  BY ProcessNames DEF ShapeInv
<1>2. GunOf(p) = 0 /\ <<o, GunOf(p)>> = Call(o)
  BY <1>1, AtFacts, ProcessNames DEF GunOps
<1> DEFINE A == TakeAll \cup {Call("testModeOff"), Call("setActive")}
<1>3. \A c \in A : c[1] \in {"takeMode", "testModeOff", "setActive"}
  BY ProcessNames DEF TakeAll
<1>4. \A x \in {"takeMode", "testModeOff", "setActive"} : x \in OpsOf(p) /\ x # "lock"
  BY ProcessNames DEF OpsOf, Ops, Stops
<1>5. Restart \in Seq(Calls) /\ Elems(Restart) = A /\ Ordered(Restart)
  BY RestartList
<1> HIDE DEF A
<1>6. /\ Left(p) = {<<o, GunOf(p)>>} /\ Left(p)' = Elems(Restart)
      /\ \A q \in Processes : q # p => Left(q)' = Left(q)
      /\ TodoOK' /\ LockInv'
  <2>1. \A c \in Elems(Restart) : c[1] \in OpsOf(p) /\ c[1] # "lock"
    BY <1>3, <1>4, <1>5
  <2>2. Follow(o) = {} /\ o # "lock"
    BY LastFollow
  <2>3. QED
    BY <1>1, <1>5, <2>1, <2>2, LastFacts
<1>7. Left(p)' = A /\ Call("setActive") \in A
  BY <1>5, <1>6 DEF A
<1>8. Pairs'
  <2>1. CASE p = "command"
    <3>1. CommandPairs'
      <4>1. \A c \in Left("command")' : c[1] \in {"takeMode", "testModeOff", "setActive"}
        BY <1>3, <1>7, <2>1
      <4>2. QED
        BY <1>7, <2>1, <4>1, ProcessNames DEF CommandPairs
    <3>2. KindPairs("command")'
      BY <1>3, <1>7, <2>1 DEF KindPairs
    <3>3. QED
      BY <1>1, <1>6, <2>1, <3>1, <3>2, PairsStay, ProcessNames DEF Pairs
  <2>2. CASE p = "service"
    <3>1. ServicePairs'
      BY <1>3, <1>7, <2>2, ProcessNames DEF ServicePairs
    <3>2. QED
      BY <1>1, <1>6, <2>2, <3>1, PairsStay, ProcessNames DEF Pairs
  <2>3. QED
    BY <2>1, <2>2, ProcessNames
<1>9. QED
  BY <1>2, <1>6, <1>7, <1>8 DEF ShapeInv, A

\* Arming stops the machine, begins to calibrate, or both, or is calibrating already.
ArmCalls ==
    CASE sys.calibrating -> {Call("forget"), Call("lead")}
      [] ~sys.calibrating /\ sys.active ->
            TakeAll \cup {Call("testModeOff"), Call("abortAll"), Call("clearActive"),
                          Call("calibrate"), Call("forget"), Call("lead")}
      [] OTHER -> {Call("calibrate"), Call("forget"), Call("lead")}

LEMMA ArmShape ==
    ASSUME ShapeInv, Arm, ~(sys.active /\ sys.calibrating)
    PROVE  /\ Left("command") = {Call("arm")} /\ Left("command")' = ArmCalls
           /\ \A q \in Processes : q # "command" => Left(q)' = Left(q)
           /\ ShapeInv'
<1> DEFINE a == CASE sys.calibrating -> <<>>
                  [] sys.active      -> Append(StopAll, Call("calibrate"))
                  [] OTHER           -> <<Call("calibrate")>>
           b == <<Call("forget"), Call("lead")>>
           calls == a \o b
<1>1. At("command", "arm") /\ TodoOK /\ Pairs /\ GunOf("command") = 0
  BY AtFacts, ProcessNames DEF Arm, ShapeInv, GunOps
<1>2. Made("command", calls)
  BY DEF Arm
<1>3. Call("forget") \in Calls /\ Call("lead") \in Calls /\ Call("calibrate") \in Calls
  BY CallTypes DEF Ops, GunOps
<1>4. b \in Seq(Calls) /\ Elems(b) = {Call("forget"), Call("lead")} /\ Ordered(b)
  BY <1>3, TwoCalls, FollowFacts, ProcessNames
<1> DEFINE stops == TakeAll \cup {Call("testModeOff"), Call("abortAll"), Call("clearActive")}
<1>5. \A c \in stops \cup {Call("calibrate")} :
         c[1] \in {"takeMode", "testModeOff", "abortAll", "clearActive", "calibrate"}
  BY ProcessNames DEF TakeAll
<1>6. /\ \A c \in stops : "calibrate" \in Follow(c[1])
      /\ \A c \in stops \cup {Call("calibrate")} : \A d \in {Call("forget"), Call("lead")} :
            d[1] \in Follow(c[1])
  BY <1>5, ProcessNames DEF Follow, Stops, TakeAll
<1>7. /\ a \in Seq(Calls) /\ Ordered(a)
      /\ Elems(a) = IF sys.calibrating THEN {} ELSE IF sys.active THEN stops \cup {Call("calibrate")}
                    ELSE {Call("calibrate")}
  <2>1. CASE sys.calibrating
    <3>1. a = <<>>
      <4>1. ~sys.active
        BY <2>1
      <4>2. QED
        BY <2>1, <4>1
    <3> HIDE DEF a
    <3>2. QED
      BY <2>1, <3>1, NoCalls
  <2>2. CASE ~sys.calibrating /\ sys.active
    <3>1. a = Append(StopAll, Call("calibrate"))
      BY <2>2
    <3>2. StopAll \in Seq(Calls) /\ Elems(StopAll) = stops /\ Ordered(StopAll)
      BY StopAllList
    <3> HIDE DEF a, stops
    <3>3. /\ Append(StopAll, Call("calibrate")) \in Seq(Calls)
          /\ Elems(Append(StopAll, Call("calibrate"))) = stops \cup {Call("calibrate")}
          /\ Ordered(Append(StopAll, Call("calibrate")))
      BY <1>3, <1>6, <3>2, AddCall, ProcessNames
    <3>4. QED
      BY <2>2, <3>1, <3>3
  <2>3. CASE ~sys.calibrating /\ ~sys.active
    <3>1. a = <<Call("calibrate")>>
      BY <2>3
    <3> HIDE DEF a
    <3>2. QED
      BY <1>3, <2>3, <3>1, OneCall
  <2>4. QED
    BY <2>1, <2>2, <2>3
<1> HIDE DEF a, b
<1>8. calls \in Seq(Calls) /\ Elems(calls) = Elems(a) \cup Elems(b) /\ Ordered(calls)
  BY <1>4, <1>6, <1>7, JoinLists
<1> HIDE DEF calls, stops
<1>9. Elems(calls) = ArmCalls
  BY <1>4, <1>7, <1>8 DEF ArmCalls, stops
<1>10. \A c \in ArmCalls : c[1] \in {"takeMode", "testModeOff", "abortAll", "clearActive",
                                     "calibrate", "forget", "lead"}
  BY ProcessNames DEF ArmCalls, TakeAll
<1>11. \A c \in ArmCalls : c[1] \in OpsOf("command") /\ c[1] # "lock"
  BY <1>10 DEF OpsOf, Ops
<1>12. /\ Left("command") = {Call("arm")} /\ Left("command")' = ArmCalls
       /\ \A q \in Processes : q # "command" => Left(q)' = Left(q)
       /\ TodoOK' /\ LockInv'
  <2>1. Follow("arm") = {} /\ "arm" # "lock" /\ "command" \in Processes
        /\ <<"arm", GunOf("command")>> = Call("arm")
    BY <1>1, LastFollow, ProcessNames
  <2>2. \A c \in Elems(calls) : c[1] \in OpsOf("command") /\ c[1] # "lock"
    BY <1>9, <1>11
  <2>3. QED
    BY <1>1, <1>2, <1>8, <1>9, <2>1, <2>2, LastFacts
<1>13. Call("lead") \in ArmCalls
  BY DEF ArmCalls
<1>14. CommandPairs' /\ KindPairs("command")'
  <2>1. \A c \in Left("command")' : c[1] \in {"takeMode", "testModeOff", "abortAll", "clearActive",
                                              "calibrate", "forget", "lead"}
    BY <1>10, <1>12
  <2>2. Call("lead") \in Left("command")'
    BY <1>12, <1>13
  <2>3. CommandPairs'
    BY <2>1, <2>2, ProcessNames DEF CommandPairs
  <2>4. KindPairs("command")'
    BY <2>1 DEF KindPairs
  <2>5. QED
    BY <2>3, <2>4
<1>15. QED
  BY <1>1, <1>12, <1>14, PairsStay, ProcessNames DEF ShapeInv, Pairs

\* A test is opened only if nothing is against it.
LEMMA CheckShape ==
    ASSUME ShapeInv, CheckTest
    PROVE  LET g == GunOf("command")
           IN  /\ g \in Guns /\ Left("command") = {<<"check", g>>}
               /\ \/ Left("command")' = {}
                  \/ /\ ~sys.fault /\ ~sys.active /\ ~sys.calibrating
                     /\ Left("command")' = {<<"tryTest", g>>}
               /\ \A q \in Processes : q # "command" => Left(q)' = Left(q)
               /\ ShapeInv'
<1> DEFINE g == GunOf("command")
           calls == <<<<"tryTest", g>>>>
           busy == sys.fault \/ sys.active \/ sys.calibrating
<1>1. At("command", "check") /\ TodoOK /\ Pairs /\ LockInv /\ "command" \in Processes
  BY ProcessNames DEF CheckTest, ShapeInv
<1>2. g \in Guns /\ ~Free("command") /\ Head(todo["command"]) = <<"check", g>>
  BY <1>1, AtFacts DEF GunOps
<1>3. Follow("check") = {} /\ "check" # "lock"
  BY LastFollow
<1>4. Left("command") = {<<"check", g>>}
  <2>1. \A c \in Rest("command") : c[1] \in Follow("check")
    BY <1>1, <1>2, RestFacts
  <2>2. Left("command") = {Head(todo["command"])} \cup Rest("command")
    BY <1>1, <1>2, RestFacts
  <2>3. QED
    BY <1>2, <1>3, <2>1, <2>2
<1>5. CASE busy
  <2>1. todo' = [todo EXCEPT !["command"] = <<>>]
    BY <1>5 DEF CheckTest, Return
  <2>2. todo'["command"] = <<>> /\ \A q \in Processes : q # "command" => todo'[q] = todo[q]
    BY <1>1, <2>1 DEF TodoOK
  <2>3. /\ Left("command")' = {}
        /\ \A q \in Processes : q # "command" => Left(q)' = Left(q)
    BY <2>2, NoCalls DEF Left
  <2>4. TodoOK'
    <3>1. todo' \in [Processes -> Seq(Calls)]
      BY <1>1, <2>1, NoCalls DEF TodoOK
    <3>2. \A q \in Processes : Ordered(todo'[q]) /\ \A c \in Left(q)' : c[1] \in OpsOf(q)
      BY <1>1, <2>2, <2>3, NoCalls DEF TodoOK
    <3>3. QED
      BY <3>1, <3>2 DEF TodoOK
  <2>5. LockInv'
    BY <2>3 DEF LockInv, Holding
  <2>6. CommandPairs' /\ KindPairs("command")'
    BY <2>3 DEF CommandPairs, KindPairs
  <2>7. Pairs'
    BY <1>1, <2>3, <2>6, PairsStay, ProcessNames DEF Pairs
  <2>8. QED
    BY <1>2, <1>4, <2>3, <2>4, <2>5, <2>7 DEF ShapeInv
<1>6. CASE ~busy
  <2>1. Made("command", calls)
    BY <1>6 DEF CheckTest
  <2>2. calls \in Seq(Calls) /\ Elems(calls) = {<<"tryTest", g>>} /\ Ordered(calls)
    BY <1>2, OneCall, CallTypes DEF GunOps
  <2> HIDE DEF calls
  <2>3. /\ Left("command")' = {<<"tryTest", g>>}
        /\ \A q \in Processes : q # "command" => Left(q)' = Left(q)
        /\ TodoOK' /\ LockInv'
    <3>1. \A c \in Elems(calls) : c[1] \in OpsOf("command") /\ c[1] # "lock"
      BY <2>2 DEF OpsOf, Ops
    <3>2. QED
      BY <1>1, <1>3, <2>1, <2>2, <3>1, LastFacts
  <2>4. CommandPairs' /\ KindPairs("command")'
    <3>1. \A c \in Left("command")' : c[1] = "tryTest"
      BY <2>3
    <3>2. CommandPairs'
      BY <3>1, ProcessNames DEF CommandPairs
    <3>3. KindPairs("command")'
      BY <3>1 DEF KindPairs
    <3>4. QED
      BY <3>2, <3>3
  <2>5. Pairs'
    BY <1>1, <2>3, <2>4, PairsStay, ProcessNames DEF Pairs
  <2>6. QED
    BY <1>2, <1>4, <1>6, <2>3, <2>5 DEF ShapeInv
<1>7. QED
  BY <1>5, <1>6

\* The calls that open a test of gun g.
LineTest(g) == {<<"takeMode", g>>, <<"fireLine", g>>}
DotsTest(g) == {<<"takeMode", g>>, <<"dotsRun", g>>, <<"fireDot", g>>, <<"startTick", g>>,
                <<"startDeadline", g>>}

LEMMA TryShape ==
    ASSUME ShapeInv, TryTest
    PROVE  LET g == GunOf("command")
           IN  /\ g \in Guns /\ Left("command") = {<<"tryTest", g>>}
               /\ \/ Left("command")' = {}
                  \/ Kind[g] = "Line" /\ Left("command")' = LineTest(g)
                  \/ Kind[g] = "Dots" /\ Left("command")' = DotsTest(g)
               /\ \A q \in Processes : q # "command" => Left(q)' = Left(q)
               /\ ShapeInv'
<1> DEFINE g == GunOf("command")
           a == <<<<"takeMode", g>>, <<"fireLine", g>>>>
           b == <<<<"takeMode", g>>, <<"dotsRun", g>>, <<"fireDot", g>>>>
           c == <<<<"startTick", g>>, <<"startDeadline", g>>>>
           d == <<<<"takeMode", g>>, <<"dotsRun", g>>, <<"fireDot", g>>,
                  <<"startTick", g>>, <<"startDeadline", g>>>>
<1>1. At("command", "tryTest") /\ TodoOK /\ Pairs /\ LockInv /\ "command" \in Processes
  BY ProcessNames DEF TryTest, ShapeInv
<1>2. g \in Guns /\ Kind[g] \in {"Line", "Dots"}
  BY <1>1, AtFacts, MachineAssumption DEF GunOps
<1>3. Follow("tryTest") = {} /\ "tryTest" # "lock"
  BY LastFollow
<1>4. \A x \in GunOps : <<x, g>> \in Calls
  BY <1>2, CallTypes
<1>5. a \in Seq(Calls) /\ Elems(a) = LineTest(g) /\ Ordered(a)
  <2>1. <<"takeMode", g>> \in Calls /\ <<"fireLine", g>> \in Calls
    BY <1>4 DEF GunOps
  <2>2. "fireLine" \in Follow("takeMode")
    BY DEF Follow, Stops
  <2>3. QED
    BY <2>1, <2>2, TwoCalls DEF LineTest
<1>6. d \in Seq(Calls) /\ Elems(d) = DotsTest(g) /\ Ordered(d)
  <2>1. /\ <<"takeMode", g>> \in Calls /\ <<"dotsRun", g>> \in Calls /\ <<"fireDot", g>> \in Calls
        /\ <<"startTick", g>> \in Calls /\ <<"startDeadline", g>> \in Calls
    BY <1>4 DEF GunOps
  <2>2. \A x \in {"dotsRun", "fireDot", "startTick", "startDeadline"} : x \in Follow("takeMode")
    BY DEF Follow, Stops
  <2>3. /\ b \in Seq(Calls) /\ Ordered(b)
        /\ Elems(b) = {<<"takeMode", g>>, <<"dotsRun", g>>, <<"fireDot", g>>}
    <3> DEFINE u == <<"takeMode", g>>
               v == <<"dotsRun", g>>
               w == <<"fireDot", g>>
    <3>1. v[1] \in Follow(u[1]) /\ w[1] \in Follow(u[1]) /\ w[1] \in Follow(v[1])
      BY <2>2, FollowFacts
    <3>2. u \in Calls /\ v \in Calls /\ w \in Calls /\ b = <<u, v, w>>
      BY <2>1
    <3>3. {<<"takeMode", g>>, <<"dotsRun", g>>, <<"fireDot", g>>} = {u, v, w}
      OBVIOUS
    <3> HIDE DEF u, v, w, b
    <3>4. <<u, v, w>> \in Seq(Calls) /\ Elems(<<u, v, w>>) = {u, v, w} /\ Ordered(<<u, v, w>>)
      BY <3>1, <3>2, ThreeCalls
    <3>5. QED
      BY <3>2, <3>3, <3>4
  <2>4. c \in Seq(Calls) /\ Ordered(c) /\ Elems(c) = {<<"startTick", g>>, <<"startDeadline", g>>}
    BY <2>1, FollowFacts, TwoCalls
  <2>5. d = b \o c
    OBVIOUS
  <2>6. \A x \in {<<"takeMode", g>>, <<"dotsRun", g>>, <<"fireDot", g>>},
           y \in {<<"startTick", g>>, <<"startDeadline", g>>} : y[1] \in Follow(x[1])
    BY <2>2, FollowFacts
  <2> HIDE DEF b, c, d
  <2>7. b \o c \in Seq(Calls) /\ Elems(b \o c) = Elems(b) \cup Elems(c) /\ Ordered(b \o c)
    BY <2>3, <2>4, <2>6, JoinLists
  <2>8. Elems(b) \cup Elems(c) = DotsTest(g)
    BY <2>3, <2>4 DEF DotsTest
  <2>9. QED
    BY <2>5, <2>7, <2>8
<1>7. Made("command", <<>>) \/ (Kind[g] = "Line" /\ Made("command", a))
         \/ (Kind[g] = "Dots" /\ Made("command", d))
  <2>1. Made("command", CASE sys.fault -> <<>>
                          [] ~sys.fault /\ Kind[g] = "Line" -> a
                          [] OTHER -> d)
    BY DEF TryTest
  <2> HIDE DEF a, b, c, d
  <2>2. CASE sys.fault
    BY <2>1, <2>2
  <2>3. CASE ~sys.fault /\ Kind[g] = "Line"
    BY <2>1, <2>3
  <2>4. CASE ~sys.fault /\ Kind[g] # "Line"
    BY <1>2, <2>1, <2>4
  <2>5. QED
    BY <2>2, <2>3, <2>4
<1> HIDE DEF a, b, c, d
<1>8. Left("command") = {<<"tryTest", g>>}
  <2>1. ~Free("command") /\ Head(todo["command"]) = <<"tryTest", g>>
    BY <1>1, AtFacts
  <2>2. \A e \in Rest("command") : e[1] \in Follow("tryTest")
    BY <1>1, <2>1, RestFacts
  <2>3. Left("command") = {Head(todo["command"])} \cup Rest("command")
    BY <1>1, <2>1, RestFacts
  <2>4. QED
    BY <1>3, <2>1, <2>2, <2>3
<1>9. CASE Made("command", <<>>)
  <2>1. /\ \A e \in Left("command")' : e[1] \in Follow("tryTest")
        /\ \A q \in Processes : q # "command" => Left(q)' = Left(q)
    BY <1>1, <1>9, PopFacts
  <2>2. ShapeInv'
    BY <1>1, <1>3, <1>9, PopShape
  <2>3. QED
    BY <1>2, <1>3, <1>8, <2>1, <2>2
<1>10. CASE Kind[g] = "Line" /\ Made("command", a)
  <2>1. \A e \in LineTest(g) : e[1] \in OpsOf("command") /\ e[1] # "lock"
    BY DEF LineTest, OpsOf, Ops
  <2>2. /\ Left("command")' = LineTest(g) /\ TodoOK' /\ LockInv'
        /\ \A q \in Processes : q # "command" => Left(q)' = Left(q)
    BY <1>1, <1>3, <1>5, <1>10, <2>1, LastFacts
  <2>3. CommandPairs'
    <3>1. \A e \in Left("command")' : e[1] \in {"takeMode", "fireLine"}
      BY <2>2 DEF LineTest
    <3>2. QED
      BY <3>1, ProcessNames DEF CommandPairs
  <2>4. KindPairs("command")'
    <3>1. \A e \in Left("command")' : e[1] \in {"takeMode", "fireLine"} /\ e[2] = g
      BY <2>2 DEF LineTest
    <3>2. QED
      BY <1>10, <3>1 DEF KindPairs
  <2>5. Pairs'
    BY <1>1, <2>2, <2>3, <2>4, PairsStay, ProcessNames DEF Pairs
  <2>6. QED
    BY <1>2, <1>8, <1>10, <2>2, <2>5 DEF ShapeInv
<1>11. CASE Kind[g] = "Dots" /\ Made("command", d)
  <2>1. \A e \in DotsTest(g) : e[1] \in OpsOf("command") /\ e[1] # "lock"
    BY DEF DotsTest, OpsOf, Ops
  <2>2. /\ Left("command")' = DotsTest(g) /\ TodoOK' /\ LockInv'
        /\ \A q \in Processes : q # "command" => Left(q)' = Left(q)
    BY <1>1, <1>3, <1>6, <1>11, <2>1, LastFacts
  <2>3. \A e \in Left("command")' :
           /\ e[1] \in {"takeMode", "dotsRun", "fireDot", "startTick", "startDeadline"}
           /\ e[2] = g
    BY <2>2 DEF DotsTest
  <2>4. CommandPairs'
    <3>1. <<"startDeadline", g>> \in Left("command")' /\ <<"dotsRun", g>> \in Left("command")'
      BY <2>2 DEF DotsTest
    <3>2. QED
      BY <2>3, <3>1, ProcessNames DEF CommandPairs
  <2>5. KindPairs("command")'
    BY <1>11, <2>3 DEF KindPairs
  <2>6. Pairs'
    BY <1>1, <2>2, <2>4, <2>5, PairsStay, ProcessNames DEF Pairs
  <2>7. QED
    BY <1>2, <1>8, <1>11, <2>2, <2>6 DEF ShapeInv
<1>12. QED
  BY <1>7, <1>9, <1>10, <1>11

\* The first section of fire(): the second is still to come, or fire() gives up.
LEMMA FireShape ==
    ASSUME ShapeInv, NEW o \in {"fireLine", "fireDot"}, NEW x,
           x = IF o = "fireLine" THEN "lineOpens" ELSE "dotOpens",
           At("command", o), FireBegin("command", GunOf("command"), x)
    PROVE  LET g == GunOf("command")
           IN  /\ g \in Guns
               /\ \E T : /\ Left("command") = {<<o, g>>} \cup T
                         /\ \A c \in T : c[1] \in Follow(o)
                         /\ \/ /\ gun' = gun /\ Made("command", <<>>)
                               /\ Left("command")' = T
                            \/ /\ gun' = [gun EXCEPT ![g] = "arming"] /\ TestArmed
                               /\ gun[g] = "shut"
                               /\ Left("command")' = {<<x, g>>} \cup T
               /\ \A q \in Processes : q # "command" => Left(q)' = Left(q)
               /\ Kind[g] = IF o = "fireLine" THEN "Line" ELSE "Dots"
               /\ ShapeInv'
<1> DEFINE g == GunOf("command")
           a == <<<<x, g>>>>
           T == Rest("command")
<1>1. /\ TodoOK /\ Pairs /\ LockInv /\ "command" \in Processes
      /\ x \in {"lineOpens", "dotOpens"} /\ o # "lock"
  BY ProcessNames DEF ShapeInv
<1>2. g \in Guns /\ ~Free("command") /\ Head(todo["command"]) = <<o, g>>
  BY <1>1, AtFacts DEF GunOps
<1>3. Left("command") = {<<o, g>>} \cup T /\ \A c \in T : c[1] \in Follow(o)
  <2>1. Head(todo["command"])[1] = o
    BY <1>2
  <2>2. QED
    BY <1>1, <1>2, <2>1, RestFacts
<1>4. Kind[g] = IF o = "fireLine" THEN "Line" ELSE "Dots"
  <2>1. <<o, g>> \in Left("command") /\ KindPairs("command")
    BY <1>1, <1>3 DEF Pairs
  <2>2. QED
    BY <1>2, <2>1 DEF KindPairs
<1>5. \/ gun' = gun /\ Made("command", <<>>)
      \/ gun[g] = "shut" /\ TestArmed /\ gun' = [gun EXCEPT ![g] = "arming"] /\ Made("command", a)
  BY DEF FireBegin
<1>6. CASE gun' = gun /\ Made("command", <<>>)
  <2>1. /\ \A q \in Processes : q # "command" => Left(q)' = Left(q)
        /\ Left("command")' = T
    <3>1. /\ Left("command")' = {} \cup T
          /\ \A q \in Processes : q # "command" => Left(q)' = Left(q)
      BY <1>1, <1>2, <1>6, MadeFacts, NoCalls
    <3>2. QED
      BY <3>1
  <2>2. ShapeInv'
    BY <1>1, <1>6, PopShape
  <2> HIDE DEF T
  <2>3. QED
    BY <1>2, <1>3, <1>4, <1>6, <2>1, <2>2
<1>7. CASE /\ gun[g] = "shut" /\ TestArmed
           /\ gun' = [gun EXCEPT ![g] = "arming"] /\ Made("command", a)
  <2>1. a \in Seq(Calls) /\ Elems(a) = {<<x, g>>} /\ Ordered(a)
    BY <1>1, <1>2, OneCall, CallTypes DEF GunOps
  <2>2. x \in OpsOf("command") /\ x # "lock"
    BY <1>1 DEF OpsOf, Ops
  <2>3. \A c \in T : c[1] \in Follow(x)
    BY <1>3, FollowFacts
  <2> HIDE DEF a
  <2>4. /\ Left("command")' = Elems(a) \cup T /\ TodoOK' /\ LockInv'
        /\ \A q \in Processes : q # "command" => Left(q)' = Left(q)
    <3>1. \A c \in Elems(a) : c[1] \in OpsOf("command") /\ c[1] # "lock"
      BY <2>1, <2>2
    <3>2. \A c \in Elems(a), d \in Rest("command") : d[1] \in Follow(c[1])
      BY <2>1, <2>3
    <3>3. QED
      BY <1>1, <1>7, <2>1, <3>1, <3>2, SpliceFacts
  <2> HIDE DEF T
  <2>5. Left("command")' = {<<x, g>>} \cup T
    BY <2>1, <2>4
  <2>6. CommandPairs'
    <3>1. \A c \in Left("command")' : c \in Left("command") \/ c = <<x, g>>
      BY <1>3, <2>5
    <3>2. \A c \in Left("command") : c \in Left("command")' \/ c = <<o, g>>
      BY <1>3, <2>5
    <3>3. o = "fireDot" => <<"startDeadline", g>> \in Left("command")
      <4>1. <<o, g>> \in Left("command") /\ CommandPairs
        BY <1>1, <1>3 DEF Pairs
      <4>2. QED
        BY <1>2, <4>1 DEF CommandPairs
    <3>4. \A c \in Left("command")' : c[1] \notin Stops
      BY <1>1, <1>3, <2>5, FollowFacts DEF Stops
    <3>5. CommandPairs
      BY <1>1 DEF Pairs
    <3>6. \A c \in Left("command")' : c[1] \notin {"seeFault", "clearFault", "calibrate", "forget"}
      BY <1>1, <1>3, <2>5, FollowFacts
    <3>7. ASSUME NEW k \in Guns,
                 NEW y \in {"dotsRun", "fireDot", "dotOpens", "startTick", "lineRuns"},
                 <<y, k>> \in Left("command")'
          PROVE  <<"startDeadline", k>> \in Left("command")'
      <4>1. CASE <<y, k>> \in Left("command")
        <5>1. <<"startDeadline", k>> \in Left("command")
          BY <3>5, <3>7, <4>1 DEF CommandPairs
        <5>2. QED
          BY <3>2, <5>1
      <4>2. CASE <<y, k>> = <<x, g>>
        <5>1. y = x /\ k = g /\ o = "fireDot"
          BY <1>1, <4>2
        <5>2. QED
          BY <3>2, <3>3, <5>1
      <4>3. QED
        BY <3>1, <3>7, <4>1, <4>2
    <3>8. QED
      BY <3>4, <3>6, <3>7, ProcessNames DEF CommandPairs
  <2>7. KindPairs("command")'
    <3>1. \A c \in Left("command")' : c \in Left("command") \/ c = <<x, g>>
      BY <1>3, <2>5
    <3>2. KindPairs("command")
      BY <1>1 DEF Pairs
    <3>3. x = "lineOpens" => Kind[g] = "Line"
      BY <1>4
    <3>4. x = "dotOpens" => Kind[g] = "Dots"
      BY <1>4
    <3>5. QED
      BY <1>1, <3>1, <3>2, <3>3, <3>4 DEF KindPairs
  <2>8. Pairs'
    BY <1>1, <2>4, <2>6, <2>7, PairsStay, ProcessNames DEF Pairs
  <2>9. ShapeInv'
    BY <2>4, <2>8 DEF ShapeInv
  <2>10. QED
    BY <1>2, <1>3, <1>4, <1>7, <2>4, <2>5, <2>9
<1>8. QED
  BY <1>5, <1>6, <1>7

\* The second section of fire(): a line test is running from here on.
LEMMA OpensShape ==
    ASSUME ShapeInv, NEW p \in Processes, At(p, "lineOpens"),
           Made(p, <<<<"lineRuns", GunOf(p)>>, <<"startDeadline", GunOf(p)>>>>)
    PROVE  LET g == GunOf(p)
           IN  /\ g \in Guns /\ p = "command" /\ Kind[g] = "Line"
               /\ Left("command") = {<<"lineOpens", g>>}
               /\ Left("command")' = {<<"lineRuns", g>>, <<"startDeadline", g>>}
               /\ \A q \in Processes : q # "command" => Left(q)' = Left(q)
               /\ ShapeInv'
<1> DEFINE g == GunOf(p)
           a == <<<<"lineRuns", g>>, <<"startDeadline", g>>>>
<1>1. TodoOK /\ Pairs
  BY DEF ShapeInv
<1>2. g \in Guns /\ "lineOpens" \in OpsOf(p)
  BY <1>1, AtFacts DEF GunOps
<1>3. p = "command"
  BY <1>2, ProcessNames DEF OpsOf, Stops
<1>4. /\ a \in Seq(Calls) /\ Ordered(a)
      /\ Elems(a) = {<<"lineRuns", g>>, <<"startDeadline", g>>}
  <2>1. <<"lineRuns", g>> \in Calls /\ <<"startDeadline", g>> \in Calls
    BY <1>2, CallTypes DEF GunOps
  <2>2. QED
    BY <2>1, FollowFacts, TwoCalls
<1>5. "lineRuns" \in OpsOf("command") /\ "startDeadline" \in OpsOf("command")
  BY DEF OpsOf, Ops
<1> HIDE DEF a
<1>6. /\ Left("command") = {<<"lineOpens", g>>} /\ Left("command")' = Elems(a)
      /\ \A q \in Processes : q # "command" => Left(q)' = Left(q)
      /\ TodoOK' /\ LockInv'
  <2>1. Made("command", a)
    BY <1>3 DEF a
  <2>2. \A c \in Elems(a) : c[1] \in OpsOf("command") /\ c[1] # "lock"
    BY <1>4, <1>5
  <2>3. Follow("lineOpens") = {} /\ "lineOpens" # "lock"
    BY LastFollow
  <2>4. QED
    BY <1>3, <1>4, <2>1, <2>2, <2>3, LastFacts
<1>7. Kind[g] = "Line"
  BY <1>1, <1>2, <1>6 DEF Pairs, KindPairs
<1>8. \A c \in Left("command")' : c[1] \in {"lineRuns", "startDeadline"} /\ c[2] = g
  BY <1>4, <1>6
<1>9. CommandPairs'
  <2>1. <<"startDeadline", g>> \in Left("command")'
    BY <1>4, <1>6
  <2>2. QED
    BY <1>8, <2>1, ProcessNames DEF CommandPairs, Stops
<1>10. KindPairs("command")'
  BY <1>7, <1>8 DEF KindPairs
<1>11. Pairs'
  BY <1>1, <1>6, <1>9, <1>10, PairsStay, ProcessNames DEF Pairs
<1>12. QED
  BY <1>2, <1>3, <1>4, <1>6, <1>7, <1>11 DEF ShapeInv

StopCalls == TakeAll \cup {Call("testModeOff"), Call("abortAll"), Call("clearActive")}

\* The watchdog trips.
LEMMA TripShape ==
    ASSUME ShapeInv, At("watchdog", "readArmed"), Made("watchdog", StopAll)
    PROVE  /\ Left("watchdog") = {Call("readArmed")} /\ Left("watchdog")' = StopCalls
           /\ \A q \in Processes : q # "watchdog" => Left(q)' = Left(q)
           /\ ShapeInv'
<1>1. TodoOK /\ Pairs /\ "watchdog" \in Processes
  BY ProcessNames DEF ShapeInv
<1>2. <<"readArmed", GunOf("watchdog")>> = Call("readArmed")
  BY <1>1, AtFacts, ProcessNames DEF GunOps
<1>3. StopAll \in Seq(Calls) /\ Elems(StopAll) = StopCalls /\ Ordered(StopAll)
  BY StopAllList DEF StopCalls
<1>4. \A c \in StopCalls : c[1] \in {"takeMode", "testModeOff", "abortAll", "clearActive"}
  BY ProcessNames DEF StopCalls, TakeAll
<1>5. \A c \in StopCalls : c[1] \in OpsOf("watchdog") /\ c[1] # "lock"
  <2>1. \A x \in {"takeMode", "testModeOff", "abortAll", "clearActive"} :
           x \in OpsOf("watchdog") /\ x # "lock"
    BY DEF OpsOf, Stops
  <2>2. QED
    BY <1>4, <2>1
<1>6. /\ Left("watchdog") = {Call("readArmed")} /\ Left("watchdog")' = StopCalls
      /\ \A q \in Processes : q # "watchdog" => Left(q)' = Left(q)
      /\ TodoOK' /\ LockInv'
  <2>1. Follow("readArmed") = {} /\ "readArmed" # "lock"
    BY LastFollow
  <2>2. QED
    BY <1>1, <1>2, <1>3, <1>5, <2>1, LastFacts
<1>7. Call("abortAll") \in StopCalls
  BY DEF StopCalls
<1>8. WatchdogPairs'
  BY <1>6, <1>7 DEF WatchdogPairs, Call
<1>9. Pairs'
  BY <1>1, <1>6, <1>8, PairsStay, ProcessNames DEF Pairs
<1>10. QED
  BY <1>6, <1>9 DEF ShapeInv

----------------------------------------------------------------------------
(* Handlers that begin.                                                    *)

CommandCalls ==
    [start     |-> {Call("lock"), Call("cancel"), Call("seeFault")} \cup TakeAll
                      \cup {Call("testModeOff"), Call("setActive")},
     stop      |-> {Call("lock"), Call("cancel")} \cup StopCalls,
     arm       |-> {Call("lock")} \cup TakeAll \cup {Call("testModeOff"), Call("arm")},
     cancel    |-> {Call("lock"), Call("restore")},
     testClose |-> {Call("lock")} \cup TakeAll \cup {Call("testModeOff")}]

CommandNames == {"start", "stop", "arm", "cancel", "testClose"}

LEMMA CommandLists ==
    /\ DOMAIN Command = CommandNames
    /\ \A c \in CommandNames : /\ Command[c] \in Seq(Calls) /\ Ordered(Command[c])
                               /\ Elems(Command[c]) = CommandCalls[c]
<1>1. DOMAIN Command = CommandNames
  BY DEF Command, CommandNames
<1>2. \A x \in {"lock", "cancel", "restore", "seeFault", "arm", "testModeOff", "setActive",
                "abortAll", "clearActive"} : Call(x) \in Calls
  BY CallTypes DEF Ops, GunOps
<1>3. /\ \A x \in {"lock", "cancel", "seeFault"} :
           \A y \in {"takeMode", "testModeOff", "setActive"} : y \in Follow(x)
      /\ \A x \in {"lock", "cancel"} :
           \A y \in {"takeMode", "testModeOff", "abortAll", "clearActive"} : y \in Follow(x)
      /\ \A y \in {"takeMode", "testModeOff", "arm", "restore", "cancel", "seeFault"} :
            y \in Follow("lock")
      /\ "seeFault" \in Follow("cancel")
      /\ \A x \in {"takeMode", "testModeOff"} : "arm" \in Follow(x)
  BY DEF Follow, Stops
<1>4. \A c \in TakeAll : c[1] = "takeMode"
  BY DEF TakeAll
<1>5. ASSUME NEW a \in Seq(Calls), Ordered(a), NEW b \in Seq(Calls), Ordered(b),
             \A c \in Elems(a), d \in Elems(b) : d[1] \in Follow(c[1])
      PROVE  a \o b \in Seq(Calls) /\ Ordered(a \o b) /\ Elems(a \o b) = Elems(a) \cup Elems(b)
  BY <1>5, JoinLists
<1>6. /\ Command["start"] \in Seq(Calls) /\ Ordered(Command["start"])
      /\ Elems(Command["start"]) = CommandCalls["start"]
  <2> DEFINE a == <<Call("lock"), Call("cancel"), Call("seeFault")>>
             A == {Call("lock"), Call("cancel"), Call("seeFault")}
             B == TakeAll \cup {Call("testModeOff"), Call("setActive")}
  <2>1. a \in Seq(Calls) /\ Ordered(a) /\ Elems(a) = A
    BY <1>2, <1>3, ThreeCalls, ProcessNames
  <2>2. Restart \in Seq(Calls) /\ Ordered(Restart) /\ Elems(Restart) = B
    BY RestartList
  <2>3. \A c \in A, d \in B : d[1] \in Follow(c[1])
    BY <1>3, <1>4, ProcessNames
  <2>4. Command["start"] = a \o Restart
    BY DEF Command
  <2>5. CommandCalls["start"] = A \cup B
    BY DEF CommandCalls
  <2> HIDE DEF a, A, B
  <2>6. QED
    BY <1>5, <2>1, <2>2, <2>3, <2>4, <2>5
<1>7. /\ Command["stop"] \in Seq(Calls) /\ Ordered(Command["stop"])
      /\ Elems(Command["stop"]) = CommandCalls["stop"]
  <2> DEFINE a == <<Call("lock"), Call("cancel")>>
             A == {Call("lock"), Call("cancel")}
  <2>1. a \in Seq(Calls) /\ Ordered(a) /\ Elems(a) = A
    BY <1>2, <1>3, TwoCalls, ProcessNames
  <2>2. StopAll \in Seq(Calls) /\ Ordered(StopAll) /\ Elems(StopAll) = StopCalls
    BY StopAllList DEF StopCalls
  <2>3. \A c \in A, d \in StopCalls : d[1] \in Follow(c[1])
    BY <1>3, <1>4, ProcessNames DEF StopCalls
  <2>4. Command["stop"] = a \o StopAll
    BY DEF Command
  <2>5. CommandCalls["stop"] = A \cup StopCalls
    BY DEF CommandCalls
  <2> HIDE DEF a, A
  <2>6. QED
    BY <1>5, <2>1, <2>2, <2>3, <2>4, <2>5
<1> DEFINE l == <<Call("lock")>>
           s == TakeAll \cup {Call("testModeOff")}
<1>8. l \in Seq(Calls) /\ Ordered(l) /\ Elems(l) = {Call("lock")}
  BY <1>2, OneCall
<1>9. StopTests \in Seq(Calls) /\ Ordered(StopTests) /\ Elems(StopTests) = s
  BY StopTestsList
<1>10. \A c \in {Call("lock")}, d \in s : d[1] \in Follow(c[1])
  BY <1>3, <1>4, ProcessNames
<1> DEFINE k == l \o StopTests
<1>11. k \in Seq(Calls) /\ Ordered(k) /\ Elems(k) = {Call("lock")} \cup s
  <2> HIDE DEF l, s
  <2>1. QED
    BY <1>5, <1>8, <1>9, <1>10
<1>12. /\ Command["testClose"] \in Seq(Calls) /\ Ordered(Command["testClose"])
       /\ Elems(Command["testClose"]) = CommandCalls["testClose"]
  <2>1. Command["testClose"] = k
    BY DEF Command
  <2>2. CommandCalls["testClose"] = {Call("lock")} \cup s
    BY DEF CommandCalls
  <2> HIDE DEF k, s
  <2>3. QED
    BY <1>11, <2>1, <2>2
<1>13. /\ Command["arm"] \in Seq(Calls) /\ Ordered(Command["arm"])
       /\ Elems(Command["arm"]) = CommandCalls["arm"]
  <2> DEFINE b == <<Call("arm")>>
  <2>1. b \in Seq(Calls) /\ Ordered(b) /\ Elems(b) = {Call("arm")}
    BY <1>2, OneCall
  <2>2. \A c \in {Call("lock")} \cup s, d \in {Call("arm")} : d[1] \in Follow(c[1])
    BY <1>3, <1>4, ProcessNames
  <2>3. Command["arm"] = k \o b
    BY DEF Command
  <2>4. CommandCalls["arm"] = ({Call("lock")} \cup s) \cup {Call("arm")}
    BY DEF CommandCalls
  <2> HIDE DEF k, b, s
  <2>5. QED
    BY <1>5, <1>11, <2>1, <2>2, <2>3, <2>4
<1>14. /\ Command["cancel"] \in Seq(Calls) /\ Ordered(Command["cancel"])
       /\ Elems(Command["cancel"]) = CommandCalls["cancel"]
  <2>1. Command["cancel"] = <<Call("lock"), Call("restore")>>
    BY DEF Command
  <2>2. CommandCalls["cancel"] = {Call("lock"), Call("restore")}
    BY DEF CommandCalls
  <2>3. QED
    BY <1>2, <1>3, <2>1, <2>2, TwoCalls, ProcessNames
<1>15. QED
  BY <1>1, <1>6, <1>7, <1>12, <1>13, <1>14 DEF CommandNames

\* What Pairs says of each process when its handler begins.
LEMMA ReceiveShape ==
    ASSUME ShapeInv, NEW c \in CommandNames, Begin("command", Command[c])
    PROVE  /\ Left("command") = {} /\ Left("command")' = CommandCalls[c]
           /\ \A q \in Processes : q # "command" => Left(q)' = Left(q)
           /\ ShapeInv'
<1>1. TodoOK /\ Pairs /\ "command" \in Processes
  BY ProcessNames DEF ShapeInv
<1>2. /\ Command[c] \in Seq(Calls) /\ Ordered(Command[c]) /\ Elems(Command[c]) = CommandCalls[c]
  BY CommandLists
<1>3. \A x \in CommandCalls[c] :
         x[1] \in {"lock", "cancel", "restore", "seeFault", "arm", "takeMode", "testModeOff",
                   "setActive", "abortAll", "clearActive"}
  BY ProcessNames DEF CommandCalls, CommandNames, TakeAll, StopCalls
<1>4. Call("lock") \in CommandCalls[c]
  BY DEF CommandCalls, CommandNames
<1>5. Call("seeFault") \in CommandCalls[c] => Call("setActive") \in CommandCalls[c]
  BY ProcessNames DEF CommandCalls, CommandNames, TakeAll, StopCalls
<1>6. \A x \in {"lock", "cancel", "restore", "seeFault", "arm", "takeMode", "testModeOff",
                "setActive", "abortAll", "clearActive"} : x \in OpsOf("command")
  BY DEF OpsOf, Ops
<1>7. /\ Left("command") = {} /\ Left("command")' = CommandCalls[c]
      /\ \A q \in Processes : q # "command" => Left(q)' = Left(q)
      /\ TodoOK' /\ LockInv'
  <2>1. \A x \in Elems(Command[c]) : x[1] \in OpsOf("command")
    BY <1>2, <1>3, <1>6
  <2>2. QED
    BY <1>1, <1>2, <1>4, <2>1, StartFacts
<1>8. CommandPairs'
  <2>1. \A x \in Left("command")' :
           x[1] \in {"lock", "cancel", "restore", "seeFault", "arm", "takeMode", "testModeOff",
                     "setActive", "abortAll", "clearActive"}
    BY <1>3, <1>7
  <2>2. Call("seeFault") \in Left("command")' => Call("setActive") \in Left("command")'
    BY <1>5, <1>7
  <2>3. QED
    BY <2>1, <2>2, ProcessNames DEF CommandPairs
<1>9. KindPairs("command")'
  BY <1>3, <1>7 DEF KindPairs
<1>10. QED
  BY <1>1, <1>7, <1>8, <1>9, PairsStay, ProcessNames DEF ShapeInv, Pairs

LEMMA TestShape ==
    ASSUME ShapeInv, NEW g \in Guns, NEW o \in {"check", "takeMode"},
           Begin("command", <<Call("lock"), <<o, g>>>>)
    PROVE  /\ Left("command") = {} /\ Left("command")' = {Call("lock"), <<o, g>>}
           /\ \A q \in Processes : q # "command" => Left(q)' = Left(q)
           /\ ShapeInv'
<1> DEFINE a == <<Call("lock"), <<o, g>>>>
<1>1. TodoOK /\ Pairs /\ "command" \in Processes
  BY ProcessNames DEF ShapeInv
<1>2. a \in Seq(Calls) /\ Ordered(a) /\ Elems(a) = {Call("lock"), <<o, g>>}
  <2>1. Call("lock") \in Calls /\ <<o, g>> \in Calls
    BY CallTypes DEF Ops, GunOps
  <2>2. o \in Follow("lock")
    BY DEF Follow, Stops
  <2>3. QED
    BY <2>1, <2>2, TwoCalls, ProcessNames
<1>3. "lock" \in OpsOf("command") /\ o \in OpsOf("command")
  BY DEF OpsOf, Ops
<1> HIDE DEF a
<1>4. /\ Left("command") = {} /\ Left("command")' = Elems(a)
      /\ \A q \in Processes : q # "command" => Left(q)' = Left(q)
      /\ TodoOK' /\ LockInv'
  <2>1. \A c \in Elems(a) : c[1] \in OpsOf("command")
    BY <1>2, <1>3, ProcessNames
  <2>2. Begin("command", a) /\ Call("lock") \in Elems(a)
    BY <1>2 DEF a
  <2>3. QED
    BY <1>1, <1>2, <2>1, <2>2, StartFacts
<1>5. \A c \in Left("command")' : c[1] \in {"lock", o}
  BY <1>2, <1>4, ProcessNames
<1>6. CommandPairs'
  BY <1>5, ProcessNames DEF CommandPairs, Stops
<1>7. KindPairs("command")'
  BY <1>5 DEF KindPairs
<1>8. QED
  BY <1>1, <1>2, <1>4, <1>6, <1>7, PairsStay, ProcessNames DEF ShapeInv, Pairs

LEMMA DotShape ==
    ASSUME ShapeInv, NEW g \in Guns, Kind[g] = "Dots", Begin("timer", <<<<"dotOpens", g>>>>)
    PROVE  /\ Left("timer") = {} /\ Left("timer")' = {<<"dotOpens", g>>}
           /\ \A q \in Processes : q # "timer" => Left(q)' = Left(q)
           /\ ShapeInv'
<1> DEFINE a == <<<<"dotOpens", g>>>>
<1>1. TodoOK /\ Pairs /\ "timer" \in Processes /\ "timer" \notin Editors
  BY ProcessNames DEF ShapeInv
<1>2. a \in Seq(Calls) /\ Ordered(a) /\ Elems(a) = {<<"dotOpens", g>>}
  BY CallTypes, OneCall DEF GunOps
<1>3. "dotOpens" \in OpsOf("timer")
  BY DEF OpsOf
<1> HIDE DEF a
<1>4. /\ Left("timer") = {} /\ Left("timer")' = Elems(a)
      /\ \A q \in Processes : q # "timer" => Left(q)' = Left(q)
      /\ TodoOK' /\ LockInv'
  <2>1. \A c \in Elems(a) : c[1] \in OpsOf("timer")
    BY <1>2, <1>3
  <2>2. Begin("timer", a)
    BY DEF a
  <2>3. QED
    BY <1>1, <1>2, <2>1, <2>2, StartFacts
<1>5. KindPairs("timer")'
  BY <1>2, <1>4 DEF KindPairs
<1>6. QED
  BY <1>1, <1>2, <1>4, <1>5, PairsStay, ProcessNames DEF ShapeInv, Pairs

\* The handlers of watchdog, fault and photocell, and of a result that is taken.
LEMMA OtherShape ==
    ASSUME ShapeInv,
           NEW p \in {"watchdog", "fault", "photocell", "service"}, NEW a, NEW A,
           Begin(p, a),
           \/ /\ p = "watchdog" /\ a = <<Call("readLast"), Call("readArmed")>>
              /\ A = {Call("readLast"), Call("readArmed")}
           \/ /\ p = "fault" /\ a = <<Call("abortAll"), Call("setFault"), Call("clearActive")>>
              /\ A = {Call("abortAll"), Call("setFault"), Call("clearActive")}
           \/ /\ p = "photocell" /\ a = <<Call("leadSeen")>>
              /\ A = {Call("leadSeen")}
           \/ /\ p = "photocell" /\ a = <<Call("sheetLeft"), Call("sheetDone")>>
              /\ A = {Call("sheetLeft"), Call("sheetDone")}
           \/ /\ p = "service" /\ a = <<Call("lock"), Call("apply")>>
              /\ A = {Call("lock"), Call("apply")}
    PROVE  /\ Left(p) = {} /\ Left(p)' = A
           /\ \A q \in Processes : q # p => Left(q)' = Left(q)
           /\ ShapeInv'
<1>1. TodoOK /\ Pairs /\ p \in Processes
  BY ProcessNames DEF ShapeInv
<1>2. \A x \in {"readLast", "readArmed", "abortAll", "setFault", "clearActive", "leadSeen",
                "sheetLeft", "sheetDone", "lock", "apply"} : Call(x) \in Calls
  BY CallTypes DEF Ops, GunOps
<1>3. /\ "readArmed" \in Follow("readLast") /\ "setFault" \in Follow("abortAll")
      /\ "clearActive" \in Follow("abortAll") /\ "clearActive" \in Follow("setFault")
      /\ "sheetDone" \in Follow("sheetLeft") /\ "apply" \in Follow("lock")
  BY DEF Follow, Stops
<1>4. a \in Seq(Calls) /\ Ordered(a) /\ Elems(a) = A
  <2>1. CASE p = "fault"
    <3> DEFINE u == Call("abortAll")
               v == Call("setFault")
               w == Call("clearActive")
    <3>1. v[1] \in Follow(u[1]) /\ w[1] \in Follow(u[1]) /\ w[1] \in Follow(v[1])
      BY <1>3, ProcessNames
    <3>2. u \in Calls /\ v \in Calls /\ w \in Calls
      BY <1>2
    <3>3. a = <<u, v, w>> /\ A = {u, v, w}
      BY <2>1
    <3> HIDE DEF u, v, w
    <3>4. <<u, v, w>> \in Seq(Calls) /\ Elems(<<u, v, w>>) = {u, v, w} /\ Ordered(<<u, v, w>>)
      BY <3>1, <3>2, ThreeCalls
    <3>5. QED
      BY <3>3, <3>4
  <2>2. CASE a = <<Call("leadSeen")>> /\ A = {Call("leadSeen")}
    BY <1>2, <2>2, OneCall
  <2>3. ASSUME NEW x \in {"readLast", "sheetLeft", "lock"},
               NEW y \in {"readArmed", "sheetDone", "apply"},
               y \in Follow(x), a = <<Call(x), Call(y)>>, A = {Call(x), Call(y)}
        PROVE  a \in Seq(Calls) /\ Ordered(a) /\ Elems(a) = A
    BY <1>2, <2>3, TwoCalls, ProcessNames
  <2>4. QED
    BY <1>3, <2>1, <2>2, <2>3
<1>5. \A x \in A : x[1] \in OpsOf(p)
  BY ProcessNames DEF OpsOf, Stops
<1>6. /\ Left(p) = {} /\ Left(p)' = A
      /\ \A q \in Processes : q # p => Left(q)' = Left(q)
      /\ TodoOK' /\ LockInv'
  <2>1. p \in Editors => Call("lock") \in Elems(a)
    BY <1>4, ProcessNames
  <2>2. QED
    BY <1>1, <1>4, <1>5, <2>1, StartFacts
<1>7. p = "watchdog" => WatchdogPairs'
  <2>1. p = "watchdog" => A = {Call("readLast"), Call("readArmed")}
    OBVIOUS
  <2>2. QED
    BY <1>6, <2>1, ProcessNames DEF WatchdogPairs, Stops
<1>8. p = "photocell" => SensorPairs'
  <2>1. p = "photocell" => A = {Call("leadSeen")} \/ A = {Call("sheetLeft"), Call("sheetDone")}
    OBVIOUS
  <2>2. QED
    BY <1>6, <2>1, ProcessNames DEF SensorPairs
<1>9. p = "service" => ServicePairs'
  <2>1. p = "service" => A = {Call("lock"), Call("apply")}
    OBVIOUS
  <2>2. QED
    BY <1>6, <2>1, ProcessNames DEF ServicePairs
<1>10. Pairs'
  BY <1>1, <1>6, <1>7, <1>8, <1>9, PairsStay, ProcessNames DEF Pairs
<1>11. QED
  BY <1>6, <1>10 DEF ShapeInv

----------------------------------------------------------------------------
(* Every step keeps the calls in order.                                    *)

\* Process p has made a call that makes no other.
Popped(p, o) ==
    /\ Left(p) = {<<o, GunOf(p)>>} \cup Left(p)' /\ \A c \in Left(p)' : c[1] \in Follow(o)
    /\ \A q \in Processes : q # p => Left(q)' = Left(q)

LEMMA PopStep ==
    ASSUME ShapeInv, NEW p \in Processes, NEW o, o # "lock", At(p, o), Made(p, <<>>)
    PROVE  Popped(p, o) /\ ShapeInv'
<1>1. TodoOK
  BY DEF ShapeInv
<1>2. Popped(p, o)
  BY <1>1, PopFacts DEF Popped
<1>3. QED
  BY <1>2, PopShape

LEMMA LockStep ==
    ASSUME ShapeInv, NEW p \in Processes, Lock(p)
    PROVE  Popped(p, "lock") /\ ShapeInv' /\ p \in Editors
<1>1. TodoOK /\ At(p, "lock") /\ Made(p, <<>>) /\ \A q \in Editors \ {p} : ~Holds(q)
  BY DEF ShapeInv, Lock
<1>2. Popped(p, "lock")
  BY <1>1, PopFacts DEF Popped
<1>3. ASSUME NEW q \in Editors \ {p} PROVE ~Holding(q)
  <2>1. q \in Processes /\ todo[q] \in Seq(Calls)
    BY <1>1, ProcessNames DEF TodoOK
  <2>2. CASE Free(q)
    BY <2>2, NoCalls DEF Free, Holding, Left
  <2>3. CASE At(q, "lock")
    <3>1. ~Free(q) /\ Head(todo[q]) = Call("lock")
      BY <1>1, <2>1, <2>3, AtFacts DEF GunOps
    <3>2. Call("lock") \in Left(q)
      BY <1>1, <2>1, <3>1, RestFacts
    <3>3. QED
      BY <3>2 DEF Holding
  <2>4. QED
    BY <1>1, <1>3, <2>2, <2>3 DEF Holds
<1>4. p \in Editors
  <2>1. "lock" \in OpsOf(p)
    BY <1>1, AtFacts
  <2>2. QED
    BY <2>1, ProcessNames DEF OpsOf, Stops
<1>5. QED
  BY <1>1, <1>2, <1>3, <1>4, PopShape

\* What p has left when it is about to make a call.
LEMMA AtHead ==
    ASSUME ShapeInv, NEW p \in Processes, NEW o, At(p, o)
    PROVE  /\ Left(p) = {<<o, GunOf(p)>>} \cup Rest(p) /\ \A c \in Rest(p) : c[1] \in Follow(o)
           /\ o \in OpsOf(p)
           /\ o \in GunOps => GunOf(p) \in Guns
           /\ o \notin GunOps => <<o, GunOf(p)>> = Call(o)
           /\ o # "lock" => Holding(p)
<1>1. TodoOK
  BY DEF ShapeInv
<1>2. /\ ~Free(p) /\ Head(todo[p]) = <<o, GunOf(p)>> /\ o \in OpsOf(p)
      /\ o \in GunOps => GunOf(p) \in Guns
      /\ o \notin GunOps => Head(todo[p]) = Call(o)
  BY <1>1, AtFacts
<1>3. Head(todo[p])[1] = o
  BY <1>2
<1>4. /\ Left(p) = {<<o, GunOf(p)>>} \cup Rest(p) /\ \A c \in Rest(p) : c[1] \in Follow(o)
  BY <1>1, <1>2, <1>3, RestFacts
<1>5. o # "lock" => Holding(p)
  BY <1>4, FollowFacts, ProcessNames DEF Holding
<1>6. QED
  BY <1>2, <1>4, <1>5

\* While one editor holds the lock, the other is idle or waits for it.
LEMMA Alone ==
    ASSUME ShapeInv, NEW p \in Editors, Holding(p), NEW q \in Editors, q # p
    PROVE  /\ \A c \in Left(q) : c[1] \in {"lock"} \cup Follow("lock")
           /\ q = "service" => Left(q) \subseteq {Call("lock"), Call("apply")}
<1>1. TodoOK /\ LockInv /\ Pairs /\ q \in Processes /\ ~Holding(q)
  BY ProcessNames DEF ShapeInv, LockInv
<1>2. CASE Left(q) = {}
  BY <1>2
<1>3. CASE Call("lock") \in Left(q)
  <2>1. todo[q] \in Seq(Calls) /\ ~Free(q)
    BY <1>1, <1>3, NoCalls DEF TodoOK, Free, Left
  <2>2. Left(q) = {Head(todo[q])} \cup Rest(q) /\ \A c \in Rest(q) : c[1] \in Follow(Head(todo[q])[1])
    BY <1>1, <2>1, RestFacts
  <2>3. Call("lock") \notin Rest(q)
    BY <2>2, FollowFacts, ProcessNames
  <2>4. Head(todo[q])[1] = "lock"
    BY <1>3, <2>2, <2>3, ProcessNames
  <2>5. \A c \in Left(q) : c[1] \in {"lock"} \cup Follow("lock")
    BY <2>2, <2>4
  <2>6. q = "service" => Left(q) \subseteq {Call("lock"), Call("apply")}
    BY <1>1, <1>3 DEF Pairs, ServicePairs
  <2>7. QED
    BY <2>5, <2>6
<1>4. QED
  BY <1>1, <1>2, <1>3 DEF Holding

LEMMA SharedShape ==
    ASSUME ShapeInv, NEW p \in Processes, SharedStep(p)
    PROVE  ShapeInv'
<1>1. CASE Lock(p)
  BY <1>1, LockStep
<1>2. CASE TakeMode(p)
  <2>1. CASE test[GunOf(p)].mode = "None"
    <3>1. At(p, "takeMode") /\ Made(p, <<>>)
      BY <1>2, <2>1 DEF TakeMode
    <3>2. QED
      BY <3>1, PopStep
  <2>2. CASE test[GunOf(p)].mode # "None"
    BY <1>2, <2>2, TakeModeShape
  <2>3. QED
    BY <2>1, <2>2
<1>3. CASE FireOpens(p)
  <2>1. CASE Made(p, <<>>)
    <3>1. ASSUME NEW o \in {"lineOpens", "dotOpens"}, At(p, o) PROVE ShapeInv'
      BY <2>1, <3>1, PopStep
    <3>2. QED
      BY <1>3, <3>1 DEF FireOpens
  <2>2. CASE /\ At(p, "lineOpens")
             /\ Made(p, <<<<"lineRuns", GunOf(p)>>, <<"startDeadline", GunOf(p)>>>>)
    BY <2>2, OpensShape
  <2>3. QED
    BY <1>3, <2>1, <2>2 DEF FireOpens
<1>4. ASSUME NEW o \in {"stopTick", "stopDeadline", "abort", "abortAll", "testModeOff",
                        "clearActive", "setActive"}, At(p, o), Made(p, <<>>)
      PROVE  ShapeInv'
  BY <1>4, PopStep
<1>5. QED
  BY <1>1, <1>2, <1>3, <1>4 DEF SharedStep, StopTimer, Abort, TestModeOff, ClearActive, SetActive

LEMMA CommandShape ==
    ASSUME ShapeInv, ~(sys.active /\ sys.calibrating), CommandStep
    PROVE  ShapeInv'
<1>1. "command" \in Processes
  BY ProcessNames
<1>2. ASSUME NEW o \in {"seeFault", "clearFault", "cancel", "restore", "calibrate", "forget",
                        "lead", "lineRuns", "dotsRun", "startTick", "startDeadline"},
             At("command", o), Made("command", <<>>)
      PROVE  ShapeInv'
  BY <1>1, <1>2, PopStep
<1>3. CASE SeeFault
  <2>1. CASE sys.fault
    BY <1>3, <2>1, SeeFaultShape
  <2>2. CASE ~sys.fault
    BY <1>2, <1>3, <2>2 DEF SeeFault
  <2>3. QED
    BY <2>1, <2>2
<1>4. CASE Cancel
  <2>1. CASE At("command", "restore") /\ Made("command", Restart)
    BY <2>1, RestartShape, ProcessNames
  <2>2. CASE Made("command", <<>>)
    BY <1>2, <1>4, <2>2 DEF Cancel
  <2>3. QED
    BY <1>4, <2>1, <2>2 DEF Cancel, Leave
<1>5. CASE Arm
  BY <1>5, ArmShape
<1>6. CASE CheckTest
  BY <1>6, CheckShape
<1>7. CASE TryTest
  BY <1>7, TryShape
<1>8. CASE Fire
  BY <1>8, FireShape DEF Fire
<1>9. CASE ClearFault \/ Calibrate \/ Forget \/ Lead \/ Runs \/ StartTimer
  BY <1>2, <1>9 DEF ClearFault, Calibrate, Forget, Lead, Runs, StartTimer
<1>10. QED
  BY <1>3, <1>4, <1>5, <1>6, <1>7, <1>8, <1>9 DEF CommandStep

LEMMA HandlerShape ==
    ASSUME ShapeInv, ~(sys.active /\ sys.calibrating), NEW p \in Processes, HandlerOf(p)
    PROVE  ShapeInv'
<1>1. ASSUME NEW o \in {"readLast", "readArmed", "setFault", "leadSeen", "sheetLeft", "sheetDone",
                        "apply"}, At(p, o), Made(p, <<>>)
      PROVE  ShapeInv'
  BY <1>1, PopStep
<1>2. CASE SharedStep(p)
  BY <1>2, SharedShape
<1>3. CASE p = "command" /\ CommandStep
  BY <1>3, CommandShape
<1>4. CASE p = "watchdog" /\ (ReadLast \/ ReadArmed)
  <2>1. CASE At("watchdog", "readArmed") /\ Made("watchdog", StopAll)
    BY <2>1, TripShape
  <2>2. QED
    BY <1>1, <1>4, <2>1 DEF ReadLast, ReadArmed
<1>5. CASE p = "fault" /\ SetFault
  BY <1>1, <1>5 DEF SetFault
<1>6. CASE p = "photocell" /\ PhotocellStores
  BY <1>1, <1>6 DEF PhotocellStores
<1>7. CASE p = "service" /\ Apply
  <2>1. CASE At("service", "apply") /\ Made("service", Restart)
    BY <2>1, RestartShape, ProcessNames
  <2>2. CASE Made("service", <<>>)
    BY <1>1, <1>7, <2>2 DEF Apply
  <2>3. QED
    BY <1>7, <2>1, <2>2 DEF Apply, Leave
<1>8. QED
  BY <1>2, <1>3, <1>4, <1>5, <1>6, <1>7 DEF HandlerOf

\* Nobody's calls change.
LEMMA SameTodo ==
    ASSUME todo' = todo
    PROVE  (ShapeInv => ShapeInv') /\ \A q \in Processes : Left(q)' = Left(q)
<1>1. \A q : Left(q)' = Left(q)
  BY DEF Left
<1>2. ASSUME ShapeInv PROVE ShapeInv'
  <2>1. TodoOK'
    BY <1>1, <1>2 DEF ShapeInv, TodoOK
  <2>2. Pairs'
    BY <1>1, <1>2, PairsStay DEF ShapeInv, Pairs
  <2>3. LockInv'
    BY <1>1, <1>2 DEF ShapeInv, LockInv, Holding
  <2>4. QED
    BY <2>1, <2>2, <2>3 DEF ShapeInv
<1>3. QED
  BY <1>1, <1>2

LEMMA TickShape ==
    ASSUME ShapeInv, Tick
    PROVE  /\ ShapeInv'
           /\ \A q \in Processes : q # "watchdog" => Left(q)' = Left(q)
           /\ \/ Left("watchdog") = {} /\ Left("watchdog")' = {Call("readLast"), Call("readArmed")}
                 /\ link'.lag = 0
              \/ Left("watchdog")' = Left("watchdog") /\ ~Free("watchdog")
<1> DEFINE a == <<Call("readLast"), Call("readArmed")>>
           A == {Call("readLast"), Call("readArmed")}
<1>1. TodoOK /\ Pairs /\ "watchdog" \in Processes
  BY ProcessNames DEF ShapeInv
<1>2. CASE Free("watchdog")
  <2>1. todo' = [todo EXCEPT !["watchdog"] = a]
    BY <1>2 DEF Tick
  <2>2. todo'["watchdog"] = a /\ \A q \in Processes : q # "watchdog" => todo'[q] = todo[q]
    BY <1>1, <2>1 DEF TodoOK
  <2>3. a \in Seq(Calls) /\ Ordered(a) /\ Elems(a) = A
    <3>1. Call("readLast") \in Calls /\ Call("readArmed") \in Calls
      BY CallTypes DEF Ops, GunOps
    <3>2. "readArmed" \in Follow("readLast")
      BY DEF Follow, Stops
    <3>3. QED
      BY <3>1, <3>2, TwoCalls, ProcessNames
  <2>4. \A c \in A : c[1] \in OpsOf("watchdog")
    BY ProcessNames DEF OpsOf
  <2> HIDE DEF a
  <2>5. /\ Left("watchdog") = {} /\ Left("watchdog")' = A
        /\ \A q \in Processes : q # "watchdog" => Left(q)' = Left(q)
    BY <1>2, <2>2, <2>3, NoCalls DEF Left, Free
  <2>6. TodoOK'
    <3>1. todo' \in [Processes -> Seq(Calls)]
      BY <1>1, <2>1, <2>3 DEF TodoOK
    <3>2. \A q \in Processes : Ordered(todo'[q]) /\ \A c \in Left(q)' : c[1] \in OpsOf(q)
      BY <1>1, <2>2, <2>3, <2>4, <2>5 DEF TodoOK
    <3>3. QED
      BY <3>1, <3>2 DEF TodoOK
  <2>7. WatchdogPairs'
    BY <2>5, ProcessNames DEF WatchdogPairs, Stops
  <2>8. Pairs'
    BY <1>1, <2>5, <2>7, PairsStay, ProcessNames DEF Pairs
  <2>9. LockInv'
    BY <2>5, ProcessNames DEF ShapeInv, LockInv, Holding
  <2>10. link'.lag = 0
    <3>1. link' = [link EXCEPT !.quiet = Min({@ + 1, Timeout + 2}), !.lag = 0]
      BY <1>2 DEF Tick
    <3>2. QED
      BY <3>1
  <2>11. QED
    BY <2>5, <2>6, <2>8, <2>9, <2>10 DEF ShapeInv
<1>3. CASE ~Free("watchdog")
  <2>1. todo' = todo
    BY <1>3 DEF Tick
  <2>2. QED
    BY <1>3, <1>1, <2>1, SameTodo
<1>4. QED
  BY <1>2, <1>3

LEMMA InputShape ==
    ASSUME ShapeInv, KindInv, NEW i \in Inputs, Input(i)
    PROVE  ShapeInv'
<1>1. ASSUME NEW c \in CommandNames, Receive(c) PROVE ShapeInv'
  BY <1>1, ReceiveShape DEF Receive
<1>2. ASSUME NEW g \in Guns, ReceiveTest(g) PROVE ShapeInv'
  <2>1. PICK o \in {"check", "takeMode"} : Begin("command", <<Call("lock"), <<o, g>>>>)
    BY <1>2 DEF ReceiveTest
  <2>2. QED
    BY <2>1, TestShape
<1>3. ASSUME NEW g \in Guns, TickDot(g) PROVE ShapeInv'
  <2>1. Kind[g] = "Dots" /\ Begin("timer", <<<<"dotOpens", g>>>>)
    BY <1>3 DEF TickDot, KindInv
  <2>2. QED
    BY <2>1, DotShape
<1>4. CASE Tick
  BY <1>4, TickShape
<1>5. CASE FaultIsr
  <2>1. Begin("fault", <<Call("abortAll"), Call("setFault"), Call("clearActive")>>)
    BY <1>5 DEF FaultIsr
  <2>2. QED
    BY <2>1, OtherShape
<1>6. CASE LeadingEdge
  <2>1. Begin("photocell", <<Call("leadSeen")>>)
    BY <1>6 DEF LeadingEdge
  <2>2. QED
    BY <2>1, OtherShape
<1>7. CASE FallingEdge
  <2>1. Begin("photocell", <<Call("sheetLeft"), Call("sheetDone")>>)
    BY <1>7 DEF FallingEdge
  <2>2. QED
    BY <2>1, OtherShape
<1>8. CASE todo' = todo
  BY <1>8, SameTodo
<1>9. QED
  <2>1. \A g \in Guns : Deadline(g) \/ SheetFires(g) => todo' = todo
    BY DEF Deadline, SheetFires
  <2>2. Ping \/ SafetyStop => todo' = todo
    BY DEF Ping, SafetyStop
  <2>3. QED
    BY <1>1, <1>2, <1>3, <1>4, <1>5, <1>6, <1>7, <1>8, <2>1, <2>2, CommandLists DEF Input

LEMMA WorldShape ==
    ASSUME ShapeInv, World
    PROVE  ShapeInv'
<1>1. CASE TakePending
  <2>1. Begin("service", <<Call("lock"), Call("apply")>>)
    BY <1>1 DEF TakePending
  <2>2. QED
    BY <2>1, OtherShape
<1>2. CASE HandOver \/ \E g \in Guns : GunCloses(g)
  BY <1>2, SameTodo DEF HandOver, GunCloses
<1>3. QED
  BY <1>1, <1>2 DEF World

LEMMA ShapeStep ==
    ASSUME ShapeInv, KindInv, ~(sys.active /\ sys.calibrating), Next
    PROVE  ShapeInv'
BY HandlerShape, WorldShape, InputShape DEF Next, Handler

LEMMA ShapeStays ==
    ASSUME UNCHANGED vars
    PROVE  (ShapeInv => ShapeInv') /\ \A q \in Processes : Left(q)' = Left(q)
BY SameTodo DEF vars

----------------------------------------------------------------------------
(* The modes exclude each other.                                           *)

\* The calls of the editors, and what they say of the mode, stay what they are.
LEMMA ModeFrame ==
    ASSUME ModeInv, \A q \in Editors : Left(q)' = Left(q),
           sys'.active => sys.active, sys'.calibrating <=> sys.calibrating,
           \A g \in Guns : test'[g].mode \in {test[g].mode, "None"}
    PROVE  ModeInv'
<1>1. "command" \in Editors
  BY ProcessNames
<1>2. /\ ~(sys'.active /\ sys'.calibrating)
      /\ \A p \in Editors :
            Call("setActive") \in Left(p)' /\ Call("cancel") \notin Left(p)' => ~sys'.calibrating
      /\ Call("calibrate") \in Left("command")' /\ Call("clearActive") \notin Left("command")'
            => ~sys'.active
      /\ Call("lead") \in Left("command")' /\ Call("calibrate") \notin Left("command")'
            => sys'.calibrating
      /\ \A c \in Left("command")' : c[1] \in TestOps => ~sys'.active /\ ~sys'.calibrating
  BY <1>1 DEF ModeInv
<1>3. \A g \in Guns :
          /\ sys'.active \/ sys'.calibrating => test'[g].mode = "None"
          /\ \A p \in Editors, o \in {"setActive", "arm", "calibrate"} :
                Call(o) \in Left(p)' /\ test'[g].mode # "None" => <<"takeMode", g>> \in Left(p)'
  BY DEF ModeInv
<1>4. QED
  BY <1>2, <1>3 DEF ModeInv, Call, TestOps

\* A call is made that makes no other.
LEMMA ModePop ==
    ASSUME ModeInv, NEW p \in Processes, NEW o, Popped(p, o),
           sys'.active => sys.active, sys'.calibrating <=> sys.calibrating,
           \A g \in Guns : test'[g].mode \in {test[g].mode, "None"},
           o = "takeMode" => test'[GunOf(p)].mode = "None",
           o = "cancel" => ~sys.calibrating, o = "clearActive" => ~sys'.active, o # "calibrate"
    PROVE  ModeInv'
<1>1. "command" \in Editors /\ Editors \subseteq Processes /\ \A x : Call(x)[1] = x
  BY ProcessNames
<1>2. \A q \in Editors : \A c \in Left(q)' : c \in Left(q)
  BY <1>1 DEF Popped
<1>3. \A q \in Editors : \A c \in Left(q) : c \in Left(q)' \/ (q = p /\ c = <<o, GunOf(p)>>)
  BY <1>1 DEF Popped
<1>4. ~(sys'.active /\ sys'.calibrating)
  BY DEF ModeInv
<1>5. ASSUME NEW q \in Editors, Call("setActive") \in Left(q)', Call("cancel") \notin Left(q)'
      PROVE  ~sys'.calibrating
  <2>1. Call("setActive") \in Left(q)
    BY <1>2, <1>5
  <2>2. CASE Call("cancel") \in Left(q)
    <3>1. o = "cancel"
      BY <1>1, <1>3, <1>5, <2>2
    <3>2. QED
      BY <3>1
  <2>3. QED
    BY <2>1, <2>2 DEF ModeInv
<1>6. ASSUME Call("calibrate") \in Left("command")', Call("clearActive") \notin Left("command")'
      PROVE  ~sys'.active
  <2>1. Call("calibrate") \in Left("command")
    BY <1>1, <1>2, <1>6
  <2>2. CASE Call("clearActive") \in Left("command")
    <3>1. o = "clearActive"
      BY <1>1, <1>3, <1>6, <2>2
    <3>2. QED
      BY <3>1
  <2>3. QED
    BY <2>1, <2>2 DEF ModeInv
<1>7. ASSUME Call("lead") \in Left("command")', Call("calibrate") \notin Left("command")'
      PROVE  sys'.calibrating
  <2>1. Call("lead") \in Left("command") /\ Call("calibrate") \notin Left("command")
    BY <1>1, <1>2, <1>3, <1>7
  <2>2. QED
    BY <2>1 DEF ModeInv
<1>8. ASSUME NEW c \in Left("command")', c[1] \in TestOps PROVE ~sys'.active /\ ~sys'.calibrating
  BY <1>1, <1>2, <1>8 DEF ModeInv
<1>9. ASSUME NEW g \in Guns, sys'.active \/ sys'.calibrating PROVE test'[g].mode = "None"
  BY <1>9 DEF ModeInv
<1>10. ASSUME NEW g \in Guns, NEW q \in Editors, NEW x \in {"setActive", "arm", "calibrate"},
              Call(x) \in Left(q)', test'[g].mode # "None"
       PROVE  <<"takeMode", g>> \in Left(q)'
  <2>1. Call(x) \in Left(q) /\ test[g].mode # "None"
    BY <1>2, <1>10
  <2>2. <<"takeMode", g>> \in Left(q)
    BY <2>1 DEF ModeInv
  <2>3. <<"takeMode", g>> # <<o, GunOf(p)>>
    BY <1>10
  <2>4. QED
    BY <1>3, <2>2, <2>3
<1>11. QED
  BY <1>4, <1>5, <1>6, <1>7, <1>8, <1>9, <1>10 DEF ModeInv, Call, TestOps

\* The machine runs only under the lock, when every test has ended.
LEMMA ModeActive ==
    ASSUME ShapeInv, ModeInv, NEW p \in Processes, SetActive(p)
    PROVE  ModeInv'
<1>1. At(p, "setActive") /\ Made(p, <<>>) /\ sys' = [sys EXCEPT !.active = TRUE] /\ test' = test
  BY DEF SetActive
<1>2. sys'.active /\ (sys'.calibrating <=> sys.calibrating)
  BY <1>1
<1>3. Left(p) = {Call("setActive")} /\ "setActive" \in OpsOf(p) /\ Holding(p)
  <2>1. "setActive" \notin GunOps /\ "setActive" # "lock"
    BY DEF GunOps
  <2>2. QED
    BY <1>1, <2>1, AtHead, FollowFacts
<1>4. p \in Editors
  BY <1>3, ProcessNames DEF OpsOf, Stops
<1>5. Popped(p, "setActive")
  BY <1>1, PopStep
<1>6. Left(p)' = {} /\ \A q \in Processes : q # p => Left(q)' = Left(q)
  BY <1>5, FollowFacts DEF Popped
<1>7. ~sys.calibrating
  BY <1>3, <1>4, ProcessNames DEF ModeInv
<1>8. \A g \in Guns : test[g].mode = "None"
  BY <1>3, <1>4, ProcessNames DEF ModeInv
<1>9. \A c \in Left("command")' : c[1] \in {"lock"} \cup Follow("lock")
  <2>1. CASE p = "command"
    BY <1>6, <2>1
  <2>2. CASE p # "command"
    <3>1. \A c \in Left("command") : c[1] \in {"lock"} \cup Follow("lock")
      BY <1>3, <1>4, <2>2, Alone, ProcessNames
    <3>2. QED
      BY <1>6, <2>2, <3>1, ProcessNames
  <2>3. QED
    BY <2>1, <2>2
<1>10. "calibrate" \notin Follow("lock") /\ "lead" \notin Follow("lock") /\ TestOps \cap Follow("lock") = {}
  BY DEF Follow, Stops, TestOps
<1>11. ~(sys'.active /\ sys'.calibrating) /\ ~sys'.calibrating
  BY <1>2, <1>7
<1>12. /\ Call("calibrate") \notin Left("command")' /\ Call("lead") \notin Left("command")'
       /\ \A c \in Left("command")' : c[1] \notin TestOps
  BY <1>9, <1>10, ProcessNames DEF TestOps
<1>13. \A g \in Guns : test'[g].mode = "None"
  BY <1>1, <1>8
<1>14. QED
  BY <1>11, <1>12, <1>13 DEF ModeInv, Call, TestOps

LEMMA ModeShared ==
    ASSUME ShapeInv, ModeInv, DataOK, NEW p \in Processes, SharedStep(p)
    PROVE  ModeInv'
<1>1. CASE Lock(p)
  <2>1. Popped(p, "lock") /\ sys' = sys /\ test' = test
    BY <1>1, LockStep DEF Lock, Untouched
  <2>2. QED
    BY <2>1, ModePop
<1>2. CASE TakeMode(p)
  <2>1. /\ At(p, "takeMode") /\ sys' = sys
        /\ test' = [test EXCEPT ![GunOf(p)].mode = "None"]
    BY <1>2 DEF TakeMode
  <2>2. GunOf(p) \in Guns /\ test \in [Guns -> Tests]
    BY <2>1, AtHead DEF GunOps, DataOK
  <2>3. \A g \in Guns : test'[g].mode = IF g = GunOf(p) THEN "None" ELSE test[g].mode
    BY <2>1, <2>2 DEF Tests
  <2>4. CASE test[GunOf(p)].mode = "None"
    <3>1. Made(p, <<>>)
      BY <1>2, <2>4 DEF TakeMode
    <3>2. Popped(p, "takeMode")
      BY <2>1, <3>1, PopStep
    <3>3. \A g \in Guns : test'[g].mode \in {test[g].mode, "None"}
      BY <2>3
    <3>4. test'[GunOf(p)].mode = "None"
      BY <2>2, <2>3
    <3>5. (sys'.active => sys.active) /\ (sys'.calibrating <=> sys.calibrating)
      BY <2>1
    <3>6. QED
      BY <3>2, <3>3, <3>4, <3>5, ModePop
  <2>5. CASE test[GunOf(p)].mode # "None"
    <3> DEFINE g == GunOf(p)
               A == {<<"stopTick", g>>, <<"stopDeadline", g>>, <<"abort", g>>}
    <3>1. PICK T : /\ Left(p) = {<<"takeMode", g>>} \cup T /\ Left(p)' = A \cup T
                   /\ \A q \in Processes : q # p => Left(q)' = Left(q)
      BY <1>2, <2>5, TakeModeShape
    <3>2. \A q \in Editors : \A c \in Left(q)' : c \in Left(q) \/ c[1] \in {"stopTick", "stopDeadline", "abort"}
      BY <3>1, ProcessNames
    <3>3. \A q \in Editors : \A c \in Left(q) : c \in Left(q)' \/ c = <<"takeMode", g>>
      BY <3>1, ProcessNames
    <3> HIDE DEF A
    <3>4. "command" \in Editors /\ \A x : Call(x)[1] = x
      BY ProcessNames
    <3>5. \A q \in Editors, x \in {"setActive", "cancel", "calibrate", "clearActive", "lead", "arm"} :
             Call(x) \in Left(q)' <=> Call(x) \in Left(q)
      BY <3>2, <3>3, <3>4
    <3>6. /\ \A q \in Editors :
               Call("setActive") \in Left(q)' /\ Call("cancel") \notin Left(q)' => ~sys'.calibrating
          /\ Call("calibrate") \in Left("command")' /\ Call("clearActive") \notin Left("command")'
               => ~sys'.active
          /\ Call("lead") \in Left("command")' /\ Call("calibrate") \notin Left("command")'
               => sys'.calibrating
          /\ ~(sys'.active /\ sys'.calibrating)
      BY <2>1, <3>4, <3>5 DEF ModeInv
    <3>7. \A c \in Left("command")' : c[1] \in TestOps => ~sys'.active /\ ~sys'.calibrating
      BY <2>1, <3>2, <3>4 DEF ModeInv, TestOps
    <3>8. ASSUME NEW k \in Guns
          PROVE  /\ sys'.active \/ sys'.calibrating => test'[k].mode = "None"
                 /\ \A q \in Editors, x \in {"setActive", "arm", "calibrate"} :
                      Call(x) \in Left(q)' /\ test'[k].mode # "None" => <<"takeMode", k>> \in Left(q)'
      <4>1. sys'.active \/ sys'.calibrating => test'[k].mode = "None"
        BY <2>1, <2>3 DEF ModeInv
      <4>2. ASSUME NEW q \in Editors, NEW x \in {"setActive", "arm", "calibrate"},
                   Call(x) \in Left(q)', test'[k].mode # "None"
            PROVE  <<"takeMode", k>> \in Left(q)'
        <5>1. k # g /\ test[k].mode # "None"
          BY <2>3, <4>2
        <5>2. <<"takeMode", k>> \in Left(q)
          BY <3>5, <4>2, <5>1 DEF ModeInv
        <5>3. QED
          BY <3>3, <5>1, <5>2
      <4>3. QED
        BY <4>1, <4>2
    <3>9. QED
      BY <3>6, <3>7, <3>8 DEF ModeInv, Call, TestOps
  <2>6. QED
    BY <2>4, <2>5
<1>3. CASE StopTimer(p)
  <2>1. PICK o \in {"stopTick", "stopDeadline"} : At(p, o)
    BY <1>3 DEF StopTimer
  <2>2. Popped(p, o)
    BY <1>3, <2>1, PopStep DEF StopTimer
  <2>3. GunOf(p) \in Guns /\ test \in [Guns -> Tests]
    BY <2>1, AtHead DEF GunOps, DataOK
  <2>4. sys' = sys /\ \A g \in Guns : test'[g].mode = test[g].mode
    BY <1>3, <2>3 DEF StopTimer, Tests
  <2>5. QED
    BY <2>2, <2>4, ModePop
<1>4. CASE Abort(p)
  <2>1. PICK o \in {"abort", "abortAll"} : At(p, o)
    BY <1>4 DEF Abort
  <2>2. Popped(p, o) /\ sys' = sys /\ test' = test
    BY <1>4, <2>1, PopStep DEF Abort
  <2>3. QED
    BY <2>2, ModePop
<1>5. CASE TestModeOff(p)
  <2>1. Popped(p, "testModeOff") /\ sys' = sys /\ test' = test
    BY <1>5, PopStep DEF TestModeOff
  <2>2. QED
    BY <2>1, ModePop
<1>6. CASE ClearActive(p)
  <2>1. Popped(p, "clearActive") /\ test' = test /\ sys' = [sys EXCEPT !.active = FALSE]
    BY <1>6, PopStep DEF ClearActive
  <2>2. ~sys'.active /\ (sys'.calibrating <=> sys.calibrating)
    BY <2>1
  <2>3. QED
    BY <2>1, <2>2, ModePop
<1>7. CASE SetActive(p)
  BY <1>7, ModeActive
<1>8. CASE FireOpens(p)
  <2>1. sys' = sys /\ test' = test
    BY <1>8 DEF FireOpens
  <2>2. CASE Made(p, <<>>)
    <3>1. PICK o \in {"lineOpens", "dotOpens"} : At(p, o)
      BY <1>8 DEF FireOpens
    <3>2. Popped(p, o)
      BY <2>2, <3>1, PopStep
    <3>3. QED
      BY <2>1, <3>2, ModePop
  <2>3. CASE /\ At(p, "lineOpens")
             /\ Made(p, <<<<"lineRuns", GunOf(p)>>, <<"startDeadline", GunOf(p)>>>>)
    <3> DEFINE g == GunOf(p)
    <3>1. /\ Left("command") = {<<"lineOpens", g>>}
          /\ Left("command")' = {<<"lineRuns", g>>, <<"startDeadline", g>>}
          /\ Left("service")' = Left("service")
      BY <2>3, OpensShape, ProcessNames
    <3>2. ~sys'.active /\ ~sys'.calibrating
      BY <2>1, <3>1 DEF ModeInv, TestOps
    <3>3. \A x \in {"setActive", "arm", "calibrate", "lead"} :
             /\ Call(x) \notin Left("command")'
             /\ Call(x) \in Left("service")' <=> Call(x) \in Left("service")
      BY <3>1, ProcessNames
    <3>4. \A k \in Guns : \A q \in Editors, x \in {"setActive", "arm", "calibrate"} :
             Call(x) \in Left(q)' /\ test'[k].mode # "None" => <<"takeMode", k>> \in Left(q)'
      BY <2>1, <3>1, <3>3, ProcessNames DEF ModeInv
    <3>5. QED
      BY <3>2, <3>3, <3>4 DEF ModeInv, Call, TestOps
  <2>4. QED
    BY <1>8, <2>2, <2>3 DEF FireOpens
<1>9. QED
  BY <1>1, <1>2, <1>3, <1>4, <1>5, <1>6, <1>7, <1>8 DEF SharedStep

\* A list of calls of a command, or of the service, that is none of the above.
LEMMA ModeQuiet ==
    ASSUME ModeInv, NEW p \in Editors,
           \A q \in Editors : q # p => Left(q)' = Left(q),
           \A c \in Left(p)' : c[1] \notin TestOps \cup {"calibrate", "lead"},
           Call("setActive") \in Left(p)' => Call("cancel") \in Left(p)' \/ ~sys'.calibrating,
           \A x \in {"setActive", "arm"} : Call(x) \in Left(p)' => TakeAll \subseteq Left(p)',
           sys'.active <=> sys.active, sys'.calibrating => sys.calibrating,
           ~sys'.calibrating => ~sys.calibrating \/ Call("lead") \notin Left("command"),
           \A g \in Guns : test'[g].mode \in {test[g].mode, "None"}
    PROVE  ModeInv'
<1>1. "command" \in Editors /\ \A x : Call(x)[1] = x
  BY ProcessNames
<1>2. ~(sys'.active /\ sys'.calibrating)
  BY DEF ModeInv
<1>3. \A q \in Editors :
         Call("setActive") \in Left(q)' /\ Call("cancel") \notin Left(q)' => ~sys'.calibrating
  BY DEF ModeInv
<1>4. Call("calibrate") \notin Left(p)' /\ Call("lead") \notin Left(p)'
  BY <1>1
<1>5. Call("calibrate") \in Left("command")' /\ Call("clearActive") \notin Left("command")'
         => ~sys'.active
  BY <1>1, <1>4 DEF ModeInv
<1>6. Call("lead") \in Left("command")' /\ Call("calibrate") \notin Left("command")'
         => sys'.calibrating
  BY <1>1, <1>4 DEF ModeInv
<1>7. \A c \in Left("command")' : c[1] \in TestOps => ~sys'.active /\ ~sys'.calibrating
  <2>1. CASE p = "command"
    BY <2>1
  <2>2. CASE p # "command"
    BY <1>1, <2>2 DEF ModeInv
  <2>3. QED
    BY <2>1, <2>2
<1>8. ASSUME NEW g \in Guns PROVE sys'.active \/ sys'.calibrating => test'[g].mode = "None"
  BY DEF ModeInv
<1>9. ASSUME NEW g \in Guns, NEW q \in Editors, NEW x \in {"setActive", "arm", "calibrate"},
             Call(x) \in Left(q)', test'[g].mode # "None"
      PROVE  <<"takeMode", g>> \in Left(q)'
  <2>1. CASE q = p
    BY <1>4, <1>9, <2>1 DEF TakeAll
  <2>2. CASE q # p
    <3>1. test[g].mode # "None" /\ Left(q)' = Left(q)
      BY <1>9, <2>2
    <3>2. QED
      BY <1>9, <3>1 DEF ModeInv
  <2>3. QED
    BY <2>1, <2>2
<1>10. QED
  BY <1>2, <1>3, <1>5, <1>6, <1>7, <1>8, <1>9 DEF ModeInv, Call, TestOps

\* leaveCalibration() and a restart, by a command or by the service.
LEMMA ModeRestart ==
    ASSUME ShapeInv, ModeInv, NEW p \in Editors, NEW o \in {"restore", "apply"}, At(p, o),
           Made(p, Restart) \/ Made(p, <<>>), sys.calibrating,
           sys'.active <=> sys.active, ~sys'.calibrating, test' = test
    PROVE  ModeInv'
<1>1. p \in Processes /\ o # "lock" /\ o \notin GunOps /\ Follow(o) = {} /\ "command" \in Editors
  BY LastFollow, ProcessNames DEF GunOps
<1>2. Left(p) = {Call(o)} /\ Holding(p)
  BY <1>1, AtHead
<1>3. Call("lead") \notin Left("command")
  <2>1. CASE p = "command"
    BY <1>2, <2>1, ProcessNames
  <2>2. CASE p # "command"
    <3>1. \A c \in Left("command") : c[1] \in {"lock"} \cup Follow("lock")
      BY <1>1, <1>2, <2>2, Alone
    <3>2. "lead" \notin Follow("lock")
      BY DEF Follow, Stops
    <3>3. QED
      BY <3>1, <3>2, ProcessNames
  <2>3. QED
    BY <2>1, <2>2
<1>4. CASE Made(p, Restart)
  <2>1. /\ Left(p)' = TakeAll \cup {Call("testModeOff"), Call("setActive")}
        /\ \A q \in Processes : q # p => Left(q)' = Left(q)
    BY <1>4, RestartShape
  <2>2. \A c \in Left(p)' : c[1] \notin TestOps \cup {"calibrate", "lead"}
    BY <2>1, ProcessNames DEF TakeAll, TestOps
  <2>3. TakeAll \subseteq Left(p)' /\ \A q \in Editors : q # p => Left(q)' = Left(q)
    BY <2>1, ProcessNames
  <2>4. QED
    BY <1>3, <2>2, <2>3, ModeQuiet
<1>5. CASE Made(p, <<>>)
  <2>1. Popped(p, o)
    BY <1>1, <1>5, PopStep
  <2>2. Left(p)' = {} /\ \A q \in Editors : q # p => Left(q)' = Left(q)
    BY <1>1, <2>1, ProcessNames DEF Popped
  <2>3. QED
    BY <1>3, <2>2, ModeQuiet
<1>6. QED
  BY <1>4, <1>5

LEMMA ModeCancel ==
    ASSUME ShapeInv, ModeInv, Cancel
    PROVE  ModeInv'
<1>1. "command" \in Editors /\ "command" \in Processes /\ test' = test
  BY ProcessNames DEF Cancel
<1>2. CASE ~sys.calibrating
  <2>1. PICK o \in {"cancel", "restore"} : At("command", o)
    BY DEF Cancel
  <2>2. sys' = sys /\ Made("command", <<>>)
    BY <1>2 DEF Cancel
  <2>3. Popped("command", o)
    BY <1>1, <2>1, <2>2, PopStep
  <2>4. QED
    BY <1>1, <1>2, <2>2, <2>3, ModePop
<1>3. CASE sys.calibrating /\ At("command", "restore")
  <2>1. (Made("command", Restart) \/ Made("command", <<>>)) /\ sys' = [sys EXCEPT !.calibrating = FALSE]
    BY <1>3 DEF Cancel, Leave
  <2>2. (sys'.active <=> sys.active) /\ ~sys'.calibrating
    BY <2>1
  <2>3. QED
    BY <1>1, <1>3, <2>1, <2>2, ModeRestart
<1>4. CASE sys.calibrating /\ At("command", "cancel") /\ ~At("command", "restore")
  <2>1. Made("command", <<>>) /\ sys' = [sys EXCEPT !.calibrating = FALSE]
    BY <1>4 DEF Cancel, Leave
  <2>2. (sys'.active <=> sys.active) /\ ~sys'.calibrating
    BY <2>1
  <2>3. Popped("command", "cancel")
    BY <1>1, <1>4, <2>1, PopStep
  <2>4. \A c \in Left("command") : c[1] \in {"cancel"} \cup Follow("cancel")
    BY <2>3 DEF Popped
  <2>5. \A x \in TestOps \cup {"calibrate", "lead", "arm"} : x \notin {"cancel"} \cup Follow("cancel")
    BY DEF Follow, Stops, TestOps
  <2>6. /\ Left("command")' \subseteq Left("command")
        /\ \A g \in Guns : <<"takeMode", g>> \in Left("command") => <<"takeMode", g>> \in Left("command")'
        /\ Left("service")' = Left("service")
    BY <2>3, ProcessNames DEF Popped
  <2>7. /\ Call("lead") \notin Left("command")' /\ Call("calibrate") \notin Left("command")'
        /\ Call("arm") \notin Left("command")'
        /\ \A c \in Left("command")' : c[1] \notin TestOps
    BY <2>4, <2>5, <2>6, ProcessNames
  <2>8. \A g \in Guns, q \in Editors, x \in {"setActive", "arm", "calibrate"} :
           Call(x) \in Left(q)' /\ test'[g].mode # "None" => <<"takeMode", g>> \in Left(q)'
    BY <1>1, <2>6, <2>7, ProcessNames DEF ModeInv
  <2>9. ~sys'.active
    BY <1>4, <2>2 DEF ModeInv
  <2>10. QED
    BY <2>2, <2>7, <2>8, <2>9 DEF ModeInv, Call, TestOps
<1>5. QED
  BY <1>2, <1>3, <1>4 DEF Cancel

LEMMA ModeArm ==
    ASSUME ShapeInv, ModeInv, Arm
    PROVE  ModeInv'
<1>1. /\ Left("command") = {Call("arm")} /\ Left("command")' = ArmCalls
      /\ Left("service")' = Left("service")
  BY ArmShape, ProcessNames DEF ModeInv
<1>2. sys' = sys /\ test' = test
  BY DEF Arm
<1>3. \A g \in Guns : test[g].mode = "None"
  BY <1>1, ProcessNames DEF ModeInv
<1>4. /\ Call("calibrate") \in ArmCalls /\ Call("clearActive") \notin ArmCalls => ~sys.active
      /\ Call("lead") \in ArmCalls /\ Call("calibrate") \notin ArmCalls => sys.calibrating
      /\ Call("setActive") \notin ArmCalls /\ \A c \in ArmCalls : c[1] \notin TestOps
  <2>1. CASE sys.calibrating
    <3>1. ArmCalls = {Call("forget"), Call("lead")}
      BY <2>1 DEF ArmCalls, ModeInv
    <3>2. QED
      BY <2>1, <3>1, ProcessNames DEF TestOps
  <2>2. CASE ~sys.calibrating /\ sys.active
    <3>1. ArmCalls = TakeAll \cup {Call("testModeOff"), Call("abortAll"), Call("clearActive"),
                                   Call("calibrate"), Call("forget"), Call("lead")}
      BY <2>2 DEF ArmCalls
    <3>2. QED
      BY <2>2, <3>1, ProcessNames DEF TestOps, TakeAll
  <2>3. CASE ~sys.calibrating /\ ~sys.active
    <3>1. ArmCalls = {Call("calibrate"), Call("forget"), Call("lead")}
      BY <2>3 DEF ArmCalls
    <3>2. QED
      BY <2>3, <3>1, ProcessNames DEF TestOps
  <2>4. QED
    BY <2>1, <2>2, <2>3
<1>5. /\ ~(sys'.active /\ sys'.calibrating)
      /\ \A p \in Editors :
            Call("setActive") \in Left(p)' /\ Call("cancel") \notin Left(p)' => ~sys'.calibrating
  BY <1>1, <1>2, <1>4, ProcessNames DEF ModeInv
<1>6. \A g \in Guns : test'[g].mode = "None"
  BY <1>2, <1>3
<1>7. QED
  BY <1>1, <1>2, <1>4, <1>5, <1>6 DEF ModeInv, Call, TestOps

LEMMA ModeCalibrate ==
    ASSUME ShapeInv, ModeInv, Calibrate
    PROVE  ModeInv'
<1>1. /\ At("command", "calibrate") /\ Made("command", <<>>) /\ test' = test
      /\ sys' = [sys EXCEPT !.calibrating = TRUE] /\ "command" \in Processes /\ "command" \in Editors
  BY ProcessNames DEF Calibrate
<1>2. sys'.calibrating /\ (sys'.active <=> sys.active)
  BY <1>1
<1>3. Popped("command", "calibrate") /\ Holding("command") /\ Call("calibrate") \in Left("command")
  <2>1. "calibrate" \notin GunOps /\ "calibrate" # "lock"
    BY DEF GunOps
  <2>2. QED
    BY <1>1, <2>1, PopStep, AtHead
<1>4. /\ \A c \in Left("command")' : c[1] \in {"forget", "lead"}
      /\ \A c \in Left("command") : c[1] \in {"calibrate", "forget", "lead"}
      /\ Left("service")' = Left("service")
  BY <1>3, FollowFacts, ProcessNames DEF Popped
<1>5. ~sys.active
  BY <1>3, <1>4, ProcessNames DEF ModeInv
<1>6. \A g \in Guns : test'[g].mode = "None"
  BY <1>1, <1>3, <1>4, ProcessNames DEF ModeInv
<1>7. Call("setActive") \notin Left("service")
  BY <1>1, <1>3, Alone, ProcessNames
<1>8. \A p \in Editors : Call("setActive") \notin Left(p)'
  BY <1>4, <1>7, ProcessNames
<1>9. \A c \in Left("command")' : c[1] \notin TestOps
  BY <1>4 DEF TestOps
<1>10. QED
  BY <1>2, <1>5, <1>6, <1>8, <1>9 DEF ModeInv, Call, TestOps

\* A gun test that is being opened keeps the modes as they are.
LEMMA ModeTest ==
    ASSUME ModeInv, Left("service")' = Left("service"),
           \A c \in Left("command")' : c[1] \in TestOps \cup {"takeMode", "check", "lock"},
           (\E c \in Left("command")' : c[1] \in TestOps) => ~sys.active /\ ~sys.calibrating,
           sys' = sys,
           \/ \A g \in Guns : test'[g].mode = test[g].mode
           \/ /\ \A x \in {"setActive", "arm", "calibrate"} : Call(x) \notin Left("service")
              /\ ~sys.active /\ ~sys.calibrating
    PROVE  ModeInv'
<1>1. \A x \in {"setActive", "arm", "calibrate", "lead"} :
         x \notin TestOps \cup {"takeMode", "check", "lock"}
  BY DEF TestOps
<1>2. \A x \in {"setActive", "arm", "calibrate", "lead"} : Call(x) \notin Left("command")'
  BY <1>1, ProcessNames
<1>3. ASSUME NEW g \in Guns, NEW q \in Editors, NEW x \in {"setActive", "arm", "calibrate"},
             Call(x) \in Left(q)', test'[g].mode # "None"
      PROVE  <<"takeMode", g>> \in Left(q)'
  <2>1. q = "service" /\ Call(x) \in Left("service")
    BY <1>2, <1>3, ProcessNames
  <2>2. test'[g].mode = test[g].mode
    BY <2>1
  <2>3. QED
    BY <1>3, <2>1, <2>2, ProcessNames DEF ModeInv
<1>4. \A g \in Guns : sys'.active \/ sys'.calibrating => test'[g].mode = "None"
  BY DEF ModeInv
<1>5. \A q \in Editors :
         Call("setActive") \in Left(q)' /\ Call("cancel") \notin Left(q)' => ~sys'.calibrating
  BY <1>2, ProcessNames DEF ModeInv
<1>6. ~(sys'.active /\ sys'.calibrating)
  BY DEF ModeInv
<1>7. QED
  BY <1>2, <1>3, <1>4, <1>5, <1>6 DEF ModeInv, Call, TestOps

LEMMA ModeTests ==
    ASSUME ShapeInv, ModeInv, DataOK, CheckTest \/ TryTest \/ Fire \/ Runs
    PROVE  ModeInv'
<1> DEFINE g == GunOf("command")
<1>0. "command" \in Processes /\ "service" \in Processes
  BY ProcessNames
<1>1. CASE CheckTest
  <2>1. /\ \/ Left("command")' = {}
           \/ /\ ~sys.active /\ ~sys.calibrating
              /\ Left("command")' = {<<"tryTest", g>>}
        /\ Left("service")' = Left("service") /\ sys' = sys /\ test' = test
    BY <1>1, CheckShape, ProcessNames DEF CheckTest, Untouched
  <2>2. \A c \in Left("command")' : c[1] \in TestOps
    BY <2>1 DEF TestOps
  <2>3. QED
    BY <2>1, <2>2, ModeTest
<1>2. CASE TryTest
  <2>1. /\ Left("command") = {<<"tryTest", g>>}
        /\ \/ Left("command")' = {}
           \/ Left("command")' = LineTest(g) \/ Left("command")' = DotsTest(g)
        /\ Left("service")' = Left("service") /\ sys' = sys /\ test' = test
    BY <1>2, TryShape, ProcessNames DEF TryTest
  <2>2. ~sys.active /\ ~sys.calibrating
    BY <2>1 DEF ModeInv, TestOps
  <2>3. \A c \in Left("command")' : c[1] \in TestOps \cup {"takeMode"}
    BY <2>1 DEF TestOps, LineTest, DotsTest
  <2>4. QED
    BY <2>1, <2>2, <2>3, ModeTest
<1>3. ASSUME NEW o \in {"fireLine", "fireDot"}, NEW x,
             x = IF o = "fireLine" THEN "lineOpens" ELSE "dotOpens",
             At("command", o), FireBegin("command", g, x), sys' = sys, test' = test
      PROVE  ModeInv'
  <2>1. PICK T : /\ Left("command") = {<<o, g>>} \cup T /\ \A c \in T : c[1] \in Follow(o)
                 /\ Left("command")' = T \/ Left("command")' = {<<x, g>>} \cup T
                 /\ Left("service")' = Left("service")
    BY <1>3, FireShape, ProcessNames
  <2>2. o \in TestOps /\ x \in TestOps /\ Follow(o) \subseteq TestOps
    BY <1>3, FollowFacts DEF TestOps
  <2>3. ~sys.active /\ ~sys.calibrating
    BY <2>1, <2>2 DEF ModeInv
  <2>4. \A c \in Left("command")' : c[1] \in TestOps
    BY <2>1, <2>2
  <2>5. QED
    BY <1>3, <2>1, <2>3, <2>4, ModeTest
<1>4. CASE Runs
  <2>1. PICK o \in {"lineRuns", "dotsRun"} : At("command", o)
    BY <1>4 DEF Runs
  <2>2. o \in TestOps /\ o # "lock" /\ Follow(o) \subseteq TestOps
    BY FollowFacts DEF TestOps
  <2>3. /\ Popped("command", o) /\ Holding("command") /\ Left("command") = {<<o, g>>} \cup Rest("command")
    BY <1>0, <1>4, <2>1, <2>2, PopStep, AtHead DEF Runs
  <2>4. ~sys.active /\ ~sys.calibrating
    BY <2>2, <2>3 DEF ModeInv
  <2>5. Left("service") \subseteq {Call("lock"), Call("apply")}
    BY <2>3, Alone, ProcessNames
  <2>6. \A x \in {"setActive", "arm", "calibrate"} : Call(x) \notin Left("service")
    BY <2>5, ProcessNames
  <2>7. \A c \in Left("command")' : c[1] \in TestOps
    BY <2>2, <2>3 DEF Popped
  <2>8. Left("service")' = Left("service") /\ sys' = sys
    BY <1>4, <2>3, ProcessNames DEF Popped, Runs
  <2>9. QED
    BY <2>4, <2>6, <2>7, <2>8, ModeTest
<1>5. QED
  BY <1>1, <1>2, <1>3, <1>4 DEF Fire

LEMMA ModeCommand ==
    ASSUME ShapeInv, ModeInv, DataOK, CommandStep
    PROVE  ModeInv'
<1>1. "command" \in Processes
  BY ProcessNames
<1>2. ASSUME NEW o \in {"seeFault", "clearFault", "forget", "lead"}, At("command", o),
             Made("command", <<>>), (sys'.active <=> sys.active),
             (sys'.calibrating <=> sys.calibrating), test' = test
      PROVE  ModeInv'
  <2>1. Popped("command", o)
    BY <1>1, <1>2, PopStep
  <2>2. QED
    BY <1>1, <1>2, <2>1, ModePop
<1>3. CASE SeeFault
  <2>1. CASE sys.fault
    <3>1. PICK T : /\ Left("command") = {Call("seeFault")} \cup T
                   /\ Left("command")' = {Call("clearFault")} \cup T
                   /\ Left("service")' = Left("service")
      BY <1>3, <2>1, SeeFaultShape, ProcessNames
    <3>2. sys' = sys /\ test' = test
      BY <1>3 DEF SeeFault, Untouched
    <3>3. /\ \A c \in Left("command")' : c \in Left("command") \/ c[1] = "clearFault"
          /\ \A c \in Left("command") : c \in Left("command")' \/ c[1] = "seeFault"
      BY <3>1, ProcessNames
    <3>4. \A x \in {"setActive", "cancel", "calibrate", "clearActive", "lead", "arm"} :
             Call(x) \in Left("command")' <=> Call(x) \in Left("command")
      BY <3>3, ProcessNames
    <3>5. \A k \in Guns : <<"takeMode", k>> \in Left("command") => <<"takeMode", k>> \in Left("command")'
      BY <3>3
    <3>6. \A c \in Left("command")' : c[1] \in TestOps => c \in Left("command")
      BY <3>3 DEF TestOps
    <3>7. /\ ~(sys'.active /\ sys'.calibrating)
          /\ \A q \in Editors :
               Call("setActive") \in Left(q)' /\ Call("cancel") \notin Left(q)' => ~sys'.calibrating
          /\ Call("calibrate") \in Left("command")' /\ Call("clearActive") \notin Left("command")'
               => ~sys'.active
          /\ Call("lead") \in Left("command")' /\ Call("calibrate") \notin Left("command")'
               => sys'.calibrating
      BY <3>1, <3>2, <3>4, ProcessNames DEF ModeInv
    <3>8. \A k \in Guns :
             /\ sys'.active \/ sys'.calibrating => test'[k].mode = "None"
             /\ \A q \in Editors, x \in {"setActive", "arm", "calibrate"} :
                   Call(x) \in Left(q)' /\ test'[k].mode # "None" => <<"takeMode", k>> \in Left(q)'
      <4>1. ASSUME NEW k \in Guns, NEW q \in Editors, NEW x \in {"setActive", "arm", "calibrate"},
                   Call(x) \in Left(q)', test'[k].mode # "None"
            PROVE  <<"takeMode", k>> \in Left(q)'
        <5>1. Call(x) \in Left(q) /\ test[k].mode # "None"
          BY <3>1, <3>2, <3>4, <4>1, ProcessNames
        <5>2. <<"takeMode", k>> \in Left(q)
          BY <5>1 DEF ModeInv
        <5>3. QED
          BY <3>1, <3>5, <5>2, ProcessNames
      <4>2. \A k \in Guns : sys'.active \/ sys'.calibrating => test'[k].mode = "None"
        BY <3>2 DEF ModeInv
      <4>3. QED
        BY <4>1, <4>2
    <3>9. \A c \in Left("command")' : c[1] \in TestOps => ~sys'.active /\ ~sys'.calibrating
      BY <3>2, <3>6 DEF ModeInv
    <3>10. QED
      BY <3>7, <3>8, <3>9 DEF ModeInv, Call, TestOps
  <2>2. CASE ~sys.fault
    BY <1>2, <1>3, <2>2 DEF SeeFault, Untouched
  <2>3. QED
    BY <2>1, <2>2
<1>4. CASE ClearFault
  <2>1. sys' = [sys EXCEPT !.fault = FALSE]
    BY <1>4 DEF ClearFault
  <2>2. (sys'.active <=> sys.active) /\ (sys'.calibrating <=> sys.calibrating)
    BY <2>1
  <2>3. QED
    BY <1>2, <1>4, <2>2 DEF ClearFault
<1>5. CASE Forget \/ Lead
  BY <1>2, <1>5 DEF Forget, Lead
<1>6. CASE StartTimer
  <2>1. PICK o \in {"startTick", "startDeadline"} : At("command", o)
    BY <1>6 DEF StartTimer
  <2>2. Popped("command", o)
    BY <1>1, <1>6, <2>1, PopStep DEF StartTimer
  <2>3. GunOf("command") \in Guns /\ test \in [Guns -> Tests]
    BY <1>1, <2>1, AtHead DEF GunOps, DataOK
  <2>4. sys' = sys /\ \A g \in Guns : test'[g].mode = test[g].mode
    BY <1>6, <2>3 DEF StartTimer, Tests
  <2>5. QED
    BY <1>1, <2>2, <2>4, ModePop
<1>7. CASE Cancel \/ Arm \/ Calibrate
  BY <1>7, ModeCancel, ModeArm, ModeCalibrate
<1>8. CASE CheckTest \/ TryTest \/ Fire \/ Runs
  BY <1>8, ModeTests
<1>9. QED
  BY <1>3, <1>4, <1>5, <1>6, <1>7, <1>8 DEF CommandStep

LEMMA ModeHandler ==
    ASSUME ShapeInv, ModeInv, DataOK, NEW p \in Processes, HandlerOf(p)
    PROVE  ModeInv'
<1>0. /\ {"watchdog", "fault", "photocell", "service"} \subseteq Processes
      /\ "service" \in Editors
      /\ \A q \in Editors : q \notin {"watchdog", "fault", "photocell"} /\ q \in Processes
  BY ProcessNames
<1>1. CASE SharedStep(p)
  BY <1>1, ModeShared
<1>2. CASE p = "command" /\ CommandStep
  BY <1>2, ModeCommand
<1>3. ASSUME NEW q \in {"watchdog", "fault", "photocell"}, NEW o, o # "lock", At(q, o), Made(q, <<>>),
             (sys'.active <=> sys.active), (sys'.calibrating <=> sys.calibrating), test' = test
      PROVE  ModeInv'
  <2>1. Popped(q, o)
    BY <1>0, <1>3, PopStep
  <2>2. \A e \in Editors : Left(e)' = Left(e)
    BY <1>0, <2>1 DEF Popped
  <2>3. QED
    BY <1>3, <2>2, ModeFrame
<1>4. CASE p = "watchdog" /\ (ReadLast \/ ReadArmed)
  <2>1. sys' = sys /\ test' = test
    BY <1>4 DEF ReadLast, ReadArmed
  <2>2. CASE At("watchdog", "readArmed") /\ Made("watchdog", StopAll)
    <3>1. \A e \in Editors : Left(e)' = Left(e)
      BY <1>0, <2>2, TripShape
    <3>2. QED
      BY <2>1, <3>1, ModeFrame
  <2>3. QED
    BY <1>3, <1>4, <2>1, <2>2 DEF ReadLast, ReadArmed
<1>5. CASE p = "fault" /\ SetFault
  <2>1. sys' = [sys EXCEPT !.fault = TRUE]
    BY <1>5 DEF SetFault
  <2>2. (sys'.active <=> sys.active) /\ (sys'.calibrating <=> sys.calibrating)
    BY <2>1
  <2>3. QED
    BY <1>3, <1>5, <2>2 DEF SetFault
<1>6. CASE p = "photocell" /\ PhotocellStores
  BY <1>3, <1>6 DEF PhotocellStores
<1>7. CASE p = "service" /\ Apply
  <2>1. At("service", "apply") /\ test' = test
    BY <1>7 DEF Apply
  <2>2. CASE sys.calibrating
    <3>1. (Made("service", Restart) \/ Made("service", <<>>)) /\ sys' = [sys EXCEPT !.calibrating = FALSE]
      BY <1>7, <2>2 DEF Apply, Leave
    <3>2. (sys'.active <=> sys.active) /\ ~sys'.calibrating
      BY <3>1
    <3>3. QED
      BY <1>0, <2>1, <2>2, <3>1, <3>2, ModeRestart
  <2>3. CASE ~sys.calibrating
    <3>1. Made("service", <<>>) /\ sys' = sys
      BY <1>7, <2>3 DEF Apply
    <3>2. Popped("service", "apply")
      BY <1>0, <2>1, <3>1, PopStep
    <3>3. QED
      BY <1>0, <2>1, <3>1, <3>2, ModePop
  <2>4. QED
    BY <2>2, <2>3
<1>8. QED
  BY <1>1, <1>2, <1>4, <1>5, <1>6, <1>7 DEF HandlerOf

LEMMA ModeInput ==
    ASSUME ShapeInv, ModeInv, KindInv, DataOK, NEW i \in Inputs, Input(i)
    PROVE  ModeInv'
<1>0. /\ \A q \in Editors : q \in Processes /\ q \notin {"watchdog", "fault", "photocell", "timer"}
      /\ "command" \in Editors /\ Editors = {"command", "service"} /\ "service" \in Processes
  BY ProcessNames
<1>1. ASSUME NEW c \in CommandNames, Receive(c) PROVE ModeInv'
  <2>1. /\ Left("command")' = CommandCalls[c] /\ Left("command") = {}
        /\ Left("service")' = Left("service") /\ sys' = sys /\ test' = test
    BY <1>0, <1>1, ReceiveShape DEF Receive
  <2>2. \A x \in CommandCalls[c] : x[1] \notin TestOps \cup {"calibrate", "lead"}
    BY ProcessNames DEF CommandCalls, CommandNames, TakeAll, StopCalls, TestOps
  <2>3. Call("setActive") \in CommandCalls[c] => Call("cancel") \in CommandCalls[c]
    BY ProcessNames DEF CommandCalls, CommandNames, TakeAll, StopCalls
  <2>4. \A x \in {"setActive", "arm"} : Call(x) \in CommandCalls[c] => TakeAll \subseteq CommandCalls[c]
    BY ProcessNames DEF CommandCalls, CommandNames, TakeAll, StopCalls
  <2>5. \A q \in Editors : q # "command" => Left(q)' = Left(q)
    BY <1>0, <2>1
  <2>6. QED
    BY <1>0, <2>1, <2>2, <2>3, <2>4, <2>5, ModeQuiet
<1>2. ASSUME NEW g \in Guns, ReceiveTest(g) PROVE ModeInv'
  <2>1. PICK o \in {"check", "takeMode"} : Begin("command", <<Call("lock"), <<o, g>>>>)
    BY <1>2 DEF ReceiveTest
  <2>2. /\ Left("command")' = {Call("lock"), <<o, g>>}
        /\ Left("service")' = Left("service") /\ sys' = sys /\ test' = test
    BY <1>0, <1>2, <2>1, TestShape DEF ReceiveTest
  <2>3. \A c \in Left("command")' : c[1] \in {"takeMode", "check", "lock"}
    BY <2>2, ProcessNames
  <2>4. \A c \in Left("command")' : c[1] \notin TestOps
    BY <2>3 DEF TestOps
  <2>5. QED
    BY <2>2, <2>3, <2>4, ModeTest
<1>3. ASSUME \A q \in Editors : Left(q)' = Left(q), sys' = sys,
             \A g \in Guns : test'[g].mode \in {test[g].mode, "None"}
      PROVE  ModeInv'
  BY <1>3, ModeFrame
<1>4. ASSUME NEW g \in Guns, TickDot(g) PROVE ModeInv'
  <2>1. Kind[g] = "Dots" /\ Begin("timer", <<<<"dotOpens", g>>>>) /\ sys' = sys /\ test' = test
    BY <1>4 DEF TickDot, KindInv
  <2>2. \A q \in Editors : Left(q)' = Left(q)
    BY <1>0, <2>1, DotShape
  <2>3. QED
    BY <1>3, <2>1, <2>2
<1>5. ASSUME NEW g \in Guns, Deadline(g) PROVE ModeInv'
  <2>1. todo' = todo /\ sys' = sys
    BY <1>5 DEF Deadline
  <2>2. test \in [Guns -> Tests]
    BY DEF DataOK
  <2>3. \A k \in Guns : test'[k].mode \in {test[k].mode, "None"}
    <3>1. CASE test[g].mode = "None"
      BY <1>5, <2>2, <3>1 DEF Deadline, Tests
    <3>2. CASE test[g].mode # "None"
      BY <1>5, <2>2, <3>2 DEF Deadline, Tests
    <3>3. QED
      BY <3>1, <3>2
  <2>4. \A q \in Editors : Left(q)' = Left(q)
    BY <1>0, <2>1, SameTodo
  <2>5. QED
    BY <1>3, <2>1, <2>3, <2>4
<1>6. CASE Tick
  <2>1. \A q \in Editors : Left(q)' = Left(q)
    BY <1>0, <1>6, TickShape
  <2>2. QED
    BY <1>3, <1>6, <2>1 DEF Tick
<1>7. CASE FaultIsr
  <2>1. /\ Begin("fault", <<Call("abortAll"), Call("setFault"), Call("clearActive")>>)
        /\ sys' = sys /\ test' = test
    BY <1>7 DEF FaultIsr, Untouched
  <2>2. \A q \in Editors : Left(q)' = Left(q)
    BY <1>0, <2>1, OtherShape
  <2>3. QED
    BY <1>3, <2>1, <2>2
<1>8. CASE LeadingEdge \/ FallingEdge
  <2>1. /\ \/ Begin("photocell", <<Call("leadSeen")>>)
           \/ Begin("photocell", <<Call("sheetLeft"), Call("sheetDone")>>)
        /\ sys' = sys /\ test' = test
    BY <1>8 DEF LeadingEdge, FallingEdge, Untouched
  <2>2. \A q \in Editors : Left(q)' = Left(q)
    BY <1>0, <2>1, OtherShape
  <2>3. QED
    BY <1>3, <2>1, <2>2
<1>9. CASE Ping \/ SafetyStop \/ \E g \in Guns : SheetFires(g)
  <2>1. todo' = todo /\ test' = test
    BY <1>9 DEF Ping, SafetyStop, SheetFires
  <2>2. \A q \in Editors : Left(q)' = Left(q)
    BY <1>0, <2>1, SameTodo
  <2>3. (sys'.active => sys.active) /\ (sys'.calibrating <=> sys.calibrating)
    <3>1. CASE SafetyStop
      <4>1. sys' = [sys EXCEPT !.active = FALSE]
        BY <3>1 DEF SafetyStop
      <4>2. QED
        BY <4>1
    <3>2. CASE Ping \/ \E g \in Guns : SheetFires(g)
      BY <3>2 DEF Ping, SheetFires
    <3>3. QED
      BY <1>9, <3>1, <3>2
  <2>4. QED
    BY <2>1, <2>2, <2>3, ModeFrame
<1>10. QED
  BY <1>1, <1>2, <1>4, <1>5, <1>6, <1>7, <1>8, <1>9, CommandLists DEF Input

LEMMA ModeWorld ==
    ASSUME ShapeInv, ModeInv, World
    PROVE  ModeInv'
<1>1. sys' = sys /\ test' = test
  BY DEF World, HandOver, TakePending, GunCloses
<1>2. CASE TakePending
  <2>1. Begin("service", <<Call("lock"), Call("apply")>>)
    BY <1>2 DEF TakePending
  <2>2. /\ Left("service")' = {Call("lock"), Call("apply")}
        /\ \A q \in Editors : q # "service" => Left(q)' = Left(q)
    BY <2>1, OtherShape, ProcessNames
  <2>3. \A c \in Left("service")' : c[1] \in {"lock", "apply"}
    BY <2>2, ProcessNames
  <2>4. /\ \A c \in Left("service")' : c[1] \notin TestOps \cup {"calibrate", "lead"}
        /\ \A x \in {"setActive", "arm"} : Call(x) \notin Left("service")'
    BY <2>3, ProcessNames DEF TestOps
  <2>5. ~sys'.calibrating => ~sys.calibrating
    BY <1>1
  <2>6. QED
    BY <1>1, <2>2, <2>4, <2>5, ModeQuiet, ProcessNames
<1>3. CASE HandOver \/ \E g \in Guns : GunCloses(g)
  <2>1. \A q \in Editors : Left(q)' = Left(q)
    BY <1>3, SameTodo, ProcessNames DEF HandOver, GunCloses
  <2>2. QED
    BY <1>1, <2>1, ModeFrame
<1>4. QED
  BY <1>2, <1>3 DEF World

LEMMA ModeStep ==
    ASSUME ShapeInv, ModeInv, KindInv, DataOK, Next
    PROVE  ModeInv'
BY ModeHandler, ModeInput, ModeWorld DEF Next, Handler

LEMMA KindStep ==
    ASSUME ShapeInv, DataOK, KindInv, Next
    PROVE  KindInv'
<1>1. test \in [Guns -> Tests]
  BY DEF DataOK
<1>2. ASSUME NEW p \in Processes, TakeMode(p) PROVE KindInv'
  <2>1. test' = [test EXCEPT ![GunOf(p)].mode = "None"]
    BY <1>2 DEF TakeMode
  <2>2. QED
    BY <1>1, <2>1 DEF KindInv, Tests
<1>3. ASSUME NEW p \in Processes, StopTimer(p) PROVE KindInv'
  BY <1>1, <1>3 DEF StopTimer, KindInv, Tests
<1>4. CASE Runs
  <2>1. test' = [test EXCEPT ![GunOf("command")].mode = Kind[GunOf("command")]]
    BY <1>4 DEF Runs
  <2>2. QED
    BY <1>1, <2>1 DEF KindInv, Tests
<1>5. CASE StartTimer
  BY <1>1, <1>5 DEF StartTimer, KindInv, Tests
<1>6. ASSUME NEW g \in Guns, Deadline(g) PROVE KindInv'
  <2>1. CASE test[g].mode = "None"
    BY <1>1, <1>6, <2>1 DEF Deadline, KindInv, Tests
  <2>2. CASE test[g].mode # "None"
    <3>1. test' = [test EXCEPT ![g] = [mode |-> "None", tick |-> FALSE, deadline |-> FALSE]]
      BY <1>6, <2>2 DEF Deadline
    <3>2. \A k \in Guns : test'[k].mode = IF k = g THEN "None" ELSE test[k].mode
      BY <1>1, <3>1
    <3>3. QED
      BY <3>2 DEF KindInv
  <2>3. QED
    BY <2>1, <2>2
<1>7. CASE test' = test
  BY <1>7 DEF KindInv
<1>8. ASSUME NEW p \in Processes, HandlerOf(p) PROVE KindInv'
  <2>1. ASSUME SharedStep(p) PROVE KindInv'
    BY <1>2, <1>3, <1>7, <2>1
       DEF SharedStep, Lock, Untouched, Abort, TestModeOff, ClearActive, SetActive, FireOpens
  <2>2. ASSUME CommandStep PROVE KindInv'
    BY <1>4, <1>5, <1>7, <2>2
       DEF CommandStep, SeeFault, Untouched, ClearFault, Cancel, Arm, Calibrate, Forget, Lead,
           CheckTest, TryTest, Fire
  <2>3. QED
    BY <1>7, <1>8, <2>1, <2>2
       DEF HandlerOf, ReadLast, ReadArmed, SetFault, PhotocellStores, Apply
<1>9. CASE World
  BY <1>7, <1>9 DEF World, HandOver, TakePending, GunCloses
<1>10. ASSUME NEW i \in Inputs, Input(i) PROVE KindInv'
  BY <1>6, <1>7, <1>10
     DEF Input, Receive, ReceiveTest, TickDot, Ping, Tick, FaultIsr, Untouched, SafetyStop,
         LeadingEdge, FallingEdge, SheetFires
<1>11. QED
  BY <1>8, <1>9, <1>10 DEF Next, Handler

----------------------------------------------------------------------------
(* What the calls of each group leave behind.                              *)

Marks == {"calibrate", "lead", "apply", "sheetDone", "readLast", "readArmed"}

LEMMA PoppedLeft ==
    ASSUME NEW p \in Processes, NEW o, Popped(p, o), NEW q \in Processes, NEW x
    PROVE  /\ Call(x) \in Left(q)' => Call(x) \in Left(q)
           /\ x # o => (Call(x) \in Left(q)' <=> Call(x) \in Left(q))
BY DEF Popped, Call

LEMMA SharedLeft ==
    ASSUME ShapeInv, NEW p \in Processes, SharedStep(p), NEW q \in Processes
    PROVE  /\ \A x \in Marks : Call(x) \in Left(q)' <=> Call(x) \in Left(q)
           /\ Call("setActive") \in Left(q)' => Call("setActive") \in Left(q)
<1>1. ASSUME NEW o, o \notin Marks, Popped(p, o)
      PROVE  /\ \A x \in Marks : Call(x) \in Left(q)' <=> Call(x) \in Left(q)
             /\ Call("setActive") \in Left(q)' => Call("setActive") \in Left(q)
  BY <1>1, PoppedLeft
<1>2. CASE Lock(p)
  BY <1>1, <1>2, LockStep DEF Marks
<1>3. CASE TakeMode(p)
  <2>1. CASE test[GunOf(p)].mode = "None"
    <3>1. At(p, "takeMode") /\ Made(p, <<>>)
      BY <1>3, <2>1 DEF TakeMode
    <3>2. Popped(p, "takeMode")
      BY <3>1, PopStep
    <3>3. QED
      BY <1>1, <3>2 DEF Marks
  <2>2. CASE test[GunOf(p)].mode # "None"
    <3> DEFINE g == GunOf(p)
               A == {<<"stopTick", g>>, <<"stopDeadline", g>>, <<"abort", g>>}
    <3>1. PICK T : /\ Left(p) = {<<"takeMode", g>>} \cup T /\ Left(p)' = A \cup T
                   /\ \A k \in Processes : k # p => Left(k)' = Left(k)
      BY <1>3, <2>2, TakeModeShape
    <3>2. \A c \in A \cup {<<"takeMode", g>>} : c[1] \notin Marks \cup {"setActive"}
      BY DEF Marks
    <3> HIDE DEF A
    <3>3. QED
      BY <3>1, <3>2, ProcessNames
  <2>3. QED
    BY <2>1, <2>2
<1>4. CASE FireOpens(p)
  <2>1. CASE Made(p, <<>>)
    <3>1. PICK o \in {"lineOpens", "dotOpens"} : At(p, o)
      BY <1>4 DEF FireOpens
    <3>2. Popped(p, o) /\ o \notin Marks
      BY <2>1, <3>1, PopStep DEF Marks
    <3>3. QED
      BY <1>1, <3>2
  <2>2. CASE /\ At(p, "lineOpens")
             /\ Made(p, <<<<"lineRuns", GunOf(p)>>, <<"startDeadline", GunOf(p)>>>>)
    <3>1. /\ Left("command") = {<<"lineOpens", GunOf(p)>>}
          /\ Left("command")' = {<<"lineRuns", GunOf(p)>>, <<"startDeadline", GunOf(p)>>}
          /\ \A k \in Processes : k # "command" => Left(k)' = Left(k)
      BY <2>2, OpensShape
    <3>2. \A c \in Left("command") \cup Left("command")' : c[1] \notin Marks \cup {"setActive"}
      BY <3>1 DEF Marks
    <3>3. QED
      BY <3>1, <3>2, ProcessNames
  <2>3. QED
    BY <1>4, <2>1, <2>2 DEF FireOpens
<1>5. ASSUME NEW o \in {"stopTick", "stopDeadline", "abort", "abortAll", "testModeOff",
                        "clearActive", "setActive"}, At(p, o), Made(p, <<>>)
      PROVE  /\ \A x \in Marks : Call(x) \in Left(q)' <=> Call(x) \in Left(q)
             /\ Call("setActive") \in Left(q)' => Call("setActive") \in Left(q)
  <2>1. Popped(p, o) /\ o \notin Marks
    BY <1>5, PopStep DEF Marks
  <2>2. QED
    BY <1>1, <2>1
<1>6. QED
  BY <1>2, <1>3, <1>4, <1>5 DEF SharedStep, StopTimer, Abort, TestModeOff, ClearActive, SetActive

\* The calls that open a test.
LEMMA TestLeft ==
    ASSUME ShapeInv, CheckTest \/ TryTest \/ Fire \/ Runs \/ StartTimer
    PROVE  /\ \A c \in Left("command") \cup Left("command")' :
                 c[1] \in TestOps \cup {"check", "takeMode"}
           /\ \A q \in Processes : q # "command" => Left(q)' = Left(q)
<1> DEFINE g == GunOf("command")
<1>0. "command" \in Processes
  BY ProcessNames
<1>1. CASE CheckTest
  <2>1. /\ Left("command") = {<<"check", g>>}
        /\ Left("command")' = {} \/ Left("command")' = {<<"tryTest", g>>}
        /\ \A q \in Processes : q # "command" => Left(q)' = Left(q)
    BY <1>1, CheckShape
  <2>2. QED
    BY <2>1 DEF TestOps
<1>2. CASE TryTest
  <2>1. /\ Left("command") = {<<"tryTest", g>>}
        /\ \/ Left("command")' = {}
           \/ Left("command")' = LineTest(g) \/ Left("command")' = DotsTest(g)
        /\ \A q \in Processes : q # "command" => Left(q)' = Left(q)
    BY <1>2, TryShape
  <2>2. QED
    BY <2>1 DEF TestOps, LineTest, DotsTest
<1>3. ASSUME NEW o \in {"fireLine", "fireDot"}, NEW x,
             x = IF o = "fireLine" THEN "lineOpens" ELSE "dotOpens",
             At("command", o), FireBegin("command", g, x)
      PROVE  /\ \A c \in Left("command") \cup Left("command")' : c[1] \in TestOps
             /\ \A q \in Processes : q # "command" => Left(q)' = Left(q)
  <2>1. PICK T : /\ Left("command") = {<<o, g>>} \cup T /\ \A c \in T : c[1] \in Follow(o)
                 /\ Left("command")' = T \/ Left("command")' = {<<x, g>>} \cup T
                 /\ \A q \in Processes : q # "command" => Left(q)' = Left(q)
    BY <1>3, FireShape
  <2>2. o \in TestOps /\ x \in TestOps /\ Follow(o) \subseteq TestOps
    BY <1>3, FollowFacts DEF TestOps
  <2>3. QED
    BY <2>1, <2>2
<1>4. ASSUME NEW o \in {"lineRuns", "dotsRun", "startTick", "startDeadline"}, At("command", o),
             Made("command", <<>>)
      PROVE  /\ \A c \in Left("command") \cup Left("command")' : c[1] \in TestOps
             /\ \A q \in Processes : q # "command" => Left(q)' = Left(q)
  <2>1. Popped("command", o)
    BY <1>0, <1>4, PopStep
  <2>2. o \in TestOps /\ Follow(o) \subseteq TestOps
    BY FollowFacts DEF TestOps
  <2>3. QED
    BY <2>1, <2>2 DEF Popped
<1>5. QED
  BY <1>1, <1>2, <1>3, <1>4 DEF Fire, Runs, StartTimer

----------------------------------------------------------------------------
(* A stop holds.                                                           *)

LEMMA HaltFrame ==
    ASSUME HaltInv, seen'.halted => seen.halted, sys'.active => sys.active,
           sys'.calibrating => sys.calibrating, sys.fault => sys'.fault, resume' => resume,
           \A q \in Editors : Call("setActive") \in Left(q)' => Call("setActive") \in Left(q),
           Call("calibrate") \in Left("command")' => Call("calibrate") \in Left("command")
    PROVE  HaltInv'
BY DEF HaltInv, Call

\* An activation that is coming is committed.
LEMMA ComingFacts ==
    ASSUME NEW p, NEW x, Call(x) \in Left(p), NEW ops, x \in ops
    PROVE  Coming(p, ops)
BY DEF Left, Elems, Coming, Call

LEMMA HaltShared ==
    ASSUME ShapeInv, HaltInv, NEW p \in Processes, SharedStep(p)
    PROVE  HaltInv'
<1>1. /\ \A q \in Editors : Call("setActive") \in Left(q)' => Call("setActive") \in Left(q)
      /\ Call("calibrate") \in Left("command")' => Call("calibrate") \in Left("command")
  BY SharedLeft, ProcessNames DEF Marks
<1>2. CASE ClearActive(p)
  <2>1. /\ sys' = [sys EXCEPT !.active = FALSE] /\ resume' = resume
        /\ seen' = [seen EXCEPT !.halted = ~Committed, !.alone = 0]
    BY <1>2 DEF ClearActive
  <2>2. seen'.halted => ~Committed
    <3> DEFINE b == ~Committed
    <3>1. seen' = [seen EXCEPT !.halted = b, !.alone = 0] /\ (b => ~Committed)
      BY <2>1
    <3> HIDE DEF b
    <3>2. seen'.halted = b
      BY <3>1
    <3>3. QED
      BY <3>1, <3>2
  <2>3. ~sys'.active /\ (sys'.calibrating <=> sys.calibrating) /\ (sys'.fault <=> sys.fault)
    BY <2>1
  <2>4. ASSUME ~Committed
        PROVE  /\ \A q \in Editors : Call("setActive") \notin Left(q)
               /\ Call("calibrate") \notin Left("command")
               /\ sys.calibrating /\ resume => sys.fault
    BY <2>4, ComingFacts, ProcessNames DEF Committed
  <2>5. QED
    BY <1>1, <2>1, <2>2, <2>3, <2>4 DEF HaltInv, Call
<1>3. CASE SetActive(p)
  <2>1. Call("setActive") \in Left(p) /\ p \in Editors /\ seen' = seen
    <3>1. At(p, "setActive") /\ "setActive" \notin GunOps
      BY <1>3 DEF SetActive, GunOps
    <3>2. Call("setActive") \in Left(p) /\ "setActive" \in OpsOf(p)
      BY <3>1, AtHead
    <3>3. p \in Editors
      BY <3>2, ProcessNames DEF OpsOf, Stops
    <3>4. QED
      BY <1>3, <3>2, <3>3 DEF SetActive
  <2>2. ~seen.halted
    BY <2>1 DEF HaltInv
  <2>3. QED
    BY <2>1, <2>2 DEF HaltInv
<1>4. CASE sys' = sys /\ resume' = resume /\ seen' = seen
  BY <1>1, <1>4, HaltFrame
<1>5. QED
  BY <1>2, <1>3, <1>4
     DEF SharedStep, Lock, Untouched, TakeMode, StopTimer, Abort, TestModeOff, FireOpens

\* leaveCalibration() restarts the machine only if that was committed.
LEMMA HaltRestart ==
    ASSUME ShapeInv, HaltInv, NEW p \in Editors, NEW o \in {"restore", "apply"}, At(p, o),
           \/ Made(p, <<>>)
           \/ Made(p, Restart) /\ sys.calibrating /\ resume /\ ~sys.fault,
           seen'.halted <=> seen.halted, resume' = resume, sys'.active <=> sys.active,
           sys'.calibrating => sys.calibrating, sys'.fault <=> sys.fault
    PROVE  HaltInv'
<1>1. p \in Processes /\ o # "lock" /\ "command" \in Processes /\ Editors \subseteq Processes
  BY ProcessNames
<1>2. CASE Made(p, <<>>)
  <2>1. Popped(p, o)
    BY <1>1, <1>2, PopStep
  <2>2. /\ \A q \in Editors : Call("setActive") \in Left(q)' => Call("setActive") \in Left(q)
        /\ Call("calibrate") \in Left("command")' => Call("calibrate") \in Left("command")
    BY <1>1, <2>1, PoppedLeft
  <2>3. QED
    BY <2>2, HaltFrame
<1>3. CASE sys.calibrating /\ resume /\ ~sys.fault
  BY <1>3 DEF HaltInv
<1>4. QED
  BY <1>2, <1>3

LEMMA HaltCommand ==
    ASSUME ShapeInv, ModeInv, HaltInv, CommandStep
    PROVE  HaltInv'
<1>0. /\ "command" \in Processes /\ "service" \in Processes /\ Editors = {"command", "service"}
      /\ \A x : Call(x)[1] = x
  BY ProcessNames
<1>1. ASSUME NEW o, o # "lock", At("command", o), Made("command", <<>>)
      PROVE  \A q \in Editors, x \in {"setActive", "calibrate"} :
                Call(x) \in Left(q)' => Call(x) \in Left(q)
  <2>1. Popped("command", o)
    BY <1>0, <1>1, PopStep
  <2>2. QED
    BY <1>0, <2>1, PoppedLeft
<1>2. CASE SeeFault
  <2>1. sys' = sys /\ resume' = resume /\ seen' = seen
    BY <1>2 DEF SeeFault, Untouched
  <2>2. CASE sys.fault
    <3>1. PICK T : /\ Left("command") = {Call("seeFault")} \cup T
                   /\ Left("command")' = {Call("clearFault")} \cup T
                   /\ Left("service")' = Left("service")
      BY <1>0, <1>2, <2>2, SeeFaultShape
    <3>2. \A q \in Editors, x \in {"setActive", "calibrate"} :
             Call(x) \in Left(q)' => Call(x) \in Left(q)
      BY <1>0, <3>1
    <3>3. QED
      BY <1>0, <2>1, <3>2, HaltFrame
  <2>3. CASE ~sys.fault
    <3>1. At("command", "seeFault") /\ Made("command", <<>>)
      BY <1>2, <2>3 DEF SeeFault
    <3>2. QED
      BY <1>0, <1>1, <2>1, <3>1, HaltFrame
  <2>4. QED
    BY <2>2, <2>3
<1>3. CASE ClearFault
  <2>1. Call("clearFault") \in Left("command")
    <3>1. At("command", "clearFault") /\ "clearFault" \notin GunOps
      BY <1>3 DEF ClearFault, GunOps
    <3>2. QED
      BY <1>0, <3>1, AtHead
  <2>2. Call("setActive") \in Left("command")
    BY <2>1 DEF ShapeInv, Pairs, CommandPairs
  <2>3. ~seen.halted /\ seen' = seen
    BY <1>0, <1>3, <2>2 DEF HaltInv, ClearFault
  <2>4. QED
    BY <2>3 DEF HaltInv
<1>4. CASE Cancel
  <2>1. seen' = seen /\ resume' = resume
    BY <1>4 DEF Cancel
  <2>2. (sys'.active <=> sys.active) /\ (sys'.fault <=> sys.fault) /\ (sys'.calibrating => sys.calibrating)
    <3>1. sys' = sys \/ sys' = [sys EXCEPT !.calibrating = FALSE]
      BY <1>4 DEF Cancel, Leave
    <3>2. CASE sys' = sys
      BY <3>2
    <3>3. CASE sys' = [sys EXCEPT !.calibrating = FALSE]
      BY <3>3
    <3>4. QED
      BY <3>1, <3>2, <3>3
  <2>3. CASE At("command", "restore")
    <3>1. \/ Made("command", <<>>)
          \/ Made("command", Restart) /\ sys.calibrating /\ resume /\ ~sys.fault
      BY <1>4, <2>3 DEF Cancel, Leave
    <3>2. QED
      BY <1>0, <2>1, <2>2, <2>3, <3>1, HaltRestart
  <2>4. CASE ~At("command", "restore")
    <3>1. At("command", "cancel") /\ Made("command", <<>>)
      BY <1>4, <2>4 DEF Cancel, Leave
    <3>2. QED
      BY <1>0, <1>1, <2>1, <2>2, <3>1, HaltFrame
  <2>5. QED
    BY <2>3, <2>4
<1>5. CASE Arm
  <2>1. /\ Left("command")' = ArmCalls /\ Left("service")' = Left("service")
    BY <1>0, <1>5, ArmShape DEF ModeInv
  <2>2. seen' = seen /\ sys' = sys /\ resume' = IF sys.calibrating THEN resume ELSE sys.active
    BY <1>5 DEF Arm
  <2>3. CASE seen.halted
    <3>1. ~sys.active /\ Call("setActive") \notin Left("service") /\ (sys.calibrating /\ resume => sys.fault)
      BY <1>0, <2>3 DEF HaltInv
    <3>2. Call("setActive") \notin ArmCalls
      BY <1>0 DEF ArmCalls, TakeAll
    <3>3. sys.calibrating => Call("calibrate") \notin ArmCalls
      <4>1. sys.calibrating => ArmCalls = {Call("forget"), Call("lead")}
        BY <3>1 DEF ArmCalls
      <4>2. QED
        BY <1>0, <4>1
    <3>4. ~sys.calibrating => ~resume'
      BY <2>2, <3>1
    <3>5. \A q \in Editors : Call("setActive") \notin Left(q)'
      BY <1>0, <2>1, <3>1, <3>2
    <3>6. Call("calibrate") \in Left("command")' => ~resume'
      BY <2>1, <3>3, <3>4
    <3>7. sys'.calibrating /\ resume' => sys'.fault
      BY <2>2, <3>1, <3>4
    <3>8. QED
      BY <2>2, <3>1, <3>5, <3>6, <3>7 DEF HaltInv, Call
  <2>4. CASE ~seen.halted
    BY <2>2, <2>4 DEF HaltInv
  <2>5. QED
    BY <2>3, <2>4
<1>6. CASE Calibrate
  <2>1. At("command", "calibrate") /\ Made("command", <<>>) /\ seen' = seen /\ resume' = resume
        /\ sys' = [sys EXCEPT !.calibrating = TRUE]
    BY <1>6 DEF Calibrate
  <2>2. (sys'.active <=> sys.active) /\ (sys'.fault <=> sys.fault)
    BY <2>1
  <2>3. Call("calibrate") \in Left("command")
    <3>1. "calibrate" \notin GunOps
      BY DEF GunOps
    <3>2. QED
      BY <1>0, <2>1, <3>1, AtHead
  <2>4. \A q \in Editors, x \in {"setActive", "calibrate"} :
           Call(x) \in Left(q)' => Call(x) \in Left(q)
    BY <1>1, <2>1
  <2>5. QED
    BY <1>0, <2>1, <2>2, <2>3, <2>4 DEF HaltInv, Call
<1>7. CASE Forget \/ Lead
  <2>1. /\ \E o \in {"forget", "lead"} : At("command", o)
        /\ Made("command", <<>>) /\ sys' = sys /\ resume' = resume /\ seen' = seen
    BY <1>7 DEF Forget, Lead
  <2>2. QED
    BY <1>0, <1>1, <2>1, HaltFrame
<1>8. CASE CheckTest \/ TryTest \/ Fire \/ Runs \/ StartTimer
  <2>1. /\ \A c \in Left("command")' : c[1] \in TestOps \cup {"check", "takeMode"}
        /\ Left("service")' = Left("service")
    BY <1>0, <1>8, TestLeft
  <2>2. \A q \in Editors, x \in {"setActive", "calibrate"} :
           Call(x) \in Left(q)' => Call(x) \in Left(q)
    BY <1>0, <2>1 DEF TestOps
  <2>3. sys' = sys /\ resume' = resume
    BY <1>8 DEF CheckTest, Untouched, TryTest, Fire, Runs, StartTimer
  <2>4. seen'.halted <=> seen.halted
    <3>1. CASE TryTest
      <4>1. seen' = [seen EXCEPT !.crossed = @ \/ Stopping]
        BY <3>1 DEF TryTest
      <4>2. QED
        BY <4>1
    <3>2. CASE seen' = seen
      BY <3>2
    <3>3. QED
      BY <1>8, <3>1, <3>2 DEF CheckTest, Untouched, Fire, Runs, StartTimer
  <2>5. QED
    BY <1>0, <2>2, <2>3, <2>4, HaltFrame
<1>9. QED
  BY <1>2, <1>3, <1>4, <1>5, <1>6, <1>7, <1>8 DEF CommandStep

LEMMA HaltHandler ==
    ASSUME ShapeInv, ModeInv, HaltInv, NEW p \in Processes, HandlerOf(p)
    PROVE  HaltInv'
<1>0. /\ {"watchdog", "fault", "photocell", "service", "command"} \subseteq Processes
      /\ "service" \in Editors /\ "command" \in Editors /\ Editors \subseteq Processes
      /\ \A q \in Editors : q \notin {"watchdog", "fault", "photocell"}
  BY ProcessNames
<1>1. CASE SharedStep(p)
  BY <1>1, HaltShared
<1>2. CASE p = "command" /\ CommandStep
  BY <1>2, HaltCommand
<1>3. ASSUME NEW q \in {"watchdog", "fault", "photocell"},
             \A k \in Processes : k # q => Left(k)' = Left(k),
             seen'.halted => seen.halted, sys'.active => sys.active,
             sys'.calibrating => sys.calibrating, sys.fault => sys'.fault, resume' = resume
      PROVE  HaltInv'
  <2>1. \A e \in Editors : Left(e)' = Left(e)
    BY <1>0, <1>3
  <2>2. QED
    BY <1>0, <1>3, <2>1, HaltFrame
<1>4. ASSUME NEW q \in Processes, NEW o, o # "lock", At(q, o), Made(q, <<>>)
      PROVE  \A k \in Processes : k # q => Left(k)' = Left(k)
  BY <1>4, PopStep DEF Popped
<1>5. CASE p = "watchdog" /\ (ReadLast \/ ReadArmed)
  <2>1. sys' = sys /\ resume' = resume
    BY <1>5 DEF ReadLast, ReadArmed
  <2>2. seen'.halted <=> seen.halted
    <3>1. CASE ReadLast
      BY <3>1 DEF ReadLast
    <3>2. CASE ReadArmed
      <4>1. PICK b : seen' = [seen EXCEPT !.crossed = b]
        BY <3>2 DEF ReadArmed
      <4>2. QED
        BY <4>1
    <3>3. QED
      BY <1>5, <3>1, <3>2
  <2>3. \A k \in Processes : k # "watchdog" => Left(k)' = Left(k)
    <3>1. CASE At("watchdog", "readArmed") /\ Made("watchdog", StopAll)
      BY <3>1, TripShape
    <3>2. QED
      BY <1>0, <1>4, <1>5, <3>1 DEF ReadLast, ReadArmed
  <2>4. QED
    BY <1>3, <2>1, <2>2, <2>3
<1>6. CASE p = "fault" /\ SetFault
  <2>1. sys' = [sys EXCEPT !.fault = TRUE] /\ resume' = resume /\ seen' = seen
    BY <1>6 DEF SetFault
  <2>2. (sys'.active <=> sys.active) /\ (sys'.calibrating <=> sys.calibrating) /\ sys'.fault
    BY <2>1
  <2>3. \A k \in Processes : k # "fault" => Left(k)' = Left(k)
    BY <1>0, <1>4, <1>6 DEF SetFault
  <2>4. QED
    BY <1>3, <2>1, <2>2, <2>3
<1>7. CASE p = "photocell" /\ PhotocellStores
  <2>1. sys' = sys /\ resume' = resume /\ seen' = seen
    BY <1>7 DEF PhotocellStores
  <2>2. \A k \in Processes : k # "photocell" => Left(k)' = Left(k)
    BY <1>0, <1>4, <1>7 DEF PhotocellStores
  <2>3. QED
    BY <1>3, <2>1, <2>2
<1>8. CASE p = "service" /\ Apply
  <2>1. At("service", "apply") /\ resume' = resume
    BY <1>8 DEF Apply
  <2>2. seen'.halted <=> seen.halted
    <3>1. PICK b : seen' = [seen EXCEPT !.stale = b]
      BY <1>8 DEF Apply
    <3>2. QED
      BY <3>1
  <2>3. (sys'.active <=> sys.active) /\ (sys'.fault <=> sys.fault) /\ (sys'.calibrating => sys.calibrating)
    <3>1. sys' = sys \/ sys' = [sys EXCEPT !.calibrating = FALSE]
      BY <1>8 DEF Apply, Leave
    <3>2. CASE sys' = sys
      BY <3>2
    <3>3. CASE sys' = [sys EXCEPT !.calibrating = FALSE]
      BY <3>3
    <3>4. QED
      BY <3>1, <3>2, <3>3
  <2>4. \/ Made("service", <<>>)
        \/ Made("service", Restart) /\ sys.calibrating /\ resume /\ ~sys.fault
    BY <1>8 DEF Apply, Leave
  <2>5. QED
    BY <1>0, <2>1, <2>2, <2>3, <2>4, HaltRestart
<1>9. QED
  BY <1>1, <1>2, <1>5, <1>6, <1>7, <1>8 DEF HandlerOf

\* What an input changes of the calls.
LEMMA InputLeft ==
    ASSUME ShapeInv, KindInv, NEW i \in Inputs, Input(i)
    PROVE  \/ \E c \in CommandNames :
                /\ Receive(c) /\ Left("command") = {} /\ Left("command")' = CommandCalls[c]
                /\ \A q \in Processes : q # "command" => Left(q)' = Left(q)
           \/ \E g \in Guns, o \in {"check", "takeMode"} :
                /\ ReceiveTest(g) /\ Left("command") = {}
                /\ Left("command")' = {Call("lock"), <<o, g>>}
                /\ \A q \in Processes : q # "command" => Left(q)' = Left(q)
           \/ \E g \in Guns :
                /\ TickDot(g) /\ Left("timer") = {} /\ Left("timer")' = {<<"dotOpens", g>>}
                /\ \A q \in Processes : q # "timer" => Left(q)' = Left(q)
           \/ /\ Tick
              /\ \/ Left("watchdog") = {} /\ Left("watchdog")' = {Call("readLast"), Call("readArmed")}
                    /\ link'.lag = 0
                 \/ Left("watchdog")' = Left("watchdog") /\ ~Free("watchdog")
              /\ \A q \in Processes : q # "watchdog" => Left(q)' = Left(q)
           \/ /\ FaultIsr
              /\ \A q \in Processes : q # "fault" => Left(q)' = Left(q)
           \/ /\ \/ LeadingEdge /\ Left("photocell")' = {Call("leadSeen")}
                 \/ FallingEdge /\ Left("photocell")' = {Call("sheetLeft"), Call("sheetDone")}
              /\ Left("photocell") = {}
              /\ \A q \in Processes : q # "photocell" => Left(q)' = Left(q)
           \/ /\ Ping \/ SafetyStop \/ \E g \in Guns : Deadline(g) \/ SheetFires(g)
              /\ \A q \in Processes : Left(q)' = Left(q)
<1>1. ASSUME NEW c \in CommandNames, Receive(c)
      PROVE  /\ Left("command") = {} /\ Left("command")' = CommandCalls[c]
             /\ \A q \in Processes : q # "command" => Left(q)' = Left(q)
  BY <1>1, ReceiveShape DEF Receive
<1>2. ASSUME NEW g \in Guns, ReceiveTest(g)
      PROVE  /\ Left("command") = {}
             /\ \E o \in {"check", "takeMode"} : Left("command")' = {Call("lock"), <<o, g>>}
             /\ \A q \in Processes : q # "command" => Left(q)' = Left(q)
  <2>1. PICK o \in {"check", "takeMode"} : Begin("command", <<Call("lock"), <<o, g>>>>)
    BY <1>2 DEF ReceiveTest
  <2>2. QED
    BY <2>1, TestShape
<1>3. ASSUME NEW g \in Guns, TickDot(g)
      PROVE  /\ Left("timer") = {} /\ Left("timer")' = {<<"dotOpens", g>>}
             /\ \A q \in Processes : q # "timer" => Left(q)' = Left(q)
  <2>1. Kind[g] = "Dots" /\ Begin("timer", <<<<"dotOpens", g>>>>)
    BY <1>3 DEF TickDot, KindInv
  <2>2. QED
    BY <2>1, DotShape
<1>4. CASE FaultIsr
  <2>1. Begin("fault", <<Call("abortAll"), Call("setFault"), Call("clearActive")>>)
    BY <1>4 DEF FaultIsr
  <2>2. \A q \in Processes : q # "fault" => Left(q)' = Left(q)
    BY <2>1, OtherShape
  <2>3. QED
    BY <1>4, <2>2
<1>5. CASE LeadingEdge
  <2>1. Begin("photocell", <<Call("leadSeen")>>)
    BY <1>5 DEF LeadingEdge
  <2>2. /\ Left("photocell")' = {Call("leadSeen")} /\ Left("photocell") = {}
        /\ \A q \in Processes : q # "photocell" => Left(q)' = Left(q)
    BY <2>1, OtherShape
  <2>3. QED
    BY <1>5, <2>2
<1>6. CASE FallingEdge
  <2>1. Begin("photocell", <<Call("sheetLeft"), Call("sheetDone")>>)
    BY <1>6 DEF FallingEdge
  <2>2. /\ Left("photocell")' = {Call("sheetLeft"), Call("sheetDone")} /\ Left("photocell") = {}
        /\ \A q \in Processes : q # "photocell" => Left(q)' = Left(q)
    BY <2>1, OtherShape
  <2>3. QED
    BY <1>6, <2>2
<1>7. CASE Ping \/ SafetyStop \/ \E g \in Guns : Deadline(g) \/ SheetFires(g)
  <2>1. todo' = todo
    BY <1>7 DEF Ping, SafetyStop, Deadline, SheetFires
  <2>2. QED
    BY <1>7, <2>1, SameTodo
<1>8. CASE Tick
  BY <1>8, TickShape
<1>9. \/ \E c \in CommandNames : Receive(c)
      \/ \E g \in Guns : ReceiveTest(g) \/ TickDot(g)
      \/ Tick \/ FaultIsr \/ LeadingEdge \/ FallingEdge
      \/ Ping \/ SafetyStop \/ \E g \in Guns : Deadline(g) \/ SheetFires(g)
  BY CommandLists DEF Input
<1>10. QED
  <2>1. CASE \E c \in CommandNames : Receive(c)
    BY <1>1, <2>1
  <2>2. CASE \E g \in Guns : ReceiveTest(g)
    BY <1>2, <2>2
  <2>3. CASE \E g \in Guns : TickDot(g)
    BY <1>3, <2>3
  <2>4. QED
    BY <1>4, <1>5, <1>6, <1>7, <1>8, <1>9, <2>1, <2>2, <2>3

\* What an input changes of the flags.
LEMMA InputFlags ==
    ASSUME NEW i \in Inputs, Input(i), ~SafetyStop
    PROVE  sys' = sys /\ resume' = resume
BY DEF Input, Receive, ReceiveTest, Deadline, TickDot, Ping, Tick, FaultIsr, Untouched,
       LeadingEdge, FallingEdge, SheetFires

LEMMA HaltInput ==
    ASSUME ShapeInv, HaltInv, KindInv, NEW i \in Inputs, Input(i)
    PROVE  HaltInv'
<1>0. /\ Editors = {"command", "service"} /\ Editors \subseteq Processes
      /\ \A q \in Editors : q \notin {"watchdog", "fault", "photocell", "timer"}
      /\ \A x : Call(x)[1] = x
  BY ProcessNames
<1>1. CASE SafetyStop
  <2>1. /\ sys' = [sys EXCEPT !.active = FALSE] /\ resume' = resume /\ todo' = todo
        /\ seen' = [seen EXCEPT !.halted = ~Committed, !.alone = 0]
    BY <1>1 DEF SafetyStop
  <2>2. seen'.halted => ~Committed
    <3> DEFINE b == ~Committed
    <3>1. seen' = [seen EXCEPT !.halted = b, !.alone = 0] /\ (b => ~Committed)
      BY <2>1
    <3> HIDE DEF b
    <3>2. seen'.halted = b
      BY <3>1
    <3>3. QED
      BY <3>1, <3>2
  <2>3. ~sys'.active /\ (sys'.calibrating <=> sys.calibrating) /\ (sys'.fault <=> sys.fault)
    BY <2>1
  <2>4. ASSUME ~Committed
        PROVE  /\ \A q \in Editors : Call("setActive") \notin Left(q)
               /\ Call("calibrate") \notin Left("command")
               /\ sys.calibrating /\ resume => sys.fault
    BY <1>0, <2>4, ComingFacts DEF Committed
  <2>5. \A q \in Editors : Left(q)' = Left(q)
    BY <1>0, <2>1, SameTodo
  <2>6. QED
    BY <1>0, <2>1, <2>2, <2>3, <2>4, <2>5 DEF HaltInv, Call
<1>2. ASSUME NEW c \in CommandNames, Receive(c), Left("command")' = CommandCalls[c],
             Left("service")' = Left("service")
      PROVE  HaltInv'
  <2>1. sys' = sys /\ resume' = resume
    BY <1>2 DEF Receive
  <2>2. CASE c = "start"
    <3>1. ~seen'.halted
      <4>1. seen' = [seen EXCEPT !.fed = TRUE, !.halted = @ /\ c # "start"]
        BY <1>2 DEF Receive
      <4> DEFINE b == seen.halted /\ c # "start"
      <4>2. seen' = [seen EXCEPT !.fed = TRUE, !.halted = b] /\ ~b
        BY <2>2, <4>1
      <4> HIDE DEF b
      <4>3. seen'.halted = b
        BY <4>2
      <4>4. QED
        BY <4>2, <4>3
    <3>2. QED
      BY <3>1 DEF HaltInv
  <2>3. CASE c # "start"
    <3>1. seen'.halted => seen.halted
      <4>1. seen' = [seen EXCEPT !.fed = TRUE, !.halted = @ /\ c # "start"]
        BY <1>2 DEF Receive
      <4> DEFINE b == seen.halted /\ c # "start"
      <4>2. seen' = [seen EXCEPT !.fed = TRUE, !.halted = b] /\ (b => seen.halted)
        BY <4>1
      <4> HIDE DEF b
      <4>3. seen'.halted = b
        BY <4>2
      <4>4. QED
        BY <4>2, <4>3
    <3>2. Call("setActive") \notin CommandCalls[c] /\ Call("calibrate") \notin CommandCalls[c]
      BY <1>0, <2>3 DEF CommandCalls, CommandNames, TakeAll, StopCalls
    <3>3. QED
      BY <1>0, <1>2, <2>1, <3>1, <3>2, HaltFrame
  <2>4. QED
    BY <2>2, <2>3
<1>3. ASSUME NEW g \in Guns, NEW o \in {"check", "takeMode"}, ReceiveTest(g),
             Left("command")' = {Call("lock"), <<o, g>>}, Left("service")' = Left("service")
      PROVE  HaltInv'
  <2>1. sys' = sys /\ resume' = resume /\ seen' = [seen EXCEPT !.fed = TRUE]
    BY <1>3 DEF ReceiveTest
  <2>2. seen'.halted <=> seen.halted
    BY <2>1
  <2>3. Call("setActive") \notin Left("command")' /\ Call("calibrate") \notin Left("command")'
    BY <1>0, <1>3
  <2>4. QED
    BY <1>0, <1>3, <2>1, <2>2, <2>3, HaltFrame
<1>4. ASSUME ~SafetyStop, \A q \in Editors : Left(q)' = Left(q), seen'.halted <=> seen.halted
      PROVE  HaltInv'
  <2>1. sys' = sys /\ resume' = resume
    BY <1>4, InputFlags
  <2>2. QED
    BY <1>0, <1>4, <2>1, HaltFrame
<1>5. CASE /\ ~SafetyStop
           /\ \A q \in Editors : Left(q)' = Left(q)
           /\ Tick \/ FaultIsr \/ LeadingEdge \/ FallingEdge \/ Ping
                 \/ \E g \in Guns : TickDot(g) \/ Deadline(g) \/ SheetFires(g)
  <2>1. CASE Tick
    <3>1. PICK b, n : seen' = [seen EXCEPT !.fed = b, !.alone = n]
      BY <2>1 DEF Tick
    <3>2. seen'.halted <=> seen.halted
      BY <3>1
    <3>3. QED
      BY <1>4, <1>5, <3>2
  <2>2. CASE Ping
    <3>1. seen' = [seen EXCEPT !.fed = TRUE]
      BY <2>2 DEF Ping
    <3>2. seen'.halted <=> seen.halted
      BY <3>1
    <3>3. QED
      BY <1>4, <1>5, <3>2
  <2>3. CASE seen' = seen
    BY <1>4, <1>5, <2>3
  <2>4. QED
    BY <1>5, <2>1, <2>2, <2>3
       DEF FaultIsr, Untouched, LeadingEdge, FallingEdge, TickDot, Deadline, SheetFires
<1>6. QED
  BY <1>0, <1>1, <1>2, <1>3, <1>5, InputLeft

LEMMA WorldLeft ==
    ASSUME ShapeInv, World
    PROVE  \/ /\ TakePending /\ Left("service") = {} /\ Left("service")' = {Call("lock"), Call("apply")}
              /\ \A q \in Processes : q # "service" => Left(q)' = Left(q)
           \/ /\ HandOver \/ \E g \in Guns : GunCloses(g)
              /\ \A q \in Processes : Left(q)' = Left(q)
<1>1. CASE TakePending
  <2>1. Begin("service", <<Call("lock"), Call("apply")>>)
    BY <1>1 DEF TakePending
  <2>2. /\ Left("service")' = {Call("lock"), Call("apply")} /\ Left("service") = {}
        /\ \A q \in Processes : q # "service" => Left(q)' = Left(q)
    BY <2>1, OtherShape
  <2>3. QED
    BY <1>1, <2>2
<1>2. CASE HandOver \/ \E g \in Guns : GunCloses(g)
  <2>1. todo' = todo
    BY <1>2 DEF HandOver, GunCloses
  <2>2. QED
    BY <1>2, <2>1, SameTodo
<1>3. QED
  BY <1>1, <1>2 DEF World

LEMMA HaltWorld ==
    ASSUME ShapeInv, HaltInv, World
    PROVE  HaltInv'
<1>1. sys' = sys /\ resume' = resume /\ seen' = seen
  BY DEF World, HandOver, TakePending, GunCloses
<1>2. \A q \in Editors : Call("setActive") \in Left(q)' => Call("setActive") \in Left(q)
  BY WorldLeft, ProcessNames
<1>3. Call("calibrate") \in Left("command")' => Call("calibrate") \in Left("command")
  BY WorldLeft, ProcessNames
<1>4. QED
  BY <1>1, <1>2, <1>3, HaltFrame

LEMMA HaltStep ==
    ASSUME ShapeInv, ModeInv, HaltInv, KindInv, Next
    PROVE  HaltInv'
BY HaltHandler, HaltInput, HaltWorld DEF Next, Handler

----------------------------------------------------------------------------
(* Calibration goes on, and swallows no sheet of production.               *)

LEMMA CalibFrame ==
    ASSUME CalibInv, sys'.calibrating <=> sys.calibrating, photo' = photo, result' = result,
           seen.stale => seen'.stale,
           Call("lead") \in Left("command") => Call("lead") \in Left("command")',
           Call("sheetDone") \in Left("photocell")' => Call("sheetDone") \in Left("photocell"),
           Call("apply") \in Left("service")' => Call("apply") \in Left("service")
    PROVE  CalibInv'
BY DEF CalibInv, Call

\* Results keep their places, and age.
LEMMA AgedResults ==
    ASSUME DataOK
    PROVE  /\ \A pl \in Places : /\ Aged(result)[pl] # "fresh"
                                 /\ result[pl] # "none" => Aged(result)[pl] # "none"
           /\ LET r == Aged([result EXCEPT !["done"] = "none"])
              IN  \A pl \in Places : /\ r[pl] # "fresh"
                                     /\ result[pl] # "none" /\ pl # "done" => r[pl] # "none"
<1>1. result \in [Places -> {"none", "fresh", "stale"}]
  BY DEF DataOK
<1>2. \A pl \in Places : /\ Aged(result)[pl] # "fresh"
                         /\ result[pl] # "none" => Aged(result)[pl] # "none"
  BY <1>1 DEF Aged
<1> DEFINE r == [result EXCEPT !["done"] = "none"]
<1>3. \A pl \in Places : r[pl] = IF pl = "done" THEN "none" ELSE result[pl]
  BY <1>1
<1> HIDE DEF r
<1>4. \A pl \in Places : /\ Aged(r)[pl] # "fresh"
                         /\ r[pl] # "none" => Aged(r)[pl] # "none"
  BY DEF Aged
<1>5. \A pl \in Places : /\ Aged(r)[pl] # "fresh"
                         /\ result[pl] # "none" /\ pl # "done" => Aged(r)[pl] # "none"
  BY <1>3, <1>4
<1>6. QED
  BY <1>2, <1>5 DEF r

LEMMA CalibShared ==
    ASSUME ShapeInv, CalibInv, NEW p \in Processes, SharedStep(p)
    PROVE  CalibInv'
<1>1. /\ Call("lead") \in Left("command") => Call("lead") \in Left("command")'
      /\ Call("sheetDone") \in Left("photocell")' => Call("sheetDone") \in Left("photocell")
      /\ Call("apply") \in Left("service")' => Call("apply") \in Left("service")
  BY SharedLeft, ProcessNames DEF Marks
<1>2. photo' = photo /\ result' = result
  BY DEF SharedStep, Lock, Untouched, TakeMode, StopTimer, Abort, TestModeOff, ClearActive,
         SetActive, FireOpens
<1>3. (sys'.calibrating <=> sys.calibrating) /\ (seen'.stale <=> seen.stale)
  <2>1. CASE ClearActive(p)
    <3>1. PICK b : /\ sys' = [sys EXCEPT !.active = FALSE]
                   /\ seen' = [seen EXCEPT !.halted = b, !.alone = 0]
      BY <2>1 DEF ClearActive
    <3>2. QED
      BY <3>1
  <2>2. CASE SetActive(p)
    <3>1. sys' = [sys EXCEPT !.active = TRUE] /\ seen' = seen
      BY <2>2 DEF SetActive
    <3>2. QED
      BY <3>1
  <2>3. CASE sys' = sys /\ seen' = seen
    BY <2>3
  <2>4. QED
    BY <2>1, <2>2, <2>3
       DEF SharedStep, Lock, Untouched, TakeMode, StopTimer, Abort, TestModeOff, FireOpens
<1>4. QED
  BY <1>1, <1>2, <1>3, CalibFrame

LEMMA CalibCommand ==
    ASSUME ShapeInv, ModeInv, CalibInv, DataOK, CommandStep
    PROVE  CalibInv'
<1>0. /\ {"command", "service", "photocell"} \subseteq Processes
      /\ \A x : Call(x)[1] = x
  BY ProcessNames
<1>1. Left("service")' = Left("service") /\ Left("photocell")' = Left("photocell")
  <2>1. ASSUME NEW o, o # "lock", At("command", o), Made("command", <<>>)
        PROVE  Left("service")' = Left("service") /\ Left("photocell")' = Left("photocell")
    BY <1>0, <2>1, PopStep DEF Popped
  <2>2. CASE SeeFault
    BY <1>0, <2>1, <2>2, SeeFaultShape DEF SeeFault
  <2>3. CASE Cancel
    <3>1. CASE At("command", "restore") /\ Made("command", Restart)
      BY <1>0, <3>1, RestartShape, ProcessNames
    <3>2. CASE Made("command", <<>>)
      BY <2>1, <2>3, <3>2 DEF Cancel
    <3>3. QED
      BY <2>3, <3>1, <3>2 DEF Cancel, Leave
  <2>4. CASE Arm
    BY <1>0, <2>4, ArmShape DEF ModeInv
  <2>5. CASE CheckTest \/ TryTest \/ Fire \/ Runs \/ StartTimer
    BY <1>0, <2>5, TestLeft
  <2>6. QED
    BY <2>1, <2>2, <2>3, <2>4, <2>5 DEF CommandStep, ClearFault, Calibrate, Forget, Lead
<1>2. ASSUME NEW o, o # "lock", o # "lead", At("command", o), Made("command", <<>>)
      PROVE  Call("lead") \in Left("command") => Call("lead") \in Left("command")'
  <2>1. Popped("command", o)
    BY <1>0, <1>2, PopStep
  <2>2. QED
    BY <1>0, <1>2, <2>1, PoppedLeft
<1>3. ASSUME photo' = photo, result' = result, (sys'.calibrating <=> sys.calibrating),
             seen.stale => seen'.stale,
             Call("lead") \in Left("command") => Call("lead") \in Left("command")'
      PROVE  CalibInv'
  BY <1>1, <1>3, CalibFrame
<1>4. CASE SeeFault
  <2>1. photo' = photo /\ result' = result /\ sys' = sys /\ seen' = seen
    BY <1>4 DEF SeeFault, Untouched
  <2>2. Call("lead") \in Left("command") => Call("lead") \in Left("command")'
    <3>1. CASE sys.fault
      <4>1. PICK T : /\ Left("command") = {Call("seeFault")} \cup T
                     /\ Left("command")' = {Call("clearFault")} \cup T
        BY <1>4, <3>1, SeeFaultShape
      <4>2. QED
        BY <1>0, <4>1
    <3>2. CASE ~sys.fault
      BY <1>2, <1>4, <3>2 DEF SeeFault
    <3>3. QED
      BY <3>1, <3>2
  <2>3. QED
    BY <1>3, <2>1, <2>2
<1>5. CASE ClearFault
  <2>1. /\ photo' = photo /\ result' = result /\ seen' = seen
        /\ sys' = [sys EXCEPT !.fault = FALSE] /\ At("command", "clearFault") /\ Made("command", <<>>)
    BY <1>5 DEF ClearFault
  <2>2. sys'.calibrating <=> sys.calibrating
    BY <2>1
  <2>3. QED
    BY <1>2, <1>3, <2>1, <2>2
<1>6. CASE Cancel
  <2>1. CASE sys.calibrating
    <3>1. /\ photo' = "Idle" /\ result' = Aged([result EXCEPT !["done"] = "none"])
          /\ sys' = [sys EXCEPT !.calibrating = FALSE]
      BY <1>6, <2>1 DEF Cancel, Leave
    <3>2. ~sys'.calibrating
      BY <3>1
    <3>3. \A pl \in Places : result[pl] # "none" /\ pl # "done" => result'[pl] # "none"
      BY <3>1, AgedResults
    <3>4. Call("sheetDone") \in Left("photocell")' => result'["edge"] # "none"
      BY <1>1, <3>3 DEF CalibInv, Places
    <3>5. Call("apply") \in Left("service")' => result'["taken"] # "none"
      BY <1>1, <3>3 DEF CalibInv, Places
    <3>6. QED
      BY <3>1, <3>2, <3>4, <3>5 DEF CalibInv, Call
  <2>2. CASE ~sys.calibrating
    <3>1. /\ photo' = photo /\ result' = result /\ sys' = sys /\ seen' = seen /\ Made("command", <<>>)
          /\ \E o \in {"cancel", "restore"} : At("command", o)
      BY <1>6, <2>2 DEF Cancel
    <3>2. QED
      BY <1>2, <1>3, <3>1
  <2>3. QED
    BY <2>1, <2>2
<1>7. CASE Arm
  <2>1. Left("command") = {Call("arm")} /\ Left("command")' = ArmCalls
    BY <1>7, ArmShape DEF ModeInv
  <2>2. photo' = photo /\ result' = result /\ sys' = sys /\ seen' = seen
    BY <1>7 DEF Arm
  <2>3. QED
    BY <1>0, <1>3, <2>1, <2>2
<1>8. CASE Calibrate
  <2>1. /\ photo' = photo /\ result' = result /\ seen' = seen /\ At("command", "calibrate")
        /\ Made("command", <<>>) /\ sys' = [sys EXCEPT !.calibrating = TRUE]
    BY <1>8 DEF Calibrate
  <2>2. sys'.calibrating
    BY <2>1
  <2>3. Call("lead") \in Left("command")'
    <3>1. "calibrate" \notin GunOps
      BY DEF GunOps
    <3>2. Call("calibrate") \in Left("command")
      BY <1>0, <2>1, <3>1, AtHead
    <3>3. Call("lead") \in Left("command")
      BY <3>2 DEF ShapeInv, Pairs, CommandPairs
    <3>4. QED
      BY <1>2, <2>1, <3>3
  <2>4. QED
    BY <1>1, <2>1, <2>2, <2>3 DEF CalibInv, Call
<1>9. CASE Forget
  <2>1. /\ photo' = photo /\ sys' = sys /\ seen' = seen /\ At("command", "forget")
        /\ Made("command", <<>>) /\ result' = Aged([result EXCEPT !["done"] = "none"])
    BY <1>9 DEF Forget
  <2>2. Call("lead") \in Left("command")'
    <3>1. "forget" \notin GunOps
      BY DEF GunOps
    <3>2. Call("forget") \in Left("command")
      BY <1>0, <2>1, <3>1, AtHead
    <3>3. Call("lead") \in Left("command")
      BY <3>2 DEF ShapeInv, Pairs, CommandPairs
    <3>4. QED
      BY <1>2, <2>1, <3>3
  <2>3. \A pl \in Places : /\ result'[pl] # "fresh"
                           /\ result[pl] # "none" /\ pl # "done" => result'[pl] # "none"
    BY <2>1, AgedResults
  <2>4. /\ Call("sheetDone") \in Left("photocell")' => result'["edge"] # "none"
        /\ Call("apply") \in Left("service")' => result'["taken"] # "none"
    BY <1>1, <2>3 DEF CalibInv, Places
  <2>5. QED
    BY <2>1, <2>2, <2>3, <2>4 DEF CalibInv, Call
<1>10. CASE Lead
  <2>1. /\ photo' = "Leading" /\ sys' = sys /\ seen' = seen /\ At("command", "lead")
        /\ Made("command", <<>>) /\ result' = Aged(result)
    BY <1>10 DEF Lead
  <2>2. \A pl \in Places : /\ result'[pl] # "fresh"
                           /\ result[pl] # "none" => result'[pl] # "none"
    BY <2>1, AgedResults
  <2>3. /\ Call("sheetDone") \in Left("photocell")' => result'["edge"] # "none"
        /\ Call("apply") \in Left("service")' => result'["taken"] # "none"
    BY <1>1, <2>2 DEF CalibInv, Places
  <2>4. sys.calibrating
    <3>1. "lead" \notin GunOps /\ Follow("lead") = {}
      BY FollowFacts DEF GunOps
    <3>2. Left("command") = {Call("lead")}
      BY <1>0, <2>1, <3>1, AtHead
    <3>3. QED
      BY <1>0, <3>2 DEF ModeInv
  <2>5. QED
    BY <2>1, <2>2, <2>3, <2>4 DEF CalibInv, Call
<1>11. CASE CheckTest \/ TryTest \/ Fire \/ Runs \/ StartTimer
  <2>1. photo' = photo /\ result' = result /\ sys' = sys
    BY <1>11 DEF CheckTest, Untouched, TryTest, Fire, Runs, StartTimer
  <2>2. seen'.stale <=> seen.stale
    <3>1. CASE TryTest
      <4>1. PICK b : seen' = [seen EXCEPT !.crossed = b]
        BY <3>1 DEF TryTest
      <4>2. QED
        BY <4>1
    <3>2. CASE seen' = seen
      BY <3>2
    <3>3. QED
      BY <1>11, <3>1, <3>2 DEF CheckTest, Untouched, Fire, Runs, StartTimer
  <2>3. Call("lead") \notin Left("command")
    BY <1>0, <1>11, TestLeft DEF TestOps
  <2>4. QED
    BY <1>3, <2>1, <2>2, <2>3
<1>12. QED
  BY <1>4, <1>5, <1>6, <1>7, <1>8, <1>9, <1>10, <1>11 DEF CommandStep

LEMMA CalibPhotocell ==
    ASSUME ShapeInv, CalibInv, DataOK, PhotocellStores
    PROVE  CalibInv'
<1>0. /\ {"command", "service", "photocell"} \subseteq Processes
      /\ \A x : Call(x)[1] = x /\ "sheetLeft" \notin GunOps
  BY ProcessNames DEF GunOps
<1>1. sys' = sys /\ seen' = seen /\ Made("photocell", <<>>)
  BY DEF PhotocellStores
<1>2. PICK o \in {"leadSeen", "sheetLeft", "sheetDone"} :
          /\ At("photocell", o)
          /\ \/ o = "leadSeen" /\ photo' = "Trailing" /\ result' = result
             \/ o = "sheetLeft" /\ photo' = "Idle" /\ result' = result
             \/ o = "sheetDone" /\ photo' = photo /\ result' = Moved("edge", "done")
  BY DEF PhotocellStores
<1>3. Popped("photocell", o)
  BY <1>0, <1>1, <1>2, PopStep
<1>4. /\ Left("command")' = Left("command") /\ Left("service")' = Left("service")
      /\ Left("photocell")' \subseteq Left("photocell")
  BY <1>0, <1>3 DEF Popped
<1>5. CASE o = "leadSeen"
  BY <1>1, <1>2, <1>4, <1>5 DEF CalibInv, Call
<1>6. CASE o = "sheetLeft"
  <2>1. Call("sheetLeft") \in Left("photocell")
    BY <1>0, <1>2, <1>6, AtHead
  <2>2. result["edge"] # "none"
    BY <2>1 DEF ShapeInv, Pairs, SensorPairs, CalibInv
  <2>3. "edge" \in Places
    BY DEF Places
  <2>4. QED
    BY <1>1, <1>2, <1>4, <1>6, <2>2, <2>3 DEF CalibInv, Call
<1>7. CASE o = "sheetDone"
  <2>1. Left("photocell")' = {} /\ Call("sheetDone") \in Left("photocell")
    <3>1. "sheetDone" \notin GunOps /\ Follow("sheetDone") = {}
      BY FollowFacts DEF GunOps
    <3>2. QED
      BY <1>0, <1>2, <1>3, <1>7, <3>1, AtHead DEF Popped
  <2>2. result["edge"] # "none"
    BY <2>1 DEF CalibInv
  <2>3. \A pl \in Places : result'[pl] = CASE pl = "edge" -> "none" [] pl = "done" -> result["edge"]
                                           [] OTHER -> result[pl]
    BY <1>2, <1>7 DEF DataOK, Moved, Places
  <2>4. {"edge", "done", "taken"} \subseteq Places
    BY DEF Places
  <2>5. result'["done"] # "none" /\ result'["taken"] = result["taken"]
    BY <2>2, <2>3, <2>4
  <2>6. photo = "Leading" => \A pl \in Places : result'[pl] # "fresh"
    BY <2>3, <2>4 DEF CalibInv
  <2>7. QED
    BY <1>1, <1>2, <1>4, <1>7, <2>1, <2>4, <2>5, <2>6 DEF CalibInv, Call
<1>8. QED
  BY <1>5, <1>6, <1>7

LEMMA CalibApply ==
    ASSUME ShapeInv, CalibInv, DataOK, Apply
    PROVE  CalibInv'
<1>0. /\ {"command", "service", "photocell"} \subseteq Processes
      /\ "service" \in Editors /\ \A x : Call(x)[1] = x
  BY ProcessNames
<1>1. /\ At("service", "apply") /\ photo' = photo
      /\ result' = [result EXCEPT !["taken"] = "none"]
  BY DEF Apply
<1>2. \A pl \in Places : result'[pl] = IF pl = "taken" THEN "none" ELSE result[pl]
  BY <1>1 DEF DataOK
<1>3. "apply" \notin GunOps /\ "apply" # "lock" /\ Follow("apply") = {}
  BY FollowFacts DEF GunOps
<1>4. Left("service") = {Call("apply")}
  BY <1>0, <1>1, <1>3, AtHead
<1>5. result["taken"] # "none"
  BY <1>4 DEF CalibInv
<1>6. /\ Left("command")' = Left("command") /\ Left("photocell")' = Left("photocell")
      /\ Call("apply") \notin Left("service")'
  <2>1. CASE Made("service", <<>>)
    <3>1. Popped("service", "apply")
      BY <1>0, <1>1, <1>3, <2>1, PopStep
    <3>2. QED
      BY <1>0, <1>3, <3>1 DEF Popped
  <2>2. CASE Made("service", Restart)
    <3>1. /\ Left("service")' = TakeAll \cup {Call("testModeOff"), Call("setActive")}
          /\ \A q \in Processes : q # "service" => Left(q)' = Left(q)
      BY <1>0, <1>1, <2>2, RestartShape
    <3>2. \A c \in TakeAll \cup {Call("testModeOff"), Call("setActive")} : c[1] # "apply"
      BY <1>0 DEF TakeAll
    <3>3. QED
      BY <1>0, <3>1, <3>2
  <2>3. QED
    BY <2>1, <2>2 DEF Apply, Leave
<1>7. /\ Call("sheetDone") \in Left("photocell")' => result'["edge"] # "none"
      /\ photo' = "Leading" => \A pl \in Places : result'[pl] # "fresh"
  <2>1. "edge" \in Places
    BY DEF Places
  <2>2. Call("sheetDone") \in Left("photocell")' => result'["edge"] # "none"
    BY <1>2, <1>6, <2>1 DEF CalibInv
  <2>3. photo' = "Leading" => \A pl \in Places : result'[pl] # "fresh"
    BY <1>1, <1>2 DEF CalibInv
  <2>4. QED
    BY <2>2, <2>3
<1>8. ~sys'.calibrating
  <2>1. CASE sys.calibrating
    <3>1. sys' = [sys EXCEPT !.calibrating = FALSE]
      BY <2>1 DEF Apply, Leave
    <3>2. QED
      BY <3>1
  <2>2. CASE ~sys.calibrating
    BY <2>2 DEF Apply
  <2>3. QED
    BY <2>1, <2>2
<1>9. photo = "Leading" => seen'.stale
  <2> DEFINE b == seen.stale \/ (sys.calibrating /\ result["taken"] = "stale")
  <2>1. seen' = [seen EXCEPT !.stale = b]
    BY DEF Apply
  <2>2. photo = "Leading" => b
    <3>1. "taken" \in Places /\ result["taken"] \in {"none", "fresh", "stale"}
      BY DEF Places, DataOK
    <3>2. QED
      BY <1>5, <3>1 DEF CalibInv
  <2> HIDE DEF b
  <2>3. seen'.stale = b
    BY <2>1
  <2>4. QED
    BY <2>2, <2>3
<1>10. QED
  BY <1>1, <1>6, <1>7, <1>8, <1>9 DEF CalibInv, Call

LEMMA CalibHandler ==
    ASSUME ShapeInv, ModeInv, CalibInv, DataOK, NEW p \in Processes, HandlerOf(p)
    PROVE  CalibInv'
<1>0. /\ {"watchdog", "fault", "photocell", "service", "command"} \subseteq Processes
      /\ \A q \in {"command", "photocell", "service"} : q \notin {"watchdog", "fault"}
  BY ProcessNames
<1>1. ASSUME NEW q \in {"watchdog", "fault"}, \A k \in Processes : k # q => Left(k)' = Left(k),
             (sys'.calibrating <=> sys.calibrating), photo' = photo, result' = result,
             (seen'.stale <=> seen.stale)
      PROVE  CalibInv'
  <2>1. \A k \in {"command", "photocell", "service"} : Left(k)' = Left(k)
    BY <1>0, <1>1
  <2>2. QED
    BY <1>1, <2>1, CalibFrame
<1>2. CASE p = "watchdog" /\ (ReadLast \/ ReadArmed)
  <2>1. sys' = sys /\ photo' = photo /\ result' = result
    BY <1>2 DEF ReadLast, ReadArmed
  <2>2. seen'.stale <=> seen.stale
    <3>1. CASE ReadLast
      BY <3>1 DEF ReadLast
    <3>2. CASE ReadArmed
      <4>1. PICK b : seen' = [seen EXCEPT !.crossed = b]
        BY <3>2 DEF ReadArmed
      <4>2. QED
        BY <4>1
    <3>3. QED
      BY <1>2, <3>1, <3>2
  <2>3. \A k \in Processes : k # "watchdog" => Left(k)' = Left(k)
    <3>1. CASE At("watchdog", "readArmed") /\ Made("watchdog", StopAll)
      BY <3>1, TripShape
    <3>2. ASSUME NEW o \in {"readLast", "readArmed"}, At("watchdog", o), Made("watchdog", <<>>)
          PROVE  \A k \in Processes : k # "watchdog" => Left(k)' = Left(k)
      BY <1>0, <3>2, PopStep DEF Popped
    <3>3. QED
      BY <1>2, <3>1, <3>2 DEF ReadLast, ReadArmed
  <2>4. QED
    BY <1>1, <2>1, <2>2, <2>3
<1>3. CASE p = "fault" /\ SetFault
  <2>1. /\ sys' = [sys EXCEPT !.fault = TRUE] /\ photo' = photo /\ result' = result /\ seen' = seen
        /\ At("fault", "setFault") /\ Made("fault", <<>>)
    BY <1>3 DEF SetFault
  <2>2. sys'.calibrating <=> sys.calibrating
    BY <2>1
  <2>3. \A k \in Processes : k # "fault" => Left(k)' = Left(k)
    BY <1>0, <2>1, PopStep DEF Popped
  <2>4. QED
    BY <1>1, <2>1, <2>2, <2>3
<1>4. QED
  BY <1>2, <1>3, CalibShared, CalibCommand, CalibPhotocell, CalibApply DEF HandlerOf

\* An input changes no result, except that a sheet leaves the photocell.
LEMMA CalibInput ==
    ASSUME ShapeInv, KindInv, CalibInv, DataOK, NEW i \in Inputs, Input(i)
    PROVE  CalibInv'
<1>0. /\ {"timer", "watchdog", "fault", "photocell", "service", "command"} = Processes
      /\ \A x : Call(x) = <<x, 0>>
  BY ProcessNames
<1>1. CASE FallingEdge
  <2>1. /\ photo = "Trailing" /\ photo' = photo /\ sys' = sys /\ seen' = seen
        /\ result' = [result EXCEPT !["edge"] = "fresh"]
    BY <1>1 DEF FallingEdge
  <2>2. \A pl \in Places : result'[pl] = IF pl = "edge" THEN "fresh" ELSE result[pl]
    BY <2>1 DEF DataOK
  <2>3. \A q \in Processes : q # "photocell" => Left(q)' = Left(q)
    <3>1. Begin("photocell", <<Call("sheetLeft"), Call("sheetDone")>>)
      BY <1>1 DEF FallingEdge
    <3>2. QED
      BY <3>1, OtherShape
  <2>4. "edge" \in Places /\ "taken" \in Places
    BY DEF Places
  <2>5. QED
    BY <1>0, <2>1, <2>2, <2>3, <2>4 DEF CalibInv, Call
<1>2. ASSUME ~FallingEdge PROVE CalibInv'
  <2>1. photo' = photo /\ result' = result
    BY <1>2 DEF Input, Receive, ReceiveTest, Deadline, TickDot, Ping, Tick, FaultIsr, Untouched,
                SafetyStop, LeadingEdge, SheetFires
  <2>2. (sys'.calibrating <=> sys.calibrating) /\ (seen'.stale <=> seen.stale)
    <3>1. CASE SafetyStop
      <4>1. PICK b : /\ sys' = [sys EXCEPT !.active = FALSE]
                     /\ seen' = [seen EXCEPT !.halted = b, !.alone = 0]
        BY <3>1 DEF SafetyStop
      <4>2. QED
        BY <4>1
    <3>2. CASE ~SafetyStop
      <4>1. sys' = sys
        BY <3>2, InputFlags
      <4>2. PICK b, n : \/ seen' = seen
                        \/ seen' = [seen EXCEPT !.fed = TRUE, !.halted = b]
                        \/ seen' = [seen EXCEPT !.fed = TRUE]
                        \/ seen' = [seen EXCEPT !.fed = b, !.alone = n]
        BY <1>2, <3>2 DEF Input, Receive, ReceiveTest, Deadline, TickDot, Ping, Tick, FaultIsr,
                Untouched, LeadingEdge, SheetFires
      <4>3. CASE seen' = seen
        BY <4>1, <4>3
      <4>4. CASE seen' = [seen EXCEPT !.fed = TRUE, !.halted = b]
        BY <4>1, <4>4
      <4>5. CASE seen' = [seen EXCEPT !.fed = TRUE]
        BY <4>1, <4>5
      <4>6. CASE seen' = [seen EXCEPT !.fed = b, !.alone = n]
        BY <4>1, <4>6
      <4>7. QED
        BY <4>2, <4>3, <4>4, <4>5, <4>6
    <3>3. QED
      BY <3>1, <3>2
  <2>3. /\ Call("lead") \in Left("command") => Call("lead") \in Left("command")'
        /\ Left("service")' = Left("service")
        /\ Call("sheetDone") \in Left("photocell")' => Call("sheetDone") \in Left("photocell")
    <3>1. Call("sheetDone") \notin {Call("leadSeen")}
      BY <1>0
    <3>2. QED
      BY <1>0, <1>2, <3>1, InputLeft
  <2>4. QED
    BY <2>1, <2>2, <2>3, CalibFrame
<1>3. QED
  BY <1>1, <1>2

LEMMA CalibWorld ==
    ASSUME ShapeInv, CalibInv, DataOK, World
    PROVE  CalibInv'
<1>0. {"photocell", "service", "command"} \subseteq Processes
  BY ProcessNames
<1>1. sys' = sys /\ seen' = seen /\ photo' = photo
  BY DEF World, HandOver, TakePending, GunCloses
<1>2. {"edge", "done", "pending", "taken"} = Places
  BY DEF Places
<1>3. CASE HandOver
  <2>1. result["done"] # "none" /\ todo' = todo /\ result' = Moved("done", "pending")
    BY <1>3 DEF HandOver
  <2>2. \A pl \in Places : result'[pl] = CASE pl = "done" -> "none" [] pl = "pending" -> result["done"]
                                           [] OTHER -> result[pl]
    BY <1>2, <2>1 DEF DataOK, Moved
  <2>3. \A q \in Processes : Left(q)' = Left(q)
    BY <2>1, SameTodo
  <2>4. result'["pending"] # "none" /\ result'["edge"] = result["edge"] /\ result'["taken"] = result["taken"]
    BY <1>2, <2>1, <2>2
  <2>5. photo = "Leading" => \A pl \in Places : result'[pl] # "fresh"
    BY <1>2, <2>2 DEF CalibInv
  <2>6. QED
    BY <1>0, <1>1, <1>2, <2>3, <2>4, <2>5 DEF CalibInv, Call
<1>4. CASE TakePending
  <2>1. result["pending"] # "none" /\ result' = Moved("pending", "taken")
    BY <1>4 DEF TakePending
  <2>2. \A pl \in Places : result'[pl] = CASE pl = "pending" -> "none" [] pl = "taken" -> result["pending"]
                                           [] OTHER -> result[pl]
    BY <1>2, <2>1 DEF DataOK, Moved
  <2>3. \A q \in Processes : q # "service" => Left(q)' = Left(q)
    <3>1. Begin("service", <<Call("lock"), Call("apply")>>)
      BY <1>4 DEF TakePending
    <3>2. QED
      BY <3>1, OtherShape
  <2>4. result'["taken"] # "none" /\ result'["edge"] = result["edge"]
    BY <1>2, <2>1, <2>2
  <2>5. photo = "Leading" => \A pl \in Places : result'[pl] # "fresh"
    BY <1>2, <2>2 DEF CalibInv
  <2>6. Left("command")' = Left("command") /\ Left("photocell")' = Left("photocell")
    BY <1>0, <2>3
  <2>7. QED
    BY <1>1, <1>2, <2>4, <2>5, <2>6 DEF CalibInv, Call
<1>5. CASE \E g \in Guns : GunCloses(g)
  <2>1. result' = result /\ todo' = todo
    BY <1>5 DEF GunCloses
  <2>2. \A q \in Processes : Left(q)' = Left(q)
    BY <2>1, SameTodo
  <2>3. QED
    BY <1>0, <1>1, <2>1, <2>2, CalibFrame
<1>6. QED
  BY <1>3, <1>4, <1>5 DEF World

LEMMA CalibStep ==
    ASSUME ShapeInv, ModeInv, KindInv, CalibInv, DataOK, Next
    PROVE  CalibInv'
BY CalibHandler, CalibInput, CalibWorld DEF Next, Handler

----------------------------------------------------------------------------
(* The watchdog trips on silence only.                                     *)

LEMMA QuietFrame ==
    ASSUME QuietInv, link'.quiet = link.quiet, link'.lag = link.lag,
           link'.over <=> link.over, seen.fed => seen'.fed,
           \A x \in {"readLast", "readArmed"} : Call(x) \in Left("watchdog")' <=> Call(x) \in Left("watchdog")
    PROVE  QuietInv'
BY DEF QuietInv, Call

\* Whatever feeds the watchdog does it.
LEMMA QuietFed ==
    ASSUME seen'.fed
    PROVE  QuietInv'
BY DEF QuietInv

LEMMA QuietWatchdog ==
    ASSUME ShapeInv, QuietInv, DataOK, ReadLast \/ ReadArmed
    PROVE  QuietInv'
<1>0. /\ "watchdog" \in Processes /\ \A x : Call(x) = <<x, 0>>
      /\ "readLast" \notin GunOps /\ "readArmed" \notin GunOps
  BY ProcessNames DEF GunOps
<1>1. CASE ReadLast
  <2> DEFINE b == Overdue
  <2>1. /\ link' = [link EXCEPT !.over = b] /\ seen' = seen /\ At("watchdog", "readLast")
        /\ link.quiet \in Nat /\ link.lag \in 0 .. 1 /\ Timeout \in Nat
    BY <1>1, MachineAssumption DEF ReadLast, DataOK, Links
  <2>2. b => link.quiet > Timeout \/ seen.fed
    BY <2>1 DEF Overdue, QuietInv
  <2> HIDE DEF b
  <2>3. /\ link'.quiet = link.quiet /\ link'.lag = link.lag
        /\ link'.over => b
    BY <2>1
  <2>4. QED
    BY <2>1, <2>2, <2>3 DEF QuietInv
<1>2. CASE ReadArmed
  <2>1. PICK b : link' = [link EXCEPT !.tripped = b]
    BY <1>2 DEF ReadArmed
  <2>2. PICK c : seen' = [seen EXCEPT !.crossed = c]
    BY <1>2 DEF ReadArmed
  <2>3. link'.quiet = link.quiet /\ link'.lag = link.lag
    BY <2>1
  <2>4. seen'.fed <=> seen.fed
    BY <2>2
  <2>5. Call("readArmed") \notin Left("watchdog")'
    <3>1. CASE At("watchdog", "readArmed") /\ Made("watchdog", StopAll)
      <4>1. Left("watchdog")' = StopCalls
        BY <3>1, TripShape
      <4>2. QED
        BY <1>0, <4>1 DEF StopCalls, TakeAll
    <3>2. CASE At("watchdog", "readArmed") /\ Made("watchdog", <<>>)
      <4>1. Popped("watchdog", "readArmed")
        BY <1>0, <3>2, PopStep
      <4>2. QED
        BY <4>1, FollowFacts DEF Popped
    <3>3. QED
      BY <1>2, <3>1, <3>2 DEF ReadArmed
  <2>6. QED
    BY <2>3, <2>4, <2>5 DEF QuietInv, Call
<1>3. QED
  BY <1>1, <1>2

LEMMA QuietTick ==
    ASSUME ShapeInv, QuietInv, DataOK, Tick
    PROVE  QuietInv'
<1>0. \A x : Call(x) = <<x, 0>>
  BY ProcessNames
<1> DEFINE m == Min({link.quiet + 1, Timeout + 2})
           l == IF Free("watchdog") THEN 0 ELSE 1
           b == seen.fed /\ ~Free("watchdog")
           n == IF sys.active /\ link.quiet > Timeout THEN Min({seen.alone + 1, 3}) ELSE 0
<1>1. link' = [link EXCEPT !.quiet = m, !.lag = l] /\ seen' = [seen EXCEPT !.fed = b, !.alone = n]
  BY DEF Tick
<1>2. link.quiet \in Nat /\ Timeout \in Nat
  BY MachineAssumption DEF DataOK, Links
<1>3. m \in Nat /\ m > 0 /\ (link.quiet > Timeout => m > Timeout)
  <2>1. m = IF link.quiet + 1 <= Timeout + 2 THEN link.quiet + 1 ELSE Timeout + 2
    BY <1>2, MinOfTwo
  <2> HIDE DEF m
  <2>2. QED
    BY <1>2, <2>1
<1>4. CASE Free("watchdog")
  <2>1. l = 0
    BY <1>4
  <2>2. Call("readLast") \in Left("watchdog")'
    BY <1>4, TickShape DEF Free
  <2> HIDE DEF m, l, b, n
  <2>3. link'.quiet = m
    BY <1>1
  <2>4. QED
    BY <1>0, <1>3, <2>2, <2>3 DEF QuietInv
<1>5. CASE ~Free("watchdog")
  <2>1. b <=> seen.fed
    BY <1>5
  <2>2. Left("watchdog")' = Left("watchdog")
    <3>1. todo' = todo
      BY <1>5 DEF Tick
    <3>2. QED
      BY <3>1, SameTodo, ProcessNames
  <2> HIDE DEF m, l, b, n
  <2>3. link'.quiet = m /\ (link'.over <=> link.over) /\ (seen'.fed <=> b)
    BY <1>1
  <2>4. QED
    BY <1>3, <2>1, <2>2, <2>3 DEF QuietInv, Call
<1>6. QED
  BY <1>4, <1>5

LEMMA QuietHandler ==
    ASSUME ShapeInv, ModeInv, QuietInv, DataOK, NEW p \in Processes, HandlerOf(p)
    PROVE  QuietInv'
<1>0. {"watchdog", "fault", "photocell", "service", "command"} \subseteq Processes /\ "service" \in Editors
  BY ProcessNames
<1>1. ASSUME link' = link, seen'.fed <=> seen.fed, Left("watchdog")' = Left("watchdog")
      PROVE  QuietInv'
  BY <1>1, QuietFrame
<1>2. CASE SharedStep(p)
  <2>1. \A x \in {"readLast", "readArmed"} : Call(x) \in Left("watchdog")' <=> Call(x) \in Left("watchdog")
    BY <1>0, <1>2, SharedLeft DEF Marks
  <2>2. link' = link
    BY <1>2 DEF SharedStep, Lock, Untouched, TakeMode, StopTimer, Abort, TestModeOff, ClearActive,
         SetActive, FireOpens
  <2>3. seen'.fed <=> seen.fed
    <3>1. CASE ClearActive(p)
      <4>1. PICK b : seen' = [seen EXCEPT !.halted = b, !.alone = 0]
        BY <3>1 DEF ClearActive
      <4>2. QED
        BY <4>1
    <3>2. CASE seen' = seen
      BY <3>2
    <3>3. QED
      BY <1>2, <3>1, <3>2 DEF SharedStep, Lock, Untouched, TakeMode, StopTimer, Abort, TestModeOff,
         SetActive, FireOpens
  <2>4. QED
    BY <2>1, <2>2, <2>3, QuietFrame
<1>3. ASSUME NEW q \in {"fault", "photocell", "service", "command"}, NEW o, o # "lock", At(q, o),
             Made(q, <<>>)
      PROVE  Left("watchdog")' = Left("watchdog")
  BY <1>0, <1>3, PopStep DEF Popped
<1>4. CASE p = "command" /\ CommandStep
  <2>1. link' = link
    BY <1>4 DEF CommandStep, SeeFault, Untouched, ClearFault, Cancel, Arm, Calibrate, Forget, Lead,
           CheckTest, TryTest, Fire, Runs, StartTimer
  <2>2. seen'.fed <=> seen.fed
    <3>1. CASE TryTest
      <4>1. PICK b : seen' = [seen EXCEPT !.crossed = b]
        BY <3>1 DEF TryTest
      <4>2. QED
        BY <4>1
    <3>2. CASE seen' = seen
      BY <3>2
    <3>3. QED
      BY <1>4, <3>1, <3>2 DEF CommandStep, SeeFault, Untouched, ClearFault, Cancel, Arm, Calibrate,
           Forget, Lead, CheckTest, Fire, Runs, StartTimer
  <2>3. Left("watchdog")' = Left("watchdog")
    <3>2. CASE SeeFault
      BY <1>0, <1>3, <3>2, SeeFaultShape DEF SeeFault
    <3>3. CASE Cancel
      <4>1. CASE At("command", "restore") /\ Made("command", Restart)
        BY <1>0, <4>1, RestartShape, ProcessNames
      <4>2. CASE Made("command", <<>>)
        BY <1>3, <3>3, <4>2 DEF Cancel
      <4>3. QED
        BY <3>3, <4>1, <4>2 DEF Cancel, Leave
    <3>4. CASE Arm
      BY <1>0, <3>4, ArmShape DEF ModeInv
    <3>5. CASE CheckTest \/ TryTest \/ Fire \/ Runs \/ StartTimer
      BY <1>0, <3>5, TestLeft
    <3>6. QED
      BY <1>3, <1>4, <3>2, <3>3, <3>4, <3>5 DEF CommandStep, ClearFault, Calibrate, Forget, Lead
  <2>4. QED
    BY <1>1, <2>1, <2>2, <2>3
<1>5. CASE p = "fault" /\ SetFault
  BY <1>1, <1>3, <1>5 DEF SetFault
<1>6. CASE p = "photocell" /\ PhotocellStores
  BY <1>1, <1>3, <1>6 DEF PhotocellStores
<1>7. CASE p = "service" /\ Apply
  <2>1. PICK b : seen' = [seen EXCEPT !.stale = b]
    BY <1>7 DEF Apply
  <2>2. seen'.fed <=> seen.fed
    BY <2>1
  <2>3. Left("watchdog")' = Left("watchdog")
    <3>1. CASE At("service", "apply") /\ Made("service", Restart)
      BY <1>0, <3>1, RestartShape, ProcessNames
    <3>2. CASE Made("service", <<>>)
      BY <1>3, <1>7, <3>2 DEF Apply
    <3>3. QED
      BY <1>7, <3>1, <3>2 DEF Apply, Leave
  <2>4. link' = link
    BY <1>7 DEF Apply
  <2>5. QED
    BY <1>1, <2>2, <2>3, <2>4
<1>8. QED
  BY <1>2, <1>4, <1>5, <1>6, <1>7, QuietWatchdog DEF HandlerOf

LEMMA QuietInput ==
    ASSUME ShapeInv, KindInv, QuietInv, DataOK, NEW i \in Inputs, Input(i)
    PROVE  QuietInv'
<1>1. CASE Tick
  BY <1>1, QuietTick
<1>2. ASSUME NEW c, Receive(c) PROVE QuietInv'
  <2>1. PICK b : seen' = [seen EXCEPT !.fed = TRUE, !.halted = b]
    BY <1>2 DEF Receive
  <2>2. seen \in Ghosts => seen'.fed
    BY <2>1 DEF Ghosts
  <2>3. QED
    BY <2>2, QuietFed DEF DataOK
<1>3. ASSUME NEW g \in Guns, ReceiveTest(g) PROVE QuietInv'
  <2>1. seen' = [seen EXCEPT !.fed = TRUE]
    BY <1>3 DEF ReceiveTest
  <2>2. seen \in Ghosts => seen'.fed
    BY <2>1 DEF Ghosts
  <2>3. QED
    BY <2>2, QuietFed DEF DataOK
<1>4. CASE Ping
  <2>1. seen' = [seen EXCEPT !.fed = TRUE]
    BY <1>4 DEF Ping
  <2>2. seen \in Ghosts => seen'.fed
    BY <2>1 DEF Ghosts
  <2>3. QED
    BY <2>2, QuietFed DEF DataOK
<1>5. CASE /\ Left("watchdog")' = Left("watchdog")
           /\ FaultIsr \/ LeadingEdge \/ FallingEdge \/ SafetyStop
                 \/ \E g \in Guns : TickDot(g) \/ Deadline(g) \/ SheetFires(g)
  <2>1. link' = link
    BY <1>5 DEF FaultIsr, Untouched, LeadingEdge, FallingEdge, SafetyStop, TickDot, Deadline, SheetFires
  <2>2. seen'.fed <=> seen.fed
    <3>1. CASE SafetyStop
      <4>1. PICK b : seen' = [seen EXCEPT !.halted = b, !.alone = 0]
        BY <3>1 DEF SafetyStop
      <4>2. QED
        BY <4>1
    <3>2. CASE seen' = seen
      BY <3>2
    <3>3. QED
      BY <1>5, <3>1, <3>2 DEF FaultIsr, Untouched, LeadingEdge, FallingEdge, TickDot, Deadline,
         SheetFires
  <2>3. QED
    BY <1>5, <2>1, <2>2, QuietFrame
<1>6. QED
  BY <1>1, <1>2, <1>3, <1>4, <1>5, InputLeft, ProcessNames

LEMMA QuietStep ==
    ASSUME ShapeInv, ModeInv, KindInv, QuietInv, DataOK, Next
    PROVE  QuietInv'
<1>1. ASSUME World PROVE QuietInv'
  <2>1. link' = link /\ seen' = seen
    BY <1>1 DEF World, HandOver, TakePending, GunCloses
  <2>2. Left("watchdog")' = Left("watchdog")
    BY <1>1, WorldLeft, ProcessNames
  <2>3. QED
    BY <2>1, <2>2, QuietFrame
<1>2. QED
  BY <1>1, QuietHandler, QuietInput DEF Next, Handler

----------------------------------------------------------------------------
(* A running test has its deadline, and whoever stops it closes its gun.   *)

\* The calls of the tests of gun g are what they were, and so are the test and its
\* gun, unless it is shut or fires for a sheet.
CallsStay(g) ==
    /\ \A o \in {"fireLine", "lineOpens", "lineRuns", "dotsRun", "startDeadline"} :
          <<o, g>> \in Left("command")' <=> <<o, g>> \in Left("command")
    /\ <<"takeMode", g>> \in Left("command") => <<"takeMode", g>> \in Left("command")'
    /\ \A p \in Stoppers, o \in {"stopDeadline", "abort"} :
          <<o, g>> \in Left(p)' <=> <<o, g>> \in Left(p)
    /\ Call("abortAll") \in Left("watchdog")' <=> Call("abortAll") \in Left("watchdog")

TestStays(g) ==
    /\ test'[g].mode = test[g].mode /\ (test'[g].deadline <=> test[g].deadline)
    /\ gun'[g] = gun[g] \/ gun'[g] \notin {"arming", "test"}

LEMMA TestFrame ==
    ASSUME NEW g \in Guns, TestOf(g), CallsStay(g), TestStays(g),
           sys'.active /\ gun'[g] = "test" => sys.active \/ Call("abortAll") \in Left("watchdog")'
    PROVE  TestOf(g)'
<1>1. OpenOf(g)'
  BY DEF TestOf, OpenOf, CallsStay, Call
<1>2. DeadlineOf(g)'
  <2>1. /\ \A p \in Stoppers : <<"stopDeadline", g>> \in Left(p)' => test'[g].mode = "None"
        /\ test'[g].deadline =>
              test'[g].mode # "None" \/ \E p \in Stoppers : <<"stopDeadline", g>> \in Left(p)'
    BY DEF TestOf, DeadlineOf, CallsStay, TestStays
  <2>2. test'[g].mode # "None" /\ ~test'[g].deadline => <<"startDeadline", g>> \in Left("command")'
    BY DEF TestOf, DeadlineOf, CallsStay, TestStays
  <2>3. "command" \in Stoppers
    BY ProcessNames
  <2>4. test'[g].deadline /\ (\E o \in {"startDeadline", "fireLine", "lineOpens"} :
                               <<o, g>> \in Left("command")')
          => <<"takeMode", g>> \in Left("command")' \/ <<"stopDeadline", g>> \in Left("command")'
    BY <2>3 DEF TestOf, DeadlineOf, CallsStay, TestStays
  <2>5. <<"startDeadline", g>> \in Left("command")' =>
          \/ test'[g].mode # "None"
          \/ <<"dotsRun", g>> \in Left("command")' \/ <<"lineRuns", g>> \in Left("command")'
    BY DEF TestOf, DeadlineOf, CallsStay, TestStays
  <2>6. QED
    BY <2>1, <2>2, <2>4, <2>5 DEF DeadlineOf
<1>3. ClosedOf(g)'
  BY DEF TestOf, ClosedOf, CallsStay, TestStays, Call
<1>4. QED
  BY <1>1, <1>2, <1>3 DEF TestOf

\* The calls of the other guns stay when a call of gun k is made.
LEMMA PoppedGun ==
    ASSUME NEW p \in Processes, NEW o, Popped(p, o), NEW q \in Processes, NEW x, NEW g,
           x # o \/ g # GunOf(p)
    PROVE  <<x, g>> \in Left(q)' <=> <<x, g>> \in Left(q)
BY DEF Popped

LEMMA PoppedStay ==
    ASSUME NEW p \in Processes, NEW o, Popped(p, o), NEW g \in Guns,
           \/ g # GunOf(p) /\ o # "abortAll"
           \/ o \notin {"fireLine", "lineOpens", "lineRuns", "dotsRun", "startDeadline",
                        "takeMode", "stopDeadline", "abort", "abortAll"}
    PROVE  CallsStay(g)
<1>0. "command" \in Processes /\ "watchdog" \in Processes /\ Stoppers \subseteq Processes
  BY ProcessNames
<1>1. \A q \in Processes, x \in {"fireLine", "lineOpens", "lineRuns", "dotsRun", "startDeadline",
                                 "takeMode", "stopDeadline", "abort"} :
         <<x, g>> \in Left(q)' <=> <<x, g>> \in Left(q)
  BY PoppedGun
<1>2. Call("abortAll") \in Left("watchdog")' <=> Call("abortAll") \in Left("watchdog")
  BY <1>0, PoppedLeft
<1>3. QED
  BY <1>0, <1>1, <1>2 DEF CallsStay

\* A stop of a test that is being opened is one of the command that opens it.
LEMMA OnlyCommandStops ==
    ASSUME ShapeInv, NEW g \in Guns, TestOf(g), NEW o \in {"fireLine", "lineOpens", "startDeadline"},
           <<o, g>> \in Left("command"), Holding("command"), NEW p \in Stoppers, NEW c \in Left(p),
           c[1] \in Stops
    PROVE  p = "command"
<1>1. p # "service"
  <2>1. ASSUME p = "service" PROVE FALSE
    <3>1. Left("service") \subseteq {Call("lock"), Call("apply")}
      BY Alone, ProcessNames
    <3>2. c[1] \in {"lock", "apply"}
      BY <2>1, <3>1, ProcessNames
    <3>3. QED
      BY <3>2 DEF Stops
  <2>2. QED
    BY <2>1
<1>2. p # "watchdog"
  <2>1. ASSUME p = "watchdog" PROVE FALSE
    <3>1. Call("abortAll") \in Left("watchdog")
      BY <2>1 DEF ShapeInv, Pairs, WatchdogPairs
    <3>2. QED
      BY <3>1 DEF TestOf, OpenOf
  <2>2. QED
    BY <2>1
<1>3. QED
  BY <1>1, <1>2, ProcessNames

LEMMA TestTakeMode ==
    ASSUME ShapeInv, DataOK, NEW p \in Processes, TakeMode(p), NEW k \in Guns, TestOf(k)
    PROVE  TestOf(k)'
<1> DEFINE g == GunOf(p)
<1>0. /\ At(p, "takeMode") /\ sys' = sys /\ gun' = gun /\ "watchdog" \in Processes
      /\ test' = [test EXCEPT ![g].mode = "None"] /\ "command" \in Processes
      /\ Stoppers \subseteq Processes /\ \A x : Call(x) = <<x, 0>>
  BY ProcessNames DEF TakeMode
<1>1. /\ \A h \in Guns : h # g => test'[h] = test[h]
      /\ g \in Guns => test'[g].mode = "None" /\ (test'[g].deadline <=> test[g].deadline)
  BY <1>0 DEF DataOK, Tests
<1>2. /\ <<"takeMode", g>> \in Left(p) /\ g \in Guns /\ p \in Stoppers /\ Holding(p)
  <2>1. "takeMode" \in GunOps /\ "takeMode" # "lock"
    BY DEF GunOps
  <2>2. <<"takeMode", g>> \in Left(p) /\ g \in Guns /\ "takeMode" \in OpsOf(p) /\ Holding(p)
    BY <1>0, <2>1, AtHead
  <2>3. p \in Stoppers
    BY <2>2, ProcessNames DEF OpsOf
  <2>4. QED
    BY <2>2, <2>3
<1>3. ASSUME NEW o \in {"fireLine", "lineOpens", "startDeadline"}, <<o, g>> \in Left("command"),
             k = g
      PROVE  p = "command"
  <2>1. CASE p = "service"
    <3>1. <<o, g>>[1] \in {"lock"} \cup Follow("lock")
      BY <1>2, <1>3, <2>1, Alone, ProcessNames
    <3>2. QED
      BY <3>1 DEF Follow, Stops
  <2>2. CASE p = "watchdog"
    <3>1. <<"takeMode", g>>[1] \in Stops
      BY DEF Stops
    <3>2. Call("abortAll") \in Left("watchdog")
      BY <1>2, <2>2, <3>1 DEF ShapeInv, Pairs, WatchdogPairs
    <3>3. QED
      BY <1>3, <3>2 DEF TestOf, OpenOf
  <2>3. QED
    BY <1>2, <2>1, <2>2, ProcessNames
<1>4. CASE test[g].mode = "None"
  <2>1. Popped(p, "takeMode")
    <3>1. Made(p, <<>>)
      BY <1>4 DEF TakeMode
    <3>2. QED
      BY <1>0, <3>1, PopStep
  <2>2. TestStays(k)
    BY <1>0, <1>1, <1>2, <1>4 DEF TestStays
  <2>3. CASE k # g
    BY <1>0, <2>1, <2>2, <2>3, PoppedStay, TestFrame
  <2>4. CASE k = g
    <3>1. /\ \A q \in Processes : \A x : x # "takeMode" => (<<x, k>> \in Left(q)' <=> <<x, k>> \in Left(q))
          /\ Call("abortAll") \in Left("watchdog")' <=> Call("abortAll") \in Left("watchdog")
      BY <1>0, <2>1, PoppedGun, PoppedLeft
    <3>2. CASE \E o \in {"fireLine", "lineOpens", "startDeadline"} : <<o, g>> \in Left("command")
      <4>1. p = "command"
        BY <1>3, <2>4, <3>2
      <4>2. test[k].deadline => <<"stopDeadline", k>> \in Left("command")
        <5>1. SUFFICES ASSUME test[k].deadline PROVE <<"stopDeadline", k>> \in Left("command")
          OBVIOUS
        <5>2. PICK q \in Stoppers : <<"stopDeadline", k>> \in Left(q)
          BY <1>4, <2>4, <5>1 DEF TestOf, DeadlineOf
        <5>3. <<"stopDeadline", k>>[1] \in Stops
          BY DEF Stops
        <5>4. q = "command"
          BY <1>2, <2>4, <3>2, <4>1, <5>2, <5>3, OnlyCommandStops
        <5>5. QED
          BY <5>2, <5>4
      <4>3. OpenOf(k)'
        BY <1>0, <3>1 DEF TestOf, OpenOf
      <4>4. DeadlineOf(k)'
        BY <1>0, <2>2, <3>1, <4>2 DEF TestOf, DeadlineOf, TestStays
      <4>5. ClosedOf(k)'
        BY <1>0, <2>2, <3>1 DEF TestOf, ClosedOf, TestStays
      <4>6. QED
        BY <4>3, <4>4, <4>5 DEF TestOf
    <3>3. CASE ~\E o \in {"fireLine", "lineOpens", "startDeadline"} : <<o, g>> \in Left("command")
      <4>3. OpenOf(k)'
        BY <1>0, <3>1 DEF TestOf, OpenOf
      <4>4. DeadlineOf(k)'
        BY <1>0, <2>2, <2>4, <3>1, <3>3 DEF TestOf, DeadlineOf, TestStays
      <4>5. ClosedOf(k)'
        BY <1>0, <2>2, <3>1 DEF TestOf, ClosedOf, TestStays
      <4>6. QED
        BY <4>3, <4>4, <4>5 DEF TestOf
    <3>4. QED
      BY <3>2, <3>3
  <2>5. QED
    BY <2>3, <2>4
<1>5. CASE test[g].mode # "None"
  <2> DEFINE A == {<<"stopTick", g>>, <<"stopDeadline", g>>, <<"abort", g>>}
  <2>1. PICK T : /\ Left(p) = {<<"takeMode", g>>} \cup T /\ Left(p)' = A \cup T
                 /\ \A q \in Processes : q # p => Left(q)' = Left(q)
    BY <1>5, TakeModeShape
  <2>2. \A q \in Processes : \A x, h :
           x \notin {"takeMode", "stopTick", "stopDeadline", "abort"} \/ (h # g /\ h \in Guns \cup {0}) =>
              (<<x, h>> \in Left(q)' <=> <<x, h>> \in Left(q))
    BY <2>1
  <2>3. Call("abortAll") \in Left("watchdog")' <=> Call("abortAll") \in Left("watchdog")
    BY <1>0, <2>2
  <2>4. CASE k # g
    <3>1. CallsStay(k)
      BY <1>0, <2>2, <2>3, <2>4 DEF CallsStay
    <3>2. TestStays(k)
      BY <1>0, <1>1, <2>4 DEF TestStays
    <3>3. QED
      BY <1>0, <3>1, <3>2, TestFrame
  <2>5. CASE k = g
    <3>1. <<"stopDeadline", k>> \in Left(p)' /\ <<"abort", k>> \in Left(p)'
      BY <2>1, <2>5
    <3>2. test'[k].mode = "None" /\ (test'[k].deadline <=> test[k].deadline)
      BY <1>1, <1>2, <2>5
    <3>3. \A x \in {"fireLine", "lineOpens", "lineRuns", "dotsRun", "startDeadline"} :
             <<x, k>> \in Left("command")' <=> <<x, k>> \in Left("command")
      BY <1>0, <2>2
    <3>4. \A o \in {"fireLine", "lineOpens", "startDeadline"} : <<o, k>> \in Left("command")' => p = "command"
      BY <1>3, <2>5, <3>3
    <3>5. <<"startDeadline", k>> \in Left("command")' => <<"dotsRun", k>> \in Left("command")'
      <4>1. SUFFICES ASSUME <<"startDeadline", k>> \in Left("command")
                     PROVE  <<"dotsRun", k>> \in Left("command")
        BY <3>3
      <4>2. p = "command"
        BY <3>3, <3>4, <4>1
      <4>3. <<"takeMode", g>> \in Left("command") /\ <<"takeMode", g>>[1] \in Stops
        BY <1>2, <4>2 DEF Stops
      <4>4. QED
        BY <4>1, <4>3 DEF ShapeInv, Pairs, CommandPairs
    <3>6. OpenOf(k)'
      BY <1>0, <2>3, <3>3 DEF TestOf, OpenOf
    <3>7. DeadlineOf(k)'
      BY <1>2, <3>1, <3>2, <3>4, <3>5 DEF DeadlineOf
    <3>8. ClosedOf(k)'
      BY <1>0, <1>2, <2>3, <3>1 DEF TestOf, ClosedOf
    <3>9. QED
      BY <3>6, <3>7, <3>8 DEF TestOf
  <2>6. QED
    BY <2>4, <2>5
<1>6. QED
  BY <1>4, <1>5

LEMMA TestStopTimer ==
    ASSUME ShapeInv, DataOK, NEW p \in Processes, StopTimer(p), NEW k \in Guns, TestOf(k)
    PROVE  TestOf(k)'
<1> DEFINE g == GunOf(p)
<1>0. /\ sys' = sys /\ gun' = gun /\ Made(p, <<>>) /\ {"command", "watchdog"} \subseteq Processes
      /\ Stoppers \subseteq Processes
  BY ProcessNames DEF StopTimer
<1>1. CASE At(p, "stopTick")
  <2>1. Popped(p, "stopTick")
    BY <1>0, <1>1, PopStep
  <2>2. TestStays(k)
    <3>1. test' = [test EXCEPT ![g].tick = FALSE]
      BY <1>1 DEF StopTimer
    <3>2. test'[k].mode = test[k].mode /\ (test'[k].deadline <=> test[k].deadline)
      BY <3>1 DEF DataOK, Tests
    <3>3. QED
      BY <1>0, <3>2 DEF TestStays
  <2>3. QED
    BY <1>0, <2>1, <2>2, PoppedStay, TestFrame
<1>2. CASE At(p, "stopDeadline") /\ ~At(p, "stopTick")
  <2>1. Popped(p, "stopDeadline")
    BY <1>0, <1>2, PopStep
  <2>2. test' = [test EXCEPT ![g].deadline = FALSE]
    BY <1>2 DEF StopTimer
  <2>3. CASE k # g
    <3>1. TestStays(k)
      BY <1>0, <2>2, <2>3 DEF DataOK, Tests, TestStays
    <3>2. QED
      BY <1>0, <2>1, <2>3, <3>1, PoppedStay, TestFrame
  <2>4. CASE k = g
    <3>1. test'[k].mode = test[k].mode /\ ~test'[k].deadline
      BY <2>2, <2>4 DEF DataOK, Tests
    <3>2. test[k].mode = "None"
      <4>1. "stopDeadline" \in GunOps
        BY DEF GunOps
      <4>2. <<"stopDeadline", k>> \in Left(p) /\ "stopDeadline" \in OpsOf(p)
        BY <1>2, <2>4, <4>1, AtHead
      <4>3. p \in Stoppers
        BY <4>2, ProcessNames DEF OpsOf
      <4>4. QED
        BY <4>2, <4>3 DEF TestOf, DeadlineOf
    <3>3. \A q \in Processes : \A x : x # "stopDeadline" => (<<x, k>> \in Left(q)' <=> <<x, k>> \in Left(q))
      BY <2>1, PoppedGun
    <3>4. Call("abortAll") \in Left("watchdog")' <=> Call("abortAll") \in Left("watchdog")
      BY <1>0, <2>1, PoppedLeft
    <3>5. OpenOf(k)'
      BY <1>0, <3>3, <3>4 DEF TestOf, OpenOf
    <3>6. DeadlineOf(k)'
      BY <1>0, <3>1, <3>2, <3>3 DEF TestOf, DeadlineOf
    <3>7. ClosedOf(k)'
      BY <1>0, <3>1, <3>3, <3>4 DEF TestOf, ClosedOf
    <3>8. QED
      BY <3>5, <3>6, <3>7 DEF TestOf
  <2>5. QED
    BY <2>3, <2>4
<1>3. QED
  BY <1>1, <1>2 DEF StopTimer

LEMMA TestAbort ==
    ASSUME ShapeInv, DataOK, NEW p \in Processes, Abort(p), NEW k \in Guns, TestOf(k)
    PROVE  TestOf(k)'
<1> DEFINE g == GunOf(p)
<1>0. /\ sys' = sys /\ test' = test /\ Made(p, <<>>) /\ {"command", "watchdog"} \subseteq Processes
      /\ Stoppers \subseteq Processes
      /\ gun' = [h \in Guns |-> IF g \in {0, h} THEN "shut" ELSE gun[h]]
  BY ProcessNames DEF Abort
<1>1. PICK o \in {"abort", "abortAll"} : At(p, o)
  BY DEF Abort
<1>2. Popped(p, o)
  BY <1>0, <1>1, PopStep
<1>3. TestStays(k)
  BY <1>0 DEF TestStays
<1>4. CASE o = "abort" /\ k # g
  BY <1>0, <1>2, <1>3, <1>4, PoppedStay, TestFrame
<1>5. CASE o = "abortAll" \/ k = g
  <2>1. gun'[k] = "shut"
    <3>1. o = "abortAll" => g = 0
      <4>1. "abortAll" \notin GunOps /\ Call("abortAll") = <<"abortAll", 0>>
        BY ProcessNames DEF GunOps
      <4>2. o = "abortAll" => <<o, g>> = Call(o)
        BY <1>1, <4>1, AtHead
      <4>3. QED
        BY <4>1, <4>2
    <3>2. QED
      BY <1>0, <1>5, <3>1
  <2>2. \A q \in Processes : \A x : x \notin {"abort", "abortAll"} =>
                                   (<<x, k>> \in Left(q)' <=> <<x, k>> \in Left(q))
    BY <1>2, PoppedGun
  <2>3. Call("abortAll") \in Left("watchdog")' => Call("abortAll") \in Left("watchdog")
    BY <1>0, <1>2, PoppedLeft
  <2>4. OpenOf(k)'
    BY <1>0, <2>2, <2>3 DEF TestOf, OpenOf
  <2>5. DeadlineOf(k)'
    BY <1>0, <2>2 DEF TestOf, DeadlineOf
  <2>6. ClosedOf(k)'
    BY <2>1 DEF ClosedOf
  <2>7. QED
    BY <2>4, <2>5, <2>6 DEF TestOf
<1>6. QED
  BY <1>4, <1>5

\* The machine becomes active only when no test is open, or the watchdog closes it.
LEMMA TestSetActive ==
    ASSUME ShapeInv, ModeInv, DataOK, NEW p \in Processes, SetActive(p), NEW k \in Guns, TestOf(k)
    PROVE  TestOf(k)'
<1>0. /\ test' = test /\ gun' = gun /\ Made(p, <<>>) /\ At(p, "setActive")
      /\ {"command", "watchdog"} \subseteq Processes /\ Stoppers \subseteq Processes
      /\ Editors \subseteq Stoppers /\ \A x : Call(x)[1] = x
  BY ProcessNames DEF SetActive
<1>1. Popped(p, "setActive")
  BY <1>0, PopStep
<1>2. TestStays(k)
  BY <1>0 DEF TestStays
<1>3. Left(p) = {Call("setActive")} /\ p \in Editors /\ Holding(p)
  <2>1. "setActive" \notin GunOps /\ Follow("setActive") = {}
    BY FollowFacts DEF GunOps
  <2>2. Left(p) = {Call("setActive")} /\ "setActive" \in OpsOf(p) /\ Holding(p)
    BY <1>0, <2>1, AtHead
  <2>3. p \in Editors
    BY <2>2, ProcessNames DEF OpsOf, Stops
  <2>4. QED
    BY <2>2, <2>3
<1>4. ASSUME NEW q \in Editors, NEW x \in {"takeMode", "abort", "lineRuns", "lineOpens"},
             <<x, k>> \in Left(q)
      PROVE  q # p /\ x = "takeMode"
  <2>1. q # p
    BY <1>3, <1>4, ProcessNames
  <2>2. <<x, k>>[1] \in {"lock"} \cup Follow("lock")
    BY <1>3, <1>4, <2>1, Alone
  <2>3. x = "takeMode"
    BY <2>2 DEF Follow, Stops
  <2>4. QED
    BY <2>1, <2>3
<1>5. gun[k] = "test" => Call("abortAll") \in Left("watchdog")
  <2>1. test[k].mode = "None"
    <3>1. test[k].mode # "None" => <<"takeMode", k>> \in Left(p)
      BY <1>3 DEF ModeInv
    <3>2. QED
      BY <1>3, <1>4, <3>1
  <2>2. <<"lineRuns", k>> \notin Left("command")
    BY <1>4, ProcessNames
  <2>3. ASSUME NEW q \in Stoppers, <<"abort", k>> \in Left(q)
        PROVE  Call("abortAll") \in Left("watchdog")
    <3>1. q \notin Editors
      BY <1>4, <2>3
    <3>2. q = "watchdog" /\ <<"abort", k>>[1] \in Stops
      BY <3>1 DEF Stoppers, Stops
    <3>3. QED
      BY <2>3, <3>2 DEF ShapeInv, Pairs, WatchdogPairs
  <2>4. QED
    BY <2>1, <2>2, <2>3 DEF TestOf, ClosedOf
<1>6. CallsStay(k)
  BY <1>1, PoppedStay
<1>7. gun'[k] = "test" => Call("abortAll") \in Left("watchdog")'
  BY <1>0, <1>5, <1>6 DEF CallsStay
<1>8. QED
  BY <1>2, <1>6, <1>7, TestFrame

LEMMA TestOpens ==
    ASSUME ShapeInv, DataOK, NEW p \in Processes, FireOpens(p), NEW k \in Guns, TestOf(k)
    PROVE  TestOf(k)'
<1> DEFINE g == GunOf(p)
           opened == gun[g] = "arming" /\ TestArmed
           s == IF opened THEN "test" ELSE IF gun[g] = "arming" THEN "shut" ELSE gun[g]
<1>0. /\ sys' = sys /\ test' = test /\ {"command", "watchdog", "timer"} \subseteq Processes
      /\ Stoppers \subseteq Processes /\ gun' = [gun EXCEPT ![g] = s]
  BY ProcessNames DEF FireOpens
<1>1. opened => ~sys.active
  BY DEF TestArmed
<1>2. gun'[k] = IF k = g THEN s ELSE gun[k]
  BY <1>0 DEF DataOK
<1>3. CASE At(p, "lineOpens")
  <2>1. p = "command" /\ Left("command") = {<<"lineOpens", g>>} /\ g \in Guns /\ Holding("command")
    <3>1. "lineOpens" \in GunOps /\ Follow("lineOpens") = {}
      BY FollowFacts DEF GunOps
    <3>2. Left(p) = {<<"lineOpens", g>>} /\ "lineOpens" \in OpsOf(p) /\ g \in Guns /\ Holding(p)
      BY <1>3, <3>1, AtHead
    <3>3. p = "command"
      BY <3>2, ProcessNames DEF OpsOf, Stops
    <3>4. QED
      BY <3>2, <3>3
  <2>2. CASE opened
    <3>1. /\ Left("command")' = {<<"lineRuns", g>>, <<"startDeadline", g>>}
          /\ \A q \in Processes : q # "command" => Left(q)' = Left(q)
      <4>1. Made(p, <<<<"lineRuns", GunOf(p)>>, <<"startDeadline", GunOf(p)>>>>)
        BY <1>3, <2>2 DEF FireOpens
      <4>2. QED
        BY <1>3, <2>1, <4>1, OpensShape
    <3>2. \A q \in Stoppers, x \in {"stopDeadline", "abort"} : \A h :
             <<x, h>> \in Left(q)' <=> <<x, h>> \in Left(q)
      BY <1>0, <2>1, <3>1
    <3>3. Left("watchdog")' = Left("watchdog")
      BY <1>0, <3>1
    <3>4. CASE k # g
      <4>1. CallsStay(k)
        BY <2>1, <3>1, <3>2, <3>3, <3>4 DEF CallsStay, Call
      <4>2. TestStays(k)
        BY <1>0, <1>2, <3>4 DEF TestStays
      <4>3. QED
        BY <1>0, <4>1, <4>2, TestFrame
    <3>5. CASE k = g
      <4>1. gun[k] = "arming" /\ gun'[k] = "test"
        BY <1>2, <2>2, <3>5
      <4>2. <<"lineOpens", k>> \in Left("command") /\ <<"lineRuns", k>> \in Left("command")'
        BY <2>1, <3>1, <3>5
      <4>3. ~test[k].deadline
        BY <2>1, <4>2 DEF TestOf, DeadlineOf
      <4>4. OpenOf(k)'
        BY <3>3, <4>2 DEF TestOf, OpenOf, Call
      <4>5. DeadlineOf(k)'
        BY <1>0, <2>1, <3>1, <3>2, <4>2, <4>3 DEF TestOf, DeadlineOf
      <4>6. ClosedOf(k)'
        BY <1>0, <1>1, <2>2, <4>2 DEF ClosedOf
      <4>7. QED
        BY <4>4, <4>5, <4>6 DEF TestOf
    <3>6. QED
      BY <3>4, <3>5
  <2>3. CASE ~opened
    <3>1. Popped(p, "lineOpens")
      <4>1. Made(p, <<>>)
        BY <1>3, <2>3 DEF FireOpens
      <4>2. QED
        BY <1>3, <4>1, PopStep
    <3>2. TestStays(k)
      BY <1>0, <1>2, <2>3 DEF TestStays
    <3>3. CASE k # g
      BY <1>0, <3>1, <3>2, <3>3, PoppedStay, TestFrame
    <3>4. CASE k = g
      <4>1. gun'[k] # "arming" /\ (gun'[k] = "test" => gun[k] = "test")
        BY <1>2, <2>3, <3>4
      <4>2. \A q \in Processes : \A x : x # "lineOpens" => (<<x, k>> \in Left(q)' <=> <<x, k>> \in Left(q))
        BY <3>1, PoppedGun
      <4>3. /\ <<"lineOpens", k>> \in Left("command")' => <<"lineOpens", k>> \in Left("command")
            /\ Call("abortAll") \in Left("watchdog")' <=> Call("abortAll") \in Left("watchdog")
        <5>1. Call("abortAll") \in Left("watchdog")' <=> Call("abortAll") \in Left("watchdog")
          BY <1>0, <3>1, PoppedLeft
        <5>2. <<"lineOpens", k>> \in Left("command")' => <<"lineOpens", k>> \in Left("command")
          BY <2>1, <3>1 DEF Popped
        <5>3. QED
          BY <5>1, <5>2
      <4>4. OpenOf(k)'
        BY <1>0, <4>2, <4>3 DEF TestOf, OpenOf
      <4>5. DeadlineOf(k)'
        BY <1>0, <4>2, <4>3 DEF TestOf, DeadlineOf
      <4>6. ClosedOf(k)'
        BY <1>0, <4>1, <4>2, <4>3 DEF TestOf, ClosedOf
      <4>7. QED
        BY <4>4, <4>5, <4>6 DEF TestOf
    <3>5. QED
      BY <3>3, <3>4
  <2>4. QED
    BY <2>2, <2>3
<1>4. CASE At(p, "dotOpens") /\ ~At(p, "lineOpens")
  <2>1. Popped(p, "dotOpens")
    <3>1. Made(p, <<>>)
      BY <1>4 DEF FireOpens
    <3>2. QED
      BY <1>4, <3>1, PopStep
  <2>2. CallsStay(k)
    BY <2>1, PoppedStay
  <2>3. CASE k # g \/ ~opened
    <3>1. TestStays(k)
      BY <1>0, <1>2, <2>3 DEF TestStays
    <3>2. QED
      BY <1>0, <2>2, <3>1, TestFrame
  <2>4. CASE k = g /\ opened
    <3>1. gun[k] = "arming" /\ gun'[k] = "test" /\ ~sys.active
      BY <1>1, <1>2, <2>4
    <3>2. <<"dotOpens", k>> \in Left(p) /\ p \in {"command", "timer"}
      <4>1. "dotOpens" \in GunOps
        BY DEF GunOps
      <4>2. <<"dotOpens", k>> \in Left(p) /\ "dotOpens" \in OpsOf(p)
        BY <1>4, <2>4, <4>1, AtHead
      <4>3. p \in {"command", "timer"}
        BY <4>2, ProcessNames DEF OpsOf, Stops
      <4>4. QED
        BY <4>2, <4>3
    <3>3. <<"lineOpens", k>> \notin Left("command")
      <4>1. Kind[k] = "Dots"
        BY <3>2 DEF ShapeInv, Pairs, KindPairs
      <4>2. QED
        BY <4>1 DEF ShapeInv, Pairs, KindPairs
    <3>4. ClosedOf(k)'
      BY <1>0, <2>2, <3>1, <3>3 DEF TestOf, ClosedOf, CallsStay
    <3>5. OpenOf(k)' /\ DeadlineOf(k)'
      <4>1. CallsStay(k) /\ TestOf(k)
        BY <2>2
      <4>2. OpenOf(k)'
        BY <4>1 DEF TestOf, OpenOf, CallsStay, Call
      <4>3. "command" \in Stoppers
        BY ProcessNames
      <4>4. DeadlineOf(k)'
        BY <1>0, <4>1, <4>3 DEF TestOf, DeadlineOf, CallsStay
      <4>5. QED
        BY <4>2, <4>4
    <3>6. QED
      BY <3>4, <3>5 DEF TestOf
  <2>5. QED
    BY <2>3, <2>4
<1>5. QED
  BY <1>3, <1>4 DEF FireOpens

LEMMA TestShared ==
    ASSUME ShapeInv, ModeInv, DataOK, NEW p \in Processes, SharedStep(p), NEW k \in Guns, TestOf(k)
    PROVE  TestOf(k)'
<1>1. ASSUME NEW o \in {"lock", "testModeOff", "clearActive"}, Popped(p, o), test' = test, gun' = gun,
             sys'.active => sys.active
      PROVE  TestOf(k)'
  <2>1. TestStays(k)
    BY <1>1 DEF TestStays
  <2>2. QED
    BY <1>1, <2>1, PoppedStay, TestFrame
<1>2. CASE Lock(p)
  BY <1>1, <1>2, LockStep DEF Lock, Untouched
<1>3. CASE TestModeOff(p)
  BY <1>1, <1>3, PopStep DEF TestModeOff
<1>4. CASE ClearActive(p)
  <2>1. sys' = [sys EXCEPT !.active = FALSE]
    BY <1>4 DEF ClearActive
  <2>2. ~sys'.active
    BY <2>1 DEF DataOK, Systems
  <2>3. QED
    BY <1>1, <1>4, <2>2, PopStep DEF ClearActive
<1>5. QED
  BY <1>2, <1>3, <1>4, TestTakeMode, TestStopTimer, TestAbort, TestSetActive, TestOpens
     DEF SharedStep

\* Other calls of a command: they touch no test, and open none.
LEMMA TestQuiet ==
    ASSUME NEW k \in Guns, TestOf(k), test' = test, gun' = gun, sys'.active => sys.active,
           Left("watchdog")' = Left("watchdog"), Left("service")' = Left("service"),
           \A c \in Left("command") :
              c[1] \notin {"takeMode", "stopDeadline", "abort", "fireLine", "lineOpens", "lineRuns",
                           "dotsRun", "startDeadline"},
           \A c \in Left("command")' :
              c[1] \notin {"stopDeadline", "abort", "fireLine", "lineOpens", "lineRuns", "dotsRun",
                           "startDeadline"}
    PROVE  TestOf(k)'
<1>1. TestStays(k)
  BY DEF TestStays
<1>2. CallsStay(k)
  BY ProcessNames DEF CallsStay
<1>3. QED
  BY <1>1, <1>2, TestFrame

\* The same for the service of the network task.
LEMMA TestService ==
    ASSUME NEW k \in Guns, TestOf(k), test' = test, gun' = gun, sys'.active => sys.active,
           Left("watchdog")' = Left("watchdog"), Left("command")' = Left("command"),
           \A c \in Left("service") : c[1] \notin {"stopDeadline", "abort"},
           \A c \in Left("service")' : c[1] \notin {"stopDeadline", "abort"}
    PROVE  TestOf(k)'
<1>1. TestStays(k)
  BY DEF TestStays
<1>2. CallsStay(k)
  BY ProcessNames DEF CallsStay
<1>3. QED
  BY <1>1, <1>2, TestFrame

LEMMA TestTry ==
    ASSUME ShapeInv, TryTest, ~seen'.crossed, DataOK, NEW k \in Guns, TestOf(k)
    PROVE  TestOf(k)'
<1> DEFINE g == GunOf("command")
<1>0. /\ sys' = sys /\ test' = test /\ gun' = gun /\ {"service", "watchdog"} \subseteq Processes
      /\ Stoppers = {"command", "service", "watchdog"} /\ \A x : Call(x)[1] = x
  BY ProcessNames DEF TryTest
<1>1. /\ Left("command") = {<<"tryTest", g>>}
      /\ \/ Left("command")' = {}
         \/ Left("command")' = LineTest(g) \/ Left("command")' = DotsTest(g)
      /\ Left("service")' = Left("service") /\ Left("watchdog")' = Left("watchdog")
  BY <1>0, TryShape
<1>2. Call("abortAll") \notin Left("watchdog")
  <2>1. ~Stopping
    <3> DEFINE b == seen.crossed \/ Stopping
    <3>1. seen' = [seen EXCEPT !.crossed = b] /\ (Stopping => b)
      BY DEF TryTest
    <3> HIDE DEF b
    <3>2. seen'.crossed = b
      BY <3>1 DEF DataOK, Ghosts
    <3>3. QED
      BY <3>1, <3>2
  <2>2. QED
    BY <2>1, ComingFacts DEF Stopping
<1>3. /\ test'[k].mode = test[k].mode /\ (test'[k].deadline <=> test[k].deadline) /\ gun'[k] = gun[k]
  BY <1>0
<1>4. /\ \A o : <<o, k>> \in Left("command") => o = "tryTest"
      /\ \A o \in {"stopDeadline", "abort", "lineOpens", "lineRuns"} : <<o, k>> \notin Left("command")'
      /\ (\E o \in {"startDeadline", "fireLine"} : <<o, k>> \in Left("command")')
            => <<"takeMode", k>> \in Left("command")'
      /\ <<"startDeadline", k>> \in Left("command")' => <<"dotsRun", k>> \in Left("command")'
  BY <1>1 DEF LineTest, DotsTest
<1>5. OpenOf(k)'
  BY <1>1, <1>2 DEF OpenOf, Call
<1>6. DeadlineOf(k)'
  <2>1. \A p \in Stoppers : <<"stopDeadline", k>> \in Left(p)' <=> <<"stopDeadline", k>> \in Left(p)
    BY <1>0, <1>1, <1>4
  <2>2. test[k].mode # "None" => test[k].deadline
    BY <1>4 DEF TestOf, DeadlineOf
  <2>3. QED
    BY <1>3, <1>4, <2>1, <2>2 DEF TestOf, DeadlineOf
<1>7. ClosedOf(k)'
  <2>1. \A p \in Stoppers : <<"abort", k>> \in Left(p)' <=> <<"abort", k>> \in Left(p)
    BY <1>0, <1>1, <1>4
  <2>2. QED
    BY <1>0, <1>1, <1>3, <1>4, <2>1 DEF TestOf, ClosedOf, Call
<1>8. QED
  BY <1>5, <1>6, <1>7 DEF TestOf

LEMMA TestFireLine ==
    ASSUME ShapeInv, DataOK, At("command", "fireLine"),
           FireBegin("command", GunOf("command"), "lineOpens"), sys' = sys, test' = test,
           NEW k \in Guns, TestOf(k)
    PROVE  TestOf(k)'
<1> DEFINE g == GunOf("command")
<1>0. /\ "command" \in Processes /\ "watchdog" \in Processes /\ "service" \in Processes
      /\ Stoppers = {"command", "service", "watchdog"} /\ Stoppers \subseteq Processes
  BY ProcessNames
<1>1. PICK T : /\ Left("command") = {<<"fireLine", g>>} \cup T /\ \A c \in T : c[1] \in Follow("fireLine")
               /\ \/ gun' = gun /\ Made("command", <<>>) /\ Left("command")' = T
                  \/ /\ gun' = [gun EXCEPT ![g] = "arming"]
                     /\ Left("command")' = {<<"lineOpens", g>>} \cup T
               /\ \A q \in Processes : q # "command" => Left(q)' = Left(q)
  BY FireShape
<1>2. T = {}
  BY <1>1, FollowFacts
<1>3. /\ Left("command") = {<<"fireLine", g>>}
      /\ \/ gun' = gun /\ Left("command")' = {}
         \/ gun' = [gun EXCEPT ![g] = "arming"] /\ Left("command")' = {<<"lineOpens", g>>}
      /\ Left("watchdog")' = Left("watchdog")
  BY <1>0, <1>1, <1>2
<1>4. \A p \in Stoppers, o \in {"stopDeadline", "abort"} : <<o, k>> \in Left(p)' <=> <<o, k>> \in Left(p)
  BY <1>0, <1>1, <1>3
<1>5. /\ \A o : <<o, k>> \in Left("command") => o = "fireLine" /\ k = g
      /\ \A o : <<o, k>> \in Left("command")' =>
                    o = "lineOpens" /\ k = g /\ <<"fireLine", k>> \in Left("command")
      /\ gun'[k] = gun[k] \/ (gun'[k] = "arming" /\ <<"lineOpens", k>> \in Left("command")')
  <2>1. gun' = [gun EXCEPT ![g] = "arming"] => gun'[k] = IF k = g THEN "arming" ELSE gun[k]
    BY DEF DataOK
  <2>2. QED
    BY <1>3, <2>1
<1>6. OpenOf(k)'
  BY <1>3, <1>5 DEF TestOf, OpenOf, Call
<1>7. DeadlineOf(k)'
  <2>1. <<"fireLine", k>> \in Left("command") => ~test[k].deadline
    BY <1>5 DEF TestOf, DeadlineOf
  <2>2. test[k].mode # "None" => test[k].deadline
    BY <1>5 DEF TestOf, DeadlineOf
  <2>3. QED
    BY <1>4, <1>5, <2>1, <2>2 DEF TestOf, DeadlineOf
<1>8. ClosedOf(k)'
  BY <1>3, <1>4, <1>5 DEF TestOf, ClosedOf, Call
<1>9. QED
  BY <1>6, <1>7, <1>8 DEF TestOf

LEMMA TestFireDot ==
    ASSUME ShapeInv, DataOK, At("command", "fireDot"),
           FireBegin("command", GunOf("command"), "dotOpens"), sys' = sys, test' = test,
           NEW k \in Guns, TestOf(k)
    PROVE  TestOf(k)'
<1> DEFINE g == GunOf("command")
<1>0. /\ "command" \in Processes /\ "watchdog" \in Processes
      /\ Stoppers = {"command", "service", "watchdog"} /\ Stoppers \subseteq Processes
      /\ \A x : Call(x) = <<x, 0>>
  BY ProcessNames
<1>1. PICK T : /\ Left("command") = {<<"fireDot", g>>} \cup T /\ \A c \in T : c[1] \in Follow("fireDot")
               /\ \/ gun' = gun /\ Made("command", <<>>) /\ Left("command")' = T
                  \/ /\ gun' = [gun EXCEPT ![g] = "arming"]
                     /\ Left("command")' = {<<"dotOpens", g>>} \cup T
               /\ \A q \in Processes : q # "command" => Left(q)' = Left(q)
  BY FireShape
<1>2. \A c \in Left("command") : c[1] \in {"fireDot", "startTick", "startDeadline"}
  BY <1>1, FollowFacts
<1>3. CallsStay(k)
  BY <1>0, <1>1 DEF CallsStay
<1>4. gun'[k] = gun[k] \/ (k = g /\ gun'[k] = "arming")
  BY <1>1 DEF DataOK
<1>5. CASE gun'[k] = gun[k]
  <2>1. TestStays(k)
    BY <1>5 DEF TestStays
  <2>2. QED
    BY <1>3, <2>1, TestFrame
<1>6. CASE k = g /\ gun'[k] = "arming"
  <2>1. <<"fireDot", k>> \in Left("command")
    BY <1>1, <1>6
  <2>2. <<"startDeadline", k>> \in Left("command")
    BY <2>1 DEF ShapeInv, Pairs, CommandPairs
  <2>3. test[k].mode # "None"
    BY <1>2, <2>2 DEF TestOf, DeadlineOf
  <2>4. OpenOf(k)'
    BY <1>3 DEF TestOf, OpenOf, CallsStay, Call
  <2>5. DeadlineOf(k)'
    BY <1>0, <1>3 DEF TestOf, DeadlineOf, CallsStay
  <2>6. ClosedOf(k)'
    BY <1>6, <2>3 DEF ClosedOf
  <2>7. QED
    BY <2>4, <2>5, <2>6 DEF TestOf
<1>7. QED
  BY <1>4, <1>5, <1>6

LEMMA TestRuns ==
    ASSUME ShapeInv, DataOK, Runs, NEW k \in Guns, TestOf(k)
    PROVE  TestOf(k)'
<1> DEFINE g == GunOf("command")
<1>0. /\ sys' = sys /\ gun' = gun /\ test' = [test EXCEPT ![g].mode = Kind[g]]
      /\ Made("command", <<>>) /\ "command" \in Processes /\ "watchdog" \in Processes
      /\ Stoppers \subseteq Processes
  BY ProcessNames DEF Runs
<1>1. PICK o \in {"lineRuns", "dotsRun"} : At("command", o)
  BY DEF Runs
<1>2. Popped("command", o)
  BY <1>0, <1>1, PopStep
<1>3. CASE k # g
  <2>1. TestStays(k)
    BY <1>0, <1>3 DEF TestStays, DataOK, Tests
  <2>2. QED
    BY <1>0, <1>2, <1>3, <2>1, PoppedStay, TestFrame
<1>4. CASE k = g
  <2>1. /\ <<o, k>> \in Left("command") /\ Holding("command")
        /\ \A c \in Left("command") : c[1] \in {o, "fireDot", "startTick", "startDeadline"}
    <3>1. <<o, k>> \in Left("command") /\ Holding("command")
      BY <1>0, <1>1, <1>2, <1>4, AtHead DEF Popped
    <3>2. QED
      BY <1>2, <3>1, FollowFacts DEF Popped
  <2>2. <<"startDeadline", k>> \in Left("command")
    BY <2>1 DEF ShapeInv, Pairs, CommandPairs
  <2>3. ~test[k].deadline
    BY <2>1, <2>2 DEF TestOf, DeadlineOf
  <2>4. test'[k].mode # "None" /\ (test'[k].deadline <=> test[k].deadline)
    BY <1>0, <1>4, MachineAssumption DEF DataOK, Tests
  <2>5. \A p \in Stoppers : <<"stopDeadline", k>> \notin Left(p)
    <3>1. ASSUME NEW p \in Stoppers, <<"stopDeadline", k>> \in Left(p) PROVE FALSE
      <4>1. <<"stopDeadline", k>>[1] \in Stops
        BY DEF Stops
      <4>2. p = "command"
        BY <2>1, <2>2, <3>1, <4>1, OnlyCommandStops
      <4>3. QED
        BY <2>1, <3>1, <4>2
    <3>2. QED
      BY <3>1
  <2>6. \A q \in Processes : \A x : x # o => (<<x, k>> \in Left(q)' <=> <<x, k>> \in Left(q))
    BY <1>0, <1>2, PoppedGun
  <2>7. Call("abortAll") \in Left("watchdog")' <=> Call("abortAll") \in Left("watchdog")
    BY <1>0, <1>2, PoppedLeft
  <2>8. OpenOf(k)'
    BY <1>0, <2>6, <2>7 DEF TestOf, OpenOf
  <2>9. DeadlineOf(k)'
    BY <1>0, <2>2, <2>3, <2>4, <2>5, <2>6 DEF DeadlineOf
  <2>10. ClosedOf(k)'
    BY <1>0, <2>4, <2>7 DEF TestOf, ClosedOf
  <2>11. QED
    BY <2>8, <2>9, <2>10 DEF TestOf
<1>5. QED
  BY <1>3, <1>4

LEMMA TestTimer ==
    ASSUME ShapeInv, DataOK, StartTimer, NEW k \in Guns, TestOf(k)
    PROVE  TestOf(k)'
<1> DEFINE g == GunOf("command")
<1>0. /\ sys' = sys /\ gun' = gun /\ Made("command", <<>>)
      /\ "command" \in Processes /\ "watchdog" \in Processes /\ Stoppers \subseteq Processes
  BY ProcessNames DEF StartTimer
<1>1. CASE At("command", "startTick")
  <2>1. Popped("command", "startTick")
    BY <1>0, <1>1, PopStep
  <2>2. TestStays(k)
    <3>1. test' = [test EXCEPT ![g].tick = TRUE]
      BY <1>1 DEF StartTimer
    <3>2. test'[k].mode = test[k].mode /\ (test'[k].deadline <=> test[k].deadline)
      BY <3>1 DEF DataOK, Tests
    <3>3. QED
      BY <1>0, <3>2 DEF TestStays
  <2>3. QED
    BY <1>0, <2>1, <2>2, PoppedStay, TestFrame
<1>2. CASE At("command", "startDeadline") /\ ~At("command", "startTick")
  <2>1. Popped("command", "startDeadline")
    BY <1>0, <1>2, PopStep
  <2>2. test' = [test EXCEPT ![g].deadline = TRUE]
    BY <1>2 DEF StartTimer
  <2>3. CASE k # g
    <3>1. TestStays(k)
      BY <1>0, <2>2, <2>3 DEF DataOK, Tests, TestStays
    <3>2. QED
      BY <1>0, <2>1, <2>3, <3>1, PoppedStay, TestFrame
  <2>4. CASE k = g
    <3>1. Left("command") = {<<"startDeadline", k>>} /\ Left("command")' = {}
      <4>1. Left("command")' = {}
        BY <2>1, FollowFacts DEF Popped
      <4>2. QED
        BY <2>1, <2>4, <4>1 DEF Popped
    <3>2. test[k].mode # "None"
      BY <3>1 DEF TestOf, DeadlineOf
    <3>3. test'[k].mode = test[k].mode /\ test'[k].deadline
      BY <2>2, <2>4 DEF DataOK, Tests
    <3>4. \A q \in Processes : \A x : x # "startDeadline" => (<<x, k>> \in Left(q)' <=> <<x, k>> \in Left(q))
      BY <1>0, <2>1, PoppedGun
    <3>5. Call("abortAll") \in Left("watchdog")' <=> Call("abortAll") \in Left("watchdog")
      BY <1>0, <2>1, PoppedLeft
    <3>6. OpenOf(k)'
      BY <3>1 DEF OpenOf
    <3>7. DeadlineOf(k)'
      BY <1>0, <3>1, <3>2, <3>3, <3>4 DEF TestOf, DeadlineOf
    <3>8. ClosedOf(k)'
      BY <1>0, <3>2, <3>3, <3>5 DEF TestOf, ClosedOf
    <3>9. QED
      BY <3>6, <3>7, <3>8 DEF TestOf
  <2>5. QED
    BY <2>3, <2>4
<1>3. QED
  BY <1>1, <1>2 DEF StartTimer

LEMMA TestCommand ==
    ASSUME ShapeInv, ModeInv, DataOK, CommandStep, ~seen'.crossed, NEW k \in Guns, TestOf(k)
    PROVE  TestOf(k)'
<1>0. /\ {"command", "service", "watchdog"} \subseteq Processes /\ \A x : Call(x)[1] = x
      /\ "command" \in Editors
  BY ProcessNames
<1>1. ASSUME NEW o \in {"seeFault", "clearFault", "cancel", "restore", "calibrate", "forget", "lead"},
             At("command", o), Made("command", <<>>), test' = test, gun' = gun,
             sys'.active => sys.active
      PROVE  TestOf(k)'
  <2>1. Popped("command", o)
    BY <1>0, <1>1, PopStep
  <2>2. TestStays(k)
    BY <1>1 DEF TestStays
  <2>3. CallsStay(k)
    BY <1>0, <2>1, PoppedStay
  <2>4. QED
    BY <1>1, <2>2, <2>3, TestFrame
<1>2. CASE SeeFault
  <2>1. sys' = sys /\ test' = test /\ gun' = gun
    BY <1>2 DEF SeeFault, Untouched
  <2>2. CASE ~sys.fault
    BY <1>1, <1>2, <2>1, <2>2 DEF SeeFault
  <2>3. CASE sys.fault
    <3>1. PICK T : /\ Left("command") = {Call("seeFault")} \cup T
                   /\ Left("command")' = {Call("clearFault")} \cup T
                   /\ \A q \in Processes : q # "command" => Left(q)' = Left(q)
      BY <1>2, <2>3, SeeFaultShape
    <3>2. CallsStay(k)
      BY <1>0, <3>1, ProcessNames DEF CallsStay
    <3>3. TestStays(k)
      BY <2>1 DEF TestStays
    <3>4. QED
      BY <2>1, <3>2, <3>3, TestFrame
  <2>4. QED
    BY <2>2, <2>3
<1>3. CASE ClearFault
  <2>1. sys' = [sys EXCEPT !.fault = FALSE]
    BY <1>3 DEF ClearFault
  <2>2. sys'.active <=> sys.active
    BY <2>1
  <2>3. QED
    BY <1>1, <1>3, <2>2 DEF ClearFault
<1>4. CASE Cancel
  <2>1. sys'.active <=> sys.active
    <3>1. sys' = sys \/ sys' = [sys EXCEPT !.calibrating = FALSE]
      BY <1>4 DEF Cancel, Leave
    <3>2. CASE sys' = sys
      BY <3>2
    <3>3. CASE sys' = [sys EXCEPT !.calibrating = FALSE]
      BY <3>3
    <3>4. QED
      BY <3>1, <3>2, <3>3
  <2>2. test' = test /\ gun' = gun
    BY <1>4 DEF Cancel
  <2>3. CASE At("command", "restore") /\ Made("command", Restart)
    <3>1. /\ Left("command") = {Call("restore")}
          /\ Left("command")' = TakeAll \cup {Call("testModeOff"), Call("setActive")}
          /\ Left("service")' = Left("service") /\ Left("watchdog")' = Left("watchdog")
      BY <1>0, <2>3, RestartShape
    <3>2. \A c \in Left("command")' : c[1] \in {"takeMode", "testModeOff", "setActive"}
      BY <1>0, <3>1 DEF TakeAll
    <3>3. QED
      BY <1>0, <2>1, <2>2, <3>1, <3>2, TestQuiet
  <2>4. CASE Made("command", <<>>)
    BY <1>1, <1>4, <2>1, <2>2, <2>4 DEF Cancel
  <2>5. QED
    BY <1>4, <2>3, <2>4 DEF Cancel, Leave
<1>5. CASE Arm
  <2>1. /\ Left("command") = {Call("arm")} /\ Left("command")' = ArmCalls
        /\ Left("service")' = Left("service") /\ Left("watchdog")' = Left("watchdog")
    BY <1>0, <1>5, ArmShape DEF ModeInv
  <2>2. \A c \in ArmCalls : c[1] \in {"takeMode", "testModeOff", "abortAll", "clearActive",
                                      "calibrate", "forget", "lead"}
    BY <1>0 DEF ArmCalls, TakeAll
  <2>3. sys' = sys /\ test' = test /\ gun' = gun
    BY <1>5 DEF Arm
  <2>4. QED
    BY <1>0, <2>1, <2>2, <2>3, TestQuiet
<1>6. CASE Calibrate
  <2>1. sys' = [sys EXCEPT !.calibrating = TRUE]
    BY <1>6 DEF Calibrate
  <2>2. sys'.active <=> sys.active
    BY <2>1
  <2>3. QED
    BY <1>1, <1>6, <2>2 DEF Calibrate
<1>7. CASE Forget \/ Lead
  BY <1>1, <1>7 DEF Forget, Lead
<1>8. CASE CheckTest
  <2>1. /\ \E g \in Guns : /\ Left("command") = {<<"check", g>>}
                           /\ Left("command")' \subseteq {<<"tryTest", g>>}
        /\ Left("service")' = Left("service") /\ Left("watchdog")' = Left("watchdog")
    BY <1>0, <1>8, CheckShape
  <2>2. sys' = sys /\ test' = test /\ gun' = gun
    BY <1>8 DEF CheckTest, Untouched
  <2>3. QED
    BY <2>1, <2>2, TestQuiet
<1>9. CASE Fire
  BY <1>9, TestFireLine, TestFireDot DEF Fire
<1>10. QED
  BY <1>2, <1>3, <1>4, <1>5, <1>6, <1>7, <1>8, <1>9, TestTry, TestRuns, TestTimer DEF CommandStep

\* The watchdog trips while no test is being opened, or it has crossed one.
LEMMA TestTrip ==
    ASSUME ShapeInv, DataOK, ReadArmed, ~seen'.crossed, NEW k \in Guns, TestOf(k)
    PROVE  TestOf(k)'
<1>0. /\ {"command", "service", "watchdog"} \subseteq Processes /\ Stoppers = {"command", "service", "watchdog"}
      /\ \A x : Call(x) = <<x, 0>>
  BY ProcessNames
<1>1. sys' = sys /\ test' = test /\ gun' = gun
  BY DEF ReadArmed
<1>2. TestStays(k)
  BY <1>1 DEF TestStays
<1> DEFINE trips == Watched /\ link.over /\ ~link.tripped
<1>3. CASE trips
  <2>1. ~Opening
    <3> DEFINE b == seen.crossed \/ (trips /\ Opening)
    <3>1. seen' = [seen EXCEPT !.crossed = b] /\ (Opening => b)
      BY <1>3 DEF ReadArmed
    <3> HIDE DEF b
    <3>2. seen'.crossed = b
      BY <3>1 DEF DataOK, Ghosts
    <3>3. QED
      BY <3>1, <3>2
  <2>2. /\ Left("watchdog") = {Call("readArmed")} /\ Left("watchdog")' = StopCalls
        /\ Left("command")' = Left("command") /\ Left("service")' = Left("service")
    <3>1. At("watchdog", "readArmed") /\ Made("watchdog", StopAll)
      BY <1>3 DEF ReadArmed
    <3>2. QED
      BY <1>0, <3>1, TripShape
  <2>3. \A o \in {"fireLine", "lineOpens", "startDeadline"} : <<o, k>> \notin Left("command")
    BY <2>1 DEF Opening, Coming, Left, Elems
  <2>4. \A c \in Left("watchdog") \cup Left("watchdog")' : c[1] \notin {"stopDeadline", "abort"}
    BY <1>0, <2>2 DEF StopCalls, TakeAll
  <2>5. \A p \in Stoppers, o \in {"stopDeadline", "abort"} : <<o, k>> \in Left(p)' <=> <<o, k>> \in Left(p)
    BY <1>0, <2>2, <2>4
  <2>6. OpenOf(k)'
    BY <2>2, <2>3 DEF OpenOf
  <2>7. DeadlineOf(k)'
    BY <1>1, <2>2, <2>5 DEF TestOf, DeadlineOf
  <2>8. ClosedOf(k)'
    BY <1>0, <1>1, <2>2, <2>5 DEF TestOf, ClosedOf
  <2>9. QED
    BY <2>6, <2>7, <2>8 DEF TestOf
<1>4. CASE ~trips
  <2>1. At("watchdog", "readArmed") /\ Made("watchdog", <<>>)
    BY <1>4 DEF ReadArmed
  <2>2. Popped("watchdog", "readArmed")
    BY <1>0, <2>1, PopStep
  <2>3. CallsStay(k)
    BY <1>0, <2>2, PoppedStay
  <2>4. QED
    BY <1>1, <1>2, <2>3, TestFrame
<1>5. QED
  BY <1>3, <1>4

LEMMA TestHandler ==
    ASSUME ShapeInv, ModeInv, DataOK, NEW p \in Processes, HandlerOf(p), ~seen'.crossed,
           NEW k \in Guns, TestOf(k)
    PROVE  TestOf(k)'
<1>0. /\ {"command", "service", "watchdog", "fault", "photocell"} \subseteq Processes
      /\ \A x : Call(x)[1] = x /\ "service" \in Editors
  BY ProcessNames
<1>1. ASSUME NEW q \in {"watchdog", "fault", "photocell", "service"},
             NEW o \in {"readLast", "setFault", "leadSeen", "sheetLeft", "sheetDone", "apply"},
             At(q, o), Made(q, <<>>), test' = test, gun' = gun, sys'.active => sys.active
      PROVE  TestOf(k)'
  <2>1. Popped(q, o)
    BY <1>0, <1>1, PopStep
  <2>2. TestStays(k)
    BY <1>1 DEF TestStays
  <2>3. CallsStay(k)
    BY <1>0, <2>1, PoppedStay
  <2>4. QED
    BY <1>1, <2>2, <2>3, TestFrame
<1>2. CASE p = "watchdog" /\ ReadLast
  BY <1>1, <1>2 DEF ReadLast
<1>3. CASE p = "fault" /\ SetFault
  <2>1. sys' = [sys EXCEPT !.fault = TRUE]
    BY <1>3 DEF SetFault
  <2>2. sys'.active <=> sys.active
    BY <2>1
  <2>3. QED
    BY <1>1, <1>3, <2>2 DEF SetFault
<1>4. CASE p = "photocell" /\ PhotocellStores
  BY <1>1, <1>4 DEF PhotocellStores
<1>5. CASE p = "service" /\ Apply
  <2>1. sys'.active <=> sys.active
    <3>1. sys' = sys \/ sys' = [sys EXCEPT !.calibrating = FALSE]
      BY <1>5 DEF Apply, Leave
    <3>2. CASE sys' = sys
      BY <3>2
    <3>3. CASE sys' = [sys EXCEPT !.calibrating = FALSE]
      BY <3>3
    <3>4. QED
      BY <3>1, <3>2, <3>3
  <2>2. test' = test /\ gun' = gun /\ At("service", "apply")
    BY <1>5 DEF Apply
  <2>3. CASE Made("service", Restart)
    <3>1. /\ Left("service") = {Call("apply")}
          /\ Left("service")' = TakeAll \cup {Call("testModeOff"), Call("setActive")}
          /\ Left("command")' = Left("command") /\ Left("watchdog")' = Left("watchdog")
      BY <1>0, <2>2, <2>3, RestartShape
    <3>2. \A c \in Left("service")' : c[1] \in {"takeMode", "testModeOff", "setActive"}
      BY <1>0, <3>1 DEF TakeAll
    <3>3. QED
      BY <1>0, <2>1, <2>2, <3>1, <3>2, TestService
  <2>4. CASE Made("service", <<>>)
    BY <1>1, <2>1, <2>2, <2>4
  <2>5. QED
    BY <1>5, <2>3, <2>4 DEF Apply, Leave
<1>6. QED
  BY <1>2, <1>3, <1>4, <1>5, TestShared, TestCommand, TestTrip DEF HandlerOf

\* The deadline of a test ends it; if another is being opened, that one is to run.
LEMMA TestEnds ==
    ASSUME ShapeInv, DataOK, NEW g \in Guns, Deadline(g), NEW k \in Guns, TestOf(k)
    PROVE  TestOf(k)'
<1>0. /\ sys' = sys /\ \A q \in Processes : Left(q)' = Left(q)
      /\ {"command", "watchdog"} \subseteq Processes /\ Stoppers \subseteq Processes
  BY SameTodo, ProcessNames DEF Deadline
<1>1. CallsStay(k)
  BY <1>0 DEF CallsStay
<1>2. CASE k # g
  <2>1. test'[k] = test[k] /\ gun'[k] = gun[k]
    BY <1>2 DEF Deadline, DataOK
  <2>2. TestStays(k)
    BY <2>1 DEF TestStays
  <2>3. QED
    BY <1>0, <1>1, <2>2, TestFrame
<1>3. CASE k = g
  <2>1. test[k].deadline
    BY <1>3 DEF Deadline
  <2>2. ~test'[k].deadline /\ test'[k].mode = "None"
    <3>1. CASE test[g].mode = "None"
      <4>1. test' = [test EXCEPT ![g].deadline = FALSE]
        BY <3>1 DEF Deadline
      <4>2. QED
        BY <1>3, <3>1, <4>1 DEF DataOK, Tests
    <3>2. CASE test[g].mode # "None"
      <4>1. test' = [test EXCEPT ![g] = [mode |-> "None", tick |-> FALSE, deadline |-> FALSE]]
        BY <3>2 DEF Deadline
      <4>2. QED
        BY <1>3, <4>1 DEF DataOK
    <3>3. QED
      BY <3>1, <3>2
  <2>3. gun'[k] = "shut" \/ (gun'[k] = gun[k] /\ test[k].mode = "None")
    BY <1>3 DEF Deadline, DataOK
  <2>4. <<"startDeadline", k>> \in Left("command") => <<"dotsRun", k>> \in Left("command")
    <3>1. SUFFICES ASSUME <<"startDeadline", k>> \in Left("command")
                   PROVE  <<"dotsRun", k>> \in Left("command")
      OBVIOUS
    <3>2. PICK o \in {"takeMode", "stopDeadline"} : <<o, k>> \in Left("command")
      BY <2>1, <3>1 DEF TestOf, DeadlineOf
    <3>3. <<o, k>>[1] \in Stops
      BY DEF Stops
    <3>4. QED
      BY <3>1, <3>2, <3>3 DEF ShapeInv, Pairs, CommandPairs
  <2>5. OpenOf(k)'
    BY <1>0 DEF TestOf, OpenOf
  <2>6. DeadlineOf(k)'
    BY <1>0, <2>2, <2>4 DEF DeadlineOf
  <2>7. ClosedOf(k)'
    BY <1>0, <2>2, <2>3 DEF TestOf, ClosedOf
  <2>8. QED
    BY <2>5, <2>6, <2>7 DEF TestOf
<1>4. QED
  BY <1>2, <1>3

LEMMA TestInput ==
    ASSUME ShapeInv, KindInv, DataOK, NEW i \in Inputs, Input(i), NEW k \in Guns, TestOf(k)
    PROVE  TestOf(k)'
<1>0. /\ {"timer", "watchdog", "fault", "photocell", "service", "command"} = Processes
      /\ Stoppers = {"command", "service", "watchdog"} /\ \A x : Call(x) = <<x, 0>>
  BY ProcessNames
<1>1. ASSUME test' = test, gun' = gun, sys'.active => sys.active,
             \A q \in Stoppers : Left(q)' = Left(q)
      PROVE  TestOf(k)'
  <2>1. TestStays(k)
    BY <1>1 DEF TestStays
  <2>2. CallsStay(k)
    BY <1>0, <1>1 DEF CallsStay
  <2>3. QED
    BY <1>1, <2>1, <2>2, TestFrame
<1>2. ASSUME NEW c \in CommandNames, Receive(c), Left("command") = {},
             Left("command")' = CommandCalls[c],
             \A q \in Processes : q # "command" => Left(q)' = Left(q)
      PROVE  TestOf(k)'
  <2>1. sys' = sys /\ test' = test /\ gun' = gun
    BY <1>2 DEF Receive
  <2>2. \A d \in CommandCalls[c] :
           d[1] \notin {"stopDeadline", "abort", "fireLine", "lineOpens", "lineRuns", "dotsRun",
                        "startDeadline"}
    BY <1>0 DEF CommandCalls, CommandNames, TakeAll, StopCalls
  <2>3. QED
    BY <1>0, <1>2, <2>1, <2>2, TestQuiet
<1>3. ASSUME NEW g \in Guns, NEW o \in {"check", "takeMode"}, ReceiveTest(g), Left("command") = {},
             Left("command")' = {Call("lock"), <<o, g>>},
             \A q \in Processes : q # "command" => Left(q)' = Left(q)
      PROVE  TestOf(k)'
  <2>1. sys' = sys /\ test' = test /\ gun' = gun
    BY <1>3 DEF ReceiveTest
  <2>2. \A d \in Left("command")' :
           d[1] \notin {"stopDeadline", "abort", "fireLine", "lineOpens", "lineRuns", "dotsRun",
                        "startDeadline"}
    BY <1>0, <1>3
  <2>3. QED
    BY <1>0, <1>3, <2>1, <2>2, TestQuiet
<1>4. ASSUME NEW g \in Guns, TickDot(g), \A q \in Processes : q # "timer" => Left(q)' = Left(q)
      PROVE  TestOf(k)'
  <2>1. sys' = sys /\ test' = test /\ gun' = [gun EXCEPT ![g] = "arming"] /\ test[g].mode = "Dots"
    BY <1>4 DEF TickDot
  <2>2. CallsStay(k)
    BY <1>0, <1>4 DEF CallsStay
  <2>3. CASE k # g
    <3>1. TestStays(k)
      BY <2>1, <2>3 DEF TestStays, DataOK
    <3>2. QED
      BY <2>1, <2>2, <3>1, TestFrame
  <2>4. CASE k = g
    <3>1. test[k].mode # "None" /\ gun'[k] = "arming"
      BY <2>1, <2>4 DEF DataOK
    <3>2. OpenOf(k)'
      BY <2>2 DEF TestOf, OpenOf, CallsStay, Call
    <3>3. DeadlineOf(k)'
      BY <1>0, <2>1, <2>2 DEF TestOf, DeadlineOf, CallsStay
    <3>4. ClosedOf(k)'
      BY <2>1, <3>1 DEF ClosedOf
    <3>5. QED
      BY <3>2, <3>3, <3>4 DEF TestOf
  <2>5. QED
    BY <2>3, <2>4
<1>5. ASSUME Tick, \A q \in Processes : q # "watchdog" => Left(q)' = Left(q),
             \/ Left("watchdog") = {} /\ Left("watchdog")' = {Call("readLast"), Call("readArmed")}
             \/ Left("watchdog")' = Left("watchdog")
      PROVE  TestOf(k)'
  <2>1. sys' = sys /\ test' = test /\ gun' = gun
    BY <1>5 DEF Tick
  <2>2. CallsStay(k)
    BY <1>0, <1>5 DEF CallsStay
  <2>3. TestStays(k)
    BY <2>1 DEF TestStays
  <2>4. QED
    BY <2>1, <2>2, <2>3, TestFrame
<1>6. ASSUME NEW q \in {"fault", "photocell"}, FaultIsr \/ LeadingEdge \/ FallingEdge,
             \A h \in Processes : h # q => Left(h)' = Left(h)
      PROVE  TestOf(k)'
  <2>1. sys' = sys /\ test' = test /\ gun' = gun
    BY <1>6 DEF FaultIsr, Untouched, LeadingEdge, FallingEdge
  <2>2. QED
    BY <1>0, <1>1, <1>6, <2>1
<1>7. ASSUME Ping \/ SafetyStop \/ \E g \in Guns : SheetFires(g),
             \A q \in Processes : Left(q)' = Left(q)
      PROVE  TestOf(k)'
  <2>1. CallsStay(k)
    BY <1>0, <1>7 DEF CallsStay
  <2>2. TestStays(k)
    <3>1. test' = test
      BY <1>7 DEF Ping, SafetyStop, SheetFires
    <3>2. gun'[k] = gun[k] \/ gun'[k] \in {"shut", "sheet"}
      BY <1>7 DEF Ping, SafetyStop, SheetFires, DataOK
    <3>3. QED
      BY <3>1, <3>2 DEF TestStays
  <2>3. sys'.active => sys.active
    <3>1. CASE SafetyStop
      <4>1. sys' = [sys EXCEPT !.active = FALSE]
        BY <3>1 DEF SafetyStop
      <4>2. QED
        BY <4>1 DEF DataOK, Systems
    <3>2. CASE sys' = sys
      BY <3>2
    <3>3. QED
      BY <1>7, <3>1, <3>2 DEF Ping, SheetFires
  <2>4. QED
    BY <2>1, <2>2, <2>3, TestFrame
<1>8. ASSUME NEW g \in Guns, Deadline(g) PROVE TestOf(k)'
  BY <1>8, TestEnds
<1>9. QED
  BY <1>2, <1>3, <1>4, <1>5, <1>6, <1>7, <1>8, InputLeft

LEMMA TestWorld ==
    ASSUME ShapeInv, DataOK, World, NEW k \in Guns, TestOf(k)
    PROVE  TestOf(k)'
<1>0. /\ {"watchdog", "service", "command"} \subseteq Processes
      /\ Stoppers = {"command", "service", "watchdog"} /\ \A x : Call(x) = <<x, 0>>
  BY ProcessNames
<1>1. sys' = sys /\ test' = test
  BY DEF World, HandOver, TakePending, GunCloses
<1>2. gun'[k] = gun[k] \/ gun'[k] = "shut"
  BY DEF World, HandOver, TakePending, GunCloses, DataOK
<1>3. TestStays(k)
  BY <1>1, <1>2 DEF TestStays
<1>4. CallsStay(k)
  BY <1>0, WorldLeft DEF CallsStay
<1>5. QED
  BY <1>1, <1>3, <1>4, TestFrame

\* What was crossed once counts as crossed.
LEMMA CrossedStays ==
    ASSUME DataOK, Next, seen.crossed
    PROVE  seen'.crossed
<1>1. PICK b, n :
         \/ seen' = seen
         \/ seen' = [seen EXCEPT !.halted = b, !.alone = 0]
         \/ seen' = [seen EXCEPT !.fed = TRUE, !.halted = b]
         \/ seen' = [seen EXCEPT !.fed = TRUE]
         \/ seen' = [seen EXCEPT !.fed = b, !.alone = n]
         \/ seen' = [seen EXCEPT !.stale = b]
         \/ seen' = [seen EXCEPT !.crossed = TRUE]
  <2>1. ASSUME NEW p \in Processes, ClearActive(p) PROVE \E b \in BOOLEAN : seen' = [seen EXCEPT !.halted = b, !.alone = 0]
    <3>1. (~Committed) \in BOOLEAN
      BY Zenon
    <3>2. QED
      BY <2>1, <3>1 DEF ClearActive
  <2>2. ASSUME SafetyStop PROVE \E b \in BOOLEAN : seen' = [seen EXCEPT !.halted = b, !.alone = 0]
    <3>1. (~Committed) \in BOOLEAN
      BY Zenon
    <3>2. QED
      BY <2>2, <3>1 DEF SafetyStop
  <2>3. ASSUME NEW c, Receive(c) PROVE \E b \in BOOLEAN : seen' = [seen EXCEPT !.fed = TRUE, !.halted = b]
    <3>1. (seen.halted /\ c # "start") \in BOOLEAN
      BY Zenon
    <3>2. QED
      BY <2>3, <3>1 DEF Receive
  <2>4. ASSUME Tick PROVE \E b \in BOOLEAN : \E n : seen' = [seen EXCEPT !.fed = b, !.alone = n]
    <3>1. (seen.fed /\ ~Free("watchdog")) \in BOOLEAN
      BY Zenon
    <3>2. QED
      BY <2>4, <3>1 DEF Tick
  <2>5. ASSUME Apply PROVE \E b \in BOOLEAN : seen' = [seen EXCEPT !.stale = b]
    <3>1. (seen.stale \/ (sys.calibrating /\ result["taken"] = "stale")) \in BOOLEAN
      BY Zenon
    <3>2. QED
      BY <2>5, <3>1 DEF Apply
  <2>6. ASSUME TryTest PROVE seen' = [seen EXCEPT !.crossed = TRUE]
    <3> DEFINE d == seen.crossed \/ Stopping
    <3>1. seen' = [seen EXCEPT !.crossed = d]
      BY <2>6 DEF TryTest
    <3>2. d \in BOOLEAN /\ d
      BY Zenon
    <3> HIDE DEF d
    <3>3. d = TRUE
      BY <3>2
    <3>4. QED
      BY <3>1, <3>3
  <2>7. ASSUME ReadArmed PROVE seen' = [seen EXCEPT !.crossed = TRUE]
    <3> DEFINE d == seen.crossed \/ ((Watched /\ link.over /\ ~link.tripped) /\ Opening)
    <3>1. seen' = [seen EXCEPT !.crossed = d]
      BY <2>7 DEF ReadArmed
    <3>2. d \in BOOLEAN /\ d
      BY Zenon
    <3> HIDE DEF d
    <3>3. d = TRUE
      BY <3>2
    <3>4. QED
      BY <3>1, <3>3
  <2>8. ASSUME NEW p \in Processes, HandlerOf(p)
        PROVE  \/ seen' = seen \/ ClearActive(p) \/ TryTest \/ ReadArmed \/ Apply
    BY <2>8 DEF HandlerOf, SharedStep, Lock, Untouched, TakeMode, StopTimer, Abort, TestModeOff,
         SetActive, FireOpens, CommandStep, SeeFault, ClearFault, Cancel, Arm, Calibrate, Forget, Lead,
         CheckTest, Fire, Runs, StartTimer, ReadLast, SetFault, PhotocellStores
  <2>9. ASSUME World PROVE seen' = seen
    BY <2>9 DEF World, HandOver, TakePending, GunCloses
  <2>10. ASSUME NEW i \in Inputs, Input(i)
         PROVE  \/ seen' = seen \/ seen' = [seen EXCEPT !.fed = TRUE]
                \/ SafetyStop \/ Tick \/ \E c \in DOMAIN Command : Receive(c)
    BY <2>10 DEF Input, ReceiveTest, Deadline, TickDot, Ping, FaultIsr, Untouched, LeadingEdge,
         FallingEdge, SheetFires
  <2>11. QED
    BY <2>1, <2>2, <2>3, <2>4, <2>5, <2>6, <2>7, <2>8, <2>9, <2>10 DEF Next, Handler
<1>2. seen \in Ghosts
  BY DEF DataOK
<1>3. CASE seen' = [seen EXCEPT !.crossed = TRUE]
  BY <1>2, <1>3 DEF Ghosts
<1>4. CASE seen' = seen
  BY <1>4
<1>5. CASE seen' = [seen EXCEPT !.halted = b, !.alone = 0]
  BY <1>5
<1>6. CASE seen' = [seen EXCEPT !.fed = TRUE, !.halted = b]
  BY <1>6
<1>7. CASE seen' = [seen EXCEPT !.fed = TRUE]
  BY <1>7
<1>8. CASE seen' = [seen EXCEPT !.fed = b, !.alone = n]
  BY <1>8
<1>9. CASE seen' = [seen EXCEPT !.stale = b]
  BY <1>9
<1>10. QED
  BY <1>1, <1>3, <1>4, <1>5, <1>6, <1>7, <1>8, <1>9

LEMMA TestStep ==
    ASSUME ShapeInv, ModeInv, KindInv, DataOK, TestInv, Next
    PROVE  TestInv'
<1>1. SUFFICES ASSUME ~seen'.crossed, NEW k \in Guns
               PROVE  TestOf(k)'
  BY DEF TestInv
<1>2. TestOf(k)
  BY <1>1, CrossedStays DEF TestInv
<1>3. QED
  BY <1>1, <1>2, TestHandler, TestInput, TestWorld DEF Next, Handler

----------------------------------------------------------------------------
(* The invariant, and what it says.                                        *)

LEMMA MachineStarts == Init => MachineInv
<1> SUFFICES ASSUME Init PROVE MachineInv
  OBVIOUS
<1>1. \A p \in Processes : Left(p) = {} /\ todo[p] = <<>>
  BY NoCalls DEF Init, Left
<1>2. TodoOK
  <2>1. todo \in [Processes -> Seq(Calls)]
    BY NoCalls DEF Init
  <2>2. QED
    BY <1>1, <2>1, NoCalls DEF TodoOK
<1>3. DataOK
  <2>1. sys \in Systems /\ testMode \in BOOLEAN /\ test \in [Guns -> Tests]
    BY DEF Init, Systems, Tests
  <2>2. link \in Links
    <3>1. 0 \in 0 .. Timeout + 2 /\ 0 \in 0 .. 1
      BY MachineAssumption
    <3>2. QED
      BY <3>1 DEF Init, Links
  <2>3. seen \in Ghosts
    <3>1. 0 \in 0 .. 3
      OBVIOUS
    <3>2. QED
      BY <3>1 DEF Init, Ghosts
  <2>4. QED
    BY <2>1, <2>2, <2>3 DEF Init, DataOK
<1>4. TypeOK
  BY <1>2, <1>3, TypesAgree
<1>5. ShapeInv
  BY <1>1, <1>2, ProcessNames
     DEF ShapeInv, Pairs, CommandPairs, KindPairs, WatchdogPairs, SensorPairs, ServicePairs, LockInv,
         Holding
<1>6. ModeInv /\ HaltInv /\ KindInv
  <2>1. ~sys.active /\ ~sys.calibrating /\ ~seen.halted /\ \A g \in Guns : test[g].mode = "None"
    BY DEF Init
  <2>2. QED
    BY <1>1, <2>1, ProcessNames DEF ModeInv, HaltInv, KindInv
<1>7. TestInv
  <2>1. \A g \in Guns : test[g].mode = "None" /\ ~test[g].deadline /\ gun[g] = "shut"
    BY DEF Init
  <2>2. QED
    BY <1>1, <2>1, ProcessNames DEF TestInv, TestOf, OpenOf, DeadlineOf, ClosedOf
<1>8. CalibInv /\ QuietInv
  <2>1. ~sys.calibrating /\ photo = "Idle" /\ link.lag = 0
    BY DEF Init
  <2>2. QED
    BY <1>1, <2>1, ProcessNames DEF CalibInv, QuietInv
<1>9. QED
  BY <1>4, <1>5, <1>6, <1>7, <1>8 DEF MachineInv

LEMMA MachineSteps == MachineInv /\ [Next]_vars => MachineInv'
<1> SUFFICES ASSUME MachineInv, [Next]_vars PROVE MachineInv'
  OBVIOUS
<1>1. /\ ShapeInv /\ ModeInv /\ HaltInv /\ KindInv /\ TestInv /\ CalibInv /\ QuietInv
      /\ DataOK /\ TodoOK /\ ~(sys.active /\ sys.calibrating)
  BY TypesAgree DEF MachineInv, ShapeInv, ModeInv
<1>2. CASE Next
  <2>1. ShapeInv'
    BY <1>1, <1>2, ShapeStep
  <2>2. DataOK'
    BY <1>1, <1>2, HandlerTypes, WorldTypes, InputTypes DEF Next, Handler
  <2>3. TypeOK'
    BY <2>1, <2>2, TypesAgree, PTL DEF ShapeInv
  <2>4. ModeInv' /\ KindInv' /\ HaltInv'
    BY <1>1, <1>2, ModeStep, KindStep, HaltStep
  <2>5. TestInv' /\ CalibInv' /\ QuietInv'
    BY <1>1, <1>2, TestStep, CalibStep, QuietStep
  <2>6. QED
    BY <2>1, <2>3, <2>4, <2>5 DEF MachineInv
<1>3. CASE UNCHANGED vars
  <2>1. ShapeInv' /\ \A q \in Processes : Left(q)' = Left(q)
    BY <1>1, <1>3, ShapeStays
  <2>2. /\ sys' = sys /\ testMode' = testMode /\ test' = test /\ gun' = gun /\ photo' = photo
        /\ result' = result /\ resume' = resume /\ link' = link /\ todo' = todo /\ seen' = seen
    BY <1>3 DEF vars
  <2>3. TypeOK'
    BY <2>2 DEF MachineInv, TypeOK
  <2>4. {"command", "service", "watchdog", "photocell"} \cup Editors \cup Stoppers \subseteq Processes
    BY ProcessNames
  <2>5. ModeInv'
    BY <1>1, <2>1, <2>2, <2>4 DEF ModeInv, Call
  <2>6. HaltInv' /\ KindInv'
    BY <1>1, <2>1, <2>2, <2>4 DEF HaltInv, KindInv, Call
  <2>7. TestInv'
    <3>1. SUFFICES ASSUME ~seen'.crossed, NEW k \in Guns PROVE TestOf(k)'
      BY DEF TestInv
    <3>2. TestOf(k) /\ CallsStay(k) /\ TestStays(k)
      BY <1>1, <2>1, <2>2, <2>4, <3>1 DEF TestInv, CallsStay, TestStays
    <3>3. QED
      BY <2>2, <3>2, TestFrame
  <2>8. CalibInv'
    BY <1>1, <2>1, <2>2, <2>4, CalibFrame
  <2>9. QuietInv'
    BY <1>1, <2>1, <2>2, <2>4, QuietFrame
  <2>10. QED
    BY <2>1, <2>3, <2>5, <2>6, <2>7, <2>8, <2>9 DEF MachineInv
<1>4. QED
  BY <1>2, <1>3

\* In every state the calls left come in their order, and the modes, the stops, the gun
\* tests, the results of calibration and the watchdog's locals agree with them.
THEOREM MachineInvariant == Spec => []MachineInv
<1>1. QED
  BY MachineStarts, MachineSteps, PTL DEF Spec

\* Every variable keeps its type, and every handler makes calls that exist.
THEOREM MachineTypeCorrect == Spec => []TypeOK
<1>1. MachineInv => TypeOK
  BY DEF MachineInv
<1>2. QED
  BY <1>1, MachineInvariant, PTL

\* Production, calibration and gun tests exclude each other in every order of commands,
\* late results and stops.
THEOREM ModesCorrect == Spec => []ModesExclude
<1>1. MachineInv => ModesExclude
  <2> SUFFICES ASSUME MachineInv PROVE ModesExclude
    OBVIOUS
  <2>1. /\ ~(sys.active /\ sys.calibrating)
        /\ \A g \in Guns : sys.active \/ sys.calibrating => test[g].mode = "None"
    BY DEF MachineInv, ModeInv
  <2>2. ASSUME NEW g \in Guns, sys.active, gun[g] = "test", ~seen.crossed
        PROVE  Stopping
    <3>1. Call("abortAll") \in Left("watchdog")
      BY <2>2 DEF MachineInv, TestInv, TestOf, ClosedOf
    <3>2. QED
      BY <3>1, ComingFacts DEF Stopping
  <2>3. QED
    BY <2>1, <2>2 DEF ModesExclude
<1>2. QED
  BY <1>1, MachineInvariant, PTL

\* A running test has its deadline, unless the watchdog stopped the test before it while
\* it was being opened (startOne, doStop).
THEOREM DeadlinesCorrect == Spec => []TestHasDeadline
<1>1. MachineInv => TestHasDeadline
  <2> SUFFICES ASSUME MachineInv, NEW g \in Guns, test[g].mode # "None", ~test[g].deadline,
                      ~seen.crossed
               PROVE  Opening
    BY DEF TestHasDeadline
  <2>1. <<"startDeadline", g>> \in Left("command")
    BY DEF MachineInv, TestInv, TestOf, DeadlineOf
  <2>2. QED
    BY <2>1 DEF Left, Elems, Opening, Coming
<1>2. QED
  BY <1>1, MachineInvariant, PTL

\* A stop holds until a start that is received after it.
THEOREM StopsCorrect == Spec => []StopsHold
<1>1. MachineInv => StopsHold
  BY DEF MachineInv, HaltInv, StopsHold
<1>2. QED
  BY <1>1, MachineInvariant, PTL

\* No sheet of production is taken for one of calibration before a result of an
\* earlier arming was applied to a later one.
THEOREM SheetsCorrect == Spec => []NoSheetSwallowed
<1>1. MachineInv => NoSheetSwallowed
  BY DEF MachineInv, ModeInv, CalibInv, NoSheetSwallowed
<1>2. QED
  BY <1>1, MachineInvariant, PTL

\* Calibration never waits for nothing (onCalibArm, onPhotocellEdge, finishCalibration,
\* service()).
THEOREM CalibrationCorrect == Spec => []CalibrationGoesOn
<1>1. MachineInv => CalibrationGoesOn
  <2> SUFFICES ASSUME MachineInv, sys.calibrating, photo = "Idle",
                      \A pl \in Places : result[pl] = "none"
               PROVE  Coming("command", {"lead"})
    BY DEF CalibrationGoesOn
  <2>1. Call("lead") \in Left("command")
    BY DEF MachineInv, CalibInv
  <2>2. QED
    BY <2>1, ComingFacts
<1>2. QED
  BY <1>1, MachineInvariant, PTL

\* The watchdog trips after TIMEOUT_MS of silence only, or on a command that came while
\* it was between its two readings (wdTask).
THEOREM TripsCorrect == Spec => TripsOnSilence
<1>1. MachineInv /\ [Next]_vars => [~link.tripped /\ link'.tripped => link.quiet > Timeout \/ seen.fed]_vars
  <2> SUFFICES ASSUME MachineInv, Next, ~link.tripped, link'.tripped
               PROVE  link.quiet > Timeout \/ seen.fed
    OBVIOUS
  <2>1. TodoOK /\ DataOK /\ ShapeInv /\ QuietInv
    BY TypesAgree DEF MachineInv, ShapeInv
  <2>2. CASE ReadArmed
    <3>1. At("watchdog", "readArmed") /\ "watchdog" \in Processes
      BY <2>2, ProcessNames DEF ReadArmed
    <3>2. /\ Call("readArmed") \in Left("watchdog") /\ Call("readLast") \notin Left("watchdog")
      <4>1. "readArmed" \notin GunOps /\ Follow("readArmed") = {} /\ \A x : Call(x)[1] = x
        BY FollowFacts, ProcessNames DEF GunOps
      <4>2. Left("watchdog") = {Call("readArmed")}
        BY <2>1, <3>1, <4>1, AtHead
      <4>3. QED
        BY <4>1, <4>2
    <3>3. link.over
      <4> DEFINE b == link.over /\ (link.tripped \/ Watched)
      <4>1. link' = [link EXCEPT !.tripped = b] /\ (b => link.over)
        BY <2>2 DEF ReadArmed
      <4> HIDE DEF b
      <4>2. link'.tripped = b
        BY <2>1, <4>1 DEF DataOK, Links
      <4>3. QED
        BY <4>1, <4>2
    <3>4. QED
      BY <2>1, <3>2, <3>3 DEF QuietInv
  <2>3. CASE ~ReadArmed
    <3>1. link'.tripped <=> link.tripped
      <4>1. PICK b, m, n : \/ link' = link
                           \/ link' = [link EXCEPT !.quiet = 0]
                           \/ link' = [link EXCEPT !.quiet = m, !.lag = n]
                           \/ link' = [link EXCEPT !.over = b]
        <5>1. ASSUME NEW p \in Processes, HandlerOf(p)
              PROVE  link' = link \/ \E b : link' = [link EXCEPT !.over = b]
          BY <2>3, <5>1 DEF HandlerOf, SharedStep, Lock, Untouched, TakeMode, StopTimer, Abort,
             TestModeOff, ClearActive, SetActive, FireOpens, CommandStep, SeeFault, ClearFault,
             Cancel, Arm, Calibrate, Forget, Lead, CheckTest, TryTest, Fire, Runs, StartTimer,
             ReadLast, SetFault, PhotocellStores, Apply
        <5>2. ASSUME World PROVE link' = link
          BY <5>2 DEF World, HandOver, TakePending, GunCloses
        <5>3. ASSUME NEW i \in Inputs, Input(i)
              PROVE  \/ link' = link \/ link' = [link EXCEPT !.quiet = 0]
                     \/ \E m, n : link' = [link EXCEPT !.quiet = m, !.lag = n]
          BY <5>3 DEF Input, Receive, Fed, ReceiveTest, Deadline, TickDot, Ping, Tick, FaultIsr,
             Untouched, SafetyStop, LeadingEdge, FallingEdge, SheetFires
        <5>4. QED
          BY <5>1, <5>2, <5>3 DEF Next, Handler
      <4>2. CASE link' = link
        BY <4>2
      <4>3. CASE link' = [link EXCEPT !.quiet = 0]
        BY <4>3
      <4>4. CASE link' = [link EXCEPT !.quiet = m, !.lag = n]
        BY <4>4
      <4>5. CASE link' = [link EXCEPT !.over = b]
        BY <4>5
      <4>6. QED
        BY <4>1, <4>2, <4>3, <4>4, <4>5
    <3>2. QED
      BY <3>1
  <2>4. QED
    BY <2>2, <2>3
<1>2. QED
  BY <1>1, MachineInvariant, PTL DEF Spec, TripsOnSilence

----------------------------------------------------------------------------
(* Out of contact the machine is stopped within two passes.                *)
(*                                                                         *)
(* Once the silence has lasted TIMEOUT_MS no command is under way, so that *)
(* only service() may start the machine, at the end of a calibration.  A   *)
(* pass of the watchdog that reads the clock after that stops the machine, *)
(* unless the watchdog has tripped already: then nothing is left that      *)
(* would start it.                                                         *)

\* The silence that the pass in progress, or the last one, has read.
Silence == link.quiet - link.lag

IdleInv == link.quiet > Timeout => Left("command") = {}

RestoreInv ==
    Call("setActive") \in Left("service") => ~sys.active /\ \A g \in Guns : test[g].mode = "None"

\* The watchdog works up to its decision, or up to the end of its stop.
DecideInv ==
    Left("watchdog") # {} =>
        Call("readArmed") \in Left("watchdog") \/ Call("clearActive") \in Left("watchdog")

\* What a pass that began after the last command has read.
PassInv ==
    /\ Call("readLast") \notin Left("watchdog") /\ Silence >= 1 => (link.over <=> Silence > Timeout)
    /\ Call("readArmed") \notin Left("watchdog") /\ link.tripped => link.over

TripInv ==
    Silence > Timeout /\ link.tripped =>
        /\ ~sys.calibrating /\ Call("setActive") \notin Left("service")
        /\ sys.active => Call("clearActive") \in Left("watchdog")

AloneInv ==
    /\ seen.alone <= 2 /\ (seen.alone >= 1 => sys.active)
    /\ seen.alone >= 1 /\ link.quiet > Timeout =>
          /\ link.quiet = Timeout + 2 /\ Left("watchdog") # {}
          /\ seen.alone = 2 => link.lag = 1

UnattendedInv == IdleInv /\ RestoreInv /\ DecideInv /\ PassInv /\ TripInv /\ AloneInv

LEMMA FreeIsEmpty ==
    ASSUME TodoOK, NEW p \in Processes
    PROVE  Free(p) <=> Left(p) = {}
<1>1. CASE Free(p)
  BY <1>1, NoCalls DEF Free, Left
<1>2. CASE ~Free(p)
  BY <1>2, RestFacts
<1>3. QED
  BY <1>1, <1>2

\* A step of a handler changes the calls of its process only.
LEMMA OneActor ==
    ASSUME TodoOK, NEW p \in Processes, HandlerOf(p)
    PROVE  /\ Left(p) # {}
           /\ \A q \in Processes : q # p => Left(q)' = Left(q)
<1>1. ~Free(p) /\ \E s : todo' = [todo EXCEPT ![p] = s]
  <2>1. ASSUME NEW q, NEW o, At(q, o) PROVE ~Free(q)
    BY <2>1 DEF At
  <2>2. ASSUME NEW q, NEW calls, Made(q, calls) PROVE \E s : todo' = [todo EXCEPT ![q] = s]
    BY <2>2 DEF Made
  <2>3. CASE SharedStep(p)
    <3>1. \E o : At(p, o)
      BY <2>3 DEF SharedStep, Lock, TakeMode, StopTimer, Abort, TestModeOff, ClearActive, SetActive,
         FireOpens
    <3>2. \E calls : Made(p, calls)
      BY <2>3 DEF SharedStep, Lock, TakeMode, StopTimer, Abort, TestModeOff, ClearActive, SetActive,
         FireOpens
    <3>3. QED
      BY <2>1, <2>2, <3>1, <3>2
  <2>4. CASE p = "command" /\ CommandStep
    <3>1. \E o : At("command", o)
      BY <2>4 DEF CommandStep, SeeFault, ClearFault, Cancel, Arm, Calibrate, Forget, Lead, CheckTest,
         TryTest, Fire, Runs, StartTimer
    <3>2. (\E calls : Made("command", calls)) \/ Return("command")
      BY <2>4 DEF CommandStep, SeeFault, ClearFault, Cancel, Leave, Arm, Calibrate, Forget, Lead,
         CheckTest, TryTest, Fire, FireBegin, Runs, StartTimer
    <3>3. QED
      BY <2>1, <2>2, <2>4, <3>1, <3>2 DEF Return
  <2>5. CASE /\ p # "command"
             /\ (p = "watchdog" /\ (ReadLast \/ ReadArmed)) \/ (p = "fault" /\ SetFault)
                  \/ (p = "photocell" /\ PhotocellStores) \/ (p = "service" /\ Apply)
    <3>1. \E o : At(p, o)
      BY <2>5 DEF ReadLast, ReadArmed, SetFault, PhotocellStores, Apply
    <3>2. \E calls : Made(p, calls)
      BY <2>5 DEF ReadLast, ReadArmed, SetFault, PhotocellStores, Apply, Leave
    <3>3. QED
      BY <2>1, <2>2, <3>1, <3>2
  <2>6. QED
    BY <2>3, <2>4, <2>5 DEF HandlerOf
<1>2. PICK s : todo' = [todo EXCEPT ![p] = s]
  BY <1>1
<1>3. \A q \in Processes : q # p => todo'[q] = todo[q]
  BY <1>2 DEF TodoOK
<1>4. \A q \in Processes : q # p => Left(q)' = Left(q)
  BY <1>3 DEF Left
<1>5. QED
  BY <1>1, <1>4, FreeIsEmpty

\* What a handler changes of the switch of the machine and of the time it ran alone.
LEMMA HandlerSwitch ==
    ASSUME DataOK, NEW p \in Processes, HandlerOf(p)
    PROVE  \/ ClearActive(p) /\ ~sys'.active /\ seen'.alone = 0
           \/ SetActive(p) /\ sys'.active /\ seen'.alone = seen.alone
           \/ (sys'.active <=> sys.active) /\ seen'.alone = seen.alone
<1>1. CASE ClearActive(p)
  <2> DEFINE b == ~Committed
  <2>1. seen' = [seen EXCEPT !.halted = b, !.alone = 0] /\ sys' = [sys EXCEPT !.active = FALSE]
    BY <1>1 DEF ClearActive
  <2> HIDE DEF b
  <2>2. QED
    BY <1>1, <2>1 DEF DataOK, Systems, Ghosts
<1>2. CASE SetActive(p)
  BY <1>2 DEF SetActive, DataOK, Systems
<1>3. CASE ~ClearActive(p) /\ ~SetActive(p)
  <2>1. \/ seen' = seen
        \/ \E b : seen' = [seen EXCEPT !.crossed = b]
        \/ \E b : seen' = [seen EXCEPT !.stale = b]
    BY <1>3 DEF HandlerOf, SharedStep, Lock, Untouched, TakeMode, StopTimer, Abort, TestModeOff,
       FireOpens, CommandStep, SeeFault, ClearFault, Cancel, Arm, Calibrate, Forget, Lead, CheckTest,
       TryTest, Fire, Runs, StartTimer, ReadLast, ReadArmed, SetFault, PhotocellStores, Apply
  <2>2. \/ sys' = sys
        \/ \E b : sys' = [sys EXCEPT !.fault = b]
        \/ \E b : sys' = [sys EXCEPT !.calibrating = b]
    BY <1>3 DEF HandlerOf, SharedStep, Lock, Untouched, TakeMode, StopTimer, Abort, TestModeOff,
       FireOpens, CommandStep, SeeFault, ClearFault, Cancel, Leave, Arm, Calibrate, Forget, Lead,
       CheckTest, TryTest, Fire, Runs, StartTimer, ReadLast, ReadArmed, SetFault, PhotocellStores, Apply
  <2>3. seen'.alone = seen.alone
    <3>1. ASSUME NEW b, seen' = [seen EXCEPT !.crossed = b] PROVE seen'.alone = seen.alone
      BY <3>1
    <3>2. ASSUME NEW b, seen' = [seen EXCEPT !.stale = b] PROVE seen'.alone = seen.alone
      BY <3>2
    <3>3. QED
      BY <2>1, <3>1, <3>2
  <2>4. sys'.active <=> sys.active
    <3>1. ASSUME NEW b, sys' = [sys EXCEPT !.fault = b] PROVE sys'.active = sys.active
      BY <3>1
    <3>2. ASSUME NEW b, sys' = [sys EXCEPT !.calibrating = b] PROVE sys'.active = sys.active
      BY <3>2
    <3>3. QED
      BY <2>2, <3>1, <3>2
  <2>5. QED
    BY <2>3, <2>4
<1>4. QED
  BY <1>1, <1>2, <1>3

\* The calls any process makes read no clock, begin no calibration and no test.
LEMMA SharedKeeps ==
    ASSUME DataOK, TodoOK, NEW p \in Processes, SharedStep(p)
    PROVE  /\ link' = link /\ (sys'.calibrating <=> sys.calibrating)
           /\ \A g \in Guns : test[g].mode = "None" => test'[g].mode = "None"
<1>1. link' = link
  BY DEF SharedStep, Lock, Untouched, TakeMode, StopTimer, Abort, TestModeOff, ClearActive, SetActive,
     FireOpens
<1>2. sys'.calibrating <=> sys.calibrating
  <2>1. sys' = sys \/ \E b \in BOOLEAN : sys' = [sys EXCEPT !.active = b]
    BY DEF SharedStep, Lock, Untouched, TakeMode, StopTimer, Abort, TestModeOff, ClearActive,
       SetActive, FireOpens
  <2>2. QED
    BY <2>1 DEF DataOK, Systems
<1>3. ASSUME NEW g \in Guns, test[g].mode = "None" PROVE test'[g].mode = "None"
  <2>1. CASE test' = test
    BY <1>3, <2>1
  <2>2. CASE TakeMode(p)
    <3>1. test' = [test EXCEPT ![GunOf(p)].mode = "None"] /\ GunOf(p) \in Guns
      BY <2>2, AtFacts DEF TakeMode, GunOps
    <3>2. QED
      BY <1>3, <3>1 DEF DataOK, Tests
  <2>3. CASE StopTimer(p)
    <3>1. GunOf(p) \in Guns
      BY <2>3, AtFacts DEF StopTimer, GunOps
    <3>2. CASE test' = [test EXCEPT ![GunOf(p)].tick = FALSE]
      BY <1>3, <3>1, <3>2 DEF DataOK, Tests
    <3>3. CASE test' = [test EXCEPT ![GunOf(p)].deadline = FALSE]
      BY <1>3, <3>1, <3>3 DEF DataOK, Tests
    <3>4. QED
      BY <2>3, <3>2, <3>3 DEF StopTimer
  <2>4. QED
    BY <2>1, <2>2, <2>3 DEF SharedStep, Lock, Untouched, Abort, TestModeOff, ClearActive, SetActive,
       FireOpens
<1>4. QED
  BY <1>1, <1>2, <1>3

\* Whatever neither touches the watchdog nor starts anything.
LEMMA UnattendedFrame ==
    ASSUME UnattendedInv, link' = link,
           Left("command") = {} => Left("command")' = {},
           Call("setActive") \in Left("service")' => Call("setActive") \in Left("service"),
           sys'.calibrating => sys.calibrating,
           \A g \in Guns : test[g].mode = "None" => test'[g].mode = "None",
           Left("watchdog")' = {} <=> Left("watchdog") = {},
           \A x \in {"readLast", "readArmed"} :
               Call(x) \in Left("watchdog")' <=> Call(x) \in Left("watchdog"),
           Call("clearActive") \in Left("watchdog") => Call("clearActive") \in Left("watchdog")',
           \/ (sys'.active <=> sys.active) /\ seen'.alone = seen.alone
           \/ ~sys'.active /\ seen'.alone = 0
    PROVE  UnattendedInv'
<1>1. IdleInv' /\ RestoreInv'
  BY DEF UnattendedInv, IdleInv, RestoreInv, Call
<1>2. DecideInv' /\ PassInv'
  BY DEF UnattendedInv, DecideInv, PassInv, Silence, Call
<1>3. TripInv'
  BY DEF UnattendedInv, TripInv, Silence, Call
<1>4. AloneInv'
  BY DEF UnattendedInv, AloneInv
<1>5. QED
  BY <1>1, <1>2, <1>3, <1>4 DEF UnattendedInv

\* A command ends its silence, and so finds nothing to keep but what service() has left.
LEMMA UnattendedCommand ==
    ASSUME ShapeInv, DataOK, UnattendedInv, HandlerOf("command")
    PROVE  UnattendedInv'
<1>0. "command" \in Processes /\ "service" \in Processes /\ "watchdog" \in Processes /\ TodoOK
  BY ProcessNames DEF ShapeInv
<1>1. /\ Left("command") # {} /\ ~(link.quiet > Timeout)
      /\ Left("service")' = Left("service") /\ Left("watchdog")' = Left("watchdog")
  BY <1>0, OneActor DEF UnattendedInv, IdleInv
<1>2. link.quiet \in Nat /\ link.lag \in 0 .. 1 /\ Timeout \in Nat
  BY MachineAssumption DEF DataOK, Links
<1>3. link' = link
  BY DEF HandlerOf, SharedStep, Lock, Untouched, TakeMode, StopTimer, Abort, TestModeOff, ClearActive,
     SetActive, FireOpens, CommandStep, SeeFault, ClearFault, Cancel, Arm, Calibrate, Forget, Lead,
     CheckTest, TryTest, Fire, Runs, StartTimer
<1>4. IdleInv' /\ DecideInv' /\ PassInv' /\ TripInv'
  <2>1. ~(Silence > Timeout)
    BY <1>1, <1>2 DEF Silence
  <2>2. ~(Silence' > Timeout) /\ IdleInv'
    BY <1>1, <1>3, <2>1 DEF Silence, IdleInv
  <2>3. QED
    BY <1>1, <1>3, <2>2 DEF UnattendedInv, DecideInv, PassInv, TripInv, Silence, Call
<1>5. AloneInv'
  BY <1>0, <1>1, <1>3, HandlerSwitch DEF UnattendedInv, AloneInv
<1>6. RestoreInv'
  <2>1. SUFFICES ASSUME Call("setActive") \in Left("service")
                 PROVE  ~sys'.active /\ \A g \in Guns : test'[g].mode = "None"
    BY <1>1 DEF RestoreInv, Call
  <2>2. Holding("service")
    BY <2>1, ProcessNames DEF ShapeInv, Pairs, ServicePairs, Holding
  <2>3. \A o : At("command", o) => o = "lock"
    BY <1>0, <2>2, AtHead DEF ShapeInv, LockInv
  <2>4. Lock("command")
    BY <2>3 DEF HandlerOf, SharedStep, TakeMode, StopTimer, Abort, TestModeOff, ClearActive, SetActive,
       FireOpens, CommandStep, SeeFault, ClearFault, Cancel, Arm, Calibrate, Forget, Lead, CheckTest,
       TryTest, Fire, Runs, StartTimer
  <2>5. sys' = sys /\ test' = test
    BY <2>4 DEF Lock, Untouched
  <2>6. QED
    BY <2>1, <2>5 DEF UnattendedInv, RestoreInv
<1>7. QED
  BY <1>4, <1>5, <1>6 DEF UnattendedInv

\* service() starts the machine again: it was stopped, and the watchdog has not tripped.
LEMMA UnattendedSetActive ==
    ASSUME ShapeInv, DataOK, UnattendedInv, SetActive("service")
    PROVE  UnattendedInv'
<1>0. "service" \in Processes /\ "watchdog" \in Processes /\ "command" \in Processes /\ TodoOK
  BY ProcessNames DEF ShapeInv
<1>1. /\ link' = link /\ seen' = seen /\ test' = test /\ At("service", "setActive")
      /\ sys' = [sys EXCEPT !.active = TRUE] /\ Made("service", <<>>)
  BY DEF SetActive
<1>2. Popped("service", "setActive") /\ Call("setActive") \in Left("service")
  <2>1. Popped("service", "setActive")
    BY <1>0, <1>1, PopStep
  <2>2. <<"setActive", GunOf("service")>> = Call("setActive")
    BY <1>0, <1>1, AtHead DEF GunOps
  <2>3. QED
    BY <2>1, <2>2 DEF Popped
<1>3. /\ Left("service")' = {} /\ Left("watchdog")' = Left("watchdog")
      /\ Left("command")' = Left("command")
  BY <1>0, <1>2, FollowFacts DEF Popped
<1>4. sys'.active /\ (sys'.calibrating <=> sys.calibrating)
  BY <1>1 DEF DataOK, Systems
<1>5. IdleInv' /\ RestoreInv' /\ DecideInv' /\ PassInv'
  BY <1>1, <1>3 DEF UnattendedInv, IdleInv, RestoreInv, DecideInv, PassInv, Silence, Call
<1>6. TripInv'
  BY <1>1, <1>2, <1>3 DEF UnattendedInv, TripInv, Silence
<1>7. AloneInv'
  <2>1. ~sys.active
    BY <1>2 DEF UnattendedInv, RestoreInv
  <2>2. QED
    BY <1>1, <1>4, <2>1 DEF UnattendedInv, AloneInv
<1>8. QED
  BY <1>5, <1>6, <1>7 DEF UnattendedInv

\* service() is about to start the machine again: the calibration had stopped it.
LEMMA UnattendedApply ==
    ASSUME ShapeInv, ModeInv, DataOK, UnattendedInv, Apply
    PROVE  UnattendedInv'
<1>0. "service" \in Processes /\ "watchdog" \in Processes /\ "command" \in Processes /\ TodoOK
  BY ProcessNames DEF ShapeInv
<1>1. /\ link' = link /\ test' = test
      /\ Left("watchdog")' = Left("watchdog") /\ Left("command")' = Left("command")
  <2>1. HandlerOf("service")
    BY DEF HandlerOf
  <2>2. QED
    BY <1>0, <2>1, OneActor DEF Apply
<1>2. seen'.alone = seen.alone
  <2>1. PICK b : seen' = [seen EXCEPT !.stale = b]
    BY DEF Apply
  <2>2. QED
    BY <2>1
<1>3. CASE sys.calibrating
  <2>1. sys' = [sys EXCEPT !.calibrating = FALSE]
    BY <1>3 DEF Apply, Leave
  <2>2. /\ ~sys.active /\ ~sys'.active /\ ~sys'.calibrating
        /\ \A g \in Guns : test[g].mode = "None"
    BY <1>3, <2>1 DEF ModeInv, DataOK, Systems
  <2>3. IdleInv' /\ RestoreInv' /\ DecideInv' /\ PassInv'
    BY <1>1, <2>2 DEF UnattendedInv, IdleInv, RestoreInv, DecideInv, PassInv, Silence, Call
  <2>4. TripInv'
    BY <1>1, <1>3 DEF UnattendedInv, TripInv, Silence
  <2>5. AloneInv'
    BY <1>2, <2>2 DEF UnattendedInv, AloneInv
  <2>6. QED
    BY <2>3, <2>4, <2>5 DEF UnattendedInv
<1>4. CASE ~sys.calibrating
  <2>1. sys' = sys /\ At("service", "apply") /\ Made("service", <<>>)
    BY <1>4 DEF Apply
  <2>2. Popped("service", "apply")
    BY <1>0, <2>1, PopStep
  <2>3. Call("setActive") \in Left("service")' => Call("setActive") \in Left("service")
    BY <1>0, <2>2, PoppedLeft
  <2>4. QED
    BY <1>1, <1>2, <2>1, <2>3, UnattendedFrame
<1>5. QED
  BY <1>3, <1>4

LEMMA UnattendedOther ==
    ASSUME ShapeInv, ModeInv, DataOK, UnattendedInv, NEW p \in {"service", "fault", "timer", "photocell"},
           HandlerOf(p)
    PROVE  UnattendedInv'
<1>0. /\ p \in Processes /\ TodoOK /\ p # "command" /\ p # "watchdog"
      /\ "service" \in Processes /\ "watchdog" \in Processes /\ "command" \in Processes
  BY ProcessNames DEF ShapeInv
<1>1. /\ Left("watchdog")' = Left("watchdog") /\ Left("command")' = Left("command")
      /\ p # "service" => Left("service")' = Left("service")
  BY <1>0, OneActor
<1>2. CASE SharedStep(p) /\ ~SetActive(p)
  <2>1. Call("setActive") \in Left("service")' => Call("setActive") \in Left("service")
    BY <1>0, <1>2, SharedLeft
  <2>2. /\ link' = link /\ (sys'.calibrating <=> sys.calibrating)
        /\ \A g \in Guns : test[g].mode = "None" => test'[g].mode = "None"
    BY <1>0, <1>2, SharedKeeps
  <2>3. \/ (sys'.active <=> sys.active) /\ seen'.alone = seen.alone
        \/ ~sys'.active /\ seen'.alone = 0
    BY <1>0, <1>2, HandlerSwitch
  <2>4. QED
    BY <1>1, <2>1, <2>2, <2>3, UnattendedFrame
<1>3. CASE SetActive(p)
  <2>1. "setActive" \in OpsOf(p)
    BY <1>0, <1>3, AtFacts DEF SetActive
  <2>2. p = "service"
    BY <2>1 DEF OpsOf
  <2>3. QED
    BY <1>3, <2>2, UnattendedSetActive
<1>4. CASE p = "service" /\ Apply
  BY <1>4, UnattendedApply
<1>5. CASE (p = "fault" /\ SetFault) \/ (p = "photocell" /\ PhotocellStores)
  <2>1. /\ link' = link /\ test' = test /\ seen' = seen
        /\ sys' = sys \/ sys' = [sys EXCEPT !.fault = TRUE]
    BY <1>5 DEF SetFault, PhotocellStores
  <2>2. sys'.active = sys.active /\ sys'.calibrating = sys.calibrating
    <3>1. CASE sys' = sys
      BY <3>1
    <3>2. CASE sys' = [sys EXCEPT !.fault = TRUE]
      BY <3>2
    <3>3. QED
      BY <2>1, <3>1, <3>2
  <2>3. QED
    BY <1>1, <1>5, <2>1, <2>2, UnattendedFrame
<1>6. QED
  BY <1>0, <1>2, <1>3, <1>4, <1>5 DEF HandlerOf

\* The calls with which the watchdog stops the machine lead up to the last one.
LEMMA WatchdogLeft ==
    ASSUME ShapeInv, SharedStep("watchdog"), ~ClearActive("watchdog")
    PROVE  Call("clearActive") \in Left("watchdog") => Call("clearActive") \in Left("watchdog")'
<1>0. "watchdog" \in Processes /\ \A o : Call(o) = <<o, 0>>
  BY ProcessNames
<1>1. ASSUME NEW o \in {"lock", "takeMode", "stopTick", "stopDeadline", "abort", "abortAll",
                        "testModeOff", "setActive", "lineOpens", "dotOpens"},
             Popped("watchdog", o)
      PROVE  Call("clearActive") \in Left("watchdog") => Call("clearActive") \in Left("watchdog")'
  BY <1>0, <1>1, PoppedLeft
<1>2. CASE Lock("watchdog")
  BY <1>0, <1>1, <1>2, LockStep
<1>3. CASE TakeMode("watchdog")
  <2>1. CASE test[GunOf("watchdog")].mode = "None"
    <3>1. At("watchdog", "takeMode") /\ Made("watchdog", <<>>)
      BY <1>3, <2>1 DEF TakeMode
    <3>2. QED
      BY <1>0, <1>1, <3>1, PopStep
  <2>2. CASE test[GunOf("watchdog")].mode # "None"
    <3> DEFINE g == GunOf("watchdog")
    <3>1. PICK T : /\ Left("watchdog") = {<<"takeMode", g>>} \cup T
                   /\ Left("watchdog")' = {<<"stopTick", g>>, <<"stopDeadline", g>>, <<"abort", g>>} \cup T
      BY <1>0, <1>3, <2>2, TakeModeShape
    <3>2. Call("clearActive") # <<"takeMode", g>>
      BY <1>0
    <3>3. QED
      BY <3>1, <3>2, <1>0
  <2>3. QED
    BY <2>1, <2>2
<1>4. ASSUME NEW o \in {"stopTick", "stopDeadline", "abort", "abortAll", "testModeOff", "setActive"},
             At("watchdog", o), Made("watchdog", <<>>)
      PROVE  Call("clearActive") \in Left("watchdog") => Call("clearActive") \in Left("watchdog")'
  BY <1>0, <1>1, <1>4, PopStep
<1>5. CASE FireOpens("watchdog")
  <2>1. "lineOpens" \in OpsOf("watchdog") \/ "dotOpens" \in OpsOf("watchdog")
    BY <1>0, <1>5, AtFacts DEF FireOpens, ShapeInv
  <2>2. QED
    BY <2>1 DEF OpsOf, Stops
<1>6. QED
  BY <1>2, <1>3, <1>4, <1>5 DEF SharedStep, StopTimer, Abort, TestModeOff, SetActive

\* The watchdog stops the machine, call by call.
LEMMA UnattendedStop ==
    ASSUME ShapeInv, DataOK, UnattendedInv, SharedStep("watchdog")
    PROVE  UnattendedInv'
<1>0. /\ "service" \in Processes /\ "watchdog" \in Processes /\ "command" \in Processes /\ TodoOK
      /\ \A o : Call(o) = <<o, 0>>
  BY ProcessNames DEF ShapeInv
<1>1. HandlerOf("watchdog")
  BY DEF HandlerOf
<1>2. /\ Left("watchdog") # {} /\ Left("command")' = Left("command")
      /\ Left("service")' = Left("service")
  BY <1>0, <1>1, OneActor
<1>3. \A x \in {"readLast", "readArmed"} :
          Call(x) \in Left("watchdog")' <=> Call(x) \in Left("watchdog")
  BY <1>0, SharedLeft DEF Marks
<1>4. /\ link' = link /\ (sys'.calibrating <=> sys.calibrating)
      /\ \A g \in Guns : test[g].mode = "None" => test'[g].mode = "None"
  BY <1>0, SharedKeeps
<1>5. ~SetActive("watchdog")
  <2>1. SetActive("watchdog") => "setActive" \in OpsOf("watchdog")
    BY <1>0, AtFacts DEF SetActive
  <2>2. QED
    BY <2>1 DEF OpsOf, Stops
<1>6. CASE ClearActive("watchdog")
  <2>1. ~sys'.active /\ seen'.alone = 0
    BY <1>0, <1>1, <1>5, <1>6, HandlerSwitch DEF ClearActive, SetActive, At
  <2>2. Popped("watchdog", "clearActive")
    BY <1>0, <1>6, PopStep DEF ClearActive
  <2>3. Left("watchdog")' = {}
    <3>1. TodoOK'
      BY <1>0, <1>6, PopFacts DEF ClearActive
    <3>2. \A c \in Left("watchdog")' : c[1] \in OpsOf("watchdog")
      BY <1>0, <3>1 DEF TodoOK
    <3>3. \A c \in Left("watchdog")' : c[1] \in {"calibrate", "forget", "lead"}
      BY <2>2, FollowFacts DEF Popped
    <3>4. \A o \in {"calibrate", "forget", "lead"} : o \notin OpsOf("watchdog")
      BY DEF OpsOf, Stops
    <3>5. QED
      BY <3>2, <3>3, <3>4
  <2>4. IdleInv' /\ RestoreInv' /\ DecideInv'
    BY <1>2, <1>4, <2>1, <2>3 DEF UnattendedInv, IdleInv, RestoreInv, DecideInv, Call
  <2>5. PassInv'
    BY <1>3, <1>4 DEF UnattendedInv, PassInv, Silence, Call
  <2>6. TripInv' /\ AloneInv'
    BY <1>2, <1>4, <2>1 DEF UnattendedInv, TripInv, AloneInv, Silence, Call
  <2>7. QED
    BY <2>4, <2>5, <2>6 DEF UnattendedInv
<1>7. CASE ~ClearActive("watchdog")
  <2>1. (sys'.active <=> sys.active) /\ seen'.alone = seen.alone
    BY <1>0, <1>1, <1>5, <1>7, HandlerSwitch
  <2>2. Call("clearActive") \in Left("watchdog") => Call("clearActive") \in Left("watchdog")'
    BY <1>7, WatchdogLeft
  <2>3. Left("watchdog")' # {}
    BY <1>2, <1>3, <2>2 DEF UnattendedInv, DecideInv
  <2>4. QED
    BY <1>2, <1>3, <1>4, <2>1, <2>2, <2>3, UnattendedFrame
<1>8. QED
  BY <1>6, <1>7

\* The watchdog reads the time of the last command.
LEMMA UnattendedReadLast ==
    ASSUME ShapeInv, DataOK, UnattendedInv, ReadLast
    PROVE  UnattendedInv'
<1>0. /\ "service" \in Processes /\ "watchdog" \in Processes /\ "command" \in Processes /\ TodoOK
      /\ \A o : Call(o) = <<o, 0>>
  BY ProcessNames DEF ShapeInv
<1>1. /\ At("watchdog", "readLast") /\ Made("watchdog", <<>>)
      /\ sys' = sys /\ test' = test /\ seen' = seen
  BY DEF ReadLast
<1>2. /\ Left("watchdog") = {Call("readLast")} \cup Left("watchdog")'
      /\ \A c \in Left("watchdog")' : c[1] \in Follow("readLast")
      /\ Left("command")' = Left("command") /\ Left("service")' = Left("service")
  <2>1. Popped("watchdog", "readLast")
    BY <1>0, <1>1, PopStep
  <2>2. <<"readLast", GunOf("watchdog")>> = Call("readLast")
    BY <1>0, <1>1, AtHead DEF GunOps
  <2>3. QED
    BY <1>0, <2>1, <2>2 DEF Popped
<1>3. Follow("readLast") = {"readArmed"}
  BY DEF Follow, Stops
<1>4. /\ Call("readLast") \notin Left("watchdog")' /\ Call("clearActive") \notin Left("watchdog")
      /\ Call("readArmed") \in Left("watchdog")'
  BY <1>0, <1>2, <1>3 DEF UnattendedInv, DecideInv
<1> DEFINE b == Overdue
<1>5. link' = [link EXCEPT !.over = b]
  BY DEF ReadLast
<1>6. link.quiet \in Nat /\ link.lag \in 0 .. 1 /\ Timeout \in Nat
  BY MachineAssumption DEF DataOK, Links
<1>7. b \in BOOLEAN /\ (Silence >= 1 => (b <=> Silence > Timeout))
  BY <1>6 DEF Overdue, Silence
<1> HIDE DEF b
<1>8. /\ link'.quiet = link.quiet /\ link'.lag = link.lag /\ link'.tripped = link.tripped
      /\ link'.over = b
  BY <1>5 DEF DataOK, Links
<1>9. Silence' = Silence
  BY <1>8 DEF Silence
<1>10. IdleInv' /\ RestoreInv' /\ DecideInv'
  BY <1>1, <1>2, <1>4, <1>8 DEF UnattendedInv, IdleInv, RestoreInv, DecideInv, Call
<1>11. PassInv'
  BY <1>4, <1>7, <1>8, <1>9 DEF PassInv, Call
<1>12. TripInv'
  BY <1>1, <1>2, <1>4, <1>8, <1>9 DEF UnattendedInv, TripInv, Call
<1>13. AloneInv'
  BY <1>1, <1>4, <1>8 DEF UnattendedInv, AloneInv
<1>14. QED
  BY <1>10, <1>11, <1>12, <1>13 DEF UnattendedInv

\* The watchdog decides: the machine stops, or was stopped, or is in contact.
LEMMA UnattendedReadArmed ==
    ASSUME ShapeInv, ModeInv, DataOK, UnattendedInv, ReadArmed
    PROVE  UnattendedInv'
<1>0. /\ "service" \in Processes /\ "watchdog" \in Processes /\ "command" \in Processes /\ TodoOK
      /\ \A o : Call(o) = <<o, 0>>
  BY ProcessNames DEF ShapeInv
<1> DEFINE trips == Watched /\ link.over /\ ~link.tripped
           b == link.over /\ (link.tripped \/ Watched)
<1>1. /\ At("watchdog", "readArmed") /\ sys' = sys /\ test' = test
      /\ Made("watchdog", IF trips THEN StopAll ELSE <<>>)
      /\ link' = [link EXCEPT !.tripped = b]
  BY DEF ReadArmed
<1>2. seen'.alone = seen.alone
  <2>1. PICK c : seen' = [seen EXCEPT !.crossed = c]
    BY DEF ReadArmed
  <2>2. QED
    BY <2>1
<1>3. /\ Left("watchdog") = {Call("readArmed")}
      /\ Left("command")' = Left("command") /\ Left("service")' = Left("service")
  <2>1. Left("watchdog") = {Call("readArmed")}
    BY <1>0, <1>1, AtHead, FollowFacts DEF GunOps
  <2>2. HandlerOf("watchdog")
    BY DEF HandlerOf
  <2>3. QED
    BY <1>0, <2>1, <2>2, OneActor
<1>4. /\ trips => Call("clearActive") \in Left("watchdog")'
      /\ Call("readLast") \notin Left("watchdog")' /\ Call("readArmed") \notin Left("watchdog")'
      /\ Left("watchdog")' = {} \/ Call("clearActive") \in Left("watchdog")'
  <2>1. CASE trips
    <3>1. Made("watchdog", StopAll)
      BY <1>1, <2>1
    <3>2. Left("watchdog")' = StopCalls
      BY <1>1, <3>1, TripShape
    <3>3. QED
      BY <1>0, <3>2 DEF StopCalls, TakeAll
  <2>2. CASE ~trips
    <3>1. Made("watchdog", <<>>)
      BY <1>1, <2>2
    <3>2. Popped("watchdog", "readArmed")
      BY <1>0, <1>1, <3>1, PopStep
    <3>3. Left("watchdog")' = {}
      BY <3>2, FollowFacts DEF Popped
    <3>4. QED
      BY <2>2, <3>3
  <2>3. QED
    BY <2>1, <2>2
<1>5. /\ b => link.over
      /\ b /\ ~link.tripped => trips
      /\ link.over /\ sys.active /\ ~link.tripped => trips
      /\ b \in BOOLEAN
      /\ trips => sys.active \/ \E g \in Guns : test[g].mode # "None"
  BY DEF Watched, DataOK, Links
<1> HIDE DEF b, trips
<1>6. /\ link'.quiet = link.quiet /\ link'.lag = link.lag /\ link'.over = link.over
      /\ link'.tripped = b
  BY <1>1 DEF DataOK, Links
<1>7. Silence' = Silence
  BY <1>6 DEF Silence
<1>8. IdleInv' /\ RestoreInv' /\ DecideInv'
  BY <1>1, <1>3, <1>4, <1>6 DEF UnattendedInv, IdleInv, RestoreInv, DecideInv, Call
<1>9. PassInv'
  BY <1>0, <1>3, <1>4, <1>5, <1>6, <1>7 DEF UnattendedInv, PassInv, Call
<1>10. TripInv'
  <2>1. CASE link.tripped
    BY <1>0, <1>1, <1>3, <1>6, <1>7, <2>1 DEF UnattendedInv, TripInv, Call
  <2>2. CASE b /\ ~link.tripped
    <3>1. trips /\ ~sys.calibrating /\ Call("setActive") \notin Left("service")
      BY <1>5, <2>2 DEF ModeInv, UnattendedInv, RestoreInv
    <3>2. QED
      BY <1>1, <1>3, <1>4, <3>1 DEF TripInv, Call
  <2>3. CASE ~b
    BY <1>6, <2>3 DEF TripInv
  <2>4. QED
    BY <2>1, <2>2, <2>3
<1>11. AloneInv'
  <2>1. ASSUME seen.alone >= 1, link.quiet > Timeout PROVE Left("watchdog")' # {}
    <3>1. link.quiet = Timeout + 2 /\ sys.active
      BY <2>1 DEF UnattendedInv, AloneInv
    <3>2. Silence > Timeout /\ Silence >= 1
      <4>1. link.lag \in 0 .. 1 /\ Timeout \in Nat
        BY MachineAssumption DEF DataOK, Links
      <4>2. QED
        BY <3>1, <4>1 DEF Silence
    <3>3. link.over
      BY <1>0, <1>3, <3>2 DEF UnattendedInv, PassInv
    <3>4. ~link.tripped
      BY <1>0, <1>3, <3>1, <3>2 DEF UnattendedInv, TripInv
    <3>5. QED
      BY <1>4, <1>5, <3>1, <3>3, <3>4
  <2>2. QED
    BY <1>1, <1>2, <1>6, <2>1 DEF UnattendedInv, AloneInv
<1>12. QED
  BY <1>8, <1>9, <1>10, <1>11 DEF UnattendedInv

\* The edit lock is never held longer than TIMEOUT_MS, which is two passes at least (wdTask
\* passes every 100 ms, TIMEOUT_MS = 2000).
PromptCommands == ~SlowCommands /\ Timeout >= 2

\* 100 ms of silence more.
LEMMA UnattendedTick ==
    ASSUME ShapeInv, DataOK, UnattendedInv, PromptCommands, Tick
    PROVE  UnattendedInv'
<1> DEFINE m == Min({link.quiet + 1, Timeout + 2})
           l == IF Free("watchdog") THEN 0 ELSE 1
           f == seen.fed /\ ~Free("watchdog")
           n == IF sys.active /\ link.quiet > Timeout THEN Min({seen.alone + 1, 3}) ELSE 0
<1>0. /\ "service" \in Processes /\ "watchdog" \in Processes /\ "command" \in Processes /\ TodoOK
      /\ \A o : Call(o) = <<o, 0>>
  BY ProcessNames DEF ShapeInv
<1>1. /\ link' = [link EXCEPT !.quiet = m, !.lag = l] /\ seen' = [seen EXCEPT !.fed = f, !.alone = n]
      /\ sys' = sys /\ test' = test
      /\ Free("watchdog") \/ link.lag = 0
      /\ Free("command") \/ link.quiet < Timeout
  BY DEF Tick, PromptCommands
<1>2. /\ link.quiet \in Nat /\ link.quiet <= Timeout + 2 /\ link.lag \in 0 .. 1 /\ Timeout \in Nat
      /\ Timeout >= 2 /\ seen.alone \in 0 .. 3
  BY MachineAssumption DEF DataOK, Links, Ghosts, PromptCommands
<1>3. m = IF link.quiet + 1 <= Timeout + 2 THEN link.quiet + 1 ELSE Timeout + 2
  BY <1>2, MinOfTwo
<1>4. n = IF sys.active /\ link.quiet > Timeout
            THEN IF seen.alone + 1 <= 3 THEN seen.alone + 1 ELSE 3 ELSE 0
  BY <1>2, MinOfTwo
<1>5. l = IF Free("watchdog") THEN 0 ELSE 1
  OBVIOUS
<1> HIDE DEF m, l, f, n
<1>6. /\ link'.quiet = m /\ link'.lag = l /\ link'.over = link.over /\ link'.tripped = link.tripped
      /\ seen'.alone = n
  BY <1>1 DEF DataOK, Links, Ghosts
<1>7. /\ Free("watchdog") <=> Left("watchdog") = {}
      /\ Free("command") <=> Left("command") = {}
  BY <1>0, FreeIsEmpty
<1>8. /\ Left("command")' = Left("command") /\ Left("service")' = Left("service")
      /\ Free("watchdog") => Left("watchdog")' = {Call("readLast"), Call("readArmed")}
      /\ ~Free("watchdog") => Left("watchdog")' = Left("watchdog")
  <2>1. \A q \in Processes : q # "watchdog" => Left(q)' = Left(q)
    BY TickShape
  <2>2. ASSUME ~Free("watchdog") PROVE Left("watchdog")' = Left("watchdog")
    BY <1>7, <2>2, TickShape
  <2>3. ASSUME Free("watchdog") PROVE Left("watchdog")' = {Call("readLast"), Call("readArmed")}
    BY <2>3, TickShape
  <2>4. QED
    BY <1>0, <2>1, <2>2, <2>3
<1>9. IdleInv'
  <2>1. CASE Left("command") = {}
    BY <1>8, <2>1 DEF IdleInv
  <2>2. CASE link.quiet < Timeout
    BY <1>2, <1>3, <1>6, <2>2 DEF IdleInv
  <2>3. QED
    BY <1>1, <1>7, <2>1, <2>2
<1>10. RestoreInv' /\ DecideInv'
  <2>1. RestoreInv'
    BY <1>1, <1>8 DEF UnattendedInv, RestoreInv, Call
  <2>2. DecideInv'
    BY <1>8 DEF UnattendedInv, DecideInv, Call
  <2>3. QED
    BY <2>1, <2>2
<1>11. CASE Free("watchdog")
  <2>1. Silence' = m /\ Silence \in Int /\ Silence <= link.quiet /\ link.quiet <= Silence + 1
    BY <1>2, <1>3, <1>5, <1>6, <1>11 DEF Silence
  <2>2. /\ Left("watchdog") = {} /\ Left("watchdog")' = {Call("readLast"), Call("readArmed")}
    BY <1>7, <1>8, <1>11
  <2>3. ASSUME link.quiet >= Timeout, link.tripped PROVE Silence > Timeout
    <3>1. Silence >= 1 /\ link.over
      BY <1>2, <2>1, <2>2, <2>3 DEF UnattendedInv, PassInv
    <3>2. QED
      BY <2>2, <3>1 DEF UnattendedInv, PassInv
  <2>4. ASSUME link.quiet >= Timeout, link.tripped
        PROVE  ~sys.calibrating /\ Call("setActive") \notin Left("service") /\ ~sys.active
    BY <2>2, <2>3, <2>4 DEF UnattendedInv, TripInv
  <2>5. PassInv'
    BY <2>2 DEF PassInv, Call
  <2>6. TripInv'
    <3>1. SUFFICES ASSUME Silence' > Timeout, link.tripped
                   PROVE  ~sys.calibrating /\ Call("setActive") \notin Left("service") /\ ~sys.active
      BY <1>1, <1>6, <1>8 DEF TripInv, Call
    <3>2. link.quiet >= Timeout
      BY <1>2, <1>3, <2>1, <3>1
    <3>3. QED
      BY <2>4, <3>1, <3>2
  <2>7. AloneInv'
    <3>1. CASE sys.active /\ link.quiet > Timeout
      <4>1. seen.alone = 0
        BY <1>2, <2>2, <3>1 DEF UnattendedInv, AloneInv
      <4>2. n = 1 /\ m = Timeout + 2
        BY <1>2, <1>3, <1>4, <3>1, <4>1
      <4>3. QED
        BY <1>1, <1>6, <2>2, <3>1, <4>2 DEF AloneInv
    <3>2. CASE ~(sys.active /\ link.quiet > Timeout)
      <4>1. n = 0
        BY <1>4, <3>2
      <4>2. QED
        BY <1>6, <4>1 DEF AloneInv
    <3>3. QED
      BY <3>1, <3>2
  <2>8. QED
    BY <1>9, <1>10, <2>5, <2>6, <2>7 DEF UnattendedInv
<1>12. CASE ~Free("watchdog")
  <2>1. link.lag = 0 /\ l = 1 /\ Left("watchdog") # {} /\ Left("watchdog")' = Left("watchdog")
    BY <1>1, <1>5, <1>7, <1>8, <1>12
  <2>2. Silence = link.quiet /\ Silence' = m - 1
    BY <1>2, <1>3, <1>6, <2>1 DEF Silence
  <2>3. /\ Silence' >= 1 => Silence >= 1
        /\ Silence' > Timeout <=> Silence > Timeout
    BY <1>2, <1>3, <2>2
  <2>4. PassInv'
    BY <1>6, <2>1, <2>3 DEF UnattendedInv, PassInv, Call
  <2>5. TripInv'
    BY <1>1, <1>6, <1>8, <2>1, <2>3 DEF UnattendedInv, TripInv, Call
  <2>6. AloneInv'
    <3>1. CASE sys.active /\ link.quiet > Timeout
      <4>1. seen.alone \in 0 .. 1
        BY <1>2, <2>1, <3>1 DEF UnattendedInv, AloneInv
      <4>2. n \in 1 .. 2 /\ m = Timeout + 2
        BY <1>2, <1>3, <1>4, <3>1, <4>1
      <4>3. QED
        BY <1>1, <1>6, <2>1, <3>1, <4>2 DEF AloneInv
    <3>2. CASE ~(sys.active /\ link.quiet > Timeout)
      <4>1. n = 0
        BY <1>4, <3>2
      <4>2. QED
        BY <1>6, <4>1 DEF AloneInv
    <3>3. QED
      BY <3>1, <3>2
  <2>7. QED
    BY <1>9, <1>10, <2>4, <2>5, <2>6 DEF UnattendedInv
<1>13. QED
  BY <1>11, <1>12

\* Whatever feeds the watchdog ends the silence.
LEMMA UnattendedFed ==
    ASSUME DataOK, UnattendedInv, link' = Fed, sys' = sys, test' = test, seen'.alone = seen.alone,
           Left("watchdog")' = Left("watchdog"), Left("service")' = Left("service")
    PROVE  UnattendedInv'
<1>1. /\ link'.quiet = 0 /\ link'.lag = link.lag /\ link'.over = link.over
      /\ link'.tripped = link.tripped
  BY DEF Fed, DataOK, Links
<1>2. link.lag \in 0 .. 1 /\ Timeout \in Nat
  BY MachineAssumption DEF DataOK, Links
<1>3. ~(link'.quiet > Timeout) /\ ~(Silence' > Timeout) /\ ~(Silence' >= 1)
  BY <1>1, <1>2 DEF Silence
<1>4. IdleInv' /\ PassInv' /\ TripInv'
  BY <1>1, <1>3 DEF UnattendedInv, IdleInv, PassInv, TripInv, Call
<1>5. RestoreInv' /\ DecideInv' /\ AloneInv'
  BY <1>3 DEF UnattendedInv, RestoreInv, DecideInv, AloneInv, Call
<1>6. QED
  BY <1>4, <1>5 DEF UnattendedInv

LEMMA UnattendedInput ==
    ASSUME ShapeInv, KindInv, DataOK, UnattendedInv, PromptCommands, NEW i \in Inputs, Input(i)
    PROVE  UnattendedInv'
<1>0. {"command", "service", "watchdog", "fault", "timer", "photocell"} = Processes
  BY ProcessNames
<1>1. CASE Tick
  BY <1>1, UnattendedTick
<1>2. ASSUME NEW c, Receive(c), \A q \in Processes : q # "command" => Left(q)' = Left(q)
      PROVE  UnattendedInv'
  <2> DEFINE b == seen.halted /\ c # "start"
  <2>1. /\ seen' = [seen EXCEPT !.fed = TRUE, !.halted = b]
        /\ link' = Fed /\ sys' = sys /\ test' = test
    BY <1>2 DEF Receive
  <2> HIDE DEF b
  <2>2. seen'.alone = seen.alone
    BY <2>1
  <2>3. QED
    BY <1>0, <1>2, <2>1, <2>2, UnattendedFed
<1>3. ASSUME seen' = [seen EXCEPT !.fed = TRUE], link' = Fed, sys' = sys, test' = test,
             \A q \in Processes : q # "command" => Left(q)' = Left(q)
      PROVE  UnattendedInv'
  <2>1. seen'.alone = seen.alone
    BY <1>3
  <2>2. QED
    BY <1>0, <1>3, <2>1, UnattendedFed
<1>4. ASSUME NEW g \in Guns, ReceiveTest(g), \A q \in Processes : q # "command" => Left(q)' = Left(q)
      PROVE  UnattendedInv'
  BY <1>3, <1>4 DEF ReceiveTest
<1>5. ASSUME Ping, \A q \in Processes : Left(q)' = Left(q)
      PROVE  UnattendedInv'
  BY <1>3, <1>5 DEF Ping
<1>6. ASSUME link' = link, sys' = sys, seen' = seen,
             \A g \in Guns : test[g].mode = "None" => test'[g].mode = "None",
             \A q \in {"command", "service", "watchdog"} : Left(q)' = Left(q)
      PROVE  UnattendedInv'
  BY <1>6, UnattendedFrame
<1>7. ASSUME NEW g \in Guns, Deadline(g), \A q \in Processes : Left(q)' = Left(q)
      PROVE  UnattendedInv'
  <2>1. link' = link /\ sys' = sys /\ seen' = seen
    BY <1>7 DEF Deadline
  <2>2. ASSUME NEW k \in Guns, test[k].mode = "None" PROVE test'[k].mode = "None"
    <3>1. CASE test' = [test EXCEPT ![g].deadline = FALSE]
      BY <2>2, <3>1 DEF DataOK, Tests
    <3>2. CASE test' = [test EXCEPT ![g] = [mode |-> "None", tick |-> FALSE, deadline |-> FALSE]]
      BY <2>2, <3>2 DEF DataOK, Tests
    <3>3. QED
      BY <1>7, <3>1, <3>2 DEF Deadline
  <2>3. QED
    BY <1>0, <1>6, <1>7, <2>1, <2>2
<1>8. ASSUME FaultIsr \/ LeadingEdge \/ FallingEdge \/ \E g \in Guns : TickDot(g) \/ SheetFires(g),
             \A q \in {"command", "service", "watchdog"} : Left(q)' = Left(q)
      PROVE  UnattendedInv'
  <2>1. link' = link /\ sys' = sys /\ seen' = seen /\ test' = test
    BY <1>8 DEF FaultIsr, Untouched, LeadingEdge, FallingEdge, TickDot, SheetFires
  <2>2. QED
    BY <1>6, <1>8, <2>1
<1>9. ASSUME SafetyStop, \A q \in Processes : Left(q)' = Left(q)
      PROVE  UnattendedInv'
  <2> DEFINE b == ~Committed
  <2>1. /\ seen' = [seen EXCEPT !.halted = b, !.alone = 0] /\ sys' = [sys EXCEPT !.active = FALSE]
        /\ link' = link /\ test' = test
    BY <1>9 DEF SafetyStop
  <2> HIDE DEF b
  <2>2. ~sys'.active /\ (sys'.calibrating <=> sys.calibrating) /\ seen'.alone = 0
    BY <2>1 DEF DataOK, Systems, Ghosts
  <2>3. QED
    BY <1>0, <1>9, <2>1, <2>2, UnattendedFrame
<1>10. QED
  <2>1. CASE \E c : Receive(c) /\ \A q \in Processes : q # "command" => Left(q)' = Left(q)
    BY <1>2, <2>1
  <2>2. CASE \E g \in Guns : ReceiveTest(g) /\ \A q \in Processes : q # "command" => Left(q)' = Left(q)
    BY <1>4, <2>2
  <2>3. CASE /\ FaultIsr \/ LeadingEdge \/ FallingEdge \/ \E g \in Guns : TickDot(g) \/ SheetFires(g)
             /\ \A q \in {"command", "service", "watchdog"} : Left(q)' = Left(q)
    BY <1>8, <2>3
  <2>4. CASE /\ Ping \/ SafetyStop \/ \E g \in Guns : Deadline(g)
             /\ \A q \in Processes : Left(q)' = Left(q)
    BY <1>5, <1>7, <1>9, <2>4
  <2>5. QED
    BY <1>0, <1>1, <2>1, <2>2, <2>3, <2>4, InputLeft

LEMMA UnattendedWorld ==
    ASSUME ShapeInv, UnattendedInv, World
    PROVE  UnattendedInv'
<1>1. link' = link /\ sys' = sys /\ seen' = seen /\ test' = test
  BY DEF World, HandOver, TakePending, GunCloses
<1>2. /\ Left("command")' = Left("command") /\ Left("watchdog")' = Left("watchdog")
      /\ Call("setActive") \in Left("service")' => Call("setActive") \in Left("service")
  BY WorldLeft, ProcessNames
<1>3. QED
  BY <1>1, <1>2, UnattendedFrame

LEMMA UnattendedStep ==
    ASSUME ShapeInv, ModeInv, KindInv, DataOK, UnattendedInv, PromptCommands, Next
    PROVE  UnattendedInv'
<1>1. ASSUME NEW p \in Processes, HandlerOf(p) PROVE UnattendedInv'
  <2>1. CASE p = "command"
    BY <1>1, <2>1, UnattendedCommand
  <2>2. CASE p = "watchdog"
    BY <1>1, <2>2, UnattendedStop, UnattendedReadLast, UnattendedReadArmed DEF HandlerOf
  <2>3. CASE p \in {"service", "fault", "timer", "photocell"}
    BY <1>1, <2>3, UnattendedOther
  <2>4. QED
    BY <2>1, <2>2, <2>3, ProcessNames
<1>2. QED
  BY <1>1, UnattendedInput, UnattendedWorld DEF Next, Handler

LEMMA UnattendedStarts == Init => UnattendedInv
<1> SUFFICES ASSUME Init PROVE UnattendedInv
  OBVIOUS
<1>1. /\ Left("command") = {} /\ Left("service") = {} /\ Left("watchdog") = {}
      /\ link.quiet = 0 /\ link.lag = 0 /\ ~link.tripped /\ seen.alone = 0 /\ Timeout \in Nat
  BY NoCalls, ProcessNames, MachineAssumption DEF Init, Left
<1>2. Silence = 0
  BY <1>1 DEF Silence
<1>3. QED
  BY <1>1, <1>2 DEF UnattendedInv, IdleInv, RestoreInv, DecideInv, PassInv, TripInv, AloneInv

\* Out of contact the machine is stopped within two passes of the watchdog, whatever else
\* is under way, if no command waits longer than TIMEOUT_MS for the edit lock (wdTask).
THEOREM UnattendedCorrect ==
    ASSUME PromptCommands
    PROVE  Spec => []NeverRunsUnattended
<1>1. MachineInv /\ UnattendedInv /\ [Next]_vars => UnattendedInv'
  <2> SUFFICES ASSUME MachineInv, UnattendedInv, [Next]_vars PROVE UnattendedInv'
    OBVIOUS
  <2>1. ShapeInv /\ ModeInv /\ KindInv /\ DataOK
    BY TypesAgree DEF MachineInv, ShapeInv
  <2>2. CASE Next
    BY <2>1, <2>2, UnattendedStep
  <2>3. CASE UNCHANGED vars
    <3>1. link' = link /\ sys' = sys /\ seen' = seen /\ test' = test
      BY <2>3 DEF vars
    <3>2. \A q \in {"command", "service", "watchdog"} : Left(q)' = Left(q)
      BY <2>3, ShapeStays, ProcessNames
    <3>3. QED
      BY <3>1, <3>2, UnattendedFrame
  <2>4. QED
    BY <2>2, <2>3
<1>2. UnattendedInv => NeverRunsUnattended
  BY DEF UnattendedInv, AloneInv, NeverRunsUnattended
<1>3. QED
  BY <1>1, <1>2, UnattendedStarts, MachineInvariant, PTL DEF Spec
=============================================================================
