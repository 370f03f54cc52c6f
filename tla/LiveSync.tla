------------------------------ MODULE LiveSync ------------------------------
(***************************************************************************)
(* One setting of the configuration as the controller, the PC and an open  *)
(* web page see it: commands of the PC over UART (gui/app/state.py), the   *)
(* event queue with its staging slot (comms/Events.cpp), the pushes of     *)
(* comms/LiveSync.cpp, and the revision counter that tells the page when   *)
(* to read again (net/SoftAP.cpp, net/WebPage.h).  Patterns and the list   *)
(* of programs travel the same way, each through a slot of its own.        *)
(* The edit lock makes each command one step.                              *)
(***************************************************************************)
EXTENDS Integers, Sequences, SequencesExt

CONSTANTS
    Values, Refused,    \* what can be typed; what handleSetConfig() rejects
    Initial,            \* Config::init()
    QueueLen,           \* QUEUE_LEN of the event queue
    MaxRev, MaxWire     \* bounds: revisions; commands, events, requests on their way

ASSUME LinkAssumption ==
    /\ Refused \subseteq Values /\ Initial \in Values \ Refused /\ "get" \notin Values
    /\ QueueLen \in Nat \ {0} /\ MaxRev \in Nat \ {0} /\ MaxWire \in Nat

VARIABLES
    running,    \* the setting in Config::active()
    rev,        \* s_rev
    queue,      \* s_queue: config events, and all others
    slot,       \* s_evConfig
    uart,       \* commands the PC has sent: values set, "get"
    wire,       \* config events on their way to the PC
    pc,         \* AppState.config
    page,       \* the web page
    http,       \* its requests, served in the order they were made
    linkSeen    \* ghosts

edited    == <<running, rev>>
pcVars    == <<uart, wire, pc>>
pageVars  == <<page, http>>
linkVars  == <<edited, queue, slot, pcVars, pageVars, linkSeen>>

Events   == {"config", "other"}
Requests == [kind : {"status", "config", "edit"}, answered : BOOLEAN, ok : BOOLEAN,
             value : Values, prev : 0 .. MaxRev, rev : 0 .. MaxRev]

LinkTypeOK ==
    /\ running \in Values \ Refused /\ rev \in 1 .. MaxRev
    /\ queue \in Seq(Events) /\ Len(queue) <= QueueLen
    /\ slot \in Values \ Refused
    /\ uart \in Seq(Values \cup {"get"}) /\ wire \in Seq(Values \ Refused)
    /\ pc \in Values
    /\ page \in [known : 0 .. MaxRev, shown : Values, stale : BOOLEAN, dirty : BOOLEAN,
                 sync : {"no", "asked", "outdated"}]
    /\ http \in Seq(Requests)
    /\ linkSeen \in [apart : BOOLEAN, retyped : BOOLEAN]

LinkInit ==
    /\ running = Initial /\ rev = 1
    /\ queue = <<>> /\ slot = Initial
    /\ uart = <<>> /\ wire = <<>> /\ pc = Initial
    /\ page = [known |-> 0, shown |-> Initial, stale |-> FALSE, dirty |-> FALSE, sync |-> "no"]
    /\ http = <<>>
    /\ linkSeen = [apart |-> FALSE, retyped |-> FALSE]

----------------------------------------------------------------------------
Posted_NoLimit(q, e) == Append(q, e)

\* post(): what does not fit is dropped.
Posted(q, e) == IF Len(q) < QueueLen THEN Append(q, e) ELSE q

EditsComing == ToSet(uart) \cap Values # {}
OnItsWay    == "config" \in ToSet(queue) \/ wire # <<>>

PushConfig_KeepsSlot(v, cmds, ack) ==
    /\ slot' = IF "config" \in ToSet(queue) THEN slot ELSE v
    /\ queue' = Posted(queue, "config") \o (IF ack /\ Len(queue) + 1 < QueueLen THEN <<"other">> ELSE <<>>)
    /\ linkSeen' = [linkSeen EXCEPT
          !.apart = Len(queue) = QueueLen \/ ToSet(cmds) \cap Values # {}]

\* postConfig() of value v while the commands cmds are still to come, then the
\* answer ack to the command.
PushConfig(v, cmds, ack) ==
    /\ slot' = v
    /\ queue' = Posted(queue, "config") \o (IF ack /\ Len(queue) + 1 < QueueLen THEN <<"other">> ELSE <<>>)
    /\ linkSeen' = [linkSeen EXCEPT
          !.apart = Len(queue) = QueueLen \/ ToSet(cmds) \cap Values # {}]

\* set_config and the bump of configChanged().
Change(v) == rev < MaxRev /\ running' = v /\ rev' = rev + 1

\* --- the PC ---------------------------------------------------------------
\* push_config(): shown at once, sent, not waited for.
PcEdits(v) ==
    /\ Len(uart) < MaxWire /\ rev + Len(uart) < MaxRev
    /\ pc' = v /\ uart' = Append(uart, v)
    /\ UNCHANGED <<edited, queue, slot, wire, pageVars, linkSeen>>

\* request_state(), on connecting and after "ready".
PcAsks ==
    /\ Len(uart) < MaxWire /\ uart' = Append(uart, "get")
    /\ UNCHANGED <<edited, queue, slot, wire, pc, pageVars, linkSeen>>

\* An edit of the PC that is accepted is not sent back.
UartEdits ==
    /\ uart # <<>> /\ Head(uart) \in Values \ Refused
    /\ Change(Head(uart)) /\ uart' = Tail(uart)
    /\ queue' = Posted(queue, "other")
    /\ linkSeen' = [linkSeen EXCEPT !.apart = @ \/ OnItsWay]
    /\ UNCHANGED <<slot, wire, pc, pageVars>>

\* get_state, and an edit that is refused: the configuration as it is.
UartSendsState ==
    /\ uart # <<>> /\ Head(uart) \in Refused \cup {"get"}
    /\ PushConfig(running, Tail(uart), TRUE) /\ uart' = Tail(uart)
    /\ UNCHANGED <<edited, wire, pc, pageVars>>

\* A calibration result, a program loaded, another page: configChanged().
Elsewhere(v) ==
    /\ Change(v) /\ PushConfig(v, uart, FALSE)
    /\ UNCHANGED <<pcVars, pageVars>>

\* status, debug and error events share the queue.
OtherEvent ==
    /\ queue' = Posted(queue, "other")
    /\ UNCHANGED <<edited, slot, pcVars, pageVars, linkSeen>>

\* emitterTask(): what it sends is in the slot now, not what was posted.  It waits
\* while the serial buffer is full.
Emit ==
    /\ queue # <<>> /\ Len(wire) < MaxWire /\ queue' = Tail(queue)
    /\ wire' = IF Head(queue) = "config" THEN Append(wire, slot) ELSE wire
    /\ UNCHANGED <<edited, slot, uart, pc, pageVars, linkSeen>>

\* _apply_config_event()
PcReceives ==
    /\ wire # <<>> /\ pc' = Head(wire) /\ wire' = Tail(wire)
    /\ linkSeen' = [linkSeen EXCEPT !.apart = @ \/ EditsComing]
    /\ UNCHANGED <<edited, queue, slot, uart, pageVars>>

\* --- the web page ---------------------------------------------------------
Request(kind, v) ==
    [kind |-> kind, answered |-> FALSE, ok |-> FALSE, value |-> v, prev |-> 0, rev |-> 0]
Outstanding(kind) == \E i \in DOMAIN http : http[i].kind = kind
Asks(kind, v) ==
    /\ Len(http) < MaxWire /\ ~Outstanding(kind)
    /\ http' = Append(http, Request(kind, v))

\* The page is reading, or is about to since its edit was refused.
Rereads ==
    \E i \in DOMAIN http :
        \/ http[i].kind = "config"
        \/ http[i].kind = "edit" /\ http[i].value \in Refused

PageServed == UNCHANGED <<edited, queue, slot, pcVars, linkSeen>>

\* refresh() every second.
PagePolls == Asks("status", Initial) /\ UNCHANGED page /\ PageServed

PageTypes(v) ==
    /\ page' = [page EXCEPT !.shown = v, !.dirty = TRUE]
    /\ linkSeen' = [linkSeen EXCEPT !.retyped = Rereads]
    /\ UNCHANGED <<edited, queue, slot, pcVars, http>>

\* saveConfig(), 600 ms after the last key.
PageSaves ==
    /\ page.dirty /\ Asks("edit", page.shown)
    /\ page' = [page EXCEPT !.dirty = FALSE]
    /\ PageServed

\* The network task answers requests one at a time, each under the edit lock.
Unanswered == {i \in DOMAIN http : ~http[i].answered /\ \A j \in 1 .. i - 1 : http[j].answered}
Answer(i, r) == http' = [http EXCEPT ![i] = [r EXCEPT !.answered = TRUE]]

ServerReads ==
    /\ \E i \in Unanswered :
          /\ http[i].kind # "edit"
          /\ Answer(i, [http[i] EXCEPT !.ok = TRUE, !.value = running, !.rev = rev])
    /\ UNCHANGED <<edited, queue, slot, pcVars, page, linkSeen>>

ServerEdits ==
    /\ \E i \in Unanswered :
          /\ http[i].kind = "edit"
          /\ IF http[i].value \in Refused
               THEN /\ Answer(i, [http[i] EXCEPT !.prev = rev, !.rev = rev])
                    /\ UNCHANGED <<edited, queue, slot, linkSeen>>
               ELSE /\ Change(http[i].value) /\ PushConfig(http[i].value, uart, FALSE)
                    /\ Answer(i, [http[i] EXCEPT !.ok = TRUE, !.prev = rev, !.rev = rev + 1])
    /\ UNCHANGED <<pcVars, page>>

\* Each answer comes over a connection of its own, in any order.
Answers(kind) == {i \in DOMAIN http : http[i].answered /\ http[i].kind = kind}

\* The page has used answer i; it may read the configuration (again).
Used(i, reads) ==
    http' = IF reads THEN Append(RemoveAt(http, i), Request("config", Initial))
            ELSE RemoveAt(http, i)

PageSeesStatus_KeepsGen ==
    /\ \E i \in Answers("status") :
          LET stale == page.stale \/ page.known # http[i].rev
              reads == stale /\ page.sync = "no" /\ ~page.dirty /\ ~Outstanding("config")
          IN  /\ page' = [page EXCEPT !.known = http[i].rev, !.stale = stale,
                                      !.sync = IF reads THEN "asked" ELSE @]
              /\ Used(i, reads)
    /\ PageServed

\* refresh() and syncFromController(), which waits while a field is edited and
\* notes whether the revision moved again while it read.
PageSeesStatus ==
    /\ \E i \in Answers("status") :
          LET new   == page.known # http[i].rev
              reads == (page.stale \/ new) /\ page.sync = "no" /\ ~page.dirty
                          /\ ~Outstanding("config")
          IN  /\ page' = [page EXCEPT
                    !.known = http[i].rev, !.stale = @ \/ new,
                    !.sync = IF reads THEN "asked"
                             ELSE IF new /\ @ = "asked" THEN "outdated" ELSE @]
              /\ Used(i, reads)
    /\ PageServed

PageSeesConfig ==
    /\ \E i \in Answers("config") :
          /\ page' = [page EXCEPT !.shown = http[i].value, !.sync = "no",
                                  !.stale = @ /\ page.sync # "asked"]
          /\ Used(i, FALSE)
    /\ PageServed

\* noteRev(): its own edit is no news, unless it was not alone.  A refused edit
\* reads the configuration again.
PageSeesEdit ==
    /\ \E i \in Answers("edit") :
          /\ page' = [page EXCEPT !.known = IF http[i].prev = @ THEN http[i].rev ELSE @]
          /\ Used(i, ~http[i].ok /\ ~Outstanding("config"))
    /\ PageServed

\* Changes made elsewhere reach both.
ElsewhereNext == \E v \in Values \ Refused : Elsewhere(v)

PcNext ==
    \/ PcAsks \/ UartEdits \/ UartSendsState \/ OtherEvent \/ Emit \/ PcReceives
    \/ ElsewhereNext \/ \E v \in Values : PcEdits(v)

PageNext ==
    \/ PagePolls \/ PageSaves \/ ServerReads \/ ServerEdits
    \/ PageSeesStatus \/ PageSeesConfig \/ PageSeesEdit
    \/ ElsewhereNext \/ \E v \in Values : PageTypes(v)

LinkNext == PcNext \/ PageNext

\* The tasks of both ends run, and the serial line delivers.
LinkFairness == WF_linkVars(UartEdits \/ UartSendsState) /\ WF_linkVars(Emit) /\ WF_linkVars(PcReceives)

LinkSpec == LinkInit /\ [][LinkNext]_linkVars /\ LinkFairness

----------------------------------------------------------------------------
\* At rest the PC shows what the controller runs, unless an edit of the PC and an
\* event passed each other on the line or an event was dropped, and nothing was
\* pushed since (configChanged, handleSetConfig, handleGetState).
PcAgrees == ~EditsComing /\ ~OnItsWay => pc = running \/ linkSeen.apart

\* A page that knows the current revision, and waits for nothing, shows what runs,
\* unless the field was edited while it was being read (noteRev, syncFromController).
PageIsCurrent ==
    page.known = rev /\ ~page.stale /\ ~page.dirty /\ http = <<>> =>
        page.shown = running \/ linkSeen.retyped

\* Neither view is left behind for good.
ViewsAgree == PcAgrees /\ PageIsCurrent

\* What is changed elsewhere is shown by the PC in the end, unless it is changed
\* again or the event is lost in a full queue.
ChangesReachPc ==
    \A v \in Values \ Refused : (running = v /\ OnItsWay /\ ~linkSeen.apart) ~>
        pc = v \/ running # v \/ linkSeen.apart

\* "keeps them consistent" (docs/project_status.md): at rest both show the same.
\* It does not hold: a change made elsewhere and an edit of the PC may pass each
\* other on the line.
PcShowsWhatRuns == uart = <<>> /\ ~OnItsWay => pc = running
=============================================================================
