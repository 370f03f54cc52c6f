--------------------------- MODULE LiveSyncProofs ---------------------------
(***************************************************************************)
(* Proofs about the views of one setting (module LiveSync): for any        *)
(* values, any length of the event queue and any number of messages on     *)
(* their way, the PC and the web page agree with the controller at rest.   *)
(***************************************************************************)
EXTENDS LiveSync, TLAPS

\* The edit of the PC that is not carried out yet and was made last is v.
LastEdit(v) ==
    \E i \in DOMAIN uart :
        /\ uart[i] = v /\ v \in Values
        /\ \A j \in DOMAIN uart : j > i => uart[j] = "get"

\* What reaches the PC last, if nothing crosses it, is what runs.
PcInv ==
    ~linkSeen.apart =>
        IF EditsComing THEN LastEdit(pc)
        ELSE IF "config" \in ToSet(queue) THEN slot = running
        ELSE IF wire # <<>> THEN wire[Len(wire)] = running
        ELSE pc = running

\* As far as the present tells, v is the value of revision r.
Fits(v, r) == r = rev => v = running

\* Answers: one request of each kind, answered in order, with what was true then.
OneOfEach == \A i, j \in DOMAIN http : http[i].kind = http[j].kind => i = j

InOrder == \A i, j \in DOMAIN http : i < j /\ http[j].answered => http[i].answered

AnswersTrue ==
    \A i \in DOMAIN http :
        /\ ~http[i].answered => ~http[i].ok
        /\ http[i].answered =>
              /\ http[i].rev <= rev
              /\ http[i].kind = "config" => Fits(http[i].value, http[i].rev)
              /\ http[i].kind = "edit" =>
                    /\ http[i].ok <=> http[i].value \notin Refused
                    /\ http[i].ok => http[i].prev < http[i].rev /\ Fits(http[i].value, http[i].rev)

ReadsLater ==
    \A i, j \in DOMAIN http :
        /\ http[i].kind = "edit" /\ http[j].kind = "config"
        /\ http[i].answered /\ http[j].answered /\ i < j
        => http[i].rev <= http[j].rev

HttpInv == OneOfEach /\ InOrder /\ AnswersTrue /\ ReadsLater

\* Reads and edits of the page.
OrderInv ==
    /\ page.known <= rev
    /\ page.sync # "no" => Outstanding("config")
    /\ page.sync = "outdated" => page.stale
    /\ ~linkSeen.retyped =>
          /\ page.dirty => ~Rereads
          /\ \A i, j \in DOMAIN http : http[i].kind = "edit" /\ http[j].kind = "config" => i < j

ReadInv ==
    ~linkSeen.retyped =>
        \A j \in DOMAIN http :
            /\ http[j].kind = "config" /\ http[j].answered /\ page.sync # "outdated"
            /\ page.sync = "asked" \/ ~page.stale
            => page.known <= http[j].rev

ShownInv ==
    ~linkSeen.retyped /\ ~page.dirty =>
        /\ \A i \in DOMAIN http :
              http[i].kind = "edit" /\ ~http[i].answered => page.shown = http[i].value
        /\ ~Outstanding("config") /\ ~page.stale =>
              /\ ~Outstanding("edit") => Fits(page.shown, page.known)
              /\ \A i \in DOMAIN http :
                    http[i].kind = "edit" /\ http[i].answered /\ http[i].ok =>
                       Fits(page.shown, IF page.known = http[i].prev THEN http[i].rev
                                        ELSE page.known)

PageInv == HttpInv /\ OrderInv /\ ReadInv /\ ShownInv

LinkInv == LinkTypeOK /\ PcInv /\ PageInv

----------------------------------------------------------------------------
(* Sequences.                                                              *)

LEMMA Members ==
    ASSUME NEW S, NEW s \in Seq(S), NEW x
    PROVE  x \in ToSet(s) <=> \E i \in 1 .. Len(s) : s[i] = x
BY DEF ToSet

LEMMA Joined ==
    ASSUME NEW S, NEW a \in Seq(S), NEW b \in Seq(S)
    PROVE  /\ a \o b \in Seq(S) /\ Len(a \o b) = Len(a) + Len(b)
           /\ Len(a) \in Nat /\ Len(b) \in Nat
           /\ \A j \in 1 .. Len(a) + Len(b) :
                 (a \o b)[j] = IF j <= Len(a) THEN a[j] ELSE b[j - Len(a)]
OBVIOUS

LEMMA Removed ==
    ASSUME NEW S, NEW s \in Seq(S), NEW i \in 1 .. Len(s)
    PROVE  /\ RemoveAt(s, i) \in Seq(S) /\ Len(RemoveAt(s, i)) = Len(s) - 1
           /\ \A j \in 1 .. Len(s) - 1 : RemoveAt(s, i)[j] = s[IF j < i THEN j ELSE j + 1]
<1> DEFINE a == SubSeq(s, 1, i - 1)
           b == SubSeq(s, i + 1, Len(s))
<1>1. Len(s) \in Nat /\ i \in Nat /\ RemoveAt(s, i) = a \o b
  BY DEF RemoveAt
<1>2. a \in Seq(S) /\ Len(a) = i - 1 /\ \A j \in 1 .. i - 1 : a[j] = s[j]
  BY <1>1
<1>3. b \in Seq(S) /\ Len(b) = Len(s) - i /\ \A j \in 1 .. Len(s) - i : b[j] = s[j + i]
  BY <1>1
<1> HIDE DEF a, b
<1>4. /\ a \o b \in Seq(S) /\ Len(a \o b) = Len(s) - 1
      /\ \A j \in 1 .. Len(s) - 1 : (a \o b)[j] = IF j <= i - 1 THEN a[j] ELSE b[j - (i - 1)]
  <2>1. /\ a \o b \in Seq(S) /\ Len(a \o b) = Len(a) + Len(b)
        /\ \A j \in 1 .. Len(a) + Len(b) :
              (a \o b)[j] = IF j <= Len(a) THEN a[j] ELSE b[j - Len(a)]
    BY <1>2, <1>3, Joined
  <2>2. Len(a) + Len(b) = Len(s) - 1
    BY <1>1, <1>2, <1>3
  <2>3. QED
    BY <1>2, <2>1, <2>2
<1>5. \A j \in 1 .. Len(s) - 1 : (a \o b)[j] = s[IF j < i THEN j ELSE j + 1]
  <2> SUFFICES ASSUME NEW j \in 1 .. Len(s) - 1
               PROVE  (a \o b)[j] = s[IF j < i THEN j ELSE j + 1]
    OBVIOUS
  <2>1. CASE j < i
    BY <1>1, <1>2, <1>4, <2>1
  <2>2. CASE j >= i
    <3>1. j - (i - 1) \in 1 .. Len(s) - i /\ (j - (i - 1)) + i = j + 1
      BY <1>1, <2>2
    <3>2. QED
      BY <1>1, <1>3, <1>4, <2>2, <3>1
  <2>3. j < i \/ j >= i
    BY <1>1
  <2>4. QED
    BY <2>1, <2>2, <2>3
<1>6. QED
  BY <1>1, <1>4, <1>5

LEMMA Taken ==
    ASSUME NEW S, NEW s \in Seq(S), s # <<>>
    PROVE  /\ Head(s) = s[1] /\ Head(s) \in S /\ Len(s) >= 1 /\ Len(s) \in Nat
           /\ Tail(s) \in Seq(S) /\ Len(Tail(s)) = Len(s) - 1
           /\ \A j \in 1 .. Len(s) - 1 : Tail(s)[j] = s[j + 1]
OBVIOUS

LEMMA Added ==
    ASSUME NEW S, NEW s \in Seq(S), NEW x \in S
    PROVE  /\ Append(s, x) \in Seq(S) /\ Len(Append(s, x)) = Len(s) + 1 /\ Len(s) \in Nat
           /\ Append(s, x)[Len(s) + 1] = x
           /\ \A j \in 1 .. Len(s) : Append(s, x)[j] = s[j]
OBVIOUS

----------------------------------------------------------------------------
(* The PC.                                                                 *)

Commands == Values \cup {"get"}
Seen     == [apart : BOOLEAN, retyped : BOOLEAN]

LEMMA Edits ==
    ASSUME uart \in Seq(Commands)
    PROVE  EditsComing <=> \E i \in 1 .. Len(uart) : uart[i] \in Values
BY Members DEF EditsComing

LEMMA PostedFacts ==
    ASSUME NEW q \in Seq(Events), Len(q) <= QueueLen, NEW e \in Events
    PROVE  /\ Posted(q, e) \in Seq(Events) /\ Len(Posted(q, e)) <= QueueLen
           /\ \A x \in Events : x # e => (x \in ToSet(Posted(q, e)) <=> x \in ToSet(q))
           /\ e \in ToSet(Posted(q, e)) <=> (Len(q) < QueueLen \/ e \in ToSet(q))
           /\ Len(Posted(q, e)) = IF Len(q) < QueueLen THEN Len(q) + 1 ELSE Len(q)
<1>1. Len(q) \in Nat /\ QueueLen \in Nat
  BY LinkAssumption
<1>2. CASE Len(q) < QueueLen
  <2>1. Posted(q, e) = Append(q, e)
    BY <1>2 DEF Posted
  <2>2. /\ Append(q, e) \in Seq(Events) /\ Len(Append(q, e)) = Len(q) + 1
        /\ Append(q, e)[Len(q) + 1] = e
        /\ \A j \in 1 .. Len(q) : Append(q, e)[j] = q[j]
    BY Added
  <2>3. \A x : x \in ToSet(Append(q, e)) <=> x = e \/ x \in ToSet(q)
    <3> DEFINE a == Append(q, e)
    <3>1. TAKE x
    <3>2. x \in ToSet(a) <=> \E i \in 1 .. Len(a) : a[i] = x
      <4>1. a \in Seq(Events)
        BY <2>2
      <4> HIDE DEF a
      <4>2. QED
        BY <4>1, Members
    <3>3. x \in ToSet(q) <=> \E i \in 1 .. Len(q) : q[i] = x
      BY Members
    <3>4. QED
      BY <1>1, <2>2, <3>2, <3>3
  <2>4. QED
    BY <1>1, <1>2, <2>1, <2>2, <2>3
<1>3. CASE ~(Len(q) < QueueLen)
  BY <1>1, <1>3 DEF Posted
<1>4. QED
  BY <1>2, <1>3

LEMMA SeenFacts ==
    ASSUME linkSeen \in Seen, NEW b \in BOOLEAN, linkSeen' = [linkSeen EXCEPT !.apart = b]
    PROVE  /\ linkSeen' \in Seen /\ linkSeen'.retyped = linkSeen.retyped
           /\ linkSeen'.apart = b
BY DEF Seen

\* After a push the slot holds what was pushed, and its event is in the queue if
\* nothing was dropped and no edit of the PC is under way.
LEMMA PushFacts ==
    ASSUME LinkTypeOK, NEW v \in Values \ Refused, NEW cmds \in Seq(Commands),
           NEW ack \in BOOLEAN, PushConfig(v, cmds, ack)
    PROVE  /\ slot' = v /\ queue' \in Seq(Events) /\ Len(queue') <= QueueLen
           /\ linkSeen' \in Seen /\ linkSeen'.retyped = linkSeen.retyped
           /\ ~linkSeen'.apart => "config" \in ToSet(queue') /\ ToSet(cmds) \cap Values = {}
<1>1. /\ queue \in Seq(Events) /\ Len(queue) <= QueueLen /\ linkSeen \in Seen
      /\ Len(queue) \in Nat /\ QueueLen \in Nat /\ "config" \in Events /\ "other" \in Events
  BY LinkAssumption DEF LinkTypeOK, Seen, Events
<1> DEFINE b == Len(queue) = QueueLen \/ ToSet(cmds) \cap Values # {}
           p == Posted(queue, "config")
           t == IF ack /\ Len(queue) + 1 < QueueLen THEN <<"other">> ELSE <<>>
<1>2. b \in BOOLEAN
  BY Zenon
<1>3. slot' = v /\ queue' = p \o t /\ linkSeen' = [linkSeen EXCEPT !.apart = b]
  BY DEF PushConfig
<1>4. linkSeen' \in Seen /\ linkSeen'.retyped = linkSeen.retyped /\ linkSeen'.apart = b
  <2> HIDE DEF b
  <2>1. QED
    BY <1>1, <1>2, <1>3, SeenFacts
<1>5. /\ p \in Seq(Events) /\ Len(p) <= QueueLen
      /\ Len(p) = IF Len(queue) < QueueLen THEN Len(queue) + 1 ELSE Len(queue)
      /\ Len(queue) < QueueLen => "config" \in ToSet(p)
  BY <1>1, PostedFacts
<1>6. /\ t \in Seq(Events) /\ Len(t) \in Nat
      /\ Len(t) = 0 \/ (Len(t) = 1 /\ Len(queue) + 1 < QueueLen)
  <2>1. CASE ack /\ Len(queue) + 1 < QueueLen
    <3>1. t = <<"other">> /\ <<"other">> \in Seq(Events) /\ Len(<<"other">>) = 1
      BY <1>1, <2>1
    <3>2. QED
      BY <2>1, <3>1
  <2>2. CASE ~(ack /\ Len(queue) + 1 < QueueLen)
    <3>1. t = <<>>
      BY <2>2
    <3>2. <<>> \in Seq(Events) /\ Len(<<>>) = 0
      OBVIOUS
    <3> HIDE DEF t
    <3>3. QED
      BY <3>1, <3>2
  <2>3. QED
    BY <2>1, <2>2
<1> HIDE DEF p, t
<1>7. /\ p \o t \in Seq(Events) /\ Len(p \o t) = Len(p) + Len(t)
      /\ \A i \in 1 .. Len(p) : (p \o t)[i] = p[i]
  <2>1. /\ p \o t \in Seq(Events) /\ Len(p \o t) = Len(p) + Len(t) /\ Len(p) \in Nat
        /\ \A j \in 1 .. Len(p) + Len(t) :
              (p \o t)[j] = IF j <= Len(p) THEN p[j] ELSE t[j - Len(p)]
    BY <1>5, <1>6, Joined
  <2>2. ASSUME NEW i \in 1 .. Len(p) PROVE (p \o t)[i] = p[i]
    <3>1. i \in 1 .. Len(p) + Len(t) /\ i <= Len(p)
      BY <1>6, <2>1
    <3>2. QED
      BY <2>1, <3>1
  <2>3. QED
    BY <2>1, <2>2
<1>8. Len(p \o t) <= QueueLen
  <2>1. Len(p) \in Nat
    BY <1>5
  <2>2. CASE Len(t) = 0
    BY <1>1, <1>5, <1>7, <2>1, <2>2
  <2>3. CASE Len(t) = 1 /\ Len(queue) + 1 < QueueLen
    <3>1. Len(p) = Len(queue) + 1
      BY <1>1, <1>5, <2>3
    <3>2. QED
      BY <1>1, <1>7, <2>3, <3>1
  <2>4. QED
    BY <1>6, <2>2, <2>3
<1>9. Len(queue) < QueueLen => "config" \in ToSet(p \o t)
  <2> SUFFICES ASSUME Len(queue) < QueueLen PROVE "config" \in ToSet(p \o t)
    OBVIOUS
  <2>1. PICK i \in 1 .. Len(p) : p[i] = "config"
    BY <1>5, Members
  <2>2. i \in 1 .. Len(p \o t) /\ (p \o t)[i] = "config"
    BY <1>5, <1>6, <1>7, <2>1
  <2>3. QED
    BY <1>7, <2>2, Members
<1>10. ~b => Len(queue) < QueueLen /\ ToSet(cmds) \cap Values = {}
  BY <1>1
<1> HIDE DEF b
<1>11. QED
  BY <1>3, <1>4, <1>7, <1>8, <1>9, <1>10

Pages == [known : 0 .. MaxRev, shown : Values, stale : BOOLEAN, dirty : BOOLEAN,
          sync : {"no", "asked", "outdated"}]

\* Where entry j was before entry i was taken out.
Before(i, j) == IF j < i THEN j ELSE j + 1

LEMMA RequestFacts ==
    ASSUME NEW kind \in {"status", "config", "edit"}, NEW v \in Values
    PROVE  /\ Request(kind, v) \in Requests
           /\ Request(kind, v).kind = kind /\ Request(kind, v).value = v
           /\ Request(kind, v).answered = FALSE
BY LinkAssumption DEF Request, Requests

LEMMA UsedFacts ==
    ASSUME http \in Seq(Requests), NEW i \in DOMAIN http, NEW reads \in BOOLEAN, Used(i, reads)
    PROVE  /\ http' \in Seq(Requests) /\ Len(http) \in Nat /\ i \in 1 .. Len(http)
           /\ DOMAIN http' = 1 .. Len(http')
           /\ ~reads => Len(http') = Len(http) - 1
           /\ reads => Len(http') = Len(http) /\ http'[Len(http)] = Request("config", Initial)
           /\ \A j \in 1 .. Len(http) - 1 : Before(i, j) \in 1 .. Len(http)
                                         /\ http'[j] = http[Before(i, j)]
<1> DEFINE s == RemoveAt(http, i)
<1>1. i \in 1 .. Len(http) /\ Len(http) \in Nat /\ Initial \in Values
  BY LinkAssumption
<1>2. /\ s \in Seq(Requests) /\ Len(s) = Len(http) - 1
      /\ \A j \in 1 .. Len(http) - 1 : s[j] = http[IF j < i THEN j ELSE j + 1]
  BY <1>1, Removed
<1>3. \A j \in 1 .. Len(http) - 1 : Before(i, j) \in 1 .. Len(http)
  BY <1>1 DEF Before
<1>4. http' = IF reads THEN Append(s, Request("config", Initial)) ELSE s
  BY DEF Used
<1>5. Request("config", Initial) \in Requests
  BY <1>1, RequestFacts
<1> HIDE DEF s
<1>6. CASE reads
  <2>1. /\ http' \in Seq(Requests) /\ Len(http') = Len(http)
        /\ http'[Len(http)] = Request("config", Initial)
        /\ \A j \in 1 .. Len(http) - 1 : http'[j] = s[j]
    BY <1>1, <1>2, <1>4, <1>5, <1>6, Added
  <2>2. QED
    BY <1>1, <1>2, <1>3, <1>6, <2>1 DEF Before
<1>7. CASE ~reads
  BY <1>1, <1>2, <1>3, <1>4, <1>7 DEF Before
<1>8. QED
  BY <1>6, <1>7

LEMMA AnswerFacts ==
    ASSUME http \in Seq(Requests), NEW i \in DOMAIN http, NEW r \in Requests, Answer(i, r)
    PROVE  /\ http' \in Seq(Requests) /\ Len(http') = Len(http) /\ i \in 1 .. Len(http)
           /\ DOMAIN http' = 1 .. Len(http) /\ DOMAIN http = 1 .. Len(http)
           /\ \A j \in 1 .. Len(http) : j # i => http'[j] = http[j]
           /\ http'[i].kind = r.kind /\ http'[i].answered = TRUE /\ http'[i].ok = r.ok
           /\ http'[i].value = r.value /\ http'[i].prev = r.prev /\ http'[i].rev = r.rev
<1> DEFINE a == [r EXCEPT !.answered = TRUE]
<1>1. /\ a \in Requests /\ a.kind = r.kind /\ a.answered = TRUE /\ a.ok = r.ok
      /\ a.value = r.value /\ a.prev = r.prev /\ a.rev = r.rev
  BY DEF Requests
<1>2. http' = [http EXCEPT ![i] = a]
  BY DEF Answer
<1> HIDE DEF a
<1>3. QED
  BY <1>1, <1>2

\* What a request of the page leaves of the others.
LEMMA AsksFacts ==
    ASSUME http \in Seq(Requests), NEW kind \in {"status", "config", "edit"}, NEW v \in Values,
           Asks(kind, v)
    PROVE  /\ http' \in Seq(Requests) /\ Len(http') = Len(http) + 1 /\ Len(http) \in Nat
           /\ DOMAIN http' = 1 .. Len(http) + 1 /\ DOMAIN http = 1 .. Len(http)
           /\ \A j \in 1 .. Len(http) : http'[j] = http[j]
           /\ http'[Len(http) + 1] = Request(kind, v)
           /\ \A j \in 1 .. Len(http) : http[j].kind # kind
<1>1. /\ Request(kind, v) \in Requests /\ http' = Append(http, Request(kind, v))
      /\ ~Outstanding(kind)
  BY RequestFacts DEF Asks
<1>2. QED
  BY <1>1, Added DEF Outstanding

LEMMA LinkTypes ==
    ASSUME LinkTypeOK
    PROVE  /\ running \in Values \ Refused /\ rev \in 1 .. MaxRev /\ rev \in Nat /\ MaxRev \in Nat
           /\ queue \in Seq(Events) /\ Len(queue) <= QueueLen /\ slot \in Values \ Refused
           /\ uart \in Seq(Commands) /\ wire \in Seq(Values \ Refused) /\ pc \in Values
           /\ page \in Pages /\ http \in Seq(Requests) /\ linkSeen \in Seen
           /\ DOMAIN http = 1 .. Len(http) /\ Len(http) \in Nat
           /\ \A i \in DOMAIN http : http[i] \in Requests
           /\ "config" \in Events /\ "other" \in Events /\ "get" \in Commands
           /\ Values \subseteq Commands /\ Refused \subseteq Values /\ Initial \in Values
BY LinkAssumption DEF LinkTypeOK, Commands, Seen, Pages, Events

LEMMA ChangeFacts ==
    ASSUME LinkTypeOK, NEW v \in Values \ Refused, Change(v)
    PROVE  running' = v /\ rev' = rev + 1 /\ rev' \in 1 .. MaxRev
BY LinkTypes DEF Change

LEMMA PcKeepsTypes == LinkTypeOK /\ PcNext => LinkTypeOK'
<1> SUFFICES ASSUME LinkTypeOK, PcNext PROVE LinkTypeOK'
  OBVIOUS
<1>1. CASE PcAsks
  <2>1. uart' \in Seq(Commands)
    BY <1>1, LinkTypes, Added DEF PcAsks
  <2>2. QED
    BY <1>1, <2>1 DEF LinkTypeOK, Commands, PcAsks, edited, pageVars
<1>2. CASE UartEdits
  <2>1. Head(uart) \in Values \ Refused /\ uart # <<>> /\ Change(Head(uart)) /\ uart' = Tail(uart)
    BY <1>2 DEF UartEdits
  <2>2. uart' \in Seq(Commands) /\ running' \in Values \ Refused /\ rev' \in 1 .. MaxRev
    BY <2>1, LinkTypes, Taken, ChangeFacts
  <2>3. queue' \in Seq(Events) /\ Len(queue') <= QueueLen
    BY <1>2, LinkTypes, PostedFacts DEF UartEdits
  <2>4. linkSeen' \in Seen
    <3> DEFINE b == linkSeen.apart \/ OnItsWay
    <3>1. b \in BOOLEAN
      BY Zenon
    <3>2. linkSeen' = [linkSeen EXCEPT !.apart = b]
      BY <1>2 DEF UartEdits
    <3> HIDE DEF b
    <3>3. QED
      BY <3>1, <3>2, LinkTypes, SeenFacts
  <2>5. UNCHANGED <<slot, wire, pc, page, http>>
    BY <1>2 DEF UartEdits, pageVars
  <2>6. QED
    BY <2>2, <2>3, <2>4, <2>5 DEF LinkTypeOK, Commands, Seen
<1>3. CASE UartSendsState
  <2>1. uart # <<>> /\ PushConfig(running, Tail(uart), TRUE) /\ uart' = Tail(uart)
        /\ UNCHANGED <<running, rev, wire, pc, page, http>>
    BY <1>3 DEF UartSendsState, edited, pageVars
  <2>2. uart' \in Seq(Commands)
    BY <2>1, LinkTypes, Taken
  <2>3. /\ slot' \in Values \ Refused /\ queue' \in Seq(Events) /\ Len(queue') <= QueueLen
        /\ linkSeen' \in Seen
    <3>1. Tail(uart) \in Seq(Commands) /\ running \in Values \ Refused /\ TRUE \in BOOLEAN
      BY <2>1, <2>2, LinkTypes
    <3>2. QED
      BY <2>1, <3>1, PushFacts
  <2>4. QED
    BY <2>1, <2>2, <2>3 DEF LinkTypeOK, Commands, Seen
<1>4. CASE OtherEvent
  <2>1. queue' \in Seq(Events) /\ Len(queue') <= QueueLen
    BY <1>4, LinkTypes, PostedFacts DEF OtherEvent
  <2>2. QED
    BY <1>4, <2>1 DEF LinkTypeOK, OtherEvent, edited, pcVars, pageVars
<1>5. CASE Emit
  <2>1. /\ queue # <<>> /\ queue' = Tail(queue)
        /\ wire' = IF Head(queue) = "config" THEN Append(wire, slot) ELSE wire
        /\ UNCHANGED <<running, rev, slot, uart, pc, page, http, linkSeen>>
    BY <1>5 DEF Emit, edited, pageVars
  <2>2. queue' \in Seq(Events) /\ Len(queue') <= QueueLen
    <3>1. Len(queue) \in Nat /\ QueueLen \in Nat
      BY LinkTypes, LinkAssumption
    <3>2. QED
      BY <2>1, <3>1, LinkTypes, Taken
  <2>3. wire' \in Seq(Values \ Refused)
    BY <2>1, LinkTypes, Added
  <2>4. QED
    BY <2>1, <2>2, <2>3 DEF LinkTypeOK
<1>6. CASE PcReceives
  <2>1. wire # <<>> /\ pc' = Head(wire) /\ wire' = Tail(wire)
        /\ UNCHANGED <<running, rev, queue, slot, uart, page, http>>
    BY <1>6 DEF PcReceives, edited, pageVars
  <2>2. pc' \in Values /\ wire' \in Seq(Values \ Refused)
    BY <2>1, LinkTypes, Taken
  <2>3. linkSeen' \in Seen
    <3> DEFINE b == linkSeen.apart \/ EditsComing
    <3>1. b \in BOOLEAN
      BY Zenon
    <3>2. linkSeen' = [linkSeen EXCEPT !.apart = b]
      BY <1>6 DEF PcReceives
    <3> HIDE DEF b
    <3>3. QED
      BY <3>1, <3>2, LinkTypes, SeenFacts
  <2>4. QED
    BY <2>1, <2>2, <2>3 DEF LinkTypeOK, Seen
<1>7. ASSUME NEW v \in Values \ Refused, Elsewhere(v)
      PROVE  LinkTypeOK'
  <2>1. /\ running' \in Values \ Refused /\ rev' \in 1 .. MaxRev
        /\ UNCHANGED <<uart, wire, pc, page, http>>
    BY <1>7, ChangeFacts DEF Elsewhere, pcVars, pageVars
  <2>2. /\ slot' \in Values \ Refused /\ queue' \in Seq(Events) /\ Len(queue') <= QueueLen
        /\ linkSeen' \in Seen
    <3>1. PushConfig(v, uart, FALSE) /\ uart \in Seq(Commands) /\ FALSE \in BOOLEAN
      BY <1>7, LinkTypes DEF Elsewhere
    <3>2. QED
      BY <3>1, PushFacts
  <2>3. QED
    BY <2>1, <2>2 DEF LinkTypeOK, Seen
<1>8. ASSUME NEW v \in Values, PcEdits(v)
      PROVE  LinkTypeOK'
  <2>1. /\ pc' = v /\ uart' = Append(uart, v) /\ v \in Commands
        /\ UNCHANGED <<running, rev, queue, slot, wire, page, http, linkSeen>>
    BY <1>8 DEF PcEdits, edited, pageVars, Commands
  <2>2. uart' \in Seq(Commands)
    BY <2>1, LinkTypes, Added
  <2>3. QED
    BY <2>1, <2>2 DEF LinkTypeOK, Commands
<1>9. QED
  BY <1>1, <1>2, <1>3, <1>4, <1>5, <1>6, <1>7, <1>8 DEF PcNext, ElsewhereNext

LEMMA PageKeepsTypes == LinkTypeOK /\ PageNext => LinkTypeOK'
<1> SUFFICES ASSUME LinkTypeOK, PageNext PROVE LinkTypeOK'
  OBVIOUS
<1> USE LinkTypes
<1>0. running \in Values /\ rev \in 0 .. MaxRev
  OBVIOUS
<1>1. CASE PagePolls
  <2>1. Asks("status", Initial) /\ UNCHANGED <<page, running, rev, queue, slot, uart, wire, pc, linkSeen>>
    BY <1>1 DEF PagePolls, PageServed, edited, pcVars
  <2>2. http' \in Seq(Requests)
    BY <2>1, AsksFacts
  <2>3. QED
    BY <2>1, <2>2 DEF LinkTypeOK
<1>2. CASE PageSaves
  <2>1. /\ Asks("edit", page.shown) /\ page' = [page EXCEPT !.dirty = FALSE]
        /\ UNCHANGED <<running, rev, queue, slot, uart, wire, pc, linkSeen>>
    BY <1>2 DEF PageSaves, PageServed, edited, pcVars
  <2>2. page' \in Pages /\ page.shown \in Values
    BY <2>1 DEF Pages
  <2>3. http' \in Seq(Requests)
    BY <2>1, <2>2, AsksFacts
  <2>4. QED
    BY <2>1, <2>2, <2>3 DEF LinkTypeOK, Pages
<1>3. CASE ServerReads
  <2>1. PICK i \in Unanswered :
            Answer(i, [http[i] EXCEPT !.ok = TRUE, !.value = running, !.rev = rev])
    BY <1>3 DEF ServerReads
  <2> DEFINE r == [http[i] EXCEPT !.ok = TRUE, !.value = running, !.rev = rev]
  <2>2. i \in DOMAIN http /\ http[i] \in Requests
    BY DEF Unanswered
  <2>3. r \in Requests
    BY <1>0, <2>2 DEF Requests
  <2> HIDE DEF r
  <2>4. http' \in Seq(Requests)
    BY <2>1, <2>2, <2>3, AnswerFacts DEF r
  <2>5. UNCHANGED <<running, rev, queue, slot, uart, wire, pc, page, linkSeen>>
    BY <1>3 DEF ServerReads, edited, pcVars
  <2>6. QED
    BY <2>4, <2>5 DEF LinkTypeOK
<1>4. CASE ServerEdits
  <2>1. PICK i \in Unanswered :
          /\ http[i].kind = "edit"
          /\ IF http[i].value \in Refused
               THEN /\ Answer(i, [http[i] EXCEPT !.prev = rev, !.rev = rev])
                    /\ UNCHANGED <<edited, queue, slot, linkSeen>>
               ELSE /\ Change(http[i].value) /\ PushConfig(http[i].value, uart, FALSE)
                    /\ Answer(i, [http[i] EXCEPT !.ok = TRUE, !.prev = rev, !.rev = rev + 1])
    BY <1>4 DEF ServerEdits
  <2>2. i \in DOMAIN http /\ http[i] \in Requests /\ http[i].value \in Values
    BY DEF Unanswered, Requests
  <2>3. UNCHANGED <<uart, wire, pc, page>>
    BY <1>4 DEF ServerEdits, pcVars
  <2>4. CASE http[i].value \in Refused
    <3> DEFINE r == [http[i] EXCEPT !.prev = rev, !.rev = rev]
    <3>1. r \in Requests
      BY <1>0, <2>2 DEF Requests
    <3>2. Answer(i, r) /\ UNCHANGED <<running, rev, queue, slot, linkSeen>>
      BY <2>1, <2>4 DEF edited
    <3> HIDE DEF r
    <3>3. http' \in Seq(Requests)
      BY <2>2, <3>1, <3>2, AnswerFacts
    <3>4. QED
      BY <2>3, <3>2, <3>3 DEF LinkTypeOK
  <2>5. CASE http[i].value \notin Refused
    <3> DEFINE r == [http[i] EXCEPT !.ok = TRUE, !.prev = rev, !.rev = rev + 1]
    <3>1. /\ Change(http[i].value) /\ PushConfig(http[i].value, uart, FALSE) /\ Answer(i, r)
      BY <2>1, <2>5
    <3>2. running' \in Values \ Refused /\ rev' \in 1 .. MaxRev /\ rev' = rev + 1
      BY <2>2, <2>5, <3>1, ChangeFacts
    <3>3. r \in Requests
      <4>1. rev + 1 \in 0 .. MaxRev
        BY <1>0, <3>2
      <4>2. QED
        BY <1>0, <2>2, <4>1 DEF Requests
    <3>4. /\ slot' \in Values \ Refused /\ queue' \in Seq(Events) /\ Len(queue') <= QueueLen
          /\ linkSeen' \in Seen
      <4>1. http[i].value \in Values \ Refused /\ FALSE \in BOOLEAN
        BY <2>2, <2>5
      <4>2. QED
        BY <3>1, <4>1, PushFacts
    <3> HIDE DEF r
    <3>5. http' \in Seq(Requests)
      BY <2>2, <3>1, <3>3, AnswerFacts
    <3>6. QED
      BY <2>3, <3>2, <3>4, <3>5 DEF LinkTypeOK, Seen
  <2>6. QED
    BY <2>4, <2>5
<1>5. CASE PageSeesStatus
  <2>1. PICK i \in Answers("status") :
          LET new   == page.known # http[i].rev
              reads == (page.stale \/ new) /\ page.sync = "no" /\ ~page.dirty
                          /\ ~Outstanding("config")
          IN  /\ page' = [page EXCEPT
                    !.known = http[i].rev, !.stale = @ \/ new,
                    !.sync = IF reads THEN "asked"
                             ELSE IF new /\ @ = "asked" THEN "outdated" ELSE @]
              /\ Used(i, reads)
    BY <1>5 DEF PageSeesStatus
  <2> DEFINE new   == page.known # http[i].rev
             stale == page.stale \/ new
             reads == stale /\ page.sync = "no" /\ ~page.dirty /\ ~Outstanding("config")
             sync  == IF reads THEN "asked"
                      ELSE IF new /\ page.sync = "asked" THEN "outdated" ELSE page.sync
  <2>2. i \in DOMAIN http /\ http[i].rev \in 0 .. MaxRev
    BY DEF Answers, Requests
  <2>3. page' = [page EXCEPT !.known = http[i].rev, !.stale = stale, !.sync = sync] /\ Used(i, reads)
    BY <2>1
  <2>4. stale \in BOOLEAN /\ reads \in BOOLEAN
    BY Zenon
  <2>5. sync \in {"no", "asked", "outdated"}
    BY DEF Pages
  <2> HIDE DEF stale, reads, sync
  <2>6. page' \in Pages
    BY <2>2, <2>3, <2>4, <2>5 DEF Pages
  <2>7. http' \in Seq(Requests)
    BY <2>2, <2>3, <2>4, UsedFacts
  <2>8. QED
    BY <1>5, <2>6, <2>7 DEF LinkTypeOK, Pages, PageSeesStatus, PageServed, edited, pcVars
<1>6. CASE PageSeesConfig
  <2>1. PICK i \in Answers("config") :
          /\ page' = [page EXCEPT !.shown = http[i].value, !.sync = "no",
                                  !.stale = @ /\ page.sync # "asked"]
          /\ Used(i, FALSE)
    BY <1>6 DEF PageSeesConfig
  <2> DEFINE stale == page.stale /\ page.sync # "asked"
  <2>2. i \in DOMAIN http /\ http[i].value \in Values
    BY DEF Answers, Requests
  <2>3. stale \in BOOLEAN
    BY Zenon
  <2>4. page' = [page EXCEPT !.shown = http[i].value, !.sync = "no", !.stale = stale]
    BY <2>1
  <2> HIDE DEF stale
  <2>5. page' \in Pages
    BY <2>2, <2>3, <2>4 DEF Pages
  <2>6. http' \in Seq(Requests)
    BY <2>1, <2>2, UsedFacts
  <2>7. QED
    BY <1>6, <2>5, <2>6 DEF LinkTypeOK, Pages, PageSeesConfig, PageServed, edited, pcVars
<1>7. CASE PageSeesEdit
  <2>1. PICK i \in Answers("edit") :
          /\ page' = [page EXCEPT !.known = IF http[i].prev = @ THEN http[i].rev ELSE @]
          /\ Used(i, ~http[i].ok /\ ~Outstanding("config"))
    BY <1>7 DEF PageSeesEdit
  <2> DEFINE reads == ~http[i].ok /\ ~Outstanding("config")
  <2>2. i \in DOMAIN http /\ http[i].rev \in 0 .. MaxRev
    BY DEF Answers, Requests
  <2>3. page' \in Pages
    BY <2>1, <2>2 DEF Pages
  <2>4. reads \in BOOLEAN
    BY Zenon
  <2>5. Used(i, reads)
    BY <2>1
  <2> HIDE DEF reads
  <2>6. http' \in Seq(Requests)
    BY <2>2, <2>4, <2>5, UsedFacts
  <2>7. QED
    BY <1>7, <2>3, <2>6 DEF LinkTypeOK, Pages, PageSeesEdit, PageServed, edited, pcVars
<1>8. CASE ElsewhereNext
  BY <1>8, PcKeepsTypes DEF PcNext
<1>9. ASSUME NEW v \in Values, PageTypes(v)
      PROVE  LinkTypeOK'
  <2>1. /\ page' = [page EXCEPT !.shown = v, !.dirty = TRUE]
        /\ linkSeen' = [linkSeen EXCEPT !.retyped = Rereads]
        /\ UNCHANGED <<running, rev, queue, slot, uart, wire, pc, http>>
    BY <1>9 DEF PageTypes, edited, pcVars
  <2>2. page' \in Pages
    BY <2>1 DEF Pages
  <2>3. Rereads \in BOOLEAN
    BY Zenon DEF Rereads
  <2>4. linkSeen' \in Seen
    BY <2>1, <2>3 DEF Seen
  <2>5. QED
    BY <2>1, <2>2, <2>4 DEF LinkTypeOK, Pages, Seen
<1>10. QED
  BY <1>1, <1>2, <1>3, <1>4, <1>5, <1>6, <1>7, <1>8, <1>9 DEF PageNext

\* A push leaves nothing else on its way to the PC.
LEMMA PushAgrees ==
    ASSUME LinkTypeOK, NEW v \in Values \ Refused, NEW ack \in BOOLEAN,
           PushConfig(v, uart', ack), uart' \in Seq(Commands), running' = v
    PROVE  PcInv'
<1>1. /\ slot' = v
      /\ ~linkSeen'.apart => "config" \in ToSet(queue') /\ ToSet(uart') \cap Values = {}
  BY PushFacts
<1>2. QED
  BY <1>1 DEF PcInv, EditsComing

LEMMA PcStays ==
    ASSUME PcInv, UNCHANGED <<running, uart, wire, pc>>, slot' = slot,
           "config" \in ToSet(queue') <=> "config" \in ToSet(queue),
           linkSeen'.apart = linkSeen.apart
    PROVE  PcInv'
BY DEF PcInv, EditsComing, LastEdit

LEMMA LastOf ==
    ASSUME NEW S, NEW s \in Seq(S), s # <<>>
    PROVE  /\ \A x \in S : Append(s, x)[Len(Append(s, x))] = x
           /\ Tail(s) # <<>> => Tail(s)[Len(Tail(s))] = s[Len(s)]
           /\ Tail(s) = <<>> => s[Len(s)] = Head(s)
<1>1. /\ Head(s) = s[1] /\ Len(s) >= 1 /\ Len(s) \in Nat
      /\ Tail(s) \in Seq(S) /\ Len(Tail(s)) = Len(s) - 1
      /\ \A j \in 1 .. Len(s) - 1 : Tail(s)[j] = s[j + 1]
  BY Taken
<1>2. Tail(s) # <<>> => Len(s) - 1 \in 1 .. Len(s) - 1 /\ (Len(s) - 1) + 1 = Len(s)
  <2> DEFINE t == Tail(s)
  <2>1. t \in Seq(S) /\ Len(t) = Len(s) - 1 /\ Len(s) \in Nat
    BY <1>1
  <2> HIDE DEF t
  <2>2. t # <<>> => Len(t) >= 1
    BY <2>1
  <2>3. t # <<>> => Len(s) - 1 \in 1 .. Len(s) - 1 /\ (Len(s) - 1) + 1 = Len(s)
    BY <2>1, <2>2
  <2>4. QED
    BY <2>3 DEF t
<1>3. Tail(s) = <<>> => Len(s) = 1
  <2> DEFINE t == Tail(s)
             n == Len(s)
  <2>1. Len(<<>>) = 0
    OBVIOUS
  <2>2. n \in Nat /\ Len(t) = n - 1
    BY <1>1
  <2> HIDE DEF t, n
  <2>3. t = <<>> => n = 1
    BY <2>1, <2>2
  <2>4. QED
    BY <2>3 DEF t, n
<1>4. QED
  BY <1>1, <1>2, <1>3, Added

LEMMA PcSteps == LinkTypeOK /\ PcInv /\ PcNext => PcInv'
<1> SUFFICES ASSUME LinkTypeOK, PcInv, PcNext PROVE PcInv'
  OBVIOUS
<1>0. LinkTypeOK'
  BY PcKeepsTypes
<1>1. CASE PcAsks
  <2>1. /\ uart' = Append(uart, "get") /\ UNCHANGED <<running, queue, slot, wire, pc, linkSeen>>
        /\ "get" \notin Values
    BY <1>1, LinkAssumption DEF PcAsks, edited
  <2>2. /\ uart' \in Seq(Commands) /\ Len(uart') = Len(uart) + 1 /\ Len(uart) \in Nat
        /\ uart'[Len(uart) + 1] = "get" /\ \A j \in 1 .. Len(uart) : uart'[j] = uart[j]
        /\ uart \in Seq(Commands)
    BY <2>1, LinkTypes, Added
  <2>3. EditsComing' <=> EditsComing
    <3>1. EditsComing' <=> \E i \in 1 .. Len(uart') : uart'[i] \in Values
      BY <2>2, Members DEF EditsComing
    <3>2. QED
      BY <2>1, <2>2, <3>1, Edits
  <2>4. LastEdit(pc) => LastEdit(pc)'
    BY <2>1, <2>2 DEF LastEdit
  <2>5. QED
    BY <2>1, <2>3, <2>4 DEF PcInv
<1>2. CASE UartEdits
  <2>1. /\ uart # <<>> /\ Head(uart) \in Values \ Refused /\ uart' = Tail(uart)
        /\ running' = Head(uart) /\ queue' = Posted(queue, "other")
        /\ linkSeen' = [linkSeen EXCEPT !.apart = @ \/ OnItsWay] /\ UNCHANGED <<slot, wire, pc>>
    BY <1>2 DEF UartEdits, Change
  <2>2. linkSeen'.apart <=> (linkSeen.apart \/ OnItsWay)
    BY <2>1, LinkTypes DEF Seen
  <2>3. SUFFICES ASSUME ~linkSeen.apart, ~OnItsWay, "config" \notin ToSet(queue), wire = <<>>
                 PROVE  PcInv'
    BY <2>2 DEF PcInv, OnItsWay
  <2>4. "config" \notin ToSet(queue')
    BY <2>1, <2>3, LinkTypes, PostedFacts DEF Events
  <2>5. /\ uart \in Seq(Commands) /\ uart[1] = Head(uart) /\ Len(uart) >= 1 /\ Len(uart) \in Nat
        /\ uart' \in Seq(Commands) /\ Len(uart') = Len(uart) - 1
        /\ \A j \in 1 .. Len(uart) - 1 : uart'[j] = uart[j + 1]
    BY <2>1, LinkTypes, Taken
  <2>6. LastEdit(pc)
    <3>1. EditsComing
      BY <2>1, <2>5, Edits
    <3>2. QED
      BY <2>3, <3>1 DEF PcInv
  <2>7. PICK i \in 1 .. Len(uart) :
           uart[i] = pc /\ pc \in Values /\ \A j \in 1 .. Len(uart) : j > i => uart[j] = "get"
    BY <2>5, <2>6 DEF LastEdit
  <2>8. EditsComing' <=> \E k \in 1 .. Len(uart') : uart'[k] \in Values
    BY <2>5, Members DEF EditsComing
  <2>9. CASE i = 1
    <3>1. ASSUME NEW k \in 1 .. Len(uart') PROVE uart'[k] \notin Values
      <4>1. k + 1 \in 1 .. Len(uart) /\ k + 1 > i /\ uart'[k] = uart[k + 1]
        BY <2>5, <2>9
      <4>2. QED
        BY <2>7, <4>1, LinkAssumption
    <3>2. pc' = running'
      BY <2>1, <2>5, <2>7, <2>9
    <3>3. ~EditsComing' /\ wire' = <<>>
      BY <2>1, <2>3, <2>8, <3>1
    <3>4. QED
      BY <2>4, <3>2, <3>3 DEF PcInv
  <2>10. CASE i > 1
    <3>1. i - 1 \in 1 .. Len(uart') /\ uart'[i - 1] = pc /\ pc' = pc
      BY <2>1, <2>5, <2>7, <2>10
    <3>2. ASSUME NEW j \in 1 .. Len(uart'), j > i - 1 PROVE uart'[j] = "get"
      BY <2>5, <2>7, <2>10, <3>2
    <3>3. LastEdit(pc)'
      <4>1. DOMAIN uart' = 1 .. Len(uart')
        BY <2>5
      <4>2. QED
        BY <2>7, <3>1, <3>2, <4>1 DEF LastEdit
    <3>4. EditsComing'
      BY <2>7, <2>8, <3>1
    <3>5. QED
      BY <3>3, <3>4 DEF PcInv
  <2>11. QED
    BY <2>7, <2>9, <2>10
<1>3. CASE UartSendsState
  <2>1. /\ PushConfig(running, uart', TRUE) /\ running' = running
        /\ running \in Values \ Refused /\ uart' \in Seq(Commands)
    BY <1>0, <1>3, LinkTypes DEF UartSendsState, edited, LinkTypeOK, Commands
  <2>2. QED
    BY <2>1, PushAgrees
<1>4. CASE OtherEvent
  <2>1. "config" \in ToSet(queue') <=> "config" \in ToSet(queue)
    BY <1>4, LinkTypes, PostedFacts DEF OtherEvent, Events
  <2>2. QED
    BY <1>4, <2>1, PcStays DEF OtherEvent, edited, pcVars
<1>5. CASE Emit
  <2>1. /\ queue # <<>> /\ queue' = Tail(queue)
        /\ wire' = IF Head(queue) = "config" THEN Append(wire, slot) ELSE wire
        /\ UNCHANGED <<running, slot, uart, pc, linkSeen>>
    BY <1>5 DEF Emit, edited
  <2>2. /\ queue \in Seq(Events) /\ Head(queue) = queue[1] /\ Len(queue) >= 1 /\ Len(queue) \in Nat
        /\ queue' \in Seq(Events) /\ Len(queue') = Len(queue) - 1
        /\ \A j \in 1 .. Len(queue) - 1 : queue'[j] = queue[j + 1]
    BY <2>1, LinkTypes, Taken
  <2>3. "config" \in ToSet(queue') => "config" \in ToSet(queue)
    <3>1. \A j \in 1 .. Len(queue) - 1 : j + 1 \in 1 .. Len(queue)
      BY <2>2
    <3>2. QED
      BY <2>2, <3>1, Members
  <2>4. EditsComing' = EditsComing /\ LastEdit(pc)' = LastEdit(pc)
    BY <2>1 DEF EditsComing, LastEdit
  <2>5. CASE Head(queue) = "config"
    <3>1. wire' # <<>> /\ wire'[Len(wire')] = slot /\ "config" \in ToSet(queue)
      <4>1. wire' = Append(wire, slot) /\ wire \in Seq(Values \ Refused) /\ slot \in Values \ Refused
        BY <2>1, <2>5, LinkTypes
      <4>2. wire' # <<>> /\ wire'[Len(wire')] = slot
        BY <4>1
      <4>3. QED
        BY <2>2, <2>5, <4>2, Members
    <3>2. QED
      BY <2>1, <2>4, <3>1 DEF PcInv
  <2>6. CASE Head(queue) # "config"
    <3>1. "config" \in ToSet(queue) => "config" \in ToSet(queue')
      <4>1. SUFFICES ASSUME "config" \in ToSet(queue) PROVE "config" \in ToSet(queue')
        OBVIOUS
      <4>2. PICK k \in 1 .. Len(queue) : queue[k] = "config"
        BY <2>2, <4>1, Members
      <4>3. k - 1 \in 1 .. Len(queue) - 1 /\ (k - 1) + 1 = k
        BY <2>2, <2>6, <4>2
      <4>4. queue'[k - 1] = "config" /\ k - 1 \in 1 .. Len(queue')
        BY <2>2, <4>2, <4>3
      <4>5. QED
        BY <2>2, <4>4, Members
    <3>2. wire' = wire
      BY <2>1, <2>6
    <3>3. QED
      BY <2>1, <2>3, <2>4, <3>1, <3>2 DEF PcInv
  <2>7. QED
    BY <2>5, <2>6
<1>6. CASE PcReceives
  <2>1. /\ wire # <<>> /\ pc' = Head(wire) /\ wire' = Tail(wire)
        /\ linkSeen' = [linkSeen EXCEPT !.apart = @ \/ EditsComing]
        /\ UNCHANGED <<running, queue, slot, uart>>
    BY <1>6 DEF PcReceives, edited
  <2>2. linkSeen'.apart <=> (linkSeen.apart \/ EditsComing)
    BY <2>1, LinkTypes DEF Seen
  <2>3. EditsComing' = EditsComing
    BY <2>1 DEF EditsComing
  <2>4. /\ wire' # <<>> => wire'[Len(wire')] = wire[Len(wire)]
        /\ wire' = <<>> => pc' = wire[Len(wire)]
    <3>1. wire \in Seq(Values \ Refused)
      BY LinkTypes
    <3>2. QED
      BY <2>1, <3>1, LastOf
  <2>5. QED
    BY <2>1, <2>2, <2>3, <2>4 DEF PcInv
<1>7. ASSUME NEW v \in Values \ Refused, Elsewhere(v)
      PROVE  PcInv'
  <2>1. /\ PushConfig(v, uart', FALSE) /\ running' = v /\ uart' \in Seq(Commands)
    BY <1>7, LinkTypes DEF Elsewhere, Change, pcVars
  <2>2. QED
    BY <2>1, PushAgrees
<1>8. ASSUME NEW v \in Values, PcEdits(v)
      PROVE  PcInv'
  <2>1. /\ pc' = v /\ uart' = Append(uart, v)
        /\ UNCHANGED <<running, queue, slot, wire, linkSeen>>
    BY <1>8 DEF PcEdits, edited
  <2>2. /\ uart' \in Seq(Commands) /\ Len(uart') = Len(uart) + 1 /\ Len(uart) \in Nat
        /\ uart'[Len(uart) + 1] = v /\ DOMAIN uart' = 1 .. Len(uart')
    BY <2>1, LinkTypes, Added
  <2>3. EditsComing'
    <3>1. EditsComing' <=> \E i \in 1 .. Len(uart') : uart'[i] \in Values
      BY <2>2, Members DEF EditsComing
    <3>2. QED
      BY <2>2, <3>1
  <2>4. LastEdit(pc)'
    <3>1. Len(uart) + 1 \in DOMAIN uart' /\ \A j \in DOMAIN uart' : ~(j > Len(uart) + 1)
      BY <2>2
    <3>2. QED
      BY <2>1, <2>2, <3>1 DEF LastEdit
  <2>5. QED
    BY <2>3, <2>4 DEF PcInv
<1>9. QED
  BY <1>1, <1>2, <1>3, <1>4, <1>5, <1>6, <1>7, <1>8 DEF PcNext, ElsewhereNext

\* The page reaches the PC only through what it makes the controller push.
LEMMA PageLeavesPc == LinkTypeOK /\ PcInv /\ PageNext => PcInv'
<1> SUFFICES ASSUME LinkTypeOK, PcInv, PageNext PROVE PcInv'
  OBVIOUS
<1>1. CASE ServerEdits
  <2>1. PICK i \in Unanswered :
          IF http[i].value \in Refused
            THEN UNCHANGED <<edited, queue, slot, linkSeen>>
            ELSE Change(http[i].value) /\ PushConfig(http[i].value, uart, FALSE)
    BY <1>1 DEF ServerEdits
  <2>2. UNCHANGED <<uart, wire, pc>>
    BY <1>1 DEF ServerEdits, pcVars
  <2>3. CASE http[i].value \in Refused
    BY <2>1, <2>2, <2>3, PcStays DEF edited
  <2>4. CASE http[i].value \notin Refused
    <3>1. http[i].value \in Values \ Refused
      BY <2>4, LinkTypes DEF Unanswered, Requests
    <3>2. /\ PushConfig(http[i].value, uart', FALSE) /\ running' = http[i].value
          /\ uart' \in Seq(Commands)
      BY <2>1, <2>2, <2>4, LinkTypes DEF Change
    <3>3. QED
      BY <3>1, <3>2, PushAgrees
  <2>5. QED
    BY <2>3, <2>4
<1>2. CASE PagePolls \/ PageSaves \/ PageSeesStatus \/ PageSeesConfig \/ PageSeesEdit
  BY <1>2, PcStays DEF PagePolls, PageSaves, PageSeesStatus, PageSeesConfig, PageSeesEdit,
                       PageServed, edited, pcVars
<1>3. CASE ServerReads
  BY <1>3, PcStays DEF ServerReads, edited, pcVars
<1>4. CASE ElsewhereNext
  BY <1>4, PcSteps DEF PcNext
<1>5. ASSUME NEW v \in Values, PageTypes(v)
      PROVE  PcInv'
  <2>1. linkSeen'.apart = linkSeen.apart
    BY <1>5, LinkTypes DEF PageTypes, Seen
  <2>2. QED
    BY <1>5, <2>1, PcStays DEF PageTypes, edited, pcVars
<1>6. QED
  BY <1>1, <1>2, <1>3, <1>4, <1>5 DEF PageNext

----------------------------------------------------------------------------
(* The page.                                                               *)

\* What changes elsewhere comes with a new revision: no answer on its way says more
\* than it did.
LEMMA RevGrows ==
    ASSUME LinkTypeOK, LinkTypeOK', PageInv, UNCHANGED <<page, http>>,
           linkSeen'.retyped = linkSeen.retyped,
           rev' >= rev, rev' = rev => running' = running
    PROVE  PageInv'
<1>1. /\ rev \in Nat /\ rev' \in Nat /\ http \in Seq(Requests) /\ page \in Pages
      /\ page.known \in Nat /\ \A i \in DOMAIN http : http[i].rev \in Nat /\ http[i].prev \in Nat
  <2>1. rev \in Nat /\ http \in Seq(Requests) /\ page \in Pages
        /\ page.known \in Nat /\ \A i \in DOMAIN http : http[i].rev \in Nat /\ http[i].prev \in Nat
    BY LinkTypes DEF Pages, Requests
  <2>2. rev' \in Nat
    BY LinkAssumption DEF LinkTypeOK
  <2>3. QED
    BY <2>1, <2>2
<1>2. \A v, r : r \in Nat /\ r <= rev /\ Fits(v, r) => Fits(v, r)'
  BY <1>1 DEF Fits
<1>3. OneOfEach' /\ InOrder' /\ ReadsLater'
  BY DEF PageInv, HttpInv, OneOfEach, InOrder, ReadsLater
<1>4. AnswersTrue'
  BY <1>1, <1>2 DEF PageInv, HttpInv, AnswersTrue
<1>5. OrderInv'
  BY <1>1 DEF PageInv, OrderInv, Rereads, Outstanding
<1>6. ReadInv'
  BY <1>1 DEF PageInv, ReadInv
<1>7. ShownInv'
  BY <1>1, <1>2 DEF PageInv, HttpInv, AnswersTrue, OrderInv, ShownInv, Outstanding
<1>8. QED
  BY <1>3, <1>4, <1>5, <1>6, <1>7 DEF PageInv, HttpInv

LEMMA NumbersTyped ==
    ASSUME LinkTypeOK
    PROVE  /\ rev \in Nat /\ page.known \in Nat /\ Len(http) \in Nat
           /\ DOMAIN http = 1 .. Len(http)
           /\ \A i \in DOMAIN http : http[i].rev \in Nat /\ http[i].prev \in Nat
<1>1. /\ rev \in Nat /\ MaxRev \in Nat /\ page \in Pages /\ Len(http) \in Nat
      /\ DOMAIN http = 1 .. Len(http) /\ \A i \in DOMAIN http : http[i] \in Requests
  BY LinkTypes
<1>2. QED
  BY <1>1 DEF Pages, Requests

\* The entry a request of the page adds.
LEMMA AskAdds ==
    ASSUME LinkTypeOK, NEW kind \in {"status", "config", "edit"}, NEW v \in Values,
           Asks(kind, v), NEW n, n = Len(http) + 1
    PROVE  /\ DOMAIN http' = 1 .. n /\ DOMAIN http = 1 .. Len(http) /\ Len(http) \in Nat
           /\ \A j \in 1 .. Len(http) : http'[j] = http[j] /\ http[j].kind # kind
           /\ http'[n].kind = kind /\ http'[n].answered = FALSE /\ http'[n].value = v
           /\ http'[n].ok = FALSE
<1>1. http \in Seq(Requests)
  BY LinkTypes
<1>2. /\ DOMAIN http' = 1 .. n /\ DOMAIN http = 1 .. Len(http) /\ Len(http) \in Nat
      /\ \A j \in 1 .. Len(http) : http'[j] = http[j] /\ http[j].kind # kind
      /\ http'[n] = Request(kind, v)
  BY <1>1, AsksFacts
<1>3. /\ Request(kind, v).kind = kind /\ Request(kind, v).value = v
      /\ Request(kind, v).answered = FALSE /\ Request(kind, v).ok = FALSE
  BY DEF Request
<1>4. QED
  BY <1>2, <1>3, Zenon

\* A request that is made disturbs no other.
LEMMA AskKeepsHttp ==
    ASSUME LinkTypeOK, HttpInv, NEW kind \in {"status", "config", "edit"}, NEW v \in Values,
           Asks(kind, v), UNCHANGED <<running, rev>>
    PROVE  HttpInv'
<1> DEFINE n == Len(http) + 1
<1>1. /\ DOMAIN http' = 1 .. n /\ DOMAIN http = 1 .. Len(http) /\ Len(http) \in Nat
      /\ \A j \in 1 .. Len(http) : http'[j] = http[j] /\ http[j].kind # kind
      /\ http'[n].kind = kind /\ http'[n].answered = FALSE /\ http'[n].ok = FALSE
  BY AskAdds
<1>2. \A j \in 1 .. n : j \in 1 .. Len(http) \/ j = n
  BY <1>1
<1>3. \A j \in 1 .. Len(http) : j < n /\ j # n
  BY <1>1
<1> HIDE DEF n
<1>4. OneOfEach'
  BY <1>1, <1>2, <1>3 DEF HttpInv, OneOfEach
<1>5. InOrder'
  <2> SUFFICES ASSUME NEW i \in 1 .. n, NEW j \in 1 .. n, i < j, http'[j].answered
               PROVE  http'[i].answered
    BY <1>1 DEF InOrder
  <2>1. j \in 1 .. Len(http) /\ i \in 1 .. Len(http)
    BY <1>1, <1>2
  <2>2. QED
    BY <1>1, <2>1 DEF HttpInv, InOrder
<1>6. AnswersTrue'
  BY <1>1, <1>2 DEF HttpInv, AnswersTrue, Fits
<1>7. ReadsLater'
  BY <1>1, <1>2 DEF HttpInv, ReadsLater
<1>8. QED
  BY <1>4, <1>5, <1>6, <1>7 DEF HttpInv

LEMMA PollKeeps == LinkTypeOK /\ PageInv /\ PagePolls => PageInv'
<1> SUFFICES ASSUME LinkTypeOK, PageInv, PagePolls PROVE PageInv'
  OBVIOUS
<1> DEFINE n == Len(http) + 1
<1>1. Asks("status", Initial) /\ UNCHANGED <<page, running, rev, linkSeen>>
  BY DEF PagePolls, PageServed, edited
<1>2. /\ DOMAIN http' = 1 .. n /\ DOMAIN http = 1 .. Len(http) /\ Len(http) \in Nat
      /\ \A j \in 1 .. Len(http) : http'[j] = http[j]
      /\ http'[n].kind = "status" /\ http'[n].answered = FALSE
  BY <1>1, LinkTypes, AskAdds
<1>3. \A j \in 1 .. n : j \in 1 .. Len(http) \/ j = n
  BY <1>2
<1>4. \A j \in 1 .. Len(http) : j \in 1 .. n
  BY <1>2
<1> HIDE DEF n
<1>5. HttpInv'
  BY <1>1, LinkTypes, AskKeepsHttp DEF PageInv
<1>6. /\ Outstanding("config")' <=> Outstanding("config")
      /\ Outstanding("edit")' <=> Outstanding("edit")
      /\ Rereads' <=> Rereads
  BY <1>2, <1>3, <1>4 DEF Outstanding, Rereads
<1>7. OrderInv'
  BY <1>1, <1>2, <1>3, <1>6 DEF PageInv, OrderInv
<1>8. ReadInv'
  BY <1>1, <1>2, <1>3 DEF PageInv, ReadInv
<1>9. ShownInv'
  BY <1>1, <1>2, <1>3, <1>6 DEF PageInv, ShownInv, Fits
<1>10. QED
  BY <1>5, <1>7, <1>8, <1>9 DEF PageInv

LEMMA SaveKeeps == LinkTypeOK /\ PageInv /\ PageSaves => PageInv'
<1> SUFFICES ASSUME LinkTypeOK, PageInv, PageSaves PROVE PageInv'
  OBVIOUS
<1> DEFINE n == Len(http) + 1
<1>1. /\ page.dirty /\ Asks("edit", page.shown) /\ UNCHANGED <<running, rev, linkSeen>>
      /\ page' = [page EXCEPT !.dirty = FALSE] /\ page \in Pages
  BY LinkTypes DEF PageSaves, PageServed, edited
<1>2. /\ page'.known = page.known /\ page'.shown = page.shown /\ page.shown \in Values
      /\ page'.stale = page.stale /\ page'.sync = page.sync
  BY <1>1 DEF Pages
<1>3. /\ DOMAIN http' = 1 .. n /\ DOMAIN http = 1 .. Len(http) /\ Len(http) \in Nat
      /\ \A j \in 1 .. Len(http) : http'[j] = http[j] /\ http[j].kind # "edit"
      /\ http'[n].kind = "edit" /\ http'[n].answered = FALSE /\ http'[n].value = page.shown
  <2>1. page.shown \in Values /\ Asks("edit", page.shown)
    BY <1>1, <1>2
  <2>2. QED
    BY <2>1, AskAdds
<1>4. \A j \in 1 .. n : j \in 1 .. Len(http) \/ j = n
  BY <1>3
<1>5. \A j \in 1 .. Len(http) : j \in 1 .. n
  BY <1>3
<1>6. n \in 1 .. n
  BY <1>3
<1> HIDE DEF n
<1>7. HttpInv'
  BY <1>1, <1>2, AskKeepsHttp DEF PageInv
<1>8. Outstanding("config")' <=> Outstanding("config")
  BY <1>3, <1>4, <1>5 DEF Outstanding
<1>9. Outstanding("edit")'
  BY <1>3, <1>6 DEF Outstanding
\* Nothing is being read, or the field was edited meanwhile.
<1>10. ~linkSeen.retyped => ~Outstanding("config")
  BY <1>1 DEF PageInv, OrderInv, Rereads, Outstanding
<1>11. linkSeen'.retyped = linkSeen.retyped /\ page'.dirty = FALSE
  BY <1>1 DEF Pages
<1>12. OrderInv'
  BY <1>1, <1>2, <1>8, <1>10, <1>11 DEF PageInv, OrderInv, Outstanding
<1>13. ReadInv'
  BY <1>8, <1>10, <1>11 DEF ReadInv, Outstanding
<1>14. ShownInv'
  BY <1>2, <1>3, <1>4, <1>9 DEF ShownInv
<1>15. QED
  BY <1>7, <1>12, <1>13, <1>14 DEF PageInv

LEMMA TypingKeeps ==
    ASSUME LinkTypeOK, PageInv, NEW v \in Values, PageTypes(v) PROVE PageInv'
<1>1. /\ page' = [page EXCEPT !.shown = v, !.dirty = TRUE] /\ page \in Pages
      /\ linkSeen' = [linkSeen EXCEPT !.retyped = Rereads] /\ linkSeen \in Seen
      /\ UNCHANGED <<running, rev, http>>
  BY LinkTypes DEF PageTypes, edited
<1>2. page'.known = page.known /\ page'.dirty /\ page'.stale = page.stale /\ page'.sync = page.sync
  BY <1>1 DEF Pages
<1>3. linkSeen'.retyped <=> Rereads
  BY <1>1 DEF Seen
<1>4. HttpInv'
  BY <1>1 DEF PageInv, HttpInv, OneOfEach, InOrder, AnswersTrue, ReadsLater, Fits
<1>5. OrderInv'
  BY <1>1, <1>2, <1>3 DEF PageInv, OrderInv, Outstanding, Rereads
<1>6. ReadInv' /\ ShownInv'
  BY <1>1, <1>2, <1>3 DEF ReadInv, ShownInv, Rereads
<1>7. QED
  BY <1>4, <1>5, <1>6 DEF PageInv

\* The controller answers the first request that waits.
LEMMA ReadKeeps == LinkTypeOK /\ PageInv /\ ServerReads => PageInv'
<1> SUFFICES ASSUME LinkTypeOK, PageInv, ServerReads PROVE PageInv'
  OBVIOUS
<1>1. PICK i \in Unanswered :
          /\ http[i].kind # "edit"
          /\ Answer(i, [http[i] EXCEPT !.ok = TRUE, !.value = running, !.rev = rev])
  BY DEF ServerReads
<1>2. UNCHANGED <<running, rev, page, linkSeen>>
  BY DEF ServerReads, edited
<1>3. /\ i \in DOMAIN http /\ http[i] \in Requests /\ http \in Seq(Requests)
      /\ ~http[i].answered /\ \A j \in 1 .. i - 1 : http[j].answered
  BY LinkTypes DEF Unanswered
<1> DEFINE r == [http[i] EXCEPT !.ok = TRUE, !.value = running, !.rev = rev]
<1>4. /\ r \in Requests /\ r.kind = http[i].kind /\ r.ok = TRUE /\ r.value = running /\ r.rev = rev
  <2>1. running \in Values /\ rev \in 0 .. MaxRev
    BY LinkTypes
  <2>2. QED
    BY <1>3, <2>1 DEF Requests
<1>5. Answer(i, r)
  BY <1>1
<1> HIDE DEF r
<1>6. /\ DOMAIN http' = DOMAIN http /\ \A j \in DOMAIN http : j # i => http'[j] = http[j]
      /\ http'[i].kind = http[i].kind /\ http'[i].answered = TRUE /\ http'[i].ok = TRUE
      /\ http'[i].value = running /\ http'[i].rev = rev /\ DOMAIN http = 1 .. Len(http)
      /\ Len(http) \in Nat
  <2>1. /\ DOMAIN http' = 1 .. Len(http) /\ DOMAIN http = 1 .. Len(http)
        /\ \A j \in 1 .. Len(http) : j # i => http'[j] = http[j]
        /\ http'[i].kind = r.kind /\ http'[i].answered = TRUE /\ http'[i].ok = r.ok
        /\ http'[i].value = r.value /\ http'[i].rev = r.rev
    BY <1>3, <1>4, <1>5, AnswerFacts
  <2>2. QED
    BY <1>3, <1>4, <2>1
<1>7. /\ \A j \in DOMAIN http : http'[j].kind = http[j].kind
      /\ \A j \in DOMAIN http : http[j].kind = "edit" => http'[j] = http[j]
  BY <1>1, <1>6
<1>8. OneOfEach'
  BY <1>6, <1>7 DEF PageInv, HttpInv, OneOfEach
<1>9. InOrder'
  <2> SUFFICES ASSUME NEW j \in DOMAIN http, NEW k \in DOMAIN http, j < k, http'[k].answered
               PROVE  http'[j].answered
    BY <1>6 DEF InOrder
  <2>1. CASE k = i
    <3>1. j \in 1 .. i - 1 /\ j # i
      BY <1>3, <1>6, <2>1
    <3>2. QED
      BY <1>3, <1>6, <3>1
  <2>2. CASE k # i
    BY <1>6, <2>2 DEF PageInv, HttpInv, InOrder
  <2>3. QED
    BY <2>1, <2>2
<1>10. AnswersTrue'
  <2>1. rev \in Nat
    BY NumbersTyped
  <2>2. QED
    BY <1>1, <1>2, <1>6, <2>1 DEF PageInv, HttpInv, AnswersTrue, Fits
<1>11. ReadsLater'
  BY <1>1, <1>6, <1>7 DEF PageInv, HttpInv, AnswersTrue, ReadsLater
<1>12. /\ Rereads' <=> Rereads
       /\ Outstanding("config")' <=> Outstanding("config")
       /\ Outstanding("edit")' <=> Outstanding("edit")
  BY <1>6, <1>7 DEF Rereads, Outstanding
<1>13. OrderInv'
  BY <1>2, <1>6, <1>7, <1>12 DEF PageInv, OrderInv
<1>14. ReadInv'
  BY <1>2, <1>6 DEF PageInv, ReadInv, OrderInv
<1>15. ShownInv'
  BY <1>2, <1>6, <1>7, <1>12 DEF PageInv, ShownInv, Fits
<1>16. QED
  BY <1>8, <1>9, <1>10, <1>11, <1>13, <1>14, <1>15 DEF PageInv, HttpInv

LEMMA EditKeeps == LinkTypeOK /\ LinkTypeOK' /\ PageInv /\ ServerEdits => PageInv'
<1> SUFFICES ASSUME LinkTypeOK, LinkTypeOK', PageInv, ServerEdits PROVE PageInv'
  OBVIOUS
<1> DEFINE Fit(v, r) == r = rev' => v = running'
<1>1. PICK i \in Unanswered :
          /\ http[i].kind = "edit"
          /\ IF http[i].value \in Refused
               THEN /\ Answer(i, [http[i] EXCEPT !.prev = rev, !.rev = rev])
                    /\ UNCHANGED <<edited, queue, slot, linkSeen>>
               ELSE /\ Change(http[i].value) /\ PushConfig(http[i].value, uart, FALSE)
                    /\ Answer(i, [http[i] EXCEPT !.ok = TRUE, !.prev = rev, !.rev = rev + 1])
  BY DEF ServerEdits
<1>2. /\ i \in DOMAIN http /\ http[i] \in Requests /\ http \in Seq(Requests) /\ http[i].value \in Values
      /\ ~http[i].answered /\ \A j \in 1 .. i - 1 : http[j].answered
      /\ rev \in Nat /\ rev \in 0 .. MaxRev /\ DOMAIN http = 1 .. Len(http) /\ Len(http) \in Nat
  BY LinkTypes DEF Unanswered, Requests
\* What the answer is, and how the revision moves with it.
<1>3. /\ page' = page /\ linkSeen'.retyped = linkSeen.retyped
      /\ DOMAIN http' = DOMAIN http /\ \A j \in DOMAIN http : j # i => http'[j] = http[j]
      /\ http'[i].kind = "edit" /\ http'[i].answered = TRUE /\ http'[i].value = http[i].value
      /\ http'[i].rev = rev' /\ http'[i].prev = rev
      /\ http'[i].ok <=> http[i].value \notin Refused
      /\ http'[i].ok => rev' = rev + 1 /\ running' = http[i].value
      /\ ~http'[i].ok => rev' = rev /\ running' = running
  <2>1. page' = page
    BY DEF ServerEdits
  <2>2. CASE http[i].value \in Refused
    <3> DEFINE r == [http[i] EXCEPT !.prev = rev, !.rev = rev]
    <3>1. /\ r \in Requests /\ r.kind = "edit" /\ r.value = http[i].value /\ r.ok = http[i].ok
          /\ r.prev = rev /\ r.rev = rev
      BY <1>1, <1>2 DEF Requests
    <3>2. Answer(i, r) /\ UNCHANGED <<running, rev, linkSeen>>
      BY <1>1, <2>2 DEF edited
    <3>3. ~http[i].ok
      BY <1>2 DEF PageInv, HttpInv, AnswersTrue
    <3> HIDE DEF r
    <3>4. /\ DOMAIN http' = 1 .. Len(http) /\ DOMAIN http = 1 .. Len(http)
          /\ \A j \in 1 .. Len(http) : j # i => http'[j] = http[j]
          /\ http'[i].kind = r.kind /\ http'[i].answered = TRUE /\ http'[i].ok = r.ok
          /\ http'[i].value = r.value /\ http'[i].rev = r.rev /\ http'[i].prev = r.prev
      BY <1>2, <3>1, <3>2, AnswerFacts
    <3>5. QED
      BY <2>1, <2>2, <3>1, <3>2, <3>3, <3>4
  <2>3. CASE http[i].value \notin Refused
    <3> DEFINE r == [http[i] EXCEPT !.ok = TRUE, !.prev = rev, !.rev = rev + 1]
    <3>1. Answer(i, r) /\ Change(http[i].value) /\ PushConfig(http[i].value, uart, FALSE)
      BY <1>1, <2>3
    <3>2. rev' = rev + 1 /\ running' = http[i].value /\ rev + 1 \in 0 .. MaxRev
      BY <1>2, <3>1, LinkTypes DEF Change
    <3>3. /\ r \in Requests /\ r.kind = "edit" /\ r.value = http[i].value /\ r.ok = TRUE
          /\ r.prev = rev /\ r.rev = rev + 1
      BY <1>1, <1>2, <3>2 DEF Requests
    <3> HIDE DEF r
    <3>4. /\ DOMAIN http' = 1 .. Len(http) /\ DOMAIN http = 1 .. Len(http)
          /\ \A j \in 1 .. Len(http) : j # i => http'[j] = http[j]
          /\ http'[i].kind = r.kind /\ http'[i].answered = TRUE /\ http'[i].ok = r.ok
          /\ http'[i].value = r.value /\ http'[i].rev = r.rev /\ http'[i].prev = r.prev
      BY <1>2, <3>1, <3>3, AnswerFacts
    <3>5. linkSeen'.retyped = linkSeen.retyped
      <4>1. http[i].value \in Values \ Refused /\ uart \in Seq(Commands) /\ FALSE \in BOOLEAN
        BY <1>2, <2>3, LinkTypes
      <4>2. QED
        BY <3>1, <4>1, PushFacts
    <3>6. QED
      BY <2>1, <2>3, <3>2, <3>3, <3>4, <3>5
  <2>4. QED
    BY <2>2, <2>3
<1>4. rev' \in Nat /\ rev' >= rev /\ (rev' = rev => running' = running)
  BY <1>2, <1>3
<1>5. /\ \A j \in DOMAIN http : http[j].rev \in Nat /\ http[j].prev \in Nat
      /\ page.known \in Nat
  BY NumbersTyped
<1>6. \A v, r : r \in Nat /\ r <= rev /\ Fits(v, r) => Fit(v, r)
  BY <1>2, <1>4 DEF Fits
<1>7. /\ \A j \in DOMAIN http : http'[j].kind = http[j].kind /\ http'[j].value = http[j].value
      /\ \A j \in DOMAIN http : http[j].kind = "config" => http'[j] = http[j]
  BY <1>1, <1>2, <1>3
<1>8. OneOfEach'
  BY <1>3, <1>7 DEF PageInv, HttpInv, OneOfEach
<1>9. InOrder'
  <2> SUFFICES ASSUME NEW j \in DOMAIN http, NEW k \in DOMAIN http, j < k, http'[k].answered
               PROVE  http'[j].answered
    BY <1>3 DEF InOrder
  <2>1. CASE k = i
    <3>1. j \in 1 .. i - 1 /\ j # i
      BY <1>2, <2>1
    <3>2. QED
      BY <1>2, <1>3, <3>1
  <2>2. CASE k # i
    BY <1>3, <2>2 DEF PageInv, HttpInv, InOrder
  <2>3. QED
    BY <2>1, <2>2
<1>10. AnswersTrue'
  <2>1. Fit(http'[i].value, http'[i].rev) \/ ~http'[i].ok
    BY <1>3 DEF Fits
  <2> SUFFICES ASSUME NEW j \in DOMAIN http
               PROVE  /\ ~http'[j].answered => ~http'[j].ok
                      /\ http'[j].answered =>
                            /\ http'[j].rev <= rev'
                            /\ http'[j].kind = "config" => Fit(http'[j].value, http'[j].rev)
                            /\ http'[j].kind = "edit" =>
                                  /\ http'[j].ok <=> http'[j].value \notin Refused
                                  /\ http'[j].ok => /\ http'[j].prev < http'[j].rev
                                                    /\ Fit(http'[j].value, http'[j].rev)
    BY <1>3 DEF AnswersTrue, Fits
  <2>2. CASE j = i
    BY <1>2, <1>3, <1>4, <2>1, <2>2
  <2>3. CASE j # i
    BY <1>2, <1>3, <1>4, <1>5, <1>6, <2>3 DEF PageInv, HttpInv, AnswersTrue
  <2>4. QED
    BY <2>2, <2>3
\* A read behind the edit is not answered yet.
<1>11. ReadsLater'
  <2>1. \A j \in DOMAIN http : http[j].kind = "edit" => j = i
    BY <1>1, <1>2 DEF PageInv, HttpInv, OneOfEach
  <2>2. \A j \in DOMAIN http : i < j => ~http[j].answered
    BY <1>2 DEF PageInv, HttpInv, InOrder
  <2>3. QED
    BY <1>2, <1>3, <1>7, <2>1, <2>2 DEF ReadsLater
<1>12. /\ Rereads' <=> Rereads
       /\ Outstanding("config")' <=> Outstanding("config")
       /\ Outstanding("edit")' <=> Outstanding("edit")
  BY <1>3, <1>7 DEF Rereads, Outstanding
<1>13. OrderInv'
  BY <1>2, <1>3, <1>4, <1>5, <1>7, <1>12 DEF PageInv, OrderInv
<1>14. ReadInv'
  BY <1>3, <1>7 DEF PageInv, ReadInv
<1>15. ShownInv'
  <2> SUFFICES ASSUME ~linkSeen.retyped, ~page.dirty
               PROVE  /\ \A j \in DOMAIN http :
                            http'[j].kind = "edit" /\ ~http'[j].answered => page.shown = http'[j].value
                      /\ \A j \in DOMAIN http :
                            http'[j].kind = "edit" /\ http'[j].answered /\ http'[j].ok =>
                               Fit(page.shown, IF page.known = http'[j].prev THEN http'[j].rev
                                               ELSE page.known)
                      /\ Outstanding("edit")'
    BY <1>3 DEF ShownInv, Fits
  <2>1. \A j \in DOMAIN http : http'[j].kind = "edit" => j = i
    BY <1>1, <1>2, <1>7 DEF PageInv, HttpInv, OneOfEach
  <2>2. page.shown = http[i].value
    BY <1>1, <1>2 DEF PageInv, ShownInv
  <2>3. http'[i].ok => Fit(page.shown, IF page.known = http'[i].prev THEN http'[i].rev
                                       ELSE page.known)
    <3>1. page.known <= rev
      BY DEF PageInv, OrderInv
    <3>2. QED
      BY <1>2, <1>3, <1>5, <2>2, <3>1 DEF Fits
  <2>4. Outstanding("edit")'
    BY <1>2, <1>3 DEF Outstanding
  <2>5. QED
    BY <1>3, <2>1, <2>3, <2>4
<1>16. QED
  BY <1>8, <1>9, <1>10, <1>11, <1>13, <1>14, <1>15 DEF PageInv, HttpInv

\* The entries that stay keep their order, and none but entry i is lost.
LEMMA BeforeFacts ==
    ASSUME NEW m \in Nat, NEW i \in 1 .. m
    PROVE  /\ \A j \in 1 .. m - 1 : Before(i, j) \in 1 .. m /\ Before(i, j) # i
           /\ \A j, k \in 1 .. m - 1 : j < k <=> Before(i, j) < Before(i, k)
           /\ \A j, k \in 1 .. m - 1 : Before(i, j) = Before(i, k) => j = k
           /\ \A k \in 1 .. m : k # i => \E j \in 1 .. m - 1 : Before(i, j) = k
<1>1. ASSUME NEW k \in 1 .. m, k # i PROVE \E j \in 1 .. m - 1 : Before(i, j) = k
  <2>1. CASE k < i
    <3>1. k \in 1 .. m - 1 /\ Before(i, k) = k
      BY <2>1 DEF Before
    <3>2. QED
      BY <3>1
  <2>2. CASE k > i
    <3>1. k - 1 \in 1 .. m - 1 /\ Before(i, k - 1) = k
      BY <2>2 DEF Before
    <3>2. QED
      BY <3>1
  <2>3. QED
    BY <1>1, <2>1, <2>2
<1>2. QED
  BY <1>1 DEF Before

\* The requests after the page has used answer i.
LEMMA UsedSteps ==
    ASSUME LinkTypeOK, HttpInv, NEW i \in DOMAIN http, NEW reads \in BOOLEAN, Used(i, reads),
           reads => ~Outstanding("config"), UNCHANGED <<running, rev>>,
           NEW m, m = Len(http)
    PROVE  /\ m \in Nat /\ i \in 1 .. m /\ DOMAIN http = 1 .. m
           /\ DOMAIN http' = IF reads THEN 1 .. m ELSE 1 .. m - 1
           /\ \A j \in 1 .. m - 1 : Before(i, j) \in DOMAIN http /\ Before(i, j) # i
                                  /\ http'[j] = http[Before(i, j)]
           /\ reads => http'[m].kind = "config" /\ ~http'[m].answered /\ ~http'[m].ok
           /\ Outstanding("edit")' <=> \E j \in DOMAIN http : j # i /\ http[j].kind = "edit"
           /\ Outstanding("config")' <=>
                 (reads \/ \E j \in DOMAIN http : j # i /\ http[j].kind = "config")
           /\ HttpInv'
<1>1. /\ http \in Seq(Requests) /\ DOMAIN http = 1 .. m /\ m \in Nat /\ i \in 1 .. m
  BY LinkTypes
<1>2. /\ DOMAIN http' = 1 .. Len(http')
      /\ ~reads => Len(http') = m - 1
      /\ reads => Len(http') = m /\ http'[m] = Request("config", Initial)
      /\ \A j \in 1 .. m - 1 : http'[j] = http[Before(i, j)]
  BY <1>1, UsedFacts
<1>3. DOMAIN http' = IF reads THEN 1 .. m ELSE 1 .. m - 1
  BY <1>2
<1>4. reads => http'[m].kind = "config" /\ ~http'[m].answered /\ ~http'[m].ok
  <2>1. /\ Request("config", Initial).kind = "config" /\ ~Request("config", Initial).answered
        /\ ~Request("config", Initial).ok
    BY DEF Request
  <2>2. QED
    BY <1>2, <2>1
<1>5. /\ \A j \in 1 .. m - 1 : Before(i, j) \in 1 .. m /\ Before(i, j) # i
      /\ \A j, k \in 1 .. m - 1 : j < k <=> Before(i, j) < Before(i, k)
      /\ \A j, k \in 1 .. m - 1 : Before(i, j) = Before(i, k) => j = k
      /\ \A k \in 1 .. m : k # i => \E j \in 1 .. m - 1 : Before(i, j) = k
  BY <1>1, BeforeFacts
<1>6. \A j \in DOMAIN http' : j \in 1 .. m - 1 \/ (reads /\ j = m)
  BY <1>1, <1>3
<1>7. \A j \in 1 .. m - 1 : j \in DOMAIN http' /\ j < m
  BY <1>1, <1>3
<1>8. reads => m \in DOMAIN http' /\ \A j \in DOMAIN http : http[j].kind # "config"
  BY <1>1, <1>3 DEF Outstanding
<1>a. \A j \in 1 .. m - 1 : Before(i, j) \in DOMAIN http /\ Before(i, j) # i
                            /\ http'[j] = http[Before(i, j)]
  BY <1>1, <1>2, <1>5
<1>b. \A k \in DOMAIN http : k # i => \E j \in DOMAIN http' : http'[j] = http[k]
  <2> SUFFICES ASSUME NEW k \in DOMAIN http, k # i PROVE \E j \in DOMAIN http' : http'[j] = http[k]
    OBVIOUS
  <2>1. PICK j \in 1 .. m - 1 : Before(i, j) = k
    BY <1>1, <1>5
  <2>2. QED
    BY <1>7, <1>a, <2>1
<1>9. Outstanding("edit")' <=> \E j \in DOMAIN http : j # i /\ http[j].kind = "edit"
  BY <1>4, <1>6, <1>a, <1>b DEF Outstanding
<1>10. Outstanding("config")' <=>
         (reads \/ \E j \in DOMAIN http : j # i /\ http[j].kind = "config")
  BY <1>4, <1>6, <1>8, <1>a, <1>b DEF Outstanding
<1>11. OneOfEach'
  <2> SUFFICES ASSUME NEW j \in DOMAIN http', NEW k \in DOMAIN http',
                      http'[j].kind = http'[k].kind
               PROVE  j = k
    BY DEF OneOfEach
  <2>1. CASE j \in 1 .. m - 1 /\ k \in 1 .. m - 1
    <3>1. Before(i, j) = Before(i, k)
      BY <1>a, <2>1 DEF HttpInv, OneOfEach
    <3>2. QED
      BY <1>5, <2>1, <3>1
  <2>2. CASE reads /\ j = m /\ k \in 1 .. m - 1
    BY <1>4, <1>8, <1>a, <2>2
  <2>3. CASE reads /\ k = m /\ j \in 1 .. m - 1
    BY <1>4, <1>8, <1>a, <2>3
  <2>4. QED
    BY <1>6, <2>1, <2>2, <2>3
<1>12. InOrder'
  <2> SUFFICES ASSUME NEW j \in DOMAIN http', NEW k \in DOMAIN http', j < k, http'[k].answered
               PROVE  http'[j].answered
    BY DEF InOrder
  <2>1. k \in 1 .. m - 1
    BY <1>4, <1>6
  <2>2. j \in 1 .. m - 1
    BY <1>1, <1>6, <2>1
  <2>3. Before(i, j) < Before(i, k) /\ http[Before(i, k)].answered
    BY <1>2, <1>5, <2>1, <2>2
  <2>4. QED
    BY <1>a, <2>1, <2>2, <2>3 DEF HttpInv, InOrder
<1>13. AnswersTrue'
  <2> SUFFICES ASSUME NEW j \in DOMAIN http'
               PROVE  /\ ~http'[j].answered => ~http'[j].ok
                      /\ http'[j].answered =>
                            /\ http'[j].rev <= rev
                            /\ http'[j].kind = "config" => Fits(http'[j].value, http'[j].rev)
                            /\ http'[j].kind = "edit" =>
                                  /\ http'[j].ok <=> http'[j].value \notin Refused
                                  /\ http'[j].ok => /\ http'[j].prev < http'[j].rev
                                                    /\ Fits(http'[j].value, http'[j].rev)
    BY DEF AnswersTrue, Fits
  <2>1. CASE j \in 1 .. m - 1
    BY <1>a, <2>1 DEF HttpInv, AnswersTrue
  <2>2. CASE reads /\ j = m
    BY <1>4, <2>2
  <2>3. QED
    BY <1>6, <2>1, <2>2
<1>14. ReadsLater'
  <2> SUFFICES ASSUME NEW j \in DOMAIN http', NEW k \in DOMAIN http', j < k,
                      http'[j].kind = "edit", http'[k].kind = "config",
                      http'[j].answered, http'[k].answered
               PROVE  http'[j].rev <= http'[k].rev
    BY DEF ReadsLater
  <2>1. k \in 1 .. m - 1 /\ j \in 1 .. m - 1
    BY <1>4, <1>6
  <2>2. Before(i, j) < Before(i, k)
    BY <1>5, <2>1
  <2>3. QED
    BY <1>a, <2>1, <2>2 DEF HttpInv, ReadsLater
<1>15. QED
  BY <1>1, <1>3, <1>4, <1>a, <1>9, <1>10, <1>11, <1>12, <1>13, <1>14 DEF HttpInv

LEMMA StatusKeeps == LinkTypeOK /\ PageInv /\ PageSeesStatus => PageInv'
<1> SUFFICES ASSUME LinkTypeOK, PageInv, PageSeesStatus PROVE PageInv'
  OBVIOUS
<1>1. PICK i \in Answers("status") :
        LET new   == page.known # http[i].rev
            reads == (page.stale \/ new) /\ page.sync = "no" /\ ~page.dirty
                        /\ ~Outstanding("config")
        IN  /\ page' = [page EXCEPT
                  !.known = http[i].rev, !.stale = @ \/ new,
                  !.sync = IF reads THEN "asked"
                           ELSE IF new /\ @ = "asked" THEN "outdated" ELSE @]
            /\ Used(i, reads)
  BY DEF PageSeesStatus
<1> DEFINE m     == Len(http)
           new   == page.known # http[i].rev
           stale == page.stale \/ new
           reads == stale /\ page.sync = "no" /\ ~page.dirty /\ ~Outstanding("config")
           sync  == IF reads THEN "asked"
                    ELSE IF new /\ page.sync = "asked" THEN "outdated" ELSE page.sync
<1>2. page' = [page EXCEPT !.known = http[i].rev, !.stale = stale, !.sync = sync] /\ Used(i, reads)
  BY <1>1
<1>3. UNCHANGED <<running, rev, linkSeen>>
  BY DEF PageSeesStatus, PageServed, edited
<1>4. i \in DOMAIN http /\ http[i].answered /\ http[i].kind = "status" /\ page \in Pages
  BY LinkTypes DEF Answers
<1>5. stale \in BOOLEAN /\ reads \in BOOLEAN
  BY Zenon
<1>6. /\ stale <=> (page.stale \/ new)
      /\ reads <=> (stale /\ page.sync = "no" /\ ~page.dirty /\ ~Outstanding("config"))
      /\ reads => sync = "asked"
      /\ ~reads => sync = IF new /\ page.sync = "asked" THEN "outdated" ELSE page.sync
  OBVIOUS
<1>7. ~new => http[i].rev = page.known
  OBVIOUS
<1> HIDE DEF stale, reads, sync, new, m
<1>8. /\ page'.known = http[i].rev /\ page'.shown = page.shown /\ page'.dirty = page.dirty
      /\ page'.sync = sync /\ page'.stale = stale
  BY <1>2, <1>4 DEF Pages
<1>9. /\ m \in Nat /\ i \in 1 .. m /\ DOMAIN http = 1 .. m
      /\ DOMAIN http' = IF reads THEN 1 .. m ELSE 1 .. m - 1
      /\ \A j \in 1 .. m - 1 : Before(i, j) \in DOMAIN http /\ Before(i, j) # i
                             /\ http'[j] = http[Before(i, j)]
      /\ reads => http'[m].kind = "config" /\ ~http'[m].answered /\ ~http'[m].ok
      /\ Outstanding("edit")' <=> \E j \in DOMAIN http : j # i /\ http[j].kind = "edit"
      /\ Outstanding("config")' <=>
            (reads \/ \E j \in DOMAIN http : j # i /\ http[j].kind = "config")
      /\ HttpInv'
  <2>1. reads => ~Outstanding("config")
    BY <1>6
  <2>2. HttpInv /\ m = Len(http) /\ Used(i, reads) /\ i \in DOMAIN http
    BY <1>2, <1>4 DEF PageInv, m
  <2>3. QED
    BY <1>3, <1>5, <2>1, <2>2, UsedSteps
<1>10. /\ Outstanding("edit")' <=> Outstanding("edit")
       /\ Outstanding("config")' <=> (reads \/ Outstanding("config"))
  BY <1>4, <1>9 DEF Outstanding
<1>11. \A j \in DOMAIN http' : j \in 1 .. m - 1 \/ (reads /\ j = m)
  BY <1>9
<1>12. ~reads => (Rereads' => Rereads)
  BY <1>9, <1>11 DEF Rereads
<1>13. http[i].rev <= rev
  BY <1>4 DEF PageInv, HttpInv, AnswersTrue
<1>14. OrderInv'
  <2>1. page'.sync # "no" => Outstanding("config")'
    BY <1>6, <1>8, <1>10 DEF PageInv, OrderInv
  <2>2. page'.sync = "outdated" => page'.stale
    BY <1>6, <1>8 DEF PageInv, OrderInv
  <2>3. ~linkSeen.retyped /\ page.dirty => ~Rereads'
    BY <1>6, <1>12 DEF PageInv, OrderInv
  <2>4. ASSUME ~linkSeen.retyped, NEW j \in DOMAIN http', NEW k \in DOMAIN http',
               http'[j].kind = "edit", http'[k].kind = "config"
        PROVE  j < k
    <3>1. j \in 1 .. m - 1
      BY <1>9, <1>11, <2>4
    <3>2. CASE k \in 1 .. m - 1
      <4>1. Before(i, j) < Before(i, k)
        BY <1>9, <2>4, <3>1, <3>2 DEF PageInv, OrderInv
      <4>2. QED
        BY <1>9, <3>1, <3>2, <4>1, BeforeFacts
    <3>3. CASE k = m
      BY <1>9, <3>1, <3>3
    <3>4. QED
      BY <1>11, <3>2, <3>3
  <2>5. QED
    BY <1>3, <1>8, <1>13, <2>1, <2>2, <2>3, <2>4 DEF OrderInv
\* The revision the page reads at is still the one it asked for.
<1>15. ReadInv'
  <2> SUFFICES ASSUME ~linkSeen.retyped, NEW j \in DOMAIN http',
                      http'[j].kind = "config", http'[j].answered, page'.sync # "outdated",
                      page'.sync = "asked" \/ ~page'.stale
               PROVE  page'.known <= http'[j].rev
    BY <1>3 DEF ReadInv
  <2>1. j \in 1 .. m - 1
    BY <1>9, <1>11
  <2>2. /\ Before(i, j) \in DOMAIN http /\ http[Before(i, j)].kind = "config"
        /\ http[Before(i, j)].answered /\ http'[j].rev = http[Before(i, j)].rev
    BY <1>9, <2>1
  <2>3. ~reads
    BY <1>6, <2>2 DEF Outstanding
  <2>4. ~new /\ page.sync # "outdated" /\ (page.sync = "asked" \/ ~page.stale)
    BY <1>6, <1>8, <2>3
  <2>5. page.known <= http[Before(i, j)].rev
    BY <2>2, <2>4 DEF PageInv, ReadInv
  <2>6. QED
    BY <1>7, <1>8, <2>2, <2>4, <2>5
<1>16. ShownInv'
  <2> SUFFICES ASSUME ~linkSeen.retyped, ~page.dirty PROVE ShownInv'
    BY <1>3, <1>8 DEF ShownInv
  <2>1. ASSUME NEW j \in DOMAIN http', http'[j].kind = "edit", ~http'[j].answered
        PROVE  page'.shown = http'[j].value
    BY <1>8, <1>9, <1>11, <2>1 DEF PageInv, ShownInv
  <2>2. ASSUME ~Outstanding("config")', ~page'.stale
        PROVE  ~reads /\ page'.known = page.known /\ ~page.stale /\ ~Outstanding("config")
    BY <1>6, <1>7, <1>8, <1>10, <2>2
  <2>3. ASSUME ~Outstanding("config")', ~page'.stale, ~Outstanding("edit")'
        PROVE  Fits(page'.shown, page'.known)
    BY <1>8, <1>10, <2>2, <2>3 DEF PageInv, ShownInv
  <2>4. ASSUME ~Outstanding("config")', ~page'.stale, NEW j \in DOMAIN http',
               http'[j].kind = "edit", http'[j].answered, http'[j].ok
        PROVE  Fits(page'.shown, IF page'.known = http'[j].prev THEN http'[j].rev
                                 ELSE page'.known)
    BY <1>8, <1>9, <1>11, <2>2, <2>4 DEF PageInv, ShownInv
  <2>5. QED
    BY <1>3, <2>1, <2>3, <2>4 DEF ShownInv, Fits
<1>17. QED
  BY <1>9, <1>14, <1>15, <1>16 DEF PageInv

LEMMA ConfigKeeps == LinkTypeOK /\ PageInv /\ PageSeesConfig => PageInv'
<1> SUFFICES ASSUME LinkTypeOK, PageInv, PageSeesConfig PROVE PageInv'
  OBVIOUS
<1>1. PICK i \in Answers("config") :
        /\ page' = [page EXCEPT !.shown = http[i].value, !.sync = "no",
                                !.stale = @ /\ page.sync # "asked"]
        /\ Used(i, FALSE)
  BY DEF PageSeesConfig
<1> DEFINE m     == Len(http)
           stale == page.stale /\ page.sync # "asked"
<1>2. page' = [page EXCEPT !.shown = http[i].value, !.sync = "no", !.stale = stale]
  BY <1>1
<1>3. UNCHANGED <<running, rev, linkSeen>>
  BY DEF PageSeesConfig, PageServed, edited
<1>4. i \in DOMAIN http /\ http[i].answered /\ http[i].kind = "config" /\ page \in Pages
  BY LinkTypes DEF Answers
<1>5. stale <=> (page.stale /\ page.sync # "asked")
  OBVIOUS
<1> HIDE DEF stale, m
<1>6. /\ page'.known = page.known /\ page'.shown = http[i].value /\ page'.dirty = page.dirty
      /\ page'.sync = "no" /\ page'.stale = stale
  BY <1>2, <1>4 DEF Pages
<1>7. /\ m \in Nat /\ i \in 1 .. m /\ DOMAIN http = 1 .. m
      /\ DOMAIN http' = 1 .. m - 1
      /\ \A j \in 1 .. m - 1 : Before(i, j) \in DOMAIN http /\ Before(i, j) # i
                             /\ http'[j] = http[Before(i, j)]
      /\ Outstanding("edit")' <=> \E j \in DOMAIN http : j # i /\ http[j].kind = "edit"
      /\ Outstanding("config")' <=> \E j \in DOMAIN http : j # i /\ http[j].kind = "config"
      /\ HttpInv'
  <2> DEFINE reads == FALSE
  <2>1. /\ HttpInv /\ m = Len(http) /\ Used(i, reads) /\ i \in DOMAIN http
        /\ reads \in BOOLEAN /\ ~reads
    BY <1>1, <1>4 DEF PageInv, m
  <2> HIDE DEF reads
  <2>2. /\ m \in Nat /\ i \in 1 .. m /\ DOMAIN http = 1 .. m
        /\ DOMAIN http' = IF reads THEN 1 .. m ELSE 1 .. m - 1
        /\ \A j \in 1 .. m - 1 : Before(i, j) \in DOMAIN http /\ Before(i, j) # i
                               /\ http'[j] = http[Before(i, j)]
        /\ Outstanding("edit")' <=> \E j \in DOMAIN http : j # i /\ http[j].kind = "edit"
        /\ Outstanding("config")' <=>
              (reads \/ \E j \in DOMAIN http : j # i /\ http[j].kind = "config")
        /\ HttpInv'
    BY <1>3, <2>1, UsedSteps
  <2>3. QED
    BY <2>1, <2>2
<1>8. ~Outstanding("config")'
  BY <1>4, <1>7 DEF PageInv, HttpInv, OneOfEach
<1>9. page.known <= rev /\ (page.sync = "outdated" => page.stale)
  BY DEF PageInv, OrderInv
<1>10. OrderInv'
  <2>1. page.dirty /\ ~linkSeen.retyped => ~Rereads'
    BY <1>7 DEF PageInv, OrderInv, Rereads
  <2>2. \A j \in DOMAIN http' : http'[j].kind # "config"
    BY <1>8 DEF Outstanding
  <2>3. page'.sync # "outdated"
    BY <1>6
  <2>4. QED
    BY <1>3, <1>6, <1>9, <2>1, <2>2, <2>3 DEF OrderInv
<1>11. ReadInv'
  BY <1>8 DEF ReadInv, Outstanding
<1>12. ShownInv'
  <2> SUFFICES ASSUME ~linkSeen.retyped, ~page.dirty PROVE ShownInv'
    BY <1>3, <1>6 DEF ShownInv
  \* An edit was made before the page began to read, so it is answered too.
  <2>1. \A k \in DOMAIN http : http[k].kind = "edit" =>
           /\ k < i /\ http[k].answered
           /\ http[k].rev <= http[i].rev
    BY <1>4 DEF PageInv, OrderInv, HttpInv, InOrder, ReadsLater
  <2>2. /\ http[i].rev <= rev /\ Fits(http[i].value, http[i].rev)
        /\ http[i].rev \in Nat /\ rev \in Nat /\ page.known \in Nat
        /\ \A k \in DOMAIN http : http[k].rev \in Nat
    BY <1>4, NumbersTyped DEF PageInv, HttpInv, AnswersTrue
  <2>3. \A k \in DOMAIN http : http[k].answered => http[k].rev <= rev
    BY DEF PageInv, HttpInv, AnswersTrue
  <2>4. ASSUME ~page'.stale
        PROVE  Fits(page'.shown, page'.known)
    <3>1. page.known <= http[i].rev
      BY <1>4, <1>5, <1>6, <1>9, <2>4 DEF PageInv, ReadInv
    <3>2. QED
      BY <1>6, <1>9, <2>2, <3>1 DEF Fits
  <2>5. ASSUME NEW j \in DOMAIN http', http'[j].kind = "edit"
        PROVE  http'[j].answered /\ Fits(page'.shown, http'[j].rev)
    <3>1. /\ Before(i, j) \in DOMAIN http /\ http'[j] = http[Before(i, j)]
      BY <1>7
    <3>2. http[Before(i, j)].answered /\ http[Before(i, j)].rev <= http[i].rev
      BY <2>1, <2>5, <3>1
    <3>3. Fits(http[i].value, http[Before(i, j)].rev)
      BY <2>2, <2>3, <3>1, <3>2 DEF Fits
    <3>4. QED
      BY <1>6, <3>1, <3>2, <3>3
  <2>6. QED
    BY <1>3, <2>4, <2>5 DEF ShownInv, Fits
<1>13. QED
  BY <1>7, <1>10, <1>11, <1>12 DEF PageInv

LEMMA AnswerKeeps == LinkTypeOK /\ PageInv /\ PageSeesEdit => PageInv'
<1> SUFFICES ASSUME LinkTypeOK, PageInv, PageSeesEdit PROVE PageInv'
  OBVIOUS
<1>1. PICK i \in Answers("edit") :
        /\ page' = [page EXCEPT !.known = IF http[i].prev = @ THEN http[i].rev ELSE @]
        /\ Used(i, ~http[i].ok /\ ~Outstanding("config"))
  BY DEF PageSeesEdit
<1> DEFINE m     == Len(http)
           reads == ~http[i].ok /\ ~Outstanding("config")
           known == IF http[i].prev = page.known THEN http[i].rev ELSE page.known
<1>2. page' = [page EXCEPT !.known = known] /\ Used(i, reads)
  BY <1>1
<1>3. UNCHANGED <<running, rev, linkSeen>>
  BY DEF PageSeesEdit, PageServed, edited
<1>4. i \in DOMAIN http /\ http[i].answered /\ http[i].kind = "edit" /\ page \in Pages
  BY LinkTypes DEF Answers
<1>5. reads \in BOOLEAN /\ (reads <=> (~http[i].ok /\ ~Outstanding("config")))
  BY Zenon
<1>6. known = IF page.known = http[i].prev THEN http[i].rev ELSE page.known
  OBVIOUS
<1> HIDE DEF reads, known, m
<1>7. /\ page'.known = known /\ page'.shown = page.shown /\ page'.dirty = page.dirty
      /\ page'.sync = page.sync /\ page'.stale = page.stale
  BY <1>2, <1>4 DEF Pages
<1>8. /\ m \in Nat /\ i \in 1 .. m /\ DOMAIN http = 1 .. m
      /\ DOMAIN http' = IF reads THEN 1 .. m ELSE 1 .. m - 1
      /\ \A j \in 1 .. m - 1 : Before(i, j) \in DOMAIN http /\ Before(i, j) # i
                             /\ http'[j] = http[Before(i, j)]
      /\ reads => http'[m].kind = "config" /\ ~http'[m].answered /\ ~http'[m].ok
      /\ Outstanding("edit")' <=> \E j \in DOMAIN http : j # i /\ http[j].kind = "edit"
      /\ Outstanding("config")' <=>
            (reads \/ \E j \in DOMAIN http : j # i /\ http[j].kind = "config")
      /\ HttpInv'
  <2>1. reads => ~Outstanding("config")
    BY <1>5
  <2>2. HttpInv /\ m = Len(http) /\ Used(i, reads) /\ i \in DOMAIN http
    BY <1>2, <1>4 DEF PageInv, m
  <2>3. QED
    BY <1>3, <1>5, <2>1, <2>2, UsedSteps
<1>9. \A j \in DOMAIN http' : j \in 1 .. m - 1 \/ (reads /\ j = m)
  BY <1>8
\* It was the only edit.
<1>10. ~Outstanding("edit")'
  BY <1>4, <1>8 DEF PageInv, HttpInv, OneOfEach
<1>11. Outstanding("config")' <=> (reads \/ Outstanding("config"))
  BY <1>4, <1>8 DEF Outstanding
<1>12. /\ http[i].rev <= rev /\ (http[i].ok <=> http[i].value \notin Refused)
       /\ page.known <= rev
  BY <1>4 DEF PageInv, HttpInv, AnswersTrue, OrderInv
<1>13. OrderInv'
  <2>1. page'.sync # "no" => Outstanding("config")'
    BY <1>7, <1>11 DEF PageInv, OrderInv
  <2>2. page'.sync = "outdated" => page'.stale
    BY <1>7 DEF PageInv, OrderInv
  <2>3. ASSUME ~linkSeen.retyped, page.dirty PROVE ~Rereads'
    <3>1. ~Rereads
      BY <2>3 DEF PageInv, OrderInv
    <3>2. http[i].value \notin Refused
      BY <1>4, <3>1 DEF Rereads
    <3>3. ~reads
      BY <1>5, <1>12, <3>2
    <3>4. QED
      BY <1>8, <1>9, <3>1, <3>3 DEF Rereads
  <2>4. \A j \in DOMAIN http' : http'[j].kind # "edit"
    BY <1>10 DEF Outstanding
  <2>5. page'.known <= rev
    BY <1>6, <1>7, <1>12
  <2>6. QED
    BY <1>3, <1>7, <2>1, <2>2, <2>3, <2>4, <2>5 DEF OrderInv
<1>14. ReadInv'
  <2> SUFFICES ASSUME ~linkSeen.retyped, NEW j \in DOMAIN http',
                      http'[j].kind = "config", http'[j].answered, page'.sync # "outdated",
                      page'.sync = "asked" \/ ~page'.stale
               PROVE  page'.known <= http'[j].rev
    BY <1>3 DEF ReadInv
  <2>1. j \in 1 .. m - 1
    BY <1>8, <1>9
  <2> DEFINE k == Before(i, j)
  <2>2. /\ k \in DOMAIN http /\ http[k].kind = "config"
        /\ http[k].answered /\ http'[j].rev = http[k].rev
    BY <1>8, <2>1
  <2> HIDE DEF k
  <2>3. page.known <= http[k].rev
    BY <1>7, <2>2 DEF PageInv, ReadInv
  <2>4. i < k
    BY <1>4, <2>2 DEF PageInv, OrderInv
  <2>5. http[i].rev <= http[k].rev
    BY <1>4, <2>2, <2>4 DEF PageInv, HttpInv, ReadsLater
  <2>6. QED
    BY <1>6, <1>7, <2>2, <2>3, <2>5
<1>15. ShownInv'
  <2> SUFFICES ASSUME ~linkSeen.retyped, ~page.dirty PROVE ShownInv'
    BY <1>3, <1>7 DEF ShownInv
  <2>1. \A j \in DOMAIN http' : http'[j].kind # "edit"
    BY <1>10 DEF Outstanding
  <2>2. ASSUME ~Outstanding("config")', ~page'.stale
        PROVE  Fits(page'.shown, page'.known)
    <3>1. http[i].ok /\ ~Outstanding("config") /\ ~page.stale
      BY <1>5, <1>7, <1>11, <2>2
    <3>2. QED
      BY <1>4, <1>6, <1>7, <3>1 DEF PageInv, ShownInv
  <2>3. QED
    BY <1>3, <2>1, <2>2 DEF ShownInv, Fits
<1>16. QED
  BY <1>8, <1>13, <1>14, <1>15 DEF PageInv

----------------------------------------------------------------------------
(* Both views.                                                             *)

LEMMA PcLeavesPage == LinkTypeOK /\ LinkTypeOK' /\ PageInv /\ PcNext => PageInv'
<1> SUFFICES ASSUME LinkTypeOK, LinkTypeOK', PageInv, PcNext PROVE PageInv'
  OBVIOUS
<1>0. rev \in Nat /\ linkSeen \in Seen
  BY LinkTypes
<1>1. /\ UNCHANGED <<page, http>> /\ linkSeen'.retyped = linkSeen.retyped
      /\ rev' >= rev /\ (rev' = rev => running' = running)
  <2>1. CASE PcAsks \/ OtherEvent \/ Emit \/ \E v \in Values : PcEdits(v)
    BY <1>0, <2>1 DEF PcAsks, OtherEvent, Emit, PcEdits, edited, pageVars
  <2>2. CASE UartEdits
    BY <1>0, <2>2 DEF UartEdits, Change, pageVars, Seen
  <2>3. CASE UartSendsState
    <3>1. /\ running \in Values \ Refused /\ Tail(uart) \in Seq(Commands) /\ TRUE \in BOOLEAN
          /\ PushConfig(running, Tail(uart), TRUE) /\ UNCHANGED <<running, rev, page, http>>
      BY <2>3, LinkTypes, Taken DEF UartSendsState, edited, pageVars
    <3>2. linkSeen'.retyped = linkSeen.retyped
      BY <3>1, PushFacts
    <3>3. QED
      BY <1>0, <3>1, <3>2
  <2>4. CASE PcReceives
    BY <1>0, <2>4 DEF PcReceives, edited, pageVars, Seen
  <2>5. ASSUME NEW v \in Values \ Refused, Elsewhere(v)
        PROVE  /\ UNCHANGED <<page, http>> /\ linkSeen'.retyped = linkSeen.retyped
               /\ rev' >= rev /\ (rev' = rev => running' = running)
    <3>1. /\ uart \in Seq(Commands) /\ FALSE \in BOOLEAN /\ PushConfig(v, uart, FALSE)
          /\ UNCHANGED <<page, http>> /\ rev' = rev + 1
      BY <2>5, LinkTypes DEF Elsewhere, Change, pageVars
    <3>2. linkSeen'.retyped = linkSeen.retyped
      BY <3>1, PushFacts
    <3>3. QED
      BY <1>0, <3>1, <3>2
  <2>6. QED
    BY <2>1, <2>2, <2>3, <2>4, <2>5 DEF PcNext, ElsewhereNext
<1>2. QED
  BY <1>1, RevGrows

LEMMA LinkStart == LinkInit => LinkInv
<1> SUFFICES ASSUME LinkInit PROVE LinkInv
  OBVIOUS
<1>1. /\ <<>> \in Seq(Events) /\ <<>> \in Seq(Commands) /\ <<>> \in Seq(Values \ Refused)
      /\ <<>> \in Seq(Requests) /\ Len(<<>>) = 0 /\ DOMAIN <<>> = {}
  OBVIOUS
<1>2. LinkTypeOK
  BY <1>1, LinkAssumption DEF LinkInit, LinkTypeOK, Commands
<1>3. ~EditsComing /\ "config" \notin ToSet(queue)
  BY <1>1 DEF LinkInit, EditsComing, ToSet
<1>4. PcInv
  BY <1>3 DEF LinkInit, PcInv
<1>5. HttpInv
  BY <1>1 DEF LinkInit, HttpInv, OneOfEach, InOrder, AnswersTrue, ReadsLater
<1>6. OrderInv /\ ReadInv /\ ShownInv
  BY <1>1 DEF LinkInit, OrderInv, ReadInv, ShownInv, Outstanding, Fits
<1>7. QED
  BY <1>2, <1>4, <1>5, <1>6 DEF LinkInv, PageInv

LEMMA LinkSteps == LinkInv /\ [LinkNext]_linkVars => LinkInv'
<1> SUFFICES ASSUME LinkTypeOK, PcInv, PageInv, [LinkNext]_linkVars PROVE LinkInv'
  BY DEF LinkInv
<1>1. CASE PcNext
  BY <1>1, PcKeepsTypes, PcSteps, PcLeavesPage DEF LinkInv
<1>2. CASE PageNext
  <2>1. LinkTypeOK' /\ PcInv'
    BY <1>2, PageKeepsTypes, PageLeavesPc
  <2>2. PageInv'
    <3>1. CASE ElsewhereNext
      BY <2>1, <3>1, PcLeavesPage DEF PcNext
    <3>2. QED
      BY <1>2, <2>1, <3>1, PollKeeps, SaveKeeps, TypingKeeps, ReadKeeps, EditKeeps,
         StatusKeeps, ConfigKeeps, AnswerKeeps DEF PageNext
  <2>3. QED
    BY <2>1, <2>2 DEF LinkInv
<1>3. CASE UNCHANGED linkVars
  <2>1. UNCHANGED <<running, rev, queue, slot, uart, wire, pc, page, http, linkSeen>>
    BY <1>3 DEF linkVars, edited, pcVars, pageVars
  <2>2. LinkTypeOK'
    BY <2>1 DEF LinkTypeOK
  <2>3. PcInv'
    BY <2>1, PcStays
  <2>4. PageInv'
    BY <2>1, <2>2, LinkTypes, RevGrows
  <2>5. QED
    BY <2>2, <2>3, <2>4 DEF LinkInv
<1>4. QED
  BY <1>1, <1>2, <1>3 DEF LinkNext

LEMMA LinkInvariant == LinkSpec => []LinkInv
<1>1. LinkInit => LinkInv
  BY LinkStart
<1>2. LinkInv /\ [LinkNext]_linkVars => LinkInv'
  BY LinkSteps
<1>3. QED
  BY <1>1, <1>2, PTL DEF LinkSpec

\* Every variable of the three views keeps its type, the queue its length.
THEOREM LinkTypeCorrect == LinkSpec => []LinkTypeOK
<1>1. LinkInv => LinkTypeOK
  BY DEF LinkInv
<1>2. QED
  BY <1>1, LinkInvariant, PTL

\* With nothing on its way the PC shows what the controller runs, and the page too once
\* it knows the revision: for every set of values, queue length and number of requests.
THEOREM ViewsCorrect == LinkSpec => []ViewsAgree
<1>1. LinkInv => ViewsAgree
  <2> SUFFICES ASSUME LinkInv PROVE ViewsAgree
    OBVIOUS
  <2>1. PcAgrees
    <3>1. ASSUME ~EditsComing, ~OnItsWay PROVE pc = running \/ linkSeen.apart
      BY <3>1 DEF LinkInv, PcInv, OnItsWay
    <3>2. QED
      BY <3>1 DEF PcAgrees
  <2>2. PageIsCurrent
    <3> SUFFICES ASSUME page.known = rev, ~page.stale, ~page.dirty, http = <<>>, ~linkSeen.retyped
                 PROVE  page.shown = running
      BY DEF PageIsCurrent
    <3>1. DOMAIN http = {}
      OBVIOUS
    <3>2. Fits(page.shown, page.known)
      BY <3>1 DEF LinkInv, PageInv, ShownInv, Outstanding
    <3>3. QED
      BY <3>2 DEF Fits
  <2>3. QED
    BY <2>1, <2>2 DEF ViewsAgree
<1>2. QED
  BY <1>1, LinkInvariant, PTL
=============================================================================
