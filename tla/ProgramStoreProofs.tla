------------------------- MODULE ProgramStoreProofs -------------------------
(***************************************************************************)
(* Proofs about the program store (modules ProgramFormat, ProgramStore):   *)
(* for every configuration an edit may leave, what a program file brings   *)
(* back; for any number of programs, that list, files and active program   *)
(* agree across power cuts and refused flash operations, and that the      *)
(* store keeps the promise of ProgramMap.                                  *)
(***************************************************************************)
EXTENDS ProgramStore, TLAPS, WellFoundedInduction

----------------------------------------------------------------------------
(* The way through a file.                                                 *)

LEMMA ElementFields ==
    ASSUME NEW e \in ElementType, NEW type
    PROVE  /\ ElementSet(type, e) \in ElementType
           /\ ElementSet(type, e).start = e.start /\ ElementSet(type, e).end = e.end
           /\ ElementSet(type, e).spacing = IF type = "dots" THEN e.spacing ELSE 0
BY DEF ElementSet, ElementType

LEMMA SameElements ==
    ASSUME NEW e \in ElementType, NEW f \in ElementType,
           e.start = f.start, e.end = f.end, e.spacing = f.spacing
    PROVE  e = f
BY DEF ElementType

LEMMA SamePatterns ==
    ASSUME NEW p \in PatternType, NEW q \in PatternType,
           p.type = q.type, p.on = q.on, Len(p.elems) = Len(q.elems),
           \A i \in 1 .. Len(p.elems) : p.elems[i] = q.elems[i]
    PROVE  p = q
<1>1. p.elems = q.elems
  BY DEF PatternType
<1>2. QED
  BY <1>1 DEF PatternType

LEMMA PatternFields ==
    ASSUME NEW p \in PatternType
    PROVE  /\ PatternSet(p) \in PatternType
           /\ PatternSet(p).type = p.type /\ PatternSet(p).on = p.on
           /\ p.type = "none" => PatternSet(p).elems = <<>>
           /\ p.type # "none" =>
                 /\ Len(PatternSet(p).elems) = Len(p.elems)
                 /\ \A i \in 1 .. Len(p.elems) :
                       PatternSet(p).elems[i] = ElementSet(p.type, p.elems[i])
<1> DEFINE es == IF p.type = "none" THEN <<>>
                 ELSE [i \in DOMAIN p.elems |-> ElementSet(p.type, p.elems[i])]
<1>1. PatternSet(p) = [p EXCEPT !.elems = es]
  BY DEF PatternSet
<1>2. p.elems \in Seq(ElementType) /\ DOMAIN p.elems = 1 .. Len(p.elems)
      /\ Len(p.elems) \in Nat
  BY DEF PatternType
<1>3. \A i \in 1 .. Len(p.elems) : ElementSet(p.type, p.elems[i]) \in ElementType
  BY <1>2, ElementFields
<1>4. es \in Seq(ElementType)
  BY <1>2, <1>3
<1>5. /\ p.type = "none" => es = <<>>
      /\ p.type # "none" => /\ Len(es) = Len(p.elems)
                            /\ \A i \in 1 .. Len(p.elems) : es[i] = ElementSet(p.type, p.elems[i])
  BY <1>2, <1>3
<1> HIDE DEF es
<1>6. QED
  BY <1>1, <1>4, <1>5 DEF PatternType

LEMMA WrittenFields ==
    ASSUME NEW p \in PatternType
    PROVE  /\ PatternWritten(p) \in PatternType
           /\ PatternWritten(p).type = p.type /\ PatternWritten(p).on = p.on
           /\ Len(PatternWritten(p).elems) = Len(p.elems)
           /\ \A i \in 1 .. Len(p.elems) :
                 LET e == PatternWritten(p).elems[i] IN
                 /\ e \in ElementType
                 /\ e.start = p.elems[i].start /\ e.end = p.elems[i].end
                 /\ p.type = "dots" => e.spacing = p.elems[i].spacing
<1> DEFINE es == [i \in DOMAIN p.elems |-> IF p.type = "dots" THEN p.elems[i]
                                          ELSE [p.elems[i] EXCEPT !.spacing = Missing]]
<1>1. PatternWritten(p) = [p EXCEPT !.elems = es]
  BY DEF PatternWritten
<1>2. p.elems \in Seq(ElementType) /\ DOMAIN p.elems = 1 .. Len(p.elems)
      /\ Len(p.elems) \in Nat
  BY DEF PatternType
<1>3. \A i \in 1 .. Len(p.elems) :
         /\ es[i] \in ElementType
         /\ es[i].start = p.elems[i].start /\ es[i].end = p.elems[i].end
         /\ p.type = "dots" => es[i].spacing = p.elems[i].spacing
  <2> SUFFICES ASSUME NEW i \in 1 .. Len(p.elems)
               PROVE  /\ es[i] \in ElementType
                      /\ es[i].start = p.elems[i].start /\ es[i].end = p.elems[i].end
                      /\ p.type = "dots" => es[i].spacing = p.elems[i].spacing
    OBVIOUS
  <2>1. p.elems[i] \in ElementType
    BY <1>2
  <2>2. es[i] = IF p.type = "dots" THEN p.elems[i] ELSE [p.elems[i] EXCEPT !.spacing = Missing]
    BY <1>2
  <2> HIDE DEF es
  <2>3. QED
    BY <2>1, <2>2 DEF ElementType, Missing
<1>4. es \in Seq(ElementType) /\ Len(es) = Len(p.elems)
  <2>1. DOMAIN es = 1 .. Len(p.elems) /\ es = [i \in 1 .. Len(p.elems) |-> es[i]]
    BY <1>2
  <2> HIDE DEF es
  <2>2. QED
    BY <1>2, <1>3, <2>1
<1> HIDE DEF es
<1>5. QED
  BY <1>1, <1>2, <1>3, <1>4 DEF PatternType

\* One pattern: what an edit left comes back, and is refused only when a pattern
\* that is not "none" has no elements.
LEMMA PatternRoundTrip ==
    ASSUME NEW q \in PatternType, PatternAccepted(q)
    PROVE  /\ PatternSet(PatternWritten(PatternSet(q))) = PatternSet(q)
           /\ PatternParses(PatternWritten(PatternSet(q)))
                 <=> ~(PatternSet(q).type # "none" /\ PatternSet(q).elems = <<>>)
<1> DEFINE p == PatternSet(q)
           f == PatternWritten(p)
           b == PatternSet(f)
<1>1. /\ p \in PatternType /\ p.type = q.type /\ p.on = q.on
      /\ p.type = "none" => p.elems = <<>>
      /\ p.type # "none" =>
            /\ Len(p.elems) = Len(q.elems)
            /\ \A i \in 1 .. Len(q.elems) : p.elems[i] = ElementSet(p.type, q.elems[i])
  BY PatternFields
<1>2. /\ f \in PatternType /\ f.type = p.type /\ f.on = p.on
      /\ Len(f.elems) = Len(p.elems)
      /\ \A i \in 1 .. Len(p.elems) :
            /\ f.elems[i] \in ElementType
            /\ f.elems[i].start = p.elems[i].start /\ f.elems[i].end = p.elems[i].end
            /\ p.type = "dots" => f.elems[i].spacing = p.elems[i].spacing
  BY <1>1, WrittenFields
<1>3. /\ b \in PatternType /\ b.type = f.type /\ b.on = f.on
      /\ f.type = "none" => b.elems = <<>>
      /\ f.type # "none" =>
            /\ Len(b.elems) = Len(f.elems)
            /\ \A i \in 1 .. Len(f.elems) : b.elems[i] = ElementSet(f.type, f.elems[i])
  BY <1>2, PatternFields
<1>4. /\ q.elems \in Seq(ElementType) /\ Len(q.elems) \in Nat
      /\ p.elems \in Seq(ElementType) /\ Len(p.elems) \in Nat
      /\ f.elems \in Seq(ElementType)
      /\ \A i \in 1 .. Len(q.elems) : q.elems[i] \in ElementType
      /\ \A i \in 1 .. Len(p.elems) : p.elems[i] \in ElementType
  BY <1>1, <1>2 DEF PatternType
<1> HIDE DEF p, f, b
<1>5. ASSUME q.type # "none", NEW i \in 1 .. Len(q.elems)
      PROVE  /\ b.elems[i] = p.elems[i]
             /\ p.elems[i].start <= p.elems[i].end
             /\ q.type = "dots" => p.elems[i].spacing > 0
  <2>1. /\ p.elems[i] = ElementSet(q.type, q.elems[i])
        /\ b.elems[i] = ElementSet(q.type, f.elems[i])
        /\ q.elems[i] \in ElementType /\ f.elems[i] \in ElementType
        /\ p.elems[i] \in ElementType
    BY <1>1, <1>2, <1>3, <1>4, <1>5
  <2>2. /\ p.elems[i].start = q.elems[i].start /\ p.elems[i].end = q.elems[i].end
        /\ p.elems[i].spacing = IF q.type = "dots" THEN q.elems[i].spacing ELSE 0
    BY <2>1, ElementFields
  <2>3. /\ f.elems[i].start = p.elems[i].start /\ f.elems[i].end = p.elems[i].end
        /\ q.type = "dots" => f.elems[i].spacing = p.elems[i].spacing
    BY <1>1, <1>2, <1>5
  <2>4. /\ b.elems[i].start = f.elems[i].start /\ b.elems[i].end = f.elems[i].end
        /\ b.elems[i].spacing = IF q.type = "dots" THEN f.elems[i].spacing ELSE 0
        /\ b.elems[i] \in ElementType
    BY <2>1, ElementFields
  <2>5. b.elems[i] = p.elems[i]
    BY <2>1, <2>2, <2>3, <2>4, SameElements
  <2>6. ElementAccepted(q.type, q.elems[i])
    BY <1>4, <1>5 DEF PatternAccepted, ElementsAccepted, ToSet, PatternType
  <2>7. QED
    BY <2>2, <2>5, <2>6 DEF ElementAccepted
<1>6. b = p
  <2>1. CASE q.type = "none"
    BY <2>1, <1>1, <1>2, <1>3, SamePatterns
  <2>2. CASE q.type # "none"
    BY <2>2, <1>1, <1>2, <1>3, <1>5, SamePatterns
  <2>3. QED
    BY <2>1, <2>2
<1>7. ASSUME q.type # "none"
      PROVE  ElementsAccepted(f)
  <2>1. Len(f.elems) <= MaxElements
    BY <1>1, <1>2, <1>7 DEF PatternAccepted, ElementsAccepted
  <2>2. ASSUME NEW e \in ToSet(f.elems) PROVE ElementAccepted(f.type, e)
    <3>1. PICK i \in 1 .. Len(q.elems) : e = f.elems[i]
      BY <1>1, <1>2, <1>4, <1>7 DEF ToSet
    <3>2. /\ f.elems[i].start = p.elems[i].start /\ f.elems[i].end = p.elems[i].end
          /\ q.type = "dots" => f.elems[i].spacing = p.elems[i].spacing
      BY <1>1, <1>2, <1>7
    <3>3. QED
      BY <1>1, <1>2, <1>5, <1>7, <3>1, <3>2 DEF ElementAccepted
  <2>3. QED
    BY <2>1, <2>2 DEF ElementsAccepted
<1>8. (f.elems = <<>>) <=> (p.elems = <<>>)
  BY <1>1, <1>2, <1>4
<1>9. PatternParses(f) <=> ~(p.type # "none" /\ p.elems = <<>>)
  BY <1>1, <1>2, <1>7, <1>8 DEF PatternParses, PatternAccepted
<1>10. QED
  BY <1>6, <1>9 DEF b, f, p

LEMMA LeastOfTwo ==
    ASSUME NEW a \in Int, NEW b \in Int
    PROVE  Min({a, b}) = IF a <= b THEN a ELSE b
BY DEF Min

\* All that parses is typed; what an edit leaves has the guns of the draft.
LEMMA EditedFields ==
    ASSUME NEW d \in ConfigType
    PROVE  /\ Edited(d) = [d EXCEPT !.guns = [g \in 1 .. Len(d.guns) |-> PatternSet(d.guns[g])]]
           /\ Edited(d) \in ConfigType /\ Len(Edited(d).guns) = Len(d.guns)
           /\ \A g \in 1 .. Len(d.guns) : /\ d.guns[g] \in PatternType
                                         /\ Edited(d).guns[g] = PatternSet(d.guns[g])
<1> DEFINE gs == [g \in 1 .. Len(d.guns) |-> PatternSet(d.guns[g])]
<1>1. /\ d.guns \in Seq(PatternType) /\ Len(d.guns) \in Nat
      /\ DOMAIN d.guns = 1 .. Len(d.guns)
      /\ \A g \in 1 .. Len(d.guns) : d.guns[g] \in PatternType
  BY DEF ConfigType
<1>2. gs \in Seq(PatternType) /\ Len(gs) = Len(d.guns)
  BY <1>1, PatternFields
<1>3. Edited(d) = [d EXCEPT !.guns = gs]
  BY <1>1 DEF Edited
<1>4. \A g \in 1 .. Len(d.guns) : gs[g] = PatternSet(d.guns[g])
  OBVIOUS
<1> HIDE DEF gs
<1>5. Edited(d) \in ConfigType /\ Edited(d).guns = gs
  BY <1>2, <1>3 DEF ConfigType
<1>6. QED
  BY <1>1, <1>2, <1>3, <1>4, <1>5 DEF gs

LEMMA WrittenConfig ==
    ASSUME NEW c \in ConfigType
    PROVE  Written(c) = [c EXCEPT !.guns = [g \in 1 .. Len(c.guns) |-> PatternWritten(c.guns[g])]]
<1>1. DOMAIN c.guns = 1 .. Len(c.guns)
  BY DEF ConfigType
<1>2. QED
  BY <1>1 DEF Written

\* Every configuration that edits can leave comes back from its file as it was, if
\* validateAndParse() takes the file, and it takes it unless a speed or an offset
\* is negative or a pattern with a type has no elements.
THEOREM FileKeepsEdits ==
    ASSUME NEW d \in ConfigType, Accepted(d)
    PROVE  RoundTrip(Edited(d)) /\ (Parses(Written(Edited(d))) <=> ~Lost(Edited(d)))
<1> DEFINE c == Edited(d)
           f == Written(c)
           n == Len(d.guns)
           ws == [g \in 1 .. n |-> PatternWritten(c.guns[g])]
<1>1. /\ c \in ConfigType /\ Len(c.guns) = n /\ n \in Nat
      /\ \A g \in 1 .. n : d.guns[g] \in PatternType /\ c.guns[g] = PatternSet(d.guns[g])
      /\ d.guns \in Seq(PatternType) /\ c.guns \in Seq(PatternType)
  BY EditedFields DEF ConfigType
<1>2. /\ c.pulses = d.pulses /\ c.speed = d.speed /\ c.offset = d.offset
      /\ c.pick = d.pick /\ c.hold = d.hold /\ c.source = d.source /\ c.paper = d.paper
  BY EditedFields DEF ConfigType
<1>3. SettingsAccepted(d) /\ \A g \in 1 .. n : PatternAccepted(d.guns[g])
  BY <1>1 DEF Accepted, ToSet
<1>4. \A g \in 1 .. n :
         /\ PatternSet(PatternWritten(c.guns[g])) = c.guns[g]
         /\ PatternParses(PatternWritten(c.guns[g]))
               <=> ~(c.guns[g].type # "none" /\ c.guns[g].elems = <<>>)
  BY <1>1, <1>3, PatternRoundTrip
<1>5. /\ f = [c EXCEPT !.guns = ws]
      /\ f.pulses = c.pulses /\ f.speed = c.speed /\ f.offset = c.offset
      /\ f.pick = c.pick /\ f.hold = c.hold /\ f.source = c.source /\ f.paper = c.paper
      /\ f.guns = ws
  BY <1>1, WrittenConfig DEF ConfigType
<1>6. DOMAIN ws = 1 .. n /\ \A g \in 1 .. n : ws[g] = PatternWritten(c.guns[g])
  OBVIOUS
<1>7. /\ MaxPick \in Int /\ MaxHold \in Int
      /\ d.pick \in Int /\ d.hold \in Int /\ d.paper \in Int
  BY FormatAssumption DEF ConfigType
<1> HIDE DEF c, f, n, ws
<1>8. PickOf(f) = d.pick /\ HoldOf(f) = d.hold
  BY <1>2, <1>3, <1>5, <1>7, LeastOfTwo DEF PickOf, HoldOf, SettingsAccepted
<1>9. Parses(f) <=> ~Lost(c)
  <2>1. (\A p \in ToSet(f.guns) : PatternParses(p))
           <=> \A g \in 1 .. n : PatternParses(ws[g])
    BY <1>5, <1>6 DEF ToSet
  <2>2. (\E p \in ToSet(c.guns) : p.type # "none" /\ p.elems = <<>>)
           <=> \E g \in 1 .. n : c.guns[g].type # "none" /\ c.guns[g].elems = <<>>
    BY <1>1 DEF ToSet
  <2>3. d.speed \in Int /\ d.offset \in Int
    BY DEF ConfigType
  <2>4. QED
    BY <1>2, <1>3, <1>4, <1>5, <1>6, <1>7, <1>8, <2>1, <2>2, <2>3
       DEF Parses, Lost, SettingsAccepted
<1>10. Parsed(f) = c
  <2> DEFINE gs == [g \in DOMAIN f.guns |-> PatternSet(f.guns[g])]
  <2>1. gs = [g \in 1 .. n |-> c.guns[g]]
    BY <1>4, <1>5, <1>6
  <2>2. gs = c.guns
    BY <2>1, <1>1
  <2>3. f.paper > 0
    BY <1>2, <1>3, <1>5 DEF SettingsAccepted
  <2>4. Parsed(f) = [f EXCEPT !.pick = d.pick, !.hold = d.hold, !.paper = f.paper, !.guns = gs]
    BY <1>8, <2>3 DEF Parsed
  <2> HIDE DEF gs
  <2>5. QED
    BY <1>1, <1>2, <1>5, <2>2, <2>4 DEF ConfigType
<1>11. QED
  BY <1>9, <1>10 DEF RoundTrip, c, f

----------------------------------------------------------------------------
(* The inductive invariant.                                                *)

Replacing == job.at \in {"write", "remove", "rename"}

\* What the replacement of a program file carries, and whose file it is.
ProgramJob ==
    Replacing /\ job.slot \in Ids =>
        /\ job.op \in {"save", "autosave", "rename", "seed", "reseed"}
        /\ IF job.op = "rename" THEN job.data = Content(job.slot) /\ job.slot \in ram.ids
                                ELSE job.data = Written(config)
        /\ job.op \in {"seed", "reseed"} => ram.ids = {}
        /\ job.op = "seed" => OnFlash = {}

\* What the replacement of the index carries.
IndexJob ==
    Replacing /\ job.slot = IndexFile =>
        /\ job.data.ids = ram.ids
        /\ job.op = "autosave" => \E p \in ram.ids : disk[p] = Written(config)

JobInv ==
    /\ job.at = "off" => ram = EmptyRam /\ config = Default
    /\ ProgramJob /\ IndexJob
    /\ job.at = "rename" => disk[job.slot] \in {Absent, job.was}
    /\ job.at = "unlist" => job.slot \in Ids

\* What the list in memory says of the files.
ListNamesFiles ==
    \A p \in ram.ids :
        \/ disk[p] # Absent \/ p \in torn \cup erased
        \/ job.at = "rename" /\ job.slot = p

StoreInv ==
    /\ TypeOK /\ JobInv
    /\ IndexNamesFiles /\ ListNamesFiles
    /\ ram.active \in ram.ids => ram.listed = ram.active

Contents == Files \cup Indices \cup {Absent}
RamType  == [ids : SUBSET Ids, listed : Ids \cup {0}, active : Ids \cup {0}, dirty : BOOLEAN]
JobType  == [op : Ops, slot : Ids \cup {IndexFile}, at : Places, data : Contents, was : Contents]

\* Every set of ids that is not empty has a least one.
LEMMA LeastId ==
    ASSUME NEW S, S \subseteq Ids, S # {}
    PROVE  Min(S) \in S
<1> DEFINE R == {ss \in Nat \X Nat : ss[1] < ss[2]}
<1>1. IsWellFoundedOn(R, Nat)
  BY NatLessThanWellFounded DEF OpToRel
<1>2. S \subseteq Nat
  BY DEF Ids
<1>3. PICK x \in S : \A y \in S : ~(<<y, x>> \in R)
  <2> HIDE DEF R
  <2>1. QED
    BY <1>1, <1>2, WFMin
<1>4. \A a, b \in Nat : a < b => <<a, b>> \in R
  OBVIOUS
<1> HIDE DEF R
<1>5. ASSUME NEW y \in S PROVE x <= y
  <2>1. x \in Nat /\ y \in Nat
    BY <1>2
  <2>2. ~(y < x)
    BY <2>1, <1>3, <1>4
  <2>3. QED
    BY <2>1, <2>2
<1>6. QED
  BY <1>5 DEF Min

LEMMA IdFacts ==
    /\ 0 \notin Ids /\ 1 \in Ids /\ IndexFile = 0
    /\ \A S : S \subseteq Ids /\ S # {} => Min(S) \in S
<1>1. 0 \notin Ids /\ 1 \in Ids
  BY StoreAssumption DEF Ids
<1>2. QED
  BY <1>1, LeastId DEF IndexFile

LEMMA FileFacts ==
    /\ Default \in Configs
    /\ \A c \in Configs : Written(c) \in Files
    /\ \A f \in Files : f # Absent /\ (Parses(f) => Parsed(f) \in Configs /\ Written(Parsed(f)) = f)
<1>1. ASSUME NEW f \in Files, Parses(f)
      PROVE  Parsed(f) \in Configs /\ Written(Parsed(f)) = f
  <2>1. PICK d \in Drafts : Accepted(d) /\ f = Written(Edited(d))
    BY DEF Files, Configs
  <2>2. d \in ConfigType
    BY DraftAssumption
  <2>3. Parsed(f) = Edited(d)
    BY <1>1, <2>1, <2>2, FileKeepsEdits DEF RoundTrip
  <2>4. Edited(d) \in Configs
    BY <2>1 DEF Configs
  <2>5. QED
    BY <2>1, <2>3, <2>4
<1>2. QED
  BY <1>1, StoreAssumption DEF Files

LEMMA IndexFacts ==
    /\ \A active \in Ids \cup {0}, ids \in SUBSET Ids :
          /\ Index(active, ids) \in Indices
          /\ Index(active, ids).active = active /\ Index(active, ids).ids = ids
    /\ \A x \in Indices : x # Absent /\ x.ids \subseteq Ids /\ x.active \in Ids \cup {0}
BY DraftAssumption DEF Index, Indices

LEMMA TypeFacts ==
    ASSUME TypeOK
    PROVE  /\ DOMAIN disk = Ids \cup {IndexFile}
           /\ disk[IndexFile] \in Indices \cup {Absent}
           /\ \A f \in Ids \cup {IndexFile} : disk[f] \in Contents
           /\ \A p \in Ids : disk[p] \in Files \cup {Absent}
           /\ ram \in RamType /\ config \in Configs /\ job \in JobType
           /\ ReadIndex.ids \subseteq Ids /\ ReadIndex.active \in Ids \cup {0}
           /\ OnFlash \subseteq Ids
<1>1. ReadIndex \in Indices
  <2>1. Index(0, {}) \in Indices
    BY IndexFacts
  <2>2. QED
    BY <2>1 DEF TypeOK, ReadIndex, AsIndex
<1>2. ReadIndex.ids \subseteq Ids /\ ReadIndex.active \in Ids \cup {0}
  BY <1>1, IndexFacts
<1>3. QED
  BY <1>2 DEF TypeOK, Contents, RamType, JobType, OnFlash

LEMMA ReplaceFacts ==
    ASSUME TypeOK, NEW op \in Ops, NEW slot \in Ids \cup {IndexFile}, NEW data \in Contents,
           Replace(op, slot, data)
    PROVE  /\ job' \in JobType
           /\ job'.op = op /\ job'.slot = slot /\ job'.data = data
           /\ job'.at = "write"
BY DEF Replace, JobType, Places, Contents

LEMMA RestFacts ==
    /\ Rest \in JobType /\ Rest.at = "rest" /\ Rest.op = "none"
    /\ Off \in JobType /\ Off.at = "off" /\ Off.op = "none"
    /\ EmptyRam \in RamType /\ EmptyRam.ids = {} /\ EmptyRam.active = 0
    /\ EmptyRam.listed = 0 /\ EmptyRam.dirty = FALSE
BY DEF Rest, Off, JobType, Ops, Places, Contents, IndexFile, EmptyRam, RamType

\* The same configuration, or the one that the file holds.
LEMMA LoadFacts ==
    ASSUME TypeOK, NEW p \in Ids, NEW r \in RamType, LoadFile(p, r)
    PROVE  /\ \/ /\ Loadable(p) /\ disk[p] \in Files /\ disk[p] # Absent
                 /\ ram'.active = p /\ ram'.dirty = FALSE
                 /\ config' \in Configs /\ Written(config') = disk[p]
              \/ /\ ~Loadable(p) /\ ram' = r /\ config' = config
           /\ ram' \in RamType /\ ram'.ids = r.ids /\ ram'.listed = r.listed
           /\ config' \in Configs
<1>1. CASE Loadable(p)
  <2>1. disk[p] \in Files /\ disk[p] # Absent /\ Parses(disk[p])
    BY <1>1, TypeFacts DEF Loadable
  <2>2. ram' = [r EXCEPT !.active = p, !.dirty = FALSE] /\ config' = Parsed(disk[p])
    BY <1>1 DEF LoadFile
  <2>3. config' \in Configs /\ Written(config') = disk[p]
    BY <2>1, <2>2, FileFacts
  <2>4. /\ ram' \in RamType /\ ram'.ids = r.ids /\ ram'.listed = r.listed
        /\ ram'.active = p /\ ram'.dirty = FALSE
    BY <2>2 DEF RamType
  <2>5. QED
    BY <1>1, <2>1, <2>3, <2>4
<1>2. CASE ~Loadable(p)
  BY <1>2, TypeFacts DEF LoadFile
<1>3. QED
  BY <1>1, <1>2

----------------------------------------------------------------------------
(* Each action keeps it.                                                   *)

\* What is at stake when the flash, the list and the ghosts stay as they are.
LEMMA FlashUntouched ==
    ASSUME StoreInv, disk' = disk, torn' = torn, erased' = erased, ram'.ids = ram.ids,
           job.at # "rename"
    PROVE  IndexNamesFiles' /\ ListNamesFiles'
<1>1. OnFlash' = OnFlash /\ ReadIndex' = ReadIndex
  BY DEF OnFlash, ReadIndex, AsIndex
<1>2. QED
  BY <1>1 DEF StoreInv, IndexNamesFiles, ListNamesFiles

LEMMA EditStep == StoreInv /\ Edit => StoreInv'
<1> SUFFICES ASSUME StoreInv, Edit PROVE StoreInv'
  OBVIOUS
<1>1. TypeOK /\ ram \in RamType /\ job.at = "rest"
  BY TypeFacts DEF StoreInv, Edit, AtRest
<1>2. /\ disk' = disk /\ job' = job /\ torn' = torn /\ erased' = erased
      /\ config' \in Configs
      /\ ram' \in RamType /\ ram'.ids = ram.ids /\ ram'.listed = ram.listed
      /\ ram'.active = ram.active
  BY <1>1 DEF Edit, Unlogged, RamType
<1>3. TypeOK'
  BY <1>1, <1>2 DEF TypeOK, RamType
<1>4. JobInv'
  BY <1>1, <1>2 DEF JobInv, ProgramJob, IndexJob, Replacing
<1>5. IndexNamesFiles' /\ ListNamesFiles'
  BY <1>1, <1>2, FlashUntouched
<1>6. QED
  BY <1>2, <1>3, <1>4, <1>5 DEF StoreInv

\* An operation that begins by writing a program file.
LEMMA ProgramBegins ==
    ASSUME StoreInv, AtRest, NEW op \in {"save", "autosave", "rename"}, NEW p \in Ids,
           NEW data \in Files, Replace(op, p, data), UNCHANGED <<disk, ram, config>>, Unlogged,
           IF op = "rename" THEN data = disk[p] /\ p \in ram.ids ELSE data = Written(config)
    PROVE  StoreInv'
<1>1. TypeOK /\ job.at = "rest"
  BY DEF StoreInv, AtRest
<1>2. /\ disk' = disk /\ ram' = ram /\ config' = config /\ torn' = torn /\ erased' = erased
  BY DEF Unlogged
<1>3. /\ job' \in JobType /\ job'.op = op /\ job'.slot = p /\ job'.data = data
      /\ job'.at = "write"
  <2>1. op \in Ops /\ p \in Ids \cup {IndexFile} /\ data \in Contents
    BY DEF Ops, Contents
  <2>2. QED
    BY <1>1, <2>1, ReplaceFacts
<1>4. TypeOK'
  BY <1>1, <1>2, <1>3, IdFacts DEF TypeOK, JobType, Contents
<1>5. JobInv'
  BY <1>2, <1>3, IdFacts DEF JobInv, ProgramJob, IndexJob, Replacing, Content
<1>6. IndexNamesFiles' /\ ListNamesFiles'
  BY <1>1, <1>2, FlashUntouched
<1>7. QED
  BY <1>2, <1>4, <1>5, <1>6 DEF StoreInv

LEMMA SaveSteps ==
    ASSUME StoreInv, NEW p \in Ids, SaveNew \/ Autosave \/ SaveOver(p) \/ Rename(p)
    PROVE  StoreInv'
<1>1. TypeOK /\ ram \in RamType /\ config \in Configs
  BY TypeFacts DEF StoreInv
<1>2. Written(config) \in Files
  BY <1>1, FileFacts
<1>3. CASE SaveNew
  <2>1. Min(Ids \ ram.ids) \in Ids
    BY <1>3, IdFacts DEF SaveNew
  <2>2. QED
    BY <1>2, <1>3, <2>1, ProgramBegins DEF SaveNew
<1>4. CASE Autosave
  <2>1. ram.active \in Ids
    BY <1>1, <1>4 DEF Autosave, RamType
  <2>2. QED
    BY <1>2, <1>4, <2>1, ProgramBegins DEF Autosave
<1>5. CASE SaveOver(p)
  BY <1>2, <1>5, ProgramBegins DEF SaveOver
<1>6. CASE Rename(p)
  <2>1. disk[p] \in Files
    BY <1>1, <1>6, TypeFacts DEF Rename
  <2>2. QED
    BY <1>6, <2>1, ProgramBegins DEF Rename
<1>7. QED
  BY <1>3, <1>4, <1>5, <1>6

\* An operation that goes on with, or ends in, the writing of the index.
LEMMA IndexBegins ==
    ASSUME TypeOK, NEW op \in Ops, NEW r \in RamType, WriteIndex(op, r)
    PROVE  /\ job' \in JobType
           /\ job'.op = op /\ job'.slot = IndexFile /\ job'.at = "write"
           /\ job'.data \in Indices /\ job'.data.ids = r.ids
<1>1. r.active \in Ids \cup {0} /\ r.ids \in SUBSET Ids
  BY DEF RamType
<1>2. /\ Index(r.active, r.ids) \in Indices /\ Index(r.active, r.ids).ids = r.ids
      /\ Index(r.active, r.ids) \in Contents
  BY <1>1, IndexFacts DEF Contents
<1>3. IndexFile \in Ids \cup {IndexFile}
  OBVIOUS
<1>4. QED
  BY <1>2, <1>3, ReplaceFacts DEF WriteIndex

LEMMA SeedBegins ==
    ASSUME TypeOK, NEW op \in {"seed", "reseed"}, Seed(op)
    PROVE  /\ job' \in JobType
           /\ job'.op = op /\ job'.slot = 1 /\ job'.at = "write"
           /\ job'.data = Written(config) /\ job'.data \in Files
<1>1. Written(config) \in Files /\ 1 \in Ids
  BY TypeFacts, FileFacts, IdFacts
<1>2. QED
  BY <1>1, ReplaceFacts DEF Seed, Ops, Contents

LEMMA PowerOnStep == StoreInv /\ PowerOn => StoreInv'
<1> SUFFICES ASSUME StoreInv, PowerOn PROVE StoreInv'
  OBVIOUS
<1> DEFINE ids   == ReadIndex.ids
           first == IF ReadIndex.active = 0 /\ ids # {} THEN Min(ids) ELSE ReadIndex.active
           r     == [EmptyRam EXCEPT !.ids = ids, !.listed = first]
<1>1. /\ TypeOK /\ job.at = "off" /\ ram = EmptyRam /\ config = Default
      /\ disk' = disk /\ torn' = torn /\ erased' = erased
  BY DEF StoreInv, JobInv, PowerOn, Unlogged
<1>2. ids \subseteq Ids /\ ids = OnFlash
  BY <1>1, TypeFacts DEF OnFlash
<1>3. first \in Ids \cup {0} /\ (ids # {} => first \in Ids)
  BY <1>1, <1>2, TypeFacts, IdFacts
<1>4. /\ r \in RamType /\ r.ids = ids /\ r.listed = first /\ r.active = 0
  BY <1>2, <1>3, RestFacts DEF RamType
<1>5. IF ids = {} THEN ram' = r /\ Seed("seed") /\ config' = config
      ELSE LoadFile(first, r) /\ job' = Rest
  BY DEF PowerOn
<1> HIDE DEF ids, first, r
<1>6. CASE ids = {}
  <2>1. /\ ram' = r /\ config' = config
        /\ job' \in JobType /\ job'.op = "seed" /\ job'.slot = 1 /\ job'.at = "write"
        /\ job'.data = Written(config) /\ job'.data \in Files
    BY <1>1, <1>5, <1>6, SeedBegins
  <2>2. TypeOK'
    BY <1>1, <1>4, <2>1, IdFacts DEF TypeOK, JobType, RamType, Contents
  <2>3. OnFlash' = OnFlash
    BY <1>1 DEF OnFlash, ReadIndex, AsIndex
  <2>4. JobInv'
    BY <1>1, <1>2, <1>4, <1>6, <2>1, <2>3, IdFacts DEF JobInv, ProgramJob, IndexJob, Replacing
  <2>5. IndexNamesFiles' /\ ListNamesFiles'
    BY <1>1, <1>2, <1>4, <1>6, <2>1, <2>3
       DEF IndexNamesFiles, ListNamesFiles
  <2>6. QED
    BY <1>4, <1>6, <2>1, <2>2, <2>4, <2>5 DEF StoreInv
<1>7. CASE ids # {}
  <2>1. job' = Rest /\ LoadFile(first, r) /\ first \in Ids
    BY <1>3, <1>5, <1>7
  <2>2. /\ ram' \in RamType /\ ram'.ids = ids /\ ram'.listed = first
        /\ ram'.active \in {first, 0} /\ config' \in Configs
    BY <1>1, <1>4, <2>1, LoadFacts
  <2>3. TypeOK'
    BY <1>1, <2>1, <2>2, RestFacts DEF TypeOK, JobType, RamType, Contents
  <2>4. JobInv'
    BY <2>1, RestFacts DEF JobInv, ProgramJob, IndexJob, Replacing
  <2>5. OnFlash' = OnFlash
    BY <1>1 DEF OnFlash, ReadIndex, AsIndex
  <2>6. IndexNamesFiles' /\ ListNamesFiles'
    BY <1>1, <1>2, <2>1, <2>2, <2>5, RestFacts
       DEF StoreInv, IndexNamesFiles, ListNamesFiles
  <2>7. ram'.active \in ram'.ids => ram'.listed = ram'.active
    BY <1>2, <2>2, IdFacts
  <2>8. QED
    BY <2>3, <2>4, <2>6, <2>7 DEF StoreInv
<1>8. QED
  BY <1>6, <1>7

LEMMA LoadStep ==
    ASSUME StoreInv, NEW p \in Ids, LoadProgram(p)
    PROVE  StoreInv'
<1> DEFINE r == [ram EXCEPT !.listed = p]
           s == [ram EXCEPT !.active = p]
<1>1. /\ TypeOK /\ job.at = "rest" /\ p \in ram.ids /\ Loadable(p)
      /\ disk' = disk /\ torn' = torn /\ erased' = erased
      /\ LoadFile(p, r) /\ WriteIndex("load", s)
  BY DEF StoreInv, LoadProgram, AtRest, Unlogged
<1>2. /\ r \in RamType /\ r.ids = ram.ids /\ r.listed = p
      /\ s \in RamType /\ s.ids = ram.ids
  BY <1>1, TypeFacts DEF RamType
<1> HIDE DEF r, s
<1>3. /\ ram' \in RamType /\ ram'.ids = ram.ids /\ ram'.listed = p /\ ram'.active = p
      /\ config' \in Configs
  BY <1>1, <1>2, LoadFacts
<1>4. /\ job' \in JobType /\ job'.op = "load" /\ job'.slot = IndexFile /\ job'.at = "write"
      /\ job'.data \in Indices /\ job'.data.ids = ram.ids
  BY <1>1, <1>2, IndexBegins DEF Ops
<1>5. TypeOK'
  BY <1>1, <1>3, <1>4 DEF TypeOK, JobType, RamType, Contents
<1>6. JobInv'
  BY <1>3, <1>4, IdFacts DEF JobInv, ProgramJob, IndexJob, Replacing
<1>7. IndexNamesFiles' /\ ListNamesFiles'
  BY <1>1, <1>3, FlashUntouched
<1>8. QED
  BY <1>3, <1>5, <1>6, <1>7 DEF StoreInv

LEMMA EraseStep ==
    ASSUME StoreInv, NEW p \in Ids, Erase(p)
    PROVE  StoreInv'
<1>1. /\ TypeOK /\ job.at = "rest" /\ p \in ram.ids
      /\ ram' = ram /\ config' = config /\ torn' = torn
      /\ \/ disk' = [disk EXCEPT ![p] = Absent] /\ erased' = erased \cup {p}
         \/ disk' = disk /\ erased' = erased
  BY DEF StoreInv, Erase, AtRest
<1>2. /\ job' \in JobType /\ job'.slot = p /\ job'.at = "unlist" /\ job'.op = "erase"
  BY RestFacts DEF Erase, JobType, Ops, Places
<1>3. JobInv'
  BY <1>2 DEF JobInv, ProgramJob, IndexJob, Replacing
<1>4. CASE disk' = disk /\ erased' = erased
  <2>1. TypeOK'
    BY <1>1, <1>2, <1>4 DEF TypeOK, JobType, Contents
  <2>2. IndexNamesFiles' /\ ListNamesFiles'
    BY <1>1, <1>4, FlashUntouched
  <2>3. QED
    BY <1>1, <1>3, <2>1, <2>2 DEF StoreInv
<1>5. CASE disk' = [disk EXCEPT ![p] = Absent] /\ erased' = erased \cup {p}
  <2>1. /\ disk'[IndexFile] = disk[IndexFile] /\ disk'[p] = Absent
        /\ \A q \in Ids \ {p} : disk'[q] = disk[q]
        /\ DOMAIN disk = Ids \cup {IndexFile}
    BY <1>1, <1>5, TypeFacts, IdFacts
  <2>2. TypeOK'
    BY <1>1, <1>2, <1>5 DEF TypeOK, JobType, Contents
  <2>3. OnFlash' = OnFlash
    BY <2>1 DEF OnFlash, ReadIndex, AsIndex
  <2>4. IndexNamesFiles' /\ ListNamesFiles'
    BY <1>1, <1>2, <1>5, <2>1, <2>3, TypeFacts
       DEF StoreInv, IndexNamesFiles, ListNamesFiles
  <2>5. QED
    BY <1>1, <1>3, <2>2, <2>4 DEF StoreInv
<1>6. QED
  BY <1>1, <1>4, <1>5

\* A file that is missing after an operation was cut or gave up is known to be torn.
LEMMA TearsFacts ==
    ASSUME StoreInv, Tears, disk' = disk, erased' = erased, job'.at # "rename"
    PROVE  /\ torn' \subseteq Ids \cup {IndexFile} /\ OnFlash' = OnFlash
           /\ IndexNamesFiles'
           /\ ram'.ids = ram.ids => ListNamesFiles'
<1>1. TypeOK /\ job \in JobType
  BY TypeFacts DEF StoreInv
<1>2. torn' \subseteq Ids \cup {IndexFile} /\ torn \subseteq torn'
  BY <1>1 DEF Tears, TypeOK, JobType
<1>3. OnFlash' = OnFlash /\ OnFlash \subseteq Ids
  BY <1>1, TypeFacts DEF OnFlash, ReadIndex, AsIndex
<1>4. ASSUME NEW p, disk[p] = Absent, job.at = "rename", job.slot = p
      PROVE  p \in torn'
  BY <1>4 DEF Tears
<1>5. QED
  BY <1>2, <1>3, <1>4 DEF StoreInv, IndexNamesFiles, ListNamesFiles

LEMMA PowerCutStep == StoreInv /\ PowerCut => StoreInv'
<1> SUFFICES ASSUME StoreInv, PowerCut PROVE StoreInv'
  OBVIOUS
<1>1. /\ TypeOK /\ job' = Off /\ ram' = EmptyRam /\ config' = Default
      /\ disk' = disk /\ erased' = erased /\ Tears
  BY DEF StoreInv, PowerCut
<1>2. torn' \subseteq Ids \cup {IndexFile} /\ IndexNamesFiles'
  BY <1>1, RestFacts, TearsFacts
<1>3. TypeOK'
  BY <1>1, <1>2, RestFacts, FileFacts DEF TypeOK, JobType, RamType, Contents
<1>4. JobInv'
  BY <1>1, RestFacts DEF JobInv, ProgramJob, IndexJob, Replacing
<1>5. ListNamesFiles'
  BY <1>1, RestFacts DEF ListNamesFiles
<1>6. QED
  BY <1>1, <1>2, <1>3, <1>4, <1>5, RestFacts DEF StoreInv

LEMMA UnlistStep == StoreInv /\ Unlist => StoreInv'
<1> SUFFICES ASSUME StoreInv, Unlist PROVE StoreInv'
  OBVIOUS
<1> DEFINE left == ram.ids \ {job.slot}
           next == IF left = {} THEN 0 ELSE Min(left)
           r    == [ram EXCEPT !.ids = left]
           s    == [r EXCEPT !.listed = next]
<1>1. /\ TypeOK /\ job.at = "unlist" /\ job.slot \in Ids
      /\ disk' = disk /\ torn' = torn /\ erased' = erased /\ ram \in RamType
  BY TypeFacts DEF StoreInv, JobInv, Unlist, Unlogged
<1>2. left \subseteq Ids /\ left \subseteq ram.ids /\ (left # {} => next \in left /\ next \in Ids)
  BY <1>1, IdFacts DEF RamType
<1>3. /\ r \in RamType /\ r.ids = left /\ r.listed = ram.listed /\ r.active = ram.active
      /\ left # {} => s \in RamType /\ s.ids = left /\ s.listed = next /\ s.active = ram.active
  BY <1>1, <1>2 DEF RamType
<1>4. IF ram.listed # job.slot
        THEN ram' = r /\ config' = config /\ WriteIndex("erase", r)
      ELSE IF left = {}
        THEN ram' = r /\ config' = config /\ Seed("reseed")
      ELSE LoadFile(next, s) /\ WriteIndex("erase", ram')
  BY DEF Unlist
<1> HIDE DEF next, r, s
<1>5. /\ ram' \in RamType /\ ram'.ids = left /\ config' \in Configs
      /\ ram'.active \in ram'.ids => ram'.listed = ram'.active
  <2>1. CASE ram.listed # job.slot
    BY <1>1, <1>3, <1>4, <2>1, TypeFacts DEF StoreInv
  <2>2. CASE ram.listed = job.slot /\ left = {}
    BY <1>1, <1>3, <1>4, <2>2, TypeFacts
  <2>3. CASE ram.listed = job.slot /\ left # {}
    <3>1. LoadFile(next, s)
      BY <1>4, <2>3
    <3>2. /\ ram' \in RamType /\ ram'.ids = left /\ ram'.listed = next /\ config' \in Configs
          /\ ram'.active = next \/ ram'.active = ram.active
      BY <1>1, <1>2, <1>3, <2>3, <3>1, LoadFacts
    <3>3. ram.active \notin left
      BY <1>1, <1>2, <2>3 DEF StoreInv
    <3>4. QED
      BY <3>2, <3>3
  <2>4. QED
    BY <2>1, <2>2, <2>3
<1>6. /\ job' \in JobType /\ job'.at = "write"
      /\ \/ /\ job'.slot = IndexFile /\ job'.op = "erase"
            /\ job'.data \in Indices /\ job'.data.ids = ram'.ids
         \/ /\ job'.slot = 1 /\ job'.op = "reseed" /\ left = {} /\ job'.data \in Files
            /\ job'.data = Written(config')
  <2>1. CASE ram.listed # job.slot
    BY <1>1, <1>3, <1>4, <2>1, IndexBegins DEF Ops
  <2>2. CASE ram.listed = job.slot /\ left = {}
    BY <1>1, <1>3, <1>4, <2>2, SeedBegins
  <2>3. CASE ram.listed = job.slot /\ left # {}
    BY <1>1, <1>4, <1>5, <2>3, IndexBegins DEF Ops
  <2>4. QED
    BY <2>1, <2>2, <2>3
<1>7. TypeOK'
  BY <1>1, <1>5, <1>6, IdFacts DEF TypeOK, JobType, RamType, Contents
<1>8. JobInv'
  BY <1>1, <1>5, <1>6, IdFacts DEF JobInv, ProgramJob, IndexJob, Replacing
<1>9. OnFlash' = OnFlash
  BY <1>1 DEF OnFlash, ReadIndex, AsIndex
<1>10. IndexNamesFiles' /\ ListNamesFiles'
  BY <1>1, <1>2, <1>5, <1>6, <1>9
     DEF StoreInv, IndexNamesFiles, ListNamesFiles
<1>11. QED
  BY <1>5, <1>7, <1>8, <1>10 DEF StoreInv

LEMMA TempWrittenStep == StoreInv /\ TempWritten => StoreInv'
<1> SUFFICES ASSUME StoreInv, TempWritten PROVE StoreInv'
  OBVIOUS
<1>1. /\ TypeOK /\ job.at = "write" /\ disk' = disk /\ ram' = ram /\ config' = config
      /\ torn' = torn /\ erased' = erased /\ job \in JobType
  BY TypeFacts DEF StoreInv, TempWritten, Unlogged
<1>2. /\ job' \in JobType /\ job'.op = job.op /\ job'.slot = job.slot /\ job'.data = job.data
      /\ job'.was = job.was /\ job'.at = "remove"
  BY <1>1 DEF TempWritten, JobType, Places
<1>3. TypeOK'
  BY <1>1, <1>2 DEF TypeOK, JobType, Contents
<1>4. JobInv'
  BY <1>1, <1>2
     DEF StoreInv, JobInv, ProgramJob, IndexJob, Replacing, Content, OnFlash, ReadIndex, AsIndex
<1>5. IndexNamesFiles' /\ ListNamesFiles'
  BY <1>1, FlashUntouched
<1>6. QED
  BY <1>1, <1>3, <1>4, <1>5 DEF StoreInv

\* An operation that gives up or has written the index.
LEMMA FinishFacts ==
    ASSUME TypeOK, Finish, ram' \in RamType
    PROVE  /\ job' \in JobType
           /\ \/ job'.at = "rest" /\ job.op # "reseed"
              \/ /\ job'.at = "write" /\ job'.slot = IndexFile /\ job'.op = "erase"
                 /\ job'.data \in Indices /\ job'.data.ids = ram'.ids
<1>1. CASE job.op = "reseed"
  <2>1. WriteIndex("erase", ram') /\ "erase" \in Ops
    BY <1>1 DEF Finish, Ops
  <2>2. QED
    BY <2>1, IndexBegins
<1>2. CASE job.op # "reseed"
  BY <1>2, RestFacts DEF Finish
<1>3. QED
  BY <1>1, <1>2

\* The list and the active program when an operation ends without its file.
LEMMA GivesUpFacts ==
    ASSUME StoreInv, job.at \in {"write", "rename"}, GivesUp
    PROVE  /\ disk' = disk /\ erased' = erased
           /\ ram' \in RamType /\ ram'.ids = ram.ids /\ config' \in Configs
           /\ ram'.active \in ram'.ids => ram'.listed = ram'.active
           /\ job' \in JobType
           /\ \/ job'.at = "rest"
              \/ /\ job'.at = "write" /\ job'.slot = IndexFile /\ job'.op = "erase"
                 /\ job'.data \in Indices /\ job'.data.ids = ram'.ids
<1>1. /\ TypeOK /\ disk' = disk /\ erased' = erased /\ ram \in RamType /\ Finish
      /\ config \in Configs
  BY TypeFacts DEF StoreInv, GivesUp
<1>2. /\ ram' \in RamType /\ ram'.ids = ram.ids /\ config' \in Configs
      /\ ram'.active \in ram'.ids => ram'.listed = ram'.active
  <2>1. CASE job.op = "seed" /\ job.slot # IndexFile /\ ram.listed # 0
    <3>1. LoadFile(ram.listed, ram) /\ ram.listed \in Ids
      BY <1>1, <2>1 DEF GivesUp, RamType
    <3>2. /\ ram' \in RamType /\ ram'.ids = ram.ids /\ ram'.listed = ram.listed
          /\ config' \in Configs /\ ram'.active \in {ram.listed, ram.active}
      BY <1>1, <3>1, LoadFacts
    <3>3. QED
      BY <3>2 DEF StoreInv
  <2>2. CASE ~(job.op = "seed" /\ job.slot # IndexFile /\ ram.listed # 0)
    BY <1>1, <2>2 DEF StoreInv, GivesUp
  <2>3. QED
    BY <2>1, <2>2
<1>3. QED
  BY <1>1, <1>2, FinishFacts

LEMMA TempFailsStep == StoreInv /\ TempFails => StoreInv'
<1> SUFFICES ASSUME StoreInv, TempFails PROVE StoreInv'
  OBVIOUS
<1>1. TypeOK /\ job.at = "write" /\ torn' = torn /\ GivesUp
  BY DEF StoreInv, TempFails
<1>2. TypeOK'
  BY <1>1, GivesUpFacts DEF TypeOK, JobType, RamType, Contents
<1>3. JobInv'
  BY <1>1, GivesUpFacts, IdFacts DEF JobInv, ProgramJob, IndexJob, Replacing
<1>4. IndexNamesFiles' /\ ListNamesFiles'
  BY <1>1, GivesUpFacts, FlashUntouched
<1>5. QED
  BY <1>1, <1>2, <1>3, <1>4, GivesUpFacts DEF StoreInv

LEMMA RenameFailsStep == StoreInv /\ RenameFails => StoreInv'
<1> SUFFICES ASSUME StoreInv, RenameFails PROVE StoreInv'
  OBVIOUS
<1>1. TypeOK /\ job.at = "rename" /\ Tears /\ GivesUp
  BY DEF StoreInv, RenameFails
<1>2. /\ torn' \subseteq Ids \cup {IndexFile} /\ IndexNamesFiles' /\ ListNamesFiles'
  BY <1>1, GivesUpFacts, TearsFacts
<1>3. TypeOK'
  BY <1>1, <1>2, GivesUpFacts DEF TypeOK, JobType, RamType, Contents
<1>4. JobInv'
  BY <1>1, GivesUpFacts, IdFacts DEF JobInv, ProgramJob, IndexJob, Replacing
<1>5. QED
  BY <1>1, <1>2, <1>3, <1>4, GivesUpFacts DEF StoreInv

\* The removal, done or refused: what was there is known until the renaming.
LEMMA RemovalFacts ==
    ASSUME StoreInv, job.at = "remove", config' = config, ram' = ram,
           job' = [job EXCEPT !.at = "rename", !.was = disk[job.slot]],
           disk' = disk \/ disk' = [disk EXCEPT ![job.slot] = Absent]
    PROVE  /\ job' \in JobType /\ job'.op = job.op /\ job'.slot = job.slot
           /\ job'.data = job.data /\ job'.was = disk[job.slot] /\ job'.at = "rename"
           /\ job.slot \in Ids \cup {IndexFile} /\ DOMAIN disk = Ids \cup {IndexFile}
           /\ \A f \in Ids \cup {IndexFile} : f # job.slot => disk'[f] = disk[f]
           /\ disk'[job.slot] \in {Absent, disk[job.slot]}
           /\ \A f \in Ids \cup {IndexFile} : Content(f)' = disk[f] /\ Content(f) = disk[f]
           /\ JobInv'
<1>1. /\ TypeOK /\ job \in JobType /\ DOMAIN disk = Ids \cup {IndexFile}
      /\ job.slot \in Ids \cup {IndexFile} /\ disk[job.slot] \in Contents
      /\ ram.ids \subseteq Ids
  BY TypeFacts DEF StoreInv, JobType, RamType
<1>2. /\ job' \in JobType /\ job'.op = job.op /\ job'.slot = job.slot
      /\ job'.data = job.data /\ job'.was = disk[job.slot] /\ job'.at = "rename"
  BY <1>1 DEF JobType, Places
<1>3. /\ \A f \in Ids \cup {IndexFile} : f # job.slot => disk'[f] = disk[f]
      /\ disk'[job.slot] \in {Absent, disk[job.slot]}
  BY <1>1
<1>4. ASSUME NEW f \in Ids \cup {IndexFile} PROVE Content(f)' = disk[f] /\ Content(f) = disk[f]
  BY <1>2, <1>3 DEF Content
<1>5. ProgramJob'
  <2> SUFFICES ASSUME job.slot \in Ids PROVE ProgramJob'
    BY <1>2 DEF ProgramJob
  <2>1. disk'[IndexFile] = disk[IndexFile]
    BY <1>3, IdFacts
  <2>2. OnFlash' = OnFlash
    BY <2>1 DEF OnFlash, ReadIndex, AsIndex
  <2>3. job.op = "rename" => job'.data = Content(job.slot)'
    BY <1>2, <1>4 DEF StoreInv, JobInv, ProgramJob, Replacing
  <2>4. QED
    BY <1>2, <2>2, <2>3 DEF StoreInv, JobInv, ProgramJob, Replacing
<1>6. IndexJob'
  <2> SUFFICES ASSUME job.slot = IndexFile PROVE IndexJob'
    BY <1>2 DEF IndexJob
  <2>1. \A p \in ram.ids : disk'[p] = disk[p]
    BY <1>1, <1>3, IdFacts
  <2>2. QED
    BY <1>2, <2>1 DEF StoreInv, JobInv, IndexJob, Replacing
<1>7. JobInv'
  BY <1>2, <1>3, <1>5, <1>6 DEF JobInv
<1>8. QED
  BY <1>1, <1>2, <1>3, <1>4, <1>7

LEMMA RemovalSteps == StoreInv /\ (TargetRemoved \/ RemoveFails) => StoreInv'
<1> SUFFICES ASSUME StoreInv, TargetRemoved \/ RemoveFails PROVE StoreInv'
  OBVIOUS
<1>1. /\ TypeOK /\ job.at = "remove" /\ ram' = ram /\ config' = config
      /\ torn' = torn /\ erased' = erased
      /\ job' = [job EXCEPT !.at = "rename", !.was = disk[job.slot]]
      /\ disk' = disk \/ disk' = [disk EXCEPT ![job.slot] = Absent]
  BY DEF StoreInv, TargetRemoved, RemoveFails, Unlogged
<1>2. TypeOK'
  BY <1>1, RemovalFacts DEF TypeOK, JobType, Contents
<1>3. OnFlash' \subseteq OnFlash /\ OnFlash \subseteq Ids /\ ram.ids \subseteq Ids
  <2>1. disk'[IndexFile] \in {disk[IndexFile], Absent}
    BY <1>1, RemovalFacts
  <2>2. Index(0, {}).ids = {}
    BY IndexFacts
  <2>3. OnFlash \subseteq Ids /\ ram.ids \subseteq Ids
    BY <1>1, TypeFacts DEF RamType
  <2>4. QED
    BY <2>1, <2>2, <2>3 DEF OnFlash, ReadIndex, AsIndex
<1>4. IndexNamesFiles' /\ ListNamesFiles'
  BY <1>1, <1>3, RemovalFacts DEF StoreInv, IndexNamesFiles, ListNamesFiles
<1>5. QED
  BY <1>1, <1>2, <1>4, RemovalFacts DEF StoreInv

\* The list after the file of the operation is in place.
LEMMA ListedFacts ==
    ASSUME ram \in RamType, NEW p \in Ids,
           job.op \in {"save", "autosave", "rename", "seed", "reseed"}
    PROVE  /\ Listed(p) \in RamType
           /\ job.op \in {"save", "autosave"} =>
                 /\ Listed(p).ids = ram.ids \cup {p} /\ Listed(p).listed = p
                 /\ Listed(p).active = p /\ Listed(p).dirty = ram.dirty
           /\ job.op \in {"seed", "reseed"} =>
                 /\ Listed(p).ids = {p} /\ Listed(p).listed = p
                 /\ Listed(p).active = p /\ Listed(p).dirty = FALSE
           /\ job.op = "rename" => Listed(p) = ram
<1>1. CASE job.op \in {"save", "autosave"}
  <2> DEFINE ids == ram.ids \cup {p}
  <2>1. Listed(p) = [ram EXCEPT !.ids = ids, !.listed = p, !.active = p]
    BY <1>1 DEF Listed
  <2>2. ids \in SUBSET Ids
    BY DEF RamType
  <2>3. /\ ~(job.op \in {"seed", "reseed"}) /\ job.op # "rename"
    BY <1>1
  <2> HIDE DEF ids
  <2>4. /\ Listed(p) \in RamType /\ Listed(p).ids = ids /\ Listed(p).listed = p
        /\ Listed(p).active = p /\ Listed(p).dirty = ram.dirty
    BY <2>1, <2>2 DEF RamType
  <2>5. QED
    BY <2>3, <2>4 DEF ids
<1>2. CASE job.op \in {"seed", "reseed"}
  <2>1. Listed(p) = [ids |-> {p}, listed |-> p, active |-> p, dirty |-> FALSE]
    BY <1>2 DEF Listed
  <2>2. /\ Listed(p) \in RamType /\ Listed(p).ids = {p} /\ Listed(p).listed = p
        /\ Listed(p).active = p /\ Listed(p).dirty = FALSE
    BY <2>1 DEF RamType
  <2>3. ~(job.op \in {"save", "autosave"}) /\ job.op # "rename"
    BY <1>2
  <2>4. QED
    BY <2>2, <2>3
<1>3. CASE job.op = "rename"
  BY <1>3 DEF Listed
<1>4. QED
  BY <1>1, <1>2, <1>3

LEMMA FileRenamedEffect ==
    ASSUME StoreInv, FileRenamed
    PROVE  /\ TypeOK /\ job.at = "rename" /\ job.slot \in Ids /\ job.data \in Files
           /\ job.op \in {"save", "autosave", "rename", "seed", "reseed"}
           /\ disk'[job.slot] = job.data
           /\ \A f \in Ids \cup {IndexFile} : f # job.slot => disk'[f] = disk[f]
           /\ ram' = Listed(job.slot) /\ ram' \in RamType /\ job.slot \in ram'.ids
           /\ ram.ids \subseteq ram'.ids /\ ram'.ids \subseteq ram.ids \cup {job.slot}
           /\ job' \in JobType /\ job'.op = job.op /\ job'.slot = IndexFile /\ job'.at = "write"
           /\ job'.data \in Indices /\ job'.data.ids = ram'.ids
<1>1. /\ TypeOK /\ job \in JobType /\ ram \in RamType /\ job.at = "rename"
      /\ job.slot # IndexFile /\ DOMAIN disk = Ids \cup {IndexFile}
      /\ disk' = [disk EXCEPT ![job.slot] = job.data] /\ ram' = Listed(job.slot)
      /\ WriteIndex(job.op, ram')
  BY TypeFacts DEF StoreInv, FileRenamed
<1>2. job.slot \in Ids /\ job.data \in Files
  BY <1>1 DEF JobType, TypeOK
<1>3. /\ job.op \in {"save", "autosave", "rename", "seed", "reseed"}
      /\ job.op \in {"seed", "reseed"} => ram.ids = {}
      /\ job.op = "rename" => job.slot \in ram.ids
  BY <1>1, <1>2 DEF StoreInv, JobInv, ProgramJob, Replacing
<1>4. ram' \in RamType
  BY <1>1, <1>2, <1>3, ListedFacts
<1>5. /\ job.slot \in ram'.ids
      /\ ram.ids \subseteq ram'.ids /\ ram'.ids \subseteq ram.ids \cup {job.slot}
  BY <1>1, <1>2, <1>3, ListedFacts
<1>6. /\ job' \in JobType /\ job'.op = job.op /\ job'.slot = IndexFile /\ job'.at = "write"
      /\ job'.data \in Indices /\ job'.data.ids = ram'.ids
  BY <1>1, <1>3, <1>4, IndexBegins DEF Ops
<1>7. QED
  BY <1>1, <1>2, <1>3, <1>4, <1>5, <1>6

LEMMA FileRenamedStep == StoreInv /\ FileRenamed => StoreInv'
<1> SUFFICES ASSUME StoreInv, FileRenamed PROVE StoreInv'
  OBVIOUS
<1>1. /\ config' = config /\ torn' = torn \ {job.slot} /\ erased' = erased \ {job.slot}
      /\ disk' = [disk EXCEPT ![job.slot] = job.data]
  BY DEF FileRenamed
<1>2. TypeOK'
  BY <1>1, FileRenamedEffect DEF TypeOK, JobType, RamType, Contents
<1>3. JobInv'
  <2>1. IndexJob'
    <3>1. ASSUME job.op = "autosave" PROVE disk'[job.slot] = Written(config')
      BY <1>1, <3>1, FileRenamedEffect DEF StoreInv, JobInv, ProgramJob, Replacing
    <3>2. QED
      BY <3>1, FileRenamedEffect DEF IndexJob
  <2>2. QED
    BY <2>1, FileRenamedEffect, IdFacts DEF JobInv, ProgramJob
<1>4. OnFlash' = OnFlash /\ OnFlash \subseteq Ids
  <2>1. disk'[IndexFile] = disk[IndexFile]
    BY FileRenamedEffect, IdFacts
  <2>2. QED
    BY <2>1, FileRenamedEffect, TypeFacts DEF OnFlash, ReadIndex, AsIndex
<1>5. disk'[job.slot] # Absent
  BY FileRenamedEffect, FileFacts
<1>6. IndexNamesFiles'
  BY <1>1, <1>4, <1>5, FileRenamedEffect DEF StoreInv, IndexNamesFiles
<1>7. ListNamesFiles'
  <2>1. ram'.ids \subseteq Ids
    BY FileRenamedEffect DEF RamType
  <2>2. QED
    BY <1>1, <1>5, <2>1, FileRenamedEffect DEF StoreInv, ListNamesFiles
<1>8. ram'.active \in ram'.ids => ram'.listed = ram'.active
  <2>1. ram \in RamType
    BY FileRenamedEffect, TypeFacts
  <2>2. \/ ram'.listed = job.slot /\ ram'.active = job.slot
        \/ ram' = ram
    BY <2>1, FileRenamedEffect, ListedFacts
  <2>3. QED
    BY <2>2 DEF StoreInv
<1>9. QED
  BY <1>2, <1>3, <1>6, <1>7, <1>8 DEF StoreInv

LEMMA IndexRenamedStep == StoreInv /\ IndexRenamed => StoreInv'
<1> SUFFICES ASSUME StoreInv, IndexRenamed PROVE StoreInv'
  OBVIOUS
<1>1. /\ TypeOK /\ job \in JobType /\ ram \in RamType /\ job.at = "rename"
      /\ job.slot = IndexFile /\ DOMAIN disk = Ids \cup {IndexFile}
      /\ disk' = [disk EXCEPT ![IndexFile] = job.data] /\ Finish
      /\ torn' = torn \ {IndexFile} /\ config' = config /\ erased' = erased
      /\ config \in Configs
  BY TypeFacts DEF StoreInv, IndexRenamed
<1>2. /\ ram' \in RamType /\ ram'.ids = ram.ids /\ ram'.listed = ram.listed
      /\ ram'.active = ram.active
  <2> DEFINE dirty == ram.dirty /\ job.op # "autosave"
  <2>1. ram' = [ram EXCEPT !.dirty = dirty]
    BY DEF IndexRenamed
  <2>2. dirty \in BOOLEAN
    BY Zenon
  <2> HIDE DEF dirty
  <2>3. QED
    BY <1>1, <2>1, <2>2 DEF RamType
<1>3. /\ job.data \in Indices /\ job.data.ids = ram.ids
  BY <1>1 DEF TypeOK, StoreInv, JobInv, IndexJob, Replacing
<1>4. /\ disk'[IndexFile] = job.data /\ \A p \in Ids : disk'[p] = disk[p]
      /\ ram.ids \subseteq Ids
  BY <1>1, IdFacts DEF RamType
<1>5. /\ job' \in JobType
      /\ \/ job'.at = "rest"
         \/ /\ job'.at = "write" /\ job'.slot = IndexFile /\ job'.op = "erase"
            /\ job'.data \in Indices /\ job'.data.ids = ram'.ids
  BY <1>1, <1>2, FinishFacts
<1>6. TypeOK'
  BY <1>1, <1>2, <1>3, <1>4, <1>5 DEF TypeOK, JobType, RamType, Contents
<1>7. JobInv'
  BY <1>2, <1>5, IdFacts DEF JobInv, ProgramJob, IndexJob, Replacing
<1>8. OnFlash' = ram.ids
  BY <1>3, <1>4, IndexFacts DEF OnFlash, ReadIndex, AsIndex
<1>9. IndexNamesFiles' /\ ListNamesFiles'
  BY <1>1, <1>2, <1>4, <1>5, <1>8, IdFacts
     DEF StoreInv, IndexNamesFiles, ListNamesFiles
<1>10. QED
  BY <1>2, <1>6, <1>7, <1>9 DEF StoreInv

----------------------------------------------------------------------------
LEMMA StoreStarts == Init => StoreInv
<1> SUFFICES ASSUME Init PROVE StoreInv
  OBVIOUS
<1>1. TypeOK
  BY RestFacts, FileFacts, IdFacts DEF Init, TypeOK, JobType, RamType, Contents
<1>2. OnFlash = {}
  <2>1. disk[IndexFile] = Absent
    BY DEF Init
  <2>2. QED
    BY <2>1, IndexFacts DEF OnFlash, ReadIndex, AsIndex
<1>3. QED
  BY <1>1, <1>2, RestFacts
     DEF Init, StoreInv, JobInv, ProgramJob, IndexJob, Replacing, IndexNamesFiles,
         ListNamesFiles

LEMMA StoreSteps == StoreInv /\ [Next]_vars => StoreInv'
<1> SUFFICES ASSUME StoreInv, [Next]_vars PROVE StoreInv'
  OBVIOUS
<1>1. CASE UNCHANGED vars
  BY <1>1 DEF vars, StoreInv, TypeOK, JobInv, ProgramJob, IndexJob, Replacing, Content,
              IndexNamesFiles, ListNamesFiles, OnFlash, ReadIndex, AsIndex
<1>2. CASE PowerOn \/ PowerCut
  BY <1>2, PowerOnStep, PowerCutStep
<1>3. CASE Operation
  <2>1. CASE Edit
    BY <2>1, EditStep
  <2>2. CASE SaveNew \/ Autosave
    BY <2>2, IdFacts, SaveSteps
  <2>3. ASSUME NEW p \in Ids, SaveOver(p) \/ LoadProgram(p) \/ Rename(p) \/ Erase(p)
        PROVE  StoreInv'
    BY <2>3, SaveSteps, LoadStep, EraseStep
  <2>4. QED
    BY <1>3, <2>1, <2>2, <2>3 DEF Operation
<1>4. CASE Step
  BY <1>4, UnlistStep, TempWrittenStep, TempFailsStep, RemovalSteps, FileRenamedStep,
     IndexRenamedStep, RenameFailsStep DEF Step
<1>5. QED
  BY <1>1, <1>2, <1>3, <1>4 DEF Next

\* At every step of every operation, refused or cut short, the job carries what its
\* file should hold, the old file is there or known to be lost, and list and files
\* agree as far as IndexNamesFiles and ListNamesFiles say.
THEOREM StoreInvariant == Spec => []StoreInv
<1>1. QED
  BY StoreStarts, StoreSteps, PTL DEF Spec

\* What is on flash and in memory is a program, an index, or nothing, and an
\* operation in progress writes what belongs into its file.
THEOREM StoreTypeCorrect == Spec => []TypeOK
<1>1. StoreInv => TypeOK
  BY DEF StoreInv
<1>2. QED
  BY <1>1, StoreInvariant, PTL

\* Every program that the index on flash names has a file, but for those that were
\* deleted and those whose file was removed and the new one not renamed, by a power
\* cut or a refusal of the flash; and while nothing is in progress an active program
\* that is in the list is the one the list in memory shows as active.  For any number
\* of programs, over power cuts and failures of every flash operation.
THEOREM ListsCorrect == Spec => []ListsAgree
<1>1. StoreInv => ListsAgree
  BY DEF StoreInv, ListsAgree, ActiveIsListed
<1>2. QED
  BY <1>1, StoreInvariant, PTL

----------------------------------------------------------------------------
(* The promise of ProgramMap.                                              *)

Stored  == [p \in Ids |-> IF p \in Shown THEN Content(p) ELSE Absent]
Running == Written(config)
Sound   == IF job.at = "off" THEN ReadIndex.active \in OnFlash \cup {0}
           ELSE job.op = "seed" => ram.listed \in ram.ids \cup {0}

MapEdit    == Running' \in Files /\ ram'.dirty = TRUE /\ Stored' = Stored
MapSave(p) ==
    Stored' = [Stored EXCEPT ![p] = Running] /\ Running' = Running /\ ram'.dirty \in {ram.dirty, FALSE}
Fewer      == \A p \in Ids : Stored'[p] \in {Stored[p], Absent}
MapSaved   ==
    Fewer /\ (\E p \in Ids : Stored'[p] = Running) /\ ram'.dirty = FALSE /\ Running' = Running
MapLoad(p) ==
    Fewer /\ Stored'[p] # Absent /\ Running' = Stored'[p] /\ ram'.dirty = FALSE
MapLose    ==
    /\ Fewer
    /\ \/ Running' = Running /\ ram'.dirty = ram.dirty
       \/ Running' = Written(Default) /\ ram'.dirty = FALSE
MapStart   == ~Sound /\ Running' \in Files /\ ram'.dirty = FALSE /\ Stored' = Stored
MapStays   == Stored' = Stored /\ Running' = Running /\ ram'.dirty = ram.dirty

\* A step of the promise, or none.
MapSteps ==
    \/ MapStays \/ MapEdit \/ MapSaved \/ MapLose \/ MapStart
    \/ \E p \in Ids : MapSave(p) \/ MapLoad(p)

LEMMA MapStepsAre == MapSteps => [Map!MapNext]_(Map!mapVars)
BY DEF MapSteps, MapStays, MapEdit, MapSaved, MapLose, MapStart, MapSave, MapLoad, Stored,
       Running, Sound, Map!MapNext, Map!mapVars, Map!Edit, Map!Saved, Map!Lose,
       Map!StartUnlisted, Map!Save, Map!Load, Map!Fewer, Fewer

LEMMA StoredIs ==
    /\ \A p \in Ids : Stored[p] = IF p \in Shown THEN Content(p) ELSE Absent
    /\ DOMAIN Stored = Ids
BY DEF Stored

LEMMA StoredStays ==
    ASSUME \A p \in Ids : (IF p \in Shown THEN Content(p) ELSE Absent)'
                             = IF p \in Shown THEN Content(p) ELSE Absent
    PROVE  Stored' = Stored
BY DEF Stored

\* Away from a renaming a program is its file.
LEMMA StoredOnDisk ==
    ASSUME disk' = disk, Shown' = Shown, job.at # "rename", job'.at # "rename"
    PROVE  Stored' = Stored /\ \A p \in Ids \cap Shown : Stored[p] = disk[p]
<1>1. \A p \in Ids : Content(p) = disk[p] /\ Content(p)' = disk[p]
  BY DEF Content
<1>2. Stored' = Stored
  BY <1>1, StoredStays
<1>3. QED
  BY <1>1, <1>2, StoredIs

\* A load that leaves what is stored alone.
LEMMA StoredLoads ==
    ASSUME Stored' = Stored, NEW p \in Ids, Stored[p] # Absent, Running' = Stored[p],
           ram'.dirty = FALSE
    PROVE  MapSteps
BY DEF MapSteps, MapLoad, Fewer

\* Programs are lost, and nothing else.
LEMMA StoredShrinks ==
    ASSUME \A p \in Ids : Content(p)' \in {Content(p), Absent}, Shown' \subseteq Shown
    PROVE  Fewer
BY DEF Fewer, Stored

LEMMA BeginsAt ==
    ASSUME NEW op, NEW slot, NEW data, Replace(op, slot, data)
    PROVE  job'.at = "write" /\ job'.slot = slot
BY DEF Replace

LEMMA PowerOnMaps == StoreInv /\ PowerOn => MapSteps
<1> SUFFICES ASSUME StoreInv, PowerOn PROVE MapSteps
  OBVIOUS
<1> DEFINE ids   == ReadIndex.ids
           first == IF ReadIndex.active = 0 /\ ids # {} THEN Min(ids) ELSE ReadIndex.active
           r     == [EmptyRam EXCEPT !.ids = ids, !.listed = first]
<1>1. /\ TypeOK /\ job.at = "off" /\ ram = EmptyRam /\ config = Default /\ disk' = disk
      /\ ram.dirty = FALSE
  BY RestFacts DEF StoreInv, JobInv, PowerOn
<1>2. ids \subseteq Ids /\ ids = OnFlash /\ Shown = OnFlash
  BY <1>1, TypeFacts, RestFacts DEF OnFlash, Shown, ReadIndex, Content
<1>3. /\ first \in Ids \cup {0} /\ (ids # {} => first \in Ids)
      /\ first \in ids \/ ids = {} \/ ReadIndex.active \notin OnFlash \cup {0}
  BY <1>1, <1>2, TypeFacts, IdFacts
<1>4. r \in RamType /\ r.ids = ids /\ r.dirty = FALSE
  BY <1>2, <1>3, RestFacts DEF RamType
<1>5. IF ids = {} THEN ram' = r /\ Seed("seed") /\ config' = config
      ELSE LoadFile(first, r) /\ job' = Rest
  BY DEF PowerOn
<1> HIDE DEF ids, first, r
<1>6. job'.at \in {"write", "rest"} /\ ram'.ids = ids
  <2>1. CASE ids = {}
    BY <1>4, <1>5, <2>1, BeginsAt DEF Seed
  <2>2. CASE ids # {}
    BY <1>1, <1>3, <1>4, <1>5, <2>2, LoadFacts, RestFacts
  <2>3. QED
    BY <2>1, <2>2
<1>7. Stored' = Stored /\ \A p \in Ids \cap Shown : Stored[p] = disk[p]
  <2>1. Shown' = Shown
    BY <1>1, <1>2, <1>6 DEF Shown, OnFlash, ReadIndex, Content
  <2>2. QED
    BY <1>1, <1>6, <2>1, StoredOnDisk
<1>8. CASE ids = {}
  BY <1>1, <1>4, <1>5, <1>7, <1>8 DEF MapSteps, MapStays, Running
<1>9. CASE ids # {} /\ ~Loadable(first)
  <2>1. ram' = r /\ config' = config
    BY <1>1, <1>3, <1>4, <1>5, <1>9, LoadFacts
  <2>2. QED
    BY <1>1, <1>4, <1>7, <2>1 DEF MapSteps, MapStays, Running
<1>10. CASE ids # {} /\ Loadable(first)
  <2>1. /\ first \in Ids /\ disk[first] \in Files /\ disk[first] # Absent
        /\ ram'.dirty = FALSE /\ Running' = disk[first]
    BY <1>1, <1>3, <1>4, <1>5, <1>10, LoadFacts DEF Running
  <2>2. CASE first \in ids
    <3>1. Stored[first] = disk[first]
      BY <1>2, <1>7, <2>1, <2>2
    <3>2. QED
      BY <1>7, <2>1, <3>1, StoredLoads
  <2>3. CASE first \notin ids
    <3>1. ~Sound
      BY <1>1, <1>3, <1>10, <2>3 DEF Sound
    <3>2. QED
      BY <1>7, <2>1, <3>1 DEF MapSteps, MapStart
  <2>4. QED
    BY <2>2, <2>3
<1>11. QED
  BY <1>8, <1>9, <1>10

\* Operations at rest: an edit, a load, a deletion, or the beginning of a save.
LEMMA OperationMaps == StoreInv /\ Operation => MapSteps
<1> SUFFICES ASSUME StoreInv, Operation PROVE MapSteps
  OBVIOUS
<1>1. TypeOK /\ ram \in RamType /\ config \in Configs
  BY TypeFacts DEF StoreInv
<1>2. CASE Edit
  <2>1. /\ disk' = disk /\ job' = job /\ job.at = "rest" /\ config' \in Configs
        /\ ram'.ids = ram.ids /\ ram'.dirty = TRUE
    BY <1>1, <1>2 DEF Edit, AtRest, RamType
  <2>2. Shown' = Shown
    BY <2>1 DEF Shown, Content
  <2>3. Stored' = Stored /\ Running' \in Files
    BY <2>1, <2>2, StoredOnDisk, FileFacts DEF Running
  <2>4. QED
    BY <2>1, <2>3 DEF MapSteps, MapEdit
<1>3. ASSUME NEW p \in Ids, SaveNew \/ Autosave \/ SaveOver(p) \/ Rename(p)
      PROVE  MapSteps
  <2>1. job.at = "rest" /\ disk' = disk /\ ram' = ram /\ config' = config
    BY <1>3 DEF SaveNew, Autosave, SaveOver, Rename, AtRest
  <2>2. job'.at = "write"
    BY <1>3, BeginsAt DEF SaveNew, Autosave, SaveOver, Rename
  <2>3. Shown' = Shown
    BY <2>1, <2>2 DEF Shown, Content
  <2>4. QED
    BY <2>1, <2>2, <2>3, StoredOnDisk DEF MapSteps, MapStays, Running
<1>4. ASSUME NEW p \in Ids, LoadProgram(p)
      PROVE  MapSteps
  <2> DEFINE r == [ram EXCEPT !.listed = p]
  <2>1. /\ job.at = "rest" /\ disk' = disk /\ p \in ram.ids /\ Loadable(p) /\ LoadFile(p, r)
        /\ job'.at = "write"
    BY <1>4, BeginsAt DEF LoadProgram, AtRest, WriteIndex
  <2>2. r \in RamType /\ r.ids = ram.ids
    BY <1>1 DEF RamType
  <2> HIDE DEF r
  <2>3. ram'.ids = ram.ids /\ ram'.dirty = FALSE /\ Running' = disk[p] /\ disk[p] # Absent
    BY <1>1, <2>1, <2>2, LoadFacts DEF Running
  <2>4. Shown' = Shown /\ p \in Shown
    BY <2>1, <2>2, <2>3 DEF Shown, Content
  <2>5. Stored' = Stored /\ Stored[p] = disk[p]
    BY <2>1, <2>4, StoredOnDisk
  <2>6. QED
    BY <2>3, <2>5, StoredLoads
<1>5. ASSUME NEW p \in Ids, Erase(p)
      PROVE  MapSteps
  <2>1. /\ job.at = "rest" /\ ram' = ram /\ config' = config
        /\ disk' = disk \/ disk' = [disk EXCEPT ![p] = Absent]
    BY <1>5 DEF Erase, AtRest
  <2>2. job'.at = "unlist"
    BY RestFacts, <1>5 DEF Erase, JobType
  <2>3. /\ \A f \in Ids \cup {IndexFile} : Content(f) = disk[f] /\ Content(f)' = disk'[f]
        /\ disk'[IndexFile] = disk[IndexFile]
    BY <1>1, <2>1, <2>2, IdFacts, TypeFacts DEF Content
  <2>4. \A q \in Ids : disk'[q] \in {disk[q], Absent}
    BY <1>1, <2>1, TypeFacts
  <2>5. Shown' = Shown
    BY <2>1, <2>3 DEF Shown
  <2>6. Fewer
    BY <2>3, <2>4, <2>5, StoredShrinks
  <2>7. QED
    BY <2>1, <2>6 DEF MapSteps, MapLose, Running
<1>6. QED
  BY <1>2, <1>3, <1>4, <1>5, IdFacts DEF Operation

\* The deleted program leaves the map when its file is gone and both lists are rid of
\* it: at the latest of the three.
LEMMA UnlistMaps == StoreInv /\ Unlist => MapSteps
<1> SUFFICES ASSUME StoreInv, Unlist PROVE MapSteps
  OBVIOUS
<1> DEFINE left == ram.ids \ {job.slot}
           next == IF left = {} THEN 0 ELSE Min(left)
           r    == [ram EXCEPT !.ids = left]
           s    == [r EXCEPT !.listed = next]
<1>1. /\ TypeOK /\ job.at = "unlist" /\ disk' = disk /\ ram \in RamType
  BY TypeFacts DEF StoreInv, Unlist
<1>2. left \subseteq Ids /\ (left # {} => next \in left /\ next \in Ids)
  BY <1>1, IdFacts DEF RamType
<1>3. /\ r.ids = left /\ r.dirty = ram.dirty
      /\ left # {} => s \in RamType /\ s.ids = left /\ s.dirty = ram.dirty
  BY <1>1, <1>2 DEF RamType
<1>4. \/ ram' = r /\ config' = config
      \/ left # {} /\ LoadFile(next, s)
  BY DEF Unlist
<1>5. job'.at = "write"
  BY BeginsAt DEF Unlist, Seed, WriteIndex
<1> HIDE DEF next, r, s
<1>6. ram'.ids = left
  BY <1>1, <1>2, <1>3, <1>4, LoadFacts
<1>7. /\ \A f \in Ids \cup {IndexFile} : Content(f) = disk[f] /\ Content(f)' = disk[f]
      /\ Shown' \subseteq Shown /\ left \subseteq Shown'
  BY <1>1, <1>5, <1>6 DEF Content, Shown
<1>8. Fewer
  BY <1>7, StoredShrinks
<1>9. CASE ram' = r /\ config' = config
  BY <1>3, <1>8, <1>9 DEF MapSteps, MapLose, Running
<1>10. CASE left # {} /\ LoadFile(next, s)
  <2>1. CASE ~Loadable(next)
    BY <1>1, <1>2, <1>3, <1>8, <1>10, <2>1, LoadFacts DEF MapSteps, MapLose, Running
  <2>2. CASE Loadable(next)
    <3>1. ram'.dirty = FALSE /\ Running' = disk[next] /\ disk[next] # Absent /\ next \in Ids
      BY <1>1, <1>2, <1>3, <1>10, <2>2, LoadFacts DEF Running
    <3>2. Stored'[next] = disk[next]
      BY <1>2, <1>7, <1>10 DEF Stored
    <3>3. MapLoad(next)
      BY <1>8, <3>1, <3>2 DEF MapLoad
    <3>4. QED
      BY <3>1, <3>3 DEF MapSteps
  <2>3. QED
    BY <2>1, <2>2
<1>11. QED
  BY <1>4, <1>9, <1>10

LEMMA TempWrittenMaps == StoreInv /\ TempWritten => MapSteps
<1> SUFFICES ASSUME StoreInv, TempWritten PROVE MapSteps
  OBVIOUS
<1>1. job \in JobType /\ job.at = "write" /\ disk' = disk /\ ram' = ram /\ config' = config
  BY TypeFacts DEF StoreInv, TempWritten
<1>2. job'.at = "remove"
  BY <1>1 DEF TempWritten, JobType
<1>3. Shown' = Shown
  BY <1>1, <1>2 DEF Shown, Content
<1>4. QED
  BY <1>1, <1>2, <1>3, StoredOnDisk DEF MapSteps, MapStays, Running

\* An operation that gives up may leave the old content of its file lost.
LEMMA GivesUpMaps ==
    ASSUME StoreInv, job.at \in {"write", "rename"}, GivesUp
    PROVE  MapSteps
<1>1. /\ TypeOK /\ disk' = disk /\ ram \in RamType /\ job \in JobType
      /\ disk[IndexFile] \in Indices \cup {Absent}
      /\ ram'.ids = ram.ids /\ job'.at \in {"write", "rest"}
  BY GivesUpFacts, TypeFacts DEF StoreInv
<1>2. job.at = "rename" => disk[job.slot] \in {Absent, job.was}
  BY DEF StoreInv, JobInv
<1>3. \A f \in Ids \cup {IndexFile} :
         Content(f)' = disk[f] /\ disk[f] \in {Content(f), Absent}
  BY <1>1, <1>2 DEF Content
<1>4. Shown' \subseteq Shown
  <2>1. disk[IndexFile] \in {Content(IndexFile), Absent} /\ Content(IndexFile)' = disk[IndexFile]
    BY <1>3
  <2>2. Index(0, {}).ids = {}
    BY IndexFacts
  <2>3. QED
    BY <1>1, <2>1, <2>2 DEF Shown, AsIndex
<1>5. Fewer
  BY <1>3, <1>4, StoredShrinks
<1> DEFINE seeds == job.op = "seed" /\ job.slot # IndexFile /\ ram.listed # 0
<1>6. seeds => LoadFile(ram.listed, ram) /\ ram.listed \in Ids
  BY <1>1 DEF GivesUp, RamType
<1>7. ~seeds => ram' = ram /\ config' = config
  BY DEF GivesUp
<1>8. CASE ram' = ram /\ config' = config
  BY <1>5, <1>8 DEF MapSteps, MapLose, Running
<1>9. CASE seeds /\ Loadable(ram.listed)
  <2>1. ram'.dirty = FALSE /\ Running' \in Files
    BY <1>1, <1>6, <1>9, LoadFacts DEF Running
  <2>2. ram.ids = {} /\ OnFlash = {} /\ job.slot \in Ids /\ job.at # "off"
    BY <1>1, <1>9, IdFacts DEF StoreInv, JobInv, ProgramJob, Replacing, JobType
  <2>3. ~Sound
    BY <1>1, <1>9, <2>2 DEF Sound
  <2>4. Shown = {} /\ Shown' = {}
    BY <1>1, <1>3, <1>4, <2>2, IdFacts DEF Shown, Content, OnFlash, ReadIndex
  <2>5. Stored' = Stored
    BY <2>4, StoredStays
  <2>6. QED
    BY <2>1, <2>3, <2>5 DEF MapSteps, MapStart
<1>10. CASE seeds /\ ~Loadable(ram.listed)
  <2>1. ram' = ram /\ config' = config
    BY <1>1, <1>6, <1>10, LoadFacts
  <2>2. QED
    BY <1>8, <2>1
<1>11. QED
  BY <1>7, <1>8, <1>9, <1>10

\* While its file is missing, a program is the content that it had.
LEMMA RemovalMaps == StoreInv /\ (TargetRemoved \/ RemoveFails) => MapSteps
<1> SUFFICES ASSUME StoreInv, TargetRemoved \/ RemoveFails PROVE MapSteps
  OBVIOUS
<1>1. /\ job.at = "remove" /\ ram' = ram /\ config' = config
      /\ job' = [job EXCEPT !.at = "rename", !.was = disk[job.slot]]
      /\ disk' = disk \/ disk' = [disk EXCEPT ![job.slot] = Absent]
  BY DEF TargetRemoved, RemoveFails
<1>2. \A f \in Ids \cup {IndexFile} : Content(f)' = disk[f] /\ Content(f) = disk[f]
  BY <1>1, RemovalFacts
<1>3. Shown' = Shown
  BY <1>1, <1>2 DEF Shown
<1>4. Stored' = Stored
  BY <1>2, <1>3, StoredStays
<1>5. QED
  BY <1>1, <1>4 DEF MapSteps, MapStays, Running

LEMMA FileRenamedMaps == StoreInv /\ FileRenamed => MapSteps
<1> SUFFICES ASSUME StoreInv, FileRenamed PROVE MapSteps
  OBVIOUS
<1> DEFINE slot == job.slot
<1>1. /\ job.at = "rename" /\ slot \in Ids /\ config' = config
      /\ job.op \in {"save", "autosave", "rename", "seed", "reseed"}
      /\ disk'[slot] = job.data /\ \A p \in Ids : p # slot => disk'[p] = disk[p]
      /\ ram' = Listed(slot) /\ slot \in ram'.ids
      /\ ram.ids \subseteq ram'.ids /\ ram'.ids \subseteq ram.ids \cup {slot}
      /\ job'.at = "write" /\ ram \in RamType
  BY FileRenamedEffect, TypeFacts DEF FileRenamed
<1>2. IF job.op = "rename" THEN job.data = Content(slot) /\ slot \in ram.ids
                           ELSE job.data = Running
  BY <1>1 DEF StoreInv, JobInv, ProgramJob, Replacing, Running
<1>3. /\ Shown' = Shown \cup {slot}
      /\ \A p \in Ids : Content(p)' = disk'[p]
      /\ \A p \in Ids : p # slot => Content(p) = disk[p]
  <2>1. disk'[IndexFile] = disk[IndexFile]
    BY FileRenamedEffect, IdFacts
  <2>2. Content(IndexFile)' = Content(IndexFile)
    BY <1>1, <2>1, IdFacts DEF Content
  <2>3. QED
    BY <1>1, <2>2 DEF Shown, Content
<1>4. \A p \in Ids : p # slot => Stored'[p] = Stored[p]
  BY <1>1, <1>3 DEF Stored
<1>5. Stored'[slot] = job.data
  BY <1>1, <1>3 DEF Stored
<1>6. DOMAIN Stored = Ids /\ DOMAIN Stored' = Ids
  BY DEF Stored
<1>7. CASE job.op = "rename"
  <2>1. Stored[slot] = job.data
    BY <1>1, <1>2, <1>7 DEF Stored, Shown
  <2>2. \A p \in Ids : Stored'[p] = Stored[p]
    BY <1>4, <1>5, <2>1
  <2>3. Stored' = Stored
    BY <2>2 DEF Stored
  <2>4. ram' = ram
    BY <1>1, <1>7, ListedFacts
  <2>5. QED
    BY <1>1, <2>3, <2>4 DEF MapSteps, MapStays, Running
<1>8. CASE job.op # "rename"
  <2>1. Stored' = [Stored EXCEPT ![slot] = Running]
    <3> DEFINE next == [Stored EXCEPT ![slot] = Running]
    <3>1. \A p \in Ids : Stored'[p] = next[p]
      BY <1>1, <1>2, <1>4, <1>5, <1>6, <1>8
    <3>2. next = [p \in Ids |-> next[p]] /\ Stored' = [p \in Ids |-> Stored'[p]]
      BY DEF Stored
    <3> HIDE DEF next
    <3>3. [p \in Ids |-> next[p]] = [p \in Ids |-> Stored'[p]]
      BY <3>1
    <3>4. QED
      BY <3>2, <3>3 DEF next
  <2>2. ram'.dirty \in {ram.dirty, FALSE}
    BY <1>1, <1>8, ListedFacts
  <2>3. MapSave(slot)
    BY <1>1, <2>1, <2>2 DEF MapSave, Running
  <2>4. QED
    BY <1>1, <2>3 DEF MapSteps
<1>9. QED
  BY <1>7, <1>8

\* Programs that only the old index named are gone.
LEMMA IndexRenamedMaps == StoreInv /\ IndexRenamed => MapSteps
<1> SUFFICES ASSUME StoreInv, IndexRenamed PROVE MapSteps
  OBVIOUS
<1>1. /\ TypeOK /\ ram \in RamType /\ job.at = "rename" /\ job.slot = IndexFile
      /\ DOMAIN disk = Ids \cup {IndexFile} /\ disk' = [disk EXCEPT ![IndexFile] = job.data]
      /\ config' = config /\ Finish
      /\ ram' = [ram EXCEPT !.dirty = @ /\ job.op # "autosave"]
      /\ job.data \in Indices /\ job.data.ids = ram.ids
  BY TypeFacts DEF StoreInv, IndexRenamed, TypeOK, JobInv, IndexJob, Replacing
<1>2. job'.at \in {"write", "rest"}
  BY <1>1, BeginsAt, RestFacts DEF Finish, WriteIndex
<1>3. /\ ram'.ids = ram.ids
      /\ job.op = "autosave" => ram'.dirty = FALSE
      /\ job.op # "autosave" => ram'.dirty = ram.dirty
  <2>1. ram'.ids = ram.ids /\ (ram'.dirty <=> (ram.dirty /\ job.op # "autosave"))
    BY <1>1 DEF RamType
  <2>2. ram.dirty \in BOOLEAN /\ ram'.dirty \in BOOLEAN
    BY <1>1 DEF RamType
  <2>3. QED
    BY <2>1, <2>2, Zenon
<1>4. \A p \in Ids : Content(p) = disk[p] /\ Content(p)' = disk[p]
  BY <1>1, <1>2, IdFacts DEF Content
<1>5. Shown' = ram.ids /\ ram.ids \subseteq Shown
  <2>1. Content(IndexFile)' = job.data /\ job.data # Absent
    BY <1>1, <1>2, IndexFacts DEF Content
  <2>2. QED
    BY <1>1, <1>3, <2>1 DEF Shown, AsIndex
<1>6. Fewer
  BY <1>4, <1>5, StoredShrinks
<1>7. CASE job.op # "autosave"
  BY <1>1, <1>3, <1>6, <1>7 DEF MapSteps, MapLose, Running
<1>8. CASE job.op = "autosave"
  <2>1. PICK p \in ram.ids : disk[p] = Running
    BY <1>1, <1>8 DEF StoreInv, JobInv, IndexJob, Replacing, Running
  <2>2. p \in Ids /\ Stored'[p] = Running
    BY <1>1, <1>4, <1>5, <2>1 DEF RamType, Stored
  <2>3. QED
    BY <1>1, <1>3, <1>6, <1>8, <2>2 DEF MapSteps, MapSaved, Running
<1>9. QED
  BY <1>7, <1>8

\* A power cut loses at most programs, and what ran unsaved.
LEMMA PowerCutMaps == StoreInv /\ PowerCut => MapSteps
<1> SUFFICES ASSUME StoreInv, PowerCut PROVE MapSteps
  OBVIOUS
<1>1. /\ disk' = disk /\ ram' = EmptyRam /\ config' = Default /\ job' = Off
      /\ job.at = "rename" => disk[job.slot] \in {Absent, job.was}
      /\ disk[IndexFile] \in Indices \cup {Absent}
  BY TypeFacts DEF PowerCut, StoreInv, JobInv
<1>2. \A f \in Ids \cup {IndexFile} :
         Content(f)' = disk[f] /\ disk[f] \in {Content(f), Absent}
  BY <1>1, RestFacts DEF Content
<1>3. Shown' \subseteq Shown
  <2>1. disk[IndexFile] \in {Content(IndexFile), Absent} /\ Content(IndexFile)' = disk[IndexFile]
    BY <1>2
  <2>2. Index(0, {}).ids = {}
    BY IndexFacts
  <2>3. QED
    BY <1>1, <2>1, <2>2, RestFacts DEF Shown, AsIndex
<1>4. Fewer
  BY <1>2, <1>3, StoredShrinks
<1>5. QED
  BY <1>1, <1>4, RestFacts DEF MapSteps, MapLose, Running

LEMMA StoreMapsSteps == StoreInv /\ [Next]_vars => [Map!MapNext]_(Map!mapVars)
<1> SUFFICES ASSUME StoreInv, [Next]_vars PROVE MapSteps
  BY MapStepsAre
<1>1. CASE UNCHANGED vars
  BY <1>1 DEF vars, MapSteps, MapStays, Stored, Running, Shown, Content, OnFlash, ReadIndex
<1>2. CASE Next
  <2>1. CASE TempFails \/ RenameFails
    BY <2>1, GivesUpMaps DEF TempFails, RenameFails
  <2>2. QED
    BY <1>2, <2>1, PowerOnMaps, PowerCutMaps, OperationMaps, UnlistMaps, TempWrittenMaps,
       RemovalMaps, FileRenamedMaps, IndexRenamedMaps DEF Next, Step
<1>3. QED
  BY <1>1, <1>2

LEMMA StoreMapsStart ==
    Init => /\ Stored = [p \in Ids |-> Absent]
            /\ Running = Written(Default) /\ ~ram.dirty
<1> SUFFICES ASSUME Init
             PROVE  Stored = [p \in Ids |-> Absent] /\ Running = Written(Default) /\ ~ram.dirty
  OBVIOUS
<1>1. \A p \in Ids : disk[p] = Absent /\ Content(p) = disk[p]
  BY RestFacts DEF Init, Content
<1>2. QED
  BY <1>1, RestFacts DEF Init, Stored, Running

\* The store keeps the promise of ProgramMap: whatever operation is interrupted, a
\* program is never changed into something that was not saved under it, a load runs
\* what was saved, and an edit counts as saved only when a program holds it.
THEOREM StoreKeepsPromise == Spec => MapSpec
<1>1. Init => /\ Stored = [p \in Ids |-> Absent]
              /\ Running = Written(Default) /\ ~ram.dirty
  BY StoreMapsStart
<1>2. StoreInv /\ [Next]_vars => [Map!MapNext]_(Map!mapVars)
  BY StoreMapsSteps
<1>3. QED
  BY <1>1, <1>2, StoreInvariant, PTL DEF Spec, MapSpec, Map!MapSpec, Stored, Running
=============================================================================
