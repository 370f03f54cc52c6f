------------------------- MODULE ConfigBufferProofs -------------------------
(***************************************************************************)
(* Proofs about the two configuration buffers (module ConfigBuffer), for   *)
(* any fields, settings and checks, and any number of readers.             *)
(***************************************************************************)
EXTENDS ConfigBuffer, TLAPS

\* What has been copied agrees; what runs is valid.
CopyInv ==
    /\ Valid(buf[active])
    /\ editor.at = "idle" => editor = Idle
    /\ editor.at = "copy" => \A f \in Fields \ editor.left : buf[Inactive][f] = buf[active][f]
    /\ editor.at = "set" /\ editor.left = Fields => buf[Inactive] = buf[active]

\* A reader that is not late points to a buffer that nobody writes.
ReaderInv ==
    \A r \in Readers :
        ~reading[r].late =>
            /\ buf[reading[r].at] = reading[r].first
            /\ \A f \in Fields \ reading[r].left : reading[r].got[f] = reading[r].first[f]
            /\ reading[r].published = 0 => reading[r].at = active
            /\ reading[r].published # 0 => editor = Idle

BufInv == BufTypeOK /\ CopyInv /\ ReaderInv

Reading == [at : {0, 1}, left : SUBSET Fields, got : Configuration,
            first : Configuration, published : 0 .. 1, late : BOOLEAN]

LEMMA BufStart == BufInit => BufInv
<1> SUFFICES ASSUME BufInit PROVE BufInv
  OBVIOUS
<1>1. PICK c \in Configuration : Valid(c) /\ buf = [i \in {0, 1} |-> c]
  BY DEF BufInit
<1>2. NotReading \in Reading
  BY <1>1 DEF NotReading, Reading
<1>3. BufTypeOK
  BY <1>1, <1>2 DEF BufInit, BufTypeOK, Reading, Idle
<1>4. CopyInv /\ ReaderInv
  BY <1>1 DEF BufInit, CopyInv, ReaderInv, NotReading, Idle, Inactive
<1>5. QED
  BY <1>3, <1>4 DEF BufInv

LEMMA BufTypes ==
    ASSUME BufTypeOK
    PROVE  /\ Inactive \in {0, 1} /\ Inactive # active /\ active \in {0, 1}
           /\ \A r \in Readers : reading[r] \in Reading
           /\ DOMAIN reading = Readers
BY DEF BufTypeOK, Inactive, Reading

\* An edit begins: readers that a publish has overtaken are late from here on.
LEMMA BeginStep == BufInv /\ EditBegins => BufInv'
<1> SUFFICES ASSUME BufInv, EditBegins PROVE BufInv'
  OBVIOUS
<1>1. /\ editor' = [at |-> "copy", left |-> Fields] /\ buf' = buf /\ active' = active
      /\ reading' = [r \in Readers |-> [reading[r] EXCEPT
                        !.late = reading[r].late \/ reading[r].published > 0]]
  BY DEF EditBegins
<1>2. \A r \in Readers : reading[r] \in Reading
  BY BufTypes DEF BufInv
<1>3. \A r \in Readers :
         /\ reading'[r] \in Reading
         /\ reading'[r].at = reading[r].at /\ reading'[r].left = reading[r].left
         /\ reading'[r].got = reading[r].got /\ reading'[r].first = reading[r].first
         /\ reading'[r].published = reading[r].published
         /\ ~reading'[r].late => ~reading[r].late /\ reading[r].published = 0
  <2> SUFFICES ASSUME NEW r \in Readers
               PROVE  /\ reading'[r] \in Reading
                      /\ reading'[r].at = reading[r].at /\ reading'[r].left = reading[r].left
                      /\ reading'[r].got = reading[r].got
                      /\ reading'[r].first = reading[r].first
                      /\ reading'[r].published = reading[r].published
                      /\ ~reading'[r].late => ~reading[r].late /\ reading[r].published = 0
    OBVIOUS
  <2> DEFINE late == reading[r].late \/ reading[r].published > 0
  <2>1. late \in BOOLEAN /\ (~late => ~reading[r].late /\ reading[r].published = 0)
    BY <1>2 DEF Reading
  <2>2. reading'[r] = [reading[r] EXCEPT !.late = late]
    BY <1>1
  <2> HIDE DEF late
  <2>3. QED
    BY <1>2, <2>1, <2>2 DEF Reading
<1>4. BufTypeOK'
  BY <1>1, <1>3 DEF BufInv, BufTypeOK, Reading
<1>5. CopyInv'
  BY <1>1 DEF BufInv, CopyInv, Inactive
<1>6. ReaderInv'
  BY <1>1, <1>3 DEF BufInv, ReaderInv
<1>7. QED
  BY <1>4, <1>5, <1>6 DEF BufInv

\* A copied or changed field is one of the other buffer.
LEMMA WriteStep == BufInv /\ (Copy \/ SetField) => BufInv'
<1> SUFFICES ASSUME BufInv, Copy \/ SetField PROVE BufInv'
  OBVIOUS
<1>1. PICK f \in editor.left, v \in Settings :
          /\ buf' = [buf EXCEPT ![Inactive][f] = v]
          /\ editor.at = "copy" => v = buf[active][f]
          /\ editor' = IF editor.at = "copy" /\ editor.left = {f}
                         THEN [at |-> "set", left |-> Fields]
                         ELSE [editor EXCEPT !.left = editor.left \ {f}]
  <2>1. CASE Copy
    <3>1. PICK f \in editor.left :
             /\ buf' = [buf EXCEPT ![Inactive][f] = buf[active][f]]
             /\ editor' = IF editor.left = {f} THEN [at |-> "set", left |-> Fields]
                          ELSE [editor EXCEPT !.left = editor.left \ {f}]
      BY <2>1 DEF Copy
    <3>2. buf[active][f] \in Settings
      BY <3>1 DEF BufInv, BufTypeOK, Configuration
    <3>3. editor.at = "copy"
      BY <2>1 DEF Copy
    <3>4. QED
      BY <3>1, <3>2, <3>3
  <2>2. CASE SetField
    BY <2>2 DEF SetField
  <2>3. QED
    BY <2>1, <2>2
<1>2. editor.at \in {"copy", "set"} /\ active' = active /\ reading' = reading
  BY DEF Copy, SetField
<1>3. /\ f \in Fields /\ buf \in [{0, 1} -> Configuration]
      /\ Inactive \in {0, 1} /\ active \in {0, 1} /\ Inactive # active
  BY BufTypes DEF BufInv, BufTypeOK
<1>4. /\ buf'[active] = buf[active] /\ buf'[Inactive] = [buf[Inactive] EXCEPT ![f] = v]
      /\ buf' \in [{0, 1} -> Configuration]
  BY <1>1, <1>3 DEF Configuration
<1>5. editor' \in [at : {"copy", "set"}, left : SUBSET Fields]
  BY <1>1, <1>2 DEF BufInv, BufTypeOK
<1>6. BufTypeOK'
  BY <1>2, <1>4, <1>5 DEF BufInv, BufTypeOK
<1>7. CopyInv'
  <2>1. CASE editor.at = "set"
    <3>1. editor'.at = "set" /\ editor'.left # Fields
      BY <1>1, <1>3, <2>1 DEF BufInv, BufTypeOK
    <3>2. QED
      BY <1>2, <1>4, <3>1 DEF BufInv, CopyInv, Inactive
  <2>2. CASE editor.at = "copy" /\ editor.left # {f}
    <3>1. editor'.at = "copy" /\ editor'.left = editor.left \ {f}
      BY <1>1, <2>2 DEF BufInv, BufTypeOK
    <3>2. \A h \in Fields \ editor'.left : buf'[Inactive][h] = buf'[active][h]
      BY <1>1, <1>3, <1>4, <2>2, <3>1 DEF BufInv, CopyInv, Configuration
    <3>3. QED
      BY <1>2, <1>4, <3>1, <3>2 DEF BufInv, CopyInv, Inactive
  <2>3. CASE editor.at = "copy" /\ editor.left = {f}
    <3>1. editor' = [at |-> "set", left |-> Fields]
      BY <1>1, <2>3
    <3>2. \A h \in Fields : buf'[Inactive][h] = buf'[active][h]
      BY <1>1, <1>3, <1>4, <2>3 DEF BufInv, CopyInv, Configuration
    <3>3. buf'[Inactive] \in [Fields -> Settings] /\ buf'[active] \in [Fields -> Settings]
      BY <1>3, <1>4 DEF Configuration
    <3>4. buf'[Inactive] = buf'[active]
      BY <3>2, <3>3
    <3>5. QED
      BY <1>2, <1>4, <3>1, <3>4 DEF BufInv, CopyInv, Inactive
  <2>4. QED
    BY <1>2, <2>1, <2>2, <2>3
<1>8. ReaderInv'
  BY <1>2, <1>3, <1>4 DEF BufInv, ReaderInv, Idle
<1>9. QED
  BY <1>6, <1>7, <1>8 DEF BufInv

LEMMA PublishStep == BufInv /\ (Publish \/ Reject) => BufInv'
<1> SUFFICES ASSUME BufInv, Publish \/ Reject PROVE BufInv'
  OBVIOUS
<1>1. /\ editor' = Idle /\ editor.at = "set" /\ buf' = buf
      /\ Inactive \in {0, 1} /\ 1 - Inactive = active
  BY BufTypes DEF Publish, Reject, BufInv, BufTypeOK, Inactive
<1>2. CASE Publish
  <2>1. /\ active' = Inactive /\ Valid(buf[Inactive])
        /\ reading' = [r \in Readers |-> [reading[r] EXCEPT !.published = 1]]
    BY <1>2 DEF Publish
  <2>2. \A r \in Readers : reading[r] \in Reading
    BY BufTypes DEF BufInv
  <2>3. \A r \in Readers :
           /\ reading'[r] \in Reading
           /\ reading'[r].at = reading[r].at /\ reading'[r].left = reading[r].left
           /\ reading'[r].got = reading[r].got /\ reading'[r].first = reading[r].first
           /\ reading'[r].published = 1 /\ reading'[r].late = reading[r].late
    BY <2>1, <2>2 DEF Reading
  <2>4. BufTypeOK'
    BY <1>1, <2>1, <2>3 DEF BufInv, BufTypeOK, Reading, Idle
  <2>5. CopyInv' /\ ReaderInv'
    BY <1>1, <2>1, <2>3 DEF BufInv, CopyInv, ReaderInv, Idle
  <2>6. QED
    BY <2>4, <2>5 DEF BufInv
<1>3. CASE Reject
  BY <1>1, <1>3 DEF Reject, BufInv, BufTypeOK, CopyInv, ReaderInv, Idle, Inactive
<1>4. QED
  BY <1>2, <1>3

LEMMA ReaderStep == BufInv /\ (\E r \in Readers : TakePointer(r) \/ ReadField(r)) => BufInv'
<1> SUFFICES ASSUME BufInv, NEW r \in Readers, TakePointer(r) \/ ReadField(r) PROVE BufInv'
  OBVIOUS
<1>1. UNCHANGED <<buf, active, editor>>
  BY DEF TakePointer, ReadField
<1>2. CopyInv'
  BY <1>1 DEF BufInv, CopyInv, Inactive
<1>3. /\ reading \in [Readers -> Reading] /\ buf \in [{0, 1} -> Configuration]
      /\ active \in {0, 1}
  BY DEF BufInv, BufTypeOK, Reading
<1>4. CASE TakePointer(r)
  <2> DEFINE taken == [at |-> active, left |-> Fields, got |-> buf[active],
                       first |-> buf[active], published |-> 0, late |-> FALSE]
  <2>1. reading' = [reading EXCEPT ![r] = taken]
    BY <1>4 DEF TakePointer
  <2>2. taken \in Reading
    BY <1>3 DEF Reading
  <2>3. BufTypeOK'
    BY <1>1, <1>3, <2>1, <2>2 DEF BufInv, BufTypeOK, Reading
  <2>4. ReaderInv'
    BY <1>1, <1>3, <2>1 DEF BufInv, ReaderInv
  <2>5. QED
    BY <1>2, <2>3, <2>4 DEF BufInv
<1>5. CASE ReadField(r)
  <2>1. PICK f \in reading[r].left :
           reading' = [reading EXCEPT ![r].left = reading[r].left \ {f},
                                      ![r].got[f] = buf[reading[r].at][f]]
    BY <1>5 DEF ReadField
  <2>2. f \in Fields /\ reading[r] \in Reading /\ reading[r].got \in Configuration
    BY <1>3 DEF Reading
  <2>3. /\ reading'[r].at = reading[r].at /\ reading'[r].left = reading[r].left \ {f}
        /\ reading'[r].got = [reading[r].got EXCEPT ![f] = buf[reading[r].at][f]]
        /\ reading'[r].first = reading[r].first /\ reading'[r].late = reading[r].late
        /\ reading'[r].published = reading[r].published
        /\ \A q \in Readers \ {r} : reading'[q] = reading[q]
    BY <1>3, <2>1, <2>2 DEF Reading
  <2>4. reading' \in [Readers -> Reading]
    <3>1. reading'[r].got \in Configuration
      BY <1>3, <2>2, <2>3 DEF Reading, Configuration
    <3>2. reading'[r] \in Reading
      BY <1>3, <2>1, <2>2, <2>3, <3>1 DEF Reading
    <3>3. reading' \in [Readers -> Reading] <=> reading'[r] \in Reading
      BY <1>3, <2>1, <2>3
    <3>4. QED
      BY <3>2, <3>3
  <2>5. BufTypeOK'
    BY <1>1, <2>4 DEF BufInv, BufTypeOK, Reading
  <2>6. ReaderInv'
    BY <1>1, <2>2, <2>3 DEF BufInv, ReaderInv, Configuration
  <2>7. QED
    BY <1>2, <2>5, <2>6 DEF BufInv
<1>6. QED
  BY <1>4, <1>5

LEMMA BufStep == BufInv /\ [BufNext]_bufVars => BufInv'
<1>1. BufInv /\ UNCHANGED bufVars => BufInv'
  BY DEF bufVars, BufInv, BufTypeOK, CopyInv, ReaderInv, Inactive
<1>2. QED
  BY <1>1, BeginStep, WriteStep, PublishStep, ReaderStep DEF BufNext

\* The buffers are well typed, for any fields and readers.
THEOREM BufTypeCorrect == BufSpec => []BufTypeOK
BY BufStart, BufStep, PTL DEF BufSpec, BufInv

\* A reader gets one configuration, whole, unless two edits overtake it; an edit that is
\* rejected is never run and never copied into the next one.
THEOREM EditsCorrect == BufSpec => []EditsAreIsolated
<1>1. BufInv => EditsAreIsolated
  <2> SUFFICES ASSUME BufInv PROVE EditsAreIsolated
    OBVIOUS
  <2>1. ASSUME NEW r \in Readers, reading[r].left = {}, ~reading[r].late
        PROVE  reading[r].got = reading[r].first
    <3>1. reading[r].got \in [Fields -> Settings] /\ reading[r].first \in [Fields -> Settings]
      BY BufTypes DEF BufInv, Reading, Configuration
    <3>2. \A f \in Fields : reading[r].got[f] = reading[r].first[f]
      BY <2>1 DEF BufInv, ReaderInv
    <3>3. QED
      BY <3>1, <3>2
  <2>2. QED
    BY <2>1 DEF BufInv, CopyInv, EditsAreIsolated, OneEditIsHarmless, RejectedEditsVanish
<1>2. QED
  BY <1>1, BufStart, BufStep, PTL DEF BufSpec
=============================================================================
