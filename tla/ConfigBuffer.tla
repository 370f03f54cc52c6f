---------------------------- MODULE ConfigBuffer ----------------------------
(***************************************************************************)
(* The two buffers of the configuration (config/Config.cpp).  An editor,   *)
(* under the edit lock, copies the active buffer over the other one,       *)
(* changes it field by field and publishes it, or gives up.  Readers take  *)
(* the pointer of active() and no lock: the pattern task goes on reading   *)
(* through it while editors go on writing.                                 *)
(***************************************************************************)
EXTENDS Integers

CONSTANTS
    Fields, Settings,   \* the members, and the values of each
    Valid(_),           \* the checks of handleSetConfig()
    Readers

VARIABLES
    buf,        \* buf_[2]
    active,     \* activeIdx_
    editor,     \* what the editor does, the fields it has copied or set
    reading     \* per reader: the buffer pointed to, what was read, and ghosts

bufVars == <<buf, active, editor, reading>>

Configuration == [Fields -> Settings]
Idle == [at |-> "idle", left |-> {}]
NotReading == [at |-> 0, left |-> {}, got |-> buf[0], first |-> buf[0], published |-> 0, late |-> FALSE]

BufTypeOK ==
    /\ buf \in [{0, 1} -> Configuration] /\ active \in {0, 1}
    /\ editor \in [at : {"idle", "copy", "set"}, left : SUBSET Fields]
    /\ reading \in [Readers -> [at : {0, 1}, left : SUBSET Fields, got : Configuration,
                     first : Configuration, published : 0 .. 1, late : BOOLEAN]]

BufInit ==
    /\ \E c \in Configuration : Valid(c) /\ buf = [i \in {0, 1} |-> c]
    /\ active = 0 /\ editor = Idle
    /\ reading = [r \in Readers |-> NotReading]

----------------------------------------------------------------------------
Inactive == 1 - active

EditBegins_NoSeed ==
    /\ editor = Idle /\ editor' = [at |-> "set", left |-> Fields]
    /\ reading' = [r \in Readers |-> [reading[r] EXCEPT !.late = @ \/ reading[r].published > 0]]
    /\ UNCHANGED <<buf, active>>

\* editScratch(), field by field; readers that were overtaken by a publish have
\* their buffer written over from here on.
EditBegins ==
    /\ editor = Idle /\ editor' = [at |-> "copy", left |-> Fields]
    /\ reading' = [r \in Readers |-> [reading[r] EXCEPT !.late = @ \/ reading[r].published > 0]]
    /\ UNCHANGED <<buf, active>>

Copy ==
    /\ editor.at = "copy"
    /\ \E f \in editor.left :
          /\ buf' = [buf EXCEPT ![Inactive][f] = buf[active][f]]
          /\ editor' = IF editor.left = {f} THEN [at |-> "set", left |-> Fields]
                       ELSE [editor EXCEPT !.left = @ \ {f}]
    /\ UNCHANGED <<active, reading>>

SetField ==
    /\ editor.at = "set"
    /\ \E f \in editor.left, v \in Settings :
          /\ buf' = [buf EXCEPT ![Inactive][f] = v]
          /\ editor' = [editor EXCEPT !.left = @ \ {f}]
    /\ UNCHANGED <<active, reading>>

\* publish(), if the checks pass.
Publish ==
    /\ editor.at = "set" /\ Valid(buf[Inactive])
    /\ active' = Inactive /\ editor' = Idle
    /\ reading' = [r \in Readers |-> [reading[r] EXCEPT !.published = 1]]
    /\ UNCHANGED buf

Reject ==
    /\ editor.at = "set" /\ ~Valid(buf[Inactive])
    /\ editor' = Idle
    /\ UNCHANGED <<buf, active, reading>>

\* active()
TakePointer(r) ==
    /\ reading[r].left = {}
    /\ reading' = [reading EXCEPT ![r] =
          [at |-> active, left |-> Fields, got |-> buf[active], first |-> buf[active],
           published |-> 0, late |-> FALSE]]
    /\ UNCHANGED <<buf, active, editor>>

ReadField(r) ==
    /\ \E f \in reading[r].left :
          reading' = [reading EXCEPT ![r].left = @ \ {f},
                                     ![r].got[f] = buf[reading[r].at][f]]
    /\ UNCHANGED <<buf, active, editor>>

BufNext ==
    \/ EditBegins \/ Copy \/ SetField \/ Publish \/ Reject
    \/ \E r \in Readers : TakePointer(r) \/ ReadField(r)

BufSpec == BufInit /\ [][BufNext]_bufVars

----------------------------------------------------------------------------
\* A reader sees one configuration that was published, whole, however many of its
\* fields it reads, unless a second edit began while it read (editScratch).
OneEditIsHarmless ==
    \A r \in Readers : reading[r].left = {} /\ ~reading[r].late => reading[r].got = reading[r].first

\* What runs has passed the checks: a rejected edit stays in the other buffer and
\* the next one does not inherit from it (handleSetConfig).
RejectedEditsVanish ==
    /\ Valid(buf[active])
    /\ editor.at = "set" /\ editor.left = Fields => buf[Inactive] = buf[active]

\* Neither a reader nor the next editor sees an edit that is not published.
EditsAreIsolated == OneEditIsHarmless /\ RejectedEditsVanish
=============================================================================
