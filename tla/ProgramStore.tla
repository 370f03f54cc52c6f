---------------------------- MODULE ProgramStore ----------------------------
(***************************************************************************)
(* The program store (src/src/storage/ProgramStore.cpp): a file per        *)
(* program and an index file on flash, a copy of the index in memory, and  *)
(* an autosave of edits.                                                   *)
(*                                                                         *)
(* The edit lock and the mutex of the store admit one operation at a time; *)
(* what interrupts it is a power cut.  A step is therefore one flash       *)
(* operation: writing the temporary file, removing the target, renaming.   *)
(* Each of them may be refused; mounting and reading are taken to succeed. *)
(* Nothing ever reads a temporary file, so it appears only as the content  *)
(* that job carries.  Names are left out: they travel with the content.    *)
(* The list is a set, since it is kept sorted by id.                       *)
(***************************************************************************)
EXTENDS ProgramFormat, FiniteSets

CONSTANTS
    MaxPrograms,    \* MAX_PROGRAMS
    Drafts,         \* what the operator may enter
    Default,        \* Config::init()
    Absent,         \* no such file
    FlashMayFail,   \* writing, removing or renaming a file may fail
    CutsAnywhere    \* the power may go during an operation, not only at rest

Ids == 1 .. MaxPrograms
IndexFile == 0

Indices == [active : Ids \cup {0}, ids : SUBSET Ids]

\* What set_config and set_pattern make of it, and what is written to a file.
Configs == {Edited(d) : d \in {a \in Drafts : Accepted(a)}}
Files   == {Written(c) : c \in Configs}

ASSUME StoreAssumption ==
    /\ MaxPrograms \in Nat \ {0}
    /\ Default \in Configs /\ Parses(Written(Default)) /\ Absent \notin Files
    /\ FlashMayFail \in BOOLEAN /\ CutsAnywhere \in BOOLEAN

ASSUME DraftAssumption == Drafts \subseteq ConfigType /\ Absent \notin Indices

VARIABLES
    disk,       \* the files: a configuration per program, the index
    ram,        \* s_index (ids, listed = activeId), s_activeId, s_dirty
    config,     \* Config::active()
    job,        \* the operation in progress, the file it replaces and what that was
    torn,       \* ghost: files that a power cut or a refused rename left removed
    erased      \* ghost: programs whose file the operator deleted

vars == <<disk, ram, config, job, torn, erased>>

Index(active, ids) == [active |-> active, ids |-> ids]
EmptyRam == [ids |-> {}, listed |-> 0, active |-> 0, dirty |-> FALSE]
Rest     == [op |-> "none", slot |-> 0, data |-> Absent, was |-> Absent, at |-> "rest"]
Off      == [Rest EXCEPT !.at = "off"]

Ops == {"none", "save", "autosave", "load", "rename", "erase", "reseed", "seed"}
Places == {"off", "rest", "write", "remove", "rename", "unlist"}

TypeOK ==
    /\ disk \in [Ids \cup {IndexFile} -> Files \cup Indices \cup {Absent}]
    /\ \A p \in Ids : disk[p] \in Files \cup {Absent}
    /\ disk[IndexFile] \in Indices \cup {Absent}
    /\ ram \in [ids : SUBSET Ids, listed : Ids \cup {0}, active : Ids \cup {0}, dirty : BOOLEAN]
    /\ config \in Configs
    /\ job \in [op : Ops, slot : Ids \cup {IndexFile}, at : Places,
                data : Files \cup Indices \cup {Absent},
                was : Files \cup Indices \cup {Absent}]
    /\ job.at \in {"write", "remove", "rename"} =>
          IF job.slot = IndexFile THEN job.data \in Indices ELSE job.data \in Files
    /\ torn \subseteq Ids \cup {IndexFile}
    /\ erased \subseteq Ids

\* A new controller: no files.
Init ==
    /\ disk = [f \in Ids \cup {IndexFile} |-> Absent]
    /\ ram = EmptyRam /\ config = Default /\ job = Off
    /\ torn = {} /\ erased = {}

----------------------------------------------------------------------------
AtRest == job.at = "rest"

\* writeFileAtomic(): temporary file, removal of the target, renaming.
Replace(op, slot, data) ==
    job' = [op |-> op, slot |-> slot, data |-> data, was |-> Absent, at |-> "write"]

\* writeIndexFile() of the memory contents r, the last step of an operation.
WriteIndex(op, r) == Replace(op, IndexFile, Index(r.active, r.ids))

Loadable(p) == disk[p] # Absent /\ Parses(disk[p])

LoadFile_AsWritten(p, r) ==
    IF Loadable(p)
      THEN ram' = [r EXCEPT !.active = p, !.dirty = FALSE] /\ config' = disk[p]
      ELSE ram' = r /\ UNCHANGED config

LoadFile_BeforeChecking(p, r) ==
    IF disk[p] # Absent
      THEN ram' = [r EXCEPT !.active = p, !.dirty = FALSE] /\ UNCHANGED config
      ELSE ram' = r /\ UNCHANGED config

\* loadProgramFromFile(): publishes the configuration, or leaves all alone.
LoadFile(p, r) ==
    IF Loadable(p)
      THEN ram' = [r EXCEPT !.active = p, !.dirty = FALSE] /\ config' = Parsed(disk[p])
      ELSE ram' = r /\ UNCHANGED config

Unlogged == UNCHANGED <<torn, erased>>

\* createSeedProgram()
Seed(op) == Replace(op, 1, Written(config))

\* readIndexFile()
AsIndex(content) == IF content = Absent THEN Index(0, {}) ELSE content
ReadIndex == AsIndex(disk[IndexFile])

\* init(): read the index, or seed program 1 with the defaults, which are then
\* loaded back unchanged.
PowerOn ==
    /\ job.at = "off"
    /\ LET ids   == ReadIndex.ids
           first == IF ReadIndex.active = 0 /\ ids # {} THEN Min(ids) ELSE ReadIndex.active
           r     == [EmptyRam EXCEPT !.ids = ids, !.listed = first]
       IN  IF ids = {}
             THEN ram' = r /\ Seed("seed") /\ UNCHANGED config
             ELSE LoadFile(first, r) /\ job' = Rest
    /\ UNCHANGED disk /\ Unlogged

\* set_config, set_pattern or a calibration result, with markDirty().
Edit ==
    /\ AtRest /\ config' \in Configs
    /\ ram' = [ram EXCEPT !.dirty = TRUE]
    /\ UNCHANGED <<disk, job>> /\ Unlogged

\* save(0): a new program under the lowest free id; save(p): an existing one.
SaveNew ==
    /\ AtRest /\ Ids \ ram.ids # {}
    /\ Replace("save", Min(Ids \ ram.ids), Written(config))
    /\ UNCHANGED <<disk, ram, config>> /\ Unlogged

SaveOver(p) ==
    /\ AtRest /\ p \in ram.ids
    /\ Replace("save", p, Written(config))
    /\ UNCHANGED <<disk, ram, config>> /\ Unlogged

\* service(): 2 s after the last edit, if the active program is in the list.
Autosave ==
    /\ AtRest /\ ram.dirty /\ ram.active \in ram.ids
    /\ Replace("autosave", ram.active, Written(config))
    /\ UNCHANGED <<disk, ram, config>> /\ Unlogged

LoadProgram(p) ==
    /\ AtRest /\ p \in ram.ids /\ Loadable(p)
    /\ LoadFile(p, [ram EXCEPT !.listed = p])
    /\ WriteIndex("load", [ram EXCEPT !.active = p])
    /\ UNCHANGED disk /\ Unlogged

\* rename() rewrites the file with its new name, whatever its content.
Rename(p) ==
    /\ AtRest /\ p \in ram.ids /\ disk[p] # Absent
    /\ Replace("rename", p, disk[p])
    /\ UNCHANGED <<disk, ram, config>> /\ Unlogged

\* erase(): the file first, then, whether it is gone or not, the list and, if it
\* was active, another program.
Erase(p) ==
    /\ AtRest /\ p \in ram.ids
    /\ job' = [Rest EXCEPT !.op = "erase", !.slot = p, !.at = "unlist"]
    /\ \/ disk' = [disk EXCEPT ![p] = Absent] /\ erased' = erased \cup {p}
       \/ FlashMayFail /\ UNCHANGED <<disk, erased>>
    /\ UNCHANGED <<ram, config, torn>>

Unlist ==
    /\ job.at = "unlist"
    /\ LET left == ram.ids \ {job.slot}
           next == IF left = {} THEN 0 ELSE Min(left)
           r    == [ram EXCEPT !.ids = left]
       IN  IF ram.listed # job.slot
             THEN ram' = r /\ UNCHANGED config /\ WriteIndex("erase", r)
           ELSE IF left = {}
             THEN ram' = r /\ UNCHANGED config /\ Seed("reseed")
           ELSE /\ LoadFile(next, [r EXCEPT !.listed = next])
                /\ WriteIndex("erase", ram')
    /\ UNCHANGED disk /\ Unlogged

----------------------------------------------------------------------------
\* An operation gives up or ends here; erase() writes the index in any case.
Finish ==
    IF job.op = "reseed" THEN WriteIndex("erase", ram') ELSE job' = Rest

TempWritten ==
    /\ job.at = "write" /\ job' = [job EXCEPT !.at = "remove"]
    /\ UNCHANGED <<disk, ram, config>> /\ Unlogged

TempFails_Ignored ==
    /\ FlashMayFail /\ job.at = "write"
    /\ IF job.slot = IndexFile
         THEN UNCHANGED ram /\ Finish
         ELSE ram' = [ram EXCEPT !.ids = @ \cup {job.slot}] /\ WriteIndex(job.op, ram')
    /\ UNCHANGED <<disk, config>> /\ Unlogged

TempFails_ClearsDirty ==
    /\ FlashMayFail /\ job.at = "write"
    /\ ram' = [ram EXCEPT !.dirty = FALSE]
    /\ UNCHANGED <<disk, config>> /\ Finish /\ Unlogged

\* The operation ends without its file.  init() goes on without a seed: it loads
\* what an index without programs named.
GivesUp ==
    /\ FlashMayFail /\ UNCHANGED <<disk, erased>>
    /\ IF job.op = "seed" /\ job.slot # IndexFile /\ ram.listed # 0
         THEN LoadFile(ram.listed, ram) ELSE UNCHANGED <<ram, config>>
    /\ Finish

TempFails == job.at = "write" /\ GivesUp /\ UNCHANGED torn

TargetRemoved ==
    /\ job.at = "remove"
    /\ disk' = [disk EXCEPT ![job.slot] = Absent]
    /\ job' = [job EXCEPT !.at = "rename", !.was = disk[job.slot]]
    /\ UNCHANGED <<ram, config>> /\ Unlogged

\* Nobody asks for the result of the removal; whether the renaming succeeds over a
\* file that is still there is left open.
RemoveFails ==
    /\ FlashMayFail /\ job.at = "remove" /\ disk[job.slot] # Absent
    /\ job' = [job EXCEPT !.at = "rename", !.was = disk[job.slot]]
    /\ UNCHANGED <<disk, ram, config>> /\ Unlogged

\* The list as it is once the program file of the operation is in place.
Listed(p) ==
    CASE job.op \in {"save", "autosave"} ->
            [ram EXCEPT !.ids = @ \cup {p}, !.listed = p, !.active = p]
      [] job.op \in {"seed", "reseed"} ->
            [ids |-> {p}, listed |-> p, active |-> p, dirty |-> FALSE]
      [] OTHER -> ram

FileRenamed ==
    /\ job.at = "rename" /\ job.slot # IndexFile
    /\ disk' = [disk EXCEPT ![job.slot] = job.data]
    /\ ram' = Listed(job.slot)
    /\ WriteIndex(job.op, ram')
    /\ torn' = torn \ {job.slot} /\ erased' = erased \ {job.slot}
    /\ UNCHANGED config

IndexRenamed ==
    /\ job.at = "rename" /\ job.slot = IndexFile
    /\ disk' = [disk EXCEPT ![IndexFile] = job.data]
    /\ ram' = [ram EXCEPT !.dirty = @ /\ job.op # "autosave"]
    /\ Finish
    /\ torn' = torn \ {IndexFile}
    /\ UNCHANGED <<config, erased>>

\* A file that is removed and not replaced.
Tears ==
    torn' = IF job.at = "rename" /\ disk[job.slot] = Absent THEN torn \cup {job.slot} ELSE torn

\* The target may be gone and its successor still has the temporary name.
RenameFails == job.at = "rename" /\ GivesUp /\ Tears

PowerCut ==
    /\ job.at # "off" /\ (CutsAnywhere \/ AtRest)
    /\ Tears
    /\ ram' = EmptyRam /\ config' = Default /\ job' = Off
    /\ UNCHANGED <<disk, erased>>

Operation ==
    \/ Edit \/ SaveNew \/ Autosave
    \/ \E p \in Ids : SaveOver(p) \/ LoadProgram(p) \/ Rename(p) \/ Erase(p)

Step ==
    \/ Unlist \/ TempWritten \/ TempFails \/ TargetRemoved \/ RemoveFails
    \/ FileRenamed \/ IndexRenamed \/ RenameFails

Next == PowerOn \/ PowerCut \/ Operation \/ Step

Spec == Init /\ [][Next]_vars

\* The controller is switched on again, an operation goes on, the network task
\* gets its turn, and the flash does not refuse every write or rename for ever.
FairSpec ==
    Spec /\ WF_vars(PowerOn) /\ WF_vars(Step) /\ SF_vars(Autosave)
         /\ SF_vars(job.op = "autosave" /\ TempWritten)
         /\ SF_vars(job.op = "autosave" /\ FileRenamed)

----------------------------------------------------------------------------
OnFlash == ReadIndex.ids

\* Every program that the index on flash names has its file, unless the operator
\* deleted it and the index is still old, or that file was removed and its successor
\* not renamed (writeFileAtomic), because the power went or the flash refused it.
IndexNamesFiles ==
    \A p \in OnFlash :
        \/ disk[p] # Absent \/ p \in torn \cup erased
        \/ job.at = "rename" /\ job.slot = p

\* The autosave writes to the program shown as active, and deleting any other
\* program leaves the running configuration alone (erase() asks s_index, the
\* autosave s_activeId).
ActiveIsListed == AtRest /\ ram.active \in ram.ids => ram.listed = ram.active

\* List, active program and files agree.
ListsAgree == IndexNamesFiles /\ ActiveIsListed

\* An edit reaches the file of the active program (autosave), unless the power
\* goes, another configuration replaces it, or no program of the list is active.
EditsAreSaved ==
    \A c \in Configs :
        (ram.dirty /\ config = c /\ ram.active \in ram.ids) ~>
            \/ \E p \in Ids : p = ram.active /\ disk[p] = Written(c)
            \/ config # c \/ job.at = "off" \/ ram.active \notin ram.ids

\* The active program is restored at boot (docs/project_status.md: "the controller
\* restores its active program from flash at boot").
RestoresActiveProgram ==
    [][job.at = "off" /\ job'.at = "rest" => ram'.active = disk[IndexFile].active]_vars

\* Saves, loads, deletions, failures and power cuts keep to the promise of ProgramMap,
\* whose configurations are compared as a file would hold them.  A program is there
\* while the list in memory or the index on flash names it and its file exists; a
\* file between its two names is the old one.
Content(f) == IF job.at = "rename" /\ job.slot = f THEN job.was ELSE disk[f]
Shown == ram.ids \cup AsIndex(Content(IndexFile)).ids

Map == INSTANCE ProgramMap WITH
          stored <- [p \in Ids |-> IF p \in Shown THEN Content(p) ELSE Absent],
          running <- Written(config),
          Configs <- Files, Default <- Written(Default),
          unsaved <- ram.dirty,
          sound <- IF job.at = "off"
                     THEN ReadIndex.active \in OnFlash \cup {0}
                     ELSE job.op = "seed" => ram.listed \in ram.ids \cup {0}

MapSpec == Map!MapSpec
=============================================================================
