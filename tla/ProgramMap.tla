----------------------------- MODULE ProgramMap -----------------------------
(***************************************************************************)
(* What the program store promises (storage/ProgramStore.h): programs are  *)
(* a map from ids to configurations.  A save puts the configuration that   *)
(* the machine runs under one id and touches no other; a load runs exactly *)
(* what was saved; an edit counts as saved only when a program holds it.   *)
(* A deletion, a power cut or a flash operation that fails may lose        *)
(* programs, never change one.                                             *)
(***************************************************************************)
CONSTANTS Ids, Configs, Default, Absent

VARIABLES
    stored,     \* the configuration of each program, Absent if there is none
    running,    \* the configuration the machine runs
    unsaved,    \* it was edited and not saved since
    sound       \* the index names an active program that it lists

mapVars == <<stored, running, unsaved>>

Edit ==
    /\ running' \in Configs /\ unsaved' = TRUE
    /\ UNCHANGED stored

Save(p) ==
    /\ stored' = [stored EXCEPT ![p] = running]
    /\ UNCHANGED running /\ unsaved' \in {unsaved, FALSE}

Fewer == \A p \in Ids : stored'[p] \in {stored[p], Absent}

\* An edit counts as saved; programs deleted before may be gone only now.
Saved ==
    /\ Fewer /\ \E p \in Ids : stored'[p] = running
    /\ unsaved' = FALSE /\ UNCHANGED running

\* A program is loaded, maybe since the one that ran has been deleted.
Load(p) ==
    /\ Fewer /\ stored'[p] # Absent /\ running' = stored'[p]
    /\ unsaved' = FALSE

Lose ==
    /\ Fewer
    /\ \/ UNCHANGED <<running, unsaved>>
       \/ running' = Default /\ unsaved' = FALSE

\* What the machine starts with is a program of the map, if the index is sound.
StartUnlisted ==
    /\ ~sound /\ running' \in Configs
    /\ unsaved' = FALSE /\ UNCHANGED stored

MapNext == Edit \/ Saved \/ Lose \/ StartUnlisted \/ \E p \in Ids : Save(p) \/ Load(p)

MapSpec ==
    /\ stored = [p \in Ids |-> Absent] /\ running = Default /\ ~unsaved
    /\ [][MapNext]_mapVars
=============================================================================
