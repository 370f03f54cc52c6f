\* Two programs, a flash that may refuse to write, remove or rename, power cut between any
\* two of its operations.
SPECIFICATION FairSpec
CONSTANTS
    MaxPrograms = 2
    Drafts <- MCDrafts
    Default <- MCDefault
    MaxElements = 1
    MaxPick = 3
    MaxHold = 2
    DefaultPaper = 1
    Absent = Absent
    FlashMayFail = TRUE
    CutsAnywhere = TRUE
INVARIANTS
    TypeOK
    ListsAgree
PROPERTIES
    MapSpec
    EditsAreSaved
