\* Power goes at rest only and no write fails: is the active program restored at boot?
SPECIFICATION Spec
CONSTANTS
    MaxPrograms = 2
    Drafts <- MCDrafts
    Default <- MCDefault
    MaxElements = 1
    MaxPick = 3
    MaxHold = 2
    DefaultPaper = 1
    Absent = Absent
    FlashMayFail = FALSE
    CutsAnywhere = FALSE
PROPERTIES
    RestoresActiveProgram
