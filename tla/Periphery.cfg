\* The DAC on a bus that fails now and then; the encoder count over its limit; two
\* edits of the configuration under a reader; one setting seen by PC and web page.
SPECIFICATION MCSpec
CONSTANTS
    NumGuns = 1
    Callers <- MCCallers
    Codes <- MCCodes
    SafeCode = "safe"
    Unknown = "unknown"
    WriteAttempts = 2
    BusMayFail = TRUE
    Limit = 3
    Late = 1
    Debounce = 2
    MaxPulses = 7
    Fields <- MCFields
    Settings = {1, 2, 3}
    Valid <- MCValid
    Readers = {reader1}
    Values = {a, b, bad}
    Refused = {bad}
    Initial = a
    QueueLen = 2
    MaxRev = 3
    MaxWire = 2
CHECK_DEADLOCK FALSE
INVARIANTS
    PeripheryTypeOK
    CountIsTrue
    LevelIsTold
    EditsAreIsolated
    ViewsAgree
PROPERTIES
    KickedTargetIsWritten
    ChangesReachPc
