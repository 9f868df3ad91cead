SPECIFICATION FairSpec
CHECK_DEADLOCK FALSE
CONSTANTS
    None = None
    Turns = {t1, t2, t3}
INVARIANTS
    TypeOK
    NeverResumedTwice
    OwnTranscript
PROPERTIES
    UndisturbedTurnsEnd
