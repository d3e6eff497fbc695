\* Two threads, one more exception text than the top holds.
SPECIFICATION FairSpec
CONSTANTS
    Threads = {1, 2}
    Texts = {1, 2, 3}
    TopSize = 2
    KeepTime = 2
    MaxTime = 3
    MaxExceptions = 3
    Garbled <- SomeGarbled
    Temporary = Temporary
    NULL = NULL
INVARIANTS TypeOK KeysAgree YoungestStays SavedIsTrimmed
PROPERTIES FileIsWholeTop HandlingEnds
