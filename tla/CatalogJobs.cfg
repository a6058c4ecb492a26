SPECIFICATION FairSpec
CONSTANTS
    Job = {j1}
    Worker = {w1, w2, w3}
    NoWorker = NoWorker
    NoJob = NoJob
    MaxAttempts = 2
INVARIANTS
    TypeOK
    CompletedMeansDone
PROPERTIES
    TerminalImportIsFinal
    AttemptsAreOwned
    ImportSettles
