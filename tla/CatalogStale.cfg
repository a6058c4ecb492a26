SPECIFICATION Spec
CONSTANTS
    Job = {j1}
    Worker = {w1, w2}
    NoWorker = NoWorker
    NoJob = NoJob
    MaxAttempts = 2
PROPERTY OnlyReadyIsPromoted
