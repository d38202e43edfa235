SPECIFICATION Spec
CONSTANTS
    ScrapeLists <- MCFullBatch
    BatchSize = 4
    MaxThreads = 1
    ExportsCap = 1
    MaxWorkers = 1
    MaxScraped = 4
PROPERTY CancelStops
CHECK_DEADLOCK FALSE
