SPECIFICATION Spec
CONSTANTS
    ScrapeLists <- MCLists
    BatchSize = 2
    MaxThreads = 2
    ExportsCap = 1
    MaxWorkers = 2
    MaxScraped = 3
INVARIANTS TypeOK HandledOnce NilMeansHandled NothingAbandoned
PROPERTIES RoundEnds WorkersEnd CancelStops
CHECK_DEADLOCK FALSE
