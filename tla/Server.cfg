SPECIFICATION Spec
CONSTANTS
    Clients = {"c1", "c2"}
    Served <- MCServed
INVARIANTS TypeOK AnswerTellsEffect
PROPERTIES NothingNewAfterShutdown Stops
CHECK_DEADLOCK FALSE
