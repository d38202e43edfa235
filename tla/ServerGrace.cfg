SPECIFICATION Spec
CONSTANTS
    Clients = {"c1"}
    Served <- MCServed
INVARIANT GracefulShutdown
CHECK_DEADLOCK FALSE
