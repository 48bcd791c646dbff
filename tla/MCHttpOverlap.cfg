\* Calls that do not wait for each other, as code completion makes them.
CONSTANTS
    MaxCalls = 2
    MaxDeltas = 1
    Overlap = TRUE
SPECIFICATION HttpSpec
CHECK_DEADLOCK FALSE
INVARIANTS
    CalledOnce
