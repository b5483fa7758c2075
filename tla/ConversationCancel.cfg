\* Every run is ended by its runtime or cancelled, and every message posted.
SPECIFICATION FairSpec
CONSTANTS
    Posted = {p1, p2}
    Enqueued = {}
    MaxRuns = 2
    Bodies = {y1}
    MaxRequests = 1
    MaxRestarts = 0
    Events = {"cancel"}
PROPERTIES QueueMovesOn
CHECK_DEADLOCK FALSE
