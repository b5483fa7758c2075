\* A text may be sent to the queue while no run is live.
SPECIFICATION FairSpec
CONSTANTS
    Posted = {p1}
    Enqueued = {e1}
    MaxRuns = 2
    Bodies = {y1}
    MaxRequests = 1
    MaxRestarts = 0
    Events = {}
PROPERTIES QueueMovesOn
CHECK_DEADLOCK FALSE
