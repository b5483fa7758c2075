\* A text sent to the queue while a run is live.
SPECIFICATION Spec
CONSTANTS
    Posted = {p1}
    Enqueued = {e1}
    MaxRuns = 2
    Bodies = {y1}
    MaxRequests = 1
    MaxRestarts = 0
    Events = {}
INVARIANTS PromptIsInTranscript
CHECK_DEADLOCK FALSE
