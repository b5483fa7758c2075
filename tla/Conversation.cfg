\* Safety: two messages and one queued text, everything that can interfere.
SPECIFICATION Spec
CONSTANTS
    Posted = {p1, p2}
    Enqueued = {e1}
    MaxRuns = 3
    Bodies = {y1, y2}
    MaxRequests = 1
    MaxRestarts = 1
    Events <- AllEvents
SYMMETRY Symmetry
INVARIANTS OneLiveRun OneAnswerPerRun TextsAreAccountedFor
PROPERTIES DrainTakesOldest
CHECK_DEADLOCK FALSE
