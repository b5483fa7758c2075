\* One replica; edits, pauses, deletion and two faults at any point.  Or: a
\* conversation of two messages and one queued text, whose runs may be cancelled.
\* Or: two orders, two deliveries of their events at a time, two lost or failed.
SPECIFICATION ServerSpec
CONSTANTS
    Routines = {r1}
    Replicas = {s1}
    Periods = {0, 1, 2}
    Edits = {"trigger", "toggle", "delete"}
    MaxTime = 3
    MaxEdits = 2
    MaxSlips = 2
    Posted = {p1, p2}
    Enqueued = {e1}
    MaxRuns = 3
    Bodies = {}
    MaxRequests = 1
    MaxRestarts = 0
    Events = {"cancel"}
    Orders = {o1, o2}
    Deliveries = {d1, d2}
    MaxFaults = 2
INVARIANTS NoBurst OrderCreditedOnce
PROPERTIES NoScheduleLost FinishMovesQueueOn PaymentsAreCredited
CHECK_DEADLOCK FALSE
