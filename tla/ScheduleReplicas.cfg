\* Two replicas and one routine nobody edits.
SPECIFICATION Spec
CONSTANTS
    Routines = {r1}
    Replicas = {s1, s2}
    Periods = {1}
    Edits = {}
    MaxTime = 2
    MaxEdits = 1
    MaxFaults = 0
INVARIANTS FiresOnce
CHECK_DEADLOCK FALSE
