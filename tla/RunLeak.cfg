\* A cancel that read the run before its sandbox was linked.
SPECIFICATION FairSpec
CONSTANTS
    Runs = {r1}
    MaxRestarts = 0
INVARIANT EndedRunHasNoSandbox
CHECK_DEADLOCK FALSE
