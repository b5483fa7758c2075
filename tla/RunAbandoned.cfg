\* A launch that is lost, and a sandbox that is lost while its run waits.
SPECIFICATION FairSpec
CONSTANTS
    Runs = {r1}
    MaxRestarts = 0
PROPERTY AbandonedRunEnds
CHECK_DEADLOCK FALSE
