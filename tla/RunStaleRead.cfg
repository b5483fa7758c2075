\* A heartbeat or a claim between Reconcile's query and its Finish.
SPECIFICATION FairSpec
CONSTANTS
    Runs = {r1}
    MaxRestarts = 0
PROPERTY ReconcileSparesLiveRun
CHECK_DEADLOCK FALSE
