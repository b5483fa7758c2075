\* A routine whose workflow comes back to a step.
SPECIFICATION Spec
CONSTANTS
    Runs = {r1}
    Steps = {k1}
    Purposes = {"autopilot"}
    Requests = {0}
    DefaultLimit = 3
    StarterCredit = 3
    TopUps = {}
INVARIANTS SpendingIsCharged
CHECK_DEADLOCK FALSE
