\* Two runs race for the starter credit while a payment comes in.
SPECIFICATION Spec
CONSTANTS
    Runs = {r1, r2}
    Steps = {k1, k2}
    Purposes = {"build", "chat", "autopilot"}
    Requests <- AskedFor
    DefaultLimit = 2
    StarterCredit = 2
    TopUps = {1}
SYMMETRY Symmetry
INVARIANTS CreditIsAccountedFor NeverOvercharged ReportedCostIsCharged
CHECK_DEADLOCK FALSE
