\* One run, one restart: every interleaving of its five actors.
SPECIFICATION FairSpec
CONSTANTS
    Runs = {r1}
    MaxRestarts = 1
INVARIANTS FinishedIffTerminal KillsOnlyEndedRuns
PROPERTIES OutcomeIsFinal LauncherSparesClaimedRun OutcomeSpec DesertedRunEnds SandboxOfEndedLaunchGoes
CHECK_DEADLOCK FALSE
