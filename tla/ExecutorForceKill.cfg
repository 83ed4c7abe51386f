\* The test command alone, and a child that need not obey SIGTERM.
CONSTANTS
    Setup = 0
    Summaries = {}
    ShortTies = {}
    MaxSummaries = 0
SPECIFICATION Spec
INVARIANT ForceKillWorks
CHECK_DEADLOCK FALSE
