\* One setup command and the test command, which prints up to two summaries.
CONSTANTS
    Setup = 1
    Summaries <- SomeSummaries
    ShortTies <- DoubleShortTies
    MaxSummaries = 2
SPECIFICATION FairSpec
INVARIANTS TypeOK PipesCloseWithCall DoneIsEarned ScoreIsEarned
PROPERTIES NoLateTimeout Returns
CHECK_DEADLOCK FALSE
