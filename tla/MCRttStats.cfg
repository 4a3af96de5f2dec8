SPECIFICATION StatsSpec
CONSTANTS
    WORD = 256
    Iterations <- MCIterations
    Ratios = {0, 25, 34, 50, 60, 84, 250}
    Times = {0, 3, 140}
INVARIANTS StatsDefined MeanInRange
CHECK_DEADLOCK FALSE
