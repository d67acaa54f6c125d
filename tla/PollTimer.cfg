SPECIFICATION Spec
CONSTANTS
    Devices = {d1, d2}
    Intervals = {1, 2}
    TwiceAfter = 1
    FourAfter = 2
    EightAfter = 3
    MinRetry = 1
PROPERTY TimelyPolls
