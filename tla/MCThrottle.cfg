CONSTANTS
    BatchCycles = 4
    LongestStep = 2
    HaltSleep = 7
    Costs = {0, 3, 4}
    MaxLate = 2
    Horizon = 25
SPECIFICATION ThrottleSpec
INVARIANT Throttled
