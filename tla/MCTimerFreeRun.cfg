CONSTANTS
    MaxValue = 3
    Dividers = {1, 2, 5}
    StepCycles = {2, 3, 4}
    Horizon = 11
SPECIFICATION TimerSpec
INVARIANT FreeRunsByOne
