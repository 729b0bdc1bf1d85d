SPECIFICATION Spec
CONSTANTS
    MaxSize = 3
    Files = {0, 3}
    Length = {1, 2}
    Lines = 7
    Faults = 2
    Crashes = 1
INVARIANTS LinesInOrder OldestLostFirst Bounded BackupsKept
