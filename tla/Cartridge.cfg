CONSTANTS
    Headers <- mcHeaders
    Values = {0, 1, 4, 12, 42}
    Contents = {z, s}
    Zero = z
    Absent = absent
    Days = {100, 300}
    MaxCrashes = 1
SPECIFICATION Spec
INVARIANTS SelectedRomBank ProgressKept
