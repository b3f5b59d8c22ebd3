CONSTANTS
    Writers = {w1}
    Readers = {r1}
    Cap = 1
    MaxLen = 2
SPECIFICATION ReadingSpec
PROPERTIES
    WriteCompletes
