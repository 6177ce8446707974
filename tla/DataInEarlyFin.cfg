CONSTANTS
    MaxOff = 3
    DataSize = 4
    Events = {"resegment"}
SPECIFICATION Spec
INVARIANT
    FinAfterAllData
