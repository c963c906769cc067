CONSTANTS
    Clock <- MCClock
    ReserveBlock = 2
    I64Max = 9
    MaxIssues = 4
    MaxQueued = 2
SPECIFICATION Spec
INVARIANTS
    TypeOK
    StampsIncrease
    SeedCoversIssued
