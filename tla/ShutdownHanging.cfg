SPECIFICATION HangingSpec
CONSTANTS
    Clients <- Composite
    Budget = 1
    MaxCancels = 1
PROPERTIES
    ShutdownEnds
