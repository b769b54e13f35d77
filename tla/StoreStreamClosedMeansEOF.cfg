SPECIFICATION Spec
CONSTANTS
    MaxEvents = 1
    MaxFaults = 0
PROPERTY ClosedMeansEOF
