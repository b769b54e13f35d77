SPECIFICATION FairSpec
CONSTANTS
    MaxEvents = 4
    MaxFaults = 1
INVARIANT InOrderToTheEnd
PROPERTIES
    EOFMeansOver
    TerminalReached
    CancelReleasesNext
