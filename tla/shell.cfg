SPECIFICATION FairSpec
CONSTANTS
    MaxLines = 2
    MaxCommands = 2
    Codes = {0, 1}
INVARIANTS
    TypeOK
    OnlyShellServes
    ReportsTrue
    StopsWhenTold
PROPERTIES
    BatchSpec
    Ends
