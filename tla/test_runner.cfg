SPECIFICATION FairSpec
CONSTANTS
    NumTests = 3
INVARIANTS
    VerdictsTrue
    ResultsTrue
    ProgramsApart
PROPERTIES
    RunnerEnds
