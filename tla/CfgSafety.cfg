CONSTANTS
    c1 = c1
    c2 = c2
    Callers = {c1, c2}
    Nodes = {1, 2}
    Sources = {1}
    Unsupported = {}
    None = None
    Automatic = Automatic
    CommandDepth = 2
    MaxCalls = 2
    MaxCommands = 1
    MaxAuto = 1
SYMMETRY CallerSymmetry
SPECIFICATION CfgSpec
INVARIANTS
    HeldOnce
    ResumeMatches
    ResultTrue
