CONSTANTS
    f1 = f1
    f2 = f2
    d1 = d1
    d2 = d2
    d3 = d3
    silent = silent
    Docs = {d1, d2, d3, silent}
    Book <- MCBook
    Length <- MCLength
    None = None
    Prompt = TRUE
    SkipSkippables = TRUE
    MaxCommands = 3
SPECIFICATION Spec
CHECK_DEADLOCK FALSE
INVARIANTS
    ReadsWhatIsShown
PROPERTIES
    OnlyTheHeardIsPassed
    PlaysOn
