SPECIFICATION Spec
CONSTANTS
    Played = {"greenfield", "brownfield", "ambiguous"}
    None = None
    MaxScripts = 5
    MaxMishaps = 1
    MaxEdits = 1
INVARIANTS
    
    NothingUnsigned
    
    RevisionsAreIn
    RepeatingIsHarmless
CHECK_DEADLOCK FALSE
