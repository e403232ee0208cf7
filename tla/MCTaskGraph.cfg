SPECIFICATION Spec
CONSTANTS
    Stages = {s1, s2, s3}
CHECK_DEADLOCK FALSE
INVARIANTS
    AcceptsTheValid
    LayersAreRight
    FindsDownstream
PROPERTIES
    Ends
