SPECIFICATION Spec
CONSTANTS
    Keys = {k1, k2}
    Ops = {o1, o2}
    Windows = {w1}
    None = None
    MaxEpoch = 1
SYMMETRY Symmetry
INVARIANTS
    GuardsBalanced
PROPERTIES
    AttachWindowExcludes
\* The operation ids are a bound: when they are used up the model stops.
CHECK_DEADLOCK FALSE
