SPECIFICATION Spec
CONSTANTS
    Keys = {k1, k2, k3}
    Ops = {o1, o2}
    Windows = {}
    None = None
    MaxEpoch = 1
SYMMETRY Symmetry
INVARIANTS
    RuntimeHasOneKey
    NoAliasCycle
PROPERTIES
    ForwardingOnlyExtends
\* The operation ids are a bound: when they are used up the model stops.
CHECK_DEADLOCK FALSE
