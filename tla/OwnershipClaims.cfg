SPECIFICATION Spec
CONSTANTS
    Keys = {k1}
    Ops = {o1, o2, o3}
    Windows = {}
    None = None
    MaxEpoch = 2
SYMMETRY Symmetry
INVARIANTS
    TypeOK
    GenerationNamesOneOperation
    GenerationNamesOneOwner
    StaleRequestTakesNothing
    NoInheritedWitness
\* The operation ids are a bound: when they are used up the model stops.
CHECK_DEADLOCK FALSE
