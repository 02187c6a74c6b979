SPECIFICATION EvaluatorSpec
CONSTANTS
    a = a
    b = b
    d = d
    Names = {a, b, d}
    None = None
    Undefined = Undefined
    Panic = Panic
    MaxAny = 3
    MaxDefined = 4
    MaxWithIf = 2
    MaxInstances = 2
    MaxDepth = 6
    MaxStatements = 3
INVARIANTS OrderIndependent CacheIsFinal SequentialWhenDeclaredFirst LateBinding
CHECK_DEADLOCK FALSE
