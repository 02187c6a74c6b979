SPECIFICATION MCSpec
CONSTANTS
    Schemas <- MCSchemas
    Letters <- MCLetters
    Statements <- MCStatements
    Resolver <- Resolved
    Backend <- Interpreted
    Machine <- Executed
    ResolverAccepts <- MCAccepts
    IntWidth = 5
    FloatInf = 30
INVARIANTS TypesSound NoTypeError BackendsAgree CallsAsDeclared MembersAgree
CHECK_DEADLOCK FALSE
