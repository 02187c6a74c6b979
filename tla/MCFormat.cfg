SPECIFICATION MCSpec
CONSTANT MaxRounds = 3
INVARIANTS BindsByPrecedence QueriesAreExact
PROPERTIES FormatKeepsProgram FormatSettles
CHECK_DEADLOCK FALSE
