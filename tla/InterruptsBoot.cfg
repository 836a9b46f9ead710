SPECIFICATION FairSpec
CONSTANT ModeCount = 1
INVARIANTS TypeOK NoNesting AstrayOnlyAfterBios BytesAreHeard
PROPERTIES StaysInStep TimerNeverStops TasksRun
CHECK_DEADLOCK FALSE
