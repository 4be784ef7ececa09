CONSTANT MaxItems = 3
SPECIFICATION AnySpec
INVARIANT AnySiteAlwaysWorks
CHECK_DEADLOCK FALSE
