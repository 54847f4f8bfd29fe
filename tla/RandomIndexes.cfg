CONSTANTS
    Arguments <- AllCalls
SPECIFICATION IndexesFairSpec
INVARIANTS IndexesAreUsable
PROPERTIES ReturnsIfOneIsSpare
CHECK_DEADLOCK FALSE
