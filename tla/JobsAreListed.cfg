SPECIFICATION BoardSpec
CONSTANTS
  Me = me
  Other = other
  NoParty = nobody
  MaxWrites = 2
  MaxCalls = 1
INVARIANT JobsAreListed
CHECK_DEADLOCK FALSE
