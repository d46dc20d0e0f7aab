SPECIFICATION ManySpec
CONSTANTS
  Day = 8  Days = 3  Switch = 3  Shift = 1
  Duration = 2  BufferBefore = 1  BufferAfter = 0  Step = 2
  Staff <- TwoMembers  RuleSets <- TwoRuleSets  Blocks <- NoBlock  Ranges <- Future
  Limit = 3  Facing = 2  BusySlack = 1  TTL = 2  Lead = 1  Horizon = 16
  OperatorStarts = {7}  MaxBooked = 1  MaxNow = 3  MaxChanges = 2
INVARIANTS TokensStayInWindow OffersAreHonoured 
CHECK_DEADLOCK FALSE
