SPECIFICATION ChannelsSpec
CONSTANTS
  Turns = {t1, t2, t3}
  Limit = 2
  MaxSeq = 3
  MaxDrops = 1
INVARIANTS ReplayHasNoGaps UpdatesTakenOnce RetriesAreSound
PROPERTIES EventsArrive UpdatesAcknowledged
CHECK_DEADLOCK FALSE
