SPECIFICATION FairSpec
CONSTANTS
  capacity = 2
  None = None
  NUM_PRODUCERS = 2
  NUM_CONSUMERS = 2
  PER_PRODUCER = 3
  MaxSpurious = 1
  SEM_PRODUCERS = 3
  SEM_CONSUMERS = 3
  ITEMS_PER_PRODUCER = 2
INVARIANTS
  NoLostWakeup SlotsAccounted Passes
PROPERTIES
  ChannelSpec Termination
CHECK_DEADLOCK FALSE
