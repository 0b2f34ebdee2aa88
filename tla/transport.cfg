SPECIFICATION FairSpec
CONSTANTS
  MaxRequests = 2
  MaxStops = 1
  Habits = {"waits", "whole"}
  HangsUp = {"closed", "reset"}
  MayClose = TRUE
INVARIANTS
  TypeOK
  NothingLost
PROPERTIES
  ChannelSpec
  EveryPacketDelivered
  EveryRequestAnswered
  Closes
CHECK_DEADLOCK FALSE
