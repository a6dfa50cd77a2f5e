\* WFP never stops reporting.
CONSTANTS
  Callbacks = {c1}
  Headers <- MCOneHeader
  QueueCapacity = 1
  RingCapacity = 1
  DrainMax = 1
  EventMax = 1
  Endless = TRUE
SPECIFICATION FairSpec
PROPERTY StopReturns
