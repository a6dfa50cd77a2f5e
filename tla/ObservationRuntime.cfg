\* Two callback threads, overflowing queues of two, four events, accepted and rejected ones.
CONSTANTS
  Callbacks = {c1, c2}
  Headers <- MCHeaders
  QueueCapacity = 2
  RingCapacity = 2
  DrainMax = 2
  EventMax = 4
  Endless = FALSE
SPECIFICATION FairSpec
INVARIANTS TypeOK LifetimeSafe NothingLeftBehind Conservation Ordered
PROPERTIES FifoSpec StopReturns QueueMoves
