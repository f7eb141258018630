\* A producer, a handler that pushes into its own box, and two callers of dequeue.
SPECIFICATION FairSpec
CONSTANTS
  Producers = {p1}
  Waiters = {w1, w2}
  Loop = Loop
  Nobody = Nobody
  Nothing = Nothing
  MaxSent = 2
INVARIANTS
  TypeOK
  NoLostWakeup
PROPERTIES
  FifoSpec
  DrainEnds
  EveryMessageTaken
