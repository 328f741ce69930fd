SPECIFICATION MCSpec
CONSTANTS
\* Three slots, nine rollouts: the reader can be lapped up to twice inside one
\* drain, and the pointers wrap around the ring three times.
  NumSlots = 3
  Parts = 2
  MaxRollouts = 9
\* Two ticks per update, and a threshold that is not met at the first boundary: the
\* learner goes on answering ticks although an update is due.  Four updates.
  StepsPerSync = 2
  Threshold = 3
  MaxIterations = 4
\* APPO: two ring slots and four rollouts so that the collector can lap the learner;
\* three iterations, so that a pull can overlap a second publish.
  ApNumSlots = 2
  ApParts = 1
  ApMaxRollouts = 4
  Params = 2
  PoolSize = 2
  ApMaxIterations = 3
CHECK_DEADLOCK FALSE
INVARIANTS TypeOK DrainStaysBehind WholeUnlessLapped SlotExchangeSound TrainedOnNewest
PROPERTIES SkipsOnlyLost RolloutsLeave SlotTrainingEnds CollectorWeights AppoTrainingEnds
