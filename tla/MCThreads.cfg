SPECIFICATION MCSpec
CONSTANTS
\* Two sources, five numbered requests each: a start, and then a probe with a
\* step inside it can begin and end, and every exchange can also fail half-way.
  Sources = {s1, s2}
  MaxSeq = 5
\* A ring that is no multiple of the batch, so that a copy is split at its end, and
\* more rows than it holds; three updates, so that both batch slots are used again.
  Depth = 2
  SlotRows = 2
  Capacity = 3
  MaxRows = 4
  Lead = 2
  GpThreshold = 2
  GpMaxIterations = 3
CHECK_DEADLOCK FALSE
INVARIANTS TypeOK FreshAggregate QuietBetweenCalls NeverOutOfOrder BuffersHeld RowsInOrder
PROPERTIES CallerProtocol ImplementsLockstep
