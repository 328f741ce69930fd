SPECIFICATION MCFairSpec
CONSTANTS
\* Liveness of the service: a bound that still allows a two-exchange call.
  Sources = {s1, s2}
  MaxSeq = 1
\* Liveness of the replay: more batches than ingress slots, one update.
  Depth = 2
  SlotRows = 1
  Capacity = 2
  MaxRows = 3
  Lead = 1
  GpThreshold = 1
  GpMaxIterations = 1
CHECK_DEADLOCK FALSE
PROPERTIES CallsReturn CloseCompletes BackPressureRelieved
