---------------------------- MODULE ReplayIngress ----------------------------
(***************************************************************************)
(* ReplayBuffer: the bounded shared-memory ingress through which the       *)
(* off-policy collector process hands transition batches to the learner    *)
(* process.  Depth slots, a semaphore of free slots and one of ready       *)
(* slots.  The collector takes a free slot, stores the batch, moves        *)
(* published_ptr and only then signals.  The learner side takes the ready  *)
(* slots in order and gives a slot back when it commits it: only then do   *)
(* ptr and size move.                                                      *)
(*                                                                         *)
(* Abstracted: a row is its absolute position in the stream of rows, a row *)
(* that is being stored is Torn.  The module has the operations of the two *)
(* sides; GpuResidentReplay says who takes them and when.                  *)
(***************************************************************************)
EXTENDS Integers

CONSTANTS
  Depth,      \* ingress_depth: 2
  SlotRows,   \* ingress_slot_rows: num_envs
  Capacity,   \* rows of the replay ring
  MaxRows     \* bound: rows the collector publishes

ASSUME DepthAssumption == Depth \in Nat \ {0}
ASSUME RowsAssumption  == SlotRows \in Nat \ {0} /\ Capacity \in Nat /\ SlotRows <= Capacity
ASSUME MaxRowsAssumption == MaxRows \in Nat

VARIABLES
  adder,         \* where the collector is inside add()
  count,         \* rows of the batch it adds
  free, ready,   \* _ingress_free, _ingress_ready
  ingress,       \* _ingress_slots
  starts, counts,
  publishedPtr, publishSeq,
  consumeSeq, releaseSeq,
  ptr,           \* ptr[0]; size[0] follows from it
  closed, gpStop   \* _ingress_closed, _stop_event

adderVars   == <<adder, count, ingress, starts, counts, publishedPtr, publishSeq>>
ingressVars == <<adderVars, free, ready, consumeSeq, releaseSeq, ptr, closed, gpStop>>

Torn == -1
Slots == 0 .. Depth - 1
GpSlotOf(seq) == seq % Depth
Lesser(a, b) == IF a <= b THEN a ELSE b

size == Lesser(ptr, Capacity)

InitIngress ==
  /\ adder = "idle" /\ count = 0
  /\ free = Depth /\ ready = 0
  /\ ingress = [i \in Slots |-> [j \in 1 .. SlotRows |-> Torn]]
  /\ starts = [i \in Slots |-> 0] /\ counts = [i \in Slots |-> 0]
  /\ publishedPtr = 0 /\ publishSeq = 0
  /\ consumeSeq = 0 /\ releaseSeq = 0 /\ ptr = 0
  /\ closed = FALSE /\ gpStop = FALSE

-----------------------------------------------------------------------------
(* The collector: add().                                                   *)

BeginAdd(n) ==
  /\ adder = "idle" /\ ~gpStop
  /\ publishedPtr + n <= MaxRows              \* bound
  /\ adder' = "acquiring" /\ count' = n
  /\ UNCHANGED <<ingress, starts, counts, publishedPtr, publishSeq,
                 free, ready, consumeSeq, releaseSeq, ptr, closed, gpStop>>

MayAcquire == free > 0

\* A slot acquired after the close is not used, and the batch is dropped; else
\* the first store makes the slot's rows torn.
Acquire ==
  /\ adder = "acquiring" /\ MayAcquire
  /\ free' = free - 1
  /\ IF closed
     THEN adder' = "idle" /\ UNCHANGED ingress
     ELSE /\ adder' = "writing"
          /\ ingress' = [ingress EXCEPT ![GpSlotOf(publishSeq)] =
                           [j \in 1 .. SlotRows |-> IF j <= count THEN Torn ELSE @[j]]]
  /\ UNCHANGED <<count, starts, counts, publishedPtr, publishSeq,
                 ready, consumeSeq, releaseSeq, ptr, closed, gpStop>>

\* No slot became free in 50 ms and there is no point in waiting on.
GiveUp ==
  /\ adder = "acquiring" /\ free = 0
  /\ closed \/ gpStop
  /\ adder' = "idle"
  /\ UNCHANGED <<count, ingress, starts, counts, publishedPtr, publishSeq,
                 free, ready, consumeSeq, releaseSeq, ptr, closed, gpStop>>

PublishRows ==
  /\ adder = "writing"
  /\ LET slot == GpSlotOf(publishSeq) IN
       /\ ingress' = [ingress EXCEPT ![slot] =
                        [j \in 1 .. SlotRows |-> IF j <= count THEN publishedPtr + j - 1 ELSE @[j]]]
       /\ starts' = [starts EXCEPT ![slot] = publishedPtr]
       /\ counts' = [counts EXCEPT ![slot] = count]
  /\ publishedPtr' = publishedPtr + count
  /\ publishSeq' = publishSeq + 1
  /\ adder' = "signalling"
  /\ UNCHANGED <<count, free, ready, consumeSeq, releaseSeq, ptr, closed, gpStop>>

Signal ==
  /\ adder = "signalling"
  /\ ready' = ready + 1
  /\ adder' = "idle"
  /\ UNCHANGED <<count, ingress, starts, counts, publishedPtr, publishSeq,
                 free, consumeSeq, releaseSeq, ptr, closed, gpStop>>

\* An exception while the rows are stored gives the slot back and ends the collector.
AddFails ==
  /\ adder = "writing"
  /\ free' = free + 1
  /\ adder' = "gone"
  /\ UNCHANGED <<count, ingress, starts, counts, publishedPtr, publishSeq,
                 ready, consumeSeq, releaseSeq, ptr, closed, gpStop>>

\* Killed from outside at any point of the call.
AdderKilled ==
  /\ adder # "gone"
  /\ adder' = "gone"
  /\ UNCHANGED <<count, ingress, starts, counts, publishedPtr, publishSeq,
                 free, ready, consumeSeq, releaseSeq, ptr, closed, gpStop>>

Add == Acquire \/ GiveUp \/ PublishRows \/ Signal

GpCollector == (\E n \in 1 .. SlotRows : BeginAdd(n)) \/ Add \/ AddFails \/ AdderKilled

-----------------------------------------------------------------------------
(* The learner side: take_published_ingress, commit_ingress, close.        *)

TakenSpan == LET slot == GpSlotOf(consumeSeq)
             IN  [slot |-> slot, start |-> starts[slot], count |-> counts[slot]]

TakePublished ==
  /\ ready > 0
  /\ ready' = ready - 1
  /\ consumeSeq' = consumeSeq + 1
  /\ UNCHANGED <<adderVars, free, releaseSeq, ptr, closed, gpStop>>

\* commit_ingress raises unless the spans come back in the order of publication.
SpanInOrder(span) == span.slot = GpSlotOf(releaseSeq) /\ span.start = ptr

FreeAfterCommit == free + 1

CommitIngress(span) ==
  /\ ptr' = span.start + span.count
  /\ releaseSeq' = releaseSeq + 1
  /\ free' = FreeAfterCommit
  /\ UNCHANGED <<adderVars, ready, consumeSeq, closed, gpStop>>

StopRun ==
  /\ gpStop' = TRUE
  /\ UNCHANGED <<adderVars, free, ready, consumeSeq, releaseSeq, ptr, closed>>

\* A permit for every slot, so that nobody stays blocked.
CloseIngress ==
  /\ closed' = TRUE
  /\ free' = free + Depth
  /\ UNCHANGED <<adderVars, ready, consumeSeq, releaseSeq, ptr, gpStop>>

\* Every variable has the type its declaration gives it.
IngressTypeOK ==
  /\ adder \in {"idle", "acquiring", "writing", "signalling", "gone"}
  /\ count \in 0 .. SlotRows
  /\ free \in Nat /\ ready \in Nat
  /\ ingress \in [Slots -> [1 .. SlotRows -> Int]]
  /\ starts \in [Slots -> Nat] /\ counts \in [Slots -> Nat]
  /\ publishedPtr \in Nat /\ publishSeq \in Nat
  /\ consumeSeq \in Nat /\ releaseSeq \in Nat /\ ptr \in Nat
  /\ closed \in BOOLEAN /\ gpStop \in BOOLEAN
=============================================================================
