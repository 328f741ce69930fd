-------------------------- MODULE GpuResidentReplay --------------------------
(***************************************************************************)
(* GPUResidentReplayPipeline on CUDA: the replay ring lives on the device. *)
(* A daemon thread of the learner process (sync) copies ready ingress      *)
(* slots to the ring on a side stream, commits a slot when its copy has    *)
(* completed, and gathers the next batch into the cold one of two batch    *)
(* slots.  The learner thread calls into the same object: it drives the    *)
(* ingress (progress), reads the committed rows (read_committed_fields),   *)
(* swaps the slots (sample_large_batch), asks for the next batch           *)
(* (start_prepare) and trains on the hot slot.  _submission_lock orders    *)
(* the two threads' submissions; the side stream executes in order.        *)
(*                                                                         *)
(* Abstracted: a gather may read any row of its sample domain, so a batch  *)
(* is the set of all of them.  The learner's calls come in the order of    *)
(* DoubleBufferOffPolicyRunner.learn with reward normalization; the        *)
(* collector adds at will.  Not here: the MPS path without a sync thread,  *)
(* and an exception in the sync thread.                                    *)
(***************************************************************************)
EXTENDS ReplayIngress, Sequences

CONSTANTS
  Lead,           \* rows between an update boundary and the next one
  GpThreshold,      \* train_start_threshold
  GpMaxIterations   \* max_iterations

ASSUME LeadAssumption == Lead \in Nat /\ GpThreshold \in Nat
ASSUME GpMaxIterationsAssumption == GpMaxIterations \in Nat \ {0}

VARIABLES
  lock,          \* _submission_lock
  spanEvents,    \* _span_events: submitted copies in order
  submittedPtr, visiblePtr,
  stream,        \* the side stream: operations not yet executed
  storage,       \* _gpu_storage
  batch,         \* _gpu_packed
  prepState, prepTick, requiredPtr, gpPrepared,
  hot,           \* _hot; _cold is the other slot
  pipelineClosed,
  sync,          \* where the sync thread is
  domain,        \* visible_size in _service_pending_prepare
  gpLearner,       \* where the learner thread is
  gpIteration,
  gpFrozen,        \* next_prepare_min_snapshot_ptr
  readUpto,      \* published_snapshot in read_committed_fields
  statsPtr,      \* reward_stats_ptr
  compute,       \* the learner's own stream
  fields         \* what read_committed_fields returned last

deviceVars  == <<stream, storage, batch, compute, fields>>
prepVars    == <<prepState, prepTick, requiredPtr, gpPrepared, hot>>
spanVars    == <<lock, spanEvents, submittedPtr, visiblePtr>>
syncVars    == <<sync, domain>>
learnerVars == <<gpLearner, gpIteration, gpFrozen, readUpto, statsPtr, pipelineClosed>>
gpVars == <<ingressVars, deviceVars, prepVars, spanVars, syncVars, learnerVars>>

Cold == 1 - hot
None == [tick |-> 0, ptr |-> 0, slot |-> 0]

GpInit ==
  /\ InitIngress
  /\ lock = "none" /\ spanEvents = << >> /\ submittedPtr = 0 /\ visiblePtr = 0
  /\ stream = << >> /\ compute = << >>
  /\ storage = [i \in 0 .. Capacity - 1 |-> Torn]
  /\ batch = [i \in {0, 1} |-> {}] /\ fields = [p \in {} |-> Torn]
  /\ prepState = "idle" /\ prepTick = 0 /\ requiredPtr = 0 /\ gpPrepared = None /\ hot = 0
  /\ sync = "draining" /\ domain = 0
  /\ gpLearner = "tick" /\ gpIteration = 1 /\ gpFrozen = 0 /\ readUpto = 0 /\ statsPtr = 0
  /\ pipelineClosed = FALSE

-----------------------------------------------------------------------------
(* The device.  Each stream executes its operations in order.              *)

IsCopy(o)   == o.kind = "copy"
IsGather(o) == o.kind = "gather"

\* _ring_spans: row start + j goes to position (start + j) % Capacity.
Overwritten(span) ==
  [i \in 0 .. Capacity - 1 |->
     LET j == (i - span.start) % Capacity
     IN  IF j < span.count THEN ingress[span.slot][j + 1] ELSE storage[i]]

ExecuteCopy ==
  /\ stream # << >> /\ IsCopy(Head(stream))
  /\ storage' = Overwritten(Head(stream).span)
  /\ stream' = Tail(stream)
  /\ UNCHANGED <<ingressVars, batch, compute, fields, prepVars, spanVars, syncVars, learnerVars>>

ExecuteGather ==
  /\ stream # << >> /\ IsGather(Head(stream))
  /\ LET o == Head(stream)
     IN  batch' = [batch EXCEPT ![o.slot] = {storage[i] : i \in 0 .. o.size - 1}]
  /\ stream' = Tail(stream)
  /\ UNCHANGED <<ingressVars, storage, compute, fields, prepVars, spanVars, syncVars, learnerVars>>

\* The side stream waits for the clone of a field snapshot.
ExecuteWait ==
  /\ stream # << >> /\ Head(stream).kind = "wait"
  /\ \A i \in 1 .. Len(compute) : compute[i].kind # "clone"
  /\ stream' = Tail(stream)
  /\ UNCHANGED <<ingressVars, storage, batch, compute, fields, prepVars, spanVars, syncVars,
                 learnerVars>>

ExecuteClone ==
  /\ compute # << >> /\ Head(compute).kind = "clone"
  /\ fields' = [p \in Head(compute).from .. Head(compute).upto - 1 |-> storage[p % Capacity]]
  /\ compute' = Tail(compute)
  /\ UNCHANGED <<ingressVars, stream, storage, batch, prepVars, spanVars, syncVars, learnerVars>>

ExecuteTrain ==
  /\ compute # << >> /\ Head(compute).kind = "train"
  /\ compute' = Tail(compute)
  /\ UNCHANGED <<ingressVars, stream, storage, batch, fields, prepVars, spanVars, syncVars,
                 learnerVars>>

Device == ExecuteCopy \/ ExecuteGather \/ ExecuteWait \/ ExecuteClone \/ ExecuteTrain

-----------------------------------------------------------------------------
(* Operations both threads perform, under _submission_lock.                *)

MayLock(thread) == lock \in {"none", thread}

\* Mutation: the submitted pointer stays at the start of the span.
SubmittedAfter_Start == TakenSpan.start

SubmittedAfter == TakenSpan.start + TakenSpan.count

\* One round of _submit_new_spans: take a ready slot and enqueue its copy.
SubmitSpan(thread) ==
  /\ MayLock(thread)
  /\ TakePublished
  /\ lock' = thread
  /\ spanEvents' = Append(spanEvents, TakenSpan)
  /\ stream' = Append(stream, [kind |-> "copy", span |-> TakenSpan])
  /\ submittedPtr' = SubmittedAfter
  /\ UNCHANGED <<visiblePtr, storage, batch, compute, fields>>

\* Mutation: the copy counts as done when it has been submitted.
CopyDone_OnSubmit  == spanEvents # << >>

\* The event of the oldest span: its copy is no longer in the stream.
CopyDone ==
  /\ spanEvents # << >>
  /\ \A i \in 1 .. Len(stream) : IsCopy(stream[i]) => stream[i].span # Head(spanEvents)

\* One round of _drain_completed_spans_locked.
CommitSpan(thread) ==
  /\ MayLock(thread)
  /\ CopyDone
  /\ CommitIngress(Head(spanEvents))
  /\ lock' = thread
  /\ spanEvents' = Tail(spanEvents)
  /\ visiblePtr' = Head(spanEvents).start + Head(spanEvents).count
  /\ UNCHANGED <<submittedPtr, deviceVars>>

Unlock(thread) ==
  /\ MayLock(thread)
  /\ lock' = "none"
  /\ UNCHANGED <<spanEvents, submittedPtr, visiblePtr, ingressVars, deviceVars>>

-----------------------------------------------------------------------------
(* The sync thread: _sync_worker.                                          *)

SyncDrain ==
  /\ sync = "draining"
  /\ UNCHANGED <<prepVars, learnerVars, domain>>
  /\ \/ CommitSpan("sync") /\ UNCHANGED sync
     \/ ~CopyDone /\ Unlock("sync") /\ sync' = "checking"

\* No gather while a copy is in flight.  The lock is released again at once.
SyncCheck ==
  /\ sync = "checking" /\ lock = "none"
  /\ sync' = IF spanEvents = << >> THEN "looking" ELSE "submitting"
  /\ UNCHANGED <<ingressVars, deviceVars, prepVars, spanVars, learnerVars, domain>>

\* Mutation: the boundary of the prefetch is not waited for.
BoundaryReached_Any == visiblePtr > 0

BoundaryReached == visiblePtr >= requiredPtr /\ visiblePtr > 0

SampleDomain == Lesser(visiblePtr, Capacity)

SyncLook ==
  /\ sync = "looking"
  /\ IF prepState = "preparing" /\ BoundaryReached
     THEN sync' = "gathering" /\ domain' = SampleDomain
     ELSE sync' = "submitting" /\ UNCHANGED domain
  /\ UNCHANGED <<ingressVars, deviceVars, prepVars, spanVars, learnerVars>>

SyncGather ==
  /\ sync = "gathering"
  /\ stream' = Append(stream, [kind |-> "gather", slot |-> Cold, size |-> domain])
  /\ sync' = "noting" /\ domain' = 0
  /\ UNCHANGED <<ingressVars, storage, batch, compute, fields, prepVars, spanVars, learnerVars>>

\* The metadata read the visible pointer once more.
SyncNote ==
  /\ sync = "noting"
  /\ gpPrepared' = [tick |-> prepTick, ptr |-> visiblePtr, slot |-> Cold]
  /\ prepState' = "gather_submitted"
  /\ sync' = "submitting"
  /\ UNCHANGED <<ingressVars, deviceVars, prepTick, requiredPtr, hot, spanVars, learnerVars, domain>>

\* The last part of the loop, and the closed flag at its head.
SyncSubmit ==
  /\ sync = "submitting"
  /\ UNCHANGED <<prepVars, learnerVars, domain>>
  /\ \/ SubmitSpan("sync") /\ UNCHANGED sync
     \/ /\ ready = 0 /\ Unlock("sync")
        /\ sync' = IF pipelineClosed THEN "stopped" ELSE "draining"

Sync == SyncDrain \/ SyncCheck \/ SyncLook \/ SyncGather \/ SyncNote \/ SyncSubmit

-----------------------------------------------------------------------------
(* The learner thread.                                                     *)

GpGo(from, to) == gpLearner = from /\ gpLearner' = to

\* An inference tick has been served; the boundary is frozen before its release.
Tick ==
  /\ GpGo("tick", "submitting")
  /\ gpFrozen' = publishedPtr + Lead
  /\ UNCHANGED <<ingressVars, deviceVars, prepVars, spanVars, syncVars, gpIteration, readUpto,
                 statsPtr, pipelineClosed>>

\* progress(wait=True): submit what is ready, then wait for all copies and commit.
LearnerSubmit ==
  /\ UNCHANGED <<prepVars, syncVars, gpIteration, gpFrozen, readUpto, statsPtr, pipelineClosed>>
  /\ \/ gpLearner \in {"submitting", "finishing"} /\ SubmitSpan("gpLearner") /\ UNCHANGED gpLearner
     \/ /\ ready = 0 /\ Unlock("gpLearner")
        /\ GpGo("submitting", "committing") \/ GpGo("finishing", "flushing")

\* The wait holds the lock.
WaitForCopies ==
  /\ gpLearner \in {"committing", "snapshot", "flushing"} /\ lock = "none"
  /\ lock' = "gpLearner"
  /\ UNCHANGED <<ingressVars, deviceVars, prepVars, spanEvents, submittedPtr, visiblePtr, syncVars,
                 learnerVars>>

LearnerCommit ==
  /\ gpLearner \in {"committing", "snapshot", "flushing"} /\ lock = "gpLearner"
  /\ CommitSpan("gpLearner")
  /\ UNCHANGED <<prepVars, syncVars, learnerVars>>

AllCommitted == lock = "gpLearner" /\ spanEvents = << >>

\* The progress call ends: another tick, or the update of this iteration.
EndProgress ==
  /\ AllCommitted
  /\ GpGo("committing", "deciding") \/ GpGo("flushing", "closed")
  /\ Unlock("gpLearner")
  /\ UNCHANGED <<prepVars, syncVars, gpIteration, gpFrozen, readUpto, statsPtr, pipelineClosed>>

GpAnotherTick ==
  /\ GpGo("deciding", "tick")
  /\ UNCHANGED <<ingressVars, deviceVars, prepVars, spanVars, syncVars, gpIteration, gpFrozen, readUpto,
                 statsPtr, pipelineClosed>>

Prepare(tick, minPtr) ==
  /\ prepState' = "preparing" /\ prepTick' = tick /\ requiredPtr' = minPtr
  /\ UNCHANGED <<gpPrepared, hot>>

GpBeginUpdate ==
  /\ GpGo("deciding", "reading")
  /\ size >= GpThreshold
  /\ IF prepTick = gpIteration THEN UNCHANGED prepVars ELSE Prepare(gpIteration, ptr)
  /\ UNCHANGED <<ingressVars, deviceVars, spanVars, syncVars, gpIteration, gpFrozen, readUpto,
                 statsPtr, pipelineClosed>>

\* read_committed_fields: everything published by now must be submitted ...
ReadPublished ==
  /\ GpGo("reading", "catchUp")
  /\ readUpto' = publishedPtr
  /\ UNCHANGED <<ingressVars, deviceVars, prepVars, spanVars, syncVars, gpIteration, gpFrozen, statsPtr,
                 pipelineClosed>>

CatchUp ==
  /\ gpLearner = "catchUp"
  /\ UNCHANGED <<prepVars, syncVars, gpIteration, gpFrozen, readUpto, statsPtr, pipelineClosed>>
  /\ \/ /\ lock = "gpLearner" \/ submittedPtr < readUpto
        /\ SubmitSpan("gpLearner") /\ UNCHANGED gpLearner
     \/ lock = "gpLearner" /\ ready = 0 /\ Unlock("gpLearner") /\ UNCHANGED gpLearner
     \/ /\ lock # "gpLearner" /\ submittedPtr >= readUpto
        /\ gpLearner' = "snapshot"
        /\ UNCHANGED <<ingressVars, deviceVars, spanVars>>

\* The clone runs on the learner's stream: later copies have to wait for it.
FieldOrder == Append(stream, [kind |-> "wait"])

\* ... and committed; then the rows since the last call are cloned.
ReadFields ==
  /\ GpGo("snapshot", "awaiting")
  /\ AllCommitted
  /\ lock' = "none"
  /\ LET rows == Lesser(IF visiblePtr > statsPtr THEN visiblePtr - statsPtr ELSE 0, Capacity)
     IN  compute' = Append(compute, [kind |-> "clone", from |-> visiblePtr - rows, upto |-> visiblePtr])
  /\ stream' = FieldOrder
  /\ statsPtr' = visiblePtr
  /\ UNCHANGED <<ingressVars, storage, batch, fields, prepVars, spanEvents, submittedPtr, visiblePtr,
                 syncVars, gpIteration, gpFrozen, readUpto, pipelineClosed>>

\* The event of the prepared slot: its gather has been executed.
GatherDone == ~\E i \in 1 .. Len(stream) : IsGather(stream[i]) /\ stream[i].slot = gpPrepared.slot

\* batch_ready and sample_large_batch: the hot/cold swap.
Sample ==
  /\ GpGo("awaiting", "prefetching")
  /\ gpPrepared # None /\ GatherDone
  /\ hot' = gpPrepared.slot
  /\ gpPrepared' = None /\ prepTick' = 0 /\ prepState' = "idle"
  /\ UNCHANGED <<ingressVars, deviceVars, requiredPtr, spanVars, syncVars, gpIteration, gpFrozen,
                 readUpto, statsPtr, pipelineClosed>>

Prefetch ==
  /\ GpGo("prefetching", "training")
  /\ IF gpIteration < GpMaxIterations THEN Prepare(gpIteration + 1, gpFrozen) ELSE UNCHANGED prepVars
  /\ UNCHANGED <<ingressVars, deviceVars, spanVars, syncVars, gpIteration, gpFrozen, readUpto,
                 statsPtr, pipelineClosed>>

Train ==
  /\ GpGo("training", "synchronizing")
  /\ compute' = Append(compute, [kind |-> "train", slot |-> hot])
  /\ UNCHANGED <<ingressVars, stream, storage, batch, fields, prepVars, spanVars, syncVars, gpIteration,
                 gpFrozen, readUpto, statsPtr, pipelineClosed>>

Synchronized == compute = << >>

GpFinishUpdate ==
  /\ gpLearner = "synchronizing" /\ Synchronized
  /\ gpLearner' = IF gpIteration < GpMaxIterations THEN "tick" ELSE "closing"
  /\ gpIteration' = IF gpIteration < GpMaxIterations THEN gpIteration + 1 ELSE gpIteration
  /\ UNCHANGED <<ingressVars, deviceVars, prepVars, spanVars, syncVars, gpFrozen, readUpto, statsPtr,
                 pipelineClosed>>

\* Every wait for the collector looks whether it is alive.
CollectorDied ==
  /\ GpGo("tick", "closing") \/ GpGo("awaiting", "closing")
  /\ adder = "gone"
  /\ UNCHANGED <<ingressVars, deviceVars, prepVars, spanVars, syncVars, gpIteration, gpFrozen, readUpto,
                 statsPtr, pipelineClosed>>

\* close(): the sync thread is told, joined for two seconds, and what is left is
\* submitted and committed.
ClosePipeline ==
  /\ GpGo("closing", "joining")
  /\ pipelineClosed' = TRUE
  /\ UNCHANGED <<ingressVars, deviceVars, prepVars, spanVars, syncVars, gpIteration, gpFrozen, readUpto,
                 statsPtr>>

PipelineJoined ==
  /\ GpGo("joining", "finishing")
  /\ UNCHANGED <<ingressVars, deviceVars, prepVars, spanVars, syncVars, gpIteration, gpFrozen, readUpto,
                 statsPtr, pipelineClosed>>

\* AsyncRunner.close.
CloseRunner ==
  /\ \/ GpGo("closed", "stopped") /\ StopRun
     \/ GpGo("stopped", "ended") /\ CloseIngress
  /\ UNCHANGED <<deviceVars, prepVars, spanVars, syncVars, gpIteration, gpFrozen, readUpto, statsPtr,
                 pipelineClosed>>

GpLearner ==
  \/ Tick \/ LearnerSubmit \/ WaitForCopies \/ LearnerCommit \/ EndProgress \/ GpAnotherTick
  \/ GpBeginUpdate \/ ReadPublished \/ CatchUp \/ ReadFields \/ Sample \/ Prefetch \/ Train
  \/ GpFinishUpdate \/ CollectorDied \/ ClosePipeline \/ PipelineJoined \/ CloseRunner

Collect(A) == A /\ UNCHANGED <<deviceVars, prepVars, spanVars, syncVars, learnerVars>>

GpNext == Collect(GpCollector) \/ Device \/ Sync \/ GpLearner

GpSpec == GpInit /\ [][GpNext]_gpVars

\* The device executes what it is given and both threads run.  The collector
\* finishes the call it is in, but nothing makes it add again.
GpFairSpec ==
  /\ GpSpec
  /\ WF_gpVars(Collect(Add))
  /\ WF_gpVars(ExecuteClone \/ ExecuteTrain) /\ WF_gpVars(ExecuteCopy \/ ExecuteGather \/ ExecuteWait)
  /\ SF_gpVars(Sync) /\ SF_gpVars(GpLearner)

-----------------------------------------------------------------------------
(* Properties.                                                             *)

\* Every variable has the type its declaration gives it.
GpTypeOK ==
  /\ IngressTypeOK
  /\ lock \in {"none", "sync", "gpLearner"}
  /\ spanEvents \in Seq([slot : Slots, start : Nat, count : 0 .. SlotRows])
  /\ submittedPtr \in Nat /\ visiblePtr \in Nat
  /\ storage \in [0 .. Capacity - 1 -> Int]
  /\ \A i \in {0, 1} : batch[i] \subseteq Int
  /\ prepState \in {"idle", "preparing", "gather_submitted"} /\ prepTick \in 0 .. GpMaxIterations
  /\ requiredPtr \in Nat /\ hot \in {0, 1}
  /\ gpPrepared \in [tick : 0 .. GpMaxIterations, ptr : Nat, slot : {0, 1}]
  /\ sync \in {"draining", "checking", "looking", "gathering", "noting", "submitting", "stopped"}
  /\ domain \in 0 .. Capacity
  /\ gpIteration \in 1 .. GpMaxIterations /\ gpFrozen \in Nat
  /\ readUpto \in Nat /\ statsPtr \in Nat /\ pipelineClosed \in BOOLEAN

\* An ingress slot is not written again before the device has read it: a pending
\* copy still finds the rows it was submitted for.
SlotHeldUntilCopied ==
  \A i \in 1 .. Len(stream) :
    IsCopy(stream[i]) =>
      LET span == stream[i].span
      IN  \A j \in 1 .. span.count : ingress[span.slot][j] = span.start + j - 1

\* Two threads submit and commit, but the contiguity checks of commit_ingress and
\* of _submit_new_spans never raise.
SpansInOrder ==
  /\ spanEvents # << >> => SpanInOrder(Head(spanEvents))
  /\ ready > 0 => TakenSpan.start = submittedPtr

\* A batch the learner may sample covers the update boundary it was asked for: every
\* position of the ring shows the newest row before the boundary or a later one,
\* and none of them is torn or unwritten.
Covers(rows, bound) ==
  /\ \A r \in (IF bound > Capacity THEN bound - Capacity ELSE 0) .. bound - 1 :
       \E q \in rows : q >= r /\ q % Capacity = r % Capacity
  /\ \A q \in rows : q >= 0 /\ q >= bound - Capacity

BatchReachesBoundary ==
  gpPrepared # None /\ GatherDone => Covers(batch[gpPrepared.slot], requiredPtr)

\* The next batch is never gathered into the slot an unfinished update reads.
HotBatchProtected ==
  \A i \in 1 .. Len(stream), k \in 1 .. Len(compute) :
    IsGather(stream[i]) /\ compute[k].kind = "train" => stream[i].slot # compute[k].slot

\* The rows read_committed_fields returns are consecutive and in order, although the
\* clone runs after the lock has been released.
FieldsInOrder == \A p \in DOMAIN fields : fields[p] = p

\* Every row that was announced is committed, unless the pipeline is closed.
PublishedIsCommitted ==
  \A k \in 1 .. MaxRows :
    publishedPtr >= k /\ adder = "idle" ~> ptr >= k \/ pipelineClosed

\* Back-pressure never becomes a lock-up: a collector that waits for a slot gets
\* one or gives up.
AddReturns == adder = "acquiring" ~> adder # "acquiring"

\* read_committed_fields waits for what was published, not for what was signalled:
\* it returns unless the collector was killed between the two.
Unsignalled == adder = "gone" /\ publishSeq > consumeSeq + ready
ReadReturns == gpLearner = "catchUp" ~> gpLearner # "catchUp" \/ Unsignalled

\* No buffer is written while an asynchronous reader of it is not done.
BuffersHeld == SlotHeldUntilCopied /\ HotBatchProtected

\* Rows are committed, sampled and read back in the order they were published.
RowsInOrder == SpansInOrder /\ BatchReachesBoundary /\ FieldsInOrder

\* Neither side waits for ever on the other.
BackPressureRelieved == PublishedIsCommitted /\ AddReturns /\ ReadReturns
=============================================================================
