---------------------------- MODULE RolloutRing ----------------------------
(***************************************************************************)
(* RolloutRingBuffer: the shared-memory ring through which the APPO        *)
(* collector process hands rollouts to the learner process.  The writer    *)
(* never waits: it fills the slot under the write pointer and moves on.    *)
(* The reader learns that it was lapped only from the pointers, and moves  *)
(* its own pointer into the window of slots that still exist.              *)
(*                                                                         *)
(* Rollout k (counted from 1) is the one written while the write pointer   *)
(* is k - 1.  Its arrays are cut into Parts pieces that the writer fills   *)
(* one after the other; a piece holds the number of the rollout that wrote *)
(* it last, 0 if none did.                                                 *)
(***************************************************************************)
EXTENDS Integers

CONSTANTS
  NumSlots,     \* num_slots: 4 in the APPO runner
  Parts,        \* pieces of a rollout that can be seen apart
  MaxRollouts   \* bound: rollouts the writer produces

ASSUME NumSlotsAssumption == NumSlots \in Nat \ {0}
ASSUME PartsAssumption    == Parts \in Nat \ {0}
ASSUME MaxRolloutsAssumption == MaxRollouts \in Nat

VARIABLES
  writePtr,   \* _write_ptr, shared; only the writer changes it
  readPtr,    \* _read_ptr, shared; only the reader changes it
  slots,      \* the shared arrays
  filled,     \* pieces of the current rollout already written
  phase,      \* where the reader is in its drain loop
  todo,       \* rollouts of the drain still to be read (num_new)
  view,       \* the slot whose views the reader has borrowed
  got         \* what the reader has copied out of the view, 0 = not yet

writerVars == <<writePtr, slots, filled>>
readerVars == <<readPtr, phase, todo, view, got>>
vars == <<writerVars, readerVars>>

Slots  == 0 .. NumSlots - 1
Pieces == 1 .. Parts
SlotOf(ptr) == ptr % NumSlots
Nothing == [p \in Pieces |-> 0]

Larger(a, b)  == IF a >= b THEN a ELSE b
Smaller(a, b) == IF a <= b THEN a ELSE b

\* The oldest rollout whose slot has not been written again.
OldestAvailable == Larger(0, writePtr - NumSlots)

Init ==
  /\ writePtr = 0 /\ readPtr = 0 /\ filled = 0
  /\ slots = [i \in Slots |-> Nothing]
  /\ phase = "idle" /\ todo = 0 /\ view = 0 /\ got = Nothing

-----------------------------------------------------------------------------
(* The writer: `write_buffer`, the collector's stores, `signal_write_done`. *)

\* Mutation: the writer takes the slot after the pointer.
WriteSlot_Next == SlotOf(writePtr + 1)

WriteSlot == SlotOf(writePtr)

FillPiece ==
  /\ filled < Parts /\ writePtr < MaxRollouts
  /\ slots' = [slots EXCEPT ![WriteSlot][filled + 1] = writePtr + 1]
  /\ filled' = filled + 1
  /\ UNCHANGED <<writePtr, readerVars>>

SignalWriteDone ==
  /\ filled = Parts
  /\ writePtr' = writePtr + 1 /\ filled' = 0
  /\ UNCHANGED <<slots, readerVars>>

Writer == FillPiece \/ SignalWriteDone

-----------------------------------------------------------------------------
(* The reader: the learner's drain loop over the ring's operations.  The   *)
(* write pointer may move between any two of its steps.                    *)

\* Mutation: the clamp jumps to the newest rollout.
Clamped_Newest == Larger(readPtr, writePtr - 1)

\* `_clamp_read_ptr_to_valid_window`.
Clamped == Larger(readPtr, OldestAvailable)

\* The first half of available().
ClampForCount ==
  /\ phase = "idle"
  /\ readPtr' = Clamped
  /\ phase' = "counting"
  /\ UNCHANGED <<writerVars, todo, view, got>>

\* Mutations: a rollout being written is counted too; the last one is left for
\* the next drain; the count is not capped.
Available_WithCurrent == Smaller(writePtr - readPtr + filled, NumSlots)
Available_LeavesOne   == Smaller(Larger(0, writePtr - readPtr - 1), NumSlots)
Available_Uncapped    == Larger(0, writePtr - readPtr)

Available == Smaller(Larger(0, writePtr - readPtr), NumSlots)

\* The second half of available(), and the drain loop's range(num_new).
Count ==
  /\ phase = "counting"
  /\ todo' = Available
  /\ phase' = IF Available = 0 THEN "idle" ELSE "ready"
  /\ UNCHANGED <<writerVars, readPtr, view, got>>

\* `read_numpy_views`: clamp again, then borrow the views of the read slot.
BorrowViews ==
  /\ phase = "ready"
  /\ readPtr' = Clamped
  /\ view' = SlotOf(Clamped)
  /\ got' = Nothing
  /\ phase' = "copying"
  /\ UNCHANGED <<writerVars, todo>>

\* `stage_numpy_views` copies field by field, the writer stores step by step:
\* seen from the writer the pieces are copied in any order.
CopyPiece(p) ==
  /\ phase = "copying" /\ got[p] = 0
  /\ got' = [got EXCEPT ![p] = slots[view][p]]
  /\ UNCHANGED <<writerVars, readPtr, phase, todo, view>>

Copied == \A p \in Pieces : got[p] # 0

Advanced == Larger(Smaller(readPtr + 1, writePtr), OldestAvailable)

\* `advance_read`.
AdvanceRead ==
  /\ phase = "copying" /\ Copied
  /\ readPtr' = Advanced
  /\ todo' = todo - 1
  /\ phase' = IF todo = 1 THEN "idle" ELSE "ready"
  /\ UNCHANGED <<writerVars, view, got>>

Reader == ClampForCount \/ Count \/ BorrowViews \/ (\E p \in Pieces : CopyPiece(p)) \/ AdvanceRead

Next == Writer \/ Reader

Spec == Init /\ [][Next]_vars

\* The learner is an ordinary thread that drains again and again; nothing is
\* assumed of the writer.
FairSpec == Spec /\ WF_vars(Reader)

-----------------------------------------------------------------------------
(* Properties.                                                             *)

\* Every variable has the type its declaration gives it.
TypeOK ==
  /\ writePtr \in Nat /\ readPtr \in Nat
  /\ slots \in [Slots -> [Pieces -> Nat]]
  /\ filled \in 0 .. Parts
  /\ phase \in {"idle", "counting", "ready", "copying"}
  /\ todo \in 0 .. NumSlots
  /\ view \in Slots
  /\ got \in [Pieces -> Nat]

\* A drain decided on a stale count never reaches a rollout that has not been
\* published, however often the writer laps the reader during the drain.
DrainStaysBehind ==
  /\ readPtr + todo <= writePtr
  /\ phase \in {"ready", "copying"} => todo > 0

\* What the reader copies is the rollout its pointer names, unless the writer
\* has come round to that very slot in the meantime: a torn or newer rollout can
\* always be told from the two pointers after the copy.
WholeUnlessLapped ==
  phase = "copying" =>
    \A p \in Pieces : got[p] # 0 => \/ got[p] = readPtr + 1
                                    \/ writePtr >= readPtr + NumSlots

\* A rollout that is still whole in its slot is never skipped: the pointer passes
\* it only by reading it.
Whole(k) == \A p \in Pieces : slots[SlotOf(k - 1)][p] = k

PassesOnlyLost ==
  \A k \in readPtr + 1 .. readPtr' :
    \/ ~Whole(k)
    \/ k = readPtr + 1 /\ AdvanceRead

SkipsOnlyLost == [][PassesOnlyLost]_vars

\* Every rollout the writer publishes is drained or known to be overwritten.
RolloutsLeave == \A k \in 1 .. MaxRollouts : writePtr >= k ~> readPtr >= k

=============================================================================
