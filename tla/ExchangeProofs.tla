---------------------------- MODULE ExchangeProofs ----------------------------
(***************************************************************************)
(* What a collector and a learner may rely on when they exchange data      *)
(* through shared memory, for rings, staging pools, networks, thresholds   *)
(* and runs of any size: the rollout ring, the slot that is answered tick  *)
(* by tick, and the APPO pair.                                             *)
(***************************************************************************)
EXTENDS RolloutRing, InferenceExchange, AppoPipeline, TLAPS

(***************************************************************************)
(* The ring: the slots hold exactly the rollouts of the window the writer  *)
(* has not come round to (Contents), nothing older survives behind it      *)
(* (Overwritten), and the reader's count never carries it past the write   *)
(* pointer (DrainStaysBehind).                                             *)
(***************************************************************************)
-----------------------------------------------------------------------------
(* The slot of a rollout.                                                  *)

\* Division with remainder.
LEMMA Division ==
  ASSUME NEW k \in Nat
  PROVE  /\ k \div NumSlots \in Nat
         /\ k % NumSlots \in 0 .. NumSlots - 1
         /\ k = NumSlots * (k \div NumSlots) + (k % NumSlots)
  BY NumSlotsAssumption

\* Quotient and remainder are unique.
LEMMA Remainder ==
  ASSUME NEW q1 \in Int, NEW r1 \in 0 .. NumSlots - 1,
         NEW q2 \in Int, NEW r2 \in 0 .. NumSlots - 1,
         NumSlots * q1 + r1 = NumSlots * q2 + r2
  PROVE  r1 = r2
<1>1. NumSlots * (q1 - q2) = r2 - r1
  BY NumSlotsAssumption
<1>2. CASE q1 - q2 >= 1
  <2>1. NumSlots * (q1 - q2) >= NumSlots
    BY <1>2, NumSlotsAssumption
  <2>2. QED BY <1>1, <2>1, NumSlotsAssumption
<1>3. CASE q2 - q1 >= 1
  <2>1. NumSlots * (q2 - q1) >= NumSlots
    BY <1>3, NumSlotsAssumption
  <2>2. NumSlots * (q2 - q1) = r1 - r2
    BY <1>1, NumSlotsAssumption
  <2>3. QED BY <2>1, <2>2, NumSlotsAssumption
<1>4. CASE q1 = q2
  BY <1>1, <1>4, NumSlotsAssumption
<1>5. QED BY <1>2, <1>3, <1>4

\* A slot number is a slot.
LEMMA SlotType ==
  ASSUME NEW k \in Nat
  PROVE  SlotOf(k) \in Slots
  BY Division DEF Slots, SlotOf

\* One round later the slot is the same one.
LEMMA NextRound ==
  ASSUME NEW k \in Nat
  PROVE  SlotOf(k + NumSlots) = SlotOf(k)
<1> DEFINE q1 == (k \div NumSlots) + 1
           r1 == k % NumSlots
           q2 == (k + NumSlots) \div NumSlots
           r2 == (k + NumSlots) % NumSlots
<1>1. k + NumSlots \in Nat
  BY NumSlotsAssumption
<1>2. q1 \in Int /\ q2 \in Int /\ r1 \in 0 .. NumSlots - 1 /\ r2 \in 0 .. NumSlots - 1
  BY <1>1, Division
<1>3. k = NumSlots * (k \div NumSlots) + r1 /\ k + NumSlots = NumSlots * q2 + r2
  BY <1>1, Division
<1>4. NumSlots * q1 = NumSlots * (k \div NumSlots) + NumSlots
  BY Division, NumSlotsAssumption
<1>5. NumSlots * q1 + r1 = NumSlots * q2 + r2
  <2> HIDE DEF q1, r1, q2, r2
  <2>1. NumSlots * q1 \in Int /\ NumSlots * q2 \in Int /\ NumSlots * (k \div NumSlots) \in Int
    BY <1>2, Division, NumSlotsAssumption
  <2>2. QED BY <1>2, <1>3, <1>4, <2>1, NumSlotsAssumption
<1>6. QED BY <1>2, <1>5, Remainder DEF SlotOf

\* Within one round every rollout has a slot of its own.
LEMMA OwnSlot ==
  ASSUME NEW j \in Nat, NEW k \in Nat, j < k, k < j + NumSlots
  PROVE  SlotOf(j) # SlotOf(k)
<1> SUFFICES ASSUME j % NumSlots = k % NumSlots PROVE FALSE
  BY DEF SlotOf
<1> DEFINE d == (k \div NumSlots) - (j \div NumSlots)
<1>1. d \in Int
  BY Division
<1>2. NumSlots * d = k - j
  <2>1. NumSlots * d = NumSlots * (k \div NumSlots) - NumSlots * (j \div NumSlots)
    BY Division, NumSlotsAssumption
  <2>2. QED BY <2>1, Division, NumSlotsAssumption
<1>3. CASE d >= 1
  <2>1. NumSlots * d >= NumSlots
    BY <1>1, <1>3, NumSlotsAssumption
  <2>2. QED BY <1>2, <2>1, NumSlotsAssumption
<1>4. CASE d <= 0
  <2>1. NumSlots * d <= 0
    BY <1>1, <1>4, NumSlotsAssumption
  <2>2. QED BY <1>2, <2>1
<1>5. QED BY <1>1, <1>3, <1>4

-----------------------------------------------------------------------------
(* Type correctness.                                                       *)

\* The effect of storing one piece, in one place.
LEMMA Filled ==
  ASSUME TypeOK, FillPiece
  PROVE  /\ filled + 1 \in Pieces /\ WriteSlot \in Slots
         /\ slots' \in [Slots -> [Pieces -> Nat]]
         /\ \A i \in Slots, p \in Pieces :
              slots'[i][p] = IF i = WriteSlot /\ p = filled + 1 THEN writePtr + 1 ELSE slots[i][p]
<1>1. filled + 1 \in Pieces
  BY PartsAssumption DEF FillPiece, TypeOK, Pieces
<1>2. WriteSlot \in Slots
  BY SlotType DEF TypeOK, WriteSlot
<1> DEFINE row == [slots[WriteSlot] EXCEPT ![filled + 1] = writePtr + 1]
<1>3. slots' = [slots EXCEPT ![WriteSlot] = row]
  BY DEF FillPiece
<1>4. row \in [Pieces -> Nat]
  BY <1>1, <1>2 DEF TypeOK
<1>5. \A p \in Pieces : row[p] = IF p = filled + 1 THEN writePtr + 1 ELSE slots[WriteSlot][p]
  BY <1>1, <1>2 DEF TypeOK
<1> HIDE DEF row
<1>6. QED
  BY <1>1, <1>2, <1>3, <1>4, <1>5 DEF TypeOK

\* Every variable keeps its type, and the drain stays behind the write pointer.
Base == TypeOK /\ DrainStaysBehind

LEMMA BaseNext == Base /\ [Next]_vars => Base'
<1> SUFFICES ASSUME TypeOK, DrainStaysBehind, [Next]_vars PROVE TypeOK' /\ DrainStaysBehind'
  BY DEF Base
<1> USE NumSlotsAssumption, PartsAssumption
<1>1. Available \in 0 .. NumSlots /\ Clamped \in Nat
  BY DEF TypeOK, Available, Clamped, OldestAvailable, Smaller, Larger
<1>2. CASE FillPiece
  BY <1>2, Filled DEF FillPiece, TypeOK, DrainStaysBehind, readerVars, Pieces
<1>3. CASE SignalWriteDone
  BY <1>3 DEF SignalWriteDone, TypeOK, DrainStaysBehind, readerVars
<1>4. CASE ClampForCount
  BY <1>1, <1>4 DEF ClampForCount, TypeOK, DrainStaysBehind, writerVars, Clamped,
                    OldestAvailable, Larger
<1>5. CASE Count
  BY <1>1, <1>5 DEF Count, TypeOK, DrainStaysBehind, writerVars, Available, Smaller, Larger
<1>6. CASE BorrowViews
  <2>1. view' \in Slots
    BY <1>1, <1>6, SlotType DEF BorrowViews
  <2>2. TypeOK'
    BY <1>1, <1>6, <2>1 DEF BorrowViews, TypeOK, writerVars, Nothing
  <2>3. DrainStaysBehind'
    BY <1>6 DEF BorrowViews, TypeOK, DrainStaysBehind, writerVars, Clamped, OldestAvailable, Larger
  <2>4. QED BY <2>2, <2>3
<1>7. ASSUME NEW p \in Pieces, CopyPiece(p) PROVE TypeOK' /\ DrainStaysBehind'
  BY <1>7 DEF CopyPiece, TypeOK, DrainStaysBehind, writerVars
<1>8. CASE AdvanceRead
  <2>1. todo \in 1 .. NumSlots /\ readPtr + 1 <= writePtr
    BY <1>8 DEF AdvanceRead, TypeOK, DrainStaysBehind
  <2>2. readPtr' \in Nat /\ readPtr' + todo - 1 <= writePtr
    BY <1>8, <2>1 DEF AdvanceRead, TypeOK, DrainStaysBehind, Advanced, OldestAvailable,
                      Smaller, Larger
  <2>3. QED
    BY <1>8, <2>1, <2>2 DEF AdvanceRead, TypeOK, DrainStaysBehind, writerVars
<1>9. CASE UNCHANGED vars
  BY <1>9 DEF vars, writerVars, readerVars, TypeOK, DrainStaysBehind
<1>10. QED
  BY <1>2, <1>3, <1>4, <1>5, <1>6, <1>7, <1>8, <1>9 DEF Next, Writer, Reader

LEMMA BaseInit == Init => Base
<1> SUFFICES ASSUME Init PROVE Base
  OBVIOUS
<1>1. 0 \in Slots
  BY NumSlotsAssumption DEF Slots
<1>2. QED
  BY <1>1, NumSlotsAssumption, PartsAssumption DEF Init, Base, TypeOK, DrainStaysBehind, Nothing, Pieces

-----------------------------------------------------------------------------
(* What the slots hold.                                                    *)

\* Rollout k + 1 is in its slot while the writer has not come round to it, piece
\* by piece: the slot under the write pointer still holds the pieces of the
\* rollout of one round ago that are not yet overwritten.
Contents ==
  /\ \A k \in Nat, p \in Pieces :
       /\ k < writePtr
       /\ k + NumSlots > writePtr \/ (k + NumSlots = writePtr /\ p > filled)
       => slots[SlotOf(k)][p] = k + 1
  /\ \A p \in Pieces : p <= filled => slots[SlotOf(writePtr)][p] = writePtr + 1

\* Nothing older is left anywhere.
Overwritten ==
  \A k \in Nat, p \in Pieces :
    k + NumSlots < writePtr => slots[SlotOf(k)][p] # k + 1

\* The borrowed view stays the slot of the read pointer.
ViewOfReader == phase = "copying" => view = SlotOf(readPtr)

RingInv == Base /\ Contents /\ Overwritten /\ WholeUnlessLapped /\ ViewOfReader

LEMMA FillKeeps ==
  ASSUME RingInv, FillPiece
  PROVE  Contents' /\ Overwritten'
<1> USE NumSlotsAssumption
<1>1. TypeOK
  BY DEF RingInv, Base
<1>2. /\ writePtr' = writePtr /\ filled' = filled + 1 /\ writePtr \in Nat /\ filled \in Nat
      /\ \A i \in Slots, p \in Pieces :
           slots'[i][p] = IF i = WriteSlot /\ p = filled + 1 THEN writePtr + 1 ELSE slots[i][p]
      /\ filled + 1 \in Pieces
  BY <1>1, Filled DEF FillPiece, TypeOK
<1>3. Pieces \subseteq Nat
  BY DEF Pieces
<1>4. ASSUME NEW k \in Nat, NEW p \in Pieces, k < writePtr,
             k + NumSlots > writePtr \/ (k + NumSlots = writePtr /\ p > filled + 1)
      PROVE  slots'[SlotOf(k)][p] = k + 1
  <2>1. slots[SlotOf(k)][p] = k + 1
    BY <1>2, <1>3, <1>4 DEF RingInv, Contents
  <2>2. ~(SlotOf(k) = WriteSlot /\ p = filled + 1)
    BY <1>2, <1>3, <1>4, OwnSlot DEF WriteSlot
  <2>3. QED BY <1>2, <2>1, <2>2, SlotType
<1>5. ASSUME NEW p \in Pieces, p <= filled + 1
      PROVE  slots'[SlotOf(writePtr)][p] = writePtr + 1
  <2>1. CASE p = filled + 1
    BY <1>2, <2>1, SlotType DEF WriteSlot
  <2>2. CASE p <= filled
    BY <1>2, <2>2, SlotType DEF WriteSlot, RingInv, Contents
  <2>3. QED BY <1>2, <1>3, <1>5, <2>1, <2>2
<1>6. ASSUME NEW k \in Nat, NEW p \in Pieces, k + NumSlots < writePtr
      PROVE  slots'[SlotOf(k)][p] # k + 1
  <2>1. slots[SlotOf(k)][p] # k + 1
    BY <1>6 DEF RingInv, Overwritten
  <2>2. QED BY <1>2, <1>6, <2>1, SlotType
<1>7. QED
  BY <1>2, <1>4, <1>5, <1>6 DEF Contents, Overwritten

LEMMA SignalKeeps ==
  ASSUME RingInv, SignalWriteDone
  PROVE  Contents' /\ Overwritten'
<1> USE NumSlotsAssumption
<1>1. /\ writePtr' = writePtr + 1 /\ filled' = 0 /\ slots' = slots /\ writePtr \in Nat
      /\ filled = Parts
  BY DEF SignalWriteDone, RingInv, Base, TypeOK
<1>2. \A p \in Pieces : p \in Nat /\ p >= 1 /\ slots[SlotOf(writePtr)][p] = writePtr + 1
  BY <1>1, PartsAssumption DEF RingInv, Contents, Pieces
<1>3. ASSUME NEW k \in Nat, NEW p \in Pieces, k < writePtr + 1, k + NumSlots >= writePtr + 1
      PROVE  slots[SlotOf(k)][p] = k + 1
  <2>1. CASE k = writePtr
    BY <1>2, <2>1
  <2>2. CASE k < writePtr
    BY <1>1, <1>3, <2>2 DEF RingInv, Contents
  <2>3. QED BY <1>1, <1>3, <2>1, <2>2
<1>4. ASSUME NEW k \in Nat, NEW p \in Pieces, k + NumSlots < writePtr + 1
      PROVE  slots[SlotOf(k)][p] # k + 1
  <2>1. CASE k + NumSlots = writePtr
    <3>1. SlotOf(k) = SlotOf(writePtr)
      BY <2>1, NextRound
    <3>2. QED BY <1>1, <1>2, <2>1, <3>1
  <2>2. CASE k + NumSlots < writePtr
    BY <2>2 DEF RingInv, Overwritten
  <2>3. QED BY <1>1, <1>4, <2>1, <2>2
<1>5. QED
  BY <1>1, <1>2, <1>3, <1>4 DEF Contents, Overwritten

\* The copy of a piece that the writer cannot have touched since is good.
LEMMA CopyKeeps ==
  ASSUME RingInv, view = SlotOf(readPtr), NEW p \in Pieces, CopyPiece(p)
  PROVE  WholeUnlessLapped'
<1>1. /\ TypeOK /\ readPtr < writePtr /\ phase = "copying"
      /\ readPtr' = readPtr /\ writePtr' = writePtr
      /\ got' = [got EXCEPT ![p] = slots[view][p]]
  BY DEF CopyPiece, RingInv, Base, TypeOK, DrainStaysBehind, writerVars
<1>2. slots[view][p] = readPtr + 1 \/ writePtr >= readPtr + NumSlots
  BY <1>1, NumSlotsAssumption DEF RingInv, Contents, TypeOK
<1>3. QED
  BY <1>1, <1>2 DEF RingInv, WholeUnlessLapped, TypeOK

LEMMA RingInit == Init => RingInv
<1> SUFFICES ASSUME Init PROVE RingInv
  OBVIOUS
<1>1. Base
  BY BaseInit
<1>2. Contents /\ Overwritten
  BY NumSlotsAssumption DEF Init, Contents, Overwritten, Pieces
<1>3. WholeUnlessLapped /\ ViewOfReader
  BY DEF Init, WholeUnlessLapped, ViewOfReader
<1>4. QED BY <1>1, <1>2, <1>3 DEF RingInv

LEMMA RingNext == RingInv /\ [Next]_vars => RingInv'
<1> SUFFICES ASSUME RingInv, [Next]_vars PROVE RingInv'
  OBVIOUS
<1>1. Base'
  BY BaseNext DEF RingInv
<1>2. CASE Writer
  <2>1. Contents' /\ Overwritten'
    BY <1>2, FillKeeps, SignalKeeps DEF Writer
  <2>2. UNCHANGED readerVars /\ writePtr' >= writePtr /\ writePtr \in Nat
    BY <1>2 DEF Writer, FillPiece, SignalWriteDone, RingInv, Base, TypeOK
  <2>3. WholeUnlessLapped' /\ ViewOfReader'
    BY <2>2, <1>1, NumSlotsAssumption DEF RingInv, Base, TypeOK, WholeUnlessLapped, ViewOfReader,
                                         readerVars
  <2>4. QED BY <1>1, <2>1, <2>3 DEF RingInv
<1>3. CASE Reader \/ UNCHANGED vars
  <2>1. UNCHANGED writerVars
    BY <1>3 DEF Reader, ClampForCount, Count, BorrowViews, CopyPiece, AdvanceRead, vars
  <2>2. Contents' /\ Overwritten'
    BY <2>1 DEF RingInv, Contents, Overwritten, writerVars
  <2>3. ViewOfReader'
    BY <1>3 DEF Reader, ClampForCount, Count, BorrowViews, CopyPiece, AdvanceRead, vars,
                readerVars, RingInv, ViewOfReader
  <2>4. WholeUnlessLapped'
    <3>1. ASSUME NEW p \in Pieces, CopyPiece(p) PROVE WholeUnlessLapped'
      BY <3>1, CopyKeeps DEF CopyPiece, RingInv, ViewOfReader
    <3>2. CASE BorrowViews
      BY <3>2 DEF BorrowViews, WholeUnlessLapped, Nothing
    <3>3. CASE ClampForCount \/ Count \/ AdvanceRead
      BY <3>3 DEF ClampForCount, Count, AdvanceRead, WholeUnlessLapped
    <3>4. CASE UNCHANGED vars
      BY <3>4 DEF vars, readerVars, writerVars, WholeUnlessLapped, RingInv
    <3>5. QED BY <1>3, <3>1, <3>2, <3>3, <3>4 DEF Reader
  <2>5. QED BY <1>1, <2>2, <2>3, <2>4 DEF RingInv
<1>4. QED BY <1>2, <1>3 DEF Next

\* A step moves the read pointer past a rollout by reading it, or past rollouts
\* that are no longer there.
LEMMA SkipStep ==
  ASSUME RingInv, [Next]_vars, NEW k \in readPtr + 1 .. readPtr'
  PROVE  ~Whole(k) \/ (k = readPtr + 1 /\ AdvanceRead)
<1>1. TypeOK /\ readPtr + todo <= writePtr /\ (phase \in {"ready", "copying"} => todo > 0)
  BY DEF RingInv, Base, DrainStaysBehind
<1>2. readPtr \in Nat /\ writePtr \in Nat /\ k \in Nat /\ k > readPtr /\ readPtr' # readPtr
  <2>1. readPtr' \in Nat
    BY BaseNext DEF RingInv, Base, TypeOK
  <2>2. QED BY <1>1, <2>1 DEF TypeOK
<1>3. (readPtr' = Clamped) \/ (AdvanceRead /\ readPtr' = Advanced)
  BY <1>2 DEF Next, Writer, FillPiece, SignalWriteDone, Reader, ClampForCount, Count, BorrowViews,
              CopyPiece, AdvanceRead, vars, readerVars
<1>4. CASE k + NumSlots <= writePtr
  <2>1. 1 \in Pieces /\ k - 1 \in Nat /\ (k - 1) + NumSlots < writePtr
    BY <1>2, <1>4, PartsAssumption, NumSlotsAssumption DEF Pieces
  <2>2. slots[SlotOf(k - 1)][1] # k
    BY <1>2, <2>1 DEF RingInv, Overwritten
  <2>3. QED BY <2>1, <2>2 DEF Whole
<1>5. CASE k + NumSlots > writePtr
  <2>1. k > OldestAvailable
    BY <1>2, <1>5, NumSlotsAssumption DEF OldestAvailable, Larger
  <2>2. CASE readPtr' = Clamped
    BY <1>2, <2>1, <2>2, NumSlotsAssumption DEF Clamped, Larger, OldestAvailable
  <2>3. CASE AdvanceRead /\ readPtr' = Advanced
    <3>1. k = readPtr + 1
      BY <1>1, <1>2, <2>1, <2>3, NumSlotsAssumption
         DEF Advanced, Larger, Smaller, OldestAvailable
    <3>2. QED BY <2>3, <3>1
  <2>4. QED BY <1>3, <2>2, <2>3
<1>6. QED BY <1>2, <1>4, <1>5, NumSlotsAssumption

-----------------------------------------------------------------------------
(* The theorems.                                                           *)

LEMMA RingAlways == Spec => []RingInv
<1>1. Init => RingInv
  BY RingInit
<1>2. RingInv /\ [Next]_vars => RingInv'
  BY RingNext
<1>3. QED BY <1>1, <1>2, PTL DEF Spec

\* Every variable of the ring has its type in every reachable state: the count of
\* a drain never exceeds the number of slots, the borrowed slot exists.
THEOREM RingTypes == Spec => []TypeOK
<1>1. RingInv => TypeOK
  BY DEF RingInv, Base
<1>2. QED BY <1>1, RingAlways, PTL

\* However the writer laps it, the learner's drain never reaches a rollout that
\* signal_write_done has not published.
THEOREM DrainIsBehind == Spec => []DrainStaysBehind
<1>1. RingInv => DrainStaysBehind
  BY DEF RingInv, Base
<1>2. QED BY <1>1, RingAlways, PTL

\* A copied piece is the rollout the read pointer names unless the pointers show,
\* after the copy, that the writer has come round.
THEOREM CopyIsWhole == Spec => []WholeUnlessLapped
<1>1. RingInv => WholeUnlessLapped
  BY DEF RingInv
<1>2. QED BY <1>1, RingAlways, PTL

\* The read pointer never passes a rollout that is still whole in its slot except
\* by having read it.
THEOREM NothingSkippedEarly == Spec => SkipsOnlyLost
<1>1. RingInv /\ [Next]_vars => [PassesOnlyLost]_vars
  BY SkipStep DEF PassesOnlyLost
<1>2. QED BY <1>1, RingAlways, PTL DEF Spec, SkipsOnlyLost

------------------------------------------------------------------------------
(***************************************************************************)
(* The slot of the off-policy pair, by one inductive invariant in four     *)
(* parts: who holds the slot and the queues, how far publication is behind *)
(* the ticks, how old the action under way can be, and when an update is   *)
(* due.                                                                    *)
(***************************************************************************)
Serving == {"serving", "freezing", "releasing"}

\* What is known without looking at the collector, which may be dead: at most one
\* of a request, a tick being served and a response exists, and it is the next
\* tick or the one just served.
LearnerSide ==
  /\ requests \in {<< >>, << nextTick >>} /\ responses \in {<< >>, << served >>}
  /\ requests # << >> => /\ slot.state = "observation" /\ slot.request = nextTick
                         /\ responses = << >> /\ learner \notin Serving
                         /\ published = nextTick
  /\ learner = "serving" => /\ slot.state = "observation" /\ slot.request = served
                            /\ served = nextTick
  /\ learner \in {"freezing", "releasing"} => served + 1 = nextTick
  /\ learner \in Serving => /\ requests = << >> /\ responses = << >>
                            /\ published = served

\* What each position of a living collector says of the rest.
CollectorSide ==
  /\ collector \in {"top", "observing", "requesting", "stepping"} =>
       /\ requests = << >> /\ responses = << >> /\ learner \notin Serving
       /\ tick = nextTick
  /\ collector \in {"top", "observing", "stepping"} => slot.state = "idle"
  /\ collector = "requesting" => slot.state = "observation" /\ slot.request = tick
  /\ collector = "waiting" =>
       \/ /\ requests = << tick >> /\ tick = nextTick
       \/ /\ learner = "serving" /\ served = tick
       \/ /\ learner \in {"freezing", "releasing"} /\ served = tick
          /\ slot.state = "action" /\ slot.response = tick
       \/ /\ learner \notin Serving /\ requests = << >> /\ responses = << tick >>
          /\ tick + 1 = nextTick /\ slot.state = "action" /\ slot.response = tick
  /\ collector = "consuming" =>
       /\ learner \notin Serving /\ requests = << >> /\ responses = << >>
       /\ tick + 1 = nextTick /\ slot.state = "action" /\ slot.response = tick

\* Every tick that has been asked for follows the transitions of the ticks before
\* it; the boundary of a prefetch is no further than the ticks its update waits for.
Publication ==
  /\ collector \in {"observing", "requesting", "waiting", "consuming"} => published = tick
  /\ collector = "stepping" => published + 1 = tick
  /\ collector = "top" => published = tick \/ (stop /\ published + 1 = tick)
  /\ nextTick <= published + 1
  /\ committed <= published
  /\ frozen < nextTick + StepsPerSync
  /\ learner \in {"releasing", "progress", "deciding", "awaiting"} /\ sinceUpdate >= StepsPerSync =>
       frozen \in Nat
  /\ learner \in {"requested", "progress", "deciding"} \cup Serving /\ prepared = iteration =>
       required + sinceUpdate < nextTick + StepsPerSync
  /\ learner = "awaiting" => required <= published
  /\ learner = "updating" /\ prepared = iteration + 1 => required < nextTick + StepsPerSync

\* Since the last tick was served no update has ended, or exactly one.
AsOldAs(v) == v = version \/ (sinceUpdate = 0 /\ v = version - 1 /\ v \in Nat)

PolicyAge ==
  /\ slot.state = "action" => AsOldAs(slot.version)
  /\ collector = "stepping" => AsOldAs(acted)

\* Once the threshold is passed an update begins as soon as its ticks are served.
Pace ==
  /\ iteration > 1 \/ learner \in {"awaiting", "updating"} => committed >= Threshold
  /\ learner \in {"awaiting", "updating"} => sinceUpdate >= StepsPerSync
  /\ iteration > 1 => sinceUpdate <= StepsPerSync
  /\ iteration > 1 /\ learner \in {"requested", "serving"} => sinceUpdate < StepsPerSync

OrNone == Nat \cup {-1}
SlotStates == {"idle", "observation", "action"}
SlotRecords == [state : SlotStates, request : OrNone, response : OrNone, version : OrNone]

SlotTypes == slot \in SlotRecords

FlagTypes == errorMsg \in BOOLEAN /\ stop \in BOOLEAN /\ gathered \in BOOLEAN

Positions ==
  /\ collector \in {"top", "observing", "requesting", "waiting", "consuming", "stepping"} \cup Dead
  /\ learner \in {"requested", "serving", "freezing", "releasing", "progress", "deciding",
                  "awaiting", "updating"} \cup Ended

Counters ==
  /\ published \in Nat /\ tick \in Nat /\ acted \in Nat
  /\ iteration \in 1 .. MaxIterations /\ served \in Nat
  /\ nextTick \in Nat /\ pending \in Nat \cup {-1} /\ sinceUpdate \in Nat
  /\ version \in 0 .. MaxIterations
  /\ version < iteration \/ learner \in Ended
  /\ frozen \in Nat \cup {-1} /\ required \in Nat /\ committed \in Nat
  /\ prepared \in 0 .. MaxIterations

Types == SlotTypes /\ FlagTypes /\ Positions /\ Counters

IInv == Types /\ LearnerSide /\ CollectorSide /\ Publication /\ PolicyAge /\ Pace

USE StepsAssumption, MaxIterationsAssumption

-----------------------------------------------------------------------------
\* The three writes to the slot keep it a slot.
LEMMA SlotWrites ==
  ASSUME NEW s \in SlotRecords, NEW t \in OrNone, NEW v \in OrNone
  PROVE  /\ [s EXCEPT !.state = "observation", !.request = t] \in SlotRecords
         /\ [s EXCEPT !.state = "idle"] \in SlotRecords
         /\ [s EXCEPT !.state = "action", !.response = t, !.version = v] \in SlotRecords
<1>1. {"observation", "idle", "action"} \subseteq SlotStates
  BY DEF SlotStates
<1> QED
  BY <1>1 DEF SlotRecords

\* A queue that holds at most one tick.
LEMMA AtMostOne ==
  ASSUME NEW n \in Nat, NEW q \in {<< >>, << n >>}
  PROVE  q \in Seq(Nat) /\ Len(q) <= 1
<1>1. CASE q = << >>
  BY <1>1
<1>2. CASE q = << n >>
  BY <1>2
<1> QED
  BY <1>1, <1>2

LEMMA ExchangeBegins == ExInit => IInv
<1> SUFFICES ASSUME ExInit PROVE IInv
  OBVIOUS
<1> USE DEF ExInit
<1>1. SlotTypes /\ Positions /\ Counters
  BY SMT DEF SlotTypes, SlotRecords, SlotStates, OrNone, Positions, Counters, Dead, Ended
<1>2. FlagTypes
  BY Zenon DEF FlagTypes
<1>3. LearnerSide /\ CollectorSide
  BY SMT DEF LearnerSide, CollectorSide, Serving
<1>4. Publication /\ PolicyAge /\ Pace
  BY SMT DEF Publication, PolicyAge, AsOldAs, Pace, Serving
<1> QED
  BY <1>1, <1>2, <1>3, <1>4 DEF IInv, Types

LEMMA StepHolds == IInv /\ [ExNext]_exvars => IInv'
<1> SUFFICES ASSUME IInv, [ExNext]_exvars PROVE IInv'
  OBVIOUS
<1> USE DEF IInv, Types, SlotTypes, FlagTypes, Positions, Counters, LearnerSide, CollectorSide,
     Publication, PolicyAge, Pace, AsOldAs,
            Serving, Dead, Ended, Move, Go, sharedVars, collectorVars, schedulerVars,
            replayVars, learnerVars, exvars
<1>1. CASE LoopHead
  <2>1. Types'
    <3>1. SlotTypes'
      BY <1>1, SMT DEF LoopHead
    <3>2. FlagTypes'
      BY <1>1, SMT DEF LoopHead
    <3>3. Positions'
      BY <1>1, SMT DEF LoopHead
    <3>4. Counters'
      BY <1>1, SMT DEF LoopHead
    <3> QED
      BY <3>1, <3>2, <3>3, <3>4
  <2>2. LearnerSide'
    BY <1>1, SMT DEF LoopHead
  <2>3. CollectorSide'
    BY <1>1, SMT DEF LoopHead
  <2>4. Publication'
    BY <1>1, SMT DEF LoopHead
  <2>5. PolicyAge'
    BY <1>1, SMT DEF LoopHead
  <2>6. Pace'
    BY <1>1, SMT DEF LoopHead
  <2> QED
    BY <2>1, <2>2, <2>3, <2>4, <2>5, <2>6
<1>2. CASE PublishObservation
  <2>1. Types'
    <3>1. SlotTypes'
      <4>1. slot \in SlotRecords /\ tick \in OrNone /\ tick \in OrNone
        BY SMT DEF OrNone
      <4> QED
        BY ONLY <1>2, <4>1, SlotWrites DEF PublishObservation, SlotTypes
    <3>2. FlagTypes'
      BY <1>2, SMT DEF PublishObservation
    <3>3. Positions'
      BY <1>2, SMT DEF PublishObservation
    <3>4. Counters'
      BY <1>2, SMT DEF PublishObservation
    <3> QED
      BY <3>1, <3>2, <3>3, <3>4
  <2>2. LearnerSide'
    BY <1>2, SMT DEF PublishObservation
  <2>3. CollectorSide'
    BY <1>2, SMT DEF PublishObservation
  <2>4. Publication'
    BY <1>2, SMT DEF PublishObservation
  <2>5. PolicyAge'
    BY <1>2, SMT DEF PublishObservation
  <2>6. Pace'
    BY <1>2, SMT DEF PublishObservation
  <2> QED
    BY <2>1, <2>2, <2>3, <2>4, <2>5, <2>6
<1>3. CASE PutRequest
  <2>1. Types'
    <3>1. SlotTypes'
      BY <1>3, SMT DEF PutRequest
    <3>2. FlagTypes'
      BY <1>3, SMT DEF PutRequest
    <3>3. Positions'
      BY <1>3, SMT DEF PutRequest
    <3>4. Counters'
      BY <1>3, SMT DEF PutRequest
    <3> QED
      BY <3>1, <3>2, <3>3, <3>4
  <2>2. LearnerSide'
    BY <1>3, SMT DEF PutRequest
  <2>3. CollectorSide'
    BY <1>3, SMT DEF PutRequest
  <2>4. Publication'
    BY <1>3, SMT DEF PutRequest
  <2>5. PolicyAge'
    BY <1>3, SMT DEF PutRequest
  <2>6. Pace'
    BY <1>3, SMT DEF PutRequest
  <2> QED
    BY <2>1, <2>2, <2>3, <2>4, <2>5, <2>6
<1>4. CASE GetResponse
  <2>1. Types'
    <3>1. SlotTypes'
      BY <1>4, SMT DEF GetResponse
    <3>2. FlagTypes'
      BY <1>4, SMT DEF GetResponse
    <3>3. Positions'
      BY <1>4, SMT DEF GetResponse
    <3>4. Counters'
      BY <1>4, SMT DEF GetResponse
    <3> QED
      BY <3>1, <3>2, <3>3, <3>4
  <2>2. LearnerSide'
    <3>1. responses = << tick >>
      BY <1>4, SMT DEF GetResponse
    <3>2. responses' = << >>
      BY <1>4, <3>1, SMT DEF GetResponse
    <3> QED
      BY <1>4, <3>2, SMT DEF GetResponse
  <2>3. CollectorSide'
    BY <1>4, SMT DEF GetResponse
  <2>4. Publication'
    BY <1>4, SMT DEF GetResponse
  <2>5. PolicyAge'
    BY <1>4, SMT DEF GetResponse
  <2>6. Pace'
    BY <1>4, SMT DEF GetResponse
  <2> QED
    BY <2>1, <2>2, <2>3, <2>4, <2>5, <2>6
<1>5. CASE StopSeen
  <2>1. Types'
    <3>1. SlotTypes'
      BY <1>5, SMT DEF StopSeen
    <3>2. FlagTypes'
      BY <1>5, SMT DEF StopSeen
    <3>3. Positions'
      BY <1>5, SMT DEF StopSeen
    <3>4. Counters'
      BY <1>5, SMT DEF StopSeen
    <3> QED
      BY <3>1, <3>2, <3>3, <3>4
  <2>2. LearnerSide'
    BY <1>5, SMT DEF StopSeen
  <2>3. CollectorSide'
    BY <1>5, SMT DEF StopSeen
  <2>4. Publication'
    BY <1>5, SMT DEF StopSeen
  <2>5. PolicyAge'
    BY <1>5, SMT DEF StopSeen
  <2>6. Pace'
    BY <1>5, SMT DEF StopSeen
  <2> QED
    BY <2>1, <2>2, <2>3, <2>4, <2>5, <2>6
<1>6. CASE ConsumeAction
  <2>1. Types'
    <3>1. SlotTypes'
      <4>1. slot \in SlotRecords /\ tick \in OrNone /\ tick \in OrNone
        BY SMT DEF OrNone
      <4> QED
        BY ONLY <1>6, <4>1, SlotWrites DEF ConsumeAction, Consumed, SlotTypes
    <3>2. FlagTypes'
      BY <1>6, SMT DEF ConsumeAction, Consumed
    <3>3. Positions'
      BY <1>6, SMT DEF ConsumeAction, Consumed
    <3>4. Counters'
      BY <1>6, SMT DEF ConsumeAction, Consumed
    <3> QED
      BY <3>1, <3>2, <3>3, <3>4
  <2>2. LearnerSide'
    BY <1>6, SMT DEF ConsumeAction, Consumed
  <2>3. CollectorSide'
    BY <1>6, SMT DEF ConsumeAction, Consumed
  <2>4. Publication'
    BY <1>6, SMT DEF ConsumeAction, Consumed
  <2>5. PolicyAge'
    BY <1>6, SMT DEF ConsumeAction, Consumed
  <2>6. Pace'
    BY <1>6, SMT DEF ConsumeAction, Consumed
  <2> QED
    BY <2>1, <2>2, <2>3, <2>4, <2>5, <2>6
<1>7. CASE StepAndStore
  <2>1. Types'
    <3>1. SlotTypes'
      BY <1>7, SMT DEF StepAndStore
    <3>2. FlagTypes'
      BY <1>7, SMT DEF StepAndStore
    <3>3. Positions'
      BY <1>7, SMT DEF StepAndStore
    <3>4. Counters'
      BY <1>7, SMT DEF StepAndStore
    <3> QED
      BY <3>1, <3>2, <3>3, <3>4
  <2>2. LearnerSide'
    BY <1>7, SMT DEF StepAndStore
  <2>3. CollectorSide'
    BY <1>7, SMT DEF StepAndStore
  <2>4. Publication'
    <3>1. CASE published' = published + 1
      BY <1>7, <3>1, SMT DEF StepAndStore
    <3>2. CASE stop /\ published' = published
      BY <1>7, <3>2, SMT DEF StepAndStore
    <3> QED
      BY <1>7, <3>1, <3>2, Zenon DEF StepAndStore
  <2>5. PolicyAge'
    BY <1>7, SMT DEF StepAndStore
  <2>6. Pace'
    BY <1>7, SMT DEF StepAndStore
  <2> QED
    BY <2>1, <2>2, <2>3, <2>4, <2>5, <2>6
<1>8. CASE CollectorFails
  <2>1. Types'
    <3>1. SlotTypes'
      BY <1>8, SMT DEF CollectorFails
    <3>2. FlagTypes'
      BY <1>8, Zenon DEF CollectorFails
    <3>3. Positions'
      BY <1>8, SMT DEF CollectorFails
    <3>4. Counters'
      BY <1>8, SMT DEF CollectorFails
    <3> QED
      BY <3>1, <3>2, <3>3, <3>4
  <2>2. LearnerSide'
    BY <1>8, SMT DEF CollectorFails
  <2>3. CollectorSide'
    BY <1>8, SMT DEF CollectorFails
  <2>4. Publication'
    BY <1>8, SMT DEF CollectorFails
  <2>5. PolicyAge'
    BY <1>8, SMT DEF CollectorFails
  <2>6. Pace'
    BY <1>8, SMT DEF CollectorFails
  <2> QED
    BY <2>1, <2>2, <2>3, <2>4, <2>5, <2>6
<1>9. CASE CollectorKilled
  <2>1. Types'
    <3>1. SlotTypes'
      BY <1>9, SMT DEF CollectorKilled
    <3>2. FlagTypes'
      BY <1>9, SMT DEF CollectorKilled
    <3>3. Positions'
      BY <1>9, SMT DEF CollectorKilled
    <3>4. Counters'
      BY <1>9, SMT DEF CollectorKilled
    <3> QED
      BY <3>1, <3>2, <3>3, <3>4
  <2>2. LearnerSide'
    BY <1>9, SMT DEF CollectorKilled
  <2>3. CollectorSide'
    BY <1>9, SMT DEF CollectorKilled
  <2>4. Publication'
    BY <1>9, SMT DEF CollectorKilled
  <2>5. PolicyAge'
    BY <1>9, SMT DEF CollectorKilled
  <2>6. Pace'
    BY <1>9, SMT DEF CollectorKilled
  <2> QED
    BY <2>1, <2>2, <2>3, <2>4, <2>5, <2>6
<1>10. CASE GetRequest
  <2>0. /\ requests = << nextTick >> /\ requests' = << >> /\ served' = nextTick
        /\ responses = << >> /\ learner = "requested" /\ learner' = "serving"
    <3>1. /\ learner = "requested" /\ learner' = "serving" /\ requests # << >>
          /\ served' = Head(requests) /\ requests' = Tail(requests)
      BY <1>10, Zenon DEF GetRequest
    <3>2. requests = << nextTick >> /\ responses = << >>
      BY <3>1, Zenon
    <3>3. Head(<< nextTick >>) = nextTick /\ Tail(<< nextTick >>) = << >>
      OBVIOUS
    <3> QED
      BY <3>1, <3>2, <3>3, Zenon
  <2>1. Types'
    <3>1. SlotTypes'
      BY <1>10, SMT DEF GetRequest
    <3>2. FlagTypes'
      BY <1>10, SMT DEF GetRequest
    <3>3. Positions'
      BY <1>10, SMT DEF GetRequest
    <3>4. Counters'
      BY <1>10, SMT DEF GetRequest
    <3> QED
      BY <3>1, <3>2, <3>3, <3>4
  <2>2. LearnerSide'
    <3>1. UNCHANGED <<slot, responses, published, nextTick>>
      BY <1>10 DEF GetRequest
    <3> QED
      BY <2>0, <3>1
  <2>3. CollectorSide'
    BY <1>10, SMT DEF GetRequest
  <2>4. Publication'
    BY <1>10, SMT DEF GetRequest
  <2>5. PolicyAge'
    BY <1>10, SMT DEF GetRequest
  <2>6. Pace'
    BY <1>10, SMT DEF GetRequest
  <2> QED
    BY <2>1, <2>2, <2>3, <2>4, <2>5, <2>6
<1>11. CASE RequestWaitFails
  <2>1. Types'
    <3>1. SlotTypes'
      BY <1>11, SMT DEF RequestWaitFails, RequestWaitOver
    <3>2. FlagTypes'
      BY <1>11, Zenon DEF RequestWaitFails, RequestWaitOver
    <3>3. Positions'
      BY <1>11, SMT DEF RequestWaitFails, RequestWaitOver
    <3>4. Counters'
      BY <1>11, SMT DEF RequestWaitFails, RequestWaitOver
    <3> QED
      BY <3>1, <3>2, <3>3, <3>4
  <2>2. LearnerSide'
    BY <1>11, SMT DEF RequestWaitFails, RequestWaitOver
  <2>3. CollectorSide'
    BY <1>11, SMT DEF RequestWaitFails, RequestWaitOver
  <2>4. Publication'
    BY <1>11, SMT DEF RequestWaitFails, RequestWaitOver
  <2>5. PolicyAge'
    BY <1>11, SMT DEF RequestWaitFails, RequestWaitOver
  <2>6. Pace'
    BY <1>11, SMT DEF RequestWaitFails, RequestWaitOver
  <2> QED
    BY <2>1, <2>2, <2>3, <2>4, <2>5, <2>6
<1>12. CASE Serve
  <2>1. Types'
    <3>1. SlotTypes'
      <4>1. slot \in SlotRecords /\ served \in OrNone /\ version \in OrNone
        BY SMT DEF OrNone
      <4> QED
        BY ONLY <1>12, <4>1, SlotWrites DEF Serve, ActionVersion, SlotTypes
    <3>2. FlagTypes'
      BY <1>12, SMT DEF Serve, ActionVersion
    <3>3. Positions'
      BY <1>12, SMT DEF Serve, ActionVersion
    <3>4. Counters'
      BY <1>12, SMT DEF Serve, ActionVersion
    <3> QED
      BY <3>1, <3>2, <3>3, <3>4
  <2>2. LearnerSide'
    BY <1>12, SMT DEF Serve, ActionVersion
  <2>3. CollectorSide'
    BY <1>12, SMT DEF Serve, ActionVersion
  <2>4. Publication'
    BY <1>12, SMT DEF Serve, ActionVersion
  <2>5. PolicyAge'
    BY <1>12, SMT DEF Serve, ActionVersion
  <2>6. Pace'
    BY <1>12, SMT DEF Serve, ActionVersion
  <2> QED
    BY <2>1, <2>2, <2>3, <2>4, <2>5, <2>6
<1>13. CASE ReleaseTick
  <2>1. Types'
    <3>1. SlotTypes'
      BY <1>13, SMT DEF ReleaseTick, Release, Freeze, PutResponse, UpdateReady
    <3>2. FlagTypes'
      BY <1>13, SMT DEF ReleaseTick, Release, Freeze, PutResponse, UpdateReady
    <3>3. Positions'
      BY <1>13, SMT DEF ReleaseTick, Release, Freeze, PutResponse, UpdateReady
    <3>4. Counters'
      BY <1>13, SMT DEF ReleaseTick, Release, Freeze, PutResponse, UpdateReady
    <3> QED
      BY <3>1, <3>2, <3>3, <3>4
  <2>2. LearnerSide'
    BY <1>13, SMT DEF ReleaseTick, Release, Freeze, PutResponse, UpdateReady
  <2>3. CollectorSide'
    BY <1>13, SMT DEF ReleaseTick, Release, Freeze, PutResponse, UpdateReady
  <2>4. Publication'
    BY <1>13, SMT DEF ReleaseTick, Release, Freeze, PutResponse, UpdateReady
  <2>5. PolicyAge'
    BY <1>13, SMT DEF ReleaseTick, Release, Freeze, PutResponse, UpdateReady
  <2>6. Pace'
    BY <1>13, SMT DEF ReleaseTick, Release, Freeze, PutResponse, UpdateReady
  <2> QED
    BY <2>1, <2>2, <2>3, <2>4, <2>5, <2>6
<1>14. CASE MetricsRaise
  <2>1. Types'
    <3>1. SlotTypes'
      BY <1>14, SMT DEF MetricsRaise
    <3>2. FlagTypes'
      BY <1>14, Zenon DEF MetricsRaise
    <3>3. Positions'
      BY <1>14, SMT DEF MetricsRaise
    <3>4. Counters'
      BY <1>14, SMT DEF MetricsRaise
    <3> QED
      BY <3>1, <3>2, <3>3, <3>4
  <2>2. LearnerSide'
    BY <1>14, SMT DEF MetricsRaise
  <2>3. CollectorSide'
    BY <1>14, SMT DEF MetricsRaise
  <2>4. Publication'
    BY <1>14, SMT DEF MetricsRaise
  <2>5. PolicyAge'
    BY <1>14, SMT DEF MetricsRaise
  <2>6. Pace'
    BY <1>14, SMT DEF MetricsRaise
  <2> QED
    BY <2>1, <2>2, <2>3, <2>4, <2>5, <2>6
<1>15. CASE Progress
  <2>1. Types'
    <3>1. SlotTypes'
      BY <1>15, SMT DEF Progress
    <3>2. FlagTypes'
      BY <1>15, SMT DEF Progress
    <3>3. Positions'
      BY <1>15, SMT DEF Progress
    <3>4. Counters'
      BY <1>15, SMT DEF Progress
    <3> QED
      BY <3>1, <3>2, <3>3, <3>4
  <2>2. LearnerSide'
    BY <1>15, SMT DEF Progress
  <2>3. CollectorSide'
    BY <1>15, SMT DEF Progress
  <2>4. Publication'
    BY <1>15, SMT DEF Progress
  <2>5. PolicyAge'
    BY <1>15, SMT DEF Progress
  <2>6. Pace'
    BY <1>15, SMT DEF Progress
  <2> QED
    BY <2>1, <2>2, <2>3, <2>4, <2>5, <2>6
<1>16. CASE AnotherTick
  <2>1. Types'
    <3>1. SlotTypes'
      BY <1>16, SMT DEF AnotherTick, UpdateDue, UpdateReady
    <3>2. FlagTypes'
      BY <1>16, SMT DEF AnotherTick, UpdateDue, UpdateReady
    <3>3. Positions'
      BY <1>16, SMT DEF AnotherTick, UpdateDue, UpdateReady
    <3>4. Counters'
      BY <1>16, SMT DEF AnotherTick, UpdateDue, UpdateReady
    <3> QED
      BY <3>1, <3>2, <3>3, <3>4
  <2>2. LearnerSide'
    BY <1>16, SMT DEF AnotherTick, UpdateDue, UpdateReady
  <2>3. CollectorSide'
    BY <1>16, SMT DEF AnotherTick, UpdateDue, UpdateReady
  <2>4. Publication'
    BY <1>16, SMT DEF AnotherTick, UpdateDue, UpdateReady
  <2>5. PolicyAge'
    BY <1>16, SMT DEF AnotherTick, UpdateDue, UpdateReady
  <2>6. Pace'
    BY <1>16, SMT DEF AnotherTick, UpdateDue, UpdateReady
  <2> QED
    BY <2>1, <2>2, <2>3, <2>4, <2>5, <2>6
<1>17. CASE BeginUpdate
  <2>1. Types'
    <3>1. SlotTypes'
      BY <1>17, SMT DEF BeginUpdate, UpdateDue, UpdateReady
    <3>2. FlagTypes'
      BY <1>17, Zenon DEF BeginUpdate, UpdateDue, UpdateReady
    <3>3. Positions'
      BY <1>17, SMT DEF BeginUpdate, UpdateDue, UpdateReady
    <3>4. Counters'
      BY <1>17, SMT DEF BeginUpdate, UpdateDue, UpdateReady
    <3> QED
      BY <3>1, <3>2, <3>3, <3>4
  <2>2. LearnerSide'
    BY <1>17, SMT DEF BeginUpdate, UpdateDue, UpdateReady
  <2>3. CollectorSide'
    BY <1>17, SMT DEF BeginUpdate, UpdateDue, UpdateReady
  <2>4. Publication'
    BY <1>17, SMT DEF BeginUpdate, UpdateDue, UpdateReady
  <2>5. PolicyAge'
    BY <1>17, SMT DEF BeginUpdate, UpdateDue, UpdateReady
  <2>6. Pace'
    BY <1>17, SMT DEF BeginUpdate, UpdateDue, UpdateReady
  <2> QED
    BY <2>1, <2>2, <2>3, <2>4, <2>5, <2>6
<1>18. CASE SampleAndPrefetch
  <2>1. Types'
    <3>1. SlotTypes'
      BY <1>18, SMT DEF SampleAndPrefetch
    <3>2. FlagTypes'
      BY <1>18, Zenon DEF SampleAndPrefetch
    <3>3. Positions'
      BY <1>18, SMT DEF SampleAndPrefetch
    <3>4. Counters'
      <4>1. CASE iteration < MaxIterations
        BY <1>18, <4>1, SMT DEF SampleAndPrefetch
      <4>2. CASE ~(iteration < MaxIterations)
        BY <1>18, <4>2, SMT DEF SampleAndPrefetch
      <4> QED
        BY <4>1, <4>2
    <3> QED
      BY <3>1, <3>2, <3>3, <3>4
  <2>2. LearnerSide'
    BY <1>18, SMT DEF SampleAndPrefetch
  <2>3. CollectorSide'
    BY <1>18, SMT DEF SampleAndPrefetch
  <2>4. Publication'
    <3>1. CASE iteration < MaxIterations
      BY <1>18, <3>1, SMT DEF SampleAndPrefetch
    <3>2. CASE ~(iteration < MaxIterations)
      BY <1>18, <3>2, SMT DEF SampleAndPrefetch
    <3> QED
      BY <3>1, <3>2
  <2>5. PolicyAge'
    BY <1>18, SMT DEF SampleAndPrefetch
  <2>6. Pace'
    BY <1>18, SMT DEF SampleAndPrefetch
  <2> QED
    BY <2>1, <2>2, <2>3, <2>4, <2>5, <2>6
<1>19. CASE BatchWaitFails
  <2>1. Types'
    <3>1. SlotTypes'
      BY <1>19, SMT DEF BatchWaitFails, Alive
    <3>2. FlagTypes'
      BY <1>19, SMT DEF BatchWaitFails, Alive
    <3>3. Positions'
      BY <1>19, SMT DEF BatchWaitFails, Alive
    <3>4. Counters'
      BY <1>19, SMT DEF BatchWaitFails, Alive
    <3> QED
      BY <3>1, <3>2, <3>3, <3>4
  <2>2. LearnerSide'
    BY <1>19, SMT DEF BatchWaitFails, Alive
  <2>3. CollectorSide'
    BY <1>19, SMT DEF BatchWaitFails, Alive
  <2>4. Publication'
    BY <1>19, SMT DEF BatchWaitFails, Alive
  <2>5. PolicyAge'
    BY <1>19, SMT DEF BatchWaitFails, Alive
  <2>6. Pace'
    BY <1>19, SMT DEF BatchWaitFails, Alive
  <2> QED
    BY <2>1, <2>2, <2>3, <2>4, <2>5, <2>6
<1>20. CASE FinishUpdate
  <2>1. Types'
    <3>1. SlotTypes'
      BY <1>20, SMT DEF FinishUpdate, UpdateReady
    <3>2. FlagTypes'
      BY <1>20, SMT DEF FinishUpdate, UpdateReady
    <3>3. Positions'
      BY <1>20, SMT DEF FinishUpdate, UpdateReady
    <3>4. Counters'
      BY <1>20, SMT DEF FinishUpdate, UpdateReady
    <3> QED
      BY <3>1, <3>2, <3>3, <3>4
  <2>2. LearnerSide'
    BY <1>20, SMT DEF FinishUpdate, UpdateReady
  <2>3. CollectorSide'
    BY <1>20, SMT DEF FinishUpdate, UpdateReady
  <2>4. Publication'
    BY <1>20, SMT DEF FinishUpdate, UpdateReady
  <2>5. PolicyAge'
    BY <1>20, SMT DEF FinishUpdate, UpdateReady
  <2>6. Pace'
    BY <1>20, SMT DEF FinishUpdate, UpdateReady
  <2> QED
    BY <2>1, <2>2, <2>3, <2>4, <2>5, <2>6
<1>21. CASE Close
  <2>1. Types'
    <3>1. SlotTypes'
      BY <1>21, SMT DEF Close
    <3>2. FlagTypes'
      BY <1>21, SMT DEF Close
    <3>3. Positions'
      BY <1>21, SMT DEF Close
    <3>4. Counters'
      BY <1>21, SMT DEF Close
    <3> QED
      BY <3>1, <3>2, <3>3, <3>4
  <2>2. LearnerSide'
    BY <1>21, SMT DEF Close
  <2>3. CollectorSide'
    BY <1>21, SMT DEF Close
  <2>4. Publication'
    BY <1>21, SMT DEF Close
  <2>5. PolicyAge'
    BY <1>21, SMT DEF Close
  <2>6. Pace'
    BY <1>21, SMT DEF Close
  <2> QED
    BY <2>1, <2>2, <2>3, <2>4, <2>5, <2>6
<1>22. CASE Reap
  <2>1. Types'
    <3>1. SlotTypes'
      BY <1>22, SMT DEF Reap, Alive
    <3>2. FlagTypes'
      BY <1>22, SMT DEF Reap, Alive
    <3>3. Positions'
      BY <1>22, SMT DEF Reap, Alive
    <3>4. Counters'
      BY <1>22, SMT DEF Reap, Alive
    <3> QED
      BY <3>1, <3>2, <3>3, <3>4
  <2>2. LearnerSide'
    BY <1>22, SMT DEF Reap, Alive
  <2>3. CollectorSide'
    BY <1>22, SMT DEF Reap, Alive
  <2>4. Publication'
    BY <1>22, SMT DEF Reap, Alive
  <2>5. PolicyAge'
    BY <1>22, SMT DEF Reap, Alive
  <2>6. Pace'
    BY <1>22, SMT DEF Reap, Alive
  <2> QED
    BY <2>1, <2>2, <2>3, <2>4, <2>5, <2>6
<1>23. CASE DaemonCommits
  <2>1. Types'
    <3>1. SlotTypes'
      BY <1>23, SMT DEF DaemonCommits
    <3>2. FlagTypes'
      BY <1>23, SMT DEF DaemonCommits
    <3>3. Positions'
      BY <1>23, SMT DEF DaemonCommits
    <3>4. Counters'
      BY <1>23, SMT DEF DaemonCommits
    <3> QED
      BY <3>1, <3>2, <3>3, <3>4
  <2>2. LearnerSide'
    BY <1>23, SMT DEF DaemonCommits
  <2>3. CollectorSide'
    BY <1>23, SMT DEF DaemonCommits
  <2>4. Publication'
    BY <1>23, SMT DEF DaemonCommits
  <2>5. PolicyAge'
    BY <1>23, SMT DEF DaemonCommits
  <2>6. Pace'
    BY <1>23, SMT DEF DaemonCommits
  <2> QED
    BY <2>1, <2>2, <2>3, <2>4, <2>5, <2>6
<1>24. CASE DaemonGathers
  <2>1. Types'
    <3>1. SlotTypes'
      BY <1>24, SMT DEF DaemonGathers
    <3>2. FlagTypes'
      BY <1>24, SMT DEF DaemonGathers
    <3>3. Positions'
      BY <1>24, SMT DEF DaemonGathers
    <3>4. Counters'
      BY <1>24, SMT DEF DaemonGathers
    <3> QED
      BY <3>1, <3>2, <3>3, <3>4
  <2>2. LearnerSide'
    BY <1>24, SMT DEF DaemonGathers
  <2>3. CollectorSide'
    BY <1>24, SMT DEF DaemonGathers
  <2>4. Publication'
    BY <1>24, SMT DEF DaemonGathers
  <2>5. PolicyAge'
    BY <1>24, SMT DEF DaemonGathers
  <2>6. Pace'
    BY <1>24, SMT DEF DaemonGathers
  <2> QED
    BY <2>1, <2>2, <2>3, <2>4, <2>5, <2>6
<1>25. CASE UNCHANGED exvars
  BY <1>25, SMT
<1> QED
  BY <1>1, <1>2, <1>3, <1>4, <1>5, <1>6, <1>7, <1>8, <1>9, <1>10, <1>11, <1>12, <1>13, <1>14, <1>15, <1>16,
       <1>17, <1>18, <1>19, <1>20, <1>21, <1>22, <1>23, <1>24, <1>25 DEF ExNext, Collector, LearnerThread,
            Daemon

LEMMA InvariantHolds == ExSpec => []IInv
  BY ExchangeBegins, StepHolds, PTL DEF ExSpec

-----------------------------------------------------------------------------
(* What the invariant says.                                                *)

\* Every variable of the exchange keeps its type (SharedInferenceSlot, the queues,
\* the counters of the scheduler), for any parameters.
THEOREM ExchangeTypes == ExSpec => []ExTypeOK
<1>1. IInv => ExTypeOK
  <2> SUFFICES ASSUME IInv PROVE ExTypeOK
    OBVIOUS
  <2>1. requests \in Seq(Nat) /\ Len(requests) <= 1
    BY AtMostOne DEF IInv, Types, Counters, LearnerSide
  <2>2. responses \in Seq(Nat) /\ Len(responses) <= 1
    BY AtMostOne DEF IInv, Types, Counters, LearnerSide
  <2> QED
    BY <2>1, <2>2, Zenon DEF ExTypeOK, IInv, Types, SlotTypes, SlotRecords, SlotStates, OrNone,
       FlagTypes, Positions, Counters
<1> QED
  BY <1>1, InvariantHolds, PTL

\* Whoever comes to the slot or to a queue finds the state and the tick it asks for,
\* the rows a batch waits for have been published, an action is at most one update
\* old, and updates keep their ratio to ticks: for any number of ticks per update,
\* threshold and number of iterations, whatever happens to the collector.
THEOREM ExchangeIsSound == ExSpec => []SlotExchangeSound
<1>1. ASSUME IInv PROVE SlotExchangeSound
  <2> USE <1>1 DEF IInv, Types, Counters, Positions
  <2>1. ExchangeInStep
    BY SMT DEF ExchangeInStep, LearnerSide, CollectorSide, Serving
  <2>2. BoundaryPublished
    BY DEF BoundaryPublished, Publication
  <2>3. AtMostOneUpdateBehind
    BY SMT DEF AtMostOneUpdateBehind, PolicyAge, AsOldAs
  <2>4. RatioKept
    BY SMT DEF RatioKept, Pace
  <2> QED
    BY <2>1, <2>2, <2>3, <2>4 DEF SlotExchangeSound
<1> QED
  BY <1>1, InvariantHolds, PTL

------------------------------------------------------------------------------
(***************************************************************************)
(* The APPO pair, whatever becomes of its collector.                       *)
(***************************************************************************)
USE ApNumSlotsAssumption, ParamsAssumption, PoolSizeAssumption

\* The two pointers: a drain that was counted stays behind the write pointer.
Pointers ==
    /\ apWritePtr \in Nat /\ apReadPtr \in Nat /\ apTodo \in 0 .. ApNumSlots
    /\ apReadPtr + apTodo <= apWritePtr
    /\ IF apPhase \in {"ready", "copying"} THEN apTodo > 0 ELSE apTodo = 0

\* Between a drain and the publication of a network that network owes an update.
Owes(m) ==
    \/ apLearner \in {"metricsAgain", "training", "publishActor"}
    \/ apLearner = "publishCritic" /\ m = "critic"

Updates ==
    /\ apVersion \in [Weights!Nets -> Nat]
    /\ \A m \in Weights!Nets :
         IF Owes(m) THEN apVersion[m] <= apReadPtr ELSE apVersion[m] <= apReadPtr + 1

\* PoolHoldsNewest, and what keeps it: the cursor is the first unused slot, and no
\* staged rollout is ahead of the read pointer.
Pool ==
    /\ pool \in [PoolSlots -> Nat] /\ nextSlot \in PoolSlots /\ active \in 0 .. PoolSize
    /\ active < PoolSize => nextSlot = active
    /\ \A i \in PoolSlots : pool[i] <= apReadPtr
    /\ PoolHoldsNewest

\* A published network is of one version, one being published of two.
WholeRead(m) ==
    /\ apVersion[m] >= 1
    /\ \A n \in Weights!Names :
         shared[m][n] = IF n < writing[m] THEN apVersion[m] + 1 ELSE apVersion[m]

Published ==
    /\ writing \in [Weights!Nets -> 0 .. Params + 1]
    /\ shared \in [Weights!Nets -> [Weights!Names -> Nat]]
    /\ \A m \in Weights!Nets : WholeRead(m)

\* Nothing is drained, trained on or published before the first rollout, and the
\* collector loads its networks before it collects one.
BeforeFirstRollout ==
    /\ apWritePtr = 0 =>
         /\ apLearner \notin {"draining", "metricsAgain", "training", "publishActor", "publishCritic"}
         /\ \A m \in Weights!Nets : apVersion[m] = 1 /\ writing[m] = 0
    /\ apCollector \in {"loadActor", "loadCritic"} => apWritePtr = 0

\* What the collector holds of a network it has read up to some parameter.
CopiedBy(m) ==
    /\ local[m] <= apVersion[m]
    /\ reading[m] > 0 =>
         /\ apVersion[m] > local[m]
         /\ \A n \in Weights!Names : n < reading[m] => held[m][n] > local[m]
         /\ local[m] = 0 => \A n \in Weights!Names : n < reading[m] => held[m][n] = 1
    /\ local[m] = 1 /\ reading[m] = 0 => \A n \in Weights!Names : held[m][n] = 1

Loaded ==
    /\ reading \in [Weights!Nets -> 0 .. Params + 1]
    /\ held \in [Weights!Nets -> [Weights!Names -> Nat]] /\ local \in [Weights!Nets -> Nat]
    /\ apCollector = "loadActor" => local["actor"] = 0
    /\ apCollector \in {"loadActor", "loadCritic"} => local["critic"] = 0
    /\ apCollector \notin {"loadActor"} \cup Gone => local["actor"] >= 1
    /\ apCollector \notin {"loadActor", "loadCritic"} \cup Gone => local["critic"] >= 1
    /\ \A m \in Weights!Nets : CopiedBy(m)

Inv == Pointers /\ Updates /\ Pool /\ Published /\ BeforeFirstRollout /\ Loaded

-----------------------------------------------------------------------------
(* The cursor of the staging pool                                              *)

\* The slot after i: the next one, or the first.
LEMMA After ==
  ASSUME NEW i \in PoolSlots
  PROVE  (i + 1) % PoolSize = IF i + 1 = PoolSize THEN 0 ELSE i + 1
<1> DEFINE q == (i + 1) \div PoolSize
           r == (i + 1) % PoolSize
<1>1. i \in 0 .. PoolSize - 1 /\ i + 1 \in Nat
  BY DEF PoolSlots
<1>2. q \in Nat /\ r \in 0 .. PoolSize - 1 /\ i + 1 = PoolSize * q + r
  BY <1>1
<1>3. PoolSize * q \in Nat
  BY <1>2
<1>4. r = IF i + 1 = PoolSize THEN 0 ELSE i + 1
  <2> HIDE DEF q, r
  <2>1. CASE q = 0
    <3>1. i + 1 = r
      BY <1>2, <2>1
    <3> QED BY <1>1, <1>2, <3>1
  <2>2. CASE q = 1
    BY <1>1, <1>2, <2>2
  <2>3. CASE q >= 2
    <3>1. PICK d \in Nat : q = d + 2
      <4>1. q - 2 \in Nat /\ q = (q - 2) + 2
        BY <1>2, <2>3
      <4> QED BY <4>1
    <3>2. PoolSize * q = PoolSize * d + PoolSize * 2 /\ PoolSize * d \in Nat
      BY <3>1
    <3> QED BY <1>1, <1>2, <1>3, <3>2
  <2> QED BY <1>2, <2>1, <2>2, <2>3
<1> QED BY <1>4

-----------------------------------------------------------------------------
(* The steps of the two copies of a network, apart from who takes them         *)

LEMMA ParamTypes ==
  ASSUME Updates, Published, Loaded
  PROVE  /\ Params \in Nat /\ Weights!Names = 1 .. Params
         /\ apVersion \in [Weights!Nets -> Nat]
         /\ writing \in [Weights!Nets -> 0 .. Params + 1]
         /\ shared \in [Weights!Nets -> [Weights!Names -> Nat]]
         /\ reading \in [Weights!Nets -> 0 .. Params + 1]
         /\ held \in [Weights!Nets -> [Weights!Names -> Nat]]
         /\ local \in [Weights!Nets -> Nat]
  BY DEF Updates, Published, Loaded, Weights!Names

\* Writing a parameter or the version leaves a network of one or of two versions.
LEMMA WritingKeepsPublished ==
  ASSUME Updates, Published, Loaded, NEW m \in Weights!Nets,
         Weights!BeginWrite(m) \/ Weights!WriteParam(m) \/ Weights!BumpVersion(m)
  PROVE  Published'
<1> SUFFICES /\ writing' \in [Weights!Nets -> 0 .. Params + 1]
             /\ shared' \in [Weights!Nets -> [Weights!Names -> Nat]]
             /\ \A w \in Weights!Nets : WholeRead(w)'
  BY DEF Published
<1> USE ParamTypes
<1>0. \A w \in Weights!Nets : WholeRead(w)
  BY DEF Published
<1>1. CASE Weights!BeginWrite(m)
  <2>1. writing' = [writing EXCEPT ![m] = 1] /\ writing[m] = 0 /\ shared' = shared /\ apVersion' = apVersion
    BY <1>1 DEF Weights!BeginWrite
  <2> QED BY <1>0, <2>1 DEF WholeRead
<1>2. CASE Weights!WriteParam(m)
  <2> DEFINE k == writing[m]
  <2>1. /\ k \in 1 .. Params /\ writing' = [writing EXCEPT ![m] = k + 1] /\ apVersion' = apVersion
        /\ shared' = [shared EXCEPT ![m] = [shared[m] EXCEPT ![k] = apVersion[m] + 1]]
    BY <1>2 DEF Weights!WriteParam
  <2>2. ASSUME NEW w \in Weights!Nets, NEW n \in Weights!Names
        PROVE  shared'[w][n] = IF w = m /\ n = k THEN apVersion[m] + 1 ELSE shared[w][n]
    BY <2>1
  <2>3. shared' \in [Weights!Nets -> [Weights!Names -> Nat]]
    <3>1. [shared[m] EXCEPT ![k] = apVersion[m] + 1] \in [Weights!Names -> Nat]
      BY <2>1
    <3> QED BY <2>1, <3>1
  <2>4. writing' \in [Weights!Nets -> 0 .. Params + 1]
    BY <2>1
  <2>5. ASSUME NEW w \in Weights!Nets PROVE WholeRead(w)'
    <3>1. CASE w = m
      BY <1>0, <2>1, <2>2, <3>1 DEF WholeRead
    <3>2. CASE w # m
      <4>1. writing'[w] = writing[w] /\ apVersion'[w] = apVersion[w]
        BY <2>1, <3>2
      <4> QED BY <1>0, <2>2, <3>2, <4>1 DEF WholeRead
    <3> QED BY <3>1, <3>2
  <2> QED BY <2>3, <2>4, <2>5
<1>3. CASE Weights!BumpVersion(m)
  <2>1. /\ writing[m] = Params + 1 /\ writing' = [writing EXCEPT ![m] = 0] /\ shared' = shared
        /\ apVersion' = [apVersion EXCEPT ![m] = apVersion[m] + 1]
    BY <1>3 DEF Weights!BumpVersion
  <2>2. ASSUME NEW w \in Weights!Nets PROVE WholeRead(w)'
    <3>1. CASE w = m
      BY <1>0, <2>1, <3>1 DEF WholeRead
    <3>2. CASE w # m
      BY <1>0, <2>1, <3>2 DEF WholeRead
    <3> QED BY <3>1, <3>2
  <2> QED BY <2>1, <2>2
<1> QED BY <1>1, <1>2, <1>3

\* ... and what a reader holds is untouched.
LEMMA WritingKeepsLoaded ==
  ASSUME Updates, Published, Loaded, NEW m \in Weights!Nets,
         Weights!BeginWrite(m) \/ Weights!WriteParam(m) \/ Weights!BumpVersion(m),
         apCollector' = apCollector
  PROVE  Loaded'
<1>1. held' = held /\ local' = local /\ reading' = reading
  BY DEF Weights!BeginWrite, Weights!WriteParam, Weights!BumpVersion, Weights!readVars
<1>2. apVersion' = apVersion \/ apVersion' = [apVersion EXCEPT ![m] = apVersion[m] + 1]
  BY DEF Weights!BeginWrite, Weights!WriteParam, Weights!BumpVersion
<1>3. ASSUME NEW w \in Weights!Nets PROVE apVersion'[w] \in Nat /\ apVersion'[w] >= apVersion[w]
  <2>1. apVersion[w] \in Nat /\ apVersion[m] \in Nat
    BY ParamTypes
  <2>2. apVersion'[w] = apVersion[w] \/ apVersion'[w] = apVersion[w] + 1
    BY <1>2, ParamTypes
  <2> QED BY <2>1, <2>2
<1>4. ASSUME NEW w \in Weights!Nets PROVE CopiedBy(w)'
  <2>1. CopiedBy(w)
    BY DEF Loaded
  <2> QED BY <1>1, <1>3, <2>1, ParamTypes DEF CopiedBy
<1> QED BY <1>1, <1>4 DEF Loaded

\* A reader begins a network only when there is a newer version.
LEMMA BeginningKeepsLoaded ==
  ASSUME Updates, Published, Loaded, NEW m \in Weights!Nets, Weights!BeginRead(m), Weights!Newer(m),
         apCollector' = apCollector
  PROVE  Loaded'
<1>1. /\ held' = held /\ local' = local /\ reading' = [reading EXCEPT ![m] = 1]
      /\ apVersion' = apVersion /\ reading[m] = 0
  BY DEF Weights!BeginRead, Weights!writeVars
<1>2. reading' \in [Weights!Nets -> 0 .. Params + 1]
  BY <1>1, ParamTypes
<1>3. ASSUME NEW w \in Weights!Nets PROVE CopiedBy(w)'
  <2>1. CopiedBy(w)
    BY DEF Loaded
  <2>2. CASE w = m
    <3>1. reading'[w] = 1 /\ apVersion[w] > local[w] /\ \A n \in Weights!Names : ~(n < 1)
      BY <1>1, <2>2, ParamTypes DEF Weights!Newer
    <3> QED BY <1>1, <2>1, <3>1 DEF CopiedBy
  <2>3. CASE w # m
    BY <1>1, <2>1, <2>3, ParamTypes DEF CopiedBy
  <2> QED BY <2>2, <2>3
<1> QED BY <1>1, <1>2, <1>3 DEF Loaded

\* What a reader takes of a parameter is newer than the version it had.  Nothing has
\* been published while it takes the first copies.
LEMMA ReadingKeepsLoaded ==
  ASSUME Updates, Published, Loaded, NEW m \in Weights!Nets, Weights!ReadParam(m),
         local[m] = 0 => apVersion[m] = 1 /\ writing[m] = 0,
         apCollector' = apCollector
  PROVE  Loaded'
<1> USE ParamTypes
<1> DEFINE k == reading[m]
<1>1. /\ k \in 1 .. Params /\ reading' = [reading EXCEPT ![m] = k + 1]
      /\ local' = local /\ apVersion' = apVersion
      /\ held' = [held EXCEPT ![m] = [held[m] EXCEPT ![k] = shared[m][k]]]
  BY DEF Weights!ReadParam, Weights!writeVars
<1>2. ASSUME NEW w \in Weights!Nets, NEW n \in Weights!Names
      PROVE  held'[w][n] = IF w = m /\ n = k THEN shared[m][k] ELSE held[w][n]
  BY <1>1
<1>3. CopiedBy(m) /\ WholeRead(m)
  BY DEF Published, Loaded
<1>4. /\ shared[m][k] \in Nat /\ shared[m][k] >= apVersion[m] /\ apVersion[m] > local[m]
      /\ local[m] = 0 => shared[m][k] = 1
  BY <1>1, <1>3 DEF CopiedBy, WholeRead
<1>5. held' \in [Weights!Nets -> [Weights!Names -> Nat]] /\ reading' \in [Weights!Nets -> 0 .. Params + 1]
  <2>1. [held[m] EXCEPT ![k] = shared[m][k]] \in [Weights!Names -> Nat]
    BY <1>1, <1>4
  <2> QED BY <1>1, <2>1
<1>6. ASSUME NEW w \in Weights!Nets PROVE CopiedBy(w)'
  <2>1. CASE w = m
    <3>0. ASSUME NEW n \in Weights!Names, n < k + 1
          PROVE  held'[m][n] > local[m] /\ (local[m] = 0 => held'[m][n] = 1)
      <4>1. CASE n = k
        BY <1>2, <1>4, <4>1
      <4>2. CASE n < k
        <5>0. n \in 1 .. Params /\ k \in 1 .. Params
          BY <1>1
        <5>1. k > 0 /\ n # k
          <6> HIDE DEF k
          <6> QED BY <4>2, <5>0
        <5>2. held[m][n] > local[m] /\ (local[m] = 0 => held[m][n] = 1)
          BY <1>3, <4>2, <5>1 DEF CopiedBy
        <5> QED BY <1>2, <5>1, <5>2
      <4> QED BY <1>1, <3>0, <4>1, <4>2
    <3>1. \A n \in Weights!Names : n < k + 1 => held'[m][n] > local[m]
      BY <3>0
    <3>2. local[m] = 0 => \A n \in Weights!Names : n < k + 1 => held'[m][n] = 1
      BY <3>0
    <3>3. reading'[m] = k + 1 /\ k + 1 > 0 /\ local[m] <= apVersion[m]
      BY <1>1, <1>4
    <3> QED BY <1>1, <1>4, <2>1, <3>1, <3>2, <3>3 DEF CopiedBy
  <2>2. CASE w # m
    <3>1. CopiedBy(w) /\ reading'[w] = reading[w] /\ \A n \in Weights!Names : held'[w][n] = held[w][n]
      BY <1>1, <1>2, <2>2 DEF Loaded
    <3> QED BY <1>1, <3>1 DEF CopiedBy
  <2> QED BY <2>1, <2>2
<1> QED BY <1>1, <1>5, <1>6 DEF Loaded

\* The version it then remembers is at least 1, and every parameter it holds is newer
\* than the one it remembered.
LEMMA RememberingKeepsCopies ==
  ASSUME Updates, Published, Loaded, NEW m \in Weights!Nets, Weights!ReadVersion(m)
  PROVE  /\ reading' \in [Weights!Nets -> 0 .. Params + 1] /\ held' = held
         /\ local' \in [Weights!Nets -> Nat] /\ local'[m] >= 1
         /\ \A w \in Weights!Nets \ {m} : local'[w] = local[w]
         /\ \A n \in Weights!Names : held[m][n] > local[m]
         /\ \A w \in Weights!Nets : CopiedBy(w)'
<1> USE ParamTypes
<1>1. /\ reading[m] = Params + 1 /\ reading' = [reading EXCEPT ![m] = 0]
      /\ local' = [local EXCEPT ![m] = apVersion[m]] /\ held' = held /\ apVersion' = apVersion
  BY DEF Weights!ReadVersion, Weights!writeVars
<1>2. CopiedBy(m) /\ WholeRead(m) /\ \A n \in Weights!Names : n < reading[m]
  BY <1>1 DEF Published, Loaded
<1>3. /\ \A n \in Weights!Names : held[m][n] > local[m]
      /\ apVersion[m] >= 1 /\ apVersion[m] > local[m]
      /\ local[m] = 0 => \A n \in Weights!Names : held[m][n] = 1
  BY <1>1, <1>2 DEF CopiedBy, WholeRead
<1>4. /\ local' \in [Weights!Nets -> Nat] /\ local'[m] = apVersion[m] /\ reading'[m] = 0
      /\ reading' \in [Weights!Nets -> 0 .. Params + 1]
      /\ \A w \in Weights!Nets \ {m} : local'[w] = local[w] /\ reading'[w] = reading[w]
  BY <1>1
<1>5. ASSUME NEW w \in Weights!Nets PROVE CopiedBy(w)'
  <2>1. CASE w = m
    <3>1. apVersion[m] = 1 => \A n \in Weights!Names : held[m][n] = 1
      BY <1>3
    <3> QED BY <1>1, <1>4, <2>1, <3>1 DEF CopiedBy
  <2>2. CASE w # m
    <3>1. CopiedBy(w)
      BY DEF Loaded
    <3> QED BY <1>1, <1>4, <2>2, <3>1 DEF CopiedBy
  <2> QED BY <2>1, <2>2
<1> QED BY <1>1, <1>3, <1>4, <1>5

-----------------------------------------------------------------------------
(* Each action of the collector and of the learner                             *)

LEMMA Pointers_Step == ASSUME Inv, ApNext PROVE Pointers'
<1> USE DEF Inv, Pointers,
        Ring!FillPiece, Ring!SignalWriteDone, Ring!ClampForCount, Ring!Count, Ring!BorrowViews,
        Ring!CopyPiece, Ring!AdvanceRead,
        Ring!Clamped, Ring!Larger, Ring!Smaller, Ring!OldestAvailable, Ring!Available, Ring!Advanced,
        Ring!writerVars, Ring!readerVars,
        Weights!BeginRead, Weights!ReadParam, Weights!ReadVersion, Weights!Newer, Weights!BeginWrite,
        Weights!WriteParam, Weights!BumpVersion,
        Weights!writeVars, Weights!readVars, Weights!Nets, Weights!Names,
        ringVars, weightVars, processVars, poolVars, apLearnerVars
<1>1. ASSUME LoadInitial PROVE Pointers'
  BY <1>1 DEF LoadInitial, Pull, Goto
<1>2. ASSUME ApLoopHead PROVE Pointers'
  BY <1>2 DEF ApLoopHead, Goto
<1>3. ASSUME ApCollect PROVE Pointers'
  BY <1>3 DEF ApCollect, Goto
<1>4. ASSUME Refresh("actor", "critic") PROVE Pointers'
  BY <1>4 DEF Refresh, Pull, Goto
<1>5. ASSUME Refresh("critic", "collecting") PROVE Pointers'
  BY <1>5 DEF Refresh, Pull, Goto
<1>6. ASSUME ApCollectorFails PROVE Pointers'
  BY <1>6 DEF ApCollectorFails
<1>7. ASSUME ApCollectorKilled PROVE Pointers'
  BY <1>7 DEF ApCollectorKilled, Goto
<1>8. ASSUME DrainMetrics PROVE Pointers'
  BY <1>8 DEF DrainMetrics, ApAt
<1>9. ASSUME Poll PROVE Pointers'
  BY <1>9 DEF Poll
<1>10. ASSUME CheckAlive PROVE Pointers'
  BY <1>10 DEF CheckAlive, ApAt
<1>11. ASSUME NextSlice PROVE Pointers'
  BY <1>11 DEF NextSlice, ApAt
<1>12. ASSUME Timeout PROVE Pointers'
  BY <1>12 DEF Timeout, AfterTimeout, NextIteration, Finished
<1>13. ASSUME Drain PROVE Pointers'
  BY <1>13 DEF Drain, Stage
<1>14. ASSUME ApTrain PROVE Pointers'
  BY <1>14 DEF ApTrain, ApAt
<1>15. ASSUME PublishActor PROVE Pointers'
  BY <1>15 DEF PublishActor, ApPublish, PublishStep, ApAt
<1>16. ASSUME PublishCritic PROVE Pointers'
  BY <1>16 DEF PublishCritic, ApPublish, PublishStep, NextIteration, Finished
<1>17. ASSUME ApClose PROVE Pointers'
  BY <1>17 DEF ApClose, ApAt
<1>18. ASSUME ApReap PROVE Pointers'
  BY <1>18 DEF ApReap, ApAt
<1> QED
  BY <1>1, <1>2, <1>3, <1>4, <1>5, <1>6, <1>7, <1>8, <1>9, <1>10,
     <1>11, <1>12, <1>13, <1>14, <1>15, <1>16, <1>17, <1>18, Zenon DEF ApNext, ApCollector, ApLearner

LEMMA Updates_Step == ASSUME Inv, ApNext PROVE Updates'
<1> USE DEF Inv, Pointers, Updates, Owes,
        Ring!FillPiece, Ring!SignalWriteDone, Ring!ClampForCount, Ring!Count, Ring!BorrowViews,
        Ring!CopyPiece, Ring!AdvanceRead,
        Ring!Clamped, Ring!Larger, Ring!Smaller, Ring!OldestAvailable, Ring!Available, Ring!Advanced,
        Ring!writerVars, Ring!readerVars,
        Weights!BeginRead, Weights!ReadParam, Weights!ReadVersion, Weights!Newer, Weights!BeginWrite,
        Weights!WriteParam, Weights!BumpVersion,
        Weights!writeVars, Weights!readVars, Weights!Nets, Weights!Names,
        ringVars, weightVars, processVars, poolVars, apLearnerVars
<1>1. ASSUME LoadInitial PROVE Updates'
  BY <1>1 DEF LoadInitial, Pull, Goto
<1>2. ASSUME ApLoopHead PROVE Updates'
  BY <1>2 DEF ApLoopHead, Goto
<1>3. ASSUME ApCollect PROVE Updates'
  BY <1>3 DEF ApCollect, Goto
<1>4. ASSUME Refresh("actor", "critic") PROVE Updates'
  BY <1>4 DEF Refresh, Pull, Goto
<1>5. ASSUME Refresh("critic", "collecting") PROVE Updates'
  BY <1>5 DEF Refresh, Pull, Goto
<1>6. ASSUME ApCollectorFails PROVE Updates'
  BY <1>6 DEF ApCollectorFails
<1>7. ASSUME ApCollectorKilled PROVE Updates'
  BY <1>7 DEF ApCollectorKilled, Goto
<1>8. ASSUME DrainMetrics PROVE Updates'
  BY <1>8 DEF DrainMetrics, ApAt
<1>9. ASSUME Poll PROVE Updates'
  BY <1>9 DEF Poll
<1>10. ASSUME CheckAlive PROVE Updates'
  BY <1>10 DEF CheckAlive, ApAt
<1>11. ASSUME NextSlice PROVE Updates'
  BY <1>11 DEF NextSlice, ApAt
<1>12. ASSUME Timeout PROVE Updates'
  BY <1>12 DEF Timeout, AfterTimeout, NextIteration, Finished
<1>13. ASSUME Drain PROVE Updates'
  BY <1>13 DEF Drain, Stage
<1>14. ASSUME ApTrain PROVE Updates'
  BY <1>14 DEF ApTrain, ApAt
<1>15. ASSUME PublishActor PROVE Updates'
  BY <1>15 DEF PublishActor, ApPublish, PublishStep, ApAt
<1>16. ASSUME PublishCritic PROVE Updates'
  BY <1>16 DEF PublishCritic, ApPublish, PublishStep, NextIteration, Finished
<1>17. ASSUME ApClose PROVE Updates'
  BY <1>17 DEF ApClose, ApAt
<1>18. ASSUME ApReap PROVE Updates'
  BY <1>18 DEF ApReap, ApAt
<1> QED
  BY <1>1, <1>2, <1>3, <1>4, <1>5, <1>6, <1>7, <1>8, <1>9, <1>10,
     <1>11, <1>12, <1>13, <1>14, <1>15, <1>16, <1>17, <1>18, Zenon DEF ApNext, ApCollector, ApLearner

LEMMA Pool_Drain == ASSUME Inv, Drain PROVE Pool'
<1> USE DEF Inv, Pool, Pointers
<1>0. apWritePtr' = apWritePtr /\ apReadPtr' \in Nat /\ apReadPtr' >= apReadPtr
  BY DEF Drain, Ring!BorrowViews, Ring!CopyPiece, Ring!AdvanceRead, Ring!Advanced, Ring!Clamped,
         Ring!Larger, Ring!Smaller, Ring!OldestAvailable, Ring!writerVars
<1>1. CASE UNCHANGED poolVars
  BY <1>0, <1>1 DEF poolVars, PoolHoldsNewest
<1>2. CASE Ring!AdvanceRead /\ Stage
  <2>0. apReadPtr' \in Nat /\ apReadPtr' >= apReadPtr + 1
    BY <1>2 DEF Ring!AdvanceRead, Ring!Advanced, Ring!Larger, Ring!Smaller, Ring!OldestAvailable
  <2>1. /\ pool' = [pool EXCEPT ![nextSlot] = apReadPtr + 1]
        /\ nextSlot' = (nextSlot + 1) % PoolSize
        /\ active' = IF active + 1 <= PoolSize THEN active + 1 ELSE PoolSize
    BY <1>2 DEF Stage, NextStagingSlot, Ring!Smaller
  <2>2. \A i \in PoolSlots : (i + 1) % PoolSize = IF i + 1 = PoolSize THEN 0 ELSE i + 1
    BY After
  <2>3. nextSlot' = IF nextSlot + 1 = PoolSize THEN 0 ELSE nextSlot + 1
    BY <2>1, <2>2
  <2>4. \A i \in PoolSlots : pool'[i] = IF i = nextSlot THEN apReadPtr + 1 ELSE pool[i]
    BY <2>1
  <2>5. /\ pool' \in [PoolSlots -> Nat] /\ nextSlot' \in PoolSlots /\ active' \in 0 .. PoolSize
        /\ active' < PoolSize => nextSlot' = active'
    BY <2>1, <2>3 DEF PoolSlots
  <2>6. \A i \in PoolSlots : pool'[i] <= apReadPtr'
    BY <2>0, <2>4
  <2>7. \A i \in PoolSlots : (pool'[i] # 0) <=> (i < active')
    BY <2>1, <2>4 DEF PoolHoldsNewest, PoolSlots
  <2>8. ASSUME NEW i \in PoolSlots,
               (i + 1) % PoolSize # nextSlot', pool'[(i + 1) % PoolSize] # 0
        PROVE  pool'[i] < pool'[(i + 1) % PoolSize]
    <3> DEFINE next == (i + 1) % PoolSize
    <3>1. next \in PoolSlots /\ next = IF i + 1 = PoolSize THEN 0 ELSE i + 1
      BY <2>2 DEF PoolSlots
    <3>2. i # nextSlot
      BY <2>1, <2>8
    <3>3. pool'[i] = pool[i] /\ pool[i] <= apReadPtr /\ pool[i] \in Nat
      BY <2>4, <3>2
    <3>4. CASE next = nextSlot
      BY <2>4, <3>1, <3>3, <3>4
    <3>5. CASE next # nextSlot
      <4>1. pool'[next] = pool[next] /\ pool[next] # 0
        BY <2>4, <2>8, <3>1, <3>5
      <4> QED BY <3>3, <3>5, <4>1 DEF PoolHoldsNewest
    <3> QED BY <3>4, <3>5
  <2> QED BY <2>5, <2>6, <2>7, <2>8 DEF PoolHoldsNewest
<1> QED
  BY <1>1, <1>2 DEF Drain, Ring!BorrowViews, Ring!CopyPiece, poolVars

LEMMA Pool_Step == ASSUME Inv, ApNext PROVE Pool'
<1> USE DEF Inv, Pointers, Pool, PoolHoldsNewest, PoolSlots,
        Ring!FillPiece, Ring!SignalWriteDone, Ring!ClampForCount, Ring!Count, Ring!BorrowViews,
        Ring!CopyPiece, Ring!AdvanceRead,
        Ring!Clamped, Ring!Larger, Ring!Smaller, Ring!OldestAvailable, Ring!Available, Ring!Advanced,
        Ring!writerVars, Ring!readerVars,
        Weights!BeginRead, Weights!ReadParam, Weights!ReadVersion, Weights!Newer, Weights!BeginWrite,
        Weights!WriteParam, Weights!BumpVersion,
        Weights!writeVars, Weights!readVars, Weights!Nets, Weights!Names,
        ringVars, weightVars, processVars, poolVars, apLearnerVars
<1>1. ASSUME LoadInitial PROVE Pool'
  BY <1>1 DEF LoadInitial, Pull, Goto
<1>2. ASSUME ApLoopHead PROVE Pool'
  BY <1>2 DEF ApLoopHead, Goto
<1>3. ASSUME ApCollect PROVE Pool'
  BY <1>3 DEF ApCollect, Goto
<1>4. ASSUME Refresh("actor", "critic") PROVE Pool'
  BY <1>4 DEF Refresh, Pull, Goto
<1>5. ASSUME Refresh("critic", "collecting") PROVE Pool'
  BY <1>5 DEF Refresh, Pull, Goto
<1>6. ASSUME ApCollectorFails PROVE Pool'
  BY <1>6 DEF ApCollectorFails
<1>7. ASSUME ApCollectorKilled PROVE Pool'
  BY <1>7 DEF ApCollectorKilled, Goto
<1>8. ASSUME DrainMetrics PROVE Pool'
  BY <1>8 DEF DrainMetrics, ApAt
<1>9. ASSUME Poll PROVE Pool'
  BY <1>9 DEF Poll
<1>10. ASSUME CheckAlive PROVE Pool'
  BY <1>10 DEF CheckAlive, ApAt
<1>11. ASSUME NextSlice PROVE Pool'
  BY <1>11 DEF NextSlice, ApAt
<1>12. ASSUME Timeout PROVE Pool'
  BY <1>12 DEF Timeout, AfterTimeout, NextIteration, Finished
<1>13. ASSUME Drain PROVE Pool'
  BY <1>13, Pool_Drain, Zenon
<1>14. ASSUME ApTrain PROVE Pool'
  BY <1>14 DEF ApTrain, ApAt
<1>15. ASSUME PublishActor PROVE Pool'
  BY <1>15 DEF PublishActor, ApPublish, PublishStep, ApAt
<1>16. ASSUME PublishCritic PROVE Pool'
  BY <1>16 DEF PublishCritic, ApPublish, PublishStep, NextIteration, Finished
<1>17. ASSUME ApClose PROVE Pool'
  BY <1>17 DEF ApClose, ApAt
<1>18. ASSUME ApReap PROVE Pool'
  BY <1>18 DEF ApReap, ApAt
<1> QED
  BY <1>1, <1>2, <1>3, <1>4, <1>5, <1>6, <1>7, <1>8, <1>9, <1>10,
     <1>11, <1>12, <1>13, <1>14, <1>15, <1>16, <1>17, <1>18, Zenon DEF ApNext, ApCollector, ApLearner

LEMMA Published_PublishActor == ASSUME Inv, PublishActor PROVE Published'
<1>1. CASE \E m \in Weights!Nets : Weights!BeginWrite(m) \/ Weights!WriteParam(m) \/ Weights!BumpVersion(m)
  BY <1>1, WritingKeepsPublished DEF Inv
<1> QED BY <1>1 DEF PublishActor, ApPublish, PublishStep, Weights!Nets

LEMMA Published_PublishCritic == ASSUME Inv, PublishCritic PROVE Published'
<1>1. CASE \E m \in Weights!Nets : Weights!BeginWrite(m) \/ Weights!WriteParam(m) \/ Weights!BumpVersion(m)
  BY <1>1, WritingKeepsPublished DEF Inv
<1> QED BY <1>1 DEF PublishCritic, ApPublish, PublishStep, Weights!Nets

LEMMA Published_Step == ASSUME Inv, ApNext PROVE Published'
<1> USE DEF Inv, Published, WholeRead,
        Ring!FillPiece, Ring!SignalWriteDone, Ring!ClampForCount, Ring!Count, Ring!BorrowViews,
        Ring!CopyPiece, Ring!AdvanceRead,
        Ring!Clamped, Ring!Larger, Ring!Smaller, Ring!OldestAvailable, Ring!Available, Ring!Advanced,
        Ring!writerVars, Ring!readerVars,
        Weights!BeginRead, Weights!ReadParam, Weights!ReadVersion, Weights!Newer, Weights!BeginWrite,
        Weights!WriteParam, Weights!BumpVersion,
        Weights!writeVars, Weights!readVars, Weights!Nets, Weights!Names,
        ringVars, weightVars, processVars, poolVars, apLearnerVars
<1>1. ASSUME LoadInitial PROVE Published'
  BY <1>1 DEF LoadInitial, Pull, Goto
<1>2. ASSUME ApLoopHead PROVE Published'
  BY <1>2 DEF ApLoopHead, Goto
<1>3. ASSUME ApCollect PROVE Published'
  BY <1>3 DEF ApCollect, Goto
<1>4. ASSUME Refresh("actor", "critic") PROVE Published'
  BY <1>4 DEF Refresh, Pull, Goto
<1>5. ASSUME Refresh("critic", "collecting") PROVE Published'
  BY <1>5 DEF Refresh, Pull, Goto
<1>6. ASSUME ApCollectorFails PROVE Published'
  BY <1>6 DEF ApCollectorFails
<1>7. ASSUME ApCollectorKilled PROVE Published'
  BY <1>7 DEF ApCollectorKilled, Goto
<1>8. ASSUME DrainMetrics PROVE Published'
  BY <1>8 DEF DrainMetrics, ApAt
<1>9. ASSUME Poll PROVE Published'
  BY <1>9 DEF Poll
<1>10. ASSUME CheckAlive PROVE Published'
  BY <1>10 DEF CheckAlive, ApAt
<1>11. ASSUME NextSlice PROVE Published'
  BY <1>11 DEF NextSlice, ApAt
<1>12. ASSUME Timeout PROVE Published'
  BY <1>12 DEF Timeout, AfterTimeout, NextIteration, Finished
<1>13. ASSUME Drain PROVE Published'
  BY <1>13 DEF Drain, Stage
<1>14. ASSUME ApTrain PROVE Published'
  BY <1>14 DEF ApTrain, ApAt
<1>15. ASSUME PublishActor PROVE Published'
  BY <1>15, Published_PublishActor, Zenon
<1>16. ASSUME PublishCritic PROVE Published'
  BY <1>16, Published_PublishCritic, Zenon
<1>17. ASSUME ApClose PROVE Published'
  BY <1>17 DEF ApClose, ApAt
<1>18. ASSUME ApReap PROVE Published'
  BY <1>18 DEF ApReap, ApAt
<1> QED
  BY <1>1, <1>2, <1>3, <1>4, <1>5, <1>6, <1>7, <1>8, <1>9, <1>10,
     <1>11, <1>12, <1>13, <1>14, <1>15, <1>16, <1>17, <1>18, Zenon DEF ApNext, ApCollector, ApLearner

LEMMA BeforeFirstRollout_Step == ASSUME Inv, ApNext PROVE BeforeFirstRollout'
<1> USE DEF Inv, Pointers, BeforeFirstRollout,
        Ring!FillPiece, Ring!SignalWriteDone, Ring!ClampForCount, Ring!Count, Ring!BorrowViews,
        Ring!CopyPiece, Ring!AdvanceRead,
        Ring!Clamped, Ring!Larger, Ring!Smaller, Ring!OldestAvailable, Ring!Available, Ring!Advanced,
        Ring!writerVars, Ring!readerVars,
        Weights!BeginRead, Weights!ReadParam, Weights!ReadVersion, Weights!Newer, Weights!BeginWrite,
        Weights!WriteParam, Weights!BumpVersion,
        Weights!writeVars, Weights!readVars, Weights!Nets, Weights!Names,
        ringVars, weightVars, processVars, poolVars, apLearnerVars
<1>1. ASSUME LoadInitial PROVE BeforeFirstRollout'
  BY <1>1 DEF LoadInitial, Pull, Goto
<1>2. ASSUME ApLoopHead PROVE BeforeFirstRollout'
  BY <1>2 DEF ApLoopHead, Goto
<1>3. ASSUME ApCollect PROVE BeforeFirstRollout'
  BY <1>3 DEF ApCollect, Goto
<1>4. ASSUME Refresh("actor", "critic") PROVE BeforeFirstRollout'
  BY <1>4 DEF Refresh, Pull, Goto
<1>5. ASSUME Refresh("critic", "collecting") PROVE BeforeFirstRollout'
  BY <1>5 DEF Refresh, Pull, Goto
<1>6. ASSUME ApCollectorFails PROVE BeforeFirstRollout'
  BY <1>6 DEF ApCollectorFails
<1>7. ASSUME ApCollectorKilled PROVE BeforeFirstRollout'
  BY <1>7 DEF ApCollectorKilled, Goto
<1>8. ASSUME DrainMetrics PROVE BeforeFirstRollout'
  BY <1>8 DEF DrainMetrics, ApAt
<1>9. ASSUME Poll PROVE BeforeFirstRollout'
  BY <1>9 DEF Poll
<1>10. ASSUME CheckAlive PROVE BeforeFirstRollout'
  BY <1>10 DEF CheckAlive, ApAt
<1>11. ASSUME NextSlice PROVE BeforeFirstRollout'
  BY <1>11 DEF NextSlice, ApAt
<1>12. ASSUME Timeout PROVE BeforeFirstRollout'
  BY <1>12 DEF Timeout, AfterTimeout, NextIteration, Finished
<1>13. ASSUME Drain PROVE BeforeFirstRollout'
  BY <1>13 DEF Drain, Stage
<1>14. ASSUME ApTrain PROVE BeforeFirstRollout'
  BY <1>14 DEF ApTrain, ApAt
<1>15. ASSUME PublishActor PROVE BeforeFirstRollout'
  BY <1>15 DEF PublishActor, ApPublish, PublishStep, ApAt
<1>16. ASSUME PublishCritic PROVE BeforeFirstRollout'
  BY <1>16 DEF PublishCritic, ApPublish, PublishStep, NextIteration, Finished
<1>17. ASSUME ApClose PROVE BeforeFirstRollout'
  BY <1>17 DEF ApClose, ApAt
<1>18. ASSUME ApReap PROVE BeforeFirstRollout'
  BY <1>18 DEF ApReap, ApAt
<1> QED
  BY <1>1, <1>2, <1>3, <1>4, <1>5, <1>6, <1>7, <1>8, <1>9, <1>10,
     <1>11, <1>12, <1>13, <1>14, <1>15, <1>16, <1>17, <1>18, Zenon DEF ApNext, ApCollector, ApLearner

LEMMA Loaded_LoadInitial == ASSUME Inv, LoadInitial PROVE Loaded'
<1>0. /\ "actor" \in Weights!Nets /\ "critic" \in Weights!Nets
      /\ \A m \in Weights!Nets : apVersion[m] \in Nat /\ apVersion[m] >= 1
  BY DEF Weights!Nets, Inv, Updates, Published, WholeRead
<1>1. apCollector \in {"loadActor", "loadCritic"} => \A m \in Weights!Nets : apVersion[m] = 1 /\ writing[m] = 0
  BY DEF Inv, BeforeFirstRollout
<1>2. ASSUME NEW m \in Weights!Nets, Weights!BeginRead(m), UNCHANGED processVars, local[m] = 0
      PROVE  Loaded'
  BY <1>0, <1>2, BeginningKeepsLoaded DEF Inv, Weights!Newer, processVars
<1>3. ASSUME NEW m \in Weights!Nets, Weights!ReadParam(m), UNCHANGED processVars,
             apCollector \in {"loadActor", "loadCritic"}
      PROVE  Loaded'
  BY <1>1, <1>3, ReadingKeepsLoaded DEF Inv, processVars
<1>4. ASSUME apCollector = "loadActor", Weights!ReadVersion("actor"), Goto("loadCritic")
      PROVE  Loaded'
  <2>1. apCollector' = "loadCritic" /\ local'["critic"] = local["critic"]
    BY <1>0, <1>4, RememberingKeepsCopies DEF Inv, Goto
  <2> QED BY <1>0, <1>4, <2>1, RememberingKeepsCopies DEF Inv, Loaded, Gone
<1>5. ASSUME apCollector = "loadCritic", Weights!ReadVersion("critic"), Goto("top")
      PROVE  Loaded'
  <2>1. apCollector' = "top" /\ local'["actor"] = local["actor"]
    BY <1>0, <1>5, RememberingKeepsCopies DEF Inv, Goto
  <2> QED BY <1>0, <1>5, <2>1, RememberingKeepsCopies DEF Inv, Loaded, Gone
<1> QED
  BY <1>0, <1>2, <1>3, <1>4, <1>5 DEF LoadInitial, Pull, Inv, Loaded

LEMMA Loaded_Refresh_actor_critic == ASSUME Inv, Refresh("actor", "critic") PROVE Loaded'
<1>0. "actor" \in Weights!Nets /\ "critic" \in Weights!Nets /\ apCollector = "actor"
  BY DEF Weights!Nets, Refresh
<1>1. local["actor"] \in Nat /\ local["actor"] >= 1
  BY <1>0 DEF Inv, Loaded, Gone
<1>2. ASSUME Weights!Newer("actor"), Weights!BeginRead("actor"), UNCHANGED processVars
      PROVE  Loaded'
  BY <1>0, <1>2, BeginningKeepsLoaded DEF Inv, processVars
<1>3. ASSUME Goto("critic"), UNCHANGED weightVars
      PROVE  Loaded'
  BY <1>0, <1>3 DEF Inv, Loaded, CopiedBy, Gone, Goto, weightVars
<1>4. ASSUME Weights!ReadParam("actor"), UNCHANGED processVars
      PROVE  Loaded'
  BY <1>0, <1>1, <1>4, ReadingKeepsLoaded DEF Inv, processVars
<1>5. ASSUME Weights!ReadVersion("actor"), Goto("critic")
      PROVE  Loaded'
  <2>1. apCollector' = "critic" /\ local'["critic"] = local["critic"]
    BY <1>0, <1>5, RememberingKeepsCopies DEF Inv, Goto
  <2> QED BY <1>0, <1>5, <2>1, RememberingKeepsCopies DEF Inv, Loaded, Gone
<1> QED
  BY <1>2, <1>3, <1>4, <1>5 DEF Refresh, Pull

LEMMA Loaded_Refresh_critic_collecting == ASSUME Inv, Refresh("critic", "collecting") PROVE Loaded'
<1>0. "actor" \in Weights!Nets /\ "critic" \in Weights!Nets /\ apCollector = "critic"
  BY DEF Weights!Nets, Refresh
<1>1. local["critic"] \in Nat /\ local["critic"] >= 1
  BY <1>0 DEF Inv, Loaded, Gone
<1>2. ASSUME Weights!Newer("critic"), Weights!BeginRead("critic"), UNCHANGED processVars
      PROVE  Loaded'
  BY <1>0, <1>2, BeginningKeepsLoaded DEF Inv, processVars
<1>3. ASSUME Goto("collecting"), UNCHANGED weightVars
      PROVE  Loaded'
  BY <1>0, <1>3 DEF Inv, Loaded, CopiedBy, Gone, Goto, weightVars
<1>4. ASSUME Weights!ReadParam("critic"), UNCHANGED processVars
      PROVE  Loaded'
  BY <1>0, <1>1, <1>4, ReadingKeepsLoaded DEF Inv, processVars
<1>5. ASSUME Weights!ReadVersion("critic"), Goto("collecting")
      PROVE  Loaded'
  <2>1. apCollector' = "collecting" /\ local'["actor"] = local["actor"]
    BY <1>0, <1>5, RememberingKeepsCopies DEF Inv, Goto
  <2> QED BY <1>0, <1>5, <2>1, RememberingKeepsCopies DEF Inv, Loaded, Gone
<1> QED
  BY <1>2, <1>3, <1>4, <1>5 DEF Refresh, Pull

LEMMA Loaded_PublishActor == ASSUME Inv, PublishActor PROVE Loaded'
<1>1. apCollector' = apCollector
  BY DEF PublishActor, ApPublish, ApAt, processVars
<1>2. CASE \E m \in Weights!Nets : Weights!BeginWrite(m) \/ Weights!WriteParam(m) \/ Weights!BumpVersion(m)
  BY <1>1, <1>2, WritingKeepsLoaded DEF Inv
<1> QED BY <1>2 DEF PublishActor, ApPublish, PublishStep, Weights!Nets

LEMMA Loaded_PublishCritic == ASSUME Inv, PublishCritic PROVE Loaded'
<1>1. apCollector' = apCollector
  BY DEF PublishCritic, ApPublish, processVars
<1>2. CASE \E m \in Weights!Nets : Weights!BeginWrite(m) \/ Weights!WriteParam(m) \/ Weights!BumpVersion(m)
  BY <1>1, <1>2, WritingKeepsLoaded DEF Inv
<1> QED BY <1>2 DEF PublishCritic, ApPublish, PublishStep, Weights!Nets

LEMMA Loaded_Step == ASSUME Inv, ApNext PROVE Loaded'
<1> USE DEF Inv, Published, BeforeFirstRollout, Loaded, CopiedBy, WholeRead, Gone,
        Ring!FillPiece, Ring!SignalWriteDone, Ring!ClampForCount, Ring!Count, Ring!BorrowViews,
        Ring!CopyPiece, Ring!AdvanceRead,
        Ring!Clamped, Ring!Larger, Ring!Smaller, Ring!OldestAvailable, Ring!Available, Ring!Advanced,
        Ring!writerVars, Ring!readerVars,
        Weights!BeginRead, Weights!ReadParam, Weights!ReadVersion, Weights!Newer, Weights!BeginWrite,
        Weights!WriteParam, Weights!BumpVersion,
        Weights!writeVars, Weights!readVars, Weights!Nets, Weights!Names,
        ringVars, weightVars, processVars, poolVars, apLearnerVars
<1>1. ASSUME LoadInitial PROVE Loaded'
  BY <1>1, Loaded_LoadInitial, Zenon
<1>2. ASSUME ApLoopHead PROVE Loaded'
  BY <1>2 DEF ApLoopHead, Goto
<1>3. ASSUME ApCollect PROVE Loaded'
  BY <1>3 DEF ApCollect, Goto
<1>4. ASSUME Refresh("actor", "critic") PROVE Loaded'
  BY <1>4, Loaded_Refresh_actor_critic, Zenon
<1>5. ASSUME Refresh("critic", "collecting") PROVE Loaded'
  BY <1>5, Loaded_Refresh_critic_collecting, Zenon
<1>6. ASSUME ApCollectorFails PROVE Loaded'
  BY <1>6 DEF ApCollectorFails
<1>7. ASSUME ApCollectorKilled PROVE Loaded'
  BY <1>7 DEF ApCollectorKilled, Goto
<1>8. ASSUME DrainMetrics PROVE Loaded'
  BY <1>8 DEF DrainMetrics, ApAt
<1>9. ASSUME Poll PROVE Loaded'
  BY <1>9 DEF Poll
<1>10. ASSUME CheckAlive PROVE Loaded'
  BY <1>10 DEF CheckAlive, ApAt
<1>11. ASSUME NextSlice PROVE Loaded'
  BY <1>11 DEF NextSlice, ApAt
<1>12. ASSUME Timeout PROVE Loaded'
  BY <1>12 DEF Timeout, AfterTimeout, NextIteration, Finished
<1>13. ASSUME Drain PROVE Loaded'
  BY <1>13 DEF Drain, Stage
<1>14. ASSUME ApTrain PROVE Loaded'
  BY <1>14 DEF ApTrain, ApAt
<1>15. ASSUME PublishActor PROVE Loaded'
  BY <1>15, Loaded_PublishActor, Zenon
<1>16. ASSUME PublishCritic PROVE Loaded'
  BY <1>16, Loaded_PublishCritic, Zenon
<1>17. ASSUME ApClose PROVE Loaded'
  BY <1>17 DEF ApClose, ApAt
<1>18. ASSUME ApReap PROVE Loaded'
  BY <1>18 DEF ApReap, ApAt
<1> QED
  BY <1>1, <1>2, <1>3, <1>4, <1>5, <1>6, <1>7, <1>8, <1>9, <1>10,
     <1>11, <1>12, <1>13, <1>14, <1>15, <1>16, <1>17, <1>18, Zenon DEF ApNext, ApCollector, ApLearner

-----------------------------------------------------------------------------
(* The invariant                                                               *)

LEMMA PairBegins == ASSUME ApInit PROVE Inv
<1> USE DEF ApInit, Ring!Init, Weights!Init
<1>1. Pointers
  BY DEF Pointers
<1>2. Updates
  BY DEF Updates, Owes
<1>3. Pool
  BY DEF Pool, PoolHoldsNewest, PoolSlots
<1>4. Published
  BY DEF Published, WholeRead, Weights!Names
<1>5. BeforeFirstRollout
  BY DEF BeforeFirstRollout
<1>6. Loaded
  <2>1. \A m \in Weights!Nets : reading[m] = 0 /\ local[m] = 0 /\ apVersion[m] = 1
    OBVIOUS
  <2>2. \A m \in Weights!Nets : CopiedBy(m)
    BY <2>1 DEF CopiedBy
  <2> QED BY <2>2 DEF Loaded, Gone, Weights!Nets
<1> QED BY <1>1, <1>2, <1>3, <1>4, <1>5, <1>6 DEF Inv

LEMMA Stutters == ASSUME Inv, UNCHANGED apVars PROVE Inv'
<1> USE DEF Inv, apVars, ringVars, weightVars, processVars, apLearnerVars, poolVars
<1>1. Pointers'
  BY DEF Pointers
<1>2. Updates'
  BY DEF Updates, Owes
<1>3. Pool'
  BY DEF Pool, PoolHoldsNewest
<1>4. Published'
  BY DEF Published, WholeRead
<1>5. BeforeFirstRollout'
  BY DEF BeforeFirstRollout
<1>6. Loaded'
  BY DEF Loaded, CopiedBy
<1> QED BY <1>1, <1>2, <1>3, <1>4, <1>5, <1>6

LEMMA Inv_Inductive == ASSUME Inv, [ApNext]_apVars PROVE Inv'
<1>1. CASE ApNext
  BY <1>1, Pointers_Step, Updates_Step, Pool_Step, Published_Step,
     BeforeFirstRollout_Step, Loaded_Step DEF Inv
<1>2. CASE UNCHANGED apVars
  BY <1>2, Stutters
<1> QED BY <1>1, <1>2

\* A pull that ends leaves the collector with parameters newer than those it had.
LEMMA PullEnds ==
  ASSUME Inv, [ApNext]_apVars, NEW m \in Weights!Nets, local'[m] # local[m]
  PROVE  \A n \in Weights!Names : held[m][n] > local[m]
<1>1. PICK w \in Weights!Nets : Weights!ReadVersion(w)
  <2>1. \/ UNCHANGED local
        \/ Weights!ReadVersion("actor") \/ Weights!ReadVersion("critic")
    <3> USE DEF ringVars, weightVars, processVars, poolVars, apLearnerVars, Weights!readVars, apVars
    <3>1. CASE ApCollector
      BY <3>1 DEF ApCollector, LoadInitial, ApLoopHead, ApCollect, Refresh, Pull, ApCollectorFails,
           ApCollectorKilled,
                  Weights!BeginRead, Weights!ReadParam
    <3>2. CASE ApLearner
      BY <3>2 DEF ApLearner, DrainMetrics, Poll, CheckAlive, NextSlice, Timeout, Drain, ApTrain,
                  PublishActor, PublishCritic, ApClose, ApReap, ApPublish, PublishStep,
                  Weights!BeginWrite, Weights!WriteParam, Weights!BumpVersion
    <3>3. CASE UNCHANGED apVars
      BY <3>3
    <3> QED BY <3>1, <3>2, <3>3 DEF ApNext
  <2> QED BY <2>1 DEF Weights!Nets
<1>2. m = w
  BY <1>1, RememberingKeepsCopies DEF Inv
<1> QED BY <1>1, <1>2, RememberingKeepsCopies DEF Inv

\* Whatever becomes of the collector, no update of a network is without a rollout of
\* its own, and the pool has the newest rollouts up to its capacity: the drain that
\* follows a poll, the timeout that skips an iteration and the cursor of the pool.
THEOREM TrainsOnNewest == ApSpec => []TrainedOnNewest
<1>1. Inv => TrainedOnNewest
  <2>1. ASSUME Inv PROVE FreshRolloutPerUpdate
    BY <2>1 DEF Inv, Updates, Owes, Pointers, FreshRolloutPerUpdate
  <2>2. ASSUME Inv PROVE PoolHoldsNewest
    BY <2>2 DEF Inv, Pool
  <2> QED BY <2>1, <2>2 DEF TrainedOnNewest
<1>2. QED
  BY <1>1, PairBegins, Inv_Inductive, PTL DEF ApSpec

\* The collector starts with the networks of one version, and a later pull, which may
\* mix two, never leaves it with a parameter as old as those it had.
THEOREM CollectorActsOnNewer == ApSpec => CollectorWeights
<1>1. Inv => InitialLoadIsWhole
  BY DEF Inv, Loaded, CopiedBy, InitialLoadIsWhole
<1>2. Inv /\ [ApNext]_apVars =>
        [\A m \in Weights!Nets :
            local'[m] # local[m] => \A n \in Weights!Names : held[m][n] > local[m]]_apVars
  BY PullEnds
<1>3. ApSpec => []InitialLoadIsWhole
  BY <1>1, PairBegins, Inv_Inductive, PTL DEF ApSpec
<1>4. ApSpec => PullMakesProgress
  BY <1>2, PairBegins, Inv_Inductive, PTL DEF ApSpec, PullMakesProgress
<1> QED
  BY <1>3, <1>4 DEF CollectorWeights
==============================================================================
