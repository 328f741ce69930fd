------------------------ MODULE GpuResidentReplayProofs ------------------------
(***************************************************************************)
(* What the replay pipeline promises of its buffers and its rows, for any  *)
(* number of ingress slots, batches of any size, rings and runs of any     *)
(* length.                                                                 *)
(***************************************************************************)
EXTENDS GpuResidentReplay, TLAPS

USE DepthAssumption, RowsAssumption, MaxRowsAssumption, LeadAssumption, GpMaxIterationsAssumption

Span(k) == [slot |-> GpSlotOf(k), start |-> starts[GpSlotOf(k)], count |-> counts[GpSlotOf(k)]]

\* The row that batch k begins with.
Begins(k) == IF k < publishSeq THEN starts[GpSlotOf(k)] ELSE publishedPtr

Spans      == [slot : Slots, start : Nat, count : 0 .. SlotRows]
StreamOps  == [kind : {"copy"}, span : Spans] \cup [kind : {"gather"}, slot : {0, 1}, size : 0 .. Capacity]
              \cup [kind : {"wait"}]
ComputeOps == [kind : {"clone"}, from : Nat, upto : Nat] \cup [kind : {"train"}, slot : {0, 1}]

\* The types of the ingress, of the device and of the two threads.
IngressTypes ==
  /\ count \in 0 .. SlotRows
  /\ free \in Nat /\ ready \in Nat
  /\ ingress \in [Slots -> [1 .. SlotRows -> Int]]
  /\ starts \in [Slots -> Nat] /\ counts \in [Slots -> 0 .. SlotRows]
  /\ publishedPtr \in Nat /\ publishSeq \in Nat
  /\ consumeSeq \in Nat /\ releaseSeq \in Nat /\ ptr \in Nat

DeviceTypes ==
  /\ stream \in Seq(StreamOps) /\ compute \in Seq(ComputeOps)
  /\ storage \in [0 .. Capacity - 1 -> Int]
  /\ batch \in [{0, 1} -> SUBSET Int]

ThreadTypes ==
  /\ spanEvents \in Seq(Spans) /\ submittedPtr \in Nat /\ visiblePtr \in Nat
  /\ prepTick \in Nat /\ requiredPtr \in Nat /\ hot \in {0, 1}
  /\ gpPrepared \in [tick : Nat, ptr : Nat, slot : {0, 1}]
  /\ domain \in 0 .. Capacity
  /\ gpIteration \in Nat \ {0} /\ gpFrozen \in Nat /\ readUpto \in Nat /\ statsPtr \in Nat

\* A slot is free, being written, or published and not yet released.
Writing == IF adder = "writing" THEN 1 ELSE 0

Permits ==
  /\ releaseSeq <= consumeSeq
  /\ consumeSeq + ready <= publishSeq
  /\ adder = "signalling" => consumeSeq + ready < publishSeq
  /\ publishSeq - releaseSeq + Writing <= Depth
  /\ ~closed => free + (publishSeq - releaseSeq) + Writing <= Depth
  /\ adder \in {"acquiring", "writing"} => count \in 1 .. SlotRows

\* The published slots hold their batches, one after the other in the stream of rows.
Stored(k) ==
  /\ counts[GpSlotOf(k)] \in 1 .. SlotRows
  /\ Begins(k + 1) = Begins(k) + counts[GpSlotOf(k)]
  /\ \A j \in 1 .. counts[GpSlotOf(k)] : ingress[GpSlotOf(k)][j] = Begins(k) + j - 1

Batches ==
  /\ \A k \in releaseSeq .. publishSeq - 1 : Stored(k)
  /\ \A k, l \in releaseSeq .. publishSeq : k < l => Begins(k) < Begins(l)

\* The spans submitted and not yet committed, and the pointers that delimit them.
Submitted ==
  /\ Len(spanEvents) = consumeSeq - releaseSeq
  /\ \A i \in 1 .. Len(spanEvents) : spanEvents[i] = Span(releaseSeq + i - 1)
  /\ ptr = Begins(releaseSeq) /\ visiblePtr = ptr
  /\ submittedPtr = Begins(consumeSeq)

\* The copies of the batches from x on are in the stream, in their order.
InFlight(x) ==
  /\ \A i \in 1 .. Len(stream) :
       IsCopy(stream[i]) => \E k \in x .. consumeSeq - 1 : stream[i].span = Span(k)
  /\ \A k \in x .. consumeSeq - 1 :
       \E i \in 1 .. Len(stream) : IsCopy(stream[i]) /\ stream[i].span = Span(k)
  /\ \A i, j \in 1 .. Len(stream) :
       i < j /\ IsCopy(stream[i]) /\ IsCopy(stream[j]) => stream[i].span.start < stream[j].span.start

\* The ring shows the newest row before e at every position.
Newest(q, i, e) == q \in Nat /\ q % Capacity = i /\ q < e /\ e <= q + Capacity

RingHolds(rows, e) ==
  \A i \in 0 .. Capacity - 1 : IF i < e THEN Newest(rows[i], i, e) ELSE rows[i] = Torn

\* A clone reads the rows before e, and no copy will be executed before it.
Cloning(e) ==
  \A i \in 1 .. Len(compute) : compute[i].kind = "clone" =>
    /\ compute[i].upto = e /\ e <= compute[i].from + Capacity
    /\ \E w \in 1 .. Len(stream) :
         stream[w].kind = "wait" /\ \A v \in 1 .. w : ~IsCopy(stream[v])

\* A sample domain that reaches the boundary and is on the ring.
Reaches(n, e) == \E v \in 0 .. e : n = Lesser(v, Capacity) /\ requiredPtr <= v

Gathered == sync = "noting" \/ gpPrepared # None

Gathering(e) ==
  /\ sync = "gathering" => Reaches(domain, e)
  /\ \A i \in 1 .. Len(stream) : IsGather(stream[i]) =>
       stream[i].slot = Cold /\ Reaches(stream[i].size, e) /\ Gathered
  /\ Gathered => \/ \E i \in 1 .. Len(stream) : IsGather(stream[i])
                 \/ Covers(batch[Cold], requiredPtr)

\* The device has executed the copies of the batches before x, which end before row e.
ReachedBy(x, e) ==
  e = Begins(x) /\ InFlight(x) /\ RingHolds(storage, e) /\ Cloning(e) /\ Gathering(e)

Executed == \E x \in releaseSeq .. consumeSeq, e \in Nat : ReachedBy(x, e)

\* How a prefetch goes from request to swap.
Prefetching ==
  /\ prepState = "gather_submitted" <=> gpPrepared # None
  /\ sync \in {"gathering", "noting"} => prepState = "preparing"
  /\ prepState \in {"idle", "preparing", "gather_submitted"}
  /\ prepState = "idle" <=> prepTick = 0
  /\ gpPrepared # None => gpPrepared.slot = Cold
  /\ gpLearner \in {"tick", "submitting", "committing", "deciding"} => prepTick \in {0, gpIteration}
  /\ gpLearner = "prefetching" => prepTick = 0
  /\ gpLearner \in {"training", "synchronizing"} => prepTick \in {0, gpIteration + 1}

\* What the learner has in its own stream.
Computing ==
  /\ gpLearner \in {"tick", "submitting", "committing", "deciding", "reading", "catchUp", "snapshot"} =>
       compute = << >>
  /\ \A k \in 1 .. Len(compute) : compute[k].kind = "train" =>
       gpLearner = "synchronizing" /\ compute[k].slot = hot

Inv == /\ IngressTypes /\ DeviceTypes /\ ThreadTypes /\ Permits /\ Batches /\ Submitted
       /\ Executed /\ Prefetching /\ Computing /\ FieldsInOrder

-----------------------------------------------------------------------------
(* Sequences and remainders                                                    *)

LEMMA Appended ==
  ASSUME NEW S, NEW q \in Seq(S), NEW e \in S
  PROVE  /\ Append(q, e) \in Seq(S) /\ Len(Append(q, e)) = Len(q) + 1 /\ Len(q) \in Nat
         /\ \A i \in 1 .. Len(q) : Append(q, e)[i] = q[i]
         /\ Append(q, e)[Len(q) + 1] = e
  OBVIOUS

LEMMA Tailed ==
  ASSUME NEW S, NEW q \in Seq(S), q # << >>
  PROVE  /\ Tail(q) \in Seq(S) /\ Len(q) \in Nat \ {0} /\ Len(Tail(q)) = Len(q) - 1
         /\ \A i \in 1 .. Len(q) - 1 : Tail(q)[i] = q[i + 1]
         /\ Head(q) = q[1] /\ Head(q) \in S
  OBVIOUS

LEMMA Division ==
  ASSUME NEW N \in Nat \ {0}, NEW a \in Int
  PROVE  /\ a \div N \in Int
         /\ a % N \in 0 .. N - 1
         /\ a = N * (a \div N) + (a % N)
  OBVIOUS

\* Two numbers less than N apart have different remainders.
LEMMA Apart ==
  ASSUME NEW N \in Nat \ {0}, NEW a \in Int, NEW b \in Int, a < b, a % N = b % N
  PROVE  a + N <= b
<1> DEFINE qa == a \div N  qb == b \div N  r == a % N
<1>1. /\ qa \in Int /\ qb \in Int /\ r \in 0 .. N - 1
      /\ a = N * qa + r /\ b = N * qb + r
  BY Division
<1> HIDE DEF qa, qb, r
<1>2. N * (qb - qa) = b - a
  BY <1>1
<1>3. qb - qa >= 1
  <2>1. CASE qb - qa <= 0
    <3>1. PICK d \in Nat : qb - qa = 0 - d
      <4>1. qa - qb \in Nat /\ qb - qa = 0 - (qa - qb)
        BY <1>1, <2>1
      <4> QED BY <4>1
    <3>2. N * (qb - qa) = 0 - N * d /\ N * d \in Nat
      BY <3>1
    <3> QED BY <1>2, <3>2
  <2> QED BY <1>1, <2>1
<1>4. PICK d \in Nat : qb - qa = d + 1
  <2>1. qb - qa - 1 \in Nat /\ qb - qa = (qb - qa - 1) + 1
    BY <1>1, <1>3
  <2> QED BY <2>1
<1>5. N * (qb - qa) = N * d + N /\ N * d \in Nat
  BY <1>4
<1> QED BY <1>2, <1>5

LEMMA SameRemainder ==
  ASSUME NEW N \in Nat \ {0}, NEW a \in Int, NEW b \in Int, a % N = b % N,
         a < b + N, b < a + N
  PROVE  a = b
<1>1. CASE a < b
  <2>1. a + N <= b
    BY <1>1, Apart
  <2> QED BY <2>1
<1>2. CASE b < a
  <2>1. b + N <= a
    BY <1>2, Apart
  <2> QED BY <2>1
<1> QED BY <1>1, <1>2

\* A remainder is known by its quotient.
LEMMA RemainderIs ==
  ASSUME NEW N \in Nat \ {0}, NEW q \in Int, NEW r \in 0 .. N - 1
  PROVE  (N * q + r) % N = r
<1> DEFINE a == N * q + r
           p == a \div N
           s == a % N
<1>0. a \in Int
  OBVIOUS
<1>1. p \in Int /\ s \in 0 .. N - 1 /\ N * q + r = N * p + s
  BY <1>0, Division
<1>2. s = r
  <2> HIDE DEF p, s
  <2>1. N * (q - p) = s - r
    BY <1>1
  <2>2. CASE q - p >= 1
    <3>1. PICK d \in Nat : q - p = d + 1
      <4>1. q - p - 1 \in Nat /\ q - p = (q - p - 1) + 1
        BY <1>1, <2>2
      <4> QED BY <4>1
    <3>2. N * (q - p) = N * d + N /\ N * d \in Nat
      BY <3>1
    <3> QED BY <1>1, <2>1, <3>2
  <2>3. CASE p - q >= 1
    <3>1. PICK d \in Nat : p - q = d + 1
      <4>1. p - q - 1 \in Nat /\ p - q = (p - q - 1) + 1
        BY <1>1, <2>3
      <4> QED BY <4>1
    <3>2. N * (p - q) = N * d + N /\ N * d \in Nat /\ N * (p - q) = r - s
      BY <1>1, <2>1, <3>1
    <3> QED BY <1>1, <3>2
  <2>4. CASE q = p
    BY <1>1, <2>1, <2>4
  <2> QED BY <1>1, <2>2, <2>3, <2>4
<1> QED BY <1>2

\* The place of row a + j in a span that begins with row a.
LEMMA PlaceInSpan ==
  ASSUME NEW N \in Nat \ {0}, NEW a \in Nat, NEW i \in 0 .. N - 1
  PROVE  /\ (i - a) % N \in 0 .. N - 1
         /\ (a + ((i - a) % N)) % N = i
         /\ \A d \in 0 .. N - 1 : (a + d) % N = i => (i - a) % N = d
<1> DEFINE j == (i - a) % N
           q == (i - a) \div N
<1>0. i - a \in Int
  OBVIOUS
<1>1. i - a \in Int /\ j \in 0 .. N - 1 /\ q \in Int /\ i - a = N * q + j
  BY <1>0, Division
<1>2. (a + j) % N = i
  <2>1. a + j = N * (0 - q) + i
    <3> HIDE DEF j, q
    <3>1. N * (0 - q) = 0 - N * q
      BY <1>1
    <3> QED BY <1>1, <3>1
  <2>2. 0 - q \in Int
    BY <1>1
  <2> QED BY <2>1, <2>2, RemainderIs
<1>3. ASSUME NEW d \in 0 .. N - 1, (a + d) % N = i PROVE j = d
  <2>1. (a + j) % N = (a + d) % N
    BY <1>2, <1>3
  <2>2. a + j \in Int /\ a + d \in Int /\ a + j < a + d + N /\ a + d < a + j + N
    BY <1>1
  <2>3. a + j = a + d
    BY <2>1, <2>2, SameRemainder
  <2> QED BY <1>1, <2>3
<1> QED BY <1>1, <1>2, <1>3

LEMMA Wrapped ==
  ASSUME NEW N \in Nat \ {0}, NEW a \in Int
  PROVE  (a + N) % N = a % N
<1> DEFINE q == a \div N
           r == a % N
<1>1. q \in Int /\ r \in 0 .. N - 1 /\ a = N * q + r
  BY Division
<1> HIDE DEF q, r
<1>2. a + N = N * (q + 1) + r
  BY <1>1
<1>3. q + 1 \in Int
  BY <1>1
<1>4. (N * (q + 1) + r) % N = r
  BY <1>1, <1>3, RemainderIs
<1> QED BY <1>2, <1>4 DEF r

LEMMA SmallRemainder ==
  ASSUME NEW N \in Nat \ {0}, NEW r \in 0 .. N - 1
  PROVE  r % N = r
<1>1. (N * 0 + r) % N = r
  BY RemainderIs
<1> QED BY <1>1

LEMMA RemainderBelow ==
  ASSUME NEW N \in Nat \ {0}, NEW a \in Nat
  PROVE  a % N \in 0 .. N - 1 /\ a % N <= a
<1> DEFINE q == a \div N
           r == a % N
<1>1. q \in Int /\ r \in 0 .. N - 1 /\ a = N * q + r
  BY Division
<1> HIDE DEF q, r
<1>2. CASE q < 0
  <2>1. PICK d \in Nat : q = 0 - (d + 1)
    <3>1. 0 - q - 1 \in Nat /\ q = 0 - ((0 - q - 1) + 1)
      BY <1>1, <1>2
    <3> QED BY <3>1
  <2>2. N * q = 0 - (N * d + N) /\ N * d \in Nat
    BY <2>1
  <2> QED BY <1>1, <2>2
<1>3. CASE q >= 0
  <2>1. q \in Nat
    BY <1>1, <1>3
  <2>2. N * q \in Nat
    BY <2>1
  <2> QED BY <1>1, <2>2 DEF r
<1> QED BY <1>1, <1>2, <1>3

-----------------------------------------------------------------------------
(* The ring                                                                    *)

\* Two slots of the ingress are never those of batches less than Depth apart.
LEMMA OwnSlot ==
  ASSUME NEW j \in Nat, NEW k \in Nat, j < k, k < j + Depth
  PROVE  GpSlotOf(j) # GpSlotOf(k)
<1>1. CASE j % Depth = k % Depth
  <2>0. j \in Int /\ k \in Int
    OBVIOUS
  <2>1. j + Depth <= k
    BY <1>1, <2>0, Apart
  <2> QED BY <2>1
<1> QED BY <1>1 DEF GpSlotOf

LEMMA SlotTypes ==
  ASSUME NEW k \in Nat PROVE GpSlotOf(k) \in Slots
  BY Division DEF GpSlotOf, Slots

LEMMA Capacities == Capacity \in Nat \ {0} /\ SlotRows \in Nat \ {0} /\ SlotRows <= Capacity
  OBVIOUS

\* Writing the n rows from e on over a ring that shows the newest rows before e.
LEMMA RingAfterCopy ==
  ASSUME NEW e \in Nat, NEW n \in 1 .. Capacity, NEW old, NEW new, RingHolds(old, e),
         \A i \in 0 .. Capacity - 1 :
           new[i] = IF (i - e) % Capacity < n THEN e + ((i - e) % Capacity) ELSE old[i]
  PROVE  RingHolds(new, e + n)
<1> USE Capacities
<1> SUFFICES ASSUME NEW i \in 0 .. Capacity - 1
             PROVE  IF i < e + n THEN Newest(new[i], i, e + n) ELSE new[i] = Torn
  BY DEF RingHolds
<1> DEFINE j == (i - e) % Capacity
<1>1. /\ j \in 0 .. Capacity - 1
      /\ (e + j) % Capacity = i
      /\ \A d \in 0 .. Capacity - 1 : (e + d) % Capacity = i => j = d
  BY PlaceInSpan
<1>2. /\ new[i] = IF j < n THEN e + j ELSE old[i]
      /\ IF i < e THEN Newest(old[i], i, e) ELSE old[i] = Torn
  BY DEF RingHolds
<1> HIDE DEF j
<1>3. i <= e + j
  <2>1. e + j \in Nat
    BY <1>1
  <2> QED BY <1>1, <2>1, RemainderBelow
<1>4. CASE j < n
  <2>1. new[i] = e + j
    BY <1>2, <1>4
  <2>2. Newest(e + j, i, e + n) /\ i < e + n
    BY <1>1, <1>3, <1>4 DEF Newest
  <2> QED BY <2>1, <2>2
<1>5. CASE j >= n /\ i < e
  <2> DEFINE q == old[i]
             d == q + Capacity - e
  <2>1. new[i] = q /\ Newest(q, i, e)
    BY <1>1, <1>2, <1>5
  <2> HIDE DEF q
  <2>2. d \in 0 .. Capacity - 1 /\ e + d = q + Capacity
    BY <2>1 DEF Newest
  <2>3. (e + d) % Capacity = i
    <3>1. q \in Int /\ q % Capacity = i
      BY <2>1 DEF Newest
    <3>2. (q + Capacity) % Capacity = i
      BY <3>1, Wrapped
    <3> QED BY <2>2, <3>2
  <2>4. j = d
    BY <1>1, <2>2, <2>3
  <2>5. Newest(q, i, e + n) /\ i < e + n
    BY <1>5, <2>1, <2>2, <2>4 DEF Newest
  <2> QED BY <2>1, <2>5
<1>6. CASE j >= n /\ i >= e
  <2>1. i - e \in 0 .. Capacity - 1 /\ e + (i - e) = i
    BY <1>6
  <2>2. (e + (i - e)) % Capacity = i
    BY <2>1, SmallRemainder
  <2>3. j = i - e
    BY <1>1, <2>1, <2>2
  <2> QED BY <1>1, <1>2, <1>6, <2>3
<1> QED BY <1>1, <1>4, <1>5, <1>6

\* A gather over a domain that reaches the boundary finds what the boundary asks for.
LEMMA GatherCovers ==
  ASSUME NEW rows, NEW e \in Nat, RingHolds(rows, e), requiredPtr \in Nat,
         NEW n, Reaches(n, e)
  PROVE  Covers({rows[i] : i \in 0 .. n - 1}, requiredPtr)
<1> USE Capacities
<1> DEFINE b == requiredPtr
           picked == {rows[i] : i \in 0 .. n - 1}
<1>1. PICK v \in 0 .. e : n = Lesser(v, Capacity) /\ b <= v
  BY DEF Reaches
<1>2. n \in 0 .. Capacity /\ n <= e
  BY <1>1 DEF Lesser
<1>3. \A i \in 0 .. n - 1 : Newest(rows[i], i, e)
  BY <1>2 DEF RingHolds
<1>4. ASSUME NEW r \in (IF b > Capacity THEN b - Capacity ELSE 0) .. b - 1
      PROVE  \E q \in picked : q >= r /\ q % Capacity = r % Capacity
  <2> DEFINE i == r % Capacity
  <2>1. r \in Nat /\ r < b /\ r < e
    BY <1>1
  <2>2. i \in 0 .. Capacity - 1 /\ i <= r
    BY <2>1, RemainderBelow
  <2>3. i \in 0 .. n - 1
    BY <1>1, <2>1, <2>2 DEF Lesser
  <2> DEFINE q == rows[i]
  <2>4. q \in picked /\ Newest(q, i, e)
    BY <1>3, <2>3
  <2>5. q \in Nat /\ q % Capacity = r % Capacity /\ e <= q + Capacity
    BY <2>4 DEF Newest
  <2> HIDE DEF q, i
  <2>6. q >= r
    <3>1. CASE q < r
      <4>0. q \in Int /\ r \in Int
        BY <2>1, <2>5
      <4>1. q + Capacity <= r
        BY <2>5, <3>1, <4>0, Apart
      <4> QED BY <2>1, <2>5, <4>1
    <3> QED BY <2>1, <2>5, <3>1
  <2> QED BY <2>4, <2>5, <2>6
<1>5. ASSUME NEW q \in picked PROVE q >= 0 /\ q >= b - Capacity
  <2>1. Newest(q, q, e) \/ (q \in Nat /\ e <= q + Capacity)
    BY <1>3 DEF Newest
  <2> QED BY <1>1, <2>1 DEF Newest
<1> QED BY <1>4, <1>5 DEF Covers

\* The clone of the last rows before e reads each of them at its place.
LEMMA CloneReads ==
  ASSUME NEW rows, NEW e \in Nat, RingHolds(rows, e), NEW p \in Nat, p < e, e <= p + Capacity
  PROVE  rows[p % Capacity] = p
<1> USE Capacities
<1> DEFINE i == p % Capacity
           q == rows[i]
<1>1. i \in 0 .. Capacity - 1 /\ i <= p
  BY RemainderBelow
<1>2. Newest(q, i, e)
  BY <1>1 DEF RingHolds
<1>3. q \in Nat /\ q % Capacity = p % Capacity /\ q < e /\ e <= q + Capacity
  BY <1>2 DEF Newest
<1> HIDE DEF i, q
<1>4. q = p
  <2>1. q \in Int /\ p \in Int /\ q < p + Capacity /\ p < q + Capacity
    BY <1>3
  <2> QED BY <1>3, <2>1, SameRemainder
<1> QED BY <1>4 DEF q, i

-----------------------------------------------------------------------------
(* What a step may do to the ingress, and what it leaves alone                 *)

Threads == {"sync", "gpLearner"}

\* Where the sync thread is while it gathers.
AtGather == {"gathering", "noting"}

\* A step that only moves one of the threads on.
Quiet == /\ UNCHANGED <<adderVars, ready, consumeSeq, releaseSeq, ptr, deviceVars,
                        spanEvents, submittedPtr, visiblePtr, prepVars, domain>>
         /\ sync' = sync \/ {sync, sync'} \cap AtGather = {}

Submits == /\ UNCHANGED <<prepVars, syncVars, learnerVars>>
           /\ \E thread \in Threads : SubmitSpan(thread)
Commits == /\ UNCHANGED <<prepVars, syncVars, learnerVars>>
           /\ \E thread \in Threads : CommitSpan(thread)

LEMMA SyncKinds ==
  ASSUME Sync
  PROVE  Quiet \/ Submits \/ Commits \/ SyncLook \/ SyncGather \/ SyncNote
<1>1. CASE SyncDrain
  BY <1>1 DEF SyncDrain, Quiet, Commits, Threads, AtGather, Unlock, ingressVars, learnerVars, syncVars
<1>2. CASE SyncCheck
  BY <1>2 DEF SyncCheck, Quiet, AtGather, ingressVars, spanVars
<1>3. CASE SyncSubmit
  BY <1>3 DEF SyncSubmit, Quiet, Submits, Threads, AtGather, Unlock, ingressVars, syncVars
<1> QED BY <1>1, <1>2, <1>3 DEF Sync

LearnerKinds == Quiet \/ Submits \/ Commits \/ GpBeginUpdate \/ ReadFields \/ Sample \/ Prefetch \/ Train

LEMMA LearnersKinds ==
  ASSUME GpLearner PROVE LearnerKinds
<1> USE DEF LearnerKinds, ingressVars, spanVars, syncVars
<1>1. CASE Tick \/ GpAnotherTick \/ ReadPublished \/ GpFinishUpdate \/ CollectorDied \/ ClosePipeline \/ PipelineJoined
  BY <1>1 DEF Tick, GpAnotherTick, ReadPublished, GpFinishUpdate, CollectorDied, ClosePipeline, PipelineJoined, Quiet
<1>2. CASE LearnerSubmit
  BY <1>2 DEF LearnerSubmit, Quiet, Submits, Threads, Unlock, learnerVars
<1>3. CASE WaitForCopies
  BY <1>3 DEF WaitForCopies, Quiet
<1>4. CASE LearnerCommit
  BY <1>4 DEF LearnerCommit, Commits, Threads
<1>5. CASE EndProgress
  BY <1>5 DEF EndProgress, Quiet, Unlock
<1>6. CASE CatchUp
  BY <1>6 DEF CatchUp, Quiet, Submits, Threads, Unlock, learnerVars
<1>7. CASE CloseRunner
  BY <1>7 DEF CloseRunner, StopRun, CloseIngress, Quiet
<1> QED BY <1>1, <1>2, <1>3, <1>4, <1>5, <1>6, <1>7 DEF GpLearner

\* Every step, by what it does to the buffers and to the prefetch.
LEMMA Kinds ==
  ASSUME GpNext
  PROVE  \/ Collect(GpCollector) \/ Device \/ Quiet \/ Submits \/ Commits
         \/ SyncLook \/ SyncGather \/ SyncNote
         \/ GpBeginUpdate \/ ReadFields \/ Sample \/ Prefetch \/ Train
  BY SyncKinds, LearnersKinds, Zenon DEF GpNext, LearnerKinds

LEMMA NoStep == ASSUME UNCHANGED gpVars PROVE Quiet
  BY DEF gpVars, Quiet, ingressVars, spanVars, syncVars, prepVars

\* Only these steps change the ingress.
CommitsFirst == spanEvents # << >> /\ CommitIngress(Head(spanEvents)) /\ spanEvents' = Tail(spanEvents)

LEMMA IngressKinds ==
  ASSUME [GpNext]_gpVars
  PROVE  \/ GpCollector /\ spanEvents' = spanEvents
         \/ TakePublished \/ CommitsFirst \/ StopRun \/ CloseIngress
         \/ UNCHANGED ingressVars
<1> USE DEF CommitsFirst
<1>1. CASE Collect(GpCollector)
  BY <1>1 DEF Collect, spanVars
<1>2. CASE Device
  BY <1>2 DEF Device, ExecuteCopy, ExecuteGather, ExecuteWait, ExecuteClone, ExecuteTrain
<1>3. CASE Sync
  BY <1>3 DEF Sync, SyncDrain, SyncCheck, SyncLook, SyncGather, SyncNote, SyncSubmit, Unlock, SubmitSpan,
       CommitSpan, CopyDone
<1>4. CASE GpLearner
  BY <1>4 DEF GpLearner, Tick, LearnerSubmit, WaitForCopies, LearnerCommit, EndProgress, GpAnotherTick,
       GpBeginUpdate, ReadPublished, CatchUp, ReadFields, Sample, Prefetch, Train, GpFinishUpdate,
       CollectorDied,
       ClosePipeline, PipelineJoined, CloseRunner, Unlock, SubmitSpan, CommitSpan, CopyDone
<1>5. CASE UNCHANGED gpVars
  BY <1>5 DEF gpVars
<1> QED BY <1>1, <1>2, <1>3, <1>4, <1>5 DEF GpNext

-----------------------------------------------------------------------------
(* The ingress                                                                 *)

LEMMA HeadSpan ==
  ASSUME spanEvents \in Seq(Spans), spanEvents # << >>
  PROVE  /\ Head(spanEvents) \in Spans /\ Tail(spanEvents) \in Seq(Spans)
         /\ Head(spanEvents).slot \in Slots /\ Head(spanEvents).start \in Nat
         /\ Head(spanEvents).count \in 0 .. SlotRows
<1>1. Head(spanEvents) \in Spans /\ Tail(spanEvents) \in Seq(Spans)
  BY Tailed
<1> QED BY <1>1 DEF Spans

LEMMA IngressTypes_Step ==
  ASSUME IngressTypes, ThreadTypes, Permits, [GpNext]_gpVars PROVE IngressTypes'
<1> USE DEF IngressTypes, ingressVars, adderVars
<1>1. CASE \E n \in 1 .. SlotRows : BeginAdd(n)
  BY <1>1 DEF BeginAdd
<1>2. CASE Acquire
  <2>1. GpSlotOf(publishSeq) \in Slots
    BY SlotTypes
  <2>2. CASE closed
    BY <1>2, <2>2 DEF Acquire, MayAcquire
  <2>3. CASE ~closed
    <3> DEFINE s == GpSlotOf(publishSeq)
               row == [j \in 1 .. SlotRows |-> IF j <= count THEN Torn ELSE ingress[s][j]]
    <3>1. row \in [1 .. SlotRows -> Int]
      BY <2>1 DEF Torn
    <3>2. ingress' = [ingress EXCEPT ![s] = row]
      BY <1>2, <2>3 DEF Acquire
    <3> HIDE DEF row, s
    <3>3. ingress' \in [Slots -> [1 .. SlotRows -> Int]]
      BY <3>1, <3>2
    <3> QED BY <1>2, <3>3 DEF Acquire, MayAcquire
  <2> QED BY <2>2, <2>3
<1>3. CASE GiveUp
  BY <1>3 DEF GiveUp
<1>4. CASE PublishRows
  <2> DEFINE s == GpSlotOf(publishSeq)
             row == [j \in 1 .. SlotRows |-> IF j <= count THEN publishedPtr + j - 1 ELSE ingress[s][j]]
  <2>1. s \in Slots
    BY SlotTypes
  <2>2. row \in [1 .. SlotRows -> Int]
    BY <2>1
  <2>3. /\ ingress' = [ingress EXCEPT ![s] = row]
        /\ starts' = [starts EXCEPT ![s] = publishedPtr] /\ counts' = [counts EXCEPT ![s] = count]
    BY <1>4 DEF PublishRows
  <2> HIDE DEF row, s
  <2>4. ingress' \in [Slots -> [1 .. SlotRows -> Int]]
    BY <2>2, <2>3
  <2>5. starts' \in [Slots -> Nat] /\ counts' \in [Slots -> 0 .. SlotRows]
    BY <2>3
  <2> QED BY <1>4, <2>4, <2>5 DEF PublishRows
<1>5. CASE Signal \/ AddFails \/ AdderKilled
  BY <1>5 DEF Signal, AddFails, AdderKilled
<1>6. CASE TakePublished
  BY <1>6 DEF TakePublished
<1>7. CASE CommitsFirst
  BY <1>7, HeadSpan DEF CommitsFirst, CommitIngress, FreeAfterCommit, ThreadTypes
<1>8. CASE StopRun \/ CloseIngress \/ UNCHANGED ingressVars
  BY <1>8 DEF StopRun, CloseIngress
<1> QED BY <1>1, <1>2, <1>3, <1>4, <1>5, <1>6, <1>7, <1>8, IngressKinds DEF GpCollector, Add

\* A commit finds a batch that was taken and not yet released.
LEMMA Outstanding ==
  ASSUME IngressTypes, ThreadTypes, Submitted, spanEvents # << >>
  PROVE  /\ releaseSeq < consumeSeq
         /\ Head(spanEvents) = Span(releaseSeq)
         /\ \A i \in 1 .. Len(spanEvents) - 1 : Tail(spanEvents)[i] = spanEvents[i + 1]
         /\ Len(Tail(spanEvents)) = Len(spanEvents) - 1
         /\ Len(spanEvents) \in Nat \ {0}
<1>1. /\ Len(spanEvents) \in Nat \ {0} /\ Head(spanEvents) = spanEvents[1]
      /\ \A i \in 1 .. Len(spanEvents) - 1 : Tail(spanEvents)[i] = spanEvents[i + 1]
      /\ Len(Tail(spanEvents)) = Len(spanEvents) - 1
  BY Tailed DEF ThreadTypes
<1>2. Len(spanEvents) = consumeSeq - releaseSeq /\ spanEvents[1] = Span(releaseSeq + 1 - 1)
  BY <1>1 DEF Submitted
<1>3. releaseSeq + 1 - 1 = releaseSeq
  BY DEF IngressTypes
<1> QED BY <1>1, <1>2, <1>3 DEF IngressTypes

LEMMA Permits_Step ==
  ASSUME IngressTypes, ThreadTypes, Permits, Submitted, [GpNext]_gpVars PROVE Permits'
<1> USE DEF IngressTypes, Permits, Writing, ingressVars, adderVars
<1>1. CASE \E n \in 1 .. SlotRows : BeginAdd(n)
  BY <1>1 DEF BeginAdd
<1>2. CASE Acquire
  BY <1>2 DEF Acquire, MayAcquire
<1>3. CASE GiveUp
  BY <1>3 DEF GiveUp
<1>4. CASE PublishRows
  BY <1>4 DEF PublishRows
<1>5. CASE Signal
  BY <1>5 DEF Signal
<1>6. CASE AddFails
  BY <1>6 DEF AddFails
<1>7. CASE AdderKilled
  BY <1>7 DEF AdderKilled
<1>8. CASE TakePublished
  BY <1>8 DEF TakePublished
<1>9. CASE CommitsFirst
  BY <1>9, Outstanding DEF CommitsFirst, CommitIngress, FreeAfterCommit
<1>10. CASE StopRun
  BY <1>10 DEF StopRun
<1>11. CASE CloseIngress
  BY <1>11 DEF CloseIngress
<1>12. CASE UNCHANGED ingressVars
  BY <1>12
<1> QED BY <1>1, <1>2, <1>3, <1>4, <1>5, <1>6, <1>7, <1>8, <1>9, <1>10, <1>11, <1>12, IngressKinds
        DEF GpCollector, Add

-----------------------------------------------------------------------------
(* The published batches stay where they are until they are released           *)

LEMMA OtherSlots ==
  ASSUME IngressTypes, publishSeq - releaseSeq < Depth
  PROVE  \A k \in releaseSeq .. publishSeq - 1 : GpSlotOf(k) # GpSlotOf(publishSeq)
<1> SUFFICES ASSUME NEW k \in releaseSeq .. publishSeq - 1 PROVE GpSlotOf(k) # GpSlotOf(publishSeq)
  OBVIOUS
<1>1. k \in Nat /\ publishSeq \in Nat /\ k < publishSeq /\ publishSeq < k + Depth
  BY DEF IngressTypes
<1> QED BY <1>1, OwnSlot

\* Slot s shows what it showed.
Same(s) == /\ starts'[s] = starts[s] /\ counts'[s] = counts[s]
           /\ ingress'[s] = ingress[s]

LEMMA HeldSlots ==
  ASSUME IngressTypes, ThreadTypes, Permits, Submitted, [GpNext]_gpVars
  PROVE  /\ releaseSeq <= releaseSeq' /\ consumeSeq <= consumeSeq'
         /\ \A k \in releaseSeq .. publishSeq - 1 : Same(GpSlotOf(k))
         /\ \/ publishSeq' = publishSeq /\ publishedPtr' = publishedPtr
            \/ /\ publishSeq' = publishSeq + 1 /\ PublishRows
               /\ counts'[GpSlotOf(publishSeq)] = count /\ starts'[GpSlotOf(publishSeq)] = publishedPtr
               /\ \A j \in 1 .. count : ingress'[GpSlotOf(publishSeq)][j] = publishedPtr + j - 1
<1> USE DEF Same, ingressVars, adderVars
<1>0. /\ releaseSeq \in Nat /\ consumeSeq \in Nat
      /\ \A k \in releaseSeq .. publishSeq - 1 : GpSlotOf(k) \in Slots
  BY SlotTypes DEF IngressTypes
<1>1. CASE \E n \in 1 .. SlotRows : BeginAdd(n)
  BY <1>0, <1>1 DEF BeginAdd
<1>2. CASE Acquire
  <2>2. CASE closed
    BY <1>0, <1>2, <2>2 DEF Acquire, MayAcquire
  <2>3. CASE ~closed
    <3>1. \A k \in releaseSeq .. publishSeq - 1 : GpSlotOf(k) # GpSlotOf(publishSeq)
      BY <1>2, <2>3, OtherSlots DEF Acquire, MayAcquire, Permits, Writing, IngressTypes
    <3> QED BY <1>0, <1>2, <2>3, <3>1 DEF Acquire, IngressTypes
  <2> QED BY <2>2, <2>3
<1>3. CASE GiveUp \/ Signal \/ AddFails \/ AdderKilled
  BY <1>0, <1>3 DEF GiveUp, Signal, AddFails, AdderKilled
<1>4. CASE PublishRows
  <2>1. \A k \in releaseSeq .. publishSeq - 1 : GpSlotOf(k) # GpSlotOf(publishSeq)
    BY <1>4, OtherSlots DEF PublishRows, Permits, Writing, IngressTypes
  <2>2. GpSlotOf(publishSeq) \in Slots
    BY SlotTypes DEF IngressTypes
  <2>3. count \in 1 .. SlotRows
    BY <1>4 DEF PublishRows, Permits
  <2> QED BY <1>0, <1>4, <2>1, <2>2, <2>3 DEF PublishRows, IngressTypes
<1>5. CASE TakePublished \/ StopRun \/ CloseIngress \/ UNCHANGED ingressVars
  BY <1>0, <1>5 DEF TakePublished, StopRun, CloseIngress
<1>6. CASE CommitsFirst
  BY <1>0, <1>6 DEF CommitsFirst, CommitIngress
<1> QED BY <1>1, <1>2, <1>3, <1>4, <1>5, <1>6, IngressKinds DEF GpCollector, Add

LEMMA Steady ==
  ASSUME IngressTypes, ThreadTypes, Permits, Submitted, [GpNext]_gpVars
  PROVE  /\ releaseSeq <= releaseSeq' /\ consumeSeq <= consumeSeq' /\ publishSeq <= publishSeq'
         /\ \A k \in releaseSeq .. publishSeq - 1 : Span(k)' = Span(k)
         /\ \A k \in releaseSeq .. publishSeq : Begins(k)' = Begins(k)
<1>0. releaseSeq \in Nat /\ publishSeq \in Nat
  BY DEF IngressTypes
<1>1. /\ releaseSeq <= releaseSeq' /\ consumeSeq <= consumeSeq'
      /\ \A k \in releaseSeq .. publishSeq - 1 : Same(GpSlotOf(k))
  BY HeldSlots
<1>2. \A k \in releaseSeq .. publishSeq - 1 : Span(k)' = Span(k)
  BY <1>1 DEF Same, Span
<1>3. CASE publishSeq' = publishSeq /\ publishedPtr' = publishedPtr
  BY <1>0, <1>1, <1>2, <1>3 DEF Same, Begins
<1>4. CASE publishSeq' = publishSeq + 1 /\ starts'[GpSlotOf(publishSeq)] = publishedPtr
  <2>1. ASSUME NEW k \in releaseSeq .. publishSeq PROVE Begins(k)' = Begins(k)
    <3>1. k < publishSeq'
      BY <1>0, <1>4
    <3>2. CASE k = publishSeq
      BY <1>0, <1>4, <3>1, <3>2 DEF Begins
    <3>3. CASE k # publishSeq
      <4>1. k \in releaseSeq .. publishSeq - 1 /\ k < publishSeq
        BY <1>0, <3>3
      <4> QED BY <1>1, <3>1, <4>1 DEF Begins, Same
    <3> QED BY <3>2, <3>3
  <2> QED BY <1>0, <1>1, <1>2, <1>4, <2>1
<1> QED BY <1>3, <1>4, HeldSlots

LEMMA Batches_Step ==
  ASSUME IngressTypes, ThreadTypes, Permits, Submitted, Batches, [GpNext]_gpVars PROVE Batches'
<1>0. /\ releaseSeq \in Nat /\ publishSeq \in Nat /\ releaseSeq' \in Nat /\ publishedPtr \in Nat
      /\ starts \in [Slots -> Nat]
      /\ \A k \in Nat : GpSlotOf(k) \in Slots
  BY IngressTypes_Step, SlotTypes DEF IngressTypes
<1>1. /\ releaseSeq <= releaseSeq' /\ publishSeq <= publishSeq'
      /\ \A k \in releaseSeq .. publishSeq : Begins(k)' = Begins(k)
  BY Steady
<1>2. \A k \in releaseSeq .. publishSeq - 1 : Same(GpSlotOf(k))
  BY HeldSlots
<1>3. ASSUME NEW k \in releaseSeq .. publishSeq - 1 PROVE Stored(k)'
  <2>1. k \in releaseSeq .. publishSeq /\ k + 1 \in releaseSeq .. publishSeq
    BY <1>0
  <2>2. Begins(k)' = Begins(k) /\ Begins(k + 1)' = Begins(k + 1) /\ Same(GpSlotOf(k)) /\ Stored(k)
    BY <1>1, <1>2, <2>1 DEF Batches
  <2> QED BY <2>2 DEF Same, Stored
<1>4. ASSUME NEW k \in releaseSeq .. publishSeq PROVE Begins(k) \in Nat
  BY <1>0 DEF Begins
<1>5. CASE publishSeq' = publishSeq
  <2>1. \A k \in releaseSeq' .. publishSeq' - 1 : k \in releaseSeq .. publishSeq - 1
    BY <1>0, <1>1, <1>5
  <2>2. \A k \in releaseSeq' .. publishSeq' : k \in releaseSeq .. publishSeq
    BY <1>0, <1>1, <1>5
  <2> QED BY <1>1, <1>3, <2>1, <2>2 DEF Batches
<1>6. CASE /\ publishSeq' = publishSeq + 1 /\ PublishRows
           /\ counts'[GpSlotOf(publishSeq)] = count /\ starts'[GpSlotOf(publishSeq)] = publishedPtr
           /\ \A j \in 1 .. count : ingress'[GpSlotOf(publishSeq)][j] = publishedPtr + j - 1
  <2>0. PICK p \in Nat : p = publishSeq
    BY <1>0
  <2>1. /\ publishedPtr' = publishedPtr + count /\ count \in 1 .. SlotRows
        /\ releaseSeq <= publishSeq
    BY <1>6, Outstanding DEF PublishRows, Permits, IngressTypes
  <2>2. /\ Begins(p) = publishedPtr /\ Begins(p)' = publishedPtr
        /\ Begins(p + 1)' = publishedPtr + count
    <3>1. p < publishSeq' /\ ~(p + 1 < publishSeq') /\ ~(p < publishSeq)
      BY <1>0, <1>6, <2>0
    <3> QED BY <1>6, <2>0, <2>1, <3>1 DEF Begins
  <2>3. Stored(p)'
    BY <1>6, <2>0, <2>1, <2>2 DEF Stored
  <2>4. \A k \in releaseSeq' .. publishSeq' - 1 : k \in releaseSeq .. publishSeq - 1 \/ k = p
    BY <1>0, <1>1, <1>6, <2>0
  <2>5. ASSUME NEW k \in releaseSeq' .. publishSeq', NEW l \in releaseSeq' .. publishSeq', k < l
        PROVE  Begins(k)' < Begins(l)'
    <3>1. CASE l \in releaseSeq .. publishSeq
      <4>1. k \in releaseSeq .. publishSeq
        BY <1>0, <1>1, <2>5, <3>1
      <4> QED BY <1>1, <2>5, <3>1, <4>1 DEF Batches
    <3>2. CASE l = p + 1
      <4>1. k \in releaseSeq .. publishSeq
        BY <1>0, <1>1, <1>6, <2>0, <2>5, <3>2
      <4>2. Begins(k) <= publishedPtr
        <5>1. CASE k = p
          BY <1>0, <2>2, <5>1
        <5>2. CASE k # p
          <6>1. k < p /\ p \in releaseSeq .. publishSeq
            BY <1>0, <2>0, <2>1, <4>1, <5>2
          <6>2. Begins(k) < Begins(p)
            BY <4>1, <6>1 DEF Batches
          <6> QED BY <1>0, <1>4, <2>2, <4>1, <6>2
        <5> QED BY <5>1, <5>2
      <4>3. Begins(k)' = Begins(k) /\ Begins(k) \in Nat
        BY <1>1, <1>4, <4>1
      <4> QED BY <1>0, <2>1, <2>2, <3>2, <4>2, <4>3
    <3> QED BY <1>0, <1>1, <1>6, <2>0, <3>1, <3>2
  <2> QED BY <1>3, <2>3, <2>4, <2>5 DEF Batches
<1> QED BY <1>5, <1>6, HeldSlots

-----------------------------------------------------------------------------
(* The types of the device and of the threads                                  *)

LEMMA TakenTypes ==
  ASSUME IngressTypes
  PROVE  TakenSpan \in Spans /\ TakenSpan = Span(consumeSeq)
<1>1. GpSlotOf(consumeSeq) \in Slots
  BY SlotTypes DEF IngressTypes
<1> QED BY <1>1 DEF TakenSpan, Span, Spans, IngressTypes

LEMMA SubmitTypes ==
  ASSUME IngressTypes, DeviceTypes, ThreadTypes, NEW thread, SubmitSpan(thread)
  PROVE  /\ stream' \in Seq(StreamOps) /\ spanEvents' \in Seq(Spans)
         /\ submittedPtr' \in Nat
<1>1. TakenSpan \in Spans
  BY TakenTypes
<1>2. [kind |-> "copy", span |-> TakenSpan] \in StreamOps
  BY <1>1 DEF StreamOps
<1>3. TakenSpan.start \in Nat /\ TakenSpan.count \in 0 .. SlotRows
  BY <1>1 DEF Spans
<1>4. stream' \in Seq(StreamOps) /\ spanEvents' \in Seq(Spans)
  BY <1>1, <1>2, Appended DEF SubmitSpan, DeviceTypes, ThreadTypes
<1>5. submittedPtr' = TakenSpan.start + TakenSpan.count
  BY DEF SubmitSpan, SubmittedAfter
<1>6. submittedPtr' \in Nat
  BY <1>3, <1>5
<1> QED BY <1>4, <1>6

LEMMA CommitTypes ==
  ASSUME ThreadTypes, NEW thread, CommitSpan(thread)
  PROVE  spanEvents' \in Seq(Spans) /\ visiblePtr' \in Nat
  BY HeadSpan DEF CommitSpan, CopyDone, ThreadTypes

LEMMA Domains ==
  ASSUME NEW n \in Nat PROVE Lesser(n, Capacity) \in 0 .. Capacity /\ Lesser(n, Capacity) <= n
  BY Capacities DEF Lesser

\* An operation of the side stream by its kind.
LEMMA OpTypes ==
  ASSUME NEW o \in StreamOps
  PROVE  /\ IsCopy(o) => o.span \in Spans
         /\ IsGather(o) => o.slot \in {0, 1} /\ o.size \in 0 .. Capacity
         /\ IsCopy(o) \/ IsGather(o) \/ o.kind = "wait"
         /\ ~(IsCopy(o) /\ IsGather(o)) /\ (o.kind = "wait" => ~IsCopy(o) /\ ~IsGather(o))
  BY DEF StreamOps, IsCopy, IsGather

LEMMA HeadOp ==
  ASSUME DeviceTypes, stream # << >>
  PROVE  /\ Head(stream) \in StreamOps /\ Tail(stream) \in Seq(StreamOps)
         /\ Head(stream) = stream[1] /\ Len(stream) \in Nat \ {0}
         /\ Len(Tail(stream)) = Len(stream) - 1
         /\ \A i \in 1 .. Len(stream) - 1 : Tail(stream)[i] = stream[i + 1]
  BY Tailed DEF DeviceTypes

LEMMA HeadCompute ==
  ASSUME DeviceTypes, compute # << >>
  PROVE  /\ Head(compute) \in ComputeOps /\ Tail(compute) \in Seq(ComputeOps)
         /\ Head(compute) = compute[1] /\ Len(compute) \in Nat \ {0}
         /\ Len(Tail(compute)) = Len(compute) - 1
         /\ \A i \in 1 .. Len(compute) - 1 : Tail(compute)[i] = compute[i + 1]
  BY Tailed DEF DeviceTypes

\* The rows a snapshot clones.
Fresh == Lesser(IF visiblePtr > statsPtr THEN visiblePtr - statsPtr ELSE 0, Capacity)

LEMMA FreshRows ==
  ASSUME ThreadTypes PROVE Fresh \in 0 .. Capacity /\ Fresh <= visiblePtr
  BY Capacities DEF Fresh, Lesser, ThreadTypes

LEMMA CopyTypes ==
  ASSUME IngressTypes, DeviceTypes, ExecuteCopy
  PROVE  storage' \in [0 .. Capacity - 1 -> Int]
<1> DEFINE span == Head(stream).span
<1>1. span \in Spans
  BY HeadOp, OpTypes DEF ExecuteCopy
<1>2. ingress[span.slot] \in [1 .. SlotRows -> Int] /\ span.start \in Nat /\ span.count \in 0 .. SlotRows
  BY <1>1 DEF Spans, IngressTypes
<1>3. storage' = Overwritten(span)
  BY DEF ExecuteCopy
<1> HIDE DEF span
<1> SUFFICES ASSUME NEW i \in 0 .. Capacity - 1
             PROVE  (LET j == (i - span.start) % Capacity
                     IN  IF j < span.count THEN ingress[span.slot][j + 1] ELSE storage[i]) \in Int
  BY <1>3 DEF Overwritten
<1>4. (i - span.start) % Capacity \in 0 .. Capacity - 1
  BY <1>2, Capacities, PlaceInSpan
<1>5. storage[i] \in Int
  BY DEF DeviceTypes
<1> QED BY <1>2, <1>4, <1>5

LEMMA DeviceTypes_Step ==
  ASSUME IngressTypes, DeviceTypes, ThreadTypes, [GpNext]_gpVars PROVE DeviceTypes'
<1> USE DEF deviceVars
<1>1. CASE Collect(GpCollector)
  BY <1>1 DEF Collect, DeviceTypes
<1>2. CASE ExecuteCopy
  BY <1>2, CopyTypes, HeadOp DEF ExecuteCopy, DeviceTypes
<1>3. CASE ExecuteGather
  <2> DEFINE o == Head(stream)
             rows == {storage[i] : i \in 0 .. o.size - 1}
  <2>1. o \in StreamOps /\ IsGather(o)
    BY <1>3, HeadOp DEF ExecuteGather
  <2>2. o.slot \in {0, 1} /\ o.size \in 0 .. Capacity
    BY <2>1, OpTypes
  <2>3. rows \subseteq Int
    BY <2>2, Capacities DEF DeviceTypes
  <2>4. batch' = [batch EXCEPT ![o.slot] = rows] /\ stream' = Tail(stream)
    BY <1>3 DEF ExecuteGather
  <2> HIDE DEF rows, o
  <2>5. batch' \in [{0, 1} -> SUBSET Int]
    BY <2>2, <2>3, <2>4 DEF DeviceTypes
  <2> QED BY <1>3, <2>5, HeadOp DEF ExecuteGather, DeviceTypes
<1>4. CASE ExecuteWait
  BY <1>4, HeadOp DEF ExecuteWait, DeviceTypes
<1>5. CASE ExecuteClone \/ ExecuteTrain
  BY <1>5, HeadCompute DEF ExecuteClone, ExecuteTrain, DeviceTypes
<1>6. CASE Quiet
  BY <1>6 DEF Quiet, DeviceTypes
<1>7. CASE Submits
  BY <1>7, SubmitTypes DEF Submits, SubmitSpan, DeviceTypes
<1>8. CASE Commits
  BY <1>8 DEF Commits, CommitSpan, DeviceTypes
<1>9. CASE SyncLook \/ SyncNote \/ GpBeginUpdate \/ Sample \/ Prefetch
  BY <1>9 DEF SyncLook, SyncNote, GpBeginUpdate, Sample, Prefetch, DeviceTypes
<1>10. CASE SyncGather
  <2>1. [kind |-> "gather", slot |-> Cold, size |-> domain] \in StreamOps
    BY DEF StreamOps, ThreadTypes, Cold
  <2>2. Append(stream, [kind |-> "gather", slot |-> Cold, size |-> domain]) \in Seq(StreamOps)
    BY <2>1, Appended DEF DeviceTypes
  <2> QED BY <1>10, <2>2 DEF SyncGather, DeviceTypes
<1>11. CASE ReadFields
  <2>1. [kind |-> "wait"] \in StreamOps
    BY DEF StreamOps
  <2>2. [kind |-> "clone", from |-> visiblePtr - Fresh, upto |-> visiblePtr] \in ComputeOps
    BY FreshRows DEF ComputeOps, ThreadTypes
  <2>3. /\ stream' = Append(stream, [kind |-> "wait"])
        /\ compute' = Append(compute, [kind |-> "clone", from |-> visiblePtr - Fresh, upto |-> visiblePtr])
    BY <1>11 DEF ReadFields, FieldOrder, Fresh
  <2>4. stream' \in Seq(StreamOps) /\ compute' \in Seq(ComputeOps)
    BY <2>1, <2>2, <2>3, Appended DEF DeviceTypes
  <2> QED BY <1>11, <2>4 DEF ReadFields, DeviceTypes
<1>12. CASE Train
  <2>1. [kind |-> "train", slot |-> hot] \in ComputeOps
    BY DEF ComputeOps, ThreadTypes
  <2>2. Append(compute, [kind |-> "train", slot |-> hot]) \in Seq(ComputeOps)
    BY <2>1, Appended DEF DeviceTypes
  <2> QED BY <1>12, <2>2 DEF Train, DeviceTypes
<1>13. CASE UNCHANGED gpVars
  BY <1>6, <1>13, NoStep
<1> QED BY <1>1, <1>2, <1>3, <1>4, <1>5, <1>6, <1>7, <1>8, <1>9, <1>10, <1>11, <1>12, <1>13, Kinds
        DEF Device

LEMMA ThreadTypes_Step ==
  ASSUME IngressTypes, DeviceTypes, ThreadTypes, [GpNext]_gpVars PROVE ThreadTypes'
<1> USE DEF spanVars, prepVars, syncVars, learnerVars
<1>0. publishedPtr \in Nat /\ ptr \in Nat
  BY DEF IngressTypes
<1>1. CASE Collect(GpCollector) \/ Device
  BY <1>1 DEF Collect, Device, ExecuteCopy, ExecuteGather, ExecuteWait, ExecuteClone, ExecuteTrain, ThreadTypes
<1>2. CASE Submits
  BY <1>2, SubmitTypes DEF Submits, SubmitSpan, ThreadTypes
<1>3. CASE Commits
  BY <1>3, CommitTypes DEF Commits, CommitSpan, ThreadTypes
<1>4. CASE SyncLook
  BY <1>4, Domains DEF SyncLook, SampleDomain, ThreadTypes
<1>5. CASE SyncGather
  BY <1>5, Capacities DEF SyncGather, ThreadTypes
<1>6. CASE SyncNote
  BY <1>6 DEF SyncNote, ThreadTypes, Cold
<1>7. CASE Sync /\ Quiet
  BY <1>7 DEF Sync, SyncDrain, SyncCheck, SyncLook, SyncGather, SyncNote, SyncSubmit, Unlock, CommitSpan,
              SubmitSpan, Quiet, ThreadTypes
<1>8. CASE Tick
  BY <1>0, <1>8, LeadAssumption DEF Tick, ThreadTypes
<1>9. CASE GpBeginUpdate
  BY <1>0, <1>9 DEF GpBeginUpdate, Prepare, ThreadTypes
<1>10. CASE ReadPublished
  BY <1>0, <1>10 DEF ReadPublished, ThreadTypes
<1>11. CASE ReadFields
  BY <1>11 DEF ReadFields, ThreadTypes
<1>12. CASE Sample
  BY <1>12 DEF Sample, ThreadTypes, None
<1>13. CASE Prefetch
  BY <1>13 DEF Prefetch, Prepare, ThreadTypes
<1>14. CASE GpFinishUpdate
  BY <1>14, GpMaxIterationsAssumption DEF GpFinishUpdate, ThreadTypes
<1>15. CASE WaitForCopies \/ EndProgress \/ GpAnotherTick \/ Train \/ CollectorDied \/ ClosePipeline
            \/ PipelineJoined \/ CloseRunner
  BY <1>15 DEF WaitForCopies, EndProgress, GpAnotherTick, Train, CollectorDied, ClosePipeline, PipelineJoined,
       CloseRunner,
               Unlock, ThreadTypes
<1>16. CASE (LearnerSubmit \/ LearnerCommit \/ CatchUp) /\ Quiet
  BY <1>16 DEF LearnerSubmit, LearnerCommit, CatchUp, Quiet, ThreadTypes
<1>17. CASE UNCHANGED gpVars
  BY <1>17 DEF gpVars, ThreadTypes
<1>18. CASE LearnerSubmit \/ LearnerCommit \/ CatchUp
  BY <1>2, <1>3, <1>16, <1>18, LearnersKinds DEF LearnerKinds, LearnerSubmit, LearnerCommit, CatchUp,
       GpBeginUpdate,
     ReadFields, Sample, Prefetch, Train, GpGo, GpLearner
<1>19. CASE Sync
  BY <1>2, <1>3, <1>4, <1>5, <1>6, <1>7, <1>19, SyncKinds
<1> QED BY <1>1, <1>8, <1>9, <1>10, <1>11, <1>12, <1>13, <1>14, <1>15, <1>17, <1>18, <1>19 DEF GpNext, GpLearner

-----------------------------------------------------------------------------
(* The spans on their way                                                      *)

LEMMA BeginsTypes ==
  ASSUME IngressTypes, NEW k \in Nat
        PROVE Begins(k) \in Nat /\ (k < publishSeq => Begins(k) = starts[GpSlotOf(k)])
  BY SlotTypes DEF Begins, IngressTypes

\* The pointers and the events of a step that takes and commits nothing.
LEMMA SubmittedKept ==
  ASSUME IngressTypes, ThreadTypes, Permits, Submitted, [GpNext]_gpVars,
         UNCHANGED <<spanEvents, consumeSeq, releaseSeq, ptr, submittedPtr, visiblePtr>>
  PROVE  Submitted'
<1>0. releaseSeq \in Nat /\ consumeSeq \in Nat /\ releaseSeq <= consumeSeq /\ consumeSeq <= publishSeq
      /\ publishSeq \in Nat
  BY DEF IngressTypes, Permits
<1>1. PICK r \in Nat, c \in Nat : r = releaseSeq /\ c = consumeSeq
  BY <1>0
<1>2. /\ \A k \in r .. c - 1 : Span(k)' = Span(k)
      /\ Begins(r)' = Begins(r) /\ Begins(c)' = Begins(c)
  <2>1. \A k \in r .. c - 1 : k \in releaseSeq .. publishSeq - 1
    BY <1>0, <1>1
  <2>2. r \in releaseSeq .. publishSeq /\ c \in releaseSeq .. publishSeq
    BY <1>0, <1>1
  <2> QED BY <2>1, <2>2, Steady
<1>3. /\ Len(spanEvents) = c - r
      /\ \A i \in 1 .. Len(spanEvents) : spanEvents[i] = Span(r + i - 1)
      /\ ptr = Begins(r) /\ visiblePtr = ptr /\ submittedPtr = Begins(c)
  BY <1>1 DEF Submitted
<1>4. ASSUME NEW i \in 1 .. Len(spanEvents) PROVE spanEvents[i] = Span(r + i - 1)'
  <2>1. r + i - 1 \in r .. c - 1
    BY <1>1, <1>3
  <2> QED BY <1>2, <1>3, <2>1
<1>5. /\ Len(spanEvents') = c - r
      /\ \A i \in 1 .. Len(spanEvents') : spanEvents'[i] = Span(r + i - 1)'
      /\ ptr' = Begins(r)' /\ visiblePtr' = ptr' /\ submittedPtr' = Begins(c)'
  BY <1>2, <1>3, <1>4
<1>6. releaseSeq' = r /\ consumeSeq' = c
  BY <1>1
<1> QED BY <1>5, <1>6 DEF Submitted

LEMMA Submitted_Step ==
  ASSUME IngressTypes, DeviceTypes, ThreadTypes, Permits, Batches, Submitted, [GpNext]_gpVars
  PROVE  Submitted'
<1>0. releaseSeq \in Nat /\ consumeSeq \in Nat /\ releaseSeq <= consumeSeq /\ consumeSeq <= publishSeq
      /\ publishSeq \in Nat
  BY DEF IngressTypes, Permits
<1>1. PICK r \in Nat, c \in Nat : r = releaseSeq /\ c = consumeSeq
  BY <1>0
<1>2. /\ Len(spanEvents) = c - r
      /\ \A i \in 1 .. Len(spanEvents) : spanEvents[i] = Span(r + i - 1)
      /\ ptr = Begins(r) /\ visiblePtr = ptr /\ submittedPtr = Begins(c)
  BY <1>1 DEF Submitted
<1>3. \A k \in releaseSeq .. publishSeq - 1 :
        /\ Span(k)' = Span(k) /\ Begins(k)' = Begins(k) /\ Begins(k + 1)' = Begins(k + 1)
        /\ Span(k).start = Begins(k) /\ Begins(k + 1) = Begins(k) + Span(k).count
  <2> SUFFICES ASSUME NEW k \in releaseSeq .. publishSeq - 1
               PROVE  /\ Span(k)' = Span(k) /\ Begins(k)' = Begins(k) /\ Begins(k + 1)' = Begins(k + 1)
                      /\ Span(k).start = Begins(k) /\ Begins(k + 1) = Begins(k) + Span(k).count
    OBVIOUS
  <2>1. k \in Nat /\ k < publishSeq /\ k \in releaseSeq .. publishSeq /\ k + 1 \in releaseSeq .. publishSeq
    BY <1>0
  <2>2. Span(k)' = Span(k) /\ Begins(k)' = Begins(k) /\ Begins(k + 1)' = Begins(k + 1)
    BY <2>1, Steady
  <2>3. Begins(k) = starts[GpSlotOf(k)]
    BY <2>1, BeginsTypes
  <2>4. Begins(k + 1) = Begins(k) + counts[GpSlotOf(k)]
    BY DEF Batches, Stored
  <2> QED BY <2>2, <2>3, <2>4 DEF Span
<1>4. CASE Submits
  <2>1. PICK thread \in Threads : SubmitSpan(thread)
    BY <1>4 DEF Submits
  <2>2. /\ spanEvents' = Append(spanEvents, Span(c)) /\ submittedPtr' = Span(c).start + Span(c).count
        /\ ready > 0 /\ consumeSeq' = c + 1
        /\ UNCHANGED <<visiblePtr, releaseSeq, ptr>>
    BY <1>1, <2>1, TakenTypes DEF SubmitSpan, SubmittedAfter, TakePublished
  <2>3. c \in releaseSeq .. publishSeq - 1
    BY <1>0, <1>1, <2>2 DEF Permits, IngressTypes
  <2>4. Span(c) \in Spans
    BY <1>1, TakenTypes
  <2>5. /\ Len(spanEvents') = Len(spanEvents) + 1 /\ Len(spanEvents) \in Nat
        /\ \A i \in 1 .. Len(spanEvents) : spanEvents'[i] = spanEvents[i]
        /\ spanEvents'[Len(spanEvents) + 1] = Span(c)
    BY <2>2, <2>4, Appended DEF ThreadTypes
  <2>6. ASSUME NEW i \in 1 .. Len(spanEvents') PROVE spanEvents'[i] = Span(r + i - 1)'
    <3>1. r + i - 1 \in releaseSeq .. publishSeq - 1
      BY <1>0, <1>1, <1>2, <2>3, <2>5
    <3>2. Span(r + i - 1)' = Span(r + i - 1)
      BY <1>3, <3>1
    <3>3. CASE i \in 1 .. Len(spanEvents)
      BY <1>2, <2>5, <3>2, <3>3
    <3>4. CASE i = Len(spanEvents) + 1
      <4>1. r + i - 1 = c
        BY <1>1, <1>2, <3>4
      <4> QED BY <2>5, <3>2, <3>4, <4>1
    <3> QED BY <2>5, <3>3, <3>4
  <2>7. submittedPtr' = Begins(c + 1)'
    BY <1>3, <2>2, <2>3
  <2>8. Begins(r)' = Begins(r)
    <3>1. r \in releaseSeq .. publishSeq - 1
      BY <1>0, <1>1, <2>3
    <3> QED BY <1>3, <3>1
  <2>9. releaseSeq' = r /\ consumeSeq' = c + 1 /\ Len(spanEvents') = (c + 1) - r
        /\ ptr' = Begins(r)' /\ visiblePtr' = ptr'
    BY <1>1, <1>2, <2>2, <2>5, <2>8
  <2> QED BY <2>6, <2>7, <2>9 DEF Submitted
<1>5. CASE Commits
  <2>1. PICK thread \in Threads : CommitSpan(thread)
    BY <1>5 DEF Commits
  <2>2. /\ spanEvents # << >> /\ spanEvents' = Tail(spanEvents) /\ releaseSeq' = r + 1
        /\ ptr' = Head(spanEvents).start + Head(spanEvents).count
        /\ visiblePtr' = Head(spanEvents).start + Head(spanEvents).count
        /\ UNCHANGED <<submittedPtr, consumeSeq>>
    BY <1>1, <2>1 DEF CommitSpan, CopyDone, CommitIngress
  <2>3. /\ r < c /\ Head(spanEvents) = Span(r)
        /\ \A i \in 1 .. Len(spanEvents) - 1 : spanEvents'[i] = spanEvents[i + 1]
        /\ Len(spanEvents') = Len(spanEvents) - 1 /\ Len(spanEvents) \in Nat \ {0}
    BY <1>1, <2>2, Outstanding
  <2>4. r \in releaseSeq .. publishSeq - 1 /\ c - 1 \in releaseSeq .. publishSeq - 1
    BY <1>0, <1>1, <2>3
  <2>5. ASSUME NEW i \in 1 .. Len(spanEvents') PROVE spanEvents'[i] = Span((r + 1) + i - 1)'
    <3>1. r + (i + 1) - 1 \in releaseSeq .. publishSeq - 1 /\ i + 1 \in 1 .. Len(spanEvents)
          /\ i \in 1 .. Len(spanEvents) - 1
      BY <1>0, <1>1, <1>2, <2>3
    <3>2. Span(r + (i + 1) - 1)' = Span(r + (i + 1) - 1)
      BY <1>3, <3>1
    <3>3. spanEvents'[i] = Span(r + (i + 1) - 1)
      BY <1>2, <2>3, <3>1
    <3>4. r + (i + 1) - 1 = (r + 1) + i - 1
      BY <1>1, <2>3
    <3> QED BY <3>2, <3>3, <3>4
  <2>6. ptr' = Begins(r + 1)' /\ visiblePtr' = ptr'
    BY <1>3, <2>2, <2>3, <2>4
  <2>7. submittedPtr' = Begins(c)'
    <3>1. (c - 1) + 1 = c
      BY <1>1
    <3>2. Begins((c - 1) + 1)' = Begins((c - 1) + 1)
      BY <1>3, <2>4
    <3> QED BY <1>2, <2>2, <3>1, <3>2
  <2>8. releaseSeq' = r + 1 /\ consumeSeq' = c /\ Len(spanEvents') = c - (r + 1)
    BY <1>1, <1>2, <2>2, <2>3
  <2> QED BY <2>5, <2>6, <2>7, <2>8 DEF Submitted
<1>6. CASE UNCHANGED <<spanEvents, consumeSeq, releaseSeq, ptr, submittedPtr, visiblePtr>>
  BY <1>6, SubmittedKept
<1>7. CASE Collect(GpCollector)
  BY <1>6, <1>7 DEF Collect, GpCollector, BeginAdd, Add, Acquire, GiveUp, PublishRows, Signal, AddFails,
       AdderKilled, spanVars
<1>8. CASE Device
  BY <1>6, <1>8 DEF Device, ExecuteCopy, ExecuteGather, ExecuteWait, ExecuteClone, ExecuteTrain,
       ingressVars, spanVars
<1>9. CASE Quiet \/ UNCHANGED gpVars
  BY <1>6, <1>9, NoStep DEF Quiet
<1>10. CASE SyncLook \/ SyncGather \/ SyncNote \/ GpBeginUpdate \/ ReadFields \/ Sample \/ Prefetch \/ Train
  BY <1>6, <1>10 DEF SyncLook, SyncGather, SyncNote, GpBeginUpdate, ReadFields, Sample, Prefetch, Train,
       ingressVars, spanVars
<1> QED BY <1>4, <1>5, <1>7, <1>8, <1>9, <1>10, Kinds

-----------------------------------------------------------------------------
(* What the side stream still has to do                                        *)

\* The hypotheses that each of the following lemmas has of a step.
StepInv == IngressTypes /\ DeviceTypes /\ ThreadTypes /\ Permits /\ Batches /\ Submitted

LEMMA InRange ==
  ASSUME StepInv, NEW x \in releaseSeq .. consumeSeq
  PROVE  /\ x \in Nat /\ consumeSeq \in Nat /\ releaseSeq \in Nat /\ publishSeq \in Nat
        /\ consumeSeq <= publishSeq
         /\ x \in releaseSeq .. publishSeq
         /\ \A k \in x .. consumeSeq - 1 : k \in releaseSeq .. publishSeq - 1 /\ k \in Nat
         /\ Len(stream) \in Nat /\ Len(compute) \in Nat
  BY DEF StepInv, IngressTypes, DeviceTypes, Permits

\* A batch in flight: its span, its rows and its place in the stream of rows.
LEMMA Flying ==
  ASSUME StepInv, NEW x \in releaseSeq .. consumeSeq, NEW k \in x .. consumeSeq - 1
  PROVE  /\ Span(k).slot = GpSlotOf(k) /\ Span(k).start = Begins(k) /\ Begins(k) \in Nat
         /\ Span(k).count \in 1 .. SlotRows
         /\ Begins(k + 1) = Begins(k) + Span(k).count
         /\ \A j \in 1 .. Span(k).count : ingress[GpSlotOf(k)][j] = Begins(k) + j - 1
         /\ \A l \in x .. consumeSeq : k < l => Begins(k) < Begins(l)
<1>1. k \in releaseSeq .. publishSeq - 1 /\ k \in Nat /\ k < publishSeq
  BY InRange
<1>2. Stored(k)
  BY <1>1 DEF StepInv, Batches
<1>3. Begins(k) = starts[GpSlotOf(k)] /\ Begins(k) \in Nat
  BY <1>1, BeginsTypes DEF StepInv
<1>4. ASSUME NEW l \in x .. consumeSeq, k < l PROVE Begins(k) < Begins(l)
  <2>1. k \in releaseSeq .. publishSeq /\ l \in releaseSeq .. publishSeq
    BY <1>1, InRange
  <2> QED BY <1>4, <2>1 DEF StepInv, Batches
<1> QED BY <1>2, <1>3, <1>4 DEF Span, Stored

LEMMA FlyingKept ==
  ASSUME StepInv, [GpNext]_gpVars, NEW x \in releaseSeq .. consumeSeq
  PROVE  /\ Begins(x)' = Begins(x)
         /\ \A k \in x .. consumeSeq - 1 : Span(k)' = Span(k)
<1>1. /\ \A k \in releaseSeq .. publishSeq - 1 : Span(k)' = Span(k)
      /\ \A k \in releaseSeq .. publishSeq : Begins(k)' = Begins(k)
  BY Steady DEF StepInv
<1> QED BY <1>1, InRange

\* The stream is what it was, with a new last operation that copies nothing or
\* without its first, which copied nothing.
LEMMA InFlightKept ==
  ASSUME StepInv, [GpNext]_gpVars, NEW x \in releaseSeq .. consumeSeq, InFlight(x),
         consumeSeq' = consumeSeq, stream' = stream
  PROVE  InFlight(x)'
<1>1. \A k \in x .. consumeSeq - 1 : Span(k)' = Span(k)
  BY FlyingKept
<1> QED BY <1>1 DEF InFlight

LEMMA InFlightAppended ==
  ASSUME StepInv, [GpNext]_gpVars, NEW x \in releaseSeq .. consumeSeq, InFlight(x),
         consumeSeq' = consumeSeq, NEW o \in StreamOps, ~IsCopy(o), stream' = Append(stream, o)
  PROVE  InFlight(x)'
<1>1. \A k \in x .. consumeSeq - 1 : Span(k)' = Span(k)
  BY FlyingKept
<1>2. /\ Len(stream') = Len(stream) + 1 /\ Len(stream) \in Nat
      /\ \A i \in 1 .. Len(stream) : stream'[i] = stream[i]
      /\ stream'[Len(stream) + 1] = o
  BY Appended DEF StepInv, DeviceTypes
<1>3. ASSUME NEW i \in 1 .. Len(stream'), IsCopy(stream'[i])
      PROVE  i \in 1 .. Len(stream) /\ stream'[i] = stream[i]
  BY <1>2, <1>3
<1>4. \A i \in 1 .. Len(stream') :
        IsCopy(stream'[i]) => \E k \in x .. consumeSeq' - 1 : stream'[i].span = Span(k)'
  BY <1>1, <1>3 DEF InFlight
<1>5. \A k \in x .. consumeSeq' - 1 :
        \E i \in 1 .. Len(stream') : IsCopy(stream'[i]) /\ stream'[i].span = Span(k)'
  <2> SUFFICES ASSUME NEW k \in x .. consumeSeq - 1
               PROVE  \E i \in 1 .. Len(stream') : IsCopy(stream'[i]) /\ stream'[i].span = Span(k)'
    OBVIOUS
  <2>1. PICK i \in 1 .. Len(stream) : IsCopy(stream[i]) /\ stream[i].span = Span(k)
    BY DEF InFlight
  <2>2. i \in 1 .. Len(stream') /\ stream'[i] = stream[i]
    BY <1>2
  <2> QED BY <1>1, <2>1, <2>2
<1>6. \A i, j \in 1 .. Len(stream') :
        i < j /\ IsCopy(stream'[i]) /\ IsCopy(stream'[j]) => stream'[i].span.start < stream'[j].span.start
  BY <1>3 DEF InFlight
<1> QED BY <1>4, <1>5, <1>6 DEF InFlight, IsCopy

LEMMA InFlightTail ==
  ASSUME StepInv, [GpNext]_gpVars, NEW x \in releaseSeq .. consumeSeq, InFlight(x),
         consumeSeq' = consumeSeq, stream # << >>, ~IsCopy(Head(stream)), stream' = Tail(stream)
  PROVE  InFlight(x)'
<1>1. \A k \in x .. consumeSeq - 1 : Span(k)' = Span(k)
  BY FlyingKept
<1>2. /\ Len(stream') = Len(stream) - 1 /\ Len(stream) \in Nat \ {0}
      /\ \A i \in 1 .. Len(stream) - 1 : stream'[i] = stream[i + 1]
      /\ Head(stream) = stream[1]
  BY HeadOp DEF StepInv
<1>3. ASSUME NEW i \in 1 .. Len(stream')
      PROVE  i + 1 \in 1 .. Len(stream) /\ stream'[i] = stream[i + 1]
  BY <1>2
<1>4. \A i \in 1 .. Len(stream') :
        IsCopy(stream'[i]) => \E k \in x .. consumeSeq' - 1 : stream'[i].span = Span(k)'
  BY <1>1, <1>3 DEF InFlight
<1>5. \A k \in x .. consumeSeq' - 1 :
        \E i \in 1 .. Len(stream') : IsCopy(stream'[i]) /\ stream'[i].span = Span(k)'
  <2> SUFFICES ASSUME NEW k \in x .. consumeSeq - 1
               PROVE  \E i \in 1 .. Len(stream') : IsCopy(stream'[i]) /\ stream'[i].span = Span(k)'
    OBVIOUS
  <2>1. PICK i \in 1 .. Len(stream) : IsCopy(stream[i]) /\ stream[i].span = Span(k)
    BY DEF InFlight
  <2>2. i - 1 \in 1 .. Len(stream') /\ stream'[i - 1] = stream[i]
    <3>1. i # 1
      BY <1>2, <2>1
    <3>2. i - 1 \in 1 .. Len(stream) - 1 /\ (i - 1) + 1 = i
      BY <1>2, <3>1
    <3> QED BY <1>2, <3>2
  <2> QED BY <1>1, <2>1, <2>2
<1>6. \A i, j \in 1 .. Len(stream') :
        i < j /\ IsCopy(stream'[i]) /\ IsCopy(stream'[j]) => stream'[i].span.start < stream'[j].span.start
  <2> SUFFICES ASSUME NEW i \in 1 .. Len(stream'), NEW j \in 1 .. Len(stream'), i < j,
                      IsCopy(stream'[i]), IsCopy(stream'[j])
               PROVE  stream'[i].span.start < stream'[j].span.start
    OBVIOUS
  <2>1. i + 1 < j + 1 /\ i + 1 \in 1 .. Len(stream) /\ j + 1 \in 1 .. Len(stream)
    BY <1>2
  <2> QED BY <1>3, <2>1 DEF InFlight
<1> QED BY <1>4, <1>5, <1>6 DEF InFlight, IsCopy

\* The same gathers are in the stream.
SameGathers ==
  /\ \A i \in 1 .. Len(stream') : IsGather(stream'[i]) =>
       \E j \in 1 .. Len(stream) : stream[j] = stream'[i]
  /\ \A j \in 1 .. Len(stream) : IsGather(stream[j]) =>
       \E i \in 1 .. Len(stream') : stream'[i] = stream[j]

\* ... nothing that they depend on has changed, and the rows have not become fewer.
LEMMA GatheringKept ==
  ASSUME NEW e \in Nat, NEW f \in Nat, e <= f, Gathering(e), SameGathers,
         UNCHANGED <<batch, gpPrepared, requiredPtr, hot, domain>>,
         sync' = sync \/ {sync, sync'} \cap AtGather = {}
  PROVE  Gathering(f)'
<1>1. Gathered' <=> Gathered
  BY DEF Gathered, AtGather
<1>2. ASSUME NEW n, Reaches(n, e) PROVE Reaches(n, f)'
  BY <1>2 DEF Reaches
<1>3. sync' = "gathering" => sync = "gathering"
  BY DEF AtGather
<1>4. Cold' = Cold /\ (Covers(batch[Cold], requiredPtr)' <=> Covers(batch[Cold], requiredPtr))
  BY DEF Cold, Covers
<1>5. ASSUME NEW i \in 1 .. Len(stream'), IsGather(stream'[i])
      PROVE  stream'[i].slot = Cold' /\ Reaches(stream[i].size, f)' /\ Gathered'
  <2>1. PICK j \in 1 .. Len(stream) : stream[j] = stream'[i]
    BY <1>5 DEF SameGathers
  <2>2. stream[j].slot = Cold /\ Reaches(stream[j].size, e) /\ Gathered
    BY <1>5, <2>1 DEF Gathering
  <2> DEFINE n == stream'[i].size
  <2>3. Reaches(n, e)
    BY <2>1, <2>2
  <2>4. Reaches(stream[i].size, f)'
    BY <2>3 DEF Reaches
  <2> QED BY <1>1, <1>4, <2>1, <2>2, <2>4
<1>6. ASSUME Gathered'
      PROVE (\E i \in 1 .. Len(stream') : IsGather(stream'[i])) \/ Covers(batch[Cold], requiredPtr)'
  <2>1. CASE Covers(batch[Cold], requiredPtr)
    BY <1>4, <2>1
  <2>2. CASE \E j \in 1 .. Len(stream) : IsGather(stream[j])
    BY <2>2 DEF SameGathers
  <2> QED BY <1>1, <1>6, <2>1, <2>2 DEF Gathering
<1>7. sync' = "gathering" => Reaches(domain, f)'
  BY <1>3 DEF Gathering, Reaches
<1> QED BY <1>5, <1>6, <1>7 DEF Gathering, IsGather

\* The clones are of those before, and the stream has the same beginning.
LEMMA CloningKept ==
  ASSUME NEW e \in Nat, Cloning(e), Len(stream) \in Nat, Len(stream') \in Nat, Len(stream) <= Len(stream'),
         \A i \in 1 .. Len(stream) : stream'[i] = stream[i],
         \A i \in 1 .. Len(compute') : compute'[i].kind = "clone" =>
            \E j \in 1 .. Len(compute) : compute[j] = compute'[i]
  PROVE  Cloning(e)'
<1> SUFFICES ASSUME NEW i \in 1 .. Len(compute'), compute'[i].kind = "clone"
             PROVE  /\ compute'[i].upto = e /\ e <= compute'[i].from + Capacity
                    /\ \E w \in 1 .. Len(stream') :
                         stream'[w].kind = "wait" /\ \A v \in 1 .. w : ~IsCopy(stream'[v])
  BY DEF Cloning, IsCopy
<1>1. PICK j \in 1 .. Len(compute) : compute[j] = compute'[i]
  OBVIOUS
<1>2. /\ compute'[i].upto = e /\ e <= compute'[i].from + Capacity
      /\ \E w \in 1 .. Len(stream) : stream[w].kind = "wait" /\ \A v \in 1 .. w : ~IsCopy(stream[v])
  BY <1>1 DEF Cloning
<1>3. PICK w \in 1 .. Len(stream) : stream[w].kind = "wait" /\ \A v \in 1 .. w : ~IsCopy(stream[v])
  BY <1>2
<1>4. w \in 1 .. Len(stream') /\ stream'[w].kind = "wait" /\ \A v \in 1 .. w : ~IsCopy(stream'[v])
  BY <1>3
<1> QED BY <1>2, <1>4

LEMMA NoClones ==
  ASSUME NEW f \in Nat, \A i \in 1 .. Len(compute') : compute'[i].kind # "clone" PROVE Cloning(f)'
  BY DEF Cloning

-----------------------------------------------------------------------------
(* The copies executed, the rows on the ring and the gathers and clones        *)

LEMMA SameStream ==
  ASSUME UNCHANGED stream PROVE SameGathers
  BY DEF SameGathers

\* A step that leaves the side stream and the ring alone.
LEMMA StreamUntouched ==
  ASSUME StepInv, Executed, [GpNext]_gpVars, UNCHANGED <<stream, storage, consumeSeq, releaseSeq>>,
         \A i \in 1 .. Len(compute') : compute'[i].kind = "clone" =>
            \E j \in 1 .. Len(compute) : compute[j] = compute'[i],
         \A x \in releaseSeq .. consumeSeq, e \in Nat : ReachedBy(x, e) => Gathering(e)'
  PROVE  Executed'
<1>1. PICK x \in releaseSeq .. consumeSeq, e \in Nat : ReachedBy(x, e)
  BY DEF Executed
<1>2. Begins(x)' = e
  BY <1>1, FlyingKept DEF ReachedBy
<1>3. InFlight(x)'
  BY <1>1, InFlightKept DEF ReachedBy
<1>4. Cloning(e)'
  <2>1. Len(stream) \in Nat
    BY InRange
  <2>2. Len(stream') \in Nat /\ Len(stream) <= Len(stream')
        /\ \A i \in 1 .. Len(stream) : stream'[i] = stream[i]
    BY <2>1
  <2> QED BY <1>1, <2>1, <2>2, CloningKept DEF ReachedBy
<1>5. RingHolds(storage, e)'
  BY <1>1 DEF ReachedBy, RingHolds
<1>6. ReachedBy(x, e)'
  BY <1>1, <1>2, <1>3, <1>4, <1>5 DEF ReachedBy
<1>7. x \in releaseSeq' .. consumeSeq'
  OBVIOUS
<1> QED BY <1>6, <1>7 DEF Executed

LEMMA SameCompute ==
  ASSUME UNCHANGED compute
  PROVE  \A i \in 1 .. Len(compute') : compute'[i].kind = "clone" =>
            \E j \in 1 .. Len(compute) : compute[j] = compute'[i]
  OBVIOUS

\* The prefetch is where it was.
LEMMA PrefetchUntouched ==
  ASSUME UNCHANGED <<stream, batch, gpPrepared, requiredPtr, hot, domain>>,
         sync' = sync \/ {sync, sync'} \cap AtGather = {}
  PROVE  \A x \in releaseSeq .. consumeSeq, e \in Nat : ReachedBy(x, e) => Gathering(e)'
<1> SUFFICES ASSUME NEW e \in Nat, Gathering(e) PROVE Gathering(e)'
  BY DEF ReachedBy
<1>1. e <= e
  OBVIOUS
<1> QED BY <1>1, SameStream, GatheringKept

LEMMA Executed_Untouched ==
  ASSUME StepInv, Executed, [GpNext]_gpVars, Collect(GpCollector) \/ Quiet PROVE Executed'
<1>1. /\ UNCHANGED <<stream, storage, consumeSeq, releaseSeq, compute, batch, gpPrepared, requiredPtr, hot,
            domain>>
      /\ sync' = sync \/ {sync, sync'} \cap AtGather = {}
  BY DEF Quiet, Collect, GpCollector, BeginAdd, Add, Acquire, GiveUp, PublishRows, Signal, AddFails, AdderKilled,
         deviceVars, prepVars, syncVars
<1> QED BY <1>1, SameCompute, PrefetchUntouched, StreamUntouched

LEMMA Executed_Train ==
  ASSUME StepInv, Executed, [GpNext]_gpVars, Train PROVE Executed'
<1>1. /\ UNCHANGED <<stream, storage, consumeSeq, releaseSeq, batch, gpPrepared, requiredPtr, hot, domain,
            sync>>
      /\ compute' = Append(compute, [kind |-> "train", slot |-> hot])
  BY DEF Train, ingressVars, prepVars, syncVars
<1>2. [kind |-> "train", slot |-> hot] \in ComputeOps
  BY DEF ComputeOps, StepInv, ThreadTypes
<1>3. /\ Len(compute') = Len(compute) + 1 /\ Len(compute) \in Nat
      /\ \A i \in 1 .. Len(compute) : compute'[i] = compute[i]
      /\ compute'[Len(compute) + 1] = [kind |-> "train", slot |-> hot]
  BY <1>1, <1>2, Appended DEF StepInv, DeviceTypes
<1>4. ASSUME NEW i \in 1 .. Len(compute'), compute'[i].kind = "clone"
      PROVE  \E j \in 1 .. Len(compute) : compute[j] = compute'[i]
  <2>1. i # Len(compute) + 1
    BY <1>3, <1>4
  <2>2. i \in 1 .. Len(compute)
    BY <1>3, <2>1
  <2> QED BY <1>3, <2>2
<1> QED BY <1>1, <1>4, PrefetchUntouched, StreamUntouched

\* The rows committed are on the ring.
LEMMA CommittedRows ==
  ASSUME StepInv, NEW x \in releaseSeq .. consumeSeq, NEW e \in Nat, e = Begins(x)
  PROVE  visiblePtr \in Nat /\ visiblePtr <= e /\ (x = releaseSeq => visiblePtr = e)
<1>1. PICK r \in Nat : r = releaseSeq
  BY InRange
<1>2. visiblePtr = Begins(r)
  BY <1>1 DEF StepInv, Submitted
<1>3. r \in releaseSeq .. publishSeq /\ x \in releaseSeq .. publishSeq
  BY <1>1, InRange
<1>4. r < x => Begins(r) < Begins(x)
  BY <1>3 DEF StepInv, Batches
<1>5. r = x \/ r < x
  BY <1>1, InRange
<1> QED BY <1>1, <1>2, <1>4, <1>5 DEF StepInv, ThreadTypes

LEMMA Executed_Look ==
  ASSUME StepInv, Executed, Prefetching, [GpNext]_gpVars, SyncLook PROVE Executed'
<1>1. /\ UNCHANGED <<stream, storage, consumeSeq, releaseSeq, compute, batch, gpPrepared, requiredPtr, hot>>
      /\ sync = "looking"
  BY DEF SyncLook, ingressVars, deviceVars, prepVars
<1>2. CASE sync' = "submitting" /\ domain' = domain
  <2>1. {sync, sync'} \cap AtGather = {}
    BY <1>1, <1>2 DEF AtGather
  <2> QED BY <1>1, <1>2, <2>1, SameCompute, PrefetchUntouched, StreamUntouched
<1>3. CASE sync' = "gathering" /\ domain' = SampleDomain /\ BoundaryReached
  <2>1. ASSUME NEW x \in releaseSeq .. consumeSeq, NEW e \in Nat, ReachedBy(x, e) PROVE Gathering(e)'
    <3>1. visiblePtr \in 0 .. e
      BY <2>1, CommittedRows DEF ReachedBy
    <3>2. Reaches(domain, e)'
      BY <1>1, <1>3, <3>1 DEF Reaches, SampleDomain, BoundaryReached
    <3>3. (Gathered' <=> Gathered) /\ Cold' = Cold
      BY <1>1, <1>3 DEF Gathered, Cold
    <3>4. ASSUME NEW i \in 1 .. Len(stream), IsGather(stream[i])
          PROVE  stream[i].slot = Cold /\ Reaches(stream[i].size, e)' /\ Gathered
      <4>1. stream[i].slot = Cold /\ Reaches(stream[i].size, e) /\ Gathered
        BY <2>1, <3>4 DEF ReachedBy, Gathering
      <4> QED BY <1>1, <4>1 DEF Reaches
    <3>5. Covers(batch[Cold], requiredPtr)' <=> Covers(batch[Cold], requiredPtr)
      BY <1>1, <3>3 DEF Covers
    <3>6. Gathered => (\E i \in 1 .. Len(stream) : IsGather(stream[i])) \/ Covers(batch[Cold], requiredPtr)
      BY <2>1 DEF ReachedBy, Gathering
    <3> QED BY <1>1, <3>2, <3>3, <3>4, <3>5, <3>6 DEF Gathering, IsGather
  <2> QED BY <1>1, <2>1, SameCompute, StreamUntouched
<1> QED BY <1>2, <1>3 DEF SyncLook

LEMMA Executed_Note ==
  ASSUME StepInv, Executed, Prefetching, [GpNext]_gpVars, SyncNote PROVE Executed'
<1>1. /\ UNCHANGED <<stream, storage, consumeSeq, releaseSeq, compute, batch, requiredPtr, hot, domain>>
      /\ sync = "noting" /\ sync' = "submitting"
      /\ gpPrepared' = [tick |-> prepTick, ptr |-> visiblePtr, slot |-> Cold]
  BY DEF SyncNote, ingressVars, deviceVars
<1>2. prepTick # 0
  BY <1>1 DEF Prefetching
<1>3. gpPrepared'.tick = prepTick /\ None.tick = 0
  BY <1>1 DEF None
<1>4. gpPrepared' # None' /\ None' = None
  BY <1>2, <1>3 DEF None
<1>5. Gathered /\ Gathered' /\ Cold' = Cold
  BY <1>1, <1>4 DEF Gathered, Cold
<1>6. ASSUME NEW x \in releaseSeq .. consumeSeq, NEW e \in Nat, ReachedBy(x, e) PROVE Gathering(e)'
  <2>1. ASSUME NEW i \in 1 .. Len(stream), IsGather(stream[i])
        PROVE  stream[i].slot = Cold /\ Reaches(stream[i].size, e)'
    <3>1. stream[i].slot = Cold /\ Reaches(stream[i].size, e)
      BY <1>6, <2>1 DEF ReachedBy, Gathering
    <3> QED BY <1>1, <3>1 DEF Reaches
  <2>2. Covers(batch[Cold], requiredPtr)' <=> Covers(batch[Cold], requiredPtr)
    BY <1>1, <1>5 DEF Covers
  <2>3. (\E i \in 1 .. Len(stream) : IsGather(stream[i])) \/ Covers(batch[Cold], requiredPtr)
    BY <1>5, <1>6 DEF ReachedBy, Gathering
  <2> QED BY <1>1, <1>5, <2>1, <2>2, <2>3 DEF Gathering, IsGather
<1> QED BY <1>1, <1>6, SameCompute, StreamUntouched

\* A new boundary is only set when nothing is being gathered.
LEMMA Executed_NotGathered ==
  ASSUME StepInv, Executed, [GpNext]_gpVars,
         UNCHANGED <<stream, storage, consumeSeq, releaseSeq, compute>>,
         ~Gathered', sync' # "gathering",
         \A i \in 1 .. Len(stream) : ~IsGather(stream[i])
  PROVE  Executed'
<1>1. ASSUME NEW x \in releaseSeq .. consumeSeq, NEW e \in Nat, ReachedBy(x, e) PROVE Gathering(e)'
  BY DEF Gathering, IsGather
<1> QED BY <1>1, SameCompute, StreamUntouched

LEMMA NoGathers ==
  ASSUME Executed, ~Gathered PROVE \A i \in 1 .. Len(stream) : ~IsGather(stream[i])
  BY DEF Executed, ReachedBy, Gathering

LEMMA Executed_Prepare ==
  ASSUME StepInv, Executed, Prefetching, [GpNext]_gpVars, GpBeginUpdate \/ Prefetch PROVE Executed'
<1>1. UNCHANGED <<stream, storage, consumeSeq, releaseSeq, compute, batch, domain, sync>>
  BY DEF GpBeginUpdate, Prefetch, ingressVars, deviceVars, syncVars
<1>2. CASE UNCHANGED prepVars
  BY <1>1, <1>2, SameCompute, PrefetchUntouched, StreamUntouched DEF prepVars
<1>3. CASE prepTick = 0 /\ gpPrepared' = gpPrepared
  <2>1. gpPrepared = None /\ sync \notin AtGather
    BY <1>3 DEF Prefetching, AtGather
  <2>2. ~Gathered /\ ~Gathered' /\ sync' # "gathering"
    BY <1>1, <1>3, <2>1 DEF Gathered, AtGather, None
  <2> QED BY <1>1, <2>2, NoGathers, Executed_NotGathered
<1>4. UNCHANGED prepVars \/ (prepTick = 0 /\ gpPrepared' = gpPrepared)
  <2>1. CASE GpBeginUpdate
    BY <2>1 DEF GpBeginUpdate, GpGo, Prepare, Prefetching
  <2>2. CASE Prefetch
    BY <2>2 DEF Prefetch, GpGo, Prepare, Prefetching
  <2> QED BY <2>1, <2>2
<1> QED BY <1>2, <1>3, <1>4

LEMMA Executed_Sample ==
  ASSUME StepInv, Executed, Prefetching, [GpNext]_gpVars, Sample PROVE Executed'
<1>1. /\ UNCHANGED <<stream, storage, consumeSeq, releaseSeq, compute, sync>>
      /\ gpPrepared # None /\ gpPrepared' = None /\ GatherDone
  BY DEF Sample, ingressVars, deviceVars, syncVars
<1>2. sync \notin AtGather /\ gpPrepared.slot = Cold
  BY <1>1 DEF Prefetching, AtGather
<1>3. ~Gathered' /\ sync' # "gathering"
  BY <1>1, <1>2 DEF Gathered, AtGather, None
<1>4. \A i \in 1 .. Len(stream) : IsGather(stream[i]) => stream[i].slot = Cold
  BY DEF Executed, ReachedBy, Gathering
<1>5. \A i \in 1 .. Len(stream) : ~IsGather(stream[i])
  BY <1>1, <1>2, <1>4 DEF GatherDone
<1> QED BY <1>1, <1>3, <1>5, Executed_NotGathered

LEMMA CopyTaken ==
  ASSUME StepInv
  PROVE  LET o == [kind |-> "copy", span |-> TakenSpan]
         IN  o \in StreamOps /\ IsCopy(o) /\ ~IsGather(o) /\ o.span = TakenSpan
<1>1. TakenSpan \in Spans
  BY TakenTypes DEF StepInv
<1> QED BY <1>1 DEF StreamOps, IsCopy, IsGather

LEMMA Executed_Submit ==
  ASSUME StepInv, Executed, [GpNext]_gpVars, Submits PROVE Executed'
<1>1. PICK x \in releaseSeq .. consumeSeq, e \in Nat : ReachedBy(x, e)
  BY DEF Executed
<1>2. PICK c \in Nat : c = consumeSeq
  BY InRange
<1> DEFINE o == [kind |-> "copy", span |-> TakenSpan]
<1>3. o \in StreamOps /\ IsCopy(o) /\ ~IsGather(o) /\ o.span = Span(c)
  BY <1>2, CopyTaken, TakenTypes DEF StepInv
<1>4. /\ stream' = Append(stream, o) /\ consumeSeq' = c + 1
      /\ c < publishSeq /\ c \in releaseSeq .. publishSeq - 1
      /\ UNCHANGED <<storage, batch, compute, releaseSeq, gpPrepared, requiredPtr, hot, domain, sync>>
  <2>1. PICK thread \in Threads : SubmitSpan(thread)
    BY DEF Submits
  <2>2. ready > 0
    BY <2>1 DEF SubmitSpan, TakePublished
  <2>3. c < publishSeq /\ c \in releaseSeq .. publishSeq - 1
    BY <1>2, <2>2 DEF StepInv, Permits, IngressTypes
  <2> QED BY <1>2, <2>1, <2>3 DEF Submits, SubmitSpan, TakePublished, prepVars, syncVars
<1> HIDE DEF o
<1>5. /\ Len(stream') = Len(stream) + 1 /\ Len(stream) \in Nat
      /\ \A i \in 1 .. Len(stream) : stream'[i] = stream[i]
      /\ stream'[Len(stream) + 1] = o
  BY <1>3, <1>4, Appended DEF StepInv, DeviceTypes
<1>6. Begins(x)' = e /\ \A k \in x .. c - 1 : Span(k)' = Span(k)
  BY <1>1, <1>2, FlyingKept DEF ReachedBy
<1>7. Span(c)' = Span(c) /\ Span(c).start = Begins(c) /\ Begins(c) \in Nat
  <2>1. Span(c)' = Span(c)
    BY <1>4, Steady DEF StepInv
  <2>2. Begins(c) = starts[GpSlotOf(c)] /\ Begins(c) \in Nat
    BY <1>4, BeginsTypes DEF StepInv
  <2> QED BY <2>1, <2>2 DEF Span
<1>8. \A k \in x .. c - 1 : Span(k).start < Begins(c)
  <2> SUFFICES ASSUME NEW k \in x .. c - 1 PROVE Span(k).start < Begins(c)
    OBVIOUS
  <2>1. k \in x .. consumeSeq - 1 /\ c \in x .. consumeSeq /\ k < c
    BY <1>2, InRange
  <2> QED BY <2>1, Flying
<1>9. InFlight(x)'
  <2>1. ASSUME NEW i \in 1 .. Len(stream'), IsCopy(stream'[i])
        PROVE  \/ i \in 1 .. Len(stream) /\ IsCopy(stream[i]) /\ stream'[i] = stream[i]
               \/ i = Len(stream) + 1 /\ stream'[i].span = Span(c)
    BY <1>3, <1>5, <2>1
  <2>2. \A i \in 1 .. Len(stream) : IsCopy(stream[i]) => \E k \in x .. c - 1 : stream[i].span = Span(k)
    BY <1>1, <1>2 DEF ReachedBy, InFlight
  <2>3. x \in Nat /\ x <= c
    BY <1>2, InRange
  <2>4. ASSUME NEW i \in 1 .. Len(stream'), IsCopy(stream'[i])
        PROVE  \E k \in x .. consumeSeq' - 1 : stream'[i].span = Span(k)'
    <3>1. CASE i \in 1 .. Len(stream) /\ IsCopy(stream[i]) /\ stream'[i] = stream[i]
      <4>1. PICK k \in x .. c - 1 : stream[i].span = Span(k)
        BY <2>2, <3>1
      <4>2. k \in x .. consumeSeq' - 1
        BY <1>4, <2>3
      <4> QED BY <1>6, <3>1, <4>1, <4>2
    <3>2. CASE i = Len(stream) + 1 /\ stream'[i].span = Span(c)
      <4>1. c \in x .. consumeSeq' - 1
        BY <1>4, <2>3
      <4> QED BY <1>7, <3>2, <4>1
    <3> QED BY <2>1, <2>4, <3>1, <3>2
  <2>5. ASSUME NEW k \in x .. consumeSeq' - 1
        PROVE  \E i \in 1 .. Len(stream') : IsCopy(stream'[i]) /\ stream'[i].span = Span(k)'
    <3>1. CASE k = c
      <4>1. Len(stream) + 1 \in 1 .. Len(stream')
        BY <1>5
      <4> QED BY <1>3, <1>5, <1>7, <3>1, <4>1
    <3>2. CASE k # c
      <4>1. k \in x .. c - 1
        BY <1>4, <2>3, <3>2
      <4>2. PICK i \in 1 .. Len(stream) : IsCopy(stream[i]) /\ stream[i].span = Span(k)
        BY <1>1, <1>2, <4>1 DEF ReachedBy, InFlight
      <4>3. i \in 1 .. Len(stream') /\ stream'[i] = stream[i]
        BY <1>5
      <4> QED BY <1>6, <4>1, <4>2, <4>3
    <3> QED BY <3>1, <3>2
  <2>6. ASSUME NEW i \in 1 .. Len(stream'), NEW j \in 1 .. Len(stream'), i < j,
               IsCopy(stream'[i]), IsCopy(stream'[j])
        PROVE  stream'[i].span.start < stream'[j].span.start
    <3>1. i \in 1 .. Len(stream) /\ IsCopy(stream[i]) /\ stream'[i] = stream[i]
      BY <1>5, <2>1, <2>6
    <3>2. CASE j \in 1 .. Len(stream) /\ IsCopy(stream[j]) /\ stream'[j] = stream[j]
      BY <1>1, <2>6, <3>1, <3>2 DEF ReachedBy, InFlight
    <3>3. CASE stream'[j].span = Span(c)
      BY <1>7, <1>8, <2>2, <3>1, <3>3
    <3> QED BY <2>1, <2>6, <3>2, <3>3
  <2> QED BY <2>4, <2>5, <2>6 DEF InFlight, IsCopy
<1>10. Cloning(e)'
  BY <1>1, <1>4, <1>5, CloningKept DEF ReachedBy
<1>11. SameGathers
  <2>1. ASSUME NEW i \in 1 .. Len(stream'), IsGather(stream'[i])
        PROVE \E j \in 1 .. Len(stream) : stream[j] = stream'[i]
    <3>1. i \in 1 .. Len(stream)
      BY <1>3, <1>5, <2>1
    <3> QED BY <1>5, <3>1
  <2>2. ASSUME NEW j \in 1 .. Len(stream) PROVE \E i \in 1 .. Len(stream') : stream'[i] = stream[j]
    <3>1. j \in 1 .. Len(stream') /\ stream'[j] = stream[j]
      BY <1>5
    <3> QED BY <3>1
  <2> QED BY <2>1, <2>2 DEF SameGathers
<1>12. Gathering(e)'
  <2>1. e <= e
    OBVIOUS
  <2> QED BY <1>1, <1>4, <1>11, <2>1, GatheringKept DEF ReachedBy
<1>13. RingHolds(storage, e)'
  BY <1>1, <1>4 DEF ReachedBy, RingHolds
<1>14. ReachedBy(x, e)'
  BY <1>6, <1>9, <1>10, <1>12, <1>13 DEF ReachedBy
<1>15. x \in releaseSeq' .. consumeSeq'
  BY <1>2, <1>4, InRange
<1> QED BY <1>14, <1>15 DEF Executed

\* A commit waits for the copy, so it never overtakes the device.
LEMMA Executed_Commit ==
  ASSUME StepInv, Executed, [GpNext]_gpVars, Commits PROVE Executed'
<1>1. PICK x \in releaseSeq .. consumeSeq, e \in Nat : ReachedBy(x, e)
  BY DEF Executed
<1>2. PICK thread \in Threads : CommitSpan(thread)
  BY DEF Commits
<1>3. /\ UNCHANGED <<stream, storage, batch, compute, consumeSeq, gpPrepared, requiredPtr, hot, domain, sync>>
      /\ releaseSeq' = releaseSeq + 1 /\ CopyDone
  BY <1>2 DEF Commits, CommitSpan, CommitIngress, deviceVars, prepVars, syncVars
<1>4. releaseSeq < consumeSeq /\ Head(spanEvents) = Span(releaseSeq)
  BY <1>3, Outstanding DEF StepInv, CopyDone
<1>5. x # releaseSeq
  <2> SUFFICES ASSUME x = releaseSeq PROVE FALSE
    OBVIOUS
  <2>1. x \in x .. consumeSeq - 1
    BY <1>4, InRange
  <2>2. PICK i \in 1 .. Len(stream) : IsCopy(stream[i]) /\ stream[i].span = Span(x)
    BY <1>1, <2>1 DEF ReachedBy, InFlight
  <2> QED BY <1>3, <1>4, <2>2 DEF CopyDone
<1>6. Begins(x)' = e
  BY <1>1, FlyingKept DEF ReachedBy
<1>7. InFlight(x)'
  BY <1>1, <1>3, InFlightKept DEF ReachedBy
<1>8. Cloning(e)'
  <2>1. Len(stream) \in Nat
    BY InRange
  <2>2. Len(stream') \in Nat /\ Len(stream) <= Len(stream')
        /\ \A i \in 1 .. Len(stream) : stream'[i] = stream[i]
    BY <1>3, <2>1
  <2> QED BY <1>1, <1>3, <2>1, <2>2, CloningKept DEF ReachedBy
<1>9. Gathering(e)'
  BY <1>1, <1>3, PrefetchUntouched
<1>10. RingHolds(storage, e)'
  BY <1>1, <1>3 DEF ReachedBy, RingHolds
<1>11. ReachedBy(x, e)'
  BY <1>6, <1>7, <1>8, <1>9, <1>10 DEF ReachedBy
<1>12. x \in releaseSeq' .. consumeSeq'
  BY <1>3, <1>5, InRange
<1> QED BY <1>11, <1>12 DEF Executed

LEMMA Executed_Gather ==
  ASSUME StepInv, Executed, Prefetching, [GpNext]_gpVars, SyncGather PROVE Executed'
<1>1. PICK x \in releaseSeq .. consumeSeq, e \in Nat : ReachedBy(x, e)
  BY DEF Executed
<1> DEFINE o == [kind |-> "gather", slot |-> Cold, size |-> domain]
<1>2. o \in StreamOps /\ IsGather(o) /\ ~IsCopy(o) /\ o.slot = Cold /\ o.size = domain
  BY DEF StreamOps, IsGather, IsCopy, Cold, StepInv, ThreadTypes
<1>3. /\ stream' = Append(stream, o) /\ sync = "gathering" /\ sync' = "noting"
      /\ UNCHANGED <<storage, batch, compute, releaseSeq, consumeSeq, gpPrepared, requiredPtr, hot>>
  BY DEF SyncGather, ingressVars, prepVars
<1> HIDE DEF o
<1>4. /\ Len(stream') = Len(stream) + 1 /\ Len(stream) \in Nat
      /\ \A i \in 1 .. Len(stream) : stream'[i] = stream[i]
      /\ stream'[Len(stream) + 1] = o
  BY <1>2, <1>3, Appended DEF StepInv, DeviceTypes
<1>5. Begins(x)' = e
  BY <1>1, FlyingKept DEF ReachedBy
<1>6. InFlight(x)'
  BY <1>1, <1>2, <1>3, InFlightAppended DEF ReachedBy
<1>7. Cloning(e)'
  BY <1>1, <1>3, <1>4, CloningKept DEF ReachedBy
<1>8. Gathering(e)'
  <2>1. ~Gathered
    BY <1>3 DEF Prefetching, Gathered
  <2>2. \A i \in 1 .. Len(stream) : ~IsGather(stream[i])
    BY <2>1, NoGathers
  <2>3. Reaches(domain, e) /\ Cold' = Cold /\ Gathered' /\ sync' # "gathering"
    BY <1>1, <1>3 DEF ReachedBy, Gathering, Cold, Gathered
  <2>4. ASSUME NEW i \in 1 .. Len(stream'), IsGather(stream'[i])
        PROVE  stream'[i].slot = Cold' /\ Reaches(stream[i].size, e)'
    <3>1. i = Len(stream) + 1
      BY <1>4, <2>2, <2>4
    <3>2. stream'[i].size = domain /\ stream'[i].slot = Cold
      BY <1>2, <1>4, <3>1
    <3> QED BY <1>3, <2>3, <3>2 DEF Reaches
  <2>5. Len(stream) + 1 \in 1 .. Len(stream') /\ IsGather(stream'[Len(stream) + 1])
    BY <1>2, <1>4
  <2> QED BY <2>3, <2>4, <2>5 DEF Gathering, IsGather
<1>9. RingHolds(storage, e)'
  BY <1>1, <1>3 DEF ReachedBy, RingHolds
<1>10. ReachedBy(x, e)'
  BY <1>5, <1>6, <1>7, <1>8, <1>9 DEF ReachedBy
<1>11. x \in releaseSeq' .. consumeSeq'
  BY <1>3
<1> QED BY <1>10, <1>11 DEF Executed

\* A snapshot is taken when every copy has been executed and committed.
LEMMA Executed_Read ==
  ASSUME StepInv, Executed, Computing, [GpNext]_gpVars, ReadFields PROVE Executed'
<1>1. PICK x \in releaseSeq .. consumeSeq, e \in Nat : ReachedBy(x, e)
  BY DEF Executed
<1> DEFINE o == [kind |-> "wait"]
           clone == [kind |-> "clone", from |-> visiblePtr - Fresh, upto |-> visiblePtr]
<1>2. o \in StreamOps /\ ~IsGather(o) /\ ~IsCopy(o) /\ o.kind = "wait"
  BY DEF StreamOps, IsGather, IsCopy
<1>3. clone \in ComputeOps /\ clone.upto = visiblePtr /\ visiblePtr <= clone.from + Capacity
  BY FreshRows, Capacities DEF ComputeOps, StepInv, ThreadTypes
<1>4. /\ stream' = Append(stream, o) /\ compute' = Append(compute, clone) /\ compute = << >>
      /\ spanEvents = << >>
      /\ UNCHANGED <<storage, batch, releaseSeq, consumeSeq, gpPrepared, requiredPtr, hot, sync, domain>>
  BY DEF ReadFields, GpGo, Computing, AllCommitted, FieldOrder, Fresh, ingressVars, prepVars, syncVars
<1> HIDE DEF o, clone
<1>5. /\ Len(stream') = Len(stream) + 1 /\ Len(stream) \in Nat
      /\ \A i \in 1 .. Len(stream) : stream'[i] = stream[i]
      /\ stream'[Len(stream) + 1] = o
  BY <1>2, <1>4, Appended DEF StepInv, DeviceTypes
<1>6. consumeSeq = releaseSeq /\ x = releaseSeq
  <2>1. Len(spanEvents) = 0 /\ Len(spanEvents) = consumeSeq - releaseSeq
    BY <1>4 DEF StepInv, Submitted
  <2> QED BY <2>1, InRange
<1>7. e = visiblePtr
  BY <1>1, <1>6, CommittedRows DEF ReachedBy
<1>8. Begins(x)' = e
  BY <1>1, FlyingKept DEF ReachedBy
<1>9. InFlight(x)'
  BY <1>1, <1>2, <1>4, InFlightAppended DEF ReachedBy
<1>10. Cloning(e)'
  <2>1. Len(compute') = 1 /\ compute'[1] = clone
    BY <1>4
  <2>2. \A v \in 1 .. Len(stream) : ~IsCopy(stream[v])
    <3>1. ~\E k \in x .. consumeSeq - 1 : TRUE
      BY <1>6, InRange
    <3> QED BY <1>1, <3>1 DEF ReachedBy, InFlight
  <2>3. Len(stream) + 1 \in 1 .. Len(stream') /\ stream'[Len(stream) + 1].kind = "wait"
    BY <1>2, <1>5
  <2>4. \A v \in 1 .. Len(stream) + 1 : ~IsCopy(stream'[v])
    BY <1>2, <1>5, <2>2
  <2> SUFFICES ASSUME NEW i \in 1 .. Len(compute')
               PROVE  /\ compute'[i].upto = e /\ e <= compute'[i].from + Capacity
                      /\ \E w \in 1 .. Len(stream') :
                           stream'[w].kind = "wait" /\ \A v \in 1 .. w : ~IsCopy(stream'[v])
    BY DEF Cloning, IsCopy
  <2>5. i = 1
    BY <2>1
  <2> QED BY <1>3, <1>7, <2>1, <2>3, <2>4, <2>5
<1>11. SameGathers
  <2>1. ASSUME NEW i \in 1 .. Len(stream'), IsGather(stream'[i])
        PROVE \E j \in 1 .. Len(stream) : stream[j] = stream'[i]
    <3>1. i \in 1 .. Len(stream)
      BY <1>2, <1>5, <2>1
    <3> QED BY <1>5, <3>1
  <2>2. ASSUME NEW j \in 1 .. Len(stream) PROVE \E i \in 1 .. Len(stream') : stream'[i] = stream[j]
    <3>1. j \in 1 .. Len(stream') /\ stream'[j] = stream[j]
      BY <1>5
    <3> QED BY <3>1
  <2> QED BY <2>1, <2>2 DEF SameGathers
<1>12. Gathering(e)'
  <2>1. e <= e
    OBVIOUS
  <2> QED BY <1>1, <1>4, <1>11, <2>1, GatheringKept DEF ReachedBy
<1>13. RingHolds(storage, e)'
  BY <1>1, <1>4 DEF ReachedBy, RingHolds
<1>14. ReachedBy(x, e)'
  BY <1>8, <1>9, <1>10, <1>12, <1>13 DEF ReachedBy
<1>15. x \in releaseSeq' .. consumeSeq'
  BY <1>4
<1> QED BY <1>14, <1>15 DEF Executed

\* The tail of the stream keeps the gathers when its head is none.
LEMMA TailGathers ==
  ASSUME StepInv, stream # << >>, stream' = Tail(stream), ~IsGather(Head(stream)) PROVE SameGathers
<1>1. /\ Len(stream') = Len(stream) - 1 /\ Len(stream) \in Nat \ {0}
      /\ \A i \in 1 .. Len(stream) - 1 : stream'[i] = stream[i + 1]
      /\ Head(stream) = stream[1]
  BY HeadOp DEF StepInv
<1>2. ASSUME NEW i \in 1 .. Len(stream') PROVE \E j \in 1 .. Len(stream) : stream[j] = stream'[i]
  <2>1. i + 1 \in 1 .. Len(stream) /\ stream[i + 1] = stream'[i]
    BY <1>1
  <2> QED BY <2>1
<1>3. ASSUME NEW j \in 1 .. Len(stream), IsGather(stream[j])
      PROVE \E i \in 1 .. Len(stream') : stream'[i] = stream[j]
  <2>1. j # 1
    BY <1>1, <1>3
  <2>2. j - 1 \in 1 .. Len(stream') /\ j - 1 \in 1 .. Len(stream) - 1 /\ (j - 1) + 1 = j
    BY <1>1, <2>1
  <2>3. stream'[j - 1] = stream[j]
    BY <1>1, <2>2
  <2> QED BY <2>2, <2>3
<1> QED BY <1>2, <1>3 DEF SameGathers

\* The first copy in the stream is that of the first batch in flight.
LEMMA FirstCopy ==
  ASSUME StepInv, NEW x \in releaseSeq .. consumeSeq, NEW e \in Nat, ReachedBy(x, e),
         stream # << >>, IsCopy(Head(stream))
  PROVE  x < consumeSeq /\ Head(stream).span = Span(x)
<1>1. Head(stream) = stream[1] /\ Len(stream) \in Nat \ {0}
  BY HeadOp DEF StepInv
<1>2. 1 \in 1 .. Len(stream) /\ IsCopy(stream[1])
  BY <1>1
<1>3. PICK k \in x .. consumeSeq - 1 : stream[1].span = Span(k)
  BY <1>2 DEF ReachedBy, InFlight
<1>4. x \in Nat /\ consumeSeq \in Nat /\ k \in Nat /\ x <= k /\ k < consumeSeq
  BY <1>3, InRange
<1>5. CASE k # x
  <2>1. x \in x .. consumeSeq - 1 /\ k \in x .. consumeSeq /\ x < k
    BY <1>4, <1>5
  <2>2. Begins(x) < Begins(k) /\ Span(x).start = Begins(x)
    BY <2>1, Flying
  <2>3. Span(k).start = Begins(k) /\ Begins(k) \in Nat /\ Begins(x) \in Nat
    BY <1>3, <2>1, Flying
  <2>4. PICK i \in 1 .. Len(stream) : IsCopy(stream[i]) /\ stream[i].span = Span(x)
    BY <2>1 DEF ReachedBy, InFlight
  <2>5. i # 1
    BY <1>3, <2>2, <2>3, <2>4
  <2>6. 1 < i
    BY <1>1, <2>5
  <2>7. stream[1].span.start < stream[i].span.start
    BY <1>2, <2>4, <2>6 DEF ReachedBy, InFlight
  <2> QED BY <1>3, <2>2, <2>3, <2>4, <2>7
<1> QED BY <1>1, <1>3, <1>4, <1>5

LEMMA Executed_Copy ==
  ASSUME StepInv, Executed, [GpNext]_gpVars, ExecuteCopy PROVE Executed'
<1>1. PICK x \in releaseSeq .. consumeSeq, e \in Nat : ReachedBy(x, e)
  BY DEF Executed
<1>2. /\ stream # << >> /\ IsCopy(Head(stream)) /\ stream' = Tail(stream)
      /\ storage' = Overwritten(Head(stream).span)
      /\ UNCHANGED <<batch, compute, releaseSeq, consumeSeq, gpPrepared, requiredPtr, hot, sync, domain>>
  BY DEF ExecuteCopy, ingressVars, prepVars, syncVars
<1>3. x < consumeSeq /\ Head(stream).span = Span(x)
  BY <1>1, <1>2, FirstCopy
<1>4. x \in x .. consumeSeq - 1 /\ x + 1 \in x .. consumeSeq /\ x \in Nat /\ x + 1 \in releaseSeq .. consumeSeq
      /\ consumeSeq \in Nat
  BY <1>3, InRange
<1>5. PICK n \in 1 .. SlotRows : n = Span(x).count
  BY <1>4, Flying
<1>6. PICK f \in Nat : f = e + n /\ e <= f
  <2>1. e + n \in Nat /\ e <= e + n
    OBVIOUS
  <2> QED BY <2>1
<1>7. /\ Span(x).slot = GpSlotOf(x) /\ Span(x).start = e /\ n \in 1 .. SlotRows
      /\ Begins(x + 1) = f
      /\ \A j \in 1 .. n : ingress[GpSlotOf(x)][j] = e + j - 1
  BY <1>1, <1>4, <1>5, <1>6, Flying DEF ReachedBy
<1>8. Begins(x + 1)' = f
  BY <1>4, <1>7, FlyingKept
<1>9. \A k \in x .. consumeSeq - 1 : Span(k)' = Span(k)
  BY FlyingKept
<1>10. /\ Len(stream') = Len(stream) - 1 /\ Len(stream) \in Nat \ {0}
      /\ \A i \in 1 .. Len(stream) - 1 : stream'[i] = stream[i + 1]
      /\ Head(stream) = stream[1]
  BY <1>2, HeadOp DEF StepInv
<1>11. ASSUME NEW i \in 1 .. Len(stream')
       PROVE  i + 1 \in 1 .. Len(stream) /\ stream'[i] = stream[i + 1]
  BY <1>10
<1>12. InFlight(x + 1)'
  <2>1. ASSUME NEW i \in 1 .. Len(stream'), IsCopy(stream'[i])
        PROVE  \E k \in x + 1 .. consumeSeq - 1 : stream'[i].span = Span(k)'
    <3>1. i + 1 \in 1 .. Len(stream) /\ 1 \in 1 .. Len(stream) /\ 1 < i + 1
          /\ IsCopy(stream[i + 1]) /\ IsCopy(stream[1])
      BY <1>2, <1>10, <1>11, <2>1
    <3>2. PICK k \in x .. consumeSeq - 1 : stream[i + 1].span = Span(k)
      BY <1>1, <3>1 DEF ReachedBy, InFlight
    <3>3. stream[1].span.start < stream[i + 1].span.start
      BY <1>1, <3>1 DEF ReachedBy, InFlight
    <3>4. k # x
      BY <1>3, <1>7, <1>10, <3>2, <3>3
    <3>5. k \in x + 1 .. consumeSeq - 1
      BY <1>4, <3>2, <3>4
    <3> QED BY <1>9, <1>11, <3>2, <3>5
  <2>2. ASSUME NEW k \in x + 1 .. consumeSeq - 1
        PROVE  \E i \in 1 .. Len(stream') : IsCopy(stream'[i]) /\ stream'[i].span = Span(k)'
    <3>1. k \in x .. consumeSeq - 1 /\ k \in x .. consumeSeq /\ x < k
      BY <1>4
    <3>2. PICK i \in 1 .. Len(stream) : IsCopy(stream[i]) /\ stream[i].span = Span(k)
      BY <1>1, <3>1 DEF ReachedBy, InFlight
    <3>3. Begins(x) < Begins(k) /\ Span(k).start = Begins(k) /\ Span(x).start = Begins(x)
      BY <1>4, <3>1, Flying
    <3>4. i # 1
      BY <1>3, <1>10, <3>2, <3>3, <1>7, <1>4, Flying
    <3>5. i - 1 \in 1 .. Len(stream') /\ i - 1 \in 1 .. Len(stream) - 1 /\ (i - 1) + 1 = i
      BY <1>10, <3>4
    <3>6. stream'[i - 1] = stream[i]
      BY <1>10, <3>5
    <3> QED BY <1>9, <3>1, <3>2, <3>5, <3>6
  <2>3. ASSUME NEW i \in 1 .. Len(stream'), NEW j \in 1 .. Len(stream'), i < j,
               IsCopy(stream'[i]), IsCopy(stream'[j])
        PROVE  stream'[i].span.start < stream'[j].span.start
    <3>1. i + 1 < j + 1 /\ i + 1 \in 1 .. Len(stream) /\ j + 1 \in 1 .. Len(stream)
      BY <1>10, <2>3
    <3> QED BY <1>1, <1>11, <2>3, <3>1 DEF ReachedBy, InFlight
  <2> QED BY <1>2, <2>1, <2>2, <2>3 DEF InFlight, IsCopy
<1>13. RingHolds(storage, f)'
  <2>1. RingHolds(storage, e) /\ n \in 1 .. Capacity
    BY <1>1, <1>7, Capacities DEF ReachedBy
  <2>2. ASSUME NEW i \in 0 .. Capacity - 1
        PROVE  storage'[i] = IF (i - e) % Capacity < n THEN e + ((i - e) % Capacity) ELSE storage[i]
    <3> DEFINE j == (i - e) % Capacity
    <3>1. j \in 0 .. Capacity - 1
      BY Capacities, PlaceInSpan
    <3>2. storage'[i] = IF j < n THEN ingress[GpSlotOf(x)][j + 1] ELSE storage[i]
      BY <1>2, <1>3, <1>7, <1>5 DEF Overwritten
    <3> HIDE DEF j
    <3>3. CASE j < n
      <4>1. j + 1 \in 1 .. n
        BY <1>7, <3>1, <3>3
      <4>2. ingress[GpSlotOf(x)][j + 1] = e + (j + 1) - 1
        BY <1>7, <4>1
      <4>3. e + (j + 1) - 1 = e + j
        BY <3>1
      <4> QED BY <3>2, <3>3, <4>2, <4>3 DEF j
    <3>4. CASE ~(j < n)
      BY <3>2, <3>4 DEF j
    <3> QED BY <3>3, <3>4
  <2>3. PICK new : new = storage'
    OBVIOUS
  <2>4. RingHolds(new, f)
    BY <1>6, <2>1, <2>2, <2>3, RingAfterCopy
  <2> QED BY <2>3, <2>4 DEF RingHolds
<1>14. Cloning(f)'
  <2>1. ASSUME NEW i \in 1 .. Len(compute), compute[i].kind = "clone" PROVE FALSE
    <3>1. PICK w \in 1 .. Len(stream) : \A v \in 1 .. w : ~IsCopy(stream[v])
      BY <1>1, <2>1 DEF ReachedBy, Cloning
    <3>2. 1 \in 1 .. w
      BY <1>10
    <3> QED BY <1>2, <1>10, <3>1, <3>2
  <2> QED BY <1>2, <1>6, <2>1, NoClones
<1>15. Gathering(f)'
  <2>1. ~IsGather(Head(stream))
    BY <1>2 DEF IsGather, IsCopy
  <2> QED BY <1>1, <1>2, <1>6, <2>1, TailGathers, GatheringKept DEF ReachedBy
<1>16. ReachedBy(x + 1, f)'
  BY <1>8, <1>12, <1>13, <1>14, <1>15 DEF ReachedBy
<1>17. x + 1 \in releaseSeq' .. consumeSeq'
  BY <1>2, <1>4
<1> QED BY <1>6, <1>16, <1>17 DEF Executed

LEMMA Executed_GatherDone ==
  ASSUME StepInv, Executed, [GpNext]_gpVars, ExecuteGather PROVE Executed'
<1>1. PICK x \in releaseSeq .. consumeSeq, e \in Nat : ReachedBy(x, e)
  BY DEF Executed
<1> DEFINE o == Head(stream)
           rows == {storage[i] : i \in 0 .. o.size - 1}
<1>2. /\ stream # << >> /\ IsGather(o) /\ ~IsCopy(o) /\ stream' = Tail(stream)
      /\ batch' = [batch EXCEPT ![o.slot] = rows]
      /\ UNCHANGED <<storage, compute, releaseSeq, consumeSeq, gpPrepared, requiredPtr, hot, sync, domain>>
  BY DEF ExecuteGather, ingressVars, prepVars, syncVars, IsGather, IsCopy
<1>3. /\ Len(stream') = Len(stream) - 1 /\ Len(stream) \in Nat \ {0}
      /\ \A i \in 1 .. Len(stream) - 1 : stream'[i] = stream[i + 1]
      /\ o = stream[1]
  BY <1>2, HeadOp DEF StepInv
<1>4. o.slot = Cold /\ Reaches(o.size, e) /\ Gathered
  <2>1. 1 \in 1 .. Len(stream) /\ IsGather(stream[1])
    BY <1>2, <1>3
  <2> QED BY <1>1, <1>3, <2>1 DEF ReachedBy, Gathering
<1>5. Covers(rows, requiredPtr)
  <2>1. requiredPtr \in Nat
    BY DEF StepInv, ThreadTypes
  <2>2. PICK n : n = o.size
    OBVIOUS
  <2>3. Reaches(n, e) /\ rows = {storage[i] : i \in 0 .. n - 1}
    BY <1>4, <2>2
  <2>4. PICK old : old = storage
    OBVIOUS
  <2>5. Covers({old[i] : i \in 0 .. n - 1}, requiredPtr)
    BY <1>1, <2>1, <2>3, <2>4, GatherCovers DEF ReachedBy
  <2> QED BY <2>3, <2>4, <2>5
<1> HIDE DEF rows, o
<1>6. Begins(x)' = e
  BY <1>1, FlyingKept DEF ReachedBy
<1>7. InFlight(x)'
  BY <1>1, <1>2, InFlightTail DEF ReachedBy, o
<1>8. Cloning(e)'
  <2> SUFFICES ASSUME NEW i \in 1 .. Len(compute), compute[i].kind = "clone"
               PROVE  /\ compute[i].upto = e /\ e <= compute[i].from + Capacity
                      /\ \E w \in 1 .. Len(stream') :
                           stream'[w].kind = "wait" /\ \A v \in 1 .. w : ~IsCopy(stream'[v])
    BY <1>2 DEF Cloning, IsCopy
  <2>1. PICK w \in 1 .. Len(stream) : stream[w].kind = "wait" /\ \A v \in 1 .. w : ~IsCopy(stream[v])
    BY <1>1 DEF ReachedBy, Cloning
  <2>2. w # 1
    BY <1>2, <1>3, <2>1 DEF IsGather
  <2>3. w - 1 \in 1 .. Len(stream') /\ w - 1 \in 1 .. Len(stream) - 1 /\ (w - 1) + 1 = w
    BY <1>3, <2>2
  <2>4. stream'[w - 1] = stream[w]
    BY <1>3, <2>3
  <2>5. ASSUME NEW v \in 1 .. w - 1 PROVE ~IsCopy(stream'[v])
    <3>1. v \in 1 .. Len(stream) - 1 /\ v + 1 \in 1 .. w
      BY <1>3, <2>3
    <3> QED BY <1>3, <2>1, <3>1
  <2>6. compute[i].upto = e /\ e <= compute[i].from + Capacity
    BY <1>1 DEF ReachedBy, Cloning
  <2> QED BY <2>1, <2>3, <2>4, <2>5, <2>6
<1>9. Gathering(e)'
  <2>1. Cold' = Cold /\ (Gathered' <=> Gathered)
    BY <1>2 DEF Cold, Gathered, None
  <2>2. ASSUME NEW i \in 1 .. Len(stream'), IsGather(stream'[i])
        PROVE  stream'[i].slot = Cold' /\ Reaches(stream[i].size, e)'
    <3>1. i + 1 \in 1 .. Len(stream) /\ stream'[i] = stream[i + 1]
      BY <1>3
    <3>2. stream[i + 1].slot = Cold /\ Reaches(stream[i + 1].size, e)
      BY <1>1, <2>2, <3>1 DEF ReachedBy, Gathering
    <3> QED BY <1>2, <2>1, <3>1, <3>2 DEF Reaches
  <2>3. Covers(batch[Cold], requiredPtr)'
    <3>1. o.slot \in {0, 1}
      BY <1>2, HeadOp, OpTypes DEF StepInv, o
    <3>2. batch'[Cold'] = rows
      BY <1>2, <1>4, <2>1, <3>1 DEF StepInv, DeviceTypes
    <3> QED BY <1>2, <1>5, <3>2 DEF Covers
  <2>4. sync' = "gathering" => Reaches(domain, e)'
    BY <1>1, <1>2 DEF ReachedBy, Gathering, Reaches
  <2> QED BY <1>4, <2>1, <2>2, <2>3, <2>4 DEF Gathering, IsGather
<1>10. RingHolds(storage, e)'
  BY <1>1, <1>2 DEF ReachedBy, RingHolds
<1>11. ReachedBy(x, e)'
  BY <1>6, <1>7, <1>8, <1>9, <1>10 DEF ReachedBy
<1>12. x \in releaseSeq' .. consumeSeq'
  BY <1>2
<1> QED BY <1>11, <1>12 DEF Executed

LEMMA Executed_Wait ==
  ASSUME StepInv, Executed, [GpNext]_gpVars, ExecuteWait PROVE Executed'
<1>1. PICK x \in releaseSeq .. consumeSeq, e \in Nat : ReachedBy(x, e)
  BY DEF Executed
<1>2. /\ stream # << >> /\ ~IsCopy(Head(stream)) /\ ~IsGather(Head(stream)) /\ stream' = Tail(stream)
      /\ \A i \in 1 .. Len(compute) : compute[i].kind # "clone"
      /\ UNCHANGED <<storage, batch, compute, releaseSeq, consumeSeq, gpPrepared, requiredPtr, hot, sync,
                  domain>>
  BY DEF ExecuteWait, ingressVars, prepVars, syncVars, IsGather, IsCopy
<1>3. Begins(x)' = e
  BY <1>1, FlyingKept DEF ReachedBy
<1>4. InFlight(x)'
  BY <1>1, <1>2, InFlightTail DEF ReachedBy
<1>5. Cloning(e)'
  BY <1>2, NoClones
<1>6. Gathering(e)'
  <2>1. e <= e
    OBVIOUS
  <2> QED BY <1>1, <1>2, <2>1, TailGathers, GatheringKept DEF ReachedBy
<1>7. RingHolds(storage, e)'
  BY <1>1, <1>2 DEF ReachedBy, RingHolds
<1>8. ReachedBy(x, e)'
  BY <1>3, <1>4, <1>5, <1>6, <1>7 DEF ReachedBy
<1>9. x \in releaseSeq' .. consumeSeq'
  BY <1>2
<1> QED BY <1>8, <1>9 DEF Executed

LEMMA Executed_Compute ==
  ASSUME StepInv, Executed, [GpNext]_gpVars, ExecuteClone \/ ExecuteTrain PROVE Executed'
<1>1. /\ compute # << >> /\ compute' = Tail(compute)
      /\ UNCHANGED <<stream, storage, batch, releaseSeq, consumeSeq, gpPrepared, requiredPtr, hot, sync,
                  domain>>
  BY DEF ExecuteClone, ExecuteTrain, ingressVars, prepVars, syncVars
<1>2. /\ Len(compute) \in Nat \ {0} /\ Len(compute') = Len(compute) - 1
      /\ \A i \in 1 .. Len(compute) - 1 : compute'[i] = compute[i + 1]
  BY <1>1, HeadCompute DEF StepInv
<1>3. ASSUME NEW i \in 1 .. Len(compute') PROVE \E j \in 1 .. Len(compute) : compute[j] = compute'[i]
  <2>1. i + 1 \in 1 .. Len(compute) /\ compute[i + 1] = compute'[i]
    BY <1>2
  <2> QED BY <2>1
<1> QED BY <1>1, <1>3, PrefetchUntouched, StreamUntouched

LEMMA Executed_Step ==
  ASSUME StepInv, Executed, Prefetching, Computing, [GpNext]_gpVars PROVE Executed'
<1>1. CASE Device
  BY <1>1, Executed_Copy, Executed_GatherDone, Executed_Wait, Executed_Compute DEF Device
<1>2. CASE UNCHANGED gpVars
  BY <1>2, NoStep, Executed_Untouched
<1> QED BY <1>1, <1>2, Kinds, Executed_Untouched, Executed_Submit, Executed_Commit, Executed_Look,
     Executed_Gather,
           Executed_Note, Executed_Prepare, Executed_Read, Executed_Sample, Executed_Train

-----------------------------------------------------------------------------
(* The prefetch, the learner's own stream and the fields it read               *)

LEMMA Prefetching_Step ==
  ASSUME StepInv, Prefetching, [GpNext]_gpVars PROVE Prefetching'
<1>0. gpIteration \in Nat \ {0} /\ hot \in {0, 1} /\ prepTick \in Nat
  BY DEF StepInv, ThreadTypes
<1> USE <1>0 DEF Prefetching
<1>1. CASE Collect(GpCollector) \/ Device \/ Submits \/ Commits
  BY <1>1 DEF Collect, Device, ExecuteCopy, ExecuteGather, ExecuteWait, ExecuteClone, ExecuteTrain,
       Submits, Commits,
              prepVars, syncVars, learnerVars, Cold, None
<1>2. CASE SyncDrain \/ SyncCheck \/ SyncLook \/ SyncSubmit
  BY <1>2 DEF SyncDrain, SyncCheck, SyncLook, SyncSubmit, prepVars, syncVars, learnerVars, Cold, None
<1>3. CASE SyncGather
  BY <1>3 DEF SyncGather, prepVars, learnerVars, Cold, None
<1>4. CASE SyncNote
  <2>1. /\ gpPrepared' = [tick |-> prepTick, ptr |-> visiblePtr, slot |-> Cold]
        /\ prepTick # 0 /\ prepState' = "gather_submitted" /\ sync' = "submitting"
        /\ UNCHANGED <<prepTick, hot, gpLearner, gpIteration>>
    BY <1>4 DEF SyncNote, learnerVars
  <2>2. gpPrepared'.tick = prepTick /\ gpPrepared'.slot = Cold /\ None.tick = 0
    BY <2>1 DEF None
  <2>3. gpPrepared' # None' /\ gpPrepared'.slot = Cold'
    BY <2>1, <2>2 DEF None, Cold
  <2> QED BY <2>1, <2>3
<1>5. CASE GpBeginUpdate
  BY <1>5 DEF GpBeginUpdate, GpGo, Prepare, prepVars, syncVars, Cold, None
<1>6. CASE Prefetch
  BY <1>6 DEF Prefetch, GpGo, Prepare, prepVars, syncVars, Cold, None
<1>7. CASE Sample
  BY <1>7 DEF Sample, GpGo, prepVars, syncVars, Cold, None
<1>8. CASE GpFinishUpdate
  BY <1>8 DEF GpFinishUpdate, prepVars, syncVars, Cold, None
<1>9. CASE Tick \/ LearnerSubmit \/ WaitForCopies \/ LearnerCommit \/ EndProgress \/ GpAnotherTick
  BY <1>9 DEF Tick, LearnerSubmit, WaitForCopies, LearnerCommit, EndProgress, GpAnotherTick, GpGo,
              prepVars, syncVars, learnerVars, Cold, None
<1>10. CASE ReadPublished \/ CatchUp \/ ReadFields \/ Train \/ CollectorDied \/ ClosePipeline
            \/ PipelineJoined \/ CloseRunner
  BY <1>10 DEF ReadPublished, CatchUp, ReadFields, Train, CollectorDied, ClosePipeline, PipelineJoined,
       CloseRunner, GpGo,
              prepVars, syncVars, learnerVars, Cold, None
<1>11. CASE UNCHANGED gpVars
  BY <1>11 DEF gpVars, prepVars, syncVars, learnerVars, Cold, None
<1> QED BY <1>1, <1>2, <1>3, <1>4, <1>5, <1>6, <1>7, <1>8, <1>9, <1>10, <1>11 DEF GpNext, Sync, GpLearner

LEMMA Computing_Step ==
  ASSUME StepInv, Computing, [GpNext]_gpVars PROVE Computing'
<1> USE DEF Computing
<1>1. CASE Collect(GpCollector) \/ ExecuteCopy \/ ExecuteGather \/ ExecuteWait \/ Submits \/ Commits
  BY <1>1 DEF Collect, ExecuteCopy, ExecuteGather, ExecuteWait, Submits, Commits, SubmitSpan, CommitSpan,
              prepVars, learnerVars, deviceVars
<1>2. CASE ExecuteClone \/ ExecuteTrain
  <2>1. /\ compute # << >> /\ compute' = Tail(compute) /\ UNCHANGED <<gpLearner, hot>>
    BY <1>2 DEF ExecuteClone, ExecuteTrain, prepVars, learnerVars
  <2>2. /\ Len(compute) \in Nat \ {0} /\ Len(compute') = Len(compute) - 1
        /\ \A i \in 1 .. Len(compute) - 1 : compute'[i] = compute[i + 1]
    BY <2>1, HeadCompute DEF StepInv
  <2>3. ASSUME NEW k \in 1 .. Len(compute') PROVE k + 1 \in 1 .. Len(compute) /\ compute'[k] = compute[k + 1]
    BY <2>2
  <2> QED BY <2>1, <2>3
<1>3. CASE Sync
  BY <1>3 DEF Sync, SyncDrain, SyncCheck, SyncLook, SyncGather, SyncNote, SyncSubmit, CommitSpan,
       SubmitSpan, Unlock,
              prepVars, learnerVars, deviceVars
<1>4. CASE Train
  <2>1. [kind |-> "train", slot |-> hot] \in ComputeOps
    BY DEF ComputeOps, StepInv, ThreadTypes
  <2>2. /\ Len(compute') = Len(compute) + 1 /\ Len(compute) \in Nat
        /\ \A i \in 1 .. Len(compute) : compute'[i] = compute[i]
        /\ compute'[Len(compute) + 1] = [kind |-> "train", slot |-> hot]
    BY <1>4, <2>1, Appended DEF Train, StepInv, DeviceTypes
  <2>3. gpLearner = "training" /\ gpLearner' = "synchronizing" /\ hot' = hot
    BY <1>4 DEF Train, GpGo, prepVars
  <2>4. ASSUME NEW k \in 1 .. Len(compute'), compute'[k].kind = "train" PROVE compute'[k].slot = hot
    <3>1. CASE k \in 1 .. Len(compute)
      BY <2>2, <2>3, <2>4, <3>1
    <3>2. CASE k = Len(compute) + 1
      BY <2>2, <3>2
    <3> QED BY <2>2, <3>1, <3>2
  <2> QED BY <2>3, <2>4
<1>5. CASE ReadFields
  <2>1. gpLearner' = "awaiting" /\ compute = << >>
    BY <1>5 DEF ReadFields, GpGo
  <2>2. \E from : compute' = Append(compute, [kind |-> "clone", from |-> from, upto |-> visiblePtr])
    BY <1>5 DEF ReadFields
  <2>3. Len(compute') = 1 /\ compute'[1].kind = "clone"
    BY <2>1, <2>2
  <2>4. \A k \in 1 .. Len(compute') : k = 1
    BY <2>3
  <2> QED BY <2>1, <2>3, <2>4
<1>6. CASE GpFinishUpdate
  <2>1. compute' = << >> /\ gpLearner' \in {"tick", "closing"}
    BY <1>6 DEF GpFinishUpdate, Synchronized, deviceVars
  <2>2. Len(compute') = 0
    BY <2>1
  <2> QED BY <2>1, <2>2
<1>7. CASE Sample
  BY <1>7 DEF Sample, GpGo, deviceVars
<1>8. CASE Tick \/ LearnerSubmit \/ WaitForCopies \/ LearnerCommit \/ EndProgress \/ GpAnotherTick
  BY <1>8 DEF Tick, LearnerSubmit, WaitForCopies, LearnerCommit, EndProgress, GpAnotherTick, GpGo, SubmitSpan,
              CommitSpan, Unlock, prepVars, learnerVars, deviceVars
<1>9. CASE GpBeginUpdate \/ ReadPublished \/ CatchUp \/ Prefetch
  BY <1>9 DEF GpBeginUpdate, ReadPublished, CatchUp, Prefetch, Prepare, GpGo, SubmitSpan, Unlock, prepVars,
       deviceVars
<1>10. CASE CollectorDied \/ ClosePipeline \/ PipelineJoined \/ CloseRunner
  BY <1>10 DEF CollectorDied, ClosePipeline, PipelineJoined, CloseRunner, GpGo, prepVars, deviceVars
<1>11. CASE UNCHANGED gpVars
  BY <1>11 DEF gpVars, prepVars, learnerVars, deviceVars
<1> QED BY <1>1, <1>2, <1>3, <1>4, <1>5, <1>6, <1>7, <1>8, <1>9, <1>10, <1>11 DEF GpNext, Device, GpLearner

LEMMA Fields_Step ==
  ASSUME StepInv, Executed, FieldsInOrder, [GpNext]_gpVars PROVE FieldsInOrder'
<1>1. CASE ExecuteClone
  <2>1. PICK x \in releaseSeq .. consumeSeq, e \in Nat : ReachedBy(x, e)
    BY DEF Executed
  <2> DEFINE o == Head(compute)
  <2>2. /\ o \in ComputeOps /\ o.kind = "clone" /\ o.upto = e /\ e <= o.from + Capacity
    <3>1. o = compute[1] /\ 1 \in 1 .. Len(compute) /\ o \in ComputeOps /\ o.kind = "clone"
      BY <1>1, HeadCompute DEF ExecuteClone, StepInv
    <3> QED BY <2>1, <3>1 DEF ReachedBy, Cloning
  <2>3. o.from \in Nat
    BY <2>2 DEF ComputeOps
  <2>4. fields' = [p \in o.from .. o.upto - 1 |-> storage[p % Capacity]]
    BY <1>1 DEF ExecuteClone
  <2> HIDE DEF o
  <2>5. ASSUME NEW p \in o.from .. e - 1 PROVE storage[p % Capacity] = p
    <3>1. p \in Nat /\ p < e /\ e <= p + Capacity
      BY <2>2, <2>3
    <3>2. PICK rows : rows = storage
      OBVIOUS
    <3>3. rows[p % Capacity] = p
      BY <2>1, <3>1, <3>2, CloneReads DEF ReachedBy
    <3> QED BY <3>2, <3>3
  <2> QED BY <2>2, <2>4, <2>5 DEF FieldsInOrder
<1>2. CASE UNCHANGED fields
  BY <1>2 DEF FieldsInOrder
<1>3. ExecuteClone \/ UNCHANGED fields
  BY Kinds, NoStep DEF Collect, Device, ExecuteCopy, ExecuteGather, ExecuteWait, ExecuteTrain, Quiet,
       Submits, Commits,
     SubmitSpan, CommitSpan, SyncLook, SyncGather, SyncNote, GpBeginUpdate, ReadFields, Sample, Prefetch,
     Train, deviceVars
<1> QED BY <1>1, <1>2, <1>3

-----------------------------------------------------------------------------
(* The invariant and the properties                                            *)

LEMMA InvInit ==
  ASSUME GpInit PROVE Inv
<1> USE DEF GpInit, InitIngress
<1>1. IngressTypes
  BY DEF IngressTypes, Slots, Torn
<1>2. DeviceTypes
  BY DEF DeviceTypes, Torn
<1>3. ThreadTypes
  BY Capacities DEF ThreadTypes, None
<1>4. Permits
  BY DEF Permits, Writing
<1>5. Batches
  BY DEF Batches
<1>6. Submitted
  BY DEF Submitted, Begins
<1>7. Prefetching
  BY DEF Prefetching
<1>8. Computing
  BY DEF Computing
<1>9. FieldsInOrder
  BY DEF FieldsInOrder
<1>10. Executed
  <2>1. ReachedBy(0, 0)
    <3>1. Begins(0) = 0
      BY DEF Begins
    <3>2. InFlight(0)
      BY DEF InFlight
    <3>3. RingHolds(storage, 0)
      BY DEF RingHolds
    <3>4. Cloning(0)
      BY DEF Cloning
    <3>5. Gathering(0)
      BY DEF Gathering, Gathered
    <3> QED BY <3>1, <3>2, <3>3, <3>4, <3>5 DEF ReachedBy
  <2> QED BY <2>1 DEF Executed
<1> QED BY <1>1, <1>2, <1>3, <1>4, <1>5, <1>6, <1>7, <1>8, <1>9, <1>10 DEF Inv

LEMMA InvStep ==
  ASSUME Inv, [GpNext]_gpVars PROVE Inv'
<1> USE DEF Inv, StepInv
<1>1. IngressTypes'
  BY IngressTypes_Step
<1>2. DeviceTypes'
  BY DeviceTypes_Step
<1>3. ThreadTypes'
  BY ThreadTypes_Step
<1>4. Permits'
  BY Permits_Step
<1>5. Batches'
  BY Batches_Step
<1>6. Submitted'
  BY Submitted_Step
<1>7. Executed'
  BY Executed_Step
<1>8. Prefetching'
  BY Prefetching_Step
<1>9. Computing'
  BY Computing_Step
<1>10. FieldsInOrder'
  BY Fields_Step
<1> QED BY <1>1, <1>2, <1>3, <1>4, <1>5, <1>6, <1>7, <1>8, <1>9, <1>10

LEMMA Invariant == GpSpec => []Inv
<1>1. GpInit => Inv
  BY InvInit
<1>2. Inv /\ [GpNext]_gpVars => Inv'
  BY InvStep
<1> QED BY <1>1, <1>2, PTL DEF GpSpec

\* What the invariant says of the buffers.
LEMMA InvHeld == ASSUME Inv PROVE BuffersHeld
<1>1. PICK x \in releaseSeq .. consumeSeq, e \in Nat : ReachedBy(x, e)
  BY DEF Inv, Executed
<1>2. SlotHeldUntilCopied
  <2> SUFFICES ASSUME NEW i \in 1 .. Len(stream), IsCopy(stream[i]),
                      NEW j \in 1 .. stream[i].span.count
               PROVE  ingress[stream[i].span.slot][j] = stream[i].span.start + j - 1
    BY DEF SlotHeldUntilCopied
  <2>1. PICK k \in x .. consumeSeq - 1 : stream[i].span = Span(k)
    BY <1>1 DEF ReachedBy, InFlight
  <2>2. /\ Span(k).slot = GpSlotOf(k) /\ Span(k).start = Begins(k)
        /\ \A l \in 1 .. Span(k).count : ingress[GpSlotOf(k)][l] = Begins(k) + l - 1
    BY Flying DEF Inv, StepInv
  <2> QED BY <2>1, <2>2
<1>3. HotBatchProtected
  <2>1. \A i \in 1 .. Len(stream) : IsGather(stream[i]) => stream[i].slot = Cold
    BY <1>1 DEF ReachedBy, Gathering
  <2>2. \A k \in 1 .. Len(compute) : compute[k].kind = "train" => compute[k].slot = hot
    BY DEF Inv, Computing
  <2>3. Cold # hot
    BY DEF Inv, ThreadTypes, Cold
  <2> QED BY <2>1, <2>2, <2>3 DEF HotBatchProtected
<1> QED BY <1>2, <1>3 DEF BuffersHeld

LEMMA InvOrder == ASSUME Inv PROVE RowsInOrder
<1>1. SpansInOrder
  <2>1. ASSUME spanEvents # << >> PROVE SpanInOrder(Head(spanEvents))
    <3>1. releaseSeq < consumeSeq /\ Head(spanEvents) = Span(releaseSeq)
      BY <2>1, Outstanding DEF Inv
    <3>2. ptr = Begins(releaseSeq)
      BY DEF Inv, Submitted
    <3>3. releaseSeq < publishSeq
      BY <3>1 DEF Inv, IngressTypes, Permits
    <3> QED BY <3>1, <3>2, <3>3 DEF SpanInOrder, Span, Begins
  <2>2. ASSUME ready > 0 PROVE TakenSpan.start = submittedPtr
    <3>1. consumeSeq < publishSeq
      BY <2>2 DEF Inv, IngressTypes, Permits
    <3>2. submittedPtr = Begins(consumeSeq)
      BY DEF Inv, Submitted
    <3> QED BY <3>1, <3>2 DEF TakenSpan, Begins
  <2> QED BY <2>1, <2>2 DEF SpansInOrder
<1>2. BatchReachesBoundary
  <2> SUFFICES ASSUME gpPrepared # None, GatherDone PROVE Covers(batch[gpPrepared.slot], requiredPtr)
    BY DEF BatchReachesBoundary
  <2>1. PICK x \in releaseSeq .. consumeSeq, e \in Nat : ReachedBy(x, e)
    BY DEF Inv, Executed
  <2>2. Gathered /\ gpPrepared.slot = Cold
    BY DEF Gathered, Inv, Prefetching
  <2>3. ~\E i \in 1 .. Len(stream) : IsGather(stream[i])
    BY <2>1, <2>2 DEF GatherDone, ReachedBy, Gathering
  <2> QED BY <2>1, <2>2, <2>3 DEF ReachedBy, Gathering
<1> QED BY <1>1, <1>2 DEF RowsInOrder, Inv

\* For any depth of the ingress, batches of any size and any ring: a pending copy
\* finds the rows it was submitted for, and the gather of the next batch never
\* writes the slot that an update still reads.
THEOREM HeldUntilRead == GpSpec => []BuffersHeld
<1>1. Inv => BuffersHeld
  BY InvHeld
<1> QED BY <1>1, Invariant, PTL

\* Two threads submit and commit, yet the rows are committed in the order they were
\* published, a sampled batch covers the boundary it was asked for, and a snapshot of
\* the fields reads each row in its place.
THEOREM OrderKept == GpSpec => []RowsInOrder
<1>1. Inv => RowsInOrder
  BY InvOrder
<1> QED BY <1>1, Invariant, PTL

=============================================================================
