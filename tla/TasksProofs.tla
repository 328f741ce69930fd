------------------------------ MODULE TasksProofs ------------------------------
(***************************************************************************)
(* What the robots' tasks promise, for any clips, gaits, sensors, batches  *)
(* and numbers of environments: the reference motion keeps pace with the   *)
(* robot that follows it, the clocks, contacts and penalties of a gait are *)
(* those of the life the robot is in, a robot on rough terrain stands on   *)
(* the cell its row has earned, what a policy is credited with in its      *)
(* evaluation is what its robot did, and a robot that rises on its rear    *)
(* feet is rewarded and ended for what the shared snapshot of its step     *)
(* shows.                                                                  *)
(***************************************************************************)
EXTENDS MotionTracking, Gait, Terrain, Holdout, Footstand, FiniteSetTheorems, SequenceTheorems, TLAPS

------------------------------------------------------------------------------
(* Induction.  A set of counterexamples that is not empty has a smallest one, *)
(* because strict inclusion among the finite sets 1 .. x is well-founded.     *)

LEMMA SmallestOf ==
  ASSUME NEW T \in SUBSET Nat, T # {}
  PROVE  \E x \in T : \A y \in T : x <= y
<1> DEFINE Up == {1 .. x : x \in T}
           R == StrictSubsetOrdering(Nat)
<1>1. IsWellFoundedOn(R, FiniteSubsetsOf(Nat))
  BY FS_StrictSubsetOrderingWellFounded
<1>2. Up \subseteq FiniteSubsetsOf(Nat) /\ Up # {}
  <2>1. ASSUME NEW x \in T PROVE 1 .. x \in FiniteSubsetsOf(Nat)
    <3>1. x \in Nat /\ 1 \in Int /\ x \in Int
      OBVIOUS
    <3>2. IsFiniteSet(1 .. x)
      BY <3>1, FS_Interval
    <3> QED BY <3>1, <3>2 DEF FiniteSubsetsOf
  <2> QED BY <2>1
<1>3. \E u \in Up : \A w \in Up : ~ (<<w, u>> \in R)
  <2> HIDE DEF Up, R
  <2> QED BY <1>1, <1>2, WFMin
<1>4. PICK x \in T : \A y \in T : ~ (<<1 .. y, 1 .. x>> \in R)
  BY <1>3
<1>5. ASSUME NEW y \in T PROVE x <= y
  <2>1. SUFFICES ASSUME y < x PROVE FALSE
    OBVIOUS
  <2>2. 1 .. y \subseteq 1 .. x /\ x \in 1 .. x /\ x \notin 1 .. y
    BY <2>1
  <2>3. 1 .. y \in SUBSET Nat /\ 1 .. x \in SUBSET Nat
    OBVIOUS
  <2> QED BY <1>4, <2>2, <2>3 DEF StrictSubsetOrdering
<1> QED BY <1>5

LEMMA Induction ==
  ASSUME NEW S, 0 \in S, \A n \in Nat : n \in S => n + 1 \in S
  PROVE  \A n \in Nat : n \in S
<1>1. SUFFICES ASSUME NEW k \in Nat, k \notin S PROVE FALSE
  OBVIOUS
<1> DEFINE T == {n \in Nat : n \notin S}
<1>2. T \in SUBSET Nat /\ T # {}
  BY <1>1
<1>3. PICK x \in T : \A y \in T : x <= y
  <2> HIDE DEF T
  <2> QED BY <1>2, SmallestOf
<1>4. x \in Nat /\ x # 0 /\ x \notin S
  BY <1>3
<1>5. x - 1 \in Nat /\ x - 1 \notin T
  BY <1>3, <1>4
<1>6. x - 1 \in S /\ (x - 1) + 1 = x
  BY <1>4, <1>5
<1> QED BY <1>4, <1>5, <1>6

\* f holds the sums of the first n elements of s, and of fewer.
Accumulates(f, s, n) == f[0] = 0 /\ \A k \in 1 .. n : f[k] = f[k - 1] + s[k]

\* A sequence of numbers has running sums.
LEMMA RunningSums ==
  ASSUME NEW s \in Seq(Nat)
  PROVE  \E f \in [0 .. Len(s) -> Nat] : Accumulates(f, s, Len(s))
<1> DEFINE S == {n \in Nat : n <= Len(s) => \E f \in [0 .. n -> Nat] : Accumulates(f, s, n)}
<1>1. Len(s) \in Nat /\ \A k \in 1 .. Len(s) : s[k] \in Nat
  OBVIOUS
<1>2. 0 \in S
  <2>1. [k \in 0 .. 0 |-> 0] \in [0 .. 0 -> Nat] /\ Accumulates([k \in 0 .. 0 |-> 0], s, 0)
    BY DEF Accumulates
  <2> QED BY <2>1
<1>3. ASSUME NEW n \in Nat, n \in S PROVE n + 1 \in S
  <2>1. ASSUME n + 1 <= Len(s) PROVE \E f \in [0 .. n + 1 -> Nat] : Accumulates(f, s, n + 1)
    <3>1. PICK f \in [0 .. n -> Nat] : Accumulates(f, s, n)
      <4>1. n <= Len(s)
        BY <1>1, <2>1
      <4> QED BY <1>3, <4>1, Zenon
    <3>2. s[n + 1] \in Nat /\ f[n] \in Nat
      BY <1>1, <2>1
    <3> DEFINE g == [k \in 0 .. n + 1 |-> IF k = n + 1 THEN f[n] + s[n + 1] ELSE f[k]]
    <3>3. g \in [0 .. n + 1 -> Nat] /\ g[0] = 0
      BY <3>1, <3>2 DEF Accumulates
    <3>4. ASSUME NEW k \in 1 .. n + 1 PROVE g[k] = g[k - 1] + s[k]
      <4>1. k - 1 \in 0 .. n /\ k - 1 # n + 1 /\ k - 1 \in 0 .. n + 1
        OBVIOUS
      <4>2. CASE k = n + 1
        <5>1. k - 1 = n
          BY <4>2
        <5> QED BY <4>1, <4>2, <5>1
      <4>3. CASE k # n + 1
        <5>1. k \in 1 .. n /\ k \in 0 .. n + 1
          BY <4>3
        <5>2. f[k] = f[k - 1] + s[k]
          BY <3>1, <5>1 DEF Accumulates
        <5> QED BY <4>1, <4>3, <5>1, <5>2
      <4> QED BY <4>2, <4>3
    <3> HIDE DEF g
    <3> QED BY <3>3, <3>4 DEF Accumulates
  <2> QED BY <2>1
<1>4. \A n \in Nat : n \in S
  <2> HIDE DEF S
  <2> QED BY <1>2, <1>3, Induction
<1>5. Len(s) \in S
  <2> HIDE DEF S
  <2> QED BY <1>1, <1>4
<1> QED BY <1>1, <1>5

------------------------------------------------------------------------------
(* The clips.                                                                 *)

LEMMA ClipTypes ==
  /\ Len(ClipLengths) \in Nat \ {0} /\ Clips = 1 .. Len(ClipLengths)
  /\ \A c \in Clips : ClipLengths[c] \in Nat \ {0}
  BY MotionAssumption DEF Clips

\* ClipOffset is the running sum of the lengths.
LEMMA OffsetsAdd ==
  /\ ClipOffset \in [Clips -> Nat]
  /\ ClipOffset[1] = 0
  /\ \A c \in Clips : c # 1 => ClipOffset[c] = ClipOffset[c - 1] + ClipLengths[c - 1]
<1>1. ClipLengths \in Seq(Nat)
  BY MotionAssumption
<1>2. PICK h \in [0 .. Len(ClipLengths) -> Nat] :
        Accumulates(h, ClipLengths, Len(ClipLengths))
  BY <1>1, RunningSums
<1> DEFINE f == [c \in Clips |-> h[c - 1]]
<1>3. f = [c \in Clips |-> IF c = 1 THEN 0 ELSE f[c - 1] + ClipLengths[c - 1]]
  <2>1. ASSUME NEW c \in Clips, c # 1 PROVE h[c - 1] = f[c - 1] + ClipLengths[c - 1]
    <3>1. c - 1 \in Clips /\ c - 1 \in 1 .. Len(ClipLengths)
      BY <2>1, ClipTypes
    <3> QED BY <1>2, <3>1 DEF Accumulates
  <2> QED BY <1>2, <2>1, ClipTypes DEF Accumulates
<1>4. f \in [Clips -> Nat]
  BY <1>2, ClipTypes
<1>5. \A c \in Clips : f[c] = IF c = 1 THEN 0 ELSE f[c - 1] + ClipLengths[c - 1]
  <2>1. ASSUME NEW c \in Clips PROVE f[c] = IF c = 1 THEN 0 ELSE f[c - 1] + ClipLengths[c - 1]
    <3> HIDE DEF f
    <3> QED BY <1>3
  <2> QED BY <2>1
<1> HIDE DEF f
<1>6. ClipOffset = [c \in Clips |-> IF c = 1 THEN 0 ELSE ClipOffset[c - 1] + ClipLengths[c - 1]]
  BY <1>3, Zenon DEF ClipOffset
<1>7. \A c \in Clips : ClipOffset[c] = IF c = 1 THEN 0 ELSE ClipOffset[c - 1] + ClipLengths[c - 1]
  BY <1>6, Zenon
<1> DEFINE S == {n \in Nat : n + 1 \in Clips => ClipOffset[n + 1] = f[n + 1]}
<1>8. 0 \in S
  BY <1>5, <1>7, ClipTypes
<1>9. ASSUME NEW n \in Nat, n \in S PROVE n + 1 \in S
  <2>1. SUFFICES ASSUME n + 2 \in Clips PROVE ClipOffset[n + 2] = f[n + 2]
    BY DEF S
  <2>2. n + 1 \in Clips /\ n + 2 # 1 /\ (n + 2) - 1 = n + 1
    BY <2>1, ClipTypes
  <2>3. ClipOffset[n + 1] = f[n + 1]
    BY <1>9, <2>2
  <2> QED BY <1>5, <1>7, <2>1, <2>2, <2>3
<1>10. \A n \in Nat : n \in S
  <2> HIDE DEF S
  <2> QED BY <1>8, <1>9, Induction
<1>11. ASSUME NEW c \in Clips PROVE ClipOffset[c] = f[c]
  <2>1. c - 1 \in Nat /\ (c - 1) + 1 = c
    BY ClipTypes
  <2> QED BY <1>10, <2>1
<1>12. DOMAIN ClipOffset = Clips
  BY <1>6, Zenon
<1>13. ClipOffset \in [Clips -> Nat]
  <2>1. ClipOffset = [c \in Clips |-> ClipOffset[c]]
    BY <1>6
  <2> QED BY <1>11, <1>4, <2>1
<1> QED BY <1>7, <1>13, ClipTypes

\* Clips follow each other without a gap or an overlap.
LEMMA ClipsInOrder ==
  ASSUME NEW c \in Clips, NEW d \in Clips, c < d
  PROVE  ClipOffset[c] + ClipLengths[c] <= ClipOffset[d]
<1> DEFINE S == {n \in Nat : c + 1 + n \in Clips => ClipOffset[c] + ClipLengths[c] <= ClipOffset[c + 1 + n]}
<1>1. c \in Nat /\ ClipOffset[c] \in Nat /\ ClipLengths[c] \in Nat
  BY ClipTypes, OffsetsAdd
<1>2. 0 \in S
  <2>1. SUFFICES ASSUME c + 1 \in Clips PROVE ClipOffset[c] + ClipLengths[c] <= ClipOffset[c + 1]
    BY <1>1
  <2>2. c + 1 # 1 /\ (c + 1) - 1 = c
    BY <1>1, ClipTypes
  <2>3. ClipOffset[c + 1] = ClipOffset[c] + ClipLengths[c]
    BY <2>1, <2>2, OffsetsAdd
  <2> QED BY <1>1, <2>3
<1>3. ASSUME NEW n \in Nat, n \in S PROVE n + 1 \in S
  <2>1. SUFFICES ASSUME c + 1 + (n + 1) \in Clips
                 PROVE  ClipOffset[c] + ClipLengths[c] <= ClipOffset[c + 1 + (n + 1)]
    OBVIOUS
  <2>2. c + 1 + n \in Clips /\ c + 1 + (n + 1) # 1 /\ (c + 1 + (n + 1)) - 1 = c + 1 + n
    BY <1>1, <2>1, ClipTypes
  <2>3. ClipOffset[c + 1 + (n + 1)] = ClipOffset[c + 1 + n] + ClipLengths[c + 1 + n]
    BY <2>1, <2>2, OffsetsAdd
  <2>4. ClipOffset[c + 1 + n] \in Nat /\ ClipLengths[c + 1 + n] \in Nat
    BY <2>2, ClipTypes, OffsetsAdd
  <2>5. ClipOffset[c] + ClipLengths[c] <= ClipOffset[c + 1 + n]
    BY <1>3, <2>2
  <2> QED BY <1>1, <2>3, <2>4, <2>5
<1>4. \A n \in Nat : n \in S
  <2> HIDE DEF S
  <2> QED BY <1>2, <1>3, Induction
<1>5. d - (c + 1) \in Nat /\ c + 1 + (d - (c + 1)) = d
  BY <1>1, ClipTypes
<1> QED BY <1>4, <1>5

LEMMA EndFrames ==
  /\ NumFrames \in Nat \ {0}
  /\ \A c \in Clips : /\ ClipEndFrame(c) \in Nat /\ ClipOffset[c] <= ClipEndFrame(c)
                      /\ ClipEndFrame(c) <= NumFrames - 1
<1> DEFINE L == Len(ClipLengths)
<1>1. L \in Clips /\ ClipOffset[L] \in Nat /\ ClipLengths[L] \in Nat \ {0} /\ L \in Nat
  BY ClipTypes, OffsetsAdd
<1>2. NumFrames = ClipOffset[L] + ClipLengths[L]
  BY <1>1 DEF NumFrames, ClipEndFrame
<1>3. ASSUME NEW c \in Clips
      PROVE  /\ ClipEndFrame(c) \in Nat /\ ClipOffset[c] <= ClipEndFrame(c)
             /\ ClipEndFrame(c) <= NumFrames - 1
  <2>1. ClipOffset[c] \in Nat /\ ClipLengths[c] \in Nat \ {0}
    BY ClipTypes, OffsetsAdd
  <2>2. c < L => ClipOffset[c] + ClipLengths[c] <= ClipOffset[L]
    BY <1>1, ClipsInOrder
  <2>3. c <= L /\ c \in Nat
    BY ClipTypes
  <2> HIDE DEF L
  <2>4. CASE c < L
    BY <1>1, <1>2, <2>1, <2>2, <2>4 DEF ClipEndFrame
  <2>5. CASE c = L
    BY <1>1, <1>2, <2>1, <2>5 DEF ClipEndFrame
  <2> QED BY <1>1, <2>3, <2>4, <2>5
<1> QED BY <1>1, <1>2, <1>3

\* The clip found for a frame is the one that contains it.
LEMMA ClipOfFrame ==
  ASSUME NEW f \in 0 .. NumFrames - 1
  PROVE  ClipOf(f) \in Clips /\ f <= ClipEndFrame(ClipOf(f))
<1> DEFINE L == Len(ClipLengths)
           T == {n \in 0 .. L - 1 : ClipOffset[L - n] <= f}
<1>1. L \in Nat \ {0} /\ f \in Nat /\ 1 \in Clips /\ ClipOffset[1] = 0 /\ NumFrames \in Nat
  BY ClipTypes, OffsetsAdd, EndFrames
<1>2. T \in SUBSET Nat /\ L - 1 \in T
  BY <1>1
<1>3. PICK n \in T : \A m \in T : n <= m
  <2> HIDE DEF T
  <2> QED BY <1>2, SmallestOf
<1>4. L - n \in Clips /\ ClipOffset[L - n] <= f
  BY <1>1, <1>3, ClipTypes
<1>5. ASSUME NEW d \in Clips, ClipOffset[d] <= f PROVE d <= L - n
  <2>1. L - d \in 0 .. L - 1 /\ L - (L - d) = d /\ d \in Nat
    BY <1>1, ClipTypes
  <2>2. L - d \in T
    BY <1>5, <2>1
  <2>3. n <= L - d /\ n \in Nat
    BY <1>3, <2>2
  <2> HIDE DEF T, L
  <2> QED BY <1>1, <2>1, <2>3
<1>6. \E c \in Clips : ClipOffset[c] <= f /\ \A d \in Clips : ClipOffset[d] <= f => d <= c
  BY <1>4, <1>5
<1>7. /\ ClipOf(f) \in Clips /\ ClipOffset[ClipOf(f)] <= f
      /\ \A d \in Clips : ClipOffset[d] <= f => d <= ClipOf(f)
  BY <1>6 DEF ClipOf
<1> HIDE DEF T
<1>8. PICK c \in Clips : c = ClipOf(f)
  BY <1>7
<1>9. c \in Nat /\ ClipOffset[c] \in Nat /\ ClipLengths[c] \in Nat \ {0} /\ c <= L
  BY ClipTypes, OffsetsAdd
<1>10. f <= ClipEndFrame(c)
  <2>1. CASE c = L
    <3>1. NumFrames = ClipEndFrame(c) + 1 /\ ClipEndFrame(c) \in Nat
      BY <2>1, EndFrames DEF NumFrames
    <3> QED BY <1>1, <3>1
  <2>2. CASE c < L
    <3>1. c + 1 \in Clips /\ c + 1 # 1 /\ (c + 1) - 1 = c
      BY <1>9, <2>2, ClipTypes
    <3>2. ClipOffset[c + 1] = ClipOffset[c] + ClipLengths[c]
      BY <3>1, OffsetsAdd
    <3>3. ~ (ClipOffset[c + 1] <= f)
      BY <1>7, <1>8, <1>9, <3>1
    <3> QED BY <1>1, <1>9, <3>2, <3>3 DEF ClipEndFrame
  <2> QED BY <1>9, <1>1, <2>1, <2>2
<1> QED BY <1>7, <1>8, <1>10

LEMMA Quotient ==
  ASSUME NEW a \in Nat, NEW k \in Nat \ {0}
  PROVE  a \div k \in Nat /\ k * (a \div k) <= a
  OBVIOUS

LEMMA Cancel ==
  ASSUME NEW q \in Nat, NEW m \in Nat, NEW k \in Nat \ {0}, k * q <= k * m
  PROVE  q <= m
<1>1. SUFFICES ASSUME q >= m + 1 PROVE FALSE
  OBVIOUS
<1>2. k * q >= k * (m + 1)
  BY <1>1
<1>3. k * (m + 1) = k * m + k
  OBVIOUS
<1>4. k * q \in Nat /\ k * m \in Nat
  OBVIOUS
<1> QED BY <1>2, <1>3, <1>4

\* A bin's frames are frames, the last of all excepted.
LEMMA DrawnFrames ==
  ASSUME NEW b \in 0 .. BinCount - 1
  PROVE  DrawnFrom(b) \subseteq 0 .. NumFrames - 1
<1> DEFINE N == NumFrames - 1
           q == (b * N) \div BinCount
           r == ((b + 1) * N - 1) \div BinCount
<1>1. N \in Nat /\ BinCount \in Nat \ {0} /\ b \in Nat
  BY EndFrames, MotionAssumption DEF BinCount
<1>2. b * N \in Nat /\ b * N <= BinCount * N
  <2>1. BinCount - b \in Nat /\ BinCount * N = b * N + (BinCount - b) * N
    BY <1>1
  <2>2. (BinCount - b) * N \in Nat /\ b * N \in Nat
    BY <1>1, <2>1
  <2> QED BY <1>1, <2>1, <2>2
<1>3. q \in Nat /\ BinCount * q <= b * N
  <2> HIDE DEF N
  <2>1. PICK a \in Nat : a = b * N
    BY <1>2
  <2>2. a \div BinCount \in Nat /\ BinCount * (a \div BinCount) <= a
    BY <1>1, Quotient
  <2> QED BY <2>1, <2>2, Zenon
<1>4. q <= N
  <2> HIDE DEF q, N
  <2>1. BinCount * q \in Nat /\ BinCount * N \in Nat
    BY <1>1, <1>3
  <2>2. BinCount * q <= BinCount * N
    BY <1>2, <1>3, <2>1
  <2> QED BY <1>1, <1>3, <2>2, Cancel
<1>5. r \in Int /\ (r >= 0 => r <= N)
  <2>1. CASE N = 0
    <3>1. (b + 1) * N - 1 = -1
      BY <1>1, <2>1
    <3>2. r = (-1) \div BinCount
      BY <3>1
    <3>3. (-1) \div BinCount = -1
      BY <1>1
    <3> QED BY <3>2, <3>3, <1>1
  <2>2. CASE N > 0
    <3>1. b + 1 \in Nat /\ b + 1 <= BinCount
      BY <1>1
    <3>2. (b + 1) * N - 1 \in Nat /\ (b + 1) * N - 1 <= BinCount * N
      <4>1. BinCount - (b + 1) \in Nat /\ BinCount * N = (b + 1) * N + (BinCount - (b + 1)) * N
        BY <1>1, <3>1
      <4>2. (BinCount - (b + 1)) * N \in Nat /\ (b + 1) * N = b * N + N /\ b * N \in Nat
        BY <1>1, <3>1, <4>1
      <4> QED BY <1>1, <2>2, <4>1, <4>2
    <3>3. PICK a \in Nat : a = (b + 1) * N - 1
      BY <3>2
    <3>4. a \div BinCount \in Nat /\ BinCount * (a \div BinCount) <= a
      BY <1>1, Quotient
    <3>5. r \in Nat /\ BinCount * r <= (b + 1) * N - 1
      <4> HIDE DEF N
      <4> QED BY <3>3, <3>4, Zenon
    <3> HIDE DEF r, N
    <3>6. BinCount * r \in Nat /\ BinCount * N \in Nat
      BY <1>1, <3>5
    <3>7. BinCount * r <= BinCount * N
      BY <3>2, <3>5, <3>6
    <3>8. r <= N
      BY <1>1, <3>5, <3>7, Cancel
    <3> QED BY <3>5, <3>8
  <2> QED BY <1>1, <2>1, <2>2
<1>6. DrawnFrom(b) = {q} \cup q .. r
  BY DEF DrawnFrom
<1> HIDE DEF q, r, N
<1>7. {q} \cup q .. r \subseteq 0 .. N
  BY <1>1, <1>3, <1>4, <1>5
<1> QED BY <1>6, <1>7 DEF N

\* Whatever the mode, what is sampled is a frame of a clip.
LEMMA Sampled ==
  ASSUME mode \in MtModes, NEW f \in SampleFrames
  PROVE  /\ f \in 0 .. NumFrames - 1
         /\ ClipOf(f) \in Clips /\ f <= ClipEndFrame(ClipOf(f))
<1>1. f \in 0 .. NumFrames - 1
  <2>1. mode \in {"start", "clip_start", "uniform", "mixed", "adaptive"}
    BY MotionAssumption
  <2>2. CASE mode = "start"
    BY <2>2, EndFrames DEF SampleFrames
  <2>3. CASE mode = "clip_start"
    <3>1. PICK c \in Clips : f = ClipOffset[c]
      BY <2>3 DEF SampleFrames
    <3>2. ClipOffset[c] \in Nat /\ ClipOffset[c] <= NumFrames - 1
      BY EndFrames, OffsetsAdd
    <3> QED BY <3>1, <3>2, EndFrames
  <2>4. CASE mode \in {"uniform", "mixed"}
    BY <2>4 DEF SampleFrames
  <2>5. CASE mode = "adaptive"
    <3>1. PICK b \in 0 .. BinCount - 1 : f \in DrawnFrom(b)
      BY <2>5 DEF SampleFrames
    <3> QED BY <3>1, DrawnFrames
  <2> QED BY <2>1, <2>2, <2>3, <2>4, <2>5
<1> QED BY <1>1, ClipOfFrame

------------------------------------------------------------------------------
(* The motion-tracking command.                                               *)

MtTypes ==
    /\ mode \in MtModes /\ mtPc \in {"init", "act", "terms", "autoreset"}
    /\ mtCounter \in Nat /\ cacheStep = mtCounter
    /\ body \in [MtEnv -> [robot : Nat, box : Nat, moved : Nat]]
    /\ frame \in [MtEnv -> Nat] /\ clipEnd \in [MtEnv -> Nat]
    /\ mtAge \in [MtEnv -> Nat] /\ motionEpisode \in [MtEnv -> Nat]
    /\ ended \subseteq MtEnv

\* The row of e between two control steps.  A row that was placed anew without a
\* reset has the joint velocities of the robot it was before.
RowInStep(e) ==
    /\ FramesKeepPace(e) /\ RowsAgree(e) /\ robotCache[e] = body[e]
    /\ velocityFrom[e] = body[e] \/ (body[e].moved = 0 /\ mtAge[e] >= 1)

\* The row of e when physics has moved and the terms are due: motion, copies and
\* velocities are still those of the state before.
RowUnderway(e) ==
    LET before == [body[e] EXCEPT !.moved = @ - 1]
    IN /\ body[e].moved >= 1 /\ mtAge[e] >= 1 /\ body[e].box = body[e].robot
       /\ frame[e] = body[e].robot + body[e].moved - 1
       /\ clipEnd[e] = ClipEndFrame(ClipOf(body[e].robot)) /\ frame[e] <= clipEnd[e]
       /\ motionFrame[e] = frame[e] /\ boxFrame[e] = frame[e] /\ relative[e] = <<frame[e], before>>
       /\ velocityFrom[e] = before \/ (body[e].moved = 1 /\ mtAge[e] >= 2)

MtRows ==
    /\ mtPc = "init" => \A e \in MtEnv : robotCache[e] = body[e]
    /\ mtPc \in {"act", "autoreset"} => \A e \in MtEnv : RowInStep(e)
    /\ mtPc = "terms" => \A e \in MtEnv : RowUnderway(e)

\* A row that has ended is reset before the next control step.
MtEnds == (mtPc \in {"init", "terms"} \/ (auto /\ mtPc = "act")) => ended = {}

MtActions == \A e \in MtEnv :
    /\ raw[e] = mtAge[e] /\ bias[e] = motionEpisode[e]
    /\ mtPc = "terms" => applied[e] = mtAge[e] - (IF latency THEN 1 ELSE 0)

MtJudged == judged # <<>> => \A e \in MtEnv : JudgedAsChosen(e) /\ AccelerationOfOneRobot(e)

MtErrors == mixedErrors = {} /\ failedBins = {Bin(f) : f \in failedAt}

MtInv == MtTypes /\ MtRows /\ MtEnds /\ MtActions /\ MtJudged /\ MtErrors

LEMMA MtBegins == MtInit => MtInv
<1>1. SUFFICES ASSUME MtInit PROVE MtInv
  OBVIOUS
<1>2. frame = [e \in MtEnv |-> 0] /\ clipEnd = [e \in MtEnv |-> ClipEndFrame(1)] /\ ClipEndFrame(1) \in Nat
  BY <1>1, ClipTypes, EndFrames DEF MtInit
<1>3. body = [e \in MtEnv |-> [robot |-> frame[e], box |-> frame[e], moved |-> 0]]
  BY <1>1, Zenon DEF MtInit, Placed
<1>4. MtTypes
  BY <1>1, <1>2, <1>3 DEF MtInit, MtTypes
<1>5. MtRows /\ MtEnds
  BY <1>1 DEF MtInit, MtRows, MtEnds
<1>6. MtActions
  BY <1>1 DEF MtInit, MtActions
<1>7. MtJudged /\ MtErrors
  BY <1>1 DEF MtInit, MtJudged, MtErrors
<1> QED BY <1>4, <1>5, <1>6, <1>7 DEF MtInv

\* What is judged once stays as it was judged.
LEMMA JudgedKept ==
  ASSUME MtJudged, judged' = judged
  PROVE  MtJudged'
<1>1. ASSUME NEW e \in MtEnv PROVE JudgedAsChosen(e)' = JudgedAsChosen(e)
  BY DEF JudgedAsChosen
<1>2. ASSUME NEW e \in MtEnv PROVE AccelerationOfOneRobot(e)' = AccelerationOfOneRobot(e)
  BY DEF AccelerationOfOneRobot
<1> QED BY <1>1, <1>2, Zenon DEF MtJudged

\* The control step: every robot moves, and its motion waits for the terms.
LEMMA MtActs ==
  ASSUME MtInv, ProcessActions
  PROVE  MtInv'
<1>1. /\ mtPc = "act" /\ mtPc' = "terms" /\ mtAge' = [e \in MtEnv |-> mtAge[e] + 1]
      /\ previousRaw' = raw /\ raw' = mtAge' /\ applied' = IF latency THEN previousRaw' ELSE raw'
      /\ body' = [e \in MtEnv |-> [body[e] EXCEPT !.moved = @ + 1]]
      /\ auto \/ ended = {}
  BY DEF ProcessActions
<1>2. /\ mode' = mode /\ auto' = auto /\ latency' = latency /\ mtCounter' = mtCounter /\ cacheStep' = cacheStep
      /\ frame' = frame /\ clipEnd' = clipEnd /\ failedBins' = failedBins /\ failedAt' = failedAt
      /\ motionFrame' = motionFrame /\ boxFrame' = boxFrame /\ relative' = relative
      /\ velocityFrom' = velocityFrom /\ judged' = judged /\ mixedErrors' = mixedErrors /\ ended' = ended
      /\ bias' = bias /\ motionEpisode' = motionEpisode
  BY DEF ProcessActions, mtconfig, motionvars
<1>3. MtTypes'
  BY <1>1, <1>2 DEF MtInv, MtTypes
<1>4. ASSUME NEW e \in MtEnv PROVE RowUnderway(e)'
  <2>1. FramesKeepPace(e) /\ RowsAgree(e) /\ (velocityFrom[e] = body[e] \/ (body[e].moved = 0 /\ mtAge[e] >= 1))
    BY <1>1 DEF MtInv, MtRows, RowInStep
  <2>2. ended = {}
    BY <1>1 DEF MtInv, MtEnds
  <2>3. /\ body[e] \in [robot : Nat, box : Nat, moved : Nat] /\ frame[e] \in Nat /\ clipEnd[e] \in Nat
        /\ mtAge[e] \in Nat
    BY DEF MtInv, MtTypes
  <2>4. body'[e] = [body[e] EXCEPT !.moved = @ + 1] /\ mtAge'[e] = mtAge[e] + 1
    BY <1>1
  <2>5. [body'[e] EXCEPT !.moved = @ - 1] = body[e]
    <3> DEFINE b == body[e]
    <3>1. b = [robot |-> b.robot, box |-> b.box, moved |-> b.moved] /\ b.moved \in Nat
      BY <2>3
    <3>2. body'[e] = [robot |-> b.robot, box |-> b.box, moved |-> b.moved + 1]
      BY <2>4, <3>1
    <3>3. [body'[e] EXCEPT !.moved = @ - 1] = [robot |-> b.robot, box |-> b.box, moved |-> (b.moved + 1) - 1]
      BY <3>2
    <3> QED BY <3>1, <3>3
  <2>6. /\ body'[e].moved = body[e].moved + 1 /\ body'[e].robot = body[e].robot
        /\ body'[e].box = body[e].box
    BY <2>3, <2>4
  <2>7. /\ frame[e] = body[e].robot + body[e].moved /\ clipEnd[e] = ClipEndFrame(ClipOf(body[e].robot))
        /\ frame[e] <= clipEnd[e]
    BY <2>1, <2>2, <2>3 DEF FramesKeepPace
  <2>8. /\ motionFrame[e] = frame[e] /\ boxFrame[e] = frame[e] /\ body[e].box = body[e].robot
        /\ relative[e] = <<frame[e], body[e]>>
    BY <2>1 DEF RowsAgree
  <2>9. /\ body'[e].moved >= 1 /\ mtAge'[e] >= 1
        /\ frame'[e] = body'[e].robot + body'[e].moved - 1
    BY <1>2, <2>3, <2>4, <2>6, <2>7
  <2>10. velocityFrom'[e] = [body'[e] EXCEPT !.moved = @ - 1] \/ (body'[e].moved = 1 /\ mtAge'[e] >= 2)
    BY <1>2, <2>1, <2>3, <2>4, <2>5, <2>6
  <2> QED BY <1>2, <2>5, <2>6, <2>7, <2>8, <2>9, <2>10 DEF RowUnderway
<1>5. MtRows'
  BY <1>1, <1>4 DEF MtRows
<1>6. MtEnds'
  BY <1>1, <1>2 DEF MtInv, MtEnds
<1>7. MtActions'
  <2>1. ASSUME NEW e \in MtEnv
        PROVE  /\ raw'[e] = mtAge'[e] /\ bias'[e] = motionEpisode'[e]
               /\ applied'[e] = mtAge'[e] - (IF latency' THEN 1 ELSE 0)
    <3>1. raw[e] = mtAge[e] /\ bias[e] = motionEpisode[e] /\ mtAge[e] \in Nat
      BY DEF MtInv, MtActions, MtTypes
    <3>2. mtAge'[e] = mtAge[e] + 1 /\ raw'[e] = mtAge'[e] /\ bias'[e] = motionEpisode'[e]
      BY <1>1, <1>2, <3>1
    <3>3. CASE latency
      <4>1. applied'[e] = raw[e]
        BY <1>1, <3>3
      <4> QED BY <1>2, <3>1, <3>2, <3>3, <4>1
    <3>4. CASE ~latency
      <4>1. applied'[e] = mtAge'[e]
        BY <1>1, <3>4
      <4> QED BY <1>2, <3>1, <3>2, <3>4, <4>1
    <3> QED BY <3>2, <3>3, <3>4
  <2> QED BY <2>1 DEF MtActions
<1>8. MtJudged' /\ MtErrors'
  BY <1>2, JudgedKept DEF MtInv, MtErrors
<1> QED BY <1>3, <1>5, <1>6, <1>7, <1>8 DEF MtInv

\* The rows that are placed anew, and the rest.
LEMMA OverRows ==
  ASSUME NEW f, NEW chosen, NEW g, NEW e \in MtEnv
  PROVE  Over(f, chosen, g)[e] = IF e \in chosen THEN g[e] ELSE f[e]
  BY DEF Over

LEMMA PlacedRow ==
  ASSUME NEW drawn, NEW e \in MtEnv
  PROVE  Placed(drawn)[e] = [robot |-> drawn[e], box |-> drawn[e], moved |-> 0]
  BY DEF Placed

\* The terms of a control step, and the command that follows them.
LEMMA MtTerms ==
  ASSUME MtInv, NEW drawn \in [MtEnv -> SampleFrames],
         NEW terminated \in SUBSET MtEnv, NEW timedOut \in SUBSET MtEnv, Terms(terminated, timedOut, drawn)
  PROVE  MtInv'
<1> DEFINE done == terminated \cup timedOut \cup (IF truncate THEN ClipEndReached ELSE {})
           going == MtEnv \ done
           next == [e \in MtEnv |-> IF e \in going THEN frame[e] + 1 ELSE frame[e]]
           wrapped == IF truncate THEN {} ELSE {e \in going : next[e] > clipEnd[e]}
           frames == Over(next, wrapped, drawn)
<1>1. /\ mtPc = "terms" /\ mtCounter' = mtCounter + 1
      /\ judged' = [bodies |-> JudgedBodies(RefreshedRobot(mtCounter')), boxes |-> JudgedBox,
                    velocities |-> JudgedVelocity, now |-> body, age |-> mtAge]
      /\ velocityFrom' = body
      /\ UpdateFailureStats(terminated)
      /\ failedAt' = IF mode = "adaptive"
                     THEN failedAt \cup {body[e].robot + body[e].moved - 1 : e \in terminated} ELSE failedAt
      /\ frame' = frames
      /\ clipEnd' = Over(clipEnd, wrapped, [e \in MtEnv |-> ClipEndFrame(ClipOf(frames[e]))])
      /\ ShowMotion(MtEnv, frames)
      /\ body' = Over(body, wrapped, Placed(frames))
      /\ PostCompute(MtEnv, body', mtCounter')
      /\ ended' = done
      /\ mtPc' = IF auto /\ done # {} THEN "autoreset" ELSE "act"
  BY Zenon DEF Terms
<1>2. /\ mode' = mode /\ auto' = auto /\ truncate' = truncate /\ latency' = latency
      /\ mixedErrors' = mixedErrors
      /\ raw' = raw /\ applied' = applied /\ bias' = bias /\ motionEpisode' = motionEpisode /\ mtAge' = mtAge
  BY DEF Terms, mtconfig, mtactionvars
<1>3. done \in SUBSET MtEnv /\ wrapped \in SUBSET MtEnv /\ wrapped \cap done = {}
  BY DEF ClipEndReached
\* one row
<1>4. ASSUME NEW e \in MtEnv
      PROVE  /\ RowUnderway(e) /\ body[e] \in [robot : Nat, box : Nat, moved : Nat]
             /\ frame[e] \in Nat /\ clipEnd[e] \in Nat /\ mtAge[e] \in Nat
  BY <1>1 DEF MtInv, MtRows, MtTypes
<1>5. ASSUME NEW e \in MtEnv
      PROVE  /\ drawn[e] \in Nat /\ ClipEndFrame(ClipOf(drawn[e])) \in Nat
             /\ drawn[e] <= ClipEndFrame(ClipOf(drawn[e]))
  <2>1. drawn[e] \in SampleFrames /\ mode \in MtModes
    BY DEF MtInv, MtTypes
  <2>2. /\ drawn[e] \in 0 .. NumFrames - 1 /\ ClipOf(drawn[e]) \in Clips
        /\ drawn[e] <= ClipEndFrame(ClipOf(drawn[e]))
    BY <2>1, Sampled
  <2> QED BY <2>2, EndFrames
<1>6. ASSUME NEW e \in MtEnv, e \in wrapped
      PROVE  /\ frame'[e] = drawn[e] /\ clipEnd'[e] = ClipEndFrame(ClipOf(drawn[e]))
             /\ body'[e] = [robot |-> drawn[e], box |-> drawn[e], moved |-> 0]
             /\ body'[e].robot = drawn[e] /\ body'[e].box = drawn[e] /\ body'[e].moved = 0
  <2> HIDE DEF wrapped, next
  <2>1. frames[e] = drawn[e]
    BY <1>6, OverRows
  <2>2. clipEnd'[e] = [d \in MtEnv |-> ClipEndFrame(ClipOf(frames[d]))][e]
    BY <1>1, <1>6, OverRows
  <2>3. body'[e] = Placed(frames)[e]
    BY <1>1, <1>6, OverRows
  <2>4. Placed(frames)[e] = [robot |-> frames[e], box |-> frames[e], moved |-> 0]
    BY PlacedRow
  <2> HIDE DEF frames
  <2> QED BY <1>1, <2>1, <2>2, <2>3, <2>4
<1>7. ASSUME NEW e \in MtEnv, e \notin wrapped
      PROVE  frame'[e] = next[e] /\ clipEnd'[e] = clipEnd[e] /\ body'[e] = body[e]
  <2> HIDE DEF wrapped, next
  <2> QED BY <1>1, <1>7, OverRows
<1>8. ASSUME NEW e \in MtEnv
      PROVE  motionFrame'[e] = frame'[e] /\ boxFrame'[e] = frame'[e]
  <2>1. motionFrame' = Over(motionFrame, MtEnv, frames) /\ boxFrame' = Over(boxFrame, MtEnv, frames)
    BY <1>1, Zenon DEF ShowMotion
  <2> HIDE DEF frames
  <2> QED BY <1>1, <2>1, OverRows
<1>9. ASSUME NEW e \in MtEnv
      PROVE  /\ robotCache'[e] = body'[e] /\ relative'[e] = <<motionFrame'[e], robotCache'[e]>>
             /\ boxState'[e] = <<robotCache'[e], body'[e]>>
  <2>1. /\ robotCache' = Over(robotCache, MtEnv, body')
        /\ relative' = Over(relative, MtEnv, [d \in MtEnv |-> <<motionFrame'[d], robotCache'[d]>>])
        /\ boxState' = Over(boxState, MtEnv, [d \in MtEnv |-> <<robotCache'[d], body'[d]>>])
    BY <1>1, Zenon DEF PostCompute, RelateRobot, RelateBox
  <2>2. robotCache'[e] = body'[e]
    BY <2>1, OverRows
  <2>3. relative'[e] = [d \in MtEnv |-> <<motionFrame'[d], robotCache'[d]>>][e]
    BY <2>1, OverRows
  <2>4. boxState'[e] = [d \in MtEnv |-> <<robotCache'[d], body'[d]>>][e]
    BY <2>1, OverRows
  <2> QED BY <2>2, <2>3, <2>4
<1>10. ASSUME NEW e \in MtEnv PROVE FramesKeepPace(e)'
  <2>1. CASE e \in wrapped
    <3>1. e \notin ended'
      BY <1>1, <1>3, <2>1
    <3> HIDE DEF done, wrapped, next, going, frames
    <3>2. /\ frame'[e] = drawn[e] /\ clipEnd'[e] = ClipEndFrame(ClipOf(drawn[e]))
          /\ body'[e].robot = drawn[e] /\ body'[e].moved = 0
      BY <1>6, <2>1
    <3> QED BY <1>5, <3>1, <3>2 DEF FramesKeepPace
  <2>2. CASE e \notin wrapped /\ e \in done
    <3>1. next[e] = frame[e] /\ e \in ended'
      BY <1>1, <2>2
    <3>2. /\ frame[e] = body[e].robot + body[e].moved - 1 /\ frame[e] <= clipEnd[e]
          /\ clipEnd[e] = ClipEndFrame(ClipOf(body[e].robot))
      BY <1>4 DEF RowUnderway
    <3>3. frame'[e] = frame[e] /\ clipEnd'[e] = clipEnd[e] /\ body'[e] = body[e]
      BY <1>7, <2>2, <3>1
    <3> HIDE DEF done, wrapped, next
    <3> QED BY <1>4, <3>1, <3>2, <3>3 DEF FramesKeepPace
  <2>3. CASE e \notin wrapped /\ e \notin done
    <3>1. next[e] = frame[e] + 1 /\ e \notin ended' /\ e \in going
      BY <1>1, <2>3
    <3>2. /\ frame[e] = body[e].robot + body[e].moved - 1
          /\ clipEnd[e] = ClipEndFrame(ClipOf(body[e].robot))
      BY <1>4 DEF RowUnderway
    <3>3. frame'[e] = frame[e] + 1 /\ clipEnd'[e] = clipEnd[e] /\ body'[e] = body[e]
      BY <1>7, <2>3, <3>1
    <3>4. frame[e] + 1 <= clipEnd[e]
      <4>1. CASE truncate
        <5>1. e \notin ClipEndReached
          BY <2>3, <4>1
        <5> QED BY <1>4, <5>1 DEF ClipEndReached
      <4>2. CASE ~truncate
        <5>1. ~ (next[e] > clipEnd[e])
          BY <2>3, <3>1, <4>2
        <5> QED BY <1>4, <3>1, <5>1
      <4> QED BY <4>1, <4>2
    <3> HIDE DEF done, wrapped, next, going
    <3> QED BY <1>4, <3>1, <3>2, <3>3, <3>4 DEF FramesKeepPace
  <2> QED BY <2>1, <2>2, <2>3
<1>11. ASSUME NEW e \in MtEnv PROVE RowInStep(e)'
  <2>1. body'[e].box = body'[e].robot
    <3>1. body[e].box = body[e].robot
      BY <1>4 DEF RowUnderway
    <3> HIDE DEF wrapped, next, frames
    <3>2. CASE e \in wrapped
      BY <1>6, <3>2
    <3>3. CASE e \notin wrapped
      BY <1>7, <3>1, <3>3
    <3> QED BY <3>2, <3>3
  <2>2. RowsAgree(e)'
    BY <1>8, <1>9, <2>1 DEF RowsAgree
  <2>3. velocityFrom'[e] = body'[e] \/ (body'[e].moved = 0 /\ mtAge'[e] >= 1)
    <3>1. mtAge[e] >= 1
      BY <1>4 DEF RowUnderway
    <3> HIDE DEF wrapped
    <3>2. CASE e \in wrapped
      <4>1. body'[e].moved = 0
        BY <1>6, <3>2
      <4> QED BY <1>2, <3>1, <4>1
    <3>3. CASE e \notin wrapped
      BY <1>1, <1>7, <3>3
    <3> QED BY <3>2, <3>3
  <2> QED BY <1>9, <1>10, <2>2, <2>3 DEF RowInStep
<1>12. MtRows'
  BY <1>1, <1>11 DEF MtRows
<1>13. ASSUME NEW e \in MtEnv
       PROVE  body'[e] \in [robot : Nat, box : Nat, moved : Nat] /\ frame'[e] \in Nat /\ clipEnd'[e] \in Nat
  <2>1. next[e] \in Nat
    BY <1>4
  <2> HIDE DEF wrapped, next, frames
  <2>2. CASE e \in wrapped
    <3>1. frame'[e] = drawn[e] /\ clipEnd'[e] = ClipEndFrame(ClipOf(drawn[e]))
      BY <1>6, <2>2
    <3>2. body'[e] = [robot |-> drawn[e], box |-> drawn[e], moved |-> 0]
      BY <1>6, <2>2
    <3> QED BY <1>5, <3>1, <3>2
  <2>3. CASE e \notin wrapped
    BY <1>4, <1>7, <2>1, <2>3
  <2> QED BY <2>2, <2>3
<1>14. MtTypes'
  <2>1. /\ body' = [e \in MtEnv |-> body'[e]] /\ frame' = [e \in MtEnv |-> frame'[e]]
        /\ clipEnd' = [e \in MtEnv |-> clipEnd'[e]]
    BY <1>1 DEF Over
  <2>2. /\ body' \in [MtEnv -> [robot : Nat, box : Nat, moved : Nat]] /\ frame' \in [MtEnv -> Nat]
        /\ clipEnd' \in [MtEnv -> Nat]
    BY <1>13, <2>1
  <2>3. cacheStep' = mtCounter' /\ mtCounter' \in Nat
    BY <1>1 DEF PostCompute, MtInv, MtTypes
  <2>4. ended' \subseteq MtEnv /\ mtPc' \in {"init", "act", "terms", "autoreset"}
    BY <1>1, <1>3
  <2> QED BY <1>2, <2>2, <2>3, <2>4 DEF MtInv, MtTypes
<1>15. MtEnds'
  BY <1>1, <1>2 DEF MtEnds
<1>16. MtActions'
  BY <1>1, <1>2 DEF MtInv, MtActions
<1>17. RefreshedRobot(mtCounter') = body
  BY <1>1 DEF RefreshedRobot, MtInv, MtTypes
<1>18. /\ judged'.bodies = JudgedBodies(body) /\ judged'.boxes = JudgedBox
       /\ judged'.velocities = JudgedVelocity /\ judged'.now = body /\ judged'.age = mtAge
  BY <1>1, <1>17
<1>19. ASSUME NEW e \in MtEnv PROVE JudgedAsChosen(e)' /\ AccelerationOfOneRobot(e)'
  <2> DEFINE now == body[e]
             before == [now EXCEPT !.moved = @ - 1]
             then == now.robot + before.moved
  <2>1. /\ judged'.bodies[e] = [reference |-> motionFrame[e], anchored |-> relative[e], robot |-> now]
        /\ judged'.boxes[e] = [reference |-> boxFrame[e], box |-> now]
        /\ judged'.velocities[e] = [from |-> velocityFrom[e], to |-> now]
        /\ judged'.now[e] = now /\ judged'.age[e] = mtAge[e]
    BY <1>18 DEF JudgedBodies, JudgedBox, JudgedVelocity
  <2>2. /\ motionFrame[e] = frame[e] /\ boxFrame[e] = frame[e] /\ relative[e] = <<frame[e], before>>
        /\ now.box = now.robot /\ frame[e] = now.robot + now.moved - 1
        /\ velocityFrom[e] = before \/ (now.moved = 1 /\ mtAge[e] >= 2)
    BY <1>4 DEF RowUnderway
  <2>3. frame[e] = then
    BY <1>4, <2>2
  <2>4. JudgedAsChosen(e)'
    <3> HIDE DEF now, before, then
    <3>1. judged'.bodies[e] = [reference |-> then, anchored |-> <<then, before>>, robot |-> now]
      BY <2>1, <2>2, <2>3
    <3>2. judged'.boxes[e] = [reference |-> then, box |-> now]
      BY <2>1, <2>2, <2>3
    <3> USE DEF before, then
    <3> QED BY <2>1, <2>2, <3>1, <3>2 DEF JudgedAsChosen
  <2>5. AccelerationOfOneRobot(e)'
    <3>1. judged'.velocities[e].from = velocityFrom[e] /\ judged'.velocities[e].to = now
      BY <2>1
    <3>2. CASE velocityFrom[e] = before
      BY <3>1, <3>2 DEF AccelerationOfOneRobot
    <3>3. CASE now.moved = 1 /\ mtAge[e] >= 2
      <4>1. judged'.age[e] > 1
        BY <1>4, <2>1, <3>3
      <4> QED BY <3>1, <3>3, <4>1 DEF AccelerationOfOneRobot
    <3> QED BY <2>2, <3>2, <3>3
  <2> QED BY <2>4, <2>5
<1>20. MtJudged'
  BY <1>19, Zenon DEF MtJudged
<1>21. MtErrors'
  <2>1. failedBins = {Bin(f) : f \in failedAt} /\ mixedErrors = {}
    BY DEF MtInv, MtErrors
  <2>2. ASSUME NEW e \in terminated PROVE body[e].robot + body[e].moved - 1 = frame[e]
    BY <1>4 DEF RowUnderway
  <2>3. CASE mode = "adaptive"
    <3>1. failedBins' = failedBins \cup {Bin(frame[e]) : e \in terminated}
      BY <1>1, <2>3 DEF UpdateFailureStats
    <3>2. failedAt' = failedAt \cup {frame[e] : e \in terminated}
      BY <1>1, <2>2, <2>3
    <3>3. {Bin(f) : f \in failedAt'} = {Bin(f) : f \in failedAt} \cup {Bin(frame[e]) : e \in terminated}
      BY <3>2
    <3> QED BY <1>2, <2>1, <3>1, <3>3, Zenon DEF MtErrors
  <2>4. CASE mode # "adaptive"
    <3>1. failedBins' = failedBins /\ failedAt' = failedAt
      BY <1>1, <2>4 DEF UpdateFailureStats
    <3> QED BY <1>2, <2>1, <3>1, Zenon DEF MtErrors
  <2> QED BY <2>3, <2>4
<1> QED BY <1>12, <1>14, <1>15, <1>16, <1>20, <1>21 DEF MtInv

\* A reset places some rows anew and leaves the others in step.
LEMMA MtResets ==
  ASSUME MtInv, NEW chosen \in SUBSET MtEnv, NEW drawn \in [MtEnv -> SampleFrames], Reset(chosen, drawn),
         mtPc \in {"act", "autoreset"} \/ (mtPc = "init" /\ chosen = MtEnv),
         mtPc = "autoreset" => chosen = ended
  PROVE  MtInv'
<1>1. /\ ReportErrors(chosen)
      /\ frame' = Over(frame, chosen, drawn)
      /\ clipEnd' = Over(clipEnd, chosen, [e \in MtEnv |-> ClipEndFrame(ClipOf(drawn[e]))])
      /\ ShowMotion(chosen, drawn)
      /\ body' = Over(body, chosen, Placed(drawn))
      /\ PostCompute(chosen, body', mtCounter)
      /\ motionEpisode' = [e \in MtEnv |-> motionEpisode[e] + IF e \in chosen THEN 1 ELSE 0]
      /\ bias' = Over(bias, chosen, motionEpisode')
      /\ raw' = Over(raw, chosen, [e \in MtEnv |-> 0])
      /\ mtAge' = Over(mtAge, chosen, [e \in MtEnv |-> 0])
      /\ ended' = ended \ chosen
      /\ mtPc' = "act"
      /\ velocityFrom' = Over(velocityFrom, chosen, body')
  BY Zenon DEF Reset, SetSampledFrames
<1>2. /\ mode' = mode /\ auto' = auto /\ truncate' = truncate /\ latency' = latency /\ mtCounter' = mtCounter
      /\ failedBins' = failedBins /\ judged' = judged /\ failedAt' = failedAt
  BY DEF Reset, mtconfig
<1>3. ASSUME NEW e \in MtEnv
      PROVE  /\ body[e] \in [robot : Nat, box : Nat, moved : Nat] /\ frame[e] \in Nat /\ clipEnd[e] \in Nat
             /\ mtAge[e] \in Nat /\ motionEpisode[e] \in Nat /\ robotCache[e] = body[e]
             /\ e \notin chosen => RowInStep(e)
  BY DEF MtInv, MtRows, MtTypes, RowInStep
<1>4. ASSUME NEW e \in MtEnv
      PROVE  /\ drawn[e] \in Nat /\ ClipEndFrame(ClipOf(drawn[e])) \in Nat
             /\ drawn[e] <= ClipEndFrame(ClipOf(drawn[e]))
  <2>1. drawn[e] \in SampleFrames /\ mode \in MtModes
    BY DEF MtInv, MtTypes
  <2>2. /\ drawn[e] \in 0 .. NumFrames - 1 /\ ClipOf(drawn[e]) \in Clips
        /\ drawn[e] <= ClipEndFrame(ClipOf(drawn[e]))
    BY <2>1, Sampled
  <2> QED BY <2>2, EndFrames
<1>5. ASSUME NEW e \in MtEnv, e \in chosen
      PROVE  /\ frame'[e] = drawn[e] /\ clipEnd'[e] = ClipEndFrame(ClipOf(drawn[e]))
             /\ body'[e] = [robot |-> drawn[e], box |-> drawn[e], moved |-> 0]
             /\ body'[e].robot = drawn[e] /\ body'[e].box = drawn[e] /\ body'[e].moved = 0
             /\ motionFrame'[e] = drawn[e] /\ boxFrame'[e] = drawn[e]
             /\ robotCache'[e] = body'[e] /\ relative'[e] = <<motionFrame'[e], robotCache'[e]>>
             /\ boxState'[e] = <<robotCache'[e], body'[e]>> /\ velocityFrom'[e] = body'[e]
             /\ raw'[e] = 0 /\ mtAge'[e] = 0 /\ bias'[e] = motionEpisode'[e]
  <2>1. frame'[e] = drawn[e] /\ clipEnd'[e] = ClipEndFrame(ClipOf(drawn[e]))
    BY <1>1, <1>5, OverRows
  <2>2. body'[e] = [robot |-> drawn[e], box |-> drawn[e], moved |-> 0]
    <3>1. body'[e] = Placed(drawn)[e]
      BY <1>1, <1>5, OverRows
    <3> QED BY <3>1, PlacedRow
  <2>3. motionFrame'[e] = drawn[e] /\ boxFrame'[e] = drawn[e]
    <3>1. motionFrame' = Over(motionFrame, chosen, drawn) /\ boxFrame' = Over(boxFrame, chosen, drawn)
      BY <1>1, Zenon DEF ShowMotion
    <3> QED BY <1>5, <3>1, OverRows
  <2>4. /\ robotCache' = Over(robotCache, chosen, body')
        /\ relative' = Over(relative, chosen, [d \in MtEnv |-> <<motionFrame'[d], robotCache'[d]>>])
        /\ boxState' = Over(boxState, chosen, [d \in MtEnv |-> <<robotCache'[d], body'[d]>>])
    BY <1>1, Zenon DEF PostCompute, RelateRobot, RelateBox
  <2>5. relative'[e] = [d \in MtEnv |-> <<motionFrame'[d], robotCache'[d]>>][e]
    BY <1>5, <2>4, OverRows
  <2>6. boxState'[e] = [d \in MtEnv |-> <<robotCache'[d], body'[d]>>][e]
    BY <1>5, <2>4, OverRows
  <2>7. robotCache'[e] = body'[e] /\ velocityFrom'[e] = body'[e] /\ bias'[e] = motionEpisode'[e]
    BY <1>1, <1>5, <2>4, OverRows
  <2>8. raw'[e] = 0 /\ mtAge'[e] = 0
    BY <1>1, <1>5, OverRows
  <2> QED BY <2>1, <2>2, <2>3, <2>5, <2>6, <2>7, <2>8
<1>6. ASSUME NEW e \in MtEnv, e \notin chosen
      PROVE  /\ frame'[e] = frame[e] /\ clipEnd'[e] = clipEnd[e] /\ body'[e] = body[e]
             /\ motionFrame'[e] = motionFrame[e] /\ boxFrame'[e] = boxFrame[e]
             /\ robotCache'[e] = robotCache[e] /\ relative'[e] = relative[e] /\ boxState'[e] = boxState[e]
             /\ velocityFrom'[e] = velocityFrom[e] /\ raw'[e] = raw[e] /\ mtAge'[e] = mtAge[e]
             /\ bias'[e] = bias[e] /\ motionEpisode'[e] = motionEpisode[e]
  <2>1. /\ motionFrame' = Over(motionFrame, chosen, drawn) /\ boxFrame' = Over(boxFrame, chosen, drawn)
        /\ robotCache' = Over(robotCache, chosen, body')
        /\ relative' = Over(relative, chosen, [d \in MtEnv |-> <<motionFrame'[d], robotCache'[d]>>])
        /\ boxState' = Over(boxState, chosen, [d \in MtEnv |-> <<robotCache'[d], body'[d]>>])
    BY <1>1, Zenon DEF PostCompute, RelateRobot, RelateBox, ShowMotion
  <2>2. motionEpisode'[e] = motionEpisode[e]
    <3>1. motionEpisode'[e] = motionEpisode[e] + 0
      BY <1>1, <1>6
    <3> QED BY <1>3, <3>1
  <2>3. frame'[e] = frame[e] /\ clipEnd'[e] = clipEnd[e] /\ body'[e] = body[e]
    BY <1>1, <1>6, OverRows
  <2>4. velocityFrom'[e] = velocityFrom[e] /\ raw'[e] = raw[e] /\ mtAge'[e] = mtAge[e] /\ bias'[e] = bias[e]
    BY <1>1, <1>6, OverRows
  <2>5. motionFrame'[e] = motionFrame[e] /\ boxFrame'[e] = boxFrame[e] /\ robotCache'[e] = robotCache[e]
    BY <1>6, <2>1, OverRows
  <2>6. relative'[e] = relative[e] /\ boxState'[e] = boxState[e]
    BY <1>6, <2>1, OverRows
  <2> QED BY <2>2, <2>3, <2>4, <2>5, <2>6
<1>7. ASSUME NEW e \in MtEnv PROVE RowInStep(e)'
  <2>1. CASE e \in chosen
    <3>1. e \notin ended'
      BY <1>1, <2>1
    <3>2. FramesKeepPace(e)'
      <4>1. /\ frame'[e] = drawn[e] /\ clipEnd'[e] = ClipEndFrame(ClipOf(drawn[e]))
            /\ body'[e].robot = drawn[e] /\ body'[e].moved = 0
        BY <1>5, <2>1
      <4> QED BY <1>4, <3>1, <4>1 DEF FramesKeepPace
    <3>3. RowsAgree(e)'
      BY <1>5, <2>1 DEF RowsAgree
    <3> QED BY <1>5, <2>1, <3>2, <3>3 DEF RowInStep
  <2>2. CASE e \notin chosen
    <3>1. e \in ended' <=> e \in ended
      BY <1>1, <2>2
    <3>2. RowInStep(e)
      BY <1>3, <2>2
    <3> QED BY <1>6, <2>2, <3>1, <3>2 DEF RowInStep, FramesKeepPace, RowsAgree
  <2> QED BY <2>1, <2>2
<1>8. MtRows'
  BY <1>1, <1>7 DEF MtRows
<1>9. MtTypes'
  <2>1. ASSUME NEW e \in MtEnv
        PROVE  /\ body'[e] \in [robot : Nat, box : Nat, moved : Nat] /\ frame'[e] \in Nat /\ clipEnd'[e] \in Nat
               /\ mtAge'[e] \in Nat /\ motionEpisode'[e] \in Nat
    <3>1. motionEpisode'[e] \in Nat
      BY <1>1, <1>3
    <3>2. CASE e \in chosen
      <4>1. /\ frame'[e] = drawn[e] /\ clipEnd'[e] = ClipEndFrame(ClipOf(drawn[e])) /\ mtAge'[e] = 0
            /\ body'[e] = [robot |-> drawn[e], box |-> drawn[e], moved |-> 0]
        BY <1>5, <3>2
      <4> QED BY <1>4, <3>1, <4>1
    <3>3. CASE e \notin chosen
      BY <1>3, <1>6, <3>3
    <3> QED BY <3>2, <3>3
  <2>2. /\ body' = [e \in MtEnv |-> body'[e]] /\ frame' = [e \in MtEnv |-> frame'[e]]
        /\ clipEnd' = [e \in MtEnv |-> clipEnd'[e]] /\ mtAge' = [e \in MtEnv |-> mtAge'[e]]
        /\ motionEpisode' = [e \in MtEnv |-> motionEpisode'[e]]
    BY <1>1 DEF Over
  <2>3. /\ body' \in [MtEnv -> [robot : Nat, box : Nat, moved : Nat]] /\ frame' \in [MtEnv -> Nat]
        /\ clipEnd' \in [MtEnv -> Nat] /\ mtAge' \in [MtEnv -> Nat] /\ motionEpisode' \in [MtEnv -> Nat]
    BY <2>1, <2>2
  <2>4. cacheStep' = mtCounter' /\ mtCounter' \in Nat /\ ended' \subseteq MtEnv
    BY <1>1, <1>2 DEF PostCompute, MtInv, MtTypes
  <2> QED BY <1>1, <1>2, <2>3, <2>4 DEF MtInv, MtTypes
<1>10. MtEnds'
  BY <1>1, <1>2 DEF MtInv, MtEnds, MtTypes
<1>11. MtActions'
  <2>1. ASSUME NEW e \in MtEnv PROVE raw'[e] = mtAge'[e] /\ bias'[e] = motionEpisode'[e]
    <3>1. raw[e] = mtAge[e] /\ bias[e] = motionEpisode[e]
      BY DEF MtInv, MtActions
    <3>2. CASE e \in chosen
      BY <1>5, <3>2
    <3>3. CASE e \notin chosen
      BY <1>6, <3>1, <3>3
    <3> QED BY <3>2, <3>3
  <2> QED BY <1>1, <2>1 DEF MtActions
<1>12. MtJudged'
  BY <1>2, JudgedKept DEF MtInv
<1>13. MtErrors'
  BY <1>1, <1>2, <1>3 DEF ReportErrors, MtInv, MtErrors
<1> QED BY <1>8, <1>9, <1>10, <1>11, <1>12, <1>13 DEF MtInv

LEMMA MtStuttered ==
  ASSUME MtInv, UNCHANGED mtvars
  PROVE  MtInv'
<1> USE DEF mtvars, mtconfig, motionvars, robotvars, mtactionvars
<1>1. ASSUME NEW e \in MtEnv PROVE RowInStep(e)' = RowInStep(e)
  BY DEF RowInStep, FramesKeepPace, RowsAgree
<1>2. ASSUME NEW e \in MtEnv PROVE RowUnderway(e)' = RowUnderway(e)
  BY DEF RowUnderway
<1>3. MtRows' /\ MtTypes'
  BY <1>1, <1>2 DEF MtInv, MtRows, MtTypes
<1>4. MtEnds' /\ MtActions' /\ MtErrors'
  BY DEF MtInv, MtEnds, MtActions, MtErrors
<1>5. MtJudged'
  BY JudgedKept DEF MtInv
<1> QED BY <1>3, <1>4, <1>5 DEF MtInv

LEMMA MtKept == MtInv /\ [MtNext]_mtvars => MtInv'
<1>1. SUFFICES ASSUME MtInv, [MtNext]_mtvars PROVE MtInv'
  OBVIOUS
<1>2. CASE ProcessActions
  BY <1>1, <1>2, MtActs
<1>3. ASSUME NEW drawn \in [MtEnv -> SampleFrames], NEW terminated \in SUBSET MtEnv,
             NEW timedOut \in SUBSET MtEnv, Terms(terminated, timedOut, drawn)
      PROVE  MtInv'
  BY <1>1, <1>3, MtTerms
<1>4. ASSUME NEW drawn \in [MtEnv -> SampleFrames], FirstReset(drawn)
      PROVE  MtInv'
  <2>1. MtEnv \in SUBSET MtEnv /\ Reset(MtEnv, drawn) /\ mtPc = "init"
    BY <1>4 DEF FirstReset
  <2> QED BY <1>1, <2>1, MtResets
<1>5. ASSUME NEW drawn \in [MtEnv -> SampleFrames], Autoreset(drawn)
      PROVE  MtInv'
  <2>1. ended \in SUBSET MtEnv /\ Reset(ended, drawn) /\ mtPc = "autoreset"
    BY <1>1, <1>5 DEF Autoreset, MtInv, MtTypes
  <2> QED BY <1>1, <2>1, MtResets
<1>6. ASSUME NEW drawn \in [MtEnv -> SampleFrames], NEW chosen \in SUBSET MtEnv \ {{}}, ManualReset(chosen, drawn)
      PROVE  MtInv'
  <2>1. chosen \in SUBSET MtEnv /\ Reset(chosen, drawn) /\ mtPc = "act"
    BY <1>6 DEF ManualReset
  <2> QED BY <1>1, <2>1, MtResets
<1>7. CASE UNCHANGED mtvars
  BY <1>1, <1>7, MtStuttered
<1> QED BY <1>1, <1>2, <1>3, <1>4, <1>5, <1>6, <1>7, Zenon DEF MtNext

\* MotionCommand, BoxMotionCommand, MotionSampler and MotionJointPositionAction, for any
\* clips, sampling mode and number of environments: reference frames keep pace with the
\* robots they were sampled for, what relates the two is of one moment, terms compare the
\* frame an action was chosen for, and failures are counted where robots failed.
THEOREM MotionStaysInStep == MtSpec => []MotionInStep
<1>1. MtInv => MotionInStep
  <2>1. SUFFICES ASSUME MtInv PROVE MotionInStep
    OBVIOUS
  <2>2. mtPc # "init" => \A e \in MtEnv : ActionOfThisEpisode(e)
    BY <2>1 DEF MtInv, MtActions, ActionOfThisEpisode
  <2>3. mtPc \in {"act", "autoreset"} => \A e \in MtEnv : FramesKeepPace(e) /\ RowsAgree(e)
    BY <2>1 DEF MtInv, MtRows, RowInStep
  <2> QED BY <2>1, <2>2, <2>3 DEF MtInv, MtJudged, MtErrors, MotionInStep
<1> QED BY <1>1, MtBegins, MtKept, PTL DEF MtSpec

------------------------------------------------------------------------------
(* The clocks of a gait.                                                      *)

LEMMA Remainder ==
  ASSUME NEW N \in Nat \ {0}, NEW a \in Int
  PROVE  /\ a \div N \in Int
         /\ a % N \in 0 .. N - 1
         /\ a = N * (a \div N) + (a % N)
  OBVIOUS

\* What is less than N has one remainder, wherever the multiple of N begins.
LEMMA OneRemainder ==
  ASSUME NEW N \in Nat \ {0}, NEW p \in Int, NEW q \in Int, NEW r \in 0 .. N - 1, NEW s \in 0 .. N - 1,
         N * p + r = N * q + s
  PROVE  r = s
<1>1. N * (p - q) = s - r
  OBVIOUS
<1>2. ASSUME NEW d \in Nat, p - q = d + 1 PROVE FALSE
  <2>1. N * (p - q) = N * d + N /\ N * d \in Nat
    BY <1>2
  <2> QED BY <1>1, <2>1
<1>3. ASSUME NEW d \in Nat, q - p = d + 1 PROVE FALSE
  <2>1. p - q = 0 - (d + 1) /\ N * (p - q) = 0 - (N * d + N) /\ N * d \in Nat
    BY <1>3
  <2> QED BY <1>1, <2>1
<1>4. CASE p = q
  BY <1>1, <1>4
<1>5. CASE p > q
  <2>1. p - q - 1 \in Nat /\ p - q = (p - q - 1) + 1
    BY <1>5
  <2> QED BY <1>2, <2>1
<1>6. CASE p < q
  <2>1. q - p - 1 \in Nat /\ q - p = (q - p - 1) + 1
    BY <1>6
  <2> QED BY <1>3, <2>1
<1> QED BY <1>4, <1>5, <1>6

\* A clock that is read in between shows the same in the end.
LEMMA TicksAdd ==
  ASSUME NEW N \in Nat \ {0}, NEW a \in Int, NEW b \in Int
  PROVE  ((a % N) + b) % N = (a + b) % N
<1> DEFINE q == a \div N  r == a % N
<1>1. q \in Int /\ r \in 0 .. N - 1 /\ a = N * q + r
  BY Remainder
<1> HIDE DEF q, r
<1>2. r + b \in Int /\ a + b \in Int
  BY <1>1
<1>3. PICK p \in Int, x \in 0 .. N - 1 : r + b = N * p + x /\ x = (r + b) % N
  BY <1>2, Remainder
<1>4. PICK u \in Int, y \in 0 .. N - 1 : a + b = N * u + y /\ y = (a + b) % N
  BY <1>2, Remainder
<1>5. N * (q + p) + x = N * u + y
  <2>1. a + b = N * q + (r + b)
    BY <1>1
  <2>2. N * (q + p) = N * q + N * p /\ N * q \in Int /\ N * p \in Int /\ N * u \in Int
    BY <1>1
  <2> QED BY <1>3, <1>4, <2>1, <2>2
<1>6. x = y
  <2>1. q + p \in Int
    BY <1>1
  <2> QED BY <1>5, <2>1, OneRemainder
<1> QED BY <1>3, <1>4, <1>6 DEF r

LEMMA Unchanged ==
  ASSUME NEW N \in Nat \ {0}, NEW a \in 0 .. N - 1
  PROVE  a % N = a
<1>1. a \div N \in Int /\ a % N \in 0 .. N - 1 /\ a = N * (a \div N) + (a % N)
  <2>1. a \in Int
    OBVIOUS
  <2> QED BY <2>1, Remainder
<1>2. PICK q \in Int, r \in 0 .. N - 1 : a = N * q + r /\ r = a % N
  BY <1>1
<1>3. N * q + r = N * 0 + a
  BY <1>2
<1>4. r = a
  BY <1>3, OneRemainder
<1> QED BY <1>2, <1>4

\* Half a cycle away, one foot is as high as the other is low, whatever multiples of the
\* cycle the phases hold.
LEMMA HalfACycle ==
  ASSUME NEW left, NEW right, NEW a \in 0 .. Cycle - 1, NEW b,
         a = left % Cycle, b = right % Cycle, b = (a + Cycle \div 2) % Cycle
  PROVE  HeightTarget(left) + HeightTarget(right) = Cycle \div 2
<1>1. PICK h \in Nat : h = Cycle \div 2 /\ Cycle = 2 * h /\ h > 0
  <2>1. PICK q \in Int : Cycle = 4 * q
    <3>1. Cycle \in Nat \ {0} /\ Cycle % 4 = 0
      BY GaitAssumption
    <3> QED BY <3>1
  <2>2. Cycle \div 2 = 2 * q /\ 2 * q \in Nat /\ q > 0
    BY <2>1, GaitAssumption
  <2> QED BY <2>1, <2>2
<1>2. Cycle \in Nat \ {0}
  BY GaitAssumption
<1>3. b = (a + h) % Cycle
  BY <1>1
<1>4. CASE a < h
  <2>1. a + h \in 0 .. Cycle - 1
    BY <1>1, <1>4
  <2>2. b = a + h
    BY <1>2, <1>3, <2>1, Unchanged
  <2> QED BY <1>1, <1>4, <2>2 DEF HeightTarget, Magnitude
<1>5. CASE a >= h
  <2>1. a - h \in 0 .. Cycle - 1
    BY <1>1, <1>5
  <2>2. Cycle * 1 + (a - h) = a + h
    BY <1>1
  <2>3. b = a - h
    <3>1. a + h \in Int
      BY <1>1
    <3>2. PICK p \in Int : b \in 0 .. Cycle - 1 /\ a + h = Cycle * p + b
      BY <1>2, <1>3, <3>1, Remainder
    <3> QED BY <1>2, <2>1, <2>2, <3>2, OneRemainder
  <2> QED BY <1>1, <1>5, <2>3 DEF HeightTarget, Magnitude
<1> QED BY <1>4, <1>5

------------------------------------------------------------------------------
(* The flat reading of the contact sensors.                                   *)

LEMMA SumsAdd ==
  ASSUME NEW s \in Seq(Nat)
  PROVE  /\ Sums(s) \in [0 .. Len(s) -> Nat] /\ Sums(s)[0] = 0
         /\ \A k \in 1 .. Len(s) : Sums(s)[k] = Sums(s)[k - 1] + s[k]
<1> DEFINE D == 0 .. Len(s)
           sum[k \in D] == IF k = 0 THEN 0 ELSE sum[k - 1] + s[k]
<1>1. Len(s) \in Nat
  OBVIOUS
<1>2. PICK h \in [D -> Nat] : Accumulates(h, s, Len(s))
  BY RunningSums
<1>3. h = [k \in D |-> IF k = 0 THEN 0 ELSE h[k - 1] + s[k]]
  <2>1. ASSUME NEW k \in D PROVE h[k] = IF k = 0 THEN 0 ELSE h[k - 1] + s[k]
    BY <1>1, <1>2 DEF Accumulates
  <2> QED BY <1>2, <2>1
<1>4. sum = [k \in D |-> IF k = 0 THEN 0 ELSE sum[k - 1] + s[k]]
  <2> HIDE DEF D
  <2> QED BY <1>3, Zenon
<1>5. Sums(s) = sum
  BY DEF Sums
<1> HIDE DEF sum
<1>6. \A k \in D : sum[k] = IF k = 0 THEN 0 ELSE sum[k - 1] + s[k]
  <2> HIDE DEF D
  <2> QED BY <1>4, Zenon
<1> DEFINE S == {n \in Nat : n \in D => sum[n] = h[n]}
<1>7. 0 \in S
  BY <1>1, <1>2, <1>6 DEF Accumulates
<1>8. ASSUME NEW n \in Nat, n \in S PROVE n + 1 \in S
  <2>1. ASSUME n + 1 \in D PROVE sum[n + 1] = h[n + 1]
    <3>1. n \in D /\ n + 1 # 0 /\ (n + 1) - 1 = n /\ n + 1 \in 1 .. Len(s)
      BY <1>1, <2>1
    <3>2. sum[n] = h[n]
      BY <1>8, <3>1
    <3>3. sum[n + 1] = sum[n] + s[n + 1] /\ h[n + 1] = h[n] + s[n + 1]
      BY <1>2, <1>6, <2>1, <3>1 DEF Accumulates
    <3> QED BY <3>2, <3>3
  <2> QED BY <2>1
<1>9. \A n \in Nat : n \in S
  <2> HIDE DEF S
  <2> QED BY <1>7, <1>8, Induction
<1>10. \A k \in D : sum[k] = h[k]
  BY <1>9
<1>11. sum = h
  <2> HIDE DEF D
  <2> QED BY <1>2, <1>4, <1>10
<1> QED BY <1>2, <1>5, <1>11 DEF Accumulates

LEMMA SumsInOrder ==
  ASSUME NEW s \in Seq(Nat), NEW i \in 0 .. Len(s), NEW j \in 0 .. Len(s), i <= j
  PROVE  Sums(s)[i] <= Sums(s)[j]
<1> DEFINE S == {n \in Nat : i + n \in 0 .. Len(s) => Sums(s)[i] <= Sums(s)[i + n]}
<1>1. Len(s) \in Nat /\ i \in Nat /\ j \in Nat /\ Sums(s)[i] \in Nat
  BY SumsAdd
<1>2. 0 \in S
  BY <1>1
<1>3. ASSUME NEW n \in Nat, n \in S PROVE n + 1 \in S
  <2>1. ASSUME i + (n + 1) \in 0 .. Len(s) PROVE Sums(s)[i] <= Sums(s)[i + (n + 1)]
    <3>1. i + n \in 0 .. Len(s) /\ i + (n + 1) \in 1 .. Len(s) /\ (i + (n + 1)) - 1 = i + n
      BY <1>1, <2>1
    <3>2. Sums(s)[i] <= Sums(s)[i + n]
      BY <1>3, <3>1
    <3>3. Sums(s)[i + (n + 1)] = Sums(s)[i + n] + s[i + (n + 1)]
      BY <3>1, SumsAdd
    <3>4. Sums(s)[i + n] \in Nat
      BY <3>1, SumsAdd
    <3>5. s[i + (n + 1)] \in Nat
      BY <3>1
    <3>6. PICK b \in Nat, d \in Nat : b = Sums(s)[i + n] /\ d = s[i + (n + 1)]
      BY <3>4, <3>5
    <3>7. PICK a \in Nat : a = Sums(s)[i]
      BY <1>1
    <3>8. a <= b + d
      <4>1. a <= b
        BY <3>2, <3>6, <3>7, Zenon
      <4> QED BY <4>1
    <3> QED BY <3>3, <3>6, <3>7, <3>8, Zenon
  <2> QED BY <2>1
<1>4. \A n \in Nat : n \in S
  <2> HIDE DEF S
  <2> QED BY <1>2, <1>3, Induction
<1>5. j - i \in Nat /\ i + (j - i) = j
  BY <1>1
<1> QED BY <1>4, <1>5

\* What lies between two running sums lies in one part.
LEMMA OnePart ==
  ASSUME NEW s \in Seq(Nat), NEW i \in 1 .. Len(s), NEW j \in 1 .. Len(s), NEW x \in Int,
         Sums(s)[i - 1] < x, x <= Sums(s)[i], Sums(s)[j - 1] < x, x <= Sums(s)[j]
  PROVE  i = j
<1>1. Len(s) \in Nat /\ {i, j, i - 1, j - 1} \subseteq 0 .. Len(s)
  OBVIOUS
<1>2. Sums(s)[i] \in Nat /\ Sums(s)[j] \in Nat /\ Sums(s)[i - 1] \in Nat /\ Sums(s)[j - 1] \in Nat
  BY <1>1, SumsAdd
<1>3. CASE i < j
  <2>1. i <= j - 1 /\ i \in 0 .. Len(s) /\ j - 1 \in 0 .. Len(s)
    BY <1>1, <1>3
  <2>2. Sums(s)[i] <= Sums(s)[j - 1]
    BY <2>1, SumsInOrder
  <2> QED BY <1>2, <2>2
<1>4. CASE j < i
  <2>1. j <= i - 1 /\ j \in 0 .. Len(s) /\ i - 1 \in 0 .. Len(s)
    BY <1>1, <1>4
  <2>2. Sums(s)[j] <= Sums(s)[i - 1]
    BY <2>1, SumsInOrder
  <2> QED BY <1>2, <2>2
<1> QED BY <1>1, <1>3, <1>4

Batches == [GtEnv -> [Feet -> [contact : BOOLEAN, height : Int, speed : Int]]]
Configured == gtConfig \in GtConfigs /\ ~GaitRefused(gtConfig)

LEMMA Sensors ==
  ASSUME Configured
  PROVE  /\ gtConfig.groups \in Seq(Nat) /\ gtConfig.widths \in Seq(Nat)
         /\ Len(gtConfig.widths) = Sums(gtConfig.groups)[Len(gtConfig.groups)]
         /\ Feet = 1 .. Len(gtConfig.groups) /\ 1 \in Feet
         /\ \A g \in Feet : gtConfig.groups[g] \in Nat \ {0}
         /\ \A k \in 1 .. Len(gtConfig.widths) : gtConfig.widths[k] \in {1, 3}
<1> DEFINE groups == gtConfig.groups  widths == gtConfig.widths
<1>1. /\ groups \in Seq(Nat) /\ widths \in Seq(Nat)
      /\ Len(widths) = Sums(groups)[Len(groups)]
  BY GaitAssumption DEF Configured, GaitConfig
<1>2. ~GroupsRefused(gtConfig) /\ ~SwingHeightRefused(gtConfig)
  BY DEF Configured, GaitRefused
<1>3. Feet = 1 .. Len(groups) /\ 1 \in Feet
  <2>1. PICK n \in Feet : n \in Nat /\ Feet = 1 .. n
    BY GaitAssumption
  <2>2. Cardinality(Feet) = n /\ n >= 1
    BY <2>1, FS_Interval
  <2>3. Len(groups) = Cardinality(Feet)
    BY <1>2 DEF SwingHeightRefused
  <2> QED BY <2>1, <2>2, <2>3
<1>4. \A g \in Feet : groups[g] \in Nat \ {0}
  <2>1. 0 \notin Range(groups)
    BY <1>2 DEF GroupsRefused
  <2>2. ASSUME NEW g \in Feet PROVE groups[g] \in Nat /\ g \in DOMAIN groups
    BY <1>1, <1>3
  <2> HIDE DEF groups
  <2> QED BY <2>1, <2>2 DEF Range
<1>5. \A k \in 1 .. Len(widths) : widths[k] \in {1, 3}
  <2>1. Range(widths) \subseteq {1, 3}
    BY <1>2 DEF GroupsRefused
  <2>2. ASSUME NEW k \in 1 .. Len(widths) PROVE k \in DOMAIN widths
    BY <1>1
  <2> HIDE DEF widths
  <2> QED BY <2>1, <2>2 DEF Range
<1> QED BY <1>1, <1>3, <1>4, <1>5

\* The sensor a column of the reading belongs to, and its foot.
SensorOf(c) ==
  CHOOSE k \in DOMAIN gtConfig.widths :
     c \in Starts(gtConfig.widths)[k] .. Starts(gtConfig.widths)[k] + gtConfig.widths[k] - 1
FootOf(k) ==
  CHOOSE g \in DOMAIN gtConfig.groups :
     k \in SensorOffset(gtConfig.groups, g) + 1 .. SensorOffset(gtConfig.groups, g) + gtConfig.groups[g]
Columns == 1 .. Sums(gtConfig.widths)[Len(gtConfig.widths)]

LEMMA ReadAt ==
  ASSUME NEW contact, NEW c \in Columns, NEW k, NEW g, k = SensorOf(c), g = FootOf(k),
         c = Starts(gtConfig.widths)[k]
  PROVE  Reading(contact)[c] = (contact[g] /\ k = SensorOffset(gtConfig.groups, g) + 1)
<1>1. Reading(contact) =
        [d \in Columns |->
           IF d = Starts(gtConfig.widths)[SensorOf(d)]
           THEN contact[FootOf(SensorOf(d))]
                 /\ SensorOf(d) = SensorOffset(gtConfig.groups, FootOf(SensorOf(d))) + 1
           ELSE TRUE]
  BY Zenon DEF Reading, Columns, SensorOf, FootOf
<1> QED BY <1>1, Zenon

LEMMA FootOfSensor ==
  ASSUME Configured, NEW g \in Feet, NEW m \in 1 .. gtConfig.groups[g]
  PROVE  /\ SensorOffset(gtConfig.groups, g) \in Nat
         /\ SensorOffset(gtConfig.groups, g) + m \in 1 .. Len(gtConfig.widths)
         /\ FootOf(SensorOffset(gtConfig.groups, g) + m) = g
<1> DEFINE groups == gtConfig.groups
           k == SensorOffset(groups, g) + m
<1>1. groups \in Seq(Nat) /\ Feet = 1 .. Len(groups) /\ Len(gtConfig.widths) = Sums(groups)[Len(groups)]
  BY Sensors
<1>2. ASSUME NEW h \in Feet
      PROVE  /\ SensorOffset(groups, h) = Sums(groups)[h - 1] /\ Sums(groups)[h - 1] \in Nat
             /\ Sums(groups)[h] = Sums(groups)[h - 1] + groups[h] /\ groups[h] \in Nat
             /\ Sums(groups)[h] <= Len(gtConfig.widths)
  <2>1. h \in 1 .. Len(groups) /\ h - 1 \in 0 .. Len(groups) /\ h \in 0 .. Len(groups)
        /\ Len(groups) \in 0 .. Len(groups) /\ h <= Len(groups)
    BY <1>1
  <2>2. groups[h] \in Nat
    BY Sensors
  <2> HIDE DEF groups
  <2>3. Sums(groups)[h - 1] \in Nat /\ Sums(groups)[h] = Sums(groups)[h - 1] + groups[h]
    BY <1>1, <2>1, SumsAdd
  <2>4. Sums(groups)[h] <= Len(gtConfig.widths)
    BY <1>1, <2>1, SumsInOrder
  <2> QED BY <2>2, <2>3, <2>4 DEF SensorOffset
<1> HIDE DEF groups
<1>3. k \in Nat /\ Sums(groups)[g - 1] < k /\ k <= Sums(groups)[g] /\ k \in 1 .. Len(gtConfig.widths)
  <2>1. m \in 1 .. groups[g]
    BY DEF groups
  <2>2. PICK a \in Nat, b \in Nat, d \in Nat : /\ a = Sums(groups)[g - 1] /\ b = groups[g]
                                              /\ d = Sums(groups)[g] /\ d = a + b
    BY <1>2
  <2>3. k = a + m
    BY <1>2, <2>2
  <2>4. d <= Len(gtConfig.widths)
    BY <1>2, <2>2
  <2>5. Len(gtConfig.widths) \in Nat
    BY Sensors
  <2> HIDE DEF k
  <2>6. k \in Nat /\ a < k /\ k <= d /\ k \in 1 .. Len(gtConfig.widths)
    <3>1. PICK n \in Nat : n = Len(gtConfig.widths)
      BY <2>5
    <3>2. k \in Nat /\ a < k /\ k <= d /\ 1 <= k
      BY <2>1, <2>2, <2>3
    <3>3. k <= n
      BY <3>1, <3>2, <2>4
    <3>4. k \in 1 .. n
      BY <3>2, <3>3
    <3> QED BY <3>1, <3>2, <3>4, Zenon
  <2> QED BY <2>2, <2>6, Zenon
<1>4. ASSUME NEW h \in Feet
      PROVE  k \in SensorOffset(groups, h) + 1 .. SensorOffset(groups, h) + groups[h] <=> h = g
  <2>1. PICK a \in Nat, b \in Nat, d \in Nat : /\ a = Sums(groups)[h - 1] /\ b = groups[h] /\ d = a + b
                                              /\ d = Sums(groups)[h] /\ a = SensorOffset(groups, h)
    BY <1>2
  <2>2. k \in a + 1 .. a + b <=> a < k /\ k <= d
    <3> HIDE DEF k
    <3> QED BY <1>3, <2>1
  <2>3. a < k /\ k <= d => h = g
    <3> HIDE DEF k
    <3>1. k \in Int /\ h \in 1 .. Len(groups) /\ g \in 1 .. Len(groups)
      BY <1>1, <1>3
    <3>2. Sums(groups)[g - 1] < k /\ k <= Sums(groups)[g]
      BY <1>3
    <3>3. a < k /\ k <= d => Sums(groups)[h - 1] < k /\ k <= Sums(groups)[h]
      BY <2>1, Zenon
    <3> QED BY <1>1, <3>1, <3>2, <3>3, OnePart
  <2>4. h = g => a < k /\ k <= d
    <3> HIDE DEF k
    <3> QED BY <1>3, <2>1
  <2>5. k \in a + 1 .. a + b <=> h = g
    BY <2>2, <2>3, <2>4, Zenon
  <2> HIDE DEF k
  <2> QED BY <2>1, <2>5, Zenon
<1>5. DOMAIN groups = Feet
  BY <1>1
<1> HIDE DEF k
<1>6. FootOf(k) = g
  <2>1. FootOf(k) = CHOOSE h \in Feet : k \in SensorOffset(groups, h) + 1 .. SensorOffset(groups, h) + groups[h]
    BY <1>5, Zenon DEF FootOf, groups
  <2> QED BY <1>4, <2>1
<1> QED BY <1>2, <1>3, <1>6 DEF k, groups

LEMMA SensorOfColumn ==
  ASSUME Configured, NEW k \in 1 .. Len(gtConfig.widths)
  PROVE  /\ Starts(gtConfig.widths)[k] \in Columns
         /\ SensorOf(Starts(gtConfig.widths)[k]) = k
<1> DEFINE widths == gtConfig.widths
           c == Starts(widths)[k]
<1>1. widths \in Seq(Nat) /\ Len(widths) \in Nat /\ DOMAIN widths = 1 .. Len(widths)
  <2>1. widths \in Seq(Nat)
    BY Sensors
  <2> HIDE DEF widths
  <2> QED BY <2>1
<1>2. ASSUME NEW h \in 1 .. Len(widths)
      PROVE  /\ Starts(widths)[h] = Sums(widths)[h - 1] + 1 /\ Sums(widths)[h - 1] \in Nat
             /\ Sums(widths)[h] = Sums(widths)[h - 1] + widths[h]
             /\ Sums(widths)[h] \in Nat /\ widths[h] \in Nat \ {0}
             /\ Sums(widths)[h] <= Sums(widths)[Len(widths)] /\ Sums(widths)[Len(widths)] \in Nat
  <2>1. widths[h] \in Nat \ {0}
    <3>1. widths[h] \in {1, 3}
      BY Sensors
    <3> QED BY <3>1
  <2> HIDE DEF widths
  <2>2. /\ h - 1 \in 0 .. Len(widths) /\ h \in 0 .. Len(widths) /\ h <= Len(widths)
        /\ Len(widths) \in 0 .. Len(widths)
    BY <1>1
  <2>3. Sums(widths)[h] <= Sums(widths)[Len(widths)]
    BY <1>1, <2>2, SumsInOrder
  <2>4. /\ Sums(widths)[h - 1] \in Nat /\ Sums(widths)[Len(widths)] \in Nat
        /\ Sums(widths)[h] \in Nat
    BY <1>1, <2>2, SumsAdd
  <2>5. Sums(widths)[h] = Sums(widths)[h - 1] + widths[h]
    BY <1>1, SumsAdd
  <2> QED BY <2>1, <2>3, <2>4, <2>5 DEF Starts
<1>3. k \in 1 .. Len(widths)
  OBVIOUS
<1> HIDE DEF widths
<1>4. PICK a \in Nat, w \in Nat \ {0}, b \in Nat, n \in Nat :
        /\ a = Sums(widths)[k - 1] /\ w = widths[k] /\ b = Sums(widths)[k] /\ b = a + w
        /\ n = Sums(widths)[Len(widths)] /\ b <= n /\ c = a + 1
  BY <1>2, <1>3
<1>5. c \in 1 .. n /\ c \in Int /\ a < c /\ c <= b
  <2>1. a + 1 \in 1 .. n /\ a + 1 \in Int /\ a < a + 1 /\ a + 1 <= b
    <3>1. b = a + w /\ b <= n
      BY <1>4, Zenon
    <3> QED BY <3>1
  <2>2. c = a + 1
    BY <1>4, Zenon
  <2> HIDE DEF c
  <2> QED BY <2>1, <2>2, Zenon
<1>6. ASSUME NEW h \in 1 .. Len(widths)
      PROVE  c \in Starts(widths)[h] .. Starts(widths)[h] + widths[h] - 1 <=> h = k
  <2>1. PICK x \in Nat, u \in Nat \ {0}, y \in Nat :
          /\ x = Sums(widths)[h - 1] /\ u = widths[h] /\ y = Sums(widths)[h] /\ y = x + u
          /\ Starts(widths)[h] = x + 1
    BY <1>2
  <2> HIDE DEF c
  <2>2. c \in x + 1 .. (x + 1) + u - 1 <=> x < c /\ c <= y
    <3>1. y = x + u /\ c \in Int
      BY <1>5, <2>1
    <3> QED BY <3>1
  <2>3. x < c /\ c <= y => h = k
    <3>1. Sums(widths)[k - 1] < c /\ c <= Sums(widths)[k]
      BY <1>4, <1>5, Zenon
    <3>2. x < c /\ c <= y => Sums(widths)[h - 1] < c /\ c <= Sums(widths)[h]
      BY <2>1, Zenon
    <3> QED BY <1>1, <1>3, <1>5, <3>1, <3>2, OnePart
  <2>4. h = k => x < c /\ c <= y
    BY <1>4, <1>5, <2>1
  <2>5. c \in x + 1 .. (x + 1) + u - 1 <=> h = k
    BY <2>2, <2>3, <2>4, Zenon
  <2> QED BY <2>1, <2>5, Zenon
<1>7. SensorOf(c) = k
  <2> HIDE DEF c
  <2>1. SensorOf(c) = CHOOSE h \in 1 .. Len(widths) : c \in Starts(widths)[h] .. Starts(widths)[h] + widths[h] - 1
    BY <1>1, Zenon DEF SensorOf, widths
  <2> QED BY <1>3, <1>6, <2>1
<1>8. c \in Columns
  BY <1>4, <1>5, Zenon DEF Columns, widths
<1> QED BY <1>7, <1>8 DEF widths

\* Wherever its sensors are in the flat reading, and however many there are, a foot is taken
\* to be in contact exactly when it is.
LEMMA ContactRead ==
  ASSUME Configured, NEW batch \in Batches, NEW e \in GtEnv, NEW g \in Feet
  PROVE  InContact(batch, e)[g] <=> batch[e][g].contact
<1> DEFINE groups == gtConfig.groups  widths == gtConfig.widths
           contact == [h \in Feet |-> batch[e][h].contact]
           flat == Reading(contact)
           column(m) == Starts(widths)[SensorOffset(groups, g) + m]
<1>1. InContact(batch, e)[g] <=> \E c \in ContactColumns(groups, widths, g) : flat[c]
  BY Zenon DEF InContact
<1>2. ContactColumns(groups, widths, g) = {column(m) : m \in 1 .. groups[g]}
  BY Zenon DEF ContactColumns
<1>3. contact[g] = batch[e][g].contact
  OBVIOUS
<1>4. ASSUME NEW m \in 1 .. groups[g]
      PROVE  flat[column(m)] = (contact[g] /\ SensorOffset(groups, g) + m = SensorOffset(groups, g) + 1)
  <2>1. /\ SensorOffset(groups, g) + m \in 1 .. Len(widths)
        /\ FootOf(SensorOffset(groups, g) + m) = g
    BY FootOfSensor
  <2>2. column(m) \in Columns /\ SensorOf(column(m)) = SensorOffset(groups, g) + m
    BY <2>1, SensorOfColumn
  <2> HIDE DEF contact
  <2> QED BY <2>1, <2>2, ReadAt, Zenon
<1>5. 1 \in 1 .. groups[g] /\ SensorOffset(groups, g) \in Nat
  <2>1. groups[g] \in Nat \ {0}
    BY Sensors
  <2>2. 1 \in 1 .. groups[g]
    BY <2>1
  <2> QED BY <2>2, FootOfSensor
<1> HIDE DEF flat, column, contact, groups, widths
<1>6. (\E c \in ContactColumns(groups, widths, g) : flat[c]) => contact[g]
  BY <1>2, <1>4, Zenon
<1>7. contact[g] => flat[column(1)]
  BY <1>4, <1>5, Zenon
<1>8. contact[g] => \E c \in ContactColumns(groups, widths, g) : flat[c]
  BY <1>2, <1>5, <1>7, Zenon
<1> QED BY <1>1, <1>3, <1>6, <1>8, Zenon

------------------------------------------------------------------------------
(* Walking: the inductive invariant.                                          *)

\* The frames of the step are still to be computed.
FramesDue == gtPc \in {"commands", "frames"}
Pace(v) == OneIf(Moving(v))

GtTypes ==
  /\ Configured
  /\ gtPc \in {"control", "commands", "frames", "reset"}
  /\ gtCounter \in Nat /\ feet \in Batches
  /\ velocity \in [GtEnv -> [planar : Int, turn : Int]]
  /\ g1Last = gtCounter /\ rewardLast = gtCounter
  /\ frameLast = IF FramesDue THEN gtCounter - 1 ELSE gtCounter

\* The clock of a biped.
GtBiped ==
  \A e \in GtEnv :
     /\ aged[e] \in Nat
     /\ \A f \in {1, 2} : /\ drawnPhase[e][f] \in Nat
                          /\ g1Phase[e][f] = IF aged[e] = 0 THEN drawnPhase[e][f]
                                             ELSE (drawnPhase[e][f] + aged[e]) % Cycle
     /\ gtConfig.initMode = "offset_phase" => drawnPhase[e][2] = drawnPhase[e][1] + Cycle \div 2

\* Those of a quadruped: between the reward and the frame of a step the one counts a
\* movement the other does not count yet.
GtQuadruped ==
  /\ strides \in [GtEnv -> [rewards : Nat, frames : Nat]]
  /\ \A e \in GtEnv :
        /\ turns[e] \in Nat
        /\ rewardPhase[e] = strides[e].rewards % Cycle
        /\ frameAngle[e] = strides[e].frames % Cycle
        /\ ~gtConfig.gated => strides[e].rewards = gtCounter /\ strides[e].frames = frameLast
        /\ FramesDue => Magnitude(strides[e].rewards - (strides[e].frames + Pace(velocity[e]))) =< turns[e]
        /\ ~FramesDue => Magnitude(strides[e].rewards - strides[e].frames) =< turns[e]

\* A foot in the air; the frame's time is one behind until the frame is computed.
GtFlights ==
  \A e \in GtEnv, g \in Feet :
     /\ flight[e][g].steps \in Nat /\ flight[e][g].top \in Int
     /\ flight[e][g].steps = 0 => flight[e][g].top = 0
     /\ feet[e][g].contact <=> flight[e][g].steps = 0
     /\ airTime[e][g] = flight[e][g].steps /\ peak[e][g] = flight[e][g].top
     /\ wasInAir[e][g] <=> flight[e][g].steps > 0
     /\ charged[e][g] = landed[e][g]
     /\ frameAir[e][g] \in Nat
     /\ FramesDue => frameAir[e][g] + 1 >= flight[e][g].steps
     /\ ~FramesDue => frameAir[e][g] >= flight[e][g].steps
     /\ ~FramesDue /\ feet[e][g].contact => frameAir[e][g] = 0

\* The weights are those of the scale, and what was earned goes with the command it was
\* earned under.
GtWeights ==
  /\ penaltyScale \in gtConfig.minScale .. gtConfig.maxScale
  /\ weights = ScaledWeights(penaltyScale)
  /\ gtPc = "commands" => \A e \in GtEnv :
        velocity[e].planar > 0 => earned[e].progress + earned[e].shortfall = velocity[e].planar

GtInv == GtTypes /\ GtBiped /\ GtQuadruped /\ GtFlights /\ GtWeights

LEMMA GaitFacts ==
  /\ Cycle \in Nat \ {0}
  /\ FootBatches \subseteq Batches /\ Velocities \subseteq [planar : Int, turn : Int]
        /\ RowSets \subseteq SUBSET GtEnv
  /\ Configured => /\ {gtConfig.threshold, gtConfig.deadZone, gtConfig.minScale, gtConfig.maxScale,
                       gtConfig.initialScale, gtConfig.degree} \subseteq Int
                   /\ gtConfig.minScale <= gtConfig.initialScale /\ gtConfig.initialScale <= gtConfig.maxScale
<1>1. /\ Cycle \in Nat \ {0}
      /\ FootBatches \subseteq Batches /\ Velocities \subseteq [planar : Int, turn : Int]
      /\ RowSets \subseteq SUBSET GtEnv
  BY GaitAssumption DEF Batches
<1>2. ASSUME Configured
      PROVE  {gtConfig.threshold, gtConfig.deadZone, gtConfig.minScale, gtConfig.maxScale,
                       gtConfig.initialScale, gtConfig.degree} \subseteq Int
  BY <1>2, GaitAssumption DEF Configured, GaitConfig
<1>3. ASSUME Configured
      PROVE  gtConfig.minScale <= gtConfig.initialScale /\ gtConfig.initialScale <= gtConfig.maxScale
  <2>1. ~CurriculumRefused(gtConfig)
    BY <1>3 DEF Configured, GaitRefused
  <2>2. gtConfig.minScale \in Int /\ gtConfig.maxScale \in Int /\ gtConfig.initialScale \in Int
    BY <1>2, <1>3
  <2> QED BY <2>1, <2>2 DEF CurriculumRefused
<1> QED BY <1>1, <1>2, <1>3

LEMMA ResampledType ==
  ASSUME NEW v \in Velocities, Configured
  PROVE  Resampled(v) \in [planar : Int, turn : Int]
<1>1. v \in [planar : Int, turn : Int]
  BY GaitFacts
<1> QED BY <1>1 DEF Resampled

LEMMA PhasesDrawn ==
  ASSUME NEW p \in DrawnPhases
  PROVE  /\ \A f \in {1, 2} : p[f] \in Nat
         /\ gtConfig.initMode = "offset_phase" => p[2] = p[1] + Cycle \div 2
<1>1. LeftPhases \subseteq Nat /\ Cycle \div 2 \in Nat
  BY GaitAssumption
<1>2. CASE gtConfig.initMode = "independent"
  <2>1. p \in LeftPhases \X LeftPhases
    BY <1>2 DEF DrawnPhases
  <2> QED BY <1>1, <1>2, <2>1
<1>3. CASE gtConfig.initMode # "independent"
  <2>1. PICK left \in LeftPhases : p = <<left, left + Cycle \div 2>>
    BY <1>3 DEF DrawnPhases
  <2> QED BY <1>1, <2>1
<1> QED BY <1>2, <1>3

LEMMA GaitBegins == GtInit => GtInv
<1> SUFFICES ASSUME GtInit PROVE GtInv
  OBVIOUS
<1>1. Configured
  BY DEF GtInit, Configured
<1>2. GtTypes
  <2>1. feet \in Batches
    BY DEF GtInit, Grounded, Batches
  <2>2. velocity \in [GtEnv -> [planar : Int, turn : Int]]
    <3>1. PICK v \in Velocities : velocity = [e \in GtEnv |-> Resampled(v)]
      BY DEF GtInit
    <3>2. Resampled(v) \in [planar : Int, turn : Int]
      BY <1>1, ResampledType
    <3> QED BY <3>1, <3>2
  <2>3. gtPc = "control" /\ gtCounter = 0 /\ g1Last = 0 /\ rewardLast = 0 /\ frameLast = 0
    BY DEF GtInit
  <2> QED BY <1>1, <2>1, <2>2, <2>3 DEF GtTypes, FramesDue
<1>3. GtBiped
  <2>1. PICK p \in DrawnPhases : g1Phase = [e \in GtEnv |-> p]
    BY DEF GtInit
  <2>2. drawnPhase = g1Phase /\ aged = [e \in GtEnv |-> 0]
    BY DEF GtInit
  <2>3. /\ \A f \in {1, 2} : p[f] \in Nat
        /\ gtConfig.initMode = "offset_phase" => p[2] = p[1] + Cycle \div 2
    BY PhasesDrawn
  <2> QED BY <2>1, <2>2, <2>3 DEF GtBiped
<1>4. GtQuadruped
  <2>1. /\ strides = [e \in GtEnv |-> [rewards |-> 0, frames |-> 0]] /\ turns = [e \in GtEnv |-> 0]
        /\ rewardPhase = [e \in GtEnv |-> 0] /\ frameAngle = rewardPhase
        /\ gtCounter = 0 /\ frameLast = 0 /\ gtPc = "control"
    BY DEF GtInit
  <2>2. 0 % Cycle = 0
    BY GaitFacts, Unchanged
  <2> QED BY <2>1, <2>2 DEF GtQuadruped, FramesDue, Magnitude
<1>5. GtFlights
  <2>1. /\ airTime = NoFeet(0) /\ frameAir = airTime /\ peak = airTime
        /\ wasInAir = NoFeet(FALSE) /\ charged = NoFeet(-1) /\ landed = NoFeet(-1)
        /\ flight = NoFeet([steps |-> 0, top |-> 0]) /\ gtPc = "control"
        /\ feet = [e \in GtEnv |-> Grounded]
    BY DEF GtInit
  <2> QED BY <2>1 DEF GtFlights, NoFeet, Grounded, FramesDue
<1>6. GtWeights
  <2>1. /\ penaltyScale = gtConfig.initialScale /\ weights = ScaledWeights(penaltyScale) /\ gtPc = "control"
    BY DEF GtInit
  <2> QED BY <1>1, <2>1, GaitFacts DEF GtWeights
<1> QED BY <1>2, <1>3, <1>4, <1>5, <1>6 DEF GtInv

\* What the steps do to a clock.
LEMMA TickedTo ==
  ASSUME NEW a \in Int, NEW n \in Int, NEW phase, phase = a % Cycle
  PROVE  (phase + n) % Cycle = (a + n) % Cycle
<1>1. Cycle \in Nat \ {0}
  BY GaitFacts
<1> QED BY <1>1, TicksAdd

LEMMA TypesKept == GtTypes /\ GtNext => GtTypes'
<1> SUFFICES ASSUME GtTypes, GtNext PROVE GtTypes'
  OBVIOUS
<1>1. Configured'
  BY DEF GtTypes, Configured, GtNext, GtRewards, GtCommands, GtFrames, GtReset, GaitRefused, PhaseRefused,
         GaitTermRefused, AirTimeRefused, PhaseContactRefused, GroupsRefused, SwingHeightRefused, CurriculumRefused
<1>2. CASE GtRewards
  <2>1. feet' \in Batches
    BY <1>2, GaitFacts DEF GtRewards
  <2>2. /\ gtPc = "control" /\ gtPc' = "commands" /\ gtCounter' = gtCounter + 1 /\ velocity' = velocity
        /\ g1Last' = gtCounter' /\ rewardLast' = gtCounter' /\ frameLast' = frameLast
    BY <1>2 DEF GtRewards, AdvanceGait
  <2>3. /\ gtCounter \in Nat /\ velocity \in [GtEnv -> [planar : Int, turn : Int]]
        /\ frameLast = IF FramesDue THEN gtCounter - 1 ELSE gtCounter
    BY DEF GtTypes
  <2> QED BY <1>1, <2>1, <2>2, <2>3 DEF GtTypes, FramesDue
<1>3. CASE GtCommands
  <2>1. PICK chosen \in RowSets, v \in Velocities :
           velocity' = GtOver(velocity, chosen, [e \in GtEnv |-> Resampled(v)])
    BY <1>3 DEF GtCommands
  <2>2. Resampled(v) \in [planar : Int, turn : Int] /\ velocity \in [GtEnv -> [planar : Int, turn : Int]]
    BY ResampledType DEF GtTypes
  <2>3. velocity' \in [GtEnv -> [planar : Int, turn : Int]]
    BY <2>1, <2>2 DEF GtOver
  <2>4. /\ gtPc = "commands" /\ gtPc' = "frames" /\ gtCounter' = gtCounter /\ feet' = feet
        /\ g1Last' = g1Last /\ rewardLast' = rewardLast /\ frameLast' = frameLast
    BY <1>3 DEF GtCommands, gtclocks
  <2> QED BY <1>1, <2>3, <2>4 DEF GtTypes, FramesDue
<1>4. CASE GtFrames
  <2>1. /\ gtPc = "frames" /\ gtPc' = "reset" /\ gtCounter' = gtCounter /\ feet' = feet /\ velocity' = velocity
        /\ g1Last' = gtCounter /\ rewardLast' = rewardLast /\ frameLast' = gtCounter
    BY <1>4 DEF GtFrames, AdvanceGait
  <2> QED BY <1>1, <2>1 DEF GtTypes, FramesDue
<1>5. CASE GtReset
  <2>1. /\ gtPc = "reset" /\ gtPc' = "control" /\ gtCounter' = gtCounter
        /\ g1Last' = g1Last /\ rewardLast' = rewardLast /\ frameLast' = frameLast
    BY <1>5 DEF GtReset, gtclocks
  <2>2. feet' \in Batches /\ velocity' \in [GtEnv -> [planar : Int, turn : Int]]
    <3>1. PICK chosen \in RowSets : 
             \/ chosen = {} /\ feet' = feet /\ velocity' = velocity
             \/ /\ feet' = GtOver(feet, chosen, [e \in GtEnv |-> Grounded])
                /\ \E v \in Velocities : velocity' = GtOver(velocity, chosen, [e \in GtEnv |-> Resampled(v)])
      BY <1>5, Zenon DEF GtReset
    <3>2. Grounded \in [Feet -> [contact : BOOLEAN, height : Int, speed : Int]]
      BY DEF Grounded
    <3>3. feet \in Batches /\ velocity \in [GtEnv -> [planar : Int, turn : Int]]
      BY DEF GtTypes
    <3>4. CASE feet' = feet /\ velocity' = velocity
      BY <3>3, <3>4
    <3>5. CASE /\ feet' = GtOver(feet, chosen, [e \in GtEnv |-> Grounded])
               /\ \E v \in Velocities : velocity' = GtOver(velocity, chosen, [e \in GtEnv |-> Resampled(v)])
      <4>1. feet' \in Batches
        BY <3>2, <3>3, <3>5 DEF GtOver, Batches
      <4>2. PICK v \in Velocities : velocity' = GtOver(velocity, chosen, [e \in GtEnv |-> Resampled(v)])
        BY <3>5
      <4>3. Resampled(v) \in [planar : Int, turn : Int]
        BY ResampledType DEF GtTypes
      <4>4. velocity' \in [GtEnv -> [planar : Int, turn : Int]]
        BY <3>3, <4>2, <4>3 DEF GtOver
      <4> QED BY <4>1, <4>4
    <3> QED BY <3>1, <3>4, <3>5
  <2> QED BY <1>1, <2>1, <2>2 DEF GtTypes, FramesDue
<1> QED BY <1>2, <1>3, <1>4, <1>5 DEF GtNext

LEMMA BipedKept == GtTypes /\ GtBiped /\ GtNext => GtBiped'
<1> SUFFICES ASSUME GtTypes, GtBiped, GtNext PROVE GtBiped'
  OBVIOUS
<1>1. g1Last = gtCounter /\ gtCounter \in Nat /\ gtConfig' = gtConfig /\ Cycle \in Nat \ {0}
  BY GaitFacts DEF GtTypes, GtNext, GtRewards, GtCommands, GtFrames, GtReset
<1>a. ASSUME NEW e \in GtEnv
      PROVE  /\ aged[e] \in Nat
             /\ \A f \in {1, 2} : /\ drawnPhase[e][f] \in Nat
                                  /\ g1Phase[e][f] = IF aged[e] = 0 THEN drawnPhase[e][f]
                                                     ELSE (drawnPhase[e][f] + aged[e]) % Cycle
             /\ gtConfig.initMode = "offset_phase" => drawnPhase[e][2] = drawnPhase[e][1] + Cycle \div 2
  BY DEF GtBiped
<1>2. CASE GtRewards
  <2>1. gtCounter' - g1Last = 1
    BY <1>1, <1>2 DEF GtRewards
  <2>2. /\ g1Phase' = Ticked(g1Phase, 1) /\ drawnPhase' = drawnPhase
        /\ aged' = [e \in GtEnv |-> aged[e] + 1]
    BY <1>2, <2>1 DEF GtRewards, AdvanceGait
  <2>3. ASSUME NEW e \in GtEnv, NEW f \in {1, 2}
        PROVE  g1Phase'[e][f] = (drawnPhase[e][f] + (aged[e] + 1)) % Cycle
    <3>1. g1Phase'[e][f] = (g1Phase[e][f] + 1) % Cycle
      BY <2>2 DEF Ticked
    <3>2. PICK d \in Nat, a \in Nat : /\ d = drawnPhase[e][f] /\ a = aged[e]
                                      /\ g1Phase[e][f] = IF a = 0 THEN d ELSE (d + a) % Cycle
      <4>1. drawnPhase[e][f] \in Nat
        BY <1>a
      <4> QED BY <1>a, <4>1
    <3>3. (g1Phase[e][f] + 1) % Cycle = (d + a + 1) % Cycle
      <4>1. CASE a = 0
        BY <3>2, <4>1
      <4>2. CASE a # 0
        <5>1. d + a \in Int
          OBVIOUS
        <5> QED BY <3>2, <4>2, <5>1, TickedTo
      <4> QED BY <4>1, <4>2
    <3>4. d + a + 1 = d + (a + 1)
      OBVIOUS
    <3> QED BY <3>1, <3>2, <3>3, <3>4, Zenon
  <2>4. ASSUME NEW e \in GtEnv PROVE aged'[e] = aged[e] + 1 /\ aged'[e] \in Nat /\ aged'[e] # 0
    BY <1>a, <2>2
  <2> QED BY <1>1, <1>a, <2>2, <2>3, <2>4 DEF GtBiped
<1>3. CASE GtCommands
  BY <1>3 DEF GtCommands, gtclocks, GtBiped
<1>4. CASE GtFrames
  <2>1. gtCounter - g1Last = 0
    BY <1>1
  <2>2. g1Phase' = g1Phase /\ drawnPhase' = drawnPhase /\ aged' = aged
    BY <1>4, <2>1 DEF GtFrames, AdvanceGait, Ticked
  <2> QED BY <1>1, <2>2 DEF GtBiped
<1>5. CASE GtReset
  <2>1. PICK chosen \in RowSets :
          \/ chosen = {} /\ g1Phase' = g1Phase /\ drawnPhase' = drawnPhase /\ aged' = aged
          \/ /\ \E p \in DrawnPhases : /\ g1Phase' = GtOver(g1Phase, chosen, [e \in GtEnv |-> p])
                                       /\ drawnPhase' = GtOver(drawnPhase, chosen, [e \in GtEnv |-> p])
             /\ aged' = GtOver(aged, chosen, [e \in GtEnv |-> 0])
    BY <1>5, Zenon DEF GtReset, gtclocks, gtghosts
  <2>2. CASE g1Phase' = g1Phase /\ drawnPhase' = drawnPhase /\ aged' = aged
    BY <1>1, <2>2 DEF GtBiped
  <2>3. ASSUME NEW p \in DrawnPhases, g1Phase' = GtOver(g1Phase, chosen, [e \in GtEnv |-> p]),
               drawnPhase' = GtOver(drawnPhase, chosen, [e \in GtEnv |-> p]),
               aged' = GtOver(aged, chosen, [e \in GtEnv |-> 0])
        PROVE  GtBiped'
    <3>1. /\ \A f \in {1, 2} : p[f] \in Nat
          /\ gtConfig.initMode = "offset_phase" => p[2] = p[1] + Cycle \div 2
      BY PhasesDrawn
    <3>2. ASSUME NEW e \in GtEnv
          PROVE  IF e \in chosen THEN g1Phase'[e] = p /\ drawnPhase'[e] = p /\ aged'[e] = 0
                 ELSE g1Phase'[e] = g1Phase[e] /\ drawnPhase'[e] = drawnPhase[e] /\ aged'[e] = aged[e]
      BY <2>3 DEF GtOver
    <3> QED BY <1>1, <1>a, <3>1, <3>2 DEF GtBiped
  <2> QED BY <2>1, <2>2, <2>3
<1> QED BY <1>2, <1>3, <1>4, <1>5 DEF GtNext

LEMMA QuadrupedKept == GtTypes /\ GtQuadruped /\ GtNext => GtQuadruped'
<1> SUFFICES ASSUME GtTypes, GtQuadruped, GtNext PROVE GtQuadruped'
  OBVIOUS
<1>1. /\ gtCounter \in Nat /\ rewardLast = gtCounter /\ gtConfig' = gtConfig
      /\ frameLast = IF FramesDue THEN gtCounter - 1 ELSE gtCounter
      /\ strides \in [GtEnv -> [rewards : Nat, frames : Nat]]
  BY DEF GtTypes, GtQuadruped, GtNext, GtRewards, GtCommands, GtFrames, GtReset
<1>a. ASSUME NEW e \in GtEnv
      PROVE  /\ turns[e] \in Nat /\ strides[e].rewards \in Nat /\ strides[e].frames \in Nat
             /\ rewardPhase[e] = strides[e].rewards % Cycle
             /\ frameAngle[e] = strides[e].frames % Cycle
             /\ ~gtConfig.gated => strides[e].rewards = gtCounter /\ strides[e].frames = frameLast
             /\ FramesDue => Magnitude(strides[e].rewards - (strides[e].frames + Pace(velocity[e]))) =< turns[e]
             /\ ~FramesDue => Magnitude(strides[e].rewards - strides[e].frames) =< turns[e]
  BY <1>1 DEF GtQuadruped
<1>b. ASSUME NEW v PROVE Pace(v) \in {0, 1} /\ (~gtConfig.gated => Pace(v) = 1) /\ (Moving(v) <=> Pace(v) = 1)
  BY DEF Pace, OneIf, Moving
<1>2. CASE GtRewards
  <2>1. /\ gtPc = "control" /\ gtPc' = "commands" /\ gtCounter' = gtCounter + 1 /\ gtCounter' - rewardLast = 1
        /\ rewardPhase' = Advanced(rewardPhase, 1, velocity) /\ frameAngle' = frameAngle
        /\ frameLast' = frameLast /\ velocity' = velocity /\ turns' = turns
        /\ strides' = [e \in GtEnv |-> [strides[e] EXCEPT !.rewards = @ + Pace(velocity[e])]]
    <3>1. gtCounter' = gtCounter + 1 /\ gtCounter' - rewardLast = 1
      BY <1>1, <1>2 DEF GtRewards
    <3> QED BY <1>2, <3>1, Zenon DEF GtRewards, Pace
  <2>2. ASSUME NEW e \in GtEnv
        PROVE  /\ strides'[e] \in [rewards : Nat, frames : Nat]
               /\ strides'[e].rewards = strides[e].rewards + Pace(velocity[e])
               /\ strides'[e].frames = strides[e].frames
    <3>1. strides'[e] = [strides[e] EXCEPT !.rewards = @ + Pace(velocity[e])]
      BY <2>1
    <3>2. strides[e] \in [rewards : Nat, frames : Nat] /\ Pace(velocity[e]) \in Nat
      BY <1>1, <1>b
    <3> QED BY <3>1, <3>2
  <2>3. strides' \in [GtEnv -> [rewards : Nat, frames : Nat]]
    BY <2>1, <2>2
  <2>4. ASSUME NEW e \in GtEnv PROVE rewardPhase'[e] = strides'[e].rewards % Cycle
    <3>1. rewardPhase'[e] = IF Moving(velocity[e]) THEN (rewardPhase[e] + 1) % Cycle ELSE rewardPhase[e]
      BY <2>1 DEF Advanced
    <3>2. (rewardPhase[e] + 1) % Cycle = (strides[e].rewards + 1) % Cycle
      <4>1. PICK x \in Int : x = strides[e].rewards /\ rewardPhase[e] = x % Cycle
        BY <1>a
      <4>2. (rewardPhase[e] + 1) % Cycle = (x + 1) % Cycle
        BY <4>1, TickedTo
      <4> QED BY <4>1, <4>2, Zenon
    <3>3. CASE Moving(velocity[e])
      <4>1. strides'[e].rewards = strides[e].rewards + 1
        BY <1>b, <2>2, <3>3
      <4> QED BY <3>1, <3>2, <3>3, <4>1
    <3>4. CASE ~Moving(velocity[e])
      <4>1. Pace(velocity[e]) = 0
        BY <1>b, <3>4
      <4>2. strides'[e].rewards = strides[e].rewards
        BY <1>a, <2>2, <4>1
      <4> QED BY <1>a, <3>1, <3>4, <4>2
    <3> QED BY <3>3, <3>4
  <2>5. ASSUME NEW e \in GtEnv
        PROVE  /\ turns'[e] \in Nat /\ frameAngle'[e] = strides'[e].frames % Cycle
               /\ ~gtConfig.gated => strides'[e].rewards = gtCounter' /\ strides'[e].frames = frameLast'
               /\ Magnitude(strides'[e].rewards - (strides'[e].frames + Pace(velocity[e]))) =< turns'[e]
    <3>1. /\ turns'[e] = turns[e] /\ frameAngle'[e] = frameAngle[e]
      BY <2>1
    <3>2. ~gtConfig.gated => strides'[e].rewards = gtCounter' /\ strides'[e].frames = frameLast'
      BY <1>a, <1>b, <2>1, <2>2
    <3>3. Magnitude(strides[e].rewards - strides[e].frames) =< turns[e]
      BY <1>a, <2>1 DEF FramesDue
    <3>4. strides'[e].rewards - (strides'[e].frames + Pace(velocity[e])) = strides[e].rewards - strides[e].frames
      <4>1. PICK x \in Nat, y \in Nat, z \in Nat : x = strides[e].rewards /\ y = strides[e].frames
            /\ z = Pace(velocity[e])
        <5>1. Pace(velocity[e]) \in Nat
          BY <1>b
        <5> QED BY <1>a, <5>1
      <4>2. (x + z) - (y + z) = x - y
        OBVIOUS
      <4> QED BY <2>2, <4>1, <4>2
    <3> QED BY <1>a, <2>2, <3>1, <3>2, <3>3, <3>4
  <2>6. FramesDue' /\ \A e \in GtEnv : Pace(velocity[e])' = Pace(velocity[e])
    BY <1>1, <2>1 DEF FramesDue, Pace, Moving
  <2> QED BY <1>1, <2>3, <2>4, <2>5, <2>6 DEF GtQuadruped
<1>3. CASE GtCommands
  <2>1. PICK chosen \in RowSets, v \in Velocities :
          /\ velocity' = GtOver(velocity, chosen, [e \in GtEnv |-> Resampled(v)])
          /\ turns' = GtOver(turns, chosen, [e \in GtEnv |-> turns[e] + 1])
    BY <1>3 DEF GtCommands
  <2>2. /\ gtPc = "commands" /\ gtPc' = "frames" /\ strides' = strides /\ rewardPhase' = rewardPhase
        /\ frameAngle' = frameAngle /\ gtCounter' = gtCounter /\ frameLast' = frameLast
    BY <1>3 DEF GtCommands, gtclocks
  <2>3. ASSUME NEW e \in GtEnv
        PROVE  /\ turns'[e] \in Nat
               /\ Magnitude(strides[e].rewards - (strides[e].frames + Pace(velocity'[e]))) =< turns'[e]
    <3>1. Magnitude(strides[e].rewards - (strides[e].frames + Pace(velocity[e]))) =< turns[e]
      BY <1>a, <2>2 DEF FramesDue
    <3>2. PICK x \in Nat, y \in Nat, t \in Nat : x = strides[e].rewards /\ y = strides[e].frames /\ t = turns[e]
      BY <1>a
    <3>3. PICK p \in {0, 1}, q \in {0, 1} : p = Pace(velocity[e]) /\ q = Pace(velocity'[e])
      BY <1>b
    <3>4. Magnitude(x - (y + p)) =< t
      BY <3>1, <3>2, <3>3
    <3>5. CASE e \in chosen
      <4>1. turns'[e] = t + 1
        BY <2>1, <3>2, <3>5 DEF GtOver
      <4>2. Magnitude(x - (y + q)) =< t + 1
        BY <3>4 DEF Magnitude
      <4> QED BY <3>2, <3>3, <4>1, <4>2
    <3>6. CASE e \notin chosen
      <4>1. turns'[e] = t /\ velocity'[e] = velocity[e]
        BY <2>1, <3>2, <3>6 DEF GtOver
      <4> QED BY <3>2, <3>3, <3>4, <4>1
    <3> QED BY <3>5, <3>6
  <2>4. FramesDue' /\ \A e \in GtEnv : Pace(velocity[e])' = Pace(velocity'[e])
    BY <1>1, <2>2 DEF FramesDue, Pace, Moving
  <2> QED BY <1>1, <1>a, <2>2, <2>3, <2>4 DEF GtQuadruped
<1>4. CASE GtFrames
  <2>1. /\ gtPc = "frames" /\ gtPc' = "reset" /\ gtCounter' = gtCounter /\ gtCounter - frameLast = 1
        /\ frameAngle' = Advanced(frameAngle, 1, velocity) /\ rewardPhase' = rewardPhase
        /\ frameLast' = gtCounter /\ frameLast = gtCounter - 1 /\ turns' = turns
        /\ strides' = [e \in GtEnv |-> [strides[e] EXCEPT !.frames = @ + Pace(velocity[e])]]
    <3>1. frameLast = gtCounter - 1 /\ gtCounter - frameLast = 1
      BY <1>1, <1>4 DEF GtFrames, FramesDue
    <3> QED BY <1>4, <3>1, Zenon DEF GtFrames, Pace
  <2>2. ASSUME NEW e \in GtEnv
        PROVE  /\ strides'[e] \in [rewards : Nat, frames : Nat]
               /\ strides'[e].frames = strides[e].frames + Pace(velocity[e])
               /\ strides'[e].rewards = strides[e].rewards
    <3>1. strides'[e] = [strides[e] EXCEPT !.frames = @ + Pace(velocity[e])]
      BY <2>1
    <3>2. strides[e] \in [rewards : Nat, frames : Nat] /\ Pace(velocity[e]) \in Nat
      BY <1>1, <1>b
    <3> QED BY <3>1, <3>2
  <2>3. strides' \in [GtEnv -> [rewards : Nat, frames : Nat]]
    BY <2>1, <2>2
  <2>4. ASSUME NEW e \in GtEnv PROVE frameAngle'[e] = strides'[e].frames % Cycle
    <3>1. frameAngle'[e] = IF Moving(velocity[e]) THEN (frameAngle[e] + 1) % Cycle ELSE frameAngle[e]
      BY <2>1 DEF Advanced
    <3>2. (frameAngle[e] + 1) % Cycle = (strides[e].frames + 1) % Cycle
      <4>1. PICK x \in Int : x = strides[e].frames /\ frameAngle[e] = x % Cycle
        BY <1>a
      <4>2. (frameAngle[e] + 1) % Cycle = (x + 1) % Cycle
        BY <4>1, TickedTo
      <4> QED BY <4>1, <4>2, Zenon
    <3>3. CASE Moving(velocity[e])
      <4>1. strides'[e].frames = strides[e].frames + 1
        BY <1>b, <2>2, <3>3
      <4> QED BY <3>1, <3>2, <3>3, <4>1
    <3>4. CASE ~Moving(velocity[e])
      <4>1. Pace(velocity[e]) = 0
        BY <1>b, <3>4
      <4>2. strides'[e].frames = strides[e].frames
        BY <1>a, <2>2, <4>1
      <4> QED BY <1>a, <3>1, <3>4, <4>2
    <3> QED BY <3>3, <3>4
  <2>5. ASSUME NEW e \in GtEnv
        PROVE  /\ turns'[e] \in Nat /\ rewardPhase'[e] = strides'[e].rewards % Cycle
               /\ ~gtConfig.gated => strides'[e].rewards = gtCounter' /\ strides'[e].frames = frameLast'
               /\ Magnitude(strides'[e].rewards - strides'[e].frames) =< turns'[e]
    <3>1. /\ turns'[e] = turns[e] /\ rewardPhase'[e] = rewardPhase[e]
      BY <2>1
    <3>2. ~gtConfig.gated => strides'[e].rewards = gtCounter' /\ strides'[e].frames = frameLast'
      BY <1>1, <1>a, <1>b, <2>1, <2>2
    <3>3. Magnitude(strides[e].rewards - (strides[e].frames + Pace(velocity[e]))) =< turns[e]
      BY <1>a, <2>1 DEF FramesDue
    <3> QED BY <1>a, <2>2, <3>1, <3>2, <3>3
  <2>6. ~FramesDue'
    BY <2>1 DEF FramesDue
  <2> QED BY <1>1, <2>3, <2>4, <2>5, <2>6 DEF GtQuadruped
<1>5. CASE GtReset
  <2>1. /\ gtPc = "reset" /\ gtPc' = "control" /\ strides' = strides /\ rewardPhase' = rewardPhase
        /\ frameAngle' = frameAngle /\ gtCounter' = gtCounter /\ frameLast' = frameLast
    BY <1>5 DEF GtReset, gtclocks, gtghosts
  <2>2. PICK chosen \in RowSets :
          turns' = turns \/ turns' = GtOver(turns, chosen, [e \in GtEnv |-> turns[e] + 1])
    BY <1>5, Zenon DEF GtReset, gtghosts
  <2>3. ASSUME NEW e \in GtEnv PROVE turns'[e] \in Nat /\ turns'[e] >= turns[e]
    BY <1>a, <2>2 DEF GtOver
  <2>4. ASSUME NEW e \in GtEnv PROVE Magnitude(strides[e].rewards - strides[e].frames) =< turns'[e]
    <3>1. Magnitude(strides[e].rewards - strides[e].frames) =< turns[e]
      BY <1>a, <2>1 DEF FramesDue
    <3>2. turns[e] \in Nat /\ strides[e].rewards \in Nat /\ strides[e].frames \in Nat
      BY <1>a
    <3> QED BY <2>3, <3>1, <3>2 DEF Magnitude
  <2>5. ~FramesDue'
    BY <2>1 DEF FramesDue
  <2> QED BY <1>1, <1>a, <2>1, <2>3, <2>4, <2>5 DEF GtQuadruped
<1> QED BY <1>2, <1>3, <1>4, <1>5 DEF GtNext

LEMMA FlightsKept == GtTypes /\ GtFlights /\ GtNext => GtFlights'
<1> SUFFICES ASSUME GtTypes, GtFlights, GtNext PROVE GtFlights'
  OBVIOUS
<1>1. Configured /\ feet \in Batches
  BY DEF GtTypes
<1>a. ASSUME NEW e \in GtEnv, NEW g \in Feet
      PROVE  /\ flight[e][g].steps \in Nat /\ flight[e][g].top \in Int
             /\ flight[e][g].steps = 0 => flight[e][g].top = 0
             /\ feet[e][g].contact <=> flight[e][g].steps = 0
             /\ airTime[e][g] = flight[e][g].steps /\ peak[e][g] = flight[e][g].top
             /\ wasInAir[e][g] <=> flight[e][g].steps > 0
             /\ charged[e][g] = landed[e][g]
             /\ frameAir[e][g] \in Nat
             /\ FramesDue => frameAir[e][g] + 1 >= flight[e][g].steps
             /\ ~FramesDue => frameAir[e][g] >= flight[e][g].steps
             /\ ~FramesDue /\ feet[e][g].contact => frameAir[e][g] = 0
  BY DEF GtFlights
<1>2. CASE GtRewards
  <2> DEFINE contact == [e \in GtEnv |-> InContact(feet', e)]
             touches(e, g) == feet'[e][g].contact
  <2>1. /\ feet' \in FootBatches /\ gtPc = "control" /\ gtPc' = "commands" /\ frameAir' = frameAir
        /\ airTime' = Flown(airTime, contact) /\ SwingHeight(contact)
        /\ landed' = [e \in GtEnv |-> [g \in Feet |->
               IF feet'[e][g].contact /\ flight[e][g].steps > 0 THEN flight[e][g].top ELSE -1]]
        /\ flight' = [e \in GtEnv |-> [g \in Feet |->
               IF feet'[e][g].contact THEN [steps |-> 0, top |-> 0]
               ELSE [steps |-> flight[e][g].steps + 1, top |-> Greater(flight[e][g].top, feet'[e][g].height)]]]
    BY <1>2, Zenon DEF GtRewards
  <2>2. feet' \in Batches
    BY <2>1, GaitFacts
  <2>3. ASSUME NEW e \in GtEnv, NEW g \in Feet
        PROVE  (contact[e][g] <=> touches(e, g)) /\ feet'[e][g].height \in Int /\ touches(e, g) \in BOOLEAN
    <3>1. contact[e] = InContact(feet', e)
      OBVIOUS
    <3>2. InContact(feet', e)[g] <=> feet'[e][g].contact
      BY <1>1, <2>2, ContactRead
    <3>3. feet'[e][g].height \in Int /\ feet'[e][g].contact \in BOOLEAN
      BY <2>2 DEF Batches
    <3> HIDE DEF contact
    <3> QED BY <3>1, <3>2, <3>3, Zenon
  <2> HIDE DEF contact
  <2>4. ASSUME NEW e \in GtEnv, NEW g \in Feet
        PROVE  /\ airTime'[e][g] = (IF contact[e][g] THEN 0 ELSE airTime[e][g] + 1)
               /\ charged'[e][g] = (IF contact[e][g] /\ wasInAir[e][g]
                                    THEN (IF contact[e][g] THEN peak[e][g] ELSE Greater(peak[e][g], feet'[e][g].height))
                                    ELSE -1)
               /\ peak'[e][g] = (IF contact[e][g] /\ wasInAir[e][g] THEN 0
                                 ELSE (IF contact[e][g] THEN peak[e][g] ELSE Greater(peak[e][g], feet'[e][g].height)))
               /\ (wasInAir'[e][g] <=> ~contact[e][g])
    BY <2>1, Zenon DEF Flown, SwingHeight
  <2>5. ASSUME NEW e \in GtEnv, NEW g \in Feet
        PROVE  /\ landed'[e][g] = (IF touches(e, g) /\ flight[e][g].steps > 0 THEN flight[e][g].top ELSE -1)
               /\ flight'[e][g] = (IF touches(e, g) THEN [steps |-> 0, top |-> 0]
                                   ELSE [steps |-> flight[e][g].steps + 1,
                                         top |-> Greater(flight[e][g].top, feet'[e][g].height)])
    BY <2>1, Zenon
  <2>6. FramesDue' /\ ~FramesDue
    BY <2>1 DEF FramesDue
  <2>7. ASSUME NEW e \in GtEnv, NEW g \in Feet
        PROVE  /\ flight'[e][g].steps \in Nat /\ flight'[e][g].top \in Int
               /\ flight'[e][g].steps = 0 => flight'[e][g].top = 0
               /\ feet'[e][g].contact <=> flight'[e][g].steps = 0
               /\ airTime'[e][g] = flight'[e][g].steps /\ peak'[e][g] = flight'[e][g].top
               /\ wasInAir'[e][g] <=> flight'[e][g].steps > 0
               /\ charged'[e][g] = landed'[e][g]
               /\ frameAir'[e][g] \in Nat
               /\ frameAir'[e][g] + 1 >= flight'[e][g].steps
    <3>1. PICK s \in Nat, t \in Int, h \in Int :
            /\ s = flight[e][g].steps /\ t = flight[e][g].top /\ h = feet'[e][g].height
            /\ s = 0 => t = 0
            /\ airTime[e][g] = s /\ peak[e][g] = t /\ frameAir[e][g] \in Nat /\ frameAir[e][g] >= s
            /\ (wasInAir[e][g] <=> s > 0)
      BY <1>a, <2>3, <2>6
    <3>2. frameAir'[e][g] = frameAir[e][g]
      BY <2>1
    <3>3. Greater(t, h) \in Int
      BY DEF Greater
    <3>4. CASE touches(e, g)
      <4>1. contact[e][g]
        BY <2>3, <3>4
      <4>2. flight'[e][g].steps = 0 /\ flight'[e][g].top = 0
        <5>1. flight'[e][g] = [steps |-> 0, top |-> 0]
          BY <2>5, <3>4, Zenon
        <5> QED BY <5>1
      <4>3. airTime'[e][g] = 0 /\ ~wasInAir'[e][g]
        BY <2>4, <4>1
      <4>4. CASE s > 0
        <5>1. wasInAir[e][g]
          BY <3>1, <4>4
        <5>2. charged'[e][g] = t /\ peak'[e][g] = 0
          BY <2>4, <3>1, <4>1, <5>1
        <5>3. landed'[e][g] = t
          BY <2>5, <3>1, <3>4, <4>4
        <5> QED BY <3>1, <3>2, <3>4, <4>2, <4>3, <5>2, <5>3
      <4>5. CASE s = 0
        <5>1. ~wasInAir[e][g]
          BY <3>1, <4>5
        <5>2. charged'[e][g] = -1 /\ peak'[e][g] = t
          BY <2>4, <3>1, <4>1, <5>1
        <5>3. landed'[e][g] = -1
          <6>1. ~(flight[e][g].steps > 0)
            BY <3>1, <4>5
          <6> QED BY <2>5, <6>1, Zenon
        <5> QED BY <3>1, <3>2, <3>4, <4>2, <4>3, <4>5, <5>2, <5>3
      <4> QED BY <4>4, <4>5
    <3>5. CASE ~touches(e, g)
      <4>1. ~contact[e][g]
        BY <2>3, <3>5
      <4>2. flight'[e][g].steps = s + 1 /\ flight'[e][g].top = Greater(t, h)
        <5>1. flight'[e][g] = [steps |-> flight[e][g].steps + 1,
                               top |-> Greater(flight[e][g].top, feet'[e][g].height)]
          BY <2>5, <3>5, Zenon
        <5>2. flight'[e][g] = [steps |-> s + 1, top |-> Greater(t, h)]
          BY <3>1, <5>1, Zenon
        <5> QED BY <5>2
      <4>3. airTime'[e][g] = s + 1 /\ wasInAir'[e][g] /\ peak'[e][g] = Greater(t, h) /\ charged'[e][g] = -1
        BY <2>4, <3>1, <4>1
      <4>4. landed'[e][g] = -1
        BY <2>5, <3>5
      <4> QED BY <3>1, <3>2, <3>3, <3>5, <4>2, <4>3, <4>4
    <3> QED BY <3>4, <3>5
  <2> QED BY <2>6, <2>7 DEF GtFlights
<1>3. CASE GtCommands
  <2>1. /\ gtPc = "commands" /\ gtPc' = "frames" /\ feet' = feet /\ airTime' = airTime /\ frameAir' = frameAir
        /\ peak' = peak /\ wasInAir' = wasInAir /\ charged' = charged /\ flight' = flight /\ landed' = landed
    BY <1>3 DEF GtCommands, gtfeet
  <2>2. FramesDue /\ FramesDue'
    BY <2>1 DEF FramesDue
  <2> QED BY <2>1, <2>2 DEF GtFlights
<1>4. CASE GtFrames
  <2>1. /\ gtPc = "frames" /\ gtPc' = "reset" /\ feet' = feet /\ airTime' = airTime
        /\ peak' = peak /\ wasInAir' = wasInAir /\ charged' = charged /\ flight' = flight /\ landed' = landed
        /\ frameAir' = Flown(frameAir, [e \in GtEnv |-> InContact(feet, e)])
    BY <1>4 DEF GtFrames
  <2>2. FramesDue /\ ~FramesDue'
    BY <2>1 DEF FramesDue
  <2>3. ASSUME NEW e \in GtEnv, NEW g \in Feet
        PROVE  frameAir'[e][g] = IF feet[e][g].contact THEN 0 ELSE frameAir[e][g] + 1
    <3>1. frameAir'[e][g] = IF InContact(feet, e)[g] THEN 0 ELSE frameAir[e][g] + 1
      BY <2>1, Zenon DEF Flown
    <3>2. InContact(feet, e)[g] <=> feet[e][g].contact
      BY <1>1, ContactRead
    <3> QED BY <3>1, <3>2, Zenon
  <2>4. ASSUME NEW e \in GtEnv, NEW g \in Feet
        PROVE  /\ frameAir'[e][g] \in Nat /\ frameAir'[e][g] >= flight[e][g].steps
               /\ feet[e][g].contact => frameAir'[e][g] = 0
    BY <1>a, <2>2, <2>3
  <2> QED BY <1>a, <2>1, <2>2, <2>4 DEF GtFlights
<1>5. CASE GtReset
  <2>1. gtPc = "reset" /\ gtPc' = "control"
    BY <1>5 DEF GtReset
  <2>2. ~FramesDue /\ ~FramesDue'
    BY <2>1 DEF FramesDue
  <2>3. PICK chosen \in RowSets :
          \/ /\ chosen = {} /\ feet' = feet /\ airTime' = airTime /\ frameAir' = frameAir /\ peak' = peak
             /\ wasInAir' = wasInAir /\ charged' = charged /\ flight' = flight /\ landed' = landed
          \/ /\ feet' = GtOver(feet, chosen, [e \in GtEnv |-> Grounded])
             /\ airTime' = GtOver(airTime, chosen, NoFeet(0))
             /\ peak' = GtOver(peak, chosen, NoFeet(0))
             /\ wasInAir' = GtOver(wasInAir, chosen, NoFeet(FALSE))
             /\ frameAir' = Flown(GtOver(frameAir, chosen, NoFeet(0)), [e \in GtEnv |-> InContact(feet', e)])
             /\ flight' = GtOver(flight, chosen, NoFeet([steps |-> 0, top |-> 0]))
             /\ charged' = charged /\ landed' = landed
    BY <1>5, Zenon DEF GtReset, gtfeet, gtghosts
  <2>4. CASE /\ feet' = feet /\ airTime' = airTime /\ frameAir' = frameAir /\ peak' = peak
             /\ wasInAir' = wasInAir /\ charged' = charged /\ flight' = flight /\ landed' = landed
    BY <2>2, <2>4 DEF GtFlights
  <2>5. CASE /\ feet' = GtOver(feet, chosen, [e \in GtEnv |-> Grounded])
             /\ airTime' = GtOver(airTime, chosen, NoFeet(0))
             /\ peak' = GtOver(peak, chosen, NoFeet(0))
             /\ wasInAir' = GtOver(wasInAir, chosen, NoFeet(FALSE))
             /\ frameAir' = Flown(GtOver(frameAir, chosen, NoFeet(0)), [e \in GtEnv |-> InContact(feet', e)])
             /\ flight' = GtOver(flight, chosen, NoFeet([steps |-> 0, top |-> 0]))
             /\ charged' = charged /\ landed' = landed
    <3>1. feet' \in Batches
      BY TypesKept DEF GtTypes
    <3>2. ASSUME NEW e \in GtEnv, NEW g \in Feet
          PROVE  /\ charged'[e][g] = landed'[e][g]
                 /\ IF e \in chosen
                    THEN /\ feet'[e][g].contact /\ airTime'[e][g] = 0 /\ peak'[e][g] = 0 /\ ~wasInAir'[e][g]
                         /\ flight'[e][g].steps = 0 /\ flight'[e][g].top = 0
                         /\ GtOver(frameAir, chosen, NoFeet(0))[e][g] = 0
                    ELSE /\ feet'[e][g] = feet[e][g] /\ airTime'[e][g] = airTime[e][g]
                          /\ peak'[e][g] = peak[e][g]
                         /\ (wasInAir'[e][g] <=> wasInAir[e][g]) /\ flight'[e][g] = flight[e][g]
                         /\ GtOver(frameAir, chosen, NoFeet(0))[e][g] = frameAir[e][g]
      <4>1. CASE e \in chosen
        BY <1>a, <2>5, <4>1 DEF GtOver, NoFeet, Grounded
      <4>2. CASE e \notin chosen
        BY <1>a, <2>5, <4>2 DEF GtOver
      <4> QED BY <4>1, <4>2
    <3>3. ASSUME NEW e \in GtEnv, NEW g \in Feet
          PROVE  frameAir'[e][g] = IF feet'[e][g].contact THEN 0 ELSE GtOver(frameAir, chosen, NoFeet(0))[e][g] + 1
      <4>1. frameAir'[e][g] = IF InContact(feet', e)[g] THEN 0 ELSE GtOver(frameAir, chosen, NoFeet(0))[e][g] + 1
        BY <2>5, Zenon DEF Flown
      <4>2. InContact(feet', e)[g] <=> feet'[e][g].contact
        BY <1>1, <3>1, ContactRead
      <4> QED BY <4>1, <4>2, Zenon
    <3>4. ASSUME NEW e \in GtEnv, NEW g \in Feet
          PROVE  /\ flight'[e][g].steps \in Nat /\ flight'[e][g].top \in Int
                 /\ flight'[e][g].steps = 0 => flight'[e][g].top = 0
                 /\ feet'[e][g].contact <=> flight'[e][g].steps = 0
                 /\ airTime'[e][g] = flight'[e][g].steps /\ peak'[e][g] = flight'[e][g].top
                 /\ wasInAir'[e][g] <=> flight'[e][g].steps > 0
                 /\ charged'[e][g] = landed'[e][g]
                 /\ frameAir'[e][g] \in Nat
                 /\ frameAir'[e][g] >= flight'[e][g].steps
                 /\ feet'[e][g].contact => frameAir'[e][g] = 0
      <4>1. CASE e \in chosen
        BY <3>2, <3>3, <4>1
      <4>2. CASE e \notin chosen
        <5>1. frameAir'[e][g] = IF feet[e][g].contact THEN 0 ELSE frameAir[e][g] + 1
          <6>1. feet'[e][g] = feet[e][g] /\ GtOver(frameAir, chosen, NoFeet(0))[e][g] = frameAir[e][g]
            BY <3>2, <4>2
          <6>2. frameAir'[e][g] = IF feet'[e][g].contact THEN 0 ELSE GtOver(frameAir, chosen, NoFeet(0))[e][g] + 1
            BY <3>3
          <6> QED BY <6>1, <6>2, Zenon
        <5>2. frameAir[e][g] >= flight[e][g].steps /\ frameAir[e][g] \in Nat
          BY <1>a, <2>2
        <5> QED BY <1>a, <3>2, <4>2, <5>1, <5>2
      <4> QED BY <4>1, <4>2
    <3> QED BY <2>2, <3>4 DEF GtFlights
  <2> QED BY <2>3, <2>4, <2>5
<1> QED BY <1>2, <1>3, <1>4, <1>5 DEF GtNext

LEMMA CurriculumKept ==
  ASSUME Configured, NEW done, penaltyScale \in gtConfig.minScale .. gtConfig.maxScale,
         weights = ScaledWeights(penaltyScale), PenaltyCurriculum(done)
  PROVE  penaltyScale' \in gtConfig.minScale .. gtConfig.maxScale /\ weights' = ScaledWeights(penaltyScale')
<1>1. /\ gtConfig.minScale \in Int /\ gtConfig.maxScale \in Int /\ gtConfig.degree \in Int
      /\ gtConfig.minScale <= gtConfig.maxScale
  BY GaitFacts
<1>2. CASE done = {}
  BY <1>2 DEF PenaltyCurriculum, gtcurriculum
<1>3. CASE done # {}
  <2>1. PICK average, moved :
          /\ moved \in {(penaltyScale * (100 - gtConfig.degree)) \div 100,
                        (penaltyScale * (100 + gtConfig.degree)) \div 100, penaltyScale}
          /\ penaltyScale' = Greater(gtConfig.minScale, Lesser(gtConfig.maxScale, moved))
          /\ weights' = ScaledWeights(penaltyScale')
    <3> DEFINE average == TrackedAverage(SumFunction([e \in done |-> gtLength[e]]), Cardinality(done))
               moved == CASE average < gtConfig.down -> (penaltyScale * (100 - gtConfig.degree)) \div 100
                          [] average > gtConfig.up -> (penaltyScale * (100 + gtConfig.degree)) \div 100
                          [] OTHER -> penaltyScale
    <3>1. /\ penaltyScale' = Greater(gtConfig.minScale, Lesser(gtConfig.maxScale, moved))
          /\ weights' = ScaledWeights(penaltyScale')
      BY <1>3, Zenon DEF PenaltyCurriculum
    <3>2. moved \in {(penaltyScale * (100 - gtConfig.degree)) \div 100,
                     (penaltyScale * (100 + gtConfig.degree)) \div 100, penaltyScale}
      <4> HIDE DEF average
      <4> QED OBVIOUS
    <3> HIDE DEF moved
    <3> QED BY <3>1, <3>2
  <2>2. moved \in Int
    <3>1. ASSUME NEW x \in Int PROVE x \div 100 \in Int
      OBVIOUS
    <3>2. penaltyScale * (100 - gtConfig.degree) \in Int /\ penaltyScale * (100 + gtConfig.degree) \in Int
      BY <1>1
    <3> QED BY <2>1, <3>1, <3>2
  <2> QED BY <1>1, <2>1, <2>2 DEF Greater, Lesser
<1> QED BY <1>2, <1>3

LEMMA WeightsKept == GtTypes /\ GtWeights /\ GtNext => GtWeights'
<1> SUFFICES ASSUME GtTypes, GtWeights, GtNext PROVE GtWeights'
  OBVIOUS
<1>1. Configured /\ gtConfig' = gtConfig
  BY DEF GtTypes, GtNext, GtRewards, GtCommands, GtFrames, GtReset
<1>2. CASE GtRewards
  <2>1. /\ gtPc = "control" /\ velocity' = velocity /\ feet' \in FootBatches
        /\ penaltyScale' = penaltyScale /\ weights' = weights
        /\ earned' = [e \in GtEnv |-> Earned([d \in GtEnv |-> InContact(feet', d)], e)]
    BY <1>2, Zenon DEF GtRewards, gtcurriculum
  <2>2. ASSUME NEW e \in GtEnv, velocity[e].planar > 0
        PROVE  earned'[e].progress + earned'[e].shortfall = velocity[e].planar
    <3>1. earned'[e].progress = ForwardProgress(e) /\ earned'[e].shortfall = UnderSpeed(e)
      BY <2>1 DEF Earned
    <3>2. velocity[e].planar \in Int
      BY DEF GtTypes
    <3>3. Speed(e) \in Int
      <4>1. feet' \in Batches /\ 1 \in Feet
        BY <1>1, <2>1, GaitFacts, Sensors
      <4>2. feet'[e][1].speed \in Int
        BY <4>1 DEF Batches
      <4> QED BY <4>2 DEF Speed, Greater
    <3>4. PICK p \in Int, s \in Int : p = velocity[e].planar /\ s = Speed(e) /\ p > 0
      BY <2>2, <3>2, <3>3
    <3>5. ForwardProgress(e) = Lesser(s, p) /\ UnderSpeed(e) = Greater(p - s, 0)
      BY <3>4, Zenon DEF ForwardProgress, UnderSpeed
    <3>6. Lesser(s, p) + Greater(p - s, 0) = p
      BY DEF Lesser, Greater
    <3> QED BY <3>1, <3>4, <3>5, <3>6, Zenon
  <2> QED BY <1>1, <2>1, <2>2 DEF GtWeights, ScaledWeights
<1>3. CASE GtCommands
  BY <1>1, <1>3 DEF GtCommands, GtWeights, ScaledWeights, gtcurriculum
<1>4. CASE GtFrames
  BY <1>1, <1>4 DEF GtFrames, GtWeights, ScaledWeights, gtcurriculum
<1>5. CASE GtReset
  <2>1. gtPc' = "control"
    BY <1>5 DEF GtReset
  <2>2. PICK chosen \in RowSets : (penaltyScale' = penaltyScale /\ weights' = weights) \/ PenaltyCurriculum(chosen)
    BY <1>5, Zenon DEF GtReset, gtcurriculum
  <2>3. penaltyScale \in gtConfig.minScale .. gtConfig.maxScale /\ weights = ScaledWeights(penaltyScale)
    BY DEF GtWeights
  <2>4. penaltyScale' \in gtConfig.minScale .. gtConfig.maxScale /\ weights' = ScaledWeights(penaltyScale')
    <3>1. CASE penaltyScale' = penaltyScale /\ weights' = weights
      BY <2>3, <3>1, Zenon
    <3>2. CASE PenaltyCurriculum(chosen)
      BY <1>1, <2>3, <3>2, CurriculumKept
    <3> QED BY <2>2, <3>1, <3>2
  <2> QED BY <1>1, <2>1, <2>4 DEF GtWeights, ScaledWeights
<1> QED BY <1>2, <1>3, <1>4, <1>5 DEF GtNext

LEMMA GaitHolds == GtInv => GaitInStep
<1> SUFFICES ASSUME GtInv PROVE GaitInStep
  OBVIOUS
<1>1. GtTypes /\ GtBiped /\ GtQuadruped /\ GtFlights /\ GtWeights
  BY DEF GtInv
<1>2. OneClockPerLife
  <2>1. ASSUME NEW e \in GtEnv, NEW f \in {1, 2}
        PROVE  g1Phase[e][f] = IF aged[e] = 0 THEN drawnPhase[e][f] ELSE (drawnPhase[e][f] + aged[e]) % Cycle
    BY <1>1 DEF GtBiped
  <2>2. ASSUME NEW e \in GtEnv, gtConfig.initMode = "offset_phase"
        PROVE  HeightTarget(g1Phase[e][1]) + HeightTarget(g1Phase[e][2]) = Cycle \div 2
    <3>1. PICK d \in Nat, a \in Nat, h \in Int :
            /\ d = drawnPhase[e][1] /\ a = aged[e] /\ h = Cycle \div 2
            /\ g1Phase[e][1] = IF a = 0 THEN d ELSE (d + a) % Cycle
            /\ g1Phase[e][2] = IF a = 0 THEN d + h ELSE (d + h + a) % Cycle
      <4>1. drawnPhase[e][1] \in Nat /\ aged[e] \in Nat /\ Cycle \div 2 \in Int
        BY <1>1, GaitFacts DEF GtBiped
      <4> QED BY <1>1, <2>1, <2>2, <4>1 DEF GtBiped
    <3>2. Cycle \in Nat \ {0} /\ d + a \in Int /\ d + h + a \in Int
      BY GaitFacts
    <3>3. g1Phase[e][1] % Cycle = (d + a) % Cycle /\ g1Phase[e][2] % Cycle = (d + h + a) % Cycle
      <4>1. CASE a = 0
        <5>1. d + a = d /\ d + h + a = d + h
          BY <4>1
        <5> QED BY <3>1, <4>1, <5>1
      <4>2. CASE a # 0
        <5>1. (d + a) % Cycle \in 0 .. Cycle - 1 /\ (d + h + a) % Cycle \in 0 .. Cycle - 1
          BY <3>2, Remainder
        <5>2. ((d + a) % Cycle) % Cycle = (d + a) % Cycle
          BY <3>2, <5>1, Unchanged
        <5>3. ((d + h + a) % Cycle) % Cycle = (d + h + a) % Cycle
          BY <3>2, <5>1, Unchanged
        <5> QED BY <3>1, <4>2, <5>2, <5>3
      <4> QED BY <4>1, <4>2
    <3>4. (d + a) % Cycle \in 0 .. Cycle - 1
      BY <3>2, Remainder
    <3>5. (((d + a) % Cycle) + h) % Cycle = (d + a + h) % Cycle
      BY <3>2, TicksAdd
    <3>6. d + h + a = d + a + h
      OBVIOUS
    <3>7. g1Phase[e][2] % Cycle = (((d + a) % Cycle) + Cycle \div 2) % Cycle
      BY <3>1, <3>3, <3>5, <3>6, Zenon
    <3> QED BY <3>3, <3>4, <3>7, HalfACycle
  <2> QED BY <2>1, <2>2 DEF OneClockPerLife
<1>3. ClocksOfQuadruped
  BY <1>1 DEF ClocksOfQuadruped, GtQuadruped, GtTypes, FramesDue
<1>4. FlightsOfThisLife
  BY <1>1 DEF FlightsOfThisLife, GtFlights, FramesDue
<1>5. PenaltiesScaledOnce
  <2>1. weights = ScaledWeights(penaltyScale) /\ penaltyScale \in gtConfig.minScale .. gtConfig.maxScale
    BY <1>1 DEF GtWeights
  <2>2. \A name \in DOMAIN OriginalWeights : OriginalWeights[name] \in Int
    BY GaitAssumption
  <2> QED BY <1>1, <2>1, <2>2 DEF GtWeights, PenaltiesScaledOnce, ScaledWeights
<1> QED BY <1>2, <1>3, <1>4, <1>5 DEF GaitInStep

LEMMA GaitKept == GtInv /\ [GtNext]_gtvars => GtInv'
<1> SUFFICES ASSUME GtInv, [GtNext]_gtvars PROVE GtInv'
  OBVIOUS
<1>1. CASE GtNext
  BY <1>1, TypesKept, BipedKept, QuadrupedKept, FlightsKept, WeightsKept DEF GtInv
<1>2. CASE UNCHANGED gtvars
  <2>1. GtTypes /\ GtBiped /\ GtQuadruped /\ GtFlights /\ GtWeights
    BY DEF GtInv
  <2> USE <1>2, <2>1 DEF gtvars, gtclocks, gtfeet, gtcurriculum, gtghosts
  <2>2. GtTypes'
    BY DEF GtTypes, FramesDue, Configured, GaitRefused, PhaseRefused, GaitTermRefused, AirTimeRefused,
           PhaseContactRefused, GroupsRefused, SwingHeightRefused, CurriculumRefused
  <2>3. GtBiped'
    BY DEF GtBiped
  <2>4. GtQuadruped'
    BY DEF GtQuadruped, FramesDue, Pace, Moving
  <2>5. GtFlights'
    BY DEF GtFlights, FramesDue
  <2>6. GtWeights'
    BY DEF GtWeights, ScaledWeights
  <2> QED BY <2>2, <2>3, <2>4, <2>5, <2>6 DEF GtInv
<1> QED BY <1>1, <1>2

\* The gait, contact and penalty terms, for any sensors, cycle, batch and number of
\* environments: a clock that several terms share is turned once per step and tells the
\* time since its own reset beyond the phase drawn there, which the first frame of a life
\* shows as it was drawn; two clocks of one gait part only when the command turns, the
\* flights and peaks charged are of this life whichever sensor reports the ground, and the
\* penalties are the configured ones times one scale.
THEOREM GaitStaysInStep == GtSpec => []GaitInStep
  BY GaitBegins, GaitKept, GaitHolds, PTL DEF GtSpec

------------------------------------------------------------------------------
(* Rough terrain: where a robot is between the steps of a reset, and what its *)
(* row's level, place and scan may be of meanwhile.                           *)

TrMoreTypes ==
    /\ trCurriculum \in BOOLEAN /\ trAuto \in BOOLEAN
    /\ trPos \in [TrEnv -> TrPoint] /\ trHeight \in [TrEnv -> Int]
    /\ startAt \in [TrEnv -> TrPoint] /\ startAt = spawnAt
    /\ earnedLevels \in [TrEnv -> SUBSET (0 .. TrRows - 1)]
    /\ justReset \subseteq TrEnv
    /\ trRead = [e \in TrEnv |-> {}]

\* All rows are started by the first reset, and who asked for a reset decides which
\* of the rows that are done it may settle.
TrStages ==
    /\ trPhase = "build" => hasStarted = {} /\ trDone = {} /\ justReset = {} /\ trAuto = FALSE
    /\ trPhase \notin {"build", "raised"} =>
          \/ hasStarted = TrEnv
          \/ hasStarted = {} /\ trIds = TrEnv /\ trDone = {} /\ trAuto = FALSE
                /\ trPhase \in {"settle", "spawn"}
    /\ trPhase = "settle" => \/ trAuto = TRUE /\ trIds = trDone
                             \/ trAuto = FALSE /\ trIds \cap trDone \subseteq again
    /\ trPhase \in {"terminate", "stepObserve"} => justReset = {}

\* The row's episode has ended and its level is still to be settled.
ToSettle(e) ==
    /\ trCurriculum = TRUE /\ e \in trDone
    /\ trPhase = "stepObserve" \/ (trPhase = "settle" /\ trAuto = TRUE)
TrLevels ==
    \A e \in TrEnv \ again :
        /\ ToSettle(e) => NextLevels(level[e], Walked(startAt[e], trPos[e])) \subseteq earnedLevels[e]
        /\ ~ToSettle(e) => level[e] \in earnedLevels[e]

OnItsCell(e) ==
    \E p \in TrPoses : trPos[e] = SpawnPoint(e, p[e]) /\ trHeight[e] > SurfaceHeight(trPos[e])
TrPlaces ==
    \A e \in justReset : trPhase = "raised" \/ (trPhase = "spawn" /\ e \in trIds) \/ OnItsCell(e)

\* The row waits to be put on its cell.
ToPlace(e) ==
    \/ trPhase \in {"build", "raised", "terminate"}
    \/ trPhase = "stepObserve" /\ e \in trDone
    \/ trPhase \in {"settle", "spawn"} /\ e \in trIds
OnMap(p) == 2 * TrAbs(p.x) <= Width /\ 2 * TrAbs(p.y) <= Height(trCurriculum)
TrOnMap == \A e \in TrEnv, off \in TrReach : ToPlace(e) \/ OnMap(Plus(trPos[e], off))

\* The row's scan is still to be taken.
ToScan(e) ==
    \/ trPhase \in {"build", "raised", "terminate", "stepObserve"}
    \/ trPhase \in {"settle", "spawn", "resetObserve"} /\ e \in trIds
ScanFrom(pos, height, off) == 5 * Between(-1, height - 1 - SurfaceHeight(Plus(pos, off)), 1)
TrScans == \A e \in TrEnv, off \in TrReach : ToScan(e) \/ scan[e][off] = ScanFrom(trPos[e], trHeight[e], off)

TrCommands ==
    \A e \in TrEnv \ worldEnv : command[e] = Origin0 \/ TrSquare(command[e]) > DeadZone * DeadZone

TrInv ==
    /\ TrTypeOK /\ TrMoreTypes /\ TrStages /\ TrLevels /\ TrPlaces /\ TrOnMap /\ TrScans /\ TrCommands

------------------------------------------------------------------------------
(* Geometry                                                                    *)

\* k cells away from the middle, of at most m, is at most m times as far.
LEMMA Scaled ==
  ASSUME NEW k \in Int, NEW m \in Nat, NEW h \in Nat, -m <= k, k <= m
  PROVE  k * h \in Int /\ -(m * h) <= k * h /\ k * h <= m * h
<1>1. (m - k) * h >= 0 /\ (m + k) * h >= 0
  BY SMT
<1>2. (m - k) * h = m * h - k * h /\ (m + k) * h = m * h + k * h
  BY SMT
<1>3. m * h \in Int /\ k * h \in Int
  BY SMT
<1> QED BY <1>1, <1>2, <1>3

LEMMA HalfCell == TrCell \div 2 \in Nat /\ TrCell = 2 * (TrCell \div 2)
BY TrAssumption

LEMMA ColsOf ==
  ASSUME trCurriculum \in BOOLEAN
  PROVE  TerrainCols(trCurriculum) \in Nat \ {0}
BY TrAssumption DEF TerrainCols

\* The middle of a cell is at least half a cell from the border of the grid.
LEMMA MiddleOf ==
  ASSUME NEW n \in Nat \ {0}, NEW i \in 0 .. n - 1
  PROVE  LET m == ((2 * i - n + 1) * TrCell) \div 2
         IN m \in Int /\ -(n * TrCell - TrCell) <= 2 * m /\ 2 * m <= n * TrCell - TrCell
<1> DEFINE h == TrCell \div 2
           k == 2 * i - n + 1
           m == (k * TrCell) \div 2
<1>1. h \in Nat /\ TrCell = 2 * h
  BY HalfCell
<1>2. k \in Int /\ n - 1 \in Nat /\ -(n - 1) <= k /\ k <= n - 1
  OBVIOUS
<1>3. k * h \in Int /\ -((n - 1) * h) <= k * h /\ k * h <= (n - 1) * h
  <2> HIDE DEF h, k
  <2> QED BY <1>1, <1>2, Scaled
<1>4. k * TrCell = 2 * (k * h) /\ n * TrCell - TrCell = 2 * ((n - 1) * h)
  <2> HIDE DEF h, k
  <2>1. k * (2 * h) = 2 * (k * h) /\ n * (2 * h) = 2 * (n * h) /\ (n - 1) * h = n * h - h
    BY <1>1, <1>2, SMT
  <2>2. n * h \in Int
    BY <1>1, SMT
  <2> QED BY <2>1, <2>2, <1>1, <1>2
<1>5. m = k * h
  <2>1. \A x \in Int : (2 * x) \div 2 = x
    OBVIOUS
  <2> HIDE DEF h, k
  <2> QED BY <2>1, <1>3, <1>4
<1>6. m \in Int /\ -(n * TrCell - TrCell) <= 2 * m /\ 2 * m <= n * TrCell - TrCell
  <2>1. (n - 1) * h \in Int
    BY <1>1, SMT
  <2> HIDE DEF h, k, m
  <2> QED BY <2>1, <1>3, <1>4, <1>5
<1> QED BY <1>6

LEMMA CellPoint ==
  ASSUME trCurriculum \in BOOLEAN, NEW l \in 0 .. TrRows - 1, NEW c \in 0 .. TerrainCols(trCurriculum) - 1
  PROVE  /\ CellOrigin(l, c) \in TrPoint
         /\ -(TrRows * TrCell - TrCell) <= 2 * CellOrigin(l, c).x
         /\ 2 * CellOrigin(l, c).x <= TrRows * TrCell - TrCell
         /\ -(TerrainCols(trCurriculum) * TrCell - TrCell) <= 2 * CellOrigin(l, c).y
         /\ 2 * CellOrigin(l, c).y <= TerrainCols(trCurriculum) * TrCell - TrCell
<1> DEFINE n == TerrainCols(trCurriculum)
           x == ((2 * l - TrRows + 1) * TrCell) \div 2
           y == ((2 * c - n + 1) * TrCell) \div 2
<1>1. x \in Int /\ -(TrRows * TrCell - TrCell) <= 2 * x /\ 2 * x <= TrRows * TrCell - TrCell
  BY MiddleOf, TrAssumption
<1>2. y \in Int /\ -(n * TrCell - TrCell) <= 2 * y /\ 2 * y <= n * TrCell - TrCell
  <2>1. n \in Nat \ {0} /\ c \in 0 .. n - 1
    BY ColsOf
  <2> HIDE DEF n
  <2> QED BY <2>1, MiddleOf
<1>3. CellOrigin(l, c) = [x |-> x, y |-> y]
  BY DEF CellOrigin
<1> HIDE DEF n, x, y
<1>4. CellOrigin(l, c) \in TrPoint /\ CellOrigin(l, c).x = x /\ CellOrigin(l, c).y = y
  BY <1>1, <1>2, <1>3 DEF TrPoint
<1> QED BY <1>1, <1>2, <1>4 DEF n

LEMMA PlusPoint ==
  ASSUME NEW p \in TrPoint, NEW q \in TrPoint
  PROVE  Plus(p, q) \in TrPoint /\ Plus(p, q).x = p.x + q.x /\ Plus(p, q).y = p.y + q.y
BY DEF Plus, TrPoint

LEMMA SurfaceOf ==
  ASSUME NEW p \in TrPoint
  PROVE  SurfaceHeight(p) \in Int /\ SpawnHeight(p) \in Int /\ SpawnHeight(p) > SurfaceHeight(p)
BY DEF SurfaceHeight, SpawnHeight, SpawnHeightMargin, TrAbs, TrPoint

LEMMA SpawnedPoint ==
  ASSUME TrTypeOK, trCurriculum \in BOOLEAN, NEW e \in TrEnv, NEW p \in TrPoses
  PROVE  SpawnPoint(e, p[e]) \in TrPoint
<1>1. level[e] \in 0 .. TrRows - 1 /\ typeCol[e] \in 0 .. TerrainCols(trCurriculum) - 1 /\ p[e] \in TrPoint
  BY TrAssumption DEF TrTypeOK
<1> QED BY <1>1, CellPoint, PlusPoint DEF SpawnPoint

\* Wherever a reset may put a robot down, its scan is on the map.
LEMMA SpawnedOnMap ==
  ASSUME TrTypeOK, trCurriculum \in BOOLEAN, NEW e \in TrEnv, NEW p \in TrPoses, NEW off \in TrReach
  PROVE  OnMap(Plus(SpawnPoint(e, p[e]), off))
<1> DEFINE o == CellOrigin(level[e], typeCol[e])
           n == TerrainCols(trCurriculum)
<1>1. level[e] \in 0 .. TrRows - 1 /\ typeCol[e] \in 0 .. n - 1
  BY DEF TrTypeOK
<1>2. /\ o \in TrPoint
      /\ -(TrRows * TrCell - TrCell) <= 2 * o.x /\ 2 * o.x <= TrRows * TrCell - TrCell
      /\ -(n * TrCell - TrCell) <= 2 * o.y /\ 2 * o.y <= n * TrCell - TrCell
  BY <1>1, CellPoint
<1>3. p[e] \in TrPoint /\ off \in TrPoint
  BY TrAssumption
<1> DEFINE s == SpawnPoint(e, p[e])
           q == Plus(s, off)
<1>4. s \in TrPoint /\ s.x = o.x + p[e].x /\ s.y = o.y + p[e].y
  BY <1>2, <1>3, PlusPoint DEF SpawnPoint
<1>5. q.x = o.x + p[e].x + off.x /\ q.y = o.y + p[e].y + off.y /\ q \in TrPoint
  <2> HIDE DEF s
  <2> QED BY <1>3, <1>4, PlusPoint
<1>6. /\ -(TrCell + 2 * TrBorder) <= 2 * (p[e].x + off.x) /\ 2 * (p[e].x + off.x) <= TrCell + 2 * TrBorder
      /\ -(TrCell + 2 * TrBorder) <= 2 * (p[e].y + off.y) /\ 2 * (p[e].y + off.y) <= TrCell + 2 * TrBorder
  BY TrReachAssumption
<1>7. PICK w \in Int, v \in Int : w = TrRows * TrCell /\ v = n * TrCell
  <2>1. TrRows \in Int /\ TrCell \in Int /\ n \in Int
    BY TrAssumption, ColsOf
  <2> QED BY <2>1, SMT
<1>8. Width = w + 2 * TrBorder /\ Height(trCurriculum) = v + 2 * TrBorder
  BY <1>7 DEF Width, Height
<1>9. /\ o.x \in Int /\ o.y \in Int /\ p[e].x \in Int /\ p[e].y \in Int /\ off.x \in Int /\ off.y \in Int
      /\ TrBorder \in Nat /\ TrCell \in Nat
  BY <1>2, <1>3, TrAssumption DEF TrPoint
<1> HIDE DEF o, n, s, q
<1>10. 2 * TrAbs(q.x) <= w + 2 * TrBorder
  <2>1. -(w - TrCell) <= 2 * o.x /\ 2 * o.x <= w - TrCell
    BY <1>2, <1>7
  <2> QED BY <2>1, <1>5, <1>6, <1>9, <1>7 DEF TrAbs
<1>11. 2 * TrAbs(q.y) <= v + 2 * TrBorder
  <2>1. -(v - TrCell) <= 2 * o.y /\ 2 * o.y <= v - TrCell
    BY <1>2, <1>7
  <2> QED BY <2>1, <1>5, <1>6, <1>9, <1>7 DEF TrAbs
<1> QED BY <1>8, <1>10, <1>11 DEF OnMap, q, s

\* A robot that need not end its episode has its scan on the map.
LEMMA InBoundsOnMap ==
  ASSUME trCurriculum \in BOOLEAN, NEW p \in TrPoint, ~OutOfBounds(p), NEW off \in TrReach
  PROVE  OnMap(Plus(p, off))
<1>1. off \in TrPoint /\ TrBuffer \in Nat
  BY TrAssumption
<1>2. Plus(p, off).x = p.x + off.x /\ Plus(p, off).y = p.y + off.y
  BY <1>1, PlusPoint
<1>3. -TrBuffer <= off.x /\ off.x <= TrBuffer /\ -TrBuffer <= off.y /\ off.y <= TrBuffer
  BY TrReachAssumption
<1>4. p.x \in Int /\ p.y \in Int /\ off.x \in Int /\ off.y \in Int
  BY <1>1 DEF TrPoint
<1>5. Width \in Int /\ Height(trCurriculum) \in Int
  <2>1. TrRows \in Int /\ TrCell \in Int /\ TerrainCols(trCurriculum) \in Int /\ TrBorder \in Int
    BY TrAssumption, ColsOf
  <2> QED BY <2>1, SMT DEF Width, Height
<1>6. 2 * TrAbs(p.x) <= Width - 2 * TrBuffer /\ 2 * TrAbs(p.y) <= Height(trCurriculum) - 2 * TrBuffer
  <2>1. TrAbs(p.x) \in Int /\ TrAbs(p.y) \in Int
    BY <1>4 DEF TrAbs
  <2> QED BY <2>1, <1>1, <1>5 DEF OutOfBounds
<1>7. 2 * TrAbs(p.x + off.x) <= Width /\ 2 * TrAbs(p.y + off.y) <= Height(trCurriculum)
  BY <1>1, <1>3, <1>4, <1>5, <1>6 DEF TrAbs
<1> QED BY <1>2, <1>7 DEF OnMap

\* Levels stay on the grid.
LEMMA LevelsOnGrid ==
  ASSUME NEW l \in 0 .. TrRows - 1, NEW walked
  PROVE  NextLevels(l, walked) \subseteq 0 .. TrRows - 1
<1>1. TrRows \in Nat \ {0}
  BY TrAssumption
<1>2. CycleRows \subseteq 0 .. TrRows - 1
  BY <1>1 DEF CycleRows, Between
<1>3. Between(0, l - 1, TrRows - 1) \in 0 .. TrRows - 1
  BY <1>1 DEF Between
<1>4. l + 1 >= TrRows \/ l + 1 \in 0 .. TrRows - 1
  BY <1>1
<1> QED BY <1>2, <1>3, <1>4 DEF NextLevels

------------------------------------------------------------------------------
(* The steps                                                                   *)

\* Nothing is read twice in one scope: what a term sees is the robot as it is.
LEMMA ReadAsIs ==
  ASSUME TrMoreTypes, NEW e \in TrEnv
  PROVE  RootPosition(e) = [at |-> trPos[e], z |-> trHeight[e]]
BY DEF RootPosition, TrMoreTypes

LEMMA ScannedAsIs ==
  ASSUME TrMoreTypes, NEW e \in TrEnv, NEW off \in TrReach
  PROVE  HeightScan(e)[off] = ScanFrom(trPos[e], trHeight[e], off)
<1>1. RootPosition(e).z = trHeight[e]
  BY ReadAsIs
<1> QED BY <1>1 DEF HeightScan, ScanFrom, ScanAt

LEMMA TrStart ==
  ASSUME TrInit
  PROVE  TrInv
<1>1. Origin0 \in TrPoint
  BY DEF Origin0, TrPoint
<1>2. TrRows \in Nat \ {0} /\ TerrainCols(trCurriculum) \in Nat \ {0}
  BY TrAssumption, ColsOf DEF TrInit
<1>3. TrTypeOK
  BY <1>2 DEF TrInit, TrTypeOK
<1>4. TrMoreTypes
  <2>1. 0 \in 0 .. TrRows - 1
    BY <1>2
  <2>2. trPos \in [TrEnv -> TrPoint] /\ startAt \in [TrEnv -> TrPoint] /\ startAt = spawnAt
    BY <1>1 DEF TrInit
  <2>3. trCurriculum \in BOOLEAN /\ trAuto \in BOOLEAN
    BY DEF TrInit
  <2>4. /\ trHeight \in [TrEnv -> Int] /\ earnedLevels \in [TrEnv -> SUBSET (0 .. TrRows - 1)]
        /\ justReset \subseteq TrEnv /\ trRead = [e \in TrEnv |-> {}]
    BY <2>1 DEF TrInit
  <2> QED BY <2>2, <2>3, <2>4 DEF TrMoreTypes
<1>5. TrStages
  BY DEF TrInit, TrStages
<1>6. TrLevels
  <2>1. ASSUME NEW e \in TrEnv PROVE ~ToSettle(e) /\ level[e] \in earnedLevels[e]
    BY DEF TrInit, ToSettle
  <2> QED BY <2>1 DEF TrLevels
<1>7. TrPlaces /\ TrOnMap /\ TrScans
  BY DEF TrInit, TrPlaces, TrOnMap, TrScans, ToPlace, ToScan
<1>8. TrCommands
  BY DEF TrInit, TrCommands
<1> QED BY <1>3, <1>4, <1>5, <1>6, <1>8, <1>7 DEF TrInv

LEMMA TrBuilt ==
  ASSUME TrInv, NEW terms, NEW promote, NEW ranges, NEW levels, NEW cols, Build(terms, promote, ranges,
  levels, cols)
  PROVE  TrInv'
<1> USE DEF TrInv
<1>1. /\ trPhase = "build" /\ trCurriculum' = trCurriculum /\ trAuto' = trAuto /\ startAt' = startAt
      /\ hasStarted' = hasStarted /\ trPos' = trPos /\ trHeight' = trHeight /\ trRead' = trRead
            /\ trDone' = trDone
      /\ scan' = scan /\ command' = command /\ worldEnv' = worldEnv /\ spawnAt' = spawnAt
            /\ justReset' = justReset
      /\ again' = again
  BY DEF Build, bodyvars, commandvars
<1>2. \/ /\ levels \in [TrEnv -> 0 .. TrRows - 1] /\ cols \in [TrEnv -> 0 .. TerrainCols(trCurriculum) - 1]
         /\ level' = levels /\ typeCol' = cols /\ earnedLevels' = [e \in TrEnv |-> {levels[e]}]
         /\ trIds' = TrEnv /\ trPhase' = "settle"
      \/ trPhase' = "raised" /\ UNCHANGED <<trIds, level, typeCol, earnedLevels>>
  <2>1. TrRows \in Nat \ {0}
    BY TrAssumption
  <2> QED BY <2>1 DEF Build
<1>3. TrTypeOK'
  BY <1>1, <1>2 DEF TrTypeOK, TerrainCols
<1>4. TrMoreTypes'
  BY <1>1, <1>2 DEF TrMoreTypes
<1>5. TrStages'
  BY <1>1, <1>2 DEF TrStages, TrTypeOK
<1>6. TrLevels'
  BY <1>1, <1>2 DEF TrLevels, ToSettle, TrMoreTypes, TrStages, TrTypeOK
<1>7. TrPlaces' /\ TrOnMap' /\ TrScans'
  BY <1>1, <1>2 DEF TrPlaces, TrOnMap, TrScans, ToPlace, ToScan, TrStages
<1>8. TrCommands'
  BY <1>1 DEF TrCommands
<1> QED BY <1>3, <1>4, <1>5, <1>6, <1>7, <1>8

LEMMA TrStepped ==
  ASSUME TrInv, NEW moved \in TrMoves, TerrainStep(moved)
  PROVE  TrInv'
<1>1. /\ trPhase = "idle" /\ trPhase' = "terminate" /\ justReset' = {}
      /\ trPos' = [e \in TrEnv |-> Plus(trPos[e], moved[e])]
      /\ trHeight' = [e \in TrEnv |-> SpawnHeight(trPos'[e])]
      /\ trRead' = [e \in TrEnv |-> {}]
      /\ UNCHANGED <<trCurriculum, trIds, trAuto, level, typeCol, startAt, hasStarted, trDone, scan,
                  command, worldEnv,
                     spawnAt, earnedLevels, again>>
  BY DEF TerrainStep, gridvars, commandvars
<1>2. TrTypeOK'
  BY <1>1 DEF TrInv, TrTypeOK, TerrainCols
<1>3. TrMoreTypes'
  <2>1. ASSUME NEW e \in TrEnv PROVE Plus(trPos[e], moved[e]) \in TrPoint
    BY PlusPoint, TrAssumption DEF TrInv, TrMoreTypes
  <2>2. trPos' \in [TrEnv -> TrPoint]
    BY <1>1, <2>1
  <2>3. trHeight' \in [TrEnv -> Int]
    BY <1>1, <2>2, SurfaceOf
  <2> QED BY <1>1, <2>2, <2>3 DEF TrInv, TrMoreTypes
<1>4. TrStages' /\ TrLevels'
  BY <1>1 DEF TrInv, TrStages, TrLevels, ToSettle
<1>5. TrPlaces' /\ TrOnMap' /\ TrScans' /\ TrCommands'
  BY <1>1 DEF TrInv, TrPlaces, TrOnMap, TrScans, TrCommands, ToPlace, ToScan
<1> QED BY <1>2, <1>3, <1>4, <1>5 DEF TrInv

LEMMA TrTerminated ==
  ASSUME TrInv, NEW other \in TrRowSets, NEW lifted, Terminate(other, lifted)
  PROVE  TrInv'
<1>1. /\ trPhase = "terminate" /\ trPhase' = "stepObserve"
      /\ trDone' = other \cup {e \in TrEnv : OutOfBounds(RootPosition(e).at)}
      /\ trHeight' = [e \in TrEnv |-> IF e \in lifted THEN trHeight[e] + 1 ELSE trHeight[e]]
      /\ trRead' = [e \in TrEnv |-> {}]
      /\ earnedLevels' = [e \in TrEnv |-> IF e \in trDone' /\ trCurriculum
                                  THEN UNION {NextLevels(l, Walked(spawnAt[e], trPos[e])) : l \in earnedLevels[e]}
                                  ELSE earnedLevels[e]]
      /\ UNCHANGED <<trCurriculum, trIds, trAuto, level, typeCol, startAt, hasStarted, trPos, scan,
                  command, worldEnv,
                     spawnAt, justReset, again>>
  BY DEF Terminate, ReadsAfterEvents, gridvars, commandvars
<1>2. trDone' = other \cup {e \in TrEnv : OutOfBounds(trPos[e])}
  <2>1. \A e \in TrEnv : RootPosition(e).at = trPos[e]
    BY ReadAsIs DEF TrInv
  <2> QED BY <1>1, <2>1
<1>3. TrTypeOK'
  BY <1>1, TrAssumption DEF TrInv, TrTypeOK, TerrainCols
<1>4. TrMoreTypes'
  <2>1. ASSUME NEW e \in TrEnv, NEW l \in earnedLevels[e]
        PROVE  NextLevels(l, Walked(spawnAt[e], trPos[e])) \subseteq 0 .. TrRows - 1
    <3>1. l \in 0 .. TrRows - 1
      BY DEF TrInv, TrMoreTypes
    <3> QED BY <3>1, LevelsOnGrid
  <2>2. earnedLevels' \in [TrEnv -> SUBSET (0 .. TrRows - 1)]
    <3>1. \A e \in TrEnv : earnedLevels[e] \in SUBSET (0 .. TrRows - 1)
      BY DEF TrInv, TrMoreTypes
    <3>2. \A e \in TrEnv : earnedLevels'[e] \in SUBSET (0 .. TrRows - 1)
      BY <1>1, <2>1, <3>1, Zenon
    <3> QED BY <1>1, <3>2
  <2>3. trHeight' \in [TrEnv -> Int]
    BY <1>1 DEF TrInv, TrMoreTypes
  <2> QED BY <1>1, <2>2, <2>3 DEF TrInv, TrMoreTypes
<1>5. TrStages'
  BY <1>1 DEF TrInv, TrStages
<1>6. TrLevels'
  <2> DEFINE Next(e) == NextLevels(level[e], Walked(startAt[e], trPos[e]))
  <2>1. SUFFICES ASSUME NEW e \in TrEnv \ again
                 PROVE  /\ ToSettle(e)' => Next(e) \subseteq earnedLevels'[e]
                        /\ ~ToSettle(e)' => level[e] \in earnedLevels'[e]
    BY <1>1 DEF TrLevels
  <2>2. ToSettle(e)' <=> (trCurriculum = TRUE /\ e \in trDone')
    BY <1>1 DEF ToSettle
  <2>3. level[e] \in earnedLevels[e] /\ startAt = spawnAt
    BY <1>1 DEF TrInv, TrLevels, ToSettle, TrMoreTypes
  <2>4. CASE trCurriculum = TRUE /\ e \in trDone'
    <3>1. earnedLevels'[e] = UNION {NextLevels(l, Walked(spawnAt[e], trPos[e])) : l \in earnedLevels[e]}
      BY <1>1, <2>4, Zenon
    <3> QED BY <2>2, <2>3, <2>4, <3>1
  <2>5. CASE ~(trCurriculum = TRUE /\ e \in trDone')
    <3>1. trCurriculum \in BOOLEAN
      BY DEF TrInv, TrMoreTypes
    <3>2. earnedLevels'[e] = earnedLevels[e]
      BY <1>1, <2>5, <3>1, Zenon
    <3> QED BY <2>2, <2>3, <2>5, <3>2
  <2> QED BY <2>4, <2>5
<1>7. TrPlaces' /\ TrScans' /\ TrCommands'
  BY <1>1 DEF TrInv, TrStages, TrPlaces, TrScans, TrCommands, ToScan
<1>8. TrOnMap'
  <2>1. SUFFICES ASSUME NEW e \in TrEnv, NEW off \in TrReach, e \notin trDone'
                 PROVE  OnMap(Plus(trPos[e], off))
    BY <1>1 DEF TrOnMap, ToPlace, OnMap
  <2>2. ~OutOfBounds(trPos[e]) /\ trPos[e] \in TrPoint /\ trCurriculum \in BOOLEAN
    BY <1>2, <2>1 DEF TrInv, TrMoreTypes
  <2> QED BY <2>2, InBoundsOnMap
<1> QED BY <1>3, <1>4, <1>5, <1>6, <1>7, <1>8 DEF TrInv

LEMMA TrObserved ==
  ASSUME TrInv, StepObserve
  PROVE  TrInv'
<1>1. /\ trPhase = "stepObserve" /\ scan' = [e \in TrEnv |-> HeightScan(e)]
      /\ trRead' = [e \in TrEnv |-> {}] /\ trIds' = trDone /\ trAuto' = (trDone # {})
      /\ trPhase' = (IF trDone = {} THEN "idle" ELSE "settle")
      /\ UNCHANGED <<trCurriculum, level, typeCol, startAt, hasStarted, trPos, trHeight, trDone, command,
                  worldEnv,
                     spawnAt, earnedLevels, justReset, again>>
  BY DEF StepObserve, gridvars, bodyvars, commandvars, trghosts
<1>2. \/ trDone = {} /\ trPhase' = "idle" /\ trAuto' = FALSE
      \/ trDone # {} /\ trPhase' = "settle" /\ trAuto' = TRUE
  BY <1>1
<1>3. TrTypeOK'
  BY <1>1, <1>2 DEF TrInv, TrTypeOK, TerrainCols
<1>4. TrMoreTypes'
  BY <1>1, <1>2 DEF TrInv, TrMoreTypes
<1>5. TrStages'
  BY <1>1, <1>2 DEF TrInv, TrStages
<1>6. TrLevels'
  BY <1>1, <1>2 DEF TrInv, TrLevels, ToSettle
<1>7. TrPlaces'
  BY <1>1, <1>2 DEF TrInv, TrPlaces, TrStages
<1>8. TrOnMap'
  BY <1>1, <1>2 DEF TrInv, TrOnMap, ToPlace, OnMap, Height, TerrainCols
<1>9. TrScans'
  <2>1. ASSUME NEW e \in TrEnv, NEW off \in TrReach
        PROVE  scan'[e][off] = ScanFrom(trPos'[e], trHeight'[e], off)
    BY <1>1, ScannedAsIs DEF TrInv
  <2> QED BY <2>1 DEF TrScans
<1>10. TrCommands'
  BY <1>1 DEF TrInv, TrCommands
<1> QED BY <1>3, <1>4, <1>5, <1>6, <1>7, <1>8, <1>9, <1>10 DEF TrInv

LEMMA TrAsked ==
  ASSUME TrInv, NEW chosen \in TrRowSets, ResetTerrainRows(chosen)
  PROVE  TrInv'
<1>1. /\ trPhase = "idle" /\ trPhase' = "settle" /\ trIds' = chosen /\ trAuto' = FALSE
      /\ again' = again \cup (chosen \cap trDone) /\ chosen \subseteq TrEnv
      /\ UNCHANGED <<trCurriculum, level, typeCol, startAt, hasStarted, trPos, trHeight, trRead, trDone,
                  scan, command,
                     worldEnv, spawnAt, earnedLevels, justReset>>
  BY TrAssumption DEF ResetTerrainRows, gridvars, bodyvars, commandvars
<1>2. TrTypeOK' /\ TrMoreTypes'
  BY <1>1 DEF TrInv, TrTypeOK, TrMoreTypes, TerrainCols
<1>3. TrStages'
  BY <1>1 DEF TrInv, TrStages
<1>4. TrLevels'
  BY <1>1 DEF TrInv, TrLevels, ToSettle
<1>5. TrPlaces'
  BY <1>1 DEF TrInv, TrPlaces, OnItsCell, SpawnPoint, CellOrigin, TerrainCols
<1>6. TrOnMap'
  BY <1>1 DEF TrInv, TrOnMap, ToPlace, OnMap, Height, TerrainCols
<1>7. TrScans' /\ TrCommands'
  BY <1>1 DEF TrInv, TrScans, ToScan, TrCommands
<1> QED BY <1>2, <1>3, <1>4, <1>5, <1>6, <1>7 DEF TrInv

LEMMA TrSettled ==
  ASSUME TrInv, NEW levels, Settle(levels)
  PROVE  TrInv'
<1>1. /\ trPhase = "settle" /\ trPhase' = "spawn" /\ levels \in [Settled -> 0 .. TrRows - 1]
      /\ \A e \in Settled :
           levels[e] \in IF trCurriculum THEN NextLevels(level[e], Walked(startAt[e], RootPosition(e).at)) ELSE {level[e]}
      /\ level' = [e \in TrEnv |-> IF e \in Settled THEN levels[e] ELSE level[e]]
      /\ UNCHANGED <<trCurriculum, trIds, trAuto, typeCol, startAt, hasStarted, trPos, trHeight, trRead,
                  trDone, scan,
                     command, worldEnv, spawnAt, earnedLevels, justReset, again>>
  BY DEF Settle, bodyvars, commandvars, trghosts
<1>2. Settled = (trIds \cap trDone) \cap hasStarted
  BY DEF Settled
<1>3. \A e \in TrEnv : level'[e] = IF e \in Settled THEN levels[e] ELSE level[e]
  BY <1>1
<1>4. TrTypeOK'
  BY <1>1 DEF TrInv, TrTypeOK, TerrainCols
<1>5. TrMoreTypes' /\ TrStages'
  BY <1>1 DEF TrInv, TrMoreTypes, TrStages
<1>6. TrLevels'
  <2>1. SUFFICES ASSUME NEW e \in TrEnv \ again
                 PROVE  level'[e] \in earnedLevels[e]
    BY <1>1 DEF TrLevels, ToSettle
  <2>2. /\ ToSettle(e) => NextLevels(level[e], Walked(startAt[e], trPos[e])) \subseteq earnedLevels[e]
        /\ ~ToSettle(e) => level[e] \in earnedLevels[e]
    BY DEF TrInv, TrLevels
  <2>3. trCurriculum \in BOOLEAN /\ trAuto \in BOOLEAN /\ RootPosition(e).at = trPos[e]
    BY ReadAsIs DEF TrInv, TrMoreTypes
  <2>4. CASE e \in Settled /\ trCurriculum = TRUE
    <3>1. trAuto = TRUE /\ ToSettle(e)
      BY <1>1, <1>2, <2>1, <2>4 DEF TrInv, TrStages, ToSettle
    <3>2. levels[e] \in NextLevels(level[e], Walked(startAt[e], trPos[e]))
      BY <1>1, <2>3, <2>4, Zenon
    <3> QED BY <1>3, <2>2, <2>4, <3>1, <3>2
  <2>5. CASE e \in Settled /\ trCurriculum = FALSE
    <3>1. levels[e] = level[e]
      BY <1>1, <2>5
    <3> QED BY <1>3, <2>2, <2>5, <3>1 DEF ToSettle
  <2>6. CASE e \notin Settled
    <3>1. ~ToSettle(e)
      BY <1>1, <1>2, <2>1, <2>6 DEF TrInv, TrStages, ToSettle
    <3> QED BY <1>3, <2>2, <2>6, <3>1
  <2> QED BY <2>3, <2>4, <2>5, <2>6
<1>7. TrPlaces'
  <2>1. SUFFICES ASSUME NEW e \in justReset, e \notin trIds
                 PROVE  OnItsCell(e)'
    BY <1>1 DEF TrPlaces
  <2>2. OnItsCell(e) /\ e \in TrEnv
    BY <1>1, <2>1 DEF TrInv, TrPlaces, TrMoreTypes
  <2>3. level'[e] = level[e]
    BY <1>2, <1>3, <2>1, <2>2
  <2> QED BY <1>1, <2>2, <2>3 DEF OnItsCell, SpawnPoint, CellOrigin, TerrainCols
<1>8. TrOnMap'
  BY <1>1 DEF TrInv, TrOnMap, ToPlace, OnMap, Height, TerrainCols
<1>9. TrScans' /\ TrCommands'
  BY <1>1 DEF TrInv, TrScans, ToScan, TrCommands
<1> QED BY <1>4, <1>5, <1>6, <1>7, <1>8, <1>9 DEF TrInv

LEMMA TrSpawned ==
  ASSUME TrInv, NEW pose \in TrPoses, NEW sampled, Spawn(pose, sampled)
  PROVE  TrInv'
<1>1. /\ trPhase = "spawn" /\ trRead' = [e \in TrEnv |-> {}]
      /\ UNCHANGED <<trCurriculum, trIds, trAuto, level, typeCol, trDone, scan, command, worldEnv,
                  earnedLevels, again>>
  BY DEF Spawn, commandvars
<1> DEFINE at(e) == SpawnPoint(e, pose[e])
<1>2. CASE sampled
  <2>1. /\ trPos' = [e \in TrEnv |-> IF e \in trIds THEN at(e) ELSE trPos[e]]
        /\ trHeight' = [e \in TrEnv |-> IF e \in trIds THEN SpawnHeight(at(e)) ELSE trHeight[e]]
        /\ startAt' = [e \in TrEnv |-> IF e \in trIds THEN at(e) ELSE startAt[e]]
        /\ hasStarted' = hasStarted \cup trIds
        /\ spawnAt' = [e \in TrEnv |-> IF e \in trIds THEN at(e) ELSE spawnAt[e]]
        /\ justReset' = justReset \cup trIds
        /\ trPhase' = "resetObserve"
    BY <1>2 DEF Spawn
  <2>2. \A e \in TrEnv : at(e) \in TrPoint /\ SpawnHeight(at(e)) \in Int
        /\ SpawnHeight(at(e)) > SurfaceHeight(at(e))
    BY SpawnedPoint, SurfaceOf DEF TrInv, TrMoreTypes
  <2>3. \A e \in TrEnv, off \in TrReach : OnMap(Plus(at(e), off))
    BY SpawnedOnMap DEF TrInv, TrMoreTypes
  <2>4. \A e \in TrEnv : SpawnPoint(e, pose[e])' = at(e)
    BY <1>1 DEF SpawnPoint, CellOrigin, TerrainCols
  <2> HIDE DEF at
  <2>5. TrTypeOK'
    BY <1>1, <2>1 DEF TrInv, TrTypeOK, TerrainCols
  <2>6. TrMoreTypes'
    <3>1. trPos' \in [TrEnv -> TrPoint]
      BY <2>1, <2>2 DEF TrInv, TrMoreTypes
    <3>2. trHeight' \in [TrEnv -> Int]
      BY <2>1, <2>2 DEF TrInv, TrMoreTypes
    <3>3. startAt' \in [TrEnv -> TrPoint] /\ startAt' = spawnAt'
      BY <2>1, <2>2 DEF TrInv, TrMoreTypes
    <3> QED BY <1>1, <2>1, <3>1, <3>2, <3>3 DEF TrInv, TrMoreTypes, TrTypeOK
  <2>7. TrStages'
    BY <1>1, <2>1 DEF TrInv, TrStages, TrTypeOK
  <2>8. TrLevels'
    <3>1. \A e : ~ToSettle(e) /\ ~ToSettle(e)'
      BY <1>1, <2>1 DEF ToSettle
    <3> QED BY <1>1, <3>1 DEF TrInv, TrLevels
  <2>9. TrPlaces'
    <3>1. SUFFICES ASSUME NEW e \in justReset', e \in TrEnv PROVE OnItsCell(e)'
      BY <2>6 DEF TrPlaces, TrMoreTypes
    <3>2. CASE e \in trIds
      <4>1. trPos'[e] = at(e) /\ trHeight'[e] = SpawnHeight(at(e))
        BY <2>1, <3>1, <3>2
      <4> QED BY <2>2, <2>4, <3>1, <4>1 DEF OnItsCell
    <3>3. CASE e \notin trIds
      <4>1. trPos'[e] = trPos[e] /\ trHeight'[e] = trHeight[e] /\ OnItsCell(e)
        BY <1>1, <2>1, <3>1, <3>3 DEF TrInv, TrPlaces
      <4> QED BY <1>1, <4>1 DEF OnItsCell, SpawnPoint, CellOrigin, TerrainCols
    <3> QED BY <3>2, <3>3
  <2>10. TrOnMap'
    <3>1. SUFFICES ASSUME NEW e \in TrEnv, NEW off \in TrReach PROVE OnMap(Plus(trPos'[e], off))
      BY <1>1 DEF TrOnMap, OnMap, Height, TerrainCols
    <3>2. CASE e \in trIds
      BY <2>1, <2>3, <3>2
    <3>3. CASE e \notin trIds
      BY <1>1, <2>1, <3>3 DEF TrInv, TrOnMap, ToPlace
    <3> QED BY <3>2, <3>3
  <2>11. TrScans'
    BY <1>1, <2>1 DEF TrInv, TrScans, ToScan
  <2>12. TrCommands'
    BY <1>1 DEF TrInv, TrCommands
  <2> QED BY <2>5, <2>6, <2>7, <2>8, <2>9, <2>10, <2>11, <2>12 DEF TrInv
<1>3. CASE ~sampled
  <2>1. /\ trPhase' = "raised"
        /\ UNCHANGED <<trPos, trHeight, startAt, hasStarted, spawnAt, justReset>>
    BY <1>3 DEF Spawn, bodyvars
  <2>2. TrTypeOK' /\ TrMoreTypes' /\ TrStages'
    BY <1>1, <2>1 DEF TrInv, TrTypeOK, TrMoreTypes, TrStages, TerrainCols
  <2>3. TrLevels'
    <3>1. \A e : ~ToSettle(e) /\ ~ToSettle(e)'
      BY <1>1, <2>1 DEF ToSettle
    <3> QED BY <1>1, <3>1 DEF TrInv, TrLevels
  <2>4. TrPlaces' /\ TrOnMap' /\ TrScans' /\ TrCommands'
    BY <1>1, <2>1 DEF TrInv, TrPlaces, TrOnMap, TrScans, TrCommands, ToPlace, ToScan
  <2> QED BY <2>2, <2>3, <2>4 DEF TrInv
<1> QED BY <1>2, <1>3

LEMMA TrCommanded ==
  ASSUME TrInv, NEW draw \in TrDraws, ResetObserve(draw.velocity, draw.world)
  PROVE  TrInv'
<1> DEFINE drawn == draw.velocity
           turned == draw.world
<1>1. /\ trPhase = "resetObserve" /\ trPhase' = "idle" /\ trIds' = {} /\ trAuto' = FALSE
      /\ scan' = [e \in TrEnv |-> IF e \in trIds THEN HeightScan(e) ELSE scan[e]]
      /\ trDone' \subseteq trDone
      /\ UNCHANGED <<trCurriculum, level, typeCol, startAt, hasStarted, trPos, trHeight, trRead, spawnAt,
                  earnedLevels,
                     justReset, again>>
  BY DEF ResetObserve, gridvars, bodyvars, trghosts
<1>2. /\ worldEnv' = (worldEnv \ trIds) \cup (turned \cap trIds)
      /\ command' = [e \in TrEnv |-> IF e \in worldEnv' THEN worldCommand'[e]
                                     ELSE IF e \in trIds THEN DrawnCommand(drawn[e]) ELSE command[e]]
  BY DEF ResetObserve, Command
<1> HIDE DEF drawn, turned
<1>3. TrTypeOK' /\ TrMoreTypes' /\ TrStages'
  BY <1>1 DEF TrInv, TrTypeOK, TrMoreTypes, TrStages, TerrainCols
<1>4. TrLevels'
  <2>1. \A e : ~ToSettle(e) /\ ~ToSettle(e)'
    BY <1>1 DEF ToSettle
  <2> QED BY <1>1, <2>1 DEF TrInv, TrLevels
<1>5. TrPlaces'
  BY <1>1 DEF TrInv, TrPlaces, OnItsCell, SpawnPoint, CellOrigin, TerrainCols
<1>6. TrOnMap'
  BY <1>1 DEF TrInv, TrOnMap, ToPlace, OnMap, Height, TerrainCols
<1>7. TrScans'
  <2>1. SUFFICES ASSUME NEW e \in TrEnv, NEW off \in TrReach
                 PROVE  scan'[e][off] = ScanFrom(trPos[e], trHeight[e], off)
    BY <1>1 DEF TrScans
  <2>2. CASE e \in trIds
    BY <1>1, <2>2, ScannedAsIs DEF TrInv
  <2>3. CASE e \notin trIds
    BY <1>1, <2>3 DEF TrInv, TrScans, ToScan
  <2> QED BY <2>2, <2>3
<1>8. TrCommands'
  <2>1. SUFFICES ASSUME NEW e \in TrEnv, e \notin worldEnv'
                 PROVE  command'[e] = Origin0 \/ TrSquare(command'[e]) > DeadZone * DeadZone
    BY DEF TrCommands
  <2>2. CASE e \in trIds
    <3>1. command'[e] = DrawnCommand(drawn[e])
      BY <1>2, <2>1, <2>2
    <3> QED BY <3>1 DEF DrawnCommand, StillBelow
  <2>3. CASE e \notin trIds
    <3>1. command'[e] = command[e] /\ e \notin worldEnv
      BY <1>2, <2>1, <2>3
    <3> QED BY <2>1, <3>1 DEF TrInv, TrCommands
  <2> QED BY <2>2, <2>3
<1> QED BY <1>3, <1>4, <1>5, <1>6, <1>7, <1>8 DEF TrInv

LEMMA TrStutters ==
  ASSUME TrInv, UNCHANGED trvars
  PROVE  TrInv'
<1>1. UNCHANGED <<trPhase, trCurriculum, trIds, trAuto, level, typeCol, startAt, hasStarted, trPos,
            trHeight, trRead, trDone,
                  scan, command, worldEnv, spawnAt, earnedLevels, justReset, again>>
  BY DEF trvars
<1>2. TrTypeOK' /\ TrMoreTypes' /\ TrStages' /\ TrLevels'
  BY <1>1 DEF TrInv, TrTypeOK, TrMoreTypes, TrStages, TrLevels, ToSettle, TerrainCols
<1>3. TrPlaces' /\ TrOnMap'
  BY <1>1 DEF TrInv, TrPlaces, OnItsCell, SpawnPoint, CellOrigin, TrOnMap, ToPlace, OnMap, Height, TerrainCols
<1>4. TrScans' /\ TrCommands'
  BY <1>1 DEF TrInv, TrScans, ToScan, TrCommands
<1> QED BY <1>2, <1>3, <1>4 DEF TrInv

LEMMA TrTellsSound ==
  ASSUME TrInv
  PROVE  TerrainSound
<1>1. LevelsEarned
  BY DEF TrInv, TrLevels, LevelsEarned, ToSettle
<1>2. SpawnedOnItsCell
  BY DEF TrInv, TrMoreTypes, TrPlaces, OnItsCell, SpawnedOnItsCell
<1>3. ScanStaysOnTheMap
  BY DEF TrInv, TrOnMap, ToPlace, OnMap, ScanStaysOnTheMap
<1>4. ScanOfThisPose
  BY DEF TrInv, TrScans, ToScan, ScanFrom, ScanOfThisPose
<1>5. CommandsClearDeadZone
  BY DEF TrInv, TrCommands, CommandsClearDeadZone
<1> QED BY <1>1, <1>2, <1>3, <1>4, <1>5 DEF TrInv, TerrainSound

\* Whatever the size of the grid, the moves of the robots and the rows a caller or a
\* term picks: levels are what completed episodes have earned, a reset puts a robot
\* above its cell and its distance counts from there, no scan leaves the map, and a
\* scan is of the pose it is read with.
THEOREM TerrainStaysSound == TrSpec => []TerrainSound
<1>1. TrInit => TrInv
  BY TrStart
<1>2. TrInv /\ [TrNext]_trvars => TrInv'
  BY TrBuilt, TrStepped, TrTerminated, TrObserved, TrAsked, TrSettled, TrSpawned, TrCommanded,
       TrStutters DEF TrNext
<1>3. TrInv => TerrainSound
  BY TrTellsSound
<1> QED BY <1>1, <1>2, <1>3, PTL DEF TrSpec

------------------------------------------------------------------------------
(* Evaluation: what a rollout records of the lives of its robot.               *)

Flags == [flying : BOOLEAN, upright : BOOLEAN, terminated : BOOLEAN, truncated : BOOLEAN]
Robot == [life : Nat, shown : Seq(0 .. LastFrame)]
HoRows ==
    [frame : 0 .. LastFrame, next : 0 .. LastFrame, reset : BOOLEAN, wrap : BOOLEAN, terminated : BOOLEAN,
     truncated : BOOLEAN, after : Int, landing : BOOLEAN, attempt : Nat, episode : Nat, state : Robot, life : Nat,
     seen : Seq(0 .. LastFrame), outcome : Outcomes]

HoTypes ==
    /\ kind \in {"native", "tail", "trial"}
    /\ refFrame \in 0 .. LastFrame /\ life \in Nat /\ shown \in Seq(0 .. LastFrame)
    /\ tail = [tick |-> tail.tick, firstDone |-> tail.firstDone, seen |-> tail.seen]
    /\ tail.tick \in Nat /\ tail.firstDone \in Nat \cup {Never} /\ tail.seen \in BOOLEAN
    /\ telemetry \in [episode : Nat, attempt : Nat, airborne : BOOLEAN, inversion : BOOLEAN, stable : Nat, recorded : BOOLEAN]
    /\ rows \in Seq(HoRows) /\ nativeRows \in Seq(HoRows)
    /\ ruling \in {"running", "refused", "censored", "scored", "verified", "success", "failure"}

\* The rows of a rollout follow one another, up to a reset.
RowAlone(row) ==
    /\ row.state = IF row.wrap THEN [life |-> row.life + 1, shown |-> <<>>] ELSE [life |-> row.life, shown |-> row.seen]
    /\ row.reset = (row.terminated \/ row.truncated)
    /\ row.wrap = (row.next < row.frame /\ ~row.reset)
Follows(row, before) ==
    IF before.reset THEN row.frame = 0 /\ row.life = before.state.life + 1 /\ row.seen = <<0>>
    ELSE row.frame = before.next /\ row.life = before.state.life /\ row.seen = Append(before.state.shown, row.frame)
Chain(s) ==
    /\ \A i \in 1 .. Len(s) : RowAlone(s[i])
    /\ Len(s) > 0 => s[1].frame = 0 /\ s[1].life = 0 /\ s[1].seen = <<0>>
    /\ \A i \in 2 .. Len(s) : Follows(s[i], s[i - 1])
\* Where the rollout is, after its last row.
Present ==
    LET n == Len(rows)
    IN IF n = 0 THEN refFrame = 0 /\ life = 0 /\ shown = <<>>
       ELSE IF rows[n].reset THEN refFrame = 0 /\ life = rows[n].state.life + 1 /\ shown = <<>>
       ELSE refFrame = rows[n].next /\ life = rows[n].state.life /\ shown = rows[n].state.shown
HoChain == Chain(rows) /\ Present

\* The rows of a native rollout end as the robot did, and its clip goes round.
NativeRow(row) ==
    /\ row.terminated = row.outcome.terminated /\ row.truncated = row.outcome.truncated /\ row.after = Never
    /\ row.next = IF row.reset THEN row.frame ELSE IF row.frame = LastFrame THEN 0 ELSE row.frame + 1
HoNative ==
    /\ kind = "native" => tail = NoTail /\ \A i \in 1 .. Len(rows) : NativeRow(rows[i])
    /\ kind = "tail" => /\ Chain(nativeRows) /\ Len(nativeRows) = RolloutSteps
                        /\ \A i \in 1 .. Len(nativeRows) : NativeRow(nativeRows[i])
                        /\ \E i \in 1 .. Len(nativeRows) : nativeRows[i].reset

\* Lives follow one another; rows between two ends are of one life.
HoLives ==
    /\ \A i \in 1 .. Len(rows) : rows[i].life <= life /\ rows[i].state.life <= life
    /\ \A i, j \in 1 .. Len(rows) :
          i <= j /\ (\A k \in i .. j - 1 : ~rows[k].reset /\ ~rows[k].wrap) => rows[i].life = rows[j].life

\* The first life of a native rollout, and what the first frames of the clip show.
UpTo(n) == [j \in 1 .. n |-> j - 1]
NoEndBefore(i) == \A k \in 1 .. i - 1 : ~rows[k].reset
HoFirst ==
    kind = "native" =>
       /\ \A i \in 1 .. Len(rows) : i <= HorizonSteps /\ NoEndBefore(i) =>
             rows[i].frame = i - 1 /\ rows[i].life = 0 /\ rows[i].seen = UpTo(i) /\ rows[i].wrap = FALSE
       /\ Len(rows) <= HorizonSteps /\ NoEndBefore(Len(rows) + 1) =>
             refFrame = Len(rows) /\ life = 0 /\ shown = UpTo(Len(rows))

\* What the telemetry knows is of this life.
Alive(j) == rows[j].life = life
Steady(j) == Alive(j) /\ rows[j].frame >= LandingFrom /\ rows[j].outcome.upright /\ ~rows[j].outcome.flying
HoTelemetry ==
    /\ telemetry.airborne => \E j \in 1 .. Len(rows) : Alive(j) /\ rows[j].outcome.flying
    /\ telemetry.inversion => \E j \in 1 .. Len(rows) : Alive(j) /\ ~rows[j].outcome.upright
    /\ telemetry.stable <= Len(rows) /\ \A j \in Len(rows) - telemetry.stable + 1 .. Len(rows) : Steady(j)
    /\ ~telemetry.recorded => \A j \in 1 .. Len(rows) : Alive(j) => ~rows[j].landing
    /\ tail.firstDone = Never => \A j \in 1 .. Len(rows) : Alive(j) => rows[j].after = Never

\* The replay does what the native rollout did up to its first end, and goes on from there.
FirstEnd(i) == i \in 1 .. Len(nativeRows) /\ nativeRows[i].reset /\ \A k \in 1 .. i - 1 : ~nativeRows[k].reset
HoTail ==
    kind = "tail" => \A f \in 1 .. Len(nativeRows) : FirstEnd(f) =>
       /\ \A i \in 1 .. Len(rows) : i <= f =>
             /\ rows[i].frame = nativeRows[i].frame /\ rows[i].outcome = nativeRows[i].outcome
             /\ rows[i].state = nativeRows[i].state
             /\ rows[i].reset = FALSE
             /\ i < f => rows[i].next = nativeRows[i].next
             /\ i = f => rows[i].after = 0
       /\ Len(rows) < f => /\ tail.firstDone = Never
                           /\ nativeRows[Len(rows) + 1].life = life
                           /\ nativeRows[Len(rows) + 1].frame = refFrame
                           /\ nativeRows[Len(rows) + 1].seen = Append(shown, refFrame)

HoTrial ==
    kind = "trial" =>
       /\ Len(rows) <= TrialSteps
       /\ tail.tick = Len(rows) /\ tail.firstDone <= tail.tick
       /\ refFrame = (IF Len(rows) <= LastFrame THEN Len(rows) ELSE LastFrame)
       /\ life = 0 /\ \A i \in 1 .. Len(rows) : rows[i].life = 0 /\ rows[i].reset = FALSE

HoInv ==
    /\ HoTypes /\ HoChain /\ HoNative /\ HoLives /\ HoFirst /\ HoTelemetry /\ HoTail /\ HoTrial /\ LandingsReal
    /\ ruling # "refused"

LEMMA OutcomeFlags ==
  ASSUME NEW o \in Outcomes
  PROVE  o.flying \in BOOLEAN /\ o.upright \in BOOLEAN /\ o.terminated \in BOOLEAN /\ o.truncated \in BOOLEAN
BY HoldoutAssumption

\* How an episode ends: as the robot does, or once its tail is over.
LEMMA EndingIs ==
  ASSUME HoTypes, NEW o \in Outcomes
  PROVE  /\ Ending(o).terminated \in BOOLEAN /\ Ending(o).truncated \in BOOLEAN /\ Ending(o).after \in Int
         /\ Ending(o).tail = [tick |-> Ending(o).tail.tick, firstDone |-> Ending(o).tail.firstDone, seen |-> Ending(o).tail.seen]
         /\ Ending(o).tail.tick \in Nat /\ Ending(o).tail.firstDone \in Nat \cup {Never} /\ Ending(o).tail.seen \in BOOLEAN
         /\ kind = "native" => /\ Ending(o).tail = tail /\ Ending(o).after = Never
                               /\ Ending(o).terminated = o.terminated /\ Ending(o).truncated = o.truncated
         /\ kind # "native" =>
              /\ Ending(o).tail.tick = tail.tick + 1
              /\ Ending(o).tail.firstDone = IF tail.firstDone = Never /\ (o.terminated \/ o.truncated) THEN tail.tick ELSE tail.firstDone
              /\ Ending(o).after = IF Ending(o).tail.firstDone = Never THEN Never ELSE tail.tick - Ending(o).tail.firstDone
              /\ (Ending(o).terminated \/ Ending(o).truncated) =>
                    /\ Ending(o).tail.firstDone # Never
                    /\ tail.tick - Ending(o).tail.firstDone >= IF kind = "trial" THEN TrialSteps ELSE TailSteps
<1>1. /\ o.terminated \in BOOLEAN /\ o.truncated \in BOOLEAN /\ tail.tick \in Nat /\ tail.firstDone \in Nat \cup {Never}
      /\ tail.seen \in BOOLEAN /\ tail = [tick |-> tail.tick, firstDone |-> tail.firstDone, seen |-> tail.seen]
  BY OutcomeFlags DEF HoTypes
<1>2. CASE kind = "native"
  <2>1. Ending(o) = [tail |-> tail, after |-> Never, terminated |-> o.terminated, truncated |-> o.truncated]
    BY <1>2 DEF Ending
  <2> QED BY <1>1, <1>2, <2>1 DEF Never
<1>3. CASE kind # "native"
  <2>1. PICK first, limit, expired, failed :
           /\ first = IF tail.firstDone = Never /\ (o.terminated \/ o.truncated) THEN tail.tick ELSE tail.firstDone
           /\ limit = IF kind = "trial" THEN TrialSteps ELSE TailSteps
           /\ expired = (first # Never /\ tail.tick - first >= limit)
           /\ failed = (tail.seen \/ o.terminated)
    OBVIOUS
  <2>2. Ending(o) = [tail |-> [tick |-> tail.tick + 1, firstDone |-> first, seen |-> failed],
                     after |-> IF first = Never THEN Never ELSE tail.tick - first,
                     terminated |-> (expired /\ failed), truncated |-> (expired /\ ~failed)]
    BY <1>3, <2>1, Zenon DEF Ending, Continued
  <2>3. first \in Nat \cup {Never} /\ expired \in BOOLEAN /\ failed \in BOOLEAN
    BY <1>1, <2>1
  <2>4. PICK after : after = IF first = Never THEN Never ELSE tail.tick - first
    OBVIOUS
  <2>5. after \in Int
    BY <1>1, <2>3, <2>4 DEF Never
  <2>6. PICK a, b : a = (expired /\ failed) /\ b = (expired /\ ~failed)
    OBVIOUS
  <2>7. a \in BOOLEAN /\ b \in BOOLEAN /\ (a = TRUE \/ b = TRUE => expired = TRUE)
    BY <2>3, <2>6, Zenon
  <2>8. Ending(o) = [tail |-> [tick |-> tail.tick + 1, firstDone |-> first, seen |-> failed],
                     after |-> after, terminated |-> a, truncated |-> b]
    BY <2>2, <2>4, <2>6, Zenon
  <2>9. expired = TRUE => first # Never /\ tail.tick - first >= limit
    BY <2>1, Zenon
  <2>10. limit = IF kind = "trial" THEN TrialSteps ELSE TailSteps
    BY <2>1
  <2>11. /\ Ending(o).terminated = a /\ Ending(o).truncated = b /\ Ending(o).after = after
         /\ Ending(o).tail = [tick |-> tail.tick + 1, firstDone |-> first, seen |-> failed]
         /\ Ending(o).tail.tick = tail.tick + 1 /\ Ending(o).tail.firstDone = first /\ Ending(o).tail.seen = failed
    BY <2>8
  <2>12. (a \/ b) => first # Never /\ tail.tick - first >= IF kind = "trial" THEN TrialSteps ELSE TailSteps
    BY <2>7, <2>9, <2>10
  <2>13. first = IF tail.firstDone = Never /\ (o.terminated \/ o.truncated) THEN tail.tick ELSE tail.firstDone
    BY <2>1
  <2> QED BY <1>1, <1>3, <2>3, <2>4, <2>5, <2>7, <2>11, <2>12, <2>13
<1> QED BY <1>2, <1>3

\* One step, its row named.
Stepped(o, row) ==
    /\ ruling = "running" /\ Len(rows) < Steps /\ kind' = kind /\ nativeRows' = nativeRows
    /\ row.reset = (Ending(o).terminated \/ Ending(o).truncated)
    /\ row.next = IF row.reset \/ Holds(Ending(o).tail.firstDone) THEN refFrame
                  ELSE IF refFrame = LastFrame THEN 0 ELSE refFrame + 1
    /\ row.wrap = (row.next < refFrame)
    /\ row.frame = refFrame /\ row.life = life /\ row.seen = Append(shown, refFrame) /\ row.outcome = o
    /\ row.terminated = Ending(o).terminated /\ row.truncated = Ending(o).truncated /\ row.after = Ending(o).after
    /\ row.state = IF row.wrap THEN [life |-> life + 1, shown |-> <<>>] ELSE [life |-> life, shown |-> row.seen]
    /\ row.landing = (Observe(telemetry, o, refFrame, row.reset, row.wrap).landing /\ Ending(o).tail.firstDone = Never)
    /\ Reproduces(o, row.seen)
    /\ rows' = Append(rows, row)
    /\ telemetry' = Observe(telemetry, o, refFrame, row.reset, row.wrap).next
    /\ refFrame' = IF row.reset THEN 0 ELSE row.next
    /\ life' = IF row.reset THEN life + 1 ELSE row.state.life
    /\ shown' = IF row.reset THEN <<>> ELSE row.state.shown
    /\ tail' = IF row.reset THEN NoTail ELSE Ending(o).tail
    /\ ruling' = IF kind = "trial" /\ ~TrialGoesOn(row.next, row.reset) THEN "refused" ELSE "running"

LEMMA SteppedOf ==
  ASSUME NEW o \in Outcomes, Step(o)
  PROVE  \E row : Stepped(o, row) /\ row = [frame |-> row.frame, next |-> row.next, reset |-> row.reset, wrap |-> row.wrap,
                   terminated |-> row.terminated, truncated |-> row.truncated, after |-> row.after,
                   landing |-> row.landing, attempt |-> telemetry.attempt, episode |-> telemetry.episode,
                   state |-> row.state, life |-> row.life, seen |-> row.seen, outcome |-> row.outcome]
<1> DEFINE sight == Append(shown, refFrame)
           e == Ending(o)
           done == e.terminated \/ e.truncated
           next == IF done \/ Holds(e.tail.firstDone) THEN refFrame
                   ELSE IF refFrame = LastFrame THEN 0 ELSE refFrame + 1
           wrapped == next < refFrame
           observed == Observe(telemetry, o, refFrame, done, wrapped)
           robot == IF wrapped THEN [life |-> life + 1, shown |-> <<>>] ELSE [life |-> life, shown |-> sight]
           row == [frame |-> refFrame, next |-> next, reset |-> done, wrap |-> wrapped,
                   terminated |-> e.terminated, truncated |-> e.truncated, after |-> e.after,
                   landing |-> observed.landing /\ e.tail.firstDone = Never,
                   attempt |-> telemetry.attempt, episode |-> telemetry.episode,
                   state |-> robot, life |-> life, seen |-> sight, outcome |-> o]
<1>1. /\ ruling = "running" /\ Len(rows) < Steps /\ kind' = kind /\ nativeRows' = nativeRows
      /\ Reproduces(o, sight) /\ rows' = Append(rows, row) /\ telemetry' = observed.next
      /\ refFrame' = (IF done THEN 0 ELSE next)
      /\ life' = (IF done THEN life + 1 ELSE robot.life)
      /\ shown' = (IF done THEN <<>> ELSE robot.shown)
      /\ tail' = (IF done THEN NoTail ELSE e.tail)
      /\ ruling' = (IF kind = "trial" /\ ~TrialGoesOn(next, done) THEN "refused" ELSE "running")
  BY Zenon DEF Step
<1> DEFINE landing == observed.landing /\ e.tail.firstDone = Never
<1>2. PICK d, n, w, r, l, ob : d = done /\ n = next /\ w = wrapped /\ r = robot /\ l = landing /\ ob = observed
  OBVIOUS
<1> DEFINE q == [frame |-> refFrame, next |-> n, reset |-> d, wrap |-> w,
                 terminated |-> e.terminated, truncated |-> e.truncated, after |-> e.after,
                 landing |-> l, attempt |-> telemetry.attempt, episode |-> telemetry.episode,
                 state |-> r, life |-> life, seen |-> sight, outcome |-> o]
<1>3. q = row
  BY <1>2, Zenon
<1>4. /\ q.reset = d /\ q.next = n /\ q.wrap = w /\ q.frame = refFrame /\ q.life = life /\ q.seen = sight /\ q.outcome = o
      /\ q.terminated = e.terminated /\ q.truncated = e.truncated /\ q.after = e.after /\ q.state = r /\ q.landing = l
      /\ q = [frame |-> q.frame, next |-> q.next, reset |-> q.reset, wrap |-> q.wrap,
              terminated |-> q.terminated, truncated |-> q.truncated, after |-> q.after,
              landing |-> q.landing, attempt |-> telemetry.attempt, episode |-> telemetry.episode,
              state |-> q.state, life |-> q.life, seen |-> q.seen, outcome |-> q.outcome]
  <2> HIDE DEF e, sight
  <2> QED OBVIOUS
<1>5. rows' = Append(rows, q)
  BY <1>1, <1>3, Zenon
<1> HIDE DEF q, row, done, next, wrapped, observed, robot, e, sight, landing
<1>6. /\ d = (e.terminated \/ e.truncated)
      /\ n = (IF d \/ Holds(e.tail.firstDone) THEN refFrame ELSE IF refFrame = LastFrame THEN 0 ELSE refFrame + 1)
      /\ w = (n < refFrame) /\ ob = Observe(telemetry, o, refFrame, d, w)
      /\ r = (IF w THEN [life |-> life + 1, shown |-> <<>>] ELSE [life |-> life, shown |-> sight])
      /\ l = (ob.landing /\ e.tail.firstDone = Never)
  BY <1>2, Zenon DEF done, next, wrapped, observed, robot, landing
<1>7. /\ telemetry' = ob.next /\ refFrame' = (IF d THEN 0 ELSE n) /\ life' = (IF d THEN life + 1 ELSE r.life)
      /\ shown' = (IF d THEN <<>> ELSE r.shown) /\ tail' = (IF d THEN NoTail ELSE e.tail)
      /\ ruling' = (IF kind = "trial" /\ ~TrialGoesOn(n, d) THEN "refused" ELSE "running")
  BY <1>1, <1>2, Zenon
<1>8. Stepped(o, q)
  BY <1>1, <1>4, <1>5, <1>6, <1>7, Zenon DEF Stepped, e, sight
<1> QED BY <1>4, <1>8

LEMMA Smallest ==
  ASSUME NEW S \in SUBSET Nat, S # {}
  PROVE  Min(S) \in S /\ \A y \in S : Min(S) <= y
<1>1. PICK x \in S : \A y \in S : x <= y
  BY SmallestOf
<1> QED BY <1>1 DEF Min

\* A row is added at the end.
Added(row) ==
    /\ Len(rows') = Len(rows) + 1 /\ rows'[Len(rows) + 1] = row
    /\ \A i \in 1 .. Len(rows) : rows'[i] = rows[i]

\* The row of a step, and its place.
LEMMA RowOfStep ==
  ASSUME HoInv, NEW o \in Outcomes, NEW row, Stepped(o, row),
         row = [frame |-> row.frame, next |-> row.next, reset |-> row.reset, wrap |-> row.wrap,
                terminated |-> row.terminated, truncated |-> row.truncated, after |-> row.after,
                landing |-> row.landing, attempt |-> telemetry.attempt, episode |-> telemetry.episode,
                state |-> row.state, life |-> row.life, seen |-> row.seen, outcome |-> row.outcome]
  PROVE  /\ row \in HoRows /\ Len(rows) \in Nat /\ Added(row)
         /\ RowAlone(row)
         /\ row.reset \in BOOLEAN /\ row.wrap \in BOOLEAN /\ row.landing \in BOOLEAN
         /\ row.reset => ~row.wrap /\ row.next = row.frame
         /\ row.seen \in Seq(0 .. LastFrame) /\ row.next \in 0 .. LastFrame
<1>1. HoTypes
  BY DEF HoInv
<1>2. /\ Ending(o).terminated \in BOOLEAN /\ Ending(o).truncated \in BOOLEAN /\ Ending(o).after \in Int
  BY <1>1, EndingIs
<1>3. row.reset \in BOOLEAN /\ row.reset = (row.terminated \/ row.truncated)
  <2>1. PICK d : d = (Ending(o).terminated \/ Ending(o).truncated)
    OBVIOUS
  <2>2. d \in BOOLEAN
    BY <1>2, <2>1, Zenon
  <2> QED BY <2>1, <2>2, Zenon DEF Stepped
<1>4. LastFrame \in Nat \ {0} /\ refFrame \in 0 .. LastFrame /\ life \in Nat /\ shown \in Seq(0 .. LastFrame)
  BY <1>1, HoldoutAssumption DEF HoTypes
<1>5. /\ row.next = IF row.reset \/ Holds(Ending(o).tail.firstDone) THEN refFrame
                    ELSE IF refFrame = LastFrame THEN 0 ELSE refFrame + 1
      /\ row.wrap = (row.next < refFrame) /\ row.frame = refFrame /\ row.life = life
      /\ row.seen = Append(shown, refFrame) /\ row.outcome = o
  BY DEF Stepped
<1>6. row.next \in 0 .. LastFrame
  BY <1>4, <1>5
<1>7. row.wrap \in BOOLEAN
  <2>1. PICK w : w = (row.next < refFrame)
    OBVIOUS
  <2> QED BY <2>1, <1>4, <1>5, <1>6
<1>8. row.reset => ~row.wrap /\ row.next = row.frame
  <2> SUFFICES ASSUME row.reset PROVE ~row.wrap /\ row.next = row.frame
    OBVIOUS
  <2>1. row.next = refFrame
    BY <1>5, Zenon
  <2>2. ~(row.next < refFrame)
    BY <2>1, <1>4
  <2> QED BY <2>1, <2>2, <1>5, Zenon
<1>9. row.landing \in BOOLEAN
  <2>1. row.landing = (Observe(telemetry, o, refFrame, row.reset, row.wrap).landing /\ Ending(o).tail.firstDone = Never)
    BY DEF Stepped
  <2>2. PICK a, b, l : a = Observe(telemetry, o, refFrame, row.reset, row.wrap).landing
                       /\ b = (Ending(o).tail.firstDone = Never) /\ l = (a /\ b)
    OBVIOUS
  <2>3. l \in BOOLEAN
    BY <2>2, Zenon
  <2> QED BY <2>1, <2>2, <2>3, Zenon
<1>10. row.seen \in Seq(0 .. LastFrame)
  BY <1>4, <1>5, AppendProperties
<1>11. row.state = IF row.wrap THEN [life |-> row.life + 1, shown |-> <<>>] ELSE [life |-> row.life, shown |-> row.seen]
  BY <1>5, Zenon DEF Stepped
<1>12. row.state \in Robot
  <2>1. CASE row.wrap
    <3>1. row.state = [life |-> row.life + 1, shown |-> <<>>]
      BY <2>1, <1>11
    <3>2. <<>> \in Seq(0 .. LastFrame)
      BY EmptySeq
    <3>3. row.life + 1 \in Nat
      BY <1>4, <1>5
    <3> QED BY <3>1, <3>2, <3>3 DEF Robot
  <2>2. CASE ~row.wrap
    <3>1. row.state = [life |-> row.life, shown |-> row.seen]
      BY <2>2, <1>11
    <3> QED BY <3>1, <1>4, <1>5, <1>10 DEF Robot
  <2> QED BY <2>1, <2>2
<1>13. /\ row.terminated \in BOOLEAN /\ row.truncated \in BOOLEAN /\ row.after \in Int
  BY <1>2 DEF Stepped
<1>14. telemetry.attempt \in Nat /\ telemetry.episode \in Nat
  BY <1>1 DEF HoTypes
<1>15. row \in HoRows
  <2>1. /\ row.frame \in 0 .. LastFrame /\ row.next \in 0 .. LastFrame /\ row.reset \in BOOLEAN /\ row.wrap \in BOOLEAN
        /\ row.terminated \in BOOLEAN /\ row.truncated \in BOOLEAN /\ row.after \in Int /\ row.landing \in BOOLEAN
        /\ row.state \in Robot /\ row.life \in Nat /\ row.seen \in Seq(0 .. LastFrame) /\ row.outcome \in Outcomes
    BY <1>3, <1>4, <1>5, <1>6, <1>7, <1>9, <1>10, <1>12, <1>13
  <2>2. [frame |-> row.frame, next |-> row.next, reset |-> row.reset, wrap |-> row.wrap,
         terminated |-> row.terminated, truncated |-> row.truncated, after |-> row.after,
         landing |-> row.landing, attempt |-> telemetry.attempt, episode |-> telemetry.episode,
         state |-> row.state, life |-> row.life, seen |-> row.seen, outcome |-> row.outcome] \in HoRows
    BY <2>1, <1>14, Zenon DEF HoRows
  <2> QED BY <2>2, Zenon
<1>16. Len(rows) \in Nat /\ Added(row)
  <2>1. rows \in Seq(HoRows) /\ rows' = Append(rows, row)
    BY <1>1 DEF Stepped, HoTypes
  <2> QED BY <2>1, <1>15, AppendProperties, LenProperties DEF Added
<1>17. row.wrap = (row.next < row.frame /\ ~row.reset)
  <2>1. CASE row.reset
    BY <2>1, <1>8, <1>7, <1>3
  <2>2. CASE ~row.reset
    <3>1. PICK w : w = (row.next < row.frame)
      OBVIOUS
    <3>2. row.wrap = w /\ w \in BOOLEAN
      BY <3>1, <1>5, <1>7, Zenon
    <3> QED BY <3>1, <3>2, <2>2, Zenon
  <2> QED BY <2>1, <2>2
<1>18. RowAlone(row)
  BY <1>3, <1>11, <1>17, Zenon DEF RowAlone
<1> QED BY <1>3, <1>6, <1>7, <1>8, <1>9, <1>10, <1>15, <1>16, <1>18

\* What a step keeps, part by part.
LEMMA TypesStepped ==
  ASSUME HoInv, NEW o \in Outcomes, NEW row \in HoRows, Stepped(o, row), Len(rows) \in Nat, Added(row)
  PROVE  HoTypes' \/ ruling' = "refused"
<1>1. HoTypes
  BY DEF HoInv
<1>2. LastFrame \in Nat \ {0} /\ refFrame \in 0 .. LastFrame /\ life \in Nat
  BY <1>1, HoldoutAssumption DEF HoTypes
<1>3. /\ row.reset \in BOOLEAN /\ row.wrap \in BOOLEAN /\ row.next \in 0 .. LastFrame /\ row.state \in Robot
  BY DEF HoRows
<1>4. kind' \in {"native", "tail", "trial"} /\ nativeRows' \in Seq(HoRows)
  BY <1>1 DEF HoTypes, Stepped
<1>5. refFrame' \in 0 .. LastFrame /\ life' \in Nat
  BY <1>2, <1>3 DEF Stepped, Robot
<1>6. shown' \in Seq(0 .. LastFrame)
  <2>1. <<>> \in Seq(0 .. LastFrame) /\ row.state.shown \in Seq(0 .. LastFrame)
    BY <1>3, EmptySeq DEF Robot
  <2> QED BY <2>1 DEF Stepped
<1>7. rows' \in Seq(HoRows)
  BY <1>1, AppendProperties DEF HoTypes, Stepped
<1>8. /\ tail' = [tick |-> tail'.tick, firstDone |-> tail'.firstDone, seen |-> tail'.seen]
      /\ tail'.tick \in Nat /\ tail'.firstDone \in Nat \cup {Never} /\ tail'.seen \in BOOLEAN
  <2>1. CASE row.reset
    BY <2>1 DEF Stepped, NoTail
  <2>2. CASE ~row.reset
    <3>1. tail' = Ending(o).tail
      BY <2>2 DEF Stepped
    <3> QED BY <3>1, <1>1, EndingIs
  <2> QED BY <2>1, <2>2
<1>9. telemetry' \in [episode : Nat, attempt : Nat, airborne : BOOLEAN, inversion : BOOLEAN, stable : Nat, recorded : BOOLEAN]
  <2>1. /\ telemetry = [episode |-> telemetry.episode, attempt |-> telemetry.attempt, airborne |-> telemetry.airborne,
                        inversion |-> telemetry.inversion, stable |-> telemetry.stable, recorded |-> telemetry.recorded]
        /\ telemetry.episode \in Nat /\ telemetry.attempt \in Nat /\ telemetry.airborne \in BOOLEAN
        /\ telemetry.inversion \in BOOLEAN /\ telemetry.stable \in Nat /\ telemetry.recorded \in BOOLEAN
    BY <1>1 DEF HoTypes
  <2>2. telemetry' = Observe(telemetry, o, refFrame, row.reset, row.wrap).next
    BY DEF Stepped
  <2>3. PICK stable, landing :
           /\ stable = IF StableFrame(telemetry, o, refFrame, row.reset, row.wrap) THEN telemetry.stable + 1 ELSE 0
           /\ landing = (stable >= LandingFrames /\ ~telemetry.recorded)
    OBVIOUS
  <2>4. Observe(telemetry, o, refFrame, row.reset, row.wrap).next =
          IF row.reset \/ row.wrap
          THEN [NoTelemetry EXCEPT !.episode = telemetry.episode + IF row.reset THEN 1 ELSE 0, !.attempt = telemetry.attempt + 1]
          ELSE [telemetry EXCEPT !.airborne = @ \/ o.flying, !.inversion = @ \/ ~o.upright, !.stable = stable,
                                 !.recorded = @ \/ landing]
    BY <2>3, Zenon DEF Observe
  <2>5. stable \in Nat
    BY <2>1, <2>3
  <2>6. CASE row.reset \/ row.wrap
    <3>1. PICK ep : ep = telemetry.episode + IF row.reset THEN 1 ELSE 0
      OBVIOUS
    <3>2. ep \in Nat
      BY <3>1, <2>1
    <3>3. telemetry' = [NoTelemetry EXCEPT !.episode = ep, !.attempt = telemetry.attempt + 1]
      BY <3>1, <2>2, <2>4, <2>6, Zenon
    <3>4. telemetry' = [episode |-> ep, attempt |-> telemetry.attempt + 1, airborne |-> FALSE, inversion |-> FALSE, stable |-> 0,
                        recorded |-> FALSE]
      BY <3>3 DEF NoTelemetry
    <3> QED BY <3>2, <3>4, <2>1
  <2>7. CASE ~(row.reset \/ row.wrap)
    <3>1. PICK a, b, c : a = (telemetry.airborne \/ o.flying) /\ b = (telemetry.inversion \/ ~o.upright)
                         /\ c = (telemetry.recorded \/ landing)
      OBVIOUS
    <3>2. a \in BOOLEAN /\ b \in BOOLEAN /\ c \in BOOLEAN
      BY <3>1, Zenon
    <3>3. telemetry' = [telemetry EXCEPT !.airborne = a, !.inversion = b, !.stable = stable, !.recorded = c]
      BY <3>1, <2>2, <2>4, <2>7, Zenon
    <3>4. telemetry' = [episode |-> telemetry.episode, attempt |-> telemetry.attempt, airborne |-> a, inversion |-> b,
                        stable |-> stable, recorded |-> c]
      BY <3>3, <2>1
    <3> QED BY <3>2, <3>4, <2>1, <2>5
  <2> QED BY <2>6, <2>7
<1>10. ruling' \in {"running", "refused", "censored", "scored", "verified", "success", "failure"}
  BY DEF Stepped
<1> QED BY <1>4, <1>5, <1>6, <1>7, <1>8, <1>9, <1>10 DEF HoTypes

LEMMA ChainStepped ==
  ASSUME HoInv, NEW o \in Outcomes, NEW row \in HoRows, Stepped(o, row), Len(rows) \in Nat, Added(row), RowAlone(row),
         row.reset => ~row.wrap
  PROVE  HoChain'
<1>1. HoChain /\ HoTypes
  BY DEF HoInv
<1>2. Len(rows) = 0 => refFrame = 0 /\ life = 0 /\ shown = <<>>
  BY <1>1 DEF HoChain, Present
<1>3. row.frame = refFrame /\ row.life = life /\ row.seen = Append(shown, refFrame)
  BY DEF Stepped
<1>4. \A i \in 1 .. Len(rows)' : RowAlone(rows'[i])
  <2> SUFFICES ASSUME NEW i \in 1 .. Len(rows)' PROVE RowAlone(rows'[i])
    OBVIOUS
  <2>1. CASE i \in 1 .. Len(rows)
    <3>1. RowAlone(rows[i])
      BY <2>1, <1>1 DEF HoChain, Chain
    <3>2. rows'[i] = rows[i]
      BY <2>1 DEF Added
    <3> QED BY <3>1, <3>2
  <2>2. CASE i = Len(rows) + 1
    BY <2>2 DEF Added
  <2> QED BY <2>1, <2>2 DEF Added
<1>5. Len(rows)' > 0 => rows'[1].frame = 0 /\ rows'[1].life = 0 /\ rows'[1].seen = <<0>>
  <2>1. CASE Len(rows) = 0
    <3>1. Append(shown, refFrame) = <<0>>
      <4>1. Append(<<>>, 0) = <<0>>
        OBVIOUS
      <4> QED BY <4>1, <2>1, <1>2
    <3>2. rows'[1] = row
      BY <2>1 DEF Added
    <3> QED BY <2>1, <3>1, <3>2, <1>2, <1>3
  <2>2. CASE Len(rows) > 0
    <3>1. rows'[1] = rows[1]
      BY <2>2 DEF Added
    <3> QED BY <2>2, <3>1, <1>1 DEF HoChain, Chain
  <2> QED BY <2>1, <2>2
<1>6. \A i \in 2 .. Len(rows)' : Follows(rows'[i], rows'[i - 1])
  <2> SUFFICES ASSUME NEW i \in 2 .. Len(rows)' PROVE Follows(rows'[i], rows'[i - 1])
    OBVIOUS
  <2>0. i - 1 \in 1 .. Len(rows) /\ rows'[i - 1] = rows[i - 1]
    BY DEF Added
  <2>1. CASE i \in 2 .. Len(rows)
    <3>1. Follows(rows[i], rows[i - 1])
      BY <2>1, <1>1 DEF HoChain, Chain
    <3>2. rows'[i] = rows[i]
      BY <2>1 DEF Added
    <3> QED BY <2>0, <3>1, <3>2
  <2>2. CASE i = Len(rows) + 1
    <3>1. rows'[i] = row /\ i - 1 = Len(rows)
      BY <2>2 DEF Added
    <3>2. PICK before : before = rows[i - 1]
      OBVIOUS
    <3>3. IF before.reset THEN refFrame = 0 /\ life = before.state.life + 1 /\ shown = <<>>
          ELSE refFrame = before.next /\ life = before.state.life /\ shown = before.state.shown
      BY <2>0, <3>1, <3>2, <1>1 DEF HoChain, Present
    <3>4. Append(<<>>, 0) = <<0>>
      OBVIOUS
    <3>5. Follows(row, before)
      BY <3>3, <3>4, <1>3 DEF Follows
    <3> QED BY <2>0, <3>1, <3>2, <3>5
  <2> QED BY <2>1, <2>2 DEF Added
<1>7. Chain(rows)'
  BY <1>4, <1>5, <1>6 DEF Chain
<1>8. Present'
  <2>1. rows'[Len(rows)'] = row /\ Len(rows)' # 0
    BY DEF Added
  <2>2. row.reset => row.state.life = life
    BY <1>3 DEF RowAlone
  <2>3. /\ refFrame' = (IF row.reset THEN 0 ELSE row.next) /\ life' = (IF row.reset THEN life + 1 ELSE row.state.life)
        /\ shown' = (IF row.reset THEN <<>> ELSE row.state.shown)
    BY DEF Stepped
  <2> QED BY <2>1, <2>2, <2>3 DEF Present
<1> QED BY <1>7, <1>8 DEF HoChain

LEMMA NativeStepped ==
  ASSUME HoInv, NEW o \in Outcomes, NEW row \in HoRows, Stepped(o, row), Len(rows) \in Nat, Added(row)
  PROVE  HoNative'
<1>1. HoNative /\ HoTypes
  BY DEF HoInv
<1>2. CASE kind = "native"
  <2>1. tail = NoTail /\ \A i \in 1 .. Len(rows) : NativeRow(rows[i])
    BY <1>1, <1>2 DEF HoNative
  <2>2. /\ Ending(o).tail = tail /\ Ending(o).after = Never
        /\ Ending(o).terminated = o.terminated /\ Ending(o).truncated = o.truncated
    BY <1>1, <1>2, EndingIs
  <2>3. tail' = NoTail
    BY <2>1, <2>2 DEF Stepped
  <2>4. ~Holds(Ending(o).tail.firstDone)
    BY <1>2 DEF Holds
  <2>5. NativeRow(row)
    <3>1. row.terminated = row.outcome.terminated /\ row.truncated = row.outcome.truncated /\ row.after = Never
      BY <2>2 DEF Stepped
    <3>2. row.next = IF row.reset THEN row.frame ELSE IF row.frame = LastFrame THEN 0 ELSE row.frame + 1
      BY <2>4 DEF Stepped
    <3> QED BY <3>1, <3>2 DEF NativeRow
  <2>6. \A i \in 1 .. Len(rows)' : NativeRow(rows'[i])
    BY <2>1, <2>5 DEF Added
  <2> QED BY <1>2, <2>3, <2>6 DEF HoNative, Stepped
<1>3. CASE kind # "native"
  BY <1>1, <1>3 DEF HoNative, Stepped
<1> QED BY <1>2, <1>3

LEMMA LivesStepped ==
  ASSUME HoInv, NEW o \in Outcomes, NEW row \in HoRows, Stepped(o, row), Len(rows) \in Nat, Added(row), RowAlone(row),
         row.reset => ~row.wrap
  PROVE  HoLives' /\ life <= life' /\ (row.reset \/ row.wrap => life' = life + 1) /\ (~row.reset /\ ~row.wrap => life' = life)
<1>1. HoLives /\ HoTypes /\ HoChain
  BY DEF HoInv
<1>2. row.life = life /\ life \in Nat
  BY <1>1 DEF Stepped, HoTypes
<1>3. row.state.life = IF row.wrap THEN life + 1 ELSE life
  BY <1>2 DEF RowAlone
<1>4. life' = IF row.reset THEN life + 1 ELSE row.state.life
  BY DEF Stepped
<1>5. (row.reset \/ row.wrap => life' = life + 1) /\ (~row.reset /\ ~row.wrap => life' = life)
  BY <1>3, <1>4
<1>6. life <= life' /\ row.state.life <= life' /\ life' \in Nat
  BY <1>2, <1>3, <1>4
<1>7. rows \in Seq(HoRows) /\ \A i \in 1 .. Len(rows) : rows[i].life \in Nat /\ rows[i].state.life \in Nat
  <2>1. rows \in Seq(HoRows)
    BY <1>1 DEF HoTypes
  <2>2. \A i \in 1 .. Len(rows) : rows[i] \in HoRows
    BY <2>1
  <2> QED BY <2>1, <2>2 DEF HoRows, Robot
<1>8. \A i \in 1 .. Len(rows)' : rows'[i].life <= life' /\ rows'[i].state.life <= life'
  <2> SUFFICES ASSUME NEW i \in 1 .. Len(rows)' PROVE rows'[i].life <= life' /\ rows'[i].state.life <= life'
    OBVIOUS
  <2>1. CASE i \in 1 .. Len(rows)
    <3>1. rows'[i] = rows[i] /\ rows[i].life <= life /\ rows[i].state.life <= life
      BY <2>1, <1>1 DEF Added, HoLives
    <3> QED BY <3>1, <2>1, <1>2, <1>6, <1>7
  <2>2. CASE i = Len(rows) + 1
    BY <2>2, <1>2, <1>6 DEF Added
  <2> QED BY <2>1, <2>2 DEF Added
<1>9. \A i, j \in 1 .. Len(rows)' :
          i <= j /\ (\A k \in i .. j - 1 : ~rows'[k].reset /\ ~rows'[k].wrap) => rows'[i].life = rows'[j].life
  <2> SUFFICES ASSUME NEW i \in 1 .. Len(rows)', NEW j \in 1 .. Len(rows)', i <= j,
                      \A k \in i .. j - 1 : ~rows'[k].reset /\ ~rows'[k].wrap
               PROVE  rows'[i].life = rows'[j].life
    OBVIOUS
  <2>1. CASE j \in 1 .. Len(rows)
    <3>1. i \in 1 .. Len(rows) /\ rows'[i] = rows[i] /\ rows'[j] = rows[j]
      BY <2>1 DEF Added
    <3>2. \A k \in i .. j - 1 : rows'[k] = rows[k]
      BY <2>1, <3>1 DEF Added
    <3>3. \A k \in i .. j - 1 : ~rows[k].reset /\ ~rows[k].wrap
      BY <3>2
    <3> QED BY <2>1, <3>1, <3>3, <1>1 DEF HoLives
  <2>2. CASE j = Len(rows) + 1 /\ i \in 1 .. Len(rows)
    <3>1. PICK n \in 1 .. Len(rows) : n = Len(rows)
      BY <2>2
    <3>2. \A k \in i .. n - 1 : rows'[k] = rows[k] /\ ~rows'[k].reset /\ ~rows'[k].wrap
      BY <2>2, <3>1 DEF Added
    <3>3. rows[i].life = rows[n].life
      <4>1. \A k \in i .. n - 1 : ~rows[k].reset /\ ~rows[k].wrap
        BY <3>2
      <4> QED BY <4>1, <2>2, <3>1, <1>1 DEF HoLives
    <3>4. rows'[n] = rows[n] /\ ~rows'[n].reset /\ ~rows'[n].wrap
      BY <2>2, <3>1 DEF Added
    <3>5. ~rows[n].reset /\ ~rows[n].wrap
      BY <3>4
    <3>6. life = rows[n].state.life
      BY <3>1, <3>5, <1>1 DEF HoChain, Present
    <3>7. rows[n].state.life = rows[n].life
      <4>1. RowAlone(rows[n])
        BY <3>1, <1>1 DEF HoChain, Chain
      <4> QED BY <4>1, <3>5 DEF RowAlone
    <3>8. rows'[i] = rows[i] /\ rows'[j] = row
      BY <2>2 DEF Added
    <3> QED BY <3>3, <3>6, <3>7, <3>8, <1>2
  <2>3. CASE i = Len(rows) + 1
    <3>1. i = j
      BY <2>3 DEF Added
    <3> QED BY <3>1
  <2> QED BY <2>1, <2>2, <2>3 DEF Added
<1> QED BY <1>5, <1>6, <1>8, <1>9 DEF HoLives

\* The first frames of the clip, as they are shown.
LEMMA ShownUpTo ==
  ASSUME NEW n \in Nat
  PROVE  UpTo(0) = <<>> /\ Append(UpTo(n), n) = UpTo(n + 1)
<1>1. \A m \in Nat : UpTo(m) \in Seq(Int) /\ Len(UpTo(m)) = m /\ \A j \in 1 .. m : UpTo(m)[j] = j - 1
  <2> TAKE m \in Nat
  <2>1. UpTo(m) \in Seq(Int)
    BY IsASeq DEF UpTo
  <2>2. DOMAIN UpTo(m) = 1 .. m
    BY DEF UpTo
  <2>3. Len(UpTo(m)) = m
    BY <2>1, <2>2, LenProperties
  <2> QED BY <2>1, <2>3 DEF UpTo
<1>2. UpTo(0) = <<>>
  BY <1>1, EmptySeq
<1>3. Append(UpTo(n), n) \in Seq(Int) /\ Len(Append(UpTo(n), n)) = n + 1
      /\ (\A j \in 1 .. n : Append(UpTo(n), n)[j] = UpTo(n)[j]) /\ Append(UpTo(n), n)[n + 1] = n
  <2>1. PICK s : s = UpTo(n)
    OBVIOUS
  <2>2. s \in Seq(Int) /\ Len(s) = n /\ n \in Int
    BY <2>1, <1>1
  <2>3. /\ Append(s, n) \in Seq(Int) /\ Len(Append(s, n)) = n + 1
        /\ (\A j \in 1 .. n : Append(s, n)[j] = s[j]) /\ Append(s, n)[n + 1] = n
    BY <2>2, AppendProperties
  <2> QED BY <2>1, <2>3
<1>4. \A j \in 1 .. n + 1 : Append(UpTo(n), n)[j] = UpTo(n + 1)[j]
  <2> TAKE j \in 1 .. n + 1
  <2>1. UpTo(n + 1)[j] = j - 1
    BY <1>1
  <2>2. CASE j \in 1 .. n
    BY <2>1, <2>2, <1>1, <1>3
  <2>3. CASE j = n + 1
    BY <2>1, <2>3, <1>3
  <2>4. j \in 1 .. n \/ j = n + 1
    OBVIOUS
  <2> QED BY <2>2, <2>3, <2>4
<1>5. UpTo(n + 1) \in Seq(Int) /\ Len(UpTo(n + 1)) = n + 1
  BY <1>1
<1>6. Append(UpTo(n), n) = UpTo(n + 1)
  BY <1>3, <1>4, <1>5, SeqEqual
<1> QED BY <1>2, <1>6

LEMMA FirstStepped ==
  ASSUME HoInv, NEW o \in Outcomes, NEW row \in HoRows, Stepped(o, row), Len(rows) \in Nat, Added(row), RowAlone(row),
         HoNative'
  PROVE  HoFirst'
<1> SUFFICES ASSUME kind = "native" PROVE HoFirst'
  BY DEF HoFirst, Stepped
<1>1. /\ \A i \in 1 .. Len(rows) : i <= HorizonSteps /\ NoEndBefore(i) =>
             rows[i].frame = i - 1 /\ rows[i].life = 0 /\ rows[i].seen = UpTo(i) /\ rows[i].wrap = FALSE
      /\ Len(rows) <= HorizonSteps /\ NoEndBefore(Len(rows) + 1) =>
             refFrame = Len(rows) /\ life = 0 /\ shown = UpTo(Len(rows))
  BY DEF HoInv, HoFirst
<1>2. LastFrame \in Nat /\ HorizonSteps \in 1 .. LastFrame
  BY HoldoutAssumption
<1>3. PICK n \in Nat : n = Len(rows) + 1
  OBVIOUS
<1>4. Len(rows)' = n /\ rows'[n] = row /\ \A i \in 1 .. n - 1 : rows'[i] = rows[i]
  BY <1>3 DEF Added
<1>5. ASSUME n <= HorizonSteps, NoEndBefore(n)'
      PROVE  row.frame = n - 1 /\ row.life = 0 /\ row.seen = UpTo(n) /\ row.wrap = FALSE
             /\ (~row.reset => row.next = n)
  <2>1. NoEndBefore(Len(rows) + 1)
    <3>1. \A k \in 1 .. n - 1 : ~rows'[k].reset
      BY <1>5 DEF NoEndBefore
    <3>2. \A k \in 1 .. n - 1 : ~rows[k].reset
      BY <3>1, <1>4
    <3> QED BY <3>2, <1>3 DEF NoEndBefore
  <2>2. refFrame = n - 1 /\ life = 0 /\ shown = UpTo(n - 1)
    BY <2>1, <1>1, <1>3, <1>5, <1>2
  <2>3. n - 1 \in Nat /\ n - 1 + 1 = n
    BY <1>3
  <2>4. Append(UpTo(n - 1), n - 1) = UpTo(n)
    BY <2>3, ShownUpTo
  <2>5. row.frame = n - 1 /\ row.life = 0 /\ row.seen = UpTo(n)
    BY <2>2, <2>4 DEF Stepped
  <2>6. NativeRow(row)
    <3>1. \A i \in 1 .. Len(rows)' : NativeRow(rows'[i])
      BY DEF HoNative, Stepped
    <3> QED BY <3>1, <1>4, <1>3
  <2>7. row.next = IF row.reset THEN n - 1 ELSE n
    BY <2>5, <2>6, <1>2, <1>5 DEF NativeRow
  <2>8. row.wrap = FALSE
    <3>1. ~(row.next < row.frame)
      BY <2>5, <2>7
    <3>2. row.wrap \in BOOLEAN /\ ~row.wrap
      BY <3>1, Zenon DEF RowAlone, HoRows
    <3> QED BY <3>2
  <2> QED BY <2>5, <2>7, <2>8
<1>6. ASSUME NEW i \in 1 .. n - 1, i <= HorizonSteps, NoEndBefore(i)'
      PROVE  rows'[i].frame = i - 1 /\ rows'[i].life = 0 /\ rows'[i].seen = UpTo(i) /\ rows'[i].wrap = FALSE
  <2>1. \A k \in 1 .. i - 1 : ~rows'[k].reset /\ rows'[k] = rows[k]
    BY <1>4, <1>6 DEF NoEndBefore
  <2>2. NoEndBefore(i)
    BY <2>1 DEF NoEndBefore
  <2> QED BY <2>2, <1>1, <1>3, <1>4, <1>6
<1>7. ASSUME n <= HorizonSteps, NoEndBefore(n + 1)'
      PROVE  refFrame' = n /\ life' = 0 /\ shown' = UpTo(n)
  <2>1. NoEndBefore(n)'
    BY <1>7 DEF NoEndBefore
  <2>2. ~row.reset
    BY <1>3, <1>4, <1>7 DEF NoEndBefore
  <2>3. row.life = 0 /\ row.seen = UpTo(n) /\ row.wrap = FALSE /\ row.next = n
    BY <2>1, <2>2, <1>5, <1>7
  <2>4. row.state = [life |-> 0, shown |-> UpTo(n)]
    BY <2>3 DEF RowAlone
  <2> QED BY <2>2, <2>3, <2>4 DEF Stepped
<1>8. \A i \in 1 .. Len(rows)' : i <= HorizonSteps /\ NoEndBefore(i)' =>
          rows'[i].frame = i - 1 /\ rows'[i].life = 0 /\ rows'[i].seen = UpTo(i) /\ rows'[i].wrap = FALSE
  <2> SUFFICES ASSUME NEW i \in 1 .. Len(rows)', i <= HorizonSteps, NoEndBefore(i)'
               PROVE rows'[i].frame = i - 1 /\ rows'[i].life = 0 /\ rows'[i].seen = UpTo(i) /\ rows'[i].wrap = FALSE
    OBVIOUS
  <2>1. CASE i \in 1 .. n - 1
    BY <2>1, <1>6
  <2>2. CASE i = n
    BY <2>2, <1>4, <1>5
  <2>3. i \in 1 .. n - 1 \/ i = n
    BY <1>3, <1>4
  <2> QED BY <2>1, <2>2, <2>3, Zenon
<1>9. Len(rows)' <= HorizonSteps /\ NoEndBefore(Len(rows) + 1)' =>
          refFrame' = Len(rows)' /\ life' = 0 /\ shown' = UpTo(Len(rows)')
  BY <1>4, <1>7
<1> QED BY <1>8, <1>9 DEF HoFirst

\* What the telemetry makes of a step.
Notes(ob, o, at, done, wrapped) ==
    /\ done \/ wrapped => ob.next.airborne = FALSE /\ ob.next.inversion = FALSE /\ ob.next.stable = 0 /\ ob.next.recorded = FALSE
    /\ ~done /\ ~wrapped =>
         /\ ob.next.airborne = (telemetry.airborne \/ o.flying)
         /\ ob.next.inversion = (telemetry.inversion \/ ~o.upright)
         /\ ob.next.stable = IF StableFrame(telemetry, o, at, done, wrapped) THEN telemetry.stable + 1 ELSE 0
         /\ ob.next.recorded = (telemetry.recorded \/ ob.landing)
    /\ ob.landing => /\ StableFrame(telemetry, o, at, done, wrapped) /\ telemetry.stable + 1 >= LandingFrames
                     /\ ~telemetry.recorded

LEMMA Observed ==
  ASSUME HoTypes, NEW o \in Outcomes, NEW at, NEW done \in BOOLEAN, NEW wrapped \in BOOLEAN,
         NEW ob, ob = Observe(telemetry, o, at, done, wrapped)
  PROVE  Notes(ob, o, at, done, wrapped)
<1>1. /\ telemetry = [episode |-> telemetry.episode, attempt |-> telemetry.attempt, airborne |-> telemetry.airborne,
                      inversion |-> telemetry.inversion, stable |-> telemetry.stable, recorded |-> telemetry.recorded]
      /\ telemetry.stable \in Nat /\ telemetry.episode \in Nat /\ telemetry.attempt \in Nat
  BY DEF HoTypes
<1>2. LandingFrames \in Nat \ {0}
  BY HoldoutAssumption
<1>3. PICK stable, landing :
         /\ stable = IF StableFrame(telemetry, o, at, done, wrapped) THEN telemetry.stable + 1 ELSE 0
         /\ landing = (stable >= LandingFrames /\ ~telemetry.recorded)
  OBVIOUS
<1>4. /\ ob.landing = landing
      /\ ob.next = IF done \/ wrapped
                   THEN [NoTelemetry EXCEPT !.episode = telemetry.episode + IF done THEN 1 ELSE 0,
                                            !.attempt = telemetry.attempt + 1]
                   ELSE [telemetry EXCEPT !.airborne = @ \/ o.flying, !.inversion = @ \/ ~o.upright, !.stable = stable,
                                          !.recorded = @ \/ landing]
  <2>1. ob = [landing |-> landing,
              next |-> IF done \/ wrapped
                       THEN [NoTelemetry EXCEPT !.episode = telemetry.episode + IF done THEN 1 ELSE 0,
                                                !.attempt = telemetry.attempt + 1]
                       ELSE [telemetry EXCEPT !.airborne = @ \/ o.flying, !.inversion = @ \/ ~o.upright,
                                              !.stable = stable, !.recorded = @ \/ landing]]
    BY <1>3, Zenon DEF Observe
  <2>2. PICK nx : nx = IF done \/ wrapped
                       THEN [NoTelemetry EXCEPT !.episode = telemetry.episode + IF done THEN 1 ELSE 0,
                                                !.attempt = telemetry.attempt + 1]
                       ELSE [telemetry EXCEPT !.airborne = @ \/ o.flying, !.inversion = @ \/ ~o.upright,
                                              !.stable = stable, !.recorded = @ \/ landing]
    OBVIOUS
  <2>3. ob = [landing |-> landing, next |-> nx]
    BY <2>1, <2>2, Zenon
  <2>4. ob.landing = landing /\ ob.next = nx
    BY <2>3
  <2> QED BY <2>2, <2>4, Zenon
<1>5. ASSUME done \/ wrapped
      PROVE  ob.next.airborne = FALSE /\ ob.next.inversion = FALSE /\ ob.next.stable = 0 /\ ob.next.recorded = FALSE
  <2>1. PICK ep : ep = telemetry.episode + IF done THEN 1 ELSE 0
    OBVIOUS
  <2>2. ob.next = [NoTelemetry EXCEPT !.episode = ep, !.attempt = telemetry.attempt + 1]
    BY <1>4, <1>5, <2>1, Zenon
  <2> QED BY <2>2 DEF NoTelemetry
<1>6. ASSUME ~done /\ ~wrapped
      PROVE  /\ ob.next.airborne = (telemetry.airborne \/ o.flying)
             /\ ob.next.inversion = (telemetry.inversion \/ ~o.upright)
             /\ ob.next.stable = stable
             /\ ob.next.recorded = (telemetry.recorded \/ landing)
  <2>1. PICK a, b, c : a = (telemetry.airborne \/ o.flying) /\ b = (telemetry.inversion \/ ~o.upright)
                       /\ c = (telemetry.recorded \/ landing)
    OBVIOUS
  <2>2. ob.next = [telemetry EXCEPT !.airborne = a, !.inversion = b, !.stable = stable, !.recorded = c]
    BY <2>1, <1>4, <1>6, Zenon
  <2>3. ob.next = [episode |-> telemetry.episode, attempt |-> telemetry.attempt, airborne |-> a, inversion |-> b,
                   stable |-> stable, recorded |-> c]
    BY <2>2, <1>1
  <2>4. ob.next.airborne = a /\ ob.next.inversion = b /\ ob.next.stable = stable /\ ob.next.recorded = c
    BY <2>3
  <2> QED BY <2>1, <2>4, Zenon
<1>7. landing \in BOOLEAN
  BY <1>3, Zenon
<1>8. ASSUME landing
      PROVE  /\ StableFrame(telemetry, o, at, done, wrapped) /\ telemetry.stable + 1 >= LandingFrames
             /\ ~telemetry.recorded
  <2>1. stable >= LandingFrames /\ ~telemetry.recorded
    BY <1>3, <1>8, Zenon
  <2>2. ~StableFrame(telemetry, o, at, done, wrapped) => stable = 0
    BY <1>3, Zenon
  <2>3. StableFrame(telemetry, o, at, done, wrapped)
    BY <2>1, <2>2, <1>2
  <2> QED BY <2>1, <2>3, <1>3
<1> QED BY <1>3, <1>4, <1>5, <1>6, <1>7, <1>8, Zenon DEF Notes

LEMMA NoEndYet ==
  ASSUME HoTypes, NEW o \in Outcomes, Ending(o).tail.firstDone = Never
  PROVE  tail.firstDone = Never /\ Ending(o).after = Never
<1>1. tail.tick \in Nat /\ Never = -1
  BY DEF HoTypes, Never
<1>2. CASE kind = "native"
  BY <1>2, EndingIs
<1>3. CASE kind # "native"
  <2>1. /\ Ending(o).tail.firstDone = IF tail.firstDone = Never /\ (o.terminated \/ o.truncated) THEN tail.tick ELSE tail.firstDone
        /\ Ending(o).after = IF Ending(o).tail.firstDone = Never THEN Never ELSE tail.tick - Ending(o).tail.firstDone
    BY <1>3, EndingIs
  <2> QED BY <1>1, <2>1
<1> QED BY <1>2, <1>3

LEMMA TelemetryStepped ==
  ASSUME HoInv, NEW o \in Outcomes, NEW row \in HoRows, Stepped(o, row), Len(rows) \in Nat, Added(row),
         row.reset \/ row.wrap => life' = life + 1, ~row.reset /\ ~row.wrap => life' = life
  PROVE  HoTelemetry'
<1>1. HoTypes /\ HoTelemetry /\ HoLives
  BY DEF HoInv
<1>2. PICK n \in Nat : n = Len(rows)
  OBVIOUS
<1>3. Len(rows)' = n + 1 /\ rows'[n + 1] = row /\ \A i \in 1 .. n : rows'[i] = rows[i]
  BY <1>2 DEF Added
<1>4. row.reset \in BOOLEAN /\ row.wrap \in BOOLEAN /\ row.life = life /\ row.outcome = o /\ row.frame = refFrame /\ life \in Nat
  BY <1>1 DEF HoRows, Stepped, HoTypes
<1>5. PICK ob : ob = Observe(telemetry, o, refFrame, row.reset, row.wrap)
  OBVIOUS
<1>6. /\ row.reset \/ row.wrap => ob.next.airborne = FALSE /\ ob.next.inversion = FALSE /\ ob.next.stable = 0 /\ ob.next.recorded = FALSE
      /\ ~row.reset /\ ~row.wrap =>
           /\ ob.next.airborne = (telemetry.airborne \/ o.flying)
           /\ ob.next.inversion = (telemetry.inversion \/ ~o.upright)
           /\ ob.next.stable = IF StableFrame(telemetry, o, refFrame, row.reset, row.wrap) THEN telemetry.stable + 1 ELSE 0
           /\ ob.next.recorded = (telemetry.recorded \/ ob.landing)
  <2>1. Notes(ob, o, refFrame, row.reset, row.wrap)
    BY <1>1, <1>4, <1>5, Observed
  <2> QED BY <2>1, Zenon DEF Notes
<1>7. telemetry' = ob.next /\ row.landing = (ob.landing /\ Ending(o).tail.firstDone = Never)
  BY <1>5, Zenon DEF Stepped
<1>8. telemetry.stable \in Nat
  BY <1>1 DEF HoTypes
<1>9. CASE row.reset \/ row.wrap
  <2>1. telemetry'.airborne = FALSE /\ telemetry'.inversion = FALSE /\ telemetry'.stable = 0 /\ telemetry'.recorded = FALSE
    BY <1>6, <1>7, <1>9, Zenon
  <2>2. \A j \in 1 .. n + 1 : rows'[j].life # life'
    <3> TAKE j \in 1 .. n + 1
    <3>1. CASE j \in 1 .. n
      <4>1. rows'[j] = rows[j] /\ rows[j].life <= life
        BY <3>1, <1>1, <1>2, <1>3 DEF HoLives
      <4>2. rows[j] \in HoRows
        BY <3>1, <1>1, <1>2 DEF HoTypes
      <4>3. rows[j].life \in Nat
        BY <4>2 DEF HoRows
      <4> QED BY <4>1, <4>3, <1>4, <1>9
    <3>2. CASE j = n + 1
      BY <3>2, <1>3, <1>4, <1>9
    <3>3. j \in 1 .. n \/ j = n + 1
      BY <1>2
    <3> QED BY <3>1, <3>2, <3>3
  <2>3. \A j \in 1 .. n + 1 : ~Alive(j)'
    BY <2>2 DEF Alive
  <2>4. Len(rows)' - 0 + 1 > Len(rows)' /\ 0 <= Len(rows)'
    BY <1>3
  <2>5. telemetry'.stable <= Len(rows)' /\ \A j \in Len(rows)' - telemetry'.stable + 1 .. Len(rows)' : Steady(j)'
    BY <2>1, <2>4, <1>3
  <2> QED BY <2>1, <2>3, <2>5, <1>3 DEF HoTelemetry
<1>10. CASE ~row.reset /\ ~row.wrap
  <2>1. /\ telemetry'.airborne = (telemetry.airborne \/ o.flying) /\ telemetry'.inversion = (telemetry.inversion \/ ~o.upright)
        /\ telemetry'.stable = IF StableFrame(telemetry, o, refFrame, row.reset, row.wrap) THEN telemetry.stable + 1 ELSE 0
        /\ telemetry'.recorded = (telemetry.recorded \/ ob.landing)
    BY <1>6, <1>7, <1>10, Zenon
  <2>2. life' = life
    BY <1>10
  <2>3. \A j \in 1 .. n : (Alive(j)' <=> Alive(j)) /\ rows'[j] = rows[j] /\ (Steady(j)' <=> Steady(j))
    BY <2>2, <1>3 DEF Alive, Steady
  <2>4. Alive(n + 1)'
    BY <1>3, <1>4, <2>2 DEF Alive
  <2>5. telemetry'.airborne => \E j \in 1 .. n + 1 : Alive(j)' /\ rows'[j].outcome.flying
    <3>1. CASE telemetry.airborne
      <4>1. PICK j \in 1 .. n : Alive(j) /\ rows[j].outcome.flying
        BY <3>1, <1>1, <1>2 DEF HoTelemetry
      <4>2. j \in 1 .. n + 1 /\ Alive(j)' /\ rows'[j].outcome.flying
        BY <4>1, <2>3
      <4> QED BY <4>2
    <3>2. CASE o.flying
      <4>1. n + 1 \in 1 .. n + 1
        OBVIOUS
      <4> QED BY <3>2, <4>1, <2>4, <1>3, <1>4
    <3> QED BY <2>1, <3>1, <3>2
  <2>6. telemetry'.inversion => \E j \in 1 .. n + 1 : Alive(j)' /\ ~rows'[j].outcome.upright
    <3>1. CASE telemetry.inversion
      <4>1. PICK j \in 1 .. n : Alive(j) /\ ~rows[j].outcome.upright
        BY <3>1, <1>1, <1>2 DEF HoTelemetry
      <4>2. j \in 1 .. n + 1 /\ Alive(j)' /\ ~rows'[j].outcome.upright
        BY <4>1, <2>3
      <4> QED BY <4>2
    <3>2. CASE ~o.upright
      <4>1. n + 1 \in 1 .. n + 1
        OBVIOUS
      <4> QED BY <3>2, <4>1, <2>4, <1>3, <1>4
    <3> QED BY <2>1, <3>1, <3>2
  <2>7. telemetry'.stable <= n + 1 /\ \A j \in (n + 1) - telemetry'.stable + 1 .. n + 1 : Steady(j)'
    <3>1. CASE StableFrame(telemetry, o, refFrame, row.reset, row.wrap)
      <4>1. telemetry'.stable = telemetry.stable + 1
        BY <2>1, <3>1
      <4>2. telemetry.stable <= n /\ \A j \in n - telemetry.stable + 1 .. n : Steady(j)
        BY <1>1, <1>2 DEF HoTelemetry
      <4>3. Steady(n + 1)'
        BY <3>1, <2>4, <1>3, <1>4 DEF StableFrame, Steady
      <4>4. \A j \in (n + 1) - telemetry'.stable + 1 .. n + 1 : Steady(j)'
        <5> TAKE j \in (n + 1) - telemetry'.stable + 1 .. n + 1
        <5>1. j = n + 1 \/ (j \in 1 .. n /\ j \in n - telemetry.stable + 1 .. n)
          BY <4>1, <4>2, <1>8
        <5> QED BY <5>1, <4>2, <4>3, <2>3
      <4> QED BY <4>1, <4>2, <4>4, <1>8
    <3>2. CASE ~StableFrame(telemetry, o, refFrame, row.reset, row.wrap)
      <4>1. telemetry'.stable = 0
        BY <2>1, <3>2
      <4> QED BY <4>1
    <3> QED BY <3>1, <3>2
  <2>8. ~telemetry'.recorded => \A j \in 1 .. n + 1 : Alive(j)' => ~rows'[j].landing
    <3> SUFFICES ASSUME ~telemetry'.recorded, NEW j \in 1 .. n + 1, Alive(j)' PROVE ~rows'[j].landing
      OBVIOUS
    <3>1. ~telemetry.recorded /\ ~ob.landing
      BY <2>1, Zenon
    <3>2. j \in 1 .. n => ~rows[j].landing /\ rows'[j] = rows[j]
      BY <3>1, <2>3, <1>1, <1>2 DEF HoTelemetry
    <3>3. ~row.landing
      BY <3>1, <1>7, Zenon
    <3>4. j \in 1 .. n \/ j = n + 1
      OBVIOUS
    <3> QED BY <3>2, <3>3, <3>4, <1>3
  <2>9. tail'.firstDone = Never => \A j \in 1 .. n + 1 : Alive(j)' => rows'[j].after = Never
    <3> SUFFICES ASSUME tail'.firstDone = Never, NEW j \in 1 .. n + 1, Alive(j)' PROVE rows'[j].after = Never
      OBVIOUS
    <3>1. Ending(o).tail.firstDone = Never /\ row.after = Ending(o).after
      BY <1>10, Zenon DEF Stepped
    <3>2. tail.firstDone = Never /\ row.after = Never
      BY <3>1, <1>1, NoEndYet
    <3>3. j \in 1 .. n => rows[j].after = Never /\ rows'[j] = rows[j]
      BY <3>2, <2>3, <1>1, <1>2 DEF HoTelemetry
    <3>4. j \in 1 .. n \/ j = n + 1
      OBVIOUS
    <3> QED BY <3>2, <3>3, <3>4, <1>3
  <2> QED BY <2>5, <2>6, <2>7, <2>8, <2>9, <1>3 DEF HoTelemetry, Alive, Steady
<1> QED BY <1>9, <1>10

\* The clauses of LandingsReal for one row.
LandingReal(i) ==
    /\ \E j \in 1 .. i : rows[j].life = rows[i].life /\ rows[j].outcome.flying
    /\ \E j \in 1 .. i : rows[j].life = rows[i].life /\ ~rows[j].outcome.upright
    /\ \A j \in i - LandingFrames + 1 .. i :
          j \in 1 .. i /\ rows[j].life = rows[i].life /\ rows[j].frame >= LandingFrom /\ rows[j].outcome.upright
          /\ ~rows[j].outcome.flying
    /\ \A j \in 1 .. i : rows[j].life = rows[i].life /\ j # i => ~rows[j].landing
    /\ \A j \in 1 .. i : rows[j].life = rows[i].life => rows[j].after = Never

EachLandingReal == \A i \in DOMAIN rows : rows[i].landing => LandingReal(i)

LEMMA LandingsOf == LandingsReal <=> EachLandingReal
<1>1. ASSUME NEW i \in DOMAIN rows
      PROVE  LandingReal(i) <=>
               LET before == {j \in 1 .. i : rows[j].life = rows[i].life}
               IN /\ \E j \in before : rows[j].outcome.flying
                  /\ \E j \in before : ~rows[j].outcome.upright
                  /\ \A j \in i - LandingFrames + 1 .. i :
                        j \in before /\ rows[j].frame >= LandingFrom /\ rows[j].outcome.upright /\ ~rows[j].outcome.flying
                  /\ \A j \in before \ {i} : ~rows[j].landing
                  /\ \A j \in before : rows[j].after = Never
  BY Zenon DEF LandingReal
<1> QED BY <1>1, Zenon DEF LandingsReal, EachLandingReal

LEMMA LandingsStepped ==
  ASSUME HoInv, NEW o \in Outcomes, NEW row \in HoRows, Stepped(o, row), Len(rows) \in Nat, Added(row)
  PROVE  LandingsReal'
<1>1. HoTypes /\ HoTelemetry /\ \A i \in DOMAIN rows : rows[i].landing => LandingReal(i)
  BY LandingsOf DEF HoInv, EachLandingReal
<1>2. PICK n \in Nat : n = Len(rows)
  OBVIOUS
<1>3. Len(rows)' = n + 1 /\ rows'[n + 1] = row /\ \A i \in 1 .. n : rows'[i] = rows[i]
  BY <1>2 DEF Added
<1>4. DOMAIN rows = 1 .. n /\ DOMAIN rows' = 1 .. n + 1
  <2>1. rows \in Seq(HoRows) /\ rows' = Append(rows, row)
    BY <1>1 DEF HoTypes, Stepped
  <2>2. rows' \in Seq(HoRows)
    BY <2>1, AppendProperties
  <2> QED BY <2>1, <2>2, <1>2, <1>3, LenProperties
<1>5. row.life = life /\ row.outcome = o /\ row.frame = refFrame /\ row.reset \in BOOLEAN /\ row.wrap \in BOOLEAN
  BY DEF Stepped, HoRows
<1>6. ASSUME NEW i \in 1 .. n, rows'[i].landing PROVE LandingReal(i)'
  <2>1. \A j \in 1 .. i : rows'[j] = rows[j]
    BY <1>3
  <2>2. LandingReal(i)
    BY <1>1, <1>3, <1>4, <1>6
  <2>3. rows'[i] = rows[i]
    BY <1>3
  <2> QED BY <2>1, <2>2, <2>3 DEF LandingReal
<1>7. ASSUME row.landing PROVE LandingReal(n + 1)'
  <2>1. PICK ob : ob = Observe(telemetry, o, refFrame, row.reset, row.wrap)
    OBVIOUS
  <2>2. ob.landing /\ Ending(o).tail.firstDone = Never /\ row.after = Ending(o).after
    <3>1. row.landing = (ob.landing /\ Ending(o).tail.firstDone = Never) /\ row.after = Ending(o).after
      BY <2>1, Zenon DEF Stepped
    <3> QED BY <3>1, <1>7, Zenon
  <2>3. StableFrame(telemetry, o, refFrame, row.reset, row.wrap) /\ telemetry.stable + 1 >= LandingFrames /\ ~telemetry.recorded
    <3>1. Notes(ob, o, refFrame, row.reset, row.wrap)
      BY <2>1, <1>1, <1>5, Observed
    <3> QED BY <2>2, <3>1, Zenon DEF Notes
  <2>4. tail.firstDone = Never /\ row.after = Never
    BY <2>2, <1>1, NoEndYet
  <2>5. telemetry.airborne /\ telemetry.inversion /\ refFrame >= LandingFrom /\ o.upright /\ ~o.flying
    BY <2>3 DEF StableFrame
  <2>6. \A j \in 1 .. n : rows'[j] = rows[j] /\ (Alive(j) <=> rows'[j].life = row.life)
    BY <1>3, <1>5 DEF Alive
  <2>7. \E j \in 1 .. n + 1 : rows'[j].life = row.life /\ rows'[j].outcome.flying
    <3>1. PICK j \in 1 .. n : Alive(j) /\ rows[j].outcome.flying
      BY <2>5, <1>1, <1>2 DEF HoTelemetry
    <3>2. j \in 1 .. n + 1
      OBVIOUS
    <3> QED BY <3>1, <3>2, <2>6
  <2>8. \E j \in 1 .. n + 1 : rows'[j].life = row.life /\ ~rows'[j].outcome.upright
    <3>1. PICK j \in 1 .. n : Alive(j) /\ ~rows[j].outcome.upright
      BY <2>5, <1>1, <1>2 DEF HoTelemetry
    <3>2. j \in 1 .. n + 1
      OBVIOUS
    <3> QED BY <3>1, <3>2, <2>6
  <2>9. \A j \in (n + 1) - LandingFrames + 1 .. n + 1 :
          j \in 1 .. n + 1 /\ rows'[j].life = row.life /\ rows'[j].frame >= LandingFrom /\ rows'[j].outcome.upright
          /\ ~rows'[j].outcome.flying
    <3> TAKE j \in (n + 1) - LandingFrames + 1 .. n + 1
    <3>1. LandingFrames \in Nat /\ telemetry.stable \in Nat /\ telemetry.stable <= n
          /\ \A k \in n - telemetry.stable + 1 .. n : Steady(k)
      BY <1>1, <1>2, HoldoutAssumption DEF HoTypes, HoTelemetry
    <3>2. j = n + 1 \/ (j \in 1 .. n /\ j \in n - telemetry.stable + 1 .. n)
      BY <3>1, <2>3
    <3>3. CASE j = n + 1
      BY <3>3, <2>5, <1>3, <1>5
    <3>4. CASE j \in 1 .. n /\ j \in n - telemetry.stable + 1 .. n
      <4>1. Steady(j)
        BY <3>1, <3>4
      <4>2. rows'[j] = rows[j] /\ rows'[j].life = row.life
        BY <3>4, <4>1, <2>6 DEF Steady
      <4> QED BY <3>4, <4>1, <4>2 DEF Steady
    <3> QED BY <3>2, <3>3, <3>4
  <2>10. \A j \in 1 .. n + 1 : rows'[j].life = row.life /\ j # n + 1 => ~rows'[j].landing
    <3> TAKE j \in 1 .. n + 1
    <3> SUFFICES ASSUME rows'[j].life = row.life, j # n + 1 PROVE ~rows'[j].landing
      OBVIOUS
    <3>1. j \in 1 .. n
      OBVIOUS
    <3>2. Alive(j) /\ rows'[j] = rows[j]
      BY <3>1, <2>6
    <3> QED BY <3>1, <3>2, <2>3, <1>1, <1>2 DEF HoTelemetry
  <2>11. \A j \in 1 .. n + 1 : rows'[j].life = row.life => rows'[j].after = Never
    <3> SUFFICES ASSUME NEW j \in 1 .. n + 1, rows'[j].life = row.life PROVE rows'[j].after = Never
      OBVIOUS
    <3>1. CASE j = n + 1
      BY <3>1, <2>4, <1>3
    <3>2. CASE j \in 1 .. n
      <4>1. Alive(j) /\ rows'[j] = rows[j]
        BY <3>2, <2>6
      <4> QED BY <3>2, <4>1, <2>4, <1>1, <1>2 DEF HoTelemetry
    <3>3. j \in 1 .. n \/ j = n + 1
      OBVIOUS
    <3> QED BY <3>1, <3>2, <3>3
  <2>12. rows'[n + 1].life = row.life
    BY <1>3
  <2>13. /\ \E j \in 1 .. n + 1 : rows'[j].life = rows'[n + 1].life /\ rows'[j].outcome.flying
         /\ \E j \in 1 .. n + 1 : rows'[j].life = rows'[n + 1].life /\ ~rows'[j].outcome.upright
    BY <2>7, <2>8, <2>12, Zenon
  <2>14. \A j \in (n + 1) - LandingFrames + 1 .. n + 1 :
          j \in 1 .. n + 1 /\ rows'[j].life = rows'[n + 1].life /\ rows'[j].frame >= LandingFrom /\ rows'[j].outcome.upright
          /\ ~rows'[j].outcome.flying
    BY <2>9, <2>12, Zenon
  <2>15. /\ \A j \in 1 .. n + 1 : rows'[j].life = rows'[n + 1].life /\ j # n + 1 => ~rows'[j].landing
         /\ \A j \in 1 .. n + 1 : rows'[j].life = rows'[n + 1].life => rows'[j].after = Never
    BY <2>10, <2>11, <2>12, Zenon
  <2> QED BY <2>13, <2>14, <2>15, Zenon DEF LandingReal
<1>8. \A i \in DOMAIN rows' : rows'[i].landing => LandingReal(i)'
  <2> SUFFICES ASSUME NEW i \in 1 .. n + 1, rows'[i].landing PROVE LandingReal(i)'
    BY <1>4
  <2>1. i \in 1 .. n \/ i = n + 1
    OBVIOUS
  <2> QED BY <2>1, <1>3, <1>6, <1>7
<1>9. EachLandingReal'
  BY <1>8 DEF EachLandingReal
<1> QED BY <1>9, LandingsOf, PTL

\* A row of the replay beside the native row it repeats.
Repeats(row, native, before) ==
    /\ row.frame = native.frame /\ row.outcome = native.outcome /\ row.state = native.state /\ row.reset = FALSE
    /\ before => row.next = native.next
    /\ ~before => row.after = 0
Leads(native) == native.life = life /\ native.frame = refFrame /\ native.seen = Append(shown, refFrame)

LEMMA RepeatedRow ==
  ASSUME HoTypes, kind = "tail", NEW o \in Outcomes, NEW row \in HoRows, Stepped(o, row), RowAlone(row),
         NEW native \in HoRows, NativeRow(native), RowAlone(native), Leads(native), o = native.outcome,
         tail.firstDone = Never
  PROVE  Repeats(row, native, ~native.reset) /\ (~native.reset => Ending(o).tail.firstDone = Never)
<1>1. LastFrame \in Nat \ {0} /\ refFrame \in 0 .. LastFrame /\ TailSteps \in Nat \ {0} /\ tail.tick \in Nat /\ life \in Nat /\ Never = -1
  BY HoldoutAssumption DEF HoTypes, Never
<1>2. /\ Ending(o).tail.firstDone = IF tail.firstDone = Never /\ (o.terminated \/ o.truncated) THEN tail.tick ELSE tail.firstDone
      /\ Ending(o).after = IF Ending(o).tail.firstDone = Never THEN Never ELSE tail.tick - Ending(o).tail.firstDone
      /\ (Ending(o).terminated \/ Ending(o).truncated) =>
            /\ Ending(o).tail.firstDone # Never
            /\ tail.tick - Ending(o).tail.firstDone >= IF kind = "trial" THEN TrialSteps ELSE TailSteps
  BY EndingIs
<1>3. native.reset = (o.terminated \/ o.truncated) /\ native.reset \in BOOLEAN
  <2>1. native.terminated = o.terminated /\ native.truncated = o.truncated /\ native.reset = (native.terminated \/ native.truncated)
    BY Zenon DEF NativeRow, RowAlone
  <2> QED BY <2>1, Zenon DEF HoRows
<1>4. /\ row.reset = (Ending(o).terminated \/ Ending(o).truncated)
      /\ row.next = IF row.reset \/ Holds(Ending(o).tail.firstDone) THEN refFrame
                    ELSE IF refFrame = LastFrame THEN 0 ELSE refFrame + 1
      /\ row.frame = refFrame /\ row.life = life /\ row.seen = Append(shown, refFrame) /\ row.outcome = o
      /\ row.after = Ending(o).after
  BY Zenon DEF Stepped
<1>5. /\ row.frame = native.frame /\ row.outcome = native.outcome /\ row.life = native.life /\ row.seen = native.seen
      /\ native.frame = refFrame
  BY <1>4 DEF Leads
<1>6. row.reset \in BOOLEAN /\ native.next \in 0 .. LastFrame /\ row.next \in 0 .. LastFrame
  BY DEF HoRows
<1>7. CASE ~native.reset
  <2>1. Ending(o).tail.firstDone = Never
    BY <1>2, <1>3, <1>7
  <2>2. ~row.reset
    BY <1>2, <1>4, <2>1, Zenon
  <2>3. ~Holds(Ending(o).tail.firstDone)
    BY <2>1 DEF Holds
  <2>4. row.next = native.next
    BY <1>4, <1>5, <1>7, <2>2, <2>3 DEF NativeRow
  <2>5. row.state = native.state
    <3>1. PICK w : w = (row.next < row.frame)
      OBVIOUS
    <3>2. w = (native.next < native.frame)
      BY <3>1, <2>4, <1>5, Zenon
    <3>3. row.wrap = (w /\ ~row.reset) /\ native.wrap = (w /\ ~native.reset)
      BY <3>1, <3>2, Zenon DEF RowAlone
    <3>4. row.wrap <=> native.wrap
      BY <3>3, <2>2, <1>7, Zenon
    <3>5. /\ row.state = IF row.wrap THEN [life |-> row.life + 1, shown |-> <<>>] ELSE [life |-> row.life, shown |-> row.seen]
          /\ native.state = IF native.wrap THEN [life |-> native.life + 1, shown |-> <<>>]
                            ELSE [life |-> native.life, shown |-> native.seen]
      BY Zenon DEF RowAlone
    <3> QED BY <3>4, <3>5, <1>5, Zenon
  <2>6. row.reset = FALSE
    BY <2>2, <1>6
  <2> QED BY <1>5, <1>7, <2>1, <2>4, <2>5, <2>6, Zenon DEF Repeats
<1>8. CASE native.reset
  <2>1. Ending(o).tail.firstDone = tail.tick
    BY <1>2, <1>3, <1>8
  <2>2. Ending(o).after = 0
    BY <1>1, <1>2, <2>1
  <2>3. ~(tail.tick - Ending(o).tail.firstDone >= TailSteps)
    BY <1>1, <2>1
  <2>4. ~row.reset
    BY <1>2, <1>4, <2>3, Zenon
  <2>5. ~(row.next < row.frame)
    BY <1>1, <1>4, <2>1, <2>4 DEF Holds
  <2>6. ~row.wrap /\ ~native.wrap
    BY <2>5, <1>8, Zenon DEF RowAlone
  <2>7. row.state = native.state
    <3>1. /\ row.state = IF row.wrap THEN [life |-> row.life + 1, shown |-> <<>>] ELSE [life |-> row.life, shown |-> row.seen]
          /\ native.state = IF native.wrap THEN [life |-> native.life + 1, shown |-> <<>>]
                            ELSE [life |-> native.life, shown |-> native.seen]
      BY Zenon DEF RowAlone
    <3> QED BY <3>1, <2>6, <1>5, Zenon
  <2>8. row.reset = FALSE
    BY <2>4, <1>6
  <2> QED BY <1>4, <1>5, <1>8, <2>2, <2>7, <2>8, Zenon DEF Repeats
<1> QED BY <1>7, <1>8

LEMMA TailStepped ==
  ASSUME HoInv, NEW o \in Outcomes, NEW row \in HoRows, Stepped(o, row), Len(rows) \in Nat, Added(row), RowAlone(row)
  PROVE  HoTail'
<1> SUFFICES ASSUME kind = "tail" PROVE HoTail'
  BY DEF HoTail, Stepped
<1>1. HoTypes /\ HoTail /\ HoNative
  BY DEF HoInv
<1>2. nativeRows' = nativeRows
  BY DEF Stepped
<1>3. PICK n \in Nat : n = Len(rows) + 1
  OBVIOUS
<1>4. Len(rows)' = n /\ rows'[n] = row /\ \A i \in 1 .. n - 1 : rows'[i] = rows[i]
  BY <1>3 DEF Added
<1>5. /\ nativeRows \in Seq(HoRows) /\ Chain(nativeRows) /\ \A i \in 1 .. Len(nativeRows) : NativeRow(nativeRows[i])
  BY <1>1 DEF HoTypes, HoNative
<1>6. ASSUME NEW f \in 1 .. Len(nativeRows), FirstEnd(f)
      PROVE  /\ \A i \in 1 .. n : i <= f => Repeats(rows'[i], nativeRows[i], i < f)
             /\ n < f => tail'.firstDone = Never /\ Leads(nativeRows[n + 1])'
  <2>0. Len(nativeRows) \in Nat
    BY <1>5, LenProperties
  <2>1. /\ \A i \in 1 .. n - 1 : i <= f => Repeats(rows[i], nativeRows[i], i < f)
        /\ n - 1 < f => tail.firstDone = Never /\ Leads(nativeRows[n])
    <3>1. /\ \A i \in 1 .. Len(rows) : i <= f =>
             /\ rows[i].frame = nativeRows[i].frame /\ rows[i].outcome = nativeRows[i].outcome
             /\ rows[i].state = nativeRows[i].state
             /\ rows[i].reset = FALSE
             /\ i < f => rows[i].next = nativeRows[i].next
             /\ i = f => rows[i].after = 0
          /\ Len(rows) < f => /\ tail.firstDone = Never
                              /\ nativeRows[Len(rows) + 1].life = life
                              /\ nativeRows[Len(rows) + 1].frame = refFrame
                              /\ nativeRows[Len(rows) + 1].seen = Append(shown, refFrame)
      BY <1>1, <1>6 DEF HoTail
    <3>2. \A i \in 1 .. n - 1 : i <= f => Repeats(rows[i], nativeRows[i], i < f)
      BY <3>1, <1>3, <2>0 DEF Repeats
    <3>3. n - 1 < f => tail.firstDone = Never /\ Leads(nativeRows[n])
      BY <3>1, <1>3 DEF Leads
    <3> QED BY <3>2, <3>3
  <2>2. \A i \in 1 .. n - 1 : i <= f => Repeats(rows'[i], nativeRows[i], i < f)
    BY <2>1, <1>4
  <2>3. CASE n > f
    BY <2>2, <2>3, <2>0
  <2>4. CASE n <= f
    <3>1. PICK native : native = nativeRows[n]
      OBVIOUS
    <3>2. n \in 1 .. Len(nativeRows)
      BY <2>4, <1>3, <2>0
    <3>3. native \in HoRows /\ NativeRow(native) /\ RowAlone(native)
      BY <3>1, <3>2, <1>5 DEF Chain
    <3>4. tail.firstDone = Never /\ Leads(native)
      BY <3>1, <2>1, <2>4, <1>3, <2>0
    <3>5. o = native.outcome
      <4>1. Reproduces(o, row.seen) /\ row.seen = Append(shown, refFrame)
        BY DEF Stepped
      <4>2. native.life = life /\ native.seen = row.seen
        BY <3>4, <4>1 DEF Leads
      <4> QED BY <4>1, <4>2, <3>1, <1>3 DEF Reproduces
    <3>6. Repeats(row, native, ~native.reset) /\ (~native.reset => Ending(o).tail.firstDone = Never)
      BY <1>1, <3>3, <3>4, <3>5, RepeatedRow
    <3>7. n < f => ~native.reset
      BY <1>6, <3>1, <3>2, <2>0 DEF FirstEnd
    <3>8. n = f => native.reset
      BY <1>6, <3>1 DEF FirstEnd
    <3>9. Repeats(row, nativeRows[n], n < f)
      <4>1. CASE n < f
        BY <4>1, <3>1, <3>6, <3>7 DEF Repeats
      <4>2. CASE n = f
        BY <4>2, <3>1, <3>6, <3>8 DEF Repeats
      <4> QED BY <4>1, <4>2, <2>4, <2>0, <1>3
    <3>10. \A i \in 1 .. n : i <= f => Repeats(rows'[i], nativeRows[i], i < f)
      <4> SUFFICES ASSUME NEW i \in 1 .. n, i <= f PROVE Repeats(rows'[i], nativeRows[i], i < f)
        OBVIOUS
      <4>1. i \in 1 .. n - 1 \/ i = n
        BY <1>3
      <4> QED BY <4>1, <2>2, <3>9, <1>4
    <3>11. ASSUME n < f PROVE tail'.firstDone = Never /\ Leads(nativeRows[n + 1])'
      <4>1. ~native.reset /\ Ending(o).tail.firstDone = Never
        BY <3>6, <3>7, <3>11
      <4>2. row.reset = FALSE /\ row.next = native.next /\ row.state = native.state
        BY <3>6, <4>1 DEF Repeats
      <4>3. tail' = Ending(o).tail /\ refFrame' = row.next /\ life' = row.state.life /\ shown' = row.state.shown
        BY <4>2, Zenon DEF Stepped
      <4>4. n + 1 \in 2 .. Len(nativeRows) /\ n + 1 - 1 = n
        BY <3>11, <2>0, <1>3
      <4>5. Follows(nativeRows[n + 1], nativeRows[n])
        BY <4>4, <1>5 DEF Chain
      <4>6. PICK m : m = nativeRows[n + 1]
        OBVIOUS
      <4>7. m.frame = native.next /\ m.life = native.state.life /\ m.seen = Append(native.state.shown, m.frame)
        BY <4>1, <4>5, <4>6, <3>1 DEF Follows
      <4>8. m.life = life' /\ m.frame = refFrame' /\ m.seen = Append(shown', refFrame')
        BY <4>2, <4>3, <4>7
      <4>9. Leads(nativeRows[n + 1])'
        BY <4>6, <4>8, <1>2 DEF Leads
      <4> QED BY <4>1, <4>3, <4>9
    <3> QED BY <3>10, <3>11
  <2> QED BY <2>3, <2>4, <2>0, <1>3
<1>7. ASSUME NEW f \in 1 .. Len(nativeRows)', FirstEnd(f)'
      PROVE  /\ \A i \in 1 .. Len(rows)' : i <= f =>
                  /\ rows'[i].frame = nativeRows'[i].frame /\ rows'[i].outcome = nativeRows'[i].outcome
                  /\ rows'[i].state = nativeRows'[i].state
                  /\ rows'[i].reset = FALSE
                  /\ i < f => rows'[i].next = nativeRows'[i].next
                  /\ i = f => rows'[i].after = 0
             /\ Len(rows)' < f => /\ tail'.firstDone = Never
                                  /\ nativeRows'[Len(rows)' + 1].life = life'
                                  /\ nativeRows'[Len(rows)' + 1].frame = refFrame'
                                  /\ nativeRows'[Len(rows)' + 1].seen = Append(shown', refFrame')
  <2>1. f \in 1 .. Len(nativeRows) /\ FirstEnd(f)
    BY <1>2, <1>7 DEF FirstEnd
  <2>2. /\ \A i \in 1 .. n : i <= f => Repeats(rows'[i], nativeRows[i], i < f)
        /\ n < f => tail'.firstDone = Never /\ Leads(nativeRows[n + 1])'
    BY <2>1, <1>6
  <2>3. ASSUME NEW i \in 1 .. n, i <= f
        PROVE  /\ rows'[i].frame = nativeRows[i].frame /\ rows'[i].outcome = nativeRows[i].outcome
               /\ rows'[i].state = nativeRows[i].state /\ rows'[i].reset = FALSE
               /\ i < f => rows'[i].next = nativeRows[i].next
               /\ i = f => rows'[i].after = 0
    BY <2>2, <2>3 DEF Repeats
  <2>4. n < f => nativeRows[n + 1].life = life' /\ nativeRows[n + 1].frame = refFrame'
                 /\ nativeRows[n + 1].seen = Append(shown', refFrame')
    BY <2>2, <1>2 DEF Leads
  <2> QED BY <2>2, <2>3, <2>4, <1>2, <1>4
<1> QED BY <1>7 DEF HoTail

LEMMA TrialStepped ==
  ASSUME HoInv, NEW o \in Outcomes, NEW row \in HoRows, Stepped(o, row), Len(rows) \in Nat, Added(row), RowAlone(row)
  PROVE  HoTrial' /\ ruling' = "running"
<1>1. HoTypes /\ HoTrial /\ ruling = "running" /\ kind' = kind
  BY DEF HoInv, Stepped
<1> SUFFICES ASSUME kind = "trial" PROVE HoTrial' /\ ruling' = "running"
  BY <1>1 DEF HoTrial, Stepped
<1>2. PICK n \in Nat : n = Len(rows)
  OBVIOUS
<1>3. Len(rows)' = n + 1 /\ rows'[n + 1] = row /\ \A i \in 1 .. n : rows'[i] = rows[i]
  BY <1>2 DEF Added
<1>4. LastFrame \in Nat \ {0} /\ refFrame \in 0 .. LastFrame /\ tail.tick \in Nat /\ life \in Nat /\ Never = -1
      /\ tail.firstDone \in Nat \cup {Never} /\ TrialSteps \in Nat
  BY <1>1, HoldoutAssumption DEF HoTypes, Never, TrialSteps
<1>5. /\ n < TrialSteps /\ tail.tick = n /\ tail.firstDone <= tail.tick /\ life = 0
      /\ refFrame = (IF n <= LastFrame THEN n ELSE LastFrame)
      /\ \A i \in 1 .. n : rows[i].life = 0 /\ rows[i].reset = FALSE
  BY <1>1, <1>2 DEF HoTrial, Stepped, Steps
<1>6. /\ Ending(o).tail.tick = tail.tick + 1
      /\ Ending(o).tail.firstDone = IF tail.firstDone = Never /\ (o.terminated \/ o.truncated) THEN tail.tick ELSE tail.firstDone
      /\ (Ending(o).terminated \/ Ending(o).truncated) =>
            /\ Ending(o).tail.firstDone # Never
            /\ tail.tick - Ending(o).tail.firstDone >= IF kind = "trial" THEN TrialSteps ELSE TailSteps
  BY <1>1, EndingIs
<1>7. Ending(o).tail.firstDone \in Nat \cup {Never} /\ Ending(o).tail.firstDone <= tail.tick
  BY <1>4, <1>5, <1>6
<1>8. ~(Ending(o).terminated \/ Ending(o).truncated)
  <2> SUFFICES ASSUME Ending(o).terminated \/ Ending(o).truncated PROVE FALSE
    OBVIOUS
  <2>1. Ending(o).tail.firstDone # Never /\ tail.tick - Ending(o).tail.firstDone >= TrialSteps
    BY <1>6, Zenon
  <2> QED BY <2>1, <1>4, <1>5, <1>7
<1>9. /\ row.reset = (Ending(o).terminated \/ Ending(o).truncated)
      /\ row.next = IF row.reset \/ Holds(Ending(o).tail.firstDone) THEN refFrame
                    ELSE IF refFrame = LastFrame THEN 0 ELSE refFrame + 1
      /\ row.frame = refFrame /\ row.life = life
  BY Zenon DEF Stepped
<1>10. row.reset = FALSE
  BY <1>8, <1>9, Zenon DEF HoRows
<1>11. row.next = IF n + 1 <= LastFrame THEN n + 1 ELSE LastFrame
  BY <1>4, <1>5, <1>9, <1>10 DEF Holds
<1>12. ~row.wrap
  <2>1. ~(row.next < row.frame)
    BY <1>4, <1>5, <1>9, <1>11
  <2> QED BY <2>1, Zenon DEF RowAlone
<1>13. row.state.life = 0
  BY <1>5, <1>9, <1>12 DEF RowAlone
<1>14. /\ refFrame' = row.next /\ life' = row.state.life /\ tail' = Ending(o).tail
       /\ ruling' = IF kind = "trial" /\ ~TrialGoesOn(row.next, row.reset) THEN "refused" ELSE "running"
  BY <1>10, Zenon DEF Stepped
<1>15. row.next = Min({Len(rows) + 1, LastFrame})
  <2>1. PICK m : m = Min({n + 1, LastFrame})
    OBVIOUS
  <2>2. {n + 1, LastFrame} \in SUBSET Nat /\ {n + 1, LastFrame} # {}
    BY <1>4
  <2>3. m \in {n + 1, LastFrame} /\ \A y \in {n + 1, LastFrame} : m <= y
    BY <2>1, <2>2, Smallest
  <2>4. m = row.next
    BY <2>3, <1>4, <1>11
  <2> QED BY <2>1, <2>4, <1>2
<1>16. ruling' = "running"
  BY <1>10, <1>14, <1>15 DEF TrialGoesOn
<1>17. /\ Len(rows)' <= TrialSteps /\ tail'.tick = Len(rows)' /\ tail'.firstDone <= tail'.tick
       /\ refFrame' = (IF Len(rows)' <= LastFrame THEN Len(rows)' ELSE LastFrame) /\ life' = 0
  BY <1>3, <1>4, <1>5, <1>6, <1>7, <1>11, <1>13, <1>14
<1>18. \A i \in 1 .. Len(rows)' : rows'[i].life = 0 /\ rows'[i].reset = FALSE
  <2> SUFFICES ASSUME NEW i \in 1 .. n + 1 PROVE rows'[i].life = 0 /\ rows'[i].reset = FALSE
    BY <1>3
  <2>1. i \in 1 .. n \/ i = n + 1
    OBVIOUS
  <2> QED BY <2>1, <1>3, <1>5, <1>9, <1>10
<1>19. TrialSteps' = TrialSteps
  BY DEF TrialSteps
<1> QED BY <1>16, <1>17, <1>18, <1>19 DEF HoTrial

LEMMA HoStepped ==
  ASSUME HoInv, NEW o \in Outcomes, Step(o)
  PROVE  HoInv'
<1>1. PICK row : Stepped(o, row) /\ row = [frame |-> row.frame, next |-> row.next, reset |-> row.reset, wrap |-> row.wrap,
                   terminated |-> row.terminated, truncated |-> row.truncated, after |-> row.after,
                   landing |-> row.landing, attempt |-> telemetry.attempt, episode |-> telemetry.episode,
                   state |-> row.state, life |-> row.life, seen |-> row.seen, outcome |-> row.outcome]
  BY SteppedOf
<1>2. /\ row \in HoRows /\ Len(rows) \in Nat /\ Added(row) /\ RowAlone(row)
      /\ row.reset => ~row.wrap /\ row.next = row.frame
  BY <1>1, RowOfStep
<1>3. HoTrial' /\ ruling' = "running"
  BY <1>1, <1>2, TrialStepped
<1>4. HoTypes'
  BY <1>1, <1>2, <1>3, TypesStepped
<1>5. HoChain'
  BY <1>1, <1>2, ChainStepped
<1>6. HoNative'
  BY <1>1, <1>2, NativeStepped
<1>7. HoLives' /\ (row.reset \/ row.wrap => life' = life + 1) /\ (~row.reset /\ ~row.wrap => life' = life)
  BY <1>1, <1>2, LivesStepped
<1>8. HoFirst'
  BY <1>1, <1>2, <1>6, FirstStepped
<1>9. HoTelemetry'
  BY <1>1, <1>2, <1>7, TelemetryStepped
<1>10. HoTail'
  BY <1>1, <1>2, TailStepped
<1>11. LandingsReal'
  BY <1>1, <1>2, LandingsStepped
<1> QED BY <1>3, <1>4, <1>5, <1>6, <1>7, <1>8, <1>9, <1>10, <1>11 DEF HoInv

\* A rollout that has not begun.
Unbegun ==
    /\ refFrame = 0 /\ life = 0 /\ shown = <<>> /\ tail = NoTail /\ telemetry = NoTelemetry
    /\ rows = <<>> /\ ruling = "running"

LEMMA UnbegunHolds ==
  ASSUME Unbegun, kind \in {"native", "tail", "trial"}, nativeRows \in Seq(HoRows)
  PROVE  HoTypes /\ HoChain /\ HoLives /\ HoTelemetry /\ LandingsReal /\ HoTrial /\ (kind = "native" => HoFirst)
<1>1. LastFrame \in Nat \ {0} /\ ObservationSteps \in Nat /\ HorizonSteps \in 1 .. LastFrame
  BY HoldoutAssumption
<1>2. rows \in Seq(HoRows) /\ shown \in Seq(0 .. LastFrame) /\ Len(rows) = 0
  BY EmptySeq DEF Unbegun
<1>3. HoTypes
  <2>1. tail = [tick |-> tail.tick, firstDone |-> tail.firstDone, seen |-> tail.seen] /\ tail.tick \in Nat
        /\ tail.firstDone \in Nat \cup {Never} /\ tail.seen \in BOOLEAN
    BY DEF Unbegun, NoTail
  <2>2. telemetry \in [episode : Nat, attempt : Nat, airborne : BOOLEAN, inversion : BOOLEAN, stable : Nat, recorded : BOOLEAN]
    BY DEF Unbegun, NoTelemetry
  <2> QED BY <1>1, <1>2, <2>1, <2>2 DEF HoTypes, Unbegun
<1>4. HoChain
  BY <1>2 DEF HoChain, Chain, Present, Unbegun
<1>5. HoLives
  BY <1>2 DEF HoLives
<1>6. HoTelemetry
  <2>1. telemetry.airborne = FALSE /\ telemetry.inversion = FALSE /\ telemetry.stable = 0 /\ telemetry.recorded = FALSE
    BY DEF Unbegun, NoTelemetry
  <2> QED BY <1>2, <2>1 DEF HoTelemetry
<1>7. LandingsReal
  <2>1. DOMAIN rows = {}
    BY DEF Unbegun
  <2> QED BY <2>1 DEF LandingsReal
<1>8. HoTrial
  BY <1>1, <1>2 DEF HoTrial, Unbegun, NoTail, Never, TrialSteps
<1>9. HoFirst
  <2>1. UpTo(0) = <<>>
    BY ShownUpTo
  <2> QED BY <1>2, <2>1 DEF HoFirst, Unbegun
<1> QED BY <1>3, <1>4, <1>5, <1>6, <1>7, <1>8, <1>9

LEMMA HoBegins == ASSUME HoInit PROVE HoInv
<1>1. Unbegun /\ kind \in {"native", "trial"} /\ nativeRows \in Seq(HoRows)
  BY EmptySeq DEF HoInit, Unbegun
<1>2. HoTypes /\ HoChain /\ HoLives /\ HoTelemetry /\ LandingsReal /\ HoTrial /\ (kind = "native" => HoFirst)
  BY <1>1, UnbegunHolds
<1>3. HoNative
  BY <1>1 DEF HoNative, Unbegun
<1>4. HoFirst /\ HoTail
  BY <1>1, <1>2 DEF HoFirst, HoTail
<1> QED BY <1>1, <1>2, <1>3, <1>4 DEF HoInv, Unbegun

\* A ruling changes nothing of what was recorded.
LEMMA HoRuled ==
  ASSUME HoInv, UNCHANGED <<kind, refFrame, life, shown, tail, telemetry, rows, nativeRows>>,
         ruling' \in {"running", "censored", "scored", "verified", "success", "failure"}
  PROVE  HoInv'
<1>1. HoTypes'
  BY DEF HoInv, HoTypes
<1>2. HoChain'
  BY DEF HoInv, HoChain, Chain, Present
<1>3. HoNative'
  BY DEF HoInv, HoNative, Chain
<1>4. HoLives'
  BY DEF HoInv, HoLives
<1>5. HoFirst'
  BY DEF HoInv, HoFirst, NoEndBefore
<1>6. HoTelemetry'
  BY DEF HoInv, HoTelemetry, Alive, Steady
<1>7. HoTail'
  BY DEF HoInv, HoTail, FirstEnd
<1>8. HoTrial'
  BY DEF HoInv, HoTrial
<1>9. LandingsReal'
  BY DEF HoInv, LandingsReal
<1> QED BY <1>1, <1>2, <1>3, <1>4, <1>5, <1>6, <1>7, <1>8, <1>9 DEF HoInv

LEMMA RowsAreValid ==
  ASSUME HoTypes, HoChain
  PROVE  RowsValid(rows)
<1>1. rows \in Seq(HoRows)
  BY DEF HoTypes
<1>2. DOMAIN rows = 1 .. Len(rows) /\ Len(rows) \in Nat
  BY <1>1, LenProperties
<1>3. SUFFICES ASSUME NEW i \in 1 .. Len(rows)
               PROVE  /\ rows[i].frame = (IF i = 1 \/ rows[i - 1].reset THEN 0 ELSE rows[i - 1].next)
                      /\ rows[i].reset = Done(rows[i])
                      /\ rows[i].wrap = (rows[i].next < rows[i].frame /\ ~Done(rows[i]))
  BY <1>2, Zenon DEF RowsValid
<1>4. RowAlone(rows[i])
  BY DEF HoChain, Chain
<1>5. rows[i].reset = Done(rows[i]) /\ rows[i].wrap = (rows[i].next < rows[i].frame /\ ~Done(rows[i]))
  BY <1>4, Zenon DEF RowAlone, Done
<1>6. rows[i].frame = (IF i = 1 \/ rows[i - 1].reset THEN 0 ELSE rows[i - 1].next)
  <2>1. CASE i = 1
    BY <1>2, <2>1 DEF HoChain, Chain
  <2>2. CASE i # 1
    <3>1. i \in 2 .. Len(rows)
      BY <2>2, <1>2
    <3>2. Follows(rows[i], rows[i - 1])
      BY <3>1 DEF HoChain, Chain
    <3> QED BY <2>2, <3>2 DEF Follows
  <2> QED BY <2>1, <2>2
<1> QED BY <1>5, <1>6

\* What a score is made from.
LEMMA ScoredRows ==
  ASSUME HoInv, kind = "native", Len(rows) >= HorizonSteps, ~Censored(rows)
  PROVE  \E m \in 1 .. Len(rows) :
            /\ m <= HorizonSteps /\ Len(Scored(rows)) = m /\ DOMAIN Scored(rows) = 1 .. m
            /\ \A i \in 1 .. m : Scored(rows)[i] = rows[i] /\ NoEndBefore(i)
            /\ m = HorizonSteps \/ rows[m].terminated
<1>1. HoTypes /\ HoChain /\ rows \in Seq(HoRows)
  BY DEF HoInv, HoTypes
<1>2. HorizonSteps \in Nat \ {0} /\ Len(rows) \in Nat /\ DOMAIN rows = 1 .. Len(rows)
  BY <1>1, HoldoutAssumption, LenProperties
<1>3. PICK S : S = {HorizonSteps} \cup {i \in DOMAIN rows : rows[i].terminated}
  OBVIOUS
<1>4. S \in SUBSET Nat /\ S # {}
  BY <1>2, <1>3
<1>5. PICK m : m = Min(S)
  OBVIOUS
<1>6. m \in S /\ \A y \in S : m <= y
  BY <1>4, <1>5, Smallest
<1>7. m <= HorizonSteps /\ m \in 1 .. Len(rows) /\ (m = HorizonSteps \/ rows[m].terminated)
      /\ \A i \in 1 .. m - 1 : ~rows[i].terminated
  <2>1. m <= HorizonSteps /\ (m = HorizonSteps \/ (m \in 1 .. Len(rows) /\ rows[m].terminated))
    BY <1>2, <1>3, <1>6
  <2>2. m \in 1 .. Len(rows)
    BY <2>1, <1>2
  <2>3. ASSUME NEW i \in 1 .. m - 1, rows[i].terminated PROVE FALSE
    <3>1. i \in S
      BY <1>2, <1>3, <2>2, <2>3
    <3> QED BY <3>1, <1>6, <2>2
  <2> QED BY <2>1, <2>2, <2>3
<1>8. PICK s : s = SubSeq(rows, 1, m)
  OBVIOUS
<1>9. s = Scored(rows)
  BY <1>3, <1>5, <1>8, Zenon DEF Scored
<1>10. s \in Seq(HoRows) /\ Len(s) = m /\ \A i \in 1 .. m : s[i] = rows[i]
  BY <1>1, <1>7, <1>8, SubSeqProperties
<1>11. DOMAIN s = 1 .. m
  BY <1>10, LenProperties
<1>12. \A i \in 1 .. m : NoEndBefore(i)
  <2> SUFFICES ASSUME NEW i \in 1 .. m, NEW k \in 1 .. i - 1 PROVE ~rows[k].reset
    BY DEF NoEndBefore
  <2>1. k \in 1 .. m - 1 /\ k \in 1 .. m /\ k \in 1 .. Len(rows)
    BY <1>7
  <2>2. ~rows[k].terminated
    BY <2>1, <1>7
  <2>3. ~rows[k].truncated
    BY <2>1, <2>2, <1>9, <1>11, Zenon DEF Censored
  <2>4. RowAlone(rows[k])
    BY <2>1, <1>1 DEF HoChain, Chain
  <2> QED BY <2>2, <2>3, <2>4, Zenon DEF RowAlone
<1> QED BY <1>7, <1>9, <1>10, <1>11, <1>12, Zenon

LEMMA NoWrapScored ==
  ASSUME HoInv, kind = "native", Len(rows) >= HorizonSteps, ScoreRefused(rows)
  PROVE  Censored(rows)
<1> SUFFICES ASSUME ~Censored(rows) PROVE FALSE
  OBVIOUS
<1>1. PICK m \in 1 .. Len(rows) :
            /\ m <= HorizonSteps /\ DOMAIN Scored(rows) = 1 .. m
            /\ \A i \in 1 .. m : Scored(rows)[i] = rows[i] /\ NoEndBefore(i)
  BY ScoredRows
<1>2. PICK i \in 1 .. m : rows[i].wrap
  BY <1>1, Zenon DEF ScoreRefused
<1>3. i \in 1 .. Len(rows) /\ i <= HorizonSteps /\ NoEndBefore(i)
  BY <1>1, <1>2, HoldoutAssumption
<1>4. rows[i].wrap = FALSE
  BY <1>3 DEF HoInv, HoFirst
<1> QED BY <1>2, <1>4

LEMMA NativeEnds == ASSUME HoInv, EndNative PROVE HoInv'
<1>1. HoTypes /\ HoChain /\ HoNative /\ kind = "native" /\ Len(rows) = RolloutSteps /\ rows \in Seq(HoRows)
  BY DEF HoInv, EndNative, HoTypes
<1>2. HorizonSteps <= RolloutSteps
  BY HoldoutAssumption
<1>3. RowsValid(rows)
  BY <1>1, RowsAreValid
<1>4. CASE ScoreRefused(rows) \/ ~RowsValid(rows)
  <2>1. Censored(rows)
    BY <1>1, <1>2, <1>3, <1>4, NoWrapScored
  <2>2. ruling' = "censored" /\ UNCHANGED <<kind, refFrame, life, shown, tail, telemetry, rows, nativeRows>>
    BY <1>3, <1>4, <2>1 DEF EndNative
  <2> QED BY <2>2, HoRuled
<1>5. CASE ~(ScoreRefused(rows) \/ ~RowsValid(rows)) /\ ~\E i \in DOMAIN rows : rows[i].terminated
  <2>1. ruling' = "scored" /\ UNCHANGED <<kind, refFrame, life, shown, tail, telemetry, rows, nativeRows>>
    BY <1>5 DEF EndNative
  <2> QED BY <2>1, HoRuled
<1>6. CASE ~(ScoreRefused(rows) \/ ~RowsValid(rows)) /\ \E i \in DOMAIN rows : rows[i].terminated
  <2>1. /\ kind' = "tail" /\ nativeRows' = rows /\ rows' = <<>>
        /\ refFrame' = 0 /\ life' = 0 /\ shown' = <<>>
        /\ tail' = NoTail /\ telemetry' = NoTelemetry /\ ruling' = "running"
    BY <1>6 DEF EndNative
  <2>2. Unbegun' /\ (kind \in {"native", "tail", "trial"})' /\ (nativeRows \in Seq(HoRows))'
    BY <1>1, <2>1 DEF Unbegun
  <2>3. (HoTypes /\ HoChain /\ HoLives /\ HoTelemetry /\ LandingsReal /\ HoTrial)'
    BY <2>2, UnbegunHolds, PTL
  <2>4. Chain(rows) /\ \A i \in 1 .. Len(rows) : NativeRow(rows[i])
    BY <1>1 DEF HoChain, HoNative
  <2>5. HoNative'
    <3>1. DOMAIN rows = 1 .. Len(rows)
      BY <1>1, LenProperties
    <3>2. PICK i \in 1 .. Len(rows) : rows[i].terminated
      BY <3>1, <1>6
    <3>3. RowAlone(rows[i]) /\ rows[i] \in HoRows
      BY <2>4, <1>1 DEF Chain
    <3>4. rows[i].reset
      BY <3>2, <3>3, Zenon DEF RowAlone
    <3>5. \E k \in 1 .. Len(rows) : rows[k].reset
      BY <3>4
    <3> QED BY <2>1, <2>4, <3>5, <1>1 DEF HoNative, Chain
  <2>6. HoFirst'
    BY <2>1 DEF HoFirst
  <2>7. HoTail'
    <3> SUFFICES ASSUME NEW f \in 1 .. Len(nativeRows)', FirstEnd(f)' PROVE
           /\ \A i \in 1 .. Len(rows)' : i <= f =>
                 /\ rows'[i].frame = nativeRows'[i].frame /\ rows'[i].outcome = nativeRows'[i].outcome
                 /\ rows'[i].state = nativeRows'[i].state
                 /\ rows'[i].reset = FALSE
                 /\ i < f => rows'[i].next = nativeRows'[i].next
                 /\ i = f => rows'[i].after = 0
           /\ Len(rows)' < f => /\ tail'.firstDone = Never
                                /\ nativeRows'[Len(rows)' + 1].life = life'
                                /\ nativeRows'[Len(rows)' + 1].frame = refFrame'
                                /\ nativeRows'[Len(rows)' + 1].seen = Append(shown', refFrame')
      BY DEF HoTail
    <3>1. Len(rows)' = 0
      BY <2>1
    <3>2. Len(rows) > 0 /\ nativeRows' = rows
      BY <2>1, <1>1, LenProperties
    <3>3. rows[1].frame = 0 /\ rows[1].life = 0 /\ rows[1].seen = <<0>>
      BY <3>2, <2>4 DEF Chain
    <3>4. Append(<<>>, 0) = <<0>>
      OBVIOUS
    <3>5. tail'.firstDone = Never
      BY <2>1 DEF NoTail
    <3>6. shown' = <<>> /\ refFrame' = 0 /\ life' = 0
      BY <2>1
    <3> QED BY <3>1, <3>2, <3>3, <3>4, <3>5, <3>6
  <2> QED BY <2>1, <2>3, <2>5, <2>6, <2>7 DEF HoInv
<1> QED BY <1>4, <1>5, <1>6

LEMMA TailEnds == ASSUME HoInv, EndTail PROVE HoInv'
<1>1. HoTypes /\ HoNative /\ HoTail /\ kind = "tail" /\ Len(rows) = RolloutSteps
  BY DEF HoInv, EndTail
<1>2. /\ Chain(nativeRows) /\ Len(nativeRows) = RolloutSteps /\ nativeRows \in Seq(HoRows)
      /\ \A i \in 1 .. Len(nativeRows) : NativeRow(nativeRows[i])
      /\ \E i \in 1 .. Len(nativeRows) : nativeRows[i].reset
  BY <1>1 DEF HoNative, HoTypes
<1>3. DOMAIN nativeRows = 1 .. Len(nativeRows) /\ Len(nativeRows) \in Nat
  BY <1>2, LenProperties
<1>4. \A i \in 1 .. Len(nativeRows) : nativeRows[i].reset <=> Done(nativeRows[i])
  <2> TAKE i \in 1 .. Len(nativeRows)
  <2>1. RowAlone(nativeRows[i])
    BY <1>2 DEF Chain
  <2> QED BY <2>1, Zenon DEF RowAlone, Done
<1>5. PICK S : S = {i \in DOMAIN nativeRows : Done(nativeRows[i])}
  OBVIOUS
<1>6. S \in SUBSET Nat /\ S # {}
  BY <1>2, <1>3, <1>4, <1>5
<1>7. PICK f : f = Min(S)
  OBVIOUS
<1>8. f \in S /\ \A y \in S : f <= y
  BY <1>6, <1>7, Smallest
<1>9. f \in 1 .. Len(nativeRows) /\ FirstEnd(f)
  <2>1. f \in 1 .. Len(nativeRows) /\ nativeRows[f].reset
    BY <1>3, <1>4, <1>5, <1>8
  <2>2. ASSUME NEW k \in 1 .. f - 1, nativeRows[k].reset PROVE FALSE
    <3>1. k \in 1 .. Len(nativeRows)
      BY <2>1, <1>3
    <3>2. k \in S
      BY <3>1, <2>2, <1>3, <1>4, <1>5
    <3> QED BY <3>2, <2>1, <1>8, <1>3
  <2> QED BY <2>1, <2>2 DEF FirstEnd
<1>10. \A i \in 1 .. Len(rows) : i <= f =>
             /\ rows[i].outcome = nativeRows[i].outcome /\ rows[i].state = nativeRows[i].state
             /\ i < f => rows[i].next = nativeRows[i].next
             /\ i = f => rows[i].after = 0
  BY <1>1, <1>9 DEF HoTail
<1>11. PrefixAgrees(nativeRows, rows)
  <2>1. Len(nativeRows) = Len(rows) /\ rows[f].after = 0
    BY <1>1, <1>2, <1>9, <1>10, <1>3
  <2>2. \A i \in 1 .. f : /\ nativeRows[i].terminated = rows[i].outcome.terminated
                          /\ nativeRows[i].truncated = rows[i].outcome.truncated
                          /\ nativeRows[i].state = rows[i].state
    <3> TAKE i \in 1 .. f
    <3>1. i \in 1 .. Len(nativeRows) /\ i \in 1 .. Len(rows) /\ i <= f
      BY <1>9, <2>1, <1>3
    <3>2. NativeRow(nativeRows[i])
      BY <3>1, <1>2
    <3> QED BY <3>1, <3>2, <1>10 DEF NativeRow
  <2>3. PhasesAgree(nativeRows, rows, f)
    <3>1. \A i \in 1 .. f - 1 : i \in 1 .. Len(rows) /\ i <= f /\ i < f
      BY <1>9, <2>1, <1>3
    <3> QED BY <3>1, <1>10 DEF PhasesAgree
  <2> QED BY <2>1, <2>2, <2>3, <1>5, <1>7, Zenon DEF PrefixAgrees
<1>12. ruling' = "verified" /\ UNCHANGED <<kind, refFrame, life, shown, tail, telemetry, rows, nativeRows>>
  BY <1>11 DEF EndTail
<1> QED BY <1>12, HoRuled

LEMMA HoKept == ASSUME HoInv, [HoNext]_hovars PROVE HoInv'
<1>1. ASSUME NEW o \in Outcomes, Step(o) PROVE HoInv'
  BY <1>1, HoStepped
<1>2. ASSUME NEW turned \in BOOLEAN, EndTrial(turned) PROVE HoInv'
  <2>1. ruling' \in {"success", "failure"} /\ UNCHANGED <<kind, refFrame, life, shown, tail, telemetry, rows, nativeRows>>
    BY <1>2 DEF EndTrial
  <2> QED BY <2>1, HoRuled
<1>3. CASE UNCHANGED hovars
  <2>1. UNCHANGED <<kind, refFrame, life, shown, tail, telemetry, rows, nativeRows>> /\ ruling' = ruling
    BY <1>3 DEF hovars
  <2>2. ruling' \in {"running", "censored", "scored", "verified", "success", "failure"}
    BY <2>1 DEF HoInv, HoTypes
  <2> QED BY <2>1, <2>2, HoRuled
<1> QED BY <1>1, <1>2, <1>3, NativeEnds, TailEnds DEF HoNext

ShowsFirst(s, i) == s[i].life = 0 /\ s[i].seen = UpTo(i)

LEMMA HoTellsEvaluated == ASSUME HoInv PROVE EvaluatedAsRun
<1>0. rows \in Seq(HoRows) /\ DOMAIN rows = 1 .. Len(rows) /\ Len(rows) \in Nat
  BY LenProperties DEF HoInv, HoTypes
<1>1. ScoreOfFirstLife
  <2> SUFFICES ASSUME kind = "native", Len(rows) >= HorizonSteps, ~ScoreRefused(rows)
               PROVE  /\ \A i \in DOMAIN Scored(rows) : ShowsFirst(Scored(rows), i)
                      /\ Len(Scored(rows)) = HorizonSteps \/ Last(Scored(rows)).terminated
    BY Zenon DEF ScoreOfFirstLife, ShowsFirst, UpTo
  <2>1. ~Censored(rows)
    BY DEF ScoreRefused
  <2>2. PICK m \in 1 .. Len(rows) :
            /\ m <= HorizonSteps /\ Len(Scored(rows)) = m /\ DOMAIN Scored(rows) = 1 .. m
            /\ \A i \in 1 .. m : Scored(rows)[i] = rows[i] /\ NoEndBefore(i)
            /\ m = HorizonSteps \/ rows[m].terminated
    BY <2>1, ScoredRows
  <2>3. \A i \in 1 .. m : ShowsFirst(Scored(rows), i)
    <3> TAKE i \in 1 .. m
    <3>1. i \in 1 .. Len(rows) /\ i <= HorizonSteps /\ NoEndBefore(i)
      BY <2>2, <1>0, HoldoutAssumption
    <3>2. rows[i].life = 0 /\ rows[i].seen = UpTo(i)
      BY <3>1 DEF HoInv, HoFirst
    <3> QED BY <2>2, <3>2 DEF ShowsFirst
  <2>4. m = HorizonSteps \/ Last(Scored(rows)).terminated
    <3>1. Last(Scored(rows)) = rows[m]
      BY <2>2 DEF Last
    <3> QED BY <2>2, <3>1
  <2> QED BY <2>2, <2>3, <2>4
<1>2. AttemptsOfOneLife
  <2> SUFFICES ASSUME NEW a \in Attempts(rows), NEW i \in a.from .. a.to, NEW j \in a.from .. a.to
               PROVE  rows[i].state.life = rows[j].state.life
    BY DEF AttemptsOfOneLife
  <2>1. PICK p \in Spans(rows, {k \in DOMAIN rows : rows[k].reset \/ rows[k].wrap}) :
            a = [from |-> p[1], to |-> IF rows[p[2]].wrap THEN p[2] - 1 ELSE p[2]]
    BY Zenon DEF Attempts
  <2>2. /\ p[1] \in 1 .. Len(rows) /\ p[2] \in 1 .. Len(rows)
        /\ \A k \in p[1] .. p[2] - 1 : k \notin {q \in DOMAIN rows : rows[q].reset \/ rows[q].wrap}
    BY <1>0, <2>1 DEF Spans
  <2>3. a.from = p[1] /\ a.to = (IF rows[p[2]].wrap THEN p[2] - 1 ELSE p[2])
    BY <2>1
  <2>4. \A k \in p[1] .. p[2] - 1 : ~rows[k].reset /\ ~rows[k].wrap
    <3> TAKE k \in p[1] .. p[2] - 1
    <3>1. k \in DOMAIN rows
      BY <1>0, <2>2
    <3> QED BY <2>2, <3>1
  <2>5. \A k \in a.from .. a.to : k \in 1 .. Len(rows) /\ k <= p[2] /\ p[1] <= k /\ ~rows[k].wrap
    <3> TAKE k \in a.from .. a.to
    <3>1. k \in 1 .. Len(rows) /\ k <= p[2] /\ p[1] <= k
      BY <2>2, <2>3, <1>0
    <3>2. CASE k < p[2]
      <4>1. k \in p[1] .. p[2] - 1
        BY <3>1, <3>2, <2>2, <1>0
      <4> QED BY <3>1, <4>1, <2>4
    <3>3. CASE k = p[2]
      <4>1. ~rows[p[2]].wrap
        BY <3>3, <2>2, <2>3, <1>0
      <4> QED BY <3>1, <3>3, <4>1
    <3> QED BY <3>1, <3>2, <3>3, <2>2, <1>0
  <2>6. \A k \in a.from .. a.to : rows[k].state.life = rows[k].life
    <3> TAKE k \in a.from .. a.to
    <3>1. RowAlone(rows[k]) /\ ~rows[k].wrap
      BY <2>5 DEF HoInv, HoChain, Chain
    <3> QED BY <3>1 DEF RowAlone
  <2>7. \A x, y \in a.from .. a.to : x <= y => rows[x].life = rows[y].life
    <3> SUFFICES ASSUME NEW x \in a.from .. a.to, NEW y \in a.from .. a.to, x <= y PROVE rows[x].life = rows[y].life
      OBVIOUS
    <3>1. x \in 1 .. Len(rows) /\ y \in 1 .. Len(rows) /\ p[1] <= x /\ y <= p[2]
      BY <2>5
    <3>2. \A k \in x .. y - 1 : ~rows[k].reset /\ ~rows[k].wrap
      BY <3>1, <2>2, <2>4, <1>0
    <3> QED BY <3>1, <3>2 DEF HoInv, HoLives
  <2>8. i <= j \/ j <= i
    BY <2>5, <1>0
  <2> QED BY <2>6, <2>7, <2>8
<1>3. NothingRefusedInEvaluation
  BY <1>0 DEF NothingRefusedInEvaluation, HoInv, HoTrial
<1> QED BY <1>1, <1>2, <1>3 DEF EvaluatedAsRun, HoInv

(* Whatever a policy does in a rollout: what is scored is the first life of the  *)
(* robot up to its first failure, an attempt is measured over one life, a        *)
(* landing follows a flight and an inversion of its own life and is counted      *)
(* once, the replay repeats the native rollout up to its first end, and no       *)
(* record is refused by the checks made of it (unidr_holdout, trajectory_metrics, *)
(* failure_tail, flip_trials, checkpoint_series under visualization/).            *)
THEOREM EvaluationIsAsRun == HoSpec => []EvaluatedAsRun
<1>1. HoInit => HoInv
  BY HoBegins
<1>2. HoInv /\ [HoNext]_hovars => HoInv'
  BY HoKept
<1>3. HoInv => EvaluatedAsRun
  BY HoTellsEvaluated
<1> QED BY <1>1, <1>2, <1>3, PTL DEF HoSpec

------------------------------------------------------------------------------
(* Footstand                                                                  *)

\* The joints of the actions: each action has its own.
Wired == \A i, k \in Joints : JointIds[i] \in Joints /\ (JointIds[i] = JointIds[k] => i = k)

LEMMA EachItsJoint ==
  ASSUME fsConfig \in FsConfigs, ~ActionRefused(fsConfig)
  PROVE  Wired
<1> DEFINE found == fsConfig.joints
<1>1. /\ Len(found) = Cardinality(Joints)
      /\ \A i \in DOMAIN found : Cardinality(found[i]) = 1
      /\ \A i, k \in DOMAIN found : found[i] = found[k] => i = k
      /\ UNION Range(found) = Joints
  BY Zenon DEF ActionRefused
<1>2. found \in Seq(SUBSET Nat)
  BY FootstandAssumption
<1>3. IsFiniteSet(Joints) /\ Cardinality(Joints) = 2
  <2>1. Joints = 1 .. 2
    BY DEF Joints
  <2>2. IsFiniteSet(1 .. 2) /\ Cardinality(1 .. 2) = 2
    <3>1. 1 \in Int /\ 2 \in Int /\ ~ (1 > 2) /\ 2 - 1 + 1 = 2
      OBVIOUS
    <3> QED BY <3>1, FS_Interval
  <2> QED BY <2>1, <2>2
<1>4. DOMAIN found = Joints
  <2>1. Len(found) = 2
    BY <1>1, <1>3
  <2>2. DOMAIN found = 1 .. 2
    BY <1>2, <2>1
  <2> QED BY <2>2 DEF Joints
<1>5. ASSUME NEW i \in Joints PROVE \E j \in Joints : found[i] = {j}
  <2>1. found[i] \in Range(found)
    BY <1>4 DEF Range
  <2>2. found[i] \subseteq Joints
    BY <1>1, <2>1
  <2>3. IsFiniteSet(found[i]) /\ Cardinality(found[i]) = 1
    BY <1>1, <1>3, <1>4, <2>2, FS_Subset
  <2>4. PICK j : found[i] = {j}
    BY <2>3, FS_Singleton
  <2> QED BY <2>2, <2>4
<1>6. \A i \in Joints : JointIds[i] \in Joints /\ found[i] = {JointIds[i]}
  BY <1>5 DEF JointIds
<1>7. \A i, k \in Joints : JointIds[i] = JointIds[k] => i = k
  BY <1>1, <1>4, <1>6
<1> QED BY <1>6, <1>7 DEF Wired

LEMMA OwnAction ==
  ASSUME Wired, NEW i \in Joints
  PROVE  (CHOOSE k \in Joints : JointIds[k] = JointIds[i]) = i
<1> HIDE DEF JointIds
<1> QED BY DEF Wired

LEMMA TorqueOf ==
  ASSUME Wired, NEW targets, NEW s, NEW i \in Joints
  PROVE  Torque(targets, s)[JointIds[i]] = fsConfig.kp * (targets[i] - s.pose.joint[JointIds[i]])
                                           - fsConfig.kd * s.pose.velocity[JointIds[i]]
<1>1. JointIds[i] \in Joints
  BY DEF Wired
<1> QED BY <1>1, OwnAction DEF Torque

LEMMA LimitsOf ==
  ASSUME Wired, NEW i \in Joints
  PROVE  JointLimits[JointIds[i]] = TargetLimits(i)
<1>1. JointIds[i] \in Joints
  BY DEF Wired
<1> QED BY <1>1, OwnAction DEF JointLimits, TargetLimits

LEMMA SameTotal ==
  ASSUME fsConfig' = fsConfig, NEW CONSTANT w
  PROVE  Total(w)' = Total(w)
  BY SMT DEF Total, Values, SoftLimit, JointLimits, JointIds, Energy, OverJoints, Acceleration, Moved, Bool, Positive,
     Square, Abs, Standing

LEMMA TotalAgain ==
  ASSUME fsConfig' = fsConfig, NEW CONSTANT e, Evidence(e)' = Evidence(e)
  PROVE  Total(Evidence(e))' = Total(Evidence(e))
<1>1. Values(Evidence(e))' = Values(Evidence(e))
  BY DEF Values, SoftLimit, JointLimits, JointIds, Energy, OverJoints, Acceleration, Moved, Bool, Positive, Square,
     Abs, Standing
<1> QED BY <1>1 DEF Total

------------------------------------------------------------------------------
FsTypes ==
    /\ fsConfig \in FsConfigs /\ fsPc \in {"init", "refused", "badMass", "run"} /\ fsCounter \in Nat
    /\ fsAge \in [FsEnv -> Nat] /\ commanded \in [FsEnv -> Seq([Joints -> Int])]

\* A life that was given an age is this one or one before it, and no life comes twice.
FsLives ==
    \A e \in FsEnv : /\ world[e].life \in Nat /\ staggered[e].life \in Nat /\ staggered[e].age \in Nat
                     /\ staggered[e].life =< world[e].life

\* The configuration was accepted, and the snapshot's counter is that of the environment.
FsClock == fsPc = "run" => ~ActionRefused(fsConfig) /\ fsCounterLast = fsCounter

\* The snapshot shows the simulator as it is in this control step.
FsSeen ==
    fsPc = "run" =>
        /\ seen = world /\ lastFoot = world
        /\ \A e \in FsEnv : world[e].step = fsCounter /\ torques[e] = Torque(target[e], world[e])

\* f is the way from the joints of the reset to the targets after each action of this life.
Late == IF fsConfig.latency THEN 1 ELSE 0
Led(f, e, n) ==
    [i \in Joints |-> IF n = 0 THEN commanded[e][1][JointIds[i]]
                      ELSE Clamp(f[n - 1][i] + fsConfig.scale * Acted(e, n - Late)[i],
                                 TargetLimits(i)[1], TargetLimits(i)[2])]
Reaches(f, e) == f = [n \in 0 .. Acts(e) |-> Led(f, e, n)]

\* The action term: a row has been commanded at its reset and at each step since, which
\* with the age it was given is its age, and its
\* targets and actions are those of this life.
FsCommanded ==
    fsPc = "run" => \A e \in FsEnv :
        /\ commanded[e] # <<>> /\ Acts(e) =< fsCounter /\ fsAge[e] = Acts(e) + HeadStart(e)
        /\ fsRaw[e] = Acted(e, Acts(e)) /\ fsPrevious[e] = Acted(e, Acts(e) - 1) /\ shownRaw[e] = fsPrevious[e]
        /\ \E f : Reaches(f, e) /\ f[Acts(e)] = target[e]

FsInv ==
    /\ FsTypes /\ FsLives /\ FsClock /\ FsSeen /\ RatesOfOneLife /\ AnchorIsTouchdown /\ FsCommanded
    /\ RewardOfThisStep /\ MassFromDefaults

LEMMA FsBegins == FsInit => FsInv
<1> SUFFICES ASSUME FsInit PROVE FsInv
  OBVIOUS
<1>1. FsTypes
  BY DEF FsInit, FsTypes
<1>2. AnchorIsTouchdown
  BY DEF FsInit, AnchorIsTouchdown
<1>3. fsPc # "run"
  BY DEF FsInit
<1>4. FsLives
  BY DEF FsInit, FsLives, Sample
<1> QED
  BY <1>1, <1>2, <1>3, <1>4 DEF FsInv, FsClock, FsSeen, RatesOfOneLife, FsCommanded, RewardOfThisStep, MassFromDefaults

------------------------------------------------------------------------------
(* A control step                                                             *)

\* An action of this life is the same while the command is on record.
LEMMA ActedAgain ==
  ASSUME fsConfig' = fsConfig, NEW CONSTANT e, NEW CONSTANT n \in Int,
         n >= 1 => commanded'[e][n + 1] = commanded[e][n + 1]
  PROVE  Acted(e, n)' = Acted(e, n)
<1>1. CASE n < 1
  BY <1>1 DEF Acted
<1>2. CASE n >= 1
  BY <1>2 DEF Acted
<1> QED BY <1>1, <1>2

LEMMA Stepping ==
  ASSUME FsInv, FsStep
  PROVE  /\ fsPc = "run" /\ fsPc' = "run" /\ fsConfig' = fsConfig /\ mass' = mass /\ staggered' = staggered
         /\ fsCounter \in Nat /\ fsCounter' = fsCounter + 1 /\ fsCounterLast' = fsCounter'
         /\ \E a \in FsActions, poses \in PoseBatches :
              /\ ProcessIncrements([e \in FsEnv |-> a])
              /\ world' = [e \in FsEnv |-> Sample(poses[e], world[e].life, fsCounter + 1)]
              /\ commanded' = [e \in FsEnv |-> Append(commanded[e], a)]
              /\ stance' = [e \in FsEnv |->
                    IF ~(poses[e].rear /\ Standing(world'[e])) THEN <<>>
                    ELSE IF stance[e] = <<>> THEN <<world'[e]>> ELSE stance[e]]
         /\ fsAge' = [e \in FsEnv |-> fsAge[e] + 1]
         /\ TakeSnapshot(target') /\ fsCounter' # fsCounterLast
         /\ fsTerminated' = [e \in FsEnv |-> Ends(e)]
         /\ rewarded' = [e \in FsEnv |-> Evidence(e)']
         /\ fsReward' = [e \in FsEnv |-> Total(rewarded'[e])]
         /\ shownRaw' = fsPrevious'
<1>1. fsPc = "run" /\ fsCounter \in Nat /\ fsCounterLast = fsCounter /\ fsCounter' = fsCounter + 1
  BY DEF FsStep, FsInv, FsTypes, FsClock
<1>2. ~SnapshotRefused(fsCounter') /\ fsCounter' # fsCounterLast
  BY <1>1 DEF SnapshotRefused
<1>3. TakeSnapshot(target') /\ fsPc' = "run"
  BY <1>2 DEF FsStep
<1>4. fsCounterLast' = fsCounter'
  BY <1>2, <1>3 DEF TakeSnapshot
<1> QED
  BY <1>1, <1>2, <1>3, <1>4 DEF FsStep

LEMMA SnapshotTaken ==
  ASSUME TakeSnapshot(target'), fsCounter' # fsCounterLast
  PROVE  /\ seen' = world' /\ lastFoot' = world'
         /\ torques' = [e \in FsEnv |-> Torque(target'[e], world'[e])]
         /\ qacc' = [e \in FsEnv |-> <<seen[e], world'[e]>>]
         /\ rearSpeed' = [e \in FsEnv |-> <<lastFoot[e], world'[e]>>]
         /\ anchorContact' = [e \in FsEnv |-> world'[e].pose.rear /\ Standing(world'[e])]
         /\ anchor' = [e \in FsEnv |-> IF world'[e].pose.rear /\ Standing(world'[e]) /\ ~anchorContact[e]
                                       THEN world'[e] ELSE anchor[e]]
         /\ anchorDrift' = [e \in FsEnv |-> <<anchor'[e], world'[e]>>]
<1>1. anchor' = FsOver(anchor, {e \in FsEnv : [x \in FsEnv |-> world'[x].pose.rear /\ Standing(world'[x])][e]
                                              /\ ~anchorContact[e]}, world')
  BY DEF TakeSnapshot
<1> QED
  BY <1>1 DEF TakeSnapshot, FsOver

LEMMA MassesKept ==
  ASSUME MassFromDefaults, fsPc' = fsPc, fsConfig' = fsConfig, mass' = mass
  PROVE  MassFromDefaults'
<1>1. ASSUME NEW e \in FsEnv, fsPc = "run"
      PROVE  (\E scale \in MassScales, added \in AddedMasses :
                 mass[e] = DrawnMass(scale, added) /\ ~NonPositive(mass[e]))'
  <2>1. PICK scale \in MassScales, added \in AddedMasses :
          mass[e] = DrawnMass(scale, added) /\ ~NonPositive(mass[e])
    BY <1>1 DEF MassFromDefaults
  <2>2. MassScales' = MassScales /\ AddedMasses' = AddedMasses
    BY DEF MassScales, AddedMasses
  <2>3. DrawnMass(scale, added)' = DrawnMass(scale, added) /\ NonPositive(mass[e])' = NonPositive(mass[e])
    BY DEF DrawnMass, NonPositive
  <2> QED BY <2>1, <2>2, <2>3
<1> QED BY <1>1 DEF MassFromDefaults

LEMMA ShownAfterStep ==
  ASSUME FsInv, FsStep
  PROVE  FsTypes' /\ FsClock' /\ FsSeen' /\ MassFromDefaults'
<1> USE Stepping
<1>1. FsTypes'
  <2>1. PICK a \in FsActions : commanded' = [e \in FsEnv |-> Append(commanded[e], a)]
    OBVIOUS
  <2>2. a \in [Joints -> Int]
    BY FootstandAssumption
  <2>3. commanded' \in [FsEnv -> Seq([Joints -> Int])]
    BY <2>1, <2>2 DEF FsInv, FsTypes
  <2> QED BY <2>3 DEF FsInv, FsTypes
<1>2. FsClock'
  <2>1. ~ActionRefused(fsConfig)
    BY DEF FsInv, FsClock
  <2> QED BY <2>1 DEF FsClock
<1>3. FsSeen'
  <2>1. ASSUME NEW e \in FsEnv PROVE world'[e].step = fsCounter'
    BY DEF Sample
  <2>2. /\ seen' = world' /\ lastFoot' = world'
        /\ torques' = [e \in FsEnv |-> Torque(target'[e], world'[e])]
    BY SnapshotTaken
  <2>3. ASSUME NEW e \in FsEnv PROVE Torque(target[e], world[e])' = Torque(target'[e], world'[e])
    BY DEF Torque, JointIds
  <2> QED BY <2>1, <2>2, <2>3 DEF FsSeen
<1>4. MassFromDefaults'
  BY MassesKept DEF FsInv
<1> QED BY <1>1, <1>2, <1>3, <1>4

LEMMA RatesAfterStep ==
  ASSUME FsInv, FsStep
  PROVE  RatesOfOneLife'
<1> USE Stepping, SnapshotTaken
<1>1. ASSUME NEW e \in FsEnv
      PROVE  /\ qacc'[e] = <<world[e], world'[e]>> /\ rearSpeed'[e] = <<world[e], world'[e]>>
             /\ world'[e].life = world[e].life /\ world[e].step = world'[e].step - 1
  <2>1. seen[e] = world[e] /\ lastFoot[e] = world[e] /\ world[e].step = fsCounter
    BY DEF FsInv, FsSeen
  <2>2. world'[e].life = world[e].life /\ world'[e].step = fsCounter + 1
    BY DEF Sample
  <2>3. fsCounter = (fsCounter + 1) - 1
    OBVIOUS
  <2> QED BY <2>1, <2>2, <2>3
<1>2. ASSUME NEW e \in FsEnv, NEW pair \in {qacc'[e], rearSpeed'[e]}
      PROVE  pair[2] = world'[e] /\ pair[1].life = pair[2].life /\ pair[1].step = pair[2].step - 1
  <2> HIDE Stepping, SnapshotTaken
  <2>1. pair = <<world[e], world'[e]>>
    BY <1>1
  <2> QED BY <1>1, <2>1
<1> QED BY <1>2 DEF RatesOfOneLife

LEMMA AnchorAfterStep ==
  ASSUME FsInv, FsStep
  PROVE  AnchorIsTouchdown'
<1> USE Stepping, SnapshotTaken
<1>1. ASSUME NEW e \in FsEnv
      PROVE  /\ anchorContact'[e] <=> stance'[e] # <<>>
             /\ anchorContact'[e] => anchor'[e] = stance'[e][1] /\ anchorDrift'[e] = <<stance'[e][1], world'[e]>>
  <2>1. PICK poses \in PoseBatches :
          /\ world' = [x \in FsEnv |-> Sample(poses[x], world[x].life, fsCounter + 1)]
          /\ stance' = [x \in FsEnv |->
                IF ~(poses[x].rear /\ Standing(world'[x])) THEN <<>>
                ELSE IF stance[x] = <<>> THEN <<world'[x]>> ELSE stance[x]]
    OBVIOUS
  <2>2. world'[e].pose = poses[e]
    BY <2>1 DEF Sample
  <2>3. /\ anchorContact[e] <=> stance[e] # <<>>
        /\ anchorContact[e] => anchor[e] = stance[e][1]
    BY DEF FsInv, AnchorIsTouchdown
  <2>4. /\ anchorContact'[e] <=> world'[e].pose.rear /\ Standing(world'[e])
        /\ anchor'[e] = IF world'[e].pose.rear /\ Standing(world'[e]) /\ ~anchorContact[e]
                        THEN world'[e] ELSE anchor[e]
        /\ anchorDrift'[e] = <<anchor'[e], world'[e]>>
    OBVIOUS
  <2>5. stance'[e] = IF ~(world'[e].pose.rear /\ Standing(world'[e])) THEN <<>>
                     ELSE IF stance[e] = <<>> THEN <<world'[e]>> ELSE stance[e]
    BY <2>1, <2>2
  <2> HIDE Stepping, SnapshotTaken
  <2>6. <<world'[e]>> # <<>> /\ <<world'[e]>>[1] = world'[e]
    OBVIOUS
  <2>7. CASE ~(world'[e].pose.rear /\ Standing(world'[e]))
    BY <2>4, <2>5, <2>7
  <2>8. CASE world'[e].pose.rear /\ Standing(world'[e]) /\ stance[e] = <<>>
    BY <2>3, <2>4, <2>5, <2>6, <2>8
  <2>9. CASE world'[e].pose.rear /\ Standing(world'[e]) /\ stance[e] # <<>>
    BY <2>3, <2>4, <2>5, <2>9
  <2> QED BY <2>7, <2>8, <2>9
<1> QED BY <1>1 DEF AnchorIsTouchdown

\* A control step keeps the life and the age it was given.
LEMMA StepKeepsLives ==
  ASSUME FsInv, FsStep
  PROVE  /\ FsLives'
         /\ \A e \in FsEnv : HeadStart(e)' = HeadStart(e) /\ HeadStart(e) \in Nat
<1>1. PICK poses \in PoseBatches : world' = [e \in FsEnv |-> Sample(poses[e], world[e].life, fsCounter + 1)]
  BY Stepping
<1>2. ASSUME NEW e \in FsEnv PROVE world'[e].life = world[e].life
  BY <1>1 DEF Sample
<1>3. staggered' = staggered /\ FsLives
  BY Stepping DEF FsInv
<1> QED BY <1>2, <1>3 DEF FsLives, HeadStart

LEMMA CommandAfterStep ==
  ASSUME FsInv, FsStep
  PROVE  FsCommanded'
<1>1. PICK a \in FsActions :
        /\ ProcessIncrements([e \in FsEnv |-> a])
        /\ commanded' = [e \in FsEnv |-> Append(commanded[e], a)]
  BY Stepping
<1>2. /\ fsPc = "run" /\ fsConfig' = fsConfig /\ shownRaw' = fsPrevious'
      /\ fsAge' = [e \in FsEnv |-> fsAge[e] + 1]
  BY Stepping
<1>3. SUFFICES ASSUME NEW e \in FsEnv
      PROVE  /\ commanded'[e] # <<>> /\ Acts(e)' =< fsCounter' /\ fsAge'[e] = Acts(e)' + HeadStart(e)'
             /\ fsRaw'[e] = Acted(e, Acts(e))' /\ fsPrevious'[e] = Acted(e, Acts(e) - 1)'
             /\ shownRaw'[e] = fsPrevious'[e]
             /\ \E f : Reaches(f, e)' /\ f[Acts(e)'] = target'[e]
  BY DEF FsCommanded
<1>4. /\ commanded[e] # <<>> /\ Acts(e) =< fsCounter /\ fsAge[e] = Acts(e) + HeadStart(e)
      /\ fsRaw[e] = Acted(e, Acts(e)) /\ fsPrevious[e] = Acted(e, Acts(e) - 1)
  BY <1>2 DEF FsInv, FsCommanded
<1>5. commanded[e] \in Seq([Joints -> Int]) /\ commanded'[e] = Append(commanded[e], a) /\ a \in [Joints -> Int]
  BY <1>1, FootstandAssumption DEF FsInv, FsTypes
<1>6. PICK N \in Nat : N = Acts(e)
  <2>1. Acts(e) \in Nat
    <3>1. Len(commanded[e]) \in Nat /\ Len(commanded[e]) # 0
      BY <1>4, <1>5
    <3> QED BY <3>1 DEF Acts
  <2> QED BY <2>1
<1>7. PICK f : Reaches(f, e) /\ f[N] = target[e]
  BY <1>2, <1>6 DEF FsInv, FsCommanded
<1>8. PICK late \in {0, 1} : late = IF fsConfig.latency THEN 1 ELSE 0
  OBVIOUS
<1>9. PICK t : t = target'[e]
  OBVIOUS
<1>10. /\ Len(commanded[e]) = N + 1 /\ Acts(e)' = N + 1
       /\ commanded'[e] # <<>> /\ commanded'[e][N + 2] = a
       /\ \A n \in 1 .. N + 1 : commanded'[e][n] = commanded[e][n]
  <2>1. Len(commanded[e]) \in Nat /\ Len(commanded[e]) = N + 1
    BY <1>5, <1>6 DEF Acts
  <2>2. /\ Len(commanded'[e]) = N + 2 /\ commanded'[e][N + 2] = a
        /\ \A n \in 1 .. N + 1 : commanded'[e][n] = commanded[e][n]
    BY <1>5, <2>1
  <2>3. Acts(e)' = N + 1
    BY <2>2 DEF Acts
  <2>4. commanded'[e] # <<>>
    BY <2>2
  <2> QED BY <2>1, <2>2, <2>3, <2>4
<1>11. ASSUME NEW n \in Int, n <= N PROVE Acted(e, n)' = Acted(e, n)
  <2>1. n >= 1 => n + 1 \in 1 .. N + 1
    BY <1>11
  <2>2. n >= 1 => commanded'[e][n + 1] = commanded[e][n + 1]
    BY <1>10, <2>1
  <2> QED BY <1>2, <2>2, ActedAgain
<1>12. /\ fsPrevious'[e] = fsRaw[e]
       /\ fsRaw'[e] = [i \in Joints |-> Clamp(a[i], -fsConfig.clip, fsConfig.clip)]
       /\ t = [i \in Joints |->
             Clamp(target[e][i] + fsConfig.scale * (IF fsConfig.latency THEN fsRaw[e] ELSE fsRaw'[e])[i],
                   TargetLimits(i)[1], TargetLimits(i)[2])]
  BY <1>1, <1>9 DEF ProcessIncrements
<1>13. fsRaw'[e] = Acted(e, N + 1)'
  <2>1. ~ (N + 1 < 1) /\ (N + 1) + 1 = N + 2
    OBVIOUS
  <2>2. Acted(e, N + 1)' = [i \in Joints |-> Clamp(commanded'[e][N + 2][i], -fsConfig.clip, fsConfig.clip)]
    BY <1>2, <2>1 DEF Acted
  <2> QED BY <1>10, <1>12, <2>2
<1>14. /\ fsRaw'[e] = Acted(e, Acts(e))' /\ fsPrevious'[e] = Acted(e, Acts(e) - 1)'
  <2>1. fsPrevious'[e] = Acted(e, N)'
    BY <1>4, <1>6, <1>11, <1>12
  <2>2. Acted(e, Acts(e))' = Acted(e, N + 1)'
    BY <1>10 DEF Acted
  <2>3. Acted(e, Acts(e) - 1)' = Acted(e, N)'
    <3>1. Acts(e)' - 1 = N
      BY <1>10
    <3> QED BY <3>1 DEF Acted
  <2> QED BY <1>13, <2>1, <2>2, <2>3
<1>15. (IF fsConfig.latency THEN fsRaw[e] ELSE fsRaw'[e]) = Acted(e, N + 1 - late)'
  <2>1. CASE fsConfig.latency
    <3>1. late = 1 /\ N + 1 - late = N
      BY <1>8, <2>1
    <3>2. Acted(e, N + 1 - late)' = Acted(e, N)'
      BY <3>1 DEF Acted
    <3> QED BY <1>4, <1>6, <1>11, <2>1, <3>2
  <2>2. CASE ~fsConfig.latency
    <3>1. late = 0 /\ N + 1 - late = N + 1
      BY <1>8, <2>2
    <3>2. Acted(e, N + 1 - late)' = Acted(e, N + 1)'
      BY <3>1 DEF Acted
    <3> QED BY <1>13, <2>2, <3>2
  <2> QED BY <2>1, <2>2
<1>16. PICK g : g = [n \in 0 .. N + 1 |-> IF n = N + 1 THEN t ELSE f[n]]
  OBVIOUS
<1>17. g[N + 1] = t /\ \A n \in 0 .. N : g[n] = f[n]
  BY <1>16
<1>18. ASSUME NEW n \in Int, n >= 1
       PROVE  Led(g, e, n)' = [i \in Joints |->
                 Clamp(g[n - 1][i] + fsConfig.scale * Acted(e, n - late)'[i], TargetLimits(i)[1], TargetLimits(i)[2])]
  <2>1. Acted(e, n - Late)' = Acted(e, n - late)'
    BY <1>2, <1>8 DEF Acted, Late
  <2>2. n # 0
    BY <1>18
  <2> QED BY <1>2, <2>1, <2>2 DEF Led, TargetLimits
<1>19. ASSUME NEW n \in 0 .. N + 1 PROVE g[n] = Led(g, e, n)'
  <2>1. CASE n = N + 1
    <3>1. n >= 1 /\ n \in Int /\ n - 1 = N /\ N \in 0 .. N
      BY <2>1
    <3>2. g[n - 1] = target[e] /\ g[n] = t
      BY <1>7, <1>17, <2>1, <3>1
    <3>3. Acted(e, n - late)' = Acted(e, N + 1 - late)'
      BY <2>1 DEF Acted
    <3> QED BY <1>12, <1>15, <1>18, <3>1, <3>2, <3>3
  <2>2. CASE n \in 0 .. N
    <3>1. g[n] = Led(f, e, n)
      BY <1>6, <1>7, <1>17, <2>2 DEF Reaches
    <3>2. CASE n = 0
      <4>1. commanded'[e][1] = commanded[e][1]
        BY <1>10
      <4>2. JointIds' = JointIds
        BY <1>2 DEF JointIds
      <4> QED BY <3>1, <3>2, <4>1, <4>2 DEF Led
    <3>3. CASE n # 0
      <4>1. n - 1 \in 0 .. N /\ n \in Int /\ n >= 1 /\ n - late \in Int /\ n - late <= N
        BY <2>2, <3>3
      <4>2. g[n - 1] = f[n - 1] /\ Acted(e, n - late)' = Acted(e, n - late)
        BY <1>11, <1>17, <4>1
      <4>3. g[n] = [i \in Joints |->
                Clamp(f[n - 1][i] + fsConfig.scale * Acted(e, n - late)[i], TargetLimits(i)[1], TargetLimits(i)[2])]
        BY <1>8, <3>1, <3>3 DEF Led, Late
      <4> QED BY <1>18, <4>1, <4>2, <4>3
    <3> QED BY <3>2, <3>3
  <2> QED BY <2>1, <2>2
<1>20. Reaches(g, e)' /\ g[Acts(e)'] = target'[e]
  <2>1. g = [n \in 0 .. N + 1 |-> g[n]]
    BY <1>16
  <2>2. g = [n \in 0 .. N + 1 |-> Led(g, e, n)']
    BY <1>19, <2>1
  <2>3. g = [n \in 0 .. Acts(e)' |-> Led(g, e, n)']
    BY <1>10, <2>2
  <2> QED BY <1>9, <1>10, <1>17, <2>3 DEF Reaches
<1>21. fsAge'[e] = Acts(e)' + HeadStart(e)'
  <2>1. HeadStart(e) \in Nat /\ HeadStart(e)' = HeadStart(e)
    BY StepKeepsLives DEF FsInv, FsLives
  <2>2. fsAge'[e] = (N + HeadStart(e)) + 1
    BY <1>2, <1>4, <1>6
  <2> QED BY <1>10, <2>1, <2>2
<1>22. Acts(e)' =< fsCounter'
  <2>1. fsCounter \in Nat /\ fsCounter' = fsCounter + 1
    BY Stepping
  <2> QED BY <1>4, <1>6, <1>10, <2>1
<1> QED BY <1>2, <1>10, <1>14, <1>20, <1>21, <1>22

LEMMA RewardAfterStep ==
  ASSUME FsInv, FsStep
  PROVE  RewardOfThisStep'
<1>1. SUFFICES ASSUME NEW e \in FsEnv
      PROVE  /\ rewarded'[e] = Evidence(e)' /\ fsReward'[e] = Total(Evidence(e))'
             /\ fsTerminated'[e] =>
                   \/ seen'[e].pose.hit \/ seen'[e].pose.flipped
                   \/ Energy(torques[e], seen[e])' > fsConfig'.energyThreshold
                   \/ Acts(e)' + HeadStart(e)' > fsConfig'.grace
  BY DEF RewardOfThisStep
<1>2. /\ fsPc = "run" /\ fsConfig' = fsConfig
      /\ fsAge' = [x \in FsEnv |-> fsAge[x] + 1]
      /\ fsTerminated' = [x \in FsEnv |-> Ends(x)]
      /\ rewarded' = [x \in FsEnv |-> Evidence(x)']
      /\ fsReward' = [x \in FsEnv |-> Total(rewarded'[x])]
  BY Stepping
<1>3. rewarded'[e] = Evidence(e)'
  BY <1>2
<1>4. fsReward'[e] = Total(Evidence(e))'
  <2>1. PICK w : w = rewarded'[e]
    OBVIOUS
  <2>2. fsReward'[e] = Total(w)
    BY <1>2, <2>1
  <2>3. Total(w) = Total(w)'
    BY <1>2, SameTotal
  <2>4. Total(w)' = Total(Evidence(e))'
    <3>1. Values(w)' = Values(Evidence(e))'
      BY <1>3, <2>1 DEF Values, SoftLimit, JointLimits, JointIds, Energy, OverJoints, Acceleration, Moved, Bool,
         Positive, Square, Abs, Standing
    <3> QED BY <3>1 DEF Total
  <2> QED BY <2>2, <2>3, <2>4
<1>5. ASSUME fsTerminated'[e]
      PROVE  \/ seen'[e].pose.hit \/ seen'[e].pose.flipped
             \/ Energy(torques[e], seen[e])' > fsConfig'.energyThreshold
             \/ Acts(e)' + HeadStart(e)' > fsConfig'.grace
  <2>1. Ends(e)
    BY <1>2, <1>5
  <2>2. Energy(torques[e], seen[e])' = Energy(torques'[e], seen'[e])
    OBVIOUS
  <2>3. CASE PoseFailure(e)
    <3>1. fsAge'[e] - 1 >= fsConfig.grace
      BY <2>3 DEF PoseFailure
    <3>2. fsAge'[e] \in Nat /\ fsConfig.grace \in Int
      BY ShownAfterStep, FootstandAssumption DEF FsInv, FsTypes
    <3>3. fsAge'[e] = Acts(e)' + HeadStart(e)'
      BY Stepping, CommandAfterStep DEF FsCommanded
    <3> QED BY <1>2, <3>1, <3>2, <3>3
  <2> QED BY <1>2, <2>1, <2>2, <2>3 DEF Ends
<1> QED BY <1>3, <1>4, <1>5

------------------------------------------------------------------------------
(* The reset of some rows, or of all when the run starts or its counter goes back *)

RowsBegin(begun) ==
    /\ begun \subseteq FsEnv /\ (fsPc = "run" \/ begun = FsEnv) /\ (fsCounter' = fsCounter \/ begun = FsEnv)
    /\ ~ActionRefused(fsConfig) /\ fsConfig' = fsConfig /\ fsCounter' \in Nat
    /\ fsReward' = fsReward /\ rewarded' = rewarded /\ staggered' = staggered /\ \A e \in FsEnv \ begun : fsTerminated'[e] = fsTerminated[e]
    /\ ResetRows(begun)

\* What a reset leaves of each row.
Begun(begun, shift, drawn) ==
    /\ fsPc' = "run" /\ fsCounterLast' = fsCounter'
    /\ \A e \in begun :
          /\ mass'[e] = drawn
          /\ world'[e] = Sample(PlacedJoints(shift), world[e].life + 1, fsCounter')
          /\ seen'[e] = world'[e] /\ lastFoot'[e] = world'[e]
          /\ qacc'[e] = <<>> /\ rearSpeed'[e] = <<>> /\ ~anchorContact'[e] /\ stance'[e] = <<>>
          /\ fsRaw'[e] = [i \in Joints |-> 0] /\ fsPrevious'[e] = [i \in Joints |-> 0] /\ shownRaw'[e] = fsPrevious'[e]
          /\ target'[e] = JointsAsTargets(world'[e]) /\ torques'[e] = Torque(target'[e], world'[e])
          /\ fsAge'[e] = 0 /\ commanded'[e] = <<world'[e].pose.joint>>
    /\ \A e \in FsEnv \ begun :
          /\ mass'[e] = mass[e] /\ world'[e] = world[e] /\ seen'[e] = seen[e] /\ lastFoot'[e] = lastFoot[e]
          /\ qacc'[e] = qacc[e] /\ rearSpeed'[e] = rearSpeed[e]
          /\ anchorContact'[e] = anchorContact[e] /\ anchor'[e] = anchor[e] /\ anchorDrift'[e] = anchorDrift[e]
          /\ stance'[e] = stance[e] /\ torques'[e] = torques[e] /\ target'[e] = target[e]
          /\ fsRaw'[e] = fsRaw[e] /\ fsPrevious'[e] = fsPrevious[e] /\ shownRaw'[e] = shownRaw[e]
          /\ fsAge'[e] = fsAge[e] /\ commanded'[e] = commanded[e]

LEMMA RowsAreBegun ==
  ASSUME NEW begun, RowsBegin(begun), fsPc' # "badMass"
  PROVE  /\ \E shift \in JointOffsets, scale \in MassScales, added \in AddedMasses :
               /\ Begun(begun, shift, DrawnMass(scale, added)) /\ ~NonPositive(DrawnMass(scale, added))
         /\ world' = [e \in FsEnv |-> world'[e]] /\ seen' = [e \in FsEnv |-> seen'[e]]
         /\ lastFoot' = [e \in FsEnv |-> lastFoot'[e]] /\ fsAge' = [e \in FsEnv |-> fsAge'[e]]
         /\ commanded' = [e \in FsEnv |-> commanded'[e]]
<1>1. PICK shift \in JointOffsets, scale \in MassScales, added \in AddedMasses :
        /\ ~NonPositive(DrawnMass(scale, added)) /\ fsPc' = "run"
        /\ mass' = FsOver(mass, begun, [e \in FsEnv |-> DrawnMass(scale, added)])
        /\ world' = FsOver(world, begun,
               [e \in FsEnv |-> Sample(PlacedJoints(shift), world[e].life + 1, fsCounter')])
        /\ fsRaw' = FsOver(fsRaw, begun, [e \in FsEnv |-> [i \in Joints |-> 0]])
        /\ fsPrevious' = FsOver(fsPrevious, begun, [e \in FsEnv |-> [i \in Joints |-> 0]])
        /\ target' = FsOver(target, begun, [e \in FsEnv |-> JointsAsTargets(world'[e])])
        /\ ResetSnapshot(begun, target')
        /\ shownRaw' = FsOver(shownRaw, begun, fsPrevious')
        /\ fsAge' = FsOver(fsAge, begun, [e \in FsEnv |-> 0])
        /\ stance' = FsOver(stance, begun, [e \in FsEnv |-> <<>>])
        /\ commanded' = FsOver(commanded, begun, [e \in FsEnv |-> <<world'[e].pose.joint>>])
  BY Zenon DEF RowsBegin, ResetRows
<1>2. begun \subseteq FsEnv
  BY DEF RowsBegin
<1>3. ASSUME NEW e \in begun
      PROVE  /\ mass'[e] = DrawnMass(scale, added)
             /\ world'[e] = Sample(PlacedJoints(shift), world[e].life + 1, fsCounter')
             /\ seen'[e] = world'[e] /\ lastFoot'[e] = world'[e]
             /\ qacc'[e] = <<>> /\ rearSpeed'[e] = <<>> /\ ~anchorContact'[e] /\ stance'[e] = <<>>
             /\ fsRaw'[e] = [i \in Joints |-> 0] /\ fsPrevious'[e] = [i \in Joints |-> 0]
             /\ shownRaw'[e] = fsPrevious'[e]
             /\ target'[e] = JointsAsTargets(world'[e]) /\ torques'[e] = Torque(target'[e], world'[e])
             /\ fsAge'[e] = 0 /\ commanded'[e] = <<world'[e].pose.joint>>
  BY <1>1, <1>2 DEF FsOver, ResetSnapshot, ReleasedFeet
<1>4. ASSUME NEW e \in FsEnv \ begun
      PROVE  /\ mass'[e] = mass[e] /\ world'[e] = world[e] /\ seen'[e] = seen[e] /\ lastFoot'[e] = lastFoot[e]
             /\ qacc'[e] = qacc[e] /\ rearSpeed'[e] = rearSpeed[e]
             /\ anchorContact'[e] = anchorContact[e] /\ anchor'[e] = anchor[e] /\ anchorDrift'[e] = anchorDrift[e]
             /\ stance'[e] = stance[e] /\ torques'[e] = torques[e] /\ target'[e] = target[e]
             /\ fsRaw'[e] = fsRaw[e] /\ fsPrevious'[e] = fsPrevious[e] /\ shownRaw'[e] = shownRaw[e]
             /\ fsAge'[e] = fsAge[e] /\ commanded'[e] = commanded[e]
  BY <1>1, <1>4 DEF FsOver, ResetSnapshot, ReleasedFeet
<1>5. fsCounterLast' = fsCounter'
  BY <1>1 DEF ResetSnapshot
<1>6. Begun(begun, shift, DrawnMass(scale, added))
  BY <1>1, <1>3, <1>4, <1>5 DEF Begun
<1>7. /\ world' = [e \in FsEnv |-> world'[e]] /\ seen' = [e \in FsEnv |-> seen'[e]]
      /\ lastFoot' = [e \in FsEnv |-> lastFoot'[e]] /\ fsAge' = [e \in FsEnv |-> fsAge'[e]]
      /\ commanded' = [e \in FsEnv |-> commanded'[e]]
  BY <1>1 DEF FsOver, ResetSnapshot
<1> QED BY <1>1, <1>6, <1>7

LEMMA NoRowBegun ==
  ASSUME FsInv, NEW begun, RowsBegin(begun), fsPc' = "badMass"
  PROVE  FsInv'
<1>1. UNCHANGED <<world, fsAge, commanded, stance, anchorContact, anchor, anchorDrift, staggered>>
  <2>1. "badMass" # "run"
    OBVIOUS
  <2> QED BY <2>1, Zenon DEF RowsBegin, ResetRows, snapshotvars
<1>2. FsTypes'
  BY <1>1 DEF FsInv, FsTypes, RowsBegin
<1>3. AnchorIsTouchdown'
  BY <1>1 DEF FsInv, AnchorIsTouchdown
<1>4. fsPc' # "run"
  OBVIOUS
<1>5. FsLives'
  BY <1>1 DEF FsInv, FsLives
<1> QED
  BY <1>2, <1>3, <1>4, <1>5 DEF FsInv, FsClock, FsSeen, RatesOfOneLife, FsCommanded, RewardOfThisStep, MassFromDefaults

\* A row that begins anew is in a life that was given no age; the others keep theirs.
LEMMA LivesAfterReset ==
  ASSUME FsInv, NEW begun, RowsBegin(begun), fsPc' # "badMass"
  PROVE  /\ FsLives'
         /\ \A e \in begun : HeadStart(e)' = 0
         /\ \A e \in FsEnv \ begun : HeadStart(e)' = HeadStart(e)
<1>1. PICK shift \in JointOffsets, scale \in MassScales, added \in AddedMasses :
        Begun(begun, shift, DrawnMass(scale, added))
  BY RowsAreBegun
<1>2. staggered' = staggered /\ begun \subseteq FsEnv /\ FsLives
  BY DEF RowsBegin, FsInv
<1>3. ASSUME NEW e \in begun PROVE world'[e].life = world[e].life + 1
  <2>1. world'[e] = Sample(PlacedJoints(shift), world[e].life + 1, fsCounter')
    BY <1>1 DEF Begun
  <2> QED BY <2>1 DEF Sample
<1>4. ASSUME NEW e \in FsEnv \ begun PROVE world'[e].life = world[e].life
  BY <1>1 DEF Begun
<1>5. ASSUME NEW e \in FsEnv
      PROVE  /\ world'[e].life \in Nat /\ staggered'[e].life =< world'[e].life
             /\ e \in begun => staggered'[e].life # world'[e].life
  <2>1. world[e].life \in Nat /\ staggered[e].life \in Nat /\ staggered[e].life =< world[e].life
    BY <1>2 DEF FsLives
  <2>2. CASE e \in begun
    BY <1>2, <1>3, <2>1, <2>2
  <2>3. CASE e \notin begun
    BY <1>2, <1>4, <2>1, <2>3
  <2> QED BY <2>2, <2>3
<1> QED BY <1>2, <1>4, <1>5 DEF FsLives, HeadStart

LEMMA ShownAfterReset ==
  ASSUME FsInv, NEW begun, RowsBegin(begun), fsPc' # "badMass"
  PROVE  FsTypes' /\ FsClock' /\ FsSeen' /\ MassFromDefaults' /\ fsPc' = "run"
<1>1. PICK shift \in JointOffsets, scale \in MassScales, added \in AddedMasses :
        Begun(begun, shift, DrawnMass(scale, added)) /\ ~NonPositive(DrawnMass(scale, added))
  BY RowsAreBegun
<1>2. /\ begun \subseteq FsEnv /\ (fsPc = "run" \/ begun = FsEnv) /\ (fsCounter' = fsCounter \/ begun = FsEnv)
      /\ fsConfig' = fsConfig /\ fsCounter' \in Nat /\ ~ActionRefused(fsConfig) /\ fsConfig \in FsConfigs
  BY DEF RowsBegin, FsInv, FsTypes
<1>3. fsPc' = "run" /\ fsCounterLast' = fsCounter'
  BY <1>1 DEF Begun
<1>4. /\ world' = [e \in FsEnv |-> world'[e]] /\ seen' = [e \in FsEnv |-> seen'[e]]
      /\ lastFoot' = [e \in FsEnv |-> lastFoot'[e]] /\ fsAge' = [e \in FsEnv |-> fsAge'[e]]
      /\ commanded' = [e \in FsEnv |-> commanded'[e]]
  BY RowsAreBegun
<1>5. FsTypes'
  <2>1. ASSUME NEW e \in FsEnv PROVE fsAge'[e] \in Nat /\ commanded'[e] \in Seq([Joints -> Int])
    <3>1. CASE e \in begun
      <4>1. shift \in Int
        <5>1. fsConfig.offset \in Int \X Int
          BY <1>2, FootstandAssumption
        <5>2. PICK a \in Int, b \in Int : fsConfig.offset = <<a, b>>
          BY <5>1
        <5>3. shift \in a .. b
          BY <5>2 DEF JointOffsets
        <5> QED BY <5>3
      <4>2. world'[e].pose.joint = [j \in Joints |-> shift]
        <5>1. PlacedJoints(shift).joint = [j \in Joints |-> shift]
          BY DEF PlacedJoints, Rest
        <5>2. world'[e] = Sample(PlacedJoints(shift), world[e].life + 1, fsCounter')
          BY <1>1, <3>1 DEF Begun
        <5>3. world'[e].pose = PlacedJoints(shift)
          BY <5>2 DEF Sample
        <5> QED BY <5>1, <5>3
      <4>3. fsAge'[e] = 0 /\ commanded'[e] = <<world'[e].pose.joint>>
        BY <1>1, <3>1 DEF Begun
      <4> QED BY <4>1, <4>2, <4>3
    <3>2. CASE e \notin begun
      <4>1. fsAge'[e] = fsAge[e] /\ commanded'[e] = commanded[e]
        BY <1>1, <3>2 DEF Begun
      <4> QED BY <4>1 DEF FsInv, FsTypes
    <3> QED BY <3>1, <3>2
  <2>2. fsAge' \in [FsEnv -> Nat] /\ commanded' \in [FsEnv -> Seq([Joints -> Int])]
    BY <1>4, <2>1
  <2> QED BY <1>2, <1>3, <2>2 DEF FsTypes
<1>6. FsClock'
  BY <1>2, <1>3 DEF FsClock
<1>7. FsSeen'
  <2>1. ASSUME NEW e \in FsEnv
        PROVE  /\ seen'[e] = world'[e] /\ lastFoot'[e] = world'[e] /\ world'[e].step = fsCounter'
               /\ torques'[e] = Torque(target'[e], world'[e])
    <3>1. CASE e \in begun
      <4>1. /\ seen'[e] = world'[e] /\ lastFoot'[e] = world'[e] /\ torques'[e] = Torque(target'[e], world'[e])
            /\ world'[e] = Sample(PlacedJoints(shift), world[e].life + 1, fsCounter')
        BY <1>1, <3>1 DEF Begun
      <4> QED BY <4>1 DEF Sample
    <3>2. CASE e \notin begun
      <4>1. /\ seen[e] = world[e] /\ lastFoot[e] = world[e] /\ world[e].step = fsCounter
            /\ torques[e] = Torque(target[e], world[e])
        BY <1>2, <3>2 DEF FsInv, FsSeen
      <4>2. /\ seen'[e] = seen[e] /\ lastFoot'[e] = lastFoot[e] /\ torques'[e] = torques[e]
            /\ target'[e] = target[e] /\ world'[e] = world[e]
        BY <1>1, <3>2 DEF Begun
      <4> QED BY <1>2, <3>2, <4>1, <4>2
    <3> QED BY <3>1, <3>2
  <2>2. seen' = world' /\ lastFoot' = world'
    BY <1>4, <2>1
  <2>3. ASSUME NEW e \in FsEnv PROVE Torque(target[e], world[e])' = Torque(target'[e], world'[e])
    BY <1>2 DEF Torque, JointIds
  <2> QED BY <2>1, <2>2, <2>3 DEF FsSeen
<1>8. MassFromDefaults'
  <2>1. MassScales' = MassScales /\ AddedMasses' = AddedMasses
    BY <1>2 DEF MassScales, AddedMasses
  <2>2. ASSUME NEW x, NEW y, NEW e
        PROVE  DrawnMass(x, y)' = DrawnMass(x, y) /\ NonPositive(mass[e])' = NonPositive(mass'[e])
    BY <1>2 DEF DrawnMass, NonPositive
  <2>3. ASSUME NEW e \in FsEnv
        PROVE  \E x \in MassScales, y \in AddedMasses : mass'[e] = DrawnMass(x, y) /\ ~NonPositive(mass'[e])
    <3>1. CASE e \in begun
      <4>1. mass'[e] = DrawnMass(scale, added)
        BY <1>1, <3>1 DEF Begun
      <4> QED BY <1>1, <4>1
    <3>2. CASE e \notin begun
      <4>1. mass'[e] = mass[e]
        BY <1>1, <3>2 DEF Begun
      <4>2. PICK x \in MassScales, y \in AddedMasses : mass[e] = DrawnMass(x, y) /\ ~NonPositive(mass[e])
        BY <1>2, <3>2 DEF FsInv, MassFromDefaults
      <4> QED BY <4>1, <4>2
    <3> QED BY <3>1, <3>2
  <2> QED BY <2>1, <2>2, <2>3 DEF MassFromDefaults
<1> QED BY <1>3, <1>5, <1>6, <1>7, <1>8

LEMMA RatesAfterReset ==
  ASSUME FsInv, NEW begun, RowsBegin(begun), fsPc' # "badMass"
  PROVE  RatesOfOneLife' /\ AnchorIsTouchdown'
<1>1. PICK shift \in JointOffsets, scale \in MassScales, added \in AddedMasses :
        Begun(begun, shift, DrawnMass(scale, added))
  BY RowsAreBegun
<1>2. fsPc = "run" \/ begun = FsEnv
  BY DEF RowsBegin
<1>3. ASSUME NEW e \in FsEnv, NEW pair \in {qacc'[e], rearSpeed'[e]} \ {<<>>}
      PROVE  pair[2] = world'[e] /\ pair[1].life = pair[2].life /\ pair[1].step = pair[2].step - 1
  <2>1. e \notin begun
    BY <1>1, <1>3 DEF Begun
  <2>2. qacc'[e] = qacc[e] /\ rearSpeed'[e] = rearSpeed[e] /\ world'[e] = world[e]
    BY <1>1, <2>1 DEF Begun
  <2> QED BY <1>2, <1>3, <2>1, <2>2 DEF FsInv, RatesOfOneLife
<1>4. ASSUME NEW e \in FsEnv
      PROVE  /\ anchorContact'[e] <=> stance'[e] # <<>>
             /\ anchorContact'[e] => anchor'[e] = stance'[e][1] /\ anchorDrift'[e] = <<stance'[e][1], world'[e]>>
  <2>1. CASE e \in begun
    BY <1>1, <2>1 DEF Begun
  <2>2. CASE e \notin begun
    <3>1. /\ anchorContact'[e] = anchorContact[e] /\ anchor'[e] = anchor[e] /\ anchorDrift'[e] = anchorDrift[e]
          /\ stance'[e] = stance[e] /\ world'[e] = world[e]
      BY <1>1, <2>2 DEF Begun
    <3> QED BY <3>1 DEF FsInv, AnchorIsTouchdown
  <2> QED BY <2>1, <2>2
<1> QED BY <1>3, <1>4 DEF RatesOfOneLife, AnchorIsTouchdown

LEMMA CommandAfterReset ==
  ASSUME FsInv, NEW begun, RowsBegin(begun), fsPc' # "badMass"
  PROVE  FsCommanded'
<1>1. PICK shift \in JointOffsets, scale \in MassScales, added \in AddedMasses :
        Begun(begun, shift, DrawnMass(scale, added))
  BY RowsAreBegun
<1>2. (fsPc = "run" \/ begun = FsEnv) /\ fsConfig' = fsConfig /\ ~ActionRefused(fsConfig) /\ fsConfig \in FsConfigs
  BY DEF RowsBegin, FsInv, FsTypes
<1>3. SUFFICES ASSUME NEW e \in FsEnv
      PROVE  /\ commanded'[e] # <<>> /\ Acts(e)' =< fsCounter' /\ fsAge'[e] = Acts(e)' + HeadStart(e)'
             /\ fsRaw'[e] = Acted(e, Acts(e))' /\ fsPrevious'[e] = Acted(e, Acts(e) - 1)'
             /\ shownRaw'[e] = fsPrevious'[e]
             /\ \E f : Reaches(f, e)' /\ f[Acts(e)'] = target'[e]
  BY DEF FsCommanded
<1>4. JointIds' = JointIds
  BY <1>2 DEF JointIds
<1>5. CASE e \in begun
  <2>1. /\ fsRaw'[e] = [i \in Joints |-> 0] /\ fsPrevious'[e] = [i \in Joints |-> 0] /\ shownRaw'[e] = fsPrevious'[e]
        /\ target'[e] = [i \in Joints |-> world'[e].pose.joint[JointIds[i]]] /\ fsAge'[e] = 0
        /\ commanded'[e] = <<world'[e].pose.joint>>
    BY <1>1, <1>4, <1>5 DEF Begun, JointsAsTargets
  <2>2. Acts(e)' = 0 /\ commanded'[e] # <<>> /\ commanded'[e][1] = world'[e].pose.joint
    BY <2>1 DEF Acts
  <2>3. ASSUME NEW n \in Int, n < 1 PROVE Acted(e, n)' = [i \in Joints |-> 0]
    BY <2>3 DEF Acted
  <2>4. Acted(e, Acts(e))' = [i \in Joints |-> 0] /\ Acted(e, Acts(e) - 1)' = [i \in Joints |-> 0]
    BY <2>2 DEF Acted
  <2>5. PICK g : g = [n \in 0 .. 0 |-> target'[e]]
    OBVIOUS
  <2>6. Led(g, e, 0)' = target'[e]
    BY <1>4, <2>1, <2>2 DEF Led
  <2>7. Reaches(g, e)' /\ g[Acts(e)'] = target'[e]
    <3>1. \A n \in 0 .. 0 : n = 0
      OBVIOUS
    <3>2. g = [n \in 0 .. 0 |-> Led(g, e, n)']
      BY <2>5, <2>6, <3>1
    <3> QED BY <2>2, <2>5, <3>1, <3>2 DEF Reaches
  <2>8. Acts(e)' =< fsCounter' /\ fsAge'[e] = Acts(e)' + HeadStart(e)'
    <3>1. HeadStart(e)' = 0
      BY <1>5, LivesAfterReset
    <3>2. fsCounter' \in Nat
      BY DEF RowsBegin
    <3> QED BY <2>1, <2>2, <3>1, <3>2
  <2> QED BY <2>1, <2>2, <2>4, <2>7, <2>8
<1>6. CASE e \notin begun
  <2>1. /\ fsRaw'[e] = fsRaw[e] /\ fsPrevious'[e] = fsPrevious[e] /\ shownRaw'[e] = shownRaw[e]
        /\ target'[e] = target[e] /\ fsAge'[e] = fsAge[e] /\ commanded'[e] = commanded[e]
    BY <1>1, <1>6 DEF Begun
  <2>2. PICK N : N = Acts(e)
    OBVIOUS
  <2>3. Acts(e)' = N
    BY <2>1, <2>2 DEF Acts
  <2>4. Acted(e, Acts(e))' = Acted(e, Acts(e)) /\ Acted(e, Acts(e) - 1)' = Acted(e, Acts(e) - 1)
    BY <1>2, <2>1, <2>2, <2>3 DEF Acted
  <2>5. /\ commanded[e] # <<>> /\ Acts(e) =< fsCounter /\ fsAge[e] = Acts(e) + HeadStart(e)
        /\ fsRaw[e] = Acted(e, Acts(e))
        /\ fsPrevious[e] = Acted(e, Acts(e) - 1) /\ shownRaw[e] = fsPrevious[e]
    BY <1>2, <1>6 DEF FsInv, FsCommanded
  <2>6. PICK f : Reaches(f, e) /\ f[N] = target[e]
    BY <1>2, <1>6, <2>2 DEF FsInv, FsCommanded
  <2>7. ASSUME NEW n PROVE Led(f, e, n)' = Led(f, e, n)
    BY <1>2, <1>4, <2>1 DEF Led, Late, Acted, TargetLimits
  <2>8. f = [n \in 0 .. N |-> Led(f, e, n)]
    BY <2>2, <2>6 DEF Reaches
  <2>9. Reaches(f, e)'
    BY <2>3, <2>7, <2>8 DEF Reaches
  <2>10. HeadStart(e)' = HeadStart(e) /\ fsCounter' = fsCounter
    BY <1>6, LivesAfterReset DEF RowsBegin
  <2> QED BY <2>1, <2>2, <2>3, <2>4, <2>5, <2>6, <2>9, <2>10
<1> QED BY <1>5, <1>6

LEMMA RewardAfterReset ==
  ASSUME FsInv, NEW begun, RowsBegin(begun), fsPc' # "badMass"
  PROVE  RewardOfThisStep'
<1>1. PICK shift \in JointOffsets, scale \in MassScales, added \in AddedMasses :
        Begun(begun, shift, DrawnMass(scale, added))
  BY RowsAreBegun
<1>2. /\ fsPc = "run" \/ begun = FsEnv
      /\ fsConfig' = fsConfig /\ fsReward' = fsReward /\ rewarded' = rewarded
      /\ \A e \in FsEnv \ begun : fsTerminated'[e] = fsTerminated[e]
  BY DEF RowsBegin
<1>3. SUFFICES ASSUME NEW e \in FsEnv, Acts(e)' > 0
      PROVE  /\ rewarded'[e] = Evidence(e)' /\ fsReward'[e] = Total(Evidence(e))'
             /\ fsTerminated'[e] =>
                   \/ seen'[e].pose.hit \/ seen'[e].pose.flipped
                   \/ Energy(torques[e], seen[e])' > fsConfig'.energyThreshold
                   \/ Acts(e)' + HeadStart(e)' > fsConfig'.grace
  BY DEF RewardOfThisStep
<1>4. e \notin begun
  <2>1. SUFFICES ASSUME e \in begun PROVE FALSE
    OBVIOUS
  <2>2. commanded'[e] = <<world'[e].pose.joint>>
    BY <1>1, <2>1 DEF Begun
  <2>3. Acts(e)' = 0
    BY <2>2 DEF Acts
  <2> QED BY <1>3, <2>3
<1>5. /\ seen'[e] = seen[e] /\ qacc'[e] = qacc[e] /\ rearSpeed'[e] = rearSpeed[e]
      /\ anchorContact'[e] = anchorContact[e] /\ anchorDrift'[e] = anchorDrift[e]
      /\ torques'[e] = torques[e] /\ target'[e] = target[e]
      /\ fsRaw'[e] = fsRaw[e] /\ fsPrevious'[e] = fsPrevious[e]
      /\ commanded'[e] = commanded[e] /\ fsTerminated'[e] = fsTerminated[e]
  BY <1>1, <1>2, <1>4 DEF Begun
<1>6. Acts(e)' = Acts(e) /\ Evidence(e)' = Evidence(e)
  BY <1>5 DEF Acts, Evidence
<1>7. /\ rewarded[e] = Evidence(e) /\ fsReward[e] = Total(Evidence(e))
      /\ fsTerminated[e] =>
            \/ seen[e].pose.hit \/ seen[e].pose.flipped
            \/ Energy(torques[e], seen[e]) > fsConfig.energyThreshold
            \/ Acts(e) + HeadStart(e) > fsConfig.grace
  BY <1>2, <1>3, <1>4, <1>6 DEF FsInv, RewardOfThisStep
<1>8. Total(Evidence(e))' = Total(Evidence(e))
  BY <1>2, <1>6, TotalAgain
<1>9. Energy(torques[e], seen[e])' = Energy(torques[e], seen[e])
  <2>1. Energy(torques[e], seen[e])' = Energy(torques'[e], seen'[e])
    OBVIOUS
  <2> QED BY <1>5, <2>1
<1>10. HeadStart(e)' = HeadStart(e)
  BY <1>4, LivesAfterReset
<1> QED BY <1>2, <1>5, <1>6, <1>7, <1>8, <1>9, <1>10

------------------------------------------------------------------------------
LEMMA RowsReset ==
  ASSUME FsInv, NEW begun, RowsBegin(begun)
  PROVE  FsInv'
<1>1. CASE fsPc' = "badMass"
  BY <1>1, NoRowBegun
<1>2. CASE fsPc' # "badMass"
  BY <1>2, ShownAfterReset, LivesAfterReset, RatesAfterReset, CommandAfterReset, RewardAfterReset DEF FsInv
<1> QED BY <1>1, <1>2

\* Where nothing but the ages changes, only what is said of them is to be shown again: it
\* matters to no row that has made a step.
LEMMA Unmoved ==
  ASSUME FsInv, FsLives', fsAge' \in [FsEnv -> Nat],
         UNCHANGED <<fsConfig, fsPc, fsCounter, world, fsTerminated, fsReward, shownRaw, mass>>,
         UNCHANGED <<stance, commanded, rewarded>>,
         UNCHANGED <<fsRaw, fsPrevious, target>>,
         UNCHANGED <<fsCounterLast, seen, lastFoot, qacc, rearSpeed, torques, anchor, anchorContact, anchorDrift>>,
         fsPc = "run" => \A e \in FsEnv : fsAge'[e] = Acts(e)' + HeadStart(e)' /\ Acts(e)' =< fsCounter',
         \A e \in FsEnv : HeadStart(e)' = HeadStart(e) \/ Acts(e)' = 0
  PROVE  FsInv'
<1>1. FsTypes' /\ FsClock' /\ RatesOfOneLife' /\ AnchorIsTouchdown'
  BY DEF FsInv, FsTypes, FsClock, RatesOfOneLife, AnchorIsTouchdown
<1>2. FsSeen'
  <2>1. ASSUME NEW e \in FsEnv PROVE Torque(target[e], world[e])' = Torque(target[e], world[e])
    BY DEF Torque, JointIds
  <2> QED BY <2>1 DEF FsInv, FsSeen
<1>3. MassFromDefaults'
  BY MassesKept DEF FsInv
<1>4. FsCommanded'
  <2>1. ASSUME NEW e \in FsEnv, NEW f PROVE Reaches(f, e)' = Reaches(f, e)
    BY DEF Reaches, Led, Late, Acted, Acts, JointIds, TargetLimits
  <2>2. ASSUME NEW e \in FsEnv
        PROVE  /\ Acts(e)' = Acts(e) /\ Acted(e, Acts(e))' = Acted(e, Acts(e))
               /\ Acted(e, Acts(e) - 1)' = Acted(e, Acts(e) - 1)
    BY DEF Acted, Acts
  <2> QED BY <2>1, <2>2 DEF FsInv, FsCommanded
<1>5. RewardOfThisStep'
  <2>1. ASSUME NEW e \in FsEnv
        PROVE  /\ Acts(e)' = Acts(e) /\ Evidence(e)' = Evidence(e)
               /\ Energy(torques[e], seen[e])' = Energy(torques[e], seen[e])
    <3>1. Energy(torques[e], seen[e])' = Energy(torques'[e], seen'[e])
      OBVIOUS
    <3> QED BY <3>1 DEF Acts, Evidence
  <2>2. ASSUME NEW e \in FsEnv PROVE Total(Evidence(e))' = Total(Evidence(e))
    BY <2>1, TotalAgain
  <2>3. ASSUME NEW e \in FsEnv, Acts(e) > 0 PROVE HeadStart(e)' = HeadStart(e)
    BY <2>1, <2>3
  <2> QED BY <2>1, <2>2, <2>3 DEF FsInv, RewardOfThisStep
<1> QED BY <1>1, <1>2, <1>3, <1>4, <1>5 DEF FsInv

LEMMA FsKept ==
  ASSUME FsInv, [FsNext]_fsvars
  PROVE  FsInv'
<1>1. CASE Refuse
  <2>1. /\ UNCHANGED <<fsConfig, fsCounter, world, commanded, fsAge, stance, anchorContact, anchor, anchorDrift>>
        /\ staggered' = staggered
    BY <1>1 DEF Refuse, snapshotvars
  <2>2. fsPc' = "refused"
    BY <1>1 DEF Refuse
  <2>3. FsTypes'
    BY <2>1, <2>2 DEF FsInv, FsTypes
  <2>4. AnchorIsTouchdown' /\ FsLives'
    BY <2>1 DEF FsInv, AnchorIsTouchdown, FsLives
  <2> QED
    BY <2>2, <2>3, <2>4 DEF FsInv, FsClock, FsSeen, RatesOfOneLife, FsCommanded, RewardOfThisStep, MassFromDefaults
<1>2. CASE Start
  <2>1. RowsBegin(FsEnv)
    BY <1>2 DEF Start, ConfigRefused, RowsBegin, FsInv, FsTypes
  <2> QED BY <2>1, RowsReset
<1>3. CASE FsStep
  <2>1. FsTypes' /\ FsClock' /\ FsSeen' /\ MassFromDefaults'
    BY <1>3, ShownAfterStep
  <2> QED BY <1>3, <2>1, StepKeepsLives, RatesAfterStep, AnchorAfterStep, CommandAfterStep, RewardAfterStep DEF FsInv
<1>4. CASE FsReset
  <2>1. PICK begun \in SUBSET FsEnv \ {{}} :
          /\ fsTerminated' = FsOver(fsTerminated, begun, [e \in FsEnv |-> FALSE])
          /\ ResetRows(begun)
    BY <1>4 DEF FsReset
  <2>2. \A e \in FsEnv \ begun : fsTerminated'[e] = fsTerminated[e]
    BY <2>1 DEF FsOver
  <2>3. fsPc = "run" /\ UNCHANGED <<fsConfig, fsCounter, fsReward, rewarded, staggered>>
    BY <1>4 DEF FsReset
  <2>4. RowsBegin(begun)
    BY <2>1, <2>2, <2>3 DEF RowsBegin, FsInv, FsTypes, FsClock
  <2> QED BY <2>4, RowsReset
<1>5. CASE FsRestore
  <2>1. /\ fsPc = "run" /\ fsCounter' \in 0 .. fsCounter - 1 /\ ResetRows(FsEnv)
        /\ UNCHANGED <<fsConfig, fsReward, rewarded, staggered>>
    BY <1>5 DEF FsRestore
  <2>2. fsCounter' \in Nat
    BY <2>1 DEF FsInv, FsTypes
  <2>3. RowsBegin(FsEnv)
    BY <2>1, <2>2 DEF RowsBegin, FsInv, FsClock
  <2> QED BY <2>3, RowsReset
<1>6. CASE StaggerAges
  <2>1. /\ UNCHANGED <<fsConfig, fsPc, fsCounter, world, fsTerminated, fsReward, shownRaw, mass>>
        /\ UNCHANGED <<stance, commanded, rewarded>>
        /\ UNCHANGED <<fsRaw, fsPrevious, target>>
        /\ UNCHANGED <<fsCounterLast, seen, lastFoot, qacc, rearSpeed, torques, anchor, anchorContact, anchorDrift>>
    BY <1>6 DEF StaggerAges, fsactionvars, snapshotvars
  <2>2. /\ fsPc = "run" /\ fsCounter = 0 /\ fsAge' \in [FsEnv -> 0 .. fsConfig.maxLength - 1]
        /\ staggered' = [e \in FsEnv |-> [life |-> world[e].life, age |-> fsAge'[e]]]
    BY <1>6 DEF StaggerAges
  <2>3. fsAge' \in [FsEnv -> Nat]
    <3>1. fsConfig.maxLength \in Nat
      BY FootstandAssumption DEF FsInv, FsTypes
    <3>2. 0 .. fsConfig.maxLength - 1 \subseteq Nat
      BY <3>1
    <3> QED BY <2>2, <3>2
  <2>4. ASSUME NEW e \in FsEnv PROVE HeadStart(e)' = fsAge'[e]
    BY <2>1, <2>2 DEF HeadStart
  <2>5. FsLives'
    BY <2>1, <2>2, <2>3 DEF FsInv, FsLives
  <2>6. ASSUME NEW e \in FsEnv PROVE Acts(e) = 0
    <3>1. commanded[e] # <<>> /\ Acts(e) =< 0 /\ commanded[e] \in Seq([Joints -> Int])
      BY <2>2 DEF FsInv, FsTypes, FsCommanded
    <3>2. PICK n \in Nat : n = Len(commanded[e]) /\ n # 0
      BY <3>1
    <3>3. Acts(e) = n - 1
      BY <3>2 DEF Acts
    <3>4. n - 1 =< 0 /\ n # 0
      BY <3>1, <3>2, <3>3
    <3>5. n - 1 = 0
      BY ONLY n \in Nat, <3>4
    <3> QED BY <3>3, <3>5
  <2>7. ASSUME NEW e \in FsEnv PROVE Acts(e)' = 0 /\ fsAge'[e] = Acts(e)' + HeadStart(e)' /\ Acts(e)' =< fsCounter'
    <3>1. Acts(e)' = 0
      BY <2>1, <2>6 DEF Acts
    <3>2. fsAge'[e] \in Nat
      BY <2>3
    <3> QED BY <2>1, <2>2, <2>4, <3>1, <3>2
  <2> QED BY <2>1, <2>3, <2>5, <2>7, Unmoved
<1>7. CASE UNCHANGED fsvars
  <2>1. /\ UNCHANGED <<fsConfig, fsPc, fsCounter, world, fsTerminated, fsReward, shownRaw, fsAge, mass>>
        /\ UNCHANGED <<stance, commanded, rewarded, staggered>>
        /\ UNCHANGED <<fsRaw, fsPrevious, target>>
        /\ UNCHANGED <<fsCounterLast, seen, lastFoot, qacc, rearSpeed, torques, anchor, anchorContact, anchorDrift>>
    BY <1>7 DEF fsvars, fsactionvars, snapshotvars
  <2>2. FsLives' /\ fsAge' \in [FsEnv -> Nat]
    BY <2>1 DEF FsInv, FsTypes, FsLives
  <2>3. ASSUME NEW e \in FsEnv PROVE Acts(e)' = Acts(e) /\ HeadStart(e)' = HeadStart(e)
    BY <2>1 DEF Acts, HeadStart
  <2>4. ASSUME NEW e \in FsEnv, fsPc = "run" PROVE fsAge'[e] = Acts(e)' + HeadStart(e)' /\ Acts(e)' =< fsCounter'
    BY <2>1, <2>3, <2>4 DEF FsInv, FsCommanded
  <2> QED BY <2>1, <2>2, <2>3, <2>4, Unmoved
<1> QED BY <1>1, <1>2, <1>3, <1>4, <1>5, <1>6, <1>7 DEF FsNext

\* There is one such way.
LEMMA OneWay ==
  ASSUME NEW e, Acts(e) \in Nat, NEW f, NEW g, Reaches(f, e), Reaches(g, e)
  PROVE  f = g
<1> DEFINE S == {n \in Nat : n <= Acts(e) => f[n] = g[n]}
<1>1. \A n \in 0 .. Acts(e) : f[n] = Led(f, e, n) /\ g[n] = Led(g, e, n)
  BY DEF Reaches
<1>2. 0 \in S
  <2>1. 0 \in 0 .. Acts(e)
    OBVIOUS
  <2>2. Led(f, e, 0) = Led(g, e, 0)
    BY DEF Led
  <2>3. f[0] = g[0]
    BY <1>1, <2>1, <2>2
  <2> QED BY <2>3
<1>3. ASSUME NEW n \in Nat, n \in S PROVE n + 1 \in S
  <2>1. ASSUME n + 1 <= Acts(e) PROVE f[n + 1] = g[n + 1]
    <3>1. n + 1 \in 0 .. Acts(e) /\ n <= Acts(e) /\ n + 1 # 0 /\ (n + 1) - 1 = n
      BY <2>1
    <3>2. f[n] = g[n]
      BY <1>3, <3>1
    <3>3. Led(f, e, n + 1) = Led(g, e, n + 1)
      BY <3>1, <3>2 DEF Led
    <3> QED BY <1>1, <3>1, <3>3
  <2> QED BY <2>1
<1>4. \A n \in 0 .. Acts(e) : f[n] = g[n]
  <2>1. \A n \in Nat : n \in S
    <3> HIDE DEF S
    <3> QED BY <1>2, <1>3, Induction
  <2> QED BY <2>1
<1> QED BY <1>4 DEF Reaches

\* What the invariant says of the targets is TargetFollowsActions.
LEMMA TargetsFollow ==
  ASSUME FsInv
  PROVE  TargetFollowsActions
<1>1. SUFFICES ASSUME fsPc = "run", NEW e \in FsEnv
      PROVE  LET late == IF fsConfig.latency THEN 1 ELSE 0
                 reached[n \in 0 .. Acts(e)] ==
                     [i \in Joints |-> IF n = 0 THEN commanded[e][1][JointIds[i]]
                                       ELSE Clamp(reached[n - 1][i] + fsConfig.scale * Acted(e, n - late)[i],
                                                  JointLimits[JointIds[i]][1], JointLimits[JointIds[i]][2])]
             IN target[e] = reached[Acts(e)] /\ shownRaw[e] = Acted(e, Acts(e) - 1)
  BY DEF TargetFollowsActions
<1> DEFINE late == IF fsConfig.latency THEN 1 ELSE 0
           reached[n \in 0 .. Acts(e)] ==
               [i \in Joints |-> IF n = 0 THEN commanded[e][1][JointIds[i]]
                                 ELSE Clamp(reached[n - 1][i] + fsConfig.scale * Acted(e, n - late)[i],
                                            JointLimits[JointIds[i]][1], JointLimits[JointIds[i]][2])]
           Along(f) == [n \in 0 .. Acts(e) |->
               [i \in Joints |-> IF n = 0 THEN commanded[e][1][JointIds[i]]
                                 ELSE Clamp(f[n - 1][i] + fsConfig.scale * Acted(e, n - late)[i],
                                            JointLimits[JointIds[i]][1], JointLimits[JointIds[i]][2])]]
<1>2. /\ Acts(e) \in Nat /\ fsPrevious[e] = Acted(e, Acts(e) - 1) /\ shownRaw[e] = fsPrevious[e]
      /\ fsConfig \in FsConfigs /\ ~ActionRefused(fsConfig)
  <2>1. commanded[e] # <<>> /\ commanded[e] \in Seq([Joints -> Int])
    BY <1>1 DEF FsInv, FsTypes, FsCommanded
  <2>2. Len(commanded[e]) \in Nat /\ Len(commanded[e]) # 0
    BY <2>1
  <2>3. Acts(e) \in Nat
    BY <2>2 DEF Acts
  <2> QED BY <1>1, <2>3 DEF FsInv, FsTypes, FsClock, FsCommanded
<1>3. PICK f : Reaches(f, e) /\ f[Acts(e)] = target[e]
  BY <1>1 DEF FsInv, FsCommanded
<1>4. Wired
  BY <1>2, EachItsJoint
<1>5. ASSUME NEW g PROVE Along(g) = [n \in 0 .. Acts(e) |-> Led(g, e, n)]
  <2>1. \A i \in Joints : JointLimits[JointIds[i]] = TargetLimits(i)
    BY <1>4, LimitsOf
  <2> QED BY <2>1 DEF Led, Late
<1>6. f = Along(f)
  BY <1>3, <1>5 DEF Reaches
<1>7. reached = CHOOSE g : g = Along(g)
  OBVIOUS
<1> HIDE DEF reached, Along
<1>8. reached = Along(reached)
  BY <1>6, <1>7
<1>9. Reaches(reached, e)
  BY <1>5, <1>8 DEF Reaches
<1>10. reached = f
  BY <1>2, <1>3, <1>9, OneWay
<1> QED BY <1>2, <1>3, <1>10 DEF reached

LEMMA FsTellsSound ==
  ASSUME FsInv
  PROVE  FootstandSound
<1>1. SnapshotNeverRefused
  BY DEF FsInv, FsTypes, SnapshotNeverRefused
<1>2. SnapshotIsCurrent
  <2>1. ASSUME fsPc = "run", NEW e \in FsEnv, NEW i \in Joints
        PROVE  torques[e][JointIds[i]] = fsConfig.kp * (target[e][i] - world[e].pose.joint[JointIds[i]])
                                         - fsConfig.kd * world[e].pose.velocity[JointIds[i]]
    <3>1. Wired
      BY <2>1, EachItsJoint DEF FsInv, FsTypes, FsClock
    <3>2. torques[e] = Torque(target[e], world[e])
      BY <2>1 DEF FsInv, FsSeen
    <3> QED BY <3>1, <3>2, TorqueOf
  <2> QED BY <2>1 DEF FsInv, FsSeen, SnapshotIsCurrent
<1> QED
  BY <1>1, <1>2, TargetsFollow DEF FsInv, FootstandSound

\* FootstandSound: the snapshot that termination, reward and observation share shows the
\* robot of this control step, its rates never span two lives, the targets follow the
\* actions of this life within the limits of their own joints, what a row is rewarded for
\* is what its step shows, whatever rows were reset meanwhile, and no life ends for its
\* posture before its grace steps, less the age that PPO gave the life it began learning in.
THEOREM FootstandStaysSound == FsSpec => []FootstandSound
<1>1. FsInit => FsInv
  BY FsBegins
<1>2. FsInv /\ [FsNext]_fsvars => FsInv'
  BY FsKept
<1>3. FsInv => FootstandSound
  BY FsTellsSound
<1> QED BY <1>1, <1>2, <1>3, PTL DEF FsSpec
=============================================================================
