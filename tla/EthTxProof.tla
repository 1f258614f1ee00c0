------------------------------ MODULE EthTxProof ------------------------------
(***************************************************************************)
(* The safety of frame transmission, which EthTx's run checks on three     *)
(* descriptors, four segments and five frames, proved for every ring,      *)
(* every length of a chain and every number of frames.                     *)
(***************************************************************************)
EXTENDS EthTx, Rounds, FiniteSetTheorems, TLAPS

-----------------------------------------------------------------------------
(* Going round the ring.                                                   *)

\* k steps from a descriptor stay in the ring; none and a whole round lead back.
LEMMA FwdValue ==
  /\ \A d \in Desc, k \in 0 .. TxDescs :
       /\ Fwd(d, k) \in Desc
       /\ Fwd(d, k) = IF d + k < TxDescs THEN d + k ELSE d + k - TxDescs
  /\ \A d \in Desc : Fwd(d, 0) = d /\ Fwd(d, TxDescs) = d
<1>1. TxDescs \in Nat \ {0} /\ Desc = 0 .. TxDescs - 1
  BY SizeAssumption DEF Desc
<1> QED BY <1>1, RoundValue, RoundWhole DEF Fwd, Round

\* Fewer steps than the ring is long lead to different descriptors.
LEMMA FwdInjective ==
  ASSUME NEW d \in Desc, NEW j \in 0 .. TxDescs - 1, NEW k \in 0 .. TxDescs - 1
  PROVE  Fwd(d, j) = Fwd(d, k) => j = k
BY RoundInjective, SizeAssumption DEF Fwd, Round, Desc

\* j steps and then k more are j + k steps.
LEMMA FwdSum ==
  ASSUME NEW d \in Desc, NEW j \in 0 .. TxDescs, NEW k \in 0 .. TxDescs, j + k <= TxDescs
  PROVE  Fwd(Fwd(d, j), k) = Fwd(d, j + k)
BY RoundSum, SizeAssumption DEF Fwd, Round, Desc

\* Every descriptor is some number of steps away from every other.
LEMMA FwdOnto ==
  ASSUME NEW d \in Desc, NEW e \in Desc
  PROVE  \E k \in 0 .. TxDescs - 1 : e = Fwd(d, k)
BY RoundOnto, SizeAssumption DEF Fwd, Round, Desc

-----------------------------------------------------------------------------
(* The inductive invariant, in two halves.  The first is about the ring:   *)
(* the chip's run of descriptors goes from dma to CurTxDesc, every frame   *)
(* in it has its pbuf recorded at a descriptor of its own further on in    *)
(* the run, and every recorded pbuf is held exactly once and lies less     *)
(* than a round ahead of releaseIndex.                                     *)
RingTypes ==
  /\ started \in BOOLEAN
  /\ own \in [Desc -> BOOLEAN]
  /\ points \in [Desc -> 0 .. Frames] /\ addr \in [Desc -> 0 .. Frames]
  /\ cur \in Desc /\ rel \in Desc /\ dma \in Desc /\ inUse \in Nat
  /\ refs \in [Frame -> Nat]
  /\ frame \in 0 .. Frames

Counts   == \A f \in Frame : refs[f] = IF \E d \in Desc : addr[d] = f THEN 1 ELSE 0
Distinct == \A d, e \in Desc : addr[d] # None /\ addr[d] = addr[e] => d = e
Past     == \A d \in Desc : addr[d] <= frame /\ points[d] <= frame

RunIs(n) ==
  /\ cur = Fwd(dma, n)
  /\ \A d \in Desc : own[d] <=> \E k \in 0 .. n - 1 : d = Fwd(dma, k)
  /\ \A k \in 0 .. n - 1 :
       /\ points[Fwd(dma, k)] # None
       /\ \E j \in k .. n - 1 : addr[Fwd(dma, j)] = points[Fwd(dma, k)]

Run      == \E n \in 0 .. TxDescs : RunIs(n)
LastMark == \A d \in Desc : own[d] /\ addr[d] # None => addr[d] = points[d]

\* BuffersInUse counts the descriptors from releaseIndex to CurTxDesc, and whole rounds.
Lap      == \E q \in Int : rel + inUse = cur + q * TxDescs
Reach    == \A d \in Desc : addr[d] # None =>
              \E k \in 0 .. TxDescs - 1 : k < inUse /\ d = Ahead(k)

RingInv == RingTypes /\ Counts /\ Distinct /\ Past /\ Run /\ LastMark /\ Lap /\ Reach

(* The second half is about the caller: as long as no output returned      *)
(* before its own completion was signalled (slipped), the chip works only  *)
(* on the frame being sent, and the flag and the token are about it.       *)
CallTypes ==
  /\ ts \in BOOLEAN /\ tok \in BOOLEAN
  /\ pc \in {"idle", "wait", "release", "releaseLate", "drop"}
  /\ ret \in {"none", "ok", "timeout", "busy", "off", "long"}
  /\ late \in Nat /\ late <= frame /\ (pc = "wait" => late < frame)
  /\ slipped \in BOOLEAN

AllSent == \A d \in Desc : ~own[d]

Quiet ==
  ~slipped => /\ pc \in {"idle", "release"} => ~ts /\ ~tok /\ AllSent
              /\ \A d \in Desc : own[d] => points[d] = frame
              /\ ts \/ tok => AllSent
              /\ ~(ts /\ tok)

Kept == {d \in Desc : addr[d] # None}
HeldCount ==
  ~slipped => Cardinality(Kept) <= late + IF pc \in {"wait", "release"} THEN 1 ELSE 0

CallInv == CallTypes /\ Quiet /\ HeldCount

IInv == RingInv /\ CallInv

-----------------------------------------------------------------------------
\* The descriptors that hold a packet are a finite set.
LEMMA KeptFinite == IsFiniteSet(Kept) /\ Cardinality(Kept) \in Nat
<1>1. IsFiniteSet(Desc)
  BY FS_Interval, SizeAssumption DEF Desc
<1>2. Kept \in SUBSET Desc
  BY DEF Kept
<1> QED BY <1>1, <1>2, FS_Subset, FS_CardinalityType

\* While BuffersInUse is less than a round, it leads from releaseIndex to CurTxDesc.
LEMMA LapShort == RingTypes /\ Lap /\ inUse < TxDescs => Ahead(inUse) = cur
<1> SUFFICES ASSUME RingTypes, Lap, inUse < TxDescs PROVE Ahead(inUse) = cur
  OBVIOUS
<1>1. PICK q \in Int : rel + inUse = cur + q * TxDescs
  BY DEF Lap
<1>2. /\ rel \in Nat /\ rel < TxDescs /\ cur \in Nat /\ cur < TxDescs
      /\ inUse \in Nat /\ TxDescs \in Nat /\ TxDescs > 0
  BY SizeAssumption DEF RingTypes, Desc
<1>3. q < 2
  <2>1. CASE q >= 2
    <3>1. q * TxDescs >= 2 * TxDescs
      BY <2>1, <1>2
    <3> QED BY <3>1, <1>1, <1>2
  <2> QED BY <2>1
<1>4. q > -1
  <2>1. CASE q <= -1
    <3>1. q * TxDescs <= (-1) * TxDescs
      BY <2>1, <1>2
    <3> QED BY <3>1, <1>1, <1>2
  <2> QED BY <2>1
<1>5. rel + inUse = cur \/ rel + inUse = cur + TxDescs
  <2>1. q = 0 \/ q = 1
    BY <1>3, <1>4
  <2> QED BY <2>1, <1>1, <1>2
<1>6. inUse \in 0 .. TxDescs
  BY <1>2
<1>7. Fwd(rel, inUse) = IF rel + inUse < TxDescs THEN rel + inUse ELSE rel + inUse - TxDescs
  BY <1>6, FwdValue DEF RingTypes
<1> QED BY <1>2, <1>5, <1>7 DEF Ahead

\* A descriptor the chip owns belongs to a frame whose pbuf is recorded at another, or
\* the same, that the chip owns too.
Marked == \A d \in Desc : own[d] =>
            points[d] # None /\ \E e \in Desc : own[e] /\ addr[e] = points[d]

LEMMA OwnedIsMarked == RingInv => Marked
<1> SUFFICES ASSUME RingInv, NEW d \in Desc, own[d]
             PROVE  points[d] # None /\ \E e \in Desc : own[e] /\ addr[e] = points[d]
  BY DEF Marked
<1>1. PICK n \in 0 .. TxDescs : RunIs(n)
  BY DEF RingInv, Run
<1>2. PICK k \in 0 .. n - 1 : d = Fwd(dma, k)
  BY <1>1 DEF RunIs
<1>3. points[d] # None
  BY <1>1, <1>2 DEF RunIs
<1>4. PICK j \in k .. n - 1 : addr[Fwd(dma, j)] = points[d]
  BY <1>1, <1>2 DEF RunIs
<1>5. j \in 0 .. n - 1 /\ j \in 0 .. TxDescs
  BY SizeAssumption
<1>6. Fwd(dma, j) \in Desc
  BY <1>5, FwdValue DEF RingInv, RingTypes
<1>7. own[Fwd(dma, j)]
  BY <1>1, <1>5, <1>6 DEF RunIs
<1> QED BY <1>3, <1>4, <1>6, <1>7

\* The chip reads only from pbufs the interface holds.
LEMMA HeldFromRing == RingInv => PayloadHeld
<1> SUFFICES ASSUME RingInv, NEW d \in Desc, own[d]
             PROVE  points[d] \in Frame /\ refs[points[d]] > 0
  BY DEF PayloadHeld
<1>1. points[d] # None /\ \E e \in Desc : addr[e] = points[d]
  BY OwnedIsMarked DEF Marked
<1>2. points[d] \in Frame
  BY <1>1, SizeAssumption DEF RingInv, RingTypes, Frame, None
<1>3. refs[points[d]] = 1
  BY <1>1, <1>2 DEF RingInv, Counts
<1> QED BY <1>2, <1>3

-----------------------------------------------------------------------------
(* What the release does.                                                  *)

\* A packet before the point that releaseIndex moves to is freed.
LEMMA DoneBelow ==
  ASSUME RingTypes, NEW m \in 0 .. inUse, Passed(m)
  PROVE  /\ m \in 0 .. TxDescs
         /\ \A k \in Visited : k < m => k \in Done
         /\ \A k \in Done : k < m /\ k \in Visited /\ ~own[Ahead(k)]
<1>1. \A k \in Visited : k \in 0 .. TxDescs - 1
  BY SizeAssumption DEF Visited, RingTypes
<1>2. \A k \in Done : k \in Visited /\ ~own[Ahead(k)]
  BY <1>1 DEF Done
<1>3. CASE Done = {}
  BY <1>3, SizeAssumption, <1>1 DEF Passed
<1>4. CASE Done # {}
  <2>1. m - 1 \in Done /\ \A k \in Done : k < m
    BY <1>4 DEF Passed
  <2>2. m - 1 \in 0 .. TxDescs - 1
    BY <2>1, <1>1, <1>2
  <2>3. ASSUME NEW k \in Visited, k < m PROVE k \in Done
    <3>1. \A j \in Visited : j <= m - 1 => ~own[Ahead(j)]
      BY <2>1 DEF Done
    <3>2. \A j \in Visited : j <= k => ~own[Ahead(j)]
      BY <3>1, <2>3, <1>1, <2>2
    <3> QED BY <3>2, <2>3 DEF Done
  <2>4. m \in 0 .. TxDescs
    BY <2>2, SizeAssumption DEF RingTypes
  <2>5. \A k \in Visited : k < m => k \in Done
    BY <2>3
  <2>6. \A k \in Done : k < m /\ k \in Visited /\ ~own[Ahead(k)]
    BY <1>2, <2>1
  <2> QED BY <2>4, <2>5, <2>6
<1> QED BY <1>3, <1>4

\* HAL_ETH_ReleaseTxPacket keeps the ring's half of the invariant; it only removes
\* packets, and it removes all of them when the chip has sent everything.
LEMMA ReleaseKeepsRing ==
  ASSUME RingInv, ReleaseTxPacket, UNCHANGED <<dma, frame>>
  PROVE  /\ RingInv'
         /\ \A d \in Desc : addr'[d] # None => addr[d] # None
         /\ AllSent => \A d \in Desc : addr'[d] = None
<1> USE DEF RingInv
<1>1. PICK m \in 0 .. inUse :
        /\ Passed(m)
        /\ addr' = [d \in Desc |-> IF \E k \in Done : d = Ahead(k) THEN None ELSE addr[d]]
        /\ refs' = [f \in Frame |-> refs[f] - IF Freed(f) THEN 1 ELSE 0]
        /\ rel' = Ahead(m) /\ inUse' = inUse - m
        /\ UNCHANGED <<started, own, points, cur>>
  BY DEF ReleaseTxPacket
<1>2. /\ m \in 0 .. TxDescs
      /\ \A k \in Visited : k < m => k \in Done
      /\ \A k \in Done : k < m /\ k \in Visited /\ ~own[Ahead(k)]
  BY <1>1, DoneBelow
<1>3. \A d \in Desc : addr'[d] = None \/ addr'[d] = addr[d]
  BY <1>1
<1>4. \A d \in Desc : own[d] => addr'[d] = addr[d]
  BY <1>1, <1>2
<1>5. Counts' /\ refs' \in [Frame -> Nat]
  <2>1. ASSUME NEW f \in Frame
        PROVE  refs'[f] = IF \E d \in Desc : addr'[d] = f THEN 1 ELSE 0
    <3>0. /\ refs[f] = IF \E d \in Desc : addr[d] = f THEN 1 ELSE 0
          /\ refs'[f] = refs[f] - IF Freed(f) THEN 1 ELSE 0
          /\ f # None
      BY <1>1, SizeAssumption DEF Counts, Frame, None
    <3>1. CASE Freed(f)
      <4>1. PICK k \in Done : addr[Ahead(k)] = f
        BY <3>1 DEF Freed
      <4>2. Ahead(k) \in Desc
        BY <1>2, FwdValue, SizeAssumption DEF Visited, Ahead, RingTypes
      <4>3. \A d \in Desc : addr[d] = f => d = Ahead(k)
        BY <4>1, <4>2, <3>0 DEF Distinct
      <4>4. \A d \in Desc : addr'[d] # f
        BY <4>3, <1>1, <3>0
      <4> QED BY <3>0, <3>1, <4>1, <4>2, <4>4
    <3>2. CASE ~Freed(f)
      <4>1. \A d \in Desc : addr'[d] = f <=> addr[d] = f
        BY <3>0, <3>2, <1>1 DEF Freed
      <4> QED BY <3>0, <3>2, <4>1
    <3> QED BY <3>1, <3>2
  <2>2. refs' = [f \in Frame |-> refs'[f]]
    BY <1>1
  <2>3. \A f \in Frame : refs'[f] \in Nat
    BY <2>1
  <2> QED BY <2>1, <2>2, <2>3 DEF Counts
<1>6. RingTypes'
  <2>1. addr' \in [Desc -> 0 .. Frames]
    BY <1>1, SizeAssumption DEF RingTypes, None
  <2>2. rel' \in Desc /\ inUse' \in Nat
    BY <1>1, <1>2, FwdValue DEF RingTypes, Ahead
  <2> QED BY <1>1, <1>5, <2>1, <2>2 DEF RingTypes
<1>7. Distinct' /\ Past' /\ LastMark'
  <2>1. Distinct'
    BY <1>3 DEF Distinct
  <2>2. Past'
    BY <1>1, <1>3, SizeAssumption DEF Past, RingTypes, None
  <2>3. LastMark'
    BY <1>1, <1>4 DEF LastMark
  <2> QED BY <2>1, <2>2, <2>3
<1>8. Run'
  <2>1. PICK n \in 0 .. TxDescs : RunIs(n)
    BY DEF Run
  <2>2. ASSUME NEW j \in 0 .. n - 1 PROVE addr'[Fwd(dma, j)] = addr[Fwd(dma, j)]
    <3>1. j \in 0 .. TxDescs
      BY SizeAssumption
    <3>2. Fwd(dma, j) \in Desc
      BY <3>1, FwdValue DEF RingTypes
    <3> QED BY <3>2, <2>1, <1>4 DEF RunIs
  <2>3. \A k \in 0 .. n - 1 : \A j \in k .. n - 1 : j \in 0 .. n - 1
    OBVIOUS
  <2>4. RunIs(n)'
    BY <1>1, <2>1, <2>2, <2>3 DEF RunIs
  <2> QED BY <2>4 DEF Run
<1>9. Lap'
  <2>1. PICK q \in Int : rel + inUse = cur + q * TxDescs
    BY DEF Lap
  <2>2. rel' = rel + m \/ rel' = rel + m - TxDescs
    BY <1>1, <1>2, FwdValue DEF Ahead, RingTypes
  <2>3. /\ rel \in Int /\ inUse \in Int /\ cur \in Int /\ TxDescs \in Int /\ m \in Int
        /\ cur' = cur /\ inUse' = inUse - m
    BY <1>1, SizeAssumption DEF RingTypes, Desc
  <2>4. CASE rel' = rel + m
    <3>1. rel' + inUse' = cur' + q * TxDescs
      BY <2>1, <2>3, <2>4
    <3> QED BY <3>1 DEF Lap
  <2>5. CASE rel' = rel + m - TxDescs
    <3>1. (q - 1) * TxDescs = q * TxDescs - TxDescs
      BY <2>3
    <3>2. rel' + inUse' = cur' + (q - 1) * TxDescs
      BY <2>1, <2>3, <2>5, <3>1
    <3> QED BY <3>2 DEF Lap
  <2> QED BY <2>2, <2>4, <2>5
<1>10. ASSUME NEW d \in Desc, addr'[d] # None
       PROVE  \E k \in 0 .. TxDescs - 1 : k < inUse /\ k >= m /\ d = Ahead(k) /\ k \notin Done
  <2>1. addr[d] # None /\ ~\E k \in Done : d = Ahead(k)
    BY <1>1, <1>10
  <2>2. PICK k \in 0 .. TxDescs - 1 : k < inUse /\ d = Ahead(k)
    BY <2>1 DEF Reach
  <2>3. k \in Visited
    BY <2>1, <2>2, SizeAssumption DEF Visited, RingTypes
  <2> QED BY <1>2, <2>1, <2>2, <2>3
<1>11. Reach'
  <2>1. SUFFICES ASSUME NEW d \in Desc, addr'[d] # None
                 PROVE  \E k \in 0 .. TxDescs - 1 : k < inUse' /\ d = Fwd(rel', k)
    BY DEF Reach, Ahead
  <2>2. PICK k \in 0 .. TxDescs - 1 : k < inUse /\ k >= m /\ d = Ahead(k)
    BY <2>1, <1>10
  <2>3. k - m \in 0 .. TxDescs - 1 /\ k - m < inUse'
    BY <1>1, <1>2, <2>2, SizeAssumption DEF RingTypes
  <2>4. Fwd(Fwd(rel, m), k - m) = Fwd(rel, m + (k - m))
    BY <1>2, <2>3, FwdSum, SizeAssumption DEF RingTypes
  <2>5. m + (k - m) = k
    BY <1>2
  <2> QED BY <1>1, <2>2, <2>3, <2>4, <2>5 DEF Ahead
<1>12. ASSUME AllSent, NEW d \in Desc PROVE addr'[d] = None
  <2>1. CASE addr'[d] # None
    <3>1. PICK k \in 0 .. TxDescs - 1 : k < inUse /\ d = Ahead(k) /\ k \notin Done
      BY <2>1, <1>10
    <3>2. k \in Visited
      BY <2>1, <3>1, <1>3, SizeAssumption DEF Visited, RingTypes
    <3>3. \A j \in Visited : Ahead(j) \in Desc
      BY FwdValue, SizeAssumption DEF Visited, Ahead, RingTypes
    <3> QED BY <3>1, <3>2, <3>3, <1>12 DEF Done, AllSent
  <2> QED BY <2>1
<1> QED BY <1>3, <1>5, <1>6, <1>7, <1>8, <1>9, <1>11, <1>12

-----------------------------------------------------------------------------
(* What HAL_ETH_Transmit_IT and the chip do to the ring.                   *)

\* A frame of n segments: its descriptors prolong the chip's run, and its pbuf is held.
LEMMA TransmitKeepsRing ==
  ASSUME RingInv, NEW n \in 1 .. MaxSegs, Transmit(n)
  PROVE  /\ RingInv'
         /\ \A d \in Desc : own'[d] => own[d] \/ points'[d] = frame'
         /\ Kept' = Kept \cup {Fwd(cur, n - 1)}
<1> USE DEF RingInv
<1> DEFINE last == Fwd(cur, n - 1)
<1>1. /\ frame < Frames /\ frame' = frame + 1 /\ n <= TxDescs
      /\ \A d \in Room(n) : ~own[d] /\ addr[d] = None
      /\ own' = [d \in Desc |-> d \in Room(n) \/ own[d]]
      /\ points' = [d \in Desc |-> IF d \in Room(n) THEN frame' ELSE points[d]]
      /\ addr' = [addr EXCEPT ![last] = frame']
      /\ cur' = Fwd(cur, n) /\ inUse' = inUse + n
      /\ refs' = [refs EXCEPT ![frame'] = @ + 1]
      /\ UNCHANGED <<started, rel, dma>>
  BY DEF Transmit, IsFree
<1>2. /\ n \in 1 .. TxDescs /\ n \in 0 .. TxDescs /\ n - 1 \in 0 .. TxDescs
      /\ n - 1 \in 0 .. n - 1 /\ TxDescs \in Nat \ {0} /\ MaxSegs \in Nat
      /\ frame \in Nat /\ frame' \in Frame /\ frame' # None /\ frame' <= Frames
  BY <1>1, SizeAssumption DEF RingTypes, Frame, None
<1>3. last \in Desc /\ last \in Room(n) /\ Room(n) \in SUBSET Desc /\ cur' \in Desc
  <2>1. last \in Desc /\ cur' \in Desc
    BY <1>1, <1>2, FwdValue DEF RingTypes
  <2>2. last \in Room(n)
    BY <1>2 DEF Room
  <2>3. \A k \in 0 .. n - 1 : k \in 0 .. TxDescs
    BY <1>2
  <2>4. Room(n) \in SUBSET Desc
    BY <2>3, FwdValue DEF Room, RingTypes
  <2> QED BY <2>1, <2>2, <2>4
<1> HIDE DEF last
<1>4. /\ addr[last] = None /\ addr'[last] = frame'
      /\ \A d \in Desc : d # last => addr'[d] = addr[d]
  BY <1>1, <1>3 DEF RingTypes
<1>5. /\ \A d \in Desc : own'[d] <=> d \in Room(n) \/ own[d]
      /\ \A d \in Desc : points'[d] = IF d \in Room(n) THEN frame' ELSE points[d]
  BY <1>1
<1>6. \A d \in Desc : addr[d] # frame' /\ points[d] # frame'
  BY <1>1, <1>2, SizeAssumption DEF Past, RingTypes
<1>7. RingTypes'
  <2>1. own' \in [Desc -> BOOLEAN]
    BY <1>1 DEF RingTypes
  <2>2. points' \in [Desc -> 0 .. Frames] /\ addr' \in [Desc -> 0 .. Frames] /\ frame' \in 0 .. Frames
    <3>1. frame' \in 0 .. Frames
      BY <1>2, SizeAssumption DEF Frame
    <3> QED BY <3>1, <1>1 DEF RingTypes
  <2>3. refs' \in [Frame -> Nat] /\ inUse' \in Nat
    BY <1>1, <1>2 DEF RingTypes
  <2> QED BY <1>1, <1>3, <2>1, <2>2, <2>3 DEF RingTypes
<1>8. Counts'
  <2>1. SUFFICES ASSUME NEW f \in Frame
                 PROVE  refs'[f] = IF \E d \in Desc : addr'[d] = f THEN 1 ELSE 0
    BY DEF Counts
  <2>2. refs[f] = (IF \E d \in Desc : addr[d] = f THEN 1 ELSE 0) /\ f # None
    BY SizeAssumption DEF Counts, Frame, None
  <2>3. CASE f = frame'
    <3>1. refs[f] = 0
      BY <2>2, <2>3, <1>6
    <3>2. refs'[f] = 1
      BY <3>1, <2>3, <1>1, <1>2 DEF RingTypes
    <3> QED BY <3>2, <2>3, <1>3, <1>4
  <2>4. CASE f # frame'
    <3>1. refs'[f] = refs[f]
      BY <2>4, <1>1 DEF RingTypes
    <3>2. \A d \in Desc : addr'[d] = f <=> addr[d] = f
      BY <2>2, <2>4, <1>4
    <3> QED BY <3>1, <3>2, <2>2
  <2> QED BY <2>3, <2>4
<1>9. Distinct'
  BY <1>4, <1>6 DEF Distinct
<1>10. Past'
  <2>1. SUFFICES ASSUME NEW d \in Desc PROVE addr'[d] <= frame' /\ points'[d] <= frame'
    BY DEF Past
  <2>2. addr[d] \in Nat /\ points[d] \in Nat /\ addr[d] <= frame /\ points[d] <= frame
    BY SizeAssumption DEF Past, RingTypes
  <2>3. (addr'[d] = addr[d] \/ addr'[d] = frame') /\ (points'[d] = points[d] \/ points'[d] = frame')
    BY <1>4, <1>5
  <2> QED BY <2>2, <2>3, <1>1, <1>2
<1>11. LastMark'
  BY <1>3, <1>4, <1>5, <1>1 DEF LastMark
<1>12. PICK r \in 0 .. TxDescs : RunIs(r)
  BY DEF Run
<1>13. r + n <= TxDescs
  <2>1. SUFFICES ASSUME r + n > TxDescs PROVE FALSE
    BY <1>2
  <2>2. TxDescs - r \in 0 .. n - 1 /\ TxDescs - r \in 0 .. TxDescs /\ r + (TxDescs - r) = TxDescs
    BY <1>2, <2>1
  <2>3. Fwd(Fwd(dma, r), TxDescs - r) = Fwd(dma, TxDescs)
    BY <2>2, <1>2, FwdSum DEF RingTypes
  <2>4. dma \in Desc /\ Fwd(dma, TxDescs) = dma /\ Fwd(dma, 0) = dma
    BY FwdValue DEF RingTypes
  <2>5. dma \in Room(n)
    BY <2>2, <2>3, <2>4, <1>12 DEF Room, RunIs
  <2>6. 0 \in 0 .. r - 1
    BY <2>1, <1>1, <1>2
  <2>7. own[dma]
    BY <2>4, <2>6, <1>12 DEF RunIs
  <2> QED BY <2>5, <2>7, <1>1
<1>14. \A k \in 0 .. n : r + k \in 0 .. TxDescs /\ Fwd(cur, k) = Fwd(dma, r + k)
  <2>1. SUFFICES ASSUME NEW k \in 0 .. n
                 PROVE  r + k \in 0 .. TxDescs /\ Fwd(cur, k) = Fwd(dma, r + k)
    OBVIOUS
  <2>2. k \in 0 .. TxDescs /\ r + k <= TxDescs /\ r + k \in 0 .. TxDescs
    BY <1>2, <1>13
  <2> QED BY <2>2, <1>12, FwdSum DEF RunIs, RingTypes
<1>15. RunIs(r + n)'
  <2>1. cur' = Fwd(dma', r + n)
    BY <1>1, <1>2, <1>14
  <2>2. ASSUME NEW d \in Desc
        PROVE  own'[d] <=> \E k \in 0 .. r + n - 1 : d = Fwd(dma', k)
    <3>1. CASE own[d]
      <4>1. PICK k \in 0 .. r - 1 : d = Fwd(dma, k)
        BY <3>1, <1>12 DEF RunIs
      <4>2. k \in 0 .. r + n - 1
        BY <1>2
      <4> QED BY <3>1, <4>1, <4>2, <1>1, <1>5
    <3>2. CASE d \in Room(n)
      <4>1. PICK k \in 0 .. n - 1 : d = Fwd(cur, k)
        BY <3>2 DEF Room
      <4>2. r + k \in 0 .. r + n - 1 /\ d = Fwd(dma, r + k)
        BY <4>1, <1>2, <1>14
      <4> QED BY <3>2, <4>2, <1>1, <1>5
    <3>3. CASE ~own[d] /\ d \notin Room(n)
      <4>1. SUFFICES ASSUME NEW k \in 0 .. r + n - 1, d = Fwd(dma, k) PROVE FALSE
        BY <3>3, <1>1, <1>5
      <4>2. CASE k < r
        <5>1. k \in 0 .. r - 1
          BY <4>2
        <5> QED BY <5>1, <4>1, <3>3, <1>12 DEF RunIs
      <4>3. CASE k >= r
        <5>1. k - r \in 0 .. n - 1 /\ k - r \in 0 .. n /\ r + (k - r) = k
          BY <4>3, <1>2
        <5>2. d = Fwd(cur, k - r)
          BY <5>1, <4>1, <1>14
        <5> QED BY <5>1, <5>2, <3>3 DEF Room
      <4> QED BY <4>2, <4>3
    <3> QED BY <3>1, <3>2, <3>3
  <2>3. ASSUME NEW k \in 0 .. r + n - 1
        PROVE  /\ points'[Fwd(dma', k)] # None
               /\ \E j \in k .. r + n - 1 : addr'[Fwd(dma', j)] = points'[Fwd(dma', k)]
    <3>1. CASE k < r
      <4>1. k \in 0 .. r - 1
        BY <3>1
      <4>2. PICK j \in k .. r - 1 : addr[Fwd(dma, j)] = points[Fwd(dma, k)]
        BY <4>1, <1>12 DEF RunIs
      <4>3. j \in 0 .. r - 1 /\ j \in k .. r + n - 1 /\ j \in 0 .. TxDescs /\ k \in 0 .. TxDescs
        BY <4>1, <1>2
      <4>4. Fwd(dma, k) \in Desc /\ Fwd(dma, j) \in Desc
        BY <4>3, FwdValue DEF RingTypes
      <4>5. own[Fwd(dma, k)] /\ own[Fwd(dma, j)]
        BY <4>1, <4>3, <4>4, <1>12 DEF RunIs
      <4>6. /\ points'[Fwd(dma, k)] = points[Fwd(dma, k)]
            /\ addr'[Fwd(dma, j)] = addr[Fwd(dma, j)]
        BY <4>4, <4>5, <1>1, <1>3, <1>4, <1>5
      <4>7. points[Fwd(dma, k)] # None
        BY <4>1, <1>12 DEF RunIs
      <4> QED BY <4>2, <4>3, <4>6, <4>7, <1>1
    <3>2. CASE k >= r
      <4>1. k - r \in 0 .. n - 1 /\ k - r \in 0 .. n /\ r + (k - r) = k
        BY <3>2, <1>2
      <4>2. Fwd(dma, k) \in Room(n)
        BY <4>1, <1>14 DEF Room
      <4>3. points'[Fwd(dma, k)] = frame'
        BY <4>2, <1>3, <1>5
      <4>4. r + n - 1 \in k .. r + n - 1 /\ n - 1 \in 0 .. n /\ r + (n - 1) = r + n - 1
        BY <1>2
      <4>5. Fwd(dma, r + n - 1) = last
        BY <4>4, <1>14 DEF last
      <4> QED BY <4>3, <4>4, <4>5, <1>1, <1>2, <1>4
    <3> QED BY <3>1, <3>2, <1>2
  <2> QED BY <2>1, <2>2, <2>3 DEF RunIs
<1>16. Run'
  <2>1. r + n \in 0 .. TxDescs
    BY <1>2, <1>13
  <2> QED BY <2>1, <1>15 DEF Run
<1>17. Lap'
  <2>1. PICK q \in Int : rel + inUse = cur + q * TxDescs
    BY DEF Lap
  <2>2. cur' = cur + n \/ cur' = cur + n - TxDescs
    BY <1>1, <1>2, FwdValue DEF RingTypes
  <2>3. /\ rel \in Int /\ inUse \in Int /\ cur \in Int /\ TxDescs \in Int /\ n \in Int
        /\ rel' = rel /\ inUse' = inUse + n
    BY <1>1, <1>2 DEF RingTypes, Desc
  <2>4. CASE cur' = cur + n
    <3>1. rel' + inUse' = cur' + q * TxDescs
      BY <2>1, <2>3, <2>4
    <3> QED BY <3>1 DEF Lap
  <2>5. CASE cur' = cur + n - TxDescs
    <3>1. (q + 1) * TxDescs = q * TxDescs + TxDescs
      BY <2>3
    <3>2. rel' + inUse' = cur' + (q + 1) * TxDescs
      BY <2>1, <2>3, <2>5, <3>1
    <3> QED BY <3>2 DEF Lap
  <2> QED BY <2>2, <2>4, <2>5
<1>18. Reach'
  <2>1. SUFFICES ASSUME NEW d \in Desc, addr'[d] # None
                 PROVE  \E k \in 0 .. TxDescs - 1 : k < inUse' /\ d = Fwd(rel', k)
    BY DEF Reach, Ahead
  <2>2. CASE d # last
    <3>1. PICK k \in 0 .. TxDescs - 1 : k < inUse /\ d = Ahead(k)
      BY <2>1, <2>2, <1>4 DEF Reach
    <3>2. k < inUse'
      BY <3>1, <1>1, <1>2 DEF RingTypes
    <3> QED BY <3>1, <3>2, <1>1 DEF Ahead
  <2>3. CASE d = last /\ inUse' > TxDescs
    <3>1. PICK k \in 0 .. TxDescs - 1 : d = Fwd(rel, k)
      BY FwdOnto DEF RingTypes
    <3>2. k < inUse'
      BY <2>3, <1>1, <1>2 DEF RingTypes
    <3> QED BY <3>1, <3>2, <1>1
  <2>4. CASE d = last /\ ~(inUse' > TxDescs)
    <3>1. /\ inUse < TxDescs /\ inUse \in 0 .. TxDescs /\ inUse + (n - 1) <= TxDescs
          /\ inUse + (n - 1) \in 0 .. TxDescs - 1 /\ inUse + (n - 1) < inUse'
      BY <2>4, <1>1, <1>2 DEF RingTypes
    <3>2. Fwd(rel, inUse) = cur
      BY <3>1, LapShort DEF Ahead
    <3>3. Fwd(Fwd(rel, inUse), n - 1) = Fwd(rel, inUse + (n - 1))
      BY <3>1, <1>2, FwdSum DEF RingTypes
    <3> QED BY <3>1, <3>2, <3>3, <2>4, <1>1 DEF last
  <2> QED BY <2>2, <2>3, <2>4
<1>19. \A d \in Desc : own'[d] => own[d] \/ points'[d] = frame'
  BY <1>5
<1>20. Kept' = Kept \cup {last}
  BY <1>2, <1>3, <1>4 DEF Kept
<1> QED BY <1>7, <1>8, <1>9, <1>10, <1>11, <1>16, <1>17, <1>18, <1>19, <1>20 DEF last

\* The chip sends the first descriptor of its run.  When its frame is the only one the
\* chip has, and its pbuf is recorded here, that was the last of the run.
LEMMA SendKeepsRing ==
  ASSUME RingInv, Send
  PROVE  /\ RingInv'
         /\ \A d \in Desc : own'[d] => own[d]
         /\ (addr[dma] # None /\ \A d \in Desc : own[d] => points[d] = points[dma]) => AllSent'
<1> USE DEF RingInv
<1>1. /\ own[dma] /\ own' = [own EXCEPT ![dma] = FALSE] /\ dma' = Fwd(dma, 1)
      /\ UNCHANGED <<started, points, addr, cur, rel, inUse, refs, frame>>
  BY DEF Send
<1>2. TxDescs \in Nat \ {0} /\ dma \in Desc /\ 1 \in 0 .. TxDescs
  BY SizeAssumption DEF RingTypes
<1>3. \A d \in Desc : own'[d] <=> own[d] /\ d # dma
  BY <1>1, <1>2 DEF RingTypes
<1>4. RingTypes'
  <2>1. dma' \in Desc
    BY <1>1, <1>2, FwdValue
  <2>2. own' \in [Desc -> BOOLEAN]
    BY <1>1 DEF RingTypes
  <2> QED BY <1>1, <2>1, <2>2 DEF RingTypes
<1>5. Counts' /\ Distinct' /\ Past' /\ Lap' /\ Reach'
  BY <1>1 DEF Counts, Distinct, Past, Lap, Reach, Ahead
<1>6. LastMark'
  BY <1>1, <1>3 DEF LastMark
<1>7. PICK n \in 0 .. TxDescs : RunIs(n)
  BY DEF Run
<1>8. n >= 1
  BY <1>1, <1>2, <1>7 DEF RunIs
<1>9. \A k \in 0 .. n - 1 : /\ k \in 0 .. TxDescs - 1 /\ k \in 0 .. TxDescs /\ 1 + k = k + 1
                            /\ Fwd(dma', k) = Fwd(dma, k + 1)
  <2>1. SUFFICES ASSUME NEW k \in 0 .. n - 1
                 PROVE  /\ k \in 0 .. TxDescs - 1 /\ k \in 0 .. TxDescs /\ 1 + k = k + 1
                        /\ Fwd(dma', k) = Fwd(dma, k + 1)
    OBVIOUS
  <2>2. k \in 0 .. TxDescs - 1 /\ k \in 0 .. TxDescs /\ 1 + k <= TxDescs /\ 1 + k = k + 1
    BY <1>2
  <2> QED BY <2>2, <1>1, <1>2, FwdSum
<1>10. RunIs(n - 1)'
  <2>1. cur' = Fwd(dma', n - 1)
    <3>1. n - 1 \in 0 .. n - 1 /\ (n - 1) + 1 = n
      BY <1>8
    <3> QED BY <3>1, <1>1, <1>7, <1>9 DEF RunIs
  <2>2. ASSUME NEW d \in Desc
        PROVE  own'[d] <=> \E k \in 0 .. (n - 1) - 1 : d = Fwd(dma', k)
    <3>1. ASSUME own'[d] PROVE \E k \in 0 .. (n - 1) - 1 : d = Fwd(dma', k)
      <4>1. PICK k \in 0 .. n - 1 : d = Fwd(dma, k)
        BY <3>1, <1>3, <1>7 DEF RunIs
      <4>2. k # 0
        BY <4>1, <3>1, <1>2, <1>3, FwdValue
      <4>3. k - 1 \in 0 .. (n - 1) - 1 /\ k - 1 \in 0 .. n - 1 /\ (k - 1) + 1 = k
        BY <4>2
      <4> QED BY <4>1, <4>3, <1>9
    <3>2. ASSUME NEW k \in 0 .. (n - 1) - 1, d = Fwd(dma', k) PROVE own'[d]
      <4>1. k \in 0 .. n - 1 /\ k + 1 \in 0 .. n - 1 /\ 0 \in 0 .. TxDescs - 1
        BY <1>2
      <4>2. d = Fwd(dma, k + 1)
        BY <3>2, <4>1, <1>9
      <4>3. own[d]
        BY <4>1, <4>2, <1>7 DEF RunIs
      <4>4. k + 1 \in 0 .. TxDescs - 1 /\ k + 1 # 0
        BY <4>1, <1>2
      <4>5. Fwd(dma, k + 1) = Fwd(dma, 0) => k + 1 = 0
        BY <4>1, <4>4, <1>2, FwdInjective
      <4>6. d # dma
        BY <4>2, <4>4, <4>5, <1>2, FwdValue
      <4> QED BY <4>3, <4>6, <1>3
    <3> QED BY <3>1, <3>2
  <2>3. ASSUME NEW k \in 0 .. (n - 1) - 1
        PROVE  /\ points'[Fwd(dma', k)] # None
               /\ \E j \in k .. (n - 1) - 1 : addr'[Fwd(dma', j)] = points'[Fwd(dma', k)]
    <3>1. k \in 0 .. n - 1 /\ k + 1 \in 0 .. n - 1
      OBVIOUS
    <3>2. points[Fwd(dma, k + 1)] # None
      BY <3>1, <1>7 DEF RunIs
    <3>3. PICK j \in k + 1 .. n - 1 : addr[Fwd(dma, j)] = points[Fwd(dma, k + 1)]
      BY <3>1, <1>7 DEF RunIs
    <3>4. j - 1 \in k .. (n - 1) - 1 /\ j - 1 \in 0 .. n - 1 /\ (j - 1) + 1 = j
      BY <3>1
    <3>5. Fwd(dma', k) = Fwd(dma, k + 1) /\ Fwd(dma', j - 1) = Fwd(dma, j)
      BY <3>1, <3>4, <1>9
    <3> QED BY <3>2, <3>3, <3>4, <3>5, <1>1
  <2> QED BY <2>1, <2>2, <2>3 DEF RunIs
<1>11. Run'
  <2>1. n - 1 \in 0 .. TxDescs
    BY <1>2, <1>8
  <2> QED BY <2>1, <1>10 DEF Run
<1>12. RingInv'
  BY <1>4, <1>5, <1>6, <1>11
<1>13. ASSUME addr[dma] # None, \A d \in Desc : own[d] => points[d] = points[dma]
       PROVE  AllSent'
  <2>1. SUFFICES ASSUME NEW d \in Desc, own'[d] PROVE FALSE
    BY DEF AllSent
  <2>2. own[d] /\ d # dma
    BY <2>1, <1>3
  <2>0. Marked'
    BY <1>12, OwnedIsMarked, PTL
  <2>3. PICK e \in Desc : own'[e] /\ addr'[e] = points'[d]
    BY <2>0, <2>1 DEF Marked
  <2>4. addr[e] = points[dma] /\ addr[dma] = points[dma]
    BY <2>2, <2>3, <1>1, <1>2, <1>13 DEF LastMark
  <2>5. e = dma
    BY <2>4, <1>2, <1>13 DEF Distinct
  <2> QED BY <2>3, <2>5, <1>3
<1> QED BY <1>3, <1>12, <1>13

-----------------------------------------------------------------------------
(* The steps of the specification, on both halves.                         *)

\* A frame is handed to the chip, which has none if the caller was never misled.
LEMMA TransmitStep == ASSUME NEW n \in 1 .. MaxSegs PROVE IInv /\ Transmit(n) => IInv'
<1> SUFFICES ASSUME IInv, Transmit(n) PROVE IInv'
  OBVIOUS
<1>1. /\ RingInv'
      /\ \A d \in Desc : own'[d] => own[d] \/ points'[d] = frame'
      /\ Kept' = Kept \cup {Fwd(cur, n - 1)}
  BY TransmitKeepsRing DEF IInv
<1>2. /\ pc = "idle" /\ pc' = "wait" /\ frame' = frame + 1
      /\ UNCHANGED <<ts, tok, ret, late, slipped>>
  BY DEF Transmit
<1>3. CallTypes'
  BY <1>2 DEF IInv, RingInv, RingTypes, CallInv, CallTypes
<1>4. Quiet'
  BY <1>1, <1>2 DEF IInv, CallInv, CallTypes, Quiet, AllSent
<1>5. HeldCount'
  <2>1. Cardinality(Kept') <= Cardinality(Kept) + 1 /\ Cardinality(Kept) \in Nat
    BY <1>1, KeptFinite, FS_AddElement
  <2>2. Cardinality(Kept') \in Nat
    BY <1>1, KeptFinite, FS_AddElement, FS_CardinalityType
  <2> QED BY <1>2, <2>1, <2>2 DEF IInv, CallInv, CallTypes, HeldCount
<1> QED BY <1>1, <1>3, <1>4, <1>5 DEF IInv, CallInv

\* The chip sends a descriptor; the flag rises with the last one of the frame.
LEMMA SendStep == IInv /\ Send => IInv'
<1> SUFFICES ASSUME IInv, Send PROVE IInv'
  OBVIOUS
<1>1. /\ RingInv'
      /\ \A d \in Desc : own'[d] => own[d]
      /\ (addr[dma] # None /\ \A d \in Desc : own[d] => points[d] = points[dma]) => AllSent'
  BY SendKeepsRing DEF IInv
<1>2. /\ own[dma] /\ dma \in Desc
      /\ ts' = (ts \/ addr[dma] # None)
      /\ UNCHANGED <<tok, pc, ret, late, slipped, frame, points, addr>>
  BY DEF Send, IInv, RingInv, RingTypes
<1>3. CallTypes'
  BY <1>2 DEF IInv, CallInv, CallTypes
<1>4. Quiet'
  <2>1. SUFFICES ASSUME ~slipped
                 PROVE  /\ pc \in {"idle", "release"} => FALSE
                        /\ \A d \in Desc : own'[d] => points[d] = frame
                        /\ ts' \/ tok => AllSent'
                        /\ ~(ts' /\ tok)
    BY <1>2 DEF Quiet
  <2>2. ~ts /\ ~tok /\ pc \notin {"idle", "release"} /\ \A d \in Desc : own[d] => points[d] = frame
    BY <2>1, <1>2 DEF IInv, CallInv, Quiet, AllSent
  <2>3. ts' => addr[dma] # None
    BY <2>2, <1>2
  <2>4. ts' => AllSent'
    BY <2>2, <2>3, <1>1, <1>2
  <2> QED BY <2>2, <2>4, <1>1
<1>5. HeldCount'
  <2>1. Kept' = Kept
    BY <1>2 DEF Kept
  <2> QED BY <1>2, <2>1 DEF HeldCount, IInv, CallInv
<1> QED BY <1>1, <1>3, <1>4, <1>5 DEF IInv, CallInv

\* The release, after the token or after the 50 ms.
LEMMA ReleaseStep == IInv /\ (ReturnOk \/ ReleaseLate) => IInv'
<1> SUFFICES ASSUME IInv, ReturnOk \/ ReleaseLate PROVE IInv'
  OBVIOUS
<1>1. ReleaseTxPacket /\ UNCHANGED <<dma, ts, tok, frame, late, slipped>>
  BY DEF ReturnOk, ReleaseLate
<1>2. /\ RingInv'
      /\ \A d \in Desc : addr'[d] # None => addr[d] # None
      /\ AllSent => \A d \in Desc : addr'[d] = None
  BY <1>1, ReleaseKeepsRing DEF IInv
<1>3. own' = own /\ points' = points
  BY <1>1 DEF ReleaseTxPacket
<1>4. CallTypes'
  BY <1>1 DEF ReturnOk, ReleaseLate, IInv, CallInv, CallTypes
<1>5. Quiet'
  BY <1>1, <1>3 DEF ReturnOk, ReleaseLate, IInv, CallInv, Quiet, AllSent
<1>6. Cardinality(Kept') <= Cardinality(Kept) /\ Cardinality(Kept') \in Nat /\ Cardinality(Kept) \in Nat
  <2>1. Kept' \in SUBSET Kept
    BY <1>2 DEF Kept
  <2> QED BY <2>1, KeptFinite, FS_Subset, FS_CardinalityType
<1>7. HeldCount'
  <2>1. CASE ReturnOk
    <3>1. SUFFICES ASSUME ~slipped PROVE Cardinality(Kept') <= late
      <4>1. pc' = "idle" /\ late' = late /\ slipped' = slipped /\ late \in Nat
        BY <2>1, <1>1 DEF ReturnOk, IInv, CallInv, CallTypes
      <4> QED BY <4>1 DEF HeldCount
    <3>2. Kept' = {}
      BY <2>1, <3>1, <1>2 DEF ReturnOk, Kept, IInv, CallInv, Quiet
    <3> QED BY <3>2, FS_EmptySet DEF IInv, CallInv, CallTypes
  <2>2. CASE ReleaseLate
    BY <2>2, <1>1, <1>6 DEF ReleaseLate, HeldCount, IInv, CallInv, CallTypes
  <2> QED BY <2>1, <2>2
<1> QED BY <1>2, <1>4, <1>5, <1>7 DEF IInv, CallInv

\* The other steps leave the ring alone, or only start the driver or count a frame that
\* was refused.
LEMMA RingRests ==
  ASSUME RingInv, UNCHANGED <<own, points, addr, cur, rel, inUse, refs, dma>>,
         started' \in BOOLEAN, frame' \in 0 .. Frames, frame' >= frame
  PROVE  RingInv' /\ Kept' = Kept /\ (AllSent' <=> AllSent)
<1>1. RingTypes'
  BY DEF RingInv, RingTypes
<1>2. Counts' /\ Distinct' /\ Lap' /\ Reach' /\ LastMark' /\ Kept' = Kept /\ (AllSent' <=> AllSent)
  BY DEF RingInv, Counts, Distinct, Lap, Reach, LastMark, Ahead, Kept, AllSent
<1>3. Past'
  <2>1. \A d \in Desc : addr[d] \in Nat /\ points[d] \in Nat
    BY SizeAssumption DEF RingInv, RingTypes
  <2>2. frame \in Nat /\ frame' \in Nat
    BY SizeAssumption DEF RingInv, RingTypes
  <2> QED BY <2>1, <2>2 DEF RingInv, Past
<1>4. Run'
  BY DEF RingInv, Run, RunIs
<1> QED BY <1>1, <1>2, <1>3, <1>4 DEF RingInv

\* The steps that only move the caller, the flag and the token.
LEMMA CallStep ==
  IInv /\ (Start \/ (\E n \in 1 .. MaxSegs : Refuse(n)) \/ Taken \/ TimedOut \/ DropToken \/ TxCplt
           \/ UNCHANGED vars)
    => IInv'
<1> SUFFICES ASSUME IInv,
                    Start \/ (\E n \in 1 .. MaxSegs : Refuse(n)) \/ Taken \/ TimedOut \/ DropToken
                    \/ TxCplt \/ UNCHANGED vars
             PROVE  IInv'
  OBVIOUS
<1>1. /\ UNCHANGED <<own, points, addr, cur, rel, inUse, refs, dma>>
      /\ started' \in BOOLEAN /\ frame' \in 0 .. Frames /\ frame' >= frame
  <2>1. started \in BOOLEAN /\ frame \in 0 .. Frames
    BY DEF IInv, RingInv, RingTypes
  <2>2. UNCHANGED <<own, points, addr, cur, rel, inUse, refs, dma>>
    BY DEF Start, Refuse, Taken, TimedOut, DropToken, TxCplt, vars, halVars
  <2>3. started' = started \/ started' = TRUE
    BY DEF Start, Refuse, Taken, TimedOut, DropToken, TxCplt, vars, halVars
  <2>4. frame' = frame \/ (frame < Frames /\ frame' = frame + 1)
    BY DEF Start, Refuse, Taken, TimedOut, DropToken, TxCplt, vars
  <2>5. started' \in BOOLEAN
    BY <2>1, <2>3
  <2>6. frame' \in 0 .. Frames /\ frame' >= frame
    BY <2>1, <2>4, SizeAssumption
  <2> QED BY <2>2, <2>5, <2>6
<1>2. RingInv' /\ Kept' = Kept /\ (AllSent' <=> AllSent)
  BY <1>1, RingRests DEF IInv
<1>3. frame \in Nat
  BY SizeAssumption DEF IInv, RingInv, RingTypes
<1> USE DEF IInv, CallInv
<1>4. CallTypes'
  <2>1. CASE Start \/ DropToken \/ TxCplt \/ Taken \/ UNCHANGED vars
    BY <2>1 DEF Start, DropToken, TxCplt, Taken, CallTypes, vars
  <2>2. CASE \E n \in 1 .. MaxSegs : Refuse(n)
    BY <2>2, <1>3 DEF Refuse, CallTypes
  <2>3. CASE TimedOut
    BY <2>3, <1>3 DEF TimedOut, CallTypes
  <2> QED BY <2>1, <2>2, <2>3
<1>5. Quiet'
  <2>1. CASE Start \/ TimedOut \/ UNCHANGED vars
    BY <2>1, <1>1, <1>2 DEF Start, TimedOut, Quiet, vars
  <2>2. CASE \E n \in 1 .. MaxSegs : Refuse(n)
    BY <2>2, <1>1, <1>2 DEF Refuse, Quiet, AllSent
  <2>3. CASE Taken
    BY <2>3, <1>1, <1>2 DEF Taken, Quiet, AllSent
  <2>4. CASE DropToken
    BY <2>4, <1>1, <1>2 DEF DropToken, Quiet, AllSent
  <2>5. CASE TxCplt
    BY <2>5, <1>1, <1>2 DEF TxCplt, Quiet
  <2> QED BY <2>1, <2>2, <2>3, <2>4, <2>5
<1>6. HeldCount'
  <2>1. Cardinality(Kept) \in Nat /\ late \in Nat
    BY KeptFinite DEF CallTypes
  <2>2. CASE Start \/ TxCplt \/ Taken \/ DropToken \/ UNCHANGED vars
    BY <2>2, <1>2 DEF Start, TxCplt, Taken, DropToken, HeldCount, vars
  <2>3. CASE \E n \in 1 .. MaxSegs : Refuse(n)
    BY <2>3, <1>2 DEF Refuse, HeldCount
  <2>4. CASE TimedOut
    BY <2>1, <2>4, <1>2 DEF TimedOut, HeldCount
  <2> QED BY <2>2, <2>3, <2>4
<1> QED BY <1>2, <1>4, <1>5, <1>6

\* Before anything is sent the ring is empty and nothing is held.
LEMMA InitStep == Init => IInv
<1> SUFFICES ASSUME Init PROVE IInv
  OBVIOUS
<1> USE DEF Init
<1>1. 0 \in Desc /\ 0 \in 0 .. Frames /\ TxDescs \in Nat \ {0} /\ 0 \in 0 .. TxDescs
  BY SizeAssumption DEF Desc
<1>2. RingTypes /\ Distinct /\ Past /\ LastMark /\ Reach
  <2>1. RingTypes
    <3>1. refs \in [Frame -> Nat] /\ addr \in [Desc -> 0 .. Frames]
      BY <1>1 DEF None
    <3>2. own \in [Desc -> BOOLEAN] /\ points \in [Desc -> 0 .. Frames]
      BY <1>1 DEF None
    <3>3. cur \in Desc /\ rel \in Desc /\ dma \in Desc /\ inUse \in Nat /\ frame \in 0 .. Frames
      BY <1>1
    <3> QED BY <3>1, <3>2, <3>3 DEF RingTypes
  <2>2. Distinct /\ Past /\ LastMark /\ Reach
    BY <1>1 DEF Distinct, Past, LastMark, Reach, None
  <2> QED BY <2>1, <2>2
<1>3. Counts
  <2>1. \A f \in Frame : f # None
    BY SizeAssumption DEF Frame, None
  <2> QED BY <2>1 DEF Counts
<1>4. Run
  <2>1. cur = Fwd(dma, 0)
    BY <1>1, FwdValue
  <2>2. RunIs(0)
    BY <2>1 DEF RunIs
  <2> QED BY <1>1, <2>2 DEF Run
<1>5. Lap
  <2>1. rel + inUse = cur + 0 * TxDescs
    BY <1>1
  <2> QED BY <2>1 DEF Lap
<1>6. Kept = {}
  BY DEF Kept
<1>7. CallInv
  <2>1. CallTypes /\ Quiet
    <3>1. late \in Nat /\ late <= frame
      OBVIOUS
    <3>2. CallTypes
      BY <3>1 DEF CallTypes
    <3>3. Quiet
      BY <1>1 DEF Quiet, AllSent
    <3> QED BY <3>2, <3>3
  <2>2. HeldCount
    <3>1. Cardinality(Kept) = 0 /\ late = 0 /\ pc = "idle"
      BY <1>6, FS_EmptySet
    <3> QED BY <3>1 DEF HeldCount
  <2> QED BY <2>1, <2>2 DEF CallInv
<1> QED BY <1>2, <1>3, <1>4, <1>5, <1>7 DEF IInv, RingInv

\* Every step keeps the invariant.
LEMMA NextStep == IInv /\ [Next]_vars => IInv'
BY TransmitStep, SendStep, ReleaseStep, CallStep DEF Next

\* The inductive invariant holds in every reachable state.
LEMMA Invariant == Spec => []IInv
BY InitStep, NextStep, PTL DEF Spec

-----------------------------------------------------------------------------
\* The types: no reference count falls below zero, so no pbuf is freed twice.
THEOREM EthTxTypes == Spec => []TypeOK
<1>1. IInv => TypeOK
  <2>1. SUFFICES ASSUME IInv PROVE TypeOK
    OBVIOUS
  <2>2. late \in 0 .. Frames
    <3>1. late \in Nat /\ late <= frame /\ frame \in 0 .. Frames
      BY <2>1 DEF IInv, RingInv, RingTypes, CallInv, CallTypes
    <3> QED BY <3>1, SizeAssumption
  <2> QED BY <2>1, <2>2 DEF IInv, RingInv, RingTypes, CallInv, CallTypes, TypeOK
<1> QED BY <1>1, Invariant, PTL

\* The chip never reads a pbuf the interface gave back, whatever timed out.
THEOREM EthTxPayloadHeld == Spec => []PayloadHeld
<1>1. IInv => PayloadHeld
  BY HeldFromRing DEF IInv
<1> QED BY <1>1, Invariant, PTL

\* What the chip owns is one run of descriptors up to CurTxDesc.
THEOREM EthTxOwnedRun == Spec => []OwnedRun
<1>1. IInv => OwnedRun
  BY DEF IInv, RingInv, Run, RunIs, OwnedRun
<1> QED BY <1>1, Invariant, PTL

\* Every packet not yet freed lies where the release will look.
THEOREM EthTxNoneForgotten == Spec => []NoneForgotten
<1>1. IInv => NoneForgotten
  BY SizeAssumption DEF IInv, RingInv, RingTypes, Reach, NoneForgotten
<1> QED BY <1>1, Invariant, PTL

\* No more pbufs are held between calls than outputs timed out.
THEOREM EthTxHeldBound == Spec => []HeldBound
<1>1. IInv => HeldBound
  <2>1. SUFFICES ASSUME IInv, pc = "idle", ~slipped PROVE Cardinality(Kept) <= late
    BY DEF HeldBound, Kept
  <2> QED BY <2>1, KeptFinite DEF IInv, CallInv, CallTypes, HeldCount
<1> QED BY <1>1, Invariant, PTL

\* ERR_OK means that the frame has been sent, as long as no output returned before its
\* own completion was signalled.
THEOREM EthTxOkMeansSent == Spec => []OkMeansSent
<1>1. IInv => OkMeansSent
  BY DEF IInv, CallInv, Quiet, AllSent, OkMeansSent
<1> QED BY <1>1, Invariant, PTL
=============================================================================
