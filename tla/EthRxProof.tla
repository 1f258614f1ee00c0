------------------------------ MODULE EthRxProof ------------------------------
(***************************************************************************)
(* The safety of frame reception, which EthRx's run checks on two          *)
(* descriptors and four buffers, proved for every ring, pool and set of    *)
(* freeing threads.  (That filled descriptors are read in the end stays    *)
(* with TLC.)                                                              *)
(***************************************************************************)
EXTENDS EthRx, Rounds, FiniteSetTheorems, TLAPS

-----------------------------------------------------------------------------
(* Going round the ring.                                                   *)

\* k steps from a descriptor stay in the ring.
LEMMA FwdValue ==
  ASSUME NEW d \in Desc, NEW k \in 0 .. RxDescs
  PROVE  Fwd(d, k) \in Desc
BY RoundValue, SizeAssumption DEF Fwd, Round, Desc

\* Fewer steps than the ring is long lead to different descriptors.
LEMMA FwdInjective ==
  ASSUME NEW d \in Desc, NEW j \in 0 .. RxDescs - 1, NEW k \in 0 .. RxDescs - 1
  PROVE  Fwd(d, j) = Fwd(d, k) => j = k
BY RoundInjective, SizeAssumption DEF Fwd, Round, Desc

\* One step, and then k more, are k + 1 steps; a whole round leads back.
LEMMA FwdNext ==
  ASSUME NEW d \in Desc, NEW k \in 0 .. RxDescs - 1
  PROVE  /\ Fwd(d, 1) \in Desc
         /\ Fwd(Fwd(d, 1), k) = Fwd(d, k + 1)
         /\ Fwd(Fwd(d, k), 1) = Fwd(d, k + 1)
         /\ Fwd(d, 0) = d /\ Fwd(d, RxDescs) = d
<1>1. /\ RxDescs \in Nat \ {0} /\ Desc = 0 .. RxDescs - 1
      /\ 1 \in 0 .. RxDescs /\ k \in 0 .. RxDescs /\ 1 + k = k + 1 /\ k + 1 <= RxDescs
  BY SizeAssumption DEF Desc
<1>2. Fwd(d, 1) \in Desc
  BY <1>1, FwdValue
<1>3. Fwd(Fwd(d, 1), k) = Fwd(d, k + 1) /\ Fwd(Fwd(d, k), 1) = Fwd(d, k + 1)
  BY <1>1, RoundSum DEF Fwd, Round
<1>4. Fwd(d, 0) = d /\ Fwd(d, RxDescs) = d
  BY <1>1, RoundWhole DEF Fwd, Round
<1> QED BY <1>2, <1>3, <1>4

-----------------------------------------------------------------------------
(* The inductive invariant.  A failed allocation proves that some buffer   *)
(* is with lwIP or in the packet in hand, because the ring with one bare   *)
(* descriptor cannot hold them all; unless all came back and were tested   *)
(* too early (missed), that is still so when the failure is noted, and     *)
(* whoever has the buffer then meets the note.                             *)
ThreadView ==
  /\ packet => rpc \in {"build", "fail", "deliver"}
  /\ rpc = "deliver" => packet
  /\ rpc \in {"read", "build", "fail"} => status = "ok"
  /\ rpc \in {"build", "fail"} => build > 0

FailView ==
  rpc = "fail" /\ ~missed => held > 0 \/ packet \/ \E f \in Freers : fpc[f] = "test"

\* The types without the bounds of pool and held, which BuffersKept gives.
Types ==
  /\ desc \in [Desc -> {"bare", "chip", "full"}]
  /\ readIdx \in Desc /\ chip \in Desc /\ build \in 0 .. RxDescs
  /\ irq \in BOOLEAN /\ tok \in BOOLEAN /\ packet \in BOOLEAN /\ missed \in BOOLEAN
  /\ pool \in Nat /\ held \in Nat
  /\ status \in {"ok", "error"}
  /\ rpc \in {"wait", "gate", "read", "build", "fail", "deliver", "test", "set", "give"}
  /\ fpc \in [Freers -> {"out", "test", "set", "give"}]

IInv == /\ Types /\ BuffersKept /\ RingOrder
        /\ ThreadView /\ FailView /\ StopsOnlyIfRescued

\* The descriptors with a buffer are a finite set.
LEMMA AttachedFinite == IsFiniteSet(Attached) /\ Cardinality(Attached) \in Nat
<1>1. IsFiniteSet(Desc)
  BY FS_Interval, SizeAssumption DEF Desc
<1>2. Attached \in SUBSET Desc
  BY DEF Attached
<1> QED BY <1>1, <1>2, FS_Subset, FS_CardinalityType

\* The type invariant follows: the pool and the stack have no more than all the buffers.
LEMMA TypesBounded == Types /\ BuffersKept => TypeOK
BY AttachedFinite, SizeAssumption DEF Types, BuffersKept, TypeOK

\* The descriptor built next has no buffer.
LEMMA BuildIdxBare ==
  ASSUME Types, RingOrder, build > 0
  PROVE  BuildIdx \in Desc /\ desc[BuildIdx] = "bare"
<1>1. PICK n \in 0 .. RxDescs - build : \A k \in 0 .. RxDescs - 1 :
         desc[Fwd(readIdx, k)] = IF k < n THEN "full"
                                 ELSE IF k < RxDescs - build THEN "chip" ELSE "bare"
  BY DEF RingOrder
<1>2. RxDescs - build \in 0 .. RxDescs - 1
  BY SizeAssumption DEF Types
<1> QED BY <1>1, <1>2, FwdValue, SizeAssumption DEF BuildIdx, Types

-----------------------------------------------------------------------------
(* The steps that touch the ring.                                          *)

\* A packet is read: its descriptor goes from the front of the run to its end.
LEMMA ReadDataStep == IInv /\ ReadData => IInv'
<1> SUFFICES ASSUME IInv, ReadData PROVE IInv'
  OBVIOUS
<1> USE DEF IInv
<1>1. CASE ~(build < RxDescs /\ desc[readIdx] = "full")
  <2>1. /\ packet' = FALSE /\ packet = FALSE /\ rpc = "read"
        /\ UNCHANGED <<ringVars, chip, irq, tok, pool, status, held, fpc, missed>>
        /\ rpc' = IF build > 0 THEN "build" ELSE "wait"
    BY <1>1 DEF ReadData, ThreadView, ringVars, Types
  <2>2. Types' /\ ThreadView' /\ FailView'
    BY <2>1 DEF Types, ThreadView, FailView, ringVars
  <2>3. BuffersKept'
    BY <2>1 DEF BuffersKept, Attached, ringVars
  <2>4. RingOrder'
    BY <2>1 DEF RingOrder, ringVars
  <2>5. StopsOnlyIfRescued'
    BY <2>1 DEF StopsOnlyIfRescued, ThreadView
  <2> QED BY <2>2, <2>3, <2>4, <2>5
<1>2. CASE build < RxDescs /\ desc[readIdx] = "full"
  <2>1. /\ packet = FALSE /\ packet' = TRUE /\ rpc = "read" /\ rpc' = "build"
        /\ desc' = [desc EXCEPT ![readIdx] = "bare"]
        /\ readIdx' = Fwd(readIdx, 1) /\ build' = build + 1
        /\ UNCHANGED <<chip, irq, tok, pool, status, held, fpc, missed>>
    BY <1>2 DEF ReadData, ThreadView, Types
  <2>2. Types' /\ ThreadView' /\ FailView'
    <3>1. readIdx' \in Desc /\ build' \in 0 .. RxDescs
      BY <1>2, <2>1, FwdNext, SizeAssumption DEF Types
    <3> QED BY <1>2, <2>1, <3>1 DEF Types, ThreadView, FailView
  <2>3. BuffersKept'
    <3>1. Attached' = Attached \ {readIdx} /\ readIdx \in Attached
      BY <1>2, <2>1 DEF Attached, Types
    <3>2. Cardinality(Attached') = Cardinality(Attached) - 1
      BY <3>1, AttachedFinite, FS_RemoveElement
    <3> QED BY <2>1, <3>2, AttachedFinite DEF BuffersKept, Types
  <2>4. RingOrder'
    <3>1. PICK n \in 0 .. RxDescs - build :
            /\ chip = Fwd(readIdx, n)
            /\ \A k \in 0 .. RxDescs - 1 :
                 desc[Fwd(readIdx, k)] = IF k < n THEN "full"
                                         ELSE IF k < RxDescs - build THEN "chip" ELSE "bare"
      BY DEF RingOrder
    <3>2. n > 0
      <4>1. 0 \in 0 .. RxDescs - 1 /\ Fwd(readIdx, 0) = readIdx
        BY FwdNext, SizeAssumption DEF Types
      <4> QED BY <1>2, <3>1, <4>1
    <3>3. n - 1 \in 0 .. RxDescs - build' /\ chip' = Fwd(readIdx', n - 1)
      <4>1. n - 1 \in 0 .. RxDescs - 1 /\ n - 1 \in 0 .. RxDescs - build'
        BY <2>1, <3>2, SizeAssumption DEF Types
      <4>2. Fwd(Fwd(readIdx, 1), n - 1) = Fwd(readIdx, (n - 1) + 1)
        BY <4>1, FwdNext DEF Types
      <4> QED BY <2>1, <3>1, <4>1, <4>2
    <3>4. ASSUME NEW k \in 0 .. RxDescs - 1
          PROVE  desc'[Fwd(readIdx', k)] = IF k < n - 1 THEN "full"
                                           ELSE IF k < RxDescs - build' THEN "chip" ELSE "bare"
      <4>1. Fwd(readIdx', k) = Fwd(readIdx, k + 1)
        BY <2>1, FwdNext DEF Types
      <4>2. CASE k = RxDescs - 1
        <5>1. Fwd(readIdx, k + 1) = readIdx
          BY <4>2, FwdNext, SizeAssumption DEF Types
        <5>2. desc'[readIdx] = "bare"
          BY <2>1 DEF Types
        <5> QED BY <4>1, <4>2, <5>1, <5>2, <2>1, <3>1, SizeAssumption DEF Types
      <4>3. CASE k # RxDescs - 1
        <5>1. k + 1 \in 0 .. RxDescs - 1 /\ 0 \in 0 .. RxDescs - 1
          BY <4>3, SizeAssumption
        <5>2. Fwd(readIdx, k + 1) # readIdx /\ Fwd(readIdx, k + 1) \in Desc
          <6>1. Fwd(readIdx, 0) = readIdx /\ k + 1 # 0 /\ k + 1 \in 0 .. RxDescs
            BY <5>1, FwdNext, SizeAssumption DEF Types
          <6>2. Fwd(readIdx, k + 1) = Fwd(readIdx, 0) => k + 1 = 0
            BY <5>1, FwdInjective DEF Types
          <6> QED BY <6>1, <6>2, FwdValue DEF Types
        <5>3. desc'[Fwd(readIdx, k + 1)] = desc[Fwd(readIdx, k + 1)]
          BY <2>1, <5>2 DEF Types
        <5> QED BY <4>1, <5>1, <5>3, <2>1, <3>1, SizeAssumption DEF Types
      <4> QED BY <4>2, <4>3
    <3> QED BY <3>3, <3>4 DEF RingOrder
  <2>5. StopsOnlyIfRescued'
    BY <2>1 DEF StopsOnlyIfRescued, ThreadView
  <2> QED BY <2>2, <2>3, <2>4, <2>5
<1> QED BY <1>1, <1>2

\* A descriptor is built: the chip's run grows by it.
LEMMA BuildStep == IInv /\ Build => IInv'
<1> SUFFICES ASSUME IInv, Build PROVE IInv'
  OBVIOUS
<1> USE DEF IInv
<1>1. /\ rpc = "build" /\ build > 0 /\ pool > 0 /\ pool' = pool - 1
      /\ desc' = [desc EXCEPT ![BuildIdx] = "chip"] /\ build' = build - 1
      /\ rpc' = IF build' = 0 THEN AfterBuild ELSE rpc
      /\ UNCHANGED <<readIdx, chip, irq, tok, status, packet, held, fpc, missed>>
  BY DEF Build
<1>2. BuildIdx \in Desc /\ desc[BuildIdx] = "bare"
  BY <1>1, BuildIdxBare
<1>3. Types' /\ ThreadView' /\ FailView'
  BY <1>1, <1>2, SizeAssumption DEF Types, ThreadView, FailView, AfterBuild
<1>4. BuffersKept'
  <2>1. Attached' = Attached \cup {BuildIdx} /\ BuildIdx \notin Attached
    BY <1>1, <1>2 DEF Attached, Types
  <2>2. Cardinality(Attached') = Cardinality(Attached) + 1
    BY <2>1, AttachedFinite, FS_AddElement
  <2> QED BY <1>1, <2>2, AttachedFinite DEF BuffersKept, Types
<1>5. RingOrder'
  <2>1. PICK n \in 0 .. RxDescs - build :
          /\ chip = Fwd(readIdx, n)
          /\ \A k \in 0 .. RxDescs - 1 :
               desc[Fwd(readIdx, k)] = IF k < n THEN "full"
                                       ELSE IF k < RxDescs - build THEN "chip" ELSE "bare"
    BY DEF RingOrder
  <2>2. n \in 0 .. RxDescs - build' /\ chip' = Fwd(readIdx', n)
    BY <1>1, <2>1, SizeAssumption DEF Types
  <2>3. ASSUME NEW k \in 0 .. RxDescs - 1
        PROVE  desc'[Fwd(readIdx', k)] = IF k < n THEN "full"
                                         ELSE IF k < RxDescs - build' THEN "chip" ELSE "bare"
    <3>1. RxDescs - build \in 0 .. RxDescs - 1
      BY <1>1, SizeAssumption DEF Types
    <3>2. CASE k = RxDescs - build
      BY <3>2, <1>1, <1>2, <2>1, SizeAssumption DEF Types, BuildIdx
    <3>3. CASE k # RxDescs - build
      <4>1. Fwd(readIdx, k) # BuildIdx /\ Fwd(readIdx, k) \in Desc
        <5>1. Fwd(readIdx, k) = Fwd(readIdx, RxDescs - build) => k = RxDescs - build
          BY <3>1, FwdInjective DEF Types
        <5>2. k \in 0 .. RxDescs
          BY SizeAssumption
        <5> QED BY <5>1, <5>2, <3>3, FwdValue DEF Types, BuildIdx
      <4>2. desc'[Fwd(readIdx, k)] = desc[Fwd(readIdx, k)]
        BY <1>1, <4>1 DEF Types
      <4> QED BY <1>1, <2>1, <3>3, <4>2, SizeAssumption DEF Types
    <3> QED BY <3>2, <3>3
  <2> QED BY <2>2, <2>3 DEF RingOrder
<1>6. StopsOnlyIfRescued'
  BY <1>1 DEF StopsOnlyIfRescued, ThreadView
<1> QED BY <1>3, <1>4, <1>5, <1>6

\* A frame arrives: the first of the chip's descriptors becomes the last filled one.
LEMMA ArriveStep == IInv /\ Arrive => IInv'
<1> SUFFICES ASSUME IInv, Arrive PROVE IInv'
  OBVIOUS
<1> USE DEF IInv
<1>1. /\ irq' = TRUE
      /\ UNCHANGED <<readIdx, build, tok, pool, status, rpc, packet, held, fpc, missed>>
  BY DEF Arrive
<1>2. ThreadView' /\ FailView' /\ StopsOnlyIfRescued'
  BY <1>1 DEF ThreadView, FailView, StopsOnlyIfRescued, Rescuer
<1>3. CASE desc[chip] # "chip"
  <2>1. desc' = desc /\ chip' = chip
    BY <1>3 DEF Arrive
  <2> QED BY <1>1, <1>2, <2>1 DEF Types, BuffersKept, Attached, RingOrder
<1>4. CASE desc[chip] = "chip"
  <2>1. desc' = [desc EXCEPT ![chip] = "full"] /\ chip' = Fwd(chip, 1)
    BY <1>4 DEF Arrive
  <2>2. Types'
    BY <1>1, <2>1, FwdNext, SizeAssumption DEF Types
  <2>3. BuffersKept'
    <3>1. Attached' = Attached
      BY <1>4, <2>1 DEF Attached, Types
    <3> QED BY <1>1, <3>1 DEF BuffersKept
  <2>4. RingOrder'
    <3>1. PICK n \in 0 .. RxDescs - build :
            /\ chip = Fwd(readIdx, n)
            /\ \A k \in 0 .. RxDescs - 1 :
                 desc[Fwd(readIdx, k)] = IF k < n THEN "full"
                                         ELSE IF k < RxDescs - build THEN "chip" ELSE "bare"
      BY DEF RingOrder
    <3>2. n < RxDescs - build
      <4>1. CASE n = RxDescs
        <5>1. chip = Fwd(readIdx, 0) /\ 0 \in 0 .. RxDescs - 1 /\ 0 < n
          BY <4>1, <3>1, FwdNext, SizeAssumption DEF Types
        <5> QED BY <5>1, <3>1, <1>4
      <4>2. CASE n # RxDescs
        <5>1. n \in 0 .. RxDescs - 1
          BY <4>2, SizeAssumption DEF Types
        <5> QED BY <5>1, <3>1, <1>4, SizeAssumption DEF Types
      <4> QED BY <4>1, <4>2
    <3>3. n \in 0 .. RxDescs - 1 /\ n + 1 \in 0 .. RxDescs - build'
      BY <3>2, <1>1, SizeAssumption DEF Types
    <3>4. chip' = Fwd(readIdx', n + 1)
      BY <1>1, <2>1, <3>1, <3>3, FwdNext DEF Types
    <3>5. ASSUME NEW k \in 0 .. RxDescs - 1
          PROVE  desc'[Fwd(readIdx', k)] = IF k < n + 1 THEN "full"
                                           ELSE IF k < RxDescs - build' THEN "chip" ELSE "bare"
      <4>1. CASE k = n
        BY <4>1, <1>1, <2>1, <3>1, <3>3 DEF Types
      <4>2. CASE k # n
        <5>1. Fwd(readIdx, k) # chip /\ Fwd(readIdx, k) \in Desc
          <6>1. Fwd(readIdx, k) = Fwd(readIdx, n) => k = n
            BY <3>3, FwdInjective DEF Types
          <6>2. k \in 0 .. RxDescs
            BY SizeAssumption
          <6> QED BY <6>1, <6>2, <4>2, <3>1, FwdValue DEF Types
        <5>2. desc'[Fwd(readIdx, k)] = desc[Fwd(readIdx, k)]
          BY <2>1, <5>1 DEF Types
        <5> QED BY <1>1, <3>1, <3>3, <4>2, <5>2
      <4> QED BY <4>1, <4>2
    <3> QED BY <3>3, <3>4, <3>5 DEF RingOrder
  <2> QED BY <1>2, <2>2, <2>3, <2>4
<1> QED BY <1>3, <1>4

-----------------------------------------------------------------------------
(* The steps that leave the ring alone.                                    *)

\* What only the ring and the chip decide is as it was.
LEMMA RingKept ==
  ASSUME RingOrder, UNCHANGED <<ringVars, chip>>
  PROVE  RingOrder' /\ Attached' = Attached
<1>1. desc' = desc /\ readIdx' = readIdx /\ build' = build /\ chip' = chip
  BY DEF ringVars
<1> QED BY <1>1 DEF RingOrder, Attached

\* An allocation fails: a buffer is out, for the ring with a bare descriptor has not all.
LEMMA BuildFailsStep == IInv /\ BuildFails => IInv'
<1> SUFFICES ASSUME IInv, BuildFails PROVE IInv'
  OBVIOUS
<1> USE DEF IInv
<1>1. /\ rpc = "build" /\ build > 0 /\ pool = 0 /\ rpc' = "fail"
      /\ UNCHANGED <<ringVars, chip, irq, tok, pool, status, packet, held, fpc, missed>>
  BY DEF BuildFails
<1>2. RingOrder' /\ Attached' = Attached
  BY <1>1, RingKept
<1>3. held > 0 \/ packet
  <2>1. IsFiniteSet(Desc) /\ Cardinality(Desc) = RxDescs
    BY FS_Interval, SizeAssumption DEF Desc
  <2>2. Attached \in SUBSET Desc /\ Attached # Desc
    BY <1>1, BuildIdxBare DEF Attached
  <2>3. Cardinality(Attached) < RxDescs
    BY <2>1, <2>2, FS_Subset, FS_CardinalityType, AttachedFinite
  <2> QED BY <1>1, <2>3, AttachedFinite, SizeAssumption DEF BuffersKept, Types
<1>4. Types' /\ ThreadView' /\ FailView' /\ BuffersKept' /\ StopsOnlyIfRescued'
  BY <1>1, <1>2, <1>3 DEF Types, ThreadView, FailView, BuffersKept, StopsOnlyIfRescued,
     Rescuer, ringVars
<1> QED BY <1>2, <1>4

\* The other steps of the eth_rx thread, one by one: they move the thread, the packet in
\* hand, the status and the counts of buffers outside the ring.
LEMMA ThreadStep ==
  IInv /\ (Wake \/ Gate \/ NoteFailure \/ Deliver \/ Reject \/ RejectTest \/ RejectSet
           \/ RejectGive \/ Interrupt) => IInv'
<1> SUFFICES ASSUME IInv,
                    Wake \/ Gate \/ NoteFailure \/ Deliver \/ Reject \/ RejectTest
                    \/ RejectSet \/ RejectGive \/ Interrupt
             PROVE  IInv'
  OBVIOUS
<1> USE DEF IInv
<1>1. UNCHANGED <<ringVars, chip>>
  BY DEF Wake, Gate, NoteFailure, Deliver, Reject, RejectTest, RejectSet, RejectGive, Interrupt
<1>2. RingOrder' /\ Attached' = Attached
  BY <1>1, RingKept
<1>3. /\ desc' = desc /\ readIdx' = readIdx /\ build' = build /\ chip' = chip
      /\ Cardinality(Attached) \in Nat
  BY <1>1, AttachedFinite DEF ringVars
<1>4. CASE Wake
  BY <1>2, <1>3, <1>4 DEF Wake, Types, ThreadView, FailView, BuffersKept, StopsOnlyIfRescued, Rescuer
<1>5. CASE Gate
  BY <1>2, <1>3, <1>5 DEF Gate, Types, ThreadView, FailView, BuffersKept, StopsOnlyIfRescued, Rescuer
<1>6. CASE NoteFailure
  BY <1>2, <1>3, <1>6 DEF NoteFailure, AfterBuild, Types, ThreadView, FailView, BuffersKept,
     StopsOnlyIfRescued, Rescuer
<1>7. CASE Deliver
  <2>1. /\ packet = TRUE /\ packet' = FALSE /\ held' = held + 1 /\ rpc = "deliver" /\ rpc' = "gate"
        /\ UNCHANGED <<irq, tok, pool, status, fpc, missed>>
    BY <1>7 DEF Deliver, ThreadView, Types
  <2>2. BuffersKept'
    BY <1>2, <1>3, <2>1 DEF BuffersKept, Types
  <2>3. Types'
    <3>0. held' \in Nat /\ rpc' = "gate"
      BY <2>1 DEF Types
    <3>1. packet' \in BOOLEAN
      BY <2>1, Zenon
    <3>2. UNCHANGED <<desc, readIdx, chip, build, irq, tok, pool, status, fpc, missed>>
      BY <1>3, <2>1
    <3> QED BY <3>0, <3>1, <3>2 DEF Types
  <2>4. ThreadView' /\ FailView'
    BY <1>3, <2>1 DEF ThreadView, FailView
  <2>5. StopsOnlyIfRescued'
    <3>1. held' > 0
      BY <2>1 DEF Types
    <3> QED BY <3>1 DEF StopsOnlyIfRescued, Rescuer
  <2> QED BY <1>2, <2>2, <2>3, <2>4, <2>5
<1>8. CASE Reject
  <2>1. /\ packet = TRUE /\ packet' = FALSE /\ pool' = pool + 1 /\ rpc = "deliver" /\ rpc' = "test"
        /\ UNCHANGED <<irq, tok, status, held, fpc, missed>>
    BY <1>8 DEF Reject, ThreadView, Types
  <2>2. BuffersKept'
    BY <1>2, <1>3, <2>1 DEF BuffersKept, Types
  <2>3. Types'
    <3>0. pool' \in Nat /\ rpc' = "test"
      BY <2>1 DEF Types
    <3>1. packet' \in BOOLEAN
      BY <2>1, Zenon
    <3>2. UNCHANGED <<desc, readIdx, chip, build, irq, tok, held, status, fpc, missed>>
      BY <1>3, <2>1
    <3> QED BY <3>0, <3>1, <3>2 DEF Types
  <2>4. ThreadView' /\ FailView'
    BY <1>3, <2>1 DEF ThreadView, FailView
  <2>5. StopsOnlyIfRescued'
    BY <2>1 DEF StopsOnlyIfRescued, Rescuer
  <2> QED BY <1>2, <2>2, <2>3, <2>4, <2>5
<1>9. CASE RejectTest
  BY <1>2, <1>3, <1>9 DEF RejectTest, Types, ThreadView, FailView, BuffersKept,
     StopsOnlyIfRescued, Rescuer
<1>10. CASE RejectSet
  BY <1>2, <1>3, <1>10 DEF RejectSet, Types, ThreadView, FailView, BuffersKept,
     StopsOnlyIfRescued, Rescuer
<1>11. CASE RejectGive
  BY <1>2, <1>3, <1>11 DEF RejectGive, Types, ThreadView, FailView, BuffersKept,
     StopsOnlyIfRescued, Rescuer
<1>12. CASE Interrupt
  BY <1>2, <1>3, <1>12 DEF Interrupt, Types, ThreadView, FailView, BuffersKept,
     StopsOnlyIfRescued, Rescuer
<1> QED BY <1>4, <1>5, <1>6, <1>7, <1>8, <1>9, <1>10, <1>11, <1>12

\* The steps of a thread that frees a pbuf.
LEMMA FreerStep == ASSUME NEW f \in Freers PROVE IInv /\ Freer(f) => IInv'
<1> SUFFICES ASSUME IInv, Freer(f) PROVE IInv'
  OBVIOUS
<1> USE DEF IInv
<1>1. UNCHANGED <<ringVars, chip>>
  BY DEF Freer, Free, FreeTest, FreeSet, FreeGive
<1>2. RingOrder' /\ Attached' = Attached
  BY <1>1, RingKept
<1>3. /\ desc' = desc /\ readIdx' = readIdx /\ build' = build /\ chip' = chip
      /\ Cardinality(Attached) \in Nat
  BY <1>1, AttachedFinite DEF ringVars
<1>4. CASE Free(f)
  BY <1>2, <1>3, <1>4 DEF Free, Types, ThreadView, FailView, BuffersKept, StopsOnlyIfRescued, Rescuer
<1>5. CASE FreeTest(f)
  BY <1>2, <1>3, <1>5 DEF FreeTest, Types, ThreadView, FailView, BuffersKept,
     StopsOnlyIfRescued, Rescuer
<1>6. CASE FreeSet(f)
  BY <1>2, <1>3, <1>6 DEF FreeSet, Types, ThreadView, FailView, BuffersKept,
     StopsOnlyIfRescued, Rescuer
<1>7. CASE FreeGive(f)
  BY <1>2, <1>3, <1>7 DEF FreeGive, Types, ThreadView, FailView, BuffersKept,
     StopsOnlyIfRescued, Rescuer
<1> QED BY <1>4, <1>5, <1>6, <1>7 DEF Freer

-----------------------------------------------------------------------------
\* HAL_ETH_Start_IT begins with an empty ring and all buffers in the pool.
LEMMA InitStep == Init => IInv
<1> SUFFICES ASSUME Init PROVE IInv
  OBVIOUS
<1>0. 0 \in Desc /\ RxDescs \in 0 .. RxDescs /\ Buffers \in Nat
  BY SizeAssumption DEF Desc
<1>1. 0 \in Desc /\ Types
  BY <1>0 DEF Init, Types
<1>2. Attached = {}
  BY DEF Init, Attached
<1>3. BuffersKept
  BY <1>2, FS_EmptySet, SizeAssumption DEF Init, BuffersKept
<1>4. RingOrder
  <2>1. chip = Fwd(readIdx, 0) /\ 0 \in 0 .. RxDescs - build
    <3>1. chip = 0 /\ readIdx = 0 /\ RxDescs - build = 0
      BY SizeAssumption DEF Init
    <3>2. 0 \in 0 .. RxDescs - 1 /\ 0 \in Desc
      BY SizeAssumption DEF Desc
    <3>3. Fwd(0, 0) = 0
      BY <3>2, FwdNext
    <3> QED BY <3>1, <3>3
  <2>2. \A k \in 0 .. RxDescs - 1 : desc[Fwd(readIdx, k)] = "bare"
    BY <1>1, FwdValue, SizeAssumption DEF Init
  <2>3. \A k \in 0 .. RxDescs - 1 : ~(k < 0) /\ ~(k < RxDescs - build)
    BY SizeAssumption DEF Init
  <2> QED BY <2>1, <2>2, <2>3 DEF RingOrder
<1> QED BY <1>1, <1>3, <1>4, SizeAssumption DEF IInv, Init, ThreadView, FailView, StopsOnlyIfRescued

\* Nothing changes, or one of the steps above is taken.
LEMMA NextStep == IInv /\ [Next]_vars => IInv'
<1> SUFFICES ASSUME IInv, [Next]_vars PROVE IInv'
  OBVIOUS
<1>1. CASE UNCHANGED vars
  BY <1>1 DEF vars, ringVars, IInv, Types, BuffersKept, Attached, RingOrder, ThreadView, FailView,
     StopsOnlyIfRescued, Rescuer
<1>2. CASE EthRxThread
  BY <1>2, ReadDataStep, BuildStep, BuildFailsStep, ThreadStep DEF EthRxThread
<1>3. CASE Arrive
  BY <1>3, ArriveStep
<1>4. CASE Interrupt
  BY <1>4, ThreadStep
<1>5. CASE \E f \in Freers : Freer(f)
  BY <1>5, FreerStep
<1> QED BY <1>1, <1>2, <1>3, <1>4, <1>5 DEF Next

\* The inductive invariant holds in every reachable state.
LEMMA Invariant == Spec => []IInv
BY InitStep, NextStep, PTL DEF Spec

\* The types, for every ring, pool and set of freeing threads.
THEOREM EthRxTypes == Spec => []TypeOK
<1>1. IInv => TypeOK
  BY TypesBounded DEF IInv
<1> QED BY <1>1, Invariant, PTL

\* No buffer of RX_POOL is lost or has two owners, whatever the threads do.
THEOREM EthRxBuffersKept == Spec => []BuffersKept
<1>1. IInv => BuffersKept
  BY DEF IInv
<1> QED BY <1>1, Invariant, PTL

\* The descriptors are in order, wherever a rebuild stopped: filled, the chip's, bare.
THEOREM EthRxRingOrder == Spec => []RingOrder
<1>1. IInv => RingOrder
  BY DEF IInv
<1> QED BY <1>1, Invariant, PTL

\* The reading never stops without someone left to start it again, as long as no buffer
\* came back between a failed allocation and the store of RX_ALLOC_ERROR.
THEOREM EthRxStopsOnlyIfRescued == Spec => []StopsOnlyIfRescued
<1>1. IInv => StopsOnlyIfRescued
  BY DEF IInv
<1> QED BY <1>1, Invariant, PTL
=============================================================================
