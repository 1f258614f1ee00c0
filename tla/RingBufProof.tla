----------------------------- MODULE RingBufProof -----------------------------
(***************************************************************************)
(* What RingBuf's runs check on four slots, proved for every ring size and *)
(* every set of bytes.                                                     *)
(***************************************************************************)
EXTENDS RingBuf, TLAPS

-----------------------------------------------------------------------------
(* The arithmetic of the indices: no index sum exceeds twice the size. *)

\* The remainder of an index sum, which stays below twice the size, is at most
\* one subtraction away: what the wrap of ringbuf_put and ringbuf_get computes.
LEMMA ModOnce ==
  ASSUME NEW n \in Nat, n < 2 * Size
  PROVE  n % Size = IF n < Size THEN n ELSE n - Size
<1> USE SizeAssumption
<1>1. CASE n < Size
  BY <1>1
<1>2. CASE n >= Size
  BY <1>2
<1> QED BY <1>1, <1>2

\* The next index of ringbuf_put and ringbuf_get is a slot, and wraps at the last.
LEMMA SuccValue ==
  ASSUME NEW i \in Slot
  PROVE  /\ Succ(i) = IF i = Size - 1 THEN 0 ELSE i + 1
         /\ Succ(i) \in Slot
BY ModOnce, SizeAssumption DEF Succ, Slot

\* ringbuf_count is the distance from tail to head, going up and around.
LEMMA CountValue ==
  ASSUME NEW h \in Slot, NEW t \in Slot
  PROVE  Count(h, t) = IF h >= t THEN h - t ELSE h + Size - t
<1>1. /\ h + Size - t \in Nat
      /\ h + Size - t < 2 * Size
  BY SizeAssumption DEF Slot
<1> QED BY <1>1, ModOnce, SizeAssumption DEF Count, Slot

\* Two slots with the same successor are the same slot: head and tail, moved by
\* one each, keep their order.
LEMMA SuccInjective ==
  ASSUME NEW i \in Slot, NEW j \in Slot, Succ(i) = Succ(j)
  PROVE  i = j
BY SuccValue, SizeAssumption DEF Slot

-----------------------------------------------------------------------------
(* The inductive invariant.  Besides the contents of the ring it records   *)
(* what each side has established and the other side cannot undo: the      *)
(* producer past its test still sees room, because the consumer only makes *)
(* more; the consumer past its test still sees a byte, because the         *)
(* producer only adds more and never writes the slot at tail.              *)
ProducerView ==
  /\ ppc # "idle" => next = Succ(head)
  /\ ppc \in {"store", "publish"} => next # tail
  /\ ppc = "publish" => buf[head] = pbyte

ConsumerView ==
  /\ cpc # "idle" => tail # head
  /\ cpc = "release" => got = buf[tail]

\* The slot of the k-th byte counted from tail, without the remainder.
At(t, k) == IF t + k - 1 < Size THEN t + k - 1 ELSE t + k - 1 - Size

HeldInSlots ==
  /\ Len(held) = Count(head, tail)
  /\ \A k \in 1 .. Len(held) : buf[At(tail, k)] = held[k]

IInv == TypeOK /\ ProducerView /\ ConsumerView /\ HeldInSlots

\* The number of bytes held, as plain arithmetic on the two indices.
LEMMA HeldLength ==
  IInv => /\ Size \in Nat /\ Size >= 1
          /\ head \in Nat /\ head < Size
          /\ tail \in Nat /\ tail < Size
          /\ Len(held) \in Nat
          /\ Len(held) = IF head >= tail THEN head - tail ELSE head + Size - tail
<1> SUFFICES ASSUME IInv PROVE
          /\ Size \in Nat /\ Size >= 1
          /\ head \in Nat /\ head < Size
          /\ tail \in Nat /\ tail < Size
          /\ Len(held) \in Nat
          /\ Len(held) = IF head >= tail THEN head - tail ELSE head + Size - tail
  OBVIOUS
<1>1. head \in Slot /\ tail \in Slot /\ held \in Seq(Byte)
  BY DEF IInv, TypeOK
<1>2. Len(held) = Count(head, tail)
  BY DEF IInv, HeldInSlots
<1>3. Len(held) = IF head >= tail THEN head - tail ELSE head + Size - tail
  BY <1>1, <1>2, CountValue
<1> QED BY <1>1, <1>3, SizeAssumption DEF Slot

\* ringbuf_init sets up the invariant: the indices agree and no byte is held.
LEMMA InitIInv == Init => IInv
<1> SUFFICES ASSUME Init PROVE IInv
  OBVIOUS
<1>1. 0 \in Slot
  BY SizeAssumption DEF Slot
<1>2. TypeOK
  BY <1>1 DEF Init, TypeOK
<1>3. Len(held) = 0 /\ Count(head, tail) = 0
  BY <1>1, CountValue DEF Init
<1>4. HeldInSlots
  BY <1>3 DEF HeldInSlots
<1> QED BY <1>2, <1>4 DEF Init, IInv, ProducerView, ConsumerView

\* A byte is published: the sequence grows by the byte stored at head.
LEMMA PublishStep == IInv /\ PutPublish => IInv'
<1> SUFFICES ASSUME IInv, PutPublish PROVE IInv'
  OBVIOUS
<1> USE DEF IInv
<1>1. /\ head' = Succ(head) /\ Succ(head) # tail
      /\ buf' = buf /\ tail' = tail /\ held' = Append(held, pbyte)
  BY DEF PutPublish, ProducerView
<1>2. TypeOK'
  BY <1>1, SuccValue DEF TypeOK, PutPublish
<1>3. ProducerView' /\ ConsumerView'
  BY <1>1 DEF PutPublish, ProducerView, ConsumerView
<1>4. Len(held') = Len(held) + 1 /\ Len(held) \in Nat
  BY <1>1 DEF TypeOK
<1>5. Len(held) + 1 = Count(head', tail')
  <2>1. /\ head' = IF head = Size - 1 THEN 0 ELSE head + 1
        /\ head' \in Slot /\ tail \in Slot
    BY <1>1, SuccValue DEF TypeOK
  <2>2. Count(head', tail) = IF head' >= tail THEN head' - tail ELSE head' + Size - tail
    BY <2>1, CountValue
  <2> QED BY <1>1, <2>1, <2>2, HeldLength
<1>6. ASSUME NEW k \in 1 .. Len(held')
      PROVE  buf'[At(tail', k)] = held'[k]
  <2>1. CASE k = Len(held')
    <3>1. At(tail, k) = head
      BY <2>1, <1>4, HeldLength DEF At
    <3> QED BY <3>1, <2>1, <1>1, <1>4 DEF ProducerView, PutPublish, TypeOK
  <2>2. CASE k # Len(held')
    <3>1. k \in 1 .. Len(held)
      BY <2>2, <1>4
    <3> QED BY <3>1, <1>1 DEF HeldInSlots, TypeOK
  <2> QED BY <2>1, <2>2
<1>7. HeldInSlots'
  BY <1>1, <1>4, <1>5, <1>6 DEF HeldInSlots
<1> QED BY <1>2, <1>3, <1>7

\* A byte is taken: the sequence loses the byte at tail.
LEMMA ReleaseStep == IInv /\ GetRelease => IInv'
<1> SUFFICES ASSUME IInv, GetRelease PROVE IInv'
  OBVIOUS
<1> USE DEF IInv
<1>1. /\ tail' = Succ(tail) /\ tail # head
      /\ buf' = buf /\ head' = head /\ held' = Tail(held)
  BY DEF GetRelease, ConsumerView
<1>2. Len(held) >= 1
  BY <1>1, HeldLength
<1>3. /\ Len(held') = Len(held) - 1
      /\ held' \in Seq(Byte)
      /\ \A k \in 1 .. Len(held') : held'[k] = held[k + 1]
  BY <1>1, <1>2 DEF TypeOK
<1>4. TypeOK'
  BY <1>1, <1>3, SuccValue DEF TypeOK, GetRelease
<1>5. ProducerView'
  BY <1>1, SuccInjective DEF GetRelease, ProducerView, TypeOK
<1>6. ConsumerView'
  BY DEF GetRelease, ConsumerView
<1>0. /\ tail' = IF tail = Size - 1 THEN 0 ELSE tail + 1
      /\ tail' \in Slot /\ head \in Slot
  BY <1>1, SuccValue DEF TypeOK
<1>7. Len(held) - 1 = Count(head', tail')
  <2>1. Count(head, tail') = IF head >= tail' THEN head - tail' ELSE head + Size - tail'
    BY <1>0, CountValue
  <2> QED BY <1>0, <1>1, <2>1, HeldLength
<1>8. ASSUME NEW k \in 1 .. Len(held')
      PROVE  buf'[At(tail', k)] = held'[k]
  <2>1. k + 1 \in 1 .. Len(held)
    BY <1>3
  <2>2. At(tail', k) = At(tail, k + 1)
    BY <2>1, <1>0, HeldLength DEF At
  <2> QED BY <2>1, <2>2, <1>1, <1>3 DEF HeldInSlots
<1>9. HeldInSlots'
  BY <1>1, <1>3, <1>7, <1>8 DEF HeldInSlots
<1> QED BY <1>4, <1>5, <1>6, <1>9

\* The store writes the free slot at head, which holds no byte of the sequence.
LEMMA StoreStep == IInv /\ PutStore => IInv'
<1> SUFFICES ASSUME IInv, PutStore PROVE IInv'
  OBVIOUS
<1> USE DEF IInv
<1>1. /\ buf' = [buf EXCEPT ![head] = pbyte]
      /\ head' = head /\ tail' = tail /\ held' = held
  BY DEF PutStore
<1>2. TypeOK'
  BY <1>1 DEF TypeOK, PutStore
<1>3. ProducerView' /\ ConsumerView'
  BY <1>1 DEF PutStore, ProducerView, ConsumerView, TypeOK
<1>4. ASSUME NEW k \in 1 .. Len(held)
      PROVE  At(tail, k) \in Slot /\ At(tail, k) # head
  BY HeldLength DEF At, Slot
<1>5. HeldInSlots'
  BY <1>1, <1>4 DEF HeldInSlots, TypeOK
<1> QED BY <1>2, <1>3, <1>5

\* No step of either side, in any interleaving, breaks the invariant.
LEMMA NextIInv == IInv /\ [Next]_vars => IInv'
<1> SUFFICES ASSUME IInv, [Next]_vars PROVE IInv'
  OBVIOUS
<1>1. ASSUME NEW b \in Byte, PutBegin(b) PROVE IInv'
  BY <1>1, SuccValue
     DEF PutBegin, IInv, TypeOK, ProducerView, ConsumerView, HeldInSlots
<1>2. CASE PutFull
  BY <1>2 DEF PutFull, IInv, TypeOK, ProducerView, ConsumerView, HeldInSlots
<1>3. CASE PutRoom
  BY <1>3 DEF PutRoom, IInv, TypeOK, ProducerView, ConsumerView, HeldInSlots
<1>4. CASE PutStore
  BY <1>4, StoreStep
<1>5. CASE PutPublish
  BY <1>5, PublishStep
<1>6. CASE GetBegin
  BY <1>6 DEF GetBegin, IInv, TypeOK, ProducerView, ConsumerView, HeldInSlots
<1>7. CASE GetLoad
  BY <1>7 DEF GetLoad, IInv, TypeOK, ProducerView, ConsumerView, HeldInSlots, Slot
<1>8. CASE GetRelease
  BY <1>8, ReleaseStep
<1>9. CASE GetEmpty \/ UNCHANGED vars
  BY <1>9 DEF GetEmpty, vars, IInv, TypeOK, ProducerView, ConsumerView, HeldInSlots
<1> QED BY <1>1, <1>2, <1>3, <1>4, <1>5, <1>6, <1>7, <1>8, <1>9
        DEF Next, Producer, Consumer

\* The inductive invariant holds at every point of every interleaving of
\* ringbuf_put and ringbuf_get.
THEOREM SpecIInv == Spec => []IInv
BY InitIInv, NextIInv, PTL DEF Spec

-----------------------------------------------------------------------------
(* TypeOK: every index ringbuf.h computes is a slot of the buffer.         *)
THEOREM TypeCorrect == Spec => []TypeOK
<1>1. IInv => TypeOK
  BY DEF IInv
<1> QED BY SpecIInv, <1>1, PTL

(* Contents: between tail and head lie exactly the bytes accepted and not  *)
(* yet taken, in order, at every point where either side of ringbuf_put    *)
(* and ringbuf_get may be interrupted.                                     *)
THEOREM ContentsAlways == Spec => []Contents
<1>1. IInv => Contents
  <2> SUFFICES ASSUME IInv, NEW k \in 1 .. Len(held)
               PROVE  (tail + k - 1) % Size = At(tail, k)
    BY DEF IInv, HeldInSlots, Contents
  <2>1. tail + k - 1 \in Nat /\ tail + k - 1 < 2 * Size
    BY HeldLength
  <2>2. PICK n \in Nat : n = tail + k - 1
    BY <2>1
  <2>3. n % Size = IF n < Size THEN n ELSE n - Size
    BY <2>1, <2>2, ModOnce
  <2>4. At(tail, k) = IF n < Size THEN n ELSE n - Size
    BY <2>2, HeldLength DEF At
  <2>5. (tail + k - 1) % Size = n % Size
    BY <2>2
  <2> QED BY <2>3, <2>4, <2>5
<1> QED BY SpecIInv, <1>1, PTL

\* What the consumer loaded from the slot at tail is the oldest byte held.
LEMMA GetsOldestInIInv == IInv => GetsOldest
<1> SUFFICES ASSUME IInv, cpc = "release" PROVE held # << >> /\ got = held[1]
  BY DEF GetsOldest
<1>1. Len(held) >= 1
  BY HeldLength DEF IInv, ConsumerView
<1>2. At(tail, 1) = tail
  BY HeldLength DEF At
<1> QED BY <1>1, <1>2 DEF IInv, HeldInSlots, ConsumerView, TypeOK

(* GetsOldest: ringbuf_get returns the oldest byte whatever the producer   *)
(* does while the get is in progress.                                      *)
THEOREM GetsOldestAlways == Spec => []GetsOldest
BY SpecIInv, GetsOldestInIInv, PTL

(* QueueSpec: the ring with its unlocked, interruptible put and get        *)
(* implements the bounded queue of ByteQueue.                              *)
THEOREM ImplementsQueue == Spec => QueueSpec
<1>1. Init => Queue!Init
  BY DEF Init, Queue!Init
<1>2. IInv /\ [Next]_vars => [Queue!Next]_(Queue!vars)
  <2> SUFFICES ASSUME IInv, [Next]_vars PROVE Queue!Next \/ UNCHANGED Queue!vars
    OBVIOUS
  <2>1. CASE PutPublish
    <3>1. Len(held) < Size - 1
      <4>1. Succ(head) # tail
        BY <2>1 DEF PutPublish, IInv, ProducerView
      <4>2. Succ(head) = IF head = Size - 1 THEN 0 ELSE head + 1
        BY SuccValue DEF IInv, TypeOK
      <4> QED BY <4>1, <4>2, HeldLength
    <3>2. Queue!Put(pbyte)
      BY <3>1, <2>1 DEF PutPublish, Queue!Put
    <3> QED BY <3>2 DEF Queue!Next, IInv, TypeOK
  <2>2. CASE GetLoad
    <3>1. held # << >> /\ Len(held) >= 1
      BY <2>2, HeldLength DEF GetLoad, IInv, ConsumerView
    <3>2. At(tail, 1) = tail
      BY HeldLength DEF At
    <3>3. buf[tail] = Head(held)
      BY <3>1, <3>2 DEF IInv, HeldInSlots
    <3>4. Queue!Look
      BY <2>2, <3>1, <3>3 DEF GetLoad, Queue!Look
    <3> QED BY <3>4 DEF Queue!Next
  <2>3. CASE GetRelease
    <3>1. Queue!Take
      BY <2>3 DEF GetRelease, Queue!Take
    <3> QED BY <3>1 DEF Queue!Next
  <2>4. CASE ~PutPublish /\ ~GetLoad /\ ~GetRelease
    <3>1. UNCHANGED <<held, got>> /\ (cpc' = "release" <=> cpc = "release")
      BY <2>4 DEF Next, Producer, Consumer, PutBegin, PutFull, PutRoom, PutStore,
                  GetEmpty, GetBegin, vars
    <3>2. (cpc' = "release") = (cpc = "release")
      BY <3>1
    <3> QED BY <3>1, <3>2 DEF Queue!vars
  <2> QED BY <2>1, <2>2, <2>3, <2>4
<1> QED BY SpecIInv, <1>1, <1>2, PTL DEF Spec, QueueSpec, Queue!Spec
=============================================================================
