-------------------------------- MODULE Rounds --------------------------------
(***************************************************************************)
(* Going round a ring of N descriptors: what INCR_TX_DESC_INDEX and        *)
(* INCR_RX_DESC_INDEX of the Ethernet driver compute, for every N.         *)
(***************************************************************************)
EXTENDS Integers, TLAPS

\* k steps on from place d.
Round(d, k, N) == (d + k) % N

\* An index wraps once at most: up to N steps from a place stay in the ring.
LEMMA RoundValue ==
  ASSUME NEW N \in Nat \ {0}, NEW d \in 0 .. N - 1, NEW k \in 0 .. N
  PROVE  /\ Round(d, k, N) = IF d + k < N THEN d + k ELSE d + k - N
         /\ Round(d, k, N) \in 0 .. N - 1
<1>1. CASE d + k < N
  <2>1. (d + k) % N = d + k
    BY <1>1
  <2> QED BY <2>1, <1>1 DEF Round
<1>2. CASE d + k >= N
  <2>1. (d + k) % N = d + k - N
    BY <1>2
  <2> QED BY <2>1, <1>2 DEF Round
<1> QED BY <1>1, <1>2

\* Fewer than N steps lead to different places.
LEMMA RoundInjective ==
  ASSUME NEW N \in Nat \ {0}, NEW d \in 0 .. N - 1, NEW j \in 0 .. N - 1, NEW k \in 0 .. N - 1
  PROVE  Round(d, j, N) = Round(d, k, N) => j = k
<1>1. j \in 0 .. N /\ k \in 0 .. N
  OBVIOUS
<1>2. Round(d, j, N) = IF d + j < N THEN d + j ELSE d + j - N
  BY <1>1, RoundValue
<1>3. Round(d, k, N) = IF d + k < N THEN d + k ELSE d + k - N
  BY <1>1, RoundValue
<1> QED BY <1>2, <1>3

\* j steps and then k more are j + k steps, if that is not more than one round.
LEMMA RoundSum ==
  ASSUME NEW N \in Nat \ {0}, NEW d \in 0 .. N - 1, NEW j \in 0 .. N, NEW k \in 0 .. N,
         j + k <= N
  PROVE  Round(Round(d, j, N), k, N) = Round(d, j + k, N)
<1>1. /\ Round(d, j, N) = IF d + j < N THEN d + j ELSE d + j - N
      /\ Round(d, j, N) \in 0 .. N - 1
  BY RoundValue
<1>2. Round(Round(d, j, N), k, N) = IF Round(d, j, N) + k < N THEN Round(d, j, N) + k
                                    ELSE Round(d, j, N) + k - N
  BY <1>1, RoundValue
<1>3. j + k \in 0 .. N
  OBVIOUS
<1>4. Round(d, j + k, N) = IF d + (j + k) < N THEN d + (j + k) ELSE d + (j + k) - N
  BY <1>3, RoundValue
<1> QED BY <1>1, <1>2, <1>4

\* No step and a whole round both lead back.
LEMMA RoundWhole ==
  ASSUME NEW N \in Nat \ {0}, NEW d \in 0 .. N - 1
  PROVE  Round(d, 0, N) = d /\ Round(d, N, N) = d
<1>1. 0 \in 0 .. N /\ N \in 0 .. N
  OBVIOUS
<1>2. /\ Round(d, 0, N) = IF d + 0 < N THEN d + 0 ELSE d + 0 - N
      /\ Round(d, N, N) = IF d + N < N THEN d + N ELSE d + N - N
  BY <1>1, RoundValue
<1> QED BY <1>2

\* Every place is some number of steps away from every other.
LEMMA RoundOnto ==
  ASSUME NEW N \in Nat \ {0}, NEW d \in 0 .. N - 1, NEW e \in 0 .. N - 1
  PROVE  \E k \in 0 .. N - 1 : e = Round(d, k, N)
<1>1. CASE e >= d
  <2>1. Round(d, e - d, N) = e
    BY <1>1, RoundValue
  <2> QED BY <2>1, <1>1
<1>2. CASE e < d
  <2>1. Round(d, e + N - d, N) = e
    BY <1>2, RoundValue
  <2> QED BY <2>1, <1>2
<1> QED BY <1>1, <1>2
=============================================================================
