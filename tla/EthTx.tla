-------------------------------- MODULE EthTx --------------------------------
(***************************************************************************)
(* port/openedv_stm32f4/lwip/ethernetif.c: how a frame is sent.            *)
(*                                                                         *)
(* lwIP calls low_level_output for one frame at a time.  It gives the      *)
(* frame's segments to the descriptor ring of the MAC (HAL_ETH_Transmit_IT *)
(* of the vendor's driver), waits at most 50 ms for the token that the     *)
(* transmit interrupt gives, and hands the frames the chip is done with    *)
(* back to lwIP (HAL_ETH_ReleaseTxPacket).  The chip, its interrupt and    *)
(* the thread run side by side; the interrupt flag and the semaphore are   *)
(* binary, so two completions may arrive as one.                           *)
(***************************************************************************)
EXTENDS Integers, FiniteSets

CONSTANTS
  TxDescs,     \* ETH_TX_DESC_CNT
  MaxSegs,     \* the segments of the longest chain of pbufs
  Frames       \* bound: how many frames are sent

ASSUME SizeAssumption ==
  TxDescs \in Nat \ {0} /\ MaxSegs \in Nat \ {0} /\ Frames \in Nat

VARIABLES
  started,    \* gState is STARTED
  own,        \* the OWN bit of each descriptor
  points,     \* the frame whose data DESC2 of each descriptor points to
  addr,       \* PacketAddress: the pbuf to free, at a frame's last descriptor
  cur,        \* CurTxDesc
  rel,        \* releaseIndex
  inUse,      \* BuffersInUse
  dma,        \* the descriptor the chip is at
  ts,         \* the transmit flag of DMASR
  tok,        \* s_tx_semaphore
  pc, frame,  \* where low_level_output stands, and the frame it sends
  ret,        \* what it returned last
  refs,       \* how many references to a pbuf the interface holds
  late,       \* ghost: how many outputs timed out
  slipped     \* ghost: one timed out before its own completion was signalled

halVars == <<started, own, points, addr, cur, rel, inUse>>
vars == <<halVars, dma, ts, tok, pc, frame, ret, refs, late, slipped>>

Desc   == 0 .. TxDescs - 1
Frame  == 1 .. Frames
None   == 0
Fwd(d, k) == (d + k) % TxDescs

Init ==
  /\ started = FALSE
  /\ own = [d \in Desc |-> FALSE] /\ points = [d \in Desc |-> None]
  /\ addr = [d \in Desc |-> None] /\ cur = 0 /\ rel = 0 /\ inUse = 0
  /\ dma = 0 /\ ts = FALSE /\ tok = FALSE
  /\ pc = "idle" /\ frame = 0 /\ ret = "none"
  /\ refs = [f \in Frame |-> 0]
  /\ late = 0 /\ slipped = FALSE

\* The eth_rx thread starts the MAC (HAL_ETH_Start_IT).
Start ==
  /\ ~started
  /\ started' = TRUE
  /\ UNCHANGED <<own, points, addr, cur, rel, inUse, dma, ts, tok, pc, frame, ret, refs,
                 late, slipped>>

(***************************************************************************)
(* low_level_output                                                        *)
(***************************************************************************)
\* The next n descriptors, and those the driver takes for free.
Room(n) == {Fwd(cur, k) : k \in 0 .. n - 1}

\* A slip in IsFree: the OWN bit is not looked at.
IsFreeAddrOnly(d) == addr[d] = None

IsFree(d) == ~own[d] /\ addr[d] = None

\* The MAC is not started, the chain has more segments than there are descriptors, or
\* too few are free: the reference is given back, and nothing is released.
Refuse(n) ==
  /\ pc = "idle" /\ frame < Frames
  /\ frame' = frame + 1
  /\ \/ n > TxDescs /\ ret' = "long"
     \/ n <= TxDescs /\ ~started /\ ret' = "off"
     \/ n <= TxDescs /\ started /\ (\E d \in Room(n) : ~IsFree(d)) /\ ret' = "busy"
  /\ UNCHANGED <<halVars, dma, ts, tok, pc, refs, late, slipped>>

\* A slip in Transmit: the index stays at the last descriptor of the frame.
TransmitShort(n) ==
  /\ pc = "idle" /\ frame < Frames
  /\ n <= TxDescs /\ started /\ \A d \in Room(n) : IsFree(d)
  /\ frame' = frame + 1
  /\ own' = [d \in Desc |-> d \in Room(n) \/ own[d]]
  /\ points' = [d \in Desc |-> IF d \in Room(n) THEN frame' ELSE points[d]]
  /\ addr' = [addr EXCEPT ![Fwd(cur, n - 1)] = frame']
  /\ cur' = Fwd(cur, n - 1)
  /\ inUse' = inUse + n
  /\ refs' = [refs EXCEPT ![frame'] = @ + 1]
  /\ pc' = "wait"
  /\ UNCHANGED <<started, rel, dma, ts, tok, ret, late, slipped>>

\* pbuf_ref and HAL_ETH_Transmit_IT.
Transmit(n) ==
  /\ pc = "idle" /\ frame < Frames
  /\ n <= TxDescs /\ started /\ \A d \in Room(n) : IsFree(d)
  /\ frame' = frame + 1
  /\ own' = [d \in Desc |-> d \in Room(n) \/ own[d]]
  /\ points' = [d \in Desc |-> IF d \in Room(n) THEN frame' ELSE points[d]]
  /\ addr' = [addr EXCEPT ![Fwd(cur, n - 1)] = frame']
  /\ cur' = Fwd(cur, n)
  /\ inUse' = inUse + n
  /\ refs' = [refs EXCEPT ![frame'] = @ + 1]
  /\ pc' = "wait"
  /\ UNCHANGED <<started, rel, dma, ts, tok, ret, late, slipped>>

\* xSemaphoreTake with 50 ms: the token comes, or it does not.
Taken ==
  /\ pc = "wait" /\ tok
  /\ tok' = FALSE
  /\ pc' = "release"
  /\ UNCHANGED <<halVars, dma, ts, frame, ret, refs, late, slipped>>

TimedOut ==
  /\ pc = "wait" /\ ~tok
  /\ pc' = "releaseLate"
  /\ late' = late + 1
  /\ UNCHANGED <<halVars, dma, ts, tok, frame, ret, refs, slipped>>

\* HAL_ETH_ReleaseTxPacket: from releaseIndex on, up to the first packet whose last
\* descriptor the chip owns, every packet is freed.  BuffersInUse may exceed the number
\* of descriptors (NoneForgotten); on a second visit the entry is NULL.
Ahead(k) == Fwd(rel, k)
Visited  == {k \in 0 .. inUse - 1 : k < TxDescs /\ addr[Ahead(k)] # None}

\* A slip in Done: the scan does not stop at a packet that is still being sent.
DoneAll == Visited

Done == {k \in Visited : \A j \in Visited : j <= k => ~own[Ahead(j)]}

\* How far releaseIndex moves: past the last packet freed.
Passed(n) == IF Done = {} THEN n = 0 ELSE n - 1 \in Done /\ \A k \in Done : k < n

Freed(f) == \E k \in Done : addr[Ahead(k)] = f

\* A slip in ReleaseTxPacket: the entry of the packet is not cleared.
ReleaseTxPacketKept ==
  \E n \in 0 .. inUse :
    /\ Passed(n)
    /\ refs' = [f \in Frame |-> refs[f] - IF Freed(f) THEN 1 ELSE 0]
    /\ rel' = Ahead(n) /\ inUse' = inUse - n
    /\ UNCHANGED <<started, own, points, addr, cur>>

ReleaseTxPacket ==
  \E n \in 0 .. inUse :
    /\ Passed(n)
    /\ addr' = [d \in Desc |-> IF \E k \in Done : d = Ahead(k) THEN None ELSE addr[d]]
    /\ refs' = [f \in Frame |-> refs[f] - IF Freed(f) THEN 1 ELSE 0]
    /\ rel' = Ahead(n) /\ inUse' = inUse - n
    /\ UNCHANGED <<started, own, points, cur>>

\* A slip in ReturnOk: the descriptors are not released.
ReturnOkUnreleased ==
  /\ pc = "release"
  /\ pc' = "idle" /\ ret' = "ok"
  /\ UNCHANGED <<halVars, refs, dma, ts, tok, frame, late, slipped>>

ReturnOk ==
  /\ pc = "release"
  /\ ReleaseTxPacket
  /\ pc' = "idle" /\ ret' = "ok"
  /\ UNCHANGED <<dma, ts, tok, frame, late, slipped>>

ReleaseLate ==
  /\ pc = "releaseLate"
  /\ ReleaseTxPacket
  /\ pc' = "drop"
  /\ UNCHANGED <<dma, ts, tok, frame, ret, late, slipped>>

\* A slip in DropToken: the token is not dropped.
DropTokenNot ==
  /\ pc = "drop"
  /\ slipped' = (slipped \/ ts \/ \E d \in Desc : points[d] = frame /\ own[d])
  /\ pc' = "idle" /\ ret' = "timeout"
  /\ UNCHANGED <<halVars, dma, ts, tok, frame, refs, late>>

\* The token the interrupt may have given since is dropped.
DropToken ==
  /\ pc = "drop"
  /\ tok' = FALSE
  /\ slipped' = (slipped \/ ts \/ \E d \in Desc : points[d] = frame /\ own[d])
  /\ pc' = "idle" /\ ret' = "timeout"
  /\ UNCHANGED <<halVars, dma, ts, frame, refs, late>>

(***************************************************************************)
(* The chip and its interrupt                                              *)
(***************************************************************************)
\* A descriptor has been sent; with the last one of a frame the flag is raised.
Send ==
  /\ own[dma]
  /\ own' = [own EXCEPT ![dma] = FALSE]
  /\ ts' = (ts \/ addr[dma] # None)
  /\ dma' = Fwd(dma, 1)
  /\ UNCHANGED <<started, points, addr, cur, rel, inUse, tok, pc, frame, ret, refs, late,
                 slipped>>

\* HAL_ETH_IRQHandler and HAL_ETH_TxCpltCallback.
TxCplt ==
  /\ ts
  /\ ts' = FALSE
  /\ tok' = TRUE
  /\ UNCHANGED <<halVars, dma, pc, frame, ret, refs, late, slipped>>

Next ==
  \/ Start
  \/ \E n \in 1 .. MaxSegs : Refuse(n) \/ Transmit(n)
  \/ Taken \/ TimedOut \/ ReturnOk \/ ReleaseLate \/ DropToken
  \/ Send \/ TxCplt

Spec == Init /\ [][Next]_vars

-----------------------------------------------------------------------------
\* The types; references are never negative, so no pbuf is freed twice.
TypeOK ==
  /\ started \in BOOLEAN
  /\ own \in [Desc -> BOOLEAN]
  /\ points \in [Desc -> 0 .. Frames] /\ addr \in [Desc -> 0 .. Frames]
  /\ cur \in Desc /\ rel \in Desc /\ dma \in Desc /\ inUse \in Nat
  /\ ts \in BOOLEAN /\ tok \in BOOLEAN
  /\ pc \in {"idle", "wait", "release", "releaseLate", "drop"}
  /\ frame \in 0 .. Frames
  /\ ret \in {"none", "ok", "timeout", "busy", "off", "long"}
  /\ refs \in [Frame -> Nat]
  /\ late \in 0 .. Frames /\ slipped \in BOOLEAN

\* The chip reads only from pbufs that the interface has not given back: whatever timed
\* out, was refused or completed together with another frame.
PayloadHeld == \A d \in Desc : own[d] => points[d] \in Frame /\ refs[points[d]] > 0

\* What the chip owns is one run of descriptors from where it stands to CurTxDesc: it
\* never stops in front of a frame, and never sends a descriptor of an old one again.
OwnedRun ==
  \E n \in 0 .. TxDescs :
    /\ cur = Fwd(dma, n)
    /\ \A d \in Desc : own[d] <=> \E k \in 0 .. n - 1 : d = Fwd(dma, k)

\* Every packet not yet freed lies where HAL_ETH_ReleaseTxPacket will look, although the
\* driver hands out descriptors that the release has not passed yet.
NoneForgotten ==
  \A d \in Desc : addr[d] # None => \E k \in 0 .. inUse - 1 : d = Ahead(k)

\* Between calls the interface holds no more pbufs than outputs that timed out: one that
\* was reported sent, or refused, is given back, unless an earlier output returned
\* before its own completion was signalled.
HeldBound ==
  pc = "idle" /\ ~slipped => Cardinality({d \in Desc : addr[d] # None}) <= late

\* The answer ERR_OK means that the frame itself has been sent, as long as no output
\* returned before its own completion was signalled.
OkMeansSent ==
  (pc = "idle" /\ ret = "ok" /\ ~slipped) => \A d \in Desc : points[d] = frame => ~own[d]

\* A frame that timed out does not make a later one return ERR_OK before its own
\* completion (the comment in low_level_output).
OkIsOwnCompletion ==
  (pc = "idle" /\ ret = "ok") => \A d \in Desc : points[d] = frame => ~own[d]
=============================================================================
