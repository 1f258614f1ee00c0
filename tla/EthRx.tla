-------------------------------- MODULE EthRx --------------------------------
(***************************************************************************)
(* port/openedv_stm32f4/lwip/ethernetif.c: how frames are received.        *)
(*                                                                         *)
(* The buffers of RX_POOL go round: the driver attaches one to each        *)
(* descriptor (HAL_ETH_RxAllocateCallback), the chip fills it, the eth_rx  *)
(* thread hands it to lwIP, and whoever is done with it, in whatever       *)
(* thread, gives it back (pbuf_free_custom).  When the pool is empty       *)
(* RxAllocStatus stops the reading, and the next buffer given back starts  *)
(* it again.  RxAllocStatus is read and written by all these threads       *)
(* without a lock, so its accesses are steps of their own.                 *)
(*                                                                         *)
(* A frame fits in one buffer.                                             *)
(***************************************************************************)
EXTENDS Integers, FiniteSets

CONSTANTS
  RxDescs,     \* ETH_RX_DESC_CNT
  Buffers,     \* ETH_RX_BUFFER_CNT
  Freers       \* the threads that free received pbufs: tcpip, and the applications

ASSUME SizeAssumption ==
  /\ RxDescs \in Nat \ {0}
  /\ Buffers \in Nat /\ Buffers >= RxDescs

VARIABLES
  desc,       \* each descriptor: no buffer, the chip's, or filled
  readIdx,    \* RxDescIdx
  build,      \* RxBuildDescCnt
  chip,       \* the descriptor the chip is at
  irq,        \* the receive flags of DMASR: a frame, or no descriptor for one
  tok,        \* s_rx_semaphore
  pool,       \* how many buffers RX_POOL has
  status,     \* RxAllocStatus
  rpc,        \* where the eth_rx thread stands
  packet,     \* p of ethernetif_input is a frame
  held,       \* how many pbufs lwIP and the applications hold
  fpc,        \* where each freer stands in pbuf_free_custom
  missed      \* ghost: a buffer came back between a failed allocation and its note

ringVars == <<desc, readIdx, build>>
vars == <<ringVars, chip, irq, tok, pool, status, rpc, packet, held, fpc, missed>>

Desc      == 0 .. RxDescs - 1
Fwd(d, k) == (d + k) % RxDescs
\* A slip in BuildIdx: the descriptor read next is built.
BuildIdxAtRead == readIdx

\* RxBuildDescIdx: the descriptors to be built end where the next one is read.
BuildIdx == Fwd(readIdx, RxDescs - build)

\* ethernetif_input calls HAL_ETH_Start_IT, which builds every descriptor.
Init ==
  /\ desc = [d \in Desc |-> "bare"]
  /\ readIdx = 0 /\ build = RxDescs
  /\ chip = 0 /\ irq = FALSE /\ tok = FALSE
  /\ pool = Buffers /\ status = "ok"
  /\ rpc = "build" /\ packet = FALSE
  /\ held = 0 /\ fpc = [f \in Freers |-> "out"]
  /\ missed = FALSE

(***************************************************************************)
(* The eth_rx thread: ethernetif_input, low_level_input, HAL_ETH_ReadData  *)
(***************************************************************************)
Wake ==
  /\ rpc = "wait" /\ tok
  /\ tok' = FALSE
  /\ rpc' = "gate"
  /\ UNCHANGED <<ringVars, chip, irq, pool, status, packet, held, fpc, missed>>

\* low_level_input: nothing is read while an allocation is outstanding.
Gate ==
  /\ rpc = "gate"
  /\ rpc' = IF status = "ok" THEN "read" ELSE "wait"
  /\ UNCHANGED <<ringVars, chip, irq, tok, pool, status, packet, held, fpc, missed>>

\* A slip in ReadData: descriptors that still have no buffer are read as well.
ReadDataUnbounded ==
  /\ rpc = "read"
  /\ IF desc[readIdx] # "chip"
     THEN /\ packet' = TRUE
          /\ desc' = [desc EXCEPT ![readIdx] = "bare"]
          /\ readIdx' = Fwd(readIdx, 1) /\ build' = build + 1
     ELSE packet' = FALSE /\ UNCHANGED ringVars
  /\ rpc' = IF build' > 0 THEN "build" ELSE "wait"
  /\ UNCHANGED <<chip, irq, tok, pool, status, held, fpc, missed>>

\* The next filled descriptor, if any, gives its buffer to the packet.  The descriptors
\* still to be built are not looked at (desccntmax).
ReadData ==
  /\ rpc = "read"
  /\ IF build < RxDescs /\ desc[readIdx] = "full"
     THEN /\ packet' = TRUE
          /\ desc' = [desc EXCEPT ![readIdx] = "bare"]
          /\ readIdx' = Fwd(readIdx, 1) /\ build' = build + 1
     ELSE packet' = FALSE /\ UNCHANGED ringVars
  /\ rpc' = IF build' > 0 THEN "build" ELSE "wait"
  /\ UNCHANGED <<chip, irq, tok, pool, status, held, fpc, missed>>

\* ETH_UpdateDescriptor, one descriptor: LWIP_MEMPOOL_ALLOC gives a buffer ...
AfterBuild == IF packet THEN "deliver" ELSE "wait"

Build ==
  /\ rpc = "build" /\ build > 0 /\ pool > 0
  /\ pool' = pool - 1
  /\ desc' = [desc EXCEPT ![BuildIdx] = "chip"]
  /\ build' = build - 1
  /\ rpc' = IF build' = 0 THEN AfterBuild ELSE rpc
  /\ UNCHANGED <<readIdx, chip, irq, tok, status, packet, held, fpc, missed>>

\* ... or none, which HAL_ETH_RxAllocateCallback then notes.
BuildFails ==
  /\ rpc = "build" /\ build > 0 /\ pool = 0
  /\ rpc' = "fail"
  /\ UNCHANGED <<ringVars, chip, irq, tok, pool, status, packet, held, fpc, missed>>

NoteFailure ==
  /\ rpc = "fail"
  /\ status' = "error"
  /\ rpc' = AfterBuild
  /\ UNCHANGED <<ringVars, chip, irq, tok, pool, packet, held, fpc, missed>>

\* netif->input takes the pbuf, or the thread frees it; then the next one is read.
Deliver ==
  /\ rpc = "deliver"
  /\ packet' = FALSE
  /\ held' = held + 1
  /\ rpc' = "gate"
  /\ UNCHANGED <<ringVars, chip, irq, tok, pool, status, fpc, missed>>

\* A slip in Reject: the pbuf lwIP would not take is not freed.
RejectKept ==
  /\ rpc = "deliver"
  /\ packet' = FALSE
  /\ rpc' = "gate"
  /\ UNCHANGED <<ringVars, chip, irq, tok, pool, status, held, fpc, missed>>

Reject ==
  /\ rpc = "deliver"
  /\ packet' = FALSE
  /\ pool' = pool + 1
  /\ rpc' = "test"
  /\ UNCHANGED <<ringVars, chip, irq, tok, status, held, fpc, missed>>

(***************************************************************************)
(* pbuf_free_custom: here for eth_rx itself, then for the other threads    *)
(***************************************************************************)
RejectTest ==
  /\ rpc = "test"
  /\ rpc' = IF status = "error" THEN "set" ELSE "gate"
  /\ UNCHANGED <<ringVars, chip, irq, tok, pool, status, packet, held, fpc, missed>>

RejectSet ==
  /\ rpc = "set"
  /\ status' = "ok" /\ missed' = FALSE
  /\ rpc' = "give"
  /\ UNCHANGED <<ringVars, chip, irq, tok, pool, packet, held, fpc>>

RejectGive ==
  /\ rpc = "give"
  /\ tok' = TRUE
  /\ rpc' = "gate"
  /\ UNCHANGED <<ringVars, chip, irq, pool, status, packet, held, fpc, missed>>

\* LWIP_MEMPOOL_FREE
Free(f) ==
  /\ fpc[f] = "out" /\ held > 0
  /\ held' = held - 1
  /\ pool' = pool + 1
  /\ fpc' = [fpc EXCEPT ![f] = "test"]
  /\ UNCHANGED <<ringVars, chip, irq, tok, status, rpc, packet, missed>>

\* A slip in FreeTest: RxAllocStatus is not looked at.
FreeTestNot(f) ==
  /\ fpc[f] = "test"
  /\ fpc' = [fpc EXCEPT ![f] = "out"]
  /\ UNCHANGED <<ringVars, chip, irq, tok, pool, status, rpc, packet, held, missed>>

FreeTest(f) ==
  /\ fpc[f] = "test"
  /\ fpc' = [fpc EXCEPT ![f] = IF status = "error" THEN "set" ELSE "out"]
  /\ missed' = (missed \/ (status = "ok" /\ rpc = "fail"))
  /\ UNCHANGED <<ringVars, chip, irq, tok, pool, status, rpc, packet, held>>

FreeSet(f) ==
  /\ fpc[f] = "set"
  /\ status' = "ok" /\ missed' = (missed /\ rpc = "fail")
  /\ fpc' = [fpc EXCEPT ![f] = "give"]
  /\ UNCHANGED <<ringVars, chip, irq, tok, pool, rpc, packet, held>>

\* A slip in FreeGive: the thread is not woken.
FreeGiveNot(f) ==
  /\ fpc[f] = "give"
  /\ fpc' = [fpc EXCEPT ![f] = "out"]
  /\ UNCHANGED <<ringVars, chip, irq, tok, pool, status, rpc, packet, held, missed>>

FreeGive(f) ==
  /\ fpc[f] = "give"
  /\ tok' = TRUE
  /\ fpc' = [fpc EXCEPT ![f] = "out"]
  /\ UNCHANGED <<ringVars, chip, irq, pool, status, rpc, packet, held, missed>>

(***************************************************************************)
(* The chip and its interrupt                                              *)
(***************************************************************************)
\* A frame arrives: it fills a descriptor, or is lost for want of one.
Arrive ==
  /\ IF desc[chip] = "chip"
     THEN desc' = [desc EXCEPT ![chip] = "full"] /\ chip' = Fwd(chip, 1)
     ELSE UNCHANGED <<desc, chip>>
  /\ irq' = TRUE
  /\ UNCHANGED <<readIdx, build, tok, pool, status, rpc, packet, held, fpc, missed>>

\* HAL_ETH_RxCpltCallback, HAL_ETH_ErrorCallback
Interrupt ==
  /\ irq
  /\ irq' = FALSE
  /\ tok' = TRUE
  /\ UNCHANGED <<ringVars, chip, pool, status, rpc, packet, held, fpc, missed>>

EthRxThread == Wake \/ Gate \/ ReadData \/ Build \/ BuildFails \/ NoteFailure \/ Deliver
               \/ Reject \/ RejectTest \/ RejectSet \/ RejectGive
Freer(f)    == Free(f) \/ FreeTest(f) \/ FreeSet(f) \/ FreeGive(f)

Next == EthRxThread \/ Arrive \/ Interrupt \/ \E f \in Freers : Freer(f)

Spec == Init /\ [][Next]_vars

\* Every thread runs, every interrupt is served, and what lwIP and the applications
\* hold they free in the end.  Nothing is said of when frames arrive.
FairSpec ==
  /\ Spec
  /\ WF_vars(EthRxThread) /\ WF_vars(Interrupt)
  /\ \A f \in Freers : WF_vars(Freer(f))

-----------------------------------------------------------------------------
\* The types; no more descriptors are to be built than there are.
TypeOK ==
  /\ desc \in [Desc -> {"bare", "chip", "full"}]
  /\ readIdx \in Desc /\ chip \in Desc /\ build \in 0 .. RxDescs
  /\ irq \in BOOLEAN /\ tok \in BOOLEAN /\ packet \in BOOLEAN /\ missed \in BOOLEAN
  /\ pool \in 0 .. Buffers /\ held \in 0 .. Buffers
  /\ status \in {"ok", "error"}
  /\ rpc \in {"wait", "gate", "read", "build", "fail", "deliver", "test", "set", "give"}
  /\ fpc \in [Freers -> {"out", "test", "set", "give"}]

Attached == {d \in Desc : desc[d] # "bare"}

\* No buffer is lost or has two owners: the pool, the descriptors, the packet in hand and
\* the stack have them all.
BuffersKept ==
  pool + Cardinality(Attached) + (IF packet THEN 1 ELSE 0) + held = Buffers

\* From the descriptor read next, round the ring: filled ones up to where the chip is,
\* then the chip's, then those to be built.  The chip never meets a filled one first,
\* and the thread never waits in front of one the chip has passed.
RingOrder ==
  \E n \in 0 .. RxDescs - build :
    /\ chip = Fwd(readIdx, n)
    /\ \A k \in 0 .. RxDescs - 1 :
         desc[Fwd(readIdx, k)] = IF k < n THEN "full"
                                 ELSE IF k < RxDescs - build THEN "chip" ELSE "bare"

\* Someone will start the reading again: a pbuf is still out, or on its way back to a
\* thread that will see the note.
Rescuer ==
  \/ held > 0 \/ packet \/ rpc \in {"test", "set"}
  \/ \E f \in Freers : fpc[f] \in {"test", "set"}

\* Reading stops only while someone is left who will start it again, unless a buffer
\* came back between the failed allocation and its note.
StopsOnlyIfRescued == status = "error" /\ ~missed => Rescuer

\* A filled descriptor is read in the end, through any number of empty pools, with the
\* same exception.
FramesRead == \A d \in Desc : desc[d] = "full" ~> desc[d] # "full" \/ missed
=============================================================================
