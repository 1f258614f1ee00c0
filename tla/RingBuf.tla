------------------------------- MODULE RingBuf -------------------------------
(***************************************************************************)
(* common/ringbuf.h: the single-producer single-consumer byte ring that    *)
(* carries received bytes from an interrupt handler to a task.             *)
(*                                                                         *)
(* head and tail are volatile and nothing is locked, so the model splits   *)
(* ringbuf_put and ringbuf_get at every access to a shared field: the      *)
(* producer and the consumer may be interrupted between any two of them.   *)
(*                                                                         *)
(* held is a ghost: the bytes accepted and not yet taken, oldest first.  A *)
(* byte enters it when head moves past it and leaves it when tail does.    *)
(***************************************************************************)
EXTENDS Naturals, Sequences

CONSTANTS Byte,    \* the values of a byte
          Size     \* rb->size, the slots of the backing store

ASSUME SizeAssumption == Size \in Nat \ {0}
ASSUME ByteAssumption == Byte # {}

VARIABLES
  buf,     \* rb->buf
  head,    \* rb->head, written by the producer only
  tail,    \* rb->tail, written by the consumer only
  ppc,     \* where the producer stands in ringbuf_put
  pbyte,   \* the argument of the put in progress
  next,    \* the producer's local next
  cpc,     \* where the consumer stands in ringbuf_get
  got,     \* *byte of the get in progress or last done
  held     \* ghost: the bytes in the ring, oldest first

vars == <<buf, head, tail, ppc, pbyte, next, cpc, got, held>>

Slot == 0 .. Size - 1

\* A slip in Succ: the index is never wrapped.
SuccNoWrap(i) == i + 1

Succ(i) == (i + 1) % Size

\* ringbuf_count: the bytes buffered between two index values.
Count(h, t) == (h + Size - t) % Size

Init ==
  /\ buf \in [Slot -> Byte]      \* the caller's array, whatever it held
  /\ head = 0
  /\ tail = 0
  /\ ppc = "idle"
  /\ pbyte \in Byte
  /\ next = 0
  /\ cpc = "idle"
  /\ got \in Byte
  /\ held = << >>

(***************************************************************************)
(* ringbuf_put                                                             *)
(***************************************************************************)
PutBegin(b) ==
  /\ ppc = "idle"
  /\ ppc' = "check"
  /\ pbyte' = b
  /\ next' = Succ(head)
  /\ UNCHANGED <<buf, head, tail, cpc, got, held>>

\* if (next == rb->tail) return false;
PutFull ==
  /\ ppc = "check"
  /\ next = tail
  /\ ppc' = "idle"
  /\ UNCHANGED <<buf, head, tail, pbyte, next, cpc, got, held>>

\* A slip in PutRoom: the ring is not tested for being full.
PutRoomUnchecked ==
  /\ ppc = "check"
  /\ ppc' = "store"
  /\ UNCHANGED <<buf, head, tail, pbyte, next, cpc, got, held>>

PutRoom ==
  /\ ppc = "check"
  /\ next # tail
  /\ ppc' = "store"
  /\ UNCHANGED <<buf, head, tail, pbyte, next, cpc, got, held>>

PutStore ==
  /\ ppc = "store"
  /\ buf' = [buf EXCEPT ![head] = pbyte]
  /\ ppc' = "publish"
  /\ UNCHANGED <<head, tail, pbyte, next, cpc, got, held>>

PutPublish ==
  /\ ppc = "publish"
  /\ head' = next
  /\ held' = Append(held, pbyte)
  /\ ppc' = "idle"
  /\ UNCHANGED <<buf, tail, pbyte, next, cpc, got>>

(***************************************************************************)
(* ringbuf_get                                                             *)
(***************************************************************************)
\* if (rb->tail == rb->head) return false;
GetEmpty ==
  /\ cpc = "idle"
  /\ tail = head
  /\ UNCHANGED vars

GetBegin ==
  /\ cpc = "idle"
  /\ tail # head
  /\ cpc' = "load"
  /\ UNCHANGED <<buf, head, tail, ppc, pbyte, next, got, held>>

\* A slip in GetLoad: the newest slot is read instead of the oldest.
GetLoadAtHead ==
  /\ cpc = "load"
  /\ got' = buf[head]
  /\ cpc' = "release"
  /\ UNCHANGED <<buf, head, tail, ppc, pbyte, next, held>>

GetLoad ==
  /\ cpc = "load"
  /\ got' = buf[tail]
  /\ cpc' = "release"
  /\ UNCHANGED <<buf, head, tail, ppc, pbyte, next, held>>

GetRelease ==
  /\ cpc = "release"
  /\ tail' = Succ(tail)
  /\ held' = Tail(held)
  /\ cpc' = "idle"
  /\ UNCHANGED <<buf, head, ppc, pbyte, next, got>>

Producer == \/ \E b \in Byte : PutBegin(b)
            \/ PutFull
            \/ PutRoom
            \/ PutStore
            \/ PutPublish

Consumer == GetEmpty \/ GetBegin \/ GetLoad \/ GetRelease

Next == Producer \/ Consumer

Spec == Init /\ [][Next]_vars

-----------------------------------------------------------------------------
\* The types: every index ringbuf.h stores or computes is a slot of the buffer.
TypeOK ==
  /\ buf \in [Slot -> Byte]
  /\ head \in Slot
  /\ tail \in Slot
  /\ ppc \in {"idle", "check", "store", "publish"}
  /\ pbyte \in Byte
  /\ next \in Slot
  /\ cpc \in {"idle", "load", "release"}
  /\ got \in Byte
  /\ held \in Seq(Byte)

\* The indices and the bytes agree: between tail and head lie exactly the bytes
\* accepted and not yet taken, each in its slot, oldest at tail.  A slot index that
\* wraps wrongly, or a slot overwritten before it is read, breaks it.
Contents ==
  /\ Len(held) = Count(head, tail)
  /\ \A k \in 1 .. Len(held) : buf[(tail + k - 1) % Size] = held[k]

\* The byte ringbuf_get hands to its caller is the oldest one, although the
\* producer may have run, and even filled the ring, between the load and the
\* release of the slot.
GetsOldest == cpc = "release" => held # << >> /\ got = held[1]

-----------------------------------------------------------------------------
\* The ring implements the bounded queue of ByteQueue with Size - 1 places: a put
\* takes effect when head moves, a get when its byte is loaded and again when tail
\* moves, and every other step of either side is invisible.
Queue == INSTANCE ByteQueue WITH
  queue <- held, out <- got, taking <- cpc = "release", Capacity <- Size - 1
QueueSpec == Queue!Spec
=============================================================================
