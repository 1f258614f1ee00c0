-------------------------------- MODULE Usart --------------------------------
(***************************************************************************)
(* bsp/usart.c: one serial port, both directions.                          *)
(*                                                                         *)
(* A single main loop writes, prints and reads.  The interrupt handlers    *)
(* feed the transmitter, end a transfer when the shift register is empty,  *)
(* and put received bytes into the ring of common/ringbuf.h.  The hardware *)
(* goes on between any two steps of a handler: the shift register shifts,  *)
(* the two DMA streams move bytes, bytes arrive.                           *)
(*                                                                         *)
(* A byte of the transmitter is in left (not handed over yet), dr (the     *)
(* data register) or sh (the shift register).  With DMA reception the      *)
(* stream writes the ring's own buffer in a circle, and the handler of the *)
(* idle interrupt moves head after it.  RingBuf splits the ring's calls at *)
(* every access; here each is one step.                                    *)
(***************************************************************************)
EXTENDS Naturals, Sequences

CONSTANTS
  Byte,      \* the values of a byte
  Size,      \* cfg->rx_size
  MaxLen,    \* bound: the longest usart_write
  Modes,     \* the pairs of usart_io_t (tx, rx) a port is initialised with
  Sends,     \* for each of them, the bytes that are sent
  Gets       \* and the bytes that arrive

IO == {"poll", "it", "dma"}

ASSUME SizeAssumption == Size \in Nat \ {0, 1} /\ MaxLen \in Nat \ {0}
ASSUME ModeAssumption ==
  Modes \subseteq IO \X IO /\ {Sends, Gets} \subseteq [Modes -> SUBSET Byte]

VARIABLES
  tx, rx,        \* handle->tx, handle->rx
  busy,          \* handle->tx_busy
  left,          \* tx_ptr and tx_len, or what the transmit stream has left to move
  txeie, tcie,   \* the enable bits of the TXE and TC interrupts
  dmat,          \* USART_CR3_DMAT
  stream,        \* the transmit stream: "off", "on", or stopped by "tc" or "te"
  dr, sh, tc,    \* data register and shift register (empty or one byte), flag TC
  rdr, ore,      \* received byte not read yet (empty or one byte), flag ORE
  receiving,     \* bytes keep coming: the line has not been idle since the last one
  idle,          \* flag IDLE
  buf, head, tail,   \* handle->rb
  at,            \* where the receive stream writes next: size - NDTR
  pc, job,       \* where the main loop stands, and what it still has to send
  saw,           \* ORE was set when a reader of SR last looked at it
  irq, pos,      \* where usart_irq stands, and usart_dma_idle's local pos
  due,           \* ghost: the bytes accepted and not sent yet
  owed,          \* ghost: the bytes received and not handed to a reader yet
  gaveUp,        \* ghost: a transmission was cut short and is still in the registers
  over           \* ghost: the receive stream has run into bytes not read yet

txVars   == <<busy, left, txeie, tcie, dmat, stream, dr, sh, tc, due, gaveUp>>
rxVars   == <<rdr, ore, receiving, idle, buf, head, tail, at, owed, over>>
mainVars == <<pc, job>>
irqVars  == <<irq, pos>>
vars     == <<tx, rx, txVars, rxVars, mainVars, saw, irqVars>>

Slot == 0 .. Size - 1

\* A slip in Succ: the index is never wrapped.
SuccNoWrap(i) == i + 1

Succ(i) == (i + 1) % Size
Texts(S) == UNION {[1 .. n -> S] : n \in 1 .. MaxLen}

\* usart_init, on a port nothing is in flight on.
Init ==
  /\ \E m \in Modes : tx = m[1] /\ rx = m[2]
  /\ busy = FALSE /\ left = << >> /\ txeie = FALSE /\ tcie = FALSE /\ dmat = FALSE
  /\ stream = "off" /\ dr = << >> /\ sh = << >> /\ tc = TRUE
  /\ rdr = << >> /\ ore = FALSE /\ receiving = FALSE /\ idle = FALSE
  /\ (\E b \in Byte : buf = [i \in Slot |-> b]) /\ head = 0 /\ tail = 0 /\ at = 0
  /\ pc = "idle" /\ job = << >> /\ saw = FALSE
  /\ irq = "out" /\ pos = 0
  /\ due = << >> /\ owed = << >> /\ gaveUp = FALSE /\ over = FALSE

(***************************************************************************)
(* The transmitter's hardware                                              *)
(***************************************************************************)
ShiftIn ==
  /\ dr # << >> /\ sh = << >>
  /\ sh' = dr /\ dr' = << >>
  /\ UNCHANGED <<tx, rx, busy, left, txeie, tcie, dmat, stream, tc, due, gaveUp, rxVars,
                 mainVars, saw, irqVars>>

\* The byte is out.  The stream is faster than the line: it has refilled the data
\* register by then.
ShiftOut ==
  /\ sh # << >>
  /\ stream = "on" => dr # << >>
  /\ sh' = dr /\ dr' = << >>
  /\ tc' = (tc \/ dr = << >>)
  /\ due' = Tail(due)
  /\ gaveUp' = (gaveUp /\ dr # << >>)
  /\ UNCHANGED <<tx, rx, busy, left, txeie, tcie, dmat, stream, rxVars, mainVars, saw, irqVars>>

StreamMove ==
  /\ stream = "on" /\ dmat /\ dr = << >>
  /\ dr' = <<Head(left)>>
  /\ left' = Tail(left)
  /\ stream' = IF left' = << >> THEN "tc" ELSE "on"
  /\ UNCHANGED <<tx, rx, busy, txeie, tcie, dmat, sh, tc, due, gaveUp, rxVars, mainVars, saw,
                 irqVars>>

StreamError ==
  /\ stream = "on"
  /\ stream' = "te"
  /\ UNCHANGED <<tx, rx, busy, left, txeie, tcie, dmat, dr, sh, tc, due, gaveUp, rxVars,
                 mainVars, saw, irqVars>>

(***************************************************************************)
(* The main loop sends                                                     *)
(***************************************************************************)
Main == pc = "idle" /\ irq = "out"

\* usart_write, by interrupts, by the stream, and byte by byte.  A call while
\* tx_busy is set is refused and changes nothing.
WriteIt(s) ==
  /\ Main /\ tx = "it" /\ ~busy
  /\ tc' = FALSE
  /\ left' = s /\ busy' = TRUE /\ txeie' = TRUE
  /\ due' = due \o s
  /\ UNCHANGED <<tx, rx, tcie, dmat, stream, dr, sh, gaveUp, rxVars, mainVars, saw, irqVars>>

WriteDma(s) ==
  /\ Main /\ tx = "dma" /\ ~busy
  /\ tc' = FALSE /\ tcie' = FALSE
  /\ left' = s /\ busy' = TRUE /\ dmat' = TRUE /\ stream' = "on"
  /\ due' = due \o s
  /\ UNCHANGED <<tx, rx, txeie, dr, sh, gaveUp, rxVars, mainVars, saw, irqVars>>

WritePoll(s) ==
  /\ Main /\ tx = "poll" /\ ~busy
  /\ pc' = "txe" /\ job' = s
  /\ UNCHANGED <<tx, rx, txVars, rxVars, saw, irqVars>>

\* __io_putchar: printf may be called whatever the mode of the port.
PutChar(b) ==
  /\ Main
  /\ pc' = "busy" /\ job' = <<b>>
  /\ UNCHANGED <<tx, rx, txVars, rxVars, saw, irqVars>>

\* A slip in PrintWait: it does not look at tx_busy.
PrintWaitNot ==
  /\ pc = "busy" /\ irq = "out"
  /\ pc' = "txe"
  /\ UNCHANGED <<tx, rx, txVars, rxVars, job, saw, irqVars>>

PrintWait ==
  /\ pc = "busy" /\ irq = "out" /\ ~busy
  /\ pc' = "txe"
  /\ UNCHANGED <<tx, rx, txVars, rxVars, job, saw, irqVars>>

\* usart_tx_wait.  Reading SR and then writing DR clears TC.
WaitTxe ==
  /\ pc = "txe" /\ irq = "out" /\ dr = << >>
  /\ dr' = <<Head(job)>> /\ tc' = FALSE
  /\ due' = Append(due, Head(job))
  /\ job' = Tail(job)
  /\ pc' = IF job' = << >> THEN "tc" ELSE "txe"
  /\ UNCHANGED <<tx, rx, busy, left, txeie, tcie, dmat, stream, sh, gaveUp, rxVars, saw, irqVars>>

WaitTc ==
  /\ pc = "tc" /\ irq = "out" /\ tc
  /\ tc' = FALSE
  /\ pc' = "idle"
  /\ UNCHANGED <<tx, rx, busy, left, txeie, tcie, dmat, stream, dr, sh, due, gaveUp, rxVars, job,
                 saw, irqVars>>

\* The line stalls for 100 ms (flow control).
WaitTimesOut ==
  /\ irq = "out"
  /\ (pc = "txe" /\ dr # << >>) \/ (pc = "tc" /\ ~tc)
  /\ pc' = "idle" /\ job' = << >>
  /\ gaveUp' = TRUE
  /\ UNCHANGED <<tx, rx, busy, left, txeie, tcie, dmat, stream, dr, sh, tc, due, rxVars, saw,
                 irqVars>>

(***************************************************************************)
(* The interrupts                                                          *)
(***************************************************************************)
Pending ==
  \/ txeie /\ dr = << >>
  \/ tcie /\ tc
  \/ rx = "it" /\ (rdr # << >> \/ ore)
  \/ rx = "dma" /\ idle

\* A slip in IrqTx: after the last byte TC is not enabled.
IrqTxNoTc ==
  /\ irq = "out" /\ Pending
  /\ LET feed == txeie /\ dr = << >> /\ left # << >>
     IN /\ dr' = IF feed THEN <<Head(left)>> ELSE dr
        /\ left' = IF feed THEN Tail(left) ELSE left
        /\ txeie' = (txeie /\ Len(left) > 1)
        /\ tc' = (tc /\ ~feed)
  /\ irq' = "rx"
  /\ UNCHANGED <<tx, rx, busy, tcie, dmat, stream, sh, due, gaveUp, rxVars, mainVars, saw, pos>>

\* usart_irq up to its reception part: the next byte, or with none left the enable of
\* TC; then the end of a transfer.
IrqTx ==
  /\ irq = "out" /\ Pending
  /\ LET empty == txeie /\ dr = << >>
         feed  == empty /\ left # << >>
         last  == empty /\ Len(left) <= 1
         done  == (tcie \/ last) /\ tc /\ ~feed
     IN /\ dr' = IF feed THEN <<Head(left)>> ELSE dr
        /\ left' = IF feed THEN Tail(left) ELSE left
        /\ txeie' = (txeie /\ ~last)
        /\ tcie' = ((tcie \/ last) /\ ~done)
        /\ tc' = (tc /\ ~feed /\ ~done)
        /\ dmat' = (dmat /\ ~done)
        /\ busy' = (busy /\ ~done)
  /\ irq' = "rx"
  /\ UNCHANGED <<tx, rx, stream, sh, due, gaveUp, rxVars, mainVars, saw, pos>>

\* RXNE is looked at, and then DR is read: ORE goes with it if it was seen set.
IrqSee ==
  /\ irq = "rx"
  /\ irq' = IF rx = "it" /\ rdr # << >> THEN "take" ELSE "ore"
  /\ saw' = (irq' = "take" /\ ore)
  /\ UNCHANGED <<tx, rx, txVars, rxVars, mainVars, pos>>

\* A slip in IrqTake: the ring is not looked at.
IrqTakeUnchecked ==
  /\ irq = "take"
  /\ rdr' = << >> /\ ore' = (ore /\ ~saw)
  /\ buf' = [buf EXCEPT ![head] = rdr[1]] /\ head' = Succ(head)
  /\ irq' = "ore" /\ saw' = FALSE
  /\ UNCHANGED <<tx, rx, txVars, receiving, idle, tail, at, owed, over, mainVars, pos>>

\* usart_rx_deliver: a full ring drops the byte.
IrqTake ==
  /\ irq = "take"
  /\ rdr' = << >> /\ ore' = (ore /\ ~saw)
  /\ IF Succ(head) = tail
     THEN owed' = SubSeq(owed, 1, Len(owed) - 1) /\ UNCHANGED <<buf, head>>
     ELSE /\ buf' = [buf EXCEPT ![head] = rdr[1]] /\ head' = Succ(head)
          /\ UNCHANGED owed
  /\ irq' = "ore" /\ saw' = FALSE
  /\ UNCHANGED <<tx, rx, txVars, receiving, idle, tail, at, over, mainVars, pos>>

\* __HAL_UART_CLEAR_OREFLAG reads DR: a byte that came in the meantime goes with it.
ClearOre ==
  /\ rdr' = << >> /\ ore' = FALSE
  /\ owed' = IF rdr = << >> THEN owed ELSE SubSeq(owed, 1, Len(owed) - 1)

IrqOre ==
  /\ irq = "ore"
  /\ IF rx # "poll" /\ ore THEN ClearOre ELSE UNCHANGED <<rdr, ore, owed>>
  /\ irq' = "idle"
  /\ UNCHANGED <<tx, rx, txVars, receiving, idle, buf, head, tail, at, over, mainVars, saw, pos>>

IrqIdle ==
  /\ irq = "idle"
  /\ IF rx = "dma" /\ idle THEN irq' = "pos" /\ idle' = FALSE
                           ELSE irq' = "out" /\ UNCHANGED idle
  /\ UNCHANGED <<tx, rx, txVars, rdr, ore, receiving, buf, head, tail, at, owed, over, mainVars,
                 saw, pos>>

\* usart_dma_idle: where the stream is, and then byte by byte up to there, or until the
\* ring is full.  A byte is put where the stream wrote it.
IrqPos ==
  /\ irq = "pos"
  /\ pos' = at
  /\ irq' = "copy"
  /\ UNCHANGED <<tx, rx, txVars, rxVars, mainVars, saw>>

\* A slip in IrqCopy: the flag is cleared when the handler is done.
IrqCopyClears ==
  /\ irq = "copy"
  /\ IF head = pos \/ Succ(head) = tail
     THEN irq' = "out" /\ pos' = 0 /\ idle' = FALSE /\ UNCHANGED head
     ELSE head' = Succ(head) /\ UNCHANGED <<idle, irqVars>>
  /\ UNCHANGED <<tx, rx, txVars, rdr, ore, receiving, buf, tail, at, owed, over, mainVars, saw>>

IrqCopy ==
  /\ irq = "copy"
  /\ IF head = pos \/ Succ(head) = tail
     THEN irq' = "out" /\ pos' = 0 /\ UNCHANGED head
     ELSE head' = Succ(head) /\ UNCHANGED irqVars
  /\ UNCHANGED <<tx, rx, txVars, rdr, ore, receiving, idle, buf, tail, at, owed, over, mainVars,
                 saw>>

\* A slip in DmaIrq: the end of the stream is taken for the end of the transfer.
DmaIrqDone ==
  /\ irq = "out" /\ stream \in {"tc", "te"}
  /\ stream' = "off" /\ left' = << >> /\ dmat' = FALSE /\ busy' = FALSE
  /\ due' = SubSeq(due, 1, Len(due) - Len(left))
  /\ gaveUp' = IF stream = "te" THEN due' # << >> ELSE gaveUp
  /\ UNCHANGED <<tx, rx, txeie, tcie, dr, sh, tc, rxVars, mainVars, saw, irqVars>>

\* usart_dma_tx_irq: the stream is done, and TC is waited for; or it failed, and the
\* rest of the write is dropped.
DmaIrq ==
  /\ irq = "out" /\ stream \in {"tc", "te"}
  /\ stream' = "off" /\ left' = << >>
  /\ due' = SubSeq(due, 1, Len(due) - Len(left))
  /\ IF stream = "tc"
     THEN tcie' = TRUE /\ UNCHANGED <<dmat, busy, gaveUp>>
     ELSE /\ dmat' = FALSE /\ busy' = FALSE /\ gaveUp' = (due' # << >>)
          /\ UNCHANGED tcie
  /\ UNCHANGED <<tx, rx, txeie, dr, sh, tc, rxVars, mainVars, saw, irqVars>>

(***************************************************************************)
(* Reception                                                               *)
(***************************************************************************)
\* A byte arrives.  The receive stream stores it at once; otherwise it waits in the
\* data register, or is lost if the one before is still there.
Arrive(b) ==
  /\ receiving' = TRUE
  /\ \/ /\ rx = "dma"
        /\ buf' = [buf EXCEPT ![at] = b] /\ at' = Succ(at)
        /\ over' = (over \/ Len(owed) + 1 > Size - 1)
        /\ owed' = IF over' THEN << >> ELSE Append(owed, b)
        /\ UNCHANGED <<rdr, ore>>
     \/ /\ rx # "dma" /\ rdr = << >>
        /\ rdr' = <<b>> /\ owed' = Append(owed, b)
        /\ UNCHANGED <<ore, buf, at, over>>
     \/ /\ rx # "dma" /\ rdr # << >>
        /\ ore' = TRUE
        /\ UNCHANGED <<rdr, buf, at, over, owed>>
  /\ UNCHANGED <<tx, rx, txVars, idle, head, tail, mainVars, saw, irqVars>>

\* The line is idle after the last byte.
LineIdle ==
  /\ receiving
  /\ receiving' = FALSE /\ idle' = (rx = "dma")
  /\ UNCHANGED <<tx, rx, txVars, rdr, ore, buf, head, tail, at, owed, over, mainVars, saw, irqVars>>

\* usart_read takes a byte from the ring, ...
Read ==
  /\ Main /\ rx # "poll" /\ tail # head
  /\ tail' = Succ(tail)
  /\ owed' = IF over THEN << >> ELSE Tail(owed)
  /\ over' = (over /\ ~(tail' = head /\ head = at))
  /\ UNCHANGED <<tx, rx, txVars, rdr, ore, receiving, idle, buf, head, at, mainVars, saw, irqVars>>

\* ... or from DR, after a look at SR; or it clears an overrun.
PollSee ==
  /\ Main /\ rx = "poll"
  /\ rdr # << >> \/ ore
  /\ pc' = IF rdr # << >> THEN "take" ELSE "clear"
  /\ saw' = ore
  /\ UNCHANGED <<tx, rx, txVars, rxVars, job, irqVars>>

PollTake ==
  /\ pc = "take" /\ irq = "out"
  /\ rdr' = << >> /\ ore' = (ore /\ ~saw)
  /\ owed' = Tail(owed)
  /\ pc' = "idle" /\ saw' = FALSE
  /\ UNCHANGED <<tx, rx, txVars, receiving, idle, buf, head, tail, at, over, job, irqVars>>

PollClear ==
  /\ pc = "clear" /\ irq = "out"
  /\ ClearOre
  /\ pc' = "idle" /\ saw' = FALSE
  /\ UNCHANGED <<tx, rx, txVars, receiving, idle, buf, head, tail, at, over, job, irqVars>>

Hardware == ShiftIn \/ ShiftOut \/ StreamMove
Handlers == IrqTx \/ IrqSee \/ IrqTake \/ IrqOre \/ IrqIdle \/ IrqPos \/ IrqCopy
Waits    == PrintWait \/ WaitTxe \/ WaitTc

Next ==
  \/ Hardware \/ StreamError \/ Handlers \/ DmaIrq
  \/ \E s \in Texts(Sends[<<tx, rx>>]) : WriteIt(s) \/ WriteDma(s) \/ WritePoll(s)
  \/ \E b \in Sends[<<tx, rx>>] : PutChar(b)
  \/ \E b \in Gets[<<tx, rx>>] : Arrive(b)
  \/ Waits \/ WaitTimesOut
  \/ LineIdle \/ Read \/ PollSee \/ PollTake \/ PollClear

Spec == Init /\ [][Next]_vars

\* The shift register shifts, the stream moves, an interrupt is served, and the main
\* loop goes on between two interrupts: bytes take longer to arrive than a handler takes.
FairSpec ==
  Spec /\ WF_vars(Hardware) /\ WF_vars(Handlers) /\ WF_vars(DmaIrq) /\ SF_vars(Waits)

-----------------------------------------------------------------------------
AtMostOne(S) == {<< >>} \cup {<<b>> : b \in S}

\* The types.  The transmit stream is off when nothing is in progress, so that
\* HAL_DMA_Start, which refuses a busy stream, never refuses.
TypeOK ==
  /\ tx \in IO /\ rx \in IO
  /\ {busy, txeie, tcie, dmat, tc, ore, receiving, idle, saw, gaveUp, over} \subseteq BOOLEAN
  /\ stream \in {"off", "on", "tc", "te"} /\ (~busy => stream = "off")
  /\ {dr, sh, rdr} \subseteq AtMostOne(Byte)
  /\ {left, job} \subseteq Texts(Byte) \cup {<< >>}
  /\ buf \in [Slot -> Byte] /\ {head, tail, at, pos} \subseteq Slot
  /\ pc \in {"idle", "busy", "txe", "tc", "take", "clear"}
  /\ irq \in {"out", "rx", "take", "ore", "idle", "pos", "copy"}
  /\ due \in Seq(Byte) /\ owed \in Seq(Byte)

\* Every byte accepted is sent once and in order, printed ones among the written ones:
\* the registers and what is left to hand over are what is due.
Stream == sh \o dr \o left = due

\* When tx_busy is clear and no call waits, the line is quiet: the last bit of what was
\* accepted is out, unless a wait timed out or the stream failed.
SentWhenFree == (pc = "idle" /\ ~busy /\ ~gaveUp) => (sh = << >> /\ dr = << >>)

Slots(i, j) == [k \in 1 .. (j + Size - i) % Size |-> buf[(i + k - 1) % Size]]

\* A reader gets the bytes in the order they arrived, and all of them except those the
\* driver drops when the ring is full or a byte overruns: the ring, and after it what
\* the handler has not passed on yet, are what is owed.  With DMA reception this holds
\* as long as the reader is less than a ring behind.
Received ==
  ~over => Slots(tail, head) \o (IF rx = "dma" THEN Slots(head, at) ELSE rdr) = owed

\* No byte stays behind in the stream's buffer: when the line is idle and the handler
\* has run, the ring has them all.
Drained ==
  (rx = "dma" /\ ~over /\ irq = "out" /\ ~receiving /\ ~idle) => head = at

\* A transfer ends, and a printf that waits for it goes on.
Completes == (busy ~> ~busy) /\ (pc = "busy" ~> pc # "busy")
=============================================================================
