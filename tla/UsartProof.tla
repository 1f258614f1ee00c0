------------------------------ MODULE UsartProof ------------------------------
(***************************************************************************)
(* What Usart's run checks on a ring of three slots, proved for every size *)
(* of ring, every set of bytes, writes of every length, and every pair of  *)
(* modes.                                                                  *)
(***************************************************************************)
EXTENDS Usart, SequenceTheorems, TLAPS

-----------------------------------------------------------------------------
(* The sequences of the transmitter.                                       *)

\* A register holds no byte or one.
LEMMA OneByte ==
  ASSUME NEW S, NEW s \in AtMostOne(S)
  PROVE  /\ s \in Seq(S)
         /\ s # << >> => s[1] \in S /\ Head(s) = s[1] /\ s = <<s[1]>> /\ Len(s) = 1
<1>1. CASE s = << >>
  BY <1>1, EmptySeq
<1>2. ASSUME NEW b \in S, s = <<b>>
      PROVE  s \in Seq(S) /\ s[1] \in S /\ Head(s) = s[1] /\ s = <<s[1]>> /\ Len(s) = 1
  BY <1>2
<1> QED BY <1>1, <1>2 DEF AtMostOne

\* Taking back the byte put in front.
LEMMA TailOfCons ==
  ASSUME NEW S, NEW b \in S, NEW s \in Seq(S)
  PROVE  Tail(<<b>> \o s) = s
<1>1. <<b>> \in Seq(S) /\ Len(<<b>>) = 1
  OBVIOUS
<1>2. /\ <<b>> \o s \in Seq(S) /\ Len(<<b>> \o s) = 1 + Len(s) /\ Len(s) \in Nat
      /\ \A i \in 1 .. 1 + Len(s) : (<<b>> \o s)[i] = IF i <= 1 THEN <<b>>[i] ELSE s[i - 1]
  BY <1>1, ConcatProperties, LenProperties
<1> DEFINE t == <<b>> \o s
<1>3. t # << >>
  BY <1>2, EmptySeq
<1>4. /\ Tail(t) \in Seq(S) /\ Len(Tail(t)) = Len(s)
      /\ \A i \in 1 .. Len(s) : Tail(t)[i] = t[i + 1]
  BY <1>2, <1>3, HeadTailProperties
<1>5. \A i \in 1 .. Len(s) : Tail(t)[i] = s[i]
  BY <1>2, <1>4
<1> HIDE DEF t
<1>6. Tail(t) = s
  BY <1>4, <1>5, SeqEqual
<1> QED BY <1>6 DEF t

\* A text is a sequence, not longer than a write may be.
LEMMA TextIsSeq ==
  \A s : s \in Texts(Byte) \cup {<< >>} <=> s \in Seq(Byte) /\ Len(s) <= MaxLen
<1> USE SizeAssumption
<1>1. ASSUME NEW s \in Texts(Byte) PROVE s \in Seq(Byte) /\ Len(s) <= MaxLen
  BY <1>1 DEF Texts
<1>2. << >> \in Seq(Byte) /\ Len(<< >>) <= MaxLen
  BY SMTT(30), EmptySeq
<1>3. ASSUME NEW s \in Seq(Byte), Len(s) <= MaxLen, s # << >>
      PROVE  s \in Texts(Byte)
  <2>1. Len(s) \in 1 .. MaxLen /\ s \in [1 .. Len(s) -> Byte]
    BY <1>3, EmptySeq, LenProperties
  <2> QED BY <2>1 DEF Texts
<1> QED BY <1>1, <1>2, <1>3

\* What is left of a text after its first byte.
LEMMA TextRest ==
  ASSUME NEW s \in Texts(Byte) \cup {<< >>}, s # << >>
  PROVE  /\ <<Head(s)>> \in AtMostOne(Byte) /\ Head(s) \in Byte
         /\ Tail(s) \in Texts(Byte) \cup {<< >>} /\ Tail(s) \in Seq(Byte)
         /\ s = <<Head(s)>> \o Tail(s)
         /\ Len(s) \in Nat /\ (Len(s) <= 1 => Tail(s) = << >>)
<1>1. s \in Seq(Byte) /\ Len(s) <= MaxLen
  BY TextIsSeq
<1>2. /\ Head(s) \in Byte /\ Tail(s) \in Seq(Byte)
      /\ Len(Tail(s)) = Len(s) - 1 /\ Len(s) \in Nat
  BY <1>1, HeadTailProperties, LenProperties
<1>3. Tail(s) \in Texts(Byte) \cup {<< >>}
  <2>1. Len(Tail(s)) <= MaxLen
    BY <1>1, <1>2, SizeAssumption
  <2> QED BY <2>1, <1>2, TextIsSeq
<1>4. Len(s) <= 1 => Tail(s) = << >>
  BY <1>2, EmptySeq
<1>5. s = <<Head(s)>> \o Tail(s)
  <2>1. Len(s) \in Nat \ {0}
    BY <1>1, EmptySeq
  <2>2. /\ Head(s) = Head(SubSeq(s, 1, Len(s))) /\ Tail(s) = Tail(SubSeq(s, 1, Len(s)))
        /\ SubSeq(s, 1, Len(s)) = s
    BY <1>1, SubSeqFull
  <2>3. 1 \in 1 .. Len(s) /\ Len(s) \in 1 .. Len(s)
    BY <2>1
  <2>4. /\ Head(s) = s[1] /\ Tail(s) = SubSeq(s, 2, Len(s))
    BY <2>1, <1>1, TailIsSubSeq
  <2>5. s = <<s[1]>> \o SubSeq(s, 1 + 1, Len(s))
    BY <2>2, <2>3, <1>1, SubSeqRecursiveFirst
  <2> QED BY <2>4, <2>5
<1>6. <<Head(s)>> \in AtMostOne(Byte)
  BY <1>2 DEF AtMostOne
<1> QED BY <1>2, <1>3, <1>4, <1>5, <1>6

-----------------------------------------------------------------------------
(* The transmitter.  TC says that both registers are empty; the transmit   *)
(* stream runs only while there is a byte to move, and TC is clear then;   *)
(* with tx_busy clear nothing is left to hand over and no interrupt of the *)
(* transmitter is enabled; and TC is waited for only when all bytes are    *)
(* handed over.                                                            *)
TxType ==
  /\ tx \in IO /\ rx \in IO /\ <<tx, rx>> \in Modes
  /\ busy \in BOOLEAN /\ txeie \in BOOLEAN /\ tcie \in BOOLEAN /\ dmat \in BOOLEAN
  /\ tc \in BOOLEAN /\ gaveUp \in BOOLEAN
  /\ stream \in {"off", "on", "tc", "te"}
  /\ dr \in AtMostOne(Byte) /\ sh \in AtMostOne(Byte)
  /\ left \in Texts(Byte) \cup {<< >>} /\ job \in Texts(Byte) \cup {<< >>}
  /\ pc \in {"idle", "busy", "txe", "tc", "take", "clear"}
  /\ due \in Seq(Byte)

TxLine ==
  /\ tc => sh = << >> /\ dr = << >>
  /\ stream = "on" => ~tc /\ left # << >>
  /\ stream # "off" => tx = "dma"
  /\ txeie => tx = "it"
  /\ tcie => left = << >> /\ stream = "off" /\ ~txeie

TxFree ==
  /\ ~busy => left = << >> /\ ~txeie /\ ~tcie /\ stream = "off"
  /\ pc \in {"txe", "tc"} => ~busy
  /\ pc \in {"busy", "txe"} => job # << >>
  /\ (pc \in {"idle", "take", "clear"} /\ ~busy /\ ~gaveUp) => sh = << >> /\ dr = << >>

TxInv == TxType /\ TxLine /\ TxFree /\ Stream

\* The sequences a step of the transmitter handles.
LEMMA TxSeqs ==
  TxType => /\ dr \in Seq(Byte) /\ sh \in Seq(Byte) /\ left \in Seq(Byte) /\ job \in Seq(Byte)
            /\ due \in Seq(Byte)
BY OneByte, TextIsSeq DEF TxType

\* A step that leaves the transmitter alone, and is not a step of a call that sends.
LEMMA TxKept ==
  ASSUME TxInv, UNCHANGED <<tx, rx, txVars, job>>,
         pc' = pc \/ (pc \in {"idle", "take", "clear"} /\ pc' \in {"idle", "take", "clear"})
  PROVE  TxInv'
BY DEF TxInv, TxType, TxLine, TxFree, Stream, txVars

LEMMA ShiftInTx == TxInv /\ ShiftIn => TxInv'
<1> SUFFICES ASSUME TxInv, ShiftIn PROVE TxInv'
  OBVIOUS
<1> USE DEF TxInv, ShiftIn, mainVars
<1>1. TxType'
  BY DEF TxType, AtMostOne
<1>2. TxLine' /\ TxFree'
  BY DEF TxLine, TxFree, TxType
<1>3. Stream'
  <2>1. << >> \o dr = dr /\ dr \o << >> = dr
    BY TxSeqs, ConcatEmptySeq
  <2> QED BY <2>1 DEF Stream
<1> QED BY <1>1, <1>2, <1>3

LEMMA ShiftOutTx == TxInv /\ ShiftOut => TxInv'
<1> SUFFICES ASSUME TxInv, ShiftOut PROVE TxInv'
  OBVIOUS
<1> USE DEF TxInv, ShiftOut, mainVars
<1>1. due = sh \o dr \o left /\ Tail(due) = dr \o left /\ Tail(due) \in Seq(Byte)
  <2>1. PICK b \in Byte : sh = <<b>>
    BY DEF TxType, AtMostOne
  <2>2. dr \o left \in Seq(Byte)
    BY TxSeqs, ConcatProperties
  <2>3. due = <<b>> \o (dr \o left)
    <3>0. sh \in Seq(Byte) /\ dr \in Seq(Byte) /\ left \in Seq(Byte)
      BY TxSeqs
    <3>1. (sh \o dr) \o left = sh \o (dr \o left)
      BY <3>0, ConcatAssociative
    <3> QED BY <2>1, <3>1 DEF Stream
  <2>4. Tail(due) = dr \o left
    <3>1. Tail(<<b>> \o (dr \o left)) = dr \o left
      BY <2>2, TailOfCons
    <3> QED BY <3>1, <2>3
  <2> QED BY <2>2, <2>4 DEF Stream
<1>2. TxType'
  BY <1>1 DEF TxType, AtMostOne
<1>3. TxLine' /\ TxFree'
  BY DEF TxLine, TxFree, TxType
<1>4. Stream'
  <2>1. dr \o << >> = dr
    BY TxSeqs, ConcatEmptySeq
  <2> QED BY <2>1, <1>1 DEF Stream
<1> QED BY <1>2, <1>3, <1>4

LEMMA StreamMoveTx == TxInv /\ StreamMove => TxInv'
<1> SUFFICES ASSUME TxInv, StreamMove PROVE TxInv'
  OBVIOUS
<1> USE DEF TxInv, StreamMove, mainVars
<1>1. /\ <<Head(left)>> \in AtMostOne(Byte) /\ Tail(left) \in Texts(Byte) \cup {<< >>}
      /\ left = <<Head(left)>> \o Tail(left) /\ Head(left) \in Byte
      /\ Tail(left) \in Seq(Byte)
  BY TextRest DEF TxType, TxLine
<1>2. TxType'
  BY <1>1 DEF TxType
<1>3. TxLine' /\ TxFree'
  BY DEF TxLine, TxFree, TxType
<1>4. Stream'
  <2>0. <<Head(left)>> \in Seq(Byte) /\ sh \in Seq(Byte)
    BY <1>1, TxSeqs
  <2>1. (sh \o <<Head(left)>>) \o Tail(left) = sh \o (<<Head(left)>> \o Tail(left))
    BY <1>1, <2>0, ConcatAssociative
  <2>2. sh \o dr = sh
    BY TxSeqs, ConcatEmptySeq
  <2> QED BY <1>1, <2>1, <2>2 DEF Stream
<1> QED BY <1>2, <1>3, <1>4

LEMMA StreamErrorTx == TxInv /\ StreamError => TxInv'
BY DEF TxInv, StreamError, mainVars, TxType, TxLine, TxFree, Stream

\* What a program sends is text.
LEMMA SendsText ==
  ASSUME TxType
  PROVE  /\ Sends[<<tx, rx>>] \subseteq Byte
         /\ \A s \in Texts(Sends[<<tx, rx>>]) : s \in Texts(Byte) /\ s \in Seq(Byte) /\ s # << >>
         /\ \A b \in Sends[<<tx, rx>>] : <<b>> \in Texts(Byte) /\ <<b>> # << >>
<1>1. Sends[<<tx, rx>>] \subseteq Byte
  BY ModeAssumption DEF TxType
<1>2. ASSUME NEW s \in Texts(Sends[<<tx, rx>>])
      PROVE  s \in Texts(Byte) /\ s \in Seq(Byte) /\ s # << >>
  <2>1. PICK n \in 1 .. MaxLen : s \in [1 .. n -> Sends[<<tx, rx>>]]
    BY DEF Texts
  <2>2. s \in [1 .. n -> Byte]
    BY <1>1, <2>1
  <2>3. s \in Texts(Byte)
    BY <2>2 DEF Texts
  <2>4. s # << >>
    <3>1. DOMAIN s = 1 .. n /\ 1 \in 1 .. n
      BY <2>1, SizeAssumption
    <3>2. DOMAIN << >> = 1 .. 0
      OBVIOUS
    <3> QED BY <3>1, <3>2
  <2> QED BY <2>3, <2>4, TextIsSeq
<1>3. ASSUME NEW b \in Sends[<<tx, rx>>]
      PROVE  <<b>> \in Texts(Byte) /\ <<b>> # << >>
  <2>1. <<b>> \in Seq(Byte) /\ Len(<<b>>) = 1 /\ <<b>> # << >>
    BY <1>1
  <2>2. 1 <= MaxLen
    BY SizeAssumption
  <2> QED BY <2>1, <2>2, TextIsSeq
<1> QED BY <1>1, <1>2, <1>3

\* A write that is accepted finds nothing of an earlier one still to hand over.
LEMMA WriteTx ==
  ASSUME NEW s \in Texts(Sends[<<tx, rx>>]), TxInv, WriteIt(s) \/ WriteDma(s)
  PROVE  TxInv'
<1> USE DEF TxInv, WriteIt, WriteDma, Main, mainVars
<1>1. s \in Texts(Byte) /\ s \in Seq(Byte) /\ s # << >>
  BY SendsText
<1>2. TxType'
  <2>1. due' \in Seq(Byte)
    BY <1>1, TxSeqs, ConcatProperties
  <2> QED BY <2>1, <1>1 DEF TxType
<1>3. TxLine' /\ TxFree'
  BY <1>1 DEF TxLine, TxFree, TxType
<1>4. Stream'
  <2>1. left = << >>
    BY DEF TxFree
  <2>2. (sh \o dr) \o << >> = sh \o dr
    BY TxSeqs, ConcatProperties, ConcatEmptySeq
  <2>3. due = sh \o dr
    BY <2>1, <2>2 DEF Stream
  <2> QED BY <2>3 DEF Stream
<1> QED BY <1>2, <1>3, <1>4

\* A call that sends byte by byte, up to its first byte.
LEMMA CallTx ==
  ASSUME TxInv,
         \/ \E s \in Texts(Sends[<<tx, rx>>]) : WritePoll(s)
         \/ \E b \in Sends[<<tx, rx>>] : PutChar(b)
         \/ PrintWait
  PROVE  TxInv'
<1>1. ASSUME NEW s \in Texts(Sends[<<tx, rx>>]), WritePoll(s) PROVE TxInv'
  <2>1. s \in Texts(Byte) /\ s # << >>
    BY SendsText DEF TxInv
  <2> QED BY <1>1, <2>1 DEF WritePoll, Main, TxInv, TxType, TxLine, TxFree, Stream, txVars
<1>2. ASSUME NEW b \in Sends[<<tx, rx>>], PutChar(b) PROVE TxInv'
  <2>1. <<b>> \in Texts(Byte) /\ <<b>> # << >>
    BY SendsText DEF TxInv
  <2> QED BY <1>2, <2>1 DEF PutChar, Main, TxInv, TxType, TxLine, TxFree, Stream, txVars
<1>3. CASE PrintWait
  BY <1>3 DEF PrintWait, TxInv, TxType, TxLine, TxFree, Stream, txVars
<1> QED BY <1>1, <1>2, <1>3

\* A call that sends byte by byte hands the next byte over.
LEMMA WaitTxeTx == TxInv /\ WaitTxe => TxInv'
<1> SUFFICES ASSUME TxInv, WaitTxe PROVE TxInv'
  OBVIOUS
<1> USE DEF TxInv, WaitTxe
<1>1. /\ <<Head(job)>> \in AtMostOne(Byte) /\ Head(job) \in Byte
      /\ Tail(job) \in Texts(Byte) \cup {<< >>}
  BY TextRest DEF TxType, TxFree
<1>2. left = << >> /\ ~busy /\ ~txeie /\ ~tcie /\ stream = "off"
  BY DEF TxFree
<1>3. TxType'
  <2>1. Append(due, Head(job)) \in Seq(Byte)
    BY <1>1, TxSeqs, AppendProperties
  <2> QED BY <1>1, <2>1 DEF TxType
<1>4. TxLine' /\ TxFree'
  BY <1>2 DEF TxLine, TxFree, TxType
<1>5. Stream'
  <2>0. sh \in Seq(Byte) /\ dr \in Seq(Byte) /\ <<Head(job)>> \in Seq(Byte)
    BY <1>1, TxSeqs
  <2>1. sh \o << >> = sh /\ (sh \o << >>) \o << >> = sh
    BY <2>0, ConcatEmptySeq
  <2>2. Append(sh, Head(job)) = sh \o <<Head(job)>> /\ sh \o <<Head(job)>> \in Seq(Byte)
    BY <1>1, <2>0, AppendIsConcat, ConcatProperties
  <2>3. (sh \o <<Head(job)>>) \o << >> = sh \o <<Head(job)>>
    BY <2>2, ConcatEmptySeq
  <2> QED BY <1>2, <2>1, <2>2, <2>3 DEF Stream
<1> QED BY <1>3, <1>4, <1>5

\* It ends with both registers empty, or gives up.
LEMMA WaitEndsTx == TxInv /\ (WaitTc \/ WaitTimesOut) => TxInv'
<1>1. ASSUME TxInv, WaitTc PROVE TxInv'
  <2>1. TxType'
    BY <1>1 DEF TxInv, WaitTc, TxType
  <2>2. TxLine' /\ TxFree'
    BY <1>1 DEF TxInv, WaitTc, TxType, TxLine, TxFree
  <2> QED BY <1>1, <2>1, <2>2 DEF TxInv, WaitTc, Stream
<1>2. ASSUME TxInv, WaitTimesOut PROVE TxInv'
  <2>1. TxType'
    BY <1>2 DEF TxInv, WaitTimesOut, TxType
  <2>2. TxLine'
    BY <1>2 DEF TxInv, WaitTimesOut, TxLine
  <2>3. TxFree'
    <3>1. gaveUp' /\ pc' = "idle"
      BY <1>2 DEF WaitTimesOut
    <3> QED BY <1>2, <3>1 DEF TxInv, WaitTimesOut, TxFree
  <2> QED BY <1>2, <2>1, <2>2, <2>3 DEF TxInv, WaitTimesOut, Stream
<1> QED BY <1>1, <1>2

\* The interrupt hands over one byte, or ends the transfer when none is left and TC is
\* set.
LEMMA IrqTxTx == TxInv /\ IrqTx => TxInv'
<1> SUFFICES ASSUME TxInv, IrqTx PROVE TxInv'
  OBVIOUS
<1> DEFINE empty == txeie /\ dr = << >>
           feed  == empty /\ left # << >>
           last  == empty /\ Len(left) <= 1
           done  == (tcie \/ last) /\ tc /\ ~feed
<1>1. /\ dr' = IF feed THEN <<Head(left)>> ELSE dr
      /\ left' = IF feed THEN Tail(left) ELSE left
      /\ txeie' = (txeie /\ ~last)
      /\ tcie' = ((tcie \/ last) /\ ~done)
      /\ tc' = (tc /\ ~feed /\ ~done)
      /\ dmat' = (dmat /\ ~done)
      /\ busy' = (busy /\ ~done)
      /\ UNCHANGED <<tx, rx, stream, sh, due, gaveUp, pc, job>>
  BY DEF IrqTx, mainVars
<1>2. CASE feed
  <2>1. /\ <<Head(left)>> \in AtMostOne(Byte) /\ Tail(left) \in Texts(Byte) \cup {<< >>}
        /\ left = <<Head(left)>> \o Tail(left) /\ Head(left) \in Byte
        /\ Tail(left) \in Seq(Byte) /\ (Len(left) <= 1 => Tail(left) = << >>)
    BY <1>2, TextRest DEF TxInv, TxType
  <2>2. /\ dr = << >> /\ dr' = <<Head(left)>> /\ left' = Tail(left) /\ ~tc' /\ ~tcie
        /\ txeie' = ~last /\ tcie' = last /\ dmat' = dmat /\ busy' = busy /\ busy
        /\ tx = "it" /\ stream = "off"
    BY <1>1, <1>2 DEF TxInv, TxType, TxLine, TxFree
  <2>3. last => left' = << >>
    BY <2>1, <2>2
  <2> HIDE DEF feed, last, done
  <2>4. TxType'
    BY <1>1, <2>1, <2>2 DEF TxInv, TxType
  <2>5. TxLine'
    BY <1>1, <2>2, <2>3 DEF TxInv, TxType, TxLine
  <2>11. TxFree'
    <3>1. pc' = pc /\ job' = job
      BY <1>1
    <3>2. busy'
      BY <2>2, Zenon
    <3> QED BY <2>2, <3>1, <3>2 DEF TxInv, TxFree
  <2>6. Stream'
    <3>0. <<Head(left)>> \in Seq(Byte) /\ sh \in Seq(Byte)
      BY <2>1, TxSeqs DEF TxInv
    <3>1. (sh \o <<Head(left)>>) \o Tail(left) = sh \o (<<Head(left)>> \o Tail(left))
      BY <2>1, <3>0, ConcatAssociative
    <3>2. sh \o << >> = sh
      BY <3>0, ConcatEmptySeq
    <3> QED BY <1>1, <2>1, <2>2, <3>1, <3>2 DEF TxInv, Stream
  <2> QED BY <2>4, <2>5, <2>6, <2>11 DEF TxInv
<1>3. CASE ~feed
  <2>1. dr' = dr /\ left' = left
    BY <1>1, <1>3
  <2>2. last => left = << >>
    BY <1>3
  <2>3. (last \/ tcie) => left = << >> /\ stream = "off"
    BY <2>2 DEF TxInv, TxType, TxLine
  <2>4. last => txeie
    OBVIOUS
  <2>5. done => (last \/ tcie) /\ tc
    OBVIOUS
  <2>6. /\ txeie' = (txeie /\ ~last) /\ tcie' = ((tcie \/ last) /\ ~done)
        /\ tc' = (tc /\ ~done) /\ busy' = (busy /\ ~done) /\ dmat' = (dmat /\ ~done)
    BY <1>1, <1>3
  <2> HIDE DEF feed, last, done
  <2>7. TxType'
    BY <1>1, <2>1, <2>6 DEF TxInv, TxType
  <2>8. TxLine'
    BY <1>1, <2>1, <2>3, <2>6 DEF TxInv, TxType, TxLine
  <2>9. TxFree'
    BY <1>1, <2>1, <2>3, <2>4, <2>5, <2>6 DEF TxInv, TxType, TxLine, TxFree
  <2>10. Stream'
    BY <1>1, <2>1 DEF TxInv, Stream
  <2> QED BY <2>7, <2>8, <2>9, <2>10 DEF TxInv
<1> QED BY <1>2, <1>3

\* The end of the stream, good or bad: what is due then is what the registers hold.
LEMMA DmaIrqTx == TxInv /\ DmaIrq => TxInv'
<1> SUFFICES ASSUME TxInv, DmaIrq PROVE TxInv'
  OBVIOUS
<1> USE DEF TxInv, DmaIrq, mainVars
<1>0. sh \in Seq(Byte) /\ dr \in Seq(Byte) /\ left \in Seq(Byte) /\ due \in Seq(Byte)
  BY TxSeqs
<1>1. due' = sh \o dr /\ sh \o dr \in Seq(Byte)
  <2> DEFINE s == sh \o dr
  <2>1. s \in Seq(Byte)
    BY <1>0, ConcatProperties
  <2>2. due = s \o left
    BY DEF Stream
  <2> HIDE DEF s
  <2>3. /\ Len(due) = Len(s) + Len(left) /\ Len(s) \in Nat /\ Len(left) \in Nat
        /\ \A i \in 1 .. Len(s) + Len(left) : due[i] = IF i <= Len(s) THEN s[i] ELSE left[i - Len(s)]
    BY <1>0, <2>1, <2>2, ConcatProperties, LenProperties
  <2>4. Len(due) - Len(left) = Len(s)
    BY <2>3
  <2>5. due' = SubSeq(due, 1, Len(s))
    BY <2>4
  <2>6. \A i \in 1 .. Len(s) : due[i] = s[i] /\ due[i] \in Byte
    BY <2>1, <2>3, ElementOfSeq
  <2>7. /\ SubSeq(due, 1, Len(s)) \in Seq(Byte)
        /\ Len(SubSeq(due, 1, Len(s))) = IF 1 <= Len(s) THEN Len(s) - 1 + 1 ELSE 0
        /\ \A i \in 1 .. Len(s) - 1 + 1 : SubSeq(due, 1, Len(s))[i] = due[1 + i - 1]
    BY <2>3, <2>6, SubSeqProperties
  <2>8. due' \in Seq(Byte) /\ Len(due') = Len(s) /\ \A i \in 1 .. Len(s) : due'[i] = s[i]
    BY <2>3, <2>5, <2>6, <2>7
  <2>9. due' = s
    BY <2>1, <2>8, SeqEqual
  <2> QED BY <2>1, <2>9 DEF s
<1>2. due' = << >> => sh = << >> /\ dr = << >>
  <2>1. sh \o dr = << >> <=> sh = << >> /\ dr = << >>
    BY <1>0, ConcatEqualIffEmpty
  <2> QED BY <1>1, <2>1
<1>3. left' = << >> /\ stream' = "off" /\ ~txeie /\ ~tcie /\ busy
  <2>1. left' = << >> /\ stream' = "off" /\ stream # "off"
    OBVIOUS
  <2>2. tx = "dma" /\ ~tcie /\ busy
    BY <2>1 DEF TxLine, TxFree
  <2>3. ~txeie
    BY <2>2 DEF TxLine
  <2> QED BY <2>1, <2>2, <2>3
<1>4. CASE stream = "tc"
  <2>1. tcie' = TRUE /\ UNCHANGED <<tx, rx, txeie, dmat, busy, gaveUp, sh, dr, tc, pc, job>>
    BY <1>4
  <2>2. TxType' /\ TxLine' /\ TxFree'
    BY <1>1, <1>3, <2>1 DEF TxType, TxLine, TxFree
  <2>3. (sh \o dr) \o << >> = sh \o dr
    BY <1>1, ConcatEmptySeq
  <2> QED BY <2>1, <2>2, <2>3, <1>1, <1>3 DEF Stream
<1>5. CASE stream # "tc"
  <2>1. /\ dmat' = FALSE /\ busy' = FALSE /\ gaveUp' = (due' # << >>)
        /\ UNCHANGED <<tx, rx, txeie, tcie, sh, dr, tc, pc, job>>
    BY <1>5
  <2>2. ~busy' /\ (~gaveUp' => sh' = << >> /\ dr' = << >>)
    BY <1>2, <2>1
  <2>4. TxType'
    BY <1>1, <1>3, <2>1 DEF TxType
  <2>5. TxLine' /\ TxFree'
    BY <1>3, <2>1, <2>2 DEF TxType, TxLine, TxFree
  <2>3. (sh \o dr) \o << >> = sh \o dr
    BY <1>1, ConcatEmptySeq
  <2> QED BY <2>1, <2>3, <2>4, <2>5, <1>1, <1>3 DEF Stream
<1> QED BY <1>4, <1>5

-----------------------------------------------------------------------------
(* The arithmetic of the ring.                                             *)

\* How far it is from slot i up and around to slot j, and the k-th slot from i on.
Gap(i, j) == IF j >= i THEN j - i ELSE j + Size - i
Nth(i, k) == IF i + k - 1 < Size THEN i + k - 1 ELSE i + k - 1 - Size

\* An index sum below twice the size wraps by one subtraction.
LEMMA WrapOnce ==
  ASSUME NEW n \in Nat, n < 2 * Size
  PROVE  n % Size = IF n < Size THEN n ELSE n - Size
<1> USE SizeAssumption
<1>1. CASE n < Size
  BY <1>1
<1>2. CASE n >= Size
  BY <1>2
<1> QED BY <1>1, <1>2

LEMMA SuccValue ==
  ASSUME NEW i \in Slot
  PROVE  /\ Succ(i) = IF i = Size - 1 THEN 0 ELSE i + 1
         /\ Succ(i) \in Slot
BY WrapOnce, SizeAssumption DEF Succ, Slot

\* Distances are below the size, and zero only from a slot to itself.
LEMMA GapRange ==
  ASSUME NEW i \in Slot, NEW j \in Slot
  PROVE  Gap(i, j) \in Nat /\ Gap(i, j) < Size /\ (Gap(i, j) = 0 <=> i = j)
BY SizeAssumption DEF Slot, Gap

\* The end of a run moves on, unless it would meet the start.
LEMMA GapGrows ==
  ASSUME NEW i \in Slot, NEW j \in Slot
  PROVE  Gap(i, Succ(j)) = IF Succ(j) = i THEN 0 ELSE Gap(i, j) + 1
<1>1. Succ(j) = IF j = Size - 1 THEN 0 ELSE j + 1
  BY SuccValue
<1> QED BY <1>1, SizeAssumption DEF Slot, Gap

\* It cannot move on only when the run is as long as the ring allows.
LEMMA GapFull ==
  ASSUME NEW i \in Slot, NEW j \in Slot
  PROVE  Succ(j) = i <=> Gap(i, j) = Size - 1
<1>1. Succ(j) = IF j = Size - 1 THEN 0 ELSE j + 1
  BY SuccValue
<1> QED BY <1>1, SizeAssumption DEF Slot, Gap

\* The start of a run moves on.
LEMMA GapShrinks ==
  ASSUME NEW i \in Slot, NEW j \in Slot, i # j
  PROVE  Gap(Succ(i), j) = Gap(i, j) - 1
<1>1. Succ(i) = IF i = Size - 1 THEN 0 ELSE i + 1
  BY SuccValue
<1> QED BY <1>1, SizeAssumption DEF Slot, Gap

\* Two runs in a row that are not longer than the ring are one.
LEMMA GapSum ==
  ASSUME NEW i \in Slot, NEW j \in Slot, NEW k \in Slot, Gap(i, j) + Gap(j, k) < Size
  PROVE  Gap(i, k) = Gap(i, j) + Gap(j, k)
BY SizeAssumption DEF Slot, Gap

\* The slots of a run are slots of the ring and not the one it ends before, which is
\* the next.
LEMMA NthOfRun ==
  ASSUME NEW i \in Slot, NEW j \in Slot
  PROVE  /\ \A k \in 1 .. Gap(i, j) : Nth(i, k) \in Slot /\ Nth(i, k) # j
         /\ Nth(i, Gap(i, j) + 1) = j
BY SizeAssumption DEF Slot, Gap, Nth

LEMMA NthOfNext ==
  ASSUME NEW i \in Slot, NEW k \in 1 .. Size - 1
  PROVE  Nth(Succ(i), k) = Nth(i, k + 1)
<1>1. Succ(i) = IF i = Size - 1 THEN 0 ELSE i + 1
  BY SuccValue
<1> QED BY <1>1, SizeAssumption DEF Slot, Nth

\* The second of two runs in a row.
LEMMA NthOfSecond ==
  ASSUME NEW i \in Slot, NEW j \in Slot, NEW k \in Nat \ {0}, Gap(i, j) + k <= Size
  PROVE  Nth(j, k) = Nth(i, Gap(i, j) + k)
BY SizeAssumption DEF Slot, Gap, Nth

\* A sequence without its last element.
LEMMA DropLast ==
  ASSUME NEW S, NEW s \in Seq(S), s # << >>
  PROVE  /\ SubSeq(s, 1, Len(s) - 1) \in Seq(S)
         /\ Len(SubSeq(s, 1, Len(s) - 1)) = Len(s) - 1
         /\ \A k \in 1 .. Len(s) - 1 : SubSeq(s, 1, Len(s) - 1)[k] = s[k]
<1>1. Len(s) \in Nat \ {0}
  BY EmptySeq
<1>2. \A k \in 1 .. Len(s) - 1 : s[k] \in S
  BY <1>1, ElementOfSeq
<1> DEFINE n == Len(s) - 1
<1>3. n \in Nat
  BY <1>1
<1> HIDE DEF n
<1>4. \A k \in 1 .. n : s[k] \in S
  BY <1>2 DEF n
<1>5. /\ SubSeq(s, 1, n) \in Seq(S)
      /\ Len(SubSeq(s, 1, n)) = IF 1 <= n THEN n - 1 + 1 ELSE 0
      /\ \A k \in 1 .. n - 1 + 1 : SubSeq(s, 1, n)[k] = s[1 + k - 1]
  BY <1>3, <1>4, SubSeqProperties
<1>6. /\ SubSeq(s, 1, n) \in Seq(S) /\ Len(SubSeq(s, 1, n)) = n
      /\ \A k \in 1 .. n : SubSeq(s, 1, n)[k] = s[k]
  BY <1>3, <1>5
<1> QED BY <1>6 DEF n

-----------------------------------------------------------------------------
(* The receiver.  Unless the stream has run into bytes not read yet, the   *)
(* ring's buffer holds what is owed, slot by slot from tail on: up to head *)
(* the bytes of the ring, and with DMA reception from there to the stream  *)
(* those the handler has not passed on.  The handler copies no further     *)
(* than the stream was; and when the line is idle and its flag is clear,   *)
(* the handler has seen all there is.                                      *)
RxType ==
  /\ rx \in IO
  /\ ore \in BOOLEAN /\ receiving \in BOOLEAN /\ idle \in BOOLEAN
  /\ saw \in BOOLEAN /\ over \in BOOLEAN
  /\ rdr \in AtMostOne(Byte)
  /\ buf \in [Slot -> Byte] /\ head \in Slot /\ tail \in Slot /\ at \in Slot /\ pos \in Slot
  /\ irq \in {"out", "rx", "take", "ore", "idle", "pos", "copy"}
  /\ owed \in Seq(Byte)

RxMode ==
  /\ rx = "dma" => rdr = << >> /\ ~ore
  /\ rx # "dma" => ~over /\ ~idle
  /\ rx = "poll" => head = tail
  /\ irq = "take" => rx = "it" /\ rdr # << >>
  /\ irq \in {"pos", "copy"} => rx = "dma"
  /\ pc \in {"take", "clear"} => rx = "poll"
  /\ pc = "take" => rdr # << >>

InRing ==
  /\ Len(owed) = Gap(tail, head) + Len(rdr)
  /\ \A k \in 1 .. Gap(tail, head) : buf[Nth(tail, k)] = owed[k]
  /\ rdr # << >> => owed[Len(owed)] = rdr[1]

InBuffer ==
  /\ Len(owed) = Gap(tail, head) + Gap(head, at) /\ Len(owed) < Size
  /\ \A k \in 1 .. Len(owed) : buf[Nth(tail, k)] = owed[k]

RxHeld == ~over => IF rx = "dma" THEN InBuffer ELSE InRing

RxCopy == (~over /\ irq = "copy") => Gap(head, pos) <= Gap(head, at)

RxQuiet ==
  (rx = "dma" /\ ~over /\ ~receiving /\ ~idle) =>
    /\ irq \in {"out", "rx", "take", "ore", "idle"} => head = at
    /\ irq = "copy" => pos = at

RxInv == RxType /\ RxMode /\ RxHeld /\ RxCopy /\ RxQuiet

\* A step that leaves the receiver alone; the handler may be entered.
LEMMA RxKept ==
  ASSUME RxInv, UNCHANGED <<rx, rxVars, saw, pos>>,
         irq' = irq \/ (irq = "out" /\ irq' = "rx"),
         pc' = pc \/ pc' \notin {"take", "clear"}
  PROVE  RxInv'
<1> USE DEF RxInv, rxVars
<1>1. RxType' /\ RxMode' /\ RxCopy'
  BY DEF RxType, RxMode, RxCopy, Gap
<1>2. RxHeld'
  BY DEF RxHeld, InRing, InBuffer, Gap, Nth
<1>3. RxQuiet'
  BY DEF RxQuiet
<1> QED BY <1>1, <1>2, <1>3

\* What rdr holds, with its length.
LEMMA RdrLength ==
  RxType => /\ rdr = << >> => Len(rdr) = 0
            /\ rdr # << >> => Len(rdr) = 1 /\ rdr[1] \in Byte
            /\ Len(owed) \in Nat
BY OneByte, EmptySeq, LenProperties DEF RxType

\* With interrupts: the byte goes to the ring, or is dropped when the ring is full.
LEMMA IrqTakeRx == RxInv /\ IrqTake => RxInv'
<1> SUFFICES ASSUME RxInv, IrqTake PROVE RxInv'
  OBVIOUS
<1> USE DEF RxInv
<1>1. /\ rx = "it" /\ rdr # << >> /\ ~over /\ Len(rdr) = 1 /\ rdr[1] \in Byte
      /\ InRing /\ Len(owed) \in Nat
  BY RdrLength DEF IrqTake, RxMode, RxHeld
<1>2. /\ rx' = rx /\ rdr' = << >> /\ over' = over /\ tail' = tail /\ at' = at /\ pos' = pos
      /\ irq' = "ore" /\ saw' = FALSE /\ pc' = pc /\ idle' = idle /\ receiving' = receiving
      /\ Len(rdr') = 0
  BY EmptySeq DEF IrqTake, mainVars
<1>3. head \in Slot /\ tail \in Slot /\ owed \in Seq(Byte) /\ Len(owed) = Gap(tail, head) + 1
  BY <1>1 DEF RxType, InRing
<1>4. pc \notin {"take", "clear"} /\ ~idle
  BY <1>1 DEF RxMode
<1>5. Gap(tail, head) \in Nat /\ Gap(tail, head) < Size
  BY <1>3, GapRange
<1>6. CASE Succ(head) = tail
  <2>1. owed' = SubSeq(owed, 1, Len(owed) - 1) /\ buf' = buf /\ head' = head
    BY <1>6 DEF IrqTake
  <2>2. owed # << >>
    BY <1>3, <1>5, EmptySeq
  <2>3. /\ owed' \in Seq(Byte) /\ Len(owed') = Len(owed) - 1
        /\ \A k \in 1 .. Len(owed) - 1 : owed'[k] = owed[k]
    BY <1>3, <2>1, <2>2, DropLast
  <2>4. RxType'
    BY <1>2, <2>1, <2>3 DEF RxType, IrqTake, AtMostOne
  <2>5. InRing'
    <3>1. Gap(tail', head') = Gap(tail, head) /\ Len(owed') = Gap(tail, head)
      BY <1>2, <1>3, <1>5, <2>1, <2>3
    <3>2. \A k \in 1 .. Gap(tail, head) : buf'[Nth(tail', k)] = owed'[k]
      BY <1>1, <1>2, <1>3, <1>5, <2>1, <2>3 DEF InRing, Nth
    <3> QED BY <1>2, <1>5, <3>1, <3>2 DEF InRing
  <2>6. RxMode' /\ RxCopy' /\ RxQuiet'
    BY <1>1, <1>2, <1>4, <2>1 DEF RxMode, RxCopy, RxQuiet
  <2> QED BY <1>1, <1>2, <2>4, <2>5, <2>6 DEF RxHeld
<1>7. CASE Succ(head) # tail
  <2>1. owed' = owed /\ buf' = [buf EXCEPT ![head] = rdr[1]] /\ head' = Succ(head)
    BY <1>7 DEF IrqTake
  <2>2. head' \in Slot /\ Gap(tail, head') = Gap(tail, head) + 1
    BY <1>3, <1>7, <2>1, SuccValue, GapGrows
  <2>3. RxType'
    BY <1>1, <1>2, <2>1, <2>2 DEF RxType, IrqTake, AtMostOne
  <2>4. InRing'
    <3>1. ASSUME NEW k \in 1 .. Gap(tail, head')
          PROVE  buf'[Nth(tail, k)] = owed[k]
      <4>1. CASE k = Gap(tail, head) + 1
        <5>1. Nth(tail, k) = head
          BY <1>3, <4>1, NthOfRun
        <5> QED BY <1>1, <1>3, <2>1, <4>1, <5>1 DEF InRing, RxType
      <4>2. CASE k # Gap(tail, head) + 1
        <5>1. k \in 1 .. Gap(tail, head)
          BY <1>5, <2>2, <4>2
        <5>2. Nth(tail, k) \in Slot /\ Nth(tail, k) # head
          BY <1>3, <5>1, NthOfRun
        <5> QED BY <1>1, <2>1, <5>1, <5>2 DEF InRing, RxType
      <4> QED BY <4>1, <4>2
    <3>2. Gap(tail', head') = Gap(tail, head) + 1 /\ \A k : Nth(tail', k) = Nth(tail, k)
      BY <1>2, <2>2 DEF Nth, Gap
    <3> QED BY <1>2, <1>3, <1>5, <2>1, <2>2, <3>1, <3>2 DEF InRing
  <2>5. RxMode' /\ RxCopy' /\ RxQuiet'
    BY <1>1, <1>2, <1>4 DEF RxMode, RxCopy, RxQuiet
  <2> QED BY <1>1, <1>2, <2>3, <2>4, <2>5 DEF RxHeld
<1> QED BY <1>6, <1>7

\* Clearing an overrun drops the byte that is in the data register.
LEMMA ClearOreHeld ==
  ASSUME RxInv, rx # "dma", ClearOre, UNCHANGED <<rx, buf, head, tail, over>>
  PROVE  owed' \in Seq(Byte) /\ RxHeld'
<1> USE DEF RxInv
<1>1. /\ InRing /\ ~over /\ head \in Slot /\ tail \in Slot /\ owed \in Seq(Byte)
      /\ Len(owed) \in Nat
  BY RdrLength DEF RxType, RxMode, RxHeld
<1>2. Gap(tail, head) \in Nat /\ Gap(tail', head') = Gap(tail, head)
  BY <1>1, GapRange DEF Gap
<1>3. rdr' = << >> /\ Len(rdr') = 0 /\ (\A k : Nth(tail', k) = Nth(tail, k))
  BY EmptySeq DEF ClearOre, Nth
<1>4. CASE rdr = << >>
  <2>1. owed' = owed
    BY <1>4 DEF ClearOre
  <2>2. InRing'
    BY <1>1, <1>2, <1>3, <1>4, <2>1, RdrLength DEF InRing
  <2> QED BY <1>1, <2>1, <2>2 DEF RxHeld
<1>5. CASE rdr # << >>
  <2>1. owed' = SubSeq(owed, 1, Len(owed) - 1)
    BY <1>5 DEF ClearOre
  <2>2. Len(owed) = Gap(tail, head) + 1
    BY <1>1, <1>5, RdrLength DEF InRing
  <2>3. owed # << >>
    BY <1>2, <2>2, EmptySeq
  <2>4. /\ owed' \in Seq(Byte) /\ Len(owed') = Len(owed) - 1
        /\ \A k \in 1 .. Len(owed) - 1 : owed'[k] = owed[k]
    BY <1>1, <2>1, <2>3, DropLast
  <2>5. Len(owed') = Gap(tail', head')
    BY <1>2, <2>2, <2>4
  <2>6. \A k \in 1 .. Gap(tail', head') : buf'[Nth(tail', k)] = owed'[k]
    BY <1>1, <1>2, <1>3, <2>2, <2>4 DEF InRing
  <2>7. InRing'
    BY <1>2, <1>3, <2>5, <2>6 DEF InRing
  <2> QED BY <1>1, <2>4, <2>7 DEF RxHeld
<1> QED BY <1>4, <1>5

\* What stays as it was when the ring and its stream do.
LEMMA HeldKept ==
  ASSUME RxHeld, UNCHANGED <<rx, rdr, buf, head, tail, at, owed, over>>
  PROVE  RxHeld'
BY DEF RxHeld, InRing, InBuffer, Gap, Nth

LEMMA IrqSeeRx == RxInv /\ IrqSee => RxInv'
<1> SUFFICES ASSUME RxInv, IrqSee PROVE RxInv'
  OBVIOUS
<1> USE DEF RxInv, IrqSee, rxVars, mainVars
<1>1. RxType'
  BY DEF RxType
<1>2. RxMode' /\ RxCopy' /\ RxQuiet'
  BY DEF RxType, RxMode, RxCopy, RxQuiet
<1> QED BY <1>1, <1>2, HeldKept

LEMMA IrqOreRx == RxInv /\ IrqOre => RxInv'
<1> SUFFICES ASSUME RxInv, IrqOre PROVE RxInv'
  OBVIOUS
<1> USE DEF RxInv, IrqOre, mainVars
<1>1. CASE rx # "poll" /\ ore
  <2>1. ClearOre /\ rx = "it"
    BY <1>1 DEF RxMode, RxType, IO
  <2>2. owed' \in Seq(Byte) /\ RxHeld'
    BY <2>1, ClearOreHeld
  <2>3. RxType'
    BY <2>1, <2>2 DEF RxType, ClearOre, AtMostOne
  <2>4. RxMode' /\ RxCopy' /\ RxQuiet'
    BY <2>1 DEF RxMode, RxCopy, RxQuiet
  <2> QED BY <2>2, <2>3, <2>4
<1>2. CASE ~(rx # "poll" /\ ore)
  <2>1. UNCHANGED <<rdr, ore, owed>>
    BY <1>2
  <2>2. RxType' /\ RxMode' /\ RxCopy' /\ RxQuiet'
    BY <2>1 DEF RxType, RxMode, RxCopy, RxQuiet
  <2> QED BY <2>1, <2>2, HeldKept
<1> QED BY <1>1, <1>2

LEMMA IrqIdleRx == RxInv /\ IrqIdle => RxInv'
<1> SUFFICES ASSUME RxInv, IrqIdle PROVE RxInv'
  OBVIOUS
<1> USE DEF RxInv, IrqIdle, mainVars
<1>1. CASE rx = "dma" /\ idle
  <2>1. irq' = "pos" /\ idle' = FALSE
    BY <1>1
  <2>2. RxType'
    BY <2>1 DEF RxType
  <2>3. RxMode' /\ RxCopy' /\ RxQuiet'
    BY <1>1, <2>1 DEF RxMode, RxCopy, RxQuiet
  <2> QED BY <2>2, <2>3, HeldKept
<1>2. CASE ~(rx = "dma" /\ idle)
  <2>1. irq' = "out" /\ idle' = idle
    BY <1>2
  <2>2. RxType' /\ RxMode' /\ RxCopy' /\ RxQuiet'
    BY <2>1 DEF RxType, RxMode, RxCopy, RxQuiet
  <2> QED BY <2>2, HeldKept
<1> QED BY <1>1, <1>2

LEMMA IrqPosRx == RxInv /\ IrqPos => RxInv'
<1> SUFFICES ASSUME RxInv, IrqPos PROVE RxInv'
  OBVIOUS
<1> USE DEF RxInv, IrqPos, rxVars, mainVars
<1>1. RxType' /\ RxMode' /\ RxQuiet'
  BY DEF RxType, RxMode, RxQuiet
<1>2. RxCopy'
  <2>1. Gap(head', pos') = Gap(head, at) /\ Gap(head', at') = Gap(head, at)
    BY DEF Gap
  <2>2. Gap(head, at) \in Nat
    BY GapRange DEF RxType
  <2> QED BY <2>1, <2>2 DEF RxCopy
<1> QED BY <1>1, <1>2, HeldKept

\* The handler passes on one byte, which is in its place already, or is done: it has
\* reached where the stream was, or the ring is full, and then there is nothing more.
LEMMA IrqCopyRx == RxInv /\ IrqCopy => RxInv'
<1> SUFFICES ASSUME RxInv, IrqCopy PROVE RxInv'
  OBVIOUS
<1> USE DEF RxInv
<1>1. /\ rx = "dma" /\ irq = "copy" /\ pc \notin {"take", "clear"}
      /\ head \in Slot /\ tail \in Slot /\ at \in Slot /\ pos \in Slot
  BY DEF IrqCopy, RxMode, RxType
<1>2. /\ UNCHANGED <<rx, rdr, ore, receiving, idle, buf, tail, at, owed, over, pc, saw>>
  BY DEF IrqCopy, mainVars
<1>3. /\ Gap(tail, head) \in Nat /\ Gap(tail, head) < Size
      /\ Gap(head, at) \in Nat /\ Gap(head, at) < Size
      /\ Gap(head, pos) \in Nat /\ Gap(head, pos) < Size
      /\ Size \in Nat
  BY <1>1, GapRange, SizeAssumption
<1>4. CASE head = pos \/ Succ(head) = tail
  <2>1. irq' = "out" /\ pos' = 0 /\ head' = head
    BY <1>4 DEF IrqCopy
  <2>2. RxType'
    BY <1>2, <2>1, SizeAssumption DEF RxType, Slot
  <2>3. RxMode' /\ RxCopy'
    BY <1>1, <1>2, <2>1 DEF RxMode, RxCopy
  <2>4. RxQuiet'
    <3> SUFFICES ASSUME ~over, ~receiving, ~idle PROVE head = at
      BY <1>1, <1>2, <2>1 DEF RxQuiet
    <3>1. pos = at
      BY <1>1 DEF RxQuiet
    <3>2. CASE Succ(head) = tail
      <4>1. Gap(tail, head) = Size - 1
        BY <1>1, <3>2, GapFull
      <4>2. Gap(tail, head) + Gap(head, at) < Size
        BY <1>1 DEF RxHeld, InBuffer
      <4>3. Gap(head, at) = 0
        BY <1>3, <4>1, <4>2
      <4> QED BY <1>1, <4>3, GapRange
    <3> QED BY <1>4, <3>1, <3>2
  <2> QED BY <1>2, <2>1, <2>2, <2>3, <2>4, HeldKept
<1>5. CASE head # pos /\ Succ(head) # tail
  <2>1. head' = Succ(head) /\ irq' = irq /\ pos' = pos
    BY <1>5 DEF IrqCopy, irqVars
  <2>2. head' \in Slot
    BY <1>1, <2>1, SuccValue
  <2>3. RxType'
    BY <1>2, <2>1, <2>2 DEF RxType
  <2>4. RxMode' /\ RxQuiet'
    BY <1>1, <1>2, <2>1 DEF RxMode, RxQuiet
  <2>5. Gap(head, pos) # 0
    BY <1>1, <1>5, GapRange
  <2>6. ASSUME ~over
        PROVE  /\ Gap(tail, head') = Gap(tail, head) + 1
               /\ Gap(head', at) = Gap(head, at) - 1
               /\ Gap(head', pos) = Gap(head, pos) - 1
               /\ Gap(head, pos) <= Gap(head, at)
    <3>1. Gap(head, pos) <= Gap(head, at)
      BY <1>1, <2>6 DEF RxCopy
    <3>2. head # at
      <4>1. Gap(head, at) # 0
        BY <1>3, <2>5, <3>1
      <4> QED BY <1>1, <4>1, GapRange
    <3> QED BY <1>1, <1>5, <2>1, <3>1, <3>2, GapGrows, GapShrinks
  <2>7. RxCopy'
    <3> SUFFICES ASSUME ~over PROVE Gap(head', pos') <= Gap(head', at')
      BY <1>2 DEF RxCopy
    <3>1. Gap(head', pos') = Gap(head', pos) /\ Gap(head', at') = Gap(head', at)
      BY <1>2, <2>1
    <3> QED BY <1>3, <2>6, <3>1
  <2>8. RxHeld'
    <3> SUFFICES ASSUME ~over PROVE InBuffer'
      BY <1>1, <1>2 DEF RxHeld
    <3>1. InBuffer
      BY <1>1 DEF RxHeld
    <3>2. Gap(tail', head') + Gap(head', at') = Gap(tail, head) + Gap(head, at)
      <4>1. Gap(tail', head') = Gap(tail, head') /\ Gap(head', at') = Gap(head', at)
        BY <1>2
      <4> QED BY <1>3, <2>6, <4>1
    <3>3. \A k : Nth(tail', k) = Nth(tail, k)
      BY <1>2 DEF Nth
    <3> QED BY <1>2, <3>1, <3>2, <3>3 DEF InBuffer
  <2> QED BY <2>3, <2>4, <2>7, <2>8
<1> QED BY <1>4, <1>5

\* A byte arrives at the stream: it is owed from its slot on, as long as the reader is
\* less than a ring behind.
LEMMA ArriveDma ==
  ASSUME RxInv, NEW b \in Byte, Arrive(b), rx = "dma"
  PROVE  RxInv'
<1> USE DEF RxInv
<1>1. /\ buf' = [buf EXCEPT ![at] = b] /\ at' = Succ(at)
      /\ over' = (over \/ Len(owed) + 1 > Size - 1)
      /\ owed' = IF over' THEN << >> ELSE Append(owed, b)
      /\ receiving' = TRUE
      /\ UNCHANGED <<rx, rdr, ore, idle, head, tail, pc, saw, irq, pos>>
  BY DEF Arrive, mainVars, irqVars
<1>2. /\ head \in Slot /\ tail \in Slot /\ at \in Slot /\ at' \in Slot /\ pos \in Slot
      /\ owed \in Seq(Byte) /\ Len(owed) \in Nat /\ Size \in Nat
  BY <1>1, SuccValue, RdrLength, SizeAssumption DEF RxType
<1>3. owed' \in Seq(Byte)
  BY <1>1, <1>2, EmptySeq, AppendProperties
<1>4. over' \in BOOLEAN
  BY <1>1
<1>5. RxType'
  BY <1>1, <1>2, <1>3, <1>4 DEF RxType
<1>6. RxMode' /\ RxQuiet'
  BY <1>1 DEF RxMode, RxQuiet
<1>7. CASE over'
  BY <1>5, <1>6, <1>7 DEF RxHeld, RxCopy
<1>8. CASE ~over'
  <2>1. ~over /\ Len(owed) + 1 <= Size - 1 /\ owed' = Append(owed, b)
    <3>1. ~over /\ ~(Len(owed) + 1 > Size - 1) /\ owed' = Append(owed, b)
      BY <1>1, <1>8, Zenon
    <3> QED BY <1>2, <3>1
  <2>2. /\ InBuffer /\ Gap(tail, head) \in Nat /\ Gap(head, at) \in Nat
        /\ Gap(head, at) < Size - 1 /\ Len(owed) = Gap(tail, head) + Gap(head, at)
    <3>1. InBuffer
      BY <2>1 DEF RxHeld
    <3>2. Len(owed) = Gap(tail, head) + Gap(head, at)
      BY <3>1 DEF InBuffer
    <3>3. Gap(tail, head) \in Nat /\ Gap(head, at) \in Nat
      BY <1>2, GapRange
    <3> QED BY <1>2, <2>1, <3>1, <3>2, <3>3
  <2>3. Succ(at) # head
    BY <1>2, <2>2, GapFull
  <2>4. Gap(head', at') = Gap(head, at) + 1 /\ Gap(tail', head') = Gap(tail, head)
    <3>1. Gap(head, at') = Gap(head, at) + 1
      BY <1>1, <1>2, <2>3, GapGrows
    <3> QED BY <1>1, <3>1
  <2>5. Len(owed') = Len(owed) + 1 /\ owed'[Len(owed) + 1] = b
        /\ \A k \in 1 .. Len(owed) : owed'[k] = owed[k]
    BY <1>2, <2>1, AppendProperties
  <2>6. Gap(tail, at) = Len(owed)
    BY <1>2, <2>2, <2>1, GapSum
  <2>7. ASSUME NEW k \in 1 .. Len(owed) + 1
        PROVE  buf'[Nth(tail, k)] = owed'[k]
    <3>1. CASE k = Len(owed) + 1
      <4>1. Nth(tail, k) = at
        BY <1>2, <2>6, <3>1, NthOfRun
      <4> QED BY <1>1, <1>2, <2>5, <3>1, <4>1 DEF RxType
    <3>2. CASE k # Len(owed) + 1
      <4>1. k \in 1 .. Gap(tail, at)
        BY <1>2, <2>6, <3>2
      <4>2. Nth(tail, k) \in Slot /\ Nth(tail, k) # at
        BY <1>2, <4>1, NthOfRun
      <4>3. buf[Nth(tail, k)] = owed[k] /\ owed'[k] = owed[k]
        BY <2>2, <2>5, <2>6, <4>1 DEF InBuffer
      <4> QED BY <1>1, <4>2, <4>3 DEF RxType
    <3> QED BY <3>1, <3>2
  <2>8. InBuffer'
    <3>1. \A k : Nth(tail', k) = Nth(tail, k)
      BY <1>1 DEF Nth
    <3> QED BY <1>2, <2>1, <2>2, <2>4, <2>5, <2>7, <3>1 DEF InBuffer
  <2>9. RxCopy'
    <3>1. irq = "copy" => Gap(head, pos) <= Gap(head, at)
      BY <2>1 DEF RxCopy
    <3>2. Gap(head', pos') = Gap(head, pos) /\ Gap(head, pos) \in Nat
      BY <1>1, <1>2, GapRange
    <3> QED BY <1>1, <2>2, <2>4, <3>1, <3>2 DEF RxCopy
  <2> QED BY <1>1, <1>5, <1>6, <2>8, <2>9 DEF RxHeld
<1> QED BY <1>7, <1>8

\* A byte arrives at the data register, or is lost.
LEMMA ArriveRegister ==
  ASSUME RxInv, NEW b \in Byte, Arrive(b), rx # "dma"
  PROVE  RxInv'
<1> USE DEF RxInv
<1>1. /\ UNCHANGED <<rx, buf, at, over, idle, head, tail, pc, saw, irq, pos>>
      /\ receiving' = TRUE /\ ~over
  BY DEF Arrive, mainVars, irqVars, RxMode
<1>2. head \in Slot /\ tail \in Slot /\ owed \in Seq(Byte) /\ Len(owed) \in Nat
  BY RdrLength DEF RxType
<1>3. InRing /\ Gap(tail, head) \in Nat /\ Gap(tail', head') = Gap(tail, head)
      /\ (\A k : Nth(tail', k) = Nth(tail, k))
  BY <1>1, <1>2, GapRange DEF RxHeld, Nth
<1>4. RxCopy' /\ RxQuiet'
  BY <1>1 DEF RxMode, RxCopy, RxQuiet
<1>5. CASE rdr = << >>
  <2>1. rdr' = <<b>> /\ owed' = Append(owed, b) /\ ore' = ore
    BY <1>5 DEF Arrive
  <2>2. /\ owed' \in Seq(Byte) /\ Len(owed') = Len(owed) + 1 /\ owed'[Len(owed) + 1] = b
        /\ \A k \in 1 .. Len(owed) : owed'[k] = owed[k]
    BY <1>2, <2>1, AppendProperties
  <2>3. rdr' # << >> /\ Len(rdr') = 1 /\ rdr'[1] = b /\ rdr' \in AtMostOne(Byte)
    BY <2>1 DEF AtMostOne
  <2>4. RxType'
    BY <1>1, <2>1, <2>2, <2>3 DEF RxType
  <2>5. RxMode'
    BY <1>1, <2>1, <2>3 DEF RxMode
  <2>6. Len(owed) = Gap(tail, head)
    BY <1>3, <1>5, EmptySeq DEF InRing
  <2>7. InRing'
    BY <1>1, <1>3, <2>2, <2>3, <2>6 DEF InRing
  <2> QED BY <1>1, <1>4, <2>4, <2>5, <2>7 DEF RxHeld
<1>6. CASE rdr # << >>
  <2>1. ore' = TRUE /\ rdr' = rdr /\ owed' = owed
    BY <1>6 DEF Arrive
  <2>2. RxType' /\ RxMode'
    BY <1>1, <2>1 DEF RxType, RxMode
  <2> QED BY <1>1, <1>4, <2>1, <2>2, HeldKept
<1> QED BY <1>5, <1>6

LEMMA LineIdleRx == RxInv /\ LineIdle => RxInv'
<1> SUFFICES ASSUME RxInv, LineIdle PROVE RxInv'
  OBVIOUS
<1> USE DEF RxInv, LineIdle, mainVars, irqVars
<1>1. RxType'
  BY DEF RxType
<1>2. RxMode' /\ RxCopy' /\ RxQuiet'
  BY DEF RxMode, RxCopy, RxQuiet
<1> QED BY <1>1, <1>2, HeldKept

\* A reader takes the oldest byte of the ring, which is the oldest that is owed.
LEMMA ReadRx == RxInv /\ Read => RxInv'
<1> SUFFICES ASSUME RxInv, Read PROVE RxInv'
  OBVIOUS
<1> USE DEF RxInv
<1>1. /\ rx # "poll" /\ tail # head /\ tail' = Succ(tail) /\ pc = "idle" /\ irq = "out"
      /\ owed' = IF over THEN << >> ELSE Tail(owed)
      /\ over' = (over /\ ~(tail' = head /\ head = at))
      /\ UNCHANGED <<rx, rdr, ore, receiving, idle, buf, head, at, pc, saw, irq, pos>>
  BY DEF Read, Main, mainVars, irqVars
<1>2. /\ head \in Slot /\ tail \in Slot /\ at \in Slot /\ tail' \in Slot /\ Size \in Nat
      /\ owed \in Seq(Byte) /\ Len(owed) \in Nat
  BY <1>1, SuccValue, RdrLength, SizeAssumption DEF RxType
<1>3. /\ Gap(tail, head) \in Nat \ {0} /\ Gap(tail, head) < Size
      /\ Gap(tail', head) = Gap(tail, head) - 1
  BY <1>1, <1>2, GapRange, GapShrinks
<1>4. RxMode' /\ RxCopy'
  BY <1>1 DEF RxMode, RxCopy
<1>5. CASE over
  <2>1. owed' = << >> /\ Len(owed') = 0 /\ rx = "dma"
    BY <1>1, <1>5, EmptySeq DEF RxMode
  <2>2. RxType'
    BY <1>1, <1>2, <1>5, <2>1, EmptySeq DEF RxType
  <2>3. ASSUME ~over' PROVE InBuffer' /\ head = at
    <3>1. tail' = head /\ head = at
      BY <1>1, <1>5, <2>3
    <3>2. Gap(tail', head') = 0 /\ Gap(head', at') = 0
      BY <1>1, <1>2, <3>1, GapRange
    <3> QED BY <1>2, <2>1, <3>1, <3>2, SizeAssumption DEF InBuffer
  <2>4. RxQuiet'
    BY <1>1, <2>3 DEF RxQuiet
  <2> QED BY <1>1, <1>4, <2>1, <2>2, <2>3, <2>4 DEF RxHeld
<1>6. CASE ~over
  <2>1. owed' = Tail(owed) /\ ~over'
    BY <1>1, <1>6
  <2>2. /\ rx = "dma" => InBuffer
        /\ rx # "dma" => InRing
    BY <1>6 DEF RxHeld
  <2>3. Len(owed) >= Gap(tail, head)
    <3>1. rx = "dma" => Gap(head, at) \in Nat
      BY <1>2, GapRange
    <3>2. Len(rdr) \in Nat
      BY RdrLength
    <3> QED BY <1>3, <2>2, <3>1, <3>2 DEF InBuffer, InRing
  <2>4. owed # << >>
    BY <1>3, <2>3, EmptySeq
  <2>5. /\ owed' \in Seq(Byte) /\ Len(owed') = Len(owed) - 1
        /\ \A k \in 1 .. Len(owed) - 1 : owed'[k] = owed[k + 1]
    <3>1. \A k \in 1 .. Len(Tail(owed)) : Tail(owed)[k] = owed[k + 1]
      BY <1>2, <2>4, HeadTailProperties
    <3>2. Len(Tail(owed)) = Len(owed) - 1 /\ Tail(owed) \in Seq(Byte)
      BY <1>2, <2>4, HeadTailProperties
    <3> QED BY <2>1, <3>1, <3>2
  <2>6. over' \in BOOLEAN
    BY <1>1
  <2>7. RxType'
    BY <1>1, <1>2, <2>5, <2>6 DEF RxType
  <2>8. RxQuiet'
    BY <1>1, <1>6 DEF RxQuiet
  <2>9. ASSUME NEW n \in Nat, n <= Len(owed), n < Size,
               \A k \in 1 .. n : buf[Nth(tail, k)] = owed[k]
        PROVE  \A k \in 1 .. n - 1 : buf'[Nth(tail', k)] = owed'[k]
    <3> SUFFICES ASSUME NEW k \in 1 .. n - 1 PROVE buf'[Nth(tail', k)] = owed'[k]
      OBVIOUS
    <3>1. k \in 1 .. Size - 1 /\ k + 1 \in 1 .. n /\ k \in 1 .. Len(owed) - 1
      BY <1>2, <2>9
    <3>2. Nth(tail', k) = Nth(tail, k + 1)
      BY <1>1, <1>2, <3>1, NthOfNext
    <3> QED BY <1>1, <2>5, <2>9, <3>1, <3>2
  <2>10. CASE rx = "dma"
    <3>1. /\ Len(owed) = Gap(tail, head) + Gap(head, at) /\ Len(owed) < Size
          /\ \A k \in 1 .. Len(owed) : buf[Nth(tail, k)] = owed[k]
      BY <2>2, <2>10 DEF InBuffer
    <3>2. \A k \in 1 .. Len(owed) - 1 : buf'[Nth(tail', k)] = owed'[k]
      BY <1>2, <2>9, <3>1
    <3>3. Gap(tail', head') = Gap(tail, head) - 1 /\ Gap(head', at') = Gap(head, at)
      BY <1>1, <1>3
    <3>4. Gap(head, at) \in Nat
      BY <1>2, GapRange
    <3>5. InBuffer'
      BY <1>2, <1>3, <2>5, <3>1, <3>2, <3>3, <3>4 DEF InBuffer
    <3> QED BY <1>1, <1>4, <2>7, <2>8, <2>10, <3>5 DEF RxHeld
  <2>11. CASE rx # "dma"
    <3>1. /\ Len(owed) = Gap(tail, head) + Len(rdr)
          /\ \A k \in 1 .. Gap(tail, head) : buf[Nth(tail, k)] = owed[k]
          /\ rdr # << >> => owed[Len(owed)] = rdr[1]
      BY <2>2, <2>11 DEF InRing
    <3>2. \A k \in 1 .. Gap(tail, head) - 1 : buf'[Nth(tail', k)] = owed'[k]
      BY <1>2, <1>3, <2>3, <2>9, <3>1
    <3>3. Gap(tail', head') = Gap(tail, head) - 1
      BY <1>1, <1>3
    <3>4. rdr # << >> => owed'[Len(owed')] = rdr[1]
      <4> SUFFICES ASSUME rdr # << >> PROVE owed'[Len(owed')] = rdr[1]
        OBVIOUS
      <4>1. Len(rdr) = 1
        BY RdrLength
      <4>2. Len(owed) - 1 \in 1 .. Len(owed) - 1
        BY <1>2, <1>3, <3>1, <4>1
      <4>3. owed'[Len(owed) - 1] = owed[Len(owed) - 1 + 1]
        BY <2>5, <4>2
      <4> QED BY <1>2, <2>5, <3>1, <4>3
    <3>5. InRing'
      <4>1. Len(rdr) \in Nat
        BY RdrLength
      <4> QED BY <1>1, <1>2, <1>3, <2>5, <3>1, <3>2, <3>3, <3>4, <4>1 DEF InRing
    <3> QED BY <1>1, <1>4, <2>7, <2>8, <2>11, <3>5 DEF RxHeld
  <2> QED BY <2>10, <2>11
<1> QED BY <1>5, <1>6

\* A polling reader looks, and takes the byte it saw or clears the overrun.
LEMMA PollSeeRx == RxInv /\ PollSee => RxInv'
<1> SUFFICES ASSUME RxInv, PollSee PROVE RxInv'
  OBVIOUS
<1> USE DEF RxInv, PollSee, Main, rxVars, irqVars
<1>1. RxType'
  BY DEF RxType
<1>2. RxMode' /\ RxCopy' /\ RxQuiet'
  BY DEF RxMode, RxCopy, RxQuiet
<1> QED BY <1>1, <1>2, HeldKept

LEMMA PollTakeRx == RxInv /\ PollTake => RxInv'
<1> SUFFICES ASSUME RxInv, PollTake PROVE RxInv'
  OBVIOUS
<1> USE DEF RxInv
<1>1. /\ rx = "poll" /\ rdr # << >> /\ ~over /\ head = tail /\ InRing /\ Len(rdr) = 1
  BY RdrLength DEF PollTake, RxMode, RxHeld
<1>2. /\ rdr' = << >> /\ ore' = (ore /\ ~saw) /\ owed' = Tail(owed) /\ pc' = "idle"
      /\ saw' = FALSE /\ irq = "out"
      /\ UNCHANGED <<rx, receiving, idle, buf, head, tail, at, over, irq, pos>>
  BY DEF PollTake, irqVars
<1>3. head \in Slot /\ tail \in Slot /\ owed \in Seq(Byte)
  BY DEF RxType
<1>4. Gap(tail, head) = 0 /\ Gap(tail', head') = 0
  BY <1>1, <1>2, <1>3, GapRange
<1>5. Len(owed) = 1
  BY <1>1, <1>4 DEF InRing
<1>6. owed # << >>
  BY <1>5, EmptySeq
<1>7. owed' \in Seq(Byte) /\ Len(owed') = 0
  BY <1>2, <1>3, <1>5, <1>6, HeadTailProperties
<1>8. RxType'
  BY <1>2, <1>7 DEF RxType, AtMostOne
<1>9. RxMode' /\ RxCopy' /\ RxQuiet'
  BY <1>1, <1>2 DEF RxMode, RxCopy, RxQuiet
<1>10. InRing'
  BY <1>2, <1>4, <1>7, EmptySeq DEF InRing
<1> QED BY <1>1, <1>2, <1>8, <1>9, <1>10 DEF RxHeld

LEMMA PollClearRx == RxInv /\ PollClear => RxInv'
<1> SUFFICES ASSUME RxInv, PollClear PROVE RxInv'
  OBVIOUS
<1> USE DEF RxInv, PollClear, irqVars
<1>1. rx = "poll" /\ ClearOre
  BY DEF RxMode
<1>2. owed' \in Seq(Byte) /\ RxHeld'
  BY <1>1, ClearOreHeld
<1>3. RxType'
  BY <1>2 DEF RxType, ClearOre, AtMostOne
<1>4. RxMode' /\ RxCopy' /\ RxQuiet'
  BY <1>1 DEF RxMode, RxCopy, RxQuiet, ClearOre
<1> QED BY <1>2, <1>3, <1>4

-----------------------------------------------------------------------------
(* Both directions together.                                               *)
IInv == TxInv /\ RxInv

LEMMA InitIInv == Init => IInv
<1> SUFFICES ASSUME Init PROVE IInv
  OBVIOUS
<1> USE DEF Init
<1>1. PICK m \in Modes : tx = m[1] /\ rx = m[2]
  OBVIOUS
<1>2. tx \in IO /\ rx \in IO /\ <<tx, rx>> \in Modes
  BY <1>1, ModeAssumption
<1>3. 0 \in Slot
  BY SizeAssumption DEF Slot
<1>4. << >> \in Seq(Byte) /\ << >> \in AtMostOne(Byte) /\ Len(<< >>) = 0
  BY EmptySeq DEF AtMostOne
<1>5. TxType /\ TxLine /\ TxFree
  BY <1>2, <1>4 DEF TxType, TxLine, TxFree
<1>6. Stream
  <2>1. << >> \o << >> = << >>
    BY <1>4, ConcatEmptySeq
  <2> QED BY <2>1 DEF Stream
<1>7. RxType /\ RxMode /\ RxCopy /\ RxQuiet
  BY <1>2, <1>3, <1>4 DEF RxType, RxMode, RxCopy, RxQuiet
<1>8. Gap(0, 0) = 0
  BY <1>3, GapRange
<1>9. RxHeld
  BY <1>4, <1>8, SizeAssumption DEF RxHeld, InRing, InBuffer
<1> QED BY <1>5, <1>6, <1>7, <1>9 DEF IInv, TxInv, RxInv

\* No step of the main loop, of the handlers or of the hardware breaks the invariant.
LEMMA NextIInv == IInv /\ [Next]_vars => IInv'
<1> SUFFICES ASSUME IInv, [Next]_vars PROVE IInv'
  OBVIOUS
<1> USE DEF IInv
<1>1. CASE ShiftIn
  <2>1. RxInv'
    BY <1>1, RxKept DEF ShiftIn, mainVars, irqVars
  <2> QED BY <1>1, <2>1, ShiftInTx
<1>2. CASE ShiftOut
  <2>1. RxInv'
    BY <1>2, RxKept DEF ShiftOut, mainVars, irqVars
  <2> QED BY <1>2, <2>1, ShiftOutTx
<1>3. CASE StreamMove
  <2>1. RxInv'
    BY <1>3, RxKept DEF StreamMove, mainVars, irqVars
  <2> QED BY <1>3, <2>1, StreamMoveTx
<1>4. CASE StreamError
  <2>1. RxInv'
    BY <1>4, RxKept DEF StreamError, mainVars, irqVars
  <2> QED BY <1>4, <2>1, StreamErrorTx
<1>5. ASSUME NEW s \in Texts(Sends[<<tx, rx>>]), WriteIt(s) \/ WriteDma(s) PROVE IInv'
  <2>1. RxInv'
    BY <1>5, RxKept DEF WriteIt, WriteDma, mainVars, irqVars
  <2>2. TxInv'
    BY <1>5, WriteTx
  <2> QED BY <2>1, <2>2
<1>6. ASSUME NEW s \in Texts(Sends[<<tx, rx>>]), WritePoll(s) PROVE IInv'
  <2>1. RxInv'
    BY <1>6, RxKept DEF WritePoll, irqVars
  <2>2. TxInv'
    BY <1>6, CallTx
  <2> QED BY <2>1, <2>2
<1>7. ASSUME NEW b \in Sends[<<tx, rx>>], PutChar(b) PROVE IInv'
  <2>1. RxInv'
    BY <1>7, RxKept DEF PutChar, irqVars
  <2>2. TxInv'
    BY <1>7, CallTx
  <2> QED BY <2>1, <2>2
<1>8. CASE PrintWait
  <2>1. RxInv'
    BY <1>8, RxKept DEF PrintWait, irqVars
  <2>2. TxInv'
    BY <1>8, CallTx
  <2> QED BY <2>1, <2>2
<1>9. CASE WaitTxe
  <2>1. RxInv'
    BY <1>9, RxKept DEF WaitTxe, irqVars
  <2> QED BY <1>9, <2>1, WaitTxeTx
<1>10. CASE WaitTc \/ WaitTimesOut
  <2>1. RxInv'
    BY <1>10, RxKept DEF WaitTc, WaitTimesOut, irqVars
  <2> QED BY <1>10, <2>1, WaitEndsTx
<1>11. CASE IrqTx
  <2>1. RxInv'
    BY <1>11, RxKept DEF IrqTx, mainVars
  <2> QED BY <1>11, <2>1, IrqTxTx
<1>12. CASE DmaIrq
  <2>1. RxInv'
    BY <1>12, RxKept DEF DmaIrq, mainVars, irqVars
  <2> QED BY <1>12, <2>1, DmaIrqTx
<1>13. CASE IrqSee \/ IrqTake \/ IrqOre \/ IrqIdle \/ IrqPos \/ IrqCopy
  <2>1. TxInv'
    BY <1>13, TxKept DEF IrqSee, IrqTake, IrqOre, IrqIdle, IrqPos, IrqCopy, mainVars
  <2> QED BY <1>13, <2>1, IrqSeeRx, IrqTakeRx, IrqOreRx, IrqIdleRx, IrqPosRx, IrqCopyRx
<1>14. ASSUME NEW b \in Gets[<<tx, rx>>], Arrive(b) PROVE IInv'
  <2>1. TxInv'
    BY <1>14, TxKept DEF Arrive, mainVars
  <2>2. b \in Byte
    BY ModeAssumption DEF TxInv, TxType
  <2>3. RxInv'
    BY <1>14, <2>2, ArriveDma, ArriveRegister
  <2> QED BY <2>1, <2>3
<1>15. CASE LineIdle \/ Read
  <2>1. TxInv'
    BY <1>15, TxKept DEF LineIdle, Read, mainVars
  <2> QED BY <1>15, <2>1, LineIdleRx, ReadRx
<1>16. CASE PollSee \/ PollTake \/ PollClear
  <2>1. TxInv'
    <3>1. pc \in {"idle", "take", "clear"} /\ pc' \in {"idle", "take", "clear"}
      BY <1>16 DEF PollSee, PollTake, PollClear, Main
    <3> QED BY <1>16, <3>1, TxKept DEF PollSee, PollTake, PollClear
  <2> QED BY <1>16, <2>1, PollSeeRx, PollTakeRx, PollClearRx
<1>17. CASE UNCHANGED vars
  <2>1. TxInv'
    BY <1>17, TxKept DEF vars, mainVars
  <2>2. RxInv'
    BY <1>17, RxKept DEF vars, mainVars, irqVars
  <2> QED BY <2>1, <2>2
<1> HIDE DEF IInv
<1> QED BY <1>1, <1>2, <1>3, <1>4, <1>5, <1>6, <1>7, <1>8, <1>9, <1>10, <1>11, <1>12, <1>13,
           <1>14, <1>15, <1>16, <1>17 DEF Next, Hardware, Handlers, Waits

\* The invariant holds at every point where a handler may come in between, whatever
\* the modes, the size of the ring and the lengths of the writes.
THEOREM SpecIInv == Spec => []IInv
BY InitIInv, NextIInv, PTL DEF Spec

-----------------------------------------------------------------------------
(* TypeOK: the ring's indices are slots, registers hold a byte or none, and *)
(* the transmit stream is off whenever tx_busy is clear.                   *)
THEOREM TypeCorrect == Spec => []TypeOK
<1>1. IInv => TypeOK
  BY DEF IInv, TxInv, TxType, TxFree, RxInv, RxType, TypeOK
<1> QED BY SpecIInv, <1>1, PTL

(* Stream: every byte usart_write or printf accepted is sent once and in   *)
(* order, however transfers, prints and interrupts come in between.        *)
THEOREM StreamAlways == Spec => []Stream
<1>1. IInv => Stream
  BY DEF IInv, TxInv
<1> QED BY SpecIInv, <1>1, PTL

(* SentWhenFree: tx_busy is clear only when the last bit is out, in every  *)
(* mode, unless a wait was given up or the stream failed.                  *)
THEOREM SentWhenFreeAlways == Spec => []SentWhenFree
<1>1. IInv => SentWhenFree
  BY DEF IInv, TxInv, TxFree, SentWhenFree
<1> QED BY SpecIInv, <1>1, PTL

\* The slots from i up to j, as a sequence.
LEMMA SlotsValue ==
  ASSUME buf \in [Slot -> Byte], NEW i \in Slot, NEW j \in Slot
  PROVE  /\ Slots(i, j) \in Seq(Byte) /\ Len(Slots(i, j)) = Gap(i, j)
         /\ \A k \in 1 .. Gap(i, j) : Slots(i, j)[k] = buf[Nth(i, k)]
<1>1. Gap(i, j) \in Nat /\ Gap(i, j) < Size
  BY GapRange
<1>2. (j + Size - i) % Size = Gap(i, j)
  <2>1. j + Size - i \in Nat /\ j + Size - i < 2 * Size
    BY SizeAssumption DEF Slot
  <2>2. PICK n \in Nat : n = j + Size - i
    BY <2>1
  <2>3. n % Size = IF n < Size THEN n ELSE n - Size
    BY <2>1, <2>2, WrapOnce
  <2>4. Gap(i, j) = IF n < Size THEN n ELSE n - Size
    BY <2>2, SizeAssumption DEF Slot, Gap
  <2> QED BY <2>2, <2>3, <2>4
<1>3. ASSUME NEW k \in 1 .. Gap(i, j)
      PROVE  (i + k - 1) % Size = Nth(i, k) /\ Nth(i, k) \in Slot
  <2>1. i + k - 1 \in Nat /\ i + k - 1 < 2 * Size
    BY <1>1, SizeAssumption DEF Slot
  <2>2. PICK n \in Nat : n = i + k - 1
    BY <2>1
  <2>3. n % Size = IF n < Size THEN n ELSE n - Size
    BY <2>1, <2>2, WrapOnce
  <2>4. Nth(i, k) = IF n < Size THEN n ELSE n - Size
    BY <1>1, <2>2, SizeAssumption DEF Nth, Slot
  <2>5. Nth(i, k) \in Slot
    BY NthOfRun
  <2> QED BY <2>2, <2>3, <2>4, <2>5
<1>4. Slots(i, j) = [k \in 1 .. Gap(i, j) |-> buf[(i + k - 1) % Size]]
  BY <1>2 DEF Slots
<1>5. \A k \in 1 .. Gap(i, j) : Slots(i, j)[k] = buf[Nth(i, k)] /\ Slots(i, j)[k] \in Byte
  BY <1>3, <1>4
<1>6. Slots(i, j) \in [1 .. Gap(i, j) -> Byte]
  BY <1>4, <1>5
<1>7. Slots(i, j) \in Seq(Byte) /\ Len(Slots(i, j)) = Gap(i, j)
  BY <1>1, <1>6
<1> QED BY <1>5, <1>7

(* Received: the ring and what the handler has not passed on yet are the   *)
(* bytes received, in order, less those the driver drops; with DMA         *)
(* reception while the reader is less than a ring behind.                  *)
THEOREM ReceivedAlways == Spec => []Received
<1>1. IInv => Received
  <2> SUFFICES ASSUME IInv, ~over
               PROVE  Slots(tail, head) \o (IF rx = "dma" THEN Slots(head, at) ELSE rdr) = owed
    BY DEF Received
  <2>1. /\ buf \in [Slot -> Byte] /\ head \in Slot /\ tail \in Slot /\ at \in Slot
        /\ owed \in Seq(Byte) /\ RxType /\ RxHeld
    BY DEF IInv, RxInv, RxType
  <2>2. /\ Gap(tail, head) \in Nat /\ Gap(tail, head) < Size
        /\ Gap(head, at) \in Nat /\ Size \in Nat
    BY <2>1, GapRange, SizeAssumption
  <2> DEFINE r == Slots(tail, head)
             q == IF rx = "dma" THEN Slots(head, at) ELSE rdr
  <2>3. /\ r \in Seq(Byte) /\ Len(r) = Gap(tail, head)
        /\ \A k \in 1 .. Gap(tail, head) : r[k] = buf[Nth(tail, k)]
    BY <2>1, SlotsValue
  <2>4. CASE rx = "dma"
    <3>1. /\ q \in Seq(Byte) /\ Len(q) = Gap(head, at)
          /\ \A k \in 1 .. Gap(head, at) : q[k] = buf[Nth(head, k)]
      BY <2>1, <2>4, SlotsValue
    <3>2. InBuffer
      BY <2>1, <2>4 DEF RxHeld
    <3> HIDE DEF r, q
    <3>3. /\ r \o q \in Seq(Byte) /\ Len(r \o q) = Gap(tail, head) + Gap(head, at)
          /\ \A k \in 1 .. Gap(tail, head) + Gap(head, at) :
               (r \o q)[k] = IF k <= Gap(tail, head) THEN r[k] ELSE q[k - Gap(tail, head)]
      BY <2>3, <3>1, ConcatProperties
    <3>4. ASSUME NEW k \in 1 .. Len(owed) PROVE (r \o q)[k] = owed[k]
      <4>1. k \in 1 .. Gap(tail, head) + Gap(head, at) /\ Len(owed) < Size
        BY <3>2 DEF InBuffer
      <4>2. CASE k <= Gap(tail, head)
        <5>1. k \in 1 .. Gap(tail, head)
          BY <2>2, <4>1, <4>2
        <5> QED BY <2>3, <3>2, <3>3, <4>1, <4>2, <5>1 DEF InBuffer
      <4>3. CASE ~(k <= Gap(tail, head))
        <5> DEFINE n == k - Gap(tail, head)
        <5>1. n \in 1 .. Gap(head, at) /\ n \in Nat \ {0}
          BY <2>2, <4>1, <4>3
        <5>2. Gap(tail, head) + n <= Size /\ Gap(tail, head) + n = k
          <6>1. Gap(tail, head) + Gap(head, at) < Size
            BY <3>2 DEF InBuffer
          <6> QED BY <2>2, <4>1, <5>1, <6>1
        <5> HIDE DEF n
        <5>3. Nth(head, n) = Nth(tail, k)
          BY <2>1, <5>1, <5>2, NthOfSecond
        <5>4. (r \o q)[k] = q[n]
          BY <3>3, <4>1, <4>3 DEF n
        <5> QED BY <3>1, <3>2, <5>1, <5>3, <5>4 DEF InBuffer
      <4> QED BY <4>2, <4>3
    <3>5. Len(r \o q) = Len(owed)
      BY <3>2, <3>3 DEF InBuffer
    <3>6. r \o q = owed
      BY <2>1, <3>3, <3>4, <3>5, SeqEqual
    <3> QED BY <3>6 DEF r, q
  <2>5. CASE rx # "dma"
    <3>1. q = rdr /\ rdr \in Seq(Byte)
      BY <2>1, <2>5, OneByte DEF RxType
    <3>2. InRing
      BY <2>1, <2>5 DEF RxHeld
    <3> HIDE DEF r, q
    <3>3. /\ r \o rdr \in Seq(Byte) /\ Len(r \o rdr) = Gap(tail, head) + Len(rdr)
          /\ \A k \in 1 .. Gap(tail, head) + Len(rdr) :
               (r \o rdr)[k] = IF k <= Gap(tail, head) THEN r[k] ELSE rdr[k - Gap(tail, head)]
      <4>1. r \in Seq(Byte) /\ rdr \in Seq(Byte) /\ Len(r) = Gap(tail, head)
        BY <2>3, <3>1
      <4>2. /\ r \o rdr \in Seq(Byte) /\ Len(r \o rdr) = Len(r) + Len(rdr)
            /\ \A k \in 1 .. Len(r) + Len(rdr) :
                 (r \o rdr)[k] = IF k <= Len(r) THEN r[k] ELSE rdr[k - Len(r)]
        BY <4>1, ConcatProperties
      <4> QED BY <4>1, <4>2
    <3>4. ASSUME NEW k \in 1 .. Len(owed) PROVE (r \o rdr)[k] = owed[k]
      <4>1. k \in 1 .. Gap(tail, head) + Len(rdr)
        BY <3>2 DEF InRing
      <4>2. CASE k <= Gap(tail, head)
        <5>1. k \in 1 .. Gap(tail, head)
          BY <2>2, <4>1, <4>2
        <5> QED BY <2>3, <3>2, <3>3, <4>1, <4>2, <5>1 DEF InRing
      <4>3. CASE ~(k <= Gap(tail, head))
        <5>1. rdr # << >> /\ Len(rdr) = 1
          <6>1. Len(rdr) # 0
            BY <2>2, <4>1, <4>3
          <6> QED BY <2>1, <6>1, RdrLength
        <5>2. k = Gap(tail, head) + 1 /\ k = Len(owed) /\ k - Gap(tail, head) = 1
          BY <2>2, <3>2, <4>1, <4>3, <5>1 DEF InRing
        <5>3. (r \o rdr)[k] = rdr[1]
          BY <3>3, <4>1, <4>3, <5>2
        <5> QED BY <3>2, <5>1, <5>2, <5>3 DEF InRing
      <4> QED BY <4>2, <4>3
    <3>5. Len(r \o rdr) = Len(owed)
      BY <3>2, <3>3 DEF InRing
    <3>6. r \o rdr = owed
      BY <2>1, <3>3, <3>4, <3>5, SeqEqual
    <3> QED BY <3>1, <3>6 DEF r, q
  <2> QED BY <2>4, <2>5
<1> QED BY SpecIInv, <1>1, PTL

(* Drained: with DMA reception, once the line is idle and the handler has  *)
(* run, the ring has every byte that came in.                              *)
THEOREM DrainedAlways == Spec => []Drained
<1>1. IInv => Drained
  BY DEF IInv, RxInv, RxQuiet, Drained
<1> QED BY SpecIInv, <1>1, PTL
=============================================================================
