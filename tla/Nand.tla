-------------------------------- MODULE Nand --------------------------------
(***************************************************************************)
(* bsp/openedv_stm32f4/nand.c: the raw NAND chip, as the translation layer *)
(* of ftl.c uses it.                                                       *)
(*                                                                         *)
(* A block is Pages pages of PageSectors sectors; a sector holds a member   *)
(* of Val.  Programming can only clear bits (Overlay), erasing a block     *)
(* sets them all.  Of a spare area the model keeps what ftl.c puts there:  *)
(* on page 0 the logical block number (bytes 2-3, tag) and the used mark   *)
(* (byte 1, used), on pages 0 and 1 the bad-block mark (byte 0, bad).      *)
(* weak holds the sectors whose stored ECC disagrees with their data by    *)
(* one bit, which nand_readpage corrects and reports as NSTA_ECC1BITERR.   *)
(*                                                                         *)
(* A command that does not become ready in time returns an error, whether  *)
(* or not the chip carried it out.  The chip's FAIL bit is never read.     *)
(***************************************************************************)
EXTENDS Integers, Sequences, FiniteSets

CONSTANTS
  Blocks,        \* nand_dev.block_totalnum
  Pages,         \* nand_dev.block_pagenum
  PageSectors,   \* nand_dev.page_mainsize / sector size
  Datum,         \* the sector contents a caller writes
  Blank,         \* a sector of FF bytes
  Zero,          \* a sector of 00 bytes
  Junk,          \* two contents programmed over each other
  Faults         \* the commands that may time out: "program", "erase", and "mark" for
                 \* the programs of a bad-block mark

ASSUME GeometryAssumption ==
  /\ Blocks \in Nat \ {0}
  /\ Pages \in Nat /\ Pages >= 2
  /\ PageSectors \in Nat \ {0}

ASSUME ValueAssumption ==
  /\ Blank \notin Datum \cup {Zero, Junk}
  /\ Zero \notin Datum \cup {Junk}
  /\ Junk \notin Datum

ASSUME FaultsAssumption == Faults \subseteq {"program", "erase", "mark"}

VARIABLES main, weak, tag, used, bad

flashVars == <<main, weak, tag, used, bad>>

Block        == 0 .. Blocks - 1
BlockSectors == Pages * PageSectors
Cell         == 0 .. BlockSectors - 1     \* a sector's place within its block
Val          == Datum \cup {Blank, Zero, Junk}
NoTag        == Blocks                    \* 0xFFFF, and any number past the last block
NoBlock      == Blocks                    \* 0xFFFFFFFF

PageOf(c) == c \div PageSectors
Erased    == [c \in Cell |-> Blank]

\* What a sector holds after v is programmed over u.
Overlay(u, v) ==
  IF u = Blank THEN v
  ELSE IF v = Blank \/ v = u THEN u
  ELSE IF Zero \in {u, v} THEN Zero ELSE Junk

FlashTypeOK ==
  /\ main \in [Block -> [Cell -> Val]]
  /\ weak \subseteq Block \X Cell
  /\ tag \in [Block -> 0 .. Blocks]
  /\ used \subseteq Block
  /\ bad \in [{0, 1} -> SUBSET Block]

\* How a command of a kind can end: ok is what the driver returns, done whether
\* the chip carried it out.  faults is the number of faults still allowed, and
\* a negative number stands for no limit.
Outcomes(kind, faults) ==
  {[ok |-> TRUE, done |-> TRUE]} \cup
  {o \in [ok : {FALSE}, done : BOOLEAN] : kind \in Faults /\ faults # 0}

\* nand_eraseblock
Erase(b) ==
  /\ main' = [main EXCEPT ![b] = Erased]
  /\ weak' = {w \in weak : w[1] # b}
  /\ tag' = [tag EXCEPT ![b] = NoTag]
  /\ used' = used \ {b}
  /\ bad' = [p \in {0, 1} |-> bad[p] \ {b}]

\* nand_writepage: the sectors of vals, from cell c on, within one page.
Program(b, c, vals) ==
  /\ main' = [main EXCEPT ![b] = [k \in Cell |->
                IF k - c + 1 \in 1 .. Len(vals)
                THEN Overlay(main[b][k], vals[k - c + 1]) ELSE main[b][k]]]
  /\ UNCHANGED <<weak, tag, used, bad>>

\* nand_write_pageconst over page p, with zeroes.
FillZero(b, p) ==
  /\ main' = [main EXCEPT ![b] = [k \in Cell |-> IF PageOf(k) = p THEN Zero ELSE main[b][k]]]
  /\ UNCHANGED <<weak, tag, used, bad>>

\* nand_copypage_withwrite, and with no vals nand_copypage_withoutwrite: page p of
\* src, spare area included, is programmed onto page p of dst; vals replace the
\* sectors from column col on.  The destination's tag is blank: dst was unused.
CopyPage(src, dst, p, col, vals) ==
  LET new(k) == k - (p * PageSectors + col) + 1
      fresh  == {k \in Cell : PageOf(k) = p /\ new(k) \notin 1 .. Len(vals)}
  IN /\ main' = [main EXCEPT ![dst] = [k \in Cell |->
                   IF PageOf(k) # p THEN main[dst][k]
                   ELSE Overlay(main[dst][k],
                                IF k \in fresh THEN main[src][k] ELSE vals[new(k)])]]
     /\ weak' = weak \cup {<<dst, k>> : k \in {j \in fresh : <<src, j>> \in weak}}
     /\ tag' = IF p = 0 THEN [tag EXCEPT ![dst] = tag[src]] ELSE tag
     /\ used' = IF p = 0 /\ src \in used THEN used \cup {dst} ELSE used
     /\ bad' = [q \in {0, 1} |-> IF q = p /\ src \in bad[q] THEN bad[q] \cup {dst}
                                 ELSE bad[q]]

\* nand_writespare with a logical block number, the used mark, the bad-block mark of page p.
\* Over another number only the bits of both remain: some number not above either.  What
\* the mark of page 0 does to the number and the used mark beside it is never read.
Merged(u, v) == IF u \in {NoTag, v} THEN {v} ELSE {t \in Block : t <= u /\ t <= v}

WriteTag(b, l) == /\ \E t \in Merged(tag[b], l) : tag' = [tag EXCEPT ![b] = t]
                  /\ UNCHANGED <<main, weak, used, bad>>
MarkUsed(b)    == used' = used \cup {b} /\ UNCHANGED <<main, weak, tag, bad>>
MarkBad(b, p)  == bad' = [bad EXCEPT ![p] = @ \cup {b}] /\ UNCHANGED <<main, weak, tag, used>>
=============================================================================
