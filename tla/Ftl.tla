--------------------------------- MODULE Ftl ---------------------------------
(***************************************************************************)
(* bsp/openedv_stm32f4/ftl.c: the flash translation layer.                 *)
(*                                                                         *)
(* A logical block is found on a physical one through a table kept in RAM  *)
(* and rebuilt from the spare areas at every start (Boot).  A write that   *)
(* cannot be programmed in place moves the block to an unused one, and so  *)
(* does a read that finds a correctable bit error.  The layer runs in one  *)
(* thread; what interrupts it is a power cut (PowerCut), which may come    *)
(* between any two commands sent to the chip, and commands that time out.  *)
(* Each action below sends at most one of them.                            *)
(***************************************************************************)
EXTENDS Nand, FiniteSetsExt

CONSTANTS
  MinBlocks,       \* ftl_create_lut, ftl_format: fewer blocks are a failure (100)
  FormatPercent,   \* ftl_format: the share of the good blocks given out (93)
  CheckPercent,    \* the start-up check of 54_usb_device_msc (90), 0: no check
  FactoryBad0,     \* the blocks the manufacturer marked bad on page 0,
  FactoryBad1,     \* and on page 1
  Starts, MaxLen,  \* the requests: first sectors, and the most sectors
  CutWhen,         \* where a power cut may come
  MaxOp, MaxCut, MaxRot,   \* bounds on the requests, the power cuts, the bit errors,
  MaxFault, MaxMark,       \* the timeouts, the marks not carried out (< 0: no bound)
  NoPromise        \* ghost: no promise about a sector

ASSUME ConfigAssumption ==
  /\ MinBlocks \in Nat \ {0} /\ FormatPercent \in 1 .. 99 /\ CheckPercent \in 0 .. 99
  /\ FactoryBad0 \subseteq Block /\ FactoryBad1 \subseteq Block
  /\ Starts \subseteq Nat /\ MaxLen \in Nat \ {0}
  /\ MaxOp \in Nat /\ MaxCut \in Nat /\ MaxRot \in Nat /\ MaxFault \in Int /\ MaxMark \in Int
  /\ MinBlocks * FormatPercent >= 100     \* so that a format tags at least one block
  /\ NoPromise \notin Val

VARIABLES
  lut, good, valid,   \* nand_dev.lut, good_blocknum, valid_blocknum
  cur,                \* the static curblock of ftl_find_same_plane_unused_block
  pc,                 \* where the layer stands
  job,                \* the request: the locals of ftl_write_sectors, ftl_read_sectors;
                      \* between requests, what the last one returned
  cp,                 \* the locals of ftl_copy_and_write_to_block
  loop,               \* the counters of ftl_format and ftl_blockcompare
  acked,              \* ghost: what was last acknowledged for a sector
  torn,               \* ghost: logical blocks whose move went wrong (see CopyFind, CopyPageStep,
                      \* CopyMark2, CopyErase, PowerCut), and those that a format left on
                      \* blocks it could neither erase nor mark (FmtErased, FmtTag)
  adrift,             \* ghost: logical blocks refreshed with no unused block left, moved to
                      \* a block that is marked on page 1 only, and those that shared a
                      \* block with one (see CopyNoBlock, CopyFind, Entangled)
  cap,                \* ghost: the logical blocks the last format handed out
  left                \* what is left of the bounds

ramVars   == <<lut, good, valid, cur>>
ghostVars == <<acked, torn, adrift, cap>>
vars      == <<flashVars, ramVars, pc, job, cp, loop, ghostVars, left>>

Sector == 0 .. Blocks * BlockSectors - 1
Lbn(s)    == s \div BlockSectors
CellOf(s) == s % BlockSectors
Least(a, b) == IF a <= b THEN a ELSE b

PCs == {"off", "fmtErase", "fmtMark", "fmtMark2", "fmtTag", "ready", "write", "wrUsed",
        "cpFind", "cpPage", "cpMark", "cpMark2", "cpUsed", "cpErase",
        "read", "rfBlank", "rfZero", "rfFill", "rfErase", "rfMark", "rfMark2"}

Idle == [kind |-> "none", sec |-> 0, len |-> 0, data |-> << >>, i |-> 0, w |-> 0,
         marked |-> NoBlock, ret |-> "none"]
NoCopy == [src |-> NoBlock, page |-> 0, col |-> 0, buf |-> << >>, dst |-> NoBlock, pg |-> 0]
NoLoop == [i |-> 0, n |-> 0, fail |-> FALSE]

Init ==
  /\ main = [b \in Block |-> Erased]
  /\ weak = {}
  /\ tag = [b \in Block |-> NoTag]
  /\ used = {}
  /\ bad = [p \in {0, 1} |-> IF p = 0 THEN FactoryBad0 ELSE FactoryBad1]
  /\ lut = [l \in Block |-> 0] /\ good = 0 /\ valid = 0 /\ cur = NoBlock
  /\ pc = "off" /\ job = Idle /\ cp = NoCopy /\ loop = NoLoop
  /\ acked = [s \in Sector |-> NoPromise] /\ torn = {} /\ adrift = {} /\ cap = 0
  /\ left = [op |-> MaxOp, cut |-> MaxCut, rot |-> MaxRot,
             fault |-> MaxFault, mark |-> MaxMark]

\* How a command of a kind may end here; Spend takes a fault off its bound.
Ends(kind) == Outcomes(kind, left.fault)
Spend(o) == left' = [left EXCEPT !.fault = IF o.ok \/ @ <= 0 THEN @ ELSE @ - 1]

Bad == bad[0] \cup bad[1]

\* One of the two commands of ftl_badblock_mark; how it ends is not looked at.
MarkPage(b, p) ==
  \E done \in {o.done : o \in Outcomes("mark", left.mark)} :
    /\ left' = [left EXCEPT !.mark = IF done \/ @ <= 0 THEN @ ELSE @ - 1]
    /\ IF done THEN MarkBad(b, p) ELSE UNCHANGED flashVars

(***************************************************************************)
(* ftl_create_lut(1)                                                       *)
(***************************************************************************)
\* The blocks that carry logical block l, with the marks bd and the tags tg.
Carriers(l, bd, tg) == {b \in Block : b \notin bd[0] \cup bd[1] /\ tg[b] = l}

\* A slip in LutOf: the bad-block marks are not looked at.
LutOfUnchecked(bd, tg) ==
  [l \in Block |-> LET C == {b \in Block : tg[b] = l} IN IF C = {} THEN NoBlock ELSE Max(C)]

\* The highest block with a tag wins: the scan goes up and overwrites.
LutOf(bd, tg) ==
  [l \in Block |-> LET C == Carriers(l, bd, tg) IN IF C = {} THEN NoBlock ELSE Max(C)]

\* valid_blocknum: the first logical block nobody carries.
ValidOf(table, v) ==
  LET holes == {l \in Block : table[l] = NoBlock} IN IF holes = {} THEN v ELSE Min(holes)

CreateLut(bd, tg) ==
  /\ lut' = LutOf(bd, tg)
  /\ good' = Cardinality(Block \ (bd[0] \cup bd[1]))
  /\ valid' = ValidOf(lut', valid)

(***************************************************************************)
(* ftl_init, ftl_format                                                    *)
(***************************************************************************)
\* Boot fails over to a format when too few blocks are found: ftl_init below
\* MinBlocks, 54_usb_device_msc below CheckPercent of the good ones.
StartFormat ==
  /\ pc' = "fmtErase"
  /\ loop' = NoLoop
  /\ acked' = [s \in Sector |-> NoPromise] /\ cap' = 0

Boot ==
  /\ pc = "off"
  /\ lut' = LutOf(bad, tag)
  /\ valid' = ValidOf(lut', valid)
  /\ LET g == Cardinality(Block \ Bad) IN
       IF valid' < MinBlocks \/ valid' < (g * CheckPercent) \div 100
       THEN good' = 0 /\ StartFormat
       ELSE /\ good' = g
            /\ pc' = "ready"
            /\ cap' = IF cap = 0 THEN valid' ELSE cap
            /\ UNCHANGED <<loop, acked>>
  /\ UNCHANGED <<flashVars, cur, job, cp, torn, adrift, left>>

\* One block of the first pass: erased if it is not marked; marked if that fails.
FmtErase ==
  /\ pc = "fmtErase" /\ loop.i < Blocks
  /\ IF loop.i \in Bad
     THEN loop' = [loop EXCEPT !.i = @ + 1] /\ UNCHANGED <<flashVars, good, pc, left>>
     ELSE \E o \in Ends("erase") :
            /\ Spend(o)
            /\ IF o.done THEN Erase(loop.i) ELSE UNCHANGED flashVars
            /\ IF o.ok THEN loop' = [loop EXCEPT !.i = @ + 1] /\ good' = good + 1 /\ pc' = pc
                       ELSE pc' = "fmtMark" /\ UNCHANGED <<loop, good>>
  /\ UNCHANGED <<lut, valid, cur, job, cp, ghostVars>>

FmtMark ==
  /\ pc = "fmtMark"
  /\ MarkPage(loop.i, 0)
  /\ pc' = "fmtMark2"
  /\ UNCHANGED <<ramVars, job, cp, loop, ghostVars>>

FmtMark2 ==
  /\ pc = "fmtMark2"
  /\ MarkPage(loop.i, 1)
  /\ pc' = "fmtErase" /\ loop' = [loop EXCEPT !.i = @ + 1]
  /\ UNCHANGED <<ramVars, job, cp, ghostVars>>

\* The numbers still on unmarked blocks are those that could be neither erased nor marked.
FmtErased ==
  /\ pc = "fmtErase" /\ loop.i = Blocks
  /\ pc' = IF good < MinBlocks THEN "off" ELSE "fmtTag"
  /\ loop' = NoLoop
  /\ torn' = {tag[b] : b \in Block \ Bad} \ {NoTag} /\ adrift' = {}
  /\ UNCHANGED <<flashVars, ramVars, job, cp, acked, cap, left>>

\* One block of the second pass; the result of the spare write is not looked at, nor
\* whether the first pass erased the block.
FmtTag ==
  /\ pc = "fmtTag" /\ loop.i < Blocks /\ loop.n # (good * FormatPercent) \div 100
  /\ IF loop.i \in Bad
     THEN loop' = [loop EXCEPT !.i = @ + 1] /\ UNCHANGED <<flashVars, torn, left>>
     ELSE /\ loop' = [loop EXCEPT !.i = @ + 1, !.n = @ + 1]
          /\ \E o \in Ends("program") :
               /\ Spend(o)
               /\ IF o.done THEN WriteTag(loop.i, loop.n) ELSE UNCHANGED flashVars
          /\ torn' = IF main[loop.i] = Erased /\ tag[loop.i] = NoTag THEN torn
                     ELSE torn \cup ({tag'[loop.i]} \ {NoTag})
  /\ UNCHANGED <<ramVars, pc, job, cp, acked, adrift, cap>>

FmtTagged ==
  /\ pc = "fmtTag"
  /\ loop.i = Blocks \/ loop.n = (good * FormatPercent) \div 100
  /\ CreateLut(bad, tag)
  /\ IF valid' < MinBlocks THEN pc' = "off" /\ cap' = 0 ELSE pc' = "ready" /\ cap' = valid'
  /\ loop' = NoLoop
  /\ UNCHANGED <<flashVars, cur, job, cp, acked, torn, adrift, left>>

(***************************************************************************)
(* ftl_write_sectors                                                       *)
(***************************************************************************)
\* ftl_lbn_to_pbn
Pbn(l) == IF l > valid \/ l \notin Block THEN NoBlock ELSE lut[l]

Here     == job.sec + job.i                    \* the sector the request has come to
HereLbn  == Lbn(Here)
HereBlk  == Pbn(HereLbn)
HereCell == CellOf(Here)
HereCol  == HereCell % PageSectors             \* pageoffset, in sectors
\* The sectors that follow in this page, and in this block.
InPage   == Least(job.len - job.i, PageSectors - HereCol)
InBlock  == Least(job.len - job.i, BlockSectors - HereCell)
Chunk(n) == SubSeq(job.data, job.i + 1, job.i + n)

Return(r)  == [Idle EXCEPT !.ret = r]
Advance(n) == job' = [job EXCEPT !.i = @ + n]

BeginWrite(s, d) ==
  /\ pc = "ready" /\ left.op > 0
  /\ pc' = "write"
  /\ job' = [Idle EXCEPT !.kind = "write", !.sec = s, !.len = Len(d), !.data = d]
  /\ acked' = [t \in Sector |-> IF t \in s .. s + Len(d) - 1 THEN NoPromise ELSE acked[t]]
  /\ left' = [left EXCEPT !.op = @ - 1]
  /\ UNCHANGED <<flashVars, ramVars, cp, loop, torn, adrift, cap>>

WriteDone ==
  /\ pc = "write" /\ job.i >= job.len
  /\ pc' = "ready"
  /\ acked' = [t \in Sector |-> IF t \in job.sec .. job.sec + job.len - 1
                                THEN job.data[t - job.sec + 1] ELSE acked[t]]
  /\ job' = Return("ok")
  /\ UNCHANGED <<flashVars, ramVars, cp, loop, torn, adrift, cap, left>>

\* A request that runs past the last logical block fails, here for reads too.
Outside ==
  /\ pc \in {"write", "read"} /\ job.i < job.len
  /\ HereBlk = NoBlock
  /\ pc' = "ready" /\ job' = Return("error")
  /\ UNCHANGED <<flashVars, ramVars, cp, loop, ghostVars, left>>

\* Of the numbers the table leads to this block one is adrift: the others go with it.
Entangled ==
  LET here == {l \in Block : lut[l] = HereBlk} IN IF here \cap adrift = {} THEN {} ELSE here

\* ftl_copy_and_write_to_block(page, column, buf) is entered with n sectors of work.
StartCopy(n, buf) ==
  /\ pc' = "cpFind"
  /\ cp' = [src |-> HereBlk, page |-> PageOf(HereCell), col |-> HereCol,
            buf |-> buf, dst |-> NoBlock, pg |-> 0]
  /\ job' = [job EXCEPT !.w = n]
  /\ adrift' = adrift \cup Entangled

\* A slip in Unwritten: only the first sector of the chunk is compared.
UnwrittenFirst == main[HereBlk][HereCell] = Blank

Unwritten == \A k \in HereCell .. HereCell + InPage - 1 : main[HereBlk][k] = Blank

\* A slip in WriteInPlace: the result of the programming is not looked at.
WriteInPlaceUnchecked ==
  /\ pc = "write" /\ job.i < job.len /\ HereBlk # NoBlock
  /\ Unwritten
  /\ \E o \in Ends("program") :
       /\ Spend(o)
       /\ IF o.done THEN Program(HereBlk, HereCell, Chunk(InPage)) ELSE UNCHANGED flashVars
  /\ Advance(InPage)
  /\ UNCHANGED <<ramVars, pc, cp, loop, ghostVars>>

\* The page's sectors are still erased: they are programmed where they are.
WriteInPlace ==
  /\ pc = "write" /\ job.i < job.len /\ HereBlk # NoBlock
  /\ Unwritten
  /\ \E o \in Ends("program") :
       /\ Spend(o)
       /\ IF o.done THEN Program(HereBlk, HereCell, Chunk(InPage)) ELSE UNCHANGED flashVars
       /\ IF ~o.ok THEN StartCopy(InBlock, Chunk(InBlock))
          ELSE /\ UNCHANGED <<cp, adrift>>
               /\ IF job.marked = HereBlk THEN pc' = pc /\ Advance(InPage)
                  ELSE pc' = "wrUsed" /\ job' = job
  /\ UNCHANGED <<ramVars, loop, acked, torn, cap>>

\* ftl_used_blockmark of the block just programmed.
WriteMark ==
  /\ pc = "wrUsed"
  /\ \E o \in Ends("program") :
       /\ Spend(o)
       /\ IF o.done THEN MarkUsed(HereBlk) ELSE UNCHANGED flashVars
       /\ IF o.ok THEN /\ pc' = "write"
                       /\ job' = [job EXCEPT !.i = @ + InPage, !.marked = HereBlk]
                       /\ UNCHANGED <<cp, adrift>>
          ELSE /\ pc' = "cpFind"
               /\ cp' = [src |-> HereBlk, page |-> PageOf(HereCell),
                         col |-> HereCol, buf |-> Chunk(InBlock),
                         dst |-> NoBlock, pg |-> 0]
               /\ job' = [job EXCEPT !.w = InBlock, !.marked = HereBlk]
               /\ adrift' = adrift \cup Entangled
  /\ UNCHANGED <<ramVars, loop, acked, torn, cap>>

WriteMove ==
  /\ pc = "write" /\ job.i < job.len /\ HereBlk # NoBlock
  /\ ~Unwritten
  /\ StartCopy(InBlock, Chunk(InBlock))
  /\ UNCHANGED <<flashVars, ramVars, loop, acked, torn, cap, left>>

(***************************************************************************)
(* ftl_copy_and_write_to_block                                             *)
(***************************************************************************)
\* A slip in Unused: the tag is not looked at.
UnusedAnyTag(b) == b \notin bad[0] /\ b \notin used

\* ftl_find_unused_block: the first four spare bytes of page 0 are FF.
Unused(b) == b \notin bad[0] /\ b \notin used /\ tag[b] = NoTag

UnusedUpTo(c, plane) == {b \in 0 .. c : b % 2 = plane /\ Unused(b)}

\* ftl_find_same_plane_unused_block: down from cur, then down from the top.
SamePlaneUnused(src) ==
  LET from  == Least(cur, Blocks - 1)
      near  == UnusedUpTo(from, src % 2)
      all   == UnusedUpTo(Blocks - 1, src % 2)
  IN IF near # {} THEN Max(near) ELSE IF all # {} THEN Max(all) ELSE NoBlock

\* A slip in CopyFind: that no block may be left is forgotten.
CopyFindUnchecked ==
  /\ pc = "cpFind"
  /\ pc' = "cpPage"
  /\ cur' = SamePlaneUnused(cp.src)
  /\ cp' = [cp EXCEPT !.dst = SamePlaneUnused(cp.src), !.pg = 0]
  /\ UNCHANGED <<flashVars, lut, good, valid, job, loop, ghostVars, left>>

\* Nothing looks whether the unused block is erased, or whether its second page is marked.
CopyFind ==
  /\ pc = "cpFind"
  /\ SamePlaneUnused(cp.src) # NoBlock
  /\ pc' = "cpPage"
  /\ cur' = SamePlaneUnused(cp.src)
  /\ cp' = [cp EXCEPT !.dst = SamePlaneUnused(cp.src), !.pg = 0]
  /\ torn' = IF main[cp'.dst] = Erased THEN torn ELSE torn \cup {HereLbn}
  /\ adrift' = IF cp'.dst \in bad[1] THEN adrift \cup {HereLbn, tag[cp.src]} ELSE adrift
  /\ UNCHANGED <<flashVars, lut, good, valid, job, loop, acked, cap, left>>

\* No block is left: the write fails; the read goes on as if the copy were made.
CopyNoBlock ==
  /\ pc = "cpFind"
  /\ SamePlaneUnused(cp.src) = NoBlock
  /\ cur' = Blocks - 1
  /\ IF job.kind = "write"
     THEN pc' = "ready" /\ job' = Return("error") /\ cp' = NoCopy /\ UNCHANGED <<loop, adrift>>
     ELSE /\ pc' = "rfBlank" /\ loop' = NoLoop /\ adrift' = adrift \cup {HereLbn, tag[cp.src]}
          /\ UNCHANGED <<job, cp>>
  /\ UNCHANGED <<flashVars, lut, good, valid, acked, torn, cap, left>>

\* One page.  The new data, its column and its length are used up whether or not
\* the page was programmed: a retry writes what is left of them.
CopyPageStep ==
  /\ pc = "cpPage"
  /\ LET w == IF cp.pg >= cp.page THEN Least(Len(cp.buf), PageSectors - cp.col) ELSE 0
     IN \E o \in Ends("program") :
          /\ Spend(o)
          /\ IF o.done THEN CopyPage(cp.src, cp.dst, cp.pg, cp.col, SubSeq(cp.buf, 1, w))
                       ELSE UNCHANGED flashVars
          /\ cp' = [cp EXCEPT !.pg = @ + 1, !.col = IF w > 0 THEN 0 ELSE @,
                              !.buf = SubSeq(@, w + 1, Len(@))]
          /\ pc' = IF ~o.ok THEN "cpMark" ELSE IF cp.pg = Pages - 1 THEN "cpUsed" ELSE pc
          /\ torn' = IF ~o.ok /\ cp.pg >= cp.page THEN torn \cup {HereLbn} ELSE torn
  /\ UNCHANGED <<ramVars, job, loop, acked, adrift, cap>>

\* A slip in CopyMark: the first page is not marked.
CopyMarkNot ==
  /\ pc = "cpMark"
  /\ pc' = "cpMark2"
  /\ UNCHANGED <<flashVars, ramVars, job, cp, loop, ghostVars, left>>

\* A slip in CopyMark: the source is marked instead of the copy.
CopyMarkSource ==
  /\ pc = "cpMark"
  /\ MarkPage(cp.src, 0)
  /\ pc' = "cpMark2"
  /\ UNCHANGED <<ramVars, job, cp, loop, ghostVars>>

\* The block that failed is marked bad, page 0 ...
CopyMark ==
  /\ pc = "cpMark"
  /\ MarkPage(cp.dst, 0)
  /\ pc' = "cpMark2"
  /\ UNCHANGED <<ramVars, job, cp, loop, ghostVars>>

\* ... and page 1, and the table is made again.  If neither mark is on the chip, the
\* table may lead to the unfinished copy.
CopyMark2 ==
  /\ pc = "cpMark2"
  /\ MarkPage(cp.dst, 1)
  /\ CreateLut(bad', tag)
  /\ torn' = IF cp.dst \in Bad' \/ tag[cp.dst] = NoTag THEN torn ELSE torn \cup {HereLbn}
  /\ pc' = "cpFind"
  /\ UNCHANGED <<cur, job, cp, loop, acked, adrift, cap>>

CopyUsed ==
  /\ pc = "cpUsed"
  /\ \E o \in Ends("program") :
       Spend(o) /\ IF o.done THEN MarkUsed(cp.dst) ELSE UNCHANGED flashVars
  /\ pc' = "cpErase"
  /\ UNCHANGED <<ramVars, job, cp, loop, ghostVars>>

\* The source is erased, whatever comes of it, and the table led to the copy.
CopyErase ==
  /\ pc = "cpErase"
  /\ \E o \in Ends("erase") :
       /\ Spend(o)
       /\ IF o.done THEN Erase(cp.src) ELSE UNCHANGED flashVars
       /\ torn' = IF o.done THEN torn ELSE torn \cup {HereLbn}
  /\ LET at == {l \in Block : lut[l] = cp.src}
     IN lut' = IF at = {} THEN lut ELSE [lut EXCEPT ![Min(at)] = cp.dst]
  /\ IF job.kind = "write"
     THEN pc' = "write" /\ Advance(job.w) /\ cp' = NoCopy /\ UNCHANGED loop
     ELSE pc' = "rfBlank" /\ loop' = NoLoop /\ UNCHANGED <<job, cp>>
  /\ UNCHANGED <<good, valid, cur, acked, adrift, cap>>

(***************************************************************************)
(* ftl_read_sectors                                                        *)
(***************************************************************************)
BeginRead(s, n) ==
  /\ pc = "ready" /\ left.op > 0
  /\ pc' = "read"
  /\ job' = [Idle EXCEPT !.kind = "read", !.sec = s, !.len = n]
  /\ left' = [left EXCEPT !.op = @ - 1]
  /\ UNCHANGED <<flashVars, ramVars, cp, loop, ghostVars>>

ReadDone ==
  /\ pc = "read" /\ job.i >= job.len
  /\ pc' = "ready" /\ job' = Return("ok")
  /\ UNCHANGED <<flashVars, ramVars, cp, loop, ghostVars, left>>

PageWeak == \E k \in HereCell .. HereCell + InPage - 1 : <<HereBlk, k>> \in weak

ReadPage ==
  /\ pc = "read" /\ job.i < job.len /\ HereBlk # NoBlock
  /\ ~PageWeak
  /\ Advance(InPage)
  /\ UNCHANGED <<flashVars, ramVars, pc, cp, loop, ghostVars, left>>

\* NSTA_ECC1BITERR twice: the block is moved, with the corrected sectors.
ReadRefresh ==
  /\ pc = "read" /\ job.i < job.len /\ HereBlk # NoBlock
  /\ PageWeak
  /\ StartCopy(InPage, SubSeq([k \in 1 .. BlockSectors |-> main[HereBlk][k - 1]],
                              HereCell + 1, HereCell + InPage))
  /\ UNCHANGED <<flashVars, ramVars, loop, acked, torn, cap, left>>

FirstPageIs(b, v) == \A k \in Cell : PageOf(k) = 0 => main[b][k] = v

\* ftl_blockcompare(block, 0xFFFFFFFF): three tries to find the first page erased.
RefreshBlank ==
  /\ pc = "rfBlank"
  /\ UNCHANGED <<ramVars, job, cp, ghostVars>>
  /\ \/ /\ loop.i < 3 /\ FirstPageIs(cp.src, Blank)
        /\ pc' = "rfZero" /\ loop' = NoLoop
        /\ UNCHANGED <<flashVars, left>>
     \/ /\ loop.i < 3 /\ ~FirstPageIs(cp.src, Blank)
        /\ loop' = [loop EXCEPT !.i = @ + 1]
        /\ pc' = pc
        /\ \E o \in Ends("erase") :
             Spend(o) /\ IF o.done THEN Erase(cp.src) ELSE UNCHANGED flashVars
     \/ /\ loop.i = 3
        /\ pc' = "rfMark"
        /\ UNCHANGED <<flashVars, loop, left>>

\* ftl_blockcompare(block, 0): the same with the pages zeroed after each erase.
RefreshZero ==
  /\ pc = "rfZero"
  /\ UNCHANGED <<ramVars, job, cp, ghostVars>>
  /\ \/ /\ loop.i = 3 \/ FirstPageIs(cp.src, Zero)
        /\ pc' = "rfErase" /\ loop' = [NoLoop EXCEPT !.fail = loop.i = 3]
        /\ UNCHANGED <<flashVars, left>>
     \/ /\ loop.i < 3 /\ ~FirstPageIs(cp.src, Zero)
        /\ \E o \in Ends("erase") :
             /\ Spend(o)
             /\ IF o.done THEN Erase(cp.src) ELSE UNCHANGED flashVars
             /\ IF o.ok THEN pc' = "rfFill" /\ loop' = [loop EXCEPT !.n = 0]
                        ELSE pc' = pc /\ loop' = [loop EXCEPT !.i = @ + 1]

\* One page zeroed; the result is not looked at.
RefreshFill ==
  /\ pc = "rfFill"
  /\ \E o \in Ends("program") :
       Spend(o) /\ IF o.done THEN FillZero(cp.src, loop.n) ELSE UNCHANGED flashVars
  /\ IF loop.n = Pages - 1 THEN pc' = "rfZero" /\ loop' = [loop EXCEPT !.i = @ + 1, !.n = 0]
                           ELSE pc' = pc /\ loop' = [loop EXCEPT !.n = @ + 1]
  /\ UNCHANGED <<ramVars, job, cp, ghostVars>>

RefreshErase ==
  /\ pc = "rfErase"
  /\ \E o \in Ends("erase") :
       Spend(o) /\ IF o.done THEN Erase(cp.src) ELSE UNCHANGED flashVars
  /\ loop' = NoLoop
  /\ IF loop.fail THEN pc' = "rfMark" /\ UNCHANGED <<job, cp>>
                  ELSE pc' = "read" /\ Advance(job.w) /\ cp' = NoCopy
  /\ UNCHANGED <<ramVars, ghostVars>>

RefreshMark ==
  /\ pc = "rfMark"
  /\ MarkPage(cp.src, 0)
  /\ pc' = "rfMark2"
  /\ UNCHANGED <<ramVars, job, cp, loop, ghostVars>>

RefreshMark2 ==
  /\ pc = "rfMark2"
  /\ MarkPage(cp.src, 1)
  /\ CreateLut(bad', tag)
  /\ pc' = "read" /\ Advance(job.w) /\ cp' = NoCopy /\ loop' = NoLoop
  /\ UNCHANGED <<cur, ghostVars>>

(***************************************************************************)
(* The environment                                                         *)
(***************************************************************************)
\* A bit of a programmed sector flips (noticed, and corrected, by the next read).
BitError ==
  /\ pc = "ready" /\ left.rot > 0
  /\ \E b \in Block, k \in Cell : main[b][k] # Blank /\ weak' = weak \cup {<<b, k>>}
  /\ left' = [left EXCEPT !.rot = @ - 1]
  /\ UNCHANGED <<main, tag, used, bad, ramVars, pc, job, cp, loop, ghostVars>>

\* Power is lost, and the RAM with it.  If a block is being moved, and the copy has
\* a tag already and no mark, two blocks claim the same number and the copy may be
\* unfinished.
Moving == /\ pc \in {"cpPage", "cpMark", "cpMark2", "cpUsed", "cpErase"}
          /\ cp.dst \notin Bad /\ tag[cp.dst] # NoTag

PowerCut ==
  /\ pc # "off" /\ pc \in CutWhen /\ left.cut > 0
  /\ pc' = "off"
  /\ lut' = [l \in Block |-> 0] /\ good' = 0 /\ valid' = 0 /\ cur' = NoBlock
  /\ job' = Idle /\ cp' = NoCopy /\ loop' = NoLoop
  /\ torn' = IF Moving THEN torn \cup {HereLbn} ELSE torn
  /\ left' = [left EXCEPT !.cut = @ - 1]
  /\ UNCHANGED <<flashVars, acked, adrift, cap>>

Request ==
  \/ \E s \in Starts, n \in 1 .. MaxLen :
       \/ \E d \in [1 .. n -> Datum] : BeginWrite(s, d)
       \/ BeginRead(s, n)

Step == \/ Boot \/ FmtErase \/ FmtMark \/ FmtMark2 \/ FmtErased \/ FmtTag \/ FmtTagged
        \/ WriteDone \/ Outside \/ WriteInPlace \/ WriteMark \/ WriteMove
        \/ CopyFind \/ CopyNoBlock \/ CopyPageStep \/ CopyMark \/ CopyMark2
        \/ CopyUsed \/ CopyErase
        \/ ReadDone \/ ReadPage \/ ReadRefresh
        \/ RefreshBlank \/ RefreshZero \/ RefreshFill \/ RefreshErase
        \/ RefreshMark \/ RefreshMark2

Next == Step \/ Request \/ BitError \/ PowerCut

Spec     == Init /\ [][Next]_vars
FairSpec == Spec /\ WF_vars(Step)

-----------------------------------------------------------------------------
Formatting == {"fmtErase", "fmtMark", "fmtMark2", "fmtTag"}
Copying    == {"cpPage", "cpMark", "cpMark2", "cpUsed", "cpErase"}
Refreshing == {"rfBlank", "rfZero", "rfFill", "rfErase", "rfMark", "rfMark2"}

Jobs   == [kind : {"none", "write", "read"}, sec : Nat, len : Nat, data : Seq(Datum),
           i : Nat, w : Nat, marked : 0 .. Blocks, ret : {"none", "ok", "error"}]
Copies == [src : 0 .. Blocks, page : Nat, col : 0 .. PageSectors - 1, buf : Seq(Val),
           dst : 0 .. Blocks, pg : 0 .. Pages]
Loops  == [i : Nat, n : Nat, fail : BOOLEAN]

RamTypeOK ==
  /\ lut \in [Block -> 0 .. Blocks]
  /\ good \in 0 .. Blocks /\ valid \in 0 .. Blocks /\ cur \in 0 .. Blocks
  /\ cap \in 0 .. Blocks

JobTypeOK ==
  /\ job \in Jobs
  /\ job.i <= job.len
  /\ job.kind = "write" => Len(job.data) = job.len

\* What the control state says of the locals: a request never runs past its length, a
\* copy has a source and, once found, a destination.
ControlOK ==
  /\ pc \in PCs
  /\ pc = "fmtErase" => loop.i <= Blocks /\ good <= loop.i
  /\ pc \in {"fmtMark", "fmtMark2"} => loop.i \in Block /\ good <= loop.i
  /\ pc = "fmtTag" => loop.i <= Blocks /\ loop.n <= loop.i
  /\ pc \in {"write", "wrUsed"} => job.kind = "write"
  /\ pc = "wrUsed" => job.i < job.len /\ HereBlk \in Block
  /\ pc \in {"cpFind"} \cup Copying \cup Refreshing =>
       cp.src \in Block /\ job.i + job.w <= job.len
  /\ pc \in Copying => cp.dst \in Block
  /\ pc = "cpPage" => cp.pg < Pages
  /\ pc = "rfFill" => loop.n < Pages

\* The types, and the bounds above.
TypeOK == FlashTypeOK /\ RamTypeOK /\ JobTypeOK /\ cp \in Copies /\ loop \in Loops /\ ControlOK

Mounted == pc \notin {"off"} \cup Formatting

\* The table in RAM leads every logical block to a block without a bad mark that carries
\* its number (so two never lead to the same block).
LutCoherent ==
  Mounted => \A l \in (0 .. cap - 1) \ adrift : lut[l] \in Carriers(l, bad, tag)

\* A logical block that was handed out is on the chip, whatever failed or was cut.
NoLbnLost ==
  \A l \in (0 .. cap - 1) \ adrift : Carriers(l, bad, tag) # {}

\* A chip that has been formatted is not formatted again.
NoReformat == [][cap > 0 /\ adrift = {} => pc' # "fmtErase"]_vars

Stored(s) == main[lut[Lbn(s)]][CellOf(s)]

\* What was acknowledged is what a read finds.
ReadBack ==
  Mounted =>
    \A s \in Sector :
      (acked[s] # NoPromise /\ Lbn(s) \notin torn \cup adrift) => Stored(s) = acked[s]

\* When ftl_write_sectors is about to return 0, the sectors hold what it was given
\* (41_nand then reports "Write data successed").
WriteTold ==
  (pc = "write" /\ job.i >= job.len) =>
    \A k \in 1 .. job.len : Stored(job.sec + k - 1) = job.data[k]

\* After one format the chip is never formatted again, refreshes included.
FormatOnce == [][cap > 0 => pc' # "fmtErase"]_vars

\* A request ends, however many programs and erases time out, as long as the marks that
\* are not carried out are finitely many (MaxMark): the retry of a move ends only because
\* its marks take one block after the other out of the search.
RequestsEnd == pc \in {"write", "read"} ~> pc \in {"ready", "off"}

-----------------------------------------------------------------------------
\* The sectors as a read finds them, and with the power off as the next start will.
Contents ==
  LET table == IF Mounted THEN lut ELSE LutOf(bad, tag)
  IN [s \in Sector |-> IF Lbn(s) < cap THEN main[table[Lbn(s)]][CellOf(s)] ELSE Blank]

\* The layer implements a plain array of sectors.
Store == INSTANCE SectorStore WITH
  store   <- Contents,
  pending <- IF job.kind = "write" THEN <<job.sec, job.data>> ELSE << >>,
  answer  <- job.ret

StoreSpec == Store!Spec

\* As long as nothing is torn or adrift, whatever fails or is cut besides, every step is
\* one of the array's or cannot be seen.
Intact    == torn = {} /\ adrift = {}
StoreStep == [][Intact /\ Intact' => (Store!Next \/ UNCHANGED Store!vars)]_vars
=============================================================================
